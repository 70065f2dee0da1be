---------------------------- MODULE MCConsensus ----------------------------
(* Small instances of Consensus: three slices of the inputs.                 *)
EXTENDS Consensus, TLC

CONSTANTS alt1, alt2, alt3, i1, i2, k1, k2, p1, p2

Defaults ==
  [use_confidence |-> FALSE, abstain_policy |-> "EXCLUDE",
   agreement_threshold |-> (66 * Unit) \div 100, partial_threshold |-> Unit \div 2,
   alpha |-> Unit \div 2, evidence_weight |-> (4 * Unit) \div 10, lambda |-> Unit \div 2,
   independence_cap |-> 2, epsilon |-> Unit \div 100, min_flip_distance |-> Unit \div 20,
   allow_unevidenced |-> FALSE]

Citation(verification, trust, polarity, publisher) ==
  [verification |-> verification, trust_level |-> trust, polarity |-> polarity,
   publisher |-> publisher]

Evidence ==
  [strong |-> Citation("CROSS_CHECKED", "PRIMARY", "SUPPORT", p1),
   weak |-> Citation("UNVERIFIED", "SECONDARY", "SUPPORT", p2),
   against |-> Citation("SOURCE_VERIFIED", "AUTHORITATIVE", "OPPOSE", p1),
   rejected |-> Citation("REJECTED", "PRIMARY", "SUPPORT", p1),
   generated |-> Citation("CROSS_CHECKED", "SYNTHETIC", "SUPPORT", p2)]

Position(agent, alternative, stance, confidence, cited) ==
  [agent |-> agent, alternative |-> alternative, stance |-> stance, confidence |-> confidence,
   evidence_ids |-> cited]

Critique(resolution) == [severity |-> "BLOCKING", resolution |-> resolution]

NoObjectives == <<>>

Context(alternatives, positions, feasibility, critiques, objectives, values, params) ==
  [alternatives |-> alternatives, positions |-> positions, evidence |-> Evidence,
   critiques |-> critiques, objectives |-> objectives, values |-> values,
   feasibility |-> feasibility, params |-> params]

(* Whether confidence counts, and how abstentions do. *)
Ways == {<<FALSE, "EXCLUDE">>, <<TRUE, "HALF">>}

(* What the solver says of the two alternatives. *)
Feasibilities ==
  {<<"SAT", "SAT">>, <<"SAT", "UNSAT">>, <<"UNKNOWN", "SAT">>, <<"UNSAT", "UNKNOWN">>,
   <<"UNKNOWN", "UNKNOWN">>, <<"UNSAT", "UNSAT">>}

(* Two agents' opinions of two alternatives, feasible or not, one valued     *)
(* higher; confidence, abstentions and a blocking critique.                  *)
Opinion(s1, s2, s3, other, cited, f, resolution, way) ==
  Context(<<alt1, alt2>>,
          {Position(i1, alt1, s1, Unit \div 2, cited), Position(i2, alt1, s2, Unit, cited),
           Position(i1, alt2, s3, Unit, <<"weak">>)} \cup other,
          (alt1 :> f[1]) @@ (alt2 :> f[2]), {Critique(resolution)},
          k1 :> [weight |-> Unit, conflicts |-> FALSE],
          k1 :> ((alt1 :> Absent) @@ (alt2 :> Unit)),
          [Defaults EXCEPT !.use_confidence = way[1], !.abstain_policy = way[2]])

Opinions ==
  {"opinion"} \X Stances \X {"SUPPORT", "OPPOSE"} \X {"SUPPORT", "OPPOSE"}
    \X {{}, {Position(i2, alt2, "CONDITIONALLY_SUPPORT", Unit, <<>>)}}
    \X {<<>>, <<"strong">>} \X Feasibilities \X {"OPEN", "RESOLVED"} \X Ways

(* Three alternatives on two objectives, values missing, equal, within the   *)
(* margin or beyond it.                                                      *)
Values == {0, Unit \div 100, Unit \div 2}

Objectives(conflict) ==
  (k1 :> [weight |-> Unit \div 2, conflicts |-> conflict])
    @@ (k2 :> [weight |-> Unit \div 2, conflicts |-> FALSE])

Tradeoff(v1, v2, v3, w1, w2, w3, conflict) ==
  Context(<<alt1, alt2, alt3>>,
          {Position(i1, alt1, "SUPPORT", Unit, <<"strong">>),
           Position(i1, alt2, "CONDITIONALLY_SUPPORT", Unit, <<"weak">>),
           Position(i1, alt3, "OPPOSE", Unit, <<"strong">>)},
          (alt1 :> "SAT") @@ (alt2 :> "UNKNOWN") @@ (alt3 :> "none"), {}, Objectives(conflict),
          (k1 :> ((alt1 :> v1) @@ (alt2 :> v2) @@ (alt3 :> v3)))
            @@ (k2 :> ((alt1 :> w1) @@ (alt2 :> w2) @@ (alt3 :> w3))), Defaults)

Tradeoffs ==
  {"tradeoff"} \X Values \X Values \X (Values \cup {Absent}) \X Values \X Values \X Values \X BOOLEAN

(* Citations of every kind, in every order, under the independence cap. *)
Citing(cited, also, stance, waived) ==
  Context(<<alt1, alt2>>,
          {Position(i1, alt1, "SUPPORT", Unit, cited), Position(i1, alt2, "OPPOSE", Unit, also),
           Position(i2, alt1, stance, Unit, also)},
          (alt1 :> "SAT") @@ (alt2 :> "SAT"), {}, NoObjectives, NoObjectives,
          [Defaults EXCEPT !.independence_cap = 1, !.allow_unevidenced = waived])

Citations ==
  {"citing"} \X BoundedSeq(DOMAIN Evidence, 2) \X {<<>>, <<"weak">>, <<"rejected">>}
    \X {"OPPOSE", "ABSTAIN"} \X BOOLEAN

(* A round without opposition. *)
Unopposed ==
  Context(<<alt1>>, {Position(i1, alt1, "SUPPORT", Unit, <<"strong">>)}, alt1 :> "SAT", {},
          NoObjectives, NoObjectives, Defaults)

ContextOf(slice) ==
  CASE slice[1] = "opinion" -> Opinion(slice[2], slice[3], slice[4], slice[5], slice[6], slice[7], slice[8], slice[9])
    [] slice[1] = "tradeoff" -> Tradeoff(slice[2], slice[3], slice[4], slice[5], slice[6], slice[7], slice[8])
    [] slice[1] = "citing" -> Citing(slice[2], slice[3], slice[4], slice[5])
    [] OTHER -> Unopposed

MCContexts ==
  {ContextOf(slice) : slice \in Opinions \cup Tradeoffs \cup Citations \cup {<<"unopposed">>}}
=============================================================================
