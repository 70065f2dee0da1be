--------------------------- MODULE MCSessionWork ---------------------------
(***************************************************************************)
(* The work of a session: its state graph (LifecycleLedger), the record it *)
(* reasons in (MCReasoningRecord), the turns of its agents (AgentTurns),   *)
(* their tool calls (McpGateway), the delivery of its events               *)
(* (EventDelivery), the episode captured for training (MarlEpisode) and    *)
(* its manifest and replays (SessionReplay). Each component has state of   *)
(* its own, so a behaviour exercises one and leaves the others as they     *)
(* began.                                                                  *)
(***************************************************************************)
EXTENDS MCReasoningRecord, LifecycleLedger, AgentTurns, EventDelivery, McpGateway, MarlEpisode,
        SessionReplay

CONSTANTS m1, m2, m3, m4

(* Two equal calls, the writers, the finalisations and the replays have the  *)
(* same two names, so that one permutation exchanges all of them.            *)
WorkSymmetry == Permutations({m1, m2})
-----------------------------------------------------------------------------
(* Turns: an agent in two versions and another one; a replacement in the     *)
(* first round and an injection in the second.                               *)
MCLogicalOf == [a1 |-> "A", a2 |-> "A", b1 |-> "B"]

MCVersionOf == [a1 |-> 1, a2 |-> 2, b1 |-> 1]

MCBoundAgents == <<"a1">>

Intervention(event, kind, replaced, agent, n) ==
  [event |-> event, kind |-> kind, replaced |-> replaced, agent |-> agent, round |-> n]

MCInterventions ==
  {Intervention("i1", "REPLACE", "a1", "b1", 1), Intervention("i2", "INJECT", "none", "a2", 2)}

MCAgentCeiling == [a1 |-> 0, a2 |-> 3, b1 |-> 2]

MCAnswers == {[tokens |-> 1, latency |-> 1]}
-----------------------------------------------------------------------------
(* Tool calls: a call and its retry, and a changed reuse of the operation    *)
(* ("reuse") or a call of another operation ("tools").                       *)
ToolCall(operation, identity) ==
  [op |-> operation, identity |-> identity, token |-> "good", member |-> TRUE,
   server |-> "fixture", tool |-> "fixture.read_echo", arguments |-> "schema"]

MCCallOf ==
  [m \in ToolCalls |-> CASE m \in {m1, m2} -> ToolCall("o1", "i1")
                         [] m = m3 -> ToolCall("o1", "i2")
                         [] m = m4 -> ToolCall("o2", "i1")]
-----------------------------------------------------------------------------
(* Delivery: one group with three overlapping deliveries of a message; the   *)
(* groups of JetStream have consumers of their own.                          *)
MCBusGroups == <<"g1">>
-----------------------------------------------------------------------------
(* Episodes: an accepted and an empty decision, one whose feasibility is     *)
(* unknown, one observed in another environment and one the coordinator      *)
(* decides otherwise when asked again; outcomes that go on, that end the     *)
(* episode, one whose credit and observation do not fit and one observed by  *)
(* an implementation the verifier lacks.                                     *)
Observed(position) ==
  Observation(EpisodeScope, EpisodeEnvironment, position, Feature("census", TRUE))

Decision(outcome, feasibility, observation) ==
  [outcome |-> outcome, proposed |-> outcome = "ACCEPTED", executed |-> outcome = "ACCEPTED",
   feasibility |-> feasibility, observation |-> observation, redecided |-> TRUE]

MCCaptures ==
  {Decision("ACCEPTED", "SAT", Observed(1)), Decision("ACCEPTED", "UNKNOWN", Observed(1)),
   Decision("NO_PROPOSAL", "UNKNOWN", [Observed(2) EXCEPT !.feature.reproducible = FALSE]),
   Decision("NO_PROPOSAL", "SAT", [Observed(1) EXCEPT !.env = "env0"]),
   [Decision("REJECTED", "SAT", Observed(1)) EXCEPT !.proposed = TRUE, !.redecided = FALSE]}

MetricInputs ==
  [o \in Metrics |-> IF o \in {0, 4} THEN [status |-> "OBSERVED", pre |-> 1, post |-> 3]
                     ELSE [status |-> "MISSING_INPUT", pre |-> 0, post |-> 0]]

Credit(metric, status, agents, value) ==
  [metric |-> metric, status |-> status, agents |-> agents, value |-> value]

NoCredit == <<Credit(1, "NEUTRAL", {}, 0), Credit(2, "NEUTRAL", {}, 0), Credit(3, "NEUTRAL", {}, 0)>>

FairCredit ==
  <<Credit(0, "DIRECT", {"a"}, 1), Credit(0, "SHARED", {"a", "b"}, 1)>> \o NoCredit
    \o <<Credit(4, "DIRECT", {"a"}, -2)>>

WrongCredit ==
  <<Credit(0, "DIRECT", {"a"}, 2)>> \o NoCredit \o <<Credit(4, "DIRECT", {"a"}, 2)>>

Ending(terminal, position, credits) ==
  [terminal |-> terminal, post |-> Observed(position), inputs |-> MetricInputs, credits |-> credits]

Unregistered(ending) == [ending EXCEPT !.post.feature.name = "later"]

MCClosings == {Ending(FALSE, 2, FairCredit), Ending(TRUE, 2, FairCredit), Ending(TRUE, 1, WrongCredit),
               Unregistered(Ending(TRUE, 2, FairCredit))}
-----------------------------------------------------------------------------
(* Replay: a recorded and a deterministic step, a deterministic step before  *)
(* an external one, and a step whose implementation has moved on.            *)
Pin(key, model) == [key |-> key, model |-> model]

Implementation(deterministic, produced) ==
  [deterministic |-> deterministic, external |-> ~deterministic, outcomes |-> produced]

Ran(key, model, output, status) ==
  [implementation |-> Pin(key, model), output |-> output, status |-> status]

MCImplementations ==
  [consensus |-> Implementation(TRUE, {Ran("consensus", "none", "o1", "SAT")}),
   moved |-> Implementation(TRUE, {Ran("moved", "m2", "o1", "SAT")}),
   llm |-> Implementation(FALSE, {Ran("llm", "m1", "o1", "SAT"), Ran("llm", "m1", "o2", "UNKNOWN")})]

ManifestStep(policy, pin, output, timing) ==
  [policy |-> policy, implementation |-> pin, output |-> output, status |-> "SAT",
   reexecutable |-> policy # "RECORDED", timing |-> timing]

Manifest(bundles, steps) == [pins |-> Pins, bundles |-> bundles, steps |-> steps]

Deterministic == ManifestStep("DETERMINISTIC", Pin("consensus", "none"), "o1", FALSE)
WithRecorded == Manifest("none", <<ManifestStep("RECORDED", Pin("none", "none"), "o0", FALSE), Deterministic>>)
WithExternal == Manifest("none", <<Deterministic, ManifestStep("EXTERNAL", Pin("llm", "m1"), "o1", TRUE)>>)
WithMoved == Manifest("failing", <<ManifestStep("DETERMINISTIC", Pin("moved", "m1"), "o1", FALSE)>>)

MCDocuments == {WithRecorded, WithExternal, WithMoved}

Ask(mode, document, selections) ==
  [mode |-> mode, digest |-> document, role |-> "RESEARCHER", confirmed |-> TRUE,
   selections |-> selections]

MCReplayRequests ==
  {Ask("STRICT", document, <<>>) : document \in MCDocuments}
    \cup {Ask("TOLERANT", WithExternal, <<>>), Ask("TOLERANT", WithExternal, <<Pin("moved", "m2")>>),
          Ask("TOLERANT", WithRecorded, <<Pin("none", "none"), Pin("gone", "m1")>>),
          Ask("LIVE", WithRecorded, <<>>), [Ask("LIVE", WithRecorded, <<>>) EXCEPT !.role = "VIEWER"]}

MCLaunches == {[linked |-> TRUE, fresh |-> TRUE], [linked |-> TRUE, fresh |-> FALSE]}
-----------------------------------------------------------------------------
Unused(m) == call'[m] = call[m]

MCInit ==
  /\ part \in {"contract", "impact", "deliberation", "lifecycle", "turns", "tools", "reuse", "bus", "episode",
              "replay"}
  /\ RecordInit /\ Init /\ TurnsInit /\ McpInit /\ BusInit /\ MarlInit /\ ReplayInit
  /\ part # "bus" => adapter = "nats"

MCNext ==
  /\ UNCHANGED part
  /\ \/ /\ RecordNext
        /\ UNCHANGED <<vars, turnVars, gatewayVars, busVars, marlVars, replayVars>>
     \/ /\ part = "lifecycle" /\ Next
        /\ UNCHANGED <<recordVars, turnVars, gatewayVars, busVars, marlVars, replayVars>>
     \/ /\ part = "turns" /\ TurnsNext
        /\ UNCHANGED <<recordVars, vars, gatewayVars, busVars, marlVars, replayVars>>
     \/ /\ part \in {"tools", "reuse"} /\ McpNext /\ IF part = "tools" THEN Unused(m3) ELSE Unused(m4)
        /\ UNCHANGED <<recordVars, vars, turnVars, busVars, marlVars, replayVars>>
     \/ /\ part = "bus" /\ BusNext
        /\ UNCHANGED <<recordVars, vars, turnVars, gatewayVars, marlVars, replayVars>>
     \/ /\ part = "episode" /\ MarlNext
        /\ UNCHANGED <<recordVars, vars, turnVars, gatewayVars, busVars, replayVars>>
     \/ /\ part = "replay" /\ ReplayNext
        /\ UNCHANGED <<recordVars, vars, turnVars, gatewayVars, busVars, marlVars>>

MCSpec ==
  MCInit /\ [][MCNext]_<<part, recordVars, vars, turnVars, gatewayVars, busVars, marlVars, replayVars>>
=============================================================================
