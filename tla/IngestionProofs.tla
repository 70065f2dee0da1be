-------------------------- MODULE IngestionProofs --------------------------
(***************************************************************************)
(* What holds of the ingestion checkpoint for any number of attempts and   *)
(* inputs: successes backed by their rows and stages in order always, and, *)
(* as long as attempts do not overlap, a checkpoint that tells the truth   *)
(* and permanent failures that stand.                                      *)
(***************************************************************************)
EXTENDS Ingestion, TLAPS

(* The provenance rows were written for the operation's own input. *)
Rows ==
  /\ source # None => op # None /\ source.object_ref = op.input
  /\ document # None => op # None /\ document.parsed = op.input /\ source # None

(* What the step an attempt has reached says of the rows. *)
Progress ==
  \A a \in Attempts :
    /\ attempt[a].step = "start" <=> lock = a
    /\ attempt[a].step = "start" =>
         IF attempt[a].seen = None
         THEN op = None
         ELSE op # None /\ attempt[a].seen.input = op.input
    /\ attempt[a].step \in {"result", "fetch", "parse"} => op # None /\ InputOf[a] = op.input
    /\ attempt[a].step = "parse" => source # None

(* Attempts that have not overlapped work on the row they have read, or find  *)
(* it parsed, when only the later stages can move it.                         *)
Alone ==
  ~overlapped =>
    /\ \A a, b \in Attempts : InFlight(a) /\ InFlight(b) => a = b
    /\ \A a \in Attempts :
         /\ attempt[a].step = "start" =>
              \/ attempt[a].seen = op
              \/ /\ attempt[a].seen # None /\ attempt[a].seen.parse = "SUCCEEDED"
                 /\ op.parse = "SUCCEEDED"
         /\ attempt[a].step \in {"fetch", "parse"} =>
              op.parse # "SUCCEEDED" /\ ~Permanent(op)

Checked == op # None => Consistent(op)

IInv ==
  /\ TypeOK /\ Checked /\ Rows /\ SuccessIsBacked /\ StagesInOrder
  /\ Progress /\ ResultsAgree
  /\ Alone /\ CheckpointIsTrue

-----------------------------------------------------------------------------
LEMMA IngestionInit == Init => IInv
<1> SUFFICES ASSUME Init PROVE IInv
  OBVIOUS
<1> USE DEF Init
<1>1. TypeOK
  BY DEF TypeOK, Waiting
<1>2. \A a \in Attempts : attempt[a] = Waiting /\ a # None
  BY IngestionAssumption
<1>3. Progress /\ ResultsAgree
  BY <1>2 DEF Progress, ResultsAgree, Waiting
<1>4. Alone
  BY <1>2 DEF Alone, InFlight, Waiting
<1>5. Checked /\ Rows /\ SuccessIsBacked /\ StagesInOrder /\ CheckpointIsTrue
  BY DEF Checked, Rows, SuccessIsBacked, StagesInOrder, CheckpointIsTrue
<1> QED BY <1>1, <1>3, <1>4, <1>5 DEF IInv

(* An attempt's own step leaves the others where they were. *)
LEMMA StepTo ==
  ASSUME TypeOK, NEW a \in Attempts,
         NEW s \in {"idle", "start", "result", "fetch", "parse", "returned", "raised"},
         SetStep(a, s)
  PROVE  /\ attempt' \in [Attempts -> [step : {"idle", "start", "result", "fetch", "parse",
                                               "returned", "raised"},
                                       seen : Operations \cup {None},
                                       result : Inputs \cup {None}]]
         /\ attempt'[a].step = s
         /\ \A b \in Attempts \ {a} : attempt'[b] = attempt[b]
  BY DEF TypeOK, SetStep, Waiting

LEMMA StartReadStep == ASSUME IInv, NEW a \in Attempts, StartRead(a) PROVE IInv'
<1> USE DEF IInv, StartRead
<1>1. /\ attempt'[a] = [step |-> "start", seen |-> op, result |-> None]
      /\ \A b \in Attempts \ {a} : attempt'[b] = attempt[b]
  BY DEF TypeOK
<1>2. TypeOK'
  BY DEF TypeOK
<1>3. Checked' /\ Rows' /\ SuccessIsBacked' /\ StagesInOrder'
  BY DEF Checked, Rows, SuccessIsBacked, StagesInOrder
<1>4. Progress'
  BY <1>1, IngestionAssumption DEF Progress
<1>5. ResultsAgree'
  BY <1>1 DEF ResultsAgree
<1>6. Alone'
  <2> SUFFICES ASSUME ~overlapped' PROVE Alone'
    BY DEF Alone
  <2>1. ~overlapped /\ \A b \in Attempts : ~InFlight(b)
    OBVIOUS
  <2>2. \A b \in Attempts \ {a} : ~InFlight(b)'
    BY <1>1, <2>1 DEF InFlight
  <2> QED BY <1>1, <2>1, <2>2 DEF Alone, InFlight
<1>7. CheckpointIsTrue'
  BY DEF CheckpointIsTrue
<1> QED BY <1>2, <1>3, <1>4, <1>5, <1>6, <1>7

LEMMA RaiseStep == ASSUME IInv, NEW a \in Attempts, Raise(a) PROVE IInv'
<1> USE DEF IInv, Raise
<1>1. /\ attempt' \in [Attempts -> [step : {"idle", "start", "result", "fetch", "parse",
                                            "returned", "raised"},
                                    seen : Operations \cup {None},
                                    result : Inputs \cup {None}]]
      /\ attempt'[a].step = "raised"
      /\ \A b \in Attempts \ {a} : attempt'[b] = attempt[b]
  BY StepTo
<1>2. TypeOK'
  BY <1>1 DEF TypeOK
<1>3. Checked' /\ Rows' /\ SuccessIsBacked' /\ StagesInOrder' /\ CheckpointIsTrue'
  BY DEF Checked, Rows, SuccessIsBacked, StagesInOrder, CheckpointIsTrue
<1>4. Progress'
  BY <1>1, IngestionAssumption DEF Progress, InFlight
<1>5. ResultsAgree' /\ Alone'
  BY <1>1 DEF ResultsAgree, Alone, InFlight
<1> QED BY <1>2, <1>3, <1>4, <1>5

LEMMA ResultStep == ASSUME IInv, NEW a \in Attempts, Result(a) PROVE IInv'
<1> USE DEF IInv, Result
<1>1. op # None /\ document # None /\ document.parsed = op.input /\ InputOf[a] = op.input
  BY DEF Progress, SuccessIsBacked
<1>2. /\ attempt'[a] = [step |-> "returned", seen |-> None, result |-> document.parsed]
      /\ \A b \in Attempts \ {a} : attempt'[b] = attempt[b]
      /\ attempt' \in [Attempts -> [step : {"idle", "start", "result", "fetch", "parse",
                                            "returned", "raised"},
                                    seen : Operations \cup {None},
                                    result : Inputs \cup {None}]]
  BY <1>1 DEF TypeOK, Return, Documents
<1>3. TypeOK'
  BY <1>2 DEF TypeOK
<1>4. Checked' /\ Rows' /\ SuccessIsBacked' /\ StagesInOrder' /\ CheckpointIsTrue'
  BY DEF Checked, Rows, SuccessIsBacked, StagesInOrder, CheckpointIsTrue
<1>5. Progress'
  BY <1>2 DEF Progress
<1>6. ResultsAgree' /\ Alone'
  BY <1>1, <1>2 DEF ResultsAgree, Alone, InFlight
<1> QED BY <1>3, <1>4, <1>5, <1>6

(* The row after a further attempt has been recorded. *)
LEMMA RestartedRow ==
  ASSUME op \in Operations, NEW seen \in Operations
  PROVE  /\ Restarted(seen) \in Operations
         /\ Restarted(seen).input = op.input
         /\ Restarted(seen).embed = op.embed /\ Restarted(seen).index = op.index
         /\ Restarted(seen).acquire \in {op.acquire, "RUNNING"}
         /\ Restarted(seen).parse \in {op.parse, "RUNNING", "PENDING"}
         /\ seen = op => /\ Restarted(seen).failure = None
                        /\ Restarted(seen).parse \in {"RUNNING", "PENDING"}
<1> DEFINE acquire == Written(op.acquire, seen.acquire,
                        IF seen.acquire = "SUCCEEDED" THEN "SUCCEEDED" ELSE "RUNNING")
           parse == Written(op.parse, seen.parse,
                        IF seen.acquire = "SUCCEEDED" THEN "RUNNING" ELSE "PENDING")
           failure == Written(op.failure, seen.failure, None)
           attempts == seen.attempts + 1
<1>1. /\ acquire \in StageStates /\ acquire \in {op.acquire, "RUNNING"}
      /\ parse \in StageStates /\ parse \in {op.parse, "RUNNING", "PENDING"}
      /\ failure \in Failures \cup {None} /\ attempts \in Nat
      /\ seen = op => failure = None /\ parse \in {"RUNNING", "PENDING"}
  BY DEF Operations, StageStates, Written
<1>2. Restarted(seen) = [op EXCEPT !.attempts = attempts, !.acquire = acquire,
                                   !.parse = parse, !.failure = failure]
  BY DEF Restarted
<1> HIDE DEF acquire, parse, failure, attempts
<1> QED BY <1>1, <1>2 DEF Operations

(* The failure that condemns a source. *)
LEMMA ParseFailure ==
  LET f == [stage |-> "PARSE", kind |-> "PERMANENT"]
  IN f \in Failures /\ f # None
  BY NullAssumption DEF Failures, Stages, FailureKinds

LEMMA StartCommitsStep == ASSUME IInv, NEW a \in Attempts, StartCommits(a) PROVE IInv'
<1> USE DEF IInv
<1> DEFINE seen == attempt[a].seen
<1>1. /\ attempt[a].step = "start" /\ lock = a /\ lock' = None
      /\ UNCHANGED <<source, document, overlapped>>
  BY DEF StartCommits, Progress
<1>2. \A b \in Attempts \ {a} : attempt[b].step # "start"
  BY <1>1 DEF Progress
<1>3. seen \in Operations \cup {None}
  BY DEF TypeOK
<1>4. PICK s \in {"result", "raised", "fetch"} : SetStep(a, s)
  BY DEF StartCommits
<1>5. /\ attempt' \in [Attempts -> [step : {"idle", "start", "result", "fetch", "parse",
                                            "returned", "raised"},
                                    seen : Operations \cup {None},
                                    result : Inputs \cup {None}]]
      /\ attempt'[a].step = s
      /\ \A b \in Attempts \ {a} : attempt'[b] = attempt[b]
  BY <1>4, StepTo
<1>6. ~overlapped' => \A b \in Attempts : InFlight(b)' => b = a
  BY <1>1, <1>5 DEF Alone, InFlight
<1>7. CASE seen = None
  <2>1. op = None /\ op' = NewOperation(a) /\ s = "fetch"
    BY <1>1, <1>4, <1>7, <1>5, StepTo DEF StartCommits, Progress
  <2>2. op' \in Operations /\ op' # None /\ op'.input = InputOf[a] /\ op'.failure = None
        /\ op'.parse = "PENDING" /\ op'.acquire = "RUNNING"
        /\ op'.embed = "PENDING" /\ op'.index = "PENDING"
    BY <2>1, IngestionAssumption, NullAssumption DEF NewOperation, Operations, StageStates
  <2>3. source = None /\ document = None
    BY <2>1 DEF Rows
  <2>4. TypeOK'
    BY <1>1, <1>5, <2>2 DEF TypeOK
  <2>5. Checked'
    BY <2>2 DEF Checked, Consistent
  <2>6. Rows' /\ SuccessIsBacked' /\ StagesInOrder' /\ CheckpointIsTrue'
    BY <1>1, <2>2, <2>3, ParseFailure DEF Rows, SuccessIsBacked, StagesInOrder, CheckpointIsTrue
  <2>7. Progress'
    BY <1>1, <1>2, <1>5, <2>1, <2>2, IngestionAssumption DEF Progress
  <2>8. ResultsAgree' /\ Alone'
    BY <1>1, <1>2, <1>5, <1>6, <2>1, <2>2, <2>3 DEF ResultsAgree, Alone, InFlight, Permanent
  <2> QED BY <2>4, <2>5, <2>6, <2>7, <2>8
<1>8. CASE seen # None
  <2>1. seen \in Operations /\ op \in Operations /\ op # None /\ seen.input = op.input
        /\ SameInput(a, seen)
    BY <1>1, <1>3, <1>8 DEF Progress, TypeOK, StartCommits
  <2>2. InputOf[a] = op.input
    BY <2>1 DEF SameInput
  <2>3. CASE Terminal(seen)
    <3>1. op' = op /\ s \in {"result", "raised"}
      BY <1>4, <1>5, <1>8, <2>3, StepTo DEF StartCommits
    <3>2. TypeOK'
      BY <1>1, <1>5, <3>1 DEF TypeOK
    <3>3. Checked' /\ Rows' /\ SuccessIsBacked' /\ StagesInOrder' /\ CheckpointIsTrue'
      BY <1>1, <3>1 DEF Checked, Rows, SuccessIsBacked, StagesInOrder, CheckpointIsTrue
    <3>4. Progress'
      BY <1>1, <1>2, <1>5, <2>1, <2>2, <3>1, IngestionAssumption DEF Progress
    <3>5. ResultsAgree' /\ Alone'
      BY <1>1, <1>2, <1>5, <1>6, <3>1 DEF ResultsAgree, Alone, InFlight
    <3> QED BY <3>2, <3>3, <3>4, <3>5
  <2>4. CASE ~Terminal(seen)
    <3>1. op' = Restarted(seen) /\ Consistent(op') /\ s = "fetch"
      BY <1>4, <1>5, <1>8, <2>4, StepTo DEF StartCommits
    <3>2. /\ op' \in Operations /\ op'.input = op.input /\ op' # None
          /\ op'.embed = op.embed /\ op'.index = op.index
          /\ op'.acquire \in {op.acquire, "RUNNING"}
          /\ op'.parse \in {op.parse, "RUNNING", "PENDING"}
          /\ seen = op => op'.failure = None /\ op'.parse \in {"RUNNING", "PENDING"}
      BY <2>1, <3>1, RestartedRow, NullAssumption
    <3>3. TypeOK'
      BY <1>1, <1>5, <3>2 DEF TypeOK
    <3>4. Checked' /\ Rows' /\ SuccessIsBacked' /\ StagesInOrder'
      BY <1>1, <2>1, <3>1, <3>2 DEF Checked, Rows, SuccessIsBacked, StagesInOrder
    <3>5. Progress'
      BY <1>1, <1>2, <1>5, <2>1, <2>2, <3>1, <3>2, IngestionAssumption DEF Progress
    <3>6. ResultsAgree'
      BY <1>1, <1>5, <3>1, <3>2 DEF ResultsAgree
    <3>7. ~overlapped' => seen = op
      BY <1>1, <2>4 DEF Alone, Terminal
    <3>8. Alone'
      BY <1>1, <1>2, <1>5, <1>6, <3>1, <3>2, <3>7 DEF Alone, InFlight, Permanent
    <3>9. CheckpointIsTrue'
      <4> SUFFICES ASSUME ~overlapped' PROVE CheckpointIsTrue'
        BY DEF CheckpointIsTrue
      <4>1. /\ document = None
            /\ ~(source # None /\ source.status = "FAILED")
        BY <1>1, <2>1, <2>4, <3>7, ParseFailure DEF CheckpointIsTrue, Terminal, Permanent
      <4> QED BY <1>1, <3>2, <3>7, <4>1, ParseFailure DEF CheckpointIsTrue
    <3> QED BY <3>3, <3>4, <3>5, <3>6, <3>8, <3>9
  <2> QED BY <2>3, <2>4
<1> QED BY <1>7, <1>8

LEMMA AcquiredStep == ASSUME IInv, NEW a \in Attempts, Acquired(a) PROVE IInv'
<1> USE DEF IInv
<1>1. /\ attempt[a].step = "fetch" /\ SetStep(a, "parse")
      /\ UNCHANGED <<document, lock, overlapped>>
  BY DEF Acquired
<1>2. op \in Operations /\ op # None /\ InputOf[a] = op.input
  BY <1>1 DEF Progress, TypeOK
<1>3. /\ attempt' \in [Attempts -> [step : {"idle", "start", "result", "fetch", "parse",
                                            "returned", "raised"},
                                    seen : Operations \cup {None},
                                    result : Inputs \cup {None}]]
      /\ attempt'[a].step = "parse"
      /\ \A b \in Attempts \ {a} : attempt'[b] = attempt[b]
  BY <1>1, StepTo
<1>4. ~overlapped' => \A b \in Attempts : InFlight(b)' => b = a
  BY <1>1, <1>3 DEF Alone, InFlight
<1>5. CASE op.parse = "SUCCEEDED"
  <2>1. op' = op /\ source' = source
    BY <1>5 DEF Acquired
  <2>2. overlapped /\ source # None
    BY <1>1, <1>2, <1>5 DEF Alone, SuccessIsBacked
  <2>3. TypeOK'
    BY <1>1, <1>3, <2>1 DEF TypeOK
  <2>4. Checked' /\ Rows' /\ SuccessIsBacked' /\ StagesInOrder' /\ CheckpointIsTrue'
    BY <1>1, <2>1 DEF Checked, Rows, SuccessIsBacked, StagesInOrder, CheckpointIsTrue
  <2>5. Progress'
    BY <1>1, <1>2, <1>3, <2>1, <2>2 DEF Progress
  <2>6. ResultsAgree' /\ Alone'
    BY <1>1, <1>3, <2>1, <2>2 DEF ResultsAgree, Alone
  <2> QED BY <2>3, <2>4, <2>5, <2>6
<1>6. CASE op.parse # "SUCCEEDED"
  <2>1. /\ source' = SourceOf(a)
        /\ op' = [op EXCEPT !.acquire = "SUCCEEDED", !.parse = "RUNNING",
                            !.object_ref = InputOf[a], !.failure = None]
        /\ Consistent(op')
    BY <1>6 DEF Acquired
  <2>2. /\ op' \in Operations /\ op' # None
        /\ op'.input = op.input /\ op'.embed = op.embed /\ op'.index = op.index
        /\ op'.parse = "RUNNING" /\ op'.failure = None
    BY <1>2, <2>1, IngestionAssumption, NullAssumption DEF Operations, StageStates
  <2>3. /\ source' \in Sources /\ source' # None /\ source'.object_ref = op.input
        /\ source = None => source'.status = "PROCESSING"
        /\ source # None => source' = source
    BY <1>2, <2>1, IngestionAssumption, NullAssumption DEF SourceOf, Sources, TypeOK, Rows
  <2>4. TypeOK'
    BY <1>1, <1>3, <2>2, <2>3 DEF TypeOK
  <2>5. Checked' /\ Rows' /\ SuccessIsBacked' /\ StagesInOrder'
    BY <1>1, <1>2, <2>1, <2>2, <2>3 DEF Checked, Rows, SuccessIsBacked, StagesInOrder
  <2>6. Progress'
    BY <1>1, <1>2, <1>3, <2>2, <2>3 DEF Progress
  <2>7. ResultsAgree'
    BY <1>1, <1>3, <2>2 DEF ResultsAgree
  <2>8. Alone'
    BY <1>1, <1>3, <1>4, <2>2 DEF Alone, InFlight, Permanent
  <2>9. CheckpointIsTrue'
    <3> SUFFICES ASSUME ~overlapped' PROVE CheckpointIsTrue'
      BY DEF CheckpointIsTrue
    <3>1. ~overlapped /\ ~Permanent(op)
      BY <1>1 DEF Alone
    <3>2. document = None /\ ~(source # None /\ source.status = "FAILED")
      BY <1>2, <1>6, <3>1, ParseFailure DEF CheckpointIsTrue, Permanent
    <3> QED BY <1>1, <2>2, <2>3, <3>2, ParseFailure DEF CheckpointIsTrue
  <2> QED BY <2>4, <2>5, <2>6, <2>7, <2>8, <2>9
<1> QED BY <1>5, <1>6

LEMMA CompleteStep == ASSUME IInv, NEW a \in Attempts, Complete(a) PROVE IInv'
<1> USE DEF IInv
<1>1. attempt[a].step = "parse" /\ Return(a) /\ UNCHANGED <<lock, overlapped>>
  BY DEF Complete
<1>2. op \in Operations /\ op # None /\ InputOf[a] = op.input /\ source # None
      /\ source \in Sources
  BY <1>1 DEF Progress, TypeOK
<1>3. /\ document' \in Documents /\ document' # None /\ document'.parsed = op.input
      /\ document # None => document' = document
      /\ op' \in Operations /\ op' # None /\ Consistent(op') /\ op'.input = op.input
      /\ op'.parse = "SUCCEEDED" /\ op'.embed = op.embed /\ op'.index = op.index
      /\ source' \in Sources /\ source' # None /\ source'.status = "READY"
      /\ source'.object_ref = op.input
      /\ ~overlapped => op'.failure = None
  <2>1. CASE op.parse = "SUCCEEDED"
    <3>1. op' = op /\ source' = source /\ document' = document
      BY <2>1 DEF Complete
    <3>2. overlapped
      BY <1>1, <2>1 DEF Alone
    <3> QED BY <1>2, <2>1, <3>1, <3>2 DEF TypeOK, Checked, SuccessIsBacked, Rows
  <2>2. CASE op.parse # "SUCCEEDED"
    <3>1. /\ document = None
          /\ document' = [parsed |-> InputOf[a], status |-> "CHUNKED"]
          /\ source' = [source EXCEPT !.status = "READY"]
          /\ op' = [op EXCEPT !.acquire = "SUCCEEDED", !.parse = "SUCCEEDED",
                              !.failure = None]
          /\ Consistent(op')
      BY <2>2 DEF Complete
    <3>2. document' \in Documents /\ document' # None /\ document'.parsed = op.input
      BY <1>2, <3>1, IngestionAssumption, NullAssumption DEF Documents
    <3>3. /\ op' \in Operations /\ op' # None /\ op'.input = op.input
          /\ op'.parse = "SUCCEEDED" /\ op'.embed = op.embed /\ op'.index = op.index
          /\ op'.failure = None
      BY <1>2, <3>1, NullAssumption DEF Operations, StageStates
    <3>4. /\ source' \in Sources /\ source' # None /\ source'.status = "READY"
          /\ source'.object_ref = op.input
      BY <1>2, <3>1, NullAssumption DEF Sources, Rows
    <3> QED BY <3>1, <3>2, <3>3, <3>4
  <2> QED BY <2>1, <2>2
<1>4. /\ attempt'[a] = [step |-> "returned", seen |-> None, result |-> document'.parsed]
      /\ \A b \in Attempts \ {a} : attempt'[b] = attempt[b]
      /\ attempt' \in [Attempts -> [step : {"idle", "start", "result", "fetch", "parse",
                                            "returned", "raised"},
                                    seen : Operations \cup {None},
                                    result : Inputs \cup {None}]]
  BY <1>1, <1>3 DEF TypeOK, Return, Documents
<1>5. TypeOK'
  BY <1>1, <1>3, <1>4 DEF TypeOK
<1>6. Checked' /\ Rows' /\ SuccessIsBacked' /\ StagesInOrder'
  BY <1>2, <1>3 DEF Checked, Rows, SuccessIsBacked, StagesInOrder
<1>7. Progress'
  BY <1>1, <1>2, <1>3, <1>4 DEF Progress
<1>8. ResultsAgree'
  BY <1>2, <1>3, <1>4 DEF ResultsAgree
<1>9. Alone'
  BY <1>1, <1>4 DEF Alone, InFlight
<1>10. CheckpointIsTrue'
  BY <1>1, <1>3, ParseFailure DEF CheckpointIsTrue
<1> QED BY <1>5, <1>6, <1>7, <1>8, <1>9, <1>10

LEMMA FailStep ==
  ASSUME IInv, NEW a \in Attempts, NEW stage \in {"ACQUIRE", "PARSE"},
         NEW kind \in FailureKinds, Fail(a, stage, kind)
  PROVE  IInv'
<1> USE DEF IInv
<1>1. /\ attempt[a].step = IF stage = "ACQUIRE" THEN "fetch" ELSE "parse"
      /\ SetStep(a, "raised")
      /\ UNCHANGED <<document, lock, overlapped>>
  BY DEF Fail
<1>2. op \in Operations /\ op # None /\ InputOf[a] = op.input
  BY <1>1 DEF Progress, TypeOK
<1>3. /\ attempt' \in [Attempts -> [step : {"idle", "start", "result", "fetch", "parse",
                                            "returned", "raised"},
                                    seen : Operations \cup {None},
                                    result : Inputs \cup {None}]]
      /\ attempt'[a].step = "raised"
      /\ \A b \in Attempts \ {a} : attempt'[b] = attempt[b]
  BY <1>1, StepTo
<1>4. ~overlapped' => \A b \in Attempts : ~InFlight(b)'
  BY <1>1, <1>3 DEF Alone, InFlight
<1>5. Alone'
  BY <1>3, <1>4 DEF Alone, InFlight
<1>6. CASE op.parse = "SUCCEEDED"
  <2>1. op' = op /\ source' = source
    BY <1>6 DEF Fail
  <2>2. TypeOK'
    BY <1>1, <1>3, <2>1 DEF TypeOK
  <2>3. Checked' /\ Rows' /\ SuccessIsBacked' /\ StagesInOrder' /\ CheckpointIsTrue'
    BY <1>1, <2>1 DEF Checked, Rows, SuccessIsBacked, StagesInOrder, CheckpointIsTrue
  <2>4. Progress' /\ ResultsAgree'
    BY <1>1, <1>3, <2>1 DEF Progress, ResultsAgree
  <2> QED BY <1>5, <2>2, <2>3, <2>4
<1>7. CASE op.parse # "SUCCEEDED"
  <2>1. /\ op' = FailureAt(stage, kind, InputOf[a]) /\ Consistent(op')
        /\ source' = IF SourceFails(stage, kind) /\ source # None
                     THEN [source EXCEPT !.status = "FAILED"] ELSE source
    BY <1>7 DEF Fail
  <2>2. [stage |-> stage, kind |-> kind] \in Failures
    BY DEF Failures, Stages
  <2>3. /\ op' \in Operations /\ op' # None
        /\ op'.input = op.input /\ op'.embed = op.embed /\ op'.index = op.index
        /\ op'.parse \in {"PENDING", "FAILED"} /\ op'.acquire \in {op.acquire, "FAILED"}
        /\ op'.failure = [stage |-> stage, kind |-> kind]
    BY <1>2, <2>1, <2>2, IngestionAssumption, NullAssumption
       DEF FailureAt, Operations, StageStates
  <2>4. /\ source' \in Sources \cup {None}
        /\ source = None <=> source' = None
        /\ source # None => source'.object_ref = source.object_ref
        /\ source # None => source'.status = IF SourceFails(stage, kind) THEN "FAILED"
                                             ELSE source.status
    BY <2>1, NullAssumption DEF Sources, TypeOK
  <2>5. TypeOK'
    BY <1>1, <1>3, <2>3, <2>4 DEF TypeOK
  <2>6. Checked' /\ Rows' /\ SuccessIsBacked' /\ StagesInOrder'
    BY <1>1, <1>2, <2>1, <2>3, <2>4 DEF Checked, Rows, SuccessIsBacked, StagesInOrder
  <2>7. Progress' /\ ResultsAgree'
    BY <1>1, <1>2, <1>3, <2>3, <2>4 DEF Progress, ResultsAgree
  <2>8. CheckpointIsTrue'
    <3> SUFFICES ASSUME ~overlapped' PROVE CheckpointIsTrue'
      BY DEF CheckpointIsTrue
    <3>1. ~overlapped /\ ~Permanent(op)
      BY <1>1 DEF Alone
    <3>2. document = None /\ ~(source # None /\ source.status = "FAILED")
      BY <1>2, <1>7, <3>1, ParseFailure DEF CheckpointIsTrue, Permanent
    <3>3. SourceFails(stage, kind)
            <=> [stage |-> stage, kind |-> kind] = [stage |-> "PARSE", kind |-> "PERMANENT"]
      BY DEF SourceFails
    <3>4. stage = "PARSE" => source # None
      BY <1>1 DEF Progress
    <3> QED BY <1>1, <2>3, <2>4, <3>2, <3>3, <3>4 DEF CheckpointIsTrue, SourceFails
  <2> QED BY <1>5, <2>5, <2>6, <2>7, <2>8
<1> QED BY <1>6, <1>7

(* A report of a later stage leaves the attempts and the parsed text alone. *)
LEMMA DownstreamStep ==
  ASSUME IInv, NEW stage \in {"EMBED", "INDEX"}, NEW state \in StageStates,
         NEW failure \in Failures \cup {None},
         failure # None => failure.stage = stage,
         RecordDownstreamStage(stage, state, failure)
  PROVE  IInv'
<1> USE DEF IInv
<1>1. /\ op \in Operations /\ op # None /\ op.parse = "SUCCEEDED"
      /\ stage = "INDEX" => op.embed = "SUCCEEDED"
      /\ StateOf(stage) = "SUCCEEDED" => state = "SUCCEEDED"
      /\ UNCHANGED <<lock, attempt, overlapped>>
  BY DEF RecordDownstreamStage, Due, TypeOK
<1>2. /\ document # None /\ document \in Documents /\ document.parsed = op.input
      /\ source # None /\ source \in Sources /\ source.status = "READY"
      /\ source.object_ref = op.input
  BY <1>1 DEF SuccessIsBacked, TypeOK, Rows
<1>3. /\ op' = [op EXCEPT !.embed = IF stage = "EMBED" THEN state ELSE op.embed,
                          !.index = IF stage = "INDEX" THEN state ELSE op.index,
                          !.failure = failure]
      /\ Consistent(op')
  BY DEF RecordDownstreamStage
<1>4. /\ op' \in Operations /\ op' # None /\ op'.input = op.input
      /\ op'.acquire = op.acquire /\ op'.parse = op.parse /\ op'.failure = failure
      /\ op'.embed = IF stage = "EMBED" THEN state ELSE op.embed
      /\ op'.index = IF stage = "INDEX" THEN state ELSE op.index
  BY <1>1, <1>3, NullAssumption DEF Operations
<1>5. /\ document' \in Documents /\ document' # None /\ document'.parsed = op.input
      /\ source' \in Sources /\ source' # None /\ source'.status = "READY"
      /\ source'.object_ref = op.input
  BY <1>2, NullAssumption DEF RecordDownstreamStage, Documents, Sources
<1>6. TypeOK'
  BY <1>1, <1>4, <1>5 DEF TypeOK
<1>7. Checked' /\ Rows' /\ SuccessIsBacked'
  BY <1>1, <1>3, <1>4, <1>5 DEF Checked, Rows, SuccessIsBacked
<1>8. StagesInOrder'
  BY <1>1, <1>4, <1>5 DEF StagesInOrder, StateOf
<1>9. Progress' /\ ResultsAgree'
  BY <1>1, <1>2, <1>4, <1>5 DEF Progress, ResultsAgree
<1>10. Alone'
  BY <1>1, <1>4 DEF Alone, InFlight
<1>11. CheckpointIsTrue'
  <2>1. failure # [stage |-> "PARSE", kind |-> "PERMANENT"]
    BY ParseFailure
  <2> QED BY <1>1, <1>4, <1>5, <2>1 DEF CheckpointIsTrue
<1> QED BY <1>6, <1>7, <1>8, <1>9, <1>10, <1>11

LEMMA DownstreamReports ==
  ASSUME Downstream
  PROVE  \E stage \in {"EMBED", "INDEX"}, state \in StageStates,
            failure \in Failures \cup {None} :
           /\ failure # None => failure.stage = stage
           /\ RecordDownstreamStage(stage, state, failure)
<1>1. PICK stage \in {"EMBED", "INDEX"} :
        \/ \E state \in StageStates \ {"FAILED"} : RecordDownstreamStage(stage, state, None)
        \/ \E kind \in FailureKinds :
             RecordDownstreamStage(stage, "FAILED", [stage |-> stage, kind |-> kind])
  BY DEF Downstream
<1>2. CASE \E state \in StageStates \ {"FAILED"} : RecordDownstreamStage(stage, state, None)
  BY <1>2
<1>3. ASSUME NEW kind \in FailureKinds,
             RecordDownstreamStage(stage, "FAILED", [stage |-> stage, kind |-> kind])
      PROVE  \E st \in StageStates, failure \in Failures \cup {None} :
               /\ failure # None => failure.stage = stage
               /\ RecordDownstreamStage(stage, st, failure)
  <2>1. /\ "FAILED" \in StageStates
        /\ [stage |-> stage, kind |-> kind] \in Failures \cup {None}
        /\ [stage |-> stage, kind |-> kind].stage = stage
    BY DEF StageStates, Failures, Stages
  <2> QED BY <1>3, <2>1
<1> QED BY <1>1, <1>2, <1>3

LEMMA IngestionNext == IInv /\ [Next]_vars => IInv'
<1> SUFFICES ASSUME IInv, [Next]_vars PROVE IInv'
  OBVIOUS
<1>1. CASE UNCHANGED vars
  BY <1>1 DEF vars, IInv, TypeOK, Checked, Rows, SuccessIsBacked, StagesInOrder, Progress,
              ResultsAgree, Alone, CheckpointIsTrue, InFlight
<1>2. ASSUME NEW a \in Attempts,
             \/ StartRead(a) \/ StartCommits(a) \/ Result(a) \/ Acquired(a) \/ Complete(a)
             \/ \E stage \in {"ACQUIRE", "PARSE"}, kind \in FailureKinds : Fail(a, stage, kind)
             \/ Raise(a)
      PROVE  IInv'
  BY <1>2, StartReadStep, StartCommitsStep, ResultStep, AcquiredStep, CompleteStep, FailStep,
     RaiseStep
<1>3. CASE Downstream
  BY <1>3, DownstreamReports, DownstreamStep
<1> QED BY <1>1, <1>2, <1>3 DEF Next

LEMMA IngestionInvariant == Spec => []IInv
  BY IngestionInit, IngestionNext, PTL DEF Spec

(* Whatever attempts overlap, fail or die: an acquired operation has its      *)
(* source row and a parsed one its document and a ready source                *)
(* (acquired, complete and fail of the checkpoint store).                     *)
THEOREM SuccessAlwaysBacked == Spec => []SuccessIsBacked
  BY IngestionInvariant, PTL DEF IInv

(* record_downstream_stage never lets a stage begin before the one it needs.  *)
THEOREM StagesAlwaysInOrder == Spec => []StagesInOrder
  BY IngestionInvariant, PTL DEF IInv

(* All attempts that return report the same stored document.                  *)
THEOREM ResultsAlwaysAgree == Spec => []ResultsAgree
  BY IngestionInvariant, PTL DEF IInv

(* Without overlapping attempts the checkpoint row and the provenance rows    *)
(* never disagree.                                                            *)
THEOREM CheckpointTellsTheTruth == Spec => []CheckpointIsTrue
  BY IngestionInvariant, PTL DEF IInv

(* Without overlapping attempts a permanent failure is never taken back.      *)
THEOREM PermanentStands == Spec => PermanentForGood
<1>1. ASSUME IInv, [Next]_vars
      PROVE  [(op # None /\ Permanent(op) /\ ~overlapped')
                => UNCHANGED <<op, source, document>>]_vars
  <2> SUFFICES ASSUME Next, op # None, Permanent(op), ~overlapped'
               PROVE  UNCHANGED <<op, source, document>>
    BY <1>1
  <2> USE DEF IInv
  <2>1. ASSUME NEW a \in Attempts, StartRead(a) \/ Raise(a) \/ Result(a)
        PROVE  UNCHANGED <<op, source, document>>
    BY <1>1, <2>1 DEF StartRead, Raise, Result
  <2>2. ASSUME NEW a \in Attempts, StartCommits(a)
        PROVE  UNCHANGED <<op, source, document>>
    <3>1. ~overlapped /\ attempt[a].step = "start"
      BY <2>2 DEF StartCommits
    <3>2. attempt[a].seen # None /\ Terminal(attempt[a].seen)
      BY <1>1, <3>1 DEF Alone, Terminal
    <3> QED BY <2>2, <3>2 DEF StartCommits
  <2>3. ASSUME NEW a \in Attempts, overlapped' = overlapped,
               attempt[a].step \in {"fetch", "parse"}
        PROVE  FALSE
    BY <1>1, <2>3 DEF Alone
  <2>4. ASSUME NEW a \in Attempts,
               \/ Acquired(a) \/ Complete(a)
               \/ \E stage \in {"ACQUIRE", "PARSE"}, kind \in FailureKinds :
                    Fail(a, stage, kind)
        PROVE  FALSE
    BY <2>3, <2>4 DEF Acquired, Complete, Fail
  <2>5. ASSUME NEW stage \in {"EMBED", "INDEX"}, NEW state \in StageStates,
               NEW failure \in Failures \cup {None},
               RecordDownstreamStage(stage, state, failure)
        PROVE  FALSE
    <3>1. /\ op.failure # None /\ op.failure.stage = stage
          /\ StateOf(stage) # "FAILED"
      BY <2>5 DEF RecordDownstreamStage, Permanent
    <3>2. Consistent(op)
      BY <1>1 DEF Checked
    <3> QED BY <3>1, <3>2 DEF Consistent, StateOf, Stages
  <2>6. CASE Downstream
    BY <2>5, <2>6, DownstreamReports
  <2> QED BY <2>1, <2>2, <2>4, <2>6 DEF Next
<1> QED BY <1>1, IngestionInvariant, PTL DEF Spec, PermanentForGood
=============================================================================
