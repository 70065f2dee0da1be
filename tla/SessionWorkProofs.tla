-------------------------- MODULE SessionWorkProofs --------------------------
(***************************************************************************)
(* Proofs about the work of a session: the event bus, the tool calls, the  *)
(* trajectory of an episode, the replays of its manifest and the turns of  *)
(* its agents.  Each component has state of its own and an inductive       *)
(* invariant of its own.                                                   *)
(***************************************************************************)
EXTENDS EventDelivery, McpGateway, MarlEpisode, SessionReplay, AgentTurns,
        FiniteSetTheorems, SequenceTheorems, WellFoundedInduction, TLAPS

(* Every set of numbers that is not empty has a least one. *)
LEMMA LeastNumber ==
  ASSUME NEW T, T \subseteq Nat, T # {}
  PROVE  \E n \in T : \A m \in T : n <= m
<1> DEFINE less == OpToRel(<, Nat)
<1>1. IsWellFoundedOn(less, Nat)
  BY NatLessThanWellFounded
<1>2. \A x, y \in Nat : x < y => <<x, y>> \in less
  BY DEF OpToRel
<1> HIDE DEF less
<1>3. PICK n \in T : \A m \in T : ~(<<m, n>> \in less)
  BY <1>1, WFMin
<1>4. \A m \in T : ~(m < n)
  BY <1>2, <1>3
<1> QED BY <1>3, <1>4
-----------------------------------------------------------------------------
(* The event bus.                                                            *)

QueueStates == {"waiting", "acked", "terminated"}

(* Each delivery made so far has a reason: the message has been handled, or  *)
(* cannot be decoded, or the delivery failed, or it is still under way.      *)
Accounted(g, i, n) ==
  \/ <<g, i>> \in handled
  \/ stored[i] \in Undecodable
  \/ <<g, i, n>> \in failed
  \/ [group |-> g, message |-> i, try |-> n, step |-> "received"] \in deliveries

(* A delivery is of a stored message, its handler has returned when it says  *)
(* so, what left a queue did so for a reason, and every try is accounted for.*)
BusInv ==
  /\ stored \in Seq(BusEvents)
  /\ queue \in [GroupNames -> [Positions -> QueueStates]]
  /\ tries \in [GroupNames -> [Positions -> Nat]]
  /\ \A d \in deliveries : /\ d.group \in GroupNames /\ d.message \in Positions
                           /\ d.message <= Len(stored)
                           /\ d.step = "handled" => <<d.group, d.message>> \in handled
  /\ \A g \in GroupNames, i \in Positions :
       /\ queue[g][i] = "acked" => <<g, i>> \in handled
       /\ queue[g][i] = "terminated" => i <= Len(stored) /\ stored[i] \in Undecodable
       /\ tries[g][i] > 0 => i <= Len(stored)
       /\ \A n \in 1..tries[g][i] : Accounted(g, i, n)

LEMMA BusInitial == BusInit => BusInv
<1> SUFFICES ASSUME BusInit PROVE BusInv
  OBVIOUS
<1>1. \A g \in GroupNames, i \in Positions : queue[g][i] = "waiting" /\ tries[g][i] = 0
  BY DEF BusInit
<1>2. \A g \in GroupNames, i \in Positions : \A n \in 1..tries[g][i] : Accounted(g, i, n)
  BY <1>1
<1> QED BY <1>1, <1>2 DEF BusInit, BusInv, QueueStates

LEMMA PublishStep == ASSUME BusInv, NEW e \in BusEvents, Publish(e) PROVE BusInv'
<1>1. /\ stored' = Append(stored, e) /\ UNCHANGED <<queue, tries, deliveries, handled, failed>>
      /\ stored \in Seq(BusEvents)
  BY DEF BusInv, Publish
<1>2. /\ stored' \in Seq(BusEvents) /\ Len(stored') = Len(stored) + 1 /\ Len(stored) \in Nat
      /\ \A i \in 1..Len(stored) : stored'[i] = stored[i]
  BY <1>1, AppendProperties
<1>3. Positions \subseteq Nat \ {0}
  BY BusBounds DEF Positions
<1>4. \A i \in Positions : i <= Len(stored) => i <= Len(stored') /\ stored'[i] = stored[i]
  <2> SUFFICES ASSUME NEW i \in Positions, i <= Len(stored)
               PROVE  i <= Len(stored') /\ stored'[i] = stored[i]
    OBVIOUS
  <2>1. i \in Nat /\ i >= 1
    BY ONLY <1>3, i \in Positions
  <2>2. i \in 1..Len(stored)
    BY ONLY <1>2, <2>1, i <= Len(stored)
  <2>3. i <= Len(stored')
    BY ONLY <1>2, <2>1, i <= Len(stored)
  <2> QED BY <1>2, <2>2, <2>3
<1>5. ASSUME NEW g \in GroupNames, NEW i \in Positions, NEW n \in 1..tries[g][i]
      PROVE  Accounted(g, i, n)'
  <2>1. tries[g][i] \in Nat /\ Accounted(g, i, n)
    BY DEF BusInv
  <2>2. tries[g][i] > 0
    BY <2>1
  <2>3. stored'[i] = stored[i]
    BY <1>4, <2>2 DEF BusInv
  <2> QED BY <1>1, <2>1, <2>3 DEF Accounted
<1> QED BY <1>1, <1>2, <1>4, <1>5 DEF BusInv

LEMMA LeaveFor ==
  ASSUME BusInv, NEW d \in deliveries, NEW state \in {"acked", "terminated"}, Leave(d, state),
         UNCHANGED <<stored, tries, handled, failed>>, deliveries' = deliveries \ {d},
         state = "acked" => <<d.group, d.message>> \in handled,
         state = "terminated" => stored[d.message] \in Undecodable
  PROVE  BusInv'
<1> DEFINE g == d.group
           m == d.message
           left == [queue EXCEPT ![g][m] = IF @ = "waiting" THEN state ELSE @]
<1>1. /\ g \in GroupNames /\ m \in Positions /\ m <= Len(stored)
      /\ queue \in [GroupNames -> [Positions -> QueueStates]] /\ queue' = left
  BY DEF BusInv, Leave
<1>2. queue' \in [GroupNames -> [Positions -> QueueStates]]
  BY <1>1 DEF QueueStates
<1>3. ASSUME NEW h \in GroupNames, NEW i \in Positions
      PROVE  queue'[h][i] = queue[h][i] \/ (h = g /\ i = m /\ queue'[h][i] = state)
  BY <1>1
<1>4. ASSUME NEW h \in GroupNames, NEW i \in Positions
      PROVE  /\ queue'[h][i] = "acked" => <<h, i>> \in handled
             /\ queue'[h][i] = "terminated" => i <= Len(stored) /\ stored[i] \in Undecodable
  <2> HIDE DEF g, m
  <2>1. CASE queue'[h][i] = queue[h][i]
    BY <2>1 DEF BusInv
  <2>2. CASE h = g /\ i = m /\ queue'[h][i] = state
    BY <1>1, <2>2 DEF g, m
  <2> QED BY <1>3, <2>1, <2>2
<1>5. ASSUME NEW h \in GroupNames, NEW i \in Positions, NEW n \in 1..tries[h][i]
      PROVE  Accounted(h, i, n)'
  <2>1. Accounted(h, i, n)
    BY DEF BusInv
  <2>2. <<g, m>> \in handled \/ stored[m] \in Undecodable
    OBVIOUS
  <2>3. CASE d = [group |-> h, message |-> i, try |-> n, step |-> "received"]
    BY <2>2, <2>3 DEF Accounted
  <2>4. CASE d # [group |-> h, message |-> i, try |-> n, step |-> "received"]
    BY <2>1, <2>4 DEF Accounted
  <2> QED BY <2>3, <2>4
<1> QED BY <1>2, <1>4, <1>5 DEF BusInv

LEMMA BusStep == BusInv /\ [BusNext]_busVars => BusInv'
<1> SUFFICES ASSUME BusInv, [BusNext]_busVars PROVE BusInv'
  OBVIOUS
<1>1. CASE UNCHANGED busVars
  BY <1>1 DEF busVars, BusInv, Accounted
<1>2. CASE \E e \in BusEvents : Publish(e)
  BY <1>2, PublishStep
<1>3. ASSUME NEW g \in GroupNames, NEW from_start \in BOOLEAN, Subscribe(g, from_start) PROVE BusInv'
  BY <1>3 DEF Subscribe, BusInv, Accounted
<1>4. ASSUME NEW g \in GroupNames, NEW i \in Positions, Deliver(g, i) PROVE BusInv'
  <2> DEFINE last == tries[g][i] + 1
             d == [group |-> g, message |-> i, try |-> last, step |-> "received"]
  <2>1. /\ deliveries' = deliveries \cup {d} /\ UNCHANGED <<stored, queue, handled, failed>>
        /\ tries' = [tries EXCEPT ![g][i] = last] /\ i <= Len(stored)
    BY <1>4 DEF Deliver
  <2>2. d.group = g /\ d.message = i /\ d.step = "received"
    OBVIOUS
  <2>3. last \in Nat /\ tries \in [GroupNames -> [Positions -> Nat]]
    BY DEF BusInv
  <2>4. /\ tries' \in [GroupNames -> [Positions -> Nat]] /\ tries'[g][i] = last
        /\ \A h \in GroupNames, k \in Positions : ~(h = g /\ k = i) => tries'[h][k] = tries[h][k]
    BY <2>1, <2>3
  <2>5. ASSUME NEW h \in GroupNames, NEW k \in Positions, NEW n \in 1..tries'[h][k]
        PROVE  Accounted(h, k, n)'
    <3>1. CASE h = g /\ k = i /\ n = last
      BY <2>1, <3>1 DEF Accounted
    <3>2. CASE ~(h = g /\ k = i /\ n = last)
      <4>1. n \in 1..tries[h][k]
        <5>1. CASE h = g /\ k = i
          <6>1. n \in 1..last /\ n # last /\ tries[g][i] \in Nat
            BY <2>3, <2>4, <3>2, <5>1
          <6>2. n \in 1..tries[g][i]
            BY <6>1
          <6> QED BY <5>1, <6>2
        <5>2. CASE ~(h = g /\ k = i)
          BY <2>4, <5>2
        <5> QED BY <5>1, <5>2
      <4>2. Accounted(h, k, n)
        BY <4>1 DEF BusInv
      <4> QED BY <2>1, <4>2 DEF Accounted
    <3> QED BY <3>1, <3>2
  <2>6. \A h \in GroupNames, k \in Positions : tries'[h][k] > 0 => k <= Len(stored)
    BY <2>1, <2>4 DEF BusInv
  <2> HIDE DEF d, last
  <2> QED BY <2>1, <2>2, <2>4, <2>5, <2>6 DEF BusInv
<1>5. ASSUME NEW d \in deliveries, TerminatePoison(d) PROVE BusInv'
  BY <1>5, LeaveFor DEF TerminatePoison, QueueStates
<1>6. ASSUME NEW d \in deliveries, HandlerReturns(d) PROVE BusInv'
  <2> DEFINE e == [d EXCEPT !.step = "handled"]
  <2>1. /\ deliveries' = (deliveries \ {d}) \cup {e} /\ UNCHANGED <<stored, queue, tries, failed>>
        /\ handled' = handled \cup {<<d.group, d.message>>}
    BY <1>6 DEF HandlerReturns
  <2>2. e.group = d.group /\ e.message = d.message
    OBVIOUS
  <2> HIDE DEF e
  <2>3. ASSUME NEW g \in GroupNames, NEW i \in Positions, NEW n \in 1..tries[g][i]
        PROVE  Accounted(g, i, n)'
    <3>1. Accounted(g, i, n)
      BY DEF BusInv
    <3>2. CASE d = [group |-> g, message |-> i, try |-> n, step |-> "received"]
      <4>1. <<g, i>> \in handled'
        BY <2>1, <3>2
      <4> QED BY <4>1 DEF Accounted
    <3>3. CASE d # [group |-> g, message |-> i, try |-> n, step |-> "received"]
      BY <2>1, <3>1, <3>3 DEF Accounted
    <3> QED BY <3>2, <3>3
  <2> QED BY <2>1, <2>2, <2>3 DEF BusInv
<1>7. ASSUME NEW d \in deliveries, Acknowledge(d) PROVE BusInv'
  BY <1>7, LeaveFor DEF Acknowledge, QueueStates, BusInv
<1>8. ASSUME NEW d \in deliveries, HandlerFails(d) PROVE BusInv'
  <2>1. /\ deliveries' = deliveries \ {d} /\ failed' = failed \cup Failing(d)
        /\ UNCHANGED <<stored, queue, tries, handled>>
    BY <1>8 DEF HandlerFails
  <2>2. ASSUME NEW g \in GroupNames, NEW i \in Positions, NEW n \in 1..tries[g][i]
        PROVE  Accounted(g, i, n)'
    <3>1. Accounted(g, i, n)
      BY DEF BusInv
    <3>2. CASE d = [group |-> g, message |-> i, try |-> n, step |-> "received"]
      <4>1. <<g, i, n>> \in failed'
        BY <2>1, <3>2 DEF Failing
      <4> QED BY <4>1 DEF Accounted
    <3>3. CASE d # [group |-> g, message |-> i, try |-> n, step |-> "received"]
      BY <2>1, <3>1, <3>3 DEF Accounted
    <3> QED BY <3>2, <3>3
  <2> QED BY <2>1, <2>2 DEF BusInv
<1>9. ASSUME NEW p \in publishing, InvokeRaises(p) \/ InvokeReturns(p) PROVE BusInv'
  <2>1. /\ UNCHANGED <<stored, queue, tries, deliveries>>
        /\ handled \subseteq handled' /\ failed \subseteq failed'
    BY <1>9 DEF InvokeRaises, InvokeReturns
  <2>2. \A g \in GroupNames, i \in Positions : \A n \in 1..tries[g][i] : Accounted(g, i, n)'
    BY <2>1 DEF Accounted, BusInv
  <2> QED BY <2>1, <2>2 DEF BusInv
<1> QED BY <1>1, <1>2, <1>3, <1>4, <1>5, <1>6, <1>7, <1>8, <1>9 DEF BusNext

(* Over JetStream a group loses a message only by failing in each of its     *)
(* deliveries: _on_msg acknowledges after the handler has returned and       *)
(* terminates only what it cannot decode, however deliveries of one message  *)
(* overlap and whenever a handler fails or its process dies.                 *)
THEOREM MessagesLostOnlyByFailing == BusSpec => []LostOnlyByFailing
<1>1. BusInv => LostOnlyByFailing
  <2> SUFFICES ASSUME BusInv, NEW g \in GroupNames, NEW i \in Positions, Settled(g, i),
                      <<g, i>> \notin handled, stored[i] \notin Undecodable,
                      NEW n \in 1..MaxDeliver
               PROVE  <<g, i, n>> \in failed
    BY DEF LostOnlyByFailing
  <2>1. queue[g][i] = "waiting"
    BY DEF BusInv, QueueStates
  <2>2. n \in 1..tries[g][i]
    BY <2>1 DEF Settled
  <2>3. Accounted(g, i, n)
    BY <2>2 DEF BusInv
  <2>4. [group |-> g, message |-> i, try |-> n, step |-> "received"] \notin deliveries
    BY DEF Settled
  <2> QED BY <2>3, <2>4 DEF Accounted
<1> QED BY <1>1, BusInitial, BusStep, PTL DEF BusSpec
-----------------------------------------------------------------------------
(* The tool calls.                                                           *)

(* What a tool call is refused with, or fails with. *)
McpFailures == {"AUTHENTICATION_FAILED", "AUTHORIZATION_DENIED", "INVALID_CONTEXT", "TOOL_NOT_FOUND",
                "INVALID_ARGUMENTS", "TIMEOUT", "CANCELLED", "UPSTREAM_PROTOCOL_ERROR",
                "RESULT_INVALID", "UPSTREAM_UNAVAILABLE"}

McpCalls == [step : {"new", "discovered", "waiting", "draining", "done"}, run : Nat,
             owner : BOOLEAN, answer : McpFailures \cup {"none", "result"}]

HeldBy(r) == r.step \in {"waiting", "draining"}

(* The run k is of exactly the call c. *)
RunOf(k, c) == /\ k \in 1..Len(run) /\ run[k].op = CallOf[c].op
               /\ run[k].identity = CallOf[c].identity

(* A caller that waits has joined a run of its own call; the one that owns   *)
(* the run has it in flight; and a result is that of a run that went well.   *)
CallOk(c, r) ==
  /\ r.run \in 0..Len(run)
  /\ HeldBy(r) => RunOf(r.run, c)
  /\ HeldBy(r) /\ r.owner => inflight[CallOf[c].op] = r.run
  /\ r.step = "draining" => r.owner /\ run[r.run].state \in {"stopping", "cancelled"}
  /\ r.answer = "result" => r.step = "done" /\ RunOf(r.run, c) /\ run[r.run].state = "ok"

OneOwner ==
  \A c, d \in ToolCalls :
    (/\ HeldBy(call[c]) /\ call[c].owner /\ HeldBy(call[d]) /\ call[d].owner
     /\ CallOf[c].op = CallOf[d].op) => c = d

InflightOk ==
  \A op \in Operations : inflight[op] # 0 => inflight[op] \in 1..Len(run) /\ run[inflight[op]].op = op

RunningIsInflight == \A k \in 1..Len(run) : run[k].state = "running" => inflight[run[k].op] = k

EntryOk(e) == /\ e.run \in 1..Len(run) /\ run[e.run].op = e.op
              /\ run[e.run].identity = e.identity /\ run[e.run].state = "ok"

Remembered(op) == \E i \in 1..Len(dedup) : dedup[i].op = op

(* As long as its result is not forgotten, an operation that went well runs  *)
(* no more: the result is in the table, or its run is still in flight.       *)
ResultIsKept ==
  \A k \in 1..Len(run) : run[k].state = "ok" /\ run[k].op \notin forgotten =>
    inflight[run[k].op] = k \/ Remembered(run[k].op)

OneGoodRun ==
  \A k, l \in 1..Len(run) :
    (/\ run[k].op = run[l].op /\ run[k].op \notin forgotten
     /\ run[k].state = "ok" /\ run[l].state \in {"ok", "running"}) => k = l

McpTypes ==
  /\ call \in [ToolCalls -> McpCalls]
  /\ run \in Seq(UpstreamRuns) /\ Len(run) <= MaxRuns
  /\ inflight \in [Operations -> Nat]
  /\ dedup \in Seq(DedupEntries) /\ Len(dedup) <= MaxDedup
  /\ tools \in BOOLEAN /\ expired \subseteq Operations /\ restarts \in 0..MaxRestarts
  /\ forgotten \subseteq Operations

(* The inductive invariant. *)
McpInv ==
  /\ McpTypes
  /\ \A c \in ToolCalls : CallOk(c, call[c])
  /\ OneOwner /\ InflightOk /\ RunningIsInflight
  /\ \A i \in 1..Len(dedup) : EntryOk(dedup[i])
  /\ ResultIsKept /\ OneGoodRun

LEMMA McpInitial == McpInit => McpInv
<1> SUFFICES ASSUME McpInit PROVE McpInv
  OBVIOUS
<1>1. /\ run = <<>> /\ Len(run) = 0 /\ dedup = <<>> /\ Len(dedup) = 0
      /\ run \in Seq(UpstreamRuns) /\ dedup \in Seq(DedupEntries)
  BY DEF McpInit
<1>2. /\ call \in [ToolCalls -> McpCalls]
      /\ \A c \in ToolCalls : call[c].step = "new" /\ call[c].run = 0 /\ call[c].answer = "none"
  <2> DEFINE fresh == [step |-> "new", run |-> 0, owner |-> FALSE, answer |-> "none"]
  <2>1. /\ fresh \in McpCalls /\ fresh.step = "new" /\ fresh.run = 0 /\ fresh.answer = "none"
    BY DEF McpCalls
  <2>2. call = [c \in ToolCalls |-> fresh]
    BY DEF McpInit
  <2> HIDE DEF fresh
  <2> QED BY <2>1, <2>2
<1>3. inflight \in [Operations -> Nat] /\ \A op \in Operations : inflight[op] = 0
  BY DEF McpInit
<1>4. McpTypes
  BY <1>1, <1>2, <1>3, GatewayBounds DEF McpTypes, McpInit
<1>5. \A c \in ToolCalls : CallOk(c, call[c])
  BY <1>1, <1>2 DEF CallOk, HeldBy
<1> QED BY <1>1, <1>2, <1>3, <1>4, <1>5 DEF McpInv, OneOwner, HeldBy, InflightOk, RunningIsInflight,
           ResultIsKept, OneGoodRun

LEMMA OutcomeFacts ==
  /\ DOMAIN Outcome = {"ok", "malformed", "unavailable", "protocol", "timeout", "cancelled"}
  /\ \A state \in DOMAIN Outcome :
       Outcome[state] \in McpFailures \cup {"result"} /\ (Outcome[state] = "result" <=> state = "ok")
<1>1. DOMAIN Outcome = {"ok", "malformed", "unavailable", "protocol", "timeout", "cancelled"}
  BY DEF Outcome
<1>2. /\ Outcome["ok"] = "result" /\ Outcome["malformed"] = "RESULT_INVALID"
      /\ Outcome["unavailable"] = "UPSTREAM_UNAVAILABLE"
      /\ Outcome["protocol"] = "UPSTREAM_PROTOCOL_ERROR" /\ Outcome["timeout"] = "TIMEOUT"
      /\ Outcome["cancelled"] = "CANCELLED"
  BY DEF Outcome, McpCode
<1>3. ASSUME NEW state \in DOMAIN Outcome
      PROVE  Outcome[state] \in McpFailures \cup {"result"} /\ (Outcome[state] = "result" <=> state = "ok")
  <2>1. \/ state = "ok" \/ state = "malformed" \/ state = "unavailable" \/ state = "protocol"
        \/ state = "timeout" \/ state = "cancelled"
    BY <1>1, <1>3
  <2> QED BY <1>2, <2>1 DEF McpFailures
<1> QED BY <1>1, <1>3

(* The table of results after another one was put in it. *)
LEMMA RememberKeeps ==
  ASSUME dedup \in Seq(DedupEntries), Len(dedup) <= MaxDedup, NEW entry \in DedupEntries,
         Remember(entry)
  PROVE  /\ dedup' \in Seq(DedupEntries) /\ Len(dedup') <= MaxDedup
         /\ \A i \in 1..Len(dedup') :
              dedup'[i] = entry \/ \E j \in 1..Len(dedup) : dedup'[i] = dedup[j]
         /\ \E i \in 1..Len(dedup') : dedup'[i].op = entry.op
         /\ \A j \in 1..Len(dedup) : dedup[j].op \notin forgotten' =>
              \E i \in 1..Len(dedup') : dedup'[i].op = dedup[j].op
         /\ forgotten \subseteq forgotten'
         /\ forgotten' \subseteq forgotten \cup {dedup[j].op : j \in 1..Len(dedup)}
<1> DEFINE full == Len(dedup) >= MaxDedup
           kept == IF full THEN Tail(dedup) ELSE dedup
           known == {i \in DOMAIN kept : kept[i].op = entry.op}
           shift == IF full THEN 1 ELSE 0
<1>1. Len(dedup) \in Nat /\ MaxDedup \in Nat \ {0}
  BY GatewayBounds
<1>2. full => dedup # <<>> /\ Len(dedup) >= 1 /\ Len(dedup) = MaxDedup
  BY <1>1
<1>3. /\ kept \in Seq(DedupEntries) /\ Len(kept) = Len(dedup) - shift /\ Len(kept) \in Nat
      /\ \A i \in 1..Len(kept) : i + shift \in 1..Len(dedup) /\ kept[i] = dedup[i + shift]
      /\ Len(kept) < MaxDedup /\ DOMAIN kept = 1..Len(kept)
  <2>1. CASE full
    BY <1>1, <1>2, <2>1, HeadTailProperties
  <2>2. CASE ~full
    BY <1>1, <2>2
  <2> QED BY <2>1, <2>2
<1>4. /\ dedup' = IF known = {} THEN Append(kept, entry)
                  ELSE [i \in DOMAIN kept |-> IF i \in known THEN entry ELSE kept[i]]
      /\ forgotten' = IF full /\ Head(dedup).op # entry.op
                      THEN forgotten \cup {Head(dedup).op} ELSE forgotten
  BY DEF Remember
<1>5. full => Head(dedup) = dedup[1] /\ 1 \in 1..Len(dedup)
  BY <1>1, <1>2
<1> HIDE DEF kept, known, full
<1>6. /\ dedup' \in Seq(DedupEntries) /\ Len(dedup') <= MaxDedup /\ Len(dedup') >= Len(kept)
      /\ \A i \in 1..Len(dedup') : dedup'[i] = entry \/ (i \in 1..Len(kept) /\ dedup'[i] = kept[i])
      /\ \E i \in 1..Len(dedup') : dedup'[i].op = entry.op
      /\ \A i \in 1..Len(kept) : i \in 1..Len(dedup') /\ dedup'[i].op = kept[i].op
  <2>1. CASE known = {}
    <3>1. dedup' = Append(kept, entry)
      BY <1>4, <2>1
    <3>2. /\ dedup' \in Seq(DedupEntries) /\ Len(dedup') = Len(kept) + 1
          /\ \A i \in 1..Len(kept) : dedup'[i] = kept[i]
          /\ dedup'[Len(kept) + 1] = entry
      BY <1>3, <3>1, AppendProperties
    <3>3. \A i \in 1..Len(dedup') : i = Len(kept) + 1 \/ i \in 1..Len(kept)
      BY <1>3, <3>2
    <3>4. Len(kept) + 1 \in 1..Len(dedup') /\ \A i \in 1..Len(kept) : i \in 1..Len(dedup')
      BY <1>3, <3>2
    <3>5. Len(dedup') <= MaxDedup /\ Len(dedup') >= Len(kept)
      BY <1>1, <1>3, <3>2
    <3> QED BY <3>2, <3>3, <3>4, <3>5
  <2>2. CASE known # {}
    <3>1. dedup' = [i \in 1..Len(kept) |-> IF i \in known THEN entry ELSE kept[i]]
      BY <1>3, <1>4, <2>2
    <3>2. \A i \in 1..Len(kept) : dedup'[i] = (IF i \in known THEN entry ELSE kept[i])
                                  /\ kept[i] \in DedupEntries
      BY <1>3, <3>1, ElementOfSeq
    <3>3. dedup' \in [1..Len(kept) -> DedupEntries]
      BY <3>1, <3>2
    <3>4. dedup' \in Seq(DedupEntries) /\ Len(dedup') = Len(kept)
      BY <1>3, <3>1, <3>3
    <3>5. \A i \in known : i \in 1..Len(kept) /\ kept[i].op = entry.op
      BY <1>3 DEF known
    <3>6. PICK k \in known : TRUE
      BY <2>2
    <3>7. k \in 1..Len(dedup') /\ dedup'[k].op = entry.op
      BY <3>2, <3>4, <3>5
    <3>8. Len(dedup') <= MaxDedup /\ Len(dedup') >= Len(kept)
      BY <1>1, <1>3, <3>4
    <3>9. \A i \in 1..Len(kept) : dedup'[i].op = kept[i].op
      BY <3>2, <3>5
    <3> QED BY <3>2, <3>4, <3>7, <3>8, <3>9
  <2> QED BY <2>1, <2>2
<1>7. \A j \in 1..Len(dedup) : (full /\ j = 1) \/ \E i \in 1..Len(kept) : kept[i] = dedup[j]
  <2> SUFFICES ASSUME NEW j \in 1..Len(dedup), ~(full /\ j = 1)
               PROVE  \E i \in 1..Len(kept) : kept[i] = dedup[j]
    OBVIOUS
  <2>1. j - shift \in 1..Len(kept) /\ (j - shift) + shift = j
    BY <1>1, <1>3
  <2> QED BY <1>3, <2>1
<1>8. ASSUME NEW j \in 1..Len(dedup), dedup[j].op \notin forgotten'
      PROVE  \E i \in 1..Len(dedup') : dedup'[i].op = dedup[j].op
  <2>1. CASE full /\ j = 1
    BY <1>4, <1>5, <1>6, <1>8, <2>1
  <2>2. CASE \E i \in 1..Len(kept) : kept[i] = dedup[j]
    BY <1>6, <2>2
  <2> QED BY <1>7, <2>1, <2>2
<1>9. forgotten \subseteq forgotten' /\ forgotten' \subseteq forgotten \cup {dedup[j].op : j \in 1..Len(dedup)}
  BY <1>4, <1>5
<1>10. ASSUME NEW i \in 1..Len(dedup')
       PROVE  dedup'[i] = entry \/ \E j \in 1..Len(dedup) : dedup'[i] = dedup[j]
  BY <1>3, <1>6
<1> HIDE DEF shift
<1> QED BY <1>6, <1>8, <1>9, <1>10

(* The first code that is not "none" is one of the codes. *)
LEMMA FirstIsOne ==
  ASSUME NEW codes, NEW n \in Nat, DOMAIN codes = 1..n,
         \A i \in 1..n : codes[i] \in McpFailures \cup {"none"}
  PROVE  First(codes) \in McpFailures \cup {"none"}
<1>1. CASE \A i \in 1..n : codes[i] = "none"
  BY <1>1 DEF First
<1>2. CASE \E i \in 1..n : codes[i] # "none"
  <2> DEFINE bad == {i \in 1..n : codes[i] # "none"}
  <2>1. PICK k \in bad : \A m \in bad : k <= m
    <3>1. bad \subseteq Nat /\ bad # {}
      BY <1>2
    <3> HIDE DEF bad
    <3> QED BY <3>1, LeastNumber
  <2>2. k \in 1..n /\ codes[k] # "none" /\ \A j \in 1..(k - 1) : codes[j] = "none"
    BY <2>1
  <2> DEFINE first == CHOOSE i \in 1..n : codes[i] # "none" /\ \A j \in 1..(i - 1) : codes[j] = "none"
  <2>3. first \in 1..n
    BY <2>2
  <2>4. First(codes) = codes[first]
    BY <1>2 DEF First
  <2> QED BY <2>3, <2>4
<1> QED BY <1>1, <1>2

LEMMA RefusalIsFailure ==
  ASSUME NEW r
  PROVE  /\ Refusal(r) \in McpFailures \cup {"none"}
         /\ First(<<IF r.op \in expired THEN "TIMEOUT" ELSE "none", Verify(r), Authorize(r)>>)
              \in McpFailures \cup {"none"}
<1>1. /\ Verify(r) \in McpFailures \cup {"none"} /\ Authorize(r) \in McpFailures \cup {"none"}
      /\ McpCode.FORBIDDEN \in McpFailures /\ McpCode.TOOL_NOT_FOUND \in McpFailures
      /\ McpCode.ARGUMENT_INVALID \in McpFailures
      /\ "TIMEOUT" \in McpFailures /\ "INVALID_ARGUMENTS" \in McpFailures
  BY DEF Verify, Authorize, McpCode, McpFailures
<1>2. Refusal(r) \in McpFailures \cup {"none"}
  <2> DEFINE a == IF r.op \in expired THEN "TIMEOUT" ELSE "none"
             b == IF r.arguments = "unbounded" THEN "INVALID_ARGUMENTS" ELSE "none"
             c == IF r.server = "fixture" THEN "none" ELSE McpCode.FORBIDDEN
             d == IF r.tool = "fixture.read_echo" THEN "none" ELSE McpCode.TOOL_NOT_FOUND
             e == IF ArgumentsValid(r) THEN "none" ELSE McpCode.ARGUMENT_INVALID
             codes == <<a, b, Verify(r), Authorize(r), c, d, e>>
  <2>1. \A x \in {a, b, Verify(r), Authorize(r), c, d, e} : x \in McpFailures \cup {"none"}
    BY <1>1
  <2>2. Refusal(r) = First(codes)
    BY DEF Refusal
  <2> HIDE DEF a, b, c, d, e
  <2>3. DOMAIN codes = 1..7 /\ 7 \in Nat
    OBVIOUS
  <2>4. \A i \in 1..7 : codes[i] \in {a, b, Verify(r), Authorize(r), c, d, e}
    OBVIOUS
  <2> HIDE DEF codes
  <2> QED BY <2>1, <2>2, <2>3, <2>4, FirstIsOne
<1>3. First(<<IF r.op \in expired THEN "TIMEOUT" ELSE "none", Verify(r), Authorize(r)>>)
        \in McpFailures \cup {"none"}
  <2> DEFINE a == IF r.op \in expired THEN "TIMEOUT" ELSE "none"
             codes == <<a, Verify(r), Authorize(r)>>
  <2>1. \A x \in {a, Verify(r), Authorize(r)} : x \in McpFailures \cup {"none"}
    BY <1>1
  <2> HIDE DEF a
  <2>2. DOMAIN codes = 1..3 /\ 3 \in Nat
    OBVIOUS
  <2>3. \A i \in 1..3 : codes[i] \in {a, Verify(r), Authorize(r)}
    OBVIOUS
  <2> HIDE DEF codes
  <2>4. First(codes) \in McpFailures \cup {"none"}
    BY <2>1, <2>2, <2>3, FirstIsOne
  <2> QED BY <2>4 DEF codes, a
<1> QED BY <1>2, <1>3
-----------------------------------------------------------------------------
LEMMA McpParts ==
  ASSUME McpInv
  PROVE  /\ McpTypes /\ run \in Seq(UpstreamRuns) /\ Len(run) \in Nat
         /\ \A k \in 1..Len(run) : run[k] \in UpstreamRuns
         /\ \A c \in ToolCalls : /\ call[c] \in McpCalls /\ CallOk(c, call[c])
                                  /\ CallOf[c].op \in Operations /\ CallOf[c].identity \in STRING
         /\ OneOwner /\ InflightOk /\ RunningIsInflight /\ ResultIsKept /\ OneGoodRun
         /\ inflight \in [Operations -> Nat] /\ dedup \in Seq(DedupEntries)
         /\ \A i \in 1..Len(dedup) : EntryOk(dedup[i])
<1>1. /\ McpTypes /\ run \in Seq(UpstreamRuns) /\ Len(run) \in Nat
      /\ \A k \in 1..Len(run) : run[k] \in UpstreamRuns
  BY ElementOfSeq DEF McpInv, McpTypes
<1>2. \A c \in ToolCalls : CallOf[c].op \in Operations /\ CallOf[c].identity \in STRING
  BY CallsAreRequests DEF Operations, ToolCallRequests
<1> QED BY <1>1, <1>2 DEF McpInv, McpTypes

(* A step that leaves the runs and the tables alone and moves one call that  *)
(* does not come to own a run by it.                                         *)
LEMMA OneCallMoves ==
  ASSUME McpInv, NEW c \in ToolCalls, NEW r \in McpCalls, call' = [call EXCEPT ![c] = r],
         UNCHANGED <<run, inflight, dedup, expired, restarts, forgotten>>, tools' \in BOOLEAN,
         CallOk(c, r), HeldBy(r) /\ r.owner => HeldBy(call[c]) /\ call[c].owner
  PROVE  McpInv'
<1>1. call \in [ToolCalls -> McpCalls] /\ McpTypes
  BY McpParts DEF McpTypes
<1>2. /\ call' \in [ToolCalls -> McpCalls] /\ call'[c] = r
      /\ \A d \in ToolCalls : d # c => call'[d] = call[d]
  BY <1>1
<1>3. McpTypes'
  BY <1>1, <1>2 DEF McpTypes
<1>4. ASSUME NEW d \in ToolCalls PROVE CallOk(d, call[d])'
  <2>1. CallOk(d, call'[d])
    BY <1>2, McpParts
  <2> QED BY <2>1 DEF CallOk, RunOf
<1>5. OneOwner'
  <2> SUFFICES ASSUME NEW d \in ToolCalls, NEW e \in ToolCalls,
                      HeldBy(call'[d]), call'[d].owner, HeldBy(call'[e]), call'[e].owner,
                      CallOf[d].op = CallOf[e].op
               PROVE  d = e
    BY DEF OneOwner
  <2>1. HeldBy(call[d]) /\ call[d].owner /\ HeldBy(call[e]) /\ call[e].owner
    BY <1>2
  <2> QED BY <2>1, McpParts DEF OneOwner
<1>6. (InflightOk /\ RunningIsInflight /\ ResultIsKept /\ OneGoodRun)'
  BY McpParts DEF InflightOk, RunningIsInflight, ResultIsKept, OneGoodRun, Remembered
<1>7. (\A i \in 1..Len(dedup) : EntryOk(dedup[i]))'
  BY McpParts DEF EntryOk
<1> QED BY <1>3, <1>4, <1>5, <1>6, <1>7 DEF McpInv

(* An answer that is not a result ends a call. *)
LEMMA AnsweredMoves ==
  ASSUME McpInv, NEW c \in ToolCalls, NEW answer \in McpFailures, Answered(c, answer),
         UNCHANGED <<run, inflight, dedup, expired, restarts, forgotten>>, tools' \in BOOLEAN
  PROVE  McpInv'
<1> DEFINE r == [call[c] EXCEPT !.step = "done", !.answer = answer]
<1>1. call \in [ToolCalls -> McpCalls] /\ call[c] \in McpCalls /\ CallOk(c, call[c])
  BY McpParts DEF McpTypes
<1>2. call' = [call EXCEPT ![c] = r]
  BY <1>1 DEF Answered
<1>3. r \in McpCalls /\ r.step = "done" /\ r.answer = answer /\ r.run = call[c].run
  BY <1>1 DEF McpCalls
<1>4. answer # "result"
  BY DEF McpFailures
<1> HIDE DEF r
<1>5. CallOk(c, r) /\ ~HeldBy(r)
  BY <1>1, <1>3, <1>4 DEF CallOk, HeldBy
<1> QED BY <1>2, <1>3, <1>5, OneCallMoves

(* A step that moves the state of one run and nothing else, but for the      *)
(* owner that has told the run to stop.                                      *)
LEMMA OneRunMoves ==
  ASSUME McpInv, NEW k \in 1..Len(run),
         NEW s \in {"stopping", "cancelled", "ok", "malformed", "unavailable", "protocol", "timeout"},
         run' = [run EXCEPT ![k].state = s], run[k].state \in {"running", "stopping", "lost"},
         s = "ok" => run[k].state = "running",
         run[k].state = "stopping" => s \in {"stopping", "cancelled"},
         UNCHANGED <<inflight, dedup, tools, expired, restarts, forgotten>>,
         call' \in [ToolCalls -> McpCalls],
         \A d \in ToolCalls :
           \/ call'[d] = call[d]
           \/ /\ call[d].step = "waiting" /\ call[d].owner /\ call[d].run = k /\ s = "stopping"
              /\ call'[d] = [call[d] EXCEPT !.step = "draining"]
  PROVE  McpInv'
<1>1. /\ run' \in Seq(UpstreamRuns) /\ Len(run') = Len(run)
      /\ \A j \in 1..Len(run) : /\ run'[j].op = run[j].op /\ run'[j].identity = run[j].identity
                                /\ run'[j].state = IF j = k THEN s ELSE run[j].state
  <2> DEFINE moved == [run[k] EXCEPT !.state = s]
  <2>1. /\ run[k] \in UpstreamRuns /\ moved \in UpstreamRuns /\ moved.op = run[k].op
        /\ moved.identity = run[k].identity /\ moved.state = s
    BY McpParts DEF UpstreamRuns
  <2>2. run' = [run EXCEPT ![k] = moved] /\ run \in Seq(UpstreamRuns)
    BY McpParts
  <2> HIDE DEF moved
  <2>3. /\ run' \in Seq(UpstreamRuns) /\ Len(run') = Len(run)
        /\ \A j \in 1..Len(run) : run'[j] = IF j = k THEN moved ELSE run[j]
    BY <2>1, <2>2
  <2> QED BY <2>1, <2>3
<1>2. McpTypes'
  BY <1>1, McpParts DEF McpTypes
<1>3. \A j \in 1..Len(run) : run[j].state = "ok" => run'[j].state = "ok"
  BY <1>1
<1>4. ASSUME NEW d \in ToolCalls PROVE CallOk(d, call[d])'
  <2>1. call[d] \in McpCalls /\ CallOk(d, call[d]) /\ Len(run') = Len(run)
    BY <1>1, McpParts
  <2>2. \A j \in 1..Len(run) : RunOf(j, d) => RunOf(j, d)'
    BY <1>1 DEF RunOf
  <2>3. CASE call'[d] = call[d]
    <3>1. HeldBy(call[d]) \/ call[d].answer = "result" =>
            call[d].run \in 1..Len(run) /\ RunOf(call[d].run, d)
      BY <2>1 DEF CallOk, RunOf
    <3>2. call[d].step = "draining" =>
            call[d].owner /\ HeldBy(call[d]) /\ run'[call[d].run].state \in {"stopping", "cancelled"}
      BY <1>1, <2>1, <3>1 DEF CallOk, HeldBy
    <3>3. call[d].answer = "result" => run'[call[d].run].state = "ok" /\ call[d].step = "done"
      BY <1>3, <2>1, <3>1 DEF CallOk
    <3> QED BY <2>1, <2>2, <2>3, <3>1, <3>2, <3>3 DEF CallOk, HeldBy
  <2>4. CASE /\ call[d].step = "waiting" /\ call[d].owner /\ call[d].run = k /\ s = "stopping"
             /\ call'[d] = [call[d] EXCEPT !.step = "draining"]
    <3>1. /\ call'[d].step = "draining" /\ call'[d].run = k /\ call'[d].owner
          /\ call'[d].answer = call[d].answer
      BY <2>1, <2>4 DEF McpCalls
    <3>2. /\ RunOf(k, d) /\ inflight[CallOf[d].op] = k /\ call[d].answer # "result"
      BY <2>1, <2>4 DEF CallOk, HeldBy
    <3>3. RunOf(k, d)' /\ run'[k].state = "stopping" /\ k \in 0..Len(run')
      BY <1>1, <2>2, <2>4, <3>2
    <3> QED BY <3>1, <3>2, <3>3 DEF CallOk, HeldBy
  <2> QED BY <2>3, <2>4
<1>5. OneOwner'
  <2>1. \A d \in ToolCalls : /\ HeldBy(call'[d]) => HeldBy(call[d])
                             /\ call'[d].owner = call[d].owner
    BY McpParts DEF HeldBy, McpCalls
  <2> QED BY <2>1, McpParts DEF OneOwner
<1>6. InflightOk'
  BY <1>1, McpParts DEF InflightOk
<1>7. RunningIsInflight'
  BY <1>1, McpParts DEF RunningIsInflight
<1>8. ResultIsKept'
  <2> SUFFICES ASSUME NEW j \in 1..Len(run), run'[j].state = "ok", run[j].op \notin forgotten
               PROVE  inflight[run[j].op] = j \/ Remembered(run[j].op)
    BY <1>1 DEF ResultIsKept, Remembered
  <2>1. CASE run[j].state = "ok"
    BY <2>1, McpParts DEF ResultIsKept
  <2>2. CASE j = k /\ run[k].state = "running"
    BY <2>2, McpParts DEF RunningIsInflight
  <2> QED BY <1>1, <2>1, <2>2
<1>9. OneGoodRun'
  <2> SUFFICES ASSUME NEW i \in 1..Len(run), NEW j \in 1..Len(run), run[i].op = run[j].op,
                      run[i].op \notin forgotten, run'[i].state = "ok",
                      run'[j].state \in {"ok", "running"}
               PROVE  i = j
    BY <1>1 DEF OneGoodRun
  <2>1. run[i].state \in {"ok", "running"} /\ run[j].state \in {"ok", "running"}
    BY <1>1
  <2>2. CASE run[i].state = "ok" \/ run[j].state = "ok"
    BY <2>1, <2>2, McpParts DEF OneGoodRun
  <2>3. CASE run[i].state = "running" /\ run[j].state = "running"
    BY <2>3, McpParts DEF RunningIsInflight
  <2> QED BY <2>1, <2>2, <2>3
<1>10. (\A i \in 1..Len(dedup) : EntryOk(dedup[i]))'
  BY <1>1, <1>3, McpParts DEF EntryOk
<1> QED BY <1>2, <1>4, <1>5, <1>6, <1>7, <1>8, <1>9, <1>10 DEF McpInv
-----------------------------------------------------------------------------
LEMMA DiscoverStep == ASSUME McpInv, NEW c \in ToolCalls, Discover(c) PROVE McpInv'
<1> DEFINE r == CallOf[c]
           refusal == First(<<IF r.op \in expired THEN "TIMEOUT" ELSE "none", Verify(r), Authorize(r)>>)
<1>1. refusal \in McpFailures \cup {"none"}
  BY RefusalIsFailure
<1>2. /\ call[c].step = "new" /\ call[c] \in McpCalls /\ CallOk(c, call[c]) /\ tools \in BOOLEAN
      /\ call \in [ToolCalls -> McpCalls] /\ UNCHANGED <<run, inflight, dedup, expired, restarts, forgotten>>
  BY McpParts DEF Discover, McpTypes
<1>3. \/ refusal # "none" /\ Answered(c, refusal) /\ UNCHANGED tools
      \/ refusal = "none" /\ tools' = TRUE /\ call' = [call EXCEPT ![c].step = "discovered"]
      \/ refusal = "none" /\ tools' = TRUE /\ Answered(c, "TOOL_NOT_FOUND")
      \/ /\ UNCHANGED tools
         /\ \E code \in {"UPSTREAM_UNAVAILABLE", "UPSTREAM_PROTOCOL_ERROR", "RESULT_INVALID"} : Answered(c, code)
  BY DEF Discover
<1> HIDE DEF refusal
<1>4. CASE refusal # "none" /\ Answered(c, refusal) /\ UNCHANGED tools
  BY <1>1, <1>2, <1>4, AnsweredMoves
<1>5. CASE tools' = TRUE /\ call' = [call EXCEPT ![c].step = "discovered"]
  <2> DEFINE moved == [call[c] EXCEPT !.step = "discovered"]
  <2>1. /\ moved \in McpCalls /\ moved.step = "discovered" /\ moved.run = call[c].run
        /\ moved.answer = call[c].answer
    BY <1>2 DEF McpCalls
  <2>2. call' = [call EXCEPT ![c] = moved]
    BY <1>2, <1>5
  <2> HIDE DEF moved
  <2>3. CallOk(c, moved) /\ ~HeldBy(moved)
    BY <1>2, <2>1 DEF CallOk, HeldBy
  <2> QED BY <1>2, <1>5, <2>1, <2>2, <2>3, OneCallMoves
<1>6. CASE tools' = TRUE /\ Answered(c, "TOOL_NOT_FOUND")
  BY <1>2, <1>6, AnsweredMoves DEF McpFailures
<1>7. CASE UNCHANGED tools /\ \E code \in {"UPSTREAM_UNAVAILABLE", "UPSTREAM_PROTOCOL_ERROR", "RESULT_INVALID"} : Answered(c, code)
  <2>1. PICK code \in McpFailures : Answered(c, code)
    BY <1>7 DEF McpFailures
  <2> QED BY <1>2, <1>7, <2>1, AnsweredMoves
<1> QED BY <1>3, <1>4, <1>5, <1>6, <1>7

LEMMA FinishStep ==
  ASSUME McpInv, NEW k \in DOMAIN run, NEW state \in Endings, Finish(k, state)
  PROVE  McpInv'
<1>1. k \in 1..Len(run) /\ call' = call /\ call \in [ToolCalls -> McpCalls]
  BY McpParts DEF McpTypes, Finish
<1>2. state \in {"ok", "malformed", "unavailable", "protocol", "timeout"}
  BY GatewayBounds
<1> QED BY <1>1, <1>2, OneRunMoves DEF Finish

LEMMA StopStep == ASSUME McpInv, NEW k \in DOMAIN run, Stop(k) PROVE McpInv'
<1>1. k \in 1..Len(run) /\ call' = call /\ call \in [ToolCalls -> McpCalls]
  BY McpParts DEF McpTypes, Stop
<1> QED BY <1>1, OneRunMoves DEF Stop

LEMMA CancelStep == ASSUME McpInv, NEW c \in ToolCalls, Cancel(c) PROVE McpInv'
<1>1. /\ call \in [ToolCalls -> McpCalls] /\ call[c] \in McpCalls /\ CallOk(c, call[c])
      /\ call[c].step = "waiting" /\ run[call[c].run].state \notin DOMAIN Outcome /\ tools \in BOOLEAN
      /\ UNCHANGED <<inflight, dedup, tools, expired, restarts, forgotten>>
  BY McpParts DEF Cancel, McpTypes
<1>2. call[c].run \in 1..Len(run) /\ run[call[c].run] \in UpstreamRuns
  BY <1>1, McpParts DEF CallOk, HeldBy, RunOf
<1>3. run[call[c].run].state \in {"running", "stopping", "lost"}
  BY <1>1, <1>2, OutcomeFacts DEF UpstreamRuns
<1>4. CASE call[c].owner
  <2>1. /\ call' = [call EXCEPT ![c].step = "draining"]
        /\ run' = [run EXCEPT ![call[c].run].state = "stopping"]
    BY <1>4 DEF Cancel
  <2>2. [call[c] EXCEPT !.step = "draining"] \in McpCalls
    BY <1>1 DEF McpCalls
  <2>3. /\ call' \in [ToolCalls -> McpCalls] /\ call'[c] = [call[c] EXCEPT !.step = "draining"]
        /\ \A d \in ToolCalls : d # c => call'[d] = call[d]
    BY <1>1, <2>1, <2>2
  <2> QED BY <1>1, <1>2, <1>3, <1>4, <2>1, <2>3, OneRunMoves
<1>5. CASE ~call[c].owner
  <2>1. Answered(c, "CANCELLED") /\ UNCHANGED run
    BY <1>5 DEF Cancel, McpCode
  <2> QED BY <1>1, <2>1, AnsweredMoves DEF McpFailures
<1> QED BY <1>4, <1>5

LEMMA EnterStep == ASSUME McpInv, NEW c \in ToolCalls, Enter(c) PROVE McpInv'
<1> DEFINE r == CallOf[c]
           refusal == Refusal(r)
           flying == inflight[r.op]
           n == Len(run) + 1
           started == [op |-> r.op, identity |-> r.identity, state |-> "running"]
           owning == [step |-> "waiting", run |-> n, owner |-> TRUE, answer |-> "none"]
<1>0. refusal \in McpFailures \cup {"none"}
  BY RefusalIsFailure
<1>1. /\ call[c].step = "discovered" /\ call[c] \in McpCalls /\ CallOk(c, call[c]) /\ tools \in BOOLEAN
      /\ call \in [ToolCalls -> McpCalls] /\ UNCHANGED <<dedup, tools, expired, restarts, forgotten>>
      /\ r.op \in Operations /\ r.identity \in STRING
      /\ dedup \in Seq(DedupEntries) /\ Len(dedup) \in Nat /\ DOMAIN dedup = 1..Len(dedup)
  BY McpParts DEF Enter, McpTypes
<1>2. /\ McpCode.OPERATION_CONFLICT = "INVALID_CONTEXT" /\ "INVALID_CONTEXT" \in McpFailures
  BY DEF McpCode, McpFailures
<1>3. CASE refusal # "none" /\ Answered(c, refusal) /\ UNCHANGED <<run, inflight>>
  <2> HIDE DEF refusal
  <2> QED BY <1>0, <1>1, <1>3, AnsweredMoves
<1>4. CASE Answered(c, McpCode.OPERATION_CONFLICT) /\ UNCHANGED <<run, inflight>>
  <2>1. Answered(c, "INVALID_CONTEXT")
    BY <1>2, <1>4
  <2> QED BY <1>1, <1>2, <1>4, <2>1, AnsweredMoves
<1>5. ASSUME NEW i \in Prior(r.op), SameIdentity(dedup[i], r), UNCHANGED <<run, inflight>>,
             call' = [call EXCEPT ![c] = [step |-> "done", run |-> dedup[i].run, owner |-> FALSE, answer |-> "result"]]
      PROVE  McpInv'
  <2> DEFINE answered == [step |-> "done", run |-> dedup[i].run, owner |-> FALSE, answer |-> "result"]
  <2>1. /\ i \in 1..Len(dedup) /\ dedup[i].op = r.op /\ dedup[i].identity = r.identity
        /\ EntryOk(dedup[i])
    BY <1>1, <1>5, McpParts DEF Prior, SameIdentity
  <2>2. dedup[i].run \in 1..Len(run) /\ dedup[i].run \in 0..Len(run) /\ dedup[i].run \in Nat
    BY <2>1, McpParts DEF EntryOk
  <2>3. /\ answered \in McpCalls /\ answered.step = "done" /\ answered.run = dedup[i].run
        /\ answered.owner = FALSE /\ answered.answer = "result"
    BY <2>2 DEF McpCalls
  <2> HIDE DEF answered
  <2>4. CallOk(c, answered) /\ ~HeldBy(answered)
    BY <2>1, <2>2, <2>3 DEF CallOk, HeldBy, RunOf, EntryOk
  <2>5. call' = [call EXCEPT ![c] = answered]
    BY <1>5 DEF answered
  <2> QED BY <1>1, <1>5, <2>3, <2>4, <2>5, OneCallMoves
<1>6. CASE /\ flying # 0 /\ SameIdentity(run[flying], r) /\ UNCHANGED <<run, inflight>>
           /\ call' = [call EXCEPT ![c] = [step |-> "waiting", run |-> flying, owner |-> FALSE, answer |-> "none"]]
  <2> DEFINE waits == [step |-> "waiting", run |-> flying, owner |-> FALSE, answer |-> "none"]
  <2>1. flying \in 1..Len(run) /\ run[flying].op = r.op /\ run[flying].identity = r.identity
    BY <1>1, <1>6, McpParts DEF InflightOk, SameIdentity
  <2>2. flying \in Nat /\ flying \in 0..Len(run)
    BY <2>1, McpParts
  <2> HIDE DEF flying
  <2>3. /\ waits \in McpCalls /\ waits.step = "waiting" /\ waits.run = flying
        /\ waits.owner = FALSE /\ waits.answer = "none"
    BY <2>2 DEF McpCalls
  <2> HIDE DEF waits
  <2>4. CallOk(c, waits)
    BY <2>1, <2>2, <2>3 DEF CallOk, HeldBy, RunOf
  <2>5. call' = [call EXCEPT ![c] = waits]
    BY <1>6 DEF waits
  <2> QED BY <1>1, <1>6, <2>3, <2>4, <2>5, OneCallMoves
<1>7. CASE /\ Prior(r.op) = {} /\ flying = 0 /\ Len(run) < MaxRuns /\ run' = Append(run, started)
           /\ inflight' = [inflight EXCEPT ![r.op] = n] /\ call' = [call EXCEPT ![c] = owning]
  <2>1. /\ started \in UpstreamRuns /\ started.op = r.op /\ started.identity = r.identity
        /\ started.state = "running"
    BY <1>1 DEF UpstreamRuns
  <2>2. run \in Seq(UpstreamRuns) /\ Len(run) \in Nat /\ n \in Nat
    BY McpParts
  <2>3. /\ owning \in McpCalls /\ owning.step = "waiting" /\ owning.run = n /\ owning.owner = TRUE
        /\ owning.answer = "none"
    BY <2>2 DEF McpCalls
  <2> HIDE DEF started, owning
  <2>4. /\ run' \in Seq(UpstreamRuns) /\ Len(run') = n
        /\ \A k \in 1..Len(run) : run'[k] = run[k]
        /\ run'[n] = started
    BY <1>7, <2>1, <2>2, AppendProperties
  <2>5. \A k \in 1..n : k = n \/ k \in 1..Len(run)
    BY <2>2
  <2>6. \A k \in 1..Len(run) : k \in 1..n /\ k # n
    BY <2>2
  <2>7. /\ inflight' \in [Operations -> Nat] /\ inflight'[r.op] = n
        /\ \A op \in Operations : op # r.op => inflight'[op] = inflight[op]
    BY <1>1, <1>7, <2>2, McpParts
  <2>8. /\ call' \in [ToolCalls -> McpCalls] /\ call'[c] = owning
        /\ \A d \in ToolCalls : d # c => call'[d] = call[d]
    BY <1>1, <1>7, <2>3
  <2>9. McpTypes'
    <3>1. Len(run') <= MaxRuns
      BY <1>7, <2>2, <2>4, GatewayBounds
    <3> QED BY <1>1, <2>4, <2>7, <2>8, <3>1, McpParts DEF McpTypes
  <2>10. \A d \in ToolCalls : (HeldBy(call[d]) /\ call[d].owner) => CallOf[d].op # r.op
    <3> SUFFICES ASSUME NEW d \in ToolCalls, HeldBy(call[d]), call[d].owner, CallOf[d].op = r.op
                 PROVE  FALSE
      OBVIOUS
    <3>1. call[d].run = 0 /\ call[d].run \in 1..Len(run)
      BY <1>7, McpParts DEF CallOk, RunOf
    <3> QED BY <2>2, <3>1
  <2>11. \A k \in 1..Len(run) : run[k].op = r.op =>
            run[k].state # "running" /\ (run[k].state = "ok" => r.op \in forgotten)
    <3> SUFFICES ASSUME NEW k \in 1..Len(run), run[k].op = r.op
                 PROVE  run[k].state # "running" /\ (run[k].state = "ok" => r.op \in forgotten)
      OBVIOUS
    <3>1. inflight[r.op] # k
      BY <1>7, <2>2
    <3>2. ~Remembered(r.op)
      BY <1>1, <1>7 DEF Remembered, Prior
    <3> QED BY <3>1, <3>2, McpParts DEF RunningIsInflight, ResultIsKept
  <2>12. ASSUME NEW d \in ToolCalls PROVE CallOk(d, call[d])'
    <3>1. CASE d = c
      <4>1. /\ n \in 1..Len(run') /\ n \in 0..Len(run')
            /\ run'[n].op = CallOf[c].op /\ run'[n].identity = CallOf[c].identity
        BY <2>1, <2>2, <2>4
      <4> HIDE DEF n
      <4> QED BY <2>3, <2>7, <2>8, <3>1, <4>1 DEF CallOk, HeldBy, RunOf
    <3>2. CASE d # c
      <4>1. call'[d] = call[d] /\ CallOk(d, call[d]) /\ call[d] \in McpCalls /\ CallOf[d].op \in Operations
        BY <2>8, <3>2, McpParts
      <4>2. \A k \in 1..Len(run) : RunOf(k, d) => RunOf(k, d)'
        BY <2>4, <2>6 DEF RunOf
      <4>3. HeldBy(call[d]) \/ call[d].answer = "result" => call[d].run \in 1..Len(run)
        BY <4>1 DEF CallOk, RunOf
      <4>4. call[d].run \in 0..Len(run')
        BY <2>2, <2>4, <4>1 DEF CallOk
      <4>5. HeldBy(call[d]) /\ call[d].owner => inflight'[CallOf[d].op] = call[d].run
        BY <2>7, <2>10, <4>1 DEF CallOk
      <4>6. call[d].step = "draining" => HeldBy(call[d])
        BY DEF HeldBy
      <4> QED BY <2>4, <4>1, <4>2, <4>3, <4>4, <4>5, <4>6 DEF CallOk
    <3> QED BY <3>1, <3>2
  <2>13. OneOwner'
    BY <2>8, <2>10, McpParts DEF OneOwner
  <2>14. InflightOk'
    <3> SUFFICES ASSUME NEW op \in Operations, inflight'[op] # 0
                 PROVE  inflight'[op] \in 1..Len(run') /\ run'[inflight'[op]].op = op
      BY DEF InflightOk
    <3>1. CASE op = r.op
      <4>1. n \in 1..n
        BY <2>2
      <4> QED BY <2>1, <2>4, <2>7, <3>1, <4>1
    <3>2. CASE op # r.op
      BY <2>4, <2>6, <2>7, <3>2, McpParts DEF InflightOk
    <3> QED BY <3>1, <3>2
  <2>15. RunningIsInflight'
    <3> SUFFICES ASSUME NEW k \in 1..n, run'[k].state = "running" PROVE inflight'[run'[k].op] = k
      BY <2>4 DEF RunningIsInflight
    <3>1. CASE k = n
      BY <2>1, <2>4, <2>7, <3>1
    <3>2. CASE k \in 1..Len(run)
      <4>1. run[k] \in UpstreamRuns /\ run'[k] = run[k]
        BY <2>4, <3>2, McpParts
      <4>2. run[k].op \in Operations
        BY <4>1 DEF UpstreamRuns
      <4> QED BY <2>7, <2>11, <3>2, <4>1, <4>2, McpParts DEF RunningIsInflight
    <3> QED BY <2>5, <3>1, <3>2
  <2>16. ResultIsKept'
    <3> SUFFICES ASSUME NEW k \in 1..n, run'[k].state = "ok", run'[k].op \notin forgotten
                 PROVE  inflight'[run'[k].op] = k \/ Remembered(run'[k].op)
      BY <1>1, <2>4 DEF ResultIsKept, Remembered
    <3>1. k \in 1..Len(run) /\ run'[k] = run[k] /\ run[k] \in UpstreamRuns
      BY <2>1, <2>4, <2>5, McpParts
    <3>2. run[k].op \in Operations
      BY <3>1 DEF UpstreamRuns
    <3>3. run[k].op # r.op
      BY <2>11, <3>1
    <3> QED BY <2>7, <3>1, <3>2, <3>3, McpParts DEF ResultIsKept
  <2>17. OneGoodRun'
    <3> SUFFICES ASSUME NEW k \in 1..n, NEW l \in 1..n, run'[k].op = run'[l].op,
                        run'[k].op \notin forgotten, run'[k].state = "ok",
                        run'[l].state \in {"ok", "running"}
                 PROVE  k = l
      BY <1>1, <2>4 DEF OneGoodRun
    <3>1. k \in 1..Len(run) /\ run'[k] = run[k]
      BY <2>1, <2>4, <2>5
    <3>2. run[k].op # r.op
      BY <2>11, <3>1
    <3>3. l \in 1..Len(run) /\ run'[l] = run[l]
      BY <2>1, <2>4, <2>5, <3>1, <3>2
    <3> QED BY <3>1, <3>3, McpParts DEF OneGoodRun
  <2>18. (\A i \in 1..Len(dedup) : EntryOk(dedup[i]))'
    BY <1>1, <2>4, <2>6, McpParts DEF EntryOk
  <2> QED BY <2>9, <2>12, <2>13, <2>14, <2>15, <2>16, <2>17, <2>18 DEF McpInv
<1> QED BY <1>3, <1>4, <1>5, <1>6, <1>7 DEF Enter

(* A caller that wakes or has drained: its run goes out of flight when it    *)
(* owns it, and that run is no longer running.                               *)
LEMMA CallerLeaves ==
  ASSUME McpInv, NEW c \in ToolCalls, NEW answer \in McpFailures \cup {"result"},
         HeldBy(call[c]), Answered(c, answer), inflight' = Released(c),
         UNCHANGED <<run, tools, expired, restarts>>,
         run[call[c].run].state # "running", answer = "result" => run[call[c].run].state = "ok",
         dedup' \in Seq(DedupEntries), Len(dedup') <= MaxDedup,
         forgotten \subseteq forgotten', forgotten' \subseteq Operations,
         \A i \in 1..Len(dedup') : EntryOk(dedup'[i]),
         \A op \in Operations : Remembered(op) /\ op \notin forgotten' => Remembered(op)',
         run[call[c].run].state = "ok" => Remembered(CallOf[c].op)'
  PROVE  McpInv'
<1> DEFINE moved == [call[c] EXCEPT !.step = "done", !.answer = answer]
           o == CallOf[c].op
           m == call[c].run
<1>1. /\ call \in [ToolCalls -> McpCalls] /\ call[c] \in McpCalls /\ CallOk(c, call[c])
      /\ o \in Operations
  BY McpParts DEF McpTypes
<1>2. /\ moved \in McpCalls /\ moved.step = "done" /\ moved.answer = answer /\ moved.run = m
  BY <1>1 DEF McpCalls, McpFailures
<1>3. call' = [call EXCEPT ![c] = moved]
  BY <1>1 DEF Answered
<1> HIDE DEF moved
<1>4. /\ call' \in [ToolCalls -> McpCalls] /\ call'[c] = moved
      /\ \A d \in ToolCalls : d # c => call'[d] = call[d]
  BY <1>1, <1>2, <1>3
<1>5. RunOf(m, c) /\ m \in 1..Len(run) /\ run[m].op = o /\ m \in Nat \ {0}
  BY <1>1, McpParts DEF CallOk, RunOf
<1>6. /\ inflight' \in [Operations -> Nat]
      /\ \A op \in Operations : inflight'[op] = IF op = o /\ call[c].owner THEN 0 ELSE inflight[op]
      /\ call[c].owner => inflight[o] = m
  BY <1>1, McpParts DEF Released, CallOk
<1> HIDE DEF o, m
<1>7. McpTypes'
  BY <1>4, <1>6, McpParts DEF McpTypes
<1>8. ASSUME NEW d \in ToolCalls PROVE CallOk(d, call[d])'
  <2>1. CASE d = c
    <3>1. CallOk(c, moved)
      BY <1>1, <1>2, <1>5 DEF CallOk, HeldBy, m
    <3>2. ~HeldBy(moved)
      BY <1>2 DEF HeldBy
    <3>3. call'[d] = moved
      BY <1>4, <2>1
    <3> QED BY <2>1, <3>1, <3>2, <3>3 DEF CallOk, RunOf
  <2>2. CASE d # c
    <3>1. call'[d] = call[d] /\ CallOk(d, call[d]) /\ CallOf[d].op \in Operations
      BY <1>4, <2>2, McpParts
    <3>2. HeldBy(call[d]) /\ call[d].owner => ~(CallOf[d].op = o /\ call[c].owner)
      BY <2>2, McpParts DEF OneOwner, o
    <3>3. HeldBy(call[d]) /\ call[d].owner => inflight'[CallOf[d].op] = call[d].run
      BY <1>6, <3>1, <3>2 DEF CallOk
    <3> QED BY <3>1, <3>3 DEF CallOk, RunOf
  <2> QED BY <2>1, <2>2
<1>9. OneOwner'
  <2>1. \A d \in ToolCalls : HeldBy(call'[d]) => d # c
    BY <1>2, <1>4 DEF HeldBy
  <2> QED BY <1>4, <2>1, McpParts DEF OneOwner
<1>10. InflightOk'
  BY <1>6, McpParts DEF InflightOk
<1>11. RunningIsInflight'
  <2> SUFFICES ASSUME NEW k \in 1..Len(run), run[k].state = "running" PROVE inflight'[run[k].op] = k
    BY DEF RunningIsInflight
  <2>1. inflight[run[k].op] = k /\ run[k] \in UpstreamRuns /\ k # m
    BY McpParts DEF RunningIsInflight, m
  <2>2. run[k].op \in Operations
    BY <2>1 DEF UpstreamRuns
  <2> QED BY <1>6, <2>1, <2>2
<1>12. ResultIsKept'
  <2> SUFFICES ASSUME NEW k \in 1..Len(run), run[k].state = "ok", run[k].op \notin forgotten'
               PROVE  inflight'[run[k].op] = k \/ Remembered(run[k].op)'
    BY DEF ResultIsKept, Remembered
  <2>1. run[k] \in UpstreamRuns /\ (inflight[run[k].op] = k \/ Remembered(run[k].op))
    BY McpParts DEF ResultIsKept
  <2>2. run[k].op \in Operations
    BY <2>1 DEF UpstreamRuns
  <2>3. CASE Remembered(run[k].op)
    BY <2>2, <2>3
  <2>4. CASE inflight[run[k].op] = k /\ run[k].op = o /\ call[c].owner
    <3>1. k = m
      BY <1>6, <2>4
    <3> QED BY <2>4, <3>1 DEF o, m, Remembered
  <2>5. CASE inflight[run[k].op] = k /\ ~(run[k].op = o /\ call[c].owner)
    BY <1>6, <2>2, <2>5
  <2> QED BY <2>1, <2>3, <2>4, <2>5
<1>13. OneGoodRun'
  BY McpParts DEF OneGoodRun
<1>14. (\A i \in 1..Len(dedup) : EntryOk(dedup[i]))'
  BY DEF EntryOk
<1> QED BY <1>7, <1>8, <1>9, <1>10, <1>11, <1>12, <1>13, <1>14 DEF McpInv

LEMMA DrainedStep == ASSUME McpInv, NEW c \in ToolCalls, Drained(c) PROVE McpInv'
<1>1. /\ HeldBy(call[c]) /\ Answered(c, "CANCELLED") /\ inflight' = Released(c)
      /\ UNCHANGED <<run, dedup, tools, expired, restarts, forgotten>> /\ CallOk(c, call[c])
      /\ call[c].step = "draining"
  BY McpParts DEF Drained, McpCode, HeldBy
<1>2. run[call[c].run].state \in {"stopping", "cancelled"}
  BY <1>1 DEF CallOk
<1>3. /\ dedup' \in Seq(DedupEntries) /\ Len(dedup') <= MaxDedup /\ forgotten' \subseteq Operations
      /\ \A i \in 1..Len(dedup') : EntryOk(dedup'[i])
  BY <1>1, McpParts DEF McpTypes
<1>4. \A op \in Operations : Remembered(op) => Remembered(op)'
  BY <1>1 DEF Remembered
<1> QED BY <1>1, <1>2, <1>3, <1>4, CallerLeaves DEF McpFailures

LEMMA WakeStep == ASSUME McpInv, NEW c \in ToolCalls, Wake(c) PROVE McpInv'
<1> DEFINE state == run[call[c].run].state
           entry == [op |-> CallOf[c].op, identity |-> CallOf[c].identity, run |-> call[c].run]
<1>1. /\ HeldBy(call[c]) /\ state \in DOMAIN Outcome /\ Answered(c, Outcome[state])
      /\ inflight' = Released(c) /\ UNCHANGED <<run, tools, expired, restarts>>
      /\ IF state = "ok" THEN Remember(entry) ELSE UNCHANGED <<dedup, forgotten>>
      /\ CallOk(c, call[c]) /\ dedup \in Seq(DedupEntries) /\ Len(dedup) <= MaxDedup
      /\ forgotten \subseteq Operations /\ \A i \in 1..Len(dedup) : EntryOk(dedup[i])
      /\ CallOf[c].op \in Operations /\ CallOf[c].identity \in STRING
  BY McpParts DEF Wake, HeldBy, McpTypes
<1>2. /\ Outcome[state] \in McpFailures \cup {"result"} /\ (Outcome[state] = "result" <=> state = "ok")
      /\ state # "running"
  BY <1>1, OutcomeFacts
<1>3. RunOf(call[c].run, c) /\ call[c].run \in 1..MaxRuns /\ call[c].run \in 1..Len(run)
  <2>1. Len(run) <= MaxRuns /\ Len(run) \in Nat /\ MaxRuns \in Nat
    BY McpParts, GatewayBounds DEF McpTypes
  <2> QED BY <1>1, <2>1 DEF CallOk, RunOf
<1>4. /\ entry \in DedupEntries /\ entry.op = CallOf[c].op /\ entry.identity = CallOf[c].identity
      /\ entry.run = call[c].run
  BY <1>1, <1>3 DEF DedupEntries
<1>5. state = "ok" => EntryOk(entry)
  BY <1>3, <1>4 DEF EntryOk, RunOf
<1> HIDE DEF entry
<1>6. CASE state = "ok"
  <2>1. /\ dedup' \in Seq(DedupEntries) /\ Len(dedup') <= MaxDedup
        /\ \A i \in 1..Len(dedup') :
             dedup'[i] = entry \/ \E j \in 1..Len(dedup) : dedup'[i] = dedup[j]
        /\ \E i \in 1..Len(dedup') : dedup'[i].op = entry.op
        /\ \A j \in 1..Len(dedup) : dedup[j].op \notin forgotten' =>
             \E i \in 1..Len(dedup') : dedup'[i].op = dedup[j].op
        /\ forgotten \subseteq forgotten'
        /\ forgotten' \subseteq forgotten \cup {dedup[j].op : j \in 1..Len(dedup)}
    BY <1>1, <1>4, <1>6, RememberKeeps
  <2>2. \A i \in 1..Len(dedup') : EntryOk(dedup'[i])
    BY <1>1, <1>5, <1>6, <2>1
  <2>3. \A op \in Operations : Remembered(op) /\ op \notin forgotten' => Remembered(op)'
    BY <2>1 DEF Remembered
  <2>4. Remembered(CallOf[c].op)'
    BY <1>4, <2>1 DEF Remembered
  <2>5. \A j \in 1..Len(dedup) : dedup[j].op \in Operations
    <3>1. \A j \in 1..Len(dedup) : dedup[j] \in DedupEntries
      BY <1>1, ElementOfSeq
    <3> QED BY <3>1 DEF DedupEntries
  <2>6. forgotten' \subseteq Operations
    BY <1>1, <2>1, <2>5
  <2> HIDE DEF state
  <2> QED BY <1>1, <1>2, <2>1, <2>2, <2>3, <2>4, <2>6, CallerLeaves DEF state
<1>7. CASE state # "ok"
  <2>1. UNCHANGED <<dedup, forgotten>>
    BY <1>1, <1>7
  <2>2. \A op \in Operations : Remembered(op) => Remembered(op)'
    BY <2>1 DEF Remembered
  <2> HIDE DEF state
  <2> QED BY <1>1, <1>2, <1>7, <2>1, <2>2, CallerLeaves DEF state
<1> QED BY <1>6, <1>7

(* A restart forgets the result of every operation that has run. *)
LEMMA RestartStep == ASSUME McpInv, Restart PROVE McpInv'
<1> DEFINE Dead(k) == IF run[k].state \in {"running", "stopping"} THEN [run[k] EXCEPT !.state = "lost"] ELSE run[k]
           Hung(c) == IF call[c].step \in {"waiting", "draining"}
                      THEN [call[c] EXCEPT !.step = "done", !.answer = "UPSTREAM_UNAVAILABLE"] ELSE call[c]
<1>0. /\ call \in [ToolCalls -> McpCalls] /\ run \in Seq(UpstreamRuns) /\ Len(run) \in Nat
      /\ Len(run) <= MaxRuns /\ restarts \in 0..MaxRestarts /\ expired \subseteq Operations
      /\ \A k \in 1..Len(run) : run[k] \in UpstreamRuns
  BY McpParts DEF McpTypes
<1>1. /\ call' = [c \in ToolCalls |-> Hung(c)]
      /\ restarts < MaxRestarts /\ restarts' = restarts + 1 /\ inflight' = [op \in Operations |-> 0]
      /\ dedup' = <<>> /\ tools' = FALSE /\ expired' = expired
      /\ forgotten' = forgotten \cup {dedup[i].op : i \in DOMAIN dedup} \cup {run[k].op : k \in DOMAIN run}
  BY DEF Restart
<1>2. run' = [k \in 1..Len(run) |-> Dead(k)]
  <2>1. run' = [k \in DOMAIN run |-> Dead(k)]
    BY DEF Restart
  <2>2. DOMAIN run = 1..Len(run)
    BY <1>0
  <2> HIDE DEF Dead
  <2> QED BY <2>1, <2>2
<1>3. \A k \in 1..Len(run) : /\ Dead(k) \in UpstreamRuns /\ Dead(k).op = run[k].op
                             /\ Dead(k).identity = run[k].identity
                             /\ Dead(k).state # "running"
                             /\ run[k].state = "ok" => Dead(k).state = "ok"
  BY <1>0, <1>1 DEF UpstreamRuns
<1>4. \A c \in ToolCalls : /\ Hung(c) \in McpCalls /\ ~HeldBy(Hung(c)) /\ Hung(c).run = call[c].run
                           /\ Hung(c).answer = "result" =>
                                call[c].answer = "result" /\ Hung(c).step = call[c].step
  <2> SUFFICES ASSUME NEW c \in ToolCalls
               PROVE  /\ Hung(c) \in McpCalls /\ ~HeldBy(Hung(c)) /\ Hung(c).run = call[c].run
                      /\ Hung(c).answer = "result" =>
                           call[c].answer = "result" /\ Hung(c).step = call[c].step
    OBVIOUS
  <2>1. call[c] \in McpCalls
    BY <1>0, <1>1
  <2>2. CASE call[c].step \in {"waiting", "draining"}
    BY <2>1, <2>2 DEF McpCalls, McpFailures, HeldBy
  <2>3. CASE call[c].step \notin {"waiting", "draining"}
    BY <2>1, <2>3 DEF HeldBy
  <2> QED BY <2>2, <2>3
<1> HIDE DEF Dead, Hung
<1>5. /\ run' \in [1..Len(run) -> UpstreamRuns]
      /\ \A k \in 1..Len(run) : run'[k] = Dead(k)
  BY <1>2, <1>3
<1>6. run' \in Seq(UpstreamRuns) /\ Len(run') = Len(run)
  BY <1>0, <1>1, <1>2, <1>5
<1>7. /\ \A k \in 1..Len(run) : /\ run'[k].op = run[k].op /\ run'[k].identity = run[k].identity
                                /\ run'[k].state # "running"
                                /\ run[k].state = "ok" => run'[k].state = "ok"
      /\ \A c \in ToolCalls : /\ ~HeldBy(call'[c]) /\ call'[c].run = call[c].run
                              /\ call'[c].answer = "result" =>
                                   call[c].answer = "result" /\ call'[c].step = call[c].step
      /\ call' \in [ToolCalls -> McpCalls]
  BY <1>0, <1>1, <1>3, <1>4, <1>5
<1>8. inflight' \in [Operations -> Nat] /\ (\A op \in Operations : inflight'[op] = 0) /\ Len(dedup') = 0
      /\ dedup' \in Seq(DedupEntries)
  BY <1>0, <1>1
<1>9. /\ \A k \in 1..Len(run) : run[k].op \in forgotten' /\ run[k].op \in Operations
      /\ forgotten' \subseteq Operations
  <2>1. \A k \in 1..Len(run) : run[k].op \in Operations
    BY <1>0, <1>1 DEF UpstreamRuns
  <2>2. dedup \in Seq(DedupEntries) /\ \A i \in 1..Len(dedup) : dedup[i] \in DedupEntries
    BY McpParts, ElementOfSeq
  <2>3. DOMAIN dedup = 1..Len(dedup) /\ DOMAIN run = 1..Len(run)
    BY <1>0, <1>1, <2>2
  <2>4. \A i \in 1..Len(dedup) : dedup[i].op \in Operations
    BY <2>2 DEF DedupEntries
  <2>5. forgotten \subseteq Operations
    BY McpParts DEF McpTypes
  <2> QED BY <1>0, <1>1, <2>1, <2>3, <2>4, <2>5
<1>10. McpTypes'
  <2>1. restarts' \in 0..MaxRestarts /\ tools' \in BOOLEAN /\ Len(dedup') <= MaxDedup
    <3>1. MaxRestarts \in Nat /\ MaxDedup \in Nat
      BY GatewayBounds
    <3>2. restarts < MaxRestarts /\ restarts' = restarts + 1 /\ restarts \in 0..MaxRestarts
      BY <1>0, <1>1
    <3>3. restarts' \in 0..MaxRestarts
      BY <3>1, <3>2
    <3>4. Len(dedup') <= MaxDedup
      BY <1>8, <3>1
    <3>5. tools' \in BOOLEAN
      BY <1>1
    <3> QED BY <3>3, <3>4, <3>5
  <2> QED BY <1>0, <1>1, <1>6, <1>7, <1>8, <1>9, <2>1 DEF McpTypes
<1>11. ASSUME NEW c \in ToolCalls PROVE CallOk(c, call[c])'
  <2>1. CallOk(c, call[c])
    BY McpParts
  <2>2. call'[c].run \in 0..Len(run') /\ ~HeldBy(call'[c]) /\ call'[c].step # "draining"
    BY <1>6, <1>7, <2>1 DEF CallOk, HeldBy
  <2>3. call'[c].answer = "result" =>
          call'[c].step = "done" /\ RunOf(call[c].run, c)' /\ run'[call[c].run].state = "ok"
    BY <1>6, <1>7, <2>1 DEF CallOk, RunOf
  <2> QED BY <1>7, <2>2, <2>3 DEF CallOk, RunOf
<1>12. (OneOwner /\ InflightOk /\ RunningIsInflight)'
  BY <1>6, <1>7, <1>8 DEF OneOwner, InflightOk, RunningIsInflight
<1>13. (ResultIsKept /\ OneGoodRun)'
  BY <1>6, <1>7, <1>9 DEF ResultIsKept, OneGoodRun
<1>14. (\A i \in 1..Len(dedup) : EntryOk(dedup[i]))'
  BY <1>8
<1> QED BY <1>0, <1>10, <1>11, <1>12, <1>13, <1>14 DEF McpInv

(* A step of the deadline or of the manifest touches no call and no table. *)
LEMMA ClockStep ==
  ASSUME McpInv, UNCHANGED <<call, run, inflight, dedup, restarts, forgotten>>,
         tools' \in BOOLEAN, expired' \subseteq Operations
  PROVE  McpInv'
<1>1. McpTypes'
  BY McpParts DEF McpTypes
<1>2. \A c \in ToolCalls : CallOk(c, call[c])'
  BY McpParts DEF CallOk, RunOf
<1>3. (OneOwner /\ InflightOk /\ RunningIsInflight /\ ResultIsKept /\ OneGoodRun)'
  BY McpParts DEF OneOwner, InflightOk, RunningIsInflight, ResultIsKept, OneGoodRun, Remembered
<1>4. (\A i \in 1..Len(dedup) : EntryOk(dedup[i]))'
  BY McpParts DEF EntryOk
<1> QED BY <1>1, <1>2, <1>3, <1>4 DEF McpInv

LEMMA McpStep == McpInv /\ [McpNext]_gatewayVars => McpInv'
<1> SUFFICES ASSUME McpInv, [McpNext]_gatewayVars PROVE McpInv'
  OBVIOUS
<1>1. tools \in BOOLEAN /\ expired \subseteq Operations
  BY McpParts DEF McpTypes
<1>2. CASE UNCHANGED gatewayVars
  BY <1>1, <1>2, ClockStep DEF gatewayVars
<1>3. ASSUME NEW c \in ToolCalls, Discover(c) \/ Enter(c) \/ Wake(c) \/ Cancel(c) \/ Drained(c)
      PROVE  McpInv'
  BY <1>3, DiscoverStep, EnterStep, WakeStep, CancelStep, DrainedStep
<1>4. ASSUME NEW k \in DOMAIN run, Stop(k) \/ \E state \in Endings : Finish(k, state) PROVE McpInv'
  BY <1>4, StopStep, FinishStep
<1>5. ASSUME NEW op \in Operations, Expire(op) PROVE McpInv'
  BY <1>1, <1>5, ClockStep DEF Expire
<1>6. CASE Ready
  BY <1>1, <1>6, ClockStep DEF Ready
<1>7. CASE Restart
  BY <1>7, RestartStep
<1> QED BY <1>2, <1>3, <1>4, <1>5, <1>6, <1>7 DEF McpNext

LEMMA McpAlways == McpSpec => []McpInv
BY McpInitial, McpStep, PTL DEF McpSpec

(* The gateway's tables name runs that exist, of their own operation, and    *)
(* the table of results keeps to its size.                                   *)
THEOREM McpTyping == McpSpec => []McpTypeOK
<1>1. McpInv => McpTypeOK
  <2> SUFFICES ASSUME McpInv PROVE McpTypeOK
    OBVIOUS
  <2>1. ASSUME NEW c \in ToolCalls
        PROVE  /\ call[c].step \in {"new", "discovered", "waiting", "draining", "done"}
               /\ call[c].run \in 0..Len(run) /\ call[c].owner \in BOOLEAN
               /\ call[c].step \in {"waiting", "draining"} => run[call[c].run].op = CallOf[c].op
    <3>1. call[c] \in McpCalls /\ CallOk(c, call[c])
      BY McpParts
    <3> QED BY <3>1 DEF McpCalls, CallOk, RunOf, HeldBy
  <2>2. inflight \in [Operations -> 0..Len(run)]
    <3>1. \A op \in Operations : inflight[op] \in 0..Len(run)
      BY McpParts DEF InflightOk
    <3> QED BY <3>1, McpParts
  <2>3. \A op \in Operations : inflight[op] # 0 => run[inflight[op]].op = op
    BY McpParts DEF InflightOk
  <2> QED BY <2>1, <2>2, <2>3, McpParts DEF McpTypes, McpTypeOK
<1> QED BY <1>1, McpAlways, PTL

(* MCPGateway.invoke deduplicates: whatever attempts, retries, cancellations *)
(* and restarts interleave, an operation has one live run, the one in        *)
(* flight, and until its result is evicted or lost every caller that gets a  *)
(* result gets that of one run, which went well and was of its own call.     *)
THEOREM OperationsRunOnce == McpSpec => []OperationRunsOnce
<1>1. McpInv => OperationRunsOnce
  <2> SUFFICES ASSUME McpInv PROVE OperationRunsOnce
    OBVIOUS
  <2>1. \A k \in DOMAIN run : run[k].state = "running" => inflight[run[k].op] = k
    BY McpParts DEF RunningIsInflight
  <2>2. \A c \in ToolCalls : call[c].answer = "result" =>
          RunOf(call[c].run, c) /\ run[call[c].run].state = "ok"
    BY McpParts DEF CallOk
  <2>3. ASSUME NEW c \in ToolCalls, NEW d \in ToolCalls, call[c].answer = "result",
               call[d].answer = "result", CallOf[d].op = CallOf[c].op, CallOf[c].op \notin forgotten
        PROVE  call[d].run = call[c].run
    <3> DEFINE k == call[c].run
               l == call[d].run
    <3>1. /\ k \in 1..Len(run) /\ l \in 1..Len(run) /\ run[k].op = CallOf[c].op
          /\ run[l].op = CallOf[c].op /\ run[k].state = "ok" /\ run[l].state = "ok"
      BY <2>2, <2>3 DEF RunOf
    <3>2. OneGoodRun
      BY McpParts
    <3> HIDE DEF k, l
    <3>3. k = l
      BY <2>3, <3>1, <3>2 DEF OneGoodRun
    <3> QED BY <3>3 DEF k, l
  <2> QED BY <2>1, <2>2, <2>3 DEF OperationRunsOnce, RunOf
<1> QED BY <1>1, McpAlways, PTL
-----------------------------------------------------------------------------
(* The trajectory.                                                           *)

(* The transaction of w has read the episode under the lock, or has written. *)
Busy(w) == trajectoryTx[w].op \notin {"idle", "create"}

(* One transaction at a time is past the lock; none but the one that creates *)
(* the episode is there before it exists; and what is written reads back.    *)
MarlInv ==
  /\ DOMAIN trajectoryTx = Writers
  /\ \A w \in Writers : /\ trajectoryTx[w].op \in {"idle", "written"} \cup TrajectoryOperations
                        /\ trajectoryTx[w] = Idle <=> trajectoryTx[w].op = "idle"
                        /\ Busy(w) /\ trajectoryTx[w].op # "written" => marl.status # "ABSENT"
                        /\ trajectoryTx[w].op = "written" =>
                             /\ Lifecycle(Episode(With(marl, trajectoryTx[w].row)))
                             /\ "record" \in DOMAIN trajectoryTx[w].row => marl.status # "ABSENT"
  /\ \A v, w \in Writers : Busy(v) /\ Busy(w) => v = w
  /\ EpisodeReadable

LEMMA MarlInitial == MarlInit => MarlInv
BY DEF MarlInit, MarlInv, Busy, Idle, EpisodeReadable

LEMMA RequestsAreOperations ==
  ASSUME NEW request \in TrajectoryRequests PROVE request.op \in TrajectoryOperations
BY DEF TrajectoryRequests, TrajectoryOperations

LEMMA BeginStep == ASSUME MarlInv, NEW w \in Writers, Begin(w) PROVE MarlInv'
<1>1. PICK request \in TrajectoryRequests :
        /\ (request.op = "create") = (marl.status = "ABSENT")
        /\ request.op = "create" \/ EpisodeUnlocked(w)
        /\ trajectoryTx' = [trajectoryTx EXCEPT ![w] =
              [op |-> request.op, request |-> request, read |-> Episode(marl)]]
  BY DEF Begin
<1> DEFINE tx == [op |-> request.op, request |-> request, read |-> Episode(marl)]
<1>2. tx.op = request.op /\ request.op \in TrajectoryOperations
  BY RequestsAreOperations
<1>3. tx.op \notin {"idle", "written"} /\ tx # Idle
  BY <1>2 DEF TrajectoryOperations, Idle
<1> HIDE DEF tx
<1>4. /\ DOMAIN trajectoryTx' = Writers /\ trajectoryTx'[w] = tx
      /\ \A v \in Writers \ {w} : trajectoryTx'[v] = trajectoryTx[v]
  BY <1>1 DEF MarlInv, tx
<1>5. UNCHANGED marl
  BY DEF Begin
<1>6. \A v, u \in Writers : Busy(v)' /\ Busy(u)' => v = u
  BY <1>1, <1>2, <1>4 DEF MarlInv, Busy, EpisodeUnlocked
<1>7. EpisodeReadable'
  BY <1>5 DEF MarlInv, EpisodeReadable
<1>8. ASSUME NEW v \in Writers
      PROVE  (/\ trajectoryTx[v].op \in {"idle", "written"} \cup TrajectoryOperations
              /\ trajectoryTx[v] = Idle <=> trajectoryTx[v].op = "idle"
              /\ Busy(v) /\ trajectoryTx[v].op # "written" => marl.status # "ABSENT"
              /\ trajectoryTx[v].op = "written" =>
                   /\ Lifecycle(Episode(With(marl, trajectoryTx[v].row)))
                   /\ "record" \in DOMAIN trajectoryTx[v].row => marl.status # "ABSENT")'
  <2>1. CASE v = w
    BY <1>1, <1>2, <1>3, <1>4, <1>5, <2>1 DEF Busy
  <2>2. CASE v # w
    BY <1>4, <1>5, <2>2 DEF MarlInv, Busy
  <2> QED BY <2>1, <2>2
<1> QED BY <1>4, <1>6, <1>7, <1>8 DEF MarlInv

LEMMA MarlParts ==
  ASSUME MarlInv, NEW w \in Writers
  PROVE  /\ trajectoryTx[w].op \in {"idle", "written"} \cup TrajectoryOperations
         /\ trajectoryTx[w] = Idle <=> trajectoryTx[w].op = "idle"
         /\ Busy(w) /\ trajectoryTx[w].op # "written" => marl.status # "ABSENT"
         /\ trajectoryTx[w].op = "written" =>
              /\ Lifecycle(Episode(With(marl, trajectoryTx[w].row)))
              /\ "record" \in DOMAIN trajectoryTx[w].row => marl.status # "ABSENT"
BY DEF MarlInv

(* A transaction that ends leaves the others where they are. *)
LEMMA TransactionEnds ==
  ASSUME MarlInv, NEW w \in Writers, trajectoryTx' = [trajectoryTx EXCEPT ![w] = Idle],
         EpisodeReadable', marl' = marl \/ Busy(w)
  PROVE  MarlInv'
<1>1. /\ DOMAIN trajectoryTx' = Writers /\ trajectoryTx'[w] = Idle
      /\ \A v \in Writers : v # w => trajectoryTx'[v] = trajectoryTx[v]
  BY DEF MarlInv
<1>2. Idle.op = "idle"
  BY DEF Idle
<1>3. \A v \in Writers : marl' # marl /\ v # w => ~Busy(v)
  BY DEF MarlInv
<1>4. ASSUME NEW v \in Writers
      PROVE  (/\ trajectoryTx[v].op \in {"idle", "written"} \cup TrajectoryOperations
              /\ trajectoryTx[v] = Idle <=> trajectoryTx[v].op = "idle"
              /\ Busy(v) /\ trajectoryTx[v].op # "written" => marl.status # "ABSENT"
              /\ trajectoryTx[v].op = "written" =>
                   /\ Lifecycle(Episode(With(marl, trajectoryTx[v].row)))
                   /\ "record" \in DOMAIN trajectoryTx[v].row => marl.status # "ABSENT")'
  <2>1. CASE v = w
    BY <1>1, <1>2, <2>1 DEF Busy
  <2>2. CASE v # w /\ marl' = marl
    BY <1>1, <2>2, MarlParts DEF Busy
  <2>3. CASE v # w /\ marl' # marl
    BY <1>1, <1>3, <2>3, MarlParts DEF Busy
  <2> QED BY <2>1, <2>2, <2>3
<1>5. \A u, v \in Writers : Busy(u)' /\ Busy(v)' => u = v
  BY <1>1, <1>2 DEF MarlInv, Busy
<1> QED BY <1>1, <1>4, <1>5 DEF MarlInv

LEMMA WriteStep == ASSUME MarlInv, NEW w \in Writers, Write(w) PROVE MarlInv'
<1> DEFINE tx == trajectoryTx[w]
           rows == {r \in Written(tx) : Lifecycle(Episode(With(marl, r)))}
           row == CHOOSE r \in rows : TRUE
           wrote == [op |-> "written", row |-> row]
<1>1. /\ tx.op \notin {"idle", "written"} /\ UNCHANGED marl /\ \A r \in rows : RowFree(w, r)
      /\ trajectoryTx' = [trajectoryTx EXCEPT ![w] = IF rows = {} THEN Idle ELSE wrote]
  BY DEF Write
<1>2. EpisodeReadable'
  BY <1>1 DEF MarlInv, EpisodeReadable
<1>3. CASE rows = {}
  <2>1. trajectoryTx' = [trajectoryTx EXCEPT ![w] = Idle]
    BY <1>1, <1>3
  <2> QED BY <1>1, <1>2, <2>1, TransactionEnds
<1>4. CASE rows # {}
  <2>1. row \in rows
    BY <1>4
  <2>2. Lifecycle(Episode(With(marl, row))) /\ row \in Written(tx) /\ RowFree(w, row)
    BY <1>1, <2>1
  <2>3. tx.op = "create" => row = [status |-> "OPEN"] /\ marl.status = "ABSENT"
    <3> HIDE DEF row, rows
    <3> QED BY <2>2 DEF Written
  <2>4. trajectoryTx' = [trajectoryTx EXCEPT ![w] = wrote] /\ wrote.op = "written" /\ wrote.row = row
        /\ wrote # Idle
    BY <1>1, <1>4 DEF Idle
  <2> HIDE DEF wrote, row, rows
  <2>5. /\ DOMAIN trajectoryTx' = Writers /\ trajectoryTx'[w] = wrote
        /\ \A v \in Writers : v # w => trajectoryTx'[v] = trajectoryTx[v]
    BY <2>4 DEF MarlInv
  <2>6. tx.op = "create" => "record" \notin DOMAIN row /\ KeyOfRow(row) = <<"episode", 0>>
    BY <2>3 DEF KeyOfRow
  <2>7. "record" \in DOMAIN row => marl.status # "ABSENT"
    BY <1>1, <2>6, MarlParts DEF Busy
  <2>8. ASSUME NEW v \in Writers, v # w, Busy(v) PROVE FALSE
    <3>1. CASE tx.op # "create"
      BY <1>1, <2>8, <3>1 DEF MarlInv, Busy
    <3>2. CASE tx.op = "create"
      <4>1. trajectoryTx[v].op = "written" /\ "record" \notin DOMAIN trajectoryTx[v].row
        BY <2>3, <2>8, <3>2, MarlParts
      <4>2. KeyOfRow(trajectoryTx[v].row) = <<"episode", 0>>
        BY <4>1 DEF KeyOfRow
      <4> QED BY <2>2, <2>6, <2>8, <3>2, <4>1, <4>2 DEF RowFree
    <3> QED BY <3>1, <3>2
  <2>9. \A u, v \in Writers : Busy(u)' /\ Busy(v)' => u = v
    BY <2>5, <2>8 DEF Busy
  <2>10. ASSUME NEW v \in Writers
         PROVE  (/\ trajectoryTx[v].op \in {"idle", "written"} \cup TrajectoryOperations
                 /\ trajectoryTx[v] = Idle <=> trajectoryTx[v].op = "idle"
                 /\ Busy(v) /\ trajectoryTx[v].op # "written" => marl.status # "ABSENT"
                 /\ trajectoryTx[v].op = "written" =>
                      /\ Lifecycle(Episode(With(marl, trajectoryTx[v].row)))
                      /\ "record" \in DOMAIN trajectoryTx[v].row => marl.status # "ABSENT")'
    <3>1. CASE v = w
      BY <1>1, <2>2, <2>4, <2>5, <2>7, <3>1
    <3>2. CASE v # w
      BY <1>1, <2>5, <3>2, MarlParts DEF Busy
    <3> QED BY <3>1, <3>2
  <2> QED BY <1>2, <2>5, <2>9, <2>10 DEF MarlInv
<1> QED BY <1>3, <1>4

LEMMA MarlStep == MarlInv /\ [MarlNext]_marlVars => MarlInv'
<1> SUFFICES ASSUME MarlInv, [MarlNext]_marlVars PROVE MarlInv'
  OBVIOUS
<1>1. CASE UNCHANGED marlVars
  <2>1. UNCHANGED <<marl, trajectoryTx>>
    BY <1>1 DEF marlVars
  <2> QED BY <2>1 DEF MarlInv, Busy, EpisodeReadable
<1>2. ASSUME NEW w \in Writers, CommitTrajectory(w) PROVE MarlInv'
  <2>1. Lifecycle(Episode(marl')) /\ Busy(w)
    BY <1>2, MarlParts DEF CommitTrajectory, Busy
  <2>2. EpisodeReadable'
    BY <2>1 DEF EpisodeReadable
  <2> QED BY <1>2, <2>1, <2>2, TransactionEnds DEF CommitTrajectory
<1>3. ASSUME NEW w \in Writers, AbortTrajectory(w) PROVE MarlInv'
  <2>1. EpisodeReadable'
    BY <1>3 DEF AbortTrajectory, MarlInv, EpisodeReadable
  <2> QED BY <1>3, <2>1, TransactionEnds DEF AbortTrajectory
<1> QED BY <1>1, <1>2, <1>3, BeginStep, WriteStep DEF MarlNext

(* However the coordinator's transactions overlap, abort or die, the rows    *)
(* they leave make an episode that MarlEpisodeV1 accepts: the operations     *)
(* read it under the advisory lock, read back what they wrote, and two       *)
(* creations meet at the episode's key.                                      *)
THEOREM EpisodesStayReadable == MarlSpec => []EpisodeReadable
<1>1. MarlInv => EpisodeReadable
  BY DEF MarlInv
<1> QED BY <1>1, MarlInitial, MarlStep, PTL DEF MarlSpec
-----------------------------------------------------------------------------
(* The bundle of an episode and its verdict. A bundle is authentic when every *)
(* stage of integrity accepts it; the one exported from an episode that is    *)
(* whole is, and rebuilds it; the hash binds every other one to the episode.  *)

(* What a set of places picks out of a sequence.                             *)
LEMMA AtNoPlace == ASSUME NEW s PROVE ElementsAt(s, {}) = <<>>
<1>1. Cardinality({}) = 0
  BY FS_EmptySet
<1> QED BY <1>1 DEF ElementsAt

LEMMA AtOnePlace == ASSUME NEW s, NEW p \in Nat PROVE ElementsAt(s, {p}) = <<s[p]>>
<1>1. Cardinality({p}) = 1 /\ Cardinality({}) = 0
  BY FS_Singleton, FS_EmptySet
<1>2. \A k \in {p} : {j \in {p} : j < k} = {}
  OBVIOUS
<1>3. (CHOOSE k \in {p} : Cardinality({j \in {p} : j < k}) = 1 - 1) = p
  BY <1>1, <1>2
<1>4. ElementsAt(s, {p}) = [n \in 1..1 |-> s[CHOOSE k \in {p} : Cardinality({j \in {p} : j < k}) = n - 1]]
  BY <1>1 DEF ElementsAt
<1> DEFINE one(n) == s[CHOOSE k \in {p} : Cardinality({j \in {p} : j < k}) = n - 1]
<1>5. ElementsAt(s, {p}) = [n \in 1..1 |-> one(n)] /\ one(1) = s[p]
  BY <1>3, <1>4
<1> HIDE DEF one
<1> QED BY <1>5

LEMMA AtFirstPlaces ==
  ASSUME NEW s, NEW m \in Nat
  PROVE  ElementsAt(s, 1..m) = [n \in 1..m |-> s[n]]
<1>1. Cardinality(1..m) = m
  BY FS_Interval
<1>2. ASSUME NEW k \in 1..m PROVE Cardinality({j \in 1..m : j < k}) = k - 1
  <2>1. {j \in 1..m : j < k} = 1..(k - 1)
    OBVIOUS
  <2>2. 1 \in Int /\ k - 1 \in Int /\ k \in Nat /\ k >= 1
    OBVIOUS
  <2>3. Cardinality(1..(k - 1)) = IF 1 > k - 1 THEN 0 ELSE (k - 1) - 1 + 1
    BY <2>2, FS_Interval
  <2>4. PICK size : size = Cardinality(1..(k - 1))
    OBVIOUS
  <2>5. size = k - 1
    BY ONLY <2>2, <2>3, <2>4
  <2> QED BY <2>1, <2>4, <2>5
<1> DEFINE nth(n) == CHOOSE k \in 1..m : Cardinality({j \in 1..m : j < k}) = n - 1
<1>3. ASSUME NEW n \in 1..m PROVE nth(n) = n
  <2>1. \A k \in 1..m : Cardinality({j \in 1..m : j < k}) = n - 1 <=> k = n
    BY <1>2
  <2> QED BY <2>1
<1>4. ElementsAt(s, 1..m) = [n \in 1..m |-> s[nth(n)]]
  BY <1>1 DEF ElementsAt
<1> HIDE DEF nth
<1> QED BY <1>3, <1>4

(* The lines of an episode: its transitions, then the boundary left open if  *)
(* there is one, then the marker if there is one.                            *)
Layout(b, m, n) ==
  /\ m \in Nat /\ n \in {m, m + 1, m + 2}
  /\ DOMAIN b.lines = 1..n /\ Len(b.lines) = n
  /\ \A k \in 1..m : b.lines[k].record.kind = "TRANSITION"
  /\ n > m => b.lines[n].record.kind = "incomplete"
  /\ n = m + 2 => b.lines[m + 1].record.kind = "DECISION_BOUNDARY"

LEMMA KindsOfLayout ==
  ASSUME NEW b, NEW m, NEW n, Layout(b, m, n)
  PROVE  /\ OfKind(b, "TRANSITION") = [k \in 1..m |-> b.lines[k]]
         /\ OfKind(b, "DECISION_BOUNDARY") = IF n = m + 2 THEN <<b.lines[m + 1]>> ELSE <<>>
         /\ OfKind(b, "incomplete") = IF n > m THEN <<b.lines[n]>> ELSE <<>>
<1> DEFINE places(kind) == {k \in DOMAIN b.lines : b.lines[k].record.kind = kind}
<1>0. /\ m \in Nat /\ n \in Nat /\ n \in {m, m + 1, m + 2} /\ DOMAIN b.lines = 1..n
  BY DEF Layout
<1>1. \A k \in 1..n : k \in 1..m \/ (k = n /\ n > m) \/ (k = m + 1 /\ n = m + 2)
  BY <1>0
<1>2. \A k \in 1..m : k \in 1..n /\ b.lines[k].record.kind = "TRANSITION"
  BY <1>0 DEF Layout
<1>3. n > m => n \in 1..n /\ b.lines[n].record.kind = "incomplete"
  BY <1>0 DEF Layout
<1>4. n = m + 2 => m + 1 \in 1..n /\ b.lines[m + 1].record.kind = "DECISION_BOUNDARY"
  BY <1>0 DEF Layout
<1>5. places("TRANSITION") = 1..m
  BY <1>0, <1>1, <1>2, <1>3, <1>4
<1>6. places("DECISION_BOUNDARY") = IF n = m + 2 THEN {m + 1} ELSE {}
  BY <1>0, <1>1, <1>2, <1>3, <1>4
<1>7. places("incomplete") = IF n > m THEN {n} ELSE {}
  BY <1>0, <1>1, <1>2, <1>3, <1>4
<1>8. \A kind : OfKind(b, kind) = ElementsAt(b.lines, places(kind))
  BY DEF OfKind
<1> HIDE DEF places
<1>9. OfKind(b, "TRANSITION") = [k \in 1..m |-> b.lines[k]]
  BY <1>0, <1>5, <1>8, AtFirstPlaces
<1>10. OfKind(b, "DECISION_BOUNDARY") = IF n = m + 2 THEN <<b.lines[m + 1]>> ELSE <<>>
  <2>1. m + 1 \in Nat
    BY <1>0
  <2>2. ElementsAt(b.lines, {m + 1}) = <<b.lines[m + 1]>> /\ ElementsAt(b.lines, {}) = <<>>
    BY <2>1, AtOnePlace, AtNoPlace
  <2> QED BY <1>6, <1>8, <2>2
<1>11. OfKind(b, "incomplete") = IF n > m THEN <<b.lines[n]>> ELSE <<>>
  <2>1. ElementsAt(b.lines, {n}) = <<b.lines[n]>> /\ ElementsAt(b.lines, {}) = <<>>
    BY <1>0, AtOnePlace, AtNoPlace
  <2> QED BY <1>7, <1>8, <2>1
<1> QED BY <1>9, <1>10, <1>11

(* A kind with no line, and one with the line at p.                          *)
LEMMA NoneOfKind ==
  ASSUME NEW b, NEW kind, \A k \in DOMAIN b.lines : b.lines[k].record.kind # kind
  PROVE  OfKind(b, kind) = <<>>
<1>1. {k \in DOMAIN b.lines : b.lines[k].record.kind = kind} = {}
  OBVIOUS
<1> QED BY <1>1, AtNoPlace DEF OfKind

LEMMA OneOfKind ==
  ASSUME NEW b, NEW kind, NEW p \in Nat, p \in DOMAIN b.lines, b.lines[p].record.kind = kind,
         \A k \in DOMAIN b.lines : b.lines[k].record.kind = kind => k = p
  PROVE  OfKind(b, kind) = <<b.lines[p]>>
<1>1. {k \in DOMAIN b.lines : b.lines[k].record.kind = kind} = {p}
  OBVIOUS
<1> QED BY <1>1, AtOnePlace DEF OfKind

(* The stages of verify_bundle that make a bundle authentic.                 *)
Authentic(b) ==
  /\ b.entries = {"manifest.json", "trajectory.jsonl"}
  /\ ~Has(b, "oversized") /\ FirstUnparsed(FilesOf(b)) = <<>> /\ ~Has(b, "version 2")
  /\ \A n \in DOMAIN b.lines : RecordShape(b.lines[n].record)
  /\ ~Has(b, "spaced") /\ b.manifest.digest = b.lines /\ b.manifest.count = Len(b.lines)
  /\ PositionsFollow(b) /\ HashesHold(b) /\ EnvironmentAgrees(b) /\ Rebuildable(b)
  /\ HashOfRebuilt(b) = b.manifest.hash

(* What follows the stages of integrity.                                     *)
VerdictOf(b) ==
  IF ReplayFailure(Rebuilt(b).transitions) # "none" THEN ReplayFailure(Rebuilt(b).transitions)
  ELSE IF b.manifest.status = "INCOMPLETE" THEN "EPISODE_INCOMPLETE" ELSE "VERIFIED"

LEMMA StagesInOrder ==
  ASSUME NEW b
  PROVE  /\ Authentic(b) => VerifyBundle(b) = VerdictOf(b)
         /\ ~Authentic(b) => ~IntegrityValid(VerifyBundle(b))
<1>1. Authentic(b) => VerifyBundle(b) = VerdictOf(b)
  BY DEF Authentic, VerdictOf, VerifyBundle
<1>2. ASSUME NEW bytes PROVE ~IntegrityValid(ParseFailure(bytes))
  BY DEF IntegrityValid, ParseFailure
<1>3. ASSUME ~Authentic(b) PROVE ~IntegrityValid(VerifyBundle(b))
  <2>1. VerifyBundle(b) \in {"BUNDLE_ENTRY_SET", "RESOURCE_LIMIT_EXCEEDED", "UNSUPPORTED_SCHEMA_VERSION",
                             "SCHEMA_VIOLATION", "NONCANONICAL_ENCODING", "MANIFEST_MISMATCH",
                             "ORDER_VIOLATION", "HASH_MISMATCH", "REFERENCE_MISMATCH",
                             ParseFailure(FirstUnparsed(FilesOf(b))[1].bytes)}
    BY <1>3 DEF Authentic, VerifyBundle
  <2> QED BY <1>2, <2>1 DEF IntegrityValid
<1> QED BY <1>1, <1>3

LEMMA VerdictsOfReplay ==
  ASSUME NEW b
  PROVE  /\ IntegrityValid(VerdictOf(b))
         /\ VerdictOf(b) = "VERIFIED" <=>
              ReplayFailure(Rebuilt(b).transitions) = "none" /\ b.manifest.status # "INCOMPLETE"
<1>1. ReplayFailure(Rebuilt(b).transitions) \in {"none", "REPLAY_MISMATCH", "UNKNOWN_IMPLEMENTATION"}
  <2>1. \A step : StepFailure(step) \in {"none", "REPLAY_MISMATCH", "UNKNOWN_IMPLEMENTATION"}
    BY DEF StepFailure
  <2>2. \/ ReplayFailure(Rebuilt(b).transitions) = "none"
        \/ \E step : ReplayFailure(Rebuilt(b).transitions) = StepFailure(step)
    BY DEF ReplayFailure
  <2> QED BY <2>1, <2>2
<1> QED BY <1>1 DEF VerdictOf, IntegrityValid

(* An episode as its rows make it: what the closed schemas accept, with the  *)
(* boundary left open at the next decision.                                  *)
HasPosition(o) == "seq" \in DOMAIN o /\ o.seq \in Nat

StoredBoundary(r) ==
  /\ r.kind = "DECISION_BOUNDARY" /\ DecisionShape(r.decision) /\ r.index \in Nat
  /\ "decision" \in DOMAIN r /\ "observation" \in DOMAIN r.decision
  /\ HasPosition(r.decision.observation)

StoredTransition(r) ==
  /\ r.kind = "TRANSITION" /\ TransitionShape(r) /\ r.index \in Nat
  /\ "post" \in DOMAIN r /\ HasPosition(r.post)

StoredMarker(r) == r.kind = "incomplete" /\ {"kind", "reason"} \subseteq DOMAIN r

Whole(e, closed) ==
  /\ e = [status |-> e.status, marker |-> e.marker, pending |-> e.pending, transitions |-> e.transitions]
  /\ e.status \in {"COMPLETE", "INCOMPLETE"} /\ Lifecycle(e)
  /\ e.transitions \in Seq(closed) /\ \A t \in closed : StoredTransition(t)
  /\ e.pending # NoRecord => StoredBoundary(e.pending) /\ e.pending.index = Len(e.transitions)
  /\ e.marker # NoRecord => StoredMarker(e.marker)

Trail(e) == IF e.status = "COMPLETE" THEN 0 ELSE IF e.pending = NoRecord THEN 1 ELSE 2

LEMMA EndsByStatus ==
  ASSUME NEW e, NEW closed, Whole(e, closed)
  PROVE  /\ e.status = "COMPLETE" => e.marker = NoRecord /\ e.pending = NoRecord
         /\ e.status = "INCOMPLETE" => e.marker # NoRecord /\ e.marker.boundary = e.pending
<1>1. StatusAgrees(e) /\ e.status \in {"COMPLETE", "INCOMPLETE"}
  BY DEF Whole, Lifecycle
<1> QED BY <1>1 DEF StatusAgrees

LEMMA RecordsInOrder ==
  ASSUME NEW e, NEW closed, Whole(e, closed)
  PROVE  LET m == Len(e.transitions)
             n == m + Trail(e)
         IN /\ m \in Nat /\ n \in Nat /\ DOMAIN e.transitions = 1..m
            /\ DOMAIN RecordsOf(e) = 1..n /\ Len(RecordsOf(e)) = n
            /\ \A k \in 1..m : /\ RecordsOf(e)[k] = e.transitions[k]
                               /\ e.transitions[k] \in closed
            /\ Trail(e) = 2 => RecordsOf(e)[m + 1] = e.pending
            /\ Trail(e) > 0 => RecordsOf(e)[n] = e.marker
<1> DEFINE ts == e.transitions
           all == closed \cup {e.pending, e.marker}
<1>1. ts \in Seq(all) /\ ts \in Seq(closed) /\ <<e.pending>> \in Seq(all) /\ <<e.marker>> \in Seq(all) /\ <<>> \in Seq(all)
  BY DEF Whole
<1>2. Len(ts) \in Nat /\ DOMAIN ts = 1..Len(ts) /\ \A k \in 1..Len(ts) : ts[k] \in closed
  BY <1>1
<1>3. e.status \in {"COMPLETE", "INCOMPLETE"}
  BY DEF Whole
<1>4. RecordsOf(e) = (ts \o (IF e.pending = NoRecord THEN <<>> ELSE <<e.pending>>))
                     \o (IF e.marker = NoRecord THEN <<>> ELSE <<e.marker>>)
  BY DEF RecordsOf
<1>5. PICK s : s = ts
  OBVIOUS
<1>6. PICK p, q : p = e.pending /\ q = e.marker
  OBVIOUS
<1>7. PICK A : A = all
  OBVIOUS
<1> HIDE DEF ts, all
<1>8. s \in Seq(A) /\ <<p>> \in Seq(A) /\ <<q>> \in Seq(A) /\ Len(s) \in Nat /\ DOMAIN s = 1..Len(s)
  BY <1>1, <1>2, <1>5, <1>6, <1>7
<1>9. CASE Trail(e) = 0
  <2>1. e.pending = NoRecord /\ e.marker = NoRecord
    BY <1>3, <1>9, EndsByStatus DEF Trail
  <2>2. RecordsOf(e) = s
    BY <1>4, <1>5, <1>8, <2>1
  <2> QED BY <1>2, <1>5, <1>9, <2>2 DEF ts
<1>10. CASE Trail(e) = 1
  <2>1. e.pending = NoRecord /\ e.marker # NoRecord
    BY <1>3, <1>10, EndsByStatus DEF Trail
  <2>2. RecordsOf(e) = s \o <<q>>
    BY <1>4, <1>5, <1>6, <1>8, <2>1
  <2>3. DOMAIN (s \o <<q>>) = 1..(Len(s) + 1) /\ Len(s \o <<q>>) = Len(s) + 1 /\ (s \o <<q>>)[Len(s) + 1] = q
        /\ \A k \in 1..Len(s) : (s \o <<q>>)[k] = s[k]
    BY ONLY <1>8
  <2> QED BY <1>2, <1>5, <1>6, <1>10, <2>2, <2>3 DEF ts
<1>11. CASE Trail(e) = 2
  <2>1. e.pending # NoRecord /\ e.marker # NoRecord
    BY <1>3, <1>11, EndsByStatus DEF Trail
  <2>2. RecordsOf(e) = (s \o <<p>>) \o <<q>>
    BY <1>4, <1>5, <1>6, <2>1
  <2>3. DOMAIN ((s \o <<p>>) \o <<q>>) = 1..(Len(s) + 2) /\ Len((s \o <<p>>) \o <<q>>) = Len(s) + 2
        /\ ((s \o <<p>>) \o <<q>>)[Len(s) + 2] = q /\ ((s \o <<p>>) \o <<q>>)[Len(s) + 1] = p
        /\ \A k \in 1..Len(s) : ((s \o <<p>>) \o <<q>>)[k] = s[k]
    BY ONLY <1>8
  <2> QED BY <1>2, <1>5, <1>6, <1>11, <2>2, <2>3 DEF ts
<1>12. Trail(e) \in {0, 1, 2}
  BY DEF Trail
<1> QED BY <1>9, <1>10, <1>11, <1>12

(* The bundle exported from it: each record sealed as it is.                 *)
Exported(b, e, closed) ==
  LET m == Len(e.transitions)
      n == m + Trail(e)
  IN /\ Layout(b, m, n) /\ Len(e.transitions) \in Nat
     /\ \A k \in 1..m : b.lines[k] = Line(e.transitions[k]) /\ e.transitions[k] \in closed
     /\ Trail(e) = 2 => b.lines[m + 1] = Line(e.pending)
     /\ Trail(e) > 0 => b.lines[n] = Line(e.marker)

LEMMA ExportsInOrder ==
  ASSUME NEW e, NEW closed, Whole(e, closed)
  PROVE  Exported(ExportEpisode(e), e, closed)
<1> DEFINE m == Len(e.transitions)
           n == m + Trail(e)
           b == ExportEpisode(e)
<1>1. /\ m \in Nat /\ n \in Nat /\ DOMAIN e.transitions = 1..m
      /\ DOMAIN RecordsOf(e) = 1..n /\ Len(RecordsOf(e)) = n
      /\ \A k \in 1..m : RecordsOf(e)[k] = e.transitions[k] /\ e.transitions[k] \in closed
      /\ Trail(e) = 2 => RecordsOf(e)[m + 1] = e.pending
      /\ Trail(e) > 0 => RecordsOf(e)[n] = e.marker
  BY RecordsInOrder
<1>2. b.lines = [k \in 1..n |-> Line(RecordsOf(e)[k])]
  BY <1>1 DEF ExportEpisode
<1>3. Trail(e) \in {0, 1, 2}
  BY DEF Trail
<1>4. n \in {m, m + 1, m + 2} /\ (n = m + 2 <=> Trail(e) = 2) /\ (n > m <=> Trail(e) > 0)
  BY <1>1, <1>3
<1>5. DOMAIN b.lines = 1..n /\ Len(b.lines) = n
  BY <1>1, <1>2
<1>6. \A r : Line(r).record = r
  BY DEF Line
<1> HIDE DEF b, n, m
<1>7. \A k \in 1..m : k \in 1..n /\ b.lines[k] = Line(e.transitions[k]) /\ e.transitions[k].kind = "TRANSITION"
  <2>1. \A k \in 1..m : StoredTransition(e.transitions[k])
    BY <1>1 DEF Whole
  <2> QED BY <1>1, <1>2, <1>4, <2>1 DEF StoredTransition
<1>8. Trail(e) = 2 => b.lines[m + 1] = Line(e.pending)
  BY <1>1, <1>2, <1>4
<1>9. Trail(e) > 0 => b.lines[n] = Line(e.marker)
  BY <1>1, <1>2, <1>4
<1>10. /\ Trail(e) = 2 => e.pending.kind = "DECISION_BOUNDARY"
       /\ Trail(e) > 0 => e.marker.kind = "incomplete"
  BY EndsByStatus DEF Trail, Whole, StoredBoundary, StoredMarker
<1>11. Layout(b, m, n)
  BY <1>1, <1>4, <1>5, <1>6, <1>7, <1>8, <1>9, <1>10 DEF Layout
<1> QED BY <1>1, <1>7, <1>8, <1>9, <1>11 DEF Exported, m, n, b

(* The manifest of an export.                                                *)
LEMMA ManifestOfExport ==
  ASSUME NEW e
  PROVE  LET b == ExportEpisode(e)
         IN /\ b = [entries |-> b.entries, lines |-> b.lines, manifest |-> b.manifest]
            /\ b.entries = {"manifest.json", "trajectory.jsonl"}
            /\ b.manifest = [bytes |-> "canonical", status |-> e.status, environment |-> EpisodeEnvironment,
                             digest |-> b.lines, count |-> Len(b.lines),
                             implementations |-> ImplementationsOf(e.transitions),
                             hash |-> EpisodeHash(e.status, EpisodeEnvironment, EpisodeScope,
                                                  e.transitions, e.pending, e.marker)]
BY DEF ExportEpisode

(* What the verifier reads in a bundle laid out so.                          *)
LEMMA KindsOfExport ==
  ASSUME NEW e, NEW closed, Whole(e, closed), NEW b, Exported(b, e, closed)
  PROVE  LET m == Len(e.transitions)
             n == m + Trail(e)
         IN /\ OfKind(b, "TRANSITION") = [k \in 1..m |-> Line(e.transitions[k])]
            /\ OfKind(b, "DECISION_BOUNDARY") = IF e.pending = NoRecord THEN <<>> ELSE <<Line(e.pending)>>
            /\ OfKind(b, "incomplete") = IF e.marker = NoRecord THEN <<>> ELSE <<Line(e.marker)>>
            /\ DOMAIN b.lines = 1..n /\ Len(b.lines) = n /\ m \in Nat /\ n \in Nat
            /\ e.pending # NoRecord <=> n = m + 2
            /\ e.marker # NoRecord <=> n > m
            /\ DOMAIN e.transitions = 1..m
<1> DEFINE m == Len(e.transitions)
           n == m + Trail(e)
<1>1. /\ Layout(b, m, n) /\ m \in Nat /\ \A k \in 1..m : b.lines[k] = Line(e.transitions[k])
      /\ Trail(e) = 2 => b.lines[m + 1] = Line(e.pending)
      /\ Trail(e) > 0 => b.lines[n] = Line(e.marker)
  BY DEF Exported
<1>2. /\ OfKind(b, "TRANSITION") = [k \in 1..m |-> b.lines[k]]
      /\ OfKind(b, "DECISION_BOUNDARY") = IF n = m + 2 THEN <<b.lines[m + 1]>> ELSE <<>>
      /\ OfKind(b, "incomplete") = IF n > m THEN <<b.lines[n]>> ELSE <<>>
  BY <1>1, KindsOfLayout
<1>3. /\ Trail(e) \in {0, 1, 2}
      /\ Trail(e) = 2 <=> e.pending # NoRecord
      /\ Trail(e) > 0 <=> e.marker # NoRecord
  <2>1. e.status \in {"COMPLETE", "INCOMPLETE"}
    BY DEF Whole
  <2> QED BY <2>1, EndsByStatus DEF Trail
<1>4. n \in Nat /\ (n = m + 2 <=> Trail(e) = 2) /\ (n > m <=> Trail(e) > 0)
  BY <1>1, <1>3
<1>5. DOMAIN b.lines = 1..n /\ Len(b.lines) = n
  BY <1>1 DEF Layout
<1>6. DOMAIN e.transitions = 1..m
  BY RecordsInOrder
<1> HIDE DEF m, n
<1> QED BY <1>1, <1>2, <1>3, <1>4, <1>5, <1>6 DEF m, n

LEMMA TransitionsAreList ==
  ASSUME NEW e, NEW closed, Whole(e, closed)
  PROVE  e.transitions = [k \in 1..Len(e.transitions) |-> e.transitions[k]]
<1>1. e.transitions \in Seq(closed)
  BY DEF Whole
<1> QED BY <1>1

LEMMA ExportRebuilds ==
  ASSUME NEW e, NEW closed, Whole(e, closed), NEW b, Exported(b, e, closed), b.manifest.status = e.status
  PROVE  Rebuilt(b) = e
<1> DEFINE m == Len(e.transitions)
           only(s) == IF s = <<>> THEN NoRecord ELSE s[1].record
<1>1. /\ OfKind(b, "TRANSITION") = [k \in 1..m |-> Line(e.transitions[k])]
      /\ OfKind(b, "DECISION_BOUNDARY") = IF e.pending = NoRecord THEN <<>> ELSE <<Line(e.pending)>>
      /\ OfKind(b, "incomplete") = IF e.marker = NoRecord THEN <<>> ELSE <<Line(e.marker)>>
  BY KindsOfExport
<1>2. \A r : Line(r).record = r
  BY DEF Line
<1>3. [k \in DOMAIN OfKind(b, "TRANSITION") |-> OfKind(b, "TRANSITION")[k].record]
        = [k \in 1..m |-> e.transitions[k]]
  BY <1>1, <1>2
<1>4. [k \in 1..m |-> e.transitions[k]] = e.transitions
  BY TransitionsAreList
<1>5. only(OfKind(b, "DECISION_BOUNDARY")) = e.pending
  BY <1>1, <1>2
<1>6. only(OfKind(b, "incomplete")) = e.marker
  BY <1>1, <1>2
<1>7. Rebuilt(b) = [status |-> b.manifest.status,
                    transitions |-> [k \in DOMAIN OfKind(b, "TRANSITION") |-> OfKind(b, "TRANSITION")[k].record],
                    pending |-> only(OfKind(b, "DECISION_BOUNDARY")), marker |-> only(OfKind(b, "incomplete"))]
  BY DEF Rebuilt
<1>8. Rebuilt(b) = [status |-> e.status, transitions |-> e.transitions, pending |-> e.pending, marker |-> e.marker]
  BY <1>3, <1>4, <1>5, <1>6, <1>7
<1>9. e = [status |-> e.status, marker |-> e.marker, pending |-> e.pending, transitions |-> e.transitions]
  BY DEF Whole
<1> QED BY <1>8, <1>9

LEMMA ExportHash ==
  ASSUME NEW e, NEW closed, Whole(e, closed), NEW b, Exported(b, e, closed), b.manifest.status = e.status,
         e.transitions # <<>>
  PROVE  HashOfRebuilt(b) = EpisodeHash(e.status, b.manifest.environment, EpisodeScope,
                                        e.transitions, e.pending, e.marker)
<1> DEFINE m == Len(e.transitions)
           sealed(kind) == [n \in DOMAIN OfKind(b, kind) |-> OfKind(b, kind)[n].sealed]
           one(kind) == IF sealed(kind) = <<>> THEN NoRecord ELSE sealed(kind)[1]
<1>1. /\ OfKind(b, "TRANSITION") = [k \in 1..m |-> Line(e.transitions[k])]
      /\ OfKind(b, "DECISION_BOUNDARY") = IF e.pending = NoRecord THEN <<>> ELSE <<Line(e.pending)>>
      /\ OfKind(b, "incomplete") = IF e.marker = NoRecord THEN <<>> ELSE <<Line(e.marker)>>
      /\ m \in Nat /\ DOMAIN e.transitions = 1..m
  BY KindsOfExport
<1>2. \A r : Line(r).sealed = r
  BY DEF Line
<1>3. sealed("TRANSITION") = e.transitions
  <2>1. sealed("TRANSITION") = [k \in 1..m |-> e.transitions[k]]
    BY <1>1, <1>2
  <2> QED BY <2>1, TransitionsAreList
<1>4. one("DECISION_BOUNDARY") = e.pending
  <2>1. CASE e.pending = NoRecord
    <3>1. OfKind(b, "DECISION_BOUNDARY") = <<>>
      BY <1>1, <2>1
    <3>2. sealed("DECISION_BOUNDARY") = <<>>
      BY <3>1
    <3> HIDE DEF sealed
    <3> QED BY <2>1, <3>2
  <2>2. CASE e.pending # NoRecord
    <3>1. sealed("DECISION_BOUNDARY") = <<e.pending>>
      BY <1>1, <1>2, <2>2
    <3>2. \A x : <<x>> # <<>> /\ <<x>>[1] = x
      OBVIOUS
    <3> HIDE DEF sealed
    <3> QED BY <3>1, <3>2
  <2> QED BY <2>1, <2>2
<1>5. one("incomplete") = e.marker
  <2>1. CASE e.marker = NoRecord
    <3>1. OfKind(b, "incomplete") = <<>>
      BY <1>1, <2>1
    <3>2. sealed("incomplete") = <<>>
      BY <3>1
    <3> HIDE DEF sealed
    <3> QED BY <2>1, <3>2
  <2>2. CASE e.marker # NoRecord
    <3>1. sealed("incomplete") = <<e.marker>>
      BY <1>1, <1>2, <2>2
    <3>2. \A x : <<x>> # <<>> /\ <<x>>[1] = x
      OBVIOUS
    <3> HIDE DEF sealed
    <3> QED BY <3>1, <3>2
  <2> QED BY <2>1, <2>2
<1>6. Rebuilt(b) = e
  BY ExportRebuilds
<1>7. e.transitions[1].boundary.decision.observation.scope = EpisodeScope
  <2>1. 1 \in DOMAIN e.transitions
    BY <1>1 DEF Whole
  <2> QED BY <2>1 DEF Whole, Lifecycle, ScopeAgrees
<1>8. HashOfRebuilt(b) = EpisodeHash(Rebuilt(b).status, b.manifest.environment,
                            Rebuilt(b).transitions[1].boundary.decision.observation.scope,
                            sealed("TRANSITION"), one("DECISION_BOUNDARY"), one("incomplete"))
  BY DEF HashOfRebuilt
<1> HIDE DEF sealed, one
<1> QED BY <1>3, <1>4, <1>5, <1>6, <1>7, <1>8

LEMMA ExportIsAuthentic ==
  ASSUME NEW e, NEW closed, Whole(e, closed), e.transitions # <<>>, EnvironmentAgrees(ExportEpisode(e))
  PROVE  Authentic(ExportEpisode(e)) /\ Rebuilt(ExportEpisode(e)) = e
<1> DEFINE b == ExportEpisode(e)
           m == Len(e.transitions)
           n == m + Trail(e)
<1>1. /\ b.entries = {"manifest.json", "trajectory.jsonl"}
      /\ b.manifest = [bytes |-> "canonical", status |-> e.status, environment |-> EpisodeEnvironment,
                       digest |-> b.lines, count |-> Len(b.lines),
                       implementations |-> ImplementationsOf(e.transitions),
                       hash |-> EpisodeHash(e.status, EpisodeEnvironment, EpisodeScope,
                                            e.transitions, e.pending, e.marker)]
  BY ManifestOfExport
<1>2. Exported(b, e, closed)
  BY ExportsInOrder
<1>3. EnvironmentAgrees(b)
  OBVIOUS
<1> HIDE DEF b
<1>4. /\ OfKind(b, "TRANSITION") = [k \in 1..m |-> Line(e.transitions[k])]
      /\ OfKind(b, "DECISION_BOUNDARY") = IF e.pending = NoRecord THEN <<>> ELSE <<Line(e.pending)>>
      /\ OfKind(b, "incomplete") = IF e.marker = NoRecord THEN <<>> ELSE <<Line(e.marker)>>
      /\ DOMAIN b.lines = 1..n /\ Len(b.lines) = n /\ m \in Nat /\ n \in Nat
      /\ e.pending # NoRecord <=> n = m + 2
      /\ e.marker # NoRecord <=> n > m
      /\ DOMAIN e.transitions = 1..m
  BY <1>2, KindsOfExport
<1>5. /\ n \in {m, m + 1, m + 2}
      /\ \A k \in 1..m : b.lines[k] = Line(e.transitions[k]) /\ e.transitions[k] \in closed
      /\ n = m + 2 => b.lines[m + 1] = Line(e.pending)
      /\ n > m => b.lines[n] = Line(e.marker)
  <2>1. Trail(e) \in {0, 1, 2}
    BY DEF Trail
  <2> QED BY <1>2, <1>4, <2>1 DEF Exported, Layout
<1>6. \A r : Line(r).record = r /\ Line(r).sealed = r /\ Line(r).bytes = "canonical"
  BY DEF Line
<1>7. \A k \in 1..n : k \in 1..m \/ (k = n /\ n > m) \/ (k = m + 1 /\ n = m + 2)
  BY <1>4, <1>5
<1>8. \A k \in DOMAIN b.lines : \E r : b.lines[k] = Line(r)
  BY <1>4, <1>5, <1>7
<1>9. \A k \in DOMAIN FilesOf(b) : FilesOf(b)[k].bytes = "canonical"
  <2>1. b.lines \in Seq({b.lines[k] : k \in DOMAIN b.lines})
    <3>1. b.lines = [k \in 1..n |-> Line(RecordsOf(e)[k])]
      <4>1. DOMAIN RecordsOf(e) = 1..n
        BY RecordsInOrder
      <4> QED BY <4>1 DEF b, ExportEpisode
    <3>2. PICK N \in Nat : N = n
      BY <1>4
    <3>3. b.lines = [k \in 1..N |-> b.lines[k]] /\ DOMAIN b.lines = 1..N
      BY <3>1, <3>2
    <3>4. PICK L : L = b.lines
      OBVIOUS
    <3>5. L \in Seq({L[k] : k \in DOMAIN L})
      BY ONLY <3>3, <3>4
    <3> QED BY <3>4, <3>5
  <2>2. PICK L, S : L = b.lines /\ L \in Seq(S)
    BY <2>1
  <2>3. PICK h : h = b.manifest
    OBVIOUS
  <2>4. FilesOf(b) = <<h>> \o L
    BY <2>2, <2>3 DEF FilesOf
  <2>5. /\ DOMAIN (<<h>> \o L) = 1..(Len(L) + 1) /\ (<<h>> \o L)[1] = h
        /\ \A k \in 2..(Len(L) + 1) : (<<h>> \o L)[k] = L[k - 1] /\ k - 1 \in DOMAIN L
    BY ONLY <2>2
  <2>6. h.bytes = "canonical" /\ \A k \in DOMAIN L : L[k].bytes = "canonical"
    BY <1>1, <1>6, <1>8, <2>2, <2>3
  <2>7. Len(L) \in Nat
    BY <2>2
  <2>8. \A k \in 1..(Len(L) + 1) : k = 1 \/ k \in 2..(Len(L) + 1)
    BY <2>7
  <2> QED BY <2>4, <2>5, <2>6, <2>8
<1>10. /\ ~Has(b, "oversized") /\ ~Has(b, "version 2") /\ ~Has(b, "spaced") /\ FirstUnparsed(FilesOf(b)) = <<>>
  <2>1. ~Has(b, "oversized") /\ ~Has(b, "version 2") /\ ~Has(b, "spaced")
    BY <1>9 DEF Has
  <2>2. ParseFailure("canonical") = "none"
    BY DEF ParseFailure
  <2>3. {k \in DOMAIN FilesOf(b) : ParseFailure(FilesOf(b)[k].bytes) # "none"} = {}
    BY <1>9, <2>2
  <2> QED BY <2>1, <2>3, AtNoPlace DEF FirstUnparsed
<1>11. \A k \in DOMAIN b.lines : RecordShape(b.lines[k].record)
  <2>1. ASSUME NEW r, r.kind = "incomplete" \/ StoredTransition(r) \/ StoredBoundary(r) PROVE RecordShape(r)
    BY <2>1 DEF RecordShape, StoredTransition, StoredBoundary
  <2>2. n > m => e.marker.kind = "incomplete"
    BY <1>4 DEF Whole, StoredMarker
  <2>3. n = m + 2 => StoredBoundary(e.pending)
    BY <1>4 DEF Whole
  <2>4. \A k \in 1..m : StoredTransition(e.transitions[k])
    BY <1>5 DEF Whole
  <2> QED BY <1>4, <1>5, <1>6, <1>7, <2>1, <2>2, <2>3, <2>4
<1>12. PositionsFollow(b)
  <2>1. \A i \in 1..m : e.transitions[i].index = i - 1
    BY <1>4 DEF Whole, Lifecycle
  <2>2. e.pending # NoRecord => e.pending.index = m
    BY DEF Whole
  <2>3. PICK ts, bs, ms : /\ ts = OfKind(b, "TRANSITION") /\ bs = OfKind(b, "DECISION_BOUNDARY")
                          /\ ms = OfKind(b, "incomplete")
    OBVIOUS
  <2>4. DOMAIN ts = 1..m /\ Len(ts) = m /\ \A i \in 1..m : ts[i].record.index = i - 1
    BY <1>4, <1>6, <2>1, <2>3
  <2>5. /\ bs = <<>> \/ (/\ bs = <<Line(e.pending)>> /\ n = m + 2 /\ ms = <<Line(e.marker)>> /\ e.pending.index = m
                         /\ n - 1 = m + 1 /\ n >= 2)
        /\ ms = <<>> \/ (ms = <<Line(e.marker)>> /\ n > m)
    BY <1>4, <2>2, <2>3
  <2>6. Len(bs) <= 1 /\ Len(ms) <= 1
    <3>1. \A x : Len(<<x>>) <= 1 /\ Len(<<>>) <= 1
      OBVIOUS
    <3> QED BY <2>5, <3>1
  <2>7. bs # <<>> => /\ bs[1].record.index = Len(ts) /\ ms # <<>> /\ n >= 2
                     /\ b.lines[n - 1] = bs[1] /\ b.lines[n] = ms[1]
    BY <1>4, <1>5, <1>6, <2>4, <2>5
  <2>8. ms # <<>> => b.lines[n] = ms[1]
    BY <1>5, <2>5
  <2>9. Len(b.lines) = n
    BY <1>4
  <2> HIDE DEF n, m
  <2> QED BY <2>3, <2>4, <2>6, <2>7, <2>8, <2>9 DEF PositionsFollow
<1>13. HashesHold(b)
  <2>1. \A k \in DOMAIN b.lines : b.lines[k].record = b.lines[k].sealed
    BY <1>6, <1>8
  <2>2. OfKind(b, "DECISION_BOUNDARY") # <<>> =>
          b.lines[Len(b.lines)].record.boundary = OfKind(b, "DECISION_BOUNDARY")[1].sealed
    <3> SUFFICES ASSUME OfKind(b, "DECISION_BOUNDARY") # <<>>
                 PROVE  b.lines[Len(b.lines)].record.boundary = OfKind(b, "DECISION_BOUNDARY")[1].sealed
      OBVIOUS
    <3>1. e.pending # NoRecord /\ OfKind(b, "DECISION_BOUNDARY") = <<Line(e.pending)>>
      BY <1>4
    <3>2. n = m + 2 /\ n > m
      BY <1>4, <3>1
    <3>3. b.lines[Len(b.lines)] = Line(e.marker) /\ e.marker # NoRecord
      BY <1>4, <1>5, <3>2
    <3>4. e.marker.boundary = e.pending
      BY <3>3, EndsByStatus DEF Whole
    <3> QED BY <1>6, <3>1, <3>3, <3>4
  <2> QED BY <2>1, <2>2 DEF HashesHold
<1>14. Rebuilt(b) = e
  BY <1>1, <1>2, ExportRebuilds
<1>15. Rebuildable(b)
  BY <1>14 DEF Rebuildable, Whole
<1>16. HashOfRebuilt(b) = b.manifest.hash
  BY <1>1, <1>2, ExportHash
<1>17. b.manifest.digest = b.lines /\ b.manifest.count = Len(b.lines)
  BY <1>1
<1>18. Authentic(b)
  BY <1>1, <1>3, <1>10, <1>11, <1>12, <1>13, <1>15, <1>16, <1>17 DEF Authentic
<1> QED BY <1>14, <1>18 DEF b

LEMMA PlacesAreFinite == ASSUME NEW n \in Nat PROVE IsFiniteSet(1..n)
<1>1. 1 \in Int /\ n \in Int
  OBVIOUS
<1> QED BY <1>1, FS_Interval

LEMMA KindIsSequence ==
  ASSUME NEW d, Len(d.lines) \in Nat, DOMAIN d.lines = 1..Len(d.lines), NEW kind
  PROVE  \E c \in Nat : DOMAIN OfKind(d, kind) = 1..c /\ OfKind(d, kind) = [n \in 1..c |-> OfKind(d, kind)[n]]
<1>1. PICK places \in SUBSET (1..Len(d.lines)) : OfKind(d, kind) = ElementsAt(d.lines, places)
  BY DEF OfKind
<1>2. PICK c \in Nat : c = Cardinality(places)
  <2>1. PICK D : D = 1..Len(d.lines)
    OBVIOUS
  <2>2. IsFiniteSet(D)
    BY <2>1, PlacesAreFinite
  <2> QED BY <2>1, <2>2, FS_Subset, FS_CardinalityType
<1>3. DOMAIN OfKind(d, kind) = 1..c /\ OfKind(d, kind) = [n \in 1..c |-> OfKind(d, kind)[n]]
  BY <1>1, <1>2 DEF ElementsAt
<1> QED BY <1>3

(* An authentic bundle holds what the hash in its manifest was computed of.  *)
LEMMA HashBinds ==
  ASSUME NEW d, Authentic(d), Len(d.lines) \in Nat, DOMAIN d.lines = 1..Len(d.lines),
         NEW status, NEW env, NEW scope, NEW ts, NEW p, NEW mk,
         d.manifest.hash = EpisodeHash(status, env, scope, ts, p, mk)
  PROVE  /\ d.manifest.status = status
         /\ [n \in DOMAIN OfKind(d, "TRANSITION") |-> OfKind(d, "TRANSITION")[n].sealed] = ts
         /\ OfKind(d, "DECISION_BOUNDARY") # <<>> => OfKind(d, "DECISION_BOUNDARY")[1].sealed = p
         /\ OfKind(d, "DECISION_BOUNDARY") = <<>> => p = NoRecord
         /\ OfKind(d, "incomplete") # <<>> => OfKind(d, "incomplete")[1].sealed = mk
<1> DEFINE sealed(kind) == [n \in DOMAIN OfKind(d, kind) |-> OfKind(d, kind)[n].sealed]
           one(kind) == IF sealed(kind) = <<>> THEN NoRecord ELSE sealed(kind)[1]
<1>1. EpisodeHash(Rebuilt(d).status, d.manifest.environment,
                  Rebuilt(d).transitions[1].boundary.decision.observation.scope,
                  sealed("TRANSITION"), one("DECISION_BOUNDARY"), one("incomplete"))
        = EpisodeHash(status, env, scope, ts, p, mk)
  BY DEF Authentic, HashOfRebuilt
<1>2. Rebuilt(d).status = d.manifest.status
  BY DEF Rebuilt
<1>3. ASSUME NEW kind
      PROVE  /\ OfKind(d, kind) = <<>> => one(kind) = NoRecord
             /\ OfKind(d, kind) # <<>> => one(kind) = OfKind(d, kind)[1].sealed
  <2>1. PICK K : K = OfKind(d, kind)
    OBVIOUS
  <2>2. PICK s : s = sealed(kind)
    OBVIOUS
  <2>3. s = [n \in DOMAIN K |-> K[n].sealed]
    BY <2>1, <2>2
  <2>4. PICK c \in Nat : DOMAIN K = 1..c /\ K = [n \in 1..c |-> K[n]]
    BY <2>1, KindIsSequence
  <2>5. DOMAIN <<>> = {} /\ \A f : f = [n \in {} |-> f[n]] => f = <<>>
    OBVIOUS
  <2>6. K = <<>> => s = <<>>
    BY <2>3, <2>5
  <2>7. ASSUME K # <<>> PROVE s # <<>> /\ s[1] = K[1].sealed
    <3>1. DOMAIN K # {}
      <4> SUFFICES ASSUME DOMAIN K = {} PROVE K = <<>>
        BY <2>7
      <4> QED BY <2>4, <2>5
    <3>2. 1 \in DOMAIN K
      <4>1. 1..c # {} => 1 \in 1..c
        OBVIOUS
      <4> QED BY <2>4, <3>1, <4>1
    <3> QED BY <2>3, <2>5, <3>1, <3>2
  <2>8. one(kind) = IF s = <<>> THEN NoRecord ELSE s[1]
    BY <2>2
  <2> QED BY <2>1, <2>6, <2>7, <2>8
<1> HIDE DEF sealed, one
<1>4. /\ d.manifest.status = status /\ sealed("TRANSITION") = ts
      /\ one("DECISION_BOUNDARY") = p /\ one("incomplete") = mk
  BY <1>1, <1>2 DEF EpisodeHash
<1> QED BY <1>3, <1>4 DEF sealed

(* The manifest of an authentic bundle, digested again or not.               *)
LEMMA DigestedFacts ==
  ASSUME NEW d, "lines" \in DOMAIN d, "manifest" \in DOMAIN d, {"hash", "status"} \subseteq DOMAIN d.manifest
  PROVE  /\ Digested(d).lines = d.lines
         /\ Digested(d).manifest.hash = d.manifest.hash
         /\ Digested(d).manifest.status = d.manifest.status
<1>1. PICK M : M = [d.manifest EXCEPT !.digest = d.lines, !.count = Len(d.lines)]
  OBVIOUS
<1>2. M.hash = d.manifest.hash /\ M.status = d.manifest.status
  <2>1. PICK N, l, c : N = d.manifest /\ l = d.lines /\ c = Len(d.lines)
    OBVIOUS
  <2>2. M = [[N EXCEPT !["digest"] = l] EXCEPT !["count"] = c]
    BY <1>1, <2>1
  <2>3. M.hash = N.hash /\ M.status = N.status
    <3>1. "hash" \in DOMAIN N /\ "status" \in DOMAIN N
      BY <2>1
    <3> QED BY <2>2, <3>1
  <2> QED BY <2>1, <2>3
<1>3. Digested(d) = [d EXCEPT !["manifest"] = M]
  BY <1>1 DEF Digested
<1>4. Digested(d).lines = d.lines /\ Digested(d).manifest = M
  BY <1>3
<1> QED BY <1>2, <1>4

LEMMA ChangedFacts ==
  ASSUME NEW r, StoredTransition(r) \/ StoredBoundary(r) \/ StoredMarker(r)
  PROVE  Changed(r) # r /\ Changed(r).kind = r.kind
<1>1. CASE StoredTransition(r)
  <2>1. r.kind = "TRANSITION" /\ "post" \in DOMAIN r /\ "seq" \in DOMAIN r.post /\ r.post.seq \in Nat
    BY <1>1 DEF StoredTransition, HasPosition
  <2>2. Changed(r) = [r EXCEPT !.post.seq = @ + 1]
    BY <2>1 DEF Changed
  <2>3. Changed(r).kind = r.kind /\ Changed(r).post.seq = r.post.seq + 1
    BY <2>1, <2>2
  <2> QED BY <2>1, <2>3
<1>2. CASE StoredBoundary(r)
  <2>1. /\ r.kind = "DECISION_BOUNDARY" /\ "decision" \in DOMAIN r /\ "observation" \in DOMAIN r.decision
        /\ "seq" \in DOMAIN r.decision.observation /\ r.decision.observation.seq \in Nat
    BY <1>2 DEF StoredBoundary, HasPosition
  <2>2. Changed(r) = [r EXCEPT !.decision.observation.seq = @ + 1]
    BY <2>1 DEF Changed
  <2>3. Changed(r).kind = r.kind /\ Changed(r).decision.observation.seq = r.decision.observation.seq + 1
    BY <2>1, <2>2
  <2> QED BY <2>1, <2>3
<1>3. CASE StoredMarker(r)
  <2>1. r.kind = "incomplete" /\ "kind" \in DOMAIN r /\ "reason" \in DOMAIN r
    BY <1>3 DEF StoredMarker
  <2>2. \E other \in MarkerReasons : other # r.reason
    BY DEF MarkerReasons
  <2>3. PICK another : another = CHOOSE other \in MarkerReasons : other # r.reason
    OBVIOUS
  <2>4. another # r.reason
    BY <2>2, <2>3
  <2>5. Changed(r) = [r EXCEPT !["reason"] = another]
    BY <2>1, <2>3 DEF Changed
  <2>6. Changed(r).kind = r.kind /\ Changed(r).reason = another
    BY <2>1, <2>5
  <2> QED BY <2>4, <2>6
<1> QED BY <1>1, <1>2, <1>3

(* The bundle of an episode that has ended, and its lines one by one.        *)
ExportOf(b, e, closed) ==
  /\ Whole(e, closed) /\ e.transitions # <<>> /\ Exported(b, e, closed)
  /\ b = [entries |-> b.entries, lines |-> b.lines, manifest |-> b.manifest]
  /\ b.lines = [k \in DOMAIN b.lines |-> b.lines[k]]
  /\ b.manifest = [bytes |-> "canonical", status |-> e.status, environment |-> EpisodeEnvironment,
                   digest |-> b.lines, count |-> Len(b.lines),
                   implementations |-> ImplementationsOf(e.transitions),
                   hash |-> EpisodeHash(e.status, EpisodeEnvironment, EpisodeScope,
                                        e.transitions, e.pending, e.marker)]

(* With m transitions and n lines. *)
LinesAre(b, e, m, n) ==
  /\ m \in Nat /\ n \in Nat /\ n \in {m, m + 1, m + 2} /\ n >= 1 /\ m >= 1
  /\ DOMAIN b.lines = 1..n /\ Len(b.lines) = n /\ b.lines = [k \in 1..n |-> b.lines[k]]
  /\ \A k \in 1..m : /\ k \in 1..n /\ b.lines[k] = Line(e.transitions[k])
                     /\ StoredTransition(e.transitions[k]) /\ e.transitions[k].index = k - 1
  /\ n = m + 2 => b.lines[m + 1] = Line(e.pending) /\ StoredBoundary(e.pending) /\ e.pending # NoRecord
  /\ n > m => b.lines[n] = Line(e.marker) /\ StoredMarker(e.marker)
  /\ n > m <=> e.status = "INCOMPLETE"
  /\ n # m + 2 <=> e.pending = NoRecord

LEMMA LinesOfExport ==
  ASSUME NEW e, NEW closed, NEW b, ExportOf(b, e, closed)
  PROVE  LinesAre(b, e, Len(e.transitions), Len(e.transitions) + Trail(e))
<1> DEFINE m == Len(e.transitions)
           n == m + Trail(e)
<1>1. Whole(e, closed) /\ e.transitions # <<>> /\ Exported(b, e, closed)
  BY DEF ExportOf
<1>2. /\ DOMAIN b.lines = 1..n /\ Len(b.lines) = n /\ m \in Nat /\ n \in Nat
      /\ e.pending # NoRecord <=> n = m + 2
      /\ e.marker # NoRecord <=> n > m
      /\ DOMAIN e.transitions = 1..m
  BY <1>1, KindsOfExport
<1>3. /\ \A k \in 1..m : b.lines[k] = Line(e.transitions[k]) /\ e.transitions[k] \in closed
      /\ Trail(e) = 2 => b.lines[m + 1] = Line(e.pending)
      /\ Trail(e) > 0 => b.lines[n] = Line(e.marker)
      /\ Trail(e) \in {0, 1, 2}
  BY <1>1 DEF Exported, Trail
<1>4. (n = m + 2 <=> Trail(e) = 2) /\ (n > m <=> Trail(e) > 0) /\ n \in {m, m + 1, m + 2}
  BY <1>2, <1>3
<1>5. m # 0
  <2>1. e.transitions \in Seq(closed)
    BY <1>1 DEF Whole
  <2> QED BY <1>1, <2>1
<1>6. \A k \in 1..m : StoredTransition(e.transitions[k]) /\ e.transitions[k].index = k - 1
  BY <1>1, <1>2, <1>3 DEF Whole, Lifecycle
<1>7. n = m + 2 => StoredBoundary(e.pending) /\ e.pending # NoRecord
  BY <1>1, <1>2 DEF Whole
<1>8. n > m => StoredMarker(e.marker)
  BY <1>1, <1>2 DEF Whole
<1>9. n > m <=> e.status = "INCOMPLETE"
  BY <1>1, <1>4, EndsByStatus DEF Trail, Whole
<1>10. b.lines = [k \in 1..n |-> b.lines[k]]
  BY <1>2 DEF ExportOf
<1>11. m >= 1 /\ n >= 1 /\ \A k \in 1..m : k \in 1..n
  BY <1>2, <1>4, <1>5
<1> HIDE DEF m, n
<1> QED BY <1>2, <1>3, <1>4, <1>5, <1>6, <1>7, <1>8, <1>9, <1>10, <1>11 DEF LinesAre, m, n

(* A bundle with the files and the manifest's fields of an export.           *)
LEMMA FilesOfExport ==
  ASSUME NEW e, NEW closed, NEW b, ExportOf(b, e, closed)
  PROVE  /\ "lines" \in DOMAIN b /\ "manifest" \in DOMAIN b
         /\ {"hash", "status", "bytes", "digest", "count"} \subseteq DOMAIN b.manifest
         /\ b.manifest.hash = EpisodeHash(e.status, EpisodeEnvironment, EpisodeScope,
                                          e.transitions, e.pending, e.marker)
         /\ b.manifest.status = e.status /\ b.manifest.digest = b.lines /\ b.manifest.count = Len(b.lines)
<1>1. PICK M : M = b.manifest
  OBVIOUS
<1>2. M = [bytes |-> "canonical", status |-> e.status, environment |-> EpisodeEnvironment,
           digest |-> b.lines, count |-> Len(b.lines),
           implementations |-> ImplementationsOf(e.transitions),
           hash |-> EpisodeHash(e.status, EpisodeEnvironment, EpisodeScope, e.transitions, e.pending, e.marker)]
  BY <1>1 DEF ExportOf
<1>3. {"hash", "status", "bytes", "digest", "count"} \subseteq DOMAIN M
  BY <1>2
<1>4. "lines" \in DOMAIN b /\ "manifest" \in DOMAIN b
  BY DEF ExportOf
<1> QED BY <1>1, <1>2, <1>3, <1>4

(* A record is a transition, the boundary left open or the marker.           *)
LEMMA ChangeableLine ==
  ASSUME NEW e, NEW closed, NEW b, ExportOf(b, e, closed), NEW i \in DOMAIN b.lines
  PROVE  \E r : /\ b.lines[i] = Line(r) /\ (StoredTransition(r) \/ StoredBoundary(r) \/ StoredMarker(r))
                /\ \/ i \in 1..Len(e.transitions) /\ r = e.transitions[i] /\ r.kind = "TRANSITION"
                   \/ i = Len(e.transitions) + 1 /\ e.pending # NoRecord /\ r = e.pending
                        /\ r.kind = "DECISION_BOUNDARY"
                   \/ Trail(e) > 0 /\ i = Len(e.transitions) + Trail(e) /\ r = e.marker /\ r.kind = "incomplete"
<1> DEFINE m == Len(e.transitions)
           n == m + Trail(e)
<1>1. /\ m \in Nat /\ n \in Nat /\ n \in {m, m + 1, m + 2} /\ DOMAIN b.lines = 1..n
      /\ \A k \in 1..m : b.lines[k] = Line(e.transitions[k]) /\ StoredTransition(e.transitions[k])
      /\ n = m + 2 => b.lines[m + 1] = Line(e.pending) /\ StoredBoundary(e.pending) /\ e.pending # NoRecord
      /\ n > m => b.lines[n] = Line(e.marker) /\ StoredMarker(e.marker)
  <2> HIDE DEF m, n
  <2>1. LinesAre(b, e, m, n)
    BY LinesOfExport DEF m, n
  <2> QED BY <2>1 DEF LinesAre
<1>2. i \in 1..m \/ (i = n /\ n > m) \/ (i = m + 1 /\ n = m + 2)
  BY <1>1
<1>3. CASE i \in 1..m
  BY <1>1, <1>3 DEF StoredTransition
<1>4. CASE i = m + 1 /\ n = m + 2
  BY <1>1, <1>4 DEF StoredBoundary
<1>5. CASE i = n /\ n > m
  <2>1. Trail(e) > 0
    <3>1. Trail(e) \in {0, 1, 2}
      BY DEF Trail
    <3> QED BY <1>1, <1>5, <3>1
  <2>2. b.lines[i] = Line(e.marker) /\ StoredMarker(e.marker) /\ e.marker.kind = "incomplete"
    BY <1>1, <1>5 DEF StoredMarker
  <2> QED BY <1>5, <2>1, <2>2
<1> QED BY <1>2, <1>3, <1>4, <1>5

(* Bundles with lines of the same kinds have as many of each.                *)
LEMMA SameKindsSameLines ==
  ASSUME NEW b, NEW d, NEW kind, DOMAIN d.lines = DOMAIN b.lines, OfKind(b, kind) # <<>>,
         \A k \in DOMAIN b.lines : d.lines[k].record.kind = b.lines[k].record.kind
  PROVE  OfKind(d, kind) # <<>>
<1>1. PICK places : /\ places = {k \in DOMAIN b.lines : b.lines[k].record.kind = kind}
                    /\ places = {k \in DOMAIN d.lines : d.lines[k].record.kind = kind}
  OBVIOUS
<1>2. PICK C : C = 1..Cardinality(places)
  OBVIOUS
<1>3. DOMAIN OfKind(b, kind) = C /\ DOMAIN OfKind(d, kind) = C
  BY <1>1, <1>2 DEF OfKind, ElementsAt
<1>4. DOMAIN <<>> = {}
  OBVIOUS
<1>5. C # {}
  <2> SUFFICES ASSUME C = {} PROVE FALSE
    OBVIOUS
  <2>1. OfKind(b, kind) = [k \in C |-> OfKind(b, kind)[k]]
    BY <1>1, <1>2 DEF OfKind, ElementsAt
  <2>2. \A f : f = [k \in {} |-> f[k]] => f = <<>>
    OBVIOUS
  <2> QED BY <2>1, <2>2
<1> QED BY <1>3, <1>4, <1>5

(* A record changed in place differs from the hashes beside it, and its file *)
(* from the digest in the manifest.                                          *)
LEMMA AlteredIsRejected ==
  ASSUME NEW e, NEW closed, NEW b, ExportOf(b, e, closed), NEW i \in DOMAIN b.lines
  PROVE  ~Authentic(Altered(b, i)) /\ (i \in Rehashed(b) => ~Authentic(Digested(Altered(b, i))))
<1>1. PICK r : /\ b.lines[i] = Line(r) /\ (StoredTransition(r) \/ StoredBoundary(r) \/ StoredMarker(r))
               /\ r.kind \in {"TRANSITION", "DECISION_BOUNDARY", "incomplete"}
  BY ChangeableLine
<1>2. PICK v : v = [bytes |-> "canonical", record |-> Changed(r), sealed |-> r]
  OBVIOUS
<1>3. PICK L : L = [b.lines EXCEPT ![i] = v]
  OBVIOUS
<1>4. [b.lines[i] EXCEPT !.record = Changed(@)] = v
  BY <1>1, <1>2 DEF Line
<1>5. PICK x : x = [b EXCEPT !["lines"] = L] /\ x = Altered(b, i)
  BY <1>3, <1>4 DEF Altered
<1>6. /\ "lines" \in DOMAIN b /\ "manifest" \in DOMAIN b
      /\ {"hash", "status"} \subseteq DOMAIN b.manifest
      /\ b.manifest.digest = b.lines
  BY FilesOfExport
<1>7. x.lines = L /\ x.manifest = b.manifest /\ DOMAIN x = DOMAIN b
  BY <1>5, <1>6
<1>8. Changed(r) # r /\ Changed(r).kind = r.kind
  BY <1>1, ChangedFacts
<1>9. L[i] = v /\ i \in DOMAIN L /\ v # b.lines[i]
  <2>1. v.record # b.lines[i].record
    BY <1>1, <1>2, <1>8 DEF Line
  <2> QED BY <1>3, <2>1
<1>10. ~Authentic(x)
  BY <1>6, <1>7, <1>9 DEF Authentic
<1>11. Digested(x).lines = L
  <2>1. "lines" \in DOMAIN x /\ "manifest" \in DOMAIN x /\ {"hash", "status"} \subseteq DOMAIN x.manifest
    BY <1>6, <1>7
  <2> QED BY <1>7, <2>1, DigestedFacts
<1>12. ASSUME i \in Rehashed(b) PROVE ~HashesHold(Digested(x))
  <2>1. PICK d : d = Digested(x) /\ d.lines = L
    BY <1>11
  <2>2. d.lines[i].record = Changed(r) /\ d.lines[i].sealed = r /\ i \in DOMAIN d.lines
    BY <1>2, <1>9, <2>1
  <2>3. d.lines[i].record.kind = r.kind
    BY <1>8, <2>2
  <2>4. r.kind # "incomplete" \/ OfKind(d, "DECISION_BOUNDARY") # <<>>
    <3> SUFFICES ASSUME r.kind = "incomplete" PROVE OfKind(d, "DECISION_BOUNDARY") # <<>>
      OBVIOUS
    <3>1. b.lines[i].record.kind = "incomplete"
      BY <1>1 DEF Line
    <3>2. OfKind(b, "DECISION_BOUNDARY") # <<>>
      BY <1>12, <3>1 DEF Rehashed
    <3>3. \A k \in DOMAIN b.lines : d.lines[k].record.kind = b.lines[k].record.kind
      BY <1>3, <2>1, <2>3, <3>1
    <3>4. DOMAIN d.lines = DOMAIN b.lines
      BY <1>3, <2>1
    <3> QED BY <3>2, <3>3, <3>4, SameKindsSameLines
  <2> QED BY <1>8, <2>1, <2>2, <2>3, <2>4 DEF HashesHold
<1> QED BY <1>5, <1>10, <1>12 DEF Authentic

(* A record written again with its own hashes is not the one the episode's   *)
(* hash was computed of.                                                     *)
LEMMA ResealedIsRejected ==
  ASSUME NEW e, NEW closed, NEW b, ExportOf(b, e, closed), NEW i \in DOMAIN b.lines
  PROVE  ~Authentic(Digested(Resealed(b, i)))
<1> DEFINE m == Len(e.transitions)
           n == m + Trail(e)
<1>0. m \in Nat /\ (Trail(e) > 0 => n > m)
  <2>1. Trail(e) \in {0, 1, 2}
    BY DEF Trail
  <2>2. m \in Nat
    BY RecordsInOrder DEF ExportOf
  <2> QED BY <2>1, <2>2
<1>1. PICK r : /\ b.lines[i] = Line(r) /\ (StoredTransition(r) \/ StoredBoundary(r) \/ StoredMarker(r))
               /\ \/ i \in 1..m /\ r = e.transitions[i] /\ r.kind = "TRANSITION"
                  \/ i = m + 1 /\ e.pending # NoRecord /\ r = e.pending /\ r.kind = "DECISION_BOUNDARY"
                  \/ n > m /\ i = n /\ r = e.marker /\ r.kind = "incomplete"
  BY <1>0, ChangeableLine
<1>2. /\ m \in Nat /\ n \in Nat /\ n \in {m, m + 1, m + 2}
      /\ DOMAIN b.lines = 1..n /\ Len(b.lines) = n /\ b.lines = [k \in 1..n |-> b.lines[k]]
      /\ \A k \in 1..m : b.lines[k] = Line(e.transitions[k]) /\ StoredTransition(e.transitions[k])
      /\ n = m + 2 => b.lines[m + 1] = Line(e.pending) /\ StoredBoundary(e.pending)
      /\ n > m => b.lines[n] = Line(e.marker) /\ StoredMarker(e.marker)
      /\ n # m + 2 <=> e.pending = NoRecord
  <2> HIDE DEF m, n
  <2>1. LinesAre(b, e, m, n)
    BY LinesOfExport DEF m, n
  <2> QED BY <2>1 DEF LinesAre
<1>3. /\ "lines" \in DOMAIN b /\ "manifest" \in DOMAIN b /\ {"hash", "status"} \subseteq DOMAIN b.manifest
      /\ b.manifest.hash = EpisodeHash(e.status, EpisodeEnvironment, EpisodeScope,
                                       e.transitions, e.pending, e.marker)
  BY FilesOfExport
<1>4. PICK v : v = Line(Changed(r))
  OBVIOUS
<1>5. PICK L : L = [b.lines EXCEPT ![i] = v]
  OBVIOUS
<1>6. \A q : Line(q).record = q /\ Line(q).sealed = q
  BY DEF Line
<1>7. PICK x : x = [b EXCEPT !["lines"] = L] /\ x = Resealed(b, i)
  BY <1>1, <1>4, <1>5, <1>6 DEF Resealed
<1>8. x.lines = L /\ x.manifest = b.manifest /\ DOMAIN x = DOMAIN b
  BY <1>3, <1>7
<1>9. PICK d : d = Digested(x) /\ d.lines = L /\ d.manifest.hash = b.manifest.hash
  <2>1. "lines" \in DOMAIN x /\ "manifest" \in DOMAIN x /\ {"hash", "status"} \subseteq DOMAIN x.manifest
    BY <1>3, <1>8
  <2> QED BY <1>8, <2>1, DigestedFacts
<1>10. Changed(r) # r /\ Changed(r).kind = r.kind
  BY <1>1, ChangedFacts
<1>11. DOMAIN L = 1..n /\ L[i] = v /\ \A k \in 1..n : k # i => L[k] = b.lines[k]
  BY <1>2, <1>5
<1>12. Len(L) = n
  <2>1. L = [k \in 1..n |-> L[k]]
    BY <1>2, <1>5
  <2> QED BY <1>2, <2>1
<1> HIDE DEF n, m
<1>13. Layout(d, m, n)
  <2>1. \A k \in 1..m : k \in 1..n /\ L[k].record.kind = "TRANSITION"
    <3> SUFFICES ASSUME NEW k \in 1..m PROVE k \in 1..n /\ L[k].record.kind = "TRANSITION"
      OBVIOUS
    <3>1. k \in 1..n
      BY <1>2
    <3>2. CASE k = i
      <4>1. r.kind = "TRANSITION"
        BY <1>1, <1>2, <3>2
      <4> QED BY <1>4, <1>6, <1>10, <1>11, <3>1, <3>2, <4>1
    <3>3. CASE k # i
      <4>1. L[k] = Line(e.transitions[k]) /\ e.transitions[k].kind = "TRANSITION"
        BY <1>2, <1>11, <3>1, <3>3 DEF StoredTransition
      <4> QED BY <1>6, <3>1, <4>1
    <3> QED BY <3>1, <3>2, <3>3
  <2>2. n > m => L[n].record.kind = "incomplete"
    <3> SUFFICES ASSUME n > m PROVE L[n].record.kind = "incomplete"
      OBVIOUS
    <3>1. CASE n # i
      BY <1>2, <1>6, <1>11, <3>1 DEF StoredMarker
    <3>2. CASE n = i
      <4>1. r.kind = "incomplete"
        BY <1>1, <1>2, <3>2
      <4> QED BY <1>4, <1>6, <1>10, <1>11, <3>2, <4>1
    <3> QED BY <3>1, <3>2
  <2>3. n = m + 2 => L[m + 1].record.kind = "DECISION_BOUNDARY"
    <3> SUFFICES ASSUME n = m + 2 PROVE L[m + 1].record.kind = "DECISION_BOUNDARY"
      OBVIOUS
    <3>1. m + 1 \in 1..n
      BY <1>2
    <3>2. CASE i = m + 1
      <4>1. r.kind = "DECISION_BOUNDARY"
        BY <1>1, <1>2, <3>2
      <4> QED BY <1>4, <1>6, <1>10, <1>11, <3>1, <3>2, <4>1
    <3>3. CASE i # m + 1
      BY <1>2, <1>6, <1>11, <3>1, <3>3 DEF StoredBoundary
    <3> QED BY <3>2, <3>3
  <2> QED BY <1>2, <1>9, <1>11, <1>12, <2>1, <2>2, <2>3 DEF Layout
<1>14. /\ OfKind(d, "TRANSITION") = [k \in 1..m |-> L[k]]
       /\ OfKind(d, "DECISION_BOUNDARY") = IF n = m + 2 THEN <<L[m + 1]>> ELSE <<>>
       /\ OfKind(d, "incomplete") = IF n > m THEN <<L[n]>> ELSE <<>>
  BY <1>9, <1>13, KindsOfLayout
<1>15. SUFFICES ASSUME Authentic(d) PROVE FALSE
  BY <1>7, <1>9
<1>16. /\ [k \in DOMAIN OfKind(d, "TRANSITION") |-> OfKind(d, "TRANSITION")[k].sealed] = e.transitions
       /\ OfKind(d, "DECISION_BOUNDARY") # <<>> => OfKind(d, "DECISION_BOUNDARY")[1].sealed = e.pending
       /\ OfKind(d, "incomplete") # <<>> => OfKind(d, "incomplete")[1].sealed = e.marker
  <2>1. Len(d.lines) \in Nat /\ DOMAIN d.lines = 1..Len(d.lines)
    BY <1>2, <1>9, <1>11, <1>12
  <2> QED BY <1>3, <1>9, <1>15, <2>1, HashBinds
<1>17. CASE i \in 1..m /\ r = e.transitions[i]
  <2>1. [k \in 1..m |-> L[k].sealed] = e.transitions
    BY <1>14, <1>16
  <2>2. L[i].sealed = e.transitions[i]
    BY <1>17, <2>1
  <2> QED BY <1>4, <1>6, <1>10, <1>11, <1>17, <2>2
<1>18. CASE i = m + 1 /\ e.pending # NoRecord /\ r = e.pending
  <2>1. n = m + 2
    BY <1>2, <1>18
  <2>2. PICK last : last = L[m + 1]
    OBVIOUS
  <2>3. OfKind(d, "DECISION_BOUNDARY") = <<last>>
    BY ONLY <1>14, <2>1, <2>2
  <2>4. <<last>> # <<>> /\ <<last>>[1] = last
    OBVIOUS
  <2>5. last.sealed = e.pending
    BY ONLY <1>16, <2>3, <2>4
  <2> QED BY <1>4, <1>6, <1>10, <1>11, <1>18, <2>2, <2>5
<1>19. CASE n > m /\ i = n /\ r = e.marker
  <2>1. PICK last : last = L[n]
    OBVIOUS
  <2>2. OfKind(d, "incomplete") = <<last>>
    BY ONLY <1>14, <1>19, <2>1
  <2>3. <<last>> # <<>> /\ <<last>>[1] = last
    OBVIOUS
  <2>4. last.sealed = e.marker
    BY ONLY <1>16, <2>2, <2>3
  <2> QED BY <1>4, <1>6, <1>10, <1>11, <1>19, <2>1, <2>4
<1> QED BY <1>1, <1>17, <1>18, <1>19

LEMMA SameField ==
  ASSUME NEW f, f = [y \in DOMAIN f |-> f[y]], NEW x
  PROVE  [f EXCEPT ![x] = f[x]] = f
<1>1. [f EXCEPT ![x] = f[x]] = [y \in DOMAIN f |-> f[y]]
  OBVIOUS
<1> QED BY <1>1

LEMMA KindsOfLines ==
  ASSUME NEW b, NEW e, NEW m, NEW n, LinesAre(b, e, m, n), NEW k \in 1..n
  PROVE  /\ b.lines[k].record.kind = "incomplete" <=> n > m /\ k = n
         /\ b.lines[k].record.kind = "DECISION_BOUNDARY" <=> n = m + 2 /\ k = m + 1
         /\ b.lines[k].record.kind = "TRANSITION" <=> k \in 1..m
<1>1. /\ m \in Nat /\ n \in Nat /\ n \in {m, m + 1, m + 2}
      /\ \A l \in 1..m : b.lines[l] = Line(e.transitions[l]) /\ StoredTransition(e.transitions[l])
      /\ n = m + 2 => b.lines[m + 1] = Line(e.pending) /\ StoredBoundary(e.pending)
      /\ n > m => b.lines[n] = Line(e.marker) /\ StoredMarker(e.marker)
  BY DEF LinesAre
<1>2. \A r : Line(r).record = r
  BY DEF Line
<1>3. CASE k \in 1..m
  <2>1. b.lines[k].record.kind = "TRANSITION"
    BY <1>1, <1>2, <1>3 DEF StoredTransition
  <2>2. ~(n > m /\ k = n) /\ ~(n = m + 2 /\ k = m + 1)
    BY <1>1, <1>3
  <2> QED BY <1>3, <2>1, <2>2
<1>4. CASE k = n /\ n > m
  <2>1. b.lines[k].record.kind = "incomplete"
    BY <1>1, <1>2, <1>4 DEF StoredMarker
  <2>2. k \notin 1..m /\ ~(n = m + 2 /\ k = m + 1)
    BY <1>1, <1>4
  <2> QED BY <1>4, <2>1, <2>2
<1>5. CASE k = m + 1 /\ n = m + 2
  <2>1. b.lines[k].record.kind = "DECISION_BOUNDARY"
    BY <1>1, <1>2, <1>5 DEF StoredBoundary
  <2>2. k \notin 1..m /\ ~(n > m /\ k = n)
    BY <1>1, <1>5
  <2> QED BY <1>5, <2>1, <2>2
<1>6. k \in 1..m \/ (k = n /\ n > m) \/ (k = m + 1 /\ n = m + 2)
  BY <1>1
<1> QED BY <1>3, <1>4, <1>5, <1>6

(* Two different records exchanged: the marker is no longer the last, or the *)
(* boundary the last but one, or a decision is out of turn.                  *)
LEMMA ExchangedIsOutOfOrder ==
  ASSUME NEW b, NEW e, NEW m, NEW n, LinesAre(b, e, m, n), NEW p \in 1..n, NEW q \in 1..n, p # q,
         NEW d, DOMAIN d.lines = 1..n, Len(d.lines) = n, d.lines[p] = b.lines[q], d.lines[q] = b.lines[p],
         \A k \in 1..n : k # p /\ k # q => d.lines[k] = b.lines[k]
  PROVE  ~PositionsFollow(d)
<1> SUFFICES ASSUME PositionsFollow(d) PROVE FALSE
  OBVIOUS
<1>0. /\ m \in Nat /\ n \in Nat /\ n \in {m, m + 1, m + 2}
      /\ \A l \in 1..m : /\ l \in 1..n /\ b.lines[l] = Line(e.transitions[l])
                         /\ e.transitions[l].index = l - 1
  BY DEF LinesAre
<1>1. /\ m \in Nat /\ n \in Nat /\ n \in {m, m + 1, m + 2} /\ p \in Nat /\ q \in Nat
      /\ \A l \in 1..m : l \in 1..n
      /\ \A l \in 1..m : b.lines[l] = Line(e.transitions[l]) /\ e.transitions[l].index = l - 1
  BY <1>0
<1>2. \A k \in 1..n :
        /\ b.lines[k].record.kind = "incomplete" <=> n > m /\ k = n
        /\ b.lines[k].record.kind = "DECISION_BOUNDARY" <=> n = m + 2 /\ k = m + 1
        /\ b.lines[k].record.kind = "TRANSITION" <=> k \in 1..m
  BY KindsOfLines
<1>3. \A x : <<x>> # <<>> /\ <<x>>[1] = x
  OBVIOUS
<1>4. PICK L : L = d.lines
  OBVIOUS
<1>5. /\ DOMAIN L = 1..n /\ L[p] = b.lines[q] /\ L[q] = b.lines[p]
      /\ \A k \in 1..n : k # p /\ k # q => L[k] = b.lines[k]
  BY <1>4
<1>6. ASSUME NEW u \in {p, q}, NEW v \in {p, q}, u # v, n > m, v = n PROVE FALSE
  <2>1. u \in 1..n /\ v \in 1..n /\ L[u] = b.lines[v] /\ L[v] = b.lines[u]
    BY <1>5, <1>6
  <2>2. \A k \in 1..n : L[k].record.kind = "incomplete" <=> k = u
    BY <1>2, <1>5, <1>6, <2>1
  <2>3. OfKind(d, "incomplete") = <<L[u]>>
    <3>1. /\ u \in Nat /\ u \in DOMAIN d.lines /\ d.lines[u].record.kind = "incomplete"
          /\ \A k \in DOMAIN d.lines : d.lines[k].record.kind = "incomplete" => k = u
      BY <1>1, <1>4, <1>5, <2>1, <2>2
    <3>2. PICK kind : kind = "incomplete"
      OBVIOUS
    <3>3. OfKind(d, kind) = <<d.lines[u]>>
      BY <3>1, <3>2, OneOfKind
    <3> QED BY <1>4, <3>2, <3>3
  <2>4. L[n] = L[u]
    BY <1>3, <1>4, <2>3 DEF PositionsFollow
  <2> QED BY <1>6, <2>1, <2>2, <2>4
<1>7. ASSUME NEW u \in {p, q}, NEW v \in {p, q}, u # v, n = m + 2, v = m + 1 PROVE FALSE
  <2>1. u \in 1..n /\ v \in 1..n /\ L[u] = b.lines[v] /\ L[v] = b.lines[u]
    BY <1>5, <1>7
  <2>2. \A k \in 1..n : L[k].record.kind = "DECISION_BOUNDARY" <=> k = u
    BY <1>2, <1>5, <1>7, <2>1
  <2>3. OfKind(d, "DECISION_BOUNDARY") = <<L[u]>>
    <3>1. /\ u \in Nat /\ u \in DOMAIN d.lines /\ d.lines[u].record.kind = "DECISION_BOUNDARY"
          /\ \A k \in DOMAIN d.lines : d.lines[k].record.kind = "DECISION_BOUNDARY" => k = u
      BY <1>1, <1>4, <1>5, <2>1, <2>2
    <3>2. PICK kind : kind = "DECISION_BOUNDARY"
      OBVIOUS
    <3>3. OfKind(d, kind) = <<d.lines[u]>>
      BY <3>1, <3>2, OneOfKind
    <3> QED BY <1>4, <3>2, <3>3
  <2>4. L[n - 1] = L[u]
    BY <1>3, <1>4, <2>3 DEF PositionsFollow
  <2>5. n - 1 = v
    BY <1>1, <1>7
  <2> QED BY <1>7, <2>1, <2>2, <2>4, <2>5
<1>8. CASE p \in 1..m /\ q \in 1..m
  <2>1. \A k \in 1..n : L[k].record.kind = b.lines[k].record.kind
    <3> SUFFICES ASSUME NEW k \in 1..n PROVE L[k].record.kind = b.lines[k].record.kind
      OBVIOUS
    <3>1. CASE k = p
      BY <1>2, <1>5, <1>8, <3>1
    <3>2. CASE k = q
      BY <1>2, <1>5, <1>8, <3>2
    <3>3. CASE k # p /\ k # q
      BY <1>5, <3>3
    <3> QED BY <3>1, <3>2, <3>3
  <2>2. {k \in DOMAIN L : L[k].record.kind = "TRANSITION"} = 1..m
    BY <1>1, <1>2, <1>5, <2>1
  <2>3. OfKind(d, "TRANSITION") = [k \in 1..m |-> L[k]]
    <3>1. OfKind(d, "TRANSITION") = ElementsAt(L, 1..m)
      BY <1>4, <2>2 DEF OfKind
    <3> QED BY <1>1, <3>1, AtFirstPlaces
  <2>4. OfKind(d, "TRANSITION")[p].record.index = p - 1
    BY <1>8, <2>3 DEF PositionsFollow
  <2>5. L[p].record.index = q - 1
    <3>1. L[p] = Line(e.transitions[q]) /\ e.transitions[q].index = q - 1
      BY <1>1, <1>5, <1>8
    <3> QED BY <3>1 DEF Line
  <2> QED BY <1>1, <1>8, <2>3, <2>4, <2>5
<1>9. \A k \in 1..n : k \in 1..m \/ (k = n /\ n > m) \/ (k = m + 1 /\ n = m + 2)
  BY <1>1
<1> QED BY <1>6, <1>7, <1>8, <1>9

LEMMA ExchangedIsRejected ==
  ASSUME NEW e, NEW closed, NEW b, ExportOf(b, e, closed), NEW i \in DOMAIN b.lines, NEW j \in DOMAIN b.lines,
         Digested(Exchanged(b, i, j)) # b
  PROVE  ~Authentic(Digested(Exchanged(b, i, j)))
<1> DEFINE m == Len(e.transitions)
           n == m + Trail(e)
<1>1. LinesAre(b, e, m, n)
  BY LinesOfExport
<1> HIDE DEF m, n
<1>2. /\ DOMAIN b.lines = 1..n /\ Len(b.lines) = n /\ b.lines = [k \in 1..n |-> b.lines[k]] /\ n \in Nat
  BY <1>1 DEF LinesAre
<1>3. /\ "lines" \in DOMAIN b /\ "manifest" \in DOMAIN b /\ {"hash", "status"} \subseteq DOMAIN b.manifest
      /\ b.manifest.digest = b.lines /\ b.manifest.count = Len(b.lines)
  BY FilesOfExport
<1>4. PICK L : L = [[b.lines EXCEPT ![i] = b.lines[j]] EXCEPT ![j] = b.lines[i]]
  OBVIOUS
<1>5. PICK x : x = Exchanged(b, i, j) /\ x = [b EXCEPT !["lines"] = L]
  <2>1. PICK B : B = b.lines
    OBVIOUS
  <2>2. [b EXCEPT !["lines"] = [[B EXCEPT ![i] = B[j]] EXCEPT ![j] = B[i]]] = Exchanged(b, i, j)
    <3>1. Exchanged(b, i, j) = [b EXCEPT !.lines[i] = B[j], !.lines[j] = B[i]]
      BY <2>1 DEF Exchanged
    <3>2. PICK vi, vj : vi = B[j] /\ vj = B[i]
      OBVIOUS
    <3>3. [b EXCEPT !.lines[i] = vi, !.lines[j] = vj] = [b EXCEPT !["lines"] = [[B EXCEPT ![i] = vi] EXCEPT ![j] = vj]]
      BY <1>3, <2>1
    <3> QED BY <3>1, <3>2, <3>3
  <2> QED BY <1>4, <2>1, <2>2
<1>6. x.lines = L /\ x.manifest = b.manifest /\ DOMAIN x = DOMAIN b
  BY <1>3, <1>5
<1>7. PICK d : d = Digested(x) /\ d.lines = L
  <2>1. "lines" \in DOMAIN x /\ "manifest" \in DOMAIN x /\ {"hash", "status"} \subseteq DOMAIN x.manifest
    BY <1>3, <1>6
  <2> QED BY <1>6, <2>1, DigestedFacts
<1>8. b.lines[i] # b.lines[j]
  <2> SUFFICES ASSUME b.lines[i] = b.lines[j] PROVE FALSE
    OBVIOUS
  <2>1. L = b.lines
    BY <1>2, <1>4
  <2>2. x = b
    BY <1>5, <2>1 DEF ExportOf
  <2>3. Digested(b) = b
    <3>1. PICK M, l, c, h, st, env, imp :
            /\ M = b.manifest /\ l = b.lines /\ c = Len(b.lines)
            /\ M = [bytes |-> "canonical", status |-> st, environment |-> env, digest |-> l, count |-> c,
                     implementations |-> imp, hash |-> h]
      BY DEF ExportOf
    <3>2. [M EXCEPT !.digest = l, !.count = c] = M
      <4>1. M.digest = l /\ M.count = c /\ M = [y \in DOMAIN M |-> M[y]]
        BY <3>1
      <4>2. [M EXCEPT !["digest"] = l] = M /\ [M EXCEPT !["count"] = c] = M
        BY <4>1, SameField
      <4> QED BY <4>2
    <3>3. Digested(b) = [b EXCEPT !["manifest"] = M]
      BY <3>1, <3>2 DEF Digested
    <3>4. [b EXCEPT !["manifest"] = b.manifest] = b
      BY DEF ExportOf
    <3> QED BY <3>1, <3>3, <3>4
  <2> QED BY <1>5, <2>2, <2>3
<1>9. /\ i # j /\ i \in 1..n /\ j \in 1..n /\ DOMAIN L = 1..n
      /\ L[i] = b.lines[j] /\ L[j] = b.lines[i]
      /\ \A k \in 1..n : k # i /\ k # j => L[k] = b.lines[k]
  BY <1>2, <1>4, <1>8
<1>10. Len(L) = n
  <2>1. L = [k \in 1..n |-> L[k]]
    BY <1>2, <1>4
  <2> QED BY <1>2, <2>1
<1>11. ~PositionsFollow(d)
  <2>1. /\ DOMAIN d.lines = 1..n /\ Len(d.lines) = n /\ d.lines[i] = b.lines[j] /\ d.lines[j] = b.lines[i]
        /\ \A k \in 1..n : k # i /\ k # j => d.lines[k] = b.lines[k]
    BY <1>7, <1>9, <1>10
  <2>2. i \in 1..n /\ j \in 1..n /\ i # j
    BY <1>9
  <2> QED BY <1>1, <2>1, <2>2, ExchangedIsOutOfOrder
<1> QED BY <1>5, <1>7, <1>11 DEF Authentic

(* The last record dropped: the episode has not ended as the manifest says,  *)
(* or a decision is missing.                                                 *)
LEMMA ShortenedIsRejected ==
  ASSUME NEW e, NEW closed, NEW b, ExportOf(b, e, closed)
  PROVE  ~Authentic(Digested(Shortened(b)))
<1> DEFINE m == Len(e.transitions)
           n == m + Trail(e)
<1>1. LinesAre(b, e, m, n)
  BY LinesOfExport
<1>2. DOMAIN e.transitions = 1..m
  BY RecordsInOrder DEF ExportOf
<1> HIDE DEF m, n
<1>3. /\ DOMAIN b.lines = 1..n /\ Len(b.lines) = n /\ b.lines = [k \in 1..n |-> b.lines[k]]
      /\ n \in Nat /\ m \in Nat /\ n >= 1 /\ m >= 1 /\ n \in {m, m + 1, m + 2}
      /\ n > m <=> e.status = "INCOMPLETE"
  BY <1>1 DEF LinesAre
<1>4. /\ "lines" \in DOMAIN b /\ "manifest" \in DOMAIN b /\ {"hash", "status"} \subseteq DOMAIN b.manifest
      /\ b.manifest.status = e.status
      /\ b.manifest.hash = EpisodeHash(e.status, EpisodeEnvironment, EpisodeScope,
                                       e.transitions, e.pending, e.marker)
  BY FilesOfExport
<1>5. PICK L : L = SubSeq(b.lines, 1, n - 1)
  OBVIOUS
<1>6. DOMAIN L = 1..(n - 1) /\ Len(L) = n - 1 /\ \A k \in 1..(n - 1) : L[k] = b.lines[k]
  <2>1. PICK B : B = b.lines
    OBVIOUS
  <2>2. B \in Seq({B[k] : k \in DOMAIN B}) /\ Len(B) = n
    BY <1>3, <2>1
  <2>3. PICK S : B \in Seq(S)
    BY <2>2
  <2>4. Len(SubSeq(B, 1, n - 1)) = n - 1 /\ \A k \in 1..(n - 1) : SubSeq(B, 1, n - 1)[k] = B[k]
    BY <1>3, <2>2, <2>3
  <2>5. DOMAIN SubSeq(B, 1, n - 1) = 1..(n - 1)
    BY <1>3, <2>2, <2>3
  <2> QED BY <1>5, <2>1, <2>4, <2>5
<1>7. PICK x : x = [b EXCEPT !["lines"] = L] /\ x = Shortened(b)
  BY <1>3, <1>5 DEF Shortened
<1>8. x.lines = L /\ x.manifest = b.manifest /\ DOMAIN x = DOMAIN b
  BY <1>4, <1>7
<1>9. PICK d : /\ d = Digested(x) /\ d.lines = L /\ d.manifest.hash = b.manifest.hash
               /\ d.manifest.status = b.manifest.status
  <2>1. "lines" \in DOMAIN x /\ "manifest" \in DOMAIN x /\ {"hash", "status"} \subseteq DOMAIN x.manifest
    BY <1>4, <1>8
  <2> QED BY <1>8, <2>1, DigestedFacts
<1>10. SUFFICES ASSUME Authentic(d) PROVE FALSE
  BY <1>7, <1>9
<1>11. \A k \in 1..n :
        /\ b.lines[k].record.kind = "incomplete" <=> n > m /\ k = n
        /\ b.lines[k].record.kind = "TRANSITION" <=> k \in 1..m
  BY <1>1, KindsOfLines
<1>12. \A k \in 1..(n - 1) : k \in 1..n /\ k # n
  BY <1>3
<1>13. CASE n > m
  <2>1. \A k \in DOMAIN d.lines : d.lines[k].record.kind # "incomplete"
    BY <1>6, <1>9, <1>11, <1>12
  <2>2. OfKind(d, "incomplete") = <<>>
    BY <2>1, NoneOfKind
  <2>3. Rebuilt(d).marker = NoRecord /\ Rebuilt(d).status = "INCOMPLETE"
    BY <1>3, <1>4, <1>9, <1>13, <2>2 DEF Rebuilt
  <2>4. StatusAgrees(Rebuilt(d))
    BY <1>10 DEF Authentic, Rebuildable, Lifecycle
  <2>5. PICK r : r = Rebuilt(d)
    OBVIOUS
  <2> QED BY <2>3, <2>4, <2>5 DEF StatusAgrees
<1>14. CASE n = m
  <2>1. {k \in DOMAIN d.lines : d.lines[k].record.kind = "TRANSITION"} = 1..(m - 1)
    BY <1>3, <1>6, <1>9, <1>11, <1>12, <1>14
  <2>2. m - 1 \in Nat
    BY <1>3
  <2>3. OfKind(d, "TRANSITION") = [k \in 1..(m - 1) |-> d.lines[k]]
    BY <2>1, <2>2, AtFirstPlaces DEF OfKind
  <2>4. [k \in DOMAIN OfKind(d, "TRANSITION") |-> OfKind(d, "TRANSITION")[k].sealed] = e.transitions
    <3>1. Len(d.lines) \in Nat /\ DOMAIN d.lines = 1..Len(d.lines)
      BY <1>6, <1>9, <1>14, <2>2
    <3> QED BY <1>4, <1>9, <1>10, <3>1, HashBinds
  <2>5. DOMAIN e.transitions = 1..(m - 1)
    BY <2>3, <2>4
  <2>6. m \in 1..m /\ m \notin 1..(m - 1)
    BY <1>3
  <2> QED BY <1>2, <2>5, <2>6
<1> QED BY <1>3, <1>13, <1>14

LEMMA NoPlacePicked ==
  ASSUME NEW s, NEW places, IsFiniteSet(places), ElementsAt(s, places) = <<>>
  PROVE  places = {}
<1>1. PICK c \in Nat : c = Cardinality(places)
  BY FS_CardinalityType
<1>2. DOMAIN ElementsAt(s, places) = 1..c
  BY <1>1 DEF ElementsAt
<1>3. c = 0
  <2>1. DOMAIN <<>> = {}
    OBVIOUS
  <2>2. 1..c = {}
    BY <1>2, <2>1
  <2> QED BY <2>2
<1> QED BY <1>1, <1>3, FS_EmptySet

LEMMA FilesInOrder ==
  ASSUME NEW d, NEW n \in Nat, d.lines = [k \in 1..n |-> d.lines[k]]
  PROVE  /\ 1 \in DOMAIN FilesOf(d) /\ FilesOf(d)[1] = d.manifest
         /\ \A places \in SUBSET (DOMAIN FilesOf(d)) : IsFiniteSet(places)
<1>1. PICK B, h : B = d.lines /\ h = d.manifest
  OBVIOUS
<1>2. B = [k \in 1..n |-> B[k]]
  BY <1>1
<1>3. PICK S : B \in Seq(S) /\ h \in S
  <2>1. B \in Seq({B[k] : k \in 1..n} \cup {h})
    BY ONLY <1>2
  <2> QED BY <2>1
<1>4. /\ DOMAIN (<<h>> \o B) = 1..(Len(B) + 1) /\ (<<h>> \o B)[1] = h
      /\ Len(B) + 1 \in Nat /\ 1 \in 1..(Len(B) + 1)
  BY ONLY <1>3
<1>5. PICK D : D = 1..(Len(B) + 1) /\ IsFiniteSet(D)
  BY <1>4, FS_Interval
<1>6. \A places \in SUBSET D : IsFiniteSet(places)
  BY <1>5, FS_Subset
<1> QED BY <1>1, <1>4, <1>5, <1>6 DEF FilesOf

(* A manifest encoded otherwise does not parse, or is not canonical.         *)
LEMMA EncodedIsRejected ==
  ASSUME NEW e, NEW closed, NEW b, ExportOf(b, e, closed), NEW bytes \in {"bom", "spaced", "version 2", "not json"}
  PROVE  ~Authentic(Encoded(b, bytes))
<1> DEFINE m == Len(e.transitions)
           n == m + Trail(e)
<1>1. LinesAre(b, e, m, n)
  BY LinesOfExport
<1> HIDE DEF m, n
<1>2. DOMAIN b.lines = 1..n /\ Len(b.lines) = n /\ b.lines = [k \in 1..n |-> b.lines[k]] /\ n \in Nat
  BY <1>1 DEF LinesAre
<1>3. "lines" \in DOMAIN b /\ "manifest" \in DOMAIN b /\ "bytes" \in DOMAIN b.manifest
  BY FilesOfExport
<1>4. PICK d : d = Encoded(b, bytes) /\ d.lines = b.lines /\ d.manifest.bytes = bytes
  <2>1. PICK d : d = Encoded(b, bytes)
    OBVIOUS
  <2>2. PICK M : M = [b.manifest EXCEPT !["bytes"] = bytes]
    OBVIOUS
  <2>3. d = [b EXCEPT !["manifest"] = M]
    BY <2>1, <2>2 DEF Encoded
  <2>4. M.bytes = bytes
    BY <1>3, <2>2
  <2>5. d.lines = b.lines /\ d.manifest = M
    BY <1>3, <2>3
  <2> QED BY <2>1, <2>4, <2>5
<1>5. 1 \in DOMAIN FilesOf(d) /\ FilesOf(d)[1].bytes = bytes
      /\ \A places \in SUBSET (DOMAIN FilesOf(d)) : IsFiniteSet(places)
  <2>1. PICK N \in Nat : d.lines = [k \in 1..N |-> d.lines[k]]
    BY <1>2, <1>4
  <2> QED BY <1>4, <2>1, FilesInOrder
<1> SUFFICES ASSUME Authentic(d) PROVE FALSE
  BY <1>4
<1>6. bytes \in {"bom", "not json"}
  BY <1>5 DEF Authentic, Has
<1>7. ParseFailure(bytes) # "none"
  BY <1>6 DEF ParseFailure
<1>8. PICK places : /\ places = {k \in DOMAIN FilesOf(d) : ParseFailure(FilesOf(d)[k].bytes) # "none"}
                    /\ places \in SUBSET (DOMAIN FilesOf(d))
  OBVIOUS
<1>9. ElementsAt(FilesOf(d), places) = <<>>
  BY <1>8 DEF Authentic, FirstUnparsed
<1>10. places = {}
  BY <1>5, <1>8, <1>9, NoPlacePicked
<1> QED BY <1>5, <1>7, <1>8, <1>10

LEMMA RewrittenIsRejected ==
  ASSUME NEW e, NEW closed, NEW b, ExportOf(b, e, closed), NEW d \in Rewritten(b)
  PROVE  ~Authentic(d)
<1> DEFINE encodings == {"bom", "spaced", "version 2", "not json"}
<1>1. \A i \in Rehashed(b) : i \in DOMAIN b.lines
  BY DEF Rehashed
<1>2. \/ d \in RecordChanged(b)
      \/ d \in RecordMoved(b)
      \/ d \in {Encoded(b, x) : x \in encodings}
      \/ d = Digested(Shortened(b))
  BY DEF Rewritten
<1>3. CASE d \in RecordChanged(b)
  <2>1. CASE d \in {Altered(b, i) : i \in DOMAIN b.lines}
    BY <2>1, AlteredIsRejected
  <2>2. CASE d \in {Digested(Altered(b, i)) : i \in Rehashed(b)}
    BY <1>1, <2>2, AlteredIsRejected
  <2>3. CASE d \in {Digested(Resealed(b, i)) : i \in DOMAIN b.lines}
    BY <2>3, ResealedIsRejected
  <2> QED BY <1>3, <2>1, <2>2, <2>3 DEF RecordChanged
<1>4. CASE d \in RecordMoved(b)
  <2>1. PICK i \in DOMAIN b.lines, j \in DOMAIN b.lines : d = Digested(Exchanged(b, i, j)) /\ d # b
    BY <1>4 DEF RecordMoved
  <2>2. Digested(Exchanged(b, i, j)) # b
    BY <2>1
  <2> QED BY <2>1, <2>2, ExchangedIsRejected
<1>5. \A x \in encodings : ~Authentic(Encoded(b, x))
  BY EncodedIsRejected
<1>6. CASE d \in {Encoded(b, x) : x \in encodings}
  <2> HIDE DEF encodings
  <2> QED BY <1>5, <1>6
<1>7. CASE d = Digested(Shortened(b))
  BY <1>7, ShortenedIsRejected
<1> QED BY <1>2, <1>3, <1>4, <1>6, <1>7

(* The verdicts on the export of an episode that has ended, and on every     *)
(* bundle one writing away from it.                                          *)
LEMMA VerdictsOnExport ==
  ASSUME NEW e, NEW closed, Whole(e, closed)
  PROVE  LET b == ExportEpisode(e)
         IN /\ IntegrityValid(VerifyBundle(b)) <=> e.transitions # <<>> /\ EnvironmentAgrees(b)
            /\ VerifyBundle(b) = "VERIFIED" <=>
                 e.status = "COMPLETE" /\ EnvironmentAgrees(b) /\ ReplayFailure(e.transitions) = "none"
            /\ e.transitions # <<>> => \A d \in Rewritten(b) : ~IntegrityValid(VerifyBundle(d))
<1> DEFINE b == ExportEpisode(e)
<1>1. e.transitions # <<>> /\ EnvironmentAgrees(b) => Authentic(b)
  BY ExportIsAuthentic
<1>2. /\ b = [entries |-> b.entries, lines |-> b.lines, manifest |-> b.manifest]
      /\ b.manifest = [bytes |-> "canonical", status |-> e.status, environment |-> EpisodeEnvironment,
                       digest |-> b.lines, count |-> Len(b.lines),
                       implementations |-> ImplementationsOf(e.transitions),
                       hash |-> EpisodeHash(e.status, EpisodeEnvironment, EpisodeScope,
                                            e.transitions, e.pending, e.marker)]
  BY ManifestOfExport
<1>3. b.lines = [k \in DOMAIN b.lines |-> b.lines[k]]
  <2>1. b.lines = [k \in DOMAIN RecordsOf(e) |-> Line(RecordsOf(e)[k])]
    BY DEF ExportEpisode
  <2> HIDE DEF b
  <2> QED BY <2>1
<1>4. Exported(b, e, closed)
  BY ExportsInOrder
<1> HIDE DEF b
<1>5. b.manifest.status = e.status /\ e.status \in {"COMPLETE", "INCOMPLETE"}
  BY <1>2 DEF Whole
<1>6. Rebuilt(b) = e
  BY <1>4, <1>5, ExportRebuilds
<1>7. Authentic(b) => e.transitions # <<>> /\ EnvironmentAgrees(b)
  BY <1>6 DEF Authentic, Rebuildable
<1>8. e.status = "COMPLETE" => e.transitions # <<>>
  <2>1. e.transitions = <<>> => Len(e.transitions) = 0
    OBVIOUS
  <2>2. e.status = "COMPLETE" => Len(e.transitions) > 0
    BY DEF Whole, Lifecycle, StatusAgrees
  <2> QED BY <2>1, <2>2
<1>9. /\ Authentic(b) => VerifyBundle(b) = VerdictOf(b) /\ IntegrityValid(VerdictOf(b))
      /\ ~Authentic(b) => ~IntegrityValid(VerifyBundle(b)) /\ VerifyBundle(b) # "VERIFIED"
  <2>1. IntegrityValid("VERIFIED")
    BY DEF IntegrityValid
  <2> QED BY <2>1, StagesInOrder, VerdictsOfReplay
<1>10. VerdictOf(b) = "VERIFIED" <=> ReplayFailure(e.transitions) = "none" /\ b.manifest.status # "INCOMPLETE"
  BY <1>6, VerdictsOfReplay
<1>11. IntegrityValid(VerifyBundle(b)) <=> e.transitions # <<>> /\ EnvironmentAgrees(b)
  BY <1>1, <1>7, <1>9
<1>12. VerifyBundle(b) = "VERIFIED" <=>
         e.status = "COMPLETE" /\ EnvironmentAgrees(b) /\ ReplayFailure(e.transitions) = "none"
  BY <1>1, <1>5, <1>7, <1>8, <1>9, <1>10
<1>13. ASSUME e.transitions # <<>>, NEW d \in Rewritten(b) PROVE ~IntegrityValid(VerifyBundle(d))
  <2>1. ExportOf(b, e, closed)
    BY <1>2, <1>3, <1>4, <1>13 DEF ExportOf
  <2> QED BY <1>13, <2>1, RewrittenIsRejected, StagesInOrder
<1> QED BY <1>11, <1>12, <1>13 DEF b
-----------------------------------------------------------------------------
(* What the store keeps, so that an episode that has ended is whole.         *)

(* The rows of an episode, and what a transaction has read and may write.    *)
Decided(m) == Cardinality(TransitionsIn(m.records))

Asked(m, tx) ==
  /\ tx.op # "create" => tx.read = Episode(m)
  /\ tx.op = "capture" => StoredBoundary(tx.request.record)
  /\ tx.op = "close" => StoredTransition(tx.request.record)
  /\ tx.op = "incomplete" => StoredMarker(tx.request.marker)

NextRecord(m, r) ==
  /\ StoredBoundary(r) \/ StoredTransition(r)
  /\ r.index = Decided(m) /\ \A s \in m.records : s.kind = r.kind => s.index # r.index
  /\ r.kind = "DECISION_BOUNDARY" => Unclosed(m.records) = {}

ToWrite(m, row) ==
  /\ "record" \in DOMAIN row => NextRecord(m, row.record)
  /\ "record" \notin DOMAIN row =>
       /\ "status" \in DOMAIN row /\ DOMAIN row \subseteq {"status", "marker"} /\ row.status \in EpisodeStatuses
       /\ "marker" \in DOMAIN row => StoredMarker(row.marker)

(* A decision has one row of each kind, the rows are those the models accept,*)
(* and only the next decision may be open.                                   *)
StoredRows(m) ==
  /\ {"status", "marker", "records"} \subseteq DOMAIN m /\ m.status \in EpisodeStatuses
  /\ m.marker # NoRecord => StoredMarker(m.marker)
  /\ IsFiniteSet(m.records)
  /\ \A r \in m.records : StoredBoundary(r) \/ StoredTransition(r)
  /\ \A r, s \in m.records : r.kind = s.kind /\ r.index = s.index => r = s
  /\ \A b \in Unclosed(m.records) : b.index = Decided(m)

ReadsRows(m, tx) ==
  /\ tx.op \in TrajectoryOperations => Asked(m, tx)
  /\ tx.op = "written" => ToWrite(m, tx.row)

RowsInv ==
  /\ StoredRows(marl)
  /\ \A w \in Writers : ReadsRows(marl, trajectoryTx[w])

LEMMA RowsInitial == MarlInit => RowsInv
<1> SUFFICES ASSUME MarlInit PROVE RowsInv
  OBVIOUS
<1>1. marl = [status |-> "ABSENT", marker |-> NoRecord, records |-> {}]
  BY DEF MarlInit
<1>2. IsFiniteSet({})
  BY FS_EmptySet
<1>3. Unclosed({}) = {}
  BY DEF Unclosed
<1>4. StoredRows(marl)
  BY <1>1, <1>2, <1>3 DEF StoredRows, EpisodeStatuses
<1>5. \A w \in Writers : trajectoryTx[w].op = "idle"
  BY DEF MarlInit, Idle
<1> QED BY <1>4, <1>5 DEF RowsInv, ReadsRows, TrajectoryOperations

(* What the rows say of the decision left open.                              *)
LEMMA OpenDecision ==
  ASSUME NEW m, StoredRows(m)
  PROVE  /\ Decided(m) \in Nat /\ Len(Episode(m).transitions) = Decided(m)
         /\ Pending(m.records) = NoRecord => Unclosed(m.records) = {}
         /\ Pending(m.records) # NoRecord => /\ StoredBoundary(Pending(m.records))
                                                /\ Pending(m.records).index = Decided(m)
<1>1. IsFiniteSet(TransitionsIn(m.records))
  <2>1. TransitionsIn(m.records) \subseteq m.records
    BY DEF TransitionsIn
  <2> QED BY <2>1, FS_Subset DEF StoredRows
<1>2. Decided(m) \in Nat
  BY <1>1, FS_CardinalityType DEF Decided
<1>3. Len(Episode(m).transitions) = Decided(m)
  <2>1. PICK c \in Nat : c = Decided(m)
    BY <1>2
  <2>2. PICK s : s = InStepOrder(TransitionsIn(m.records))
    OBVIOUS
  <2> DEFINE nth(n) == CHOOSE t \in TransitionsIn(m.records) :
                         Cardinality({u \in TransitionsIn(m.records) : u.index < t.index}) = n - 1
  <2>5. s = [n \in 1..c |-> nth(n)]
    BY <2>1, <2>2 DEF InStepOrder, Decided
  <2> HIDE DEF nth
  <2>3. DOMAIN s = 1..c /\ s = [n \in 1..c |-> s[n]]
    BY <2>5
  <2>4. Len(s) = c
    BY ONLY <2>3, c \in Nat
  <2> QED BY <2>1, <2>2, <2>4 DEF Episode
<1>4. ASSUME Unclosed(m.records) # {}
      PROVE  Pending(m.records) \in Unclosed(m.records)
  <2>1. PICK b \in Unclosed(m.records) : TRUE
    BY <1>4
  <2>2. \A o \in Unclosed(m.records) : o.index <= b.index
    BY <1>2, <2>1 DEF StoredRows
  <2>3. Pending(m.records) = CHOOSE u \in Unclosed(m.records) : \A o \in Unclosed(m.records) : o.index <= u.index
    BY <1>4 DEF Pending
  <2> QED BY <2>1, <2>2, <2>3
<1>5. \A b \in Unclosed(m.records) : StoredBoundary(b) /\ b.index = Decided(m) /\ b # NoRecord
  BY DEF Unclosed, StoredRows, StoredTransition, NoRecord
<1>6. Unclosed(m.records) = {} => Pending(m.records) = NoRecord
  BY DEF Pending
<1> QED BY <1>2, <1>3, <1>4, <1>5, <1>6

(* What a coordinator may ask for is what the models accept.                 *)
LEMMA RequestsAreShaped ==
  ASSUME StoredRows(marl), NEW request \in TrajectoryRequests
  PROVE  /\ request.op = "capture" => StoredBoundary(request.record)
         /\ request.op = "close" => StoredTransition(request.record)
         /\ request.op = "incomplete" => StoredMarker(request.marker)
<1>1. CASE request \in {[op |-> "create"], [op |-> "complete"]}
  BY <1>1
<1>2. ASSUME NEW i \in 0..(MaxDecisions - 1), NEW c \in Captures, DecisionShape(c),
             request = [op |-> "capture", record |-> Boundary(i, c)]
      PROVE  request.op = "capture" /\ StoredBoundary(request.record)
  <2>1. i \in Nat
    BY CapturesAreFinite
  <2>2. "observation" \in DOMAIN c /\ "seq" \in DOMAIN c.observation /\ c.observation.seq \in Nat
    BY ObservationsAreNumbered
  <2> QED BY <1>2, <2>1, <2>2 DEF Boundary, StoredBoundary, HasPosition
<1>3. ASSUME NEW b \in marl.records, b.kind = "DECISION_BOUNDARY", NEW c \in Closings,
             TransitionShape(Transition(b, c)), request = [op |-> "close", record |-> Transition(b, c)]
      PROVE  request.op = "close" /\ StoredTransition(request.record)
  <2>1. b.index \in Nat
    BY <1>3 DEF StoredRows, StoredBoundary, StoredTransition
  <2>2. "seq" \in DOMAIN c.post /\ c.post.seq \in Nat
    BY ObservationsAreNumbered
  <2>3. PICK t : t = Transition(b, c)
    OBVIOUS
  <2>4. t.kind = "TRANSITION" /\ t.index = b.index /\ t.post = c.post /\ "post" \in DOMAIN t
    BY <2>3 DEF Transition
  <2>5. request.op = "close" /\ request.record = t
    BY <1>3, <2>3
  <2> QED BY <1>3, <2>1, <2>2, <2>3, <2>4, <2>5 DEF StoredTransition, HasPosition
<1>4. ASSUME NEW i \in 0..MaxDecisions, NEW b, NEW reason, request = [op |-> "incomplete", marker |-> Marker(i, b, reason)]
      PROVE  request.op = "incomplete" /\ StoredMarker(request.marker)
  BY <1>4 DEF Marker, StoredMarker
<1>5. \/ request \in {[op |-> "create"], [op |-> "complete"]}
      \/ \E i \in 0..(MaxDecisions - 1), c \in Captures :
            DecisionShape(c) /\ request = [op |-> "capture", record |-> Boundary(i, c)]
      \/ \E b \in marl.records, c \in Closings :
            /\ b.kind = "DECISION_BOUNDARY" /\ TransitionShape(Transition(b, c))
            /\ request = [op |-> "close", record |-> Transition(b, c)]
      \/ \E i \in 0..MaxDecisions : \E b, reason : request = [op |-> "incomplete", marker |-> Marker(i, b, reason)]
  BY DEF TrajectoryRequests
<1> QED BY <1>1, <1>2, <1>3, <1>4, <1>5

(* What is written follows what the transaction has read.                    *)
LEMMA WrittenIsNext ==
  ASSUME NEW tx, tx.op \in TrajectoryOperations, StoredRows(marl), Asked(marl, tx), NEW row \in Written(tx)
  PROVE  ToWrite(marl, row)
<1> DEFINE e == tx.read
           r == tx.request.record
<1>1. /\ Decided(marl) \in Nat
      /\ tx.op # "create" => e = Episode(marl) /\ e.pending = Pending(marl.records) /\ Len(e.transitions) = Decided(marl)
  BY OpenDecision DEF Asked, Episode
<1>2. CASE tx.op = "create"
  <2>1. row = [status |-> "OPEN"]
    BY <1>2 DEF Written
  <2> QED BY <2>1 DEF ToWrite, EpisodeStatuses
<1>3. CASE tx.op = "complete"
  <2>1. row = [status |-> "COMPLETE"]
    BY <1>3 DEF Written
  <2> QED BY <2>1 DEF ToWrite, EpisodeStatuses
<1>4. CASE tx.op = "incomplete"
  <2>1. row = [status |-> "INCOMPLETE", marker |-> tx.request.marker]
    BY <1>4 DEF Written
  <2> QED BY <1>4, <2>1 DEF ToWrite, EpisodeStatuses, Asked
<1>5. CASE tx.op = "capture"
  <2>1. row = [record |-> r] /\ MayCapture(e, r) /\ Existing(r) = {}
    BY <1>5 DEF Written
  <2>2. StoredBoundary(r) /\ r.index = Decided(marl)
    BY <1>1, <1>5, <2>1 DEF MayCapture, Asked
  <2>3. Unclosed(marl.records) = {}
    BY <1>1, <1>5, <2>1, OpenDecision DEF MayCapture
  <2>4. \A s \in marl.records : s.kind = r.kind => s.index # r.index
    BY <2>1 DEF Existing
  <2> HIDE DEF r
  <2> QED BY <2>1, <2>2, <2>3, <2>4 DEF ToWrite, NextRecord
<1>6. CASE tx.op = "close"
  <2>1. row = [record |-> r] /\ MayClose(e, r) /\ Existing(r) = {}
    BY <1>6 DEF Written
  <2>2. StoredTransition(r) /\ r.index = Decided(marl)
    BY <1>1, <1>6, <2>1 DEF MayClose, Asked
  <2>3. \A s \in marl.records : s.kind = r.kind => s.index # r.index
    BY <2>1 DEF Existing
  <2>4. r.kind # "DECISION_BOUNDARY"
    BY <2>2 DEF StoredTransition
  <2> HIDE DEF r
  <2> QED BY <2>1, <2>2, <2>3, <2>4 DEF ToWrite, NextRecord
<1> QED BY <1>2, <1>3, <1>4, <1>5, <1>6 DEF TrajectoryOperations

(* A transition closes the decision that is open; a boundary opens the next. *)
LEMMA RecordJoins ==
  ASSUME NEW m, StoredRows(m), NEW r, NextRecord(m, r)
  PROVE  StoredRows([m EXCEPT !.records = @ \cup {r}])
<1>1. PICK R : R = m.records \cup {r}
  OBVIOUS
<1>2. PICK x : x = [m EXCEPT !.records = @ \cup {r}]
  OBVIOUS
<1>3. x.status = m.status /\ x.marker = m.marker /\ x.records = R /\ DOMAIN x = DOMAIN m
  BY <1>1, <1>2 DEF StoredRows
<1>4. IsFiniteSet(R)
  BY <1>1, FS_AddElement DEF StoredRows
<1>5. \A s \in R : StoredBoundary(s) \/ StoredTransition(s)
  BY <1>1 DEF StoredRows, NextRecord
<1>6. \A s, t \in R : s.kind = t.kind /\ s.index = t.index => s = t
  BY <1>1 DEF StoredRows, NextRecord
<1>7. r \notin m.records
  BY DEF NextRecord
<1>8. \A b \in Unclosed(R) : b.index = Cardinality(TransitionsIn(R))
  <2>1. CASE r.kind = "TRANSITION"
    <3>1. TransitionsIn(R) = TransitionsIn(m.records) \cup {r}
      BY <1>1, <2>1 DEF TransitionsIn
    <3>2. \A b \in Unclosed(R) : b \in Unclosed(m.records) /\ b.index # r.index
      BY <1>1, <2>1, <3>1 DEF Unclosed
    <3> QED BY <3>2 DEF StoredRows, NextRecord
  <2>2. CASE r.kind # "TRANSITION"
    <3>1. TransitionsIn(R) = TransitionsIn(m.records)
      BY <1>1, <2>2 DEF TransitionsIn
    <3>2. \A b \in Unclosed(R) : b \in Unclosed(m.records) \/ b = r
      BY <1>1, <3>1 DEF Unclosed
    <3> QED BY <3>1, <3>2 DEF StoredRows, NextRecord, Decided
  <2> QED BY <2>1, <2>2
<1> QED BY <1>2, <1>3, <1>4, <1>5, <1>6, <1>8 DEF StoredRows, Decided

LEMMA RowsAfterCommit ==
  ASSUME NEW m, StoredRows(m), NEW row, ToWrite(m, row)
  PROVE  StoredRows(With(m, row))
<1>1. CASE "record" \in DOMAIN row
  BY <1>1, RecordJoins DEF With, ToWrite
<1>2. CASE "record" \notin DOMAIN row
  <2>1. PICK x : x = With(m, row)
    OBVIOUS
  <2>2. /\ DOMAIN x = DOMAIN m
        /\ \A k \in DOMAIN m : x[k] = IF k \in DOMAIN row THEN row[k] ELSE m[k]
    BY <1>2, <2>1 DEF With
  <2>3. x.records = m.records /\ {"status", "marker", "records"} \subseteq DOMAIN x
    BY <1>2, <2>2 DEF StoredRows, ToWrite
  <2>4. x.status \in EpisodeStatuses
    BY <1>2, <2>2 DEF StoredRows, ToWrite
  <2>5. x.marker # NoRecord => StoredMarker(x.marker)
    BY <1>2, <2>2, <2>3 DEF StoredRows, ToWrite
  <2> QED BY <2>1, <2>3, <2>4, <2>5 DEF StoredRows, Decided
<1> QED BY <1>1, <1>2

(* The transactions past the lock stay where they are.                       *)
LEMMA OthersRead ==
  ASSUME MarlInv, RowsInv, NEW w \in Writers, NEW tx,
         trajectoryTx' = [trajectoryTx EXCEPT ![w] = tx], marl' = marl \/ Busy(w),
         StoredRows(marl'), ReadsRows(marl', tx)
  PROVE  RowsInv'
<1>1. /\ trajectoryTx'[w] = tx
      /\ \A v \in Writers : v # w => trajectoryTx'[v] = trajectoryTx[v]
  BY DEF MarlInv
<1>2. ASSUME NEW v \in Writers, v # w PROVE ReadsRows(marl', trajectoryTx[v])
  <2>1. CASE marl' = marl
    BY <1>2, <2>1 DEF RowsInv
  <2>2. CASE Busy(w)
    <3>1. ~Busy(v)
      BY <1>2, <2>2 DEF MarlInv
    <3> QED BY <3>1 DEF Busy, ReadsRows, Asked, TrajectoryOperations
  <2> QED BY <2>1, <2>2
<1> QED BY <1>1, <1>2 DEF RowsInv

LEMMA RowsStep == MarlInv /\ RowsInv /\ [MarlNext]_marlVars => RowsInv'
<1> SUFFICES ASSUME MarlInv, RowsInv, [MarlNext]_marlVars PROVE RowsInv'
  OBVIOUS
<1>1. CASE UNCHANGED marlVars
  BY <1>1 DEF marlVars, RowsInv
<1>2. StoredRows(marl) /\ ReadsRows(marl, Idle)
  BY DEF RowsInv, ReadsRows, Idle, TrajectoryOperations
<1>3. ASSUME NEW w \in Writers, Begin(w) PROVE RowsInv'
  <2>1. PICK request \in TrajectoryRequests :
          trajectoryTx' = [trajectoryTx EXCEPT ![w] =
            [op |-> request.op, request |-> request, read |-> Episode(marl)]]
    BY <1>3 DEF Begin
  <2>2. PICK tx : tx = [op |-> request.op, request |-> request, read |-> Episode(marl)]
    OBVIOUS
  <2>3. tx.op = request.op /\ tx.request = request /\ tx.read = Episode(marl)
    BY <2>2
  <2>4. request.op # "written"
    BY RequestsAreOperations DEF TrajectoryOperations
  <2>5. ReadsRows(marl, tx)
    BY <1>2, <2>3, <2>4, RequestsAreShaped DEF ReadsRows, Asked
  <2> QED BY <1>2, <1>3, <2>1, <2>2, <2>5, OthersRead DEF Begin
<1>4. ASSUME NEW w \in Writers, Write(w) PROVE RowsInv'
  <2> DEFINE rows == {r \in Written(trajectoryTx[w]) : Lifecycle(Episode(With(marl, r)))}
  <2>1. PICK tx : tx = IF rows = {} THEN Idle ELSE [op |-> "written", row |-> CHOOSE r \in rows : TRUE]
    OBVIOUS
  <2>2. /\ trajectoryTx' = [trajectoryTx EXCEPT ![w] = tx] /\ marl' = marl
        /\ trajectoryTx[w].op \notin {"idle", "written"}
    BY <1>4, <2>1 DEF Write
  <2>3. trajectoryTx[w].op \in TrajectoryOperations /\ Asked(marl, trajectoryTx[w])
    BY <2>2, MarlParts DEF RowsInv, ReadsRows
  <2>4. \A r \in rows : ToWrite(marl, r)
    BY <1>2, <2>3, WrittenIsNext
  <2> HIDE DEF rows
  <2>5. ReadsRows(marl, tx)
    <3>1. CASE rows = {}
      BY <1>2, <2>1, <3>1
    <3>2. CASE rows # {}
      <4>1. PICK r \in rows : tx = [op |-> "written", row |-> r]
        BY <2>1, <3>2
      <4> QED BY <2>4, <4>1 DEF ReadsRows, TrajectoryOperations
    <3> QED BY <3>1, <3>2
  <2> QED BY <1>2, <1>4, <2>2, <2>5, OthersRead
<1>5. ASSUME NEW w \in Writers, CommitTrajectory(w) PROVE RowsInv'
  <2>1. /\ trajectoryTx' = [trajectoryTx EXCEPT ![w] = Idle] /\ marl' = With(marl, trajectoryTx[w].row)
        /\ trajectoryTx[w].op = "written" /\ Busy(w)
    BY <1>5 DEF CommitTrajectory, Busy
  <2>2. StoredRows(marl')
    BY <1>2, <1>5, <2>1, RowsAfterCommit DEF RowsInv, ReadsRows
  <2>3. ReadsRows(marl', Idle)
    BY DEF ReadsRows, Idle, TrajectoryOperations
  <2> QED BY <1>5, <2>1, <2>2, <2>3, OthersRead
<1>6. ASSUME NEW w \in Writers, AbortTrajectory(w) PROVE RowsInv'
  BY <1>2, <1>6, OthersRead DEF AbortTrajectory
<1> QED BY <1>1, <1>3, <1>4, <1>5, <1>6 DEF MarlNext

(* The rows of different decisions have one order, by their decision.        *)
TakesPlace(T, key, n) == \E t \in T : Cardinality({u \in T : key[u] < key[t]}) = n - 1

LEMMA PlacesAreTaken ==
  ASSUME NEW T, IsFiniteSet(T), NEW key \in [T -> Nat], \A s, t \in T : key[s] = key[t] => s = t,
         NEW n \in 1..Cardinality(T)
  PROVE  TakesPlace(T, key, n)
<1> DEFINE before(t) == {u \in T : key[u] < key[t]}
<1>1. ASSUME NEW t \in T PROVE before(t) \in SUBSET T /\ t \notin before(t)
  OBVIOUS
<1>2. ASSUME NEW s \in T, NEW t \in T, key[s] < key[t]
      PROVE  before(s) \in SUBSET before(t) /\ s \in before(t)
  BY <1>2
<1>3. \A s, t \in T : s = t \/ key[s] < key[t] \/ key[t] < key[s]
  OBVIOUS
<1>4. PICK c \in Nat : c = Cardinality(T)
  BY FS_CardinalityType
<1> HIDE DEF before
<1>5. ASSUME NEW t \in T PROVE /\ IsFiniteSet(before(t)) /\ Cardinality(before(t)) \in Nat
                               /\ Cardinality(before(t)) + 1 \in 1..c
  <2>1. before(t) \in SUBSET T /\ before(t) # T
    BY <1>1
  <2>2. IsFiniteSet(before(t)) /\ Cardinality(before(t)) <= Cardinality(T) /\ Cardinality(before(t)) # Cardinality(T)
    BY <2>1, FS_Subset
  <2>3. Cardinality(before(t)) \in Nat
    BY <2>2, FS_CardinalityType
  <2> QED BY <1>4, <2>2, <2>3
<1>6. ASSUME NEW s \in T, NEW t \in T, key[s] < key[t]
      PROVE  Cardinality(before(s)) # Cardinality(before(t))
  <2>1. before(s) \in SUBSET before(t) /\ before(s) # before(t)
    BY <1>1, <1>2, <1>6
  <2> QED BY <1>5, <2>1, FS_Subset
<1>7. \A s, t \in T : Cardinality(before(s)) = Cardinality(before(t)) => s = t
  BY <1>3, <1>6
<1>8. PICK p : p = [t \in T |-> Cardinality(before(t)) + 1]
  OBVIOUS
<1>9. p \in Injection(T, 1..c)
  <2>1. p \in [T -> 1..c]
    BY <1>5, <1>8
  <2>2. ASSUME NEW s \in T, NEW t \in T, p[s] = p[t] PROVE s = t
    BY <1>5, <1>7, <1>8, <2>2
  <2> QED BY <2>1, <2>2 DEF Injection, IsInjective
<1>10. IsFiniteSet(1..c) /\ Cardinality(1..c) = c
  BY FS_Interval
<1>11. p \in Surjection(T, 1..c)
  BY <1>4, <1>9, <1>10, FS_Injection
<1>12. PICK t \in T : p[t] = n
  BY <1>4, <1>11 DEF Surjection
<1>13. Cardinality(before(t)) = n - 1
  BY <1>5, <1>8, <1>12
<1> QED BY <1>13 DEF before, TakesPlace

LEMMA OrderedIsSequence ==
  ASSUME NEW T, IsFiniteSet(T), \A t \in T : t.index \in Nat, \A s, t \in T : s.index = t.index => s = t
  PROVE  InStepOrder(T) \in Seq(T)
<1>1. PICK key : key = [t \in T |-> t.index]
  OBVIOUS
<1>2. PICK c \in Nat : c = Cardinality(T)
  BY FS_CardinalityType
<1> DEFINE nth(n) == CHOOSE t \in T : Cardinality({u \in T : u.index < t.index}) = n - 1
<1>3. InStepOrder(T) = [n \in 1..c |-> nth(n)]
  BY <1>2 DEF InStepOrder
<1>4. ASSUME NEW n \in 1..c PROVE nth(n) \in T
  <2>1. key \in [T -> Nat] /\ \A s, t \in T : key[s] = key[t] => s = t
    BY <1>1
  <2>2. \E t \in T : Cardinality({u \in T : key[u] < key[t]}) = n - 1
    <3>1. n \in 1..Cardinality(T)
      BY <1>2
    <3>2. TakesPlace(T, key, n)
      BY ONLY IsFiniteSet(T), <2>1, <3>1, PlacesAreTaken
    <3> QED BY <3>2 DEF TakesPlace
  <2>3. \A t \in T : {u \in T : key[u] < key[t]} = {u \in T : u.index < t.index}
    BY <1>1
  <2> QED BY <2>2, <2>3
<1> HIDE DEF nth
<1>5. InStepOrder(T) \in [1..c -> T]
  BY <1>3, <1>4
<1> QED BY <1>5

(* Every element picked out of a sequence is the one at some of the places.  *)
LEMMA PickedFromPlaces ==
  ASSUME NEW s, NEW places \in SUBSET Nat, IsFiniteSet(places), NEW n \in DOMAIN ElementsAt(s, places)
  PROVE  \E k \in places : ElementsAt(s, places)[n] = s[k]
<1>1. PICK key : key = [k \in places |-> k]
  OBVIOUS
<1>2. PICK c \in Nat : c = Cardinality(places)
  BY FS_CardinalityType
<1> DEFINE nth(i) == CHOOSE k \in places : Cardinality({j \in places : j < k}) = i - 1
<1>3. ElementsAt(s, places) = [i \in 1..c |-> s[nth(i)]]
  BY <1>2 DEF ElementsAt
<1>4. n \in 1..c
  BY <1>3
<1>5. nth(n) \in places
  <2>1. key \in [places -> Nat] /\ \A j, k \in places : key[j] = key[k] => j = k
    BY <1>1
  <2>2. \E k \in places : Cardinality({j \in places : key[j] < key[k]}) = n - 1
    <3>1. n \in 1..Cardinality(places)
      BY <1>2, <1>4
    <3>2. TakesPlace(places, key, n)
      BY ONLY IsFiniteSet(places), <2>1, <3>1, PlacesAreTaken
    <3> QED BY <3>2 DEF TakesPlace
  <2>3. \A k \in places : {j \in places : key[j] < key[k]} = {j \in places : j < k}
    BY <1>1
  <2> QED BY <2>2, <2>3
<1> HIDE DEF nth
<1> QED BY <1>3, <1>4, <1>5

(* What is read back of a finalised episode can be exported.                 *)
LEMMA FinalisedIsWhole ==
  ASSUME StoredRows(marl), EpisodeReadable, marl.status \in {"COMPLETE", "INCOMPLETE"}
  PROVE  Whole(Episode(marl), TransitionsIn(marl.records))
<1> DEFINE closed == TransitionsIn(marl.records)
<1>1. PICK e : e = Episode(marl)
  OBVIOUS
<1>2. /\ e = [status |-> marl.status, marker |-> marl.marker, pending |-> Pending(marl.records),
              transitions |-> InStepOrder(closed)]
  BY <1>1 DEF Episode
<1>3. Lifecycle(e)
  BY <1>1 DEF EpisodeReadable
<1>4. \A t \in closed : t \in marl.records /\ t.kind = "TRANSITION" /\ StoredTransition(t)
  BY DEF TransitionsIn, StoredRows, StoredBoundary
<1>5. e.transitions \in Seq(closed)
  <2>1. closed \in SUBSET marl.records
    BY <1>4
  <2>2. IsFiniteSet(closed)
    BY <2>1, FS_Subset DEF StoredRows
  <2>3. \A t \in closed : t.index \in Nat
    BY <1>4 DEF StoredTransition
  <2>4. \A s, t \in closed : s.index = t.index => s = t
    BY <1>4 DEF StoredRows
  <2> HIDE DEF closed
  <2> QED BY <1>2, <2>2, <2>3, <2>4, OrderedIsSequence
<1>6. e.pending # NoRecord => StoredBoundary(e.pending) /\ e.pending.index = Len(e.transitions)
  <2>1. e.pending = Pending(marl.records) /\ Len(e.transitions) = Decided(marl)
    <3>1. Len(Episode(marl).transitions) = Decided(marl)
      BY OpenDecision
    <3> QED BY <1>1, <1>2, <3>1
  <2> QED BY <2>1, OpenDecision
<1>7. e.marker # NoRecord => StoredMarker(e.marker)
  BY <1>2 DEF StoredRows
<1>8. e.status \in {"COMPLETE", "INCOMPLETE"}
  BY <1>2
<1>9. e = [status |-> e.status, marker |-> e.marker, pending |-> e.pending, transitions |-> e.transitions]
  BY <1>2
<1> HIDE DEF closed
<1>10. Whole(e, closed)
  BY <1>3, <1>4, <1>5, <1>6, <1>7, <1>8, <1>9 DEF Whole
<1> QED BY <1>1, <1>10 DEF closed

LEMMA TypesOfRows ==
  MarlInv /\ RowsInv => MarlTypeOK
<1> SUFFICES ASSUME MarlInv, RowsInv PROVE MarlTypeOK
  OBVIOUS
<1>1. StoredRows(marl)
  BY DEF RowsInv
<1>2. marl.status \in EpisodeStatuses /\ \A r, s \in marl.records : r.kind = s.kind /\ r.index = s.index => r = s
  BY <1>1 DEF StoredRows
<1>3. \A r \in marl.records : \/ r.kind = "DECISION_BOUNDARY" /\ DecisionShape(r.decision)
                              \/ r.kind = "TRANSITION" /\ TransitionShape(r)
  BY <1>1 DEF StoredRows, StoredBoundary, StoredTransition
<1>4. \A w \in Writers : trajectoryTx[w].op \in {"idle", "written"} \cup TrajectoryOperations
  BY MarlParts
<1> QED BY <1>2, <1>3, <1>4 DEF MarlTypeOK

LEMMA MarlAlways == MarlSpec => [](MarlInv /\ RowsInv)
<1>1. MarlInit => MarlInv /\ RowsInv
  BY MarlInitial, RowsInitial
<1>2. MarlInv /\ RowsInv /\ [MarlNext]_marlVars => (MarlInv /\ RowsInv)'
  BY MarlStep, RowsStep
<1> QED BY <1>1, <1>2, PTL DEF MarlSpec

(* The types of the trajectory: a decision has one row of each kind, and the *)
(* rows are those the closed schemas accept.                                 *)
THEOREM MarlTyping == MarlSpec => []MarlTypeOK
BY MarlAlways, TypesOfRows, PTL

(* An episode that has ended exports to a bundle the verifier calls          *)
(* authentic exactly when a decision in it was closed and its observations   *)
(* are of the episode's environment, VERIFIED exactly when besides it is     *)
(* complete and replays. Rewritten, the bundle is not authentic, if what is  *)
(* rewritten is a record whose hash is computed again or that comes with     *)
(* hashes of its own, the order or the number of the records, or the         *)
(* encoding of the manifest. Of the marker of an episode with no decision    *)
(* open, and of the implementations in the manifest, it says nothing: the    *)
(* verifier does not check them (export_episode and verify_bundle, over what *)
(* the store keeps).                                                         *)
THEOREM VerdictsAreExact == MarlSpec => []VerdictIsExact
<1>1. MarlInv /\ RowsInv => VerdictIsExact
  <2> SUFFICES ASSUME MarlInv, RowsInv, marl.status \in {"COMPLETE", "INCOMPLETE"}
               PROVE  LET e == Episode(marl)
                          b == ExportEpisode(e)
                      IN /\ IntegrityValid(VerifyBundle(b)) <=> e.transitions # <<>> /\ EnvironmentAgrees(b)
                         /\ VerifyBundle(b) = "VERIFIED" <=>
                              e.status = "COMPLETE" /\ EnvironmentAgrees(b) /\ ReplayFailure(e.transitions) = "none"
                         /\ e.transitions # <<>> => \A d \in Rewritten(b) : ~IntegrityValid(VerifyBundle(d))
    BY DEF VerdictIsExact
  <2>1. Whole(Episode(marl), TransitionsIn(marl.records))
    BY FinalisedIsWhole DEF MarlInv, RowsInv
  <2> QED BY <2>1, VerdictsOnExport
<1> QED BY <1>1, MarlAlways, PTL

(* No authentic bundle tells another story under the hash of an episode: its *)
(* status, its transitions and the decision left open are the episode's,     *)
(* whatever was done to the file (verify_bundle, the recomputed hashes).     *)
THEOREM HashIdentifiesEpisode ==
  ASSUME NEW d, Len(d.lines) \in Nat, DOMAIN d.lines = 1..Len(d.lines), IntegrityValid(VerifyBundle(d)),
         NEW e, d.manifest.hash = ExportEpisode(e).manifest.hash
  PROVE  /\ Rebuilt(d).status = e.status /\ Rebuilt(d).transitions = e.transitions
         /\ Rebuilt(d).pending = e.pending
<1>1. Authentic(d)
  BY StagesInOrder
<1>2. d.manifest.hash = EpisodeHash(e.status, EpisodeEnvironment, EpisodeScope, e.transitions, e.pending, e.marker)
  BY DEF ExportEpisode
<1> DEFINE bs == OfKind(d, "DECISION_BOUNDARY")
           ts == OfKind(d, "TRANSITION")
<1>3. /\ d.manifest.status = e.status /\ [n \in DOMAIN ts |-> ts[n].sealed] = e.transitions
      /\ bs # <<>> => bs[1].sealed = e.pending
      /\ bs = <<>> => e.pending = NoRecord
  BY <1>1, <1>2, HashBinds
<1>4. ASSUME NEW kind \in {"TRANSITION", "DECISION_BOUNDARY"}, NEW n \in DOMAIN OfKind(d, kind)
      PROVE  OfKind(d, kind)[n].record = OfKind(d, kind)[n].sealed
  <2>1. PICK places : places = {k \in DOMAIN d.lines : d.lines[k].record.kind = kind}
    OBVIOUS
  <2>2. places \in SUBSET Nat /\ IsFiniteSet(places)
    <3>1. IsFiniteSet(1..Len(d.lines))
      BY PlacesAreFinite
    <3>2. places \in SUBSET (1..Len(d.lines))
      BY <2>1
    <3>3. IsFiniteSet(places)
      BY <3>1, <3>2, FS_Subset
    <3> QED BY <3>2, <3>3
  <2>3. PICK k \in places : OfKind(d, kind)[n] = d.lines[k]
    <3>1. OfKind(d, kind) = ElementsAt(d.lines, places)
      BY <2>1 DEF OfKind
    <3>2. n \in DOMAIN ElementsAt(d.lines, places)
      BY <1>4, <3>1
    <3> QED BY <2>2, <3>1, <3>2, PickedFromPlaces
  <2>4. d.lines[k].record.kind = kind /\ k \in DOMAIN d.lines
    BY <2>1, <2>3
  <2>5. HashesHold(d)
    BY <1>1 DEF Authentic
  <2> QED BY <2>3, <2>4, <2>5 DEF HashesHold
<1>5. Rebuilt(d).status = d.manifest.status
      /\ Rebuilt(d).transitions = [n \in DOMAIN ts |-> ts[n].record]
      /\ Rebuilt(d).pending = IF bs = <<>> THEN NoRecord ELSE bs[1].record
  BY DEF Rebuilt
<1>6. [n \in DOMAIN ts |-> ts[n].record] = [n \in DOMAIN ts |-> ts[n].sealed]
  BY <1>4
<1>7. bs # <<>> => 1 \in DOMAIN bs
  <2>1. PICK c \in Nat : DOMAIN bs = 1..c /\ bs = [n \in 1..c |-> bs[n]]
    BY KindIsSequence
  <2>2. 1..c = {} \/ 1 \in 1..c
    OBVIOUS
  <2>3. DOMAIN bs = {} => bs = <<>>
    BY <2>1
  <2> QED BY <2>1, <2>2, <2>3
<1>8. bs # <<>> => bs[1].record = bs[1].sealed
  BY <1>4, <1>7
<1> HIDE DEF bs, ts
<1> QED BY <1>3, <1>5, <1>6, <1>8
-----------------------------------------------------------------------------
(* The replays.                                                              *)

(* What a replay collects. *)
Executions == (UNION {Implementations[k].outcomes : k \in DOMAIN Implementations}) \cup {[recorded |-> TRUE]}
Told == Nat \X {"IMPLEMENTATION", "OUTPUT", "STATUS", "TIMING_SENSITIVE"}

(* What strict replay makes of a step, whoever asks and whenever. *)
PassesStrictly(step) ==
  \/ step.policy = "RECORDED"
  \/ \E i \in Resolve(step.implementation) :
       Reproducible(i) /\ \E x \in i.outcomes : SameExecution(step, x)

FailsStrictly(step, reason) ==
  /\ step.policy # "RECORDED"
  /\ \/ Resolve(step.implementation) = {} /\ reason = "UNKNOWN_IMPLEMENTATION"
     \/ \E i \in Resolve(step.implementation) :
          ~Reproducible(i) /\ reason = "NONDETERMINISTIC_IMPLEMENTATION"
     \/ \E i \in Resolve(step.implementation) : \E x \in i.outcomes :
          Reproducible(i) /\ ~SameExecution(step, x) /\ reason = StrictFailure(step, x)

FailsAt(d, n, reason) ==
  /\ n \in DOMAIN d.steps /\ FailsStrictly(d.steps[n], reason)
  /\ \A k \in 1..(n - 1) : PassesStrictly(d.steps[k])

(* The verdict of a strict replay as a function of the document. *)
StrictVerdict(d, outcome, reason) ==
  IF MarlFailure(d) # "none" THEN outcome = "FAILED" /\ reason = MarlFailure(d)
  ELSE \/ /\ outcome = "VERIFIED" /\ reason = "none"
          /\ \A n \in DOMAIN d.steps : PassesStrictly(d.steps[n])
       \/ outcome = "FAILED" /\ \E n \in DOMAIN d.steps : FailsAt(d, n, reason)

LEMMA OneResolves ==
  ASSUME NEW identity, NEW i \in Resolve(identity), NEW j \in Resolve(identity)
  PROVE  i = j /\ (Reproducible(i) => \A x, y \in i.outcomes : x = y)
BY DeterministicRunsAgree DEF Resolve, Reproducible

LEMMA StepIsSettled ==
  ASSUME NEW step, NEW reason, FailsStrictly(step, reason)
  PROVE  ~PassesStrictly(step) /\ \A other : FailsStrictly(step, other) => other = reason
<1>1. step.policy # "RECORDED"
  BY DEF FailsStrictly
<1>2. \A i, j \in Resolve(step.implementation) :
        i = j /\ (Reproducible(i) => \A x, y \in i.outcomes : x = y)
  BY OneResolves
<1>3. CASE Resolve(step.implementation) = {}
  BY <1>1, <1>3 DEF FailsStrictly, PassesStrictly
<1>4. ASSUME NEW i \in Resolve(step.implementation), ~Reproducible(i)
      PROVE  ~PassesStrictly(step) /\ \A other : FailsStrictly(step, other) => other = reason
  BY <1>1, <1>2, <1>4 DEF FailsStrictly, PassesStrictly
<1>5. ASSUME NEW i \in Resolve(step.implementation), Reproducible(i)
      PROVE  ~PassesStrictly(step) /\ \A other : FailsStrictly(step, other) => other = reason
  <2>1. PICK x \in i.outcomes : ~SameExecution(step, x) /\ reason = StrictFailure(step, x)
    BY <1>2, <1>5 DEF FailsStrictly
  <2>2. \A y \in i.outcomes : y = x
    BY <1>2, <1>5
  <2> QED BY <1>1, <1>2, <1>5, <2>1, <2>2 DEF FailsStrictly, PassesStrictly
<1> QED BY <1>3, <1>4, <1>5

(* Two strict verdicts on a document are the same. *)
LEMMA OneVerdict ==
  ASSUME NEW d \in Documents, NEW o1, NEW o2, NEW r1, NEW r2,
         StrictVerdict(d, o1, r1), StrictVerdict(d, o2, r2)
  PROVE  o1 = o2 /\ r1 = r2
<1>1. Len(d.steps) \in Nat /\ DOMAIN d.steps = 1..Len(d.steps)
  BY DocumentsAreValid
<1>2. CASE MarlFailure(d) # "none"
  BY <1>2 DEF StrictVerdict
<1>3. CASE MarlFailure(d) = "none"
  <2>1. ASSUME NEW m \in DOMAIN d.steps, NEW r, FailsAt(d, m, r) PROVE ~PassesStrictly(d.steps[m])
    BY <2>1, StepIsSettled DEF FailsAt
  <2>2. ASSUME NEW n \in DOMAIN d.steps, NEW m \in DOMAIN d.steps, FailsAt(d, n, r1), FailsAt(d, m, r2)
        PROVE  r1 = r2
    <3>1. n \in Nat /\ m \in Nat /\ n >= 1 /\ m >= 1
      BY <1>1
    <3>2. ~(n < m)
      <4> SUFFICES ASSUME n < m PROVE FALSE
        OBVIOUS
      <4>1. n \in 1..(m - 1)
        BY <3>1
      <4> QED BY <2>1, <2>2, <4>1 DEF FailsAt
    <3>3. ~(m < n)
      <4> SUFFICES ASSUME m < n PROVE FALSE
        OBVIOUS
      <4>1. m \in 1..(n - 1)
        BY <3>1
      <4> QED BY <2>1, <2>2, <4>1 DEF FailsAt
    <3>4. n = m
      BY <3>1, <3>2, <3>3
    <3> QED BY <2>2, <3>4, StepIsSettled DEF FailsAt
  <2> QED BY <1>3, <2>1, <2>2 DEF StrictVerdict
<1> QED BY <1>2, <1>3

(* A replay under way reads the document the row names and will name; what   *)
(* it has executed agrees with the document, or is told as a difference.     *)
UnderWay(job) ==
  /\ job \in HistoricalReplays
  /\ manifestRow.status = "FINALIZED" /\ manifestRow.document = job.document
  /\ job.request.digest = job.document
  /\ job.request.mode = "STRICT" => job.request.selections = <<>>
  /\ job.stage = "loaded" => job.executed = <<>>
  /\ job.stage = "verified" => MarlFailure(job.document) = "none"
  /\ \A n \in 1..Len(job.executed) :
       /\ n \in DOMAIN job.document.steps
       /\ \/ job.document.steps[n].policy = "RECORDED"
          \/ SameExecution(job.document.steps[n], job.executed[n])
          \/ job.request.mode # "STRICT" /\ job.differences # {}
       /\ job.request.mode = "STRICT" => PassesStrictly(job.document.steps[n])

Settles(job) ==
  /\ job.stage = "done"
  /\ job.outcome \in {"VERIFIED", "MATCHED"} =>
       /\ manifestRow.status = "FINALIZED" /\ manifestRow.document = job.digest
       /\ Reproduces(job.digest, job.executed)
  /\ job.mode = "STRICT" /\ job.reason \notin {"LEDGER_MISMATCH", "HISTORICAL_REPLAY_UNAVAILABLE"} =>
       /\ manifestRow.status = "FINALIZED" /\ manifestRow.document = job.digest
       /\ StrictVerdict(job.digest, job.outcome, job.reason)

(* The inductive invariant. *)
ReplayInv ==
  /\ manifestRow \in ManifestRows /\ objects \subseteq Documents /\ ledgerLength \in 0..MaxLedger
  /\ manifestRow.status = "FINALIZED" => manifestRow.document \in objects
  /\ finalizing \in [Finalizers -> Finalizations]
  /\ \A f \in Finalizers : finalizing[f].stage = "stored" => finalizing[f].document \in objects
  /\ DOMAIN replaying = Replays
  /\ \A r \in Replays : replaying[r] = Free \/ UnderWay(replaying[r]) \/ Settles(replaying[r])

LEMMA ReplayInitial == ReplayInit => ReplayInv
BY DocumentsAreValid DEF ReplayInit, ReplayInv, ManifestRows, Finalizations, Free

(* A finalised row is immutable, so a step of the manifest, the objects or   *)
(* the ledger disturbs no replay.                                            *)
LEMMA ManifestMoves ==
  ASSUME ReplayInv, UNCHANGED replaying, manifestRow.status = "FINALIZED" => manifestRow' = manifestRow,
         manifestRow' \in ManifestRows, objects' \subseteq Documents, ledgerLength' \in 0..MaxLedger,
         manifestRow'.status = "FINALIZED" => manifestRow'.document \in objects',
         finalizing' \in [Finalizers -> Finalizations],
         \A f \in Finalizers : finalizing'[f].stage = "stored" => finalizing'[f].document \in objects'
  PROVE  ReplayInv'
<1>1. \A r \in Replays : (replaying[r] = Free \/ UnderWay(replaying[r]) \/ Settles(replaying[r]))'
  <2> SUFFICES ASSUME NEW r \in Replays
               PROVE  (replaying[r] = Free \/ UnderWay(replaying[r]) \/ Settles(replaying[r]))'
    OBVIOUS
  <2>1. CASE replaying[r] = Free
    BY <2>1
  <2>2. CASE UnderWay(replaying[r])
    BY <2>2 DEF UnderWay
  <2>3. CASE Settles(replaying[r])
    BY <2>3 DEF Settles
  <2> QED BY <2>1, <2>2, <2>3 DEF ReplayInv
<1> QED BY <1>1 DEF ReplayInv

LEMMA ManifestStep ==
  ASSUME ReplayInv,
         \/ CreateManifest \/ AppendToLedger
         \/ \E f \in Finalizers : \/ \E d \in Documents : BeginFinalize(f, d)
                                  \/ PutDocument(f) \/ FinishFinalize(f) \/ LoseFinalize(f)
  PROVE  ReplayInv'
<1>1. CASE CreateManifest
  BY <1>1, ManifestMoves DEF CreateManifest, ReplayInv, ManifestRows
<1>2. CASE AppendToLedger
  BY <1>2, DocumentsAreValid, ManifestMoves DEF AppendToLedger, ReplayInv
<1>3. ASSUME NEW f \in Finalizers, NEW d \in Documents, BeginFinalize(f, d) PROVE ReplayInv'
  <2> DEFINE job == [stage |-> "locked", document |-> d]
  <2>1. job \in Finalizations /\ job.stage = "locked"
    BY DEF Finalizations
  <2>2. finalizing' = [finalizing EXCEPT ![f] = job] /\ UNCHANGED <<manifestRow, objects, ledgerLength, replaying>>
    BY <1>3 DEF BeginFinalize
  <2> HIDE DEF job
  <2> QED BY <2>1, <2>2, ManifestMoves DEF ReplayInv
<1>4. ASSUME NEW f \in Finalizers, PutDocument(f) PROVE ReplayInv'
  <2> DEFINE job == [finalizing[f] EXCEPT !.stage = "stored"]
  <2>1. finalizing[f] \in Finalizations /\ finalizing[f].stage = "locked"
    BY <1>4 DEF PutDocument, ReplayInv
  <2>2. /\ job \in Finalizations /\ job.document = finalizing[f].document
        /\ finalizing[f].document \in Documents
    BY <2>1 DEF Finalizations, Free
  <2>3. /\ finalizing' = [finalizing EXCEPT ![f] = job]
        /\ objects' = objects \cup {finalizing[f].document} /\ UNCHANGED <<manifestRow, ledgerLength, replaying>>
    BY <1>4 DEF PutDocument, ReplayInv
  <2> HIDE DEF job
  <2> QED BY <2>2, <2>3, ManifestMoves DEF ReplayInv
<1>5. ASSUME NEW f \in Finalizers, FinishFinalize(f) PROVE ReplayInv'
  <2>1. /\ finalizing[f] \in Finalizations /\ finalizing[f].stage = "stored" /\ Free \in Finalizations
        /\ finalizing[f].document \in objects /\ manifestRow \in ManifestRows
    BY <1>5 DEF FinishFinalize, ReplayInv, Finalizations
  <2>2. /\ finalizing' = [finalizing EXCEPT ![f] = Free] /\ Free.stage = "idle"
        /\ UNCHANGED <<objects, ledgerLength, replaying>>
    BY <1>5 DEF FinishFinalize, Free
  <2>3. /\ finalizing' \in [Finalizers -> Finalizations]
        /\ \A g \in Finalizers : finalizing'[g].stage = "stored" => finalizing'[g].document \in objects'
    BY <2>1, <2>2 DEF ReplayInv
  <2>4. /\ manifestRow' \in ManifestRows
        /\ manifestRow.status = "FINALIZED" => manifestRow' = manifestRow
        /\ manifestRow'.status = "FINALIZED" => manifestRow'.document \in objects'
    <3>1. CASE StillCreated
      <4>1. manifestRow.status = "CREATED" /\ manifestRow.pins = Pins
        BY <2>1, <3>1 DEF StillCreated, ManifestRows
      <4>2. manifestRow' = [status |-> "FINALIZED", pins |-> Pins, document |-> finalizing[f].document]
        BY <1>5, <3>1, <4>1 DEF FinishFinalize
      <4>3. finalizing[f].document \in Documents
        BY <2>1 DEF ReplayInv
      <4> QED BY <2>1, <2>2, <4>1, <4>2, <4>3 DEF ManifestRows
    <3>2. CASE ~StillCreated
      BY <1>5, <2>1, <2>2, <3>2 DEF FinishFinalize, ReplayInv
    <3> QED BY <3>1, <3>2
  <2> QED BY <2>2, <2>3, <2>4, ManifestMoves DEF ReplayInv
<1>6. ASSUME NEW f \in Finalizers, LoseFinalize(f) PROVE ReplayInv'
  <2>1. Free \in Finalizations /\ Free.stage = "idle"
    BY DEF Finalizations, Free
  <2> QED BY <1>6, <2>1, ManifestMoves DEF LoseFinalize, ReplayInv
<1> QED BY <1>1, <1>2, <1>3, <1>4, <1>5, <1>6

LEMMA OneReplayMoves ==
  ASSUME ReplayInv, NEW r \in Replays, NEW job, replaying' = [replaying EXCEPT ![r] = job],
         UNCHANGED <<manifestRow, objects, ledgerLength, finalizing>>, UnderWay(job) \/ Settles(job)
  PROVE  ReplayInv'
<1>1. /\ DOMAIN replaying' = Replays /\ replaying'[r] = job
      /\ \A s \in Replays : s # r => replaying'[s] = replaying[s]
  BY DEF ReplayInv
<1>2. ASSUME NEW s \in Replays
      PROVE  (replaying[s] = Free \/ UnderWay(replaying[s]) \/ Settles(replaying[s]))'
  <2>1. replaying'[s] = Free \/ UnderWay(replaying'[s]) \/ Settles(replaying'[s])
    BY <1>1 DEF ReplayInv
  <2> QED BY <2>1 DEF UnderWay, Settles
<1> QED BY <1>1, <1>2 DEF ReplayInv

LEMMA ResultFields ==
  ASSUME NEW request, NEW outcome, NEW reason, NEW differences, NEW executed
  PROVE  LET job == Result(request, outcome, reason, differences, executed)
         IN /\ job.stage = "done" /\ job.mode = request.mode /\ job.digest = request.digest
            /\ job.outcome = outcome /\ job.reason = reason /\ job.executed = executed
BY DEF Result

(* A failure is the verdict of the document, or is not one. *)
LEMMA FailureSettles ==
  ASSUME NEW request, NEW reason, NEW executed,
         request.mode = "STRICT" /\ reason \notin {"LEDGER_MISMATCH", "HISTORICAL_REPLAY_UNAVAILABLE"} =>
           /\ manifestRow.status = "FINALIZED" /\ manifestRow.document = request.digest
           /\ StrictVerdict(request.digest, "FAILED", reason)
  PROVE  Settles(Failed(request, reason, executed))
<1> DEFINE job == Failed(request, reason, executed)
<1>1. /\ job.stage = "done" /\ job.mode = request.mode /\ job.digest = request.digest
      /\ job.outcome = "FAILED" /\ job.reason = reason
  BY ResultFields DEF Failed
<1> HIDE DEF job
<1>2. Settles(job)
  BY <1>1 DEF Settles
<1> QED BY <1>2 DEF job

LEMMA LoadStep ==
  ASSUME ReplayInv, NEW r \in Replays, NEW request \in ReplayRequests, LoadHistory(r, request)
  PROVE  ReplayInv'
<1> DEFINE fresh == [stage |-> "loaded", request |-> request, document |-> manifestRow.document,
                     events |-> ledgerLength, executed |-> <<>>, differences |-> {}]
           absent == Failed(request, "HISTORICAL_REPLAY_UNAVAILABLE", <<>>)
           outside == Failed(request, "MANIFEST_MISMATCH", <<>>)
<1>1. /\ UNCHANGED <<manifestRow, objects, ledgerLength, finalizing>> /\ RequestShape(request)
      /\ manifestRow \in ManifestRows /\ ledgerLength \in 0..MaxLedger
      /\ manifestRow.status = "FINALIZED" => manifestRow.document \in Documents
  BY DEF LoadHistory, ReplayInv
<1>2. CASE replaying' = [replaying EXCEPT ![r] = absent]
  <2>1. Settles(absent)
    BY FailureSettles
  <2> HIDE DEF absent
  <2> QED BY <1>1, <1>2, <2>1, OneReplayMoves
<1>3. CASE /\ ~(DOMAIN request.selections \subseteq DOMAIN manifestRow.document.steps)
           /\ replaying' = [replaying EXCEPT ![r] = outside]
  <2>1. request.mode # "STRICT"
    <3> SUFFICES ASSUME request.mode = "STRICT" PROVE FALSE
      OBVIOUS
    <3>1. request.selections = <<>> /\ DOMAIN <<>> = {}
      BY <1>1 DEF RequestShape
    <3> QED BY <1>3, <3>1
  <2>2. Settles(outside)
    BY <2>1, FailureSettles
  <2> HIDE DEF outside
  <2> QED BY <1>1, <1>3, <2>2, OneReplayMoves
<1>4. CASE /\ manifestRow.status = "FINALIZED" /\ manifestRow.document = request.digest
           /\ replaying' = [replaying EXCEPT ![r] = fresh]
  <2>1. <<>> \in Seq(Executions) /\ {} \in SUBSET Told
    OBVIOUS
  <2>2. fresh \in HistoricalReplays
    BY <1>1, <1>4, <2>1 DEF HistoricalReplays, Executions, Told
  <2>3. /\ fresh.stage = "loaded" /\ fresh.request = request /\ fresh.document = manifestRow.document
        /\ fresh.executed = <<>> /\ Len(<<>>) = 0
    OBVIOUS
  <2> HIDE DEF fresh
  <2>4. UnderWay(fresh)
    BY <1>1, <1>4, <2>2, <2>3 DEF UnderWay, RequestShape
  <2> QED BY <1>1, <1>4, <2>4, OneReplayMoves
<1> QED BY <1>2, <1>3, <1>4 DEF LoadHistory

LEMMA VerifyStep == ASSUME ReplayInv, NEW r \in Replays, VerifyHistory(r) PROVE ReplayInv'
<1> DEFINE job == replaying[r]
           moved == Failed(job.request, "LEDGER_MISMATCH", <<>>)
           failure == Failed(job.request, MarlFailure(job.document), <<>>)
           verified == [job EXCEPT !.stage = "verified"]
<1>1. job.stage = "loaded" /\ UNCHANGED <<manifestRow, objects, ledgerLength, finalizing>>
  BY DEF VerifyHistory
<1>2. UnderWay(job)
  BY <1>1 DEF ReplayInv, Free, Settles
<1>3. CASE replaying' = [replaying EXCEPT ![r] = moved]
  <2>1. Settles(moved)
    BY FailureSettles
  <2> HIDE DEF moved
  <2> QED BY <1>1, <1>3, <2>1, OneReplayMoves
<1>4. CASE MarlFailure(job.document) # "none" /\ replaying' = [replaying EXCEPT ![r] = failure]
  <2>1. StrictVerdict(job.request.digest, "FAILED", MarlFailure(job.document))
    BY <1>2, <1>4 DEF StrictVerdict, UnderWay
  <2>2. Settles(failure)
    BY <1>2, <2>1, FailureSettles DEF UnderWay
  <2> HIDE DEF failure
  <2> QED BY <1>1, <1>4, <2>2, OneReplayMoves
<1>5. CASE MarlFailure(job.document) = "none" /\ replaying' = [replaying EXCEPT ![r] = verified]
  <2>1. job \in HistoricalReplays
    BY <1>2 DEF UnderWay
  <2>2. /\ verified \in HistoricalReplays /\ verified.stage = "verified" /\ verified.request = job.request
        /\ verified.document = job.document /\ verified.executed = job.executed
        /\ verified.differences = job.differences
    BY <2>1 DEF HistoricalReplays
  <2> HIDE DEF verified
  <2>3. UnderWay(verified)
    BY <1>2, <1>5, <2>2 DEF UnderWay
  <2> QED BY <1>1, <1>5, <2>3, OneReplayMoves
<1> QED BY <1>3, <1>4, <1>5 DEF VerifyHistory

(* A replay that has passed one more step. *)
LEMMA PassedIsUnderWay ==
  ASSUME NEW job, UnderWay(job), job.stage = "verified", Position(job) \in DOMAIN job.document.steps,
         NEW execution \in Executions, NEW differences \in SUBSET Told,
         \/ job.document.steps[Position(job)].policy = "RECORDED"
         \/ SameExecution(job.document.steps[Position(job)], execution)
         \/ job.request.mode # "STRICT" /\ differences # {},
         job.request.mode = "STRICT" => PassesStrictly(job.document.steps[Position(job)])
  PROVE  UnderWay([job EXCEPT !.executed = Append(@, execution), !.differences = @ \cup differences])
<1> DEFINE longer == Append(job.executed, execution)
           more == job.differences \cup differences
           passed == [job EXCEPT !.executed = longer, !.differences = more]
           n == Position(job)
<1>1. job \in HistoricalReplays /\ execution \in Executions
  BY DEF UnderWay
<1>2. job.executed \in Seq(Executions)
  BY <1>1 DEF HistoricalReplays, Executions
<1>3. /\ longer \in Seq(Executions) /\ Len(longer) = Len(job.executed) + 1 /\ Len(job.executed) \in Nat
      /\ \A i \in 1..Len(job.executed) : longer[i] = job.executed[i]
      /\ longer[Len(job.executed) + 1] = execution
  BY <1>1, <1>2, AppendProperties
<1>4. n = Len(job.executed) + 1
  BY DEF Position
<1>5. more \in SUBSET Told
  BY <1>1 DEF HistoricalReplays, Told
<1>6. more # {} <=> job.differences # {} \/ differences # {}
  OBVIOUS
<1> HIDE DEF longer, more, n
<1>7. /\ passed \in HistoricalReplays /\ passed.stage = job.stage /\ passed.request = job.request
      /\ passed.document = job.document /\ passed.executed = longer /\ passed.differences = more
  BY <1>1, <1>3, <1>5 DEF HistoricalReplays, Executions, Told
<1>8. \A i \in 1..Len(longer) : i = n \/ i \in 1..Len(job.executed)
  BY <1>3, <1>4
<1> HIDE DEF passed
<1>9. ASSUME NEW i \in 1..Len(passed.executed)
      PROVE  /\ i \in DOMAIN passed.document.steps
             /\ \/ passed.document.steps[i].policy = "RECORDED"
                \/ SameExecution(passed.document.steps[i], passed.executed[i])
                \/ passed.request.mode # "STRICT" /\ passed.differences # {}
             /\ passed.request.mode = "STRICT" => PassesStrictly(passed.document.steps[i])
  <2>1. CASE i = n
    BY <1>3, <1>4, <1>6, <1>7, <2>1 DEF n
  <2>2. CASE i \in 1..Len(job.executed)
    BY <1>3, <1>6, <1>7, <2>2 DEF UnderWay
  <2> QED BY <1>7, <1>8, <2>1, <2>2
<1>10. UnderWay(passed)
  BY <1>7, <1>9 DEF UnderWay
<1> QED BY <1>10 DEF passed, longer, more

LEMMA DifferencesAreTold ==
  ASSUME NEW n \in Nat, NEW step, NEW execution
  PROVE  /\ Differences(n, step, execution) \in SUBSET Told
         /\ SameExecution(step, execution) \/ Differences(n, step, execution) # {}
<1> DEFINE a == IF execution.implementation # step.implementation THEN {"IMPLEMENTATION"} ELSE {}
           b == IF execution.output # step.output THEN {"OUTPUT"} ELSE {}
           c == IF execution.status # step.status
                THEN {IF step.timing THEN "TIMING_SENSITIVE" ELSE "STATUS"} ELSE {}
           fields == a \cup b \cup c
<1>1. fields \subseteq {"IMPLEMENTATION", "OUTPUT", "STATUS", "TIMING_SENSITIVE"}
  OBVIOUS
<1>2. SameExecution(step, execution) \/ fields # {}
  BY DEF SameExecution
<1>3. Differences(n, step, execution) = {<<n, field>> : field \in fields}
  BY DEF Differences
<1> HIDE DEF fields
<1>4. \A field \in fields : <<n, field>> \in Told
  BY <1>1 DEF Told
<1> QED BY <1>2, <1>3, <1>4

(* The replay of a document fails at the step where strict replay fails. *)
LEMMA FailsWhereItStands ==
  ASSUME NEW job, UnderWay(job), job.stage = "verified", Position(job) \in DOMAIN job.document.steps,
         NEW reason,
         job.request.mode = "STRICT" => FailsStrictly(job.document.steps[Position(job)], reason)
  PROVE  Settles(Failed(job.request, reason, job.executed))
<1> DEFINE n == Position(job)
<1>1. ASSUME job.request.mode = "STRICT"
      PROVE  StrictVerdict(job.request.digest, "FAILED", reason)
  <2>1. Len(job.executed) \in Nat /\ n = Len(job.executed) + 1
    BY DEF UnderWay, HistoricalReplays, Position
  <2>2. \A k \in 1..(n - 1) : k \in 1..Len(job.executed)
    BY <2>1
  <2>3. FailsAt(job.document, n, reason)
    BY <1>1, <2>2 DEF FailsAt, UnderWay
  <2> QED BY <2>3 DEF StrictVerdict, UnderWay
<1> QED BY <1>1, FailureSettles DEF UnderWay

LEMMA ExecuteStepHolds == ASSUME ReplayInv, NEW r \in Replays, ExecuteStep(r) PROVE ReplayInv'
<1> DEFINE job == replaying[r]
           n == Position(job)
           step == job.document.steps[n]
           strict == job.request.mode = "STRICT"
           identity == IF n \in DOMAIN job.request.selections THEN job.request.selections[n] ELSE step.implementation
           Passed(execution, differences) ==
             [job EXCEPT !.executed = Append(@, execution), !.differences = @ \cup differences]
<1>1. /\ job.stage = "verified" /\ n \in DOMAIN job.document.steps
      /\ UNCHANGED <<manifestRow, objects, ledgerLength, finalizing>>
  BY DEF ExecuteStep
<1>2. UnderWay(job)
  BY <1>1 DEF ReplayInv, Free, Settles
<1>3. n \in Nat
  BY <1>2 DEF UnderWay, HistoricalReplays, Position
<1>4. strict => identity = step.implementation
  BY <1>2 DEF UnderWay
<1>5. ASSUME NEW reason, strict => FailsStrictly(step, reason),
             replaying' = [replaying EXCEPT ![r] = Failed(job.request, reason, job.executed)]
      PROVE  ReplayInv'
  <2>1. Settles(Failed(job.request, reason, job.executed))
    BY <1>1, <1>2, <1>5, FailsWhereItStands
  <2> QED BY <1>1, <1>5, <2>1, OneReplayMoves
<1>6. CASE step.policy = "RECORDED" /\ replaying' = [replaying EXCEPT ![r] = Passed([recorded |-> TRUE], {})]
  <2>1. PassesStrictly(step)
    BY <1>6 DEF PassesStrictly
  <2>2. {} \in SUBSET Told /\ [recorded |-> TRUE] \in Executions
    BY DEF Executions
  <2>3. UnderWay(Passed([recorded |-> TRUE], {}))
    BY <1>1, <1>2, <1>6, <2>1, <2>2, PassedIsUnderWay
  <2> HIDE DEF Passed
  <2> QED BY <1>1, <1>6, <2>3, OneReplayMoves
<1>7. CASE /\ step.policy # "RECORDED" /\ Resolve(identity) = {}
           /\ replaying' = [replaying EXCEPT ![r] = Failed(job.request, "UNKNOWN_IMPLEMENTATION", job.executed)]
  BY <1>4, <1>5, <1>7 DEF FailsStrictly
<1>8. ASSUME NEW i \in Resolve(identity), step.policy # "RECORDED", strict, ~Reproducible(i),
             replaying' = [replaying EXCEPT ![r] = Failed(job.request, "NONDETERMINISTIC_IMPLEMENTATION", job.executed)]
      PROVE  ReplayInv'
  <2>1. FailsStrictly(step, "NONDETERMINISTIC_IMPLEMENTATION")
    BY <1>4, <1>8 DEF FailsStrictly
  <2> QED BY <1>5, <1>8, <2>1
<1>9. ASSUME NEW i \in Resolve(identity), NEW execution \in i.outcomes, step.policy # "RECORDED",
             strict => Reproducible(i),
             replaying' = [replaying EXCEPT ![r] =
               IF strict /\ ~SameExecution(step, execution)
               THEN Failed(job.request, StrictFailure(step, execution), job.executed)
               ELSE Passed(execution, Differences(n, step, execution))]
      PROVE  ReplayInv'
  <2>1. CASE strict /\ ~SameExecution(step, execution)
    <3>1. FailsStrictly(step, StrictFailure(step, execution))
      BY <1>4, <1>9, <2>1 DEF FailsStrictly
    <3> QED BY <1>5, <1>9, <2>1, <3>1
  <2>2. CASE ~(strict /\ ~SameExecution(step, execution))
    <3> DEFINE differences == Differences(n, step, execution)
    <3>1. /\ differences \in SUBSET Told
          /\ SameExecution(step, execution) \/ differences # {}
      BY <1>3, DifferencesAreTold
    <3>2. execution \in Executions
      BY <1>9 DEF Resolve, Executions
    <3>3. strict => PassesStrictly(step)
      BY <1>4, <1>9, <2>2 DEF PassesStrictly
    <3> HIDE DEF differences
    <3>4. UnderWay(Passed(execution, differences))
      BY <1>1, <1>2, <2>2, <3>1, <3>2, <3>3, PassedIsUnderWay
    <3>5. replaying' = [replaying EXCEPT ![r] = Passed(execution, differences)]
      BY <1>9, <2>2 DEF differences
    <3> HIDE DEF Passed
    <3> QED BY <1>1, <3>4, <3>5, OneReplayMoves
  <2> QED BY <2>1, <2>2
<1> QED BY <1>6, <1>7, <1>8, <1>9 DEF ExecuteStep

LEMMA FinishReplayStep == ASSUME ReplayInv, NEW r \in Replays, FinishReplay(r) PROVE ReplayInv'
<1> DEFINE job == replaying[r]
           d == job.document
           outcome == IF job.request.mode = "STRICT" THEN "VERIFIED"
                      ELSE IF job.differences = {} THEN "MATCHED" ELSE "DIFFERENT"
           verdict == Result(job.request, outcome, "none", job.differences, job.executed)
<1>1. /\ job.stage = "verified" /\ Position(job) \notin DOMAIN d.steps
      /\ UNCHANGED <<manifestRow, objects, ledgerLength, finalizing>>
      /\ replaying' = [replaying EXCEPT ![r] = verdict]
  BY DEF FinishReplay
<1>2. UnderWay(job)
  BY <1>1 DEF ReplayInv, Free, Settles
<1>3. d \in Documents /\ Len(job.executed) \in Nat /\ Position(job) = Len(job.executed) + 1
  BY <1>2 DEF UnderWay, HistoricalReplays, Position
<1>4. Len(d.steps) \in Nat /\ DOMAIN d.steps = 1..Len(d.steps)
  BY <1>3, DocumentsAreValid
<1>5. \A n \in DOMAIN d.steps : n \in 1..Len(job.executed)
  BY <1>1, <1>3, <1>4
<1>6. /\ verdict.stage = "done" /\ verdict.mode = job.request.mode /\ verdict.digest = d
      /\ verdict.outcome = outcome /\ verdict.reason = "none" /\ verdict.executed = job.executed
  BY <1>2, ResultFields DEF UnderWay
<1>7. /\ job.request.mode = "STRICT" => outcome = "VERIFIED"
      /\ outcome \in {"VERIFIED", "MATCHED"} => job.request.mode = "STRICT" \/ job.differences = {}
  OBVIOUS
<1> HIDE DEF verdict, outcome
<1>8. outcome \in {"VERIFIED", "MATCHED"} => Reproduces(d, job.executed)
  BY <1>2, <1>5, <1>7 DEF UnderWay, Reproduces
<1>9. job.request.mode = "STRICT" => StrictVerdict(d, outcome, "none")
  BY <1>1, <1>2, <1>5, <1>7 DEF UnderWay, StrictVerdict
<1>10. Settles(verdict)
  BY <1>2, <1>6, <1>8, <1>9 DEF Settles, UnderWay
<1> QED BY <1>1, <1>10, OneReplayMoves

LEMMA LaunchStep == ASSUME ReplayInv, NEW r \in Replays, LaunchLive(r) PROVE ReplayInv'
<1> DEFINE job == replaying[r]
           started == Result(job.request, "LIVE_STARTED", "none", {}, <<>>)
<1>1. job.request.mode = "LIVE" /\ UNCHANGED <<manifestRow, objects, ledgerLength, finalizing>>
  BY DEF LaunchLive
<1>2. \A reason : Settles(Failed(job.request, reason, <<>>))
  BY <1>1, FailureSettles
<1>3. Settles(started)
  <2>1. started.stage = "done" /\ started.mode = "LIVE" /\ started.outcome = "LIVE_STARTED"
    BY <1>1, ResultFields
  <2> HIDE DEF started
  <2> QED BY <2>1 DEF Settles
<1>4. \/ \E reason : replaying' = [replaying EXCEPT ![r] = Failed(job.request, reason, <<>>)]
      \/ replaying' = [replaying EXCEPT ![r] = started]
  BY DEF LaunchLive
<1> HIDE DEF started
<1> QED BY <1>1, <1>2, <1>3, <1>4, OneReplayMoves

LEMMA ReplayStep == ReplayInv /\ [ReplayNext]_replayVars => ReplayInv'
<1> SUFFICES ASSUME ReplayInv, [ReplayNext]_replayVars PROVE ReplayInv'
  OBVIOUS
<1>1. CASE UNCHANGED replayVars
  BY <1>1, ManifestMoves DEF replayVars, ReplayInv
<1> QED BY <1>1, ManifestStep, LoadStep, VerifyStep, ExecuteStepHolds, FinishReplayStep, LaunchStep
        DEF ReplayNext

LEMMA ReplayAlways == ReplaySpec => []ReplayInv
BY ReplayInitial, ReplayStep, PTL DEF ReplaySpec

(* The rows, the finalisations and the replays under way have their types,   *)
(* and the object of a finalised manifest is in the store.                   *)
THEOREM ReplayTyping == ReplaySpec => []ReplayTypeOK
<1>1. ReplayInv => ReplayTypeOK
  BY DEF ReplayInv, ReplayTypeOK, UnderWay, Settles, Free
<1> QED BY <1>1, ReplayAlways, PTL

(* SessionReplayService.replay answers for the document the manifest keeps   *)
(* naming: VERIFIED and MATCHED mean that every executable step was run and  *)
(* came out as recorded, and strict replays of one document never disagree.  *)
THEOREM VerdictsAlwaysStand == ReplaySpec => []VerdictsStand
<1>1. ReplayInv => VerdictsStand
  <2> SUFFICES ASSUME ReplayInv PROVE VerdictsStand
    OBVIOUS
  <2>1. \A r \in Replays : replaying[r].stage = "done" => Settles(replaying[r])
    <3>1. Free.stage # "done" /\ \A job : UnderWay(job) => job.stage # "done"
      BY DEF Free, UnderWay, HistoricalReplays
    <3> QED BY <3>1 DEF ReplayInv
  <2>2. manifestRow.status = "FINALIZED" => manifestRow.document \in Documents
    BY DEF ReplayInv
  <2>3. ASSUME NEW r \in Replays, NEW s \in Replays,
               \A q \in {r, s} : /\ replaying[q].stage = "done" /\ replaying[q].mode = "STRICT"
                                 /\ replaying[q].reason \notin {"LEDGER_MISMATCH", "HISTORICAL_REPLAY_UNAVAILABLE"}
        PROVE  replaying[r].outcome = replaying[s].outcome /\ replaying[r].reason = replaying[s].reason
    <3>1. \A q \in {r, s} : /\ manifestRow.document \in Documents
                            /\ StrictVerdict(manifestRow.document, replaying[q].outcome, replaying[q].reason)
      BY <2>1, <2>2, <2>3 DEF Settles
    <3> QED BY <3>1, OneVerdict
  <2> QED BY <2>1, <2>3 DEF Settles, VerdictsStand
<1> QED BY <1>1, ReplayAlways, PTL
-----------------------------------------------------------------------------
(* The membership of a round.                                                *)
(*                                                                           *)
(* A history is replayed round by round.  Under the membership lock an       *)
(* intervention takes effect after every one before it, so it changes the    *)
(* membership of its own round and of later ones, and that only by itself.   *)

(* Induction over the naturals. *)
LEMMA NumbersClimb ==
  ASSUME NEW S, 0 \in S, \A n \in Nat : n \in S => n + 1 \in S
  PROVE  Nat \subseteq S
<1> DEFINE missing == {n \in Nat : n \notin S}
<1>1. SUFFICES ASSUME missing # {} PROVE FALSE
  OBVIOUS
<1>2. PICK x \in missing : \A y \in missing : x <= y
  <2>1. missing \subseteq Nat OBVIOUS
  <2> HIDE DEF missing
  <2> QED BY <1>1, <2>1, LeastNumber
<1>3. x \in Nat /\ x # 0 /\ x \notin S
  OBVIOUS
<1>4. x - 1 \in Nat /\ ~(x <= x - 1)
  BY <1>3
<1>5. x - 1 \in S
  BY <1>2, <1>4
<1>6. (x - 1) + 1 \in S
  BY <1>4, <1>5
<1> QED BY <1>3, <1>6

RoundStep(members, r, round) == IF r.round = round THEN Intervened(members, r) ELSE members

(* g is the replay of one round over the first n interventions. *)
RoundRun(g, members, history, round, n) ==
  /\ g[0] = members
  /\ \A i \in 1..n : g[i] = RoundStep(g[i - 1], history[i], round)

LEMMA RoundUnfolds ==
  ASSUME NEW members, NEW history, Len(history) \in Nat, NEW round
  PROVE  \E g : /\ RoundRun(g, members, history, round, Len(history))
                /\ RoundReplayed(members, history, round) = g[Len(history)]
<1> DEFINE Steps(g, n) == [i \in 0..n |-> IF i = 0 THEN members ELSE RoundStep(g[i - 1], history[i], round)]
           defined == {n \in Nat : \E g : g = Steps(g, n)}
<1>1. 0 \in defined
  <2> DEFINE g == [d \in 0..0 |-> members]
  <2>1. g = Steps(g, 0)
    OBVIOUS
  <2> QED BY <2>1
<1>2. ASSUME NEW n \in Nat, n \in defined PROVE n + 1 \in defined
  <2>1. PICK g : g = Steps(g, n)
    BY <1>2
  <2> DEFINE last == RoundStep(g[n], history[n + 1], round)
             h == [d \in 0..(n + 1) |-> IF d <= n THEN g[d] ELSE last]
  <2>2. ASSUME NEW d \in 0..(n + 1)
        PROVE  h[d] = IF d = 0 THEN members ELSE RoundStep(h[d - 1], history[d], round)
    <3>1. CASE d = 0
      <4>1. g[0] = members BY <2>1
      <4> QED BY <3>1, <4>1
    <3>2. CASE d \in 1..n
      <4>1. g[d] = RoundStep(g[d - 1], history[d], round)
        <5>1. d \in 0..n /\ d # 0 BY <3>2
        <5> QED BY ONLY <2>1, <5>1
      <4>2. h[d] = g[d] /\ h[d - 1] = g[d - 1] /\ d # 0 BY <3>2
      <4> HIDE DEF h
      <4> QED BY <4>1, <4>2
    <3>3. CASE d = n + 1
      <4>1. h[d] = last /\ h[d - 1] = g[n] /\ d # 0 BY <3>3
      <4> HIDE DEF h
      <4> QED BY <3>3, <4>1
    <3> QED BY <3>1, <3>2, <3>3
  <2>3. h = Steps(h, n + 1)
    BY <2>2
  <2> HIDE DEF h
  <2> QED BY <2>3
<1>3. Len(history) \in defined
  <2> HIDE DEF defined
  <2> QED BY <1>1, <1>2, NumbersClimb
<1> DEFINE after == CHOOSE g : g = Steps(g, Len(history))
<1>4. RoundReplayed(members, history, round) = after[Len(history)]
  BY DEF RoundReplayed, RoundStep
<1>5. after = Steps(after, Len(history))
  BY <1>3
<1>6. RoundRun(after, members, history, round, Len(history))
  <2> HIDE DEF after
  <2> QED BY <1>5 DEF RoundRun
<1> QED BY <1>4, <1>6

(* g is the replay of the rounds up to the n-th. *)
ReplayRun(g, history, n) ==
  /\ g[0] = BoundAgents
  /\ \A k \in 1..n : g[k] = RoundReplayed(g[k - 1], history, k)

LEMMA ReplayUnfolds ==
  ASSUME NEW history, NEW round \in Nat
  PROVE  \E g : ReplayRun(g, history, round) /\ Replayed(history, round) = g[round]
<1> DEFINE Steps(g, n) == [i \in 0..n |-> IF i = 0 THEN BoundAgents ELSE RoundReplayed(g[i - 1], history, i)]
           defined == {n \in Nat : \E g : g = Steps(g, n)}
<1>1. 0 \in defined
  <2> DEFINE g == [d \in 0..0 |-> BoundAgents]
  <2>1. g = Steps(g, 0)
    OBVIOUS
  <2> QED BY <2>1
<1>2. ASSUME NEW n \in Nat, n \in defined PROVE n + 1 \in defined
  <2>1. PICK g : g = Steps(g, n)
    BY <1>2
  <2> DEFINE last == RoundReplayed(g[n], history, n + 1)
             h == [d \in 0..(n + 1) |-> IF d <= n THEN g[d] ELSE last]
  <2>2. ASSUME NEW d \in 0..(n + 1)
        PROVE  h[d] = IF d = 0 THEN BoundAgents ELSE RoundReplayed(h[d - 1], history, d)
    <3>1. CASE d = 0
      <4>1. g[0] = BoundAgents BY <2>1
      <4> QED BY <3>1, <4>1
    <3>2. CASE d \in 1..n
      <4>1. g[d] = RoundReplayed(g[d - 1], history, d)
        <5>1. d \in 0..n /\ d # 0 BY <3>2
        <5> QED BY ONLY <2>1, <5>1
      <4>2. h[d] = g[d] /\ h[d - 1] = g[d - 1] /\ d # 0 BY <3>2
      <4> HIDE DEF h
      <4> QED BY <4>1, <4>2
    <3>3. CASE d = n + 1
      <4>1. h[d] = last /\ h[d - 1] = g[n] /\ d # 0 BY <3>3
      <4> HIDE DEF h
      <4> QED BY <3>3, <4>1
    <3> QED BY <3>1, <3>2, <3>3
  <2>3. h = Steps(h, n + 1)
    BY <2>2
  <2> HIDE DEF h
  <2> QED BY <2>3
<1>3. round \in defined
  <2> HIDE DEF defined
  <2> QED BY <1>1, <1>2, NumbersClimb
<1> DEFINE after == CHOOSE g : g = Steps(g, round)
<1>4. Replayed(history, round) = after[round]
  BY DEF Replayed
<1>5. after = Steps(after, round)
  BY <1>3
<1>6. ReplayRun(after, history, round)
  <2> HIDE DEF after
  <2> QED BY <1>5 DEF ReplayRun
<1> QED BY <1>4, <1>6

(* Two replays agree on the rounds both have reached. *)
LEMMA ReplaysAgree ==
  ASSUME NEW history, NEW m \in Nat, NEW n \in Nat, NEW g, NEW h,
         ReplayRun(g, history, m), ReplayRun(h, history, n), NEW k \in Nat, k <= m, k <= n
  PROVE  g[k] = h[k]
<1> DEFINE same == {i \in Nat : i <= m /\ i <= n => g[i] = h[i]}
<1>1. 0 \in same
  BY DEF ReplayRun
<1>2. ASSUME NEW i \in Nat, i \in same PROVE i + 1 \in same
  <2> SUFFICES ASSUME i + 1 <= m, i + 1 <= n PROVE g[i + 1] = h[i + 1]
    OBVIOUS
  <2>1. g[i] = h[i] BY <1>2
  <2>2. (i + 1) - 1 = i /\ i + 1 \in 1..m /\ i + 1 \in 1..n OBVIOUS
  <2>3. g[i + 1] = RoundReplayed(g[i], history, i + 1) BY <2>2 DEF ReplayRun
  <2>4. h[i + 1] = RoundReplayed(h[i], history, i + 1) BY <2>2 DEF ReplayRun
  <2> QED BY <2>1, <2>3, <2>4
<1>3. k \in same
  <2> HIDE DEF same
  <2> QED BY <1>1, <1>2, NumbersClimb
<1> QED BY <1>3

LEMMA ReplayedByRounds ==
  ASSUME NEW history
  PROVE  /\ Replayed(history, 0) = BoundAgents
         /\ \A k \in Nat : Replayed(history, k + 1) = RoundReplayed(Replayed(history, k), history, k + 1)
<1>1. Replayed(history, 0) = BoundAgents
  <2>1. PICK g : ReplayRun(g, history, 0) /\ Replayed(history, 0) = g[0] BY ReplayUnfolds
  <2> QED BY <2>1 DEF ReplayRun
<1>2. ASSUME NEW k \in Nat PROVE Replayed(history, k + 1) = RoundReplayed(Replayed(history, k), history, k + 1)
  <2>1. PICK g : ReplayRun(g, history, k) /\ Replayed(history, k) = g[k] BY ReplayUnfolds
  <2>2. PICK h : ReplayRun(h, history, k + 1) /\ Replayed(history, k + 1) = h[k + 1] BY ReplayUnfolds
  <2>3. k <= k + 1 /\ k <= k /\ k + 1 \in Nat OBVIOUS
  <2>4. g[k] = h[k] BY <2>1, <2>2, <2>3, ReplaysAgree
  <2>5. k + 1 \in 1..(k + 1) /\ (k + 1) - 1 = k OBVIOUS
  <2>6. h[k + 1] = RoundReplayed(h[k], history, k + 1) BY <2>2, <2>5 DEF ReplayRun
  <2> QED BY <2>1, <2>2, <2>4, <2>6
<1> QED BY <1>1, <1>2

(* A round without interventions changes nothing. *)
LEMMA QuietRound ==
  ASSUME NEW members, NEW history, Len(history) \in Nat, NEW round,
         \A i \in 1..Len(history) : history[i].round # round
  PROVE  RoundReplayed(members, history, round) = members
<1>1. PICK g : RoundRun(g, members, history, round, Len(history))
               /\ RoundReplayed(members, history, round) = g[Len(history)]
  BY RoundUnfolds
<1> DEFINE still == {i \in Nat : i <= Len(history) => g[i] = members}
<1>2. 0 \in still
  BY <1>1 DEF RoundRun
<1>3. ASSUME NEW i \in Nat, i \in still PROVE i + 1 \in still
  <2> SUFFICES ASSUME i + 1 <= Len(history) PROVE g[i + 1] = members
    OBVIOUS
  <2>1. g[i] = members BY <1>3
  <2>2. (i + 1) - 1 = i /\ i + 1 \in 1..Len(history) OBVIOUS
  <2>3. g[i + 1] = RoundStep(g[i], history[i + 1], round) BY <1>1, <2>2 DEF RoundRun
  <2>4. history[i + 1].round # round BY <2>2
  <2> QED BY <2>1, <2>3, <2>4 DEF RoundStep
<1>4. Len(history) \in still
  <2> HIDE DEF still
  <2> QED BY <1>2, <1>3, NumbersClimb
<1> QED BY <1>1, <1>4

(* One more intervention is the last step of its round. *)
LEMMA RoundGrows ==
  ASSUME NEW members, NEW S, NEW history \in Seq(S), NEW r \in S, NEW round
  PROVE  RoundReplayed(members, Append(history, r), round)
           = RoundStep(RoundReplayed(members, history, round), r, round)
<1> DEFINE n == Len(history)
           longer == Append(history, r)
<1>1. n \in Nat /\ Len(longer) = n + 1 /\ longer[n + 1] = r /\ \A i \in 1..n : longer[i] = history[i]
  OBVIOUS
<1> HIDE DEF longer, n
<1>2. PICK g : RoundRun(g, members, history, round, n) /\ RoundReplayed(members, history, round) = g[n]
  BY <1>1, RoundUnfolds DEF n
<1>3. PICK h : RoundRun(h, members, longer, round, n + 1) /\ RoundReplayed(members, longer, round) = h[n + 1]
  <2>1. Len(longer) \in Nat BY <1>1
  <2> QED BY <1>1, <2>1, RoundUnfolds
<1> DEFINE same == {i \in Nat : i <= n => g[i] = h[i]}
<1>4. 0 \in same
  BY <1>2, <1>3 DEF RoundRun
<1>5. ASSUME NEW i \in Nat, i \in same PROVE i + 1 \in same
  <2> SUFFICES ASSUME i + 1 <= n PROVE g[i + 1] = h[i + 1]
    OBVIOUS
  <2>1. g[i] = h[i] BY <1>1, <1>5
  <2>2. (i + 1) - 1 = i /\ i + 1 \in 1..n /\ i + 1 \in 1..(n + 1) BY <1>1
  <2>3. g[i + 1] = RoundStep(g[i], history[i + 1], round) BY <1>2, <2>2 DEF RoundRun
  <2>4. h[i + 1] = RoundStep(h[i], longer[i + 1], round) BY <1>3, <2>2 DEF RoundRun
  <2>5. longer[i + 1] = history[i + 1] BY <1>1, <2>2
  <2> QED BY <2>1, <2>3, <2>4, <2>5
<1>6. n \in same
  <2> HIDE DEF same
  <2> QED BY <1>1, <1>4, <1>5, NumbersClimb
<1>7. g[n] = h[n]
  BY <1>1, <1>6
<1>8. h[n + 1] = RoundStep(h[n], r, round)
  <2>1. n + 1 \in 1..(n + 1) /\ (n + 1) - 1 = n BY <1>1
  <2> QED BY <1>1, <1>3, <2>1 DEF RoundRun
<1> QED BY <1>2, <1>3, <1>7, <1>8 DEF longer

(* An intervention that takes effect after all before it: earlier rounds     *)
(* stay, and all later ones are its own round's.                             *)
LEMMA ReplayGrows ==
  ASSUME NEW S, NEW history \in Seq(S), NEW r \in S, r.round \in Nat \ {0},
         \A i \in 1..Len(history) : history[i].round \in Nat /\ history[i].round <= r.round,
         NEW m \in Nat
  PROVE  /\ m < r.round => Replayed(Append(history, r), m) = Replayed(history, m)
         /\ m >= r.round => /\ Replayed(history, m) = Replayed(history, r.round)
                           /\ Replayed(Append(history, r), m) = Intervened(Replayed(history, r.round), r)
<1> DEFINE longer == Append(history, r)
           R == r.round
           Before(k) == k < R => Replayed(longer, k) = Replayed(history, k)
           After(k) == k >= R => /\ Replayed(history, k) = Replayed(history, R)
                                 /\ Replayed(longer, k) = Intervened(Replayed(history, R), r)
           right == {k \in Nat : Before(k) /\ After(k)}
<1>1. R \in Nat \ {0} /\ Len(history) \in Nat
  OBVIOUS
<1>2. ASSUME NEW members, NEW k
      PROVE  RoundReplayed(members, longer, k) = RoundStep(RoundReplayed(members, history, k), r, k)
  BY RoundGrows
<1>3. ASSUME NEW members, NEW k \in Nat, k > R PROVE RoundReplayed(members, history, k) = members
  <2>1. \A i \in 1..Len(history) : history[i].round # k
    BY <1>1, <1>3
  <2> QED BY <1>1, <2>1, QuietRound
<1> HIDE DEF R
<1>4. R = r.round
  BY DEF R
<1> HIDE DEF longer
<1>5. 0 \in right
  <2>1. Replayed(longer, 0) = Replayed(history, 0) BY ReplayedByRounds
  <2> QED BY <1>1, <2>1
<1>6. ASSUME NEW k \in Nat, k \in right PROVE k + 1 \in right
  <2>1. /\ Replayed(longer, k + 1) = RoundReplayed(Replayed(longer, k), longer, k + 1)
        /\ Replayed(history, k + 1) = RoundReplayed(Replayed(history, k), history, k + 1)
    BY ReplayedByRounds
  <2>2. Replayed(longer, k + 1) = RoundStep(RoundReplayed(Replayed(longer, k), history, k + 1), r, k + 1)
    BY <1>2, <2>1
  <2>3. CASE k + 1 < R
    <3>1. k < R /\ k + 1 # R /\ ~(k + 1 >= R) BY <1>1, <2>3
    <3>2. Replayed(longer, k) = Replayed(history, k) BY <1>6, <3>1
    <3>3. Replayed(longer, k + 1) = Replayed(history, k + 1)
      BY <1>4, <2>1, <2>2, <3>1, <3>2 DEF RoundStep
    <3> QED BY <3>1, <3>3
  <2>4. CASE k + 1 = R
    <3>1. k < R /\ ~(k + 1 < R) BY <1>1, <2>4
    <3>2. Replayed(longer, k) = Replayed(history, k) BY <1>6, <3>1
    <3>3. Replayed(longer, R) = Intervened(Replayed(history, R), r)
      BY <1>4, <2>1, <2>2, <2>4, <3>2 DEF RoundStep
    <3> QED BY <2>4, <3>1, <3>3
  <2>5. CASE k + 1 > R
    <3>1. k >= R /\ k + 1 # R /\ ~(k + 1 < R) /\ k + 1 \in Nat BY <1>1, <2>5
    <3>2. Replayed(history, k) = Replayed(history, R) /\ Replayed(longer, k) = Intervened(Replayed(history, R), r)
      BY <1>6, <3>1
    <3>3. Replayed(history, k + 1) = Replayed(history, k) BY <1>3, <2>1, <2>5, <3>1
    <3>4. Replayed(longer, k + 1) = Replayed(longer, k) BY <1>3, <1>4, <2>2, <2>5, <3>1 DEF RoundStep
    <3> QED BY <3>1, <3>2, <3>3, <3>4
  <2> QED BY <1>1, <2>3, <2>4, <2>5
<1>7. m \in right
  <2> HIDE DEF right
  <2> QED BY <1>5, <1>6, NumbersClimb
<1> QED BY <1>4, <1>7 DEF longer

(* What apply checks before it writes: the replaced agent is effective, and  *)
(* no other member is a version of the new one.                              *)
Admissible(members, r) ==
  /\ r.kind = "REPLACE" => r.replaced \in ToSet(members)
  /\ LogicalOf[r.agent] \notin {LogicalOf[m] : m \in ToSet(members) \ {r.replaced}}

LEMMA InterventionsKeepOneVersion ==
  ASSUME NEW A, "none" \notin A, NEW members \in Seq(A), OneVersionEach(members),
         NEW r, r.agent \in A, InterventionShape(r), Admissible(members, r)
  PROVE  Intervened(members, r) \in Seq(A) /\ OneVersionEach(Intervened(members, r))
<1> DEFINE n == Len(members)
           a == r.agent
<1>1. n \in Nat /\ n # 0 /\ DOMAIN members = 1..n /\ members # <<>>
  BY DEF OneVersionEach
<1>2. ToSet(members) = {members[i] : i \in 1..n}
  BY <1>1 DEF ToSet
<1>3. ASSUME NEW i \in 1..n, members[i] # r.replaced PROVE LogicalOf[members[i]] # LogicalOf[a]
  BY <1>2, <1>3 DEF Admissible
<1>4. \A i, j \in 1..n : LogicalOf[members[i]] = LogicalOf[members[j]] => i = j
  BY DEF OneVersionEach
<1>5. CASE r.kind = "INJECT"
  <2> DEFINE longer == Append(members, a)
  <2>1. Intervened(members, r) = longer
    BY <1>1, <1>5 DEF Intervened
  <2>2. r.replaced = "none"
    BY <1>5 DEF InterventionShape
  <2>3. longer \in Seq(A) /\ Len(longer) = n + 1 /\ longer[n + 1] = a /\ \A i \in 1..n : longer[i] = members[i]
    OBVIOUS
  <2> HIDE DEF longer, n
  <2>4. ASSUME NEW i \in 1..n PROVE LogicalOf[members[i]] # LogicalOf[a]
    <3>1. members[i] \in A BY <1>1
    <3> QED BY <1>3, <2>2, <3>1
  <2>5. ASSUME NEW i \in 1..(n + 1), NEW j \in 1..(n + 1), LogicalOf[longer[i]] = LogicalOf[longer[j]] PROVE i = j
    <3>1. CASE i \in 1..n /\ j \in 1..n
      <4>1. longer[i] = members[i] /\ longer[j] = members[j] BY <2>3, <3>1
      <4> QED BY <1>4, <2>5, <3>1, <4>1
    <3>2. CASE i \in 1..n /\ j = n + 1
      <4>1. longer[i] = members[i] /\ longer[j] = a BY <2>3, <3>2
      <4> QED BY <2>4, <2>5, <3>2, <4>1
    <3>3. CASE i = n + 1 /\ j \in 1..n
      <4>1. longer[j] = members[j] /\ longer[i] = a BY <2>3, <3>3
      <4> QED BY <2>4, <2>5, <3>3, <4>1
    <3>4. i \in 1..n \/ i = n + 1 BY <1>1
    <3>5. j \in 1..n \/ j = n + 1 BY <1>1
    <3> QED BY <3>1, <3>2, <3>3, <3>4, <3>5
  <2>6. longer # <<>>
    <3>1. Len(longer) # 0 BY <1>1, <2>3
    <3> QED BY <3>1
  <2> QED BY <2>1, <2>3, <2>5, <2>6 DEF OneVersionEach
<1>6. CASE r.kind # "INJECT"
  <2>1. r.kind = "REPLACE" /\ r.replaced \in ToSet(members)
    BY <1>6 DEF InterventionShape, Admissible
  <2> DEFINE IsFirst(i) == members[i] = r.replaced /\ \A j \in 1..(i - 1) : members[j] # r.replaced
             first == CHOOSE i \in 1..n : IsFirst(i)
             changed == [members EXCEPT ![first] = a]
  <2>2. \E i \in 1..n : IsFirst(i)
    <3> DEFINE places == {i \in 1..n : members[i] = r.replaced}
    <3>1. places \subseteq Nat /\ places # {} BY <1>1, <1>2, <2>1
    <3>2. PICK i \in places : \A j \in places : i <= j
      <4> HIDE DEF places
      <4> QED BY <3>1, LeastNumber
    <3>3. ASSUME NEW j \in 1..(i - 1) PROVE members[j] # r.replaced
      <4>1. j \in 1..n /\ ~(i <= j) BY <1>1
      <4> QED BY <3>2, <4>1
    <3> QED BY <3>3
  <2>3. first \in 1..n /\ IsFirst(first)
    BY <2>2
  <2>4. Intervened(members, r) = changed
    BY <1>1, <1>6, <2>1 DEF Intervened
  <2> HIDE DEF first
  <2>5. changed \in Seq(A) /\ Len(changed) = n
    BY <1>1, <2>3
  <2>6. \A i \in 1..n : changed[i] = IF i = first THEN a ELSE members[i]
    BY <1>1, <2>3
  <2> HIDE DEF changed, n
  <2>7. ASSUME NEW i \in 1..n, i # first PROVE LogicalOf[members[i]] # LogicalOf[a]
    <3>1. members[i] # r.replaced BY <1>4, <2>3, <2>7
    <3> QED BY <1>3, <3>1
  <2>8. ASSUME NEW i \in 1..n, NEW j \in 1..n, LogicalOf[changed[i]] = LogicalOf[changed[j]] PROVE i = j
    BY <1>4, <2>6, <2>7, <2>8
  <2>9. changed # <<>>
    <3>1. Len(changed) # 0 BY <1>1, <2>5
    <3> QED BY <3>1
  <2> QED BY <2>4, <2>5, <2>8, <2>9 DEF OneVersionEach
<1> QED BY <1>5, <1>6

(* The definitions, and what else has a type of its own. *)
RegistryTyped ==
  /\ DOMAIN registry \subseteq Agents
  /\ \A a \in DOMAIN registry :
       /\ registry[a] \in AgentDefinitionRows
       /\ registry[a].successor # "none" => registry[a].successor \in DOMAIN registry

SessionTyped == session \in [round : 0..LastRound, state : {"RUNNING", "CANCELLED", "BUDGET_EXHAUSTED"}]

CallsTyped ==
  /\ batch \subseteq LogicalTurns
  /\ DOMAIN records \subseteq LogicalTurns /\ \A t \in DOMAIN records : records[t] \in CallRecordRows

(* The history takes effect in the order it was written. *)
HistoryInOrder ==
  /\ applied \in Seq(InterventionRows)
  /\ \A i \in 1..Len(applied) : applied[i].round <= ExpectedRound(session.round)

(* At most one intervention is between its checks and its writes, and what   *)
(* it checked still holds.                                                   *)
OneIntervenes ==
  \A r \in applying :
    /\ r \in InterventionRows /\ r.round = ExpectedRound(session.round) /\ r.agent \in DOMAIN registry
    /\ Admissible(Replayed(applied, r.round), r)
    /\ \A other \in applying : other = r

(* The membership of any round can be read back. *)
MembersReadable ==
  \A k \in Nat : Replayed(applied, k) \in Seq(DOMAIN registry) /\ OneVersionEach(Replayed(applied, k))

(* Turns are pinned from rounds no intervention reaches any more. *)
PinnedForGood ==
  /\ used \in [AgentRounds -> Seq(DOMAIN registry)]
  /\ \A k \in AgentRounds : used[k] # <<>> => k <= session.round /\ used[k] = Replayed(applied, k)

TurnsTyped == turn \in [LogicalTurns -> AgentTurnInputs]
TurnsPinned == \A t \in LogicalTurns : turn[t].phase # "none" => t[1] \in ToSet(used[t[2]])

MembershipInv == HistoryInOrder /\ OneIntervenes /\ MembersReadable /\ PinnedForGood
TurnInv == RegistryTyped /\ SessionTyped /\ CallsTyped /\ MembershipInv /\ TurnsTyped /\ TurnsPinned

LEMMA SeqWidens ==
  ASSUME NEW S, NEW T, S \subseteq T, NEW s \in Seq(S) PROVE s \in Seq(T)
OBVIOUS

LEMMA TurnStarts == TurnsInit => TurnInv
<1> SUFFICES ASSUME TurnsInit PROVE TurnInv OBVIOUS
<1> USE DEF TurnsInit
<1>1. ToSet(BoundAgents) \subseteq Agents /\ BoundAgents \in Seq(ToSet(BoundAgents))
  BY BindingIsAffine DEF ToSet
<1>2. RegistryTyped
  BY <1>1 DEF RegistryTyped, AgentRow, AgentDefinitionRows
<1>3. SessionTyped
  BY AgentsAreVersioned DEF SessionTyped
<1>4. CallsTyped
  BY DEF CallsTyped
<1>5. HistoryInOrder /\ OneIntervenes
  BY DEF HistoryInOrder, OneIntervenes
<1>6. ASSUME NEW k \in Nat PROVE Replayed(<<>>, k) = BoundAgents
  <2> DEFINE bound == {n \in Nat : Replayed(<<>>, n) = BoundAgents}
  <2>1. 0 \in bound BY ReplayedByRounds
  <2>2. ASSUME NEW n \in Nat, n \in bound PROVE n + 1 \in bound
    <3>1. Replayed(<<>>, n + 1) = RoundReplayed(BoundAgents, <<>>, n + 1) BY <2>2, ReplayedByRounds
    <3>2. Len(<<>>) = 0 OBVIOUS
    <3>3. RoundReplayed(BoundAgents, <<>>, n + 1) = BoundAgents BY <3>2, QuietRound
    <3> QED BY <3>1, <3>3
  <2> HIDE DEF bound
  <2>3. k \in bound BY <2>1, <2>2, NumbersClimb
  <2> QED BY <2>3 DEF bound
<1>7. MembersReadable
  <2>1. DOMAIN registry = ToSet(BoundAgents) OBVIOUS
  <2> QED BY <1>1, <1>6, <2>1, BindingIsAffine DEF MembersReadable
<1>8. PinnedForGood
  BY DEF PinnedForGood
<1>9. TurnsTyped /\ TurnsPinned
  BY AgentsAreVersioned DEF TurnsTyped, TurnsPinned, AgentTurnInputs, CallRecordRows, NoResponse
<1> QED BY <1>2, <1>3, <1>4, <1>5, <1>7, <1>8, <1>9 DEF TurnInv, MembershipInv

(* A step that changes neither history nor round, forgets no definition and  *)
(* begins no intervention.                                                   *)
LEMMA MembershipStays ==
  ASSUME MembershipInv, applied' = applied, used' = used, session'.round = session.round,
         DOMAIN registry \subseteq DOMAIN registry', applying' \subseteq applying
  PROVE  MembershipInv'
<1>1. HistoryInOrder' /\ OneIntervenes'
  BY DEF MembershipInv, HistoryInOrder, OneIntervenes
<1>2. MembersReadable'
  BY SeqWidens DEF MembershipInv, MembersReadable
<1>3. PinnedForGood'
  <2>1. \A k \in AgentRounds : used[k] \in Seq(DOMAIN registry)
    BY DEF MembershipInv, PinnedForGood
  <2>2. \A k \in AgentRounds : used[k] \in Seq(DOMAIN registry')
    BY <2>1, SeqWidens
  <2> QED BY <2>2 DEF MembershipInv, PinnedForGood
<1> QED BY <1>1, <1>2, <1>3 DEF MembershipInv

LEMMA RegistryGrows ==
  ASSUME TurnInv, NEW a \in Agents, NEW status \in {"DRAFT", "ACTIVE"},
         AddDefinition(a, status) \/ \E p \in Agents : AddDefinitionVersion(p, a, status)
  PROVE  TurnInv'
<1>1. UNCHANGED <<session, applied, applying, turn, batch, records, used>>
  BY DEF AddDefinition, AddDefinitionVersion
<1>2. PICK rows : rows = Registered(registry, a, AgentRow(status))
  OBVIOUS
<1>3. /\ DOMAIN rows = DOMAIN registry \cup {a}
      /\ rows[a] = [status |-> status, successor |-> "none", referenced |-> FALSE]
      /\ \A b \in DOMAIN registry : b # a => rows[b] = registry[b]
  BY <1>2 DEF Registered, AgentRow
<1> DEFINE Fine(row) == row \in AgentDefinitionRows /\ (row.successor # "none" => row.successor \in DOMAIN rows)
<1>4. ASSUME NEW b \in DOMAIN rows PROVE b \in Agents /\ Fine(rows[b])
  <2>1. CASE b = a
    <3> DEFINE fresh == [status |-> status, successor |-> "none", referenced |-> FALSE]
    <3>1. fresh \in AgentDefinitionRows BY DEF AgentDefinitionRows
    <3>2. fresh.successor = "none" OBVIOUS
    <3>3. rows[b] = fresh BY <1>3, <2>1
    <3> HIDE DEF fresh
    <3> QED BY <2>1, <3>1, <3>2, <3>3
  <2>2. CASE b # a
    <3>1. b \in DOMAIN registry /\ rows[b] = registry[b] BY <1>3, <2>2
    <3>2. registry[b] \in AgentDefinitionRows /\ (registry[b].successor # "none" => registry[b].successor \in DOMAIN registry)
      BY <3>1 DEF TurnInv, RegistryTyped
    <3>3. b \in Agents BY <3>1 DEF TurnInv, RegistryTyped
    <3> QED BY <1>3, <3>1, <3>2, <3>3
  <2> QED BY <2>1, <2>2
<1>6. RegistryTyped' /\ DOMAIN registry \subseteq DOMAIN registry'
  <2>1. CASE AddDefinition(a, status)
    <3>1. registry' = rows BY <1>2, <2>1 DEF AddDefinition
    <3> QED BY <1>3, <1>4, <3>1 DEF RegistryTyped
  <2>2. ASSUME NEW p \in Agents, AddDefinitionVersion(p, a, status)
        PROVE  RegistryTyped' /\ DOMAIN registry \subseteq DOMAIN registry'
    <3>1. registry' = [rows EXCEPT ![p].successor = a, ![p].status = "DEPRECATED"] /\ p \in DOMAIN rows
      BY <1>2, <1>3, <2>2 DEF AddDefinitionVersion
    <3>2. DOMAIN registry' = DOMAIN rows BY <3>1
    <3>3. ASSUME NEW b \in DOMAIN rows PROVE Fine(registry'[b])
      <4>1. Fine(rows[b]) BY <1>4
      <4>2. CASE b # p
        <5>1. registry'[b] = rows[b] BY <3>1, <4>2
        <5> QED BY <4>1, <5>1
      <4>3. CASE b = p
        <5>1. registry'[b] = [rows[b] EXCEPT !.successor = a, !.status = "DEPRECATED"] BY <3>1, <4>3
        <5>2. registry'[b] \in AgentDefinitionRows /\ registry'[b].successor = a
          BY <4>1, <5>1 DEF AgentDefinitionRows
        <5> QED BY <1>3, <5>2
      <4> QED BY <4>2, <4>3
    <3>4. DOMAIN registry' \subseteq Agents /\ DOMAIN registry \subseteq DOMAIN registry'
      BY <1>3, <1>4, <3>2
    <3> QED BY <3>2, <3>3, <3>4 DEF RegistryTyped
  <2> QED BY <2>1, <2>2
<1>5. MembershipInv'
  BY <1>1, <1>6, MembershipStays DEF TurnInv
<1> QED BY <1>1, <1>6, <1>5 DEF TurnInv, SessionTyped, CallsTyped, TurnsTyped, TurnsPinned

LEMMA InterventionChecked ==
  ASSUME TurnInv, NEW r \in Interventions, CheckIntervention(r) PROVE TurnInv'
<1> USE DEF CheckIntervention
<1>1. applying' = {r} /\ UNCHANGED <<registry, session, applied, turn, batch, records, used>>
  BY DEF MembershipUnlocked
<1>2. /\ r \in InterventionRows /\ r.round = ExpectedRound(session.round) /\ r.agent \in DOMAIN registry
      /\ Admissible(Replayed(applied, r.round), r)
  BY DEF InterventionRows, Admissible
<1> USE ONLY <1>1, <1>2, TurnInv
<1>3. OneIntervenes'
  BY <1>1, <1>2 DEF OneIntervenes
<1>4. HistoryInOrder' /\ MembersReadable' /\ PinnedForGood'
  BY <1>1 DEF TurnInv, MembershipInv, HistoryInOrder, MembersReadable, PinnedForGood
<1> QED BY <1>1, <1>3, <1>4 DEF TurnInv, MembershipInv, RegistryTyped, SessionTyped, CallsTyped, TurnsTyped, TurnsPinned

LEMMA InterventionWritten ==
  ASSUME TurnInv, NEW r \in Interventions, WriteIntervention(r) PROVE TurnInv'
<1>1. /\ r \in applying /\ applied' = Append(applied, r) /\ applying' = applying \ {r}
      /\ registry' = [registry EXCEPT ![r.agent].referenced = TRUE]
      /\ UNCHANGED <<session, turn, batch, records, used>>
  BY DEF WriteIntervention
<1> DEFINE R == r.round
<1>2. /\ r \in InterventionRows /\ R = ExpectedRound(session.round) /\ r.agent \in DOMAIN registry
      /\ Admissible(Replayed(applied, R), r) /\ applying' = {}
  BY <1>1 DEF TurnInv, MembershipInv, OneIntervenes
<1>3. R \in Nat \ {0} /\ InterventionShape(r) /\ session.round \in Nat
  BY <1>2, RequestsAndAnswers DEF InterventionRows, InterventionShape, TurnInv, SessionTyped
<1>4. applied \in Seq(InterventionRows)
      /\ \A i \in 1..Len(applied) : applied[i].round \in Nat /\ applied[i].round <= R
  <2>1. \A x \in InterventionRows : x.round \in Nat BY RequestsAndAnswers DEF InterventionRows
  <2> QED BY <1>2, <2>1 DEF TurnInv, MembershipInv, HistoryInOrder
<1> HIDE DEF R
<1>5. DOMAIN registry' = DOMAIN registry /\ RegistryTyped'
  <2>1. DOMAIN registry' = DOMAIN registry BY <1>1
  <2>2. ASSUME NEW b \in DOMAIN registry
        PROVE  registry'[b] \in AgentDefinitionRows /\ registry'[b].successor = registry[b].successor
    BY <1>1 DEF TurnInv, RegistryTyped, AgentDefinitionRows
  <2> QED BY <2>1, <2>2 DEF TurnInv, RegistryTyped
<1>6. ASSUME NEW m \in Nat
      PROVE  /\ m < R => Replayed(applied', m) = Replayed(applied, m)
             /\ m >= R => Replayed(applied', m) = Intervened(Replayed(applied, R), r)
  BY <1>1, <1>2, <1>3, <1>4, ReplayGrows DEF R
<1>7. Intervened(Replayed(applied, R), r) \in Seq(DOMAIN registry) /\ OneVersionEach(Intervened(Replayed(applied, R), r))
  <2>1. "none" \notin DOMAIN registry BY BindingIsAffine DEF TurnInv, RegistryTyped
  <2>2. Replayed(applied, R) \in Seq(DOMAIN registry) /\ OneVersionEach(Replayed(applied, R))
    BY <1>3 DEF TurnInv, MembershipInv, MembersReadable
  <2> QED BY <1>2, <1>3, <2>1, <2>2, InterventionsKeepOneVersion
<1>8. MembersReadable'
  <2> SUFFICES ASSUME NEW m \in Nat PROVE Replayed(applied', m) \in Seq(DOMAIN registry) /\ OneVersionEach(Replayed(applied', m))
    BY <1>5 DEF MembersReadable
  <2>1. m < R \/ m >= R BY <1>3 DEF R
  <2> QED BY <1>6, <1>7, <2>1 DEF TurnInv, MembershipInv, MembersReadable
<1>9. PinnedForGood'
  <2>1. ASSUME NEW k \in AgentRounds, used[k] # <<>> PROVE k <= session.round /\ used[k] = Replayed(applied', k)
    <3>1. k \in Nat /\ k <= session.round /\ used[k] = Replayed(applied, k)
      BY <2>1, AgentsAreVersioned DEF TurnInv, MembershipInv, PinnedForGood, AgentRounds
    <3>2. session.round < R BY <1>2, <1>3 DEF ExpectedRound
    <3>3. k < R BY <1>3, <3>1, <3>2
    <3> QED BY <1>6, <3>1, <3>3
  <2> QED BY <1>1, <1>5, <2>1 DEF TurnInv, MembershipInv, PinnedForGood
<1>10. HistoryInOrder'
  <2>1. applied' \in Seq(InterventionRows) /\ Len(applied') = Len(applied) + 1
        /\ \A i \in 1..(Len(applied) + 1) : applied'[i] = r \/ (i \in 1..Len(applied) /\ applied'[i] = applied[i])
    BY <1>1, <1>2, <1>4
  <2> QED BY <1>1, <1>2, <1>3, <1>4, <2>1 DEF HistoryInOrder, R
<1>11. OneIntervenes'
  BY <1>2 DEF OneIntervenes
<1> QED BY <1>1, <1>5, <1>8, <1>9, <1>10, <1>11 DEF TurnInv, MembershipInv, SessionTyped, CallsTyped, TurnsTyped, TurnsPinned

LEMMA InterventionAborted ==
  ASSUME TurnInv, NEW r \in Interventions, AbortIntervention(r) PROVE TurnInv'
<1>1. applying' \subseteq applying /\ UNCHANGED <<registry, session, applied, turn, batch, records, used>>
  BY DEF AbortIntervention
<1>2. MembershipInv'
  BY <1>1, MembershipStays DEF TurnInv
<1> QED BY <1>1, <1>2 DEF TurnInv, RegistryTyped, SessionTyped, CallsTyped, TurnsTyped, TurnsPinned

LEMMA RoundAdvanced == ASSUME TurnInv, AdvanceRound PROVE TurnInv'
<1>1. /\ applying = {} /\ session.round < LastRound /\ session' = [session EXCEPT !.round = @ + 1]
      /\ UNCHANGED <<registry, applied, applying, turn, batch, records, used>>
  BY DEF AdvanceRound, MembershipUnlocked
<1>2. session.round \in 0..LastRound /\ LastRound \in Nat
  BY AgentsAreVersioned DEF TurnInv, SessionTyped
<1>3. SessionTyped' /\ session'.round = session.round + 1
  BY <1>1, <1>2 DEF TurnInv, SessionTyped
<1>4. ExpectedRound(session.round) \in Nat /\ ExpectedRound(session.round) <= ExpectedRound(session'.round)
      /\ ExpectedRound(session'.round) \in Nat
  BY <1>2, <1>3 DEF ExpectedRound
<1>5. HistoryInOrder'
  <2>1. \A x \in InterventionRows : x.round \in Nat BY RequestsAndAnswers DEF InterventionRows
  <2>2. \A i \in 1..Len(applied) : applied[i].round \in Nat /\ applied[i].round <= ExpectedRound(session.round)
    BY <2>1 DEF TurnInv, MembershipInv, HistoryInOrder
  <2>3. \A i \in 1..Len(applied) : applied[i].round <= ExpectedRound(session'.round)
    BY <1>4, <2>2
  <2> QED BY <1>1, <2>3 DEF TurnInv, MembershipInv, HistoryInOrder
<1>6. OneIntervenes' /\ MembersReadable'
  BY <1>1 DEF TurnInv, MembershipInv, OneIntervenes, MembersReadable
<1>7. PinnedForGood'
  <2>1. \A k \in AgentRounds : k \in Nat BY <1>2 DEF AgentRounds
  <2> QED BY <1>1, <1>2, <1>3, <2>1 DEF TurnInv, MembershipInv, PinnedForGood
<1> QED BY <1>1, <1>3, <1>5, <1>6, <1>7 DEF TurnInv, MembershipInv, RegistryTyped, CallsTyped, TurnsTyped, TurnsPinned

(* The session ends, a batch starts or finishes: no turn is pinned. *)
LEMMA SessionMoves ==
  ASSUME TurnInv, UNCHANGED <<registry, applied, applying, records, used>>,
         \/ UNCHANGED session
         \/ \E state \in {"CANCELLED", "BUDGET_EXHAUSTED"} : session' = [session EXCEPT !.state = state],
         batch' \subseteq LogicalTurns, turn' \in [LogicalTurns -> AgentTurnInputs],
         \A t \in LogicalTurns : turn[t].phase = "none" => turn'[t].phase = "none"
  PROVE  TurnInv'
<1>1. SessionTyped' /\ session'.round = session.round
  BY DEF TurnInv, SessionTyped
<1>2. MembershipInv'
  BY <1>1, MembershipStays DEF TurnInv
<1> QED BY <1>1, <1>2 DEF TurnInv, RegistryTyped, CallsTyped, TurnsTyped, TurnsPinned

LEMMA BatchesMove ==
  ASSUME TurnInv,
         EndSession \/ FinishBatch \/ \E turns \in SUBSET {t \in LogicalTurns : t[2] = session.round} : StartBatch(turns)
  PROVE  TurnInv'
<1>1. CASE EndSession
  BY <1>1, SessionMoves DEF EndSession, TurnInv, CallsTyped, TurnsTyped
<1>2. CASE FinishBatch
  BY <1>2, SessionMoves DEF FinishBatch, FailByBudget, TurnInv, CallsTyped, TurnsTyped
<1>3. ASSUME NEW turns \in SUBSET {t \in LogicalTurns : t[2] = session.round}, StartBatch(turns) PROVE TurnInv'
  <2>1. CASE Breached(AgentsOf(turns))
    BY <1>3, <2>1, SessionMoves DEF StartBatch, FailByBudget, TurnInv, CallsTyped, TurnsTyped
  <2>2. CASE ~Breached(AgentsOf(turns))
    <3>1. /\ batch' = turns /\ UNCHANGED session /\ UNCHANGED <<registry, applied, applying, records, used>>
          /\ turn' = [t \in LogicalTurns |-> IF t \in turns
                        THEN [turn[t] EXCEPT !.phase = "running", !.attempt = 1] ELSE turn[t]]
          /\ \A t \in turns : turn[t].phase = "pinned"
      BY <1>3, <2>2 DEF StartBatch
    <3>2. ASSUME NEW t \in LogicalTurns
          PROVE  turn'[t] \in AgentTurnInputs /\ (turn[t].phase = "none" => turn'[t].phase = "none")
      <4>1. turn[t] \in AgentTurnInputs BY DEF TurnInv, TurnsTyped
      <4>2. CASE t \in turns
        <5>1. turn'[t] = [turn[t] EXCEPT !.phase = "running", !.attempt = 1] /\ turn[t].phase = "pinned" BY <3>1, <4>2
        <5>2. 1 \in 0..MaxAttempts BY AgentsAreVersioned
        <5> QED BY <4>1, <5>1, <5>2 DEF AgentTurnInputs
      <4>3. CASE t \notin turns BY <3>1, <4>1, <4>3
      <4> QED BY <4>2, <4>3
    <3>3. turn' \in [LogicalTurns -> AgentTurnInputs] BY <3>1, <3>2
    <3> QED BY <3>1, <3>2, <3>3, SessionMoves
  <2> QED BY <2>1, <2>2
<1> QED BY <1>1, <1>2, <1>3

(* A step of an activity. *)
LEMMA TurnMoves ==
  ASSUME TurnInv, NEW t \in LogicalTurns, turn[t].phase # "none", NEW row \in AgentTurnInputs,
         turn' = [turn EXCEPT ![t] = row],
         UNCHANGED <<registry, session, applied, applying, batch, used>>, CallsTyped'
  PROVE  TurnInv'
<1>1. MembershipInv'
  BY MembershipStays DEF TurnInv
<1>2. TurnsTyped' /\ TurnsPinned'
  BY DEF TurnInv, TurnsTyped, TurnsPinned
<1> QED BY <1>1, <1>2 DEF TurnInv, RegistryTyped, SessionTyped

LEMMA ActivitiesMove ==
  ASSUME TurnInv, NEW t \in LogicalTurns,
         \/ ProviderAnswers(t) \/ RejectTurn(t) \/ RecordCall(t) \/ ReturnTurn(t) \/ TimeoutTurn(t) \/ RetryTurn(t)
  PROVE  TurnInv'
<1> DEFINE row == turn[t]
<1>1. row \in AgentTurnInputs /\ turn \in [LogicalTurns -> AgentTurnInputs] /\ CallsTyped
  BY DEF TurnInv, TurnsTyped
<1>2. ASSUME NEW phase \in {"answered", "recorded", "failed", "conflict", "completed", "timeout"}, SetTurn(t, phase)
      PROVE  \E new \in AgentTurnInputs : turn' = [turn EXCEPT ![t] = new]
  <2>1. [row EXCEPT !.phase = phase] \in AgentTurnInputs
    BY <1>1 DEF AgentTurnInputs, DispatchOutcomes
  <2>2. turn' = [turn EXCEPT ![t] = [row EXCEPT !.phase = phase]]
    BY <1>1, <1>2 DEF SetTurn
  <2> QED BY <2>1, <2>2
<1>3. CASE RejectTurn(t) \/ ReturnTurn(t) \/ TimeoutTurn(t)
  <2>1. /\ \E phase \in {"failed", "completed", "timeout"} : SetTurn(t, phase)
        /\ row.phase # "none" /\ UNCHANGED <<registry, session, applied, applying, batch, records, used>>
    BY <1>3 DEF RejectTurn, ReturnTurn, TimeoutTurn
  <2>2. PICK new \in AgentTurnInputs : turn' = [turn EXCEPT ![t] = new]
    BY <1>2, <2>1
  <2>3. CallsTyped' BY <1>1, <2>1 DEF CallsTyped
  <2> QED BY <2>1, <2>2, <2>3, TurnMoves
<1>4. CASE ProviderAnswers(t)
  <2>1. PICK answer \in Answers : turn' = [turn EXCEPT ![t].phase = "answered", ![t].response = answer]
    BY <1>4 DEF ProviderAnswers
  <2>2. answer \in CallRecordRows
    BY RequestsAndAnswers DEF CallRecordRows
  <2> DEFINE new == [row EXCEPT !.phase = "answered", !.response = answer]
  <2>3. new \in AgentTurnInputs
    BY <1>1, <2>2 DEF AgentTurnInputs
  <2>4. turn' = [turn EXCEPT ![t] = new]
    BY <1>1, <2>1
  <2>5. row.phase # "none" /\ UNCHANGED <<registry, session, applied, applying, batch, records, used>>
    BY <1>4 DEF ProviderAnswers
  <2>6. CallsTyped' BY <1>1, <2>5 DEF CallsTyped
  <2> QED BY <2>3, <2>4, <2>5, <2>6, TurnMoves
<1>5. CASE RecordCall(t)
  <2>1. /\ \E phase \in {"recorded", "conflict"} : SetTurn(t, phase)
        /\ row.phase # "none" /\ UNCHANGED <<registry, session, applied, applying, batch, used>>
    BY <1>5 DEF RecordCall
  <2>2. PICK new \in AgentTurnInputs : turn' = [turn EXCEPT ![t] = new]
    BY <1>2, <2>1
  <2>3. CallsTyped'
    <3>1. row.response \in CallRecordRows BY <1>1 DEF AgentTurnInputs
    <3>2. \/ UNCHANGED records
          \/ records' = [u \in DOMAIN records \cup {t} |-> IF u = t THEN row.response ELSE records[u]]
      BY <1>5 DEF RecordCall
    <3> QED BY <1>1, <2>1, <3>1, <3>2 DEF CallsTyped
  <2> QED BY <2>1, <2>2, <2>3, TurnMoves
<1>6. CASE RetryTurn(t)
  <2> DEFINE new == IF row.attempt < MaxAttempts
                    THEN [phase |-> "running", attempt |-> row.attempt + 1, response |-> NoResponse]
                    ELSE [row EXCEPT !.phase = "failed"]
  <2>1. turn' = [turn EXCEPT ![t] = new]
    BY <1>1, <1>6 DEF RetryTurn
  <2>2. new \in AgentTurnInputs
    BY <1>1, AgentsAreVersioned DEF AgentTurnInputs, DispatchOutcomes, NoResponse, CallRecordRows
  <2>3. row.phase # "none" /\ UNCHANGED <<registry, session, applied, applying, batch, records, used>>
    BY <1>6 DEF RetryTurn
  <2>4. CallsTyped' BY <1>1, <2>3 DEF CallsTyped
  <2> HIDE DEF new
  <2> QED BY <2>1, <2>2, <2>3, <2>4, TurnMoves
<1> QED BY <1>3, <1>4, <1>5, <1>6

LEMMA TurnPinned ==
  ASSUME TurnInv, NEW a \in Agents, PinTurn(a) PROVE TurnInv'
<1> DEFINE round == session.round
           members == Replayed(applied, round)
<1>1. /\ round >= 1 /\ a \in ToSet(members)
      /\ turn' = [turn EXCEPT ![<<a, round>>].phase = "pinned"]
      /\ used' = [used EXCEPT ![round] = IF @ = <<>> THEN members ELSE @]
      /\ UNCHANGED <<registry, session, applied, applying, batch, records>>
  BY DEF PinTurn
<1>2. round \in AgentRounds /\ round \in Nat
  BY <1>1, AgentsAreVersioned DEF TurnInv, SessionTyped, AgentRounds
<1>3. <<a, round>> \in LogicalTurns
  BY <1>2 DEF LogicalTurns
<1>4. members \in Seq(DOMAIN registry)
  BY <1>2 DEF TurnInv, MembershipInv, MembersReadable
<1>5. used \in [AgentRounds -> Seq(DOMAIN registry)] /\ (used[round] # <<>> => used[round] = members)
  BY <1>2 DEF TurnInv, MembershipInv, PinnedForGood
<1> HIDE DEF members
<1>6. used' \in [AgentRounds -> Seq(DOMAIN registry)] /\ used'[round] = members
      /\ \A k \in AgentRounds : k # round => used'[k] = used[k]
  BY <1>1, <1>2, <1>4, <1>5
<1>7. PinnedForGood'
  <2>1. \A k \in AgentRounds : used[k] # <<>> => k <= round /\ used[k] = Replayed(applied, k)
    BY DEF TurnInv, MembershipInv, PinnedForGood
  <2>2. ASSUME NEW k \in AgentRounds, used'[k] # <<>> PROVE k <= round /\ used'[k] = Replayed(applied, k)
    BY <1>2, <1>6, <2>1, <2>2 DEF members
  <2> QED BY <1>1, <1>6, <2>2 DEF PinnedForGood
<1>8. HistoryInOrder' /\ OneIntervenes' /\ MembersReadable'
  BY <1>1 DEF TurnInv, MembershipInv, HistoryInOrder, OneIntervenes, MembersReadable
<1>9. TurnsTyped'
  BY <1>1, <1>3 DEF TurnInv, TurnsTyped, AgentTurnInputs
<1>10. TurnsPinned'
  <2> SUFFICES ASSUME NEW t \in LogicalTurns, turn'[t].phase # "none" PROVE t[1] \in ToSet(used'[t[2]])
    BY DEF TurnsPinned
  <2>1. CASE t = <<a, round>>
    BY <1>1, <1>6, <2>1
  <2>2. CASE t # <<a, round>>
    <3>1. turn'[t] = turn[t] BY <1>1, <2>2 DEF TurnInv, TurnsTyped
    <3>2. t[1] \in ToSet(used[t[2]]) BY <3>1 DEF TurnInv, TurnsPinned
    <3>3. t[2] \in AgentRounds BY DEF LogicalTurns
    <3>4. CASE t[2] # round BY <1>6, <3>2, <3>3, <3>4
    <3>5. CASE t[2] = round
      <4>1. used[round] # <<>> BY <3>2, <3>5 DEF ToSet
      <4> QED BY <1>5, <1>6, <3>2, <3>5, <4>1
    <3> QED BY <3>4, <3>5
  <2> QED BY <2>1, <2>2
<1> QED BY <1>1, <1>7, <1>8, <1>9, <1>10 DEF TurnInv, MembershipInv, RegistryTyped, SessionTyped, CallsTyped

LEMMA TurnStep == TurnInv /\ [TurnsNext]_turnVars => TurnInv'
<1> SUFFICES ASSUME TurnInv, [TurnsNext]_turnVars PROVE TurnInv' OBVIOUS
<1>1. CASE UNCHANGED turnVars
  <2>1. MembershipInv' BY <1>1, MembershipStays DEF TurnInv, turnVars
  <2> QED BY <1>1, <2>1 DEF turnVars, TurnInv, RegistryTyped, SessionTyped, CallsTyped, TurnsTyped, TurnsPinned
<1>2. CASE TurnsNext
  BY <1>2, RegistryGrows, InterventionChecked, InterventionWritten, InterventionAborted, RoundAdvanced,
     BatchesMove, TurnPinned, ActivitiesMove DEF TurnsNext
<1> QED BY <1>1, <1>2

(* For every set of agents, interventions and rounds: the membership of any  *)
(* round can be read back, has one version of each logical agent, and is the *)
(* one the round's turns were pinned from, whatever interventions are        *)
(* checked, written or rolled back around them (SessionMembershipCoordinator *)
(* .apply, SqlAlchemyCoordinatorPolicyStore.membership).                     *)
THEOREM MembershipsReplay == TurnsSpec => []MembershipReplays
<1>1. TurnInv => MembershipReplays
  <2>1. \A k \in AgentRounds : k \in Nat BY AgentsAreVersioned DEF AgentRounds
  <2> QED BY <2>1 DEF TurnInv, MembershipInv, MembersReadable, PinnedForGood, TurnsPinned, MembershipReplays
<1> QED BY <1>1, TurnStarts, TurnStep, PTL DEF TurnsSpec

(* The definitions, the history, the turns and the recorded calls are what   *)
(* their tables and messages admit, and refer to definitions that exist.     *)
THEOREM TurnsTyping == TurnsSpec => []TurnsTypeOK
<1>1. TurnInv => TurnsTypeOK
  BY DEF TurnInv, MembershipInv, RegistryTyped, SessionTyped, CallsTyped, HistoryInOrder, OneIntervenes,
         PinnedForGood, TurnsTyped, TurnsTypeOK
<1> QED BY <1>1, TurnStarts, TurnStep, PTL DEF TurnsSpec
=============================================================================
