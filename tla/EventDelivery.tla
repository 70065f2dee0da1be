--------------------------- MODULE EventDelivery ----------------------------
(***************************************************************************)
(* The event bus: publish, subscribe, deliver.  One module for the two     *)
(* adapters behind the port, chosen when the process starts.               *)
(*                                                                         *)
(*   "nats"    a JetStream stream and one durable consumer per subject and *)
(*             group (external): it delivers a stored message again until  *)
(*             it is acknowledged, terminated or out of deliveries;        *)
(*   "memory"  publish stores the event and calls one handler of every     *)
(*             group, one after the other, in the publisher's own task.    *)
(*                                                                         *)
(* A delivery is a handler call under way; a slow handler, a crash of its  *)
(* process and a lost publish acknowledgement may happen at any point.     *)
(*                                                                         *)
(* read_from is not modelled: nothing in the application calls it, clients *)
(* catch up from the ledger (RealtimeStream).                              *)
(*                                                                         *)
(* Sources: backend/app/adapters/nats/event_bus.py,                        *)
(* adapters/inmemory/event_bus.py, ports/event_bus.py, db/realtime.py.     *)
(***************************************************************************)
EXTENDS Integers, Sequences, FiniteSets

CONSTANTS
  BusEvents,     \* events a session publishes
  Undecodable,   \* those whose stored payload no consumer can parse
  BusGroups,     \* consumer groups, in the order of their names
  MaxDeliver,    \* deliveries of one message to one group
  MaxPublished   \* bound: messages stored

ASSUME BusBounds == MaxDeliver \in Nat \ {0} /\ MaxPublished \in Nat /\ Undecodable \subseteq BusEvents
                    /\ BusGroups \in Seq(STRING)

VARIABLES
  adapter,    \* "nats" or "memory"
  stored,     \* the subject's messages, in order
  joined,     \* [groups -> first message of the group's queue, 0 before it subscribes]
  queue,      \* [groups -> [messages -> "waiting", "acked", "terminated"]]
  tries,      \* [groups -> [messages -> deliveries made]]
  deliveries, \* handler calls under way: [group, message, try, step]
  publishing, \* "memory": the handler calls a publish or a backlog has still to make
  handled,    \* pairs of group and message whose handler has returned
  failed      \* history: group, message and try of the handler calls that failed

busVars == <<adapter, stored, joined, queue, tries, deliveries, publishing, handled, failed>>

GroupNames == {BusGroups[k] : k \in DOMAIN BusGroups}
Positions == 1..MaxPublished
Subscribed(g, i) == joined[g] > 0 /\ joined[g] <= i

(* Envelopes in stored order (ledger_seq is the position), subscriptions and *)
(* deliveries to a member of a group.                                        *)
StoredEnvelopes == Seq(BusEvents)
Subscriptions == [GroupNames -> 0..(MaxPublished + 1)]
HandlerCalls == [group : GroupNames, message : Positions]
DeliveredCalls == [group : GroupNames, message : Positions, try : 1..MaxDeliver, step : {"received", "handled"}]
-----------------------------------------------------------------------------
(* _select_deliveries: one member of every subscribed group, by group name.  *)
Targets(i) == [k \in 1..Len(SelectSeq(BusGroups, LAMBDA g : joined[g] > 0)) |->
                [group |-> SelectSeq(BusGroups, LAMBDA g : joined[g] > 0)[k], message |-> i]]

Calls(sequence) == IF adapter = "memory" /\ sequence # <<>> THEN {sequence} ELSE {}

(* publish: the event is stored, and in memory its handlers are called.  A   *)
(* publisher whose acknowledgement is lost may publish the event again.      *)
Publish(e) ==
  /\ Len(stored) < MaxPublished /\ (adapter = "memory" => e \notin Undecodable)
  /\ stored' = Append(stored, e)
  /\ publishing' = publishing \cup Calls(Targets(Len(stored) + 1))
  /\ UNCHANGED <<adapter, joined, queue, tries, deliveries, handled, failed>>

(* subscribe: from the first message or from the next one; in memory the     *)
(* backlog is handed to the new handler event by event.                      *)
Subscribe(g, from_start) ==
  /\ joined[g] = 0
  /\ joined' = [joined EXCEPT ![g] = IF from_start THEN 1 ELSE Len(stored) + 1]
  /\ publishing' = publishing \cup
       (IF from_start THEN Calls([i \in 1..Len(stored) |-> [group |-> g, message |-> i]]) ELSE {})
  /\ UNCHANGED <<adapter, stored, queue, tries, deliveries, handled, failed>>

(* JetStream hands a message to a member of the group: the first time, after *)
(* a nak, or when ack_wait is over although a handler still has it.          *)
Deliver(g, i) ==
  /\ adapter = "nats" /\ i <= Len(stored) /\ Subscribed(g, i)
  /\ queue[g][i] = "waiting" /\ tries[g][i] < MaxDeliver
  /\ tries' = [tries EXCEPT ![g][i] = @ + 1]
  /\ deliveries' = deliveries \cup
       {[group |-> g, message |-> i, try |-> tries[g][i] + 1, step |-> "received"]}
  /\ UNCHANGED <<adapter, stored, joined, queue, publishing, handled, failed>>

Leave(d, state) == queue' = [queue EXCEPT ![d.group][d.message] = IF @ = "waiting" THEN state ELSE @]

(* _on_msg: what cannot be parsed is terminated. *)
TerminatePoison(d) ==
  /\ d.step = "received" /\ stored[d.message] \in Undecodable
  /\ deliveries' = deliveries \ {d} /\ Leave(d, "terminated")
  /\ UNCHANGED <<adapter, stored, joined, tries, publishing, handled, failed>>

(* _on_msg: the handler returns... *)
HandlerReturns(d) ==
  /\ d.step = "received" /\ stored[d.message] \notin Undecodable
  /\ deliveries' = (deliveries \ {d}) \cup {[d EXCEPT !.step = "handled"]}
  /\ handled' = handled \cup {<<d.group, d.message>>}
  /\ UNCHANGED <<adapter, stored, joined, queue, tries, publishing, failed>>

(* ... and only then is the message acknowledged. *)
Acknowledge(d) ==
  /\ d.step = "handled"
  /\ deliveries' = deliveries \ {d} /\ Leave(d, "acked")
  /\ UNCHANGED <<adapter, stored, joined, tries, publishing, handled, failed>>

(* A handler call that ends without its return. *)
Failing(d) == IF d.step = "received" THEN {<<d.group, d.message, d.try>>} ELSE {}

(* Mutant: the message is acknowledged however its handler ends. *)
AcknowledgeAnyway(d) ==
  /\ deliveries' = deliveries \ {d} /\ failed' = failed \cup Failing(d) /\ Leave(d, "acked")
  /\ UNCHANGED <<adapter, stored, joined, tries, publishing, handled>>

(* The handler raises and the message is nacked, or its process dies. *)
HandlerFails(d) ==
  /\ deliveries' = deliveries \ {d} /\ failed' = failed \cup Failing(d)
  /\ UNCHANGED <<adapter, stored, joined, queue, tries, publishing, handled>>

(* _invoke: the next handler of a publish or of a backlog.  One that raises  *)
(* ends the publish, and the handlers after it are not called.               *)
InvokeReturns(p) ==
  /\ publishing' = (publishing \ {p}) \cup Calls(Tail(p))
  /\ handled' = handled \cup {<<Head(p).group, Head(p).message>>}
  /\ UNCHANGED <<adapter, stored, joined, queue, tries, deliveries, failed>>
InvokeRaises(p) ==
  /\ publishing' = publishing \ {p}
  /\ failed' = failed \cup {<<Head(p).group, Head(p).message, 1>>}
  /\ UNCHANGED <<adapter, stored, joined, queue, tries, deliveries, handled>>

BusInit ==
  /\ adapter \in {"nats", "memory"} /\ stored = <<>> /\ joined = [g \in GroupNames |-> 0]
  /\ queue = [g \in GroupNames |-> [i \in Positions |-> "waiting"]]
  /\ tries = [g \in GroupNames |-> [i \in Positions |-> 0]]
  /\ deliveries = {} /\ publishing = {} /\ handled = {} /\ failed = {}

BusNext ==
  \/ \E e \in BusEvents : Publish(e)
  \/ \E g \in GroupNames : \/ \E from_start \in BOOLEAN : Subscribe(g, from_start)
                          \/ \E i \in Positions : Deliver(g, i)
  \/ \E d \in deliveries : TerminatePoison(d) \/ HandlerReturns(d) \/ Acknowledge(d) \/ HandlerFails(d)
  \/ \E p \in publishing : InvokeRaises(p) \/ InvokeReturns(p)

BusSpec == BusInit /\ [][BusNext]_busVars
-----------------------------------------------------------------------------
(* The types: every delivery and every handler call is of a stored message   *)
(* and a subscribed group, and no message is delivered too often.            *)
BusTypeOK ==
  /\ adapter \in {"nats", "memory"} /\ stored \in StoredEnvelopes /\ Len(stored) <= MaxPublished
  /\ joined \in Subscriptions
  /\ queue \in [GroupNames -> [Positions -> {"waiting", "acked", "terminated"}]]
  /\ tries \in [GroupNames -> [Positions -> 0..MaxDeliver]]
  /\ deliveries \subseteq DeliveredCalls /\ publishing \subseteq Seq(HandlerCalls)
  /\ \A d \in deliveries : Subscribed(d.group, d.message) /\ d.message <= Len(stored)
  /\ handled \subseteq GroupNames \X (1..Len(stored))
  /\ failed \subseteq GroupNames \X (1..Len(stored)) \X (1..MaxDeliver)
-----------------------------------------------------------------------------
(* JetStream will not hand the message to the group again, and no handler    *)
(* call for it is under way.                                                 *)
Settled(g, i) ==
  /\ queue[g][i] # "waiting" \/ tries[g][i] = MaxDeliver
  /\ \A d \in deliveries : ~(d.group = g /\ d.message = i)

(* A group loses a message in one way only.  Once nothing will deliver it    *)
(* again, a handler of the group has returned for it, or no consumer can     *)
(* parse it, or each of its MaxDeliver deliveries ended in a failure of the  *)
(* handler or of its process: _on_msg acknowledges after the handler,        *)
(* however deliveries of one message overlap, and a delivery that is still   *)
(* under way when another one settles the message cannot undo that.          *)
LostOnlyByFailing ==
  \A g \in GroupNames, i \in Positions :
    Settled(g, i) => \/ <<g, i>> \in handled
                     \/ stored[i] \in Undecodable
                     \/ \A n \in 1..MaxDeliver : <<g, i, n>> \in failed
=============================================================================
