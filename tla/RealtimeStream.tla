--------------------------- MODULE RealtimeStream ---------------------------
(***************************************************************************)
(* Server-sent events over the ledger.  After its commit a transaction's   *)
(* events are published to the event bus, where they may be lost; the bus  *)
(* only wakes the streams, which read the ledger from their own position.  *)
(* A client that is disconnected comes back with the last id it received.  *)
(*                                                                         *)
(* Sources: backend/app/db/realtime.py, backend/app/api/routes/realtime.py.*)
(***************************************************************************)
EXTENDS ReasoningLedger, FiniteSets

CONSTANTS Clients,    \* SSE clients of the session
          PageSize,   \* rows one read returns at most
          MaxDrops    \* bound: connections lost

ASSUME StreamAssumption == PageSize \in Nat \ {0} /\ MaxDrops \in Nat

VARIABLES
  unpublished,  \* ledger_seq of events committed and not yet published
  announced,    \* ledger_seq of events whose publication reached the gateway
  stream,       \* each client's stream: step, next_seq, wakeup, page, terminal
  received,     \* what each client has received, over all its connections
  drops         \* connections lost so far

streamVars == <<unpublished, announced, stream, received, drops>>
vars == <<ledgerVars, streamVars>>

Closed == [step |-> "closed", next_seq |-> 1, wakeup |-> FALSE, page |-> <<>>,
           full |-> FALSE, terminal |-> FALSE]

StreamInit ==
  /\ unpublished = {} /\ announced = {}
  /\ stream = [c \in Clients |-> Closed]
  /\ received = [c \in Clients |-> <<>>]
  /\ drops = 0

SInit == Init /\ StreamInit
-----------------------------------------------------------------------------
(* A transaction's step; committing leaves its new rows to be published. *)
LedgerStep ==
  /\ Next
  /\ unpublished' = unpublished \cup ((Len(events) + 1)..Len(events'))
  /\ UNCHANGED <<announced, stream, received, drops>>

(* LedgerEventPublisher.publish and _wake: every open stream of the session. *)
Publish(n) ==
  /\ unpublished' = unpublished \ {n}
  /\ announced' = announced \cup {n}
  /\ stream' = [c \in Clients |-> IF stream[c].step \in {"closed", "returned"}
                                  THEN stream[c]
                                  ELSE [stream[c] EXCEPT !.wakeup = TRUE]]
  /\ UNCHANGED <<ledgerVars, received, drops>>

(* The publication fails (logged, not raised) or its process dies. *)
PublicationLost(n) ==
  /\ unpublished' = unpublished \ {n}
  /\ UNCHANGED <<ledgerVars, announced, stream, received, drops>>
-----------------------------------------------------------------------------
SetStream(c, s) ==
  /\ stream' = [stream EXCEPT ![c] = s]
  /\ UNCHANGED <<ledgerVars, unpublished, announced>>

(* GET /events/stream with Last-Event-ID: the wakeup is registered. *)
Connect(c) ==
  /\ stream[c].step = "closed"
  /\ SetStream(c, [Closed EXCEPT !.step = "clear", !.next_seq = Len(received[c]) + 1])
  /\ UNCHANGED <<received, drops>>

ClearWakeup(c) ==
  /\ stream[c].step = "clear"
  /\ SetStream(c, [stream[c] EXCEPT !.step = "lifecycle", !.wakeup = FALSE])
  /\ UNCHANGED <<received, drops>>

(* _read, first statement: the lifecycle row. *)
ReadLifecycle(c) ==
  /\ stream[c].step = "lifecycle"
  /\ SetStream(c, [stream[c] EXCEPT !.step = "events", !.terminal = ended])
  /\ UNCHANGED <<received, drops>>

(* Mutant: the page starts behind from_seq. *)
PageAfter(from_seq) ==
  LET matching == {i \in 1..Len(events) : events[i].seq > from_seq}
      first == CHOOSE i \in matching : \A j \in matching : i <= j
      last == IF first + PageSize <= Len(events) THEN first + PageSize - 1 ELSE Len(events)
  IN IF matching = {} THEN <<>> ELSE SubSeq(events, first, last)

(* The first PageSize committed rows with ledger_seq >= from_seq, in order. *)
Page(from_seq) ==
  LET matching == {i \in 1..Len(events) : events[i].seq >= from_seq}
      first == CHOOSE i \in matching : \A j \in matching : i <= j
      last == IF first + PageSize <= Len(events) THEN first + PageSize - 1 ELSE Len(events)
  IN IF matching = {} THEN <<>> ELSE SubSeq(events, first, last)

(* _read, second statement: a page of rows from next_seq on. *)
ReadEvents(c) ==
  /\ stream[c].step = "events"
  /\ LET page == Page(stream[c].next_seq)
     IN SetStream(c, [stream[c] EXCEPT !.page = page, !.full = page # <<>>,
                                       !.step = "emit"])
  /\ UNCHANGED <<received, drops>>

Emit(c) ==
  /\ stream[c].step = "emit" /\ stream[c].page # <<>>
  /\ LET e == Head(stream[c].page)
     IN /\ SetStream(c, [stream[c] EXCEPT !.page = Tail(@), !.next_seq = e.seq + 1])
        /\ received' = [received EXCEPT ![c] = Append(@, e)]
  /\ UNCHANGED drops

(* Mutant: the lifecycle is looked at after the page. *)
OverNow(c) == ended

(* The session had ended when the lifecycle row was read. *)
Over(c) == stream[c].terminal

(* Mutant: the wakeup is cleared before the wait instead of before the read. *)
ClearAndWait(c) == [stream[c] EXCEPT !.step = "wait", !.wakeup = FALSE]

Wait(c) == [stream[c] EXCEPT !.step = "wait"]

(* The page is out: read on, return when the session had ended, or wait. *)
PageDone(c) ==
  /\ stream[c].step = "emit" /\ stream[c].page = <<>>
  /\ SetStream(c, IF stream[c].full
                  THEN [stream[c] EXCEPT !.step = "clear", !.full = FALSE]
                  ELSE IF Over(c)
                  THEN [Closed EXCEPT !.step = "returned"]
                  ELSE Wait(c))
  /\ UNCHANGED <<received, drops>>

(* Mutant: no heartbeat, only the bus resumes a stream. *)
ResumeWhenWoken(c) ==
  /\ stream[c].step = "wait" /\ stream[c].wakeup
  /\ SetStream(c, [stream[c] EXCEPT !.step = "clear"])
  /\ UNCHANGED <<received, drops>>

(* The wakeup is set, or the heartbeat interval passes (: keep-alive). *)
Resume(c) ==
  /\ stream[c].step = "wait"
  /\ SetStream(c, [stream[c] EXCEPT !.step = "clear"])
  /\ UNCHANGED <<received, drops>>

(* The connection is lost; the stream's finally drops its wakeup. *)
Disconnect(c) ==
  /\ stream[c].step \notin {"closed", "returned"}
  /\ drops < MaxDrops
  /\ drops' = drops + 1
  /\ SetStream(c, Closed)
  /\ UNCHANGED received

StreamStep(c) ==
  \/ Connect(c) \/ ClearWakeup(c) \/ ReadLifecycle(c) \/ ReadEvents(c) \/ Emit(c)
  \/ PageDone(c) \/ Resume(c)

SNext ==
  \/ LedgerStep
  \/ \E n \in unpublished : Publish(n) \/ PublicationLost(n)
  \/ \E c \in Clients : StreamStep(c) \/ Disconnect(c)

SSpec == SInit /\ [][SNext]_vars

(* The event loop runs every stream (a waiting one at its next heartbeat)   *)
(* and an SSE client reconnects.                                             *)
FairSSpec == SSpec /\ \A c \in Clients : WF_vars(StreamStep(c))
-----------------------------------------------------------------------------
(* The types of the ledger, the publications and the streams. *)
TypeOK ==
  /\ LedgerTypeOK
  /\ unpublished \subseteq Nat /\ announced \subseteq Nat
  /\ stream \in [Clients -> [step : {"closed", "clear", "lifecycle", "events", "emit",
                                     "wait", "returned"},
                             next_seq : Nat, wakeup : BOOLEAN, page : Seq(Rows),
                             full : BOOLEAN, terminal : BOOLEAN]]
  /\ received \in [Clients -> Seq(Rows)]
  /\ drops \in 0..MaxDrops

(* Every client has received a prefix of the ledger: no event skipped,       *)
(* repeated or out of order, over any number of connections.                 *)
ReceivedIsPrefix ==
  \A c \in Clients : /\ Len(received[c]) <= Len(events)
                     /\ received[c] = SubSeq(events, 1, Len(received[c]))

(* A stream that ends by itself has delivered the whole session: the server  *)
(* never closes it on a client that has not seen what a transaction that     *)
(* ended the session recorded.                                               *)
ReturnedIsComplete ==
  \A c \in Clients : stream[c].step = "returned" =>
    \E t \in Ending : \A n \in 1..Len(Work[t]) :
      \E i \in 1..Len(received[c]) : received[c][i].request = Work[t][n]

(* No lost wakeup: a stream that waits with its wakeup unset has delivered   *)
(* every event whose publication has reached the gateway.                    *)
NoLostWakeup ==
  \A c \in Clients : stream[c].step = "wait" /\ ~stream[c].wakeup =>
    \A n \in announced : n < stream[c].next_seq

(* Every committed event reaches every client, lost publications and dropped *)
(* connections notwithstanding, unless the stream ended with the session.    *)
Delivered ==
  \A c \in Clients, n \in 1..Cardinality(EventIds) :
    Len(events) >= n ~> Len(received[c]) >= n \/ stream[c].step = "returned"
=============================================================================
