-------------------------- MODULE ReasoningLedger --------------------------
(***************************************************************************)
(* The append-only, hash-chained event ledger of one session, written by   *)
(* concurrent caller-owned transactions.  A transaction appends a list of  *)
(* events with preallocated identities; it may roll back anywhere and be   *)
(* repeated, also after it has committed (a retried activity or request).  *)
(* PostgreSQL shows a transaction what others committed (READ COMMITTED)   *)
(* and its own writes; the lock on the head row is held until it ends.     *)
(*                                                                         *)
(* Sources: backend/app/db/reasoning_ledger.py,                            *)
(* backend/app/domain/reasoning_ledger.py.                                 *)
(***************************************************************************)
EXTENDS Naturals, Sequences

CONSTANTS
  Writers,     \* transactions
  EventIds,    \* preallocated event identities
  Contents,    \* the caller's other immutable values
  Work,        \* the events each transaction appends, in order
  Ending,      \* the transactions that also end the session's lifecycle
  None         \* nobody holds the lock

Requests == [id : EventIds, content : Contents]

ASSUME WorkAssumption ==
  /\ Work \in [Writers -> Seq(Requests)]
  /\ Ending \subseteq Writers
  /\ None \notin Writers

VARIABLES
  events,   \* committed rows of reasoning_events, in ledger_seq order
  head,     \* the committed session_ledger_heads row: next_seq and head_hash
  ended,    \* the lifecycle row is terminal
  lock,     \* the transaction that holds the head row FOR UPDATE
  tx        \* each transaction: step, requests done, rows it has added

ledgerVars == <<events, head, ended, lock, tx>>

(* The hash of an event covers its own values and the hash before it; hashes *)
(* are free of collisions, so a hash stands for the chain it covers.         *)
GenesisHash == <<>>

LedgerEventHash(seq, request, prev) == Append(prev, [seq |-> seq, request |-> request])

Row(seq, request, prev) ==
  [seq |-> seq, request |-> request, prev_hash |-> prev,
   event_hash |-> LedgerEventHash(seq, request, prev)]

(* _verify_events: contiguous sequence, each hash over the one before, and  *)
(* the head at the end of the chain.                                         *)
VerifyEvents(rows, h) ==
  /\ \A i \in 1..Len(rows) :
       /\ rows[i].seq = i
       /\ rows[i].prev_hash = IF i = 1 THEN GenesisHash ELSE rows[i - 1].event_hash
       /\ rows[i].event_hash = LedgerEventHash(rows[i].seq, rows[i].request, rows[i].prev_hash)
  /\ h.next_seq = Len(rows) + 1
  /\ h.head_hash = IF rows = <<>> THEN GenesisHash ELSE rows[Len(rows)].event_hash

(* What transaction t sees of the ledger: committed rows and its own. *)
Visible(t) == events \o tx[t].added

HeadSeenBy(t) ==
  IF tx[t].added = <<>>
  THEN head
  ELSE LET last == tx[t].added[Len(tx[t].added)]
       IN [next_seq |-> last.seq + 1, head_hash |-> last.event_hash]

(* The request the transaction is working on. *)
Request(t) == Work[t][tx[t].done + 1]

(* _event_by_id finds a row with this identity. *)
Existing(t) == \E i \in 1..Len(Visible(t)) : Visible(t)[i].request.id = Request(t).id

(* Mutant: the lookup under the lock is left out. *)
NotSoughtAgain(t) == FALSE

(* _event_by_id a second time, now that the head row is locked. *)
FoundUnderLock(t) == Existing(t)

(* Mutant: an identity is enough. *)
AnyValues(t) == TRUE

(* _idempotent_result: the row found carries the requested values. *)
SameValues(t) ==
  \A i \in 1..Len(Visible(t)) :
    Visible(t)[i].request.id = Request(t).id => Visible(t)[i].request = Request(t)

Idle == [step |-> "idle", done |-> 0, added |-> <<>>]

Init ==
  /\ events = <<>>
  /\ head = [next_seq |-> 1, head_hash |-> GenesisHash]
  /\ ended = FALSE
  /\ lock = None
  /\ tx = [t \in Writers |-> Idle]

(* Transaction t has done this many requests, with these rows of its own. *)
Move(t, step, done, added) ==
  tx' = [tx EXCEPT ![t] = [step |-> step, done |-> done, added |-> added]]

Release(t) == lock' = IF lock = t THEN None ELSE lock
-----------------------------------------------------------------------------
Begin(t) ==
  /\ tx[t].step = "idle"
  /\ Move(t, "append", 0, <<>>)
  /\ UNCHANGED <<events, head, ended, lock>>

(* The request is worked off; rows are the transaction's own from now on. *)
Advance(t, rows) == Move(t, "append", tx[t].done + 1, rows)

(* append's first look, before the lock: an event already there is returned. *)
Look(t) ==
  /\ tx[t].step = "append"
  /\ tx[t].done < Len(Work[t])
  /\ IF Existing(t)
     THEN SameValues(t) /\ Advance(t, tx[t].added)
     ELSE Move(t, "lock", tx[t].done, tx[t].added)
  /\ UNCHANGED <<events, head, ended, lock>>

(* Mutant: the head row is read without a lock. *)
ReadHead(t) == lock' = t

(* SELECT ... FOR UPDATE of the head row, held until the transaction ends. *)
LockHead(t) == lock \in {None, t} /\ lock' = t

(* The head row is locked, the event looked up again, and else inserted at  *)
(* the head, which moves behind it.                                          *)
AppendLocked(t) ==
  /\ tx[t].step = "lock"
  /\ LockHead(t)
  /\ IF FoundUnderLock(t)
     THEN SameValues(t) /\ Advance(t, tx[t].added)
     ELSE LET h == HeadSeenBy(t)
          IN Advance(t, Append(tx[t].added, Row(h.next_seq, Request(t), h.head_hash)))
  /\ UNCHANGED <<events, head, ended>>

Commit(t) ==
  /\ tx[t].step = "append"
  /\ tx[t].done = Len(Work[t])
  /\ events' = Visible(t)
  /\ head' = HeadSeenBy(t)
  /\ ended' = (ended \/ t \in Ending)
  /\ Release(t)
  /\ Move(t, "committed", 0, <<>>)

(* LedgerIntegrityError, a database failure or a crash before the commit. *)
Rollback(t) ==
  /\ tx[t].step \in {"append", "lock"}
  /\ Release(t)
  /\ Move(t, "idle", 0, <<>>)
  /\ UNCHANGED <<events, head, ended>>

(* The caller repeats a transaction whose commit it did not learn of. *)
Repeat(t) ==
  /\ tx[t].step = "committed"
  /\ Move(t, "idle", 0, <<>>)
  /\ UNCHANGED <<events, head, ended, lock>>

Next ==
  \E t \in Writers :
    Begin(t) \/ Look(t) \/ AppendLocked(t) \/ Commit(t) \/ Rollback(t) \/ Repeat(t)

Spec == Init /\ [][Next]_ledgerVars
-----------------------------------------------------------------------------
Rows == [seq : Nat, request : Requests, prev_hash : Seq([seq : Nat, request : Requests]),
         event_hash : Seq([seq : Nat, request : Requests])]

(* The types of the ledger rows, its head and the open transactions. *)
LedgerTypeOK ==
  /\ events \in Seq(Rows)
  /\ head \in [next_seq : Nat, head_hash : Seq([seq : Nat, request : Requests])]
  /\ ended \in BOOLEAN
  /\ lock \in Writers \cup {None}
  /\ tx \in [Writers -> [step : {"idle", "append", "lock", "committed"}, done : Nat,
                         added : Seq(Rows)]]

(* However transactions interleave, fail and repeat, verify() would find the *)
(* committed ledger valid: contiguous, unbroken, the head at its end.        *)
LedgerVerifies == VerifyEvents(events, head)

(* Every identity is recorded once, though transactions are repeated and two *)
(* of them may carry the same event.                                         *)
RecordedOnce ==
  \A i, j \in 1..Len(events) : events[i].request.id = events[j].request.id => i = j

(* A committed transaction's events are all in the ledger: none is committed *)
(* in part, and idempotent appends stand for rows that are there.            *)
CommittedWhole ==
  \A t \in Writers : tx[t].step = "committed" =>
    \A n \in 1..Len(Work[t]) : \E i \in 1..Len(events) : events[i].request = Work[t][n]
=============================================================================
