------------------------ MODULE ReasoningLedgerProofs ------------------------
(***************************************************************************)
(* Proofs about the ledger for any number of transactions, of events in    *)
(* each of them, and of repetitions, and about the streams that read it,   *)
(* for any number of clients, lost publications and dropped connections    *)
(* and every page size.                                                    *)
(***************************************************************************)
EXTENDS RealtimeStream, SequenceTheorems, TLAPS

Hashes == Seq([seq : Nat, request : Requests])
Heads == [next_seq : Nat, head_hash : Hashes]

UniqueIds(rows) ==
  \A i, j \in 1..Len(rows) : rows[i].request.id = rows[j].request.id => i = j

Contains(rows, request) == \E i \in 1..Len(rows) : rows[i].request = request

HeadAfter(row) == [next_seq |-> row.seq + 1, head_hash |-> row.event_hash]

(* Appending at the head keeps a verified chain verified. *)
LEMMA ChainExtends ==
  ASSUME NEW rows \in Seq(Rows), NEW h \in Heads, NEW request \in Requests,
         VerifyEvents(rows, h)
  PROVE  LET r == Row(h.next_seq, request, h.head_hash)
         IN r \in Rows /\ HeadAfter(r) \in Heads /\ VerifyEvents(Append(rows, r), HeadAfter(r))
<1> DEFINE r == Row(h.next_seq, request, h.head_hash)
           new == Append(rows, r)
<1>1. h.next_seq \in Nat /\ h.head_hash \in Hashes
  BY DEF Heads
<1>2. LedgerEventHash(h.next_seq, request, h.head_hash) \in Hashes
  <2>1. [seq |-> h.next_seq, request |-> request] \in [seq : Nat, request : Requests]
    BY <1>1
  <2> QED BY <1>1, <2>1, AppendProperties DEF LedgerEventHash, Hashes
<1>3. /\ r.seq = h.next_seq /\ r.request = request /\ r.prev_hash = h.head_hash
      /\ r.event_hash = LedgerEventHash(h.next_seq, request, h.head_hash)
  BY DEF Row
<1>4. r \in Rows
  BY <1>1, <1>2 DEF Row, Rows, Hashes
<1>5. HeadAfter(r) \in Heads /\ HeadAfter(r).next_seq = r.seq + 1
        /\ HeadAfter(r).head_hash = r.event_hash
  BY <1>1, <1>2, <1>3 DEF HeadAfter, Heads
<1> HIDE DEF r
<1>6. /\ Len(new) = Len(rows) + 1 /\ Len(rows) \in Nat /\ new # <<>>
      /\ new[Len(rows) + 1] = r
      /\ \A i \in 1..Len(rows) : new[i] = rows[i]
  BY <1>4, AppendProperties
<1> HIDE DEF new
<1>7. h.next_seq = Len(rows) + 1
  BY DEF VerifyEvents
<1>8. h.head_hash = IF rows = <<>> THEN GenesisHash ELSE rows[Len(rows)].event_hash
  BY DEF VerifyEvents
<1>9. ASSUME NEW i \in 1..Len(new)
      PROVE  /\ new[i].seq = i
             /\ new[i].prev_hash = IF i = 1 THEN GenesisHash ELSE new[i - 1].event_hash
             /\ new[i].event_hash
                  = LedgerEventHash(new[i].seq, new[i].request, new[i].prev_hash)
  <2>1. CASE i = Len(rows) + 1
    <3>1. new[i] = r
      BY <2>1, <1>6
    <3>2. r.prev_hash = IF i = 1 THEN GenesisHash ELSE new[i - 1].event_hash
      <4>1. CASE rows = <<>>
        BY <4>1, <2>1, <1>3, <1>8
      <4>2. CASE rows # <<>>
        <5>1. Len(rows) # 0
          BY <4>2, EmptySeq
        <5>2. i # 1 /\ i - 1 = Len(rows) /\ Len(rows) \in 1..Len(rows)
          BY <5>1, <2>1, <1>6
        <5> QED BY <5>2, <4>2, <1>3, <1>6, <1>8
      <4> QED BY <4>1, <4>2
    <3> QED BY <3>1, <3>2, <2>1, <1>3, <1>7
  <2>2. CASE i # Len(rows) + 1
    <3>1. i \in 1..Len(rows)
      BY <2>2, <1>6
    <3>2. /\ rows[i].seq = i
          /\ rows[i].prev_hash = IF i = 1 THEN GenesisHash ELSE rows[i - 1].event_hash
          /\ rows[i].event_hash
               = LedgerEventHash(rows[i].seq, rows[i].request, rows[i].prev_hash)
      BY <3>1 DEF VerifyEvents
    <3>3. new[i] = rows[i] /\ (i # 1 => new[i - 1] = rows[i - 1])
      BY <3>1, <1>6
    <3> QED BY <3>2, <3>3
  <2> QED BY <2>1, <2>2
<1>10. VerifyEvents(new, HeadAfter(r))
  <2>1. r.seq + 1 = Len(new) + 1
    BY <1>3, <1>6, <1>7
  <2>2. new[Len(new)].event_hash = r.event_hash
    BY <1>6
  <2> QED BY <1>5, <1>6, <1>9, <2>1, <2>2 DEF VerifyEvents
<1> QED BY <1>4, <1>5, <1>10 DEF new, r

(* Appending a row with a new identity keeps identities unique. *)
LEMMA UniqueExtends ==
  ASSUME NEW rows \in Seq(Rows), NEW r \in Rows, UniqueIds(rows),
         \A i \in 1..Len(rows) : rows[i].request.id # r.request.id
  PROVE  UniqueIds(Append(rows, r))
BY AppendProperties DEF UniqueIds

LEMMA ConcatAppend ==
  ASSUME NEW rows \in Seq(Rows), NEW more \in Seq(Rows), NEW r \in Rows
  PROVE  rows \o Append(more, r) = Append(rows \o more, r)
<1> DEFINE one == <<r>>
<1>1. one \in Seq(Rows)
  OBVIOUS
<1>2. rows \o more \in Seq(Rows)
  BY ConcatProperties
<1>3. Append(more, r) = more \o one /\ Append(rows \o more, r) = (rows \o more) \o one
  BY <1>2, AppendIsConcat
<1> HIDE DEF one
<1>4. (rows \o more) \o one = rows \o (more \o one)
  BY <1>1, ConcatAssociative
<1> QED BY <1>3, <1>4

(* A longer ledger contains what the shorter one did. *)
LEMMA ContainsGrows ==
  ASSUME NEW rows \in Seq(Rows), NEW more \in Seq(Rows), NEW request, Contains(rows, request)
  PROVE  Contains(rows \o more, request)
<1>1. PICK i \in 1..Len(rows) : rows[i].request = request
  BY DEF Contains
<1>2. i \in 1..Len(rows \o more) /\ (rows \o more)[i] = rows[i]
  BY <1>1, ConcatProperties
<1> QED BY <1>1, <1>2 DEF Contains
-----------------------------------------------------------------------------
(* Only the holder of the head lock has uncommitted rows. *)
AddedUnderLock == \A t \in Writers : tx[t].added # <<>> => lock = t

(* A transaction that has not begun or has committed holds nothing. *)
QuietHasNothing ==
  \A t \in Writers : tx[t].step \in {"idle", "committed"} => tx[t].added = <<>> /\ tx[t].done = 0

(* What every transaction sees is a verified ledger without repetitions... *)
ViewsVerify == \A t \in Writers : VerifyEvents(Visible(t), HeadSeenBy(t)) /\ UniqueIds(Visible(t))

(* ...that contains the requests it has worked off. *)
DoneIsVisible ==
  \A t \in Writers : /\ tx[t].done <= Len(Work[t])
                     /\ \A n \in 1..tx[t].done : Contains(Visible(t), Work[t][n])
                     /\ tx[t].step = "lock" => tx[t].done < Len(Work[t])

Whole == \A t \in Writers : tx[t].step = "committed" =>
           \A n \in 1..Len(Work[t]) : Contains(events, Work[t][n])

(* The inductive invariant. *)
LInv == /\ LedgerTypeOK /\ LedgerVerifies /\ UniqueIds(events)
        /\ AddedUnderLock /\ QuietHasNothing /\ ViewsVerify /\ DoneIsVisible /\ Whole

(* What the transactions other than the one that moves see stays the same   *)
(* when the committed ledger does.                                           *)
LEMMA OthersUnmoved ==
  ASSUME NEW u \in Writers, UNCHANGED <<events, head>>, tx[u]' = tx[u]
  PROVE  Visible(u)' = Visible(u) /\ HeadSeenBy(u)' = HeadSeenBy(u)
BY DEF Visible, HeadSeenBy

LEMMA ViewTypes ==
  ASSUME LedgerTypeOK, NEW t \in Writers
  PROVE  /\ Visible(t) \in Seq(Rows) /\ HeadSeenBy(t) \in Heads
         /\ tx[t].added \in Seq(Rows) /\ tx[t].done \in Nat /\ Work[t] \in Seq(Requests)
<1>1. /\ tx[t].added \in Seq(Rows) /\ tx[t].done \in Nat /\ events \in Seq(Rows)
      /\ head \in Heads /\ Work[t] \in Seq(Requests)
  BY WorkAssumption DEF LedgerTypeOK, Heads, Hashes
<1>2. Visible(t) \in Seq(Rows)
  BY <1>1, ConcatProperties DEF Visible
<1>3. ASSUME tx[t].added # <<>>
      PROVE  tx[t].added[Len(tx[t].added)] \in Rows
  <2>1. Len(tx[t].added) \in 1..Len(tx[t].added)
    BY <1>1, <1>3, EmptySeq
  <2> QED BY <1>1, <2>1, ElementOfSeq
<1>4. HeadSeenBy(t) \in Heads
  <2>1. CASE tx[t].added = <<>>
    BY <2>1, <1>1 DEF HeadSeenBy
  <2>2. CASE tx[t].added # <<>>
    <3> DEFINE last == tx[t].added[Len(tx[t].added)]
    <3>1. last.seq + 1 \in Nat /\ last.event_hash \in Hashes
      BY <2>2, <1>3 DEF Rows, Hashes
    <3>2. HeadSeenBy(t) = [next_seq |-> last.seq + 1, head_hash |-> last.event_hash]
      BY <2>2 DEF HeadSeenBy
    <3> QED BY <3>1, <3>2 DEF Heads
  <2> QED BY <2>1, <2>2
<1> QED BY <1>1, <1>2, <1>4

(* A transaction without rows of its own sees the committed ledger. *)
LEMMA ViewWithoutRows ==
  ASSUME LedgerTypeOK, NEW t \in Writers, tx[t].added = <<>>
  PROVE  Visible(t) = events /\ HeadSeenBy(t) = head
<1>1. events \in Seq(Rows)
  BY DEF LedgerTypeOK
<1>2. events \o <<>> = events
  BY <1>1, ConcatEmptySeq
<1>3. Visible(t) = events
  BY <1>2 DEF Visible
<1>4. HeadSeenBy(t) = head
  BY DEF HeadSeenBy
<1> QED BY <1>3, <1>4

LEMMA LInit == Init => LInv
<1> SUFFICES ASSUME Init PROVE LInv
  OBVIOUS
<1>1. /\ events = <<>> /\ lock = None /\ ended = FALSE
      /\ head = [next_seq |-> 1, head_hash |-> <<>>] /\ Len(events) = 0
  BY DEF Init, GenesisHash
<1>2. \A t \in Writers : /\ tx[t] = Idle /\ tx[t].added = <<>> /\ tx[t].done = 0
                         /\ tx[t].step = "idle"
  BY DEF Init, Idle
<1>3. LedgerTypeOK
  <2>1. head \in [next_seq : Nat, head_hash : Seq([seq : Nat, request : Requests])]
    BY <1>1
  <2>2. Idle \in [step : {"idle", "append", "lock", "committed"}, done : Nat, added : Seq(Rows)]
    BY DEF Idle
  <2>3. tx \in [Writers -> [step : {"idle", "append", "lock", "committed"}, done : Nat,
                            added : Seq(Rows)]]
    BY <2>2 DEF Init
  <2>4. ended \in BOOLEAN
    BY DEF Init
  <2>5. events \in Seq(Rows)
    BY <1>1
  <2>6. lock \in Writers \cup {None}
    BY <1>1
  <2> QED BY <2>1, <2>3, <2>4, <2>5, <2>6 DEF LedgerTypeOK
<1>4. LedgerVerifies /\ UniqueIds(events)
  BY <1>1 DEF LedgerVerifies, VerifyEvents, UniqueIds, GenesisHash
<1>5. \A t \in Writers : Visible(t) = events /\ HeadSeenBy(t) = head
  BY <1>2, <1>3, ViewWithoutRows
<1>6. ViewsVerify
  BY <1>4, <1>5 DEF ViewsVerify, LedgerVerifies
<1>7. AddedUnderLock /\ QuietHasNothing /\ Whole
  BY <1>2 DEF AddedUnderLock, QuietHasNothing, Whole
<1>8. \A t \in Writers : Len(Work[t]) \in Nat
  BY WorkAssumption
<1>9. DoneIsVisible
  <2> SUFFICES ASSUME NEW t \in Writers
               PROVE  /\ tx[t].done <= Len(Work[t])
                      /\ \A n \in 1..tx[t].done : Contains(Visible(t), Work[t][n])
                      /\ tx[t].step = "lock" => tx[t].done < Len(Work[t])
    BY DEF DoneIsVisible
  <2>1. tx[t].done = 0 /\ tx[t].step = "idle" /\ Len(Work[t]) \in Nat
    BY <1>2, <1>8
  <2> QED BY <2>1
<1> QED BY <1>3, <1>4, <1>6, <1>7, <1>9 DEF LInv
-----------------------------------------------------------------------------
(* A step of transaction t that leaves the committed ledger alone keeps the  *)
(* invariant if it keeps t's own part of it.                                 *)
LEMMA LocalStep ==
  ASSUME LInv, NEW t \in Writers, LedgerTypeOK',
         UNCHANGED <<events, head>>,
         \A u \in Writers \ {t} : tx[u]' = tx[u],
         \A u \in Writers : tx[u]'.added # <<>> => lock' = u,
         tx[t]'.step = "idle" => tx[t]'.added = <<>> /\ tx[t]'.done = 0,
         tx[t]'.step # "committed",
         VerifyEvents(Visible(t)', HeadSeenBy(t)') /\ UniqueIds(Visible(t)'),
         /\ tx[t]'.done <= Len(Work[t])
         /\ \A n \in 1..tx[t]'.done : Contains(Visible(t)', Work[t][n])
         /\ tx[t]'.step = "lock" => tx[t]'.done < Len(Work[t])
  PROVE  LInv'
<1>1. \A u \in Writers \ {t} : Visible(u)' = Visible(u) /\ HeadSeenBy(u)' = HeadSeenBy(u)
  BY OthersUnmoved
<1>2. LedgerVerifies' /\ UniqueIds(events)'
  BY DEF LInv, LedgerVerifies
<1>3. AddedUnderLock'
  BY DEF AddedUnderLock
<1>4. QuietHasNothing'
  BY DEF LInv, QuietHasNothing
<1>5. ViewsVerify'
  BY <1>1 DEF LInv, ViewsVerify
<1>6. DoneIsVisible'
  BY <1>1 DEF LInv, DoneIsVisible
<1>7. Whole'
  BY DEF LInv, Whole
<1> QED BY <1>2, <1>3, <1>4, <1>5, <1>6, <1>7 DEF LInv

TxStates == [step : {"idle", "append", "lock", "committed"}, done : Nat, added : Seq(Rows)]

LEMMA TypeParts ==
  LedgerTypeOK <=> /\ events \in Seq(Rows) /\ head \in Heads /\ ended \in BOOLEAN
                   /\ lock \in Writers \cup {None} /\ tx \in [Writers -> TxStates]
BY DEF LedgerTypeOK, Heads, Hashes, TxStates

(* A move of one transaction leaves the others alone. *)
LEMMA MoveOne ==
  ASSUME LInv, NEW t \in Writers, NEW step \in {"idle", "append", "lock", "committed"},
         NEW done \in Nat, NEW added \in Seq(Rows), Move(t, step, done, added)
  PROVE  /\ tx' \in [Writers -> TxStates]
         /\ tx[t]'.step = step /\ tx[t]'.done = done /\ tx[t]'.added = added
         /\ \A u \in Writers \ {t} : tx[u]' = tx[u]
<1> DEFINE r == [step |-> step, done |-> done, added |-> added]
<1>1. tx \in [Writers -> TxStates]
  BY TypeParts DEF LInv
<1>2. r \in TxStates
  BY DEF TxStates
<1>3. tx' = [tx EXCEPT ![t] = r]
  BY DEF Move
<1>4. r.step = step /\ r.done = done /\ r.added = added
  OBVIOUS
<1> HIDE DEF r
<1> QED BY <1>1, <1>2, <1>3, <1>4

(* What the invariant says of transaction t alone. *)
LEMMA OfOne ==
  ASSUME LInv, NEW t \in Writers
  PROVE  /\ LedgerTypeOK /\ lock \in Writers \cup {None}
         /\ tx[t].done \in Nat /\ tx[t].added \in Seq(Rows) /\ Len(Work[t]) \in Nat
         /\ tx[t].added # <<>> => lock = t
         /\ VerifyEvents(Visible(t), HeadSeenBy(t)) /\ UniqueIds(Visible(t))
         /\ tx[t].done <= Len(Work[t])
         /\ \A n \in 1..tx[t].done : Contains(Visible(t), Work[t][n])
         /\ tx[t].step = "lock" => tx[t].done < Len(Work[t])
BY ViewTypes, WorkAssumption
   DEF LInv, LedgerTypeOK, AddedUnderLock, ViewsVerify, DoneIsVisible

(* Moving without new rows, to where the view holds what is done. *)
LEMMA MoveWithoutRows ==
  ASSUME LInv, NEW t \in Writers, NEW step \in {"idle", "append", "lock"}, NEW done \in Nat,
         Move(t, step, done, tx[t].added), UNCHANGED <<events, head, ended>>,
         lock' = lock \/ (lock = None /\ lock' = t),
         step = "idle" => tx[t].added = <<>> /\ done = 0,
         /\ done <= Len(Work[t])
         /\ \A n \in 1..done : Contains(Visible(t), Work[t][n])
         /\ step = "lock" => done < Len(Work[t])
  PROVE  LInv'
<1>1. /\ tx' \in [Writers -> TxStates]
      /\ tx[t]'.step = step /\ tx[t]'.done = done /\ tx[t]'.added = tx[t].added
      /\ \A u \in Writers \ {t} : tx[u]' = tx[u]
  BY OfOne, MoveOne
<1>2. LedgerTypeOK'
  BY <1>1, TypeParts DEF LInv, LedgerTypeOK, TxStates
<1>3. Visible(t)' = Visible(t) /\ HeadSeenBy(t)' = HeadSeenBy(t)
  BY <1>1 DEF Visible, HeadSeenBy
<1>4. VerifyEvents(Visible(t)', HeadSeenBy(t)') /\ UniqueIds(Visible(t)')
  BY <1>3, OfOne
<1>5. \A u \in Writers : tx[u]'.added # <<>> => lock' = u
  <2>1. \A u \in Writers : tx[u].added # <<>> => lock = u
    BY OfOne
  <2> QED BY <1>1, <2>1, WorkAssumption
<1> QED BY <1>1, <1>2, <1>3, <1>4, <1>5, LocalStep

LEMMA BeginStep == ASSUME LInv, NEW t \in Writers, Begin(t) PROVE LInv'
<1>1. tx[t].added = <<>>
  BY DEF Begin, LInv, QuietHasNothing
<1> QED BY <1>1, OfOne, MoveWithoutRows DEF Begin

(* A request that is found, with its own values, is worked off. *)
LEMMA AdvanceStep ==
  ASSUME LInv, NEW t \in Writers, Existing(t), SameValues(t), Advance(t, tx[t].added),
         tx[t].done < Len(Work[t]), UNCHANGED <<events, head, ended>>,
         lock' = lock \/ (lock = None /\ lock' = t)
  PROVE  LInv'
<1>1. Contains(Visible(t), Work[t][tx[t].done + 1])
  BY DEF Existing, SameValues, Request, Contains
<1>2. \A n \in 1..(tx[t].done + 1) : Contains(Visible(t), Work[t][n])
  <2>1. \A n \in 1..(tx[t].done + 1) : n \in 1..tx[t].done \/ n = tx[t].done + 1
    BY OfOne
  <2> QED BY <1>1, <2>1, OfOne
<1>3. tx[t].done + 1 \in Nat /\ tx[t].done + 1 <= Len(Work[t])
  BY OfOne
<1> QED BY <1>2, <1>3, MoveWithoutRows DEF Advance

LEMMA LookStep == ASSUME LInv, NEW t \in Writers, Look(t) PROVE LInv'
<1>1. CASE Existing(t)
  BY <1>1, AdvanceStep DEF Look
<1>2. CASE ~Existing(t)
  BY <1>2, OfOne, MoveWithoutRows DEF Look
<1> QED BY <1>1, <1>2

(* The holder of the lock appends at the head it sees. *)
LEMMA InsertStep ==
  ASSUME LInv, NEW t \in Writers, ~Existing(t), tx[t].done < Len(Work[t]),
         Advance(t, Append(tx[t].added, Row(HeadSeenBy(t).next_seq, Request(t),
                                            HeadSeenBy(t).head_hash))),
         UNCHANGED <<events, head, ended>>, lock \in {None, t}, lock' = t
  PROVE  LInv'
<1> DEFINE h == HeadSeenBy(t)
           r == Row(h.next_seq, Request(t), h.head_hash)
           seen == Visible(t)
<1>1. /\ seen \in Seq(Rows) /\ h \in Heads /\ tx[t].added \in Seq(Rows)
      /\ events \in Seq(Rows)
  BY OfOne, ViewTypes DEF LedgerTypeOK
<1>2. tx[t].done + 1 \in 1..Len(Work[t]) /\ tx[t].done + 1 \in Nat
  BY OfOne
<1>3. Request(t) \in Requests
  BY <1>2, WorkAssumption, ElementOfSeq DEF Request
<1>4. r \in Rows /\ HeadAfter(r) \in Heads /\ VerifyEvents(Append(seen, r), HeadAfter(r))
  BY <1>1, <1>3, OfOne, ChainExtends
<1>5. r.request = Request(t)
  BY DEF Row
<1>6. UniqueIds(Append(seen, r))
  <2>1. \A i \in 1..Len(seen) : seen[i].request.id # r.request.id
    BY <1>5 DEF Existing
  <2> HIDE DEF r
  <2> QED BY <1>1, <1>4, <2>1, OfOne, UniqueExtends
<1>7. Append(tx[t].added, r) \in Seq(Rows)
  BY <1>1, <1>4, AppendProperties
<1>8. /\ tx' \in [Writers -> TxStates]
      /\ tx[t]'.step = "append" /\ tx[t]'.done = tx[t].done + 1
      /\ tx[t]'.added = Append(tx[t].added, r)
      /\ \A u \in Writers \ {t} : tx[u]' = tx[u]
  <2>1. Move(t, "append", tx[t].done + 1, Append(tx[t].added, r))
    BY DEF Advance
  <2>2. "append" \in {"idle", "append", "lock", "committed"}
    OBVIOUS
  <2> DEFINE rows == Append(tx[t].added, r)
             n == tx[t].done + 1
  <2>3. rows \in Seq(Rows) /\ n \in Nat
    BY <1>2, <1>7
  <2> HIDE DEF rows, n
  <2>4. Move(t, "append", n, rows)
    BY <2>1 DEF rows, n
  <2>5. /\ tx' \in [Writers -> TxStates]
        /\ tx[t]'.step = "append" /\ tx[t]'.done = n /\ tx[t]'.added = rows
        /\ \A u \in Writers \ {t} : tx[u]' = tx[u]
    BY <2>2, <2>3, <2>4, MoveOne
  <2> QED BY <2>5 DEF rows, n
<1>9. LedgerTypeOK'
  BY <1>8, TypeParts DEF LInv, LedgerTypeOK, TxStates
<1> HIDE DEF r
<1>10. Visible(t)' = Append(seen, r)
  <2>1. events \o Append(tx[t].added, r) = Append(events \o tx[t].added, r)
    BY <1>1, <1>4, ConcatAppend
  <2> QED BY <1>8, <2>1 DEF Visible
<1>11. HeadSeenBy(t)' = HeadAfter(r)
  <2>1. /\ Append(tx[t].added, r) # <<>>
        /\ Append(tx[t].added, r)[Len(Append(tx[t].added, r))] = r
    BY <1>1, <1>4, AppendProperties
  <2> QED BY <1>8, <2>1 DEF HeadSeenBy, HeadAfter
<1>12. VerifyEvents(Visible(t)', HeadSeenBy(t)') /\ UniqueIds(Visible(t)')
  BY <1>4, <1>6, <1>10, <1>11
<1>13. \A u \in Writers : tx[u]'.added # <<>> => lock' = u
  <2>1. \A u \in Writers : tx[u].added # <<>> => lock = u
    BY OfOne
  <2> QED BY <1>8, <2>1, WorkAssumption
<1>14. \A n \in 1..(tx[t].done + 1) : Contains(Append(seen, r), Work[t][n])
  <2> SUFFICES ASSUME NEW n \in 1..(tx[t].done + 1)
               PROVE  Contains(Append(seen, r), Work[t][n])
    OBVIOUS
  <2>1. CASE n = tx[t].done + 1
    <3>1. Append(seen, r)[Len(seen) + 1] = r /\ Len(Append(seen, r)) = Len(seen) + 1
          /\ Len(seen) \in Nat
      BY <1>1, <1>4, AppendProperties
    <3> HIDE DEF seen
    <3> QED BY <2>1, <3>1, <1>5 DEF Contains, Request
  <2>2. CASE n # tx[t].done + 1
    <3>1. n \in 1..tx[t].done
      BY <2>2, OfOne
    <3>2. PICK i \in 1..Len(seen) : seen[i].request = Work[t][n]
      BY <3>1, OfOne DEF Contains
    <3>3. Append(seen, r)[i] = seen[i] /\ i \in 1..Len(Append(seen, r))
      BY <1>1, <1>4, AppendProperties
    <3> HIDE DEF seen
    <3> QED BY <3>2, <3>3 DEF Contains
  <2> QED BY <2>1, <2>2
<1> HIDE DEF seen
<1>15. /\ tx[t]'.done <= Len(Work[t])
       /\ \A n \in 1..tx[t]'.done : Contains(Visible(t)', Work[t][n])
  BY <1>2, <1>8, <1>10, <1>14
<1>16. tx[t]'.step # "idle" /\ tx[t]'.step # "committed" /\ tx[t]'.step # "lock"
  BY <1>8
<1>17. UNCHANGED <<events, head>> /\ \A u \in Writers \ {t} : tx[u]' = tx[u]
  BY <1>8
<1> QED BY <1>9, <1>12, <1>13, <1>15, <1>16, <1>17, LocalStep

LEMMA AppendLockedStep == ASSUME LInv, NEW t \in Writers, AppendLocked(t) PROVE LInv'
<1>1. lock \in {None, t} /\ lock' = t /\ tx[t].done < Len(Work[t])
      /\ UNCHANGED <<events, head, ended>>
  BY OfOne DEF AppendLocked, LockHead
<1>2. CASE Existing(t)
  BY <1>1, <1>2, AdvanceStep DEF AppendLocked, FoundUnderLock
<1>3. CASE ~Existing(t)
  BY <1>1, <1>3, InsertStep DEF AppendLocked, FoundUnderLock
<1> QED BY <1>2, <1>3

(* Ending a transaction without committing returns it to nothing. *)
LEMMA QuitStep ==
  ASSUME LInv, NEW t \in Writers, Move(t, "idle", 0, <<>>), UNCHANGED <<events, head, ended>>,
         \A u \in Writers \ {t} : lock = u => lock' = u, lock' \in Writers \cup {None}
  PROVE  LInv'
<1>1. /\ tx' \in [Writers -> TxStates]
      /\ tx[t]'.step = "idle" /\ tx[t]'.done = 0 /\ tx[t]'.added = <<>>
      /\ \A u \in Writers \ {t} : tx[u]' = tx[u]
  <2>1. <<>> \in Seq(Rows) /\ 0 \in Nat /\ "idle" \in {"idle", "append", "lock", "committed"}
    OBVIOUS
  <2> QED BY <2>1, MoveOne
<1>2. LedgerTypeOK'
  BY <1>1, TypeParts DEF LInv, LedgerTypeOK, TxStates
<1>3. Visible(t)' = events /\ HeadSeenBy(t)' = head
  <2>1. events \o <<>> = events
    BY ConcatEmptySeq DEF LInv, LedgerTypeOK
  <2> QED BY <1>1, <2>1 DEF Visible, HeadSeenBy
<1>4. VerifyEvents(Visible(t)', HeadSeenBy(t)') /\ UniqueIds(Visible(t)')
  BY <1>3 DEF LInv, LedgerVerifies
<1>5. \A u \in Writers : tx[u]'.added # <<>> => lock' = u
  <2>1. \A u \in Writers : tx[u].added # <<>> => lock = u
    BY OfOne
  <2> QED BY <1>1, <2>1
<1>6. 0 <= Len(Work[t]) /\ \A n \in 1..0 : Contains(Visible(t)', Work[t][n])
  BY OfOne
<1> QED BY <1>1, <1>2, <1>4, <1>5, <1>6, LocalStep

LEMMA RollbackStep == ASSUME LInv, NEW t \in Writers, Rollback(t) PROVE LInv'
BY OfOne, QuitStep DEF Rollback, Release

LEMMA RepeatStep == ASSUME LInv, NEW t \in Writers, Repeat(t) PROVE LInv'
BY OfOne, QuitStep DEF Repeat

LEMMA CommitStep == ASSUME LInv, NEW t \in Writers, Commit(t) PROVE LInv'
<1>1. /\ tx' \in [Writers -> TxStates]
      /\ tx[t]'.step = "committed" /\ tx[t]'.done = 0 /\ tx[t]'.added = <<>>
      /\ \A u \in Writers \ {t} : tx[u]' = tx[u]
  <2>1. /\ <<>> \in Seq(Rows) /\ 0 \in Nat
        /\ "committed" \in {"idle", "append", "lock", "committed"}
    OBVIOUS
  <2> QED BY <2>1, MoveOne DEF Commit
<1>2. events' = Visible(t) /\ head' = HeadSeenBy(t) /\ tx[t].done = Len(Work[t])
  BY DEF Commit
<1>3. /\ events' \in Seq(Rows) /\ head' \in Heads /\ events \in Seq(Rows)
      /\ tx[t].added \in Seq(Rows) /\ LedgerTypeOK
  BY <1>2, OfOne, ViewTypes DEF LedgerTypeOK
<1>4. ended' \in BOOLEAN
  BY DEF Commit
<1>5. lock' \in Writers \cup {None} /\ \A u \in Writers \ {t} : lock = u => lock' = u
  BY OfOne DEF Commit, Release
<1>6. LedgerTypeOK'
  BY <1>1, <1>3, <1>4, <1>5, TypeParts DEF LedgerTypeOK, Heads, Hashes, TxStates
<1>7. LedgerVerifies' /\ UniqueIds(events)'
  BY <1>2, OfOne DEF LedgerVerifies
<1>8. \A u \in Writers : tx[u]'.added # <<>> => lock' = u /\ u # t /\ tx[u].added # <<>>
  BY <1>1, <1>5, OfOne
<1>9. AddedUnderLock'
  BY <1>8 DEF AddedUnderLock
<1>10. QuietHasNothing'
  BY <1>1 DEF LInv, QuietHasNothing
<1>11. ASSUME NEW request, Contains(events, request)
       PROVE  Contains(events', request)
  BY <1>2, <1>3, <1>11, ContainsGrows DEF Visible
<1>12. \A n \in 1..Len(Work[t]) : Contains(events', Work[t][n])
  BY <1>2, OfOne
<1>13. Whole'
  <2> SUFFICES ASSUME NEW u \in Writers, tx[u]'.step = "committed",
                      NEW n \in 1..Len(Work[u])
               PROVE  Contains(events', Work[u][n])
    BY DEF Whole, Contains
  <2>1. CASE u = t
    BY <2>1, <1>12
  <2>2. CASE u # t
    BY <2>2, <1>1, <1>11 DEF LInv, Whole
  <2> QED BY <2>1, <2>2
<1>14. ASSUME NEW u \in Writers, u # t, tx[u].added # <<>>
       PROVE  events' = events /\ head' = head
  <2>1. tx[t].added = <<>>
    BY <1>14, OfOne
  <2> QED BY <1>2, <1>3, <2>1, ViewWithoutRows
<1>15. ASSUME NEW u \in Writers
       PROVE  \/ Visible(u)' = events' /\ HeadSeenBy(u)' = head' /\ tx[u]'.added = <<>>
              \/ u # t /\ Visible(u)' = Visible(u) /\ HeadSeenBy(u)' = HeadSeenBy(u)
  <2>1. CASE tx[u]'.added = <<>>
    <3>1. events' \o <<>> = events'
      BY <1>3, ConcatEmptySeq
    <3> QED BY <2>1, <3>1 DEF Visible, HeadSeenBy
  <2>2. CASE tx[u]'.added # <<>>
    <3>1. u # t /\ tx[u]' = tx[u] /\ events' = events /\ head' = head
      BY <2>2, <1>1, <1>8, <1>14
    <3> QED BY <3>1 DEF Visible, HeadSeenBy
  <2> QED BY <2>1, <2>2
<1>16. ViewsVerify'
  <2> SUFFICES ASSUME NEW u \in Writers
               PROVE  VerifyEvents(Visible(u)', HeadSeenBy(u)') /\ UniqueIds(Visible(u)')
    BY DEF ViewsVerify
  <2>1. VerifyEvents(events', head') /\ UniqueIds(events')
    BY <1>2, OfOne
  <2> QED BY <1>15, <2>1, OfOne
<1>17. DoneIsVisible'
  <2> SUFFICES ASSUME NEW u \in Writers
               PROVE  /\ tx[u]'.done <= Len(Work[u])
                      /\ \A n \in 1..tx[u]'.done : Contains(Visible(u)', Work[u][n])
                      /\ tx[u]'.step = "lock" => tx[u]'.done < Len(Work[u])
    BY DEF DoneIsVisible
  <2>1. CASE u = t
    BY <2>1, <1>1, OfOne
  <2>2. CASE u # t
    <3>1. tx[u]' = tx[u]
      BY <2>2, <1>1
    <3>2. ASSUME NEW n \in 1..tx[u].done PROVE Contains(Visible(u)', Work[u][n])
      <4>1. CASE Visible(u)' = Visible(u)
        BY <4>1, OfOne
      <4>2. CASE Visible(u)' = events' /\ tx[u]'.added = <<>>
        <5>1. Visible(u) = events
          BY <3>1, <4>2, <1>3, ViewWithoutRows
        <5> QED BY <4>2, <5>1, <1>11, OfOne
      <4> QED BY <4>1, <4>2, <1>15
    <3> QED BY <3>1, <3>2, OfOne
  <2> QED BY <2>1, <2>2
<1> QED BY <1>6, <1>7, <1>9, <1>10, <1>13, <1>16, <1>17 DEF LInv

LEMMA LNext == LInv /\ [Next]_ledgerVars => LInv'
<1> SUFFICES ASSUME LInv, [Next]_ledgerVars PROVE LInv'
  OBVIOUS
<1>1. CASE UNCHANGED ledgerVars
  BY <1>1 DEF ledgerVars, LInv, LedgerTypeOK, LedgerVerifies, AddedUnderLock,
       QuietHasNothing, ViewsVerify, DoneIsVisible, Whole, Visible, HeadSeenBy
<1>2. CASE Next
  <2>1. PICK t \in Writers : Begin(t) \/ Look(t) \/ AppendLocked(t) \/ Commit(t)
                              \/ Rollback(t) \/ Repeat(t)
    BY <1>2 DEF Next
  <2> QED BY <2>1, BeginStep, LookStep, AppendLockedStep, CommitStep, RollbackStep,
             RepeatStep
<1> QED BY <1>1, <1>2

LEMMA LInvariant == Spec => []LInv
BY LInit, LNext, PTL DEF Spec
-----------------------------------------------------------------------------
(* Any number of concurrent, failing and repeated transactions leaves a      *)
(* ledger that verify() finds valid: SqlAlchemyReasoningLedger.append under  *)
(* the head row's lock never breaks the chain.                               *)
THEOREM LedgerAlwaysVerifies == Spec => []LedgerVerifies
<1>1. LInv => LedgerVerifies
  BY DEF LInv
<1> QED BY <1>1, LInvariant, PTL

(* append never records an event identity twice. *)
THEOREM EventsRecordedOnce == Spec => []RecordedOnce
<1>1. LInv => RecordedOnce
  BY DEF LInv, UniqueIds, RecordedOnce
<1> QED BY <1>1, LInvariant, PTL

(* A transaction that has committed has all its events in the ledger, also   *)
(* those that append found there already.                                    *)
THEOREM TransactionsCommitWhole == Spec => []CommittedWhole
<1>1. LInv => CommittedWhole
  BY DEF LInv, Whole, Contains, CommittedWhole
<1> QED BY <1>1, LInvariant, PTL
-----------------------------------------------------------------------------
(* The streams. *)

(* A ledger that has these rows has all that an ending transaction recorded. *)
Ends(rows) == \E t \in Ending : \A n \in 1..Len(Work[t]) : Contains(rows, Work[t][n])

Delivers(rows, all) == Len(rows) <= Len(all) /\ \A i \in 1..Len(rows) : rows[i] = all[i]

(* The rows still to be emitted are the ledger's next ones. *)
PageFollows(page, done) ==
  /\ Len(done) + Len(page) <= Len(events)
  /\ \A i \in 1..Len(page) : page[i] = events[Len(done) + i]

(* The read that this iteration of the stream made found nothing. *)
FoundNothing(s) == s.step = "wait" \/ (s.step = "emit" /\ ~s.full)

(* A stream s whose client has received r: its position and its page follow *)
(* what was received, it knows of the end only when the ledger has it, and  *)
(* after a read that found nothing with the wakeup still unset there is      *)
(* nothing announced ahead of it.                                            *)
StreamOk(s, r) ==
  /\ Delivers(r, events)
  /\ s.step \notin {"closed", "returned"} => s.next_seq = Len(r) + 1
  /\ s.step = "emit" => PageFollows(s.page, r)
  /\ s.terminal => Ends(events)
  /\ s.step = "emit" /\ ~s.full => s.page = <<>> /\ (s.terminal => Ends(r))
  /\ s.step = "returned" => Ends(r)
  /\ FoundNothing(s) /\ ~s.wakeup => \A n \in announced : n < s.next_seq

StreamsOk == \A c \in Clients : StreamOk(stream[c], received[c])

(* Only committed rows are published, and the end is recorded with its rows. *)
PublishedIsCommitted == unpublished \cup announced \subseteq 1..Len(events)
EndIsRecorded == ended => Ends(events)

(* The inductive invariant. *)
SInv == LInv /\ TypeOK /\ PublishedIsCommitted /\ EndIsRecorded /\ StreamsOk

Streams == [step : {"closed", "clear", "lifecycle", "events", "emit", "wait", "returned"},
            next_seq : Nat, wakeup : BOOLEAN, page : Seq(Rows),
            full : BOOLEAN, terminal : BOOLEAN]
-----------------------------------------------------------------------------
LEMMA EndsGrows ==
  ASSUME NEW rows \in Seq(Rows), NEW more \in Seq(Rows), Ends(rows)
  PROVE  Ends(rows \o more)
BY ContainsGrows DEF Ends

(* A page is the ledger from the position asked for, and empty only there    *)
(* where the ledger ends.                                                    *)
LEMMA PageIsNext ==
  ASSUME LInv, NEW done \in Seq(Rows), Len(done) <= Len(events)
  PROVE  LET page == Page(Len(done) + 1)
         IN /\ page \in Seq(Rows) /\ PageFollows(page, done)
            /\ page = <<>> => Len(done) = Len(events)
<1> DEFINE from == Len(done) + 1
           matching == {i \in 1..Len(events) : events[i].seq >= from}
           first == CHOOSE i \in matching : \A j \in matching : i <= j
           last == IF first + PageSize <= Len(events) THEN first + PageSize - 1 ELSE Len(events)
           page == Page(from)
<1>1. events \in Seq(Rows) /\ Len(events) \in Nat /\ Len(done) \in Nat /\ from \in Nat \ {0}
  BY DEF LInv, LedgerTypeOK
<1>2. \A i \in 1..Len(events) : events[i].seq = i /\ events[i] \in Rows
  BY <1>1, ElementOfSeq DEF LInv, LedgerVerifies, VerifyEvents
<1>3. matching = from..Len(events)
  BY <1>1, <1>2
<1>4. CASE from > Len(events)
  <2>1. matching = {}
    BY <1>1, <1>3, <1>4
  <2>2. page = <<>>
    BY <2>1 DEF Page
  <2>3. Len(done) = Len(events)
    BY <1>1, <1>4
  <2> HIDE DEF page
  <2>4. page \in Seq(Rows) /\ Len(page) = 0
    BY <2>2
  <2>5. PageFollows(page, done)
    BY <1>1, <2>3, <2>4 DEF PageFollows
  <2> QED BY <2>3, <2>4, <2>5 DEF page
<1>5. CASE from <= Len(events)
  <2>1. from \in matching /\ \A j \in matching : from <= j
    BY <1>1, <1>3, <1>5
  <2>2. first \in matching /\ \A j \in matching : first <= j
    BY <2>1
  <2>3. first = from
    BY <1>1, <1>3, <2>1, <2>2
  <2>4. last \in from..Len(events)
    <3> HIDE DEF first
    <3>1. PageSize \in Nat /\ PageSize >= 1
      BY StreamAssumption
    <3> QED BY <1>1, <1>5, <2>3, <3>1
  <2>5. page = SubSeq(events, from, last)
    BY <2>1, <2>3 DEF Page
  <2>6. \A i \in from..last : events[i] \in Rows
    BY <1>1, <1>2, <2>4
  <2> HIDE DEF last, first, matching, page
  <2>7. /\ page \in Seq(Rows) /\ Len(page) = last - from + 1
        /\ \A i \in 1..Len(page) : page[i] = events[from + i - 1]
    <3> HIDE DEF from
    <3>1. from \in Int /\ last \in Int /\ from <= last
      BY <1>1, <2>4
    <3>2. /\ SubSeq(events, from, last) \in Seq(Rows)
          /\ Len(SubSeq(events, from, last)) = last - from + 1
          /\ \A i \in 1..(last - from + 1) : SubSeq(events, from, last)[i] = events[from + i - 1]
      BY <2>6, <3>1, SubSeqProperties
    <3> QED BY <2>5, <3>2
  <2>8. Len(done) + Len(page) <= Len(events) /\ Len(page) # 0
    BY <1>1, <2>4, <2>7
  <2>9. \A i \in 1..Len(page) : from + i - 1 = Len(done) + i
    BY <1>1, <2>7
  <2>10. page # <<>>
    BY <2>7, <2>8
  <2> QED BY <2>7, <2>8, <2>9, <2>10 DEF PageFollows, page
<1> QED BY <1>1, <1>4, <1>5

LEMMA StreamTypes ==
  ASSUME TypeOK, NEW c \in Clients
  PROVE  /\ stream \in [Clients -> Streams] /\ stream[c] \in Streams
         /\ received \in [Clients -> Seq(Rows)]
         /\ received[c] \in Seq(Rows) /\ Len(received[c]) \in Nat
         /\ events \in Seq(Rows) /\ Len(events) \in Nat
BY DEF TypeOK, Streams, LedgerTypeOK

LEMMA SInitial == SInit => SInv
<1> SUFFICES ASSUME SInit PROVE SInv
  OBVIOUS
<1>1. LInv /\ LedgerTypeOK
  BY LInit DEF SInit, LInv
<1>2. /\ unpublished = {} /\ announced = {} /\ drops = 0 /\ ended = FALSE
      /\ events = <<>> /\ Len(events) = 0
  BY DEF SInit, StreamInit, Init
<1>3. Closed \in Streams
  BY DEF Closed, Streams
<1>4. stream \in [Clients -> Streams] /\ received \in [Clients -> Seq(Rows)]
  BY <1>3 DEF SInit, StreamInit
<1>5. TypeOK
  BY <1>1, <1>2, <1>4, StreamAssumption DEF TypeOK, Streams
<1>6. ASSUME NEW c \in Clients PROVE StreamOk(stream[c], received[c])
  <2>1. stream[c] = Closed /\ received[c] = <<>> /\ Len(received[c]) = 0
    BY DEF SInit, StreamInit
  <2> QED BY <1>2, <2>1 DEF StreamOk, Delivers, Closed, FoundNothing
<1> QED BY <1>1, <1>2, <1>5, <1>6 DEF SInv, PublishedIsCommitted, EndIsRecorded, StreamsOk
-----------------------------------------------------------------------------
(* The committed ledger only grows at its end, and a commit that ends the    *)
(* session brings the whole ending transaction with it.                      *)
LEMMA LedgerGrows ==
  ASSUME LInv, Next
  PROVE  /\ \E more \in Seq(Rows) : events' = events \o more
         /\ ended' => ended \/ Ends(events')
<1>1. PICK t \in Writers : Begin(t) \/ Look(t) \/ AppendLocked(t) \/ Commit(t)
                            \/ Rollback(t) \/ Repeat(t)
  BY DEF Next
<1>2. CASE Commit(t)
  <2>1. events' = events \o tx[t].added /\ tx[t].added \in Seq(Rows)
    BY <1>2, OfOne DEF Commit, Visible
  <2>2. \A n \in 1..Len(Work[t]) : Contains(events', Work[t][n])
    BY <1>2, OfOne DEF Commit
  <2>3. ended' => ended \/ t \in Ending
    BY <1>2 DEF Commit
  <2> QED BY <2>1, <2>2, <2>3 DEF Ends
<1>3. CASE ~Commit(t)
  <2>1. UNCHANGED <<events, ended>>
    BY <1>1, <1>3 DEF Begin, Look, AppendLocked, Rollback, Repeat
  <2>2. events \in Seq(Rows) /\ <<>> \in Seq(Rows)
    BY DEF LInv, LedgerTypeOK
  <2>3. events' = events \o <<>>
    BY <2>1, <2>2, ConcatEmptySeq
  <2> QED BY <2>1, <2>2, <2>3
<1> QED BY <1>2, <1>3

(* Rows that others commit leave a stream's bookkeeping as it is. *)
LEMMA StreamOkGrows ==
  ASSUME NEW s, NEW r \in Seq(Rows), s.page \in Seq(Rows), NEW more \in Seq(Rows),
         events \in Seq(Rows), events' = events \o more, UNCHANGED announced, StreamOk(s, r)
  PROVE  StreamOk(s, r)'
<1>1. /\ Len(events') >= Len(events) /\ Len(events) \in Nat /\ Len(events') \in Nat
      /\ Len(r) \in Nat /\ Len(s.page) \in Nat
      /\ \A i \in 1..Len(events) : events'[i] = events[i]
  BY ConcatProperties
<1>2. Delivers(r, events')
  BY <1>1 DEF StreamOk, Delivers
<1>3. s.step = "emit" => PageFollows(s.page, r)'
  BY <1>1 DEF StreamOk, PageFollows
<1>4. Ends(events) => Ends(events')
  BY EndsGrows
<1> QED BY <1>2, <1>3, <1>4 DEF StreamOk, FoundNothing

LEMMA LedgerStepStep == ASSUME SInv, LedgerStep PROVE SInv'
<1>1. LInv' /\ LedgerTypeOK'
  BY LNext DEF SInv, LedgerStep, LInv
<1>2. PICK more \in Seq(Rows) : events' = events \o more
  BY LedgerGrows DEF SInv, LedgerStep
<1>3. /\ events \in Seq(Rows) /\ Len(events) \in Nat /\ Len(events') \in Nat
      /\ Len(events) <= Len(events')
  BY <1>2, ConcatProperties DEF SInv, TypeOK, LedgerTypeOK
<1>4. UNCHANGED <<announced, stream, received, drops>>
      /\ unpublished' = unpublished \cup ((Len(events) + 1)..Len(events'))
  BY DEF LedgerStep
<1>5. PublishedIsCommitted'
  BY <1>3, <1>4 DEF SInv, PublishedIsCommitted
<1>6. TypeOK'
  <2>1. (Len(events) + 1)..Len(events') \subseteq Nat
    BY <1>3
  <2>2. TypeOK /\ unpublished \subseteq Nat
    BY DEF SInv, TypeOK
  <2>3. unpublished' \subseteq Nat
    BY <1>4, <2>1, <2>2
  <2> QED BY <1>1, <1>4, <2>2, <2>3 DEF TypeOK
<1>7. EndIsRecorded'
  <2>1. Ends(events) => Ends(events')
    BY <1>2, <1>3, EndsGrows
  <2> QED BY <2>1, LedgerGrows DEF SInv, LedgerStep, EndIsRecorded
<1>8. ASSUME NEW c \in Clients PROVE StreamOk(stream[c], received[c])'
  <2>1. /\ received[c] \in Seq(Rows) /\ stream[c].page \in Seq(Rows)
        /\ StreamOk(stream[c], received[c])
    BY StreamTypes DEF SInv, StreamsOk, Streams
  <2> DEFINE s == stream[c]  r == received[c]
  <2>2. StreamOk(s, r)'
    BY <1>2, <1>3, <1>4, <2>1, StreamOkGrows
  <2> QED BY <2>2
<1> QED BY <1>1, <1>5, <1>6, <1>7, <1>8 DEF SInv, StreamsOk
-----------------------------------------------------------------------------
(* A publication wakes every open stream before it counts as announced. *)
LEMMA PublishStep == ASSUME SInv, NEW n \in unpublished, Publish(n) PROVE SInv'
<1>1. /\ UNCHANGED <<ledgerVars, received, drops>> /\ UNCHANGED <<events, ended>>
      /\ unpublished' = unpublished \ {n} /\ announced' = announced \cup {n}
  BY DEF Publish, ledgerVars
<1>2. LInv' /\ LedgerTypeOK'
  BY <1>1, LNext DEF SInv, LInv
<1>3. PublishedIsCommitted' /\ EndIsRecorded'
  BY <1>1 DEF SInv, PublishedIsCommitted, EndIsRecorded
<1>4. ASSUME NEW c \in Clients
      PROVE  /\ stream'[c] = IF stream[c].step \in {"closed", "returned"}
                             THEN stream[c] ELSE [stream[c] EXCEPT !.wakeup = TRUE]
             /\ stream'[c] \in Streams
  BY StreamTypes DEF Publish, SInv, Streams
<1>5. stream' \in [Clients -> Streams]
  <2>1. stream' = [c \in Clients |-> IF stream[c].step \in {"closed", "returned"}
                                     THEN stream[c] ELSE [stream[c] EXCEPT !.wakeup = TRUE]]
    BY DEF Publish
  <2> QED BY <1>4, <2>1
<1>6. TypeOK'
  BY <1>1, <1>2, <1>5 DEF SInv, TypeOK, Streams
<1>7. ASSUME NEW c \in Clients PROVE StreamOk(stream[c], received[c])'
  <2> DEFINE s == stream[c]  r == received[c]  t == stream'[c]
  <2>1. StreamOk(s, r) /\ s \in Streams
    BY StreamTypes DEF SInv, StreamsOk
  <2>2. CASE s.step \in {"closed", "returned"}
    <3>1. t = s
      BY <1>4, <2>2
    <3> QED BY <1>1, <2>1, <2>2, <3>1 DEF StreamOk, FoundNothing, PageFollows
  <2>3. CASE s.step \notin {"closed", "returned"}
    <3>1. /\ t.wakeup = TRUE /\ t.step = s.step /\ t.next_seq = s.next_seq
          /\ t.page = s.page /\ t.full = s.full /\ t.terminal = s.terminal
      BY <1>4, <2>1, <2>3 DEF Streams
    <3> QED BY <1>1, <2>1, <3>1 DEF StreamOk, FoundNothing, PageFollows
  <2> QED BY <2>2, <2>3
<1> QED BY <1>2, <1>3, <1>6, <1>7 DEF SInv, StreamsOk

LEMMA PublicationLostStep ==
  ASSUME SInv, NEW n \in unpublished, PublicationLost(n)
  PROVE  SInv'
<1>1. /\ UNCHANGED <<ledgerVars, announced, stream, received, drops>>
      /\ UNCHANGED <<events, ended>> /\ unpublished' = unpublished \ {n}
  BY DEF PublicationLost, ledgerVars
<1>2. LInv' /\ LedgerTypeOK'
  BY <1>1, LNext DEF SInv, LInv
<1>3. PublishedIsCommitted' /\ EndIsRecorded'
  BY <1>1 DEF SInv, PublishedIsCommitted, EndIsRecorded
<1>4. TypeOK'
  BY <1>1, <1>2 DEF SInv, TypeOK
<1>5. StreamsOk'
  BY <1>1 DEF SInv, StreamsOk, StreamOk, FoundNothing, PageFollows
<1> QED BY <1>2, <1>3, <1>4, <1>5 DEF SInv
-----------------------------------------------------------------------------
(* The step of one stream: the others, the ledger and the publications stay  *)
(* as they are, so its own bookkeeping is all there is to show.              *)
LEMMA OneStreamMoves ==
  ASSUME SInv, NEW c \in Clients, NEW s \in Streams, NEW r \in Seq(Rows),
         SetStream(c, s), received' = [received EXCEPT ![c] = r], drops' \in 0..MaxDrops,
         StreamOk(s, r)
  PROVE  SInv'
<1>1. /\ UNCHANGED ledgerVars /\ UNCHANGED <<events, ended, unpublished, announced>>
      /\ stream' = [stream EXCEPT ![c] = s]
  BY DEF SetStream, ledgerVars
<1>2. LInv' /\ LedgerTypeOK'
  BY <1>1, LNext DEF SInv, LInv
<1>3. PublishedIsCommitted' /\ EndIsRecorded'
  BY <1>1 DEF SInv, PublishedIsCommitted, EndIsRecorded
<1>4. stream \in [Clients -> Streams] /\ received \in [Clients -> Seq(Rows)]
  BY StreamTypes DEF SInv
<1>5. stream' \in [Clients -> Streams] /\ received' \in [Clients -> Seq(Rows)]
  BY <1>1, <1>4
<1>6. TypeOK'
  BY <1>1, <1>2, <1>5 DEF SInv, TypeOK, Streams
<1>7. ASSUME NEW d \in Clients PROVE StreamOk(stream[d], received[d])'
  <2>1. CASE d = c
    <3>1. stream'[c] = s /\ received'[c] = r
      BY <1>1, <1>4
    <3> QED BY <1>1, <2>1, <3>1 DEF StreamOk, FoundNothing, PageFollows
  <2>2. CASE d # c
    <3>1. stream'[d] = stream[d] /\ received'[d] = received[d]
      BY <1>1, <1>4, <2>2
    <3>2. StreamOk(stream[d], received[d])
      BY DEF SInv, StreamsOk
    <3> QED BY <1>1, <3>1, <3>2 DEF StreamOk, FoundNothing, PageFollows
  <2> QED BY <2>1, <2>2
<1> QED BY <1>2, <1>3, <1>6, <1>7 DEF SInv, StreamsOk

(* ...and what its client has received too, unless it emits. *)
LEMMA OneStreamTurns ==
  ASSUME SInv, NEW c \in Clients, NEW s \in Streams,
         SetStream(c, s), UNCHANGED received, drops' \in 0..MaxDrops,
         StreamOk(s, received[c])
  PROVE  SInv'
<1>1. received[c] \in Seq(Rows) /\ received \in [Clients -> Seq(Rows)]
  BY StreamTypes DEF SInv
<1>2. received' = [received EXCEPT ![c] = received[c]]
  BY <1>1
<1> QED BY <1>1, <1>2, OneStreamMoves

LEMMA OwnFacts ==
  ASSUME SInv, NEW c \in Clients
  PROVE  /\ stream[c] \in Streams /\ received[c] \in Seq(Rows) /\ Len(received[c]) \in Nat
         /\ events \in Seq(Rows) /\ Len(events) \in Nat
         /\ StreamOk(stream[c], received[c]) /\ Delivers(received[c], events)
         /\ drops \in 0..MaxDrops
BY StreamTypes DEF SInv, StreamsOk, StreamOk, TypeOK

LEMMA ConnectStep == ASSUME SInv, NEW c \in Clients, Connect(c) PROVE SInv'
<1> DEFINE s == [Closed EXCEPT !.step = "clear", !.next_seq = Len(received[c]) + 1]
<1>1. /\ s.step = "clear" /\ s.next_seq = Len(received[c]) + 1 /\ s.wakeup = FALSE
      /\ s.page = <<>> /\ s.full = FALSE /\ s.terminal = FALSE /\ s \in Streams
  <2>1. Len(received[c]) + 1 \in Nat /\ <<>> \in Seq(Rows)
    BY OwnFacts
  <2> QED BY <2>1 DEF Closed, Streams
<1>2. StreamOk(s, received[c])
  <2> HIDE DEF s
  <2> QED BY <1>1, OwnFacts DEF StreamOk, FoundNothing
<1>3. SetStream(c, s) /\ UNCHANGED <<received, drops>>
  BY DEF Connect
<1> HIDE DEF s
<1> QED BY <1>1, <1>2, <1>3, OwnFacts, OneStreamTurns

LEMMA ClearWakeupStep == ASSUME SInv, NEW c \in Clients, ClearWakeup(c) PROVE SInv'
<1> DEFINE s == [stream[c] EXCEPT !.step = "lifecycle", !.wakeup = FALSE]
<1>1. /\ s.step = "lifecycle" /\ s.next_seq = stream[c].next_seq /\ s \in Streams
      /\ s.terminal = stream[c].terminal /\ stream[c].step = "clear"
  BY OwnFacts DEF Streams, ClearWakeup
<1>2. StreamOk(s, received[c])
  <2> HIDE DEF s
  <2> QED BY <1>1, OwnFacts DEF StreamOk, FoundNothing
<1>3. SetStream(c, s) /\ UNCHANGED <<received, drops>>
  BY DEF ClearWakeup
<1> HIDE DEF s
<1> QED BY <1>1, <1>2, <1>3, OwnFacts, OneStreamTurns

LEMMA ReadLifecycleStep == ASSUME SInv, NEW c \in Clients, ReadLifecycle(c) PROVE SInv'
<1> DEFINE s == [stream[c] EXCEPT !.step = "events", !.terminal = ended]
<1>1. /\ s.step = "events" /\ s.next_seq = stream[c].next_seq /\ s \in Streams
      /\ s.terminal = ended /\ stream[c].step = "lifecycle"
  BY OwnFacts DEF Streams, ReadLifecycle, SInv, TypeOK, LedgerTypeOK
<1>2. StreamOk(s, received[c])
  <2> HIDE DEF s
  <2>1. s.terminal => Ends(events)
    BY <1>1 DEF SInv, EndIsRecorded
  <2> QED BY <1>1, <2>1, OwnFacts DEF StreamOk, FoundNothing
<1>3. SetStream(c, s) /\ UNCHANGED <<received, drops>>
  BY DEF ReadLifecycle
<1> HIDE DEF s
<1> QED BY <1>1, <1>2, <1>3, OwnFacts, OneStreamTurns

(* The page is read after the lifecycle row: an empty page is the end of a   *)
(* ledger that has all the end recorded, if the session was seen to be over. *)
LEMMA ReadEventsStep == ASSUME SInv, NEW c \in Clients, ReadEvents(c) PROVE SInv'
<1> DEFINE r == received[c]
           page == Page(stream[c].next_seq)
           s == [stream[c] EXCEPT !.page = page, !.full = page # <<>>, !.step = "emit"]
<1>1. stream[c].step = "events" /\ stream[c].next_seq = Len(r) + 1 /\ Len(r) <= Len(events)
      /\ r \in Seq(Rows)
  BY OwnFacts DEF ReadEvents, StreamOk, Delivers
<1>2. page \in Seq(Rows) /\ PageFollows(page, r) /\ (page = <<>> => Len(r) = Len(events))
  BY <1>1, PageIsNext DEF SInv
<1>3. SetStream(c, s) /\ UNCHANGED <<received, drops>>
  BY DEF ReadEvents
<1> HIDE DEF page
<1>4. /\ s.step = "emit" /\ s.next_seq = stream[c].next_seq /\ s \in Streams
      /\ s.terminal = stream[c].terminal /\ s.page = page /\ s.full = (page # <<>>)
  BY <1>2, OwnFacts DEF Streams
<1>5. ASSUME ~s.full PROVE page = <<>> /\ r = events /\ \A n \in announced : n < s.next_seq
  <2>1. page = <<>> /\ Len(r) = Len(events)
    BY <1>2, <1>4, <1>5
  <2>2. r = events
    BY <2>1, OwnFacts, SeqEqual DEF Delivers
  <2>3. announced \subseteq 1..Len(events)
    BY DEF SInv, PublishedIsCommitted
  <2>4. \A n \in announced : n < Len(r) + 1
    BY <2>1, <2>3, OwnFacts
  <2> QED BY <1>1, <1>4, <2>1, <2>2, <2>4
<1>6. StreamOk(s, r)
  <2> HIDE DEF s
  <2>1. Delivers(r, events) /\ (stream[c].terminal => Ends(events))
    BY OwnFacts DEF StreamOk
  <2>2. s.terminal => Ends(events)
    BY <1>4, <2>1
  <2>3. ~s.full => s.page = <<>> /\ (s.terminal => Ends(r))
    BY <1>4, <1>5, <2>2
  <2>4. FoundNothing(s) => ~s.full
    BY <1>4 DEF FoundNothing
  <2>5. PageFollows(s.page, r) /\ s.next_seq = Len(r) + 1
    BY <1>1, <1>2, <1>4
  <2> QED BY <1>4, <1>5, <2>1, <2>2, <2>3, <2>4, <2>5 DEF StreamOk
<1> HIDE DEF s
<1> QED BY <1>3, <1>4, <1>6, OwnFacts, OneStreamTurns

(* The head of the page is the client's next row. *)
LEMMA EmitStep == ASSUME SInv, NEW c \in Clients, Emit(c) PROVE SInv'
<1> DEFINE r == received[c]
           page == stream[c].page
           e == Head(page)
           s == [stream[c] EXCEPT !.page = Tail(@), !.next_seq = e.seq + 1]
           q == Append(r, e)
<1>1. /\ stream[c].step = "emit" /\ page # <<>> /\ page \in Seq(Rows) /\ r \in Seq(Rows)
      /\ PageFollows(page, r) /\ Delivers(r, events) /\ Len(r) \in Nat /\ Len(page) \in Nat
      /\ events \in Seq(Rows) /\ Len(events) \in Nat /\ stream[c] \in Streams
  BY OwnFacts DEF Emit, StreamOk, Streams
<1>2. /\ e \in Rows /\ Tail(page) \in Seq(Rows) /\ Len(Tail(page)) = Len(page) - 1
      /\ \A i \in 1..Len(Tail(page)) : Tail(page)[i] = page[i + 1]
      /\ e = page[1] /\ Len(page) >= 1
  BY <1>1, HeadTailProperties
<1>3. e = events[Len(r) + 1] /\ Len(r) + 1 \in 1..Len(events)
  <2> HIDE DEF e, r, page
  <2>1. 1 \in 1..Len(page) /\ Len(r) + 1 \in 1..Len(events)
    BY <1>1, <1>2 DEF PageFollows
  <2> QED BY <1>1, <1>2, <2>1 DEF PageFollows
<1>4. e.seq = Len(r) + 1
  BY <1>3 DEF SInv, LInv, LedgerVerifies, VerifyEvents
<1>5. /\ q \in Seq(Rows) /\ Len(q) = Len(r) + 1 /\ q[Len(r) + 1] = e
      /\ \A i \in 1..Len(r) : q[i] = r[i]
  BY <1>1, <1>2, AppendProperties
<1>6. SetStream(c, s) /\ received' = [received EXCEPT ![c] = q] /\ UNCHANGED drops
  BY DEF Emit
<1> HIDE DEF e, page
<1>7. /\ s.step = "emit" /\ s.next_seq = Len(r) + 2 /\ s.page = Tail(page) /\ s \in Streams
      /\ s.terminal = stream[c].terminal /\ s.full = stream[c].full
  <2>1. e.seq + 1 = Len(r) + 2 /\ Len(r) + 2 \in Nat
    BY <1>1, <1>4
  <2>2. s = [stream[c] EXCEPT !.page = Tail(page), !.next_seq = Len(r) + 2]
    BY <2>1 DEF page
  <2> HIDE DEF s
  <2> QED BY <1>1, <1>2, <2>1, <2>2 DEF Streams
<1> HIDE DEF q, s
<1>8. Delivers(q, events)
  <2>1. \A i \in 1..Len(q) : i \in 1..Len(r) \/ i = Len(r) + 1
    BY <1>1, <1>5
  <2>2. Len(q) <= Len(events)
    BY <1>1, <1>3, <1>5
  <2>3. \A i \in 1..Len(r) : r[i] = events[i]
    BY <1>1 DEF Delivers
  <2> QED BY <1>3, <1>5, <2>1, <2>2, <2>3 DEF Delivers
<1>9. PageFollows(s.page, q)
  <2> DEFINE more == s.page
  <2>0. more = Tail(page) /\ Len(more) = Len(page) - 1
    BY <1>2, <1>7
  <2> HIDE DEF more, r
  <2>1. \A i \in 1..Len(more) : i + 1 \in 1..Len(page) /\ Len(r) + (i + 1) = Len(q) + i
    BY <1>1, <1>5, <2>0
  <2>2. Len(q) + Len(more) <= Len(events)
    BY <1>1, <1>5, <2>0 DEF PageFollows
  <2>3. \A i \in 1..Len(more) : more[i] = page[i + 1] /\ page[i + 1] = events[Len(r) + (i + 1)]
    BY <1>1, <1>2, <2>0, <2>1 DEF PageFollows
  <2>4. \A i \in 1..Len(more) : more[i] = events[Len(q) + i]
    BY <2>1, <2>3
  <2> QED BY <2>2, <2>4 DEF PageFollows, more
<1>10. stream[c].full = TRUE
  BY <1>1, OwnFacts DEF StreamOk, Streams, page
<1>11. StreamOk(s, q)
  <2>1. stream[c].terminal => Ends(events)
    BY OwnFacts DEF StreamOk
  <2>2. s.next_seq = Len(q) + 1
    BY <1>1, <1>5, <1>7
  <2> QED BY <1>7, <1>8, <1>9, <1>10, <2>1, <2>2 DEF StreamOk, FoundNothing
<1> QED BY <1>5, <1>6, <1>7, <1>11, OwnFacts, OneStreamMoves

LEMMA PageDoneStep == ASSUME SInv, NEW c \in Clients, PageDone(c) PROVE SInv'
<1> DEFINE o == stream[c]
<1>1. /\ o.step = "emit" /\ o \in Streams /\ StreamOk(o, received[c])
      /\ UNCHANGED <<received, drops>> /\ drops' \in 0..MaxDrops
  BY OwnFacts DEF PageDone
<1>2. CASE o.full
  <2> DEFINE s == [o EXCEPT !.step = "clear", !.full = FALSE]
  <2>1. s.step = "clear" /\ s.next_seq = o.next_seq /\ s.terminal = o.terminal /\ s \in Streams
    BY <1>1 DEF Streams
  <2>2. SetStream(c, s)
    BY <1>2 DEF PageDone
  <2> HIDE DEF s
  <2>3. StreamOk(s, received[c])
    BY <1>1, <2>1 DEF StreamOk, FoundNothing
  <2> QED BY <1>1, <2>1, <2>2, <2>3, OneStreamTurns
<1>3. CASE ~o.full /\ Over(c)
  <2> DEFINE s == [Closed EXCEPT !.step = "returned"]
  <2>1. s.step = "returned" /\ s.terminal = FALSE /\ s \in Streams
    <3>1. <<>> \in Seq(Rows) /\ 1 \in Nat
      OBVIOUS
    <3> QED BY <3>1 DEF Closed, Streams
  <2>2. SetStream(c, s)
    BY <1>3 DEF PageDone
  <2> HIDE DEF s
  <2>3. Ends(received[c]) /\ Delivers(received[c], events)
    BY <1>1, <1>3 DEF StreamOk, Over
  <2>4. StreamOk(s, received[c])
    BY <2>1, <2>3 DEF StreamOk, FoundNothing
  <2> QED BY <1>1, <2>1, <2>2, <2>4, OneStreamTurns
<1>4. CASE ~o.full /\ ~Over(c)
  <2> DEFINE s == [o EXCEPT !.step = "wait"]
  <2>1. /\ s.step = "wait" /\ s.next_seq = o.next_seq /\ s.terminal = o.terminal
        /\ s.wakeup = o.wakeup /\ s \in Streams
    BY <1>1 DEF Streams
  <2>2. SetStream(c, s)
    BY <1>4 DEF PageDone, Wait
  <2> HIDE DEF s
  <2>3. StreamOk(s, received[c])
    BY <1>1, <1>4, <2>1 DEF StreamOk, FoundNothing
  <2> QED BY <1>1, <2>1, <2>2, <2>3, OneStreamTurns
<1> QED BY <1>2, <1>3, <1>4

LEMMA ResumeStep == ASSUME SInv, NEW c \in Clients, Resume(c) PROVE SInv'
<1> DEFINE s == [stream[c] EXCEPT !.step = "clear"]
<1>1. /\ s.step = "clear" /\ s.next_seq = stream[c].next_seq /\ s \in Streams
      /\ s.terminal = stream[c].terminal /\ stream[c].step = "wait"
  BY OwnFacts DEF Streams, Resume
<1>2. StreamOk(s, received[c])
  <2> HIDE DEF s
  <2> QED BY <1>1, OwnFacts DEF StreamOk, FoundNothing
<1>3. SetStream(c, s) /\ UNCHANGED <<received, drops>>
  BY DEF Resume
<1> HIDE DEF s
<1> QED BY <1>1, <1>2, <1>3, OwnFacts, OneStreamTurns

LEMMA DisconnectStep == ASSUME SInv, NEW c \in Clients, Disconnect(c) PROVE SInv'
<1>1. /\ Closed \in Streams /\ Closed.step = "closed" /\ Closed.terminal = FALSE
  <2>1. <<>> \in Seq(Rows) /\ 1 \in Nat
    OBVIOUS
  <2> QED BY <2>1 DEF Closed, Streams
<1>2. StreamOk(Closed, received[c])
  BY <1>1, OwnFacts DEF StreamOk, FoundNothing
<1>3. SetStream(c, Closed) /\ UNCHANGED received
  BY DEF Disconnect
<1>4. drops' \in 0..MaxDrops
  BY OwnFacts, StreamAssumption DEF Disconnect
<1> QED BY <1>1, <1>2, <1>3, <1>4, OneStreamTurns
-----------------------------------------------------------------------------
LEMMA SStep == SInv /\ [SNext]_vars => SInv'
<1> SUFFICES ASSUME SInv, [SNext]_vars PROVE SInv'
  OBVIOUS
<1>1. CASE UNCHANGED vars
  <2>1. UNCHANGED ledgerVars /\ UNCHANGED <<events, ended, unpublished, announced, stream,
                                            received, drops>>
    BY <1>1 DEF vars, streamVars, ledgerVars
  <2>2. LInv' /\ LedgerTypeOK'
    BY <2>1, LNext DEF SInv, LInv
  <2> QED BY <2>1, <2>2 DEF SInv, TypeOK, PublishedIsCommitted, EndIsRecorded, StreamsOk,
             StreamOk, FoundNothing, PageFollows
<1>2. CASE LedgerStep
  BY <1>2, LedgerStepStep
<1>3. CASE \E n \in unpublished : Publish(n) \/ PublicationLost(n)
  BY <1>3, PublishStep, PublicationLostStep
<1>4. CASE \E c \in Clients : StreamStep(c) \/ Disconnect(c)
  BY <1>4, ConnectStep, ClearWakeupStep, ReadLifecycleStep, ReadEventsStep, EmitStep,
     PageDoneStep, ResumeStep, DisconnectStep DEF StreamStep
<1> QED BY <1>1, <1>2, <1>3, <1>4 DEF SNext

LEMMA SInvariant == SSpec => []SInv
BY SInitial, SStep, PTL DEF SSpec
-----------------------------------------------------------------------------
(* The ledger's rows, the publications and every stream keep their types. *)
THEOREM StreamTyping == SSpec => []TypeOK
<1>1. SInv => TypeOK
  BY DEF SInv
<1> QED BY <1>1, SInvariant, PTL

(* stream_events hands every client the ledger in order, without a gap or a  *)
(* repetition, however often the connection is lost and resumed with         *)
(* Last-Event-ID and whatever is committed in between.                       *)
THEOREM StreamsDeliverPrefixes == SSpec => []ReceivedIsPrefix
<1>1. SInv => ReceivedIsPrefix
  <2> SUFFICES ASSUME SInv, NEW c \in Clients
               PROVE  /\ Len(received[c]) <= Len(events)
                      /\ received[c] = SubSeq(events, 1, Len(received[c]))
    BY DEF ReceivedIsPrefix
  <2> DEFINE r == received[c]
             n == Len(r)
  <2>1. r \in Seq(Rows) /\ n \in Nat /\ events \in Seq(Rows) /\ Len(events) \in Nat
        /\ n <= Len(events) /\ \A i \in 1..n : r[i] = events[i]
    BY OwnFacts DEF Delivers
  <2>2. \A i \in 1..n : events[i] \in Rows
    BY <2>1, ElementOfSeq
  <2>3. /\ SubSeq(events, 1, n) \in Seq(Rows) /\ Len(SubSeq(events, 1, n)) = n
        /\ \A i \in 1..n : SubSeq(events, 1, n)[i] = events[i]
    <3>1. n \in Int /\ 1 \in Int /\ n - 1 + 1 = n
      BY <2>1
    <3> HIDE DEF n
    <3> QED BY <2>1, <2>2, <3>1, SubSeqProperties
  <2> HIDE DEF r
  <2>4. r = SubSeq(events, 1, n)
    BY <2>1, <2>3, SeqEqual
  <2> QED BY <2>1, <2>4 DEF r
<1> QED BY <1>1, SInvariant, PTL

(* A stream that returns had read the lifecycle row before the page it found *)
(* empty, so its client has all that the ending transaction recorded.        *)
THEOREM ReturnedStreamsAreComplete == SSpec => []ReturnedIsComplete
<1>1. SInv => ReturnedIsComplete
  BY OwnFacts DEF StreamOk, Ends, Contains, ReturnedIsComplete
<1> QED BY <1>1, SInvariant, PTL

(* The wakeup is cleared before the read, so no publication that arrives     *)
(* between the read and the wait is slept through.                           *)
THEOREM WakeupsAreNotLost == SSpec => []NoLostWakeup
<1>1. SInv => NoLostWakeup
  BY OwnFacts DEF StreamOk, FoundNothing, NoLostWakeup
<1> QED BY <1>1, SInvariant, PTL
=============================================================================
