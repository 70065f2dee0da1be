--------------------------- MODULE SemanticMemory ---------------------------
(***************************************************************************)
(* Validated semantic memory.  An entry is a versioned snapshot of an      *)
(* ACTIVE artifact that people have promoted on evidence; its state is     *)
(* never stored but read back, for any time, from the append-only list of  *)
(* retention events and the date by which it was to be reviewed.           *)
(*                                                                         *)
(* A promotion and a retention are transactions of the caller: what they   *)
(* check, what the triggers check at the insert and the commit are         *)
(* separate steps, and other transactions run in between.                  *)
(*                                                                         *)
(* Sources: backend/app/domain/memory.py, db/memory.py, db/models/memory.py *)
(* and the migration 20260906_0016.                                        *)
(***************************************************************************)
EXTENDS Integers, FiniteSets

CONSTANTS
  Artifacts,     \* reasoning artifacts of the session
  EvidenceOnly,  \* those of kind EVIDENCE
  TierOf,        \* [namespaces -> tier]
  Members,       \* members of the workspace
  Promotions,    \* [id -> [entry, artifact, namespace, evidence, validators, at, review, supersedes]]
  Retentions,    \* [id -> [entry, namespace, state, actor, at]]
  LastDay        \* bound: the days of the reads

ASSUME MemoryDays == LastDay \in Nat

(* PromotionCommand and MemoryLifecycleCommand as pydantic types them, of    *)
(* the session's artifacts and the workspace's namespaces, each with a       *)
(* transaction of its own.                                                   *)
ASSUME PromotionsAreCommands ==
  \A p \in DOMAIN Promotions :
    /\ Promotions[p].entry \in STRING /\ Promotions[p].supersedes \in STRING
    /\ Promotions[p].artifact \in Artifacts /\ Promotions[p].namespace \in DOMAIN TierOf
    /\ Promotions[p].at \in Int /\ Promotions[p].review \in Int
ASSUME RetentionsAreCommands ==
  \A r \in DOMAIN Retentions :
    Retentions[r].entry \in STRING /\ Retentions[r].at \in Int /\ r \notin DOMAIN Promotions

VARIABLES
  artifact,     \* [Artifacts -> "ACTIVE" or "RETIRED"]
  people,       \* members that are active
  entries,      \* committed rows of semantic_memory_entries with their promotion
  lifecycle,    \* committed rows of memory_lifecycle_events
  memoryTx      \* [ids -> [step, version]]

memoryVars == <<artifact, people, entries, lifecycle, memoryTx>>

NoEntry == "none"
Never == -1     \* no date of review
Entry(id) == {e \in entries : e.entry = id}

(* The rows of semantic_memory_entries and memory_lifecycle_events. *)
EntryRows ==
  [entry : STRING, promotion : DOMAIN Promotions, artifact : Artifacts, namespace : DOMAIN TierOf,
   version : Nat \ {0}, supersedes : STRING, at : Int, review : Int]
LifecycleEventRows == [entry : STRING, state : {"STALE", "ARCHIVED"}, at : Int]
MemoryTransactions == [step : {"new", "checked", "inserted", "committed", "refused"}, version : Nat]

At(id, step) == memoryTx[id].step = step
Move(id, step) == memoryTx' = [memoryTx EXCEPT ![id].step = step]
-----------------------------------------------------------------------------
(* PromotionCommand and ValidationRecord. *)
ValidPromotion(p) ==
  /\ p.evidence # {} /\ p.validators # <<>>
  /\ \A i, j \in DOMAIN p.validators : i # j => p.validators[i] # p.validators[j]
  /\ p.review # Never => p.review > p.at

(* RetentionPolicy and MemoryLifecycleCommand. *)
ValidRetention(r) == r.state \in {"STALE", "ARCHIVED"}

(* The checks of _promote on the artifact, the namespace and the validators, *)
(* made again by the triggers on the inserts.                                *)
SourceStands(p) ==
  /\ TierOf[p.namespace] \in {"HISTORICAL", "GLOBAL"}
  /\ artifact[p.artifact] = "ACTIVE"
ValidatorsStand(p) ==
  /\ \A i \in DOMAIN p.validators : p.validators[i] \in people
  /\ TierOf[p.namespace] = "GLOBAL" => DOMAIN p.validators = 1..2
EvidenceStands(p) == \A a \in p.evidence : a \in EvidenceOnly /\ artifact[a] = "ACTIVE"

Predecessor(p) == {e \in Entry(p.supersedes) : e.namespace = p.namespace}

(* promote, up to the inserts: the predecessor's row is locked FOR SHARE, and *)
(* the version follows its version.                                          *)
CheckPromotion(id) ==
  LET p == Promotions[id]
  IN /\ At(id, "new")
     /\ ~\E r \in DOMAIN Retentions : At(r, "inserted") /\ Retentions[r].entry = p.supersedes
     /\ IF /\ ValidPromotion(p) /\ SourceStands(p) /\ ValidatorsStand(p) /\ EvidenceStands(p)
           /\ p.supersedes # NoEntry => Predecessor(p) # {}
        THEN memoryTx' = [memoryTx EXCEPT ![id] = [step |-> "checked",
               version |-> IF p.supersedes = NoEntry THEN 1
                           ELSE 1 + (CHOOSE e \in Predecessor(p) : TRUE).version]]
        ELSE Move(id, "refused")
     /\ UNCHANGED <<artifact, people, entries, lifecycle>>

Row(id) == [entry |-> Promotions[id].entry, promotion |-> id, artifact |-> Promotions[id].artifact,
            namespace |-> Promotions[id].namespace, version |-> memoryTx[id].version,
            supersedes |-> Promotions[id].supersedes, at |-> Promotions[id].at,
            review |-> Promotions[id].review]

(* The unique constraints: the entry, the version of an artifact, and the    *)
(* entry that is superseded.                                                 *)
Conflicts(e, f) ==
  \/ e.entry = f.entry
  \/ e.artifact = f.artifact /\ e.version = f.version
  \/ e.supersedes = f.supersedes /\ e.supersedes # NoEntry

(* promote, the inserts: a conflicting insert that has not been committed is *)
(* waited for; a committed one, or a trigger, refuses the promotion.         *)
InsertEntry(id) ==
  LET p == Promotions[id]
  IN /\ At(id, "checked")
     /\ ~\E q \in DOMAIN Promotions \ {id} : At(q, "inserted") /\ Conflicts(Row(q), Row(id))
     /\ IF SourceStands(p) /\ ValidatorsStand(p) /\ EvidenceStands(p) /\ ~\E e \in entries : Conflicts(e, Row(id))
        THEN Move(id, "inserted") ELSE Move(id, "refused")
     /\ UNCHANGED <<artifact, people, entries, lifecycle>>

(* The caller commits; the deferred triggers find the promotion and evidence. *)
CommitEntry(id) ==
  /\ At(id, "inserted")
  /\ entries' = entries \cup {Row(id)} /\ Move(id, "committed")
  /\ UNCHANGED <<artifact, people, lifecycle>>
-----------------------------------------------------------------------------
EventsOf(id) == {l \in lifecycle : l.entry = id}
Latest(events) == CHOOSE l \in events : \A k \in events : k.at <= l.at

(* _read: the state of an entry at a time. *)
StateAt(e, day) ==
  LET past == {l \in EventsOf(e.entry) : l.at <= day}
  IN IF past # {} THEN Latest(past).state
     ELSE IF e.review # Never /\ e.review <= day THEN "STALE" ELSE "ACTIVE"

(* expire, up to the insert: the entry at the time of the event. *)
CheckRetention(id) ==
  LET r == Retentions[id]
      known == {e \in Entry(r.entry) : e.at <= r.at /\ e.namespace = r.namespace}
  IN /\ At(id, "new")
     /\ IF ValidRetention(r) /\ \E e \in known : StateAt(e, r.at) \notin {"ARCHIVED", r.state}
        THEN Move(id, "checked") ELSE Move(id, "refused")
     /\ UNCHANGED <<artifact, people, entries, lifecycle>>

(* Mutant: the trigger reads the events without a lock on the entry. *)
EntryUnguarded(id) == TRUE

(* The trigger locks the entry FOR UPDATE, against other events and against  *)
(* promotions that supersede it.                                             *)
EntryUnlocked(id) ==
  /\ ~\E s \in DOMAIN Retentions \ {id} : At(s, "inserted") /\ Retentions[s].entry = Retentions[id].entry
  /\ ~\E p \in DOMAIN Promotions : memoryTx[p].step \in {"checked", "inserted"}
                                  /\ Promotions[p].supersedes = Retentions[id].entry

(* validate_memory_lifecycle_event: time goes on and states only get older. *)
Monotonic(r) ==
  LET prior == EventsOf(r.entry)
  IN /\ r.actor \in people
     /\ \A e \in Entry(r.entry) : r.at >= e.at
     /\ prior # {} => /\ r.at > Latest(prior).at /\ Latest(prior).state = "STALE" /\ r.state = "ARCHIVED"

InsertRetention(id) ==
  /\ At(id, "checked") /\ EntryUnlocked(id)
  /\ Move(id, IF Monotonic(Retentions[id]) THEN "inserted" ELSE "refused")
  /\ UNCHANGED <<artifact, people, entries, lifecycle>>

CommitRetention(id) ==
  /\ At(id, "inserted")
  /\ lifecycle' = lifecycle \cup {[entry |-> Retentions[id].entry, state |-> Retentions[id].state, at |-> Retentions[id].at]}
  /\ Move(id, "committed")
  /\ UNCHANGED <<artifact, people, entries>>
-----------------------------------------------------------------------------
(* A caller fails and its transaction is rolled back. *)
AbortMemory(id) ==
  /\ memoryTx[id].step \in {"checked", "inserted"} /\ Move(id, "refused")
  /\ UNCHANGED <<artifact, people, entries, lifecycle>>

(* Elsewhere an artifact is superseded or withdrawn, and a user deactivated. *)
RetireArtifact(a) ==
  /\ artifact[a] = "ACTIVE" /\ artifact' = [artifact EXCEPT ![a] = "RETIRED"]
  /\ UNCHANGED <<people, entries, lifecycle, memoryTx>>
Deactivate(u) ==
  /\ u \in people /\ people' = people \ {u}
  /\ UNCHANGED <<artifact, entries, lifecycle, memoryTx>>

MemoryInit ==
  /\ artifact = [a \in Artifacts |-> "ACTIVE"] /\ people = Members
  /\ entries = {} /\ lifecycle = {}
  /\ memoryTx = [id \in DOMAIN Promotions \cup DOMAIN Retentions |-> [step |-> "new", version |-> 0]]

MemoryNext ==
  \/ \E id \in DOMAIN Promotions : CheckPromotion(id) \/ InsertEntry(id) \/ CommitEntry(id)
  \/ \E id \in DOMAIN Retentions : CheckRetention(id) \/ InsertRetention(id) \/ CommitRetention(id)
  \/ \E id \in DOMAIN memoryTx : AbortMemory(id)
  \/ \E a \in Artifacts : RetireArtifact(a)
  \/ \E u \in Members : Deactivate(u)

MemorySpec == MemoryInit /\ [][MemoryNext]_memoryVars
-----------------------------------------------------------------------------
(* The types: rows are of their tables, and every event is of an entry.      *)
MemoryTypeOK ==
  /\ artifact \in [Artifacts -> {"ACTIVE", "RETIRED"}] /\ people \subseteq Members
  /\ entries \subseteq EntryRows /\ lifecycle \subseteq LifecycleEventRows
  /\ \A l \in lifecycle : Entry(l.entry) # {}
  /\ memoryTx \in [DOMAIN Promotions \cup DOMAIN Retentions -> MemoryTransactions]
-----------------------------------------------------------------------------
Age == [ACTIVE |-> 0, STALE |-> 1, ARCHIVED |-> 2]

(* Whatever transactions interleave, the history that has been written can   *)
(* be replayed: read at later and later times an entry only grows older and  *)
(* is never archived twice or revived (db/memory.py _read, expire), and the  *)
(* versions of a memory form one line, each entry superseded at most once,   *)
(* in its own namespace and by the next version (_promote).                  *)
HistoryReplays ==
  /\ \A e \in entries : \A day \in e.at..LastDay, later \in e.at..LastDay :
       day <= later => Age[StateAt(e, day)] <= Age[StateAt(e, later)]
  /\ \A k, l \in lifecycle : (k.entry = l.entry /\ k.at = l.at) => k = l
  /\ \A e \in entries : e.supersedes # NoEntry =>
       \E f \in entries : f.entry = e.supersedes /\ f.namespace = e.namespace /\ e.version = f.version + 1
  /\ \A e, f \in entries : (e.supersedes = f.supersedes /\ e.supersedes # NoEntry) => e = f
=============================================================================
