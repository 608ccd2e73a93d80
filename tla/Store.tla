------------------------------- MODULE Store -------------------------------
(***************************************************************************)
(* The record store of one sqnsd process (crates/sqnsd/src/store.rs) with  *)
(* the maintenance task that sweeps and persists it (server.rs).           *)
(*                                                                         *)
(* Request handlers and replication pulls call Store::put from several     *)
(* worker threads.  A put is not atomic: it reads the clock and checks the *)
(* record with no lock held, merges it under the `records' lock, and only  *)
(* after releasing that lock pins the key in `bindings', then lists it in  *)
(* `identity_index', then bumps `revision'.  Each of these is a step here, *)
(* and steps of different tasks interleave.  The snapshot writer is a      *)
(* process of its own.  The machine may lose the process at any step and   *)
(* start it again from the snapshot.                                       *)
(***************************************************************************)
EXTENDS Merge, Integers, FiniteSets

CONSTANTS
    Task,          \* threads that may be inside Store::put at one time
    Offered,       \* the records clients and peers may ever present
    MaxTime,       \* bound on the clock
    MaxRevision,   \* bound on the changes made by one process
    ClockMayStep,  \* may the wall clock be set back (now_unix is no monotonic clock)
    Racing         \* may puts of one key overlap before the key is bound

ASSUME StoreAssumption ==
    /\ Offered \subseteq Record
    /\ MaxTime \in Nat
    /\ MaxRevision \in Nat
    /\ ClockMayStep \in BOOLEAN
    /\ Racing \in BOOLEAN
    /\ IsFiniteSet(PubKey)

VARIABLES
    now,                  \* now_unix() of the machine
    up,                   \* is the process running
    records,              \* Store::records
    bindings,             \* Store::bindings
    identity_index,       \* Store::identity_index
    revision,             \* Store::revision
    task,                 \* the put each thread is in, and how far it has got
    writer,               \* the persist the maintenance task is in
    persisted_revision,   \* its local of that name
    disk                  \* what the snapshot file holds

memory == <<records, bindings, identity_index, revision>>

vars == <<now, up, memory, task, writer, persisted_revision, disk>>

-----------------------------------------------------------------------------
Maybe == Offered \union {NoRecord}

Snapshot ==
    [records  : [PubKey -> Maybe],
     bindings : [PubKey -> PubKey \union {NoKey}]]

(* The contents of a store that holds nothing; also a missing file.        *)
Blank == [records |-> [k \in PubKey |-> NoRecord], bindings |-> [k \in PubKey |-> NoKey]]

Idle == [pc |-> "idle", rec |-> NoRecord]

(* u64::MAX, which no revision reaches.                                    *)
Unwritten == -1

AtRest == [pc |-> "idle", revision |-> Unwritten, bytes |-> Blank]

Contents == [records |-> records, bindings |-> bindings]

-----------------------------------------------------------------------------
(***************************************************************************)
(* Store::put.                                                             *)
(***************************************************************************)

(* No other thread is in a put of a key that is not bound yet: what the    *)
(* clients, and not the code, have to see to.                              *)
Alone(t, k) ==
    bindings[k] = NoKey => \A u \in Task \ {t} : task[u].pc # "idle" => task[u].rec.key # k

(* A record that is not admissible is refused with nothing changed.        *)
PutCheck(t, r) ==
    /\ up
    /\ task[t].pc = "idle"
    /\ revision < MaxRevision
    /\ admissible(r, now)
    /\ Racing \/ Alone(t, r.key)
    /\ task' = [task EXCEPT ![t] = [pc |-> "merge", rec |-> r]]
    /\ UNCHANGED <<now, up, memory, writer, persisted_revision, disk>>

(* Mutant: the record is let go and the step is not.                       *)
PutRefused_stuck(t) ==
    LET r == task[t].rec IN
    /\ task[t].pc = "merge"
    /\ ~mergeable(r, records[r.key], bindings[r.key])
    /\ task' = [task EXCEPT ![t].rec = NoRecord]
    /\ UNCHANGED <<now, up, memory, writer, persisted_revision, disk>>

PutRefused(t) ==
    LET r == task[t].rec IN
    /\ task[t].pc = "merge"
    /\ ~mergeable(r, records[r.key], bindings[r.key])
    /\ task' = [task EXCEPT ![t] = Idle]
    /\ UNCHANGED <<now, up, memory, writer, persisted_revision, disk>>

PutInsert(t) ==
    LET r == task[t].rec IN
    /\ task[t].pc = "merge"
    /\ mergeable(r, records[r.key], bindings[r.key])
    /\ records' = [records EXCEPT ![r.key] = r]
    /\ task' = [task EXCEPT ![t].pc = "bind"]
    /\ UNCHANGED <<now, up, bindings, identity_index, revision, writer, persisted_revision, disk>>

(* Store::bind, first lock: entry(service_key).or_insert(identity).        *)
PutBind(t) ==
    LET r == task[t].rec IN
    /\ task[t].pc = "bind"
    /\ bindings' = [bindings EXCEPT ![r.key] = IF @ = NoKey THEN r.identity ELSE @]
    /\ task' = [task EXCEPT ![t].pc = "index"]
    /\ UNCHANGED <<now, up, records, identity_index, revision, writer, persisted_revision, disk>>

(* Mutant: the arguments are swapped.                                      *)
PutIndex_swapped(t) ==
    LET r == task[t].rec IN
    /\ task[t].pc = "index"
    /\ identity_index' = [identity_index EXCEPT ![r.key] = @ \union {r.identity}]
    /\ task' = [task EXCEPT ![t].pc = "bump"]
    /\ UNCHANGED <<now, up, records, bindings, revision, writer, persisted_revision, disk>>

(* Store::bind, second lock.                                               *)
PutIndex(t) ==
    LET r == task[t].rec IN
    /\ task[t].pc = "index"
    /\ identity_index' = [identity_index EXCEPT ![r.identity] = @ \union {r.key}]
    /\ task' = [task EXCEPT ![t].pc = "bump"]
    /\ UNCHANGED <<now, up, records, bindings, revision, writer, persisted_revision, disk>>

PutDone(t) ==
    /\ task[t].pc = "bump"
    /\ revision' = revision + 1
    /\ task' = [task EXCEPT ![t] = Idle]
    /\ UNCHANGED <<now, up, records, bindings, identity_index, writer, persisted_revision, disk>>

-----------------------------------------------------------------------------
(***************************************************************************)
(* The maintenance task: sweep, and persist when something changed.        *)
(***************************************************************************)

(* Mutant: a sweep also forgets who the swept keys belong to.              *)
PurgeExpired_unbinds ==
    LET lapsed == {k \in PubKey : records[k] # NoRecord /\ is_expired(records[k], now)} IN
    /\ up
    /\ writer.pc = "idle"
    /\ revision < MaxRevision
    /\ lapsed # {}
    /\ records' = [k \in PubKey |-> IF k \in lapsed THEN NoRecord ELSE records[k]]
    /\ bindings' = [k \in PubKey |-> IF k \in lapsed THEN NoKey ELSE bindings[k]]
    /\ revision' = revision + 1
    /\ UNCHANGED <<now, up, identity_index, task, writer, persisted_revision, disk>>

(* purge_expired.  The lock is held throughout and the bindings are kept.  *)
PurgeExpired ==
    LET lapsed == {k \in PubKey : records[k] # NoRecord /\ is_expired(records[k], now)} IN
    /\ up
    /\ writer.pc = "idle"
    /\ revision < MaxRevision
    /\ lapsed # {}
    /\ records' = [k \in PubKey |-> IF k \in lapsed THEN NoRecord ELSE records[k]]
    /\ revision' = revision + 1
    /\ UNCHANGED <<now, up, bindings, identity_index, task, writer, persisted_revision, disk>>

(* Mutant: off by one, a single change is not written.                     *)
PersistTick_one ==
    /\ up
    /\ writer.pc = "idle"
    /\ revision > persisted_revision + 1
    /\ writer' = [AtRest EXCEPT !.pc = "encode", !.revision = revision]
    /\ UNCHANGED <<now, up, memory, task, persisted_revision, disk>>

(* A persist tick reads the revision first and skips an idle interval.     *)
PersistTick ==
    /\ up
    /\ writer.pc = "idle"
    /\ revision # persisted_revision
    /\ writer' = [AtRest EXCEPT !.pc = "encode", !.revision = revision]
    /\ UNCHANGED <<now, up, memory, task, persisted_revision, disk>>

(* persist() encodes records and bindings under both read locks.           *)
PersistEncode ==
    /\ writer.pc = "encode"
    /\ writer' = [writer EXCEPT !.pc = "install", !.bytes = Contents]
    /\ UNCHANGED <<now, up, memory, task, persisted_revision, disk>>

(* Mutant: the revision is read after the write instead of before it.      *)
PersistInstall_late ==
    /\ writer.pc = "install"
    /\ disk' = writer.bytes
    /\ persisted_revision' = revision
    /\ writer' = AtRest
    /\ UNCHANGED <<now, up, memory, task>>

(* The temporary file is complete and renamed over the snapshot.           *)
PersistInstall ==
    /\ writer.pc = "install"
    /\ disk' = writer.bytes
    /\ persisted_revision' = writer.revision
    /\ writer' = AtRest
    /\ UNCHANGED <<now, up, memory, task>>

(* Making the directory, or creating, writing, syncing or renaming the     *)
(* file failed; logged and left.                                           *)
PersistFail ==
    /\ writer.pc # "idle"
    /\ writer' = AtRest
    /\ UNCHANGED <<now, up, memory, task, persisted_revision, disk>>

-----------------------------------------------------------------------------
(***************************************************************************)
(* The process stops at any point; Store::open starts it again.            *)
(***************************************************************************)

(* The process is gone and with it everything but the snapshot file.       *)
Crash ==
    /\ up
    /\ up' = FALSE
    /\ records' = Blank.records
    /\ bindings' = Blank.bindings
    /\ identity_index' = [i \in PubKey |-> {}]
    /\ revision' = 0
    /\ task' = [t \in Task |-> Idle]
    /\ writer' = AtRest
    /\ persisted_revision' = Unwritten
    /\ UNCHANGED <<now, disk>>

(* What open() keeps of a snapshot at time t: all bindings, and each       *)
(* record that Store::put accepts once those bindings are in force.        *)
loadable(snap, k, t) ==
    LET r == snap.records[k] IN
    /\ r # NoRecord
    /\ admissible(r, t)
    /\ mergeable(r, NoRecord, snap.bindings[k])

(* Mutant: bindings are restored from the records only.                    *)
Open_unbound ==
    LET loaded == {k \in PubKey : loadable(disk, k, now)}
        bound == [k \in PubKey |-> IF k \in loaded THEN disk.records[k].identity ELSE NoKey]
    IN
    /\ ~up
    /\ up' = TRUE
    /\ records' = [k \in PubKey |-> IF k \in loaded THEN disk.records[k] ELSE NoRecord]
    /\ bindings' = bound
    /\ identity_index' = [i \in PubKey |-> {k \in PubKey : bound[k] = i}]
    /\ revision' = Cardinality(loaded)
    /\ UNCHANGED <<now, task, writer, persisted_revision, disk>>

Open ==
    LET loaded == {k \in PubKey : loadable(disk, k, now)}
        bound == [k \in PubKey |->
                    IF k \in loaded THEN disk.records[k].identity ELSE disk.bindings[k]]
    IN
    /\ ~up
    /\ up' = TRUE
    /\ records' = [k \in PubKey |-> IF k \in loaded THEN disk.records[k] ELSE NoRecord]
    /\ bindings' = bound
    /\ identity_index' = [i \in PubKey |-> {k \in PubKey : bound[k] = i}]
    /\ revision' = Cardinality(loaded)
    /\ UNCHANGED <<now, task, writer, persisted_revision, disk>>

-----------------------------------------------------------------------------
(* The wall clock, which an operator or NTP may also set back.             *)
Tick ==
    /\ now < MaxTime
    /\ now' = now + 1
    /\ UNCHANGED <<up, memory, task, writer, persisted_revision, disk>>

StepBack ==
    /\ ClockMayStep
    /\ now > 0
    /\ \E t \in 0 .. now - 1 : now' = t
    /\ UNCHANGED <<up, memory, task, writer, persisted_revision, disk>>

Init ==
    /\ now = 0
    /\ up = TRUE
    /\ records = Blank.records
    /\ bindings = Blank.bindings
    /\ identity_index = [i \in PubKey |-> {}]
    /\ revision = 0
    /\ task = [t \in Task |-> Idle]
    /\ writer = AtRest
    /\ persisted_revision = Unwritten
    /\ disk = Blank

PutStep(t) == PutRefused(t) \/ PutInsert(t) \/ PutBind(t) \/ PutIndex(t) \/ PutDone(t)

Next ==
    \/ \E t \in Task, r \in Offered : PutCheck(t, r)
    \/ \E t \in Task : PutStep(t)
    \/ PurgeExpired
    \/ PersistTick
    \/ PersistEncode
    \/ PersistInstall
    \/ PersistFail
    \/ Crash
    \/ Open
    \/ Tick
    \/ StepBack

Spec == Init /\ [][Next]_vars

-----------------------------------------------------------------------------
(***************************************************************************)
(* Properties.                                                             *)
(***************************************************************************)

(* The puts that have inserted a record and not yet bumped the revision.   *)
Unfinished == {t \in Task : task[t].pc \in {"bind", "index", "bump"}}

(* The types of the variables.                                             *)
TypeOK ==
    /\ now \in Nat
    /\ up \in BOOLEAN
    /\ records \in [PubKey -> Maybe]
    /\ bindings \in [PubKey -> PubKey \union {NoKey}]
    /\ identity_index \in [PubKey -> SUBSET PubKey]
    /\ revision \in Nat
    /\ task \in [Task -> [pc  : {"idle", "merge", "bind", "index", "bump"}, rec : Maybe]]
    /\ \A t \in Task : task[t].pc # "idle" => task[t].rec \in Offered
    /\ writer \in [pc       : {"idle", "encode", "install"},
                   revision : Nat \union {Unwritten},
                   bytes    : Snapshot]
    /\ persisted_revision \in Nat \union {Unwritten}
    /\ disk \in Snapshot

(* "The identity that issued a service key is pinned from that key's first *)
(* record ... Only that identity can retire the key, and every later       *)
(* record for it must carry a delegation from it" (store.rs:15-17): what   *)
(* is held for a pinned key names the pinned identity, and a retirement    *)
(* was signed by it.                                                       *)
OwnershipHolds ==
    \A k \in PubKey :
        records[k] # NoRecord /\ bindings[k] # NoKey =>
            /\ records[k].identity = bindings[k]
            /\ is_terminal(records[k]) => records[k].signed_by = bindings[k]

(* identity_index is the "Reverse of `bindings`" (store.rs:58), except     *)
(* that a put that has pinned its key may not have listed it yet.          *)
IndexReversesBindings ==
    \A i, k \in PubKey :
        /\ k \in identity_index[i] => bindings[k] = i
        /\ bindings[k] = i =>
              \/ k \in identity_index[i]
              \/ \E t \in Task : task[t].pc = "index" /\ task[t].rec.key = k

(* The snapshot writer may skip a tick when the revision is the one it     *)
(* wrote (server.rs:413-416): between puts, an equal revision means that   *)
(* the snapshot holds exactly what the store holds.                        *)
SnapshotIsCurrent ==
    up /\ revision = persisted_revision /\ Unfinished = {} => disk = Contents

(* "Retirement is permanent: the tombstone never expires, is never swept,  *)
(* survives a restart" (README.md:319): no step of the running store drops *)
(* or replaces a tombstone, and once the snapshot holds one, no snapshot   *)
(* written later, by this process or by one started from it, is without    *)
(* it.                                                                     *)
RetirementIsForGood ==
    [][\A k \in PubKey :
        /\ up /\ up' /\ retired(records[k]) => records'[k] = records[k]
        /\ retired(disk.records[k]) => disk'.records[k] = disk.records[k]]_vars

(* The identity of a key is "pinned on first sight and kept even after the *)
(* key's records expire" (store.rs:55-56), in the running store and, once  *)
(* written, in every later snapshot.                                       *)
BindingIsForGood ==
    [][\A k \in PubKey :
        /\ up /\ up' /\ bindings[k] # NoKey => bindings'[k] = bindings[k]
        /\ disk.bindings[k] # NoKey => disk'.bindings[k] = disk.bindings[k]]_vars

(* The owner of a key: the identity it is bound to, or will be by the put  *)
(* that has stored a record for it and has not bound it yet.               *)
owner_of(k) ==
    IF bindings[k] # NoKey THEN bindings[k]
    ELSE LET binding == {t \in Task : task[t].pc = "bind" /\ task[t].rec.key = k} IN
         IF binding = {} THEN NoKey ELSE task[CHOOSE t \in binding : TRUE].rec.identity

Promised == INSTANCE Registry
                WITH open <- up, record <- records, owner <- [k \in PubKey |-> owner_of(k)],
                     image <- writer.bytes, saved <- disk

(* "Every path in ... goes through Store::put" (store.rs:3-5), which takes *)
(* four steps under three locks; with the writer, the sweeps and the       *)
(* restarts between them the store still behaves as a Registry, where a    *)
(* record is accepted and its key pinned at once, provided that first puts *)
(* of a key do not overlap and the clock is not set back.                  *)
ImplementsRegistry == Promised!Spec

(* Threads finish the puts they are in, the interval timer fires, and a    *)
(* disk that fails does not fail for ever.                                 *)
Fairness ==
    /\ \A t \in Task : WF_vars(PutStep(t))
    /\ WF_vars(PersistTick)
    /\ SF_vars(PersistEncode)
    /\ SF_vars(PersistInstall)

FairSpec == Spec /\ Fairness

(* A tombstone the store has accepted reaches the snapshot unless the      *)
(* process is lost first (server.rs:390-427).                              *)
RetirementIsPersisted ==
    \A k \in PubKey :
        retired(records[k]) ~> (retired(disk.records[k]) \/ ~up)
=============================================================================
