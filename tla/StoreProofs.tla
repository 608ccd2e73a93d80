---------------------------- MODULE StoreProofs ----------------------------
(***************************************************************************)
(* Proofs about Store for every set of keys, tasks and offered records and *)
(* every value of the bounds: types, bindings that are for good, a skipped *)
(* snapshot that is not needed and, as long as the first puts of a key do  *)
(* not overlap, records, bindings and the index of identities that agree,  *)
(* keys that stay retired in the running store and on disk, and Store as   *)
(* an implementation of Registry: its puts, which take four steps on any   *)
(* number of threads, appear to accept a record and pin its key at once,   *)
(* and its snapshots and restarts keep what a Registry keeps.              *)
(***************************************************************************)
EXTENDS Store, FiniteSetTheorems, TLAPS

(* What the proofs need to know of an offered record.                      *)
LEMMA OfferedFields ==
    ASSUME NEW r \in Offered
    PROVE  /\ r # NoRecord
           /\ r.key \in PubKey
           /\ r.identity \in PubKey
           /\ r.issued_at \in Nat
BY StoreAssumption, SentinelAssumption DEF Record

(* The records of a snapshot that open() counts are finitely many.         *)
LEMMA LoadedIsFinite ==
    ASSUME NEW S \in SUBSET PubKey
    PROVE  Cardinality(S) \in Nat
BY StoreAssumption, FS_Subset, FS_CardinalityType

(***************************************************************************)
(* The owner of a key: the identity it is bound to or, before that, the    *)
(* one whose put has stored the first record and is about to bind.         *)
(***************************************************************************)
Binds(x, k) == x.pc = "bind" /\ x.rec.key = k

(* o is the owner of key k, with the bindings b and the puts f.            *)
OwnedBy(o, b, f, k) ==
    /\ b[k] # NoKey => o = b[k]
    /\ b[k] = NoKey => \A t \in Task : Binds(f[t], k) => o = f[t].rec.identity
    /\ b[k] = NoKey /\ (\A t \in Task : ~Binds(f[t], k)) => o = NoKey

(* The puts that are about to bind k are the same in f and g.              *)
SameBinds(f, g, k) ==
    \A t \in Task : /\ Binds(g[t], k) <=> Binds(f[t], k)
                    /\ Binds(f[t], k) => g[t].rec = f[t].rec

(* Store::put gives a key an owner, and nothing else changes one.          *)
LEMMA OwnerSame ==
    ASSUME NEW o, NEW p, NEW b, NEW c, NEW f, NEW g, NEW k,
           OwnedBy(o, b, f, k), OwnedBy(p, c, g, k), c[k] = b[k], SameBinds(f, g, k)
    PROVE  p = o
<1>1. CASE b[k] # NoKey
  BY <1>1, Zenon DEF OwnedBy
<1>2. ASSUME b[k] = NoKey, NEW t \in Task, Binds(f[t], k)
      PROVE  p = o
  <2>1. o = f[t].rec.identity /\ g[t].rec = f[t].rec /\ Binds(g[t], k)
    BY <1>2, Zenon DEF OwnedBy, SameBinds
  <2>2. p = g[t].rec.identity
    BY <1>2, <2>1, Zenon DEF OwnedBy
  <2> QED BY <2>1, <2>2
<1>3. CASE b[k] = NoKey /\ \A t \in Task : ~Binds(f[t], k)
  BY <1>3, Zenon DEF OwnedBy, SameBinds
<1> QED
  BY <1>1, <1>2, <1>3, Zenon

(* A key nobody is about to bind belongs to the identity it is bound to.   *)
LEMMA OwnerBound ==
    ASSUME NEW o, NEW b, NEW f, NEW k, OwnedBy(o, b, f, k),
           b[k] = NoKey => \A t \in Task : ~Binds(f[t], k)
    PROVE  o = b[k]
  BY Zenon DEF OwnedBy

(* A snapshot of the records r with the bindings b.                        *)
LEMMA ImageFields ==
    ASSUME NEW r, NEW b \in [PubKey -> PubKey \union {NoKey}],
           NEW w, w = [records |-> r, bindings |-> b]
    PROVE  /\ w \in [records : {r}, bindings : [PubKey -> PubKey \union {NoKey}]]
           /\ w.bindings = b
  OBVIOUS

-----------------------------------------------------------------------------
(***************************************************************************)
(* Type correctness.                                                       *)
(***************************************************************************)
LEMMA InitTypeOK == Init => TypeOK
BY DEF Init, TypeOK, Blank, Idle, AtRest, Unwritten, Snapshot, Maybe

(* Every step keeps every variable of the store within its type.           *)
LEMMA NextTypeOK == TypeOK /\ [Next]_vars => TypeOK'
<1> SUFFICES ASSUME TypeOK, [Next]_vars
             PROVE  TypeOK'
  OBVIOUS
<1> USE DEF Maybe
<1>1. ASSUME NEW t \in Task, NEW r \in Offered, PutCheck(t, r)
      PROVE  TypeOK'
  BY <1>1 DEF TypeOK, PutCheck, memory
<1>2. ASSUME NEW t \in Task, PutRefused(t)
      PROVE  TypeOK'
  BY <1>2 DEF TypeOK, PutRefused, memory, Idle
<1>3. ASSUME NEW t \in Task, PutInsert(t)
      PROVE  TypeOK'
  <2>1. task[t].rec \in Offered
    BY <1>3 DEF TypeOK, PutInsert
  <2> QED
    BY <1>3, <2>1, OfferedFields DEF TypeOK, PutInsert
<1>4. ASSUME NEW t \in Task, PutBind(t)
      PROVE  TypeOK'
  <2>1. task[t].rec \in Offered
    BY <1>4 DEF TypeOK, PutBind
  <2> QED
    BY <1>4, <2>1, OfferedFields DEF TypeOK, PutBind
<1>5. ASSUME NEW t \in Task, PutIndex(t)
      PROVE  TypeOK'
  <2>1. task[t].rec \in Offered
    BY <1>5 DEF TypeOK, PutIndex
  <2> QED
    BY <1>5, <2>1, OfferedFields DEF TypeOK, PutIndex
<1>6. ASSUME NEW t \in Task, PutDone(t)
      PROVE  TypeOK'
  BY <1>6 DEF TypeOK, PutDone, Idle
<1>7. CASE PurgeExpired
  BY <1>7 DEF TypeOK, PurgeExpired
<1>8. CASE PersistTick
  BY <1>8, Zenon DEF TypeOK, PersistTick, memory, AtRest, Blank, Snapshot
<1>9. CASE PersistEncode
  BY <1>9, Zenon DEF TypeOK, PersistEncode, memory, Contents, Snapshot
<1>10. CASE PersistInstall
  BY <1>10 DEF TypeOK, PersistInstall, memory, AtRest, Blank, Unwritten, Snapshot
<1>11. CASE PersistFail
  BY <1>11 DEF TypeOK, PersistFail, memory, AtRest, Blank, Unwritten, Snapshot
<1>12. CASE Crash
  BY <1>12, Zenon DEF TypeOK, Crash, Blank, Idle, AtRest, Unwritten, Snapshot
<1>13. CASE Open
  <2> DEFINE loaded == {k \in PubKey : loadable(disk, k, now)}
  <2>1. disk.records \in [PubKey -> Maybe] /\ disk.bindings \in [PubKey -> PubKey \union {NoKey}]
    BY DEF TypeOK, Snapshot
  <2>2. \A k \in loaded : disk.records[k] \in Offered
    BY <2>1 DEF loadable
  <2>3. \A k \in loaded : disk.records[k].identity \in PubKey
    BY <2>2, OfferedFields
  <2>4. Cardinality(loaded) \in Nat
    BY LoadedIsFinite
  <2>5. revision' \in Nat
    BY <1>13, <2>4 DEF Open
  <2>6. records' \in [PubKey -> Maybe]
    BY <1>13, <2>1 DEF Open
  <2>7. bindings' \in [PubKey -> PubKey \union {NoKey}]
    BY <1>13, <2>1, <2>3 DEF Open
  <2>8. identity_index' \in [PubKey -> SUBSET PubKey]
    BY <1>13 DEF Open
  <2> QED
    BY <1>13, <2>5, <2>6, <2>7, <2>8 DEF TypeOK, Open
<1>14. CASE Tick
  BY <1>14 DEF TypeOK, Tick, memory
<1>15. CASE StepBack
  BY <1>15 DEF TypeOK, StepBack, memory
<1>16. CASE UNCHANGED vars
  BY <1>16 DEF TypeOK, vars, memory
<1> QED
  BY <1>1, <1>2, <1>3, <1>4, <1>5, <1>6, <1>7, <1>8, <1>9, <1>10, <1>11,
     <1>12, <1>13, <1>14, <1>15, <1>16 DEF Next, PutStep

(* The types of store.rs hold in every reachable state.                    *)
THEOREM TypeCorrect == Spec => []TypeOK
BY InitTypeOK, NextTypeOK, PTL DEF Spec

-----------------------------------------------------------------------------
(***************************************************************************)
(* Skipping an idle interval is sound.                                     *)
(*                                                                         *)
(* SnapshotIsCurrent is not inductive: the install step makes it true only *)
(* because the bytes were taken after the revision they are filed under    *)
(* was read, so the same must be known of the writer's bytes, and no       *)
(* revision that was read may run ahead of the store's.                    *)
(***************************************************************************)
SkipInv ==
    /\ ~up => /\ task = [t \in Task |-> Idle]
              /\ writer.pc = "idle"
              /\ persisted_revision = Unwritten
    /\ persisted_revision <= revision
    /\ writer.pc # "idle" => writer.revision \in Nat /\ writer.revision <= revision
    /\ writer.pc = "install" /\ writer.revision = revision /\ Unfinished = {} =>
           writer.bytes = Contents
    /\ SnapshotIsCurrent

(* Every step of the store and its writer keeps the invariant.             *)
LEMMA NextSkipInv == TypeOK /\ SkipInv /\ [Next]_vars => SkipInv'
<1> SUFFICES ASSUME TypeOK, SkipInv, [Next]_vars
             PROVE  SkipInv'
  OBVIOUS
<1> USE DEF SkipInv, SnapshotIsCurrent, Contents, Unfinished
<1>1. ASSUME NEW t \in Task, NEW r \in Offered, PutCheck(t, r)
      PROVE  SkipInv'
  <2>1. Unfinished' = Unfinished
    BY <1>1 DEF TypeOK, PutCheck
  <2> QED
    BY <1>1, <2>1 DEF TypeOK, PutCheck, memory
<1>2. ASSUME NEW t \in Task, PutRefused(t)
      PROVE  SkipInv'
  <2>1. Unfinished' = Unfinished
    BY <1>2 DEF TypeOK, PutRefused, Idle
  <2>2. up
    BY <1>2 DEF PutRefused, Idle
  <2> QED
    BY <1>2, <2>1, <2>2 DEF TypeOK, PutRefused, memory
<1>3. ASSUME NEW t \in Task, PutInsert(t) \/ PutBind(t) \/ PutIndex(t)
      PROVE  SkipInv'
  <2>1. up
    <3>1. task[t].pc # "idle"
      BY <1>3 DEF PutInsert, PutBind, PutIndex
    <3> QED
      BY <3>1 DEF Idle
  <2>2. t \in Unfinished'
    <3>1. \E pc \in {"bind", "index", "bump"} : task' = [task EXCEPT ![t].pc = pc]
      BY <1>3 DEF PutInsert, PutBind, PutIndex
    <3> QED
      BY <3>1 DEF TypeOK
  <2> QED
    BY <1>3, <2>1, <2>2, Zenon DEF TypeOK, PutInsert, PutBind, PutIndex
<1>4. ASSUME NEW t \in Task, PutDone(t)
      PROVE  SkipInv'
  <2>1. up
    BY <1>4 DEF PutDone, Idle
  <2> QED
    BY <1>4, <2>1 DEF TypeOK, PutDone, Unwritten
<1>5. CASE PurgeExpired
  BY <1>5 DEF TypeOK, PurgeExpired, Unwritten
<1>6. CASE PersistTick
  BY <1>6 DEF TypeOK, PersistTick, memory, AtRest
<1>7. CASE PersistEncode
  <2>1. up
    BY <1>7 DEF PersistEncode
  <2> QED
    BY <1>7, <2>1 DEF TypeOK, PersistEncode, memory
<1>8. CASE PersistInstall
  <2>1. up
    BY <1>8 DEF PersistInstall
  <2>2. writer' = AtRest /\ persisted_revision' = writer.revision /\ disk' = writer.bytes
    BY <1>8 DEF PersistInstall
  <2> QED
    BY <1>8, <2>1, <2>2 DEF TypeOK, PersistInstall, memory, AtRest
<1>9. CASE PersistFail
  BY <1>9 DEF TypeOK, PersistFail, memory, AtRest
<1>10. CASE Crash
  BY <1>10 DEF TypeOK, Crash, AtRest, Unwritten
<1>11. CASE Open
  <2>1. revision' \in Nat
    BY NextTypeOK DEF TypeOK
  <2>2. persisted_revision' = Unwritten /\ writer'.pc = "idle" /\ up'
    BY <1>11 DEF Open
  <2> QED
    BY <2>1, <2>2 DEF Unwritten
<1>12. CASE Tick \/ StepBack
  BY <1>12 DEF TypeOK, Tick, StepBack, memory
<1>13. CASE UNCHANGED vars
  BY <1>13 DEF TypeOK, vars, memory
<1> QED
  BY <1>1, <1>2, <1>3, <1>4, <1>5, <1>6, <1>7, <1>8, <1>9, <1>10, <1>11,
     <1>12, <1>13 DEF Next, PutStep

(* Whatever interleaving of puts, sweeps, persists and restarts led here,  *)
(* a persist tick skipped for an equal revision loses nothing.             *)
THEOREM SkipIsSound == Spec => []SnapshotIsCurrent
<1>1. Init => SkipInv
  BY DEF Init, SkipInv, SnapshotIsCurrent, AtRest, Unwritten
<1>2. SkipInv => SnapshotIsCurrent
  BY DEF SkipInv
<1> QED
  BY <1>1, <1>2, NextSkipInv, TypeCorrect, PTL DEF Spec

-----------------------------------------------------------------------------
(***************************************************************************)
(* A binding is never changed or forgotten.                                *)
(*                                                                         *)
(* A binding on disk stays because every later snapshot is encoded from a  *)
(* store that still has it, which restarts do not disturb: open() puts all *)
(* bindings in force before it loads a record.                             *)
(***************************************************************************)

(* b knows every binding that a knows.                                     *)
Extends(b, a) == \A k \in PubKey : a[k] # NoKey => b[k] = a[k]

BindInv ==
    /\ up => Extends(bindings, disk.bindings)
    /\ writer.pc # "idle" => up
    /\ writer.pc = "install" => /\ Extends(bindings, writer.bytes.bindings)
                                /\ Extends(writer.bytes.bindings, disk.bindings)
    /\ \A t \in Task : task[t].pc # "idle" => up

BindingStep ==
    \A k \in PubKey :
        /\ up /\ up' /\ bindings[k] # NoKey => bindings'[k] = bindings[k]
        /\ disk.bindings[k] # NoKey => disk'.bindings[k] = disk.bindings[k]

(* An empty store has bound nothing.                                       *)
LEMMA InitBindInv == Init => BindInv
BY DEF Init, BindInv, Extends, Blank, AtRest, Idle

(* Every step, a restart included, keeps the invariant.                    *)
LEMMA NextBindInv == TypeOK /\ BindInv /\ [Next]_vars => BindInv' /\ BindingStep
<1> SUFFICES ASSUME TypeOK, BindInv, [Next]_vars
             PROVE  BindInv' /\ BindingStep
  OBVIOUS
<1> USE DEF BindInv, BindingStep, Extends
<1>1. ASSUME NEW t \in Task, NEW r \in Offered, PutCheck(t, r)
      PROVE  BindInv' /\ BindingStep
  <2>1. up /\ UNCHANGED <<up, bindings, writer, disk>>
    BY <1>1 DEF PutCheck, memory
  <2> QED
    BY <2>1
<1>2. ASSUME NEW t \in Task, PutRefused(t) \/ PutInsert(t) \/ PutIndex(t) \/ PutDone(t)
      PROVE  BindInv' /\ BindingStep
  <2>1. UNCHANGED <<up, bindings, writer, disk>> /\ task[t].pc # "idle"
    BY <1>2 DEF PutRefused, PutInsert, PutIndex, PutDone, memory
  <2>2. up
    BY <2>1
  <2> QED
    BY <2>1, <2>2
<1>3. ASSUME NEW t \in Task, PutBind(t)
      PROVE  BindInv' /\ BindingStep
  <2>1. \A k \in PubKey : bindings[k] # NoKey => bindings'[k] = bindings[k]
    BY <1>3 DEF TypeOK, PutBind
  <2> QED
    <3>1. UNCHANGED <<up, writer, disk>> /\ up
      BY <1>3 DEF PutBind
    <3>2. writer.pc = "install" => writer.bytes.bindings \in [PubKey -> PubKey \union {NoKey}]
      BY DEF TypeOK, Snapshot
    <3> QED
      BY <2>1, <3>1, <3>2
<1>4. CASE PurgeExpired
  BY <1>4 DEF TypeOK, PurgeExpired
<1>5. CASE PersistTick
  BY <1>5 DEF TypeOK, PersistTick, memory, AtRest
<1>6. CASE PersistEncode
  BY <1>6 DEF TypeOK, PersistEncode, memory, Contents
<1>7. CASE PersistInstall
  BY <1>7 DEF TypeOK, PersistInstall, memory, AtRest
<1>8. CASE PersistFail
  BY <1>8 DEF TypeOK, PersistFail, memory, AtRest
<1>9. CASE Crash
  BY <1>9 DEF TypeOK, Crash, AtRest, Idle
<1>10. CASE Open
  <2>1. ASSUME NEW k \in PubKey, disk.bindings[k] # NoKey
        PROVE  bindings'[k] = disk.bindings[k]
    <3>1. loadable(disk, k, now) => disk.records[k].identity = disk.bindings[k]
      BY <2>1 DEF loadable, mergeable
    <3>2. bindings'[k] = IF loadable(disk, k, now) THEN disk.records[k].identity
                         ELSE disk.bindings[k]
      BY <1>10 DEF Open
    <3> QED
      BY <3>1, <3>2
  <2>2. ~up /\ up' /\ UNCHANGED <<task, writer, disk>>
    BY <1>10 DEF Open
  <2> QED
    BY <2>1, <2>2
<1>11. CASE Tick \/ StepBack
  BY SMTT(20), <1>11 DEF TypeOK, Tick, StepBack, memory
<1>12. CASE UNCHANGED vars
  BY <1>12 DEF TypeOK, vars, memory
<1> QED
  BY <1>1, <1>2, <1>3, <1>4, <1>5, <1>6, <1>7, <1>8, <1>9, <1>10, <1>11,
     <1>12, Zenon DEF Next, PutStep

(* The identity pinned to a key stays pinned, across sweeps, snapshots and *)
(* restarts, whatever is offered and however the clock moves.              *)
THEOREM BindingPermanent == Spec => BindingIsForGood
BY InitBindInv, NextBindInv, TypeCorrect, PTL DEF Spec, BindingIsForGood, BindingStep
-----------------------------------------------------------------------------

(***************************************************************************)
(* Records and bindings agree.                                             *)
(*                                                                         *)
(* Between its insert and its bind a put leaves a record that no binding   *)
(* protects.  If another put, under another identity, can run in that gap  *)
(* the two disagree for good.  There is no such put when puts of a key     *)
(* that is not bound yet do not overlap (~Racing), which includes a server *)
(* with one thread, or when one identity only ever delegates each key.     *)
(***************************************************************************)
OneIssuer == \A r, s \in Offered : r.key = s.key => r.identity = s.identity

(* A record is filed under its own key, and a binding of that key names    *)
(* the record's identity.                                                  *)
Consistent(snap) ==
    \A k \in PubKey : snap.records[k] # NoRecord =>
        /\ snap.records[k].key = k
        /\ snap.bindings[k] \in {NoKey, snap.records[k].identity}

(* Every binding comes from some record that was offered.                  *)
Sourced(b) ==
    \A k \in PubKey : b[k] # NoKey => \E r \in Offered : r.key = k /\ r.identity = b[k]

(* The store, the writer's bytes and the snapshot are each consistent.     *)
AllConsistent == Consistent(Contents) /\ Consistent(writer.bytes) /\ Consistent(disk)

AllSourced == Sourced(bindings) /\ Sourced(writer.bytes.bindings) /\ Sourced(disk.bindings)

DownIsIdle == ~up => \A t \in Task : task[t].pc = "idle"

HeldVerifies == \A k \in PubKey : records[k] # NoRecord => verify(records[k])

(* What a put knows of the record it carries, by how far it has got.       *)
PutAgrees(t) ==
    LET r == task[t].rec IN
    /\ task[t].pc # "idle" => verify(r)
    /\ task[t].pc = "bind" => /\ ~Racing /\ bindings[r.key] = NoKey =>
                                     records[r.key] \in {NoRecord, r}
                              /\ bindings[r.key] \in {NoKey, r.identity}
    /\ task[t].pc = "index" => bindings[r.key] = r.identity

(* Puts of one key meet only once the key is bound.                        *)
PutsApart ==
    ~Racing => \A t, u \in Task :
        t # u /\ task[t].pc # "idle" /\ task[u].pc # "idle" /\ task[t].rec.key = task[u].rec.key
            => bindings[task[t].rec.key] # NoKey

AgreeInv ==
    /\ AllConsistent
    /\ AllSourced
    /\ DownIsIdle
    /\ HeldVerifies
    /\ \A t \in Task : PutAgrees(t)
    /\ PutsApart
    /\ IndexReversesBindings

(* A step that changes none of these variables keeps the agreement.        *)
LEMMA AgreeFrame ==
    ASSUME AgreeInv, UNCHANGED <<records, bindings, identity_index, task, writer, disk, up>>
    PROVE  AgreeInv'
<1>1. AllConsistent'
  BY DEF AgreeInv, AllConsistent, Consistent, Contents
<1>2. AllSourced'
  BY DEF AgreeInv, AllSourced, Sourced
<1>3. DownIsIdle' /\ HeldVerifies'
  BY DEF AgreeInv, DownIsIdle, HeldVerifies
<1>4. \A t \in Task : PutAgrees(t)'
  BY DEF AgreeInv, PutAgrees
<1>5. IndexReversesBindings'
  BY DEF AgreeInv, IndexReversesBindings
<1>6. PutsApart'
  BY DEF AgreeInv, PutsApart
<1> QED
  BY <1>1, <1>2, <1>3, <1>4, <1>5, <1>6 DEF AgreeInv

(* A put that starts, or goes idle before its bind or after its index      *)
(* step, disturbs only what is known of itself.                            *)
LEMMA AgreeTask ==
    ASSUME AgreeInv, up,
           NEW t \in Task, task[t].pc # "index", task'[t].pc \in {"idle", "merge"},
           task'[t].pc = "merge" => verify(task'[t].rec) /\ (Racing \/ Alone(t, task'[t].rec.key)),
           \A u \in Task : u # t => task'[u] = task[u],
           UNCHANGED <<records, bindings, identity_index, writer, disk, up>>
    PROVE  AgreeInv'
<1>1. AllConsistent'
  BY DEF AgreeInv, AllConsistent, Consistent, Contents
<1>2. AllSourced'
  BY DEF AgreeInv, AllSourced, Sourced
<1>3. DownIsIdle' /\ HeldVerifies'
  BY DEF AgreeInv, DownIsIdle, HeldVerifies
<1>4. \A u \in Task : PutAgrees(u)'
  BY DEF AgreeInv, PutAgrees
<1>5. IndexReversesBindings'
  BY DEF AgreeInv, IndexReversesBindings
<1>6. PutsApart'
  BY SMTT(20) DEF AgreeInv, PutsApart, Alone
<1> QED
  BY <1>1, <1>2, <1>3, <1>4, <1>5, <1>6 DEF AgreeInv

(* Storing the record of a put that passed the merge checks.               *)
LEMMA AgreeInsert ==
    ASSUME TypeOK, AgreeInv, NEW t \in Task, PutInsert(t)
    PROVE  AgreeInv'
<1> DEFINE r == task[t].rec
<1>1. /\ r \in Offered /\ r.key \in PubKey /\ r # NoRecord
      /\ bindings[r.key] \in {NoKey, r.identity}
  BY OfferedFields DEF TypeOK, PutInsert, mergeable
<1>2. verify(r) /\ up
  BY DEF AgreeInv, PutAgrees, DownIsIdle, PutInsert
<1>3. /\ records' = [records EXCEPT ![r.key] = r]
      /\ task' = [task EXCEPT ![t].pc = "bind"]
      /\ task[t].pc = "merge"
      /\ UNCHANGED <<bindings, identity_index, writer, disk, up>>
  BY DEF PutInsert
<1>4. /\ records'[r.key] = r
      /\ \A k \in PubKey : k # r.key => records'[k] = records[k]
  BY <1>1, <1>3 DEF TypeOK
<1>5. /\ task'[t].pc = "bind" /\ task'[t].rec = r
      /\ \A u \in Task : u # t => task'[u] = task[u]
  BY <1>3 DEF TypeOK
<1> HIDE DEF r
<1>6. AllConsistent'
  <2>1. Consistent(Contents)
    BY DEF AgreeInv, AllConsistent
  <2>2. Consistent(Contents)'
    BY <1>1, <1>3, <1>4, <2>1 DEF Consistent, Contents
  <2>3. Consistent(writer.bytes)' /\ Consistent(disk)'
    BY <1>3 DEF AgreeInv, AllConsistent
  <2> QED
    BY <2>2, <2>3 DEF AllConsistent
<1>7. AllSourced'
  BY <1>3 DEF AgreeInv, AllSourced, Sourced
<1>8. DownIsIdle'
  BY <1>2, <1>3 DEF DownIsIdle
<1>9. HeldVerifies'
  BY <1>2, <1>4 DEF AgreeInv, HeldVerifies
<1>10. PutAgrees(t)'
  BY <1>1, <1>2, <1>3, <1>4, <1>5 DEF PutAgrees
<1>11. ASSUME NEW u \in Task, u # t
       PROVE  PutAgrees(u)'
  <2>1. task'[u] = task[u] /\ PutAgrees(u) /\ bindings' = bindings
    BY <1>3, <1>5, <1>11 DEF AgreeInv
  <2>2. ~Racing /\ task[u].pc # "idle" /\ task[u].rec.key = r.key => bindings[r.key] # NoKey
    BY <1>3, <1>11 DEF AgreeInv, PutsApart, r
  <2>3. task[u].pc # "idle" => task[u].rec.key \in PubKey
    BY OfferedFields DEF TypeOK
  <2> QED
    BY <2>1, <2>2, <2>3, <1>4 DEF PutAgrees
<1>12. IndexReversesBindings'
  BY <1>3, <1>5 DEF AgreeInv, IndexReversesBindings
<1>13. PutsApart'
  BY <1>3, <1>5 DEF AgreeInv, PutsApart, r
<1> QED
  BY <1>6, <1>7, <1>8, <1>9, <1>10, <1>11, <1>12, <1>13 DEF AgreeInv

(* Pinning a key: where two puts can meet, the assumption is needed.       *)
LEMMA AgreeBind ==
    ASSUME ~Racing \/ OneIssuer, TypeOK, AgreeInv, NEW t \in Task, PutBind(t)
    PROVE  AgreeInv'
<1> DEFINE r == task[t].rec
<1>1. r \in Offered /\ r.key \in PubKey /\ r.identity \in PubKey /\ r.identity # NoKey
  BY OfferedFields, SentinelAssumption DEF TypeOK, PutBind
<1>2. /\ verify(r) /\ up
      /\ ~Racing /\ bindings[r.key] = NoKey => records[r.key] \in {NoRecord, r}
      /\ bindings[r.key] \in {NoKey, r.identity}
  BY DEF AgreeInv, PutAgrees, DownIsIdle, PutBind
<1>3. /\ task' = [task EXCEPT ![t].pc = "index"]
      /\ task[t].pc = "bind"
      /\ UNCHANGED <<records, identity_index, writer, disk, up>>
  BY DEF PutBind
<1>4. /\ bindings'[r.key] = r.identity
      /\ \A k \in PubKey : k # r.key => bindings'[k] = bindings[k]
  BY <1>1, <1>2 DEF TypeOK, PutBind
<1>5. /\ task'[t].pc = "index" /\ task'[t].rec = r
      /\ \A u \in Task : u # t => task'[u] = task[u]
  BY <1>3 DEF TypeOK
<1>6. \A u \in Task : task[u].pc # "idle" => /\ task[u].rec \in Offered
                                             /\ task[u].rec.key \in PubKey
                                             /\ task[u].rec.identity # NoKey
  BY OfferedFields, SentinelAssumption DEF TypeOK
<1>7. records[r.key] # NoRecord => /\ records[r.key] \in Offered /\ records[r.key].key = r.key
                                   /\ bindings[r.key] \in {NoKey, records[r.key].identity}
  <2>1. records[r.key] \in Offered \union {NoRecord}
    BY <1>1 DEF TypeOK, Maybe
  <2>2. Consistent(Contents)
    BY DEF AgreeInv, AllConsistent
  <2> QED
    BY <1>1, <2>1, <2>2 DEF Consistent, Contents
<1> HIDE DEF r
<1>8. records[r.key] # NoRecord => records[r.key].identity = r.identity
  <2>1. CASE ~Racing
    BY <2>1, <1>1, <1>2, <1>7
  <2>2. CASE OneIssuer
    BY <2>2, <1>1, <1>7 DEF OneIssuer
  <2> QED
    BY <2>1, <2>2
<1>9. AllConsistent'
  <2>1. Consistent(Contents)
    BY DEF AgreeInv, AllConsistent
  <2>2. Consistent(Contents)'
    BY <1>3, <1>4, <1>8, <2>1 DEF Consistent, Contents
  <2>3. Consistent(writer.bytes)' /\ Consistent(disk)'
    BY <1>3 DEF AgreeInv, AllConsistent
  <2> QED
    BY <2>2, <2>3 DEF AllConsistent
<1>10. AllSourced'
  BY <1>1, <1>3, <1>4 DEF AgreeInv, AllSourced, Sourced
<1>11. DownIsIdle' /\ HeldVerifies'
  BY <1>2, <1>3 DEF AgreeInv, DownIsIdle, HeldVerifies
<1>12. PutAgrees(t)'
  BY <1>2, <1>3, <1>4, <1>5 DEF PutAgrees
<1>13. ASSUME NEW u \in Task, u # t
       PROVE  PutAgrees(u)'
  <2>1. task'[u] = task[u] /\ PutAgrees(u)
    BY <1>5, <1>13 DEF AgreeInv
  <2>2. CASE ~Racing
    <3>1. task[u].pc # "idle" /\ task[u].rec.key = r.key => bindings[r.key] # NoKey
      BY <2>2, <1>3, <1>13 DEF AgreeInv, PutsApart, r
    <3>2. task[u].pc # "idle" => bindings'[task[u].rec.key] = bindings[task[u].rec.key]
      BY <3>1, <1>2, <1>4, <1>6
    <3> QED
      BY <2>1, <3>2, <1>3 DEF PutAgrees
  <2>3. CASE OneIssuer
    <3>1. task[u].pc # "idle" /\ task[u].rec.key = r.key => task[u].rec.identity = r.identity
      BY <2>3, <1>1, <1>6 DEF OneIssuer
    <3> QED
      BY <2>1, <3>1, <1>1, <1>3, <1>4, <1>6 DEF PutAgrees
  <2> QED
    BY <2>2, <2>3
<1>14. ASSUME NEW i \in PubKey, NEW k \in PubKey
       PROVE  /\ k \in identity_index'[i] => bindings'[k] = i
              /\ bindings'[k] = i =>
                    \/ k \in identity_index'[i]
                    \/ \E u \in Task : task'[u].pc = "index" /\ task'[u].rec.key = k
  <2>1. /\ k \in identity_index[i] => bindings[k] = i
        /\ bindings[k] = i =>
              \/ k \in identity_index[i]
              \/ \E u \in Task : task[u].pc = "index" /\ task[u].rec.key = k
    BY DEF AgreeInv, IndexReversesBindings
  <2>2. CASE k = r.key
    BY <2>1, <2>2, <1>2, <1>3, <1>4, <1>5, SentinelAssumption
  <2>3. CASE k # r.key
    <3>1. \A u \in Task : task[u].pc = "index" => task'[u] = task[u]
      BY <1>3, <1>5
    <3>2. (\E u \in Task : task[u].pc = "index" /\ task[u].rec.key = k) =>
             \E u \in Task : task'[u].pc = "index" /\ task'[u].rec.key = k
      BY <3>1
    <3> QED
      BY <2>1, <2>3, <3>2, <1>3, <1>4
  <2> QED
    BY <2>2, <2>3
<1>15. IndexReversesBindings'
  BY <1>14 DEF IndexReversesBindings
<1>16. PutsApart'
  <2>1. \A u \in Task : task'[u].pc # "idle" => task[u].pc # "idle" /\ task'[u].rec = task[u].rec
    BY <1>3, <1>5 DEF r
  <2>2. \A k \in PubKey : bindings[k] # NoKey => bindings'[k] # NoKey
    BY <1>1, <1>4
  <2> QED
    BY <2>1, <2>2, <1>6 DEF AgreeInv, PutsApart
<1> QED
  BY <1>9, <1>10, <1>11, <1>12, <1>13, <1>15, <1>16 DEF AgreeInv

(* Listing a pinned key under its identity.                                *)
LEMMA AgreeIndex ==
    ASSUME TypeOK, AgreeInv, NEW t \in Task, PutIndex(t)
    PROVE  AgreeInv'
<1> DEFINE r == task[t].rec
<1>1. r.key \in PubKey /\ r.identity \in PubKey
  BY OfferedFields DEF TypeOK, PutIndex
<1>2. verify(r) /\ bindings[r.key] = r.identity /\ up
  BY DEF AgreeInv, PutAgrees, DownIsIdle, PutIndex
<1>3. /\ task' = [task EXCEPT ![t].pc = "bump"]
      /\ UNCHANGED <<records, bindings, writer, disk, up>>
  BY DEF PutIndex
<1>4. /\ task'[t].pc = "bump" /\ task'[t].rec = r
      /\ \A u \in Task : u # t => task'[u] = task[u]
  BY <1>3 DEF TypeOK
<1>5. \A i, k \in PubKey : k \in identity_index'[i] <=>
          k \in identity_index[i] \/ (i = r.identity /\ k = r.key)
  BY <1>1 DEF TypeOK, PutIndex
<1> HIDE DEF r
<1>6. AllConsistent'
  BY <1>3 DEF AgreeInv, AllConsistent, Consistent, Contents
<1>7. AllSourced'
  BY <1>3 DEF AgreeInv, AllSourced, Sourced
<1>8. DownIsIdle' /\ HeldVerifies'
  BY <1>2, <1>3 DEF AgreeInv, DownIsIdle, HeldVerifies
<1>9. ASSUME NEW u \in Task
      PROVE  PutAgrees(u)'
  <2>1. CASE u = t
    BY <1>2, <1>3, <1>4, <2>1 DEF PutAgrees
  <2>2. CASE u # t
    BY <1>3, <1>4, <2>2 DEF AgreeInv, PutAgrees
  <2> QED
    BY <2>1, <2>2
<1>10. ASSUME NEW i \in PubKey, NEW k \in PubKey
       PROVE  /\ k \in identity_index'[i] => bindings'[k] = i
              /\ bindings'[k] = i =>
                    \/ k \in identity_index'[i]
                    \/ \E u \in Task : task'[u].pc = "index" /\ task'[u].rec.key = k
  <2>1. /\ k \in identity_index[i] => bindings[k] = i
        /\ bindings[k] = i =>
              \/ k \in identity_index[i]
              \/ \E u \in Task : task[u].pc = "index" /\ task[u].rec.key = k
    BY DEF AgreeInv, IndexReversesBindings
  <2>2. CASE k = r.key
    BY <2>1, <2>2, <1>2, <1>3, <1>5
  <2>3. CASE k # r.key
    <3>1. \A u \in Task : task[u].rec.key = k => task'[u] = task[u]
      BY <2>3, <1>4 DEF r
    <3>2. (\E u \in Task : task[u].pc = "index" /\ task[u].rec.key = k) =>
             \E u \in Task : task'[u].pc = "index" /\ task'[u].rec.key = k
      BY <3>1
    <3> QED
      BY <2>1, <2>3, <3>2, <1>3, <1>5
  <2> QED
    BY <2>2, <2>3
<1>11. IndexReversesBindings'
  BY <1>10 DEF IndexReversesBindings
<1>12. task[t].pc # "idle"
  BY DEF PutIndex
<1>13. PutsApart'
  BY <1>3, <1>4, <1>12 DEF AgreeInv, PutsApart, r
<1> QED
  BY <1>6, <1>7, <1>8, <1>9, <1>11, <1>13 DEF AgreeInv

(* Blank holds nothing for any key.                                        *)
LEMMA BlankFields ==
    \A k \in PubKey : Blank.records[k] = NoRecord /\ Blank.bindings[k] = NoKey
BY DEF Blank

(* A step of the snapshot writer moves contents between store, bytes and   *)
(* disk, or forgets the bytes.                                             *)
LEMMA AgreePersist ==
    ASSUME TypeOK, AgreeInv, PersistTick \/ PersistEncode \/ PersistInstall \/ PersistFail
    PROVE  AgreeInv'
<1>1. UNCHANGED <<records, bindings, identity_index, task, up>>
  BY DEF PersistTick, PersistEncode, PersistInstall, PersistFail, memory
<1>2. writer'.bytes \in {writer.bytes, Contents, Blank} /\ disk' \in {disk, writer.bytes}
  <2>1. CASE PersistTick
    BY <2>1 DEF PersistTick, AtRest
  <2>2. CASE PersistEncode
    BY <2>2 DEF PersistEncode, TypeOK
  <2>3. CASE PersistInstall \/ PersistFail
    BY <2>3 DEF PersistInstall, PersistFail, AtRest
  <2> QED
    BY <2>1, <2>2, <2>3
<1>3. AllConsistent'
  <2>1. Consistent(Contents)'
    BY <1>1 DEF AgreeInv, AllConsistent, Contents
  <2>2. \A snap \in {writer.bytes, Contents, Blank, disk} : Consistent(snap)
    <3>1. Consistent(Blank)
      BY BlankFields DEF Consistent
    <3> QED
      BY <3>1 DEF AgreeInv, AllConsistent
  <2>3. Consistent(writer'.bytes) /\ Consistent(disk')
    BY <1>2, <2>2
  <2> QED
    BY <2>1, <2>3 DEF AllConsistent, Consistent
<1>4. AllSourced'
  BY <1>1, <1>2, BlankFields DEF AgreeInv, AllSourced, Sourced, Contents
<1>5. DownIsIdle' /\ HeldVerifies'
  BY <1>1 DEF AgreeInv, DownIsIdle, HeldVerifies
<1>6. \A t \in Task : PutAgrees(t)'
  BY <1>1 DEF AgreeInv, PutAgrees
<1>7. IndexReversesBindings'
  BY <1>1 DEF AgreeInv, IndexReversesBindings
<1>8. PutsApart'
  BY <1>1 DEF AgreeInv, PutsApart
<1> QED
  BY <1>3, <1>4, <1>5, <1>6, <1>7, <1>8 DEF AgreeInv

(* A store that holds nothing, with a snapshot that is consistent.         *)
Emptied ==
    /\ \A k \in PubKey : /\ records[k] = NoRecord /\ bindings[k] = NoKey
                         /\ writer.bytes.records[k] = NoRecord
                         /\ writer.bytes.bindings[k] = NoKey
    /\ \A i, k \in PubKey : k \notin identity_index[i]
    /\ \A t \in Task : task[t].pc = "idle"
    /\ Consistent(disk)
    /\ Sourced(disk.bindings)

(* Nothing held is in agreement: the state at the start and after a crash. *)
LEMMA AgreeEmptied == Emptied => AgreeInv
<1> SUFFICES ASSUME Emptied
             PROVE  AgreeInv
  OBVIOUS
<1>1. AllConsistent
  BY DEF Emptied, AllConsistent, Consistent, Contents
<1>2. AllSourced
  BY DEF Emptied, AllSourced, Sourced
<1>3. DownIsIdle /\ HeldVerifies
  BY DEF Emptied, DownIsIdle, HeldVerifies
<1>4. \A t \in Task : PutAgrees(t)
  BY DEF Emptied, PutAgrees
<1>5. IndexReversesBindings
  <2>1. \A i, k \in PubKey : k \notin identity_index[i] /\ bindings[k] # i
    BY SentinelAssumption, Zenon DEF Emptied
  <2> QED
    BY <2>1 DEF IndexReversesBindings
<1>6. PutsApart
  BY DEF Emptied, PutsApart
<1> QED
  BY <1>1, <1>2, <1>3, <1>4, <1>5, <1>6 DEF AgreeInv

(* A restart loads records that the loaded bindings agree with.            *)
LEMMA AgreeOpen ==
    ASSUME TypeOK, AgreeInv, Open
    PROVE  AgreeInv'
<1>1. UNCHANGED <<task, writer, disk>> /\ up'
  BY DEF Open
<1>2. \A t \in Task : task[t].pc = "idle"
  BY DEF AgreeInv, DownIsIdle, Open
<1>3. ASSUME NEW k \in PubKey, records'[k] # NoRecord
      PROVE  /\ records'[k] = disk.records[k] /\ disk.records[k] \in Offered
             /\ loadable(disk, k, now)
             /\ bindings'[k] = disk.records[k].identity
  <2>1. loadable(disk, k, now) /\ records'[k] = disk.records[k]
    BY <1>3 DEF Open
  <2>2. bindings'[k] = disk.records[k].identity
    BY <2>1 DEF Open
  <2>3. disk.records[k] \in Offered
    BY <2>1 DEF loadable, TypeOK, Snapshot, Maybe
  <2> QED
    BY <2>1, <2>2, <2>3
<1>4. ASSUME NEW k \in PubKey, records'[k] = NoRecord
      PROVE  bindings'[k] = disk.bindings[k]
  <2>1. ~loadable(disk, k, now)
    BY <1>4 DEF Open, loadable
  <2> QED
    BY <2>1 DEF Open
<1>5. \A k \in PubKey : records'[k] # NoRecord => records'[k].key = k
  BY <1>3, Zenon DEF AgreeInv, AllConsistent, Consistent
<1>6. AllConsistent'
  <2>1. Consistent(Contents)'
    BY <1>3, <1>5 DEF Consistent, Contents
  <2>2. Consistent(writer.bytes)' /\ Consistent(disk)'
    BY <1>1 DEF AgreeInv, AllConsistent, Consistent
  <2> QED
    BY <2>1, <2>2 DEF AllConsistent
<1>7. Sourced(bindings')
  BY <1>3, <1>4, <1>5, SMTT(20) DEF AgreeInv, AllSourced, Sourced
<1>8. AllSourced'
  BY <1>1, <1>7 DEF AgreeInv, AllSourced, Sourced
<1>9. DownIsIdle'
  BY <1>1 DEF DownIsIdle
<1>10. HeldVerifies'
  BY <1>3 DEF HeldVerifies, loadable, admissible
<1>11. \A t \in Task : PutAgrees(t)'
  BY <1>1, <1>2 DEF PutAgrees
<1>12. IndexReversesBindings'
  BY DEF Open, IndexReversesBindings
<1>13. PutsApart'
  BY <1>1, <1>2 DEF PutsApart
<1> QED
  BY <1>6, <1>8, <1>9, <1>10, <1>11, <1>12, <1>13 DEF AgreeInv

(* A sweep only forgets records.                                           *)
LEMMA AgreePurge ==
    ASSUME TypeOK, AgreeInv, PurgeExpired
    PROVE  AgreeInv'
<1>1. /\ \A k \in PubKey : records'[k] \in {records[k], NoRecord}
      /\ UNCHANGED <<bindings, identity_index, task, writer, disk, up>>
  BY DEF PurgeExpired
<1>2. \A t \in Task : task[t].pc # "idle" => task[t].rec.key \in PubKey
  BY OfferedFields DEF TypeOK
<1>3. AllConsistent'
  <2>1. Consistent(Contents)
    BY DEF AgreeInv, AllConsistent
  <2>2. Consistent(Contents)'
    BY <1>1, <2>1 DEF Consistent, Contents
  <2>3. Consistent(writer.bytes)' /\ Consistent(disk)'
    BY <1>1 DEF AgreeInv, AllConsistent
  <2> QED
    BY <2>2, <2>3 DEF AllConsistent
<1>4. AllSourced'
  BY <1>1 DEF AgreeInv, AllSourced, Sourced
<1>5. DownIsIdle' /\ HeldVerifies'
  BY <1>1 DEF AgreeInv, DownIsIdle, HeldVerifies
<1>6. \A t \in Task : PutAgrees(t)'
  BY <1>1, <1>2 DEF AgreeInv, PutAgrees
<1>7. IndexReversesBindings'
  BY <1>1 DEF AgreeInv, IndexReversesBindings
<1>8. PutsApart'
  BY <1>1 DEF AgreeInv, PutsApart
<1> QED
  BY <1>3, <1>4, <1>5, <1>6, <1>7, <1>8 DEF AgreeInv

(* No step of a put, a sweep, a persist or a restart breaks the agreement. *)
LEMMA NextAgreeInv ==
    ASSUME ~Racing \/ OneIssuer, TypeOK, AgreeInv, [Next]_vars
    PROVE  AgreeInv'
<1>1. ASSUME NEW t \in Task, NEW r \in Offered, PutCheck(t, r)
      PROVE  AgreeInv'
  <2>1. up /\ task[t].pc = "idle" /\ verify(r) /\ (Racing \/ Alone(t, r.key))
    BY <1>1 DEF PutCheck, admissible
  <2>2. UNCHANGED <<records, bindings, identity_index, writer, disk, up>>
    BY <1>1 DEF PutCheck, memory
  <2>3. /\ task'[t] = [pc |-> "merge", rec |-> r]
        /\ \A u \in Task : u # t => task'[u] = task[u]
    BY <1>1 DEF PutCheck, TypeOK
  <2> QED
    BY <2>1, <2>2, <2>3, AgreeTask
<1>2. ASSUME NEW t \in Task, PutRefused(t) \/ PutDone(t)
      PROVE  AgreeInv'
  <2>1. task[t].pc \in {"merge", "bump"} /\ task' = [task EXCEPT ![t] = Idle]
    BY <1>2 DEF PutRefused, PutDone
  <2>2. UNCHANGED <<records, bindings, identity_index, writer, disk, up>>
    BY <1>2 DEF PutRefused, PutDone, memory
  <2>3. task'[t].pc = "idle" /\ \A u \in Task : u # t => task'[u] = task[u]
    BY <2>1 DEF TypeOK, Idle
  <2>4. up
    BY <2>1 DEF AgreeInv, DownIsIdle
  <2> QED
    BY <2>1, <2>2, <2>3, <2>4, AgreeTask
<1>3. ASSUME NEW t \in Task, PutInsert(t)
      PROVE  AgreeInv'
  BY <1>3, AgreeInsert
<1>4. ASSUME NEW t \in Task, PutBind(t)
      PROVE  AgreeInv'
  BY <1>4, AgreeBind
<1>5. ASSUME NEW t \in Task, PutIndex(t)
      PROVE  AgreeInv'
  BY <1>5, AgreeIndex
<1>6. CASE PurgeExpired
  BY <1>6, AgreePurge
<1>7. CASE PersistTick \/ PersistEncode \/ PersistInstall \/ PersistFail
  BY <1>7, AgreePersist
<1>8. CASE Crash
  <2>1. Consistent(disk)' /\ Sourced(disk.bindings)'
    BY <1>8 DEF Crash, AgreeInv, AllConsistent, AllSourced, Consistent, Sourced
  <2>2. records' = Blank.records /\ bindings' = Blank.bindings /\ writer'.bytes = Blank
    BY <1>8 DEF Crash, AtRest
  <2>3. \A i, k \in PubKey : k \notin identity_index'[i]
    BY <1>8 DEF Crash
  <2>4. \A t \in Task : task'[t].pc = "idle"
    BY <1>8 DEF Crash, Idle
  <2>5. Emptied'
    BY <2>1, <2>2, <2>3, <2>4, BlankFields DEF Emptied
  <2>6. Emptied' => AgreeInv'
    BY AgreeEmptied, PTL
  <2> QED
    BY <2>5, <2>6
<1>9. CASE Open
  BY <1>9, AgreeOpen
<1>10. CASE Tick \/ StepBack \/ UNCHANGED vars
  <2>1. UNCHANGED <<records, bindings, identity_index, task, writer, disk, up>>
    BY <1>10 DEF Tick, StepBack, vars, memory
  <2> QED
    BY <2>1, AgreeFrame
<1> QED
  BY <1>1, <1>2, <1>3, <1>4, <1>5, <1>6, <1>7, <1>8, <1>9, <1>10 DEF Next, PutStep

(* The agreement of records, bindings and index is an invariant.           *)
LEMMA Agreement ==
    ASSUME ~Racing \/ OneIssuer
    PROVE  Spec => []AgreeInv
<1>1. Init => AgreeInv
  <2> SUFFICES ASSUME Init
               PROVE  AgreeInv
    OBVIOUS
  <2>1. /\ records = Blank.records /\ bindings = Blank.bindings
        /\ writer.bytes = Blank /\ disk = Blank
    BY DEF Init, AtRest
  <2>2. \A i, k \in PubKey : k \notin identity_index[i]
    BY DEF Init
  <2>3. \A t \in Task : task[t].pc = "idle"
    BY DEF Init, Idle
  <2>4. Consistent(disk) /\ Sourced(disk.bindings)
    BY <2>1, BlankFields DEF Consistent, Sourced
  <2>5. Emptied
    BY <2>1, <2>2, <2>3, <2>4, BlankFields DEF Emptied
  <2> QED
    BY <2>5, AgreeEmptied
<1>2. TypeOK /\ AgreeInv /\ [Next]_vars => AgreeInv'
  BY NextAgreeInv
<1> QED
  BY <1>1, <1>2, TypeCorrect, PTL DEF Spec

(* On any number of threads, as long as the first puts of a key do not     *)
(* overlap or one identity only delegates it, what is held for a key is    *)
(* always its bound identity's, and only that identity has retired it.     *)
THEOREM Ownership ==
    ASSUME ~Racing \/ OneIssuer
    PROVE  Spec => []OwnershipHolds
<1>1. TypeOK /\ AgreeInv => OwnershipHolds
  BY DEF AgreeInv, AllConsistent, HeldVerifies, OwnershipHolds, Consistent, Contents,
     verify, expected_signer
<1> QED
  BY <1>1, Agreement, TypeCorrect, PTL

(* Under the same assumption the index of identities is the reverse of the *)
(* bindings, up to a put that is about to list its key.                    *)
THEOREM IndexExact ==
    ASSUME ~Racing \/ OneIssuer
    PROVE  Spec => []IndexReversesBindings
<1>1. AgreeInv => IndexReversesBindings
  BY DEF AgreeInv
<1> QED
  BY <1>1, Agreement, PTL

-----------------------------------------------------------------------------

(***************************************************************************)
(* Retirement is for good.                                                 *)
(*                                                                         *)
(* A tombstone on disk is one the store still holds, and the bytes a       *)
(* writer is about to install hold it as well.  A restart keeps it because *)
(* every check of Store::put passes again: it was signed and well formed   *)
(* when it came, its binding agrees with it, and its date cannot have      *)
(* become too far in the future unless the clock was set back.             *)
(***************************************************************************)
Sound(r) == validate(r) /\ verify(r) /\ r.issued_at <= now + MaxClockSkew

(* Every tombstone of a is in b.                                           *)
Keeps(b, a) == \A k \in PubKey : retired(a[k]) => b[k] = a[k]

(* Every record in the store, in the writer's bytes and on disk is sound.  *)
AllSound ==
    \A k \in PubKey :
        /\ records[k] # NoRecord => Sound(records[k])
        /\ writer.bytes.records[k] # NoRecord => Sound(writer.bytes.records[k])
        /\ disk.records[k] # NoRecord => Sound(disk.records[k])

PutsSound == \A t \in Task : task[t].pc # "idle" => up /\ Sound(task[t].rec)

TombsKept ==
    /\ up => Keeps(records, disk.records)
    /\ writer.pc # "idle" => up
    /\ writer.pc = "install" => /\ Keeps(records, writer.bytes.records)
                                /\ Keeps(writer.bytes.records, disk.records)

RetireInv == AllSound /\ PutsSound /\ TombsKept

RetireStep ==
    \A k \in PubKey :
        /\ up /\ up' /\ retired(records[k]) => records'[k] = records[k]
        /\ retired(disk.records[k]) => disk'.records[k] = disk.records[k]

(* While the clock does not go back, what was sound stays sound.           *)
LEMMA StaysSound ==
    ASSUME NEW r \in Offered, Sound(r), now \in Nat, now' \in Nat, now' >= now
    PROVE  Sound(r)'
<1>1. r.issued_at <= now' + MaxClockSkew
  BY BoundsAssumption, OfferedFields DEF Sound
<1> QED
  BY <1>1 DEF Sound

(* Puts that carry what they carried stay sound.                           *)
LEMMA PutsStaySound ==
    ASSUME PutsSound, UNCHANGED <<now, up>>,
           \A t \in Task : task'[t].pc # "idle" => task[t].pc # "idle" /\ task'[t].rec = task[t].rec
    PROVE  PutsSound'
BY DEF PutsSound, Sound

(* A step of the running store that changes records, and no tombstone.     *)
LEMMA RetireMemory ==
    ASSUME RetireInv, up, UNCHANGED <<now, up, writer, disk>>,
           \A k \in PubKey : records'[k] # NoRecord => Sound(records'[k]),
           \A k \in PubKey : retired(records[k]) => records'[k] = records[k]
    PROVE  AllSound' /\ TombsKept' /\ RetireStep
<1>1. AllSound'
  BY DEF RetireInv, AllSound, Sound
<1>2. TombsKept'
  BY DEF RetireInv, TombsKept, Keeps
<1>3. RetireStep
  BY DEF RetireStep
<1> QED
  BY <1>1, <1>2, <1>3

(* No step drops or replaces a tombstone, and each keeps the invariant.    *)
LEMMA NextRetireInv ==
    ASSUME ~ClockMayStep, TypeOK, AgreeInv, RetireInv, [Next]_vars
    PROVE  RetireInv' /\ RetireStep
<1>0. AllSound /\ PutsSound /\ TombsKept
  BY DEF RetireInv
<1>1. ASSUME NEW t \in Task, NEW r \in Offered, PutCheck(t, r)
      PROVE  RetireInv' /\ RetireStep
  <2>1. Sound(r)
    BY <1>1 DEF PutCheck, admissible, Sound
  <2>2. up /\ UNCHANGED <<now, up, records, writer, disk>>
    BY <1>1 DEF PutCheck, memory
  <2>3. task'[t].rec = r /\ \A u \in Task : u # t => task'[u] = task[u]
    BY <1>1 DEF PutCheck, TypeOK
  <2>4. PutsSound'
    BY <1>0, <2>1, <2>2, <2>3 DEF PutsSound, Sound
  <2>5. \A k \in PubKey : records'[k] # NoRecord => Sound(records'[k])
    BY <1>0, <2>2 DEF AllSound
  <2>6. AllSound' /\ TombsKept' /\ RetireStep
    BY <2>2, <2>5, RetireMemory
  <2> QED
    BY <2>4, <2>6 DEF RetireInv
<1>2. ASSUME NEW t \in Task, PutRefused(t) \/ PutBind(t) \/ PutIndex(t) \/ PutDone(t)
      PROVE  RetireInv' /\ RetireStep
  <2>1. UNCHANGED <<now, up, records, writer, disk>> /\ task[t].pc # "idle"
    BY <1>2 DEF PutRefused, PutBind, PutIndex, PutDone, memory
  <2>2. up
    BY <1>0, <2>1 DEF PutsSound
  <2>3. \A u \in Task : task'[u].pc # "idle" => task[u].pc # "idle" /\ task'[u].rec = task[u].rec
    BY SMTT(20), <1>2 DEF PutRefused, PutBind, PutIndex, PutDone, TypeOK, Idle
  <2>4. PutsSound'
    BY <1>0, <2>1, <2>3, PutsStaySound
  <2>5. \A k \in PubKey : records'[k] # NoRecord => Sound(records'[k])
    BY <1>0, <2>1 DEF AllSound
  <2>6. AllSound' /\ TombsKept' /\ RetireStep
    BY <2>1, <2>2, <2>5, RetireMemory
  <2> QED
    BY <2>4, <2>6 DEF RetireInv
<1>3. ASSUME NEW t \in Task, PutInsert(t)
      PROVE  RetireInv' /\ RetireStep
  <2> DEFINE r == task[t].rec
  <2>1. r \in Offered /\ r.key \in PubKey /\ ~retired(records[r.key])
    BY <1>3, OfferedFields DEF TypeOK, PutInsert, mergeable
  <2>2. Sound(r) /\ up
    BY <1>0, <1>3 DEF PutsSound, PutInsert
  <2>3. UNCHANGED <<now, up, writer, disk>>
    BY <1>3 DEF PutInsert
  <2>4. records'[r.key] = r /\ \A k \in PubKey : k # r.key => records'[k] = records[k]
    BY <1>3, <2>1 DEF PutInsert, TypeOK
  <2>5. \A u \in Task : task'[u].pc # "idle" => task[u].pc # "idle" /\ task'[u].rec = task[u].rec
    BY <1>3 DEF PutInsert, TypeOK
  <2> HIDE DEF r
  <2>6. PutsSound'
    BY <1>0, <2>3, <2>5, PutsStaySound
  <2>7. \A k \in PubKey : retired(records[k]) => records'[k] = records[k]
    BY <2>1, <2>4
  <2>8. \A k \in PubKey : records'[k] # NoRecord => Sound(records'[k])
    BY <1>0, <2>2, <2>4 DEF AllSound
  <2>9. AllSound' /\ TombsKept' /\ RetireStep
    BY <2>2, <2>3, <2>7, <2>8, RetireMemory
  <2> QED
    BY <2>6, <2>9 DEF RetireInv
<1>4. CASE PurgeExpired
  <2>1. \A k \in PubKey : records'[k] \in {records[k], NoRecord}
    BY <1>4 DEF PurgeExpired
  <2>2. up /\ UNCHANGED <<now, up, task, writer, disk>>
    BY <1>4 DEF PurgeExpired
  <2>3. \A k \in PubKey : retired(records[k]) => records'[k] = records[k]
    BY <1>4 DEF PurgeExpired, retired, is_expired
  <2>4. \A k \in PubKey : records'[k] # NoRecord => Sound(records'[k])
    BY <1>0, <2>1 DEF AllSound
  <2>5. PutsSound'
    BY <1>0, <2>2, PutsStaySound
  <2>6. AllSound' /\ TombsKept' /\ RetireStep
    BY <2>2, <2>3, <2>4, RetireMemory
  <2> QED
    BY <2>5, <2>6 DEF RetireInv
<1>5. CASE PersistTick \/ PersistFail
  <2>1. UNCHANGED <<now, up, records, task, disk>>
    BY <1>5 DEF PersistTick, PersistFail, memory
  <2>2. up
    BY <1>0, <1>5 DEF PersistTick, PersistFail, TombsKept
  <2>3. writer'.bytes = Blank /\ writer'.pc # "install"
    <3>1. CASE PersistTick
      BY <3>1 DEF PersistTick, AtRest
    <3>2. CASE PersistFail
      BY <3>2 DEF PersistFail, AtRest
    <3> QED
      BY <1>5, <3>1, <3>2
  <2>4. PutsSound'
    BY <1>0, <2>1, PutsStaySound
  <2>5. AllSound'
    BY <1>0, <2>1, <2>3, BlankFields DEF AllSound, Sound
  <2>6. TombsKept'
    BY <1>0, <2>1, <2>2, <2>3 DEF TombsKept, Keeps
  <2>7. RetireStep
    BY <2>1 DEF RetireStep
  <2> QED
    BY <2>4, <2>5, <2>6, <2>7 DEF RetireInv
<1>6. CASE PersistEncode
  <2>1. UNCHANGED <<now, up, records, task, disk>>
    BY <1>6 DEF PersistEncode, memory
  <2>2. up
    BY <1>0, <1>6 DEF PersistEncode, TombsKept
  <2>3. writer'.bytes.records = records
    BY <1>6 DEF PersistEncode, TypeOK, Contents
  <2>4. PutsSound'
    BY <1>0, <2>1, PutsStaySound
  <2>5. AllSound'
    BY <1>0, <2>1, <2>3 DEF AllSound, Sound
  <2>6. TombsKept'
    BY <1>0, <2>1, <2>2, <2>3 DEF TombsKept, Keeps
  <2>7. RetireStep
    BY <2>1 DEF RetireStep
  <2> QED
    BY <2>4, <2>5, <2>6, <2>7 DEF RetireInv
<1>7. CASE PersistInstall
  <2>1. UNCHANGED <<now, up, records, task>> /\ writer.pc = "install" /\ disk' = writer.bytes
    BY <1>7 DEF PersistInstall, memory
  <2>2. up
    BY <1>0, <2>1 DEF TombsKept
  <2>3. writer'.bytes = Blank /\ writer'.pc = "idle"
    BY <1>7 DEF PersistInstall, AtRest
  <2>4. PutsSound'
    BY <1>0, <2>1, PutsStaySound
  <2>5. AllSound'
    BY <1>0, <2>1, <2>3, BlankFields DEF AllSound, Sound
  <2>6. TombsKept'
    BY <1>0, <2>1, <2>2, <2>3 DEF TombsKept, Keeps
  <2>7. RetireStep
    BY <1>0, <2>1 DEF TombsKept, Keeps, RetireStep
  <2> QED
    BY <2>4, <2>5, <2>6, <2>7 DEF RetireInv
<1>8. CASE Crash
  <2>1. UNCHANGED <<now, disk>> /\ ~up' /\ records' = Blank.records
    BY <1>8 DEF Crash
  <2>2. writer'.bytes = Blank /\ writer'.pc = "idle"
    BY <1>8 DEF Crash, AtRest
  <2>3. \A t \in Task : task'[t].pc = "idle"
    BY <1>8 DEF Crash, Idle
  <2>4. PutsSound'
    BY <2>3 DEF PutsSound
  <2>5. AllSound'
    BY <1>0, <2>1, <2>2, BlankFields DEF AllSound, Sound
  <2>6. TombsKept'
    BY <2>1, <2>2 DEF TombsKept
  <2>7. RetireStep
    BY <2>1 DEF RetireStep
  <2> QED
    BY <2>4, <2>5, <2>6, <2>7 DEF RetireInv
<1>9. CASE Open
  <2>1. ASSUME NEW k \in PubKey, retired(disk.records[k])
        PROVE  loadable(disk, k, now)
    <3> DEFINE r == disk.records[k]
    <3>1. r # NoRecord /\ is_terminal(r)
      BY <2>1 DEF retired
    <3>2. Sound(r)
      BY <1>0, <3>1 DEF AllSound
    <3>3. disk.bindings[k] \in {NoKey, r.identity}
      BY <3>1 DEF AgreeInv, AllConsistent, Consistent
    <3> HIDE DEF r
    <3>4. admissible(r, now)
      BY <3>1, <3>2 DEF admissible, Sound, is_expired
    <3>5. mergeable(r, NoRecord, disk.bindings[k])
      BY <3>3 DEF mergeable, retired
    <3> QED
      BY <3>1, <3>4, <3>5 DEF loadable, r
  <2>2. \A k \in PubKey : /\ records'[k] \in {disk.records[k], NoRecord}
                          /\ loadable(disk, k, now) => records'[k] = disk.records[k]
    BY <1>9 DEF Open
  <2>3. UNCHANGED <<now, task, writer, disk>> /\ ~up /\ up'
    BY <1>9 DEF Open
  <2>4. PutsSound'
    BY <1>0, <2>3 DEF PutsSound
  <2>5. AllSound'
    BY <1>0, <2>2, <2>3 DEF AllSound, Sound
  <2>6. TombsKept'
    BY <1>0, <2>1, <2>2, <2>3 DEF TombsKept, Keeps
  <2>7. RetireStep
    BY <2>3 DEF RetireStep
  <2> QED
    BY <2>4, <2>5, <2>6, <2>7 DEF RetireInv
<1>10. CASE Tick
  <2>1. UNCHANGED <<up, records, task, writer, disk>>
    BY <1>10 DEF Tick, memory
  <2>2. \A r \in Offered : Sound(r) => Sound(r)'
    BY <1>10, StaysSound DEF Tick, TypeOK
  <2>3. \A k \in PubKey :
          records[k] \in Maybe /\ writer.bytes.records[k] \in Maybe /\ disk.records[k] \in Maybe
    BY DEF TypeOK, Snapshot
  <2>4. \A t \in Task : task[t].pc # "idle" => task[t].rec \in Offered
    BY DEF TypeOK
  <2>5. PutsSound'
    BY <1>0, <2>1, <2>2, <2>4 DEF PutsSound, Sound
  <2>6. AllSound'
    BY <1>0, <2>1, <2>2, <2>3 DEF AllSound, Sound, Maybe
  <2>7. TombsKept'
    BY <1>0, <2>1 DEF TombsKept, Keeps
  <2>8. RetireStep
    BY <2>1 DEF RetireStep
  <2> QED
    BY <2>5, <2>6, <2>7, <2>8 DEF RetireInv
<1>11. CASE UNCHANGED vars
  <2>1. UNCHANGED <<now, up, records, task, writer, disk>>
    BY <1>11 DEF vars, memory
  <2>2. PutsSound'
    BY <1>0, <2>1, PutsStaySound
  <2>3. AllSound'
    BY <1>0, <2>1 DEF AllSound, Sound
  <2>4. TombsKept'
    BY <1>0, <2>1 DEF TombsKept, Keeps
  <2>5. RetireStep
    BY <2>1 DEF RetireStep
  <2> QED
    BY <2>2, <2>3, <2>4, <2>5 DEF RetireInv
<1> QED
  BY <1>1, <1>2, <1>3, <1>4, <1>5, <1>6, <1>7, <1>8, <1>9, <1>10, <1>11
  DEF Next, PutStep, StepBack

(* A store that holds nothing holds nothing unsound.                       *)
LEMMA InitRetireInv == Init => RetireInv
<1> SUFFICES ASSUME Init
             PROVE  RetireInv
  OBVIOUS
<1>1. records = Blank.records /\ disk = Blank /\ writer.bytes = Blank /\ writer.pc = "idle"
  BY DEF Init, AtRest
<1>2. \A t \in Task : task[t].pc = "idle"
  BY DEF Init, Idle
<1>3. AllSound
  BY <1>1, BlankFields, Zenon DEF AllSound
<1>4. TombsKept
  BY <1>1 DEF TombsKept, Keeps
<1> QED
  BY <1>2, <1>3, <1>4 DEF RetireInv, PutsSound

(* A retired key stays retired with the same tombstone, in the store and   *)
(* on disk, through every sweep, persist, crash and restart, provided the  *)
(* clock is never set back and the first puts of a key do not overlap or   *)
(* come from one identity.                                                 *)
THEOREM RetirementPermanent ==
    ASSUME ~ClockMayStep, ~Racing \/ OneIssuer
    PROVE  Spec => RetirementIsForGood
<1>1. TypeOK /\ AgreeInv /\ RetireInv /\ [Next]_vars => RetireInv' /\ RetireStep
  BY NextRetireInv
<1> QED
  BY <1>1, InitRetireInv, Agreement, TypeCorrect, PTL DEF Spec, RetirementIsForGood, RetireStep
-----------------------------------------------------------------------------

(* What owner_of returns, case by case.                                    *)
OwnerIs == \A k \in PubKey : OwnedBy(owner_of(k), bindings, task, k)

(* At most one put is between storing the first record of a key and        *)
(* binding the key, and it names the owner.                                *)
LEMMA OwnerCases == ~Racing /\ PutsApart => OwnerIs
<1> SUFFICES ASSUME ~Racing, PutsApart, NEW k \in PubKey
             PROVE  OwnedBy(owner_of(k), bindings, task, k)
  BY Zenon DEF OwnerIs
<1> DEFINE B == {t \in Task : task[t].pc = "bind" /\ task[t].rec.key = k}
<1>1. bindings[k] # NoKey => owner_of(k) = bindings[k]
  BY DEF owner_of
<1>2. ASSUME bindings[k] = NoKey, NEW t \in Task, Binds(task[t], k)
      PROVE  owner_of(k) = task[t].rec.identity
  <2>1. \A u \in B : u = t
    BY <1>2 DEF PutsApart, Binds
  <2>2. t \in B
    BY <1>2 DEF Binds
  <2>3. (CHOOSE u \in B : TRUE) = t
    BY <2>1, <2>2
  <2> QED
    BY <1>2, <2>2, <2>3, Zenon DEF owner_of
<1>3. ASSUME bindings[k] = NoKey, \A t \in Task : ~Binds(task[t], k)
      PROVE  owner_of(k) = NoKey
  <2>1. B = {}
    BY <1>3 DEF Binds
  <2> QED
    BY <1>3, <2>1 DEF owner_of
<1> QED
  BY <1>1, <1>2, <1>3, Zenon DEF OwnedBy

(* A step that binds nothing and leaves the puts before their bind alone   *)
(* changes no owner.                                                       *)
LEMMA OwnerKept ==
    ASSUME OwnerIs, OwnerIs', bindings' = bindings,
           \A t \in Task : /\ task'[t].pc = "bind" <=> task[t].pc = "bind"
                           /\ task[t].pc = "bind" => task'[t].rec = task[t].rec
    PROVE  [k \in PubKey |-> owner_of(k)]' = [k \in PubKey |-> owner_of(k)]
<1>1. ASSUME NEW k \in PubKey
      PROVE  owner_of(k)' = owner_of(k)
  <2>1. OwnedBy(owner_of(k), bindings, task, k) /\ OwnedBy(owner_of(k)', bindings', task', k)
    BY Zenon DEF OwnerIs
  <2>2. SameBinds(task, task', k)
    BY DEF SameBinds, Binds
  <2>3. bindings'[k] = bindings[k]
    OBVIOUS
  <2> QED
    BY <2>1, <2>2, <2>3, OwnerSame, Zenon
<1> QED
  BY <1>1

-----------------------------------------------------------------------------
(* Storing a record that passed the merge checks is accepting it.          *)
LEMMA InsertAccepts ==
    ASSUME ~Racing, TypeOK, AgreeInv, OwnerIs, OwnerIs', NEW t \in Task, PutInsert(t),
           NEW r \in Offered, task[t].rec = r
    PROVE  Promised!Accept(r)
<1>1. /\ r.key \in PubKey /\ task[t].pc = "merge" /\ up
  BY OfferedFields DEF TypeOK, PutInsert, AgreeInv, DownIsIdle
<1>2. /\ records' = [records EXCEPT ![r.key] = r]
      /\ UNCHANGED <<up, bindings, writer, disk>>
      /\ mergeable(r, records[r.key], bindings[r.key])
  BY DEF PutInsert
<1>3. /\ task'[t].pc = "bind" /\ task'[t].rec = r
      /\ \A u \in Task : u # t => task'[u] = task[u]
  BY DEF PutInsert, TypeOK
<1>4. OwnerIs /\ OwnerIs'
  OBVIOUS
<1>5. owner_of(r.key) = bindings[r.key]
  <2>1. bindings[r.key] = NoKey => \A u \in Task : ~Binds(task[u], r.key)
    BY <1>1 DEF AgreeInv, PutsApart, Binds
  <2>2. OwnedBy(owner_of(r.key), bindings, task, r.key)
    BY <1>1, <1>4, Zenon DEF OwnerIs
  <2> QED BY <2>1, <2>2, OwnerBound, Zenon
<1>6. mergeable(r, records[r.key], owner_of(r.key))
  BY <1>2, <1>5, Zenon
<1>7. owner_of(r.key)' = r.identity
  <2>1. /\ bindings'[r.key] # NoKey => bindings'[r.key] = task'[t].rec.identity
        /\ Binds(task'[t], r.key)
    BY <1>2, <1>3 DEF mergeable, Binds
  <2>2. OwnedBy(owner_of(r.key)', bindings', task', r.key)
    BY <1>1, <1>4, Zenon DEF OwnerIs
  <2>3. owner_of(r.key)' = task'[t].rec.identity
    <3>1. CASE bindings'[r.key] = NoKey
      BY <2>1, <2>2, <3>1, Zenon DEF OwnedBy
    <3>2. CASE bindings'[r.key] # NoKey
      BY <2>1, <2>2, <3>2, Zenon DEF OwnedBy
    <3> QED BY <3>1, <3>2, Zenon
  <2> QED BY <1>3, <2>3
<1>8. ASSUME NEW k \in PubKey, k # r.key
      PROVE  owner_of(k)' = owner_of(k)
  <2>1. OwnedBy(owner_of(k), bindings, task, k) /\ OwnedBy(owner_of(k)', bindings', task', k)
    BY <1>4, <1>8, Zenon DEF OwnerIs
  <2>2. SameBinds(task, task', k)
    BY <1>1, <1>3, <1>8 DEF SameBinds, Binds
  <2>3. bindings'[k] = bindings[k]
    BY <1>2
  <2> QED
    BY <2>1, <2>2, <2>3, OwnerSame, Zenon
<1>9. [k \in PubKey |-> owner_of(k)]' = [[k \in PubKey |-> owner_of(k)] EXCEPT ![r.key] = r.identity]
  BY <1>1, <1>7, <1>8, Zenon
<1> QED
  BY <1>1, <1>2, <1>6, <1>9
  DEF Promised!Accept, Promised!mergeable, Promised!retired, Promised!supersedes,
      Promised!newer, Promised!is_terminal, Promised!Terminal, mergeable, retired, supersedes,
      newer, is_terminal, Terminal

(* Binding a key names the owner it already had.                           *)
LEMMA BindChangesNothing ==
    ASSUME TypeOK, AgreeInv, OwnerIs, OwnerIs', NEW t \in Task, PutBind(t),
           NEW r \in Offered, task[t].rec = r
    PROVE  UNCHANGED Promised!registry
<1>1. r.key \in PubKey /\ r.identity # NoKey /\ task[t].pc = "bind"
  BY OfferedFields, SentinelAssumption DEF TypeOK, PutBind
<1>2. bindings[r.key] \in {NoKey, r.identity}
  BY <1>1 DEF AgreeInv, PutAgrees
<1>3. UNCHANGED <<records, writer, disk, up>>
  BY DEF PutBind
<1>4. /\ bindings'[r.key] = r.identity
      /\ \A k \in PubKey : k # r.key => bindings'[k] = bindings[k]
  BY <1>1, <1>2 DEF TypeOK, PutBind
<1>5. task'[t].pc = "index" /\ \A u \in Task : u # t => task'[u] = task[u]
  BY DEF PutBind, TypeOK
<1>6. owner_of(r.key)' = owner_of(r.key)
  <2>1. /\ OwnedBy(owner_of(r.key), bindings, task, r.key)
        /\ OwnedBy(owner_of(r.key)', bindings', task', r.key)
    BY <1>1, Zenon DEF OwnerIs
  <2>2. /\ bindings[r.key] # NoKey => bindings[r.key] = task[t].rec.identity
        /\ Binds(task[t], r.key)
    BY <1>1, <1>2 DEF Binds
  <2>3. owner_of(r.key) = task[t].rec.identity
    <3>1. CASE bindings[r.key] = NoKey
      BY <2>1, <2>2, <3>1, Zenon DEF OwnedBy
    <3>2. CASE bindings[r.key] # NoKey
      BY <2>1, <2>2, <3>2, Zenon DEF OwnedBy
    <3> QED BY <3>1, <3>2, Zenon
  <2>4. owner_of(r.key)' = bindings'[r.key]
    BY <1>1, <1>4, <2>1, Zenon DEF OwnedBy
  <2> QED BY <1>4, <2>3, <2>4
<1>7. ASSUME NEW k \in PubKey, k # r.key
      PROVE  owner_of(k)' = owner_of(k)
  <2>1. OwnedBy(owner_of(k), bindings, task, k) /\ OwnedBy(owner_of(k)', bindings', task', k)
    BY <1>7, Zenon DEF OwnerIs
  <2>2. SameBinds(task, task', k)
    BY <1>1, <1>5, <1>7 DEF SameBinds, Binds
  <2>3. bindings'[k] = bindings[k]
    BY <1>4, <1>7
  <2> QED
    BY <2>1, <2>2, <2>3, OwnerSame, Zenon
<1>8. [k \in PubKey |-> owner_of(k)]' = [k \in PubKey |-> owner_of(k)]
  BY <1>6, <1>7
<1> QED
  BY <1>3, <1>8 DEF Promised!registry

(* A restart brings back what a Registry brings back.                      *)
LEMMA OpenStarts ==
    ASSUME TypeOK, OwnerIs', BindInv', RetireInv', AgreeInv, Open
    PROVE  Promised!Start
<1>1. UNCHANGED <<task, writer, disk>> /\ ~up /\ up'
  BY DEF Open
<1>2. \A t \in Task : task'[t].pc = "idle"
  BY <1>1 DEF AgreeInv, DownIsIdle
<1>3. \A k \in PubKey : owner_of(k)' = bindings'[k]
  <2>1. \A k \in PubKey : \A t \in Task : ~Binds(task'[t], k)
    BY <1>2 DEF Binds
  <2>2. \A k \in PubKey : OwnedBy(owner_of(k)', bindings', task', k)
    BY Zenon DEF OwnerIs
  <2> QED BY <2>1, <2>2, OwnerBound, Zenon
<1>4. ASSUME NEW k \in PubKey
      PROVE  bindings'[k] = IF records'[k] = NoRecord THEN disk.bindings[k] ELSE records'[k].identity
  BY DEF Open, loadable
<1>5. \A k \in PubKey : disk.bindings[k] # NoKey => bindings'[k] = disk.bindings[k]
  BY <1>1 DEF BindInv, Extends
<1>6. ASSUME NEW k \in PubKey
      PROVE  \/ records'[k] = disk.records[k]
             \/ records'[k] = NoRecord /\ ~retired(disk.records[k])
  <2>1. records'[k] \in {disk.records[k], NoRecord}
    BY DEF Open
  <2>2. retired(disk.records[k]) => records'[k] = disk.records[k]
    BY <1>1 DEF RetireInv, TombsKept, Keeps
  <2> QED
    BY <2>1, <2>2
<1>7. DOMAIN records' = PubKey
  BY DEF Open
<1> QED
  BY <1>1, <1>3, <1>4, <1>5, <1>6, <1>7
  DEF Promised!Start, Promised!retired, Promised!is_terminal, Promised!Terminal,
      retired, is_terminal, Terminal

-----------------------------------------------------------------------------
(* What the steps of the store are in a Registry.                          *)
LEMMA StepRefines ==
    ASSUME ~Racing, TypeOK, AgreeInv, BindInv, OwnerIs, OwnerIs', BindInv', RetireInv', [Next]_vars
    PROVE  [Promised!Next]_(Promised!registry)
<1>1. ASSUME NEW t \in Task,
             \/ \E r \in Offered : PutCheck(t, r)
             \/ PutRefused(t) \/ PutIndex(t) \/ PutDone(t)
      PROVE  UNCHANGED Promised!registry
  <2>1. UNCHANGED <<up, records, bindings, writer, disk>>
    BY <1>1 DEF PutCheck, PutRefused, PutIndex, PutDone, memory
  <2>2. \A u \in Task : /\ task'[u].pc = "bind" <=> task[u].pc = "bind"
                        /\ task[u].pc = "bind" => task'[u].rec = task[u].rec
    BY <1>1 DEF PutCheck, PutRefused, PutIndex, PutDone, Idle, TypeOK
  <2>3. [k \in PubKey |-> owner_of(k)]' = [k \in PubKey |-> owner_of(k)]
    BY <2>1, <2>2, OwnerKept
  <2> QED
    BY <2>1, <2>3 DEF Promised!registry
<1>2. ASSUME NEW t \in Task, PutInsert(t)
      PROVE  Promised!Next
  <2>1. PICK r \in Offered : task[t].rec = r
    BY <1>2 DEF TypeOK, PutInsert
  <2> QED
    BY <1>2, <2>1, InsertAccepts DEF Promised!Next
<1>3. ASSUME NEW t \in Task, PutBind(t)
      PROVE  UNCHANGED Promised!registry
  <2>1. PICK r \in Offered : task[t].rec = r
    BY <1>3 DEF TypeOK, PutBind
  <2> QED
    BY <1>3, <2>1, BindChangesNothing
<1>4. CASE PurgeExpired
  <2>1. up /\ UNCHANGED <<up, bindings, task, writer, disk>>
    BY <1>4 DEF PurgeExpired
  <2>2. \A k \in PubKey : records'[k] = records[k] \/ (records'[k] = NoRecord /\ ~retired(records[k]))
    BY <1>4 DEF PurgeExpired, is_expired, retired
  <2>3. DOMAIN records' = PubKey
    BY <1>4 DEF PurgeExpired
  <2>4. [k \in PubKey |-> owner_of(k)]' = [k \in PubKey |-> owner_of(k)]
    BY <2>1, OwnerKept
  <2>5. Promised!Lapse
    BY <2>1, <2>2, <2>3, <2>4
    DEF Promised!Lapse, Promised!retired, Promised!is_terminal, Promised!Terminal,
        retired, is_terminal, Terminal
  <2> QED
    BY <2>5 DEF Promised!Next
<1>5. CASE PersistTick \/ PersistEncode \/ PersistInstall \/ PersistFail
  <2>1. UNCHANGED <<up, records, bindings, task>>
    BY <1>5 DEF PersistTick, PersistEncode, PersistInstall, PersistFail, memory
  <2>2. [k \in PubKey |-> owner_of(k)]' = [k \in PubKey |-> owner_of(k)]
    BY <2>1, OwnerKept
  <2>3. CASE PersistTick \/ PersistFail
    <3>1. writer'.bytes = Blank
      <4>1. CASE PersistTick
        BY <4>1 DEF PersistTick, AtRest
      <4>2. CASE PersistFail
        BY <4>2 DEF PersistFail, AtRest
      <4> QED
        BY <2>3, <4>1, <4>2
    <3>2. disk' = disk
      BY <2>3 DEF PersistTick, PersistFail
    <3> QED
      BY <2>1, <2>2, <3>1, <3>2 DEF Promised!Next, Promised!Discard, Promised!Nothing, Blank
  <2>4. CASE PersistEncode
    <3>1. writer'.bytes = Contents /\ disk' = disk /\ up
      BY <2>4 DEF PersistEncode, TypeOK, BindInv
    <3>2. \A k \in PubKey : bindings[k] = owner_of(k) \/ (bindings[k] = NoKey /\ disk.bindings[k] = NoKey)
      <4> SUFFICES ASSUME NEW k \in PubKey
                   PROVE  bindings[k] = owner_of(k) \/ (bindings[k] = NoKey /\ disk.bindings[k] = NoKey)
        BY Zenon
      <4>1. CASE bindings[k] # NoKey
        BY <4>1, Zenon DEF OwnerIs, OwnedBy
      <4>2. CASE bindings[k] = NoKey
        BY <3>1, <4>2 DEF BindInv, Extends
      <4> QED BY <4>1, <4>2, Zenon
    <3>3. /\ writer'.bytes \in [records : {records}, bindings : [PubKey -> PubKey \union {NoKey}]]
          /\ writer'.bytes.bindings = bindings
      <4>1. bindings \in [PubKey -> PubKey \union {NoKey}]
        BY DEF TypeOK
      <4>2. writer'.bytes = [records |-> records, bindings |-> bindings]
        BY <3>1, Zenon DEF Contents
      <4> QED BY <4>1, <4>2, ImageFields, Zenon
    <3>4. Promised!Take
      BY <2>1, <2>2, <3>1, <3>2, <3>3 DEF Promised!Take
    <3> QED
      BY <3>4 DEF Promised!Next
  <2>5. CASE PersistInstall
    <3>1. writer'.bytes = Blank /\ disk' = writer.bytes
      BY <2>5 DEF PersistInstall, AtRest
    <3> QED
      BY <2>1, <2>2, <3>1 DEF Promised!Next, Promised!Save, Promised!Nothing, Blank
  <2> QED
    BY <1>5, <2>3, <2>4, <2>5
<1>6. CASE Crash
  <2>1. ~up' /\ up' = FALSE /\ disk' = disk
    BY <1>6 DEF Crash
  <2>2. records' = Blank.records /\ bindings' = Blank.bindings /\ writer'.bytes = Blank
    BY <1>6 DEF Crash, AtRest
  <2>3. \A t \in Task : task'[t].pc = "idle"
    BY <1>6 DEF Crash, Idle
  <2>4. \A k \in PubKey : owner_of(k)' = Blank.bindings[k]
    <3>1. \A k \in PubKey : \A t \in Task : ~Binds(task'[t], k)
      BY <2>3 DEF Binds
    <3>2. \A k \in PubKey : OwnedBy(owner_of(k)', bindings', task', k)
      BY Zenon DEF OwnerIs
    <3>3. \A k \in PubKey : owner_of(k)' = bindings'[k]
      BY <3>1, <3>2, OwnerBound, Zenon
    <3> QED BY <2>2, <3>3, Zenon
  <2>5. [k \in PubKey |-> owner_of(k)]' = Blank.bindings
    BY <2>4 DEF Blank
  <2>6. Promised!Nothing = Blank
    BY DEF Promised!Nothing, Blank
  <2> QED
    BY <2>1, <2>2, <2>5, <2>6 DEF Promised!Next, Promised!Stop
<1>7. CASE Open
  BY <1>7, OpenStarts DEF Promised!Next
<1>8. CASE Tick \/ StepBack \/ UNCHANGED vars
  <2>1. UNCHANGED <<up, records, bindings, task, writer, disk>>
    BY <1>8 DEF Tick, StepBack, vars, memory
  <2>2. [k \in PubKey |-> owner_of(k)]' = [k \in PubKey |-> owner_of(k)]
    BY <2>1, OwnerKept
  <2> QED
    BY <2>1, <2>2 DEF Promised!registry
<1> QED
  BY <1>1, <1>2, <1>3, <1>4, <1>5, <1>6, <1>7, <1>8 DEF Next, PutStep

(* The store starts as an empty Registry.                                  *)
LEMMA InitRefines == Init => Promised!Init
<1> SUFFICES ASSUME Init
             PROVE  Promised!Init
  OBVIOUS
<1>1. up = TRUE /\ records = Blank.records /\ bindings = Blank.bindings
  BY DEF Init
<1>2. writer.bytes = Blank /\ disk = Blank
  BY DEF Init, AtRest
<1>3. \A t \in Task : task[t].pc = "idle"
  BY DEF Init, Idle
<1>4. \A k \in PubKey : owner_of(k) = NoKey
  <2>1. \A k \in PubKey : {t \in Task : task[t].pc = "bind" /\ task[t].rec.key = k} = {}
    BY <1>3
  <2>2. \A k \in PubKey : bindings[k] = NoKey
    BY <1>1, BlankFields
  <2> QED
    BY <2>1, <2>2 DEF owner_of
<1>5. [k \in PubKey |-> owner_of(k)] = Blank.bindings
  BY <1>4 DEF Blank
<1>6. Promised!Nothing = Blank
  BY DEF Promised!Nothing, Blank
<1> QED
  BY <1>1, <1>2, <1>5, <1>6 DEF Promised!Init

(* For any number of threads, keys and records the store is a Registry, as *)
(* long as the first puts of a key do not overlap and the clock is not set *)
(* back.                                                                   *)
THEOREM StoreIsRegistry ==
    ASSUME ~Racing, ~ClockMayStep
    PROVE  Spec => ImplementsRegistry
<1>1. Spec => [](TypeOK /\ AgreeInv)
  BY TypeCorrect, Agreement, PTL
<1>2. Spec => []BindInv
  BY InitBindInv, NextBindInv, TypeCorrect, PTL DEF Spec
<1>3. Spec => []RetireInv
  BY <1>1, InitRetireInv, NextRetireInv, PTL DEF Spec
<1>4. AgreeInv => OwnerIs
  BY OwnerCases DEF AgreeInv
<1>5. /\ TypeOK /\ AgreeInv /\ BindInv /\ OwnerIs
      /\ OwnerIs' /\ BindInv' /\ RetireInv' /\ [Next]_vars
      => [Promised!Next]_(Promised!registry)
  BY StepRefines
<1> QED
  BY <1>1, <1>2, <1>3, <1>4, <1>5, InitRefines, PTL DEF Spec, ImplementsRegistry, Promised!Spec
=============================================================================
