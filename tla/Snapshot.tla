------------------------------ MODULE Snapshot ------------------------------
(***************************************************************************)
(* How Store::persist (crates/sqnsd/src/store.rs) puts a snapshot on disk, *)
(* file operation by file operation, and who calls it: the maintenance     *)
(* task on a worker thread, and the main thread once more on shutdown      *)
(* (server.rs).  Both write the same temporary file.                       *)
(*                                                                         *)
(* What the store holds is a version number here.  The bytes of a version  *)
(* are Size[v] cells stamped with it; versions differ in length, a sweep   *)
(* makes the next one shorter.  A file is an inode with its cells, and the *)
(* directory names two of them.  A handle keeps writing to its inode after *)
(* the directory entry has been renamed.                                   *)
(***************************************************************************)
EXTENDS Naturals, Sequences

CONSTANTS
    Inode,        \* inode numbers
    NoInode,      \* no directory entry
    MaxVersion,   \* bound on the changes of the store
    Size,         \* how many cells each version takes
    Overlap,      \* may the periodic and the final persist run at the same time
    IoErrors      \* may a file operation fail for a reason of its own

Version == 0 .. MaxVersion

ASSUME SnapshotAssumption ==
    /\ NoInode \notin Inode
    /\ MaxVersion \in Nat
    /\ Size \in [Version -> Nat \ {0}]
    /\ Overlap \in BOOLEAN
    /\ IoErrors \in BOOLEAN

VARIABLES
    phase,       \* "serving"; "closing" after the signal; "stopped" or "lost"
    version,     \* what the store holds
    last,        \* the newest version there has been
    persisted,   \* persisted_revision of the maintenance task
    handle,      \* the persist call of each writer, and how far it has got
    dir,         \* the two directory entries
    file,        \* the cells of each inode
    synced,      \* the inodes whose cells have reached the medium
    recent,      \* what the snapshot's entry may fall back to on power loss
    owed         \* the version held when the signal came

process == <<phase, version, last, persisted, owed>>

disk == <<dir, file, synced, recent>>

vars == <<process, handle, disk>>

-----------------------------------------------------------------------------
Writer == {"maintenance", "shutdown"}

Closed == [pc |-> "idle", image |-> 0, inode |-> NoInode, at |-> 0]

(* No version: u64::MAX in the code, and a hole in a file.                 *)
None == MaxVersion + 1

(* encode_snapshot of version v.                                           *)
image(v) == [c \in 1 .. Size[v] |-> v]

(* decode_snapshot accepts the bytes of one encode_snapshot and nothing    *)
(* else: bytes missing at the end or left over there are an error.         *)
readable(cells) == \E v \in Version : cells = image(v)

(* Mutant: an absent snapshot leaves the store unset.                      *)
loaded_unset(entry) ==
    IF entry # NoInode /\ readable(file[entry]) THEN file[entry][1] ELSE None

(* What Store::open finds: an absent or unreadable snapshot is an empty    *)
(* store.                                                                  *)
loaded(entry) ==
    IF entry # NoInode /\ readable(file[entry]) THEN file[entry][1] ELSE 0

Running == phase \in {"serving", "closing"}

(* A cell written at offset n.  Past the end it leaves a hole.             *)
overlay(cells, n, v) ==
    [c \in 1 .. (IF n > Len(cells) THEN n ELSE Len(cells)) |->
        IF c = n THEN v ELSE IF c <= Len(cells) THEN cells[c] ELSE None]

InUse == {dir.tmp, dir.path} \union recent \union {handle[w].inode : w \in Writer}

-----------------------------------------------------------------------------
(***************************************************************************)
(* The process.                                                            *)
(***************************************************************************)

(* A put or a sweep.  Handlers in flight still run after the signal.       *)
Change ==
    /\ Running
    /\ last < MaxVersion
    /\ last' = last + 1
    /\ version' = last'
    /\ UNCHANGED <<phase, persisted, owed, handle, disk>>

Signal ==
    /\ phase = "serving"
    /\ phase' = "closing"
    /\ owed' = version
    /\ UNCHANGED <<version, last, persisted, handle, disk>>

(* serve() has returned, and dropping the runtime has waited for a worker  *)
(* that was inside persist().                                              *)
Exit ==
    /\ phase = "closing"
    /\ handle["shutdown"].pc \in {"done", "failed"}
    /\ handle["maintenance"].pc = "idle"
    /\ phase' = "stopped"
    /\ UNCHANGED <<version, last, persisted, owed, handle, disk>>

Lost ==
    /\ Running
    /\ phase' = "lost"
    /\ handle' = [w \in Writer |-> Closed]
    /\ UNCHANGED <<version, last, persisted, owed>>

(* The process is killed.  The files stay as they are.                     *)
Kill ==
    /\ Lost
    /\ UNCHANGED disk

(* The machine loses power: cells that were not synced are lost, and the   *)
(* snapshot's entry is one it has had since the directory was last flushed.*)
PowerLoss ==
    /\ Lost
    /\ \E p \in recent, t \in {dir.tmp, NoInode} :
          /\ dir' = [path |-> p, tmp |-> t]
          /\ recent' = {p}
    /\ file' = [i \in Inode |-> IF i \in synced THEN file[i] ELSE <<>>]
    /\ UNCHANGED synced

(* The file system writes the directory out by itself.                     *)
FlushDirectory ==
    /\ recent # {dir.path}
    /\ recent' = {dir.path}
    /\ UNCHANGED <<process, handle, dir, file, synced>>

(* Mutant: the snapshot is not loaded.                                     *)
Start_empty ==
    /\ ~Running
    /\ phase' = "serving"
    /\ version' = 0
    /\ persisted' = None
    /\ owed' = 0
    /\ handle' = [w \in Writer |-> Closed]
    /\ UNCHANGED <<last, disk>>

(* Store::open.                                                            *)
Start ==
    /\ ~Running
    /\ phase' = "serving"
    /\ version' = loaded(dir.path)
    /\ persisted' = None
    /\ owed' = 0
    /\ handle' = [w \in Writer |-> Closed]
    /\ UNCHANGED <<last, disk>>

-----------------------------------------------------------------------------
(***************************************************************************)
(* Store::persist, called by w.                                            *)
(***************************************************************************)
Alone(w) == \A u \in Writer \ {w} : handle[u].pc \in {"idle", "done", "failed"}

(* maintenance() skips a tick if nothing changed; serve() persists once.   *)
Begin(w) ==
    /\ Running
    /\ handle[w].pc = "idle"
    /\ w = "maintenance" => version # persisted
    /\ w = "shutdown" => phase = "closing"
    /\ Overlap \/ Alone(w)
    /\ handle' = [handle EXCEPT ![w] = [Closed EXCEPT !.pc = "create", !.image = version]]
    /\ UNCHANGED <<process, disk>>

(* File::create: truncates the file of that name, or makes one.            *)
Create(w) ==
    LET i == IF dir.tmp # NoInode THEN dir.tmp ELSE CHOOSE j \in Inode \ InUse : TRUE IN
    /\ handle[w].pc = "create"
    /\ dir.tmp = NoInode => Inode \ InUse # {}
    /\ dir' = [dir EXCEPT !.tmp = i]
    /\ file' = [file EXCEPT ![i] = <<>>]
    /\ synced' = synced \ {i}
    /\ handle' = [handle EXCEPT ![w].pc = "write", ![w].inode = i]
    /\ UNCHANGED <<process, recent>>

(* write_all: the next cell, at this handle's own offset.                  *)
Write(w) ==
    LET h == handle[w] IN
    /\ h.pc = "write"
    /\ h.at < Size[h.image]
    /\ file' = [file EXCEPT ![h.inode] = overlay(@, h.at + 1, h.image)]
    /\ synced' = synced \ {h.inode}
    /\ handle' = [handle EXCEPT ![w].at = h.at + 1]
    /\ UNCHANGED <<process, dir, recent>>

(* Mutant: the file is not synced.                                         *)
Sync_skipped(w) ==
    LET h == handle[w] IN
    /\ h.pc = "write"
    /\ h.at = Size[h.image]
    /\ handle' = [handle EXCEPT ![w].pc = "rename", ![w].inode = NoInode]
    /\ UNCHANGED <<process, disk>>

(* sync_all, and the handle is dropped.                                    *)
Sync(w) ==
    LET h == handle[w] IN
    /\ h.pc = "write"
    /\ h.at = Size[h.image]
    /\ synced' = synced \union {h.inode}
    /\ handle' = [handle EXCEPT ![w].pc = "rename", ![w].inode = NoInode]
    /\ UNCHANGED <<process, dir, file, recent>>

(* Mutant: an error is taken for success.                                  *)
Return_ok(w, ok) ==
    /\ handle' = [handle EXCEPT ![w] =
          [Closed EXCEPT !.pc = IF w = "maintenance" THEN "idle" ELSE "done"]]
    /\ persisted' = IF w = "maintenance" THEN handle[w].image ELSE persisted
    /\ UNCHANGED <<phase, version, last, owed>>

Return(w, ok) ==
    /\ handle' = [handle EXCEPT ![w] =
          [Closed EXCEPT !.pc = IF w = "maintenance" THEN "idle"
                                ELSE IF ok THEN "done" ELSE "failed"]]
    /\ persisted' = IF ok /\ w = "maintenance" THEN handle[w].image ELSE persisted
    /\ UNCHANGED <<phase, version, last, owed>>

(* rename moves whatever file has the temporary name now.                  *)
Rename(w) ==
    /\ handle[w].pc = "rename"
    /\ dir.tmp # NoInode
    /\ dir' = [path |-> dir.tmp, tmp |-> NoInode]
    /\ recent' = recent \union {dir.tmp}
    /\ Return(w, TRUE)
    /\ UNCHANGED <<file, synced>>

(* An operation failed; without errors of the disk, only a rename can,     *)
(* when the other writer has moved the file away.                          *)
Fail(w) ==
    /\ handle[w].pc \in {"create", "write", "rename"}
    /\ ~IoErrors => handle[w].pc = "rename" /\ dir.tmp = NoInode
    /\ Return(w, FALSE)
    /\ UNCHANGED disk

Persist(w) == Begin(w) \/ Create(w) \/ Write(w) \/ Sync(w) \/ Rename(w) \/ Fail(w)

-----------------------------------------------------------------------------
Init ==
    /\ phase = "serving"
    /\ version = 0
    /\ last = 0
    /\ persisted = None
    /\ handle = [w \in Writer |-> Closed]
    /\ dir = [path |-> NoInode, tmp |-> NoInode]
    /\ file = [i \in Inode |-> <<>>]
    /\ synced = {}
    /\ recent = {NoInode}
    /\ owed = 0

Next ==
    \/ Change
    \/ Signal
    \/ Exit
    \/ Kill
    \/ PowerLoss
    \/ FlushDirectory
    \/ Start
    \/ \E w \in Writer : Persist(w)

Spec == Init /\ [][Next]_vars

-----------------------------------------------------------------------------
(***************************************************************************)
(* Properties.                                                             *)
(***************************************************************************)
Handle ==
    [pc    : {"idle", "create", "write", "rename", "done", "failed"},
     image : Version,
     inode : Inode \union {NoInode},
     at    : Nat]

(* The types of the variables.                                             *)
TypeOK ==
    /\ phase \in {"serving", "closing", "stopped", "lost"}
    /\ version \in Version
    /\ last \in Version
    /\ persisted \in Version \union {None}
    /\ handle \in [Writer -> Handle]
    /\ dir \in [path : Inode \union {NoInode}, tmp : Inode \union {NoInode}]
    /\ file \in [Inode -> Seq(Version \union {None})]
    /\ synced \subseteq Inode
    /\ recent \subseteq Inode \union {NoInode}
    /\ owed \in Version

(* "The file is written beside its target and renamed into place, so a     *)
(* crash mid-write leaves the previous snapshot intact" (store.rs:286-287):*)
(* at every moment, after a kill and after a loss of power, the file under *)
(* the snapshot's name is absent or reads back whole.                      *)
SnapshotReadable == dir.path # NoInode => readable(file[dir.path])

(* A process that runs never replaces its snapshot with an older one, so   *)
(* what a persist has reported as written (server.rs:417-421) stays        *)
(* written.                                                                *)
SnapshotNeverGoesBack ==
    [][Running /\ Running' => loaded(dir.path)' >= loaded(dir.path)]_vars

(* "SIGTERM writes a final snapshot before exiting, so nothing published   *)
(* since the last periodic write is lost" (README.md:567-568): a server    *)
(* that stopped and reported its snapshot written left at least what it    *)
(* held when the signal came.                                              *)
FinalSnapshotComplete ==
    phase = "stopped" /\ handle["shutdown"].pc = "done" => loaded(dir.path) >= owed
=============================================================================
