-------------------------- MODULE SnapshotProofs ---------------------------
(***************************************************************************)
(* Persisting is safe when the periodic and the final persist never run at *)
(* the same time, for any number of versions of any size.                  *)
(***************************************************************************)
EXTENDS Snapshot, TLAPS

(* The bytes of a version start with it, and there are some.               *)
LEMMA ImageFacts ==
    ASSUME NEW v \in Version
    PROVE  /\ image(v) \in Seq(Version)
           /\ image(v)[1] = v
           /\ readable(image(v))
<1>1. Size[v] \in Nat \ {0}
  BY SnapshotAssumption
<1> QED
  BY <1>1 DEF image, readable

(* What can be read is a version.                                          *)
LEMMA ReadableFacts ==
    ASSUME NEW cells, readable(cells)
    PROVE  cells[1] \in Version
<1>1. PICK v \in Version : cells = image(v)
  BY DEF readable
<1> QED
  BY <1>1, ImageFacts

(* Store::open always finds a version.                                     *)
LEMMA LoadedType ==
    ASSUME NEW i
    PROVE  loaded(i) \in Version
<1>1. 0 \in Version
  BY SnapshotAssumption DEF Version
<1> QED
  BY <1>1, ReadableFacts DEF loaded

(* Writing a cell leaves a sequence of cells.                              *)
LEMMA OverlayType ==
    ASSUME NEW cells \in Seq(Version \union {None}), NEW n \in Nat \ {0}, NEW v \in Version
    PROVE  overlay(cells, n, v) \in Seq(Version \union {None})
<1>1. Len(cells) \in Nat /\ \A c \in 1 .. Len(cells) : cells[c] \in Version \union {None}
  OBVIOUS
<1> DEFINE l == IF n > Len(cells) THEN n ELSE Len(cells)
<1>2. l \in Nat
  BY <1>1
<1>3. \A c \in 1 .. l : (IF c = n THEN v ELSE IF c <= Len(cells) THEN cells[c] ELSE None)
                            \in Version \union {None}
  BY <1>1
<1> HIDE DEF l
<1>4. [c \in 1 .. l |-> IF c = n THEN v ELSE IF c <= Len(cells) THEN cells[c] ELSE None]
          \in Seq(Version \union {None})
  BY <1>2, <1>3
<1> QED
  BY <1>4 DEF overlay, l

-----------------------------------------------------------------------------
(* A handle that writes has a file.                                        *)
Opened == \A w \in Writer : handle[w].pc = "write" => handle[w].inode \in Inode

(* The server starts well typed.                                           *)
LEMMA InitTypeOK == Init => TypeOK /\ Opened
<1>1. 0 \in Version /\ MaxVersion + 1 \in Nat
  BY SnapshotAssumption DEF Version
<1> QED
  BY <1>1 DEF Init, TypeOK, Opened, Closed, None, Handle

(* Every step keeps the types.                                             *)
LEMMA NextTypeOK == TypeOK /\ Opened /\ [Next]_vars => TypeOK' /\ Opened'
<1> SUFFICES ASSUME TypeOK, Opened, [Next]_vars
             PROVE  TypeOK' /\ Opened'
  OBVIOUS
<1> USE DEF process, disk, Closed, Handle
<1>0. 0 \in Version /\ None \notin Version
  BY SnapshotAssumption DEF Version, None
<1>1. CASE Change
  <2>1. last + 1 \in Version
    BY <1>1, SnapshotAssumption DEF Change, TypeOK, Version
  <2> QED
    BY <1>1, <2>1 DEF Change, TypeOK, Opened
<1>2. CASE Signal \/ Exit
  BY <1>2 DEF Signal, Exit, TypeOK, Opened
<1>3. CASE Kill
  BY <1>0, <1>3 DEF Kill, Lost, TypeOK, Opened
<1>4. CASE PowerLoss
  <2>1. file' \in [Inode -> Seq(Version \union {None})]
    BY <1>4 DEF PowerLoss, TypeOK
  <2> QED
    BY <1>0, <1>4, <2>1 DEF PowerLoss, Lost, TypeOK, Opened
<1>5. CASE FlushDirectory
  BY <1>5 DEF FlushDirectory, TypeOK, Opened
<1>6. CASE Start
  BY <1>0, <1>6, LoadedType DEF Start, TypeOK, Opened
<1>7. ASSUME NEW w \in Writer, Begin(w)
      PROVE  TypeOK' /\ Opened'
  BY <1>0, <1>7 DEF Begin, TypeOK, Opened
<1>8. ASSUME NEW w \in Writer, Create(w)
      PROVE  TypeOK' /\ Opened'
  <2> DEFINE i == IF dir.tmp # NoInode THEN dir.tmp ELSE CHOOSE j \in Inode \ InUse : TRUE
  <2>1. i \in Inode
    BY <1>8 DEF Create, TypeOK
  <2> HIDE DEF i
  <2>2. /\ dir' = [dir EXCEPT !.tmp = i]
        /\ file' = [file EXCEPT ![i] = <<>>]
        /\ synced' = synced \ {i}
        /\ handle' = [handle EXCEPT ![w].pc = "write", ![w].inode = i]
        /\ UNCHANGED <<process, recent>>
    BY <1>8 DEF Create, i
  <2>3. handle[w] \in Handle /\ handle \in [Writer -> Handle]
    BY DEF TypeOK
  <2>4. /\ handle' = [handle EXCEPT ![w] = handle'[w]]
        /\ handle'[w] \in Handle /\ handle'[w].inode = i
    BY <2>1, <2>2, <2>3
  <2>5. handle' \in [Writer -> Handle] /\ Opened'
    BY <2>1, <2>3, <2>4 DEF Opened
  <2>6. dir' \in [path : Inode \union {NoInode}, tmp : Inode \union {NoInode}]
    BY <2>1, <2>2 DEF TypeOK
  <2>7. file' \in [Inode -> Seq(Version \union {None})]
    BY <2>1, <2>2 DEF TypeOK
  <2> QED
    BY <2>2, <2>5, <2>6, <2>7 DEF TypeOK
<1>9. ASSUME NEW w \in Writer, Write(w)
      PROVE  TypeOK' /\ Opened'
  <2>1. handle[w].inode \in Inode
    BY <1>9 DEF Write, Opened
  <2>2. overlay(file[handle[w].inode], handle[w].at + 1, handle[w].image)
            \in Seq(Version \union {None})
    <3>1. /\ file[handle[w].inode] \in Seq(Version \union {None})
          /\ handle[w].at + 1 \in Nat \ {0}
          /\ handle[w].image \in Version
      BY <2>1 DEF TypeOK
    <3> QED
      BY <3>1, OverlayType
  <2>3. handle[w] \in Handle /\ handle \in [Writer -> Handle]
    BY DEF TypeOK
  <2>4. /\ handle' = [handle EXCEPT ![w] = handle'[w]]
        /\ handle'[w] \in Handle /\ handle'[w].inode = handle[w].inode
    BY <1>9, <2>3 DEF Write
  <2>5. handle' \in [Writer -> Handle] /\ Opened'
    BY <2>1, <2>3, <2>4 DEF Opened
  <2>6. file' \in [Inode -> Seq(Version \union {None})]
    BY <1>9, <2>1, <2>2 DEF Write, TypeOK
  <2> QED
    BY <1>9, <2>5, <2>6 DEF Write, TypeOK
<1>10. ASSUME NEW w \in Writer, Sync(w)
       PROVE  TypeOK' /\ Opened'
  <2>1. handle[w].inode \in Inode
    BY <1>10 DEF Sync, Opened
  <2>3. handle[w] \in Handle /\ handle \in [Writer -> Handle]
    BY DEF TypeOK
  <2>4. /\ handle' = [handle EXCEPT ![w] = handle'[w]]
        /\ handle'[w] \in Handle /\ handle'[w].pc = "rename"
    BY <1>10, <2>3 DEF Sync
  <2>5. handle' \in [Writer -> Handle] /\ Opened'
    BY <2>1, <2>3, <2>4 DEF Opened
  <2> QED
    BY <1>10, <2>1, <2>5 DEF Sync, TypeOK
<1>11. ASSUME NEW w \in Writer, Rename(w)
       PROVE  TypeOK' /\ Opened'
  BY <1>0, <1>11 DEF Rename, Return, TypeOK, Opened
<1>12. ASSUME NEW w \in Writer, Fail(w)
       PROVE  TypeOK' /\ Opened'
  BY <1>0, <1>12 DEF Fail, Return, TypeOK, Opened
<1>13. CASE UNCHANGED vars
  BY <1>13 DEF vars, TypeOK, Opened
<1> QED
  BY <1>1, <1>2, <1>3, <1>4, <1>5, <1>6, <1>7, <1>8, <1>9, <1>10, <1>11, <1>12, <1>13
     DEF Next, Persist

(* The directory, the files and the handles keep their types, whether or   *)
(* not the two persists overlap.                                           *)
THEOREM TypeCorrect == Spec => []TypeOK
<1>1. Init => TypeOK /\ Opened
  BY InitTypeOK
<1>2. TypeOK /\ Opened /\ [Next]_vars => TypeOK' /\ Opened'
  BY NextTypeOK
<1> QED
  BY <1>1, <1>2, PTL DEF Spec

-----------------------------------------------------------------------------
(***************************************************************************)
(* One persist at a time.  The file under the temporary name is then the   *)
(* writer's own and none of those the snapshot's entry may show.           *)
(***************************************************************************)
Active(w) == handle[w].pc \in {"create", "write", "rename"}

OneActive == \A w, u \in Writer : Active(w) /\ Active(u) => w = u

(* What the entry shows, now or after a loss of power, is whole and on the *)
(* medium.                                                                 *)
RecentWhole == \A p \in recent : p # NoInode => p \in synced /\ readable(file[p])

Apart == dir.path \in recent /\ (dir.tmp # NoInode => dir.tmp \notin recent)

Fresh == \A w \in Writer : handle[w].pc = "create" => handle[w].at = 0

Filling ==
    \A w \in Writer : handle[w].pc = "write" =>
        /\ dir.tmp # NoInode
        /\ handle[w].inode = dir.tmp
        /\ handle[w].at <= Size[handle[w].image]
        /\ Len(file[dir.tmp]) = handle[w].at
        /\ \A c \in 1 .. handle[w].at : file[dir.tmp][c] = handle[w].image

Filled ==
    \A w \in Writer : handle[w].pc = "rename" =>
        /\ dir.tmp # NoInode
        /\ dir.tmp \in synced
        /\ file[dir.tmp] = image(handle[w].image)

DiskInv == TypeOK /\ Opened /\ OneActive /\ RecentWhole /\ Apart /\ Fresh /\ Filling /\ Filled

(* Writing the next cell of a file that has n cells adds one.              *)
LEMMA OverlayAppends ==
    ASSUME NEW cells \in Seq(Version \union {None}), NEW v \in Version,
           NEW n \in Nat, Len(cells) = n, \A c \in 1 .. n : cells[c] = v
    PROVE  /\ Len(overlay(cells, n + 1, v)) = n + 1
           /\ \A c \in 1 .. n + 1 : overlay(cells, n + 1, v)[c] = v
<1> DEFINE o == [c \in 1 .. n + 1 |-> IF c = n + 1 THEN v ELSE IF c <= n THEN cells[c] ELSE None]
<1>1. overlay(cells, n + 1, v) = o
  BY DEF overlay
<1>2. Len(o) = n + 1
  OBVIOUS
<1>3. \A c \in 1 .. n + 1 : o[c] = v
  OBVIOUS
<1> QED
  BY <1>1, <1>2, <1>3

(* A file that has all the cells of a version holds that version.          *)
LEMMA FullIsImage ==
    ASSUME NEW cells \in Seq(Version \union {None}), NEW v \in Version,
           Len(cells) = Size[v], \A c \in 1 .. Size[v] : cells[c] = v
    PROVE  cells = image(v)
<1>1. cells = [c \in 1 .. Len(cells) |-> cells[c]]
  OBVIOUS
<1> QED
  BY <1>1 DEF image

(* Every step keeps the snapshot whole.                                    *)
LEMMA NextDiskInv ==
    ASSUME ~Overlap, DiskInv, [Next]_vars
    PROVE  DiskInv'
<1>0. TypeOK' /\ Opened'
  BY NextTypeOK DEF DiskInv
<1> USE DEF process, disk, Closed
<1>a. /\ TypeOK /\ Opened /\ OneActive /\ RecentWhole /\ Apart /\ Fresh /\ Filling /\ Filled
      /\ NoInode \notin Inode
  BY SnapshotAssumption DEF DiskInv
<1>1. CASE Change \/ Signal \/ Exit \/ UNCHANGED vars
  <2>1. UNCHANGED <<handle, disk>>
    BY <1>1 DEF Change, Signal, Exit, vars
  <2> QED
    BY <1>0, <1>a, <2>1
       DEF DiskInv, OneActive, Active, RecentWhole, Apart, Fresh, Filling, Filled,
           readable
<1>2. CASE Kill \/ Start
  <2>1. UNCHANGED disk /\ \A w \in Writer : handle'[w].pc = "idle"
    BY <1>2 DEF Kill, Start, Lost
  <2> QED
    BY <1>0, <1>a, <2>1
       DEF DiskInv, OneActive, Active, RecentWhole, Apart, Fresh, Filling, Filled,
           readable
<1>3. CASE PowerLoss
  <2>1. \A w \in Writer : handle'[w].pc = "idle"
    BY <1>3 DEF PowerLoss, Lost
  <2>2. Apart'
    BY <1>3, <1>a DEF PowerLoss, Apart
  <2>3. RecentWhole'
    <3>1. recent' \subseteq recent /\ synced' = synced
      BY <1>3 DEF PowerLoss
    <3>2. \A q \in recent : q # NoInode => file'[q] = file[q]
      BY <1>3, <1>a DEF PowerLoss, RecentWhole, TypeOK
    <3> QED
      BY <1>a, <3>1, <3>2 DEF RecentWhole, readable
  <2> QED
    BY <1>0, <2>1, <2>2, <2>3 DEF DiskInv, OneActive, Active, Fresh, Filling, Filled
<1>4. CASE FlushDirectory
  BY <1>0, <1>4, <1>a
     DEF FlushDirectory, DiskInv, OneActive, Active, RecentWhole, Apart, Fresh, Filling, Filled,
           readable
<1>5. ASSUME NEW w \in Writer, Begin(w)
      PROVE  DiskInv'
  <2>1. /\ UNCHANGED disk
        /\ handle'[w].pc = "create" /\ handle'[w].at = 0
        /\ \A u \in Writer \ {w} : handle'[u] = handle[u]
        /\ \A u \in Writer \ {w} : ~Active(u)
    BY <1>5, <1>a DEF Begin, Alone, Active, TypeOK
  <2> QED
    BY <1>0, <1>a, <2>1
       DEF DiskInv, OneActive, Active, RecentWhole, Apart, Fresh, Filling, Filled,
           readable
<1>6. ASSUME NEW w \in Writer, Create(w)
      PROVE  DiskInv'
  <2> DEFINE i == IF dir.tmp # NoInode THEN dir.tmp ELSE CHOOSE j \in Inode \ InUse : TRUE
  <2>1. i \in Inode /\ i \notin recent
    <3>1. CASE dir.tmp # NoInode
      BY <1>a, <3>1 DEF Apart, TypeOK
    <3>2. CASE dir.tmp = NoInode
      <4>1. i \in Inode \ InUse
        BY <1>6, <3>2 DEF Create
      <4> QED
        BY <4>1 DEF InUse
    <3> QED
      BY <3>1, <3>2
  <2> HIDE DEF i
  <2>2. /\ dir' = [dir EXCEPT !.tmp = i]
        /\ file' = [file EXCEPT ![i] = <<>>]
        /\ synced' = synced \ {i}
        /\ handle' = [handle EXCEPT ![w].pc = "write", ![w].inode = i]
        /\ UNCHANGED recent
    BY <1>6 DEF Create, i
  <2>3. dir'.tmp = i /\ dir'.path = dir.path
    BY <2>2, <1>a DEF TypeOK
  <2>4. file'[i] = <<>> /\ \A j \in Inode : j # i => file'[j] = file[j]
    BY <2>1, <2>2, <1>a DEF TypeOK
  <2>5. /\ handle'[w].pc = "write" /\ handle'[w].inode = i
        /\ handle'[w].at = handle[w].at /\ handle'[w].image = handle[w].image
        /\ \A u \in Writer : u # w => handle'[u] = handle[u]
    BY <2>2, <1>a DEF TypeOK, Handle
  <2>6. \A u \in Writer : u # w => ~Active(u)
    BY <1>6, <1>a DEF Create, OneActive, Active
  <2>7. handle[w].at = 0 /\ handle[w].image \in Version
    BY <1>6, <1>a DEF Create, Fresh, TypeOK, Handle
  <2>8. Size[handle[w].image] \in Nat
    BY <2>7, SnapshotAssumption
  <2>9. RecentWhole' /\ Apart'
    <3>1. \A q \in recent : q # NoInode => q # i /\ q \in Inode
      BY <2>1, <1>a DEF TypeOK
    <3> QED
      BY <3>1, <2>1, <2>2, <2>3, <2>4, <1>a DEF RecentWhole, Apart, readable
  <2>10. Filling' /\ Filled' /\ Fresh' /\ OneActive'
    BY SMTT(20), <2>1, <2>3, <2>4, <2>5, <2>6, <2>7, <2>8, <1>a
       DEF Filling, Filled, Fresh, OneActive, Active
  <2> QED
    BY <1>0, <2>9, <2>10 DEF DiskInv
<1>7. ASSUME NEW w \in Writer, Write(w)
      PROVE  DiskInv'
  <2> DEFINE i == handle[w].inode
             n == handle[w].at
             v == handle[w].image
  <2>1. /\ i = dir.tmp /\ i \in Inode /\ i \notin recent
        /\ v \in Version /\ n \in Nat /\ n < Size[v] /\ Size[v] \in Nat
        /\ file[i] \in Seq(Version \union {None})
        /\ Len(file[i]) = n /\ \A c \in 1 .. n : file[i][c] = v
    BY <1>7, <1>a, SnapshotAssumption DEF Write, Filling, Apart, TypeOK, Handle
  <2>2. /\ Len(overlay(file[i], n + 1, v)) = n + 1
        /\ \A c \in 1 .. n + 1 : overlay(file[i], n + 1, v)[c] = v
    <3> HIDE DEF i, n, v
    <3> QED
      BY <2>1, OverlayAppends, SMTT(20)
  <2>3. /\ file'[i] = overlay(file[i], n + 1, v)
        /\ \A j \in Inode : j # i => file'[j] = file[j]
        /\ synced' = synced \ {i}
        /\ UNCHANGED <<dir, recent>>
    BY <1>7, <1>a, <2>1 DEF Write, TypeOK
  <2>4. /\ handle'[w].pc = "write" /\ handle'[w].inode = i
        /\ handle'[w].at = n + 1 /\ handle'[w].image = v
        /\ \A u \in Writer : u # w => handle'[u] = handle[u]
    BY <1>7, <1>a DEF Write, TypeOK, Handle
  <2>5. \A u \in Writer : u # w => ~Active(u)
    BY <1>7, <1>a DEF Write, OneActive, Active
  <2> HIDE DEF i, n, v
  <2>6. RecentWhole' /\ Apart'
    <3>1. \A q \in recent : q # NoInode => q # i /\ q \in Inode
      BY <2>1, <1>a DEF TypeOK
    <3> QED
      BY <3>1, <2>3, <1>a DEF RecentWhole, Apart, readable
  <2>7. \A u \in Writer : u # w => handle'[u].pc \notin {"create", "write", "rename"}
    BY <2>4, <2>5 DEF Active
  <2>8. Filling'
    <3>1. /\ dir'.tmp = i /\ i # NoInode /\ n + 1 <= Size[v]
          /\ Len(file'[i]) = n + 1 /\ \A c \in 1 .. n + 1 : file'[i][c] = v
      BY <2>1, <2>2, <2>3, SnapshotAssumption
    <3> QED
      BY <3>1, <2>4, <2>7 DEF Filling
  <2>9. Filled' /\ Fresh' /\ OneActive'
    BY <2>4, <2>7 DEF Filled, Fresh, OneActive, Active
  <2> QED
    BY <1>0, <2>6, <2>8, <2>9 DEF DiskInv
<1>8. ASSUME NEW w \in Writer, Sync(w)
      PROVE  DiskInv'
  <2> DEFINE i == handle[w].inode
             v == handle[w].image
  <2>1. /\ i = dir.tmp /\ i \in Inode
        /\ v \in Version
        /\ file[i] \in Seq(Version \union {None})
        /\ Len(file[i]) = Size[v] /\ \A c \in 1 .. Size[v] : file[i][c] = v
    BY <1>8, <1>a DEF Sync, Filling, Apart, TypeOK, Handle
  <2>2. file[i] = image(v)
    <3> HIDE DEF i, v
    <3> QED
      BY <2>1, FullIsImage
  <2>3. synced' = synced \union {i} /\ UNCHANGED <<dir, file, recent>>
    BY <1>8 DEF Sync
  <2>4. /\ handle'[w].pc = "rename" /\ handle'[w].image = v
        /\ \A u \in Writer : u # w => handle'[u] = handle[u]
    BY <1>8, <1>a DEF Sync, TypeOK, Handle
  <2>5. \A u \in Writer : u # w => ~Active(u)
    BY <1>8, <1>a DEF Sync, OneActive, Active
  <2> HIDE DEF i, v
  <2>6. RecentWhole' /\ Apart'
    BY <2>3, <1>a DEF RecentWhole, Apart, readable
  <2>7. file'[dir'.tmp] = image(handle[w].image)'
    <3>1. file'[dir'.tmp] = image(v)
      BY <2>1, <2>2, <2>3
    <3>2. image(handle[w].image)' = image(v)
      BY <2>4 DEF image
    <3> QED
      BY <3>1, <3>2
  <2>8. Filled'
    BY <2>1, <2>3, <2>4, <2>5, <2>7, <1>a DEF Filled, Active
  <2>9. Filling' /\ Fresh' /\ OneActive'
    BY <2>4, <2>5 DEF Filling, Fresh, OneActive, Active
  <2> QED
    BY <1>0, <2>6, <2>8, <2>9 DEF DiskInv
<1>9. ASSUME NEW w \in Writer, Rename(w)
      PROVE  DiskInv'
  <2> DEFINE i == dir.tmp
             v == handle[w].image
  <2>1. i \in synced /\ i # NoInode /\ file[i] = image(v) /\ v \in Version
    BY <1>9, <1>a DEF Rename, Filled, TypeOK, Handle
  <2>2. dir' = [path |-> i, tmp |-> NoInode] /\ recent' = recent \union {i}
        /\ UNCHANGED <<file, synced>>
    BY <1>9 DEF Rename
  <2>3. /\ ~Active(w)'
        /\ \A u \in Writer : u # w => handle'[u] = handle[u]
    BY <1>9, <1>a DEF Rename, Return, TypeOK, Active
  <2>4. \A u \in Writer : u # w => ~Active(u)
    BY <1>9, <1>a DEF Rename, OneActive, Active
  <2> HIDE DEF i, v
  <2>5. readable(file[i])
    BY <2>1, ImageFacts
  <2>6. RecentWhole' /\ Apart'
    BY <2>1, <2>2, <2>5, <1>a DEF RecentWhole, Apart, readable
  <2>7. Filling' /\ Filled' /\ Fresh' /\ OneActive'
    BY <2>3, <2>4 DEF Filling, Filled, Fresh, OneActive, Active
  <2> QED
    BY <1>0, <2>6, <2>7 DEF DiskInv
<1>10. ASSUME NEW w \in Writer, Fail(w)
       PROVE  DiskInv'
  <2>1. /\ ~Active(w)' /\ UNCHANGED disk
        /\ \A u \in Writer : u # w => handle'[u] = handle[u]
    BY <1>10, <1>a DEF Fail, Return, TypeOK, Active
  <2>2. \A u \in Writer : u # w => ~Active(u)
    BY <1>10, <1>a DEF Fail, OneActive, Active
  <2> QED
    BY <1>0, <1>a, <2>1, <2>2
       DEF DiskInv, OneActive, Active, RecentWhole, Apart, Fresh, Filling, Filled, readable
<1> QED
  BY <1>1, <1>2, <1>3, <1>4, <1>5, <1>6, <1>7, <1>8, <1>9, <1>10 DEF Next, Persist

(* The server starts with a whole snapshot: none.                          *)
LEMMA InitDiskInv == Init => DiskInv
<1> SUFFICES ASSUME Init PROVE DiskInv
  OBVIOUS
<1>1. TypeOK /\ Opened
  BY InitTypeOK
<1> QED
  BY <1>1 DEF Init, DiskInv, OneActive, Active, RecentWhole, Apart, Fresh, Filling, Filled, Closed

(* "A crash mid-write leaves the previous snapshot intact" (store.rs:286-  *)
(* 287), as long as the two persists do not overlap: whatever the versions *)
(* and their sizes, the snapshot is absent or reads back whole.            *)
THEOREM CrashSafe == ASSUME ~Overlap PROVE Spec => []SnapshotReadable
<1>1. Init => DiskInv
  BY InitDiskInv
<1>2. DiskInv /\ [Next]_vars => DiskInv'
  BY NextDiskInv
<1>3. DiskInv => SnapshotReadable
  BY DEF DiskInv, Apart, RecentWhole, SnapshotReadable
<1> QED
  BY <1>1, <1>2, <1>3, PTL DEF Spec

-----------------------------------------------------------------------------
(***************************************************************************)
(* What is on disk never gets ahead of the process, nor a persist behind   *)
(* the disk.                                                               *)
(***************************************************************************)
Behind ==
    /\ version <= last
    /\ Running => loaded(dir.path) <= version
    /\ \A p \in recent : loaded(p) <= last
    /\ \A w \in Writer : Active(w) =>
          loaded(dir.path) <= handle[w].image /\ handle[w].image <= version

Owing ==
    /\ phase = "serving" => handle["shutdown"].pc = "idle"
    /\ phase = "closing" => owed <= version
    /\ Active("shutdown") => owed <= handle["shutdown"].image
    /\ handle["shutdown"].pc = "done" => owed <= loaded(dir.path)

ProgressInv == DiskInv /\ Behind /\ Owing

(* No step changes a file that the snapshot's entry may show.              *)
LEMMA RecentKept ==
    ASSUME ~Overlap, DiskInv, [Next]_vars, NEW p \in recent
    PROVE  loaded(p)' = loaded(p)
<1> USE DEF process, disk
<1>a. /\ TypeOK /\ Opened /\ RecentWhole /\ Apart /\ Filling
      /\ NoInode \notin Inode
  BY SnapshotAssumption DEF DiskInv
<1> SUFFICES ASSUME p # NoInode
             PROVE  file'[p] = file[p]
  BY DEF loaded, readable
<1>b. p \in Inode
  BY <1>a DEF TypeOK
<1>1. CASE PowerLoss
  BY <1>1, <1>a, <1>b DEF PowerLoss, RecentWhole
<1>2. ASSUME NEW w \in Writer, Create(w)
      PROVE  file'[p] = file[p]
  <2> DEFINE i == IF dir.tmp # NoInode THEN dir.tmp ELSE CHOOSE j \in Inode \ InUse : TRUE
  <2>1. CASE dir.tmp # NoInode
    BY <1>2, <2>1, <1>a, <1>b DEF Create, Apart, TypeOK
  <2>2. CASE dir.tmp = NoInode
    <3>1. i \in Inode \ InUse
      BY <1>2, <2>2 DEF Create
    <3>2. file' = [file EXCEPT ![i] = <<>>]
      BY <1>2 DEF Create
    <3> HIDE DEF i
    <3>3. i # p
      BY <3>1 DEF InUse
    <3> QED
      BY <3>2, <3>3, <1>a, <1>b DEF TypeOK
  <2> QED
    BY <2>1, <2>2
<1>3. ASSUME NEW w \in Writer, Write(w)
      PROVE  file'[p] = file[p]
  BY <1>3, <1>a, <1>b DEF Write, Filling, Apart, TypeOK
<1>4. ASSUME NEW w \in Writer, Begin(w) \/ Sync(w) \/ Rename(w) \/ Fail(w)
      PROVE  file'[p] = file[p]
  BY <1>4 DEF Begin, Sync, Rename, Fail
<1>5. CASE Change \/ Signal \/ Exit \/ Kill \/ FlushDirectory \/ Start \/ UNCHANGED vars
  BY <1>5 DEF Change, Signal, Exit, Kill, FlushDirectory, Start, vars
<1> QED
  BY <1>1, <1>2, <1>3, <1>4, <1>5 DEF Next, Persist

(* Every step keeps the disk behind the process.                           *)
LEMMA NextProgressInv ==
    ASSUME ~Overlap, ProgressInv, [Next]_vars
    PROVE  ProgressInv'
<1>0. DiskInv' /\ DiskInv /\ TypeOK /\ TypeOK' /\ Apart /\ Behind /\ Owing
  BY NextDiskInv DEF ProgressInv, DiskInv
<1>a. \A q \in recent : loaded(q)' = loaded(q)
  BY <1>0, RecentKept
<1>b. /\ version \in Nat /\ last \in Nat /\ owed \in Nat
      /\ \A w \in Writer : handle[w] \in Handle /\ handle[w].image \in Nat
      /\ \A q : loaded(q) \in Nat
  <2>1. \A v \in Version : v \in Nat
    BY SnapshotAssumption DEF Version
  <2> QED
    BY <2>1, <1>0, LoadedType DEF TypeOK, Handle
<1>c. dir.path \in recent /\ "shutdown" \in Writer
  BY <1>0 DEF Apart, Writer
<1> USE DEF process, disk, Closed
<1>1. CASE Change \/ Signal \/ Exit \/ UNCHANGED vars
  <2>1. UNCHANGED <<handle, disk>> /\ loaded(dir.path)' = loaded(dir.path)
    BY <1>1, <1>a, <1>c DEF Change, Signal, Exit, vars
  <2>2. CASE Change
    <3>1. version' = last + 1 /\ last' = last + 1 /\ UNCHANGED <<phase, owed>>
      BY <2>2 DEF Change
    <3> QED
      BY SMTT(20), <1>0, <1>a, <1>b, <1>c, <2>1, <3>1 DEF ProgressInv, Behind, Owing, Active, Running
  <2>3. CASE Signal
    BY SMTT(20), <1>0, <1>a, <1>b, <1>c, <2>1, <2>3
       DEF Signal, ProgressInv, Behind, Owing, Active, Running
  <2>4. CASE Exit
    BY <1>0, <1>a, <1>b, <1>c, <2>1, <2>4
       DEF Exit, ProgressInv, Behind, Owing, Active, Running
  <2>5. CASE UNCHANGED vars
    BY <1>0, <1>a, <1>b, <1>c, <2>1, <2>5
       DEF vars, ProgressInv, Behind, Owing, Active, Running
  <2> QED
    BY <1>1, <2>2, <2>3, <2>4, <2>5
<1>2. CASE Kill \/ PowerLoss
  <2>1. /\ phase' = "lost" /\ version' = version /\ last' = last
        /\ recent' \subseteq recent
        /\ \A w \in Writer : handle'[w].pc = "idle"
    BY <1>2 DEF Kill, PowerLoss, Lost
  <2> QED
    BY <1>0, <1>a, <1>b, <1>c, <2>1 DEF ProgressInv, Behind, Owing, Active, Running
<1>3. CASE Start
  <2>1. /\ phase' = "serving" /\ version' = loaded(dir.path) /\ UNCHANGED <<last, disk>>
        /\ \A w \in Writer : handle'[w].pc = "idle"
    BY <1>3 DEF Start
  <2>2. loaded(dir.path)' = loaded(dir.path)
    BY <2>1, <1>a, <1>c
  <2> QED
    BY <1>0, <1>a, <1>b, <1>c, <2>1, <2>2 DEF ProgressInv, Behind, Owing, Active, Running
<1>4. CASE FlushDirectory
  <2>1. /\ recent' \subseteq recent /\ UNCHANGED <<process, handle, dir>>
        /\ loaded(dir.path)' = loaded(dir.path)
    BY <1>4, <1>a, <1>c DEF FlushDirectory
  <2> QED
    BY <1>0, <1>a, <1>b, <1>c, <2>1 DEF ProgressInv, Behind, Owing, Active, Running
<1>5. ASSUME NEW w \in Writer, Begin(w)
      PROVE  ProgressInv'
  <2>1. /\ UNCHANGED <<process, disk>> /\ Running
        /\ w = "shutdown" => phase = "closing"
        /\ handle'[w].pc = "create" /\ handle'[w].image = version
        /\ \A u \in Writer : u # w => handle'[u] = handle[u]
    BY <1>5, <1>0 DEF Begin, TypeOK
  <2>2. loaded(dir.path)' = loaded(dir.path)
    BY <2>1, <1>a, <1>c
  <2> QED
    BY SMTT(20), <1>0, <1>a, <1>b, <1>c, <2>1, <2>2 DEF ProgressInv, Behind, Owing, Active, Running
<1>6. ASSUME NEW w \in Writer, Create(w) \/ Write(w) \/ Sync(w)
      PROVE  ProgressInv'
  <2>1. /\ UNCHANGED <<process, recent>> /\ dir'.path = dir.path
        /\ Active(w) /\ Active(w)' /\ handle'[w].image = handle[w].image
        /\ \A u \in Writer : u # w => handle'[u] = handle[u]
    <3>1. CASE Create(w)
      BY <3>1, <1>0 DEF Create, TypeOK, Handle, Active
    <3>2. CASE Write(w)
      BY <3>2, <1>0 DEF Write, TypeOK, Handle, Active
    <3>3. CASE Sync(w)
      BY <3>3, <1>0 DEF Sync, TypeOK, Handle, Active
    <3> QED
      BY <1>6, <3>1, <3>2, <3>3
  <2>2. loaded(dir.path)' = loaded(dir.path)
    BY <2>1, <1>a, <1>c DEF loaded
  <2>3. handle'[w].pc # "done" /\ (w = "shutdown" => phase # "serving")
    BY <2>1, <1>0 DEF Active, Owing
  <2> QED
    BY <1>0, <1>a, <1>b, <1>c, <2>1, <2>2, <2>3 DEF ProgressInv, Behind, Owing, Active, Running

<1>7. ASSUME NEW w \in Writer, Rename(w)
      PROVE  ProgressInv'
  <2>1. /\ UNCHANGED <<phase, version, last, owed, file>>
        /\ dir'.path = dir.tmp /\ recent' = recent \union {dir.tmp}
        /\ ~Active(w)' /\ handle'[w].pc \in {"idle", "done"}
        /\ handle'[w].pc = "done" => w = "shutdown"
        /\ \A u \in Writer : u # w => handle'[u] = handle[u]
    BY <1>7, <1>0 DEF Rename, Return, TypeOK, Active, Writer
  <2>2. /\ dir.tmp # NoInode /\ file[dir.tmp] = image(handle[w].image)
        /\ handle[w].image \in Version
    BY <1>7, <1>0 DEF Rename, DiskInv, Filled, TypeOK, Handle
  <2>3. loaded(dir.tmp) = handle[w].image
    BY <2>2, ImageFacts DEF loaded
  <2>5. loaded(dir.path)' = handle[w].image
    BY <2>1, <2>3 DEF loaded, readable
  <2>6. \A q \in recent' : loaded(q)' <= last
    <3>1. \A q \in recent : loaded(q)' <= last
      BY <1>0, <1>a DEF Behind
    <3>2. handle[w].image <= last
      BY <1>7, <1>0, <1>b DEF Rename, Behind, Active
    <3>3. \A q : q = dir.tmp => loaded(q)' = handle[w].image
      BY <2>1, <2>3 DEF loaded, readable
    <3> QED
      BY <2>1, <3>1, <3>2, <3>3
  <2>7. Active(w) /\ \A u \in Writer : u # w => ~Active(u) /\ ~Active(u)'
    BY <1>7, <1>0, <2>1 DEF Rename, DiskInv, OneActive, Active
  <2>8. Behind'
    BY <1>0, <1>b, <2>1, <2>5, <2>6, <2>7 DEF Behind, Running
  <2>9. Owing'
    <3>1. CASE w = "shutdown"
      BY <3>1, <1>0, <1>b, <1>c, <2>1, <2>5, <2>7 DEF Owing, Active
    <3>2. CASE w # "shutdown"
      <4>1. loaded(dir.path) <= loaded(dir.path)'
        BY <1>0, <2>5, <2>7 DEF Behind
      <4> QED
        BY <3>2, <4>1, <1>0, <1>b, <1>c, <2>1, <2>5, <2>7 DEF Owing, Active
    <3> QED
      BY <3>1, <3>2
  <2> QED
    BY <1>0, <2>8, <2>9 DEF ProgressInv
<1>8. ASSUME NEW w \in Writer, Fail(w)
      PROVE  ProgressInv'
  <2>1. /\ UNCHANGED <<phase, version, last, owed, disk>>
        /\ ~Active(w)' /\ handle'[w].pc \in {"idle", "failed"}
        /\ w = "shutdown" => phase # "serving"
        /\ \A u \in Writer : u # w => handle'[u] = handle[u]
    BY <1>8, <1>0 DEF Fail, Return, TypeOK, Active, Owing
  <2>2. loaded(dir.path)' = loaded(dir.path)
    BY <2>1, <1>a, <1>c
  <2> QED
    BY <1>0, <1>a, <1>b, <1>c, <2>1, <2>2 DEF ProgressInv, Behind, Owing, Active, Running
<1> QED
  BY <1>1, <1>2, <1>3, <1>4, <1>5, <1>6, <1>7, <1>8 DEF Next, Persist

(* Nothing is owed at the start.                                           *)
LEMMA InitProgressInv == Init => ProgressInv
<1> SUFFICES ASSUME Init PROVE ProgressInv
  OBVIOUS
<1>1. DiskInv
  BY InitDiskInv
<1>2. loaded(NoInode) = 0
  BY DEF loaded
<1> QED
  BY <1>1, <1>2 DEF Init, ProgressInv, Behind, Owing, Active, Closed, Writer, Running

(* "SIGTERM writes a final snapshot before exiting, so nothing published   *)
(* since the last periodic write is lost" (README.md:567-568) holds of     *)
(* Store::persist when the periodic persist is not running at the time.    *)
THEOREM FinalSnapshot == ASSUME ~Overlap PROVE Spec => []FinalSnapshotComplete
<1>1. Init => ProgressInv
  BY InitProgressInv
<1>2. ProgressInv /\ [Next]_vars => ProgressInv'
  BY NextProgressInv
<1>3. ProgressInv => FinalSnapshotComplete
  <2>1. loaded(dir.path) \in Nat /\ (ProgressInv => owed \in Nat)
    BY LoadedType, SnapshotAssumption DEF Version, ProgressInv, DiskInv, TypeOK
  <2> QED
    BY <2>1 DEF ProgressInv, Owing, FinalSnapshotComplete
<1> QED
  BY <1>1, <1>2, <1>3, PTL DEF Spec

(* What a persist has written stays written (server.rs:417-421): a running *)
(* server never replaces its snapshot with an older one.                   *)
THEOREM NeverBack == ASSUME ~Overlap PROVE Spec => SnapshotNeverGoesBack
<1>1. Init => ProgressInv
  BY InitProgressInv
<1>2. ProgressInv /\ [Next]_vars => ProgressInv'
  BY NextProgressInv
<1>3. ProgressInv /\ [Next]_vars =>
          [Running /\ Running' => loaded(dir.path)' >= loaded(dir.path)]_vars
  <2> SUFFICES ASSUME ProgressInv, [Next]_vars, Running, Running'
               PROVE  loaded(dir.path)' >= loaded(dir.path)
    OBVIOUS
  <2>0. /\ DiskInv /\ Behind /\ TypeOK /\ dir.path \in recent
        /\ loaded(dir.path) \in Nat
    BY LoadedType, SnapshotAssumption DEF ProgressInv, DiskInv, Apart, Version
  <2>1. ASSUME dir'.path = dir.path
        PROVE  loaded(dir.path)' >= loaded(dir.path)
    <3>1. \A q \in recent : loaded(q)' = loaded(q)
      BY <2>0, RecentKept
    <3>2. loaded(dir.path)' = loaded(dir.path)
      BY <2>0, <2>1, <3>1 DEF loaded
    <3> QED
      BY <2>0, <3>2
  <2>2. ASSUME NEW w \in Writer, Rename(w)
        PROVE  loaded(dir.path)' >= loaded(dir.path)
    <3>1. /\ dir'.path = dir.tmp /\ file' = file /\ dir.tmp # NoInode
          /\ file[dir.tmp] = image(handle[w].image) /\ handle[w].image \in Version
      BY <2>0, <2>2 DEF Rename, DiskInv, Filled, TypeOK, Handle
    <3>2. loaded(dir.tmp) = handle[w].image
      BY <3>1, ImageFacts DEF loaded
    <3>3. loaded(dir.path)' = handle[w].image
      BY <3>1, <3>2 DEF loaded, readable
    <3>4. loaded(dir.path) <= handle[w].image /\ handle[w].image \in Nat
      BY <2>0, <2>2, <3>1, SnapshotAssumption DEF Behind, Active, Rename, Version
    <3> QED
      BY <2>0, <3>3, <3>4
  <2>3. ASSUME NEW w \in Writer, Create(w)
        PROVE  dir'.path = dir.path
    BY <2>0, <2>3 DEF Create, TypeOK
  <2>4. ASSUME NEW w \in Writer, Begin(w) \/ Write(w) \/ Sync(w) \/ Fail(w)
        PROVE  dir'.path = dir.path
    BY <2>4 DEF Begin, Write, Sync, Fail, disk
  <2>5. CASE Change \/ Signal \/ Exit \/ FlushDirectory \/ Start \/ UNCHANGED vars
    <3>1. dir'.path = dir.path
      BY <2>5 DEF Change, Signal, Exit, FlushDirectory, Start, disk, vars
    <3> QED
      BY <3>1, <2>1
  <2>6. ~Kill /\ ~PowerLoss
    BY DEF Kill, PowerLoss, Lost, Running
  <2> QED
    BY <2>1, <2>2, <2>3, <2>4, <2>5, <2>6 DEF Next, Persist
<1> QED
  BY <1>1, <1>2, <1>3, PTL DEF Spec, SnapshotNeverGoesBack
=============================================================================
