---------------------------- MODULE RetireProofs ----------------------------
(***************************************************************************)
(* What a revoke --all that ends well has done, proved for any number of   *)
(* servers, keys and invocations of the command line.                      *)
(***************************************************************************)
EXTENDS Retire, FiniteSetTheorems, TLAPS

Kind == Unexpired \union {"none"}

Invocation ==
    [pc : {"idle", "confirm", "publish", "ok", "failed"}, kind : Terminal, all : BOOLEAN,
     todo : SUBSET Key, current : Key \union {None}, at : Nat, accepted : BOOLEAN,
     alive : SUBSET Key, whole : BOOLEAN]

Types ==
    /\ rec \in [Server -> [Key -> Kind]]
    /\ cmd \in [Command -> Invocation]

(* The keys some server holds as revoked.                                  *)
Revoked == {k \in Key : \E s \in Server : rec[s][k] = "revoked"}

(* Where a revoke --all stands when the keys of R are revoked: each key    *)
(* that was alive at the listing server is still to do, in hand, or in R,  *)
(* and the one in hand is in R once a server said so.                      *)
Accounted(f, R) ==
    /\ f.all => f.kind = "revoked"
    /\ f.pc = "publish" => f.current \in Key
    /\ (f.pc = "publish" /\ f.all /\ f.accepted) => f.current \in R
    /\ f.pc = "ok" => f.todo = {}
    /\ (f.all /\ f.whole) =>
          \A k \in f.alive :
              k \in f.todo \/ (f.pc = "publish" /\ k = f.current) \/ k \in R

RetireInv == Types /\ \A c \in Command : Accounted(cmd[c], Revoked)

-----------------------------------------------------------------------------
(* A listing that fits the limit is not cut (store.rs identity_records):   *)
(* fewer than all of its keys come before any of them.                     *)
LEMMA WholeListing ==
    ASSUME NEW s \in Server, Cardinality(unexpired(s)) <= Limit
    PROVE  identity_records(s) = unexpired(s)
<1> DEFINE U == unexpired(s)
<1>1. U \subseteq Key /\ IsFiniteSet(U) /\ Cardinality(U) \in Nat
  BY FS_Subset, FS_CardinalityType, RetireAssumption DEF unexpired
<1>2. ASSUME NEW k \in U
      PROVE  Cardinality({j \in U : j < k}) < Limit
  <2> DEFINE B == {j \in U : j < k}
  <2>1. B \in SUBSET U /\ k \notin B /\ k \in U
    <3>1. k \in Nat
      BY <1>1, <1>2, RetireAssumption
    <3>2. ~(k < k)
      BY <3>1
    <3> QED
      BY <1>2, <3>2
  <2>2. B # U
    BY <2>1
  <2>3. Cardinality(B) <= Cardinality(U) /\ Cardinality(U) # Cardinality(B)
    BY <1>1, <2>1, <2>2, FS_Subset
  <2>4. Cardinality(B) \in Nat
    BY <1>1, <2>1, FS_Subset, FS_CardinalityType
  <2> HIDE DEF B, U
  <2> QED
    BY <1>1, <2>3, <2>4, RetireAssumption DEF B, U
<1> QED
  BY <1>2 DEF identity_records

(* The next of a set of keys is one of them.                               *)
LEMMA NextIsOneOfThem ==
    ASSUME NEW S \in SUBSET Key, S # {}
    PROVE  Min(S) \in S
<1> DEFINE R == {p \in Nat \X Nat : p[1] < p[2]}
<1>1. S \subseteq Nat
  BY RetireAssumption
<1>2. \E x \in S : \A y \in S : ~ (<<y, x>> \in R)
  <2>1. IsWellFoundedOn(R, Nat)
    BY NatLessThanWellFounded DEF OpToRel
  <2> HIDE DEF R
  <2> QED
    BY <1>1, <2>1, WFMin
<1>3. PICK x \in S : \A y \in S : ~ (<<y, x>> \in R)
  BY <1>2
<1>4. ASSUME NEW y \in S
      PROVE  x =< y
  <2>1. x \in Nat /\ y \in Nat /\ ~(<<y, x>> \in R)
    BY <1>1, <1>3
  <2>2. ~(y < x)
    BY <2>1
  <2> QED
    BY <2>1, <2>2
<1> QED
  BY <1>4 DEF Min

(* Taking the next key keeps every key accounted for, given that the one   *)
(* in hand is done (main.rs, the loop of revoke).                          *)
LEMMA TakeAccounts ==
    ASSUME NEW f \in Invocation, NEW R,
           f.all => f.kind = "revoked",
           (f.all /\ f.whole) => \A k \in f.alive : k \in f.todo \/ k \in R
    PROVE  Take(f) \in Invocation /\ Accounted(Take(f), R)
<1>1. CASE f.todo = {}
  <2>1. Take(f) = [f EXCEPT !.pc = "ok"]
    BY <1>1 DEF Take
  <2> QED
    BY <1>1, <2>1 DEF Invocation, Accounted
<1>2. CASE f.todo # {}
  <2> DEFINE k == Min(f.todo)
             left == f.todo \ {k}
  <2>1. k \in f.todo /\ k \in Key /\ left \in SUBSET Key
    BY <1>2, NextIsOneOfThem DEF Invocation
  <2>2. Take(f) = [f EXCEPT !.pc = "publish", !.current = k, !.todo = left,
                            !.at = 1, !.accepted = FALSE]
    BY <1>2 DEF Take
  <2>3. \A j \in f.todo : j = k \/ j \in left
    OBVIOUS
  <2> HIDE DEF k, left
  <2>4. Take(f) \in Invocation
    <3> DEFINE g == [f EXCEPT !.pc = "publish", !.current = k]
               h == [g EXCEPT !.todo = left, !.at = 1]
    <3>1. g \in Invocation
      BY <2>1 DEF Invocation
    <3> HIDE DEF g
    <3>2. h \in Invocation
      BY <2>1, <3>1 DEF Invocation
    <3> HIDE DEF h
    <3>3. [h EXCEPT !.accepted = FALSE] \in Invocation
      BY <3>2 DEF Invocation
    <3> QED
      BY <2>2, <3>3 DEF g, h
  <2>5. Accounted(Take(f), R)
    BY <2>1, <2>2, <2>3 DEF Invocation, Accounted
  <2> QED
    BY <2>4, <2>5
<1> QED
  BY <1>1, <1>2

(* More revoked keys leave every invocation accounted for.                 *)
LEMMA MoreRevoked ==
    ASSUME NEW f \in Invocation, NEW R, NEW Q, R \subseteq Q, Accounted(f, R)
    PROVE  Accounted(f, Q)
  BY DEF Accounted

(* Nothing un-revokes a key (store.rs put): a record is written only where *)
(* there is no tombstone.                                                  *)
LEMMA RevokedStays ==
    ASSUME Types, NEW s \in Server, NEW k \in Key, NEW r \in Kind,
           rec[s][k] \notin Terminal, rec' = [rec EXCEPT ![s][k] = r]
    PROVE  /\ rec' \in [Server -> [Key -> Kind]]
           /\ Revoked \subseteq Revoked'
           /\ r = "revoked" => k \in Revoked'
<1>1. rec' \in [Server -> [Key -> Kind]] /\ rec'[s][k] = r
  BY DEF Types
<1>2. ASSUME NEW j \in Key, NEW t \in Server, rec[t][j] = "revoked"
      PROVE  rec'[t][j] = "revoked"
  BY <1>2 DEF Types, Terminal
<1> QED
  BY <1>1, <1>2 DEF Revoked

(* A step of one invocation leaves the others accounted for.               *)
LEMMA OneMoves ==
    ASSUME RetireInv, NEW c \in Command, NEW f \in Invocation,
           rec' \in [Server -> [Key -> Kind]], Revoked \subseteq Revoked',
           cmd' = [cmd EXCEPT ![c] = f], Accounted(f, Revoked')
    PROVE  RetireInv'
<1>1. cmd' \in [Command -> Invocation] /\ cmd'[c] = f
  BY DEF RetireInv, Types
<1>2. ASSUME NEW d \in Command
      PROVE  Accounted(cmd'[d], Revoked')
  <2>1. CASE d = c
    BY <1>1, <2>1
  <2>2. CASE d # c
    <3>1. cmd'[d] = cmd[d] /\ cmd[d] \in Invocation /\ Accounted(cmd[d], Revoked)
      BY <2>2 DEF RetireInv, Types
    <3> QED
      BY <3>1, MoreRevoked
  <2> QED
    BY <2>1, <2>2
<1> QED
  BY <1>1, <1>2 DEF RetireInv, Types

(* An invocation that has not started, or has failed, has nothing to       *)
(* account for.                                                            *)
LEMMA NothingDone ==
    /\ Unstarted \in Invocation /\ \A R : Accounted(Unstarted, R)
    /\ Failed \in Invocation /\ \A R : Accounted(Failed, R)
  BY DEF Unstarted, Failed, Invocation, Accounted, Terminal

-----------------------------------------------------------------------------
(* A whole listing that verifies has every living key still to do          *)
(* (resolver.rs lookup_identity, main.rs revoke).                          *)
LEMMA ListingAccounts ==
    ASSUME RetireInv, NEW c \in Command, NEW s \in Server, RevokeAll(c, s)
    PROVE  RetireInv'
<1> DEFINE todo == {k \in identity_records(s) : rec[s][k] = "live"}
           alive == {k \in unexpired(s) : rec[s][k] \notin Terminal}
           whole == Cardinality(unexpired(s)) <= Limit
           f == [Unstarted EXCEPT !.pc = "confirm", !.all = TRUE, !.todo = todo,
                                  !.alive = alive, !.whole = whole]
<1>1. cmd' = [cmd EXCEPT ![c] = f] /\ rec' = rec /\ verified(s)
  BY DEF RevokeAll, Listed, Set
<1>2. todo \in SUBSET Key /\ alive \in SUBSET Key /\ whole \in BOOLEAN
  BY DEF identity_records, unexpired
<1>3. whole => alive \subseteq todo
  <2>1. SUFFICES ASSUME whole, NEW k \in alive
                 PROVE  k \in identity_records(s) /\ rec[s][k] = "live"
    OBVIOUS
  <2>2. k \in identity_records(s) /\ rec[s][k] \in Unexpired /\ rec[s][k] \notin Terminal
    BY <2>1, WholeListing DEF unexpired
  <2> QED
    BY <1>1, <2>2 DEF verified, Unexpired
<1> HIDE DEF todo, alive, whole
<1>4. f \in Invocation
  <2> DEFINE g == [Unstarted EXCEPT !.pc = "confirm", !.all = TRUE]
             h == [g EXCEPT !.todo = todo, !.alive = alive]
  <2>1. g \in Invocation
    BY NothingDone DEF Invocation
  <2> HIDE DEF g
  <2>2. h \in Invocation
    BY <1>2, <2>1 DEF Invocation
  <2> HIDE DEF h
  <2>3. [h EXCEPT !.whole = whole] \in Invocation
    BY <1>2, <2>2 DEF Invocation
  <2> QED
    BY <2>3 DEF g, h
<1>5. Accounted(f, Revoked')
  BY <1>3 DEF Accounted, Unstarted
<1> HIDE DEF f
<1>6. rec' \in [Server -> [Key -> Kind]] /\ Revoked \subseteq Revoked'
  BY <1>1 DEF RetireInv, Types, Revoked
<1> QED
  BY <1>1, <1>4, <1>5, <1>6, OneMoves

(* What nodes, replication and time do to the servers' records.            *)
LEMMA NetworkAccounts ==
    ASSUME RetireInv, Network
    PROVE  RetireInv'
<1>1. PICK s \in Server, k \in Key :
        \/ Refresh(s, k)
        \/ Lapse(s, k)
        \/ \E t \in Server \ {s} : Replicate(s, t, k)
  BY DEF Network
<1>2. \E t \in Server, r \in Kind :
        rec[t][k] \notin Terminal /\ rec' = [rec EXCEPT ![t][k] = r]
  <2>1. CASE Refresh(s, k)
    BY <2>1 DEF Refresh, put, Kind, Unexpired
  <2>2. CASE Lapse(s, k)
    BY <2>2 DEF Lapse, Kind, Unexpired, Terminal
  <2>3. CASE \E t \in Server \ {s} : Replicate(s, t, k)
    BY <2>3 DEF Replicate, put, Kind, Unexpired
  <2> QED
    BY <1>1, <2>1, <2>2, <2>3
<1>3. cmd' = cmd
  BY <1>1 DEF Refresh, Lapse, Replicate
<1>4. rec' \in [Server -> [Key -> Kind]] /\ Revoked \subseteq Revoked'
  BY <1>2, RevokedStays DEF RetireInv
<1>5. ASSUME NEW c \in Command
      PROVE  Accounted(cmd'[c], Revoked')
  <2>1. cmd'[c] \in Invocation /\ Accounted(cmd'[c], Revoked)
    BY <1>3 DEF RetireInv, Types
  <2> QED
    BY <1>4, <2>1, MoreRevoked
<1> QED
  BY <1>3, <1>4, <1>5 DEF RetireInv, Types

(* One server's part of a publish (resolver.rs publish): what is said to   *)
(* be accepted is stored.                                                  *)
LEMMA OfferAccounts ==
    ASSUME RetireInv, NEW c \in Command,
           Accepted(c) \/ AcceptedUnheard(c) \/ Rejected(c)
    PROVE  RetireInv'
<1> DEFINE f == cmd[c]
           g == [f EXCEPT !.at = @ + 1]
           h == [g EXCEPT !.accepted = TRUE]
<1>1. f \in Invocation /\ Accounted(f, Revoked) /\ f.pc = "publish" /\ f.current \in Key
  BY DEF RetireInv, Types, Accounted, Accepted, AcceptedUnheard, Rejected, Offering
<1>2. g \in Invocation /\ h \in Invocation
  <2>1. f.at + 1 \in Nat
    BY <1>1 DEF Invocation
  <2>2. g \in Invocation
    BY <1>1, <2>1 DEF Invocation
  <2> HIDE DEF g
  <2>3. h \in Invocation
    BY <2>2 DEF Invocation
  <2> QED
    BY <2>2, <2>3
<1>3. CASE Accepted(c) \/ AcceptedUnheard(c)
  <2>1. /\ f.at \in Server /\ f.kind \in Kind
        /\ rec[f.at][f.current] \notin Terminal
        /\ rec' = [rec EXCEPT ![f.at][f.current] = f.kind]
    BY <1>1, <1>3 DEF Accepted, AcceptedUnheard, Offering, put, Invocation, Kind, Unexpired
  <2>2. /\ rec' \in [Server -> [Key -> Kind]]
        /\ Revoked \subseteq Revoked'
        /\ f.kind = "revoked" => f.current \in Revoked'
    BY <1>1, <2>1, RevokedStays DEF RetireInv
  <2>3. Accounted(f, Revoked')
    BY <1>1, <2>2, MoreRevoked
  <2>4. CASE Accepted(c)
    <3>1. cmd' = [cmd EXCEPT ![c] = h]
      BY <2>4 DEF Accepted, Set
    <3>2. Accounted(h, Revoked')
      BY <1>1, <2>2, <2>3 DEF Accounted, Invocation
    <3> HIDE DEF h
    <3> QED
      BY <1>2, <2>2, <3>1, <3>2, OneMoves
  <2>5. CASE AcceptedUnheard(c)
    <3>1. cmd' = [cmd EXCEPT ![c] = g]
      BY <2>5 DEF AcceptedUnheard, Set
    <3>2. Accounted(g, Revoked')
      BY <1>1, <2>3 DEF Accounted, Invocation
    <3> HIDE DEF g
    <3> QED
      BY <1>2, <2>2, <3>1, <3>2, OneMoves
  <2> QED
    BY <1>3, <2>4, <2>5
<1>4. CASE Rejected(c)
  <2>1. cmd' = [cmd EXCEPT ![c] = g] /\ rec' = rec
    BY <1>4 DEF Rejected, Set
  <2>2. rec' \in [Server -> [Key -> Kind]] /\ Revoked' = Revoked
    BY <2>1 DEF RetireInv, Types, Revoked
  <2>3. Accounted(g, Revoked')
    BY <1>1, <2>2 DEF Accounted, Invocation
  <2> HIDE DEF g
  <2> QED
    BY <1>2, <2>1, <2>2, <2>3, OneMoves
<1> QED
  BY <1>3, <1>4

(* The steps between publishes: the next key is taken only when the one in *)
(* hand was accepted (main.rs revoke, supersede).                          *)
LEMMA TurnAccounts ==
    ASSUME RetireInv, NEW c \in Command,
           \/ \E k \in Key : RevokeKey(c, k) \/ Supersede(c, k)
           \/ Confirm(c) \/ GiveUp(c) \/ Report(c)
    PROVE  RetireInv'
<1> DEFINE f == cmd[c]
<1>1. f \in Invocation /\ Accounted(f, Revoked)
  BY DEF RetireInv, Types
<1>2. rec' = rec
  BY DEF RevokeKey, Supersede, Confirm, GiveUp, Report
<1>3. rec' \in [Server -> [Key -> Kind]] /\ Revoked' = Revoked
  BY <1>2 DEF RetireInv, Types, Revoked
<1>4. SUFFICES \E g \in Invocation : Accounted(g, Revoked) /\ cmd' = [cmd EXCEPT ![c] = g]
  BY <1>3, OneMoves
<1>5. ASSUME NEW k \in Key, RevokeKey(c, k) \/ Supersede(c, k)
      PROVE  \E g \in Invocation : Accounted(g, Revoked) /\ cmd' = [cmd EXCEPT ![c] = g]
  <2> DEFINE r == [Unstarted EXCEPT !.todo = {k}]
             u == [Unstarted EXCEPT !.kind = "superseded", !.todo = {k}]
  <2>1. r \in Invocation /\ ~r.all
    BY NothingDone DEF Invocation, Unstarted
  <2>a. u \in Invocation /\ ~u.all
    <3>1. u = [r EXCEPT !.kind = "superseded"]
      BY DEF Unstarted
    <3> HIDE DEF r, u
    <3> QED
      BY <2>1, <3>1 DEF Invocation, Terminal
  <2>2. cmd' = [cmd EXCEPT ![c] = Take(r)] \/ cmd' = [cmd EXCEPT ![c] = Take(u)]
    BY <1>5 DEF RevokeKey, Supersede, Set
  <2> HIDE DEF r, u
  <2> QED
    BY <2>1, <2>a, <2>2, TakeAccounts
<1>6. CASE Confirm(c)
  <2>1. cmd' = [cmd EXCEPT ![c] = Take(f)] /\ f.pc = "confirm"
    BY <1>6 DEF Confirm, Set
  <2>2. /\ f.all => f.kind = "revoked"
        /\ (f.all /\ f.whole) => \A k \in f.alive : k \in f.todo \/ k \in Revoked
    BY <1>1, <2>1 DEF Accounted
  <2> QED
    BY <1>1, <2>1, <2>2, TakeAccounts
<1>7. CASE GiveUp(c)
  BY <1>7, NothingDone DEF GiveUp, Set
<1>8. CASE Report(c) /\ f.accepted
  <2>1. cmd' = [cmd EXCEPT ![c] = Take(f)] /\ f.pc = "publish"
    BY <1>8 DEF Report, Set
  <2>2. /\ f.all => f.kind = "revoked"
        /\ (f.all /\ f.whole) => \A k \in f.alive : k \in f.todo \/ k \in Revoked
    BY <1>1, <1>8, <2>1 DEF Accounted
  <2> QED
    BY <1>1, <2>1, <2>2, TakeAccounts
<1>9. CASE Report(c) /\ ~f.accepted
  BY <1>9, NothingDone DEF Report, Set
<1> QED
  BY <1>5, <1>6, <1>7, <1>8, <1>9

(* A revoke --all over a whole listing that ends well has revoked, at some *)
(* server, every key the listing server held an unexpired record for,      *)
(* whatever nodes, replication and other invocations did meanwhile         *)
(* (main.rs revoke).                                                       *)
THEOREM AllAreRevoked == Spec => []LiveOnesAreRevoked
<1>1. Init => RetireInv
  BY NothingDone DEF Init, RetireInv, Types, Kind
<1>2. RetireInv /\ [Next]_vars => RetireInv'
  <2> SUFFICES ASSUME RetireInv, [Next]_vars
               PROVE  RetireInv'
    OBVIOUS
  <2>1. CASE UNCHANGED vars
    BY <2>1 DEF vars, RetireInv, Types, Revoked
  <2>2. CASE Network
    BY <2>2, NetworkAccounts
  <2>3. ASSUME NEW c \in Command, Step(c)
        PROVE  RetireInv'
    BY <2>3, ListingAccounts, OfferAccounts, TurnAccounts DEF Step
  <2> QED
    BY <2>1, <2>2, <2>3 DEF Next
<1>3. RetireInv => LiveOnesAreRevoked
  BY DEF RetireInv, Types, Invocation, Accounted, Revoked, LiveOnesAreRevoked
<1> QED
  BY <1>1, <1>2, <1>3, PTL DEF Spec
=============================================================================
