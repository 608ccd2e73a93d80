------------------------- MODULE ReplicationProofs -------------------------
(***************************************************************************)
(* Replication is order-independent, for any number of servers, keys and   *)
(* records, when the records offered for a key are in order: no two of     *)
(* them tie, and a newer one does not run out before an older one.         *)
(***************************************************************************)
EXTENDS Replication, NaturalsInduction, WellFoundedInduction, TLAPS

(* At most one retirement of each key is ever signed, and no two live      *)
(* records of a key have the same serial and date.                         *)
ConflictFree ==
    \A r, s \in Offered : r.key = s.key /\ r # s =>
        /\ ~(is_terminal(r) /\ is_terminal(s))
        /\ ~is_terminal(r) /\ ~is_terminal(s) => newer(r, s) \/ newer(s, r)

(* A publisher that refreshes with one time to live and a clock that does  *)
(* not go back never signs a newer record that expires first.              *)
Regular ==
    \A r, s \in Offered :
        r.key = s.key /\ ~is_terminal(r) /\ ~is_terminal(s) /\ newer(r, s) =>
            expires_at(r) >= expires_at(s)

-----------------------------------------------------------------------------
(* The fields of an offered record that are compared.                      *)
LEMMA OfferedFields ==
    ASSUME NEW r \in Offered
    PROVE  /\ r # NoRecord
           /\ r.key \in PubKey
           /\ r.serial \in Nat /\ r.issued_at \in Nat /\ r.ttl \in Nat
           /\ expires_at(r) \in Nat
BY ReplicationAssumption, SentinelAssumption, BoundsAssumption DEF Record, expires_at

(* Record::supersedes is transitive.                                       *)
LEMMA SupersedesTransitive ==
    ASSUME NEW r \in Offered, NEW s \in Offered, NEW q \in Offered,
           supersedes(r, s), supersedes(s, q)
    PROVE  supersedes(r, q)
BY OfferedFields DEF supersedes, newer

(* Nothing supersedes itself.                                              *)
LEMMA SupersedesIrreflexive ==
    ASSUME NEW r \in Offered
    PROVE  ~supersedes(r, r)
BY OfferedFields DEF supersedes, newer

(* Of two records that do not tie one supersedes the other.                *)
LEMMA SupersedesTotal ==
    ASSUME ConflictFree, NEW r \in Offered, NEW s \in Offered, r.key = s.key, r # s
    PROVE  supersedes(r, s) \/ supersedes(s, r)
BY DEF ConflictFree, supersedes

(* A live record that is not beaten by s, and has expired, outlived s.     *)
LEMMA BeatenExpiresFirst ==
    ASSUME ConflictFree, Regular, now \in Nat,
           NEW r \in Offered, NEW s \in Offered, r.key = s.key,
           is_expired(r, now), ~supersedes(s, r)
    PROVE  is_expired(s, now)
<1>1. ~is_terminal(r) /\ now >= expires_at(r)
  BY DEF is_expired
<1>2. ~is_terminal(s)
  BY <1>1 DEF supersedes
<1>3. CASE r = s
  BY <1>3
<1>4. CASE r # s
  <2>1. newer(r, s)
    BY <1>1, <1>2, <1>4 DEF ConflictFree, supersedes
  <2>2. expires_at(r) >= expires_at(s)
    BY <1>1, <1>2, <2>1 DEF Regular
  <2> QED
    BY <1>1, <1>2, <2>2, OfferedFields DEF is_expired
<1> QED
  BY <1>3, <1>4

-----------------------------------------------------------------------------
(***************************************************************************)
(* The inductive invariant: a server holds the best of what it has seen,   *)
(* or nothing, and then all of that has expired.                           *)
(***************************************************************************)
Distinct(rs) == \A r, s \in rs : r.key = s.key => r = s

Shape ==
    /\ now \in Nat
    /\ held \in [Node -> [PubKey -> Offered \union {NoRecord}]]
    /\ seen \in [Node -> SUBSET Offered]
    /\ mail \subseteq [to : Node, rec : Offered]
    /\ pull = [n \in Node |-> pull[n]]
    /\ \A n \in Node :
          /\ pull[n].pc \in {"ask", "apply"} => pull[n].turn \in Position(n)
          /\ pull[n].pc = "apply" => pull[n].records \subseteq Offered /\ Distinct(pull[n].records)

BestAt(n, k) ==
    /\ held[n][k] = NoRecord =>
          \A s \in seen[n] : s.key = k => is_expired(s, now)
    /\ held[n][k] # NoRecord =>
          /\ held[n][k] \in seen[n]
          /\ held[n][k].key = k
          /\ \A s \in seen[n] : s.key = k => ~supersedes(s, held[n][k])

HoldsBest == \A n \in Node, k \in PubKey : BestAt(n, k)

(* Store::put keeps the best for one key, whatever it is offered.          *)
LEMMA PutKeepsBest ==
    ASSUME ConflictFree, Regular, Shape, HoldsBest,
           NEW n \in Node, NEW rs \in SUBSET Offered, Distinct(rs),
           PutAll(n, rs), now' = now
    PROVE  /\ held' \in [Node -> [PubKey -> Offered \union {NoRecord}]]
           /\ seen' \in [Node -> SUBSET Offered]
           /\ HoldsBest'
<1> DEFINE T == taken(n, rs)
<1>1. T \subseteq rs
  BY DEF taken
<1>2. /\ seen' = [seen EXCEPT ![n] = @ \union {r \in rs : admissible(r, now)}]
      /\ held' = [held EXCEPT ![n] =
             [k \in PubKey |-> IF \E r \in T : r.key = k
                               THEN CHOOSE r \in T : r.key = k
                               ELSE held[n][k]]]
  BY DEF PutAll
<1>3. ASSUME NEW r \in T
      PROVE  r.key \in PubKey /\ held'[n][r.key] = r
  <2>1. r \in rs /\ r.key \in PubKey
    BY <1>1, OfferedFields
  <2>2. \A s \in T : s.key = r.key => s = r
    BY <1>1, <2>1 DEF Distinct
  <2>3. held'[n][r.key] = CHOOSE s \in T : s.key = r.key
    BY <1>2, <2>1 DEF Shape
  <2> QED
    BY <2>1, <2>2, <2>3
<1>4. ASSUME NEW k \in PubKey, ~\E r \in T : r.key = k
      PROVE  held'[n][k] = held[n][k]
  BY <1>2, <1>4 DEF Shape
<1>5. \A m \in Node : m # n => held'[m] = held[m] /\ seen'[m] = seen[m]
  BY <1>2 DEF Shape
<1>6. seen'[n] = seen[n] \union {r \in rs : admissible(r, now)}
  BY <1>2 DEF Shape
<1>7. \A k \in PubKey : held'[n][k] \in Offered \union {NoRecord}
  <2> TAKE k \in PubKey
  <2>1. CASE \E r \in T : r.key = k
    BY <2>1, <1>1, <1>3
  <2>2. CASE ~\E r \in T : r.key = k
    BY <2>2, <1>4 DEF Shape
  <2> QED
    BY <2>1, <2>2
<1>8. held' \in [Node -> [PubKey -> Offered \union {NoRecord}]]
  <2> DEFINE f == [k \in PubKey |-> IF \E r \in T : r.key = k
                                    THEN CHOOSE r \in T : r.key = k
                                    ELSE held[n][k]]
  <2>1. held'[n] = f
    BY <1>2 DEF Shape
  <2> HIDE DEF f
  <2>2. f \in [PubKey -> Offered \union {NoRecord}]
    <3>1. \A k \in PubKey : f[k] \in Offered \union {NoRecord}
      BY <2>1, <1>7
    <3>2. f = [k \in PubKey |-> f[k]]
      BY DEF f
    <3> QED
      BY <3>1, <3>2
  <2>3. held' = [held EXCEPT ![n] = f]
    BY <1>2 DEF f
  <2> QED
    BY <2>2, <2>3 DEF Shape
<1>9. ASSUME NEW k \in PubKey
      PROVE  BestAt(n, k)'
  <2>1. BestAt(n, k)
    BY DEF HoldsBest
  <2>2. CASE \E r \in T : r.key = k
    <3>1. PICK r \in T : r.key = k
      BY <2>2
    <3>2. r \in Offered /\ r \in rs /\ admissible(r, now) /\ mergeable(r, held[n][k], r.identity)
      BY <1>1, <3>1 DEF taken
    <3>3. held'[n][k] = r /\ r # NoRecord /\ r \in seen'[n]
      BY <1>3, <1>6, <3>1, <3>2, OfferedFields
    <3>4. \A s \in seen'[n] : s.key = k => s \in seen[n] \/ s = r
      BY <1>6, <3>1, <3>2 DEF Distinct
    <3>5. ASSUME NEW s \in seen[n], s.key = k, supersedes(s, r)
          PROVE  FALSE
      <4>1. s \in Offered
        BY DEF Shape
      <4>2. CASE held[n][k] = NoRecord
        <5>1. is_expired(s, now)
          BY <2>1, <3>5, <4>2 DEF BestAt
        <5>2. ~supersedes(r, s)
          BY <3>2, <3>5, <4>1, SupersedesIrreflexive, SupersedesTransitive
        <5>3. is_expired(r, now)
          BY <3>1, <3>2, <3>5, <4>1, <5>1, <5>2, BeatenExpiresFirst DEF Shape
        <5> QED
          BY <3>2, <5>3 DEF admissible
      <4>3. CASE held[n][k] # NoRecord
        <5>1. held[n][k] \in Offered /\ supersedes(r, held[n][k])
          BY <3>2, <4>3 DEF Shape, mergeable
        <5>2. ~supersedes(s, held[n][k])
          BY <2>1, <3>5, <4>3 DEF BestAt
        <5> QED
          BY <3>2, <3>5, <4>1, <5>1, <5>2, SupersedesTransitive
      <4> QED
        BY <4>2, <4>3
    <3> QED
      BY <3>1, <3>2, <3>3, <3>4, <3>5, SupersedesIrreflexive DEF BestAt
  <2>3. CASE ~\E r \in T : r.key = k
    <3>1. held'[n][k] = held[n][k]
      BY <1>4, <2>3
    <3>2. ASSUME NEW s \in rs, s.key = k, admissible(s, now)
          PROVE  held[n][k] # NoRecord /\ ~supersedes(s, held[n][k])
      <4>1. ~mergeable(s, held[n][k], s.identity)
        BY <2>3, <3>2 DEF taken
      <4> QED
        BY <4>1 DEF mergeable, retired, supersedes
    <3> QED
      BY <1>6, <2>1, <3>1, <3>2 DEF BestAt
  <2> QED
    BY <2>2, <2>3
<1>10. ASSUME NEW m \in Node, m # n, NEW k \in PubKey
       PROVE  BestAt(m, k)'
  <2>1. BestAt(m, k)
    BY DEF HoldsBest
  <2> QED
    BY <1>5, <1>10, <2>1 DEF BestAt
<1>11. seen' \in [Node -> SUBSET Offered]
  BY <1>2 DEF Shape
<1> QED
  BY <1>8, <1>9, <1>10, <1>11 DEF HoldsBest

-----------------------------------------------------------------------------
RepInv == Shape /\ HoldsBest

(* A server pushes to servers.                                             *)
LEMMA PeersAreNodes == \A n \in Node : PeersOf(n) \subseteq Node
BY ReplicationAssumption DEF PeersOf, Position

(* When the pull loop goes on it asks one of the configured peers.         *)
LEMMA PullOfIsAsk ==
    \A n, i, marks : PullOf(n, i, marks).pc \in {"ask", "apply"} =>
        PullOf(n, i, marks).pc = "ask" /\ PullOf(n, i, marks).turn \in Position(n)
BY DEF PullOf, Idle

(* Every step of publishing, pushing, pulling, sweeping and restarting     *)
(* keeps the invariant.                                                    *)
LEMMA NextRepInv ==
    ASSUME ConflictFree, Regular, RepInv, [Next]_vars
    PROVE  RepInv'
<1> USE DEF RepInv
<1>1. ASSUME NEW n \in Node, NEW r \in Offered, Publish(n, r)
      PROVE  RepInv'
  <2>1. {r} \in SUBSET Offered /\ Distinct({r}) /\ PutAll(n, {r}) /\ UNCHANGED <<now, pull>>
    BY <1>1 DEF Publish, Distinct
  <2>2. mail' \subseteq [to : Node, rec : Offered]
    <3>1. pushes(n, r) \subseteq [to : Node, rec : Offered]
      BY PeersAreNodes DEF pushes
    <3> QED
      BY <1>1, <3>1 DEF Publish, Shape
  <2>3. /\ held' \in [Node -> [PubKey -> Offered \union {NoRecord}]]
        /\ seen' \in [Node -> SUBSET Offered]
        /\ HoldsBest'
    BY <2>1, PutKeepsBest
  <2> QED
    BY <2>1, <2>2, <2>3 DEF Shape, Distinct
<1>2. ASSUME NEW m \in mail, Deliver(m)
      PROVE  RepInv'
  <2>1. m.to \in Node /\ m.rec \in Offered
    BY DEF Shape
  <2>2. Distinct({m.rec}) /\ PutAll(m.to, {m.rec}) /\ UNCHANGED <<now, pull>>
    BY <1>2 DEF Deliver, Distinct
  <2>3. mail' \subseteq [to : Node, rec : Offered]
    <3>1. pushes(m.to, m.rec) \subseteq [to : Node, rec : Offered]
      BY <2>1, PeersAreNodes DEF pushes
    <3> QED
      BY <1>2, <3>1 DEF Deliver, Shape
  <2>4. /\ held' \in [Node -> [PubKey -> Offered \union {NoRecord}]]
        /\ seen' \in [Node -> SUBSET Offered]
        /\ HoldsBest'
    BY <2>1, <2>2, PutKeepsBest
  <2> QED
    BY <2>2, <2>3, <2>4 DEF Shape, Distinct
<1>3. ASSUME NEW m \in mail, Lose(m)
      PROVE  RepInv'
  BY <1>3 DEF Lose, Shape, Distinct, HoldsBest, BestAt
<1>4. ASSUME NEW n \in Node, NEW i, UNCHANGED <<now, held, seen, mail>>,
             pull' = [pull EXCEPT ![n] = PullOf(n, i, watermark)]
      PROVE  RepInv'
  <2>1. HoldsBest'
    BY <1>4 DEF HoldsBest, BestAt
  <2>2. PullOf(n, i, watermark).pc \in {"ask", "apply"} =>
           PullOf(n, i, watermark).pc = "ask" /\ PullOf(n, i, watermark).turn \in Position(n)
    BY PullOfIsAsk
  <2>3. /\ pull' = [m \in Node |-> pull'[m]]
        /\ pull'[n] = PullOf(n, i, watermark)
        /\ \A m \in Node : m # n => pull'[m] = pull[m]
    BY <1>4 DEF Shape
  <2> QED
    BY <1>4, <2>1, <2>2, <2>3 DEF Shape, Distinct
<1>5. ASSUME NEW n \in Node, PullStart(n)
       PROVE  RepInv'
  BY <1>4, <1>5 DEF PullStart
<1>6. ASSUME NEW n \in Node, PullServe(n)
      PROVE  RepInv'
  <2> DEFINE p == Peers[n][pull[n].turn]
             rs == batch(p, pull[n].since)
  <2>1. p \in Node /\ pull[n].turn \in Position(n)
    BY <1>6, ReplicationAssumption DEF PullServe, Shape, Position
  <2>2. \A r \in rs : \E k \in PubKey : r = held[p][k] /\ r # NoRecord
    BY DEF batch, matching
  <2>3. rs \subseteq Offered /\ Distinct(rs)
    BY <2>1, <2>2 DEF Shape, Distinct, HoldsBest, BestAt
  <2>4. /\ UNCHANGED <<now, held, seen, mail>>
        /\ pull' = [m \in Node |-> pull'[m]]
        /\ pull'[n].pc = "apply" /\ pull'[n].turn = pull[n].turn /\ pull'[n].records = rs
        /\ \A m \in Node : m # n => pull'[m] = pull[m]
    BY <1>6 DEF PullServe, Shape
  <2> HIDE DEF rs, p
  <2>5. HoldsBest'
    BY <2>4 DEF HoldsBest, BestAt
  <2>6. \A m \in Node :
          /\ pull'[m].pc \in {"ask", "apply"} => pull'[m].turn \in Position(m)
          /\ pull'[m].pc = "apply" => pull'[m].records \subseteq Offered /\ Distinct(pull'[m].records)
    BY <2>1, <2>3, <2>4 DEF Shape
  <2> QED
    BY <2>4, <2>5, <2>6 DEF Shape, Distinct
<1>7. ASSUME NEW n \in Node, PullApply(n)
      PROVE  RepInv'
  <2> DEFINE rs == pull[n].records
  <2>1. rs \in SUBSET Offered /\ Distinct(rs) /\ PutAll(n, rs) /\ UNCHANGED <<now, mail>>
    BY <1>7 DEF PullApply, Shape
  <2>2. /\ held' \in [Node -> [PubKey -> Offered \union {NoRecord}]]
        /\ seen' \in [Node -> SUBSET Offered]
        /\ HoldsBest'
    BY <2>1, PutKeepsBest
  <2>3. pull[n].turn \in Position(n)
    BY <1>7 DEF PullApply, Shape
  <2>4. /\ pull' = [m \in Node |-> pull'[m]]
        /\ \A m \in Node : m # n => pull'[m] = pull[m]
        /\ \/ pull'[n] = PullOf(n, pull[n].turn + 1, watermark')
           \/ pull'[n].pc = "ask" /\ pull'[n].turn = pull[n].turn
    BY <1>7 DEF PullApply, Shape
  <2>5. \A m \in Node :
          /\ pull'[m].pc \in {"ask", "apply"} => pull'[m].turn \in Position(m)
          /\ pull'[m].pc = "apply" => pull'[m].records \subseteq Offered /\ Distinct(pull'[m].records)
    BY <2>3, <2>4, PullOfIsAsk DEF Shape
  <2> QED
    BY <2>1, <2>2, <2>4, <2>5 DEF Shape, Distinct
<1>8. ASSUME NEW n \in Node, PullFail(n)
      PROVE  RepInv'
  BY <1>4, <1>8 DEF PullFail
<1>9. ASSUME NEW n \in Node, PullTimeout(n)
       PROVE  RepInv'
  BY <1>4, <1>9 DEF PullTimeout
<1>10. ASSUME NEW n \in Node, Purge(n)
      PROVE  RepInv'
  <2>1. /\ UNCHANGED <<now, seen, pull, mail>>
        /\ \A m \in Node : m # n => held'[m] = held[m]
        /\ \A k \in PubKey : held'[n][k] = IF held[n][k] # NoRecord /\ is_expired(held[n][k], now)
                                           THEN NoRecord ELSE held[n][k]
        /\ held' \in [Node -> [PubKey -> Offered \union {NoRecord}]]
    BY <1>10 DEF Purge, Shape
  <2>2. ASSUME NEW k \in PubKey, held[n][k] # NoRecord, is_expired(held[n][k], now),
               NEW s \in seen[n], s.key = k
        PROVE  is_expired(s, now)
    <3>1. held[n][k] \in Offered /\ s \in Offered
      BY <2>2 DEF Shape
    <3>2. held[n][k].key = k /\ ~supersedes(s, held[n][k])
      BY <2>2 DEF HoldsBest, BestAt
    <3> QED
      BY <2>2, <3>1, <3>2, BeatenExpiresFirst DEF Shape
  <2>3. HoldsBest'
    <3> SUFFICES ASSUME NEW m \in Node, NEW k \in PubKey
                 PROVE  BestAt(m, k)'
      BY DEF HoldsBest
    <3>1. BestAt(m, k)
      BY DEF HoldsBest
    <3>2. CASE m = n
      BY <2>1, <2>2, <3>1, <3>2 DEF BestAt
    <3>3. CASE m # n
      BY <2>1, <3>1, <3>3 DEF BestAt
    <3> QED
      BY <3>2, <3>3
  <2> QED
    BY <2>1, <2>3 DEF Shape, Distinct
<1>11. ASSUME NEW n \in Node, Restart(n)
      PROVE  RepInv'
  <2> DEFINE kept == [k \in PubKey |->
                        IF held[n][k] # NoRecord /\ admissible(held[n][k], now)
                        THEN held[n][k] ELSE NoRecord]
  <2>1. /\ UNCHANGED <<now, mail>>
        /\ held' = [held EXCEPT ![n] = kept]
        /\ seen' = [seen EXCEPT ![n] = {kept[k] : k \in PubKey} \ {NoRecord}]
        /\ pull' = [pull EXCEPT ![n] = Idle]
    BY <1>11 DEF Restart
  <2>2. kept \in [PubKey -> Offered \union {NoRecord}]
    BY DEF Shape
  <2>3. \A k \in PubKey : kept[k] # NoRecord => kept[k].key = k
    BY DEF HoldsBest, BestAt
  <2> HIDE DEF kept
  <2>4. held'[n] = kept /\ seen'[n] = {kept[k] : k \in PubKey} \ {NoRecord}
    BY <2>1 DEF Shape
  <2>5. \A m \in Node : m # n => held'[m] = held[m] /\ seen'[m] = seen[m]
    BY <2>1 DEF Shape
  <2>6. ASSUME NEW k \in PubKey, NEW s \in seen'[n], s.key = k
        PROVE  s = kept[k] /\ s \in Offered
    BY <2>2, <2>3, <2>4, <2>6
  <2>7. ASSUME NEW k \in PubKey
        PROVE  BestAt(n, k)'
    <3>1. CASE kept[k] = NoRecord
      BY <2>4, <2>6, <3>1 DEF BestAt
    <3>2. CASE kept[k] # NoRecord
      BY <2>3, <2>4, <2>6, <3>2, SupersedesIrreflexive DEF BestAt
    <3> QED
      BY <3>1, <3>2
  <2>8. ASSUME NEW m \in Node, m # n, NEW k \in PubKey
        PROVE  BestAt(m, k)'
    <3>1. BestAt(m, k)
      BY DEF HoldsBest
    <3> QED
      BY <2>1, <2>5, <2>8, <3>1 DEF BestAt
  <2>9. /\ held' \in [Node -> [PubKey -> Offered \union {NoRecord}]]
        /\ seen' \in [Node -> SUBSET Offered]
    BY <2>1, <2>2 DEF Shape
  <2>10. /\ pull' = [m \in Node |-> pull'[m]]
         /\ \A m \in Node : pull'[m] \in {pull[m], Idle}
    BY <2>1 DEF Shape
  <2>11. HoldsBest'
    BY <2>7, <2>8 DEF HoldsBest
  <2>12. \A m \in Node :
          /\ pull'[m].pc \in {"ask", "apply"} => pull'[m].turn \in Position(m)
          /\ pull'[m].pc = "apply" => pull'[m].records \subseteq Offered /\ Distinct(pull'[m].records)
    BY <2>10 DEF Shape, Idle
  <2> QED
    BY <2>1, <2>9, <2>10, <2>11, <2>12 DEF Shape, Distinct
<1>12. CASE Tick
  <2>1. UNCHANGED <<held, seen, pull, mail>> /\ now' = now + 1
    BY <1>12 DEF Tick
  <2>2. \A r \in Offered : is_expired(r, now) => is_expired(r, now')
    BY <2>1, OfferedFields DEF is_expired, Shape
  <2>3. HoldsBest'
    <3> SUFFICES ASSUME NEW m \in Node, NEW k \in PubKey
                 PROVE  BestAt(m, k)'
      BY DEF HoldsBest
    <3>1. BestAt(m, k) /\ seen[m] \subseteq Offered
      BY DEF HoldsBest, Shape
    <3> QED
      BY <2>1, <2>2, <3>1 DEF BestAt
  <2> QED
    BY <2>1, <2>3 DEF Shape, Distinct
<1>13. CASE UNCHANGED vars
  BY <1>13 DEF vars, Shape, Distinct, HoldsBest, BestAt
<1> QED
  BY <1>1, <1>2, <1>3, <1>6, <1>7, <1>8, <1>10, <1>11, <1>12, <1>13, <1>5, <1>9 DEF Next

(* Two servers that hold the best of the same records answer alike.        *)
LEMMA BestIsUnique == ConflictFree /\ RepInv => OrderIndependent
<1> SUFFICES ASSUME ConflictFree, RepInv, NEW n \in Node, NEW m \in Node, NEW k \in PubKey,
                    seen_for(n, k) = seen_for(m, k)
             PROVE  get(n, k) = get(m, k)
  BY DEF OrderIndependent
<1>1. BestAt(n, k) /\ BestAt(m, k) /\ seen[n] \subseteq Offered /\ seen[m] \subseteq Offered
  BY DEF RepInv, HoldsBest, Shape
<1>2. \A r : r.key = k => (r \in seen[n] <=> r \in seen[m])
  BY DEF seen_for
<1>3. CASE held[n][k] = NoRecord \/ held[m][k] = NoRecord
  BY <1>1, <1>2, <1>3 DEF BestAt, get
<1>4. CASE held[n][k] # NoRecord /\ held[m][k] # NoRecord
  <2>1. held[n][k] = held[m][k]
    BY <1>1, <1>2, <1>4, SupersedesTotal DEF BestAt
  <2> QED
    BY <2>1 DEF get
<1> QED
  BY <1>3, <1>4

(* Servers that were offered the same records of a key answer alike,       *)
(* whatever the order, the delays, the pulls, the sweeps and the restarts  *)
(* in between, provided no two records of a key tie and a newer one does   *)
(* not expire first.                                                       *)
THEOREM Convergence ==
    ASSUME ConflictFree, Regular
    PROVE  Spec => []OrderIndependent
<1>1. Init => RepInv
  BY DEF Init, RepInv, Shape, HoldsBest, BestAt, Empty, Idle, Distinct
<1>2. RepInv /\ [Next]_vars => RepInv'
  BY NextRepInv
<1>3. RepInv => OrderIndependent
  BY BestIsUnique
<1> QED
  BY <1>1, <1>2, <1>3, PTL DEF Spec
-----------------------------------------------------------------------------
(***************************************************************************)
(* The types, and how far cursors get.  That a batch has a greatest date   *)
(* rests on the check that no record is dated past the horizon.            *)
(***************************************************************************)
(* A set of numbers has a least one.                                       *)
LEMMA LeastNumber ==
    ASSUME NEW T \in SUBSET Nat, T # {}
    PROVE  \E x \in T : \A y \in T : x <= y
<1> DEFINE R == OpToRel(<, Nat)
<1>1. IsWellFoundedOn(R, Nat)
  BY NatLessThanWellFounded
<1>2. \A x, y \in Nat : x < y => <<x, y>> \in R
  BY DEF OpToRel
<1> HIDE DEF R
<1>3. PICK x \in T : \A y \in T : ~(<<y, x>> \in R)
  BY <1>1, WFMin
<1>4. \A y \in T : x <= y
  <2> TAKE y \in T
  <2>1. x \in Nat /\ y \in Nat
    OBVIOUS
  <2>2. ~(y < x)
    BY <1>2, <1>3, <2>1, Zenon
  <2> QED BY <2>1, <2>2
<1> QED BY <1>4, Zenon

(* Records dated up to h.                                                  *)
DatedBy(rs, h) == \A r \in rs : r.issued_at \in 0 .. h

(* The cursor after a batch is a date of the batch, or stays.              *)
LEMMA HighWithin ==
    ASSUME NEW h \in Nat, NEW rs, NEW since \in 0 .. h, DatedBy(rs, h)
    PROVE  high(rs, since) \in 0 .. h
<1>1. CASE rs = {}
  BY <1>1 DEF high
<1>2. CASE rs # {}
  <2> DEFINE D == {r.issued_at : r \in rs}
             T == {h - d : d \in D}
  <2>1. D \subseteq 0 .. h
    BY DEF DatedBy
  <2>2. T \in SUBSET Nat /\ T # {}
    BY <1>2, <2>1
  <2>3. PICK x \in T : \A y \in T : x <= y
    BY <2>2, LeastNumber
  <2>4. PICK t \in D : x = h - t
    BY <2>3
  <2>5. \A r \in rs : r.issued_at <= t
    <3> TAKE r \in rs
    <3>1. r.issued_at \in D /\ r.issued_at \in 0 .. h /\ t \in 0 .. h
      BY <2>1
    <3>2. x <= h - r.issued_at
      BY <2>3, <3>1
    <3> QED BY <2>4, <3>1, <3>2
  <2>6. (CHOOSE d \in D : \A r \in rs : r.issued_at <= d) \in D
    BY <2>5
  <2> QED BY <1>2, <2>1, <2>6 DEF high
<1> QED BY <1>1, <1>2

(* What the pull loop of server n may be doing, with cursors up to h.      *)
PullStates(n, h) ==
    {Idle}
      \union [pc : {"ask"}, turn : Position(n), since : 0 .. h]
      \union [pc : {"apply"}, turn : Position(n), since : 0 .. h,
              records : SUBSET Offered, complete : BOOLEAN]

PullsWithin(q, h) ==
    /\ q = [n \in Node |-> q[n]]
    /\ \A n \in Node : /\ q[n] \in PullStates(n, h)
                       /\ q[n].pc = "apply" => DatedBy(q[n].records, h)

MarksWithin(w, h) ==
    /\ w = [n \in Node |-> w[n]]
    /\ \A n \in Node : w[n] \in [Position(n) -> 0 .. h]

HeldWithin(f, h) ==
    /\ f \in [Node -> [PubKey -> Offered \union {NoRecord}]]
    /\ \A n \in Node : DatedBy({f[n][k] : k \in PubKey} \ {NoRecord}, h)

MailTyped(m) == m \subseteq [to : Node, rec : Offered]

(* The types, and that no held or pulled record is dated past the horizon. *)
TypeInv ==
    /\ now \in Nat
    /\ HeldWithin(held, horizon)
    /\ seen \in [Node -> SUBSET Offered]
    /\ MarksWithin(watermark, horizon)
    /\ PullsWithin(pull, horizon)
    /\ MailTyped(mail)
    /\ faults \in 0 .. MaxFaults

(* The horizon is a time.                                                  *)
LEMMA SkewIsNat == now \in Nat => horizon \in Nat
BY BoundsAssumption DEF BoundsAssumption, horizon

(* The invariant says at least what the type invariant says.               *)
LEMMA TypeInvTypes == TypeInv => TypeOK
BY DEF TypeInv, TypeOK, HeldWithin, MarksWithin, PullsWithin, PullStates, MailTyped

(* The loop goes on to a peer from its watermark, or waits.                *)
LEMMA PullOfWithin ==
    ASSUME NEW n \in Node, NEW i, NEW w, NEW h \in Nat, MarksWithin(w, h)
    PROVE  /\ PullOf(n, i, w) \in PullStates(n, h)
           /\ PullOf(n, i, w).pc # "apply"
<1>1. CASE i \in Position(n)
  <2>1. w[n][i] \in 0 .. h
    BY <1>1 DEF MarksWithin
  <2> QED BY <1>1, <2>1 DEF PullOf, PullStates
<1>2. CASE i \notin Position(n)
  BY <1>2 DEF PullOf, PullStates, Idle
<1> QED BY <1>1, <1>2

(* One server's loop moves on.                                             *)
LEMMA PullMoves ==
    ASSUME NEW n \in Node, NEW q, NEW s, NEW h, PullsWithin(q, h),
           s \in PullStates(n, h), s.pc = "apply" => DatedBy(s.records, h)
    PROVE  PullsWithin([q EXCEPT ![n] = s], h)
<1> DEFINE f == [q EXCEPT ![n] = s]
<1>1. q = [m \in Node |-> q[m]]
  BY DEF PullsWithin
<1>2. f[n] = s /\ (\A m \in Node : m # n => f[m] = q[m]) /\ f = [m \in Node |-> f[m]]
  BY <1>1
<1> HIDE DEF f
<1>3. \A m \in Node : f[m] \in PullStates(m, h) /\ (f[m].pc = "apply" => DatedBy(f[m].records, h))
  <2> TAKE m \in Node
  <2>1. CASE m = n
    BY <1>2, <2>1
  <2>2. CASE m # n
    BY <1>2, <2>2 DEF PullsWithin
  <2> QED BY <2>1, <2>2
<1>4. PullsWithin(f, h)
  BY <1>2, <1>3 DEF PullsWithin
<1> QED BY <1>4 DEF f

(* One watermark is moved.                                                 *)
LEMMA MarkMoves ==
    ASSUME NEW n \in Node, NEW w, NEW h, MarksWithin(w, h), NEW i \in Position(n), NEW t \in 0 .. h
    PROVE  MarksWithin([w EXCEPT ![n][i] = t], h)
<1> DEFINE f == [w EXCEPT ![n][i] = t]
<1>1. w = [m \in Node |-> w[m]] /\ w[n] \in [Position(n) -> 0 .. h]
  BY DEF MarksWithin
<1>2. /\ f[n] = [w[n] EXCEPT ![i] = t]
      /\ \A m \in Node : m # n => f[m] = w[m]
      /\ f = [m \in Node |-> f[m]]
  BY <1>1
<1> HIDE DEF f
<1>3. f[n] \in [Position(n) -> 0 .. h]
  BY <1>1, <1>2
<1>4. \A m \in Node : f[m] \in [Position(m) -> 0 .. h]
  BY <1>2, <1>3 DEF MarksWithin
<1>5. MarksWithin(f, h)
  BY <1>2, <1>4 DEF MarksWithin
<1> QED BY <1>5 DEF f

(* A batch holds records of the peer.                                      *)
LEMMA BatchHeld ==
    ASSUME NEW p \in Node, NEW since, NEW h, HeldWithin(held, h)
    PROVE  batch(p, since) \in SUBSET Offered /\ DatedBy(batch(p, since), h)
<1> DEFINE H == {held[p][k] : k \in PubKey} \ {NoRecord}
<1>1. H \subseteq Offered /\ DatedBy(H, h)
  BY DEF HeldWithin
<1>2. batch(p, since) \subseteq H
  BY DEF batch, matching
<1> HIDE DEF H
<1> QED BY <1>1, <1>2 DEF DatedBy

(* Store::put takes records that are not dated past the horizon.           *)
LEMMA PutWithin ==
    ASSUME TypeInv, NEW n \in Node, NEW rs \in SUBSET Offered, PutAll(n, rs)
    PROVE  HeldWithin(held', horizon) /\ seen' \in [Node -> SUBSET Offered]
<1> DEFINE T == taken(n, rs)
           f == [k \in PubKey |-> IF \E r \in T : r.key = k
                                  THEN CHOOSE r \in T : r.key = k
                                  ELSE held[n][k]]
<1>1. held \in [Node -> [PubKey -> Offered \union {NoRecord}]] /\ seen \in [Node -> SUBSET Offered]
  BY DEF TypeInv, HeldWithin
<1>2. held' = [held EXCEPT ![n] = f]
      /\ seen' = [seen EXCEPT ![n] = @ \union {r \in rs : admissible(r, now)}]
  BY DEF PutAll
<1>3. T \subseteq Offered /\ \A r \in T : r.issued_at <= horizon
  BY DEF taken, admissible, horizon
<1>4. DatedBy(T, horizon)
  BY <1>3, OfferedFields, SkewIsNat DEF DatedBy, TypeInv
<1> HIDE DEF T
<1>5. \A k \in PubKey : f[k] \in T \/ f[k] = held[n][k]
  OBVIOUS
<1>6. f = [k \in PubKey |-> f[k]]
  OBVIOUS
<1> HIDE DEF f
<1>7. f \in [PubKey -> Offered \union {NoRecord}]
  BY <1>1, <1>3, <1>5, <1>6
<1>8. held' \in [Node -> [PubKey -> Offered \union {NoRecord}]]
      /\ held'[n] = f /\ \A m \in Node : m # n => held'[m] = held[m]
  BY <1>1, <1>2, <1>7
<1>9. \A m \in Node : DatedBy({held'[m][k] : k \in PubKey} \ {NoRecord}, horizon)
  <2> TAKE m \in Node
  <2>1. \A k \in PubKey : held[m][k] # NoRecord => held[m][k].issued_at \in 0 .. horizon
    BY DEF TypeInv, HeldWithin, DatedBy
  <2>2. \A k \in PubKey : held'[m][k] # NoRecord => held'[m][k].issued_at \in 0 .. horizon
    BY <1>4, <1>5, <1>8, <2>1 DEF DatedBy
  <2> QED BY <2>2 DEF DatedBy
<1>10. seen' \in [Node -> SUBSET Offered]
  BY <1>1, <1>2
<1> QED BY <1>8, <1>9, <1>10 DEF HeldWithin

(* Records go, none come.                                                  *)
LEMMA DropWithin ==
    ASSUME NEW h, HeldWithin(held, h), NEW n \in Node, NEW f,
           f = [k \in PubKey |-> f[k]], \A k \in PubKey : f[k] \in {held[n][k], NoRecord}
    PROVE  HeldWithin([held EXCEPT ![n] = f], h)
<1> DEFINE g == [held EXCEPT ![n] = f]
<1>1. f \in [PubKey -> Offered \union {NoRecord}]
  <2>1. \A k \in PubKey : held[n][k] \in Offered \union {NoRecord}
    BY DEF HeldWithin
  <2>2. \A k \in PubKey : f[k] \in Offered \union {NoRecord}
    BY <2>1
  <2> QED BY <2>2
<1>2. g \in [Node -> [PubKey -> Offered \union {NoRecord}]]
      /\ g[n] = f /\ \A m \in Node : m # n => g[m] = held[m]
  BY <1>1 DEF HeldWithin
<1> HIDE DEF g
<1>3. \A m \in Node : DatedBy({g[m][k] : k \in PubKey} \ {NoRecord}, h)
  <2> TAKE m \in Node
  <2>1. \A k \in PubKey : held[m][k] # NoRecord => held[m][k].issued_at \in 0 .. h
    BY DEF HeldWithin, DatedBy
  <2>2. \A k \in PubKey : g[m][k] # NoRecord => g[m][k].issued_at \in 0 .. h
    BY <1>2, <2>1
  <2> QED BY <2>2 DEF DatedBy
<1>4. HeldWithin(g, h)
  BY <1>2, <1>3 DEF HeldWithin
<1> QED BY <1>4 DEF g

(* What is within a horizon is within a later one.                         *)
LEMMA LaterHorizon ==
    ASSUME NEW h \in Nat
    PROVE  /\ \A f : HeldWithin(f, h) => HeldWithin(f, h + 1)
           /\ \A w : MarksWithin(w, h) => MarksWithin(w, h + 1)
           /\ \A q : PullsWithin(q, h) => PullsWithin(q, h + 1)
<1>1. 0 .. h \subseteq 0 .. h + 1
  OBVIOUS
<1>2. \A rs : DatedBy(rs, h) => DatedBy(rs, h + 1)
  BY <1>1 DEF DatedBy
<1>3. \A n : PullStates(n, h) \subseteq PullStates(n, h + 1)
  BY <1>1 DEF PullStates
<1>4. \A n : [Position(n) -> 0 .. h] \subseteq [Position(n) -> 0 .. h + 1]
  BY <1>1
<1>5. \A f : HeldWithin(f, h) => HeldWithin(f, h + 1)
  BY <1>2 DEF HeldWithin
<1>6. \A w : MarksWithin(w, h) => MarksWithin(w, h + 1)
  BY <1>4 DEF MarksWithin
<1>7. \A q : PullsWithin(q, h) => PullsWithin(q, h + 1)
  BY <1>2, <1>3 DEF PullsWithin
<1> QED BY <1>5, <1>6, <1>7

(* Every step of publishing, pushing, pulling, sweeping and restarting     *)
(* keeps the types.                                                        *)
LEMMA NextTypeInv ==
    ASSUME TypeInv, [Next]_vars
    PROVE  TypeInv'
<1>1. now \in Nat /\ horizon \in Nat /\ (now' = now => horizon' = horizon)
  BY SkewIsNat DEF TypeInv, horizon
<1>2. ASSUME NEW n \in Node, NEW r \in Offered, PutAll(n, {r}), mail' \subseteq mail \union pushes(n, r),
             UNCHANGED <<now, watermark, pull, faults>>
      PROVE  TypeInv'
  <2>1. HeldWithin(held', horizon) /\ seen' \in [Node -> SUBSET Offered]
    BY <1>2, PutWithin
  <2>2. pushes(n, r) \subseteq [to : Node, rec : Offered]
    BY PeersAreNodes DEF pushes
  <2>3. MailTyped(mail')
    BY <1>2, <2>2 DEF TypeInv, MailTyped
  <2> QED BY <1>1, <1>2, <2>1, <2>3 DEF TypeInv
<1>3. ASSUME NEW n \in Node, NEW r \in Offered, Publish(n, r)
      PROVE  TypeInv'
  BY <1>2, <1>3 DEF Publish
<1>4. ASSUME NEW m \in mail, Deliver(m)
      PROVE  TypeInv'
  <2>1. m.to \in Node /\ m.rec \in Offered
    BY DEF TypeInv, MailTyped
  <2>2. /\ PutAll(m.to, {m.rec}) /\ UNCHANGED <<now, watermark, pull, faults>>
        /\ mail' \subseteq mail \union pushes(m.to, m.rec)
    BY <1>4 DEF Deliver
  <2> QED BY <1>2, <2>1, <2>2
<1>5. ASSUME NEW m \in mail, Lose(m)
      PROVE  TypeInv'
  BY <1>1, <1>5 DEF Lose, TypeInv, MailTyped
<1>6. ASSUME NEW n \in Node, NEW s \in PullStates(n, horizon),
             s.pc = "apply" => DatedBy(s.records, horizon),
             pull' = [pull EXCEPT ![n] = s],
             UNCHANGED <<now, held, seen, watermark, mail>>, faults' \in 0 .. MaxFaults
      PROVE  TypeInv'
  <2>1. PullsWithin(pull', horizon)
    BY <1>6, PullMoves DEF TypeInv
  <2> QED BY <1>1, <1>6, <2>1 DEF TypeInv
<1>7. ASSUME NEW n \in Node, NEW i, pull' = [pull EXCEPT ![n] = PullOf(n, i, watermark)],
             UNCHANGED <<now, held, seen, watermark, mail>>, faults' \in 0 .. MaxFaults
      PROVE  TypeInv'
  <2>1. PullOf(n, i, watermark) \in PullStates(n, horizon) /\ PullOf(n, i, watermark).pc # "apply"
    BY <1>1, PullOfWithin DEF TypeInv
  <2> QED BY <1>6, <1>7, <2>1
<1>8. faults \in 0 .. MaxFaults /\ (faults < MaxFaults => faults + 1 \in 0 .. MaxFaults)
  BY ReplicationAssumption DEF TypeInv, ReplicationAssumption
<1>9. ASSUME NEW n \in Node, PullStart(n)
      PROVE  TypeInv'
  BY <1>7, <1>8, <1>9 DEF PullStart
<1>10. ASSUME NEW n \in Node, PullFail(n)
       PROVE  TypeInv'
  BY <1>7, <1>8, <1>10 DEF PullFail
<1>11. ASSUME NEW n \in Node, PullTimeout(n)
       PROVE  TypeInv'
  BY <1>7, <1>8, <1>11 DEF PullTimeout
<1>12. ASSUME NEW n \in Node
       PROVE  /\ pull[n] \in PullStates(n, horizon)
              /\ pull[n].pc \in {"ask", "apply"} =>
                    pull[n].turn \in Position(n) /\ pull[n].since \in 0 .. horizon
              /\ pull[n].pc = "apply" =>
                    pull[n].records \in SUBSET Offered /\ DatedBy(pull[n].records, horizon)
  BY DEF TypeInv, PullsWithin, PullStates, Idle
<1>13. ASSUME NEW n \in Node, PullServe(n)
       PROVE  TypeInv'
  <2> DEFINE p == Peers[n][pull[n].turn]
             since == pull[n].since
             rs == batch(p, since)
             s == [pc |-> "apply", turn |-> pull[n].turn, since |-> since, records |-> rs,
                   complete |-> Cardinality(matching(p, since)) <= Limit]
  <2>1. pull[n].turn \in Position(n) /\ since \in 0 .. horizon
    BY <1>12, <1>13 DEF PullServe
  <2>2. p \in Node
    BY <2>1, ReplicationAssumption DEF ReplicationAssumption, Position
  <2>3. rs \in SUBSET Offered /\ DatedBy(rs, horizon)
    BY <2>2, BatchHeld DEF TypeInv
  <2>4. pull' = [pull EXCEPT ![n] = s] /\ UNCHANGED <<now, held, seen, watermark, mail, faults>>
    BY <1>13 DEF PullServe
  <2> HIDE DEF rs, p
  <2>5. s \in PullStates(n, horizon) /\ s.records = rs
    <3> DEFINE whole == Cardinality(matching(p, since)) <= Limit
    <3>1. whole \in BOOLEAN
      OBVIOUS
    <3> HIDE DEF whole
    <3>2. s = [pc |-> "apply", turn |-> pull[n].turn, since |-> since, records |-> rs,
               complete |-> whole]
      BY DEF whole
    <3>3. s \in [pc : {"apply"}, turn : Position(n), since : 0 .. horizon,
                 records : SUBSET Offered, complete : BOOLEAN]
      BY <2>1, <2>3, <3>1, <3>2
    <3> QED BY <3>2, <3>3 DEF PullStates
  <2> HIDE DEF s
  <2> QED BY <1>6, <1>8, <2>3, <2>4, <2>5
<1>14. ASSUME NEW n \in Node, PullApply(n)
       PROVE  TypeInv'
  <2> DEFINE q == pull[n]
             top == high(q.records, q.since)
  <2>1. /\ q.turn \in Position(n) /\ q.since \in 0 .. horizon
        /\ q.records \in SUBSET Offered /\ DatedBy(q.records, horizon)
    BY <1>12, <1>14 DEF PullApply
  <2>2. top \in 0 .. horizon
    BY <1>1, <2>1, HighWithin
  <2>3. /\ PutAll(n, q.records) /\ UNCHANGED <<now, mail, faults>>
        /\ watermark' = [watermark EXCEPT ![n][q.turn] = top]
        /\ \/ pull' = [pull EXCEPT ![n] = PullOf(n, q.turn + 1, watermark')]
           \/ pull' = [pull EXCEPT ![n] = [pc |-> "ask", turn |-> q.turn, since |-> top]]
    BY <1>14 DEF PullApply
  <2> HIDE DEF top
  <2>4. HeldWithin(held', horizon) /\ seen' \in [Node -> SUBSET Offered]
    BY <2>1, <2>3, PutWithin
  <2>5. MarksWithin(watermark', horizon)
    BY <2>1, <2>2, <2>3, MarkMoves DEF TypeInv
  <2>6. PullOf(n, q.turn + 1, watermark') \in PullStates(n, horizon)
        /\ PullOf(n, q.turn + 1, watermark').pc # "apply"
    BY <1>1, <2>5, PullOfWithin
  <2>7. [pc |-> "ask", turn |-> q.turn, since |-> top] \in PullStates(n, horizon)
    BY <2>1, <2>2 DEF PullStates
  <2>8. PullsWithin(pull', horizon)
    BY <2>3, <2>6, <2>7, PullMoves DEF TypeInv
  <2> QED BY <1>1, <2>3, <2>4, <2>5, <2>8 DEF TypeInv
<1>15. ASSUME NEW n \in Node, Purge(n)
       PROVE  TypeInv'
  <2> DEFINE kept == [k \in PubKey |-> IF held[n][k] # NoRecord /\ is_expired(held[n][k], now)
                                       THEN NoRecord ELSE held[n][k]]
  <2>1. held' = [held EXCEPT ![n] = kept] /\ UNCHANGED <<now, seen, watermark, pull, mail, faults>>
    BY <1>15 DEF Purge
  <2>2. kept = [k \in PubKey |-> kept[k]] /\ \A k \in PubKey : kept[k] \in {held[n][k], NoRecord}
    OBVIOUS
  <2> HIDE DEF kept
  <2>3. HeldWithin(held', horizon)
    BY <2>1, <2>2, DropWithin DEF TypeInv
  <2> QED BY <1>1, <2>1, <2>3 DEF TypeInv
<1>16. ASSUME NEW n \in Node, Restart(n)
       PROVE  TypeInv'
  <2> DEFINE kept == [k \in PubKey |-> IF held[n][k] # NoRecord /\ admissible(held[n][k], now)
                                       THEN held[n][k] ELSE NoRecord]
             zero == [i \in Position(n) |-> 0]
  <2>1. /\ held' = [held EXCEPT ![n] = kept]
        /\ seen' = [seen EXCEPT ![n] = {kept[k] : k \in PubKey} \ {NoRecord}]
        /\ watermark' = [watermark EXCEPT ![n] = zero]
        /\ pull' = [pull EXCEPT ![n] = Idle]
        /\ faults' \in 0 .. MaxFaults /\ UNCHANGED <<now, mail>>
    BY <1>8, <1>16 DEF Restart
  <2>2. kept = [k \in PubKey |-> kept[k]] /\ \A k \in PubKey : kept[k] \in {held[n][k], NoRecord}
    OBVIOUS
  <2> HIDE DEF kept
  <2>3. HeldWithin(held', horizon)
    BY <2>1, <2>2, DropWithin DEF TypeInv
  <2>4. {kept[k] : k \in PubKey} \ {NoRecord} \subseteq Offered
    BY <2>2 DEF TypeInv, HeldWithin
  <2>5. seen' \in [Node -> SUBSET Offered]
    BY <2>1, <2>4 DEF TypeInv
  <2>6. zero \in [Position(n) -> 0 .. horizon]
    BY <1>1
  <2> HIDE DEF zero
  <2>7. MarksWithin(watermark', horizon)
    BY <2>1, <2>6 DEF TypeInv, MarksWithin
  <2>8. Idle \in PullStates(n, horizon) /\ Idle.pc # "apply"
    BY DEF PullStates, Idle
  <2>9. PullsWithin(pull', horizon)
    BY <2>1, <2>8, PullMoves DEF TypeInv
  <2> QED BY <1>1, <2>1, <2>3, <2>5, <2>7, <2>9 DEF TypeInv
<1>17. CASE Tick
  <2>1. now' = now + 1 /\ UNCHANGED <<held, seen, watermark, pull, mail, faults>>
    BY <1>17 DEF Tick
  <2>2. now' \in Nat /\ horizon' = horizon + 1
    BY <1>1, <2>1, BoundsAssumption DEF horizon, BoundsAssumption
  <2> QED BY <1>1, <2>1, <2>2, LaterHorizon DEF TypeInv
<1>18. CASE UNCHANGED vars
  BY <1>1, <1>18 DEF vars, TypeInv
<1> QED
  BY <1>3, <1>4, <1>5, <1>9, <1>10, <1>11, <1>13, <1>14, <1>15, <1>16, <1>17, <1>18 DEF Next

(* Every record a server holds or pulls is one that was offered and is not *)
(* dated past the horizon, and no watermark or cursor is ahead of it, for  *)
(* any number of servers, records, faults and restarts.                    *)
THEOREM TypeCorrect == Spec => []TypeOK
<1>1. Init => TypeInv
  <2> SUFFICES ASSUME Init PROVE TypeInv
    OBVIOUS
  <2>1. now \in Nat /\ horizon \in Nat /\ faults \in 0 .. MaxFaults
    BY SkewIsNat, ReplicationAssumption DEF Init, ReplicationAssumption
  <2>2. HeldWithin(held, horizon)
    BY DEF Init, HeldWithin, Empty, DatedBy
  <2>3. MarksWithin(watermark, horizon)
    BY <2>1 DEF Init, MarksWithin
  <2>4. PullsWithin(pull, horizon)
    BY DEF Init, PullsWithin, PullStates, Idle
  <2> QED BY <2>1, <2>2, <2>3, <2>4 DEF Init, TypeInv, MailTyped
<1>2. TypeInv /\ [Next]_vars => TypeInv'
  BY NextTypeInv
<1> QED
  BY <1>1, <1>2, TypeInvTypes, PTL DEF Spec
=============================================================================
