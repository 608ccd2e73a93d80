---------------------------- MODULE Replication ----------------------------
(***************************************************************************)
(* Replication between sqnsd servers (crates/sqnsd/src/replication.rs and  *)
(* handle_publish in server.rs): a record accepted by one server is pushed *)
(* to its peers, and every server pulls its peers' records on a timer, one *)
(* peer after the other, from the highest `issued_at' it has pulled so far.*)
(*                                                                         *)
(* A put is one step here; Store has its inner steps.  Every key has one   *)
(* identity, so the binding check always passes.  A push may be late,      *)
(* lost, or sent twice (PeerLink::request dials again and repeats it).     *)
(* The exchange with a peer that is silent ends when QUIC gives it up.     *)
(***************************************************************************)
EXTENDS Merge, FiniteSets, Sequences

CONSTANTS
    Node,       \* the servers
    Peers,      \* the peers each one is configured with, in order
    Silent,     \* the servers that can be reached no more
    Offered,    \* the records publishers may ever present
    KeyOrder,   \* the order of keys, which breaks ties in a sync batch
    Limit,      \* MAX_SYNC_BATCH
    MaxTime,    \* bound on the clock
    MaxFaults,  \* bound on failed pulls and restarts
    Prompt      \* is every record published in the second it was issued

ASSUME ReplicationAssumption ==
    /\ Peers \in [Node -> Seq(Node)]
    /\ Silent \subseteq Node
    /\ Offered \subseteq Record
    /\ \A r, s \in Offered : r.key = s.key => r.identity = s.identity
    /\ KeyOrder \in [PubKey -> Nat]
    /\ Limit \in Nat \ {0}
    /\ MaxTime \in Nat
    /\ MaxFaults \in Nat
    /\ Prompt \in BOOLEAN

VARIABLES
    now,         \* the clock of all servers
    held,        \* Store::records of each server
    seen,        \* history: the records each server has been offered and found good
    watermark,   \* Peer::watermark, for each peer of each server
    pull,        \* where each server's pull loop is
    mail,        \* pushes on their way
    faults       \* failed pulls and restarts so far

vars == <<now, held, seen, watermark, pull, mail, faults>>

-----------------------------------------------------------------------------
(* The loop waits for its timer.                                           *)
Idle == [pc |-> "idle"]

Position(n) == 1 .. Len(Peers[n])

(* The servers that n reaches among its peers.                             *)
PeersOf(n) == {Peers[n][i] : i \in Position(n)} \ Silent

Empty == [k \in PubKey |-> NoRecord]

(* Store::put of each record of rs on server n.  The records have          *)
(* different keys, so their order does not matter.                         *)
taken(n, rs) ==
    {r \in rs : admissible(r, now) /\ mergeable(r, held[n][r.key], r.identity)}

PutAll(n, rs) ==
    /\ held' = [held EXCEPT ![n] =
          [k \in PubKey |-> IF \E r \in taken(n, rs) : r.key = k
                            THEN CHOOSE r \in taken(n, rs) : r.key = k
                            ELSE held[n][k]]]
    /\ seen' = [seen EXCEPT ![n] = @ \union {r \in rs : admissible(r, now)}]

(* handle_publish spawns a push to every peer when the record was stored.  *)
pushes(n, r) == IF r \in taken(n, {r}) THEN [to : PeersOf(n), rec : {r}] ELSE {}

(* Store::since: (issued_at, key) order, oldest first, at most Limit.      *)
matching(n, since) ==
    {r \in {held[n][k] : k \in PubKey} \ {NoRecord} :
        r.issued_at >= since /\ ~is_expired(r, now)}

precedes(r, s) ==
    \/ r.issued_at < s.issued_at
    \/ r.issued_at = s.issued_at /\ KeyOrder[r.key] < KeyOrder[s.key]

batch(n, since) ==
    LET found == matching(n, since) IN
    {r \in found : Cardinality({s \in found : precedes(s, r)}) < Limit}

(* The greatest issued_at of a batch, or `since' if the batch is empty.    *)
high(rs, since) ==
    IF rs = {} THEN since
    ELSE CHOOSE t \in {r.issued_at : r \in rs} : \A r \in rs : r.issued_at <= t

-----------------------------------------------------------------------------
(* A publisher reaches server n.                                           *)
Publish(n, r) ==
    /\ n \notin Silent
    /\ Prompt => r.issued_at = now
    /\ admissible(r, now)
    /\ PutAll(n, {r})
    /\ mail' = mail \union pushes(n, r)
    /\ UNCHANGED <<now, watermark, pull, faults>>

(* A push arrives, and is treated as any publish.  If its answer is lost   *)
(* it is sent again.                                                       *)
Deliver(m) ==
    /\ PutAll(m.to, {m.rec})
    /\ \E rest \in {mail, mail \ {m}} : mail' = rest \union pushes(m.to, m.rec)
    /\ UNCHANGED <<now, watermark, pull, faults>>

(* "Failures are logged, not retried".                                     *)
Lose(m) ==
    /\ mail' = mail \ {m}
    /\ UNCHANGED <<now, held, seen, watermark, pull, faults>>

-----------------------------------------------------------------------------
(***************************************************************************)
(* Replicator::run of server n, which pulls its peers in turn, and pull.   *)
(***************************************************************************)
(* Mutant: the cursor goes back one second, below 0 too.                   *)
PullOf_below(n, i, marks) ==
    IF i \in Position(n) THEN [pc |-> "ask", turn |-> i, since |-> marks[n][i] - 1] ELSE Idle

(* The i-th peer is asked from its watermark on; after the last one the    *)
(* loop waits.                                                             *)
PullOf(n, i, marks) ==
    IF i \in Position(n) THEN [pc |-> "ask", turn |-> i, since |-> marks[n][i]] ELSE Idle

PullStart(n) ==
    /\ pull[n] = Idle
    /\ Peers[n] # <<>>
    /\ pull' = [pull EXCEPT ![n] = PullOf(n, 1, watermark)]
    /\ UNCHANGED <<now, held, seen, watermark, mail, faults>>

(* The peer answers the Sync request.                                      *)
PullServe(n) ==
    /\ pull[n].pc = "ask"
    /\ LET p == Peers[n][pull[n].turn]
           since == pull[n].since
       IN /\ p \notin Silent
          /\ pull' = [pull EXCEPT ![n] =
                [pc |-> "apply", turn |-> pull[n].turn, since |-> since,
                 records |-> batch(p, since),
                 complete |-> Cardinality(matching(p, since)) <= Limit]]
    /\ UNCHANGED <<now, held, seen, watermark, mail, faults>>

(* The answer is applied and the watermark moved, whether or not the       *)
(* records were accepted.  A full batch is followed by another request,    *)
(* unless the cursor did not move.                                         *)
PullApply(n) ==
    /\ pull[n].pc = "apply"
    /\ LET q == pull[n]
           top == high(q.records, q.since)
       IN
       /\ PutAll(n, q.records)
       /\ watermark' = [watermark EXCEPT ![n][q.turn] = top]
       /\ pull' = [pull EXCEPT ![n] =
             IF q.complete \/ top <= q.since
             THEN PullOf(n, q.turn + 1, watermark')
             ELSE [pc |-> "ask", turn |-> q.turn, since |-> top]]
    /\ UNCHANGED <<now, mail, faults>>

(* The request or its answer is lost, and the next peer is up.             *)
PullFail(n) ==
    /\ pull[n] # Idle
    /\ pull' = [pull EXCEPT ![n] = PullOf(n, pull[n].turn + 1, watermark)]
    /\ faults < MaxFaults
    /\ faults' = faults + 1
    /\ UNCHANGED <<now, held, seen, watermark, mail>>

(* Mutant: the error of one peer ends the round.                           *)
PullTimeout_round(n) ==
    /\ pull[n].pc = "ask"
    /\ Peers[n][pull[n].turn] \in Silent
    /\ pull' = [pull EXCEPT ![n] = Idle]
    /\ UNCHANGED <<now, held, seen, watermark, mail, faults>>

(* A silent peer's connection cannot be made or runs into its timeout.     *)
PullTimeout(n) ==
    /\ pull[n].pc = "ask"
    /\ Peers[n][pull[n].turn] \in Silent
    /\ pull' = [pull EXCEPT ![n] = PullOf(n, pull[n].turn + 1, watermark)]
    /\ UNCHANGED <<now, held, seen, watermark, mail, faults>>

-----------------------------------------------------------------------------
(* purge_expired on server n.                                              *)
Purge(n) ==
    LET kept == [k \in PubKey |->
                    IF held[n][k] # NoRecord /\ is_expired(held[n][k], now)
                    THEN NoRecord ELSE held[n][k]]
    IN
    /\ kept # held[n]
    /\ held' = [held EXCEPT ![n] = kept]
    /\ UNCHANGED <<now, seen, watermark, pull, mail, faults>>

(* Server n is stopped and started: the final snapshot is read back, and   *)
(* the watermarks start from 0 again.  The pushes it had still to make are *)
(* gone, which Lose allows at any time.                                    *)
Restart(n) ==
    LET kept == [k \in PubKey |->
                    IF held[n][k] # NoRecord /\ admissible(held[n][k], now)
                    THEN held[n][k] ELSE NoRecord]
    IN
    /\ n \notin Silent
    /\ held' = [held EXCEPT ![n] = kept]
    /\ seen' = [seen EXCEPT ![n] = {kept[k] : k \in PubKey} \ {NoRecord}]
    /\ watermark' = [watermark EXCEPT ![n] = [i \in Position(n) |-> 0]]
    /\ pull' = [pull EXCEPT ![n] = Idle]
    /\ faults < MaxFaults
    /\ faults' = faults + 1
    /\ UNCHANGED <<now, mail>>

Tick ==
    /\ now < MaxTime
    /\ now' = now + 1
    /\ UNCHANGED <<held, seen, watermark, pull, mail, faults>>

Init ==
    /\ now = 0
    /\ held = [n \in Node |-> Empty]
    /\ seen = [n \in Node |-> {}]
    /\ watermark = [n \in Node |-> [i \in Position(n) |-> 0]]
    /\ pull = [n \in Node |-> Idle]
    /\ mail = {}
    /\ faults = 0

Next ==
    \/ \E n \in Node, r \in Offered : Publish(n, r)
    \/ \E m \in mail : Deliver(m) \/ Lose(m)
    \/ \E n \in Node : PullStart(n) \/ PullServe(n) \/ PullApply(n) \/ PullFail(n) \/ PullTimeout(n)
    \/ \E n \in Node : Purge(n) \/ Restart(n)
    \/ Tick

Spec == Init /\ [][Next]_vars

-----------------------------------------------------------------------------
(***************************************************************************)
(* Properties.                                                             *)
(***************************************************************************)
(* The latest date a record may carry and be accepted.                     *)
horizon == now + MaxClockSkew

(* The types of the variables.  Watermarks and the cursors of pulls are    *)
(* never ahead of the dates that servers accept, although a pull takes     *)
(* them from the peer's answer.                                            *)
TypeOK ==
    /\ now \in Nat
    /\ held \in [Node -> [PubKey -> Offered \union {NoRecord}]]
    /\ seen \in [Node -> SUBSET Offered]
    /\ \A n \in Node : watermark[n] \in [Position(n) -> 0 .. horizon]
    /\ \A n \in Node : pull[n] \in {Idle}
          \union [pc : {"ask"}, turn : Position(n), since : 0 .. horizon]
          \union [pc : {"apply"}, turn : Position(n), since : 0 .. horizon,
                  records : SUBSET Offered, complete : BOOLEAN]
    /\ mail \subseteq [to : Node, rec : Offered]
    /\ faults \in 0 .. MaxFaults

(* Store::get.                                                             *)
get(n, k) ==
    IF held[n][k] # NoRecord /\ ~is_expired(held[n][k], now) THEN held[n][k] ELSE NoRecord

seen_for(n, k) == {r \in seen[n] : r.key = k}

(* "A record is accepted only if it beats the one already held, which      *)
(* makes replication order-independent and replay-safe" (store.rs:6-7):    *)
(* two servers that have been offered the same records for a key, in any   *)
(* order, at any times, answer a lookup of it alike.                       *)
OrderIndependent ==
    \A n, m \in Node, k \in PubKey :
        seen_for(n, k) = seen_for(m, k) => get(n, k) = get(m, k)

(* The timer of the pull loop fires, a request that does not fail is       *)
(* answered, and connections have timeouts.                                *)
Fairness ==
    \A n \in Node :
        /\ WF_vars(PullStart(n))
        /\ WF_vars(PullServe(n))
        /\ WF_vars(PullApply(n))
        /\ WF_vars(PullTimeout(n))

FairSpec == Spec /\ Fairness

(* Server n needs nothing of r: it has something r does not beat, or r     *)
(* would be refused for its age.                                           *)
Settled(n, r) ==
    \/ ~admissible(r, now)
    \/ ~mergeable(r, held[n][r.key], r.identity)

(* "Failures are logged, not retried: the next anti-entropy pull picks up  *)
(* whatever a push could not deliver" (replication.rs:67-68): what a peer  *)
(* holds, and goes on holding, reaches every server that pulls from it,    *)
(* although peers that hang are asked before it in every round.            *)
PullsCatchUp ==
    \A n \in Node : \A p \in PeersOf(n) : \A r \in Offered :
        held[p][r.key] = r ~> (held[p][r.key] # r \/ Settled(n, r))
=============================================================================
