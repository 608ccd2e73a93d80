------------------------------ MODULE Forward ------------------------------
(***************************************************************************)
(* A lookup of one key travelling through servers that do not hold it:     *)
(* the Lookup handler of server.rs, Upstream::lookup (upstream.rs) and the *)
(* pooled connections it goes through (link.rs), in a network of servers   *)
(* whose upstreams may form a cycle.                                       *)
(*                                                                         *)
(* Every handler is a task of its own.  A task that asks an upstream takes *)
(* a permit of the server's semaphore, then the mutex of the pooled        *)
(* connection, and keeps both until the answer, an error or the timeout.   *)
(* The handler that its n-th request starts is the task Append(t, n).  A   *)
(* task whose caller has given up runs on, and nobody reads its answer.    *)
(*                                                                         *)
(* The records of the key differ in the identity that delegated it, which  *)
(* is all that Upstream::accept compares with the store.  Times to live    *)
(* are abstracted to entries that may run out at any moment.               *)
(***************************************************************************)
EXTENDS Naturals, Sequences, FiniteSets

CONSTANTS
    Server,      \* the servers
    Upstreams,   \* the upstreams each one is configured with, in order
    Identity,    \* the identities that have delegated the key
    Held,        \* what each server's store holds at first
    Down,        \* the servers that cannot be reached
    Client,      \* the lookups clients make
    Entry,       \* the servers each lookup may be sent to first
    Budgets,     \* the hop budgets they send
    MaxRecurse,  \* MAX_RECURSE, what a budget is cut to when a request is read
    Width,       \* bound on the upstreams of a server
    Permits,     \* max_upstream_inflight
    Caching,     \* upstream_cache
    MaxChanges,  \* bound on the changes to stores
    None,        \* no record, no identity
    NoTask       \* a pooled connection nobody uses

(* The names of tasks: a lookup, and the requests that led to the task.    *)
(* A task sends every upstream at most two requests.                       *)
Path == UNION {[1 .. n -> 1 .. 2 * Width] : n \in 0 .. MaxRecurse}

Name == UNION {{<<c>> \o p : p \in Path} : c \in Client}

ASSUME ForwardAssumption ==
    /\ Upstreams \in [Server -> Seq(Server)]
    /\ None \notin Identity
    /\ NoTask \notin Name
    /\ Identity \intersect {"pending", "none", "error", "empty", "missing"} = {}
    /\ Held \in [Server -> Identity \union {None}]
    /\ Down \subseteq Server
    /\ Budgets \subseteq Nat
    /\ MaxRecurse \in Nat
    /\ Width \in Nat
    /\ \A s \in Server : Len(Upstreams[s]) <= Width
    /\ Permits \in Nat \ {0}
    /\ Caching \in BOOLEAN
    /\ MaxChanges \in Nat

ASSUME EntryAssumption == Entry \in [Client -> SUBSET Server]

VARIABLES
    store,     \* whose record of the key each server's own store answers with
    bound,     \* the identity each server has bound the key to
    task,      \* the handlers that have been started, by name
    link,      \* the task that has locked each server's link to each upstream
    pooled,    \* the links that hold an open connection
    permits,   \* what is left of each server's semaphore
    cache,     \* the relay cache: whose record, "missing" or "empty"
    disturbed, \* history: did a request fail, or an absence come from a cache
    changes    \* history: how often a store changed

held == <<store, bound, changes>>
vars == <<store, bound, task, link, pooled, permits, cache, disturbed, changes>>

-----------------------------------------------------------------------------
Task == DOMAIN task

fanout(s) == Len(Upstreams[s])

(* A handler that has just read its request.                               *)
Started(s, recurse) ==
    [at |-> s, recurse |-> recurse, pc |-> "start", idx |-> 0, sent |-> 0,
     answered |-> 0, result |-> "pending"]

Answer(t, result) ==
    task' = [task EXCEPT ![t] = [@ EXCEPT !.pc = "done", !.result = result]]

(* Mutant: forwarding does not spend a hop.                                *)
Forwarded_free(t, h) ==
    LET u == Upstreams[h.at][h.idx]
        child == IF u \in Down THEN {} ELSE {Append(t, h.sent)}
    IN
    task' = [x \in Task \union child |->
                CASE x = t -> h
                  [] x \in child -> Started(u, h.recurse)
                  [] OTHER -> task[x]]

(* Task t becomes h, which has just sent one more request to its upstream, *)
(* with one hop spent.                                                     *)
Forwarded(t, h) ==
    LET u == Upstreams[h.at][h.idx]
        child == IF u \in Down THEN {} ELSE {Append(t, h.sent)}
    IN
    task' = [x \in Task \union child |->
                CASE x = t -> h
                  [] x \in child -> Started(u, h.recurse - 1)
                  [] OTHER -> task[x]]

-----------------------------------------------------------------------------
(* A record is published to server s, unless the key is bound to somebody  *)
(* else there.                                                             *)
Publish(s, i) ==
    /\ changes < MaxChanges
    /\ store[s] = None
    /\ bound[s] \in {None, i}
    /\ store' = [store EXCEPT ![s] = i]
    /\ bound' = [bound EXCEPT ![s] = i]
    /\ changes' = changes + 1
    /\ UNCHANGED <<task, link, pooled, permits, cache, disturbed>>

(* The record at server s expires; the binding outlives it.                *)
Lapse(s) ==
    /\ changes < MaxChanges
    /\ store[s] # None
    /\ store' = [store EXCEPT ![s] = None]
    /\ changes' = changes + 1
    /\ UNCHANGED <<bound, task, link, pooled, permits, cache, disturbed>>

(* A client's request arrives at server s.                                 *)
Ask(c, s) ==
    /\ <<c>> \notin Task
    /\ \E n \in Budgets :
          LET recurse == IF n > MaxRecurse THEN MaxRecurse ELSE n IN
          task' = [x \in Task \union {<<c>>} |-> IF x = <<c>> THEN Started(s, recurse) ELSE task[x]]
    /\ UNCHANGED <<held, link, pooled, permits, cache, disturbed>>

(* Mutant: the last hop is not spent.                                      *)
AnswerOwn_early(t) ==
    LET h == task[t] IN
    /\ h.pc = "start"
    /\ \/ store[h.at] # None /\ Answer(t, store[h.at])
       \/ store[h.at] = None /\ (h.recurse <= 1 \/ fanout(h.at) = 0) /\ Answer(t, "none")
    /\ UNCHANGED <<held, link, pooled, permits, cache, disturbed>>

(* The store answers, or there is nobody to ask or no hop left to spend.   *)
AnswerOwn(t) ==
    LET h == task[t] IN
    /\ h.pc = "start"
    /\ \/ store[h.at] # None /\ Answer(t, store[h.at])
       \/ store[h.at] = None /\ (h.recurse = 0 \/ fanout(h.at) = 0) /\ Answer(t, "none")
    /\ UNCHANGED <<held, link, pooled, permits, cache, disturbed>>

(* The key is not held here and may be asked for upstream.                 *)
Miss(h) == h.pc = "start" /\ store[h.at] = None /\ h.recurse > 0 /\ fanout(h.at) > 0

AnswerCached(t) ==
    LET h == task[t] IN
    /\ Miss(h)
    /\ cache[h.at] # "empty"
    /\ Answer(t, IF cache[h.at] = "missing" THEN "none" ELSE cache[h.at])
    /\ disturbed' = (disturbed \/ cache[h.at] = "missing")
    /\ UNCHANGED <<held, link, pooled, permits, cache>>

AskUpstream(t) ==
    LET h == task[t] IN
    /\ Miss(h)
    /\ cache[h.at] = "empty"
    /\ task' = [task EXCEPT ![t] = [@ EXCEPT !.pc = "permit", !.idx = 1]]
    /\ UNCHANGED <<held, link, pooled, permits, cache, disturbed>>

(* inflight.acquire().                                                     *)
Acquire(t) ==
    LET h == task[t] IN
    /\ h.pc = "permit"
    /\ permits[h.at] > 0
    /\ permits' = [permits EXCEPT ![h.at] = @ - 1]
    /\ task' = [task EXCEPT ![t] = [@ EXCEPT !.pc = "lock"]]
    /\ UNCHANGED <<held, link, pooled, cache, disturbed>>

(* PeerLink::request: the mutex, then the exchange, on the pooled          *)
(* connection or on a new one.                                             *)
Send(t) ==
    LET h == [task[t] EXCEPT !.pc = "wait", !.sent = @ + 1] IN
    /\ task[t].pc = "lock"
    /\ link[h.at][h.idx] = NoTask
    /\ link' = [link EXCEPT ![h.at] = [@ EXCEPT ![h.idx] = t]]
    /\ Forwarded(t, h)
    /\ UNCHANGED <<held, pooled, permits, cache, disturbed>>

(* The exchange on the pooled connection fails, maybe after the request    *)
(* was read at the other end: it is dialed anew and the request sent again.*)
Redial(t) ==
    LET h == [task[t] EXCEPT !.sent = @ + 1] IN
    /\ h.pc = "wait"
    /\ pooled[h.at][h.idx]
    /\ pooled' = [pooled EXCEPT ![h.at] = [@ EXCEPT ![h.idx] = FALSE]]
    /\ Forwarded(t, h)
    /\ disturbed' = TRUE
    /\ UNCHANGED <<held, link, permits, cache>>

-----------------------------------------------------------------------------
(* The mutex and the permit are given back.                                *)
Release(t) ==
    LET h == task[t] IN
    /\ link' = IF link[h.at][h.idx] = t
               THEN [link EXCEPT ![h.at] = [@ EXCEPT ![h.idx] = NoTask]] ELSE link
    /\ permits' = [permits EXCEPT ![h.at] = @ + 1]

(* Mutant: a negative is remembered when some upstream answered.           *)
GoOn_partial(t, n) ==
    LET h == task[t]
        next == [h EXCEPT !.pc = "permit", !.idx = h.idx + 1, !.answered = n]
        end(result) == [h EXCEPT !.pc = "done", !.answered = n, !.result = result]
    IN
    IF h.idx < fanout(h.at)
    THEN task' = [task EXCEPT ![t] = next] /\ UNCHANGED cache
    ELSE /\ task' = [task EXCEPT ![t] = end(IF n > 0 THEN "none" ELSE "error")]
         /\ cache' = IF Caching /\ n > 0
                     THEN [cache EXCEPT ![h.at] = "missing"] ELSE cache

(* On to the next upstream, or the end of the list, with n answers so far. *)
(* A negative is remembered only if every upstream answered.               *)
GoOn(t, n) ==
    LET h == task[t]
        next == [h EXCEPT !.pc = "permit", !.idx = h.idx + 1, !.answered = n]
        end(result) == [h EXCEPT !.pc = "done", !.answered = n, !.result = result]
    IN
    IF h.idx < fanout(h.at)
    THEN task' = [task EXCEPT ![t] = next] /\ UNCHANGED cache
    ELSE /\ task' = [task EXCEPT ![t] = end(IF n > 0 THEN "none" ELSE "error")]
         /\ cache' = IF Caching /\ n = fanout(h.at)
                     THEN [cache EXCEPT ![h.at] = "missing"] ELSE cache

(* Mutant: what an upstream answers is relayed unchecked.                  *)
accept_any(s, i) == TRUE

(* Upstream::accept: the answer is not about another identity's key.       *)
accept(s, i) == bound[s] \in {None, i}

(* The upstream answered.  An answer that is refused counts as one.        *)
Receive(t) ==
    LET h == task[t]
        child == Append(t, h.sent)
    IN
    /\ h.pc = "wait"
    /\ child \in Task
    /\ task[child].pc = "done"
    /\ Release(t)
    /\ pooled' = [pooled EXCEPT ![h.at] = [@ EXCEPT ![h.idx] = TRUE]]
    /\ LET answer == task[child].result IN
       CASE answer = "none" -> GoOn(t, h.answered + 1)
         [] answer = "error" -> GoOn(t, h.answered)
         [] answer \in Identity /\ ~accept(h.at, answer) -> GoOn(t, h.answered + 1)
         [] answer \in Identity /\ accept(h.at, answer) ->
              /\ Answer(t, answer)
              /\ cache' = IF Caching THEN [cache EXCEPT ![h.at] = answer] ELSE cache
    /\ UNCHANGED <<held, disturbed>>

(* Mutant: the timeout covers the exchange but not the wait for the mutex, *)
(* and does not unlock it.                                                 *)
TimeOut_locked(t) ==
    LET h == task[t] IN
    /\ h.pc = "wait"
    /\ permits' = [permits EXCEPT ![h.at] = @ + 1]
    /\ GoOn(t, h.answered)
    /\ disturbed' = TRUE
    /\ UNCHANGED <<held, link, pooled>>

(* Mutant: a request that timed out keeps its permit.                      *)
TimeOut_leak(t) ==
    LET h == task[t] IN
    /\ h.pc \in {"lock", "wait"}
    /\ link' = IF link[h.at][h.idx] = t
               THEN [link EXCEPT ![h.at] = [@ EXCEPT ![h.idx] = NoTask]] ELSE link
    /\ GoOn(t, h.answered)
    /\ disturbed' = TRUE
    /\ UNCHANGED <<held, pooled, permits>>

(* Mutant: there is no timeout.                                            *)
TimeOut_never(t) == FALSE /\ UNCHANGED vars

(* The timeout, which also covers the wait for the mutex, ran out.         *)
TimeOut(t) ==
    /\ task[t].pc \in {"lock", "wait"}
    /\ Release(t)
    /\ GoOn(t, task[t].answered)
    /\ disturbed' = TRUE
    /\ UNCHANGED <<held, pooled>>

(* No connection can be made, or the exchange on a new one failed.         *)
RequestFails(t) ==
    /\ task[t].pc = "wait"
    /\ ~pooled[task[t].at][task[t].idx]
    /\ Release(t)
    /\ GoOn(t, task[t].answered)
    /\ disturbed' = TRUE
    /\ UNCHANGED <<held, pooled>>

(* A cache entry runs out.                                                 *)
Forget(s) ==
    /\ cache[s] # "empty"
    /\ cache' = [cache EXCEPT ![s] = "empty"]
    /\ UNCHANGED <<held, task, link, pooled, permits, disturbed>>

-----------------------------------------------------------------------------
Init ==
    /\ store = Held
    /\ bound = Held
    /\ task = [t \in {} |-> Started(CHOOSE s \in Server : TRUE, 0)]
    /\ link = [s \in Server |-> [i \in 1 .. fanout(s) |-> NoTask]]
    /\ pooled = [s \in Server |-> [i \in 1 .. fanout(s) |-> FALSE]]
    /\ permits = [s \in Server |-> Permits]
    /\ cache = [s \in Server |-> "empty"]
    /\ disturbed = FALSE
    /\ changes = 0

Step(t) ==
    \/ AnswerOwn(t)
    \/ AnswerCached(t)
    \/ AskUpstream(t)
    \/ Acquire(t)
    \/ Send(t)
    \/ Receive(t)
    \/ TimeOut(t)

Next ==
    \/ \E s \in Server, i \in Identity : Publish(s, i)
    \/ \E s \in Server : Lapse(s)
    \/ \E c \in Client : \E s \in Entry[c] \ Down : Ask(c, s)
    \/ \E t \in Task : Step(t) \/ Redial(t) \/ RequestFails(t)
    \/ \E s \in Server : Forget(s)

Spec == Init /\ [][Next]_vars

-----------------------------------------------------------------------------
(***************************************************************************)
(* Properties.                                                             *)
(***************************************************************************)
(* The types of the variables.  A task's name is no longer than the hop    *)
(* budget allows: "loops terminate because a lookup carries a hop budget"  *)
(* (README.md:458).                                                        *)
TypeOK ==
    /\ store \in [Server -> Identity \union {None}]
    /\ bound \in [Server -> Identity \union {None}]
    /\ Task \subseteq Name
    /\ \A t \in Task : task[t] \in
          [at : Server, recurse : 0 .. MaxRecurse,
           pc : {"start", "permit", "lock", "wait", "done"},
           idx : 0 .. Width, sent : 0 .. 2 * Width, answered : 0 .. Width,
           result : Identity \union {"pending", "none", "error"}]
    /\ \A s \in Server :
          /\ link[s] \in [1 .. fanout(s) -> Task \union {NoTask}]
          /\ pooled[s] \in [1 .. fanout(s) -> BOOLEAN]
    /\ permits \in [Server -> 0 .. Permits]
    /\ cache \in [Server -> Identity \union {"empty", "missing"}]
    /\ disturbed \in BOOLEAN
    /\ changes \in 0 .. MaxChanges

(* "Caps how many upstream queries are in flight at once" (upstream.rs:42- *)
(* 44): what is left of the semaphore and the queries in flight add up to  *)
(* the cap, through answers, refusals, errors and timeouts.                *)
PermitsAddUp ==
    \A s \in Server :
        permits[s] + Cardinality({t \in Task : task[t].at = s /\ task[t].pc \in {"lock", "wait"}})
            = Permits

(* A pooled connection is locked by the one task that waits for an answer  *)
(* on it (link.rs:47-68), and by none once that task has given up.         *)
LinkIsTheWaiters ==
    \A s \in Server : \A i \in 1 .. fanout(s), t \in Task :
        link[s][i] = t <=> task[t].at = s /\ task[t].idx = i /\ task[t].pc = "wait"

(* A lookup at server s with n hops to spend can find the key: there is a  *)
(* route of at most n hops through servers that can be reached, to one     *)
(* whose store holds it.                                                   *)
reaches(s, n) ==
    \E k \in 0 .. n : \E p \in [0 .. k -> Server] :
        /\ p[0] = s
        /\ store[p[k]] # None
        /\ \A i \in 1 .. k :
              p[i] \notin Down /\ \E j \in 1 .. fanout(p[i - 1]) : Upstreams[p[i - 1]][j] = p[i]

(* "A chain resolves while the budget lasts" (sqnsd/tests/e2e.rs:843):     *)
(* while nothing fails or changes, a lookup that ends with `no record' had *)
(* no server that holds the key within its budget.  An absence from a      *)
(* relay cache may have been found with fewer hops, and is left out.       *)
ChainResolves ==
    ~disturbed /\ changes = 0 =>
        \A t \in Task : task[t].result = "none" => ~reaches(task[t].at, task[t].recurse)

(* "Only remember a negative when every upstream actually answered.  An    *)
(* upstream that was unreachable might have had it" (upstream.rs:158-159): *)
(* while the stores stay as they are, an absence in the relay cache is     *)
(* true of every upstream itself, whatever failed on the way to it; the    *)
(* absence that is given when some upstream was silent is not remembered.  *)
NegativeIsTrue ==
    changes = 0 => \A s \in Server : cache[s] = "missing" =>
        \A i \in 1 .. fanout(s) : store[Upstreams[s][i]] = None

(* "A relaying server does check what it passes on, including ... whether  *)
(* the answer matches the identity that key was first bound to here"       *)
(* (README.md:443-445): an answer that contradicts the binding of the      *)
(* server that gives it can only come out of its relay cache, from before  *)
(* the key was bound, and never from an upstream that answers late.        *)
BindingIsRelayed ==
    [][\A t \in DOMAIN task' :
          LET h == task'[t] IN
          h.result \in Identity /\ (t \in Task => task[t].result = "pending")
              => bound[h.at] \in {None, h.result} \/ cache[h.at] = h.result]_vars

(* A task that can do something does it: the runtime polls it, and timers  *)
(* fire.  That a connection fails is not promised.                         *)
Fairness == \A t \in Name : WF_vars(t \in Task /\ Step(t))

FairSpec == Spec /\ Fairness

(* "A cycle must terminate rather than hang" (sqnsd/tests/e2e.rs:837): a   *)
(* lookup is answered, also when servers wait for each other's pooled      *)
(* connections in a circle.                                                *)
EveryLookupAnswered ==
    \A c \in Client : <<c>> \in Task ~> (<<c>> \in Task /\ task[<<c>>].pc = "done")
=============================================================================
