--------------------------- MODULE ForwardProofs ---------------------------
(***************************************************************************)
(* Proofs about Forward for every network of servers and upstreams, every  *)
(* set of lookups and every value of the bounds.                           *)
(***************************************************************************)
EXTENDS ForwardLemmas

(* A task goes on to its next upstream or is answered without a binding.   *)
MovedOn(t) ==
    /\ \E h \in Handler :
          /\ task' = [task EXCEPT ![t] = h]
          /\ h.at = task[t].at /\ h.recurse = task[t].recurse /\ h.sent = task[t].sent
          /\ h.pc \in {"permit", "done"} /\ h.result \notin Identity
          /\ Placed(h)
          /\ changes = 0 => Told(h, store)
    /\ cache' \in [Server -> Identity \union {"empty", "missing"}]
    /\ NegativeIsTrue'

(* GoOn: the task goes to its next upstream or ends, with one answer more  *)
(* only if the upstream holds nothing, while the stores stay as they are.  *)
LEMMA GoOnGives ==
    ASSUME ForwardInv, NEW t \in Task, NEW n, task[t].pc \in {"lock", "wait"}, GoOn(t, n),
           n = task[t].answered \/ n = task[t].answered + 1,
           changes = 0 /\ n = task[t].answered + 1
               => store[Upstreams[task[t].at][task[t].idx]] = None,
           UNCHANGED held
    PROVE  MovedOn(t)
<1> DEFINE b == task[t]
<1>1. /\ Shape /\ Progress(task, pooled) /\ Truthful /\ NegativeIsTrue
  BY Zenon DEF ForwardInv
<1>2. b \in Handler /\ Placed(b) /\ Busy(b)
  BY <1>1 DEF Shape, Progress, Task, Busy
<1>3. changes = 0 => Told(b, store)
  BY <1>1 DEF Truthful, Absent, Task
<1>4. Identity \intersect {"pending", "none", "error", "empty", "missing"} = {}
  BY ForwardAssumption DEF ForwardAssumption
<1>5. cache \in [Server -> Identity \union {"empty", "missing"}] /\ b.at \in Server
  BY <1>1, <1>2, HandlerFields, Zenon DEF Shape
<1>6. CASE b.idx < fanout(b.at)
  <2> DEFINE h == NextOf(b, n)
  <2>1. task' = [task EXCEPT ![t] = h] /\ UNCHANGED cache
    BY <1>6 DEF GoOn, NextOf
  <2>2. /\ h \in Handler /\ h.pc = "permit" /\ h.at = b.at /\ h.recurse = b.recurse
        /\ h.sent = b.sent /\ h.result = "pending" /\ Placed(h)
    BY <1>2, <1>6, NextUpstream
  <2>3. changes = 0 => Told(h, store)
    BY <1>2, <1>3, <1>6, NextTold, Zenon
  <2> HIDE DEF h
  <2>4. NegativeIsTrue'
    BY <1>1, <2>1 DEF NegativeIsTrue, held
  <2>5. cache' \in [Server -> Identity \union {"empty", "missing"}]
    BY <1>5, <2>1, Zenon
  <2>6. h.result \notin Identity
    BY <1>4, <2>2, Zenon
  <2> QED BY <2>1, <2>2, <2>3, <2>4, <2>5, <2>6, Zenon DEF MovedOn
<1>7. CASE ~(b.idx < fanout(b.at))
  <2> DEFINE r == IF n > 0 THEN "none" ELSE "error"
             h == EndOf(b, n, r)
  <2>1. r \in {"none", "error"}
    BY Zenon
  <2>2. task' = [task EXCEPT ![t] = h]
        /\ cache' = IF Caching /\ n = fanout(b.at)
                    THEN [cache EXCEPT ![b.at] = "missing"] ELSE cache
    BY <1>7 DEF GoOn, EndOf
  <2> HIDE DEF r
  <2>3. /\ h \in Handler /\ h.pc = "done" /\ h.at = b.at /\ h.recurse = b.recurse
        /\ h.sent = b.sent /\ h.result = r /\ Placed(h)
    BY <1>2, <1>7, <2>1, EndOfList
  <2>4. ASSUME changes = 0
        PROVE  /\ Told(h, store)
               /\ n = fanout(b.at) => \A i \in 1 .. fanout(b.at) : store[Upstreams[b.at][i]] = None
    BY <1>2, <1>3, <1>7, <2>1, <2>4, EndTold
  <2> HIDE DEF h
  <2>5. cache' \in [Server -> Identity \union {"empty", "missing"}]
    BY <1>5, <2>2
  <2>6. NegativeIsTrue'
    <3> SUFFICES ASSUME changes = 0, NEW s \in Server, cache'[s] = "missing",
                        NEW i \in 1 .. fanout(s)
                 PROVE  store[Upstreams[s][i]] = None
      BY DEF NegativeIsTrue, held
    <3>1. CASE cache[s] = "missing"
      BY <1>1, <3>1, Zenon DEF NegativeIsTrue
    <3>2. CASE cache[s] # "missing"
      <4>1. s = b.at /\ n = fanout(b.at)
        BY <1>5, <2>2, <3>2
      <4> QED BY <2>4, <4>1, Zenon
    <3> QED BY <3>1, <3>2, Zenon
  <2>7. h.result \notin Identity
    BY <1>4, <2>1, <2>3, Zenon
  <2> QED BY <2>2, <2>3, <2>4, <2>5, <2>6, <2>7, Zenon DEF MovedOn
<1> QED
  BY <1>6, <1>7, Zenon

(* A task that has the connection sends a request over it.                 *)
Requests(t, h) ==
    /\ Forwarded(t, h)
    /\ h.at = task[t].at /\ h.recurse = task[t].recurse /\ h.idx = task[t].idx
    /\ h.answered = task[t].answered /\ h.result = task[t].result
    /\ h.sent = task[t].sent + 1 /\ h.pc = "wait" /\ task[t].pc \in {"lock", "wait"}
    /\ h.sent <= 2 * h.idx
    /\ h.sent <= 2 * h.idx - 1 \/ pooled'[h.at][h.idx] = FALSE
    /\ UNCHANGED <<held, permits, cache>> /\ disturbed' \in BOOLEAN

(* It keeps or takes the lock, and leaves the others' connections alone.   *)
HasLink(t, h) ==
    /\ link' = [s \in Server |-> link'[s]]
    /\ pooled' = [s \in Server |-> pooled'[s]]
    /\ \A s \in Server : /\ link'[s] \in [1 .. fanout(s) -> Task \union {NoTask}]
                          /\ pooled'[s] \in [1 .. fanout(s) -> BOOLEAN]
    /\ \A s \in Server : \A i \in 1 .. fanout(s) :
          /\ link'[s][i] = t <=> h.at = s /\ h.idx = i
          /\ \A x \in Task \ {t} : link'[s][i] = x <=> link[s][i] = x
          /\ pooled'[s][i] = pooled[s][i] \/ link[s][i] = t

(* A request sent upstream on a connection of the requester's: the         *)
(* upstream starts a handler with one unit of the budget less.             *)
LEMMA ForkStep ==
    ASSUME ForwardInv, NEW t \in Task, NEW h \in Handler, Requests(t, h), HasLink(t, h)
    PROVE  ForwardInv' /\ Balance
<1> DEFINE K == Child(t, h)
<1>0. /\ h.at = task[t].at /\ h.recurse = task[t].recurse /\ h.idx = task[t].idx
      /\ h.answered = task[t].answered /\ h.result = task[t].result
      /\ h.pc = "wait" /\ task[t].pc \in {"lock", "wait"} /\ h.sent <= 2 * h.idx
      /\ h.sent = task[t].sent + 1 /\ Forwarded(t, h) 
      /\ UNCHANGED <<held, permits, cache>> /\ disturbed' \in BOOLEAN
  BY Zenon DEF Requests
<1>1. /\ Shape /\ Progress(task, pooled) /\ Locked(task, link)
      /\ NegativeIsTrue /\ Truthful /\ Budgeted(task) /\ Kin(task)
  BY Zenon DEF ForwardInv
<1>2. task[t] \in Handler /\ Placed(task[t])
  BY <1>1 DEF Shape, Progress, Task
<1>3. h.idx \in 1 .. fanout(h.at) /\ 0 < h.recurse /\ h.answered <= h.idx - 1
      /\ h.result = "pending"
  BY <1>0, <1>2, BusyFields DEF Placed, Busy
<1>4. Advance(task, task', t, h, K) /\ task' \in [Task' -> Handler] /\ Task' = Task \union K
  BY <1>0, <1>1, <1>3, ForkAdvances, Zenon
<1> HIDE DEF K
<1>5. Placed(h)
  BY <1>0, <1>3, Zenon DEF Placed, Busy
<1>6. changes = 0 => Told(h, store)
  <2>1. changes = 0 => Told(task[t], store)
    BY <1>1 DEF Truthful, Absent, Task
  <2> QED BY <1>0, <2>1 DEF Told, Busy
<1>7. Budgeted(task') /\ Kin(task') /\ Asked(task') /\ HeldIsBound' /\ Truthful'
  BY <1>0, <1>3, <1>4, <1>6, StepKeeps, Zenon
<1>8. \A s \in Server : link'[s] \in [1 .. fanout(s) -> Task' \union {NoTask}]
  BY <1>4 DEF HasLink
<1>9. Shape'
  BY <1>0, <1>1, <1>4, <1>8 DEF Shape, held, HasLink
<1>10. Progress(task', pooled')
  <2>1. OwnChanges(link, pooled, pooled', t)
    BY DEF HasLink, OwnChanges
  <2>2. \A x \in DOMAIN task : task[x] \in Handler
    BY <1>1, Zenon DEF Shape, Task
  <2>3. \A x \in DOMAIN task \ {t} :
            task[x].pc = "wait" => pooled'[task[x].at][task[x].idx] = pooled[task[x].at][task[x].idx]
    BY <1>1, <2>1, <2>2, OthersConnections
  <2>4. pooled'[h.at][h.idx] => h.sent <= 2 * h.idx - 1
    BY DEF Requests
  <2> QED BY <1>1, <1>3, <1>4, <1>5, <2>3, <2>4, AdvanceProgress, Zenon
<1>11. Balance
  BY <1>0, <1>1, <1>3, <1>4, CountKept DEF Balance
<1>12. Locked(task', link')
  <2>1. Relinked(DOMAIN task, link, link', t, h)
    <3>1. DOMAIN task = Task /\ h.pc = "wait"
      BY <1>0 DEF Task
    <3>2. ASSUME NEW s \in Server, NEW i \in 1 .. fanout(s)
          PROVE  link'[s][i] \in Task \union {NoTask}
      <4>1. link'[s] \in [1 .. fanout(s) -> Task \union {NoTask}]
        BY Zenon DEF HasLink
      <4> QED BY <4>1, Zenon
    <3> QED BY <3>1, <3>2 DEF HasLink, Relinked
  <2> QED BY <1>1, <1>3, <1>4, <1>7, <2>1, AdvanceLocked, Zenon
<1>13. NegativeIsTrue'
  BY <1>0, <1>1, Zenon DEF NegativeIsTrue, held
<1> QED
  BY <1>7, <1>9, <1>10, <1>11, <1>12, <1>13 DEF ForwardInv

(* Sending to an upstream (forward.rs), on the pooled connection or on a   *)
(* new one, keeps the invariant.                                           *)
LEMMA SendStep ==
    ASSUME ForwardInv, NEW t \in Task, Send(t)
    PROVE  ForwardInv' /\ Balance
<1> DEFINE b == task[t]
           h == [b EXCEPT !.pc = "wait", !.sent = @ + 1]
<1>1. Shape /\ Progress(task, pooled) /\ Locked(task, link) /\ Budgeted(task)
  BY DEF ForwardInv
<1>2. b \in Handler /\ Placed(b) /\ b.pc = "lock"
  BY <1>1 DEF Shape, Progress, Task, Send
<1>3. /\ b.at \in Server /\ b.idx \in 1 .. fanout(b.at) /\ b.sent \in Nat
      /\ b.sent <= 2 * b.idx - 2 /\ fanout(b.at) <= Width
  BY <1>2, HandlerFields, Bounds DEF Placed, Busy
<1>4. b.sent + 1 <= 2 * Width /\ b.sent + 1 <= 2 * b.idx - 1
  BY <1>3, Bounds
<1>5. /\ h \in Handler /\ h.at = b.at /\ h.recurse = b.recurse /\ h.idx = b.idx
      /\ h.answered = b.answered /\ h.result = b.result /\ h.sent = b.sent + 1 /\ h.pc = "wait"
  BY <1>2, <1>4, SentFields, Zenon
<1>6. /\ Forwarded(t, h) /\ link[h.at][h.idx] = NoTask
      /\ link' = [link EXCEPT ![h.at] = [@ EXCEPT ![h.idx] = t]]
      /\ UNCHANGED <<held, pooled, permits, cache, disturbed>>
  BY DEF Send
<1> HIDE DEF h
<1>7. /\ link' = [s \in Server |-> link'[s]]
      /\ \A s \in Server : link'[s] \in [1 .. fanout(s) -> Task \union {NoTask}]
      /\ \A s \in Server : \A i \in 1 .. fanout(s) :
            link'[s][i] = IF s = b.at /\ i = b.idx THEN t ELSE link[s][i]
  <2> DEFINE T == Task \union {NoTask}
  <2>1. Table(link, T)
    BY <1>1 DEF Shape, Table
  <2> DEFINE a == b.at
             j == b.idx
  <2>2. t \in T /\ link' = [link EXCEPT ![a] = [@ EXCEPT ![j] = t]]
        /\ a \in Server /\ j \in 1 .. fanout(a)
    BY <1>3, <1>5, <1>6
  <2> HIDE DEF T, a, j
  <2>3. Table(link', T) /\ Entered(link, link', a, j, t)
    BY <2>1, <2>2, TableUpdate
  <2> QED BY <2>3, Zenon DEF T, a, j, Table, Entered
<1>8. \A s \in Server : \A i \in 1 .. fanout(s) :
          /\ link'[s][i] = t <=> h.at = s /\ h.idx = i
          /\ \A x \in Task \ {t} : link'[s][i] = x <=> link[s][i] = x
  <2>1. \A s \in Server : \A i \in 1 .. fanout(s) : link[s][i] # t
    BY <1>1, <1>2 DEF Locked, Task
  <2>2. \A x \in Task : x # NoTask
    BY <1>1, ForwardAssumption DEF Budgeted, Task, ForwardAssumption
  <2> SUFFICES ASSUME NEW s \in Server, NEW i \in 1 .. fanout(s)
               PROVE  /\ link'[s][i] = t <=> h.at = s /\ h.idx = i
                      /\ \A x \in Task \ {t} : link'[s][i] = x <=> link[s][i] = x
    BY Zenon
  <2>3. link'[s][i] = IF s = b.at /\ i = b.idx THEN t ELSE link[s][i]
    BY <1>7
  <2> QED BY <1>5, <1>6, <2>1, <2>2, <2>3
<1>9. /\ pooled' = [s \in Server |-> pooled'[s]]
      /\ \A s \in Server : pooled'[s] \in [1 .. fanout(s) -> BOOLEAN]
      /\ disturbed' \in BOOLEAN
  BY <1>1, <1>6 DEF Shape
<1>10. h.sent <= 2 * h.idx /\ h.sent <= 2 * h.idx - 1
  BY <1>3, <1>4, <1>5
<1>11. UNCHANGED <<held, permits, cache>> /\ pooled' = pooled
  BY <1>6
<1>12. \A s \in Server : \A i \in 1 .. fanout(s) : pooled'[s][i] = pooled[s][i] \/ link[s][i] = t
  BY <1>11
<1>13. Requests(t, h)
  BY <1>2, <1>5, <1>6, <1>9, <1>10, <1>11 DEF Requests
<1>14. HasLink(t, h)
  BY <1>7, <1>8, <1>9, <1>12 DEF HasLink
<1> QED
  BY <1>5, <1>13, <1>14, ForkStep

(* Dialling again after a pooled connection failed keeps the invariant.    *)
LEMMA RedialStep ==
    ASSUME ForwardInv, NEW t \in Task, Redial(t)
    PROVE  ForwardInv' /\ Balance
<1> DEFINE b == task[t]
           h == [b EXCEPT !.sent = @ + 1]
<1>1. Shape /\ Progress(task, pooled) /\ Locked(task, link)
  BY DEF ForwardInv
<1>2. b \in Handler /\ Placed(b) /\ b.pc = "wait"
  <2>1. b \in Handler /\ Placed(b)
    BY <1>1 DEF Shape, Progress, Task
  <2> QED BY <2>1 DEF Redial, Handler
<1>3. pooled[b.at][b.idx]
  BY <1>2 DEF Redial, Handler
<1>4. /\ b.at \in Server /\ b.idx \in 1 .. fanout(b.at) /\ b.sent \in Nat
      /\ b.sent <= 2 * b.idx - 1 /\ fanout(b.at) <= Width
  <2>1. b.sent <= 2 * b.idx - 1
    BY <1>1, <1>2, <1>3 DEF Progress, Task
  <2> QED BY <1>2, <2>1, HandlerFields, Bounds DEF Placed, Busy
<1>5. b.sent + 1 <= 2 * Width /\ b.sent + 1 <= 2 * b.idx
  BY <1>4, Bounds
<1>6. /\ h \in Handler /\ h.at = b.at /\ h.recurse = b.recurse /\ h.idx = b.idx
      /\ h.answered = b.answered /\ h.result = b.result /\ h.sent = b.sent + 1 /\ h.pc = "wait"
  BY <1>2, <1>5, SentFields, Zenon
<1>7. /\ Forwarded(t, h) /\ pooled' = [pooled EXCEPT ![h.at] = [@ EXCEPT ![h.idx] = FALSE]]
      /\ disturbed' = TRUE /\ UNCHANGED <<held, link, permits, cache>>
  BY DEF Redial
<1> HIDE DEF h
<1>8. /\ pooled' = [s \in Server |-> pooled'[s]]
      /\ \A s \in Server : pooled'[s] \in [1 .. fanout(s) -> BOOLEAN]
      /\ \A s \in Server : \A i \in 1 .. fanout(s) :
            pooled'[s][i] = IF s = b.at /\ i = b.idx THEN FALSE ELSE pooled[s][i]
  <2>1. Table(pooled, BOOLEAN) /\ TRUE \in BOOLEAN /\ FALSE \in BOOLEAN
    BY <1>1 DEF Shape, Table
  <2> DEFINE a == b.at
             j == b.idx
  <2>2. pooled' = [pooled EXCEPT ![a] = [@ EXCEPT ![j] = FALSE]]
        /\ a \in Server /\ j \in 1 .. fanout(a)
    BY <1>4, <1>6, <1>7
  <2> HIDE DEF a, j
  <2>3. Table(pooled', BOOLEAN) /\ Entered(pooled, pooled', a, j, FALSE)
    BY <2>1, <2>2, TableUpdate
  <2> QED BY <2>3, Zenon DEF a, j, Table, Entered
<1>9. \A s \in Server : \A i \in 1 .. fanout(s) : link[s][i] = t <=> h.at = s /\ h.idx = i
  BY <1>1, <1>2, <1>6 DEF Locked, Task
<1>10. /\ link' = [s \in Server |-> link'[s]]
       /\ \A s \in Server : link'[s] \in [1 .. fanout(s) -> Task \union {NoTask}]
  BY <1>1, <1>7 DEF Shape
<1>11. h.sent <= 2 * h.idx /\ pooled'[h.at][h.idx] = FALSE
  BY <1>4, <1>5, <1>6, <1>8, Zenon
<1>12. \A s \in Server : \A i \in 1 .. fanout(s) : pooled'[s][i] = pooled[s][i] \/ link[s][i] = t
  <2> SUFFICES ASSUME NEW s \in Server, NEW i \in 1 .. fanout(s)
               PROVE  pooled'[s][i] = pooled[s][i] \/ link[s][i] = t
    OBVIOUS
  <2>1. CASE s = b.at /\ i = b.idx
    BY <1>6, <1>9, <2>1
  <2>2. CASE ~(s = b.at /\ i = b.idx)
    BY <1>8, <2>2, Zenon
  <2> QED BY <2>1, <2>2
<1>13. UNCHANGED <<held, permits, cache>> /\ disturbed' \in BOOLEAN /\ link' = link
  BY <1>7
<1>14. \A s \in Server : \A i \in 1 .. fanout(s) :
          /\ link'[s][i] = t <=> h.at = s /\ h.idx = i
          /\ \A x \in Task \ {t} : link'[s][i] = x <=> link[s][i] = x
  BY <1>9, <1>13
<1>15. Requests(t, h)
  BY <1>2, <1>6, <1>7, <1>11, <1>13 DEF Requests
<1>16. HasLink(t, h)
  BY <1>8, <1>10, <1>12, <1>14 DEF HasLink
<1> QED
  BY <1>6, <1>15, <1>16, ForkStep

(* A timeout or a failed request.                                          *)
LEMMA GiveUpStep ==
    ASSUME ForwardInv, NEW t \in Task, task[t].pc \in {"lock", "wait"},
           Release(t), GoOn(t, task[t].answered), disturbed' = TRUE, UNCHANGED <<held, pooled>>
    PROVE  ForwardInv' /\ Balance
<1>1. task[t] \in Handler
  BY DEF ForwardInv, Shape
<1>2. task[t].answered # task[t].answered + 1 /\ UNCHANGED held
  BY <1>1, HandlerFields, Bounds
<1>3. MovedOn(t)
  BY <1>2, GoOnGives
<1> QED
  BY <1>3, FreeStep, Zenon DEF MovedOn

(* The answer of a handler that holds nothing is true of the upstream.     *)
LEMMA ChildAnswer ==
    ASSUME ForwardInv, NEW t \in Task, Receive(t), changes = 0
    PROVE  LET answer == task[Append(t, task[t].sent)].result IN
           /\ answer = "none" => store[Upstreams[task[t].at][task[t].idx]] = None
           /\ answer \in Identity => accept(task[t].at, answer)
<1> DEFINE c == Append(t, task[t].sent)
<1>1. Asked(task) /\ Truthful /\ Shape
  BY DEF ForwardInv
<1>2. task[t].pc = "wait" /\ c \in Task
  BY DEF Receive
<1>3. task[c].at = Upstreams[task[t].at][task[t].idx]
  BY <1>1, <1>2 DEF Asked, Task
<1>4. Told(task[c], store) /\ Told(task[t], store)
  BY <1>1, <1>2 DEF Truthful, Absent, Task
<1>5. task[c].result = "none" => store[task[c].at] = None
  BY <1>4, Zenon DEF Told
<1>6. store[task[t].at] = None
  BY <1>2, <1>4 DEF Told, Busy
<1>7. task[t].at \in Server
  BY <1>1, HandlerFields DEF Shape
<1>8. bound[task[t].at] = None
  BY <1>1, <1>6, <1>7 DEF Truthful
<1> QED
  BY <1>3, <1>5, <1>8 DEF accept

(* What a handler does with an upstream's answer keeps the invariant.      *)
LEMMA ReceiveStep ==
    ASSUME ForwardInv, NEW t \in Task, Receive(t)
    PROVE  ForwardInv' /\ Balance
<1> DEFINE b == task[t]
           c == Append(t, b.sent)
           answer == task[c].result
<1>1. Shape /\ Progress(task, pooled) /\ NegativeIsTrue
  BY DEF ForwardInv
<1>2. /\ b.pc = "wait" /\ c \in Task /\ task[c].pc = "done" /\ Release(t)
      /\ pooled' = [pooled EXCEPT ![b.at] = [@ EXCEPT ![b.idx] = TRUE]]
      /\ UNCHANGED held /\ UNCHANGED disturbed
  BY DEF Receive
<1>3. task[c] \in Handler /\ Placed(task[c]) /\ b \in Handler /\ Placed(b) /\ disturbed' \in BOOLEAN
  BY <1>1, <1>2 DEF Shape, Progress, Task
<1>4. answer \in Identity \union {"none", "error"}
  BY <1>2, <1>3, HandlerFields DEF Placed
<1>5. Identity \intersect {"pending", "none", "error", "empty", "missing"} = {}
  BY ForwardAssumption DEF ForwardAssumption
<1>6. ASSUME NEW n, n = b.answered \/ n = b.answered + 1, GoOn(t, n),
             n # b.answered => answer # "error" /\ (answer \in Identity => ~accept(b.at, answer))
      PROVE  ForwardInv' /\ Balance
  <2>1. b.answered # b.answered + 1
    BY <1>3, HandlerFields, Bounds
  <2>2. changes = 0 /\ n = b.answered + 1 => store[Upstreams[b.at][b.idx]] = None
    BY <1>4, <1>6, <2>1, ChildAnswer
  <2>3. MovedOn(t)
    BY <1>2, <1>6, <2>2, GoOnGives
  <2> QED BY <1>2, <1>3, <2>3, FreeStep, Zenon DEF MovedOn
<1>7. ASSUME answer \in Identity, Answer(t, answer),
             cache' = IF Caching THEN [cache EXCEPT ![b.at] = answer] ELSE cache
      PROVE  ForwardInv' /\ Balance
  <2> DEFINE h0 == [b EXCEPT !.pc = "done"]
             h == [h0 EXCEPT !.result = answer]
  <2>1. task' = [task EXCEPT ![t] = h]
    BY <1>3, <1>7 DEF Answer, Handler
  <2>2. h0 \in Handler /\ h0.pc = "done" /\ h0.at = b.at /\ h0.recurse = b.recurse
        /\ h0.sent = b.sent
    BY <1>3 DEF Handler
  <2> HIDE DEF h0
  <2>3. h \in Handler /\ h.pc = "done" /\ h.at = b.at /\ h.recurse = b.recurse
        /\ h.sent = b.sent /\ h.result = answer
    BY <1>7, <2>2 DEF Handler
  <2> HIDE DEF h
  <2>4. Placed(h) /\ Told(h, store)
    BY <1>5, <1>7, <2>3 DEF Placed, Told, Busy
  <2>5. cache \in [Server -> Identity \union {"empty", "missing"}]
    BY <1>1 DEF Shape
  <2> DEFINE d == [cache EXCEPT ![b.at] = answer]
  <2>a. answer # "missing"
    BY <1>5, <1>7
  <2> HIDE DEF answer
  <2>b. /\ d \in [Server -> Identity \union {"empty", "missing"}]
        /\ \A s \in Server : d[s] = "missing" => cache[s] = "missing"
    BY <1>7, <2>5, <2>a, Zenon
  <2>6. cache' \in [Server -> Identity \union {"empty", "missing"}]
    BY <1>7, <2>5, <2>b
  <2>7. \A s \in Server : cache'[s] = "missing" => cache[s] = "missing"
    BY <1>7, <2>b
  <2>8. NegativeIsTrue'
    BY <1>1, <1>2, <2>7 DEF NegativeIsTrue, held
  <2> QED BY <1>2, <1>3, <2>1, <2>3, <2>4, <2>6, <2>8, FreeStep, Zenon
<1>8. CASE answer = "none"
  <2>1. GoOn(t, b.answered + 1)
    <3>1. answer \notin Identity /\ answer # "error"
      BY <1>5, <1>8
    <3> QED BY <1>8, <3>1, Zenon DEF Receive
  <2> QED BY <1>5, <1>6, <1>8, <2>1
<1>9. CASE answer = "error"
  <2>1. GoOn(t, b.answered)
    <3>1. answer \notin Identity /\ answer # "none"
      BY <1>5, <1>9
    <3> QED BY <1>9, <3>1, Zenon DEF Receive
  <2> QED BY <1>6, <2>1
<1>10. CASE answer \in Identity /\ ~accept(b.at, answer)
  <2>1. answer # "none" /\ answer # "error"
    BY <1>5, <1>10
  <2>2. GoOn(t, b.answered + 1)
    BY <1>10, <2>1, Zenon DEF Receive
  <2> QED BY <1>6, <1>10, <2>1, <2>2
<1>11. CASE answer \in Identity /\ accept(b.at, answer)
  <2>1. answer # "none" /\ answer # "error"
    BY <1>5, <1>11
  <2>2. /\ Answer(t, answer)
        /\ cache' = IF Caching THEN [cache EXCEPT ![b.at] = answer] ELSE cache
    BY <1>11, <2>1, Zenon DEF Receive
  <2> QED BY <1>7, <1>11, <2>2
<1> QED
  BY <1>4, <1>8, <1>9, <1>10, <1>11

(* The store or the relay cache answers.                                   *)
LEMMA AnswerStep ==
    ASSUME ForwardInv, NEW t \in Task, NEW r \in Identity \union {"none", "error"},
           task[t].pc = "start", Answer(t, r), r = "none" => store[task[t].at] = None,
           UNCHANGED <<held, link, pooled, permits, cache>>, disturbed' \in BOOLEAN
    PROVE  ForwardInv' /\ Balance
<1> DEFINE b == task[t]
           h0 == [b EXCEPT !.pc = "done"]
           h == [h0 EXCEPT !.result = r]
<1>1. b \in Handler
  BY DEF ForwardInv, Shape
<1>2. task' = [task EXCEPT ![t] = h]
  BY <1>1 DEF Answer, Handler
<1>3. h0 \in Handler /\ h0.pc = "done" /\ h0.at = b.at /\ h0.recurse = b.recurse
      /\ h0.sent = b.sent
  BY <1>1 DEF Handler
<1> HIDE DEF h0
<1>4. h \in Handler /\ h.pc = "done" /\ h.at = b.at /\ h.recurse = b.recurse
      /\ h.sent = b.sent /\ h.result = r
  BY <1>3 DEF Handler
<1> HIDE DEF h
<1>5. r # "pending"
  BY ForwardAssumption DEF ForwardAssumption
<1>6. Placed(h) /\ Told(h, store)
  BY <1>4, <1>5 DEF Placed, Told, Busy
<1> QED
  BY <1>2, <1>4, <1>6, QuietStep, Zenon

(* Answering from the server's own records keeps the invariant.            *)
LEMMA AnswerOwnStep ==
    ASSUME ForwardInv, NEW t \in Task, AnswerOwn(t)
    PROVE  ForwardInv' /\ Balance
<1>1. /\ task[t].pc = "start" /\ UNCHANGED <<held, link, pooled, permits, cache, disturbed>>
      /\ \/ store[task[t].at] # None /\ Answer(t, store[task[t].at])
         \/ store[task[t].at] = None /\ Answer(t, "none")
  BY DEF AnswerOwn
<1>2. /\ task[t].at \in Server /\ store \in [Server -> Identity \union {None}]
      /\ disturbed' \in BOOLEAN
  <2>1. task[t] \in Handler /\ store \in [Server -> Identity \union {None}] /\ disturbed \in BOOLEAN
    BY DEF ForwardInv, Shape
  <2> QED BY <1>1, <2>1, HandlerFields
<1>3. CASE store[task[t].at] = None /\ Answer(t, "none")
  BY <1>1, <1>2, <1>3, AnswerStep
<1>4. CASE store[task[t].at] # None /\ Answer(t, store[task[t].at])
  <2>1. store[task[t].at] \in Identity
    BY <1>2, <1>4
  <2>2. store[task[t].at] # "none"
    BY <2>1, ForwardAssumption DEF ForwardAssumption
  <2> QED BY <1>1, <1>2, <1>4, <2>1, <2>2, AnswerStep
<1> QED
  BY <1>1, <1>3, <1>4

(* Answering from the cache of forwarded answers keeps the invariant.      *)
LEMMA AnswerCachedStep ==
    ASSUME ForwardInv, NEW t \in Task, AnswerCached(t)
    PROVE  ForwardInv' /\ Balance
<1> DEFINE c == cache[task[t].at]
           r == IF c = "missing" THEN "none" ELSE c
<1>1. /\ task[t].pc = "start" /\ store[task[t].at] = None /\ c # "empty" /\ Answer(t, r)
      /\ disturbed' = (disturbed \/ c = "missing")
      /\ UNCHANGED <<held, link, pooled, permits, cache>>
  BY DEF AnswerCached, Miss
<1>2. task[t] \in Handler /\ cache \in [Server -> Identity \union {"empty", "missing"}]
      /\ disturbed \in BOOLEAN
  BY DEF ForwardInv, Shape
<1>3. c \in Identity \union {"empty", "missing"}
  BY <1>2, HandlerFields
<1>4. r \in Identity \union {"none", "error"}
  BY <1>1, <1>3
<1>5. disturbed' \in BOOLEAN
  BY <1>1, <1>2
<1> HIDE DEF r
<1> QED
  BY <1>1, <1>4, <1>5, AnswerStep

(* Turning to the first upstream keeps the invariant.                      *)
LEMMA AskUpstreamStep ==
    ASSUME ForwardInv, NEW t \in Task, AskUpstream(t)
    PROVE  ForwardInv' /\ Balance
<1> DEFINE b == task[t]
           h == FirstOf(b)
<1>1. /\ b.pc = "start" /\ store[b.at] = None /\ b.recurse > 0 /\ fanout(b.at) > 0
      /\ UNCHANGED <<held, link, pooled, permits, cache, disturbed>>
  BY DEF AskUpstream, Miss
<1>2. b \in Handler /\ Placed(b) /\ disturbed' \in BOOLEAN
  BY <1>1 DEF ForwardInv, Shape, Progress, Task
<1>3. task' = [task EXCEPT ![t] = h]
  BY DEF AskUpstream, FirstOf
<1>4. /\ h \in Handler /\ h.pc = "permit" /\ h.at = b.at /\ h.recurse = b.recurse
      /\ h.sent = b.sent /\ Placed(h) /\ Told(h, store)
  BY <1>1, <1>2, FirstUpstream
<1> HIDE DEF h
<1> QED
  BY <1>1, <1>2, <1>3, <1>4, QuietStep, Zenon

(* A client's question keeps the invariant.                                *)
LEMMA AskStep ==
    ASSUME ForwardInv, NEW c \in Client, NEW s \in Server \ Down, Ask(c, s)
    PROVE  ForwardInv' /\ Balance
<1>1. /\ Shape /\ Progress(task, pooled) /\ Locked(task, link)
      /\ Budgeted(task) /\ Kin(task) /\ Asked(task) /\ HeldIsBound /\ Truthful /\ NegativeIsTrue
  BY DEF ForwardInv
<1>2. UNCHANGED <<held, link, pooled, permits, cache, disturbed>> /\ <<c>> \notin Task
  BY DEF Ask
<1>3. PICK n \in Budgets :
         LET recurse == IF n > MaxRecurse THEN MaxRecurse ELSE n IN
         task' = [x \in Task \union {<<c>>} |-> IF x = <<c>> THEN Started(s, recurse) ELSE task[x]]
  BY DEF Ask
<1> DEFINE r == IF n > MaxRecurse THEN MaxRecurse ELSE n
<1>4. r \in 0 .. MaxRecurse
  BY ForwardAssumption DEF ForwardAssumption
<1>5. task' = [x \in Task \union {<<c>>} |-> IF x = <<c>> THEN Started(s, r) ELSE task[x]]
  BY <1>3
<1> HIDE DEF r
<1>6. task \in [Task -> Handler] /\ Started(s, r) \in Handler
  BY <1>1, <1>4, StartedIsHandler DEF Shape
<1>7. DOMAIN task' = Task \union {<<c>>} /\ task' \in [Task \union {<<c>>} -> Handler]
  BY <1>5, <1>6
<1>8. Task' = Task \union {<<c>>}
  BY <1>7 DEF Task
<1>9. Open(task, task', c, s, r)
  BY <1>2, <1>5, <1>7 DEF Open, Task
<1>10. \A x \in DOMAIN task : task[x] \in Handler
  BY <1>6 DEF Task
<1>11. Budgeted(task') /\ Kin(task')
  BY <1>1, <1>4, <1>9, OpenNames
<1>12. Progress(task', pooled')
  BY <1>1, <1>2, <1>4, <1>9, OpenProgress
<1>13. Asked(task')
  BY <1>1, <1>4, <1>9, <1>10, OpenAsked
<1>14. Balance
  BY <1>2, <1>4, <1>9, OpenCounted DEF Balance
<1>15. \A u \in Server : \A i \in 1 .. fanout(u) : link[u][i] \in DOMAIN task \union {NoTask}
  BY <1>1, LinkTypes DEF Task
<1>16. Locked(task', link')
  BY <1>1, <1>2, <1>4, <1>9, <1>15, OpenLocked
<1>17. Shape'
  <2>1. \A u \in Server : link'[u] \in [1 .. fanout(u) -> Task' \union {NoTask}]
    BY <1>1, <1>2, <1>8 DEF Shape
  <2>2. task' \in [Task' -> Handler]
    BY <1>7, <1>8
  <2> QED BY <1>1, <1>2, <2>1, <2>2 DEF Shape, held
<1>18. HeldIsBound'
  BY <1>1, <1>2, Zenon DEF HeldIsBound, held
<1>19. Truthful'
  <2>1. changes = 0 => Absent(task', store)
    BY <1>1, <1>4, <1>9, OpenTold DEF Truthful
  <2> QED BY <1>1, <1>2, <2>1 DEF Truthful, held
<1>20. NegativeIsTrue'
  BY <1>1, <1>2 DEF NegativeIsTrue, held
<1> QED
  BY <1>11, <1>12, <1>13, <1>14, <1>16, <1>17, <1>18, <1>19, <1>20 DEF ForwardInv

(* A change to a store: nothing is claimed of absences any more.           *)
LEMMA ChangeStep ==
    ASSUME ForwardInv, UNCHANGED <<task, link, pooled, permits, cache, disturbed>>,
           changes < MaxChanges, changes' = changes + 1,
           store' \in [Server -> Identity \union {None}],
           bound' \in [Server -> Identity \union {None}], HeldIsBound'
    PROVE  ForwardInv' /\ Balance
<1>1. MaxChanges \in Nat /\ changes \in 0 .. MaxChanges
  BY ForwardAssumption DEF ForwardInv, Shape, ForwardAssumption
<1>2. changes' \in 0 .. MaxChanges /\ changes' # 0
  BY <1>1
<1>3. Shape'
  BY <1>2 DEF ForwardInv, Shape, Task
<1>4. Truthful' /\ NegativeIsTrue'
  BY <1>2 DEF Truthful, NegativeIsTrue
<1> QED
  BY <1>3, <1>4 DEF ForwardInv, Balance, Balanced

(* A cache entry that runs out keeps the invariant.                        *)
LEMMA ForgetStep ==
    ASSUME ForwardInv, NEW s \in Server, Forget(s)
    PROVE  ForwardInv' /\ Balance
<1>1. /\ cache' = [cache EXCEPT ![s] = "empty"]
      /\ UNCHANGED <<held, task, link, pooled, permits, disturbed>>
  BY DEF Forget
<1>2. cache \in [Server -> Identity \union {"empty", "missing"}]
  BY DEF ForwardInv, Shape
<1>3. cache' \in [Server -> Identity \union {"empty", "missing"}]
      /\ \A u \in Server : cache'[u] = "missing" => cache[u] = "missing"
  BY <1>1, <1>2
<1>4. Shape'
  BY <1>1, <1>3 DEF ForwardInv, Shape, Task, held
<1>5. NegativeIsTrue' /\ Truthful' /\ HeldIsBound'
  BY <1>1, <1>3, Zenon DEF ForwardInv, NegativeIsTrue, Truthful, HeldIsBound, held
<1> QED
  BY <1>1, <1>4, <1>5 DEF ForwardInv, Balance, Balanced

-----------------------------------------------------------------------------
(* The invariant holds before the first question.                          *)
LEMMA InitForwardInv == Init => ForwardInv
<1> SUFFICES ASSUME Init PROVE ForwardInv
  OBVIOUS
<1>1. /\ Held \in [Server -> Identity \union {None}] /\ MaxChanges \in Nat /\ Permits \in Nat \ {0}
      /\ \A s \in Server : fanout(s) \in Nat
  BY ForwardAssumption, Bounds DEF ForwardAssumption
<1> USE DEF Init
<1>2. DOMAIN task = {} /\ task \in [{} -> Handler]
  OBVIOUS
<1>3. Shape
  <2>1. /\ \A s \in Server : link[s] = [i \in 1 .. fanout(s) |-> NoTask]
        /\ \A s \in Server : pooled[s] = [i \in 1 .. fanout(s) |-> FALSE]
        /\ link = [s \in Server |-> link[s]] /\ pooled = [s \in Server |-> pooled[s]]
    OBVIOUS
  <2>2. \A s \in Server : /\ link[s] \in [1 .. fanout(s) -> Task \union {NoTask}]
                          /\ pooled[s] \in [1 .. fanout(s) -> BOOLEAN]
    BY <2>1
  <2>3. permits \in [Server -> Nat] /\ changes \in 0 .. MaxChanges /\ disturbed \in BOOLEAN
        /\ cache \in [Server -> Identity \union {"empty", "missing"}]
    <3>1. permits \in [Server -> Nat]
      BY <1>1
    <3>2. cache \in [Server -> Identity \union {"empty", "missing"}]
      OBVIOUS
    <3>3. changes \in 0 .. MaxChanges
      <4> DEFINE m == MaxChanges
      <4>1. m \in Nat /\ changes = 0
        BY <1>1
      <4> QED BY <4>1
    <3>4. disturbed \in BOOLEAN
      BY Zenon
    <3> QED BY <3>1, <3>2, <3>3, <3>4
  <2>4. store \in [Server -> Identity \union {None}] /\ bound \in [Server -> Identity \union {None}]
    BY <1>1
  <2>5. task \in [Task -> Handler]
    BY <1>2 DEF Task
  <2> QED BY <2>1, <2>2, <2>3, <2>4, <2>5 DEF Shape
<1>4. Budgeted(task) /\ Progress(task, pooled) /\ Asked(task) /\ Locked(task, link)
      /\ Kin(task) /\ Absent(task, store)
  BY <1>2 DEF Budgeted, Progress, Asked, Locked, Kin, Absent
<1>5. HeldIsBound /\ Truthful /\ NegativeIsTrue
  BY <1>4 DEF HeldIsBound, Truthful, NegativeIsTrue
<1> QED
  BY <1>3, <1>4, <1>5 DEF ForwardInv

(* Every step of every handler keeps the invariant, and takes and gives    *)
(* back permits as requests begin and end.                                 *)
LEMMA NextForwardInv == ForwardInv /\ [Next]_vars => ForwardInv' /\ Balance
<1> SUFFICES ASSUME ForwardInv, [Next]_vars PROVE ForwardInv' /\ Balance
  OBVIOUS
<1>1. CASE UNCHANGED vars
  BY <1>1 DEF vars, ForwardInv, Shape, Task, HeldIsBound, Truthful, NegativeIsTrue, Balance, Balanced
<1>2. ASSUME NEW s \in Server, NEW i \in Identity, Publish(s, i)
      PROVE  ForwardInv' /\ Balance
  <2>1. /\ store \in [Server -> Identity \union {None}]
        /\ bound \in [Server -> Identity \union {None}] /\ HeldIsBound
    BY DEF ForwardInv, Shape
  <2>2. /\ store' = [store EXCEPT ![s] = i] /\ bound' = [bound EXCEPT ![s] = i]
        /\ changes < MaxChanges /\ changes' = changes + 1
        /\ UNCHANGED <<task, link, pooled, permits, cache, disturbed>>
    BY <1>2 DEF Publish
  <2>3. /\ store' \in [Server -> Identity \union {None}]
        /\ bound' \in [Server -> Identity \union {None}]
    BY <2>1, <2>2
  <2>4. HeldIsBound'
    BY <2>1, <2>2 DEF HeldIsBound
  <2> QED BY <2>2, <2>3, <2>4, ChangeStep
<1>3. ASSUME NEW s \in Server, Lapse(s)
      PROVE  ForwardInv' /\ Balance
  <2>1. /\ store \in [Server -> Identity \union {None}]
        /\ bound \in [Server -> Identity \union {None}] /\ HeldIsBound
    BY DEF ForwardInv, Shape
  <2>2. /\ store' = [store EXCEPT ![s] = None] /\ bound' = bound
        /\ changes < MaxChanges /\ changes' = changes + 1
        /\ UNCHANGED <<task, link, pooled, permits, cache, disturbed>>
    BY <1>3 DEF Lapse
  <2>3. /\ store' \in [Server -> Identity \union {None}]
        /\ bound' \in [Server -> Identity \union {None}]
    BY <2>1, <2>2
  <2>4. HeldIsBound'
    BY <2>1, <2>2 DEF HeldIsBound
  <2> QED BY <2>2, <2>3, <2>4, ChangeStep
<1>4. ASSUME NEW t \in Task, TimeOut(t) \/ RequestFails(t)
      PROVE  ForwardInv' /\ Balance
  <2>1. /\ task[t].pc \in {"lock", "wait"} /\ Release(t) /\ GoOn(t, task[t].answered)
        /\ disturbed' = TRUE /\ UNCHANGED <<held, pooled>>
    BY <1>4 DEF TimeOut, RequestFails
  <2> QED BY <2>1, GiveUpStep
<1>5. ASSUME NEW t \in Task, Step(t)
      PROVE  ForwardInv' /\ Balance
  BY <1>4, <1>5, AnswerOwnStep, AnswerCachedStep, AskUpstreamStep, AcquireStep, SendStep,
     ReceiveStep DEF Step
<1>6. ASSUME NEW c \in Client, NEW s \in Entry[c] \ Down, Ask(c, s)
      PROVE  ForwardInv' /\ Balance
  <2>1. s \in Server \ Down
    BY EntryAssumption DEF EntryAssumption
  <2> QED BY <1>6, <2>1, AskStep
<1> QED
  BY <1>1, <1>2, <1>3, <1>4, <1>5, <1>6, RedialStep, ForgetStep DEF Next

-----------------------------------------------------------------------------
(* The invariant holds in every reachable state.                           *)
LEMMA AlwaysForwardInv == Spec => []ForwardInv
  BY InitForwardInv, NextForwardInv, PTL DEF Spec

(* PeerLink::request (link.rs): the mutex of a pooled connection is held   *)
(* by the one handler that waits on it, and by none once it has given up,  *)
(* so no handler reads an answer to another one's request.                 *)
THEOREM LinkExclusive == Spec => []LinkIsTheWaiters
<1>1. ForwardInv => LinkIsTheWaiters
  BY DEF ForwardInv, Locked, LinkIsTheWaiters, Task
<1> QED
  BY <1>1, AlwaysForwardInv, PTL

(* Upstream::lookup (upstream.rs) remembers an absence only if every       *)
(* upstream answered, so that whatever failed on the way, what the relay   *)
(* cache says is missing is held by no upstream, while the stores stay as  *)
(* they are.                                                               *)
THEOREM NegativesAreTrue == Spec => []NegativeIsTrue
<1>1. ForwardInv => NegativeIsTrue
  BY DEF ForwardInv
<1> QED
  BY <1>1, AlwaysForwardInv, PTL

(* Relayed(t) is what BindingIsRelayed says of one handler.                *)
Relayed(t) ==
    LET h == task'[t] IN
    h.result \in Identity /\ (t \in Task => task[t].result = "pending")
        => bound[h.at] \in {None, h.result} \/ cache[h.at] = h.result

(* Words are no identities.                                                *)
LEMMA WordsApart == Identity \intersect {"pending", "none", "error", "empty", "missing"} = {}
  BY ForwardAssumption DEF ForwardAssumption

(* A step of one handler that answers, if with an identity, with what its  *)
(* server binds or caches.                                                 *)
LEMMA RelayMove ==
    ASSUME Shape, NEW t \in Task, NEW h, task' = [task EXCEPT ![t] = h],
           h.result \in Identity => bound[h.at] \in {None, h.result} \/ cache[h.at] = h.result
    PROVE  \A x \in DOMAIN task' : Relayed(x)
<1>1. DOMAIN task' = Task /\ task'[t] = h /\ \A x \in Task \ {t} : task'[x] = task[x]
  BY DEF Shape
<1>2. ASSUME NEW x \in Task \ {t} PROVE Relayed(x)
  BY <1>1, WordsApart DEF Relayed
<1>3. Relayed(t)
  BY <1>1 DEF Relayed
<1> QED
  BY <1>1, <1>2, <1>3

(* A request sent upstream answers nobody.                                 *)
LEMMA RelayFork ==
    ASSUME Shape, NEW t \in Task, NEW h, Forwarded(t, h), h.result = "pending"
    PROVE  \A x \in DOMAIN task' : Relayed(x)
<1> DEFINE K == Child(t, h)
           new == Started(Upstreams[h.at][h.idx], h.recurse - 1)
<1>1. task' = [x \in Task \union K |-> CASE x = t -> h [] x \in K -> new [] OTHER -> task[x]]
  BY DEF Forwarded, Child
<1>2. new.result = "pending"
  BY DEF Started
<1> HIDE DEF K, new
<1> SUFFICES ASSUME NEW x \in Task \union K PROVE Relayed(x)
  BY <1>1
<1>3. CASE x # t /\ x \notin K
  <2>1. task'[x] = task[x] /\ x \in Task
    BY <1>1, <1>3
  <2> QED BY <2>1, WordsApart DEF Relayed
<1>4. CASE x = t /\ x \notin K
  <2>1. task'[x] = h
    BY <1>1, <1>4
  <2> QED BY <2>1, WordsApart DEF Relayed
<1>5. CASE x \in K
  <2>1. task'[x] = h \/ task'[x] = new
    BY <1>1, <1>5
  <2> QED BY <1>2, <2>1, WordsApart DEF Relayed
<1> QED
  BY <1>3, <1>4, <1>5

(* A client's question answers nobody.                                     *)
LEMMA RelayAsk ==
    ASSUME Shape, NEW c \in Client, NEW s, Ask(c, s)
    PROVE  \A x \in DOMAIN task' : Relayed(x)
<1>1. PICK n \in Budgets :
         LET recurse == IF n > MaxRecurse THEN MaxRecurse ELSE n IN
         task' = [x \in Task \union {<<c>>} |-> IF x = <<c>> THEN Started(s, recurse) ELSE task[x]]
  BY DEF Ask
<1>2. \A x \in DOMAIN task' : x = <<c>> \/ x \in Task
  BY <1>1
<1>3. ASSUME NEW x \in DOMAIN task', x = <<c>> PROVE Relayed(x)
  <2>1. task'[x].result = "pending"
    BY <1>1, <1>3 DEF Started
  <2> QED BY <2>1, WordsApart DEF Relayed
<1>4. ASSUME NEW x \in Task, x # <<c>> PROVE Relayed(x)
  <2>1. task'[x] = task[x]
    BY <1>1, <1>4
  <2> QED BY <2>1, WordsApart DEF Relayed
<1> QED
  BY <1>2, <1>3, <1>4

(* An answer from the server's own records or its cache relays what they   *)
(* say.                                                                    *)
LEMMA RelayAnswer ==
    ASSUME Shape, NEW t \in Task, NEW r, Answer(t, r),
           r \in Identity => bound[task[t].at] \in {None, r} \/ cache[task[t].at] = r
    PROVE  \A x \in DOMAIN task' : Relayed(x)
<1> DEFINE h0 == [task[t] EXCEPT !.pc = "done"]
           h == [h0 EXCEPT !.result = r]
<1>1. task[t] \in Handler
  BY DEF Shape
<1>2. task' = [task EXCEPT ![t] = h]
  BY <1>1 DEF Answer, Handler
<1>3. h0 \in Handler /\ h0.at = task[t].at
  BY <1>1 DEF Handler
<1> HIDE DEF h0
<1>4. h.at = task[t].at /\ h.result = r
  BY <1>3 DEF Handler
<1> HIDE DEF h
<1> QED
  BY <1>2, <1>4, RelayMove, Zenon

(* GoOn ends with no identity's record, or goes on with none.              *)
LEMMA RelayGoOn ==
    ASSUME ForwardInv, NEW t \in Task, NEW n, GoOn(t, n), task[t].pc \in {"lock", "wait"}
    PROVE  \A x \in DOMAIN task' : Relayed(x)
<1> DEFINE b == task[t]
           r == IF n > 0 THEN "none" ELSE "error"
           next == [b EXCEPT !.pc = "permit", !.idx = b.idx + 1, !.answered = n]
           end == [b EXCEPT !.pc = "done", !.answered = n, !.result = r]
<1>1. Shape /\ b \in Handler /\ Placed(b)
  BY DEF ForwardInv, Shape, Progress, Task
<1>2. b.result = "pending"
  BY <1>1, Zenon DEF Placed
<1>3. next.result = b.result /\ end.result = r
  BY <1>1 DEF Handler
<1>4. task' = [task EXCEPT ![t] = next] \/ task' = [task EXCEPT ![t] = end]
  BY DEF GoOn
<1>5. next.result \notin Identity /\ end.result \notin Identity
  BY <1>2, <1>3, WordsApart
<1> HIDE DEF next, end
<1> QED
  BY <1>1, <1>4, <1>5, RelayMove

(* What a relaying server answers (upstream.rs accept, server.rs Lookup)   *)
(* agrees with the identity the key is bound to at that server, at the     *)
(* moment it answers and not when it asked: only its own relay cache,      *)
(* filled before the key was bound, can say otherwise.                     *)
THEOREM BindingsAreRelayed == Spec => BindingIsRelayed
<1>1. ForwardInv /\ [Next]_vars => [\A t \in DOMAIN task' : Relayed(t)]_vars
  <2> SUFFICES ASSUME ForwardInv, Next PROVE \A t \in DOMAIN task' : Relayed(t)
    OBVIOUS
  <2>1. Shape /\ Progress(task, pooled) /\ HeldIsBound
    BY DEF ForwardInv
  <2>2. \A t \in Task : task[t] \in Handler /\ Placed(task[t])
    BY <2>1 DEF Shape, Progress, Task
  <2>3. ASSUME task' = task PROVE \A t \in DOMAIN task' : Relayed(t)
    BY <2>3, WordsApart DEF Relayed, Task
  <2>4. ASSUME NEW t \in Task, AnswerOwn(t) PROVE \A x \in DOMAIN task' : Relayed(x)
    <3>1. \/ store[task[t].at] # None /\ Answer(t, store[task[t].at])
          \/ Answer(t, "none")
      BY <2>4 DEF AnswerOwn
    <3>2. task[t].at \in Server
      BY <2>2, HandlerFields
    <3>3. store[task[t].at] # None => bound[task[t].at] = store[task[t].at]
      BY <2>1, <3>2 DEF HeldIsBound
    <3>4. "none" \notin Identity
      BY WordsApart
    <3> QED BY <2>1, <3>1, <3>3, <3>4, RelayAnswer
  <2>5. ASSUME NEW t \in Task, AnswerCached(t) PROVE \A x \in DOMAIN task' : Relayed(x)
    <3> DEFINE r == IF cache[task[t].at] = "missing" THEN "none" ELSE cache[task[t].at]
    <3>1. Answer(t, r)
      BY <2>5 DEF AnswerCached
    <3>2. r \in Identity => cache[task[t].at] = r
      BY WordsApart
    <3> HIDE DEF r
    <3> QED BY <2>1, <3>1, <3>2, RelayAnswer
  <2>6. ASSUME NEW t \in Task, AskUpstream(t) \/ Acquire(t)
        PROVE  \A x \in DOMAIN task' : Relayed(x)
    <3> DEFINE p == [task[t] EXCEPT !.pc = "permit", !.idx = 1]
               l == [task[t] EXCEPT !.pc = "lock"]
    <3>0. p.result = task[t].result /\ l.result = task[t].result
      BY <2>2 DEF Handler
    <3>1. PICK h : task' = [task EXCEPT ![t] = h] /\ h.result = task[t].result
      <4>1. task' = [task EXCEPT ![t] = p] \/ task' = [task EXCEPT ![t] = l]
        BY <2>6 DEF AskUpstream, Acquire
      <4> HIDE DEF p, l
      <4> QED BY <3>0, <4>1
    <3>2. task[t].result = "pending"
      BY <2>2, <2>6 DEF AskUpstream, Acquire, Miss, Placed
    <3>3. h.result \notin Identity
      BY <3>1, <3>2, WordsApart
    <3> QED BY <2>1, <3>1, <3>3, RelayMove, Zenon
  <2>7. ASSUME NEW t \in Task, Send(t) \/ Redial(t)
        PROVE  \A x \in DOMAIN task' : Relayed(x)
    <3> DEFINE p == [task[t] EXCEPT !.pc = "wait", !.sent = @ + 1]
               l == [task[t] EXCEPT !.sent = @ + 1]
    <3>0. p.result = task[t].result /\ l.result = task[t].result
      BY <2>2 DEF Handler
    <3>1. PICK h : Forwarded(t, h) /\ h.result = task[t].result
      <4>1. Forwarded(t, p) \/ Forwarded(t, l)
        BY <2>7 DEF Send, Redial
      <4> HIDE DEF p, l
      <4> QED BY <3>0, <4>1
    <3>2. task[t].result = "pending"
      <4>1. task[t].pc \in {"lock", "wait"}
        BY <2>2, <2>7 DEF Send, Redial, Handler
      <4> QED BY <2>2, <4>1 DEF Placed
    <3> QED BY <2>1, <3>1, <3>2, RelayFork
  <2>8. ASSUME NEW t \in Task, TimeOut(t) \/ RequestFails(t)
        PROVE  \A x \in DOMAIN task' : Relayed(x)
    <3>1. GoOn(t, task[t].answered) /\ task[t].pc \in {"lock", "wait"}
      BY <2>8 DEF TimeOut, RequestFails
    <3> QED BY <3>1, RelayGoOn
  <2>9. ASSUME NEW t \in Task, Receive(t) PROVE \A x \in DOMAIN task' : Relayed(x)
    <3> DEFINE b == task[t]
               c == Append(t, b.sent)
               answer == task[c].result
    <3>1. b.pc = "wait" /\ c \in Task /\ task[c].pc = "done"
      BY <2>9 DEF Receive
    <3>2. answer \in Identity \union {"none", "error"}
      BY <2>2, <3>1, HandlerFields DEF Placed
    <3>3. \/ \E n : GoOn(t, n)
          \/ answer \in Identity /\ accept(b.at, answer) /\ Answer(t, answer)
      <4>1. CASE answer = "none"
        BY <2>9, <4>1, WordsApart, Zenon DEF Receive
      <4>2. CASE answer = "error"
        BY <2>9, <4>2, WordsApart, Zenon DEF Receive
      <4>3. CASE answer \in Identity
        <5>1. answer # "none" /\ answer # "error"
          BY <4>3, WordsApart
        <5> QED BY <2>9, <4>3, <5>1, Zenon DEF Receive
      <4> QED BY <3>2, <4>1, <4>2, <4>3
    <3>4. CASE \E n : GoOn(t, n)
      BY <3>1, <3>4, RelayGoOn
    <3>5. CASE answer \in Identity /\ accept(b.at, answer) /\ Answer(t, answer)
      BY <2>1, <3>5, RelayAnswer DEF accept
    <3> QED BY <3>3, <3>4, <3>5
  <2>10. ASSUME NEW t \in Task, Step(t) \/ Redial(t) \/ RequestFails(t)
         PROVE  \A x \in DOMAIN task' : Relayed(x)
    BY <2>4, <2>5, <2>6, <2>7, <2>8, <2>9, <2>10 DEF Step
  <2> QED BY <2>1, <2>3, <2>10, RelayAsk DEF Next, Publish, Lapse, Forget
<1> QED
  BY <1>1, AlwaysForwardInv, PTL DEF Spec, BindingIsRelayed, Relayed

-----------------------------------------------------------------------------
(* The upstream a handler waits for has nothing: on to the next one, or to *)
(* the end of the list, with the answer that there is no record.           *)
LEMMA ChainGoOn ==
    ASSUME ForwardInv, Chained(task, store), NEW t \in Task, task[t].pc = "wait",
           GoOn(t, task[t].answered + 1), store[task[t].at] = None,
           ~Leads(store, Upstreams[task[t].at][task[t].idx], task[t].recurse - 1)
    PROVE  Chained(task', store)
<1> DEFINE b == task[t]
           n == b.answered + 1
<1>1. Shape /\ b \in Handler /\ Placed(b) /\ Busy(b) /\ Fruitless(b, store)
  BY DEF ForwardInv, Shape, Progress, Task, Busy, Chained
<1>2. CASE b.idx < fanout(b.at)
  <2> DEFINE h == NextOf(b, n)
  <2>1. task' = [task EXCEPT ![t] = h]
    BY <1>2 DEF GoOn, NextOf
  <2>2. Fruitless(h, store)
    BY <1>1, <1>2, NextFruitless, Zenon
  <2> HIDE DEF h
  <2> QED BY <1>1, <2>1, <2>2, ChainMove
<1>3. CASE ~(b.idx < fanout(b.at))
  <2> DEFINE h == EndOf(b, n, "none")
  <2>1. n > 0 /\ Fruitless(h, store)
    BY <1>1, <1>3, EndFruitless, Zenon
  <2>2. task' = [task EXCEPT ![t] = h]
    BY <1>3, <2>1, Zenon DEF GoOn, EndOf
  <2> HIDE DEF h
  <2> QED BY <1>1, <2>1, <2>2, ChainMove
<1> QED
  BY <1>2, <1>3

(* While nothing fails and nothing changes, a handler's step comes to      *)
(* nothing only where no route leads anywhere.                             *)
LEMMA ChainStep ==
    ASSUME ForwardInv, Quiet, Quiet', Chained(task, store), NEW t \in Task,
           Step(t) \/ Redial(t) \/ RequestFails(t)
    PROVE  Chained(task', store)
<1> DEFINE b == task[t]
<1>1. /\ Shape /\ Truthful /\ b \in Handler /\ Placed(b) /\ Fruitless(b, store)
      /\ b.at \in Server /\ b.recurse \in Nat /\ fanout(b.at) \in Nat
  BY HandlerFields, Bounds DEF ForwardInv, Shape, Progress, Task, Chained
<1>2. changes = 0 /\ Told(b, store)
  BY <1>1 DEF Quiet, Truthful, Absent, Task
<1>3. ASSUME AnswerOwn(t) PROVE Chained(task', store)
  <2>1. \/ store[b.at] # None /\ Answer(t, store[b.at])
        \/ store[b.at] = None /\ (b.recurse = 0 \/ fanout(b.at) = 0) /\ Answer(t, "none")
    BY <1>3 DEF AnswerOwn
  <2>2. CASE store[b.at] # None /\ Answer(t, store[b.at])
    <3>1. store[b.at] \in Identity
      BY <1>1, <2>2 DEF Shape
    <3>2. store[b.at] # "none" /\ store[b.at] # "error"
      BY <3>1, WordsApart
    <3> QED BY <1>1, <2>2, <3>2, ChainAnswer
  <2>3. CASE store[b.at] = None /\ (b.recurse = 0 \/ fanout(b.at) = 0) /\ Answer(t, "none")
    <3>0. \A i : i \notin 1 .. 0
      OBVIOUS
    <3>1. fanout(b.at) = 0 => \A i : i \notin 1 .. fanout(b.at)
      BY <3>0, Zenon
    <3>2. ~Leads(store, b.at, b.recurse)
      BY <1>1, <2>3, <3>1, RouteBegins
    <3> QED BY <1>1, <2>3, <3>2, ChainAnswer
  <2> QED BY <2>1, <2>2, <2>3
<1>4. ASSUME AnswerCached(t) PROVE Chained(task', store)
  <2>0. ~disturbed' /\ disturbed' = (disturbed \/ cache[b.at] = "missing") /\ cache[b.at] # "empty"
        /\ Answer(t, IF cache[b.at] = "missing" THEN "none" ELSE cache[b.at])
    BY <1>4, Zenon DEF AnswerCached, Quiet
  <2>1. /\ cache[b.at] # "empty" /\ cache[b.at] # "missing"
        /\ Answer(t, cache[b.at])
    BY <2>0, Zenon
  <2>2. cache[b.at] \in Identity
    BY <1>1, <2>1 DEF Shape
  <2>3. cache[b.at] # "none" /\ cache[b.at] # "error"
    BY <2>2, WordsApart
  <2> QED BY <1>1, <2>1, <2>3, ChainAnswer
<1>5. ASSUME AskUpstream(t) PROVE Chained(task', store)
  <2> DEFINE h == FirstOf(b)
  <2>1. task' = [task EXCEPT ![t] = h] /\ b.pc = "start"
    BY <1>5 DEF AskUpstream, FirstOf, Miss
  <2>2. b.answered = 0 /\ b.result = "pending"
    BY <1>1, <2>1 DEF Placed
  <2>3. /\ h.at = b.at /\ h.recurse = b.recurse /\ h.result = b.result /\ h.pc = "permit"
        /\ h.answered = b.answered /\ h.idx = 1
    BY <1>1 DEF Handler, FirstOf
  <2> HIDE DEF h
  <2>4. Fruitless(h, store)
    BY <2>2, <2>3, FirstFruitless
  <2> QED BY <1>1, <2>1, <2>4, ChainMove
<1>6. ASSUME Acquire(t) PROVE Chained(task', store)
  <2> DEFINE h == [b EXCEPT !.pc = "lock"]
  <2>1. task' = [task EXCEPT ![t] = h] /\ b.pc = "permit"
    BY <1>6 DEF Acquire
  <2>2. Busy(b) /\ b.result = "pending"
    BY <1>1, <2>1 DEF Placed, Busy
  <2>3. /\ h.at = b.at /\ h.recurse = b.recurse /\ h.result = b.result /\ h.pc = "lock"
        /\ h.answered = b.answered /\ h.idx = b.idx
    BY <1>1 DEF Handler
  <2> HIDE DEF h
  <2>4. Fruitless(h, store)
    BY <1>1, <2>2, <2>3, StillFruitless, Zenon
  <2> QED BY <1>1, <2>1, <2>4, ChainMove
<1>7. ASSUME Send(t) PROVE Chained(task', store)
  <2> DEFINE h == [b EXCEPT !.pc = "wait", !.sent = @ + 1]
  <2>1. Forwarded(t, h) /\ b.pc = "lock"
    BY <1>7 DEF Send
  <2>2. Busy(b) /\ b.result = "pending"
    BY <1>1, <2>1 DEF Placed, Busy
  <2>3. /\ h.at = b.at /\ h.recurse = b.recurse /\ h.result = b.result /\ h.pc = "wait"
        /\ h.answered = b.answered /\ h.idx = b.idx
    BY <1>1 DEF Handler
  <2> HIDE DEF h
  <2>4. Fruitless(h, store)
    BY <1>1, <2>2, <2>3, StillFruitless, Zenon
  <2> QED BY <1>1, <2>1, <2>4, ChainFork
<1>8. ASSUME Receive(t) PROVE Chained(task', store)
  <2> DEFINE c == Append(t, b.sent)
             answer == task[c].result
             u == Upstreams[b.at][b.idx]
  <2>1. b.pc = "wait" /\ c \in Task /\ task[c].pc = "done"
    BY <1>8 DEF Receive
  <2>2. task[c].at = u
    BY <2>1 DEF ForwardInv, Asked, Task
  <2>3. task[c].recurse = b.recurse - 1
    <3>1. t \in Name
      BY Zenon DEF ForwardInv, Budgeted, Task
    <3>2. b.sent \in Nat
      BY <1>1, HandlerFields, Bounds
    <3> QED BY <2>1, <3>1, <3>2 DEF ForwardInv, Kin, Task
  <2>4. Fruitless(task[c], store) /\ task[c] \in Handler /\ Placed(task[c])
    BY <1>1, <2>1 DEF Chained, Task, Shape, ForwardInv, Progress
  <2>5. answer \in Identity \union {"none"}
    <3>1. answer # "error" /\ answer # "pending"
      BY <2>1, <2>4, Zenon DEF Fruitless, Placed
    <3>2. answer \in Identity \union {"pending", "none", "error"}
      BY <2>4, HandlerFields, Zenon
    <3> QED BY <3>1, <3>2
  <2>6. CASE answer = "none"
    <3>1. GoOn(t, b.answered + 1)
      BY <1>8, <2>6, WordsApart, Zenon DEF Receive
    <3>2. ~Leads(store, u, b.recurse - 1)
      BY <2>2, <2>3, <2>4, <2>6, Zenon DEF Fruitless
    <3>3. store[b.at] = None
      BY <1>2, <2>1 DEF Told, Busy
    <3> QED BY <2>1, <3>1, <3>2, <3>3, ChainGoOn
  <2>7. CASE answer \in Identity
    <3>1. accept(b.at, answer)
      BY <1>2, <1>8, <2>7, ChildAnswer
    <3>2. answer # "none" /\ answer # "error"
      BY <2>7, WordsApart
    <3>3. Answer(t, answer)
      BY <1>8, <2>7, <3>1, <3>2, Zenon DEF Receive
    <3> QED BY <1>1, <3>2, <3>3, ChainAnswer
  <2> QED BY <2>5, <2>6, <2>7
<1>9. ~TimeOut(t) /\ ~Redial(t) /\ ~RequestFails(t)
  BY DEF TimeOut, Redial, RequestFails, Quiet
<1> QED
  BY <1>3, <1>4, <1>5, <1>6, <1>7, <1>8, <1>9 DEF Step

(* A lookup of Upstream::lookup (upstream.rs) that ends with `no record'   *)
(* had no server that holds the key within its hop budget, in any graph of *)
(* servers: while nothing fails or changes and no absence comes from a     *)
(* cache, every route the budget allows has been tried.                    *)
THEOREM ChainsResolve == Spec => []ChainResolves
<1> DEFINE Inv == Quiet => Chained(task, store)
<1>1. Init => Inv
  BY DEF Init, Chained
<1>2. ForwardInv /\ Inv /\ [Next]_vars => Inv'
  <2> SUFFICES ASSUME ForwardInv, Inv, [Next]_vars, Quiet' PROVE Chained(task', store')
    BY DEF Quiet
  <2>1. CASE UNCHANGED vars
    BY <2>1 DEF vars, Quiet
  <2>2. ASSUME NEW s, NEW i, Publish(s, i) \/ Lapse(s)
        PROVE  FALSE
    <3>1. changes \in Nat /\ changes' = changes + 1 /\ changes' = 0
      BY <2>2, ForwardAssumption DEF Publish, Lapse, Quiet, ForwardInv, Shape, ForwardAssumption
    <3> QED BY <3>1
  <2>3. ASSUME NEW c \in Client, NEW s, Ask(c, s)
        PROVE  Chained(task', store')
    <3>1. Quiet /\ store' = store
      BY <2>3 DEF Ask, Quiet, held
    <3> QED BY <2>3, <3>1, ChainAsk DEF ForwardInv
  <2>4. ASSUME NEW t \in Task, Step(t) \/ Redial(t) \/ RequestFails(t)
        PROVE  Chained(task', store')
    <3>1. UNCHANGED held /\ (disturbed => disturbed')
      <4>1. CASE AnswerCached(t)
        BY <4>1, Zenon DEF AnswerCached
      <4>2. CASE AnswerOwn(t) \/ AskUpstream(t) \/ Acquire(t) \/ Send(t) \/ Receive(t)
        <5>1. UNCHANGED <<held, disturbed>>
          BY <4>2 DEF AnswerOwn, AskUpstream, Acquire, Send, Receive
        <5> QED BY <5>1, Zenon
      <4>3. CASE TimeOut(t) \/ Redial(t) \/ RequestFails(t)
        BY <4>3, Zenon DEF TimeOut, Redial, RequestFails
      <4> QED BY <2>4, <4>1, <4>2, <4>3, Zenon DEF Step
    <3>2. Quiet /\ store' = store
      BY <3>1 DEF Quiet, held
    <3> QED BY <2>4, <3>2, ChainStep
  <2>5. ASSUME NEW s \in Server, Forget(s)
        PROVE  Chained(task', store')
    BY <2>5 DEF Forget, held, Quiet
  <2> HIDE DEF Inv
  <2> QED BY <2>1, <2>2, <2>3, <2>4, <2>5, Zenon DEF Next
<1>3. Inv => ChainResolves
  BY DEF ChainResolves, Quiet, Chained, Fruitless, Leads, Route, reaches, Task
<1> QED
  BY <1>1, <1>2, <1>3, AlwaysForwardInv, PTL DEF Spec

-----------------------------------------------------------------------------
(***************************************************************************)
(* How many requests are in flight. The library's facts about Cardinality  *)
(* are brought in only here. Its Cardinality is the one that Forward uses: *)
(* their definitions are the same, and PermitsBalance expands them both.   *)
(***************************************************************************)
USE DEF Cardinality
LOCAL INSTANCE FiniteSetTheorems

(* On every server the permits left and the requests in flight add up.     *)
Counted(f, p) ==
    \A s \in Server :
        IsFiniteSet(InFlight(f, s)) /\ p[s] + Cardinality(InFlight(f, s)) = Permits

(* Permits taken and given back with the requests add up with them.        *)
LEMMA CountMoves ==
    ASSUME NEW f, NEW g, NEW p \in [Server -> Nat], NEW q, Counted(f, p), Balanced(f, g, p, q)
    PROVE  Counted(g, q)
<1> SUFFICES ASSUME NEW s \in Server
             PROVE  IsFiniteSet(InFlight(g, s)) /\ q[s] + Cardinality(InFlight(g, s)) = Permits
  BY DEF Counted
<1> DEFINE F == InFlight(f, s)
           G == InFlight(g, s)
<1>1. IsFiniteSet(F) /\ p[s] + Cardinality(F) = Permits /\ p[s] \in Nat
  BY DEF Counted
<1>2. \/ G = F /\ q[s] = p[s]
      \/ \E t : t \notin F /\ G = F \union {t} /\ q[s] = p[s] - 1
      \/ \E t \in F : G = F \ {t} /\ q[s] = p[s] + 1
  BY DEF Balanced
<1> HIDE DEF F, G
<1>3. Cardinality(F) \in Nat
  BY <1>1, FS_CardinalityType
<1>4. ASSUME NEW t, t \notin F, G = F \union {t}, q[s] = p[s] - 1
      PROVE  IsFiniteSet(G) /\ q[s] + Cardinality(G) = Permits
  <2>1. IsFiniteSet(G) /\ Cardinality(G) = Cardinality(F) + 1
    BY <1>1, <1>4, FS_AddElement
  <2> QED BY <1>1, <1>3, <1>4, <2>1
<1>5. ASSUME NEW t \in F, G = F \ {t}, q[s] = p[s] + 1
      PROVE  IsFiniteSet(G) /\ q[s] + Cardinality(G) = Permits
  <2>1. IsFiniteSet(G) /\ Cardinality(G) = Cardinality(F) - 1
    BY <1>1, <1>5, FS_RemoveElement
  <2> QED BY <1>1, <1>3, <1>5, <2>1
<1>6. IsFiniteSet(G) /\ q[s] + Cardinality(G) = Permits
  BY <1>1, <1>2, <1>4, <1>5
<1> QED
  BY <1>6 DEF G

(* They add up from the start and after every step.                        *)
LEMMA AlwaysCounted == Spec => []Counted(task, permits)
<1>1. Init => Counted(task, permits)
  <2> SUFFICES ASSUME Init PROVE Counted(task, permits)
    OBVIOUS
  <2>1. Permits \in Nat
    BY ForwardAssumption DEF ForwardAssumption
  <2>2. \A s \in Server : InFlight(task, s) = {} /\ permits[s] = Permits
    BY DEF Init, InFlight
  <2>3. IsFiniteSet({}) /\ Cardinality({}) = 0
    BY FS_EmptySet
  <2>4. Permits + 0 = Permits
    BY <2>1
  <2> QED BY <2>2, <2>3, <2>4, Zenon DEF Counted
<1>2. ForwardInv /\ Counted(task, permits) /\ [Next]_vars => Counted(task, permits)'
  <2> SUFFICES ASSUME ForwardInv, Counted(task, permits), [Next]_vars
               PROVE  Counted(task', permits')
    OBVIOUS
  <2>1. permits \in [Server -> Nat] /\ Balanced(task, task', permits, permits')
    BY NextForwardInv DEF ForwardInv, Shape, Balance
  <2> QED BY <2>1, CountMoves
<1> QED
  BY <1>1, <1>2, AlwaysForwardInv, PTL DEF Spec

(* The semaphore never goes out of range.                                  *)
LEMMA PermitsInRange == ForwardInv /\ Counted(task, permits) => permits \in [Server -> 0 .. Permits]
<1> SUFFICES ASSUME ForwardInv, Counted(task, permits), NEW s \in Server
             PROVE  permits[s] \in 0 .. Permits
  BY DEF ForwardInv, Shape
<1>1. permits[s] \in Nat
  BY DEF ForwardInv, Shape
<1>2. IsFiniteSet(InFlight(task, s)) /\ permits[s] + Cardinality(InFlight(task, s)) = Permits
  BY DEF Counted
<1>3. Cardinality(InFlight(task, s)) \in Nat
  BY <1>2, FS_CardinalityType
<1>4. Permits \in Nat
  BY ForwardAssumption DEF ForwardAssumption
<1> QED
  BY <1>1, <1>2, <1>3, <1>4

(* A lookup that is forwarded (server.rs, upstream.rs) carries a hop       *)
(* budget: in every network, also one whose upstreams form cycles, no      *)
(* chain of handlers is longer than MAX_RECURSE allows, and no handler     *)
(* sends an upstream more than two requests.                               *)
THEOREM TypeCorrect == Spec => []TypeOK
<1>1. ForwardInv /\ Counted(task, permits) => TypeOK
  <2> SUFFICES ASSUME ForwardInv, Counted(task, permits) PROVE TypeOK
    OBVIOUS
  <2>1. Shape /\ Budgeted(task) /\ permits \in [Server -> 0 .. Permits]
    BY PermitsInRange DEF ForwardInv
  <2>2. Task \subseteq Name
    BY <2>1 DEF Budgeted, Task
  <2>3. \A t \in Task : task[t] \in Handler
    BY <2>1 DEF Shape
  <2> QED BY <2>1, <2>2, <2>3 DEF TypeOK, Shape, Handler
<1> QED
  BY <1>1, AlwaysForwardInv, AlwaysCounted, PTL

(* Upstream::lookup (upstream.rs) gives back every permit it takes:        *)
(* through answers, refusals, errors, reconnections and timeouts, what is  *)
(* left of the semaphore and the queries in flight add up to the cap.      *)
THEOREM PermitsBalance == Spec => []PermitsAddUp
<1>1. Counted(task, permits) => PermitsAddUp
  BY Zenon DEF Counted, InFlight, PermitsAddUp, Task, Cardinality
<1> QED
  BY <1>1, AlwaysCounted, PTL
=============================================================================
