--------------------------- MODULE ForwardLemmas ---------------------------
(***************************************************************************)
(* The inductive invariant of Forward, how the names and the fields of its *)
(* handlers behave, and the kinds of steps that keep it: a handler that    *)
(* begins or answers, takes a permit, or gives one back.  At the end, the  *)
(* routes to a server that holds the key and what a handler has learned of *)
(* them.                                                                   *)
(***************************************************************************)
EXTENDS Forward, TLAPS

Handler ==
    [at : Server, recurse : 0 .. MaxRecurse,
     pc : {"start", "permit", "lock", "wait", "done"},
     idx : 0 .. Width, sent : 0 .. 2 * Width, answered : 0 .. Width,
     result : Identity \union {"pending", "none", "error"}]

(* The shapes of the variables.                                            *)
Shape ==
    /\ store \in [Server -> Identity \union {None}]
    /\ bound \in [Server -> Identity \union {None}]
    /\ task \in [Task -> Handler]
    /\ link = [s \in Server |-> link[s]]
    /\ pooled = [s \in Server |-> pooled[s]]
    /\ \A s \in Server :
          /\ link[s] \in [1 .. fanout(s) -> Task \union {NoTask}]
          /\ pooled[s] \in [1 .. fanout(s) -> BOOLEAN]
    /\ permits \in [Server -> Nat]
    /\ cache \in [Server -> Identity \union {"empty", "missing"}]
    /\ disturbed \in BOOLEAN
    /\ changes \in 0 .. MaxChanges

(* A name grows by one with every hop that is spent.                       *)
Budgeted(f) ==
    \A t \in DOMAIN f : t \in Name /\ Len(t) + f[t].recurse <= MaxRecurse + 1

(* A task was started by a request its parent has sent, with one hop less  *)
(* to spend.                                                               *)
Kin(f) ==
    \A t \in Name, n \in Nat :
        Append(t, n) \in DOMAIN f =>
            /\ t \in DOMAIN f
            /\ n <= f[t].sent
            /\ f[Append(t, n)].recurse = f[t].recurse - 1

Busy(h) == h.pc \in {"permit", "lock", "wait"}

(* How far a task has come in its list of upstreams, and what it has sent  *)
(* and heard on the way: two requests to those it is done with, and one to *)
(* the one it waits for as long as the pooled connection has not failed.   *)
Placed(h) ==
    /\ h.pc = "start" => h.idx = 0 /\ h.sent = 0 /\ h.answered = 0
    /\ h.pc # "done" => h.result = "pending"
    /\ h.pc = "done" => h.result # "pending"
    /\ Busy(h) =>
          /\ h.recurse > 0
          /\ h.idx \in 1 .. fanout(h.at)
          /\ h.answered <= h.idx - 1
          /\ h.sent <= IF h.pc = "wait" THEN 2 * h.idx ELSE 2 * h.idx - 2

Progress(f, p) ==
    \A t \in DOMAIN f :
        /\ Placed(f[t])
        /\ f[t].pc = "wait" /\ p[f[t].at][f[t].idx] => f[t].sent <= 2 * f[t].idx - 1

(* The handler that a task's last request started runs at the upstream     *)
(* the task waits for.                                                     *)
Asked(f) ==
    \A t \in DOMAIN f :
        f[t].pc = "wait" /\ Append(t, f[t].sent) \in DOMAIN f =>
            f[Append(t, f[t].sent)].at = Upstreams[f[t].at][f[t].idx]

InFlight(f, s) == {t \in DOMAIN f : f[t].at = s /\ f[t].pc \in {"lock", "wait"}}

(* From f to g the permits go from p to q as the requests in flight do.    *)
Balanced(f, g, p, q) ==
    \A s \in Server :
        \/ InFlight(g, s) = InFlight(f, s) /\ q[s] = p[s]
        \/ \E t : /\ t \notin InFlight(f, s) /\ InFlight(g, s) = InFlight(f, s) \union {t}
                 /\ q[s] = p[s] - 1
        \/ \E t \in InFlight(f, s) : InFlight(g, s) = InFlight(f, s) \ {t} /\ q[s] = p[s] + 1

Balance == Balanced(task, task', permits, permits')

Locked(f, l) ==
    \A s \in Server : \A i \in 1 .. fanout(s), t \in DOMAIN f :
        l[s][i] = t <=> f[t].at = s /\ f[t].idx = i /\ f[t].pc = "wait"

(* A record that is held is bound.                                         *)
HeldIsBound == \A s \in Server : store[s] # None => bound[s] = store[s]

(* What a task has been told: an absence it answers is true of its server, *)
(* and one that all the upstreams so far have answered is true of them.    *)
Told(h, st) ==
    /\ h.result = "none" => st[h.at] = None
    /\ Busy(h) =>
          /\ st[h.at] = None
          /\ h.answered = h.idx - 1 => \A i \in 1 .. h.idx - 1 : st[Upstreams[h.at][i]] = None

Absent(f, st) == \A t \in DOMAIN f : Told(f[t], st)

(* While the stores stay as they are, what is not held is not bound.       *)
Truthful ==
    changes = 0 => /\ \A s \in Server : bound[s] = store[s]
                   /\ Absent(task, store)

ForwardInv ==
    /\ Shape
    /\ Budgeted(task)
    /\ Kin(task)
    /\ Progress(task, pooled)
    /\ Asked(task)
    /\ Locked(task, link)
    /\ HeldIsBound
    /\ Truthful
    /\ NegativeIsTrue

-----------------------------------------------------------------------------
(* A name is a sequence, and not the empty one.                            *)
LEMMA NameIsSeq ==
    ASSUME NEW t \in Name
    PROVE  t \in Seq(Client \union Nat) /\ Len(t) \in Nat \ {0}
<1>0. PICK c \in Client, p \in Path : t = <<c>> \o p
  BY Zenon DEF Name
<1>1. PICK n \in 0 .. MaxRecurse : p \in [1 .. n -> 1 .. 2 * Width]
  BY DEF Path
<1>2. n \in Nat /\ p \in Seq(1 .. 2 * Width) /\ Len(p) = n
  BY <1>1, ForwardAssumption DEF ForwardAssumption
<1>3. <<c>> \in Seq(Client \union Nat) /\ p \in Seq(Client \union Nat) /\ Len(<<c>>) = 1
  BY <1>2, ForwardAssumption DEF ForwardAssumption
<1>4. t \in Seq(Client \union Nat) /\ Len(t) = 1 + n
  BY <1>0, <1>2, <1>3
<1> QED
  BY <1>2, <1>4

(* A client's lookup has a name of its own.                                *)
LEMMA RootName ==
    ASSUME NEW c \in Client
    PROVE  <<c>> \in Name /\ Len(<<c>>) = 1
<1>1. MaxRecurse \in Nat
  BY ForwardAssumption DEF ForwardAssumption
<1>2. << >> \in [1 .. 0 -> 1 .. 2 * Width]
  OBVIOUS
<1>3. <<c>> \o << >> = <<c>>
  OBVIOUS
<1>4. << >> \in Path
  BY <1>1, <1>2 DEF Path
<1> QED
  BY <1>3, <1>4 DEF Name

(* So has every handler that a request within the budget starts.           *)
LEMMA ChildName ==
    ASSUME NEW t \in Name, NEW m \in 1 .. 2 * Width, Len(t) <= MaxRecurse
    PROVE  Append(t, m) \in Name /\ Len(Append(t, m)) = Len(t) + 1
<1>0. PICK c \in Client, p \in Path : t = <<c>> \o p
  BY Zenon DEF Name
<1>1. PICK n \in 0 .. MaxRecurse : p \in [1 .. n -> 1 .. 2 * Width]
  BY DEF Path
<1> DEFINE S == Client \union (1 .. 2 * Width)
<1>2. n \in Nat /\ p \in Seq(1 .. 2 * Width) /\ Len(p) = n
  BY <1>1, ForwardAssumption DEF ForwardAssumption
<1>3. <<c>> \in Seq(S) /\ p \in Seq(S) /\ <<m>> \in Seq(S) /\ Len(<<c>>) = 1
  <2>1. c \in S /\ m \in S
    OBVIOUS
  <2>2. \A i \in 1 .. n : p[i] \in S
    BY <1>1
  <2>3. p \in Seq(S)
    BY <1>2, <2>2
  <2> HIDE DEF S
  <2> QED BY <2>1, <2>3
<1>4. Len(t) = 1 + n /\ t \in Seq(S)
  BY <1>0, <1>2, <1>3
<1> DEFINE q == Append(p, m)
<1>5. q \in Seq(1 .. 2 * Width) /\ Len(q) = n + 1
  <2>1. p \in Seq(1 .. 2 * Width) /\ m \in 1 .. 2 * Width
    BY <1>2
  <2>2. q \in Seq(1 .. 2 * Width) /\ Len(q) = Len(p) + 1
    BY <2>1
  <2> QED BY <1>2, <2>2
<1>6. q \in [1 .. n + 1 -> 1 .. 2 * Width]
  <2> DEFINE W == 1 .. 2 * Width
  <2>1. q \in Seq(W) /\ Len(q) = n + 1
    BY <1>5
  <2> HIDE DEF q, W
  <2>2. q \in [1 .. n + 1 -> W]
    BY <2>1
  <2> QED BY <2>2 DEF W
<1>7. n + 1 \in 0 .. MaxRecurse
  BY <1>2, <1>4, ForwardAssumption DEF ForwardAssumption
<1>8. Append(t, m) = <<c>> \o q
  BY <1>0, <1>3
<1>9. Append(t, m) \in Name
  <2> HIDE DEF q
  <2>1. q \in Path
    BY <1>6, <1>7 DEF Path
  <2> QED BY <2>1, <1>8 DEF Name
<1> QED
  BY <1>4, <1>9

(* Appending is one to one.                                                *)
LEMMA SameAppend ==
    ASSUME NEW S, NEW e \in S, NEW s \in Seq(S), NEW f \in S, NEW t \in Seq(S),
           Append(s, e) = Append(t, f)
    PROVE  s = t /\ e = f
  OBVIOUS

(* No two requests start handlers of the same name, and none starts one    *)
(* with the name of a client's lookup or of the task that sends it.        *)
LEMMA NamesApart ==
    ASSUME NEW t \in Name, NEW m \in Nat
    PROVE  /\ \A u \in Name, n \in Nat : Append(t, m) = Append(u, n) => t = u /\ m = n
           /\ \A c \in Client : Append(t, m) # <<c>>
           /\ Append(t, m) # t
<1> DEFINE S == Client \union Nat
<1>1. t \in Seq(S) /\ Len(t) \in Nat \ {0} /\ m \in S
  BY NameIsSeq
<1>2. \A u \in Name, n \in Nat : u \in Seq(S) /\ n \in S
  BY NameIsSeq
<1> HIDE DEF S
<1>3. Len(Append(t, m)) = Len(t) + 1
  BY <1>1
<1>4. ASSUME NEW u \in Name, NEW n \in Nat, Append(t, m) = Append(u, n)
      PROVE  t = u /\ m = n
  <2>1. u \in Seq(S) /\ n \in S
    BY <1>2
  <2> QED BY <1>1, <1>4, <2>1, SameAppend
<1>5. \A c \in Client : Len(<<c>>) = 1
  OBVIOUS
<1>6. \A c \in Client : Append(t, m) # <<c>>
  <2> DEFINE l == Len(t)
  <2>1. l \in Nat \ {0} /\ Len(Append(t, m)) = l + 1
    BY <1>1, <1>3
  <2> HIDE DEF l
  <2>2. Len(Append(t, m)) # 1
    BY <2>1
  <2> QED BY <1>5, <2>2, Zenon
<1>7. Append(t, m) # t
  BY <1>1, <1>3
<1> QED
  BY <1>4, <1>6, <1>7

-----------------------------------------------------------------------------
(***************************************************************************)
(* What a step makes of the tasks: task t goes from f[t] to h, and a       *)
(* request it sends may start a handler.                                   *)
(***************************************************************************)
Advance(f, g, t, h, K) ==
    /\ t \in DOMAIN f
    /\ DOMAIN g = DOMAIN f \union K
    /\ g[t] = h
    /\ \A x \in DOMAIN f \ {t} : g[x] = f[x]
    /\ h.at = f[t].at
    /\ h.recurse = f[t].recurse
    /\ f[t].sent <= h.sent
    /\ \A x \in K :
          /\ x = Append(t, h.sent)
          /\ x \notin DOMAIN f
          /\ f[t].sent < h.sent
          /\ 0 < h.recurse
          /\ g[x] = Started(Upstreams[h.at][h.idx], h.recurse - 1)

(* A client's request starts a handler.                                    *)
Open(f, g, c, s, r) ==
    /\ <<c>> \notin DOMAIN f
    /\ DOMAIN g = DOMAIN f \union {<<c>>}
    /\ g[<<c>>] = Started(s, r)
    /\ \A x \in DOMAIN f : g[x] = f[x]

(* The fields of a handler.                                                *)
LEMMA HandlerFields ==
    ASSUME NEW h \in Handler
    PROVE  /\ h.at \in Server
           /\ h.recurse \in 0 .. MaxRecurse
           /\ h.pc \in {"start", "permit", "lock", "wait", "done"}
           /\ h.idx \in 0 .. Width
           /\ h.sent \in 0 .. 2 * Width
           /\ h.answered \in 0 .. Width
           /\ h.result \in Identity \union {"pending", "none", "error"}
  BY DEF Handler

(* A handler that waits does so for one of its server's upstreams, and has *)
(* locked the connection to it.                                            *)
LEMMA WaiterLocks ==
    ASSUME NEW f, NEW l, Locked(f, l), NEW x \in DOMAIN f, f[x] \in Handler, Placed(f[x]),
           f[x].pc = "wait"
    PROVE  /\ f[x].at \in Server /\ f[x].idx \in 1 .. fanout(f[x].at)
           /\ l[f[x].at][f[x].idx] = x
<1>1. f[x].at \in Server /\ f[x].idx \in 1 .. fanout(f[x].at)
  BY HandlerFields DEF Placed, Busy
<1> QED
  BY <1>1 DEF Locked

(* The numbers of the configuration are in range, and an upstream is a     *)
(* server.                                                                 *)
LEMMA Bounds == /\ Width \in Nat /\ MaxRecurse \in Nat /\ 2 * Width \in Nat
                /\ \A s \in Server : /\ fanout(s) \in 0 .. Width
                                     /\ \A i \in 1 .. fanout(s) : Upstreams[s][i] \in Server
<1>1. Width \in Nat /\ MaxRecurse \in Nat /\ Upstreams \in [Server -> Seq(Server)]
  BY ForwardAssumption DEF ForwardAssumption
<1>2. ASSUME NEW s \in Server
      PROVE  fanout(s) \in 0 .. Width /\ \A i \in 1 .. fanout(s) : Upstreams[s][i] \in Server
  <2>1. Upstreams[s] \in Seq(Server) /\ Len(Upstreams[s]) <= Width
    BY <1>1, ForwardAssumption DEF ForwardAssumption
  <2>2. Len(Upstreams[s]) \in Nat /\ \A i \in 1 .. Len(Upstreams[s]) : Upstreams[s][i] \in Server
    BY <2>1
  <2> QED BY <1>1, <2>1, <2>2 DEF fanout
<1> QED
  BY <1>1, <1>2

(* A handler that has just read its request.                               *)
LEMMA StartedIsHandler ==
    ASSUME NEW s \in Server, NEW r \in 0 .. MaxRecurse
    PROVE  /\ Started(s, r) \in Handler
           /\ Started(s, r).at = s
           /\ Started(s, r).recurse = r
           /\ Started(s, r).pc = "start"
           /\ Started(s, r).sent = 0
           /\ Started(s, r).result = "pending"
           /\ Placed(Started(s, r))
<1>1. 0 \in 0 .. Width /\ 0 \in 0 .. 2 * Width
  BY Bounds
<1>2. Started(s, r) \in Handler
  BY <1>1 DEF Started, Handler
<1> QED
  BY <1>2 DEF Started, Placed, Busy

(* A handler that goes to another place in its list or ends.               *)
LEMMA FieldsMoved ==
    ASSUME NEW h \in Handler, NEW p \in {"start", "permit", "lock", "wait", "done"},
           NEW i \in 0 .. Width, NEW m \in 0 .. 2 * Width, NEW n \in 0 .. Width,
           NEW r \in Identity \union {"pending", "none", "error"}
    PROVE  /\ [h EXCEPT !.pc = p] \in Handler
           /\ [h EXCEPT !.idx = i] \in Handler
           /\ [h EXCEPT !.sent = m] \in Handler
           /\ [h EXCEPT !.answered = n] \in Handler
           /\ [h EXCEPT !.result = r] \in Handler
  BY DEF Handler

(* A handler at its first upstream, at the next one after n answers, and   *)
(* at the end of its list with result r.                                   *)
FirstOf(b) == [b EXCEPT !.pc = "permit", !.idx = 1]
NextOf(b, n) == [b EXCEPT !.pc = "permit", !.idx = b.idx + 1, !.answered = n]
EndOf(b, n, r) == [b EXCEPT !.pc = "done", !.answered = n, !.result = r]

(* The numbers of a handler that is at one of its upstreams.               *)
LEMMA BusyFields ==
    ASSUME NEW b \in Handler, Placed(b), Busy(b)
    PROVE  /\ b.at \in Server /\ b.recurse > 0 /\ b.result = "pending"
           /\ b.idx \in 1 .. fanout(b.at) /\ fanout(b.at) \in 0 .. Width /\ Width \in Nat
           /\ b.answered \in 0 .. b.idx - 1
           /\ b.sent \in 0 .. 2 * Width /\ b.sent <= 2 * b.idx
<1>1. /\ b.at \in Server /\ b.idx \in 0 .. Width
      /\ b.sent \in 0 .. 2 * Width /\ b.answered \in 0 .. Width
  BY HandlerFields
<1>2. fanout(b.at) \in 0 .. Width /\ Width \in Nat
  BY <1>1, Bounds
<1>3. /\ b.recurse > 0 /\ b.result = "pending" /\ b.idx \in 1 .. fanout(b.at)
      /\ b.answered <= b.idx - 1
      /\ b.sent <= IF b.pc = "wait" THEN 2 * b.idx ELSE 2 * b.idx - 2
  BY DEF Placed, Busy
<1> QED
  BY <1>1, <1>2, <1>3

(* Turning to the first upstream.                                          *)
LEMMA FirstUpstream ==
    ASSUME NEW b \in Handler, Placed(b), b.pc = "start", b.recurse > 0, fanout(b.at) > 0,
           NEW st, st[b.at] = None
    PROVE  /\ FirstOf(b) \in Handler /\ FirstOf(b).pc = "permit"
           /\ FirstOf(b).at = b.at /\ FirstOf(b).recurse = b.recurse
           /\ FirstOf(b).sent = b.sent /\ FirstOf(b).result = b.result
           /\ Placed(FirstOf(b)) /\ Told(FirstOf(b), st)
<1> DEFINE h0 == [b EXCEPT !.pc = "permit"]
           h == [h0 EXCEPT !.idx = 1]
<1>1. fanout(b.at) \in 0 .. Width /\ Width \in Nat
  BY HandlerFields, Bounds
<1>2. 1 \in 1 .. fanout(b.at) /\ 1 \in 0 .. Width
  BY <1>1
<1>3. h0 \in Handler /\ h0.pc = "permit" /\ h0.at = b.at /\ h0.recurse = b.recurse
      /\ h0.sent = b.sent /\ h0.answered = b.answered /\ h0.result = b.result
  BY DEF Handler
<1>4. FirstOf(b) = h
  BY DEF FirstOf, Handler
<1> HIDE DEF h0
<1>5. h \in Handler /\ h.pc = "permit" /\ h.at = b.at /\ h.recurse = b.recurse
      /\ h.sent = b.sent /\ h.answered = b.answered /\ h.result = b.result /\ h.idx = 1
  BY <1>2, <1>3 DEF Handler
<1> HIDE DEF h
<1>6. b.sent = 0 /\ b.answered = 0 /\ b.result = "pending"
  BY DEF Placed
<1>7. Placed(h)
  BY <1>2, <1>5, <1>6 DEF Placed, Busy
<1>8. Told(h, st)
  <2>1. \A i \in 1 .. h.idx - 1 : FALSE
    BY <1>5
  <2> QED BY <1>5, <1>6, <2>1 DEF Told
<1> QED
  BY <1>4, <1>5, <1>7, <1>8

(* Going on to the next upstream.                                          *)
LEMMA NextUpstream ==
    ASSUME NEW b \in Handler, Placed(b), Busy(b), b.idx < fanout(b.at),
           NEW n, n = b.answered \/ n = b.answered + 1
    PROVE  /\ NextOf(b, n) \in Handler /\ NextOf(b, n).pc = "permit"
           /\ NextOf(b, n).at = b.at /\ NextOf(b, n).recurse = b.recurse
           /\ NextOf(b, n).sent = b.sent /\ NextOf(b, n).result = "pending"
           /\ NextOf(b, n).answered = n /\ NextOf(b, n).idx = b.idx + 1
           /\ Placed(NextOf(b, n))
<1> DEFINE h0 == [b EXCEPT !.pc = "permit"]
           h1 == [h0 EXCEPT !.idx = b.idx + 1]
           h == [h1 EXCEPT !.answered = n]
<1>1. /\ b.at \in Server /\ b.recurse > 0 /\ b.result = "pending"
      /\ b.idx \in 1 .. fanout(b.at) /\ fanout(b.at) \in 0 .. Width /\ Width \in Nat
      /\ b.answered \in 0 .. b.idx - 1
      /\ b.sent \in 0 .. 2 * Width /\ b.sent <= 2 * b.idx
  BY BusyFields, Zenon
<1>2. b.idx + 1 \in 1 .. fanout(b.at) /\ b.idx + 1 \in 0 .. Width
      /\ n \in 0 .. Width /\ n <= b.idx + 1 - 1
  BY <1>1
<1>3. b.sent <= 2 * (b.idx + 1) - 2
  BY <1>1
<1>4. NextOf(b, n) = h
  BY DEF NextOf, Handler
<1>5. h0 \in Handler /\ h0.pc = "permit" /\ h0.at = b.at /\ h0.recurse = b.recurse
      /\ h0.sent = b.sent /\ h0.result = b.result
  BY DEF Handler
<1> HIDE DEF h0
<1>6. h1 \in Handler /\ h1.pc = "permit" /\ h1.at = b.at /\ h1.recurse = b.recurse
      /\ h1.sent = b.sent /\ h1.result = b.result /\ h1.idx = b.idx + 1
  BY <1>2, <1>5 DEF Handler
<1> HIDE DEF h1
<1>7. h \in Handler /\ h.pc = "permit" /\ h.at = b.at /\ h.recurse = b.recurse
      /\ h.sent = b.sent /\ h.result = b.result /\ h.idx = b.idx + 1 /\ h.answered = n
  BY <1>2, <1>6 DEF Handler
<1> HIDE DEF h
<1>8. Placed(h)
  BY <1>1, <1>2, <1>3, <1>7 DEF Placed, Busy
<1> QED
  BY <1>1, <1>4, <1>7, <1>8

(* What a handler at its next upstream has been told, if an answer more is *)
(* one more upstream that holds nothing.                                   *)
LEMMA NextTold ==
    ASSUME NEW b \in Handler, Placed(b), Busy(b), b.idx < fanout(b.at),
           NEW n, n = b.answered \/ n = b.answered + 1, NEW st, Told(b, st),
           n = b.answered + 1 => st[Upstreams[b.at][b.idx]] = None
    PROVE  Told(NextOf(b, n), st)
<1> DEFINE h == NextOf(b, n)
<1>1. h.pc = "permit" /\ h.at = b.at /\ h.result = "pending" /\ h.answered = n /\ h.idx = b.idx + 1
  BY NextUpstream
<1>2. b.idx \in Nat /\ b.answered \in 0 .. b.idx - 1
  BY BusyFields
<1>3. h.idx - 1 = b.idx
  BY <1>1, <1>2
<1>4. st[b.at] = None
  BY DEF Told
<1>5. ASSUME n = b.idx
      PROVE  \A i \in 1 .. b.idx : st[Upstreams[b.at][i]] = None
  <2>1. n = b.answered + 1 /\ b.answered = b.idx - 1
    BY <1>2, <1>5
  <2>2. \A i \in 1 .. b.idx - 1 : st[Upstreams[b.at][i]] = None
    BY <2>1 DEF Told
  <2>3. \A i \in 1 .. b.idx : i \in 1 .. b.idx - 1 \/ i = b.idx
    BY <1>2
  <2> QED BY <2>1, <2>2, <2>3
<1> HIDE DEF h
<1>6. Told(h, st)
  BY <1>1, <1>3, <1>4, <1>5 DEF Told
<1> QED
  BY <1>6 DEF h

(* Coming to the end of the list.                                          *)
LEMMA EndOfList ==
    ASSUME NEW b \in Handler, Placed(b), Busy(b), ~(b.idx < fanout(b.at)),
           NEW n, n = b.answered \/ n = b.answered + 1, NEW r \in {"none", "error"}
    PROVE  /\ EndOf(b, n, r) \in Handler /\ EndOf(b, n, r).pc = "done"
           /\ EndOf(b, n, r).at = b.at /\ EndOf(b, n, r).recurse = b.recurse
           /\ EndOf(b, n, r).sent = b.sent /\ EndOf(b, n, r).result = r
           /\ Placed(EndOf(b, n, r))
           /\ b.idx = fanout(b.at)
<1> DEFINE h0 == [b EXCEPT !.pc = "done"]
           h1 == [h0 EXCEPT !.answered = n]
           h == [h1 EXCEPT !.result = r]
<1>1. /\ b.idx \in 1 .. fanout(b.at) /\ fanout(b.at) \in 0 .. Width /\ Width \in Nat
      /\ b.answered \in 0 .. b.idx - 1
  BY BusyFields, Zenon
<1>2. n \in 0 .. Width /\ b.idx = fanout(b.at)
  BY <1>1
<1>3. EndOf(b, n, r) = h
  BY DEF EndOf, Handler
<1>4. h0 \in Handler /\ h0.pc = "done" /\ h0.at = b.at /\ h0.recurse = b.recurse
      /\ h0.sent = b.sent
  BY DEF Handler
<1> HIDE DEF h0
<1>5. h1 \in Handler /\ h1.pc = "done" /\ h1.at = b.at /\ h1.recurse = b.recurse
      /\ h1.sent = b.sent
  BY <1>2, <1>4 DEF Handler
<1> HIDE DEF h1
<1>6. h \in Handler /\ h.pc = "done" /\ h.at = b.at /\ h.recurse = b.recurse
      /\ h.sent = b.sent /\ h.result = r
  BY <1>5 DEF Handler
<1> HIDE DEF h
<1>7. Placed(h)
  BY <1>6 DEF Placed, Busy
<1> QED
  BY <1>2, <1>3, <1>6, <1>7

(* What a handler at the end of its list has been told.                    *)
LEMMA EndTold ==
    ASSUME NEW b \in Handler, Placed(b), Busy(b), ~(b.idx < fanout(b.at)),
           NEW n, n = b.answered \/ n = b.answered + 1, NEW r \in {"none", "error"},
           NEW st, Told(b, st), n = b.answered + 1 => st[Upstreams[b.at][b.idx]] = None
    PROVE  /\ Told(EndOf(b, n, r), st)
           /\ n = fanout(b.at) => \A i \in 1 .. fanout(b.at) : st[Upstreams[b.at][i]] = None
<1> DEFINE h == EndOf(b, n, r)
<1>1. h.pc = "done" /\ h.at = b.at /\ h.result = r /\ b.idx = fanout(b.at)
  BY EndOfList, Zenon
<1>2. b.idx \in Nat /\ b.answered \in 0 .. b.idx - 1
  BY BusyFields
<1>3. st[b.at] = None
  BY DEF Told
<1> HIDE DEF h
<1>4. Told(h, st)
  BY <1>1, <1>3 DEF Told, Busy
<1>5. ASSUME n = b.idx
      PROVE  \A i \in 1 .. b.idx : st[Upstreams[b.at][i]] = None
  <2>1. n = b.answered + 1 /\ b.answered = b.idx - 1
    BY <1>2, <1>5
  <2>2. \A i \in 1 .. b.idx - 1 : st[Upstreams[b.at][i]] = None
    BY <2>1 DEF Told
  <2>3. \A i \in 1 .. b.idx : i \in 1 .. b.idx - 1 \/ i = b.idx
    BY <1>2
  <2> QED BY <2>1, <2>2, <2>3
<1> QED
  BY <1>1, <1>4, <1>5 DEF h

(* What Send and Redial leave of the handler's fields.                     *)
LEMMA SentFields ==
    ASSUME NEW b \in Handler, b.sent + 1 <= 2 * Width
    PROVE  LET h == [b EXCEPT !.pc = "wait", !.sent = @ + 1]
               k == [b EXCEPT !.sent = @ + 1]
           IN /\ h \in Handler /\ h.at = b.at /\ h.recurse = b.recurse /\ h.idx = b.idx
              /\ h.answered = b.answered /\ h.result = b.result /\ h.sent = b.sent + 1
              /\ h.pc = "wait"
              /\ k \in Handler /\ k.at = b.at /\ k.recurse = b.recurse /\ k.idx = b.idx
              /\ k.answered = b.answered /\ k.result = b.result /\ k.sent = b.sent + 1
              /\ k.pc = b.pc
<1> DEFINE w == [b EXCEPT !.pc = "wait"]
           m == b.sent + 1
<1>1. m \in 0 .. 2 * Width
  BY HandlerFields, Bounds
<1>2. w \in Handler /\ w.at = b.at /\ w.recurse = b.recurse /\ w.idx = b.idx /\ w.sent = b.sent
      /\ w.answered = b.answered /\ w.result = b.result /\ w.pc = "wait"
  BY DEF Handler
<1>3. [b EXCEPT !.pc = "wait", !.sent = @ + 1] = [w EXCEPT !.sent = m]
  BY DEF Handler
<1>4. [b EXCEPT !.sent = @ + 1] = [b EXCEPT !.sent = m]
  OBVIOUS
<1> HIDE DEF w, m
<1>5. [w EXCEPT !.sent = m] \in Handler /\ [b EXCEPT !.sent = m] \in Handler
  BY <1>1, <1>2 DEF Handler
<1>6. /\ [w EXCEPT !.sent = m].at = w.at /\ [w EXCEPT !.sent = m].recurse = w.recurse
      /\ [w EXCEPT !.sent = m].idx = w.idx /\ [w EXCEPT !.sent = m].answered = w.answered
      /\ [w EXCEPT !.sent = m].result = w.result /\ [w EXCEPT !.sent = m].pc = w.pc
      /\ [w EXCEPT !.sent = m].sent = m
  BY <1>2 DEF Handler
<1>7. /\ [b EXCEPT !.sent = m].at = b.at /\ [b EXCEPT !.sent = m].recurse = b.recurse
      /\ [b EXCEPT !.sent = m].idx = b.idx /\ [b EXCEPT !.sent = m].answered = b.answered
      /\ [b EXCEPT !.sent = m].result = b.result /\ [b EXCEPT !.sent = m].pc = b.pc
      /\ [b EXCEPT !.sent = m].sent = m
  BY DEF Handler
<1> QED
  BY <1>2, <1>3, <1>4, <1>5, <1>6, <1>7 DEF m

(* A step of task t that changes, of the pooled connections, none but its  *)
(* own, where l says who has locked which.                                 *)
OwnChanges(l, p, q, t) ==
    \A s \in Server : \A i \in 1 .. fanout(s) : q[s][i] = p[s][i] \/ l[s][i] = t

(* The connections the others wait on stay as they are in such a step.     *)
LEMMA OthersConnections ==
    ASSUME NEW f, NEW l, NEW p, NEW q, NEW t, Locked(f, l), Progress(f, p),
           \A x \in DOMAIN f : f[x] \in Handler, OwnChanges(l, p, q, t)
    PROVE  \A x \in DOMAIN f \ {t} :
               f[x].pc = "wait" => q[f[x].at][f[x].idx] = p[f[x].at][f[x].idx]
<1> SUFFICES ASSUME NEW x \in DOMAIN f \ {t}, f[x].pc = "wait"
             PROVE  q[f[x].at][f[x].idx] = p[f[x].at][f[x].idx]
  BY Zenon
<1>1. f[x] \in Handler /\ Placed(f[x])
  BY DEF Progress
<1>2. f[x].at \in Server /\ f[x].idx \in 1 .. fanout(f[x].at) /\ l[f[x].at][f[x].idx] = x
  BY <1>1, WaiterLocks
<1> QED
  BY <1>2 DEF OwnChanges

-----------------------------------------------------------------------------
(* A step of a task keeps names within the budget and apart: the handler a *)
(* request starts is a new one.                                            *)
LEMMA AdvanceNames ==
    ASSUME NEW f, NEW g, NEW t, NEW h \in Handler, NEW K,
           \A x \in DOMAIN f : f[x] \in Handler,
           Advance(f, g, t, h, K), Budgeted(f), Kin(f)
    PROVE  Budgeted(g) /\ Kin(g)
<1> USE Bounds
<1>1. t \in Name /\ h.sent \in 0 .. 2 * Width /\ h.recurse \in 0 .. MaxRecurse
      /\ Len(t) \in Nat /\ Len(t) + h.recurse <= MaxRecurse + 1
  BY HandlerFields, NameIsSeq DEF Advance, Budgeted
<1>2. ASSUME NEW x \in K
      PROVE  /\ x \in Name /\ Len(x) = Len(t) + 1
             /\ g[x].recurse = h.recurse - 1 /\ g[x].sent = 0
  <2>1. x = Append(t, h.sent) /\ f[t].sent < h.sent /\ 0 < h.recurse
        /\ g[x] = Started(Upstreams[h.at][h.idx], h.recurse - 1)
    BY DEF Advance
  <2>2. f[t] \in Handler
    BY DEF Advance
  <2>3. h.sent \in 1 .. 2 * Width
    <3>1. f[t].sent \in 0 .. 2 * Width
      BY <2>2, HandlerFields
    <3> QED BY <1>1, <2>1, <3>1
  <2>4. Len(t) <= MaxRecurse
    BY <1>1, <2>1
  <2>5. x \in Name /\ Len(x) = Len(t) + 1
    BY <1>1, <2>1, <2>3, <2>4, ChildName
  <2> QED BY <2>1, <2>5 DEF Started
<1>3. Budgeted(g)
  <2> SUFFICES ASSUME NEW x \in DOMAIN g
               PROVE  x \in Name /\ Len(x) + g[x].recurse <= MaxRecurse + 1
    BY DEF Budgeted
  <2>1. CASE x \in K
    BY <1>1, <1>2, <2>1
  <2>2. CASE x \in DOMAIN f
    BY <2>2 DEF Advance, Budgeted
  <2> QED BY <2>1, <2>2 DEF Advance
<1>4. Kin(g)
  <2> SUFFICES ASSUME NEW u \in Name, NEW n \in Nat, Append(u, n) \in DOMAIN g
               PROVE  /\ u \in DOMAIN g /\ n <= g[u].sent
                      /\ g[Append(u, n)].recurse = g[u].recurse - 1
    BY DEF Kin
  <2>1. CASE Append(u, n) \in K
    <3>1. Append(u, n) = Append(t, h.sent)
      BY <2>1, Zenon DEF Advance
    <3>2. u = t /\ n = h.sent
      BY <1>1, <3>1, NamesApart
    <3>3. g[Append(u, n)].recurse = h.recurse - 1
      BY <1>2, <2>1, Zenon
    <3> QED BY <1>1, <3>2, <3>3 DEF Advance
  <2>2. CASE Append(u, n) \in DOMAIN f
    <3> DEFINE x == Append(u, n)
    <3>1. u \in DOMAIN f /\ n <= f[u].sent /\ f[x].recurse = f[u].recurse - 1
      BY <2>2 DEF Kin
    <3>2. f[t].sent \in Nat /\ h.sent \in Nat /\ f[t].sent <= h.sent
      BY HandlerFields DEF Advance
    <3>3. u \in DOMAIN g /\ n <= g[u].sent
      BY <3>1, <3>2 DEF Advance
    <3> HIDE DEF x
    <3>4. x \in DOMAIN f
      BY <2>2 DEF x
    <3>5. g[u].recurse = f[u].recurse /\ g[x].recurse = f[x].recurse
      BY <3>1, <3>4 DEF Advance
    <3> QED BY <3>1, <3>3, <3>5 DEF x
  <2> QED BY <2>1, <2>2 DEF Advance
<1> QED
  BY <1>3, <1>4

(* The names of a client's request.                                        *)
LEMMA OpenNames ==
    ASSUME NEW f, NEW g, NEW c \in Client, NEW s \in Server, NEW r \in 0 .. MaxRecurse,
           Open(f, g, c, s, r), Budgeted(f), Kin(f)
    PROVE  Budgeted(g) /\ Kin(g)
<1>1. <<c>> \in Name /\ Len(<<c>>) = 1
  BY RootName
<1>2. g[<<c>>].recurse = r
  BY StartedIsHandler DEF Open
<1>3. ASSUME NEW x \in DOMAIN g
      PROVE  x \in Name /\ Len(x) + g[x].recurse <= MaxRecurse + 1
  <2>1. CASE x = <<c>>
    BY <1>1, <1>2, <2>1, Bounds
  <2>2. CASE x \in DOMAIN f
    BY <2>2 DEF Open, Budgeted
  <2> QED BY <2>1, <2>2 DEF Open
<1>4. ASSUME NEW u \in Name, NEW n \in Nat, Append(u, n) \in DOMAIN g
      PROVE  /\ u \in DOMAIN g /\ n <= g[u].sent
             /\ g[Append(u, n)].recurse = g[u].recurse - 1
  <2>1. Append(u, n) \in DOMAIN f
    BY <1>4, NamesApart DEF Open
  <2> QED BY <2>1 DEF Kin, Open
<1> QED
  BY <1>3, <1>4 DEF Kin, Budgeted

(* A request is new: no handler has the name of the next one.              *)
LEMMA NextIsNew ==
    ASSUME NEW f, NEW t \in DOMAIN f, f[t] \in Handler, Budgeted(f), Kin(f)
    PROVE  Append(t, f[t].sent + 1) \notin DOMAIN f
<1>1. f[t].sent \in Nat /\ f[t].sent + 1 \in Nat /\ t \in Name
  BY HandlerFields, Bounds DEF Budgeted
<1>2. ~(f[t].sent + 1 <= f[t].sent)
  BY <1>1
<1> QED
  BY <1>1, <1>2 DEF Kin

(* The handler a request starts.                                           *)
LEMMA ChildFields ==
    ASSUME NEW f, NEW g, NEW t, NEW h \in Handler, NEW K, NEW x \in K,
           Advance(f, g, t, h, K), h.idx \in 1 .. fanout(h.at)
    PROVE  /\ g[x] \in Handler
           /\ g[x].at = Upstreams[h.at][h.idx]
           /\ g[x].pc = "start"
           /\ g[x].sent = 0
           /\ g[x].result = "pending"
           /\ Placed(g[x])
<1>1. Upstreams[h.at][h.idx] \in Server
  BY HandlerFields, Bounds
<1>2. h.recurse - 1 \in 0 .. MaxRecurse /\ g[x] = Started(Upstreams[h.at][h.idx], h.recurse - 1)
  BY HandlerFields, Bounds DEF Advance
<1> QED
  BY <1>1, <1>2, StartedIsHandler

(* A handler that is started holds nothing yet.                            *)
LEMMA ChildStarts ==
    ASSUME NEW f, NEW g, NEW t, NEW h, NEW K, NEW x \in K, Advance(f, g, t, h, K)
    PROVE  g[x].pc = "start"
  BY DEF Advance, Started

(* A step of a task that leaves the other tasks' connections alone.        *)
LEMMA AdvanceProgress ==
    ASSUME NEW f, NEW g, NEW t, NEW h \in Handler, NEW K, NEW p, NEW q,
           Advance(f, g, t, h, K), K # {} => h.idx \in 1 .. fanout(h.at),
           Progress(f, p), Placed(h),
           h.pc = "wait" /\ q[h.at][h.idx] => h.sent <= 2 * h.idx - 1,
           \A x \in DOMAIN f \ {t} :
               f[x].pc = "wait" => q[f[x].at][f[x].idx] = p[f[x].at][f[x].idx]
    PROVE  Progress(g, q)
<1> SUFFICES ASSUME NEW x \in DOMAIN g
             PROVE  /\ Placed(g[x])
                    /\ g[x].pc = "wait" /\ q[g[x].at][g[x].idx] => g[x].sent <= 2 * g[x].idx - 1
  BY DEF Progress
<1>1. CASE x \in K
  <2>1. Placed(g[x]) /\ g[x].pc = "start"
    BY <1>1, ChildFields
  <2> QED BY <2>1
<1>2. CASE x = t
  BY <1>2 DEF Advance
<1>3. CASE x \in DOMAIN f \ {t}
  BY <1>3 DEF Advance, Progress
<1> QED
  BY <1>1, <1>2, <1>3 DEF Advance

(* A request that a client opens has not advanced to an upstream yet.      *)
LEMMA OpenProgress ==
    ASSUME NEW f, NEW g, NEW c \in Client, NEW s \in Server, NEW r \in 0 .. MaxRecurse, NEW p,
           Open(f, g, c, s, r), Progress(f, p)
    PROVE  Progress(g, p)
<1>1. g[<<c>>].pc = "start" /\ Placed(g[<<c>>])
  BY StartedIsHandler DEF Open
<1> QED
  BY <1>1 DEF Open, Progress

(* The handler of the last request runs at the upstream that was asked.    *)
LEMMA AdvanceAsked ==
    ASSUME NEW f, NEW g, NEW t, NEW h \in Handler, NEW K,
           \A x \in DOMAIN f : f[x] \in Handler,
           Advance(f, g, t, h, K), K # {} => h.idx \in 1 .. fanout(h.at),
           Budgeted(f), Kin(f), Asked(f),
           h.pc = "wait" => h.sent = f[t].sent + 1
    PROVE  Asked(g)
<1> SUFFICES ASSUME NEW x \in DOMAIN g, g[x].pc = "wait", Append(x, g[x].sent) \in DOMAIN g
             PROVE  g[Append(x, g[x].sent)].at = Upstreams[g[x].at][g[x].idx]
  BY DEF Asked
<1> DEFINE y == Append(x, g[x].sent)
<1>1. CASE x = t
  <2>1. g[x] = h /\ h.sent = f[t].sent + 1 /\ f[t] \in Handler /\ t \in DOMAIN f
    BY <1>1 DEF Advance
  <2>2. y \notin DOMAIN f
    BY <1>1, <2>1, NextIsNew
  <2>3. y \in K
    BY <2>2 DEF Advance
  <2> QED BY <2>1, <2>3, ChildFields
<1>2. CASE x \in DOMAIN f \ {t}
  <2>1. g[x] = f[x] /\ f[x] \in Handler /\ x \in Name /\ t \in Name
    BY <1>2 DEF Advance, Budgeted
  <2>2. y \notin K
    <3>1. f[x].sent \in Nat /\ h.sent \in Nat
      BY <2>1, HandlerFields, Bounds
    <3>2. y \in K => Append(x, f[x].sent) = Append(t, h.sent)
      BY <2>1, Zenon DEF Advance
    <3>3. Append(x, f[x].sent) = Append(t, h.sent) => x = t
      BY <2>1, <3>1, NamesApart
    <3> QED BY <1>2, <3>2, <3>3
  <2>3. y \in DOMAIN f
    BY <2>2 DEF Advance
  <2>4. f[y].at = Upstreams[f[x].at][f[x].idx]
    BY <1>2, <2>1, <2>3 DEF Asked
  <2>5. g[y].at = f[y].at
    BY <2>3 DEF Advance
  <2> QED BY <2>1, <2>4, <2>5
<1>3. CASE x \in K
  BY <1>3, ChildFields
<1> QED
  BY <1>1, <1>2, <1>3 DEF Advance

(* A client's request is nobody's sub-request.                             *)
LEMMA OpenAsked ==
    ASSUME NEW f, NEW g, NEW c \in Client, NEW s \in Server, NEW r \in 0 .. MaxRecurse,
           \A x \in DOMAIN f : f[x] \in Handler,
           Open(f, g, c, s, r), Budgeted(f), Asked(f)
    PROVE  Asked(g)
<1> SUFFICES ASSUME NEW x \in DOMAIN g, g[x].pc = "wait", Append(x, g[x].sent) \in DOMAIN g
             PROVE  g[Append(x, g[x].sent)].at = Upstreams[g[x].at][g[x].idx]
  BY DEF Asked
<1>1. x # <<c>>
  BY StartedIsHandler DEF Open
<1>2. x \in DOMAIN f /\ g[x] = f[x] /\ f[x] \in Handler /\ x \in Name
  BY <1>1 DEF Open, Budgeted
<1>3. f[x].sent \in Nat
  BY <1>2, HandlerFields, Bounds
<1>4. Append(x, g[x].sent) \in DOMAIN f
  BY <1>2, <1>3, NamesApart DEF Open
<1> QED
  BY <1>2, <1>4 DEF Asked, Open

(* The queries in flight after a step of a task.                           *)
LEMMA AdvanceInFlight ==
    ASSUME NEW f, NEW g, NEW t, NEW h \in Handler, NEW K, NEW s,
           Advance(f, g, t, h, K), K # {} => h.idx \in 1 .. fanout(h.at)
    PROVE  InFlight(g, s) = IF h.at = s /\ h.pc \in {"lock", "wait"}
                            THEN InFlight(f, s) \union {t} ELSE InFlight(f, s) \ {t}
<1>1. \A x \in K : g[x].pc = "start"
  BY ChildFields
<1>2. g[t] = h /\ t \in DOMAIN f /\ \A x \in DOMAIN f \ {t} : g[x] = f[x]
  BY DEF Advance
<1>3. DOMAIN g = DOMAIN f \union K
  BY DEF Advance
<1> QED
  BY <1>1, <1>2, <1>3 DEF InFlight

(* A step that neither takes nor gives back a permit.                      *)
LEMMA CountKept ==
    ASSUME NEW f, NEW g, NEW t, NEW h \in Handler, NEW K, NEW p,
           Advance(f, g, t, h, K), K # {} => h.idx \in 1 .. fanout(h.at),
           f[t].pc \in {"lock", "wait"} <=> h.pc \in {"lock", "wait"}
    PROVE  Balanced(f, g, p, p)
<1> SUFFICES ASSUME NEW s \in Server
             PROVE  InFlight(g, s) = InFlight(f, s)
  BY DEF Balanced
<1>1. t \in DOMAIN f /\ h.at = f[t].at
  BY DEF Advance
<1>2. t \in InFlight(f, s) <=> h.at = s /\ h.pc \in {"lock", "wait"}
  BY <1>1 DEF InFlight
<1>3. InFlight(g, s) = IF h.at = s /\ h.pc \in {"lock", "wait"}
                       THEN InFlight(f, s) \union {t} ELSE InFlight(f, s) \ {t}
  BY AdvanceInFlight
<1> QED
  BY <1>2, <1>3

(* A step that takes one.                                                  *)
LEMMA CountTaken ==
    ASSUME NEW f, NEW g, NEW t, NEW h \in Handler, NEW p \in [Server -> Nat],
           Advance(f, g, t, h, {}), f[t].pc \notin {"lock", "wait"}, h.pc \in {"lock", "wait"}
    PROVE  Balanced(f, g, p, [p EXCEPT ![h.at] = @ - 1])
<1> DEFINE q == [p EXCEPT ![h.at] = @ - 1]
<1>1. ASSUME NEW s \in Server
      PROVE  /\ t \notin InFlight(f, s)
             /\ h.at = s => InFlight(g, s) = InFlight(f, s) \union {t} /\ q[s] = p[s] - 1
             /\ h.at # s => InFlight(g, s) = InFlight(f, s) /\ q[s] = p[s]
  <2>1. t \notin InFlight(f, s)
    BY DEF InFlight
  <2>2. InFlight(g, s) = IF h.at = s THEN InFlight(f, s) \union {t} ELSE InFlight(f, s) \ {t}
    BY AdvanceInFlight
  <2> QED BY <2>1, <2>2
<1> HIDE DEF q
<1>2. Balanced(f, g, p, q)
  BY <1>1, Zenon DEF Balanced
<1> QED
  BY <1>2 DEF q

(* A step that gives one back.                                             *)
LEMMA CountFreed ==
    ASSUME NEW f, NEW g, NEW t, NEW h \in Handler, NEW p \in [Server -> Nat],
           Advance(f, g, t, h, {}), f[t].pc \in {"lock", "wait"}, h.pc \notin {"lock", "wait"}
    PROVE  Balanced(f, g, p, [p EXCEPT ![h.at] = @ + 1])
<1> DEFINE q == [p EXCEPT ![h.at] = @ + 1]
<1>1. ASSUME NEW s \in Server
      PROVE  /\ h.at = s => /\ t \in InFlight(f, s) /\ InFlight(g, s) = InFlight(f, s) \ {t}
                            /\ q[s] = p[s] + 1
             /\ h.at # s => InFlight(g, s) = InFlight(f, s) /\ q[s] = p[s]
  <2>1. t \in InFlight(f, s) <=> h.at = s
    BY DEF InFlight, Advance
  <2>2. InFlight(g, s) = InFlight(f, s) \ {t}
    BY AdvanceInFlight
  <2> QED BY <2>1, <2>2
<1> HIDE DEF q
<1>2. Balanced(f, g, p, q)
  BY <1>1, Zenon DEF Balanced
<1> QED
  BY <1>2 DEF q

(* A client's request takes no permit before it forwards.                  *)
LEMMA OpenCounted ==
    ASSUME NEW f, NEW g, NEW c \in Client, NEW s \in Server, NEW r \in 0 .. MaxRecurse, NEW p,
           Open(f, g, c, s, r)
    PROVE  Balanced(f, g, p, p)
<1>1. g[<<c>>].pc = "start"
  BY StartedIsHandler DEF Open
<1>2. \A u \in Server : InFlight(g, u) = InFlight(f, u)
  BY <1>1 DEF Open, InFlight
<1> QED
  BY <1>2 DEF Balanced

(* Among the tasks T, task t comes to have the connections it waits for as *)
(* h, and nobody else gains or loses one.                                  *)
Relinked(T, l, m, t, h) ==
    \A s \in Server : \A i \in 1 .. fanout(s) :
        /\ m[s][i] \in T \union {NoTask}
        /\ m[s][i] = t <=> h.at = s /\ h.idx = i /\ h.pc = "wait"
        /\ \A x \in T \ {t} : m[s][i] = x <=> l[s][i] = x

(* A task that has no connection and asks for none.                        *)
LEMMA IdleRelinked ==
    ASSUME NEW f, NEW t \in DOMAIN f, NEW h, NEW l, Locked(f, l),
           f[t].pc # "wait", h.pc # "wait",
           \A s \in Server : \A i \in 1 .. fanout(s) : l[s][i] \in DOMAIN f \union {NoTask}
    PROVE  Relinked(DOMAIN f, l, l, t, h)
  BY DEF Locked, Relinked

(* A step of a task that locks or unlocks no connection but its own.       *)
LEMMA AdvanceLocked ==
    ASSUME NEW f, NEW g, NEW t, NEW h \in Handler, NEW K, NEW l, NEW m,
           Advance(f, g, t, h, K), K # {} => h.idx \in 1 .. fanout(h.at),
           Budgeted(g), Locked(f, l), Relinked(DOMAIN f, l, m, t, h)
    PROVE  Locked(g, m)
<1> SUFFICES ASSUME NEW s \in Server, NEW i \in 1 .. fanout(s), NEW x \in DOMAIN g
             PROVE  m[s][i] = x <=> g[x].at = s /\ g[x].idx = i /\ g[x].pc = "wait"
  BY DEF Locked
<1>1. CASE x = t
  <2>1. g[x] = h
    BY <1>1 DEF Advance
  <2> QED BY <1>1, <2>1 DEF Relinked
<1>2. CASE x \in DOMAIN f \ {t}
  BY <1>2 DEF Advance, Locked, Relinked
<1>3. CASE x \in K
  <2>0. g[x].pc = "start"
    BY <1>3, ChildStarts, Zenon
  <2>1. x \notin DOMAIN f
    BY <1>3 DEF Advance
  <2>2. x \in Name
    BY DEF Budgeted
  <2>3. x # NoTask
    BY <2>2, ForwardAssumption DEF ForwardAssumption
  <2>4. m[s][i] \in DOMAIN f \union {NoTask}
    BY Zenon DEF Relinked
  <2> QED BY <2>0, <2>1, <2>3, <2>4, Zenon
<1> QED
  BY <1>1, <1>2, <1>3 DEF Advance

(* A client's request holds no connection before it forwards.              *)
LEMMA OpenLocked ==
    ASSUME NEW f, NEW g, NEW c \in Client, NEW s \in Server, NEW r \in 0 .. MaxRecurse, NEW l,
           Open(f, g, c, s, r), Locked(f, l),
           \A u \in Server : \A i \in 1 .. fanout(u) : l[u][i] \in DOMAIN f \union {NoTask}
    PROVE  Locked(g, l)
<1>1. g[<<c>>].pc = "start" /\ <<c>> # NoTask
  BY StartedIsHandler, RootName, ForwardAssumption DEF Open, ForwardAssumption
<1> SUFFICES ASSUME NEW u \in Server, NEW i \in 1 .. fanout(u), NEW x \in DOMAIN g
             PROVE  l[u][i] = x <=> g[x].at = u /\ g[x].idx = i /\ g[x].pc = "wait"
  BY Zenon DEF Locked
<1>2. CASE x = <<c>>
  BY <1>1, <1>2 DEF Open
<1>3. CASE x # <<c>>
  BY <1>3 DEF Open, Locked
<1> QED
  BY <1>2, <1>3, Zenon

(* What tasks have been told, after a step of a task.                      *)
LEMMA AdvanceTold ==
    ASSUME NEW f, NEW g, NEW t, NEW h \in Handler, NEW K, NEW st,
           Advance(f, g, t, h, K), K # {} => h.idx \in 1 .. fanout(h.at),
           Absent(f, st), Told(h, st)
    PROVE  Absent(g, st)
<1>1. ASSUME NEW x \in K PROVE g[x].pc = "start" /\ g[x].result = "pending"
  <2>1. h.idx \in 1 .. fanout(h.at)
    OBVIOUS
  <2> QED BY <2>1, ChildFields
<1>2. \A x \in K : Told(g[x], st)
  BY <1>1 DEF Told, Busy
<1>3. \A x \in DOMAIN f : Told(g[x], st)
  BY DEF Advance, Absent
<1> QED
  BY <1>2, <1>3 DEF Advance, Absent

(* A client's request has not been told anything yet.                      *)
LEMMA OpenTold ==
    ASSUME NEW f, NEW g, NEW c \in Client, NEW s \in Server, NEW r \in 0 .. MaxRecurse, NEW st,
           Open(f, g, c, s, r), Absent(f, st)
    PROVE  Absent(g, st)
<1>1. g[<<c>>].pc = "start" /\ g[<<c>>].result = "pending"
  BY StartedIsHandler DEF Open
<1>2. Told(g[<<c>>], st)
  BY <1>1 DEF Told, Busy
<1> QED
  BY <1>2 DEF Open, Absent

-----------------------------------------------------------------------------
(* A task that sends nothing.                                              *)
LEMMA MoveAdvances ==
    ASSUME Shape, NEW t \in Task, NEW h \in Handler, task' = [task EXCEPT ![t] = h],
           h.at = task[t].at, h.recurse = task[t].recurse, h.sent = task[t].sent
    PROVE  /\ Advance(task, task', t, h, {})
           /\ task' \in [Task' -> Handler]
           /\ Task' = Task
<1>1. task \in [Task -> Handler] /\ task[t] \in Handler
  BY DEF Shape
<1>2. task' \in [Task -> Handler] /\ task'[t] = h /\ \A x \in Task \ {t} : task'[x] = task[x]
  BY <1>1
<1>3. DOMAIN task' = Task
  BY <1>2
<1>4. task[t].sent <= h.sent
  BY <1>1, HandlerFields, Bounds
<1> QED
  BY <1>2, <1>3, <1>4 DEF Advance, Task

(* The handlers a request starts: one, unless the upstream is down.        *)
Child(t, h) == IF Upstreams[h.at][h.idx] \in Down THEN {} ELSE {Append(t, h.sent)}

(* A task that sends a request.                                            *)
LEMMA ForkAdvances ==
    ASSUME Shape, Budgeted(task), Kin(task), NEW t \in Task, NEW h \in Handler, Forwarded(t, h),
           h.at = task[t].at, h.recurse = task[t].recurse, h.sent = task[t].sent + 1,
           0 < h.recurse, h.idx \in 1 .. fanout(h.at)
    PROVE  /\ Advance(task, task', t, h, Child(t, h))
           /\ task' \in [Task' -> Handler]
           /\ Task' = Task \union Child(t, h)
<1> DEFINE K == Child(t, h)
           u == Upstreams[h.at][h.idx]
<1>1. task \in [Task -> Handler] /\ task[t] \in Handler
  BY DEF Shape
<1>2. task' = [x \in Task \union K |-> CASE x = t -> h
                                        [] x \in K -> Started(u, h.recurse - 1)
                                        [] OTHER -> task[x]]
  BY DEF Forwarded, Child
<1>3. u \in Server /\ h.recurse - 1 \in 0 .. MaxRecurse
  BY HandlerFields, Bounds
<1>4. Started(u, h.recurse - 1) \in Handler
  BY <1>3, StartedIsHandler
<1>5. \A x \in K : x = Append(t, h.sent) /\ x \notin Task
  BY <1>1, NextIsNew, Zenon DEF Child, Task
<1>6. task[t].sent <= h.sent /\ task[t].sent < h.sent
  BY <1>1, HandlerFields, Bounds
<1> HIDE DEF K, u
<1>7. DOMAIN task' = Task \union K
  BY <1>2
<1>8. task'[t] = h /\ \A x \in Task \ {t} : task'[x] = task[x]
  BY <1>2, <1>5
<1>9. \A x \in K : task'[x] = Started(u, h.recurse - 1)
  BY <1>2, <1>5
<1>10. task' \in [Task \union K -> Handler]
  BY <1>1, <1>2, <1>4
<1>11. Advance(task, task', t, h, K)
  BY <1>5, <1>6, <1>7, <1>8, <1>9 DEF Advance, Task, u
<1> QED
  BY <1>7, <1>10, <1>11 DEF Task, K

-----------------------------------------------------------------------------
(* What every step of a task keeps.                                        *)
LEMMA StepKeeps ==
    ASSUME ForwardInv, NEW t, NEW h \in Handler, NEW K,
           Advance(task, task', t, h, K), K # {} => h.idx \in 1 .. fanout(h.at),
           h.pc = "wait" => h.sent = task[t].sent + 1,
           changes = 0 => Told(h, store), UNCHANGED held
    PROVE  Budgeted(task') /\ Kin(task') /\ Asked(task') /\ HeldIsBound' /\ Truthful'
<1>1. \A x \in DOMAIN task : task[x] \in Handler
  BY DEF ForwardInv, Shape, Task
<1>2. Budgeted(task) /\ Kin(task) /\ Asked(task) /\ HeldIsBound /\ Truthful
  BY DEF ForwardInv
<1>3. Budgeted(task') /\ Kin(task')
  BY <1>1, <1>2, AdvanceNames
<1>4. Asked(task')
  BY <1>1, <1>2, AdvanceAsked, Zenon
<1>5. HeldIsBound'
  BY <1>2 DEF HeldIsBound, held
<1>6. ASSUME changes = 0 PROVE Absent(task', store)
  BY <1>2, <1>6, AdvanceTold DEF Truthful
<1>7. Truthful'
  BY <1>2, <1>6 DEF Truthful, held
<1> QED
  BY <1>3, <1>4, <1>5, <1>7

(* What a connection's entry is.                                           *)
LEMMA LinkTypes ==
    ASSUME Shape, NEW s \in Server, NEW i \in 1 .. fanout(s)
    PROVE  link[s][i] \in Task \union {NoTask} /\ pooled[s][i] \in BOOLEAN
<1>1. link[s] \in [1 .. fanout(s) -> Task \union {NoTask}] /\ pooled[s] \in [1 .. fanout(s) -> BOOLEAN]
  BY DEF Shape
<1> QED
  BY <1>1, Zenon

(* A table with a row for every server and an entry for each upstream.     *)
Table(l, T) ==
    /\ l = [s \in Server |-> l[s]]
    /\ \A s \in Server : l[s] \in [1 .. fanout(s) -> T]

Entered(l, m, a, j, v) ==
    \A s \in Server : \A i \in 1 .. fanout(s) :
        m[s][i] = IF s = a /\ i = j THEN v ELSE l[s][i]

(* One entry of such a table is replaced.                                  *)
LEMMA TableUpdate ==
    ASSUME NEW T, NEW l, Table(l, T), NEW a \in Server, NEW j \in 1 .. fanout(a), NEW v \in T,
           NEW m, m = [l EXCEPT ![a] = [@ EXCEPT ![j] = v]]
    PROVE  Table(m, T) /\ Entered(l, m, a, j, v)
<1> USE DEF Table, Entered
<1>1. DOMAIN l = Server
  OBVIOUS
<1>2. m[a] = [l[a] EXCEPT ![j] = v] /\ \A s \in Server \ {a} : m[s] = l[s]
  BY <1>1
<1>3. DOMAIN m = Server /\ m = [s \in Server |-> m[s]]
  BY <1>1, Zenon
<1>4. m[a] \in [1 .. fanout(a) -> T]
  BY <1>2
<1>5. \A i \in 1 .. fanout(a) : m[a][i] = IF i = j THEN v ELSE l[a][i]
  BY <1>2, Zenon
<1> QED
  BY <1>2, <1>3, <1>4, <1>5, Zenon

(* A semaphore stays a number when a permit is freed, and when one is      *)
(* taken that was there.                                                   *)
LEMMA PermitTypes ==
    ASSUME NEW p \in [Server -> Nat], NEW a \in Server
    PROVE  /\ [p EXCEPT ![a] = @ + 1] \in [Server -> Nat]
           /\ p[a] > 0 => [p EXCEPT ![a] = @ - 1] \in [Server -> Nat]
<1>1. p[a] \in Nat /\ p[a] + 1 \in Nat /\ (p[a] > 0 => p[a] - 1 \in Nat)
  OBVIOUS
<1> QED
  BY <1>1

(* A handler that answers or begins to ask, without a permit or a          *)
(* connection.                                                             *)
LEMMA QuietStep ==
    ASSUME ForwardInv, NEW t \in Task, NEW h \in Handler, task' = [task EXCEPT ![t] = h],
           h.at = task[t].at, h.recurse = task[t].recurse, h.sent = task[t].sent,
           task[t].pc = "start", h.pc \in {"permit", "done"}, Placed(h),
           changes = 0 => Told(h, store),
           UNCHANGED <<held, link, pooled, permits, cache>>, disturbed' \in BOOLEAN
    PROVE  ForwardInv' /\ Balance
<1>1. /\ Shape /\ Progress(task, pooled) /\ Locked(task, link)
      /\ NegativeIsTrue
  BY DEF ForwardInv
<1>2. Advance(task, task', t, h, {}) /\ task' \in [Task' -> Handler] /\ Task' = Task
  BY <1>1, MoveAdvances, Zenon
<1>3. Budgeted(task') /\ Kin(task') /\ Asked(task') /\ HeldIsBound' /\ Truthful'
  BY <1>2, StepKeeps, Zenon
<1>4. Shape'
  BY <1>1, <1>2 DEF Shape, held
<1>5. Progress(task', pooled')
  BY <1>1, <1>2, AdvanceProgress
<1>6. Balance
  BY <1>2, CountKept DEF Balance
<1>7. \A s \in Server : \A i \in 1 .. fanout(s) : link[s][i] \in DOMAIN task \union {NoTask}
  BY <1>1, LinkTypes DEF Task
<1>8. Locked(task', link')
  <2>1. Relinked(DOMAIN task, link, link', t, h)
    BY <1>1, <1>7, IdleRelinked DEF Task
  <2> QED BY <1>1, <1>2, <1>3, <2>1, AdvanceLocked, Zenon
<1>9. NegativeIsTrue'
  BY <1>1 DEF NegativeIsTrue, held
<1> QED
  BY <1>3, <1>4, <1>5, <1>6, <1>8, <1>9 DEF ForwardInv

(* Acquire: a permit is taken.                                             *)
LEMMA AcquireStep ==
    ASSUME ForwardInv, NEW t \in Task, Acquire(t)
    PROVE  ForwardInv' /\ Balance
<1> DEFINE h == [task[t] EXCEPT !.pc = "lock"]
<1>1. /\ Shape /\ Progress(task, pooled) /\ Locked(task, link)
      /\ NegativeIsTrue /\ Truthful
  BY DEF ForwardInv
<1>2. task[t] \in Handler /\ Placed(task[t]) /\ task[t].pc = "permit"
  BY <1>1 DEF Shape, Progress, Acquire, Task
<1>3. h \in Handler /\ h.pc = "lock" /\ h.at = task[t].at /\ h.recurse = task[t].recurse
      /\ h.sent = task[t].sent /\ h.idx = task[t].idx /\ h.answered = task[t].answered
      /\ h.result = task[t].result
  BY <1>2 DEF Handler
<1>4. task' = [task EXCEPT ![t] = h] /\ UNCHANGED <<held, link, pooled, cache, disturbed>>
      /\ permits' = [permits EXCEPT ![h.at] = @ - 1] /\ permits[h.at] > 0
  BY <1>3 DEF Acquire
<1>5. Placed(h) /\ (changes = 0 => Told(h, store))
  BY <1>1, <1>2, <1>3 DEF Placed, Busy, Told, Truthful, Absent, Task
<1> HIDE DEF h
<1>6. Advance(task, task', t, h, {}) /\ task' \in [Task' -> Handler] /\ Task' = Task
  BY <1>1, <1>3, <1>4, MoveAdvances, Zenon
<1>7. Budgeted(task') /\ Kin(task') /\ Asked(task') /\ HeldIsBound' /\ Truthful'
  BY <1>3, <1>4, <1>5, <1>6, StepKeeps, Zenon
<1>8. permits' \in [Server -> Nat]
  <2>1. permits \in [Server -> Nat] /\ h.at \in Server
    BY <1>1, <1>3, HandlerFields DEF Shape
  <2> QED BY <1>4, <2>1, PermitTypes
<1>9. Shape'
  BY <1>1, <1>4, <1>6, <1>8 DEF Shape, held
<1>10. Progress(task', pooled')
  BY <1>1, <1>3, <1>4, <1>5, <1>6, AdvanceProgress, Zenon
<1>11. Balance
  <2>1. permits \in [Server -> Nat]
    BY <1>1 DEF Shape
  <2> QED BY <1>1, <1>2, <1>3, <1>4, <1>6, <2>1, CountTaken DEF Balance
<1>12. \A s \in Server : \A i \in 1 .. fanout(s) : link[s][i] \in DOMAIN task \union {NoTask}
  BY <1>1, LinkTypes DEF Task
<1>13. Locked(task', link')
  <2>1. Relinked(DOMAIN task, link, link', t, h)
    BY <1>1, <1>2, <1>3, <1>4, <1>12, IdleRelinked DEF Task
  <2> QED BY <1>1, <1>3, <1>6, <1>7, <2>1, AdvanceLocked, Zenon
<1>14. NegativeIsTrue'
  BY <1>1, <1>4 DEF NegativeIsTrue, held
<1> QED
  BY <1>7, <1>9, <1>10, <1>11, <1>13, <1>14 DEF ForwardInv

(* A task that gives back its permit, and the connection if it has it.     *)
LEMMA FreeStep ==
    ASSUME ForwardInv, NEW t \in Task, NEW h \in Handler, task' = [task EXCEPT ![t] = h],
           h.at = task[t].at, h.recurse = task[t].recurse, h.sent = task[t].sent,
           task[t].pc \in {"lock", "wait"}, h.pc \in {"permit", "done"}, Placed(h),
           changes = 0 => Told(h, store), Release(t),
           \/ pooled' = pooled
           \/ /\ task[t].pc = "wait"
              /\ pooled' = [pooled EXCEPT ![h.at] = [@ EXCEPT ![task[t].idx] = TRUE]],
           cache' \in [Server -> Identity \union {"empty", "missing"}],
           UNCHANGED held, disturbed' \in BOOLEAN, NegativeIsTrue'
    PROVE  ForwardInv' /\ Balance
<1> DEFINE a == task[t].at
           j == task[t].idx
<1>1. /\ Shape /\ Progress(task, pooled) /\ Locked(task, link)
  BY DEF ForwardInv
<1>2. task[t] \in Handler /\ Placed(task[t]) /\ a \in Server /\ j \in 1 .. fanout(a)
  <2>1. task[t] \in Handler /\ Placed(task[t])
    BY <1>1 DEF Shape, Progress, Task
  <2> QED BY <2>1, HandlerFields DEF Placed, Busy
<1>3. Advance(task, task', t, h, {}) /\ task' \in [Task' -> Handler] /\ Task' = Task
  BY <1>1, MoveAdvances, Zenon
<1>4. Budgeted(task') /\ Kin(task') /\ Asked(task') /\ HeldIsBound' /\ Truthful'
  BY <1>3, StepKeeps, Zenon
<1>5. /\ link' = IF link[a][j] = t THEN [link EXCEPT ![a] = [@ EXCEPT ![j] = NoTask]] ELSE link
      /\ permits' = [permits EXCEPT ![h.at] = @ + 1]
  BY DEF Release
<1>6. a = h.at
  OBVIOUS
<1> HIDE DEF a, j
<1>7. /\ link' = [s \in Server |-> link'[s]]
      /\ \A s \in Server : link'[s] \in [1 .. fanout(s) -> Task \union {NoTask}]
      /\ \A s \in Server : \A i \in 1 .. fanout(s) :
            link'[s][i] = IF s = a /\ i = j /\ link[s][i] = t THEN NoTask ELSE link[s][i]
  <2> DEFINE T == Task \union {NoTask}
  <2>1. Table(link, T)
    BY <1>1 DEF Shape, Table
  <2>2. CASE link[a][j] = t
    <3>1. link' = [link EXCEPT ![a] = [@ EXCEPT ![j] = NoTask]] /\ NoTask \in T
      BY <1>5, <2>2
    <3> HIDE DEF T
    <3>2. Table(link', T) /\ Entered(link, link', a, j, NoTask)
      BY <1>2, <2>1, <3>1, TableUpdate
    <3> QED BY <2>2, <3>2 DEF T, Table, Entered
  <2>3. CASE link[a][j] # t
    BY <1>5, <2>1, <2>3 DEF Table
  <2> QED BY <2>2, <2>3
<1>8. /\ pooled' = [s \in Server |-> pooled'[s]]
      /\ \A s \in Server : pooled'[s] \in [1 .. fanout(s) -> BOOLEAN]
      /\ \A s \in Server : \A i \in 1 .. fanout(s) :
            pooled'[s][i] = pooled[s][i] \/ (s = a /\ i = j /\ task[t].pc = "wait")
  <2>1. Table(pooled, BOOLEAN) /\ TRUE \in BOOLEAN /\ FALSE \in BOOLEAN
    BY <1>1 DEF Shape, Table
  <2>2. CASE pooled' = pooled
    BY <2>1, <2>2 DEF Table
  <2>3. CASE task[t].pc = "wait" /\ pooled' = [pooled EXCEPT ![a] = [@ EXCEPT ![j] = TRUE]]
    <3>1. Table(pooled', BOOLEAN) /\ Entered(pooled, pooled', a, j, TRUE)
      BY <1>2, <2>1, <2>3, TableUpdate
    <3> QED BY <2>3, <3>1, Zenon DEF Table, Entered
  <2> QED BY <1>6, <2>2, <2>3 DEF j
<1>9. permits' \in [Server -> Nat]
  <2>1. permits \in [Server -> Nat]
    BY <1>1 DEF Shape
  <2> QED BY <1>2, <1>5, <1>6, <2>1, PermitTypes
<1>10. Shape'
  BY <1>1, <1>3, <1>7, <1>8, <1>9 DEF Shape, held
<1>11. Progress(task', pooled')
  <2>1. task[t].pc = "wait" => link[a][j] = t
    BY <1>1, <1>2 DEF Locked, Task, a, j
  <2>2. OwnChanges(link, pooled, pooled', t)
    BY <1>8, <2>1, Zenon DEF OwnChanges
  <2>3. \A x \in DOMAIN task : task[x] \in Handler
    BY <1>1, Zenon DEF Shape, Task
  <2>4. \A x \in DOMAIN task \ {t} :
            task[x].pc = "wait" => pooled'[task[x].at][task[x].idx] = pooled[task[x].at][task[x].idx]
    BY <1>1, <2>2, <2>3, OthersConnections
  <2>5. h.pc # "wait"
    OBVIOUS
  <2> QED BY <1>1, <1>3, <2>4, <2>5, AdvanceProgress, Zenon
<1>12. Balance
  <2>1. permits \in [Server -> Nat]
    BY <1>1 DEF Shape
  <2> QED BY <1>1, <1>3, <1>5, <2>1, CountFreed DEF Balance
<1>13. ASSUME NEW s \in Server, NEW i \in 1 .. fanout(s)
       PROVE  /\ link'[s][i] \in Task \union {NoTask}
              /\ link'[s][i] # t
              /\ \A x \in Task \ {t} : link'[s][i] = x <=> link[s][i] = x
  <2>1. link[s][i] = t => s = a /\ i = j
    BY <1>1 DEF Locked, Task, a, j
  <2>2. \A x \in Task : x # NoTask
    BY ForwardAssumption DEF ForwardInv, Budgeted, Task, ForwardAssumption
  <2>3. link[s][i] \in Task \union {NoTask}
    BY <1>1, LinkTypes
  <2> QED BY <1>7, <2>1, <2>2, <2>3
<1>14. Locked(task', link')
  <2>1. Relinked(DOMAIN task, link, link', t, h)
    BY <1>13 DEF Relinked, Task
  <2> QED BY <1>1, <1>3, <1>4, <2>1, AdvanceLocked, Zenon
<1> QED
  BY <1>4, <1>10, <1>11, <1>12, <1>14 DEF ForwardInv

-----------------------------------------------------------------------------
(***************************************************************************)
(* How far a lookup finds the key.                                         *)
(***************************************************************************)
(* With the stores st, the k hops p lead from server s to one that holds   *)
(* the key.                                                                *)
Route(st, s, k, p) ==
    /\ p[0] = s
    /\ st[p[k]] # None
    /\ \A i \in 1 .. k :
          p[i] \notin Down /\ \E j \in 1 .. fanout(p[i - 1]) : Upstreams[p[i - 1]][j] = p[i]

(* Some route of at most n hops leads from server s.                       *)
Leads(st, s, n) == \E k \in 0 .. n : \E p \in [0 .. k -> Server] : Route(st, s, k, p)

(* A handler that came to nothing so far: no route leads anywhere from the *)
(* upstreams it is done with, all of which answered, and none from its own *)
(* server when it has answered that there is no record.                    *)
Fruitless(h, st) ==
    /\ h.result # "error"
    /\ h.result = "none" => ~Leads(st, h.at, h.recurse)
    /\ Busy(h) =>
          /\ h.answered = h.idx - 1
          /\ \A i \in 1 .. h.idx - 1 : ~Leads(st, Upstreams[h.at][i], h.recurse - 1)

Chained(f, st) == \A t \in DOMAIN f : Fruitless(f[t], st)

(* Nothing failed, nothing changed, and no absence came from a cache.      *)
Quiet == ~disturbed /\ changes = 0

(* A route from a server that does not hold the key begins with a hop to   *)
(* one of its upstreams.                                                   *)
LEMMA RouteBegins ==
    ASSUME NEW st, NEW s \in Server, NEW n \in Nat, st[s] = None,
           n # 0 => \A i \in 1 .. fanout(s) : ~Leads(st, Upstreams[s][i], n - 1)
    PROVE  ~Leads(st, s, n)
<1> SUFFICES ASSUME Leads(st, s, n) PROVE FALSE
  OBVIOUS
<1>0. PICK k \in 0 .. n : \E p \in [0 .. k -> Server] : Route(st, s, k, p)
  BY Zenon DEF Leads
<1>1. PICK p \in [0 .. k -> Server] :
         /\ p[0] = s
         /\ st[p[k]] # None
         /\ \A i \in 1 .. k :
               p[i] \notin Down /\ \E j \in 1 .. fanout(p[i - 1]) : Upstreams[p[i - 1]][j] = p[i]
  BY <1>0, Zenon DEF Route
<1>2. k \in Nat /\ k # 0 /\ n # 0 /\ k - 1 \in 0 .. n - 1
  BY <1>1
<1> DEFINE q == [i \in 0 .. k - 1 |-> p[i + 1]]
<1>3. PICK j \in 1 .. fanout(s) : Upstreams[s][j] = p[1]
  <2>1. 1 \in 1 .. k /\ 1 - 1 = 0
    BY <1>2
  <2> QED BY <1>1, <2>1
<1>4. q \in [0 .. k - 1 -> Server] /\ q[0] = p[1] /\ q[k - 1] = p[k]
  BY <1>2
<1>5. ASSUME NEW i \in 1 .. k - 1
      PROVE  q[i] \notin Down /\ \E m \in 1 .. fanout(q[i - 1]) : Upstreams[q[i - 1]][m] = q[i]
  <2>1. i + 1 \in 1 .. k /\ (i + 1) - 1 = i /\ i \in 0 .. k - 1 /\ i - 1 \in 0 .. k - 1 /\ (i - 1) + 1 = i
    BY <1>2
  <2>2. q[i] = p[i + 1] /\ q[i - 1] = p[i]
    BY <2>1
  <2> HIDE DEF q
  <2> DEFINE o == i + 1
  <2>3. o \in 1 .. k /\ o - 1 = i
    BY <2>1
  <2>4. p[o] \notin Down /\ \E m \in 1 .. fanout(p[o - 1]) : Upstreams[p[o - 1]][m] = p[o]
    <3> HIDE DEF o
    <3> QED BY <1>1, <2>3, Zenon
  <2>5. p[o] \notin Down /\ \E m \in 1 .. fanout(p[i]) : Upstreams[p[i]][m] = p[o]
    <3> HIDE DEF o
    <3> QED BY <2>3, <2>4
  <2> QED BY <2>2, <2>5, Zenon
<1> HIDE DEF q
<1>6. Leads(st, Upstreams[s][j], n - 1)
  <2>1. Route(st, Upstreams[s][j], k - 1, q)
    BY <1>1, <1>3, <1>4, <1>5 DEF Route
  <2> QED BY <1>2, <1>4, <2>1, Zenon DEF Leads
<1> QED
  BY <1>2, <1>3, <1>6

(* A step of one handler that came to nothing.                             *)
LEMMA ChainMove ==
    ASSUME Shape, Chained(task, store), NEW t \in Task, NEW h, task' = [task EXCEPT ![t] = h],
           Fruitless(h, store)
    PROVE  Chained(task', store)
<1>1. DOMAIN task' = Task /\ task'[t] = h /\ \A x \in Task \ {t} : task'[x] = task[x]
  BY DEF Shape
<1>2. ASSUME NEW x \in Task PROVE Fruitless(task'[x], store)
  BY <1>1, Zenon DEF Chained, Task
<1> QED
  BY <1>1, <1>2 DEF Chained

(* A handler that has just been started has come to nothing yet.           *)
LEMMA StartedFruitless ==
    ASSUME NEW s, NEW r, NEW st
    PROVE  Fruitless(Started(s, r), st)
<1>1. Started(s, r).pc = "start" /\ Started(s, r).result = "pending"
  BY DEF Started
<1> QED
  BY <1>1 DEF Fruitless, Busy

(* A request that is sent upstream.                                        *)
LEMMA ChainFork ==
    ASSUME Shape, Chained(task, store), NEW t \in Task, NEW h, Forwarded(t, h),
           Fruitless(h, store)
    PROVE  Chained(task', store)
<1> DEFINE K == Child(t, h)
           new == Started(Upstreams[h.at][h.idx], h.recurse - 1)
<1>1. task' = [x \in Task \union K |-> CASE x = t -> h [] x \in K -> new [] OTHER -> task[x]]
  BY DEF Forwarded, Child
<1>2. Fruitless(new, store)
  BY StartedFruitless, Zenon
<1> HIDE DEF K, new
<1>3. DOMAIN task' = Task \union K
  BY <1>1
<1>4. ASSUME NEW x \in Task \union K
      PROVE  task'[x] = h \/ task'[x] = new \/ (x \in Task /\ task'[x] = task[x])
  BY <1>1
<1>5. ASSUME NEW x \in Task \union K PROVE Fruitless(task'[x], store)
  BY <1>2, <1>4, Zenon DEF Chained, Task
<1> QED
  BY <1>3, <1>5 DEF Chained

(* A client's question.                                                    *)
LEMMA ChainAsk ==
    ASSUME Shape, Chained(task, store), NEW c \in Client, NEW s, Ask(c, s)
    PROVE  Chained(task', store)
<1>1. PICK r : task' = [x \in Task \union {<<c>>} |-> IF x = <<c>> THEN Started(s, r) ELSE task[x]]
  BY DEF Ask
<1>2. DOMAIN task' = Task \union {<<c>>}
  BY <1>1
<1>3. ASSUME NEW x \in Task \union {<<c>>}
      PROVE  task'[x] = Started(s, r) \/ (x \in Task /\ task'[x] = task[x])
  BY <1>1
<1>4. ASSUME NEW x \in Task \union {<<c>>} PROVE Fruitless(task'[x], store)
  BY <1>3, StartedFruitless, Zenon DEF Chained, Task
<1> QED
  BY <1>2, <1>4 DEF Chained

(* An answer: a record, or an absence from where no route leads anywhere.  *)
LEMMA ChainAnswer ==
    ASSUME Shape, Chained(task, store), NEW t \in Task, NEW r, Answer(t, r), r # "error",
           r = "none" => ~Leads(store, task[t].at, task[t].recurse)
    PROVE  Chained(task', store)
<1> DEFINE h0 == [task[t] EXCEPT !.pc = "done"]
           h == [h0 EXCEPT !.result = r]
<1>1. task[t] \in Handler
  BY DEF Shape
<1>2. task' = [task EXCEPT ![t] = h]
  BY <1>1 DEF Answer, Handler
<1>3. h0 \in Handler /\ h0.at = task[t].at /\ h0.recurse = task[t].recurse /\ h0.pc = "done"
  BY <1>1 DEF Handler
<1> HIDE DEF h0
<1>4. h.at = task[t].at /\ h.recurse = task[t].recurse /\ h.pc = "done" /\ h.result = r
  BY <1>3 DEF Handler
<1> HIDE DEF h
<1>5. Fruitless(h, store)
  BY <1>4, Zenon DEF Fruitless, Busy
<1> QED
  BY <1>2, <1>5, ChainMove

(* A handler at its first upstream.                                        *)
LEMMA FirstFruitless ==
    ASSUME NEW h, NEW st, h.idx = 1, h.answered = 0, h.result = "pending"
    PROVE  Fruitless(h, st)
<1>1. \A i : i \notin 1 .. 1 - 1
  OBVIOUS
<1> QED
  BY <1>1 DEF Fruitless

(* A handler still at the upstream it was at.                              *)
LEMMA StillFruitless ==
    ASSUME NEW b, NEW h, NEW st, Fruitless(b, st), Busy(b), h.at = b.at, h.recurse = b.recurse,
           h.idx = b.idx, h.answered = b.answered, h.result = "pending"
    PROVE  Fruitless(h, st)
  BY Zenon DEF Fruitless

(* The upstream a handler waits for is one more that has nothing.          *)
LEMMA OneMoreFruitless ==
    ASSUME NEW b \in Handler, Placed(b), Busy(b), NEW st, Fruitless(b, st),
           ~Leads(st, Upstreams[b.at][b.idx], b.recurse - 1)
    PROVE  /\ b.idx \in Nat \ {0} /\ b.answered + 1 = b.idx
           /\ \A i \in 1 .. b.idx : ~Leads(st, Upstreams[b.at][i], b.recurse - 1)
<1> DEFINE m == b.idx
           a == b.answered
           None1(i) == ~Leads(st, Upstreams[b.at][i], b.recurse - 1)
<1>1. m \in 0 .. Width /\ Width \in Nat /\ m # 0
  <2>1. m \in 0 .. Width
    BY HandlerFields, Zenon
  <2>2. m \in 1 .. fanout(b.at)
    BY Zenon DEF Placed
  <2> HIDE DEF m
  <2>3. m # 0
    BY <2>2
  <2> QED BY <2>1, <2>3, Bounds
<1>2. a = m - 1 /\ \A i \in 1 .. m - 1 : None1(i)
  BY Zenon DEF Fruitless
<1>3. None1(m)
  OBVIOUS
<1> HIDE DEF m, a, None1
<1>4. m \in Nat \ {0} /\ a + 1 = m /\ \A i \in 1 .. m : i = m \/ i \in 1 .. m - 1
  BY <1>1, <1>2
<1>5. \A i \in 1 .. m : None1(i)
  BY <1>2, <1>3, <1>4, Zenon
<1> QED
  BY <1>4, <1>5, Zenon DEF m, a, None1

(* A handler that goes on to its next upstream.                            *)
LEMMA NextFruitless ==
    ASSUME NEW b \in Handler, Placed(b), Busy(b), b.idx < fanout(b.at), NEW st, Fruitless(b, st),
           ~Leads(st, Upstreams[b.at][b.idx], b.recurse - 1)
    PROVE  Fruitless(NextOf(b, b.answered + 1), st)
<1> DEFINE n == b.answered + 1
           h == NextOf(b, n)
           m == b.idx
<1>0. n = b.answered + 1
  OBVIOUS
<1>1. /\ h.at = b.at /\ h.recurse = b.recurse /\ h.result = "pending"
      /\ h.answered = n /\ h.idx = m + 1
  <2> HIDE DEF n, h
  <2>1. n = b.answered \/ n = b.answered + 1
    BY <1>0
  <2>2. /\ NextOf(b, n).at = b.at /\ NextOf(b, n).recurse = b.recurse
        /\ NextOf(b, n).result = "pending"
        /\ NextOf(b, n).answered = n /\ NextOf(b, n).idx = b.idx + 1
    BY <2>1, NextUpstream
  <2> QED BY <2>2 DEF h
<1>2. m \in Nat \ {0} /\ n = m /\ \A i \in 1 .. m : ~Leads(st, Upstreams[b.at][i], b.recurse - 1)
  BY OneMoreFruitless
<1> HIDE DEF m, n, h
<1>3. m + 1 - 1 = m
  <2>1. m \in Nat
    BY <1>2, Zenon
  <2> QED BY <2>1
<1>4. h.result # "error" /\ h.result # "none"
  BY <1>1
<1> SUFFICES Fruitless(h, st)
  BY DEF h, n
<1>5. h.answered = h.idx - 1 /\ h.idx - 1 = m
  BY <1>1, <1>2, <1>3
<1> QED
  BY <1>1, <1>2, <1>4, <1>5, Zenon DEF Fruitless

(* A handler that comes to the end of its list, where the server itself    *)
(* holds nothing.                                                          *)
LEMMA EndFruitless ==
    ASSUME NEW b \in Handler, Placed(b), Busy(b), ~(b.idx < fanout(b.at)), NEW st,
           Fruitless(b, st), ~Leads(st, Upstreams[b.at][b.idx], b.recurse - 1), st[b.at] = None
    PROVE  b.answered + 1 > 0 /\ Fruitless(EndOf(b, b.answered + 1, "none"), st)
<1> DEFINE n == b.answered + 1
           h == EndOf(b, n, "none")
           r == b.recurse
<1>0. n = b.answered + 1 /\ "none" \in {"none", "error"}
  OBVIOUS
<1>1. /\ h.at = b.at /\ h.recurse = r /\ h.result = "none" /\ h.pc = "done"
      /\ b.idx = fanout(b.at)
  <2> HIDE DEF n
  <2> QED BY <1>0, EndOfList, Zenon
<1>2. b.idx \in Nat \ {0} /\ n = b.idx /\ \A i \in 1 .. b.idx : ~Leads(st, Upstreams[b.at][i], r - 1)
  BY OneMoreFruitless, Zenon
<1>3. b.at \in Server /\ r \in Nat
  BY HandlerFields, Bounds
<1> HIDE DEF h, n, r
<1>4. \A i \in 1 .. fanout(b.at) : ~Leads(st, Upstreams[b.at][i], r - 1)
  BY <1>1, <1>2, Zenon
<1>5. ~Leads(st, b.at, r)
  BY <1>3, <1>4, RouteBegins, Zenon
<1>6. Fruitless(h, st)
  BY <1>1, <1>5 DEF Fruitless, Busy
<1>7. n > 0
  BY <1>2
<1> QED
  BY <1>6, <1>7 DEF h, n
=============================================================================
