-------------------------- MODULE PublisherProofs ---------------------------
(***************************************************************************)
(* Proofs about Publisher for any number of servers and every value of the *)
(* bounds, for a publisher that is not back before the clock has passed    *)
(* the serials it used (~Instant).                                         *)
(***************************************************************************)
EXTENDS Publisher, TLAPS

(* The records that are somewhere: at a server, on the way, or being sent. *)
KnownOf(h, l, r) == (({h[s] : s \in Server} \union {m[2] : m \in l}) \union {r}) \ {None}

Known == KnownOf(held, late, job.rec)

Job == [pc : {"idle", "send", "sent", "stopped"}, rec : Record \union {None},
        seen : SUBSET Record, up : BOOLEAN, at : Nat, accepted : BOOLEAN,
        stale_only : BOOLEAN, retried : BOOLEAN]

Types ==
    /\ now \in Nat
    /\ held \in [Server -> Record \union {None}]
    /\ late \subseteq Server \X Record
    /\ serial \in Nat
    /\ job \in Job
    /\ stopping \in BOOLEAN
    /\ run \in Nat
    /\ signed \in Nat
    /\ took \subseteq Server

(* Serials below n have been used, none of them twice, and a later serial  *)
(* was signed no earlier.                                                  *)
InOrder(K, n, t) ==
    /\ \A r \in K : r.serial < n /\ r.issued_at <= t
    /\ \A r, q \in K : /\ r.serial = q.serial => r = q
                       /\ r.serial < q.serial => r.issued_at <= q.issued_at

(* What is being sent: to a server, and with a serial above all that were  *)
(* held when it was signed.                                                *)
Sending ==
    /\ job.pc \in {"send", "sent"} => job.rec # None
    /\ job.pc = "send" => job.at \in Server
    /\ job.rec # None => \A r \in job.seen : r.serial < job.rec.serial

(* No record with endpoints in K is as new as r.                           *)
Above(r, K) == r # None /\ ~r.up /\ \A q \in K : q.up => q.serial < r.serial

(* All records with endpoints in K have expired at t.                      *)
Spent(K, t) == \A q \in K : q.up => t >= q.issued_at + Ttl

(* The withdrawal is above every record with endpoints.  A server that     *)
(* took it holds one like it, until they have all expired.                 *)
Withdrawn ==
    /\ ~stopping => took = {}
    /\ stopping => Above(job.rec, Known) /\ ~job.up
    /\ \A s \in took : Above(held[s], Known) \/ Spent(Known, now)

PublisherInv ==
    /\ Types
    /\ InOrder(Known, serial, now)
    /\ Sending
    /\ Withdrawn

-----------------------------------------------------------------------------
(* The fields of a record, which is never mistaken for none.               *)
LEMMA RecordFields ==
    ASSUME NEW r \in Record
    PROVE  /\ r.serial \in Nat /\ r.issued_at \in Nat /\ r.up \in BOOLEAN /\ r # None
  BY PublisherAssumption DEF Record, PublisherAssumption

(* What is known, of what is held, late and being sent.                    *)
LEMMA KnownRecords ==
    ASSUME Types
    PROVE  /\ Known \subseteq Record
           /\ \A s \in Server : held[s] # None => held[s] \in Known
           /\ \A m \in late : m[1] \in Server /\ m[2] \in Known
           /\ job.rec # None => job.rec \in Known
<1>1. /\ \A s \in Server : held[s] \in Record \union {None}
      /\ \A m \in late : m[1] \in Server /\ m[2] \in Record
      /\ job.rec \in Record \union {None}
  BY DEF Types, Job
<1>2. \A m \in late : m[2] # None
  BY <1>1, RecordFields
<1> QED
  BY <1>1, <1>2 DEF Known, KnownOf

(* Nothing new.                                                            *)
LEMMA OrderKept ==
    ASSUME NEW K \in SUBSET Record, NEW L, L \subseteq K, NEW n \in Nat, NEW m \in Nat, n <= m,
           NEW t \in Nat, NEW u \in Nat, t <= u, InOrder(K, n, t)
    PROVE  InOrder(L, m, u)
<1>1. \A r \in L : r.serial \in Nat /\ r.issued_at \in Nat /\ r.serial < n /\ r.issued_at <= t
  BY RecordFields DEF InOrder
<1> QED
  BY <1>1 DEF InOrder

(* A record takes the next serial.                                         *)
LEMMA OrderAdded ==
    ASSUME NEW K \in SUBSET Record, NEW r \in Record, NEW L, L \subseteq K \union {r},
           NEW n \in Nat, NEW t \in Nat, InOrder(K, n, t), r.serial = n, r.issued_at = t
    PROVE  InOrder(L, n + 1, t)
<1>1. \A q \in K : q.serial \in Nat /\ q.issued_at \in Nat /\ q.serial < n /\ q.issued_at <= t
  BY RecordFields DEF InOrder
<1>2. \A q \in L : q \in K \/ q = r
  OBVIOUS
<1>3. \A q \in L : q.serial < n + 1 /\ q.issued_at <= t
  BY <1>1, <1>2
<1>4. ASSUME NEW p \in L, NEW q \in L
      PROVE  /\ p.serial = q.serial => p = q
             /\ p.serial < q.serial => p.issued_at <= q.issued_at
  <2>1. CASE p \in K /\ q \in K
    BY <2>1 DEF InOrder
  <2>2. CASE p = r /\ q \in K
    BY <1>1, <2>2
  <2>3. CASE p \in K /\ q = r
    BY <1>1, <2>3
  <2>4. CASE p = r /\ q = r
    BY <2>4
  <2> QED BY <1>2, <2>1, <2>2, <2>3, <2>4
<1> QED
  BY <1>3, <1>4 DEF InOrder

(* A withdrawal stays above what there is when no record with endpoints is *)
(* added.                                                                  *)
LEMMA AboveKept ==
    ASSUME NEW K, NEW L, NEW r, Above(r, K), \A q \in L : q \in K \/ ~q.up
    PROVE  Above(r, L)
  BY DEF Above

(* Expired records stay expired, and what is added without endpoints does  *)
(* not count.                                                              *)
LEMMA SpentKept ==
    ASSUME NEW K \in SUBSET Record, NEW L, NEW t \in Nat, NEW u \in Nat, t <= u, Spent(K, t),
           \A q \in L : q \in K \/ ~q.up
    PROVE  Spent(L, u)
<1>1. Ttl \in Nat
  BY PublisherAssumption DEF PublisherAssumption
<1> SUFFICES ASSUME NEW q \in L, q.up PROVE u >= q.issued_at + Ttl
  BY DEF Spent
<1>2. q \in K /\ q.issued_at \in Nat
  BY RecordFields
<1>3. t >= q.issued_at + Ttl
  BY <1>2 DEF Spent
<1> QED
  BY <1>1, <1>2, <1>3

-----------------------------------------------------------------------------
(* Store::put at server s changes what s holds into r, or nothing.         *)
LEMMA PutHeld ==
    ASSUME Types, NEW s \in Server, NEW r \in Record, put(s, r)
    PROVE  /\ held' \in [Server -> Record \union {None}]
           /\ \A x \in Server : held'[x] = held[x] \/ (x = s /\ held'[x] = r)
           /\ outcome(s, r) = "stored" => held'[s] = r
<1>1. held \in [Server -> Record \union {None}]
  BY DEF Types
<1>2. held' = [held EXCEPT ![s] = r] \/ (held' = held /\ outcome(s, r) # "stored")
  BY DEF put
<1> QED
  BY <1>1, <1>2

(* A server that holds a withdrawal above every record with endpoints      *)
(* still does after a put of any record there is.                          *)
LEMMA PutAbove ==
    ASSUME Types, InOrder(Known, serial, now), NEW s \in Server, NEW r \in Known, put(s, r),
           NEW x \in Server, Above(held[x], Known)
    PROVE  Above(held'[x], Known)
<1>1. Known \subseteq Record /\ held[x] \in Known /\ held[x] # None
  BY KnownRecords DEF Above
<1>2. CASE held'[x] = held[x]
  BY <1>2
<1>3. CASE held'[x] # held[x]
  <2>1. x = s /\ held'[x] = r
    BY <1>1, <1>3, PutHeld
  <2>2. outcome(s, r) = "stored"
    BY <1>3 DEF put
  <2>3. supersedes(r, held[x])
    BY <1>1, <2>1, <2>2 DEF outcome
  <2>4. /\ r.serial \in Nat /\ held[x].serial \in Nat /\ r.issued_at \in Nat /\ r # None
        /\ held[x].issued_at \in Nat
    BY <1>1, RecordFields
  <2>5. r.serial = held[x].serial => r = held[x]
    BY <1>1 DEF InOrder
  <2>6. r.serial > held[x].serial
    <3>1. CASE r.serial = held[x].serial
      BY <1>3, <2>1, <2>5, <3>1
    <3>2. CASE r.serial # held[x].serial
      BY <2>3, <3>2 DEF supersedes
    <3> QED BY <3>1, <3>2
  <2>7. ~r.up
    BY <2>4, <2>6 DEF Above
  <2>8. ASSUME NEW q \in Known, q.up PROVE q.serial < r.serial
    <3>1. q.serial \in Nat /\ q.serial < held[x].serial
      BY <1>1, <2>8, RecordFields DEF Above
    <3> QED BY <2>4, <2>6, <3>1
  <2> QED BY <2>1, <2>4, <2>7, <2>8 DEF Above
<1> QED
  BY <1>2, <1>3

(* The fields of the job that a step of it changes.                        *)
LEMMA CountFields ==
    ASSUME job \in Job, job.pc = "send", job.at \in Server, NEW answer, Count(answer)
    PROVE  /\ job' \in Job
           /\ job'.rec = job.rec /\ job'.seen = job.seen /\ job'.up = job.up
           /\ job'.pc \in {"send", "sent"}
           /\ job'.pc = "send" => job'.at \in Server
<1> DEFINE a == job.at + 1
           p == IF job.at = Servers THEN "sent" ELSE "send"
           y == job.accepted \/ answer = "stored"
           z == job.stale_only /\ answer \in {"stored", "stale"}
           j1 == [job EXCEPT !.at = a]
           j2 == [j1 EXCEPT !.pc = p]
           j3 == [j2 EXCEPT !.accepted = y]
           j4 == [j3 EXCEPT !.stale_only = z]
<1>1. job' = j4
  BY DEF Count, Job
<1>2. Servers \in Nat /\ a \in Nat /\ p \in {"send", "sent"} /\ (p = "send" => a \in Server)
  BY PublisherAssumption DEF PublisherAssumption, Server
<1>3. y \in BOOLEAN /\ z \in BOOLEAN
  OBVIOUS
<1> HIDE DEF a, p, y, z
<1>4. j1 \in Job /\ j1.rec = job.rec /\ j1.seen = job.seen /\ j1.up = job.up /\ j1.at = a
  BY <1>2 DEF Job
<1> HIDE DEF j1
<1>5. j2 \in Job /\ j2.rec = job.rec /\ j2.seen = job.seen /\ j2.up = job.up /\ j2.at = a
      /\ j2.pc = p
  BY <1>2, <1>4 DEF Job
<1> HIDE DEF j2
<1>6. j3 \in Job /\ j3.rec = job.rec /\ j3.seen = job.seen /\ j3.up = job.up /\ j3.at = a
      /\ j3.pc = p
  BY <1>3, <1>5 DEF Job
<1> HIDE DEF j3
<1>7. j4 \in Job /\ j4.rec = job.rec /\ j4.seen = job.seen /\ j4.up = job.up /\ j4.at = a
      /\ j4.pc = p
  BY <1>3, <1>6 DEF Job
<1> HIDE DEF j4
<1> QED
  BY <1>1, <1>2, <1>7

-----------------------------------------------------------------------------
(* A step that signs nothing and leaves the stores alone.                  *)
LEMMA CalmStep ==
    ASSUME PublisherInv, now' \in Nat, now <= now', job' \in Job, late' \subseteq late,
           job'.rec = job.rec, job'.seen = job.seen, job'.up = job.up,
           job'.pc \in {"send", "sent"} => job.pc \in {"send", "sent"},
           job'.pc = "send" => job'.at \in Server,
           UNCHANGED <<held, serial, stopping, run, signed, took>>
    PROVE  PublisherInv'
<1>1. Types /\ InOrder(Known, serial, now) /\ Sending /\ Withdrawn
  BY DEF PublisherInv
<1>2. Types'
  BY <1>1 DEF Types
<1>3. Known' \subseteq Known /\ Known \in SUBSET Record
  BY <1>1, KnownRecords DEF Known, KnownOf
<1>4. now \in Nat /\ serial \in Nat /\ serial <= serial
  BY <1>1 DEF Types
<1>5. InOrder(Known', serial', now')
  BY <1>1, <1>3, <1>4, OrderKept
<1>6. Sending'
  BY <1>1 DEF Sending
<1>7. ASSUME NEW s \in took PROVE Above(held[s], Known') \/ Spent(Known', now')
  <2>1. Above(held[s], Known) \/ Spent(Known, now)
    BY <1>1 DEF Withdrawn
  <2> QED BY <1>3, <1>4, <2>1, AboveKept, SpentKept
<1>8. stopping => Above(job.rec, Known') /\ ~job.up
  BY <1>1, <1>3, AboveKept DEF Withdrawn
<1>9. Withdrawn'
  BY <1>1, <1>7, <1>8 DEF Withdrawn
<1> QED
  BY <1>2, <1>5, <1>6, <1>9 DEF PublisherInv

(* A record that is known already is put at a server.                      *)
LEMMA PutStep ==
    ASSUME PublisherInv, NEW s \in Server, NEW r \in Known, put(s, r), job' \in Job,
           late' \subseteq late,
           job'.rec = job.rec, job'.seen = job.seen, job'.up = job.up,
           job'.pc \in {"send", "sent"} => job.pc \in {"send", "sent"},
           job'.pc = "send" => job'.at \in Server,
           \/ took' = took
           \/ stopping /\ outcome(s, r) = "stored" /\ r = job.rec /\ took' = took \union {s},
           UNCHANGED <<now, serial, stopping, run, signed>>
    PROVE  PublisherInv'
<1>1. Types /\ InOrder(Known, serial, now) /\ Sending /\ Withdrawn
  BY DEF PublisherInv
<1>2. Known \in SUBSET Record /\ r \in Record
  BY <1>1, KnownRecords
<1>3. /\ held' \in [Server -> Record \union {None}]
      /\ \A x \in Server : held'[x] = held[x] \/ (x = s /\ held'[x] = r)
      /\ outcome(s, r) = "stored" => held'[s] = r
  BY <1>1, <1>2, PutHeld
<1>4. Types'
  BY <1>1, <1>3 DEF Types
<1>5. Known' \subseteq Known
  BY <1>3 DEF Known, KnownOf
<1>6. now \in Nat /\ serial \in Nat /\ serial <= serial /\ now <= now
  BY <1>1 DEF Types
<1>7. InOrder(Known', serial', now')
  BY <1>1, <1>2, <1>5, <1>6, OrderKept
<1>8. Sending'
  BY <1>1 DEF Sending
<1>9. stopping => Above(job.rec, Known) /\ ~job.up
  BY <1>1 DEF Withdrawn
<1>10. stopping => Above(job.rec, Known') /\ ~job.up
  BY <1>5, <1>9, AboveKept
<1>11. ASSUME NEW x \in took PROVE Above(held'[x], Known') \/ Spent(Known', now')
  <2>1. Above(held[x], Known) \/ Spent(Known, now)
    BY <1>1 DEF Withdrawn
  <2>2. x \in Server
    BY <1>1 DEF Types
  <2>3. CASE Above(held[x], Known)
    <3>1. Above(held'[x], Known)
      BY <1>1, <2>2, <2>3, PutAbove
    <3> QED BY <1>5, <3>1, AboveKept
  <2>4. CASE Spent(Known, now)
    BY <1>2, <1>5, <1>6, <2>4, SpentKept
  <2> QED BY <2>1, <2>3, <2>4
<1>12. ASSUME NEW x \in took' PROVE Above(held'[x], Known') \/ Spent(Known', now')
  <2>1. CASE x \in took
    BY <1>11, <2>1
  <2>2. CASE x \notin took
    <3>1. x = s /\ stopping /\ outcome(s, r) = "stored" /\ r = job.rec
      BY <2>2
    <3> QED BY <1>3, <1>10, <3>1
  <2> QED BY <2>1, <2>2
<1>13. ~stopping => took' = {}
  BY <1>1 DEF Withdrawn
<1>14. Withdrawn'
  BY <1>10, <1>12, <1>13 DEF Withdrawn
<1> QED
  BY <1>4, <1>7, <1>8, <1>14 DEF PublisherInv

(* A record is signed with the next serial.                                *)
LEMMA SignStep ==
    ASSUME PublisherInv, NEW up \in BOOLEAN, NEW retried \in BOOLEAN, Sign(serial, up, retried),
           late' \subseteq late \union abandoned, stopping' \in BOOLEAN,
           stopping => stopping', stopping' => up = FALSE,
           UNCHANGED <<now, held, run, took>>
    PROVE  PublisherInv'
<1>1. Types /\ InOrder(Known, serial, now) /\ Sending /\ Withdrawn
  BY DEF PublisherInv
<1> DEFINE r == [serial |-> serial, issued_at |-> now, up |-> up, run |-> run]
           S == {held[s] : s \in Server} \ {None}
<1>2. now \in Nat /\ serial \in Nat /\ run \in Nat /\ signed \in Nat
  BY <1>1 DEF Types
<1>3. r \in Record /\ r.serial = serial /\ r.issued_at = now /\ r.up = up
  BY <1>2 DEF Record
<1>4. S \subseteq Known /\ Known \in SUBSET Record
  BY <1>1, KnownRecords DEF Known, KnownOf
<1>5. /\ job' = [Idle EXCEPT !.pc = "send", !.up = up, !.retried = retried, !.seen = S, !.rec = r]
      /\ serial' = serial + 1 /\ signed' = signed + 1
  BY DEF Sign
<1> HIDE DEF r, S
<1>6. job' = [pc |-> "send", rec |-> r, seen |-> S, up |-> up, at |-> 1, accepted |-> FALSE,
              stale_only |-> TRUE, retried |-> retried]
  BY <1>5, Zenon DEF Idle
<1>7. job' \in Job /\ job'.rec = r /\ job'.seen = S /\ job'.up = up /\ job'.at = 1
      /\ job'.pc = "send"
  BY <1>3, <1>4, <1>6 DEF Job
<1>8. 1 \in Server
  BY PublisherAssumption DEF PublisherAssumption, Server
<1>9. \A m \in abandoned : m[1] \in Server /\ m[2] \in Record /\ m[2] = job.rec
                           /\ m = <<m[1], m[2]>>
  BY <1>1 DEF abandoned, Sending, Types, Job
<1>10. Types'
  <2>1. late' \subseteq Server \X Record
    BY <1>1, <1>9 DEF Types
  <2> QED BY <1>1, <1>2, <1>5, <1>7, <2>1 DEF Types
<1>11. Known' \subseteq Known \union {r}
  BY <1>7, <1>9 DEF Known, KnownOf
<1>12. InOrder(Known', serial', now')
  BY <1>1, <1>2, <1>3, <1>4, <1>5, <1>11, OrderAdded
<1>13. \A q \in Known : q.serial < r.serial
  BY <1>1, <1>3 DEF InOrder
<1>14. Sending'
  BY <1>4, <1>7, <1>8, <1>3, <1>13, RecordFields DEF Sending
<1>15. CASE stopping'
  <2>1. up = FALSE /\ r # None
    BY <1>3, <1>15, RecordFields
  <2>2. Above(r, Known')
    BY <1>3, <1>11, <1>13, <2>1 DEF Above
  <2>3. ASSUME NEW s \in took PROVE Above(held[s], Known') \/ Spent(Known', now')
    <3>1. \A q \in Known' : q \in Known \/ ~q.up
      BY <1>3, <1>11, <2>1
    <3>2. Above(held[s], Known) \/ Spent(Known, now)
      BY <1>1 DEF Withdrawn
    <3>3. now <= now
      BY <1>2
    <3> QED BY <1>2, <1>4, <3>1, <3>2, <3>3, AboveKept, SpentKept
  <2>4. Withdrawn'
    BY <1>7, <1>15, <2>1, <2>2, <2>3 DEF Withdrawn
  <2> QED BY <1>10, <1>12, <1>14, <2>4 DEF PublisherInv
<1>16. CASE ~stopping'
  <2>1. took = {}
    BY <1>1, <1>16 DEF Withdrawn
  <2>2. Withdrawn'
    BY <1>16, <2>1 DEF Withdrawn
  <2> QED BY <1>10, <1>12, <1>14, <2>2 DEF PublisherInv
<1> QED
  BY <1>15, <1>16

(* A publisher that is back once the clock has passed its serials.         *)
LEMMA RestartStep ==
    ASSUME ~Instant, PublisherInv, Restart
    PROVE  PublisherInv'
<1>1. Types /\ InOrder(Known, serial, now) /\ Sending /\ Withdrawn
  BY DEF PublisherInv
<1>2. /\ serial <= now /\ serial' = now /\ run' = run + 1 /\ job' = Idle /\ took' = {}
      /\ late' = late \union abandoned /\ stopping' = FALSE /\ UNCHANGED <<now, held, signed>>
  BY DEF Restart
<1>3. now \in Nat /\ serial \in Nat /\ run \in Nat /\ now <= now
  BY <1>1 DEF Types
<1>4. \A m \in abandoned : m[1] \in Server /\ m[2] \in Record /\ m[2] = job.rec
                           /\ m = <<m[1], m[2]>>
  BY <1>1 DEF abandoned, Sending, Types, Job
<1>5. Idle \in Job /\ Idle.rec = None /\ Idle.pc = "idle"
  BY DEF Idle, Job
<1>6. Types'
  <2>1. late' \subseteq Server \X Record
    BY <1>1, <1>2, <1>4 DEF Types
  <2>2. run' \in Nat /\ serial' \in Nat
    BY <1>2, <1>3
  <2>3. job' \in Job
    BY <1>2, <1>5
  <2>4. stopping' \in BOOLEAN /\ took' \subseteq Server
    BY <1>2, Zenon
  <2> QED BY <1>1, <1>2, <2>1, <2>2, <2>3, <2>4 DEF Types
<1>7. Known' \subseteq Known /\ Known \in SUBSET Record
  <2>1. Known \in SUBSET Record
    BY <1>1, KnownRecords
  <2>2. \A m \in late' : m \in late \/ m[2] = job.rec
    BY <1>2, <1>4
  <2>3. job'.rec = None /\ held' = held
    BY <1>2, <1>5
  <2>4. Known' \subseteq Known
    BY <2>2, <2>3 DEF Known, KnownOf
  <2> QED BY <2>1, <2>4
<1>8. InOrder(Known', serial', now')
  BY <1>1, <1>2, <1>3, <1>7, OrderKept
<1>9. Sending' /\ Withdrawn'
  BY <1>2, <1>5 DEF Sending, Withdrawn
<1> QED
  BY <1>6, <1>8, <1>9 DEF PublisherInv

(* A server forgets what has expired: when that is the withdrawal, every   *)
(* record with endpoints has expired as well.                              *)
LEMMA PurgeStep ==
    ASSUME PublisherInv, NEW s \in Server, Purge(s)
    PROVE  PublisherInv'
<1>1. Types /\ InOrder(Known, serial, now) /\ Sending /\ Withdrawn
  BY DEF PublisherInv
<1>2. /\ held[s] # None /\ expired(held[s]) /\ held' = [held EXCEPT ![s] = None]
      /\ UNCHANGED <<now, late, serial, job, stopping, run, signed, took>>
  BY DEF Purge
<1>3. now \in Nat /\ serial \in Nat /\ serial <= serial /\ now <= now
      /\ held \in [Server -> Record \union {None}]
  BY <1>1 DEF Types
<1>4. held' \in [Server -> Record \union {None}] /\ held'[s] = None
      /\ \A x \in Server \ {s} : held'[x] = held[x]
  BY <1>2, <1>3
<1>5. Types'
  BY <1>1, <1>2, <1>4 DEF Types
<1>6. Known \in SUBSET Record /\ held[s] \in Known
  BY <1>1, <1>2, KnownRecords
<1>7. Known' \subseteq Known
  BY <1>2, <1>4 DEF Known, KnownOf
<1>8. InOrder(Known', serial', now')
  BY <1>1, <1>2, <1>3, <1>6, <1>7, OrderKept
<1>9. Sending'
  BY <1>1, <1>2 DEF Sending
<1>10. ASSUME Above(held[s], Known) PROVE Spent(Known, now)
  <2> SUFFICES ASSUME NEW q \in Known, q.up PROVE now >= q.issued_at + Ttl
    BY DEF Spent
  <2>1. q.serial < held[s].serial
    BY <1>10 DEF Above
  <2>2. q.issued_at <= held[s].issued_at
    BY <1>1, <1>6, <2>1 DEF InOrder
  <2>3. q.issued_at \in Nat /\ held[s].issued_at \in Nat /\ Ttl \in Nat
    BY <1>6, RecordFields, PublisherAssumption DEF PublisherAssumption
  <2> QED BY <1>2, <1>3, <2>2, <2>3 DEF expired
<1>11. ASSUME NEW x \in took PROVE Above(held'[x], Known') \/ Spent(Known', now')
  <2>1. Above(held[x], Known) \/ Spent(Known, now)
    BY <1>1 DEF Withdrawn
  <2>2. x \in Server
    BY <1>1 DEF Types
  <2>3. Above(held'[x], Known) \/ Spent(Known, now)
    BY <1>4, <1>10, <2>1, <2>2
  <2> QED BY <1>2, <1>3, <1>6, <1>7, <2>3, AboveKept, SpentKept
<1>12. stopping => Above(job.rec, Known') /\ ~job.up
  BY <1>1, <1>7, AboveKept DEF Withdrawn
<1>13. Withdrawn'
  BY <1>1, <1>2, <1>11, <1>12 DEF Withdrawn
<1> QED
  BY <1>5, <1>8, <1>9, <1>13 DEF PublisherInv

(* adopt_network_serial never finds a serial it has not passed itself.     *)
LEMMA AdoptStep ==
    ASSUME PublisherInv, NEW s \in Server, Adopt(s)
    PROVE  PublisherInv'
<1>1. Types /\ InOrder(Known, serial, now) /\ Sending /\ Withdrawn
  BY DEF PublisherInv
<1>2. serial \in Nat /\ job.up \in BOOLEAN /\ stopping \in BOOLEAN
  BY <1>1 DEF Types, Job
<1>3. held[s] # None => ~(held[s].serial >= serial)
  <2> SUFFICES ASSUME held[s] # None PROVE ~(held[s].serial >= serial)
    OBVIOUS
  <2>1. held[s] \in Known /\ held[s] \in Record
    BY <1>1, KnownRecords
  <2>2. held[s].serial \in Nat /\ held[s].serial < serial
    BY <1>1, <2>1, RecordFields DEF InOrder
  <2> QED BY <1>2, <2>2
<1>4. Sign(serial, job.up, TRUE) /\ UNCHANGED <<now, held, late, stopping, run, took>>
  BY <1>3, Zenon DEF Adopt
<1>5. stopping => job.up = FALSE
  BY <1>1, <1>2 DEF Withdrawn
<1> QED
  BY <1>2, <1>4, <1>5, SignStep, Zenon

(* The invariant holds before the first record is signed.                  *)
LEMMA InitPublisherInv == Init => PublisherInv
<1> SUFFICES ASSUME Init PROVE PublisherInv
  OBVIOUS
<1> USE DEF Init
<1>1. Idle \in Job /\ Idle.rec = None /\ Idle.pc = "idle"
  BY DEF Idle, Job
<1>2. Types
  BY <1>1, Zenon DEF Types
<1>3. Known = {}
  BY <1>1 DEF Known, KnownOf
<1>4. InOrder(Known, serial, now) /\ Sending /\ Withdrawn
  BY <1>1, <1>3 DEF InOrder, Sending, Withdrawn
<1> QED
  BY <1>2, <1>4 DEF PublisherInv

(* Every step of the publisher, the servers and the network keeps the      *)
(* invariant, unless a restart falls into a second whose serials were      *)
(* used.                                                                   *)
LEMMA NextPublisherInv == ~Instant /\ PublisherInv /\ [Next]_vars => PublisherInv'
<1> SUFFICES ASSUME ~Instant, PublisherInv, [Next]_vars PROVE PublisherInv'
  OBVIOUS
<1>1. Types /\ Sending /\ Withdrawn
  BY DEF PublisherInv
<1>2. /\ now \in Nat /\ now <= now /\ job \in Job /\ stopping \in BOOLEAN
      /\ job.pc = "send" => job.at \in Server /\ job.rec \in Known
  BY <1>1, KnownRecords DEF Types, Sending
<1>3. CASE UNCHANGED vars
  BY <1>2, <1>3, CalmStep DEF vars
<1>4. CASE Refresh
  <2>1. /\ Sign(serial, TRUE, FALSE) /\ ~stopping
        /\ UNCHANGED <<now, held, late, stopping, run, took>>
    BY <1>4, Zenon DEF Refresh
  <2> QED BY <1>2, <2>1, SignStep, Zenon
<1>5. CASE Withdraw
  <2>1. /\ Sign(serial, FALSE, FALSE) /\ stopping' = TRUE /\ late' = late \union abandoned
        /\ UNCHANGED <<now, held, run, took>>
    BY <1>5, Zenon DEF Withdraw
  <2> QED BY <2>1, SignStep, Zenon
<1>6. CASE Send \/ SendTwice
  <2>1. /\ job.pc = "send" /\ put(job.at, job.rec) /\ UNCHANGED <<now, late, serial, stopping, run, signed>>
        /\ took' = IF stopping /\ outcome(job.at, job.rec) = "stored"
                   THEN took \union {job.at} ELSE took
    BY <1>6 DEF Send, SendTwice
  <2>2. PICK answer : Count(answer)
    BY <1>6 DEF Send, SendTwice
  <2>3. /\ job' \in Job /\ job'.rec = job.rec /\ job'.seen = job.seen /\ job'.up = job.up
        /\ job'.pc = "send" => job'.at \in Server
    BY <1>2, <2>1, <2>2, CountFields
  <2> QED BY <1>2, <2>1, <2>3, PutStep
<1>7. CASE SendFails
  <2>1. /\ job.pc = "send" /\ Count("failed")
        /\ UNCHANGED <<now, held, late, serial, stopping, run, signed, took>>
    BY <1>7 DEF SendFails
  <2>2. /\ job' \in Job /\ job'.rec = job.rec /\ job'.seen = job.seen /\ job'.up = job.up
        /\ job'.pc = "send" => job'.at \in Server
    BY <1>2, <2>1, CountFields
  <2> QED BY <1>2, <2>1, <2>2, CalmStep
<1>8. CASE Finish \/ AdoptFails
  <2> DEFINE p == IF stopping THEN "stopped" ELSE "idle"
  <2>1. /\ job' = [job EXCEPT !.pc = p]
        /\ UNCHANGED <<now, held, late, serial, stopping, run, signed, took>>
    BY <1>8 DEF Finish, AdoptFails
  <2>2. p \in {"stopped", "idle"}
    OBVIOUS
  <2> HIDE DEF p
  <2>3. /\ job' \in Job /\ job'.rec = job.rec /\ job'.seen = job.seen /\ job'.up = job.up
        /\ job'.pc = p
    BY <1>2, <2>1, <2>2 DEF Job
  <2> QED BY <1>2, <2>1, <2>2, <2>3, CalmStep
<1>9. ASSUME NEW m \in late, Arrive(m) PROVE PublisherInv'
  <2>1. late' \subseteq late /\ put(m[1], m[2])
        /\ UNCHANGED <<now, serial, job, stopping, run, signed, took>>
    BY <1>9 DEF Arrive
  <2>2. m[1] \in Server /\ m[2] \in Known
    BY <1>1, KnownRecords
  <2> QED BY <1>2, <2>1, <2>2, PutStep
<1>10. ASSUME NEW m \in late, Drop(m) PROVE PublisherInv'
  <2>1. late' \subseteq late /\ UNCHANGED <<now, held, serial, job, stopping, run, signed, took>>
    BY <1>10 DEF Drop
  <2> QED BY <1>2, <2>1, CalmStep
<1>11. ASSUME NEW s \in Server, NEW t \in Server, Replicate(s, t) PROVE PublisherInv'
  <2>1. held[s] # None /\ put(t, held[s])
        /\ UNCHANGED <<now, late, serial, job, stopping, run, signed, took>>
    BY <1>11 DEF Replicate
  <2>2. held[s] \in Known
    BY <1>1, <2>1, KnownRecords
  <2> QED BY <1>2, <2>1, <2>2, PutStep
<1>12. CASE Tick
  <2>1. now' = now + 1 /\ UNCHANGED <<held, late, serial, job, stopping, run, signed, took>>
    BY <1>12 DEF Tick
  <2>2. now' \in Nat /\ now <= now'
    BY <1>2, <2>1
  <2> QED BY <1>2, <2>1, <2>2, CalmStep
<1>13. CASE Restart
  BY <1>13, RestartStep
<1>14. ASSUME NEW s \in Server, Adopt(s) PROVE PublisherInv'
  BY <1>14, AdoptStep
<1>15. ASSUME NEW s \in Server, Purge(s) PROVE PublisherInv'
  BY <1>15, PurgeStep
<1>16. CASE \E m \in late : Arrive(m) \/ Drop(m)
  BY <1>9, <1>10, <1>16
<1>17. CASE \E s, t \in Server : Replicate(s, t)
  BY <1>11, <1>17
<1>18. CASE \E s \in Server : Adopt(s) \/ Purge(s)
  BY <1>14, <1>15, <1>18
<1> QED
  BY <1>3, <1>4, <1>5, <1>6, <1>7, <1>8, <1>12, <1>13, <1>16, <1>17, <1>18 DEF Next

(* The invariant holds in every reachable state.                           *)
LEMMA AlwaysPublisherInv == ASSUME ~Instant PROVE Spec => []PublisherInv
<1>1. PublisherInv /\ [Next]_vars => PublisherInv'
  BY NextPublisherInv
<1> QED
  BY <1>1, InitPublisherInv, PTL DEF Spec

-----------------------------------------------------------------------------
(* Publisher::sign (publisher.rs) gives every record a serial of its own,  *)
(* across restarts and adopted serials: servers that hold the same serial  *)
(* hold the same record, whatever was sent twice, came late or was passed  *)
(* on.                                                                     *)
THEOREM SerialsAreUnique == ASSUME ~Instant PROVE Spec => []SerialsTellApart
<1>1. PublisherInv => SerialsTellApart
  <2> SUFFICES ASSUME PublisherInv, NEW s \in Server, NEW t \in Server,
                      held[s] # None, held[t] # None, held[s].serial = held[t].serial
               PROVE  held[s] = held[t]
    BY DEF SerialsTellApart
  <2>1. held[s] \in Known /\ held[t] \in Known
    BY KnownRecords DEF PublisherInv
  <2> QED BY <2>1 DEF PublisherInv, InOrder
<1> QED
  BY <1>1, AlwaysPublisherInv, PTL

(* Publisher::new (publisher.rs) starts the serial at the clock: what a    *)
(* restarted publisher signs supersedes every record of an earlier run     *)
(* that a server held when it was signed.                                  *)
THEOREM RestartsSupersede == ASSUME ~Instant PROVE Spec => []RestartSupersedes
<1>1. PublisherInv => RestartSupersedes
  <2> SUFFICES ASSUME PublisherInv, job.pc = "sent", NEW s \in Server, held[s] \in job.seen
               PROVE  supersedes(job.rec, held[s])
    BY DEF RestartSupersedes
  <2>1. held[s].serial < job.rec.serial
    BY DEF PublisherInv, Sending
  <2>2. held[s] \in Record /\ job.rec \in Record
    BY DEF PublisherInv, Types, Job, Sending
  <2>3. held[s].serial \in Nat /\ job.rec.serial \in Nat
    BY <2>2, RecordFields
  <2> QED BY <2>1, <2>3 DEF supersedes
<1> QED
  BY <1>1, AlwaysPublisherInv, PTL

(* Publisher::withdraw (publisher.rs): a server that has stored the        *)
(* withdrawal does not answer with endpoints again, whatever request of    *)
(* the dropped refresh arrives late, whatever other servers pass on, and   *)
(* also after it has purged the withdrawal itself.                         *)
THEOREM WithdrawalIsFinal == ASSUME ~Instant PROVE Spec => []WithdrawalSticks
<1>1. PublisherInv => WithdrawalSticks
  <2> SUFFICES ASSUME PublisherInv, NEW s \in took, held[s] # None, ~expired(held[s])
               PROVE  ~held[s].up
    BY DEF WithdrawalSticks
  <2>1. s \in Server
    BY DEF PublisherInv, Types
  <2>2. held[s] \in Known
    BY <2>1, KnownRecords DEF PublisherInv
  <2>3. Above(held[s], Known) \/ Spent(Known, now)
    BY DEF PublisherInv, Withdrawn
  <2> QED BY <2>2, <2>3 DEF Above, Spent, expired
<1> QED
  BY <1>1, AlwaysPublisherInv, PTL
=============================================================================
