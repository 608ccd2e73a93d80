----------------------------- MODULE Publisher -----------------------------
(***************************************************************************)
(* A publisher keeping the record of one key alive on several servers      *)
(* (sqns-client, publisher.rs): serials that start from the clock, signed  *)
(* records sent to one server after the other by Resolver::publish, the    *)
(* serial raised when every server says `stale', and the withdrawal with   *)
(* which `sqns publish --keepalive' ends.                                  *)
(*                                                                         *)
(* A request may be lost, sent again after the server has seen it, or, if  *)
(* its sender is dropped or dies, arrive late.  The servers merge records  *)
(* the way Store::put does, pass them on to each other and purge what has  *)
(* expired.  The records are live ones of one identity with one ttl, and   *)
(* all clocks agree.                                                       *)
(***************************************************************************)
EXTENDS Naturals

CONSTANTS
    Servers,      \* the number of servers, asked in this order
    Ttl,          \* the ttl of the records
    MaxTime,      \* bound on the clock
    MaxSigned,    \* bound on the records signed
    MaxRestarts,  \* bound on the restarts of the publisher
    Instant,      \* may it be back before the clock passes the serials it used
    None          \* no record

(* A signed record, with the run of the publisher that signed it.          *)
Record == [serial : Nat, issued_at : Nat, up : BOOLEAN, run : Nat]

ASSUME PublisherAssumption ==
    /\ Servers \in Nat \ {0}
    /\ Ttl \in Nat \ {0}
    /\ MaxTime \in Nat
    /\ MaxSigned \in Nat
    /\ MaxRestarts \in Nat
    /\ Instant \in BOOLEAN
    /\ None \notin Record

Server == 1 .. Servers

VARIABLES
    now,       \* the clock, in seconds
    held,      \* the record in each server's store
    late,      \* requests whose sender is gone: server and record
    serial,    \* Publisher::serial, the next one to be used
    job,       \* the publish_endpoints that is being run
    stopping,  \* ctrl-c: the job is the withdrawal
    run,       \* how often the publisher was started again
    signed,    \* how many records were signed
    took       \* history: the servers that have stored the withdrawal

vars == <<now, held, late, serial, job, stopping, run, signed, took>>

-----------------------------------------------------------------------------
expired(r) == now >= r.issued_at + Ttl

supersedes(r, s) ==
    \/ r.serial > s.serial
    \/ r.serial = s.serial /\ r.issued_at > s.issued_at

(* What Store::put does with r at server s.                                *)
outcome(s, r) ==
    IF expired(r) THEN "refused"
    ELSE IF held[s] = None \/ supersedes(r, held[s]) THEN "stored" ELSE "stale"

put(s, r) == held' = IF outcome(s, r) = "stored" THEN [held EXCEPT ![s] = r] ELSE held

(* No job.  History: `seen', what the servers held when it was signed.     *)
Idle == [pc |-> "idle", rec |-> None, seen |-> {}, up |-> TRUE, at |-> 1, accepted |-> FALSE,
         stale_only |-> TRUE, retried |-> FALSE]

(* Mutant: the counter is not moved on.                                    *)
Sign_again(n, up, retried) ==
    /\ signed < MaxSigned
    /\ signed' = signed + 1
    /\ serial' = n
    /\ job' = [Idle EXCEPT !.pc = "send", !.up = up, !.retried = retried,
                           !.seen = {held[s] : s \in Server} \ {None},
                           !.rec = [serial |-> n, issued_at |-> now, up |-> up, run |-> run]]

(* sign: a record takes the next serial; publish starts with server 1.     *)
Sign(n, up, retried) ==
    /\ signed < MaxSigned
    /\ signed' = signed + 1
    /\ serial' = n + 1
    /\ job' = [Idle EXCEPT !.pc = "send", !.up = up, !.retried = retried,
                           !.seen = {held[s] : s \in Server} \ {None},
                           !.rec = [serial |-> n, issued_at |-> now, up |-> up, run |-> run]]

-----------------------------------------------------------------------------
(* Mutant: a publisher that was started again signs with serial 0.         *)
Refresh_zero ==
    /\ job.pc = "idle"
    /\ ~stopping
    /\ Sign(IF run = 0 THEN serial ELSE 0, TRUE, FALSE)
    /\ UNCHANGED <<now, held, late, stopping, run, took>>

(* Publisher::publish, once or from the refresh loop.                      *)
Refresh ==
    /\ job.pc = "idle"
    /\ ~stopping
    /\ Sign(serial, TRUE, FALSE)
    /\ UNCHANGED <<now, held, late, stopping, run, took>>

(* The request that was under way when its sender went.                    *)
abandoned == IF job.pc = "send" THEN {<<job.at, job.rec>>} ELSE {}

(* ctrl-c: the refresh is dropped wherever it is, and the key withdrawn.   *)
Withdraw ==
    /\ ~stopping
    /\ stopping' = TRUE
    /\ late' = late \union abandoned
    /\ Sign(serial, FALSE, FALSE)
    /\ UNCHANGED <<now, held, run, took>>

(* The publisher dies and is started again: the serial starts at the clock.*)
Restart ==
    /\ run < MaxRestarts
    /\ Instant \/ serial <= now
    /\ run' = run + 1
    /\ late' = late \union abandoned
    /\ serial' = now
    /\ job' = Idle
    /\ stopping' = FALSE
    /\ took' = {}
    /\ UNCHANGED <<now, held, signed>>

(* The answer of one server is counted, and the next one is up.            *)
Count(answer) ==
    job' = [job EXCEPT !.at = @ + 1,
                       !.pc = IF job.at = Servers THEN "sent" ELSE "send",
                       !.accepted = @ \/ answer = "stored",
                       !.stale_only = @ /\ answer \in {"stored", "stale"}]

(* The request reaches the server, which answers.                          *)
Send ==
    /\ job.pc = "send"
    /\ put(job.at, job.rec)
    /\ Count(outcome(job.at, job.rec))
    /\ took' = IF stopping /\ outcome(job.at, job.rec) = "stored"
               THEN took \union {job.at} ELSE took
    /\ UNCHANGED <<now, late, serial, stopping, run, signed>>

(* It reaches the server, the connection breaks, and it is sent again: the *)
(* second answer is read, or none.                                         *)
SendTwice ==
    /\ job.pc = "send"
    /\ put(job.at, job.rec)
    /\ \/ Count(IF outcome(job.at, job.rec) = "stored" THEN "stale" ELSE outcome(job.at, job.rec))
       \/ Count("failed")
    /\ took' = IF stopping /\ outcome(job.at, job.rec) = "stored"
               THEN took \union {job.at} ELSE took
    /\ UNCHANGED <<now, late, serial, stopping, run, signed>>

(* It does not.                                                            *)
SendFails ==
    /\ job.pc = "send"
    /\ Count("failed")
    /\ UNCHANGED <<now, held, late, serial, stopping, run, signed, took>>

-----------------------------------------------------------------------------
(* Every server was asked.  Nobody took the record and all said `stale':   *)
(* once, the serial is raised.                                             *)
raise == ~job.accepted /\ job.stale_only /\ ~job.retried

Finish ==
    /\ job.pc = "sent"
    /\ ~raise
    /\ job' = [job EXCEPT !.pc = IF stopping THEN "stopped" ELSE "idle"]
    /\ UNCHANGED <<now, held, late, serial, stopping, run, signed, took>>

(* adopt_network_serial: the first server that answers says what it holds, *)
(* and a new record is signed and sent.                                    *)
Adopt(s) ==
    /\ job.pc = "sent"
    /\ raise
    /\ LET known == held[s] # None /\ ~expired(held[s])
           n == IF known /\ held[s].serial >= serial THEN held[s].serial + 1 ELSE serial
       IN Sign(n, job.up, TRUE)
    /\ UNCHANGED <<now, held, late, stopping, run, took>>

(* No server answers, or with something the resolver refuses.              *)
AdoptFails ==
    /\ job.pc = "sent"
    /\ raise
    /\ job' = [job EXCEPT !.pc = IF stopping THEN "stopped" ELSE "idle"]
    /\ UNCHANGED <<now, held, late, serial, stopping, run, signed, took>>

-----------------------------------------------------------------------------
(* A request whose sender is gone arrives, or never will.                  *)
Arrive(m) ==
    /\ late' = late \ {m}
    /\ put(m[1], m[2])
    /\ UNCHANGED <<now, serial, job, stopping, run, signed, took>>

Drop(m) ==
    /\ late' = late \ {m}
    /\ UNCHANGED <<now, held, serial, job, stopping, run, signed, took>>

(* Server s passes what it holds on to server t.                           *)
Replicate(s, t) ==
    /\ held[s] # None
    /\ ~expired(held[s])
    /\ put(t, held[s])
    /\ UNCHANGED <<now, late, serial, job, stopping, run, signed, took>>

(* Mutant: a withdrawal has nothing to serve and goes at once.             *)
Purge_withdrawn(s) ==
    /\ held[s] # None
    /\ expired(held[s]) \/ ~held[s].up
    /\ held' = [held EXCEPT ![s] = None]
    /\ UNCHANGED <<now, late, serial, job, stopping, run, signed, took>>

Purge(s) ==
    /\ held[s] # None
    /\ expired(held[s])
    /\ held' = [held EXCEPT ![s] = None]
    /\ UNCHANGED <<now, late, serial, job, stopping, run, signed, took>>

Tick ==
    /\ now < MaxTime
    /\ now' = now + 1
    /\ UNCHANGED <<held, late, serial, job, stopping, run, signed, took>>

-----------------------------------------------------------------------------
Init ==
    /\ now = 1
    /\ held = [s \in Server |-> None]
    /\ late = {}
    /\ serial = now
    /\ job = Idle
    /\ stopping = FALSE
    /\ run = 0
    /\ signed = 0
    /\ took = {}

Next ==
    \/ Refresh
    \/ Withdraw
    \/ Restart
    \/ Send
    \/ SendTwice
    \/ SendFails
    \/ Finish
    \/ \E s \in Server : Adopt(s)
    \/ AdoptFails
    \/ \E m \in late : Arrive(m) \/ Drop(m)
    \/ \E s, t \in Server : Replicate(s, t)
    \/ \E s \in Server : Purge(s)
    \/ Tick

Spec == Init /\ [][Next]_vars

-----------------------------------------------------------------------------
(***************************************************************************)
(* Properties.                                                             *)
(***************************************************************************)
(* "Withdraw the key: publish a record with no endpoints, so lookups get a *)
(* definite `deliberately unreachable' rather than a stale address"        *)
(* (publisher.rs:110-112): a server that has stored the withdrawal does    *)
(* not answer with endpoints again, whatever was under way or is passed on *)
(* by other servers.                                                       *)
WithdrawalSticks ==
    stopping => \A s \in took : held[s] # None /\ ~expired(held[s]) => ~held[s].up

(* A serial tells records apart: servers that hold the same serial hold    *)
(* the same record, so that replication has nothing to decide.             *)
SerialsTellApart ==
    \A s, t \in Server :
        held[s] # None /\ held[t] # None /\ held[s].serial = held[t].serial
            => held[s] = held[t]

(* "The serial starts at the current wall-clock second, so a record signed *)
(* after a restart still supersedes whatever the network already holds"    *)
(* (publisher.rs:40-41).                                                   *)
RestartSupersedes ==
    job.pc = "sent" /\ job.accepted =>
        \A s \in Server :
            held[s] \in job.seen /\ held[s].run < run => supersedes(job.rec, held[s])
=============================================================================
