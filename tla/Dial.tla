-------------------------------- MODULE Dial --------------------------------
(***************************************************************************)
(* connect_with (sqns-client, conn.rs) and dns::resolve: from a server's   *)
(* address to one connection, the addresses its name resolves to being     *)
(* raced with a head start for each over the next.                         *)
(*                                                                         *)
(* Time is counted in ticks; Delay of them are HAPPY_EYEBALLS_DELAY.  A    *)
(* tick waits for every timer that is due, so nothing is late but by what  *)
(* the network takes.                                                      *)
(***************************************************************************)
EXTENDS Naturals, FiniteSets

CONSTANTS
    MaxAnswers,  \* bound on the addresses a name resolves to
    Delay,       \* head start of one address over the next
    Timeout,     \* the handshake timeout
    Trip         \* how long a server that is there takes to shake hands

ASSUME DialAssumption ==
    /\ MaxAnswers \in Nat
    /\ Delay \in Nat \ {0}
    /\ Timeout \in Nat
    /\ Trip \in 0..Timeout

(* An address a name resolves to: the DNSSEC proof of its record, whether  *)
(* this host has a route to it, and what a dial to it meets.               *)
Address == [secure : BOOLEAN, routable : BOOLEAN, meets : {"server", "error", "silence"}]

VARIABLES
    target,      \* is the host a name under sqns://, and is DNSSEC required
    resolved,    \* what DNS answers, in order; nothing is a failure to resolve
    candidates,  \* the addresses raced, by their places in the answer
    attempt,     \* the state of each attempt
    clock,       \* ticks since the race began
    dialed       \* "resolving", "racing", "connected" or the error

dialvars == <<target, resolved, candidates, attempt, clock, dialed>>
asked == <<target, resolved>>

-----------------------------------------------------------------------------
(* dns::resolve: under sqns:// with DNSSEC required only what is proven    *)
(* signed counts; an IP literal, sqc://, or a caller that does not require *)
(* it takes the system's answer as it is.                                  *)
resolve(found) ==
    {i \in DOMAIN found :
        target.name /\ target.sqns /\ target.require_dnssec => found[i].secure}

(* Addresses with no route are dropped, unless none has one.               *)
worth_trying(all) ==
    LET routable == {i \in all : resolved[i].routable}
    IN  IF routable = {} THEN all ELSE routable

ResolveFails ==
    /\ dialed = "resolving"
    /\ resolve(resolved) = {}
    /\ dialed' = "unresolved"
    /\ UNCHANGED <<asked, candidates, attempt, clock>>

(* One task per candidate is spawned; none has dialed yet.                 *)
Resolve ==
    /\ dialed = "resolving"
    /\ resolve(resolved) # {}
    /\ candidates' = worth_trying(resolve(resolved))
    /\ attempt' = [i \in candidates' |-> "sleeping"]
    /\ dialed' = "racing"
    /\ UNCHANGED <<asked, clock>>

-----------------------------------------------------------------------------
(* How many candidates come before i.                                      *)
before(i) == Cardinality({j \in candidates : j < i})

(* Mutant: the attempts are walked, each waiting for the one before to     *)
(* run out of time.                                                        *)
due_walked(i) == before(i) * (Delay + Timeout)

(* When attempt i starts to dial.                                          *)
due(i) == before(i) * Delay

Dials(i) ==
    /\ dialed = "racing"
    /\ attempt[i] = "sleeping"
    /\ clock >= due(i)
    /\ attempt' = [attempt EXCEPT ![i] = "dialing"]
    /\ UNCHANGED <<asked, candidates, clock, dialed>>

(* The latest a dial ends: a server answers within Trip, silence lasts     *)
(* until the handshake times out.                                          *)
over(i) == due(i) + IF resolved[i].meets = "server" THEN Trip ELSE Timeout

(* Mutant: attempts that lost the race stay on.                            *)
Connects_kept(i) ==
    /\ dialed = "racing"
    /\ attempt[i] = "dialing"
    /\ resolved[i].meets = "server"
    /\ attempt' = [attempt EXCEPT ![i] = "connected"]
    /\ dialed' = "connected"
    /\ UNCHANGED <<asked, candidates, clock>>

(* The first attempt to connect ends the race: the set is dropped, and the *)
(* others with it.                                                         *)
Connects(i) ==
    /\ dialed = "racing"
    /\ attempt[i] = "dialing"
    /\ resolved[i].meets = "server"
    /\ attempt' = [j \in DOMAIN attempt |->
                     IF j = i THEN "connected"
                     ELSE IF attempt[j] = "failed" THEN "failed" ELSE "aborted"]
    /\ dialed' = "connected"
    /\ UNCHANGED <<asked, candidates, clock>>

(* Mutant: the first failure ends the race.                                *)
Fails_first(i) ==
    /\ dialed = "racing"
    /\ attempt[i] = "dialing"
    /\ \/ resolved[i].meets = "error"
       \/ resolved[i].meets = "silence" /\ clock >= over(i)
    /\ attempt' = [attempt EXCEPT ![i] = "failed"]
    /\ dialed' = "unreachable"
    /\ UNCHANGED <<asked, candidates, clock>>

(* Mutant: a dial has no handshake timeout.                                *)
Fails_patient(i) ==
    /\ dialed = "racing"
    /\ attempt[i] = "dialing"
    /\ resolved[i].meets = "error"
    /\ attempt' = [attempt EXCEPT ![i] = "failed"]
    /\ dialed' = IF \A j \in DOMAIN attempt' : attempt'[j] = "failed"
                 THEN "unreachable" ELSE dialed
    /\ UNCHANGED <<asked, candidates, clock>>

(* An attempt fails at once or by its timeout; when the last one has, the  *)
(* errors are returned.                                                    *)
Fails(i) ==
    /\ dialed = "racing"
    /\ attempt[i] = "dialing"
    /\ \/ resolved[i].meets = "error"
       \/ resolved[i].meets = "silence" /\ clock >= over(i)
    /\ attempt' = [attempt EXCEPT ![i] = "failed"]
    /\ dialed' = IF \A j \in DOMAIN attempt' : attempt'[j] = "failed"
                 THEN "unreachable" ELSE dialed
    /\ UNCHANGED <<asked, candidates, clock>>

(* Time passes when no timer is due.                                       *)
Elapse ==
    /\ dialed = "racing"
    /\ \A i \in DOMAIN attempt :
          /\ attempt[i] = "sleeping" => clock < due(i)
          /\ attempt[i] = "dialing" => clock < over(i)
    /\ clock' = clock + 1
    /\ UNCHANGED <<asked, candidates, attempt, dialed>>

-----------------------------------------------------------------------------
DialInit ==
    /\ target \in [name : BOOLEAN, sqns : BOOLEAN, require_dnssec : BOOLEAN]
    /\ \E n \in 0 .. MaxAnswers :
          resolved \in [1 .. n -> Address] /\ (target.name \/ n = 1)
    /\ candidates = {}
    /\ attempt = <<>>
    /\ clock = 0
    /\ dialed = "resolving"

DialNext ==
    \/ ResolveFails
    \/ Resolve
    \/ \E i \in DOMAIN attempt : Dials(i) \/ Connects(i) \/ Fails(i)
    \/ Elapse

DialSpec == DialInit /\ [][DialNext]_dialvars

(* Tasks run, timers fire and time passes.                                 *)
FairDial == DialSpec /\ WF_dialvars(DialNext)

-----------------------------------------------------------------------------
(* "Dropping the set aborts the attempts still in flight" (conn.rs): once  *)
(* connect_with returns a connection it is the only one, and no dial goes  *)
(* on that could open another.                                             *)
OneConnection ==
    dialed = "connected" =>
        \E i \in DOMAIN attempt :
            /\ attempt[i] = "connected"
            /\ \A j \in DOMAIN attempt \ {i} : attempt[j] \in {"failed", "aborted"}

(* "Every address is worth reporting" (conn.rs): connect_with gives up     *)
(* only when no server is behind any address it was to try.                *)
ErrorMeansNobody ==
    dialed = "unreachable" => \A i \in candidates : resolved[i].meets # "server"

(* "a working address answers in its own time and a dead one costs almost  *)
(* nothing" (conn.rs): while the race is on, the time spent is within the  *)
(* head starts before the first address that works, and its own handshake. *)
DeadCostLittle ==
    dialed = "racing" =>
        \A i \in candidates :
            resolved[i].meets = "server" => clock <= before(i) * Delay + Trip

(* A dial ends, with a connection or an error, whatever the addresses do.  *)
DialEnds == <>(dialed \in {"unresolved", "connected", "unreachable"})
=============================================================================
