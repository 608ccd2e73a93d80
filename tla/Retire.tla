------------------------------- MODULE Retire -------------------------------
(***************************************************************************)
(* Retiring service keys from the command line: sqns revoke, with --key or *)
(* --all, and sqns supersede (sqns, main.rs), against the listing of an    *)
(* identity's keys (server.rs, store.rs identity_records) and a publish to *)
(* every server (resolver.rs), while the nodes that hold the keys go on    *)
(* publishing.                                                             *)
(*                                                                         *)
(* All keys belong to one identity.  Of a record only its kind matters     *)
(* here; which of two live records wins is the subject of Merge.           *)
(***************************************************************************)
EXTENDS Naturals, FiniteSets, FiniteSetsExt

CONSTANTS
    Key,      \* the service keys the identity issued, in the order of their bytes
    Servers,  \* number of servers, in the order of the configuration
    Command,  \* invocations of the command line
    Limit,    \* MAX_SYNC_BATCH, the longest listing
    Lapsing,  \* the keys whose record or delegation may run out before it is renewed
    None      \* no key

ASSUME RetireAssumption ==
    /\ Key \subseteq Nat /\ IsFiniteSet(Key)
    /\ Servers \in Nat \ {0}
    /\ Limit \in Nat \ {0}
    /\ Lapsing \subseteq Key
    /\ None \notin Key

VARIABLES
    rec,    \* the kind of record each server holds for each key
    cmd     \* the state of each invocation

vars == <<rec, cmd>>

Server == 1..Servers
Terminal == {"superseded", "revoked"}

(* A record that has expired is as none, swept or not.  An undelegated one *)
(* has not, but its delegation has: it is listed and passed on, and is     *)
(* refused.                                                                *)
Unexpired == {"live", "undelegated"} \union Terminal

Retired(k) == \E s \in Server : rec[s][k] \in Terminal

(* An invocation: what it makes of its keys, whether it is revoke --all,   *)
(* its keys still to do, the one in hand or done last, the server next in  *)
(* turn, and whether one accepted.  alive and whole are history: the keys  *)
(* not retired at the listing server, and whether it listed them all.      *)
Unstarted ==
    [pc |-> "idle", kind |-> "revoked", all |-> FALSE, todo |-> {}, current |-> None,
     at |-> 1, accepted |-> FALSE, alive |-> {}, whole |-> TRUE]

Failed == [Unstarted EXCEPT !.pc = "failed"]

-----------------------------------------------------------------------------
(* Store::put of a record of kind r for key k: nothing replaces a tombstone. *)
put(s, k, r) ==
    /\ rec[s][k] \notin Terminal
    /\ rec' = [rec EXCEPT ![s][k] = r]

(* A node publishes for its key.                                           *)
Refresh(s, k) == put(s, k, "live") /\ UNCHANGED cmd

(* A server passes on what it holds, by push or by pull.                   *)
Replicate(s, t, k) ==
    /\ rec[s][k] \in {"live"} \union Terminal
    /\ put(t, k, rec[s][k])
    /\ UNCHANGED cmd

Lapse(s, k) ==
    /\ k \in Lapsing
    /\ \/ rec[s][k] = "live" /\ rec' = [rec EXCEPT ![s][k] = "undelegated"]
       \/ rec[s][k] \in {"live", "undelegated"} /\ rec' = [rec EXCEPT ![s][k] = "none"]
    /\ UNCHANGED cmd

-----------------------------------------------------------------------------
(* The listing a server answers: the records that are not expired, in the  *)
(* order of their keys, cut at the limit.                                  *)
unexpired(s) == {k \in Key : rec[s][k] \in Unexpired}

identity_records(s) ==
    {k \in unexpired(s) : Cardinality({j \in unexpired(s) : j < k}) < Limit}

(* Resolver::lookup_identity: every record listed stands on its own.       *)
verified(s) == \A k \in identity_records(s) : rec[s][k] # "undelegated"

Set(c, fields) == cmd' = [cmd EXCEPT ![c] = fields]

(* The next key, in the order of the listing; none left ends the command.  *)
Take(fields) ==
    IF fields.todo = {} THEN [fields EXCEPT !.pc = "ok"]
    ELSE LET k == Min(fields.todo)
         IN  [fields EXCEPT !.pc = "publish", !.current = k, !.todo = @ \ {k},
                            !.at = 1, !.accepted = FALSE]

Listed(c, s) ==
    Set(c, [Unstarted EXCEPT
              !.pc = "confirm", !.all = TRUE,
              !.todo = {k \in identity_records(s) : rec[s][k] = "live"},
              !.alive = {k \in unexpired(s) : rec[s][k] \notin Terminal},
              !.whole = Cardinality(unexpired(s)) <= Limit])

(* Mutant: records that do not verify are passed over.                     *)
RevokeAll_skipping(c, s) ==
    /\ cmd[c].pc = "idle"
    /\ Listed(c, s)
    /\ UNCHANGED rec

(* revoke --all: the first server that answers lists the keys.             *)
RevokeAll(c, s) ==
    /\ cmd[c].pc = "idle"
    /\ verified(s)
    /\ Listed(c, s)
    /\ UNCHANGED rec

(* revoke --key and supersede name their key; nothing is read before the   *)
(* operator confirms a revocation.                                         *)
RevokeKey(c, k) ==
    /\ cmd[c].pc = "idle"
    /\ Set(c, Take([Unstarted EXCEPT !.todo = {k}]))
    /\ UNCHANGED rec

Supersede(c, k) ==
    /\ cmd[c].pc = "idle"
    /\ Set(c, Take([Unstarted EXCEPT !.kind = "superseded", !.todo = {k}]))
    /\ UNCHANGED rec

Confirm(c) ==
    /\ cmd[c].pc = "confirm"
    /\ Set(c, Take(cmd[c]))
    /\ UNCHANGED rec

(* No server lists the keys, a listed record does not verify, or the       *)
(* operator does not confirm.  An empty listing is not asked about.        *)
GiveUp(c) ==
    /\ \/ cmd[c].pc = "idle"
       \/ cmd[c].pc = "confirm" /\ cmd[c].todo # {}
    /\ Set(c, Failed)
    /\ UNCHANGED rec

-----------------------------------------------------------------------------
(* Resolver::publish: one server after the other.                          *)
Offering(c) == cmd[c].pc = "publish" /\ cmd[c].at \in Server

(* The server at hand stores the record and says so.                       *)
Accepted(c) ==
    /\ Offering(c)
    /\ put(cmd[c].at, cmd[c].current, cmd[c].kind)
    /\ Set(c, [cmd[c] EXCEPT !.at = @ + 1, !.accepted = TRUE])

(* It stores the record, the answer is lost, and the request sent again    *)
(* finds the key retired.                                                  *)
AcceptedUnheard(c) ==
    /\ Offering(c)
    /\ put(cmd[c].at, cmd[c].current, cmd[c].kind)
    /\ Set(c, [cmd[c] EXCEPT !.at = @ + 1])

(* It refuses, the key being retired, or it is not reached.                *)
Rejected(c) ==
    /\ Offering(c)
    /\ Set(c, [cmd[c] EXCEPT !.at = @ + 1])
    /\ UNCHANGED rec

(* Mutant: a key no server accepted is passed over.                        *)
Report_lenient(c) ==
    /\ cmd[c].pc = "publish"
    /\ cmd[c].at > Servers
    /\ Set(c, Take(cmd[c]))
    /\ UNCHANGED rec

(* Every server was asked: one that accepted is enough, and the first key  *)
(* that none accepted ends the command.                                    *)
Report(c) ==
    /\ cmd[c].pc = "publish"
    /\ cmd[c].at > Servers
    /\ Set(c, IF cmd[c].accepted THEN Take(cmd[c]) ELSE Failed)
    /\ UNCHANGED rec

-----------------------------------------------------------------------------
Init ==
    /\ rec = [s \in Server |-> [k \in Key |-> "none"]]
    /\ cmd = [c \in Command |-> Unstarted]

Network ==
    \E s \in Server, k \in Key :
        \/ Refresh(s, k)
        \/ Lapse(s, k)
        \/ \E t \in Server \ {s} : Replicate(s, t, k)

Step(c) ==
    \/ \E s \in Server : RevokeAll(c, s)
    \/ \E k \in Key : RevokeKey(c, k) \/ Supersede(c, k)
    \/ Confirm(c)
    \/ GiveUp(c)
    \/ Accepted(c)
    \/ AcceptedUnheard(c)
    \/ Rejected(c)
    \/ Report(c)

Next == Network \/ \E c \in Command : Step(c)

Spec == Init /\ [][Next]_vars

-----------------------------------------------------------------------------
(* A revoke --all that ends well has revoked every key for which the       *)
(* listing server held an unexpired record, delegated or not, whatever     *)
(* nodes, other commands and replication did between the listing and the   *)
(* publishes (main.rs revoke), provided the listing was not cut.           *)
LiveOnesAreRevoked ==
    \A c \in Command :
        (cmd[c].all /\ cmd[c].pc = "ok" /\ cmd[c].whole) =>
            \A k \in cmd[c].alive : \E s \in Server : rec[s][k] = "revoked"

(* "every key this identity issued" (README.md, on revoke --all): the same *)
(* of a listing that was cut.                                              *)
AllMeansAll ==
    \A c \in Command :
        (cmd[c].all /\ cmd[c].pc = "ok") => \A k \in cmd[c].alive : Retired(k)

(* "Nothing more will be accepted for the old key" (main.rs supersede):    *)
(* once supersede has reported its key, no server takes a live record.     *)
ReportedIsFinal ==
    [][\A c \in Command, s \in Server :
          (cmd[c].kind = "superseded" /\ cmd[c].pc = "ok") =>
              (rec'[s][cmd[c].current] = "live" => rec[s][cmd[c].current] = "live")]_vars
=============================================================================
