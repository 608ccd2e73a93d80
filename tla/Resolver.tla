------------------------------ MODULE Resolver ------------------------------
(***************************************************************************)
(* Concurrent lookups of one key through one Resolver (sqns-client,        *)
(* resolver.rs): Resolver::fetch with the answer cache (cache.rs) and the  *)
(* marks that remember what was seen of the key.                           *)
(*                                                                         *)
(* The cache and the marks each have a lock of their own, so a lookup      *)
(* reads the cache, waits for a server, updates the marks and updates the  *)
(* cache in four separate steps, while time passes.  A server may answer   *)
(* with any record that was ever signed for the key, with none, or not at  *)
(* all; what does not verify is an error like no answer.                   *)
(***************************************************************************)
EXTENDS Naturals

CONSTANTS
    Lookup,     \* the callers that share the resolver
    Identity,   \* the identities that have delegated the key
    Signed,     \* the records of the key, as far as the resolver tells them apart
    NegativeTtl,\* NEGATIVE_TTL
    MaxTime,    \* bound on the clock
    Caching,    \* ResolverConfig::cache
    Parallel,   \* do the callers run on several threads
    None,       \* no record
    Missing     \* a cached absence

ASSUME ResolverAssumption ==
    /\ Signed \subseteq [identity : Identity, terminal : BOOLEAN, serial : Nat,
                          expires_at : Nat, not_after : Nat]
    /\ NegativeTtl \in Nat
    /\ MaxTime \in Nat
    /\ Caching \in BOOLEAN
    /\ Parallel \in BOOLEAN
    /\ None \notin Signed
    /\ Missing \notin Signed \union {None}

VARIABLES
    now,      \* now_unix()
    cache,    \* a record, Missing, or None: the cache cannot answer
    until,    \* how long Missing is remembered, 0 for other entries
    marks,    \* the last record noted, or None: what Seen is made from
    call,     \* the lookup each caller makes
    newest    \* history: the highest-ranked record returned so far

vars == <<now, cache, until, marks, call, newest>>

-----------------------------------------------------------------------------
is_expired(r) == ~r.terminal /\ now >= r.expires_at

(* verify_answer of a record that is signed as it should be.               *)
verify_answer(r) == ~is_expired(r) /\ (r.terminal \/ now < r.not_after)

(* Mutant: a record stays in the cache until it is invalidated.            *)
answers_kept == cache \in Signed \/ (cache = Missing /\ now < until)

(* Cache::get finds an entry that has not run out.                         *)
answers ==
    \/ cache \in Signed /\ ~is_expired(cache)
    \/ cache = Missing /\ now < until

(* Rank: retired keys first, then by serial.                               *)
below(r, s) ==
    \/ ~r.terminal /\ s.terminal
    \/ r.terminal = s.terminal /\ r.serial < s.serial

(* Mutant: any record may follow any other of the same identity.           *)
notable_replay(r) == marks # None => r.identity = marks.identity

(* Mutant: a higher-ranked record may come from anybody.                   *)
notable_anyone(r) == marks # None => ~below(r, marks)

(* note_rank: the record does not contradict what was seen before.         *)
notable(r) ==
    marks # None => r.identity = marks.identity /\ ~below(r, marks)

(* The lookup ends with result r.                                          *)
Return(p, r) ==
    /\ call' = [call EXCEPT ![p] = [@ EXCEPT !.pc = "done", !.rec = r]]
    /\ newest' = IF r # None /\ (newest # None => ~below(r, newest)) THEN r ELSE newest

-----------------------------------------------------------------------------
(* A lookup is made.  History: what had been returned before it, and when. *)
Begin(p) ==
    /\ call[p].pc = "done"
    /\ call' = [call EXCEPT ![p] = [pc |-> "begun", rec |-> None, floor |-> newest, at |-> now]]
    /\ UNCHANGED <<now, cache, until, marks, newest>>

(* Mutant: a remembered absence is handed out like a record.               *)
Hit_flat(p) ==
    /\ call[p].pc = "begun"
    /\ Caching
    /\ answers
    /\ call' = [call EXCEPT ![p] = [@ EXCEPT !.pc = "done", !.rec = cache]]
    /\ UNCHANGED <<now, cache, until, marks, newest>>

(* The cache answers, with a record or with a remembered absence.          *)
Hit(p) ==
    /\ call[p].pc = "begun"
    /\ Caching
    /\ answers
    /\ Return(p, IF cache = Missing THEN None ELSE cache)
    /\ UNCHANGED <<now, cache, until, marks>>

(* It does not, and an entry that has run out is removed: a server is      *)
(* asked.                                                                  *)
Ask(p) ==
    /\ call[p].pc = "begun"
    /\ Caching => ~answers
    /\ cache' = None
    /\ until' = 0
    /\ call' = [call EXCEPT ![p] = [@ EXCEPT !.pc = "asked"]]
    /\ UNCHANGED <<now, marks, newest>>

(* A server answers with a record, and it verifies.                        *)
Answer(p, r) ==
    /\ call[p].pc = "asked"
    /\ verify_answer(r)
    /\ call' = [call EXCEPT ![p] = [@ EXCEPT !.pc = "answered", !.rec = r]]
    /\ UNCHANGED <<now, cache, until, marks, newest>>

(* A server answers that it has no record.                                 *)
AnswerMissing(p) ==
    /\ call[p].pc = "asked"
    /\ cache' = IF Caching THEN Missing ELSE cache
    /\ until' = IF Caching THEN now + NegativeTtl ELSE until
    /\ Return(p, None)
    /\ UNCHANGED <<now, marks>>

(* No server answers, or the answer does not verify.                       *)
LookupFails(p) ==
    /\ call[p].pc = "asked"
    /\ Return(p, None)
    /\ UNCHANGED <<now, cache, until, marks>>

(* note_rank, under the lock of the marks.                                 *)
Note(p) ==
    /\ call[p].pc = "answered"
    /\ notable(call[p].rec)
    /\ marks' = call[p].rec
    /\ call' = [call EXCEPT ![p] = [@ EXCEPT !.pc = "noted"]]
    /\ UNCHANGED <<now, cache, until, newest>>

Refuse(p) ==
    /\ call[p].pc = "answered"
    /\ ~notable(call[p].rec)
    /\ Return(p, None)
    /\ UNCHANGED <<now, cache, until, marks>>

(* The record is cached, under the lock of the cache, and returned.        *)
Keep(p) ==
    /\ call[p].pc = "noted"
    /\ cache' = IF Caching THEN call[p].rec ELSE cache
    /\ until' = 0
    /\ Return(p, call[p].rec)
    /\ UNCHANGED <<now, marks>>

(* A publish through this resolver drops the entry.                        *)
Forget ==
    /\ cache # None
    /\ cache' = None
    /\ until' = 0
    /\ UNCHANGED <<now, marks, call, newest>>

Tick ==
    /\ now < MaxTime
    /\ now' = now + 1
    /\ UNCHANGED <<cache, until, marks, call, newest>>

-----------------------------------------------------------------------------
Init ==
    /\ now = 0
    /\ cache = None
    /\ until = 0
    /\ marks = None
    /\ call = [p \in Lookup |-> [pc |-> "done", rec |-> None, floor |-> None, at |-> 0]]
    /\ newest = None

(* On one thread a lookup is not interrupted between the marks and the     *)
(* cache, where it does not await anything.                                *)
Runs(p) == ~Parallel => \A q \in Lookup \ {p} : call[q].pc # "noted"

Step(p) ==
    \/ Begin(p)
    \/ Hit(p)
    \/ Ask(p)
    \/ \E r \in Signed : Answer(p, r)
    \/ AnswerMissing(p)
    \/ LookupFails(p)
    \/ Note(p)
    \/ Refuse(p)
    \/ Keep(p)

Next ==
    \/ \E p \in Lookup : Runs(p) /\ Step(p)
    \/ Forget
    \/ Tick

Spec == Init /\ [][Next]_vars

-----------------------------------------------------------------------------
(***************************************************************************)
(* Properties.                                                             *)
(***************************************************************************)
Maybe == Signed \union {None}

(* The types of the variables.                                             *)
TypeOK ==
    /\ now \in Nat
    /\ cache \in Maybe \union {Missing}
    /\ until \in Nat
    /\ marks \in Maybe
    /\ call \in [Lookup -> [pc : {"begun", "asked", "answered", "noted", "done"},
                            rec : Maybe, floor : Maybe, at : Nat]]
    /\ newest \in Maybe

(* "A resolver also remembers the newest record it has seen for a key and  *)
(* refuses anything older" (README.md:272-273): a lookup does not return a *)
(* record that ranks below one returned before the lookup was made.        *)
NoDowngrade ==
    \A p \in Lookup :
        call[p].pc = "done" /\ call[p].rec # None /\ call[p].floor # None
            => ~below(call[p].rec, call[p].floor)

(* "The identity behind the key.  It must never change" (resolver.rs:115): *)
(* all records a resolver returns for a key, to any caller and from the    *)
(* cache or not, answer to one identity.                                   *)
OneIdentity ==
    \A p \in Lookup :
        call[p].pc = "done" /\ call[p].rec # None => call[p].rec.identity = newest.identity

(* "Positive answers live until the record's own expiry" (cache.rs:3): no  *)
(* lookup returns a record that had expired when the lookup was made,      *)
(* however long it waited for a server, and whoever filled the cache.      *)
FreshWhenMade ==
    \A p \in Lookup :
        call[p].pc = "done" /\ call[p].rec # None =>
            call[p].rec.terminal \/ call[p].at < call[p].rec.expires_at

(* "a cached answer is exactly as trustworthy as a fresh one until it      *)
(* expires" (cache.rs:5-6): the same of the record's delegation.           *)
DelegatedWhenMade ==
    \A p \in Lookup :
        call[p].pc = "done" /\ call[p].rec # None =>
            call[p].rec.terminal \/ call[p].at < call[p].rec.not_after
=============================================================================
