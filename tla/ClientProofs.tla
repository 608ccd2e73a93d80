---------------------------- MODULE ClientProofs ----------------------------
(***************************************************************************)
(* Proofs about the parts of sqns-client.                                  *)
(*                                                                         *)
(* Resolver: its types, that a key keeps its identity, and that no lookup  *)
(* goes back behind an earlier one, when answers are not cached or the     *)
(* callers share one thread.                                               *)
(*                                                                         *)
(* Walk: the path of a walk is one of the records, and it gives up only    *)
(* when no living key is in reach.                                         *)
(*                                                                         *)
(* Dial: a race ends with one connection, fails only when nobody is there, *)
(* and a dead address costs no more than its head start.                   *)
(***************************************************************************)
EXTENDS Resolver, Walk, Dial, Sequences, NaturalsInduction, WellFoundedInduction,
        FiniteSetTheorems, TLAPS

-----------------------------------------------------------------------------
(* Ranks are totally ordered, so "not below" is transitive.                *)
LEMMA RankOrder ==
    /\ \A r \in Signed : ~below(r, r)
    /\ \A r, s \in Signed : below(r, s) => ~below(s, r)
    /\ \A r, s, t \in Signed : ~below(r, s) /\ ~below(s, t) => ~below(r, t)
BY ResolverAssumption DEF below

(* What a lookup returns is remembered with its type.                      *)
LEMMA ReturnTypes ==
    ASSUME TypeOK, NEW p \in Lookup, NEW r \in Maybe, Return(p, r)
    PROVE  /\ call' \in [Lookup -> [pc : {"begun", "asked", "answered", "noted", "done"},
                                    rec : Maybe, floor : Maybe, at : Nat]]
           /\ newest' \in Maybe
<1> DEFINE Call == [pc : {"begun", "asked", "answered", "noted", "done"},
                    rec : Maybe, floor : Maybe, at : Nat]
           f == [call[p] EXCEPT !.pc = "done", !.rec = r]
<1>1. call \in [Lookup -> Call] /\ call[p] \in Call
  BY DEF TypeOK
<1>2. f \in Call
  BY <1>1
<1>3. call' = [call EXCEPT ![p] = f]
  BY DEF Return
<1> HIDE DEF Call, f
<1>4. call' \in [Lookup -> Call]
  BY <1>1, <1>2, <1>3
<1>5. newest' \in Maybe
  BY DEF Return, TypeOK
<1> QED
  BY <1>4, <1>5 DEF Call

(* Every step keeps the types.                                             *)
LEMMA NextTypeOK == TypeOK /\ [Next]_vars => TypeOK'
<1> SUFFICES ASSUME TypeOK, [Next]_vars PROVE TypeOK'
  OBVIOUS
<1> USE DEF TypeOK, Maybe
<1>1. CASE UNCHANGED vars
  BY <1>1 DEF vars
<1>2. CASE Forget \/ Tick
  BY <1>2 DEF Forget, Tick
<1>3. ASSUME NEW p \in Lookup, Step(p) PROVE TypeOK'
  <2>1. CASE Begin(p)
    BY <2>1 DEF Begin
  <2>2. CASE Hit(p)
    <3> DEFINE r == IF cache = Missing THEN None ELSE cache
    <3>1. r \in Maybe /\ Return(p, r) /\ UNCHANGED <<now, cache, until, marks>>
      BY <2>2 DEF Hit
    <3> HIDE DEF r
    <3> QED BY <3>1, ReturnTypes
  <2>3. CASE Ask(p)
    BY <2>3 DEF Ask
  <2>4. ASSUME NEW r \in Signed, Answer(p, r) PROVE TypeOK'
    <3> DEFINE f == [call[p] EXCEPT !.pc = "answered", !.rec = r]
    <3>1. f \in [pc : {"begun", "asked", "answered", "noted", "done"},
                 rec : Maybe, floor : Maybe, at : Nat]
      OBVIOUS
    <3>2. call' = [call EXCEPT ![p] = f] /\ UNCHANGED <<now, cache, until, marks, newest>>
      BY <2>4 DEF Answer
    <3> HIDE DEF f
    <3> QED BY <3>1, <3>2
  <2>5. CASE AnswerMissing(p)
    <3>1. now + NegativeTtl \in Nat
      BY ResolverAssumption
    <3>2. None \in Maybe /\ Return(p, None) /\ UNCHANGED <<now, marks>>
      BY <2>5 DEF AnswerMissing
    <3>3. cache' \in Maybe \union {Missing} /\ until' \in Nat
      BY <2>5, <3>1 DEF AnswerMissing
    <3> QED BY <3>2, <3>3, ReturnTypes
  <2>6. CASE LookupFails(p)
    BY <2>6, ReturnTypes DEF LookupFails
  <2>7. CASE Note(p)
    BY <2>7 DEF Note
  <2>8. CASE Refuse(p)
    BY <2>8, ReturnTypes DEF Refuse
  <2>9. CASE Keep(p)
    <3>1. call[p].rec \in Maybe /\ Return(p, call[p].rec) /\ UNCHANGED <<now, marks>>
      BY <2>9 DEF Keep
    <3>2. cache' \in Maybe \union {Missing} /\ until' \in Nat
      BY <2>9, <3>1 DEF Keep
    <3> QED BY <3>1, <3>2, ReturnTypes
  <2> QED BY <1>3, <2>1, <2>2, <2>3, <2>4, <2>5, <2>6, <2>7, <2>8, <2>9 DEF Step
<1> QED BY <1>1, <1>2, <1>3 DEF Next

(* The variables keep their types through any interleaving of lookups.     *)
THEOREM TypeCorrect == Spec => []TypeOK
<1>1. Init => TypeOK
  BY DEF Init, TypeOK, Maybe
<1> QED BY <1>1, NextTypeOK, PTL DEF Spec

-----------------------------------------------------------------------------
(* Record r is there, ranks no lower than s and has the same identity.     *)
Follows(r, s) == r # None /\ r.identity = s.identity /\ ~below(r, s)

(* What has been returned has been noted.                                  *)
NewestNoted == newest # None => Follows(marks, newest)

(* What is cached has been noted; without caching nothing is; and on one   *)
(* thread nothing newer than what is cached has been returned.             *)
CacheInv ==
    /\ ~Caching => cache = None
    /\ cache \in Signed => Follows(marks, cache)
    /\ cache \in Signed /\ ~Parallel /\ newest # None => Follows(cache, newest)

(* What lookup p has been given, and what had been returned before it.     *)
CallInv(p) ==
    /\ call[p].floor # None => Follows(newest, call[p].floor)
    /\ call[p].pc = "answered" => call[p].rec # None
    /\ call[p].pc = "noted" =>
          /\ call[p].rec # None
          /\ Follows(marks, call[p].rec)
          /\ ~Parallel => marks = call[p].rec
          /\ call[p].floor # None => Follows(call[p].rec, call[p].floor)
    /\ call[p].pc = "done" /\ call[p].rec # None =>
          /\ newest # None
          /\ Follows(newest, call[p].rec)
          /\ ~Parallel \/ ~Caching =>
                (call[p].floor # None => Follows(call[p].rec, call[p].floor))

(* On one thread a single lookup at a time is between marks and cache.     *)
OneNoted ==
    ~Parallel => \A p, q \in Lookup : call[p].pc = "noted" /\ call[q].pc = "noted" => p = q

ResInv ==
    /\ TypeOK
    /\ NewestNoted
    /\ CacheInv
    /\ \A p \in Lookup : CallInv(p)
    /\ OneNoted

(* Following is reflexive and transitive.                                  *)
LEMMA FollowsOrder ==
    /\ \A r \in Signed : Follows(r, r)
    /\ \A r, s, t \in Signed : Follows(r, s) /\ Follows(s, t) => Follows(r, t)
BY RankOrder, ResolverAssumption DEF Follows

(* Records that do not follow each other one way do the other way, if they *)
(* have the same identity.                                                 *)
LEMMA FollowsTotal ==
    ASSUME NEW r \in Signed, NEW s \in Signed, r.identity = s.identity
    PROVE  Follows(r, s) \/ Follows(s, r)
BY RankOrder, ResolverAssumption DEF Follows

(* A lookup that does not move keeps its invariant while the marks and     *)
(* what was returned only move up.                                         *)
LEMMA CallKept ==
    ASSUME TypeOK, TypeOK', NEW q \in Lookup, CallInv(q), call'[q] = call[q],
           newest # None => Follows(newest', newest),
           marks # None => Follows(marks', marks),
           call[q].pc = "noted" /\ ~Parallel => marks' = marks
    PROVE  CallInv(q)'
<1>1. /\ call[q].rec \in Maybe /\ call[q].floor \in Maybe
      /\ newest \in Maybe /\ newest' \in Maybe /\ marks \in Maybe /\ marks' \in Maybe
  BY DEF TypeOK, Maybe
<1>2. call[q].floor # None => Follows(newest', call[q].floor)
  BY <1>1, FollowsOrder DEF CallInv, Maybe, Follows
<1>3. call[q].pc = "noted" => Follows(marks', call[q].rec)
  BY <1>1, FollowsOrder DEF CallInv, Maybe, Follows
<1>4. call[q].pc = "done" /\ call[q].rec # None => newest' # None /\ Follows(newest', call[q].rec)
  BY <1>1, FollowsOrder DEF CallInv, Maybe, Follows
<1> QED BY <1>1, <1>2, <1>3, <1>4 DEF CallInv, Follows

(* Returning nothing, or a record that has been noted, moves what was      *)
(* returned only up.                                                       *)
LEMMA ReturnRises ==
    ASSUME TypeOK, NewestNoted, NEW p \in Lookup, NEW r \in Maybe, Return(p, r),
           r # None => Follows(marks, r)
    PROVE  /\ newest # None => Follows(newest', newest)
           /\ newest' # None => Follows(marks, newest')
           /\ r # None => newest' # None /\ Follows(newest', r)
           /\ r # None /\ (newest # None => Follows(r, newest)) => newest' = r
           /\ r = None => newest' = newest
<1>1. newest \in Maybe /\ marks \in Maybe
  BY DEF TypeOK
<1>2. newest # None /\ r # None => r.identity = newest.identity
  BY DEF NewestNoted, Follows
<1>3. CASE r = None
  BY <1>1, <1>3, FollowsOrder DEF Return, NewestNoted, Maybe
<1>4. CASE r # None /\ (newest # None => ~below(r, newest))
  <2>1. newest' = r
    BY <1>4 DEF Return
  <2> QED BY <1>1, <1>2, <1>4, <2>1, FollowsOrder, ResolverAssumption DEF Follows, Maybe
<1>5. CASE r # None /\ newest # None /\ below(r, newest)
  <2>1. newest' = newest
    BY <1>5 DEF Return
  <2>2. ~below(newest, r)
    BY <1>1, <1>5, RankOrder DEF Maybe
  <2>3. ~Follows(r, newest)
    BY <1>5 DEF Follows
  <2> QED BY <1>1, <1>2, <1>5, <2>1, <2>2, <2>3, FollowsOrder DEF Follows, Maybe, NewestNoted
<1> QED BY <1>3, <1>4, <1>5

(* A step of lookup p that leaves cache and marks alone and returns r.     *)
LEMMA ReturnKeeps ==
    ASSUME ResInv, TypeOK', NEW p \in Lookup, NEW r \in Maybe, Return(p, r), UNCHANGED marks,
           r # None => Follows(marks, r),
           r # None /\ (~Parallel \/ ~Caching) =>
               (call[p].floor # None => Follows(r, call[p].floor)),
           ~Caching => cache' = None,
           cache' \in Signed => Follows(marks, cache'),
           cache' \in Signed /\ ~Parallel /\ newest' # None => Follows(cache', newest')
    PROVE  ResInv'
<1> USE DEF ResInv
<1>1. /\ newest # None => Follows(newest', newest)
      /\ newest' # None => Follows(marks, newest')
      /\ r # None => newest' # None /\ Follows(newest', r)
      /\ r = None => newest' = newest
  BY ReturnRises
<1>2. marks # None => Follows(marks', marks)
  BY FollowsOrder DEF TypeOK, Maybe
<1>3. /\ \A q \in Lookup \ {p} : call'[q] = call[q]
      /\ call'[p].pc = "done" /\ call'[p].rec = r /\ call'[p].floor = call[p].floor
  BY DEF Return, TypeOK
<1>4. NewestNoted' /\ CacheInv'
  BY <1>1 DEF NewestNoted, CacheInv, Follows
<1>5. OneNoted'
  BY <1>3 DEF OneNoted
<1>6. CallInv(p)'
  <2>1. call[p].floor # None => Follows(newest', call[p].floor)
    <3>1. call[p].floor # None => Follows(newest, call[p].floor)
      BY DEF CallInv
    <3> QED BY <1>1, <3>1, FollowsOrder DEF TypeOK, Maybe, Follows
  <2> QED BY <1>1, <1>3, <2>1 DEF CallInv, Follows
<1>7. \A q \in Lookup \ {p} : CallInv(q)'
  BY <1>1, <1>2, <1>3, CallKept
<1> QED BY <1>4, <1>5, <1>6, <1>7

(* A step of lookup p on the way to an answer.                             *)
LEMMA WaitKeeps ==
    ASSUME ResInv, TypeOK', NEW p \in Lookup, UNCHANGED <<marks, newest>>, cache' \in {cache, None},
           \A q \in Lookup \ {p} : call'[q] = call[q],
           call'[p].pc \in {"begun", "asked", "answered"},
           call'[p].pc = "answered" => call'[p].rec # None,
           call'[p].floor \in {call[p].floor, newest}
    PROVE  ResInv'
<1> USE DEF ResInv
<1>1. /\ newest # None => Follows(newest', newest)
      /\ marks # None => Follows(marks', marks)
  BY FollowsOrder DEF TypeOK, Maybe
<1>2. NewestNoted' /\ CacheInv'
  BY ResolverAssumption DEF NewestNoted, CacheInv, Follows
<1>3. OneNoted'
  BY DEF OneNoted
<1>4. CallInv(p)'
  BY <1>1 DEF CallInv, Follows
<1>5. \A q \in Lookup \ {p} : CallInv(q)'
  BY <1>1, CallKept
<1> QED BY <1>2, <1>3, <1>4, <1>5

(* A record that passes note_rank follows the marks.                       *)
LEMMA NoteKeeps ==
    ASSUME ResInv, TypeOK', NEW p \in Lookup, Runs(p), Note(p)
    PROVE  ResInv'
<1> USE DEF ResInv
<1>1. /\ \A q \in Lookup \ {p} : call'[q] = call[q]
      /\ call'[p].pc = "noted" /\ call'[p].rec = call[p].rec /\ call'[p].floor = call[p].floor
      /\ call[p].rec \in Signed /\ call[p].floor \in Maybe
  BY DEF Note, TypeOK, CallInv, Maybe
<1>2. marks # None => Follows(marks', marks)
  BY <1>1, ResolverAssumption DEF Note, notable, Follows
<1>3. /\ marks' = call[p].rec /\ marks' \in Signed /\ UNCHANGED <<cache, newest>>
      /\ newest \in Maybe /\ marks \in Maybe
  BY <1>1 DEF Note, TypeOK
<1>4. newest # None => Follows(newest', newest) /\ Follows(marks', newest)
  BY <1>2, <1>3, FollowsOrder DEF NewestNoted, Maybe, Follows
<1>5. CacheInv' /\ NewestNoted'
  BY <1>2, <1>3, <1>4, FollowsOrder DEF CacheInv, NewestNoted, Maybe, Follows
<1>6. OneNoted'
  BY <1>1 DEF OneNoted, Runs
<1>7. CallInv(p)'
  <2>1. call[p].floor # None => Follows(newest, call[p].floor)
    BY DEF CallInv
  <2>2. call[p].floor # None => Follows(call[p].rec, call[p].floor)
    BY <1>1, <1>3, <1>4, <2>1, FollowsOrder DEF Maybe, Follows
  <2>3. Follows(marks', call[p].rec) /\ call[p].rec # None
    BY <1>1, <1>3, FollowsOrder, ResolverAssumption
  <2> QED BY <1>1, <1>3, <2>1, <2>2, <2>3 DEF CallInv, Follows
<1>8. \A q \in Lookup \ {p} : CallInv(q)'
  BY <1>1, <1>2, <1>4, CallKept DEF Runs
<1> QED BY <1>5, <1>6, <1>7, <1>8

(* Every step keeps the invariant.                                         *)
LEMMA NextResInv == ResInv /\ [Next]_vars => ResInv'
<1> SUFFICES ASSUME ResInv, [Next]_vars PROVE ResInv'
  OBVIOUS
<1>0. TypeOK /\ TypeOK'
  BY NextTypeOK DEF ResInv
<1>1. CASE UNCHANGED vars
  BY <1>1 DEF vars, ResInv, TypeOK, NewestNoted, CacheInv, CallInv, OneNoted, Follows
<1>2. CASE Forget
  <2>1. cache' = None /\ UNCHANGED <<marks, call, newest>>
    BY <1>2 DEF Forget
  <2>2. NewestNoted' /\ OneNoted'
    BY <2>1 DEF ResInv, NewestNoted, OneNoted, Follows
  <2>3. CacheInv' /\ \A p \in Lookup : CallInv(p)'
    BY <1>0, <2>1, ResolverAssumption DEF ResInv, CacheInv, CallInv, Follows
  <2> QED BY <1>0, <2>2, <2>3 DEF ResInv
<1>4. CASE Tick
  BY <1>0, <1>4 DEF Tick, ResInv, NewestNoted, CacheInv, CallInv, OneNoted, Follows
<1>3. ASSUME NEW p \in Lookup, Runs(p), Step(p) PROVE ResInv'
  <2>0. None \in Maybe
    BY DEF Maybe
  <2>1. CASE Begin(p)
    BY <1>0, <2>1, WaitKeeps DEF Begin, TypeOK
  <2>2. CASE Hit(p)
    <3> DEFINE r == IF cache = Missing THEN None ELSE cache
    <3>1. /\ Return(p, r) /\ UNCHANGED <<cache, marks>> /\ Caching /\ r \in Maybe
          /\ cache \in Signed \union {Missing} /\ newest \in Maybe /\ call[p].floor \in Maybe
      BY <1>0, <2>2 DEF Hit, answers, TypeOK, Maybe
    <3>2. r # None => r \in Signed /\ r = cache
      BY <3>1 DEF Maybe
    <3>3. r # None => Follows(marks, r)
      BY <3>2 DEF ResInv, CacheInv
    <3>4. r # None /\ ~Parallel => (newest # None => Follows(r, newest))
      BY <3>2 DEF ResInv, CacheInv
    <3>5. r # None /\ ~Parallel => (call[p].floor # None => Follows(r, call[p].floor))
      <4>1. call[p].floor # None => newest # None /\ Follows(newest, call[p].floor)
        BY DEF ResInv, CallInv, Follows
      <4> QED BY <3>1, <3>2, <3>4, <4>1, FollowsOrder DEF Maybe
    <3>6. cache' \in Signed /\ ~Parallel /\ newest' # None => Follows(cache', newest')
      <4>1. SUFFICES ASSUME cache \in Signed, ~Parallel PROVE newest' = cache
        BY <3>1, FollowsOrder
      <4>2. r = cache /\ r # None
        BY <4>1, ResolverAssumption
      <4> HIDE DEF r
      <4> QED BY <1>0, <3>1, <3>3, <3>4, <4>1, <4>2, ReturnRises DEF ResInv
    <3>7. cache' \in Signed => Follows(marks, cache')
      BY <3>1 DEF ResInv, CacheInv
    <3> HIDE DEF r
    <3> QED BY <1>0, <3>1, <3>3, <3>5, <3>6, <3>7, ReturnKeeps
  <2>3. CASE Ask(p)
    BY <1>0, <2>3, WaitKeeps DEF Ask, TypeOK
  <2>4. ASSUME NEW r \in Signed, Answer(p, r) PROVE ResInv'
    BY <1>0, <2>4, WaitKeeps, ResolverAssumption DEF Answer, TypeOK
  <2>5. CASE AnswerMissing(p)
    <3>1. Return(p, None) /\ UNCHANGED marks /\ cache' = IF Caching THEN Missing ELSE cache
      BY <2>5 DEF AnswerMissing
    <3>2. cache' \notin Signed /\ (~Caching => cache' = None)
      BY <3>1, ResolverAssumption DEF ResInv, CacheInv
    <3> QED BY <1>0, <2>0, <3>1, <3>2, ReturnKeeps
  <2>6. CASE LookupFails(p) \/ Refuse(p)
    <3>1. Return(p, None) /\ UNCHANGED <<cache, marks>>
      BY <2>6 DEF LookupFails, Refuse
    <3>2. newest' = newest
      BY <3>1 DEF Return
    <3>3. CacheInv
      BY DEF ResInv
    <3> QED BY <1>0, <2>0, <3>1, <3>2, <3>3, ReturnKeeps DEF CacheInv
  <2>7. CASE Note(p)
    BY <1>0, <1>3, <2>7, NoteKeeps
  <2>8. CASE Keep(p)
    <3> DEFINE r == call[p].rec
    <3>1. /\ Return(p, r) /\ UNCHANGED marks /\ cache' = IF Caching THEN r ELSE cache
          /\ r \in Signed /\ Follows(marks, r) /\ (~Parallel => marks = r)
          /\ call[p].floor # None => Follows(r, call[p].floor)
      BY <1>0, <2>8 DEF Keep, ResInv, CallInv, TypeOK, Maybe
    <3>2. ~Caching => cache' = None
      BY <3>1 DEF ResInv, CacheInv
    <3>3. cache' \in Signed => Follows(marks, cache')
      BY <3>1, <3>2, ResolverAssumption
    <3> HIDE DEF r
    <3>4. r # None /\ r \in Maybe
      BY <3>1, ResolverAssumption DEF Maybe
    <3>5. ~Parallel => newest' = r
      BY <1>0, <3>1, <3>4, ReturnRises DEF ResInv, NewestNoted
    <3>6. cache' \in Signed /\ ~Parallel /\ newest' # None => Follows(cache', newest')
      BY <3>1, <3>2, <3>5, FollowsOrder, ResolverAssumption
    <3> QED BY <1>0, <3>1, <3>2, <3>3, <3>4, <3>6, ReturnKeeps
  <2> QED BY <1>3, <2>1, <2>2, <2>3, <2>4, <2>5, <2>6, <2>7, <2>8 DEF Step
<1> QED BY <1>1, <1>2, <1>3, <1>4 DEF Next

(* The invariant holds at first.                                           *)
LEMMA InitResInv == Init => ResInv
BY ResolverAssumption
   DEF Init, ResInv, TypeOK, Maybe, NewestNoted, CacheInv, CallInv, OneNoted

(* "The identity behind the key.  It must never change" (resolver.rs:115): *)
(* whoever shares the resolver, on however many threads.                   *)
THEOREM IdentityKept == Spec => []OneIdentity
<1>1. ResInv => OneIdentity
  BY DEF ResInv, CallInv, OneIdentity, Follows
<1> QED BY <1>1, InitResInv, NextResInv, PTL DEF Spec

(* A resolver "refuses anything older" (README.md:273) than what it has    *)
(* returned, if it does not cache or its callers share one thread.         *)
THEOREM NeverOlder ==
    ASSUME ~Parallel \/ ~Caching
    PROVE  Spec => []NoDowngrade
<1>1. ResInv => NoDowngrade
  BY DEF ResInv, CallInv, NoDowngrade, Follows
<1> QED BY <1>1, InitResInv, NextResInv, PTL DEF Spec

-----------------------------------------------------------------------------
(* Time does not go back behind the start of a lookup, and what a lookup   *)
(* has been given had not expired when it was made.                        *)
FreshInv(p) ==
    /\ call[p].at <= now
    /\ call[p].pc \in {"answered", "noted", "done"} /\ call[p].rec # None =>
          call[p].rec.terminal \/ call[p].at < call[p].rec.expires_at

AllFresh == TypeOK /\ \A p \in Lookup : FreshInv(p)

(* A record that has not expired now had not at any earlier time.          *)
LEMMA UnexpiredBefore ==
    ASSUME NEW r \in Signed, now \in Nat, NEW t \in Nat, t <= now, ~is_expired(r)
    PROVE  r.terminal \/ t < r.expires_at
BY ResolverAssumption DEF is_expired

(* Every step keeps what lookups have been given fresh.                    *)
LEMMA NextAllFresh == AllFresh /\ [Next]_vars => AllFresh'
<1> SUFFICES ASSUME AllFresh, [Next]_vars PROVE AllFresh'
  OBVIOUS
<1>0. TypeOK /\ TypeOK'
  BY NextTypeOK DEF AllFresh
<1>1. CASE UNCHANGED vars \/ Forget
  <2>1. UNCHANGED <<now, call>>
    BY <1>1 DEF vars, Forget
  <2> QED BY <1>0, <2>1 DEF AllFresh, FreshInv
<1>2. CASE Tick
  <2>1. now' = now + 1 /\ call' = call /\ now \in Nat /\ \A p \in Lookup : call[p].at \in Nat
    BY <1>0, <1>2 DEF Tick, TypeOK
  <2> QED BY <1>0, <2>1 DEF AllFresh, FreshInv
<1>3. ASSUME NEW p \in Lookup, Step(p) PROVE AllFresh'
  <2>1. now' = now /\ now \in Nat /\ call[p].at \in Nat /\ call[p].rec \in Maybe
    BY <1>0, <1>3 DEF Step, Begin, Hit, Ask, Answer, AnswerMissing, LookupFails, Note, Refuse, Keep,
                      TypeOK
  <2>2. \A q \in Lookup \ {p} : call'[q] = call[q]
    BY <1>0, <1>3 DEF Step, Begin, Hit, Ask, Answer, AnswerMissing, LookupFails, Note, Refuse, Keep,
                      Return, TypeOK
  <2>3. FreshInv(p)
    BY DEF AllFresh
  <2>4. FreshInv(p)'
    <3>1. CASE Begin(p) \/ Ask(p)
      BY <1>0, <2>1, <2>3, <3>1 DEF Begin, Ask, FreshInv, TypeOK
    <3>2. CASE Hit(p)
      <4>1. /\ call'[p].at = call[p].at
            /\ call'[p].rec # None => call'[p].rec = cache /\ cache \in Signed /\ ~is_expired(cache)
        BY <1>0, <3>2 DEF Hit, Return, answers, TypeOK
      <4> QED BY <2>1, <2>3, <4>1, UnexpiredBefore DEF FreshInv
    <3>3. ASSUME NEW r \in Signed, Answer(p, r) PROVE FreshInv(p)'
      <4>1. call'[p].at = call[p].at /\ call'[p].rec = r /\ ~is_expired(r)
        BY <1>0, <3>3 DEF Answer, verify_answer, TypeOK
      <4> QED BY <2>1, <2>3, <4>1, UnexpiredBefore DEF FreshInv
    <3>4. CASE AnswerMissing(p) \/ LookupFails(p) \/ Refuse(p)
      <4>1. call'[p].at = call[p].at /\ call'[p].rec = None
        BY <1>0, <3>4 DEF AnswerMissing, LookupFails, Refuse, Return, TypeOK
      <4> QED BY <2>1, <2>3, <4>1 DEF FreshInv
    <3>5. CASE Note(p) \/ Keep(p)
      <4>1. /\ call'[p].at = call[p].at /\ call'[p].rec = call[p].rec
            /\ call[p].pc \in {"answered", "noted"}
        <5>1. CASE Note(p)
          BY <1>0, <5>1 DEF Note, TypeOK
        <5>2. CASE Keep(p)
          BY <1>0, <5>2 DEF Keep, Return, TypeOK
        <5> QED BY <3>5, <5>1, <5>2
      <4> QED BY <2>1, <2>3, <4>1 DEF FreshInv
    <3> QED BY <1>3, <3>1, <3>2, <3>3, <3>4, <3>5 DEF Step
  <2> QED BY <1>0, <2>1, <2>2, <2>4 DEF AllFresh, FreshInv
<1> QED BY <1>1, <1>2, <1>3 DEF Next

(* "Positive answers live until the record's own expiry" (cache.rs:3): no  *)
(* lookup returns a record that had expired when the lookup was made, for  *)
(* any number of callers, threads and records, cached or not.              *)
THEOREM NothingExpired == Spec => []FreshWhenMade
<1>1. Init => AllFresh
  BY DEF Init, AllFresh, FreshInv, TypeOK, Maybe
<1>2. AllFresh => FreshWhenMade
  BY DEF AllFresh, FreshInv, FreshWhenMade
<1> QED BY <1>1, <1>2, NextAllFresh, PTL DEF Spec
-----------------------------------------------------------------------------
(***************************************************************************)
(* Dial.                                                                   *)
(***************************************************************************)
(* The inductive invariant: the candidates are places of the answer, no    *)
(* timer of an attempt has passed unnoticed, an attempt that failed met no *)
(* server, and an outcome agrees with the attempts.                        *)
InTime(i) ==
    /\ attempt[i] = "sleeping" => clock <= due(i)
    /\ attempt[i] = "dialing" => clock <= over(i)
    /\ attempt[i] = "failed" => resolved[i].meets # "server"

DialInv ==
    /\ clock \in Nat
    /\ DOMAIN resolved \subseteq 1 .. MaxAnswers
    /\ candidates \subseteq DOMAIN resolved
    /\ dialed \in {"resolving", "unresolved", "racing", "connected", "unreachable"}
    /\ dialed = "resolving" => clock = 0
    /\ dialed = "racing" =>
          /\ attempt \in [candidates -> {"sleeping", "dialing", "failed"}]
          /\ \A i \in candidates : InTime(i)
    /\ OneConnection
    /\ ErrorMeansNobody

(* Finitely many candidates come before one.                               *)
LEMMA EarlierIsNat ==
    ASSUME NEW n \in Nat, NEW S, S \subseteq 1 .. n, NEW i
    PROVE  Cardinality({j \in S : j < i}) \in Nat
<1>1. IsFiniteSet(1 .. n)
  BY FS_Interval
<1>2. {j \in S : j < i} \subseteq 1 .. n
  OBVIOUS
<1>3. IsFiniteSet({j \in S : j < i})
  BY <1>1, <1>2, FS_Subset
<1> QED BY <1>3, FS_CardinalityType

(* The head start of an attempt, and its end, are times.                   *)
LEMMA DueIsNat ==
    ASSUME DOMAIN resolved \subseteq 1 .. MaxAnswers,
           candidates \subseteq DOMAIN resolved, NEW i
    PROVE  /\ before(i) \in Nat
           /\ due(i) \in Nat
           /\ over(i) \in Nat /\ due(i) <= over(i)
<1>1. MaxAnswers \in Nat /\ Delay \in Nat /\ Timeout \in Nat /\ Trip \in Nat
  BY DialAssumption DEF DialAssumption
<1>2. before(i) \in Nat
  <2>1. candidates \subseteq 1 .. MaxAnswers
    OBVIOUS
  <2>2. Cardinality({j \in candidates : j < i}) \in Nat
    BY <1>1, <2>1, EarlierIsNat, Zenon
  <2> QED BY <2>2 DEF before
<1>3. \A a, b \in Nat : a * b \in Nat
  OBVIOUS
<1>4. due(i) \in Nat
  BY <1>1, <1>2, <1>3 DEF due
<1> QED BY <1>1, <1>2, <1>4 DEF over

(* Every answer, timer, dial and tick keeps the invariant.                 *)
LEMMA NextDialInv ==
    ASSUME DialInv, [DialNext]_dialvars
    PROVE  DialInv'
<1>1. /\ clock \in Nat
      /\ DOMAIN resolved \subseteq 1 .. MaxAnswers /\ candidates \subseteq DOMAIN resolved
      /\ dialed = "resolving" => clock = 0
      /\ dialed = "racing" => /\ attempt \in [candidates -> {"sleeping", "dialing", "failed"}]
                              /\ \A i \in candidates : InTime(i)
  BY DEF DialInv
<1>2. CASE ResolveFails
  <2>1. UNCHANGED <<resolved, candidates, attempt, clock>> /\ dialed' = "unresolved"
    BY <1>2 DEF ResolveFails, asked
  <2> QED BY <1>1, <2>1 DEF DialInv, OneConnection, ErrorMeansNobody
<1>3. CASE Resolve
  <2> DEFINE C == worth_trying(resolve(resolved))
  <2>1. /\ dialed = "resolving" /\ dialed' = "racing" /\ UNCHANGED <<resolved, clock>>
        /\ candidates' = C /\ attempt' = [i \in C |-> "sleeping"]
    BY <1>3 DEF Resolve, asked
  <2>2. C \subseteq DOMAIN resolved
    BY DEF worth_trying, resolve
  <2> HIDE DEF C
  <2>3. \A i : due(i)' \in Nat
    <3> TAKE i
    <3>1. C \subseteq 1 .. MaxAnswers /\ MaxAnswers \in Nat /\ Delay \in Nat
      BY <1>1, <2>2, DialAssumption DEF DialAssumption
    <3>2. Cardinality({j \in C : j < i}) \in Nat
      BY <3>1, EarlierIsNat, Zenon
    <3>3. due(i)' = Cardinality({j \in C : j < i}) * Delay
      BY <2>1, Zenon DEF due, before
    <3> QED BY <3>1, <3>2, <3>3
  <2>4. \A i \in candidates' : InTime(i)'
    BY <1>1, <2>1, <2>3 DEF InTime
  <2> QED BY <1>1, <2>1, <2>2, <2>4 DEF DialInv, OneConnection, ErrorMeansNobody
<1>4. ASSUME NEW i \in DOMAIN attempt, Dials(i)
      PROVE  DialInv'
  <2>1. /\ dialed = "racing" /\ attempt[i] = "sleeping" /\ clock >= due(i)
        /\ attempt' = [attempt EXCEPT ![i] = "dialing"]
        /\ UNCHANGED <<resolved, candidates, clock, dialed>>
    BY <1>4 DEF Dials, asked
  <2>2. i \in candidates /\ attempt' \in [candidates -> {"sleeping", "dialing", "failed"}]
    BY <1>1, <2>1
  <2>3. clock <= over(i)
    BY <1>1, <2>1, <2>2, DueIsNat DEF InTime
  <2>4. \A j \in candidates : InTime(j)'
    BY <1>1, <2>1, <2>2, <2>3 DEF InTime, due, over, before
  <2> QED BY <1>1, <2>1, <2>2, <2>4 DEF DialInv, OneConnection, ErrorMeansNobody
<1>5. ASSUME NEW i \in DOMAIN attempt, Connects(i)
      PROVE  DialInv'
  <2>1. /\ dialed = "racing" /\ dialed' = "connected"
        /\ attempt' = [j \in DOMAIN attempt |->
                         IF j = i THEN "connected"
                         ELSE IF attempt[j] = "failed" THEN "failed" ELSE "aborted"]
        /\ UNCHANGED <<resolved, candidates, clock>>
    BY <1>5 DEF Connects, asked
  <2>2. OneConnection'
    BY <2>1 DEF OneConnection
  <2> QED BY <1>1, <2>1, <2>2 DEF DialInv, ErrorMeansNobody
<1>6. ASSUME NEW i \in DOMAIN attempt, Fails(i)
      PROVE  DialInv'
  <2>1. /\ dialed = "racing" /\ resolved[i].meets # "server"
        /\ attempt' = [attempt EXCEPT ![i] = "failed"]
        /\ dialed' = IF \A j \in DOMAIN attempt' : attempt'[j] = "failed"
                     THEN "unreachable" ELSE dialed
        /\ UNCHANGED <<resolved, candidates, clock>>
    BY <1>6 DEF Fails, asked
  <2>2. i \in candidates /\ attempt' \in [candidates -> {"sleeping", "dialing", "failed"}]
        /\ DOMAIN attempt' = candidates
    BY <1>1, <2>1
  <2>3. \A j \in candidates : InTime(j)'
    BY <1>1, <2>1, <2>2 DEF InTime, due, over, before
  <2>4. ErrorMeansNobody'
    BY <2>1, <2>2, <2>3 DEF ErrorMeansNobody, InTime
  <2> QED BY <1>1, <2>1, <2>2, <2>3, <2>4 DEF DialInv, OneConnection
<1>7. CASE Elapse
  <2>1. /\ dialed = "racing" /\ clock' = clock + 1
        /\ UNCHANGED <<resolved, candidates, attempt, dialed>>
        /\ \A i \in DOMAIN attempt : /\ attempt[i] = "sleeping" => clock < due(i)
                                     /\ attempt[i] = "dialing" => clock < over(i)
    BY <1>7 DEF Elapse, asked
  <2>2. DOMAIN attempt = candidates
    BY <1>1, <2>1
  <2>3. ASSUME NEW i \in candidates PROVE InTime(i)'
    <3>1. due(i) \in Nat /\ over(i) \in Nat /\ due(i)' = due(i) /\ over(i)' = over(i)
      BY <1>1, <2>1, DueIsNat DEF due, over, before
    <3> QED BY <1>1, <2>1, <2>2, <3>1 DEF InTime
  <2> QED BY <1>1, <2>1, <2>3 DEF DialInv, OneConnection, ErrorMeansNobody
<1>8. CASE UNCHANGED dialvars
  BY <1>8 DEF dialvars, DialInv, InTime, OneConnection, ErrorMeansNobody, due, over, before
<1> QED BY <1>2, <1>3, <1>4, <1>5, <1>6, <1>7, <1>8 DEF DialNext

(* The race keeps its invariant.                                           *)
LEMMA AlwaysDialInv == DialSpec => []DialInv
<1>1. DialInit => DialInv
  <2> SUFFICES ASSUME DialInit PROVE DialInv
    OBVIOUS
  <2>1. PICK n \in 0 .. MaxAnswers : resolved \in [1 .. n -> Address]
    BY DEF DialInit
  <2>2. DOMAIN resolved \subseteq 1 .. MaxAnswers
    BY <2>1, DialAssumption DEF DialAssumption
  <2> QED BY <2>2 DEF DialInit, DialInv, OneConnection, ErrorMeansNobody
<1>2. DialInv /\ [DialNext]_dialvars => DialInv'
  BY NextDialInv
<1> QED BY <1>1, <1>2, PTL DEF DialSpec

(* connect_with returns one connection, and no dial goes on besides it.    *)
THEOREM ConnectionIsOne == DialSpec => []OneConnection
<1>1. DialInv => OneConnection
  BY DEF DialInv
<1> QED BY <1>1, AlwaysDialInv, PTL

(* connect_with gives up only when no server is behind any of the          *)
(* addresses it tried.                                                     *)
THEOREM ErrorsAreReal == DialSpec => []ErrorMeansNobody
<1>1. DialInv => ErrorMeansNobody
  BY DEF DialInv
<1> QED BY <1>1, AlwaysDialInv, PTL

(* While a race is on, no more time has passed than the head starts before *)
(* a server that is there, and its handshake: addresses that are dead cost *)
(* a head start each, however many there are.                              *)
THEOREM DeadAreCheap == DialSpec => []DeadCostLittle
<1>1. ASSUME DialInv, dialed = "racing", NEW i \in candidates, resolved[i].meets = "server"
      PROVE  clock <= before(i) * Delay + Trip
  <2>1. InTime(i) /\ attempt[i] \in {"sleeping", "dialing", "failed"} /\ clock \in Nat
    BY <1>1 DEF DialInv
  <2>2. due(i) \in Nat /\ Trip \in Nat
    BY <1>1, DueIsNat, DialAssumption DEF DialInv, DialAssumption
  <2>3. clock <= due(i) + Trip
    BY <1>1, <2>1, <2>2 DEF InTime, over
  <2> QED BY <2>3 DEF due
<1>2. DialInv => DeadCostLittle
  BY <1>1 DEF DeadCostLittle
<1> QED BY <1>2, AlwaysDialInv, PTL

-----------------------------------------------------------------------------
(***************************************************************************)
(* Walk.                                                                   *)
(***************************************************************************)
(* A set of numbers has a least one.                                       *)
LEMMA LeastNumber ==
    ASSUME NEW T \in SUBSET Nat, T # {}
    PROVE  \E x \in T : \A y \in T : x <= y
<1> DEFINE R == OpToRel(<, Nat)
<1>1. IsWellFoundedOn(R, Nat)
  BY NatLessThanWellFounded
<1>2. \A x, y \in Nat : x < y => <<x, y>> \in R
  BY DEF OpToRel
<1> HIDE DEF R
<1>3. PICK x \in T : \A y \in T : ~(<<y, x>> \in R)
  BY <1>1, WFMin
<1>4. \A y \in T : x <= y
  <2> TAKE y \in T
  <2>1. x \in Nat /\ y \in Nat
    OBVIOUS
  <2>2. ~(y < x)
    BY <1>2, <1>3, <2>1, Zenon
  <2> QED BY <2>1, <2>2
<1> QED BY <1>4, Zenon

(* What holds of 0, and of a number up to n when it holds of the one       *)
(* before, holds of all numbers up to n.                                   *)
LEMMA UpTo ==
    ASSUME NEW n \in Nat, NEW S, 0 \in S,
           \A i \in 1 .. n : i - 1 \in S => i \in S
    PROVE  0 .. n \subseteq S
<1> SUFFICES ASSUME ~(0 .. n \subseteq S) PROVE FALSE
  OBVIOUS
<1> DEFINE T == {i \in 0 .. n : i \notin S}
<1>1. T \in SUBSET Nat /\ T # {}
  OBVIOUS
<1>2. PICK x \in T : \A y \in T : x <= y
  BY <1>1, LeastNumber
<1>3. x \in 0 .. n /\ x \notin S /\ x # 0
  BY <1>2
<1>4. x \in 1 .. n /\ x - 1 \in 0 .. n /\ x - 1 < x
  BY <1>3
<1>5. x - 1 \in S
  BY <1>2, <1>4
<1> QED BY <1>3, <1>4, <1>5

(* The records that forward are the ones to another key.                   *)
LEMMA KindsApart ==
    ASSUME NEW k \in Key, NEW r \in RecordsOf(k)
    PROVE  /\ r.kind = "live" => r = Live
           /\ r.kind = "revoked" => r = Revoked
           /\ r.kind = "superseded" => r.successor \in Key /\ r = To(r.successor)
BY DEF RecordsOf, Live, Revoked, To

(* No record is of two kinds, and one names one successor.                 *)
LEMMA RecordsApart ==
    /\ Live # Revoked
    /\ \A k : To(k) # Live /\ To(k) # Revoked
    /\ \A k, n : To(k) = To(n) => k = n
BY DEF Live, Revoked, To

(***************************************************************************)
(* The inductive invariant: the keys result through and the one reached    *)
(* are a path of forwarding records, visited are its keys, the rounds left *)
(* and those used add up, and an outcome has its record.                   *)
(***************************************************************************)
PathOf(c, k) ==
    LET path == Append(c, k) IN
    /\ path[1] = requested
    /\ \A i \in 1 .. Len(c) : forwards(path[i], path[i + 1])

Passed(c, k) == {Append(c, k)[i] : i \in 1 .. Len(c) + 1}

WalkTypes ==
    /\ \A k \in Key : signed[k] \subseteq RecordsOf(k)
    /\ requested \in Key
    /\ current \in Key
    /\ chain \in Seq(Key)
    /\ left \in Nat
    /\ left + Len(chain) = MaxHops
    /\ prefetched \in signed[current] \union {NoRecord}

Outcome ==
    /\ result \in {"ordering", "found"} => Live \in signed[current]
    /\ result = "revoked" => Revoked \in signed[current]
    /\ result = "cycle" => \E n \in Passed(chain, current) : forwards(current, n)
    /\ result = "too_long" => left = 0

WalkInv ==
    /\ WalkTypes
    /\ PathOf(chain, current)
    /\ visited = Passed(chain, current)
    /\ Outcome

(* One more key.                                                           *)
LEMMA PathGrows ==
    ASSUME NEW c \in Seq(Key), NEW k \in Key, NEW n \in Key, PathOf(c, k), forwards(k, n)
    PROVE  /\ Append(c, k) \in Seq(Key) /\ Len(Append(c, k)) = Len(c) + 1
           /\ PathOf(Append(c, k), n)
           /\ Passed(Append(c, k), n) = Passed(c, k) \union {n}
<1> DEFINE p == Append(c, k)
           q == Append(p, n)
<1>1. p \in Seq(Key) /\ Len(p) = Len(c) + 1 /\ q \in Seq(Key) /\ Len(q) = Len(p) + 1
  OBVIOUS
<1>2. (\A i \in 1 .. Len(p) : q[i] = p[i]) /\ q[Len(p) + 1] = n /\ p[Len(c) + 1] = k
  OBVIOUS
<1>3. p[1] = requested /\ \A i \in 1 .. Len(c) : forwards(p[i], p[i + 1])
  BY DEF PathOf
<1>4. Passed(c, k) = {p[i] : i \in 1 .. Len(c) + 1} /\ Passed(p, n) = {q[i] : i \in 1 .. Len(p) + 1}
  BY DEF Passed
<1>5. PathOf(p, n) <=> q[1] = requested /\ \A i \in 1 .. Len(p) : forwards(q[i], q[i + 1])
  BY DEF PathOf
<1>6. Len(c) \in Nat
  OBVIOUS
<1> HIDE DEF p, q
<1>7. \A i \in 1 .. Len(p) : forwards(q[i], q[i + 1])
  <2> TAKE i \in 1 .. Len(p)
  <2>1. CASE i \in 1 .. Len(c)
    <3>1. i \in 1 .. Len(p) /\ i + 1 \in 1 .. Len(p)
      BY <1>1, <1>6, <2>1
    <3> QED BY <1>2, <1>3, <2>1, <3>1
  <2>2. CASE i = Len(c) + 1
    BY <1>1, <1>2, <2>2
  <2> QED BY <1>1, <1>6, <2>1, <2>2
<1>8. q[1] = requested
  BY <1>1, <1>2, <1>3, <1>6
<1>9. Passed(p, n) = Passed(c, k) \union {n}
  BY <1>1, <1>2, <1>4, <1>6
<1>10. PathOf(p, n)
  BY <1>5, <1>7, <1>8
<1> QED BY <1>1, <1>9, <1>10 DEF p

(* A walk that stays at its key, with an outcome that has its record.      *)
LEMMA EndStep ==
    ASSUME WalkInv, NEW r, End(r), Outcome'
    PROVE  WalkInv'
<1>1. UNCHANGED <<signed, requested, current, visited, chain, left>> /\ prefetched' = NoRecord
  BY DEF End, world
<1>2. WalkTypes'
  BY <1>1 DEF WalkInv, WalkTypes, RecordsOf, Live, Revoked, To
<1>3. PathOf(chain, current)' /\ (visited = Passed(chain, current))'
  BY <1>1 DEF WalkInv, PathOf, Passed, forwards, To
<1> QED BY <1>2, <1>3 DEF WalkInv

(* What fetch returns was signed for the key, or is no record.             *)
LEMMA FetchedIsSigned ==
    ASSUME WalkInv, NEW r \in fetched, r # NoRecord
    PROVE  r \in signed[current] /\ r \in RecordsOf(current)
BY DEF WalkInv, WalkTypes, fetched, offered

(* A rotation is followed.                                                 *)
LEMMA FollowStep ==
    ASSUME WalkInv, result = "walking", left > 0, NEW r \in fetched, Follow(r)
    PROVE  WalkInv'
<1> DEFINE n == r.successor
<1>1. /\ r # NoRecord /\ r.kind = "superseded"
      /\ visited' = visited \union {n}
      /\ chain' = Append(chain, current)
      /\ prefetched' \in signed[n] \union {NoRecord}
      /\ current' = n
      /\ left' = left - 1
      /\ UNCHANGED <<signed, requested, result>>
  BY DEF Follow, world
<1>2. r \in signed[current] /\ r \in RecordsOf(current)
  BY <1>1, FetchedIsSigned
<1>3. n \in Key /\ forwards(current, n)
  BY <1>1, <1>2, KindsApart DEF forwards, WalkInv, WalkTypes
<1>4. chain \in Seq(Key) /\ current \in Key /\ PathOf(chain, current) /\ visited = Passed(chain, current)
  BY DEF WalkInv, WalkTypes
<1> HIDE DEF n
<1>5. /\ chain' \in Seq(Key) /\ Len(chain') = Len(chain) + 1
      /\ PathOf(Append(chain, current), n)
      /\ Passed(Append(chain, current), n) = Passed(chain, current) \union {n}
  BY <1>1, <1>3, <1>4, PathGrows
<1>6. left' \in Nat /\ left' + Len(chain') = MaxHops
  <2>1. left \in Nat /\ left + Len(chain) = MaxHops /\ left > 0
    BY DEF WalkInv, WalkTypes
  <2>2. Len(chain) \in Nat
    BY <1>4
  <2>3. left' = left - 1 /\ Len(chain') = Len(chain) + 1
    BY <1>1, <1>5
  <2> QED BY <2>1, <2>2, <2>3
<1>7. WalkTypes'
  <2>1. (\A k \in Key : signed[k] \subseteq RecordsOf(k)) /\ requested \in Key
    BY DEF WalkInv, WalkTypes
  <2>2. \A k : RecordsOf(k)' = RecordsOf(k)
    BY Zenon DEF RecordsOf, Live, Revoked, To
  <2>3. (\A k \in Key : signed[k] \subseteq RecordsOf(k))'
    BY <1>1, <2>1, <2>2, Zenon
  <2>4. (prefetched \in signed[current] \union {NoRecord})'
    BY <1>1, Zenon
  <2>5. (requested \in Key /\ current \in Key /\ chain \in Seq(Key))'
    BY <1>1, <1>3, <1>5, <2>1, Zenon
  <2> QED BY <1>6, <2>3, <2>4, <2>5, Zenon DEF WalkTypes
<1>8. PathOf(chain, current)' /\ (visited = Passed(chain, current))'
  BY <1>1, <1>4, <1>5 DEF PathOf, Passed, forwards, To
<1>9. Outcome'
  BY <1>1 DEF Outcome
<1> QED BY <1>7, <1>8, <1>9 DEF WalkInv

(* Every round, end and draw keeps the invariant.                          *)
LEMMA NextWalkInv ==
    ASSUME WalkInv, [WalkNext]_walkvars
    PROVE  WalkInv'
<1>1. ASSUME NEW r \in fetched, Arrive(r)
      PROVE  WalkInv'
  <2>1. r # NoRecord /\ r.kind = "live" /\ End("ordering")
    BY <1>1 DEF Arrive
  <2>2. Live \in signed[current]
    BY <2>1, FetchedIsSigned, KindsApart DEF WalkInv, WalkTypes
  <2>3. Outcome'
    BY <2>1, <2>2 DEF Outcome, End, world, Live
  <2> QED BY <2>1, <2>3, EndStep
<1>2. ASSUME NEW r \in fetched, Unpublished(r)
      PROVE  WalkInv'
  <2>1. Outcome'
    BY <1>2 DEF Unpublished, End, Outcome
  <2> QED BY <1>2, <2>1, EndStep DEF Unpublished
<1>3. ASSUME NEW r \in fetched, Dead(r)
      PROVE  WalkInv'
  <2>1. r # NoRecord /\ r.kind = "revoked" /\ End("revoked")
    BY <1>3 DEF Dead
  <2>2. Revoked \in signed[current]
    BY <2>1, FetchedIsSigned, KindsApart DEF WalkInv, WalkTypes
  <2>3. Outcome'
    BY <2>1, <2>2 DEF Outcome, End, world, Revoked
  <2> QED BY <2>1, <2>3, EndStep
<1>4. ASSUME NEW r \in fetched, Cycle(r)
      PROVE  WalkInv'
  <2>1. r # NoRecord /\ r.kind = "superseded" /\ r.successor \in visited /\ End("cycle")
    BY <1>4 DEF Cycle
  <2>2. forwards(current, r.successor) /\ r.successor \in Passed(chain, current)
    BY <2>1, FetchedIsSigned, KindsApart DEF WalkInv, WalkTypes, forwards
  <2>3. UNCHANGED <<signed, chain, current>> /\ result' = "cycle"
    BY <2>1 DEF End, world
  <2>4. Outcome'
    BY <2>2, <2>3 DEF Outcome, Passed, forwards, To
  <2> QED BY <2>1, <2>4, EndStep
<1>5. CASE Round
  BY <1>1, <1>2, <1>3, <1>4, <1>5, FollowStep DEF Round
<1>6. CASE FetchFails
  <2>1. Outcome'
    BY <1>6 DEF FetchFails, End, Outcome
  <2> QED BY <1>6, <2>1, EndStep DEF FetchFails
<1>7. CASE TooLong
  <2>1. Outcome'
    BY <1>7 DEF TooLong, End, Outcome
  <2> QED BY <1>7, <2>1, EndStep DEF TooLong
<1>8. CASE Ordered
  <2>1. result = "ordering" /\ End("found")
    BY <1>8 DEF Ordered
  <2>2. Outcome'
    BY <2>1 DEF WalkInv, End, world, Outcome, Live
  <2> QED BY <2>1, <2>2, EndStep
<1>9. CASE Order \/ UNCHANGED walkvars
  <2>1. UNCHANGED <<signed, requested, current, visited, chain, left, prefetched, result>>
    BY <1>9 DEF Order, walkvars, walk
  <2> QED BY <2>1 DEF WalkInv, WalkTypes, PathOf, Passed, Outcome, forwards, RecordsOf,
                      Live, Revoked, To
<1> QED BY <1>5, <1>6, <1>7, <1>8, <1>9 DEF WalkNext

(* The invariant holds from the first round on.                            *)
LEMMA AlwaysWalkInv == WalkSpec => []WalkInv
<1>1. WalkInit => WalkInv
  <2> SUFFICES ASSUME WalkInit PROVE WalkInv
    OBVIOUS
  <2>1. /\ \A k \in Key : signed[k] \subseteq RecordsOf(k)
        /\ requested \in Key /\ current = requested /\ visited = {requested} /\ chain = <<>>
        /\ left = MaxHops /\ prefetched = NoRecord /\ result = "walking"
    BY DEF WalkInit
  <2>2. chain \in Seq(Key) /\ Len(chain) = 0 /\ Append(chain, current)[1] = requested
    BY <2>1
  <2>3. WalkTypes
    <3>1. left \in Nat /\ left + Len(chain) = MaxHops
      BY <2>1, <2>2, WalkAssumption DEF WalkAssumption
    <3>2. prefetched \in signed[current] \union {NoRecord} /\ current \in Key
      BY <2>1, Zenon
    <3> QED BY <2>1, <2>2, <3>1, <3>2, Zenon DEF WalkTypes
  <2>4. PathOf(chain, current) /\ visited = Passed(chain, current)
    BY <2>1, <2>2 DEF PathOf, Passed
  <2> QED BY <2>1, <2>3, <2>4 DEF WalkInv, Outcome
<1>2. WalkInv /\ [WalkNext]_walkvars => WalkInv'
  BY NextWalkInv
<1> QED BY <1>1, <1>2, PTL DEF WalkSpec

(* resolve_service reports the path it took: superseded_from leads from    *)
(* the key asked for to the one reached, every key named by a record of    *)
(* the one before, and a key that was found has a live record.             *)
THEOREM PathsAreReal == WalkSpec => []PathIsReal
<1>1. WalkInv => PathIsReal
  BY DEF WalkInv, PathOf, Outcome, PathIsReal
<1> QED BY <1>1, AlwaysWalkInv, PTL

(* The cycle error is given for a cycle of the records that the walk went  *)
(* round.                                                                  *)
THEOREM CyclesAreReal == WalkSpec => []CycleIsReal
<1>1. WalkInv => CycleIsReal
  <2> SUFFICES ASSUME WalkInv, result = "cycle" PROVE CycleIsReal
    BY DEF CycleIsReal
  <2>1. chain \in Seq(Key) /\ current \in Key
    BY DEF WalkInv, WalkTypes
  <2>2. Len(Append(chain, current)) = Len(chain) + 1
    BY <2>1
  <2>3. PICK n \in Passed(chain, current) : forwards(current, n)
    BY DEF WalkInv, Outcome
  <2> QED BY <2>2, <2>3 DEF Passed, CycleIsReal
<1> QED BY <1>1, AlwaysWalkInv, PTL

(* The keys of the path: all but the last one forward to the next.         *)
LEMMA PathKeys ==
    ASSUME WalkInv
    PROVE  /\ \A i \in 1 .. Len(chain) + 1 : Append(chain, current)[i] \in Key
           /\ Append(chain, current)[Len(chain) + 1] = current
           /\ Len(chain) \in Nat
           /\ \A m \in visited : m = current \/ \E n \in visited : forwards(m, n)
<1> DEFINE path == Append(chain, current)
<1>1. chain \in Seq(Key) /\ current \in Key /\ Len(chain) \in Nat
  BY DEF WalkInv, WalkTypes
<1>2. path \in Seq(Key) /\ Len(path) = Len(chain) + 1 /\ path[Len(chain) + 1] = current
  BY <1>1
<1>3. \A i \in 1 .. Len(chain) : forwards(path[i], path[i + 1])
  BY DEF WalkInv, PathOf
<1>4. visited = {path[i] : i \in 1 .. Len(chain) + 1}
  BY DEF WalkInv, Passed
<1> HIDE DEF path
<1>5. ASSUME NEW m \in visited, m # current
      PROVE  \E n \in visited : forwards(m, n)
  <2>1. PICK i \in 1 .. Len(chain) + 1 : m = path[i]
    BY <1>4
  <2>2. i \in 1 .. Len(chain) /\ i + 1 \in 1 .. Len(chain) + 1
    BY <1>1, <1>2, <1>5, <2>1
  <2> QED BY <1>3, <1>4, <2>1, <2>2
<1>6. \A i \in 1 .. Len(chain) + 1 : path[i] \in Key
  BY <1>1, <1>2
<1> QED BY <1>1, <1>2, <1>5, <1>6 DEF path

(* Each key has one record.                                                *)
Single == \A k \in Key : \A r, s \in signed[k] : r = s

(* The rotations p lead from the requested key to m.                       *)
Route(p, n, m) ==
    /\ p \in [0 .. n -> Key]
    /\ p[0] = requested
    /\ p[n] = m
    /\ \A i \in 1 .. n : forwards(p[i - 1], p[i])

(* A key forwards to one other, and then it does not live.                 *)
LEMMA OneSuccessor ==
    ASSUME Single, NEW k \in Key, NEW n, forwards(k, n)
    PROVE  /\ \A m : forwards(k, m) => m = n
           /\ Live \notin signed[k] /\ Revoked \notin signed[k]
BY RecordsApart DEF Single, forwards

(* A set of keys that contains the requested one, and with a key the one   *)
(* it forwards to, contains all that rotations lead to.                    *)
LEMMA ClosedSet ==
    ASSUME NEW V, requested \in V, NEW n \in Nat, NEW m, NEW p, Route(p, n, m),
           \A k \in V \intersect Key : \A j : forwards(k, j) => j \in V
    PROVE  m \in V
<1> DEFINE S == {i \in 0 .. n : p[i] \in V}
<1>1. /\ p \in [0 .. n -> Key] /\ p[0] = requested /\ p[n] = m
      /\ \A i \in 1 .. n : forwards(p[i - 1], p[i])
  BY DEF Route
<1>2. 0 \in S
  BY <1>1
<1>3. ASSUME NEW i \in 1 .. n, i - 1 \in S PROVE i \in S
  <2>1. p[i - 1] \in V \intersect Key /\ forwards(p[i - 1], p[i]) /\ i \in 0 .. n
    BY <1>1, <1>3
  <2>2. p[i] \in V
    BY <2>1
  <2> QED BY <2>1, <2>2
<1>4. 0 .. n \subseteq S
  <2> HIDE DEF S
  <2> QED BY <1>2, <1>3, UpTo
<1>5. n \in 0 .. n
  OBVIOUS
<1> QED BY <1>1, <1>4, <1>5

(* Rotations from the requested key follow the path as long as it goes on. *)
LEMMA RouteOnPath ==
    ASSUME WalkInv, Single, NEW n \in Nat, n <= Len(chain), NEW m, NEW p, Route(p, n, m)
    PROVE  m = Append(chain, current)[n + 1]
<1> DEFINE path == Append(chain, current)
           S == {i \in 0 .. n : p[i] = path[i + 1]}
<1>1. /\ p[0] = requested /\ p[n] = m
      /\ \A i \in 1 .. n : forwards(p[i - 1], p[i])
  BY DEF Route
<1>2. /\ path[1] = requested
      /\ \A i \in 1 .. Len(chain) : forwards(path[i], path[i + 1])
  BY DEF WalkInv, PathOf
<1>3. Len(chain) \in Nat /\ \A i \in 1 .. Len(chain) + 1 : path[i] \in Key
  BY PathKeys
<1> HIDE DEF path
<1>4. 0 \in S
  BY <1>1, <1>2
<1>5. ASSUME NEW i \in 1 .. n, i - 1 \in S PROVE i \in S
  <2>1. i \in Nat /\ i \in 1 .. Len(chain) /\ i \in 0 .. n /\ i - 1 + 1 = i
    BY <1>3
  <2>2. p[i - 1] = path[i]
    BY <1>5, <2>1
  <2>3. forwards(path[i], p[i]) /\ forwards(path[i], path[i + 1]) /\ path[i] \in Key
    BY <1>1, <1>2, <1>3, <2>1, <2>2
  <2>4. p[i] = path[i + 1]
    BY <2>3, OneSuccessor
  <2> QED BY <2>1, <2>4
<1>6. 0 .. n \subseteq S
  <2> HIDE DEF S
  <2> QED BY <1>4, <1>5, UpTo
<1>7. n \in 0 .. n
  OBVIOUS
<1> QED BY <1>1, <1>6, <1>7 DEF path

(* With one record to a key, a walk that gave up had no living key within  *)
(* MAX_SUPERSEDE_HOPS - 1 rotations, whatever was withheld from it.        *)
THEOREM LivingAreFound == WalkSpec => []FollowsBelowLimit
<1>1. ASSUME WalkInv, Single, result \in {"revoked", "cycle", "too_long"},
             NEW m \in Key, Live \in signed[m],
             NEW n \in 0 .. MaxHops - 1, NEW p, Route(p, n, m)
      PROVE  FALSE
  <2>1. n \in Nat /\ n <= MaxHops - 1
    BY WalkAssumption DEF WalkAssumption
  <2>2. /\ requested \in Key /\ current \in Key /\ left + Len(chain) = MaxHops
        /\ visited = Passed(chain, current) /\ PathOf(chain, current)
    BY <1>1 DEF WalkInv, WalkTypes
  <2>3. Len(chain) \in Nat /\ requested \in visited
    BY <1>1, <2>2, PathKeys DEF PathOf, Passed
  <2>4. ASSUME \A j : forwards(current, j) => j \in visited
        PROVE  m \in visited
    <3>1. ASSUME NEW k \in visited \intersect Key, NEW j, forwards(k, j)
          PROVE  j \in visited
      BY <1>1, <2>4, <3>1, PathKeys, OneSuccessor
    <3> QED BY <1>1, <2>1, <2>3, <3>1, ClosedSet
  <2>5. ASSUME m \in visited PROVE m = current
    BY <1>1, <2>5, PathKeys, OneSuccessor
  <2>6. CASE result = "revoked"
    <3>1. Revoked \in signed[current]
      BY <1>1, <2>6 DEF WalkInv, Outcome
    <3>2. \A j : ~forwards(current, j)
      BY <1>1, <2>2, <3>1, OneSuccessor
    <3>3. m = current
      BY <2>4, <2>5, <3>2
    <3> QED BY <1>1, <3>1, <3>3, RecordsApart DEF Single
  <2>7. CASE result = "cycle"
    <3>1. PICK j \in visited : forwards(current, j)
      BY <1>1, <2>2, <2>7 DEF WalkInv, Outcome
    <3>2. \A i : forwards(current, i) => i \in visited
      BY <1>1, <2>2, <3>1, OneSuccessor
    <3>3. m = current
      BY <2>4, <2>5, <3>2
    <3> QED BY <1>1, <3>1, <3>3, OneSuccessor
  <2>8. CASE result = "too_long"
    <3>1. Len(chain) = MaxHops
      <4>1. left = 0
        BY <1>1, <2>8 DEF WalkInv, Outcome
      <4> QED BY <2>2, <2>3, <4>1
    <3>2. n + 1 \in 1 .. Len(chain) /\ n <= Len(chain)
      BY <2>1, <2>3, <3>1
    <3>3. m = Append(chain, current)[n + 1]
      BY <1>1, <2>1, <3>2, RouteOnPath
    <3>4. forwards(m, Append(chain, current)[n + 1 + 1])
      BY <2>2, <3>2, <3>3 DEF PathOf
    <3> QED BY <1>1, <3>4, OneSuccessor
  <2> QED BY <1>1, <2>6, <2>7, <2>8
<1>2. WalkInv => FollowsBelowLimit
  <2> SUFFICES ASSUME WalkInv, Single, result \in {"revoked", "cycle", "too_long"},
                      NEW m \in living(MaxHops - 1)
               PROVE  FALSE
    BY DEF FollowsBelowLimit, Single
  <2>1. m \in Key /\ Live \in signed[m]
    BY DEF living
  <2>2. PICK n \in 0 .. MaxHops - 1 : reaches(n, m)
    BY DEF living
  <2>3. PICK p : Route(p, n, m)
    BY <2>2 DEF reaches, Route
  <2> QED BY <1>1, <2>1, <2>2, <2>3
<1> QED BY <1>2, AlwaysWalkInv, PTL
=============================================================================
