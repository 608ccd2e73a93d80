-------------------------------- MODULE Walk --------------------------------
(***************************************************************************)
(* Resolver::resolve_service (sqns-client, resolver.rs): following a key   *)
(* through its rotations to the key that lives today, and ordering the     *)
(* endpoints of its record (Select).                                       *)
(*                                                                         *)
(* A server may answer with any record ever signed for a key, or with      *)
(* none.  What is remembered between lookups is the subject of Resolver;   *)
(* here an answer it refuses is an answer the server did not give.         *)
(***************************************************************************)
EXTENDS Naturals, Sequences, FiniteSets

CONSTANTS
    Key,         \* the service keys
    MaxHops,     \* MAX_SUPERSEDE_HOPS
    MaxSigned,   \* bound on the records signed for one key
    Lists,       \* the endpoints a live record may have
    Withholding, \* may a server answer `no record' for a key that has one
    NoRecord     \* no record

ASSUME WalkAssumption ==
    /\ MaxHops \in Nat
    /\ MaxSigned \in Nat
    /\ Withholding \in BOOLEAN
    /\ NoRecord \notin Key

(* What the walk tells apart: a live record, a withdrawal included, a      *)
(* revocation, and a record that forwards to another key.                  *)
Live == [kind |-> "live", successor |-> NoRecord]
Revoked == [kind |-> "revoked", successor |-> NoRecord]
To(k) == [kind |-> "superseded", successor |-> k]
RecordsOf(k) == {Live, Revoked} \union {To(n) : n \in Key \ {k}}

VARIABLES
    signed,     \* the records that were signed for each key
    requested,  \* the key the caller asks for
    current,    \* the key the walk has reached
    visited,    \* the keys seen
    chain,      \* the keys walked through
    left,       \* the rounds of the loop that are left
    prefetched, \* the record of current, if it came with the one before
    result,     \* "walking", "ordering", "found" or the error
    published,  \* the endpoints of the live record, and their ordering (Select)
    rest,
    band,
    order

selection == INSTANCE Select

walk == <<signed, requested, current, visited, chain, left, prefetched, result>>
ordering == <<published, rest, band, order>>
walkvars == <<walk, ordering>>
world == <<signed, requested>>

-----------------------------------------------------------------------------
(* What fetch returns for key k.                                           *)
offered(k) == signed[k] \union IF Withholding \/ signed[k] = {} THEN {NoRecord} ELSE {}

(* The record this round of the loop works with.                           *)
fetched == IF prefetched = NoRecord THEN offered(current) ELSE {prefetched}

End(outcome) ==
    /\ result' = outcome
    /\ prefetched' = NoRecord
    /\ UNCHANGED <<world, current, visited, chain, left>>

(* There is a live record: its key is the one to pin, and its endpoints    *)
(* are put in order.                                                       *)
Arrive(r) ==
    /\ r # NoRecord
    /\ r.kind = "live"
    /\ End("ordering")
    /\ \E eps \in Lists : selection!Begin(eps)

(* order_endpoints has drawn them all.                                     *)
Ordered ==
    /\ result = "ordering"
    /\ selection!Done
    /\ End("found")
    /\ UNCHANGED ordering

Order == result = "ordering" /\ selection!Next /\ UNCHANGED walk

Unpublished(r) == r = NoRecord /\ End("unpublished")

Dead(r) == r # NoRecord /\ r.kind = "revoked" /\ End("revoked")

(* The record forwards to a key that was seen before.                      *)
Cycle(r) == r # NoRecord /\ r.kind = "superseded" /\ r.successor \in visited /\ End("cycle")

(* Mutant: the key reached is not counted as walked through.               *)
Follow_unlisted(r) ==
    /\ r # NoRecord
    /\ r.kind = "superseded"
    /\ r.successor \notin visited
    /\ visited' = visited \union {r.successor}
    /\ chain' = IF chain = <<>> THEN <<current>> ELSE chain
    /\ prefetched' \in {NoRecord} \union IF prefetched = NoRecord THEN signed[r.successor] ELSE {}
    /\ current' = r.successor
    /\ left' = left - 1
    /\ UNCHANGED <<world, result>>

(* Mutant: following a rotation costs two rounds.                          *)
Follow_twice(r) ==
    /\ r # NoRecord
    /\ r.kind = "superseded"
    /\ r.successor \notin visited
    /\ visited' = visited \union {r.successor}
    /\ chain' = Append(chain, current)
    /\ prefetched' \in {NoRecord} \union IF prefetched = NoRecord THEN signed[r.successor] ELSE {}
    /\ current' = r.successor
    /\ left' = IF left > 1 THEN left - 2 ELSE 0
    /\ UNCHANGED <<world, result>>

(* Mutant: the key a record that came along forwards to counts as seen.    *)
Follow_ahead(r) ==
    /\ r # NoRecord
    /\ r.kind = "superseded"
    /\ r.successor \notin visited
    /\ chain' = Append(chain, current)
    /\ prefetched' \in {NoRecord} \union IF prefetched = NoRecord THEN signed[r.successor] ELSE {}
    /\ visited' = visited \union {r.successor}
                     \union IF prefetched' = NoRecord THEN {} ELSE {prefetched'.successor} \ {NoRecord}
    /\ current' = r.successor
    /\ left' = left - 1
    /\ UNCHANGED <<world, result>>

(* It forwards to a new key, whose record may have come along; a record    *)
(* that itself came along brings no other.                                 *)
Follow(r) ==
    /\ r # NoRecord
    /\ r.kind = "superseded"
    /\ r.successor \notin visited
    /\ visited' = visited \union {r.successor}
    /\ chain' = Append(chain, current)
    /\ prefetched' \in {NoRecord} \union IF prefetched = NoRecord THEN signed[r.successor] ELSE {}
    /\ current' = r.successor
    /\ left' = left - 1
    /\ UNCHANGED <<world, result>>

-----------------------------------------------------------------------------
(* One round of the loop.                                                  *)
Round ==
    /\ result = "walking"
    /\ left > 0
    /\ \E r \in fetched :
          \/ Arrive(r)
          \/ /\ Unpublished(r) \/ Dead(r) \/ Cycle(r) \/ Follow(r)
             /\ UNCHANGED ordering

(* A lookup fails, and the walk with it.                                   *)
FetchFails ==
    /\ result = "walking"
    /\ left > 0
    /\ prefetched = NoRecord
    /\ End("error")
    /\ UNCHANGED ordering

(* Mutant: a walk that ran out is begun again.                             *)
TooLong_retried ==
    /\ result = "walking"
    /\ left = 0
    /\ left' = MaxHops
    /\ current' = requested
    /\ visited' = {requested}
    /\ chain' = <<>>
    /\ prefetched' = NoRecord
    /\ UNCHANGED <<world, result, ordering>>

(* The loop runs out.                                                      *)
TooLong ==
    /\ result = "walking"
    /\ left = 0
    /\ End("too_long")
    /\ UNCHANGED ordering

WalkInit ==
    /\ signed \in [Key -> {m \in SUBSET UNION {RecordsOf(k) : k \in Key} : Cardinality(m) <= MaxSigned}]
    /\ \A k \in Key : signed[k] \subseteq RecordsOf(k)
    /\ requested \in Key
    /\ current = requested
    /\ visited = {requested}
    /\ chain = <<>>
    /\ left = MaxHops
    /\ prefetched = NoRecord
    /\ result = "walking"
    /\ selection!Init

WalkNext == Round \/ FetchFails \/ TooLong \/ Order \/ Ordered

WalkSpec == WalkInit /\ [][WalkNext]_walkvars

(* A walk that can go on does.                                             *)
FairWalk == WalkSpec /\ WF_walkvars(WalkNext)

-----------------------------------------------------------------------------
(***************************************************************************)
(* Properties.                                                             *)
(***************************************************************************)
forwards(k, n) == To(n) \in signed[k]

(* "Every hop is verified against the key the previous record named"       *)
(* (resolver.rs:258-259) and superseded_from lists the "keys walked        *)
(* through to get here, oldest first" (resolver.rs:79): they lead from the *)
(* requested key to the one reached, each named by the one before.         *)
PathIsReal ==
    LET path == Append(chain, current) IN
    /\ path[1] = requested
    /\ \A i \in 1 .. Len(chain) : forwards(path[i], path[i + 1])
    /\ result = "found" => Live \in signed[current]

(* "A cycle is an error rather than a spin" (resolver.rs:259-260): that    *)
(* error is given for a cycle of the records only, one the walk went       *)
(* round.                                                                  *)
CycleIsReal ==
    result = "cycle" =>
        LET path == Append(chain, current) IN
        \E i \in 1 .. Len(path) : forwards(current, path[i])

(* A walk ends, whatever the records say and however the draws fall.       *)
WalkEnds == <>(result \notin {"walking", "ordering"})

(* The key m is n rotations away from the requested one.                   *)
reaches(n, m) ==
    \E p \in [0 .. n -> Key] :
        /\ p[0] = requested
        /\ p[n] = m
        /\ \A i \in 1 .. n : forwards(p[i - 1], p[i])

(* The keys that live today, up to n rotations away.                       *)
living(n) == {m \in Key : Live \in signed[m] /\ \E i \in 0 .. n : reaches(i, m)}

(* The loop follows MAX_SUPERSEDE_HOPS - 1 rotations: as long as each key  *)
(* has one record, a walk given up as revoked, as a cycle or as too long   *)
(* had no living key in reach, whatever was withheld on the way.           *)
FollowsBelowLimit ==
    /\ \A k \in Key : \A r, s \in signed[k] : r = s
    /\ result \in {"revoked", "cycle", "too_long"}
    => living(MaxHops - 1) = {}

(* The endpoints of the key reached, "in the order a caller should try     *)
(* them" (select.rs:12), are all there once, band after band, the ones     *)
(* without weight last in theirs.                                          *)
TriedInOrder == selection!TriedInOrder

(* "entries are drawn by weight without replacement" (select.rs:3-4): at   *)
(* each draw an endpoint's chance is its share of the weight left in the   *)
(* band.                                                                   *)
ShareIsWeight == selection!ShareIsWeight
=============================================================================
