------------------------------- MODULE Select -------------------------------
(***************************************************************************)
(* order_with (sqns-client, select.rs): the order in which a caller tries  *)
(* the endpoints of a record.  Endpoints are grouped by priority; within a *)
(* group they are drawn by weight without replacement.                     *)
(***************************************************************************)
EXTENDS Naturals, Sequences, FiniteSetsExt, TLC

VARIABLES
    published,  \* the endpoints as published, each with its place in the record
    rest,       \* the endpoints of the bands to come
    band,       \* the band being drawn from
    order       \* the order so far

ordering == <<published, rest, band, order>>

-----------------------------------------------------------------------------
(* Mutant: the highest priority number comes first.                        *)
by_priority_down(eps) ==
    SortSeq(eps, LAMBDA d, e : \/ d.priority > e.priority
                               \/ d.priority = e.priority /\ d.at < e.at)

(* sort_by_key is stable: equal priorities keep the order of the record.   *)
by_priority(eps) ==
    SortSeq(eps, LAMBDA d, e : \/ d.priority < e.priority
                               \/ d.priority = e.priority /\ d.at < e.at)

total(eps) == FoldFunction(LAMBDA e, sum : e.weight + sum, 0, eps)

(* Mutant: a draw equal to a weight stays with it.                         *)
chosen_inclusive(eps, pick) ==
    LET reached == {i \in 1..Len(eps) : pick <= total(SubSeq(eps, 1, i))}
    IN  IF reached = {} THEN Len(eps) ELSE Min(reached)

(* The endpoint a draw falls on: the first whose weight, added to those    *)
(* before it, exceeds the draw; the last one if there is none.             *)
chosen(eps, pick) ==
    LET reached == {i \in 1..Len(eps) : pick < total(SubSeq(eps, 1, i))}
    IN  IF reached = {} THEN Len(eps) ELSE Min(reached)

(* The draws random_range offers for a band, and where one falls: a band   *)
(* without weight is emptied from the front, and draws nothing.            *)
picks(eps) == IF total(eps) = 0 THEN {0} ELSE 0..total(eps) - 1
index(eps, pick) == IF total(eps) = 0 THEN 1 ELSE chosen(eps, pick)

-----------------------------------------------------------------------------
Begin(eps) ==
    /\ published' = eps
    /\ rest' = by_priority(eps)
    /\ band' = <<>>
    /\ order' = <<>>

(* The next band: what shares the lowest priority left.                    *)
NextBand ==
    /\ band = <<>>
    /\ rest # <<>>
    /\ band' = SelectSeq(rest, LAMBDA e : e.priority = rest[1].priority)
    /\ rest' = SelectSeq(rest, LAMBDA e : e.priority # rest[1].priority)
    /\ UNCHANGED <<published, order>>

(* Vec::remove.                                                            *)
remove(eps, i) == SubSeq(eps, 1, i - 1) \o SubSeq(eps, i + 1, Len(eps))

(* One draw moves an endpoint from the band to the order.                  *)
Draw(pick) ==
    /\ band # <<>>
    /\ order' = Append(order, band[index(band, pick)])
    /\ band' = remove(band, index(band, pick))
    /\ UNCHANGED <<published, rest>>

Init == published = <<>> /\ rest = <<>> /\ band = <<>> /\ order = <<>>

Next == NextBand \/ \E pick \in picks(band) : Draw(pick)

Done == rest = <<>> /\ band = <<>>

-----------------------------------------------------------------------------
(* "Endpoints in the order a caller should try them" (select.rs:12),       *)
(* "failing over to the next priority band", "Zero-weight endpoints sort   *)
(* last within their band" (select.rs:5-7): every endpoint is in the order *)
(* once, and at every draw the order never went down in priority, nor,     *)
(* within a band, from no weight to some.                                  *)
TriedInOrder ==
    /\ Done => Len(order) = Len(published) /\ Range(order) = Range(published)
    /\ \A i, j \in 1..Len(order) :
          i < j => \/ order[i].priority < order[j].priority
                   \/ /\ order[i].priority = order[j].priority
                      /\ order[i].weight = 0 => order[j].weight = 0

(* "entries are drawn by weight without replacement" (select.rs:3-4): of   *)
(* the draws random_range offers, as many fall on an endpoint of the band  *)
(* as it has weight.                                                       *)
ShareIsWeight ==
    total(band) > 0 =>
        \A i \in 1..Len(band) :
            Cardinality({p \in picks(band) : index(band, p) = i}) = band[i].weight
=============================================================================
