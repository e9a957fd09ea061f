-------------------------------- MODULE Ranks --------------------------------
(***************************************************************************)
(* Sequences by rank: an element stands after those that precede it, which *)
(* is what sorting and filtering a list come to.                           *)
(***************************************************************************)
EXTENDS Integers, FiniteSets

Enumerated(S, precedes) ==
    [k \in 1 .. Cardinality(S) |->
        CHOOSE i \in S : Cardinality({j \in S : <<j, i>> \in precedes}) = k - 1]

InOrder(S) == Enumerated(S, {p \in S \X S : p[1] < p[2]})

(* The elements of a sequence at some of its places.                       *)
At(list, places) == LET order == InOrder(places) IN [k \in DOMAIN order |-> list[order[k]]]

SortedBy(list, Precedes(_, _)) ==
    LET D == DOMAIN list
        order == Enumerated(D, {p \in D \X D :
                    \/ Precedes(list[p[1]], list[p[2]])
                    \/ ~Precedes(list[p[2]], list[p[1]]) /\ p[1] < p[2]})
    IN  [k \in D |-> list[order[k]]]
=============================================================================
