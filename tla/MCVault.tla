------------------------------- MODULE MCVault -------------------------------
(* Two windows and two contents for the model checker.                     *)
EXTENDS Vault, TLC

CONSTANTS
    w1, w2, c1, c2,
    MaxUnanswered \* bound: operations, openings included, that never answer

(* Neither windows nor contents are told apart by anything but equality.   *)
Symmetry == Permutations({w1, w2}) \union Permutations({c1, c2})

Bounds == ops - Cardinality(answered) <= MaxUnanswered

(* The hash and the index a window holds matter while it does something.   *)
MCView ==
    <<lock, open, todo, [w \in {v \in Windows : todo[v] # <<>>} |-> <<sha[w], held[w]>>], stats,
      logs, index, files, ops, answered, copied, folders>>
=============================================================================
