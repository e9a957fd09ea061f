--------------------------- MODULE MCAtomicReplace ---------------------------
(* Three threads, two of them in one process, for the model checker.       *)
EXTENDS AtomicReplace, TLC

CONSTANTS t1, t2, t3, p1, p2, i1, i2

MCProcessOf == [t \in {t1, t2, t3} |-> IF t = t3 THEN p2 ELSE p1]

(* The two threads of one process are interchangeable, and so are the ids. *)
MCSymmetry == Permutations({t1, t2}) \union Permutations({i1, i2})

(* What a thread that is outside write_bytes_atomic last chose is never    *)
(* looked at: the next call overwrites it.                                 *)
MCView ==
    <<pid, counter, starts, disk, pc, answer,
      [t \in Threads |-> IF pc[t] = "idle" THEN <<>> ELSE <<name[t], call[t]>>]>>
=============================================================================
