-------------------------------- MODULE Jsonl --------------------------------
(***************************************************************************)
(* What is inside a JSONL file of the vault (crates/store/src/atomic.rs).  *)
(*                                                                         *)
(* A file is the sequence of pieces its writers left in it, one piece per  *)
(* call of append_text, and a piece says how much of its line arrived:     *)
(*   "whole" - the JSON text and its newline;                              *)
(*   "bare"  - the JSON text, without the newline;                         *)
(*   "torn"  - a strict prefix of the JSON text.                           *)
(* A piece that follows anything but a "whole" one continues that piece's  *)
(* line: the reader then sees two JSON values, or a fragment and a value,  *)
(* on one line.                                                            *)
(***************************************************************************)
EXTENDS Naturals, Sequences

Cuts == {"whole", "bare", "torn"}

Piece(r, c) == [rec |-> r, cut |-> c]

(* Every record of R, however much of its line arrived. *)
Pieces(R) == [rec : R, cut : Cuts]

(* Piece i begins a line of the file. *)
StartsLine(f, i) == i = 1 \/ f[i-1].cut = "whole"

(* Piece i is a line the reader can parse: it begins a line, it holds the  *)
(* whole JSON text, and nothing was glued to its end.                      *)
Parses(f, i) ==
    /\ StartsLine(f, i)
    /\ \/ f[i].cut = "whole"
       \/ f[i].cut = "bare" /\ i = Len(f)

(* read_jsonl returns Ok: one line that is not JSON refuses the file.      *)
Readable(f) == \A i \in 1 .. Len(f) : Parses(f, i)

(* The records a reader can get out of the file, line by line.             *)
Lines(f) == {f[i].rec : i \in {j \in 1 .. Len(f) : Parses(f, j)}}

(* What can be left of the pieces f when the disk surely holds the first n *)
(* and the power goes: any prefix of the bytes at least that long.         *)
LessOf(p) ==
    {Piece(p.rec, c) : c \in CASE p.cut = "whole" -> {"whole", "bare", "torn"}
                               [] p.cut = "bare"  -> {"bare", "torn"}
                               [] p.cut = "torn"  -> {"torn"}}

AfterPowerCut(f, n) ==
    {SubSeq(f, 1, n)} \union
    UNION {{Append(SubSeq(f, 1, k - 1), p) : p \in LessOf(f[k])} : k \in (n + 1) .. Len(f)}
=============================================================================
