-------------------------------- MODULE Money --------------------------------
(***************************************************************************)
(* Amounts (crates/core/src/money.rs): whole cents, rates in basis points, *)
(* and the texts a person types and reads.  A text is its blocks of digits *)
(* and the marks between them; a currency sign and its space carry nothing *)
(* and are left out.                                                       *)
(***************************************************************************)
EXTENDS Integers, Sequences, FiniteSetsExt

Sign(n) == IF n > 0 THEN 1 ELSE IF n < 0 THEN -1 ELSE 0
Magnitude(n) == IF n < 0 THEN -n ELSE n

(* Division as the machine does it, towards zero.                          *)
Truncated(n, d) == Sign(n) * (Magnitude(n) \div d)

(* Halves go away from zero.                                               *)
RoundScaled(n, d) == Truncated(n + Sign(n) * (d \div 2), d)

ApplyBp(amount, bp) == RoundScaled(amount * bp, 10000)

(* A mutant's form: every part is rounded by itself.                       *)
SplitByRounding(total, parts) == [i \in 1 .. parts |-> RoundScaled(total, parts)]

(* The first parts take the cents that are left over, one each.            *)
SplitEvenly(total, parts) ==
    LET base == Truncated(total, parts)
        remainder == total - base * parts
    IN  [i \in 1 .. parts |-> IF i <= Magnitude(remainder) THEN base + Sign(remainder) ELSE base]

(***************************************************************************)
(* Texts.                                                                  *)
(***************************************************************************)
Block(value, width) == [value |-> value, width |-> width]
Text(minus, blocks, marks) == [minus |-> minus, blocks |-> blocks, marks |-> marks]
Blank == Text(FALSE, <<>>, <<>>)

(* A text is well made when a mark stands between any two blocks.          *)
DigitBlocks == [value : Nat, width : Nat]
WellMade(text) == text.blocks \in Seq(DigitBlocks) /\ DOMAIN text.marks = 1 .. Len(text.blocks) - 1

Power(n) == IF n = 0 THEN 1 ELSE IF n = 1 THEN 10 ELSE IF n = 2 THEN 100 ELSE 1000

Width(n) == IF n < 10 THEN 1 ELSE IF n < 100 THEN 2 ELSE IF n < 1000 THEN 3 ELSE 4

(* An integer of five digits or more is grouped, one of four is not.       *)
Grouped[n \in Nat] ==
    IF n < 1000 THEN <<Block(n, Width(n))>>
    ELSE Append(Grouped[n \div 1000], Block(n % 1000, 3))

GroupThousands(n) == IF n < 10000 THEN <<Block(n, Width(n))>> ELSE Grouped[n]

FormatEur(cents) ==
    LET whole == GroupThousands(Magnitude(cents) \div 100)
    IN  Text(cents < 0, Append(whole, Block(Magnitude(cents) % 100, 2)),
             [i \in DOMAIN whole |-> IF i = Len(whole) THEN "," ELSE " "])

(* Blocks i to j read as one.                                              *)
Joined(blocks, i, j) ==
    LET upTo[k \in 0 .. j] ==
            IF k < i THEN Block(0, 0)
            ELSE Block(upTo[k - 1].value * Power(blocks[k].width) + blocks[k].value,
                       upTo[k - 1].width + blocks[k].width)
    IN  upTo[j]

Marked(text, marks) == {i \in DOMAIN text.marks : text.marks[i] \in marks}

(* A mutant's form: a point is always decimal.                             *)
DecimalMarksPoint(text) == Marked(text, {"."})

(* normalise_separators: the mark that comes last is the decimal one and   *)
(* the other only groups; a single kind is decimal wherever it stands.     *)
DecimalMarks(text) ==
    LET separators == Marked(text, {",", "."})
    IN  IF separators = {} THEN {} ELSE Marked(text, {text.marks[Max(separators)]})

Unreadable == [read |-> FALSE, value |-> 0]
Read(value) == [read |-> TRUE, value |-> value]

(* parse_eur_to_cents.                                                     *)
ParseEur(text) ==
    LET decimal == DecimalMarks(text)
        count == Len(text.blocks)
        split == IF decimal = {} THEN count ELSE Max(decimal)
        whole == Joined(text.blocks, 1, split)
        fraction == Joined(text.blocks, split + 1, count)
        cents == whole.value * 100 + fraction.value * Power(2 - fraction.width)
    IN  IF \/ Cardinality(decimal) > 1
           \/ whole.width = 0
           \/ fraction.width > 2
           \/ decimal # {} /\ fraction.width = 0
        THEN Unreadable
        ELSE Read(IF text.minus THEN -cents ELSE cents)

(* format_bp_as_percent: the zero that ends a fraction is not written.     *)
FormatBpAsPercent(bp) ==
    LET whole == Magnitude(bp) \div 100
        rest == Magnitude(bp) % 100
        block == Block(whole, Width(whole))
    IN  IF rest = 0 THEN Text(bp < 0, <<block>>, <<>>)
        ELSE IF rest % 10 = 0 THEN Text(bp < 0, <<block, Block(rest \div 10, 1)>>, <<",">>)
        ELSE Text(bp < 0, <<block, Block(rest, 2)>>, <<",">>)
=============================================================================
