------------------------------ MODULE TaxNumber ------------------------------
(* Tax numbers (crates/core/src/nif.rs): a text is a sequence of digits and *)
(* of marks, which are spaces, points and hyphens.                          *)
EXTENDS Integers, Sequences, FiniteSetsExt, Ranks

CONSTANT Mark

NormaliseNif(text) == At(text, {i \in DOMAIN text : text[i] # Mark})

CheckDigit(digits) ==
    LET remainder == MapThenSumSet(LAMBDA i : digits[i] * (10 - i), 1 .. 8) % 11
    IN  IF remainder < 2 THEN 0 ELSE 11 - remainder

IsValidPtTaxNumber(text) ==
    LET digits == NormaliseNif(text)
    IN  Len(digits) = 9 /\ digits[9] = CheckDigit(digits)
=============================================================================
