------------------------------ MODULE MCWindow ------------------------------
(* Two documents: one the first tax number issued, and one whose issuer    *)
(* cannot be read.                                                         *)
EXTENDS Window, TLC

CONSTANTS d1, d2, n1, n2

MCIssuerOf == (d1 :> n1) @@ (d2 :> None)
=============================================================================
