----------------------------- MODULE MCDashboard -----------------------------
(* Six obligations with the conditions of rules/pt/2026.json, profiles that  *)
(* meet them in different ways, and invoices at the edges of the quarters of *)
(* 2026.  Amounts are a hundredth and less of the real ones: TLC counts to   *)
(* 2^31, and a rate is multiplied before it is divided.                      *)
EXTENDS Dashboard, TLC

Cond(field, op, value) == [field |-> field, op |-> op, value |-> value]

Obligation(id, kind, periodicity, deadline, conditions) ==
    [id |-> id, kind |-> kind, verification |-> "verified", appliesWhen |-> conditions,
     periodicity |-> periodicity, deadline |-> deadline, published |-> FALSE,
     authority |-> "AT", sources |-> {"civa"}, legalBasis |-> TRUE, documents |-> TRUE]

Monthly == Cond("ivaRegime", "eq", "mensal")
Trimestral == Cond("ivaRegime", "eq", "trimestral")
Intra == Cond("intraCommunity", "eq", TRUE)

Obligations ==
    << Obligation("dpMensal", "Declare", "Monthly", "DayOfMonth", {Monthly}),
       Obligation("dpTrimestral", "Declare", "Quarterly", "DayOfMonth", {Trimestral}),
       Obligation("recapMensal", "Declare", "Monthly", "DayOfMonth", {Monthly, Intra}),
       Obligation("recapTrimestral", "Declare", "Quarterly", "DayOfMonth",
                  {Trimestral, Intra, Cond("above50k", "ne", TRUE)}),
       Obligation("recapPorVolume", "Declare", "Monthly", "DayOfMonth",
                  {Trimestral, Intra, Cond("above50k", "eq", TRUE)}),
       Obligation("guardar", "Save", "Continuous", "RetentionYears", {Cond("above50k", "exists", None)}) >>

MCEmbeddedPack ==
    [jurisdiction |-> "PT", year |-> 2026, money |-> "EUR_cents", rate |-> "basis_points",
     disclaimer |-> "aviso", sources |-> {[id |-> "civa", http |-> TRUE]},
     shapes |-> [Taxa |-> "whole", MultipleIas |-> "fraction"],
     constants |-> [ceiling |-> 100000, share |-> 7000, rate |-> 2140, ias |-> 53713,
                    documentedExpenses |-> None],
     proposed |-> {"ai"}, obligations |-> Obligations]

Mistaken(k, condition) == [MCEmbeddedPack EXCEPT !.obligations[k].appliesWhen = {condition}]

MCOtherPacks ==
    { Mistaken(1, Cond("ivaregime", "eq", TRUE)), Mistaken(2, Cond("residentPt", "equals", TRUE)),
      [MCEmbeddedPack EXCEPT !.obligations[2].id = "dpMensal"] }

MCRuleOf ==
    [id \in {o.id : o \in {Obligations[k] : k \in DOMAIN Obligations}} |->
        LET o == CHOOSE s \in {Obligations[k] : k \in DOMAIN Obligations} : s.id = id
        IN  [periodicity |-> o.periodicity, kind |-> o.kind,
             lag |-> IF id \in {"dpMensal", "dpTrimestral"} THEN 2 ELSE 1,
             deadline |-> [kind |-> o.deadline, day |-> 20, month |-> None, dayTo |-> None]]]

MCPublished ==
    [id \in DOMAIN MCRuleOf |->
        IF id = "dpTrimestral"
        THEN 2026 :> {[month |-> 2, day |-> 20], [month |-> 5, day |-> 20],
                      [month |-> 9, day |-> 21], [month |-> 11, day |-> 20]}
        ELSE <<>>]

(***************************************************************************)
(* Profiles.                                                               *)
(***************************************************************************)
Plain ==
    [nif |-> <<1, 2, 3, 4, 5, 6, 7, 8, 9>>, name |-> "Ana", startDate |-> Date(2024, 3, 1),
     firstActivity |-> Date(2020, 1, 1), trackingStart |-> None, cae |-> "principal",
     ivaRegime |-> "trimestral", irsRegime |-> "simplificado", coefficientBp |-> 7500,
     turnoverPrevious |-> 90000, turnoverExpected |-> None, categoryB |-> TRUE,
     residentPt |-> TRUE, isCompany |-> FALSE, startupExemption |-> FALSE,
     intraCommunity |-> FALSE, above50k |-> None, exports |-> FALSE, hasEmployees |-> FALSE,
     certifiedSoftware |-> TRUE, atWebservice |-> FALSE]

MCVaults ==
    { [Plain EXCEPT !.ivaRegime = "isento_art53"],
      [Plain EXCEPT !.ivaRegime = "isento_art53", !.exports = TRUE, !.coefficientBp = 3550],
      [Plain EXCEPT !.intraCommunity = TRUE, !.coefficientBp = 7205,
                    !.turnoverPrevious = None, !.turnoverExpected = 123456],
      [Plain EXCEPT !.intraCommunity = TRUE, !.above50k = TRUE,
                    !.turnoverPrevious = -100005, !.turnoverExpected = 1234567],
      [Plain EXCEPT !.ivaRegime = "mensal", !.intraCommunity = TRUE, !.above50k = FALSE,
                    !.isCompany = TRUE, !.trackingStart = Date(2026, 9, 1)] }

(***************************************************************************)
(* Invoices.                                                               *)
(***************************************************************************)
Invoice(number, date, country, base, ivaBp, retentionBp, proof) ==
    [number |-> number, date |-> date, country |-> country, base |-> base,
     ivaBp |-> ivaBp, retentionBp |-> retentionBp, proof |-> proof]

MCReceipts ==
    { Invoice("FR 1", Date(2026, 3, 31), "PT", 81001, 2300, 2300, TRUE),
      Invoice("FR 2", Date(2026, 12, 31), "PT", 45003, 0, 0, FALSE),
      Invoice("FR 3", Date(2026, 6, 30), "DE", 10001, 0, 0, TRUE),
      Invoice("FR 4", Date(2025, 12, 31), "US", 5005, 2300, 2300, FALSE) }

(***************************************************************************)
(* What is typed: 900; 1 234,56; 1.234,56; 1234.5; 1.234; 1,234.56; -1,5.  *)
(***************************************************************************)
Euros900 == Text(FALSE, <<Block(900, 3)>>, <<>>)
Spaced == Text(FALSE, <<Block(1, 1), Block(234, 3), Block(56, 2)>>, <<" ", ",">>)
Portuguese == Text(FALSE, <<Block(1, 1), Block(234, 3), Block(56, 2)>>, <<".", ",">>)
Pointed == Text(FALSE, <<Block(1234, 4), Block(5, 1)>>, <<".">>)
Grouping == Text(FALSE, <<Block(1, 1), Block(234, 3)>>, <<".">>)
English == Text(FALSE, <<Block(1, 1), Block(234, 3), Block(56, 2)>>, <<",", ".">>)
Negative == Text(TRUE, <<Block(1, 1), Block(5, 1)>>, <<",">>)

MCMeant ==
    Euros900 :> 90000 @@ Spaced :> 123456 @@ Portuguese :> 123456 @@ Pointed :> 123450 @@
    Grouping :> None @@ English :> 123456 @@ Negative :> -150

MCTyped ==
    [nif |-> {<<1, 2, 3, Mark, 4, 5, 6, Mark, 7, 8, 9>>, <<1, 2, 3, 4, 5, 6, 7, 9, 8>>},
     trackingStart |-> {None, Garbled, Date(2026, 10, 1)},
     ivaRegime |-> {"isento_art53", "mensal"},
     coefficient |-> {Text(FALSE, <<Block(35, 2), Block(5, 1)>>, <<",">>),
                      Text(FALSE, <<Block(0, 1)>>, <<>>)},
     turnoverPrevious |-> DOMAIN MCMeant \union {Blank}]

MCStartDays == {[day |-> Date(2026, 12, 31), weekday |-> 4]}
=============================================================================
