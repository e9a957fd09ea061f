----------------------------- MODULE TaxProfile -----------------------------
(***************************************************************************)
(* The profile (crates/core/src/profile.rs) and the form it is edited with *)
(* (crates/ui/src/pages/profile.rs).  The form holds texts; what it submits*)
(* is laid over the stored profile, so that the fields it never shows are  *)
(* carried over.  Names and the text of a date that is not one are a model *)
(* value, and of the list of activities only what is checked is kept.      *)
(***************************************************************************)
EXTENDS Dates, Money, TaxNumber, Conditions

CONSTANT Garbled   \* a date field that holds something else

UndeclaredStartDate == Date(1970, 1, 1)

(* A share of the whole, in basis points.                                 *)
Shares == 0 .. 10000

(* A name that was left empty.                                             *)
Unnamed == ""

(* The fields of a draft that this form leaves out.                        *)
Undrafted == {"cae", "intraCommunity", "above50k", "exports", "hasEmployees",
              "certifiedSoftware", "atWebservice", "firstActivity"}

Defaults ==
    [cae |-> "principal", intraCommunity |-> FALSE, above50k |-> None, exports |-> FALSE,
     hasEmployees |-> FALSE, certifiedSoftware |-> TRUE, atWebservice |-> FALSE]

(* A draft says nothing of tracking when it has None there, and deletes a  *)
(* turnover with it.  A list of activities is never left empty.            *)
BuildProfile(draft, current) ==
    LET Kept(field, otherwise) ==
            IF current = None \/ current[field] = None THEN otherwise ELSE current[field]
        drafted == [draft EXCEPT
            !.nif = NormaliseNif(@),
            !.trackingStart = IF @ # None THEN @ ELSE Kept("trackingStart", None)]
        carried == [field \in Undrafted |->
            CASE field = "firstActivity" -> Kept(field, draft.startDate)
              [] field = "cae" -> IF Kept(field, "empty") = "empty"
                                  THEN Defaults.cae ELSE current.cae
              [] OTHER -> Kept(field, Defaults[field])]
    IN  [field \in DOMAIN drafted \union Undrafted |->
            IF field \in DOMAIN drafted THEN drafted[field] ELSE carried[field]]

(* A profile has every field of the vocabulary, and only these are absent. *)
ProfileFields ==
    {"nif", "name", "ivaRegime", "irsRegime", "startDate", "trackingStart", "turnoverPrevious",
     "turnoverExpected", "categoryB", "residentPt", "isCompany", "startupExemption",
     "coefficientBp"} \union Undrafted

Optional == {"above50k", "turnoverPrevious", "turnoverExpected", "trackingStart"}

(* A profile as the program leaves it in the vault: built from a draft that*)
(* the form let through.                                                   *)
Stored(p) ==
    /\ p = [field \in ProfileFields |-> p[field]]
    /\ \A field \in ProfileFields \ Optional : p[field] # None
    /\ IsValidPtTaxNumber(p.nif) /\ NormaliseNif(p.nif) = p.nif
    /\ p.name # Unnamed /\ p.cae # "empty" /\ p.startDate # Garbled /\ p.trackingStart # Garbled
    /\ p.coefficientBp \in Shares
    /\ \A field \in {"turnoverPrevious", "turnoverExpected"} :
          p[field] = None \/ p[field] \in Int
    /\ p.isCompany \in BOOLEAN

(***************************************************************************)
(* What is wrong with a profile, and what is missing from it.              *)
(***************************************************************************)
Problem(level, field) == [level |-> level, field |-> field]
Raised(condition, problem) == IF condition THEN {problem} ELSE {}

IsIsoShape(text) == text \notin {None, Garbled}

MonthsSince(start, day) == (day.year - start.year) * 12 + (day.month - start.month)

IdentityProblems(p) ==
    Raised(~IsValidPtTaxNumber(p.nif), Problem("error", "nif")) \union
    Raised(p.name = Unnamed, Problem("error", "name")) \union
    Raised(p.cae = "empty", Problem("error", "cae")) \union
    Raised(p.cae # "principal", Problem("warning", "cae")) \union
    Raised(~IsIsoShape(p.startDate), Problem("error", "startDate")) \union
    Raised(~p.categoryB, Problem("warning", "categoryB")) \union
    Raised(p.turnoverPrevious = None, Problem("warning", "turnoverPrevious"))

RegimeProblems(p, day) ==
    Raised(p.ivaRegime = "isento_art53" /\ (~p.residentPt \/ p.exports),
           Problem("error", "ivaRegime")) \union
    Raised(p.irsRegime = "simplificado" /\ p.coefficientBp <= 0,
           Problem("error", "coefficientBp")) \union
    Raised(p.startupExemption /\ IsIsoShape(p.startDate) /\ MonthsSince(p.startDate, day) > 12,
           Problem("warning", "startupExemption")) \union
    Raised(p.intraCommunity /\ p.ivaRegime \notin {"mensal", "trimestral"},
           Problem("warning", "intraCommunity"))

ValidateProfile(p, day) == IdentityProblems(p) \union RegimeProblems(p, day)

Errors(problems) == {q \in problems : q.level = "error"}

MissingProfileInputs(p) ==
    Raised(p.turnoverPrevious = None, "turnoverPrevious") \union
    Raised(p.turnoverExpected = None, "turnoverExpected") \union
    Raised(p.startDate = UndeclaredStartDate, "startDate") \union
    Raised(~p.intraCommunity /\ ~p.exports, "foreign")

(***************************************************************************)
(* The form.                                                               *)
(***************************************************************************)
DefaultForm ==
    [nif |-> <<>>, name |-> Unnamed, startDate |-> None, trackingStart |-> None,
     ivaRegime |-> "trimestral", irsRegime |-> "simplificado",
     coefficient |-> Text(FALSE, <<Block(75, 2)>>, <<>>),
     turnoverPrevious |-> Blank, turnoverExpected |-> Blank,
     residentPt |-> TRUE, categoryB |-> TRUE, startupExemption |-> FALSE]

(* A mutant's form: a percentage is shown without its fraction.            *)
FromProfileWhole(p) ==
    [field \in DOMAIN DefaultForm |->
        CASE field = "coefficient" -> FormatBpAsPercent((p.coefficientBp \div 100) * 100)
          [] field \in {"turnoverPrevious", "turnoverExpected"} ->
                IF p[field] = None THEN Blank ELSE FormatEur(p[field])
          [] OTHER -> p[field]]

FromProfile(p) ==
    IF p = None THEN DefaultForm
    ELSE [field \in DOMAIN DefaultForm |->
            CASE field = "coefficient" -> FormatBpAsPercent(p.coefficientBp)
              [] field \in {"turnoverPrevious", "turnoverExpected"} ->
                    IF p[field] = None THEN Blank ELSE FormatEur(p[field])
              [] OTHER -> p[field]]

(* coefficient_bp: a percentage with at most one mark, read as a fraction  *)
(* of two decimals.                                                        *)
CoefficientBp(text) ==
    LET marks == Marked(text, {",", "."})
        count == Len(text.blocks)
        split == IF marks = {} THEN count ELSE Max(marks)
        whole == Joined(text.blocks, 1, split)
        fraction == Joined(text.blocks, split + 1, count)
        bp == whole.value * 100 + fraction.value * Power(2 - fraction.width)
    IN  IF count = 0 \/ Cardinality(marks) > 1 THEN Unreadable
        ELSE Read(IF text.minus THEN -bp ELSE bp)

Figure(text) == IF ParseEur(text).read THEN ParseEur(text).value ELSE None

(* to_draft, and the coefficient that goes with it.                        *)
ToDraft(form) ==
    [nif |-> form.nif, name |-> form.name,
     ivaRegime |-> form.ivaRegime, irsRegime |-> form.irsRegime,
     startDate |-> form.startDate, trackingStart |-> form.trackingStart,
     turnoverPrevious |-> Figure(form.turnoverPrevious),
     turnoverExpected |-> Figure(form.turnoverExpected),
     categoryB |-> form.categoryB, residentPt |-> form.residentPt, isCompany |-> FALSE,
     startupExemption |-> form.startupExemption,
     coefficientBp |-> CoefficientBp(form.coefficient).value]

FormProblems(form) ==
    Raised(~IsValidPtTaxNumber(form.nif), "nif") \union
    Raised(form.name = Unnamed, "name") \union
    Raised(~IsIsoShape(form.startDate), "startDate") \union
    Raised(form.trackingStart = Garbled, "trackingStart") \union
    Raised(LET read == CoefficientBp(form.coefficient)
           IN  ~read.read \/ read.value \notin Shares, "coefficient") \union
    {field \in {"turnoverPrevious", "turnoverExpected"} :
        form[field] # Blank /\ ~ParseEur(form[field]).read}
=============================================================================
