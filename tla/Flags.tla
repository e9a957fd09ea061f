-------------------------------- MODULE Flags --------------------------------
(***************************************************************************)
(* What the person is told (crates/core/src/flags.rs).  A flag is its code *)
(* and its severity; the sentence, the law and the sources are left out,   *)
(* the numbers of the invoices it is about are kept.                       *)
(***************************************************************************)
EXTENDS Estimates, Ranks

Severities == <<"urgent", "attention", "info">>
SeverityRank(flag) == CHOOSE rank \in 1 .. 3 : Severities[rank] = flag.severity

(* The codes in the order of the titles they are shown with.               *)
Titles ==
    << "OBLIGATIONS_OVERDUE", "MISSING_DOCUMENTS_BEFORE_DEADLINE", "ART53_NO_TURNOVER_INPUT",
       "RETENTION_MISSING_ON_RESIDENT", "MISSING_PAYMENT_PROOF", "FOREIGN_CLIENTS_NOT_DECLARED",
       "PT_IVA_CHARGED_ON_FOREIGN_INVOICE", "ART53_EXEMPTION_ACTIVE", "ART53_CEILING_CROSSED",
       "ART53_MARGIN_SHRINKING", "DUPLICATE_INVOICE_NUMBER", "ART53_CEILING_EXCEEDED_HISTORY",
       "ART53_EXEMPTION_AVAILABLE", "RETENTION_CHARGED_ON_NON_RESIDENT",
       "EU_INVOICES_REVERSE_CHARGE", "NON_EU_CLIENTS_NO_PT_VAT", "ART53_IN_TRANSITION_ZONE" >>

TitleRank(flag) == CHOOSE rank \in DOMAIN Titles : Titles[rank] = flag.code

Flag(code, severity) == [code |-> code, severity |-> severity, numbers |-> {}]
FlagIf(condition, code, severity) == IF condition THEN {Flag(code, severity)} ELSE {}

NumbersWhere(invoices, Keep(_)) ==
    {invoices[i].number : i \in {j \in DOMAIN invoices : Keep(invoices[j])}}

(* A flag about the invoices that are so, if any is.                       *)
FlagAbout(invoices, Keep(_), code, severity) ==
    LET numbers == NumbersWhere(invoices, Keep)
    IN  IF numbers = {} THEN {}
        ELSE {[code |-> code, severity |-> severity, numbers |-> numbers]}

(* Turnover of a civil year by where the client is.                        *)
TurnoverByScope(invoices, year) ==
    [scope \in {"national", "eu", "nonEu"} |->
        SumOf(invoices, LAMBDA i : i.date.year = year /\ ScopeOf(i.country) = scope,
              LAMBDA i : i.base)]

(***************************************************************************)
(* The exemption of article 53.                                            *)
(***************************************************************************)
(* A mutant's form: last year's figure is all that counts.                 *)
QualifiesOnFigure(p, ceiling) == p.turnoverPrevious <= ceiling

QualifiesHistorically(p, ceiling) ==
    p.turnoverPrevious <= ceiling /\ ~p.exports /\ p.residentPt

Exempt(p) == p.ivaRegime = "isento_art53"

ExemptionFlags(p, ceiling) ==
    LET qualifies == QualifiesHistorically(p, ceiling)
    IN  FlagIf(Exempt(p) /\ ~qualifies, "ART53_CEILING_EXCEEDED_HISTORY", "urgent") \union
        FlagIf(Exempt(p) /\ qualifies, "ART53_EXEMPTION_ACTIVE", "info") \union
        FlagIf(~Exempt(p) /\ qualifies, "ART53_EXEMPTION_AVAILABLE", "info")

(* The year in course, against the ceiling, a quarter more and a fifth     *)
(* less.                                                                   *)
LiveFlags(p, ceiling, national) ==
    LET transition == RoundScaled(ceiling * 125, 100)
        margin == RoundScaled(ceiling * 80, 100)
    IN  IF ~Exempt(p) THEN {}
        ELSE FlagIf(national > transition, "ART53_CEILING_CROSSED", "urgent") \union
             FlagIf(national \in ceiling + 1 .. transition,
                    "ART53_IN_TRANSITION_ZONE", "urgent") \union
             FlagIf(national \in margin + 1 .. ceiling, "ART53_MARGIN_SHRINKING", "attention")

Art53Flags(constants, p, national) ==
    IF p.turnoverPrevious = None THEN {Flag("ART53_NO_TURNOVER_INPUT", "attention")}
    ELSE IF constants.ceiling = None THEN {}
    ELSE ExemptionFlags(p, constants.ceiling) \union LiveFlags(p, constants.ceiling, national)

(***************************************************************************)
(* Clients abroad, and what is wrong with single invoices.                 *)
(***************************************************************************)
National(invoice) == ScopeOf(invoice.country) = "national"

ForeignFlags(invoices, p, turnover) ==
    LET Of(scope, code) ==
            IF turnover[scope] <= 0 THEN {}
            ELSE FlagAbout(invoices, LAMBDA i : ScopeOf(i.country) = scope, code, "info")
    IN  Of("eu", "EU_INVOICES_REVERSE_CHARGE") \union
        Of("nonEu", "NON_EU_CLIENTS_NO_PT_VAT") \union
        FlagIf((turnover["eu"] > 0 \/ turnover["nonEu"] > 0) /\ ~p.intraCommunity /\ ~p.exports,
               "FOREIGN_CLIENTS_NOT_DECLARED", "attention")

TermsFlags(invoices) ==
    FlagAbout(invoices, LAMBDA i : ~National(i) /\ i.ivaBp > 0,
              "PT_IVA_CHARGED_ON_FOREIGN_INVOICE", "urgent") \union
    FlagAbout(invoices, LAMBDA i : National(i) /\ i.retentionBp = 0,
              "RETENTION_MISSING_ON_RESIDENT", "attention") \union
    FlagAbout(invoices, LAMBDA i : ~National(i) /\ i.retentionBp > 0,
              "RETENTION_CHARGED_ON_NON_RESIDENT", "attention")

ProofFlags(invoices, day) ==
    FlagAbout(invoices, LAMBDA i : ~i.proof /\ DaysBetween(i.date, day) > 60,
              "MISSING_PAYMENT_PROOF", "attention")

Repeated(invoices) ==
    {invoices[i].number : i \in {j \in DOMAIN invoices :
        \E k \in DOMAIN invoices \ {j} : invoices[k].number = invoices[j].number}}

DuplicateFlags(invoices) ==
    FlagAbout(invoices, LAMBDA i : i.number \in Repeated(invoices),
              "DUPLICATE_INVOICE_NUMBER", "urgent")

(***************************************************************************)
(* The agenda.  A line is as Calendar builds it; a rule that asks for      *)
(* documents to be kept is in "keeping".                                   *)
(***************************************************************************)
AgendaFlags(agenda, keeping, documented, day, dueSoonDays) ==
    LET Open(i) == i.status \notin {"Done", "Untracked", "NotApplicable"}
        Undocumented(i) ==
            /\ Open(i) /\ i.rule \in keeping \ documented
            /\ DaysBetween(day, i.due) \in 0 .. dueSoonDays
    IN  FlagIf(\E i \in agenda : i.status = "Overdue", "OBLIGATIONS_OVERDUE", "urgent") \union
        FlagIf(\E i \in agenda : Undocumented(i), "MISSING_DOCUMENTS_BEFORE_DEADLINE", "attention")

(***************************************************************************)
(* The list.                                                               *)
(***************************************************************************)
Before(a, b) ==
    \/ SeverityRank(a) < SeverityRank(b)
    \/ SeverityRank(a) = SeverityRank(b) /\ TitleRank(a) < TitleRank(b)

SortedFlags(flags) == Enumerated(flags, {p \in flags \X flags : Before(p[1], p[2])})

ComputeFlags(constants, keeping, p, invoices, agenda, day, documented) ==
    LET turnover == TurnoverByScope(invoices, day.year)
    IN  SortedFlags(Art53Flags(constants, p, turnover["national"]) \union
                    ForeignFlags(invoices, p, turnover) \union TermsFlags(invoices) \union
                    ProofFlags(invoices, day) \union DuplicateFlags(invoices) \union
                    AgendaFlags(agenda, keeping, documented, day, 30))

Freshness(packYear, day) ==
    IF packYear = day.year THEN "current" ELSE IF packYear < day.year THEN "stale" ELSE "future"

(* pack_health_flags: of the pack, not of the person.                      *)
PackHealthFlags(packYear, proposed, day) ==
    LET state == Freshness(packYear, day)
    IN  (IF state = "current" THEN <<>>
         ELSE <<Flag("RULE_PACK_STALE", IF state = "stale" THEN "urgent" ELSE "info")>>) \o
        SetToSeq({Flag("VALUE_PROPOSED_BY_AI_UNCONFIRMED",
                       IF origin = "ai" THEN "urgent" ELSE "attention") : origin \in proposed})

SummariseFlags(flags) ==
    [severity \in {"urgent", "attention", "info"} |->
        Cardinality({i \in DOMAIN flags : flags[i].severity = severity})]
=============================================================================
