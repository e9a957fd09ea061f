------------------------------ MODULE Estimates ------------------------------
(***************************************************************************)
(* Arithmetic on the ledger (crates/core/src/estimate.rs): what is whose on*)
(* an invoice, the four quarters of a year with the contribution each owes,*)
(* and the cash to keep aside.  A constant the rule pack leaves empty is   *)
(* None.  What could not be checked is named, not worded.                  *)
(***************************************************************************)
EXTENDS Conditions, Dates, Money, SequencesExt

NationalCountries == {"PT"}
EuCountries == {"AT", "BE", "BG", "HR", "CY", "CZ", "DK", "EE", "FI", "FR", "DE", "GR", "HU",
                "IE", "IT", "LV", "LT", "LU", "MT", "NL", "PL", "PT", "RO", "SK", "SI", "ES", "SE"}

ScopeOf(country) ==
    IF country \in NationalCountries THEN "national"
    ELSE IF country \in EuCountries THEN "eu"
    ELSE "nonEu"

InvoiceTotals(invoice) ==
    LET iva == ApplyBp(invoice.base, invoice.ivaBp)
        retention == ApplyBp(invoice.base, invoice.retentionBp)
    IN  [base |-> invoice.base, iva |-> iva, retention |-> retention,
         net |-> invoice.base + iva - retention]

InRange(invoice, start, end) ==
    ~Earlier(invoice.date, start) /\ ~Earlier(end, invoice.date)

(* Amounts added up in the order they stand.                               *)
Total(amounts) ==
    LET upTo[n \in 0 .. Len(amounts)] == IF n = 0 THEN 0 ELSE upTo[n - 1] + amounts[n]
    IN  upTo[Len(amounts)]

SumOf(invoices, Keep(_), Amount(_)) ==
    Total([k \in DOMAIN invoices |-> IF Keep(invoices[k]) THEN Amount(invoices[k]) ELSE 0])

TotalsOf(invoices, Keep(_)) ==
    [base |-> SumOf(invoices, Keep, LAMBDA i : i.base),
     iva |-> SumOf(invoices, Keep, LAMBDA i : InvoiceTotals(i).iva),
     retention |-> SumOf(invoices, Keep, LAMBDA i : InvoiceTotals(i).retention),
     count |-> SumOf(invoices, Keep, LAMBDA i : 1)]

PeriodTotals(invoices, start, end) == TotalsOf(invoices, LAMBDA i : InRange(i, start, end))

OrZero(constant) == IF constant = None THEN 0 ELSE constant

(* estimate_social_security: a share of the income, a rate of the share.   *)
EstimateSocialSecurity(constants, income, instalments) ==
    LET relevant == ApplyBp(income, OrZero(constants.share))
        contribution == ApplyBp(relevant, OrZero(constants.rate))
        parts == IF instalments < 1 THEN 1 ELSE instalments
    IN  [income |-> income, relevant |-> relevant, contribution |-> contribution,
         instalments |-> SplitEvenly(contribution, parts),
         limitations |-> {c \in {"share", "rate", "ias"} : constants[c] = None}]

QuarterReport(constants, invoices, year, quarter) ==
    LET totals == PeriodTotals(invoices, QuarterStart(year, quarter), QuarterEnd(year, quarter))
    IN  [totals |-> totals,
         socialSecurity |-> EstimateSocialSecurity(constants, totals.base, 3)]

Quarters(constants, invoices, year) ==
    [quarter \in 1 .. 4 |-> QuarterReport(constants, invoices, year, quarter)]

EstimateReserve(constants, invoices, day, lowBp, highBp) ==
    LET totals == PeriodTotals(invoices, Date(day.year, 1, 1), day)
    IN  [basis |-> totals.base, low |-> ApplyBp(totals.base, lowBp),
         high |-> ApplyBp(totals.base, highBp),
         limitations |-> {c \in {"documentedExpenses"} : constants[c] = None}]
=============================================================================
