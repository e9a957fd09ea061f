------------------------------- MODULE Receipt -------------------------------
(***************************************************************************)
(* From the rows of a document to a record of the ledger (crates/core/src/ *)
(* receipt.rs), and the form in between (crates/ui/src/pages/              *)
(* receipt_form.rs).                                                       *)
(*                                                                         *)
(* A row is a sequence of tokens, each of a kind: a word, folded as        *)
(* normalise_with_map folds it, with a number it carries along; an amount  *)
(* in cents; a percentage in basis points; a tax number; a date, as        *)
(* yyyymmdd; a document number in brackets.  A label is a sequence of      *)
(* words.  ATCUD codes and the wording of problems are left out.           *)
(***************************************************************************)
EXTENDS Estimates, TaxNumber

CONSTANT CountryCodes   \* words that are the two letters of a country

Token(kind, word, n) == [kind |-> kind, word |-> word, n |-> n]
Word(word) == Token("word", word, 0)
Amount(cents) == Token("amount", "", cents)
Percent(bp) == Token("percent", "", bp)
PercentInFull(bp) == Token("percent", "decimals", bp)   \* 23,00% and not 23%
Nif(n) == Token("nif", "", n)
Day(n) == Token("date", "", n)
Number(n) == Token("number", "", n)

(***************************************************************************)
(* Rows and labels.                                                        *)
(***************************************************************************)
Begins(row, label) ==
    Len(label) <= Len(row) /\ \A i \in DOMAIN label : row[i] = Word(label[i])

From(row, i) == SubSeq(row, i, Len(row))

Holds(row, label) == \E i \in DOMAIN row : Begins(From(row, i), label)

HoldsAny(row, labels) == \E label \in labels : Holds(row, label)
BeginsAny(row, labels) == \E label \in labels : Begins(row, label)

FirstOf(list, Test(_)) ==
    LET found == {i \in DOMAIN list : Test(list[i])} IN IF found = {} THEN None ELSE list[Min(found)]

(* Where in a row tokens of a kind stand, and what the first of them says. *)
OfKind(row, kind) == {i \in DOMAIN row : row[i].kind = kind}

First(row, kind) == row[Min(OfKind(row, kind))]

ValueIn(row, kind) ==
    IF row = None THEN None ELSE IF OfKind(row, kind) = {} THEN None ELSE First(row, kind).n

(* money_tokens: a percentage printed with two decimals is one as well.    *)
MoneyTokens(row) ==
    OfKind(row, "amount") \union {i \in OfKind(row, "percent") : row[i].word = "decimals"}

LastAmount(row) == IF MoneyTokens(row) = {} THEN None ELSE row[Max(MoneyTokens(row))].n

(* A total to be paid or received is another figure than the total.        *)
Labelled(row, label) ==
    /\ Begins(row, label)
    /\ ~(label = <<"total">> /\ BeginsAny(row, {<<"total", "a", "pagar">>, <<"total", "a", "receber">>}))

(* amount_for_label: the labels are tried in turn over all the rows.       *)
AmountForLabel(rows, labels) ==
    LET found(k) == {i \in DOMAIN rows : Labelled(rows[i], labels[k]) /\ LastAmount(rows[i]) # None}
        tried == {k \in DOMAIN labels : found(k) # {}}
    IN  IF tried = {} THEN None ELSE LastAmount(rows[Min(found(Min(tried)))])

(***************************************************************************)
(* Sections.                                                               *)
(***************************************************************************)
SectionMarker(row) ==
    CASE BeginsAny(row, {<<"dados", "do", "transmitente">>, <<"dados", "do", "prestador">>,
                         <<"dados", "do", "vendedor">>}) -> "issuer"
      [] BeginsAny(row, {<<"dados", "do", "adquirente">>, <<"dados", "do", "cliente">>,
                         <<"dados", "do", "comprador">>}) -> "customer"
      [] BeginsAny(row, {<<"dados", "da", "transmissao">>, <<"dados", "da", "prestacao">>,
                         <<"detalhes", "da">>}) -> "body"
      [] BeginsAny(row, {<<"iva">>, <<"resumo", "de", "iva">>})
         \/ (Begins(row, <<"taxa">>) /\ Holds(row, <<"motivo">>)) -> "vat"
      [] BeginsAny(row, {<<"irs">>, <<"retencao", "na", "fonte">>}) -> "irs"
      [] BeginsAny(row, {<<"totais", "do", "documento">>, <<"resumo", "do", "documento">>}) -> "totals"
      [] OTHER -> "none"

(* split_sections: a section that begins again begins anew.                *)
Section(rows, key) ==
    LET starts == {i \in DOMAIN rows : SectionMarker(rows[i]) = key}
        start == Max(starts)
        after == {i \in DOMAIN rows : i > start /\ SectionMarker(rows[i]) # "none"}
    IN  IF starts = {} THEN None
        ELSE SubSeq(rows, start + 1, IF after = {} THEN Len(rows) ELSE Min(after) - 1)

(***************************************************************************)
(* Parties.                                                                *)
(***************************************************************************)
NobodyKnown == [name |-> None, nif |-> None, address |-> None]

(* The name on its own row, or on the one that follows its label.          *)
NameIn(rows) ==
    LET beside == FirstOf(rows, LAMBDA r : Begins(r, <<"nome">>) /\ Len(r) > 1 /\ r[2] # Word("/"))
        bare == {i \in DOMAIN rows : rows[i] = <<Word("nome")>> /\ i < Len(rows)
                                     /\ ValueIn(rows[i + 1], "nif") = None}
    IN  IF beside # None THEN Tail(beside)
        ELSE IF bare # {} THEN rows[Min(bare) + 1] ELSE None

AddressWords == {"domicilio", "sede", "morada", "endereco"}

AddressIn(rows) ==
    LET row == FirstOf(rows, LAMBDA r : \E i \in DOMAIN r : r[i].word \in AddressWords)
        at == Min({i \in DOMAIN row : row[i].word \in AddressWords})
    IN  IF row = None \/ at = Len(row) THEN None ELSE From(row, at + 1)

PartyFrom(rows) ==
    IF rows = None THEN NobodyKnown
    ELSE [name |-> NameIn(rows),
          nif |-> ValueIn(FirstOf(rows, LAMBDA r : Holds(r, <<"identificacao", "fiscal">>)
                                                   \/ BeginsAny(r, {<<"nif">>, <<"nipc">>})), "nif"),
          address |-> AddressIn(rows)]

Digits(n) == [i \in 1 .. 9 |-> (n \div 10 ^ (9 - i)) % 10]

ValidNif(n) == n # None /\ IsValidPtTaxNumber(Digits(n))

(* customer_country_hint.                                                  *)
CountryHint(customer) ==
    IF ValidNif(customer.nif) THEN "PT"
    ELSE IF customer.address = None THEN None
    ELSE IF \E i \in DOMAIN customer.address : customer.address[i] = Word("portugal") THEN "PT"
    ELSE IF Last(customer.address).word \in CountryCodes THEN Last(customer.address).word
    ELSE None

(***************************************************************************)
(* What kind of document it is, when it was issued and for what.           *)
(***************************************************************************)
Kinds == << <<"fatura-recibo">>, <<"fatura", "simplificada">>, <<"nota", "de", "credito">>,
            <<"nota", "de", "debito">>, <<"fatura">>, <<"recibo">> >>

DocumentKind(row) ==
    LET named == {k \in DOMAIN Kinds : Holds(row, Kinds[k])}
    IN  IF named = {} THEN None ELSE Kinds[Min(named)]

(* iso_from_portuguese: a day the month has, or nothing.                   *)
IsoFrom(n) ==
    LET date == Date(n \div 10000, (n \div 100) % 100, n % 100)
    IN  IF n = None THEN None
        ELSE IF date.month \notin 1 .. 12 THEN None
        ELSE IF date.day \notin 1 .. DaysInMonth(date.year, date.month) THEN None
        ELSE date

(* The row of the date is the first that names one, be there a date in it  *)
(* or not.                                                                 *)
IssueDate(rows) ==
    LET named == FirstOf(rows, LAMBDA r :
            HoldsAny(r, {<<"emitida", "em">>, <<"emitido", "em">>, <<"data", "de", "emissao">>,
                         <<"data", "da", "fatura">>})
            \/ BeginsAny(r, {<<"data">>, <<"emitido">>}))
        row == IF named # None THEN named ELSE FirstOf(rows, LAMBDA r : OfKind(r, "date") # {})
    IN  IsoFrom(ValueIn(row, "date"))

(* The text of a row, up to the first figure.                              *)
WithoutFigures(row) ==
    LET figures == {i \in DOMAIN row : row[i].kind \in {"amount", "percent"}}
    IN  IF figures = {} THEN row ELSE SubSeq(row, 1, Min(figures) - 1)

NotADescription ==
    {"valor", "descricao", "qtd", "quantidade", "unitario", "desconto", "taxa", "total", "data",
     "documento", "nome", "nif", "numero", "atcud", "iva", "irs", "base", "retencao", "imposto",
     "pagina", "original", "duplicado", "unidade"}

(* The labelled one that is not the head of a table, or the longest row    *)
(* under the head.                                                         *)
DescriptionFrom(body) ==
    LET labelled == FirstOf(body, LAMBDA r :
            /\ BeginsAny(r, {<<"descricao">>, <<"referencia">>})
            /\ WithoutFigures(Tail(r)) # <<>>
            /\ ~HoldsAny(Tail(r), {<<"qtd">>, <<"unitario">>, <<"desconto">>, <<"taxa">>, <<"total">>}))
        heads == {i \in DOMAIN body : Begins(body[i], <<"descricao">>)}
        below == IF heads = {} THEN body ELSE From(body, Min(heads) + 1)
        texts == {WithoutFigures(below[i]) : i \in {j \in DOMAIN below :
                    OfKind(below[j], "nif") = {} /\ OfKind(below[j], "date") = {}
                    /\ below[j][1].word \notin NotADescription}} \ {<<>>}
    IN  IF labelled # None THEN WithoutFigures(Tail(labelled))
        ELSE IF texts = {} THEN None
        ELSE CHOOSE t \in texts : \A u \in texts : Len(u) <= Len(t)

RetentionReason(rows) ==
    FirstOf(rows, LAMBDA r : HoldsAny(r, {<<"sem", "retencao">>, <<"art.", "101">>,
                                          <<"nao", "sujeito", "a", "retencao">>}))

Purpose(rows) ==
    FirstOf(rows, LAMBDA r : Begins(r, <<"documento", "emitido", "a", "titulo", "de">>))

DeclaresPaid(kind, purpose) ==
    kind = <<"fatura-recibo">> \/ (purpose # None /\ Holds(purpose, <<"pagamento">>))

(***************************************************************************)
(* The rate of IVA.                                                        *)
(***************************************************************************)
(* What is read is what stands before the place where percentage_at finds  *)
(* the percentage: nothing, or the digit that is one too many for it.      *)
RateBefore(percent) == IF percent.n < 10000 THEN {} ELSE {100}

VatRates(rows, base, iva) ==
    LET printed == UNION {RateBefore(First(rows[i], "percent")) :
            i \in {j \in DOMAIN rows : HoldsAny(rows[j], {<<"taxa">>, <<"iva">>})
                                       /\ OfKind(rows[j], "percent") # {}}}
    IN  IF printed # {} THEN printed
        ELSE IF base = None \/ iva = None THEN {}
        ELSE IF base <= 0 THEN {} ELSE {RoundScaled(iva * 10000, base)}

OnlyRate(rates) == IF Cardinality(rates) = 1 THEN CHOOSE r \in rates : TRUE ELSE None

(***************************************************************************)
(* The document against itself.  A check that cannot be made is not there. *)
(***************************************************************************)
Check(id, ok) == {[id |-> id, ok |-> ok]}

Known(figures) == None \notin figures

BuildChecks(f, rate, issuer, customer) ==
    (IF Known({f.total, f.iva, f.base, f.stamp})
     THEN Check("total", f.base + f.iva + f.stamp = f.total) ELSE {}) \union
    (IF Known({f.total, f.net, f.retention, f.iva, f.base})
     THEN Check("payable", f.base + f.iva + OrZero(f.stamp) - f.retention = f.net) ELSE {}) \union
    (IF Known({f.base, f.iva, rate}) THEN Check("rate", ApplyBp(f.base, rate) = f.iva) ELSE {}) \union
    (IF issuer.nif # None THEN Check("nif-prestador", ValidNif(issuer.nif)) ELSE {}) \union
    (IF customer.nif # None THEN Check("nif-adquirente", ValidNif(customer.nif)) ELSE {})

(***************************************************************************)
(* parse_receipt.                                                          *)
(***************************************************************************)
Figures(rows) ==
    [base |-> AmountForLabel(rows, << <<"valor", "iliquido">>, <<"total", "iliquido">>,
                 <<"base", "de", "incidencia">>, <<"valor", "sem", "iva">>, <<"subtotal">>,
                 <<"valor", "tributavel">> >>),
     iva |-> AmountForLabel(rows, << <<"iva">>, <<"total", "de", "iva">>, <<"valor", "iva">> >>),
     stamp |-> AmountForLabel(rows, << <<"imposto", "do", "selo">>, <<"selo">> >>),
     total |-> AmountForLabel(rows, << <<"total", "do", "documento">>, <<"total", "da", "fatura">>,
                 <<"total">> >>),
     retention |-> AmountForLabel(rows, << <<"retencao", "na", "fonte", "irs">>,
                 <<"retencao", "na", "fonte">>, <<"retencao", "irs">>, <<"valor", "irs">> >>),
     net |-> AmountForLabel(rows, << <<"total", "a", "pagar">>, <<"total", "a", "receber">>,
                 <<"liquido", "a", "pagar">> >>)]

ParseReceipt(rows, unread) ==
    LET named == FirstOf(rows, LAMBDA r : DocumentKind(r) # None)
        kind == IF named = None THEN None ELSE DocumentKind(named)
        body == Section(rows, "body")
        issuer == PartyFrom(Section(rows, "issuer"))
        customer == PartyFrom(Section(rows, "customer"))
        figures == Figures(rows)
        rate == OnlyRate(VatRates(rows, figures.base, figures.iva))
        checks == BuildChecks(figures, rate, issuer, customer)
    IN  [kind |-> kind, number |-> ValueIn(named, "number"), date |-> IssueDate(rows),
         issuer |-> issuer, customer |-> customer,
         description |-> IF body = None THEN None ELSE DescriptionFrom(body),
         figures |-> figures, rate |-> rate, reason |-> RetentionReason(rows),
         paid |-> DeclaresPaid(kind, Purpose(rows)),
         country |-> CountryHint(customer), checks |-> checks,
         problems |-> unread \union {c.id : c \in {d \in checks : ~d.ok}} \union
                      (IF Section(rows, "issuer") = None THEN {"issuer"} ELSE {}) \union
                      (IF figures.base = None THEN {"base"} ELSE {})]

(***************************************************************************)
(* The form.                                                               *)
(***************************************************************************)
(* A mutant's form: whatever comes nearest is taken.                       *)
RetentionBpNearest(base, retention) ==
    IF base <= 0 THEN None ELSE RoundScaled(retention * 10000, base)

(* retention_bp_for: a rate is taken only when it gives the amount back.   *)
RetentionBpFor(base, retention) ==
    LET candidate == RoundScaled(retention * 10000, base)
    IN  IF base <= 0 THEN None
        ELSE IF ApplyBp(base, candidate) = retention THEN candidate ELSE None

(* percent_text and percent_bp, the latter on two decimals at most.        *)
PercentText(bp) ==
    IF bp = None THEN Blank
    ELSE IF bp % 100 = 0 THEN Text(bp < 0, <<Block(Magnitude(bp) \div 100, Width(Magnitude(bp) \div 100))>>, <<>>)
    ELSE Text(bp <= -100, <<Block(Magnitude(bp) \div 100, Width(Magnitude(bp) \div 100)),
                            Block(Magnitude(bp) % 100, 2)>>, <<",">>)

AmountText(cents) == IF cents = None THEN Blank ELSE FormatEur(cents)

ReadText(text) == IF ParseEur(text).read THEN ParseEur(text).value ELSE None

Or(v, otherwise) == IF v = None THEN otherwise ELSE v

(* A mutant's form: a country that was not read is left empty.             *)
FormReadBlank(draft) ==
    [number |-> draft.number, date |-> draft.date, name |-> draft.customer.name,
     nif |-> draft.customer.nif, country |-> draft.country,
     base |-> AmountText(draft.figures.base), ivaRate |-> PercentText(draft.rate),
     retentionRate |-> Blank]

(* Form::read.  A client whose country is not known is a Portuguese one.   *)
FormRead(draft) ==
    [number |-> draft.number, date |-> draft.date, name |-> draft.customer.name,
     nif |-> draft.customer.nif, country |-> Or(draft.country, "PT"),
     base |-> AmountText(draft.figures.base), ivaRate |-> PercentText(draft.rate),
     retentionRate |-> PercentText(IF draft.figures.retention = None THEN None
                         ELSE RetentionBpFor(OrZero(draft.figures.base), draft.figures.retention))]

Confirmation(form) ==
    [form EXCEPT !.base = ReadText(@), !.ivaRate = ReadText(@), !.retentionRate = ReadText(@)]

(***************************************************************************)
(* invoice_from_receipt.                                                   *)
(***************************************************************************)
Treatment(country, rate) ==
    IF country = None THEN None
    ELSE CASE ScopeOf(country) = "national" ->
                IF rate # None /\ OrZero(rate) > 0 THEN "iva_pt" ELSE "isento_art53"
           [] ScopeOf(country) = "eu" -> "autoliquidacao_ue"
           [] ScopeOf(country) = "nonEu" -> "exportacao"

(* Whose invoice it is.                                                    *)
Whose(draft, profileNif) ==
    (IF draft.issuer.nif \notin {None, profileNif} THEN {"issuer"} ELSE {}) \union
    (IF draft.issuer.nif = None /\ draft.customer.nif = profileNif THEN {"customer"} ELSE {})

Differs(read, used) == read # None /\ used # None /\ read # used

InvoiceFromReceipt(draft, confirmed, profileNif, packRetention, fallback, archived) ==
    LET country == Or(confirmed.country, draft.country)
        base == Or(confirmed.base, draft.figures.base)
        printed == Or(confirmed.ivaRate, draft.rate)
        treatment == Treatment(country, printed)
        rate == IF treatment \in {None, "iva_pt"} THEN printed ELSE 0
        derived == IF draft.figures.retention = None THEN None
                   ELSE RetentionBpFor(OrZero(base), draft.figures.retention)
        retention == OrZero(Or(confirmed.retentionRate, derived))
        number == Or(confirmed.number, draft.number)
        date == Or(confirmed.date, draft.date)
        nif == Or(confirmed.nif, draft.customer.nif)
        name == Or(confirmed.name, draft.customer.name)
        refused == Whose(draft, profileNif) \union
            (IF country = None THEN {"country"} ELSE {}) \union
            (IF OrZero(base) <= 0 THEN {"base"} ELSE {})
        lacking == IF name = None THEN {"name"} ELSE IF date = None THEN {"date"} ELSE {}
        problems == IF refused # {} THEN refused ELSE lacking
    IN  [problems |-> problems,
         warnings |->
            (IF draft.issuer.nif = None /\ draft.customer.nif = None THEN {"nobody"} ELSE {}) \union
            (IF rate = 0 /\ OrZero(printed) # 0 THEN {"rate"} ELSE {}) \union
            (IF confirmed.retentionRate = None /\ derived = None /\ OrZero(base) > 0
                /\ draft.figures.retention # None THEN {"retention"} ELSE {}) \union
            (IF retention \notin {0, packRetention} /\ packRetention # None
                /\ country # None /\ ScopeOf(country) = "national" THEN {"pack"} ELSE {}) \union
            (IF OrZero(draft.figures.stamp) # 0 THEN {"stamp"} ELSE {}) \union
            (IF draft.reason # None /\ retention = 0 THEN {"reason"} ELSE {}),
         divergences |->
            (IF Differs(draft.number, number) THEN {"number"} ELSE {}) \union
            (IF Differs(draft.date, date) THEN {"date"} ELSE {}) \union
            (IF Differs(draft.customer.nif, nif) THEN {"nif"} ELSE {}) \union
            (IF Differs(draft.figures.base, base) THEN {"base"} ELSE {}) \union
            (IF Differs(draft.rate, rate) THEN {"rate"} ELSE {}),
         invoice |->
            IF problems # {} THEN None
            ELSE [number |-> Or(number, fallback), date |-> date, client |-> name, nif |-> nif,
                  country |-> country, base |-> base, ivaBp |-> OrZero(rate),
                  treatment |-> treatment, retentionBp |-> retention,
                  status |-> IF draft.paid THEN "paid" ELSE "issued", proof |-> archived]]
=============================================================================
