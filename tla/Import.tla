------------------------------- MODULE Import -------------------------------
(***************************************************************************)
(* A document on its way into the ledger: the file is read, what it says   *)
(* is put in a form, the form is corrected and saved (parse_receipt and    *)
(* save_receipt of crates/ui/src/app.rs over Pdf and Receipt).  Reading is *)
(* one call: it runs to its end whatever the file holds, and the person    *)
(* waits for it.  The document was put in the vault before, or was not;    *)
(* Window says what becomes of it there.                                   *)
(*                                                                         *)
(* document.says is what the paper says, which the program does not see.   *)
(***************************************************************************)
EXTENDS Receipt, Pdf

CONSTANTS
    ProfileNif,     \* the person's tax number
    PackRetention,  \* the rate of withholding in the rule pack
    TypedInto,      \* for each field of the form what can be typed into it
    MaxEdits        \* bound: fields corrected

(* An amount begins with a digit, so none is below zero (money_tokens,     *)
(* percentage_at).                                                         *)
Figured(token) == token.kind \in {"amount", "percent"} => token.n \in Nat

FiguredText(text) == IsList(text) /\ \A token \in ToSet(text) : Figured(token)

ASSUME FiguresAssumption ==
    /\ Figured(Glyphs)
    /\ \A d \in Dictionaries : d.stream # Absent =>
          \A k \in DOMAIN d.stream.program : \A string \in ToSet(d.stream.program[k].strings) :
             FiguredText(string.tokens)
ASSUME EditsAssumption == MaxEdits \in Nat

VARIABLES
    archived,   \* the document is in the vault
    draft,      \* what was read of it, or None
    form,       \* the form, or None
    edits,      \* fields corrected
    told,       \* what the form shows: problems and warnings
    book        \* the invoices recorded

import == <<archived, draft, form, edits, told, book>>
vars == <<reader, import>>

Said(problemsShown, warningsShown) == [problems |-> problemsShown, warnings |-> warningsShown]

ImportInit ==
    /\ Init
    /\ archived \in BOOLEAN
    /\ draft = None /\ form = None /\ edits = 0 /\ told = Said({}, {}) /\ book = <<>>

Reading == ReaderStep /\ UNCHANGED import

Parse ==
    /\ stage = "done" /\ draft = None /\ book = <<>>
    /\ draft' = ParseReceipt(rows, problems)
    /\ form' = FormRead(draft')
    /\ told' = Said(draft'.problems, {})
    /\ UNCHANGED <<reader, archived, edits, book>>

Correct ==
    /\ form # None /\ edits < MaxEdits
    /\ \E field \in DOMAIN TypedInto : \E typed \in TypedInto[field] :
          form' = [form EXCEPT ![field] = typed]
    /\ edits' = edits + 1
    /\ UNCHANGED <<reader, archived, draft, told, book>>

(* What the form is saved as.  An empty field falls back on the draft.     *)
Result ==
    InvoiceFromReceipt(draft, Confirmation(form), ProfileNif, PackRetention, "S/N", archived)

Refused ==
    /\ form # None /\ Result.invoice = None
    /\ told' = Said(Result.problems, Result.warnings)
    /\ UNCHANGED <<reader, archived, draft, form, edits, book>>

(* The form is closed, and its warnings with it.                           *)
Recorded ==
    /\ form # None /\ Result.invoice # None
    /\ book' = Append(book, Result.invoice)
    /\ draft' = None /\ form' = None /\ told' = Said({}, {})
    /\ UNCHANGED <<reader, archived, edits>>

(* The ledger could not be written.                                        *)
NotWritten ==
    /\ form # None /\ Result.invoice # None
    /\ told' = Said({"ledger"}, Result.warnings)
    /\ UNCHANGED <<reader, archived, draft, form, edits, book>>

SaveReceipt == Refused \/ Recorded \/ NotWritten

Next == Reading \/ Parse \/ Correct \/ SaveReceipt

(* Reading is a call within one turn of the window's loop, in which nothing*)
(* waits for anything: what it has begun it goes on with.  Nothing is fair *)
(* to the person, who may leave the form as it is.                         *)
Fairness == WF_vars(Reading)

Spec == ImportInit /\ [][Next]_vars /\ Fairness

(***************************************************************************)
(* Properties.                                                             *)
(***************************************************************************)
(* The variables have their types; a client has a country in the form,     *)
(* which no field of the draft can take from it, only who types.           *)
Stages == {"objects", "tree", "pages", "content", "rows", "done"}

ReaderProblems ==
    {"object streams", "not a PDF", "encrypted", "no objects", "page tree", "no pages",
     "font without a map", "stream", "undeclared font", "no text"}

TypeOK ==
    /\ stage \in Stages /\ scanned \in 0 .. Len(document.entries)
    /\ DOMAIN objects \subseteq {document.entries[k].num : k \in 1 .. scanned}
    /\ page \in 0 .. Len(pages)
    /\ \A k \in DOMAIN pending : pending[k].depth \in 0 .. MaxDepth + 1
    /\ problems \subseteq ReaderProblems
    /\ draft = None \/ draft.rate \in Nat \union {None}
    /\ \/ form = None
       \/ form.country \in CountryCodes \union {"PT"}
       \/ edits > 0 /\ form.country \in TypedInto["country"]
    /\ Len(book) <= 1 /\ edits \in 0 .. MaxEdits

(* Whatever the file holds, a tree that hangs from itself included, the    *)
(* reading comes to an end: collect_pages stops at a depth, every loop of  *)
(* the reader takes something off what it has to do.                       *)
Finishes == <>(stage = "done")

(* The pages read are those the tree holds, each with the resources of the *)
(* nearest node above it that has any; and texts of a page share a row     *)
(* when they stand on one baseline, never when they stand as far apart as  *)
(* two rows of the narrowest form do.  A place in the tree is a value and  *)
(* what it inherits.                                                       *)
Nearest(node, inherited) == IF node.resources # Absent THEN node.resources ELSE inherited

Hung(place) ==
    LET node == Dictionary(place[1])
        kids == IF node = Absent THEN Absent ELSE Resolve(node.kids)
    IN  IF ~IsArray(kids) \/ node.type = "Page" THEN {}
        ELSE {<<kids.array[k], Nearest(node, place[2])>> : k \in DOMAIN kids.array}

Below(places) == UNION {Hung(place) : place \in places}

Catalogs == {m \in DOMAIN objects : objects[m].type = "Catalog"}

Roots == {<<objects[n].pages, Absent>> : n \in {Min(Catalogs)}}

Level[depth \in 0 .. MaxDepth] == IF depth = 0 THEN Roots ELSE Below(Level[depth - 1])

HoldsPage(place) == Dictionary(place[1]) # Absent /\ Dictionary(place[1]).type = "Page"

PageAt(place) ==
    LET node == Dictionary(place[1])
    IN  [resources |-> Nearest(node, place[2]), contents |-> ContentObjects(node)]

PagesOf(places) == {PageAt(place) : place \in {held \in places : HoldsPage(held)}}

PagesInherit ==
    (stage = "tree" /\ pending = <<>> /\ pages # <<>>) =>
        ToSet(pages) = PagesOf(UNION {Level[depth] : depth \in 0 .. MaxDepth})

LinesApart ==
    \A k, j \in DOMAIN lines : \A a \in ToSet(lines[k].members) : \A b \in ToSet(lines[j].members) :
        /\ k = j => Distance(a.y, b.y) <= 35
        /\ a.y = b.y => k = j

TextFaithful == PagesInherit /\ LinesApart

(* A file that gave no text, or a page whose content could not be inflated,*)
(* is never handed over in silence.                                        *)
SilenceSaid ==
    stage = "done" =>
        /\ rows = <<>> => problems # {}
        /\ \A k \in DOMAIN pages : \A c \in ToSet(pages[k].contents) :
              CannotDecode(objects[c.ref]) => "stream" \in problems

(* Every field is as it was read, or was emptied.                          *)
Emptied(field) == IF field \in {"base", "ivaRate", "retentionRate"} THEN Blank ELSE None

NothingTyped ==
    \A field \in DOMAIN form : form[field] \in {FormRead(draft)[field], Emptied(field)}

(* Nothing that says it is somebody else's is recorded, whatever is typed; *)
(* and what is recorded of a document about which nothing was said, and in *)
(* which nobody wrote anything else, even when fields were emptied, gives  *)
(* back the figures on the paper, from the base to the amount received:    *)
(* they are not stored, the ledger works them out of two rates.            *)
RecordedIsTrue ==
    [][Recorded =>
        LET totals == InvoiceTotals(Last(book'))
            says == document.says
            quiet == NothingTyped /\ draft.problems = {} /\ Result.warnings = {}
        IN  /\ says.issuer \in {None, ProfileNif}
            /\ quiet => /\ totals.base = says.base
                        /\ says.iva # None => totals.iva = says.iva
                        /\ totals.retention = OrZero(says.retention)
                        /\ Known({says.net, says.total, says.iva, says.retention})
                              => totals.net = says.net]_vars

(* receipt.rs:11-12: "The document is checked against itself. A fatura     *)
(* states its base, its VAT rate, its VAT, its stamp duty and its totals;  *)
(* those have to agree."                                                   *)
PrintedRateChecked ==
    LET says == document.says
    IN  (draft # None /\ Known({says.base, says.rate, says.iva})) =>
            \/ says.iva = 0
            \/ ApplyBp(says.base, says.rate) = says.iva
            \/ draft.problems # {}
=============================================================================
