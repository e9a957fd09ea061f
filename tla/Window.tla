------------------------------- MODULE Window -------------------------------
(***************************************************************************)
(* The window and the model it draws: App::perform, parse_receipt and      *)
(* save_receipt (crates/ui/src/app.rs) over a vault with one writer.  The  *)
(* interface runs in one thread, so a handler is one step; what can fall   *)
(* between two handlers is a fault of the vault half way through one, the  *)
(* death of the process, and time.  How a vault operation fails inside is  *)
(* the matter of Vault; here it fails before, or after, it has written.    *)
(*                                                                         *)
(* A document stands for its bytes and its stored name.                    *)
(***************************************************************************)
EXTENDS Naturals, Sequences, FiniteSets, FiniteSetsExt

CONSTANTS
    None,
    Unreadable,  \* what profile.json holds when it is not a profile
    Documents,   \* the PDFs the person has
    Nifs,        \* tax numbers
    IssuerOf,    \* the issuer a document names; None when it cannot be read
    Obligations, \* what the agenda can offer to mark as handled
    MaxReads,    \* bound: documents read in a behaviour
    MaxLines,    \* bound: invoices in the ledger, failed attempts included
    MaxSeconds,  \* bound: the clock stops here
    Faults       \* which faults the vault and the environment can inject

FaultKinds ==
    {"before",  \* an operation fails having written nothing
     "archive", \* add_document fails after the index was written
     "link",    \* link_document_to_invoice fails, before or after writing
     "record",  \* a ledger line is written and its audit line is not
     "spoil"}   \* somebody leaves profile.json unreadable

ASSUME NoDocumentAssumption == None \notin Documents
ASSUME IssuerAssumption == IssuerOf \in [Documents -> Nifs \union {None}]
ASSUME BoundsAssumption == MaxReads \in Nat /\ MaxLines \in Nat /\ MaxSeconds \in Nat
ASSUME WindowFaultsAssumption == Faults \subseteq FaultKinds

VARIABLES
    ledger,      \* ledger/invoices.jsonl
    completions, \* the ids in obligations/completions.jsonl
    index,       \* documents/index.json
    profile,     \* profile.json: None, unreadable, or a profile
    model,       \* App::model; None while the vault cannot be read
    receipt,     \* App::receipt, the import form
    editing,     \* App::profile.open
    reads,       \* how many documents were read
    now,         \* the clock, in seconds
    acked,       \* the lines of the ledger whose save returned Ok (history)
    unseen       \* whether the vault was written since the model was built, by
                 \* what reported an error or by somebody else (history)

vault == <<ledger, completions, index, profile>>
history == <<acked, unseen>>
vars == <<vault, model, receipt, editing, reads, now, history>>

(* A profile is what the form edits and what it never shows: has_employees *)
(* and the other fields build_profile carries over or fills in.            *)
Profiles == [nif : Nifs, rest : {"declared", "default"}]

Ids == (1 .. MaxLines) \X (0 .. MaxSeconds)
Drafts == [doc : Documents, read : 1 .. MaxReads]
Invoices == [id : Ids, draft : Drafts, proof : Documents \union {None}]
Entries == [file : Documents, invoice : Ids \union {None}]
Models == [invoices : Seq(Invoices), profile : Profiles \union {None},
           done : SUBSET Obligations, entries : Seq(Entries)]

TypeOK ==
    /\ ledger \in Seq(Invoices)
    /\ completions \subseteq Obligations
    /\ index \in Seq(Entries)
    /\ profile \in Profiles \union {None, Unreadable}
    /\ model \in Models \union {None}
    /\ receipt \in [open : BOOLEAN, stage : {"Idle", "Confirm"},
                    draft : Drafts \union {None}, file : Documents \union {None}]
    /\ editing \in BOOLEAN
    /\ reads \in 0 .. MaxReads
    /\ now \in 0 .. MaxSeconds
    /\ acked \subseteq DOMAIN ledger
    /\ unseen \in BOOLEAN

(***************************************************************************)
(* build_model: everything is read again, or nothing is shown.             *)
(***************************************************************************)

BuildModel(invoices, done, entries, p) ==
    IF p = Unreadable
    THEN None
    ELSE [invoices |-> invoices, profile |-> p,
          done |-> IF p = None THEN {} ELSE done, entries |-> entries]

(* App::reload.                                                            *)
Rebuilt ==
    /\ model' = BuildModel(ledger', completions', index', profile')
    /\ unseen' = FALSE

FormDefault == [open |-> FALSE, stage |-> "Confirm", draft |-> None, file |-> None]
FormStarting == [open |-> TRUE, stage |-> "Idle", draft |-> None, file |-> None]
FormRead(read, file) == [open |-> TRUE, stage |-> "Confirm", draft |-> read, file |-> file]

(* The first start, or a vault whose profile was filled in earlier.        *)
Init ==
    /\ ledger = <<>>
    /\ completions = {}
    /\ index = <<>>
    /\ profile \in Profiles \union {None}
    /\ model = BuildModel(ledger, completions, index, profile)
    /\ receipt = FormDefault
    /\ editing = FALSE
    /\ reads = 0
    /\ now = 0
    /\ acked = {}
    /\ unseen = FALSE

(* A page has buttons only when there is a model, the rail beside it has   *)
(* one always; and neither modal covers them.                              *)
RailActive == ~receipt.open /\ ~editing
PageActive == model # None /\ RailActive

Reload ==
    /\ PageActive
    /\ UNCHANGED <<vault, receipt, editing, reads, now, acked>>
    /\ Rebuilt

(***************************************************************************)
(* Importing a receipt.                                                    *)
(***************************************************************************)
OpenReceipt ==
    /\ PageActive
    /\ model.profile # None
    /\ receipt' = FormStarting
    /\ UNCHANGED <<vault, model, editing, reads, now, history>>

CloseReceipt ==
    /\ receipt.open
    /\ receipt' = FormDefault
    /\ UNCHANGED <<vault, model, editing, reads, now, history>>

Archived(d) == Append(index, [file |-> d, invoice |-> None])

(* What add_document leaves in the index and returns.                      *)
Archive(d, file) ==
    \/ index' = Archived(d) /\ file = d
    \/ "before" \in Faults /\ index' = index /\ file = None
    \/ "archive" \in Faults /\ index' = Archived(d) /\ file = None

(* The document is archived before anything is confirmed; the form shows   *)
(* what was read even when archiving failed.  A path that cannot be read   *)
(* leaves the form empty, as it was.                                       *)
ParseReceipt(d) ==
    /\ receipt.open
    /\ receipt.stage = "Idle"
    /\ reads < MaxReads
    /\ reads' = reads + 1
    /\ \E file \in Documents \union {None} :
          /\ Archive(d, file)
          /\ receipt' = FormRead([doc |-> d, read |-> reads + 1], file)
    /\ UNCHANGED <<ledger, completions, profile, editing, now, acked>>
    /\ Rebuilt

(* inv_<count>_<second>: the count is the model's.                         *)
NewId == <<Len(model.invoices) + 1, now>>

(* invoice_from_receipt refuses a document somebody else issued.           *)
Accepts(d) == IssuerOf[d] \in {None, model.profile.nif}

Confirmed == [id |-> NewId, draft |-> receipt.draft, proof |-> receipt.file]

(* Linking the entry that was archived last, whatever it is.               *)
LinkedLast(entries, file, id) ==
    IF entries = <<>> THEN entries ELSE [entries EXCEPT ![Len(entries)].invoice = id]

(* Adding the entry that was not found.                                    *)
LinkedOrAdded(entries, file, id) ==
    LET places == {k \in DOMAIN entries : entries[k].file = file} IN
    IF places = {} THEN Append(entries, [file |-> file, invoice |-> id])
                   ELSE [entries EXCEPT ![Min(places)].invoice = id]

(* link_document_to_invoice: the first entry of that file, if there is one.*)
Linked(entries, file, id) ==
    LET places == {k \in DOMAIN entries : entries[k].file = file} IN
    IF places = {} THEN entries ELSE [entries EXCEPT ![Min(places)].invoice = id]

Submits ==
    /\ Len(ledger) < MaxLines
    /\ receipt.open
    /\ receipt.stage = "Confirm"
    /\ model # None
    /\ model.profile # None
    /\ Accepts(receipt.draft.doc)

(* The form is kept open after the invoice was recorded.                   *)
SaveReceiptKeepsForm ==
    /\ Submits
    /\ ledger' = Append(ledger, Confirmed)
    /\ acked' = acked \union {Len(ledger')}
    /\ index' = Linked(index, receipt.file, NewId)
    /\ UNCHANGED <<completions, profile, receipt, editing, reads, now>>
    /\ Rebuilt

(* append_invoice returned Ok: link, whatever comes of it, and reset.      *)
SaveReceipt ==
    /\ Submits
    /\ ledger' = Append(ledger, Confirmed)
    /\ acked' = acked \union {Len(ledger')}
    /\ \/ index' = Linked(index, receipt.file, NewId)
       \/ "link" \in Faults /\ index' = index
    /\ receipt' = FormDefault
    /\ UNCHANGED <<completions, profile, editing, reads, now>>
    /\ Rebuilt

(* append_invoice returned an error: the form shows it and stays, and the  *)
(* model is not rebuilt.                                                   *)
SaveReceiptFails ==
    /\ Submits
    /\ "record" \in Faults
    /\ ledger' = Append(ledger, Confirmed)
    /\ unseen' = TRUE
    /\ UNCHANGED <<completions, index, profile, model, receipt, editing, reads, now, acked>>

(***************************************************************************)
(* The agenda.                                                             *)
(***************************************************************************)
Offered == IF model.profile = None THEN {} ELSE Obligations \ model.done

(* Marking and not rebuilding.                                             *)
CompleteUnseen(o) ==
    /\ PageActive
    /\ o \in Offered
    /\ completions' = completions \union {o}
    /\ UNCHANGED <<ledger, index, profile, model, receipt, editing, reads, now, history>>

Complete(o) ==
    /\ PageActive
    /\ o \in Offered
    /\ completions' = completions \union {o}
    /\ UNCHANGED <<ledger, index, profile, receipt, editing, reads, now, acked>>
    /\ Rebuilt

(* mark_completed returned an error: only the status line says so.         *)
CompleteFails(o) ==
    /\ PageActive
    /\ o \in Offered
    /\ "record" \in Faults
    /\ completions' = completions \union {o}
    /\ unseen' = TRUE
    /\ UNCHANGED <<ledger, index, profile, model, receipt, editing, reads, now, acked>>

(***************************************************************************)
(* The profile.                                                            *)
(***************************************************************************)
(* Without a model, too: the form is then empty.                           *)
OpenProfile ==
    /\ RailActive
    /\ editing' = TRUE
    /\ UNCHANGED <<vault, model, receipt, reads, now, history>>

CloseProfile ==
    /\ editing
    /\ editing' = FALSE
    /\ UNCHANGED <<vault, model, receipt, reads, now, history>>

BuildProfile(nif, current) ==
    [nif |-> nif, rest |-> IF current = None THEN "default" ELSE current.rest]

(* load_profile().ok().flatten(): an unreadable profile counts as none.    *)
SaveProfile(nif) ==
    /\ editing
    /\ profile' = BuildProfile(nif, IF profile = Unreadable THEN None ELSE profile)
    /\ editing' = FALSE
    /\ UNCHANGED <<ledger, completions, index, receipt, reads, now, acked>>
    /\ Rebuilt

(***************************************************************************)
(* The environment.                                                        *)
(***************************************************************************)
Tick ==
    /\ now < MaxSeconds
    /\ now' = now + 1
    /\ UNCHANGED <<vault, model, receipt, editing, reads, history>>

Restart ==
    /\ receipt' = FormDefault
    /\ editing' = FALSE
    /\ UNCHANGED <<vault, reads, now, acked>>
    /\ Rebuilt

Spoil ==
    /\ "spoil" \in Faults
    /\ profile \in Profiles
    /\ profile' = Unreadable
    /\ unseen' = TRUE
    /\ UNCHANGED <<ledger, completions, index, model, receipt, editing, reads, now, acked>>

Next ==
    \/ Reload
    \/ OpenReceipt
    \/ CloseReceipt
    \/ \E d \in Documents : ParseReceipt(d)
    \/ SaveReceipt
    \/ SaveReceiptFails
    \/ \E o \in Obligations : Complete(o) \/ CompleteFails(o)
    \/ OpenProfile
    \/ CloseProfile
    \/ \E nif \in Nifs : SaveProfile(nif)
    \/ Tick
    \/ Restart
    \/ Spoil

Spec == Init /\ [][Next]_vars

(***************************************************************************)
(* Properties.                                                             *)
(***************************************************************************)

(* What the window shows is what the vault holds ("the model is rebuilt    *)
(* after every write", ARCHITECTURE.md), unless an operation wrote and then*)
(* reported an error, for no error path rebuilds, or somebody else wrote.  *)
ModelFresh == ~unseen => model = BuildModel(ledger, completions, index, profile)

(* What was registered is told apart: no two invoices the window answered  *)
(* for have the same id, however many in one second and whatever failed    *)
(* before, between or after them, and no form is registered twice.         *)
RegisteredApart ==
    \A i, j \in acked :
        \/ ledger[i].id = ledger[j].id
        \/ ledger[i].draft.read = ledger[j].draft.read
        => i = j

(* A document the index links to an invoice is the one that invoice was    *)
(* read from, and an invoice that says its proof is in the vault has its   *)
(* own document there, even when archiving or linking failed in between    *)
(* (app.rs, parse_receipt and save_receipt).                               *)
LinkedRight ==
    /\ \A k \in DOMAIN index :
           index[k].invoice # None =>
               \E i \in DOMAIN ledger :
                   ledger[i].id = index[k].invoice /\ ledger[i].draft.doc = index[k].file
    /\ \A i \in DOMAIN ledger :
           ledger[i].proof # None =>
               /\ ledger[i].proof = ledger[i].draft.doc
               /\ \E k \in DOMAIN index : index[k].file = ledger[i].proof
=============================================================================
