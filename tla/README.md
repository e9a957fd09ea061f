# vn-finance: a verification project

vn-finance is a desktop program for a self-employed person in Portugal. It keeps a
**vault** (a folder of JSON, JSONL and archived documents), imports invoices from
PDF, shows an agenda of obligations computed from a rule pack, and estimates tax and
contributions. It has no server and no database: what makes it right is that the files
of the vault never lie, whatever dies in the middle, and that the figures and dates it
shows follow from those files, the papers put into it and the rules.

This directory models that in TLA+. TLC checks small instances of every model, and
TLAPS proves, for every value of the constants, what the storage layers, the vault and its opening, the window,
the agenda, the choice of rules and the reading of a document promise. Paths below are relative to the repository.

## The system and its parts

| Component | Where | State it keeps | Operations | Here |
|---|---|---|---|---|
| Atomic writes | `crates/store/src/atomic.rs` | the files; `COUNTER` | `append_text`, `write_bytes_atomic`, `read_jsonl`, `read_typed` | `AppendLog`, `AtomicReplace`, `Jsonl`, `AtomicRegister` |
| Lock | `crates/store/src/lock.rs` | `<vault>/.lock` and who holds it | acquire, drop | `Vault` |
| Vault | `crates/store/src/vault.rs`, `documents.rs` | ledger, completions, audit log, document index, documents, cached size | `append_invoice`, `mark_completed`, `add_document`, `add_document_bytes`, `link_document_to_invoice`, `save_profile`, `describe` | `Vault` |
| Location, risk | `crates/store/src/location.rs`, `risk.rs` | the pointer file | resolve, write and read the pointer, refuse | `Startup` |
| Session, program | `crates/ui/src/session.rs`, `apps/vnfin/src/main.rs` | the vault, its lock, the rule pack | open, reload | `Startup`, `Vault`, `Window` |
| Window | `crates/ui/src/app.rs` | the model, the two forms, the status line | the variants of `Action` | `Window`, `Import`, `Dashboard` |
| Forms | `crates/ui/src/pages/receipt_form.rs`, `pages/profile.rs` | the texts typed | read, type, empty, submit | `Receipt`, `Import`, `TaxProfile`, `Dashboard` |
| View model | `crates/store/src/model.rs` | none | `build_model` | `Window` (what is read, and when), `Dashboard` (what it makes of it) |
| PDF text | `crates/core/src/pdf.rs` | none that lasts | `extract_pdf_text` | `Pdf` |
| Receipt decision | `crates/core/src/receipt.rs` | none | `parse_receipt`, `invoice_from_receipt` | `Receipt` |
| Dates, calendar | `crates/core/src/dates.rs`, `calendar.rs` | none | `days_from_civil`, `add_months`, `next_business_day`, `build_agenda` | `Dates`, `Calendar` |
| Conditions, profile | `crates/core/src/conditions.rs`, `profile.rs` | none | `applies_to`, `explain_failure`, `build_profile`, `validate_profile` | `Conditions`, `TaxProfile` |
| Figures | `crates/core/src/estimate.rs`, `flags.rs`, `money.rs`, `nif.rs`, `countries.rs` | none | quarters, contributions, reserve, flags, rounding and reading of amounts | `Estimates`, `Flags`, `Money`, `TaxNumber` |
| Rule pack | `crates/core/src/rules.rs`, `types.rs`, `rules/pt/` | loaded once | `load_rule_pack` | `RulePack` |
| Other pages, widgets, tooling | `crates/ui/src/pages`, `widgets.rs`, `xtask` | none that lasts | drawing; audits of the source | not modelled |

How they interact. The interface runs in one thread. A page returns an `Action`,
`App::perform` carries it out through `Session` on `Vault`, every write of `Vault` goes
through `atomic` (with one exception, `std::fs::copy` in `add_document`), and after a
write that returned `Ok` the window rebuilds its model from the files: `build_model`
reads the vault, and the core works out agenda, flags and figures. A receipt comes in
through the PDF reader, the receipt decision and its form; a profile through its form and
the checks of the core. Several processes may point at one folder; the advisory lock lets
one of them open a session at a time.

What is hard about it:

- **Crashes and power cuts between two system calls.** A line can be written and not
  flushed, a file renamed and its folder not synced, a file or a folder made and its name
  never synced, a record written and its audit line
  not, a document copied and the index not yet replaced.
- **Errors part of the way.** Nothing is undone. An operation that returns an error may
  have done all that matters, some of it, or nothing; and one that returns `Ok` may have
  dropped an error, that of syncing a folder.
- **Two writers.** The document index is read whole, changed and written whole.
- **State that outlives its truth.** The window's model, the cached size, the open form
  with a document archived before, the file read once for its hash and once for its copy,
  the folder judged before it is made.
- **Time that moves on.** An agenda is computed from the day the window was opened, a
  completion is keyed by the due date, and a release may bring other due dates.
- **Input nobody controls.** A PDF whose objects hang from themselves, whose rows drift,
  whose streams cannot be read; a paper that contradicts itself.
- **Arithmetic at the edges.** Month ends, leap days, the turn of the year; dates published
  a day or a month apart; quarters, thresholds, halves of a cent, three instalments of
  one amount, `1.234` typed by a Portuguese and by an English hand.

What makes each component correct: an acknowledged line is never lost, moved or made
unreadable (`AppendLog`); a replaced file is always one writer's bytes, whole
(`AtomicReplace`); what an operation answered survives, except where the code leaves a name or a folder
unsynced, the audit log never tells of what
did not happen, and index, documents and ledger agree (`Vault`); the vault is opened where
the header says and kept out of the program's own repository (`Startup`); the window shows
what the vault holds, numbers invoices apart, and attaches each to the document it was read
from (`Window`); day numbers count days, an id names one obligation, its date is what the
line says it is, and its status only moves forward (`Calendar`); what the pages derive
agrees from page to page, and what is typed is saved as it was meant (`Dashboard`); the
text of a document is the document's, a document without text and a stream that cannot be
inflated are never passed over in silence (other things are: see *Documents* below), reading
ends, and what is recorded is what the paper says (`Import`).

## The modules

    Jsonl               what readers make of a JSONL file
      AppendLog         append_text against disk and process faults
        AppendLogProofs
    AtomicRegister      what an atomic, durable replacement promises (abstract)
      AtomicReplace     write_bytes_atomic; implements AtomicRegister
        AtomicReplaceProofs, MCAtomicReplace
    Vault               windows, lock, vault operations as sequences of steps
      VaultProofs, MCVault
    Startup             where the vault is, and what is refused
      StartupProofs, MCStartup
    Window              App::perform over a vault with one writer
      WindowProofs, MCWindow
    Dates               the arithmetic of dates.rs
      Calendar          build_agenda as days pass and windows are opened
        CalendarProofs, MCCalendar
    Ranks               sequences by rank: sorting and filtering
    Money, TaxNumber    amounts, rates and texts; the check digit
    Conditions          which rules apply to a profile
      RulePack          what loading makes of a pack, and refuses
    Estimates           quarters, contributions, the reserve
      Flags             what the first page warns of
    TaxProfile          the profile, its checks, and its form
      Dashboard         all of these behind the pages; implements Calendar
        DashboardProofs, MCDashboard
    Pdf                 from the objects of a file to rows of text
    Receipt             from rows to a draft, a form, and an invoice
      Import            a document on its way into the ledger
        ImportProofs, MCImport

Each layer takes the one below as what was shown of it: `Vault` has a line that is
written and then synced, and a replacement that is in place and then settled or not, without the
torn pieces of `AppendLog` and the temporary files of `AtomicReplace`; `Window` has whole
vault operations that fail before or after they wrote; `Dashboard` and `Import` have
operations that succeed, over what is derived and read. `Dashboard` does not take the
agenda on trust: it contains it, with the rules that apply worked out from the profile,
and is checked to implement `Calendar`. A definition whose comment calls it a mutant's form,
or that stands before its namesake with one thing done otherwise, is a variant with a
plausible mistake in it; no specification uses it, and it breaks one property.

### Jsonl and AppendLog

A file is a sequence of *pieces*; a piece is the record it came from and how much of the
line was written: `"whole"` with its newline, `"bare"` without, `"torn"`. `Parses` and
`Readable` are `read_jsonl`: a piece parses when it is complete and starts and ends a line
of its own, and one line that does not parse refuses the file. The actions of `AppendLog`
are the system calls of `append_text` (`OpenForAppend`, `WriteAll` or `WriteAllFails`,
`SyncData` or `SyncDataFails`) and the environment (`Kill`, `PowerCut`, `Restart`).
`struck` remembers which faults have happened, so that one run can say both what holds
whatever happens and what holds until a certain fault.

| Property | Says |
|---|---|
| `AckedOnDisk` | an acknowledged record is, whole, in the part the disk surely holds |
| `CallOrder` | the file holds the calls in order, each at most once |
| `ReadableUntilCut` | until a write is cut short, every acknowledged record parses and the file can be read |

`AckedStay` (an acknowledged record never moves) is proved and no run checks it.
`AckedOnDisk` excepts the loss of the file itself: `append_text` never syncs the folder, so the
first append to a new file can go with the file's name.

### AtomicReplace and AtomicRegister

Threads of several processes run `write_bytes_atomic` on one target, a system call at a
time. The state is the process ids and `COUNTER` of the processes, the temporary files,
and every file the target's name was given (`target`), of which the first `settled` are
surely on the disk. Ids are handed out again after a death. A power cut undoes unsettled
renames, the latest first, takes bytes of files that were not synced, and may give back the
temporary names that an undone rename or a removal had taken from the folder (`gone` holds
those since the folder was last synced). `sync_parent`
may fail and says nothing: the call still returns `Ok(())`, and the model keeps the two
apart as `"ok"` and `"unsure"`, which the program cannot. `remove_file` may fail, too, and
says nothing: the call returns its error as it would have, and the model calls it `"left"`
where the file stays and `"err"` where it does not. `back` is a history: the calls whose
temporary file a power cut gave back.

| Property | Says |
|---|---|
| `TargetWhole` | the target always holds everything one call wrote |
| `OkSurvives` | a call answered with its folder synced outlives every power cut |
| `NoLitter` | a temporary file is one a thread is busy with, or of a call that died with its process, could not remove it, or had it given back by a power cut; and a call answered with its folder synced leaves none ever after |
| `AtomicAndDurable` | `AtomicReplace` implements `AtomicRegister`: a call takes effect at one instant or never, an error means never, and a power cut undoes no `"ok"` |

`OwnBytes` (a rename moves its own thread's bytes) is proved and no run checks it.

### Vault

An operation is the sequence of its primitive steps in the order the code makes the calls
(`AppendInvoice`, `MarkCompleted`, `AddDocument`, `AddDocumentBytes`, `LinkDocument`,
`SaveReceipt`); windows take one step at a time, and an error drops the rest. `Open` is
`Session::open_in` with the lock. A log is its lines and how many are synced; a replaced
file is its content now and all a power cut could leave instead; the documents are keyed
by content, which is its own hash. `Describe` and `Invalidate` are the cached size.

What is in a file is one thing, its name in its folder another. The vault of the model is
new. `append_text` syncs a log's data and never its folder, and of the folders only
`documents/` is synced, not the root it stands in: so a power cut can take a log, or all of
`documents/`, until one was found in its place after a power cut (`named`). The sync of
`documents/` at the end of a replacement can fail, and the operation goes on to its `Ok`
(`SyncStoreFails`, `SyncIndexFails`, with `unstored` and `unfiled` for what it concerned); a
later sync makes up for it (`SyncFolder`). A record is `Sure` when the code did all it does for it;
`Exposed` are the sure records a power cut could still take for one of these two reasons,
and `lost` those it did take. `Kept` is `Sure` or `lost`: nothing but a power cut takes a record, and it
takes none that was not exposed. A new profile, or a repeated one, is written to the root and would
sync it; that is not in this module, so it takes for exposed what may by then be safe.
A document that was copied counts as uncertain for good, also after a later power cut that left it whole.

| Property | Says |
|---|---|
| `AnsweredKept` | what an operation that returned `Ok` recorded survives everything, other windows included, but for the power cut that takes it while it is exposed |
| `AuditNeverAhead` | every audit line, even one a power cut may take, tells of something that was done before, all the way to its sync, and is there unless a power cut took it while it was exposed |
| `IndexSound` | whatever index could be read after a power cut points at invoices that are in the ledger, or were lost with its name, and at documents that hold the content of their hash (a copy excepted; missing at most, never wrong, when their folder's sync failed); and an entry appears only once its document is whole |
| `StatsFresh` | between operations the cached size is right, except after a copy that failed part way |

### Startup

A path is the sequence of its names. `Open` is a start: `ResolveVaultLocation` is the
precedence of environment, pointer file and default (the window gives no flag),
`CheckDataDirRisk` the search for a `.git` up to 64 levels above the folder, with the fallback on
the path as given when the folder is not there to be resolved, and `OpenIn` what is made
and in which order, failures included. `Followed` is where the system is led through a
symbolic link. Between starts the pointer is written or damaged and repositories appear.

| Property | Says |
|---|---|
| `KeptOut` | a vault open inside the program's own repository was made there by that very start through a link or a relative path; no other is |
| `SourceShown` | until the pointer changes, the header's answer to "why this folder" is the reason it was opened, and the same environment leads there again |
| `RefusedLeavesNothing` | a refused start leaves the disk as it was |

### Window

The handlers of `App::perform` are the actions: `OpenReceipt`, `ParseReceipt`,
`SaveReceipt`, `CloseReceipt`, `Complete`, `OpenProfile`, `SaveProfile`, `CloseProfile`,
`Reload`, and their failures. A handler is one step since the interface has one thread.
`Rebuilt` is `App::reload`: the model is what the files hold or nothing. `PageActive` says
when a button of a page can be pressed: a model is shown and no modal is open; the rail beside
the page, with the entry that opens the profile, needs no model (`RailActive`). Filters, pages, the
status line and validation messages are left out: nothing here depends on them.

| Property | Says |
|---|---|
| `ModelFresh` | the window shows what the vault holds, unless an operation wrote and then failed |
| `RegisteredApart` | no two registered invoices share an id, and no form is registered twice |
| `LinkedRight` | a document linked to an invoice is the one it was read from, and an invoice that names its proof names its own document, which the index has |

### Dates and Calendar

`Dates` is `dates.rs` as operators on a record of year, month and day: `DaysFromCivil` and
`CivilFromDays` with the code's eras, `AddMonths`, `NextBusinessDay`, quarters. `Calendar`
is `build_agenda` with all it calls (`Periods`, `Survivors` for `cluster_indices`,
`ResolveDueDate`, `Status`), inside the little state that makes it hard: the day on the wall
with its weekday, the day the open window read from the clock, the release of the rule
pack, the profile, the completions, and the agenda on screen. The actions are `PassDay`,
`Open` (with the same release or a later one), `Complete` and `SaveProfile`; each of the
last three ends in `Rebuilt`. `today` and its weekday move by the calendar on the wall,
which uses none of the arithmetic under test. The rules that apply are an input here and
`Dashboard`'s output. Left out are labels, notes, the order of the lines, and `upcoming`, which
only tests call. Holidays are the empty set, as `model.rs` passes them.

| Property | Says |
|---|---|
| `ArithmeticAgrees` | a day's number leads back to the day, and has the weekday it has on the wall |
| `UniqueIds` | no two lines of an agenda share an id |
| `DateAsSaid` | an official date is published and, for an annual rule, nothing published follows it within a week; a derived one is a working day, and one that moved is a Monday |
| `NeverGoesBack` | while the profile stays, the status of a line never returns to an earlier one |
| `WarnedBeforeLate` | no line goes from "future" to "overdue" between two agendas thirty days apart or less |

`DaysCounted` (the number grows by one a day) is proved and no run checks it. Two assumptions
say what a pack must be like for `UniqueIds` and `DateAsSaid` to hold, and TLC finds the dates
of `rules/pt/2026.json` to be so: `OneAMonth` and `ClearOfWeekends` (see the agenda below).

### Dashboard, and the core it composes

`Conditions` evaluates a condition on a profile, the unanswered question included;
`RulePack` loads a pack, refuses one that contradicts itself, and reads each condition;
`Money` rounds, splits, writes and reads amounts, a text being its blocks of digits and the
marks between; `Estimates` has quarters, social security and the reserve; `Flags` every flag
with its condition, severity and order; `TaxProfile` the profile with its validation and its form,
field by field. `Dashboard` puts them behind `build_model` (`ModelOf`) and behind what the
person does: open the form, type, save, register an invoice, mark a line, start again
another day.

| Property | Says |
|---|---|
| `Reopens` | a saved profile can be opened in the form and saved untouched without being changed or refused |
| `SavedAsMeant` | a figure is saved as the person meant it by the Portuguese convention, or refused |
| `FiguresAgree` | three ways of adding up a year agree (by year, by quarter, by scope), and instalments add up to what they are instalments of, a cent apart at most |
| `RulesDecided` | exactly one of alternative obligations applies, answered or not, the others say why they do not, and a condition nobody understood never makes a rule apply |
| `CeilingWatched` | an exemption that is lost is said to be lost, and within a year the watch on the ceiling never steps back |
| `RefinesCalendar` | the agenda behind the pages is the one `Calendar` specifies |

### Import, Pdf and Receipt

A document in `Pdf` is what its bytes say: its objects in the order they stand, dictionaries
with the keys the reader asks for. The actions are the turns of the reader's loops:
`ScanObject` (the first object of a number is kept), `Visit` (the page tree with
inherited resources and its bound on depth), `OpenPage`, `OpenStream`, `Operate` (the
text operators over a graphics state), `PutItem` (a text joins the row it is close to) and
the end. `Dictionaries` is what files can be made of; a document is a list of entries that hold
some, and a dictionary may stand in place of a reference to it. `Receipt` is `parse_receipt` over rows of tokens: labels and amounts,
sections, parties, the rate, every check the document is put through; then the form, and
`invoice_from_receipt` with its refusals and warnings. `Import` composes the three. Each
document carries what its paper says, which the program does not see: the properties compare the
two.

| Property | Says |
|---|---|
| `TextFaithful` | the pages read are those that hang from the root, with the resources of the nearest node above; texts on one baseline share a row and far ones do not |
| `SilenceSaid` | a document that gave no text, and a page whose content could not be inflated, is always said |
| `Finishes` | reading ends, whatever the file holds |
| `RecordedIsTrue` | nobody else's document is recorded, and one about which nothing was said, and in whose form nothing was written, at most emptied, gives the figures on the paper, to the cent, from base to amount received |

## The runs

Twelve configurations. `CHECK_DEADLOCK FALSE` where it stands is for the bounds: when calls
and restarts are used up, a behaviour ends.

| Run | Bounds | Shows |
|---|---|---|
| `Append` | 4 appends, all faults | the properties of `AppendLog` |
| `Replace` | 3 threads in 2 processes, 2 ids, 3 calls, 3 starts, all faults (965 283 states) | the properties of `AtomicReplace`, with the refinement |
| `Vault` | 2 windows, 2 contents, 4 operations (openings included), of which at most 3 never answer, all faults (697 333 states) | the properties of `Vault` |
| `Startup` | 6 environments, 3 starts, 2 edits of pointer or repositories, 1 link | the properties of `Startup` |
| `Window` | 2 documents, 2 tax numbers, 1 obligation, 2 reads, 3 ledger lines, 2 seconds, all faults | the properties of `Window` |
| `Calendar` | 9 rules of the pack, 6 starting days, 3 days more, a window at most 2 days open, 1 completion, 2 profiles, 2 releases | the properties of `Calendar` |
| `Dashboard` | 6 rules, 5 profiles, 4 invoices, 1 day more, 2 pieces of work (a field, an invoice, a mark), 1 completion | the properties of `Dashboard`, with the refinement |
| `Import` | the documents of `MCImport`, a tree 3 deep, 2 corrections | the properties of `Import` |
| `AppendRetry` | 2 appends, a full disk | a disagreement: `AckedParses` is violated |
| `VaultCopyUnsynced` | 2 operations, power cuts | a disagreement: `IndexHasFile` is violated |
| `CalendarPublished` | as `Calendar` | a disagreement: `PublishedUsed` is violated |
| `ReceiptRate` | as `Import` | a disagreement: `PrintedRateChecked` is violated |

Why the bounds are enough. *Append*: a torn, a bare and a whole piece, and one more call
after them, is every neighbourhood a line can have; the proofs remove the bound. *Replace*:
two threads that share a counter, a third that does not, a process id that is reused while
another process lives, and each call in any phase when the power goes; the proofs remove
the bound here too. *Vault*: an opening, an archive, and two more operations (a second
archive of the same or other content, a receipt linked to it) or a second opening and what
a window does after it; every primitive step of each can be the one that fails. Windows and
contents are interchangeable. An opening never answers, so `MaxUnanswered` (a constraint of the run)
cuts only behaviours of four openings and failures, in which nothing is ever answered. The hash and the
index a window holds are left out of the view while it does nothing: the next operation computes
them anew. *Startup*: each environment differs from the first in one
thing that matters (no home, a blank variable, a relative path, a folder behind the link,
Windows); a start, an edit, a start, an edit and a start is the longest story in which an
earlier one changes a later. *Window*: the same document twice and another one, a failed
confirmation with its retry, and one more; two in one second and two apart; the proofs
remove the bounds. *Calendar*: one rule of every periodicity and kind of deadline, with the
days and dates of `rules/pt/2026.json`, among them instalments, a deadline that was shifted
and a monthly rule with dates published a week apart; the second release publishes some of 2027. Each starting day is shortly before what
can go wrong: the end of February in a common, a leap and two century years, a summer with
deadlines in it, the turn of the year. *Dashboard*: it begins on 31 December, so that the
year turns; the profiles meet the six rules in every way and hold the awkward percentages and amounts
(`72,05`, `-1 000,05`); the invoices lie on the edges of quarters and of the year, and two of
them carry turnover across the ceiling. Amounts are a hundredth of the real ones, as TLC's
integers end at 2^31. *Import*: each document differs from a good one in one thing the reader
or the checks tell apart (two columns, drifting rows, a saved coordinate system, resources at
two levels, a tree that hangs from itself, a page written in place, a revised object, a stream that cannot
be inflated;
a stamp duty, two rates, an amount that does not add up, another issuer, fields that are not
there). The tree is cut at 3 levels where the program has 64; the deepest good tree has 2. Into each field
of the form one correction can be typed, or it can be emptied.

That reading ends does not say when. `collect_pages` bounds the depth and not the visits
(`pdf.rs:1292`), so a node that names itself n times is visited n times as often at each level: with 64
levels and two self-references that is an end nobody lives to see. The run, with 3 levels,
cannot show it. Nor does it see the recursion of `read_operand` (`pdf.rs:918`), which has no bound on
depth: it is in the lexer, which is not modelled.

**Fairness.** One formula in the project: `WF_vars(Reading)` in `Import`. Reading a document is
one call within one turn of the window's loop, in which nothing waits for anything, so a
step that can be taken is taken. Nothing else is fair, the person least of all, and the
other modules are safety only: the code has no waiting, retrying or background work.

## What the code does and its documents do not say

The four violation runs each show a place where the code and a line of the repository
disagree; PROJECT.json quotes the lines.

1. **AppendRetry** (`atomic.rs:155`). A write that fails part of the way leaves its
   fragment; the next append is glued to it, acknowledged, and can never be read back.
2. **VaultCopyUnsynced** (`vault.rs:398`). `std::fs::copy` is not synced and the index is.
3. **CalendarPublished** (`calendar.rs:229`). The periods of an agenda are those *of* its
   year, and a published date counts only in the very month the lag arrives at. So the
   dates published for January and February 2026, which belong to the last quarter of
   2025, are on no line, and 21 September is passed over for a derived 20 August (with a
   note that nothing is published for August).
4. **ReceiptRate** (`receipt.rs:762`). `vat_rates` reads the text *before* the percentage, so a
   printed rate is never read; the rate is worked out from IVA and base, and its check
   against them cannot fail.

Others met while modelling, which the conditions of the checked properties spell out or
which no property is about:

*Storage.*

- The first append to a file can be lost with its name, which is never synced
  (`atomic.rs:157`; `lib.rs:24` promises otherwise). `AckedOnDisk` excepts `FileLost`.
- A power cut between write and flush leaves part of a line, and `read_jsonl` then refuses
  the file (`atomic.rs:1` speaks of a vault that is never half-written).
  `ReadableUntilCut` ends at `CutShort`.
- The same is so of every log of a new vault, and of `documents/` in it: an invoice that was
  answered `Ok` can be gone with the ledger, while the line of the audit log, or the link of a
  document, still tells of it (`atomic.rs:150`). `Kept` excepts it, as `lost`.
- `sync_parent` drops its failure (`atomic.rs:109`): `"unsure"` is also `Ok(())`, and an archived
  document or its entry can be missing after a power cut (`unstored`, `unfiled`).
- `write_bytes_atomic` drops a failure of `remove_file` (`atomic.rs:91`), and syncs no folder after
  it: the promise that "a failure does not leave litter" (`atomic.rs:43`) holds when the removal works and
  no power cut gives the name back. `NoLitter` names these excuses.
- `COUNTER` starts at zero in every process and ids are reused, so a temporary name can be
  one a dead process left (`atomic.rs:24`); `File::create` truncates it, and no property
  suffers.
- Archiving a file again truncates its stored copy in place (`vault.rs:398`), and the
  source is read twice, for the hash and for the copy (`vault.rs:392`). `IndexSound`
  excepts what a copy touched.
- A copy that fails part of the way does not invalidate the cached size (`vault.rs:399`).
  `StatsFresh` excepts it.
- A line number in a report counts records, not lines (`vault.rs:236`).

*Starting.*

- The repository of the program is "refused outright" (`risk.rs:3`), yet a folder that is not
  there yet is judged by its path as written: behind a link into the repository, or relative
  (the default of a machine that names no home), it is made and opened. `KeptOut` excepts
  it (`JudgedElsewhere`).
- `VN_FINANCE_ALLOW_IN_REPO` is not looked at by `Session::open`.

*The window.*

- When the ledger line was written and its audit line failed, the form stays and shows an
  error: confirming again records the invoice twice (`app.rs:394`; `receipt_form.rs:60`
  calls those errors "Why it cannot be registered", and it was). `RegisteredApart` is about
  what was answered for.
- Nothing asks `find_document_by_hash` (`vault.rs:525`) when a PDF is imported a second time
  (`app.rs:304`): it is archived, and can be registered, again, and the link goes to the first
  entry of that file (`vault.rs:480`).
- An unreadable profile is treated as none when the form is saved, and replaced by one with
  defaults in what the form does not show (`app.rs:688`).
- No error path rebuilds the model (`app.rs:394`, `app.rs:681`). `ModelFresh` excepts it,
  and so a failed line may carry the id of the registered one that follows it.
- The warnings of a registration that succeeded are erased with the form (`app.rs:379`); among
  them, that a withholding no rate gives was recorded as zero.

*The agenda.*

- `today` and `year` are computed once, at start-up (`apps/vnfin/src/main.rs:31`), so a
  window left open shows statuses that lag behind the wall. `NeverGoesBack` and
  `WarnedBeforeLate` are about the windows' days.
- A completion is keyed by rule and due date (`make_id`). When a later release publishes
  another date for the period, its line has a new id and is open again. `NeverGoesBack`
  follows ids, not periods.
- Two published dates of one rule in one month are both resolved to the earlier of them
  (`find` in `resolve_due_date`), although `cluster_indices` keeps the later of a cluster;
  the present pack has no such annual rule. A pack with one would violate `DateAsSaid` and
  `UniqueIds`, so `OneAMonth` excludes it.
- A derived date that a weekend moves from the end of a month to the first or second of the next
  can fall on a date published there for the following period: two lines with one id, of which a
  completion would settle both. `ClearOfWeekends` excludes a pack that publishes such a date for
  a monthly rule, or an annual one with no month of its own; the present pack publishes none.
- `model.rs` always passes an empty list of holidays, while a note on the agenda page
  (`pages/agenda.rs:245`) speaks of holidays.

*The pages.*

- The form has no field for `is_company` and submits `false`: saving clears it
  (`pages/profile.rs:132`). `Reopens` is about profiles that are not companies.
- Tracking start and the 50 000 question, once answered, cannot be cleared from the form.
- The form accepts a coefficient of 0, which the core then refuses.
- Pack health flags are appended after the sorted list (`model.rs:311`), so an urgent one can
  stand below an informative one (`flags.rs:14`).
- An exempt person whose turnover of last year was never declared gets no live watch on the
  ceiling (`flags.rs:214`). `ExemptionSaid` takes it to be known.
- An exempt person with intra-community sales has no recapitulative statement in the agenda;
  `Alternatives` takes it so.
- The date on the receipt form is free text, and only an empty one is refused
  (`receipt_form.rs:110`, `receipt.rs:1688`). One dated on a 31st the month does not have is in the
  year and in no quarter (`in_range` compares texts). One that is no date at all is recorded too,
  and no model can be built any more (`flags.rs:132` parses every date of the ledger).
  `Receipts` are invoices with dates.
- "Acumulado a hoje" on the first page adds up invoices dated after today too
  (`pages/painel.rs:227`).

*Documents.*

- The first definition of an object number is kept (`pdf.rs:518`), so a PDF that was revised
  in place is read in its old revision. `RecordedIsTrue` has it as it is.
- An object that is an array is not kept (`pdf.rs:526`), so contents that are a reference to an
  array give no text and no problem of their own, although `pdf.rs:1258` handles arrays.
  A content stream that is not in the file is passed over in silence.
- The graphics state begins anew with every content stream of a page, and `Q` does not give back the font.
- Codes a CMap does not have vanish in silence.
- `100%` in a row about a rate is read as 1%, and `23,00%` is also an amount.
- A row that says "Total ilíquido" can be taken for the total.
- The form guesses "PT" when no country was read (`receipt_form.rs:87`), although
  `receipt.rs:8` says there is no default; the core's own problem can never show.
- A base that is typed and cannot be read, or a field that is cleared, falls back on the
  document's value without a word (`receipt_form.rs:115`). `Form::complete`, which says when a form is ready
  to submit, is called by a test and by nothing else: the button is always there
  (`receipt_form.rs:296`).
- A font without a map is told of in every page that has one, and `SilenceSaid` does not ask for it: it asks
  for a word when no text came of it.
- A document with two rates is recorded at the one rate that its totals amount to.

## What is proved

With TLAPS, for every number of calls, threads, processes, windows, documents and ids,
every set of faults, and every rule pack, profile and starting day:

| Module | Theorem | Property |
|---|---|---|
| `AppendLogProofs` | `TypeCorrect` | `TypeOK` |
| `AppendLogProofs` | `RecordsInOrder` | `CallOrder` |
| `AppendLogProofs` | `AckedSurvives` | `AckedOnDisk` |
| `AppendLogProofs` | `AckedNeverMoves` | `AckedStay` |
| `AppendLogProofs` | `AckedIsRead` | `ReadableUntilCut` |
| `AtomicReplaceProofs` | `TypeCorrect` | `TypeOK` |
| `AtomicReplaceProofs` | `NeverPartial` | `TargetWhole` |
| `AtomicReplaceProofs` | `RenamesOwnBytes` | `OwnBytes` |
| `AtomicReplaceProofs` | `OkIsDurable` | `OkSurvives` |
| `AtomicReplaceProofs` | `ReplacingIsAtomic` | `AtomicAndDurable` |
| `AtomicReplaceProofs` | `LeavesOnlyExcusedLitter` | `NoLitter` |
| `VaultProofs` | `TypeCorrect` | `TypeOK` |
| `VaultProofs` | `AnswersAreKept` | `AnsweredKept` |
| `VaultProofs` | `AuditTellsTheTruth` | `AuditNeverAhead` |
| `VaultProofs` | `IndexIsSound` | `IndexSound` |
| `VaultProofs` | `SizeIsFresh` | `StatsFresh` |
| `StartupProofs` | `RefusalMakesNothing` | `RefusedLeavesNothing` |
| `StartupProofs` | `HeaderIsRight` | `SourceShown` |
| `StartupProofs` | `PathsAreRight` | `TypeOK` |
| `StartupProofs` | `VaultsKeptOut` | `KeptOut` |
| `WindowProofs` | `TypeCorrect` | `TypeOK` |
| `WindowProofs` | `ShowsTheVault` | `ModelFresh` |
| `WindowProofs` | `RegisteredStayApart` | `RegisteredApart` |
| `WindowProofs` | `LinksAreRight` | `LinkedRight` |
| `CalendarProofs` | `EveryDayCounted` | (successive days have successive numbers) |
| `CalendarProofs` | `LinesNeverGoBack` | `NeverGoesBack` |
| `CalendarProofs` | `NobodyLateUnwarned` | `WarnedBeforeLate` |
| `CalendarProofs` | `DayThereAndBack` | (a date is the date of its number) |
| `CalendarProofs` | `NumberThereAndBack` | (a number is the number of its date) |
| `CalendarProofs` | `ArithmeticRight` | `ArithmeticAgrees` |
| `CalendarProofs` | `AgendaWellFormed` | `TypeOK` |
| `CalendarProofs` | `IdsUnique` | `UniqueIds` |
| `CalendarProofs` | `DatesAsSaid` | `DateAsSaid` |
| `DashboardProofs` | `CalendarImplemented` | `RefinesCalendar` |
| `DashboardProofs` | `RulesAreDecided` | `RulesDecided` |
| `DashboardProofs` | `LoadedPackIsSound` | (what validation lets through) |
| `DashboardProofs` | `InstalmentsAddUp` | (division towards zero, spread out) |
| `DashboardProofs` | `QuartersAddUp` | (four quarters against their year) |
| `DashboardProofs` | `FiguresAreOne` | `FiguresAgree` |
| `DashboardProofs` | `SavedAsOpened` | `Reopens` |
| `DashboardProofs` | `CeilingIsWatched` | `CeilingWatched` |
| `DashboardProofs` | `AgendaCarriesOver` | (what is proved of `Calendar`, of the window) |
| `DashboardProofs` | `WindowWellFormed` | `TypeOK` |
| `ImportProofs` | `NothingPassedOver` | `SilenceSaid` |
| `ImportProofs` | `TextIsFaithful` | `TextFaithful` |
| `ImportProofs` | `ImportWellFormed` | `TypeOK` |

The assumptions are those the modules name: the bounds are natural numbers, `Faults` is a
set of fault kinds, every thread runs in a process, `None` is no id, no name, no
window and no document, and no content is one of the two words for a file that is not there
or not filled. No theorem assumes a fault away. Further:

- `Calendar`: a starting day is a day of the calendar in a positive year, there is at least one
  release, a profile's rules are rules, months and days of deadlines are months and days
  (`PlausibleRules`), published dates are days of the calendar (`PublishedDates`), an annual rule
  has at most one of them a month (`OneAMonth`), and none stands where a weekend may push the
  derived date of the period before (`ClearOfWeekends`). The loader checks none of the last four:
  they are of the pack in the repository. `EveryDayCounted`, `LinesNeverGoBack` and
  `NobodyLateUnwarned` use only that the numbers are integers. `ArithmeticRight` takes as
  hypothesis `Anchored`, that the weekdays of the starting days are right; the run has it of each.
- `Startup`: paths are sequences of names and links lead to absolute paths; a path meets at most
  one link, and the repository of the program is named by its real path (`LinksAssumption`).
- `Dashboard`: the pack loads and has the rules that are alternatives to one another, with the
  conditions of `rules/pt/2026.json` (`PackAssumption`, `FiledAssumption`); its ceiling is a natural
  number and its rates, where it has them, are at most 100 % (`ConstantsAssumption`). A vault holds a
  profile the program itself could have saved (`Stored`, in `DashboardVaultsAssumption`), and an
  invoice is dated on a day of the calendar, with amounts and rates that are natural numbers
  (`ReceiptsAssumption`: see the observation on dates above). What is typed into a field is what the
  field can hold: a regime is one of the three, a tax number is digits and marks, an amount is blocks
  of digits with marks between (`TypedAssumption`). `CalendarAssumption` says all that `Calendar`
  assumes of the constants it is given here. Three hypotheses are about `None`: that it is no record
  (`NoneIsNoFunction`), no regime and no truth value either (`NoneIsApart`), and no number and none
  of a few words (`NoneIsItself`). They are hypotheses and not ASSUMEs since TLC gives `None` a model
  value, which is none of these, and cannot evaluate `DOMAIN None`.
- `Import`: the dictionaries of files have lists for arrays and integers for coordinates, and
  those that stand in place are dictionaries too (`DocumentsAssumption`). An amount or a percentage
  in a stream, or made of one by a wrong decoder, is a natural number (`FiguresAssumption`:
  `money_tokens`, receipt.rs:236, and `percentage_at`, receipt.rs:582, begin at a digit, so a minus
  sign is never part of what they find), and so is the number of corrections (`EditsAssumption`).
  Nothing is assumed of the shape of the tree, of what references lead to, of the depth allowed, or
  of what is typed.

*AppendLog.* `CallOrder` is not inductive: it needs that every piece comes from a call
already made, and from an earlier one while a write is pending (`FromCalls`), and that a
power cut keeps a prefix (`PowerCutKeeps`). `AckedOnDisk` needs `JustWritten` (what is
about to be synced ends the file) and `SyncedKept` (no step disturbs the synced part).
`AckedStay` then follows: an acknowledged record is in the synced part, and `CallOrder`
says it is nowhere else. `ReadableUntilCut` has its own invariant: every piece is whole.

*AtomicReplace.* The heart is `NameInv`: a thread in a call runs in a live process, its
name carries that process's id and a number `COUNTER` has passed, live processes have
different ids; hence no two threads in a call share a name. From it `OwnFile`: the file
behind a thread's name holds what that thread wrote. So the rename moves a whole, synced
file of its own (`TargetWhole`, `OwnBytes`). `OkSurvives` follows since the sync settles
every rename so far and no later rename reuses the call. `AtomicAndDurable` maps the effect
of a call to its rename (`RegisterStep`) and needs `CallInv`: every call that is open or
done is in the hands of exactly one thread, and where that thread is says which. `NoLitter`
needs `TempsHeld`: a temporary file was written by the call of the thread that is busy with
it, or has one of the excuses; and, for what a power cut gives back, `GoneAnswered`: the names
that can come back are of calls that ended without `"ok"` or are about to sync the folder, since the
sync that makes a call `"ok"` settles the names taken from the folder, too.

*Vault.* None of the properties is inductive: whether an answer is true depends on what the
window was going to do before it. The invariant `IInv` therefore speaks of the steps that
are left (`Right`): a step that tells of a record (an audit line, an answer, a link) finds
it safe, or the steps that put it there and sync it stand before it (`Owed`); a document's
entry is put after the document (`Proven`, `Filled`), the index is read before it is changed
(`ReadFirst`), the size is forgotten before a file changes, or after it with nothing between
that can fail (`Forgotten`, `ForgetsAfter`). That each operation starts so is one lemma per
operation (`AddingPrepared`, `StoringPrepared`, `ReceiptPrepared`, `RecordedPrepared`, over
sequences that the lemmas `...Steps` write out). That it stays so is the same lemma for
every step, `RightTail`, given what the step does to stores, files and index
(`StoresEffect`, `FilesEffect`, `ReadsEffect`, `SizeEffect`). `LockInv`, that only the
window with the lock has anything to do, is why the copy of the index in a window's hands
is still the index when it is put back. `Truth` then grows with what is kept: no step takes a sure record away, and a power cut only
those that were exposed, which it puts among the lost (`SureStays`, `SureOrLost`,
`KeptGrows`). `WholeWhenIndexed` needs that the index
in place has every document of the indexes that could be left (`NowHasAll`), `StatsFresh`
that a stale size is about to be forgotten (`Sized`).

*Window.* `ModelFresh` is inductive as it stands. The other two are not: they need
`FormRight` (the document in the form is the one it was read from, it is in the index, and
nothing that was answered for came out of this reading) and `LinesNumbered` (a line's number
is at most its place, and the model shows every line that was answered for). So a new id,
one more than the model shows, is above every answered one, also when failed lines lie in
between; and the entry a link finds (`LinkedEntries`, for which the least of a set has to be
shown to be in it, `MinIsIn`) belongs to the document of the form.

*Startup.* `RefusedLeavesNothing` is the order of the branches in `OpenIn`, for which the
starts have to be counted by numbers (`Counted`), so that a start can be told from any other
step. `SourceShown` needs that a window that was started says what it was started from
(`Described`), and that where an environment leads depends on the pointers alone, not on the
folders there are (`ResolvedByPointer`).

`StartInv` says of every state that pointers are absolute paths, that the repositories are folders,
the program's own among them, and that an open window's folder and what `ensure` makes in it are
there. Where a path leads is then a real path (`LedToReal`),
and a real path leads to itself (`RealLeadsThere`), so a folder that was judged where it is has no
repository of the program around it (`JudgedAndKeptOut`). What is left of `KeptOut` is time:
a repository that appears later can only be nearer to the vault and hide the program's
(`NotUncovered`).

*Calendar.* `EveryDayCounted` comes down to `NextDayCounts`: for each of the twelve months
the days before it and its length agree (`MonthLengths`), and from one year to the next the
leap days of the era formula are those of `IsLeap` (`YearStep`); the rest is linear. The
other two rest on the invariant `Clocked /\ Chosen /\ Lines`: the window's day is not ahead of
the wall, and every line on screen has the status of its rule and date on the window's day
(`AgendaLine`, for which every due date must be made of integers, `DueDateInt`). Neither
property is inductive alone: it compares two agendas, and without `Lines` the first could
be anything. `StepForward` says completions grow and windows move on; `StatusForward`, that
a status is monotonic in both.

`DayThereAndBack` and `NumberThereAndBack` take a day number apart into eras, centuries, groups
of four years, years and months from March (`EraParts`, `YearFound`, `MonthFound`), where the
code's divisions must give back exactly these (`InEra`). `IdsUnique` is the longest argument. An id is a rule
and a date, so no two periods of a rule may fall on one date. A date comes about in three ways
(`Resolution`): published, legal, or the end of the month. Each is in the month the lag arrives
at, or was moved by a weekend to the first days of the next (`MovedWithin`, `DueOverrun`). Two
periods are a month apart, a quarter apart, or two published dates of one year that did not
merge (`PeriodsApart`); so they can meet only across one month end, one moved and the other
published there, which `ClearOfWeekends` excludes (`NoneWhereItMoves`, `DatesApart`).
`DatesAsSaid` needs that `cluster_indices` keeps the last date of each cluster (`LastOf`,
`NoneLeftOut`) and that a date moved to the next business day is a Monday (`MovedToMonday`,
from the arithmetic above). On the screen all of this holds by `ScreenInv`: the agenda is
always the one `build_agenda` makes of release, profile, window and completions.

*Dashboard.* `CalendarImplemented` maps each handler to `Calendar`'s or to a stutter
(`StepMapped`), `InitMapped` the beginning. It needs `ScreenInv`: the model on screen is what
`build_model` makes of what the window knows, and the form of an open window holds a day of
tracking that was stored or typed, so that what it saves is one of `Calendar`'s profiles.
`AgendaCarriesOver` draws the conclusion: what is proved of `Calendar` is true of the window.
`CalendarProofs` extends `Calendar` and does not instantiate it, so it is instantiated beside it
(`Proved`) and each operator of the one is shown to be the other's (`SameNumber` to `SameSpec`).
`RulesAreDecided` needs that every profile has one of the three regimes, by whatever
way it came (`Regimes`: stored, typed, built with defaults), that a rule is in the agenda just
when its conditions hold (`ShownRules`, for which every rule must have a period in the year,
`AlwaysAPeriod`), and that a pack which was not refused holds no condition that was not
understood (`LoadedPackIsSound`). 

The figures are sums over the ledger, by a recursive function on its places. That there is such a
function and only one is shown by a least place where it would fail (`SumsExist`, `TotalIs`: the
least of a set of numbers is there without any induction theorem), and then how totals behave when
lists are added place by place, or grow (`TotalAdds`, `TotalMonotone`, `TotalAppended`).
`FiguresAreOne` puts each invoice of the year into one quarter (`FigureOfQuarters`, for which its
date must be a day of the calendar, `Booked`) and into one scope (`ScopesOfYear`); what is owed is
paid to the cent by `InstalmentsAddUp` and `QuartersAddUp` (eight roundings of a product of two
rates against two), for amounts of any size.

`SavedAsOpened` is the long way of a figure through its text. The blocks a number is written in
are joined again to that number (`GroupedReads`, both recursions by least counterexample), marks
and decimals included (`AmountReadBack`, `PercentReadBack`), and normalising a tax number a second
time changes nothing (`NormalisedTwice`, over sequences filtered by rank). It holds of what a vault
holds because of `KeptInv`: a profile there was built from a draft the form let through
(`BuiltStored`), whatever had been typed (`TypedFilled`).

`CeilingIsWatched` must know what is in a sorted list. No code is raised twice
(`ExemptionOnce`, `OthersOnce`), so severity and code put the flags in one order and every flag has
a rank (`FlagsOrdered`, `FlagsListed`); those about the exemption are then exactly those that the
year's turnover at home raises (`ShownFlags`). Turnover grows with the ledger (`HomeGrows`), and
what it raises, the higher it is, is never less (`ZoneShown`, `ZoneRises`).

`WindowWellFormed` rests on all of these: on the dates of the agenda from `AgendaCarriesOver`, on
`KeptInv` for profile and form, and on counts, which are sums of ones (`OnesAdded`).

*Import.* All three theorems rest on `InHand`: what the reader holds are dictionaries of the file, what
it has to visit are values of the tree, and a page's contents are in the file. `SilenceSaid` is not
inductive: `Spoken` says that what could not be read of a page that was begun was said, or is
among the streams still to be opened (`Owed`). `LinesApart` needs that the texts still to be put
on lines come from the top of the page down and stand no higher than any line there is
(`InLine`), since only then does a text that joins a line, or begins one, leave the others apart
(`PutOnLined`); that they are in this order is a fact about sorting, which is stated by ranks, and
every rank is taken by one element (`EveryRankTaken`). `PagesInherit` compares what the walk read
with the levels of the tree, a recursive function of depth. `Grown` says there are sets of
places, one for each depth, of which each holds the roots or what hangs from the one before, but
for what is still to be visited; when nothing is, they satisfy the equations of the levels and
are these (`LevelsGrown`, by a least depth at which they would differ).

`ImportWellFormed` follows the amounts of a file to the form. `InFigures` says that every text on
its way, from a stream through a decoder, a line and a row, is a list of tokens none of which is an
amount below zero; texts of a line are put together by a recursive function, whose values are found
by a least place (`StringsExist`, `StrungTogether`), after a sort by rank (`LeftFirst`). The figures
of a draft are then chosen among places of such rows (`AmountsRead`, `LabelledRead`), so the rate
worked out of them is a natural number or none (`RateRead`, which needs that rounding a quotient of
such numbers gives one, `ScaledNat`). `InReader` carries the walk's depth and what was looked at;
`InForm` that the country in the form came from a list or from a hand (`CountryOfForm`), and that
there is a form only while nothing is recorded, hence one record at most.

Only model-checked: `Finishes`, which is liveness; `SavedAsMeant` of `Dashboard`, which compares
with what a person means by a text, and that is a constant; and `RecordedIsTrue` of `Import`, which
compares an invoice with what its paper says, a constant again: it is true of papers printed the way
those of `MCImport` are, and not of any rows whatever.

## The plan, and what is left of it

Everything of the plan that was laid down first has a module: storage, the vault, its
opening, the window, the agenda, the receipt with its reader, and the profile with the
figures. What would come next:

1. Proofs: `RecordedIsTrue` for rows of a form that can be said without listing them;
   `KeptOut` behind chains of links.
2. `Dashboard` over `Window`'s faults rather than over operations that succeed, so that a
   stale model is followed into its figures.
3. Larger papers: two pages of one receipt, with the totals on the second.

## What is not modelled

The lexer of `pdf.rs`, its inflate and the bytes of a CMap: a document is a constant whose
objects are already told apart, and a stream that cannot be inflated says so. JSON, the
texts of laws and the wording of every message. The drawing of pages and widgets: they show
what the model holds and return the actions that are modelled. `resolve_data_dir`,
`browse_directories`, `starting_points` and `looks_like_vault`, which no start calls;
`default_invoice_terms` and `estimate_irs_simplified_base`, which only tests call. The
formatting of instants, and `xtask`. The Windows build of `sync_parent`, which is empty. A
folder shared over a network, where advisory locks may mean nothing, is outside the code's
own claims.
