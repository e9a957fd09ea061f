------------------------------ MODULE Dashboard ------------------------------
(***************************************************************************)
(* What the window tells the person: build_model (crates/store/src/        *)
(* model.rs) over the rule pack, the profile, the ledger and the agenda,   *)
(* rebuilt after everything the person does (crates/ui/src/app.rs), with   *)
(* the profile form in between.  Nothing fails here and nothing is lost:   *)
(* that is in Window and in Vault.                                         *)
(*                                                                         *)
(* The agenda is the one of Calendar, which this module implements: there  *)
(* a profile is the rules that apply, here it is what they apply to.       *)
(***************************************************************************)
EXTENDS TaxProfile, RulePack, Flags

CONSTANTS
    EmbeddedPack,  \* the pack compiled into the program, as written
    OtherPacks,    \* packs with mistakes in them
    RuleOf,        \* for each rule its schedule, as Calendar takes it
    Published,     \* for each rule the dates published, by year
    Vaults,        \* the profiles a vault may hold to begin with
    Receipts,      \* the invoices that can be registered
    Typed,         \* for each field of the form what can be typed into it
    Meant,         \* for each amount that can be typed the cents it means, or None
    StartDays,     \* the days a behaviour may begin on, with their weekday
    MaxDays,       \* bound: days that pass
    MaxOpen,       \* bound: days one window stays open
    MaxDone,       \* bound: lines marked as handled
    MaxWork        \* bound: fields typed, invoices registered and lines marked

Pack == LoadRulePack(EmbeddedPack)
RuleIds == {r.id : r \in Pack.rules}
Keeping == {r.id : r \in {s \in Pack.rules : s.documents}}

ASSUME PackAssumption ==
    /\ LoadRulePack(EmbeddedPack) # None
    /\ DOMAIN EmbeddedPack.obligations = 1 .. Len(EmbeddedPack.obligations)
ASSUME ConstantsAssumption ==
    /\ Pack.constants.ceiling \in Nat
    /\ \A rate \in {Pack.constants.share, Pack.constants.rate} :
          rate = None \/ (rate \in Nat /\ rate <= 10000)
ASSUME DashboardVaultsAssumption ==
    /\ None \notin Vaults
    /\ \A v \in Vaults :
          Stored(v) /\ v.ivaRegime \in IvaRegimes /\ v.intraCommunity \in BOOLEAN
ASSUME WorkAssumption == MaxWork \in Nat
ASSUME ReceiptsAssumption ==
    \A i \in Receipts :
        CivilDate(i.date) /\ i.base \in Nat /\ i.ivaBp \in Nat /\ i.retentionBp \in Nat
ASSUME TypedAssumption ==
    \A field \in DOMAIN Typed : \A text \in Typed[field] :
        /\ field = "ivaRegime" => text \in IvaRegimes
        /\ field = "nif" => text \in Seq(0 .. 9 \union {Mark})
        /\ field \in {"turnoverPrevious", "turnoverExpected"} => WellMade(text)
        /\ field \notin {"startDate", "trackingStart"} => text # None

(* What is filed at one frequency or another, as rules/pt/2026.json has it.*)
Test(field, op, value) == [field |-> field, op |-> op, value |-> value]

Filed ==
    LET monthly == Test("ivaRegime", "eq", "mensal")
        quarterly == Test("ivaRegime", "eq", "trimestral")
        abroad == Test("intraCommunity", "eq", TRUE)
    IN  [dpMensal        |-> {monthly},
         dpTrimestral    |-> {quarterly},
         recapMensal     |-> {monthly, abroad},
         recapTrimestral |-> {quarterly, abroad, Test("above50k", "ne", TRUE)},
         recapPorVolume  |-> {quarterly, abroad, Test("above50k", "eq", TRUE)}]

ASSUME FiledAssumption ==
    \A id \in DOMAIN Filed :
        /\ \E r \in Pack.rules : r.id = id /\ r.appliesWhen = Filed[id]
        /\ RuleOf[id].periodicity \in {"Monthly", "Quarterly"}

VARIABLES
    today,      \* the day on the wall, and the weekday it is
    weekday,
    elapsed,    \* days since the behaviour began
    window,     \* what the open window took from the clock, or None
    profile,    \* profile.json
    completed,  \* ids in completions.jsonl
    ledger,     \* ledger/invoices.jsonl
    form,       \* the profile form, or None
    model,      \* the model on screen, or None
    work        \* how much of MaxWork is used up

vars == <<today, weekday, elapsed, window, profile, completed, ledger, form, model, work>>
clock == <<today, weekday, elapsed>>

(***************************************************************************)
(* The profile as the agenda sees it.                                      *)
(***************************************************************************)
AgendaProfile(p) ==
    IF p = None THEN None
    ELSE [applies |-> {r.id : r \in {s \in Pack.rules : AppliesTo(p, s.appliesWhen)}},
          trackFrom |-> p.trackingStart]

AgendaProfiles ==
    [applies : SUBSET RuleIds,
     trackFrom : Typed["trackingStart"] \union {v.trackingStart : v \in Vaults} \union {None}]

AgendaOf(m) == IF m = None THEN {} ELSE m.agenda

Calendar == INSTANCE Calendar WITH
    Rules <- RuleIds,
    Packs <- <<[year |-> Pack.year, published |-> Published]>>,
    Profiles <- AgendaProfiles,
    release <- 1,
    profile <- AgendaProfile(profile),
    agenda <- AgendaOf(model)

(* The rules, the pack, the profiles and the days are such as Calendar     *)
(* speaks of.                                                              *)
ASSUME CalendarAssumption ==
    /\ Calendar!StartDaysAssumption /\ Calendar!BoundsAssumption
    /\ Calendar!RulesAssumption /\ Calendar!PlausibleRules
    /\ Calendar!PacksAssumption /\ Calendar!PublishedDates
    /\ Calendar!OneAMonth /\ Calendar!ClearOfWeekends
    /\ Calendar!ProfilesAssumption

(***************************************************************************)
(* The model.                                                              *)
(***************************************************************************)
Agenda(p, day, done) ==
    IF p = None THEN {}
    ELSE Calendar!BuildAgenda([year |-> Pack.year, published |-> Published],
                              AgendaProfile(p), day.year, day, done)

Reasons(p) ==
    IF p = None THEN <<>>
    ELSE [id \in RuleIds |->
            ExplainFailure(p, (CHOOSE r \in Pack.rules : r.id = id).appliesWhen)]

(* With no profile only the pack is spoken of.  No document of this        *)
(* version's is filed under an obligation.                                 *)
FlagsOf(p, invoices, agenda, day) ==
    (IF p = None THEN <<>>
     ELSE ComputeFlags(Pack.constants, Keeping, p, invoices, agenda, day, {})) \o
    PackHealthFlags(Pack.year, Pack.proposed, day)

ModelOf(p, invoices, day, agenda, flags) ==
    [agenda |-> agenda,
     reasons |-> Reasons(p),
     flags |-> flags,
     summary |-> SummariseFlags(flags),
     quarters |-> Quarters(Pack.constants, invoices, day.year),
     reserve |-> EstimateReserve(Pack.constants, invoices, day, 2500, 3500),
     problems |-> IF p = None THEN {} ELSE ValidateProfile(p, day),
     missing |-> IF p = None THEN {} ELSE MissingProfileInputs(p),
     pack |-> SummarisePack(Pack)]

Flagged(p, invoices, day, agenda) ==
    ModelOf(p, invoices, day, agenda, FlagsOf(p, invoices, agenda, day))

BuildModel(p, invoices, day, done) == Flagged(p, invoices, day, Agenda(p, day, done))

Rebuilt ==
    model' = IF window' = None THEN None
             ELSE BuildModel(profile', ledger', window'.today, completed')

(* The figures of the pages: Recibos adds the invoices up by their year,   *)
(* Painel, IVA and IRS add the quarters up.                                *)
RecibosFigures(invoices, year) == TotalsOf(invoices, LAMBDA i : i.date.year = year)

PainelFigures(m) ==
    [figure \in {"base", "iva", "retention", "count"} |->
        m.quarters[1].totals[figure] + m.quarters[2].totals[figure] +
        m.quarters[3].totals[figure] + m.quarters[4].totals[figure]]

(***************************************************************************)
(* Actions.                                                                *)
(***************************************************************************)
Init ==
    /\ \E s \in StartDays : today = s.day /\ weekday = s.weekday
    /\ elapsed = 0
    /\ window = None
    /\ profile \in Vaults \union {None}
    /\ completed = {}
    /\ ledger = <<>>
    /\ form = None
    /\ model = None
    /\ work = 0

PassDay ==
    /\ elapsed < MaxDays
    /\ window # None => DaysBetween(window.today, today) < MaxOpen
    /\ today' = NextDay(today)
    /\ weekday' = (weekday + 1) % 7
    /\ elapsed' = elapsed + 1
    /\ UNCHANGED <<window, profile, completed, ledger, form, model, work>>

(* The program is started, again.                                          *)
Open ==
    /\ window' = [today |-> today, year |-> today.year]
    /\ form' = None
    /\ UNCHANGED <<clock, profile, completed, ledger, work>>
    /\ Rebuilt

Works == work < MaxWork /\ work' = work + 1

OpenProfile ==
    /\ model # None
    /\ form = None
    /\ form' = FromProfile(profile)
    /\ UNCHANGED <<clock, window, profile, completed, ledger, model, work>>

CloseProfile ==
    /\ form # None
    /\ form' = None
    /\ UNCHANGED <<clock, window, profile, completed, ledger, model, work>>

Type ==
    /\ form # None
    /\ Works
    /\ \E field \in DOMAIN Typed : \E text \in Typed[field] :
          form' = [form EXCEPT ![field] = text]
    /\ UNCHANGED <<clock, window, profile, completed, ledger, model>>

(* A mutant's form: the pages are not rebuilt.                             *)
SaveProfileUnseen ==
    /\ form # None
    /\ FormProblems(form) = {}
    /\ profile' = BuildProfile(ToDraft(form), profile)
    /\ Errors(ValidateProfile(profile', window.today)) = {}
    /\ form' = None
    /\ UNCHANGED <<clock, window, completed, ledger, model, work>>

(* What the form submits is validated by the core; what is refused stays   *)
(* in the form and changes nothing.                                        *)
SaveProfile ==
    /\ form # None
    /\ FormProblems(form) = {}
    /\ LET built == BuildProfile(ToDraft(form), profile) IN
          /\ Errors(ValidateProfile(built, window.today)) = {}
          /\ profile' = built
    /\ form' = None
    /\ UNCHANGED <<clock, window, completed, ledger, work>>
    /\ Rebuilt

(* A receipt is confirmed: see Window for the steps on the way.            *)
RecordInvoice ==
    /\ model # None
    /\ form = None
    /\ profile # None
    /\ Works
    /\ \E i \in Receipts : ledger' = Append(ledger, i)
    /\ UNCHANGED <<clock, window, profile, completed, form>>
    /\ Rebuilt

Complete ==
    /\ model # None
    /\ form = None
    /\ Works
    /\ Cardinality(completed) < MaxDone
    /\ \E i \in Calendar!Actionable : completed' = completed \union {Calendar!Id(i)}
    /\ UNCHANGED <<clock, window, profile, ledger, form>>
    /\ Rebuilt

Next ==
    \/ PassDay \/ Open
    \/ OpenProfile \/ Type \/ SaveProfile \/ CloseProfile
    \/ RecordInvoice \/ Complete

Spec == Init /\ [][Next]_vars

(***************************************************************************)
(* Properties.                                                             *)
(***************************************************************************)

(* Every variable holds a value of its kind; a profile has every field of  *)
(* the vocabulary, and only above50k, the figures and tracking are absent. *)
TypeOK ==
    /\ CivilDate(today) /\ weekday \in 0 .. 6
    /\ elapsed \in 0 .. MaxDays /\ work \in 0 .. MaxWork
    /\ window # None => CivilDate(window.today)
    /\ (model = None) = (window = None)
    /\ profile # None =>
          /\ ConditionFields \subseteq DOMAIN profile
          /\ \A field \in DOMAIN profile \ Optional : profile[field] # None
    /\ form # None => DOMAIN form = DOMAIN DefaultForm
    /\ model # None =>
          /\ \A i \in DOMAIN model.flags : model.flags[i].severity \in {"urgent", "attention", "info"}
          /\ \A i \in model.agenda : CivilDate(i.due)
          /\ \A q \in 1 .. 4 : model.quarters[q].totals.count \in 0 .. Len(ledger)

(* A profile in the vault can be opened in the form and saved again: the   *)
(* form finds nothing wrong with its own texts, and saving them untouched  *)
(* leaves the profile as it was, whatever percentages and amounts it holds *)
(* (pages/profile.rs, from_profile and to_draft; money.rs, format_eur      *)
(* against parse_eur_to_cents).                                            *)
Reopens ==
    profile # None /\ ~profile.isCompany =>
        LET untouched == FromProfile(profile)
        IN  /\ FormProblems(untouched) = {}
            /\ BuildProfile(ToDraft(untouched), profile) = profile

(* A figure is saved as the person meant it, by the Portuguese convention, *)
(* or not at all (money.rs, parse_eur_to_cents: "Ambiguity is resolved in  *)
(* favour of the Portuguese convention").                                  *)
SavedAsMeant ==
    [][profile' # profile =>
          \A field \in {"turnoverPrevious", "turnoverExpected"} :
              form[field] \in DOMAIN Meant =>
                  /\ Meant[form[field]] # None
                  /\ profile'[field] = Meant[form[field]]]_vars

(* The pages agree on the year: every invoice of it is in one quarter and  *)
(* in one scope, and none of another year is, whether the date was taken   *)
(* apart or compared as text (estimate.rs, in_range; flags.rs,             *)
(* turnover_by_scope; pages/recibos.rs).                                   *)
PagesAgree ==
    LET shown == RecibosFigures(ledger, window.year)
        turnover == TurnoverByScope(ledger, window.year)
    IN  /\ PainelFigures(model) = shown
        /\ turnover["national"] + turnover["eu"] + turnover["nonEu"] = shown.base
        /\ model.reserve.basis <= shown.base

(* The instalments of a quarter add up to its contribution to the cent and *)
(* differ by a cent at most, and rounding quarter by quarter moves the     *)
(* year's contribution by less than five cents (money.rs, split_evenly:    *)
(* "never three times 968,71 with a cent lost").                           *)
InstalmentsExact ==
    LET owed == [q \in 1 .. 4 |-> model.quarters[q].socialSecurity.contribution]
        parts(q) == model.quarters[q].socialSecurity.instalments
        yearly == EstimateSocialSecurity(Pack.constants, PainelFigures(model).base, 1)
    IN  /\ \A q \in 1 .. 4 :
              /\ parts(q)[1] + parts(q)[2] + parts(q)[3] = owed[q]
              /\ \A i, j \in 1 .. 3 : parts(q)[i] - parts(q)[j] \in -1 .. 1
        /\ Magnitude(owed[1] + owed[2] + owed[3] + owed[4] - yearly.contribution) < 5

(* The figures of a year are one set of figures: the pages agree on them,  *)
(* and what is paid in instalments is what the quarter owes, to the cent.  *)
FiguresAgree == model # None => PagesAgree /\ InstalmentsExact

(* Of the alternatives a taxpayer files at one frequency or another the    *)
(* agenda has exactly one, also when the question that settles it was      *)
(* never answered, and the others say why they are not there               *)
(* (conditions.rs: "an unanswered question gets the base rule").           *)
Alternatives ==
    { <<{"dpMensal", "dpTrimestral"}, FALSE>>,
      <<{"recapMensal", "recapTrimestral", "recapPorVolume"}, TRUE>> }

OneFrequency ==
    model # None /\ profile # None =>
        \A a \in Alternatives :
            LET shown == {i.rule : i \in {j \in model.agenda : j.status # "NotApplicable"}} \cap a[1]
                due == profile.ivaRegime # "isento_art53" /\ (a[2] => profile.intraCommunity)
            IN  /\ Cardinality(shown) = IF due THEN 1 ELSE 0
                /\ \A id \in a[1] \ shown : model.reasons[id] # {}

(* An exemption the person no longer has a right to is said to be wrong,   *)
(* urgently, by the day it is read, and never called active at the same    *)
(* time as the profile is called mistaken (flags.rs against profile.rs,    *)
(* validate_profile).  It takes last year's turnover to be known.          *)
ExemptionSaid ==
    profile.turnoverPrevious # None =>
        LET codes == {model.flags[i].code : i \in {j \in DOMAIN model.flags :
                          model.flags[j].severity = "urgent"}}
            national == TurnoverByScope(ledger, window.year)["national"]
            lost == \/ profile.exports \/ ~profile.residentPt
                    \/ profile.turnoverPrevious > Pack.constants.ceiling
                    \/ national > Pack.constants.ceiling
        IN  /\ Exempt(profile) /\ lost =>
                  codes \cap {"ART53_CEILING_EXCEEDED_HISTORY", "ART53_IN_TRANSITION_ZONE",
                              "ART53_CEILING_CROSSED"} # {}
            /\ Problem("error", "ivaRegime") \in model.problems =>
                  ~\E i \in DOMAIN model.flags : model.flags[i].code = "ART53_EXEMPTION_ACTIVE"

(* How far up the watch on the ceiling has gone.                           *)
Zone(m) ==
    LET codes == {m.flags[i].code : i \in DOMAIN m.flags}
    IN  CASE "ART53_CEILING_CROSSED" \in codes -> 3
          [] "ART53_IN_TRANSITION_ZONE" \in codes -> 2
          [] "ART53_MARGIN_SHRINKING" \in codes -> 1
          [] OTHER -> 0

(* Nobody loses the exemption unsaid: a right that is gone is said to be   *)
(* gone, and within a year, with the same profile, the watch on the ceiling*)
(* never steps back, whatever is registered and wherever the client is     *)
(* (flags.rs, "a number to watch all year").                               *)
CeilingWatched ==
    /\ [](model # None /\ profile # None => ExemptionSaid)
    /\ [][model # None /\ model' # None /\ window'.year = window.year /\ profile' = profile
          => Zone(model) <= Zone(model')]_vars

(* A condition that is not understood never makes a rule apply, although   *)
(* it is read as another one (rules.rs: "which makes the rule inapplicable *)
(* rather than silently applicable").                                      *)
NotUnderstood(c) == c.field \notin ConditionFields \/ c.op \notin ConditionOps

NotUnderstoodNeverApplies ==
    profile # None =>
        \A raw \in OtherPacks :
            LoadRulePack(raw) # None =>
                \A k \in DOMAIN raw.obligations :
                    LET conditions == raw.obligations[k].appliesWhen
                    IN  (\E c \in conditions : NotUnderstood(c))
                        => ~AppliesTo(profile, {ParsedCondition(c) : c \in conditions})

(* Which rules apply is decided, one way: exactly one of the alternatives, *)
(* and none by a condition nobody understood (conditions.rs, applies_to).  *)
RulesDecided == OneFrequency /\ NotUnderstoodNeverApplies

(* The agenda behaves as Calendar says, with the rules that apply worked   *)
(* out from the profile (calendar.rs, build_agenda; app.rs, reload).       *)
RefinesCalendar == Calendar!Spec
=============================================================================
