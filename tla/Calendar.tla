------------------------------ MODULE Calendar ------------------------------
(***************************************************************************)
(* The obligation engine (crates/core/src/calendar.rs) as the application  *)
(* runs it: a window is opened on some day, reads the clock once, builds   *)
(* the agenda of that year for the profile, and builds it again, with the  *)
(* day it was opened on, whenever an obligation is marked or the profile   *)
(* is saved (crates/ui/src/app.rs).  Days pass meanwhile, and a release of *)
(* the program may bring dates the authority has published since.          *)
(*                                                                         *)
(* Labels, notes and the order of the list are left out; so is the way a   *)
(* condition is evaluated, of which a profile keeps the outcome.  What a   *)
(* failing write does is in Window.                                        *)
(***************************************************************************)
EXTENDS Dates, FiniteSets, Sequences

CONSTANTS
    None,
    Rules,      \* the obligations of the rule pack
    RuleOf,     \* for each its periodicity, lag in months, deadline and kind
    Packs,      \* the releases of the pack: the year each is for, and the
                \* dates it publishes, by rule and year
    Profiles,   \* the rules that apply, and the day tracking began or None
    StartDays,  \* the days a behaviour may begin on, with their weekday
    MaxDays,    \* bound: days that pass
    MaxOpen,    \* bound: days one window stays open
    MaxDone     \* bound: obligations marked as handled

ASSUME StartDaysAssumption ==
    \A s \in StartDays : CivilDate(s.day) /\ s.day.year > 0 /\ s.weekday \in 0 .. 6
ASSUME BoundsAssumption == MaxDays \in Nat /\ MaxOpen \in Nat /\ MaxDone \in Nat
ASSUME RulesAssumption ==
    \A r \in Rules :
        /\ RuleOf[r].periodicity \in {"Monthly", "Quarterly", "Annual", "Continuous", "EventDriven"}
        /\ RuleOf[r].lag \in Int
        /\ LET deadline == RuleOf[r].deadline IN
           deadline # None =>
               /\ deadline.kind \in {"DayOfMonth", "FixedDate", "Range", "LastDayOfMonth",
                                     "MonthOfYear", "DayRange", "DaysAfterEvent", "RetentionYears"}
               /\ \A n \in {deadline.day, deadline.month, deadline.dayTo} : n = None \/ n \in Int
ASSUME PacksAssumption ==
    /\ Len(Packs) \in Nat \ {0}
    /\ \A p \in 1 .. Len(Packs) : \A r \in Rules :
           LET published == Packs[p].published[r] IN
           \A y \in DOMAIN published : y \in Int /\ published[y] \subseteq [month : Int, day : Int]
ASSUME PlausibleRules ==    \* every deadline of rules/pt/2026.json is one
    \A r \in Rules :
        /\ RuleOf[r].lag \in Nat
        /\ LET deadline == RuleOf[r].deadline IN
           deadline # None =>
               /\ deadline.month = None \/ deadline.month \in 1 .. 12
               /\ \A n \in {deadline.day, deadline.dayTo} : n = None \/ n \in 1 .. 31
ASSUME PublishedDates ==    \* and what it publishes for a year are days of it
    \A p \in 1 .. Len(Packs) : \A r \in Rules :
        LET published == Packs[p].published[r] IN
        \A y \in DOMAIN published : \A e \in published[y] : CivilDate(Date(y, e.month, e.day))
ASSUME OneAMonth ==         \* for an annual rule no two of them in one month
    \A p \in 1 .. Len(Packs) : \A r \in Rules :
        LET published == Packs[p].published[r] IN
        RuleOf[r].periodicity = "Annual" =>
            \A y \in DOMAIN published : \A e, f \in published[y] : e.month = f.month => e = f
\* A derived date may be moved by a weekend to the first or the second of a
\* month: nothing is published there for a rule that may be due in the
\* month before as well.
ASSUME ClearOfWeekends ==
    \A p \in 1 .. Len(Packs) : \A r \in Rules :
        LET published == Packs[p].published[r]
            OwnMonth == RuleOf[r].deadline # None /\ RuleOf[r].deadline.month # None
        IN  \/ RuleOf[r].periodicity = "Monthly"
            \/ RuleOf[r].periodicity = "Annual" /\ ~OwnMonth
            => \A y \in DOMAIN published : \A e \in published[y] : e.day > 2
ASSUME ProfilesAssumption == None \notin Profiles /\ \A p \in Profiles : p.applies \subseteq Rules

VARIABLES
    today,      \* the day on the wall, and the weekday it is
    weekday,
    elapsed,    \* days since the behaviour began
    window,     \* what the open window took from the clock, or None
    release,    \* the release in use
    profile,    \* the profile of the vault, or None
    completed,  \* ids in completions.jsonl: a rule and a due date
    agenda      \* the agenda of the model on screen

vars == <<today, weekday, elapsed, window, release, profile, completed, agenda>>
clock == <<today, weekday, elapsed>>

(***************************************************************************)
(* Published dates.  normalise_official_dates sorts them by month and day, *)
(* so a set of them says as much as the list.                              *)
(***************************************************************************)
MonthDayDistance(e, f) == (f.month - e.month) * 31 + (f.day - e.day)

Before(e, f) == e.month < f.month \/ (e.month = f.month /\ e.day < f.day)

(* A mutant's form: of dates within a week, the first is kept.             *)
EarliestOfClusters(S) ==
    {e \in S : \A f \in S : Before(f, e) => MonthDayDistance(f, e) > 7}

(* cluster_indices: of dates that follow one another within a week the     *)
(* last survives.                                                          *)
Survivors(S) == {e \in S : \A f \in S : Before(e, f) => MonthDayDistance(e, f) > 7}

PublishedFor(pack, r, year) ==
    IF year \in DOMAIN pack.published[r] THEN pack.published[r][year] ELSE {}

(* The clusters of the latest year the pack has anything for.              *)
Pattern(pack, r) ==
    LET years == DOMAIN pack.published[r]
        latest == {y \in years : \A z \in years : z <= y}
    IN  UNION {Survivors(pack.published[r][y]) : y \in latest}

(***************************************************************************)
(* The periods of a year, each with the month it falls due in.  "part"     *)
(* tells the instalments of an annual obligation apart, "pinned" is true   *)
(* of a period taken from the published dates.                             *)
(***************************************************************************)
Seed(from, to, part, dueYear, dueMonth, pinned) ==
    [from |-> from, to |-> to, part |-> part,
     dueYear |-> dueYear, dueMonth |-> dueMonth, pinned |-> pinned]

LaggedSeed(from, to, base, lag) ==
    LET due == AddMonths(base, lag) IN Seed(from, to, None, due.year, due.month, FALSE)

MonthSeeds(r, y) ==
    {LaggedSeed(MonthStart(y, m), MonthEnd(y, m), MonthStart(y, m), RuleOf[r].lag) :
        m \in 1 .. 12}

QuarterSeeds(r, y) ==
    {LaggedSeed(QuarterStart(y, q), QuarterEnd(y, q), QuarterEnd(y, q), RuleOf[r].lag) :
        q \in 1 .. 4}

AnnualDueMonths(pack, r) ==
    LET deadline == RuleOf[r].deadline
        explicit == IF deadline = None THEN None ELSE deadline.month
    IN  IF explicit # None THEN {[month |-> explicit, day |-> 0]}
        ELSE IF Pattern(pack, r) # {} THEN Pattern(pack, r)
        ELSE {[month |-> 6, day |-> 0]}

(* Several clusters are instalments; one cluster that merged a neighbour   *)
(* is a shifted deadline; both are pinned to what was published.           *)
AnnualSeeds(pack, r, y) ==
    LET published == PublishedFor(pack, r, y)
        survivors == Survivors(published)
        Merged == \E e \in survivors : \E f \in published \ {e} : MonthDayDistance(f, e) <= 7
        pinned == Cardinality(survivors) > 1 \/ Merged
        parts == IF pinned THEN survivors ELSE AnnualDueMonths(pack, r)
    IN  {Seed(Date(y - 1, 1, 1), Date(y - 1, 12, 31), e, y, e.month, pinned) : e \in parts}

Periods(pack, r, y) ==
    CASE RuleOf[r].periodicity = "Monthly"     -> MonthSeeds(r, y)
      [] RuleOf[r].periodicity = "Quarterly"   -> QuarterSeeds(r, y)
      [] RuleOf[r].periodicity = "Annual"      -> AnnualSeeds(pack, r, y)
      [] RuleOf[r].periodicity = "Continuous"  ->
            {Seed(Date(y, 1, 1), Date(y, 12, 31), None, y, 12, FALSE)}
      [] RuleOf[r].periodicity = "EventDriven" -> {}

(***************************************************************************)
(* The date a period falls due on.                                         *)
(***************************************************************************)
LegalDay(deadline, y, m) ==
    IF deadline = None THEN None
    ELSE CASE deadline.kind \in {"DayOfMonth", "FixedDate"} -> deadline.day
           [] deadline.kind = "Range" ->
                IF deadline.dayTo # None THEN deadline.dayTo ELSE deadline.day
           [] deadline.kind \in {"LastDayOfMonth", "MonthOfYear"} -> DaysInMonth(y, m)
           [] deadline.kind = "DayRange" -> deadline.dayTo
           [] deadline.kind \in {"DaysAfterEvent", "RetentionYears"} -> None

Resolved(due, source, adjusted) == [due |-> due, source |-> source, adjusted |-> adjusted]

(* find: the first published date of the month.                            *)
PublishedIn(published, month) ==
    {e \in published : e.month = month
                       /\ \A f \in published : f.month = month => ~Before(f, e)}

ResolveDueDate(pack, r, seed) ==
    LET On(day) == Date(seed.dueYear, seed.dueMonth,
                        SmallerOf(day, DaysInMonth(seed.dueYear, seed.dueMonth)))
        matched == PublishedIn(PublishedFor(pack, r, seed.dueYear), seed.dueMonth)
        official == On((CHOOSE e \in matched : TRUE).day)
        legalDay == LegalDay(RuleOf[r].deadline, seed.dueYear, seed.dueMonth)
        legal == On(legalDay)
        business == NextBusinessDay(legal, {})
    IN  CASE matched # {} /\ (seed.pinned \/ legalDay = None) ->
                Resolved(official, "Official", FALSE)
          [] matched # {} /\ ~seed.pinned /\ legalDay # None ->
                Resolved(official, "Official", official = business /\ official # legal)
          [] matched = {} /\ legalDay = None ->
                Resolved(MonthEnd(seed.dueYear, seed.dueMonth), "Derived", FALSE)
          [] matched = {} /\ legalDay # None ->
                Resolved(business, "Derived", business # legal)

(***************************************************************************)
(* The agenda of a year as seen on a day.                                  *)
(***************************************************************************)
DueSoonDays == 30

(* A mutant's form: no warning on the way to the date.                     *)
StatusByDateOnly(r, delta) ==
    IF RuleOf[r].kind # "Save" /\ delta < 0 THEN "Overdue" ELSE "Future"

StatusByDate(r, delta) ==
    IF RuleOf[r].kind = "Save" THEN "Future"
    ELSE IF delta < 0 THEN "Overdue"
    ELSE IF delta <= DueSoonDays THEN "DueSoon"
    ELSE "Future"

Status(r, due, day, trackFrom, done) ==
    IF <<r, due>> \in done THEN "Done"
    ELSE IF trackFrom # None /\ Earlier(due, trackFrom) THEN "Untracked"
    ELSE StatusByDate(r, DaysBetween(day, due))

(* The line of a rule that does not apply.                                 *)
NotApplicable(r, y) ==
    [rule |-> r, from |-> None, to |-> None, part |-> None, due |-> Date(y, 12, 31),
     source |-> "Derived", adjusted |-> FALSE, provisional |-> FALSE,
     status |-> "NotApplicable"]

InstanceOn(pack, r, seed, resolved, day, trackFrom, done) ==
    [rule |-> r, from |-> seed.from, to |-> seed.to, part |-> seed.part,
     due |-> resolved.due, source |-> resolved.source, adjusted |-> resolved.adjusted,
     provisional |-> seed.dueYear # pack.year,
     status |-> Status(r, resolved.due, day, trackFrom, done)]

Instance(pack, r, seed, day, trackFrom, done) ==
    InstanceOn(pack, r, seed, ResolveDueDate(pack, r, seed), day, trackFrom, done)

BuildAgenda(pack, who, year, day, done) ==
    {NotApplicable(r, year) : r \in Rules \ who.applies} \union
    UNION {{Instance(pack, r, seed, day, who.trackFrom, done) : seed \in Periods(pack, r, year)} :
              r \in who.applies}

(* The model of the window, as it is after any of the actions below.       *)
Rebuilt ==
    agenda' = IF window' = None \/ profile' = None THEN {}
              ELSE BuildAgenda(Packs[release'], profile', window'.year, window'.today, completed')

Id(i) == <<i.rule, i.due>>

Actionable == {i \in agenda : i.status \in {"Overdue", "DueSoon", "Future"}}

(***************************************************************************)
(* Actions.                                                                *)
(***************************************************************************)
Init ==
    /\ \E s \in StartDays : today = s.day /\ weekday = s.weekday
    /\ elapsed = 0
    /\ window = None
    /\ release = 1
    /\ profile \in Profiles \union {None}
    /\ completed = {}
    /\ agenda = {}

(* Midnight in Lisbon.  An open window keeps the day it was opened on.     *)
PassDay ==
    /\ elapsed < MaxDays
    /\ window # None => DaysBetween(window.today, today) < MaxOpen
    /\ today' = NextDay(today)
    /\ weekday' = (weekday + 1) % 7
    /\ elapsed' = elapsed + 1
    /\ UNCHANGED <<window, release, profile, completed, agenda>>

(* The program is started, again or with a later release.                  *)
Open ==
    /\ window' = [today |-> today, year |-> today.year]
    /\ release' \in release .. Len(Packs)
    /\ UNCHANGED <<clock, profile, completed>>
    /\ Rebuilt

(* "Marcar tratada" on one line of the agenda.                             *)
Complete ==
    /\ window # None
    /\ Cardinality(completed) < MaxDone
    /\ \E i \in Actionable : completed' = completed \union {Id(i)}
    /\ UNCHANGED <<clock, window, release, profile>>
    /\ Rebuilt

SaveProfile ==
    /\ window # None
    /\ profile' \in Profiles
    /\ UNCHANGED <<clock, window, release, completed>>
    /\ Rebuilt

Next == PassDay \/ Open \/ Complete \/ SaveProfile

Spec == Init /\ [][Next]_vars

(***************************************************************************)
(* Properties.                                                             *)
(***************************************************************************)
Statuses == {"Done", "Overdue", "DueSoon", "Future", "Untracked", "NotApplicable"}

(* Every variable holds a value of its kind; a date on screen has four     *)
(* digits of year, a month and a day, as parse_iso demands of whoever      *)
(* reads it back (dates.rs, make_iso).                                     *)
TypeOK ==
    /\ CivilDate(today)
    /\ weekday \in 0 .. 6
    /\ elapsed \in 0 .. MaxDays
    /\ window # None => CivilDate(window.today) /\ window.year = window.today.year
    /\ release \in 1 .. Len(Packs)
    /\ profile \in Profiles \union {None}
    /\ \A id \in completed : id[1] \in Rules /\ CivilDate(id[2])
    /\ \A i \in agenda : /\ i.rule \in Rules
                         /\ CivilDate(i.due)
                         /\ i.status \in Statuses

(* The arithmetic on day numbers agrees with the calendar on the wall: the *)
(* number of a day leads back to that day, and its weekday is the one that *)
(* has come round since the beginning (dates.rs, days_from_civil,          *)
(* civil_from_days, day_of_week).                                          *)
ArithmeticAgrees ==
    /\ CivilFromDays(DaysFromCivil(today)) = today
    /\ DayOfWeek(today) = weekday

(* When a day passes on the wall, exactly one day passes in the arithmetic *)
(* (dates.rs, days_from_civil).                                            *)
DaysCounted ==
    [][today' # today => DaysBetween(today, today') = 1]_vars

(* No two lines of an agenda share an id, the id being all a completion    *)
(* and a document know an obligation by (calendar.rs, build_agenda).       *)
UniqueIds == \A i, j \in agenda : Id(i) = Id(j) => i = j

(* While the profile stays, the status of a line never goes back: what was *)
(* due soon is not in the distance again, what was late is late until it   *)
(* is handled, and what was handled stays so, whatever is opened, marked   *)
(* or released (calendar.rs, build_agenda).                                *)
Rank(status) ==
    CASE status = "Future" -> 0 [] status = "DueSoon" -> 1
      [] status = "Overdue" -> 2 [] status = "Done" -> 3
      [] OTHER -> 0

NeverGoesBack ==
    [][profile' = profile =>
           \A i \in agenda \ agenda' : \A j \in agenda' :
               Id(j) = Id(i) => Rank(i.status) <= Rank(j.status)]_vars

(* Who opens the window once a month is warned: between two agendas no     *)
(* more than thirty days apart, no line goes from the distance to late     *)
(* without having been due soon (calendar.rs, due_soon_days).              *)
WarnedBeforeLate ==
    [][/\ profile' = profile /\ window # None /\ window' # None
       /\ DaysBetween(window.today, window'.today) <= DueSoonDays
       => \A i \in agenda \ agenda' : \A j \in agenda' :
              i.status = "Future" /\ Id(j) = Id(i) => j.status # "Overdue"]_vars

(* A date is what its line says of it.  One that is said to be the         *)
(* authority's was published, and for an annual obligation it is the last  *)
(* day on which the authority takes it: nothing published for the rule     *)
(* follows within a week (calendar.rs, cluster_indices: "keeping the later *)
(* - the last day you may actually comply").  One that is derived for a    *)
(* rule that fixes a day is a day on which an office is open, and one that *)
(* was moved is a Monday (dates.rs, next_business_day).                    *)
LastPublished(i) ==
    LET published == PublishedFor(Packs[release], i.rule, i.due.year)
        shown == [month |-> i.due.month, day |-> i.due.day]
    IN  /\ shown \in published
        /\ RuleOf[i.rule].periodicity = "Annual" =>
               \A e \in published : MonthDayDistance(shown, e) \notin 1 .. 7

Workable(i) ==
    LegalDay(RuleOf[i.rule].deadline, i.due.year, i.due.month) # None =>
        /\ DayOfWeek(i.due) \in 1 .. 5
        /\ i.adjusted => DayOfWeek(i.due) = 1

DateAsSaid ==
    \A i \in agenda :
        i.status # "NotApplicable" =>
            IF i.source = "Official" THEN LastPublished(i) ELSE Workable(i)

(* Not a property of this code.  A date the authority published for the    *)
(* year of the agenda, for a rule that applies, is the date of one of its  *)
(* lines, or comes within a week before it (calendar.rs: "If the authority *)
(* has published a date for the year, that date is used").                 *)
PublishedUsed ==
    window # None /\ profile # None =>
        \A r \in profile.applies :
            \A e \in PublishedFor(Packs[release], r, window.year) :
                \E i \in agenda :
                    /\ i.rule = r
                    /\ i.source = "Official"
                    /\ DaysBetween(Date(window.year, e.month, e.day), i.due) \in 0 .. 7
=============================================================================
