---------------------------- MODULE DashboardProofs ----------------------------
(***************************************************************************)
(* What holds of the window whatever is typed, saved and registered, with  *)
(* any pack that loads: it shows Calendar's agenda, of the alternatives    *)
(* one, and amounts that add up.                                           *)
(***************************************************************************)
EXTENDS Dashboard, TLAPS, FiniteSetTheorems, WellFoundedInduction

(* None is a value of its own: no record is None.                          *)
NoneIsNoFunction == None # [x \in DOMAIN None |-> None[x]]

LEMMA BuiltIsSome ==
    ASSUME NoneIsNoFunction, NEW draft, NEW current PROVE BuildProfile(draft, current) # None
<1> DEFINE p == BuildProfile(draft, current)
<1>1. p = [field \in DOMAIN p |-> p[field]]
    BY DEF BuildProfile
<1> QED
    BY <1>1, Zenon DEF NoneIsNoFunction

LEMMA ModelIsSome ==
    ASSUME NoneIsNoFunction, NEW p, NEW invoices, NEW day, NEW done
    PROVE  BuildModel(p, invoices, day, done) # None
<1> DEFINE m == BuildModel(p, invoices, day, done)
<1>1. m = [field \in DOMAIN m |-> m[field]]
    BY DEF BuildModel, Flagged, ModelOf
<1> QED
    BY <1>1, Zenon DEF NoneIsNoFunction

LEMMA ModelAgenda ==
    ASSUME NEW p, NEW invoices, NEW day, NEW done
    PROVE  BuildModel(p, invoices, day, done).agenda = Agenda(p, day, done)
BY DEF BuildModel, Flagged, ModelOf

LEMMA WindowIsSome ==
    ASSUME NoneIsNoFunction, NEW day, NEW y PROVE [today |-> day, year |-> y] # None
<1> DEFINE w == [today |-> day, year |-> y]
<1>1. w = [field \in DOMAIN w |-> w[field]]
    OBVIOUS
<1> QED
    BY <1>1, Zenon DEF NoneIsNoFunction

LEMMA AgendaProfileIsSome ==
    ASSUME NoneIsNoFunction, NEW p, p # None PROVE AgendaProfile(p) # None
<1> DEFINE a == AgendaProfile(p)
<1>1. a = [field \in DOMAIN a |-> a[field]]
    BY DEF AgendaProfile
<1> QED
    BY <1>1, Zenon DEF NoneIsNoFunction

LEMMA SameCount == ASSUME NEW a, NEW b PROVE Calendar!DaysBetween(a, b) = DaysBetween(a, b)
BY DEF Calendar!DaysBetween, DaysBetween, Calendar!DaysFromCivil, DaysFromCivil,
       Calendar!MarchYear, MarchYear, Calendar!DayOfMarchYear, DayOfMarchYear

LEMMA SameDate == ASSUME NEW d PROVE Calendar!CivilDate(d) = CivilDate(d)
BY DEF Calendar!CivilDate, CivilDate, Calendar!DaysInMonth, DaysInMonth,
       Calendar!IsLeapYear, IsLeapYear

LEMMA SameNext == ASSUME NEW d PROVE Calendar!NextDay(d) = NextDay(d)
BY DEF Calendar!NextDay, NextDay, Calendar!DaysInMonth, DaysInMonth, Calendar!Date, Date,
       Calendar!IsLeapYear, IsLeapYear

(***************************************************************************)
(* What every reachable state satisfies: the model on screen is the one    *)
(* build_model makes of what the window knows, and the form of an open     *)
(* window holds a day of tracking that was stored or typed.                *)
(***************************************************************************)
Tracking == Typed["trackingStart"] \union {v.trackingStart : v \in Vaults} \union {None}

Windowed ==
    /\ window # None => window.year = window.today.year
    /\ form # None => window # None

OnScreen ==
    model = IF window = None THEN None
            ELSE BuildModel(profile, ledger, window.today, completed)

Edited ==
    /\ profile # None => profile.trackingStart \in Tracking
    /\ form # None => DOMAIN form = DOMAIN DefaultForm /\ form.trackingStart \in Tracking

ScreenInv == Windowed /\ OnScreen /\ Edited

LEMMA Submitted ==
    ASSUME NEW f, NEW current, f.trackingStart \in Tracking,
           current # None => current.trackingStart \in Tracking
    PROVE  BuildProfile(ToDraft(f), current).trackingStart \in Tracking
<1> DEFINE draft == ToDraft(f)
           stored == IF current = None \/ current.trackingStart = None THEN None ELSE current.trackingStart
<1>1. draft.trackingStart = f.trackingStart /\ {"nif", "trackingStart"} \subseteq DOMAIN draft
    BY DEF ToDraft
<1>2. stored \in Tracking
    BY DEF Tracking
<1>3. ASSUME NEW d, {"nif", "trackingStart"} \subseteq DOMAIN d
      PROVE  BuildProfile(d, current).trackingStart = IF d.trackingStart # None THEN d.trackingStart ELSE stored
    <2> DEFINE e == [d EXCEPT !.nif = NormaliseNif(@),
                              !.trackingStart = IF @ # None THEN @ ELSE stored]
    <2>1. "trackingStart" \in DOMAIN e /\ e.trackingStart = IF d.trackingStart # None THEN d.trackingStart ELSE stored
        BY <1>3
    <2>2. BuildProfile(d, current).trackingStart = e.trackingStart
        BY <2>1 DEF BuildProfile
    <2> QED
        BY <2>1, <2>2
<1> HIDE DEF draft, stored
<1>4. BuildProfile(draft, current).trackingStart = IF draft.trackingStart # None THEN draft.trackingStart ELSE stored
    BY <1>1, <1>3
<1> QED
    BY <1>1, <1>2, <1>4 DEF draft

LEMMA FormOpened ==
    ASSUME NEW p, p # None => p.trackingStart \in Tracking
    PROVE  DOMAIN FromProfile(p) = DOMAIN DefaultForm /\ FromProfile(p).trackingStart \in Tracking
<1>1. "trackingStart" \in DOMAIN DefaultForm /\ DefaultForm.trackingStart = None
    BY DEF DefaultForm
<1>2. CASE p = None
    BY <1>1, <1>2 DEF FromProfile, Tracking
<1>3. CASE p # None
    <2>1. DOMAIN FromProfile(p) = DOMAIN DefaultForm
        BY <1>3 DEF FromProfile
    <2>2. FromProfile(p).trackingStart = p.trackingStart
        BY <1>1, <1>3 DEF FromProfile
    <2> QED
        BY <1>3, <2>1, <2>2
<1> QED
    BY <1>2, <1>3

LEMMA FieldTyped ==
    ASSUME NEW f, DOMAIN f = DOMAIN DefaultForm, f.trackingStart \in Tracking,
           NEW field \in DOMAIN Typed, NEW text \in Typed[field]
    PROVE  LET g == [f EXCEPT ![field] = text]
           IN  DOMAIN g = DOMAIN DefaultForm /\ g.trackingStart \in Tracking
<1>1. "trackingStart" \in DOMAIN f
    BY DEF DefaultForm
<1>2. CASE field = "trackingStart"
    BY <1>1, <1>2 DEF Tracking
<1>3. CASE field # "trackingStart"
    BY <1>1, <1>3
<1> QED
    BY <1>2, <1>3

LEMMA ScreenStart == Init => ScreenInv
<1> SUFFICES ASSUME Init PROVE ScreenInv
    OBVIOUS
<1>1. profile # None => profile.trackingStart \in Tracking
    BY DEF Init, Tracking
<1> QED
    BY <1>1 DEF Init, ScreenInv, Windowed, OnScreen, Edited

LEMMA ScreenKept == ASSUME NoneIsNoFunction PROVE ScreenInv /\ [Next]_vars => ScreenInv'
<1> SUFFICES ASSUME ScreenInv, [Next]_vars PROVE ScreenInv'
    OBVIOUS
<1>0. Windowed /\ OnScreen /\ Edited
    BY DEF ScreenInv
<1>1. CASE PassDay \/ UNCHANGED vars
    BY <1>0, <1>1 DEF PassDay, vars, ScreenInv, Windowed, OnScreen, Edited
<1>2. CASE Open
    <2>1. Windowed' /\ OnScreen'
        BY <1>2 DEF Open, Rebuilt, Windowed, OnScreen
    <2>2. Edited'
        BY <1>0, <1>2 DEF Open, Edited
    <2> QED
        BY <2>1, <2>2 DEF ScreenInv
<1>3. CASE OpenProfile
    <2>1. form' = FromProfile(profile) /\ model # None /\ UNCHANGED <<window, profile, completed, ledger, model>>
        BY <1>3 DEF OpenProfile
    <2>2. window # None
        BY <1>0, <2>1 DEF OnScreen
    <2>3. Edited'
        BY <1>0, <2>1, FormOpened DEF Edited
    <2> QED
        BY <1>0, <2>1, <2>2, <2>3 DEF ScreenInv, Windowed, OnScreen
<1>4. CASE CloseProfile
    BY <1>0, <1>4 DEF CloseProfile, ScreenInv, Windowed, OnScreen, Edited
<1>5. CASE Type
    <2>1. PICK field \in DOMAIN Typed : \E text \in Typed[field] : form' = [form EXCEPT ![field] = text]
        BY <1>5 DEF Type
    <2>2. form # None /\ UNCHANGED <<window, profile, completed, ledger, model>>
        BY <1>5 DEF Type
    <2>3. Edited'
        BY <1>0, <2>1, <2>2, FieldTyped DEF Edited
    <2> QED
        BY <1>0, <2>2, <2>3 DEF ScreenInv, Windowed, OnScreen
<1>6. CASE SaveProfile
    <2>1. /\ form # None /\ profile' = BuildProfile(ToDraft(form), profile)
          /\ form' = None /\ window' = window
        BY <1>6 DEF SaveProfile
    <2>2. OnScreen'
        BY <1>6 DEF SaveProfile, Rebuilt, OnScreen
    <2>3. profile'.trackingStart \in Tracking
        BY <1>0, <2>1, Submitted DEF Edited
    <2> QED
        BY <1>0, <2>1, <2>2, <2>3 DEF ScreenInv, Windowed, Edited
<1>7. CASE RecordInvoice \/ Complete
    <2>1. UNCHANGED <<window, profile, form>>
        BY <1>7 DEF RecordInvoice, Complete
    <2>2. OnScreen'
        BY <1>7 DEF RecordInvoice, Complete, Rebuilt, OnScreen
    <2> QED
        BY <1>0, <2>1, <2>2 DEF ScreenInv, Windowed, Edited
<1> QED
    BY <1>1, <1>2, <1>3, <1>4, <1>5, <1>6, <1>7 DEF Next

LEMMA ShownAgenda ==
    ASSUME NoneIsNoFunction
    PROVE  /\ AgendaOf(None) = {}
           /\ \A p, invoices, day, done :
                  AgendaOf(BuildModel(p, invoices, day, done)) = Agenda(p, day, done)
BY ModelIsSome, ModelAgenda DEF AgendaOf

LEMMA ProfileMapped ==
    ASSUME NEW p, p # None, p.trackingStart \in Tracking
    PROVE  AgendaProfile(p) \in AgendaProfiles
<1>1. {r.id : r \in {s \in Pack.rules : AppliesTo(p, s.appliesWhen)}} \subseteq RuleIds
    BY DEF RuleIds
<1> QED
    BY <1>1 DEF AgendaProfile, AgendaProfiles, Tracking

ThePack == [year |-> Pack.year, published |-> Published]

(* The agenda of a model is the one Calendar builds.                       *)
LEMMA AgendaMapped ==
    ASSUME NoneIsNoFunction, NEW p, NEW day, NEW done
    PROVE  Agenda(p, day, done) =
               IF AgendaProfile(p) = None THEN {}
               ELSE Calendar!BuildAgenda(ThePack, AgendaProfile(p), day.year, day, done)
<1>1. CASE p = None
    BY <1>1 DEF Agenda, AgendaProfile
<1>2. CASE p # None
    BY <1>2, AgendaProfileIsSome DEF Agenda, ThePack
<1> QED
    BY <1>1, <1>2

LEMMA RebuiltMapped ==
    ASSUME NoneIsNoFunction, ScreenInv'
    PROVE  Calendar!Rebuilt
<1>1. model' = IF window' = None THEN None ELSE BuildModel(profile', ledger', window'.today, completed')
    BY DEF ScreenInv, OnScreen
<1>2. window' # None => window'.year = window'.today.year
    BY DEF ScreenInv, Windowed
<1>3. AgendaOf(model') = IF window' = None THEN {} ELSE Agenda(profile', window'.today, completed')
    BY <1>1, ShownAgenda
<1>4. Agenda(profile', window'.today, completed') =
          IF AgendaProfile(profile') = None THEN {}
          ELSE Calendar!BuildAgenda(ThePack, AgendaProfile(profile'), window'.today.year,
                                    window'.today, completed')
    BY AgendaMapped
<1>5. <<ThePack>>[1] = ThePack
    OBVIOUS
<1>6. AgendaOf(model') = IF window' = None \/ AgendaProfile(profile') = None THEN {}
          ELSE Calendar!BuildAgenda(<<ThePack>>[1], AgendaProfile(profile'), window'.year,
                                    window'.today, completed')
    BY <1>2, <1>3, <1>4, <1>5
<1> QED
    BY <1>6 DEF Calendar!Rebuilt, ThePack

LEMMA SameCardinality == ASSUME NEW S PROVE Calendar!Cardinality(S) = Cardinality(S)
BY DEF Calendar!Cardinality, Cardinality

LEMMA InitMapped == Init => Calendar!Init
<1> SUFFICES ASSUME Init PROVE Calendar!Init
    OBVIOUS
<1>1. profile # None => AgendaProfile(profile) \in AgendaProfiles
    BY ProfileMapped DEF Init, Tracking
<1>2. AgendaProfile(profile) \in AgendaProfiles \union {None}
    BY <1>1 DEF AgendaProfile
<1>3. AgendaOf(model) = {}
    BY DEF Init, AgendaOf
<1> QED
    BY <1>2, <1>3 DEF Init, Calendar!Init

LEMMA StepMapped ==
    ASSUME NoneIsNoFunction
    PROVE  ScreenInv /\ [Next]_vars => [Calendar!Next]_Calendar!vars
<1> SUFFICES ASSUME ScreenInv, [Next]_vars PROVE Calendar!Next \/ UNCHANGED Calendar!vars
    OBVIOUS
<1>0. ScreenInv' /\ Windowed /\ OnScreen /\ Edited
    BY ScreenKept DEF ScreenInv
<1>1. Calendar!Rebuilt
    BY <1>0, RebuiltMapped
<1>2. CASE PassDay
    <2>1. Calendar!PassDay
        BY <1>2, SameCount, SameNext DEF PassDay, Calendar!PassDay
    <2> QED
        BY <2>1 DEF Calendar!Next
<1>3. CASE Open
    <2>1. Calendar!Open
        BY <1>1, <1>3 DEF Open, Calendar!Open, clock, Calendar!clock
    <2> QED
        BY <2>1 DEF Calendar!Next
<1>4. CASE OpenProfile \/ CloseProfile \/ Type \/ UNCHANGED vars
    <2>1. UNCHANGED <<today, weekday, elapsed, window, profile, completed, model>>
        BY <1>4 DEF OpenProfile, CloseProfile, Type, vars, clock
    <2> QED
        BY <2>1 DEF Calendar!vars
<1>5. CASE SaveProfile
    <2>1. /\ profile' = BuildProfile(ToDraft(form), profile)
          /\ UNCHANGED <<today, weekday, elapsed, window, completed>> /\ window # None
        BY <1>0, <1>5 DEF SaveProfile, clock, Windowed
    <2>2. profile' # None
        BY <2>1, BuiltIsSome
    <2>3. profile'.trackingStart \in Tracking
        BY <1>0, <2>2 DEF ScreenInv, Edited
    <2>4. AgendaProfile(profile') \in AgendaProfiles
        BY <2>2, <2>3, ProfileMapped
    <2>5. Calendar!SaveProfile
        BY <1>1, <2>1, <2>4 DEF Calendar!SaveProfile, Calendar!clock
    <2> QED
        BY <2>5 DEF Calendar!Next
<1>6. CASE RecordInvoice
    <2>1. UNCHANGED <<today, weekday, elapsed, window, profile, completed>>
        BY <1>6 DEF RecordInvoice, clock
    <2>2. model = IF window = None THEN None ELSE BuildModel(profile, ledger, window.today, completed)
        BY <1>0 DEF OnScreen
    <2>2a. model' = IF window = None THEN None ELSE BuildModel(profile, ledger', window.today, completed)
        BY <1>0, <2>1 DEF ScreenInv, OnScreen
    <2>3. AgendaOf(model) = IF window = None THEN {} ELSE Agenda(profile, window.today, completed)
        BY <2>2, ShownAgenda
    <2>4. AgendaOf(model') = IF window = None THEN {} ELSE Agenda(profile, window.today, completed)
        BY <2>2a, ShownAgenda
    <2> QED
        BY <2>1, <2>3, <2>4 DEF Calendar!vars
<1>7. CASE Complete
    <2>1. window # None
        BY <1>0, <1>7 DEF Complete, OnScreen
    <2>2. /\ UNCHANGED <<today, weekday, elapsed, window, profile>>
          /\ Cardinality(completed) < MaxDone
          /\ \E i \in Calendar!Actionable : completed' = completed \union {Calendar!Id(i)}
        BY <1>7 DEF Complete, clock
    <2>2a. Calendar!Cardinality(completed) < MaxDone
        BY <2>2, SameCardinality
    <2>3. Calendar!Complete
        BY <1>1, <2>1, <2>2, <2>2a DEF Calendar!Complete, Calendar!clock
    <2> QED
        BY <2>3 DEF Calendar!Next
<1> QED
    BY <1>2, <1>3, <1>4, <1>5, <1>6, <1>7 DEF Next

LEMMA ScreenHolds == ASSUME NoneIsNoFunction PROVE Spec => []ScreenInv
<1>1. Init => ScreenInv
    BY ScreenStart
<1>2. ScreenInv /\ [Next]_vars => ScreenInv'
    BY ScreenKept
<1> QED
    BY <1>1, <1>2, PTL DEF Spec

(* The window shows the agenda Calendar speaks of, whatever is typed,      *)
(* saved, registered or marked: what is proved of Calendar holds of the    *)
(* window, for a pack that is as Calendar assumes (calendar.rs,            *)
(* build_agenda; app.rs, reload).                                          *)
THEOREM CalendarImplemented == ASSUME NoneIsNoFunction PROVE Spec => RefinesCalendar
<1>1. Init => Calendar!Init
    BY InitMapped
<1>2. ScreenInv /\ [Next]_vars => [Calendar!Next]_Calendar!vars
    BY StepMapped
<1>3. Spec => []ScreenInv
    BY ScreenHolds
<1> QED
    BY <1>1, <1>2, <1>3, PTL DEF Spec, RefinesCalendar, Calendar!Spec

(***************************************************************************)
(* A pack that is loaded has no condition that is not understood, and no   *)
(* id twice.                                                               *)
(***************************************************************************)
LEMMA LoadedClean ==
    ASSUME NEW raw, LoadRulePack(raw) # None, NEW k \in DOMAIN raw.obligations
    PROVE  /\ \A q \in ObligationProblems(raw.obligations, k) : q.level # "error"
           /\ LoadRulePack(raw).rules = {ParsedObligation(raw.obligations[j]) : j \in DOMAIN raw.obligations}
<1>1. \A q \in ValidateRulePack(raw) : q.level # "error"
    BY DEF LoadRulePack
<1>2. ObligationProblems(raw.obligations, k) \subseteq ValidateRulePack(raw)
    BY DEF ValidateRulePack
<1>3. LoadRulePack(raw).rules = {ParsedObligation(raw.obligations[j]) : j \in DOMAIN raw.obligations}
    BY <1>1 DEF LoadRulePack
<1> QED
    BY <1>1, <1>2, <1>3

LEMMA ConditionsUnderstood ==
    ASSUME NEW raw, LoadRulePack(raw) # None, NEW k \in DOMAIN raw.obligations,
           NEW c \in raw.obligations[k].appliesWhen
    PROVE  ~NotUnderstood(c)
<1>1. ConditionProblems(c) \subseteq ObligationProblems(raw.obligations, k)
    BY DEF ObligationProblems
<1>2. \A q \in ConditionProblems(c) : q.level # "error"
    BY <1>1, LoadedClean
<1>3. Error("field").level = "error" /\ Error("op").level = "error"
    BY DEF Error
<1>4. c.field \notin ConditionFields => Error("field") \in ConditionProblems(c)
    BY DEF ConditionProblems, When
<1>5. c.op \notin ConditionOps => Error("op") \in ConditionProblems(c)
    BY DEF ConditionProblems, When
<1> QED
    BY <1>2, <1>3, <1>4, <1>5 DEF NotUnderstood

LEMMA LoadedIds ==
    ASSUME NEW raw, LoadRulePack(raw) # None, DOMAIN raw.obligations \subseteq Int,
           \A k \in DOMAIN raw.obligations : k >= 1,
           NEW r \in LoadRulePack(raw).rules, NEW s \in LoadRulePack(raw).rules, r.id = s.id
    PROVE  r = s
<1> DEFINE o == raw.obligations
<1>1. ASSUME NEW j \in DOMAIN o, NEW k \in DOMAIN o, j < k PROVE o[j].id # o[k].id
    <2>1. \A q \in ObligationProblems(o, k) : q.level # "error"
        BY LoadedClean
    <2>2. Error("id").level = "error"
        BY DEF Error
    <2>3. Error("id") \notin ObligationProblems(o, k)
        BY <2>1, <2>2
    <2>4. ~(o[k].id = "" \/ (o[k].id # "" /\ \E i \in 1 .. k - 1 : o[i].id = o[k].id))
        BY <2>3 DEF ObligationProblems, When
    <2>5. j \in 1 .. k - 1
        BY <1>1
    <2> QED
        BY <2>4, <2>5
<1>2. LoadRulePack(raw).rules = {ParsedObligation(o[k]) : k \in DOMAIN o}
    <2>1. CASE DOMAIN o = {}
        BY <2>1 DEF LoadRulePack
    <2>2. CASE DOMAIN o # {}
        BY <2>2, LoadedClean
    <2> QED
        BY <2>1, <2>2
<1>3. PICK j \in DOMAIN o : r = ParsedObligation(o[j])
    BY <1>2
<1>4. PICK k \in DOMAIN o : s = ParsedObligation(o[k])
    BY <1>2
<1>5. o[j].id = o[k].id
    BY <1>3, <1>4 DEF ParsedObligation
<1>6. j = k
    BY <1>1, <1>5
<1> QED
    BY <1>3, <1>4, <1>6

(* A pack that is loaded, whoever wrote it, says of every rule once what it*)
(* applies to, in words the program knows (rules.rs, validate_rule_pack).  *)
THEOREM LoadedPackIsSound ==
    ASSUME NEW raw, LoadRulePack(raw) # None, DOMAIN raw.obligations \subseteq Int,
           \A k \in DOMAIN raw.obligations : k >= 1
    PROVE  /\ \A r, s \in LoadRulePack(raw).rules : r.id = s.id => r = s
           /\ \A k \in DOMAIN raw.obligations :
                  \A c \in raw.obligations[k].appliesWhen : ~NotUnderstood(c)
BY LoadedIds, ConditionsUnderstood

LEMMA NotUnderstoodRefused == NotUnderstoodNeverApplies
BY ConditionsUnderstood DEF NotUnderstoodNeverApplies

NoneIsApart == NoneIsNoFunction /\ None \notin IvaRegimes \union BOOLEAN

(***************************************************************************)
(* The regime of a profile is one of three, whatever is typed.             *)
(***************************************************************************)
Regimes ==
    /\ profile # None => profile.ivaRegime \in IvaRegimes /\ profile.intraCommunity \in BOOLEAN
    /\ form # None => /\ "ivaRegime" \in DOMAIN form /\ form.ivaRegime \in IvaRegimes

LEMMA DraftBuilt ==
    ASSUME NEW f, f.ivaRegime \in IvaRegimes, NEW current,
           current # None => current.intraCommunity \in BOOLEAN
    PROVE  LET built == BuildProfile(ToDraft(f), current)
           IN  built.ivaRegime \in IvaRegimes /\ built.intraCommunity \in BOOLEAN
<1> DEFINE draft == ToDraft(f)
           stored == IF current = None \/ current.intraCommunity = None
                     THEN FALSE ELSE current.intraCommunity
<1>1. /\ draft.ivaRegime = f.ivaRegime
      /\ {"nif", "trackingStart", "ivaRegime"} \subseteq DOMAIN draft /\ "intraCommunity" \notin DOMAIN draft
    BY DEF ToDraft
<1>2. stored \in BOOLEAN
    OBVIOUS
<1> HIDE DEF draft, stored
<1>3. ASSUME NEW d, NEW a, NEW b, "ivaRegime" \in DOMAIN d
      PROVE  LET e == [d EXCEPT !.nif = a, !.trackingStart = b]
             IN  DOMAIN e = DOMAIN d /\ e.ivaRegime = d.ivaRegime
    BY <1>3
<1>4. BuildProfile(draft, current).ivaRegime = draft.ivaRegime
    BY <1>1, <1>3 DEF BuildProfile
<1>5. BuildProfile(draft, current).intraCommunity = stored
    BY <1>1, <1>3 DEF BuildProfile, Undrafted, Defaults, stored
<1> QED
    BY <1>1, <1>2, <1>4, <1>5 DEF draft

LEMMA RegimeShown ==
    ASSUME NEW p, p # None => p.ivaRegime \in IvaRegimes
    PROVE  "ivaRegime" \in DOMAIN FromProfile(p) /\ FromProfile(p).ivaRegime \in IvaRegimes
<1>1. "ivaRegime" \in DOMAIN DefaultForm /\ DefaultForm.ivaRegime = "trimestral"
    BY DEF DefaultForm
<1>2. CASE p = None
    BY <1>1, <1>2 DEF FromProfile, IvaRegimes
<1>3. CASE p # None
    BY <1>1, <1>3 DEF FromProfile
<1> QED
    BY <1>2, <1>3

LEMMA RegimesStart == Init => Regimes
<1> SUFFICES ASSUME Init PROVE Regimes
    OBVIOUS
<1>1. profile \in Vaults \union {None} /\ form = None
    BY DEF Init
<1> QED
    BY <1>1, DashboardVaultsAssumption DEF Regimes

LEMMA RegimesKept == Regimes /\ [Next]_vars => Regimes'
<1> SUFFICES ASSUME Regimes, [Next]_vars PROVE Regimes'
    OBVIOUS
<1>1. CASE UNCHANGED <<profile, form>>
    BY <1>1 DEF Regimes
<1>2. CASE UNCHANGED profile /\ form' = None
    BY <1>2 DEF Regimes
<1>3. CASE OpenProfile
    BY <1>3, RegimeShown DEF OpenProfile, Regimes
<1>4. CASE Type
    <2>1. PICK field \in DOMAIN Typed : \E text \in Typed[field] : form' = [form EXCEPT ![field] = text]
        BY <1>4 DEF Type
    <2>2. PICK text \in Typed[field] : form' = [form EXCEPT ![field] = text]
        BY <2>1
    <2>3. form # None /\ profile' = profile
        BY <1>4 DEF Type
    <2>4. "ivaRegime" \in DOMAIN form /\ form.ivaRegime \in IvaRegimes
        BY <2>3 DEF Regimes
    <2>5. "ivaRegime" \in DOMAIN form' /\ form'.ivaRegime = IF field = "ivaRegime" THEN text ELSE form.ivaRegime
        BY <2>2, <2>4
    <2> QED
        BY <2>3, <2>4, <2>5, TypedAssumption DEF Regimes
<1>5. CASE SaveProfile
    <2>1. form # None /\ form' = None /\ profile' = BuildProfile(ToDraft(form), profile)
        BY <1>5 DEF SaveProfile
    <2> QED
        BY <2>1, DraftBuilt DEF Regimes
<1> QED
    BY <1>1, <1>2, <1>3, <1>4, <1>5
       DEF Next, PassDay, Open, CloseProfile, RecordInvoice, Complete, vars

(***************************************************************************)
(* Which of the alternatives apply.                                        *)
(***************************************************************************)
LEMMA Equals ==
    ASSUME NoneIsApart, NEW p, NEW field, NEW value, value # None
    PROVE  TestCondition(p, Test(field, "eq", value)) <=> p[field] = value
BY DEF TestCondition, ReadField, Test

LEMMA Differs ==
    ASSUME NoneIsApart, NEW p, NEW field, NEW value, value # None
    PROVE  TestCondition(p, Test(field, "ne", value)) <=> p[field] # value
BY DEF TestCondition, ReadField, Test

LEMMA FiledTo ==
    ASSUME NoneIsApart, NEW p
    PROVE  LET regime == p.ivaRegime
               abroad == p.intraCommunity = TRUE
               above == p.above50k = TRUE
           IN  /\ AppliesTo(p, Filed.dpMensal) <=> regime = "mensal"
               /\ AppliesTo(p, Filed.dpTrimestral) <=> regime = "trimestral"
               /\ AppliesTo(p, Filed.recapMensal) <=> regime = "mensal" /\ abroad
               /\ AppliesTo(p, Filed.recapTrimestral) <=> regime = "trimestral" /\ abroad /\ ~above
               /\ AppliesTo(p, Filed.recapPorVolume) <=> regime = "trimestral" /\ abroad /\ above
<1> DEFINE monthly == Test("ivaRegime", "eq", "mensal")
           quarterly == Test("ivaRegime", "eq", "trimestral")
           abroad == Test("intraCommunity", "eq", TRUE)
           more == Test("above50k", "eq", TRUE)
           less == Test("above50k", "ne", TRUE)
<1>1. "mensal" # None /\ "trimestral" # None /\ TRUE # None
    BY DEF NoneIsApart, IvaRegimes
<1>2. /\ TestCondition(p, monthly) <=> p.ivaRegime = "mensal"
      /\ TestCondition(p, quarterly) <=> p.ivaRegime = "trimestral"
      /\ TestCondition(p, abroad) <=> p.intraCommunity = TRUE
      /\ TestCondition(p, more) <=> p.above50k = TRUE
      /\ TestCondition(p, less) <=> p.above50k # TRUE
    BY <1>1, Equals, Differs
<1>3. /\ Filed.dpMensal = {monthly} /\ Filed.dpTrimestral = {quarterly}
      /\ Filed.recapMensal = {monthly, abroad}
      /\ Filed.recapTrimestral = {quarterly, abroad, less}
      /\ Filed.recapPorVolume = {quarterly, abroad, more}
    BY DEF Filed
<1> HIDE DEF monthly, quarterly, abroad, more, less
<1> QED
    BY <1>2, <1>3 DEF AppliesTo

LEMMA PackIds ==
    ASSUME NEW r \in Pack.rules, NEW s \in Pack.rules, r.id = s.id PROVE r = s
<1>1. /\ LoadRulePack(EmbeddedPack) # None
      /\ DOMAIN EmbeddedPack.obligations = 1 .. Len(EmbeddedPack.obligations)
    BY PackAssumption
<1>2. DOMAIN EmbeddedPack.obligations \subseteq Int /\ \A k \in DOMAIN EmbeddedPack.obligations : k >= 1
    BY <1>1
<1> QED
    BY <1>1, <1>2, LoadedIds DEF Pack

FiledIds == {"dpMensal", "dpTrimestral", "recapMensal", "recapTrimestral", "recapPorVolume"}

LEMMA FiledRule ==
    ASSUME NEW id \in FiledIds, NEW p, p # None
    PROVE  /\ id \in RuleIds
           /\ RuleOf[id].periodicity \in {"Monthly", "Quarterly"}
           /\ id \in AgendaProfile(p).applies <=> AppliesTo(p, Filed[id])
           /\ Reasons(p)[id] = ExplainFailure(p, Filed[id])
<1>1. id \in DOMAIN Filed
    BY DEF Filed, FiledIds
<1>2. PICK r \in Pack.rules : r.id = id /\ r.appliesWhen = Filed[id]
    BY <1>1, FiledAssumption
<1>3. \A s \in Pack.rules : s.id = id => s = r
    BY <1>2, PackIds
<1>4. (CHOOSE s \in Pack.rules : s.id = id) = r
    BY <1>2, <1>3
<1>5. id \in RuleIds
    BY <1>2 DEF RuleIds
<1>6. AgendaProfile(p).applies = {s.id : s \in {q \in Pack.rules : AppliesTo(p, q.appliesWhen)}}
    BY DEF AgendaProfile
<1>7. id \in AgendaProfile(p).applies <=> AppliesTo(p, Filed[id])
    BY <1>2, <1>3, <1>6
<1>8. Reasons(p)[id] = ExplainFailure(p, Filed[id])
    BY <1>2, <1>4, <1>5 DEF Reasons
<1> QED
    BY <1>1, <1>5, <1>7, <1>8, FiledAssumption

LEMMA LineOfRule ==
    ASSUME NEW pack, NEW r, NEW seed, NEW day, NEW track, NEW done
    PROVE  LET i == Calendar!Instance(pack, r, seed, day, track, done)
           IN  i.rule = r /\ i.status # "NotApplicable"
<1> DEFINE resolved == Calendar!ResolveDueDate(pack, r, seed)
           status == Calendar!Status(r, resolved.due, day, track, done)
           i == Calendar!Instance(pack, r, seed, day, track, done)
<1>1. status # "NotApplicable"
    BY DEF Calendar!Status, Calendar!StatusByDate
<1>2. i.rule = r /\ i.status = status
    BY DEF Calendar!Instance, Calendar!InstanceOn
<1> HIDE DEF i, status
<1> QED
    BY <1>1, <1>2 DEF i

LEMMA AlwaysAPeriod ==
    ASSUME NEW pack, NEW r, RuleOf[r].periodicity \in {"Monthly", "Quarterly"}, NEW y
    PROVE  Calendar!Periods(pack, r, y) # {}
<1>1. Calendar!MonthSeeds(r, y) # {}
    <2>1. 1 \in 1 .. 12
        OBVIOUS
    <2> QED
        BY <2>1 DEF Calendar!MonthSeeds
<1>2. Calendar!QuarterSeeds(r, y) # {}
    <2>1. 1 \in 1 .. 4
        OBVIOUS
    <2> QED
        BY <2>1 DEF Calendar!QuarterSeeds
<1>3. CASE RuleOf[r].periodicity = "Monthly"
    BY <1>1, <1>3 DEF Calendar!Periods
<1>4. CASE RuleOf[r].periodicity = "Quarterly"
    BY <1>2, <1>4 DEF Calendar!Periods
<1> QED
    BY <1>3, <1>4

ShownIn(agenda) == {i.rule : i \in {j \in agenda : j.status # "NotApplicable"}}

LEMMA ShownRules ==
    ASSUME NEW pack, NEW who, NEW y, NEW day, NEW done, NEW id,
           RuleOf[id].periodicity \in {"Monthly", "Quarterly"}
    PROVE  id \in ShownIn(Calendar!BuildAgenda(pack, who, y, day, done)) <=> id \in who.applies
<1> DEFINE agenda == Calendar!BuildAgenda(pack, who, y, day, done)
<1>1. ASSUME id \in ShownIn(agenda) PROVE id \in who.applies
    <2>1. PICK i \in agenda : i.rule = id /\ i.status # "NotApplicable"
        BY <1>1 DEF ShownIn
    <2>2. CASE \E r : i = Calendar!NotApplicable(r, y)
        BY <2>1, <2>2 DEF Calendar!NotApplicable
    <2>3. CASE \E r \in who.applies : \E seed \in Calendar!Periods(pack, r, y) :
                  i = Calendar!Instance(pack, r, seed, day, who.trackFrom, done)
        <3>1. PICK r \in who.applies : \E seed \in Calendar!Periods(pack, r, y) :
                  i = Calendar!Instance(pack, r, seed, day, who.trackFrom, done)
            BY <2>3
        <3>2. i.rule = r
            BY <3>1, LineOfRule
        <3> QED
            BY <2>1, <3>2
    <2> QED
        BY <2>1, <2>2, <2>3 DEF Calendar!BuildAgenda
<1>2. ASSUME id \in who.applies PROVE id \in ShownIn(agenda)
    <2>1. PICK seed \in Calendar!Periods(pack, id, y) : TRUE
        BY AlwaysAPeriod
    <2> DEFINE i == Calendar!Instance(pack, id, seed, day, who.trackFrom, done)
    <2>2. i \in agenda
        BY <1>2, <2>1 DEF Calendar!BuildAgenda
    <2>3. i.rule = id /\ i.status # "NotApplicable"
        BY LineOfRule
    <2> HIDE DEF i, agenda
    <2> QED
        BY <2>2, <2>3 DEF ShownIn
<1> QED
    BY <1>1, <1>2

(* A rule that does not apply says why.                                    *)
LEMMA ReasonGiven ==
    ASSUME NEW p, NEW conditions, ~AppliesTo(p, conditions)
    PROVE  ExplainFailure(p, conditions) # {}
BY DEF AppliesTo, ExplainFailure

LEMMA OneFrequencyHolds ==
    ASSUME NoneIsApart, ScreenInv, Regimes, model # None, profile # None
    PROVE  OneFrequency
<1> DEFINE who == AgendaProfile(profile)
           all == ShownIn(model.agenda)
           regime == profile.ivaRegime
           abroad == profile.intraCommunity = TRUE
           above == profile.above50k = TRUE
<1>1. /\ model = BuildModel(profile, ledger, window.today, completed)
      /\ model.agenda = Calendar!BuildAgenda(ThePack, who, window.today.year, window.today, completed)
      /\ model.reasons = Reasons(profile)
    <2>1. model = BuildModel(profile, ledger, window.today, completed)
        BY DEF ScreenInv, OnScreen
    <2>2. model.agenda = Agenda(profile, window.today, completed)
        BY <2>1, ModelAgenda
    <2>3. model.reasons = Reasons(profile)
        BY <2>1 DEF BuildModel, Flagged, ModelOf
    <2>4. Agenda(profile, window.today, completed) =
              Calendar!BuildAgenda(ThePack, who, window.today.year, window.today, completed)
        BY DEF Agenda, ThePack
    <2> QED
        BY <2>1, <2>2, <2>3, <2>4
<1>2. \A id \in FiledIds : id \in all <=> AppliesTo(profile, Filed[id])
    BY <1>1, FiledRule, ShownRules
<1>3. \A id \in FiledIds \ all : model.reasons[id] # {}
    BY <1>1, <1>2, FiledRule, ReasonGiven
<1>4. regime \in IvaRegimes /\ profile.intraCommunity \in BOOLEAN
    BY DEF Regimes
<1>5. /\ "dpMensal" \in all <=> regime = "mensal"
      /\ "dpTrimestral" \in all <=> regime = "trimestral"
      /\ "recapMensal" \in all <=> regime = "mensal" /\ abroad
      /\ "recapTrimestral" \in all <=> regime = "trimestral" /\ abroad /\ ~above
      /\ "recapPorVolume" \in all <=> regime = "trimestral" /\ abroad /\ above
    BY <1>2, FiledTo DEF FiledIds
<1> HIDE DEF all, regime, above
<1>6. ASSUME NEW a \in Alternatives
      PROVE  LET shown == all \cap a[1]
                 due == regime # "isento_art53" /\ (a[2] => profile.intraCommunity)
             IN  /\ Cardinality(shown) = IF due THEN 1 ELSE 0
                 /\ \A id \in a[1] \ shown : model.reasons[id] # {}
    <2> DEFINE shown == all \cap a[1]
               due == regime # "isento_art53" /\ (a[2] => profile.intraCommunity)
    <2>1. CASE a = <<{"dpMensal", "dpTrimestral"}, FALSE>>
        <3>1. a[1] = {"dpMensal", "dpTrimestral"} /\ a[2] = FALSE
            BY <2>1
        <3>2. due <=> regime # "isento_art53"
            BY <3>1
        <3>3. due => shown = {"dpMensal"} \/ shown = {"dpTrimestral"}
            BY <1>4, <1>5, <3>1, <3>2 DEF IvaRegimes
        <3>4. ~due => shown = {}
            BY <1>5, <3>1, <3>2
        <3>5. a[1] \subseteq FiledIds
            BY <3>1 DEF FiledIds
        <3> QED
            BY <1>3, <3>3, <3>4, <3>5, FS_Singleton, FS_EmptySet
    <2>2. CASE a = <<{"recapMensal", "recapTrimestral", "recapPorVolume"}, TRUE>>
        <3>1. a[1] = {"recapMensal", "recapTrimestral", "recapPorVolume"} /\ a[2] = TRUE
            BY <2>2
        <3>2. due <=> regime # "isento_art53" /\ abroad
            BY <1>4, <3>1
        <3> HIDE DEF abroad, due
        <3>3. due => shown = {"recapMensal"} \/ shown = {"recapTrimestral"} \/ shown = {"recapPorVolume"}
            BY <1>4, <1>5, <3>1, <3>2 DEF IvaRegimes
        <3>4. ~due => shown = {}
            BY <1>5, <3>1, <3>2
        <3>5. a[1] \subseteq FiledIds
            BY <3>1 DEF FiledIds
        <3> QED
            BY <1>3, <3>3, <3>4, <3>5, FS_Singleton, FS_EmptySet DEF due
    <2> QED
        BY <2>1, <2>2 DEF Alternatives
<1> QED
    BY <1>6 DEF OneFrequency, all, regime, ShownIn

LEMMA RegimesHold == Spec => []Regimes
<1>1. Init => Regimes
    BY RegimesStart
<1>2. Regimes /\ [Next]_vars => Regimes'
    BY RegimesKept
<1> QED
    BY <1>1, <1>2, PTL DEF Spec

(* The agenda has exactly one of the alternatives a taxpayer files at, or  *)
(* none when nothing is filed, and a condition nobody understood makes no  *)
(* rule apply, whatever is typed, saved, registered or marked, in any vault*)
(* (conditions.rs, applies_to; rules.rs, validate_rule_pack).              *)
THEOREM RulesAreDecided == ASSUME NoneIsApart PROVE Spec => []RulesDecided
<1>1. ScreenInv /\ Regimes => RulesDecided
    <2> SUFFICES ASSUME ScreenInv, Regimes PROVE RulesDecided
        OBVIOUS
    <2>1. CASE model # None /\ profile # None
        BY <2>1, OneFrequencyHolds, NotUnderstoodRefused DEF RulesDecided
    <2>2. CASE ~(model # None /\ profile # None)
        <3>1. OneFrequency
            BY <2>2 DEF OneFrequency
        <3> QED
            BY <3>1, NotUnderstoodRefused DEF RulesDecided
    <2> QED
        BY <2>1, <2>2
<1>2. Spec => []ScreenInv
    BY ScreenHolds DEF NoneIsApart
<1>3. Spec => []Regimes
    BY RegimesHold
<1> QED
    BY <1>1, <1>2, <1>3, PTL

(***************************************************************************)
(* Amounts.                                                                *)
(***************************************************************************)
(* Division towards zero: the quotient and what it leaves.                 *)
LEMMA ThirdTruncated ==
    ASSUME NEW total \in Int
    PROVE  LET base == Truncated(total, 3)
           IN  base \in Int /\ total - base * 3 \in -2 .. 2
BY DEF Truncated, Sign, Magnitude

(* The three instalments of any amount add up to it, and no two differ by  *)
(* more than a cent (money.rs, split_evenly).                              *)
THEOREM InstalmentsAddUp ==
    ASSUME NEW total \in Int
    PROVE  LET parts == SplitEvenly(total, 3)
           IN  /\ DOMAIN parts = 1 .. 3
               /\ parts[1] + parts[2] + parts[3] = total
               /\ \A i, j \in 1 .. 3 : parts[i] - parts[j] \in -1 .. 1
<1> DEFINE base == Truncated(total, 3)
           left == total - base * 3
           parts == SplitEvenly(total, 3)
<1>1. base \in Int /\ left \in -2 .. 2 /\ total = base * 3 + left
    BY ThirdTruncated
<1>2. /\ DOMAIN parts = 1 .. 3
      /\ \A i \in 1 .. 3 : parts[i] = IF i <= Magnitude(left) THEN base + Sign(left) ELSE base
    BY DEF SplitEvenly
<1> HIDE DEF base, left, parts
<1>3. left \in {-2, -1, 0, 1, 2}
    BY <1>1
<1>4. /\ parts[1] = base + Sign(left)
      /\ parts[2] = IF Magnitude(left) = 2 THEN base + Sign(left) ELSE base
      /\ parts[3] = base
    <2>1. Magnitude(left) \in {0, 1, 2} /\ (left = 0 => Sign(left) = 0) /\ (left # 0 => Magnitude(left) # 0)
        BY <1>3 DEF Magnitude, Sign
    <2>2. /\ parts[1] = IF 1 <= Magnitude(left) THEN base + Sign(left) ELSE base
          /\ parts[2] = IF 2 <= Magnitude(left) THEN base + Sign(left) ELSE base
          /\ parts[3] = IF 3 <= Magnitude(left) THEN base + Sign(left) ELSE base
        BY <1>2
    <2> HIDE DEF base
    <2>3. base \in Int
        BY <1>1
    <2> QED
        BY <2>1, <2>2, <2>3
<1>5. parts[1] + parts[2] + parts[3] = total
    BY <1>1, <1>3, <1>4 DEF Magnitude, Sign
<1>6. \A i \in 1 .. 3 : parts[i] = base \/ parts[i] = base + Sign(left)
    BY <1>2
<1>7. Sign(left) \in -1 .. 1
    BY <1>1 DEF Sign
<1>8. \A i, j \in 1 .. 3 : parts[i] - parts[j] \in -1 .. 1
    BY <1>1, <1>6, <1>7
<1> QED
    BY <1>2, <1>5, <1>8 DEF parts

(* A rate gives the nearest cent.                                          *)
LEMMA NearestOfProduct ==
    ASSUME NEW n \in Int
    PROVE  LET r == RoundScaled(n, 10000)
           IN  r \in Int /\ 10000 * r - n <= 5000 /\ n - 10000 * r <= 5000
BY DEF RoundScaled, Truncated, Sign, Magnitude

Nearest(r, n) == r \in Int /\ 10000 * r - n <= 5000 /\ n - 10000 * r <= 5000

LEMMA NearestCent ==
    ASSUME NEW amount \in Int, NEW bp \in Int
    PROVE  Nearest(ApplyBp(amount, bp), amount * bp)
<1>1. amount * bp \in Int
    OBVIOUS
<1> QED
    BY <1>1, NearestOfProduct DEF ApplyBp, Nearest

(* A rate in basis points.                                                 *)
IsRate(bp) == bp \in Nat /\ bp <= 10000

Small(n) == n \in Int /\ n <= 20000 /\ n >= -20000

(* Four amounts and the one that stands for them, n apart at most.         *)
Within(n, a, b, c, d, e) == a + b + c + d - e \in -n .. n

LEMMA FiveNear ==
    ASSUME NEW A, NEW B, NEW C, NEW D, NEW E,
           NEW p \in Int, NEW q \in Int, NEW r \in Int, NEW s \in Int, NEW t \in Int,
           Nearest(A, p), Nearest(B, q), Nearest(C, r), Nearest(D, s), Nearest(E, t)
    PROVE  /\ t = p + q + r + s => Within(2, A, B, C, D, E)
           /\ Small(p + q + r + s - t) => Within(4, A, B, C, D, E)
BY DEF Nearest, Within, Small

LEMMA SumsRounded ==
    ASSUME NEW a \in Int, NEW b \in Int, NEW c \in Int, NEW d \in Int, NEW bp \in Int
    PROVE  Within(2, ApplyBp(a, bp), ApplyBp(b, bp), ApplyBp(c, bp), ApplyBp(d, bp), ApplyBp(a + b + c + d, bp))
<1>1. a + b + c + d \in Int
    OBVIOUS
<1>2. /\ a * bp \in Int /\ b * bp \in Int /\ c * bp \in Int /\ d * bp \in Int
      /\ (a + b + c + d) * bp \in Int
    OBVIOUS
<1>3. (a + b + c + d) * bp = a * bp + b * bp + c * bp + d * bp
    OBVIOUS
<1>4. /\ Nearest(ApplyBp(a, bp), a * bp) /\ Nearest(ApplyBp(b, bp), b * bp)
      /\ Nearest(ApplyBp(c, bp), c * bp) /\ Nearest(ApplyBp(d, bp), d * bp)
      /\ Nearest(ApplyBp(a + b + c + d, bp), (a + b + c + d) * bp)
    BY <1>1, NearestCent, Zenon
<1> QED
    BY <1>2, <1>3, <1>4, FiveNear, Zenon

LEMMA Times ==
    ASSUME NEW n \in -2 .. 2, NEW bp, IsRate(bp) PROVE Small(n * bp)
<1>1. n \in {-2, -1, 0, 1, 2}
    OBVIOUS
<1>2. n * bp <= 20000 /\ n * bp >= -20000
    BY <1>1 DEF IsRate
<1>3. n * bp \in Int
    BY <1>1 DEF IsRate
<1> QED
    BY <1>2, <1>3 DEF Small

LEMMA SpreadTimes ==
    ASSUME NEW a \in Int, NEW b \in Int, NEW c \in Int, NEW d \in Int, NEW e \in Int,
           NEW bp, IsRate(bp), Within(2, a, b, c, d, e)
    PROVE  Small(a * bp + b * bp + c * bp + d * bp - e * bp)
<1> DEFINE n == a + b + c + d - e
<1>1. a * bp + b * bp + c * bp + d * bp - e * bp = n * bp
    BY DEF IsRate
<1>2. n \in -2 .. 2
    BY DEF Within
<1> HIDE DEF n
<1>3. Small(n * bp)
    BY <1>2, Times
<1> QED
    BY <1>1, <1>3

LEMMA RatesNear ==
    ASSUME NEW a \in Int, NEW b \in Int, NEW c \in Int, NEW d \in Int, NEW e \in Int,
           NEW bp, IsRate(bp), Within(2, a, b, c, d, e)
    PROVE  Within(4, ApplyBp(a, bp), ApplyBp(b, bp), ApplyBp(c, bp), ApplyBp(d, bp), ApplyBp(e, bp))
<1>1. bp \in Int /\ a * bp \in Int /\ b * bp \in Int /\ c * bp \in Int /\ d * bp \in Int /\ e * bp \in Int
    BY DEF IsRate
<1>2. Small(a * bp + b * bp + c * bp + d * bp - e * bp)
    BY SpreadTimes, Zenon
<1>3. /\ Nearest(ApplyBp(a, bp), a * bp) /\ Nearest(ApplyBp(b, bp), b * bp)
      /\ Nearest(ApplyBp(c, bp), c * bp) /\ Nearest(ApplyBp(d, bp), d * bp)
      /\ Nearest(ApplyBp(e, bp), e * bp)
    BY <1>1, NearestCent, Zenon
<1> QED
    BY <1>1, <1>2, <1>3, FiveNear, Zenon

LEMMA RoundedTwice ==
    ASSUME NEW share, NEW rate, IsRate(share), IsRate(rate),
           NEW a \in Int, NEW b \in Int, NEW c \in Int, NEW d \in Int
    PROVE  Within(4, ApplyBp(ApplyBp(a, share), rate), ApplyBp(ApplyBp(b, share), rate),
                     ApplyBp(ApplyBp(c, share), rate), ApplyBp(ApplyBp(d, share), rate),
                     ApplyBp(ApplyBp(a + b + c + d, share), rate))
<1>1. share \in Int /\ a + b + c + d \in Int
    BY DEF IsRate
<1>2. Within(2, ApplyBp(a, share), ApplyBp(b, share), ApplyBp(c, share), ApplyBp(d, share),
             ApplyBp(a + b + c + d, share))
    BY <1>1, SumsRounded, Zenon
<1>3. \A x \in Int : ApplyBp(x, share) \in Int
    <2> TAKE x \in Int
    <2>1. Nearest(ApplyBp(x, share), x * share)
        BY <1>1, NearestCent, Zenon
    <2> QED
        BY <2>1 DEF Nearest
<1> QED
    BY <1>1, <1>2, <1>3, RatesNear, Zenon

LEMMA ContributionOf ==
    ASSUME NEW constants, NEW income, NEW parts
    PROVE  EstimateSocialSecurity(constants, income, parts).contribution =
               ApplyBp(ApplyBp(income, OrZero(constants.share)), OrZero(constants.rate))
BY DEF EstimateSocialSecurity

(* Worked out quarter by quarter or on the whole year, rounded to the cent *)
(* twice, the contribution is the same to less than five cents, whatever   *)
(* was invoiced and at any share and rate (estimate.rs,                    *)
(* estimate_social_security).                                              *)
THEOREM QuartersAddUp ==
    ASSUME NEW constants, IsRate(OrZero(constants.share)), IsRate(OrZero(constants.rate)),
           NEW a \in Int, NEW b \in Int, NEW c \in Int, NEW d \in Int
    PROVE  LET owed(income, parts) == EstimateSocialSecurity(constants, income, parts).contribution
           IN  owed(a, 3) + owed(b, 3) + owed(c, 3) + owed(d, 3) - owed(a + b + c + d, 1) \in -4 .. 4
<1> DEFINE owed(income, parts) == EstimateSocialSecurity(constants, income, parts).contribution
           C(income) == ApplyBp(ApplyBp(income, OrZero(constants.share)), OrZero(constants.rate))
<1>1. \A income, parts : owed(income, parts) = C(income)
    BY ContributionOf, Zenon
<1>2. Within(4, C(a), C(b), C(c), C(d), C(a + b + c + d))
    BY RoundedTwice, Zenon
<1>3. /\ owed(a, 3) = C(a) /\ owed(b, 3) = C(b) /\ owed(c, 3) = C(c) /\ owed(d, 3) = C(d)
      /\ owed(a + b + c + d, 1) = C(a + b + c + d)
    BY <1>1, Zenon
<1> HIDE DEF C, owed
<1>4. Within(4, owed(a, 3), owed(b, 3), owed(c, 3), owed(d, 3), owed(a + b + c + d, 1))
    BY <1>2, <1>3
<1> QED
    BY <1>4, Zenon DEF Within, owed

LEMMA LeastOf ==
    ASSUME NEW S, S \subseteq Nat, S # {} PROVE \E m \in S : \A d \in S : m <= d
<1> DEFINE less == {p \in Nat \X Nat : p[1] < p[2]}
<1>1. IsWellFoundedOn(less, Nat)
    BY NatLessThanWellFounded DEF OpToRel
<1>2. PICK m \in S : \A d \in S : <<d, m>> \notin less
    <2> HIDE DEF less
    <2> QED
        BY <1>1, WFMin
<1>3. ASSUME NEW d \in S PROVE m <= d
    <2>1. <<d, m>> \notin less /\ d \in Nat /\ m \in Nat
        BY <1>2
    <2> QED
        BY <2>1
<1> QED
    BY <1>3

Sums(f, amounts, m) ==
    /\ f \in [0 .. m -> Int]
    /\ f[0] = 0
    /\ \A n \in 1 .. m : f[n] = f[n - 1] + amounts[n]

LEMMA SumsFurther ==
    ASSUME NEW amounts \in Seq(Int), NEW m \in 1 .. Len(amounts), NEW f, Sums(f, amounts, m - 1)
    PROVE  Sums([n \in 0 .. m |-> IF n = m THEN f[m - 1] + amounts[m] ELSE f[n]], amounts, m)
<1> DEFINE g == [n \in 0 .. m |-> IF n = m THEN f[m - 1] + amounts[m] ELSE f[n]]
<1>1. m \in Nat /\ m # 0 /\ amounts[m] \in Int /\ f \in [0 .. m - 1 -> Int]
    BY DEF Sums
<1>2. g \in [0 .. m -> Int] /\ g[0] = 0
    BY <1>1 DEF Sums
<1>3. ASSUME NEW n \in 1 .. m PROVE g[n] = g[n - 1] + amounts[n]
    <2>1. n - 1 \in 0 .. m /\ n - 1 # m /\ g[n - 1] = f[n - 1]
        BY <1>1
    <2>2. CASE n = m
        BY <1>1, <2>1, <2>2
    <2>3. CASE n # m
        BY <1>1, <2>1, <2>3 DEF Sums
    <2> QED
        BY <2>2, <2>3
<1> QED
    BY <1>2, <1>3 DEF Sums

LEMMA SumsExist ==
    ASSUME NEW amounts \in Seq(Int) PROVE \E f : Sums(f, amounts, Len(amounts))
<1> DEFINE wrong == {m \in 0 .. Len(amounts) : ~\E f : Sums(f, amounts, m)}
<1>0. Len(amounts) \in Nat
    OBVIOUS
<1>1. ASSUME wrong # {} PROVE FALSE
    <2>1. PICK m \in wrong : \A d \in wrong : m <= d
        <3>1. wrong \subseteq Nat
            OBVIOUS
        <3> HIDE DEF wrong
        <3> QED
            BY <1>1, <3>1, LeastOf
    <2>2. m # 0
        <3>1. Sums([n \in 0 .. 0 |-> 0], amounts, 0)
            BY DEF Sums
        <3> QED
            BY <3>1
    <2>3. m \in 1 .. Len(amounts) /\ m - 1 \in 0 .. Len(amounts) /\ m - 1 \notin wrong
        BY <1>0, <2>1, <2>2
    <2>4. PICK f : Sums(f, amounts, m - 1)
        BY <2>3
    <2>5. \E g : Sums(g, amounts, m)
        BY <2>3, <2>4, SumsFurther
    <2> QED
        BY <2>5
<1> QED
    BY <1>0, <1>1

LEMMA TotalIs ==
    ASSUME NEW amounts \in Seq(Int), NEW f, Sums(f, amounts, Len(amounts))
    PROVE  Total(amounts) = f[Len(amounts)]
<1> DEFINE Fits(upTo) == upTo = [n \in 0 .. Len(amounts) |-> IF n = 0 THEN 0 ELSE upTo[n - 1] + amounts[n]]
           g == CHOOSE upTo : Fits(upTo)
<1>0. Len(amounts) \in Nat
    OBVIOUS
<1>1. Fits(f)
    <2>1. f = [n \in 0 .. Len(amounts) |-> f[n]]
        BY DEF Sums
    <2>2. \A n \in 0 .. Len(amounts) : f[n] = IF n = 0 THEN 0 ELSE f[n - 1] + amounts[n]
        BY <1>0 DEF Sums
    <2> QED
        BY <2>1, <2>2
<1>2. Total(amounts) = g[Len(amounts)]
    BY DEF Total
<1>3. Fits(g)
    <2> HIDE DEF Fits
    <2> QED
        BY <1>1
<1>4. /\ g = [n \in 0 .. Len(amounts) |-> g[n]]
      /\ \A n \in 0 .. Len(amounts) : g[n] = IF n = 0 THEN 0 ELSE g[n - 1] + amounts[n]
    <2> HIDE DEF g
    <2>1. g = [n \in 0 .. Len(amounts) |-> IF n = 0 THEN 0 ELSE g[n - 1] + amounts[n]]
        BY <1>3
    <2> QED
        BY <2>1
<1> HIDE DEF g, Fits
<1> DEFINE wrong == {n \in 0 .. Len(amounts) : f[n] # g[n]}
<1>5. ASSUME wrong # {} PROVE FALSE
    <2>1. PICK m \in wrong : \A d \in wrong : m <= d
        <3>1. wrong \subseteq Nat
            OBVIOUS
        <3> HIDE DEF wrong
        <3> QED
            BY <1>5, <3>1, LeastOf
    <2>2. m # 0
        BY <1>0, <1>4 DEF Sums
    <2>3. m \in 1 .. Len(amounts) /\ m - 1 \in 0 .. Len(amounts) /\ m - 1 \notin wrong
        BY <1>0, <2>1, <2>2
    <2>4. f[m - 1] = g[m - 1]
        BY <2>3
    <2> QED
        BY <1>4, <2>3, <2>4 DEF Sums
<1> QED
    BY <1>0, <1>2, <1>5

LEMMA TotalInt == ASSUME NEW amounts \in Seq(Int) PROVE Total(amounts) \in Int
<1>1. PICK f : Sums(f, amounts, Len(amounts))
    BY SumsExist
<1>2. Len(amounts) \in Nat
    OBVIOUS
<1> QED
    BY <1>1, <1>2, TotalIs DEF Sums

(* Two lists of one length, added position by position.                    *)
LEMMA TotalAdds ==
    ASSUME NEW a \in Seq(Int), NEW b \in Seq(Int), NEW c \in Seq(Int),
           Len(a) = Len(c), Len(b) = Len(c), \A k \in 1 .. Len(c) : c[k] = a[k] + b[k]
    PROVE  Total(c) = Total(a) + Total(b)
<1>1. PICK f : Sums(f, a, Len(c))
    BY SumsExist
<1>2. PICK g : Sums(g, b, Len(c))
    BY SumsExist
<1> DEFINE h == [n \in 0 .. Len(c) |-> f[n] + g[n]]
<1>3. Sums(h, c, Len(c))
    <2>1. /\ f \in [0 .. Len(c) -> Int] /\ g \in [0 .. Len(c) -> Int] /\ Len(c) \in Nat
          /\ f[0] = 0 /\ g[0] = 0
        BY <1>1, <1>2 DEF Sums
    <2>2. h \in [0 .. Len(c) -> Int] /\ h[0] = 0
        BY <2>1
    <2>3. ASSUME NEW n \in 1 .. Len(c) PROVE h[n] = h[n - 1] + c[n]
        <3>1. /\ n - 1 \in 0 .. Len(c) /\ n \in 0 .. Len(c)
              /\ f[n] = f[n - 1] + a[n] /\ g[n] = g[n - 1] + b[n]
              /\ a[n] \in Int /\ b[n] \in Int
            BY <1>1, <1>2, <2>1 DEF Sums
        <3>2. f[n - 1] \in Int /\ g[n - 1] \in Int
            BY <2>1, <3>1
        <3>3. h[n] = f[n] + g[n] /\ h[n - 1] = f[n - 1] + g[n - 1] /\ c[n] = a[n] + b[n]
            BY <3>1
        <3> HIDE DEF h
        <3> DEFINE p == f[n - 1]
                   q == a[n]
                   r == g[n - 1]
                   s == b[n]
        <3>4. p \in Int /\ q \in Int /\ r \in Int /\ s \in Int
            BY <3>1, <3>2
        <3> HIDE DEF p, q, r, s
        <3>5. (p + q) + (r + s) = (p + r) + (q + s)
            BY <3>4
        <3> QED
            BY <3>1, <3>3, <3>5 DEF p, q, r, s
    <2> QED
        BY <2>2, <2>3 DEF Sums
<1> HIDE DEF h
<1>4. Len(c) \in 0 .. Len(c)
    <2>1. Len(c) \in Nat
        OBVIOUS
    <2> QED
        BY <2>1
<1>5. Total(a) = f[Len(c)] /\ Total(b) = g[Len(c)] /\ Total(c) = h[Len(c)]
    BY <1>1, <1>2, <1>3, TotalIs
<1> QED
    BY <1>4, <1>5 DEF h

LEMMA TotalNat ==
    ASSUME NEW amounts \in Seq(Int), \A k \in 1 .. Len(amounts) : 0 <= amounts[k]
    PROVE  0 <= Total(amounts)
<1>1. PICK f : Sums(f, amounts, Len(amounts))
    BY SumsExist
<1>0. Len(amounts) \in Nat
    OBVIOUS
<1> DEFINE wrong == {n \in 0 .. Len(amounts) : ~(0 <= f[n])}
<1>2. ASSUME wrong # {} PROVE FALSE
    <2>1. PICK m \in wrong : \A d \in wrong : m <= d
        <3>1. wrong \subseteq Nat
            OBVIOUS
        <3> HIDE DEF wrong
        <3> QED
            BY <1>2, <3>1, LeastOf
    <2>2. m # 0
        BY <1>1 DEF Sums
    <2>3. m \in 1 .. Len(amounts) /\ m - 1 \in 0 .. Len(amounts) /\ m - 1 \notin wrong
        BY <1>0, <2>1, <2>2
    <2>4. 0 <= f[m - 1] /\ f[m] = f[m - 1] + amounts[m] /\ f[m - 1] \in Int /\ amounts[m] \in Int
        BY <1>1, <2>3 DEF Sums
    <2>5. 0 <= f[m]
        BY <2>3, <2>4
    <2> QED
        BY <2>5
<1> QED
    BY <1>0, <1>1, <1>2, TotalIs

LEMMA TotalMonotone ==
    ASSUME NEW a \in Seq(Int), NEW b \in Seq(Int), Len(a) = Len(b),
           \A k \in 1 .. Len(b) : a[k] <= b[k]
    PROVE  Total(a) <= Total(b)
<1> DEFINE c == [k \in 1 .. Len(b) |-> b[k] - a[k]]
<1>1. Len(b) \in Nat /\ \A k \in 1 .. Len(b) : a[k] \in Int /\ b[k] \in Int
    OBVIOUS
<1>2. c \in Seq(Int) /\ Len(c) = Len(b)
    BY <1>1
<1>3. \A k \in 1 .. Len(b) : b[k] = a[k] + c[k] /\ 0 <= c[k]
    BY <1>1
<1> HIDE DEF c
<1>4. Total(b) = Total(a) + Total(c)
    BY <1>2, <1>3, TotalAdds
<1>5. 0 <= Total(c)
    BY <1>2, <1>3, TotalNat
<1> QED
    BY <1>2, <1>4, <1>5, TotalInt

LEMMA TotalAppended ==
    ASSUME NEW a \in Seq(Int), NEW b \in Seq(Int), Len(b) = Len(a) + 1,
           \A k \in 1 .. Len(a) : b[k] = a[k]
    PROVE  Total(b) = Total(a) + b[Len(b)]
<1>1. PICK f : Sums(f, a, Len(a))
    BY SumsExist
<1> DEFINE g == [n \in 0 .. Len(b) |-> IF n = Len(b) THEN f[Len(b) - 1] + b[Len(b)] ELSE f[n]]
<1>2. Len(a) \in Nat /\ Len(b) - 1 = Len(a) /\ Len(b) \in 1 .. Len(b)
    OBVIOUS
<1>3. Sums(f, b, Len(b) - 1)
    BY <1>1, <1>2 DEF Sums
<1>4. Sums(g, b, Len(b))
    BY <1>2, <1>3, SumsFurther
<1>5. Total(b) = g[Len(b)] /\ Total(a) = f[Len(a)]
    BY <1>1, <1>4, TotalIs
<1> QED
    BY <1>2, <1>5

(***************************************************************************)
(* The figures of a year.                                                  *)
(***************************************************************************)
QuarterIn(i, y, q) == InRange(i, QuarterStart(y, q), QuarterEnd(y, q))

LEMMA MonthsOfQuarters ==
    ASSUME NEW i, CivilDate(i.date), NEW y \in Nat
    PROVE  /\ QuarterIn(i, y, 1) <=> i.date.year = y /\ i.date.month \in 1 .. 3
           /\ QuarterIn(i, y, 2) <=> i.date.year = y /\ i.date.month \in 4 .. 6
           /\ QuarterIn(i, y, 3) <=> i.date.year = y /\ i.date.month \in 7 .. 9
           /\ QuarterIn(i, y, 4) <=> i.date.year = y /\ i.date.month \in 10 .. 12
<1> DEFINE d == i.date
<1>1. /\ d.year \in Nat /\ d.month \in 1 .. 12 /\ d.day \in 1 .. 31
      /\ d.day <= DaysInMonth(d.year, d.month)
    BY DEF CivilDate
<1>2. /\ QuarterStart(y, 1) = [year |-> y, month |-> 1, day |-> 1]
      /\ QuarterStart(y, 2) = [year |-> y, month |-> 4, day |-> 1]
      /\ QuarterStart(y, 3) = [year |-> y, month |-> 7, day |-> 1]
      /\ QuarterStart(y, 4) = [year |-> y, month |-> 10, day |-> 1]
      /\ QuarterEnd(y, 1) = [year |-> y, month |-> 3, day |-> 31]
      /\ QuarterEnd(y, 2) = [year |-> y, month |-> 6, day |-> 30]
      /\ QuarterEnd(y, 3) = [year |-> y, month |-> 9, day |-> 30]
      /\ QuarterEnd(y, 4) = [year |-> y, month |-> 12, day |-> 31]
    BY DEF QuarterStart, QuarterEnd, MonthStart, MonthEnd, Date, DaysInMonth
<1>3. /\ d.month = 6 => d.day <= 30
      /\ d.month = 9 => d.day <= 30
    BY <1>1 DEF DaysInMonth
<1>4. \A s, e : InRange(i, s, e) <=> ~Earlier(d, s) /\ ~Earlier(e, d)
    BY DEF InRange
<1> HIDE DEF d
<1>5. /\ QuarterIn(i, y, 1) <=> d.year = y /\ d.month \in 1 .. 3
      /\ QuarterIn(i, y, 2) <=> d.year = y /\ d.month \in 4 .. 6
      /\ QuarterIn(i, y, 3) <=> d.year = y /\ d.month \in 7 .. 9
      /\ QuarterIn(i, y, 4) <=> d.year = y /\ d.month \in 10 .. 12
    BY <1>1, <1>2, <1>3, <1>4 DEF QuarterIn, Earlier
<1> QED
    BY <1>5 DEF d

LEMMA OfQuarters ==
    ASSUME NEW i, CivilDate(i.date), NEW y \in Nat, NEW amount \in Int
    PROVE  LET Q(q) == IF QuarterIn(i, y, q) THEN amount ELSE 0
           IN  (IF i.date.year = y THEN amount ELSE 0) = ((Q(1) + Q(2)) + (Q(3) + Q(4)))
<1>1. i.date.month \in 1 .. 12
    BY DEF CivilDate
<1> QED
    BY <1>1, MonthsOfQuarters

LEMMA Listed ==
    ASSUME NEW n \in Nat, NEW f \in [1 .. n -> Int] PROVE f \in Seq(Int) /\ Len(f) = n
OBVIOUS

LEMMA FourTotals ==
    ASSUME NEW e \in Seq(Int), NEW a \in Seq(Int), NEW b \in Seq(Int), NEW c \in Seq(Int), NEW d \in Seq(Int),
           Len(a) = Len(e), Len(b) = Len(e), Len(c) = Len(e), Len(d) = Len(e),
           \A k \in 1 .. Len(e) : e[k] = (a[k] + b[k]) + (c[k] + d[k])
    PROVE  Total(e) = Total(a) + Total(b) + Total(c) + Total(d)
<1> DEFINE f == [k \in 1 .. Len(e) |-> a[k] + b[k]]
           g == [k \in 1 .. Len(e) |-> c[k] + d[k]]
<1>0. Len(e) \in Nat
    OBVIOUS
<1>1. \A k \in 1 .. Len(e) : a[k] \in Int /\ b[k] \in Int /\ c[k] \in Int /\ d[k] \in Int
    OBVIOUS
<1>2. f \in Seq(Int) /\ Len(f) = Len(e) /\ g \in Seq(Int) /\ Len(g) = Len(e)
    <2>0. \A k \in 1 .. Len(e) : a[k] + b[k] \in Int /\ c[k] + d[k] \in Int
        <3> TAKE k \in 1 .. Len(e)
        <3>1. a[k] \in Int /\ b[k] \in Int /\ c[k] \in Int /\ d[k] \in Int
            BY <1>1
        <3>2. \A x, y \in Int : x + y \in Int
            OBVIOUS
        <3> QED
            BY <3>1, <3>2, Zenon
    <2>1. f \in [1 .. Len(e) -> Int] /\ g \in [1 .. Len(e) -> Int]
        BY <2>0, Zenon
    <2> HIDE DEF f, g
    <2> QED
        BY <1>0, <2>1, Listed
<1>3. \A k \in 1 .. Len(e) : f[k] = a[k] + b[k] /\ g[k] = c[k] + d[k] /\ e[k] = f[k] + g[k]
    BY <1>1
<1> HIDE DEF f, g
<1>4. Total(f) = Total(a) + Total(b) /\ Total(g) = Total(c) + Total(d)
    BY <1>2, <1>3, TotalAdds
<1>5. Total(e) = Total(f) + Total(g)
    BY <1>2, <1>3, TotalAdds
<1>6. Total(a) \in Int /\ Total(b) \in Int /\ Total(c) \in Int /\ Total(d) \in Int
    BY TotalInt
<1> QED
    BY <1>4, <1>5, <1>6

LEMMA QuartersOfYear ==
    ASSUME NEW l \in Seq(Receipts), NEW y \in Nat, NEW amounts \in [DOMAIN l -> Int]
    PROVE  LET Q(q) == Total([k \in DOMAIN l |-> IF QuarterIn(l[k], y, q) THEN amounts[k] ELSE 0])
           IN  /\ Total([k \in DOMAIN l |-> IF l[k].date.year = y THEN amounts[k] ELSE 0])
                     = Q(1) + Q(2) + Q(3) + Q(4)
               /\ Q(1) \in Int /\ Q(2) \in Int /\ Q(3) \in Int /\ Q(4) \in Int
<1> DEFINE e == [k \in DOMAIN l |-> IF l[k].date.year = y THEN amounts[k] ELSE 0]
           s(q) == [k \in DOMAIN l |-> IF QuarterIn(l[k], y, q) THEN amounts[k] ELSE 0]
<1>0. Len(l) \in Nat /\ DOMAIN l = 1 .. Len(l)
    OBVIOUS
<1>1. e \in Seq(Int) /\ Len(e) = Len(l)
    <2>1. e \in [1 .. Len(l) -> Int]
        BY <1>0
    <2> QED
        BY <1>0, <2>1
<1>2. \A q : s(q) \in Seq(Int) /\ Len(s(q)) = Len(l)
    <2> TAKE q
    <2>1. s(q) \in [1 .. Len(l) -> Int]
        BY <1>0
    <2> QED
        BY <1>0, <2>1
<1>3. ASSUME NEW k \in 1 .. Len(l)
      PROVE  e[k] = (s(1)[k] + s(2)[k]) + (s(3)[k] + s(4)[k])
    <2>1. CivilDate(l[k].date) /\ amounts[k] \in Int
        BY <1>0, ReceiptsAssumption
    <2>2. /\ e[k] = IF l[k].date.year = y THEN amounts[k] ELSE 0
          /\ \A q : s(q)[k] = IF QuarterIn(l[k], y, q) THEN amounts[k] ELSE 0
        BY <1>0
    <2> HIDE DEF e, s
    <2>3. /\ s(1)[k] = IF QuarterIn(l[k], y, 1) THEN amounts[k] ELSE 0
          /\ s(2)[k] = IF QuarterIn(l[k], y, 2) THEN amounts[k] ELSE 0
          /\ s(3)[k] = IF QuarterIn(l[k], y, 3) THEN amounts[k] ELSE 0
          /\ s(4)[k] = IF QuarterIn(l[k], y, 4) THEN amounts[k] ELSE 0
        BY <2>2
    <2> DEFINE i == l[k]
               x == amounts[k]
    <2>4. CivilDate(i.date) /\ x \in Int
        BY <2>1
    <2> HIDE DEF i, x
    <2>5. (IF i.date.year = y THEN x ELSE 0)
              = (((IF QuarterIn(i, y, 1) THEN x ELSE 0) + (IF QuarterIn(i, y, 2) THEN x ELSE 0))
                 + ((IF QuarterIn(i, y, 3) THEN x ELSE 0) + (IF QuarterIn(i, y, 4) THEN x ELSE 0)))
        BY <2>4, OfQuarters
    <2> QED
        BY <2>2, <2>3, <2>5 DEF i, x
<1> HIDE DEF e, s
<1>4. Total(e) = Total(s(1)) + Total(s(2)) + Total(s(3)) + Total(s(4))
    <2> DEFINE a == s(1)
               b == s(2)
               c == s(3)
               d == s(4)
    <2>1. /\ a \in Seq(Int) /\ b \in Seq(Int) /\ c \in Seq(Int) /\ d \in Seq(Int)
          /\ Len(a) = Len(e) /\ Len(b) = Len(e) /\ Len(c) = Len(e) /\ Len(d) = Len(e)
          /\ \A k \in 1 .. Len(e) : e[k] = (a[k] + b[k]) + (c[k] + d[k])
        BY <1>1, <1>2, <1>3
    <2> HIDE DEF a, b, c, d
    <2>2. Total(e) = Total(a) + Total(b) + Total(c) + Total(d)
        BY <1>1, <2>1, FourTotals
    <2> QED
        BY <2>2 DEF a, b, c, d
<1>5. \A q : Total(s(q)) \in Int
    BY <1>2, TotalInt
<1> QED
    BY <1>4, <1>5 DEF e, s

LEMMA ThreeTotals ==
    ASSUME NEW e \in Seq(Int), NEW a \in Seq(Int), NEW b \in Seq(Int), NEW c \in Seq(Int),
           Len(a) = Len(e), Len(b) = Len(e), Len(c) = Len(e),
           \A k \in 1 .. Len(e) : e[k] = (a[k] + b[k]) + c[k]
    PROVE  Total(e) = Total(a) + Total(b) + Total(c)
<1> DEFINE f == [k \in 1 .. Len(e) |-> a[k] + b[k]]
<1>0. Len(e) \in Nat
    OBVIOUS
<1>1. \A k \in 1 .. Len(e) : a[k] \in Int /\ b[k] \in Int
    OBVIOUS
<1>2. f \in Seq(Int) /\ Len(f) = Len(e)
    <2>0. \A k \in 1 .. Len(e) : a[k] + b[k] \in Int
        <3>1. \A x, y \in Int : x + y \in Int
            OBVIOUS
        <3> QED
            BY <1>1, <3>1, Zenon
    <2>1. f \in [1 .. Len(e) -> Int]
        BY <2>0, Zenon
    <2> HIDE DEF f
    <2> QED
        BY <1>0, <2>1, Listed
<1>3. \A k \in 1 .. Len(e) : f[k] = a[k] + b[k] /\ e[k] = f[k] + c[k]
    BY <1>1
<1> HIDE DEF f
<1>4. Total(f) = Total(a) + Total(b)
    BY <1>2, <1>3, TotalAdds
<1>5. Total(e) = Total(f) + Total(c)
    BY <1>2, <1>3, TotalAdds
<1> QED
    BY <1>4, <1>5

LEMMA InvoiceFigures ==
    ASSUME NEW i \in Receipts
    PROVE  LET t == InvoiceTotals(i)
           IN  CivilDate(i.date) /\ i.base \in Nat /\ t.iva \in Int /\ t.retention \in Int
<1>1. CivilDate(i.date) /\ i.base \in Nat /\ i.base \in Int /\ i.ivaBp \in Int /\ i.retentionBp \in Int
    BY ReceiptsAssumption
<1>2. /\ InvoiceTotals(i).iva = ApplyBp(i.base, i.ivaBp)
      /\ InvoiceTotals(i).retention = ApplyBp(i.base, i.retentionBp)
    BY DEF InvoiceTotals
<1>3. Nearest(ApplyBp(i.base, i.ivaBp), i.base * i.ivaBp)
    BY <1>1, NearestCent
<1>4. Nearest(ApplyBp(i.base, i.retentionBp), i.base * i.retentionBp)
    BY <1>1, NearestCent
<1> QED
    BY <1>1, <1>2, <1>3, <1>4 DEF Nearest

(* Each invoice of a year counts in one quarter, whatever is counted of it.*)
LEMMA FigureOfQuarters ==
    ASSUME NEW l \in Seq(Receipts), NEW y \in Nat
    PROVE  LET P(q) == PeriodTotals(l, QuarterStart(y, q), QuarterEnd(y, q))
               R == RecibosFigures(l, y)
           IN  /\ R.base = P(1).base + P(2).base + P(3).base + P(4).base
               /\ R.iva = P(1).iva + P(2).iva + P(3).iva + P(4).iva
               /\ R.retention = P(1).retention + P(2).retention + P(3).retention + P(4).retention
               /\ R.count = P(1).count + P(2).count + P(3).count + P(4).count
               /\ P(1).base \in Int /\ P(2).base \in Int /\ P(3).base \in Int /\ P(4).base \in Int
<1> DEFINE P(q) == PeriodTotals(l, QuarterStart(y, q), QuarterEnd(y, q))
           R == RecibosFigures(l, y)
           Of(amounts, q) == Total([k \in DOMAIN l |-> IF QuarterIn(l[k], y, q) THEN amounts[k] ELSE 0])
           Year(amounts) == Total([k \in DOMAIN l |-> IF l[k].date.year = y THEN amounts[k] ELSE 0])
           bases == [k \in DOMAIN l |-> l[k].base]
           ivas == [k \in DOMAIN l |-> InvoiceTotals(l[k]).iva]
           held == [k \in DOMAIN l |-> InvoiceTotals(l[k]).retention]
           ones == [k \in DOMAIN l |-> 1]
<1>1. \A k \in DOMAIN l : l[k] \in Receipts
    OBVIOUS
<1>2. /\ bases \in [DOMAIN l -> Int] /\ ivas \in [DOMAIN l -> Int]
      /\ held \in [DOMAIN l -> Int] /\ ones \in [DOMAIN l -> Int]
    BY <1>1, InvoiceFigures
<1>3. ASSUME NEW q
      PROVE  /\ P(q).base = Of(bases, q) /\ P(q).iva = Of(ivas, q)
             /\ P(q).retention = Of(held, q) /\ P(q).count = Of(ones, q)
    <2>1. /\ [k \in DOMAIN l |-> IF QuarterIn(l[k], y, q) THEN bases[k] ELSE 0]
                 = [k \in DOMAIN l |-> IF InRange(l[k], QuarterStart(y, q), QuarterEnd(y, q)) THEN l[k].base ELSE 0]
          /\ [k \in DOMAIN l |-> IF QuarterIn(l[k], y, q) THEN ivas[k] ELSE 0]
                 = [k \in DOMAIN l |-> IF InRange(l[k], QuarterStart(y, q), QuarterEnd(y, q)) THEN InvoiceTotals(l[k]).iva ELSE 0]
          /\ [k \in DOMAIN l |-> IF QuarterIn(l[k], y, q) THEN held[k] ELSE 0]
                 = [k \in DOMAIN l |-> IF InRange(l[k], QuarterStart(y, q), QuarterEnd(y, q)) THEN InvoiceTotals(l[k]).retention ELSE 0]
          /\ [k \in DOMAIN l |-> IF QuarterIn(l[k], y, q) THEN ones[k] ELSE 0]
                 = [k \in DOMAIN l |-> IF InRange(l[k], QuarterStart(y, q), QuarterEnd(y, q)) THEN 1 ELSE 0]
        BY DEF QuarterIn
    <2> HIDE DEF bases, ivas, held, ones
    <2> QED
        BY <2>1 DEF PeriodTotals, TotalsOf, SumOf
<1>4. /\ R.base = Year(bases) /\ R.iva = Year(ivas)
      /\ R.retention = Year(held) /\ R.count = Year(ones)
    <2>1. /\ [k \in DOMAIN l |-> IF l[k].date.year = y THEN bases[k] ELSE 0]
                 = [k \in DOMAIN l |-> IF l[k].date.year = y THEN l[k].base ELSE 0]
          /\ [k \in DOMAIN l |-> IF l[k].date.year = y THEN ivas[k] ELSE 0]
                 = [k \in DOMAIN l |-> IF l[k].date.year = y THEN InvoiceTotals(l[k]).iva ELSE 0]
          /\ [k \in DOMAIN l |-> IF l[k].date.year = y THEN held[k] ELSE 0]
                 = [k \in DOMAIN l |-> IF l[k].date.year = y THEN InvoiceTotals(l[k]).retention ELSE 0]
          /\ [k \in DOMAIN l |-> IF l[k].date.year = y THEN ones[k] ELSE 0]
                 = [k \in DOMAIN l |-> IF l[k].date.year = y THEN 1 ELSE 0]
        OBVIOUS
    <2> HIDE DEF bases, ivas, held, ones
    <2> QED
        BY <2>1 DEF RecibosFigures, TotalsOf, SumOf
<1> HIDE DEF bases, ivas, held, ones
<1>5. ASSUME NEW amounts \in [DOMAIN l -> Int]
      PROVE  /\ Year(amounts) = Of(amounts, 1) + Of(amounts, 2) + Of(amounts, 3) + Of(amounts, 4)
             /\ Of(amounts, 1) \in Int /\ Of(amounts, 2) \in Int
             /\ Of(amounts, 3) \in Int /\ Of(amounts, 4) \in Int
    BY QuartersOfYear
<1> HIDE DEF Of, Year
<1>6. /\ Year(bases) = Of(bases, 1) + Of(bases, 2) + Of(bases, 3) + Of(bases, 4)
      /\ Of(bases, 1) \in Int /\ Of(bases, 2) \in Int /\ Of(bases, 3) \in Int /\ Of(bases, 4) \in Int
      /\ Year(ivas) = Of(ivas, 1) + Of(ivas, 2) + Of(ivas, 3) + Of(ivas, 4)
      /\ Year(held) = Of(held, 1) + Of(held, 2) + Of(held, 3) + Of(held, 4)
      /\ Year(ones) = Of(ones, 1) + Of(ones, 2) + Of(ones, 3) + Of(ones, 4)
    BY <1>2, <1>5
<1> HIDE DEF P, R
<1>7. \A q \in {1, 2, 3, 4} : /\ P(q).base = Of(bases, q) /\ P(q).iva = Of(ivas, q)
             /\ P(q).retention = Of(held, q) /\ P(q).count = Of(ones, q)
    BY <1>3, Zenon
<1>8. /\ R.base = P(1).base + P(2).base + P(3).base + P(4).base
      /\ R.iva = P(1).iva + P(2).iva + P(3).iva + P(4).iva
      /\ R.retention = P(1).retention + P(2).retention + P(3).retention + P(4).retention
      /\ R.count = P(1).count + P(2).count + P(3).count + P(4).count
      /\ P(1).base \in Int /\ P(2).base \in Int /\ P(3).base \in Int /\ P(4).base \in Int
    BY <1>4, <1>6, <1>7
<1> QED
    BY <1>8, Zenon DEF P, R

LEMMA ScopesOfYear ==
    ASSUME NEW l \in Seq(Receipts), NEW y \in Nat
    PROVE  LET T == TurnoverByScope(l, y)
           IN  T["national"] + T["eu"] + T["nonEu"] = RecibosFigures(l, y).base
<1> DEFINE T == TurnoverByScope(l, y)
           e == [k \in DOMAIN l |-> IF l[k].date.year = y THEN l[k].base ELSE 0]
           s(scope) == [k \in DOMAIN l |-> IF l[k].date.year = y /\ ScopeOf(l[k].country) = scope THEN l[k].base ELSE 0]
           a == s("national")
           b == s("eu")
           c == s("nonEu")
<1>0. Len(l) \in Nat /\ DOMAIN l = 1 .. Len(l) /\ \A k \in DOMAIN l : l[k] \in Receipts /\ l[k].base \in Int
    BY ReceiptsAssumption
<1>1. RecibosFigures(l, y).base = Total(e)
    BY DEF RecibosFigures, TotalsOf, SumOf
<1>2. T["national"] = Total(a) /\ T["eu"] = Total(b) /\ T["nonEu"] = Total(c)
    BY DEF TurnoverByScope, SumOf
<1>3. /\ e \in Seq(Int) /\ Len(e) = Len(l) /\ a \in Seq(Int) /\ Len(a) = Len(l)
      /\ b \in Seq(Int) /\ Len(b) = Len(l) /\ c \in Seq(Int) /\ Len(c) = Len(l)
    <2>1. /\ e \in [1 .. Len(l) -> Int] /\ a \in [1 .. Len(l) -> Int]
          /\ b \in [1 .. Len(l) -> Int] /\ c \in [1 .. Len(l) -> Int]
        BY <1>0
    <2> HIDE DEF e, a, b, c
    <2> QED
        BY <1>0, <2>1, Listed
<1>4. \A k \in 1 .. Len(l) : e[k] = (a[k] + b[k]) + c[k]
    <2> TAKE k \in 1 .. Len(l)
    <2>1. \A country : \/ ScopeOf(country) = "national" \/ ScopeOf(country) = "eu" \/ ScopeOf(country) = "nonEu"
        BY DEF ScopeOf
    <2>2. /\ e[k] = IF l[k].date.year = y THEN l[k].base ELSE 0
          /\ a[k] = IF l[k].date.year = y /\ ScopeOf(l[k].country) = "national" THEN l[k].base ELSE 0
          /\ b[k] = IF l[k].date.year = y /\ ScopeOf(l[k].country) = "eu" THEN l[k].base ELSE 0
          /\ c[k] = IF l[k].date.year = y /\ ScopeOf(l[k].country) = "nonEu" THEN l[k].base ELSE 0
        BY <1>0
    <2>3. l[k].base \in Int
        BY <1>0
    <2> HIDE DEF e, a, b, c
    <2> QED
        BY <2>1, <2>2, <2>3
<1> HIDE DEF e, a, b, c, T
<1>5. Total(e) = Total(a) + Total(b) + Total(c)
    BY <1>3, <1>4, ThreeTotals
<1>6. T["national"] + T["eu"] + T["nonEu"] = RecibosFigures(l, y).base
    BY <1>1, <1>2, <1>5
<1> QED
    BY <1>6, Zenon DEF T

LEMMA ReserveOfYear ==
    ASSUME NEW l \in Seq(Receipts), NEW day, CivilDate(day), NEW constants, NEW low, NEW high
    PROVE  EstimateReserve(constants, l, day, low, high).basis <= RecibosFigures(l, day.year).base
<1> DEFINE y == day.year
           e == [k \in DOMAIN l |-> IF l[k].date.year = y THEN l[k].base ELSE 0]
           a == [k \in DOMAIN l |-> IF InRange(l[k], Date(y, 1, 1), day) THEN l[k].base ELSE 0]
<1>0. /\ Len(l) \in Nat /\ DOMAIN l = 1 .. Len(l)
      /\ \A k \in DOMAIN l : l[k] \in Receipts /\ l[k].base \in Nat /\ CivilDate(l[k].date)
    BY ReceiptsAssumption
<1>1. RecibosFigures(l, y).base = Total(e)
    BY DEF RecibosFigures, TotalsOf, SumOf
<1>2. EstimateReserve(constants, l, day, low, high).basis = Total(a)
    BY DEF EstimateReserve, PeriodTotals, TotalsOf, SumOf
<1>3. e \in Seq(Int) /\ Len(e) = Len(l) /\ a \in Seq(Int) /\ Len(a) = Len(l)
    <2>1. e \in [1 .. Len(l) -> Int] /\ a \in [1 .. Len(l) -> Int]
        BY <1>0
    <2> HIDE DEF e, a
    <2> QED
        BY <1>0, <2>1, Listed
<1>4. \A k \in 1 .. Len(l) : a[k] <= e[k]
    <2> TAKE k \in 1 .. Len(l)
    <2>1. /\ e[k] = IF l[k].date.year = y THEN l[k].base ELSE 0
          /\ a[k] = IF InRange(l[k], Date(y, 1, 1), day) THEN l[k].base ELSE 0
        BY <1>0
    <2>2. l[k].base \in Nat /\ CivilDate(l[k].date)
        BY <1>0
    <2>3. InRange(l[k], Date(y, 1, 1), day) => l[k].date.year = y
        <3> DEFINE d == l[k].date
        <3>1. /\ d.year \in Nat /\ d.month \in 1 .. 12 /\ d.day \in 1 .. 31
              /\ day.year \in Nat /\ day.month \in 1 .. 12 /\ day.day \in 1 .. 31
            BY <2>2 DEF CivilDate
        <3>2. InRange(l[k], Date(y, 1, 1), day) => ~Earlier(d, Date(y, 1, 1)) /\ ~Earlier(day, d)
            BY DEF InRange
        <3> HIDE DEF d
        <3>3. InRange(l[k], Date(y, 1, 1), day) => d.year = y
            BY <3>1, <3>2 DEF Earlier, Date
        <3> QED
            BY <3>3 DEF d
    <2> HIDE DEF e, a
    <2> QED
        BY <2>1, <2>2, <2>3
<1> HIDE DEF e, a
<1>5. Total(a) <= Total(e)
    BY <1>3, <1>4, TotalMonotone
<1> QED
    BY <1>1, <1>2, <1>5

(***************************************************************************)
(* On the screen.                                                          *)
(***************************************************************************)
Clocked == CivilDate(today) /\ (window # None => CivilDate(window.today))

Booked == ledger \in Seq(Receipts)

LEMMA DayAfter == ASSUME NEW d, CivilDate(d) PROVE CivilDate(NextDay(d))
<1>1. /\ d \in [year : Nat, month : 1 .. 12, day : 1 .. 31]
      /\ d.day <= DaysInMonth(d.year, d.month)
    BY DEF CivilDate
<1>2. d.year \in Nat /\ d.month \in 1 .. 12 /\ d.day \in 1 .. 31
    BY <1>1
<1>3. DaysInMonth(d.year, d.month) \in 0 .. 31
    BY DEF DaysInMonth
<1>4. CASE d.day < DaysInMonth(d.year, d.month)
    BY <1>1, <1>2, <1>3, <1>4 DEF NextDay, CivilDate
<1>5. CASE ~(d.day < DaysInMonth(d.year, d.month)) /\ d.month < 12
    <2>1. NextDay(d) = [year |-> d.year, month |-> d.month + 1, day |-> 1]
        BY <1>5 DEF NextDay, Date
    <2>2. d.month + 1 \in 2 .. 12 /\ 1 <= DaysInMonth(d.year, d.month + 1)
        BY <1>2, <1>5 DEF DaysInMonth
    <2> QED
        BY <1>2, <2>1, <2>2 DEF CivilDate
<1>6. CASE ~(d.day < DaysInMonth(d.year, d.month)) /\ ~(d.month < 12)
    <2>1. NextDay(d) = [year |-> d.year + 1, month |-> 1, day |-> 1]
        BY <1>6 DEF NextDay, Date
    <2> QED
        BY <1>2, <2>1 DEF CivilDate, DaysInMonth
<1> QED
    BY <1>4, <1>5, <1>6

LEMMA ClockedAndBooked == ASSUME NoneIsNoFunction PROVE Spec => [](Clocked /\ Booked)
<1>1. Init => Clocked /\ Booked
    <2>1. \A s \in StartDays : CivilDate(s.day)
        BY CalendarAssumption, SameDate DEF Calendar!StartDaysAssumption
    <2> QED
        BY <2>1 DEF Init, Clocked, Booked
<1>2. Clocked /\ Booked /\ [Next]_vars => (Clocked /\ Booked)'
    <2> SUFFICES ASSUME Clocked, Booked, [Next]_vars PROVE (Clocked /\ Booked)'
        OBVIOUS
    <2>1. CASE PassDay
        <3>1. today' = NextDay(today) /\ UNCHANGED <<window, ledger>>
            BY <2>1 DEF PassDay
        <3> QED
            BY <3>1, DayAfter DEF Clocked, Booked
    <2>2. CASE Open
        <3>1. window' = [today |-> today, year |-> today.year] /\ UNCHANGED <<today, ledger>>
            BY <2>2 DEF Open, clock
        <3>2. window'.today = today
            BY <3>1
        <3> QED
            BY <3>1, <3>2 DEF Clocked, Booked
    <2>3. CASE RecordInvoice
        <3>1. PICK i \in Receipts : ledger' = Append(ledger, i)
            BY <2>3 DEF RecordInvoice
        <3>2. UNCHANGED <<today, window>>
            BY <2>3 DEF RecordInvoice, clock
        <3>3. Booked'
            BY <3>1 DEF Booked
        <3> QED
            BY <3>2, <3>3 DEF Clocked
    <2>4. CASE OpenProfile \/ CloseProfile \/ Type \/ SaveProfile \/ Complete \/ UNCHANGED vars
        <3>1. UNCHANGED <<today, window, ledger>>
            BY <2>4 DEF OpenProfile, CloseProfile, Type, SaveProfile, Complete, clock, vars
        <3> QED
            BY <3>1 DEF Clocked, Booked
    <2> QED
        BY <2>1, <2>2, <2>3, <2>4 DEF Next
<1> QED
    BY <1>1, <1>2, PTL DEF Spec

LEMMA PagesAreOne ==
    ASSUME ScreenInv, Clocked, Booked, NoneIsNoFunction, model # None PROVE PagesAgree
<1> DEFINE l == ledger
           y == window.year
           P(q) == PeriodTotals(l, QuarterStart(y, q), QuarterEnd(y, q))
<1>1. /\ window # None /\ y = window.today.year /\ CivilDate(window.today)
      /\ model = BuildModel(profile, l, window.today, completed)
    BY DEF ScreenInv, Windowed, OnScreen, Clocked
<1>2. y \in Nat /\ l \in Seq(Receipts)
    BY <1>1 DEF CivilDate, Booked
<1>3. /\ model.quarters = Quarters(Pack.constants, l, y)
      /\ model.reserve = EstimateReserve(Pack.constants, l, window.today, 2500, 3500)
    BY <1>1 DEF BuildModel, Flagged, ModelOf
<1>4. \A q \in 1 .. 4 : model.quarters[q].totals = P(q)
    BY <1>3 DEF Quarters, QuarterReport
<1>5. PainelFigures(model) = RecibosFigures(l, y)
    <2> DEFINE R == RecibosFigures(l, y)
               F == PainelFigures(model)
    <2>1. /\ R.base = P(1).base + P(2).base + P(3).base + P(4).base
          /\ R.iva = P(1).iva + P(2).iva + P(3).iva + P(4).iva
          /\ R.retention = P(1).retention + P(2).retention + P(3).retention + P(4).retention
          /\ R.count = P(1).count + P(2).count + P(3).count + P(4).count
        BY <1>2, FigureOfQuarters
    <2>2. R = [base |-> R.base, iva |-> R.iva, retention |-> R.retention, count |-> R.count]
        BY DEF RecibosFigures, TotalsOf
    <2> HIDE DEF P, R
    <2>3. /\ DOMAIN F = {"base", "iva", "retention", "count"}
          /\ F = [figure \in {"base", "iva", "retention", "count"} |-> F[figure]]
          /\ \A figure \in {"base", "iva", "retention", "count"} :
                 F[figure] = P(1)[figure] + P(2)[figure] + P(3)[figure] + P(4)[figure]
        BY <1>4 DEF PainelFigures
    <2> HIDE DEF F
    <2>4. F.base = R.base /\ F.iva = R.iva /\ F.retention = R.retention /\ F.count = R.count
        BY <2>1, <2>3
    <2>5. F = R
        BY <2>2, <2>3, <2>4
    <2> QED
        BY <2>5 DEF F, R
<1>6. LET T == TurnoverByScope(l, y) IN T["national"] + T["eu"] + T["nonEu"] = RecibosFigures(l, y).base
    BY <1>2, ScopesOfYear
<1>7. model.reserve.basis <= RecibosFigures(l, y).base
    BY <1>1, <1>2, <1>3, ReserveOfYear
<1> QED
    BY <1>5, <1>6, <1>7 DEF PagesAgree

LEMMA PaidAsOwed ==
    ASSUME NEW constants, NEW income \in Int, IsRate(OrZero(constants.share)), IsRate(OrZero(constants.rate))
    PROVE  LET e == EstimateSocialSecurity(constants, income, 3)
               p == e.instalments
           IN  /\ p[1] + p[2] + p[3] = e.contribution
               /\ \A i, j \in 1 .. 3 : p[i] - p[j] \in -1 .. 1
<1> DEFINE e == EstimateSocialSecurity(constants, income, 3)
           relevant == ApplyBp(income, OrZero(constants.share))
           owed == ApplyBp(relevant, OrZero(constants.rate))
<1>1. OrZero(constants.share) \in Int /\ OrZero(constants.rate) \in Int
    BY DEF IsRate
<1>2. relevant \in Int
    BY <1>1, NearestCent DEF Nearest
<1>3. owed \in Int
    <2> HIDE DEF relevant
    <2> QED
        BY <1>1, <1>2, NearestCent DEF Nearest
<1>4. e.contribution = owed /\ e.instalments = SplitEvenly(owed, 3)
    BY DEF EstimateSocialSecurity
<1> HIDE DEF e, owed
<1> DEFINE p == e.instalments
<1>5. p[1] + p[2] + p[3] = owed /\ \A i, j \in 1 .. 3 : p[i] - p[j] \in -1 .. 1
    BY <1>3, <1>4, InstalmentsAddUp
<1>6. p[1] + p[2] + p[3] = e.contribution /\ \A i, j \in 1 .. 3 : p[i] - p[j] \in -1 .. 1
    BY <1>4, <1>5
<1> QED
    BY <1>6, Zenon DEF e, p

LEMMA InstalmentsAreExact ==
    ASSUME ScreenInv, Clocked, Booked, NoneIsNoFunction, model # None PROVE InstalmentsExact
<1> DEFINE l == ledger
           y == window.year
           c == Pack.constants
           P(q) == PeriodTotals(l, QuarterStart(y, q), QuarterEnd(y, q))
           E(q) == EstimateSocialSecurity(c, P(q).base, 3)
<1>1. /\ y = window.today.year /\ CivilDate(window.today)
      /\ model = BuildModel(profile, l, window.today, completed)
    BY DEF ScreenInv, Windowed, OnScreen, Clocked
<1>2. y \in Nat /\ l \in Seq(Receipts)
    BY <1>1 DEF CivilDate, Booked
<1>3. model.quarters = Quarters(c, l, y)
    BY <1>1 DEF BuildModel, Flagged, ModelOf
<1>4. \A q \in 1 .. 4 : model.quarters[q].totals = P(q) /\ model.quarters[q].socialSecurity = E(q)
    BY <1>3 DEF Quarters, QuarterReport
<1>5. P(1).base \in Int /\ P(2).base \in Int /\ P(3).base \in Int /\ P(4).base \in Int
    BY <1>2, FigureOfQuarters
<1>6. IsRate(OrZero(c.share)) /\ IsRate(OrZero(c.rate))
    BY ConstantsAssumption DEF IsRate, OrZero
<1>7. PainelFigures(model).base = P(1).base + P(2).base + P(3).base + P(4).base
    <2> HIDE DEF P
    <2> QED
        BY <1>4 DEF PainelFigures
<1> HIDE DEF P, c
<1>8. ASSUME NEW q \in 1 .. 4
      PROVE  LET p == model.quarters[q].socialSecurity.instalments
             IN  /\ p[1] + p[2] + p[3] = model.quarters[q].socialSecurity.contribution
                 /\ \A i, j \in 1 .. 3 : p[i] - p[j] \in -1 .. 1
    <2>1. P(q).base \in Int
        BY <1>5
    <2>2. model.quarters[q].socialSecurity = E(q)
        BY <1>4
    <2> QED
        BY <1>6, <2>1, <2>2, PaidAsOwed
<1>9. LET owed == [q \in 1 .. 4 |-> model.quarters[q].socialSecurity.contribution]
          yearly == EstimateSocialSecurity(c, PainelFigures(model).base, 1)
      IN  Magnitude(owed[1] + owed[2] + owed[3] + owed[4] - yearly.contribution) < 5
    <2> DEFINE owed == [q \in 1 .. 4 |-> model.quarters[q].socialSecurity.contribution]
               year == EstimateSocialSecurity(c, P(1).base + P(2).base + P(3).base + P(4).base, 1).contribution
    <2>1. /\ owed[1] = E(1).contribution /\ owed[2] = E(2).contribution
          /\ owed[3] = E(3).contribution /\ owed[4] = E(4).contribution
        BY <1>4
    <2> HIDE DEF owed
    <2>2. E(1).contribution + E(2).contribution + E(3).contribution + E(4).contribution - year \in -4 .. 4
        BY <1>5, <1>6, QuartersAddUp
    <2> HIDE DEF E, year
    <2>3. Magnitude(owed[1] + owed[2] + owed[3] + owed[4] - year) < 5
        BY <2>1, <2>2 DEF Magnitude
    <2> QED
        BY <1>7, <2>3 DEF owed, year
<1> QED
    BY <1>8, <1>9 DEF InstalmentsExact, c

(* The pages agree on the figures of a year, however many invoices there   *)
(* are of whatever days and clients, and what is paid in instalments is    *)
(* what is owed, to the cent (estimate.rs, period_totals and               *)
(* quarter_report; flags.rs, turnover_by_scope; money.rs, split_evenly).   *)
THEOREM FiguresAreOne == ASSUME NoneIsNoFunction PROVE Spec => []FiguresAgree
<1>1. ScreenInv /\ Clocked /\ Booked => FiguresAgree
    BY PagesAreOne, InstalmentsAreExact DEF FiguresAgree
<1>2. Spec => []ScreenInv
    BY ScreenHolds
<1>3. Spec => [](Clocked /\ Booked)
    BY ClockedAndBooked
<1> QED
    BY <1>1, <1>2, <1>3, PTL

(***************************************************************************)
(* Sequences by rank: every rank up to the number of elements is taken by  *)
(* one of them.                                                            *)
(***************************************************************************)
Orders(precedes, S) ==
    /\ \A i \in S : <<i, i>> \notin precedes
    /\ \A i, j, k \in S : <<i, j>> \in precedes /\ <<j, k>> \in precedes => <<i, k>> \in precedes
    /\ \A i, j \in S : i # j => <<i, j>> \in precedes \/ <<j, i>> \in precedes

Lower(i, S, precedes) == {j \in S : <<j, i>> \in precedes}

LEMMA RankRises ==
    ASSUME NEW S, IsFiniteSet(S), NEW precedes, Orders(precedes, S),
           NEW i \in S, NEW j \in S, <<i, j>> \in precedes
    PROVE  /\ Cardinality(Lower(i, S, precedes)) \in Nat
           /\ Cardinality(Lower(j, S, precedes)) \in Nat
           /\ Cardinality(Lower(i, S, precedes)) < Cardinality(Lower(j, S, precedes))
<1>1. Lower(i, S, precedes) \subseteq Lower(j, S, precedes)
    BY Zenon DEF Lower, Orders
<1>2. i \in Lower(j, S, precedes) /\ i \notin Lower(i, S, precedes)
    BY Zenon DEF Lower, Orders
<1>3. IsFiniteSet(Lower(j, S, precedes))
    BY FS_Subset, Zenon DEF Lower
<1>4. /\ IsFiniteSet(Lower(i, S, precedes))
      /\ Cardinality(Lower(i, S, precedes)) <= Cardinality(Lower(j, S, precedes))
      /\ Cardinality(Lower(j, S, precedes)) = Cardinality(Lower(i, S, precedes))
            => Lower(j, S, precedes) = Lower(i, S, precedes)
    BY <1>1, <1>3, FS_Subset
<1>5. Cardinality(Lower(i, S, precedes)) \in Nat /\ Cardinality(Lower(j, S, precedes)) \in Nat
    BY <1>3, <1>4, FS_CardinalityType
<1> QED
    BY <1>2, <1>4, <1>5

LEMMA EveryRankTaken ==
    ASSUME NEW S, IsFiniteSet(S), NEW precedes, Orders(precedes, S)
    PROVE  /\ Cardinality(S) \in Nat
           /\ \A i \in S : Cardinality(Lower(i, S, precedes)) \in 0 .. Cardinality(S) - 1
           /\ \A k \in 1 .. Cardinality(S) : \E i \in S : Cardinality(Lower(i, S, precedes)) = k - 1
<1> DEFINE n == Cardinality(S)
           T == 0 .. n - 1
           f == [i \in S |-> Cardinality(Lower(i, S, precedes))]
<1>1. n \in Nat
    BY FS_CardinalityType
<1>2. ASSUME NEW i \in S PROVE Cardinality(Lower(i, S, precedes)) \in T
    <2>1. Lower(i, S, precedes) \subseteq S \ {i}
        BY Zenon DEF Lower, Orders
    <2>2. IsFiniteSet(S \ {i}) /\ Cardinality(S \ {i}) = n - 1
        BY FS_RemoveElement
    <2>3. IsFiniteSet(Lower(i, S, precedes)) /\ Cardinality(Lower(i, S, precedes)) <= n - 1
        BY <2>1, <2>2, FS_Subset
    <2>4. Cardinality(Lower(i, S, precedes)) \in Nat
        BY <2>3, FS_CardinalityType
    <2> QED
        BY <1>1, <2>3, <2>4
<1>3. IsFiniteSet(T) /\ Cardinality(T) = n
    <2>1. n - 1 \in Int /\ 0 \in Int
        BY <1>1
    <2>2. IsFiniteSet(T) /\ Cardinality(T) = IF 0 > n - 1 THEN 0 ELSE (n - 1) - 0 + 1
        BY <2>1, FS_Interval
    <2> QED
        BY <1>1, <2>2
<1>4. f \in [S -> T]
    BY <1>2
<1>5. \A i, j \in S : f[i] = f[j] => i = j
    <2> SUFFICES ASSUME NEW i \in S, NEW j \in S, i # j PROVE f[i] # f[j]
        OBVIOUS
    <2>1. <<i, j>> \in precedes \/ <<j, i>> \in precedes
        BY DEF Orders
    <2> QED
        BY <2>1, RankRises
<1>6. f \in Injection(S, T)
    BY <1>4, <1>5 DEF Injection, IsInjective
<1>7. f \in Surjection(S, T)
    BY <1>3, <1>6, FS_Injection
<1>8. \A k \in T : \E i \in S : f[i] = k
    BY <1>7 DEF Surjection
<1> HIDE DEF f
<1>9. \A k \in 1 .. n : \E i \in S : Cardinality(Lower(i, S, precedes)) = k - 1
    <2> SUFFICES ASSUME NEW k \in 1 .. n PROVE \E i \in S : Cardinality(Lower(i, S, precedes)) = k - 1
        OBVIOUS
    <2>1. k - 1 \in T
        BY <1>1
    <2>2. PICK i \in S : f[i] = k - 1
        BY <1>8, <2>1
    <2> QED
        BY <2>2 DEF f
<1> QED
    BY <1>1, <1>2, <1>9

LEMMA InRanks ==
    ASSUME NEW S, IsFiniteSet(S), NEW precedes, Orders(precedes, S)
    PROVE  LET e == Enumerated(S, precedes)
           IN  /\ Cardinality(S) \in Nat
               /\ DOMAIN e = 1 .. Cardinality(S)
               /\ \A k \in DOMAIN e : e[k] \in S
               /\ \A k, l \in DOMAIN e : k < l => <<e[k], e[l]>> \in precedes
               /\ \A i \in S : \E k \in DOMAIN e : e[k] = i
<1> DEFINE n == Cardinality(S)
           e == Enumerated(S, precedes)
           rank(i) == Cardinality(Lower(i, S, precedes))
<1>1. /\ n \in Nat
      /\ \A i \in S : rank(i) \in 0 .. n - 1
      /\ \A k \in 1 .. n : \E i \in S : rank(i) = k - 1
    BY EveryRankTaken
<1>2. e = [k \in 1 .. n |-> CHOOSE i \in S : rank(i) = k - 1]
    BY DEF Enumerated, Lower
<1>3. \A i, j \in S : <<i, j>> \in precedes => rank(i) < rank(j)
    BY RankRises
<1> HIDE DEF e, rank, n
<1>4. DOMAIN e = 1 .. n
    BY <1>2
<1>5. \A k \in 1 .. n : e[k] \in S /\ rank(e[k]) = k - 1
    BY <1>1, <1>2
<1>6. \A i, j \in S : i = j \/ <<i, j>> \in precedes \/ <<j, i>> \in precedes
    BY Zenon DEF Orders
<1>7. ASSUME NEW k \in 1 .. n, NEW l \in 1 .. n, k < l PROVE <<e[k], e[l]>> \in precedes
    <2>1. rank(e[k]) < rank(e[l]) /\ e[k] \in S /\ e[l] \in S
        BY <1>1, <1>5, <1>7
    <2>2. rank(e[k]) \in Int /\ rank(e[l]) \in Int
        BY <1>1, <1>5
    <2>3. e[k] # e[l] /\ <<e[l], e[k]>> \notin precedes
        BY <1>3, <2>1, <2>2
    <2> QED
        BY <1>6, <2>1, <2>3
<1>8. ASSUME NEW i \in S PROVE \E k \in 1 .. n : e[k] = i
    <2>1. rank(i) \in 0 .. n - 1
        BY <1>1
    <2> DEFINE k == rank(i) + 1
    <2>2. k \in 1 .. n
        BY <1>1, <2>1
    <2>3. rank(e[k]) = rank(i) /\ e[k] \in S
        BY <1>5, <2>1, <2>2
    <2> HIDE DEF k
    <2>4. e[k] = i
        <3>1. ~(rank(e[k]) < rank(i)) /\ ~(rank(i) < rank(e[k]))
            BY <2>1, <2>3
        <3> QED
            BY <1>3, <1>6, <2>3, <3>1
    <2> QED
        BY <2>2, <2>4
<1> QED
    BY <1>1, <1>4, <1>5, <1>7, <1>8 DEF e, n

(***************************************************************************)
(* Texts.  Blocks joined one by one make a number, and the number a text   *)
(* was made of is the number it is read as.                                *)
(***************************************************************************)
Further(block, next) ==
    Block(block.value * Power(next.width) + next.value, block.width + next.width)

Joins(f, blocks, i, j) ==
    /\ f \in [0 .. j -> DigitBlocks]
    /\ \A k \in 0 .. j : f[k] = IF k < i THEN Block(0, 0) ELSE Further(f[k - 1], blocks[k])

LEMMA FurtherIsDigits ==
    ASSUME NEW a \in DigitBlocks, NEW b \in DigitBlocks PROVE Further(a, b) \in DigitBlocks
<1>1. Power(b.width) \in {1, 10, 100, 1000}
    BY DEF Power
<1>2. a.value \in Nat /\ a.width \in Nat /\ b.value \in Nat /\ b.width \in Nat
    BY DEF DigitBlocks
<1> DEFINE p == Power(b.width)
           v == a.value
           c == b.value
<1>3. v * p + c \in Nat
    <2> HIDE DEF p, v, c
    <2>1. v \in Nat /\ c \in Nat /\ (p = 1 \/ p = 10 \/ p = 100 \/ p = 1000)
        BY <1>1, <1>2 DEF p, v, c
    <2> QED
        BY <2>1
<1>4. a.width + b.width \in Nat
    BY <1>2
<1> QED
    BY <1>3, <1>4 DEF Further, Block, DigitBlocks

LEMMA JoinsFurther ==
    ASSUME NEW blocks \in Seq(DigitBlocks), NEW i \in Nat \ {0}, NEW m \in 1 .. Len(blocks),
           NEW f, Joins(f, blocks, i, m - 1)
    PROVE  \E g : Joins(g, blocks, i, m)
<1> DEFINE last == IF m < i THEN Block(0, 0) ELSE Further(f[m - 1], blocks[m])
           g == [k \in 0 .. m |-> IF k = m THEN last ELSE f[k]]
<1>1. m \in Nat /\ m # 0 /\ blocks[m] \in DigitBlocks /\ f[m - 1] \in DigitBlocks /\ m - 1 \in 0 .. m /\ m - 1 # m
    BY DEF Joins
<1>2. last \in DigitBlocks
    BY <1>1, FurtherIsDigits DEF Block, DigitBlocks
<1>3. \A k \in 0 .. m : k # m => k \in 0 .. m - 1 /\ f[k] \in DigitBlocks
    BY <1>1 DEF Joins
<1> HIDE DEF last
<1>4. g \in [0 .. m -> DigitBlocks]
    BY <1>2, <1>3
<1>5. ASSUME NEW k \in 0 .. m
      PROVE  g[k] = IF k < i THEN Block(0, 0) ELSE Further(g[k - 1], blocks[k])
    <2>1. CASE k = m
        BY <1>1, <2>1 DEF last
    <2>2. CASE k # m
        <3>1. k \in 0 .. m - 1 /\ g[k] = f[k]
            BY <1>3, <2>2
        <3>2. k < i \/ (k - 1 \in 0 .. m /\ g[k - 1] = f[k - 1])
            BY <1>1, <3>1
        <3> QED
            BY <3>1, <3>2 DEF Joins
    <2> QED
        BY <2>1, <2>2
<1> QED
    BY <1>4, <1>5 DEF Joins

LEMMA JoinsExist ==
    ASSUME NEW blocks \in Seq(DigitBlocks), NEW i \in Nat \ {0}, NEW j \in 0 .. Len(blocks)
    PROVE  \E f : Joins(f, blocks, i, j)
<1> DEFINE wrong == {m \in 0 .. Len(blocks) : ~\E f : Joins(f, blocks, i, m)}
<1>0. Len(blocks) \in Nat
    OBVIOUS
<1>1. ASSUME wrong # {} PROVE FALSE
    <2>1. PICK m \in wrong : \A d \in wrong : m <= d
        <3>1. wrong \subseteq Nat
            OBVIOUS
        <3> HIDE DEF wrong
        <3> QED
            BY <1>1, <3>1, LeastOf
    <2>2. m # 0
        <3> DEFINE g == [k \in 0 .. 0 |-> Block(0, 0)]
        <3>1. Block(0, 0) \in DigitBlocks
            BY DEF Block, DigitBlocks
        <3>2. g \in [0 .. 0 -> DigitBlocks]
            BY <3>1
        <3>3. \A k \in 0 .. 0 : k < i /\ g[k] = Block(0, 0)
            OBVIOUS
        <3>4. Joins(g, blocks, i, 0)
            <4> HIDE DEF g
            <4> QED
                BY <3>2, <3>3 DEF Joins
        <3> QED
            BY <3>4
    <2>3. m \in 1 .. Len(blocks) /\ m - 1 \in 0 .. Len(blocks)
        BY <1>0, <2>2
    <2>6. m - 1 \notin wrong
        <3> HIDE DEF wrong
        <3>1. ~(m <= m - 1)
            BY <2>3
        <3> QED
            BY <2>1, <3>1
    <2>4. PICK f : Joins(f, blocks, i, m - 1)
        BY <2>3, <2>6
    <2>5. \E g : Joins(g, blocks, i, m)
        BY <2>3, <2>4, JoinsFurther
    <2> QED
        BY <2>5
<1> QED
    BY <1>0, <1>1

LEMMA JoinedIs ==
    ASSUME NEW blocks \in Seq(DigitBlocks), NEW i \in Nat \ {0}, NEW j \in Nat, NEW f, Joins(f, blocks, i, j)
    PROVE  Joined(blocks, i, j) = f[j]
<1> DEFINE Fits(upTo) == upTo = [k \in 0 .. j |-> IF k < i THEN Block(0, 0)
                                   ELSE Block(upTo[k - 1].value * Power(blocks[k].width) + blocks[k].value,
                                              upTo[k - 1].width + blocks[k].width)]
           g == CHOOSE upTo : Fits(upTo)
<1>1. Fits(f)
    <2>1. f = [k \in 0 .. j |-> f[k]]
        BY DEF Joins
    <2> QED
        BY <2>1 DEF Joins, Further
<1>2. Joined(blocks, i, j) = g[j]
    BY DEF Joined
<1>3. Fits(g)
    <2> HIDE DEF Fits
    <2> QED
        BY <1>1
<1>4. \A k \in 0 .. j : g[k] = IF k < i THEN Block(0, 0) ELSE Further(g[k - 1], blocks[k])
    <2> HIDE DEF g
    <2> QED
        BY <1>3 DEF Further
<1> HIDE DEF g, Fits
<1> DEFINE wrong == {n \in 0 .. j : f[n] # g[n]}
<1>5. ASSUME wrong # {} PROVE FALSE
    <2>1. PICK m \in wrong : \A d \in wrong : m <= d
        <3>1. wrong \subseteq Nat
            OBVIOUS
        <3> HIDE DEF wrong
        <3> QED
            BY <1>5, <3>1, LeastOf
    <2>2. m \in 0 .. j /\ f[m] # g[m]
        BY <2>1
    <2>3. ~(m < i)
        BY <1>4, <2>2 DEF Joins
    <2>4. m - 1 \in 0 .. j /\ m - 1 \notin wrong
        BY <2>1, <2>2, <2>3
    <2>5. f[m - 1] = g[m - 1]
        BY <2>4
    <2> QED
        BY <1>4, <2>2, <2>3, <2>5 DEF Joins
<1> QED
    BY <1>2, <1>5

LEMMA JoinedIsDigits ==
    ASSUME NEW blocks \in Seq(DigitBlocks), NEW i \in Nat \ {0}, NEW j \in 0 .. Len(blocks)
    PROVE  Joined(blocks, i, j) \in DigitBlocks
<1>1. PICK f : Joins(f, blocks, i, j)
    BY JoinsExist
<1>2. j \in Nat
    OBVIOUS
<1> QED
    BY <1>1, <1>2, JoinedIs DEF Joins

(* Grouping by thousands, on the numbers up to one of them.                *)
Cut(f, n) ==
    IF n < 1000 THEN <<Block(n, Width(n))>> ELSE Append(f[n \div 1000], Block(n % 1000, 3))

Splits(f, m) ==
    /\ f \in [0 .. m -> Seq(DigitBlocks)]
    /\ \A n \in 0 .. m : f[n] = Cut(f, n)

LEMMA Thousands ==
    ASSUME NEW n \in Nat, ~(n < 1000)
    PROVE  /\ n \div 1000 \in Nat /\ n \div 1000 < n /\ n \div 1000 >= 1
           /\ n % 1000 \in Nat /\ (n \div 1000) * 1000 + (n % 1000) = n
OBVIOUS

LEMMA OneBlock ==
    ASSUME NEW n \in Nat
    PROVE  /\ Width(n) \in Nat /\ Width(n) >= 1
           /\ Block(n, Width(n)) \in DigitBlocks
           /\ <<Block(n, Width(n))>> \in Seq(DigitBlocks)
<1>1. Width(n) \in Nat /\ Width(n) >= 1
    BY DEF Width
<1>2. Block(n, Width(n)) \in DigitBlocks
    BY <1>1 DEF Block, DigitBlocks
<1> QED
    BY <1>1, <1>2

LEMMA SplitsFurther ==
    ASSUME NEW m \in Nat, m # 0, NEW f, Splits(f, m - 1) PROVE \E g : Splits(g, m)
<1> DEFINE last == IF m < 1000 THEN <<Block(m, Width(m))>>
                   ELSE Append(f[m \div 1000], Block(m % 1000, 3))
           g == [n \in 0 .. m |-> IF n = m THEN last ELSE f[n]]
<1>1. last \in Seq(DigitBlocks)
    <2>1. CASE m < 1000
        BY <2>1, OneBlock
    <2>2. CASE ~(m < 1000)
        <3>1. m \div 1000 \in 0 .. m - 1 /\ m % 1000 \in Nat
            BY <2>2, Thousands
        <3>2. f[m \div 1000] \in Seq(DigitBlocks) /\ Block(m % 1000, 3) \in DigitBlocks
            BY <3>1 DEF Splits, Block, DigitBlocks
        <3> QED
            BY <2>2, <3>2
    <2> QED
        BY <2>1, <2>2
<1>2. \A n \in 0 .. m : n # m => n \in 0 .. m - 1 /\ f[n] \in Seq(DigitBlocks)
    BY DEF Splits
<1> HIDE DEF last
<1>3. g \in [0 .. m -> Seq(DigitBlocks)]
    BY <1>1, <1>2
<1>4. ASSUME NEW n \in 0 .. m
      PROVE  g[n] = Cut(g, n)
    <2>1. ~(n < 1000) => n \div 1000 \in 0 .. m /\ n \div 1000 # m /\ g[n \div 1000] = f[n \div 1000]
        BY Thousands
    <2>2. CASE n = m
        <3>1. g[n] = last
            BY <2>2
        <3> QED
            BY <2>1, <2>2, <3>1 DEF last, Cut
    <2>3. CASE n # m
        <3>1. g[n] = f[n] /\ n \in 0 .. m - 1
            BY <1>2, <2>3
        <3> HIDE DEF g
        <3>2. Cut(g, n) = Cut(f, n)
            BY <2>1 DEF Cut
        <3> QED
            BY <3>1, <3>2 DEF Splits
    <2> QED
        BY <2>2, <2>3
<1> HIDE DEF g
<1>5. Splits(g, m)
    BY <1>3, <1>4 DEF Splits
<1> QED
    BY <1>5

LEMMA SplitsExist == ASSUME NEW j \in Nat PROVE \E f : Splits(f, j)
<1> DEFINE wrong == {m \in Nat : ~\E f : Splits(f, m)}
<1>1. ASSUME wrong # {} PROVE FALSE
    <2>1. PICK m \in wrong : \A d \in wrong : m <= d
        <3>1. wrong \subseteq Nat
            OBVIOUS
        <3> HIDE DEF wrong
        <3> QED
            BY <1>1, <3>1, LeastOf
    <2>2. m # 0
        <3> DEFINE g == [n \in 0 .. 0 |-> <<Block(n, Width(n))>>]
        <3>1. \A n \in 0 .. 0 : n \in Nat /\ n < 1000
            OBVIOUS
        <3>2. g \in [0 .. 0 -> Seq(DigitBlocks)]
            BY <3>1, OneBlock
        <3>3. \A n \in 0 .. 0 : g[n] = Cut(g, n)
            BY <3>1 DEF Cut
        <3> HIDE DEF g
        <3>4. Splits(g, 0)
            BY <3>2, <3>3 DEF Splits
        <3> QED
            BY <3>4
    <2>3. m \in Nat /\ m - 1 \in Nat
        BY <2>2
    <2>4. m - 1 \notin wrong
        <3> HIDE DEF wrong
        <3>1. ~(m <= m - 1)
            BY <2>3
        <3> QED
            BY <2>1, <3>1
    <2>5. PICK f : Splits(f, m - 1)
        BY <2>3, <2>4
    <2>6. \E g : Splits(g, m)
        BY <2>2, <2>3, <2>5, SplitsFurther
    <2> QED
        BY <2>6
<1> QED
    BY <1>1

LEMMA SplitsAgree ==
    ASSUME NEW m \in Nat, NEW n \in Nat, NEW f, NEW g, Splits(f, m), Splits(g, n),
           NEW k \in Nat, k <= m, k <= n
    PROVE  f[k] = g[k]
<1> DEFINE wrong == {d \in Nat : d <= m /\ d <= n /\ f[d] # g[d]}
<1>1. ASSUME wrong # {} PROVE FALSE
    <2>1. PICK d \in wrong : \A e \in wrong : d <= e
        <3>1. wrong \subseteq Nat
            OBVIOUS
        <3> HIDE DEF wrong
        <3> QED
            BY <1>1, <3>1, LeastOf
    <2>2. d \in Nat /\ d \in 0 .. m /\ d \in 0 .. n /\ f[d] # g[d]
        BY <2>1
    <2>7. f[d] = Cut(f, d) /\ g[d] = Cut(g, d)
        <3> HIDE DEF wrong
        <3> QED
            BY <2>2 DEF Splits
    <2>3. ~(d < 1000)
        BY <2>2, <2>7 DEF Cut
    <2>4. d \div 1000 \in Nat /\ d \div 1000 < d
        BY <2>2, <2>3, Thousands
    <2> DEFINE e == d \div 1000
    <2>5. e \notin wrong
        <3> HIDE DEF wrong, e
        <3>1. e \in Nat /\ e < d
            BY <2>4 DEF e
        <3>2. ~(d <= e)
            BY <2>2, <3>1
        <3> QED
            BY <2>1, <3>2
    <2>6. f[e] = g[e]
        <3> HIDE DEF e
        <3>1. e \in Nat /\ e <= m /\ e <= n
            BY <2>2, <2>4 DEF e
        <3> QED
            BY <2>5, <3>1
    <2> QED
        BY <2>2, <2>6, <2>7 DEF Cut
<1> QED
    BY <1>1

LEMMA GroupedIs == \A n \in Nat : Grouped[n] = Cut(Grouped, n)
<1> DEFINE Fits(h) == h = [n \in Nat |-> Cut(h, n)]
           one(n) == CHOOSE f : Splits(f, n)
           g == [n \in Nat |-> one(n)[n]]
<1>1. \A n \in Nat : Splits(one(n), n)
    BY SplitsExist
<1> HIDE DEF one
<1>2. ASSUME NEW n \in Nat PROVE g[n] = Cut(g, n)
    <2>1. g[n] = one(n)[n] /\ Splits(one(n), n) /\ n \in 0 .. n
        BY <1>1
    <2>2. g[n] = Cut(one(n), n)
        BY <2>1 DEF Splits
    <2>3. CASE n < 1000
        BY <2>2, <2>3 DEF Cut
    <2>4. CASE ~(n < 1000)
        <3> DEFINE e == n \div 1000
        <3>1. e \in Nat /\ e < n
            BY <2>4, Thousands
        <3>2. \A h : Cut(h, n) = Append(h[e], Block(n % 1000, 3))
            BY <2>4 DEF Cut
        <3> HIDE DEF e, g
        <3>3. Splits(one(e), e) /\ e <= e /\ e <= n
            BY <1>1, <3>1
        <3>4. one(e)[e] = one(n)[e]
            BY <2>1, <3>1, <3>3, SplitsAgree
        <3>5. g[e] = one(e)[e]
            BY <3>1 DEF g
        <3>6. Cut(one(n), n) = Append(one(n)[e], Block(n % 1000, 3))
            BY <3>2
        <3>7. Cut(g, n) = Append(g[e], Block(n % 1000, 3))
            BY <3>2
        <3>8. one(n)[e] = g[e]
            BY <3>4, <3>5
        <3> QED
            BY <2>2, <3>6, <3>7, <3>8
    <2> QED
        BY <2>3, <2>4
<1>3. Fits(g)
    <2>1. g = [n \in Nat |-> g[n]]
        OBVIOUS
    <2> HIDE DEF g
    <2>2. [n \in Nat |-> g[n]] = [n \in Nat |-> Cut(g, n)]
        BY <1>2
    <2> QED
        BY <2>1, <2>2
<1>4. Grouped = CHOOSE h : Fits(h)
    BY DEF Grouped, Cut
<1>5. Fits(Grouped)
    <2> HIDE DEF Fits
    <2> QED
        BY <1>3, <1>4
<1> QED
    BY <1>5

(* The blocks of a number, wherever else the text goes on to.              *)
Reads(s, n) ==
    /\ s \in Seq(DigitBlocks) /\ Len(s) >= 1
    /\ \A blocks \in Seq(DigitBlocks), j \in Nat : \A f :
          /\ Joins(f, blocks, 1, j) /\ Len(s) <= j /\ Len(s) <= Len(blocks)
          /\ \A k \in 1 .. Len(s) : blocks[k] = s[k]
          => f[Len(s)].value = n /\ f[Len(s)].width >= 1

LEMMA JoinStarts ==
    ASSUME NEW blocks, NEW j \in Nat, NEW f, Joins(f, blocks, 1, j)
    PROVE  /\ f[0] = Block(0, 0)
           /\ \A k \in 1 .. j : f[k] = Further(f[k - 1], blocks[k]) /\ f[k - 1] \in DigitBlocks
<1>1. f[0] = Block(0, 0)
    BY DEF Joins
<1>2. ASSUME NEW k \in 1 .. j PROVE f[k] = Further(f[k - 1], blocks[k]) /\ f[k - 1] \in DigitBlocks
    <2>1. k \in 0 .. j /\ k - 1 \in 0 .. j /\ ~(k < 1)
        OBVIOUS
    <2> QED
        BY <2>1 DEF Joins
<1> QED
    BY <1>1, <1>2

LEMMA ReadsOne == ASSUME NEW n \in Nat PROVE Reads(<<Block(n, Width(n))>>, n)
<1> DEFINE s == <<Block(n, Width(n))>>
<1>1. s \in Seq(DigitBlocks) /\ Len(s) = 1 /\ s[1] = Block(n, Width(n)) /\ Width(n) \in Nat /\ Width(n) >= 1
    BY OneBlock
<1>2. ASSUME NEW blocks \in Seq(DigitBlocks), NEW j \in Nat, NEW f, Joins(f, blocks, 1, j),
             1 <= j, blocks[1] = Block(n, Width(n))
      PROVE  f[1].value = n /\ f[1].width >= 1
    <2>1. f[0] = Block(0, 0) /\ f[1] = Further(f[0], blocks[1])
        <3>1. 1 \in 1 .. j /\ 1 - 1 = 0
            BY <1>2
        <3>2. f[0] = Block(0, 0) /\ f[1] = Further(f[1 - 1], blocks[1])
            BY <1>2, <3>1, JoinStarts
        <3> QED
            BY <3>1, <3>2
    <2>2. f[1].value = 0 * Power(Width(n)) + n /\ f[1].width = 0 + Width(n)
        BY <1>2, <2>1 DEF Further, Block
    <2>3. Power(Width(n)) \in Nat
        BY DEF Power
    <2> QED
        BY <1>1, <2>2, <2>3
<1> HIDE DEF s
<1>3. ASSUME NEW blocks \in Seq(DigitBlocks), NEW j \in Nat, NEW f, Joins(f, blocks, 1, j), Len(s) <= j,
             Len(s) <= Len(blocks), \A k \in 1 .. Len(s) : blocks[k] = s[k]
      PROVE  f[Len(s)].value = n /\ f[Len(s)].width >= 1
    <2>1. 1 <= j /\ blocks[1] = Block(n, Width(n))
        BY <1>1, <1>3
    <2> QED
        BY <1>1, <1>2, <1>3, <2>1
<1>4. Reads(s, n)
    BY <1>1, <1>3 DEF Reads
<1> QED
    BY <1>4 DEF s

LEMMA ReadsMore ==
    ASSUME NEW s, NEW e \in Nat, NEW r \in Nat, Reads(s, e)
    PROVE  Reads(Append(s, Block(r, 3)), e * 1000 + r)
<1> DEFINE b == Block(r, 3)
           t == Append(s, b)
<1>1. s \in Seq(DigitBlocks) /\ Len(s) \in Nat /\ Len(s) >= 1
    BY DEF Reads
<1>2. b \in DigitBlocks /\ b.value = r /\ b.width = 3
    BY DEF Block, DigitBlocks
<1> HIDE DEF b
<1>3. t \in Seq(DigitBlocks) /\ Len(t) = Len(s) + 1 /\ t[Len(s) + 1] = b
    BY <1>1, <1>2
<1>4. \A k \in 1 .. Len(s) : t[k] = s[k]
    BY <1>1, <1>2
<1> HIDE DEF t
<1>5. ASSUME NEW blocks \in Seq(DigitBlocks), NEW j \in Nat, NEW f, Joins(f, blocks, 1, j), Len(t) <= j,
             Len(t) <= Len(blocks), \A k \in 1 .. Len(t) : blocks[k] = t[k]
      PROVE  f[Len(t)].value = e * 1000 + r /\ f[Len(t)].width >= 1
    <2> DEFINE m == Len(s)
    <2>1. m \in Nat /\ m >= 1 /\ Len(t) = m + 1 /\ m <= j /\ m <= Len(blocks) /\ m + 1 \in 1 .. j /\ (m + 1) - 1 = m
        BY <1>1, <1>3, <1>5
    <2>2. blocks[m + 1] = b
        BY <1>3, <1>5, <2>1
    <2>3. \A k \in 1 .. m : blocks[k] = s[k]
        BY <1>4, <1>5, <2>1
    <2>4. f[m].value = e /\ f[m].width >= 1
        BY <1>5, <2>1, <2>3 DEF Reads
    <2>5. f[m + 1] = Further(f[m], b) /\ f[m] \in DigitBlocks
        <3> HIDE DEF m
        <3>1. f[m + 1] = Further(f[(m + 1) - 1], blocks[m + 1]) /\ f[(m + 1) - 1] \in DigitBlocks
            BY <1>5, <2>1, JoinStarts
        <3> QED
            BY <2>1, <2>2, <3>1
    <2>6. f[m + 1].value = e * 1000 + r /\ f[m + 1].width = f[m].width + 3 /\ f[m].width \in Nat
        BY <1>2, <2>4, <2>5 DEF Further, Block, Power, DigitBlocks
    <2> QED
        BY <2>1, <2>4, <2>6
<1>6. Len(t) >= 1
    BY <1>1, <1>3
<1>7. Reads(t, e * 1000 + r)
    BY <1>3, <1>5, <1>6 DEF Reads
<1> QED
    BY <1>7 DEF t, b

LEMMA GroupedReads == \A n \in Nat : Reads(Grouped[n], n)
<1> DEFINE wrong == {n \in Nat : ~Reads(Grouped[n], n)}
<1>1. ASSUME wrong # {} PROVE FALSE
    <2>1. PICK n \in wrong : \A d \in wrong : n <= d
        <3>1. wrong \subseteq Nat
            OBVIOUS
        <3> HIDE DEF wrong
        <3> QED
            BY <1>1, <3>1, LeastOf
    <2>2. n \in Nat /\ ~Reads(Grouped[n], n) /\ Grouped[n] = Cut(Grouped, n)
        BY <2>1, GroupedIs
    <2>3. ~(n < 1000)
        BY <2>2, ReadsOne DEF Cut
    <2> DEFINE e == n \div 1000
               r == n % 1000
    <2>4. e \in Nat /\ e < n /\ r \in Nat /\ e * 1000 + r = n
        BY <2>2, <2>3, Thousands
    <2>5. Grouped[n] = Append(Grouped[e], Block(r, 3))
        BY <2>2, <2>3 DEF Cut
    <2> HIDE DEF e, r
    <2>6. e \notin wrong
        <3> HIDE DEF wrong
        <3>1. ~(n <= e)
            BY <2>2, <2>4
        <3> QED
            BY <2>1, <3>1
    <2>7. Reads(Grouped[e], e)
        BY <2>4, <2>6
    <2>8. Reads(Append(Grouped[e], Block(r, 3)), e * 1000 + r)
        BY <2>4, <2>7, ReadsMore
    <2> QED
        BY <2>2, <2>4, <2>5, <2>8
<1> QED
    BY <1>1

LEMMA ThousandsRead == ASSUME NEW n \in Nat PROVE Reads(GroupThousands(n), n)
BY GroupedReads, ReadsOne DEF GroupThousands

LEMMA LargestOfOne == ASSUME NEW x \in Int PROVE Max({x}) = x /\ Cardinality({x}) = 1
<1>1. \E z \in {x} : \A y \in {x} : z >= y
    OBVIOUS
<1>2. Max({x}) \in {x}
    BY <1>1 DEF Max
<1> QED
    BY <1>2, FS_Singleton

LEMMA ScaledInt == ASSUME NEW v \in Int, NEW w PROVE v * Power(w) \in Int
<1> DEFINE p == Power(w)
<1>1. p = 1 \/ p = 10 \/ p = 100 \/ p = 1000
    BY DEF Power
<1> HIDE DEF p
<1>2. v * p \in Int
    BY <1>1
<1> QED
    BY <1>2 DEF p

(* A mark that stands last and nowhere else.                               *)
LEMMA LastMark ==
    ASSUME NEW marks, NEW L \in Nat, L >= 1, DOMAIN marks = 1 .. L, NEW here,
           marks[L] \in here, \A i \in 1 .. L : i # L => marks[i] \notin here
    PROVE  {i \in DOMAIN marks : marks[i] \in here} = {L}
<1>1. L \in 1 .. L
    OBVIOUS
<1> QED
    BY <1>1, Zenon

LEMMA AmountJoined ==
    ASSUME NEW s, NEW n \in Nat, Reads(s, n), NEW b \in DigitBlocks
    PROVE  LET blocks == Append(s, b)
               L == Len(s)
           IN  /\ blocks \in Seq(DigitBlocks) /\ L \in Nat /\ L >= 1 /\ Len(blocks) = L + 1 /\ DOMAIN s = 1 .. L
               /\ Joined(blocks, 1, L).value = n /\ Joined(blocks, 1, L).width >= 1
               /\ Joined(blocks, L + 1, L + 1) = b
<1> DEFINE blocks == Append(s, b)
           L == Len(s)
<1>1. s \in Seq(DigitBlocks) /\ L \in Nat /\ L >= 1 /\ DOMAIN s = 1 .. L
    BY DEF Reads
<1>2. b.value \in Nat /\ b.width \in Nat /\ b = Block(b.value, b.width)
    BY DEF Block, DigitBlocks
<1>3. blocks \in Seq(DigitBlocks) /\ Len(blocks) = L + 1 /\ blocks[L + 1] = b
    BY <1>1
<1>4. \A k \in 1 .. L : blocks[k] = s[k]
    BY <1>1
<1> HIDE DEF blocks
<1>5. L \in 0 .. Len(blocks) /\ L + 1 \in 0 .. Len(blocks) /\ L + 1 \in Nat \ {0} /\ 1 \in Nat \ {0} /\ L <= L /\ L <= Len(blocks)
    <2> HIDE DEF L
    <2> QED
        BY <1>1, <1>3
<1>6. Joined(blocks, 1, L).value = n /\ Joined(blocks, 1, L).width >= 1
    <2>1. PICK f : Joins(f, blocks, 1, L)
        BY <1>3, <1>5, JoinsExist
    <2>2. Joined(blocks, 1, L) = f[L]
        BY <1>1, <1>3, <1>5, <2>1, JoinedIs
    <2>3. f[L].value = n /\ f[L].width >= 1
        BY <1>1, <1>3, <1>4, <1>5, <2>1 DEF Reads
    <2> QED
        BY <2>2, <2>3
<1>7. Joined(blocks, L + 1, L + 1) = b
    <2> DEFINE i == L + 1
    <2>1. PICK f : Joins(f, blocks, i, i)
        BY <1>3, <1>5, JoinsExist
    <2>2. Joined(blocks, i, i) = f[i]
        BY <1>3, <1>5, <2>1, JoinedIs
    <2>3. L \in 0 .. i /\ i \in 0 .. i /\ L < i /\ i - 1 = L /\ ~(i < i)
        <3> HIDE DEF L
        <3> QED
            BY <1>1
    <2>4. f[i] = Further(Block(0, 0), b)
        <3> HIDE DEF i
        <3>1. f[L] = Block(0, 0) /\ f[i] = Further(f[i - 1], blocks[i])
            BY <2>1, <2>3 DEF Joins
        <3> QED
            BY <1>3, <2>3, <3>1 DEF i
    <2>5. Further(Block(0, 0), b) = b
        <3>1. 0 * Power(b.width) = 0
            BY DEF Power
        <3>2. 0 * Power(b.width) + b.value = b.value /\ 0 + b.width = b.width
            BY <1>2, <3>1
        <3>3. Further(Block(0, 0), b) = Block(0 * Power(b.width) + b.value, 0 + b.width)
            BY DEF Further, Block
        <3> QED
            BY <1>2, <3>2, <3>3, Zenon
    <2> QED
        BY <2>2, <2>4, <2>5
<1> QED
    BY <1>1, <1>3, <1>6, <1>7 DEF blocks

LEMMA AmountReadBack ==
    ASSUME NEW c \in Int
    PROVE  /\ WellMade(FormatEur(c)) /\ FormatEur(c) # Blank
           /\ ParseEur(FormatEur(c)) = Read(c)
<1> DEFINE m == Magnitude(c)
           n == m \div 100
           r == m % 100
           s == GroupThousands(n)
           L == Len(s)
           t == FormatEur(c)
<1>1. m \in Nat /\ c = IF c < 0 THEN -m ELSE m
    BY DEF Magnitude
<1>2. n \in Nat /\ r \in Nat /\ n * 100 + r = m
    <2> HIDE DEF m
    <2> QED
        BY <1>1
<1> HIDE DEF m, n, r
<1>3. Reads(s, n)
    BY <1>2, ThousandsRead
<1> HIDE DEF s
<1>4. /\ Append(s, Block(r, 2)) \in Seq(DigitBlocks) /\ L \in Nat /\ L >= 1 /\ Len(Append(s, Block(r, 2))) = L + 1
      /\ DOMAIN s = 1 .. L
      /\ Joined(Append(s, Block(r, 2)), 1, L).value = n /\ Joined(Append(s, Block(r, 2)), 1, L).width >= 1
      /\ Joined(Append(s, Block(r, 2)), L + 1, L + 1) = Block(r, 2)
    <2>1. Block(r, 2) \in DigitBlocks
        BY <1>2 DEF Block, DigitBlocks
    <2> QED
        BY <1>2, <1>3, <2>1, AmountJoined
<1>5. t.blocks = Append(s, Block(r, 2)) /\ t.minus = (c < 0)
    BY Zenon DEF FormatEur, Text, s, n, r, m
<1>6. t.marks = [i \in DOMAIN s |-> IF i = L THEN "," ELSE " "]
    BY Zenon DEF FormatEur, Text, s, n, r, m
<1> HIDE DEF t
<1>11. DOMAIN t.marks = 1 .. L
    BY <1>4, <1>6, Zenon
<1>7. DecimalMarks(t) = {L}
    <2> DEFINE marks == t.marks
    <2>1. L \in DOMAIN s
        BY <1>4
    <2> HIDE DEF L
    <2>2. marks[L] = "," /\ \A i \in 1 .. L : i # L => marks[i] = " "
        BY <1>4, <1>6, <2>1, Zenon
    <2>3. "," # " " /\ "." # " "
        BY Zenon
    <2> HIDE DEF marks
    <2>4. marks[L] \in {",", "."} /\ (\A i \in 1 .. L : i # L => marks[i] \notin {",", "."})
        BY <2>2, <2>3, Zenon
    <2>5. marks[L] \in {","} /\ (\A i \in 1 .. L : i # L => marks[i] \notin {","})
        BY <2>2, <2>3, Zenon
    <2>6. L \in Nat /\ L >= 1 /\ DOMAIN marks = 1 .. L
        BY <1>4, <1>11 DEF marks
    <2>7. Marked(t, {",", "."}) = {L}
        BY <2>4, <2>6, LastMark, Zenon DEF Marked, marks
    <2>8. Marked(t, {","}) = {L}
        <3> DEFINE only == {","}
        <3>1. marks[L] \in only /\ (\A i \in 1 .. L : i # L => marks[i] \notin only)
            BY <2>5, Zenon
        <3> HIDE DEF only
        <3>2. {i \in DOMAIN marks : marks[i] \in only} = {L}
            BY <2>6, <3>1, LastMark
        <3>3. Marked(t, only) = {L}
            BY <3>2, Zenon DEF Marked, marks
        <3> QED
            BY <3>3, Zenon DEF only
    <2>9. Max({L}) = L /\ {L} # {}
        BY <2>6, LargestOfOne
    <2> QED
        BY <2>2, <2>7, <2>8, <2>9, Zenon DEF DecimalMarks, marks
<1>8. Max({L}) = L /\ Cardinality({L}) = 1 /\ {L} # {}
    <2>1. L \in Int
        BY <1>4
    <2> HIDE DEF L
    <2> QED
        BY <2>1, LargestOfOne
<1>9. WellMade(t) /\ t # Blank
    <2>1. Len(t.blocks) - 1 = L /\ t.blocks \in Seq(DigitBlocks) /\ Len(t.blocks) # 0
        BY <1>4, <1>5
    <2>2. Blank.blocks = <<>>
        BY DEF Blank, Text
    <2>3. t # Blank
        BY <2>1, <2>2
    <2> QED
        BY <1>11, <2>1, <2>3 DEF WellMade
<1>10. ParseEur(t) = Read(c)
    <2> DEFINE decimal == DecimalMarks(t)
               count == Len(t.blocks)
               split == IF decimal = {} THEN count ELSE Max(decimal)
               whole == Joined(t.blocks, 1, split)
               fraction == Joined(t.blocks, split + 1, count)
               cents == whole.value * 100 + fraction.value * Power(2 - fraction.width)
    <2>1. decimal = {L} /\ split = L /\ count = L + 1 /\ Cardinality(decimal) = 1
        BY <1>4, <1>5, <1>7, <1>8
    <2>2. whole.value = n /\ whole.width >= 1 /\ fraction = Block(r, 2)
        BY <1>4, <1>5, <2>1
    <2>3. ParseEur(t) = IF \/ Cardinality(decimal) > 1
                           \/ whole.width = 0
                           \/ fraction.width > 2
                           \/ decimal # {} /\ fraction.width = 0
                        THEN Unreadable
                        ELSE Read(IF t.minus THEN -cents ELSE cents)
        BY Zenon DEF ParseEur
    <2>4. fraction.value = r /\ fraction.width = 2
        BY <2>2 DEF Block
    <2> HIDE DEF decimal, split, count, whole, fraction
    <2>5. Power(2 - fraction.width) = 1
        BY <2>4 DEF Power
    <2>6. cents = m
        BY <1>2, <2>2, <2>4, <2>5
    <2> HIDE DEF cents
    <2>7. ParseEur(t) = Read(IF t.minus THEN -cents ELSE cents)
        BY <2>1, <2>2, <2>3, <2>4
    <2>8. (IF t.minus THEN -cents ELSE cents) = c
        BY <1>1, <1>5, <2>6
    <2> QED
        BY <2>7, <2>8
<1> QED
    BY <1>9, <1>10 DEF t

LEMMA WholeJoined ==
    ASSUME NEW s, NEW n \in Nat, Reads(s, n)
    PROVE  /\ Joined(s, 1, Len(s)).value = n
           /\ Joined(s, Len(s) + 1, Len(s)) = Block(0, 0)
<1>1. s \in Seq(DigitBlocks) /\ Len(s) \in Nat /\ Len(s) >= 1
    BY DEF Reads
<1> DEFINE L == Len(s)
<1>2. L \in 0 .. Len(s) /\ L + 1 \in Nat \ {0} /\ 1 \in Nat \ {0} /\ L <= L /\ L < L + 1 /\ L \in 0 .. L
    BY <1>1
<1>3. Joined(s, 1, L).value = n
    <2>1. PICK f : Joins(f, s, 1, L)
        BY <1>1, <1>2, JoinsExist
    <2>2. Joined(s, 1, L) = f[L]
        BY <1>1, <1>2, <2>1, JoinedIs
    <2>3. f[L].value = n
        BY <1>1, <1>2, <2>1 DEF Reads
    <2> QED
        BY <2>2, <2>3
<1>4. Joined(s, L + 1, L) = Block(0, 0)
    <2>1. PICK f : Joins(f, s, L + 1, L)
        BY <1>1, <1>2, JoinsExist
    <2>2. Joined(s, L + 1, L) = f[L]
        BY <1>1, <1>2, <2>1, JoinedIs
    <2> HIDE DEF L
    <2>3. f[L] = Block(0, 0)
        BY <1>2, <2>1 DEF Joins
    <2> QED
        BY <2>2, <2>3
<1> QED
    BY <1>3, <1>4

LEMMA NoMark == ASSUME NEW t, t.marks = <<>>, NEW here PROVE Marked(t, here) = {}
BY DEF Marked

LEMMA OneMark ==
    ASSUME NEW t, NEW mark, t.marks = <<mark>>, NEW here, mark \in here PROVE Marked(t, here) = {1}
<1>1. DOMAIN t.marks = 1 .. 1 /\ t.marks[1] = mark
    OBVIOUS
<1> QED
    BY <1>1 DEF Marked

Separators == {",", "."}

LEMMA WholePercent ==
    ASSUME NEW t, NEW n \in Nat, t.blocks = <<Block(n, Width(n))>>, t.marks = <<>>, t.minus = FALSE
    PROVE  CoefficientBp(t) = Read(n * 100)
<1> DEFINE marks == Marked(t, {",", "."})
           count == Len(t.blocks)
           split == IF marks = {} THEN count ELSE Max(marks)
           whole == Joined(t.blocks, 1, split)
           fraction == Joined(t.blocks, split + 1, count)
           bp == whole.value * 100 + fraction.value * Power(2 - fraction.width)
<1>1. marks = {} /\ count = 1 /\ split = 1 /\ Cardinality({}) = 0
    <2>1. marks = {}
        BY NoMark, Zenon
    <2> HIDE DEF marks
    <2> QED
        BY <2>1, FS_EmptySet
<1>2. Reads(t.blocks, n)
    BY ReadsOne
<1>3. whole.value = n /\ fraction = Block(0, 0)
    BY <1>1, <1>2, WholeJoined
<1>4. CoefficientBp(t) = IF count = 0 \/ Cardinality(marks) > 1 THEN Unreadable
                         ELSE Read(IF t.minus THEN -bp ELSE bp)
    BY Zenon DEF CoefficientBp
<1>5. bp = n * 100
    <2> HIDE DEF whole, fraction
    <2> QED
        BY <1>3 DEF Block, Power
<1> HIDE DEF bp, marks, count
<1> QED
    BY <1>1, <1>4, <1>5

LEMMA FractionPercent ==
    ASSUME NEW t, NEW n \in Nat, NEW b \in DigitBlocks, t.blocks = <<Block(n, Width(n)), b>>,
           NEW mark, t.marks = <<mark>>, mark \in Separators, t.minus = FALSE
    PROVE  CoefficientBp(t) = Read(n * 100 + b.value * Power(2 - b.width))
<1> DEFINE marks == Marked(t, Separators)
           count == Len(t.blocks)
           split == IF marks = {} THEN count ELSE Max(marks)
           whole == Joined(t.blocks, 1, split)
           fraction == Joined(t.blocks, split + 1, count)
           bp == whole.value * 100 + fraction.value * Power(2 - fraction.width)
           s == <<Block(n, Width(n))>>
<1>4. CoefficientBp(t) = IF count = 0 \/ Cardinality(marks) > 1 THEN Unreadable
                         ELSE Read(IF t.minus THEN -bp ELSE bp)
    BY Zenon DEF CoefficientBp, Separators
<1>6. marks = {1}
    BY OneMark
<1>2. Reads(s, n)
    BY ReadsOne
<1> HIDE DEF marks
<1>7. count = 2 /\ t.blocks = Append(s, b) /\ Len(s) = 1
    <2>1. s \in Seq(DigitBlocks) /\ Len(s) = 1
        BY OneBlock
    <2>2. ASSUME NEW c, NEW d PROVE Len(<<c, d>>) = 2 /\ <<c, d>> = Append(<<c>>, d)
        OBVIOUS
    <2> QED
        BY <2>1, <2>2, Zenon
<1>8. {1} # {} /\ Max({1}) = 1 /\ Cardinality({1}) = 1
    <2>1. 1 \in Int /\ {1} # {}
        OBVIOUS
    <2> QED
        BY <2>1, LargestOfOne, Zenon
<1>1. split = 1 /\ split + 1 = count
    <2>1. split = 1
        BY <1>6, <1>8, Zenon
    <2> HIDE DEF split, count
    <2> QED
        BY <1>7, <2>1
<1>3. whole.value = n /\ fraction = b
    <2> HIDE DEF s, split, count
    <2>1. Joined(Append(s, b), 1, Len(s)).value = n /\ Joined(Append(s, b), Len(s) + 1, Len(s) + 1) = b
        BY <1>2, AmountJoined
    <2> DEFINE m == Len(s)
               c == count
               l == split
    <2>2. Joined(t.blocks, 1, m).value = n /\ Joined(t.blocks, m + 1, m + 1) = b
        BY <1>7, <2>1, Zenon
    <2>3. m = l /\ m + 1 = l + 1 /\ m + 1 = c
        BY <1>1, <1>7
    <2> HIDE DEF m, c, l
    <2>4. Joined(t.blocks, 1, l).value = n /\ Joined(t.blocks, l + 1, c) = b
        BY <2>2, <2>3, Zenon
    <2> QED
        BY <2>4, Zenon DEF c, l
<1>5. bp = n * 100 + b.value * Power(2 - b.width)
    <2> HIDE DEF whole, fraction
    <2> QED
        BY <1>3
<1> HIDE DEF bp, count
<1> QED
    BY <1>4, <1>5, <1>6, <1>7, <1>8

LEMMA Hundredths ==
    ASSUME NEW n \in Nat
    PROVE  /\ n \div 100 \in Nat /\ n % 100 \in Nat
           /\ (n \div 100) * 100 + (n % 100) = n
           /\ n % 100 = 0 => (n \div 100) * 100 = n
           /\ (n % 100) \div 10 \in Nat
           /\ (n % 100) % 10 = 0 => ((n % 100) \div 10) * 10 = n % 100
<1> DEFINE r == n % 100
<1>1. n \div 100 \in Nat /\ r \in Nat /\ (n \div 100) * 100 + r = n
    OBVIOUS
<1> HIDE DEF r
<1>2. r \div 10 \in Nat /\ (r % 10 = 0 => (r \div 10) * 10 = r)
    BY <1>1
<1>3. r = 0 => (n \div 100) * 100 = n
    BY <1>1
<1> QED
    BY <1>1, <1>2, <1>3 DEF r

Comma == ","

LEMMA CommaSeparates == Comma \in Separators
BY Zenon DEF Comma, Separators

LEMMA PercentIs ==
    ASSUME NEW bp, NEW w, NEW r, w = Magnitude(bp) \div 100, r = Magnitude(bp) % 100
    PROVE  FormatBpAsPercent(bp) =
              IF r = 0 THEN Text(bp < 0, <<Block(w, Width(w))>>, <<>>)
              ELSE IF r % 10 = 0 THEN Text(bp < 0, <<Block(w, Width(w)), Block(r \div 10, 1)>>, <<Comma>>)
              ELSE Text(bp < 0, <<Block(w, Width(w)), Block(r, 2)>>, <<Comma>>)
BY Zenon DEF FormatBpAsPercent, Comma

LEMMA PercentReads ==
    ASSUME NEW bp \in Nat,
           NEW w, NEW r, w = Magnitude(bp) \div 100, r = Magnitude(bp) % 100
    PROVE  CoefficientBp(FormatBpAsPercent(bp)) = Read(bp)
<1> DEFINE t == FormatBpAsPercent(bp)
<1>2. Magnitude(bp) = bp /\ (bp < 0) = FALSE
    BY DEF Magnitude
<1>1. /\ w \in Nat /\ r \in Nat /\ w * 100 + r = bp /\ (r = 0 => w * 100 = bp)
      /\ r \div 10 \in Nat /\ (r % 10 = 0 => (r \div 10) * 10 = r)
    BY <1>2, Hundredths
<1>3. Comma \in Separators
    BY CommaSeparates
<1>4. t = IF r = 0 THEN Text(bp < 0, <<Block(w, Width(w))>>, <<>>)
          ELSE IF r % 10 = 0 THEN Text(bp < 0, <<Block(w, Width(w)), Block(r \div 10, 1)>>, <<Comma>>)
          ELSE Text(bp < 0, <<Block(w, Width(w)), Block(r, 2)>>, <<Comma>>)
    BY PercentIs, Zenon
<1> HIDE DEF t
<1>5. CASE r = 0
    <2>1. t.blocks = <<Block(w, Width(w))>> /\ t.marks = <<>> /\ t.minus = FALSE
        <3>1. t = Text(FALSE, <<Block(w, Width(w))>>, <<>>)
            BY <1>2, <1>4, <1>5, Zenon
        <3> QED
            BY <3>1 DEF Text
    <2>2. CoefficientBp(t) = Read(w * 100)
        BY <1>1, <2>1, WholePercent
    <2> QED
        BY <1>1, <1>5, <2>2 DEF t
<1>6. CASE r # 0 /\ r % 10 = 0
    <2> DEFINE b == Block(r \div 10, 1)
    <2>1. t.blocks = <<Block(w, Width(w)), b>> /\ t.marks = <<Comma>> /\ t.minus = FALSE
        <3>1. t = Text(FALSE, <<Block(w, Width(w)), b>>, <<Comma>>)
            BY <1>2, <1>4, <1>6, Zenon
        <3> QED
            BY <3>1 DEF Text
    <2>2. b \in DigitBlocks /\ b.value = r \div 10 /\ b.width = 1
        BY <1>1 DEF Block, DigitBlocks
    <2> HIDE DEF b
    <2>3. CoefficientBp(t) = Read(w * 100 + b.value * Power(2 - b.width))
        <3>1. w \in Nat /\ b \in DigitBlocks
            BY <1>1, <2>2
        <3> QED
            BY <1>3, <2>1, <3>1, FractionPercent
    <2>4. b.value * Power(2 - b.width) = r
        BY <1>1, <1>6, <2>2 DEF Power
    <2> QED
        BY <1>1, <2>3, <2>4 DEF t
<1>7. CASE r # 0 /\ r % 10 # 0
    <2> DEFINE b == Block(r, 2)
    <2>1. t.blocks = <<Block(w, Width(w)), b>> /\ t.marks = <<Comma>> /\ t.minus = FALSE
        <3>1. t = Text(FALSE, <<Block(w, Width(w)), b>>, <<Comma>>)
            BY <1>2, <1>4, <1>7, Zenon
        <3> QED
            BY <3>1 DEF Text
    <2>2. b \in DigitBlocks /\ b.value = r /\ b.width = 2
        BY <1>1 DEF Block, DigitBlocks
    <2> HIDE DEF b
    <2>3. CoefficientBp(t) = Read(w * 100 + b.value * Power(2 - b.width))
        <3>1. w \in Nat /\ b \in DigitBlocks
            BY <1>1, <2>2
        <3> QED
            BY <1>3, <2>1, <3>1, FractionPercent
    <2>4. b.value * Power(2 - b.width) = r
        BY <1>1, <2>2 DEF Power
    <2> QED
        BY <1>1, <2>3, <2>4 DEF t
<1> QED
    BY <1>5, <1>6, <1>7

LEMMA PercentReadBack ==
    ASSUME NEW bp \in Nat PROVE CoefficientBp(FormatBpAsPercent(bp)) = Read(bp)
BY PercentReads, Zenon

LEMMA BlankUnread == WellMade(Blank) /\ ~ParseEur(Blank).read /\ Figure(Blank) = None
<1>1. Blank.blocks = <<>> /\ Blank.marks = <<>>
    BY DEF Blank, Text
<1>2. Len(Blank.blocks) = 0 /\ Blank.blocks \in Seq(DigitBlocks)
    BY <1>1
<1>3. WellMade(Blank)
    <2>1. DOMAIN <<>> = 1 .. 0 - 1
        OBVIOUS
    <2> QED
        BY <1>1, <1>2, <2>1 DEF WellMade
<1>4. DecimalMarks(Blank) = {}
    <2>1. \A here : Marked(Blank, here) = {}
        BY <1>1, NoMark
    <2> QED
        BY <2>1, Zenon DEF DecimalMarks
<1>5. Joined(Blank.blocks, 1, 0) = Block(0, 0)
    <2>1. 1 \in Nat \ {0} /\ 0 \in 0 .. Len(Blank.blocks) /\ 0 \in Nat /\ 0 \in 0 .. 0 /\ 0 < 1
        BY <1>2
    <2>2. PICK f : Joins(f, Blank.blocks, 1, 0)
        BY <1>2, <2>1, JoinsExist
    <2>3. Joined(Blank.blocks, 1, 0) = f[0]
        BY <1>2, <2>1, <2>2, JoinedIs
    <2> QED
        BY <2>1, <2>2, <2>3 DEF Joins
<1>6. Block(0, 0).width = 0
    BY DEF Block
<1>7. ParseEur(Blank) = Unreadable
    BY <1>2, <1>4, <1>5, <1>6, Zenon DEF ParseEur
<1>8. ~ParseEur(Blank).read
    BY <1>7 DEF Unreadable
<1> QED
    BY <1>3, <1>8 DEF Figure

LEMMA AtMostOne ==
    ASSUME NEW S, IsFiniteSet(S), ~(Cardinality(S) > 1) PROVE S = {} \/ \E x : S = {x}
<1>1. Cardinality(S) \in Nat
    BY FS_CardinalityType
<1>2. ASSUME NEW x \in S PROVE S = {x}
    <2>1. IsFiniteSet(S \ {x}) /\ Cardinality(S \ {x}) = Cardinality(S) - 1
        BY FS_RemoveElement
    <2>2. Cardinality(S) # 0
        BY FS_EmptySet
    <2>3. Cardinality(S \ {x}) = 0
        BY <1>1, <2>1, <2>2
    <2>4. S \ {x} = {}
        BY <2>1, <2>3, FS_EmptySet
    <2> QED
        BY <2>4
<1> QED
    BY <1>2

LEMMA FigureKind ==
    ASSUME NEW t, WellMade(t) PROVE Figure(t) = None \/ Figure(t) \in Int
<1> DEFINE decimal == DecimalMarks(t)
           count == Len(t.blocks)
           split == IF decimal = {} THEN count ELSE Max(decimal)
           whole == Joined(t.blocks, 1, split)
           fraction == Joined(t.blocks, split + 1, count)
           cents == whole.value * 100 + fraction.value * Power(2 - fraction.width)
<1>1. t.blocks \in Seq(DigitBlocks) /\ count \in Nat /\ DOMAIN t.marks = 1 .. count - 1
    BY DEF WellMade
<1>2. ParseEur(t) = IF \/ Cardinality(decimal) > 1
                       \/ whole.width = 0
                       \/ fraction.width > 2
                       \/ decimal # {} /\ fraction.width = 0
                    THEN Unreadable
                    ELSE Read(IF t.minus THEN -cents ELSE cents)
    BY Zenon DEF ParseEur
<1>3. decimal \subseteq DOMAIN t.marks
    BY Zenon DEF DecimalMarks, Marked
<1>4. CASE Cardinality(decimal) > 1
    <2>1. ParseEur(t) = Unreadable
        BY <1>2, <1>4, Zenon
    <2> QED
        BY <2>1 DEF Figure, Unreadable
<1>5. CASE ~(Cardinality(decimal) > 1)
    <2>1. decimal = {} \/ \E x : decimal = {x}
        <3>1. IsFiniteSet(1 .. count - 1)
            BY <1>1, FS_Interval
        <3>2. IsFiniteSet(decimal)
            BY <1>1, <1>3, <3>1, FS_Subset
        <3> HIDE DEF decimal
        <3> QED
            BY <1>5, <3>2, AtMostOne
    <2>2. split \in 0 .. count
        <3>1. CASE decimal = {}
            BY <1>1, <3>1
        <3>2. CASE decimal # {}
            <4>1. PICK x : decimal = {x}
                BY <2>1, <3>2
            <4>2. x \in 1 .. count - 1
                BY <1>1, <1>3, <4>1
            <4>3. Max({x}) = x
                BY <4>2, LargestOfOne
            <4> HIDE DEF decimal
            <4> QED
                BY <1>1, <4>1, <4>2, <4>3
        <3> QED
            BY <3>1, <3>2
    <2> HIDE DEF decimal, split
    <2>3. 1 \in Nat \ {0} /\ split + 1 \in Nat \ {0} /\ split \in 0 .. Len(t.blocks) /\ count \in 0 .. Len(t.blocks)
        BY <1>1, <2>2
    <2>4. whole \in DigitBlocks
        BY <1>1, <2>3, JoinedIsDigits
    <2>5. fraction \in DigitBlocks
        BY <1>1, <2>3, JoinedIsDigits
    <2> HIDE DEF whole, fraction
    <2>6. fraction.value * Power(2 - fraction.width) \in Int
        BY <2>5, ScaledInt DEF DigitBlocks
    <2>7. cents \in Int
        BY <2>4, <2>6 DEF DigitBlocks
    <2> HIDE DEF cents
    <2>8. (IF t.minus THEN -cents ELSE cents) \in Int
        BY <2>7
    <2>9. ParseEur(t) = Unreadable \/ ParseEur(t) = Read(IF t.minus THEN -cents ELSE cents)
        BY <1>2, Zenon
    <2> QED
        BY <2>8, <2>9 DEF Figure, Read, Unreadable
<1> QED
    BY <1>4, <1>5

(***************************************************************************)
(* A tax number without its marks.                                         *)
(***************************************************************************)
LEMMA AscendingOrders ==
    ASSUME NEW S, S \subseteq Int PROVE Orders({p \in S \X S : p[1] < p[2]}, S)
<1> DEFINE less == {p \in S \X S : p[1] < p[2]}
<1>1. \A i, j \in S : <<i, j>> \in less <=> i < j
    OBVIOUS
<1> HIDE DEF less
<1>2. Orders(less, S)
    BY <1>1 DEF Orders
<1> QED
    BY <1>2 DEF less

LEMMA CountedUp ==
    ASSUME NEW n \in Nat PROVE InOrder(1 .. n) = [k \in 1 .. n |-> k]
<1> DEFINE S == 1 .. n
           less == {p \in S \X S : p[1] < p[2]}
           below(i) == {j \in S : <<j, i>> \in less}
<1>1. Cardinality(S) = n
    BY FS_Interval
<1>2. ASSUME NEW i \in S PROVE Cardinality(below(i)) = i - 1
    <2>1. below(i) = 1 .. i - 1
        OBVIOUS
    <2>2. 1 \in Int /\ i - 1 \in Int /\ i >= 1
        OBVIOUS
    <2>3. Cardinality(1 .. i - 1) = IF 1 > i - 1 THEN 0 ELSE (i - 1) - 1 + 1
        BY <2>2, FS_Interval
    <2>4. (IF 1 > i - 1 THEN 0 ELSE (i - 1) - 1 + 1) = i - 1
        BY <2>2
    <2> QED
        BY <2>1, <2>3, <2>4, Zenon
<1>3. InOrder(S) = [k \in 1 .. Cardinality(S) |-> CHOOSE i \in S : Cardinality(below(i)) = k - 1]
    BY Zenon DEF InOrder, Enumerated
<1> HIDE DEF below
<1>4. ASSUME NEW k \in S PROVE (CHOOSE i \in S : Cardinality(below(i)) = k - 1) = k
    <2>1. \A i \in S : Cardinality(below(i)) = k - 1 => i = k
        BY <1>2
    <2>2. Cardinality(below(k)) = k - 1
        BY <1>2
    <2> DEFINE c == CHOOSE i \in S : Cardinality(below(i)) = k - 1
    <2> HIDE DEF S
    <2>3. c \in S /\ Cardinality(below(c)) = k - 1
        BY <2>2, Zenon
    <2> QED
        BY <2>1, <2>3, Zenon
<1>5. InOrder(S) = [k \in S |-> CHOOSE i \in S : Cardinality(below(i)) = k - 1]
    BY <1>1, <1>3
<1> HIDE DEF S
<1>6. InOrder(S) = [k \in S |-> k]
    BY <1>4, <1>5, Zenon
<1> QED
    BY <1>6 DEF S

LEMMA NormalisedTwice ==
    ASSUME NEW A, NEW text \in Seq(A)
    PROVE  NormaliseNif(NormaliseNif(text)) = NormaliseNif(text)
<1> DEFINE P == {i \in DOMAIN text : text[i] # Mark}
           order == InOrder(P)
           n == Cardinality(P)
           t == NormaliseNif(text)
<1>1. IsFiniteSet(P) /\ P \subseteq Int
    <2>1. DOMAIN text = 1 .. Len(text) /\ Len(text) \in Nat
        OBVIOUS
    <2>2. IsFiniteSet(1 .. Len(text))
        BY <2>1, FS_Interval
    <2>3. P \subseteq 1 .. Len(text)
        BY <2>1
    <2>4. IsFiniteSet(P)
        BY <2>2, <2>3, FS_Subset
    <2> QED
        BY <2>3, <2>4
<1>2. n \in Nat /\ DOMAIN order = 1 .. n /\ \A k \in DOMAIN order : order[k] \in P
    <2> HIDE DEF P
    <2>1. Orders({p \in P \X P : p[1] < p[2]}, P)
        BY <1>1, AscendingOrders
    <2> QED
        BY <1>1, <2>1, InRanks DEF InOrder
<1> HIDE DEF order
<1>3. t = [k \in 1 .. n |-> text[order[k]]]
    BY <1>2 DEF NormaliseNif, At, order
<1>4. DOMAIN t = 1 .. n /\ \A k \in 1 .. n : t[k] # Mark
    BY <1>2, <1>3
<1> HIDE DEF t
<1>5. {i \in DOMAIN t : t[i] # Mark} = 1 .. n
    BY <1>4
<1>6. InOrder(1 .. n) = [k \in 1 .. n |-> k]
    BY <1>2, CountedUp
<1>7. NormaliseNif(t) = [k \in 1 .. n |-> t[k]]
    <2> DEFINE up == InOrder(1 .. n)
    <2>1. NormaliseNif(t) = [k \in DOMAIN up |-> t[up[k]]]
        BY <1>5, Zenon DEF NormaliseNif, At
    <2>2. DOMAIN up = 1 .. n /\ \A k \in 1 .. n : up[k] = k
        BY <1>6
    <2> HIDE DEF up
    <2> QED
        BY <2>1, <2>2
<1>8. t = [k \in 1 .. n |-> t[k]]
    BY <1>3, <1>4
<1> QED
    BY <1>7, <1>8 DEF t

LEMMA ValidTwice ==
    ASSUME NEW text, NormaliseNif(NormaliseNif(text)) = NormaliseNif(text)
    PROVE  IsValidPtTaxNumber(NormaliseNif(text)) = IsValidPtTaxNumber(text)
BY Zenon DEF IsValidPtTaxNumber

(***************************************************************************)
(* The fields of a profile that is built from a draft.                     *)
(***************************************************************************)
Drafted ==
    {"nif", "name", "ivaRegime", "irsRegime", "startDate", "trackingStart", "turnoverPrevious",
     "turnoverExpected", "categoryB", "residentPt", "isCompany", "startupExemption", "coefficientBp"}

Laid(current, field, otherwise) ==
    IF current = None \/ current[field] = None THEN otherwise ELSE current[field]

LEMMA DraftIs ==
    ASSUME NEW f
    PROVE  LET d == ToDraft(f)
           IN  /\ DOMAIN d = Drafted
               /\ d.nif = f.nif /\ d.name = f.name /\ d.ivaRegime = f.ivaRegime
               /\ d.irsRegime = f.irsRegime /\ d.startDate = f.startDate
               /\ d.trackingStart = f.trackingStart
               /\ d.turnoverPrevious = Figure(f.turnoverPrevious)
               /\ d.turnoverExpected = Figure(f.turnoverExpected)
               /\ d.categoryB = f.categoryB /\ d.residentPt = f.residentPt /\ d.isCompany = FALSE
               /\ d.startupExemption = f.startupExemption
               /\ d.coefficientBp = CoefficientBp(f.coefficient).value
BY DEF ToDraft, Drafted

LEMMA BuiltFields ==
    ASSUME NEW d, DOMAIN d = Drafted, NEW current
    PROVE  LET b == BuildProfile(d, current)
           IN  /\ b = [field \in ProfileFields |-> b[field]]
               /\ b.nif = NormaliseNif(d.nif)
               /\ b.trackingStart = IF d.trackingStart # None THEN d.trackingStart
                                    ELSE Laid(current, "trackingStart", None)
               /\ \A field \in Drafted \ {"nif", "trackingStart"} : b[field] = d[field]
               /\ b.firstActivity = Laid(current, "firstActivity", d.startDate)
               /\ b.cae = IF Laid(current, "cae", "empty") = "empty" THEN "principal" ELSE current.cae
               /\ \A field \in Undrafted \ {"firstActivity", "cae"} :
                     b[field] = Laid(current, field, Defaults[field])
<1> DEFINE b == BuildProfile(d, current)
           x == NormaliseNif(d.nif)
           y == IF d.trackingStart # None THEN d.trackingStart ELSE Laid(current, "trackingStart", None)
           e == [d EXCEPT !.nif = x, !.trackingStart = y]
           carried == [field \in Undrafted |->
              CASE field = "firstActivity" -> Laid(current, field, d.startDate)
                [] field = "cae" -> IF Laid(current, field, "empty") = "empty"
                                    THEN Defaults.cae ELSE current.cae
                [] OTHER -> Laid(current, field, Defaults[field])]
<1>1. b = [field \in DOMAIN e \union Undrafted |-> IF field \in DOMAIN e THEN e[field] ELSE carried[field]]
    BY DEF BuildProfile, Laid, Drafted
<1> HIDE DEF x, y, carried, b
<1>2. /\ DOMAIN e = Drafted /\ e.nif = x /\ e.trackingStart = y
      /\ \A field \in Drafted \ {"nif", "trackingStart"} : e[field] = d[field]
    BY DEF Drafted
<1>3. Drafted \union Undrafted = ProfileFields /\ \A field \in Undrafted : field \notin Drafted
    BY DEF Drafted, Undrafted, ProfileFields
<1> HIDE DEF e
<1>4. b = [field \in ProfileFields |-> IF field \in Drafted THEN e[field] ELSE carried[field]]
    BY <1>1, <1>2, <1>3, Zenon
<1>5. \A field \in Drafted : field \in ProfileFields /\ b[field] = e[field]
    BY <1>3, <1>4
<1>6. \A field \in Undrafted : field \in ProfileFields /\ b[field] = carried[field]
    BY <1>3, <1>4
<1>7. b = [field \in ProfileFields |-> b[field]]
    BY <1>4, Zenon
<1>8. b.nif = x /\ b.trackingStart = y /\ \A field \in Drafted \ {"nif", "trackingStart"} : b[field] = d[field]
    <2>1. "nif" \in Drafted /\ "trackingStart" \in Drafted
        BY DEF Drafted
    <2> QED
        BY <1>2, <1>5, <2>1
<1>9. /\ b.firstActivity = Laid(current, "firstActivity", d.startDate)
      /\ b.cae = IF Laid(current, "cae", "empty") = "empty" THEN "principal" ELSE current.cae
    <2>1. "firstActivity" \in Undrafted /\ "cae" \in Undrafted /\ Defaults.cae = "principal"
        BY DEF Undrafted, Defaults
    <2> QED
        BY <1>6, <2>1 DEF carried
<1>10. \A field \in Undrafted \ {"firstActivity", "cae"} : b[field] = Laid(current, field, Defaults[field])
    BY <1>6 DEF carried
<1> QED
    BY <1>7, <1>8, <1>9, <1>10 DEF b, x, y

LEMMA SharesAreNatural == Shares \subseteq Nat
BY DEF Shares

LEMMA OpenedFields ==
    ASSUME NEW p, p # None
    PROVE  LET t == FromProfile(p)
           IN  /\ t.coefficient = FormatBpAsPercent(p.coefficientBp)
               /\ \A field \in {"turnoverPrevious", "turnoverExpected"} :
                     t[field] = IF p[field] = None THEN Blank ELSE FormatEur(p[field])
               /\ \A field \in {"nif", "name", "startDate", "trackingStart", "ivaRegime", "irsRegime",
                                "residentPt", "categoryB", "startupExemption"} : t[field] = p[field]
<1> DEFINE D == DOMAIN DefaultForm
           t == FromProfile(p)
<1>1. D = {"nif", "name", "startDate", "trackingStart", "ivaRegime", "irsRegime", "coefficient",
           "turnoverPrevious", "turnoverExpected", "residentPt", "categoryB", "startupExemption"}
    BY DEF DefaultForm
<1>2. t = [field \in D |->
            CASE field = "coefficient" -> FormatBpAsPercent(p.coefficientBp)
              [] field \in {"turnoverPrevious", "turnoverExpected"} ->
                    IF p[field] = None THEN Blank ELSE FormatEur(p[field])
              [] OTHER -> p[field]]
    BY Zenon DEF FromProfile
<1> HIDE DEF t, D
<1>3. t.coefficient = FormatBpAsPercent(p.coefficientBp)
    BY <1>1, <1>2
<1>4. \A field \in {"turnoverPrevious", "turnoverExpected"} :
         t[field] = IF p[field] = None THEN Blank ELSE FormatEur(p[field])
    BY <1>1, <1>2
<1>5. \A field \in {"nif", "name", "startDate", "trackingStart", "ivaRegime", "irsRegime",
                    "residentPt", "categoryB", "startupExemption"} : t[field] = p[field]
    BY <1>1, <1>2
<1> QED
    BY <1>3, <1>4, <1>5 DEF t

LEMMA FigureOpened ==
    ASSUME NEW x, x = None \/ x \in Int
    PROVE  LET text == IF x = None THEN Blank ELSE FormatEur(x)
           IN  /\ WellMade(text) /\ Figure(text) = x
               /\ text = Blank \/ ParseEur(text).read
<1>1. CASE x = None
    BY <1>1, BlankUnread
<1>2. CASE x # None
    <2>1. ParseEur(FormatEur(x)) = Read(x) /\ WellMade(FormatEur(x))
        BY <1>2, AmountReadBack
    <2>2. ParseEur(FormatEur(x)).read /\ ParseEur(FormatEur(x)).value = x
        BY <2>1 DEF Read
    <2> QED
        BY <1>2, <2>1, <2>2 DEF Figure
<1> QED
    BY <1>1, <1>2

LEMMA NothingWrong ==
    ASSUME NEW p, p # None, Stored(p) PROVE FormProblems(FromProfile(p)) = {}
<1> DEFINE t == FromProfile(p)
<1>1. t.nif = p.nif /\ t.name = p.name /\ t.startDate = p.startDate /\ t.trackingStart = p.trackingStart
    BY OpenedFields
<1>2. ~(~IsValidPtTaxNumber(t.nif)) /\ t.name # Unnamed /\ t.trackingStart # Garbled
    BY <1>1 DEF Stored
<1>3. IsIsoShape(t.startDate)
    <2>1. p.startDate # Garbled /\ p.startDate # None
        BY DEF Stored, ProfileFields, Optional, Undrafted
    <2> QED
        BY <1>1, <2>1 DEF IsIsoShape
<1>4. CoefficientBp(t.coefficient).read /\ CoefficientBp(t.coefficient).value \in Shares
    <2>1. p.coefficientBp \in Shares /\ p.coefficientBp \in Nat
        BY SharesAreNatural DEF Stored
    <2>2. CoefficientBp(t.coefficient) = Read(p.coefficientBp)
        BY <2>1, OpenedFields, PercentReadBack
    <2> DEFINE r == CoefficientBp(t.coefficient)
    <2>3. r.read = TRUE /\ r.value = p.coefficientBp
        BY <2>2 DEF Read
    <2> HIDE DEF r
    <2> QED
        BY <2>1, <2>3 DEF r
<1>5. ASSUME NEW field \in {"turnoverPrevious", "turnoverExpected"}
      PROVE  t[field] = Blank \/ ParseEur(t[field]).read
    <2>1. p[field] = None \/ p[field] \in Int
        BY DEF Stored
    <2>2. t[field] = IF p[field] = None THEN Blank ELSE FormatEur(p[field])
        BY OpenedFields
    <2> QED
        BY <2>1, <2>2, FigureOpened
<1> HIDE DEF t
<1>6. FormProblems(t) = {}
    <2> DEFINE read == CoefficientBp(t.coefficient)
               figures == {field \in {"turnoverPrevious", "turnoverExpected"} :
                              t[field] # Blank /\ ~ParseEur(t[field]).read}
               bad == ~read.read \/ read.value \notin Shares
    <2>1. FormProblems(t) =
             Raised(~IsValidPtTaxNumber(t.nif), "nif") \union Raised(t.name = Unnamed, "name") \union
             Raised(~IsIsoShape(t.startDate), "startDate") \union
             Raised(t.trackingStart = Garbled, "trackingStart") \union
             Raised(bad, "coefficient") \union figures
        BY DEF FormProblems
    <2>2. figures = {} /\ ~bad
        BY <1>4, <1>5
    <2> HIDE DEF figures, bad
    <2>3. /\ Raised(~IsValidPtTaxNumber(t.nif), "nif") = {} /\ Raised(t.name = Unnamed, "name") = {}
          /\ Raised(~IsIsoShape(t.startDate), "startDate") = {}
          /\ Raised(t.trackingStart = Garbled, "trackingStart") = {} /\ Raised(bad, "coefficient") = {}
        BY <1>2, <1>3, <2>2 DEF Raised
    <2> QED
        BY <2>1, <2>2, <2>3
<1> QED
    BY <1>6 DEF t

LEMMA SavedUntouched ==
    ASSUME NEW p, p # None, Stored(p), ~p.isCompany
    PROVE  BuildProfile(ToDraft(FromProfile(p)), p) = p
<1> DEFINE t == FromProfile(p)
           d == ToDraft(t)
           b == BuildProfile(d, p)
<1>1. /\ p = [field \in ProfileFields |-> p[field]]
      /\ \A field \in ProfileFields \ Optional : p[field] # None
      /\ NormaliseNif(p.nif) = p.nif /\ p.cae # "empty" /\ p.coefficientBp \in Shares
      /\ \A field \in {"turnoverPrevious", "turnoverExpected"} : p[field] = None \/ p[field] \in Int
      /\ p.isCompany = FALSE
    BY DEF Stored
<1>2. DOMAIN d = Drafted
    BY DraftIs
<1>3. /\ b = [field \in ProfileFields |-> b[field]]
      /\ b.nif = NormaliseNif(d.nif)
      /\ b.trackingStart = IF d.trackingStart # None THEN d.trackingStart
                           ELSE Laid(p, "trackingStart", None)
      /\ \A field \in Drafted \ {"nif", "trackingStart"} : b[field] = d[field]
      /\ b.firstActivity = Laid(p, "firstActivity", d.startDate)
      /\ b.cae = IF Laid(p, "cae", "empty") = "empty" THEN "principal" ELSE p.cae
      /\ \A field \in Undrafted \ {"firstActivity", "cae"} : b[field] = Laid(p, field, Defaults[field])
    <2> HIDE DEF d
    <2> QED
        BY <1>2, BuiltFields
<1>4. /\ d.nif = p.nif /\ d.name = p.name /\ d.ivaRegime = p.ivaRegime
      /\ d.irsRegime = p.irsRegime /\ d.startDate = p.startDate
      /\ d.trackingStart = p.trackingStart
      /\ d.categoryB = p.categoryB /\ d.residentPt = p.residentPt
      /\ d.startupExemption = p.startupExemption
    <2> HIDE DEF t
    <2>1. \A field \in {"nif", "name", "startDate", "trackingStart", "ivaRegime", "irsRegime",
                        "residentPt", "categoryB", "startupExemption"} : t[field] = p[field]
        BY OpenedFields DEF t
    <2> QED
        BY <2>1, DraftIs
<1>5. d.isCompany = p.isCompany
    BY <1>1, DraftIs
<1>6. d.turnoverPrevious = p.turnoverPrevious /\ d.turnoverExpected = p.turnoverExpected
    <2>1. ASSUME NEW field \in {"turnoverPrevious", "turnoverExpected"} PROVE Figure(t[field]) = p[field]
        <3>1. t[field] = IF p[field] = None THEN Blank ELSE FormatEur(p[field])
            BY OpenedFields
        <3> QED
            BY <1>1, <3>1, FigureOpened
    <2> HIDE DEF t
    <2> QED
        BY <2>1, DraftIs
<1>7. d.coefficientBp = p.coefficientBp
    <2>3. p.coefficientBp \in Nat
        BY <1>1, SharesAreNatural
    <2>1. CoefficientBp(t.coefficient) = Read(p.coefficientBp)
        BY <2>3, OpenedFields, PercentReadBack
    <2>2. d.coefficientBp = CoefficientBp(t.coefficient).value
        BY DraftIs
    <2> HIDE DEF t, d
    <2> QED
        BY <2>1, <2>2 DEF Read
<1> HIDE DEF t, d, b
<1>8. \A field \in Drafted \ {"nif", "trackingStart"} : b[field] = p[field]
    BY <1>3, <1>4, <1>5, <1>6, <1>7 DEF Drafted
<1>9. b.nif = p.nif /\ b.trackingStart = p.trackingStart
    BY <1>1, <1>3, <1>4 DEF Laid
<1>10. p.firstActivity # None /\ p.cae # None
    BY <1>1 DEF ProfileFields, Optional, Undrafted
<1>11. b.firstActivity = p.firstActivity /\ b.cae = p.cae
    BY <1>1, <1>3, <1>10 DEF Laid
<1>12. ASSUME NEW field \in Undrafted \ {"firstActivity", "cae"} PROVE b[field] = p[field]
    <2>1. field # "above50k" => p[field] # None
        BY <1>1 DEF ProfileFields, Optional, Undrafted
    <2>2. Defaults.above50k = None
        BY DEF Defaults
    <2> QED
        BY <1>3, <2>1, <2>2 DEF Laid
<1>13. \A field \in ProfileFields : b[field] = p[field]
    BY <1>8, <1>9, <1>11, <1>12 DEF ProfileFields, Drafted
<1>14. b = p
    BY <1>1, <1>3, <1>13, Zenon
<1> QED
    BY <1>14 DEF b, d, t

(***************************************************************************)
(* The vault only ever holds a profile that a draft was built into.        *)
(***************************************************************************)
NoneIsItself ==
    NoneIsApart /\ None \notin Int \union {Unnamed, "principal", "simplificado", Garbled}

Filled(f) ==
    /\ NormaliseNif(NormaliseNif(f.nif)) = NormaliseNif(f.nif)
    /\ WellMade(f.turnoverPrevious) /\ WellMade(f.turnoverExpected)
    /\ \A field \in {"name", "irsRegime", "residentPt", "categoryB", "startupExemption"} :
          f[field] # None

KeptInv == (profile # None => Stored(profile)) /\ (form # None => Filled(form))

LEMMA NothingRaised ==
    ASSUME NEW f, FormProblems(f) = {}
    PROVE  /\ IsValidPtTaxNumber(f.nif) /\ f.name # Unnamed /\ IsIsoShape(f.startDate)
           /\ f.trackingStart # Garbled /\ CoefficientBp(f.coefficient).value \in Shares
<1> DEFINE figures == {field \in {"turnoverPrevious", "turnoverExpected"} :
                          f[field] # Blank /\ ~ParseEur(f[field]).read}
           read == CoefficientBp(f.coefficient)
           bad == ~read.read \/ read.value \notin Shares
<1>1. FormProblems(f) =
         Raised(~IsValidPtTaxNumber(f.nif), "nif") \union Raised(f.name = Unnamed, "name") \union
         Raised(~IsIsoShape(f.startDate), "startDate") \union
         Raised(f.trackingStart = Garbled, "trackingStart") \union
         Raised(bad, "coefficient") \union figures
    BY DEF FormProblems
<1> HIDE DEF figures, bad
<1>2. /\ Raised(~IsValidPtTaxNumber(f.nif), "nif") = {} /\ Raised(f.name = Unnamed, "name") = {}
      /\ Raised(~IsIsoShape(f.startDate), "startDate") = {}
      /\ Raised(f.trackingStart = Garbled, "trackingStart") = {} /\ Raised(bad, "coefficient") = {}
    BY <1>1
<1>3. ASSUME NEW c, NEW q, Raised(c, q) = {} PROVE ~c
    BY <1>3 DEF Raised
<1>4. IsValidPtTaxNumber(f.nif)
    BY <1>2, <1>3, Zenon
<1>5. f.name # Unnamed
    BY <1>2, <1>3, Zenon
<1>6. IsIsoShape(f.startDate)
    BY <1>2, <1>3, Zenon
<1>7. f.trackingStart # Garbled
    BY <1>2, <1>3, Zenon
<1>8. ~bad
    BY <1>2, <1>3, Zenon
<1> QED
    BY <1>4, <1>5, <1>6, <1>7, <1>8 DEF bad

LEMMA SomeLaid ==
    ASSUME NEW current, NEW field, NEW otherwise, otherwise # None
    PROVE  Laid(current, field, otherwise) # None
BY DEF Laid

LEMMA BuiltStored ==
    ASSUME NoneIsItself, NEW f, Filled(f), f.ivaRegime \in IvaRegimes, FormProblems(f) = {},
           NEW current, current # None => Stored(current)
    PROVE  Stored(BuildProfile(ToDraft(f), current))
<1> DEFINE d == ToDraft(f)
           b == BuildProfile(d, current)
<1>1. /\ IsValidPtTaxNumber(f.nif) /\ f.name # Unnamed /\ IsIsoShape(f.startDate)
      /\ f.trackingStart # Garbled /\ CoefficientBp(f.coefficient).value \in Shares
    BY NothingRaised
<1>2. /\ DOMAIN d = Drafted
      /\ d.nif = f.nif /\ d.name = f.name /\ d.ivaRegime = f.ivaRegime
      /\ d.irsRegime = f.irsRegime /\ d.startDate = f.startDate
      /\ d.trackingStart = f.trackingStart
      /\ d.turnoverPrevious = Figure(f.turnoverPrevious)
      /\ d.turnoverExpected = Figure(f.turnoverExpected)
      /\ d.categoryB = f.categoryB /\ d.residentPt = f.residentPt /\ d.isCompany = FALSE
      /\ d.startupExemption = f.startupExemption
      /\ d.coefficientBp = CoefficientBp(f.coefficient).value
    BY DraftIs
<1> HIDE DEF d
<1>3. /\ b = [field \in ProfileFields |-> b[field]]
      /\ b.nif = NormaliseNif(d.nif)
      /\ b.trackingStart = IF d.trackingStart # None THEN d.trackingStart
                           ELSE Laid(current, "trackingStart", None)
      /\ \A field \in Drafted \ {"nif", "trackingStart"} : b[field] = d[field]
      /\ b.firstActivity = Laid(current, "firstActivity", d.startDate)
      /\ b.cae = IF Laid(current, "cae", "empty") = "empty" THEN "principal" ELSE current.cae
      /\ \A field \in Undrafted \ {"firstActivity", "cae"} : b[field] = Laid(current, field, Defaults[field])
    BY <1>2, BuiltFields
<1> HIDE DEF b
<1>4. IsValidPtTaxNumber(b.nif) /\ NormaliseNif(b.nif) = b.nif
    <2>1. NormaliseNif(NormaliseNif(f.nif)) = NormaliseNif(f.nif)
        BY Zenon DEF Filled
    <2>2. IsValidPtTaxNumber(NormaliseNif(f.nif))
        BY <1>1, <2>1, ValidTwice
    <2>3. b.nif = NormaliseNif(f.nif)
        BY <1>2, <1>3
    <2> QED
        BY <2>1, <2>2, <2>3
<1>5. b.nif # None
    <2>1. b.nif = [x \in DOMAIN b.nif |-> b.nif[x]]
        <3>1. b.nif = NormaliseNif(b.nif)
            BY <1>4
        <3>2. \A t : NormaliseNif(t) = [x \in DOMAIN NormaliseNif(t) |-> NormaliseNif(t)[x]]
            BY Zenon DEF NormaliseNif, At
        <3> QED
            BY <3>1, <3>2, Zenon
    <2>2. None # [x \in DOMAIN None |-> None[x]]
        BY Zenon DEF NoneIsItself, NoneIsApart, NoneIsNoFunction
    <2> QED
        BY <2>1, <2>2, Zenon
<1>6. b.cae # "empty" /\ b.cae # None
    <2>1. None # "principal"
        BY DEF NoneIsItself
    <2> QED
        BY <1>3, <2>1 DEF Laid
<1>7. b.startDate = f.startDate /\ f.startDate # None /\ f.startDate # Garbled
    BY <1>1, <1>2, <1>3 DEF IsIsoShape, Drafted
<1>8. b.trackingStart # Garbled
    <2>1. None # Garbled
        BY DEF NoneIsItself
    <2>2. Laid(current, "trackingStart", None) # Garbled
        BY <2>1 DEF Laid, Stored
    <2> QED
        BY <1>1, <1>2, <1>3, <2>2
<1>9. b.firstActivity # None
    BY <1>2, <1>3, <1>7, SomeLaid
<1>10. /\ b.name = f.name /\ b.ivaRegime = f.ivaRegime /\ b.irsRegime = f.irsRegime
       /\ b.turnoverPrevious = Figure(f.turnoverPrevious)
       /\ b.turnoverExpected = Figure(f.turnoverExpected)
       /\ b.categoryB = f.categoryB /\ b.residentPt = f.residentPt /\ b.isCompany = FALSE
       /\ b.startupExemption = f.startupExemption
       /\ b.coefficientBp = CoefficientBp(f.coefficient).value
    BY <1>2, <1>3 DEF Drafted
<1>11. f.ivaRegime # None /\ CoefficientBp(f.coefficient).value # None /\ FALSE # None /\ TRUE # None
    <2>0. \A x \in Shares : x \in Int
        BY DEF Shares
    <2>1. CoefficientBp(f.coefficient).value \in Int
        BY <1>1, <2>0, Zenon
    <2>2. None \notin Int
        BY DEF NoneIsItself
    <2>3. f.ivaRegime # None /\ FALSE # None /\ TRUE # None
        BY DEF NoneIsItself, NoneIsApart
    <2> QED
        BY <2>1, <2>2, <2>3, Zenon
<1>12. ASSUME NEW field \in Undrafted \ {"firstActivity", "cae", "above50k"} PROVE b[field] # None
    <2>1. Defaults[field] # None
        <3>1. CASE field = "certifiedSoftware"
            BY <1>11, <3>1 DEF Defaults
        <3>2. CASE field # "certifiedSoftware"
            <4>1. field \in {"intraCommunity", "exports", "hasEmployees", "atWebservice"}
                BY <3>2 DEF Undrafted
            <4>2. Defaults[field] = FALSE
                BY <4>1 DEF Defaults
            <4> QED
                BY <1>11, <4>2
        <3> QED
            BY <3>1, <3>2
    <2>2. Laid(current, field, Defaults[field]) # None
        BY <2>1, SomeLaid
    <2> QED
        BY <1>3, <2>2
<1>13. /\ f.name # None /\ f.irsRegime # None /\ f.categoryB # None /\ f.residentPt # None
       /\ f.startupExemption # None
    BY DEF Filled
<1>14. \A field \in ProfileFields \ Optional : b[field] # None
    BY <1>5, <1>6, <1>7, <1>9, <1>10, <1>11, <1>12, <1>13 DEF ProfileFields, Optional
<1>15. ASSUME NEW field \in {"turnoverPrevious", "turnoverExpected"} PROVE b[field] = None \/ b[field] \in Int
    BY <1>10, FigureKind DEF Filled
<1>16. b.name # Unnamed /\ b.startDate # Garbled /\ b.coefficientBp \in Shares /\ b.isCompany \in BOOLEAN
    <2>1. FALSE \in BOOLEAN
        OBVIOUS
    <2> QED
        BY <1>1, <1>7, <1>10, <2>1, Zenon
<1>17. b = [field \in ProfileFields |-> b[field]]
    BY <1>3
<1>18. Stored(b)
    BY <1>4, <1>6, <1>8, <1>14, <1>15, <1>16, <1>17, Zenon DEF Stored
<1> QED
    BY <1>18 DEF b, d

LEMMA OpenedFilled ==
    ASSUME NoneIsItself, NEW p, p # None => Stored(p) PROVE Filled(FromProfile(p))
<1> DEFINE t == FromProfile(p)
<1>1. CASE p = None
    <2>1. t = DefaultForm
        BY <1>1, Zenon DEF FromProfile
    <2>2. NormaliseNif(NormaliseNif(t.nif)) = NormaliseNif(t.nif)
        <3>1. t.nif = <<>>
            BY <2>1 DEF DefaultForm
        <3>2. t.nif \in Seq(Nat)
            BY <3>1
        <3> HIDE DEF t
        <3> QED
            BY <3>2, NormalisedTwice
    <2>3. t.turnoverPrevious = Blank /\ t.turnoverExpected = Blank
        BY <2>1 DEF DefaultForm
    <2>4. WellMade(Blank)
        BY FigureOpened
    <2>5. \A field \in {"name", "irsRegime", "residentPt", "categoryB", "startupExemption"} :
             t[field] # None
        <3>1. /\ t.name = Unnamed /\ t.irsRegime = "simplificado" /\ t.residentPt = TRUE
              /\ t.categoryB = TRUE /\ t.startupExemption = FALSE
            BY <2>1 DEF DefaultForm
        <3>2. None # Unnamed /\ None # "simplificado"
            BY DEF NoneIsItself
        <3>3. None # TRUE /\ None # FALSE
            BY DEF NoneIsItself, NoneIsApart
        <3> HIDE DEF t
        <3> QED
            BY <3>1, <3>2, <3>3
    <2> HIDE DEF t
    <2>6. WellMade(t.turnoverPrevious) /\ WellMade(t.turnoverExpected)
        BY <2>3, <2>4, Zenon
    <2>7. Filled(t)
        BY <2>2, <2>5, <2>6, Zenon DEF Filled
    <2> QED
        BY <2>7 DEF t
<1>2. CASE p # None
    <2>1. Stored(p)
        BY <1>2
    <2>2. \A field \in {"nif", "name", "irsRegime", "residentPt", "categoryB", "startupExemption"} :
             t[field] = p[field]
        BY <1>2, OpenedFields
    <2>3. \A field \in {"name", "irsRegime", "residentPt", "categoryB", "startupExemption"} :
             p[field] # None
        BY <2>1 DEF Stored, ProfileFields, Optional
    <2>4. NormaliseNif(p.nif) = p.nif
        BY <2>1 DEF Stored
    <2>5. ASSUME NEW field \in {"turnoverPrevious", "turnoverExpected"} PROVE WellMade(t[field])
        <3>1. p[field] = None \/ p[field] \in Int
            BY <2>1 DEF Stored
        <3>2. t[field] = IF p[field] = None THEN Blank ELSE FormatEur(p[field])
            BY <1>2, OpenedFields
        <3> QED
            BY <3>1, <3>2, FigureOpened
    <2>6. t.nif = p.nif
        BY <2>2
    <2> HIDE DEF t
    <2>7. NormaliseNif(NormaliseNif(t.nif)) = NormaliseNif(t.nif)
        BY <2>4, <2>6, Zenon
    <2>8. \A field \in {"name", "irsRegime", "residentPt", "categoryB", "startupExemption"} :
             t[field] # None
        BY <2>2, <2>3
    <2>9. WellMade(t.turnoverPrevious) /\ WellMade(t.turnoverExpected)
        BY <2>5
    <2>10. Filled(t)
        BY <2>7, <2>8, <2>9, Zenon DEF Filled
    <2> QED
        BY <2>10 DEF t
<1> QED
    BY <1>1, <1>2

LEMMA TypedFilled ==
    ASSUME NEW f, Filled(f), DOMAIN f = DOMAIN DefaultForm,
           NEW field \in DOMAIN Typed, NEW text \in Typed[field]
    PROVE  Filled([f EXCEPT ![field] = text])
<1> DEFINE g == [f EXCEPT ![field] = text]
           named == {"name", "irsRegime", "residentPt", "categoryB", "startupExemption"}
<1>1. named \union {"nif", "turnoverPrevious", "turnoverExpected"} \subseteq DOMAIN f
    BY DEF DefaultForm
<1>2. \A other \in DOMAIN f : g[other] = IF other = field THEN text ELSE f[other]
    OBVIOUS
<1> HIDE DEF g
<1>3. NormaliseNif(NormaliseNif(g.nif)) = NormaliseNif(g.nif)
    <2>1. CASE field = "nif"
        <3>1. text \in Seq(0 .. 9 \union {Mark}) /\ g.nif = text
            BY <1>1, <1>2, <2>1, TypedAssumption
        <3> QED
            BY <3>1, NormalisedTwice
    <2>2. CASE field # "nif"
        <3>1. g.nif = f.nif
            BY <1>1, <1>2, <2>2
        <3> QED
            BY <3>1, Zenon DEF Filled
    <2> QED
        BY <2>1, <2>2
<1>4. ASSUME NEW figure \in {"turnoverPrevious", "turnoverExpected"} PROVE WellMade(g[figure])
    BY <1>1, <1>2, TypedAssumption DEF Filled
<1>5. ASSUME NEW other \in named PROVE g[other] # None
    BY <1>1, <1>2, TypedAssumption DEF Filled
<1>6. WellMade(g.turnoverPrevious) /\ WellMade(g.turnoverExpected)
    BY <1>4
<1>7. Filled(g)
    BY <1>3, <1>5, <1>6, Zenon DEF Filled
<1> QED
    BY <1>7 DEF g

LEMMA KeptKept ==
    ASSUME NoneIsItself PROVE KeptInv /\ ScreenInv /\ Regimes /\ [Next]_vars => KeptInv'
<1> SUFFICES ASSUME KeptInv, ScreenInv, Regimes, [Next]_vars PROVE KeptInv'
    OBVIOUS
<1>1. CASE UNCHANGED <<profile, form>>
    BY <1>1 DEF KeptInv
<1>2. CASE UNCHANGED profile /\ form' = None
    BY <1>2 DEF KeptInv
<1>3. CASE OpenProfile
    BY <1>3, OpenedFilled DEF OpenProfile, KeptInv
<1>4. CASE Type
    <2>1. form # None /\ profile' = profile
        BY <1>4, Zenon DEF Type
    <2>2. PICK field \in DOMAIN Typed : \E text \in Typed[field] : form' = [form EXCEPT ![field] = text]
        BY <1>4, Zenon DEF Type
    <2>3. PICK text \in Typed[field] : form' = [form EXCEPT ![field] = text]
        BY <2>2
    <2>4. DOMAIN form = DOMAIN DefaultForm /\ Filled(form)
        BY <2>1 DEF ScreenInv, Edited, KeptInv
    <2>5. Filled(form')
        BY <2>3, <2>4, TypedFilled
    <2> QED
        BY <2>1, <2>5 DEF KeptInv
<1>5. CASE SaveProfile
    <2>1. /\ form # None /\ FormProblems(form) = {} /\ form' = None
          /\ profile' = BuildProfile(ToDraft(form), profile)
        BY <1>5, Zenon DEF SaveProfile
    <2>2. Filled(form) /\ form.ivaRegime \in IvaRegimes /\ (profile # None => Stored(profile))
        BY <2>1 DEF KeptInv, Regimes
    <2>3. Stored(BuildProfile(ToDraft(form), profile))
        BY <2>1, <2>2, BuiltStored
    <2> QED
        BY <2>1, <2>3 DEF KeptInv
<1> QED
    BY <1>1, <1>2, <1>3, <1>4, <1>5
       DEF Next, PassDay, Open, CloseProfile, RecordInvoice, Complete, vars

LEMMA KeptHolds == ASSUME NoneIsItself PROVE Spec => [](KeptInv /\ Regimes)
<1>1. Init => KeptInv
    <2> SUFFICES ASSUME Init PROVE KeptInv
        OBVIOUS
    <2>1. profile \in Vaults \union {None} /\ form = None
        BY Zenon DEF Init
    <2> QED
        BY <2>1, DashboardVaultsAssumption DEF KeptInv
<1>2. KeptInv /\ ScreenInv /\ Regimes /\ [Next]_vars => KeptInv'
    BY KeptKept
<1>3. NoneIsNoFunction
    BY DEF NoneIsItself, NoneIsApart
<1>4. Spec => []ScreenInv
    BY <1>3, ScreenHolds
<1>5. Spec => []Regimes
    BY RegimesHold
<1> QED
    BY <1>1, <1>2, <1>4, <1>5, PTL DEF Spec

(* The profile in the vault can be opened in the form and saved again at   *)
(* any time, with nothing found wrong and nothing changed: every amount    *)
(* and every percentage is read back as it was written (pages/profile.rs,  *)
(* from_profile and to_draft; money.rs, format_eur and                     *)
(* parse_eur_to_cents).                                                    *)
THEOREM SavedAsOpened == ASSUME NoneIsItself PROVE Spec => []Reopens
<1>1. KeptInv => Reopens
    BY NothingWrong, SavedUntouched DEF KeptInv, Reopens
<1>2. Spec => [](KeptInv /\ Regimes)
    BY KeptHolds
<1> QED
    BY <1>1, <1>2, PTL

(***************************************************************************)
(* The flags: no code is raised twice, so that the list is in one order.   *)
(***************************************************************************)
ExemptionCodes ==
    {"ART53_NO_TURNOVER_INPUT", "ART53_CEILING_EXCEEDED_HISTORY", "ART53_EXEMPTION_ACTIVE",
     "ART53_EXEMPTION_AVAILABLE", "ART53_CEILING_CROSSED", "ART53_IN_TRANSITION_ZONE",
     "ART53_MARGIN_SHRINKING"}

OtherCodes ==
    {"OBLIGATIONS_OVERDUE", "MISSING_DOCUMENTS_BEFORE_DEADLINE", "RETENTION_MISSING_ON_RESIDENT",
     "MISSING_PAYMENT_PROOF", "FOREIGN_CLIENTS_NOT_DECLARED", "PT_IVA_CHARGED_ON_FOREIGN_INVOICE",
     "DUPLICATE_INVOICE_NUMBER", "RETENTION_CHARGED_ON_NON_RESIDENT",
     "EU_INVOICES_REVERSE_CHARGE", "NON_EU_CLIENTS_NO_PT_VAT"}

Levels == {"urgent", "attention", "info"}

OneEach(flags, codes) ==
    /\ IsFiniteSet(flags)
    /\ \A f \in flags : f.code \in codes /\ f.severity \in Levels
    /\ \A f, g \in flags : f.code = g.code => f = g

LEMMA OneEachOf ==
    ASSUME NEW F, NEW C, OneEach(F, C), NEW G, NEW D, OneEach(G, D), C \cap D = {}
    PROVE  OneEach(F \union G, C \union D)
<1>1. IsFiniteSet(F \union G)
    BY FS_Union DEF OneEach
<1>2. \A f \in F \union G : f.code \in C \union D /\ f.severity \in Levels
    BY DEF OneEach
<1>3. ASSUME NEW f \in F \union G, NEW g \in F \union G, f.code = g.code PROVE f = g
    <2>1. \A x \in F : x.code \in C
        BY DEF OneEach
    <2>2. \A x \in G : x.code \in D
        BY DEF OneEach
    <2>3. (f \in F /\ g \in F) \/ (f \in G /\ g \in G)
        BY <1>3, <2>1, <2>2
    <2> QED
        BY <1>3, <2>3 DEF OneEach
<1> QED
    BY <1>1, <1>2, <1>3 DEF OneEach

LEMMA OneEachWider ==
    ASSUME NEW F, NEW C, NEW D, OneEach(F, C), C \subseteq D PROVE OneEach(F, D)
BY DEF OneEach

LEMMA OneEachNone == ASSUME NEW code PROVE OneEach({}, {code})
BY FS_EmptySet DEF OneEach

LEMMA OneEachOne ==
    ASSUME NEW f, NEW code, f.code = code, f.severity \in Levels PROVE OneEach({f}, {code})
BY FS_Singleton DEF OneEach

LEMMA OneEachIf ==
    ASSUME NEW condition, NEW code, NEW severity \in Levels
    PROVE  OneEach(FlagIf(condition, code, severity), {code})
<1>1. Flag(code, severity).code = code /\ Flag(code, severity).severity = severity
    BY DEF Flag
<1>2. OneEach({Flag(code, severity)}, {code})
    BY <1>1, OneEachOne
<1> QED
    BY <1>2, OneEachNone DEF FlagIf

LEMMA OneEachAbout ==
    ASSUME NEW numbers, NEW code, NEW severity \in Levels
    PROVE  OneEach(IF numbers = {} THEN {}
                   ELSE {[code |-> code, severity |-> severity, numbers |-> numbers]}, {code})
<1> DEFINE f == [code |-> code, severity |-> severity, numbers |-> numbers]
<1>1. f.code = code /\ f.severity = severity
    OBVIOUS
<1> HIDE DEF f
<1>2. OneEach({f}, {code})
    BY <1>1, OneEachOne
<1> QED
    BY <1>2, OneEachNone DEF f

LEMMA ExemptionOnce ==
    ASSUME NEW constants, NEW p, NEW national
    PROVE  OneEach(Art53Flags(constants, p, national), ExemptionCodes)
<1> DEFINE ceiling == constants.ceiling
           transition == RoundScaled(ceiling * 125, 100)
           margin == RoundScaled(ceiling * 80, 100)
           qualifies == QualifiesHistorically(p, ceiling)
<1>0. "urgent" \in Levels /\ "attention" \in Levels /\ "info" \in Levels
    BY DEF Levels
<1>1. OneEach({Flag("ART53_NO_TURNOVER_INPUT", "attention")}, ExemptionCodes)
    <2>1. OneEach(FlagIf(TRUE, "ART53_NO_TURNOVER_INPUT", "attention"), {"ART53_NO_TURNOVER_INPUT"})
        BY <1>0, OneEachIf
    <2>2. OneEach(FlagIf(TRUE, "ART53_NO_TURNOVER_INPUT", "attention"), ExemptionCodes)
        BY <2>1, OneEachWider DEF ExemptionCodes
    <2> QED
        BY <2>2 DEF FlagIf
<1>2. OneEach({}, ExemptionCodes)
    BY FS_EmptySet DEF OneEach
<1>3. OneEach(ExemptionFlags(p, ceiling),
              {"ART53_CEILING_EXCEEDED_HISTORY", "ART53_EXEMPTION_ACTIVE", "ART53_EXEMPTION_AVAILABLE"})
    <2> DEFINE A == FlagIf(Exempt(p) /\ ~qualifies, "ART53_CEILING_EXCEEDED_HISTORY", "urgent")
               B == FlagIf(Exempt(p) /\ qualifies, "ART53_EXEMPTION_ACTIVE", "info")
               C == FlagIf(~Exempt(p) /\ qualifies, "ART53_EXEMPTION_AVAILABLE", "info")
    <2>1. OneEach(A, {"ART53_CEILING_EXCEEDED_HISTORY"})
        BY <1>0, OneEachIf
    <2>2. OneEach(B, {"ART53_EXEMPTION_ACTIVE"})
        BY <1>0, OneEachIf
    <2>3. OneEach(C, {"ART53_EXEMPTION_AVAILABLE"})
        BY <1>0, OneEachIf
    <2>4. ExemptionFlags(p, ceiling) = (A \union B) \union C
        BY DEF ExemptionFlags
    <2> HIDE DEF A, B, C
    <2>5. OneEach(A \union B, {"ART53_CEILING_EXCEEDED_HISTORY"} \union {"ART53_EXEMPTION_ACTIVE"})
        BY <2>1, <2>2, OneEachOf
    <2>6. OneEach((A \union B) \union C,
            ({"ART53_CEILING_EXCEEDED_HISTORY"} \union {"ART53_EXEMPTION_ACTIVE"}) \union
            {"ART53_EXEMPTION_AVAILABLE"})
        BY <2>3, <2>5, OneEachOf
    <2> QED
        BY <2>4, <2>6, OneEachWider
<1>4. OneEach(LiveFlags(p, ceiling, national),
              {"ART53_CEILING_CROSSED", "ART53_IN_TRANSITION_ZONE", "ART53_MARGIN_SHRINKING"})
    <2> DEFINE A == FlagIf(national > transition, "ART53_CEILING_CROSSED", "urgent")
               B == FlagIf(national \in ceiling + 1 .. transition, "ART53_IN_TRANSITION_ZONE", "urgent")
               C == FlagIf(national \in margin + 1 .. ceiling, "ART53_MARGIN_SHRINKING", "attention")
               codes == {"ART53_CEILING_CROSSED", "ART53_IN_TRANSITION_ZONE", "ART53_MARGIN_SHRINKING"}
    <2>1. OneEach(A, {"ART53_CEILING_CROSSED"})
        BY <1>0, OneEachIf
    <2>2. OneEach(B, {"ART53_IN_TRANSITION_ZONE"})
        BY <1>0, OneEachIf
    <2>3. OneEach(C, {"ART53_MARGIN_SHRINKING"})
        BY <1>0, OneEachIf
    <2>4. LiveFlags(p, ceiling, national) = IF ~Exempt(p) THEN {} ELSE (A \union B) \union C
        BY DEF LiveFlags
    <2> HIDE DEF A, B, C
    <2>5. OneEach(A \union B, {"ART53_CEILING_CROSSED"} \union {"ART53_IN_TRANSITION_ZONE"})
        BY <2>1, <2>2, OneEachOf
    <2>6. OneEach((A \union B) \union C,
            ({"ART53_CEILING_CROSSED"} \union {"ART53_IN_TRANSITION_ZONE"}) \union {"ART53_MARGIN_SHRINKING"})
        BY <2>3, <2>5, OneEachOf
    <2>7. OneEach((A \union B) \union C, codes)
        BY <2>6, OneEachWider
    <2>8. OneEach({}, codes)
        BY FS_EmptySet DEF OneEach
    <2> QED
        BY <2>4, <2>7, <2>8
<1>5. OneEach(ExemptionFlags(p, ceiling) \union LiveFlags(p, ceiling, national), ExemptionCodes)
    <2>1. OneEach(ExemptionFlags(p, ceiling) \union LiveFlags(p, ceiling, national),
            {"ART53_CEILING_EXCEEDED_HISTORY", "ART53_EXEMPTION_ACTIVE", "ART53_EXEMPTION_AVAILABLE"} \union
            {"ART53_CEILING_CROSSED", "ART53_IN_TRANSITION_ZONE", "ART53_MARGIN_SHRINKING"})
        BY <1>3, <1>4, OneEachOf
    <2> QED
        BY <2>1, OneEachWider DEF ExemptionCodes
<1> QED
    BY <1>1, <1>2, <1>5 DEF Art53Flags

LEMMA OthersOnce ==
    ASSUME NEW invoices, NEW p, NEW turnover, NEW day, NEW agenda, NEW keeping, NEW documented,
           NEW soon
    PROVE  OneEach(ForeignFlags(invoices, p, turnover) \union TermsFlags(invoices) \union
                   ProofFlags(invoices, day) \union DuplicateFlags(invoices) \union
                   AgendaFlags(agenda, keeping, documented, day, soon), OtherCodes)
<1>0. "urgent" \in Levels /\ "attention" \in Levels /\ "info" \in Levels
    BY DEF Levels
<1>1. OneEach(ForeignFlags(invoices, p, turnover),
              {"EU_INVOICES_REVERSE_CHARGE", "NON_EU_CLIENTS_NO_PT_VAT", "FOREIGN_CLIENTS_NOT_DECLARED"})
    <2> DEFINE Of(scope, code) ==
                   IF turnover[scope] <= 0 THEN {}
                   ELSE FlagAbout(invoices, LAMBDA i : ScopeOf(i.country) = scope, code, "info")
               A == Of("eu", "EU_INVOICES_REVERSE_CHARGE")
               B == Of("nonEu", "NON_EU_CLIENTS_NO_PT_VAT")
               C == FlagIf((turnover["eu"] > 0 \/ turnover["nonEu"] > 0) /\ ~p.intraCommunity /\ ~p.exports,
                           "FOREIGN_CLIENTS_NOT_DECLARED", "attention")
    <2>1. ForeignFlags(invoices, p, turnover) = (A \union B) \union C
        BY DEF ForeignFlags
    <2>2. OneEach(A, {"EU_INVOICES_REVERSE_CHARGE"})
        BY <1>0, OneEachAbout, OneEachNone DEF FlagAbout
    <2>3. OneEach(B, {"NON_EU_CLIENTS_NO_PT_VAT"})
        BY <1>0, OneEachAbout, OneEachNone DEF FlagAbout
    <2>4. OneEach(C, {"FOREIGN_CLIENTS_NOT_DECLARED"})
        BY <1>0, OneEachIf
    <2> HIDE DEF A, B, C
    <2>5. OneEach(A \union B, {"EU_INVOICES_REVERSE_CHARGE"} \union {"NON_EU_CLIENTS_NO_PT_VAT"})
        BY <2>2, <2>3, OneEachOf
    <2>6. OneEach((A \union B) \union C,
            ({"EU_INVOICES_REVERSE_CHARGE"} \union {"NON_EU_CLIENTS_NO_PT_VAT"}) \union
            {"FOREIGN_CLIENTS_NOT_DECLARED"})
        BY <2>4, <2>5, OneEachOf
    <2> QED
        BY <2>1, <2>6, OneEachWider
<1>2. OneEach(TermsFlags(invoices),
              {"PT_IVA_CHARGED_ON_FOREIGN_INVOICE", "RETENTION_MISSING_ON_RESIDENT",
               "RETENTION_CHARGED_ON_NON_RESIDENT"})
    <2> DEFINE A == FlagAbout(invoices, LAMBDA i : ~National(i) /\ i.ivaBp > 0,
                              "PT_IVA_CHARGED_ON_FOREIGN_INVOICE", "urgent")
               B == FlagAbout(invoices, LAMBDA i : National(i) /\ i.retentionBp = 0,
                              "RETENTION_MISSING_ON_RESIDENT", "attention")
               C == FlagAbout(invoices, LAMBDA i : ~National(i) /\ i.retentionBp > 0,
                              "RETENTION_CHARGED_ON_NON_RESIDENT", "attention")
    <2>1. TermsFlags(invoices) = (A \union B) \union C
        BY DEF TermsFlags
    <2>2. OneEach(A, {"PT_IVA_CHARGED_ON_FOREIGN_INVOICE"})
        BY <1>0, OneEachAbout DEF FlagAbout
    <2>3. OneEach(B, {"RETENTION_MISSING_ON_RESIDENT"})
        BY <1>0, OneEachAbout DEF FlagAbout
    <2>4. OneEach(C, {"RETENTION_CHARGED_ON_NON_RESIDENT"})
        BY <1>0, OneEachAbout DEF FlagAbout
    <2> HIDE DEF A, B, C
    <2>5. OneEach(A \union B,
                  {"PT_IVA_CHARGED_ON_FOREIGN_INVOICE"} \union {"RETENTION_MISSING_ON_RESIDENT"})
        BY <2>2, <2>3, OneEachOf
    <2>6. OneEach((A \union B) \union C,
            ({"PT_IVA_CHARGED_ON_FOREIGN_INVOICE"} \union {"RETENTION_MISSING_ON_RESIDENT"}) \union
            {"RETENTION_CHARGED_ON_NON_RESIDENT"})
        BY <2>4, <2>5, OneEachOf
    <2> QED
        BY <2>1, <2>6, OneEachWider
<1>3. OneEach(ProofFlags(invoices, day), {"MISSING_PAYMENT_PROOF"})
    BY <1>0, OneEachAbout DEF ProofFlags, FlagAbout
<1>4. OneEach(DuplicateFlags(invoices), {"DUPLICATE_INVOICE_NUMBER"})
    BY <1>0, OneEachAbout DEF DuplicateFlags, FlagAbout
<1>5. OneEach(AgendaFlags(agenda, keeping, documented, day, soon),
              {"OBLIGATIONS_OVERDUE", "MISSING_DOCUMENTS_BEFORE_DEADLINE"})
    <2> DEFINE Open2(i) == i.status \notin {"Done", "Untracked", "NotApplicable"}
               Undocumented(i) ==
                   /\ Open2(i) /\ i.rule \in keeping \ documented
                   /\ DaysBetween(day, i.due) \in 0 .. soon
               A == FlagIf(\E i \in agenda : i.status = "Overdue", "OBLIGATIONS_OVERDUE", "urgent")
               B == FlagIf(\E i \in agenda : Undocumented(i),
                           "MISSING_DOCUMENTS_BEFORE_DEADLINE", "attention")
    <2>1. AgendaFlags(agenda, keeping, documented, day, soon) = A \union B
        BY Zenon DEF AgendaFlags
    <2>2. OneEach(A, {"OBLIGATIONS_OVERDUE"})
        BY <1>0, OneEachIf
    <2>3. OneEach(B, {"MISSING_DOCUMENTS_BEFORE_DEADLINE"})
        BY <1>0, OneEachIf
    <2> HIDE DEF A, B
    <2>5. OneEach(A \union B,
                  {"OBLIGATIONS_OVERDUE"} \union {"MISSING_DOCUMENTS_BEFORE_DEADLINE"})
        BY <2>2, <2>3, OneEachOf
    <2> QED
        BY <2>1, <2>5, OneEachWider
<1> DEFINE A == ForeignFlags(invoices, p, turnover)
           B == TermsFlags(invoices)
           C == ProofFlags(invoices, day)
           D == DuplicateFlags(invoices)
           E == AgendaFlags(agenda, keeping, documented, day, soon)
           a == {"EU_INVOICES_REVERSE_CHARGE", "NON_EU_CLIENTS_NO_PT_VAT", "FOREIGN_CLIENTS_NOT_DECLARED"}
           b == {"PT_IVA_CHARGED_ON_FOREIGN_INVOICE", "RETENTION_MISSING_ON_RESIDENT",
                 "RETENTION_CHARGED_ON_NON_RESIDENT"}
           c == {"MISSING_PAYMENT_PROOF"}
           d == {"DUPLICATE_INVOICE_NUMBER"}
           e == {"OBLIGATIONS_OVERDUE", "MISSING_DOCUMENTS_BEFORE_DEADLINE"}
<1> HIDE DEF A, B, C, D, E
<1>6. OneEach(A \union B, a \union b)
    <2>1. a \cap b = {}
        OBVIOUS
    <2> QED
        BY <1>1, <1>2, <2>1, OneEachOf DEF A, B
<1>7. OneEach((A \union B) \union C, (a \union b) \union c)
    <2>1. (a \union b) \cap c = {}
        OBVIOUS
    <2> QED
        BY <1>3, <1>6, <2>1, OneEachOf DEF C
<1>8. OneEach(((A \union B) \union C) \union D, ((a \union b) \union c) \union d)
    <2>1. ((a \union b) \union c) \cap d = {}
        OBVIOUS
    <2> QED
        BY <1>4, <1>7, <2>1, OneEachOf DEF D
<1>9. OneEach((((A \union B) \union C) \union D) \union E, (((a \union b) \union c) \union d) \union e)
    <2>1. (((a \union b) \union c) \union d) \cap e = {}
        OBVIOUS
    <2> QED
        BY <1>5, <1>8, <2>1, OneEachOf DEF E
<1>10. (((a \union b) \union c) \union d) \union e \subseteq OtherCodes
    BY DEF OtherCodes
<1> HIDE DEF a, b, c, d, e
<1>11. OneEach((((A \union B) \union C) \union D) \union E, OtherCodes)
    BY <1>9, <1>10, OneEachWider
<1> QED
    BY <1>11, Zenon DEF A, B, C, D, E

AllCodes == ExemptionCodes \union OtherCodes

LEMMA RanksKnown ==
    ASSUME NEW f, f.code \in AllCodes, f.severity \in Levels
    PROVE  /\ SeverityRank(f) \in 1 .. 3
           /\ TitleRank(f) \in 1 .. 17 /\ Titles[TitleRank(f)] = f.code
<1>1. Severities[1] = "urgent" /\ Severities[2] = "attention" /\ Severities[3] = "info"
    BY DEF Severities
<1>2. \E rank \in 1 .. 3 : Severities[rank] = f.severity
    BY <1>1 DEF Levels
<1>3. SeverityRank(f) \in 1 .. 3
    BY <1>2, Zenon DEF SeverityRank
<1>4. DOMAIN Titles = 1 .. 17
    BY DEF Titles
<1>5. \A code \in AllCodes : \E rank \in 1 .. 17 : Titles[rank] = code
    <2>1. /\ Titles[1] = "OBLIGATIONS_OVERDUE" /\ Titles[2] = "MISSING_DOCUMENTS_BEFORE_DEADLINE"
          /\ Titles[3] = "ART53_NO_TURNOVER_INPUT" /\ Titles[4] = "RETENTION_MISSING_ON_RESIDENT"
          /\ Titles[5] = "MISSING_PAYMENT_PROOF" /\ Titles[6] = "FOREIGN_CLIENTS_NOT_DECLARED"
          /\ Titles[7] = "PT_IVA_CHARGED_ON_FOREIGN_INVOICE" /\ Titles[8] = "ART53_EXEMPTION_ACTIVE"
          /\ Titles[9] = "ART53_CEILING_CROSSED" /\ Titles[10] = "ART53_MARGIN_SHRINKING"
          /\ Titles[11] = "DUPLICATE_INVOICE_NUMBER" /\ Titles[12] = "ART53_CEILING_EXCEEDED_HISTORY"
          /\ Titles[13] = "ART53_EXEMPTION_AVAILABLE"
          /\ Titles[14] = "RETENTION_CHARGED_ON_NON_RESIDENT"
          /\ Titles[15] = "EU_INVOICES_REVERSE_CHARGE" /\ Titles[16] = "NON_EU_CLIENTS_NO_PT_VAT"
          /\ Titles[17] = "ART53_IN_TRANSITION_ZONE"
        BY DEF Titles
    <2> QED
        BY <2>1 DEF AllCodes, ExemptionCodes, OtherCodes
<1>6. TitleRank(f) \in 1 .. 17 /\ Titles[TitleRank(f)] = f.code
    <2>1. \E rank \in DOMAIN Titles : Titles[rank] = f.code
        BY <1>4, <1>5
    <2> QED
        BY <1>4, <2>1, Zenon DEF TitleRank
<1> QED
    BY <1>3, <1>6

LEMMA FlagsOrdered ==
    ASSUME NEW F, OneEach(F, AllCodes)
    PROVE  Orders({p \in F \X F : Before(p[1], p[2])}, F)
<1> DEFINE before == {p \in F \X F : Before(p[1], p[2])}
<1>1. \A f \in F : /\ SeverityRank(f) \in Int /\ TitleRank(f) \in Int
                   /\ Titles[TitleRank(f)] = f.code
    BY RanksKnown DEF OneEach
<1>2. \A f, g \in F : f.code = g.code => f = g
    BY DEF OneEach
<1>3. \A f, g \in F : <<f, g>> \in before <=> Before(f, g)
    BY Zenon
<1> HIDE DEF before
<1>4. \A f, g \in F : TitleRank(f) = TitleRank(g) => f = g
    BY <1>1, <1>2
<1>5. \A f \in F : <<f, f>> \notin before
    BY <1>1, <1>3 DEF Before
<1>6. \A f, g, h \in F : <<f, g>> \in before /\ <<g, h>> \in before => <<f, h>> \in before
    BY <1>1, <1>3 DEF Before
<1>7. \A f, g \in F : f # g => <<f, g>> \in before \/ <<g, f>> \in before
    BY <1>1, <1>3, <1>4 DEF Before
<1> QED
    BY <1>5, <1>6, <1>7, Zenon DEF Orders, before

LEMMA FlagsListed ==
    ASSUME NEW F, OneEach(F, AllCodes)
    PROVE  LET s == SortedFlags(F)
           IN  /\ s \in Seq(F)
               /\ \A f \in F : \E k \in DOMAIN s : s[k] = f
<1> DEFINE before == {p \in F \X F : Before(p[1], p[2])}
           s == SortedFlags(F)
<1>1. Orders(before, F) /\ IsFiniteSet(F)
    BY FlagsOrdered DEF OneEach
<1>2. s = Enumerated(F, before)
    BY Zenon DEF SortedFlags
<1> HIDE DEF before, s
<1>3. /\ Cardinality(F) \in Nat /\ DOMAIN s = 1 .. Cardinality(F)
      /\ \A k \in DOMAIN s : s[k] \in F
      /\ \A i \in F : \E k \in DOMAIN s : s[k] = i
    BY <1>1, <1>2, InRanks
<1>4. s = [k \in 1 .. Cardinality(F) |-> s[k]]
    <2> DEFINE place(k) == CHOOSE i \in F : Cardinality({j \in F : <<j, i>> \in before}) = k - 1
               e == [k \in 1 .. Cardinality(F) |-> place(k)]
    <2>1. s = e
        BY <1>2, Zenon DEF Enumerated
    <2> HIDE DEF place
    <2>2. e = [k \in 1 .. Cardinality(F) |-> e[k]]
        OBVIOUS
    <2> HIDE DEF e
    <2> QED
        BY <2>1, <2>2
<1>5. s \in Seq(F)
    BY <1>3, <1>4
<1> QED
    BY <1>3, <1>5 DEF s

LEMMA Arranged ==
    ASSUME NEW S, IsFiniteSet(S) PROVE SetToSeq(S) \in Seq(S)
<1> DEFINE n == Cardinality(S)
<1>1. n \in Nat /\ ExistsBijection(1 .. n, S)
    BY FS_CardinalityType
<1>2. \E f \in [1 .. n -> S] : IsInjective(f)
    <2>1. PICK f : f \in Bijection(1 .. n, S)
        BY <1>1, Zenon DEF ExistsBijection
    <2>2. f \in [1 .. n -> S] /\ \A a, b \in 1 .. n : f[a] = f[b] => a = b
        BY <2>1, Zenon DEF Bijection, Injection, IsInjective
    <2> QED
        BY <2>2 DEF IsInjective
<1>3. SetToSeq(S) \in [1 .. n -> S]
    BY <1>2, Zenon DEF SetToSeq
<1> HIDE DEF n
<1> QED
    BY <1>1, <1>3

LEMMA Concatenated ==
    ASSUME NEW A, NEW B, NEW s \in Seq(A), NEW t \in Seq(B)
    PROVE  /\ s \o t \in Seq(A \union B)
           /\ \A i \in DOMAIN (s \o t) : (s \o t)[i] \in A \/ (s \o t)[i] \in B
           /\ \A k \in DOMAIN s : k \in DOMAIN (s \o t) /\ (s \o t)[k] = s[k]
<1>1. s \in Seq(A \union B) /\ t \in Seq(A \union B)
    OBVIOUS
<1>2. s \o t \in Seq(A \union B)
    BY <1>1
<1> QED
    BY <1>1, <1>2

HealthFlags ==
    [code : {"RULE_PACK_STALE", "VALUE_PROPOSED_BY_AI_UNCONFIRMED"}, severity : Levels,
     numbers : {{}}]

LEMMA HealthListed ==
    ASSUME NEW y, NEW proposed, NEW day
    PROVE  PackHealthFlags(y, proposed, day) \in Seq(HealthFlags)
<1> DEFINE S == {Flag("VALUE_PROPOSED_BY_AI_UNCONFIRMED",
                       IF origin = "ai" THEN "urgent" ELSE "attention") : origin \in proposed}
           state == Freshness(y, day)
           first == IF state = "current" THEN <<>>
                    ELSE <<Flag("RULE_PACK_STALE", IF state = "stale" THEN "urgent" ELSE "info")>>
<1>0. \A code \in {"RULE_PACK_STALE", "VALUE_PROPOSED_BY_AI_UNCONFIRMED"} :
         \A severity \in Levels : Flag(code, severity) \in HealthFlags
    BY DEF Flag, HealthFlags
<1>1. S \subseteq HealthFlags
    BY <1>0 DEF Levels
<1>2. IsFiniteSet(S)
    <2> DEFINE T == {Flag("VALUE_PROPOSED_BY_AI_UNCONFIRMED", "urgent")} \union
                    {Flag("VALUE_PROPOSED_BY_AI_UNCONFIRMED", "attention")}
    <2>1. IsFiniteSet(T)
        BY FS_Singleton, FS_Union
    <2>2. S \subseteq T
        OBVIOUS
    <2> QED
        BY <2>1, <2>2, FS_Subset
<1>3. first \in Seq(HealthFlags)
    BY <1>0 DEF Levels
<1>4. PackHealthFlags(y, proposed, day) = first \o SetToSeq(S)
    BY Zenon DEF PackHealthFlags
<1> HIDE DEF S, first
<1>5. SetToSeq(S) \in Seq(S)
    BY <1>2, Arranged
<1>6. SetToSeq(S) \in Seq(HealthFlags)
    BY <1>1, <1>5
<1> QED
    BY <1>3, <1>4, <1>6

LEMMA HealthIs ==
    ASSUME NEW f \in HealthFlags PROVE f.code \notin ExemptionCodes /\ f.severity \in Levels
BY DEF HealthFlags, ExemptionCodes

(* The flags of a model that are about the exemption are those that the    *)
(* year's turnover at home raises.                                         *)
OfExemption(p, l, day) ==
    Art53Flags(Pack.constants, p, TurnoverByScope(l, day.year)["national"])

LEMMA ShownFlags ==
    ASSUME NEW p, NEW l, NEW day, NEW done
    PROVE  LET flags == BuildModel(p, l, day, done).flags
           IN  /\ \A i \in DOMAIN flags : flags[i].severity \in Levels
               /\ p = None => \A i \in DOMAIN flags : flags[i].code \notin ExemptionCodes
               /\ p # None =>
                     /\ \A f \in OfExemption(p, l, day) : \E i \in DOMAIN flags : flags[i] = f
                     /\ \A i \in DOMAIN flags :
                           flags[i] \in OfExemption(p, l, day) \/ flags[i].code \notin ExemptionCodes
<1> DEFINE flags == BuildModel(p, l, day, done).flags
           health == PackHealthFlags(Pack.year, Pack.proposed, day)
           agenda == Agenda(p, day, done)
<1>1. health \in Seq(HealthFlags)
    BY HealthListed
<1>2. flags = FlagsOf(p, l, agenda, day)
    BY DEF BuildModel, Flagged, ModelOf
<1>3. CASE p = None
    <2>1. flags = <<>> \o health
        BY <1>2, <1>3, Zenon DEF FlagsOf
    <2> HIDE DEF flags, health
    <2>2. flags = health
        BY <1>1, <2>1
    <2>3. \A i \in DOMAIN flags : flags[i] \in HealthFlags
        BY <1>1, <2>2
    <2> QED
        BY <1>3, <2>3, HealthIs DEF flags
<1>4. CASE p # None
    <2> DEFINE turnover == TurnoverByScope(l, day.year)
               A == OfExemption(p, l, day)
               B == ForeignFlags(l, p, turnover) \union TermsFlags(l) \union ProofFlags(l, day) \union
                    DuplicateFlags(l) \union AgendaFlags(agenda, Keeping, {}, day, 30)
               F == A \union B
               s == SortedFlags(F)
    <2>1. flags = ComputeFlags(Pack.constants, Keeping, p, l, agenda, day, {}) \o health
        BY <1>2, <1>4, Zenon DEF FlagsOf
    <2>2. ComputeFlags(Pack.constants, Keeping, p, l, agenda, day, {}) = s
        <3>1. ComputeFlags(Pack.constants, Keeping, p, l, agenda, day, {}) =
                SortedFlags(Art53Flags(Pack.constants, p, turnover["national"]) \union
                    ForeignFlags(l, p, turnover) \union TermsFlags(l) \union
                    ProofFlags(l, day) \union DuplicateFlags(l) \union
                    AgendaFlags(agenda, Keeping, {}, day, 30))
            BY Zenon DEF ComputeFlags
        <3>2. Art53Flags(Pack.constants, p, turnover["national"]) \union
                    ForeignFlags(l, p, turnover) \union TermsFlags(l) \union
                    ProofFlags(l, day) \union DuplicateFlags(l) \union
                    AgendaFlags(agenda, Keeping, {}, day, 30) = F
            <4>1. A = Art53Flags(Pack.constants, p, turnover["national"])
                BY Zenon DEF OfExemption
            <4> HIDE DEF A
            <4> QED
                BY <4>1
        <3> QED
            BY <3>1, <3>2, Zenon
    <2>3. OneEach(A, ExemptionCodes)
        BY ExemptionOnce DEF OfExemption
    <2>4. OneEach(B, OtherCodes)
        BY OthersOnce
    <2> HIDE DEF flags, health, A, B
    <2>5. ExemptionCodes \cap OtherCodes = {}
        BY DEF ExemptionCodes, OtherCodes
    <2>6. OneEach(F, AllCodes)
        BY <2>3, <2>4, <2>5, OneEachOf DEF AllCodes
    <2> HIDE DEF F
    <2>7. s \in Seq(F) /\ \A f \in F : \E k \in DOMAIN s : s[k] = f
        BY <2>6, FlagsListed
    <2> HIDE DEF s
    <2>8. /\ \A i \in DOMAIN flags : flags[i] \in F \/ flags[i] \in HealthFlags
          /\ \A k \in DOMAIN s : k \in DOMAIN flags /\ flags[k] = s[k]
        BY <1>1, <2>1, <2>2, <2>7, Concatenated
    <2>9. \A f \in F : f.severity \in Levels
        BY <2>6 DEF OneEach
    <2>10. \A f \in B : f.code \notin ExemptionCodes
        BY <2>4, <2>5 DEF OneEach
    <2>11. \A i \in DOMAIN flags : flags[i].severity \in Levels
        BY <2>8, <2>9, HealthIs
    <2>12. \A f \in A : \E i \in DOMAIN flags : flags[i] = f
        BY <2>7, <2>8 DEF F
    <2>13. \A i \in DOMAIN flags : flags[i] \in A \/ flags[i].code \notin ExemptionCodes
        BY <2>8, <2>10, HealthIs DEF F
    <2> QED
        BY <1>4, <2>11, <2>12, <2>13 DEF flags, A
<1> QED
    BY <1>3, <1>4

(***************************************************************************)
(* What the flags say of the exemption.                                    *)
(***************************************************************************)
Ceiling == Pack.constants.ceiling
Transition == RoundScaled(Ceiling * 125, 100)
Margin == RoundScaled(Ceiling * 80, 100)

Says(flags, code) == \E f \in flags : f.code = code

LEMMA SaysIf ==
    ASSUME NEW condition \in BOOLEAN, NEW code, NEW severity, NEW other
    PROVE  /\ Says(FlagIf(condition, code, severity), other) <=> condition /\ other = code
           /\ \A f \in FlagIf(condition, code, severity) : f.severity = severity
<1> DEFINE f == Flag(code, severity)
<1>1. f.code = code /\ f.severity = severity
    BY DEF Flag
<1> HIDE DEF f
<1>2. CASE condition
    <2>1. FlagIf(condition, code, severity) = {f}
        BY <1>2 DEF FlagIf, f
    <2> QED
        BY <1>1, <1>2, <2>1 DEF Says
<1>3. CASE ~condition
    <2>1. FlagIf(condition, code, severity) = {}
        BY <1>3 DEF FlagIf
    <2> QED
        BY <1>3, <2>1 DEF Says
<1> QED
    BY <1>2, <1>3

LEMMA SaysOf ==
    ASSUME NEW F, NEW G, NEW code PROVE Says(F \union G, code) <=> Says(F, code) \/ Says(G, code)
BY DEF Says

LEMMA SaysExemption ==
    ASSUME NEW p, NEW ceiling, NEW code
    PROVE  Says(ExemptionFlags(p, ceiling), code) <=>
              \/ code = "ART53_CEILING_EXCEEDED_HISTORY" /\ Exempt(p) /\ ~QualifiesHistorically(p, ceiling)
              \/ code = "ART53_EXEMPTION_ACTIVE" /\ Exempt(p) /\ QualifiesHistorically(p, ceiling)
              \/ code = "ART53_EXEMPTION_AVAILABLE" /\ ~Exempt(p) /\ QualifiesHistorically(p, ceiling)
<1> DEFINE q == QualifiesHistorically(p, ceiling)
           e == Exempt(p)
           A == FlagIf(e /\ ~q, "ART53_CEILING_EXCEEDED_HISTORY", "urgent")
           B == FlagIf(e /\ q, "ART53_EXEMPTION_ACTIVE", "info")
           C == FlagIf(~e /\ q, "ART53_EXEMPTION_AVAILABLE", "info")
<1>1. ExemptionFlags(p, ceiling) = (A \union B) \union C
    BY Zenon DEF ExemptionFlags
<1>2. (e /\ ~q) \in BOOLEAN /\ (e /\ q) \in BOOLEAN /\ (~e /\ q) \in BOOLEAN
    OBVIOUS
<1>3. Says(A, code) <=> e /\ ~q /\ code = "ART53_CEILING_EXCEEDED_HISTORY"
    BY <1>2, SaysIf, Zenon
<1>4. Says(B, code) <=> e /\ q /\ code = "ART53_EXEMPTION_ACTIVE"
    BY <1>2, SaysIf, Zenon
<1>5. Says(C, code) <=> ~e /\ q /\ code = "ART53_EXEMPTION_AVAILABLE"
    BY <1>2, SaysIf, Zenon
<1> HIDE DEF A, B, C
<1>6. Says((A \union B) \union C, code) <=> Says(A, code) \/ Says(B, code) \/ Says(C, code)
    BY SaysOf
<1> QED
    BY <1>1, <1>3, <1>4, <1>5, <1>6, Zenon

LEMMA SaysLive ==
    ASSUME NEW p, NEW ceiling, NEW national, NEW code
    PROVE  LET transition == RoundScaled(ceiling * 125, 100)
               margin == RoundScaled(ceiling * 80, 100)
           IN  Says(LiveFlags(p, ceiling, national), code) <=>
                  /\ Exempt(p)
                  /\ \/ code = "ART53_CEILING_CROSSED" /\ national > transition
                     \/ code = "ART53_IN_TRANSITION_ZONE" /\ national \in ceiling + 1 .. transition
                     \/ code = "ART53_MARGIN_SHRINKING" /\ national \in margin + 1 .. ceiling
<1> DEFINE transition == RoundScaled(ceiling * 125, 100)
           margin == RoundScaled(ceiling * 80, 100)
           a == national > transition
           b == national \in ceiling + 1 .. transition
           c == national \in margin + 1 .. ceiling
           A == FlagIf(a, "ART53_CEILING_CROSSED", "urgent")
           B == FlagIf(b, "ART53_IN_TRANSITION_ZONE", "urgent")
           C == FlagIf(c, "ART53_MARGIN_SHRINKING", "attention")
<1>1. LiveFlags(p, ceiling, national) = IF ~Exempt(p) THEN {} ELSE (A \union B) \union C
    BY Zenon DEF LiveFlags
<1>2. a \in BOOLEAN /\ b \in BOOLEAN /\ c \in BOOLEAN
    OBVIOUS
<1> HIDE DEF a, b, c
<1>3. Says(A, code) <=> a /\ code = "ART53_CEILING_CROSSED"
    BY <1>2, SaysIf, Zenon
<1>4. Says(B, code) <=> b /\ code = "ART53_IN_TRANSITION_ZONE"
    BY <1>2, SaysIf, Zenon
<1>5. Says(C, code) <=> c /\ code = "ART53_MARGIN_SHRINKING"
    BY <1>2, SaysIf, Zenon
<1> HIDE DEF A, B, C
<1>6. Says((A \union B) \union C, code) <=> Says(A, code) \/ Says(B, code) \/ Says(C, code)
    BY SaysOf
<1>7. ~Says({}, code)
    BY DEF Says
<1> DEFINE said == \/ code = "ART53_CEILING_CROSSED" /\ a
                   \/ code = "ART53_IN_TRANSITION_ZONE" /\ b
                   \/ code = "ART53_MARGIN_SHRINKING" /\ c
<1>8. Says((A \union B) \union C, code) <=> said
    BY <1>3, <1>4, <1>5, <1>6, Zenon
<1> DEFINE S == (A \union B) \union C
<1> HIDE DEF said, S
<1>9. Says(LiveFlags(p, ceiling, national), code) <=> Exempt(p) /\ said
    <2>1. CASE Exempt(p)
        <3>1. LiveFlags(p, ceiling, national) = S
            BY <1>1, <2>1 DEF S
        <3> QED
            BY <1>8, <2>1, <3>1 DEF S
    <2>2. CASE ~Exempt(p)
        <3>1. LiveFlags(p, ceiling, national) = {}
            BY <1>1, <2>2
        <3> QED
            BY <1>7, <2>2, <3>1
    <2> QED
        BY <2>1, <2>2
<1> QED
    BY <1>9, Zenon DEF said, a, b, c

LEMMA UrgentCodes ==
    ASSUME NEW constants, NEW p, NEW national, NEW f \in Art53Flags(constants, p, national),
           f.code \in {"ART53_CEILING_EXCEEDED_HISTORY", "ART53_CEILING_CROSSED", "ART53_IN_TRANSITION_ZONE"}
    PROVE  f.severity = "urgent"
<1>1. f # Flag("ART53_NO_TURNOVER_INPUT", "attention")
    BY DEF Flag
<1>2. f \in ExemptionFlags(p, constants.ceiling) \/ f \in LiveFlags(p, constants.ceiling, national)
    BY <1>1 DEF Art53Flags
<1>3. CASE f \in ExemptionFlags(p, constants.ceiling)
    BY <1>3 DEF ExemptionFlags, FlagIf, Flag
<1>4. CASE f \in LiveFlags(p, constants.ceiling, national)
    <2>1. /\ f.severity = "urgent" \/ f.code = "ART53_MARGIN_SHRINKING"
        BY <1>4 DEF LiveFlags, FlagIf, Flag
    <2> QED
        BY <2>1
<1> QED
    BY <1>2, <1>3, <1>4

Home(l, year) == TurnoverByScope(l, year)["national"]

LEMMA CodesShown ==
    ASSUME NEW p, p # None, NEW l, NEW day, NEW done, NEW code \in ExemptionCodes
    PROVE  LET flags == BuildModel(p, l, day, done).flags
           IN  code \in {flags[i].code : i \in DOMAIN flags} <=> Says(OfExemption(p, l, day), code)
<1> DEFINE flags == BuildModel(p, l, day, done).flags
           A == OfExemption(p, l, day)
<1>1. /\ \A f \in A : \E i \in DOMAIN flags : flags[i] = f
      /\ \A i \in DOMAIN flags : flags[i] \in A \/ flags[i].code \notin ExemptionCodes
    BY ShownFlags
<1> HIDE DEF flags, A
<1>2. code \in {flags[i].code : i \in DOMAIN flags} <=> Says(A, code)
    BY <1>1 DEF Says
<1> QED
    BY <1>2 DEF flags, A

(* How far up the watch has gone, by the turnover.                         *)
ZoneAt(national) ==
    IF national > Transition THEN 3
    ELSE IF national \in Ceiling + 1 .. Transition THEN 2
    ELSE IF national \in Margin + 1 .. Ceiling THEN 1
    ELSE 0

Watched(p) == p # None /\ p.turnoverPrevious # None /\ Exempt(p)

LEMMA ThresholdsInt == Ceiling \in Int /\ Transition \in Int /\ Margin \in Int /\ Ceiling <= Transition
<1>1. Ceiling \in Nat
    BY ConstantsAssumption DEF Ceiling
<1>2. ASSUME NEW k \in Int PROVE RoundScaled(k, 100) \in Int
    BY DEF RoundScaled, Truncated, Sign, Magnitude
<1>3. Ceiling * 125 \in Int /\ Ceiling * 80 \in Int
    BY <1>1
<1>4. ASSUME NEW k \in Nat, k > 0 PROVE RoundScaled(k * 125, 100) >= k
    <2>1. k * 125 \in Nat /\ k * 125 > 0 /\ 100 \div 2 = 50
        BY <1>4
    <2>2. RoundScaled(k * 125, 100) = (k * 125 + 50) \div 100
        BY <2>1 DEF RoundScaled, Truncated, Sign, Magnitude
    <2> QED
        BY <1>4, <2>1, <2>2
<1>5. RoundScaled(0 * 125, 100) = 0
    BY DEF RoundScaled, Truncated, Sign, Magnitude
<1>6. Ceiling <= Transition
    <2>1. CASE Ceiling = 0
        BY <1>5, <2>1 DEF Transition
    <2>2. CASE Ceiling > 0
        BY <1>1, <1>2, <1>3, <1>4, <2>2 DEF Transition
    <2> QED
        BY <1>1, <2>1, <2>2
<1> QED
    BY <1>1, <1>2, <1>3, <1>6 DEF Transition, Margin

LEMMA HomeGrows ==
    ASSUME NEW l \in Seq(Receipts), NEW y
    PROVE  /\ Home(l, y) \in Int
           /\ \A i \in Receipts : Home(l, y) <= Home(Append(l, i), y) /\ Home(Append(l, i), y) \in Int
<1> DEFINE counted(i) == IF i.date.year = y /\ ScopeOf(i.country) = "national" THEN i.base ELSE 0
           listing(t) == [k \in DOMAIN t |-> counted(t[k])]
<1>1. \A t : Home(t, y) = Total(listing(t))
    BY DEF Home, TurnoverByScope, SumOf
<1>2. \A i \in Receipts : counted(i) \in Nat
    BY ReceiptsAssumption
<1> HIDE DEF counted
<1>3. ASSUME NEW t \in Seq(Receipts) PROVE listing(t) \in Seq(Int) /\ Len(listing(t)) = Len(t)
    <2>1. Len(t) \in Nat /\ DOMAIN t = 1 .. Len(t) /\ \A k \in 1 .. Len(t) : counted(t[k]) \in Int
        BY <1>2
    <2>2. listing(t) \in [1 .. Len(t) -> Int]
        BY <2>1, Zenon
    <2> HIDE DEF listing
    <2> QED
        BY <2>1, <2>2, Listed
<1>4. ASSUME NEW i \in Receipts PROVE Home(l, y) <= Home(Append(l, i), y) /\ Home(Append(l, i), y) \in Int
    <2> DEFINE t == Append(l, i)
               n == Len(l)
    <2>1. n \in Nat /\ t \in Seq(Receipts) /\ Len(t) = n + 1 /\ t[n + 1] = i /\ \A k \in 1 .. n : t[k] = l[k]
        OBVIOUS
    <2> HIDE DEF t
    <2>2. \A k \in 1 .. n : listing(t)[k] = listing(l)[k]
        BY <2>1
    <2>3. listing(t)[n + 1] = counted(i)
        BY <2>1
    <2>4. /\ listing(t) \in Seq(Int) /\ Len(listing(t)) = n + 1
          /\ listing(l) \in Seq(Int) /\ Len(listing(l)) = n
        BY <1>3, <2>1
    <2> HIDE DEF listing
    <2>5. Total(listing(t)) = Total(listing(l)) + listing(t)[n + 1]
        BY <2>2, <2>4, TotalAppended
    <2>6. Total(listing(l)) \in Int /\ counted(i) \in Nat
        BY <1>2, <2>4, TotalInt
    <2> QED
        BY <1>1, <2>3, <2>5, <2>6 DEF t
<1>5. Home(l, y) \in Int
    BY <1>1, <1>3, TotalInt
<1> QED
    BY <1>4, <1>5
LEMMA ZoneShown ==
    ASSUME NoneIsItself, NEW p, NEW l \in Seq(Receipts), NEW day, NEW done
    PROVE  Zone(BuildModel(p, l, day, done)) = IF Watched(p) THEN ZoneAt(Home(l, day.year)) ELSE 0
<1> DEFINE m == BuildModel(p, l, day, done)
           codes == {m.flags[i].code : i \in DOMAIN m.flags}
           n == Home(l, day.year)
<1>0. Zone(m) = CASE "ART53_CEILING_CROSSED" \in codes -> 3
                  [] "ART53_IN_TRANSITION_ZONE" \in codes -> 2
                  [] "ART53_MARGIN_SHRINKING" \in codes -> 1
                  [] OTHER -> 0
    BY DEF Zone
<1>1. /\ "ART53_CEILING_CROSSED" \in ExemptionCodes /\ "ART53_IN_TRANSITION_ZONE" \in ExemptionCodes
      /\ "ART53_MARGIN_SHRINKING" \in ExemptionCodes
    BY DEF ExemptionCodes
<1>2. CASE p = None
    <2>1. \A i \in DOMAIN m.flags : m.flags[i].code \notin ExemptionCodes
        BY <1>2, ShownFlags
    <2>2. /\ "ART53_CEILING_CROSSED" \notin codes /\ "ART53_IN_TRANSITION_ZONE" \notin codes
          /\ "ART53_MARGIN_SHRINKING" \notin codes
        BY <1>1, <2>1
    <2> HIDE DEF m, codes
    <2>3. Zone(m) = 0
        BY <1>0, <2>2
    <2> QED
        BY <1>2, <2>3 DEF Watched, m
<1>3. CASE p # None
    <2> DEFINE A == OfExemption(p, l, day)
    <2>1. /\ "ART53_CEILING_CROSSED" \in codes <=> Says(A, "ART53_CEILING_CROSSED")
          /\ "ART53_IN_TRANSITION_ZONE" \in codes <=> Says(A, "ART53_IN_TRANSITION_ZONE")
          /\ "ART53_MARGIN_SHRINKING" \in codes <=> Says(A, "ART53_MARGIN_SHRINKING")
        BY <1>1, <1>3, CodesShown
    <2>2. Ceiling # None
        BY ConstantsAssumption DEF Ceiling, NoneIsItself
    <2>3. A = IF p.turnoverPrevious = None THEN {Flag("ART53_NO_TURNOVER_INPUT", "attention")}
              ELSE ExemptionFlags(p, Ceiling) \union LiveFlags(p, Ceiling, n)
        BY <2>2 DEF OfExemption, Art53Flags, Home, Ceiling
    <2>4. /\ Says(A, "ART53_CEILING_CROSSED") <=> Watched(p) /\ n > Transition
          /\ Says(A, "ART53_IN_TRANSITION_ZONE") <=> Watched(p) /\ n \in Ceiling + 1 .. Transition
          /\ Says(A, "ART53_MARGIN_SHRINKING") <=> Watched(p) /\ n \in Margin + 1 .. Ceiling
        <3> HIDE DEF A, n
        <3>1. CASE p.turnoverPrevious = None
            <4>1. A = {Flag("ART53_NO_TURNOVER_INPUT", "attention")}
                BY <2>3, <3>1
            <4>2. /\ ~Says(A, "ART53_CEILING_CROSSED") /\ ~Says(A, "ART53_IN_TRANSITION_ZONE")
                  /\ ~Says(A, "ART53_MARGIN_SHRINKING")
                BY <4>1 DEF Says, Flag
            <4> QED
                BY <3>1, <4>2 DEF Watched
        <3>2. CASE p.turnoverPrevious # None
            <4>1. A = ExemptionFlags(p, Ceiling) \union LiveFlags(p, Ceiling, n)
                BY <2>3, <3>2
            <4>2. \A code : Says(A, code) <=> Says(ExemptionFlags(p, Ceiling), code) \/ Says(LiveFlags(p, Ceiling, n), code)
                BY <4>1, SaysOf
            <4>3. /\ ~Says(ExemptionFlags(p, Ceiling), "ART53_CEILING_CROSSED")
                  /\ ~Says(ExemptionFlags(p, Ceiling), "ART53_IN_TRANSITION_ZONE")
                  /\ ~Says(ExemptionFlags(p, Ceiling), "ART53_MARGIN_SHRINKING")
                BY SaysExemption
            <4>4. /\ Says(LiveFlags(p, Ceiling, n), "ART53_CEILING_CROSSED") <=> Exempt(p) /\ n > Transition
                  /\ Says(LiveFlags(p, Ceiling, n), "ART53_IN_TRANSITION_ZONE") <=> Exempt(p) /\ n \in Ceiling + 1 .. Transition
                  /\ Says(LiveFlags(p, Ceiling, n), "ART53_MARGIN_SHRINKING") <=> Exempt(p) /\ n \in Margin + 1 .. Ceiling
                BY SaysLive DEF Transition, Margin
            <4> QED
                BY <1>3, <3>2, <4>2, <4>3, <4>4, Zenon DEF Watched
        <3> QED
            BY <3>1, <3>2
    <2> HIDE DEF m, codes, A, n
    <2>5. Zone(m) = IF Watched(p) THEN ZoneAt(n) ELSE 0
        <3> DEFINE x == n > Transition
                   y == n \in Ceiling + 1 .. Transition
                   z == n \in Margin + 1 .. Ceiling
                   w == Watched(p)
        <3>1. /\ "ART53_CEILING_CROSSED" \in codes <=> w /\ x
              /\ "ART53_IN_TRANSITION_ZONE" \in codes <=> w /\ y
              /\ "ART53_MARGIN_SHRINKING" \in codes <=> w /\ z
            BY <2>1, <2>4, Zenon
        <3>2. ZoneAt(n) = IF x THEN 3 ELSE IF y THEN 2 ELSE IF z THEN 1 ELSE 0
            BY Zenon DEF ZoneAt
        <3>4. ~(x /\ y) /\ ~(x /\ z) /\ ~(y /\ z)
            <4>1. n \in Int
                BY HomeGrows DEF n
            <4> QED
                BY <4>1, ThresholdsInt
        <3> HIDE DEF x, y, z, w
        <3>3. Zone(m) = IF w THEN ZoneAt(n) ELSE 0
            BY <1>0, <3>1, <3>2, <3>4
        <3> QED
            BY <3>3 DEF w
    <2> QED
        BY <2>5 DEF m, n
<1> QED
    BY <1>2, <1>3

LEMMA ZoneRises ==
    ASSUME NEW a \in Int, NEW b \in Int, a <= b PROVE ZoneAt(a) <= ZoneAt(b) /\ ZoneAt(a) >= 0
BY ThresholdsInt DEF ZoneAt

LEMMA RegimeMistaken ==
    ASSUME NEW p, NEW day, Problem("error", "ivaRegime") \in ValidateProfile(p, day)
    PROVE  Exempt(p) /\ (~p.residentPt \/ p.exports)
<1> DEFINE mistaken == p.ivaRegime = "isento_art53" /\ (~p.residentPt \/ p.exports)
<1>1. Problem("error", "ivaRegime") \notin IdentityProblems(p)
    BY DEF IdentityProblems, Raised, Problem
<1>2. Problem("error", "ivaRegime") \in RegimeProblems(p, day)
    BY <1>1 DEF ValidateProfile
<1>3. mistaken
    BY <1>2 DEF RegimeProblems, Raised, Problem
<1> QED
    BY <1>3, Zenon DEF Exempt

LEMMA ExemptionIsSaid ==
    ASSUME NoneIsItself, ScreenInv, Booked, KeptInv, model # None, profile # None
    PROVE  ExemptionSaid
<1> DEFINE p == profile
           l == ledger
           n == Home(l, window.year)
           flags == model.flags
           A == OfExemption(p, l, window.today)
           urgent == {flags[i].code : i \in {j \in DOMAIN flags : flags[j].severity = "urgent"}}
           lost == \/ p.exports \/ ~p.residentPt
                   \/ p.turnoverPrevious > Ceiling \/ n > Ceiling
<1> SUFFICES ASSUME p.turnoverPrevious # None
             PROVE  /\ Exempt(p) /\ lost =>
                         urgent \cap {"ART53_CEILING_EXCEEDED_HISTORY", "ART53_IN_TRANSITION_ZONE",
                                      "ART53_CEILING_CROSSED"} # {}
                    /\ Problem("error", "ivaRegime") \in model.problems =>
                         ~\E i \in DOMAIN flags : flags[i].code = "ART53_EXEMPTION_ACTIVE"
    BY Zenon DEF ExemptionSaid, Home, Ceiling
<1>1. /\ window # None /\ window.year = window.today.year
      /\ model = BuildModel(p, l, window.today, completed)
    BY Zenon DEF ScreenInv, Windowed, OnScreen
<1>2. /\ \A f \in A : \E i \in DOMAIN flags : flags[i] = f
      /\ \A i \in DOMAIN flags : flags[i] \in A \/ flags[i].code \notin ExemptionCodes
    BY <1>1, ShownFlags
<1>3. Ceiling # None
    BY ConstantsAssumption DEF Ceiling, NoneIsItself
<1>4. A = ExemptionFlags(p, Ceiling) \union LiveFlags(p, Ceiling, n)
    BY <1>1, <1>3, Zenon DEF OfExemption, Art53Flags, Home, Ceiling
<1>5. \A code : Says(A, code) <=> Says(ExemptionFlags(p, Ceiling), code) \/ Says(LiveFlags(p, Ceiling, n), code)
    BY <1>4, SaysOf
<1>6. ASSUME NEW f \in A,
             f.code \in {"ART53_CEILING_EXCEEDED_HISTORY", "ART53_CEILING_CROSSED", "ART53_IN_TRANSITION_ZONE"}
      PROVE  f.severity = "urgent"
    BY <1>6, UrgentCodes DEF OfExemption
<1>7. n \in Int /\ Ceiling \in Int /\ Transition \in Int
    BY HomeGrows, ThresholdsInt DEF Booked
<1>8. p.turnoverPrevious \in Int
    BY DEF KeptInv, Stored
<1>9. model.problems = ValidateProfile(p, window.today)
    BY <1>1 DEF BuildModel, Flagged, ModelOf
<1>10. /\ Says(ExemptionFlags(p, Ceiling), "ART53_CEILING_EXCEEDED_HISTORY") <=>
             Exempt(p) /\ ~QualifiesHistorically(p, Ceiling)
       /\ Says(ExemptionFlags(p, Ceiling), "ART53_EXEMPTION_ACTIVE") <=>
             Exempt(p) /\ QualifiesHistorically(p, Ceiling)
    BY SaysExemption
<1>11. /\ Says(LiveFlags(p, Ceiling, n), "ART53_CEILING_CROSSED") <=> Exempt(p) /\ n > Transition
       /\ Says(LiveFlags(p, Ceiling, n), "ART53_IN_TRANSITION_ZONE") <=>
             Exempt(p) /\ n \in Ceiling + 1 .. Transition
       /\ ~Says(LiveFlags(p, Ceiling, n), "ART53_EXEMPTION_ACTIVE")
    BY SaysLive DEF Transition
<1> HIDE DEF A, n, flags
<1>12. ASSUME Exempt(p), lost
       PROVE  \E code \in {"ART53_CEILING_EXCEEDED_HISTORY", "ART53_CEILING_CROSSED",
                           "ART53_IN_TRANSITION_ZONE"} : Says(A, code)
    <2>1. CASE n > Ceiling
        <3>1. n > Transition \/ n \in Ceiling + 1 .. Transition
            BY <1>7, <2>1
        <3> QED
            BY <1>5, <1>11, <1>12, <3>1
    <2>2. CASE ~(n > Ceiling)
        <3>1. ~QualifiesHistorically(p, Ceiling)
            <4>1. p.turnoverPrevious > Ceiling => ~(p.turnoverPrevious <= Ceiling)
                BY <1>7, <1>8
            <4> QED
                BY <1>12, <2>2, <4>1, Zenon DEF QualifiesHistorically
        <3> QED
            BY <1>5, <1>10, <1>12, <3>1
    <2> QED
        BY <2>1, <2>2
<1>13. ASSUME Exempt(p), lost
       PROVE  urgent \cap {"ART53_CEILING_EXCEEDED_HISTORY", "ART53_IN_TRANSITION_ZONE",
                           "ART53_CEILING_CROSSED"} # {}
    <2>1. PICK f \in A : f.code \in {"ART53_CEILING_EXCEEDED_HISTORY", "ART53_CEILING_CROSSED",
                                     "ART53_IN_TRANSITION_ZONE"}
        BY <1>12, <1>13 DEF Says
    <2>2. PICK i \in DOMAIN flags : flags[i] = f
        BY <1>2
    <2>3. f.severity = "urgent"
        BY <1>6, <2>1
    <2>4. f.code \in urgent
        BY <2>2, <2>3
    <2> HIDE DEF urgent
    <2> QED
        BY <2>1, <2>4
<1>14. ASSUME Problem("error", "ivaRegime") \in model.problems,
              NEW i \in DOMAIN flags, flags[i].code = "ART53_EXEMPTION_ACTIVE"
       PROVE  FALSE
    <2>1. Exempt(p) /\ (~p.residentPt \/ p.exports)
        BY <1>9, <1>14, RegimeMistaken
    <2>2. ~QualifiesHistorically(p, Ceiling)
        BY <2>1, Zenon DEF QualifiesHistorically
    <2>3. "ART53_EXEMPTION_ACTIVE" \in ExemptionCodes
        BY DEF ExemptionCodes
    <2>4. flags[i] \in A
        BY <1>2, <1>14, <2>3
    <2>5. Says(A, "ART53_EXEMPTION_ACTIVE")
        BY <1>14, <2>4 DEF Says
    <2> QED
        BY <1>5, <1>10, <1>11, <2>2, <2>5
<1> HIDE DEF urgent, lost
<1> QED
    BY <1>13, <1>14

LEMMA WatchRises ==
    ASSUME NoneIsItself, ScreenInv, ScreenInv', Booked, [Next]_vars,
           model # None, model' # None, window'.year = window.year, profile' = profile
    PROVE  Zone(model) <= Zone(model')
<1>1. /\ window.year = window.today.year
      /\ model = BuildModel(profile, ledger, window.today, completed)
    BY Zenon DEF ScreenInv, Windowed, OnScreen
<1>2. /\ window'.year = window'.today.year
      /\ model' = BuildModel(profile', ledger', window'.today, completed')
    BY Zenon DEF ScreenInv, Windowed, OnScreen
<1>3. ledger' = ledger \/ \E i \in Receipts : ledger' = Append(ledger, i)
    BY Zenon DEF Next, PassDay, Open, OpenProfile, CloseProfile, Type, SaveProfile, RecordInvoice,
       Complete, vars
<1>4. ledger \in Seq(Receipts)
    BY DEF Booked
<1>5. ledger' \in Seq(Receipts)
    BY <1>3, <1>4
<1> DEFINE y == window.year
<1>6. PICK d : d = window'.today
    OBVIOUS
<1>7. PICK k : k = ledger'
    OBVIOUS
<1>8. PICK c : c = completed'
    OBVIOUS
<1>9. /\ d.year = y /\ k \in Seq(Receipts) /\ model' = BuildModel(profile, k, d, c)
      /\ (k = ledger \/ \E i \in Receipts : k = Append(ledger, i))
    BY <1>2, <1>3, <1>5, <1>6, <1>7, <1>8
<1>10. Zone(model) = IF Watched(profile) THEN ZoneAt(Home(ledger, y)) ELSE 0
    BY <1>1, <1>4, ZoneShown
<1>11. Zone(model') = IF Watched(profile) THEN ZoneAt(Home(k, y)) ELSE 0
    BY <1>9, ZoneShown
<1>12. /\ Home(ledger, y) \in Int /\ Home(k, y) \in Int /\ Home(ledger, y) <= Home(k, y)
    <2>1. Home(ledger, y) \in Int /\ Home(k, y) \in Int
        BY <1>4, <1>9, HomeGrows
    <2>2. CASE k = ledger
        BY <2>1, <2>2
    <2>3. CASE \E i \in Receipts : k = Append(ledger, i)
        BY <1>4, <2>1, <2>3, HomeGrows
    <2> QED
        BY <1>9, <2>1, <2>2, <2>3
<1>13. ZoneAt(Home(ledger, y)) <= ZoneAt(Home(k, y))
    BY <1>12, ZoneRises
<1> HIDE DEF y
<1> QED
    BY <1>10, <1>11, <1>13

(* Whoever has lost the right to the exemption is told so, urgently, and   *)
(* within a year, with the same profile, the watch on the ceiling never    *)
(* steps back, whatever is registered, wherever the client is and whenever *)
(* the window is opened again (flags.rs, art53_flags; model.rs,            *)
(* build_model).                                                           *)
THEOREM CeilingIsWatched == ASSUME NoneIsItself PROVE Spec => CeilingWatched
<1> DEFINE Told == model # None /\ profile # None => ExemptionSaid
           Rises == model # None /\ model' # None /\ window'.year = window.year /\ profile' = profile
                    => Zone(model) <= Zone(model')
<1>1. ScreenInv /\ Clocked /\ Booked /\ KeptInv => Told
    BY ExemptionIsSaid
<1>2. ScreenInv /\ ScreenInv' /\ Booked /\ [Next]_vars => [Rises]_vars
    BY WatchRises
<1>3. NoneIsNoFunction
    BY DEF NoneIsItself, NoneIsApart
<1>4. Spec => []ScreenInv
    BY <1>3, ScreenHolds
<1>5. Spec => [](Clocked /\ Booked)
    BY <1>3, ClockedAndBooked
<1>6. Spec => [](KeptInv /\ Regimes)
    BY KeptHolds
<1> HIDE DEF Told, Rises
<1>7. Spec => []Told /\ [][Rises]_vars
    BY <1>1, <1>2, <1>4, <1>5, <1>6, PTL DEF Spec
<1> QED
    BY <1>7 DEF CeilingWatched, Told, Rises

(***************************************************************************)
(* What is proved of Calendar carries over.  Proved is Calendar once more, *)
(* as CalendarProofs extends it: each of its operators is the one of the   *)
(* same name in Calendar, from the arithmetic up to the specification.     *)
(***************************************************************************)
Proved == INSTANCE CalendarProofs WITH
    Rules <- RuleIds,
    Packs <- <<[year |-> Pack.year, published |-> Published]>>,
    Profiles <- AgendaProfiles,
    release <- 1,
    profile <- AgendaProfile(profile),
    agenda <- AgendaOf(model)

LEMMA SameRecord == ASSUME NEW y, NEW m, NEW d PROVE Proved!Date(y, m, d) = Calendar!Date(y, m, d)
BY DEF Proved!Date, Calendar!Date

LEMMA SameLength == ASSUME NEW y, NEW m PROVE Proved!DaysInMonth(y, m) = Calendar!DaysInMonth(y, m)
BY DEF Proved!DaysInMonth, Calendar!DaysInMonth, Proved!IsLeapYear, Calendar!IsLeapYear

LEMMA SameNumber == ASSUME NEW d PROVE Proved!DaysFromCivil(d) = Calendar!DaysFromCivil(d)
BY DEF Proved!DaysFromCivil, Calendar!DaysFromCivil, Proved!MarchYear, Calendar!MarchYear,
       Proved!DayOfMarchYear, Calendar!DayOfMarchYear

LEMMA SameDaysFrom == ASSUME NEW n PROVE Proved!CivilFromDays(n) = Calendar!CivilFromDays(n)
BY
   DEF Proved!CivilFromDays, Calendar!CivilFromDays, Proved!YearOfEra, Calendar!YearOfEra,
       Proved!Date, Calendar!Date

LEMMA SameAdd == ASSUME NEW d, NEW n PROVE Proved!AddDays(d, n) = Calendar!AddDays(d, n)
BY SameNumber, SameDaysFrom DEF Proved!AddDays, Calendar!AddDays

LEMMA SameOpen == ASSUME NEW d, NEW h PROVE Proved!OpenDay(d, h) = Calendar!OpenDay(d, h)
BY SameNumber, Zenon
   DEF Proved!OpenDay, Calendar!OpenDay, Proved!IsWeekend, Calendar!IsWeekend, Proved!DayOfWeek,
       Calendar!DayOfWeek

LEMMA SameBusiness == ASSUME NEW d, NEW h PROVE Proved!NextBusinessDay(d, h) = Calendar!NextBusinessDay(d, h)
<1> DEFINE candidate(k) == IF k = 0 THEN d ELSE Calendar!AddDays(d, k)
           open(k) == Calendar!OpenDay(candidate(k), h)
           first(k) == open(k) /\ \A j \in 0 .. k - 1 : ~open(j)
           also(k) == IF k = 0 THEN d ELSE Proved!AddDays(d, k)
           alike(k) == Proved!OpenDay(also(k), h) /\ \A j \in 0 .. k - 1 : ~Proved!OpenDay(also(j), h)
<1>1. Calendar!NextBusinessDay(d, h) =
          IF \E k \in 0 .. 9 : first(k) THEN candidate(CHOOSE k \in 0 .. 9 : first(k)) ELSE candidate(10)
    BY DEF Calendar!NextBusinessDay
<1>2. Proved!NextBusinessDay(d, h) =
          IF \E k \in 0 .. 9 : alike(k) THEN also(CHOOSE k \in 0 .. 9 : alike(k)) ELSE also(10)
    BY DEF Proved!NextBusinessDay
<1>3. \A k : also(k) = candidate(k)
    BY SameAdd
<1>4. \A k : Proved!OpenDay(also(k), h) = open(k)
    BY <1>3, SameOpen
<1> HIDE DEF open
<1>5. \A k \in 0 .. 9 : alike(k) <=> first(k)
    BY <1>4
<1>6. \A i, j \in 0 .. 9 : first(i) /\ first(j) => i = j
    <2> SUFFICES ASSUME NEW i \in 0 .. 9, NEW j \in 0 .. 9, first(i), first(j), i < j PROVE FALSE
        OBVIOUS
    <2>1. i \in 0 .. j - 1
        OBVIOUS
    <2> QED
        BY <2>1
<1> HIDE DEF candidate, also, first, alike
<1>7. CASE \E k \in 0 .. 9 : first(k)
    <2>1. PICK k \in 0 .. 9 : first(k)
        BY <1>7
    <2>2. (CHOOSE j \in 0 .. 9 : first(j)) = k
        BY <1>6, <2>1
    <2>3. (CHOOSE j \in 0 .. 9 : alike(j)) = k
        BY <1>5, <1>6, <2>1
    <2> QED
        BY <1>1, <1>2, <1>3, <1>5, <1>7, <2>2, <2>3
<1>8. CASE ~\E k \in 0 .. 9 : first(k)
    BY <1>1, <1>2, <1>3, <1>5, <1>8
<1> QED
    BY <1>7, <1>8

LEMMA SameMonths == ASSUME NEW d, NEW n PROVE Proved!AddMonths(d, n) = Calendar!AddMonths(d, n)
BY SameLength DEF Proved!AddMonths, Calendar!AddMonths, Proved!SmallerOf, Calendar!SmallerOf,
       Proved!Date, Calendar!Date

LEMMA SameEnds ==
    ASSUME NEW y, NEW m
    PROVE  /\ Proved!MonthStart(y, m) = Calendar!MonthStart(y, m)
           /\ Proved!MonthEnd(y, m) = Calendar!MonthEnd(y, m)
BY SameLength DEF Proved!MonthStart, Calendar!MonthStart, Proved!MonthEnd, Calendar!MonthEnd,
       Proved!Date, Calendar!Date

LEMMA SameQuarters ==
    ASSUME NEW y, NEW q
    PROVE  /\ Proved!QuarterStart(y, q) = Calendar!QuarterStart(y, q)
           /\ Proved!QuarterEnd(y, q) = Calendar!QuarterEnd(y, q)
BY SameEnds, Zenon
   DEF Proved!QuarterStart, Calendar!QuarterStart, Proved!QuarterEnd, Calendar!QuarterEnd

LEMMA SameSurvivors == ASSUME NEW S PROVE Proved!Survivors(S) = Calendar!Survivors(S)
BY DEF Proved!Survivors, Calendar!Survivors, Proved!Before, Calendar!Before,
       Proved!MonthDayDistance, Calendar!MonthDayDistance

LEMMA SamePublished ==
    ASSUME NEW pack, NEW r, NEW y PROVE Proved!PublishedFor(pack, r, y) = Calendar!PublishedFor(pack, r, y)
BY DEF Proved!PublishedFor, Calendar!PublishedFor

LEMMA SamePattern == ASSUME NEW pack, NEW r PROVE Proved!Pattern(pack, r) = Calendar!Pattern(pack, r)
BY SameSurvivors DEF Proved!Pattern, Calendar!Pattern

LEMMA SameMonthSeeds == ASSUME NEW r, NEW y PROVE Proved!MonthSeeds(r, y) = Calendar!MonthSeeds(r, y)
BY SameEnds, SameMonths
   DEF Proved!MonthSeeds, Calendar!MonthSeeds, Proved!LaggedSeed, Calendar!LaggedSeed,
       Proved!Seed, Calendar!Seed

LEMMA SameQuarterSeeds == ASSUME NEW r, NEW y PROVE Proved!QuarterSeeds(r, y) = Calendar!QuarterSeeds(r, y)
BY SameQuarters, SameMonths
   DEF Proved!QuarterSeeds, Calendar!QuarterSeeds, Proved!LaggedSeed, Calendar!LaggedSeed,
       Proved!Seed, Calendar!Seed

LEMMA SameAnnualSeeds ==
    ASSUME NEW pack, NEW r, NEW y PROVE Proved!AnnualSeeds(pack, r, y) = Calendar!AnnualSeeds(pack, r, y)
BY
   DEF Proved!AnnualSeeds, Calendar!AnnualSeeds, Proved!AnnualDueMonths,
       Calendar!AnnualDueMonths, Proved!Pattern, Calendar!Pattern, Proved!PublishedFor,
       Calendar!PublishedFor, Proved!Survivors, Calendar!Survivors, Proved!Before,
       Calendar!Before, Proved!MonthDayDistance, Calendar!MonthDayDistance, Proved!Cardinality,
       Calendar!Cardinality, Proved!Seed, Calendar!Seed, Proved!Date, Calendar!Date

LEMMA SamePeriods ==
    ASSUME NEW pack, NEW r, NEW y PROVE Proved!Periods(pack, r, y) = Calendar!Periods(pack, r, y)
BY SameMonthSeeds, SameQuarterSeeds, SameAnnualSeeds, Zenon
   DEF Proved!Periods, Calendar!Periods, Proved!Seed, Calendar!Seed, Proved!Date, Calendar!Date

LEMMA SameResolved ==
    ASSUME NEW pack, NEW r, NEW seed
    PROVE  Proved!ResolveDueDate(pack, r, seed) = Calendar!ResolveDueDate(pack, r, seed)
BY SameBusiness
   DEF Proved!ResolveDueDate, Calendar!ResolveDueDate, Proved!PublishedIn, Calendar!PublishedIn,
       Proved!PublishedFor, Calendar!PublishedFor, Proved!Before, Calendar!Before,
       Proved!LegalDay, Calendar!LegalDay, Proved!DaysInMonth, Calendar!DaysInMonth,
       Proved!IsLeapYear, Calendar!IsLeapYear, Proved!SmallerOf, Calendar!SmallerOf,
       Proved!Date, Calendar!Date, Proved!Resolved, Calendar!Resolved, Proved!MonthEnd,
       Calendar!MonthEnd

LEMMA SameStatus ==
    ASSUME NEW r, NEW due, NEW day, NEW trackFrom, NEW done
    PROVE  Proved!Status(r, due, day, trackFrom, done) = Calendar!Status(r, due, day, trackFrom, done)
<1>1. Proved!DaysBetween(day, due) = Calendar!DaysBetween(day, due)
    BY SameNumber DEF Proved!DaysBetween, Calendar!DaysBetween
<1>2. Proved!Earlier(due, trackFrom) = Calendar!Earlier(due, trackFrom)
    BY DEF Proved!Earlier, Calendar!Earlier
<1> QED
    BY <1>1, <1>2, Zenon
       DEF Proved!Status, Calendar!Status, Proved!StatusByDate, Calendar!StatusByDate,
       Proved!DueSoonDays, Calendar!DueSoonDays

LEMMA SameInstance ==
    ASSUME NEW pack, NEW r, NEW seed, NEW day, NEW trackFrom, NEW done
    PROVE  Proved!Instance(pack, r, seed, day, trackFrom, done) = Calendar!Instance(pack, r, seed, day, trackFrom, done)
BY SameResolved, SameStatus, Zenon
   DEF Proved!Instance, Calendar!Instance, Proved!InstanceOn, Calendar!InstanceOn

LEMMA SameAgenda ==
    ASSUME NEW pack, NEW who, NEW y, NEW day, NEW done
    PROVE  Proved!BuildAgenda(pack, who, y, day, done) = Calendar!BuildAgenda(pack, who, y, day, done)
<1>1. \A r : Proved!NotApplicable(r, y) = Calendar!NotApplicable(r, y)
    BY DEF Proved!NotApplicable, Calendar!NotApplicable, Proved!Date, Calendar!Date
<1>2. \A r : {Proved!Instance(pack, r, seed, day, who.trackFrom, done) : seed \in Proved!Periods(pack, r, y)}
           = {Calendar!Instance(pack, r, seed, day, who.trackFrom, done) : seed \in Calendar!Periods(pack, r, y)}
    BY SameInstance, SamePeriods
<1>3. {Proved!NotApplicable(r, y) : r \in RuleIds \ who.applies}
      = {Calendar!NotApplicable(r, y) : r \in RuleIds \ who.applies}
    BY <1>1
<1> DEFINE drawn(r) == {Proved!Instance(pack, r, seed, day, who.trackFrom, done) :
                           seed \in Proved!Periods(pack, r, y)}
           built(r) == {Calendar!Instance(pack, r, seed, day, who.trackFrom, done) :
                           seed \in Calendar!Periods(pack, r, y)}
<1>4. \A r : drawn(r) = built(r)
    BY <1>2
<1>5. /\ Proved!BuildAgenda(pack, who, y, day, done) =
             {Proved!NotApplicable(r, y) : r \in RuleIds \ who.applies} \union
             UNION {drawn(r) : r \in who.applies}
      /\ Calendar!BuildAgenda(pack, who, y, day, done) =
             {Calendar!NotApplicable(r, y) : r \in RuleIds \ who.applies} \union
             UNION {built(r) : r \in who.applies}
    BY DEF Proved!BuildAgenda, Calendar!BuildAgenda
<1> HIDE DEF drawn, built
<1>6. {drawn(r) : r \in who.applies} = {built(r) : r \in who.applies}
    BY <1>4
<1> QED
    BY <1>3, <1>5, <1>6, Zenon

LEMMA SameSuccessor == ASSUME NEW d PROVE Proved!NextDay(d) = Calendar!NextDay(d)
BY
   DEF Proved!NextDay, Calendar!NextDay, Proved!DaysInMonth, Calendar!DaysInMonth, Proved!Date,
       Calendar!Date, Proved!IsLeapYear, Calendar!IsLeapYear

LEMMA SameDifference ==
    ASSUME NEW a, NEW b PROVE Proved!DaysBetween(a, b) = Calendar!DaysBetween(a, b)
BY SameNumber DEF Proved!DaysBetween, Calendar!DaysBetween

LEMMA SameCivil == ASSUME NEW d PROVE Proved!CivilDate(d) = Calendar!CivilDate(d)
BY
   DEF Proved!CivilDate, Calendar!CivilDate, Proved!DaysInMonth, Calendar!DaysInMonth,
       Proved!IsLeapYear, Calendar!IsLeapYear

LEMMA SameWeekday == ASSUME NEW d PROVE Proved!DayOfWeek(d) = Calendar!DayOfWeek(d)
BY SameNumber DEF Proved!DayOfWeek, Calendar!DayOfWeek

LEMMA SameIds ==
    /\ \A i : Proved!Id(i) = Calendar!Id(i)
    /\ Proved!Actionable = Calendar!Actionable
    /\ \A s : Proved!Rank(s) = Calendar!Rank(s)
    /\ Proved!DueSoonDays = Calendar!DueSoonDays
    /\ \A S : Proved!Cardinality(S) = Calendar!Cardinality(S)
BY
   DEF Proved!Id, Calendar!Id, Proved!Actionable, Calendar!Actionable, Proved!Rank,
       Calendar!Rank, Proved!DueSoonDays, Calendar!DueSoonDays, Proved!Cardinality,
       Calendar!Cardinality

LEMMA SameInit == Proved!Init <=> Calendar!Init
BY DEF Proved!Init, Calendar!Init

LEMMA SameRebuilt == Proved!Rebuilt <=> Calendar!Rebuilt
<1>1. Proved!BuildAgenda(<<ThePack>>[1], AgendaProfile(profile'), window'.year, window'.today, completed')
      = Calendar!BuildAgenda(<<ThePack>>[1], AgendaProfile(profile'), window'.year, window'.today, completed')
    BY SameAgenda
<1> QED
    BY <1>1 DEF Proved!Rebuilt, Calendar!Rebuilt, ThePack

LEMMA SameVars == Proved!vars = Calendar!vars
BY DEF Proved!vars, Calendar!vars

LEMMA SameSteps == Proved!Next <=> Calendar!Next
<1>1. Proved!PassDay <=> Calendar!PassDay
    BY SameSuccessor, SameDifference, Zenon DEF Proved!PassDay, Calendar!PassDay
<1>2. Proved!Open <=> Calendar!Open
    BY SameRebuilt, Zenon DEF Proved!Open, Calendar!Open, Proved!clock, Calendar!clock
<1>3. Proved!Complete <=> Calendar!Complete
    BY SameRebuilt, SameIds, Zenon
       DEF Proved!Complete, Calendar!Complete, Proved!clock, Calendar!clock
<1>4. Proved!SaveProfile <=> Calendar!SaveProfile
    BY SameRebuilt, Zenon
       DEF Proved!SaveProfile, Calendar!SaveProfile, Proved!clock, Calendar!clock
<1> QED
    BY <1>1, <1>2, <1>3, <1>4, Zenon DEF Proved!Next, Calendar!Next

LEMMA SameSpec == Calendar!Spec <=> Proved!Spec
<1>1. [Proved!Next]_(Proved!vars) <=> [Calendar!Next]_(Calendar!vars)
    BY SameVars, SameSteps DEF Proved!vars, Calendar!vars
<1> QED
    BY <1>1, SameInit, PTL DEF Proved!Spec, Calendar!Spec

LEMMA SameTypes == Proved!TypeOK <=> Calendar!TypeOK
BY SameCivil, Zenon DEF Proved!TypeOK, Calendar!TypeOK, Proved!Statuses, Calendar!Statuses

LEMMA SameIdsUnique == Proved!UniqueIds <=> Calendar!UniqueIds
BY SameIds, Zenon DEF Proved!UniqueIds, Calendar!UniqueIds

LEMMA SameAsSaid == Proved!DateAsSaid <=> Calendar!DateAsSaid
<1>1. \A i : Proved!LastPublished(i) <=> Calendar!LastPublished(i)
    BY
       DEF Proved!LastPublished, Calendar!LastPublished, Proved!PublishedFor,
           Calendar!PublishedFor, Proved!MonthDayDistance, Calendar!MonthDayDistance
<1>2. \A d, y, m : Proved!LegalDay(d, y, m) = Calendar!LegalDay(d, y, m)
    BY
       DEF Proved!LegalDay, Calendar!LegalDay, Proved!DaysInMonth, Calendar!DaysInMonth,
           Proved!IsLeapYear, Calendar!IsLeapYear
<1>3. \A i : Proved!Workable(i) <=> Calendar!Workable(i)
    BY <1>2, SameWeekday, Zenon DEF Proved!Workable, Calendar!Workable
<1> QED
    BY <1>1, <1>3, Zenon DEF Proved!DateAsSaid, Calendar!DateAsSaid

LEMMA SameForward ==
    /\ Proved!NeverGoesBack <=> Calendar!NeverGoesBack
    /\ Proved!WarnedBeforeLate <=> Calendar!WarnedBeforeLate
<1>1. [AgendaProfile(profile)' = AgendaProfile(profile) =>
           \A i \in AgendaOf(model) \ AgendaOf(model)' : \A j \in AgendaOf(model)' :
               Proved!Id(j) = Proved!Id(i) => Proved!Rank(i.status) <= Proved!Rank(j.status)]_(Proved!vars)
      <=>
      [AgendaProfile(profile)' = AgendaProfile(profile) =>
           \A i \in AgendaOf(model) \ AgendaOf(model)' : \A j \in AgendaOf(model)' :
               Calendar!Id(j) = Calendar!Id(i) => Calendar!Rank(i.status) <= Calendar!Rank(j.status)]_(Calendar!vars)
    BY DEF Proved!Id, Calendar!Id, Proved!Rank, Calendar!Rank, Proved!vars, Calendar!vars
<1>2. [/\ AgendaProfile(profile)' = AgendaProfile(profile) /\ window # None /\ window' # None
           /\ Proved!DaysBetween(window.today, window'.today) <= Proved!DueSoonDays
           => \A i \in AgendaOf(model) \ AgendaOf(model)' : \A j \in AgendaOf(model)' :
              i.status = "Future" /\ Proved!Id(j) = Proved!Id(i) => j.status # "Overdue"]_(Proved!vars)
      <=>
      [/\ AgendaProfile(profile)' = AgendaProfile(profile) /\ window # None /\ window' # None
           /\ Calendar!DaysBetween(window.today, window'.today) <= Calendar!DueSoonDays
           => \A i \in AgendaOf(model) \ AgendaOf(model)' : \A j \in AgendaOf(model)' :
              i.status = "Future" /\ Calendar!Id(j) = Calendar!Id(i) => j.status # "Overdue"]_(Calendar!vars)
    BY SameDifference
       DEF Proved!Id, Calendar!Id, Proved!DueSoonDays, Calendar!DueSoonDays, Proved!vars,
           Calendar!vars
<1>3. Proved!NeverGoesBack <=> Calendar!NeverGoesBack
    BY <1>1, PTL DEF Proved!NeverGoesBack, Calendar!NeverGoesBack
<1>4. Proved!WarnedBeforeLate <=> Calendar!WarnedBeforeLate
    BY <1>2, PTL DEF Proved!WarnedBeforeLate, Calendar!WarnedBeforeLate
<1> QED
    BY <1>3, <1>4

(* What Calendar assumes, this module assumes of its own constants.        *)
LEMMA SameAssumed == Proved!StartDaysAssumption /\ Proved!BoundsAssumption /\ Proved!RulesAssumption /\ Proved!PlausibleRules /\ Proved!PacksAssumption /\ Proved!PublishedDates /\ Proved!OneAMonth /\ Proved!ClearOfWeekends /\ Proved!ProfilesAssumption
<1>1. Proved!StartDaysAssumption
    BY SameCivil, CalendarAssumption DEF Proved!StartDaysAssumption, Calendar!StartDaysAssumption
<1>2. Proved!BoundsAssumption
    BY CalendarAssumption DEF Proved!BoundsAssumption, Calendar!BoundsAssumption
<1>3. Proved!RulesAssumption
    BY CalendarAssumption DEF Proved!RulesAssumption, Calendar!RulesAssumption
<1>4. Proved!PlausibleRules
    BY CalendarAssumption DEF Proved!PlausibleRules, Calendar!PlausibleRules
<1>5. Proved!PacksAssumption
    BY CalendarAssumption DEF Proved!PacksAssumption, Calendar!PacksAssumption
<1>6. Proved!PublishedDates
    BY SameCivil, SameRecord, CalendarAssumption
       DEF Proved!PublishedDates, Calendar!PublishedDates
<1>7. Proved!OneAMonth
    BY CalendarAssumption DEF Proved!OneAMonth, Calendar!OneAMonth
<1>8. Proved!ClearOfWeekends
    BY CalendarAssumption DEF Proved!ClearOfWeekends, Calendar!ClearOfWeekends
<1>9. Proved!ProfilesAssumption
    BY CalendarAssumption DEF Proved!ProfilesAssumption, Calendar!ProfilesAssumption
<1> QED
    BY <1>1, <1>2, <1>3, <1>4, <1>5, <1>6, <1>7, <1>8, <1>9

LEMMA ProvedOfAgenda ==
    Proved!Spec => /\ [](Proved!TypeOK /\ Proved!UniqueIds /\ Proved!DateAsSaid)
                   /\ Proved!NeverGoesBack /\ Proved!WarnedBeforeLate
<1>1. Proved!Spec => []Proved!TypeOK
    BY SameAssumed, Proved!AgendaWellFormed, PTL
<1>2. Proved!Spec => []Proved!UniqueIds
    BY SameAssumed, Proved!IdsUnique, PTL
<1>3. Proved!Spec => []Proved!DateAsSaid
    BY SameAssumed, Proved!DatesAsSaid, PTL
<1>4. Proved!Spec => Proved!NeverGoesBack
    BY SameAssumed, Proved!LinesNeverGoBack, PTL
<1>5. Proved!Spec => Proved!WarnedBeforeLate
    BY SameAssumed, Proved!NobodyLateUnwarned, PTL
<1> QED
    BY <1>1, <1>2, <1>3, <1>4, <1>5, PTL

(* The agenda on screen is all that was proved of Calendar's: its dates    *)
(* are days of the calendar, no two lines share an id, every date is what  *)
(* its line says of it, and while the rules that apply stay no line goes   *)
(* back or is late unwarned, whatever is typed, saved, registered and      *)
(* marked in between (calendar.rs, build_agenda; model.rs, build_model).   *)
THEOREM AgendaCarriesOver ==
    ASSUME NoneIsNoFunction
    PROVE  Spec => /\ [](Calendar!TypeOK /\ Calendar!UniqueIds /\ Calendar!DateAsSaid)
                   /\ Calendar!NeverGoesBack /\ Calendar!WarnedBeforeLate
<1>1. Spec => Calendar!Spec
    BY CalendarImplemented DEF RefinesCalendar
<1> QED
    BY <1>1, SameSpec, ProvedOfAgenda, SameTypes, SameIdsUnique, SameAsSaid, SameForward, PTL

(***************************************************************************)
(* The types.                                                              *)
(***************************************************************************)
LEMMA OnesAdded ==
    ASSUME NEW n \in Nat PROVE Total([k \in 1 .. n |-> 1]) = n
<1> DEFINE ones == [k \in 1 .. n |-> 1]
           upTo == [k \in 0 .. n |-> k]
<1>1. ones \in [1 .. n -> Int]
    OBVIOUS
<1>2. ones \in Seq(Int) /\ Len(ones) = n
    <2> HIDE DEF ones
    <2> QED
        BY <1>1, Listed
<1>3. Sums(upTo, ones, n)
    <2>1. upTo \in [0 .. n -> Int] /\ upTo[0] = 0
        OBVIOUS
    <2>2. \A k \in 1 .. n : upTo[k] = upTo[k - 1] + ones[k]
        OBVIOUS
    <2> QED
        BY <2>1, <2>2 DEF Sums
<1>4. upTo[n] = n
    OBVIOUS
<1> HIDE DEF ones, upTo
<1>5. Total(ones) = n
    BY <1>2, <1>3, <1>4, TotalIs
<1> QED
    BY <1>5 DEF ones

LEMMA CountsInvoices ==
    ASSUME NEW l \in Seq(Receipts), NEW start, NEW end
    PROVE  PeriodTotals(l, start, end).count \in 0 .. Len(l)
<1> DEFINE chosen == [k \in 1 .. Len(l) |-> IF InRange(l[k], start, end) THEN 1 ELSE 0]
           ones == [k \in 1 .. Len(l) |-> 1]
<1>0. Len(l) \in Nat /\ DOMAIN l = 1 .. Len(l)
    OBVIOUS
<1>1. PeriodTotals(l, start, end).count = Total(chosen)
    BY <1>0 DEF PeriodTotals, TotalsOf, SumOf
<1>2. /\ chosen \in [1 .. Len(l) -> Int] /\ ones \in [1 .. Len(l) -> Int]
      /\ \A k \in 1 .. Len(l) : 0 <= chosen[k] /\ chosen[k] <= ones[k]
    OBVIOUS
<1>3. Total(ones) = Len(l)
    BY <1>0, OnesAdded
<1> HIDE DEF chosen, ones
<1>4. chosen \in Seq(Int) /\ Len(chosen) = Len(l)
    BY <1>0, <1>2, Listed
<1>5. ones \in Seq(Int) /\ Len(ones) = Len(l)
    BY <1>0, <1>2, Listed
<1>6. 0 <= Total(chosen)
    BY <1>2, <1>4, TotalNat
<1>7. Total(chosen) <= Total(ones)
    BY <1>2, <1>4, <1>5, TotalMonotone
<1>8. Total(chosen) \in Int
    BY <1>4, TotalInt
<1> QED
    BY <1>0, <1>1, <1>3, <1>6, <1>7, <1>8

Worked == work \in 0 .. MaxWork

LEMMA WorkBounded == Spec => []Worked
<1>1. Init => Worked
    BY WorkAssumption DEF Init, Worked
<1>2. Worked /\ [Next]_vars => Worked'
    <2> SUFFICES ASSUME Worked, [Next]_vars PROVE Worked'
        OBVIOUS
    <2>1. CASE Type \/ RecordInvoice \/ Complete
        <3>1. work < MaxWork /\ work' = work + 1
            BY <2>1, Zenon DEF Type, RecordInvoice, Complete, Works
        <3> QED
            BY <3>1, WorkAssumption DEF Worked
    <2>2. CASE PassDay \/ Open \/ OpenProfile \/ CloseProfile \/ SaveProfile \/ UNCHANGED vars
        <3>1. work' = work
            BY <2>2 DEF PassDay, Open, OpenProfile, CloseProfile, SaveProfile, vars
        <3> QED
            BY <3>1 DEF Worked
    <2> QED
        BY <2>1, <2>2 DEF Next
<1> QED
    BY <1>1, <1>2, PTL DEF Spec

LEMMA ModelTyped ==
    ASSUME NoneIsNoFunction, ScreenInv, Clocked, Booked, Calendar!TypeOK, model # None
    PROVE  /\ \A i \in DOMAIN model.flags : model.flags[i].severity \in Levels
           /\ \A i \in model.agenda : CivilDate(i.due)
           /\ \A q \in 1 .. 4 : model.quarters[q].totals.count \in 0 .. Len(ledger)
<1>1. model = BuildModel(profile, ledger, window.today, completed)
    BY DEF ScreenInv, OnScreen
<1>2. ledger \in Seq(Receipts)
    BY DEF Booked
<1>3. \A i \in DOMAIN model.flags : model.flags[i].severity \in Levels
    BY <1>1, ShownFlags
<1>4. \A i \in model.agenda : CivilDate(i.due)
    BY SameDate DEF Calendar!TypeOK, AgendaOf
<1>5. \A q \in 1 .. 4 :
          model.quarters[q].totals =
              PeriodTotals(ledger, QuarterStart(window.today.year, q), QuarterEnd(window.today.year, q))
    BY <1>1 DEF BuildModel, Flagged, ModelOf, Quarters, QuarterReport
<1>6. \A q \in 1 .. 4 : model.quarters[q].totals.count \in 0 .. Len(ledger)
    BY <1>2, <1>5, CountsInvoices
<1> QED
    BY <1>3, <1>4, <1>6

(* Every variable of the window keeps its kind, whatever is typed, saved,  *)
(* registered and marked: a model is on screen when a window is open, a    *)
(* profile in the vault has every field but the figures and the questions  *)
(* that may be left open, the form has its fields, every date on the       *)
(* agenda is a day of the calendar, every flag has one of the three        *)
(* severities, and no quarter counts more invoices than there are          *)
(* (model.rs, build_model; profile.rs, build_profile).                     *)
THEOREM WindowWellFormed == ASSUME NoneIsItself PROVE Spec => []TypeOK
<1>1. NoneIsNoFunction
    BY DEF NoneIsItself, NoneIsApart
<1>2. ASSUME ScreenInv, Clocked, Booked, Calendar!TypeOK, KeptInv, Worked PROVE TypeOK
    <2>1. CivilDate(today) /\ (window # None => CivilDate(window.today))
        BY <1>2 DEF Clocked
    <2>2. weekday \in 0 .. 6 /\ elapsed \in 0 .. MaxDays /\ work \in 0 .. MaxWork
        BY <1>2 DEF Calendar!TypeOK, Worked
    <2>3. (model = None) = (window = None)
        <3>1. model = IF window = None THEN None ELSE BuildModel(profile, ledger, window.today, completed)
            BY <1>2 DEF ScreenInv, OnScreen
        <3>2. BuildModel(profile, ledger, window.today, completed) # None
            BY <1>1, ModelIsSome
        <3> QED
            BY <3>1, <3>2, Zenon
    <2>4. profile # None => /\ ConditionFields \subseteq DOMAIN profile
                            /\ \A field \in DOMAIN profile \ Optional : profile[field] # None
        <3> SUFFICES ASSUME profile # None PROVE /\ ConditionFields \subseteq DOMAIN profile
                            /\ \A field \in DOMAIN profile \ Optional : profile[field] # None
            OBVIOUS
        <3>1. Stored(profile)
            BY <1>2 DEF KeptInv
        <3>2. DOMAIN profile = ProfileFields
            BY <3>1 DEF Stored
        <3>3. ConditionFields \subseteq ProfileFields
            BY DEF ConditionFields, ProfileFields, Undrafted
        <3> QED
            BY <3>1, <3>2, <3>3, Zenon DEF Stored
    <2>5. form # None => DOMAIN form = DOMAIN DefaultForm
        BY <1>2 DEF ScreenInv, Edited
    <2>6. model # None =>
             /\ \A i \in DOMAIN model.flags : model.flags[i].severity \in {"urgent", "attention", "info"}
             /\ \A i \in model.agenda : CivilDate(i.due)
             /\ \A q \in 1 .. 4 : model.quarters[q].totals.count \in 0 .. Len(ledger)
        BY <1>1, <1>2, ModelTyped, Zenon DEF Levels
    <2> QED
        BY <2>1, <2>2, <2>3, <2>4, <2>5, <2>6, Zenon DEF TypeOK
<1>3. Spec => []ScreenInv
    BY <1>1, ScreenHolds
<1>4. Spec => [](Clocked /\ Booked)
    BY <1>1, ClockedAndBooked
<1>5. Spec => [](KeptInv /\ Regimes)
    BY KeptHolds
<1>6. Spec => []Calendar!TypeOK
    BY <1>1, AgendaCarriesOver, PTL
<1>7. Spec => []Worked
    BY WorkBounded
<1> QED
    BY <1>2, <1>3, <1>4, <1>5, <1>6, <1>7, PTL
================================================================================
