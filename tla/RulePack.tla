------------------------------ MODULE RulePack ------------------------------
(***************************************************************************)
(* The rule pack as it is written and as it is loaded (crates/core/src/    *)
(* rules.rs).  The pack is read leniently: what is not understood becomes  *)
(* a default and a problem, and only afterwards does a problem that is an  *)
(* error refuse the pack.  Titles, links, notes, the months of a deadline  *)
(* and the checksum are left out; an entry that is not an object and a     *)
(* field that is absent are the value None.                                *)
(***************************************************************************)
EXTENDS Conditions, Integers, Sequences, FiniteSets

Kinds == {"Declare", "Pay", "Communicate", "Review", "Save", "Submit"}
Verifications == {"verified", "partial", "unverified", "stale"}
Periodicities == {"Monthly", "Quarterly", "Annual", "Continuous", "EventDriven"}
DeadlineKinds == {"DayOfMonth", "FixedDate", "Range", "LastDayOfMonth", "MonthOfYear",
                  "DayRange", "DaysAfterEvent", "RetentionYears"}

Error(at) == [level |-> "error", at |-> at]
Warning(at) == [level |-> "warning", at |-> at]
When(condition, problem) == IF condition THEN {problem} ELSE {}

(***************************************************************************)
(* The head of the pack.                                                   *)
(***************************************************************************)
HeadProblems(raw) ==
    When(raw.jurisdiction # "PT", Error("jurisdiction")) \union
    When(raw.year = None, Error("year")) \union
    When(raw.money # "EUR_cents", Error("units.money")) \union
    When(raw.rate # "basis_points", Error("units.rate")) \union
    When(raw.disclaimer = "", Warning("disclaimer"))

SourceProblems(sources) ==
    UNION {When(s.id = "", Error("sources.id")) \union
           When(~s.http, Error("sources.url")) : s \in sources}

(* Multiples of the IAS are the one constant that may have a fraction.     *)
ConstantProblems(constants) ==
    IF constants = None THEN {Error("constants")}
    ELSE {Warning(path) : path \in {p \in DOMAIN constants :
              constants[p] = "fraction" /\ p # "MultipleIas"}}

(***************************************************************************)
(* One obligation.                                                         *)
(***************************************************************************)
Known(name, names, otherwise) == IF name \in names THEN name ELSE otherwise

(* A condition that is not understood is kept with defaults in its place.  *)
ParsedCondition(c) ==
    [field |-> Known(c.field, ConditionFields, "categoryB"),
     op |-> Known(c.op, ConditionOps, "eq"),
     value |-> c.value]

ConditionProblems(c) ==
    When(c.field \notin ConditionFields, Error("field")) \union
    When(c.op \notin ConditionOps, Error("op"))

ScheduleProblems(o) ==
    When(o.periodicity \notin Periodicities, Error("periodicity")) \union
    When(o.deadline # None /\ o.deadline \notin DeadlineKinds, Error("deadlineRule.kind")) \union
    When((o.deadline = None \/ o.deadline \notin DeadlineKinds) /\ ~o.published,
         Warning("not schedulable"))

CitationProblems(o, sources) ==
    When(o.authority \notin {"AT", "SS", "OTHER"}, Warning("authority")) \union
    {Warning("sourceIds") : s \in o.sources \ {k.id : k \in sources}} \union
    When(~o.legalBasis, Warning("legalBasis")) \union
    When(o.verification = "verified" /\ o.sources = {}, Warning("verification"))

(* The id, the kind and the state of an obligation, and its conditions.    *)
ObligationProblems(obligations, k) ==
    LET o == obligations[k]
        Duplicate == o.id # "" /\ \E j \in 1 .. k - 1 : obligations[j].id = o.id
    IN  When(o.id = "" \/ Duplicate, Error("id")) \union
        When(o.kind \notin Kinds, Error("kind")) \union
        When(o.verification \notin Verifications, Error("verification")) \union
        UNION {ConditionProblems(c) : c \in o.appliesWhen} \union
        ScheduleProblems(o)

ParsedObligation(o) ==
    [id |-> o.id,
     kind |-> Known(o.kind, Kinds, "Review"),
     verification |-> Known(o.verification, Verifications, "unverified"),
     appliesWhen |-> {ParsedCondition(c) : c \in o.appliesWhen},
     periodicity |-> Known(o.periodicity, Periodicities, "Annual"),
     deadline |-> IF o.deadline \in DeadlineKinds THEN o.deadline ELSE None,
     documents |-> o.documents]

(***************************************************************************)
(* Loading.                                                                *)
(***************************************************************************)
ValidateRulePack(raw) ==
    HeadProblems(raw) \union SourceProblems(raw.sources) \union
    ConstantProblems(raw.shapes) \union
    UNION {ObligationProblems(raw.obligations, k) \union
           CitationProblems(raw.obligations[k], raw.sources) : k \in DOMAIN raw.obligations}

LoadRulePack(raw) ==
    LET problems == ValidateRulePack(raw)
    IN  IF \E q \in problems : q.level = "error" THEN None
        ELSE [year |-> raw.year,
              rules |-> {ParsedObligation(raw.obligations[k]) : k \in DOMAIN raw.obligations},
              constants |-> raw.constants,
              proposed |-> raw.proposed,
              problems |-> problems]

(* summarise_pack: how many rules stand in each state of verification.     *)
SummarisePack(pack) ==
    [state \in Verifications |-> Cardinality({r \in pack.rules : r.verification = state})]
=============================================================================
