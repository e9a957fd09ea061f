----------------------------- MODULE Conditions -----------------------------
(***************************************************************************)
(* The conditions a rule sets on a profile (crates/core/src/conditions.rs).*)
(* A field of a profile is a regime, TRUE or FALSE, or absent, which is    *)
(* None; no field is a number, so the order operators never hold.  A value *)
(* a rule compares with is of the kind of the field it compares with.      *)
(***************************************************************************)
CONSTANT None

IvaRegimes == {"isento_art53", "trimestral", "mensal"}
IrsRegimes == {"simplificado", "organizada"}

ConditionFields ==
    {"ivaRegime", "irsRegime", "residentPt", "isCompany", "categoryB", "intraCommunity",
     "above50k", "exports", "hasEmployees", "certifiedSoftware", "atWebservice",
     "startupExemption"}

ConditionOps == {"eq", "ne", "in", "gt", "gte", "lt", "lte", "exists"}

(* Only above50k may be absent.                                            *)
ReadField(profile, field) == profile[field]

(* A mutant's form: an absent field differs from nothing.                  *)
TestPresent(profile, c) ==
    LET actual == ReadField(profile, c.field)
    IN  CASE c.op = "exists" -> actual # None
          [] c.op = "eq" -> actual = c.value
          [] c.op = "ne" -> actual # None /\ actual # c.value
          [] c.op = "in" -> actual \in c.value
          [] OTHER -> FALSE

TestCondition(profile, c) ==
    LET actual == ReadField(profile, c.field)
        absent == actual = None
    IN  CASE c.op = "exists" -> ~absent
          [] c.op = "eq" -> IF absent THEN c.value = None ELSE c.value # None /\ actual = c.value
          [] c.op = "ne" -> IF absent THEN c.value # None ELSE c.value = None \/ actual # c.value
          [] c.op = "in" -> ~absent /\ actual \in c.value
          [] OTHER -> FALSE

AppliesTo(profile, conditions) == \A c \in conditions : TestCondition(profile, c)

(* explain_failure: what a line of the agenda says of a rule that does not *)
(* apply; nothing when it does.                                            *)
ExplainFailure(profile, conditions) ==
    {[field |-> c.field, op |-> c.op, actual |-> ReadField(profile, c.field)] :
        c \in {d \in conditions : ~TestCondition(profile, d)}}
=============================================================================
