----------------------------- MODULE MCCalendar -----------------------------
(* Nine obligations with the deadlines and the dates of rules/pt/2026.json *)
(* (month, day), and a release that publishes some of 2027.                *)
EXTENDS Calendar, TLC

CONSTANTS ivaTrimestral, ssTrimestral, porConta, validacao, modelo3, contribuicoes, faturas, guardar, alteracoes

MCRules == {ivaTrimestral, ssTrimestral, porConta, validacao, modelo3, contribuicoes, faturas, guardar, alteracoes}

Deadline(kind, day, month, dayTo) == [kind |-> kind, day |-> day, month |-> month, dayTo |-> dayTo]
Rule(periodicity, lag, kind, deadline) ==
    [periodicity |-> periodicity, lag |-> lag, kind |-> kind, deadline |-> deadline]

MCRuleOf ==
    ivaTrimestral :> Rule("Quarterly", 2, "Declare", Deadline("DayOfMonth", 20, None, None)) @@
    ssTrimestral  :> Rule("Quarterly", 1, "Declare", Deadline("LastDayOfMonth", None, None, None)) @@
    porConta      :> Rule("Annual", 2, "Pay", Deadline("DayOfMonth", 20, None, None)) @@
    validacao     :> Rule("Annual", 2, "Review", Deadline("LastDayOfMonth", None, 2, None)) @@
    modelo3       :> Rule("Annual", 2, "Declare", Deadline("Range", None, 6, 30)) @@
    contribuicoes :> Rule("Monthly", 1, "Pay", Deadline("DayRange", None, None, 20)) @@
    faturas       :> Rule("Monthly", 1, "Communicate", Deadline("DayOfMonth", 5, None, None)) @@
    guardar       :> Rule("Continuous", 2, "Save", Deadline("RetentionYears", None, None, None)) @@
    alteracoes    :> Rule("EventDriven", 2, "Declare", Deadline("DaysAfterEvent", None, None, None))

On(m, d) == [month |-> m, day |-> d]

In2026 ==
    ivaTrimestral :> {On(2, 20), On(5, 20), On(9, 21), On(11, 20)} @@
    ssTrimestral  :> {On(1, 31), On(4, 30), On(7, 31), On(10, 31)} @@
    porConta      :> {On(7, 20), On(9, 21), On(12, 21)} @@
    validacao     :> {On(2, 28), On(3, 2)} @@
    modelo3       :> {On(6, 30)} @@
    faturas       :> {On(7, 6), On(8, 31), On(9, 7)}

In2027 ==
    ivaTrimestral :> {On(2, 22), On(5, 20)} @@
    validacao     :> {On(2, 28), On(3, 1)}

MCPacks ==
    << [year |-> 2026,
        published |-> [r \in MCRules |-> IF r \in DOMAIN In2026 THEN 2026 :> In2026[r] ELSE <<>>]],
       [year |-> 2027,
        published |-> [r \in MCRules |->
            (IF r \in DOMAIN In2026 THEN 2026 :> In2026[r] ELSE <<>>) @@
            (IF r \in DOMAIN In2027 THEN 2027 :> In2027[r] ELSE <<>>)]] >>

MCProfiles ==
    { [applies |-> MCRules, trackFrom |-> None],
      [applies |-> MCRules \ {ivaTrimestral}, trackFrom |-> Date(2026, 9, 1)] }

Start(y, m, d, w) == [day |-> Date(y, m, d), weekday |-> w]

(* The end of a February, a summer, the turn of a year, a leap day, and    *)
(* the last February of a century that has none and of one that has.       *)
MCStartDays ==
    { Start(2026, 2, 27, 5), Start(2026, 7, 18, 6), Start(2026, 12, 29, 2),
      Start(2028, 2, 27, 0), Start(2100, 2, 27, 6), Start(2000, 2, 27, 0) }
=============================================================================
