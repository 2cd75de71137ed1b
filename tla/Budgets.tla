------------------------------- MODULE Budgets -------------------------------
(***************************************************************************)
(* Budgets (services/budgets.py, api/budgets.py): one plan per category    *)
(* and calendar month, and the spending report it is read against.         *)
(***************************************************************************)
EXTENDS Reports

CONSTANT PlanAmounts

ASSUME PlansAssumption == Absent \notin PlanAmounts

VARIABLE plans   \* the budgets table: [category, period, amount]

budgetsVars == <<reportsVars, plans>>

\* period_of and period_end
PeriodOf_AsAsked(day) == day
PeriodOf(day) == PeriodStart(day, "month")
EndOf(period) == PeriodEnd(period, "month")

PlanFor(category, period) == {p \in plans : p.category = category /\ p.period = period}

\* set_budget: an expense category's plan for the day's month, set or replaced
SetBudget(category, day, amount) ==
  /\ Request
  /\ TypeOf[category] = "expense"
  /\ plans' = (plans \ PlanFor(category, PeriodOf(day)))
                \union {[category |-> category, period |-> PeriodOf(day), amount |-> amount]}
  /\ UNCHANGED <<today, world, rows, trades, snaps, hidden>>

\* clear_budget: nothing to clear is no error
ClearBudget(category, day) ==
  /\ Request
  /\ TypeOf[category] = "expense"
  /\ plans' = plans \ PlanFor(category, PeriodOf(day))
  /\ UNCHANGED <<today, world, rows, trades, snaps, hidden>>

\* budget_report: every plan of the month and every category spent in it; what
\* has no category is in the total, and in what no plan covers
BudgetReport(day) ==
  LET first    == PeriodOf(day)
      spent    == Spending(first, EndOf(first), Absent)
      planned  == {p \in plans : p.period = first}
      listed   == {p.category : p \in planned}
      SpentOn(c) == IF c \in DOMAIN spent THEN spent[c] ELSE 0
      covered  == MapThenSumSet(SpentOn, listed)
  IN [rows       |-> [c \in listed \union (DOMAIN spent \intersect Categories) |->
                        [budget |-> IF c \in listed THEN (CHOOSE p \in planned : p.category = c).amount ELSE Absent,
                         spent  |-> SpentOn(c)]],
      total      |-> SumFunction(spent),
      budgeted   |-> covered,
      unbudgeted |-> SumFunction(spent) - covered]

-----------------------------------------------------------------------------
BudgetsInit == ReportsInit /\ plans = {}

Planning == \E category \in Categories, day \in Days :
  ClearBudget(category, day) \/ \E amount \in PlanAmounts : SetBudget(category, day, amount)

BudgetsNext ==
  \/ ReportsNext /\ UNCHANGED plans
  \/ kind = "plan" /\ Planning

BudgetsSpec == BudgetsInit /\ [][BudgetsNext]_budgetsVars

-----------------------------------------------------------------------------
\* Whichever day of a month it is asked for, a budget's report is that month's:
\* its total is the spending report's, no plan is in two months or twice in one,
\* and over the months nothing that was spent is left out ("a budget bar that
\* disagrees with the report printed beside it is the one outcome this feature
\* must not have", api/budgets.py).
PlansMeetTheSpending ==
  kind = "plan" =>
  LET first  == PeriodStart(FirstDay, "month")
      last   == PeriodEnd(LastDay, "month")
      months == {PeriodStart(day, "month") : day \in Days}
  IN /\ MapThenSumSet(LAMBDA m : BudgetReport(m).total, months) = SumFunction(Spending(first, last, Absent))
     /\ \A day \in Days :
          /\ BudgetReport(day) = BudgetReport(PeriodStart(day, "month"))
          /\ BudgetReport(day).unbudgeted >= 0
     /\ \A c \in Categories :
          Cardinality({p \in plans : p.category = c})
            = Cardinality({m \in months : c \in DOMAIN BudgetReport(m).rows /\ BudgetReport(m).rows[c].budget # Absent})
=============================================================================
