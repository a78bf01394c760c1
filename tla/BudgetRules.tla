----------------------------- MODULE BudgetRules -----------------------------
(***************************************************************************)
(* The arithmetic of money: BudgetPlanner, BudgetCalculator,               *)
(* BudgetValidator and DeviationDetector.  Amounts are integers, the       *)
(* cents of the code's decimals; a division is rounded to a cent, half to  *)
(* even.  A budget is a sequence of [category, estimated, actual].         *)
(***************************************************************************)
EXTENDS Integers, Sequences, FiniteSets, SequencesExt, FiniteSetsExt

\* quantize(0.01) of a / b.
Rounded(a, b) ==
  LET q == a \div b
      r == 2 * (a % b)
  IN  IF r > b \/ (r = b /\ q % 2 = 1) THEN q + 1 ELSE q

-----------------------------------------------------------------------------
(* BudgetPlanner *)

\* A tenth is kept for contingencies, the known costs are taken as they are, and
\* what is left is divided among the categories of which no cost is known.
PlannedBudget(total, categories, known) ==
  LET Item(category, amount) == [category |-> category, estimated |-> amount, actual |-> 0]
      contingency == Rounded(total, 10)
      taken == FoldLeft(LAMBDA n, c : n + (IF c \in DOMAIN known THEN known[c] ELSE 0), 0, categories)
      left == Max({0, Max({0, total - contingency}) - taken})
      open == Len(SelectSeq(categories, LAMBDA c : c \notin DOMAIN known))
      lines == [n \in 1 .. Len(categories) |->
                  Item(categories[n], IF categories[n] \in DOMAIN known THEN known[categories[n]]
                                      ELSE Rounded(left, open))]
  IN  IF categories = <<>> THEN <<>> ELSE Append(lines, Item("OPERATIONS", contingency))

-----------------------------------------------------------------------------
(* BudgetCalculator *)

Estimated(budget) == FoldLeft(LAMBDA n, b : n + b.estimated, 0, budget)
Actual(budget) == FoldLeft(LAMBDA n, b : n + b.actual, 0, budget)
OfCategory(budget, category) == SelectSeq(budget, LAMBDA b : b.category = category)
BudgetCategories(budget) == {budget[n].category : n \in DOMAIN budget}

\* committed is the estimate; remaining is what the estimate leaves, not the budget.
Totals(budget) ==
  [estimated |-> Estimated(budget), actual |-> Actual(budget), committed |-> Estimated(budget),
   remaining |-> Estimated(budget) - Actual(budget)]

Variance(total, budget) ==
  [estimated |-> total - Estimated(budget), actual |-> total - Actual(budget),
   over |-> Actual(budget) > total,
   percent |-> IF total > 0 THEN Rounded(10000 * Actual(budget), total) ELSE 0]

-----------------------------------------------------------------------------
(* BudgetValidator *)

\* What exceeds what, and by how much; caps maps some categories to a limit.
BudgetViolations(total, budget, caps) ==
  LET Over(kind, amount, limit) ==
        IF amount > limit THEN {[kind |-> kind, by |-> amount - limit]} ELSE {}
  IN  Over("estimated", Estimated(budget), total)
      \cup Over("actual", Actual(budget), total)
      \cup UNION {Over(c, Estimated(OfCategory(budget, c)), caps[c]) : c \in DOMAIN caps}

-----------------------------------------------------------------------------
(* DeviationDetector *)

Overspent(budget) ==
  {c \in BudgetCategories(budget) : Actual(OfCategory(budget, c)) > Estimated(OfCategory(budget, c))}

BudgetDeviation(total, budget) ==
  [variance |-> total - Actual(budget), over |-> Actual(budget) > total,
   categories |-> Overspent(budget)]

\* How much later than planned a task started and finished; times that are not
\* known are absent.  Only a finish may be early.
ScheduleDeviation(planned, actual) ==
  LET late == [x \in DOMAIN planned \cap DOMAIN actual |-> actual[x] - planned[x]]
  IN  [x \in {y \in DOMAIN late : late[y] > 0 \/ (y = "end" /\ late[y] < 0)} |-> late[x]]
=============================================================================
