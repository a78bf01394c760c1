------------------------------- MODULE MCPlan -------------------------------
(***************************************************************************)
(* Instance of PlanBinding, and what the engines of TaskGraph compute,     *)
(* compared with reference definitions over all graphs of three tasks.     *)
(***************************************************************************)
EXTENDS PlanBinding

MCTasks == {1, 2, 3}
MCBaseline == 1 :> 1 @@ 2 :> 2 @@ 3 :> 1
MCShifts == {-1, 1}
MCCategory == 1 :> "catering" @@ 2 :> "catering" @@ 3 :> "decor"

CONSTANTS v1, v2
MCServes == v1 :> {"catering", "decor"} @@ v2 :> {"catering"}

Symmetry == Permutations(Slots) \cup Permutations(Rows)

-----------------------------------------------------------------------------
Graphs3 ==
  {[nodes |-> MCTasks, edges |-> es, dur |-> d, lag |-> [e \in Edges |-> IF e[1] = 1 THEN 1 ELSE 0]] :
     es \in SUBSET {e \in MCTasks \X MCTasks : e[1] # e[2]}, d \in [MCTasks -> 0 .. 2]}

\* The paths of a graph, none longer than its number of tasks.
Paths(g) == {p \in SeqOf(g.nodes, 4) : p # <<>> /\ \A i \in 1 .. Len(p) - 1 : <<p[i], p[i + 1]>> \in g.edges}

PathsOf == [es \in SUBSET {e \in MCTasks \X MCTasks : e[1] # e[2]} |->
              Paths([nodes |-> MCTasks, edges |-> es])]

Reaches(g, s, t) == \E p \in PathsOf[g.edges] : Len(p) > 1 /\ Head(p) = s /\ Last(p) = t

Acyclic3 == {g \in Graphs3 : \A t \in g.nodes : ~Reaches(g, t, t)}

\* Kahn's algorithm orders every task exactly when no task reaches itself.
ASSUME AcyclicIffNoTaskReachesItself ==
  \A g \in Graphs3 : IsAcyclic(g) <=> \A t \in g.nodes : ~Reaches(g, t, t)

ASSUME OrderRespectsDependencies ==
  \A g \in Acyclic3 : LET order == TopologicalSort(g) IN
    /\ ToSet(order) = g.nodes
    /\ \A i, j \in 1 .. Len(order) : <<order[i], order[j]>> \in g.edges => i < j

\* The time a path takes, up to the start of its last task.
Length(g, p) == FoldLeftDomain(LAMBDA n, i :
  IF i = Len(p) THEN n ELSE n + g.dur[p[i]] + g.lag[<<p[i], p[i + 1]>>], 0, p)

\* A task starts after the longest path that leads to it.
ASSUME StartIsLongestPath ==
  \A g \in Acyclic3 : \A t \in g.nodes :
    Starts(g, g.dur)[t] = Max({Length(g, p) : p \in {q \in PathsOf[g.edges] : Last(q) = t}})

\* Slack is never negative, and what has none is a way through the plan.
ASSUME SlackIsReal ==
  \A g \in Acyclic3 :
    /\ \A t \in g.nodes : Slack(g)[t] >= 0
    /\ \E t \in g.nodes : Slack(g)[t] = 0

\* An incident reaches what lies downstream of it, and nothing else.
ASSUME ImpactIsReachability ==
  \A g \in Graphs3 : \A direct \in SUBSET g.nodes :
    IndirectlyAffected(g, direct) = {t \in g.nodes \ direct : \E s \in direct : Reaches(g, s, t)}
-----------------------------------------------------------------------------
B == INSTANCE BudgetRules

CategoryLists == {<<"a">>, <<"a", "b">>, <<"a", "b", "c">>, <<"a", "b", "a">>}
KnownCosts == UNION {[s -> {0, 50, 400}] : s \in SUBSET {"a", "b", "c"}}
Budgets2 == UNION {[1 .. n -> [category : {"a", "b"}, estimated : {0, 60, 100}, actual : {0, 60, 120}]] :
                    n \in 0 .. 2}

\* Without known costs a plan adds up to the budget, but for half a cent a line.
ASSUME PlanAddsUp ==
  \A total \in 0 .. 120, categories \in CategoryLists :
    LET gap == B!Estimated(B!PlannedBudget(total, categories, <<>>)) - total
    IN  2 * Max({gap, -gap}) <= Len(categories) + 1

\* With them, it exceeds the budget by no more than those costs force it to.
ASSUME OnlyKnownCostsExceed ==
  \A total \in {0, 7, 100, 1000}, categories \in CategoryLists, known \in KnownCosts :
    LET forced == FoldLeft(LAMBDA n, c : n + (IF c \in DOMAIN known THEN known[c] ELSE 0),
                           B!Rounded(total, 10), categories)
        excess == B!Estimated(B!PlannedBudget(total, categories, known)) - Max({total, forced})
    IN  2 * excess <= Len(categories)

\* Calculator, validator and detector agree on what is over budget.
ASSUME DetectorsAgree ==
  \A b \in Budgets2, total \in {0, 100, 150} :
    LET variance == B!Variance(total, b)
        deviation == B!BudgetDeviation(total, b)
    IN  /\ variance.over = deviation.over
        /\ variance.actual = deviation.variance
        /\ variance.over <=> \E v \in B!BudgetViolations(total, b, <<>>) : v.kind = "actual"

\* A plan within its budget cannot be overspent without some category being so.
ASSUME OverspendingShows ==
  \A b \in Budgets2, total \in {0, 100, 150} :
    /\ B!Totals(b).remaining < 0 => B!Overspent(b) # {}
    /\ B!Variance(total, b).over /\ B!Variance(total, b).estimated >= 0 => B!Overspent(b) # {}
=============================================================================
