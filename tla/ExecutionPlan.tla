--------------------------- MODULE ExecutionPlan ---------------------------
(***************************************************************************)
(* FinalExecutionPlanService.compile_plan: what is wrong with the plan of  *)
(* an event, whether it is ready, what it has committed, and which task is *)
(* on.  It reads and writes nothing.                                       *)
(*                                                                         *)
(* The state compiled is [nodes, edges, task, start, end, total, budget,   *)
(* rows, vendors, reports]: edges may name tasks that are gone; task maps  *)
(* each node to [vendor, category, critical, slack, from, to, status];     *)
(* budget is a sequence of [category, estimated, actual, status], rows one *)
(* of [vendor, category, cost, status], in the order of the table; vendors *)
(* are those that exist; reports is a set of [task, unknown, conflicting], *)
(* one for every validation there ever was.                                *)
(***************************************************************************)
EXTENDS TaskGraph

CONSTANTS None, Far  \* nothing; a time after all others

Flag(code, tasks) == {[code |-> code, task |-> t] : t \in tasks}
Once(code, holds) == IF holds THEN {[code |-> code, task |-> None]} ELSE {}

Graph(s) == [nodes |-> s.nodes, edges |-> s.edges \cap (s.nodes \X s.nodes)]

-----------------------------------------------------------------------------
(* Dependencies, schedule and deadline *)

\* One edge that names a missing task is held against the task at its other end.
Dangling(s) ==
  UNION {Flag("INVALID_DEPENDENCY", {IF e[3 - n] \in s.nodes THEN e[3 - n] ELSE None}) :
           <<e, n>> \in {<<f, m>> \in s.edges \X {1, 2} : f[m] \notin s.nodes}}

\* Successors that start before a predecessor ends; a lag is not asked for.
Hasty(s) ==
  {e[2] : e \in {f \in Graph(s).edges : /\ s.task[f[1]].to # None /\ s.task[f[2]].from # None
                                        /\ s.task[f[2]].from < s.task[f[1]].to}}

\* By start, the unscheduled last, if the dependencies give no order.
ByStart(s) ==
  LET At(t) == IF s.task[t].from = None THEN Far ELSE s.task[t].from
  IN  SetToSortSeq(s.nodes, LAMBDA t, u : At(t) < At(u) \/ (At(t) = At(u) /\ t < u))

Order(s) == IF IsAcyclic(Graph(s)) THEN TopologicalSort(Graph(s)) ELSE ByStart(s)

ScheduleBlockers(s) ==
  LET Timed(t) == s.task[t].from # None /\ s.task[t].to # None IN
  Once("NO_TASKS_DEFINED", s.nodes = {})
  \cup Dangling(s)
  \cup Once("DAG_CYCLE_DETECTED", ~IsAcyclic(Graph(s)))
  \cup Flag("SCHEDULE_INCONSISTENCY", {t \in s.nodes : Timed(t) /\ s.task[t].from >= s.task[t].to})
  \cup Flag("SCHEDULE_DEPENDENCY_CONFLICT", Hasty(s))
  \cup Flag("EVENT_DEADLINE_VIOLATION",
            {t \in s.nodes : s.end # None /\ s.task[t].to # None /\ s.task[t].to > s.end})

-----------------------------------------------------------------------------
(* Vendors *)

Bound(s) == {t \in s.nodes : s.task[t].vendor # None}
Open(s) == {t \in s.nodes \ Bound(s) : s.task[t].category # None}

\* A row names no task: that of the vendor and of the task's category is taken for it.
HasRow(s, t) ==
  \E n \in DOMAIN s.rows : /\ s.rows[n].status = "CONFIRMED" /\ s.rows[n].vendor = s.task[t].vendor
                           /\ s.task[t].category \in {None, s.rows[n].category}

VendorBlockers(s) ==
  LET found == {t \in Bound(s) : s.task[t].vendor \in s.vendors} IN
  Flag("PROVIDER_NOT_FOUND", Bound(s) \ found)
  \cup Flag("ASSIGNMENT_RECORD_MISSING", {t \in found : ~HasRow(s, t)})
  \cup Flag("UNASSIGNED_CRITICAL_TASK", {t \in Open(s) : s.task[t].critical})

-----------------------------------------------------------------------------
(* Money *)

Spent(item) == item.status = "COMMITTED" \/ item.actual > 0

\* The categories the budget has committed, and to them those of the confirmed rows
\* it has not: of several rows of one category only the first counts.
Commitments(s) ==
  LET Add(sums, category, amount) ==
        [c \in DOMAIN sums \cup {category} |->
           (IF c \in DOMAIN sums THEN sums[c] ELSE 0) + (IF c = category THEN amount ELSE 0)]
      items == FoldLeft(LAMBDA m, b : IF Spent(b) THEN Add(m, b.category, b.actual) ELSE m, <<>>, s.budget)
  IN  FoldLeft(LAMBDA m, r : IF r.status = "CONFIRMED" /\ r.cost # None /\ r.category \notin DOMAIN m
                             THEN Add(m, r.category, r.cost) ELSE m, items, s.rows)

Committed(s) == LET sums == Commitments(s)
                IN  FoldLeft(LAMBDA n, c : n + sums[c], 0, SetToSeq(DOMAIN sums))

\* What the estimates of the other categories still ask for.
Uncommitted(s) ==
  FoldLeft(LAMBDA n, b : IF b.status # "COMMITTED" /\ b.category \notin DOMAIN Commitments(s)
                         THEN n + b.estimated ELSE n, 0, s.budget)

-----------------------------------------------------------------------------
(* Readiness *)

\* A conflict stays, whatever became of the outcome it was found in.
Blockers(s) ==
  ScheduleBlockers(s) \cup VendorBlockers(s)
  \cup Once("BUDGET_EXCEEDED", Committed(s) > s.total)
  \cup Flag("VALIDATION_CONFLICT", {r.task : r \in {q \in s.reports : q.conflicting}})

Warnings(s) ==
  Flag("NON_CRITICAL_TASK_UNASSIGNED", {t \in Open(s) : ~s.task[t].critical})
  \cup Once("BUDGET_INSUFFICIENT", Committed(s) <= s.total /\ s.total - Committed(s) < Uncommitted(s))
  \cup Once("CPM_STATE_UNAVAILABLE",
            s.nodes # {} /\ \A t \in s.nodes : ~s.task[t].critical /\ s.task[t].slack = None)
  \cup Flag("UNRESOLVED_OPERATIONAL_FACT", {r.task : r \in {q \in s.reports : q.unknown}})

\* INCOMPLETE is for a plan without tasks, which is blocked before.
Readiness(s) ==
  IF Blockers(s) # {} THEN "BLOCKED"
  ELSE IF s.nodes = {} THEN "INCOMPLETE"
  ELSE IF Warnings(s) # {} THEN "PARTIALLY_READY" ELSE "READY"

CriticalEntries(s) == SelectSeq(Order(s), LAMBDA t : s.task[t].critical \/ s.task[t].slack = 0)

-----------------------------------------------------------------------------
(* Where the event is *)

Underway(s, now) ==
  SelectSeq(Order(s), LAMBDA t :
    /\ s.task[t].from # None /\ s.task[t].to # None
    /\ (s.task[t].from <= now /\ now <= s.task[t].to) \/ s.task[t].status = "IN_PROGRESS")

Upcoming(s, now) == SelectSeq(Order(s), LAMBDA t : s.task[t].from # None /\ s.task[t].from > now)

FirstIn(seq) == IF seq = <<>> THEN None ELSE Head(seq)
Before(s, now) == s.start # None /\ now < s.start

CurrentTask(s, now) == IF Before(s, now) THEN None ELSE FirstIn(Underway(s, now))

\* What follows in the order, finished or not, not what follows on the clock.
NextTask(s, now) ==
  LET order == Order(s)
      at == CurrentTask(s, now)
  IN  IF Before(s, now) THEN FirstIn(order)
      ELSE IF at = None THEN FirstIn(Upcoming(s, now))
      ELSE FirstIn(SubSeq(order, (CHOOSE n \in DOMAIN order : order[n] = at) + 1, Len(order)))
=============================================================================
