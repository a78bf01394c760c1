--------------------------- MODULE IncidentImpact ---------------------------
(***************************************************************************)
(* What IncidentService computes of an incident before it changes the      *)
(* event: ImpactAnalyzer (which tasks, slack, resources, money, objectives *)
(* and constraints it touches), ImpactSeverityCalculator, RiskCalculator   *)
(* and RiskClassifier.                                                     *)
(*                                                                         *)
(* A plan is a record                                                      *)
(*   graph        tasks, dependencies and durations in minutes (TaskGraph) *)
(*   category     the provider category a task requires, "" for none       *)
(*   priority, phase                                                       *)
(*   slack        slack_minutes of the tasks that have it                  *)
(*   critical     the tasks marked as critical path                        *)
(*   assignments  the [vendor, category] rows, in the order of the query   *)
(*   allocation   resource -> the task it is allocated to: a set, of one   *)
(*                task or of none                                          *)
(*   budget       the items, a sequence of [category, amount]              *)
(*   total        total_budget                                             *)
(*   objectives   [priority, about]: the tasks whose words the name holds  *)
(*   constraints  [kind, hard]                                             *)
(* and an incident                                                         *)
(*   kind, task, vendor, resource (sets of at most one), venue (whether    *)
(*   one is named), delay (reported minutes, 0 for none), deviation        *)
(*   (deviation_minutes: a set, empty if not reported).                    *)
(***************************************************************************)
EXTENDS TaskGraph

NoShow == {"VENDOR_NO_SHOW", "VENDOR_FAILURE", "VENDOR_CANCELLATION"}
VenueTrouble == {"VENUE_ISSUE", "CAPACITY_PROBLEM", "CAPACITY_CHANGE"}
Interruption == {"RESOURCE_SHORTAGE", "RESOURCE_UNAVAILABLE", "EQUIPMENT_FAILURE",
                 "VENUE_ISSUE", "DEPENDENCY_FAILURE", "CAPACITY_CHANGE"}
Kinds == NoShow \cup VenueTrouble \cup Interruption \cup
         {"VENDOR_DELAY", "SCHEDULE_SLIP", "SCHEDULE_DEVIATION", "TASK_DELAY"}

Urgent == {"CRITICAL", "HIGH"}

-----------------------------------------------------------------------------
(* ImpactAnalyzer *)

RowsOfVendor(p, i) == SelectSeq(p.assignments, LAMBDA a : a.vendor \in i.vendor)

\* The category of the last row of the vendor, if the vendor has rows.
LostCategories(p, i) ==
  LET lost == RowsOfVendor(p, i)
  IN  IF lost = <<>> THEN {} ELSE {Last(lost).category}

\* A vendor stands for the tasks of its category unless a task is named.
DirectlyAffected(p, i) ==
  (i.task \cap p.graph.nodes)
  \cup {t \in p.graph.nodes : i.task = {} /\ p.category[t] \in LostCategories(p, i) \ {""}}
  \cup UNION {p.allocation[r] : r \in i.resource}
  \cup {t \in p.graph.nodes :
          /\ i.venue
          /\ i.kind \in VenueTrouble
          /\ p.phase[t] \in {"SETUP", "PRE_EVENT"} \/ p.category[t] = "venue"}

\* A delay of 0 counts as one that was not reported.
ExpectedDelay(p, i) ==
  CASE i.delay # 0 -> i.delay
    [] i.delay = 0 /\ i.kind \in {"VENDOR_DELAY", "SCHEDULE_SLIP"} -> 60
    [] i.delay = 0 /\ i.kind \in NoShow ->
         Latest({p.graph.dur[t] : t \in DirectlyAffected(p, i)}, 120)
    [] i.delay = 0 /\ i.kind \in {"SCHEDULE_DEVIATION", "TASK_DELAY"} -> Latest(i.deviation, 30)
    [] i.delay = 0 /\ i.kind \in Interruption -> 45
    [] i.delay = 0 /\ i.kind = "CAPACITY_PROBLEM" -> 0

\* The items of a category that a direct task requires or the vendor had.
CostAtRisk(p, i) ==
  LET categories == LostCategories(p, i) \cup {p.category[t] : t \in DirectlyAffected(p, i)}
      hit == {b \in DOMAIN p.budget : p.budget[b].category \in categories \ {""}}
  IN  FoldSet(LAMBDA b, n : p.budget[b].amount + n, 0, hit)

\* deadline_exceeded stays false: the tasks are serialised before their ends are
\* compared, and a string is skipped; a TIME_WINDOW is therefore never touched.
ConstraintsTouched(p, i, resources) ==
  {c \in p.constraints :
     \/ c.kind = "VENUE_CAPACITY" /\ i.kind \in {"VENUE_ISSUE", "CAPACITY_PROBLEM"}
     \/ c.kind = "RESOURCE" /\ resources # {}}

Analyze(p, i) ==
  LET direct == DirectlyAffected(p, i)
      indirect == IndirectlyAffected(p.graph, direct)
      affected == direct \cup indirect
      slacks == {p.slack[t] : t \in affected \cap DOMAIN p.slack}
      delay == ExpectedDelay(p, i)
      breached == \/ affected \cap p.critical # {}
                  \/ \E s \in slacks : delay > s
      resources == {r \in DOMAIN p.allocation : r \in i.resource \/ p.allocation[r] \cap affected # {}}
  IN  [direct |-> {[priority |-> p.priority[t],
                    exhausted |-> t \in DOMAIN p.slack /\ p.slack[t] <= 0] : t \in direct},
       downstream |-> Cardinality(indirect),
       depth |-> MaxDepth(p.graph, direct),
       delay |-> delay,
       slack |-> IF slacks = {} THEN {} ELSE {Min(slacks)},
       breached |-> breached,
       resources |-> Cardinality(resources),
       provider |-> RowsOfVendor(p, i) # <<>>,
       cost |-> CostAtRisk(p, i),
       total |-> p.total,
       objectives |-> {o \in p.objectives : o.about \cap affected # {} \/ breached},
       hard |-> \E c \in ConstraintsTouched(p, i, resources) : c.hard]

-----------------------------------------------------------------------------
(* ImpactSeverityCalculator, of an impact m *)

CriticalImpact(kind, m) ==
  \/ m.breached
  \/ \E t \in m.direct : t.priority = "CRITICAL" /\ t.exhausted
  \/ m.hard
  \/ \E o \in m.objectives : o.priority = "CRITICAL"
  \/ kind \in NoShow /\ \E t \in m.direct : t.priority \in Urgent

HighImpact(kind, m) ==
  \/ m.downstream > 2 \/ m.depth >= 2
  \/ \E t \in m.direct : t.priority \in Urgent
  \/ m.delay >= 60
  \/ kind \in NoShow \cup {"VENUE_ISSUE", "DEPENDENCY_FAILURE",
                           "RESOURCE_UNAVAILABLE", "EQUIPMENT_FAILURE"}

MediumImpact(m) ==
  \/ m.downstream > 0
  \/ \E t \in m.direct : t.priority = "MEDIUM"
  \/ m.delay > 0

\* 3 for CRITICAL, 2 for HIGH, 1 for MEDIUM, 0 for LOW.
Severity(kind, m) ==
  IF CriticalImpact(kind, m) THEN 3
  ELSE IF HighImpact(kind, m) THEN 2 ELSE IF MediumImpact(m) THEN 1 ELSE 0

-----------------------------------------------------------------------------
(* RiskCalculator: eight factors, scored in percent *)

\* Of the alternatives <<condition, score>>, the first that holds.
FirstOf(rows) == rows[CHOOSE n \in DOMAIN rows :
                        rows[n][1] /\ \A k \in 1 .. n - 1 : ~rows[k][1]][2]

\* hours: until the start of the event or of the first direct task, if known.
TimeScore(hours) ==
  IF hours = {} THEN 20
  ELSE LET h == Min(hours) IN
       FirstOf(<< <<h <= 2, 100>>, <<h <= 6, 75>>, <<h <= 24, 50>>, <<TRUE, 20>> >>)

TaskScore(m) ==
  LET Some(level) == \E t \in m.direct : t.priority = level IN
  FirstOf(<< <<Some("CRITICAL"), 100>>, <<Some("HIGH"), 75>>, <<Some("MEDIUM"), 45>>,
             <<m.direct = {}, 30>>, <<TRUE, 15>> >>)

DependencyScore(m) ==
  FirstOf(<< <<m.downstream >= 5 \/ m.depth >= 3, 100>>,
             <<m.downstream >= 2 \/ m.depth >= 2, 75>>,
             <<m.downstream >= 1, 45>>, <<TRUE, 10>> >>)

SlackScore(m) ==
  LET Left(n) == \E s \in m.slack : Max({0, s - m.delay}) <= n IN
  FirstOf(<< <<m.breached \/ Left(0), 100>>,
             <<\E s \in m.slack : m.delay > s, 80>>,
             <<Left(29), 50>>, <<TRUE, 15>> >>)

ResourceScore(m) ==
  FirstOf(<< <<m.resources >= 2, 90>>, <<m.resources = 1, 60>>, <<TRUE, 10>> >>)

ProviderScore(m, alternatives) ==
  FirstOf(<< <<~m.provider, 0>>, <<alternatives = 0, 100>>,
             <<alternatives <= 2, 60>>, <<TRUE, 25>> >>)

BudgetScore(m) ==
  FirstOf(<< <<m.total > 0 /\ 4 * m.cost >= m.total, 90>>, <<m.cost > 0, 50>>, <<TRUE, 10>> >>)

ObjectiveScore(m) ==
  LET Some(level) == \E o \in m.objectives : o.priority = level IN
  FirstOf(<< <<Some("CRITICAL"), 100>>, <<Some("HIGH"), 65>>,
             <<m.objectives # {}, 35>>, <<TRUE, 0>> >>)

\* The weighted sum, in hundredths of a point: the weights are exact, so the
\* roundings of the code change nothing, and neither does its clamp to 0..100.
RiskScore(m, hours, alternatives) ==
  15 * TimeScore(hours) + 20 * TaskScore(m) + 15 * DependencyScore(m) + 15 * SlackScore(m)
  + 10 * ResourceScore(m) + 10 * ProviderScore(m, alternatives)
  + 5 * BudgetScore(m) + 10 * ObjectiveScore(m)

\* The level, coded as the severity is, and the state the event should be in.
RiskLevel(score) ==
  FirstOf(<< <<score >= 7500, 3>>, <<score >= 5000, 2>>, <<score >= 2500, 1>>, <<TRUE, 0>> >>)

StateOfLevel == <<"NORMAL", "AT_RISK", "CRITICAL", "EMERGENCY">>
TargetState(score) == StateOfLevel[RiskLevel(score) + 1]
=============================================================================
