------------------------------ MODULE Recovery ------------------------------
(***************************************************************************)
(* The options RecoveryService proposes for an incident: RecoveryGenerator *)
(* lists candidates, RecoverySimulator works out each on a copy of the     *)
(* plan, RecoveryValidator rejects those that break a rule, RecoveryScorer *)
(* ranks the rest.  Nothing here changes the event.  A candidate names     *)
(* tasks of the plan (the adjuster raises on others), the plan is acyclic  *)
(* (the simulator raises on a cycle), and the impact and risk stored with  *)
(* the incident are still those of the plan.                               *)
(*                                                                         *)
(* A context is a record                                                   *)
(*   plan, incident  as in IncidentImpact                                  *)
(*   providers       id -> [category, active, cost (a set, empty if        *)
(*                   unknown), eta, busy (a set of [from, to])]            *)
(*   agreed          the agreed costs, in order, of the failing vendor     *)
(*   resources       id -> [type, available, quantity]                     *)
(*   shortage        the quantity the incident lacks                       *)
(*   compressible, compression, sheddable, capacity (whether a target      *)
(*                   capacity is reported): what the evidence allows       *)
(*   window          minutes from the start of the event to its end        *)
(*   spent           total of the actual amounts of the budget items       *)
(*   limits          [kind, value, hard]: TIME_WINDOW, BUDGET_CAP          *)
(*   venue           the venue the incident names is active and large      *)
(*                   enough, or there is none                              *)
(*   hours           until the event starts, as in RiskScore               *)
(*   known           the alternatives IncidentService counted              *)
(* Times count from the start of the event.                                *)
(***************************************************************************)
EXTENDS IncidentImpact

DefaultMinutes == 30

-----------------------------------------------------------------------------
(* RecoveryGenerator *)

AffectedTasks(c) == DirectlyAffected(c.plan, c.incident) \cup c.incident.task

\* What is reported, or else what the impact analysis expects.
DelayToRecover(c) ==
  IF c.incident.delay # 0 THEN c.incident.delay
  ELSE Latest(c.incident.deviation \ {0}, ExpectedDelay(c.plan, c.incident))

\* Active providers of a category the tasks require; "" is a category too.
Substitutes(c) ==
  LET categories == {c.plan.category[t] : t \in AffectedTasks(c) \cap c.plan.graph.nodes}
      wanted == IF categories # {} THEN categories
                ELSE {row.category : row \in ToSet(RowsOfVendor(c.plan, c.incident))}
  IN  {v \in DOMAIN c.providers :
         /\ v \notin c.incident.vendor
         /\ c.providers[v].active
         /\ c.providers[v].category \in wanted
         /\ c.providers[v].cost # {}}

Spare(c) ==
  UNION {{r \in DOMAIN c.resources \ {lost} :
            /\ c.resources[r].type = c.resources[lost].type
            /\ c.resources[r].available
            /\ c.resources[r].quantity >= c.shortage} :
         lost \in c.incident.resource \cap DOMAIN c.resources}

Candidate(strategy, tasks) ==
  [strategy |-> strategy, tasks |-> tasks, vendor |-> {}, resource |-> {},
   delay |-> 0, cost |-> {}, compression |-> 0]

Sheddable(c) ==
  IF c.sheddable # {} THEN c.sheddable
  ELSE {t \in AffectedTasks(c) \cap c.plan.graph.nodes : c.plan.priority[t] = "LOW"}

Candidates(c) ==
  LET tasks == AffectedTasks(c)
      delay == DelayToRecover(c)
      i == c.incident
      shifted == [Candidate("RESCHEDULE", tasks) EXCEPT !.delay = delay, !.vendor = i.vendor]
      squeezed == tasks \cap c.compressible
  IN  IF tasks = {} THEN {}
      ELSE {[shifted EXCEPT !.strategy = s] :
              s \in IF delay = 0 THEN {}
                    ELSE IF i.kind \in {"VENDOR_DELAY", "VENDOR_NO_SHOW", "VENDOR_FAILURE",
                                        "SCHEDULE_DEVIATION", "TASK_DELAY", "SCHEDULE_SLIP"}
                    THEN {"WAIT", "RESCHEDULE"} ELSE {"RESCHEDULE"}}
      \cup {[Candidate(s, tasks) EXCEPT !.vendor = {v}, !.delay = c.providers[v].eta,
                                        !.cost = c.providers[v].cost] :
              s \in {"BACKUP", "REASSIGN"}, v \in Substitutes(c)}
      \cup {[Candidate("REASSIGN", tasks) EXCEPT !.resource = {r}] :
              r \in IF i.kind \in {"RESOURCE_SHORTAGE", "RESOURCE_UNAVAILABLE", "EQUIPMENT_FAILURE"}
                    THEN Spare(c) ELSE {}}
      \cup {[Candidate("COMPRESS", squeezed) EXCEPT !.compression = n] :
              n \in IF squeezed = {} THEN {} ELSE {c.compression} \ {0}}
      \cup {Candidate("SCOPE_SHED", Sheddable(c)) : s \in {Sheddable(c)} \ {{}}}
      \cup {Candidate("CAPACITY_ADJUST", tasks) :
              k \in {i.kind} \cap (IF c.capacity THEN Kinds ELSE {"CAPACITY_PROBLEM", "CAPACITY_CHANGE"})}

-----------------------------------------------------------------------------
(* RecoverySimulator *)

\* Compression shortens each task, to a minute at the least.
Compressed(g, o) ==
  [g EXCEPT !.dur = [t \in g.nodes |->
     IF o.compression # 0 /\ t \in o.tasks
     THEN Max({1, Max({1, g.dur[t]}) - o.compression}) ELSE g.dur[t]]]

\* The delay left over moves the first of the tasks, by id, and what follows it.
Simulated(c, o) ==
  LET g == Compressed(c.plan.graph, o)
      plain == Schedule(g, DefaultMinutes)
      rest == Max({0, o.delay - o.compression})
  IN  IF rest = 0 THEN plain
      ELSE Adjust(g, plain, Min(o.tasks), rest)

Baseline(c) == Schedule(c.plan.graph, DefaultMinutes)

SlackIn(c, schedule) == Max({0, c.window - ProjectEnd(schedule)})

\* The same incident with the delay that is left: none left reads as none
\* reported.  Slack and critical path of the tasks are those of the old plan.
ImpactAfter(c, o) ==
  Analyze([c.plan EXCEPT !.graph = Compressed(c.plan.graph, o)],
          [c.incident EXCEPT !.delay = Max({0, o.delay - o.compression})])

NetCost(c, o) ==
  IF o.cost = {} THEN 0
  ELSE Max(o.cost) - (IF c.agreed = <<>> THEN 0 ELSE Head(c.agreed))

RiskBefore(c) == RiskScore(Analyze(c.plan, c.incident), c.hours, c.known)

\* Every provider counts as an alternative now.
RiskAfter(c, o) == RiskScore(ImpactAfter(c, o), c.hours, Cardinality(DOMAIN c.providers))

-----------------------------------------------------------------------------
(* RecoveryValidator *)

\* The provider a candidate names, be it the failing one, must be fit for it.
ProviderFits(c, o, schedule) ==
  \A v \in o.vendor :
    /\ v \in DOMAIN c.providers
    /\ LET provider == c.providers[v]
           tasks == o.tasks \cap c.plan.graph.nodes
       IN  /\ provider.active
           /\ tasks # {} => provider.category \in {c.plan.category[t] : t \in tasks}
           /\ provider.cost # {}
           /\ \A b \in provider.busy, t \in tasks :
                ~(b.from < schedule[t].to /\ b.to > schedule[t].from)

ResourceFits(c, o) ==
  \A r \in o.resource : c.resources[r].available /\ c.resources[r].quantity > 0

\* validate_budget over the items and, if it costs more, one for the recovery.
BudgetFits(c, o) ==
  LET planned == FoldSet(LAMBDA b, n : c.plan.budget[b].amount + n, 0, DOMAIN c.plan.budget)
  IN  /\ planned + Max({0, NetCost(c, o)}) <= c.plan.total
      /\ c.spent <= c.plan.total

\* A cap is compared with the whole budget, not with what is spent of it.
LimitBroken(c, o, schedule, limit) ==
  \/ limit.kind = "TIME_WINDOW" /\ ProjectEnd(schedule) > limit.value
  \/ limit.kind = "BUDGET_CAP" /\ c.plan.total + NetCost(c, o) > limit.value

Feasible(c, o) ==
  LET schedule == Simulated(c, o)
  IN  /\ IsAcyclic(c.plan.graph)
      /\ Violations(schedule, c.window) = {}
      /\ ProviderFits(c, o, schedule)
      /\ ResourceFits(c, o)
      /\ BudgetFits(c, o)
      /\ \A limit \in c.limits : limit.hard => ~LimitBroken(c, o, schedule, limit)
      /\ c.venue

-----------------------------------------------------------------------------
(* RecoveryScorer, in hundredths of a point, fractions dropped *)

\* Objectives that were at risk and no longer are.
Restored(c, o) ==
  Analyze(c.plan, c.incident).objectives \ ImpactAfter(c, o).objectives

Score(c, o) ==
  LET reduction == Max({0, Min({5000, RiskBefore(c) - RiskAfter(c, o)})})
      before == Max({1, SlackIn(c, Baseline(c))})
      slack == Min({2500, (2500 * SlackIn(c, Simulated(c, o))) \div before})
      objectives == IF Restored(c, o) = {} THEN 0 ELSE 1500
      penalty == Min({1000, (1000 * Max({0, NetCost(c, o)})) \div Max({1, c.plan.total})})
  IN  reduction + slack + objectives - penalty

\* The strategies in their alphabetical order, which breaks ties.
Strategies == <<"BACKUP", "CAPACITY_ADJUST", "COMPRESS", "REASSIGN", "RESCHEDULE",
                "SCOPE_SHED", "WAIT">>
Alphabetical(s) == CHOOSE n \in DOMAIN Strategies : Strategies[n] = s

\* The score decides, then the strategy, then the id, which is left open here.
Before(c, a, b) ==
  \/ Score(c, a) > Score(c, b)
  \/ Score(c, a) = Score(c, b) /\ Alphabetical(a.strategy) < Alphabetical(b.strategy)

\* Infeasible options get no rank, 0.
Rank(c, o) ==
  IF Feasible(c, o)
  THEN 1 + Cardinality({a \in Candidates(c) : Feasible(c, a) /\ Before(c, a, o)})
  ELSE 0
=============================================================================
