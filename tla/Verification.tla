---------------------------- MODULE Verification ----------------------------
(***************************************************************************)
(* VerificationEngine: what a verification concludes from the records it   *)
(* reads after an action, by the verifiers of the schedule, the budget,    *)
(* the resources, the providers, the constraints, the objectives and the   *)
(* state of the event, and what verify_action does with the conclusion.    *)
(*                                                                         *)
(* A context is a record                                                   *)
(*   graph          as in TaskGraph                                        *)
(*   from, to       planned times of the tasks that have them              *)
(*   slack          slack_minutes of the tasks that have it                *)
(*   status, category   of each task; "" for no category                   *)
(*   end            end of the event                                       *)
(*   etas           vendor -> the minutes it is late by, where reported    *)
(*   assignments    the rows, a set of [vendor, category, status]          *)
(*   vendors        id -> [category, active]                               *)
(*   target         the vendor the action was to assign: a set of at most  *)
(*                  one                                                    *)
(*   resources      id -> [quantity, task], task a set of at most one id   *)
(*   allocated      the resource the action was to allocate, likewise      *)
(*   spent, total   actual amounts, and total_budget                       *)
(*   constraints    [kind, hard, cap]; the spending it allows, 0 for none  *)
(*   overfull       the guests exceed the capacity of the venue            *)
(*   objectives     [priority, about, threatened]: the tasks it is about,  *)
(*                  and whether the incident threatened it                 *)
(*   state          event.state                                            *)
(***************************************************************************)
EXTENDS TaskGraph

-----------------------------------------------------------------------------
(* ScheduleVerifier *)

\* A dependency whose times are not both known is in order.
OutOfOrder(v) ==
  {e \in v.graph.edges : /\ e[1] \in DOMAIN v.to /\ e[2] \in DOMAIN v.from
                         /\ v.from[e[2]] < v.to[e[1]] + v.graph.lag[e]}

\* Late by the plan, or by the vendor that serves the category; a task without
\* slack is not late for its vendor's sake.
Late(v) ==
  {t \in DOMAIN v.to : v.to[t] > v.end}
  \cup {t \in DOMAIN v.slack \cap v.graph.nodes :
          \E a \in v.assignments : /\ a.status = "CONFIRMED" /\ a.vendor \in DOMAIN v.etas
                                   /\ a.category = v.category[t]
                                   /\ v.etas[a.vendor] > v.slack[t] /\ v.slack[t] > 0}

ScheduleHolds(v) == Late(v) = {} /\ IsAcyclic(v.graph) /\ OutOfOrder(v) = {}

-----------------------------------------------------------------------------
(* BudgetVerifier and ResourceVerifier *)

BudgetHolds(v) ==
  /\ v.spent <= v.total \/ v.total = 0
  /\ \A c \in v.constraints : c.cap > 0 => v.spent <= c.cap

ResourcesHold(v) ==
  /\ \A r \in DOMAIN v.resources :
       v.resources[r].quantity >= 0 /\ v.resources[r].task \subseteq v.graph.nodes
  /\ \A r \in v.allocated : r \in DOMAIN v.resources /\ v.resources[r].task # {}

-----------------------------------------------------------------------------
(* ProviderVerifier *)

\* The rows of the vendor the action assigned, or else all rows.
RelevantRows(v) ==
  IF v.target = {} THEN v.assignments ELSE {a \in v.assignments : a.vendor \in v.target}

Confirmed(v) ==
  /\ \A a \in RelevantRows(v) : a.vendor \in DOMAIN v.vendors /\ a.status = "CONFIRMED"
  /\ v.target # {} => RelevantRows(v) # {}

ProvidersHold(v) ==
  /\ Confirmed(v)
  /\ \A a \in RelevantRows(v) :
       v.vendors[a.vendor].active /\ a.category \in {"", v.vendors[a.vendor].category}

-----------------------------------------------------------------------------
(* ConstraintVerifier and ObjectiveVerifier *)

Broken(v, c) ==
  \/ c.kind = "TIME_WINDOW" /\ ~ScheduleHolds(v)
  \/ c.kind = "BUDGET_CAP" /\ ~BudgetHolds(v)
  \/ c.kind = "VENUE_CAPACITY" /\ v.overfull

HardConstraintsHold(v) == \A c \in v.constraints : c.hard => ~Broken(v, c)

Provided(v) == {a.category : a \in {x \in v.assignments : x.status = "CONFIRMED"}}

AtRisk(v) ==
  {o \in v.objectives :
     \/ \E t \in o.about : \/ t \in Late(v)
                           \/ v.status[t] \in {"FAILED", "BLOCKED"}
                           \/ v.category[t] \notin Provided(v) \cup {""}
     \/ o.priority = "CRITICAL" /\ ~ScheduleHolds(v)}

CriticalObjectivesHold(v) == \A o \in AtRisk(v) : o.priority # "CRITICAL"

RestoredObjectives(v) == {o \in v.objectives \ AtRisk(v) : o.threatened}

-----------------------------------------------------------------------------
(* VerificationEngine *)

\* Where a schedule is merely out of order, nothing critical has failed.
Verdict(v) ==
  IF /\ ScheduleHolds(v) /\ BudgetHolds(v) /\ ResourcesHold(v) /\ ProvidersHold(v)
     /\ HardConstraintsHold(v) /\ AtRisk(v) = {}
  THEN "VERIFIED"
  ELSE IF /\ Late(v) # {} \/ ~ProvidersHold(v) \/ ~HardConstraintsHold(v)
             \/ ~CriticalObjectivesHold(v)
          /\ ~(Confirmed(v) /\ (BudgetHolds(v) \/ RestoredObjectives(v) # {}))
       THEN "FAILED" ELSE "PARTIALLY_VERIFIED"

\* StateVerifier: the risk that is left is not the one RiskCalculator computes,
\* and neither the resources nor the providers count.
StateAfter(v) ==
  CASE ~ScheduleHolds(v) -> "CRITICAL"
    [] ScheduleHolds(v) /\ ~HardConstraintsHold(v) -> "AT_RISK"
    [] ScheduleHolds(v) /\ HardConstraintsHold(v) /\ AtRisk(v) = {} /\ BudgetHolds(v) -> "NORMAL"
    [] ScheduleHolds(v) /\ HardConstraintsHold(v) /\ (AtRisk(v) # {} \/ ~BudgetHolds(v)) ->
         IF v.state = "NORMAL" THEN "AT_RISK" ELSE v.state

\* verify_action: what was mutated since the action is STALE and leaves the
\* state alone; only a verified recovery resolves its incident.
Outcome(v, mutated) ==
  [status |-> IF mutated THEN "STALE" ELSE Verdict(v),
   state |-> IF mutated THEN v.state ELSE StateAfter(v),
   resolves |-> ~mutated /\ Verdict(v) = "VERIFIED"]
=============================================================================
