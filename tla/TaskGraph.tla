----------------------------- MODULE TaskGraph -----------------------------
(***************************************************************************)
(* The deterministic engines over the tasks of a plan: DependencyGraph,    *)
(* CriticalPathCalculator, ScheduleEngine, ScheduleFeasibilityChecker,     *)
(* ScheduleAdjuster and ImpactPropagation.                                 *)
(*                                                                         *)
(* A graph is [nodes, edges, dur, lag]: tasks are natural numbers, in the  *)
(* order of their ids; a duration of 0 is a missing one; times count from  *)
(* the start of the event.  Recursion is by recursive functions, which end *)
(* on acyclic graphs; every engine sorts first and raises on a cycle.      *)
(***************************************************************************)
EXTENDS Integers, FiniteSets, Sequences, SequencesExt, FiniteSetsExt

Succs(g, t) == {s \in g.nodes : <<t, s>> \in g.edges}
Preds(g, t) == {p \in g.nodes : <<p, t>> \in g.edges}

\* The last and the first of some times, or base when there are none.
Latest(times, base) == IF times = {} THEN base ELSE Max(times)
Soonest(times, base) == IF times = {} THEN base ELSE Min(times)

-----------------------------------------------------------------------------
(* DependencyGraph *)

\* Tasks in the order of their ids: the one in place i has i - 1 before it.
Sorted(ts) ==
  [i \in 1 .. Cardinality(ts) |-> CHOOSE t \in ts : Cardinality({u \in ts : u < t}) = i - 1]

KahnStart(g) ==
  [degree |-> [t \in g.nodes |-> Cardinality(Preds(g, t))],
   queue |-> Sorted({t \in g.nodes : Preds(g, t) = {}}),
   order |-> <<>>]

\* One task leaves the queue; the successors it was the last to hold back enter.
KahnStep(g, k) ==
  IF k.queue = <<>> THEN k
  ELSE LET t == Head(k.queue)
           freed == {s \in Succs(g, t) : k.degree[s] = 1}
       IN  [degree |-> [s \in g.nodes |-> k.degree[s] - (IF s \in Succs(g, t) THEN 1 ELSE 0)],
            queue |-> Tail(k.queue) \o Sorted(freed),
            order |-> Append(k.order, t)]

\* The order topological_sort builds; it raises unless every task is in it.
TopologicalSort(g) ==
  LET run[i \in 0 .. Cardinality(g.nodes)] ==
        IF i = 0 THEN KahnStart(g) ELSE KahnStep(g, run[i - 1])
  IN  run[Cardinality(g.nodes)].order

IsAcyclic(g) == Len(TopologicalSort(g)) = Cardinality(g.nodes)

-----------------------------------------------------------------------------
(* CriticalPathCalculator and ScheduleEngine *)

\* The forward pass, with the durations of one of the two engines.
Starts(g, dur) ==
  LET start[t \in g.nodes] ==
        Latest({start[p] + dur[p] + g.lag[<<p, t>>] : p \in Preds(g, t)}, 0)
  IN  start

EndOfPlan(g, starts, dur) == Latest({starts[t] + dur[t] : t \in g.nodes}, 0)

-----------------------------------------------------------------------------
(* Faulty variant of an operation defined below.  No model uses it; the      *)
(* property it must break is named.                                          *)

\* SlackIsSafe: of several successors the most patient one counts.
LatestStartsLenient(g) ==
  LET total == EndOfPlan(g, Starts(g, g.dur), g.dur)
      late[t \in g.nodes] ==
        Latest({late[s] - g.lag[<<t, s>>] : s \in Succs(g, t)}, total) - g.dur[t]
  IN  late

-----------------------------------------------------------------------------
\* The backward pass.
LatestStarts(g) ==
  LET total == EndOfPlan(g, Starts(g, g.dur), g.dur)
      late[t \in g.nodes] ==
        Soonest({late[s] - g.lag[<<t, s>>] : s \in Succs(g, t)}, total) - g.dur[t]
  IN  late

Slack(g) ==
  LET late == LatestStarts(g)
      early == Starts(g, g.dur)
  IN  [t \in g.nodes |-> late[t] - early[t]]

CriticalPath(g) ==
  LET slack == Slack(g) IN SelectSeq(TopologicalSort(g), LAMBDA t : slack[t] = 0)

\* The schedule, unlike the critical path, gives a missing duration a default.
Scheduled(g, default) == [t \in g.nodes |-> IF g.dur[t] = 0 THEN default ELSE g.dur[t]]

Schedule(g, default) ==
  LET dur == Scheduled(g, default)
      starts == Starts(g, dur)
  IN  [t \in g.nodes |-> [from |-> starts[t], to |-> starts[t] + dur[t]]]

ProjectEnd(schedule) == Latest({schedule[t].to : t \in DOMAIN schedule}, 0)

\* check_feasibility: the tasks that leave the window, 0 for the project.
Violations(schedule, end) ==
  {t \in DOMAIN schedule : schedule[t].to > end \/ schedule[t].from < 0}
  \cup (IF ProjectEnd(schedule) > end THEN {0} ELSE {})

Buffer(schedule, end) == Max({end - ProjectEnd(schedule), 0})

-----------------------------------------------------------------------------
(* ScheduleAdjuster *)

\* The end of one task moves; the tasks after it in the order follow, each as
\* long as it was scheduled to be, and none is moved forward.
Adjust(g, schedule, source, delay) ==
  LET order == TopologicalSort(g)
      Place(t) == CHOOSE i \in 1 .. Len(order) : order[i] = t
      new[t \in g.nodes] ==
        IF t = source THEN [schedule[t] EXCEPT !.to = @ + delay]
        ELSE LET due == Latest({new[p].to + g.lag[<<p, t>>] : p \in Preds(g, t)}, 0)
             IN  IF Place(t) > Place(source) /\ due > schedule[t].from
                 THEN [from |-> due, to |-> due + schedule[t].to - schedule[t].from]
                 ELSE schedule[t]
  IN  new

-----------------------------------------------------------------------------
(* ImpactPropagation *)

\* The breadth-first walk from the tasks an incident hits: the tasks it visits
\* and the depths it notes.  A task found deeper later is noted deeper, but its
\* successors were already walked or keep the depth it was queued with.
PropagateStep(g, w) ==
  IF w.queue = <<>> THEN w
  ELSE LET at == Head(w.queue)
           next == Succs(g, at.task)
           new == next \ w.visited
       IN  [queue |-> Tail(w.queue) \o
                      [i \in 1 .. Cardinality(new) |->
                         [task |-> Sorted(new)[i], depth |-> at.depth + 1]],
            visited |-> w.visited \cup new,
            depth |-> [t \in g.nodes |->
                         IF t \in next THEN Max({w.depth[t], at.depth + 1}) ELSE w.depth[t]]]

Propagate(g, direct) ==
  LET run[i \in 0 .. Cardinality(g.nodes)] ==
        IF i = 0
        THEN [queue |-> [j \in 1 .. Cardinality(direct) |->
                           [task |-> Sorted(direct)[j], depth |-> 0]],
              visited |-> direct,
              depth |-> [t \in g.nodes |-> 0]]
        ELSE PropagateStep(g, run[i - 1])
  IN  run[Cardinality(g.nodes)]

IndirectlyAffected(g, direct) == Propagate(g, direct).visited \ direct

\* The downstream tasks that are not finished cannot proceed.
BlockedTasks(g, direct, finished) == IndirectlyAffected(g, direct) \ finished

MaxDepth(g, direct) == Latest({Propagate(g, direct).depth[t] : t \in g.nodes}, 0)
=============================================================================
