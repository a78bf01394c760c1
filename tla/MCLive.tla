------------------------------- MODULE MCLive -------------------------------
(***************************************************************************)
(* Instance of LiveEvent: one task waits for two others.  And what the     *)
(* engines behind an incident compute, on all plans of three tasks with a  *)
(* few values of everything else: impact and risk, recovery options, and   *)
(* the verification of what was done; what Verification concludes on plans *)
(* of two tasks in every mixture of things that are in order and things    *)
(* that are not; and what the compiled execution plan of an event may be   *)
(* relied on for, on all plans of three tasks in a few hours and with      *)
(* small budgets.                                                          *)
(***************************************************************************)
EXTENDS LiveEvent, Recovery, Verification, SequencesExt

MCDeps == {<<1, 3>>, <<2, 3>>}

Symmetry == Permutations(Slots) \cup Permutations(Incidents)

-----------------------------------------------------------------------------
V == INSTANCE Verification

Edges3 == {<<1, 2>>, <<1, 3>>, <<2, 3>>}
Graph3(edges, dur) == [nodes |-> {1, 2, 3}, edges |-> edges, dur |-> dur,
                       lag |-> [e \in Edges3 |-> IF e[1] = 1 THEN 10 ELSE 0]]

Plans3 ==
  {[graph |-> Graph3(edges, dur), category |-> <<"catering", "catering", "">>,
    priority |-> priority, phase |-> <<"SETUP", "LIVE", "LIVE">>, slack |-> slack,
    critical |-> {}, assignments |-> <<[vendor |-> "v", category |-> "catering"]>>,
    allocation |-> [r \in {"mic", "amp"} |-> IF r = "mic" THEN {2} ELSE {}],
    budget |-> <<[category |-> "catering", amount |-> 60]>>, total |-> 100,
    objectives |-> {[priority |-> "HIGH", about |-> {3}]},
    constraints |-> {[kind |-> "RESOURCE", hard |-> FALSE]}] :
     edges \in SUBSET Edges3, dur \in {<<60, 30, 0>>, <<30, 90, 30>>},
     priority \in {<<"LOW", "LOW", "LOW">>, <<"HIGH", "MEDIUM", "CRITICAL">>},
     slack \in {<<>>, <<40, 40, 40>>, <<0, 80, 120>>}}

Incidents3(kinds, delays) ==
  {[kind |-> k, task |-> t, vendor |-> v, resource |-> r, venue |-> FALSE, delay |-> d, deviation |-> {}] :
     k \in kinds, t \in {{}, {1}, {2}}, v \in {{}, {"v"}}, r \in {{}, {"mic"}}, d \in delays}

\* The longer the delay, the worse the impact and the higher the risk.
ASSUME LongerDelayIsNoBetter ==
  \A p \in Plans3, i \in Incidents3({"VENDOR_DELAY", "CAPACITY_PROBLEM"}, {20}) :
    LET short == Analyze(p, i)
        long == Analyze(p, [i EXCEPT !.delay = 60])
    IN  /\ Severity(i.kind, short) <= Severity(i.kind, long)
        /\ RiskScore(short, {5}, 1) <= RiskScore(long, {5}, 1)

\* The clamp to 0 .. 100 is never reached.
ASSUME RiskIsAPercentage ==
  \A p \in Plans3, i \in Incidents3(Kinds, {0}) :
    RiskScore(Analyze(p, i), {1}, 0) \in 0 .. 10000

-----------------------------------------------------------------------------
Contexts3 ==
  {[plan |-> p, incident |-> i, providers |-> providers, agreed |-> <<30>>,
    resources |-> [r \in {"mic", "amp"} |-> [type |-> "sound", available |-> TRUE, quantity |-> 1]],
    shortage |-> 1, compressible |-> {1, 2}, compression |-> 20, sheddable |-> {},
    capacity |-> FALSE, window |-> window, spent |-> 0, limits |-> {}, venue |-> TRUE,
    hours |-> {5}, known |-> 1] :
     p \in {q \in Plans3 : q.slack = <<40, 40, 40>> /\ q.priority[1] = "LOW" /\ q.graph.dur[1] = 60},
     i \in {j \in Incidents3({"VENDOR_NO_SHOW", "RESOURCE_SHORTAGE"}, {0, 30}) :
              /\ j.task # {}
              /\ j.kind = "RESOURCE_SHORTAGE" <=> j.vendor = {}
              /\ j.kind = "RESOURCE_SHORTAGE" <=> j.resource # {}},
     providers \in {[w \in {"v", "w"} |-> [category |-> "catering", active |-> active, cost |-> {cost},
                                          eta |-> 45, busy |-> {[from |-> 200, to |-> 300]}]] :
                      active \in BOOLEAN, cost \in {20, 80}},
     window \in {150, 300}}

\* The times of a feasible option are a schedule the verifier would accept.
ASSUME FeasibleIsVerifiable ==
  \A c \in Contexts3 : \A o \in Candidates(c) : Feasible(c, o) =>
    LET times == Simulated(c, o) IN
    V!ScheduleHolds([graph |-> c.plan.graph, end |-> c.window,
                     from |-> [t \in DOMAIN times |-> times[t].from],
                     to |-> [t \in DOMAIN times |-> times[t].to],
                     slack |-> c.plan.slack, category |-> c.plan.category,
                     etas |-> <<>>, assignments |-> {}])

\* Less delay than expected, but some, never raises the risk, the alternatives
\* being counted alike.
ASSUME RemainingDelayIsNoWorse ==
  \A c \in Contexts3 : \A o \in Candidates(c) :
    o.delay \in 1 .. ExpectedDelay(c.plan, c.incident) =>
      RiskScore(ImpactAfter(c, o), c.hours, c.known) <= RiskBefore(c)

\* What a feasible option costs beyond the estimates, the budget has.
ASSUME FeasibleIsAffordable ==
  \A c \in Contexts3 : \A o \in Candidates(c) :
    Feasible(c, o) => 60 + NetCost(c, o) <= c.plan.total

-----------------------------------------------------------------------------
(* Verification *)

Contexts2 ==
  {[graph |-> [nodes |-> {1, 2}, edges |-> {<<1, 2>>}, dur |-> <<10, 10>>, lag |-> [e \in {<<1, 2>>} |-> 0]],
    from |-> <<0, start>>, to |-> <<10, 20>>, slack |-> <<20, 20>>, status |-> <<status, "PENDING">>,
    category |-> <<"catering", "">>, end |-> end, etas |-> etas,
    assignments |-> {[vendor |-> "v", category |-> "catering", status |-> s] : s \in assigned},
    vendors |-> [v \in {"v"} |-> [category |-> "catering", active |-> active]], target |-> target,
    resources |-> [r \in {"mic"} |-> [quantity |-> 1, task |-> {1}]], allocated |-> {},
    spent |-> spent, total |-> 100, constraints |-> constraints, overfull |-> FALSE,
    objectives |-> {[priority |-> "HIGH", about |-> {2}, threatened |-> FALSE]} \cup critical,
    state |-> state] :
     start \in {5, 10}, status \in {"COMPLETED", "FAILED"}, end \in {15, 20},
     etas \in {[v \in {} |-> 0], [v \in {"v"} |-> 30]}, assigned \in {{}, {"CONFIRMED"}, {"PROPOSED"}},
     active \in BOOLEAN, target \in {{}, {"v"}}, spent \in {50, 90, 150},
     constraints \in SUBSET {[kind |-> "TIME_WINDOW", hard |-> TRUE, cap |-> 0],
                             [kind |-> "BUDGET_CAP", hard |-> FALSE, cap |-> 80]},
     critical \in SUBSET {[priority |-> "CRITICAL", about |-> {1}, threatened |-> TRUE]},
     state \in {"NORMAL", "EMERGENCY"}}

\* A verified action leaves a calm event.
ASSUME VerifiedIsCalm == \A v \in Contexts2 : Verdict(v) = "VERIFIED" => StateAfter(v) = "NORMAL"

\* To verify again what has not changed concludes the same state.
ASSUME VerifyingIsStable ==
  \A v \in Contexts2 : StateAfter([v EXCEPT !.state = StateAfter(v)]) = StateAfter(v)

Better == <<"FAILED", "PARTIALLY_VERIFIED", "VERIFIED">>
Repaired(v) == {[v EXCEPT !.spent = 0], [v EXCEPT !.end = 100], [v EXCEPT !.from = <<0, 10>>],
                [v EXCEPT !.status = <<"COMPLETED", "PENDING">>],
                [v EXCEPT !.vendors["v"].active = TRUE],
                [v EXCEPT !.assignments = {[vendor |-> "v", category |-> "catering", status |-> "CONFIRMED"]},
                          !.vendors["v"].active = TRUE, !.etas = <<>>]}

\* To put one more thing in order never makes the verdict worse.
ASSUME RepairNeverHurts ==
  \A v \in Contexts2 : \A w \in Repaired(v) : \A n \in 1 .. 3 :
    Verdict(v) = Better[n] => Verdict(w) \in {Better[k] : k \in n .. 3}

-----------------------------------------------------------------------------
(* The execution plan *)

CONSTANT None

X == INSTANCE ExecutionPlan WITH Far <- 100

PlannedTask(from, to, status) ==
  [vendor |-> None, category |-> None, critical |-> TRUE, slack |-> None,
   from |-> from, to |-> to, status |-> status]

Plan(edges, times, status, budget, rows) ==
  [nodes |-> {1, 2, 3}, edges |-> edges, start |-> 1,
   task |-> [t \in {1, 2, 3} |-> PlannedTask(times[t][1], times[t][2], status[t])],
   end |-> 4, total |-> 40, budget |-> budget, rows |-> rows, vendors |-> {}, reports |-> {}]

Windows == {<<0, 1>>, <<0, 3>>, <<1, 2>>, <<2, 4>>, <<3, 4>>, <<3, 1>>, <<4, 5>>}
Schedules == {Plan(edges, times, status, <<>>, <<>>) :
                edges \in SUBSET {<<1, 2>>, <<2, 3>>, <<3, 1>>, <<1, 3>>, <<3, 9>>},
                times \in [{1, 2, 3} -> Windows],
                status \in {<<"PENDING", "PENDING", "PENDING">>, <<"COMPLETED", "IN_PROGRESS", "PENDING">>}}

\* The edges among three tasks, and the paths of two of them.
Leads(s, t, u) == <<t, u>> \in s.edges \/ \E m \in s.nodes : {<<t, m>>, <<m, u>>} \subseteq s.edges

\* A plan whose tasks all have their times is blocked unless every task starts after
\* all it depends on, directly or not, has ended, and ends before the event does.
ASSUME UnblockedKeepsOrder ==
  \A s \in Schedules : X!Readiness(s) # "BLOCKED" =>
    \A t, u \in s.nodes : /\ Leads(s, t, u) => s.task[t].to <= s.task[u].from
                          /\ s.task[t].to <= s.end

\* What is announced as next is never something the current task waits for; before
\* the event it waits for nothing.
ASSUME NextNeverPrecedes ==
  \A s \in Schedules, now \in 0 .. 5 :
    LET current == X!CurrentTask(s, now)
        next == X!NextTask(s, now)
    IN  /\ X!Readiness(s) # "BLOCKED"
        /\ next # None
        => IF current = None /\ now < s.start THEN \A t \in s.nodes : ~Leads(s, t, next)
           ELSE current # None => ~Leads(s, next, current)

Items == [category : {"a", "b"}, estimated : {10}, actual : {0, 15}, status : {"PLANNED", "COMMITTED"}]
Assigned == [vendor : {"v"}, category : {"a", "b", "c"}, cost : {15, 20}, status : {"CONFIRMED", "PROPOSED"}]
UpTo2(S) == {<<>>} \cup {<<x>> : x \in S} \cup {<<x, y>> : x \in S, y \in S}
Accounts ==
  {Plan({}, <<<<1, 2>>, <<1, 2>>, <<1, 2>>>>, <<"PENDING", "PENDING", "PENDING">>, budget, rows) :
     budget \in UpTo2(Items), rows \in UpTo2(Assigned)}

Distinct(seq) == \A m, n \in DOMAIN seq : m # n => seq[m].category # seq[n].category

\* If no category has two items or two confirmed rows, and what the budget has
\* spent is what the row of the category agreed, the commitments are the agreed
\* costs, none counted twice and none left out.
ASSUME CommitmentsAddUp ==
  \A s \in Accounts :
    LET confirmed == SelectSeq(s.rows, LAMBDA r : r.status = "CONFIRMED")
        spent == SelectSeq(s.budget, X!Spent)
    IN  /\ Distinct(spent) /\ Distinct(confirmed)
        /\ \A n \in DOMAIN spent : \E m \in DOMAIN confirmed :
             confirmed[m].category = spent[n].category /\ confirmed[m].cost = spent[n].actual
        => X!Committed(s) = FoldLeft(LAMBDA n, r : n + r.cost, 0, confirmed)
=============================================================================
