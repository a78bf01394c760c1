---------------------------- MODULE PlanBinding ----------------------------
(***************************************************************************)
(* The plan of one event and who edits it: dependencies and tasks, the     *)
(* computation of the schedule, VendorTaskBindingService with its check    *)
(* and its recalculation, the reassignment of a provider by a user and by  *)
(* an approved action, and the generation of a new plan.                   *)
(*                                                                         *)
(* A handler reads, decides and commits in one transaction that isolates   *)
(* nothing it read: here in two steps, a read and a commit of what follows *)
(* from it, of the columns whose value differs from the one read.  Two     *)
(* handlers may overlap; "raced" is set once one commits on what another   *)
(* has changed since.  Users' permissions, the claims of a validation      *)
(* other than its price, and what a negotiation makes of an assignment     *)
(* (see Engagement) are left out.                                          *)
(***************************************************************************)
EXTENDS TaskGraph

CONSTANTS
  Tasks,       \* tasks of the plan, natural numbers
  Category,    \* the provider category each task requires
  Vendors,
  Serves,      \* the categories a vendor is compatible with, by the wider of the
               \* two checks: containment for a binding, equality for a reassignment
  Rows,        \* vendor_assignments rows that may be inserted
  NoVendor, NoRow, NoSlack,
  Insert, Kept, \* what to do about a vendor's row, besides confirming one
  Durations,   \* durations a task may be given, 0 for a missing one
  Baseline,    \* the duration the event's domain gives each task
  Shifts,      \* what an adjustment may shift a task by, either way
  Moments,     \* times it may be told to start or end at
  DefaultDuration,
  Quotes,      \* prices a validation may report
  TotalBudget,
  Slots,       \* handlers that may run at the same time
  MaxRequests  \* bound: requests that are served

Categories == {Category[t] : t \in Tasks}

ASSUME TasksAssumption == Tasks \subseteq Nat \ {0} /\ IsFiniteSet(Tasks)
ASSUME TimesAssumption ==
  /\ Durations \subseteq Nat /\ Baseline \in [Tasks -> Durations]
  /\ Shifts \subseteq Int /\ Moments \subseteq Int /\ DefaultDuration \in Nat \ {0}
  /\ NoSlack \notin Int
ASSUME MoneyAssumption == Quotes \subseteq Nat \ {0} /\ TotalBudget \in Nat \ {0}
ASSUME VendorsAssumption ==
  /\ NoVendor \notin Vendors /\ {NoRow, Insert, Kept} \cap Rows = {} /\ Insert # Kept
  /\ NoRow \notin Categories
  /\ \A v \in Vendors : Serves[v] \subseteq Categories
ASSUME BoundsAssumption == MaxRequests \in Nat

VARIABLES
  deps,      \* FINISH_TO_START edges
  dur,       \* duration of each task
  schedule,  \* planned start and end of each task
  slack,     \* slack_minutes of each task, NoSlack until computed
  provider,  \* provider of each task
  row,       \* the vendor_assignments rows
  item,      \* the amount each category's budget item is committed to, or 0
  slot,      \* the handler in each slot
  requests,  \* number of requests served
  fresh,     \* history: nothing has changed since slack was computed
  raced,     \* history: a handler committed on what another had changed
  takenOver, \* history: an approved action gave one vendor's row to another
  unchecked  \* history: an approved action committed an amount

vars == <<deps, dur, schedule, slack, provider, row, item, slot, requests,
          fresh, raced, takenOver, unchecked>>

Edges == {e \in Tasks \X Tasks : e[1] # e[2]}

Graph == [nodes |-> Tasks, edges |-> deps, dur |-> dur, lag |-> [e \in Edges |-> 0]]

Idle == [pc |-> "idle"]

\* Where a task may come to lie: an adjustment checks no times.
Placements == [from : Int, to : Int]

NoAssignment == [vendor |-> NoVendor, category |-> NoRow, status |-> "ABSENT"]

\* The types of the plan and of the rows beside it: among them that no slack is
\* negative, while windows may lie anywhere, as an adjustment checks no times.
TypeOK ==
  /\ deps \subseteq Edges
  /\ dur \in [Tasks -> Durations]
  /\ schedule \in [Tasks -> Placements]
  /\ slack \in [Tasks -> Nat \cup {NoSlack}]
  /\ provider \in [Tasks -> Vendors \cup {NoVendor}]
  /\ \A r \in Rows : \/ row[r] = NoAssignment
                     \/ row[r] \in [vendor : Vendors, category : Categories,
                                    status : {"CONFIRMED", "REPLACED"}]
  /\ item \in [Categories -> {0} \cup Quotes]
  /\ \A s \in Slots : slot[s].pc \in {"idle", "compute", "bind", "reassign", "execute"}
  /\ requests \in 0 .. MaxRequests
  /\ {fresh, raced, takenOver, unchecked} \subseteq BOOLEAN

\* A plan just generated: scheduled, but without a critical path.
Init ==
  /\ deps = {}
  /\ dur = Baseline
  /\ schedule = Schedule(Graph, DefaultDuration)
  /\ slack = [t \in Tasks |-> NoSlack]
  /\ provider = [t \in Tasks |-> NoVendor]
  /\ row = [r \in Rows |-> NoAssignment]
  /\ item = [c \in Categories |-> 0]
  /\ slot = [s \in Slots |-> Idle]
  /\ requests = 0
  /\ fresh = FALSE /\ raced = FALSE /\ takenOver = FALSE /\ unchecked = FALSE

-----------------------------------------------------------------------------
Request ==
  /\ requests < MaxRequests
  /\ requests' = requests + 1

Free(s) == slot[s].pc = "idle" /\ Request

Begin(s, handler) == slot' = [slot EXCEPT ![s] = handler]

\* After a commit, what the others have read is from before it.
Overtaken ==
  [o \in Slots |-> IF slot[o].pc = "idle" THEN Idle ELSE [slot[o] EXCEPT !.overtaken = TRUE]]

Ended(s) == [Overtaken EXCEPT ![s] = Idle]

RowsOf(v) == {r \in Rows : row[r].vendor = v}
Unused == {r \in Rows : row[r] = NoAssignment}

\* What a new value changes of the columns read, which is all that is written.
Changes(new, old) == [x \in {y \in DOMAIN old : new[y] # old[y]} |-> new[x]]

\* What a commit leaves in the columns: what it writes, and what it does not.
Written(writes, old) == [x \in DOMAIN old |-> IF x \in DOMAIN writes THEN writes[x] ELSE old[x]]

Recalculated ==
  [schedule |-> Changes(Schedule(Graph, DefaultDuration), schedule),
   slack |-> Changes(Slack(Graph), slack)]

Spent(t, price) == Changes([item EXCEPT ![Category[t]] = price], item)

\* What is to be done about the row that a query for the vendor finds first.
Lookup(v) ==
  IF RowsOf(v) = {} THEN {Insert}
  ELSE {IF row[r].status = "CONFIRMED" THEN Kept ELSE r : r \in RowsOf(v)}

\* The vendor's assignment is confirmed, or one is inserted.
Confirmed(rows, found, v, c) ==
  CASE found = Insert ->
         {[rows EXCEPT ![r] = [vendor |-> v, category |-> c, status |-> "CONFIRMED"]] : r \in Unused}
    [] found = Kept -> {rows}
    [] OTHER        -> {[rows EXCEPT ![found].status = "CONFIRMED"]}

Committed(items, cs) == FoldSet(LAMBDA c, n : n + items[c], 0, cs)

-----------------------------------------------------------------------------
(* Faulty variants of the operations defined below, each with one plausible *)
(* bug.  They are not part of Spec; the property each must break is named.   *)

\* TypeOK: the slack that is used up is subtracted without a floor.
UsedUpUnbounded(left, shift) == left - shift

\* BudgetRespected: the new price alone is compared with the budget.
AffordableAlone(t, price) == price <= TotalBudget

\* BoundHasCommitment: the old provider's assignment is always replaced.
SoleTaskAlways(t) == TRUE

-----------------------------------------------------------------------------
(* Edits of the plan *)

\* create_dependency refuses a self-loop and an existing edge, but no cycle.
AddDependency(p, s) ==
  /\ Request
  /\ <<p, s>> \in Edges \ deps
  /\ deps' = deps \cup {<<p, s>>}
  /\ fresh' = FALSE
  /\ slot' = Overtaken
  /\ UNCHANGED <<dur, schedule, slack, provider, row, item, raced, takenOver, unchecked>>

\* _execute_reassign_task; nothing is computed anew.
ChangeTask(t, d) ==
  /\ Request
  /\ d \in Durations \ {dur[t]}
  /\ dur' = [dur EXCEPT ![t] = d]
  /\ fresh' = FALSE
  /\ slot' = Overtaken
  /\ UNCHANGED <<deps, schedule, slack, provider, row, item, raced, takenOver, unchecked>>

UsedUp(left, shift) == Max({0, left - shift})

\* _execute_adjust_schedule moves one task and no other, by a shift and to a start
\* and an end of its own; one that changes nothing writes nothing.
ShiftTask(t, shift, window) ==
  /\ Request
  /\ window.from \in Moments \cup {schedule[t].from + shift}
  /\ window.to \in Moments \cup {schedule[t].to + shift}
  /\ schedule' = [schedule EXCEPT ![t] = window]
  /\ slack' = [slack EXCEPT ![t] = IF @ = NoSlack \/ shift = 0 THEN @ ELSE UsedUp(@, shift)]
  /\ <<schedule, slack>>' # <<schedule, slack>>
  /\ fresh' = FALSE
  /\ slot' = Overtaken
  /\ UNCHANGED <<deps, dur, provider, row, item, raced, takenOver, unchecked>>

\* compute_schedule raises on a cycle.
Compute(s) ==
  /\ Free(s)
  /\ IsAcyclic(Graph)
  /\ Begin(s, [pc |-> "compute", overtaken |-> FALSE, plan |-> Recalculated])
  /\ UNCHANGED <<deps, dur, schedule, slack, provider, row, item, fresh, raced, takenOver, unchecked>>

Computed(s) ==
  /\ slot[s].pc = "compute"
  /\ schedule' = Written(slot[s].plan.schedule, schedule)
  /\ slack' = Written(slot[s].plan.slack, slack)
  /\ fresh' = ~slot[s].overtaken
  /\ raced' = (raced \/ slot[s].overtaken)
  /\ slot' = Ended(s)
  /\ UNCHANGED <<requests, deps, dur, provider, row, item, takenOver, unchecked>>

-----------------------------------------------------------------------------
(* VendorTaskBindingService *)

\* The other categories' commitments and the quote stay within the budget.
Affordable(t, price) ==
  Committed(item, Categories \ {Category[t]}) + price <= TotalBudget

\* evaluate_feasibility and bind_vendor_to_task, which moves a bound task only
\* when asked to, and rolls back when the plan has a cycle.
Bind(s, t, v, price) ==
  /\ Free(s)
  /\ provider[t] # v
  /\ Category[t] \in Serves[v]
  /\ Affordable(t, price)
  /\ IsAcyclic(Graph)
  /\ \E found \in Lookup(v) :
       Begin(s, [pc |-> "bind", overtaken |-> FALSE, task |-> t, vendor |-> v,
                 found |-> found, spent |-> Spent(t, price), plan |-> Recalculated])
  /\ UNCHANGED <<deps, dur, schedule, slack, provider, row, item, fresh, raced, takenOver, unchecked>>

\* The assignment of the vendor the task had stays as it is.
Bound(s) ==
  LET h == slot[s] IN
  /\ h.pc = "bind"
  /\ provider' = [provider EXCEPT ![h.task] = h.vendor]
  /\ row' \in Confirmed(row, h.found, h.vendor, Category[h.task])
  /\ item' = Written(h.spent, item)
  /\ schedule' = Written(h.plan.schedule, schedule)
  /\ slack' = Written(h.plan.slack, slack)
  /\ fresh' = ~h.overtaken
  /\ raced' = (raced \/ h.overtaken)
  /\ slot' = Ended(s)
  /\ UNCHANGED <<requests, deps, dur, takenOver, unchecked>>

\* No other task has the provider of this one.
SoleTask(t) == \A o \in Tasks \ {t} : provider[o] # provider[t]

\* The row of the old provider that is to be replaced, if it is not yet.
ToReplace(t) ==
  IF provider[t] = NoVendor \/ ~SoleTask(t) \/ RowsOf(provider[t]) = {} THEN {NoRow}
  ELSE {IF row[r].status = "REPLACED" THEN NoRow ELSE r : r \in RowsOf(provider[t])}

\* reassign_task_provider; the row to replace is any row of the old provider.
Reassign(s, t, v) ==
  /\ Free(s)
  /\ provider[t] # v
  /\ Category[t] \in Serves[v]
  /\ \E found \in Lookup(v), old \in ToReplace(t) :
       Begin(s, [pc |-> "reassign", overtaken |-> FALSE, task |-> t, vendor |-> v,
                 found |-> found, old |-> old])
  /\ UNCHANGED <<deps, dur, schedule, slack, provider, row, item, fresh, raced, takenOver, unchecked>>

\* Neither the plan nor the budget is computed anew.
Reassigned(s) ==
  LET h == slot[s]
      replaced == IF h.old = NoRow THEN row ELSE [row EXCEPT ![h.old].status = "REPLACED"]
  IN
  /\ h.pc = "reassign"
  /\ provider' = [provider EXCEPT ![h.task] = h.vendor]
  /\ row' \in Confirmed(replaced, h.found, h.vendor, Category[h.task])
  /\ raced' = (raced \/ h.overtaken)
  /\ slot' = Ended(s)
  /\ UNCHANGED <<requests, deps, dur, schedule, slack, item, fresh, takenOver, unchecked>>

-----------------------------------------------------------------------------
(* Approved actions and the generation of a plan *)

\* _execute_reassign_vendor: a vendor without a row takes one of the category
\* over, and all the rows the vendor has are confirmed.
Execute(s, t, v, price) ==
  LET ofCategory == {r \in Rows : row[r].category = Category[t]} IN
  /\ Free(s)
  /\ provider[t] # v
  /\ \E found \in IF RowsOf(v) = {} /\ ofCategory # {} THEN ofCategory ELSE Lookup(v) :
       Begin(s, [pc |-> "execute", overtaken |-> FALSE, task |-> t, vendor |-> v,
                 found |-> found, spent |-> Spent(t, price),
                 own |-> {r \in RowsOf(v) : row[r].status # "CONFIRMED"}])
  /\ UNCHANGED <<deps, dur, schedule, slack, provider, row, item, fresh, raced, takenOver, unchecked>>

Executed(s) ==
  LET h == slot[s] IN
  /\ h.pc = "execute"
  /\ provider' = [provider EXCEPT ![h.task] = h.vendor]
  /\ \E rows \in Confirmed(row, h.found, h.vendor, Category[h.task]) :
       row' = [r \in Rows |-> CASE r = h.found -> [rows[r] EXCEPT !.vendor = h.vendor]
                                [] r \in h.own \ {h.found} -> [rows[r] EXCEPT !.status = "CONFIRMED"]
                                [] OTHER -> rows[r]]
  /\ item' = Written(h.spent, item)
  /\ takenOver' = (takenOver \/ (h.found \in Rows /\ row[h.found].vendor # h.vendor))
  /\ unchecked' = TRUE
  /\ raced' = (raced \/ h.overtaken)
  /\ slot' = Ended(s)
  /\ UNCHANGED <<requests, deps, dur, schedule, slack, fresh>>

\* generate_plan deletes the plan, not the assignments; handlers that hold one
\* of its tasks find no row to update and fail.
Replan ==
  /\ Request
  /\ deps' = {}
  /\ dur' = Baseline
  /\ schedule' = Schedule([Graph EXCEPT !.edges = {}, !.dur = Baseline], DefaultDuration)
  /\ slack' = [t \in Tasks |-> NoSlack]
  /\ provider' = [t \in Tasks |-> NoVendor]
  /\ item' = [c \in Categories |-> 0]
  /\ slot' = [s \in Slots |-> Idle]
  /\ fresh' = FALSE
  /\ UNCHANGED <<row, raced, takenOver, unchecked>>

-----------------------------------------------------------------------------
Edit ==
  \/ \E p, s \in Tasks : AddDependency(p, s)
  \/ \E t \in Tasks, d \in Durations : ChangeTask(t, d)
  \/ \E t \in Tasks, shift \in Shifts :
       \E from \in Moments \cup {schedule[t].from + shift}, to \in Moments \cup {schedule[t].to + shift} :
         ShiftTask(t, shift, [from |-> from, to |-> to])
  \/ Replan

Handle(s) ==
  \/ Compute(s) \/ Computed(s)
  \/ \E t \in Tasks, v \in Vendors, price \in Quotes : Bind(s, t, v, price) \/ Execute(s, t, v, price)
  \/ Bound(s) \/ Executed(s)
  \/ \E t \in Tasks, v \in Vendors : Reassign(s, t, v)
  \/ Reassigned(s)

Next == Edit \/ \E s \in Slots : Handle(s)

Spec == Init /\ [][Next]_vars

-----------------------------------------------------------------------------
\* The slack kept with a task is time it can lose: as long as nothing has been
\* edited since it was computed, and every task has a duration, a delay within
\* it, carried through the schedule by ScheduleAdjuster, leaves the end of the
\* plan where it was.
SlackIsSafe ==
  fresh /\ (\A t \in Tasks : dur[t] > 0) =>
    \A t \in Tasks :
      ProjectEnd(Adjust(Graph, schedule, t, slack[t])) = ProjectEnd(schedule)

\* compile_plan holds a task ready only if its provider has a CONFIRMED
\* assignment: binding and reassignment keep one for every bound task, whatever
\* the tasks share, except after a race or once an action took a row over.
BoundHasCommitment ==
  raced \/ takenOver \/
    \A t \in Tasks : provider[t] # NoVendor =>
      \E r \in Rows : row[r].vendor = provider[t] /\ row[r].status = "CONFIRMED"

\* Users' bindings keep what the budget items are committed to within the
\* budget of the event; approved actions, which nothing checks, and races need not.
BudgetRespected ==
  raced \/ unchecked \/ Committed(item, Categories) <= TotalBudget
=============================================================================
