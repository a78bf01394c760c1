--------------------------- MODULE AgentRunProofs ---------------------------
(***************************************************************************)
(* Proofs about AgentRun for any number of runs, cancel requests,          *)
(* categories and restarts: the life of a run is type correct, every       *)
(* executing run is owned, its end is final, told once and told after it   *)
(* is committed.  The argument is the inductive invariant RunInvariant.    *)
(***************************************************************************)
EXTENDS AgentRun, TLAPS

\* What the invariant says of one run.
Good(r) == RunOK(r) /\ Owned(r) /\ EndsOnce(r) /\ TellsCommitted(r)

\* Appending an event tells that event and nothing else, to that run only.
LEMMA Appended ==
  ASSUME log \in [Runs -> Seq(LifeEvents)], NEW r \in Runs, NEW e \in LifeEvents,
         RecordEvent(r, e)
  PROVE  /\ log' \in [Runs -> Seq(LifeEvents)]
         /\ \A q \in Runs : q # r => log'[q] = log[q]
         /\ \A x : Told(r, x)' <=> Told(r, x) \/ x = e
<1>1. log' = [log EXCEPT ![r] = Append(log[r], e)]
  BY DEF RecordEvent
<1>2. log[r] \in Seq(LifeEvents) /\ log'[r] = Append(log[r], e)
  BY <1>1
<1>3. /\ DOMAIN log[r] = 1 .. Len(log[r])
      /\ Len(log[r]) \in Nat
      /\ DOMAIN log'[r] = 1 .. Len(log[r]) + 1
      /\ \A i \in 1 .. Len(log[r]) : log'[r][i] = log[r][i]
      /\ log'[r][Len(log[r]) + 1] = e
  BY <1>2
<1>4. \A x : Told(r, x)' <=> Told(r, x) \/ x = e
  BY <1>3 DEF Told
<1> QED
  BY <1>1, <1>2, <1>4

\* An event that is no end, or the first end, keeps the end unique.
LEMMA AppendedOnce ==
  ASSUME log \in [Runs -> Seq(LifeEvents)], NEW r \in Runs, NEW e \in LifeEvents,
         RecordEvent(r, e), EndsOnce(r),
         e \notin TerminalEvents \/ ~\E x \in TerminalEvents : Told(r, x)
  PROVE  EndsOnce(r)'
<1>1. log' = [log EXCEPT ![r] = Append(log[r], e)]
  BY DEF RecordEvent
<1>2. log[r] \in Seq(LifeEvents) /\ log'[r] = Append(log[r], e)
  BY <1>1
<1>3. /\ DOMAIN log[r] = 1 .. Len(log[r])
      /\ Len(log[r]) \in Nat
      /\ DOMAIN log'[r] = 1 .. Len(log[r]) + 1
      /\ \A i \in 1 .. Len(log[r]) : log'[r][i] = log[r][i]
      /\ log'[r][Len(log[r]) + 1] = e
  BY <1>2
<1> QED
  BY <1>3 DEF EndsOnce, Told

\* A run whose row, log and handlers a step leaves alone stays good.
LEMMA Untouched ==
  ASSUME NEW q \in Runs, Good(q),
         status'[q] = status[q], log'[q] = log[q], starter'[q] = starter[q],
         worker'[q] = worker[q], leg'[q] = leg[q], orphans'[q] = orphans[q]
  PROVE  Good(q)'
BY DEF Good, RunOK, Owned, EndsOnce, TellsCommitted, Told

\* The same for a run of which only handlers and status move.
LEMMA LogKept ==
  ASSUME NEW q \in Runs, log'[q] = log[q]
  PROVE  /\ EndsOnce(q) => EndsOnce(q)'
         /\ \A x : Told(q, x)' <=> Told(q, x)
BY DEF EndsOnce, Told

\* The values the handlers write are of their types.
LEMMA Kinds ==
  /\ {"RUNNING", "DISCOVERING", "CANCELLING", "FAILED", "CANCELLED",
      "WAITING_FOR_USER_SELECTION"} \subseteq Statuses
  /\ {"run_started", "cancel_requested", "selection_required", "run_failed",
      "run_cancelled"} \subseteq LifeEvents
  /\ \A fate : EndEvent(fate) \in TerminalEvents
  /\ TerminalEvents \subseteq LifeEvents
BY DEF Statuses, Active, Terminal, LifeEvents, TerminalEvents, EndEvent

\* A run given another status still has one.
LEMMA SetStatusTyped ==
  ASSUME status \in [Runs -> Statuses], NEW r \in Runs, NEW v \in Statuses,
         SetStatus(r, v)
  PROVE  /\ status' \in [Runs -> Statuses]
         /\ status'[r] = v
         /\ \A q \in Runs : q # r => status'[q] = status[q]
BY DEF SetStatus

\* A worker that goes on is still at one of its steps.
LEMMA StepTyped ==
  ASSUME worker \in [Runs -> WorkerPcs], NEW r \in Runs, NEW from, NEW to \in WorkerPcs,
         Step(r, from, to)
  PROVE  /\ worker' \in [Runs -> WorkerPcs]
         /\ worker[r] = from
         /\ worker'[r] = to
         /\ \A q \in Runs : q # r => worker'[q] = worker[q]
BY DEF Step

\* So is one that looks at its run's status between two legs.
LEMMA BoundaryTyped ==
  ASSUME worker \in [Runs -> WorkerPcs], NEW r \in Runs, NEW from, NEW to \in WorkerPcs,
         Boundary(r, from, to)
  PROVE  /\ worker' \in [Runs -> WorkerPcs]
         /\ worker[r] = from
         /\ worker'[r] \in {"stopping", to}
         /\ \A q \in Runs : q # r => worker'[q] = worker[q]
<1>1. PICK next \in {"stopping", to} : Step(r, from, next)
  BY DEF Boundary
<1>2. next \in WorkerPcs
  BY DEF WorkerPcs
<1> QED
  BY <1>1, <1>2, StepTyped

\* No step leaves the declared types.
LEMMA TypeStep ==
  ASSUME TypeOK, RunInvariant, [Next]_vars
  PROVE  TypeOK'
<1> USE DEF TypeOK
<1>1. ASSUME NEW r \in Runs, CheckActive(r) PROVE TypeOK'
  BY <1>1 DEF CheckActive, StarterPcs
<1>2. ASSUME NEW r \in Runs, InsertRun(r) PROVE TypeOK'
  <2>1. starter' \in [Runs -> StarterPcs]
    BY <1>2 DEF InsertRun, StarterPcs
  <2>2. status' \in [Runs -> Statuses]
    BY <1>2, Kinds, SetStatusTyped DEF InsertRun
  <2> QED
    BY <1>2, <2>1, <2>2 DEF InsertRun
<1>3. ASSUME NEW r \in Runs, HandOver(r) PROVE TypeOK'
  <2>1. log' \in [Runs -> Seq(LifeEvents)]
    BY <1>3, Kinds, Appended DEF HandOver
  <2> QED
    BY <1>3, <2>1 DEF HandOver, StarterPcs, WorkerPcs
<1>4. ASSUME NEW r \in Runs, PickUp(r) \/ CheckCancelled(r) PROVE TypeOK'
  <2>1. worker' \in [Runs -> WorkerPcs]
    BY <1>4, BoundaryTyped DEF PickUp, CheckCancelled, WorkerPcs
  <2> QED
    BY <1>4, <2>1 DEF PickUp, CheckCancelled
<1>5. ASSUME NEW r \in Runs, Discover(r) \/ AwaitSelection(r) PROVE TypeOK'
  <2>1. worker' \in [Runs -> WorkerPcs]
    BY <1>5, StepTyped DEF Discover, AwaitSelection, WorkerPcs
  <2>2. status' \in [Runs -> Statuses]
    BY <1>5, Kinds, SetStatusTyped DEF Discover, AwaitSelection
  <2> QED
    BY <1>5, <2>1, <2>2 DEF Discover, AwaitSelection
<1>6. ASSUME NEW r \in Runs, Prepare(r) PROVE TypeOK'
  <2>1. worker' \in [Runs -> WorkerPcs]
    BY <1>6, StepTyped DEF Prepare, WorkerPcs
  <2>2. status' \in [Runs -> Statuses]
    BY <1>6, Kinds, SetStatusTyped DEF Prepare
  <2> QED
    BY <1>6, <2>1, <2>2 DEF Prepare
<1>7. ASSUME NEW r \in Runs, GiveUp(r) \/ RecordSelection(r) PROVE TypeOK'
  <2>1. worker' \in [Runs -> WorkerPcs]
    BY <1>7, StepTyped DEF GiveUp, RecordSelection, WorkerPcs
  <2>2. log' \in [Runs -> Seq(LifeEvents)]
    BY <1>7, Kinds, Appended DEF GiveUp, RecordSelection
  <2> QED
    BY <1>7, <2>1, <2>2 DEF GiveUp, RecordSelection
<1>8. ASSUME NEW r \in Runs, FinishLeg(r) PROVE TypeOK'
  <2>1. worker' \in [Runs -> WorkerPcs] /\ worker[r] = "sourcing"
    BY <1>8, StepTyped DEF FinishLeg, WorkerPcs
  <2>2. leg' \in [Runs -> 0 .. Categories]
    BY <1>8, <2>1, CountsAssumption DEF FinishLeg, RunInvariant, RunOK
  <2> QED
    BY <1>8, <2>1, <2>2 DEF FinishLeg
<1>9. ASSUME NEW r \in Runs, FailLeg(r) PROVE TypeOK'
  <2>1. worker' \in [Runs -> WorkerPcs]
    BY <1>9, StepTyped DEF FailLeg, WorkerPcs
  <2> QED
    BY <1>9, <2>1 DEF FailLeg
<1>10. ASSUME NEW r \in Runs, NEW from, NEW to \in {"stopped", "failed"},
              NEW fate \in Terminal, Finalize(r, from, to, fate)
       PROVE  TypeOK'
  <2>1. worker' \in [Runs -> WorkerPcs]
    BY <1>10, StepTyped DEF Finalize, WorkerPcs
  <2>2. status' \in [Runs -> Statuses]
    BY <1>10, SetStatusTyped DEF Finalize, Statuses
  <2> QED
    BY <1>10, <2>1, <2>2 DEF Finalize
<1>11. ASSUME NEW r \in Runs, NEW from, NEW fate, RecordEnd(r, from, fate)
       PROVE  TypeOK'
  <2>1. worker' \in [Runs -> WorkerPcs]
    BY <1>11, StepTyped DEF RecordEnd, WorkerPcs
  <2>2. log' \in [Runs -> Seq(LifeEvents)]
    BY <1>11, Kinds, Appended DEF RecordEnd
  <2> QED
    BY <1>11, <2>1, <2>2 DEF RecordEnd
<1>12. ASSUME NEW c \in Cancels, NEW r \in Runs, RequestCancel(c, r) PROVE TypeOK'
  <2>1. status' \in [Runs -> Statuses]
    BY <1>12, Kinds, SetStatusTyped DEF RequestCancel
  <2>2. canceller' \in [Cancels -> {"new", "requested", "done"}]
    BY <1>12 DEF RequestCancel
  <2>3. target' \in [Cancels -> Runs \cup {NoRun}]
    BY <1>12 DEF RequestCancel
  <2> QED
    BY <1>12, <2>1, <2>2, <2>3 DEF RequestCancel
<1>13. ASSUME NEW c \in Cancels, RecordRequest(c) PROVE TypeOK'
  <2>1. target[c] \in Runs
    BY <1>13 DEF RecordRequest, RunInvariant
  <2>2. log' \in [Runs -> Seq(LifeEvents)]
    BY <1>13, <2>1, Kinds, Appended DEF RecordRequest
  <2> QED
    BY <1>13, <2>2 DEF RecordRequest
<1>14. CASE Restart
  <2>1. restarts' \in 0 .. MaxRestarts /\ leg' \in [Runs -> 0 .. Categories]
    BY <1>14, CountsAssumption DEF Restart
  <2> QED
    BY <1>14, <2>1 DEF Restart, StarterPcs, WorkerPcs
<1>15. ASSUME NEW r \in Runs, CloseOrphan(r) PROVE TypeOK'
  <2>1. status' \in [Runs -> Statuses]
    BY <1>15, Kinds, SetStatusTyped DEF CloseOrphan
  <2> QED
    BY <1>15, <2>1 DEF CloseOrphan
<1>16. ASSUME NEW r \in Runs, RecordOrphan(r) PROVE TypeOK'
  <2>1. log' \in [Runs -> Seq(LifeEvents)]
    BY <1>16, Kinds, Appended DEF RecordOrphan
  <2> QED
    BY <1>16, <2>1 DEF RecordOrphan
<1>17. CASE UNCHANGED vars
  BY <1>17 DEF vars
<1>18. {"CANCELLED", "FAILED"} \subseteq Terminal
  BY DEF Terminal
<1> QED
  BY <1>1, <1>2, <1>3, <1>4, <1>5, <1>6, <1>7, <1>8, <1>9, <1>10, <1>11, <1>12,
     <1>13, <1>14, <1>15, <1>16, <1>17, <1>18
     DEF Next, Start, Work, Reconcile, Quiet

\* A step that concerns one run leaves the others as they are.
LEMMA OthersGood ==
  ASSUME NEW r \in Runs, \A q \in Runs : Good(q),
         \A q \in Runs : q # r =>
           /\ status'[q] = status[q] /\ log'[q] = log[q] /\ starter'[q] = starter[q]
           /\ worker'[q] = worker[q] /\ leg'[q] = leg[q] /\ orphans'[q] = orphans[q],
         Good(r)'
  PROVE  \A q \in Runs : Good(q)'
BY Untouched

\* Steps that touch neither the row nor the log nor the handlers of any run.
LEMMA AllKept ==
  ASSUME \A q \in Runs : Good(q),
         UNCHANGED <<status, log, starter, worker, leg, orphans>>
  PROVE  \A q \in Runs : Good(q)'
BY Untouched

\* A step inside the worker that keeps status and log.
LEMMA WorkerGood ==
  ASSUME TypeOK, NEW r \in Runs, Good(r), UNCHANGED <<status, log, starter, orphans>>,
         NEW from, NEW to, worker[r] = from, worker'[r] = to,
         from \in {"queued", "preparing", "boundary", "sourcing"},
         \/ to \in {"admitted", "boundary", "wrapping", "stopping", "failing"}
         \/ to = "sourcing" /\ leg'[r] < Categories,
         to = "stopping" => status[r] \in Active
  PROVE  Good(r)'
<1>1. /\ EndsOnce(r)' /\ \A x : Told(r, x)' <=> Told(r, x)
  BY LogKept DEF Good
<1>2. status'[r] \in Active /\ starter'[r] = "done" /\ orphans'[r] = "no"
  BY DEF Good, RunOK, TypeOK, StarterPcs
<1>3. RunOK(r)'
  BY <1>2 DEF Good, RunOK, Active
<1>4. Owned(r)' /\ TellsCommitted(r)'
  BY <1>1, <1>2 DEF Good, Owned, TellsCommitted
<1> QED
  BY <1>1, <1>3, <1>4 DEF Good

\* A step of a worker whose run is executing that writes the status.
LEMMA WrittenGood ==
  ASSUME TypeOK, NEW r \in Runs, Good(r), UNCHANGED <<log, starter, leg, orphans>>,
         worker[r] \in {"admitted", "preparing", "wrapping", "stopping", "failing"},
         status[r] \in Active,
         \/ worker'[r] = "preparing" /\ status'[r] = "DISCOVERING"
         \/ worker'[r] \in {"abandoning", "failed"} /\ status'[r] = "FAILED"
         \/ worker'[r] = "stopped" /\ status'[r] = "CANCELLED"
         \/ worker'[r] = "selecting" /\ status'[r] = "WAITING_FOR_USER_SELECTION"
  PROVE  Good(r)'
<1>1. /\ EndsOnce(r)' /\ \A x : Told(r, x)' <=> Told(r, x)
  BY LogKept DEF Good
<1>2. starter'[r] = "done" /\ orphans'[r] = "no"
  BY DEF Good, RunOK, TypeOK, StarterPcs
<1>3. \A e \in TerminalEvents \cup {"selection_required"} : ~Told(r, e)
  BY DEF Good, TellsCommitted, Active, TerminalEvents
<1>4. RunOK(r)'
  BY <1>1, <1>2, <1>3 DEF RunOK, Active
<1>5. Owned(r)'
  BY DEF Owned, Active
<1>6. TellsCommitted(r)'
  BY <1>1, <1>3 DEF TellsCommitted, TerminalEvents
<1> QED
  BY <1>1, <1>4, <1>5, <1>6 DEF Good

\* Telling the outcome that has been committed.
LEMMA ToldGood ==
  ASSUME TypeOK, NEW r \in Runs, Good(r), NEW e \in LifeEvents, RecordEvent(r, e),
         UNCHANGED <<status, starter, leg>>,
         \/ /\ worker[r] = "abandoning" /\ worker'[r] = "failing" /\ orphans' = orphans
            /\ e = "run_failed"
         \/ /\ worker[r] = "selecting" /\ worker'[r] = "done" /\ orphans' = orphans
            /\ e = "selection_required"
         \/ /\ worker[r] = "stopped" /\ worker'[r] = "done" /\ orphans' = orphans
            /\ e = "run_cancelled"
         \/ /\ worker[r] = "failed" /\ worker'[r] = "done" /\ orphans' = orphans
            /\ e = "run_failed"
         \/ /\ orphans[r] = "closed" /\ orphans'[r] = "no" /\ worker' = worker
            /\ e = EndEvent(status[r])
  PROVE  Good(r)'
<1>1. /\ log' \in [Runs -> Seq(LifeEvents)]
      /\ \A x : Told(r, x)' <=> Told(r, x) \/ x = e
  BY Appended DEF TypeOK
<1>2. ~\E x \in TerminalEvents : Told(r, x)
  BY DEF Good, RunOK
<1>3. EndsOnce(r)'
  BY <1>2, AppendedOnce DEF Good, TypeOK
<1>4. \/ status[r] = "FAILED" /\ e = "run_failed"
      \/ status[r] = "CANCELLED" /\ e = "run_cancelled"
      \/ status[r] = "WAITING_FOR_USER_SELECTION" /\ e = "selection_required"
  BY DEF Good, RunOK, EndEvent, Terminal
<1>5. starter[r] \in {"done"}
  BY <1>4 DEF Good, RunOK, TypeOK, StarterPcs
<1>6. RunOK(r)'
  <2>1. CASE worker' = worker
    BY <2>1, <1>4, <1>5 DEF Good, RunOK, Active, Terminal
  <2>2. CASE orphans' = orphans
    BY <2>2, <1>4, <1>5 DEF Good, RunOK, Active, Terminal
  <2> QED
    BY <2>1, <2>2
<1>7. Owned(r)'
  BY <1>4 DEF Owned, Active
<1>8. TellsCommitted(r)'
  BY <1>1, <1>2, <1>4 DEF Good, TellsCommitted, TerminalEvents
<1> QED
  BY <1>3, <1>6, <1>7, <1>8 DEF Good

\* A row never vanishes.
LEMMA RowStays ==
  ASSUME TypeOK, RunInvariant, [Next]_vars, NEW q \in Runs, status[q] # "ABSENT"
  PROVE  status'[q] # "ABSENT"
BY DEF TypeOK, Next, vars, Start, Work, Reconcile, CheckActive, InsertRun, HandOver, PickUp,
   Discover, Prepare, GiveUp, CheckCancelled, FinishLeg, FailLeg, AwaitSelection,
   RecordSelection, Finalize, RecordEnd, RequestCancel, RecordRequest, Restart,
   CloseOrphan, RecordOrphan, Quiet, SetStatus

\* Requests in flight name a run that exists.
LEMMA TargetsStep ==
  ASSUME TypeOK, RunInvariant, [Next]_vars
  PROVE  \A c \in Cancels : canceller'[c] = "requested" =>
           target'[c] \in Runs /\ status'[target'[c]] # "ABSENT"
<1> SUFFICES ASSUME NEW c \in Cancels, canceller'[c] = "requested"
             PROVE  target'[c] \in Runs /\ status'[target'[c]] # "ABSENT"
  OBVIOUS
<1>1. \/ canceller[c] = "requested" /\ target'[c] = target[c]
      \/ \E r \in Runs : target'[c] = r /\ status[r] # "ABSENT"
  BY DEF TypeOK, Next, vars, Start, Work, Reconcile, CheckActive, InsertRun, HandOver,
     PickUp, Discover, Prepare, GiveUp, CheckCancelled, FinishLeg, FailLeg, AwaitSelection,
     RecordSelection, Finalize, RecordEnd, RequestCancel, RecordRequest, Restart,
     CloseOrphan, RecordOrphan, Quiet
<1> QED
  BY <1>1, RowStays DEF RunInvariant

\* No step breaks what the invariant says of each run.
LEMMA GoodStep ==
  ASSUME TypeOK, \A q \in Runs : Good(q), RunInvariant, [Next]_vars
  PROVE  \A q \in Runs : Good(q)'
<1> USE DEF TypeOK
<1>1. ASSUME NEW r \in Runs, CheckActive(r) PROVE \A q \in Runs : Good(q)'
  <2>1. starter[r] = "new" /\ starter'[r] \in {"checked", "done"}
    BY <1>1 DEF CheckActive
  <2>2. UNCHANGED <<status, log, worker, leg, orphans>>
    BY <1>1 DEF CheckActive
  <2>3. Good(r)'
    BY <2>1, <2>2, LogKept DEF Good, RunOK, Owned, TellsCommitted, Active
  <2> QED
    BY <1>1, <2>2, <2>3, OthersGood DEF CheckActive
<1>2. ASSUME NEW r \in Runs, InsertRun(r) PROVE \A q \in Runs : Good(q)'
  <2>1. /\ starter[r] = "checked" /\ status[r] = "ABSENT" /\ log[r] = <<>>
        /\ worker[r] = "none" /\ orphans[r] = "no"
    BY <1>2 DEF InsertRun, Good, RunOK, Active, Terminal
  <2>2. UNCHANGED <<log, worker, leg, orphans>>
    BY <1>2 DEF InsertRun
  <2>3. \/ starter'[r] = "inserted" /\ status'[r] = "RUNNING"
        \/ starter'[r] = "done" /\ status'[r] = "ABSENT"
    BY <1>2, <2>1 DEF InsertRun, SetStatus
  <2>4. EndsOnce(r)' /\ \A x : ~Told(r, x)'
    BY <2>1, <2>2 DEF EndsOnce, Told
  <2>5. Good(r)'
    BY <2>1, <2>2, <2>3, <2>4 DEF Good, RunOK, Owned, TellsCommitted, Active
  <2> QED
    BY <1>2, <2>2, <2>5, OthersGood DEF InsertRun, SetStatus
<1>3. ASSUME NEW r \in Runs, HandOver(r) PROVE \A q \in Runs : Good(q)'
  <2>1. /\ starter[r] = "inserted" /\ status[r] \in Active /\ orphans[r] = "no"
    BY <1>3 DEF HandOver, Good, RunOK, Active
  <2>2. /\ UNCHANGED <<status, leg, orphans>> /\ starter'[r] = "done"
        /\ worker'[r] = "queued"
    BY <1>3 DEF HandOver
  <2>3. /\ \A x : Told(r, x)' <=> Told(r, x) \/ x = "run_started"
        /\ \A q \in Runs : q # r => log'[q] = log[q]
    BY <1>3, Kinds, Appended DEF HandOver
  <2>4. EndsOnce(r)'
    BY <1>3, Kinds, AppendedOnce DEF HandOver, Good, TerminalEvents
  <2>5. Good(r)'
    BY <2>1, <2>2, <2>3, <2>4 DEF Good, RunOK, Owned, TellsCommitted, Active
  <2> QED
    BY <1>3, <2>2, <2>3, <2>5, OthersGood DEF HandOver
<1>4. ASSUME NEW r \in Runs, PickUp(r) \/ CheckCancelled(r)
      PROVE  \A q \in Runs : Good(q)'
  <2>1. UNCHANGED <<status, log, starter, leg, orphans>>
    BY <1>4 DEF PickUp, CheckCancelled
  <2>2. status[r] \in Active /\ worker[r] \in {"queued", "boundary"}
    BY <1>4 DEF PickUp, CheckCancelled, Boundary, Step, Good, RunOK
  <2>3. \/ worker'[r] \in {"stopping", "admitted", "wrapping"}
        \/ worker'[r] = "sourcing" /\ leg'[r] < Categories
    BY <1>4, <2>1 DEF PickUp, CheckCancelled, Boundary, Step
  <2>4. Good(r)'
    BY <2>1, <2>2, <2>3, WorkerGood
  <2> QED
    BY <1>4, <2>1, <2>4, OthersGood DEF PickUp, CheckCancelled, Boundary, Step
<1>5. ASSUME NEW r \in Runs, FinishLeg(r) \/ FailLeg(r) PROVE \A q \in Runs : Good(q)'
  <2>1. /\ UNCHANGED <<status, log, starter, orphans>>
        /\ worker[r] = "sourcing" /\ worker'[r] \in {"boundary", "failing"}
    BY <1>5 DEF FinishLeg, FailLeg, Step
  <2>2. Good(r)'
    BY <2>1, WorkerGood
  <2> QED
    BY <1>5, <2>1, <2>2, OthersGood DEF FinishLeg, FailLeg, Step
<1>6. ASSUME NEW r \in Runs, Discover(r) \/ AwaitSelection(r)
      PROVE  \A q \in Runs : Good(q)'
  <2>1. UNCHANGED <<log, starter, leg, orphans>>
    BY <1>6 DEF Discover, AwaitSelection
  <2>2. worker[r] \in {"admitted", "wrapping"} /\ status[r] \in Active
    BY <1>6 DEF Discover, AwaitSelection, Step, Good, RunOK
  <2>3. \/ worker'[r] = "preparing" /\ status'[r] = "DISCOVERING"
        \/ worker'[r] = "selecting" /\ status'[r] = "WAITING_FOR_USER_SELECTION"
    BY <1>6 DEF Discover, AwaitSelection, Step, SetStatus
  <2>4. Good(r)'
    BY <2>1, <2>2, <2>3, WrittenGood
  <2> QED
    BY <1>6, <2>1, <2>4, OthersGood DEF Discover, AwaitSelection, Step, SetStatus
<1>7. ASSUME NEW r \in Runs, Prepare(r) PROVE \A q \in Runs : Good(q)'
  <2>1. UNCHANGED <<log, starter, leg, orphans>>
    BY <1>7 DEF Prepare
  <2>2. worker[r] = "preparing" /\ status[r] \in Active
    BY <1>7 DEF Prepare, Step, Good, RunOK
  <2>3. \/ worker'[r] \in {"boundary", "failing"} /\ status' = status
        \/ worker'[r] = "abandoning" /\ status'[r] = "FAILED"
    BY <1>7 DEF Prepare, Step, SetStatus
  <2>4. Good(r)'
    BY <2>1, <2>2, <2>3, WorkerGood, WrittenGood
  <2> QED
    BY <1>7, <2>1, <2>4, OthersGood DEF Prepare, Step, SetStatus
<1>8. ASSUME NEW r \in Runs, GiveUp(r) \/ RecordSelection(r)
      PROVE  \A q \in Runs : Good(q)'
  <2>1. UNCHANGED <<status, starter, leg, orphans>>
    BY <1>8 DEF GiveUp, RecordSelection
  <2>2. \A q \in Runs : q # r => log'[q] = log[q]
    BY <1>8, Kinds, Appended DEF GiveUp, RecordSelection
  <2>3. Good(r)'
    BY <1>8, <2>1, Kinds, ToldGood DEF GiveUp, RecordSelection, Step
  <2> QED
    BY <1>8, <2>1, <2>2, <2>3, OthersGood DEF GiveUp, RecordSelection, Step
<1>9. ASSUME NEW r \in Runs, NEW from, NEW to, NEW fate, Finalize(r, from, to, fate),
             \/ from = "stopping" /\ to = "stopped" /\ fate = "CANCELLED"
             \/ from = "failing" /\ to = "failed" /\ fate = "FAILED"
      PROVE  \A q \in Runs : Good(q)'
  <2>1. UNCHANGED <<log, starter, leg, orphans>> /\ worker[r] = from
    BY <1>9 DEF Finalize, Step
  <2>2. CASE status[r] \in Terminal
    <3>1. status' = status /\ worker'[r] = "done"
      BY <1>9, <2>2 DEF Finalize, Step
    <3>2. starter[r] = "done" /\ orphans[r] = "no"
      BY <1>9, <2>1 DEF Good, RunOK, StarterPcs
    <3>3. Good(r)'
      BY <2>1, <2>2, <3>1, <3>2, LogKept DEF Good, RunOK, Owned, TellsCommitted,
         Active, Terminal
    <3> QED
      BY <1>9, <2>1, <2>2, <3>1, <3>3, OthersGood DEF Finalize, Step
  <2>3. CASE status[r] \notin Terminal
    <3>1. status'[r] = fate /\ worker'[r] = to
      BY <1>9, <2>3 DEF Finalize, Step, SetStatus
    <3>2. status[r] \in Active
      BY <1>9, <2>1, <2>3 DEF Good, RunOK, Terminal
    <3>3. Good(r)'
      BY <1>9, <2>1, <3>1, <3>2, WrittenGood
    <3> QED
      BY <1>9, <2>1, <2>3, <3>3, OthersGood DEF Finalize, Step, SetStatus
  <2> QED
    BY <2>2, <2>3
<1>10. ASSUME NEW r \in Runs, NEW from, NEW fate, RecordEnd(r, from, fate),
              \/ from = "stopped" /\ fate = "CANCELLED"
              \/ from = "failed" /\ fate = "FAILED"
       PROVE  \A q \in Runs : Good(q)'
  <2>1. UNCHANGED <<status, starter, leg, orphans>>
    BY <1>10 DEF RecordEnd
  <2>2. \A q \in Runs : q # r => log'[q] = log[q]
    BY <1>10, Kinds, Appended DEF RecordEnd
  <2>3. EndEvent(fate) = IF from = "stopped" THEN "run_cancelled" ELSE "run_failed"
    BY <1>10 DEF EndEvent
  <2>4. Good(r)'
    BY <1>10, <2>1, <2>3, Kinds, ToldGood DEF RecordEnd, Step
  <2> QED
    BY <1>10, <2>1, <2>2, <2>4, OthersGood DEF RecordEnd, Step
<1>11. ASSUME NEW c \in Cancels, NEW r \in Runs, RequestCancel(c, r)
       PROVE  \A q \in Runs : Good(q)'
  <2>1. UNCHANGED <<log, starter, worker, leg, orphans>>
    BY <1>11 DEF RequestCancel
  <2>2. \/ status[r] \in {"RUNNING", "DISCOVERING"} /\ status'[r] = "CANCELLING"
        \/ status' = status
    BY <1>11 DEF RequestCancel, SetStatus
  <2>3. Good(r)'
    BY <2>1, <2>2, LogKept DEF Good, RunOK, Owned, TellsCommitted, Active, Terminal
  <2> QED
    BY <1>11, <2>1, <2>3, OthersGood DEF RequestCancel, SetStatus
<1>12. ASSUME NEW c \in Cancels, RecordRequest(c) PROVE \A q \in Runs : Good(q)'
  <2>1. PICK r \in Runs : r = target[c] /\ status[r] # "ABSENT"
    BY <1>12 DEF RecordRequest, RunInvariant
  <2>2. RecordEvent(r, "cancel_requested") /\ UNCHANGED <<status, starter, worker, leg, orphans>>
    BY <1>12, <2>1 DEF RecordRequest
  <2>3. /\ \A x : Told(r, x)' <=> Told(r, x) \/ x = "cancel_requested"
        /\ \A q \in Runs : q # r => log'[q] = log[q]
    BY <2>2, Kinds, Appended
  <2>4. EndsOnce(r)'
    BY <2>2, Kinds, AppendedOnce DEF Good, TerminalEvents
  <2>5. starter[r] \notin {"new", "checked"}
    BY <2>1 DEF Good, RunOK
  <2>6. Good(r)'
    BY <2>1, <2>2, <2>3, <2>4, <2>5
       DEF Good, RunOK, Owned, TellsCommitted, TerminalEvents
  <2> QED
    BY <2>2, <2>3, <2>6, OthersGood
<1>13. CASE Restart
  <2> SUFFICES ASSUME NEW q \in Runs PROVE Good(q)'
    OBVIOUS
  <2>1. /\ status'[q] = status[q] /\ log'[q] = log[q] /\ worker'[q] = "none"
        /\ starter'[q] = IF starter[q] = "new" THEN "new" ELSE "done"
        /\ orphans'[q] = IF status[q] \in Active THEN "found" ELSE "no"
    BY <1>13 DEF Restart
  <2> QED
    BY <2>1, LogKept DEF Good, RunOK, Owned, TellsCommitted, Active
<1>14. ASSUME NEW r \in Runs, CloseOrphan(r) PROVE \A q \in Runs : Good(q)'
  <2>1. UNCHANGED <<log, starter, worker, leg>>
    BY <1>14 DEF CloseOrphan
  <2>2. /\ status[r] \in Active /\ worker[r] = "none" /\ starter[r] = "done"
    BY <1>14 DEF CloseOrphan, Good, RunOK, Active, StarterPcs
  <2>3. orphans'[r] = "closed" /\ status'[r] \in Terminal
    BY <1>14 DEF CloseOrphan, SetStatus, Terminal
  <2>4. \A e \in TerminalEvents \cup {"selection_required"} : ~Told(r, e)
    BY <2>2 DEF Good, TellsCommitted, Active, TerminalEvents
  <2>5. EndsOnce(r)' /\ \A x : Told(r, x)' <=> Told(r, x)
    BY <2>1, LogKept DEF Good
  <2>6. RunOK(r)'
    BY <2>1, <2>2, <2>3, <2>4, <2>5 DEF RunOK
  <2>7. Owned(r)' /\ TellsCommitted(r)'
    BY <2>3, <2>4, <2>5 DEF Owned, TellsCommitted, Active, Terminal, TerminalEvents
  <2> QED
    BY <1>14, <2>1, <2>5, <2>6, <2>7, OthersGood DEF CloseOrphan, SetStatus, Good
<1>15. ASSUME NEW r \in Runs, RecordOrphan(r) PROVE \A q \in Runs : Good(q)'
  <2>1. UNCHANGED <<status, starter, worker, leg>>
    BY <1>15 DEF RecordOrphan
  <2>2. \A q \in Runs : q # r => log'[q] = log[q]
    BY <1>15, Kinds, Appended DEF RecordOrphan
  <2>3. Good(r)'
    BY <1>15, <2>1, Kinds, ToldGood DEF RecordOrphan
  <2> QED
    BY <1>15, <2>1, <2>2, <2>3, OthersGood DEF RecordOrphan
<1>16. CASE UNCHANGED vars
  BY <1>16, AllKept DEF vars
<1> QED
  BY <1>1, <1>2, <1>3, <1>4, <1>5, <1>6, <1>7, <1>8, <1>9, <1>10, <1>11, <1>12,
     <1>13, <1>14, <1>15, <1>16
     DEF Next, Start, Work, Reconcile, Quiet

\* The rows are well typed and the inductive invariant of the runs holds in every
\* reachable state.
THEOREM RunsSafe == Spec => [](TypeOK /\ RunInvariant)
<1>1. Init => TypeOK /\ RunInvariant
  <2> SUFFICES ASSUME Init PROVE TypeOK /\ RunInvariant
    OBVIOUS
  <2>1. TypeOK
    <3>1. 0 \in 0 .. Categories /\ 0 \in 0 .. MaxRestarts
      BY CountsAssumption
    <3>2. <<>> \in Seq(LifeEvents)
      OBVIOUS
    <3> QED
      BY <3>1, <3>2 DEF Init, TypeOK, Statuses, StarterPcs, WorkerPcs
  <2>2. \A r \in Runs : log[r] = <<>>
    BY DEF Init
  <2>3. \A r \in Runs : EndsOnce(r) /\ \A x : ~Told(r, x)
    <3>1. DOMAIN <<>> = {}
      OBVIOUS
    <3> QED
      BY <2>2, <3>1, Zenon DEF EndsOnce, Told
  <2> QED
    BY <2>1, <2>3 DEF Init, RunInvariant, RunOK, ActiveRunOwned, Owned, EndRecordedOnce,
       EventsTellCommitted, TellsCommitted, Active
<1>2. TypeOK /\ RunInvariant /\ [Next]_vars => (TypeOK /\ RunInvariant)'
  <2> SUFFICES ASSUME TypeOK, RunInvariant, [Next]_vars PROVE (TypeOK /\ RunInvariant)'
    OBVIOUS
  <2>1. \A q \in Runs : Good(q)
    BY DEF RunInvariant, ActiveRunOwned, EndRecordedOnce, EventsTellCommitted, Good
  <2>2. \A q \in Runs : Good(q)'
    BY <2>1, GoodStep
  <2>3. /\ (\A r \in Runs : RunOK(r))' /\ ActiveRunOwned' /\ EndRecordedOnce'
        /\ EventsTellCommitted'
    BY <2>2 DEF ActiveRunOwned, EndRecordedOnce, EventsTellCommitted, Good
  <2> QED
    BY <2>3, TypeStep, TargetsStep DEF RunInvariant
<1> QED
  BY <1>1, <1>2, PTL DEF Spec

\* A run that reads as executing always has somebody who will move it on: the
\* start, its worker, or the start-up of a new process.
THEOREM RunsOwned == Spec => []ActiveRunOwned
BY RunsSafe, PTL DEF RunInvariant

\* The end of a run is recorded at most once, whoever gets to record it.
THEOREM EndsTold == Spec => []EndRecordedOnce
BY RunsSafe, PTL DEF RunInvariant

\* No event tells of an end that is not committed in the row of the run.
THEOREM EndsCommitted == Spec => []EventsTellCommitted
BY RunsSafe, PTL DEF RunInvariant

\* Rows, workers, cancel events and the log stay what TypeOK says.
THEOREM RunsTyped == Spec => []TypeOK
BY RunsSafe, PTL

\* FAILED and CANCELLED are final although no worker tests the status it replaces.
THEOREM EndsFinal == Spec => TerminalStays
<1>1. ASSUME TypeOK, RunInvariant, [Next]_vars, NEW r \in Runs, status[r] \in Terminal
      PROVE  status'[r] = status[r]
  <2> USE DEF TypeOK
  <2>1. /\ worker[r] \notin {"admitted", "preparing", "wrapping", "stopping"}
        /\ starter[r] # "checked" /\ orphans[r] # "found"
    BY <1>1 DEF RunInvariant, RunOK, Active, Terminal
  <2> QED
    BY <1>1, <2>1
       DEF Next, vars, Start, Work, Reconcile, CheckActive, InsertRun, HandOver, PickUp,
       Discover, Prepare, GiveUp, CheckCancelled, FinishLeg, FailLeg, AwaitSelection,
       RecordSelection, Finalize, RecordEnd, RequestCancel, RecordRequest, Restart,
       CloseOrphan, RecordOrphan, Quiet, SetStatus, Step, Boundary, Terminal
<1>2. TypeOK /\ RunInvariant /\ [Next]_vars
        => [\A r \in Runs : status[r] \in Terminal => status'[r] = status[r]]_vars
  BY <1>1
<1> QED
  BY <1>2, RunsSafe, PTL DEF Spec, TerminalStays
=============================================================================
