------------------------------ MODULE AgentRun ------------------------------
(***************************************************************************)
(* The life of the operations runs of one event: the start-operations      *)
(* endpoint, the background worker, cooperative cancellation and the       *)
(* reconciliation of orphaned runs when the API process starts.            *)
(*                                                                         *)
(* Each start request may insert one run, which carries its name.  A       *)
(* worker reads the status of its run only at its boundaries (the function *)
(* ensure_not_cancelled) and writes it without looking.  Recording an      *)
(* event is one step here: RunStream has its inside.  Of the events only   *)
(* those that tell the life of the run are kept.                           *)
(***************************************************************************)
EXTENDS Integers, Sequences

CONSTANTS
  Runs,        \* start requests, and the runs they insert
  Cancels,     \* cancel requests
  NoRun,
  Categories,  \* number of categories a worker sources, one leg for each
  MaxRestarts  \* bound: restarts of the API process

ASSUME RunsAssumption == NoRun \notin Runs
ASSUME CountsAssumption == {Categories, MaxRestarts} \subseteq Nat

Active == {"RUNNING", "DISCOVERING", "CANCELLING"}
Terminal == {"FAILED", "CANCELLED"}
Statuses == {"ABSENT", "WAITING_FOR_USER_SELECTION"} \cup Active \cup Terminal

LifeEvents == {"run_started", "cancel_requested", "selection_required",
               "run_failed", "run_cancelled"}
TerminalEvents == {"run_failed", "run_cancelled"}

VARIABLES
  status,    \* agent_runs.status
  log,       \* the life events of each run, in the order of their sequence
  starter,   \* the handler of each start request
  worker,    \* the background task of each run
  leg,       \* the categories it has sourced
  canceller, \* the handler of each cancel request
  target,    \* the run it cancels
  orphans,   \* what the starting process does about each run
  restarts   \* restarts so far

vars == <<status, log, starter, worker, leg, canceller, target, orphans, restarts>>

StarterPcs == {"new", "checked", "inserted", "done"}

WorkerPcs == {"none", "queued", "admitted", "preparing", "boundary", "sourcing",
              "wrapping", "selecting", "abandoning", "stopping", "failing",
              "stopped", "failed", "done"}

\* The types of the tables of runs and events and of the handlers' positions.
TypeOK ==
  /\ status \in [Runs -> Statuses]
  /\ log \in [Runs -> Seq(LifeEvents)]
  /\ starter \in [Runs -> StarterPcs]
  /\ worker \in [Runs -> WorkerPcs]
  /\ leg \in [Runs -> 0 .. Categories]
  /\ canceller \in [Cancels -> {"new", "requested", "done"}]
  /\ target \in [Cancels -> Runs \cup {NoRun}]
  /\ orphans \in [Runs -> {"no", "found", "closed"}]
  /\ restarts \in 0 .. MaxRestarts

Init ==
  /\ status = [r \in Runs |-> "ABSENT"]
  /\ log = [r \in Runs |-> <<>>]
  /\ starter = [r \in Runs |-> "new"]
  /\ worker = [r \in Runs |-> "none"]
  /\ leg = [r \in Runs |-> 0]
  /\ canceller = [c \in Cancels |-> "new"]
  /\ target = [c \in Cancels |-> NoRun]
  /\ orphans = [r \in Runs |-> "no"]
  /\ restarts = 0

-----------------------------------------------------------------------------
\* The process serves requests once its start-up has reconciled the runs.
Serving == \A r \in Runs : orphans[r] = "no"

SetStatus(r, s) == status' = [status EXCEPT ![r] = s]

RecordEvent(r, e) == log' = [log EXCEPT ![r] = Append(@, e)]

Step(r, from, to) ==
  /\ worker[r] = from
  /\ worker' = [worker EXCEPT ![r] = to]

\* ensure_not_cancelled at a boundary of the worker: RunCancelled is raised to
\* run_background_operations.
Boundary(r, from, to) ==
  Step(r, from, IF status[r] \in {"CANCELLING", "CANCELLED"} THEN "stopping" ELSE to)

-----------------------------------------------------------------------------
(* Faulty variants of the operations defined below, each with one plausible *)
(* bug.  They are not part of Spec; the property each must break is named.   *)

\* TypeOK: one category too many is taken up.
CheckOneCategoryMore(r) ==
  /\ Boundary(r, "boundary", IF leg[r] <= Categories THEN "sourcing" ELSE "wrapping")
  /\ UNCHANGED <<status, log, starter, leg, canceller, target, orphans, restarts>>

\* EndRecordedOnce: a run that is already closed is finalized again.
FinalizeAgain(r, from, to, fate) ==
  /\ Step(r, from, to)
  /\ SetStatus(r, fate)
  /\ UNCHANGED <<log, starter, leg, canceller, target, orphans, restarts>>

\* EventsTellCommitted: a cancelled run is told to have failed.
EndEventFailed(fate) == IF fate \in Terminal THEN "run_failed" ELSE "run_cancelled"

\* TerminalStays: the update of the cancel endpoint has no condition.
RequestCancelAnyStatus(c, r) ==
  /\ Serving /\ canceller[c] = "new" /\ status[r] # "ABSENT"
  /\ canceller' = [canceller EXCEPT ![c] = "requested"]
  /\ target' = [target EXCEPT ![c] = r]
  /\ SetStatus(r, "CANCELLING")
  /\ UNCHANGED <<log, starter, worker, leg, orphans, restarts>>

\* ActiveRunOwned: start-up looks for RUNNING and DISCOVERING runs only.
RestartForgetsCancelling ==
  /\ restarts < MaxRestarts
  /\ restarts' = restarts + 1
  /\ starter' = [r \in Runs |-> IF starter[r] = "new" THEN "new" ELSE "done"]
  /\ worker' = [r \in Runs |-> "none"]
  /\ leg' = [r \in Runs |-> 0]
  /\ canceller' = [c \in Cancels |-> IF canceller[c] = "new" THEN "new" ELSE "done"]
  /\ target' = [c \in Cancels |-> NoRun]
  /\ orphans' = [r \in Runs |-> IF status[r] \in {"RUNNING", "DISCOVERING"}
                                THEN "found" ELSE "no"]
  /\ UNCHANGED <<status, log>>

\* RunsComeToRest: a category without candidates is tried again, for ever.
FinishLegRetries(r) ==
  /\ Step(r, "sourcing", "boundary")
  /\ UNCHANGED <<status, log, starter, leg, canceller, target, orphans, restarts>>

\* CancelReaches: no check after the last category.
CheckBeforeLegsOnly(r) ==
  /\ IF leg[r] < Categories THEN Boundary(r, "boundary", "sourcing")
                            ELSE Step(r, "boundary", "wrapping")
  /\ UNCHANGED <<status, log, starter, leg, canceller, target, orphans, restarts>>

\* RunInvariant: a worker that is handed over is not remembered.
HandOverLost(r) ==
  /\ starter[r] = "inserted"
  /\ starter' = [starter EXCEPT ![r] = "done"]
  /\ RecordEvent(r, "run_started")
  /\ UNCHANGED <<status, worker, leg, canceller, target, orphans, restarts>>

-----------------------------------------------------------------------------
\* The event that tells the end of a run.
EndEvent(fate) == IF fate = "CANCELLED" THEN "run_cancelled" ELSE "run_failed"

-----------------------------------------------------------------------------
(* POST start-operations *)

CheckActive(r) ==
  /\ Serving /\ starter[r] = "new"
  /\ starter' = [starter EXCEPT ![r] =
       IF \E q \in Runs : status[q] \in Active THEN "done" ELSE "checked"]
  /\ UNCHANGED <<status, log, worker, leg, canceller, target, orphans, restarts>>

\* Planning, going live (which may fail: 400), then the insert.
InsertRun(r) ==
  /\ starter[r] = "checked"
  /\ \/ /\ starter' = [starter EXCEPT ![r] = "inserted"]
        /\ SetStatus(r, "RUNNING")
     \/ /\ starter' = [starter EXCEPT ![r] = "done"]
        /\ UNCHANGED status
  /\ UNCHANGED <<log, worker, leg, canceller, target, orphans, restarts>>

\* The start is recorded and the worker handed to BackgroundTasks.
HandOver(r) ==
  /\ starter[r] = "inserted"
  /\ starter' = [starter EXCEPT ![r] = "done"]
  /\ RecordEvent(r, "run_started")
  /\ worker' = [worker EXCEPT ![r] = "queued"]
  /\ UNCHANGED <<status, leg, canceller, target, orphans, restarts>>

-----------------------------------------------------------------------------
(* The worker: run_background_operations and start_operations *)

PickUp(r) ==
  /\ Boundary(r, "queued", "admitted")
  /\ UNCHANGED <<status, log, starter, leg, canceller, target, orphans, restarts>>

Discover(r) ==
  /\ Step(r, "admitted", "preparing")
  /\ SetStatus(r, "DISCOVERING")
  /\ UNCHANGED <<log, starter, leg, canceller, target, orphans, restarts>>

\* The event is live or goes live; something else raises; or going live fails
\* and the run is failed on the spot.
Prepare(r) ==
  /\ \/ \E to \in {"boundary", "failing"} : Step(r, "preparing", to) /\ UNCHANGED status
     \/ Step(r, "preparing", "abandoning") /\ SetStatus(r, "FAILED")
  /\ UNCHANGED <<log, starter, leg, canceller, target, orphans, restarts>>

\* That failure is recorded and raised to run_background_operations.
GiveUp(r) ==
  /\ Step(r, "abandoning", "failing")
  /\ RecordEvent(r, "run_failed")
  /\ UNCHANGED <<status, starter, leg, canceller, target, orphans, restarts>>

\* The check before each category and the one after the last.
CheckCancelled(r) ==
  /\ Boundary(r, "boundary", IF leg[r] < Categories THEN "sourcing" ELSE "wrapping")
  /\ UNCHANGED <<status, log, starter, leg, canceller, target, orphans, restarts>>

FinishLeg(r) ==
  /\ Step(r, "sourcing", "boundary")
  /\ leg' = [leg EXCEPT ![r] = @ + 1]
  /\ UNCHANGED <<status, log, starter, canceller, target, orphans, restarts>>

\* Discovery raises.
FailLeg(r) ==
  /\ Step(r, "sourcing", "failing")
  /\ UNCHANGED <<status, log, starter, leg, canceller, target, orphans, restarts>>

AwaitSelection(r) ==
  /\ Step(r, "wrapping", "selecting")
  /\ SetStatus(r, "WAITING_FOR_USER_SELECTION")
  /\ UNCHANGED <<log, starter, leg, canceller, target, orphans, restarts>>

RecordSelection(r) ==
  /\ Step(r, "selecting", "done")
  /\ RecordEvent(r, "selection_required")
  /\ UNCHANGED <<status, starter, leg, canceller, target, orphans, restarts>>

\* _finalize_run closes a run once; a closed one it leaves alone.
Finalize(r, from, to, fate) ==
  /\ \/ /\ status[r] \in Terminal
        /\ Step(r, from, "done")
        /\ UNCHANGED status
     \/ /\ status[r] \notin Terminal
        /\ Step(r, from, to)
        /\ SetStatus(r, fate)
  /\ UNCHANGED <<log, starter, leg, canceller, target, orphans, restarts>>

RecordEnd(r, from, fate) ==
  /\ Step(r, from, "done")
  /\ RecordEvent(r, EndEvent(fate))
  /\ UNCHANGED <<status, starter, leg, canceller, target, orphans, restarts>>

-----------------------------------------------------------------------------
(* POST cancel *)

\* One conditional UPDATE.  A run that is not executing is refused (409), one
\* that is already being cancelled is returned as it is.
RequestCancel(c, r) ==
  /\ Serving /\ canceller[c] = "new" /\ status[r] # "ABSENT"
  /\ \/ /\ status[r] \in {"RUNNING", "DISCOVERING"}
        /\ SetStatus(r, "CANCELLING")
        /\ canceller' = [canceller EXCEPT ![c] = "requested"]
        /\ target' = [target EXCEPT ![c] = r]
     \/ /\ status[r] \notin {"RUNNING", "DISCOVERING"}
        /\ canceller' = [canceller EXCEPT ![c] = "done"]
        /\ UNCHANGED <<status, target>>
  /\ UNCHANGED <<log, starter, worker, leg, orphans, restarts>>

RecordRequest(c) ==
  /\ canceller[c] = "requested"
  /\ RecordEvent(target[c], "cancel_requested")
  /\ canceller' = [canceller EXCEPT ![c] = "done"]
  /\ target' = [target EXCEPT ![c] = NoRun]
  /\ UNCHANGED <<status, starter, worker, leg, orphans, restarts>>

-----------------------------------------------------------------------------
(* Restart *)

\* The process dies and starts again, also while it is starting.  Handlers and
\* workers are gone; what is left executing is listed once.
Restart ==
  /\ restarts < MaxRestarts
  /\ restarts' = restarts + 1
  /\ starter' = [r \in Runs |-> IF starter[r] = "new" THEN "new" ELSE "done"]
  /\ worker' = [r \in Runs |-> "none"]
  /\ leg' = [r \in Runs |-> 0]
  /\ canceller' = [c \in Cancels |-> IF canceller[c] = "new" THEN "new" ELSE "done"]
  /\ target' = [c \in Cancels |-> NoRun]
  /\ orphans' = [r \in Runs |-> IF status[r] \in Active THEN "found" ELSE "no"]
  /\ UNCHANGED <<status, log>>

\* fail_orphaned_runs, one run after the other.
CloseOrphan(r) ==
  /\ orphans[r] = "found"
  /\ \A q \in Runs : orphans[q] # "closed"
  /\ orphans' = [orphans EXCEPT ![r] = "closed"]
  /\ SetStatus(r, IF status[r] = "CANCELLING" THEN "CANCELLED" ELSE "FAILED")
  /\ UNCHANGED <<log, starter, worker, leg, canceller, target, restarts>>

RecordOrphan(r) ==
  /\ orphans[r] = "closed"
  /\ orphans' = [orphans EXCEPT ![r] = "no"]
  /\ RecordEvent(r, EndEvent(status[r]))
  /\ UNCHANGED <<status, starter, worker, leg, canceller, target, restarts>>

-----------------------------------------------------------------------------
Start(r) == CheckActive(r) \/ InsertRun(r) \/ HandOver(r)

Work(r) ==
  \/ PickUp(r) \/ Discover(r) \/ Prepare(r) \/ GiveUp(r)
  \/ CheckCancelled(r) \/ FinishLeg(r) \/ FailLeg(r)
  \/ AwaitSelection(r) \/ RecordSelection(r)
  \/ Finalize(r, "stopping", "stopped", "CANCELLED")
  \/ Finalize(r, "failing", "failed", "FAILED")
  \/ RecordEnd(r, "stopped", "CANCELLED")
  \/ RecordEnd(r, "failed", "FAILED")

Reconcile(r) == CloseOrphan(r) \/ RecordOrphan(r)

\* Every request is answered, or waits for a run it could name.
Quiet ==
  /\ Serving
  /\ \A r \in Runs : starter[r] = "done" /\ worker[r] \in {"none", "done"}
  /\ \A c \in Cancels : canceller[c] # "requested"
  /\ UNCHANGED vars

Next ==
  \/ \E r \in Runs : Start(r) \/ Work(r) \/ Reconcile(r)
  \/ \E c \in Cancels : RecordRequest(c) \/ \E r \in Runs : RequestCancel(c, r)
  \/ Restart
  \/ Quiet

\* A thread that has begun goes on; nothing makes a request arrive or the
\* process die.
Fairness ==
  \A r \in Runs :
    /\ WF_vars(InsertRun(r) \/ HandOver(r))
    /\ WF_vars(Work(r))
    /\ WF_vars(Reconcile(r))

Spec == Init /\ [][Next]_vars /\ Fairness

-----------------------------------------------------------------------------
(* Properties *)

Owned(r) ==
  status[r] \in Active =>
    \/ starter[r] = "inserted"
    \/ worker[r] \in {"queued", "admitted", "preparing", "boundary", "sourcing",
                      "wrapping", "stopping", "failing"}
    \/ orphans[r] = "found"

\* A run that reads as executing is executed: somebody alive will move it on.
\* An unowned one would refuse every later start ("ALREADY_RUNNING") for ever.
ActiveRunOwned == \A r \in Runs : Owned(r)

\* A run that has failed or was cancelled never comes back, although the worker
\* writes the status without reading it.
TerminalStays ==
  [][\A r \in Runs : status[r] \in Terminal => status'[r] = status[r]]_vars

EndsOnce(r) == \A i, j \in DOMAIN log[r] :
  log[r][i] \in TerminalEvents /\ log[r][j] \in TerminalEvents => i = j

\* However a run ends - cancelled, failed by discovery, failed before it was live
\* and raised again, orphaned by a crash - its end is told at most once.
EndRecordedOnce == \A r \in Runs : EndsOnce(r)

Told(r, e) == \E i \in DOMAIN log[r] : log[r][i] = e

TellsCommitted(r) ==
  /\ Told(r, "run_cancelled") => status[r] = "CANCELLED"
  /\ Told(r, "run_failed") => status[r] = "FAILED"
  /\ Told(r, "selection_required") => status[r] = "WAITING_FOR_USER_SELECTION"

\* "Callers must record events only ... after committing the domain state the
\* event describes": the recorded end is the status of the row.
EventsTellCommitted == \A r \in Runs : TellsCommitted(r)

\* Who may still write the row or the log of a run, by the point its handlers
\* have reached: the strengthening under which the three invariants above are
\* inductive.
RunOK(r) ==
  /\ starter[r] \in {"new", "checked"} =>
       status[r] = "ABSENT" /\ log[r] = <<>> /\ worker[r] = "none"
  /\ starter[r] = "inserted" =>
       status[r] \in {"RUNNING", "CANCELLING"} /\ worker[r] = "none" /\ orphans[r] = "no"
  /\ worker[r] \in {"queued", "admitted", "preparing", "boundary", "sourcing",
                    "wrapping", "stopping"} => status[r] \in Active
  /\ worker[r] = "sourcing" => leg[r] < Categories
  /\ worker[r] = "failing" => status[r] \in Active \cup {"FAILED"}
  /\ worker[r] \in {"abandoning", "failed"} => status[r] = "FAILED"
  /\ worker[r] = "stopped" => status[r] = "CANCELLED"
  /\ worker[r] = "selecting" => status[r] = "WAITING_FOR_USER_SELECTION"
  /\ worker[r] \in {"abandoning", "failed", "stopped", "selecting"} =>
       ~\E e \in TerminalEvents : Told(r, e)
  /\ orphans[r] # "no" => worker[r] = "none"
  /\ orphans[r] = "found" => status[r] \in Active
  /\ orphans[r] = "closed" =>
       status[r] \in Terminal /\ ~\E e \in TerminalEvents : Told(r, e)

RunInvariant ==
  /\ \A r \in Runs : RunOK(r)
  /\ \A c \in Cancels : canceller[c] = "requested" =>
       target[c] \in Runs /\ status[target[c]] # "ABSENT"
  /\ ActiveRunOwned
  /\ EndRecordedOnce
  /\ EventsTellCommitted

\* Every run comes to rest: it waits for the organizer, has failed or was
\* cancelled, whatever is cancelled or restarted meanwhile.
RunsComeToRest ==
  \A r \in Runs : status[r] \in Active ~> status[r] \notin Active

\* A request to cancel that finds the worker before its first check or among its
\* categories is obeyed: no leg outlives the one that is running.
CancelReaches ==
  \A r \in Runs :
    (status[r] = "CANCELLING" /\ worker[r] \in {"queued", "boundary", "sourcing"})
      ~> status[r] \in Terminal

\* "The worker stops at its next execution boundary and records
\* `agent.run_cancelled`" (the cancel endpoint): a request that was accepted is
\* not lost.  A failure meanwhile may end the run as well.
CancelHonoured ==
  [][\A r \in Runs : status[r] = "CANCELLING" =>
       status'[r] \in {"CANCELLING", "CANCELLED", "FAILED"}]_vars

\* "Event types after which nothing further is emitted for a run" (the stream
\* endpoint, which closes on them).
NothingAfterTheEnd ==
  \A r \in Runs : \A i \in DOMAIN log[r] :
    log[r][i] \in TerminalEvents => i = Len(log[r])
=============================================================================
