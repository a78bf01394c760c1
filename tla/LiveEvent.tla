----------------------------- MODULE LiveEvent -----------------------------
(***************************************************************************)
(* One event from its plan to its conclusion: LiveStateService moves tasks *)
(* and the life cycle, IncidentService escalates and restores it,          *)
(* bindings, revisions and new plans change it and its tasks, and the      *)
(* cancellation of a provider and its approved recovery run across them.   *)
(*                                                                         *)
(* A transaction reads and decides, and later commits the columns it has   *)
(* changed; nothing it read is locked.  A handler in a slot is between the *)
(* two.  "raced" is set when one commits on what another has changed since *)
(* its read.  The risk of an incident is an input; timestamps, deviations  *)
(* and the transition records are left out.                                *)
(***************************************************************************)
EXTENDS Integers, FiniteSets

CONSTANTS
  Tasks,
  Deps,        \* FINISH_TO_START edges
  Caterer,     \* the task whose provider may cancel
  Incidents,   \* incidents that may be reported
  Risks,       \* event states the risk engine may ask for
  Slots,       \* handlers that may run at the same time
  MaxRequests  \* bound: requests that are served

ASSUME PlanAssumption == Deps \subseteq Tasks \X Tasks /\ Caterer \in Tasks
ASSUME RisksAssumption == Risks \subseteq {"NORMAL", "AT_RISK", "CRITICAL", "EMERGENCY"}
ASSUME BoundsAssumption == MaxRequests \in Nat

VARIABLES
  task,      \* status of each task
  event,     \* lifecycle_state and state (the risk) of the event
  incident,  \* the incidents, each with its status and the risk it was given
  slot,      \* the handler in each slot
  offered,   \* an approved recovery of the caterer's task may be asked for
  requests,
  raced,     \* history: a handler committed on what another had changed
  forced,    \* history: a recovery made an event LIVE that was not under way
  reassessed \* history: a resolved incident or a verification set the risk

vars == <<task, event, incident, slot, offered, requests, raced, forced, reassessed>>

TaskStatuses == {"PENDING", "ASSIGNED", "READY", "IN_PROGRESS", "BLOCKED",
                 "COMPLETED", "FAILED", "CANCELLED"}
Lifecycles == {"DRAFT", "PLANNED", "LIVE", "INCIDENT", "EMERGENCY", "CONCLUDED"}
States == {"NORMAL", "AT_RISK", "CRITICAL", "EMERGENCY"}

Idle == [pc |-> "idle"]
Unreported == [status |-> "ABSENT", risk |-> "NORMAL"]

\* The types of tasks, event and incidents and of what transactions will commit.
TypeOK ==
  /\ task \in [Tasks -> TaskStatuses]
  /\ event \in [lifecycle : Lifecycles, state : States]
  /\ incident \in [Incidents -> [status : {"ABSENT", "OPEN", "RESOLVED"}, risk : States]]
  /\ \A s \in Slots : slot[s].pc \in {"idle", "commit", "report", "verify", "restore", "replan"}
  /\ {offered, raced, forced, reassessed} \subseteq BOOLEAN
  /\ requests \in 0 .. MaxRequests

\* A plan was generated and its schedule is set.
Init ==
  /\ task = [t \in Tasks |-> "PENDING"]
  /\ event = [lifecycle |-> "PLANNED", state |-> "NORMAL"]
  /\ incident = [i \in Incidents |-> Unreported]
  /\ slot = [s \in Slots |-> Idle]
  /\ offered = FALSE /\ requests = 0
  /\ raced = FALSE /\ forced = FALSE /\ reassessed = FALSE

-----------------------------------------------------------------------------
(* Transactions *)

Request(s) ==
  /\ slot[s].pc = "idle"
  /\ requests < MaxRequests
  /\ requests' = requests + 1

Nothing == [task |-> <<>>, event |-> <<>>, incident |-> <<>>]

Changes(new, old) == [x \in {y \in DOMAIN old : new[y] # old[y]} |-> new[x]]

\* What is written replaces what is there, and the rest stays.
Written(writes, old) ==
  [x \in DOMAIN old |-> IF x \in DOMAIN writes THEN writes[x] ELSE old[x]]

\* The transaction has read, and holds what it will write; next is what its
\* handler does afterwards.
Decide(s, writes, next) ==
  slot' = [slot EXCEPT ![s] = [pc |-> "commit", overtaken |-> FALSE,
                               writes |-> writes, next |-> next]]

\* Who is between a read and a commit has read what is no longer so.
Overtaken(s) ==
  [o \in Slots |-> IF o # s /\ slot[o].pc = "commit"
                   THEN [slot[o] EXCEPT !.overtaken = TRUE] ELSE slot[o]]

Under(ts) == {s \in ts : task[s] # "COMPLETED"}
Predecessors(t) == {p \in Tasks : <<p, t>> \in Deps}
Successors(t) == {s \in Tasks : <<t, s>> \in Deps}

Active(i) == incident[i].status = "OPEN"
Worst(risks) == CHOOSE r \in risks \cup {"NORMAL"} : \A q \in risks :
  LET rank == [NORMAL |-> 0, AT_RISK |-> 1, CRITICAL |-> 2, EMERGENCY |-> 3]
  IN  rank[q] <= rank[r]

-----------------------------------------------------------------------------
(* Faulty variants of the operations defined below, each with one plausible *)
(* bug.  They are not part of Spec; the property each must break is named.   *)

\* TypeOK: the risk itself becomes the life cycle.
EscalatedLiteral(lifecycle, risk) ==
  IF lifecycle = "LIVE" /\ risk \in {"CRITICAL", "EMERGENCY"} THEN risk ELSE lifecycle

\* OnlyRevisionReopens: the event need not be live to be escalated.
EscalatedAlways(lifecycle, risk) ==
  CASE risk = "CRITICAL"  -> "INCIDENT"
    [] risk = "EMERGENCY" -> "EMERGENCY"
    [] OTHER              -> lifecycle

\* NoneStranded: the query for predecessors misses the task being completed.
CascadeUnflushed(t) == {s \in Successors(t) : task[s] = "PENDING" /\ Under(Predecessors(s)) = {}}

\* EscalationHasCause: the query for active incidents finds the resolved one.
RemainingUnflushed(i) == {j \in Incidents : Active(j)}

-----------------------------------------------------------------------------
(* LiveStateService *)

GoLive(s) ==
  /\ Request(s)
  /\ event.lifecycle = "PLANNED"
  /\ \A t \in Tasks : task[t] \notin {"FAILED", "CANCELLED"}
  /\ Decide(s, [Nothing EXCEPT
       !.event = [lifecycle |-> "LIVE"],
       !.task = [t \in {u \in Tasks : task[u] = "PENDING" /\ Under(Predecessors(u)) = {}} |-> "READY"]],
       "idle")
  /\ UNCHANGED <<task, event, incident, offered, raced, forced, reassessed>>

\* The table of update_task_status, which has no row for ASSIGNED.
Allowed(status) ==
  CASE status = "PENDING"     -> {"READY", "CANCELLED"}
    [] status = "READY"       -> {"IN_PROGRESS", "CANCELLED"}
    [] status = "IN_PROGRESS" -> {"COMPLETED", "BLOCKED", "FAILED"}
    [] status = "BLOCKED"     -> {"READY", "IN_PROGRESS", "CANCELLED"}
    [] status = "FAILED"      -> {"READY"}
    [] OTHER                  -> {}

\* The successors that a completion makes READY.
Cascade(t) == {s \in Successors(t) : task[s] = "PENDING" /\ Under(Predecessors(s)) \subseteq {t}}

UpdateTask(s, t, status) ==
  /\ Request(s)
  /\ event.lifecycle = "LIVE"
  /\ status \in Allowed(task[t])
  /\ Decide(s, [Nothing EXCEPT
       !.task = [u \in {t} \cup (IF status = "COMPLETED" THEN Cascade(t) ELSE {})
                   |-> IF u = t THEN status ELSE "READY"]],
       "idle")
  /\ UNCHANGED <<task, event, incident, offered, raced, forced, reassessed>>

Conclude(s) ==
  /\ Request(s)
  /\ event.lifecycle = "LIVE"
  /\ \A t \in Tasks : task[t] \notin {"IN_PROGRESS", "BLOCKED"}
  /\ Decide(s, [Nothing EXCEPT !.event = [lifecycle |-> "CONCLUDED"]], "idle")
  /\ UNCHANGED <<task, event, incident, offered, raced, forced, reassessed>>

-----------------------------------------------------------------------------
(* IncidentService *)

\* Only a LIVE event is escalated: one in INCIDENT does not reach EMERGENCY.
Escalated(lifecycle, risk) ==
  CASE lifecycle = "LIVE" /\ risk = "CRITICAL"  -> "INCIDENT"
    [] lifecycle = "LIVE" /\ risk = "EMERGENCY" -> "EMERGENCY"
    [] OTHER                                    -> lifecycle

\* The risk of the incident at hand becomes that of the event, also when
\* another incident has a higher one.
Evaluated(i, status, risk) ==
  [Nothing EXCEPT
     !.incident = [j \in {i} |-> [status |-> status, risk |-> risk]],
     !.event = Changes([lifecycle |-> Escalated(event.lifecycle, risk), state |-> risk], event)]

Report(s) ==
  /\ Request(s)
  /\ \E i \in Incidents, risk \in Risks :
       /\ incident[i] = Unreported
       /\ Decide(s, Evaluated(i, "OPEN", risk), "idle")
  /\ UNCHANGED <<task, event, incident, offered, raced, forced, reassessed>>

\* A resolved incident is evaluated like any other.
Recalculate(s, i) ==
  /\ Request(s)
  /\ incident[i].status # "ABSENT"
  /\ \E risk \in Risks : Decide(s, Evaluated(i, incident[i].status, risk), "idle")
  /\ reassessed' = (reassessed \/ ~Active(i))
  /\ UNCHANGED <<task, event, incident, offered, raced, forced>>

Remaining(i) == {j \in Incidents \ {i} : Active(j)}

Resolved(i) ==
  LET clear == Remaining(i) = {} IN
  [Nothing EXCEPT
     !.incident = [j \in {i} |-> [incident[i] EXCEPT !.status = "RESOLVED"]],
     !.event = Changes([lifecycle |-> IF clear /\ event.lifecycle \in {"INCIDENT", "EMERGENCY"}
                                      THEN "LIVE" ELSE event.lifecycle,
                        state |-> Worst({incident[j].risk : j \in Remaining(i)})], event)]

Resolve(s, i) ==
  /\ Request(s)
  /\ Active(i)
  /\ Decide(s, Resolved(i), "idle")
  /\ UNCHANGED <<task, event, incident, offered, raced, forced, reassessed>>

-----------------------------------------------------------------------------
(* Bindings, cancellation and recovery *)

\* A binding assigns the task whatever its status is.
Bind(s, t) ==
  /\ Request(s)
  /\ Decide(s, [Nothing EXCEPT !.task = Changes([task EXCEPT ![t] = "ASSIGNED"], task)], "idle")
  /\ UNCHANGED <<task, event, incident, offered, raced, forced, reassessed>>

\* simulate_caterer_cancellation blocks the task in a transaction of its own,
\* whatever the state of the event, reports the incident in the next, and then
\* asks for the approval of a replacement.
CancelCaterer(s) ==
  /\ Request(s)
  /\ Decide(s, [Nothing EXCEPT !.task = Changes([task EXCEPT ![Caterer] = "BLOCKED"], task)], "report")
  /\ UNCHANGED <<task, event, incident, offered, raced, forced, reassessed>>

ReportCancellation(s) ==
  /\ slot[s].pc = "report"
  /\ \E i \in Incidents, risk \in Risks :
       /\ incident[i] = Unreported
       /\ Decide(s, Evaluated(i, "OPEN", risk), "idle")
  /\ offered' = TRUE
  /\ UNCHANGED <<task, event, incident, requests, raced, forced, reassessed>>

\* approve_and_execute_recovery: the approved action assigns the task.
Recover(s) ==
  /\ Request(s)
  /\ offered
  /\ offered' = FALSE
  /\ Decide(s, [Nothing EXCEPT !.task = Changes([task EXCEPT ![Caterer] = "ASSIGNED"], task)], "verify")
  /\ UNCHANGED <<task, event, incident, raced, forced, reassessed>>

\* verify_action: verified, it resolves the incident; or it sets what state it
\* thinks the event is in.
Verify(s) ==
  /\ slot[s].pc = "verify"
  /\ \/ /\ \E i \in Incidents : Active(i) /\ Decide(s, Resolved(i), "restore")
        /\ UNCHANGED reassessed
     \/ /\ \E state \in Risks :
             Decide(s, [Nothing EXCEPT !.event = Changes([event EXCEPT !.state = state], event)],
                    "restore")
        /\ reassessed' = TRUE
  /\ UNCHANGED <<task, event, incident, offered, requests, raced, forced>>

\* Whatever was verified, the event is LIVE and NORMAL and its work goes on.
Restore(s) ==
  /\ slot[s].pc = "restore"
  /\ Decide(s, [Nothing EXCEPT
       !.event = Changes([lifecycle |-> "LIVE", state |-> "NORMAL"], event),
       !.task = Changes([t \in Tasks |-> IF t = Caterer \/ task[t] = "BLOCKED"
                                         THEN "IN_PROGRESS" ELSE task[t]], task)],
       "idle")
  /\ forced' = (forced \/ event.lifecycle \in {"DRAFT", "PLANNED", "CONCLUDED"})
  /\ UNCHANGED <<task, event, incident, offered, requests, raced, reassessed>>

-----------------------------------------------------------------------------
(* Revisions and new plans *)

\* process_intake of an event that exists and modify_plan: whatever the life
\* cycle was, CONCLUDED too, it is a DRAFT before the plan is generated.
Revise(s) ==
  /\ Request(s)
  /\ Decide(s, [Nothing EXCEPT !.event = Changes([event EXCEPT !.lifecycle = "DRAFT"], event)],
            "replan")
  /\ UNCHANGED <<task, event, incident, offered, raced, forced, reassessed>>

\* generate_plan, also for a LIVE event, but none that is concluded or escalated.
Generate ==
  /\ event.lifecycle \in {"DRAFT", "PLANNED", "LIVE"}
  /\ task' = [t \in Tasks |-> "PENDING"]
  /\ event' = [event EXCEPT !.lifecycle = "PLANNED"]

\* A handler that would update one of the deleted tasks fails.
TasksGone ==
  [s \in Slots |-> CASE slot[s].pc # "commit"           -> slot[s]
                     [] DOMAIN slot[s].writes.task # {} -> Idle
                     [] OTHER                           -> [slot[s] EXCEPT !.overtaken = TRUE]]

Replan ==
  /\ requests < MaxRequests
  /\ requests' = requests + 1
  /\ Generate
  /\ slot' = TasksGone
  /\ UNCHANGED <<incident, offered, raced, forced, reassessed>>

\* A revision whose plan cannot be generated has left the event a DRAFT.
Regenerate(s) ==
  /\ slot[s].pc = "replan"
  /\ \/ Generate /\ slot' = [TasksGone EXCEPT ![s] = Idle]
     \/ slot' = [slot EXCEPT ![s] = Idle] /\ UNCHANGED <<task, event>>
  /\ UNCHANGED <<incident, offered, requests, raced, forced, reassessed>>

-----------------------------------------------------------------------------
Commit(s) ==
  LET h == slot[s] IN
  /\ h.pc = "commit"
  /\ task' = Written(h.writes.task, task)
  /\ event' = Written(h.writes.event, event)
  /\ incident' = Written(h.writes.incident, incident)
  /\ raced' = (raced \/ h.overtaken)
  /\ slot' = [Overtaken(s) EXCEPT ![s] = [pc |-> h.next]]
  /\ UNCHANGED <<offered, requests, forced, reassessed>>

Handle(s) ==
  \/ GoLive(s) \/ Conclude(s)
  \/ \E t \in Tasks, status \in TaskStatuses : UpdateTask(s, t, status)
  \/ Report(s)
  \/ \E i \in Incidents : Recalculate(s, i) \/ Resolve(s, i)
  \/ \E t \in Tasks : Bind(s, t)
  \/ CancelCaterer(s) \/ ReportCancellation(s)
  \/ Recover(s) \/ Verify(s) \/ Restore(s)
  \/ Revise(s) \/ Regenerate(s)
  \/ Commit(s)

Next == Replan \/ \E s \in Slots : Handle(s)

Spec == Init /\ [][Next]_vars

-----------------------------------------------------------------------------
\* The work moves on by itself: in a live event no task waits whose
\* predecessors are all completed.  Two completions at once, each before the
\* other's commit, strand their common successor; so may a recovery that makes
\* an event live which nobody took live.
NoneStranded ==
  event.lifecycle = "LIVE" /\ ~raced /\ ~forced =>
    \A t \in Tasks : task[t] = "PENDING" => Under(Predecessors(t)) # {}

\* An event is escalated, and its risk other than NORMAL, only while an
\* incident is open, unless a resolved one or a verification said otherwise.
EscalationHasCause ==
  raced \/ reassessed \/ (\E i \in Incidents : Active(i))
    \/ (event.lifecycle \notin {"INCIDENT", "EMERGENCY"} /\ event.state = "NORMAL")

\* A concluded event is reopened by a revision only, as a draft, and no work
\* starts in it: incidents, bindings, cancellations and new plans may still be
\* asked for, and only a handler that overlaps the conclusion or a recovery
\* undoes it otherwise.
OnlyRevisionReopens ==
  [][event.lifecycle = "CONCLUDED" /\ ~raced' /\ ~forced' =>
       /\ \/ event'.lifecycle = "CONCLUDED"
          \/ /\ event'.lifecycle = "DRAFT"
             /\ \E s \in Slots : slot[s].pc = "commit" /\ slot'[s].pc = "replan"
       /\ \A t \in Tasks : task'[t] = "IN_PROGRESS" => task[t] = "IN_PROGRESS"]_vars
=============================================================================
