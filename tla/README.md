# Formal models of EVENTRA

EVENTRA plans and runs live events: a FastAPI backend (`src/apps/api/app`), a
Next.js client (`src/apps/web`), and agents that discover providers, negotiate
and change the plan under the approval of a human organizer. This directory
holds TLA+ models of the parts whose correctness depends on the order in which
things happen, the TLC configurations that check them on small instances, and
TLAPS proofs about them. Every definition is translated from the source;
`PROJECT.json` names the lines behind each of them.

State machines, checked by TLC over their interleavings:

| module | models |
| --- | --- |
| `Approval` | the approval gate: requests, decisions, execution, pause |
| `ApprovalDecision` | what the gate promises for one request, abstractly |
| `RunStream` | the event log of an agent run, its broker, streams and clients |
| `AgentRun` | start, worker, cancellation and orphan reconciliation of runs |
| `Engagement` | the negotiation with one provider, its take-over and its approval, and who else commits the provider |
| `Outreach`, `Idempotency` | the approved contact with a candidate, and the keys that make repetitions harmless |
| `PlanBinding` | edits of one plan: bindings, reassignments, schedules and their adjustment, new plans |
| `LiveEvent` | one event from plan to conclusion: tasks, incidents, recovery, revisions |

Functions and transition functions, checked over bounded inputs:

| module | models |
| --- | --- |
| `TaskGraph` | topological order, critical path, slack, schedule, delay, propagation |
| `BudgetRules` | planner, calculator, validator and deviations of the budget |
| `ActionPolicy` | classification of actions, approval policy, permissions, `authorize_action` |
| `IncidentImpact`, `Recovery` | impact, severity and risk; the recovery options |
| `Verification` | the seven verifiers and their synthesis |
| `OutcomeValidation` | what a vendor claims, against what is known; whether it may be bound |
| `ExecutionPlan` | the compilation of the final plan: conflicts, readiness, commitments |
| `Discovery`, `Sourcing` | the search for providers and what a run files of it |
| `VendorDirectory` | search, calendars, qualification, ranking of vendors and venues |
| `AgentGraph` | the nodes and routes of the agent, for every choice of its model |
| `AgentTools` | the tools of the agent, their two registries and gates |
| `VoiceRecovery` | calls that replace a vendor, from the parser to the binding |
| `Escalation` | notification of approvers and the sweeper |
| `EventDomains`, `Intake` | the baselines of the domains; the conversation an event begins with |

`ApprovalProofs`, `RunStreamProofs`, `AgentRunProofs`, `EngagementProofs`,
`OutreachProofs`, `LiveEventProofs`, `TaskGraphProofs` and `PlanBindingProofs` hold
the theorems, the modules `MC...` the instances for TLC.

## 1. The system

### Components

**Approval gate** (`approval_service.py`, `action_service.py`,
`engines/auth/*`, `authorization_service.py`). State: the tables `approvals`
and `action_executions`, and a hash over the event and its plan kept with each
request. Operations: file, approve (compare the hash, execute, mark), reject,
cancel, expire, and the direct execution of low-impact actions under a client's
action id. Correct when: a request reads APPROVED only if it was executed;
nobody decides on their own request; what runs is what was reviewed; nothing
mutating runs twice.

**Pause and resume** (`pause_resume_service.py`). State: the execution state of
the event. Correct when: nothing consequential executes while paused.

**Run event log and stream** (`agent_run_events.py`, `live_broker.py`, the SSE
endpoint in `api/routes/agent.py`, `agentRunStore.ts`). State: rows numbered
for each run, one bounded queue for each subscriber, a cursor in each browser.
Correct when: numbers are contiguous, a browser sees every event once and in
order, streams end with their run.

**Operations run** (`autonomous_operations_service.py`, `intake.py`, the cancel
endpoint, `fail_orphaned_runs`). State: the status of each run and its worker,
a background task of the API process. Correct when: a run that reads as
executing is executed by somebody, a cancellation is obeyed, an end is told
once and is final, and no crash leaves a run executing for ever.

**Sweeper and notifications** (`approval_escalation_service.py`,
`approval_notification_dispatcher.py`). A loop on the event loop that expires,
reminds and escalates pending requests, with flags in the request itself.
Correct when: each message is sent once, to somebody who may decide, and a
request is not expired under a decision.

**Negotiation and engagement** (`negotiation_service.py`,
`voice_negotiation_service.py`; the same row is written by
`vendor_task_binding_service.py`, `action_service.py` and
`voice_outcome_parser.py`). State: an assignment with a status and a negotiation
status, who controls it (agent or human), amounts with a ceiling, and a linked
request. Correct when: the agent is silent under human control, no offer passes
the ceiling, nothing commits a provider without an approval or somebody who may
bind, and what is confirmed is what was approved.

**Recovery calls** (`voice_recovery_service.py`,
`integrations/communication/voice_outcome_parser.py`). State: calls in progress
(a dictionary of the process), sessions with what was heard. Correct when: a
refusal binds nobody, a binding is authorised, a call is judged once.

**Approved communication and idempotency** (`provider_communication_service.py`,
`core/idempotency.py`, `integrations/whatsapp/webhook.py`). State: the candidate
of a shortlist entry, keys that are PROCESSING, COMPLETED or FAILED. Correct
when: nobody is contacted twice under an approval, a repeated message is
answered and not executed again, and what is recorded was done.

**Plan and binding** (`vendor_task_binding_service.py`,
`vendor_outcome_validation_service.py`, `final_execution_plan_service.py`,
`planning_service.py`, `engines/dependency`, `engines/schedule`,
`engines/budget`). State: tasks, dependencies, assignments, budget items.
Correct when: a bound task has a confirmed assignment, bindings respect the
budget, slack is time a task can really lose, and a plan that is called ready
can be carried out.

**Live event** (`live_state_service.py`, `incident_service.py`,
`recovery_service.py`, `verification_service.py`, `engines/impact`, `risk`,
`recovery`, `verification`, `state`). State: status of tasks and incidents, life
cycle and risk of the event. Correct when: no task is forgotten, an escalation
has a cause, a conclusion is undone by a revision only, an option called feasible can be executed
and verified.

**Agent** (`agent/graph.py`, `agent/agent.py`, `agent/tools`). State: that of one
run, and two tool registries. Correct when: whatever its model decides, nothing
guarded is executed without its approval, every execution is verified, and
waiting is not reported as success.

**Discovery and directory** (`agentic_discovery_controller.py` and the services
it drives, `vendor_service.py`, `venue_service.py`). State: vendors, venues,
calendars, searches. Correct when: a search ends, files nobody twice and makes
nobody up, and what it proposes was not rejected.

**Intake** (`intake_service.py`, `specification_service.py`, `domains`,
`engines/planning`). State: the draft of an event. Correct when: what the
organizer said stays, what was not said is asked before it is assumed.

**Browser companion and agent, telephony gateways, language model provider,
user interface, packaging**: see "Not modelled".

### How they interact

Each request runs in a thread of its own with a database session of its own
(`api/dependencies.py`, `db/session.py`): autoflush is off, isolation is that
of the database (READ COMMITTED on PostgreSQL), and handlers do not lock rows.
Services call each other within the session of the request; several of them
commit in the middle of a handler (`execute_action` inside `approve`; `record`
after every change of a run). Workers of runs are `BackgroundTasks` of the same
process with a session of their own. Threads hand messages to the event loop
with `run_coroutine_threadsafe`; streams read queues on that loop. A restart
loses handlers, workers, queues and streams, and keeps the database.

### Where it is hard

- reads and commits of two handlers interleave: approve against approve, reject
  or edit; worker against cancel endpoint; start against start;
- a handler commits more than once, and the process may die in between;
- a status is read, then written without a condition;
- rows are numbered in one order and published in another;
- queues and replays have limits;
- a client reconnects with a cursor while the log grows.

`hazards` in `PROJECT.json` lists these at their lines, with the properties
that watch over each one, or the reason why none does. Where the code does go
wrong when two handlers overlap, a property states what holds without the
overlap (`raced`, or one handler at a time) and does not watch over that hazard;
the disagreements of section 4 tell of it.

## 2. The plan

The order was: the gate, since everything that changes a plan goes through it
(`Approval`); the run and its events (`RunStream`, `AgentRun`); the negotiation
and the contact with providers (`Engagement`, `Outreach`); the plan and the live
event (`PlanBinding`, `LiveEvent`); then the engines and services whose results
those take as inputs, as functions.

How the modules compose. `LiveEvent` takes the risk of an incident and the
conclusion of a verification as inputs; `IncidentImpact` and `Verification`
compute them. `Approval` takes who may act directly as given; `ActionPolicy`
computes it, and `ApprovalFollowsPolicy` compares the two. `PlanBinding` extends
`TaskGraph`; `Outreach` uses `Idempotency`; `Sourcing` and `VendorDirectory`
extend `Discovery`; `VoiceRecovery` extends `OutcomeValidation`; `AgentTools` and
`Escalation` extend `ActionPolicy`; `EventDomains` extends `TaskGraph`.

The proofs came in the same order. Every safety invariant and every action
property that a passing run checks is now a theorem as well, and so are the
refinement of `ApprovalDecision` and the facts about `TaskGraph` on which
`SlackIsSafe` rests (section 5). What the plan has left:

1. `TaskGraph`: that the accepted order puts every task after those it depends
   on, that a computed start is the longest path to a task
   (`StartIsLongestPath`), and that every graph without a cycle is accepted, the
   converse of `AcyclicRanked`.
2. `BudgetRules`: that a plan adds up (`PlanAddsUp`) for any number of items, with
   the sums of `PlanBindingProofs`.
3. `Verification`, `ActionPolicy`: `VerifiedIsCalm` and `ClassificationIsMonotone`
   for every context and every amount.
4. `Idempotency`: what repetition of a keyed operation answers, apart from
   `Outreach`.

## 3. What is modelled

### Approval

A session is one HTTP request. Its steps are the reads and commits of the
handler: `LoadForApproval` reads the rows and passes the guards, `Revalidate`
compares the snapshot and commits STALE on a difference, `AdmitApproved` is the
entry of `execute_action`, `CommitExecution` its commit, `MarkApproved` the last
commit of `approve`, an update by primary key that looks at nothing. Rejection
and cancellation have a read and a commit each. A direct action has
`AdmitDirect` and shares `CommitExecution` and `FailExecution`.

- `snapshot` is a pair of version numbers: `ver` for the event row, `plan` for
  all other rows the hash covers. An action either changes the plan or is
  `Neutral`. `compute_event_state_snapshot` in a session sees the event row the
  session has read first, and the other rows afresh, because of SQLAlchemy's
  identity map.
- `PauseEvent`, `ResumeEvent` and `EditPlan` are what other requests commit.
  The snapshot covers all vendors of all events, so `EditPlan` also stands for
  changes elsewhere.
- `Crash` ends all handlers in flight; commits stay.
- Generic identities file in the name of the owner; the anonymous operator is
  exempt from separation of duties. Both are in the code.
- Left out: the branches on `expires_at`, which no constructor sets (`Escalation`
  has expiry); the effect of each action type; COMMUNICATION_OUTREACH, whose
  execution sets the request APPROVED and commits before it sends (`Outreach`).
  RECOVERY actions are unknown to `execute_action`: approving one is
  `FailExecution`.
- An event and the approval it concerns are read in one step, as nothing between
  the two reads depends on them.

### RunStream

A writer is a thread inside `record`: `ReadMax` (highest sequence), `Insert`
(commit of the row) or `Conflict` (unique constraint, another try or giving
up), `Publish` (hands the row to the loop). The worker ends the run (`EndRun`)
before it records the end. `Broadcast` takes one scheduled row to all queues
and drops it where a queue is full. A client connects with its cursor (`Open`
reads the status of the run), subscribes, reads its replay, and is served from
the replay and then from its queue; `Drop` loses the connection and keeps the
cursor. Between `Open` and `ReadReplay` the endpoint does not yield to other
tasks of the loop (an uncontended `asyncio.Lock` does not suspend), which
`OnLoop` expresses; writer threads go on. `Restart` includes the end that
`fail_orphaned_runs` records before requests are served.

Two kinds of event are distinguished: those that close a stream and the rest.
The query of the replay, ordered and limited, is `ReplayAfter`: the one list of
the later rows that is `Ordered`, cut at the limit.
Left out: hydration of the page, which sets the cursor back to 0 and takes the
first 500 events; keepalives; `max_frames`; other messages of the broker, which
share the queues and can only fill them sooner.

### AgentRun

Each start request is named after the run it may insert. Starter: `CheckActive`
(refused while a run is executing), `InsertRun` (after planning and going live,
which may fail), `HandOver` (event and background task). Worker: `PickUp`,
`Discover` (status DISCOVERING, unconditional), `Prepare`, then a check and a
leg for each category, a last check, `AwaitSelection`, `RecordSelection`;
`Finalize` and `RecordEnd` are `_finalize_run`, which leaves a run that is
terminal alone. `RequestCancel` is one conditional UPDATE, `RecordRequest` its
event. `Restart` takes handlers and workers away and lists the runs left
executing; `CloseOrphan` and `RecordOrphan` deal with one after the other, and
the process may die again in between.

`record` is one step here: `RunStream` is its inside. Only events that tell
the life of a run are kept. Two starts may both pass `CheckActive` before
either inserts, and then two workers run. Left out: directive runs,
which end by an unconditional write of their own (`AgentGraph` has their inside);
the path of `_finalize_run` on which the database fails: it rolls back and records
nothing, so that the run stays as it was until the next start-up;
a start-up whose reconciliation raises (logged in `main.py`, the remaining
orphans stay). What a leg discovers and files is `Sourcing`.

### Engagement

The row of `vendor_assignments` for one provider, the approval requests filed
for it, and handlers in reusable slots. A handler reads in its first step and
writes in a later one. What it writes is a patch: SQLAlchemy flushes only the
columns that were changed from what was loaded, so that two overlapping handlers
mix their columns rather than replace each other's row. Operations: engage and
send, the provider's reply (with the round of the agent it may trigger and its
counter-offer, `CounterOffers`, in rupees with the code's rounding), quotes from
the console, take-over and resumption, cancellation and decline, the voice
path's response (`Voice`), `RequestApproval` and `Link`,
`Approve` with `Execute` and `Mark`, `Confirm`. `PlanEdited` is any other edit
that makes pending requests stale.

The row has other writers, none of which looks at the negotiation. `Bind` is a
binding, a reassignment to this provider or an executed REASSIGN_VENDOR, all of
which set `status` CONFIRMED; a recovery call that names who authorised it ends in
`bind_vendor_to_task` too. `Replaced` is a reassignment away from the provider's
last task, `Contract` an executed CONTRACT_VENDOR, which sets
`negotiation_status` APPROVED as well, and `BindHeard` the outcome of a call that
is told to bind and names nobody: it asks for a confirmed assignment or an
approved request (only tests tell it to bind). `create_assignment` records
whatever status its client sends, so the row may begin CONFIRMED. Whom
`_verify_authorization` or the gate lets through is not asked here: that somebody
was is what `Bind` and `Contract` stand for (the handlers at `binding` and
`contracting`), and what it takes is `Approval`, `ActionPolicy` and `AgentTools`.

Left out: message texts, the amount a request names, the timeline and queue of the
console, several engagements at once (handlers touch one row each);
`update_assignment`, which nothing calls; that an approved REASSIGN_VENDOR may give the row to another
provider (`takenOver` in `PlanBinding`). A selection creates the row ASSIGNED,
which nothing here tells from REQUESTED.

### Outreach and Idempotency

`Idempotency` is `check_or_start`, `complete` and `fail` as functions of the
record that was read and the one that the commit meets; the primary key decides
between two insertions. `Outreach` follows one candidate: selection and the
approval it files, the button and the gate (also by WhatsApp, `Register` to
`Complete`, under a key of its own), `execute_approved_communication` with its
call, its message and what it stores, dismissal; `Restart` at any point.

Left out: the resolution of telephone numbers, additions to the shortlist, the
24 hours after which a key expires (EXPIRED is a status a record may have).

### PlanBinding

Tasks with durations, dependencies, computed slack and schedule, providers,
assignment rows, budget items. Requests: edits of a task or a
dependency, recalculation, `Bind` with its validation and budget check and the
recalculation in its commit, `Reassign`, `Execute` (an approved replacement),
`Replan`. `ShiftTask` is `_execute_adjust_schedule` with all it writes: a shift of
either sign, which a slack absorbs or grows by, and a start and an end from the
payload, which nothing compares (`Moments` are the times a payload may name). The engines are those of `TaskGraph`. History variables say what the
code does not prevent, so that the properties can state exactly what it does:
`raced` (a commit on what another changed since the read), `takenOver`,
`unchecked` (an approved action, which checks no budget).

### LiveEvent

Status of tasks, life cycle and risk of the event, incidents. `GoLive`,
`UpdateTask` with the cascade to successors, `Conclude`, `Report`, recalculation
and resolution, `Bind` as far as it touches a task,
the cancellation of a caterer with its approved recovery and verification.
`Revise` is `modify_plan`, or `process_intake` for an event that exists: it makes
the event a DRAFT whatever it was, commits, and then generates a plan
(`Regenerate`) or fails to. `Replan` is `generate_plan` asked for by itself. Both
share `Generate`, whose guard is that of the code, and which deletes the tasks
under the handlers that would write them (`TasksGone`). Each of the others
is a read and a `Commit` of changed columns: `Written` keeps of the tables what a
transaction did not write, as in `PlanBinding`. A generation is one step: what
another commits while it runs is left out. Also left out: CANCELLED and SPECIFIED,
which nothing sets. `raced` as above; `forced` (a
recovery made live an event that was not), `reassessed` (a resolved incident or a
verification set the risk).

### The engines

`TaskGraph`, `BudgetRules`, `IncidentImpact`, `Recovery`, `Verification`,
`ActionPolicy`, `ExecutionPlan` translate pure functions into functions. Times
are minutes, money is in cents, scores and shares are integers scaled as the
module says; where the code rounds, the model rounds the same way. `Sorted` is
the list of a set of tasks in ascending order; Kahn's algorithm is a recursive
function over its rounds, and the passes of the critical path are recursive
functions along the dependencies. Contexts are
records whose fields are what the functions read; each module's head lists
them. What only explains (reasons, serialised details, labels) is left out.

### Providers

`OutcomeValidation`: `parse_outcome`, `validate_claims` and the decision of
`evaluate_feasibility`, with the re-check of the calendar at the moment of the
binding. `Discovery`: one run of the controller as a function of what the
searches return: rounds, radius, budgets, qualification, optional contact,
ranking, and the upsert that files providers. `Sourcing`: categories from words,
the cache, live and fallback sources, the shortlist entries of a run over the
rows there already, selection. `VendorDirectory`: calendars, search,
qualification against hard and soft wishes, comparison, the shortlist, and for
venues tiers, suitability and recommendation. Texts are sets of the words the
code looks for.

### Agent

`AgentGraph`: a state is that of a run with the part of the database that it
leans on; `Node` gives all states a node may lead to, for every decision the
model may take, `Meanwhile` what others may do in between (grant, pause, change
the plan), `TerminalEvent` what is recorded at the end. `AgentTools`: each tool
answers [status, code, done], where `done` is what it has changed in the database,
also when it reports a failure; `Execute` and `Call` are the two registries with
their gates.

### Voice recovery, escalation, intake

`VoiceRecovery`: a speech is the phrases the parser recognises and the amount;
states keep the call in progress, what each session heard, the vendor's
assignment and whether the task is bound. `Escalation`: `Dispatch` and the steps
of a sweep (`Sweeping`), with the row as the session of each replica holds it.
`EventDomains`: the baselines of the three domains, literally, and what
specification, tasks, dependencies and resources are made from them. `Intake`: a
turn is what was understood of a message; `ExtractIntent`, `ProcessIntake`,
`ModifyPlan`, `PreviewVoiceIntake`, `ConfirmVoiceIntake` and the rate limit.

### Not modelled

About a third of the lines of the implementation is mapped. What is left is,
in order of size:

- the web application: rendering and fetching. Its store of run events is part of
  `RunStream`;
- HTTP routes, request and response schemas, database models: each route reads
  its arguments and calls one service operation that is modelled; their checks
  of membership repeat those of the services;
- the language model provider and prompts (`agent/provider.py`), the telephony
  gateways and the audio bridge (`exotel*.py`, `twilio*.py`, `gemini_bridge.py`),
  WhatsApp and e-mail clients, geocoding, the browser agent with its runtime and
  the scrapers: protocols with services outside the repository. What they
  deliver is an input of the models;
- text recognition (`quote_extraction_service.py`, `conversation_service.py`,
  patterns of the intake): what they find is an input;
- the browser companion and the broker of negotiation events
  (`browser_companion_service.py`, `negotiation_broker.py`): small protocols of
  their own that no decision depends on. The broker replays its bounded history
  and then subscribes, so that a frame published in between is lost
  (`negotiation_broker.py:8-9`); a companion that reconnects while its old socket
  is torn down loses the new one;
- audit records, activity logs, analytics and decision traces: written beside
  the modelled changes and read by people;
- packaging, seeds, desktop installer, OpenWA bridge.

## 4. What is checked

| run | instance | shows |
| --- | --- | --- |
| `approval_concurrent` | 4 sessions, 2 at a time, owner, manager, collaborator; a critical mutating and a neutral request, one client action id; one edit, one pause (520,000 states) | what holds under every interleaving and crash |
| `approval_serial` | the same with the anonymous operator, one session at a time (460,000) | the gate implements `ApprovalDecision`; the snapshot covers what runs; the pause holds |
| `approval_double` | 3 sessions, 2 at a time | **violation**: two overlapping approvals execute twice |
| `stream` | worker with 3 events, cancel endpoint with 1, one browser with 2 connections, queue 2, replay 3, 2 tries, one restart (48,000) | log, replay and live delivery fit together |
| `stream_cursor` | limits of the code (100, 1000, 3) | **violation**: the cursor passes an event never seen |
| `run` | 2 starts, 2 cancels, 2 categories, 2 restarts (134,000) | ownership, ends, rest |
| `run_cancel` | 1 run, 1 cancel | **violation**: an accepted cancellation is overwritten |
| `run_end` | 1 run, 1 cancel | **violation**: an event after the end |
| `engagement` | 2 handlers at a time without end, 1 request, quotes of 1200, terms with target and cap 1060 (until they are set the quote is within), 1 round (1,450,000) | no commitment without an approval or somebody let through to bind; the link makes its request stale; after a take-over the agent falls silent |
| `outreach` | 2 handlers at a time without end, 2 approvals, 1 WhatsApp message delivered any number of times, channels that succeed or fail, 1 restart (3,500,000) | contacted once, recorded truthfully, decided once by a message |
| `plan` | 3 tasks of 2 categories, 2 vendors, 3 rows, durations 0 to 3, shifts of -1 and 1, starts and ends at 0 or 4, quotes of 2 and 3 in a budget of 5, 2 handlers at a time, 3 requests (652,000) | commitments and budget; slack, whatever is adjusted |
| `live` | 3 tasks, one after two others, 2 incidents, risks NORMAL, CRITICAL and EMERGENCY, 2 handlers at a time, 5 requests (2,610,000) | nothing stranded, no escalation without cause, a conclusion is reopened by a revision only |

Why these bounds are enough for the cases that matter. *Approval*: every
conflict in the code is between two handlers, so two in flight suffice; a third
and a fourth session can retry what an earlier one left. One edit and one pause
of the event tell every snapshot taken before from those after. *RunStream*:
two writers reach the conflict and, with two tries, its end; a queue of 2 and
a replay of 3 overflow with 4 rows; a second connection replays. *AgentRun*:
two starts are the race on the check, a restart during the reconciliation needs
the second restart, the second category the check between legs. *Engagement*
and *Outreach*: slots are used again, so that histories have any length; two
overlap because every conflict is between two. Two approvals are what two
selections at once file. In `engagement` the first counter-offer of the terms rounds
to 1100, above their cap, and is blocked; before they are set it is 0 and is sent.
One request and one round are what the run affords; its safety properties are proved
for any number of both. *PlanBinding*: three tasks are the fewest with a chain
and a branch, two of them share a category and a vendor serves both; two quotes reach the
budget or exceed it. Three requests are two that overlap after a third, or two
bindings and the reassignment that undoes one; the theorems about the same four
invariants have no such bound. An
adjustment back and forth, and two times with which an end may come before its
start, are all that the code tells apart. Each request inserts one row at most.
*LiveEvent*: one task with two predecessors is the race on the cascade; two
incidents are needed so that one is resolved while the other is open. Deadlock is
checked except in the runs of `PlanBinding` and `LiveEvent`, which stop when their requests are used up;
in the others the steps that leave everything unchanged (`Quiescent`, `Idle`,
`Quiet`) are enabled only when all bounded input is used up.

### Functions

The properties of functions are assumptions of the modules `MC...`, which TLC
evaluates before a run that extends them; the last column names it.

| module | assumptions | over | run |
| --- | --- | --- | --- |
| `MCApproval` | `ApprovalFollowsPolicy`, `ApproversNeedNoApproval`, `ClassificationIsMonotone`, `VendorsNeverAct` | all action types and roles, amounts at the thresholds | `approval_*` |
| `MCPlan` | `AcyclicIffNoTaskReachesItself`, `OrderRespectsDependencies`, `StartIsLongestPath`, `SlackIsReal`, `ImpactIsReachability` against paths as reference; `PlanAddsUp`, `OnlyKnownCostsExceed`, `DetectorsAgree`, `OverspendingShows` | all graphs of three tasks with durations 0 to 2; totals 0 to 120, two items | `plan` |
| `MCLive` | `LongerDelayIsNoBetter`, `RiskIsAPercentage`, `FeasibleIsVerifiable`, `RemainingDelayIsNoWorse`, `FeasibleIsAffordable` | plans of three tasks, all kinds of incident | `live` |
| `MCLive` | `VerifiedIsCalm`, `VerifyingIsStable`, `RepairNeverHurts` | 9,216 contexts of two tasks | `live` |
| `MCLive` | `UnblockedKeepsOrder`, `NextNeverPrecedes`, `CommitmentsAddUp` | plans of three tasks within five hours, small budgets | `live` |
| `MCOutreach` | `BindableIsSupported`, `BindableIsAffordable`, `BoundIsFree`, `SilenceNeverRefuses`; `ShortlistIsSound`, `FiledOnce`; `SourcingAddsOnly`, `NobodyIsMadeUp`, `SearchesEnd`, `SelectedOnce`, `EachCategoryOnce` | reports, calendars and records; all pairs of answers in two rounds; histories of a failed and two successful runs with a selection between | `outreach` |
| `MCOutreach` | `ShortlistIsFit`, `StricterIsSmaller`, `RankingIsTotal`, `SearchAgreesWithCheck`, `DiscoveredOnce`, `RoomDecides`, `VenuesFiledOnce` | five vendors, four discoveries, all inquiries | `outreach` |
| `MCAgentRun` | `AgentRunsAreSound`: `NoSelfApproval`, `EveryExecutionIsVerified`, `RunsEnd`, `WaitingIsNotSuccess`, `PausedIsIdle` | all states reachable from twelve starts, four steps, two attempts | `run` |
| `MCIntake` | `ConversationsAreSound`: `NothingSaidIsLost`, `AskedBeforeAssumed`, `QuestionsAreFair`, `ChangesAreReported`; `PreviewsAreFiled`, `ConfirmedOnce`, `RateIsLimited`; `BaselinesCanBePlanned`, `SpecificationsAreValid` | conversations of three turns out of eight and eight modifications; series of three confirmations | `run` |
| `MCRunStream` | `ToolsAreSound`: `ExecutionsAreConsented`, `ExecutionsAreTold`, `OnlyWritersWrite`, `OutsidersChangeNothing` | every tool of both registries in every world | `stream` |
| `MCRunStream` | `RecoveryCallsAreSound`: `RefusalsBindNobody`, `BindingsAreAuthorised`, `RecoveriesKeepTheLimits`, `CallsAreHeardOnce` | all states two sessions reach with eleven speeches | `stream` |
| `MCRunStream` | `SweeperIsSound`: `NothingIsSentTwice`, `DecidersAreAsked`, `ExpiryIsFinal`, `EscalationIsRecorded` | all states two replicas and a decision reach | `stream` |

Each property is violated by at least one mutated operation kept beside the
original in its module (`mutants` in `PROJECT.json`), so that none holds by
the shape of the model alone.

### Fairness

`Approval` assumes none; its properties are about safety. `RunStream` assumes
that a writer inside `record` goes on (a thread of the pool), that the event
loop drains what is scheduled on it, and that it steps the generator of an
open stream. `AgentRun` assumes that a starter that has passed its check, a
worker and the reconciliation go on. A browser need not connect, a request need
not arrive and nothing need crash. All of it is weak fairness: no step here is
disabled and enabled again infinitely often by somebody else.
`Engagement` assumes that a handler that has begun goes on; whether one begins is
free. `Outreach`, `PlanBinding` and `LiveEvent` assume nothing.
`StreamCloses` excuses a stream on which the end was lost (a full queue, a cut
replay, or a later row published first), because the endpoint has no other way
to learn of it.

### Disagreements found

The first four have a run that ends in a violation.

1. `approval_double` / `ExecutedOnce`. "Strict idempotency for duplicate
   execution requests" (`action_service.py:39`) does not hold for approvals:
   `approve` passes no action id, and two that overlap both execute.
   What does hold: a *later* approval is stopped by the snapshot, unless the
   action is neutral (`RetryBlockedBySnapshot`, proved).
2. `stream_cursor` / `CursorCovers`. Rows are published in the order in which
   threads reach the loop. When row 2 overtakes row 1 the stream forwards 2,
   takes 1 for replayed, and the cursor has passed it: no reconnect brings it
   back (`agent_run_events.py:5-7` says it would). A full queue and a cut replay
   have the same effect.
3. `run_cancel` / `CancelHonoured`. The worker checks, the request to cancel is
   accepted, the worker writes DISCOVERING or WAITING_FOR_USER_SELECTION over
   it (`api/routes/agent.py:319-320` promises `agent.run_cancelled`).
4. `run_end` / `NothingAfterTheEnd`. `agent.cancel_requested` may be recorded
   after the end of the run (`api/routes/agent.py:213`); a browser that derives
   the life cycle from the latest event shows "cancelling" for ever.

Others were met while modelling and have no run of their own; the models have
the behaviour, and the places where it shows are the history variables or the
preconditions named here.

*Approval.*

5. `approve` compares the snapshot, and `execute_action` looks at the pause, before the
   action commits: a plan that is edited, or an event that is paused, in between is
   not noticed. `ExecutedAsReviewed` and `PausedBlocksExecution` hold, and are
   checked, with one request at a time. A rejection that overlaps an approval may be
   overwritten by it, or overwrite it after the action was executed.

*Negotiation.*

6. "Final commitment strictly requires human approval via ApprovalService"
   (`negotiation_service.py:920`), but `confirm_engagement` records whatever is
   quoted by then: a request for 1100 is approved, the provider now asks 1200, which
   is within the cap, no second request is filed because the row links to one, and
   1200 is agreed. (The approval must fall between the commit of the request and that
   of its link, see the next. `Engagement` has these steps, but not which amount a
   request names.)
7. `confirm_engagement` is out of reach of the ordinary flow: writing the link to
   the request renews `updated_at`, which the request's snapshot hashes, so that
   approving it is refused as stale (`LinkedNeverFresh`); and an approval writes
   `negotiation_status` "APPROVED", where `confirm_engagement` asks for
   AWAITING_APPROVAL. `test_negotiation_agent.py:163-168` sets the status by hand.
8. "Never hit exact ceiling": rounding to hundreds may reach or pass it (cap 1000,
   target 900, third round: 1000; target and cap 1060: 1100, blocked by the guard
   that follows). Without a target the first counter-offer is 0.
9. The engagement is not the only way to a commitment, as `negotiation_service.py:6-10`
    has it ("ALL final commitments"): a binding, a reassignment or an executed
    contract sets the same `status` CONFIRMED without a request for the engagement
    and whatever its negotiation says, a HUMAN in control or a decline included
    (`Bind`, `Contract`). `bind_vendor_to_task` has `requires_approval=False` among the
    agent's tools (`registry.py:876-883`), and a caller without a name, "system" and
    the anonymous operator pass `_verify_authorization`.
10. A take-over is lost to a concurrent resumption and does not stop an offer in
    flight; a cancellation is overwritten by a handler in flight or a later reply.

*Contact and idempotency.*

11. Two selections at once file two approvals, and the candidate is contacted under
    each (`ContactedOnce` speaks of one approval). REJECTED turns into APPROVED when
    the button is pressed afterwards. A crash leaves the key PROCESSING, and every
    repetition is answered so for good: `execute_approved_communication` does not look
    at the expiry of the key. The request reads APPROVED before anything is sent.
12. The reconciliation batch promises "Atomicity per operation via database
    savepoints" and opens none; two of its operations call services with
    arguments they do not have and always fail.

*Plan.*

13. Two overlapping bindings of different categories exceed the total budget, and
    a binding that overlaps a reassignment away from the same vendor leaves a
    bound task without its assignment (`raced`). An approved REASSIGN_VENDOR takes
    over another vendor's row and checks no budget (`takenOver`, `unchecked`).
14. Critical path and schedule disagree on a task without a duration (0 and 30
    minutes), so that slack is not safe (`dur[t] > 0` in `SlackIsSafe`).
    `create_dependency` lets a cycle in, after which every binding fails.
15. An executed ADJUST_SCHEDULE moves start and end as its payload says and compares
    neither with the other nor with other tasks: a task may end before it starts,
    which the compiled plan reports as an error (`final_execution_plan_service.py:190-192`).
    A shift back lets the slack grow without end.
16. Binding matches categories by containment and assignment by equality: tasks
    whose domain category is `av`, `decoration`, `music` or `transportation` cannot
    be bound to the vendors sourced for them.
17. The compiled plan looks at direct dependencies between tasks with times only: a
    task without times hides a violation across it. VALIDATION_CONFLICT never goes
    away; INCOMPLETE is never reached; "next" may be finished.

*Live event.*

18. `process_intake` and `modify_plan` set the life cycle to DRAFT whatever it was, past
    the guard of `planning_service.py:68-78` ("only plan events in non-concluded
    states"), and plan the event again, though for the state machine CONCLUDED is a
    "Terminal state" (`event_state.py:39`). What does hold: nothing else reopens a
    conclusion but an overlap or a recovery (`OnlyRevisionReopens`, proved).
19. Two completions at once strand their common successor (`raced`); a recovery
    that is approved in PLANNED makes the event LIVE with its first tasks PENDING
    (`forced`); recalculating a resolved incident escalates with none open
    (`reassessed`); CONCLUDED is undone by a report or an approval in flight.
20. ASSIGNED has no row in the table of `update_task_status`, and going live does
    not make such tasks ready. A second, milder incident lowers the event's state.
21. `deadline_exceeded` is never set (times are strings when they are compared), so
    that TIME_WINDOW constraints are never touched by an impact.
22. After a verification "Only transition to NORMAL if ALL operational invariants
    hold": providers and resources are not looked at (288 of the 9,216 contexts
    conclude FAILED with NORMAL). Generator and verifier name the new provider
    differently (`provider_id`, `vendor_id`); validator and verifier read a budget
    cap under different names.

*Discovery, sourcing, directory.*

23. A candidate that was too far in a narrow round is not judged again after the
    circle has widened. The default of `simulate_outreach` is TRUE
    (`schemas/agentic_discovery.py:22`) and reaches two routes, although the service
    says "must NEVER be the default or reachable from a production API call".
    Vendors on file without a rating get an invented one, which is written back.
24. An entry of any category with the same name stands for a new recommendation,
    and its own category gets none. When discovery rejects all vendors on file,
    the fallback recommends those.
25. The shortlist is given neither date nor place of the event: a vendor who is
    booked on the day is listed, and so is one whom discovery has rejected.
    `discover_and_rank_venues` files venues and then always raises.
26. "Mandatory fact UNKNOWN -> BLOCK": an unknown capacity or price does not
    block, so that an extraction that fails binds whom one that succeeds refuses
    (`SilenceNeverRefuses` states the direction that holds).

*Agent.*

27. COMPLETE after failed attempts ends COMPLETED, although the node says
    "achieved and verified". `start_autonomous_operations` is not registered: the
    call fails and the run ends COMPLETED.
28. Calls to `pause_event`, `resume_event`, `modify_event_plan` are routed to
    `validate_action`, which judges and executes the selected recovery option
    instead. An approval for one option counts for any; a guarded one then raises.
29. READ_ONLY tools commit (impact, risk, options, vendors). Failures of functional
    tools are results with `success` TRUE, against "Never silently converts failure
    into success"; so is `unknown_result`. `record_decision` records nothing.

*Calls.*

30. A replay of a session that was first judged unclear or rejected is judged by
    its price alone and may bind. A silent call to a vendor without a deal can
    bind. HUMAN_CONTROL stops no recovery call and lifts its ceiling. A call that
    fails has no "status", and the tool that made it raises a KeyError.

*Sweeper.*

31. The lock that should ensure "strict mutual exclusion" does not refresh the row
    already in the session: two replicas whose sweeps overlap both send, and the
    later write drops the other's flag (`NothingIsSentTwice` is false of
    overlapping sweeps; `MCRunStream` lets them alternate). Expiry in the same way
    overwrites an approval given during the sweep (`raced`). No constructor sets
    `expires_at`, although `README.md:143` of the project describes expired
    approvals.

*Intake.*

32. "persons" and "hours" contain "rs": a text with one of them has a word of money,
    and its first number becomes the budget ("conference for 200 persons": 200).
33. Defaults filed with a draft count as given at the next turn, so that a missing
    field is asked for once only. A turn without the words for a kind of event
    makes it a conference.
34. Removing a service removes neither task nor resource of the domain's baseline.
    The critical flags of the baselines disagree with the critical path until a
    recalculation, and the classification of actions uses them.

## 5. What is proved

45 theorems are listed in `PROJECT.json`; they and their lemmas make some 9,600
obligations in eight modules. A theorem holds for every value of the constants
that satisfies the named assumptions of the module. These say that ids of
different kinds are distinct, that bounds, durations and amounts are natural
numbers, that roles are a function on users in which the owner and the anonymous
operator are main organizers, and that a plan's dependencies are between its
tasks. Only two sets are assumed finite: the tasks of a plan (they are counted
by the sort) and the sessions of `Approval` (the executions of a request are
counted by the refinement). Users, requests, writers, connections, runs,
handlers, approvals, messages, vendors and rows may be any number.

In each module the property is not inductive as it stands, because a handler
reads in one step and writes in a later one, and others commit in between. The
strengthening always says what a handler that is under way still knows, or may
still write.

**Approval.** `GateSafe` proves `TypeOK` and `GateInvariant`: a loaded request
exists and its approver is eligible and is not its requester; a snapshot never
exceeds the versions it was taken from; an executed handler owns its execution;
an execution for a mutating request left the plan beyond the request's snapshot.
From it: `GateTyped`, `ApprovedExecuted`, `DutiesKeptApart`, `ActionIdOnce`,
`StaleIsJustified`, `RetryBlocked`, which hold under every interleaving and crash.
Three more hold where requests do not overlap (two that do may execute twice, as
`approval_double` shows): under `MaxInFlight = 1`, `Serial` says that what the
one handler in flight has seen is still what the tables hold, and gives
`ReviewedWhenSerial`, `PausedWhenSerial` and `GateDecides`, the refinement of
`ApprovalDecision`. The latter goes step by step: filing, closing, approving and
executing map to steps of the same name, a crash and what concerns the event or
another request to a stutter.

**RunStream.** `LogSafe` proves an invariant of the log alone: rows are
well-formed, sequences fill 1 .. n without repetition, and what a writer has
read as the highest sequence is not beyond n. The last part is the
strengthening: with it, a number that is not taken can only be n + 1.
`LogContiguous` and `LogGrows` follow. `StreamSafe` adds the connections: what a
writer is about to publish is in the log (`HandsCommitted`), and what a connection
has sent lies at or before its cursor, what it will replay after it and in order
(`Steady`). A row passes from the log to a writer's hands, to the loop and to the
queues, and a gap could open at each of these; `NoGap` is that none does,
`FramesInOrder` that nothing is shown twice or out of order.

**AgentRun.** `RunsSafe` proves `TypeOK /\ RunInvariant`. `RunOK` says, by the
point its handlers have reached, what the row and the log of a run can be; the
decisive parts are that the worker writes without looking only where no other
writer can have ended the run, and that whoever is about to tell an end is the
first. From it `RunsTyped`, `RunsOwned`, `EndsTold` (once), `EndsCommitted`
(truthfully) and `EndsFinal`. Each step changes one run; `OthersGood` carries the
others over.

**Engagement.** A handler's patch may be flushed over anything. `HandlerOK` says
what patches may contain: none writes the link; APPROVED is written only by a
handler that is executing a filed request or a contract; CONFIRMED as the state of
the negotiation only once a human has decided, and as the status of the assignment
only then or by a handler that binds or contracts. Decisions are never withdrawn, so
whichever columns overlap, and however late a patch is flushed, `AuthorityCommits`
holds: it speaks of the step that enters such a state, as the row may begin
CONFIRMED. That `BindHeard` confirms nothing anew is the part that takes the
invariant: its patch has CONFIRMED only where the row did not read so, and then what
it relied on was a decision. `LinkedIsStale` needs `RequestOK`: the commit that links
a request ages it.

**Outreach.** The decisive part of `OutreachInvariant` is that one handler at most
holds the key of an approval, that the key is PROCESSING while it does, and that
an ABSENT key has contacted nobody; the same for a message and who serves it.
Together with what a handler has attempted so far it gives `ContactsOnce`,
`TellsTruth` and `MessageOnce`, across restarts that leave a key PROCESSING.

**LiveEvent.** `LiveInvariant` says of the tables that work flows and that
escalations have causes, and of every transaction that nobody has overtaken that
its commit, on the tables as they are now, would be right (`Sound`). When another
transaction commits first, this one is overtaken, and its own commit is `raced`.
A new plan overtakes too, and ends those whose tasks it deletes (`GenerateKeeps`).
From it `WorkFlows`, `EscalationsCaused` and, as an action property,
`ConclusionStays`: a commit that takes an event out of CONCLUDED is a revision's, or
`raced`, or that of a recovery.

**TaskGraph.** The engines recurse over rounds and along dependencies.
Induction is needed in a first-order form: over sets of numbers
(`LeastNumber`) and sets of subsets in place of predicates, with the
well-foundedness theorems of the library; `Recursion` shows once that the two
passes satisfy their equations wherever tasks can be ranked. `AcyclicRanked`: what
the sort accepts can be ranked. `SlackIsNatural`: no task has a negative slack.
`DelayWithinSlack`: when every task has a duration, the adjuster carries a delay
equal to a task's slack without moving the end of the project. The proof follows
the adjuster: a moved task still ends by its latest finish.

**PlanBinding.** `PlanSafe` holds an invariant of the bindings: a handler nobody
has overtaken has found a row that its lookup would find still, intends to spend
what is affordable still, and replaces only a row of the provider it replaces
(`Current`). It gives `BindingsCommit`, and `BudgetKept`, for which the sum over
the budget items is split into the item that changes and the rest
(`CommittedSplit`, `CommittedOthers`). `TimesSafe` holds another: a fresh schedule and a
fresh slack are what the engines compute for the plan as it is; of those that are
not fresh, which an adjustment may have put anywhere, no slack is negative; and a handler nobody has overtaken holds what they compute for it. With
`DelayWithinSlack` it gives `SlackSafe`, and with `PlanSafe` `PlanTyped`.

**Only model-checked.** Liveness (`StreamCloses`, `RunsComeToRest`, `CancelReaches`,
`TakeOverSettles`) is beyond the prover, which reasons about neither fairness nor
ENABLED here; TLC checks it on the instances above. The four violations are
counterexamples and need no proof. The properties of functions in section 4 are
checked over bounded inputs: many compare with a reference that enumerates, or
speak of all states a bounded conversation, call or run can reach. Those of
`TaskGraph`, `BudgetRules`, `Verification` and `ActionPolicy` that can be proved are
in the plan.

## 6. Running

    tlc -workers 2 -config approval_concurrent.cfg MCApproval
    tlc -workers 2 -config stream.cfg MCRunStream
    tlc -workers 2 -config run.cfg MCAgentRun
    tlc -workers 2 -config engagement.cfg MCEngagement
    tlc -workers 2 -config outreach.cfg MCOutreach
    tlc -workers 2 -config plan.cfg MCPlan
    tlc -workers 2 -config live.cfg MCLive
    tlapm ApprovalProofs.tla

and in the same way for the other configurations and proof modules.
`PlanBindingProofs` extends `TaskGraphProofs` and uses its theorems.
