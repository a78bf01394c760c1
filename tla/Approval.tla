------------------------------ MODULE Approval ------------------------------
(***************************************************************************)
(* The approval gate of one event: ApprovalService (create, approve,       *)
(* reject, cancel), ActionService.execute_action and the pause guard, as   *)
(* HTTP requests that interleave on one database.                          *)
(*                                                                         *)
(* FastAPI serves each request in a thread of its own with a database      *)
(* session of its own (autoflush off, READ COMMITTED): every read and      *)
(* every commit of a handler is a step, and what another request commits   *)
(* may fall between two of them.  No handler locks a row.  A session       *)
(* keeps the event row it has read (SQLAlchemy's identity map) until its   *)
(* next commit, so the event it looks at again is the one it saw first.    *)
(* The mutation of an action commits with its record; COMMUNICATION_       *)
(* OUTREACH, which commits on its own before it sends, is not among the    *)
(* actions here.                                                           *)
(***************************************************************************)
EXTENDS Integers, FiniteSets

CONSTANTS
  Users,        \* identities a request may carry in X-User-Id
  Role,         \* role of each user on the event, "NONE" for a stranger
  Owner,        \* event.owner_id
  Anonymous,    \* "anonymous_operator", the identity of a missing header
  NoUser,
  Requests,     \* approval requests (ids)
  ActionIds,    \* idempotency keys clients put on direct actions
  Impact,       \* impact level of each request and each direct action
  Neutral,      \* those whose mutation changes no column of the snapshot
  NoRequest, FreshId,
  Sessions,     \* the HTTP requests served; each is served once
  NoExecution,
  MaxInFlight,  \* bound: handlers running at the same time
  MaxPlan,      \* bound: plan version up to which planners edit
  MaxVer        \* bound: event version up to which it is paused or resumed

Actions == Requests \cup ActionIds

Roles == {"MAIN_ORGANIZER", "EVENT_MANAGER", "COLLABORATOR", "VENDOR",
          "VIEWER", "NONE"}

ASSUME UsersAssumption ==
  /\ Role \in [Users -> Roles]
  /\ Owner \in Users
  /\ \A u \in Users \cap {Owner, Anonymous} : Role[u] = "MAIN_ORGANIZER"
  /\ NoUser \notin Users

ASSUME ActionsAssumption ==
  /\ Requests \cap ActionIds = {}
  /\ Impact \in [Actions -> {"MINOR", "MAJOR", "CRITICAL"}]
  /\ Neutral \subseteq Actions
  /\ NoRequest \notin Actions
  /\ FreshId \notin ActionIds

ASSUME SessionsAssumption == IsFiniteSet(Sessions)

ASSUME BoundsAssumption == {MaxInFlight, MaxPlan, MaxVer} \subseteq Nat

Statuses == {"ABSENT", "PENDING", "APPROVED", "REJECTED", "CANCELLED", "STALE"}

Snapshots == [ver : Nat, plan : Nat]

Executions == [request  : Requests \cup {NoRequest},
               action   : ActionIds \cup {FreshId},
               executor : Users,
               before   : Snapshots,
               after    : Snapshots]

ASSUME NoExecutionAssumption == NoExecution \notin Executions

VARIABLES
  approval,   \* the approvals table
  event,      \* the event row: execution state and version (updated_at)
  plan,       \* version of the rows the snapshot hashes besides the event
  execution,  \* the action_executions table, by the session that inserted
  session     \* the handler each session runs, and what it has read

vars == <<approval, event, plan, execution, session>>

PcInFlight == {"drafting", "loaded", "fresh", "admitted", "executed",
               "rejecting", "cancelling"}

Handlers == [pc     : {"new", "done"} \cup PcInFlight,
             user   : Users \cup {NoUser},
             target : Actions \cup {NoRequest},
             seen   : [exec : {"RUNNING", "PAUSED"}, ver : Nat],
             base   : Snapshots]

\* The types of requests, executions and sessions: what the tables and a handler
\* between two commits may hold.
TypeOK ==
  /\ approval \in [Requests -> [status    : Statuses,
                                requester : Users \cup {NoUser},
                                approver  : Users \cup {NoUser},
                                snapshot  : Snapshots]]
  /\ event \in [exec : {"RUNNING", "PAUSED"}, ver : Nat]
  /\ plan \in Nat
  /\ execution \in [Sessions -> Executions \cup {NoExecution}]
  /\ session \in [Sessions -> Handlers]

Init ==
  /\ event = [exec |-> "RUNNING", ver |-> 0]
  /\ plan = 0
  /\ approval = [r \in Requests |-> [status |-> "ABSENT", requester |-> NoUser,
                                     approver |-> NoUser,
                                     snapshot |-> [ver |-> 0, plan |-> 0]]]
  /\ execution = [s \in Sessions |-> NoExecution]
  /\ session = [s \in Sessions |-> [pc |-> "new", user |-> NoUser,
                                    target |-> NoRequest, seen |-> event,
                                    base |-> [ver |-> 0, plan |-> 0]]]

-----------------------------------------------------------------------------
(* Policy *)

\* authorize_action: who may file a request.  Vendors and viewers are refused.
MaySubmit(u) == Role[u] \in {"MAIN_ORGANIZER", "EVENT_MANAGER", "COLLABORATOR"}

\* APPROVAL_APPROVE, the permission reject asks for as well.
MayDecide(u) == Role[u] \in {"MAIN_ORGANIZER", "EVENT_MANAGER"}

EligibleApprover(u, r) ==
  /\ MayDecide(u)
  /\ Impact[r] = "CRITICAL" => Role[u] = "MAIN_ORGANIZER"

\* authorize_action without ApprovalPolicy.requires_approval.
MayExecuteDirectly(u, a) ==
  \/ Role[u] = "MAIN_ORGANIZER"
  \/ Role[u] = "EVENT_MANAGER" /\ Impact[a] # "CRITICAL"
  \/ Role[u] = "COLLABORATOR" /\ Impact[a] = "MINOR"

\* Generic identities file in the name of the event's owner.
RequesterIdentity(u) == IF u = Anonymous THEN Owner ELSE u

\* compute_event_state_snapshot in session s: the event row is the one s holds.
SnapshotSeenBy(e) == [ver |-> e.ver, plan |-> plan]

-----------------------------------------------------------------------------
(* Serving requests *)

InFlight == {s \in Sessions : session[s].pc \in PcInFlight}

Free == Cardinality(InFlight) < MaxInFlight

Begin(s, pc, u, t) ==
  /\ session[s].pc = "new"
  /\ Free
  /\ session' = [session EXCEPT ![s] =
       [pc |-> pc, user |-> u, target |-> t, seen |-> event,
        base |-> SnapshotSeenBy(event)]]

\* What a handler has read is gone when it returns.
Returned == [pc |-> "done", user |-> NoUser, target |-> NoRequest,
             seen |-> [exec |-> "RUNNING", ver |-> 0],
             base |-> [ver |-> 0, plan |-> 0]]

GoTo(s, from, to) ==
  /\ session[s].pc = from
  /\ session' = [session EXCEPT ![s] =
       IF to = "done" THEN Returned ELSE [@ EXCEPT !.pc = to]]

-----------------------------------------------------------------------------
(* Faulty variants of the operations defined below, each with one plausible  *)
(* bug.  They are not part of Spec; the property each must break is named.    *)

\* ApprovedMeansExecuted: approve swallows the exception of execute_action.
FailExecutionSwallowed(s) ==
  /\ GoTo(s, "admitted", IF session[s].target \in Requests THEN "executed"
                                                           ELSE "done")
  /\ UNCHANGED <<approval, event, plan, execution>>

\* DutiesSeparated: any approver will do, the requester included.
LoadForApprovalBySelf(s, u, r) ==
  /\ approval[r].status = "PENDING"
  /\ EligibleApprover(u, r)
  /\ Begin(s, "loaded", u, r)
  /\ UNCHANGED <<approval, event, plan, execution>>

\* DecisionSpec: the guard on the status is missing.
LoadForApprovalAnyStatus(s, u, r) ==
  /\ approval[r].status # "ABSENT"
  /\ u # Anonymous => u # approval[r].requester
  /\ EligibleApprover(u, r)
  /\ Begin(s, "loaded", u, r)
  /\ UNCHANGED <<approval, event, plan, execution>>

\* StaleJustified: a request that was decided meanwhile counts as stale too.
RevalidateDecided(s) ==
  LET r == session[s].target
      current == SnapshotSeenBy(session[s].seen)
      fresh == approval[r].snapshot = current /\ approval[r].status = "PENDING"
  IN  /\ session[s].pc = "loaded"
      /\ GoTo(s, "loaded", IF fresh THEN "fresh" ELSE "done")
      /\ approval' = IF fresh THEN approval
                     ELSE [approval EXCEPT ![r].status = "STALE"]
      /\ UNCHANGED <<event, plan, execution>>

\* RetryBlockedBySnapshot: only the event row is compared.
RevalidateEventOnly(s) ==
  LET r == session[s].target
      fresh == approval[r].snapshot.ver = session[s].seen.ver
  IN  /\ session[s].pc = "loaded"
      /\ GoTo(s, "loaded", IF fresh THEN "fresh" ELSE "done")
      /\ approval' = IF fresh THEN approval
                     ELSE [approval EXCEPT ![r].status = "STALE"]
      /\ UNCHANGED <<event, plan, execution>>

\* ExecutedAsReviewed: only the rows besides the event are compared.
RevalidatePlanOnly(s) ==
  LET r == session[s].target
      fresh == approval[r].snapshot.plan = plan
  IN  /\ session[s].pc = "loaded"
      /\ GoTo(s, "loaded", IF fresh THEN "fresh" ELSE "done")
      /\ approval' = IF fresh THEN approval
                     ELSE [approval EXCEPT ![r].status = "STALE"]
      /\ UNCHANGED <<event, plan, execution>>

\* PausedBlocksExecution: approve skips the pause guard.
AdmitApprovedPaused(s) ==
  /\ GoTo(s, "fresh", "admitted")
  /\ UNCHANGED <<approval, event, plan, execution>>

\* ActionIdExecutedOnce: action_id is not unique in the table.
CommitExecutionDuplicateId(s) ==
  LET t == session[s].target
      filed == t \in Requests
  IN  /\ GoTo(s, "admitted", IF filed THEN "executed" ELSE "done")
      /\ plan' = IF t \in Neutral THEN plan ELSE plan + 1
      /\ execution' = [execution EXCEPT ![s] =
           [request  |-> IF filed THEN t ELSE NoRequest,
            action   |-> IF filed THEN FreshId ELSE t,
            executor |-> session[s].user,
            before   |-> session[s].base,
            after    |-> SnapshotSeenBy(session[s].seen)]]
      /\ UNCHANGED <<approval, event>>

\* TypeOK: cancel writes a status that no other operation knows.
CommitCancellationWithdrawn(s) ==
  /\ GoTo(s, "cancelling", "done")
  /\ approval' = [approval EXCEPT ![session[s].target].status = "WITHDRAWN"]
  /\ UNCHANGED <<event, plan, execution>>

-----------------------------------------------------------------------------
(* The operations *)

\* create_request up to the snapshot.  The id is new: nobody else files r.
DraftRequest(s, u, r) ==
  /\ approval[r].status = "ABSENT"
  /\ \A t \in InFlight : session[t].target # r
  /\ MaySubmit(RequesterIdentity(u))
  /\ Begin(s, "drafting", RequesterIdentity(u), r)
  /\ UNCHANGED <<approval, event, plan, execution>>

FileRequest(s) ==
  /\ GoTo(s, "drafting", "done")
  /\ approval' = [approval EXCEPT ![session[s].target] =
       [status |-> "PENDING", requester |-> session[s].user,
        approver |-> NoUser, snapshot |-> session[s].base]]
  /\ UNCHANGED <<event, plan, execution>>

\* approve: the event and the approval are read, the guards on them pass.
LoadForApproval(s, u, r) ==
  /\ approval[r].status = "PENDING"
  /\ u # Anonymous => u # approval[r].requester
  /\ EligibleApprover(u, r)
  /\ Begin(s, "loaded", u, r)
  /\ UNCHANGED <<approval, event, plan, execution>>

\* A fresh snapshot (of the event row seen at the start) is compared with the
\* one of the request; a difference commits STALE, whatever the status is now.
Revalidate(s) ==
  LET r == session[s].target
      current == SnapshotSeenBy(session[s].seen)
  IN  /\ \/ /\ GoTo(s, "loaded", "fresh")
            /\ approval[r].snapshot = current
            /\ UNCHANGED approval
         \/ /\ GoTo(s, "loaded", "done")
            /\ approval[r].snapshot # current
            /\ approval' = [approval EXCEPT ![r].status = "STALE"]
      /\ UNCHANGED <<event, plan, execution>>

\* execute_action on behalf of approve: the pause guard looks at the event row
\* the session already holds; the action id is a new uuid.
AdmitApproved(s) ==
  /\ session[s].pc = "fresh"
  /\ session' = [session EXCEPT ![s] =
       IF @.seen.exec = "PAUSED" THEN Returned
       ELSE [@ EXCEPT !.pc = "admitted",
                      !.base = SnapshotSeenBy(session[s].seen)]]
  /\ UNCHANGED <<approval, event, plan, execution>>

\* A direct action: policy, pause guard and the look-up of the action id.
AdmitDirect(s, u, a) ==
  /\ MayExecuteDirectly(u, a)
  /\ event.exec # "PAUSED"
  /\ \A t \in Sessions : execution[t] # NoExecution => execution[t].action # a
  /\ Begin(s, "admitted", u, a)
  /\ UNCHANGED <<approval, event, plan, execution>>

\* The id is unique in the table: the insert fails when another session has
\* committed the same client id in the meantime (see Fail).
CommitExecution(s) ==
  LET t == session[s].target
      filed == t \in Requests
      newPlan == IF t \in Neutral THEN plan ELSE plan + 1
  IN  /\ GoTo(s, "admitted", IF filed THEN "executed" ELSE "done")
      /\ ~filed => \A o \in Sessions :
                     execution[o] # NoExecution => execution[o].action # t
      /\ plan' = newPlan
      /\ execution' = [execution EXCEPT ![s] =
           [request  |-> IF filed THEN t ELSE NoRequest,
            action   |-> IF filed THEN FreshId ELSE t,
            executor |-> session[s].user,
            before   |-> session[s].base,
            after    |-> [ver |-> session[s].seen.ver, plan |-> newPlan]]]
      /\ UNCHANGED <<approval, event>>

\* The mutation raises (target gone, bad payload, unknown action type, unique
\* violation): rolled back, the error propagates, a request stays PENDING.
FailExecution(s) ==
  /\ GoTo(s, "admitted", "done")
  /\ UNCHANGED <<approval, event, plan, execution>>

\* The last commit of approve: an update by primary key, without a re-read.
MarkApproved(s) ==
  /\ GoTo(s, "executed", "done")
  /\ approval' = [approval EXCEPT ![session[s].target].status = "APPROVED",
                                  ![session[s].target].approver = session[s].user]
  /\ UNCHANGED <<event, plan, execution>>

LoadForRejection(s, u, r) ==
  /\ approval[r].status = "PENDING"
  /\ MayDecide(u)
  /\ Begin(s, "rejecting", u, r)
  /\ UNCHANGED <<approval, event, plan, execution>>

CommitRejection(s) ==
  /\ GoTo(s, "rejecting", "done")
  /\ approval' = [approval EXCEPT ![session[s].target].status = "REJECTED",
                                  ![session[s].target].approver = session[s].user]
  /\ UNCHANGED <<event, plan, execution>>

LoadForCancellation(s, u, r) ==
  /\ approval[r].status = "PENDING"
  /\ u = approval[r].requester \/ Role[u] = "MAIN_ORGANIZER"
  /\ Begin(s, "cancelling", u, r)
  /\ UNCHANGED <<approval, event, plan, execution>>

CommitCancellation(s) ==
  /\ GoTo(s, "cancelling", "done")
  /\ approval' = [approval EXCEPT ![session[s].target].status = "CANCELLED"]
  /\ UNCHANGED <<event, plan, execution>>

-----------------------------------------------------------------------------
(* What the rest of the system does to the event meanwhile *)

SetExecutionState(from, to) ==
  /\ Free
  /\ event.exec = from
  /\ event.ver < MaxVer
  /\ event' = [exec |-> to, ver |-> event.ver + 1]
  /\ UNCHANGED <<approval, plan, execution, session>>

PauseEvent  == SetExecutionState("RUNNING", "PAUSED")
ResumeEvent == SetExecutionState("PAUSED", "RUNNING")

\* Any other commit that touches a row of the snapshot: a task, a vendor (of
\* any event), an assignment, a budget item, an incident.
EditPlan ==
  /\ Free
  /\ plan < MaxPlan
  /\ plan' = plan + 1
  /\ UNCHANGED <<approval, event, execution, session>>

\* The API process dies: every open transaction is lost, every commit stays.
Crash ==
  /\ InFlight # {}
  /\ session' = [s \in Sessions |->
       IF s \in InFlight THEN Returned ELSE session[s]]
  /\ UNCHANGED <<approval, event, plan, execution>>

\* Nobody calls any more (a bound of the model, not a deadlock of the code).
Quiescent == (\A s \in Sessions : session[s].pc = "done") /\ UNCHANGED vars

Arrive(s) ==
  \/ \E u \in Users, r \in Requests : DraftRequest(s, u, r)
  \/ \E u \in Users, r \in Requests : LoadForApproval(s, u, r)
  \/ \E u \in Users, r \in Requests : LoadForRejection(s, u, r)
  \/ \E u \in Users, r \in Requests : LoadForCancellation(s, u, r)
  \/ \E u \in Users, a \in ActionIds : AdmitDirect(s, u, a)

Proceed(s) ==
  \/ FileRequest(s)
  \/ Revalidate(s)
  \/ AdmitApproved(s)
  \/ CommitExecution(s)
  \/ FailExecution(s)
  \/ MarkApproved(s)
  \/ CommitRejection(s)
  \/ CommitCancellation(s)

Next ==
  \/ \E s \in Sessions : Arrive(s) \/ Proceed(s)
  \/ PauseEvent
  \/ ResumeEvent
  \/ EditPlan
  \/ Crash
  \/ Quiescent

Spec == Init /\ [][Next]_vars
-----------------------------------------------------------------------------
(* Properties that hold however requests interleave and whenever the process *)
(* crashes *)

Executed(s) == execution[s] # NoExecution

\* A request reads APPROVED only if the action it asked for was executed, by
\* the approver the row names (approve executes first and marks afterwards,
\* in another commit, over whatever other requests wrote in between).
ApprovedMeansExecuted ==
  \A r \in Requests : approval[r].status = "APPROVED" =>
    \E s \in Sessions :
      Executed(s) /\ execution[s].request = r
                  /\ execution[s].executor = approval[r].approver

\* Separation of duties: nobody but the anonymous operator (whom the code
\* exempts) executes a request filed in their own name, and who executes it is
\* eligible for its impact level.
DutiesSeparated ==
  \A s \in Sessions : Executed(s) /\ execution[s].request # NoRequest =>
    /\ \/ execution[s].executor # approval[execution[s].request].requester
       \/ execution[s].executor = Anonymous
    /\ EligibleApprover(execution[s].executor, execution[s].request)

\* Direct actions sent again with the same action id, even at the same time,
\* are executed once: the look-up is backed by the unique column.
ActionIdExecutedOnce ==
  \A s, t \in Sessions :
    /\ Executed(s) /\ Executed(t)
    /\ execution[s].action = execution[t].action
    /\ execution[s].action \in ActionIds
    => s = t

\* A request is closed as STALE only if the event really changed since it was
\* filed: the cached event row of the session never causes a false conflict.
StaleJustified ==
  [][\A r \in Requests :
       approval[r].status # "STALE" /\ approval'[r].status = "STALE" =>
         approval[r].snapshot # SnapshotSeenBy(event)]_vars

\* Once a mutating request was executed, no approval of it passes the snapshot
\* comparison again: a retry after a crash, a lost reply or a decision that
\* was overwritten cannot execute it a second time.  Only an approval that
\* was past the comparison already can (see ExecutedOnce).
RetryBlockedBySnapshot ==
  [][\A s \in Sessions :
       /\ session[s].pc = "loaded" /\ session'[s].pc = "fresh"
       /\ session[s].target \notin Neutral
       => \A t \in Sessions :
            Executed(t) => execution[t].request # session[s].target]_vars

-----------------------------------------------------------------------------
(* The inductive invariant behind the properties above *)

\* What the handler in session s knows at each of its steps.
HandlerOK(s) ==
  LET h == session[s]
      filed == h.target \in Requests
  IN  /\ h.pc \in PcInFlight => h.user \in Users
      /\ h.pc \in PcInFlight => h.target \in Actions
      /\ h.pc \in PcInFlight \ {"admitted"} => filed
      /\ h.pc \in PcInFlight => h.seen.ver <= event.ver
      /\ h.pc \in {"new"} \cup (PcInFlight \ {"executed"}) => ~Executed(s)
      /\ h.pc = "drafting" =>
           /\ h.base.ver <= event.ver /\ h.base.plan <= plan
           /\ approval[h.target].status = "ABSENT"
           /\ \A t \in Sessions \ {s} :
                session[t].pc \in PcInFlight => session[t].target # h.target
      /\ h.pc \in {"loaded", "fresh", "admitted", "executed"} /\ filed =>
           /\ approval[h.target].status # "ABSENT"
           /\ h.user # approval[h.target].requester \/ h.user = Anonymous
           /\ EligibleApprover(h.user, h.target)
      /\ h.pc \in {"rejecting", "cancelling"} =>
           approval[h.target].status # "ABSENT"
      /\ h.pc = "loaded" => approval[h.target].snapshot.ver <= h.seen.ver
      /\ h.pc \in {"fresh", "admitted"} /\ filed =>
           approval[h.target].snapshot.plan <= plan
      /\ h.pc = "executed" =>
           /\ Executed(s)
           /\ execution[s].request = h.target
           /\ execution[s].executor = h.user

\* An execution for a request left the plan beyond the request's snapshot.
ExecutionOK(s) ==
  Executed(s) /\ execution[s].request # NoRequest =>
    /\ approval[execution[s].request].status # "ABSENT"
    /\ execution[s].request \notin Neutral =>
         approval[execution[s].request].snapshot.plan < plan

RequestOK(r) == approval[r].status # "ABSENT" =>
  approval[r].snapshot.ver <= event.ver /\ approval[r].snapshot.plan <= plan

\* The session-by-session facts that carry the gate's guarantees from the
\* reads of approve and create_request to their commits.
GateInvariant ==
  /\ \A s \in Sessions : HandlerOK(s) /\ ExecutionOK(s)
  /\ \A r \in Requests : RequestOK(r)

-----------------------------------------------------------------------------
(* Properties that need requests to be served one at a time (MaxInFlight = 1) *)

\* What is executed for a request ran on the state its requester filed it for
\* (the snapshot is compared in approve, the mutation comes later).
ExecutedAsReviewed ==
  \A s \in Sessions : Executed(s) /\ execution[s].request # NoRequest =>
    execution[s].before = approval[execution[s].request].snapshot

\* Nothing is executed while the event is paused ("Consequential mutations are
\* blocked until the event is resumed").
PausedBlocksExecution ==
  [][\A s \in Sessions :
       ~Executed(s) /\ Executed(s)' => event.exec = "RUNNING"]_vars

\* A filed request is executed at most once.  Two approvals of it that overlap
\* both execute: neither the status nor the action id stands in the way.
ExecutedOnce ==
  \A s, t \in Sessions :
    /\ Executed(s) /\ Executed(t)
    /\ execution[s].request = execution[t].request
    /\ execution[s].request # NoRequest
    => s = t

\* The gate implements ApprovalDecision.
Decision == INSTANCE ApprovalDecision WITH
  Mutating <- Requests \ Neutral,
  status   <- [r \in Requests |-> approval[r].status],
  effects  <- [r \in Requests |-> Cardinality(
                {s \in Sessions : Executed(s) /\ execution[s].request = r})]

DecisionSpec == Decision!Spec
=============================================================================
