--------------------------- MODULE ApprovalProofs ---------------------------
(***************************************************************************)
(* Proofs about Approval for all users, roles, requests, sessions and      *)
(* bounds: the type invariant, the inductive invariant GateInvariant, and  *)
(* the properties that hold however requests interleave.                   *)
(***************************************************************************)
EXTENDS Approval, FiniteSetTheorems, TLAPS

-----------------------------------------------------------------------------
(* Types *)

\* A handler that begins with a user and an action keeps the session table
\* well typed.
LEMMA BeginTyped ==
  ASSUME TypeOK, NEW s \in Sessions, NEW u \in Users, NEW t \in Actions,
         NEW pc \in PcInFlight, Begin(s, pc, u, t)
  PROVE  session' \in [Sessions -> Handlers]
<1>1. SnapshotSeenBy(event) \in Snapshots
  BY DEF TypeOK, SnapshotSeenBy, Snapshots
<1>2. [pc |-> pc, user |-> u, target |-> t, seen |-> event,
       base |-> SnapshotSeenBy(event)] \in Handlers
  BY <1>1 DEF TypeOK, Handlers
<1> QED
  BY <1>2 DEF TypeOK, Begin

\* So does a handler that moves on or returns.
LEMMA GoToTyped ==
  ASSUME TypeOK, NEW s \in Sessions, NEW from \in PcInFlight,
         NEW to \in PcInFlight \cup {"done"}, GoTo(s, from, to)
  PROVE  session' \in [Sessions -> Handlers]
<1>1. Returned \in Handlers
  BY DEF Returned, Handlers, Snapshots
<1>2. [session[s] EXCEPT !.pc = to] \in Handlers
  BY DEF TypeOK, Handlers
<1> QED
  BY <1>1, <1>2 DEF TypeOK, GoTo

\* The tables keep their types in every step.  What is executed for a handler
\* is well typed because a handler in flight has a user and a target.
LEMMA TypeStep ==
  ASSUME TypeOK, GateInvariant, [Next]_vars
  PROVE  TypeOK'
<1> USE DEF TypeOK
<1>1. CASE UNCHANGED vars
  BY <1>1 DEF vars
<1>2. ASSUME NEW s \in Sessions, NEW u \in Users, NEW r \in Requests,
             \/ DraftRequest(s, u, r) \/ LoadForApproval(s, u, r)
             \/ LoadForRejection(s, u, r) \/ LoadForCancellation(s, u, r)
      PROVE  TypeOK'
  <2>1. PICK pc \in PcInFlight, v \in Users : Begin(s, pc, v, r)
    BY <1>2, UsersAssumption
       DEF DraftRequest, LoadForApproval, LoadForRejection,
           LoadForCancellation, RequesterIdentity, PcInFlight
  <2>2. session' \in [Sessions -> Handlers]
    BY <2>1, BeginTyped DEF Actions
  <2> QED
    BY <1>2, <2>2
       DEF DraftRequest, LoadForApproval, LoadForRejection, LoadForCancellation
<1>3. ASSUME NEW s \in Sessions, NEW u \in Users, NEW a \in ActionIds,
             AdmitDirect(s, u, a)
      PROVE  TypeOK'
  <2>1. session' \in [Sessions -> Handlers]
    BY <1>3, BeginTyped DEF AdmitDirect, Actions, PcInFlight
  <2> QED
    BY <1>3, <2>1 DEF AdmitDirect
<1>4. ASSUME NEW s \in Sessions, FileRequest(s)
      PROVE  TypeOK'
  <2>1. session' \in [Sessions -> Handlers]
    BY <1>4, GoToTyped DEF FileRequest, PcInFlight
  <2>2. [status |-> "PENDING", requester |-> session[s].user,
         approver |-> NoUser, snapshot |-> session[s].base]
          \in [status : Statuses, requester : Users \cup {NoUser},
               approver : Users \cup {NoUser}, snapshot : Snapshots]
    BY DEF Handlers, Statuses
  <2> QED
    BY <1>4, <2>1, <2>2 DEF FileRequest
<1>5. ASSUME NEW s \in Sessions, Revalidate(s)
      PROVE  TypeOK'
  <2>1. session' \in [Sessions -> Handlers]
    BY <1>5, GoToTyped DEF Revalidate, PcInFlight
  <2>2. approval' \in [Requests -> [status : Statuses,
                                    requester : Users \cup {NoUser},
                                    approver : Users \cup {NoUser},
                                    snapshot : Snapshots]]
    BY <1>5 DEF Revalidate, Statuses
  <2> QED
    BY <1>5, <2>1, <2>2 DEF Revalidate
<1>6. ASSUME NEW s \in Sessions, AdmitApproved(s)
      PROVE  TypeOK'
  <2>1. SnapshotSeenBy(session[s].seen) \in Snapshots
    BY DEF SnapshotSeenBy, Snapshots, Handlers
  <2>2. [session[s] EXCEPT !.pc = "admitted",
                           !.base = SnapshotSeenBy(session[s].seen)] \in Handlers
    BY <2>1 DEF Handlers, PcInFlight
  <2>3. Returned \in Handlers
    BY DEF Returned, Handlers, Snapshots
  <2> QED
    BY <1>6, <2>2, <2>3 DEF AdmitApproved
<1>7. ASSUME NEW s \in Sessions, CommitExecution(s)
      PROVE  TypeOK'
  <2> DEFINE t == session[s].target
             new == IF t \in Neutral THEN plan ELSE plan + 1
             record == [request  |-> IF t \in Requests THEN t ELSE NoRequest,
                        action   |-> IF t \in Requests THEN FreshId ELSE t,
                        executor |-> session[s].user,
                        before   |-> session[s].base,
                        after    |-> [ver |-> session[s].seen.ver, plan |-> new]]
  <2>1. session' \in [Sessions -> Handlers]
    BY <1>7, GoToTyped DEF CommitExecution, PcInFlight
  <2>2. session[s].user \in Users /\ t \in Actions
    BY <1>7 DEF CommitExecution, GoTo, GateInvariant, HandlerOK, PcInFlight
  <2>3. new \in Nat
    OBVIOUS
  <2>4. record \in Executions
    BY <2>2, <2>3 DEF Executions, Actions, Handlers, Snapshots
  <2>5. plan' = new /\ execution' = [execution EXCEPT ![s] = record]
    BY <1>7 DEF CommitExecution
  <2> HIDE DEF new, record
  <2>6. execution' \in [Sessions -> Executions \cup {NoExecution}]
    BY <2>4, <2>5
  <2> QED
    BY <1>7, <2>1, <2>3, <2>5, <2>6 DEF CommitExecution
<1>8. ASSUME NEW s \in Sessions, FailExecution(s)
      PROVE  TypeOK'
  BY <1>8, GoToTyped DEF FailExecution, PcInFlight
<1>9. ASSUME NEW s \in Sessions,
             MarkApproved(s) \/ CommitRejection(s) \/ CommitCancellation(s)
      PROVE  TypeOK'
  <2>1. session' \in [Sessions -> Handlers]
    BY <1>9, GoToTyped
       DEF MarkApproved, CommitRejection, CommitCancellation, PcInFlight
  <2>2. session[s].user \in Users \cup {NoUser}
    BY DEF Handlers
  <2>3. approval' \in [Requests -> [status : Statuses,
                                    requester : Users \cup {NoUser},
                                    approver : Users \cup {NoUser},
                                    snapshot : Snapshots]]
    BY <1>9, <2>2
       DEF MarkApproved, CommitRejection, CommitCancellation, Statuses
  <2> QED
    BY <1>9, <2>1, <2>3 DEF MarkApproved, CommitRejection, CommitCancellation
<1>10. CASE PauseEvent \/ ResumeEvent \/ EditPlan
  BY <1>10 DEF PauseEvent, ResumeEvent, SetExecutionState, EditPlan
<1>11. CASE Crash
  <2>1. Returned \in Handlers
    BY DEF Returned, Handlers, Snapshots
  <2> QED
    BY <1>11, <2>1 DEF Crash
<1>12. CASE Quiescent
  BY <1>12 DEF Quiescent, vars
<1> QED
  BY <1>1, <1>2, <1>3, <1>4, <1>5, <1>6, <1>7, <1>8, <1>9, <1>10, <1>11, <1>12
     DEF Next, Arrive, Proceed

-----------------------------------------------------------------------------
(* The inductive invariant *)

\* A filed request keeps its requester and its snapshot ("Immutable
\* operational approval request"), and is never absent again; the event and
\* the plan only move forward.
LEMMA Monotone ==
  ASSUME TypeOK, GateInvariant, [Next]_vars
  PROVE  /\ \A r \in Requests : approval[r].status # "ABSENT" =>
              /\ approval'[r].status # "ABSENT"
              /\ approval'[r].requester = approval[r].requester
              /\ approval'[r].snapshot = approval[r].snapshot
         /\ event.ver <= event'.ver
         /\ plan <= plan'
<1> USE DEF TypeOK
<1>1. CASE UNCHANGED <<approval, event, plan>>
  BY <1>1
<1>2. ASSUME NEW s \in Sessions, FileRequest(s)
      PROVE  \A r \in Requests : approval[r].status # "ABSENT" =>
               approval'[r] = approval[r]
  <2>1. session[s].target \in Requests
        /\ approval[session[s].target].status = "ABSENT"
    BY <1>2 DEF FileRequest, GoTo, GateInvariant, HandlerOK, PcInFlight
  <2> QED
    BY <1>2, <2>1 DEF FileRequest
<1>3. ASSUME NEW s \in Sessions,
             \/ Revalidate(s) \/ MarkApproved(s)
             \/ CommitRejection(s) \/ CommitCancellation(s)
      PROVE  /\ \A r \in Requests : approval[r].status # "ABSENT" =>
                  /\ approval'[r].status # "ABSENT"
                  /\ approval'[r].requester = approval[r].requester
                  /\ approval'[r].snapshot = approval[r].snapshot
             /\ UNCHANGED <<event, plan>>
  BY <1>3 DEF Revalidate, MarkApproved, CommitRejection, CommitCancellation
<1>4. ASSUME NEW s \in Sessions, CommitExecution(s)
      PROVE  UNCHANGED <<approval, event>> /\ plan <= plan'
  BY <1>4 DEF CommitExecution
<1>5. CASE PauseEvent \/ ResumeEvent \/ EditPlan
  BY <1>5 DEF PauseEvent, ResumeEvent, SetExecutionState, EditPlan
<1>6. CASE vars' = vars \/ Crash \/ Quiescent
  BY <1>1, <1>6 DEF vars, Crash, Quiescent
<1>7. ASSUME NEW s \in Sessions,
             Arrive(s) \/ AdmitApproved(s) \/ FailExecution(s)
      PROVE  UNCHANGED <<approval, event, plan>>
  BY <1>7 DEF Arrive, DraftRequest, LoadForApproval, LoadForRejection,
              LoadForCancellation, AdmitDirect, AdmitApproved, FailExecution
<1>8. ASSUME NEW s \in Sessions, FileRequest(s)
      PROVE  UNCHANGED <<event, plan>>
  BY <1>8 DEF FileRequest
<1> QED
  BY <1>1, <1>2, <1>3, <1>4, <1>5, <1>6, <1>7, <1>8 DEF Next, Proceed

\* What a handler knows survives the steps of others: all of it speaks of
\* filed requests and of versions that only grow, except that a request being
\* drafted is still absent and nobody else's.
LEMMA Bystander ==
  ASSUME TypeOK, TypeOK', GateInvariant, [Next]_vars, NEW p \in Sessions,
         session'[p] = session[p], execution'[p] = execution[p],
         session[p].pc = "drafting" =>
           /\ approval'[session[p].target].status = "ABSENT"
           /\ \A t \in Sessions \ {p} : session'[t].pc \in PcInFlight =>
                session'[t].target # session[p].target
  PROVE  HandlerOK(p)'
<1> DEFINE h == session[p]
<1>1. HandlerOK(p)
  BY DEF GateInvariant
<1>2. /\ h \in Handlers
      /\ event.ver \in Nat /\ event'.ver \in Nat /\ plan \in Nat /\ plan' \in Nat
      /\ h.seen.ver \in Nat /\ h.base.ver \in Nat /\ h.base.plan \in Nat
      /\ \A r \in Requests : approval[r].snapshot.ver \in Nat
                           /\ approval[r].snapshot.plan \in Nat
  BY DEF TypeOK, Handlers, Snapshots
<1>3. event.ver <= event'.ver /\ plan <= plan'
  BY Monotone
<1>4. \A r \in Requests : approval[r].status # "ABSENT" =>
        /\ approval'[r].status # "ABSENT"
        /\ approval'[r].requester = approval[r].requester
        /\ approval'[r].snapshot = approval[r].snapshot
  BY Monotone
<1>5. Executed(p)' <=> Executed(p)
  BY DEF Executed
<1>6. CASE h.pc \notin PcInFlight
  BY <1>1, <1>5, <1>6 DEF HandlerOK, PcInFlight
<1>7. CASE h.pc = "drafting"
  BY <1>1, <1>2, <1>3, <1>5, <1>7 DEF HandlerOK, PcInFlight
<1>8. CASE h.pc \in {"rejecting", "cancelling"}
  BY <1>1, <1>2, <1>3, <1>4, <1>5, <1>8 DEF HandlerOK, PcInFlight
<1>9. CASE h.pc \in {"loaded", "fresh", "admitted", "executed"}
  <2>1. h.target \in Requests => approval[h.target].status # "ABSENT"
    BY <1>1, <1>9 DEF HandlerOK
  <2> QED
    BY <1>1, <1>2, <1>3, <1>4, <1>5, <1>9, <2>1
       DEF HandlerOK, PcInFlight, EligibleApprover, MayDecide
<1> QED
  BY <1>6, <1>7, <1>8, <1>9 DEF PcInFlight

\* The record of an execution stays true: its request is filed for good and
\* the plan never falls back to the request's snapshot.
LEMMA ExecutionStays ==
  ASSUME TypeOK, TypeOK', GateInvariant, [Next]_vars, NEW p \in Sessions,
         execution'[p] = execution[p]
  PROVE  ExecutionOK(p)'
<1>1. ExecutionOK(p)
  BY DEF GateInvariant
<1>2. Executed(p)' <=> Executed(p)
  BY DEF Executed
<1>3. Executed(p) => execution[p].request \in Requests \cup {NoRequest}
  BY DEF TypeOK, Executed, Executions
<1>4. plan \in Nat /\ plan' \in Nat /\ plan <= plan'
  BY Monotone DEF TypeOK
<1>5. \A r \in Requests : approval[r].snapshot.plan \in Nat
  BY DEF TypeOK, Snapshots
<1> QED
  BY <1>1, <1>2, <1>3, <1>4, <1>5, Monotone DEF ExecutionOK

\* A filed request stays within the versions the database has reached.
LEMMA RequestStays ==
  ASSUME TypeOK, TypeOK', GateInvariant, [Next]_vars, NEW r \in Requests,
         approval[r].status # "ABSENT"
  PROVE  RequestOK(r)'
<1>1. RequestOK(r)
  BY DEF GateInvariant
<1>2. /\ plan \in Nat /\ plan' \in Nat
      /\ event.ver \in Nat /\ event'.ver \in Nat
      /\ approval[r].snapshot.ver \in Nat /\ approval[r].snapshot.plan \in Nat
  BY DEF TypeOK, Snapshots
<1> QED
  BY <1>1, <1>2, Monotone DEF RequestOK

\* A handler that moves on keeps its user, its target and the event it saw.
LEMMA GoToShape ==
  ASSUME TypeOK, NEW s \in Sessions, NEW from, NEW to, GoTo(s, from, to)
  PROVE  /\ session[s].pc = from
         /\ to = "done" => session'[s] = Returned
         /\ to # "done" => /\ session'[s].pc = to
                           /\ session'[s].user = session[s].user
                           /\ session'[s].target = session[s].target
                           /\ session'[s].seen = session[s].seen
                           /\ session'[s].base = session[s].base
<1>1. session'[s] = IF to = "done" THEN Returned ELSE [session[s] EXCEPT !.pc = to]
  BY DEF TypeOK, GoTo
<1>2. session[s] \in Handlers
  BY DEF TypeOK
<1>3. /\ [session[s] EXCEPT !.pc = to].pc = to
      /\ [session[s] EXCEPT !.pc = to].user = session[s].user
      /\ [session[s] EXCEPT !.pc = to].target = session[s].target
      /\ [session[s] EXCEPT !.pc = to].seen = session[s].seen
      /\ [session[s] EXCEPT !.pc = to].base = session[s].base
  BY <1>2 DEF Handlers
<1> QED
  BY <1>1, <1>3 DEF GoTo

\* What an admission writes.
LEMMA AdmitShape ==
  ASSUME TypeOK, NEW s \in Sessions, AdmitApproved(s)
  PROVE  /\ session[s].pc = "fresh"
         /\ \/ session'[s] = Returned
            \/ /\ session'[s].pc = "admitted"
               /\ session'[s].user = session[s].user
               /\ session'[s].target = session[s].target
               /\ session'[s].seen = session[s].seen
<1> DEFINE h == [session[s] EXCEPT !.pc = "admitted",
                                   !.base = SnapshotSeenBy(session[s].seen)]
<1>1. session'[s] = IF session[s].seen.exec = "PAUSED" THEN Returned ELSE h
  BY DEF TypeOK, AdmitApproved
<1>2. session[s] \in Handlers
  BY DEF TypeOK
<1>3. /\ h.pc = "admitted" /\ h.user = session[s].user
      /\ h.target = session[s].target /\ h.seen = session[s].seen
  BY <1>2 DEF Handlers
<1> QED
  BY <1>1, <1>3 DEF AdmitApproved

\* A step of session s leaves the others alone, and what they draft with them.
LEMMA OthersUntouched ==
  ASSUME TypeOK, GateInvariant, NEW s \in Sessions, Arrive(s) \/ Proceed(s),
         NEW p \in Sessions \ {s}
  PROVE  /\ session'[p] = session[p]
         /\ execution'[p] = execution[p]
         /\ session[p].pc = "drafting" =>
              /\ approval'[session[p].target].status = "ABSENT"
              /\ \A t \in Sessions \ {p} : session'[t].pc \in PcInFlight =>
                   session'[t].target # session[p].target
<1> DEFINE r == session[p].target
<1>1. session'[p] = session[p]
  BY DEF TypeOK, Arrive, Proceed, DraftRequest, LoadForApproval,
         LoadForRejection, LoadForCancellation, AdmitDirect, Begin, FileRequest,
         Revalidate, AdmitApproved, CommitExecution, FailExecution, MarkApproved,
         CommitRejection, CommitCancellation, GoTo
<1>2. execution'[p] = execution[p]
  BY DEF TypeOK, Arrive, Proceed, DraftRequest, LoadForApproval,
         LoadForRejection, LoadForCancellation, AdmitDirect, FileRequest,
         Revalidate, AdmitApproved, CommitExecution, FailExecution, MarkApproved,
         CommitRejection, CommitCancellation
<1>3. ASSUME session[p].pc = "drafting"
      PROVE  /\ approval'[r].status = "ABSENT"
             /\ \A t \in Sessions \ {p} :
                  session'[t].pc \in PcInFlight => session'[t].target # r
  <2>1. /\ r \in Requests
        /\ approval[r].status = "ABSENT"
        /\ p \in InFlight
        /\ \A t \in Sessions \ {p} :
             session[t].pc \in PcInFlight => session[t].target # r
    BY <1>3 DEF GateInvariant, HandlerOK, InFlight, PcInFlight
  <2>2. CASE Arrive(s)
    <3>1. PICK pc \in PcInFlight, u \in Users, t \in Actions :
            Begin(s, pc, u, t) /\ t # r /\ UNCHANGED approval
      BY <2>1, <2>2, UsersAssumption, ActionsAssumption
         DEF Arrive, DraftRequest, LoadForApproval, LoadForRejection,
             LoadForCancellation, AdmitDirect, RequesterIdentity, PcInFlight,
             Actions
    <3>2. \A q \in Sessions \ {s} : session'[q] = session[q]
      BY <3>1 DEF Begin, TypeOK
    <3>3. session'[s].target = t
      BY <3>1 DEF Begin, TypeOK
    <3> QED
      BY <2>1, <3>1, <3>2, <3>3
  <2>3. CASE Proceed(s)
    <3>1. session[s].pc \in PcInFlight /\ session[s].target # r
      BY <2>1, <2>3
         DEF Proceed, FileRequest, Revalidate, AdmitApproved, CommitExecution,
             FailExecution, MarkApproved, CommitRejection, CommitCancellation,
             GoTo, PcInFlight
    <3>2. approval'[r] = approval[r]
      BY <2>1, <2>3, <3>1
         DEF TypeOK, Proceed, FileRequest, Revalidate, AdmitApproved,
             CommitExecution, FailExecution, MarkApproved, CommitRejection,
             CommitCancellation
    <3>3. \/ session'[s] = Returned
          \/ session'[s].target = session[s].target
      BY <2>3, GoToShape, AdmitShape
         DEF Proceed, FileRequest, Revalidate, CommitExecution, FailExecution,
             MarkApproved, CommitRejection, CommitCancellation
    <3>4. \A q \in Sessions \ {s} : session'[q] = session[q]
      BY <2>3
         DEF TypeOK, Proceed, FileRequest, Revalidate, AdmitApproved,
             CommitExecution, FailExecution, MarkApproved, CommitRejection,
             CommitCancellation, GoTo
    <3>5. Returned.pc \notin PcInFlight
      BY DEF Returned, PcInFlight
    <3> QED
      BY <2>1, <3>1, <3>2, <3>3, <3>4, <3>5
  <2> QED
    BY <2>2, <2>3
<1> QED
  BY <1>1, <1>2, <1>3

\* The invariant survives the arrival of a request ...
LEMMA ArriveKeeps ==
  ASSUME TypeOK, TypeOK', GateInvariant, NEW s \in Sessions, Arrive(s)
  PROVE  HandlerOK(s)' /\ UNCHANGED <<approval, execution>>
<1> USE DEF TypeOK
<1>1. /\ ~Executed(s)
      /\ Executed(s)' <=> Executed(s)
      /\ UNCHANGED <<approval, event, plan, execution>>
  BY DEF GateInvariant, HandlerOK, Executed, Arrive, DraftRequest,
         LoadForApproval, LoadForRejection, LoadForCancellation, AdmitDirect,
         Begin
<1>2. event.ver \in Nat /\ plan \in Nat
  OBVIOUS
<1>3. ASSUME NEW u \in Users, NEW r \in Requests, DraftRequest(s, u, r)
      PROVE  HandlerOK(s)'
  <2> DEFINE h == [pc |-> "drafting", user |-> RequesterIdentity(u), target |-> r,
                   seen |-> event, base |-> SnapshotSeenBy(event)]
  <2>1. session'[s] = h /\ \A t \in Sessions \ {s} : session'[t] = session[t]
    BY <1>3 DEF DraftRequest, Begin
  <2>2. RequesterIdentity(u) \in Users
    BY UsersAssumption DEF RequesterIdentity
  <2>3. approval[r].status = "ABSENT" /\ \A t \in InFlight : session[t].target # r
    BY <1>3 DEF DraftRequest
  <2> QED
    BY <1>1, <1>2, <2>1, <2>2, <2>3
       DEF HandlerOK, InFlight, PcInFlight, Actions, SnapshotSeenBy
<1>4. ASSUME NEW u \in Users, NEW r \in Requests, LoadForApproval(s, u, r)
      PROVE  HandlerOK(s)'
  <2>1. session'[s] = [pc |-> "loaded", user |-> u, target |-> r, seen |-> event,
                       base |-> SnapshotSeenBy(event)]
    BY <1>4 DEF LoadForApproval, Begin
  <2>2. /\ approval[r].status = "PENDING"
        /\ u # approval[r].requester \/ u = Anonymous
        /\ EligibleApprover(u, r)
    BY <1>4 DEF LoadForApproval
  <2>3. approval[r].snapshot.ver <= event.ver
    BY <2>2 DEF GateInvariant, RequestOK
  <2> QED
    BY <1>1, <1>2, <2>1, <2>2, <2>3
       DEF HandlerOK, PcInFlight, Actions, EligibleApprover, MayDecide
<1>5. ASSUME NEW u \in Users, NEW r \in Requests,
             LoadForRejection(s, u, r) \/ LoadForCancellation(s, u, r)
      PROVE  HandlerOK(s)'
  <2>1. PICK pc \in {"rejecting", "cancelling"} :
          session'[s] = [pc |-> pc, user |-> u, target |-> r, seen |-> event,
                         base |-> SnapshotSeenBy(event)]
    BY <1>5 DEF LoadForRejection, LoadForCancellation, Begin
  <2>2. approval[r].status = "PENDING"
    BY <1>5 DEF LoadForRejection, LoadForCancellation
  <2> QED
    BY <1>1, <1>2, <2>1, <2>2 DEF HandlerOK, PcInFlight, Actions
<1>6. ASSUME NEW u \in Users, NEW a \in ActionIds, AdmitDirect(s, u, a)
      PROVE  HandlerOK(s)'
  <2>1. session'[s] = [pc |-> "admitted", user |-> u, target |-> a,
                       seen |-> event, base |-> SnapshotSeenBy(event)]
    BY <1>6 DEF AdmitDirect, Begin
  <2> QED
    BY <1>1, <1>2, <2>1, ActionsAssumption DEF HandlerOK, PcInFlight, Actions
<1> QED
  BY <1>1, <1>3, <1>4, <1>5, <1>6 DEF Arrive

\* A handler that has returned knows nothing.
LEMMA ReturnedOK ==
  ASSUME NEW s \in Sessions, session'[s] = Returned
  PROVE  HandlerOK(s)'
BY DEF Returned, HandlerOK, PcInFlight

\* ... and every further step of its handler.
LEMMA ProceedKeeps ==
  ASSUME TypeOK, TypeOK', GateInvariant, [Next]_vars,
         NEW s \in Sessions, Proceed(s)
  PROVE  /\ HandlerOK(s)'
         /\ ExecutionOK(s)'
         /\ \A r \in Requests : approval[r].status = "ABSENT" => RequestOK(r)'
<1> DEFINE h == session[s]
           r == session[s].target
<1>1. HandlerOK(s) /\ ExecutionOK(s)
  BY DEF GateInvariant
<1>2. /\ h \in Handlers
      /\ event.ver \in Nat /\ event'.ver \in Nat /\ plan \in Nat /\ plan' \in Nat
      /\ h.seen.ver \in Nat /\ h.base.ver \in Nat /\ h.base.plan \in Nat
      /\ \A q \in Requests : approval[q].snapshot.ver \in Nat
                           /\ approval[q].snapshot.plan \in Nat
  BY DEF TypeOK, Handlers, Snapshots
<1>3. ASSUME execution'[s] = execution[s]
      PROVE  ExecutionOK(s)'
  BY <1>3, ExecutionStays
<1>4. ASSUME UNCHANGED approval
      PROVE  \A q \in Requests : approval[q].status = "ABSENT" => RequestOK(q)'
  BY <1>4 DEF RequestOK
<1>5. CASE FileRequest(s)
  <2>1. session'[s] = Returned
    BY <1>5, GoToShape DEF FileRequest
  <2>2. /\ r \in Requests /\ approval' = [approval EXCEPT ![r] =
             [status |-> "PENDING", requester |-> h.user,
              approver |-> NoUser, snapshot |-> h.base]]
        /\ h.base.ver <= event.ver /\ h.base.plan <= plan
        /\ UNCHANGED <<event, plan, execution>>
    BY <1>1, <1>5 DEF FileRequest, GoTo, HandlerOK, PcInFlight
  <2>3. \A q \in Requests : approval[q].status = "ABSENT" => RequestOK(q)'
    BY <2>2 DEF TypeOK, RequestOK
  <2> QED
    BY <1>3, <2>1, <2>2, <2>3, ReturnedOK
<1>6. CASE Revalidate(s)
  <2>1. /\ h.pc = "loaded" /\ UNCHANGED <<event, plan, execution>>
    BY <1>6 DEF Revalidate, GoTo
  <2>2. r \in Requests /\ approval[r].status # "ABSENT"
    BY <1>1, <2>1 DEF HandlerOK, PcInFlight
  <2>3. \A q \in Requests : approval[q].status = "ABSENT" => RequestOK(q)'
    BY <1>6, <2>2 DEF TypeOK, Revalidate, RequestOK
  <2>4. CASE session'[s] = Returned
    BY <1>3, <2>1, <2>3, <2>4, ReturnedOK
  <2>5. CASE session'[s] # Returned
    <3>1. /\ approval[r].snapshot = SnapshotSeenBy(h.seen)
          /\ UNCHANGED approval
          /\ GoTo(s, "loaded", "fresh")
      BY <1>6, <2>5, GoToShape DEF Revalidate
    <3>2. /\ session'[s].pc = "fresh" /\ session'[s].user = h.user
          /\ session'[s].target = r /\ session'[s].seen = h.seen
      BY <3>1, GoToShape
    <3>3. approval[r].snapshot.plan = plan
      BY <3>1 DEF SnapshotSeenBy
    <3>4. HandlerOK(s)'
      BY <1>1, <1>2, <2>1, <2>2, <3>1, <3>2, <3>3
         DEF HandlerOK, PcInFlight, Executed, EligibleApprover, MayDecide
    <3> QED
      BY <1>3, <2>1, <2>3, <3>4
  <2> QED
    BY <2>4, <2>5
<1>7. CASE AdmitApproved(s)
  <2>1. UNCHANGED <<approval, event, plan, execution>> /\ h.pc = "fresh"
    BY <1>7 DEF AdmitApproved
  <2>2. CASE session'[s] = Returned
    BY <1>3, <1>4, <2>1, <2>2, ReturnedOK
  <2>3. CASE session'[s] # Returned
    <3>1. /\ session'[s].pc = "admitted" /\ session'[s].user = h.user
          /\ session'[s].target = r /\ session'[s].seen = h.seen
      BY <1>7, <2>3, AdmitShape
    <3>2. HandlerOK(s)'
      BY <1>1, <1>2, <2>1, <3>1
         DEF HandlerOK, PcInFlight, Executed, EligibleApprover, MayDecide
    <3> QED
      BY <1>3, <1>4, <2>1, <3>2
  <2> QED
    BY <2>2, <2>3
<1>8. CASE CommitExecution(s)
  <2>1. /\ h.pc = "admitted" /\ r \in Actions /\ h.user \in Users
        /\ UNCHANGED <<approval, event>>
        /\ plan' = IF r \in Neutral THEN plan ELSE plan + 1
    BY <1>1, <1>8 DEF CommitExecution, GoTo, HandlerOK, PcInFlight
  <2>2. /\ Executed(s)'
        /\ execution'[s].request = IF r \in Requests THEN r ELSE NoRequest
        /\ execution'[s].executor = h.user
    <3> DEFINE record == [request  |-> IF r \in Requests THEN r ELSE NoRequest,
                          action   |-> IF r \in Requests THEN FreshId ELSE r,
                          executor |-> h.user,
                          before   |-> h.base,
                          after    |-> [ver |-> h.seen.ver, plan |-> plan']]
    <3>1. execution' = [execution EXCEPT ![s] = record]
      BY <1>8 DEF CommitExecution
    <3>2. record \in Executions
      BY <1>2, <2>1 DEF Executions, Handlers, Snapshots, Actions
    <3>3. execution'[s] = record
      BY <3>1 DEF TypeOK
    <3> QED
      BY <3>2, <3>3, NoExecutionAssumption DEF Executed
  <2>3. r \in Requests => /\ approval[r].status # "ABSENT"
                          /\ approval[r].snapshot.plan <= plan
    BY <1>1, <2>1 DEF HandlerOK
  <2>4. ExecutionOK(s)'
    BY <1>2, <2>1, <2>2, <2>3, ActionsAssumption DEF ExecutionOK, Actions
  <2>5. CASE r \in Requests
    <3>1. /\ session'[s].pc = "executed" /\ session'[s].user = h.user
          /\ session'[s].target = r /\ session'[s].seen = h.seen
      BY <1>8, <2>5, GoToShape DEF CommitExecution
    <3>2. HandlerOK(s)'
      BY <1>1, <1>2, <2>1, <2>2, <2>3, <2>5, <3>1
         DEF HandlerOK, PcInFlight, EligibleApprover, MayDecide
    <3> QED
      BY <1>4, <2>1, <2>4, <3>2
  <2>6. CASE r \notin Requests
    <3>1. session'[s] = Returned
      BY <1>8, <2>6, GoToShape DEF CommitExecution
    <3> QED
      BY <1>4, <2>1, <2>4, <3>1, ReturnedOK
  <2> QED
    BY <2>5, <2>6
<1>9. CASE FailExecution(s)
  <2>1. session'[s] = Returned /\ UNCHANGED <<approval, execution>>
    BY <1>9, GoToShape DEF FailExecution
  <2> QED
    BY <1>3, <1>4, <2>1, ReturnedOK
<1>10. CASE MarkApproved(s) \/ CommitRejection(s) \/ CommitCancellation(s)
  <2>1. session'[s] = Returned /\ UNCHANGED <<event, plan, execution>>
    BY <1>10, GoToShape DEF MarkApproved, CommitRejection, CommitCancellation
  <2>2. r \in Requests /\ approval[r].status # "ABSENT"
    BY <1>1, <1>10
       DEF HandlerOK, MarkApproved, CommitRejection, CommitCancellation, GoTo,
           PcInFlight
  <2>3. \A q \in Requests : q # r => approval'[q] = approval[q]
    BY <1>10 DEF TypeOK, MarkApproved, CommitRejection, CommitCancellation
  <2>4. \A q \in Requests : approval[q].status = "ABSENT" => RequestOK(q)'
    BY <2>2, <2>3 DEF RequestOK
  <2> QED
    BY <1>3, <2>1, <2>4, ReturnedOK
<1> QED
  BY <1>5, <1>6, <1>7, <1>8, <1>9, <1>10 DEF Proceed

\* The invariant is inductive.
LEMMA GateStep ==
  ASSUME TypeOK, TypeOK', GateInvariant, [Next]_vars
  PROVE  GateInvariant'
<1>1. CASE UNCHANGED <<approval, execution, session>>
  <2>1. \A p \in Sessions : HandlerOK(p)'
    <3> SUFFICES ASSUME NEW p \in Sessions PROVE HandlerOK(p)'
      OBVIOUS
    <3>1. session[p].pc = "drafting" =>
            /\ approval[session[p].target].status = "ABSENT"
            /\ \A t \in Sessions \ {p} : session[t].pc \in PcInFlight =>
                 session[t].target # session[p].target
      BY DEF GateInvariant, HandlerOK
    <3> QED
      BY <1>1, <3>1, Bystander
  <2>2. \A p \in Sessions : ExecutionOK(p)'
    BY <1>1, ExecutionStays
  <2>3. \A r \in Requests : RequestOK(r)'
    BY <1>1, RequestStays DEF RequestOK
  <2> QED
    BY <2>1, <2>2, <2>3 DEF GateInvariant
<1>2. ASSUME NEW s \in Sessions, Arrive(s)
      PROVE  GateInvariant'
  <2>1. HandlerOK(s)' /\ UNCHANGED <<approval, execution>>
    BY <1>2, ArriveKeeps
  <2>2. \A p \in Sessions \ {s} : HandlerOK(p)'
    BY <1>2, OthersUntouched, Bystander
  <2>3. \A p \in Sessions : ExecutionOK(p)'
    BY <2>1, ExecutionStays
  <2>4. \A r \in Requests : RequestOK(r)'
    BY <2>1, RequestStays DEF RequestOK
  <2> QED
    BY <2>1, <2>2, <2>3, <2>4 DEF GateInvariant
<1>3. ASSUME NEW s \in Sessions, Proceed(s)
      PROVE  GateInvariant'
  <2>1. \A p \in Sessions \ {s} : HandlerOK(p)' /\ ExecutionOK(p)'
    BY <1>3, OthersUntouched, Bystander, ExecutionStays
  <2>2. HandlerOK(s)' /\ ExecutionOK(s)'
    BY <1>3, ProceedKeeps
  <2>3. \A r \in Requests : RequestOK(r)'
    BY <1>3, ProceedKeeps, RequestStays
  <2> QED
    BY <2>1, <2>2, <2>3 DEF GateInvariant
<1>4. CASE PauseEvent \/ ResumeEvent \/ EditPlan
  BY <1>1, <1>4 DEF PauseEvent, ResumeEvent, SetExecutionState, EditPlan
<1>5. CASE Crash
  <2>1. /\ UNCHANGED <<approval, event, plan, execution>>
        /\ \A p \in Sessions : session'[p] = IF p \in InFlight THEN Returned
                                           ELSE session[p]
    BY <1>5 DEF Crash
  <2>2. \A p \in Sessions : HandlerOK(p)'
    <3> SUFFICES ASSUME NEW p \in Sessions PROVE HandlerOK(p)'
      OBVIOUS
    <3>1. CASE p \in InFlight
      BY <2>1, <3>1, ReturnedOK
    <3>2. CASE p \notin InFlight
      <4>1. session'[p] = session[p] /\ session[p].pc # "drafting"
        BY <2>1, <3>2 DEF InFlight, PcInFlight
      <4> QED
        BY <2>1, <4>1, Bystander
    <3> QED
      BY <3>1, <3>2
  <2>3. \A p \in Sessions : ExecutionOK(p)'
    BY <2>1, ExecutionStays
  <2>4. \A r \in Requests : RequestOK(r)'
    BY <2>1, RequestStays DEF RequestOK
  <2> QED
    BY <2>2, <2>3, <2>4 DEF GateInvariant
<1>6. CASE UNCHANGED vars \/ Quiescent
  BY <1>1, <1>6 DEF vars, Quiescent
<1> QED
  BY <1>2, <1>3, <1>4, <1>5, <1>6 DEF Next

\* The gate's tables are well typed, and GateInvariant holds, in every
\* reachable state, whatever the users, requests, sessions and bounds are.
THEOREM GateSafe == Spec => []TypeOK /\ []GateInvariant
<1>1. Init => TypeOK
  BY DEF Init, TypeOK, Statuses, Snapshots, Handlers
<1>2. Init => GateInvariant
  BY DEF Init, GateInvariant, HandlerOK, ExecutionOK, RequestOK, Executed,
         PcInFlight
<1>3. TypeOK /\ GateInvariant /\ [Next]_vars => (TypeOK /\ GateInvariant)'
  <2> SUFFICES ASSUME TypeOK, GateInvariant, [Next]_vars
               PROVE  TypeOK' /\ GateInvariant'
    OBVIOUS
  <2>1. TypeOK'
    BY TypeStep
  <2> QED
    BY <2>1, GateStep
<1> QED
  BY <1>1, <1>2, <1>3, PTL DEF Spec

-----------------------------------------------------------------------------
(* The properties *)

\* An execution is recorded for good, by the one session that commits it.
LEMMA ExecutionKept ==
  ASSUME TypeOK, GateInvariant, [Next]_vars, NEW s \in Sessions, Executed(s)
  PROVE  execution'[s] = execution[s]
<1>1. ASSUME NEW p \in Sessions, CommitExecution(p)
      PROVE  execution'[s] = execution[s]
  <2>1. p # s
    BY <1>1 DEF GateInvariant, HandlerOK, CommitExecution, GoTo, PcInFlight
  <2> QED
    BY <1>1, <2>1 DEF CommitExecution, TypeOK
<1> QED
  BY <1>1 DEF Next, vars, Arrive, Proceed, DraftRequest, LoadForApproval,
       LoadForRejection, LoadForCancellation, AdmitDirect, FileRequest,
       Revalidate, AdmitApproved, FailExecution, MarkApproved, CommitRejection,
       CommitCancellation, PauseEvent, ResumeEvent, SetExecutionState, EditPlan,
       Crash, Quiescent

\* A session that records an execution is the one that commits it.
LEMMA ExecutionNew ==
  ASSUME TypeOK, [Next]_vars, NEW s \in Sessions, ~Executed(s), Executed(s)'
  PROVE  CommitExecution(s)
<1>1. ASSUME NEW p \in Sessions, CommitExecution(p), p # s
      PROVE  execution'[s] = execution[s]
  BY <1>1 DEF CommitExecution, TypeOK
<1>2. execution'[s] # execution[s]
  BY DEF Executed
<1> QED
  BY <1>1, <1>2 DEF Next, vars, Arrive, Proceed, DraftRequest, LoadForApproval,
       LoadForRejection, LoadForCancellation, AdmitDirect, FileRequest,
       Revalidate, AdmitApproved, FailExecution, MarkApproved, CommitRejection,
       CommitCancellation, PauseEvent, ResumeEvent, SetExecutionState, EditPlan,
       Crash, Quiescent

\* What a commit records.
LEMMA CommitRecord ==
  ASSUME TypeOK, GateInvariant, NEW s \in Sessions, CommitExecution(s)
  PROVE  /\ session[s].pc = "admitted"
         /\ execution'[s].executor = session[s].user
         /\ IF session[s].target \in Requests
            THEN /\ execution'[s].request = session[s].target
                 /\ execution'[s].action = FreshId
            ELSE /\ execution'[s].request = NoRequest
                 /\ execution'[s].action = session[s].target
BY DEF TypeOK, CommitExecution, GoTo

\* Who writes the row of a request.
LEMMA RowWriter ==
  ASSUME TypeOK, [Next]_vars, NEW r \in Requests, approval'[r] # approval[r]
  PROVE  \E s \in Sessions :
           /\ session[s].target = r
           /\ \/ FileRequest(s) \/ Revalidate(s) \/ MarkApproved(s)
              \/ CommitRejection(s) \/ CommitCancellation(s)
<1>1. ASSUME NEW s \in Sessions, session[s].target # r,
             \/ FileRequest(s) \/ Revalidate(s) \/ MarkApproved(s)
             \/ CommitRejection(s) \/ CommitCancellation(s)
      PROVE  FALSE
  BY <1>1 DEF TypeOK, FileRequest, Revalidate, MarkApproved, CommitRejection,
              CommitCancellation
<1>2. ASSUME NEW s \in Sessions,
             \/ Arrive(s) \/ AdmitApproved(s) \/ CommitExecution(s)
             \/ FailExecution(s)
      PROVE  FALSE
  BY <1>2 DEF Arrive, DraftRequest, LoadForApproval, LoadForRejection,
              LoadForCancellation, AdmitDirect, AdmitApproved, CommitExecution,
              FailExecution
<1>3. CASE PauseEvent \/ ResumeEvent \/ EditPlan \/ Crash \/ Quiescent \/ UNCHANGED vars
  BY <1>3 DEF PauseEvent, ResumeEvent, SetExecutionState, EditPlan, Crash,
              Quiescent, vars
<1> QED
  BY <1>1, <1>2, <1>3 DEF Next, Proceed

\* What each of them writes.
LEMMA RowWritten ==
  ASSUME TypeOK, NEW s \in Sessions, NEW r \in Requests, session[s].target = r
  PROVE  /\ FileRequest(s) => approval'[r].status = "PENDING"
         /\ Revalidate(s) /\ approval'[r] # approval[r] =>
              approval'[r].status = "STALE"
         /\ MarkApproved(s) => approval'[r].status = "APPROVED"
         /\ CommitRejection(s) => approval'[r].status = "REJECTED"
         /\ CommitCancellation(s) => approval'[r].status = "CANCELLED"
BY DEF TypeOK, FileRequest, Revalidate, MarkApproved, CommitRejection,
       CommitCancellation

\* An approved request was executed by the approver it names: approve marks
\* the request only after the execution was committed, and what another
\* request writes over the row before that does not touch the execution.
THEOREM ApprovedExecuted == Spec => []ApprovedMeansExecuted
<1>1. Init => ApprovedMeansExecuted
  BY DEF Init, ApprovedMeansExecuted
<1>2. ASSUME TypeOK, GateInvariant, ApprovedMeansExecuted, [Next]_vars
      PROVE  ApprovedMeansExecuted'
  <2> SUFFICES ASSUME NEW r \in Requests, approval'[r].status = "APPROVED"
               PROVE  \E s \in Sessions :
                        /\ Executed(s)'
                        /\ execution'[s].request = r
                        /\ execution'[s].executor = approval'[r].approver
    BY <1>2 DEF ApprovedMeansExecuted, Executed
  <2>1. CASE /\ approval[r].status = "APPROVED"
             /\ approval'[r].approver = approval[r].approver
    <3>1. PICK s \in Sessions : /\ Executed(s) /\ execution[s].request = r
                                /\ execution[s].executor = approval[r].approver
      BY <1>2, <2>1 DEF ApprovedMeansExecuted
    <3> QED
      BY <1>2, <2>1, <3>1, ExecutionKept DEF Executed
  <2>2. CASE ~(/\ approval[r].status = "APPROVED"
               /\ approval'[r].approver = approval[r].approver)
    <3>1. PICK s \in Sessions : MarkApproved(s) /\ session[s].target = r
      BY <1>2, <2>2, RowWriter, RowWritten
    <3>2. /\ Executed(s) /\ execution[s].request = r
          /\ execution[s].executor = session[s].user
      BY <1>2, <3>1 DEF GateInvariant, HandlerOK, MarkApproved, GoTo
    <3>3. approval'[r].approver = session[s].user /\ UNCHANGED execution
      BY <1>2, <3>1 DEF TypeOK, MarkApproved
    <3> QED
      BY <1>2, <3>2, <3>3 DEF Executed
  <2> QED
    BY <1>2, <2>1, <2>2
<1> QED
  BY <1>1, <1>2, GateSafe, PTL DEF Spec

\* Separation of duties and eligibility hold of every execution, for any
\* assignment of roles: the guards of approve are checked long before the
\* commit, on facts of the request that no operation changes.
THEOREM DutiesKeptApart == Spec => []DutiesSeparated
<1>1. Init => DutiesSeparated
  BY DEF Init, DutiesSeparated, Executed
<1>2. ASSUME TypeOK, TypeOK', GateInvariant, DutiesSeparated, [Next]_vars
      PROVE  DutiesSeparated'
  <2> SUFFICES ASSUME NEW s \in Sessions, Executed(s)',
                      execution'[s].request # NoRequest
               PROVE  /\ \/ execution'[s].executor #
                              approval'[execution'[s].request].requester
                         \/ execution'[s].executor = Anonymous
                      /\ EligibleApprover(execution'[s].executor,
                                          execution'[s].request)
    BY <1>2 DEF DutiesSeparated, EligibleApprover, MayDecide
  <2> DEFINE r == execution'[s].request
  <2>1. r \in Requests
    BY <1>2 DEF TypeOK, Executed, Executions
  <2>2. CASE Executed(s)
    <3>1. execution'[s] = execution[s]
      BY <1>2, <2>2, ExecutionKept
    <3>2. approval[r].status # "ABSENT"
      BY <1>2, <2>2, <3>1 DEF GateInvariant, ExecutionOK
    <3>3. approval'[r].requester = approval[r].requester
      BY <1>2, <2>1, <3>2, Monotone
    <3> QED
      BY <1>2, <2>2, <3>1, <3>3 DEF DutiesSeparated
  <2>3. CASE ~Executed(s)
    <3>1. CommitExecution(s)
      BY <1>2, <2>3, ExecutionNew
    <3>2. /\ session[s].pc = "admitted" /\ session[s].target = r
          /\ execution'[s].executor = session[s].user
      BY <1>2, <3>1, CommitRecord
    <3>3. UNCHANGED approval
      BY <1>2, <3>1 DEF CommitExecution
    <3> QED
      BY <1>2, <2>1, <3>2, <3>3 DEF GateInvariant, HandlerOK
  <2> QED
    BY <1>2, <2>2, <2>3
<1> QED
  BY <1>1, <1>2, GateSafe, PTL DEF Spec

\* A client's action id is executed once, however often it is sent.
THEOREM ActionIdOnce == Spec => []ActionIdExecutedOnce
<1>1. Init => ActionIdExecutedOnce
  BY DEF Init, ActionIdExecutedOnce, Executed
<1>2. ASSUME TypeOK, GateInvariant, ActionIdExecutedOnce, [Next]_vars
      PROVE  ActionIdExecutedOnce'
  <2>1. ASSUME NEW s \in Sessions, NEW t \in Sessions, s # t,
               Executed(s)', Executed(t)', ~Executed(s),
               execution'[s].action = execution'[t].action,
               execution'[s].action \in ActionIds
        PROVE  FALSE
    <3>1. CommitExecution(s)
      BY <1>2, <2>1, ExecutionNew
    <3>2. /\ session[s].target \notin Requests
          /\ execution'[s].action = session[s].target
      BY <1>2, <2>1, <3>1, CommitRecord, ActionsAssumption
    <3>3. execution'[t] = execution[t]
      BY <1>2, <2>1, <3>1 DEF CommitExecution, TypeOK
    <3>4. execution[t].action # session[s].target
      BY <1>2, <2>1, <3>1, <3>2, <3>3 DEF CommitExecution, Executed
    <3> QED
      BY <1>2, <2>1, <3>2, <3>3, <3>4
  <2>2. \A s \in Sessions : Executed(s) => execution'[s] = execution[s]
    BY <1>2, ExecutionKept
  <2> QED
    BY <1>2, <2>1, <2>2 DEF ActionIdExecutedOnce, Executed
<1> QED
  BY <1>1, <1>2, GateSafe, PTL DEF Spec

\* A request goes stale only when the event or the plan moved: the event row
\* that approve holds is never older than the request.
THEOREM StaleIsJustified == Spec => StaleJustified
<1> DEFINE Justified == \A r \in Requests :
             approval[r].status # "STALE" /\ approval'[r].status = "STALE" =>
               approval[r].snapshot # SnapshotSeenBy(event)
<1>1. ASSUME TypeOK, GateInvariant, [Next]_vars
      PROVE  Justified
  <2> SUFFICES ASSUME NEW r \in Requests, approval[r].status # "STALE",
                      approval'[r].status = "STALE"
               PROVE  approval[r].snapshot # SnapshotSeenBy(event)
    OBVIOUS
  <2>1. PICK s \in Sessions : Revalidate(s) /\ session[s].target = r
    BY <1>1, RowWriter, RowWritten
  <2>2. approval[r].snapshot # SnapshotSeenBy(session[s].seen)
    BY <2>1 DEF Revalidate
  <2>3. /\ approval[r].snapshot.ver <= session[s].seen.ver
        /\ session[s].seen.ver <= event.ver
    BY <1>1, <2>1 DEF GateInvariant, HandlerOK, Revalidate, GoTo, PcInFlight
  <2>4. /\ approval[r].snapshot.ver \in Nat /\ session[s].seen.ver \in Nat
        /\ event.ver \in Nat
    BY <1>1 DEF TypeOK, Handlers, Snapshots
  <2> QED
    BY <2>2, <2>3, <2>4 DEF SnapshotSeenBy
<1> QED
  BY <1>1, GateSafe, PTL DEF Spec, StaleJustified

\* After a mutating request was executed, the snapshot comparison stops every
\* later approval of it.
THEOREM RetryBlocked == Spec => RetryBlockedBySnapshot
<1> DEFINE Blocked == \A s \in Sessions :
             /\ session[s].pc = "loaded" /\ session'[s].pc = "fresh"
             /\ session[s].target \notin Neutral
             => \A t \in Sessions :
                  Executed(t) => execution[t].request # session[s].target
<1>1. ASSUME TypeOK, GateInvariant, [Next]_vars
      PROVE  Blocked
  <2> SUFFICES ASSUME NEW s \in Sessions, NEW t \in Sessions,
                      session[s].pc = "loaded", session'[s].pc = "fresh",
                      session[s].target \notin Neutral, Executed(t),
                      execution[t].request = session[s].target
               PROVE  FALSE
    OBVIOUS
  <2> DEFINE r == session[s].target
  <2>1. r \in Requests
    BY <1>1 DEF GateInvariant, HandlerOK, PcInFlight
  <2>2. approval[r].snapshot.plan < plan
    BY <1>1, <2>1, ActionsAssumption DEF GateInvariant, ExecutionOK, Actions
  <2>3. Revalidate(s)
    <3>1. session'[s] # session[s] /\ session'[s] # Returned
      BY <1>1 DEF Returned
    <3>2. ASSUME NEW p \in Sessions, Arrive(p) \/ Proceed(p)
          PROVE  p = s /\ Proceed(s)
      <4>1. p = s
        BY <1>1, <3>1, <3>2, OthersUntouched
      <4>2. ~Arrive(s)
        BY DEF Arrive, DraftRequest, LoadForApproval, LoadForRejection,
               LoadForCancellation, AdmitDirect, Begin
      <4> QED
        BY <3>2, <4>1, <4>2
    <3>3. ~(PauseEvent \/ ResumeEvent \/ EditPlan \/ Crash \/ Quiescent)
      BY <3>1 DEF PauseEvent, ResumeEvent, SetExecutionState, EditPlan, Crash,
                  Quiescent, vars
    <3>4. Proceed(s)
      BY <1>1, <3>1, <3>2, <3>3 DEF Next, vars
    <3> QED
      BY <3>4 DEF Proceed, FileRequest, AdmitApproved, CommitExecution,
                  FailExecution, MarkApproved, CommitRejection,
                  CommitCancellation, GoTo
  <2>4. approval[r].snapshot = SnapshotSeenBy(session[s].seen)
    BY <1>1, <2>3, GoToShape DEF Revalidate, Returned
  <2>5. approval[r].snapshot.plan = plan /\ plan \in Nat
    BY <1>1, <2>4 DEF SnapshotSeenBy, TypeOK
  <2> QED
    BY <2>2, <2>5
<1> QED
  BY <1>1, GateSafe, PTL DEF Spec, RetryBlockedBySnapshot

\* The tables of the gate keep their types.
THEOREM GateTyped == Spec => []TypeOK
BY GateSafe, PTL

-----------------------------------------------------------------------------
(* One request at a time.  What a handler has read is then still true, and   *)
(* what it decided on has not been decided by anybody else.                  *)

OneAtATime == \A s, t \in InFlight : s = t

ServedAlone(s) ==
  LET h == session[s] IN
  /\ h.pc \in PcInFlight => h.seen = event
  /\ h.pc = "drafting" => h.base = SnapshotSeenBy(event)
  /\ h.pc \in {"loaded", "fresh", "executed", "rejecting", "cancelling"} =>
       approval[h.target].status = "PENDING"
  /\ h.pc = "fresh" => approval[h.target].snapshot = SnapshotSeenBy(event)
  /\ h.pc = "admitted" => event.exec = "RUNNING"
  /\ h.pc = "admitted" /\ h.target \in Requests =>
       /\ approval[h.target].status = "PENDING"
       /\ approval[h.target].snapshot = SnapshotSeenBy(event)
       /\ h.base = SnapshotSeenBy(event)

Serial == OneAtATime /\ (\A s \in Sessions : ServedAlone(s)) /\ ExecutedAsReviewed

\* When one request may be served at a time, the one that is let in is alone.
LEMMA FreeIsIdle ==
  ASSUME MaxInFlight = 1, Free
  PROVE  InFlight = {}
<1>1. IsFiniteSet(InFlight)
  BY SessionsAssumption, FS_Subset DEF InFlight
<1>2. Cardinality(InFlight) \in Nat /\ Cardinality(InFlight) < 1
  BY <1>1, FS_CardinalityType DEF Free
<1> QED
  BY <1>1, <1>2, FS_EmptySet

\* A session that is not in flight and does not move stays out of flight.
LEMMA IdleAlone ==
  ASSUME NEW p \in Sessions, session'[p] = session[p], p \notin InFlight
  PROVE  ServedAlone(p)' /\ p \notin InFlight'
BY DEF ServedAlone, InFlight, PcInFlight

\* A session that has returned is not in flight.
LEMMA ReturnedAlone ==
  ASSUME NEW p \in Sessions, session'[p] = Returned
  PROVE  ServedAlone(p)' /\ p \notin InFlight'
BY DEF ServedAlone, InFlight, PcInFlight, Returned

\* The record of an execution keeps matching the request it is for.
LEMMA ReviewedStays ==
  ASSUME TypeOK, GateInvariant, [Next]_vars, ExecutedAsReviewed,
         NEW p \in Sessions, execution'[p] = execution[p],
         Executed(p), execution[p].request # NoRequest
  PROVE  execution'[p].before = approval'[execution'[p].request].snapshot
<1>1. execution[p].request \in Requests
  BY DEF TypeOK, Executed, Executions
<1>2. approval[execution[p].request].status # "ABSENT"
  BY DEF GateInvariant, ExecutionOK
<1>3. approval'[execution[p].request].snapshot = approval[execution[p].request].snapshot
  BY <1>1, <1>2, Monotone
<1> QED
  BY <1>3 DEF ExecutedAsReviewed

\* A step that executes nothing keeps what was reviewed.
LEMMA NothingExecuted ==
  ASSUME TypeOK, GateInvariant, [Next]_vars, ExecutedAsReviewed, execution' = execution
  PROVE  ExecutedAsReviewed'
BY ReviewedStays DEF ExecutedAsReviewed, Executed

\* A handler that begins is alone with what it has just read.
LEMMA ArriveAlone ==
  ASSUME TypeOK, GateInvariant, Serial, MaxInFlight = 1, [Next]_vars,
         NEW s \in Sessions, Arrive(s)
  PROVE  Serial'
<1>1. PICK pc \in PcInFlight, u \in Users, t \in Actions :
        /\ Begin(s, pc, u, t)
        /\ UNCHANGED <<approval, event, plan, execution>>
        /\ pc \in {"loaded", "rejecting", "cancelling"} => approval[t].status = "PENDING"
        /\ pc = "admitted" => t \notin Requests /\ event.exec # "PAUSED"
        /\ pc \in {"drafting", "loaded", "rejecting", "cancelling", "admitted"}
  BY UsersAssumption, ActionsAssumption
     DEF Arrive, DraftRequest, LoadForApproval, LoadForRejection, LoadForCancellation,
         AdmitDirect, RequesterIdentity, PcInFlight, Actions
<1>2. InFlight = {}
  BY <1>1, FreeIsIdle DEF Begin
<1>3. session'[s] = [pc |-> pc, user |-> u, target |-> t, seen |-> event,
                     base |-> SnapshotSeenBy(event)]
      /\ \A p \in Sessions \ {s} : session'[p] = session[p]
  BY <1>1 DEF Begin, TypeOK
<1>4. event.exec \in {"RUNNING", "PAUSED"}
  BY DEF TypeOK
<1>5. ServedAlone(s)'
  BY <1>1, <1>3, <1>4 DEF ServedAlone, SnapshotSeenBy
<1>6. \A p \in Sessions \ {s} : ServedAlone(p)' /\ p \notin InFlight'
  BY <1>2, <1>3, IdleAlone
<1>7. OneAtATime'
  BY <1>6 DEF OneAtATime, InFlight
<1>8. ExecutedAsReviewed'
  BY <1>1, NothingExecuted DEF Serial
<1> QED
  BY <1>5, <1>6, <1>7, <1>8 DEF Serial

\* A handler that goes on, alone, finds what it has read unchanged.
LEMMA ProceedAlone ==
  ASSUME TypeOK, GateInvariant, Serial, [Next]_vars, NEW s \in Sessions, Proceed(s)
  PROVE  Serial'
<1>1. s \in InFlight /\ \A p \in Sessions \ {s} : p \notin InFlight
  BY DEF Serial, OneAtATime, InFlight, PcInFlight, Proceed, FileRequest, Revalidate,
         AdmitApproved, CommitExecution, FailExecution, MarkApproved, CommitRejection,
         CommitCancellation, GoTo
<1>2. \A p \in Sessions \ {s} : session'[p] = session[p] /\ execution'[p] = execution[p]
  BY OthersUntouched
<1>3. \A p \in Sessions \ {s} : ServedAlone(p)' /\ p \notin InFlight'
  BY <1>1, <1>2, IdleAlone
<1>4. OneAtATime'
  BY <1>3 DEF OneAtATime, InFlight
<1>5. ServedAlone(s) /\ ExecutedAsReviewed /\ HandlerOK(s)
  BY DEF Serial, GateInvariant
<1>6. ServedAlone(s)'
  <2>1. CASE session'[s] = Returned
    BY <2>1, ReturnedAlone
  <2>2. CASE session'[s] # Returned /\ Revalidate(s)
    <3>1. GoTo(s, "loaded", "fresh") /\ approval[session[s].target].snapshot =
            SnapshotSeenBy(session[s].seen) /\ UNCHANGED <<approval, event, plan>>
      BY <2>2, GoToShape DEF Revalidate
    <3>2. /\ session[s].pc = "loaded" /\ session'[s].pc = "fresh"
          /\ session'[s].target = session[s].target /\ session'[s].seen = session[s].seen
      BY <3>1, GoToShape
    <3> QED
      BY <1>5, <3>1, <3>2 DEF ServedAlone, PcInFlight, SnapshotSeenBy
  <2>3. CASE session'[s] # Returned /\ AdmitApproved(s)
    <3>1. session[s].pc = "fresh" /\ session[s] \in Handlers /\ UNCHANGED <<approval, event, plan>>
      BY <2>3 DEF AdmitApproved, TypeOK
    <3>2. session[s].seen.exec # "PAUSED" /\
          session'[s] = [session[s] EXCEPT !.pc = "admitted",
                                           !.base = SnapshotSeenBy(session[s].seen)]
      BY <2>3 DEF AdmitApproved, TypeOK
    <3>3. /\ session'[s].pc = "admitted" /\ session'[s].target = session[s].target
          /\ session'[s].seen = session[s].seen
          /\ session'[s].base = SnapshotSeenBy(session[s].seen)
      BY <3>1, <3>2 DEF Handlers
    <3>4. event.exec = "RUNNING"
      BY <1>5, <3>1, <3>2 DEF ServedAlone, PcInFlight, Handlers
    <3> QED
      BY <1>5, <3>1, <3>3, <3>4 DEF ServedAlone, PcInFlight, SnapshotSeenBy
  <2>4. CASE session'[s] # Returned /\ CommitExecution(s)
    <3>1. GoTo(s, "admitted", "executed") /\ session[s].target \in Requests
          /\ UNCHANGED <<approval, event>>
      BY <2>4, GoToShape DEF CommitExecution
    <3>2. /\ session[s].pc = "admitted" /\ session'[s].pc = "executed"
          /\ session'[s].target = session[s].target /\ session'[s].seen = session[s].seen
      BY <3>1, GoToShape
    <3> QED
      BY <1>5, <3>1, <3>2 DEF ServedAlone, PcInFlight
  <2> QED
    BY <2>1, <2>2, <2>3, <2>4, GoToShape
       DEF Proceed, FileRequest, FailExecution, MarkApproved, CommitRejection, CommitCancellation
<1>7. ExecutedAsReviewed'
  <2>1. ASSUME NEW p \in Sessions, Executed(p)', execution'[p].request # NoRequest
        PROVE  execution'[p].before = approval'[execution'[p].request].snapshot
    <3>1. CASE execution'[p] = execution[p]
      BY <1>5, <2>1, <3>1, ReviewedStays DEF Executed
    <3>2. CASE execution'[p] # execution[p]
      <4>1. p = s /\ CommitExecution(s)
        BY <1>2, <3>2 DEF Proceed, FileRequest, Revalidate, AdmitApproved, FailExecution,
           MarkApproved, CommitRejection, CommitCancellation
      <4>2. session[s].pc = "admitted" /\ session[s].target \in Requests
            /\ execution'[s].request = session[s].target
        BY <2>1, <4>1, CommitRecord
      <4>3. execution'[s].before = session[s].base /\ approval' = approval
        BY <4>1 DEF CommitExecution, TypeOK
      <4> QED
        BY <1>5, <4>1, <4>2, <4>3 DEF ServedAlone
    <3> QED
      BY <3>1, <3>2
  <2> QED
    BY <2>1 DEF ExecutedAsReviewed, Executed
<1> QED
  BY <1>3, <1>4, <1>6, <1>7 DEF Serial

\* Nothing is in flight at the start.
LEMMA SerialStarts ==
  ASSUME Init
  PROVE  Serial
BY DEF Init, Serial, OneAtATime, ServedAlone, InFlight, PcInFlight, ExecutedAsReviewed, Executed

\* No step breaks what serial sessions keep.
LEMMA SerialStep ==
  ASSUME TypeOK, GateInvariant, Serial, MaxInFlight = 1, [Next]_vars
  PROVE  Serial'
<1>1. CASE PauseEvent \/ ResumeEvent \/ EditPlan
  <2>1. InFlight = {} /\ UNCHANGED <<session, execution>>
    BY <1>1, FreeIsIdle DEF PauseEvent, ResumeEvent, SetExecutionState, EditPlan
  <2>2. \A p \in Sessions : ServedAlone(p)' /\ p \notin InFlight'
    BY <2>1, IdleAlone
  <2>3. ExecutedAsReviewed'
    BY <2>1, NothingExecuted DEF Serial
  <2> QED
    BY <2>2, <2>3 DEF Serial, OneAtATime, InFlight
<1>2. CASE Crash
  <2>1. \A p \in Sessions : \/ session'[p] = Returned
                            \/ session'[p] = session[p] /\ p \notin InFlight
    BY <1>2 DEF Crash
  <2>2. \A p \in Sessions : ServedAlone(p)' /\ p \notin InFlight'
    BY <2>1, IdleAlone, ReturnedAlone
  <2>3. ExecutedAsReviewed'
    BY <1>2, NothingExecuted DEF Serial, Crash
  <2> QED
    BY <2>2, <2>3 DEF Serial, OneAtATime, InFlight
<1>3. CASE Quiescent \/ UNCHANGED vars
  BY <1>3 DEF Quiescent, vars, Serial, OneAtATime, InFlight, ServedAlone, SnapshotSeenBy,
              ExecutedAsReviewed, Executed
<1> QED
  BY <1>1, <1>2, <1>3, ArriveAlone, ProceedAlone DEF Next

\* Handlers served one at a time decide on what is still true when they commit.
THEOREM SerialSafe ==
  ASSUME MaxInFlight = 1
  PROVE  Spec => []Serial
<1>1. TypeOK /\ GateInvariant /\ Serial /\ [Next]_vars => Serial'
  BY SerialStep
<1> QED
  BY <1>1, SerialStarts, GateSafe, PTL DEF Spec

\* When requests are served one at a time, what is executed for a request runs
\* on the state its requester filed it for, whatever crashes and is retried.
THEOREM ReviewedWhenSerial ==
  ASSUME MaxInFlight = 1
  PROVE  Spec => []ExecutedAsReviewed
BY SerialSafe, PTL DEF Serial

\* ... and nothing is executed while the event is paused, although the guard
\* looks at the event row the session read when it began.
THEOREM PausedWhenSerial ==
  ASSUME MaxInFlight = 1
  PROVE  Spec => PausedBlocksExecution
<1> DEFINE Blocked == \A s \in Sessions : ~Executed(s) /\ Executed(s)' => event.exec = "RUNNING"
<1>1. ASSUME TypeOK, GateInvariant, Serial, [Next]_vars
      PROVE  Blocked
  <2> SUFFICES ASSUME NEW s \in Sessions, ~Executed(s), Executed(s)' PROVE event.exec = "RUNNING"
    OBVIOUS
  <2>1. CommitExecution(s)
    BY <1>1, ExecutionNew
  <2>2. session[s].pc = "admitted"
    BY <1>1, <2>1, CommitRecord
  <2> QED
    BY <1>1, <2>2 DEF Serial, ServedAlone
<1> QED
  BY <1>1, GateSafe, SerialSafe, PTL DEF Spec, PausedBlocksExecution

-----------------------------------------------------------------------------
(* The gate implements ApprovalDecision: every step of a handler is a step   *)
(* of one request's decision, or changes neither status nor effects.         *)

ExecutionsFor(r) == {s \in Sessions : Executed(s) /\ execution[s].request = r}

\* The executions of a request are finitely many.
LEMMA EffectsCounted ==
  ASSUME NEW r \in Requests
  PROVE  IsFiniteSet(ExecutionsFor(r)) /\ Cardinality(ExecutionsFor(r)) \in Nat
BY SessionsAssumption, FS_Subset, FS_CardinalityType DEF ExecutionsFor

\* A step that executes nothing leaves the abstract decision as it is, or decides it.
LEMMA DecisionUnchanged ==
  ASSUME TypeOK, TypeOK', execution' = execution,
         \A r \in Requests : approval'[r].status = approval[r].status
  PROVE  UNCHANGED Decision!decision
BY DEF Decision!decision, Executed

\* A request whose status alone changes is filed, approved or closed.
LEMMA StatusChanges ==
  ASSUME TypeOK, TypeOK', execution' = execution, NEW r \in Requests,
         \A q \in Requests \ {r} : approval'[q].status = approval[q].status,
         \/ approval[r].status = "ABSENT" /\ approval'[r].status = "PENDING"
         \/ /\ approval[r].status = "PENDING"
            /\ approval'[r].status \in {"REJECTED", "CANCELLED", "STALE"}
         \/ /\ approval[r].status = "PENDING" /\ approval'[r].status = "APPROVED"
            /\ ExecutionsFor(r) # {}
  PROVE  Decision!Next
<1> DEFINE status == [q \in Requests |-> approval[q].status]
           effects == [q \in Requests |-> Cardinality({s \in Sessions : Executed(s) /\ execution[s].request = q})]
<1>1. effects' = effects
  BY DEF Executed
<1>2. status' = [status EXCEPT ![r] = approval'[r].status]
  OBVIOUS
<1>3. CASE approval[r].status = "ABSENT" /\ approval'[r].status = "PENDING"
  <2>1. Decision!File(r)
    BY <1>1, <1>2, <1>3 DEF Decision!File
  <2> QED
    BY <2>1 DEF Decision!Next
<1>4. CASE /\ approval[r].status = "PENDING"
           /\ approval'[r].status \in {"REJECTED", "CANCELLED", "STALE"}
  <2>1. Decision!Close(r)
    BY <1>1, <1>2, <1>4 DEF Decision!Close
  <2> QED
    BY <2>1 DEF Decision!Next
<1>5. CASE /\ approval[r].status = "PENDING" /\ approval'[r].status = "APPROVED"
           /\ ExecutionsFor(r) # {}
  <2>1. effects[r] > 0
    <3>1. Cardinality(ExecutionsFor(r)) # 0 /\ Cardinality(ExecutionsFor(r)) \in Nat
      BY <1>5, EffectsCounted, FS_EmptySet
    <3> QED
      BY <3>1 DEF ExecutionsFor
  <2>2. Decision!Approve(r)
    BY <1>1, <1>2, <1>5, <2>1 DEF Decision!Approve
  <2> QED
    BY <2>2 DEF Decision!Next
<1> QED
  BY <1>3, <1>4, <1>5

\* An execution takes effect for the request it is for and for no other.
LEMMA ExecutionCounts ==
  ASSUME TypeOK, TypeOK', GateInvariant, Serial, NEW s \in Sessions, CommitExecution(s)
  PROVE  Decision!Next \/ UNCHANGED Decision!decision
<1> DEFINE t == session[s].target
           status == [q \in Requests |-> approval[q].status]
           effects == [q \in Requests |-> Cardinality({p \in Sessions : Executed(p) /\ execution[p].request = q})]
<1>1. /\ session[s].pc = "admitted" /\ ~Executed(s)
      /\ execution'[s] # NoExecution
      /\ \A p \in Sessions \ {s} : execution'[p] = execution[p]
      /\ approval' = approval
  <2>1. session[s].pc = "admitted" /\ HandlerOK(s)
    BY DEF CommitExecution, GoTo, GateInvariant
  <2>2. execution'[s] \in Executions
    <3>1. session[s].user \in Users /\ t \in Actions
      BY <2>1 DEF HandlerOK, PcInFlight
    <3> DEFINE new == IF t \in Neutral THEN plan ELSE plan + 1
               record == [request  |-> IF t \in Requests THEN t ELSE NoRequest,
                          action   |-> IF t \in Requests THEN FreshId ELSE t,
                          executor |-> session[s].user,
                          before   |-> session[s].base,
                          after    |-> [ver |-> session[s].seen.ver, plan |-> new]]
    <3>2. new \in Nat
      BY DEF TypeOK
    <3>3. record \in Executions
      BY <3>1, <3>2 DEF Executions, Actions, TypeOK, Handlers, Snapshots
    <3>4. execution'[s] = record
      BY DEF CommitExecution, TypeOK
    <3> QED
      BY <3>3, <3>4
  <2> QED
    BY <2>1, <2>2, NoExecutionAssumption DEF HandlerOK, PcInFlight, CommitExecution, TypeOK
<1>2. status' = status
  BY <1>1
<1>3. CASE t \notin Requests
  <2>1. execution'[s].request = NoRequest
    BY <1>3, CommitRecord
  <2>2. \A r \in Requests : ExecutionsFor(r)' = ExecutionsFor(r)
    BY <1>1, <2>1, ActionsAssumption DEF ExecutionsFor, Executed, Actions
  <2>3. effects' = effects
    BY <2>2 DEF ExecutionsFor
  <2> QED
    BY <1>2, <2>3 DEF Decision!decision
<1>4. CASE t \in Requests
  <2>0. PICK r \in Requests : r = t
    BY <1>4
  <2>1. execution'[s].request = r
    BY <1>4, <2>0, CommitRecord
  <2>2. \A q \in Requests \ {r} : ExecutionsFor(q)' = ExecutionsFor(q)
    BY <1>1, <2>1 DEF ExecutionsFor, Executed
  <2>3. ExecutionsFor(r)' = ExecutionsFor(r) \cup {s} /\ s \notin ExecutionsFor(r)
    BY <1>1, <2>1 DEF ExecutionsFor, Executed
  <2>4. Cardinality(ExecutionsFor(r)') = Cardinality(ExecutionsFor(r)) + 1
    BY <1>4, <2>3, EffectsCounted, FS_AddElement
  <2>5. effects' = [effects EXCEPT ![r] = @ + 1]
    BY <1>4, <2>2, <2>4 DEF ExecutionsFor
  <2>6. approval[r].status = "PENDING" /\ approval[r].snapshot = SnapshotSeenBy(event)
    BY <1>1, <1>4, <2>0 DEF Serial, ServedAlone
  <2>7. r \in Requests \ Neutral => effects[r] = 0
    <3>1. ASSUME r \notin Neutral PROVE ExecutionsFor(r) = {}
      <4>1. approval[r].snapshot.plan = plan /\ plan \in Nat
        BY <2>6 DEF SnapshotSeenBy, TypeOK
      <4>2. \A p \in Sessions : ~(Executed(p) /\ execution[p].request = r)
        BY <1>4, <3>1, <4>1, ActionsAssumption DEF GateInvariant, ExecutionOK, Actions
      <4> QED
        BY <4>2 DEF ExecutionsFor
    <3> QED
      BY <1>4, <3>1, FS_EmptySet DEF ExecutionsFor
  <2>8. Decision!Execute(r)
    BY <1>2, <1>4, <2>5, <2>6, <2>7 DEF Decision!Execute
  <2> QED
    BY <1>4, <2>8 DEF Decision!Next
<1> QED
  BY <1>3, <1>4

\* Every step of the gate is a decision or a stutter.
LEMMA DecisionStep ==
  ASSUME TypeOK, TypeOK', GateInvariant, Serial, [Next]_vars
  PROVE  Decision!Next \/ UNCHANGED Decision!decision
<1>1. CASE UNCHANGED <<approval, execution>>
  BY <1>1, DecisionUnchanged
<1>2. ASSUME NEW s \in Sessions, FileRequest(s)
      PROVE  Decision!Next
  <2>1. session[s].target \in Requests /\ approval[session[s].target].status = "ABSENT"
    BY <1>2 DEF FileRequest, GoTo, GateInvariant, HandlerOK, PcInFlight
  <2> QED
    BY <1>2, <2>1, StatusChanges DEF FileRequest, TypeOK
<1>3. ASSUME NEW s \in Sessions, Revalidate(s), ~UNCHANGED approval
      PROVE  Decision!Next
  <2>1. session[s].target \in Requests /\ approval[session[s].target].status = "PENDING"
    BY <1>3 DEF Revalidate, GateInvariant, HandlerOK, PcInFlight, Serial, ServedAlone, GoTo
  <2> QED
    BY <1>3, <2>1, StatusChanges DEF Revalidate, TypeOK
<1>4. ASSUME NEW s \in Sessions, CommitRejection(s) \/ CommitCancellation(s)
      PROVE  Decision!Next
  <2>1. session[s].target \in Requests /\ approval[session[s].target].status = "PENDING"
    BY <1>4 DEF CommitRejection, CommitCancellation, GoTo, GateInvariant, HandlerOK, PcInFlight,
                Serial, ServedAlone
  <2> QED
    BY <1>4, <2>1, StatusChanges DEF CommitRejection, CommitCancellation, TypeOK
<1>5. ASSUME NEW s \in Sessions, MarkApproved(s)
      PROVE  Decision!Next
  <2>1. /\ session[s].target \in Requests /\ approval[session[s].target].status = "PENDING"
        /\ s \in ExecutionsFor(session[s].target)
    BY <1>5 DEF MarkApproved, GoTo, GateInvariant, HandlerOK, PcInFlight, Serial, ServedAlone,
                ExecutionsFor
  <2> QED
    BY <1>5, <2>1, StatusChanges DEF MarkApproved, TypeOK
<1>6. ASSUME NEW s \in Sessions, Arrive(s) \/ AdmitApproved(s) \/ FailExecution(s)
      PROVE  UNCHANGED <<approval, execution>>
  BY <1>6 DEF Arrive, DraftRequest, LoadForApproval, LoadForRejection, LoadForCancellation,
              AdmitDirect, AdmitApproved, FailExecution
<1>7. ASSUME NEW s \in Sessions, Revalidate(s)
      PROVE  UNCHANGED execution
  BY <1>7 DEF Revalidate
<1>8. CASE PauseEvent \/ ResumeEvent \/ EditPlan \/ Crash \/ Quiescent \/ UNCHANGED vars
  BY <1>1, <1>8 DEF PauseEvent, ResumeEvent, SetExecutionState, EditPlan, Crash, Quiescent, vars
<1> QED
  BY <1>1, <1>2, <1>3, <1>4, <1>5, <1>6, <1>7, <1>8, ExecutionCounts DEF Next, Proceed

\* When requests are served one at a time, the gate implements ApprovalDecision:
\* a request is decided once, and approved only after its action took effect;
\* what changes the plan takes effect at most once, whatever crashes.
THEOREM GateDecides ==
  ASSUME MaxInFlight = 1
  PROVE  Spec => DecisionSpec
<1>1. Init => Decision!Init
  <2> SUFFICES ASSUME Init PROVE Decision!Init
    OBVIOUS
  <2>1. \A r \in Requests : approval[r].status = "ABSENT" /\ ExecutionsFor(r) = {}
    BY DEF Init, ExecutionsFor, Executed
  <2>2. \A r \in Requests : Cardinality(ExecutionsFor(r)) = 0
    BY <2>1, FS_EmptySet
  <2> QED
    BY <2>1, <2>2 DEF Decision!Init, ExecutionsFor
<1>2. TypeOK /\ TypeOK' /\ GateInvariant /\ Serial /\ [Next]_vars
        => [Decision!Next]_(Decision!decision)
  BY DecisionStep
<1> QED
  BY <1>1, <1>2, GateSafe, SerialSafe, PTL DEF Spec, DecisionSpec, Decision!Spec
=============================================================================
