----------------------------- MODULE Escalation ------------------------------
(***************************************************************************)
(* ApprovalNotificationDispatcher and the sweeper ApprovalEscalationService *)
(* for one request for approval.  An event e is [owner, role], role a      *)
(* function on its members; the request a is [requester, impact].          *)
(*                                                                         *)
(* A state s is                                                            *)
(*   row     the request: [status, flags, notified, escalatedTo], the last *)
(*           three kept in its requested_action;                           *)
(*   inbox   who has an in-app notice of it;                               *)
(*   age     how far its time has run, against RemindAt, EscalateAt and    *)
(*           ExpireAt (RemindAt and ExpireAt None without expires_at);     *)
(*   sent    how often each sweeper has sent each kind of message, and     *)
(*           "replan", how often it has set the agent to plan again;       *)
(*   told    who has been escalated to;                                    *)
(*   sweep   what each sweeper does: None, or [at, view, now, to].         *)
(* view is the row as the sweeper's session holds it: neither the query    *)
(* under a row lock nor that of expire() refreshes a row held already.     *)
(***************************************************************************)
EXTENDS Integers, FiniteSets, ActionPolicy

CONSTANTS None, RemindAt, EscalateAt, ExpireAt, VoiceEnabled

Flags == {"reminder_sent", "escalated", "voice_called"}

-----------------------------------------------------------------------------
(* Who is asked *)

Deciders(e, a) ==
  ({u \in DOMAIN e.role : e.role[u] \in ApproverRoles(a.impact)} \cup {e.owner}) \ {a.requester}

\* Where nobody may decide, everybody else is told.
ResolveEligibleApprovers(e, a) ==
  IF Deciders(e, a) # {} THEN Deciders(e, a) ELSE DOMAIN e.role \ {a.requester}

AlreadyNotified(row, inbox) == row.notified \cup row.escalatedTo \cup inbox

ResolveEscalationRecipients(e, a, row, inbox) ==
  LET next == Deciders(e, a) \ AlreadyNotified(row, inbox)
  IN  IF next # {} THEN next ELSE {e.owner} \ {a.requester}

-----------------------------------------------------------------------------
(* Dispatch.  reached: those whose notice could be stored; a channel that fails  *)
(* for one keeps nobody else from theirs.                                       *)

Dispatch(s, e, a, reached) ==
  LET to == ResolveEligibleApprovers(e, a) IN
  IF to = {} THEN s
  ELSE [s EXCEPT !.row.notified = @ \cup to, !.inbox = @ \cup (to \cap reached)]

DispatchEscalation(s, to, reached) ==
  [s EXCEPT !.inbox = @ \cup (to \cap reached), !.told = @ \cup to]

-----------------------------------------------------------------------------
(* The sweep *)

Due(at, now) == at # None /\ now >= at
Move(s, r, at) == [s EXCEPT !.sweep[r].at = at]
Count(s, r, kind) == [s EXCEPT !.sent[r][kind] = @ + 1]

SweepPendingApprovals(s, r) ==
  IF s.row.status # "PENDING" THEN s
  ELSE [s EXCEPT !.sweep[r] = [at |-> "expiry", view |-> s.row, now |-> s.age, to |-> {}]]

\* A flag is claimed on the session's view of the row, and with it the view's other
\* fields are written; only then is the row read again.  Without a claim the sweep
\* goes on where it would have.
ClaimActionFlag(s, r, flag, to, claimed, missed) ==
  LET view == s.sweep[r].view
      row == [s.row EXCEPT !.flags = view.flags \cup {flag}, !.notified = view.notified,
                           !.escalatedTo = IF to = {} THEN view.escalatedTo ELSE to]
  IN  IF view.status = "PENDING" /\ flag \notin view.flags
      THEN [s EXCEPT !.row = row, !.sweep[r] = [@ EXCEPT !.at = claimed, !.view = row, !.to = to]]
      ELSE Move(s, r, missed)

HandleExpiry(s, r) ==
  Count([s EXCEPT !.row.status = "EXPIRED", !.sweep[r] = None], r, "replan")

CheckExpiry(s, r) ==
  IF Due(ExpireAt, s.sweep[r].now) THEN HandleExpiry(s, r) ELSE Move(s, r, "reminder")

CheckReminder(s, r) ==
  IF Due(RemindAt, s.sweep[r].now)
  THEN ClaimActionFlag(s, r, "reminder_sent", {}, "reminding", "escalation")
  ELSE Move(s, r, "escalation")

\* A reminder goes to all who may decide, whatever should_notify says.
HandleReminder(s, r) == Count(Move(s, r, "escalation"), r, "reminder_sent")

CheckEscalation(s, r, e, a) ==
  LET to == ResolveEscalationRecipients(e, a, s.sweep[r].view, s.inbox)
  IN  IF Due(EscalateAt, s.sweep[r].now) /\ to # {}
      THEN ClaimActionFlag(s, r, "escalated", to, "escalating", "voice")
      ELSE Move(s, r, "voice")

\* Storing the notices ends the transaction, and so refreshes the view.
HandleEscalation(s, r, reached) ==
  LET after == DispatchEscalation(s, s.sweep[r].to, reached)
  IN  Count([after EXCEPT !.sweep[r] = [@ EXCEPT !.at = "voice", !.view = s.row]], r, "escalated")

CheckVoice(s, r, a) ==
  IF a.impact = "CRITICAL" /\ VoiceEnabled
  THEN ClaimActionFlag(s, r, "voice_called", {}, "calling", "done")
  ELSE Move(s, r, "done")

HandleVoiceEscalation(s, r) == Count(Move(s, r, "done"), r, "voice_called")

\* reached as in Dispatch.
Sweeping(s, r, e, a, reached) ==
  CASE s.sweep[r] = None -> SweepPendingApprovals(s, r)
    [] s.sweep[r].at = "expiry" -> CheckExpiry(s, r)
    [] s.sweep[r].at = "reminder" -> CheckReminder(s, r)
    [] s.sweep[r].at = "reminding" -> HandleReminder(s, r)
    [] s.sweep[r].at = "escalation" -> CheckEscalation(s, r, e, a)
    [] s.sweep[r].at = "escalating" -> HandleEscalation(s, r, reached)
    [] s.sweep[r].at = "voice" -> CheckVoice(s, r, a)
    [] s.sweep[r].at = "calling" -> HandleVoiceEscalation(s, r)
    [] s.sweep[r].at = "done" -> [s EXCEPT !.sweep[r] = None]

\* The process ends between two steps; the next sweep begins anew.
Crash(s, r) == [s EXCEPT !.sweep[r] = None]

-----------------------------------------------------------------------------
(* The organizer, and time *)

Approve(s) ==
  IF s.row.status # "PENDING" THEN s
  ELSE IF ExpireAt # None /\ s.age > ExpireAt THEN [s EXCEPT !.row.status = "EXPIRED"]
  ELSE [s EXCEPT !.row.status = "APPROVED"]

Older(s) == [s EXCEPT !.age = @ + 1]
=============================================================================
