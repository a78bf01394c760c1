------------------------------ MODULE Engagement ------------------------------
(***************************************************************************)
(* The engagement of one provider: NegotiationService, the voice path that *)
(* drives it, the approval requests filed for it, and the services that    *)
(* write the same row: binding, reassignment and executed actions.         *)
(*                                                                         *)
(* A handler loads the row of vendor_assignments, decides, often waits for *)
(* the network, and flushes.  SQLAlchemy writes only the columns that were *)
(* changed from what was loaded (the patch below), or assigned without     *)
(* being loaded again since the last commit; nothing locks the row, so     *)
(* what others commit in between is neither seen nor, column by column,    *)
(* overwritten.  Every UPDATE renews updated_at, which the snapshot of an  *)
(* approval request hashes: the request is fresh while nothing was written *)
(* since it was filed.  Approval has the inside of the gate.  Handlers run *)
(* in slots, which are used again, so operations follow without end.       *)
(***************************************************************************)
EXTENDS Integers

CONSTANTS
  Slots,      \* handlers that may run at the same time
  Requests,   \* approval requests that may be filed for the assignment
  NoRequest,
  Terms,      \* target and hard cap an organizer may set, in rupees
  Quotes,     \* amounts the provider may ask for
  None,       \* a column that is NULL, a reply that names no amount
  Declined,   \* a reply that the provider is not available
  Keep,       \* a column a flush does not write
  MaxRound    \* bound: rounds of counter-offers

Untold == [target |-> None, cap |-> None]
Replies == Quotes \cup {None, Declined}

ASSUME TermsAssumption ==
  /\ Terms \subseteq [{"target", "cap"} -> Nat \cup {None}]
  /\ Quotes \subseteq Nat \ {0}
  /\ {None, Declined} \cap Nat = {} /\ None # Declined
ASSUME RequestsAssumption == NoRequest \notin Requests
ASSUME BoundAssumption == MaxRound \in Nat

Negotiations == {"DISCOVERED", "CONTACTED", "WAITING_FOR_RESPONSE",
                 "QUOTATION_RECEIVED", "NEGOTIATING", "COUNTER_OFFER_SENT",
                 "AWAITING_APPROVAL", "APPROVED", "CONFIRMED", "DECLINED"}

VARIABLES
  row,      \* the row of vendor_assignments
  request,  \* the approval requests for it
  slot,     \* the handler in each slot: where it is and what it is about
  patch     \* the columns its session is going to write

vars == <<row, request, slot, patch>>

\* What each column may hold; nothing tells the ASSIGNED of a selection from
\* REQUESTED.
Kinds == [neg     |-> Negotiations,
          status  |-> {"REQUESTED", "CONFIRMED", "CANCELLED", "REPLACED"},
          control |-> {"AGENT", "HUMAN"},
          terms   |-> Terms \cup {Untold},
          quoted  |-> Quotes \cup {None},
          round   |-> 0 .. MaxRound,
          link    |-> Requests \cup {NoRequest}]

Columns == DOMAIN Kinds

ASSUME KeepAssumption == \A c \in Columns : Keep \notin Kinds[c]

Pcs == {"idle", "engaging", "quoting", "hearing", "filing", "linking", "voicing",
        "calling", "countering", "editing", "confirming", "executing", "marking",
        "binding", "contracting"}

Idle == [pc |-> "idle", stamp |-> FALSE, reply |-> None, about |-> NoRequest]

Nothing == [c \in Columns |-> Keep]

\* The types of the row, of its requests and of what handlers are about to write:
\* no mixture of overlapping patches leaves the columns' values.
TypeOK ==
  /\ row = [c \in Columns |-> row[c]]
  /\ \A c \in Columns : row[c] \in Kinds[c]
  /\ request \in [Requests -> [status   : {"ABSENT", "PENDING", "STALE", "APPROVED"},
                               fresh    : BOOLEAN,
                               executed : BOOLEAN]]
  /\ slot \in [Slots -> [pc    : Pcs,
                         stamp : BOOLEAN,
                         reply : Replies,
                         about : Requests \cup {NoRequest}]]
  /\ patch = [s \in Slots |-> [c \in Columns |-> patch[s][c]]]
  /\ \A s \in Slots : \A c \in Columns : patch[s][c] \in Kinds[c] \cup {Keep}

\* The row is made by a selection, with a call, or by a client of the endpoint
\* that records assignments, confirmed ones included.
Init ==
  /\ \E made \in {"REQUESTED", "CONFIRMED"} :
       row = [neg |-> "DISCOVERED", status |-> made, control |-> "AGENT",
              terms |-> Untold, quoted |-> None, round |-> 0, link |-> NoRequest]
  /\ request = [r \in Requests |-> [status |-> "ABSENT",
                                    fresh |-> FALSE, executed |-> FALSE]]
  /\ slot = [s \in Slots |-> Idle]
  /\ patch = [s \in Slots |-> Nothing]

-----------------------------------------------------------------------------
(* Loading and flushing *)

\* What a session that loaded the row flushes when it wants it to be new; the
\* columns in blind were assigned while expired.
Patch(new, blind) ==
  [c \in Columns |-> IF new[c] # row[c] \/ c \in blind THEN new[c] ELSE Keep]

Flushed(p) == [c \in Columns |-> IF p[c] = Keep THEN row[c] ELSE p[c]]

Writes(p, stamp) == stamp \/ \E c \in Columns : p[c] # Keep

\* updated_at changes: no request filed so far matches the snapshot any more.
Aged == [r \in Requests |-> [request[r] EXCEPT !.fresh = FALSE]]

Flush(p, stamp) ==
  /\ row' = Flushed(p)
  /\ request' = IF Writes(p, stamp) THEN Aged ELSE request

\* What was flushed is loaded again before anything else is decided.
Goto(s, pc, about) ==
  /\ slot' = [slot EXCEPT ![s].pc = pc, ![s].about = about, ![s].stamp = FALSE]
  /\ patch' = [patch EXCEPT ![s] = Nothing]

Free(s) ==
  /\ slot' = [slot EXCEPT ![s] = Idle]
  /\ patch' = [patch EXCEPT ![s] = Nothing]

\* A handler that has decided what to flush; stamp says that unmodelled columns
\* are among it, which tells only when no others are.
Decide(s, pc, p, stamp) ==
  /\ slot' = [slot EXCEPT ![s].pc = pc, ![s].stamp = stamp /\ p = Nothing, ![s].reply = None]
  /\ patch' = [patch EXCEPT ![s] = p]

EditAs(s, pc, new, stamp) ==
  /\ slot[s].pc = "idle"
  /\ Decide(s, pc, Patch(new, {}), stamp)
  /\ UNCHANGED <<row, request>>

Edit(s, new, stamp) == EditAs(s, "editing", new, stamp)

-----------------------------------------------------------------------------
(* Counter-offers *)

Lesser(a, b) == IF a <= b THEN a ELSE b

\* The counter-offer of a round before it is rounded, in thousandths of a rupee.
Raw(target, ceiling, n) ==
  IF n = 1 THEN 1000 * target
           ELSE Lesser(1000 * target + (ceiling - target) * Lesser(300 * n, 800),
                       980 * ceiling)

\* round(x, -2).  In the middle of two hundreds the float decides.
Hundreds(x) ==
  LET h == 100 * (x \div 100000)
  IN  {c \in {h, h + 100} : 1000 * c - x <= 50000 /\ x - 1000 * c <= 50000}

\* A missing target counts as 0, a missing or zero cap as the target.
CounterOffers(terms, n) ==
  LET target  == IF terms.target = None THEN 0 ELSE terms.target
      ceiling == IF terms.cap \in {None, 0} THEN target ELSE terms.cap
  IN  Hundreds(Raw(target, ceiling, n))

Above(amount, cap) == None \notin {amount, cap} /\ amount > cap

-----------------------------------------------------------------------------
(* Faulty variants of the operations defined below, each with one plausible *)
(* bug.  They are not part of Spec; the property each must break is named.   *)

\* TypeOK: the reply is left in a state no handler goes on from.
ReplyUnread(s, o) ==
  /\ slot[s].pc = "idle"
  /\ slot' = [slot EXCEPT ![s].pc = "heard", ![s].reply = o]
  /\ UNCHANGED <<row, request, patch>>

\* CommittedOnAuthority: any linked request will do for the confirmation.
ConfirmUndecided(s) ==
  /\ slot[s].pc = "idle"
  /\ row.neg = "AWAITING_APPROVAL" /\ row.link # NoRequest
  /\ ~Above(row.quoted, row.terms.cap)
  /\ Decide(s, "confirming",
            Patch([row EXCEPT !.neg = "CONFIRMED", !.status = "CONFIRMED"], {}), FALSE)
  /\ UNCHANGED <<row, request>>

\* CommittedOnAuthority: what a call was told is bound without asking further.
BindUnasked(s) == Edit(s, [row EXCEPT !.status = "CONFIRMED"], TRUE)

\* LinkedNeverFresh: the link is not among what the snapshot hashes.
LinkUnhashed(s) ==
  /\ slot[s].pc = "linking"
  /\ row' = [row EXCEPT !.link = slot[s].about]
  /\ Free(s)
  /\ UNCHANGED request

\* TakeOverSettles: the agent counters whoever has the control.
NegotiateRegardless(s) ==
  /\ slot[s].pc \in {"idle", "calling"}
  /\ row.neg \in {"NEGOTIATING", "QUOTATION_RECEIVED"}
  /\ row.round < MaxRound
  /\ \E c \in CounterOffers(row.terms, row.round + 1) :
       IF Above(c, row.terms.cap)
       THEN Free(s)
       ELSE Decide(s, "countering",
                   Patch([row EXCEPT !.neg = "COUNTER_OFFER_SENT", !.round = @ + 1],
                         {"neg", "round"}), TRUE)
  /\ UNCHANGED <<row, request>>

-----------------------------------------------------------------------------
(* The organizer *)

\* initiate_engagement: the terms are set before the message is sent and commit
\* with its record; when recording fails they are rolled back, and the rest of
\* the handler commits without them.
Engage(s, t) ==
  /\ slot[s].pc = "idle"
  /\ Decide(s, "engaging", Patch([row EXCEPT !.terms = t], {}), TRUE)
  /\ UNCHANGED <<row, request>>

Engaged(s, recorded) ==
  /\ slot[s].pc = "engaging"
  /\ row' = [(IF recorded THEN Flushed(patch[s]) ELSE row)
               EXCEPT !.neg = "CONTACTED", !.round = 0]
  /\ request' = Aged
  /\ Free(s)

\* The control endpoints; the call is hung up before the flush.
TakeOver(s) == Edit(s, [row EXCEPT !.control = "HUMAN"], TRUE)

Resume(s) == Edit(s, [row EXCEPT !.control = "AGENT"], TRUE)

Cancel(s) ==
  Edit(s, [row EXCEPT !.control = "HUMAN", !.neg = "DECLINED", !.status = "CANCELLED"],
       FALSE)

\* handle_decline
Decline(s) == Edit(s, [row EXCEPT !.neg = "DECLINED", !.status = "CANCELLED"], FALSE)

\* simulate_response, NO_RESPONSE
AwaitReply(s) == Edit(s, [row EXCEPT !.neg = "WAITING_FOR_RESPONSE"], FALSE)

\* The commit of a handler that has decided, and where it goes on: process_quote
\* and the voice path have more to do.  A reply whose request could not be filed
\* commits without it.
Store(s) ==
  /\ slot[s].pc \in {"editing", "quoting", "filing", "voicing", "countering", "binding", "contracting"}
  /\ Flush(patch[s], slot[s].stamp)
  /\ CASE slot[s].pc = "quoting" -> Goto(s, "hearing", NoRequest)
       [] slot[s].pc = "voicing" -> Goto(s, "calling", NoRequest)
       [] OTHER -> Free(s)

-----------------------------------------------------------------------------
(* Who else writes the row *)

\* bind_vendor_to_task, for whom VENDOR_ASSIGN lets through: an organizer, the
\* agent's tool in the organizer's name, or the end of a recovery call that names
\* who authorised it; reassign_task_provider; an executed REASSIGN_VENDOR.
Bind(s, stamp) == EditAs(s, "binding", [row EXCEPT !.status = "CONFIRMED"], stamp)

\* reassign_task_provider gives the provider's last task to another.
Replaced(s) == Edit(s, [row EXCEPT !.status = "REPLACED"], TRUE)

\* An executed CONTRACT_VENDOR approves and confirms at once.
Contract(s, stamp) ==
  EditAs(s, "contracting", [row EXCEPT !.neg = "APPROVED", !.status = "CONFIRMED"], stamp)

\* process_call_completion, told to bind and by nobody: only what is confirmed
\* already or has an approved request.
BindHeard(s) ==
  /\ \/ "CONFIRMED" \in {row.status, row.neg}
     \/ row.link # NoRequest /\ request[row.link].status = "APPROVED"
  /\ Edit(s, [row EXCEPT !.status = "CONFIRMED"], TRUE)

-----------------------------------------------------------------------------
(* The provider *)

\* process_quote commits the amount before anything looks at it.
Quote(s, q) ==
  /\ slot[s].pc = "idle"
  /\ LET p == Patch([row EXCEPT !.quoted = q], {}) IN
     /\ slot' = [slot EXCEPT ![s].pc = "quoting", ![s].reply = q, ![s].stamp = p = Nothing]
     /\ patch' = [patch EXCEPT ![s] = p]
  /\ UNCHANGED <<row, request>>

\* A reply without an amount counts as within the cap, and the first within it
\* files a request for the amount that stands.
Read(s, o) ==
  LET asked == IF o \in Quotes THEN [row EXCEPT !.quoted = o] ELSE row
      Answer(pc, neg) ==
        Decide(s, pc, Patch([asked EXCEPT !.neg = neg],
                            IF o \in Quotes THEN {"quoted"} ELSE {}), TRUE)
  IN  /\ \/ o = Declined /\ Decide(s, "editing",
                                     Patch([row EXCEPT !.neg = "DECLINED"], {"neg"}), TRUE)
         \/ o # Declined /\ row.control = "HUMAN" /\ Answer("editing", "QUOTATION_RECEIVED")
         \/ /\ o # Declined /\ row.control = "AGENT"
            /\ IF o \in Quotes /\ Above(o, row.terms.cap)
               THEN Answer("editing", "NEGOTIATING")
               ELSE Answer(IF row.link = NoRequest THEN "filing" ELSE "editing",
                           "AWAITING_APPROVAL")
      /\ UNCHANGED <<row, request>>

\* process_provider_response: the message is recorded first, and the commit has
\* the row loaded again.
Reply(s, o) == slot[s].pc = "idle" /\ Read(s, o)

\* process_quote goes on as a reply.
Hear(s) == slot[s].pc = "hearing" /\ Read(s, slot[s].reply)

\* create_request takes the snapshot before its commit flushes the new state of
\* the assignment.
FileAnswer(s, r) ==
  /\ slot[s].pc = "filing" /\ request[r].status = "ABSENT"
  /\ row' = Flushed(patch[s])
  /\ request' = [Aged EXCEPT ![r].status = "PENDING"]
  /\ Goto(s, "linking", r)

-----------------------------------------------------------------------------
(* The agent *)

Negotiate(s) ==
  /\ slot[s].pc \in {"idle", "calling"}
  /\ row.control = "AGENT"
  /\ row.neg \in {"NEGOTIATING", "QUOTATION_RECEIVED"}
  /\ row.round < MaxRound
  /\ \E c \in CounterOffers(row.terms, row.round + 1) :
       IF Above(c, row.terms.cap)
       THEN Free(s)
       ELSE Decide(s, "countering",
                   Patch([row EXCEPT !.neg = "COUNTER_OFFER_SENT", !.round = @ + 1],
                         {"neg", "round"}), TRUE)
  /\ UNCHANGED <<row, request>>

\* The guards of negotiate (or the bound on rounds) refuse the voice path, which
\* escalates.
Escalate(s) ==
  /\ slot[s].pc = "calling"
  /\ \/ row.control = "HUMAN"
     \/ row.neg \notin {"NEGOTIATING", "QUOTATION_RECEIVED"}
     \/ row.round >= MaxRound
  /\ Free(s)
  /\ UNCHANGED <<row, request>>

\* evaluate_vendor_response on a priced offer; told are the terms the call was
\* started with.  What is within the ceiling goes on as a reply.
Voice(s, q, told) ==
  LET ceiling == IF told.cap # None THEN told.cap ELSE row.terms.cap
      Answer(pc, neg) ==
        Decide(s, pc, Patch([row EXCEPT !.quoted = q, !.neg = neg], {}), FALSE)
  IN  /\ slot[s].pc = "idle"
      /\ IF row.control = "HUMAN" THEN Answer("editing", "QUOTATION_RECEIVED")
         ELSE IF ~Above(q, ceiling)
         THEN /\ slot' = [slot EXCEPT ![s].pc = "quoting", ![s].reply = q]
              /\ patch' = [patch EXCEPT ![s] = Patch([row EXCEPT !.quoted = q], {})]
         ELSE IF row.round < 3 /\ {told.target, row.terms.target} # {None}
         THEN Answer("voicing", "NEGOTIATING")
         ELSE Answer("editing", "NEGOTIATING")
      /\ UNCHANGED <<row, request>>

-----------------------------------------------------------------------------
(* The approval of the engagement *)

\* request_approval files the request, and then writes its link.
RequestApproval(s, r) ==
  /\ slot[s].pc = "idle"
  /\ row.neg = "AWAITING_APPROVAL" /\ request[r].status = "ABSENT"
  /\ request' = [request EXCEPT ![r].status = "PENDING", ![r].fresh = TRUE]
  /\ Goto(s, "linking", r)
  /\ UNCHANGED row

Link(s) ==
  /\ slot[s].pc = "linking"
  /\ row' = [row EXCEPT !.link = slot[s].about]
  /\ request' = Aged
  /\ Free(s)

\* approve: the snapshot is compared, the action commits, the request is marked.
Approve(s, r) ==
  /\ slot[s].pc = "idle" /\ request[r].status = "PENDING"
  /\ IF request[r].fresh
     THEN /\ slot' = [slot EXCEPT ![s].pc = "executing", ![s].about = r]
          /\ patch' = [patch EXCEPT ![s] = Patch([row EXCEPT !.neg = "APPROVED"], {})]
          /\ UNCHANGED request
     ELSE /\ request' = [request EXCEPT ![r].status = "STALE"]
          /\ UNCHANGED <<slot, patch>>
  /\ UNCHANGED row

\* _execute_provider_engagement
Execute(s) ==
  /\ slot[s].pc = "executing"
  /\ row' = Flushed(patch[s])
  /\ request' = [(IF Writes(patch[s], FALSE) THEN Aged ELSE request)
                   EXCEPT ![slot[s].about].executed = TRUE]
  /\ Goto(s, "marking", slot[s].about)

Mark(s) ==
  /\ slot[s].pc = "marking"
  /\ request' = [request EXCEPT ![slot[s].about].status = "APPROVED"]
  /\ Free(s)
  /\ UNCHANGED row

\* confirm_engagement; the commit falls to the recording of the message, and is
\* rolled back when that fails, after the provider was told.
Confirm(s) ==
  /\ slot[s].pc = "idle"
  /\ row.neg = "AWAITING_APPROVAL" /\ row.link # NoRequest
  /\ request[row.link].status = "APPROVED"
  /\ ~Above(row.quoted, row.terms.cap)
  /\ Decide(s, "confirming",
            Patch([row EXCEPT !.neg = "CONFIRMED", !.status = "CONFIRMED"], {}), FALSE)
  /\ UNCHANGED <<row, request>>

Confirmed(s, recorded) ==
  /\ slot[s].pc = "confirming"
  /\ IF recorded THEN Flush(patch[s], FALSE) ELSE UNCHANGED <<row, request>>
  /\ Free(s)

\* Another row the snapshot hashes changes.
PlanEdited ==
  /\ request' = Aged
  /\ UNCHANGED <<row, slot, patch>>

-----------------------------------------------------------------------------
\* A handler that was started goes on.
Continue(s) ==
  \/ Store(s) \/ Hear(s) \/ Link(s) \/ Execute(s) \/ Mark(s)
  \/ \E r \in Requests : FileAnswer(s, r)
  \/ \E recorded \in BOOLEAN : Engaged(s, recorded) \/ Confirmed(s, recorded)
  \/ slot[s].pc = "calling" /\ Negotiate(s)
  \/ Escalate(s)

\* The engagement itself.
Converse(s) ==
  \/ \E t \in Terms : Engage(s, t)
  \/ TakeOver(s) \/ Resume(s) \/ Cancel(s) \/ Decline(s) \/ AwaitReply(s)
  \/ \E o \in Replies : Reply(s, o)
  \/ \E q \in Quotes : Quote(s, q) \/ \E t \in Terms \cup {Untold} : Voice(s, q, t)
  \/ slot[s].pc = "idle" /\ Negotiate(s)
  \/ \E r \in Requests : RequestApproval(s, r) \/ Approve(s, r)
  \/ Confirm(s)

Begin(s) ==
  \/ Converse(s)
  \/ \E stamp \in BOOLEAN : Bind(s, stamp) \/ Contract(s, stamp)
  \/ Replaced(s) \/ BindHeard(s)

Next ==
  \/ \E s \in Slots : Begin(s) \/ Continue(s)
  \/ PlanEdited

Spec == Init /\ [][Next]_vars /\ \A s \in Slots : WF_vars(Continue(s))

-----------------------------------------------------------------------------
HumanApproved == \E r \in Requests : request[r].executed

Entered(column, value) == row[column] # value /\ row'[column] = value

Flushes(pcs) == \E s \in Slots : slot[s].pc \in pcs /\ slot'[s].pc = "idle"

\* Whatever providers, the agent's offers and the voice path do, and in whatever
\* order their flushes fall, the negotiation commits the event to nothing of its
\* own accord ("NEVER autonomously accepts").  A step confirms the negotiation only
\* after a human approved a request for it; makes it APPROVED only with such an
\* approval or an executed contract; and makes the assignment CONFIRMED only after
\* such an approval, or as the flush of a binding or a contract that somebody was
\* let through for: a call that is told to bind confirms nothing anew.
CommittedOnAuthority ==
  [][/\ Entered("neg", "CONFIRMED") => HumanApproved
     /\ Entered("neg", "APPROVED") => HumanApproved' \/ Flushes({"contracting"})
     /\ Entered("status", "CONFIRMED") => HumanApproved \/ Flushes({"binding", "contracting"})]_vars

\* A pending request that its assignment links to has gone stale: writing the
\* link renewed the row.  Approving it is refused; only an approval admitted
\* between the commit of the request and that of the link gets through, and
\* only thereby can confirm_engagement find what it asks for.
LinkedNeverFresh ==
  \A r \in Requests : row.link = r /\ request[r].status = "PENDING" => ~request[r].fresh

\* Once the organizer has the negotiation for good, the counter-offers that
\* were under way run out and no new one is made, whatever the provider says,
\* at the desk or on the phone.
TakeOverSettles ==
  <>[](row.control = "HUMAN") => <>[](\A s \in Slots : slot[s].pc # "countering")
=============================================================================
