---------------------------- MODULE MCRunStream -----------------------------
(***************************************************************************)
(* Instance of RunStream: the worker of the run reports progress and then  *)
(* its end while the cancel endpoint records one event of its own.  And    *)
(* what the sweeper may do to one request, over all orders of its steps,   *)
(* crashes, the decision of the organizer and the passing of time; with    *)
(* and without a second replica whose sweeps do not overlap with the first *)
(* one's.  raced marks the order that defeats it: a decision while a sweep *)
(* holds the request.  And what the recovery calls may lead to: all states *)
(* that two sessions with one vendor reach, in any order and as often as   *)
(* one likes, from an event with and without a negotiation.  And what the  *)
(* tools of the event agent may do, over all worlds that they can tell     *)
(* apart; the facts of these are of an event that is no emergency and of a *)
(* task that is not critical: what ActionPolicy makes of the other facts   *)
(* is checked where it is modelled.                                        *)
(***************************************************************************)
EXTENDS RunStream, TLC

CONSTANTS worker, canceller

MCWriters == {worker, canceller}

MCScript == (worker :> <<"progress", "progress", "terminal">>) @@ (canceller :> <<"progress">>)

-----------------------------------------------------------------------------
CONSTANT None

-----------------------------------------------------------------------------
(* Recovery calls *)

U == INSTANCE VoiceRecovery WITH Eight <- 8, Absurd <- 999

\* A free vendor whose trade has no item in a budget of 100.
Event == [guests |-> 50, total |-> 100, currency |-> "INR", from |-> 10, ends |-> TRUE, to |-> 14,
          diet |-> "none"]
Records == [recorded |-> None, item |-> 0, catering |-> FALSE,
          slots |-> {[status |-> "AVAILABLE", from |-> 8, to |-> 20, at |-> 0]}]

Speech == [spoke |-> TRUE, said |-> {"available"}, amount |-> 50, vague |-> FALSE, foreign |-> FALSE]
Speeches ==
  {Speech, [Speech EXCEPT !.amount = 90], [Speech EXCEPT !.amount = None],
   [Speech EXCEPT !.vague = TRUE], [Speech EXCEPT !.foreign = TRUE], [Speech EXCEPT !.amount = 0],
   [Speech EXCEPT !.said = {"unavailable", "conditional"}], [Speech EXCEPT !.said = {"conditional"}],
   [Speech EXCEPT !.said = {"available", "orders"}],
   [Speech EXCEPT !.said = {}, !.amount = None], [Speech EXCEPT !.spoke = FALSE]}

Later == {[Speech EXCEPT !.amount = 90], [Speech EXCEPT !.said = {"unavailable"}]}

Deal == [status |-> "REQUESTED", neg |-> "CONTACTED", target |-> 60, cap |-> 80, round |-> 0,
         control |-> "AGENT", approved |-> FALSE]
Start(deal, option) ==
  [active |-> "none", heard |-> [x \in {"a", "b"} |-> None], deal |-> deal, option |-> option,
   paused |-> FALSE, bound |-> FALSE]
Starts ==
  {Start(None, "VALID"), Start([Deal EXCEPT !.control = "HUMAN"], "VALID"),
   Start([Deal EXCEPT !.round = 2, !.approved = TRUE], None)}

Caller == [event |-> TRUE, user |-> "COLLABORATOR", task |-> "own", vendor |-> "with phone"]

\* A step is [from, kind, session, speech, user, next, binds]; what is processed again is not
\* parsed again, so that then any speech stands for all.
Step(s, kind, session, speech, user, next) ==
  [from |-> s, kind |-> kind, session |-> session, speech |-> speech, user |-> user, next |-> next,
   binds |-> next.bound /\ ~s.bound]

Calls(s) ==
  {Step(s, "call", "", Speech, None, U!InitiateRecoveryCall(s, Caller, connects).state) : connects \in BOOLEAN}

Hearings(s, session) ==
  LET speeches == IF s.heard[session] # None THEN {Speech}
                  ELSE IF session = "a" THEN Speeches ELSE Later
      Processed(t, sent, user) ==
        U!ProcessRecoveryCallOutcome(s, session, t, <<>>, Event, Records, sent,
                                     [user |-> user, auto |-> TRUE]).state
      Completed(t, user) == U!CompleteAndBind(s, session, t, <<>>, Event, Records, TRUE, user)
  IN  {Step(s, "process", session, p[1], p[3], Processed(p[1], p[2], p[3])) :
         p \in speeches \X BOOLEAN \X {None, "allowed", "denied"}}
      \cup {Step(s, "complete", session, p[1], p[2], Completed(p[1], p[2])) :
              p \in speeches \X {None, "allowed", "denied"}}

Steps(s) ==
  Calls(s) \cup Hearings(s, "a") \cup Hearings(s, "b")
  \cup {Step(s, "pause", "", Speech, None, [s EXCEPT !.paused = ~@])}
  \cup IF s.active = "fresh" THEN {Step(s, "wait", "", Speech, None, [s EXCEPT !.active = "old"])} ELSE {}

Reachable(start) ==
  LET closure[n \in 0 .. 16] ==
        IF n = 0 THEN [found |-> start, new |-> start]
        ELSE LET before == closure[n - 1]
                 new == UNION {{x.next : x \in Steps(s)} : s \in before.new} \ before.found
             IN  IF Cardinality(before.found) = 0 \/ Cardinality(before.new) = 0 THEN before
                 ELSE [found |-> before.found \cup new, new |-> new]
  IN  closure[16].found

-----------------------------------------------------------------------------
\* What a vendor has refused on the telephone no processing of that call binds,
\* however often it is repeated and whoever asks for it; the same holds of a quote
\* in words for another currency, which the negotiation may take for its own.
RefusalsBindNobody(x) ==
  x.binds =>
    /\ x.from.heard[x.session] = None => "unavailable" \notin x.speech.said /\ ~x.speech.foreign
    /\ x.next.heard[x.session].claim # "UNAVAILABLE" /\ x.next.heard[x.session].currency # "foreign"

\* A vendor is bound by a call only on the word of somebody who may assign, or
\* without anybody's by an engagement that was approved: neither what it says nor a
\* replay of the call stands for that.
BindingsAreAuthorised(x) ==
  x.binds => \/ x.user = "allowed"
             \/ x.user = None /\ x.kind = "complete" /\ x.from.deal # None /\ x.from.deal.approved

\* A recovery call binds nobody in a paused event, nor above the ceiling of the
\* negotiation unless the organizer has taken it over, also when it is processed
\* after the pause or after the counter-offer.
RecoveriesKeepTheLimits(x) ==
  x.binds /\ x.kind = "process" =>
    /\ ~x.from.paused
    /\ LET deal == x.from.deal
           price == x.next.heard[x.session].price
       IN  None \in {deal, price} \/ deal.control = "HUMAN" \/ deal.cap = None \/ price <= deal.cap

\* A call is recorded once: repeating it changes neither what was heard nor, while
\* it is fresh, does it make room for another call before the vendor has refused or
\* is bound.
CallsAreHeardOnce(x) ==
  /\ \A y \in {"a", "b"} : x.from.heard[y] # None => x.next.heard[y] = x.from.heard[y]
  /\ x.from.active = "fresh" /\ x.next.active = "none" =>
       x.next.bound \/ x.next.heard[x.session].claim = "UNAVAILABLE"

ASSUME RecoveryCallsAreSound ==
  \A s \in Reachable(Starts) : \A x \in Steps(s) :
    RefusalsBindNobody(x) /\ BindingsAreAuthorised(x) /\ RecoveriesKeepTheLimits(x) /\ CallsAreHeardOnce(x)

-----------------------------------------------------------------------------
(* The sweeper *)

S == INSTANCE Escalation WITH RemindAt <- 1, EscalateAt <- 2, ExpireAt <- 3, VoiceEnabled <- TRUE

Sweepers == {"r1", "r2"}

Events ==
  {[owner |-> "olga", role |-> "max" :> "EVENT_MANAGER" @@ "vera" :> "VIEWER" @@ "carl" :> "COLLABORATOR"],
   [owner |-> "olga", role |-> "vera" :> "VIEWER"]}
Applications == [requester : {"carl", "olga"}, impact : {"MAJOR", "CRITICAL"}]

Filed ==
  [row |-> [status |-> "PENDING", flags |-> {}, notified |-> {}, escalatedTo |-> {}], inbox |-> {}, told |-> {},
   age |-> 0, raced |-> FALSE, approved |-> FALSE,
   sent |-> [r \in Sweepers |-> [k \in S!Flags \cup {"replan"} |-> 0]], sweep |-> [r \in Sweepers |-> None]]

\* Dispatched to all, to nobody, or to the owner alone.
Filings(e, a) == {S!Dispatch(Filed, e, a, reached) : reached \in {{}, {e.owner}, {e.owner} \cup DOMAIN e.role}}
                \cup {Filed}

Busy(s) == {r \in Sweepers : s.sweep[r] # None}
MayWork(s) == IF Busy(s) = {} THEN Sweepers ELSE Busy(s)

\* approved and raced record what was decided, and whether during a sweep.
Decided(s) ==
  LET after == S!Approve(s)
  IN  [after EXCEPT !.raced = @ \/ Busy(s) # {}, !.approved = after.row.status = "APPROVED"]

Moves(s, e, a) ==
  {S!Sweeping(s, r, e, a, reached) : r \in MayWork(s), reached \in {{}, DOMAIN e.role \cup {e.owner}}}
  \cup {S!Crash(s, r) : r \in Busy(s)}
  \cup (IF s.row.status = "PENDING" THEN {Decided(s)} ELSE {})
  \cup (IF s.age < 3 THEN {S!Older(s)} ELSE {})

Sweepings(e, a) ==
  LET closure[n \in 0 .. 48] ==
        IF n = 0 THEN [found |-> Filings(e, a), new |-> Filings(e, a)]
        ELSE LET before == closure[n - 1]
                 new == UNION {Moves(s, e, a) : s \in before.new} \ before.found
             IN  IF Cardinality(before.found) = 0 \/ Cardinality(before.new) = 0 THEN before
                 ELSE [found |-> before.found \cup new, new |-> new]
  IN  closure[48].found

Total(s, kind) == s.sent["r1"][kind] + s.sent["r2"][kind]

-----------------------------------------------------------------------------
\* Of a request one reminder, one escalation and one call are made at most, also if
\* the sweeper ends between two steps or another replica takes over, and whatever
\* the organizer does meanwhile.
NothingIsSentTwice(s) == \A kind \in S!Flags : Total(s, kind) <= 1

\* Who is escalated to may decide the request and has not made it.
DecidersAreAsked(s, e, a) ==
  \A u \in s.told : u # a.requester /\ (u = e.owner \/ e.role[u] \in S!ApproverRoles(a.impact))

\* A sweep that no decision crosses sets the agent to plan again once at most, only
\* for a request that has run out of time; and it undoes no approval.
ExpiryIsFinal(s) ==
  ~s.raced => /\ Total(s, "replan") <= 1
              /\ s.approved => s.row.status = "APPROVED" /\ Total(s, "replan") = 0
              /\ Total(s, "replan") = 1 => s.row.status = "EXPIRED" /\ s.age >= 3

\* What was escalated stays known with the request.
EscalationIsRecorded(s) == s.told \subseteq s.row.escalatedTo /\ (s.told # {} => "escalated" \in s.row.flags)

ASSUME SweeperIsSound ==
  \A e \in Events, a \in Applications : \A s \in Sweepings(e, a) :
    NothingIsSentTwice(s) /\ DecidersAreAsked(s, e, a) /\ ExpiryIsFinal(s) /\ EscalationIsRecorded(s)

-----------------------------------------------------------------------------
(* The tools of the agent *)

J == INSTANCE AgentTools

Users == {"agent", "operator", "owner", "EVENT_MANAGER", "COLLABORATOR", "VENDOR", "VIEWER", "stranger"}
Options == [feasible : BOOLEAN, guarded : BOOLEAN, fresh : BOOLEAN, version : {"NONE", "CURRENT", "OLD"}]
World == [user |-> "owner", event |-> TRUE, incident |-> TRUE, impact |-> FALSE, risk |-> FALSE, task |-> TRUE,
          provider |-> TRUE, option |-> {}, observed |-> "NONE", approval |-> "none", approved |-> FALSE,
          paused |-> FALSE, service |-> "ok", verdict |-> "VERIFIED",
          facts |-> [emergency |-> FALSE, task |-> {}, amount |-> 0, budget |-> 0]]

\* A request of the option that is given as approved is one of its approved requests.
Recoveries ==
  {w \in {[World EXCEPT !.user = u, !.option = {o}, !.observed = v, !.approval = a, !.approved = y, !.paused = p,
                        !.verdict = r] :
            u \in {"agent", "operator", "COLLABORATOR", "VENDOR", "stranger"}, o \in Options,
            v \in {"NONE", "CURRENT", "OLD"}, a \in {"none", "pending", "other", "own"},
            y \in BOOLEAN, p \in BOOLEAN, r \in {"VERIFIED", "PARTIALLY_VERIFIED", "raises"}} :
     w.approval = "own" => w.approved}
Worlds ==
  {[World EXCEPT !.user = u, !.incident = there, !.impact = known, !.task = there, !.provider = there, !.approval = a,
                 !.paused = there, !.service = s] :
     u \in Users, there \in BOOLEAN, known \in BOOLEAN, a \in {"none", "pending", "other"},
     s \in {"ok", "not_found", "bad_request", "raises", "bad_arguments"}}
  \cup {[World EXCEPT !.event = FALSE, !.incident = FALSE, !.task = FALSE, !.user = u] : u \in Users}

TypedReaders ==
  {"get_event_state", "get_event_spec", "get_operational_status", "get_active_constraints", "get_plan", "get_task",
   "get_dependencies", "get_critical_path", "generate_final_execution_plan", "discover_providers", "qualify_provider",
   "check_provider_availability", "compare_candidates", "shortlist_vendors", "analyze_impact", "assess_risk",
   "get_active_incidents", "inspect_incident", "generate_recovery_options", "validate_recovery_option",
   "get_decision_trace", "discover_and_rank_venues"}
TypedWriters ==
  {"create_task", "update_task", "submit_vendor_outcome", "validate_vendor_outcome", "bind_vendor_to_task",
   "execute_recovery", "call_vendor", "record_decision"}
Functional == J!Wrapped \cup J!Lookups \cup J!Analysts \cup J!Mutators

\* What is asked of every call of the tools, in the typed and the functional registry.
Holds(Property(_), worlds, typed, functional) ==
  \A w \in worlds :
    /\ \A t \in typed : Property([w |-> w, tool |-> t, answer |-> J!Execute(t, w)])
    /\ \A t \in functional : Property([w |-> w, tool |-> t, answer |-> J!Call(t, w)])

-----------------------------------------------------------------------------
\* However the two gates are passed, an option is executed only in an event that is
\* not paused, in the state and for the plan it was made for, by somebody of the
\* event, holding an approved request; and with one of its own if it needs one.
ExecutionsAreConsented(x) ==
  "execution" \in x.answer.done =>
    \E o \in x.w.option :
      /\ ~x.w.paused /\ o.fresh /\ o.version # "OLD" /\ x.w.user \notin {"agent", "stranger"}
      /\ x.w.approval \in {"other", "own"} /\ (o.guarded => x.w.approved)

\* "Never silently converts failure into success": an executed option is never
\* answered as a failure, which an agent would try again, and the typed tool
\* answers success only if the verification has confirmed it.
ExecutionsAreTold(x) ==
    /\ "execution" \in x.answer.done => x.answer.status \in {"SUCCESS", "VERIFICATION_FAILED"}
    /\ x.answer.status = "SUCCESS" => "execution" \in x.answer.done
    /\ x.answer.status = "SUCCESS" /\ "verification" \in x.answer.done => x.w.verdict = "VERIFIED"

\* A tool that reads leaves the plan, its tasks and bindings and all requests alone;
\* one that is held or refused has at most filed the request it now waits for.
OnlyWritersWrite(x) ==
    /\ x.tool \in TypedReaders \cup J!Lookups \cup J!Analysts =>
         x.answer.done \subseteq {"impact", "risk", "options", "vendors", "venues"}
    /\ x.answer.status = "REQUIRES_APPROVAL" => x.answer.done \subseteq {"request"}
    /\ x.answer.status = "FAILURE" => x.answer.done \subseteq {"impact", "risk", "venues"}

\* Of the typed tools, who is no member of an event changes nothing of it, and
\* viewers neither its tasks nor bindings nor outcomes.
OutsidersChangeNothing(x) ==
    /\ x.w.user = "stranger" /\ x.w.event => x.answer.done \subseteq {"venues"}
    /\ x.w.user = "VIEWER" => x.answer.done \cap {"task", "outcome", "validation", "binding", "request"} = {}

ASSUME ToolsAreSound ==
  /\ Holds(ExecutionsAreConsented, Recoveries, {"execute_recovery"}, {"execute_recovery", "execute_action"})
  /\ Holds(ExecutionsAreTold, Recoveries, {"execute_recovery"}, {"execute_recovery", "execute_action"})
  /\ Holds(OnlyWritersWrite, Worlds, TypedReaders \cup TypedWriters, Functional)
  /\ Holds(OutsidersChangeNothing, Worlds, TypedReaders \cup TypedWriters, {})
=============================================================================
