--------------------------- MODULE VoiceRecovery ----------------------------
(***************************************************************************)
(* The calls by which a failing vendor is replaced: VoiceRecoveryService,  *)
(* over the parser of what was said, the pipeline that records it and the  *)
(* decision of VoiceNegotiationService.  Telephony is an input: whether a  *)
(* call goes through, what the vendor says, and whether the negotiation    *)
(* could send the counter-offer it was asked for.                          *)
(*                                                                         *)
(* A speech is [spoke, said, amount, vague, foreign]: said is the set of   *)
(* phrases recognised ("unavailable", "conditional", "available" and       *)
(* "orders", an attempt to direct the agent), vague tells of an "around"   *)
(* or "maybe" before the amount, foreign of the words for a currency other *)
(* than the event's.                                                       *)
(*                                                                         *)
(* A state s is about one event, task, vendor and recovery option:         *)
(*   active  the entry of _ACTIVE_RECOVERY_CALLS: "none", "fresh" (less    *)
(*           than five minutes old) or "old";                              *)
(*   heard   the outcome recorded for each session, or None;               *)
(*   deal    the vendor's assignment of the event, or None:                *)
(*           [status, neg, target, cap, round, control, approved];         *)
(*   option  "VALID", "INFEASIBLE", "STALE", "EXECUTED", or None;          *)
(*   paused, bound; slots: the vendor's calendar.                          *)
(***************************************************************************)
EXTENDS OutcomeValidation

CONSTANT Absurd \* a price above 100 000 000

-----------------------------------------------------------------------------
(* VoiceOutcomeParser *)

\* "Busy that day, maybe later" is a refusal: refusals are looked for first.
ParseAvailability(said) ==
  CASE "unavailable" \in said -> [claim |-> "UNAVAILABLE", status |-> "UNAVAILABLE"]
    [] "conditional" \in said -> [claim |-> "CONDITIONAL", status |-> "INTERESTED"]
    [] "available" \in said -> [claim |-> "AVAILABLE", status |-> "AVAILABLE"]
    [] OTHER -> [claim |-> "UNKNOWN", status |-> "CONTACTED"]

ParsePrice(t) ==
  [price |-> IF t.vague THEN None ELSE t.amount,
   unsure |-> t.vague /\ t.amount # None,
   currency |-> IF t.foreign THEN "foreign" ELSE "own"]

Parse(t) ==
  LET free == ParseAvailability(t.said)
      cost == ParsePrice(t)
  IN  IF ~t.spoke
      THEN [claim |-> "UNKNOWN", status |-> "NO_RESPONSE", price |-> None, currency |-> "own",
            unsure |-> TRUE]
      ELSE [claim |-> free.claim,
            status |-> IF cost.price = None THEN free.status ELSE "QUOTE_RECEIVED",
            price |-> cost.price,
            currency |-> cost.currency,
            unsure |-> cost.unsure \/ free.claim \in {"CONDITIONAL", "UNKNOWN"}]

-----------------------------------------------------------------------------
(* VoiceNegotiationService *)

NewDeal ==
  [status |-> "REQUESTED", neg |-> "CONTACTED", target |-> None, cap |-> None, round |-> 0,
   control |-> "AGENT", approved |-> FALSE]

\* What the service is told of a fresh call, and of one processed again, whose
\* doubts and orders are no longer looked at.
FirstHearing(t, p) ==
  [available |-> CASE p.claim = "AVAILABLE" -> "yes" [] p.claim = "UNKNOWN" -> "unsaid"
                   [] OTHER -> "no",
   price |-> p.price, currency |-> p.currency, unsure |-> p.unsure,
   orders |-> t.spoke /\ "orders" \in t.said]
SecondHearing(p) ==
  [available |-> "yes", price |-> p.price, currency |-> p.currency, unsure |-> FALSE,
   orders |-> FALSE]

Commercial(deal, price, sent) ==
  LET Deal(action, neg) == [action |-> action, deal |-> [deal EXCEPT !.neg = neg]] IN
  CASE deal.control = "HUMAN" -> Deal("HUMAN_CONTROL", "QUOTATION_RECEIVED")
    [] deal.cap = None \/ price <= deal.cap -> Deal("AWAITING_APPROVAL", "AWAITING_APPROVAL")
    [] deal.round < 3 /\ deal.target # None /\ sent ->
         [action |-> "COUNTER_OFFER",
          deal |-> [deal EXCEPT !.neg = "COUNTER_OFFER_SENT", !.round = @ + 1]]
    [] OTHER -> Deal("ESCALATE", "NEGOTIATING")

\* sent: the negotiation could make the counter-offer.  The service opens a deal
\* for a vendor without one.
EvaluateVendorResponse(deal, a, sent) ==
  LET Unchanged(action) == [action |-> action, deal |-> deal]
      held == IF deal = None THEN NewDeal ELSE deal
  IN  CASE a.orders -> Unchanged("REJECT")
        [] a.price # None /\ (a.price = 0 \/ a.price = Absurd) -> Unchanged("NEEDS_CLARIFICATION")
        [] a.currency = "foreign" -> Unchanged("NEEDS_CLARIFICATION")
        [] a.unsure -> Unchanged("NEEDS_CLARIFICATION")
        [] a.available = "no" ->
             [action |-> "DECLINED",
              deal |-> [held EXCEPT !.neg = "DECLINED", !.status = "CANCELLED"]]
        [] a.price = None -> [action |-> "NEEDS_CLARIFICATION", deal |-> held]
        [] OTHER -> Commercial(held, a.price, sent)

NoDecision(deal) == [action |-> "NONE", deal |-> deal]

-----------------------------------------------------------------------------
(* VoiceOutcomePipeline: a call is recorded once, validated, and judged if the  *)
(* vendor has a deal; extracted is what its notes were found to claim besides.  *)

RecordOutcome(p, extracted, event, records) ==
  LET currency == IF p.currency = "own" THEN event.currency ELSE "other"
      form == [price |-> p.price, currency |-> currency, availability |-> p.claim,
               contradictory |-> FALSE]
  IN  p @@ [validation |->
              ValidateClaims(event, form, ParseOutcome(form, extracted), records, 1)]

Known(s, session) == s.heard[session] # None

ProcessCallCompletion(s, session, t, extracted, event, records, sent) ==
  LET p == Parse(t)
      judged == IF Known(s, session) \/ s.deal = None THEN NoDecision(s.deal)
                ELSE EvaluateVendorResponse(s.deal, FirstHearing(t, p), sent)
  IN  IF Known(s, session) THEN [outcome |-> s.heard[session], action |-> "NONE", state |-> s]
      ELSE LET outcome == RecordOutcome(p, extracted, event, records)
           IN  [outcome |-> outcome, action |-> judged.action,
                state |-> [s EXCEPT !.heard[session] = outcome, !.deal = judged.deal]]

\* What the vendor said binds nobody: the user must hold the right to assign, or
\* the engagement be confirmed or approved already.  by.user: None, or whether
\* that user may assign.
Authorised(deal, user) ==
  IF user # None THEN user = "allowed"
  ELSE deal # None /\ (deal.status = "CONFIRMED" \/ deal.neg = "CONFIRMED" \/ deal.approved)

Bindable(event, outcome, slots, committed, override) ==
  EvaluateFeasibility(event, TRUE, outcome.validation, slots, committed, override) = "BIND"

\* The binding itself confirms the vendor's assignment, or makes one.
Bound(s) ==
  LET deal == IF s.deal = None THEN [NewDeal EXCEPT !.neg = "DISCOVERED"] ELSE s.deal
  IN  [s EXCEPT !.bound = TRUE, !.deal = [deal EXCEPT !.status = "CONFIRMED"]]

\* The pipeline left to itself binds a call it hears for the first time.
CompleteAndBind(s, session, t, extracted, event, records, sent, user) ==
  LET done == ProcessCallCompletion(s, session, t, extracted, event, records, sent)
      binds == /\ ~Known(s, session)
               /\ Bindable(event, done.outcome, records.slots, 0, FALSE)
               /\ Authorised(done.state.deal, user)
  IN  IF binds THEN Bound(done.state) ELSE done.state

-----------------------------------------------------------------------------
(* VoiceRecoveryService *)

MayCall(user) == user \notin {"stranger", "VIEWER"}

\* The reasons not to call, in their order: w tells what exists and who asks.
Refusal(s, w) ==
  CASE ~w.event -> "NOT_FOUND"
    [] ~MayCall(w.user) -> "FORBIDDEN"
    [] w.task = "missing" -> "NOT_FOUND"
    [] w.task = "of another event" -> "BAD_REQUEST"
    [] w.vendor = "missing" -> "NOT_FOUND"
    [] w.vendor = "without phone" -> "BAD_REQUEST"
    [] s.option \in {"INFEASIBLE", "STALE"} -> "BAD_REQUEST"
    [] OTHER -> "NONE"

\* A pause of the event is not among them.  connects: the call goes through.
InitiateRecoveryCall(s, w, connects) ==
  LET Answer(status, state, dialled) == [status |-> status, state |-> state, dialled |-> dialled] IN
  CASE Refusal(s, w) # "NONE" -> Answer(Refusal(s, w), s, FALSE)
    [] s.active = "fresh" -> Answer("ALREADY_ACTIVE", s, FALSE)
    [] ~connects -> Answer("FAILED", s, TRUE)
    [] OTHER -> Answer("INITIATED", [s EXCEPT !.active = "fresh"], TRUE)

Resolved(s) ==
  [Bound(s) EXCEPT !.active = "none", !.option = IF @ = None THEN None ELSE "EXECUTED"]

\* The refusal of the vendor is looked at before the pause, the pause before the
\* terms; a call without a decision of the pipeline is judged by its price alone.
ProcessRecoveryCallOutcome(s, session, t, extracted, event, records, sent, by) ==
  LET done == ProcessCallCompletion(s, session, t, extracted, event, records, sent)
      p == done.outcome
      judged == IF done.action = "NONE" /\ p.price # None
                THEN EvaluateVendorResponse(done.state.deal, SecondHearing(p), sent)
                ELSE [action |-> done.action, deal |-> done.state.deal]
      heard == [done.state EXCEPT !.deal = judged.deal]
      binds == by.auto /\ by.user = "allowed" /\ Bindable(event, p, records.slots, 0, TRUE)
      Answer(status, state) == [status |-> status, state |-> state]
  IN  CASE p.claim = "UNAVAILABLE" -> Answer("FAILED", [done.state EXCEPT !.active = "none"])
        [] s.paused -> Answer("BLOCKED_PAUSED", done.state)
        [] judged.action \in {"COUNTER_OFFER", "ESCALATE", "REJECT"} -> Answer("ESCALATED", heard)
        [] judged.action \in {"NEEDS_CLARIFICATION", "DECLINED"} ->
             Answer("REQUIRES_APPROVAL", heard)
        [] binds -> Answer("RECOVERY_RESOLVED", Resolved(heard))
        [] OTHER -> Answer("REQUIRES_APPROVAL", heard)
=============================================================================
