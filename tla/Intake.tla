------------------------------- MODULE Intake --------------------------------
(***************************************************************************)
(* The conversation an event begins with: IntakeService over what the      *)
(* language model has understood of a message, and the voice routes of     *)
(* api/routes/intake.py, which understand, show and only then file.        *)
(*                                                                         *)
(* A turn t, what was understood and which words the message has:          *)
(*   type, words    the kind of event the model names, and the one the     *)
(*                  words name (a conference when they name none);         *)
(*   place, date, spoken, vague  the place; the exact date of the model,   *)
(*                  the date found in the words, and an expression for one; *)
(*   count, crowd   the number of guests and the one in their expression;  *)
(*   amount, figure, money, digits  the budget as a number, as the         *)
(*                  expression for it, whether a word of money was said,   *)
(*                  and the figure the whole message reads as;             *)
(*   services, constraints, heard  heard are the numbers that preview      *)
(*                  finds spoken of: "guests", "budget".                   *)
(* A figure is [form, amount], form "lakh", "dollars", "plain" or "year".  *)
(*                                                                         *)
(* An event is [type, place, guests, budget, currency, from, to, services, *)
(* constraints, life, plan, owner], plan the kind and the services it was  *)
(* last planned for; Nothing is no event, no plan, nothing said.           *)
(***************************************************************************)
EXTENDS Integers, Sequences, FiniteSets, SequencesExt, TLC

CONSTANTS
  Nothing,
  Refused,          \* a negative budget, or guests that are no number of guests
  Canonical,        \* SERVICE_CATEGORY_MAP
  UsualGuests, UsualBudget, UsualPlace, Pending, UsualStart,
  Window, MaxPerWindow, CacheTime

Planned == {"WEDDING", "COLLEGE_FEST", "CONFERENCE"} \* the kinds intake files
Or(value, other) == IF value = Nothing THEN other ELSE value

-----------------------------------------------------------------------------
(* Normalization and extraction *)

NormalizeBudget(amount, figure, currency) ==
  LET Own(v) == [amount |-> v, currency |-> IF currency \in {"INR", "USD", "EUR", "GBP"} THEN currency ELSE "INR"]
  IN  CASE amount # Nothing -> IF amount < 0 THEN Refused ELSE Own(amount)
        [] figure = Nothing -> Own(Nothing)
        [] figure.form = "lakh" /\ figure.amount > 0 -> [amount |-> figure.amount, currency |-> "INR"]
        [] figure.form = "dollars" -> [amount |-> figure.amount, currency |-> "USD"]
        [] figure.form = "year" -> Own(Nothing)
        [] OTHER -> Own(figure.amount)

NormalizeGuestCount(count, crowd) ==
  CASE count # Nothing -> IF count <= 0 THEN Refused ELSE count
    [] crowd = Nothing \/ crowd = 0 -> Nothing
    [] OTHER -> crowd

NormalizeServiceCategory(service) ==
  IF service \in DOMAIN Canonical THEN Canonical[service] ELSE service

\* An amount counts only beside a word of money; then, for want of an expression,
\* the whole message is read for a figure.
BudgetOf(t) ==
  NormalizeBudget(IF t.money /\ t.amount # 0 THEN t.amount ELSE Nothing,
                  IF t.figure = Nothing /\ t.money THEN t.digits ELSE t.figure, t.currency)

StartOf(t) == Or(t.date, t.spoken)

Given(f) == {x \in DOMAIN f : f[x] # Nothing}

\* has: what the turn is taken to have said, the kind of event always.
ExtractIntent(t) ==
  LET guests == NormalizeGuestCount(t.count, t.crowd)
      budget == BudgetOf(t)
  IN  IF Refused \in {guests, budget} THEN Refused
      ELSE [type |-> IF t.type \in Planned THEN t.type ELSE t.words,
            place |-> t.place, guests |-> guests, budget |-> budget.amount, currency |-> budget.currency,
            from |-> StartOf(t), to |-> IF StartOf(t) = Nothing THEN Nothing ELSE StartOf(t) + 8,
            services |-> {NormalizeServiceCategory(s) : s \in t.services}, constraints |-> t.constraints,
            has |-> {"type"} \cup Given([place |-> t.place, guests |-> guests, budget |-> budget.amount,
                                         from |-> StartOf(t)])]

\* What the organizer has edited in the preview is not understood again.
FromOverrides(o) ==
  [type |-> Or(o.type, "CONFERENCE"), place |-> Or(o.place, UsualPlace), guests |-> Or(o.guests, UsualGuests),
   budget |-> Or(o.budget, UsualBudget), currency |-> Or(o.currency, "INR"), from |-> o.from, to |-> o.to,
   services |-> o.services, constraints |-> {},
   has |-> Given([type |-> o.type, place |-> o.place, guests |-> o.guests, budget |-> o.budget])
           \cup IF o.from # Nothing \/ o.vague THEN {"from"} ELSE {}]

-----------------------------------------------------------------------------
(* process_intake *)

DefaultServices(type) ==
  CASE type = "CONFERENCE" -> {"VENUE", "CATERING", "AV_TECH", "PHOTOGRAPHY", "TRANSPORT"}
    [] type = "WEDDING" -> {"VENUE", "CATERING", "DECOR", "PHOTOGRAPHY", "DJ_MUSIC"}
    [] type = "COLLEGE_FEST" -> {"VENUE", "AV_TECH", "DJ_MUSIC", "SECURITY", "CATERING"}
    [] OTHER -> {"VENUE", "CATERING", "AV_TECH"}

\* What a turn does not say is taken from the event, where its defaults count as said.
Merge(e, m) ==
  LET silent == IF e = Nothing THEN {}
                ELSE {f \in {"place", "guests", "budget", "from"} : f \notin m.has /\ e[f] # Nothing}
      Said(f) == IF f \in silent THEN e[f] ELSE m[f]
      services == m.services \cup IF e = Nothing THEN {} ELSE e.services
  IN  [m EXCEPT !.place = Said("place"), !.guests = Said("guests"), !.budget = Said("budget"),
                !.from = Said("from"), !.to = IF "from" \in silent THEN e.to ELSE @,
                !.has = @ \cup silent,
                !.services = IF services = {} THEN DefaultServices(m.type) ELSE services]

DetectMissingInfo(m) ==
  ({"from", "place", "guests", "budget"} \ m.has)
  \cup {f \in {"place", "guests"} : m[f] = Nothing} \cup {f \in {"budget"} : m[f] \in {Nothing, 0}}

OrZero(budget, other) == IF budget \in {Nothing, 0} THEN other ELSE budget

\* A question is asked: what is known is filed, and for a new event a stand-in for
\* what is not.
FileDraft(e, m, user) ==
  IF e = Nothing
  THEN [type |-> m.type, place |-> Or(m.place, Pending), guests |-> Or(m.guests, UsualGuests),
        budget |-> OrZero(m.budget, UsualBudget), currency |-> m.currency, from |-> m.from, to |-> m.to,
        services |-> m.services, constraints |-> {}, life |-> "DRAFT", plan |-> Nothing, owner |-> user]
  ELSE [e EXCEPT !.place = Or(m.place, @), !.guests = Or(m.guests, @), !.budget = OrZero(m.budget, @),
                 !.from = Or(m.from, @), !.to = IF m.from = Nothing THEN @ ELSE m.to,
                 !.services = m.services]

\* The event is filed to be planned, whatever its life has been until then.
FilePlan(e, m, user) ==
  LET Had(f, usual) == IF e = Nothing THEN usual ELSE e[f]
      from == Or(m.from, UsualStart)
  IN  [type |-> m.type, place |-> Or(m.place, Had("place", UsualPlace)),
       guests |-> Or(m.guests, Had("guests", UsualGuests)), budget |-> OrZero(m.budget, Had("budget", UsualBudget)),
       currency |-> m.currency, from |-> from, to |-> IF m.from = Nothing THEN from + 9 ELSE m.to,
       services |-> m.services, constraints |-> m.constraints, life |-> "DRAFT",
       plan |-> Had("plan", Nothing), owner |-> Had("owner", user)]

\* The filing is committed before the planning, which may fail.
Plan(e, fails) ==
  IF fails \/ e.guests < 0 \/ e.life \notin {"DRAFT", "SPECIFIED", "PLANNED", "LIVE"} 
  THEN [status |-> "ERROR", missing |-> {}, event |-> e]
  ELSE [status |-> "PLAN_READY", missing |-> {},
        event |-> [e EXCEPT !.life = "PLANNED", !.plan = [type |-> e.type, services |-> e.services]]]

ProcessIntake(e, m, user, force, fails) ==
  LET merged == Merge(e, m)
      missing == DetectMissingInfo(merged)
  IN  CASE m = Refused -> [status |-> "ERROR", missing |-> {}, event |-> e]
        [] missing # {} /\ ~force ->
             [status |-> "MISSING_INFO", missing |-> missing, event |-> FileDraft(e, merged, user)]
        [] OTHER -> Plan(FilePlan(e, merged, user), fails)

-----------------------------------------------------------------------------
(* modify_plan.  A change is [field, value]; a draft d is [event, reported]. *)

ApplyChange(d, c) ==
  LET Set(f, v) == [event |-> [d.event EXCEPT ![f] = v], reported |-> d.reported \cup {f}] IN
  CASE c.field \in {"guests", "budget"} /\ c.value # Nothing /\ c.value > 0 -> Set(c.field, c.value)
    [] c.field = "place" /\ c.value # Nothing -> Set("place", c.value)
    [] c.field = "remove" /\ NormalizeServiceCategory(c.value) \in d.event.services ->
         Set("services", d.event.services \ {NormalizeServiceCategory(c.value)})
    [] c.field = "add" /\ NormalizeServiceCategory(c.value) \notin d.event.services ->
         Set("services", d.event.services \cup {NormalizeServiceCategory(c.value)})
    [] OTHER -> d

ApplyAll(d, changes) == FoldLeft(ApplyChange, d, changes)

\* Only where the model's proposal changed nothing the words are read for changes, in
\* this order: worded is a function from some of these to a value.
Fallback(worded) ==
  SelectSeq([i \in 1 .. 5 |->
               LET field == <<"budget", "guests", "place", "remove", "add">>[i]
               IN  [field |-> field, value |-> IF field \in DOMAIN worded THEN worded[field] ELSE Nothing]],
            LAMBDA c : c.value # Nothing)

ModifyPlan(e, changes, worded, fails) ==
  LET proposed == ApplyAll([event |-> e, reported |-> {}], changes)
      draft == IF proposed.reported # {} THEN proposed ELSE ApplyAll(proposed, Fallback(worded))
  IN  IF e = Nothing THEN [status |-> "ERROR", missing |-> {}, event |-> e, reported |-> {}]
      ELSE Plan([draft.event EXCEPT !.life = "DRAFT"], fails) @@ [reported |-> draft.reported]

-----------------------------------------------------------------------------
(* The voice routes *)

\* The times of the calls a client has made: the window slides.
CheckTranscribeRateLimit(calls, now) ==
  LET recent == SelectSeq(calls, LAMBDA c : c > now - Window)
  IN  IF Len(recent) >= MaxPerWindow THEN [allowed |-> FALSE, calls |-> calls]
      ELSE [allowed |-> TRUE, calls |-> Append(recent, now)]

SuggestionsByType(type) ==
  CASE type = "WEDDING" -> {"DECOR", "PHOTOGRAPHY", "DJ_MUSIC", "MAKEUP"}
    [] type = "CONFERENCE" -> {"AV_TECH", "CATERING", "TRANSPORT", "PHOTOGRAPHY"}
    [] type = "COLLEGE_FEST" -> {"AV_TECH", "DJ_MUSIC", "SECURITY", "CATERING"}
    [] OTHER -> {"AV_TECH", "CATERING", "PHOTOGRAPHY"}

Unsaid(fields) ==
  {f \in {"place"} : fields[f] = Nothing} \cup {f \in {"guests", "budget"} : fields[f] \in {Nothing, 0}}

\* A number nobody spoke of is not shown.
PreviewVoiceIntake(t) ==
  LET m == ExtractIntent(t)
      Spoken(f) == IF f \in t.heard THEN m[f] ELSE Nothing
      fields == [type |-> m.type, place |-> m.place, guests |-> Spoken("guests"), budget |-> Spoken("budget"),
                 currency |-> m.currency, from |-> m.from, to |-> m.to, vague |-> t.vague,
                 services |-> m.services]
  IN  IF m = Refused THEN Refused
      ELSE [fields |-> fields,
            missing |-> Unsaid(fields) \cup {f \in {"from"} : m.from = Nothing /\ ~t.vague},
            suggestions |-> SuggestionsByType(m.type) \ m.services]

\* The process keeps under a key what it has answered; s is [cache, events].  Dates
\* are never asked for.
Remember(cache, key, now, n) ==
  IF key = Nothing THEN cache ELSE (key :> [time |-> now, event |-> n]) @@ cache

ConfirmVoiceIntake(s, fields, accepted, defaults, key, now, user, fails) ==
  LET said == [f \in DOMAIN fields |-> IF f \in Unsaid(fields) THEN Nothing ELSE fields[f]]
      intent == FromOverrides([said EXCEPT !.services = @ \cup accepted, !.vague = TRUE])
      done == ProcessIntake(Nothing, intent, user, TRUE, fails)
      n == Len(s.events) + 1
  IN  CASE key \in DOMAIN s.cache /\ now - s.cache[key].time < CacheTime ->
             [status |-> "PLAN_READY", event |-> s.cache[key].event, state |-> s]
        [] Unsaid(fields) # {} /\ ~defaults -> [status |-> "BAD_REQUEST", event |-> Nothing, state |-> s]
        [] OTHER -> [status |-> done.status, event |-> n,
                     state |-> [events |-> Append(s.events, done.event),
                                cache |-> IF done.status = "PLAN_READY" THEN Remember(s.cache, key, now, n)
                                          ELSE s.cache]]
=============================================================================
