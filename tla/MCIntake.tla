------------------------------ MODULE MCIntake -------------------------------
(***************************************************************************)
(* What the conversations with EVENTRA may lead to: all events that turns  *)
(* and modifications of any number reach, among them turns that are        *)
(* planned by force and plannings that fail; the voice routes, over all    *)
(* previews and short series of confirmations; and the baselines of the    *)
(* domains.                                                                *)
(***************************************************************************)
EXTENDS Integers, Sequences, FiniteSets, SequencesExt, TLC

CONSTANTS Nothing, Refused

I == INSTANCE Intake WITH
  Canonical <- [food |-> "CATERING", hall |-> "VENUE"],
  UsualGuests <- 100, UsualBudget <- 500, UsualPlace <- "delhi", Pending <- "pending", UsualStart <- 30,
  Window <- 3, MaxPerWindow <- 2, CacheTime <- 2

E == INSTANCE EventDomains WITH DefaultStart <- 30

-----------------------------------------------------------------------------
(* Conversations *)

Silent ==
  [type |-> Nothing, words |-> "CONFERENCE", place |-> Nothing, date |-> Nothing, spoken |-> Nothing,
   vague |-> FALSE, count |-> Nothing, crowd |-> Nothing, amount |-> Nothing, currency |-> "INR",
   figure |-> Nothing, money |-> FALSE, digits |-> Nothing, services |-> {}, constraints |-> {}, heard |-> {}]
Figure(form, amount) == [form |-> form, amount |-> amount]

Turns ==
  {Silent,
   [Silent EXCEPT !.type = "WEDDING", !.place = "goa", !.count = 60, !.heard = {"guests"}],
   [Silent EXCEPT !.words = "COLLEGE_FEST", !.spoken = 5, !.crowd = 80, !.heard = {"guests"}],
   [Silent EXCEPT !.money = TRUE, !.amount = 900, !.services = {"food", "DECOR"}, !.heard = {"budget"}],
   [Silent EXCEPT !.money = TRUE, !.figure = Figure("plain", 0), !.place = "agra"],
   [Silent EXCEPT !.money = TRUE, !.digits = Figure("lakh", 700), !.date = 9, !.heard = {"guests", "budget"}],
   [Silent EXCEPT !.count = 0], [Silent EXCEPT !.vague = TRUE, !.money = TRUE, !.digits = Figure("year", 2026)]}

Changes ==
  {[field |-> "guests", value |-> 40], [field |-> "budget", value |-> 300], [field |-> "place", value |-> "pune"],
   [field |-> "remove", value |-> "DECOR"], [field |-> "add", value |-> "hall"], [field |-> "title", value |-> 0]}
Modifications ==
  {[changes |-> <<c>>, worded |-> <<>>] : c \in Changes}
  \cup {[changes |-> <<[field |-> "remove", value |-> "food"], [field |-> "guests", value |-> 0]>>, worded |-> "guests" :> 9],
        [changes |-> <<>>, worded |-> "guests" :> 70 @@ "add" :> "DECOR" @@ "remove" :> "food"]}

\* said holds what the organizer said last of each field, wanted the services asked for
\* and not taken back; asked is what was ever asked for, forced whether ever a plan was
\* made without an answer.
Begin ==
  [event |-> Nothing, said |-> [f \in {"place", "guests", "budget", "from"} |-> Nothing], wanted |-> {},
   asked |-> {}, forced |-> FALSE]

Says(m, f) == m[f] # Nothing /\ (f # "budget" \/ m[f] # 0)

TurnTaken(s, t, force, fails) ==
  LET m == I!ExtractIntent(t)
      done == I!ProcessIntake(s.event, m, "olga", force, fails)
  IN  [done |-> done, turn |-> TRUE, from |-> s, budget |-> IF m = Refused THEN Nothing ELSE m.budget,
       next |-> IF m = Refused THEN s
                ELSE [event |-> done.event,
                      said |-> [f \in DOMAIN s.said |-> IF Says(m, f) THEN m[f] ELSE s.said[f]],
                      wanted |-> s.wanted \cup m.services, asked |-> s.asked \cup done.missing,
                      forced |-> s.forced \/ force]]

Modified(s, x, fails) ==
  LET done == I!ModifyPlan(s.event, x.changes, x.worded, fails)
      Said(f) == IF f \in done.reported \cap DOMAIN s.said THEN done.event[f] ELSE s.said[f]
  IN  [done |-> done, turn |-> FALSE, from |-> s,
       next |-> [s EXCEPT !.event = done.event, !.said = [f \in DOMAIN s.said |-> Said(f)],
                          !.wanted = @ \cap IF done.event = Nothing THEN {} ELSE done.event.services]]

ConversationSteps(s) ==
  {TurnTaken(s, t, force, fails) : t \in Turns, force \in BOOLEAN, fails \in BOOLEAN}
  \cup {Modified(s, x, fails) : x \in Modifications, fails \in BOOLEAN}

Conversations ==
  LET closure[n \in 0 .. 2] ==
        IF n = 0 THEN [found |-> {Begin}, new |-> {Begin}]
        ELSE LET before == closure[n - 1]
                 new == UNION {{x.next : x \in ConversationSteps(s)} : s \in before.new} \ before.found
             IN  IF Cardinality(before.found) = 0 \/ Cardinality(before.new) = 0 THEN before
                 ELSE [found |-> before.found \cup new, new |-> new]
  IN  closure[2].found

-----------------------------------------------------------------------------
\* What the organizer has said of place, guests, budget and date, and the services
\* asked for, stay with the event through every later turn that says nothing of them:
\* questions, plans by force, modifications, and plannings that fail.
NothingSaidIsLost(x) ==
  x.next.event # Nothing =>
    /\ \A f \in DOMAIN x.next.said : x.next.said[f] # Nothing => x.next.event[f] = x.next.said[f]
    /\ x.next.wanted \subseteq x.next.event.services

\* No plan rests on a place, a number or a budget that was neither given nor asked
\* for, unless the organizer has forced one; and no turn plans an event without a day.
AskedBeforeAssumed(x) ==
  x.next.event # Nothing /\ x.next.event.plan # Nothing /\ ~x.next.forced =>
    /\ \A f \in {"place", "guests", "budget"} : x.next.said[f] # Nothing \/ f \in x.next.asked
    /\ x.turn /\ x.done.status = "PLAN_READY" => x.next.said["from"] # Nothing

\* A question asks for nothing that was answered, and touches neither the plan of the
\* event nor its life.
QuestionsAreFair(x) ==
  x.turn /\ x.done.status = "MISSING_INFO" =>
    /\ \A f \in x.done.missing : x.next.said[f] = Nothing \/ (f = "budget" /\ x.budget = 0)
    /\ x.from.event # Nothing => \A f \in {"type", "life", "plan", "owner"} : x.next.event[f] = x.from.event[f]

\* A modification tells all it has changed, changes neither the kind of the event nor
\* its day, and leaves it with guests and a budget.
ChangesAreReported(x) ==
  ~x.turn /\ x.from.event # Nothing =>
    /\ {f \in {"place", "guests", "budget", "services"} : x.next.event[f] # x.from.event[f]} \subseteq x.done.reported
    /\ \A f \in {"type", "from", "owner"} : x.next.event[f] = x.from.event[f]
    /\ x.next.event.guests > 0 /\ x.next.event.budget > 0

ASSUME ConversationsAreSound ==
  \A s \in Conversations : \A x \in ConversationSteps(s) :
    NothingSaidIsLost(x) /\ AskedBeforeAssumed(x) /\ QuestionsAreFair(x) /\ ChangesAreReported(x)

-----------------------------------------------------------------------------
(* Voice *)

Complete ==
  [Silent EXCEPT !.type = "WEDDING", !.count = 60, !.money = TRUE, !.amount = 900, !.date = 9]

Spoken ==
  {[t EXCEPT !.heard = h, !.place = p, !.services = s] :
     t \in (Turns \ {[Silent EXCEPT !.count = 0]}) \cup {Complete, [Complete EXCEPT !.date = Nothing]},
     h \in SUBSET {"guests", "budget"}, p \in {Nothing, "goa"},
     s \in {{}, {"food"}}}

\* What the preview shows is what is filed: where it finds nothing missing but a date,
\* and only there, it can be confirmed without defaults; the event then has what was
\* shown, with the suggestions taken up, and no number in it was not spoken of.
PreviewIsFiled(t, accepted) ==
  LET p == I!PreviewVoiceIntake(t)
      s == I!ConfirmVoiceIntake([cache |-> <<>>, events |-> <<>>], p.fields, accepted, FALSE, Nothing, 0, "olga", FALSE)
      e == s.state.events[s.event]
  IN  /\ s.status = "PLAN_READY" <=> p.missing \subseteq {"from"}
      /\ s.status = "PLAN_READY" =>
           /\ {"guests", "budget"} \subseteq t.heard
           /\ \A f \in {"type", "place", "guests", "budget"} : e[f] = p.fields[f]
           /\ p.fields.from # Nothing => e.from = p.fields.from
           /\ p.fields.services \cup accepted \subseteq e.services
      /\ p.suggestions \cap p.fields.services = {}

ASSUME PreviewsAreFiled == \A t \in Spoken, accepted \in {{}, {"DECOR"}} : PreviewIsFiled(t, accepted)

Full == [type |-> "WEDDING", place |-> "goa", guests |-> 60, budget |-> 900, currency |-> "INR", from |-> 5, to |-> 9,
         vague |-> FALSE, services |-> {}]
Confirmations ==
  [fields : {Full, [Full EXCEPT !.budget = 0], [Full EXCEPT !.guests = -1]}, key : {"k", "l", Nothing},
   after : {0, 1}, fails : BOOLEAN]

\* The states and answers of a series of confirmations, each some time after another.
Confirmed(series) ==
  LET run[i \in 0 .. Len(series)] ==
        IF i = 0 THEN [state |-> [cache |-> <<>>, events |-> <<>>], now |-> 0, answers |-> <<>>]
        ELSE LET before == run[i - 1]
                 c == series[i]
                 now == before.now + c.after
                 done == I!ConfirmVoiceIntake(before.state, c.fields, {}, FALSE, c.key, now, "olga", c.fails)
             IN  [state |-> done.state, now |-> now,
                  answers |-> Append(before.answers, [key |-> c.key, at |-> now, status |-> done.status, event |-> done.event])]
  IN  run[Len(series)]

\* Of the confirmations under one key, within the time the process remembers the first
\* that succeeded, all others are answered with its event and file none of their own;
\* other keys, and those without a key, each get an event of theirs.
OneEventPerKey(answers) ==
  \A i, j \in DOMAIN answers :
    i < j /\ answers[i].status = "PLAN_READY" /\ answers[j].status = "PLAN_READY" =>
      LET first == \A k \in 1 .. i - 1 : answers[k].event # answers[i].event
          same == answers[i].key = answers[j].key /\ answers[i].key # Nothing
      IN  /\ first /\ same /\ answers[j].at - answers[i].at < 2 => answers[j].event = answers[i].event
          /\ ~same => answers[j].event # answers[i].event

ASSUME ConfirmedOnce ==
  \A series \in SeqOf(Confirmations, 2) : \A c \in {x \in Confirmations : x.fields = Full /\ ~x.fails} :
    OneEventPerKey(Confirmed(Append(series, c)).answers)

\* However the calls of a client are spread, no more than the limit fall into any window
\* as long as it; and a client that has kept quiet for so long is heard.
ASSUME RateIsLimited ==
  \A gaps \in [1 .. 6 -> 0 .. 4] :
    LET at[i \in 0 .. 6] == IF i = 0 THEN 0 ELSE at[i - 1] + gaps[i]
        run[i \in 0 .. 6] ==
          IF i = 0 THEN [calls |-> <<>>, allowed |-> {}]
          ELSE LET answer == I!CheckTranscribeRateLimit(run[i - 1].calls, at[i])
               IN  [calls |-> answer.calls,
                    allowed |-> IF answer.allowed THEN run[i - 1].allowed \cup {i} ELSE run[i - 1].allowed]
        heard == run[6].allowed
    IN  \A i \in 1 .. 6 :
          /\ Cardinality({j \in heard : at[j] > at[i] - 3 /\ j <= i}) <= 2
          /\ i > 1 /\ gaps[i] >= 3 => i \in heard

-----------------------------------------------------------------------------
(* Domains *)

\* Every kind of event can be planned: its baseline is accepted, its dependencies close
\* no circle, the preparation of the venue comes before everything else, and whoever a
\* task needs is among the providers of its domain.
ASSUME BaselinesCanBePlanned ==
  /\ E!Registered = DOMAIN E!Domains
  /\ \A type \in E!Registered :
       LET d == E!Domains[type]
           g == E!BuildDependencies(d, E!GenerateTasks(d))
       IN  /\ E!IsAcyclic(g)
           /\ {t \in g.nodes : E!Preds(g, t) = {}} = {1}
           /\ \A t \in DOMAIN d.tasks : E!IsProviderCategoryCompatible(type, d.tasks[t].category)

Customs ==
  {{}} \cup {{[key |-> k, name |-> n, category |-> "", mandatory |-> m]} :
             k \in {"catering", "videography", "own"}, n \in {"", "photography", "Buffet"}, m \in BOOLEAN}

\* What is built from an event passes the stand-alone validation, titles of blanks
\* apart; it leaves no requirement of the domain out or without its name, and nothing
\* that must be had without a resource.
ASSUME SpecificationsAreValid ==
  \A e \in [title : {"given", "", " "}, type : {"WEDDING", "GALA", "OTHER", "TRIAL", Nothing},
            from : {Nothing, 5}, to : {Nothing, 5, 9}, guests : {-1, 0, 60}], custom \in Customs :
    LET spec == E!BuildSpecification(e, custom, {}, {})
    IN  spec # E!Invalid =>
          /\ E!ValidateSpecification(spec) \/ e.title = " "
          /\ {r.key : r \in E!Domains[spec.type].requirements} \subseteq {r.key : r \in spec.requirements}
          /\ \A r \in spec.requirements : r.name = "" => r.key \notin {d.key : d \in E!Domains[spec.type].requirements}
          /\ Cardinality(spec.requirements) = Cardinality({r.key : r \in spec.requirements})
          /\ E!ValidateRequirements(spec.requirements, E!PlanResources(spec.requirements)) = {}
=============================================================================
