---------------------------- MODULE EventDomains ----------------------------
(***************************************************************************)
(* What EVENTRA knows of weddings, conferences and college fests before an *)
(* organizer has said anything (app/domains), and what a plan is made from *)
(* it: DomainRegistry, SpecificationService, TaskGenerator,                *)
(* DependencyBuilder, ResourcePlanner and RequirementInterpreter.          *)
(*                                                                         *)
(* The baselines are the program's own.  A task is known by its place in   *)
(* the list of its domain, a dependency, finish to start, is <<task,       *)
(* successor, lag>>, and a requirement is [key, name, category, mandatory], *)
(* the name of a baseline one being its key.                               *)
(***************************************************************************)
EXTENDS TaskGraph

CONSTANTS Nothing, DefaultStart \* nothing; when an event without a date is taken to start
Invalid == [invalid |-> TRUE] \* SpecificationValidationError

Task(category, critical, minutes) == [category |-> category, critical |-> critical, minutes |-> minutes]
Needs(category, keys, mandatory) ==
  {[key |-> k, name |-> k, category |-> category, mandatory |-> mandatory] : k \in keys}

-----------------------------------------------------------------------------
(* Weddings *)

WeddingTasks ==
  <<Task("venue", TRUE, 90), Task("lighting", TRUE, 60),               \* 1 venue_prep, 2 power
    Task("decoration", FALSE, 180), Task("transportation", FALSE, 90), \* 3 decor, 4 seating
    Task("catering", TRUE, 120), Task("music", FALSE, 75),             \* 5 catering, 6 sound_music
    Task("music", FALSE, 30), Task("photography", FALSE, 45),          \* 7 sound_check, 8 photo_video
    Task("decoration", TRUE, 60), Task("transportation", FALSE, 45),   \* 9 ceremony, 10 guest_area
    Task("venue", TRUE, 30)>>                                          \* 11 readiness_check

WeddingDependencies ==
  <<<<1, 2, 0>>, <<1, 3, 15>>, <<1, 4, 0>>, <<1, 5, 30>>, <<2, 6, 0>>, <<6, 7, 0>>, <<3, 9, 0>>, <<3, 8, 0>>,
    <<4, 10, 0>>, <<9, 11, 0>>, <<7, 11, 0>>, <<5, 11, 0>>, <<10, 11, 0>>>>

WeddingRequirements ==
  Needs("VENUE", {"venue"}, TRUE) \cup Needs("EQUIPMENT", {"power"}, TRUE)
  \cup Needs("CATERING", {"catering"}, TRUE) \cup Needs("DECOR", {"decoration"}, TRUE)
  \cup Needs("PHOTOGRAPHY", {"photography"}, TRUE) \cup Needs("VIDEOGRAPHY", {"videography"}, FALSE)
  \cup Needs("ENTERTAINMENT", {"music"}, TRUE) \cup Needs("LOGISTICS", {"seating"}, TRUE)
  \cup Needs("LIGHTING", {"lighting"}, TRUE) \cup Needs("LOGISTICS", {"transportation"}, FALSE)
  \cup Needs("CEREMONY", {"ceremony"}, TRUE)

WeddingDomain ==
  [tasks |-> WeddingTasks, dependencies |-> WeddingDependencies, requirements |-> WeddingRequirements,
   providers |-> {"catering", "decoration", "photography", "videography", "music", "lighting",
                  "transportation", "venue"}]

-----------------------------------------------------------------------------
(* Conferences *)

ConferenceTasks ==
  <<Task("venue", TRUE, 90), Task("equipment", TRUE, 60),     \* 1 venue_setup, 2 power
    Task("logistics", FALSE, 90), Task("stage", FALSE, 90),   \* 3 seating, 4 stage
    Task("av", TRUE, 90), Task("av", TRUE, 45),               \* 5 av, 6 mic
    Task("av", TRUE, 90), Task("logistics", FALSE, 60),       \* 7 display, 8 registration
    Task("internet", TRUE, 45), Task("catering", FALSE, 60),  \* 9 connectivity_check, 10 catering
    Task("av", TRUE, 45), Task("venue", TRUE, 30)>>           \* 11 tech_check, 12 readiness

ConferenceDependencies ==
  <<<<1, 3, 0>>, <<1, 4, 0>>, <<1, 2, 0>>, <<1, 8, 15>>, <<1, 10, 30>>, <<2, 5, 0>>, <<2, 9, 0>>, <<4, 7, 0>>,
    <<5, 6, 0>>, <<5, 7, 0>>, <<6, 11, 0>>, <<7, 11, 0>>, <<9, 11, 0>>, <<3, 12, 0>>, <<8, 12, 0>>,
    <<10, 12, 0>>, <<11, 12, 0>>>>

ConferenceRequirements ==
  Needs("VENUE", {"venue"}, TRUE) \cup Needs("LOGISTICS", {"seating"}, TRUE)
  \cup Needs("EQUIPMENT", {"stage", "av", "microphones", "projector_display", "power"}, TRUE)
  \cup Needs("GENERAL", {"connectivity", "registration", "signage"}, TRUE)
  \cup Needs("CATERING", {"catering"}, TRUE)

ConferenceDomain ==
  [tasks |-> ConferenceTasks, dependencies |-> ConferenceDependencies,
   requirements |-> ConferenceRequirements,
   providers |-> {"av", "catering", "stage", "lighting", "connectivity", "internet", "equipment", "signage",
                  "venue", "logistics"}]

-----------------------------------------------------------------------------
(* College fests *)

CollegeFestTasks ==
  <<Task("venue", TRUE, 120), Task("power", TRUE, 120),       \* 1 venue_prep, 2 power
    Task("stage", TRUE, 240), Task("equipment", TRUE, 90),    \* 3 stage, 4 equipment
    Task("sound", TRUE, 120), Task("lighting", FALSE, 90),    \* 5 sound, 6 lighting
    Task("security", TRUE, 60), Task("logistics", FALSE, 60), \* 7 security, 8 registration
    Task("sound", TRUE, 60), Task("catering", FALSE, 60),     \* 9 technical_checks, 10 catering
    Task("venue", TRUE, 30)>>                                 \* 11 final_readiness

CollegeFestDependencies ==
  <<<<1, 3, 0>>, <<1, 2, 0>>, <<1, 7, 30>>, <<1, 8, 30>>, <<1, 10, 30>>, <<3, 4, 0>>, <<2, 4, 0>>, <<4, 5, 0>>,
    <<4, 6, 0>>, <<5, 9, 0>>, <<6, 9, 0>>, <<9, 11, 0>>, <<7, 11, 0>>, <<8, 11, 0>>, <<10, 11, 0>>>>

CollegeFestRequirements ==
  Needs("VENUE", {"venue"}, TRUE) \cup Needs("STAFFING", {"security"}, TRUE)
  \cup Needs("EQUIPMENT", {"stage", "power", "sound", "lighting", "equipment"}, TRUE)
  \cup Needs("GENERAL", {"registration"}, TRUE) \cup Needs("CATERING", {"catering"}, TRUE)
  \cup Needs("GENERAL", {"decoration"}, FALSE)

CollegeFestDomain ==
  [tasks |-> CollegeFestTasks, dependencies |-> CollegeFestDependencies,
   requirements |-> CollegeFestRequirements,
   providers |-> {"sound", "lighting", "stage", "security", "catering", "equipment", "power", "decoration",
                  "venue", "logistics"}]

-----------------------------------------------------------------------------
(* BaseEventDomain and DomainRegistry *)

SoundEdges(tasks, dependencies) ==
  /\ \A d \in ToSet(dependencies) : d[1] # d[2] /\ {d[1], d[2]} \subseteq DOMAIN tasks
  /\ \A i, j \in DOMAIN dependencies :
       i # j => <<dependencies[i][1], dependencies[i][2]>> # <<dependencies[j][1], dependencies[j][2]>>

\* Nobody asks whether the dependencies close a circle.
ValidateBaseline(domain) == SoundEdges(domain.tasks, domain.dependencies)

Domains == [WEDDING |-> WeddingDomain, CONFERENCE |-> ConferenceDomain, COLLEGE_FEST |-> CollegeFestDomain]
Registered == {t \in DOMAIN Domains : ValidateBaseline(Domains[t])}

Alias ==
  [t \in {"EXHIBITION", "EXPO", "CORPORATE", "SUMMIT", "HACKATHON", "MEETUP", "OTHER"} |-> "CONFERENCE"]
  @@ [t \in {"FESTIVAL", "FEST", "CULTURAL", "CONCERT", "PARTY"} |-> "COLLEGE_FEST"]
  @@ [t \in {"MARRIAGE", "RECEPTION", "GALA"} |-> "WEDDING"]

GetDomain(type) ==
  CASE type \in Registered -> type
    [] type \in DOMAIN Alias \ Registered -> Alias[type]
    [] OTHER -> Nothing

IsProviderCategoryCompatible(type, category) ==
  GetDomain(type) # Nothing /\ category \in Domains[GetDomain(type)].providers

-----------------------------------------------------------------------------
(* SpecificationService.  An event is [title, type, from, to, guests]: times in *)
(* hours, the default start being a time of its own; "" is a title that was     *)
(* left out, " " one of blanks.                                                 *)

\* What is asked for overrides the baseline requirement of its key; "" overrides
\* no name and no category.
Override(baseline, custom) ==
  LET Base(c) == IF \E r \in baseline : r.key = c.key THEN CHOOSE r \in baseline : r.key = c.key ELSE c
      Kept(new, old) == IF new = "" THEN old ELSE new
  IN  {r \in baseline : \A c \in custom : c.key # r.key}
      \cup {[c EXCEPT !.name = Kept(@, Base(c).name), !.category = Kept(@, Base(c).category)] : c \in custom}

\* Times that make no sense are put right and not refused; the event keeps its own.
BuildSpecification(event, custom, constraints, objectives) ==
  LET domain == Domains[GetDomain(event.type)]
      from == IF event.from = Nothing THEN DefaultStart ELSE event.from
  IN  IF \/ event.type = Nothing \/ GetDomain(event.type) = Nothing \/ event.guests < 0
         \/ " " \in constraints \/ " " \in objectives \/ ~SoundEdges(domain.tasks, domain.dependencies)
      THEN Invalid
      ELSE [title |-> IF event.title = "" THEN "Untitled Event" ELSE event.title,
            type |-> GetDomain(event.type), from |-> from,
            to |-> IF event.to = Nothing \/ event.to <= from THEN from + 8 ELSE event.to,
            guests |-> event.guests, requirements |-> Override(domain.requirements, custom),
            tasks |-> domain.tasks, dependencies |-> domain.dependencies, providers |-> domain.providers]

ValidateSpecification(spec) ==
  /\ spec.title \notin {"", " "}
  /\ spec.to > spec.from
  /\ spec.guests >= 0
  /\ SoundEdges(spec.tasks, spec.dependencies)

-----------------------------------------------------------------------------
(* The planners *)

\* The tasks and dependencies of a plan are the baseline's, whatever is required.
GenerateTasks(spec) == [t \in DOMAIN spec.tasks |-> spec.tasks[t] @@ [status |-> "PENDING"]]

BuildDependencies(spec, tasks) ==
  LET deps == ToSet(spec.dependencies)
      edges == {<<d[1], d[2]>> : d \in deps}
  IN  IF \E d \in deps : ~({d[1], d[2]} \subseteq DOMAIN tasks) THEN Invalid
      ELSE [nodes |-> DOMAIN tasks, edges |-> edges, dur |-> [t \in DOMAIN tasks |-> tasks[t].minutes],
            lag |-> [e \in edges |-> (CHOOSE d \in deps : <<d[1], d[2]>> = e)[3]]]

\* Resources are known by their names.
PlanResources(requirements) == {r.name : r \in {q \in requirements : q.mandatory}}

\* The mandatory requirements without a resource of their name.
ValidateRequirements(requirements, resources) ==
  {r \in requirements : r.mandatory /\ r.name \notin resources}
=============================================================================
