----------------------------- MODULE MCOutreach -----------------------------
(***************************************************************************)
(* Instance of Outreach: two approvals, so that two selections at once can *)
(* file one each, and one message that may be delivered again.  And what   *)
(* the rules about providers guarantee, over small sets of reports,        *)
(* records and search results: the validation of a reported outcome with   *)
(* the decision to bind, the search for providers, and its shortlists; and *)
(* what the directory of vendors and venues promises an organizer.         *)
(***************************************************************************)
EXTENDS Outreach, Integers, Sequences, FiniteSets, SequencesExt, TLC

MCHash == [m \in Messages |-> m]

Symmetry == Permutations(Slots) \cup Permutations(Approvals)

-----------------------------------------------------------------------------
CONSTANTS None, Unknown

V == INSTANCE OutcomeValidation WITH Eight <- 8
D == INSTANCE Discovery WITH UsualCost <- 2000

-----------------------------------------------------------------------------
(* Outcomes and bindings *)

MCEvents ==
  [guests : {0, 50}, total : {0, 100}, currency : {"INR"}, from : {None, 10}, ends : {TRUE},
   to : {14}, diet : {"none", "wished", "required"}]

MCForms ==
  [price : {None, 60, 150}, currency : {"INR", "USD"},
   availability : {"UNKNOWN", "AVAILABLE", "UNAVAILABLE"}, contradictory : {FALSE}]

Extractions ==
  {<<>>, "CAPACITY" :> 40, "CAPACITY" :> 60, "VEGETARIAN" :> FALSE,
   "CAPACITY" :> 60 @@ "PRICE" :> [amount |-> 90, currency |-> "INR"],
   "CAPACITY" :> 60 @@ "AVAILABILITY" :> "AVAILABLE" @@ "VEGETARIAN" :> TRUE}

Entry(status, from, to, at) == [status |-> status, from |-> from, to |-> to, at |-> at]
Calendars ==
  {{}, {Entry("AVAILABLE", 8, 20, 0)}, {Entry("AVAILABLE", 8, 12, 0)},
   {Entry("AVAILABLE", 8, 20, 0), Entry("BOOKED", 13, 15, 0)}}
Additions == {{}, {Entry("BLOCKED", 9, 11, 2)}, {Entry("BOOKED", 14, 15, 2)}, {Entry("BOOKED", 6, 18, 2)}}

Knowledge == [recorded : {None, 45}, item : {0, 80}, slots : Calendars, catering : {FALSE}]

Validated(e, f, x, r) == V!ValidateClaims(e, f, V!ParseOutcome(f, x), r, 1)

\* A vendor is bound only if nothing fails or conflicts and, unless the organizer
\* insists, something was found to be right: what the service promises of a
\* decision it does not take from the overall status alone.
ASSUME BindableIsSupported ==
  \A e \in MCEvents, f \in MCForms, x \in Extractions, r \in Knowledge :
    LET v == Validated(e, f, x, r) IN
    \A override \in BOOLEAN :
      V!EvaluateFeasibility(e, TRUE, v, r.slots, 0, override) = "BIND" =>
        /\ v.overall \notin {"CONFLICT", "FAILED"}
        /\ override \/ v.overall \in {"VALIDATED", "PARTIALLY_VALIDATED"}

\* A price that was named and is bound fits the item, the budget beside what is
\* promised already, and the currency: also when no amount is kept with the result.
ASSUME BindableIsAffordable ==
  \A e \in MCEvents, f \in MCForms, x \in Extractions, r \in Knowledge :
    LET claims == V!ParseOutcome(f, x)
        v == V!ValidateClaims(e, f, claims, r, 1)
    IN  \A committed \in {0, 30, 50} :
          /\ "PRICE" \in DOMAIN claims
          /\ V!EvaluateFeasibility(e, TRUE, v, r.slots, committed, TRUE) = "BIND"
          => /\ claims["PRICE"].currency = e.currency
             /\ r.item > 0 => claims["PRICE"].amount <= r.item
             /\ e.total > 0 => committed + claims["PRICE"].amount <= e.total

\* If the end of the event is known, a vendor who is bound is not booked for any of
\* it, whether the booking was there at the validation or was entered after it.
ASSUME BoundIsFree ==
  \A e \in MCEvents, f \in MCForms, x \in Extractions, r \in Knowledge, more \in Additions :
    /\ e.from # None
    /\ V!EvaluateFeasibility(e, TRUE, Validated(e, f, x, r), r.slots \cup more, 0, TRUE) = "BIND"
    => \A s \in r.slots \cup more : V!Taken(s) => ~V!Overlaps(s, e.from, e.to)

\* A capacity nobody mentions is never held against a vendor: the report that could
\* not be read binds wherever the one that could does.
ASSUME SilenceNeverRefuses ==
  \A e \in MCEvents, f \in MCForms, r \in Knowledge, capacity \in {40, 60} :
    V!EvaluateFeasibility(e, TRUE, Validated(e, f, "CAPACITY" :> capacity, r), r.slots, 0, FALSE) = "BIND"
    => V!EvaluateFeasibility(e, TRUE, Validated(e, f, <<>>, r), r.slots, 0, FALSE) = "BIND"

-----------------------------------------------------------------------------
(* Discovery *)

Provider ==
  [id |-> "a", link |-> None, phone |-> "1", site |-> None, name |-> "A", distance |-> 50,
   institution |-> FALSE, open |-> TRUE, categories |-> {"CATERING"}, capacity |-> 100, cost |-> 500,
   rating |-> 45, reviews |-> 20, renown |-> 575, offers |-> {"veg"}]

\* One further off than the first circle, one without a good name, one nobody can
\* phone and that may serve no vegetables, one too small and of no known id, and the
\* first again from another directory.
Found ==
  {Provider,
   [Provider EXCEPT !.id = "b", !.name = "B", !.phone = "2", !.distance = 120],
   [Provider EXCEPT !.id = "c", !.name = "C", !.phone = "3", !.rating = 30],
   [Provider EXCEPT !.id = "d", !.name = "D", !.phone = None, !.site = "d", !.offers = {}],
   [Provider EXCEPT !.id = None, !.link = "e", !.name = "E", !.phone = "5", !.capacity = 20],
   [Provider EXCEPT !.id = "x", !.link = "x", !.distance = 20]}

Answers == {<<>>} \cup {<<x>> : x \in Found} \cup {<<x, y>> : x \in Found, y \in Found}

OnFile ==
  LET row == [Provider EXCEPT !.id = None, !.name = "W", !.phone = "9", !.rating = None,
                              !.reviews = None, !.cost = 0, !.capacity = None]
  IN  {<<>>, <<row>>, <<[row EXCEPT !.id = "a", !.name = "A", !.phone = None, !.link = "e"]>>}

Needs == [category : {"CATERING"}, guests : {60}, budget : {1000}, amenities : {{"veg"}}, type : {"WEDDING"},
          target : {2}, base : {100}, rounds : {2}, batch : {1}, outreach : BOOLEAN]

Outcome == [need : Needs, vendors : OnFile, first : Answers, second : Answers, sent : {TRUE}]
Search(o) == D!ExecuteDiscovery(o.need, o.vendors, <<<<o.first>>, <<o.second>>>>, o.sent)

\* Whoever is proposed meets the limits of the request, within the widest circle
\* allowed, as far as anything is known of him; he is proposed once, and no one of
\* another key is both proposed and rejected or neither.
ASSUME ShortlistIsSound ==
  \A o \in Outcome :
    LET s == Search(o)
        Keys(seq) == {D!SeenKey(seq[n]) : n \in DOMAIN seq}
        proposed == [n \in DOMAIN s.qualified |-> s.qualified[n].candidate]
    IN  /\ s.radius <= o.need.base + 150
        /\ \A n \in DOMAIN proposed :
             LET c == proposed[n] IN
             /\ c.distance <= s.radius /\ c.cost <= o.need.budget
             /\ c.capacity = None \/ c.capacity >= o.need.guests
             /\ o.need.amenities \subseteq c.offers \/ c.rating >= 40
        /\ Keys(proposed) \cap Keys(s.rejected) = {}
        /\ Cardinality(Keys(proposed) \cup Keys(s.rejected)) = Len(proposed) + Len(s.rejected)
        /\ s.unique = Len(proposed) + Len(s.rejected)
        /\ D!TargetMet(s, o.need) => \A r \in ToSet(D!TopMatches(s)) : r.availability = "confirmed"

\* What a search has put on file it finds again: the same search, on the table the
\* first one left, adds no row.
ASSUME FiledOnce ==
  \A o \in Outcome :
    LET s == Search(o)
        again == FoldLeft(LAMBDA vs, r : D!UpsertProvider(vs, r.candidate), s.vendors, s.qualified)
    IN  Len(again) = Len(s.vendors)

-----------------------------------------------------------------------------
(* What the operations runs of an event leave on its shortlist, over all short *)
(* histories: a search that fails, another, a selection, and a search again, of *)
(* a provider category or of venues.                                            *)

S == INSTANCE Sourcing WITH UsualCost <- 2000,
       Canonical <- [caterer |-> "CATERING", food |-> "CATERING", hall |-> "VENUE", magic |-> "MAGIC"],
       Taxonomy <- {"CATERING", "VENUE", "AV_TECH"}

Bare(vendors) ==
  [entries |-> <<>>, vendors |-> vendors, runs |-> <<>>, report |-> <<>>, assigned |-> <<>>, venue |-> None]

Catering == [category |-> "CATERING", guests |-> 60, budget |-> 1000, amenities |-> {"veg"},
             type |-> "WEDDING", target |-> 2, base |-> 100, rounds |-> 2, batch |-> 1, outreach |-> FALSE]

\* Two answers of one name, and one known under another name by its telephone.
Namesakes ==
  {Provider, [Provider EXCEPT !.id = "b", !.phone = "2"], [Provider EXCEPT !.id = "f", !.name = "F", !.phone = "9"],
   [Provider EXCEPT !.id = "d", !.name = "D", !.phone = None, !.site = "d", !.offers = {}, !.rating = 30]}

Searches == {<<<<<<>>>>, <<<<>>>>>>} \cup
            {<<<<<<x, y>>>>, <<<<>>>>>> : x \in Namesakes, y \in Namesakes}

Halls ==
  LET Hall(id, name, capacity) == [id |-> id, name |-> name, capacity |-> capacity, priced |-> TRUE]
  IN  {<<>>, <<Hall("h1", "A", 60), Hall("h2", "G", 200)>>, <<Hall("h3", "G", 20), Hall("h4", "H", 30)>>}

SourceAll(s, found) == S!VendorOperations(s, Catering, found)
SelectOne(s, n) == IF n \in DOMAIN s.entries THEN S!SelectCandidate(s, n) ELSE s

Histories == [vendors : OnFile, halls : Halls, first : Searches, chosen : {0, 2}, again : Searches]

After(h) ==
  LET tried == SourceAll(Bare(h.vendors), None)
      sourced == SourceAll(S!VenueOperations(tried, h.halls, Catering.guests), h.first)
      chosen == SelectOne(sourced, h.chosen)
  IN  [tried |-> tried, sourced |-> sourced, chosen |-> chosen,
       again |-> S!VenueOperations(SourceAll(chosen, h.again), h.halls, Catering.guests)]

-----------------------------------------------------------------------------
\* A second run takes nothing from the organizer: the entries there are stay as they
\* are, selected or not, with the assignments; and the names it adds are new ones.
\* Rows of the vendor table keep their place and their name.
ASSUME SourcingAddsOnly ==
  \A h \in Histories :
    LET a == After(h)
        Names(seq) == {seq[n].name : n \in DOMAIN seq}
        had == Len(a.chosen.entries)
    IN  /\ IsPrefix(a.chosen.entries, a.again.entries)
        /\ Names(SubSeq(a.again.entries, had + 1, Len(a.again.entries))) \cap Names(a.chosen.entries) = {}
        /\ \A n \in DOMAIN a.chosen.vendors : a.again.vendors[n].name = a.chosen.vendors[n].name
        /\ a.again.assigned = a.chosen.assigned /\ a.again.venue = a.chosen.venue

\* Nobody is on the shortlist who cannot be engaged: behind every entry for a
\* provider is a vendor of its name, behind every venue one of the catalogue; and
\* whoever the run reports as recommended is found there by name.
ASSUME NobodyIsMadeUp ==
  \A h \in Histories :
    LET a == After(h)
        proposed == S!Proposed(S!ExecuteDiscovery(Catering, a.chosen.vendors, h.again, FALSE))
    IN  /\ \A e \in ToSet(a.again.entries) :
             IF e.category = "VENUE"
             THEN \E v \in ToSet(h.halls) : v.id = e.provider /\ v.name = e.name
             ELSE \E n \in DOMAIN a.again.vendors : S!RowId(n) = e.provider /\ a.again.vendors[n].name = e.name
        /\ \A n \in DOMAIN proposed : n <= 5 =>
             \E e \in ToSet(a.again.entries) : e.name = proposed[n].candidate.name

\* A failed search is taken up by the next run, not doubled; when a run has ended
\* well no search is left running, and each is reported once with its outcome.
ASSUME SearchesEnd ==
  \A h \in Histories :
    LET a == After(h) IN
    /\ a.tried.runs = <<S!Running("CATERING")>> /\ SourceAll(a.tried, None) = a.tried
    /\ \A s \in {a.sourced, a.again} :
         /\ \A r \in ToSet(s.runs) : r.status = "COMPLETED"
         /\ Len(s.report) = Len(s.runs)
         /\ \A t \in ToSet(s.report) : (t.status = "RECOMMENDED") <=> (t.count > 0)

\* However often it is selected, a provider has one assignment, and every entry that
\* was selected has one for its provider.
ASSUME SelectedOnce ==
  \A h \in Histories, n \in 1 .. 3 :
    LET s == SelectOne(SelectOne(After(h).again, n), n) IN
    /\ IsInjective([k \in DOMAIN s.assigned |-> s.assigned[k].vendor])
    /\ \A e \in ToSet(s.entries) :
         e.status = "SELECTED" => \E k \in DOMAIN s.assigned : s.assigned[k].vendor = e.provider

\* A requirement or a task of a known category is sourced once, in the order asked.
ASSUME EachCategoryOnce ==
  \A asked \in BoundedSeq({"caterer", "food", "hall", "magic"}, 4) :
    LET cs == S!CategoriesToSource(asked) IN
    /\ IsInjective(cs) /\ ToSet(cs) \subseteq {"CATERING", "VENUE", "AV_TECH"}
    /\ "hall" \in ToSet(asked) => "VENUE" \in ToSet(cs)
    /\ {"caterer", "food"} \cap ToSet(asked) # {} => "CATERING" \in ToSet(cs)

-----------------------------------------------------------------------------
(* The directory *)

Places == {"hotel", "town", "far"}
L == INSTANCE VendorDirectory WITH
       UsualCost <- 2000, None <- Unknown, Parts <- {<<"CATER", "CATERING">>, <<"town", "oldtown">>},
       Apart <- [p \in Places |-> [q \in Places |-> IF p = q THEN 0 ELSE IF "far" \in {p, q} THEN 400 ELSE 30]]

Caterer ==
  [id |-> Unknown, link |-> Unknown, phone |-> "1", site |-> Unknown, name |-> "A", distance |-> Unknown,
   institution |-> FALSE, open |-> TRUE, categories |-> {"CATERING"}, capacity |-> 100, cost |-> 500,
   rating |-> 45, reviews |-> 20, renown |-> 575, offers |-> {"vegetarian"}, raw |-> "CATERING",
   city |-> "town", place |-> "town", status |-> "ACTIVE", slots |-> {}]

Busy == {[status |-> "BOOKED", from |-> 12, to |-> 14]}

Listing ==
  << Caterer, [Caterer EXCEPT !.name = "B", !.phone = "2", !.rating = Unknown, !.cost = 0, !.slots = Busy],
     [Caterer EXCEPT !.name = "C", !.phone = "3", !.offers = {}, !.city = "oldtown", !.cost = 300, !.rating = 49],
     [Caterer EXCEPT !.name = "D", !.phone = "4", !.categories = {"MUSIC"}, !.raw = "BAND", !.capacity = Unknown],
     [Caterer EXCEPT !.name = "E", !.phone = "5", !.status = "INACTIVE", !.place = "far"] >>

News ==
  << [Caterer EXCEPT !.name = "F", !.phone = "6", !.capacity = 40],
     [Caterer EXCEPT !.name = "B", !.phone = "2", !.place = "far"],
     [Caterer EXCEPT !.name = "G", !.phone = "7", !.place = Unknown, !.institution = TRUE, !.rating = 30],
     [Caterer EXCEPT !.name = "H", !.phone = "8", !.categories = {"MUSIC"}] >>

Inquiries ==
  [category : {Unknown, "CATERING"}, budget : {Unknown, 400}, radius : {Unknown, 100}, guests : {Unknown, 60},
   from : {Unknown, 10}, location : {"town"}, hard : {{}, {"vegetarian"}}, soft : {{}, {"rated"}, {"rated", "vegetarian"}}]

Tasks == {Unknown, [category |-> "CATERING", vegetarian |-> TRUE]}
Required == {{}, {[type |-> "CATERING", name |-> "vegetarian", required |-> TRUE],
                 [type |-> "MUSIC", name |-> "loud", required |-> TRUE]}}

Asked == [q : Inquiries, task : Tasks, records : Required, limit : {1, 3}]
MCEvent == [venue |-> "hotel", location |-> "town"]
Listed(a) == L!GenerateShortlist(Listing, a.q, a.task, a.records, MCEvent, News, a.limit)

-----------------------------------------------------------------------------
\* Whoever is shortlisted keeps every limit of the request, as far as it is known,
\* has all that the organizer, the task and the event require, and no vendor that
\* was left off fits as well and better matches the wishes.
ASSUME ShortlistIsFit ==
  \A a \in Asked :
    LET s == Listed(a)
        chosen == {s.vendors[r] : r \in ToSet(s.shortlist)}
        others == {s.vendors[r] : r \in {t \in ToSet(s.rows) \ ToSet(s.shortlist) :
                                           L!QualifyVendor(s.vendors[t], L!Compared(s.asked)) = "QUALIFIED"}}
        Wishes(v) == Cardinality(L!PreferencesMatched(v, s.asked))
    IN  /\ \A v \in chosen :
             /\ a.q.budget # Unknown => v.cost <= a.q.budget
             /\ a.q.guests # Unknown /\ v.capacity # Unknown => v.capacity >= a.q.guests
             /\ a.q.radius # Unknown /\ v.distance # Unknown => v.distance <= a.q.radius
             /\ a.q.hard \subseteq v.offers
             /\ a.task # Unknown => "vegetarian" \in v.offers /\ v.categories = {"CATERING"}
        /\ \A v \in chosen, w \in others : Wishes(w) <= Wishes(v)
        /\ others # {} => Len(s.shortlist) = a.limit

\* A requirement more, a smaller budget or circle, or more guests never qualify anyone;
\* wishes change the order at most, and what is not known is never held against one.
ASSUME StricterIsSmaller ==
  \A v \in Range(Listing), q \in Inquiries :
    LET Fits(w, r) == L!QualifyVendor(w, r) = "QUALIFIED"
    IN  /\ Fits(v, [q EXCEPT !.hard = @ \cup {"vegetarian"}]) => Fits(v, q)
        /\ Fits(v, [q EXCEPT !.budget = 400]) => Fits(v, [q EXCEPT !.budget = 500])
        /\ Fits(v, [q EXCEPT !.budget = 500]) => Fits(v, [q EXCEPT !.budget = Unknown])
        /\ Fits(v, [q EXCEPT !.guests = 60]) => Fits(v, [q EXCEPT !.guests = Unknown])
        /\ Fits(v, q) <=> Fits(v, [q EXCEPT !.soft = {}])
        /\ Fits(v, q) => Fits([v EXCEPT !.capacity = Unknown, !.cost = 0, !.distance = Unknown], q)

\* The order of the matrix is one whatever the order of the candidates.
ASSUME RankingIsTotal ==
  \A q \in Inquiries, rows \in [1 .. 3 -> 1 .. 4] :
    LET other == <<rows[3], rows[1], rows[2]>> IN
    Cardinality(ToSet(rows)) = 3 => L!CompareCandidates(Listing, rows, q) = L!CompareCandidates(Listing, other, q)

\* A search for a time finds just the vendors that the check of each calendar, made
\* when one of them is engaged, calls free; and so it is with venues and suitability.
ASSUME SearchAgreesWithCheck ==
  \A slots \in SUBSET [status : {"AVAILABLE", "BOOKED", "BLOCKED", "MAINTENANCE"}, from : {9, 12}, to : {12, 14}],
     status \in {"ACTIVE", "INACTIVE"}, from \in {8, 10, 12}, to \in {12, 13} :
    LET v == [Caterer EXCEPT !.slots = slots, !.status = status]
        hall == [name |-> "X", city |-> "town", capacity |-> 50, rate |-> 10, amenities |-> {"stage"},
                 status |-> status, slots |-> slots, place |-> Unknown]
        inTime == [category |-> Unknown, city |-> "town", status |-> "ACTIVE", cost |-> Unknown, from |-> from, to |-> to]
        wanted == [city |-> "town", least |-> 50, status |-> "ACTIVE", rate |-> Unknown, from |-> from, to |-> to,
                   amenities |-> {"stage"}]
    IN  Cardinality(slots) <= 2 /\ from < to =>
        /\ (L!SearchVendorRows(<<v>>, inTime) = <<1>>) <=> L!CheckProviderAvailability(v, from, to)
        /\ (L!SearchVenueRows(<<hall>>, wanted) = <<1>>) <=> L!CheckVenueSuitability(hall, wanted)

\* A discovery repeated finds the same vendors on file and adds none; it returns the
\* nearest first, nobody known to be beyond the circle and nobody of another category.
ASSUME DiscoveredOnce ==
  \A found \in BoundedSeq(Range(News), 3), radius \in {Unknown, 100}, location \in {Unknown, "far"},
     category \in {"CATERING", "OTHER"} :
    LET request == [category |-> category, location |-> location, mode |-> "NEAR_EVENT", here |-> Unknown, radius |-> radius]
        s == L!DiscoverProviders(Listing, request, MCEvent, found)
        again == L!DiscoverProviders(s.vendors, request, MCEvent, found)
        Far(n) == IF s.hits[n].distance = Unknown THEN 999990 ELSE s.hits[n].distance
    IN  /\ again.vendors = s.vendors
        /\ \A n \in DOMAIN again.hits : ~again.hits[n].new
        /\ [n \in DOMAIN s.hits |-> s.hits[n].row] = [n \in DOMAIN again.hits |-> again.hits[n].row]
        /\ \A n \in DOMAIN s.hits :
             /\ n > 1 => Far(n - 1) <= Far(n)
             /\ radius # Unknown /\ s.hits[n].distance # Unknown => s.hits[n].distance <= radius
             /\ category # "OTHER" => category \in s.vendors[s.hits[n].row].categories

-----------------------------------------------------------------------------
VenuesTried == [name : {"X", "Y"}, city : {"town"}, capacity : {20, 57, 58, 99, 100, 250, 251, 500, 501}, rate : {10, 40, 90},
          amenities : {{}, {"stage"}, {"stage", "lawn"}}, status : {"ACTIVE"}, slots : {{}}, place : {Unknown}]
Wanted == [guests : {100}, budget : {Unknown, 1000}, words : {{}, {"stage"}, {"stage", "lawn"}}]

\* The rejected venues are just those with too little room: no lack of equipment and
\* no rate rejects a venue by its points.  One with room for all, up to five times
\* over, is never behind one without that is equal otherwise.
ASSUME RoomDecides ==
  \A v \in VenuesTried, q \in Wanted :
    /\ (L!VenueTier(v, q) = "rejected") <=> (L!CapacityFit(v.capacity, q.guests) = "EXCEEDED")
    /\ \A more \in {100, 250, 500} :
         v.capacity < q.guests => L!SuitabilityScore(v, q) <= L!SuitabilityScore([v EXCEPT !.capacity = more], q)

\* The same venues found again are the ones on file, which keep their capacity, rate
\* and status.
ASSUME VenuesFiledOnce ==
  \A had \in [name : {"X"}, capacity : {20}, status : {"ACTIVE", "INACTIVE"}],
     names \in BoundedSeq({"X", "Y"}, 2) :
    LET hall == [name |-> "X", city |-> "town", capacity |-> 500, rate |-> 300, amenities |-> {},
                 status |-> "ACTIVE", slots |-> {}, place |-> "far"]
        found == [n \in DOMAIN names |-> [hall EXCEPT !.name = names[n]]]
        first == L!DiscoverLiveVenues(<<[hall EXCEPT !.capacity = had.capacity, !.status = had.status, !.place = Unknown]>>,
                                      "town", found)
    IN  /\ L!DiscoverLiveVenues(first, "town", found) = first
        /\ first[1].capacity = had.capacity /\ first[1].status = had.status
=============================================================================
