-------------------------- MODULE VendorDirectory --------------------------
(***************************************************************************)
(* The directory of vendors and venues an organizer looks things up in:    *)
(* VendorService (search, calendar, discovery for an event, qualification, *)
(* comparison and shortlist) and VenueService (search, calendar,           *)
(* suitability, live discovery and recommendation).                        *)
(*                                                                         *)
(* A vendor is a candidate of Discovery with [raw, city, place, status,    *)
(* slots]: the category its source gave it, "" for none, where it is, and  *)
(* its calendar.  A venue is [name, city, capacity, rate, amenities,       *)
(* status, slots, place].  Tables are in the order of their names.  What a *)
(* text offers (capabilities, description, name) is a set of words.        *)
(***************************************************************************)
EXTENDS Discovery

CONSTANTS
  Parts,  \* the pairs of different words, the first of which occurs in the second
  Apart   \* the distance of two places

Within(a, b) == a = "" \/ a = b \/ <<a, b>> \in Parts

-----------------------------------------------------------------------------
(* Calendars *)

Clashes(slots, busy, from, to) == {s \in slots : s.status \in busy /\ s.from < to /\ from < s.to}

VendorBusy == {"BOOKED", "BLOCKED"}
VenueBusy == VendorBusy \cup {"MAINTENANCE"}

CheckProviderAvailability(v, from, to) == v.status = "ACTIVE" /\ Clashes(v.slots, VendorBusy, from, to) = {}
CheckVenueAvailability(v, from, to) == v.status = "ACTIVE" /\ Clashes(v.slots, VenueBusy, from, to) = {}

\* The filters of a search; None where nothing is asked.  A cost nobody knows is
\* within no limit, here.
SearchVendorRows(vendors, q) ==
  SelectSeq([n \in DOMAIN vendors |-> n], LAMBDA n :
    LET v == vendors[n] IN
    /\ q.category = None \/ q.category \in v.categories
    /\ q.city = None \/ Within(q.city, v.city)
    /\ q.status = None \/ v.status = q.status
    /\ q.cost = None \/ v.cost \in 1 .. q.cost
    /\ q.from = None \/ Clashes(v.slots, VendorBusy, q.from, q.to) = {})

SearchVenueRows(venues, q) ==
  SelectSeq([n \in DOMAIN venues |-> n], LAMBDA n :
    LET v == venues[n] IN
    /\ q.city = None \/ Within(q.city, v.city)
    /\ q.least = None \/ v.capacity >= q.least
    /\ q.status = None \/ v.status = q.status
    /\ q.rate = None \/ v.rate <= q.rate
    /\ q.from = None \/ Clashes(v.slots, VenueBusy, q.from, q.to) = {}
    /\ q.amenities \subseteq v.amenities)

CheckVenueSuitability(v, q) ==
  /\ v.capacity >= q.least
  /\ q.amenities \subseteq v.amenities
  /\ q.from = None \/ CheckVenueAvailability(v, q.from, q.to)

-----------------------------------------------------------------------------
(* qualify_vendor_deterministically: q is [category, budget, radius, guests,  *)
(* from, location, hard, soft].                                               *)

\* What is not asked passes, what is not known is left open.
Verdict(asked, known, ok) ==
  IF ~asked THEN "PASS" ELSE IF ~known THEN "UNKNOWN" ELSE IF ok THEN "PASS" ELSE "FAIL"

\* Any of the names of the category is part of the other, also the empty one.
CategoryMatch(v, q) ==
  q.category = None \/ \E word \in v.categories \cup {v.raw} : Within(word, q.category) \/ Within(q.category, word)

BudgetStatus(v, q) == Verdict(q.budget # None, v.cost > 0, v.cost <= q.budget)
DistanceStatus(v, q) == Verdict(q.radius # None, v.distance # None, v.distance <= q.radius)
CapacityStatus(v, q) == Verdict(q.guests # None, v.capacity # None, v.capacity >= q.guests)
LocationStatus(v, q) ==
  Verdict(q.location # None, v.city # "", Within(q.location, v.city) \/ Within(v.city, q.location))

\* A calendar without an entry for the eight hours from the date is a free one.
AvailabilityStatus(v, q) ==
  IF q.from = None THEN "UNKNOWN"
  ELSE IF CheckProviderAvailability(v, q.from, q.from + 8) THEN "PASS" ELSE "FAIL"

MissingRequirements(v, q) == q.hard \ v.offers

PreferencesMatched(v, q) ==
  {p \in q.soft : CASE p = "rated" -> v.rating # None /\ v.rating >= 40
                    [] p = "established" -> v.reviews # None /\ v.reviews >= 10
                    [] OTHER -> p \in v.offers}

QualifyVendor(v, q) ==
  IF /\ CategoryMatch(v, q) /\ MissingRequirements(v, q) = {}
     /\ "FAIL" \notin {BudgetStatus(v, q), DistanceStatus(v, q), LocationStatus(v, q),
                       CapacityStatus(v, q), AvailabilityStatus(v, q)}
  THEN "QUALIFIED" ELSE "DISQUALIFIED"

\* What the answer admits it does not know.
UnknownFacts(v, q) ==
  {"live_availability", "quote", "staffing", "deposit"}
  \cup (IF CapacityStatus(v, q) = "UNKNOWN" THEN {"capacity"} ELSE {})
  \cup (IF BudgetStatus(v, q) = "UNKNOWN" THEN {"base_cost"} ELSE {})
  \cup (IF DistanceStatus(v, q) = "UNKNOWN" THEN {"distance"} ELSE {})

-----------------------------------------------------------------------------
(* compare_candidates_deterministically *)

\* Neither the date nor the place of the event reaches the qualification.
Compared(q) == [q EXCEPT !.from = None, !.location = None]

SortKey(vendors, q, row) ==
  LET v == vendors[row]
      Given(x, none) == IF x = None THEN none ELSE x
  IN  << IF QualifyVendor(v, Compared(q)) = "QUALIFIED" THEN 0 ELSE 2,
         -Cardinality(PreferencesMatched(v, q)), -Given(v.rating, -10), -Given(v.reviews, -1),
         IF v.cost = 0 THEN 9999999 ELSE v.cost, Given(v.distance, 999990), row >>

Before(a, b) == \E k \in DOMAIN a : a[k] < b[k] /\ \A j \in 1 .. (k - 1) : a[j] = b[j]

\* rows in the order of the matrix.
CompareCandidates(vendors, rows, q) ==
  SortSeq(rows, LAMBDA r, s : Before(SortKey(vendors, q, r), SortKey(vendors, q, s)))

Shortlist(vendors, rows, q, limit) ==
  LET fit == SelectSeq(CompareCandidates(vendors, rows, q),
                       LAMBDA r : QualifyVendor(vendors[r], Compared(q)) # "DISQUALIFIED")
  IN  SubSeq(fit, 1, Min({limit, Len(fit)}))

-----------------------------------------------------------------------------
(* discover_providers and discover_providers_for_event *)

\* Where distances are counted from: a place that was named, the user, or the venue
\* or else the place of the event.
Anchor(request, event) ==
  IF request.location # None THEN request.location
  ELSE IF request.mode = "NEAR_ME" /\ request.here # None THEN request.here
  ELSE FirstKnown(<<event.venue, event.location, request.here, "default">>)

RowOf(vendors, c) == LET n == FindMatch(vendors, c) IN IF n = 0 THEN Len(vendors) + 1 ELSE n

\* Everyone of the category is put on file, whoever is too far away as well; an
\* institution is returned too, marked as rejected.
DiscoverOne(t, c, request, anchor) ==
  LET row == RowOf(t.vendors, c)
      vendors == UpsertProvider(t.vendors, c)
      place == vendors[row].place
      distance == IF place = None THEN None ELSE Apart[anchor][place]
      hit == [row |-> row, distance |-> distance, new |-> row > Len(t.vendors),
              qualification |-> IF c.institution THEN "rejected" ELSE "qualified"]
  IN  IF request.category # "OTHER" /\ request.category \notin c.categories THEN t
      ELSE [vendors |-> [vendors EXCEPT ![row].distance = distance],
            hits |-> IF request.radius # None /\ distance # None /\ distance > request.radius
                     THEN t.hits ELSE Append(t.hits, hit)]

Nearest(hits) ==
  LET Far(h) == IF h.distance = None THEN 999990 ELSE h.distance
  IN  FoldLeft(LAMBDA sorted, h : SelectSeq(sorted, LAMBDA g : Far(g) <= Far(h)) \o <<h>>
                                  \o SelectSeq(sorted, LAMBDA g : Far(g) > Far(h)), <<>>, hits)

DiscoverProviders(vendors, request, event, found) ==
  LET place == Anchor(request, event)
      got == FoldLeft(LAMBDA t, c : DiscoverOne(t, c, request, place), [vendors |-> vendors, hits |-> <<>>], found)
  IN  [vendors |-> got.vendors, hits |-> Nearest(got.hits)]

-----------------------------------------------------------------------------
(* generate_deterministic_shortlist *)

\* The requirements on record for the category, or for any, stand beside those
\* asked; a task that names vegetarian food, if only to exclude it, requires it.
WithRequirements(q, task, records) ==
  LET mine == {r \in records : \/ q.category = None \/ r.type = "GENERAL"
                               \/ Within(q.category, r.type) \/ Within(r.type, q.category)}
  IN  [q EXCEPT !.hard = @ \cup {r.name : r \in {s \in mine : s.required}}
                           \cup (IF task # None /\ task.vegetarian THEN {"vegetarian"} ELSE {}),
                !.soft = @ \cup {r.name : r \in {s \in mine : ~s.required}}]

OfTask(q, task) ==
  IF q.category = None /\ task # None THEN [q EXCEPT !.category = task.category] ELSE q

\* Vendors on file in the place, or else anywhere, then those found.  The place is
\* always given, so that distances are counted from it and never from the venue.
GenerateShortlist(vendors, q, task, records, event, found, limit) ==
  LET asked == WithRequirements(OfTask(q, task), task, records)
      Filed(city) == SearchVendorRows(vendors, [category |-> asked.category, city |-> city, status |-> "ACTIVE",
                                                cost |-> None, from |-> None, to |-> None])
      local == IF Filed(q.location) = <<>> /\ asked.category # None THEN Filed(None) ELSE Filed(q.location)
      request == [category |-> IF asked.category = None THEN "OTHER" ELSE asked.category,
                  location |-> q.location, mode |-> "NEAR_EVENT", here |-> None, radius |-> q.radius]
      search == DiscoverProviders(vendors, request, event, found)
      merged == FoldLeft(LAMBDA rows, h : IF h.row \in ToSet(rows) THEN rows ELSE Append(rows, h.row),
                         local, search.hits)
  IN  [vendors |-> search.vendors, rows |-> merged, asked |-> asked,
       shortlist |-> Shortlist(search.vendors, merged, asked, limit)]

-----------------------------------------------------------------------------
(* discover_live_venues and recommend_best_venues *)

\* A venue of the name in the city is the one on file; new ones are not looked up
\* among themselves, as they are flushed together.
DiscoverLiveVenues(venues, city, found) ==
  FoldLeft(LAMBDA vs, f :
             LET known == {n \in DOMAIN venues : venues[n].name = f.name /\ venues[n].city = city}
             IN  IF known = {} THEN Append(vs, [f EXCEPT !.city = city, !.status = "ACTIVE"])
                 ELSE [vs EXCEPT ![Min(known)].place = Fill(@, f.place)],
           venues, found)

CapacityScore(capacity, guests) ==
  IF capacity >= guests
  THEN IF 2 * capacity <= 5 * guests THEN 98 ELSE IF capacity <= 5 * guests THEN 90 ELSE 80
  ELSE Max({30, (90 * guests - 70 * (guests - capacity)) \div guests})

CapacityFit(capacity, guests) ==
  IF capacity >= guests THEN "FIT" ELSE IF CapacityScore(capacity, guests) >= 60 THEN "TIGHT" ELSE "EXCEEDED"

AmenityScore(amenities, words) ==
  LET matched == Cardinality(words \cap amenities)
  IN  IF words = {} THEN 85 ELSE IF matched = 0 THEN 65
      ELSE Min({99, 75 + (25 * matched) \div Cardinality(words)})

\* A day of eight hours, against two or three fifths of the budget.
VenueBudgetScore(rate, budget) ==
  IF budget = None THEN 90 ELSE IF 20 * rate <= budget THEN 95 ELSE IF 40 * rate <= 3 * budget THEN 80 ELSE 65

\* In exact arithmetic; the code adds floating-point shares and cuts.
SuitabilityScore(v, q) ==
  LET shares == 45 * CapacityScore(v.capacity, q.guests) + 35 * AmenityScore(v.amenities, q.words)
                + 20 * VenueBudgetScore(v.rate, q.budget)
  IN  Max({45, Min({99, shares \div 100})})

VenueTier(v, q) ==
  IF CapacityFit(v.capacity, q.guests) = "EXCEEDED" \/ SuitabilityScore(v, q) < 60 THEN "rejected"
  ELSE IF SuitabilityScore(v, q) >= 80 THEN "top_matches" ELSE "other_available_options"

\* Rows by falling score; those on file count whatever their status.
RankVenues(venues, city, q) ==
  LET rows == SelectSeq([n \in DOMAIN venues |-> n], LAMBDA n : venues[n].city = city)
  IN  FoldLeft(InsertByScore, <<>>, [k \in DOMAIN rows |->
        [row |-> rows[k], score |-> SuitabilityScore(venues[rows[k]], q), tier |-> VenueTier(venues[rows[k]], q)]])
=============================================================================
