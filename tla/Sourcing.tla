------------------------------ MODULE Sourcing ------------------------------
(***************************************************************************)
(* What an operations run leaves behind for the organizer: the categories  *)
(* it sources, the venues and providers it puts on the shortlist, and the  *)
(* selection of one of them (AutonomousOperationsService, with the searches *)
(* of VenueService and VendorService it uses).  One run is sequential.     *)
(*                                                                         *)
(* The state is [entries, vendors, runs, report, assigned, venue]: the     *)
(* shortlist of the event and the table of vendors, each in the order of   *)
(* its rows, the searches on record, what the run reports, the assignments *)
(* and the venue of the event.  A venue is [id, name, capacity, priced];   *)
(* those given are the active ones in the city, by name.  A vendor is a    *)
(* candidate of Discovery, known by its row; all are in the city.          *)
(***************************************************************************)
EXTENDS Discovery

CONSTANTS
  Canonical,  \* the category each word of a requirement or task stands for
  Taxonomy    \* the categories of providers there are

\* asked: the words of the requirements, then of the tasks.
CategoriesToSource(asked) ==
  LET named == FoldLeft(LAMBDA cs, word : IF Canonical[word] \in Taxonomy \ ToSet(cs)
                                          THEN Append(cs, Canonical[word]) ELSE cs, <<>>, asked)
  IN  IF named = <<>> THEN <<"VENUE", "CATERING", "AV_TECH">> ELSE named

-----------------------------------------------------------------------------
(* Searches on record and the shortlist *)

Running(category) == [category |-> category, status |-> "RUNNING"]

\* A search left running, by a run that failed, is taken up again.
OpenSearch(s, category) ==
  IF Running(category) \in ToSet(s.runs) THEN s ELSE [s EXCEPT !.runs = Append(@, Running(category))]

Close(s, category, count) ==
  LET n == CHOOSE m \in DOMAIN s.runs : s.runs[m] = Running(category)
      told == [category |-> category, count |-> count,
               status |-> IF count = 0 THEN "NO_CANDIDATES_FOUND" ELSE "RECOMMENDED"]
  IN  [s EXCEPT !.runs[n].status = "COMPLETED", !.report = Append(@, told)]

Recommended(id, provider, category, name, rank) ==
  [candidate |-> id, provider |-> provider, category |-> category, name |-> name,
   rank |-> rank, status |-> "RECOMMENDED"]

\* The candidate or its name is on the shortlist, in whatever category and status.
Listed(entries, e) ==
  \E f \in ToSet(entries) : f.name = e.name \/ (e.candidate # None /\ f.candidate = e.candidate)

FirstFive(seq) == SubSeq(seq, 1, Min({5, Len(seq)}))

-----------------------------------------------------------------------------
(* Venues *)

SearchVenues(venues, least) == FirstFive(SelectSeq(venues, LAMBDA v : v.capacity >= least))

\* In hundredths of a point; all are in the city.
ScoreVenue(v, guests) ==
  (IF v.capacity < guests THEN 1350 ELSE IF 2 * v.capacity <= 5 * guests THEN 4500 ELSE 3150)
  + 3500 + (IF v.priced THEN 1800 ELSE 1600)

\* Venues of four fifths of the guests or, if there is none, any.  Entries of this
\* search are not looked up: they are flushed with the commit at its end.
VenueOperations(s, venues, guests) ==
  LET large == SearchVenues(venues, (8 * guests) \div 10)
      found == IF large = <<>> THEN SearchVenues(venues, 0) ELSE large
      ranked == FoldLeft(InsertByScore, <<>>,
                  [n \in DOMAIN found |-> [venue |-> found[n], score |-> ScoreVenue(found[n], guests)]])
      entries == [n \in DOMAIN ranked |->
                    Recommended(ranked[n].venue.id, ranked[n].venue.id, "VENUE", ranked[n].venue.name, n)]
      new == SelectSeq(entries, LAMBDA e : ~Listed(s.entries, e))
  IN  Close([OpenSearch(s, "VENUE") EXCEPT !.entries = @ \o new], "VENUE", Len(found))

-----------------------------------------------------------------------------
(* Providers *)

\* If the search proposes nobody, the first vendors on file of the category are
\* taken, also those it has just rejected.
CachedCandidates(vendors, category) ==
  LET rows == SelectSeq([n \in DOMAIN vendors |-> n], LAMBDA n : category \in vendors[n].categories)
  IN  [k \in 1 .. Min({3, Len(rows)}) |-> [vendors[rows[k]] EXCEPT !.id = RowId(rows[k])]]

NewVendor(c, category, guests) ==
  [c EXCEPT !.id = None, !.link = None, !.offers = {}, !.categories = {category},
            !.cost = IF category = "CATERING" THEN 450 * guests ELSE Costing(@, 45000)]

\* One proposed provider is filed as the vendor of its name, known or new.  t is
\* [entries, flushed, vendors]: only what was flushed is looked up, which the
\* commit of a new vendor does.
Enlist(t, c, rank, category, guests) ==
  LET named == {n \in DOMAIN t.vendors : t.vendors[n].name = c.name}
      vendors == IF named = {} THEN Append(t.vendors, NewVendor(c, category, guests)) ELSE t.vendors
      flushed == IF named = {} THEN Len(t.entries) ELSE t.flushed
      provider == RowId(IF named = {} THEN Len(vendors) ELSE Min(named))
      e == Recommended(c.id, provider, category, c.name, rank)
  IN  [vendors |-> vendors, flushed |-> flushed,
       entries |-> IF Listed(SubSeq(t.entries, 1, flushed), e) THEN t.entries ELSE Append(t.entries, e)]

\* need is that of discovery for the category, without outreach; a search that
\* raises (found is None) leaves the record of itself running, and nothing else.
VendorOperations(s, need, found) ==
  LET opened == OpenSearch(s, need.category)
      search == ExecuteDiscovery(need, s.vendors, found, FALSE)
      pool == [n \in DOMAIN Proposed(search) |-> Proposed(search)[n].candidate]
      chosen == FirstFive(IF pool = <<>> THEN CachedCandidates(search.vendors, need.category) ELSE pool)
      before == [entries |-> s.entries, flushed |-> Len(s.entries), vendors |-> search.vendors]
      after == FoldLeft(LAMBDA t, n : Enlist(t, chosen[n], n, need.category, need.guests), before,
                        [n \in DOMAIN chosen |-> n])
  IN  IF found = None THEN opened
      ELSE Close([opened EXCEPT !.entries = after.entries, !.vendors = after.vendors],
                 need.category, Len(chosen))

-----------------------------------------------------------------------------
(* select_candidate *)

\* Whatever became of the entry before, it is selected.  A vendor gets one
\* assignment, of whichever category came first, and so does a venue.
SelectCandidate(s, n) ==
  LET e == s.entries[n]
      has == e.provider \in {a.vendor : a \in ToSet(s.assigned)}
  IN  [s EXCEPT
        !.entries[n].status = "SELECTED",
        !.assigned = IF has THEN @
                     ELSE Append(@, [vendor |-> e.provider, category |-> e.category, status |-> "ASSIGNED"]),
        !.venue = IF e.category = "VENUE" THEN e.provider ELSE @]
=============================================================================
