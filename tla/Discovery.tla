----------------------------- MODULE Discovery -----------------------------
(***************************************************************************)
(* The search for providers: QualificationEngine, DiscoveryRankingEngine,  *)
(* DiscoveryOutreachService, AgenticDiscoveryController and                *)
(* ProviderDeduplicator.  One run is sequential, so it is a function of    *)
(* what the searches return.                                               *)
(*                                                                         *)
(* A candidate is [id, link, phone, site, name, distance, institution,     *)
(* open, categories, capacity, cost, rating, reviews, renown, offers]:     *)
(* None where nothing is known, a cost of 0 for no cost; distances and     *)
(* ratings count tenths, renown is the share, in thousandths, that the     *)
(* logarithm of the reviews gives.  A need is [category, guests, budget,   *)
(* amenities, type, target, base, rounds, batch, outreach].                *)
(***************************************************************************)
EXTENDS Integers, FiniteSets, Sequences, SequencesExt, FiniteSetsExt, Functions, TLC

CONSTANTS None, UsualCost

FirstKnown(values) == LET known == SelectSeq(values, LAMBDA v : v # None)
                      IN  IF known = <<>> THEN None ELSE Head(known)

-----------------------------------------------------------------------------
(* QualificationEngine *)

Legitimate(c) == ~c.institution /\ c.open /\ FirstKnown(<<c.phone, c.site, c.link>>) # None

WithinLimits(c, need, radius) ==
  /\ need.guests > 0 /\ c.capacity # None => c.capacity >= need.guests
  /\ need.budget > 0 => c.cost <= need.budget
  /\ c.distance <= radius

\* Missing amenities are forgiven, for the outreach to ask about, to a provider
\* with a good name.
Evaluate(c, need, radius) ==
  IF \/ ~Legitimate(c)
     \/ need.category # "OTHER" /\ need.category \notin c.categories
     \/ ~WithinLimits(c, need, radius)
  THEN "rejected"
  ELSE IF need.amenities \subseteq c.offers THEN "qualified"
  ELSE IF c.rating # None /\ c.rating >= 40 /\ c.reviews >= 10 THEN "uncertain"
  ELSE "rejected"

-----------------------------------------------------------------------------
(* DiscoveryRankingEngine *)

\* The weights in hundredths; "fit" stands for the factors that score 0.85.
Weights(type) ==
  CASE type = "WEDDING" ->
         [fit |-> 20, rating |-> 20, reviews |-> 15, location |-> 15, price |-> 0, contact |-> 10, scale |-> 20]
    [] type = "CORPORATE_CONFERENCE" ->
         [fit |-> 25, rating |-> 40, reviews |-> 10, location |-> 15, price |-> 0, contact |-> 10, scale |-> 0]
    [] type = "COLLEGE_FEST" ->
         [fit |-> 15, rating |-> 10, reviews |-> 0, location |-> 15, price |-> 30, contact |-> 5, scale |-> 25]
    [] OTHER ->
         [fit |-> 25, rating |-> 20, reviews |-> 15, location |-> 20, price |-> 10, contact |-> 10, scale |-> 0]

\* The share of each factor in thousandths; what is unknown scores in the middle.
Shares(c, need) ==
  [fit |-> 850,
   rating |-> IF c.rating = None THEN 700 ELSE 20 * c.rating,
   reviews |-> c.renown,
   location |-> Max({0, 1000 - 4 * c.distance}),
   price |-> IF need.budget > 0 /\ c.cost > 0 THEN Max({0, 1000 - (500 * c.cost) \div need.budget}) ELSE 750,
   contact |-> IF c.phone # None THEN (IF c.site # None THEN 1000 ELSE 850)
               ELSE IF c.site # None THEN 750 ELSE 500,
   scale |-> IF c.capacity = None \/ need.guests = 0 THEN 750
             ELSE IF c.capacity < need.guests THEN 500
             ELSE IF c.capacity <= 3 * need.guests THEN 1000 ELSE 800]

ScoreCandidate(c, need) ==
  LET share == Shares(c, need)
      weight == Weights(need.type)
      points == weight.fit * share.fit + weight.rating * share.rating + weight.reviews * share.reviews
                + weight.location * share.location + weight.price * share.price
                + weight.contact * share.contact + weight.scale * share.scale
  IN  Min({1000, (points + 50) \div 100})

\* By falling score, those of one score as they came.
InsertByScore(ranked, item) ==
  SelectSeq(ranked, LAMBDA r : r.score >= item.score) \o <<item>>
  \o SelectSeq(ranked, LAMBDA r : r.score < item.score)

\* The verdict is looked up by id or, for want of one, by name.
VerdictKey(c) == FirstKnown(<<c.id, c.name>>)

RankCandidates(candidates, need, verdicts) ==
  LET kept == SelectSeq(candidates, LAMBDA c : verdicts[VerdictKey(c)] # "rejected")
      Item(c) == [candidate |-> c, verdict |-> verdicts[VerdictKey(c)],
                  availability |-> "unconfirmed", score |-> ScoreCandidate(c, need)]
  IN  FoldLeft(LAMBDA ranked, c : InsertByScore(ranked, Item(c)), <<>>, kept)

-----------------------------------------------------------------------------
(* DiscoveryOutreachService, as discovery calls it: a dispatch that fails is   *)
(* pending, one that does not is answered at once from the rating.             *)

Contacted(item, sent) ==
  [item EXCEPT !.availability =
     IF item.candidate.phone = None THEN "uncontacted"
     ELSE IF ~sent THEN "pending_response"
     ELSE IF item.candidate.rating = None \/ item.candidate.rating >= 40 THEN "confirmed" ELSE "declined"]

\* The first of those not contacted, up to the size of a batch.
ContactBatch(pool, batch, sent) ==
  LET waiting(n) == Cardinality({k \in 1 .. n : pool[k].availability = "unconfirmed"})
  IN  [n \in DOMAIN pool |->
         IF pool[n].availability = "unconfirmed" /\ waiting(n) <= batch
         THEN Contacted(pool[n], sent) ELSE pool[n]]

-----------------------------------------------------------------------------
(* ProviderDeduplicator, on a table of vendors in the order of their rows *)

SameProvider(v, c) ==
  << c.id # None /\ v.id = c.id, c.link # None /\ v.link = c.link, c.site # None /\ v.site = c.site,
     c.phone # None /\ v.phone = c.phone, v.name = c.name >>

\* The row that matches by the strongest of the five signs; 0 for none.
FindMatch(vendors, c) ==
  LET rows(tier) == {n \in DOMAIN vendors : SameProvider(vendors[n], c)[tier]}
      tiers == {tier \in 1 .. 5 : rows(tier) # {}}
  IN  IF tiers = {} THEN 0 ELSE Min(rows(Min(tiers)))

Fill(had, found) == IF had = None THEN found ELSE had
Costing(had, usual) == IF had = 0 THEN usual ELSE had

\* What a row lacks is filled in, the cost with a usual one; of what it has, only
\* rating and reviews are renewed.
UpsertProvider(vendors, c) ==
  LET n == FindMatch(vendors, c)
      cost == Costing(c.cost, UsualCost)
  IN  IF n = 0 THEN Append(vendors, [c EXCEPT !.cost = cost])
      ELSE [vendors EXCEPT ![n].link = Fill(@, c.link), ![n].site = Fill(@, c.site),
                           ![n].phone = Fill(@, c.phone), ![n].offers = @ \cup c.offers,
                           ![n].rating = Fill(c.rating, @),
                           ![n].reviews = Fill(c.reviews, @),
                           ![n].cost = Costing(@, cost)]

-----------------------------------------------------------------------------
(* AgenticDiscoveryController.execute_discovery *)

RowId(n) == "row" \o ToString(n)

\* The vendor of row n stands beside what is found, its gaps filled with guesses and
\* at no distance; where it was found, what it offers and its capacity are dropped.
OnRecord(n, v) ==
  [v EXCEPT !.id = Fill(@, RowId(n)), !.link = None, !.offers = {}, !.capacity = None, !.distance = 0,
            !.rating = Fill(@, 45), !.reviews = Fill(@, 10), !.cost = Costing(@, 1000),
            !.renown = IF v.reviews = None THEN 453 ELSE @]

\* The first vendors on file that offer the category.
LocalVendors(vendors, need) ==
  LET rows == SelectSeq([n \in DOMAIN vendors |-> n], LAMBDA n : need.category \in vendors[n].categories)
  IN  [k \in 1 .. Min({Len(rows), 2 * need.target}) |-> OnRecord(rows[k], vendors[rows[k]])]

\* A candidate is new unless something of the same key was seen in this run.
SeenKey(c) == FirstKnown(<<c.id, c.link, c.phone, c.name>>)

Fresh(candidates, seen) ==
  FoldLeft(LAMBDA new, c : IF SeenKey(c) \in seen \cup {SeenKey(new[n]) : n \in DOMAIN new}
                           THEN new ELSE Append(new, c), <<>>, candidates)

\* Queries are asked until enough has been found, none if enough is known.
Scrape(answers, known, target) ==
  IF known >= target THEN <<>>
  ELSE FoldLeft(LAMBDA got, answer : IF Len(got) >= target THEN got ELSE got \o answer, <<>>, answers)

\* A tenth more for every provider that is missing, on half as much again.
Widened(radius, need, missing) ==
  Min({need.base + 150, (radius * Min({20, 15 + missing}) + 5) \div 10})

Counted(s) ==
  IF s.confirmed # <<>> THEN SelectSeq(s.confirmed, LAMBDA r : r.verdict = "qualified") ELSE s.qualified

\* One round: search, sort out what is new, rank it, ask the next batch, and
\* either stop or widen the circle.  What a round rejects is seen, so no later
\* and wider one judges it again.
Round(s, need, answers, sent) ==
  LET first == s.rounds = 0
      scraped == Fresh(Scrape(answers, s.known, need.target), s.seen)
      new == (IF first THEN s.local ELSE <<>>) \o scraped
      judged == [k \in {VerdictKey(new[n]) : n \in DOMAIN new} |->
                   Evaluate(new[Max({n \in DOMAIN new : VerdictKey(new[n]) = k})], need, s.radius)]
      ranked == RankCandidates(new, need, judged)
      pool == s.qualified \o ranked
      asked == IF need.outreach THEN ContactBatch(pool, need.batch, sent) ELSE pool
      next == [s EXCEPT !.rounds = @ + 1, !.known = @ + Len(scraped),
                        !.seen = @ \cup {SeenKey(scraped[n]) : n \in DOMAIN scraped},
                        !.unique = @ + Len(new),
                        !.rejected = @ \o SelectSeq(new, LAMBDA c : Evaluate(c, need, s.radius) = "rejected"),
                        !.vendors = FoldLeft(LAMBDA vs, r : UpsertProvider(vs, r.candidate), @, ranked),
                        !.qualified = asked,
                        !.confirmed = @ \o SelectSeq(asked, LAMBDA r : r.availability = "confirmed"
                                                                       /\ r \notin Range(s.confirmed))]
      missing == need.target - Len(asked)
  IN  IF s.done THEN s
      ELSE IF Len(Counted(next)) >= need.target THEN [next EXCEPT !.done = TRUE]
      ELSE IF missing > 0 THEN [next EXCEPT !.radius = Max({@, Widened(@, need, missing)})]
      ELSE next

\* vendors are those on file, found[n] the answers of round n.
ExecuteDiscovery(need, vendors, found, sent) ==
  LET local == LocalVendors(vendors, need)
      start == [rounds |-> 0, radius |-> need.base, seen |-> {SeenKey(local[n]) : n \in DOMAIN local},
                vendors |-> vendors, known |-> Len(local), unique |-> 0, local |-> local,
                qualified |-> <<>>, confirmed |-> <<>>, rejected |-> <<>>, done |-> FALSE]
      run[n \in 0 .. need.rounds] ==
        IF n = 0 THEN start ELSE Round(run[n - 1], need, found[n], sent)
  IN  run[need.rounds]

TargetMet(s, need) == Len(s.confirmed) >= need.target

RunStatus(s, need) ==
  IF TargetMet(s, need) THEN "TARGET_REACHED"
  ELSE IF s.rounds >= need.rounds THEN "EXHAUSTED" ELSE "COMPLETED"

\* The confirmed by score or, when nobody is, the qualified as they came in.
Proposed(s) == IF s.confirmed = <<>> THEN s.qualified ELSE FoldLeft(InsertByScore, <<>>, s.confirmed)
TopMatches(s) == SubSeq(Proposed(s), 1, Min({3, Len(Proposed(s))}))
=============================================================================
