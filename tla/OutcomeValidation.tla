------------------------- MODULE OutcomeValidation -------------------------
(***************************************************************************)
(* VendorOutcomeValidationService, which holds what a vendor is reported   *)
(* to have said against what the system knows, and evaluate_feasibility of *)
(* VendorTaskBindingService, which decides by it whether the vendor may be *)
(* bound to a task.                                                        *)
(*                                                                         *)
(* An event is [guests, total, currency, from, ends, to, diet]: a total of *)
(* 0 is none, from is None when unknown, ends says whether to is given     *)
(* (without it the validation takes Eight hours), diet is "none", "wished" *)
(* or "required".  Claims are a function on the types claimed; the price   *)
(* is [amount, currency].  A form is [price, currency, availability,       *)
(* contradictory], a slot [status, from, to, at], entered at that time.    *)
(***************************************************************************)
EXTENDS Integers, FiniteSets, Sequences, SequencesExt, FiniteSetsExt, TLC

CONSTANTS None, Eight

-----------------------------------------------------------------------------
(* VendorOutcomeValidationService *)

\* What the notes were found to claim; the fields of the form fill what they
\* leave open.  An extraction that fails finds nothing.
ParseOutcome(form, extracted) ==
  LET price == IF form.price = None THEN <<>>
               ELSE "PRICE" :> [amount |-> form.price, currency |-> form.currency]
      free == IF form.availability = "UNKNOWN" THEN <<>>
              ELSE "AVAILABILITY" :> form.availability
  IN  extracted @@ price @@ free

Overlaps(slot, from, to) == slot.from < to /\ slot.to > from
Taken(slot) == slot.status \in {"BOOKED", "BLOCKED"}

CapacityStatus(event, claims, recorded) ==
  IF "CAPACITY" \notin DOMAIN claims THEN "UNKNOWN"
  ELSE IF recorded # None /\ claims["CAPACITY"] > recorded THEN "CONFLICT"
  ELSE IF claims["CAPACITY"] >= event.guests THEN "PASS" ELSE "FAIL"

\* The item of the task's category, cancelled or of no amount left out (0), else
\* the whole budget.
Allocated(event, item) == IF item > 0 THEN item ELSE event.total

PriceResult(event, claims, item) ==
  LET price == claims["PRICE"]
      Result(type, status) == [type |-> type, status |-> status, hard |-> TRUE]
  IN  IF "PRICE" \notin DOMAIN claims THEN Result("PRICE", "UNKNOWN")
      ELSE IF price.currency # event.currency THEN Result("CURRENCY", "CONFLICT")
      ELSE IF Allocated(event, item) = 0 THEN Result("PRICE", "UNKNOWN")
      ELSE Result("PRICE", IF price.amount <= Allocated(event, item) THEN "PASS" ELSE "FAIL")

AvailabilityStatus(event, claims, slots) ==
  LET to == IF event.ends THEN event.to ELSE event.from + Eight IN
  IF "AVAILABILITY" \in DOMAIN claims /\ claims["AVAILABILITY"] = "UNAVAILABLE" THEN "FAIL"
  ELSE IF event.from = None THEN "UNKNOWN"
  ELSE IF \E s \in slots : Taken(s) /\ Overlaps(s, event.from, to) THEN "CONFLICT"
  ELSE IF \E s \in slots : s.status = "AVAILABLE" /\ s.from <= event.from /\ s.to >= to THEN "PASS"
  ELSE "UNKNOWN"

\* catering: the task or the vendor is of that trade.  A claim about the menu
\* then counts as required of the event even if it asks for none.
DietResults(event, claims, catering) ==
  LET claimed == "VEGETARIAN" \in DOMAIN claims
      status == IF ~claimed THEN "UNKNOWN" ELSE IF claims["VEGETARIAN"] THEN "PASS" ELSE "FAIL"
  IN  IF event.diet # "none" \/ (catering /\ claimed)
      THEN {[type |-> "VEGETARIAN", status |-> status, hard |-> event.diet # "wished"]}
      ELSE {}

\* records: what the system knows [recorded, item, slots, catering].
ClaimResults(event, form, claims, records) ==
  {[type |-> "CAPACITY", status |-> CapacityStatus(event, claims, records.recorded), hard |-> TRUE],
   PriceResult(event, claims, records.item),
   [type |-> "AVAILABILITY", status |-> AvailabilityStatus(event, claims, records.slots), hard |-> TRUE]}
  \cup DietResults(event, claims, records.catering)
  \cup (IF form.contradictory
        THEN {[type |-> "CONTRADICTION", status |-> "CONFLICT", hard |-> TRUE]} ELSE {})

HasStatus(results, status) == \E r \in results : r.status = status
HardFailure(results) == \E r \in results : r.status = "FAIL" /\ r.hard

Overall(results) ==
  IF HasStatus(results, "CONFLICT") THEN "CONFLICT"
  ELSE IF HardFailure(results) THEN "FAILED"
  ELSE IF ~HasStatus(results, "PASS") THEN "INSUFFICIENT_INFORMATION"
  ELSE IF HasStatus(results, "UNKNOWN") THEN "PARTIALLY_VALIDATED" ELSE "VALIDATED"

\* The amount is kept with the result of the price, so not with that of a currency.
ValidateClaims(event, form, claims, records, now) ==
  LET results == ClaimResults(event, form, claims, records) IN
  [results |-> results, overall |-> Overall(results), at |-> now,
   quote |-> IF \E r \in results : r.type = "PRICE" /\ "PRICE" \in DOMAIN claims
             THEN claims["PRICE"].amount ELSE 0]

-----------------------------------------------------------------------------
(* VendorTaskBindingService.evaluate_feasibility *)

\* A slot entered since the validation; an event without an end is a moment here.
Stale(event, validation, slots) ==
  /\ event.from # None
  /\ \E s \in slots : /\ Taken(s)
                      /\ Overlaps(s, event.from, IF event.ends THEN event.to ELSE event.from)
                      /\ s.at > validation.at

StatusOf(validation, type) ==
  LET found == {r \in validation.results : r.type = type}
  IN  IF found = {} THEN "NONE" ELSE (CHOOSE r \in found : TRUE).status

Overspends(event, validation, committed) ==
  validation.quote > 0 /\ event.total > 0 /\ committed + validation.quote > event.total

\* The reasons against the binding, in the order in which a later one takes the
\* place of an earlier as the reason given.
Objections(event, validation, committed, override) ==
  LET Says(type, status) == StatusOf(validation, type) = status
      raised == <<
        <<"HARD_REQUIREMENT_FAILED", HardFailure(validation.results)>>,
        <<"VALIDATION_CONFLICT", HasStatus(validation.results, "CONFLICT")>>,
        <<"CAPACITY_REQUIREMENT_FAILED", Says("CAPACITY", "FAIL")>>,
        <<"AVAILABILITY_UNAVAILABLE", Says("AVAILABILITY", "FAIL")>>,
        <<"AVAILABILITY_NOT_VALIDATED", Says("AVAILABILITY", "UNKNOWN") /\ ~override>>,
        <<"BUDGET_EXCEEDED", Says("PRICE", "FAIL") \/ Overspends(event, validation, committed)>> >>
  IN  SelectSeq(raised, LAMBDA r : r[2])

\* compatible: one category names the other; validation is that of the provider,
\* whatever task it was reported for, or None; committed is what the other
\* categories have been promised.
EvaluateFeasibility(event, compatible, validation, slots, committed, override) ==
  IF ~compatible THEN "CATEGORY_MISMATCH"
  ELSE IF validation = None THEN "VALIDATION_NOT_FOUND"
  ELSE IF Stale(event, validation, slots) THEN "VALIDATION_STALE"
  ELSE LET against == Objections(event, validation, committed, override)
       IN  IF against = <<>> THEN "BIND" ELSE Last(against)[1]
=============================================================================
