---------------------------- MODULE Idempotency ----------------------------
(***************************************************************************)
(* IdempotencyService, as what check_or_start answers to the record it has *)
(* read and as what its commit meets.  A client reads and claims in two    *)
(* steps; the primary key decides between two claims of an absent record,  *)
(* and nothing between two claims of a failed or an expired one.           *)
(***************************************************************************)
CONSTANTS
  Hashes,   \* hashes of the payloads sent under a key
  NoHash

Statuses == {"ABSENT", "PROCESSING", "COMPLETED", "FAILED", "EXPIRED"}

Records == [status : Statuses, hash : Hashes \cup {NoHash}]

NoRecord == [status |-> "ABSENT", hash |-> NoHash]

Verdicts == {"start", "done", "conflict"}

\* check_or_start, up to its commit.
Verdict(rec, hash) ==
  CASE rec.status \in {"ABSENT", "EXPIRED"} -> "start"
    [] rec.hash # hash                      -> "conflict"
    [] rec.status = "COMPLETED"             -> "done"
    [] rec.status = "PROCESSING"            -> "conflict"
    [] OTHER                                -> "start"

\* The commit of one that read seen, on the record as it is now: an insertion
\* collides, an expired record is deleted whatever it has become, a failed one
\* is updated.
ClaimVerdict(seen, now, hash) ==
  IF seen.status = "ABSENT" /\ now.status # "ABSENT"
  THEN IF now.status = "COMPLETED" /\ now.hash = hash THEN "done" ELSE "conflict"
  ELSE "start"

Claimed(hash) == [status |-> "PROCESSING", hash |-> hash]

\* complete and fail write the record whoever has claimed it.
Settled(rec, status) ==
  IF rec.status = "ABSENT" THEN rec ELSE [rec EXCEPT !.status = status]
=============================================================================
