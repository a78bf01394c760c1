-------------------------- MODULE ApprovalDecision --------------------------
(***************************************************************************)
(* What the approval gate promises for each request, without sessions,     *)
(* snapshots or identities: a request is filed once, is decided once, and  *)
(* is approved only after its action took effect.  An action that changes  *)
(* the plan takes effect at most once, whatever is retried.                *)
(***************************************************************************)
EXTENDS Integers

CONSTANTS Requests, Mutating

VARIABLES status, effects

decision == <<status, effects>>

Init ==
  /\ status = [r \in Requests |-> "ABSENT"]
  /\ effects = [r \in Requests |-> 0]

File(r) ==
  /\ status[r] = "ABSENT"
  /\ status' = [status EXCEPT ![r] = "PENDING"]
  /\ UNCHANGED effects

Execute(r) ==
  /\ status[r] = "PENDING"
  /\ r \in Mutating => effects[r] = 0
  /\ effects' = [effects EXCEPT ![r] = @ + 1]
  /\ UNCHANGED status

Approve(r) ==
  /\ status[r] = "PENDING"
  /\ effects[r] > 0
  /\ status' = [status EXCEPT ![r] = "APPROVED"]
  /\ UNCHANGED effects

Close(r) ==
  /\ status[r] = "PENDING"
  /\ \E verdict \in {"REJECTED", "CANCELLED", "STALE"} :
       status' = [status EXCEPT ![r] = verdict]
  /\ UNCHANGED effects

Next == \E r \in Requests : File(r) \/ Execute(r) \/ Approve(r) \/ Close(r)

Spec == Init /\ [][Next]_decision
=============================================================================
