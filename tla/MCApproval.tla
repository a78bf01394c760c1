----------------------------- MODULE MCApproval -----------------------------
(***************************************************************************)
(* Instance of Approval: the owner, an event manager, a collaborator and   *)
(* the anonymous operator; one critical mutating request and one neutral   *)
(* major one; one client action id.                                        *)
(***************************************************************************)
EXTENDS Approval, TLC

CONSTANTS owner, manager, collaborator, anonymous, critical, neutral, direct

Members == {owner, manager, collaborator}
Everyone == Members \cup {anonymous}

MCRole == [u \in Users |->
  CASE u = manager      -> "EVENT_MANAGER"
    [] u = collaborator -> "COLLABORATOR"
    [] OTHER            -> "MAIN_ORGANIZER"]

MCRequests == {critical, neutral}

MCActionIds == {direct}

MCImpact == (critical :> "CRITICAL") @@ (neutral :> "MAJOR") @@ (direct :> "MINOR")

MCNeutral == {neutral}

\* Sessions are interchangeable: no action orders or names them.
SessionSymmetry == Permutations(Sessions)
-----------------------------------------------------------------------------
P == INSTANCE ActionPolicy

Facts == [emergency : BOOLEAN,
          task : {{}} \cup {{t} : t \in [priority : {"LOW", "MEDIUM", "HIGH", "CRITICAL"},
                                         critical : BOOLEAN, slack : {0, 10, 60}]},
          amount : {0, 5, 6, 15, 16, 200, 201, 1000, 1001}, budget : {0, 2000, 100000}]

RolesOfUsers == {"MAIN_ORGANIZER", "EVENT_MANAGER", "COLLABORATOR", "VENDOR", "VIEWER", "NONE"}
ImpactOrder == [i \in {"MINOR", "MAJOR", "CRITICAL"} |-> CHOOSE n \in 1 .. 3 : P!Tiers[n] = i]

\* The rules by role and impact that Approval is written with are those that
\* authorize_action and the policy work out.
ASSUME ApprovalFollowsPolicy ==
  \A type \in P!ActionTypes, f \in Facts :
    LET impact == P!Classify(type, f) IN
    \A u \in Members :
      LET decision == P!Decision(Role[u], type, f.task # {}, f) IN
      /\ decision = "DIRECT" <=> \/ Role[u] = "MAIN_ORGANIZER"
                                 \/ Role[u] = "EVENT_MANAGER" /\ impact # "CRITICAL"
                                 \/ Role[u] = "COLLABORATOR" /\ impact = "MINOR"
      /\ decision # "REFUSED" <=> MaySubmit(u)
      /\ Role[u] \in P!ApproverRoles(impact) <=>
           MayDecide(u) /\ (impact = "CRITICAL" => Role[u] = "MAIN_ORGANIZER")

\* Nobody needs an approval for what he may approve: a request is never filed by
\* one who could grant it himself.
ASSUME ApproversNeedNoApproval ==
  \A type \in P!ActionTypes, f \in Facts :
    \A role \in RolesOfUsers :
      role \in P!ApproverRoles(P!Classify(type, f)) => P!Decision(role, type, f.task # {}, f) = "DIRECT"

\* A larger change, an emergency or a critical task never lower the tier.
ASSUME ClassificationIsMonotone ==
  \A type \in P!ActionTypes, f \in Facts :
    LET n == ImpactOrder[P!Classify(type, f)] IN
    /\ \A a \in {0, 5, 6, 15, 16, 200, 201, 1000, 1001} :
         a >= f.amount => ImpactOrder[P!Classify(type, [f EXCEPT !.amount = a])] >= n
    /\ P!Classify(type, [f EXCEPT !.emergency = TRUE]) = "CRITICAL"
    /\ \A t \in f.task : P!Classify(type, [f EXCEPT !.task = {[t EXCEPT !.critical = TRUE]}]) = "CRITICAL"

\* No action type is one a vendor may take, not even an update of its own task.
ASSUME VendorsNeverAct ==
  \A type \in P!ActionTypes, f \in Facts :
    P!Decision("VENDOR", type, f.task # {}, f) = "REFUSED"
=============================================================================
