---------------------------- MODULE ActionPolicy ----------------------------
(***************************************************************************)
(* Who may do what: ActionImpactClassifier, ApprovalPolicy, the permission *)
(* tables and authorize_action, which combines them.  Approval takes the   *)
(* decisions as given; here they are computed.                             *)
(*                                                                         *)
(* The facts about an action are a record: emergency (the state of the     *)
(* event), task (a set of at most one [priority, critical, slack]), amount *)
(* (the size of the change: money, minutes or a quantity), budget (the     *)
(* event's total).                                                         *)
(***************************************************************************)
EXTENDS Integers

ActionTypes == {"REASSIGN_VENDOR", "CONTRACT_VENDOR", "ADJUST_SCHEDULE", "ADJUST_BUDGET",
                "ALLOCATE_RESOURCE", "REASSIGN_TASK", "COMMUNICATION_OUTREACH",
                "TASK_STATUS_UPDATE"}
Tiers == <<"MINOR", "MAJOR", "CRITICAL">>

-----------------------------------------------------------------------------
(* ActionImpactClassifier *)

CriticalByType(type, f) ==
  LET HighTask == \E t \in f.task : t.priority = "HIGH" IN
  CASE type \in {"REASSIGN_VENDOR", "CONTRACT_VENDOR"} -> HighTask \/ f.amount > 1000
    [] type = "ADJUST_SCHEDULE" -> \E t \in f.task : f.amount > t.slack
    [] type = "ADJUST_BUDGET" -> f.amount > 1000 \/ (f.budget > 0 /\ 20 * f.amount >= f.budget)
    [] type \in {"ALLOCATE_RESOURCE", "REASSIGN_TASK"} -> HighTask
    [] OTHER -> FALSE

\* A schedule is shifted by any amount of minutes without a task: that is minor.
MinorByType(type, f) ==
  CASE type = "ADJUST_SCHEDULE" -> f.task = {} \/ f.amount <= 15
    [] type = "ADJUST_BUDGET" -> f.amount <= 200
    [] type = "ALLOCATE_RESOURCE" -> f.amount <= 5
    [] OTHER -> FALSE

Classify(type, f) ==
  IF f.emergency \/ (\E t \in f.task : t.critical \/ t.priority = "CRITICAL") \/ CriticalByType(type, f)
  THEN "CRITICAL" ELSE IF MinorByType(type, f) THEN "MINOR" ELSE "MAJOR"

-----------------------------------------------------------------------------
(* ApprovalPolicy and the permission tables *)

RequiresApproval(role, impact, type) ==
  \/ role = "EVENT_MANAGER" /\ impact = "CRITICAL"
  \/ role = "COLLABORATOR" /\ impact # "MINOR"
  \/ role = "VENDOR" /\ ~(type = "TASK_STATUS_UPDATE" /\ impact = "MINOR")
  \/ role \notin {"MAIN_ORGANIZER", "EVENT_MANAGER", "COLLABORATOR", "VENDOR", "VIEWER"}

ApproverRoles(impact) ==
  IF impact = "CRITICAL" THEN {"MAIN_ORGANIZER"} ELSE {"MAIN_ORGANIZER", "EVENT_MANAGER"}

\* Of each role, the permissions that a decision below looks at.
CollaboratorPermissions == {"TASK_EDIT", "ACTION_EXECUTE", "APPROVAL_CREATE", "RECOVERY_REQUEST"}
ManagerPermissions ==
  CollaboratorPermissions \cup {"VENDOR_ASSIGN", "RESOURCE_ALLOCATE", "SCHEDULE_EDIT", "APPROVAL_APPROVE"}
Permissions(role) ==
  CASE role = "MAIN_ORGANIZER" -> ManagerPermissions \cup {"BUDGET_EDIT"}
    [] role = "EVENT_MANAGER" -> ManagerPermissions
    [] role = "COLLABORATOR" -> CollaboratorPermissions
    [] OTHER -> {}

RequiredPermission(type) ==
  CASE type = "REASSIGN_VENDOR" -> "VENDOR_ASSIGN"
    [] type = "REASSIGN_TASK" -> "TASK_EDIT"
    [] type = "ADJUST_SCHEDULE" -> "SCHEDULE_EDIT"
    [] type = "ALLOCATE_RESOURCE" -> "RESOURCE_ALLOCATE"
    [] type = "ADJUST_BUDGET" -> "BUDGET_EDIT"
    [] type = "COMMUNICATION_OUTREACH" -> "APPROVAL_APPROVE"
    [] OTHER -> "ACTION_EXECUTE"

-----------------------------------------------------------------------------
(* authorize_action *)

\* onTask: the target is a task, all that a vendor may act on.
Decision(role, type, onTask, f) ==
  LET approval == RequiresApproval(role, Classify(type, f), type)
      needed == IF approval THEN {"APPROVAL_CREATE", "RECOVERY_REQUEST"}
                ELSE {RequiredPermission(type), "ACTION_EXECUTE"}
  IN  IF role = "VIEWER" \/ (role = "VENDOR" /\ ~onTask) \/ needed \cap Permissions(role) = {}
      THEN "REFUSED"
      ELSE IF approval THEN "APPROVAL" ELSE "DIRECT"
=============================================================================
