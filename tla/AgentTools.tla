----------------------------- MODULE AgentTools -----------------------------
(***************************************************************************)
(* The tools of the event agent and the two registries that run them.  A   *)
(* tool answers with a ToolResult; here an answer is [status, code, done], *)
(* where done tells what the call has changed in the database, also when   *)
(* it reports a failure.  A tool may also raise (status "RAISED").         *)
(*                                                                         *)
(* What a tool looks at is a world w:                                      *)
(*   user      "agent" (agent and system ids), "operator" (system and      *)
(*             anonymous_operator themselves), "owner", a member by its    *)
(*             role, or "stranger";                                        *)
(*   event, incident, impact, risk, task, provider: what exists (BOOLEAN); *)
(*   option    a set of at most one [feasible, guarded, fresh, version];   *)
(*   observed  the plan version the caller has seen; like version NONE,    *)
(*             CURRENT or OLD;                                             *)
(*   approval  what the given approval id stands for: "none", "pending",   *)
(*             "other" (approved, for something else) or "own";            *)
(*   approved  whether the option has an approved request at all;          *)
(*   paused; service: what the service behind the tool does; verdict: what *)
(*   the verification finds; facts: those of ActionPolicy.                 *)
(***************************************************************************)
EXTENDS ActionPolicy

Answer(status, code, done) == [status |-> status, code |-> code, done |-> done]
Success(done) == Answer("SUCCESS", "NONE", done)
Failure(code) == Answer("FAILURE", code, {})
Raised(code, done) == Answer("RAISED", code, done)
Held(done) == Answer("REQUIRES_APPROVAL", "APPROVAL_REQUIRED", done)

-----------------------------------------------------------------------------
(* ToolPermissionGuard *)

Role(w) == CASE w.user \in {"agent", "operator", "owner"} -> "MAIN_ORGANIZER"
             [] w.user = "stranger" -> "NONE"
             [] OTHER -> w.user

\* Whether an event that does not exist is a failure is for the tool to say.
Read(w, answer) ==
  IF w.user = "stranger" /\ w.event THEN Raised("TOOL_PERMISSION_DENIED", {}) ELSE answer

\* To be refused outright is to be refused without an approval being asked for; a
\* vendor, whom the policy holds but who may file nothing, comes past with an
\* approval of others.
RefusedOutright(w, type, onTask) ==
  /\ Decision(Role(w), type, onTask, w.facts) = "REFUSED"
  /\ \/ Role(w) = "VIEWER"
     \/ Role(w) = "VENDOR" /\ ~onTask
     \/ ~RequiresApproval(Role(w), Classify(type, w.facts), type)

\* always: the tool asks for an approval whatever the policy says.  Any approved
\* request will do; an id that names no request counts as none.
Gate(w, type, onTask, always, passed) ==
  CASE ~w.event \/ Role(w) = "NONE" -> Raised("ERROR", {})
    [] RefusedOutright(w, type, onTask) -> Raised("TOOL_PERMISSION_DENIED", {})
    [] ~always /\ Decision(Role(w), type, onTask, w.facts) = "DIRECT" -> passed
    [] w.approval \in {"other", "own"} -> passed
    [] w.approval = "pending" -> Held({})
    [] Decision(Role(w), type, onTask, w.facts) = "REFUSED" -> Raised("ERROR", {})
    [] OTHER -> Held({"request"})

-----------------------------------------------------------------------------
(* Tools that read.  A service that raises is caught by most of them. *)

Found(w, exists, done) == Read(w, IF exists THEN Success(done) ELSE Failure("NOT_FOUND"))
Caught(w, code, answer) == IF w.service = "raises" THEN Failure(code) ELSE answer

GetEventState(w) == Found(w, w.event, {})
GetEventSpec(w) == Read(w, IF ~w.event THEN Failure("NOT_FOUND") ELSE Caught(w, "TOOL_EXECUTION_FAILED", Success({})))
GetOperationalStatus(w) == Found(w, w.event, {})
GetActiveConstraints(w) == Found(w, w.event, {})
GetPlan(w) == Read(w, IF ~w.event THEN Failure("TOOL_EXECUTION_FAILED") ELSE Caught(w, "TOOL_EXECUTION_FAILED", Success({})))
GetTask(w) == Found(w, w.event /\ w.task, {})
GetDependencies(w) == Read(w, Success({}))
GetCriticalPath(w) == Read(w, IF w.task THEN Caught(w, "TOOL_EXECUTION_FAILED", Success({})) ELSE Success({}))
GenerateFinalExecutionPlan(w) ==
  Read(w, IF ~w.event THEN Failure("TOOL_EXECUTION_FAILED") ELSE Caught(w, "TOOL_EXECUTION_FAILED", Success({})))
GetActiveIncidents(w) == Read(w, Success({}))
InspectIncident(w) == Found(w, w.event /\ w.incident, {})
ValidateRecoveryOption(w) == Found(w, w.event /\ w.option # {}, {})
GetDecisionTrace(w) == Read(w, Success({}))

\* Analyses that are missing are computed and kept: these "read only" tools commit.
AnalyzeImpact(w) == Found(w, w.event /\ w.incident, IF w.impact THEN {} ELSE {"impact"})
AssessRisk(w) == Found(w, w.event /\ w.incident, IF w.risk THEN {} ELSE {"risk"})
Analyses(w) == (IF w.impact THEN {} ELSE {"impact"}) \cup (IF w.risk THEN {} ELSE {"risk"})
GenerateRecoveryOptions(w) ==
  Read(w, IF ~(w.event /\ w.incident) THEN Failure("NOT_FOUND")
          ELSE IF w.service = "raises" THEN Answer("FAILURE", "TOOL_EXECUTION_FAILED", Analyses(w))
          ELSE Success(Analyses(w) \cup {"options"}))

\* Discovery files what it finds as vendors; no incident nor task is touched.
DiscoverProviders(w) ==
  Read(w, IF ~w.event THEN Failure("NOT_FOUND") ELSE Caught(w, "PROVIDER_DISCOVERY_FAILED", Success({"vendors"})))
QualifyProvider(w) == Found(w, w.provider, {})
CheckProviderAvailability(w) ==
  IF ~w.provider THEN Failure("NOT_FOUND")
  ELSE IF w.service = "raises" THEN Answer("UNKNOWN", "DATA_UNKNOWN", {}) ELSE Success({})
CompareCandidates(w) == Found(w, w.provider, {})
ShortlistVendors(w) ==
  Read(w, IF ~w.event THEN Failure("NOT_FOUND")
          ELSE IF w.service = "raises" THEN Raised("ERROR", {}) ELSE Success({"vendors"}))

\* The venues are found and filed; the answer is then built with an argument that
\* success_result does not have, so the call always ends in a TypeError.
DiscoverAndRankVenues(w) == Raised("ERROR", IF w.service = "raises" THEN {} ELSE {"venues"})

-----------------------------------------------------------------------------
(* Tools that write *)

CreateOrUpdateTask(w, update) ==
  IF update /\ ~w.task THEN Raised("ERROR", {})
  ELSE Gate(w, IF update THEN "UPDATE_TASK" ELSE "CREATE_TASK", TRUE, FALSE,
            IF ~update /\ w.service = "bad_request" THEN Failure("VALIDATION_ERROR")
            ELSE IF w.service = "raises" THEN Raised("ERROR", {}) ELSE Success({"task"}))

ServiceAnswer(w, code, done) ==
  CASE w.service = "not_found" -> Failure("NOT_FOUND")
    [] w.service = "bad_request" -> Failure("INVALID_INPUT")
    [] w.service = "raises" -> Failure(code)
    [] OTHER -> Success(done)
NotByViewers(w, answer) ==
  Read(w, IF w.event /\ Role(w) = "VIEWER" THEN Failure("PERMISSION_DENIED")
          ELSE IF ~w.event THEN Failure("NOT_FOUND") ELSE answer)
SubmitVendorOutcome(w) == NotByViewers(w, ServiceAnswer(w, "PERSISTENCE_FAILURE", {"outcome"}))
ValidateVendorOutcome(w) == NotByViewers(w, ServiceAnswer(w, "VALIDATION_FAILURE", {"validation"}))

\* The services have a narrower notion of who is let in without being a member: the
\* operator, but no agent id.
Inside(w) == w.user \notin {"agent", "stranger"}

BindVendorToTask(w) ==
  Read(w, IF ~Inside(w) \/ "VENDOR_ASSIGN" \notin (IF w.user = "operator" THEN ManagerPermissions ELSE Permissions(Role(w)))
             \/ ~w.event \/ ~w.task \/ w.service \in {"not_found", "bad_request"}
          THEN Failure("BLOCKED") ELSE Caught(w, "BINDING_ERROR", Success({"binding"})))

\* Nothing is kept of a decision but the answer itself.
RecordDecision(w) == Found(w, w.event, {})

CallVendor(w) ==
  Read(w, IF ~w.event \/ w.service # "ok" THEN Failure("TOOL_EXECUTION_FAILED") ELSE Success({"call"}))

\* execute_recovery_option of ActionService, as its callers see it: not ok when it
\* raises.  An option found stale is marked so, which is committed.
StaleVersion(version) == version = "OLD"
Executed(w, o) ==
  IF ~w.event \/ w.paused \/ ~Inside(w) \/ (o.guarded /\ ~w.approved) \/ StaleVersion(o.version)
  THEN [ok |-> FALSE, done |-> {}]
  ELSE IF ~o.fresh THEN [ok |-> FALSE, done |-> {"stale"}]
  ELSE IF w.service = "raises" THEN [ok |-> FALSE, done |-> {}] ELSE [ok |-> TRUE, done |-> {"execution"}]

\* The version the caller has seen counts before the one the option was made for.
ExecuteRecovery(w) ==
  IF w.option = {} THEN Failure("NOT_FOUND")
  ELSE LET o == CHOOSE x \in w.option : TRUE
           x == Executed(w, o)
       IN  IF ~w.event \/ w.user = "stranger" THEN Raised("ERROR", {})
           ELSE IF StaleVersion(IF w.observed = "NONE" THEN o.version ELSE w.observed) THEN Failure("STALE_PLAN")
           ELSE IF ~o.feasible THEN Failure("INFEASIBLE_OPTION")
           ELSE Gate(w, "EXECUTE_RECOVERY", FALSE, TRUE,
                  IF ~x.ok THEN Answer("FAILURE", "TOOL_EXECUTION_FAILED", x.done)
                  ELSE LET done == {"execution", "stamp"} \cup (IF w.verdict = "raises" THEN {} ELSE {"verification"})
                       IN  IF w.verdict = "VERIFIED" THEN Success(done)
                           ELSE Answer("VERIFICATION_FAILED", "RECOVERY_FAILED", done))

-----------------------------------------------------------------------------
(* AgentToolRegistry: the tools with typed arguments *)

Typed(tool, w) ==
  CASE tool = "get_event_state" -> GetEventState(w)
    [] tool = "get_event_spec" -> GetEventSpec(w)
    [] tool = "get_operational_status" -> GetOperationalStatus(w)
    [] tool = "get_active_constraints" -> GetActiveConstraints(w)
    [] tool = "get_plan" -> GetPlan(w)
    [] tool = "get_task" -> GetTask(w)
    [] tool = "get_dependencies" -> GetDependencies(w)
    [] tool = "get_critical_path" -> GetCriticalPath(w)
    [] tool = "create_task" -> CreateOrUpdateTask(w, FALSE)
    [] tool = "update_task" -> CreateOrUpdateTask(w, TRUE)
    [] tool = "generate_final_execution_plan" -> GenerateFinalExecutionPlan(w)
    [] tool = "discover_providers" -> DiscoverProviders(w)
    [] tool = "qualify_provider" -> QualifyProvider(w)
    [] tool = "check_provider_availability" -> CheckProviderAvailability(w)
    [] tool = "compare_candidates" -> CompareCandidates(w)
    [] tool = "shortlist_vendors" -> ShortlistVendors(w)
    [] tool = "submit_vendor_outcome" -> SubmitVendorOutcome(w)
    [] tool = "validate_vendor_outcome" -> ValidateVendorOutcome(w)
    [] tool = "bind_vendor_to_task" -> BindVendorToTask(w)
    [] tool = "analyze_impact" -> AnalyzeImpact(w)
    [] tool = "assess_risk" -> AssessRisk(w)
    [] tool = "get_active_incidents" -> GetActiveIncidents(w)
    [] tool = "inspect_incident" -> InspectIncident(w)
    [] tool = "generate_recovery_options" -> GenerateRecoveryOptions(w)
    [] tool = "validate_recovery_option" -> ValidateRecoveryOption(w)
    [] tool = "execute_recovery" -> ExecuteRecovery(w)
    [] tool = "call_vendor" -> CallVendor(w)
    [] tool = "record_decision" -> RecordDecision(w)
    [] tool = "get_decision_trace" -> GetDecisionTrace(w)
    [] tool = "discover_and_rank_venues" -> DiscoverAndRankVenues(w)
    [] OTHER -> Failure("TOOL_UNKNOWN")

\* AgentToolRegistry.execute.  create_or_update_task is one tool: with a task id it
\* updates.  Every tool of the default table is available.
Execute(tool, w) ==
  LET answer == Typed(tool, w) IN
  CASE w.service = "bad_arguments" -> Failure(IF answer.code = "TOOL_UNKNOWN" THEN answer.code ELSE "TOOL_INVALID_INPUT")
    [] answer.status = "RAISED" ->
         Answer("FAILURE", IF answer.code = "ERROR" THEN "TOOL_EXECUTION_FAILED" ELSE answer.code, answer.done)
    [] OTHER -> answer

-----------------------------------------------------------------------------
(* ToolRegistry: the tools as functions, for the graph of the agent *)

Wrapped == {"discover_providers", "qualify_provider", "compare_candidates", "shortlist_vendors",
            "submit_vendor_outcome", "validate_vendor_outcome", "bind_vendor_to_task",
            "generate_final_execution_plan"}
NeedApproval == {"execute_action", "execute_recovery", "modify_event_plan", "pause_event", "resume_event"}

IfThere(exists, done) == IF exists THEN Success(done) ELSE Raised("ERROR", {})

\* The functions of operations_tools.py, and the handlers that need none.
get_event_state(w) == IfThere(w.event, {})
get_incidents(w) == Success({})
get_incident_details(w) == IfThere(w.event /\ w.incident, {})
get_task(w) == IfThere(w.task, {})
check_approval_status(w) == IfThere(w.approval # "none", {})
get_execution_state(w) == IfThere(w.event /\ w.user # "stranger", {})
get_decision_trace(w) == Success({})
get_provider_status(w) == Success({})
get_recovery_status(w) == Success({})
calculate_resource_requirements(w) == Success({})

analyze_impact(w) == IfThere(w.event /\ w.incident, IF w.impact THEN {} ELSE {"impact"})
calculate_risk(w) == IfThere(w.event /\ w.incident, IF w.risk THEN {} ELSE {"risk"})
validate_recovery_option(w) == IfThere(w.event /\ w.option # {}, {})
generate_recovery_options(w) ==
  IF ~(w.event /\ w.incident) THEN Raised("ERROR", {})
  ELSE IF w.service = "raises" \/ ~Inside(w) THEN Raised("ERROR", Analyses(w))
  ELSE Success(Analyses(w) \cup {"options"})

request_action_approval(w) ==
  IfThere(w.event /\ Decision(Role(w), "REASSIGN_VENDOR", TRUE, w.facts) # "REFUSED", {"request"})

\* An option is executed whether it was found feasible or not.  (An action id that
\* was used before gives back the execution it had; ids are fresh here.)
execute_action(w) ==
  IF w.option = {} THEN Raised("ERROR", {})
  ELSE LET x == Executed(w, CHOOSE o \in w.option : TRUE)
       IN  IF x.ok THEN Success({"execution", "stamp"}) ELSE Raised("ERROR", x.done)
verify_action(w) ==
  IF w.verdict = "raises" \/ ~Inside(w) THEN Raised("ERROR", {})
  ELSE IF w.verdict \in {"VERIFIED", "PARTIALLY_VERIFIED"} THEN Success({"verification"})
  ELSE Answer("VERIFICATION_FAILED", "VERIFICATION_FAILED", {"verification"})
modify_event_plan(w) == IfThere(w.event /\ w.service # "raises", {"plan"})
Manager(w) == Role(w) \in {"MAIN_ORGANIZER", "EVENT_MANAGER"}
pause_event(w) == IfThere(w.event /\ Manager(w) /\ w.service # "raises", {"pause"})
resume_event(w) == IfThere(w.event /\ Manager(w) /\ w.paused /\ w.service # "raises", {"resume"})
call_vendor(w) == IfThere(w.event /\ w.service = "ok", {"call"})

Lookups == {"get_event_state", "get_event_spec", "get_operational_status", "get_incidents", "get_incident_details",
            "inspect_incident", "get_task", "get_provider_status", "get_recovery_status", "get_decision_trace",
            "check_approval_status", "get_execution_state", "calculate_resource_requirements"}
Lookup(tool, w) ==
  CASE tool \in {"get_event_state", "get_event_spec", "get_operational_status"} -> get_event_state(w)
    [] tool \in {"get_incident_details", "inspect_incident"} -> get_incident_details(w)
    [] tool = "get_incidents" -> get_incidents(w)
    [] tool = "get_task" -> get_task(w)
    [] tool = "check_approval_status" -> check_approval_status(w)
    [] tool = "get_execution_state" -> get_execution_state(w)
    [] tool = "get_decision_trace" -> get_decision_trace(w)
    [] tool = "get_provider_status" -> get_provider_status(w)
    [] tool = "get_recovery_status" -> get_recovery_status(w)
    [] tool = "calculate_resource_requirements" -> calculate_resource_requirements(w)

Analysts == {"analyze_impact", "run_impact_analysis", "assess_risk", "validate_recovery_option",
             "generate_recovery_options"}
Analysis(tool, w) ==
  CASE tool \in {"analyze_impact", "run_impact_analysis"} -> analyze_impact(w)
    [] tool = "assess_risk" -> calculate_risk(w)
    [] tool = "validate_recovery_option" -> validate_recovery_option(w)
    [] tool = "generate_recovery_options" -> generate_recovery_options(w)

Mutators == {"request_action_approval", "verify_action", "verify_recovery", "call_vendor"} \cup NeedApproval
Write(tool, w) ==
  CASE tool = "request_action_approval" -> request_action_approval(w)
    [] tool \in {"execute_action", "execute_recovery"} -> execute_action(w)
    [] tool \in {"verify_action", "verify_recovery"} -> verify_action(w)
    [] tool = "modify_event_plan" -> modify_event_plan(w)
    [] tool = "pause_event" -> pause_event(w)
    [] tool = "resume_event" -> resume_event(w)
    [] tool = "call_vendor" -> call_vendor(w)

Handler(tool, w) ==
  IF tool \in Wrapped THEN Typed(tool, w) ELSE IF tool \in Lookups THEN Lookup(tool, w)
  ELSE IF tool \in Analysts THEN Analysis(tool, w) ELSE Write(tool, w)

\* ToolRegistry.execute: a gate that looks at nothing but the status of the request.
Call(tool, w) ==
  IF tool \notin Wrapped \cup Lookups \cup Analysts \cup Mutators THEN Failure("UNKNOWN_TOOL")
  ELSE IF w.service = "bad_arguments" THEN Failure("INVALID_ARGUMENTS")
  ELSE IF tool \in NeedApproval /\ w.approval \notin {"other", "own"} THEN Held({})
  ELSE LET answer == Handler(tool, w)
       IN  IF answer.status = "RAISED" THEN Answer("FAILURE", "EXECUTION_ERROR", answer.done) ELSE answer
=============================================================================
