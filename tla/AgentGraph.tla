----------------------------- MODULE AgentGraph -----------------------------
(***************************************************************************)
(* One run of the event operations agent: the nodes of agent/graph.py and  *)
(* the routes between them, ToolRegistry.execute, the gates of             *)
(* ActionService.execute_recovery_option that a run leans on, and the end  *)
(* that EventOperationsAgent.run records.  What the language model decides *)
(* is any decision; Step gives every state a node may lead to.             *)
(*                                                                         *)
(* A state is a record: at (the node), message, given (the approval the    *)
(* run was started with), seen (was it granted), selected, result (the     *)
(* option that was executed), verification, pending, status, termination,  *)
(* steps, attempts, last and same (the latest tool call and how often it   *)
(* was made in a row, up to three), tool (to be called), halted (was the   *)
(* event paused when observed), and db, which is shared with others:       *)
(* [paused, granted, fresh, executed, asked], the approvals granted,       *)
(* the options that still fit the plan, the executions as [option, stamp]  *)
(* and whether this run filed a request, which is decided when it is over. *)
(***************************************************************************)
EXTENDS Integers, Sequences, SequencesExt

CONSTANTS
  None,
  Reads,     \* tools that only read
  MaxSteps, MaxAttempts,
  Options,   \* the recovery options that may be generated
  Guarded,   \* those that require an approval
  OptionOf   \* the option that each approval is for, if any

Tools == Reads \cup {"generate_recovery_options", "bind_vendor_to_task", "execute_action", "pause_event",
                    "request_action_approval", "verify_action", "start_autonomous_operations"}
\* The last one is not registered.  Each stands for those of its kind: a change of the
\* plan that is not gated, a gated one, a request.
NeedsApproval == {"execute_action", "pause_event"}

Start(message, given, db) ==
  [at |-> "observe", message |-> message, given |-> given, seen |-> FALSE, selected |-> None, result |-> None,
   verification |-> None, pending |-> FALSE, status |-> "INITIALIZED", termination |-> None, steps |-> 0,
   attempts |-> 0, last |-> None, same |-> 0, tool |-> None, halted |-> FALSE, db |-> db]

Granted(s) == s.given \in s.db.granted

\* An exception anywhere in the graph ends the run.
Raised(s) == [s EXCEPT !.at = "raised", !.status = "FAILED"]

Called(s, tool) ==
  [s EXCEPT !.last = tool, !.same = IF s.last = tool THEN (IF @ = 3 THEN 3 ELSE @ + 1) ELSE 1, !.steps = @ + 1]

-----------------------------------------------------------------------------
(* observe and interpret *)

\* The option and the latest execution of the approval the run was given are taken
\* up again at every observation.
Observe(s) ==
  LET approved == IF s.given = None THEN None ELSE OptionOf[s.given]
      recorded == SelectSeq(s.db.executed, LAMBDA x : s.given # None /\ x.stamp = s.given)
  IN  {[s EXCEPT !.at = "interpret", !.status = "OBSERVING", !.halted = s.db.paused, !.seen = Granted(s),
                 !.selected = IF approved = None THEN @ ELSE approved,
                 !.result = IF @ = None /\ recorded # <<>> THEN Last(recorded).option ELSE @,
                 !.pending = IF s.given = None THEN @ ELSE ~Granted(s)]}

\* Two kinds of message are carried out at once, whether or not the event is paused:
\* the start of operations, and a change of the plan while no incident is open.
Interpret(s) ==
  CASE s.message = "start" ->
         {[s EXCEPT !.at = "end_completed", !.status = "WAITING_FOR_USER_SELECTION",
                    !.termination = "WAITING_FOR_USER_SELECTION"], Raised(s)}
    [] s.message = "change" ->
         {[s EXCEPT !.at = "end_completed", !.status = "COMPLETED", !.termination = "COMPLETED", !.db.fresh = {}],
          Raised(s)}
    [] OTHER -> {[s EXCEPT !.at = "decide", !.status = "INTERPRETING"]}

-----------------------------------------------------------------------------
(* decide_next_step and its routes *)

Fails(s, status, termination) == [s EXCEPT !.at = "end_failed", !.status = status, !.termination = termination]

Route(decision, tool) ==
  CASE decision = "TOOL_CALL" -> IF tool \in NeedsApproval THEN "validate" ELSE "tool"
    [] decision = "PROPOSE_ACTION" -> "validate"
    [] decision \in {"REQUEST_APPROVAL", "WAIT"} -> "wait"
    [] decision = "COMPLETE" -> "end_completed"
    [] OTHER -> "end_failed"

Decided(s, decision, tool) ==
  [s EXCEPT !.at = Route(decision, tool), !.tool = tool, !.status = "DECIDING"]

ModelDecides(s) ==
  {Decided(s, "TOOL_CALL", tool) : tool \in Tools}
  \cup {Decided(s, d, None) : d \in {"PROPOSE_ACTION", "REQUEST_APPROVAL", "WAIT", "COMPLETE", "FAIL"}}
  \cup {[s EXCEPT !.at = "end_paused", !.status = "DECIDING"]}

\* The limits come first, then the approved action, then the pause: as observed.
\* Three calls of a tool in a row are a loop if their arguments are the same too.
Decide(s) ==
  IF s.steps >= MaxSteps THEN {Fails(s, "FAILED", "STEP_LIMIT_REACHED")}
  ELSE IF s.attempts >= MaxAttempts THEN {Fails(s, "RECOVERY_FAILED", "RECOVERY_FAILED")}
  ELSE (IF s.same = 3 THEN {Fails(s, "FAILED", "FAILED")} ELSE {})
       \cup IF s.seen /\ s.result = None THEN {Decided(s, "TOOL_CALL", "execute_action")}
            ELSE IF s.halted THEN {[s EXCEPT !.at = "end_paused"]}
            ELSE ModelDecides(s)

-----------------------------------------------------------------------------
(* tool_execution with process_result: what a tool does, and where it leads.  *)
(* A tool may fail; the failure is a result, not an exception.                *)

ToolExecution(s) ==
  LET t == Called(s, s.tool)
      Back(u) == [u EXCEPT !.at = "decide", !.status = "RE_EVALUATING"]
  IN  CASE s.tool = "generate_recovery_options" ->
             {Back(t)} \cup {Back([t EXCEPT !.selected = o, !.db.fresh = Options]) : o \in Options}
        [] s.tool = "bind_vendor_to_task" -> {Back(t), Back([t EXCEPT !.db.fresh = {}])}
        [] s.tool = "request_action_approval" -> {Back(t), Back([t EXCEPT !.db.asked = TRUE])}
        [] s.tool = "verify_action" ->
             {[t EXCEPT !.at = "end_failed", !.status = "RE_EVALUATING"]}
             \cup {[t EXCEPT !.at = "end_completed", !.status = "RE_EVALUATING", !.verification = v] :
                     v \in IF s.db.executed = <<>> THEN {} ELSE {"VERIFIED", "PARTIALLY_VERIFIED"}}
        [] s.tool = "start_autonomous_operations" ->
             {[t EXCEPT !.at = "end_completed", !.status = "RE_EVALUATING"]}
        [] OTHER -> {Back(t)}

-----------------------------------------------------------------------------
(* validate_action, wait_for_approval, act, verify *)

\* It is the selected option that is judged, whatever was to be done.  An approval
\* the run was given counts for every option.
ValidateAction(s) ==
  LET judged(allowed, asks) ==
        [s EXCEPT !.at = IF ~allowed THEN "end_failed" ELSE IF asks /\ ~Granted(s) THEN "wait" ELSE "act",
                  !.seen = Granted(s), !.pending = asks /\ ~Granted(s),
                  !.status = IF asks /\ ~Granted(s) THEN "NEEDS_APPROVAL" ELSE "AUTHORIZED"]
  IN  {judged(allowed, asks) : allowed \in BOOLEAN, asks \in BOOLEAN}

WaitForApproval(s) ==
  {[s EXCEPT !.at = "end", !.pending = TRUE, !.status = "PENDING_APPROVAL", !.termination = "WAITING_FOR_APPROVAL",
             !.db.asked = TRUE], Raised(s)}

\* execute_recovery_option: the gates of the service, which look at the data of now.
Executable(db, option) ==
  /\ ~db.paused
  /\ option # None
  /\ option \in Guarded => \E a \in db.granted : OptionOf[a] = option
  /\ option \in db.fresh

\* Without a selected option, as after a failed attempt, it is the one that the
\* model names.
Act(s) ==
  {IF Executable(s.db, option)
   THEN [Called(s, "execute_action") EXCEPT
           !.at = "verify", !.result = option, !.status = "EXECUTED", !.same = 1,
           !.db.executed = Append(@, [option |-> option, stamp |-> s.given]), !.db.fresh = {}]
   ELSE Raised([s EXCEPT !.db.fresh = @ \ {option}]) :
     option \in IF s.selected # None THEN {s.selected} ELSE Options \cup {None}}

\* A failed recovery is observed anew, without its option and its execution.
Verify(s) ==
  LET t == [Called(s, "verify_action") EXCEPT !.attempts = @ + 1, !.same = 1]
      again == t.attempts < MaxAttempts
  IN  {Raised(s), [t EXCEPT !.verification = "VERIFIED", !.status = "VERIFIED", !.at = "end_completed"]}
      \cup {[t EXCEPT !.verification = v, !.status = "RECOVERY_FAILED",
                      !.at = IF again THEN "observe" ELSE "end_failed",
                      !.result = IF again THEN None ELSE @, !.selected = IF again THEN None ELSE @,
                      !.termination = IF again THEN @ ELSE "RECOVERY_FAILED"] :
              v \in {"PARTIALLY_VERIFIED", "FAILED"}}

-----------------------------------------------------------------------------
(* The end of the run *)

EndCompleted(s) ==
  LET status == IF s.status = "WAITING_FOR_USER_SELECTION" THEN s.status ELSE "COMPLETED"
  IN  {[s EXCEPT !.at = "end", !.status = status, !.termination = IF @ = None THEN status ELSE @]}

EndFailed(s) ==
  {[s EXCEPT !.at = "end",
             !.status = IF "RECOVERY_FAILED" \in {s.status, s.termination} THEN "RECOVERY_FAILED" ELSE "FAILED",
             !.termination = IF @ = None THEN "FAILED" ELSE @]}

EndPaused(s) == {[s EXCEPT !.at = "end", !.status = "PAUSED", !.termination = "PAUSED"]}

\* _record_terminal_event and the handler of an exception: what the stream is told.
TerminalEvent(s) ==
  CASE s.at = "raised" -> "agent.run_failed"
    [] s.at = "end" /\ (s.status = "PENDING_APPROVAL" \/ s.pending) -> "approval.required"
    [] s.at = "end" /\ ~s.pending /\ s.status = "WAITING_FOR_USER_SELECTION" -> "selection.required"
    [] s.at = "end" /\ ~s.pending /\ s.status \in {"FAILED", "RECOVERY_FAILED"} -> "agent.run_failed"
    [] s.at = "end" /\ ~s.pending /\ s.status = "PAUSED" -> "agent.run_paused"
    [] OTHER -> "agent.run_completed"

Ended(s) == s.at \in {"end", "raised"}

Node(s) ==
  CASE s.at = "observe" -> Observe(s)
    [] s.at = "interpret" -> Interpret(s)
    [] s.at = "decide" -> Decide(s)
    [] s.at = "tool" -> ToolExecution(s)
    [] s.at = "validate" -> ValidateAction(s)
    [] s.at = "wait" -> WaitForApproval(s)
    [] s.at = "act" -> Act(s)
    [] s.at = "verify" -> Verify(s)
    [] s.at = "end_completed" -> EndCompleted(s)
    [] s.at = "end_failed" -> EndFailed(s)
    [] s.at = "end_paused" -> EndPaused(s)
    [] OTHER -> {}

\* What others do meanwhile: the event is paused, its plan changes, or the approval is
\* granted, which executes its option.
Meanwhile(s) ==
  {[s EXCEPT !.db.paused = TRUE], [s EXCEPT !.db.fresh = {}]}
  \cup IF s.given = None \/ Granted(s) \/ s.db.paused \/ OptionOf[s.given] \notin s.db.fresh THEN {}
       ELSE {[s EXCEPT !.db.granted = @ \cup {s.given}, !.db.fresh = {},
                       !.db.executed = Append(@, [option |-> OptionOf[s.given], stamp |-> s.given])]}

Step(s) == IF Ended(s) THEN {} ELSE Node(s) \cup Meanwhile(s)
=============================================================================
