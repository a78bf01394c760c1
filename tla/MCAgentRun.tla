----------------------------- MODULE MCAgentRun -----------------------------
(***************************************************************************)
(* Instance of AgentRun: two start requests that may overlap, cancel       *)
(* requests of their own, a few categories to source and restarts; the     *)
(* configurations give the numbers.  And all states that the runs of the   *)
(* event agent can reach, under every decision of the language model,      *)
(* computed as a fixpoint of AgentGraph's steps, and what holds in them:   *)
(* four steps and two attempts; a run without an approval, with one still  *)
(* pending, one that was granted and carried out, or one of an action that *)
(* is no recovery.  A tool that only reads does what a tool that fails     *)
(* does.                                                                   *)
(***************************************************************************)
EXTENDS AgentRun, MCIntake, TLC

CONSTANT None

MaxSteps == 4
G == INSTANCE AgentGraph WITH MaxAttempts <- 2, Reads <- {}, Options <- {"r1", "r2"}, Guarded <- {"r0", "r2"},
       OptionOf <- [pending |-> "r0", granted |-> "r0", other |-> None]

\* Options of an earlier run may still fit, unless an action was carried out since.
Database(given) ==
  [paused |-> FALSE, granted |-> IF given \in {"granted", "other"} THEN {given} ELSE {},
   fresh |-> CASE given = "pending" -> {"r0"} [] given = "granted" -> {} [] OTHER -> {"r1", "r2"},
   asked |-> FALSE,
   executed |-> IF given = "granted" THEN <<[option |-> "r0", stamp |-> given]>> ELSE <<>>]

Starts ==
  {G!Start(message, given, Database(given)) :
     message \in {"start", "change", "incident"}, given \in {None, "pending", "granted", "other"}}

\* 32 rounds are more than the longest run.  What TLC has counted it has sorted, and
\* so looks up fast.
Reachable(start) ==
  LET closure[n \in 0 .. 32] ==
        IF n = 0 THEN [found |-> {start}, new |-> {start}]
        ELSE LET before == closure[n - 1]
                 new == {t \in UNION {G!Step(s) : s \in before.new} : t \notin before.found}
             IN  IF Cardinality(before.found) = 0 \/ Cardinality(before.new) = 0 THEN before
                 ELSE [found |-> {t : t \in before.found \cup new}, new |-> new]
  IN  closure[32]

\* What the run itself executed: not the action of the approval it was given.
Own(s) ==
  Len(s.db.executed) - (IF s.given \in {"pending", "granted"} /\ G!Granted(s) THEN 1 ELSE 0)

-----------------------------------------------------------------------------
\* Whatever the model decides, a run executes no option that needs an approval
\* without one of that option, and never again the one that granting the approval
\* has carried out already.
NoSelfApproval(states) ==
  \A s \in states :
       /\ \A x \in {s.db.executed[n] : n \in DOMAIN s.db.executed} :
            x.option \in {"r0", "r2"} => \E a \in s.db.granted : a \in {"pending", "granted"} /\ x.option = "r0"
       /\ Cardinality({n \in DOMAIN s.db.executed : s.db.executed[n].option = "r0"}) <= 1

\* A mutation is no recovery: between an execution and whatever the run does next,
\* or its end, lies the verification of that execution, unless an exception ends it;
\* and it executes no more options than it may attempt.
EveryExecutionIsVerified(states) ==
  \A s \in states :
    /\ s.at \notin {"verify", "raised"} => s.attempts = Own(s)
    /\ Own(s) <= 2
    /\ s.status \in {"VERIFIED", "RECOVERY_FAILED"} => s.verification # None

\* Every run ends: each node makes a step more of the bounded number, or comes nearer
\* to the end.
RunsEnd(states) ==
  LET rank == [observe |-> 9, interpret |-> 8, decide |-> 7, tool |-> 6, validate |-> 6, wait |-> 5, act |-> 5,
               verify |-> 4, end_completed |-> 1, end_failed |-> 1, end_paused |-> 1, end |-> 0, raised |-> 0]
  IN  \A s \in states :
        /\ s.steps <= MaxSteps + 1
        /\ ~G!Ended(s) => G!Node(s) # {}
        /\ \A t \in G!Node(s) : t.steps > s.steps \/ rank[t.at] < rank[s.at]

\* Waiting on a human is never reported as success: a run that stopped at the gate of
\* approval or for a selection, or was given an approval that is not granted, does not
\* end as completed, and what ends as completed is so recorded.
WaitingIsNotSuccess(states) ==
  \A s \in states : G!Ended(s) =>
    /\ G!TerminalEvent(s) = "agent.run_completed" => s.status = "COMPLETED" /\ ~s.pending
    /\ s.termination = "WAITING_FOR_APPROVAL" =>
         G!TerminalEvent(s) = "approval.required" /\ s.status = "PENDING_APPROVAL" /\ s.db.asked
    /\ s.termination = "WAITING_FOR_USER_SELECTION" =>
         G!TerminalEvent(s) \in {"selection.required", "approval.required"}
    /\ s.at = "raised" => G!TerminalEvent(s) = "agent.run_failed"

\* A run that has found the event paused calls no tool and files no request; and a
\* pause that comes later still stops the execution.
PausedIsIdle(states) ==
  \A s \in states :
    /\ s.halted /\ s.attempts = 0 => s.last = None /\ Own(s) = 0
    /\ s.db.paused => \A t \in G!Node(s) : Own(t) = Own(s)

\* One pass over the states for all five, and no state is left out.
ASSUME AgentRunsAreSound ==
  \A start \in Starts : \A reachable \in {Reachable(start)} :
    /\ reachable.new = {}
    /\ NoSelfApproval(reachable.found)
    /\ EveryExecutionIsVerified(reachable.found)
    /\ RunsEnd(reachable.found)
    /\ WaitingIsNotSuccess(reachable.found)
    /\ PausedIsIdle(reachable.found)
=============================================================================
