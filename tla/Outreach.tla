------------------------------- MODULE Outreach -------------------------------
(***************************************************************************)
(* The approved outreach to one shortlisted candidate: selection, the      *)
(* approval it files, the two ways to approve it (the button of the        *)
(* shortlist, and the gate, also by a WhatsApp reply), dismissal, and      *)
(* execute_approved_communication, which calls and writes at most once for *)
(* each approval.                                                          *)
(*                                                                         *)
(* Handlers interleave at their reads, network calls and commits, and the  *)
(* process may restart between any two.  Two selections at once may file   *)
(* two approvals, since nothing but a look-up prevents it.  The rest of    *)
(* candidate_data, the phone book and the notifications are left out.      *)
(***************************************************************************)
EXTENDS Integers, FiniteSets

CONSTANTS
  Slots,       \* handlers that may run at the same time
  Approvals,   \* COMMUNICATION_OUTREACH requests that may be filed
  Messages,    \* WhatsApp replies of an organizer, each with its message id
  Hash,        \* hash of the payload of each message
  NoHash,
  Nobody,      \* no approval, no message
  Outcomes,    \* what became of an attempted channel
  MaxRestarts  \* bound: restarts of the API process

INSTANCE Idempotency WITH Hashes <- {Hash[m] : m \in Messages}

ASSUME NamesAssumption ==
  /\ Nobody \notin Approvals \cup Messages
  /\ \A m \in Messages : Hash[m] # NoHash
ASSUME OutcomesAssumption == Outcomes \subseteq {"OK", "FAILED", "UNAVAILABLE"}
ASSUME BoundsAssumption == MaxRestarts \in Nat

Channel == Outcomes \cup {"NOT_ATTEMPTED"}
Decisions == {"ABSENT", "PENDING", "APPROVED", "REJECTED", "STALE"}
Overall == {"COMPLETED", "PARTIAL", "UNAVAILABLE", "FAILED", "DISMISSED",
            "PENDING_APPROVAL", "ABSENT", "APPROVED", "REJECTED", "STALE"}

Communications == [overall : Overall, call : Channel, whatsapp : Channel]
Uncontacted(overall) ==
  [overall |-> overall, call |-> "NOT_ATTEMPTED", whatsapp |-> "NOT_ATTEMPTED"]

VARIABLES
  entry,     \* the shortlist entry: selected or not, and its communication
  approval,  \* the approvals filed for the candidate
  key,       \* comm_approval keys, one for each approval, with their response
  record,    \* openwa:approval keys, one for each message
  slot,      \* the handler in each slot
  contacted, \* calls and messages that were attempted under each approval
  decided,   \* history: decisions each message has made
  restarts

vars == <<entry, approval, key, record, slot, contacted, decided, restarts>>

Pcs == {"idle", "filing", "storing", "admitting", "keying", "claiming", "approving",
        "calling", "writing", "finishing", "marking", "dismissing", "registering",
        "resolving", "completing"}

Idle == [pc |-> "idle", via |-> "route", about |-> Nobody, message |-> Nobody,
         comm |-> Uncontacted("ABSENT")]

\* The types of candidate, approvals, keys and handlers.
TypeOK ==
  /\ entry \in [selected : BOOLEAN, comm : Communications]
  /\ approval \in [Approvals -> Decisions]
  /\ key \in [Approvals -> [status : {"ABSENT", "PROCESSING", "COMPLETED"},
                            response : Communications]]
  /\ record \in [Messages -> Records]
  /\ slot \in [Slots -> [pc : Pcs, via : {"route", "gate"},
                         about : Approvals \cup {Nobody},
                         message : Messages \cup {Nobody}, comm : Communications]]
  /\ contacted \in [Approvals -> [call : Nat, whatsapp : Nat, reached : SUBSET {"call", "whatsapp"}]]
  /\ decided \in [Messages -> Nat]
  /\ restarts \in 0 .. MaxRestarts

Init ==
  /\ entry = [selected |-> FALSE, comm |-> Uncontacted("ABSENT")]
  /\ approval = [a \in Approvals |-> "ABSENT"]
  /\ key = [a \in Approvals |-> [status |-> "ABSENT", response |-> Uncontacted("ABSENT")]]
  /\ record = [m \in Messages |-> NoRecord]
  /\ slot = [s \in Slots |-> Idle]
  /\ contacted = [a \in Approvals |-> [call |-> 0, whatsapp |-> 0, reached |-> {}]]
  /\ decided = [m \in Messages |-> 0]
  /\ restarts = 0

-----------------------------------------------------------------------------
Filed == {a \in Approvals : approval[a] # "ABSENT"}

At(s, pc) == slot[s].pc = pc

Goto(s, pc) == slot' = [slot EXCEPT ![s].pc = pc]

Free(s) == slot' = [slot EXCEPT ![s] = Idle]

\* A handler that raises or answers; one that serves a message settles its key.
Leave(s) == IF slot[s].message = Nobody THEN Free(s) ELSE Goto(s, "completing")

\* The overall status of an outreach that attempted both channels.
Result(call, whatsapp) ==
  LET overall == CASE {call, whatsapp} = {"OK"} -> "COMPLETED"
                   [] "OK" \in {call, whatsapp} -> "PARTIAL"
                   [] {call, whatsapp} = {"UNAVAILABLE"} -> "UNAVAILABLE"
                   [] OTHER -> "FAILED"
  IN  [overall |-> overall, call |-> call, whatsapp |-> whatsapp]

Attempt(a, channel, o) ==
  contacted' = [contacted EXCEPT
    ![a][channel] = IF o = "UNAVAILABLE" THEN @ ELSE @ + 1,
    ![a].reached = IF o = "OK" THEN @ \cup {channel} ELSE @]

-----------------------------------------------------------------------------
(* Faulty variants of the operations defined below, each with one plausible *)
(* bug.  They are not part of Spec; the property each must break is named.   *)

\* TypeOK: the status of the request is taken over as it is.
PendingRaw(comm, status) == [comm EXCEPT !.overall = status]

\* ContactedOnce: the key of a request that died is taken over.
LookUpProcessing(s) ==
  /\ At(s, "keying")
  /\ IF ~entry.selected THEN Leave(s)
     ELSE IF key[slot[s].about].status = "COMPLETED"
     THEN IF slot[s].via = "gate" THEN Goto(s, "marking") ELSE Free(s)
     ELSE Goto(s, IF key[slot[s].about].status = "PROCESSING" THEN "approving" ELSE "claiming")
  /\ UNCHANGED <<entry, approval, key, record, contacted, decided, restarts>>

\* RecordTellsTruth: the call is noted as it was asked for.
CallHopeful(s) ==
  /\ At(s, "calling")
  /\ \E o \in Outcomes :
       /\ Attempt(slot[s].about, "call", o)
       /\ slot' = [slot EXCEPT ![s].pc = "writing", ![s].comm.call = "OK"]
  /\ UNCHANGED <<entry, approval, key, record, decided, restarts>>

\* MessageDecidesOnce: the request is decided under a key nobody claimed.
RegisterAnyway(s) ==
  /\ At(s, "registering")
  /\ record' = [record EXCEPT ![slot[s].message] = Claimed(Hash[slot[s].message])]
  /\ Goto(s, "resolving")
  /\ UNCHANGED <<entry, approval, key, contacted, decided, restarts>>

-----------------------------------------------------------------------------
(* Selection *)

\* What selection makes of the communication, from an approval it has read.
Pending(comm, status) ==
  [comm EXCEPT !.overall = IF status = "PENDING" THEN "PENDING_APPROVAL" ELSE status]

\* select_event_shortlist_candidate looks for an approval of the candidate.
Select(s) ==
  /\ At(s, "idle")
  /\ \/ /\ Filed = {}
        /\ slot' = [slot EXCEPT ![s].pc = "filing"]
     \/ \E a \in Filed :
          slot' = [slot EXCEPT ![s].pc = "storing", ![s].about = a,
                               ![s].comm = Pending(entry.comm, approval[a])]
  /\ UNCHANGED <<entry, approval, key, record, contacted, decided, restarts>>

\* The selection commits with the new approval.
File(s) ==
  /\ At(s, "filing")
  /\ \E a \in Approvals \ Filed :
       /\ approval' = [approval EXCEPT ![a] = "PENDING"]
       /\ slot' = [slot EXCEPT ![s].pc = "storing", ![s].about = a,
                               ![s].comm = Pending(entry.comm, "PENDING")]
  /\ entry' = [entry EXCEPT !.selected = TRUE]
  /\ UNCHANGED <<key, record, contacted, decided, restarts>>

StoreSelection(s) ==
  /\ At(s, "storing")
  /\ entry' = [selected |-> TRUE, comm |-> slot[s].comm]
  /\ Free(s)
  /\ UNCHANGED <<approval, key, record, contacted, decided, restarts>>

-----------------------------------------------------------------------------
(* execute_approved_communication *)

\* approve_candidate_communication; a selected candidate has an approval.
Start(s) ==
  /\ At(s, "idle") /\ entry.selected
  /\ \E a \in Filed : slot' = [slot EXCEPT ![s].pc = "keying", ![s].about = a]
  /\ UNCHANGED <<entry, approval, key, record, contacted, decided, restarts>>

\* A key that is there answers the caller, also when its request has died.
LookUp(s) ==
  /\ At(s, "keying")
  /\ IF ~entry.selected THEN Leave(s)
     ELSE IF key[slot[s].about].status # "ABSENT"
     THEN IF slot[s].via = "gate" THEN Goto(s, "marking") ELSE Free(s)
     ELSE Goto(s, "claiming")
  /\ UNCHANGED <<entry, approval, key, record, contacted, decided, restarts>>

\* The second insertion of a key violates its primary key, which raises.
Claim(s) ==
  /\ At(s, "claiming")
  /\ IF key[slot[s].about].status = "ABSENT"
     THEN /\ key' = [key EXCEPT ![slot[s].about].status = "PROCESSING"]
          /\ Goto(s, "approving")
     ELSE Free(s) /\ UNCHANGED key
  /\ UNCHANGED <<entry, approval, record, contacted, decided, restarts>>

\* The request is APPROVED whatever it was.
SetApproved(s) ==
  /\ At(s, "approving")
  /\ approval' = [approval EXCEPT ![slot[s].about] = "APPROVED"]
  /\ Goto(s, "calling")
  /\ UNCHANGED <<entry, key, record, contacted, decided, restarts>>

\* Without a phone number neither channel is tried.
NoPhone(s) ==
  /\ At(s, "calling")
  /\ slot' = [slot EXCEPT ![s].pc = "finishing", ![s].comm = Uncontacted("UNAVAILABLE")]
  /\ UNCHANGED <<entry, approval, key, record, contacted, decided, restarts>>

Call(s) ==
  /\ At(s, "calling")
  /\ \E o \in Outcomes :
       /\ Attempt(slot[s].about, "call", o)
       /\ slot' = [slot EXCEPT ![s].pc = "writing", ![s].comm.call = o]
  /\ UNCHANGED <<entry, approval, key, record, decided, restarts>>

Write(s) ==
  /\ At(s, "writing")
  /\ \E o \in Outcomes :
       /\ Attempt(slot[s].about, "whatsapp", o)
       /\ slot' = [slot EXCEPT ![s].pc = "finishing",
                               ![s].comm = Result(slot[s].comm.call, o)]
  /\ UNCHANGED <<entry, approval, key, record, decided, restarts>>

\* The result replaces the communication of the entry and completes the key.
Finish(s) ==
  /\ At(s, "finishing")
  /\ entry' = [entry EXCEPT !.comm = slot[s].comm]
  /\ key' = [key EXCEPT ![slot[s].about] = [status |-> "COMPLETED",
                                            response |-> slot[s].comm]]
  /\ IF slot[s].via = "gate" THEN Goto(s, "marking") ELSE Free(s)
  /\ UNCHANGED <<approval, record, contacted, decided, restarts>>

-----------------------------------------------------------------------------
(* The gate and its remote channel *)

ApproveAtGate(s, a) ==
  /\ At(s, "idle") /\ a \in Filed
  /\ slot' = [slot EXCEPT ![s].pc = "admitting", ![s].about = a]
  /\ UNCHANGED <<entry, approval, key, record, contacted, decided, restarts>>

\* approve checks status and snapshot, and executes before it marks.  The
\* snapshot was taken before the selection inserted an assignment or a venue,
\* which may make the request stale at birth, and the plan may change later.
Admit(s) ==
  LET a == slot[s].about IN
  /\ At(s, "admitting")
  /\ \/ approval[a] # "PENDING" /\ Leave(s) /\ UNCHANGED <<approval, decided>>
     \/ /\ approval[a] = "PENDING"
        /\ approval' = [approval EXCEPT ![a] = "STALE"]
        /\ Leave(s)
        /\ UNCHANGED decided
     \/ /\ approval[a] = "PENDING"
        /\ slot' = [slot EXCEPT ![s].pc = "keying", ![s].via = "gate"]
        /\ decided' = [m \in Messages |-> decided[m] + (IF m = slot[s].message THEN 1 ELSE 0)]
        /\ UNCHANGED approval
  /\ UNCHANGED <<entry, key, record, contacted, restarts>>

Mark(s) ==
  /\ At(s, "marking")
  /\ approval' = [approval EXCEPT ![slot[s].about] = "APPROVED"]
  /\ Leave(s)
  /\ UNCHANGED <<entry, key, record, contacted, decided, restarts>>

\* The organizer's message arrives, perhaps not for the first time.
Deliver(s, m) ==
  /\ At(s, "idle")
  /\ Verdict(record[m], Hash[m]) = "start"
  /\ slot' = [slot EXCEPT ![s].pc = "registering", ![s].message = m]
  /\ UNCHANGED <<entry, approval, key, record, contacted, decided, restarts>>

\* The commit of check_or_start; a key of a message is never failed, and its 24
\* hours are left out, so that none is there to be replaced.
Register(s) ==
  LET m == slot[s].message IN
  /\ At(s, "registering")
  /\ IF ClaimVerdict(NoRecord, record[m], Hash[m]) = "start"
     THEN record' = [record EXCEPT ![m] = Claimed(Hash[m])] /\ Goto(s, "resolving")
     ELSE Free(s) /\ UNCHANGED record
  /\ UNCHANGED <<entry, approval, key, contacted, decided, restarts>>

\* A reply without a code decides the only pending request, if there is one.
Resolve(s) ==
  LET pending == {a \in Approvals : approval[a] = "PENDING"} IN
  /\ At(s, "resolving")
  /\ \/ Cardinality(pending) # 1 /\ Goto(s, "completing")
     \/ /\ Cardinality(pending) = 1
        /\ \E a \in pending, pc \in {"admitting", "dismissing"} :
             slot' = [slot EXCEPT ![s].pc = pc, ![s].about = a]
  /\ UNCHANGED <<entry, approval, key, record, contacted, decided, restarts>>

Complete(s) ==
  /\ At(s, "completing")
  /\ record' = [record EXCEPT ![slot[s].message] = Settled(@, "COMPLETED")]
  /\ Free(s)
  /\ UNCHANGED <<entry, approval, key, contacted, decided, restarts>>

-----------------------------------------------------------------------------
(* Dismissal *)

\* dismiss_candidate_communication ("Not now") and the rejection at the gate.
Dismiss(s) ==
  /\ At(s, "idle")
  /\ \/ Filed = {} /\ slot' = [slot EXCEPT ![s].pc = "dismissing"]
     \/ \E a \in Filed : slot' = [slot EXCEPT ![s].pc = "dismissing", ![s].about = a]
  /\ UNCHANGED <<entry, approval, key, record, contacted, decided, restarts>>

\* The status is written without looking, and the entry says that nobody was
\* contacted, whether or not.
StoreDismissal(s) ==
  LET a == slot[s].about IN
  /\ At(s, "dismissing")
  /\ approval' = IF a = Nobody THEN approval ELSE [approval EXCEPT ![a] = "REJECTED"]
  /\ entry' = [entry EXCEPT !.comm = Uncontacted("DISMISSED")]
  /\ decided' = [m \in Messages |-> decided[m] + (IF m = slot[s].message THEN 1 ELSE 0)]
  /\ Leave(s)
  /\ UNCHANGED <<key, record, contacted, restarts>>

-----------------------------------------------------------------------------
Restart ==
  /\ restarts < MaxRestarts
  /\ restarts' = restarts + 1
  /\ slot' = [s \in Slots |-> Idle]
  /\ UNCHANGED <<entry, approval, key, record, contacted, decided>>

Handle(s) ==
  \/ Select(s) \/ File(s) \/ StoreSelection(s)
  \/ Start(s) \/ LookUp(s) \/ Claim(s) \/ SetApproved(s) \/ NoPhone(s)
  \/ Call(s) \/ Write(s) \/ Finish(s)
  \/ \E a \in Approvals : ApproveAtGate(s, a)
  \/ Admit(s) \/ Mark(s)
  \/ \E m \in Messages : Deliver(s, m)
  \/ Register(s) \/ Resolve(s) \/ Complete(s)
  \/ Dismiss(s) \/ StoreDismissal(s)

Next ==
  \/ \E s \in Slots : Handle(s)
  \/ Restart

Spec == Init /\ [][Next]_vars

-----------------------------------------------------------------------------
\* Double clicks, the button and the gate at once, repeated messages, retries
\* after a crash: under one approval the candidate is called at most once and
\* written to at most once.
ContactedOnce == \A a \in Approvals : contacted[a].call <= 1 /\ contacted[a].whatsapp <= 1

\* No fake success and none forgotten by the key: a completed key answers what
\* the channels accepted, and the entry claims nothing no channel accepted.
RecordTellsTruth ==
  /\ \A a \in Approvals : key[a].status = "COMPLETED" =>
       /\ key[a].response.call = "OK" <=> "call" \in contacted[a].reached
       /\ key[a].response.whatsapp = "OK" <=> "whatsapp" \in contacted[a].reached
  /\ entry.comm.call = "OK" => \E a \in Approvals : "call" \in contacted[a].reached
  /\ entry.comm.whatsapp = "OK" => \E a \in Approvals : "whatsapp" \in contacted[a].reached

\* However often a message is delivered, and wherever the process dies, it
\* decides one request at most.
MessageDecidesOnce == \A m \in Messages : decided[m] <= 1
=============================================================================
