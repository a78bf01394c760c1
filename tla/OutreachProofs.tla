--------------------------- MODULE OutreachProofs ---------------------------
(***************************************************************************)
(* Proofs about Outreach for any number of handlers, approvals, messages   *)
(* and restarts: the type invariant, that a candidate is contacted at most *)
(* once for each approval, that keys and the entry answer what the         *)
(* channels accepted, and that a message decides at most once.             *)
(***************************************************************************)
EXTENDS Outreach, TLAPS

-----------------------------------------------------------------------------
(* Types *)

Handlers == [pc : Pcs, via : {"route", "gate"}, about : Approvals \cup {Nobody},
             message : Messages \cup {Nobody}, comm : Communications]

Keys == [status : {"ABSENT", "PROCESSING", "COMPLETED"}, response : Communications]

Contacts == [call : Nat, whatsapp : Nat, reached : SUBSET {"call", "whatsapp"}]

\* The type invariant, table by table.
LEMMA Types ==
  TypeOK <=> /\ entry \in [selected : BOOLEAN, comm : Communications]
             /\ approval \in [Approvals -> Decisions]
             /\ key \in [Approvals -> Keys]
             /\ record \in [Messages -> Records]
             /\ slot \in [Slots -> Handlers]
             /\ contacted \in [Approvals -> Contacts]
             /\ decided \in [Messages -> Nat]
             /\ restarts \in 0 .. MaxRestarts
BY DEF TypeOK, Handlers, Keys, Contacts

\* A handler that goes on, or ends, is still a handler, and no other moves.
LEMMA GotoShape ==
  ASSUME TypeOK, NEW s \in Slots, NEW pc \in Pcs, Goto(s, pc)
  PROVE  /\ slot' \in [Slots -> Handlers]
         /\ \A o \in Slots \ {s} : slot'[o] = slot[o]
         /\ slot'[s] = [slot[s] EXCEPT !.pc = pc]
<1>1. slot \in [Slots -> Handlers]
  BY Types
<1>2. [slot[s] EXCEPT !.pc = pc] \in Handlers
  BY <1>1 DEF Handlers
<1>3. slot' = [slot EXCEPT ![s] = [slot[s] EXCEPT !.pc = pc]]
  BY DEF Goto
<1> QED
  BY <1>1, <1>2, <1>3

\* What a handler that ends leaves of itself.
LEMMA FreeShape ==
  ASSUME TypeOK, NEW s \in Slots, Free(s)
  PROVE  /\ slot' \in [Slots -> Handlers]
         /\ \A o \in Slots \ {s} : slot'[o] = slot[o]
         /\ slot'[s] = Idle
<1>1. Idle \in Handlers
  BY DEF Idle, Handlers, Pcs, Communications, Uncontacted, Overall, Channel
<1> QED
  BY <1>1 DEF TypeOK, Free, Handlers

\* Serving a message ends with the completion of its key, anything else at once.
LEMMA LeaveShape ==
  ASSUME TypeOK, NEW s \in Slots, Leave(s)
  PROVE  /\ slot' \in [Slots -> Handlers]
         /\ \A o \in Slots \ {s} : slot'[o] = slot[o]
         /\ \/ slot[s].message = Nobody /\ slot'[s] = Idle
            \/ slot[s].message # Nobody /\ slot'[s] = [slot[s] EXCEPT !.pc = "completing"]
<1>1. "completing" \in Pcs
  BY DEF Pcs
<1> QED
  BY <1>1, GotoShape, FreeShape DEF Leave

\* What selection and an attempt of both channels make of a communication.
LEMMA PendingTyped ==
  ASSUME NEW comm \in Communications, NEW status \in Decisions
  PROVE  /\ Pending(comm, status) \in Communications
         /\ Pending(comm, status).call = comm.call
         /\ Pending(comm, status).whatsapp = comm.whatsapp
BY DEF Pending, Communications, Decisions, Overall

\* A communication that never went out is one.
LEMMA UncontactedTyped ==
  ASSUME NEW overall \in Overall
  PROVE  Uncontacted(overall) \in Communications
BY DEF Uncontacted, Communications, Channel

\* A communication is made of what its two channels report.
LEMMA ResultTyped ==
  ASSUME NEW call \in Channel, NEW whatsapp \in Channel
  PROVE  /\ Result(call, whatsapp) \in Communications
         /\ Result(call, whatsapp).call = call
         /\ Result(call, whatsapp).whatsapp = whatsapp
<1> DEFINE overall == CASE {call, whatsapp} = {"OK"} -> "COMPLETED"
                        [] "OK" \in {call, whatsapp} -> "PARTIAL"
                        [] {call, whatsapp} = {"UNAVAILABLE"} -> "UNAVAILABLE"
                        [] OTHER -> "FAILED"
<1>1. overall \in Overall
  BY DEF Overall
<1>2. Result(call, whatsapp) = [overall |-> overall, call |-> call, whatsapp |-> whatsapp]
  BY DEF Result
<1> HIDE DEF overall
<1> QED
  BY <1>1, <1>2 DEF Communications

\* An attempt counts on its channel and under its approval only.
LEMMA AttemptShape ==
  ASSUME TypeOK, NEW a \in Approvals, NEW c \in {"call", "whatsapp"},
         NEW o \in Outcomes, Attempt(a, c, o)
  PROVE  /\ contacted' \in [Approvals -> Contacts]
         /\ \A b \in Approvals \ {a} : contacted'[b] = contacted[b]
         /\ \A d \in {"call", "whatsapp"} \ {c} : contacted'[a][d] = contacted[a][d]
         /\ contacted'[a][c] = IF o = "UNAVAILABLE" THEN contacted[a][c] ELSE contacted[a][c] + 1
         /\ o = "OK" => contacted'[a].reached = contacted[a].reached \cup {c}
         /\ o # "OK" => contacted'[a].reached = contacted[a].reached
<1>1. PICK n \in Nat : n = IF o = "UNAVAILABLE" THEN contacted[a][c] ELSE contacted[a][c] + 1
  BY DEF TypeOK
<1>2. PICK r \in SUBSET {"call", "whatsapp"} :
        r = IF o = "OK" THEN contacted[a].reached \cup {c} ELSE contacted[a].reached
  BY DEF TypeOK
<1>3. contacted' = [contacted EXCEPT ![a][c] = n, ![a].reached = r]
  BY <1>1, <1>2 DEF Attempt, TypeOK
<1>4. contacted \in [Approvals -> Contacts]
  BY Types
<1>5. PICK f \in Contacts : f = [contacted[a] EXCEPT ![c] = n, !.reached = r]
  BY <1>4 DEF Contacts
<1>6. contacted' = [contacted EXCEPT ![a] = f]
  BY <1>3, <1>4, <1>5 DEF Contacts
<1>7. /\ f[c] = n /\ f.reached = r
      /\ \A d \in {"call", "whatsapp"} \ {c} : f[d] = contacted[a][d]
  BY <1>4, <1>5 DEF Contacts
<1> QED
  BY <1>1, <1>2, <1>4, <1>6, <1>7

\* A new state of the tables, typed table by table, satisfies the invariant.
LEMMA TypesNext ==
  ASSUME entry' \in [selected : BOOLEAN, comm : Communications],
         approval' \in [Approvals -> Decisions], key' \in [Approvals -> Keys],
         record' \in [Messages -> Records], slot' \in [Slots -> Handlers],
         contacted' \in [Approvals -> Contacts], decided' \in [Messages -> Nat],
         restarts' \in 0 .. MaxRestarts
  PROVE  TypeOK'
BY DEF TypeOK, Handlers, Keys, Contacts

\* A handler that takes up an approval or a communication is still one.
LEMMA TakeUpShape ==
  ASSUME TypeOK, NEW s \in Slots, NEW h \in Handlers, slot' = [slot EXCEPT ![s] = h]
  PROVE  /\ slot' \in [Slots -> Handlers]
         /\ \A o \in Slots \ {s} : slot'[o] = slot[o]
         /\ slot'[s] = h
BY Types

\* Every change of a handler is one to a record with all of its fields.
LEMMA Moves ==
  ASSUME TypeOK, NEW s \in Slots
  PROVE  LET h == slot[s] IN
         /\ h \in Handlers
         /\ \A pc \in Pcs : [h EXCEPT !.pc = pc] \in Handlers
         /\ \A pc \in Pcs, a \in Approvals : [h EXCEPT !.pc = pc, !.about = a] \in Handlers
         /\ \A pc \in Pcs, a \in Approvals, c \in Communications :
              [h EXCEPT !.pc = pc, !.about = a, !.comm = c] \in Handlers
         /\ \A pc \in Pcs, c \in Communications :
              [h EXCEPT !.pc = pc, !.comm = c] \in Handlers
         /\ \A pc \in Pcs, o \in Channel : [h EXCEPT !.pc = pc, !.comm.call = o] \in Handlers
         /\ \A pc \in Pcs : [h EXCEPT !.pc = pc, !.via = "gate"] \in Handlers
         /\ \A pc \in Pcs, m \in Messages : [h EXCEPT !.pc = pc, !.message = m] \in Handlers
<1>1. slot[s] \in Handlers
  BY Types
<1>2. \A c \in Communications, o \in Channel : [c EXCEPT !.call = o] \in Communications
  BY DEF Communications
<1> QED
  BY <1>1, <1>2 DEF Handlers
-----------------------------------------------------------------------------
(* The inductive invariant *)

Untouched == [call |-> 0, whatsapp |-> 0, reached |-> {}]

\* What a communication says of a channel is what was accepted under approval a.
TrueOf(comm, channel, a) == comm[channel] = "OK" <=> channel \in contacted[a].reached

\* A communication claims nothing that no channel accepted.
Justified(comm) ==
  \A channel \in {"call", "whatsapp"} :
    comm[channel] = "OK" => \E a \in Approvals : channel \in contacted[a].reached

\* Where a handler holds the key of its approval, and where it has an approval.
Holding == {"approving", "calling", "writing", "finishing"}
About == {"admitting", "keying", "claiming", "marking"} \cup Holding

\* Where a handler that serves a message has yet to decide.
Undecided == {"resolving", "admitting", "dismissing"}

Holds(s, a) == slot[s].pc \in Holding /\ slot[s].about = a
Serves(s, m) == slot[s].message = m /\ slot[s].pc # "registering"

\* One handler at most holds a key, which is PROCESSING then; what is ABSENT
\* has contacted nobody.
KeysOK ==
  \A a \in Approvals :
    /\ \A s \in Slots : Holds(s, a) => key[a].status = "PROCESSING"
    /\ \A s, o \in Slots : Holds(s, a) /\ Holds(o, a) => s = o
    /\ key[a].status = "ABSENT" => contacted[a] = Untouched

\* One handler at most serves a message, whose key is there then, and while it
\* has not decided, nobody has.
MessagesOK ==
  \A m \in Messages :
    /\ \A s \in Slots : Serves(s, m) => record[m].status # "ABSENT"
    /\ \A s, o \in Slots : Serves(s, m) /\ Serves(o, m) => s = o
    /\ record[m].status = "ABSENT" => decided[m] = 0
    /\ \A s \in Slots : Serves(s, m) /\ slot[s].pc \in Undecided => decided[m] = 0

\* What a handler has at hand, and what it has attempted so far.
HandlerOK(s) ==
  LET h == slot[s]
      a == slot[s].about
  IN
  /\ h.pc = "idle" => h.message = Nobody
  /\ h.pc \in About => a \in Approvals
  /\ h.pc \in {"registering", "resolving", "completing"} => h.message \in Messages
  /\ h.pc \in {"approving", "calling"} => contacted[a] = Untouched
  /\ h.pc = "writing" => /\ contacted[a].whatsapp = 0
                         /\ "whatsapp" \notin contacted[a].reached
                         /\ TrueOf(h.comm, "call", a)
  /\ h.pc = "finishing" => TrueOf(h.comm, "call", a) /\ TrueOf(h.comm, "whatsapp", a)
  /\ h.pc = "storing" => Justified(h.comm)

OutreachInvariant ==
  /\ KeysOK /\ MessagesOK
  /\ \A s \in Slots : HandlerOK(s)
  /\ ContactedOnce /\ RecordTellsTruth /\ MessageDecidesOnce

-----------------------------------------------------------------------------
\* What the handler of slot s does keeps the types.
LEMMA HandleTyped ==
  ASSUME TypeOK, NEW s \in Slots, HandlerOK(s), Handle(s)
  PROVE  TypeOK'
<1>1. /\ entry \in [selected : BOOLEAN, comm : Communications]
      /\ approval \in [Approvals -> Decisions] /\ key \in [Approvals -> Keys]
      /\ record \in [Messages -> Records] /\ slot \in [Slots -> Handlers]
      /\ contacted \in [Approvals -> Contacts] /\ decided \in [Messages -> Nat]
      /\ restarts \in 0 .. MaxRestarts
  BY Types
<1>2. /\ {"filing", "storing", "admitting", "keying", "claiming", "approving", "calling",
          "writing", "finishing", "marking", "dismissing", "registering", "resolving",
          "completing"} \subseteq Pcs
      /\ {"PENDING", "APPROVED", "REJECTED", "STALE"} \subseteq Decisions
      /\ {"UNAVAILABLE", "DISMISSED"} \subseteq Overall
      /\ Outcomes \subseteq Channel
  BY DEF Pcs, Decisions, Overall, Channel
<1>3. slot[s] \in Handlers
  BY <1>1
<1>4. CASE Select(s)
  <2>1. ASSUME NEW a \in Approvals
        PROVE  Pending(entry.comm, approval[a]) \in Communications
    BY <1>1, PendingTyped
  <2>2. slot' \in [Slots -> Handlers]
    <3>1. CASE slot' = [slot EXCEPT ![s].pc = "filing"]
      BY <1>2, <3>1, GotoShape DEF Goto
    <3>2. ASSUME NEW a \in Filed,
                 slot' = [slot EXCEPT ![s].pc = "storing", ![s].about = a,
                                      ![s].comm = Pending(entry.comm, approval[a])]
          PROVE  slot' \in [Slots -> Handlers]
      <4>1. PICK c \in Communications : c = Pending(entry.comm, approval[a])
        BY <2>1 DEF Filed
      <4> QED
        BY <1>1, <1>2, <3>2, <4>1, Moves DEF Filed
    <3> QED
      BY <1>4, <3>1, <3>2 DEF Select
  <2> QED
    BY <1>1, <1>4, <2>2, TypesNext DEF Select
<1>5. CASE File(s)
  <2>1. PICK c \in Communications : c = Pending(entry.comm, "PENDING")
    BY <1>1, <1>2, PendingTyped
  <2>2. PICK a \in Approvals :
          /\ approval' = [approval EXCEPT ![a] = "PENDING"]
          /\ slot' = [slot EXCEPT ![s].pc = "storing", ![s].about = a, ![s].comm = c]
    BY <1>5, <2>1 DEF File
  <2>3. slot' \in [Slots -> Handlers]
    BY <1>1, <1>2, <2>2, Moves
  <2>4. /\ approval' \in [Approvals -> Decisions]
        /\ entry' \in [selected : BOOLEAN, comm : Communications]
    BY <1>1, <1>2, <1>5, <2>2 DEF File
  <2> QED
    BY <1>1, <1>5, <2>3, <2>4, TypesNext DEF File
<1>6. CASE StoreSelection(s)
  <2>1. entry' \in [selected : BOOLEAN, comm : Communications]
    BY <1>3, <1>6 DEF StoreSelection, Handlers
  <2> QED
    BY <1>1, <1>6, <2>1, FreeShape, TypesNext DEF StoreSelection
<1>7. CASE Start(s)
  <2>0. PICK a \in Approvals : slot' = [slot EXCEPT ![s].pc = "keying", ![s].about = a]
    BY <1>7 DEF Start, Filed
  <2>1. slot' \in [Slots -> Handlers]
    BY <1>1, <1>2, <2>0, Moves
  <2> QED
    BY <1>1, <1>7, <2>1, TypesNext DEF Start
<1>8. CASE LookUp(s)
  BY <1>1, <1>2, <1>8, GotoShape, FreeShape, LeaveShape, TypesNext DEF LookUp
<1>9. CASE Claim(s)
  <2>1. key' \in [Approvals -> Keys]
    BY <1>1, <1>9 DEF Claim, Keys
  <2> QED
    BY <1>1, <1>2, <1>9, <2>1, GotoShape, FreeShape, TypesNext DEF Claim
<1>10. CASE SetApproved(s)
  <2>1. approval' \in [Approvals -> Decisions]
    BY <1>1, <1>2, <1>10 DEF SetApproved
  <2> QED
    BY <1>1, <1>2, <1>10, <2>1, GotoShape, TypesNext DEF SetApproved
<1>11. CASE NoPhone(s)
  <2>1. PICK c \in Communications : c = Uncontacted("UNAVAILABLE")
    BY <1>2, UncontactedTyped
  <2>2. slot' \in [Slots -> Handlers]
    BY <1>1, <1>2, <1>11, <2>1, Moves DEF NoPhone
  <2> QED
    BY <1>1, <1>11, <2>2, TypesNext DEF NoPhone
<1>12. CASE Call(s)
  <2>1. PICK o \in Outcomes :
          /\ Attempt(slot[s].about, "call", o)
          /\ slot' = [slot EXCEPT ![s].pc = "writing", ![s].comm.call = o]
    BY <1>12 DEF Call
  <2>2. slot' \in [Slots -> Handlers]
    BY <1>1, <1>2, <2>1, Moves
  <2>3. contacted' \in [Approvals -> Contacts]
    BY <1>12, <2>1, AttemptShape DEF Call, At, HandlerOK, About, Holding
  <2> QED
    BY <1>1, <1>12, <2>2, <2>3, TypesNext DEF Call
<1>13. CASE Write(s)
  <2>1. PICK o \in Outcomes :
          /\ Attempt(slot[s].about, "whatsapp", o)
          /\ slot' = [slot EXCEPT ![s].pc = "finishing",
                                  ![s].comm = Result(slot[s].comm.call, o)]
    BY <1>13 DEF Write
  <2>2. PICK c \in Communications : c = Result(slot[s].comm.call, o)
    BY <1>2, <1>3, ResultTyped DEF Handlers, Communications
  <2>3. slot' \in [Slots -> Handlers]
    BY <1>1, <1>2, <2>1, <2>2, Moves
  <2>4. contacted' \in [Approvals -> Contacts]
    BY <1>13, <2>1, AttemptShape DEF Write, At, HandlerOK, About, Holding
  <2> QED
    BY <1>1, <1>13, <2>3, <2>4, TypesNext DEF Write
<1>14. CASE Finish(s)
  <2>1. /\ entry' \in [selected : BOOLEAN, comm : Communications]
        /\ key' \in [Approvals -> Keys]
    BY <1>1, <1>3, <1>14 DEF Finish, Keys, Handlers
  <2> QED
    BY <1>1, <1>2, <1>14, <2>1, GotoShape, FreeShape, TypesNext DEF Finish
<1>15. ASSUME NEW a \in Approvals, ApproveAtGate(s, a)
       PROVE  TypeOK'
  <2>1. slot' \in [Slots -> Handlers]
    BY <1>1, <1>2, <1>15, Moves DEF ApproveAtGate
  <2> QED
    BY <1>1, <1>15, <2>1, TypesNext DEF ApproveAtGate
<1>16. CASE Admit(s)
  <2>1. approval' \in [Approvals -> Decisions] /\ decided' \in [Messages -> Nat]
    BY <1>1, <1>2, <1>16 DEF Admit
  <2>2. slot' \in [Slots -> Handlers]
    <3>1. CASE Leave(s)
      BY <3>1, LeaveShape
    <3>2. CASE slot' = [slot EXCEPT ![s].pc = "keying", ![s].via = "gate"]
      BY <1>1, <1>2, <3>2, Moves
    <3> QED
      BY <1>16, <3>1, <3>2 DEF Admit
  <2> QED
    BY <1>1, <1>16, <2>1, <2>2, TypesNext DEF Admit
<1>17. CASE Mark(s)
  <2>1. approval' \in [Approvals -> Decisions]
    BY <1>1, <1>2, <1>17 DEF Mark
  <2> QED
    BY <1>1, <1>17, <2>1, LeaveShape, TypesNext DEF Mark
<1>18. ASSUME NEW m \in Messages, Deliver(s, m)
       PROVE  TypeOK'
  <2>1. slot' \in [Slots -> Handlers]
    BY <1>1, <1>2, <1>18, Moves DEF Deliver
  <2> QED
    BY <1>1, <1>18, <2>1, TypesNext DEF Deliver
<1>19. CASE Register(s)
  <2>1. slot[s].message \in Messages
    BY <1>19 DEF Register, At, HandlerOK
  <2>2. record' \in [Messages -> Records]
    BY <1>1, <1>19, <2>1 DEF Register, Claimed, Records, Statuses
  <2> QED
    BY <1>1, <1>2, <1>19, <2>2, GotoShape, FreeShape, TypesNext DEF Register
<1>20. CASE Resolve(s)
  <2>1. slot' \in [Slots -> Handlers]
    <3>1. CASE Goto(s, "completing")
      BY <1>2, <3>1, GotoShape
    <3>2. ASSUME NEW a \in Approvals, NEW pc \in {"admitting", "dismissing"},
                 slot' = [slot EXCEPT ![s].pc = pc, ![s].about = a]
          PROVE  slot' \in [Slots -> Handlers]
      BY <1>1, <1>2, <3>2, Moves
    <3> QED
      BY <1>20, <3>1, <3>2 DEF Resolve
  <2> QED
    BY <1>1, <1>20, <2>1, TypesNext DEF Resolve
<1>21. CASE Complete(s)
  <2>1. \A m \in Messages : Settled(record[m], "COMPLETED") \in Records
    BY <1>1 DEF Settled, Records, Statuses
  <2>2. record' \in [Messages -> Records]
    BY <1>1, <1>21, <2>1 DEF Complete
  <2> QED
    BY <1>1, <1>21, <2>2, FreeShape, TypesNext DEF Complete
<1>22. CASE Dismiss(s)
  <2>1. slot' \in [Slots -> Handlers]
    <3>1. CASE slot' = [slot EXCEPT ![s].pc = "dismissing"]
      BY <1>2, <3>1, GotoShape DEF Goto
    <3>2. ASSUME NEW a \in Approvals,
                 slot' = [slot EXCEPT ![s].pc = "dismissing", ![s].about = a]
          PROVE  slot' \in [Slots -> Handlers]
      BY <1>1, <1>2, <3>2, Moves
    <3> QED
      BY <1>22, <3>1, <3>2 DEF Dismiss, Filed
  <2> QED
    BY <1>1, <1>22, <2>1, TypesNext DEF Dismiss
<1>23. CASE StoreDismissal(s)
  <2>1. PICK c \in Communications : c = Uncontacted("DISMISSED")
    BY <1>2, UncontactedTyped
  <2>2. entry' \in [selected : BOOLEAN, comm : Communications]
    BY <1>1, <1>23, <2>1 DEF StoreDismissal
  <2>3. approval' \in [Approvals -> Decisions]
    BY <1>1, <1>2, <1>23 DEF StoreDismissal
  <2>4. decided' \in [Messages -> Nat]
    BY <1>1, <1>23 DEF StoreDismissal
  <2> QED
    BY <1>1, <1>23, <2>2, <2>3, <2>4, LeaveShape, TypesNext DEF StoreDismissal
<1> QED
  BY <1>4, <1>5, <1>6, <1>7, <1>8, <1>9, <1>10, <1>11, <1>12, <1>13, <1>14, <1>15,
     <1>16, <1>17, <1>18, <1>19, <1>20, <1>21, <1>22, <1>23 DEF Handle
-----------------------------------------------------------------------------
(* What a handler that writes nothing of it leaves of the invariant *)

\* The other handlers are where they were.
Alone(s) == \A o \in Slots \ {s} : slot'[o] = slot[o]

\* A step that writes no key keeps what is said of keys.
LEMMA KeysKept ==
  ASSUME KeysOK, NEW s \in Slots, Alone(s), UNCHANGED <<key, contacted>>,
         slot'[s].pc \in Holding => slot[s].pc \in Holding /\ slot'[s].about = slot[s].about
  PROVE  KeysOK'
<1>1. \A o \in Slots, a \in Approvals : Holds(o, a)' => Holds(o, a)
  BY DEF Alone, Holds
<1> QED
  BY <1>1 DEF KeysOK

\* A step that writes no record keeps what is said of messages.
LEMMA MessagesKept ==
  ASSUME MessagesOK, NEW s \in Slots, Alone(s), UNCHANGED <<record, decided>>,
         slot'[s].message \in Messages /\ slot'[s].pc # "registering" =>
           /\ slot[s].message = slot'[s].message /\ slot[s].pc # "registering"
           /\ slot'[s].pc \in Undecided => slot[s].pc \in Undecided
  PROVE  MessagesOK'
<1>1. \A o \in Slots, m \in Messages : Serves(o, m)' => Serves(o, m)
  BY DEF Alone, Serves
<1>2. \A o \in Slots, m \in Messages :
        Serves(o, m)' /\ slot'[o].pc \in Undecided => Serves(o, m) /\ slot[o].pc \in Undecided
  BY DEF Alone, Serves
<1> QED
  BY <1>1, <1>2 DEF MessagesOK

\* The handlers that do not move keep their part.
LEMMA HandlersKept ==
  ASSUME NEW s \in Slots, \A o \in Slots \ {s} : HandlerOK(o), Alone(s),
         UNCHANGED contacted, HandlerOK(s)'
  PROVE  \A o \in Slots : HandlerOK(o)'
<1>1. ASSUME NEW o \in Slots \ {s}
      PROVE  HandlerOK(o)'
  <2>1. slot'[o] = slot[o] /\ HandlerOK(o)
    BY DEF Alone
  <2> QED
    BY <2>1 DEF HandlerOK, TrueOf, Justified
<1> QED
  BY <1>1

\* The record tells the truth when each of its parts does.
LEMMA TruthSplit ==
  RecordTellsTruth <=>
    /\ Justified(entry.comm)
    /\ \A a \in Approvals : key[a].status = "COMPLETED" =>
         TrueOf(key[a].response, "call", a) /\ TrueOf(key[a].response, "whatsapp", a)
BY DEF RecordTellsTruth, Justified, TrueOf

\* ... in the next state as well.
LEMMA TruthNext ==
  ASSUME Justified(entry.comm)',
         \A a \in Approvals : key'[a].status = "COMPLETED" =>
           TrueOf(key[a].response, "call", a)' /\ TrueOf(key[a].response, "whatsapp", a)'
  PROVE  RecordTellsTruth'
BY DEF RecordTellsTruth, Justified, TrueOf

\* A step that claims, contacts and decides nothing.
LEMMA QuietStep ==
  ASSUME OutreachInvariant, NEW s \in Slots, Alone(s),
         UNCHANGED <<key, record, contacted, decided>>,
         slot'[s].pc \in Holding => slot[s].pc \in Holding /\ slot'[s].about = slot[s].about,
         slot'[s].message \in Messages /\ slot'[s].pc # "registering" =>
           /\ slot[s].message = slot'[s].message /\ slot[s].pc # "registering"
           /\ slot'[s].pc \in Undecided => slot[s].pc \in Undecided,
         HandlerOK(s)', Justified(entry'.comm)
  PROVE  OutreachInvariant'
<1>1. KeysOK'
  BY KeysKept DEF OutreachInvariant
<1>2. MessagesOK'
  BY MessagesKept DEF OutreachInvariant
<1>3. \A o \in Slots : HandlerOK(o)'
  BY HandlersKept DEF OutreachInvariant
<1>4. ContactedOnce' /\ MessageDecidesOnce'
  BY DEF OutreachInvariant, ContactedOnce, MessageDecidesOnce
<1>5. RecordTellsTruth'
  <2>1. Justified(entry.comm)'
    BY DEF Justified
  <2>2. \A a \in Approvals : key'[a].status = "COMPLETED" =>
          TrueOf(key[a].response, "call", a)' /\ TrueOf(key[a].response, "whatsapp", a)'
    BY TruthSplit DEF OutreachInvariant, TrueOf
  <2> QED
    BY <2>1, <2>2, TruthNext
<1> QED
  BY <1>1, <1>2, <1>3, <1>4, <1>5 DEF OutreachInvariant

\* A handler that stops, or only has a message's key to complete, holds nothing.
LEMMA LeaveQuiet ==
  ASSUME TypeOK, OutreachInvariant, NEW s \in Slots, Leave(s) \/ Free(s),
         slot[s].pc # "registering", UNCHANGED <<key, record, contacted, decided>>,
         Justified(entry'.comm)
  PROVE  OutreachInvariant'
<1>1. Alone(s)
  BY LeaveShape, FreeShape DEF Alone
<1>2. slot[s] \in Handlers
  BY Types
<1>3. \/ slot'[s] = Idle
      \/ slot[s].message \in Messages /\ slot'[s] = [slot[s] EXCEPT !.pc = "completing"]
  BY <1>2, LeaveShape, FreeShape DEF Handlers
<1>4. CASE slot'[s] = Idle
  <2>1. slot'[s].pc = "idle" /\ slot'[s].message = Nobody
    BY <1>4 DEF Idle
  <2>2. HandlerOK(s)'
    BY <2>1 DEF HandlerOK, About, Holding
  <2> QED
    BY <1>1, <2>1, <2>2, QuietStep, NamesAssumption DEF Holding
<1>5. CASE slot[s].message \in Messages /\ slot'[s] = [slot[s] EXCEPT !.pc = "completing"]
  <2>1. slot'[s].pc = "completing" /\ slot'[s].message = slot[s].message
    BY <1>2, <1>5 DEF Handlers
  <2>2. HandlerOK(s)'
    BY <1>5, <2>1 DEF HandlerOK, About, Holding
  <2> QED
    BY <1>1, <1>5, <2>1, <2>2, QuietStep DEF Holding, Undecided
<1> QED
  BY <1>3, <1>4, <1>5
\* A handler whose next place needs no claim and no key of a message.
LEMMA TakesUp ==
  ASSUME TypeOK, OutreachInvariant, NEW s \in Slots, NEW h \in Handlers,
         slot' = [slot EXCEPT ![s] = h],
         h.pc \in {"filing", "storing", "admitting", "keying", "claiming", "dismissing",
                   "registering"},
         h.pc \in About => h.about \in Approvals,
         h.pc = "registering" => h.message \in Messages,
         h.pc = "storing" => Justified(h.comm),
         h.message \in Messages /\ h.pc # "registering" =>
           /\ slot[s].message = h.message /\ slot[s].pc # "registering"
           /\ h.pc \in Undecided => slot[s].pc \in Undecided,
         UNCHANGED <<key, record, contacted, decided>>, Justified(entry'.comm)
  PROVE  OutreachInvariant'
<1>1. Alone(s) /\ slot'[s] = h
  BY TakeUpShape DEF Alone
<1>2. HandlerOK(s)'
  BY <1>1 DEF HandlerOK, About, Holding, Justified
<1> QED
  BY <1>1, <1>2, QuietStep DEF Holding

\* The steps of a handler that claims, contacts and decides nothing.
LEMMA QuietHandlers ==
  ASSUME TypeOK, OutreachInvariant, NEW s \in Slots,
         \/ Select(s) \/ File(s) \/ StoreSelection(s) \/ Start(s) \/ LookUp(s)
         \/ SetApproved(s) \/ NoPhone(s) \/ Mark(s) \/ Resolve(s) \/ Dismiss(s)
         \/ \E a \in Approvals : ApproveAtGate(s, a)
         \/ \E m \in Messages : Deliver(s, m)
  PROVE  OutreachInvariant'
<1>1. /\ entry \in [selected : BOOLEAN, comm : Communications]
      /\ approval \in [Approvals -> Decisions] /\ slot \in [Slots -> Handlers]
      /\ slot[s] \in Handlers
  BY Types
<1>2. {"filing", "storing", "admitting", "keying", "claiming", "calling", "finishing",
       "marking", "dismissing", "registering", "completing"} \subseteq Pcs
  BY DEF Pcs
<1>3. Justified(entry.comm) /\ HandlerOK(s)
  BY TruthSplit DEF OutreachInvariant
<1>4. slot[s].pc = "idle" => slot[s].message \notin Messages
  BY <1>3, NamesAssumption DEF HandlerOK
<1>5. CASE Select(s)
  <2>1. CASE slot' = [slot EXCEPT ![s].pc = "filing"]
    <3>1. PICK h \in Handlers : h = [slot[s] EXCEPT !.pc = "filing"]
      BY <1>2, Moves
    <3>2. /\ slot' = [slot EXCEPT ![s] = h] /\ h.pc = "filing"
          /\ h.message = slot[s].message
      BY <1>1, <2>1, <3>1 DEF Handlers
    <3> QED
      BY <1>3, <1>4, <1>5, <3>2, TakesUp DEF Select, At, About, Holding
  <2>2. ASSUME NEW a \in Filed,
               slot' = [slot EXCEPT ![s].pc = "storing", ![s].about = a,
                                    ![s].comm = Pending(entry.comm, approval[a])]
        PROVE  OutreachInvariant'
    <3>1. PICK c \in Communications :
            c = Pending(entry.comm, approval[a])
            /\ c.call = entry.comm.call /\ c.whatsapp = entry.comm.whatsapp
      BY <1>1, PendingTyped DEF Filed
    <3>2. Justified(c)
      BY <1>3, <3>1 DEF Justified
    <3>3. PICK h \in Handlers : h = [slot[s] EXCEPT !.pc = "storing", !.about = a, !.comm = c]
      BY <1>2, Moves DEF Filed
    <3>4. /\ slot' = [slot EXCEPT ![s] = h] /\ h.pc = "storing"
          /\ h.message = slot[s].message /\ h.comm = c
      BY <1>1, <2>2, <3>1, <3>3 DEF Handlers
    <3> QED
      BY <1>3, <1>4, <1>5, <3>2, <3>4, TakesUp DEF Select, At, About, Holding
  <2> QED
    BY <1>5, <2>1, <2>2 DEF Select
<1>6. CASE File(s)
  <2>1. PICK c \in Communications :
          c = Pending(entry.comm, "PENDING")
          /\ c.call = entry.comm.call /\ c.whatsapp = entry.comm.whatsapp
    BY <1>1, PendingTyped DEF Decisions
  <2>2. Justified(c)
    BY <1>3, <2>1 DEF Justified
  <2>3. PICK a \in Approvals :
          slot' = [slot EXCEPT ![s].pc = "storing", ![s].about = a, ![s].comm = c]
    BY <1>6, <2>1 DEF File
  <2>4. PICK h \in Handlers : h = [slot[s] EXCEPT !.pc = "storing", !.about = a, !.comm = c]
    BY <1>2, Moves
  <2>5. /\ slot' = [slot EXCEPT ![s] = h] /\ h.pc = "storing"
        /\ h.message = slot[s].message /\ h.comm = c
    BY <1>1, <2>3, <2>4 DEF Handlers
  <2>6. entry'.comm = entry.comm
    BY <1>1, <1>6 DEF File
  <2> QED
    <3>1. Justified(entry'.comm)
      BY <1>3, <2>6 DEF Justified
    <3>2. slot[s].pc = "filing" /\ UNCHANGED <<key, record, contacted, decided>>
      BY <1>6 DEF File, At
    <3>3. h.pc \notin About /\ h.pc \notin Undecided
      BY <2>5 DEF About, Holding, Undecided
    <3> QED
      BY <2>2, <2>5, <3>1, <3>2, <3>3, TakesUp
<1>7. CASE StoreSelection(s)
  <2>1. Justified(entry'.comm)
    BY <1>3, <1>7 DEF StoreSelection, At, HandlerOK
  <2> QED
    BY <1>7, <2>1, LeaveQuiet DEF StoreSelection, At
<1>8. CASE Start(s)
  <2>1. PICK a \in Approvals : slot' = [slot EXCEPT ![s].pc = "keying", ![s].about = a]
    BY <1>8 DEF Start, Filed
  <2>2. PICK h \in Handlers : h = [slot[s] EXCEPT !.pc = "keying", !.about = a]
    BY <1>2, Moves
  <2>3. /\ slot' = [slot EXCEPT ![s] = h] /\ h.pc = "keying"
        /\ h.message = slot[s].message /\ h.about = a
    BY <1>1, <2>1, <2>2 DEF Handlers
  <2> QED
    BY <1>3, <1>4, <1>8, <2>3, TakesUp DEF Start, At
<1>9. CASE LookUp(s)
  <2>1. /\ slot[s].pc = "keying" /\ slot[s].about \in Approvals
        /\ UNCHANGED <<key, record, contacted, decided>> /\ entry' = entry
    BY <1>3, <1>9 DEF LookUp, At, HandlerOK, About
  <2>2. CASE Leave(s) \/ Free(s)
    BY <1>3, <2>1, <2>2, LeaveQuiet
  <2>3. CASE Goto(s, "marking")
    <3>1. Alone(s) /\ slot'[s] = [slot[s] EXCEPT !.pc = "marking"]
      BY <1>2, <2>3, GotoShape DEF Alone
    <3>2. /\ slot'[s].pc = "marking" /\ slot'[s].message = slot[s].message
          /\ slot'[s].about = slot[s].about
      BY <1>1, <3>1 DEF Handlers
    <3>3. HandlerOK(s)'
      BY <2>1, <3>2 DEF HandlerOK, About, Holding
    <3> QED
      BY <1>3, <2>1, <3>1, <3>2, <3>3, QuietStep DEF Holding, Undecided
  <2>4. CASE Goto(s, "claiming")
    <3>1. PICK h \in Handlers : h = [slot[s] EXCEPT !.pc = "claiming"]
      BY <1>2, Moves
    <3>2. /\ slot' = [slot EXCEPT ![s] = h] /\ h.pc = "claiming"
          /\ h.message = slot[s].message /\ h.about = slot[s].about
      BY <1>1, <2>4, <3>1 DEF Goto, Handlers
    <3> QED
      BY <1>3, <2>1, <3>2, TakesUp DEF Undecided
  <2> QED
    BY <1>9, <2>2, <2>3, <2>4 DEF LookUp
<1>10. CASE SetApproved(s)
  <2>1. Alone(s) /\ slot'[s] = [slot[s] EXCEPT !.pc = "calling"]
    BY <1>2, <1>10, GotoShape DEF Alone, SetApproved
  <2>2. /\ slot'[s].pc = "calling" /\ slot'[s].message = slot[s].message
        /\ slot'[s].about = slot[s].about /\ slot[s].pc = "approving"
    BY <1>1, <1>10, <2>1 DEF Handlers, SetApproved, At
  <2>3. HandlerOK(s)'
    BY <1>3, <1>10, <2>2 DEF HandlerOK, About, Holding, SetApproved
  <2> QED
    BY <1>3, <1>10, <2>1, <2>2, <2>3, QuietStep DEF Holding, Undecided, SetApproved
<1>11. CASE NoPhone(s)
  <2>1. PICK c \in Communications : /\ c = Uncontacted("UNAVAILABLE")
                                    /\ c.call # "OK" /\ c.whatsapp # "OK"
    BY UncontactedTyped DEF Overall, Uncontacted
  <2>2. PICK h \in Handlers : h = [slot[s] EXCEPT !.pc = "finishing", !.comm = c]
    BY <1>2, Moves
  <2>3. slot' = [slot EXCEPT ![s] = h]
    BY <1>1, <1>11, <2>1, <2>2 DEF NoPhone
  <2>4. /\ slot'[s].pc = "finishing" /\ slot'[s].message = slot[s].message
        /\ slot'[s].about = slot[s].about /\ slot[s].pc = "calling" /\ slot'[s].comm = c
    <3>1. slot'[s] = h /\ slot[s].pc = "calling"
      BY <1>11, <2>3, TakeUpShape DEF NoPhone, At
    <3> QED
      BY <1>1, <2>2, <3>1 DEF Handlers
  <2>5. Alone(s)
    BY <2>3, TakeUpShape DEF Alone
  <2>6. HandlerOK(s)'
    BY <1>3, <1>11, <2>1, <2>4
       DEF HandlerOK, About, Holding, NoPhone, TrueOf, Untouched
  <2> QED
    BY <1>3, <1>11, <2>4, <2>5, <2>6, QuietStep DEF Holding, Undecided, NoPhone
<1>12. CASE Mark(s)
  BY <1>3, <1>12, LeaveQuiet DEF Mark, At
<1>13. CASE Resolve(s)
  <2>1. /\ slot[s].pc = "resolving" /\ slot[s].message \in Messages
        /\ UNCHANGED <<key, record, contacted, decided>> /\ entry' = entry
    BY <1>3, <1>13 DEF Resolve, At, HandlerOK
  <2>2. CASE Goto(s, "completing")
    <3>1. Leave(s)
      BY <2>1, <2>2, NamesAssumption DEF Leave
    <3> QED
      BY <1>3, <2>1, <3>1, LeaveQuiet
  <2>3. ASSUME NEW a \in Approvals, NEW pc \in {"admitting", "dismissing"},
               slot' = [slot EXCEPT ![s].pc = pc, ![s].about = a]
        PROVE  OutreachInvariant'
    <3>1. PICK h \in Handlers : h = [slot[s] EXCEPT !.pc = pc, !.about = a]
      BY <1>2, Moves
    <3>2. /\ slot' = [slot EXCEPT ![s] = h] /\ h.pc = pc
          /\ h.message = slot[s].message /\ h.about = a
      BY <1>1, <2>3, <3>1 DEF Handlers
    <3> QED
      BY <1>3, <2>1, <3>2, TakesUp DEF Undecided
  <2> QED
    BY <1>13, <2>2, <2>3 DEF Resolve
<1>14. CASE Dismiss(s)
  <2>1. PICK h \in Handlers : /\ slot' = [slot EXCEPT ![s] = h] /\ h.pc = "dismissing"
                              /\ h.message = slot[s].message
    <3>1. CASE slot' = [slot EXCEPT ![s].pc = "dismissing"]
      <4>1. PICK h \in Handlers : h = [slot[s] EXCEPT !.pc = "dismissing"]
        BY <1>2, Moves
      <4>2. slot' = [slot EXCEPT ![s] = h] /\ h.pc = "dismissing" /\ h.message = slot[s].message
        BY <1>1, <3>1, <4>1 DEF Handlers
      <4> QED
        BY <4>2
    <3>2. ASSUME NEW a \in Approvals,
                 slot' = [slot EXCEPT ![s].pc = "dismissing", ![s].about = a]
          PROVE  \E h \in Handlers : /\ slot' = [slot EXCEPT ![s] = h]
                                     /\ h.pc = "dismissing" /\ h.message = slot[s].message
      <4>1. PICK h \in Handlers : h = [slot[s] EXCEPT !.pc = "dismissing", !.about = a]
        BY <1>2, Moves
      <4>2. slot' = [slot EXCEPT ![s] = h] /\ h.pc = "dismissing" /\ h.message = slot[s].message
        BY <1>1, <3>2, <4>1 DEF Handlers
      <4> QED
        BY <4>2
    <3> QED
      BY <1>14, <3>1, <3>2 DEF Dismiss, Filed
  <2> QED
    BY <1>3, <1>4, <1>14, <2>1, TakesUp DEF Dismiss, At, About, Holding
<1>15. ASSUME NEW a \in Approvals, ApproveAtGate(s, a)
       PROVE  OutreachInvariant'
  <2>1. PICK h \in Handlers : h = [slot[s] EXCEPT !.pc = "admitting", !.about = a]
    BY <1>2, Moves
  <2>2. /\ slot' = [slot EXCEPT ![s] = h] /\ h.pc = "admitting"
        /\ h.message = slot[s].message /\ h.about = a
    BY <1>1, <1>15, <2>1 DEF Handlers, ApproveAtGate
  <2> QED
    BY <1>3, <1>4, <1>15, <2>2, TakesUp DEF ApproveAtGate, At
<1>16. ASSUME NEW m \in Messages, Deliver(s, m)
       PROVE  OutreachInvariant'
  <2>1. PICK h \in Handlers : h = [slot[s] EXCEPT !.pc = "registering", !.message = m]
    BY <1>2, Moves
  <2>2. /\ slot' = [slot EXCEPT ![s] = h] /\ h.pc = "registering" /\ h.message = m
    BY <1>1, <1>16, <2>1 DEF Handlers, Deliver
  <2> QED
    BY <1>3, <1>16, <2>2, TakesUp DEF Deliver, About, Holding
<1> QED
  BY <1>5, <1>6, <1>7, <1>8, <1>9, <1>10, <1>11, <1>12, <1>13, <1>14, <1>15, <1>16
-----------------------------------------------------------------------------
(* The steps that claim, contact and decide *)

\* The first to insert the key holds it, and nothing was attempted before.
LEMMA ClaimKeeps ==
  ASSUME TypeOK, OutreachInvariant, NEW s \in Slots, Claim(s)
  PROVE  OutreachInvariant'
<1> DEFINE a == slot[s].about
<1>1. /\ slot[s] \in Handlers /\ key \in [Approvals -> Keys] /\ "approving" \in Pcs
  BY Types DEF Pcs
<1>2. Justified(entry.comm) /\ HandlerOK(s)
  BY TruthSplit DEF OutreachInvariant
<1>3. slot[s].pc = "claiming" /\ a \in Approvals
  BY <1>2 DEF Claim, At, HandlerOK, About
<1>4. CASE Free(s) /\ UNCHANGED key
  BY <1>2, <1>3, <1>4, LeaveQuiet DEF Claim
<1>5. CASE key[a].status = "ABSENT" /\ Goto(s, "approving")
           /\ key' = [key EXCEPT ![a].status = "PROCESSING"]
  <2>1. Alone(s) /\ slot'[s] = [slot[s] EXCEPT !.pc = "approving"]
    BY <1>1, <1>5, GotoShape DEF Alone
  <2>2. /\ slot'[s].pc = "approving" /\ slot'[s].message = slot[s].message
        /\ slot'[s].about = a
    BY <1>1, <2>1 DEF Handlers
  <2>3. /\ key'[a].status = "PROCESSING"
        /\ \A b \in Approvals \ {a} : key'[b] = key[b]
    BY <1>1, <1>3, <1>5 DEF Keys
  <2>4. UNCHANGED <<entry, record, contacted, decided>>
    BY DEF Claim
  <2>5. contacted[a] = Untouched /\ \A o \in Slots : ~Holds(o, a)
    BY <1>3, <1>5 DEF OutreachInvariant, KeysOK
  <2>6. KeysOK'
    <3>1. \A o \in Slots, b \in Approvals : Holds(o, b)' => Holds(o, b) \/ (o = s /\ b = a)
      BY <2>1, <2>2 DEF Alone, Holds
    <3> QED
      BY <1>3, <2>3, <2>4, <2>5, <3>1 DEF OutreachInvariant, KeysOK
  <2>7. MessagesOK'
    BY <1>3, <2>1, <2>2, <2>4, MessagesKept DEF OutreachInvariant, Undecided
  <2>8. HandlerOK(s)'
    BY <1>3, <2>2, <2>4, <2>5 DEF HandlerOK, About, Holding, Untouched
  <2>9. \A o \in Slots : HandlerOK(o)'
    BY <2>1, <2>4, <2>8, HandlersKept DEF OutreachInvariant
  <2>10. RecordTellsTruth'
    <3>1. Justified(entry.comm)'
      BY <1>2, <2>4 DEF Justified
    <3>2. ASSUME NEW b \in Approvals, key'[b].status = "COMPLETED"
          PROVE  TrueOf(key[b].response, "call", b)' /\ TrueOf(key[b].response, "whatsapp", b)'
      <4>1. key'[b] = key[b]
        BY <2>3, <3>2
      <4> QED
        BY <2>4, <3>2, <4>1, TruthSplit DEF OutreachInvariant, TrueOf
    <3> QED
      BY <3>1, <3>2, TruthNext
  <2>11. ContactedOnce' /\ MessageDecidesOnce'
    BY <2>4 DEF OutreachInvariant, ContactedOnce, MessageDecidesOnce
  <2> QED
    BY <2>6, <2>7, <2>9, <2>10, <2>11 DEF OutreachInvariant
<1> QED
  BY <1>4, <1>5 DEF Claim

\* An attempt under an approval is the business of the one that holds its key.
LEMMA AttemptKeeps ==
  ASSUME TypeOK, OutreachInvariant, NEW s \in Slots, NEW a \in Approvals,
         Holds(s, a), NEW c \in {"call", "whatsapp"}, NEW o \in Outcomes,
         Attempt(a, c, o), contacted[a][c] = 0,
         Alone(s), slot'[s].about = a, slot'[s].message = slot[s].message,
         slot'[s].pc \in Holding, UNCHANGED <<entry, key, record, decided>>, HandlerOK(s)'
  PROVE  OutreachInvariant'
<1>1. /\ contacted \in [Approvals -> Contacts] /\ contacted' \in [Approvals -> Contacts]
      /\ \A b \in Approvals \ {a} : contacted'[b] = contacted[b]
      /\ \A d \in {"call", "whatsapp"} \ {c} : contacted'[a][d] = contacted[a][d]
      /\ contacted'[a][c] \in {0, 1}
      /\ contacted[a].reached \subseteq contacted'[a].reached
  <2>1. /\ contacted' \in [Approvals -> Contacts]
        /\ \A b \in Approvals \ {a} : contacted'[b] = contacted[b]
        /\ \A d \in {"call", "whatsapp"} \ {c} : contacted'[a][d] = contacted[a][d]
    BY AttemptShape, Zenon
  <2>3. contacted'[a][c] = IF o = "UNAVAILABLE" THEN contacted[a][c] ELSE contacted[a][c] + 1
    BY AttemptShape, Zenon
  <2>4. /\ o = "OK" => contacted'[a].reached = contacted[a].reached \cup {c}
        /\ o # "OK" => contacted'[a].reached = contacted[a].reached
    BY AttemptShape
  <2>2. contacted \in [Approvals -> Contacts]
    BY Types
  <2> QED
    BY <2>1, <2>2, <2>3, <2>4
<1>2. /\ KeysOK /\ MessagesOK /\ (\A t \in Slots : HandlerOK(t)) /\ RecordTellsTruth
      /\ ContactedOnce /\ MessageDecidesOnce
  BY DEF OutreachInvariant
<1>3. \A t \in Slots, b \in Approvals : Holds(t, b)' <=> Holds(t, b)
  BY DEF Alone, Holds
<1>4. key[a].status = "PROCESSING" /\ \A t \in Slots : Holds(t, a) => t = s
  BY <1>2 DEF KeysOK
<1>5. KeysOK'
  BY <1>1, <1>2, <1>3, <1>4 DEF KeysOK
<1>6. MessagesOK'
  BY <1>2, MessagesKept DEF Holds, Holding, Undecided
<1>7. ASSUME NEW comm, Justified(comm)
      PROVE  Justified(comm)'
  BY <1>1, <1>7 DEF Justified
<1>8. ASSUME NEW t \in Slots
      PROVE  HandlerOK(t)'
  <2>1. CASE t = s
    BY <2>1
  <2>2. CASE t # s
    <3>1. slot'[t] = slot[t] /\ HandlerOK(t) /\ ~Holds(t, a)
      BY <1>2, <1>4, <2>2 DEF Alone
    <3>2. /\ slot[t].pc = "idle" => slot[t].message = Nobody
          /\ slot[t].pc \in About => slot[t].about \in Approvals
          /\ slot[t].pc \in {"registering", "resolving", "completing"} =>
               slot[t].message \in Messages
      BY <3>1 DEF HandlerOK
    <3>3. CASE slot[t].pc \in Holding
      <4>1. slot[t].about \in Approvals \ {a}
        BY <3>1, <3>2, <3>3 DEF Holds, About
      <4>2. contacted'[slot[t].about] = contacted[slot[t].about]
        BY <1>1, <4>1
      <4> QED
        BY <3>1, <3>3, <4>2 DEF HandlerOK, TrueOf, Holding
    <3>4. CASE slot[t].pc \notin Holding
      <4>1. slot[t].pc = "storing" => Justified(slot[t].comm)'
        BY <1>7, <3>1 DEF HandlerOK, Justified
      <4>2. slot'[t].pc = "storing" => Justified(slot[t].comm)'
        BY <3>1, <4>1
      <4> QED
        BY <3>1, <3>2, <3>4, <4>2 DEF HandlerOK, Holding
    <3> QED
      BY <3>3, <3>4
  <2> QED
    BY <2>1, <2>2
<1>9. RecordTellsTruth'
  <2>1. Justified(entry.comm)'
    <3>1. Justified(entry.comm)
      BY <1>2, TruthSplit
    <3> QED
      BY <1>1, <3>1 DEF Justified
  <2>2. ASSUME NEW b \in Approvals, key'[b].status = "COMPLETED"
        PROVE  TrueOf(key[b].response, "call", b)' /\ TrueOf(key[b].response, "whatsapp", b)'
    <3>1. contacted'[b] = contacted[b]
      BY <1>1, <1>4, <2>2
    <3> QED
      BY <1>2, <2>2, <3>1, TruthSplit DEF TrueOf
  <2> QED
    BY <2>1, <2>2, TruthNext
<1>10. ContactedOnce' /\ MessageDecidesOnce'
  BY <1>1, <1>2 DEF ContactedOnce, MessageDecidesOnce
<1> QED
  BY <1>2, <1>5, <1>6, <1>8, <1>9, <1>10 DEF OutreachInvariant
\* The call comes first: nothing was attempted before.
LEMMA CallKeeps ==
  ASSUME TypeOK, OutreachInvariant, NEW s \in Slots, Call(s)
  PROVE  OutreachInvariant'
<1> DEFINE a == slot[s].about
<1>1. HandlerOK(s) /\ slot[s].pc = "calling"
  BY DEF OutreachInvariant, Call, At
<1>2. a \in Approvals /\ contacted[a] = Untouched /\ Holds(s, a)
  BY <1>1 DEF HandlerOK, About, Holding, Holds
<1>3. PICK o \in Outcomes : /\ Attempt(a, "call", o)
                            /\ slot' = [slot EXCEPT ![s].pc = "writing", ![s].comm.call = o]
  BY DEF Call
<1>4. o \in Channel /\ "writing" \in Pcs /\ slot[s] \in Handlers
  BY Types DEF Channel, Pcs
<1>5. PICK h \in Handlers : h = [slot[s] EXCEPT !.pc = "writing", !.comm.call = o]
  BY <1>4, Moves
<1>6. slot' = [slot EXCEPT ![s] = h]
  BY <1>3, <1>5, Types DEF Handlers
<1>7. Alone(s) /\ slot'[s] = h
  BY <1>6, TakeUpShape DEF Alone
<1>8. /\ h.pc = "writing" /\ h.about = a /\ h.message = slot[s].message /\ h.comm.call = o
  BY <1>4, <1>5 DEF Handlers, Communications
<1>9. /\ contacted'[a].whatsapp = 0
      /\ contacted'[a].reached = IF o = "OK" THEN {"call"} ELSE {}
  <2>1. /\ \A d \in {"call", "whatsapp"} \ {"call"} : contacted'[a][d] = contacted[a][d]
        /\ o = "OK" => contacted'[a].reached = contacted[a].reached \cup {"call"}
        /\ o # "OK" => contacted'[a].reached = contacted[a].reached
    <3>1. "call" \in {"call", "whatsapp"}
      OBVIOUS
    <3> QED
      BY <1>2, <1>3, <3>1, AttemptShape, Zenon
  <2>2. contacted[a].whatsapp = 0 /\ contacted[a].reached = {}
    BY <1>2 DEF Untouched
  <2> QED
    BY <2>1, <2>2
<1>10. HandlerOK(s)'
  BY <1>2, <1>7, <1>8, <1>9 DEF HandlerOK, About, Holding, TrueOf
<1> QED
  <2>1. slot'[s].pc \in Holding /\ contacted[a]["call"] = 0
    BY <1>2, <1>7, <1>8 DEF Holding, Untouched
  <2>2. UNCHANGED <<entry, key, record, decided>>
    BY DEF Call
  <2> QED
    BY <1>2, <1>3, <1>7, <1>8, <1>10, <2>1, <2>2, AttemptKeeps

\* Then the message, after the call and before anything else.
LEMMA WriteKeeps ==
  ASSUME TypeOK, OutreachInvariant, NEW s \in Slots, Write(s)
  PROVE  OutreachInvariant'
<1> DEFINE a == slot[s].about
<1>1. HandlerOK(s) /\ slot[s].pc = "writing"
  BY DEF OutreachInvariant, Write, At
<1>2. /\ a \in Approvals /\ Holds(s, a) /\ contacted[a].whatsapp = 0
      /\ "whatsapp" \notin contacted[a].reached /\ TrueOf(slot[s].comm, "call", a)
  BY <1>1 DEF HandlerOK, About, Holding, Holds
<1>3. PICK o \in Outcomes : /\ Attempt(a, "whatsapp", o)
                            /\ slot' = [slot EXCEPT ![s].pc = "finishing",
                                                    ![s].comm = Result(slot[s].comm.call, o)]
  BY DEF Write
<1>4. o \in Channel /\ "finishing" \in Pcs /\ slot[s] \in Handlers
  BY Types DEF Channel, Pcs
<1>5. PICK c \in Communications : /\ c = Result(slot[s].comm.call, o)
                                  /\ c.call = slot[s].comm.call /\ c.whatsapp = o
  BY <1>4, ResultTyped DEF Handlers, Communications
<1>6. PICK h \in Handlers : h = [slot[s] EXCEPT !.pc = "finishing", !.comm = c]
  BY <1>4, Moves
<1>7. slot' = [slot EXCEPT ![s] = h]
  BY <1>3, <1>5, <1>6, Types DEF Handlers
<1>8. Alone(s) /\ slot'[s] = h
  BY <1>7, TakeUpShape DEF Alone
<1>9. h.pc = "finishing" /\ h.about = a /\ h.message = slot[s].message /\ h.comm = c
  BY <1>4, <1>6 DEF Handlers
<1>10. /\ o = "OK" => contacted'[a].reached = contacted[a].reached \cup {"whatsapp"}
       /\ o # "OK" => contacted'[a].reached = contacted[a].reached
  BY <1>2, <1>3, AttemptShape
<1>11. HandlerOK(s)'
  BY <1>2, <1>5, <1>8, <1>9, <1>10 DEF HandlerOK, About, Holding, TrueOf
<1> QED
  <2>1. slot'[s].pc \in Holding /\ contacted[a]["whatsapp"] = 0
    BY <1>2, <1>8, <1>9 DEF Holding
  <2>2. UNCHANGED <<entry, key, record, decided>>
    BY DEF Write
  <2> QED
    BY <1>2, <1>3, <1>8, <1>9, <1>11, <2>1, <2>2, AttemptKeeps

\* What was attempted becomes the answer of the key and of the entry.
LEMMA FinishKeeps ==
  ASSUME TypeOK, OutreachInvariant, NEW s \in Slots, Finish(s)
  PROVE  OutreachInvariant'
<1> DEFINE a == slot[s].about
<1>1. /\ slot[s] \in Handlers /\ key \in [Approvals -> Keys] /\ "marking" \in Pcs
      /\ entry \in [selected : BOOLEAN, comm : Communications]
  BY Types DEF Pcs
<1>2. HandlerOK(s) /\ slot[s].pc = "finishing" /\ UNCHANGED <<record, contacted, decided>>
  BY DEF OutreachInvariant, Finish, At
<1>3. /\ a \in Approvals /\ Holds(s, a)
      /\ TrueOf(slot[s].comm, "call", a) /\ TrueOf(slot[s].comm, "whatsapp", a)
  BY <1>2 DEF HandlerOK, About, Holding, Holds
<1>4. /\ key'[a].status = "COMPLETED" /\ key'[a].response = slot[s].comm
      /\ \A b \in Approvals \ {a} : key'[b] = key[b]
  BY <1>1, <1>3 DEF Finish
<1>5. /\ Alone(s) /\ slot'[s].pc \in {"idle", "marking"}
      /\ \/ slot'[s].pc = "idle" /\ slot'[s].message = Nobody
         \/ /\ slot'[s].pc = "marking"
            /\ slot'[s].message = slot[s].message /\ slot'[s].about = a
  <2>1. CASE Goto(s, "marking")
    <3>1. Alone(s) /\ slot'[s] = [slot[s] EXCEPT !.pc = "marking"]
      BY <1>1, <2>1, GotoShape DEF Alone
    <3> QED
      BY <1>1, <3>1 DEF Handlers
  <2>2. CASE Free(s)
    <3>1. Alone(s) /\ slot'[s] = Idle
      BY <2>2, FreeShape DEF Alone
    <3> QED
      BY <3>1 DEF Idle
  <2> QED
    BY <2>1, <2>2 DEF Finish
<1>6. KeysOK'
  <2>1. \A o \in Slots, b \in Approvals : Holds(o, b)' => Holds(o, b) /\ o # s
    BY <1>5 DEF Alone, Holds, Holding
  <2>2. \A o \in Slots : Holds(o, a) => o = s
    BY <1>3 DEF OutreachInvariant, KeysOK
  <2> QED
    BY <1>2, <1>3, <1>4, <2>1, <2>2 DEF OutreachInvariant, KeysOK
<1>7. MessagesOK'
  BY <1>2, <1>5, MessagesKept, NamesAssumption DEF OutreachInvariant, Undecided
<1>8. HandlerOK(s)'
  BY <1>3, <1>5 DEF HandlerOK, About, Holding
<1>9. \A o \in Slots : HandlerOK(o)'
  BY <1>2, <1>5, <1>8, HandlersKept DEF OutreachInvariant
<1>10. RecordTellsTruth'
  <2>1. entry'.comm = slot[s].comm
    BY <1>1 DEF Finish
  <2>2. Justified(entry.comm)'
    BY <1>2, <1>3, <2>1 DEF Justified, TrueOf
  <2>3. ASSUME NEW b \in Approvals, key'[b].status = "COMPLETED"
        PROVE  TrueOf(key[b].response, "call", b)' /\ TrueOf(key[b].response, "whatsapp", b)'
    <3>1. CASE b = a
      BY <1>2, <1>3, <1>4, <3>1 DEF TrueOf
    <3>2. CASE b # a
      BY <1>2, <1>4, <2>3, <3>2, TruthSplit DEF OutreachInvariant, TrueOf
    <3> QED
      BY <3>1, <3>2
  <2> QED
    BY <2>2, <2>3, TruthNext
<1>11. ContactedOnce' /\ MessageDecidesOnce'
  BY <1>2 DEF OutreachInvariant, ContactedOnce, MessageDecidesOnce
<1> QED
  BY <1>6, <1>7, <1>9, <1>10, <1>11 DEF OutreachInvariant
\* The handler that serves a message is the only one, and decides once.
LEMMA DecisionCounted ==
  ASSUME TypeOK, OutreachInvariant, NEW s \in Slots, Alone(s),
         slot[s].pc \in Undecided, slot'[s].pc \notin Undecided \cup {"registering"},
         slot'[s].message \in Messages => slot'[s].message = slot[s].message,
         UNCHANGED record,
         decided' = [m \in Messages |-> decided[m] + (IF m = slot[s].message THEN 1 ELSE 0)]
  PROVE  MessagesOK' /\ MessageDecidesOnce'
<1>1. decided \in [Messages -> Nat] /\ MessagesOK /\ MessageDecidesOnce
  BY Types DEF OutreachInvariant
<1>2. \A o \in Slots, m \in Messages : Serves(o, m)' => Serves(o, m)
  BY DEF Alone, Serves, Undecided
<1>3. \A o \in Slots, m \in Messages :
        Serves(o, m)' /\ slot'[o].pc \in Undecided =>
          Serves(o, m) /\ slot[o].pc \in Undecided /\ o # s
  BY DEF Alone, Serves
<1>4. ASSUME NEW m \in Messages
      PROVE  /\ m = slot[s].message => /\ decided[m] = 0 /\ decided'[m] = 1
                                       /\ record[m].status # "ABSENT"
                                       /\ \A o \in Slots : Serves(o, m) => o = s
             /\ m # slot[s].message => decided'[m] = decided[m]
  <2>1. m = slot[s].message => Serves(s, m)
    BY DEF Serves, Undecided
  <2> QED
    BY <1>1, <2>1 DEF MessagesOK
<1>5. MessagesOK'
  BY <1>1, <1>2, <1>3, <1>4 DEF MessagesOK
<1>6. MessageDecidesOnce'
  BY <1>1, <1>4 DEF MessageDecidesOnce
<1> QED
  BY <1>5, <1>6

\* An admission keeps the invariant.
LEMMA AdmitKeeps ==
  ASSUME TypeOK, OutreachInvariant, NEW s \in Slots, Admit(s)
  PROVE  OutreachInvariant'
<1>1. slot[s] \in Handlers /\ "keying" \in Pcs
  BY Types DEF Pcs
<1>2. Justified(entry.comm) /\ HandlerOK(s)
  BY TruthSplit DEF OutreachInvariant
<1>3. /\ slot[s].pc = "admitting" /\ slot[s].about \in Approvals
      /\ UNCHANGED <<entry, key, record, contacted>>
  BY <1>2 DEF Admit, At, HandlerOK, About
<1>4. CASE Leave(s) /\ UNCHANGED decided
  BY <1>2, <1>3, <1>4, LeaveQuiet
<1>5. CASE /\ slot' = [slot EXCEPT ![s].pc = "keying", ![s].via = "gate"]
           /\ decided' = [m \in Messages |-> decided[m] + (IF m = slot[s].message THEN 1 ELSE 0)]
  <2>1. PICK h \in Handlers : h = [slot[s] EXCEPT !.pc = "keying", !.via = "gate"]
    BY <1>1, Moves
  <2>2. slot' = [slot EXCEPT ![s] = h]
    BY <1>5, <2>1, Types DEF Handlers
  <2>3. Alone(s) /\ slot'[s] = h
    BY <2>2, TakeUpShape DEF Alone
  <2>4. h.pc = "keying" /\ h.about = slot[s].about /\ h.message = slot[s].message
    BY <1>1, <2>1 DEF Handlers
  <2>5. KeysOK'
    BY <1>3, <2>3, <2>4, KeysKept DEF OutreachInvariant, Holding
  <2>6. MessagesOK' /\ MessageDecidesOnce'
    BY <1>3, <1>5, <2>3, <2>4, DecisionCounted DEF Undecided
  <2>7. HandlerOK(s)'
    BY <1>3, <2>3, <2>4 DEF HandlerOK, About, Holding
  <2>8. \A o \in Slots : HandlerOK(o)'
    BY <1>3, <2>3, <2>7, HandlersKept DEF OutreachInvariant
  <2>9. ContactedOnce' /\ RecordTellsTruth'
    BY <1>3 DEF OutreachInvariant, ContactedOnce, RecordTellsTruth
  <2> QED
    BY <2>5, <2>6, <2>8, <2>9 DEF OutreachInvariant
<1> QED
  BY <1>4, <1>5 DEF Admit

\* So does a dismissal that is stored.
LEMMA DismissalKeeps ==
  ASSUME TypeOK, OutreachInvariant, NEW s \in Slots, StoreDismissal(s)
  PROVE  OutreachInvariant'
<1>1. slot[s] \in Handlers /\ entry \in [selected : BOOLEAN, comm : Communications]
  BY Types
<1>2. /\ slot[s].pc = "dismissing" /\ Leave(s) /\ UNCHANGED <<key, record, contacted>>
      /\ entry' = [entry EXCEPT !.comm = Uncontacted("DISMISSED")]
      /\ decided' = [m \in Messages |-> decided[m] + (IF m = slot[s].message THEN 1 ELSE 0)]
  BY DEF StoreDismissal, At
<1>3. /\ Alone(s) /\ slot'[s].pc \in {"idle", "completing"}
      /\ slot'[s].message \in {Nobody, slot[s].message}
      /\ slot'[s].pc = "idle" => slot'[s].message = Nobody
      /\ slot'[s].pc = "completing" => slot'[s].message \in Messages
  <2>1. Alone(s)
    BY <1>2, LeaveShape DEF Alone
  <2>2. CASE slot[s].message = Nobody /\ slot'[s] = Idle
    BY <2>1, <2>2 DEF Idle
  <2>3. CASE slot[s].message # Nobody /\ slot'[s] = [slot[s] EXCEPT !.pc = "completing"]
    BY <1>1, <2>1, <2>3 DEF Handlers
  <2> QED
    BY <1>2, <2>2, <2>3, LeaveShape
<1>4. KeysOK'
  BY <1>2, <1>3, KeysKept DEF OutreachInvariant, Holding
<1>5. MessagesOK' /\ MessageDecidesOnce'
  BY <1>2, <1>3, DecisionCounted, NamesAssumption DEF Undecided
<1>6. HandlerOK(s)'
  BY <1>3 DEF HandlerOK, About, Holding
<1>7. \A o \in Slots : HandlerOK(o)'
  BY <1>2, <1>3, <1>6, HandlersKept DEF OutreachInvariant
<1>8. ContactedOnce'
  BY <1>2 DEF OutreachInvariant, ContactedOnce
<1>9. RecordTellsTruth'
  <2>1. entry'.comm = Uncontacted("DISMISSED")
    BY <1>1, <1>2
  <2> QED
    BY <1>2, <2>1 DEF OutreachInvariant, RecordTellsTruth, Uncontacted
<1> QED
  BY <1>4, <1>5, <1>7, <1>8, <1>9 DEF OutreachInvariant

\* The insertion of a message's key lets one handler through.
LEMMA RegisterKeeps ==
  ASSUME TypeOK, OutreachInvariant, NEW s \in Slots, Register(s)
  PROVE  OutreachInvariant'
<1> DEFINE m == slot[s].message
<1>1. slot[s] \in Handlers /\ record \in [Messages -> Records] /\ "resolving" \in Pcs
  BY Types DEF Pcs
<1>2. /\ slot[s].pc = "registering" /\ m \in Messages
      /\ UNCHANGED <<entry, key, contacted, decided>>
  BY DEF Register, At, OutreachInvariant, HandlerOK
<1>3. \/ /\ record[m].status = "ABSENT" /\ Goto(s, "resolving")
         /\ record' = [record EXCEPT ![m] = Claimed(Hash[m])]
      \/ Free(s) /\ UNCHANGED record
  BY DEF Register, ClaimVerdict, NoRecord
<1>4. /\ Alone(s) /\ slot'[s].pc \in {"idle", "resolving"}
      /\ slot'[s].pc = "idle" => slot'[s].message = Nobody
      /\ slot'[s].pc = "resolving" => slot'[s].message = m /\ record[m].status = "ABSENT"
  <2>1. CASE Goto(s, "resolving") /\ record[m].status = "ABSENT"
    <3>1. Alone(s) /\ slot'[s] = [slot[s] EXCEPT !.pc = "resolving"]
      BY <1>1, <2>1, GotoShape DEF Alone
    <3> QED
      BY <1>1, <2>1, <3>1 DEF Handlers
  <2>2. CASE Free(s)
    <3>1. Alone(s) /\ slot'[s] = Idle
      BY <2>2, FreeShape DEF Alone
    <3> QED
      BY <3>1 DEF Idle
  <2> QED
    BY <1>3, <2>1, <2>2
<1>5. \A n \in Messages : /\ record'[n].status = "ABSENT" => record[n].status = "ABSENT"
                          /\ slot'[s].pc = "resolving" /\ n = m => record'[n].status # "ABSENT"
  <2>1. CASE UNCHANGED record /\ slot'[s] = Idle
    BY <2>1 DEF Idle
  <2>2. CASE record' = [record EXCEPT ![m] = Claimed(Hash[m])]
    BY <1>1, <1>2, <2>2 DEF Claimed
  <2> QED
    BY <1>3, <2>1, <2>2, FreeShape
<1>6. MessagesOK'
  <2>1. MessagesOK
    BY DEF OutreachInvariant
  <2>2. \A o \in Slots, n \in Messages :
          Serves(o, n)' => Serves(o, n) \/ (o = s /\ n = m /\ slot'[s].pc = "resolving")
    BY <1>4, NamesAssumption DEF Alone, Serves
  <2>3. slot'[s].pc = "resolving" => \A o \in Slots : ~Serves(o, m)
    BY <1>2, <1>4, <2>1 DEF MessagesOK
  <2>4. \A o \in Slots \ {s} : slot'[o] = slot[o]
    BY <1>4 DEF Alone
  <2>5. ~ \E n \in Messages : Serves(s, n)
    BY <1>2 DEF Serves
  <2>6. ASSUME NEW n \in Messages
        PROVE  /\ \A o \in Slots : Serves(o, n)' => record'[n].status # "ABSENT"
               /\ \A o, t \in Slots : Serves(o, n)' /\ Serves(t, n)' => o = t
               /\ record'[n].status = "ABSENT" => decided'[n] = 0
               /\ \A o \in Slots : Serves(o, n)' /\ slot'[o].pc \in Undecided => decided'[n] = 0
    <3>1. /\ \A o \in Slots : Serves(o, n) => record[n].status # "ABSENT"
          /\ \A o, t \in Slots : Serves(o, n) /\ Serves(t, n) => o = t
          /\ record[n].status = "ABSENT" => decided[n] = 0
          /\ \A o \in Slots : Serves(o, n) /\ slot[o].pc \in Undecided => decided[n] = 0
      BY <2>1 DEF MessagesOK
    <3>2. /\ record'[n].status = "ABSENT" => record[n].status = "ABSENT"
          /\ slot'[s].pc = "resolving" /\ n = m => record'[n].status # "ABSENT"
      BY <1>5
    <3>3. decided'[n] = decided[n]
      BY <1>2
    <3> QED
      BY <1>4, <2>2, <2>3, <2>4, <2>5, <3>1, <3>2, <3>3
  <2> QED
    BY <2>6 DEF MessagesOK
<1>7. KeysOK'
  BY <1>2, <1>4, KeysKept DEF OutreachInvariant, Holding
<1>8. HandlerOK(s)'
  BY <1>2, <1>4 DEF HandlerOK, About, Holding
<1>9. \A o \in Slots : HandlerOK(o)'
  BY <1>2, <1>4, <1>8, HandlersKept DEF OutreachInvariant
<1>10. ContactedOnce' /\ RecordTellsTruth' /\ MessageDecidesOnce'
  BY <1>2 DEF OutreachInvariant, ContactedOnce, RecordTellsTruth, MessageDecidesOnce
<1> QED
  BY <1>6, <1>7, <1>9, <1>10 DEF OutreachInvariant

\* So does a key that is completed.
LEMMA CompleteKeeps ==
  ASSUME TypeOK, OutreachInvariant, NEW s \in Slots, Complete(s)
  PROVE  OutreachInvariant'
<1>1. record \in [Messages -> Records] /\ slot[s].pc = "completing"
  BY Types DEF Complete, At
<1>2. Alone(s) /\ slot'[s].pc = "idle" /\ slot'[s].message = Nobody
  BY FreeShape DEF Complete, Alone, Idle
<1>3. UNCHANGED <<entry, key, contacted, decided>>
  BY DEF Complete
<1>4. \A n \in Messages : record'[n].status = "ABSENT" <=> record[n].status = "ABSENT"
  BY <1>1 DEF Complete, Settled, Records
<1>5. \A o \in Slots, n \in Messages : Serves(o, n)' => Serves(o, n) /\ slot'[o] = slot[o]
  BY <1>2, NamesAssumption DEF Alone, Serves
<1>6. MessagesOK'
  BY <1>3, <1>4, <1>5 DEF OutreachInvariant, MessagesOK
<1>7. KeysOK'
  BY <1>2, <1>3, KeysKept DEF OutreachInvariant, Holding
<1>8. HandlerOK(s)'
  BY <1>2 DEF HandlerOK, About, Holding
<1>9. \A o \in Slots : HandlerOK(o)'
  BY <1>2, <1>3, <1>8, HandlersKept DEF OutreachInvariant
<1>10. ContactedOnce' /\ RecordTellsTruth' /\ MessageDecidesOnce'
  BY <1>3 DEF OutreachInvariant, ContactedOnce, RecordTellsTruth, MessageDecidesOnce
<1> QED
  BY <1>6, <1>7, <1>9, <1>10 DEF OutreachInvariant

-----------------------------------------------------------------------------
\* The invariant holds at the start.
LEMMA InitSafe == Init => TypeOK /\ OutreachInvariant
<1> SUFFICES ASSUME Init PROVE TypeOK /\ OutreachInvariant
  OBVIOUS
<1>1. /\ Idle \in Handlers /\ Uncontacted("ABSENT") \in Communications
      /\ NoRecord \in Records /\ "ABSENT" \in Decisions
      /\ 0 \in 0 .. MaxRestarts
  BY BoundsAssumption DEF Idle, Handlers, Pcs, Communications, Uncontacted, Overall, Channel,
     NoRecord, Records, Statuses, Decisions
<1>2. TypeOK
  <2>1. [call |-> 0, whatsapp |-> 0, reached |-> {}] \in Contacts
    BY DEF Contacts
  <2>2. [status |-> "ABSENT", response |-> Uncontacted("ABSENT")] \in Keys
    BY <1>1 DEF Keys
  <2> QED
    BY <1>1, <2>1, <2>2, Types DEF Init
<1>3. \A s \in Slots : slot[s] = Idle
  BY DEF Init
<1>4. KeysOK
  BY <1>3 DEF Init, KeysOK, Holds, Holding, Idle, Untouched
<1>5. MessagesOK
  BY <1>3, NamesAssumption DEF Init, MessagesOK, Serves, Idle
<1>6. \A s \in Slots : HandlerOK(s)
  BY <1>3 DEF HandlerOK, Idle, About, Holding
<1>7. ContactedOnce /\ RecordTellsTruth /\ MessageDecidesOnce
  BY DEF Init, ContactedOnce, RecordTellsTruth, MessageDecidesOnce, Uncontacted
<1> QED
  BY <1>2, <1>4, <1>5, <1>6, <1>7 DEF OutreachInvariant

\* A restart drops the handlers and leaves what they have written.
LEMMA RestartKeeps ==
  ASSUME TypeOK, OutreachInvariant, Restart
  PROVE  TypeOK' /\ OutreachInvariant'
<1>1. \A s \in Slots : slot'[s] = Idle
  BY DEF Restart
<1>2. UNCHANGED <<entry, approval, key, record, contacted, decided>>
  BY DEF Restart
<1>3. TypeOK'
  <2>1. Idle \in Handlers
    BY DEF Idle, Handlers, Pcs, Communications, Uncontacted, Overall, Channel
  <2>2. slot' \in [Slots -> Handlers] /\ restarts' \in 0 .. MaxRestarts
    BY <2>1, Types, BoundsAssumption DEF Restart
  <2> QED
    BY <1>2, <2>2, Types, TypesNext
<1>4. KeysOK'
  BY <1>1, <1>2 DEF OutreachInvariant, KeysOK, Holds, Holding, Idle
<1>5. MessagesOK'
  BY <1>1, <1>2, NamesAssumption DEF OutreachInvariant, MessagesOK, Serves, Idle
<1>6. \A s \in Slots : HandlerOK(s)'
  BY <1>1 DEF HandlerOK, Idle, About, Holding
<1>7. ContactedOnce' /\ RecordTellsTruth' /\ MessageDecidesOnce'
  BY <1>2 DEF OutreachInvariant, ContactedOnce, RecordTellsTruth, MessageDecidesOnce
<1> QED
  BY <1>3, <1>4, <1>5, <1>6, <1>7 DEF OutreachInvariant

\* A stutter keeps it.
LEMMA StutterKeeps ==
  ASSUME TypeOK, OutreachInvariant, UNCHANGED vars
  PROVE  TypeOK' /\ OutreachInvariant'
<1>1. UNCHANGED <<entry, approval, key, record, slot, contacted, decided, restarts>>
  BY DEF vars
<1>2. TypeOK'
  BY <1>1, Types, TypesNext
<1>3. KeysOK' /\ MessagesOK'
  BY <1>1 DEF OutreachInvariant, KeysOK, MessagesOK, Holds, Serves
<1>4. \A s \in Slots : HandlerOK(s)'
  BY <1>1 DEF OutreachInvariant, HandlerOK, TrueOf, Justified
<1>5. ContactedOnce' /\ RecordTellsTruth' /\ MessageDecidesOnce'
  BY <1>1 DEF OutreachInvariant, ContactedOnce, RecordTellsTruth, MessageDecidesOnce
<1> QED
  BY <1>2, <1>3, <1>4, <1>5 DEF OutreachInvariant

\* The inductive invariant: one handler at most holds the key of an approval
\* and one at most serves a message, and what each has at hand agrees with what
\* was attempted.  It holds in every reachable state.
THEOREM OutreachSafe == Spec => [](TypeOK /\ OutreachInvariant)
<1>1. ASSUME TypeOK, OutreachInvariant, [Next]_vars
      PROVE  TypeOK' /\ OutreachInvariant'
  <2>1. ASSUME NEW s \in Slots, Handle(s)
        PROVE  TypeOK' /\ OutreachInvariant'
    <3>1. TypeOK'
      BY <1>1, <2>1, HandleTyped DEF OutreachInvariant
    <3>2. OutreachInvariant'
      BY <1>1, <2>1, QuietHandlers, ClaimKeeps, CallKeeps, WriteKeeps, FinishKeeps,
         AdmitKeeps, DismissalKeeps, RegisterKeeps, CompleteKeeps DEF Handle
    <3> QED
      BY <3>1, <3>2
  <2> QED
    BY <1>1, <2>1, RestartKeeps, StutterKeeps DEF Next
<1> QED
  BY <1>1, InitSafe, PTL DEF Spec

\* The tables of the outreach are well typed in every reachable state.
THEOREM OutreachTyped == Spec => []TypeOK
BY OutreachSafe, PTL

\* execute_approved_communication calls at most once and writes at most once
\* for each approval, whoever approves it, however often, and wherever the
\* process dies.
THEOREM ContactsOnce == Spec => []ContactedOnce
<1>1. OutreachInvariant => ContactedOnce
  BY DEF OutreachInvariant
<1> QED
  BY <1>1, OutreachSafe, PTL

\* A completed key answers what the channels accepted, and the shortlist entry
\* claims no contact that no channel accepted.
THEOREM TellsTruth == Spec => []RecordTellsTruth
<1>1. OutreachInvariant => RecordTellsTruth
  BY DEF OutreachInvariant
<1> QED
  BY <1>1, OutreachSafe, PTL

\* A WhatsApp reply decides one request at most, however often it is delivered.
THEOREM MessageOnce == Spec => []MessageDecidesOnce
<1>1. OutreachInvariant => MessageDecidesOnce
  BY DEF OutreachInvariant
<1> QED
  BY <1>1, OutreachSafe, PTL
=============================================================================
