-------------------------- MODULE LiveEventProofs --------------------------
(***************************************************************************)
(* Proofs about LiveEvent for any plan, any incidents and any number of    *)
(* handlers and requests: the type invariant, that no task of a live event *)
(* is stranded, that an escalation has a cause, and that a concluded event *)
(* is reopened by a revision only.                                         *)
(***************************************************************************)
EXTENDS LiveEvent, TLAPS

-----------------------------------------------------------------------------
(* The inductive invariant *)

Nexts == {"idle", "report", "verify", "restore", "replan"}

\* What a transaction is to write are values of the columns it writes.
IsWrites(w) ==
  /\ w = [task |-> w.task, event |-> w.event, incident |-> w.incident]
  /\ \A t \in DOMAIN w.task : t \in Tasks /\ w.task[t] \in TaskStatuses
  /\ DOMAIN w.event \subseteq {"lifecycle", "state"}
  /\ "lifecycle" \in DOMAIN w.event => w.event["lifecycle"] \in Lifecycles
  /\ "state" \in DOMAIN w.event => w.event["state"] \in States
  /\ \A i \in DOMAIN w.incident :
       /\ i \in Incidents
       /\ w.incident[i] \in [status : {"ABSENT", "OPEN", "RESOLVED"}, risk : States]

\* Work waits only for work, from the day the event is live to its conclusion.
Flowing(tasks, lifecycle) ==
  lifecycle \in {"LIVE", "INCIDENT", "EMERGENCY"} =>
    \A t \in Tasks : tasks[t] = "PENDING" =>
      \E p \in Predecessors(t) : tasks[p] # "COMPLETED"

Caused(incidents, lifecycle, state) ==
  \/ \E i \in Incidents : incidents[i].status = "OPEN"
  \/ lifecycle \notin {"INCIDENT", "EMERGENCY"} /\ state = "NORMAL"

\* A commit of these writes, on what is there now, is right: next is how its handler
\* goes on, f and r say whether the exceptions of the properties hold.
Sound(w, next, f, r) ==
  LET tasks     == Written(w.task, task)
      columns   == Written(w.event, event)
      incidents == Written(w.incident, incident)
  IN
  /\ ~f => Flowing(tasks, columns["lifecycle"])
  /\ ~r => Caused(incidents, columns["lifecycle"], columns["state"])
  /\ event.lifecycle = "CONCLUDED" /\ ~f =>
       /\ \/ columns["lifecycle"] = "CONCLUDED"
          \/ columns["lifecycle"] = "DRAFT" /\ next = "replan"
       /\ \A t \in Tasks : tasks[t] = "IN_PROGRESS" => task[t] = "IN_PROGRESS"

\* A transaction that nobody has overtaken since it read would commit what is right.
HandlerOK(s) ==
  LET h == slot[s] IN
  IF h.pc = "commit"
  THEN /\ h = [pc |-> "commit", overtaken |-> h.overtaken, writes |-> h.writes,
               next |-> h.next]
       /\ h.overtaken \in BOOLEAN /\ h.next \in Nexts /\ IsWrites(h.writes)
       /\ ~raced /\ ~h.overtaken => Sound(h.writes, h.next, forced, reassessed)
  ELSE h.pc \in Nexts /\ h = [pc |-> h.pc]

LiveInvariant ==
  /\ slot = [s \in Slots |-> slot[s]]
  /\ \A s \in Slots : HandlerOK(s)
  /\ ~raced /\ ~forced => Flowing(task, event.lifecycle)
  /\ ~raced /\ ~reassessed => Caused(incident, event.lifecycle, event.state)

-----------------------------------------------------------------------------
(* Writes *)

Rows == [status : {"ABSENT", "OPEN", "RESOLVED"}, risk : States]
Events == [lifecycle : Lifecycles, state : States]

\* Writing what differs makes the old value the new one.
LEMMA ChangesWritten ==
  ASSUME NEW old, NEW new
  PROVE  Written(Changes(new, old), old) = [x \in DOMAIN old |-> new[x]]
BY DEF Written, Changes

\* Writing nothing changes nothing.
LEMMA NothingWritten ==
  ASSUME NEW S, NEW T, NEW old \in [S -> T]
  PROVE  Written(<<>>, old) = old
<1>1. DOMAIN <<>> = {}
  OBVIOUS
<1> QED
  BY <1>1 DEF Written

\* New values of all tasks, or of the event, as writes.
LEMMA TaskWrites ==
  ASSUME task \in [Tasks -> TaskStatuses], NEW new \in [Tasks -> TaskStatuses]
  PROVE  /\ \A t \in DOMAIN Changes(new, task) :
              t \in Tasks /\ Changes(new, task)[t] \in TaskStatuses
         /\ Written(Changes(new, task), task) = new
<1>1. Written(Changes(new, task), task) = new
  BY ChangesWritten
<1> QED
  BY <1>1 DEF Changes

\* The event stays an event whatever a handler writes of it.
LEMMA EventWrites ==
  ASSUME event \in Events, NEW l \in Lifecycles, NEW r \in States,
         NEW new, new = [lifecycle |-> l, state |-> r]
  PROVE  LET c == Changes(new, event) IN
         /\ DOMAIN c \subseteq {"lifecycle", "state"}
         /\ "lifecycle" \in DOMAIN c => c["lifecycle"] \in Lifecycles
         /\ "state" \in DOMAIN c => c["state"] \in States
         /\ Written(c, event)["lifecycle"] = l
         /\ Written(c, event)["state"] = r
<1>1. DOMAIN event = {"lifecycle", "state"}
  BY DEF Events
<1>2. Written(Changes(new, event), event) = [x \in {"lifecycle", "state"} |-> new[x]]
  BY <1>1, ChangesWritten
<1> QED
  BY <1>1, <1>2 DEF Changes

\* The writes of each kind of transaction.
LEMMA Writes ==
  /\ \A t : [Nothing EXCEPT !.task = t] = [task |-> t, event |-> <<>>, incident |-> <<>>]
  /\ \A e : [Nothing EXCEPT !.event = e] = [task |-> <<>>, event |-> e, incident |-> <<>>]
  /\ \A e, t : [Nothing EXCEPT !.event = e, !.task = t]
                 = [task |-> t, event |-> e, incident |-> <<>>]
  /\ \A i, e : [Nothing EXCEPT !.incident = i, !.event = e]
                 = [task |-> <<>>, event |-> e, incident |-> i]
<1>1. ASSUME NEW t
      PROVE  [Nothing EXCEPT !.task = t] = [task |-> t, event |-> <<>>, incident |-> <<>>]
  BY DEF Nothing
<1>2. ASSUME NEW e
      PROVE  [Nothing EXCEPT !.event = e] = [task |-> <<>>, event |-> e, incident |-> <<>>]
  BY DEF Nothing
<1>3. ASSUME NEW e, NEW t
      PROVE  [Nothing EXCEPT !.event = e, !.task = t]
               = [task |-> t, event |-> e, incident |-> <<>>]
  <2>1. PICK f : f = [Nothing EXCEPT !.event = e]
    OBVIOUS
  <2>2. f = [task |-> <<>>, event |-> e, incident |-> <<>>]
    BY <1>2, <2>1
  <2>3. [f EXCEPT !.task = t] = [task |-> t, event |-> e, incident |-> <<>>]
    BY <2>2
  <2> QED
    BY <2>1, <2>3, Zenon
<1>4. ASSUME NEW i, NEW e
      PROVE  [Nothing EXCEPT !.incident = i, !.event = e]
               = [task |-> <<>>, event |-> e, incident |-> i]
  <2>1. PICK f : f = [Nothing EXCEPT !.incident = i]
    OBVIOUS
  <2>2. f = [task |-> <<>>, event |-> <<>>, incident |-> i]
    BY <2>1 DEF Nothing
  <2>3. [f EXCEPT !.event = e] = [task |-> <<>>, event |-> e, incident |-> i]
    BY <2>2
  <2> QED
    BY <2>1, <2>3, Zenon
<1> QED
  BY <1>1, <1>2, <1>3, <1>4
-----------------------------------------------------------------------------
(* Deciding *)

\* What a transaction will commit is the only change of a step that decides.
LEMMA DecideKeeps ==
  ASSUME LiveInvariant, NEW s \in Slots, NEW w, IsWrites(w), NEW next \in Nexts,
         Decide(s, w, next), UNCHANGED <<task, event, incident, raced>>,
         forced => forced', reassessed => reassessed',
         ~raced => Sound(w, next, forced', reassessed')
  PROVE  LiveInvariant'
<1>1. /\ slot' = [o \in Slots |-> slot'[o]]
      /\ \A o \in Slots \ {s} : slot'[o] = slot[o]
      /\ slot'[s] = [pc |-> "commit", overtaken |-> FALSE, writes |-> w, next |-> next]
  BY DEF LiveInvariant, Decide
<1>2. HandlerOK(s)'
  <2>1. ~raced' => Sound(w, next, forced, reassessed)'
    BY DEF Sound
  <2> QED
    BY <1>1, <2>1 DEF HandlerOK, IsWrites
<1>3. ASSUME NEW o \in Slots \ {s}
      PROVE  HandlerOK(o)'
  <2>1. HandlerOK(o) /\ slot'[o] = slot[o]
    BY <1>1 DEF LiveInvariant
  <2>2. Sound(slot[o].writes, slot[o].next, forced, reassessed) => Sound(slot[o].writes, slot[o].next, forced, reassessed)'
    BY <2>1 DEF Sound
  <2> QED
    BY <2>1, <2>2 DEF HandlerOK, IsWrites
<1> QED
  BY <1>1, <1>2, <1>3 DEF LiveInvariant

\* A decision on tasks only: no work is put off, none starts in a concluded
\* event, and no completion is forgotten.
LEMMA TasksDecided ==
  ASSUME TypeOK, LiveInvariant, NEW s \in Slots, NEW new \in [Tasks -> TaskStatuses],
         NEW next \in Nexts, Decide(s, [Nothing EXCEPT !.task = Changes(new, task)], next),
         UNCHANGED <<task, event, incident, raced, forced, reassessed>>,
         \A t \in Tasks : \/ new[t] = task[t]
                          \/ new[t] \notin {"PENDING", "COMPLETED", "IN_PROGRESS"}
  PROVE  LiveInvariant'
<1> DEFINE w == [task |-> Changes(new, task), event |-> <<>>, incident |-> <<>>]
<1>1. /\ task \in [Tasks -> TaskStatuses] /\ event \in Events
      /\ incident \in [Incidents -> Rows]
  BY DEF TypeOK, Events, Rows
<1>2. /\ DOMAIN w.event = {} /\ DOMAIN w.incident = {}
      /\ w.task = Changes(new, task) /\ w.event = <<>> /\ w.incident = <<>>
  OBVIOUS
<1>3. IsWrites(w)
  BY <1>1, <1>2, TaskWrites DEF IsWrites
<1>4. /\ Written(w.task, task) = new /\ Written(w.incident, incident) = incident
      /\ Written(w.event, event) = event
  <2>1. Written(<<>>, event) = event
    <3>1. event = [x \in {"lifecycle", "state"} |-> event[x]]
      BY <1>1 DEF Events
    <3> QED
      BY <1>2, <3>1 DEF Written
  <2> QED
    BY <1>1, <1>2, <2>1, TaskWrites, NothingWritten
<1>5. ~raced => Sound(w, next, forced', reassessed')
  <2> HIDE DEF w
  <2>1. ASSUME ~raced, ~forced
        PROVE  Flowing(new, event.lifecycle)
    BY <2>1 DEF LiveInvariant, Flowing, Predecessors
  <2> QED
    BY <1>1, <1>4, <2>1 DEF Sound, LiveInvariant, Events
<1>6. Decide(s, w, next)
  BY Writes
<1> QED
  <2> HIDE DEF w
  <2> QED
    BY <1>3, <1>5, <1>6, DecideKeeps

\* A decision on an incident and on what state the event is in.  Where the event
\* is under way it stays so, and it is not brought back from its conclusion.
LEMMA EvaluationDecided ==
  ASSUME TypeOK, LiveInvariant, NEW s \in Slots, NEW i \in Incidents, NEW f \in Rows,
         NEW l \in Lifecycles, NEW r \in States, NEW next \in Nexts,
         Decide(s, [Nothing EXCEPT
                      !.incident = [j \in {i} |-> f],
                      !.event = Changes([lifecycle |-> l, state |-> r], event)], next),
         UNCHANGED <<task, event, incident, raced, forced>>, reassessed => reassessed',
         l \in {"LIVE", "INCIDENT", "EMERGENCY"} =>
           event.lifecycle \in {"LIVE", "INCIDENT", "EMERGENCY"},
         event.lifecycle = "CONCLUDED" => l = "CONCLUDED",
         ~raced /\ ~reassessed' =>
           \/ f.status = "OPEN"
           \/ \E j \in Incidents \ {i} : Active(j)
           \/ l \notin {"INCIDENT", "EMERGENCY"} /\ r = "NORMAL"
  PROVE  LiveInvariant'
<1> DEFINE new == [lifecycle |-> l, state |-> r]
           w == [task |-> <<>>, event |-> Changes(new, event), incident |-> [j \in {i} |-> f]]
<1>1. /\ task \in [Tasks -> TaskStatuses] /\ event \in Events
      /\ incident \in [Incidents -> Rows]
  BY DEF TypeOK, Events, Rows
<1>2. /\ w.task = <<>> /\ DOMAIN w.task = {} /\ w.event = Changes(new, event)
      /\ DOMAIN w.incident = {i} /\ w.incident[i] = f
  OBVIOUS
<1>3. IsWrites(w)
  <2>1. w = [task |-> w.task, event |-> w.event, incident |-> w.incident]
    OBVIOUS
  <2> HIDE DEF w
  <2> QED
    BY <1>1, <1>2, <2>1, EventWrites DEF IsWrites, Rows
<1>4. /\ Written(w.task, task) = task
      /\ Written(w.event, event)["lifecycle"] = l /\ Written(w.event, event)["state"] = r
      /\ \A j \in Incidents : Written(w.incident, incident)[j] = IF j = i THEN f ELSE incident[j]
  <2>1. Written(w.task, task) = task
    BY <1>1, <1>2, NothingWritten
  <2>2. /\ Written(w.event, event)["lifecycle"] = l
        /\ Written(w.event, event)["state"] = r
    BY <1>1, <1>2, EventWrites
  <2>3. \A j \in Incidents :
          Written(w.incident, incident)[j] = IF j = i THEN f ELSE incident[j]
    <3> HIDE DEF w
    <3> QED
      BY <1>1, <1>2 DEF Written
  <2> QED
    BY <2>1, <2>2, <2>3
<1>5. ~raced => Sound(w, next, forced', reassessed')
  <2> HIDE DEF w
  <2>1. ASSUME ~raced, ~forced
        PROVE  Flowing(task, l)
    BY <2>1 DEF LiveInvariant, Flowing
  <2>2. ASSUME ~raced, ~reassessed'
        PROVE  Caused(Written(w.incident, incident), l, r)
    BY <1>4, <2>2 DEF Caused, Active
  <2> QED
    BY <1>1, <1>4, <2>1, <2>2 DEF Sound, Events
<1>6. Decide(s, w, next)
  <2>1. PICK is : is = [j \in {i} |-> f]
    OBVIOUS
  <2>2. PICK e : e = Changes(new, event)
    OBVIOUS
  <2>3. [Nothing EXCEPT !.incident = is, !.event = e] = w
    BY <2>1, <2>2, Writes
  <2> QED
    BY <2>1, <2>2, <2>3
<1> QED
  <2> HIDE DEF w
  <2> QED
    BY <1>3, <1>5, <1>6, DecideKeeps

\* The worst of several risks is a risk, and NORMAL if there is none.
LEMMA WorstTyped ==
  ASSUME NEW risks \in SUBSET States
  PROVE  Worst(risks) \in States /\ (risks = {} => Worst(risks) = "NORMAL")
<1> DEFINE rank == [NORMAL |-> 0, AT_RISK |-> 1, CRITICAL |-> 2, EMERGENCY |-> 3]
<1>1. \A r \in States : r \in {"NORMAL", "AT_RISK", "CRITICAL", "EMERGENCY"}
  BY DEF States
<1>2. /\ rank["NORMAL"] = 0 /\ rank["AT_RISK"] = 1
      /\ rank["CRITICAL"] = 2 /\ rank["EMERGENCY"] = 3
  OBVIOUS
<1> HIDE DEF rank
<1>3. \E r \in risks \cup {"NORMAL"} : \A q \in risks : rank[q] <= rank[r]
  <2>1. CASE "EMERGENCY" \in risks
    BY <1>1, <1>2, <2>1
  <2>2. CASE "EMERGENCY" \notin risks /\ "CRITICAL" \in risks
    BY <1>1, <1>2, <2>2
  <2>3. CASE "EMERGENCY" \notin risks /\ "CRITICAL" \notin risks /\ "AT_RISK" \in risks
    BY <1>1, <1>2, <2>3
  <2>4. CASE risks \cap {"EMERGENCY", "CRITICAL", "AT_RISK"} = {}
    BY <1>1, <1>2, <2>4
  <2> QED
    BY <2>1, <2>2, <2>3, <2>4
<1>4. Worst(risks) = CHOOSE r \in risks \cup {"NORMAL"} : \A q \in risks : rank[q] <= rank[r]
  BY DEF Worst, rank
<1>5. Worst(risks) \in risks \cup {"NORMAL"}
  BY <1>3, <1>4
<1> QED
  BY <1>5 DEF States
-----------------------------------------------------------------------------
(* The handlers *)

\* A handler that decides keeps the types.
LEMMA DecideTyped ==
  ASSUME TypeOK, LiveInvariant, NEW s \in Slots, NEW w, NEW next, Decide(s, w, next),
         UNCHANGED <<task, event, incident>>,
         {offered', raced', forced', reassessed'} \subseteq BOOLEAN,
         requests' \in 0 .. MaxRequests
  PROVE  TypeOK'
<1>1. \A o \in Slots : slot'[o].pc \in {"commit"} \cup Nexts
  BY DEF TypeOK, LiveInvariant, Decide, Nexts
<1> QED
  BY <1>1 DEF TypeOK, Nexts

\* Going live makes ready whatever waits for nothing.
LEMMA GoLiveKeeps ==
  ASSUME TypeOK, LiveInvariant, NEW s \in Slots, GoLive(s)
  PROVE  LiveInvariant'
<1> DEFINE ready == {u \in Tasks : task[u] = "PENDING" /\ Under(Predecessors(u)) = {}}
           w == [task |-> [t \in ready |-> "READY"], event |-> [lifecycle |-> "LIVE"],
                 incident |-> <<>>]
<1>1. /\ task \in [Tasks -> TaskStatuses] /\ event \in Events
      /\ incident \in [Incidents -> Rows]
  BY DEF TypeOK, Events, Rows
<1>2. /\ DOMAIN w.task = ready /\ \A t \in ready : w.task[t] = "READY"
      /\ DOMAIN w.event = {"lifecycle"} /\ w.event["lifecycle"] = "LIVE"
      /\ w.incident = <<>> /\ DOMAIN w.incident = {}
      /\ w = [task |-> w.task, event |-> w.event, incident |-> w.incident]
  OBVIOUS
<1>3. \A u \in ready : u \in Tasks
  OBVIOUS
<1>4. Decide(s, w, "idle")
  <2>1. PICK e : e = [lifecycle |-> "LIVE"]
    OBVIOUS
  <2>2. PICK ts : ts = [t \in ready |-> "READY"]
    OBVIOUS
  <2>3. [Nothing EXCEPT !.event = e, !.task = ts] = w
    BY <2>1, <2>2, Writes
  <2> QED
    BY <2>1, <2>2, <2>3 DEF GoLive
<1>5. \A u \in Tasks \ ready : task[u] = "PENDING" =>
        \E p \in Predecessors(u) : task[p] # "COMPLETED"
  BY DEF Under
<1> HIDE DEF w
<1>6. IsWrites(w)
  BY <1>2, <1>3 DEF IsWrites, TaskStatuses, Lifecycles
<1>7. /\ \A t \in Tasks : Written(w.task, task)[t] = IF t \in ready THEN "READY" ELSE task[t]
      /\ Written(w.event, event)["lifecycle"] = "LIVE"
      /\ Written(w.event, event)["state"] = event.state
      /\ Written(w.incident, incident) = incident
  BY <1>1, <1>2, NothingWritten DEF Written, Events
<1>8. Flowing(Written(w.task, task), "LIVE")
  <2> HIDE DEF ready
  <2> QED
    BY <1>5, <1>7 DEF Flowing, Predecessors
<1>9. event.lifecycle = "PLANNED"
  BY DEF GoLive
<1>10. ~raced => Sound(w, "idle", forced', reassessed')
  BY <1>7, <1>8, <1>9 DEF GoLive, Sound, Caused, LiveInvariant
<1> QED
  BY <1>4, <1>6, <1>10, DecideKeeps DEF GoLive, Nexts

\* A completion makes ready its successors that wait for nothing else.
LEMMA UpdateKeeps ==
  ASSUME TypeOK, LiveInvariant, NEW s \in Slots, NEW t \in Tasks,
         NEW status \in TaskStatuses, UpdateTask(s, t, status)
  PROVE  LiveInvariant'
<1> DEFINE more == IF status = "COMPLETED" THEN Cascade(t) ELSE {}
           w == [task |-> [u \in {t} \cup more |-> IF u = t THEN status ELSE "READY"],
                 event |-> <<>>, incident |-> <<>>]
<1>1. /\ task \in [Tasks -> TaskStatuses] /\ event \in Events
      /\ incident \in [Incidents -> Rows]
  BY DEF TypeOK, Events, Rows
<1>2. /\ DOMAIN w.task = {t} \cup more
      /\ \A u \in {t} \cup more : w.task[u] = IF u = t THEN status ELSE "READY"
      /\ w.event = <<>> /\ DOMAIN w.event = {} /\ w.incident = <<>> /\ DOMAIN w.incident = {}
      /\ w = [task |-> w.task, event |-> w.event, incident |-> w.incident]
  OBVIOUS
<1>3. more \subseteq Tasks
  BY DEF Cascade, Successors
<1>4. Decide(s, w, "idle")
  BY Writes DEF UpdateTask
<1>5. event.lifecycle = "LIVE" /\ status \in Allowed(task[t])
  BY DEF UpdateTask
<1>6. status # "PENDING"
  BY <1>5 DEF Allowed
<1>7. ASSUME NEW u \in Tasks \ {t}, u \notin more, task[u] = "PENDING",
             NEW p \in Predecessors(u), task[p] # "COMPLETED"
      PROVE  \E q \in Predecessors(u) : (q # t \/ status # "COMPLETED") /\ task[q] # "COMPLETED"
  <2>1. CASE status = "COMPLETED" /\ p = t
    <3>1. u \in Successors(t)
      BY <1>7, <2>1 DEF Predecessors, Successors
    <3>2. ~(Under(Predecessors(u)) \subseteq {t})
      BY <1>7, <2>1, <3>1 DEF Cascade
    <3> QED
      BY <3>2 DEF Under
  <2> QED
    BY <1>7, <2>1
<1> HIDE DEF w
<1>8. IsWrites(w)
  BY <1>2, <1>3 DEF IsWrites, TaskStatuses
<1>9. /\ \A u \in Tasks : Written(w.task, task)[u] =
           IF u = t THEN status ELSE IF u \in more THEN "READY" ELSE task[u]
      /\ Written(w.incident, incident) = incident
  BY <1>1, <1>2, NothingWritten DEF Written
<1>10. Written(w.event, event) = event
  <2>1. event = [x \in {"lifecycle", "state"} |-> event[x]]
    BY <1>1 DEF Events
  <2> QED
    BY <1>2, <2>1 DEF Written
<1>11. ASSUME ~raced, ~forced
       PROVE  Flowing(Written(w.task, task), "LIVE")
  <2>1. Flowing(task, "LIVE")
    BY <1>5, <1>11 DEF LiveInvariant
  <2>2. ASSUME NEW u \in Tasks, Written(w.task, task)[u] = "PENDING"
        PROVE  \E q \in Predecessors(u) : Written(w.task, task)[q] # "COMPLETED"
    <3> HIDE DEF more
    <3>1. u # t /\ u \notin more /\ task[u] = "PENDING"
      BY <1>6, <1>9, <2>2
    <3>2. PICK p \in Predecessors(u) : task[p] # "COMPLETED"
      BY <2>1, <3>1 DEF Flowing
    <3>3. PICK q \in Predecessors(u) : (q # t \/ status # "COMPLETED") /\ task[q] # "COMPLETED"
      BY <1>7, <3>1, <3>2
    <3> QED
      BY <1>9, <3>3 DEF Predecessors
  <2> QED
    BY <2>2 DEF Flowing
<1>12. ~raced => Sound(w, "idle", forced', reassessed')
  BY <1>5, <1>9, <1>10, <1>11 DEF UpdateTask, Sound, Caused, LiveInvariant, Events
<1> QED
  BY <1>4, <1>8, <1>12, DecideKeeps DEF UpdateTask, Nexts

\* A conclusion keeps the invariant.
LEMMA ConcludeKeeps ==
  ASSUME TypeOK, LiveInvariant, NEW s \in Slots, Conclude(s)
  PROVE  LiveInvariant'
<1> DEFINE w == [task |-> <<>>, event |-> [lifecycle |-> "CONCLUDED"], incident |-> <<>>]
<1>1. /\ task \in [Tasks -> TaskStatuses] /\ event \in Events
      /\ incident \in [Incidents -> Rows]
  BY DEF TypeOK, Events, Rows
<1>2. /\ w.task = <<>> /\ DOMAIN w.task = {} /\ w.incident = <<>> /\ DOMAIN w.incident = {}
      /\ DOMAIN w.event = {"lifecycle"} /\ w.event["lifecycle"] = "CONCLUDED"
      /\ w = [task |-> w.task, event |-> w.event, incident |-> w.incident]
  OBVIOUS
<1>3. Decide(s, w, "idle")
  BY Writes DEF Conclude
<1>4. event.lifecycle = "LIVE"
  BY DEF Conclude
<1> HIDE DEF w
<1>5. IsWrites(w)
  BY <1>2 DEF IsWrites, Lifecycles
<1>6. /\ Written(w.task, task) = task /\ Written(w.incident, incident) = incident
      /\ Written(w.event, event)["lifecycle"] = "CONCLUDED"
      /\ Written(w.event, event)["state"] = event.state
  BY <1>1, <1>2, NothingWritten DEF Written, Events
<1>7. ~raced => Sound(w, "idle", forced', reassessed')
  BY <1>4, <1>6 DEF Conclude, Sound, Caused, Flowing, LiveInvariant
<1> QED
  BY <1>3, <1>5, <1>7, DecideKeeps DEF Conclude, Nexts
\* An incident whose risk is evaluated escalates a live event, and no other.
LEMMA EscalatedTyped ==
  ASSUME NEW l \in Lifecycles, NEW risk \in Risks
  PROVE  /\ Escalated(l, risk) \in Lifecycles /\ risk \in States
         /\ Escalated(l, risk) \in {"LIVE", "INCIDENT", "EMERGENCY"} =>
              l \in {"LIVE", "INCIDENT", "EMERGENCY"}
         /\ l = "CONCLUDED" => Escalated(l, risk) = "CONCLUDED"
BY RisksAssumption DEF Escalated, Lifecycles, States

\* So does a recalculated incident.
LEMMA EvaluatedKeeps ==
  ASSUME TypeOK, LiveInvariant, NEW s \in Slots, NEW i \in Incidents, NEW risk \in Risks,
         NEW status \in {"OPEN", "RESOLVED"}, Decide(s, Evaluated(i, status, risk), "idle"),
         UNCHANGED <<task, event, incident, raced, forced>>, reassessed => reassessed',
         ~reassessed' => status = "OPEN"
  PROVE  LiveInvariant'
<1>1. event \in Events
  BY DEF TypeOK, Events
<1>2. event.lifecycle \in Lifecycles
  BY <1>1 DEF Events
<1>3. PICK l \in Lifecycles : l = Escalated(event.lifecycle, risk)
  BY <1>2, EscalatedTyped
<1>4. /\ l \in {"LIVE", "INCIDENT", "EMERGENCY"} =>
           event.lifecycle \in {"LIVE", "INCIDENT", "EMERGENCY"}
      /\ event.lifecycle = "CONCLUDED" => l = "CONCLUDED"
      /\ risk \in States
  BY <1>2, <1>3, EscalatedTyped
<1>5. PICK f \in Rows : f = [status |-> status, risk |-> risk]
  BY <1>4 DEF Rows
<1>6. Decide(s, [Nothing EXCEPT
                   !.incident = [j \in {i} |-> f],
                   !.event = Changes([lifecycle |-> l, state |-> risk], event)], "idle")
  BY <1>3, <1>5 DEF Evaluated
<1>7. ~reassessed' => f.status = "OPEN"
  BY <1>5
<1>8. "idle" \in Nexts
  BY DEF Nexts
<1> QED
  BY <1>4, <1>6, <1>7, <1>8, EvaluationDecided

\* The last incident to be resolved takes the event back to LIVE and NORMAL.
LEMMA ResolvedKeeps ==
  ASSUME TypeOK, LiveInvariant, NEW s \in Slots, NEW i \in Incidents, NEW next \in Nexts,
         Decide(s, Resolved(i), next),
         UNCHANGED <<task, event, incident, raced, forced, reassessed>>
  PROVE  LiveInvariant'
<1> DEFINE clear == Remaining(i) = {}
<1>1. event \in Events /\ incident \in [Incidents -> Rows]
  BY DEF TypeOK, Events, Rows
<1>2. PICK l \in Lifecycles :
        l = IF clear /\ event.lifecycle \in {"INCIDENT", "EMERGENCY"}
            THEN "LIVE" ELSE event.lifecycle
  BY <1>1 DEF Events, Lifecycles
<1>3. PICK r \in States : /\ r = Worst({incident[j].risk : j \in Remaining(i)})
                          /\ clear => r = "NORMAL"
  <2> DEFINE risks == {incident[j].risk : j \in Remaining(i)}
  <2>1. risks \in SUBSET States
    BY <1>1 DEF Rows, Remaining
  <2>2. clear => risks = {}
    OBVIOUS
  <2> HIDE DEF risks
  <2>3. Worst(risks) \in States /\ (risks = {} => Worst(risks) = "NORMAL")
    BY <2>1, WorstTyped
  <2> QED
    BY <2>2, <2>3 DEF risks
<1>4. PICK f \in Rows : f = [incident[i] EXCEPT !.status = "RESOLVED"]
  BY <1>1 DEF Rows
<1>5. Decide(s, [Nothing EXCEPT
                   !.incident = [j \in {i} |-> f],
                   !.event = Changes([lifecycle |-> l, state |-> r], event)], next)
  BY <1>2, <1>3, <1>4 DEF Resolved
<1>6. /\ l \in {"LIVE", "INCIDENT", "EMERGENCY"} =>
           event.lifecycle \in {"LIVE", "INCIDENT", "EMERGENCY"}
      /\ event.lifecycle = "CONCLUDED" => l = "CONCLUDED"
      /\ clear => l \notin {"INCIDENT", "EMERGENCY"} /\ r = "NORMAL"
  BY <1>2, <1>3
<1>7. ~clear => \E j \in Incidents \ {i} : Active(j)
  BY DEF Remaining
<1>8. \/ \E j \in Incidents \ {i} : Active(j)
      \/ l \notin {"INCIDENT", "EMERGENCY"} /\ r = "NORMAL"
  BY <1>6, <1>7
<1> HIDE DEF clear
<1> QED
  BY <1>5, <1>6, <1>8, EvaluationDecided

\* What verification thinks the event is in leaves its life cycle.
LEMMA VerifyKeeps ==
  ASSUME TypeOK, LiveInvariant, NEW s \in Slots, Verify(s)
  PROVE  LiveInvariant'
<1>1. /\ task \in [Tasks -> TaskStatuses] /\ event \in Events
      /\ incident \in [Incidents -> Rows]
  BY DEF TypeOK, Events, Rows
<1>2. ASSUME NEW i \in Incidents, Decide(s, Resolved(i), "restore"), UNCHANGED reassessed
      PROVE  LiveInvariant'
  BY <1>2, ResolvedKeeps DEF Verify, Nexts
<1>3. ASSUME NEW state \in Risks, reassessed' = TRUE,
             Decide(s, [Nothing EXCEPT !.event = Changes([event EXCEPT !.state = state], event)],
                    "restore")
      PROVE  LiveInvariant'
  <2> DEFINE w == [task |-> <<>>, event |-> Changes([event EXCEPT !.state = state], event),
                   incident |-> <<>>]
  <2>1. /\ w.task = <<>> /\ DOMAIN w.task = {} /\ w.incident = <<>> /\ DOMAIN w.incident = {}
        /\ w.event = Changes([event EXCEPT !.state = state], event)
        /\ w = [task |-> w.task, event |-> w.event, incident |-> w.incident]
    OBVIOUS
  <2>2. Decide(s, w, "restore")
    BY <1>3, Writes
  <2>3. PICK new : new = [event EXCEPT !.state = state]
    OBVIOUS
  <2>4. PICK l \in Lifecycles, r \in States :
          new = [lifecycle |-> l, state |-> r] /\ l = event.lifecycle
    BY <1>1, <2>3, RisksAssumption DEF Events, States
  <2> HIDE DEF w
  <2>8. w.event = Changes(new, event)
    BY <2>1, <2>3
  <2>9. /\ DOMAIN w.event \subseteq {"lifecycle", "state"}
        /\ "lifecycle" \in DOMAIN w.event => w.event["lifecycle"] \in Lifecycles
        /\ "state" \in DOMAIN w.event => w.event["state"] \in States
        /\ Written(w.event, event)["lifecycle"] = event.lifecycle
    BY <1>1, <2>4, <2>8, EventWrites
  <2>5. IsWrites(w)
    BY <2>1, <2>9 DEF IsWrites
  <2>6. /\ Written(w.task, task) = task /\ Written(w.incident, incident) = incident
        /\ Written(w.event, event)["lifecycle"] = event.lifecycle
    BY <1>1, <2>1, <2>9, NothingWritten
  <2>7. ~raced => Sound(w, "restore", forced', reassessed')
    BY <1>3, <2>6 DEF Verify, Sound, LiveInvariant
  <2> QED
    BY <1>3, <2>2, <2>5, <2>7, DecideKeeps DEF Verify, Nexts
<1> QED
  BY <1>2, <1>3 DEF Verify

\* Restoring an event that is under way puts no task off and completes none.
LEMMA RestoreKeeps ==
  ASSUME TypeOK, LiveInvariant, NEW s \in Slots, Restore(s)
  PROVE  LiveInvariant'
<1> DEFINE new == [t \in Tasks |-> IF t = Caterer \/ task[t] = "BLOCKED"
                                   THEN "IN_PROGRESS" ELSE task[t]]
           normal == [lifecycle |-> "LIVE", state |-> "NORMAL"]
           w == [task |-> Changes(new, task), event |-> Changes(normal, event),
                 incident |-> <<>>]
<1>1. /\ task \in [Tasks -> TaskStatuses] /\ event \in Events
      /\ incident \in [Incidents -> Rows]
  BY DEF TypeOK, Events, Rows
<1>2. /\ w.task = Changes(new, task) /\ w.event = Changes(normal, event)
      /\ w.incident = <<>> /\ DOMAIN w.incident = {}
      /\ w = [task |-> w.task, event |-> w.event, incident |-> w.incident]
  OBVIOUS
<1>3. Decide(s, w, "idle")
  <2>1. PICK e : e = Changes(normal, event)
    OBVIOUS
  <2>2. PICK ts : ts = Changes(new, task)
    OBVIOUS
  <2>3. [Nothing EXCEPT !.event = e, !.task = ts] = w
    BY <2>1, <2>2, Writes
  <2> QED
    BY <2>1, <2>2, <2>3 DEF Restore
<1>4. new \in [Tasks -> TaskStatuses]
  BY <1>1 DEF TaskStatuses
<1>5. \A t \in Tasks : /\ new[t] = "PENDING" => task[t] = "PENDING"
                      /\ new[t] = "COMPLETED" => task[t] = "COMPLETED"
  OBVIOUS
<1> HIDE DEF w
<1>6. /\ Written(w.task, task) = new
      /\ \A t \in DOMAIN w.task : t \in Tasks /\ w.task[t] \in TaskStatuses
  <2> HIDE DEF new
  <2> QED
    BY <1>1, <1>2, <1>4, TaskWrites
<1>7. /\ Written(w.event, event)["lifecycle"] = "LIVE"
      /\ Written(w.event, event)["state"] = "NORMAL"
      /\ DOMAIN w.event \subseteq {"lifecycle", "state"}
      /\ "lifecycle" \in DOMAIN w.event => w.event["lifecycle"] \in Lifecycles
      /\ "state" \in DOMAIN w.event => w.event["state"] \in States
  <2>1. "LIVE" \in Lifecycles /\ "NORMAL" \in States
    BY DEF Lifecycles, States
  <2> QED
    BY <1>1, <1>2, <2>1, EventWrites
<1>8. IsWrites(w)
  BY <1>2, <1>6, <1>7 DEF IsWrites
<1>9. Written(w.incident, incident) = incident
  BY <1>1, <1>2, NothingWritten
<1>10. ASSUME ~raced, ~forced'
       PROVE  Flowing(new, "LIVE") /\ event.lifecycle # "CONCLUDED"
  <2>1. ~forced /\ event.lifecycle \notin {"DRAFT", "PLANNED", "CONCLUDED"}
    BY <1>10 DEF Restore
  <2>2. event.lifecycle \in {"LIVE", "INCIDENT", "EMERGENCY"}
    BY <1>1, <2>1 DEF Events, Lifecycles
  <2>3. Flowing(task, event.lifecycle)
    BY <1>10, <2>1 DEF LiveInvariant
  <2>4. ASSUME NEW t \in Tasks, new[t] = "PENDING"
        PROVE  \E p \in Predecessors(t) : new[p] # "COMPLETED"
    <3>1. task[t] = "PENDING"
      BY <1>5, <2>4
    <3>2. PICK p \in Predecessors(t) : task[p] # "COMPLETED"
      BY <2>2, <2>3, <3>1 DEF Flowing
    <3> QED
      BY <1>5, <3>2 DEF Predecessors
  <2> HIDE DEF new
  <2> QED
    BY <2>1, <2>4 DEF Flowing
<1>11. ~raced => Sound(w, "idle", forced', reassessed')
  <2> HIDE DEF new
  <2> QED
    BY <1>6, <1>7, <1>9, <1>10 DEF Restore, Sound, Caused, LiveInvariant
<1>12. forced => forced'
  BY DEF Restore
<1> QED
  BY <1>3, <1>8, <1>11, <1>12, DecideKeeps DEF Restore, Nexts

\* A revision makes a draft of the event, a concluded one too, and goes on to plan.
LEMMA ReviseKeeps ==
  ASSUME TypeOK, LiveInvariant, NEW s \in Slots, Revise(s)
  PROVE  LiveInvariant'
<1> DEFINE w == [task |-> <<>>, event |-> Changes([event EXCEPT !.lifecycle = "DRAFT"], event),
                 incident |-> <<>>]
<1>1. /\ task \in [Tasks -> TaskStatuses] /\ event \in Events
      /\ incident \in [Incidents -> Rows]
  BY DEF TypeOK, Events, Rows
<1>2. /\ w.task = <<>> /\ DOMAIN w.task = {} /\ w.incident = <<>> /\ DOMAIN w.incident = {}
      /\ w.event = Changes([event EXCEPT !.lifecycle = "DRAFT"], event)
      /\ w = [task |-> w.task, event |-> w.event, incident |-> w.incident]
  OBVIOUS
<1>3. Decide(s, w, "replan")
  BY Writes DEF Revise
<1>4. PICK new : new = [event EXCEPT !.lifecycle = "DRAFT"]
  OBVIOUS
<1>5. PICK l \in Lifecycles, r \in States :
        new = [lifecycle |-> l, state |-> r] /\ l = "DRAFT" /\ r = event.state
  BY <1>1, <1>4 DEF Events, Lifecycles
<1> HIDE DEF w
<1>6. w.event = Changes(new, event)
  BY <1>2, <1>4
<1>7. /\ DOMAIN w.event \subseteq {"lifecycle", "state"}
      /\ "lifecycle" \in DOMAIN w.event => w.event["lifecycle"] \in Lifecycles
      /\ "state" \in DOMAIN w.event => w.event["state"] \in States
      /\ Written(w.event, event)["lifecycle"] = "DRAFT"
      /\ Written(w.event, event)["state"] = event.state
  BY <1>1, <1>5, <1>6, EventWrites
<1>8. IsWrites(w)
  BY <1>2, <1>7 DEF IsWrites
<1>9. Written(w.task, task) = task /\ Written(w.incident, incident) = incident
  BY <1>1, <1>2, NothingWritten
<1>10. ~raced => Sound(w, "replan", forced', reassessed')
  BY <1>7, <1>9 DEF Revise, Sound, Flowing, Caused, LiveInvariant
<1> QED
  BY <1>3, <1>8, <1>10, DecideKeeps DEF Revise, Nexts

\* Every step of a handler but its commit decides.
Decides(s) ==
  \/ GoLive(s) \/ Conclude(s)
  \/ \E t \in Tasks, status \in TaskStatuses : UpdateTask(s, t, status)
  \/ Report(s)
  \/ \E i \in Incidents : Recalculate(s, i) \/ Resolve(s, i)
  \/ \E t \in Tasks : Bind(s, t)
  \/ CancelCaterer(s) \/ ReportCancellation(s)
  \/ Recover(s) \/ Verify(s) \/ Restore(s)
  \/ Revise(s)

\* Each of the decisions keeps the types,
LEMMA DecidesTyped ==
  ASSUME TypeOK, LiveInvariant, NEW s \in Slots, Decides(s)
  PROVE  TypeOK' /\ UNCHANGED <<task, event, incident, raced>>
<1>1. \E w, next : Decide(s, w, next)
  BY DEF Decides, GoLive, Conclude, UpdateTask, Report, Recalculate, Resolve, Bind,
     CancelCaterer, ReportCancellation, Recover, Verify, Restore, Revise
<1>2. UNCHANGED <<task, event, incident, raced>>
  BY DEF Decides, GoLive, Conclude, UpdateTask, Report, Recalculate, Resolve, Bind,
     CancelCaterer, ReportCancellation, Recover, Verify, Restore, Revise
<1>3. {offered', raced', forced', reassessed'} \subseteq BOOLEAN
  BY DEF TypeOK, Decides, GoLive, Conclude, UpdateTask, Report, Recalculate, Resolve, Bind,
     CancelCaterer, ReportCancellation, Recover, Verify, Restore, Revise
<1>4. requests' = requests \/ Request(s)
  BY DEF Decides, GoLive, Conclude, UpdateTask, Report, Recalculate, Resolve, Bind,
     CancelCaterer, ReportCancellation, Recover, Verify, Restore, Revise
<1>5. requests' \in 0 .. MaxRequests
  BY <1>4, BoundsAssumption DEF TypeOK, Request
<1> QED
  BY <1>1, <1>2, <1>3, <1>5, DecideTyped

\* and the invariant.
LEMMA DecidesKeeps ==
  ASSUME TypeOK, LiveInvariant, NEW s \in Slots, Decides(s)
  PROVE  LiveInvariant'
<1>1. /\ task \in [Tasks -> TaskStatuses] /\ incident \in [Incidents -> Rows]
      /\ Caterer \in Tasks
  BY PlanAssumption DEF TypeOK, Rows
<1>2. Nexts = {"idle", "report", "verify", "restore", "replan"}
  BY DEF Nexts
<1>3. CASE Report(s) \/ ReportCancellation(s)
  <2>1. PICK i \in Incidents, risk \in Risks : Decide(s, Evaluated(i, "OPEN", risk), "idle")
    BY <1>3 DEF Report, ReportCancellation
  <2> QED
    BY <1>3, <2>1, EvaluatedKeeps DEF Report, ReportCancellation
<1>4. ASSUME NEW i \in Incidents, Recalculate(s, i)
      PROVE  LiveInvariant'
  <2>1. PICK status \in {"OPEN", "RESOLVED"} : status = incident[i].status
    BY <1>1, <1>4 DEF Recalculate, Rows
  <2>2. PICK risk \in Risks : Decide(s, Evaluated(i, status, risk), "idle")
    BY <1>4, <2>1 DEF Recalculate
  <2>3. /\ reassessed => reassessed'
        /\ ~reassessed' => status = "OPEN"
        /\ UNCHANGED <<task, event, incident, raced, forced>>
    BY <1>4, <2>1 DEF Recalculate, Active
  <2> QED
    BY <2>2, <2>3, EvaluatedKeeps
<1>5. ASSUME NEW i \in Incidents, Resolve(s, i)
      PROVE  LiveInvariant'
  BY <1>2, <1>5, ResolvedKeeps DEF Resolve
<1>6. ASSUME NEW t \in Tasks, Bind(s, t)
      PROVE  LiveInvariant'
  <2>1. PICK new \in [Tasks -> TaskStatuses] : new = [task EXCEPT ![t] = "ASSIGNED"]
    BY <1>1 DEF TaskStatuses
  <2>2. \A u \in Tasks : new[u] \in {task[u], "ASSIGNED"}
    BY <1>1, <2>1
  <2> QED
    BY <1>2, <1>6, <2>1, <2>2, TasksDecided DEF Bind
<1>7. CASE CancelCaterer(s)
  <2>1. PICK new \in [Tasks -> TaskStatuses] : new = [task EXCEPT ![Caterer] = "BLOCKED"]
    BY <1>1 DEF TaskStatuses
  <2>2. \A u \in Tasks : new[u] \in {task[u], "BLOCKED"}
    BY <1>1, <2>1
  <2> QED
    BY <1>2, <1>7, <2>1, <2>2, TasksDecided DEF CancelCaterer
<1>8. CASE Recover(s)
  <2>1. PICK new \in [Tasks -> TaskStatuses] : new = [task EXCEPT ![Caterer] = "ASSIGNED"]
    BY <1>1 DEF TaskStatuses
  <2>2. \A u \in Tasks : new[u] \in {task[u], "ASSIGNED"}
    BY <1>1, <2>1
  <2> QED
    BY <1>2, <1>8, <2>1, <2>2, TasksDecided DEF Recover
<1> QED
  BY <1>3, <1>4, <1>5, <1>6, <1>7, <1>8, GoLiveKeeps, UpdateKeeps, ConcludeKeeps,
     VerifyKeeps, RestoreKeeps, ReviseKeeps DEF Decides

\* A commit of what nobody has overtaken is right, and overtakes the others.
LEMMA CommitKeeps ==
  ASSUME TypeOK, LiveInvariant, NEW s \in Slots, Commit(s)
  PROVE  TypeOK' /\ LiveInvariant'
<1> DEFINE h == slot[s]
           w == slot[s].writes
<1>1. /\ task \in [Tasks -> TaskStatuses] /\ event \in Events
      /\ incident \in [Incidents -> Rows] /\ raced \in BOOLEAN
  BY DEF TypeOK, Events, Rows
<1>2. /\ slot[s].pc = "commit" /\ slot[s].overtaken \in BOOLEAN /\ slot[s].next \in Nexts
      /\ IsWrites(w) /\ (~raced /\ ~slot[s].overtaken => Sound(w, slot[s].next, forced, reassessed))
  BY DEF LiveInvariant, HandlerOK, Commit
<1>3. /\ task' = Written(w.task, task) /\ event' = Written(w.event, event)
      /\ incident' = Written(w.incident, incident)
      /\ raced' = (raced \/ slot[s].overtaken)
      /\ slot' = [Overtaken(s) EXCEPT ![s] = [pc |-> slot[s].next]]
      /\ UNCHANGED <<offered, requests, forced, reassessed>>
  BY DEF Commit
<1>4. task' \in [Tasks -> TaskStatuses] /\ incident' \in [Incidents -> Rows]
  BY <1>1, <1>2, <1>3 DEF IsWrites, Written, Rows
<1>5. event' \in Events
  <2>1. event' = [x \in {"lifecycle", "state"} |-> event'[x]]
    BY <1>1, <1>3 DEF Written, Events
  <2>2. event'["lifecycle"] \in Lifecycles /\ event'["state"] \in States
    BY <1>1, <1>2, <1>3 DEF IsWrites, Written, Events
  <2>3. event' = [lifecycle |-> event'["lifecycle"], state |-> event'["state"]]
    BY <2>1
  <2> QED
    BY <2>2, <2>3 DEF Events
<1>6. /\ slot' = [o \in Slots |-> slot'[o]]
      /\ slot'[s] = [pc |-> slot[s].next]
      /\ \A o \in Slots \ {s} :
           /\ slot[o].pc # "commit" => slot'[o] = slot[o]
           /\ slot[o].pc = "commit" => slot'[o] = [slot[o] EXCEPT !.overtaken = TRUE]
  BY <1>3 DEF Overtaken
<1>7. ASSUME NEW o \in Slots \ {s}
      PROVE  HandlerOK(o)' /\ slot'[o].pc \in {"commit"} \cup Nexts
  <2>1. HandlerOK(o)
    BY DEF LiveInvariant
  <2>2. CASE slot[o].pc # "commit"
    BY <1>6, <2>1, <2>2 DEF HandlerOK, Nexts
  <2>3. CASE slot[o].pc = "commit"
    <3>1. /\ slot[o] = [pc |-> "commit", overtaken |-> slot[o].overtaken,
                        writes |-> slot[o].writes, next |-> slot[o].next]
          /\ slot[o].next \in Nexts /\ IsWrites(slot[o].writes)
      BY <2>1, <2>3 DEF HandlerOK
    <3>2. slot'[o] = [pc |-> "commit", overtaken |-> TRUE, writes |-> slot[o].writes,
                      next |-> slot[o].next]
      BY <1>6, <2>3, <3>1
    <3>3. /\ slot'[o].pc = "commit" /\ slot'[o].overtaken = TRUE
          /\ slot'[o].writes = slot[o].writes /\ slot'[o].next = slot[o].next
      BY <3>2
    <3>4. IsWrites(slot[o].writes)'
      BY <3>1, <3>3 DEF IsWrites
    <3> QED
      BY <3>1, <3>2, <3>3, <3>4 DEF HandlerOK
  <2> QED
    BY <2>2, <2>3
<1>8. HandlerOK(s)' /\ slot'[s].pc \in {"commit"} \cup Nexts
  BY <1>2, <1>6 DEF HandlerOK, Nexts
<1>9. ~raced' => /\ ~forced => Flowing(task', event'["lifecycle"])
                 /\ ~reassessed => Caused(incident', event'["lifecycle"], event'["state"])
  BY <1>2, <1>3 DEF Sound
<1>10. TypeOK'
  <2>1. {offered', raced', forced', reassessed'} \subseteq BOOLEAN
    BY <1>2, <1>3 DEF TypeOK
  <2>2. requests' \in 0 .. MaxRequests
    BY <1>3 DEF TypeOK
  <2>3. \A o \in Slots : slot'[o].pc \in {"commit"} \cup Nexts
    BY <1>7, <1>8
  <2> QED
    BY <1>4, <1>5, <2>1, <2>2, <2>3 DEF TypeOK, Rows, Events, Nexts
<1>11. /\ (~raced /\ ~forced => Flowing(task, event.lifecycle))'
       /\ (~raced /\ ~reassessed => Caused(incident, event.lifecycle, event.state))'
  BY <1>3, <1>5, <1>9 DEF Flowing, Caused, Events
<1> QED
  BY <1>6, <1>7, <1>8, <1>10, <1>11 DEF LiveInvariant

\* A new plan makes the event PLANNED, and whoever would write its tasks fails.
LEMMA GenerateKeeps ==
  ASSUME TypeOK, LiveInvariant, Generate, slot' = [o \in Slots |-> slot'[o]],
         \A o \in Slots : slot'[o] \in {TasksGone[o], Idle},
         requests' \in 0 .. MaxRequests,
         UNCHANGED <<incident, offered, raced, forced, reassessed>>
  PROVE  TypeOK' /\ LiveInvariant'
<1>1. /\ task \in [Tasks -> TaskStatuses] /\ event \in Events
      /\ incident \in [Incidents -> Rows]
  BY DEF TypeOK, Events, Rows
<1>2. /\ event' \in Events /\ event'.lifecycle = "PLANNED" /\ event'.state = event.state
      /\ event.lifecycle \in {"DRAFT", "PLANNED", "LIVE"}
  BY <1>1 DEF Generate, Events, Lifecycles
<1>3. ASSUME NEW o \in Slots
      PROVE  HandlerOK(o)' /\ slot'[o].pc \in {"commit"} \cup Nexts
  <2>1. HandlerOK(o)
    BY DEF LiveInvariant
  <2>2. \/ slot[o].pc # "commit" /\ slot'[o] = slot[o]
        \/ slot'[o] = Idle
        \/ slot[o].pc = "commit" /\ slot'[o] = [slot[o] EXCEPT !.overtaken = TRUE]
    BY DEF TasksGone
  <2>3. CASE slot[o].pc # "commit" /\ slot'[o] = slot[o]
    BY <2>1, <2>3 DEF HandlerOK, Nexts
  <2>4. CASE slot'[o] = Idle
    BY <2>4 DEF HandlerOK, Nexts, Idle
  <2>5. CASE slot[o].pc = "commit" /\ slot'[o] = [slot[o] EXCEPT !.overtaken = TRUE]
    <3>1. /\ slot[o] = [pc |-> "commit", overtaken |-> slot[o].overtaken,
                        writes |-> slot[o].writes, next |-> slot[o].next]
          /\ slot[o].next \in Nexts /\ IsWrites(slot[o].writes)
      BY <2>1, <2>5 DEF HandlerOK
    <3>2. slot'[o] = [pc |-> "commit", overtaken |-> TRUE, writes |-> slot[o].writes,
                      next |-> slot[o].next]
      BY <2>5, <3>1
    <3>3. /\ slot'[o].pc = "commit" /\ slot'[o].overtaken = TRUE
          /\ slot'[o].writes = slot[o].writes /\ slot'[o].next = slot[o].next
      BY <3>2
    <3>4. IsWrites(slot[o].writes)'
      BY <3>1, <3>3 DEF IsWrites
    <3> QED
      BY <3>1, <3>2, <3>3, <3>4 DEF HandlerOK
  <2> QED
    BY <2>2, <2>3, <2>4, <2>5
<1>4. TypeOK'
  <2>1. task' \in [Tasks -> TaskStatuses]
    BY DEF Generate, TaskStatuses
  <2>2. {offered', raced', forced', reassessed'} \subseteq BOOLEAN
    BY DEF TypeOK
  <2> QED
    BY <1>1, <1>2, <1>3, <2>1, <2>2 DEF TypeOK, Events, Rows, Nexts
<1>5. /\ (~raced /\ ~forced => Flowing(task, event.lifecycle))'
      /\ (~raced /\ ~reassessed => Caused(incident, event.lifecycle, event.state))'
  BY <1>2 DEF LiveInvariant, Flowing, Caused
<1> QED
  BY <1>3, <1>4, <1>5 DEF LiveInvariant

\* So does one that is generated for a revision, or cannot be.
LEMMA RegenerateKeeps ==
  ASSUME TypeOK, LiveInvariant, NEW s \in Slots, Regenerate(s)
  PROVE  TypeOK' /\ LiveInvariant'
<1>1. CASE Generate /\ slot' = [TasksGone EXCEPT ![s] = Idle]
  <2>1. DOMAIN TasksGone = Slots /\ TasksGone = [o \in Slots |-> TasksGone[o]]
    BY DEF TasksGone
  <2>2. slot' = [o \in Slots |-> slot'[o]]
    BY <1>1, <2>1
  <2>3. \A o \in Slots : slot'[o] \in {TasksGone[o], Idle}
    BY <1>1, <2>1
  <2> QED
    BY <1>1, <2>2, <2>3, GenerateKeeps DEF Regenerate, TypeOK
<1>2. CASE slot' = [slot EXCEPT ![s] = Idle] /\ UNCHANGED <<task, event>>
  <2>1. UNCHANGED <<task, event, incident, offered, requests, raced, forced, reassessed>>
    BY <1>2 DEF Regenerate
  <2>2. /\ slot' = [o \in Slots |-> slot'[o]]
        /\ \A o \in Slots : slot'[o] \in {slot[o], Idle}
    BY <1>2 DEF LiveInvariant
  <2>3. ASSUME NEW o \in Slots
        PROVE  HandlerOK(o)' /\ slot'[o].pc \in {"commit"} \cup Nexts
    <3>1. CASE slot'[o] = Idle
      BY <3>1 DEF HandlerOK, Idle, Nexts
    <3>2. CASE slot'[o] = slot[o]
      BY <2>1, <3>2 DEF LiveInvariant, HandlerOK, IsWrites, Sound
    <3> QED
      BY <2>2, <3>1, <3>2
  <2>4. TypeOK'
    BY <2>1, <2>3 DEF TypeOK, Nexts
  <2> QED
    BY <2>1, <2>2, <2>3, <2>4 DEF LiveInvariant
<1> QED
  BY <1>1, <1>2 DEF Regenerate

\* And one that is asked for by itself.
LEMMA ReplanKeeps ==
  ASSUME TypeOK, LiveInvariant, Replan
  PROVE  TypeOK' /\ LiveInvariant'
<1>1. slot' = [o \in Slots |-> slot'[o]] /\ \A o \in Slots : slot'[o] = TasksGone[o]
  BY DEF Replan, TasksGone
<1>2. requests' \in 0 .. MaxRequests
  BY BoundsAssumption DEF Replan, TypeOK
<1> QED
  BY <1>1, <1>2, GenerateKeeps DEF Replan

\* The invariant holds at the start,
LEMMA InitSafe == Init => TypeOK /\ LiveInvariant
<1> SUFFICES ASSUME Init PROVE TypeOK /\ LiveInvariant
  OBVIOUS
<1>1. TypeOK
  <2>1. /\ "PENDING" \in TaskStatuses /\ "PLANNED" \in Lifecycles /\ "NORMAL" \in States
        /\ requests \in 0 .. MaxRequests
    BY BoundsAssumption DEF Init, TaskStatuses, Lifecycles, States
  <2>2. /\ Unreported \in [status : {"ABSENT", "OPEN", "RESOLVED"}, risk : States]
        /\ Idle.pc = "idle"
    BY <2>1 DEF Unreported, Idle
  <2>3. \A s \in Slots : slot[s].pc = "idle"
    BY <2>2 DEF Init
  <2> QED
    BY <2>1, <2>2, <2>3 DEF Init, TypeOK
<1>2. LiveInvariant
  BY DEF Init, LiveInvariant, HandlerOK, Idle, Nexts, Flowing, Caused
<1> QED
  BY <1>1, <1>2

\* and no step breaks it.
LEMMA NextSafe ==
  ASSUME TypeOK, LiveInvariant, [Next]_vars
  PROVE  TypeOK' /\ LiveInvariant'
<1>1. ASSUME NEW s \in Slots, Handle(s)
      PROVE  TypeOK' /\ LiveInvariant'
  <2>1. Decides(s) \/ Commit(s) \/ Regenerate(s)
    BY <1>1 DEF Handle, Decides
  <2> QED
    BY <2>1, DecidesTyped, DecidesKeeps, CommitKeeps, RegenerateKeeps
<1>2. CASE UNCHANGED vars
  <2>1. UNCHANGED <<task, event, incident, slot, offered, requests, raced, forced, reassessed>>
    BY <1>2 DEF vars
  <2>2. TypeOK'
    BY <2>1 DEF TypeOK
  <2>3. \A s \in Slots : HandlerOK(s)'
    BY <2>1 DEF LiveInvariant, HandlerOK, IsWrites, Sound
  <2> QED
    BY <2>1, <2>2, <2>3 DEF LiveInvariant
<1> QED
  BY <1>1, <1>2, ReplanKeeps DEF Next

\* The inductive invariant: a transaction that nobody has overtaken since it
\* read would commit what is right, whatever the others decide meanwhile.
THEOREM LiveSafe == Spec => [](TypeOK /\ LiveInvariant)
BY InitSafe, NextSafe, PTL DEF Spec

\* The tables of a live event are well typed in every reachable state.
THEOREM LiveTyped == Spec => []TypeOK
BY LiveSafe, PTL

\* In a live event no task waits whose predecessors are all completed, unless
\* transactions have overlapped or a recovery made the event live.
THEOREM WorkFlows == Spec => []NoneStranded
<1>1. LiveInvariant => NoneStranded
  BY DEF LiveInvariant, NoneStranded, Flowing, Under
<1> QED
  BY <1>1, LiveSafe, PTL

\* An event is escalated, and its risk other than NORMAL, only for an open
\* incident, with the exceptions the property names.
THEOREM EscalationsCaused == Spec => []EscalationHasCause
<1>1. LiveInvariant => EscalationHasCause
  BY DEF LiveInvariant, EscalationHasCause, Caused, Active
<1> QED
  BY <1>1, LiveSafe, PTL

\* What is concluded is reopened by a revision only, which makes it a draft, and no
\* work starts in it, unless a transaction overlapped the conclusion or a recovery
\* made the event live.
THEOREM ConclusionStays == Spec => OnlyRevisionReopens
<1> DEFINE Final == event.lifecycle = "CONCLUDED" /\ ~raced' /\ ~forced' =>
                      /\ \/ event'.lifecycle = "CONCLUDED"
                         \/ /\ event'.lifecycle = "DRAFT"
                            /\ \E s \in Slots : slot[s].pc = "commit" /\ slot'[s].pc = "replan"
                      /\ \A t \in Tasks : task'[t] = "IN_PROGRESS" => task[t] = "IN_PROGRESS"
<1>1. ASSUME TypeOK, LiveInvariant, [Next]_vars
      PROVE  [Final]_vars
  <2>1. ASSUME NEW s \in Slots, Commit(s)
        PROVE  Final
    <3>1. /\ slot[s].pc = "commit" /\ slot[s].overtaken \in BOOLEAN
          /\ ~raced /\ ~slot[s].overtaken =>
               Sound(slot[s].writes, slot[s].next, forced, reassessed)
      BY <1>1, <2>1 DEF LiveInvariant, HandlerOK, Commit
    <3>2. slot'[s].pc = slot[s].next
      BY <2>1 DEF Commit, Overtaken
    <3> QED
      BY <2>1, <3>1, <3>2 DEF Commit, Sound
  <2>2. ASSUME NEW s \in Slots, Decides(s)
        PROVE  Final
    BY <1>1, <2>2, DecidesTyped
  <2>3. ASSUME Generate \/ UNCHANGED <<task, event>>
        PROVE  Final
    BY <2>3 DEF Generate
  <2> HIDE DEF Final
  <2>4. ASSUME NEW s \in Slots, Handle(s)
        PROVE  Final
    <3>1. Decides(s) \/ Commit(s) \/ Regenerate(s)
      BY <2>4 DEF Handle, Decides
    <3>2. Regenerate(s) => Generate \/ UNCHANGED <<task, event>>
      BY DEF Regenerate
    <3> QED
      BY <2>1, <2>2, <2>3, <2>4, <3>1, <3>2
  <2>5. Replan => Generate
    BY DEF Replan
  <2> QED
    BY <1>1, <2>3, <2>4, <2>5 DEF Next
<1>2. [](TypeOK /\ LiveInvariant) /\ [][Next]_vars => [][Final]_vars
  BY <1>1, PTL
<1> QED
  BY <1>2, LiveSafe, PTL DEF Spec, OnlyRevisionReopens
=============================================================================
