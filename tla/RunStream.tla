----------------------------- MODULE RunStream -----------------------------
(***************************************************************************)
(* The progress log of one agent run and the streams that follow it:       *)
(* AgentRunEventRecorder.record, the in-process LiveEventBroker, the SSE   *)
(* endpoint of routes/agent.py and the cursor of the web client that       *)
(* reconnects to it.                                                       *)
(*                                                                         *)
(* Writers run in threads of their own.  record reads the highest          *)
(* sequence, inserts the next one under a unique constraint and, only when *)
(* the row is committed, hands it to the event loop, which broadcasts in   *)
(* the order of arrival.  The loop runs one piece of a handler at a time:  *)
(* from the look at the run to the replay query an endpoint does not give  *)
(* it up, so no broadcast falls in between, while writers commit freely.   *)
(***************************************************************************)
EXTENDS Integers, Sequences, FiniteSets, SequencesExt, FiniteSetsExt

CONSTANTS
  Writers,        \* threads that record: the worker, the cancel endpoint
  Script,         \* the kinds of event each writer records, in order
  Clients,        \* browsers that follow the run
  QueueSize,      \* maxsize of a subscriber's queue (100)
  ReplayLimit,    \* rows one replay may hold (1000)
  MaxTries,       \* _MAX_SEQUENCE_RETRIES
  MaxConnections, \* bound: connections each client opens
  MaxRestarts     \* bound: restarts of the API process

Kinds == {"progress", "terminal"}

ASSUME ScriptAssumption == Script \in [Writers -> Seq(Kinds)]

ASSUME LimitsAssumption ==
  /\ {QueueSize, ReplayLimit, MaxTries} \subseteq Nat \ {0}
  /\ {MaxConnections, MaxRestarts} \subseteq Nat

Rows == [sequence : Nat \ {0}, kind : Kinds]

VARIABLES
  rows,      \* agent_run_events of the run
  ended,     \* the status of the run is a terminal one
  writer,    \* where each writer is in record
  pending,   \* broadcasts scheduled on the event loop
  client,    \* each browser and the connection that serves it
  restarts   \* restarts so far

vars == <<rows, ended, writer, pending, client, restarts>>

WriterPcs == {"idle", "read", "committed", "dead"}

ClientPcs == {"away", "opened", "subscribed", "replaying", "live", "finished"}

\* The types of the log, of writers, queues and connections.
TypeOK ==
  /\ rows \subseteq Rows
  /\ ended \in BOOLEAN
  /\ writer \in [Writers -> [pc : WriterPcs, next : Nat, max : Nat, tries : Nat]]
  /\ pending \in Seq(Rows)
  /\ client \in [Clients -> [pc      : ClientPcs,
                             opened  : Nat,
                             last    : Nat,
                             got     : SUBSET Nat,
                             ended   : BOOLEAN,
                             replay  : Seq(Rows),
                             queue   : Seq(Rows),
                             missed  : SUBSET Nat]]
  /\ restarts \in Nat

Init ==
  /\ rows = {}
  /\ ended = FALSE
  /\ writer = [w \in Writers |-> [pc |-> "idle", next |-> 1, max |-> 0, tries |-> 0]]
  /\ pending = <<>>
  /\ client = [c \in Clients |->
       [pc |-> "away", opened |-> 0, last |-> 0, got |-> {}, ended |-> FALSE,
        replay |-> <<>>, queue |-> <<>>, missed |-> {}]]
  /\ restarts = 0

-----------------------------------------------------------------------------
Sequences(R) == {r.sequence : r \in R}

LastSequence == Max(Sequences(rows) \cup {0})

Subscribed(c) == client[c].pc \in {"subscribed", "replaying", "live"}

\* The event loop is inside the endpoint's code for c.
OnLoop(c) == client[c].pc \in {"opened", "subscribed"}

Pending(w) == writer[w].next <= Len(Script[w])

Kind(w) == Script[w][writer[w].next]

\* The connection is gone: its queue is unsubscribed, what the server still
\* had for it is lost; the browser keeps what it has received.
Disconnected(k, pc) ==
  [k EXCEPT !.pc = pc, !.ended = FALSE, !.replay = <<>>, !.queue = <<>>, !.missed = {}]

\* One frame reaches the browser, whose cursor moves to it.  After the frame
\* of a terminal event the server closes, and the browser does not come back.
Receive(k, row) ==
  LET received == [k EXCEPT !.last = row.sequence, !.got = @ \cup {row.sequence}]
  IN  IF row.kind = "terminal" THEN Disconnected(received, "finished") ELSE received

After(cursor) == {r \in rows : r.sequence > cursor}

Ordered(s) == \A i, j \in DOMAIN s : i < j => s[i].sequence < s[j].sequence

\* list_run_events: the first rows after the cursor, in order.
ReplayAfter(cursor) ==
  LET later == CHOOSE s \in [1 .. Cardinality(After(cursor)) -> After(cursor)] : Ordered(s)
  IN  SubSeq(later, 1, Min({ReplayLimit, Len(later)}))

-----------------------------------------------------------------------------
(* Faulty variants of the operations defined below, each with one plausible *)
(* bug.  They are not part of Spec; the property each must break is named.   *)

\* TypeOK: the first sequence is 0.
ReadMaxFromMinusOne(w) ==
  /\ writer[w].pc = "idle" /\ Pending(w)
  /\ Kind(w) = "terminal" => ended
  /\ writer' = [writer EXCEPT ![w].pc = "read",
                              ![w].max = IF rows = {} THEN -1 ELSE LastSequence]
  /\ UNCHANGED <<rows, ended, pending, client, restarts>>

\* SequencesContiguous: after a conflict the number is advanced without reading
\* again, and one too far.
ConflictBlindRetry(w) ==
  /\ writer[w].pc = "read"
  /\ writer[w].max + 1 \in Sequences(rows)
  /\ writer' = [writer EXCEPT ![w].max = @ + 2]
  /\ UNCHANGED <<rows, ended, pending, client, restarts>>

\* FramesIncrease: rows already replayed are not recognised.
DeliverAgain(c) ==
  /\ client[c].pc = "live" /\ client[c].queue # <<>>
  /\ client' = [client EXCEPT ![c] =
       Receive([@ EXCEPT !.queue = Tail(@)], Head(client[c].queue))]
  /\ UNCHANGED <<rows, ended, writer, pending, restarts>>

\* NothingFallsBetween: the queue is registered when the replay is through.
GoLiveFreshQueue(c) ==
  /\ client[c].pc = "replaying" /\ client[c].replay = <<>>
  /\ client' = [client EXCEPT ![c] =
       IF @.ended THEN Disconnected(@, "away")
       ELSE [@ EXCEPT !.pc = "live", !.queue = <<>>]]
  /\ UNCHANGED <<rows, ended, writer, pending, restarts>>

\* LogOnlyGrows: a row in the way is replaced.
InsertOver(w) ==
  /\ writer[w].pc = "read"
  /\ rows' = {r \in rows : r.sequence # writer[w].max + 1}
               \cup {[sequence |-> writer[w].max + 1, kind |-> Kind(w)]}
  /\ writer' = [writer EXCEPT ![w] = [@ EXCEPT !.pc = "committed"]]
  /\ UNCHANGED <<ended, pending, client, restarts>>

\* StreamCloses: the live loop does not look at the kind of the frame.
DeliverOpenEnded(c) ==
  /\ client[c].pc = "live" /\ client[c].queue # <<>>
  /\ LET row  == Head(client[c].queue)
         rest == [client[c] EXCEPT !.queue = Tail(@)]
     IN  client' = [client EXCEPT ![c] =
           IF row.sequence <= @.last THEN rest
           ELSE [rest EXCEPT !.last = row.sequence, !.got = @ \cup {row.sequence}]]
  /\ UNCHANGED <<rows, ended, writer, pending, restarts>>

-----------------------------------------------------------------------------
(* record *)

\* The caller commits the status of the run before it records its end.
EndRun(w) ==
  /\ writer[w].pc = "idle" /\ Pending(w) /\ Kind(w) = "terminal"
  /\ ~ended
  /\ ended' = TRUE
  /\ UNCHANGED <<rows, writer, pending, client, restarts>>

ReadMax(w) ==
  /\ writer[w].pc = "idle" /\ Pending(w)
  /\ Kind(w) = "terminal" => ended
  /\ writer' = [writer EXCEPT ![w] = [@ EXCEPT !.pc = "read", !.max = LastSequence]]
  /\ UNCHANGED <<rows, ended, pending, client, restarts>>

Insert(w) ==
  /\ writer[w].pc = "read"
  /\ writer[w].max + 1 \notin Sequences(rows)
  /\ rows' = rows \cup {[sequence |-> writer[w].max + 1, kind |-> Kind(w)]}
  /\ writer' = [writer EXCEPT ![w] = [@ EXCEPT !.pc = "committed"]]
  /\ UNCHANGED <<ended, pending, client, restarts>>

\* The unique constraint rejects the row: roll back and read again, at most
\* MaxTries times in all; then the event is given up.
Conflict(w) ==
  /\ writer[w].pc = "read"
  /\ writer[w].max + 1 \in Sequences(rows)
  /\ \/ /\ writer[w].tries + 1 < MaxTries
        /\ writer' = [writer EXCEPT ![w] =
             [pc |-> "read", next |-> @.next, max |-> LastSequence, tries |-> @.tries + 1]]
     \/ /\ writer[w].tries + 1 >= MaxTries
        /\ writer' = [writer EXCEPT ![w] =
             [pc |-> "idle", next |-> @.next + 1, max |-> 0, tries |-> 0]]
  /\ UNCHANGED <<rows, ended, pending, client, restarts>>

\* publish_sync: the broadcast is queued on the event loop.
Publish(w) ==
  /\ writer[w].pc = "committed"
  /\ pending' = Append(pending, [sequence |-> writer[w].max + 1, kind |-> Kind(w)])
  /\ writer' = [writer EXCEPT ![w] =
       [pc |-> "idle", next |-> @.next + 1, max |-> 0, tries |-> 0]]
  /\ UNCHANGED <<rows, ended, client, restarts>>

-----------------------------------------------------------------------------
(* The broker *)

\* Every subscriber gets the row, unless its queue is full: then it misses it.
Broadcast ==
  /\ pending # <<>>
  /\ \A c \in Clients : ~OnLoop(c)
  /\ pending' = Tail(pending)
  /\ client' = [c \in Clients |->
       IF ~Subscribed(c) THEN client[c]
       ELSE IF Len(client[c].queue) < QueueSize
       THEN [client[c] EXCEPT !.queue = Append(@, Head(pending))]
       ELSE [client[c] EXCEPT !.missed = @ \cup {Head(pending).sequence}]]
  /\ UNCHANGED <<rows, ended, writer, restarts>>

-----------------------------------------------------------------------------
(* The stream endpoint and the browser's loop around it *)

\* A browser connects with its cursor (Last-Event-ID); the endpoint reads the
\* status of the run.
Open(c) ==
  /\ client[c].pc = "away" /\ client[c].opened < MaxConnections
  /\ \A d \in Clients : ~OnLoop(d)
  /\ client' = [client EXCEPT ![c].pc = "opened", ![c].opened = @ + 1,
                              ![c].ended = ended]
  /\ UNCHANGED <<rows, ended, writer, pending, restarts>>

Subscribe(c) ==
  /\ client[c].pc = "opened"
  /\ client' = [client EXCEPT ![c].pc = "subscribed"]
  /\ UNCHANGED <<rows, ended, writer, pending, restarts>>

ReadReplay(c) ==
  /\ client[c].pc = "subscribed"
  /\ client' = [client EXCEPT ![c].pc = "replaying",
                              ![c].replay = ReplayAfter(client[c].last),
                              ![c].missed = Sequences(After(client[c].last))
                                   \ Sequences(Range(ReplayAfter(client[c].last)))]
  /\ UNCHANGED <<rows, ended, writer, pending, restarts>>

SendReplay(c) ==
  /\ client[c].pc = "replaying" /\ client[c].replay # <<>>
  /\ client' = [client EXCEPT ![c] =
       Receive([client[c] EXCEPT !.replay = Tail(@)], Head(client[c].replay))]
  /\ UNCHANGED <<rows, ended, writer, pending, restarts>>

\* The replay is through.  If the run had ended when the browser connected the
\* stream closes, and the browser, which has seen no end, will connect again.
GoLive(c) ==
  /\ client[c].pc = "replaying" /\ client[c].replay = <<>>
  /\ client' = [client EXCEPT ![c] =
       IF @.ended THEN Disconnected(@, "away") ELSE [@ EXCEPT !.pc = "live"]]
  /\ UNCHANGED <<rows, ended, writer, pending, restarts>>

\* Live rows that are not past the cursor are taken for replayed ones.
Deliver(c) ==
  /\ client[c].pc = "live" /\ client[c].queue # <<>>
  /\ LET row  == Head(client[c].queue)
         rest == [client[c] EXCEPT !.queue = Tail(@)]
     IN  client' = [client EXCEPT ![c] =
           IF row.sequence <= @.last THEN rest ELSE Receive(rest, row)]
  /\ UNCHANGED <<rows, ended, writer, pending, restarts>>

Drop(c) ==
  /\ client[c].pc \in {"replaying", "live"}
  /\ client' = [client EXCEPT ![c] = Disconnected(@, "away")]
  /\ UNCHANGED <<rows, ended, writer, pending, restarts>>

-----------------------------------------------------------------------------
\* The process dies and starts again: writers, scheduled broadcasts and
\* connections are gone.  Before it serves, fail_orphaned_runs ends a run that
\* was still executing and records that.
Restart ==
  /\ restarts < MaxRestarts
  /\ restarts' = restarts + 1
  /\ writer' = [w \in Writers |-> [writer[w] EXCEPT !.pc = "dead"]]
  /\ pending' = <<>>
  /\ client' = [c \in Clients |->
       IF client[c].pc = "finished" THEN client[c] ELSE Disconnected(client[c], "away")]
  /\ ended' = TRUE
  /\ rows' = IF ended THEN rows
             ELSE rows \cup {[sequence |-> LastSequence + 1, kind |-> "terminal"]}

-----------------------------------------------------------------------------
Record(w) == EndRun(w) \/ ReadMax(w) \/ Insert(w) \/ Conflict(w) \/ Publish(w)

Serve(c) == Subscribe(c) \/ ReadReplay(c) \/ SendReplay(c) \/ GoLive(c) \/ Deliver(c)

\* All is said and every browser has gone or waits.
Idle ==
  /\ \A w \in Writers : writer[w].pc = "dead" \/ (writer[w].pc = "idle" /\ ~Pending(w))
  /\ UNCHANGED vars

Next ==
  \/ \E w \in Writers : Record(w)
  \/ Broadcast
  \/ \E c \in Clients : Open(c) \/ Serve(c) \/ Drop(c)
  \/ Restart
  \/ Idle

\* Threads make progress, the event loop drains what is scheduled on it and
\* steps the generators; nothing makes a browser connect or a process restart.
Fairness ==
  /\ \A w \in Writers : WF_vars(Record(w))
  /\ WF_vars(Broadcast)
  /\ \A c \in Clients : WF_vars(Serve(c))

Spec == Init /\ [][Next]_vars /\ Fairness

-----------------------------------------------------------------------------
(* Properties *)

\* The unique constraint and the retry number the events of a run 1, 2, 3, ...
\* whoever records and however writers interleave, give up or die.
SequencesContiguous ==
  /\ Sequences(rows) = 1 .. LastSequence
  /\ \A a, b \in rows : a.sequence = b.sequence => a = b

\* A committed row is never changed, renumbered or deleted, and a new one comes
\* after all there are: what a replay has shown remains the beginning.
LogOnlyGrows ==
  [][/\ rows \subseteq rows'
     /\ \A r \in rows' \ rows : r.sequence > LastSequence]_vars

\* A browser sees no event twice and none out of order: replay and live
\* delivery overlap, and the sequence last sent tells them apart.
FramesIncrease ==
  [][\A c \in Clients :
       /\ \A s \in client'[c].got \ client[c].got : s > client[c].last
       /\ client'[c].last # client[c].last =>
            client'[c].got \ client[c].got = {client'[c].last}]_vars

\* Subscribing before the replay is read leaves no gap ("so no event falls
\* between replay and live delivery"): a committed row past the cursor of a
\* browser that is served is in its replay or its queue, is scheduled, is still
\* in the hands of its writer, or did not fit the queue or the replay.
NothingFallsBetween ==
  \A c \in Clients : client[c].pc \in {"replaying", "live"} =>
    \A r \in After(client[c].last) :
      \/ r \in Range(client[c].replay) \cup Range(client[c].queue) \cup Range(pending)
      \/ \E w \in Writers : writer[w].pc = "committed" /\ writer[w].max + 1 = r.sequence
      \/ r.sequence \in client[c].missed

\* The last event did not fit a queue or a replay of c, or a later one was
\* published first.
EndLost(c) == \E r \in rows :
  /\ r.kind = "terminal" /\ r.sequence \notin client[c].got
  /\ r.sequence <= client[c].last \/ r.sequence \in client[c].missed

\* A stream does not outlive its run: once the end of the run is recorded a live
\* stream closes, unless the recorded end is lost on it; one that was opened
\* after the run had ended closes in any case.
StreamCloses ==
  \A c \in Clients :
    /\ (client[c].pc = "live" /\ \E r \in rows : r.kind = "terminal")
         ~> (client[c].pc # "live" \/ EndLost(c))
    /\ (client[c].pc # "away" /\ client[c].ended)
         ~> client[c].pc \in {"away", "finished"}

\* "clients that connect late or reconnect replay the missed events from the
\* database by sequence cursor" (the recorder's description): what a browser's
\* cursor has passed it has seen, so nothing it misses stays missed.
CursorCovers ==
  \A c \in Clients : \A r \in rows :
    r.sequence <= client[c].last => r.sequence \in client[c].got
=============================================================================
