-------------------------- MODULE RunStreamProofs --------------------------
(***************************************************************************)
(* Proofs about the log of RunStream, for any number of writers, scripts,  *)
(* clients, tries and restarts: sequences are 1, 2, 3, ... without gap or  *)
(* repetition and the log only grows at its end.                           *)
(***************************************************************************)
EXTENDS RunStream, FiniteSetTheorems, TLAPS

\* The highest of 1 .. n and 0 is n.
LEMMA MaxUpTo ==
  ASSUME NEW n \in Nat
  PROVE  Max((1 .. n) \cup {0}) = n
<1>1. n \in (1 .. n) \cup {0} /\ \A m \in (1 .. n) \cup {0} : m <= n
  OBVIOUS
<1>2. \A k \in (1 .. n) \cup {0} : (\A m \in (1 .. n) \cup {0} : m <= k) => k = n
  OBVIOUS
<1> QED
  BY <1>1, <1>2 DEF Max

\* The numbers up to the next one.
LEMMA OneMore ==
  ASSUME NEW n \in Nat
  PROVE  (1 .. n) \cup {n + 1} = 1 .. (n + 1)
OBVIOUS

\* No writer has read past the log: with contiguity, what makes its next insert
\* either collide or extend the log by one.
LogInvariant ==
  /\ LastSequence \in Nat
  /\ SequencesContiguous
  /\ writer \in [Writers -> [pc : WriterPcs, next : Nat, max : Nat, tries : Nat]]
  /\ \A w \in Writers : writer[w].max <= LastSequence

\* Recording one more row at the end extends the range by one.
LEMMA Extended ==
  ASSUME LastSequence \in Nat, SequencesContiguous, NEW k,
         rows' = rows \cup {[sequence |-> LastSequence + 1, kind |-> k]}
  PROVE  /\ LastSequence' = LastSequence + 1
         /\ SequencesContiguous'
         /\ rows \subseteq rows'
         /\ \A r \in rows' \ rows : r.sequence > LastSequence
<1> DEFINE n == LastSequence
           new == [sequence |-> n + 1, kind |-> k]
<1>1. new.sequence = n + 1
  OBVIOUS
<1>2. Sequences(rows) = 1 .. n
  BY DEF SequencesContiguous
<1>3. Sequences(rows') = Sequences(rows) \cup {n + 1}
  BY <1>1 DEF Sequences
<1>4. Sequences(rows') = 1 .. (n + 1)
  BY <1>2, <1>3, OneMore
<1>5. LastSequence' = n + 1
  <2>1. LastSequence' = Max((1 .. (n + 1)) \cup {0})
    BY <1>4 DEF LastSequence
  <2> QED
    BY <2>1, MaxUpTo
<1>6. \A r \in rows : r.sequence \in 1 .. n
  BY <1>2 DEF Sequences
<1>7. \A a, b \in rows' : a.sequence = b.sequence => a = b
  BY <1>1, <1>6 DEF SequencesContiguous
<1> QED
  BY <1>1, <1>4, <1>5, <1>7 DEF SequencesContiguous

\* Wherever a writer goes, it has read 0, the end of the log, or what it had.
LEMMA Readings ==
  ASSUME LogInvariant, NEW w \in Writers, Record(w)
  PROVE  /\ writer' \in [Writers -> [pc : WriterPcs, next : Nat, max : Nat, tries : Nat]]
         /\ \A v \in Writers : writer'[v].max \in {0, LastSequence, writer[v].max}
<1> DEFINE W == [pc : WriterPcs, next : Nat, max : Nat, tries : Nat]
<1>1. writer \in [Writers -> W] /\ LastSequence \in Nat
  BY DEF LogInvariant
<1>2. SUFFICES ASSUME NEW next \in W, next.max \in {0, LastSequence, writer[w].max},
                     writer' = [writer EXCEPT ![w] = next]
              PROVE  /\ writer' \in [Writers -> W]
                     /\ \A v \in Writers : writer'[v].max \in {0, LastSequence, writer[v].max}
  <2>1. CASE EndRun(w)
    <3>1. writer' = [writer EXCEPT ![w] = writer[w]]
      BY <1>1, <2>1 DEF EndRun
    <3> QED
      BY <1>1, <1>2, <3>1
  <2>2. CASE ReadMax(w)
    <3> DEFINE next == [writer[w] EXCEPT !.pc = "read", !.max = LastSequence]
    <3>1. writer' = [writer EXCEPT ![w] = next]
      BY <2>2 DEF ReadMax
    <3>2. next \in W /\ next.max = LastSequence
      BY <1>1 DEF WriterPcs
    <3> HIDE DEF next
    <3> QED
      BY <1>2, <3>1, <3>2
  <2>3. CASE Insert(w)
    <3> DEFINE next == [writer[w] EXCEPT !.pc = "committed"]
    <3>1. writer' = [writer EXCEPT ![w] = next]
      BY <2>3 DEF Insert
    <3>2. next \in W /\ next.max = writer[w].max
      BY <1>1 DEF WriterPcs
    <3> HIDE DEF next
    <3> QED
      BY <1>2, <3>1, <3>2
  <2>4. CASE Conflict(w)
    <3>1. \/ writer' = [writer EXCEPT ![w] =
               [pc |-> "idle", next |-> writer[w].next + 1, max |-> 0, tries |-> 0]]
          \/ writer' = [writer EXCEPT ![w] =
               [pc |-> "read", next |-> writer[w].next, max |-> LastSequence,
                tries |-> writer[w].tries + 1]]
      BY <2>4 DEF Conflict
    <3> QED
      BY <1>1, <1>2, <3>1 DEF WriterPcs
  <2>5. CASE Publish(w)
    <3>1. writer' = [writer EXCEPT ![w] =
            [pc |-> "idle", next |-> writer[w].next + 1, max |-> 0, tries |-> 0]]
      BY <2>5 DEF Publish
    <3> QED
      BY <1>1, <1>2, <3>1 DEF WriterPcs
  <2> QED
    BY <2>1, <2>2, <2>3, <2>4, <2>5 DEF Record
<1> QED
  BY <1>1, <1>2

\* A step either leaves the log alone or appends one row at its end.
LEMMA LogSteps ==
  ASSUME LogInvariant, [Next]_vars
  PROVE  \/ rows' = rows
         \/ \E k : rows' = rows \cup {[sequence |-> LastSequence + 1, kind |-> k]}
<1>1. ASSUME NEW w \in Writers, Insert(w)
      PROVE  \E k : rows' = rows \cup {[sequence |-> LastSequence + 1, kind |-> k]}
  <2>1. writer[w].max \in Nat /\ writer[w].max <= LastSequence /\ LastSequence \in Nat
    BY DEF LogInvariant
  <2>2. writer[w].max + 1 \notin 1 .. LastSequence
    BY <1>1 DEF Insert, LogInvariant, SequencesContiguous
  <2>3. writer[w].max + 1 = LastSequence + 1
    BY <2>1, <2>2
  <2> QED
    BY <1>1, <2>3 DEF Insert
<1>2. CASE Restart
  BY <1>2 DEF Restart
<1>3. ASSUME NEW w \in Writers, EndRun(w) \/ ReadMax(w) \/ Conflict(w) \/ Publish(w)
      PROVE  rows' = rows
  BY <1>3 DEF EndRun, ReadMax, Conflict, Publish
<1>4. ASSUME NEW c \in Clients, Open(c) \/ Serve(c) \/ Drop(c) PROVE rows' = rows
  BY <1>4 DEF Open, Serve, Drop, Subscribe, ReadReplay, SendReplay, GoLive, Deliver
<1>5. CASE Broadcast \/ Idle \/ UNCHANGED vars
  BY <1>5 DEF Broadcast, Idle, vars
<1> QED
  BY <1>1, <1>2, <1>3, <1>4, <1>5 DEF Next, Record

\* A writer keeps its shape, and the maximum it has read is old or the present one.
LEMMA ReadingsStep ==
  ASSUME LogInvariant, [Next]_vars
  PROVE  /\ writer' \in [Writers -> [pc : WriterPcs, next : Nat, max : Nat, tries : Nat]]
         /\ \A v \in Writers : writer'[v].max \in {0, LastSequence, writer[v].max}
<1> DEFINE W == [pc : WriterPcs, next : Nat, max : Nat, tries : Nat]
<1>1. writer \in [Writers -> W]
  BY DEF LogInvariant
<1>2. CASE writer' = writer
  BY <1>1, <1>2
<1>3. CASE Restart
  <2>1. writer' = [w \in Writers |-> [writer[w] EXCEPT !.pc = "dead"]]
    BY <1>3 DEF Restart
  <2>2. \A w \in Writers : /\ [writer[w] EXCEPT !.pc = "dead"] \in W
                           /\ [writer[w] EXCEPT !.pc = "dead"].max = writer[w].max
    BY <1>1 DEF WriterPcs
  <2> QED
    BY <2>1, <2>2
<1>4. ASSUME NEW c \in Clients, Open(c) \/ Serve(c) \/ Drop(c) PROVE writer' = writer
  BY <1>4 DEF Open, Serve, Drop, Subscribe, ReadReplay, SendReplay, GoLive, Deliver
<1>5. Broadcast \/ Idle \/ UNCHANGED vars => writer' = writer
  BY DEF Broadcast, Idle, vars
<1> QED
  BY <1>2, <1>3, <1>4, <1>5, Readings DEF Next

\* No step breaks the invariant of the log.
LEMMA LogInvariantStep ==
  ASSUME LogInvariant, [Next]_vars
  PROVE  LogInvariant'
<1>1. CASE rows' = rows
  <2>1. LastSequence' = LastSequence /\ Sequences(rows') = Sequences(rows)
    BY <1>1 DEF LastSequence
  <2>2. SequencesContiguous'
    BY <1>1, <2>1 DEF LogInvariant, SequencesContiguous
  <2> QED
    BY <1>1, <2>1, <2>2, ReadingsStep DEF LogInvariant
<1>2. CASE \E k :
             rows' = rows \cup {[sequence |-> LastSequence + 1, kind |-> k]}
  <2>1. LastSequence' = LastSequence + 1 /\ SequencesContiguous'
    BY <1>2, Extended DEF LogInvariant
  <2> QED
    BY <2>1, ReadingsStep DEF LogInvariant
<1> QED
  BY <1>1, <1>2, LogSteps

\* The log of a new run is empty and its invariant is kept by every step.
THEOREM LogSafe == Spec => []LogInvariant
<1>1. Init => LogInvariant
  <2> SUFFICES ASSUME Init PROVE LogInvariant
    OBVIOUS
  <2>1. Sequences(rows) = {} /\ 1 .. 0 = {}
    BY DEF Init, Sequences
  <2>2. LastSequence = 0
    BY <2>1, MaxUpTo DEF LastSequence
  <2>3. SequencesContiguous
    BY <2>1, <2>2 DEF Init, SequencesContiguous
  <2> QED
    BY <2>2, <2>3 DEF Init, LogInvariant, WriterPcs
<1>2. LogInvariant /\ [Next]_vars => LogInvariant'
  BY LogInvariantStep
<1> QED
  BY <1>1, <1>2, PTL DEF Spec

\* The events of a run are numbered 1, 2, 3, ... with neither gap nor repetition.
THEOREM LogContiguous == Spec => []SequencesContiguous
BY LogSafe, PTL DEF LogInvariant

\* No row is ever changed or removed, and a new one comes after all there are.
THEOREM LogGrows == Spec => LogOnlyGrows
<1>1. LogInvariant /\ [Next]_vars
        => /\ rows \subseteq rows'
           /\ \A r \in rows' \ rows : r.sequence > LastSequence
  BY LogSteps, Extended DEF LogInvariant
<1> QED
  BY <1>1, LogSafe, PTL DEF Spec, LogOnlyGrows

-----------------------------------------------------------------------------
(* The replay query                                                          *)

\* What lies past the cursor of a log without gaps is as many rows as there are
\* numbers, so it can be listed by number.
LEMMA LaterRowsListed ==
  ASSUME SequencesContiguous, LastSequence \in Nat, NEW cursor \in Nat
  PROVE  /\ Cardinality(After(cursor)) \in Nat
         /\ \E s \in [1 .. Cardinality(After(cursor)) -> After(cursor)] : Ordered(s)
<1> DEFINE n == LastSequence
           numbers == (cursor + 1) .. n
           row == [i \in numbers |-> CHOOSE r \in rows : r.sequence = i]
<1>1. ASSUME NEW i \in numbers PROVE row[i] \in rows /\ row[i].sequence = i
  <2>1. i \in Sequences(rows)
    BY DEF SequencesContiguous
  <2>2. \E r \in rows : r.sequence = i
    BY <2>1 DEF Sequences
  <2> QED
    BY <2>2
<1>2. ASSUME NEW r \in After(cursor)
      PROVE  r \in rows /\ r.sequence \in numbers /\ row[r.sequence] = r
  <2>1. r \in rows /\ r.sequence > cursor /\ r.sequence \in 1 .. n
    BY DEF After, SequencesContiguous, Sequences
  <2>2. r.sequence \in numbers
    BY <2>1
  <2> QED
    BY <1>1, <2>1, <2>2 DEF SequencesContiguous
<1> HIDE DEF row
<1>3. row \in Bijection(numbers, After(cursor))
  <2>1. row \in [numbers -> After(cursor)]
    <3>1. \A i \in numbers : row[i] \in After(cursor)
      BY <1>1 DEF After
    <3>2. row = [i \in numbers |-> row[i]]
      BY DEF row
    <3> QED
      BY <3>1, <3>2
  <2>2. \A i, j \in numbers : row[i] = row[j] => i = j
    BY <1>1
  <2>3. \A r \in After(cursor) : \E i \in numbers : row[i] = r
    BY <1>2
  <2> QED
    BY <2>1, <2>2, <2>3 DEF Bijection, Injection, Surjection, IsInjective
<1>4. /\ IsFiniteSet(numbers)
      /\ Cardinality(numbers) = IF cursor + 1 > n THEN 0 ELSE n - (cursor + 1) + 1
  BY FS_Interval
<1>5. Cardinality(After(cursor)) = IF cursor + 1 > n THEN 0 ELSE n - cursor
  BY <1>3, <1>4, FS_Bijection DEF ExistsBijection
<1> DEFINE D == 1 .. Cardinality(After(cursor))
           s == [i \in D |-> row[cursor + i]]
<1>6. \A i \in D : i \in Nat /\ cursor + i \in numbers
  BY <1>5
<1>7. s \in [D -> After(cursor)]
  BY <1>3, <1>6 DEF Bijection, Injection
<1>8. Ordered(s)
  BY <1>1, <1>6 DEF Ordered
<1> QED
  BY <1>5, <1>7, <1>8

\* A replay is a list of rows past the cursor, in order.
LEMMA ReplayInOrder ==
  ASSUME SequencesContiguous, LastSequence \in Nat, NEW cursor \in Nat
  PROVE  ReplayAfter(cursor) \in Seq(After(cursor)) /\ Ordered(ReplayAfter(cursor))
<1> DEFINE D == 1 .. Cardinality(After(cursor))
           later == CHOOSE s \in [D -> After(cursor)] : Ordered(s)
           m == Min({ReplayLimit, Len(later)})
<1>1. later \in [D -> After(cursor)] /\ Ordered(later)
  BY LaterRowsListed
<1>2. Cardinality(After(cursor)) \in Nat
  BY LaterRowsListed
<1>3. later \in Seq(After(cursor)) /\ Len(later) = Cardinality(After(cursor))
  BY <1>1, <1>2
<1>4. m \in 0 .. Len(later)
  <2>1. \E x \in {ReplayLimit, Len(later)} : \A y \in {ReplayLimit, Len(later)} : x <= y
    BY <1>2, <1>3, LimitsAssumption
  <2>2. m \in {ReplayLimit, Len(later)} /\ \A y \in {ReplayLimit, Len(later)} : m <= y
    BY <2>1 DEF Min
  <2> QED
    BY <1>2, <1>3, <2>2, LimitsAssumption
<1> HIDE DEF later, m
<1>5. /\ SubSeq(later, 1, m) \in Seq(After(cursor))
      /\ DOMAIN SubSeq(later, 1, m) = 1 .. m
      /\ \A i \in 1 .. m : SubSeq(later, 1, m)[i] = later[i]
  BY <1>3, <1>4
<1>6. Ordered(SubSeq(later, 1, m))
  BY <1>1, <1>3, <1>4, <1>5 DEF Ordered
<1> QED
  BY <1>5, <1>6 DEF ReplayAfter, later, m

-----------------------------------------------------------------------------
(* The streams                                                               *)

\* The row a writer has put into the log, or is about to.
Hand(w) == [sequence |-> writer[w].max + 1, kind |-> Kind(w)]

\* A writer that is inside record has an event to record, and what it is about
\* to publish is in the log.
HandsCommitted ==
  \A w \in Writers :
    /\ writer[w].next > 0
    /\ writer[w].pc \in {"read", "committed"} => Pending(w)
    /\ writer[w].pc = "committed" => Hand(w) \in rows

\* What connection k has sent lies at or before its cursor, what it will replay
\* after it and in order.
Steady(k) ==
  /\ \A s \in k.got : s <= k.last
  /\ \A r \in Range(k.replay) : r.sequence > k.last
  /\ Ordered(k.replay)
  /\ k.pc # "replaying" => k.replay = <<>>

\* A gap between replay and queue could open wherever a row changes hands:
\* log, writer, event loop, queue.  With the rows in the writers' hands known to
\* be in the log, each step moves a row from one place to the next.
StreamInvariant ==
  /\ TypeOK
  /\ LogInvariant
  /\ HandsCommitted
  /\ \A c \in Clients : Steady(client[c])
  /\ NothingFallsBetween

Connection == [pc : ClientPcs, opened : Nat, last : Nat, got : SUBSET Nat, ended : BOOLEAN,
               replay : Seq(Rows), queue : Seq(Rows), missed : SUBSET Nat]

\* A sequence that is not empty holds its head and what its tail holds.
LEMMA HeadOrTail ==
  ASSUME NEW S, NEW s \in Seq(S), s # <<>>
  PROVE  /\ Head(s) \in S /\ Head(s) \in Range(s)
         /\ Tail(s) \in Seq(S)
         /\ \A x \in Range(s) : x = Head(s) \/ x \in Range(Tail(s))
         /\ \A x \in Range(Tail(s)) : x \in Range(s)
<1>1. /\ Head(s) \in S /\ Head(s) = s[1] /\ 1 \in DOMAIN s
      /\ Tail(s) \in Seq(S) /\ DOMAIN Tail(s) = 1 .. (Len(s) - 1)
      /\ DOMAIN s = 1 .. Len(s) /\ Len(s) \in Nat
      /\ \A i \in 1 .. (Len(s) - 1) : Tail(s)[i] = s[i + 1]
  OBVIOUS
<1>2. \A i \in 2 .. Len(s) : s[i] \in Range(Tail(s))
  <2> TAKE i \in 2 .. Len(s)
  <2>1. i - 1 \in 1 .. (Len(s) - 1) /\ (i - 1) + 1 = i
    BY <1>1
  <2> QED
    BY <1>1, <2>1 DEF Range
<1>3. ASSUME NEW x \in Range(s) PROVE x = Head(s) \/ x \in Range(Tail(s))
  <2>1. PICK i \in 1 .. Len(s) : x = s[i]
    BY <1>1 DEF Range
  <2>2. CASE i = 1
    BY <1>1, <2>1, <2>2
  <2>3. CASE i \in 2 .. Len(s)
    BY <1>2, <2>1, <2>3
  <2> QED
    BY <1>1, <2>2, <2>3
<1>4. ASSUME NEW x \in Range(Tail(s)) PROVE x \in Range(s)
  <2>1. PICK i \in 1 .. (Len(s) - 1) : x = Tail(s)[i]
    BY <1>1 DEF Range
  <2>2. i + 1 \in DOMAIN s /\ x = s[i + 1]
    BY <1>1, <2>1
  <2> QED
    BY <2>2 DEF Range
<1>5. Head(s) \in Range(s)
  BY <1>1 DEF Range
<1> QED
  BY <1>1, <1>3, <1>4, <1>5

\* Appending adds one element.
LEMMA AppendedRange ==
  ASSUME NEW S, NEW s \in Seq(S), NEW x \in S
  PROVE  /\ Append(s, x) \in Seq(S)
         /\ x \in Range(Append(s, x))
         /\ \A y \in Range(s) : y \in Range(Append(s, x))
<1>1. /\ Append(s, x) \in Seq(S) /\ DOMAIN Append(s, x) = 1 .. (Len(s) + 1)
      /\ Append(s, x)[Len(s) + 1] = x /\ Len(s) + 1 \in 1 .. (Len(s) + 1)
      /\ DOMAIN s = 1 .. Len(s)
      /\ \A i \in 1 .. Len(s) : i \in 1 .. (Len(s) + 1) /\ Append(s, x)[i] = s[i]
  OBVIOUS
<1>2. x \in Range(Append(s, x))
  BY <1>1 DEF Range
<1>3. ASSUME NEW y \in Range(s) PROVE y \in Range(Append(s, x))
  <2>1. PICK i \in 1 .. Len(s) : y = s[i]
    BY <1>1, <1>3 DEF Range
  <2> QED
    BY <1>1, <2>1 DEF Range
<1> QED
  BY <1>1, <1>2, <1>3

\* The tail of an ordered list is ordered and lies after its head.
LEMMA OrderedTail ==
  ASSUME NEW s \in Seq(Rows), s # <<>>, Ordered(s)
  PROVE  /\ Ordered(Tail(s))
         /\ \A r \in Range(Tail(s)) : r.sequence > Head(s).sequence
<1>1. /\ Head(s) = s[1] /\ 1 \in DOMAIN s
      /\ DOMAIN Tail(s) = 1 .. (Len(s) - 1)
      /\ DOMAIN s = 1 .. Len(s) /\ Len(s) \in Nat
      /\ \A i \in 1 .. (Len(s) - 1) : Tail(s)[i] = s[i + 1] /\ s[i + 1] \in Rows
  OBVIOUS
<1>2. \A i \in 1 .. (Len(s) - 1) : i + 1 \in DOMAIN s /\ 1 < i + 1
  BY <1>1
<1>3. Ordered(Tail(s))
  BY <1>1, <1>2 DEF Ordered
<1>4. ASSUME NEW r \in Range(Tail(s)) PROVE r.sequence > Head(s).sequence
  <2>1. PICK i \in 1 .. (Len(s) - 1) : r = s[i + 1]
    BY <1>1 DEF Range
  <2>2. s[1].sequence < s[i + 1].sequence
    BY <1>1, <1>2 DEF Ordered
  <2>3. s[1] \in Rows /\ s[i + 1] \in Rows
    BY <1>1
  <2>4. s[1].sequence \in Nat /\ s[i + 1].sequence \in Nat
    BY <2>3 DEF Rows
  <2> QED
    BY <1>1, <2>1, <2>2, <2>4
<1> QED
  BY <1>3, <1>4

\* What a writer has in hand is a row.
LEMMA HandTyped ==
  ASSUME StreamInvariant, NEW w \in Writers, writer[w].pc \in {"read", "committed"}
  PROVE  Kind(w) \in Kinds /\ Hand(w) \in Rows
<1>1. /\ writer[w] \in [pc : WriterPcs, next : Nat, max : Nat, tries : Nat]
      /\ writer[w].next > 0 /\ writer[w].next <= Len(Script[w])
  BY DEF StreamInvariant, TypeOK, HandsCommitted, Pending
<1>2. writer[w].next \in Nat /\ writer[w].max \in Nat
  BY <1>1
<1>3. Script[w] \in Seq(Kinds)
  BY ScriptAssumption
<1>4. writer[w].next \in 1 .. Len(Script[w])
  BY <1>1, <1>2, <1>3
<1>5. Script[w][writer[w].next] \in Kinds
  BY <1>3, <1>4
<1>6. writer[w].max + 1 \in Nat \ {0}
  BY <1>2
<1> QED
  BY <1>5, <1>6 DEF Kind, Hand, Rows

\* What connection k of a browser becomes in a step: nothing happens to it, or
\* one of the endpoint's pieces, a broadcast or its end.
Moves(k, n) ==
  \/ n = k
  \/ k.pc = "away" /\ n = [k EXCEPT !.pc = "opened", !.opened = @ + 1, !.ended = ended]
  \/ k.pc = "opened" /\ n = [k EXCEPT !.pc = "subscribed"]
  \/ /\ k.pc = "subscribed"
     /\ n = [k EXCEPT !.pc = "replaying", !.replay = ReplayAfter(k.last),
                      !.missed = Sequences(After(k.last))
                                   \ Sequences(Range(ReplayAfter(k.last)))]
  \/ /\ k.pc = "replaying" /\ k.replay # <<>>
     /\ n = Receive([k EXCEPT !.replay = Tail(@)], Head(k.replay))
  \/ k.pc = "replaying" /\ k.replay = <<>> /\ n = [k EXCEPT !.pc = "live"]
  \/ /\ k.pc = "live" /\ k.queue # <<>>
     /\ \/ /\ Head(k.queue).sequence <= k.last
           /\ n = [k EXCEPT !.queue = Tail(@)]
        \/ /\ ~(Head(k.queue).sequence <= k.last)
           /\ n = Receive([k EXCEPT !.queue = Tail(@)], Head(k.queue))
  \/ n = Disconnected(k, "away")
  \/ /\ pending # <<>>
     /\ \/ n = [k EXCEPT !.queue = Append(@, Head(pending))]
        \/ n = [k EXCEPT !.missed = @ \cup {Head(pending).sequence}]

\* Every step moves every connection so.
LEMMA ConnectionsMove ==
  ASSUME StreamInvariant, [Next]_vars
  PROVE  /\ client' = [c \in Clients |-> client'[c]]
         /\ \A c \in Clients : Moves(client[c], client'[c])
<1>1. client = [c \in Clients |-> client[c]]
  BY DEF StreamInvariant, TypeOK
<1>2. CASE client' = client
  BY <1>1, <1>2 DEF Moves
<1>3. ASSUME NEW c \in Clients, NEW n, client' = [client EXCEPT ![c] = n], Moves(client[c], n)
      PROVE  /\ client' = [d \in Clients |-> client'[d]]
             /\ \A d \in Clients : Moves(client[d], client'[d])
  <2>1. \A d \in Clients : client'[d] = IF d = c THEN n ELSE client[d]
    BY <1>1, <1>3
  <2>2. \A d \in Clients : d # c => Moves(client[d], client'[d])
    BY <2>1 DEF Moves
  <2>3. Moves(client[c], client'[c])
    BY <1>3, <2>1
  <2>4. client' = [d \in Clients |-> client'[d]]
    BY <1>1, <1>3
  <2> QED
    BY <2>2, <2>3, <2>4
<1>4. ASSUME NEW c \in Clients, Open(c) \/ Serve(c) \/ Drop(c)
      PROVE  \E n : client' = [client EXCEPT ![c] = n] /\ Moves(client[c], n)
  <2>1. CASE Open(c)
    BY <1>1, <2>1 DEF Open, Moves
  <2>2. CASE Subscribe(c)
    BY <1>1, <2>2 DEF Subscribe, Moves
  <2>3. CASE ReadReplay(c)
    BY <1>1, <2>3 DEF ReadReplay, Moves
  <2>4. CASE SendReplay(c)
    <3> DEFINE n == Receive([client[c] EXCEPT !.replay = Tail(@)], Head(client[c].replay))
    <3>1. client' = [client EXCEPT ![c] = n]
      BY <1>1, <2>4 DEF SendReplay
    <3>2. Moves(client[c], n)
      BY <2>4 DEF SendReplay, Moves
    <3> QED
      BY <3>1, <3>2
  <2>5. CASE GoLive(c)
    BY <1>1, <2>5 DEF GoLive, Moves
  <2>6. CASE Deliver(c)
    BY <1>1, <2>6 DEF Deliver, Moves
  <2>7. CASE Drop(c)
    BY <1>1, <2>7 DEF Drop, Moves
  <2> QED
    BY <1>4, <2>1, <2>2, <2>3, <2>4, <2>5, <2>6, <2>7 DEF Serve
<1>5. CASE Broadcast
  BY <1>5 DEF Broadcast, Moves
<1>6. CASE Restart
  BY <1>6 DEF Restart, Moves
<1>7. ASSUME NEW w \in Writers, Record(w) PROVE client' = client
  BY <1>7 DEF Record, EndRun, ReadMax, Insert, Conflict, Publish
<1>8. Idle \/ UNCHANGED vars => client' = client
  BY DEF Idle, vars
<1> QED
  BY <1>2, <1>3, <1>4, <1>5, <1>6, <1>7, <1>8 DEF Next

\* What a broadcast hands over, and what is queued or replayed, are rows.
LEMMA Sent ==
  ASSUME NEW k \in Connection, NEW r \in Rows, NEW rest \in Seq(Rows)
  PROVE  /\ Receive([k EXCEPT !.replay = rest], r) \in Connection
         /\ Receive([k EXCEPT !.queue = rest], r) \in Connection
<1>1. r.sequence \in Nat /\ <<>> \in Seq(Rows) /\ {} \in SUBSET Nat
  BY DEF Rows
<1>2. k.got \cup {r.sequence} \in SUBSET Nat
  BY <1>1 DEF Connection
<1> QED
  BY <1>1, <1>2 DEF Receive, Disconnected, Connection, ClientPcs

\* A connection that goes on is one.
LEMMA MovesTyped ==
  ASSUME StreamInvariant, NEW k \in Connection, NEW n, Moves(k, n)
  PROVE  n \in Connection
<1>1. k.last \in Nat /\ k.opened \in Nat /\ k.replay \in Seq(Rows) /\ k.queue \in Seq(Rows)
      /\ k.missed \in SUBSET Nat /\ ended \in BOOLEAN /\ pending \in Seq(Rows)
      /\ rows \subseteq Rows
  BY DEF Connection, StreamInvariant, TypeOK
<1>2. CASE n = Disconnected(k, "away")
  <2>1. <<>> \in Seq(Rows) /\ {} \in SUBSET Nat
    OBVIOUS
  <2> QED
    BY <1>2, <2>1 DEF Disconnected, Connection, ClientPcs
<1>3. CASE \/ n = k
           \/ n = [k EXCEPT !.pc = "opened", !.opened = @ + 1, !.ended = ended]
           \/ n = [k EXCEPT !.pc = "subscribed"]
           \/ n = [k EXCEPT !.pc = "live"]
  <2>1. CASE n = [k EXCEPT !.pc = "opened", !.opened = @ + 1, !.ended = ended]
    <3>1. k.opened + 1 \in Nat
      BY <1>1
    <3> QED
      BY <1>1, <2>1, <3>1 DEF Connection, ClientPcs
  <2>2. CASE n = [k EXCEPT !.pc = "subscribed"] \/ n = [k EXCEPT !.pc = "live"]
    BY <2>2 DEF Connection, ClientPcs
  <2> QED
    BY <1>3, <2>1, <2>2
<1>4. CASE n = [k EXCEPT !.pc = "replaying", !.replay = ReplayAfter(k.last),
                         !.missed = Sequences(After(k.last))
                                      \ Sequences(Range(ReplayAfter(k.last)))]
  <2>1. ReplayAfter(k.last) \in Seq(After(k.last))
    BY <1>1, ReplayInOrder DEF StreamInvariant, LogInvariant
  <2>2. After(k.last) \subseteq Rows
    BY <1>1 DEF After
  <2>3. ReplayAfter(k.last) \in Seq(Rows)
    BY <2>1, <2>2
  <2>4. Sequences(After(k.last)) \ Sequences(Range(ReplayAfter(k.last))) \in SUBSET Nat
    BY <2>2 DEF Sequences, Rows
  <2> QED
    BY <1>1, <1>4, <2>3, <2>4 DEF Connection, ClientPcs
<1>5. CASE k.replay # <<>> /\ n = Receive([k EXCEPT !.replay = Tail(@)], Head(k.replay))
  BY <1>1, <1>5, HeadOrTail, Sent
<1>6. CASE k.queue # <<>> /\ n = Receive([k EXCEPT !.queue = Tail(@)], Head(k.queue))
  BY <1>1, <1>6, HeadOrTail, Sent
<1>7. CASE k.queue # <<>> /\ n = [k EXCEPT !.queue = Tail(@)]
  <2>1. Tail(k.queue) \in Seq(Rows)
    BY <1>1, <1>7
  <2> QED
    BY <1>7, <2>1 DEF Connection
<1>8. CASE /\ pending # <<>>
           /\ \/ n = [k EXCEPT !.queue = Append(@, Head(pending))]
              \/ n = [k EXCEPT !.missed = @ \cup {Head(pending).sequence}]
  <2>1. Head(pending) \in Rows
    BY <1>1, <1>8
  <2>2. Append(k.queue, Head(pending)) \in Seq(Rows)
    BY <1>1, <2>1
  <2>3. k.missed \cup {Head(pending).sequence} \in SUBSET Nat
    BY <1>1, <2>1 DEF Rows
  <2> QED
    BY <1>8, <2>2, <2>3 DEF Connection
<1> QED
  BY <1>2, <1>3, <1>4, <1>5, <1>6, <1>7, <1>8 DEF Moves

\* A frame moves the cursor forward to what it adds; nothing else adds anything.
LEMMA FramesForward ==
  ASSUME StreamInvariant, NEW k \in Connection, Steady(k), NEW n, Moves(k, n)
  PROVE  \/ n.got = k.got /\ n.last = k.last
         \/ \E s \in Nat : s > k.last /\ n.last = s /\ n.got = k.got \cup {s}
<1>1. /\ k.last \in Nat /\ k.replay \in Seq(Rows) /\ k.queue \in Seq(Rows)
  BY DEF Connection
<1>2. ASSUME NEW r \in Rows, r.sequence > k.last, NEW rest, 
             \/ n = Receive([k EXCEPT !.replay = rest], r)
             \/ n = Receive([k EXCEPT !.queue = rest], r)
      PROVE  \E s \in Nat : s > k.last /\ n.last = s /\ n.got = k.got \cup {s}
  <2>1. r.sequence \in Nat
    BY DEF Rows
  <2>2. n.last = r.sequence /\ n.got = k.got \cup {r.sequence}
    BY <1>2 DEF Receive, Disconnected, Connection
  <2> QED
    BY <1>2, <2>1, <2>2
<1>3. CASE k.replay # <<>> /\ n = Receive([k EXCEPT !.replay = Tail(@)], Head(k.replay))
  BY <1>1, <1>2, <1>3, HeadOrTail DEF Steady
<1>4. CASE /\ k.queue # <<>> /\ ~(Head(k.queue).sequence <= k.last)
           /\ n = Receive([k EXCEPT !.queue = Tail(@)], Head(k.queue))
  <2>1. Head(k.queue) \in Rows
    BY <1>1, <1>4
  <2>2. Head(k.queue).sequence \in Nat
    BY <2>1 DEF Rows
  <2>3. Head(k.queue).sequence > k.last
    BY <1>1, <1>4, <2>2
  <2> QED
    BY <1>2, <1>4, <2>1, <2>3
<1>5. CASE \/ n = k
           \/ n = [k EXCEPT !.pc = "opened", !.opened = @ + 1, !.ended = ended]
           \/ n = [k EXCEPT !.pc = "subscribed"]
           \/ n = [k EXCEPT !.pc = "live"]
           \/ n = [k EXCEPT !.queue = Tail(@)]
           \/ n = [k EXCEPT !.queue = Append(@, Head(pending))]
           \/ n = [k EXCEPT !.missed = @ \cup {Head(pending).sequence}]
           \/ n = Disconnected(k, "away")
           \/ n = [k EXCEPT !.pc = "replaying", !.replay = ReplayAfter(k.last),
                            !.missed = Sequences(After(k.last))
                                         \ Sequences(Range(ReplayAfter(k.last)))]
  BY <1>5 DEF Disconnected, Connection
<1> QED
  BY <1>3, <1>4, <1>5 DEF Moves

\* A frame taken from the front leaves the rest after the cursor and in order.
LEMMA MovesSteady ==
  ASSUME StreamInvariant, NEW k \in Connection, Steady(k), NEW n, Moves(k, n)
  PROVE  Steady(n)
<1>1. /\ k.last \in Nat /\ k.got \in SUBSET Nat
      /\ k.replay \in Seq(Rows) /\ k.queue \in Seq(Rows)
  BY DEF Connection
<1>2. /\ \A s \in k.got : s <= k.last
      /\ \A r \in Range(k.replay) : r.sequence > k.last
      /\ Ordered(k.replay)
      /\ k.pc # "replaying" => k.replay = <<>>
  BY DEF Steady
<1>3. Ordered(<<>>) /\ Range(<<>>) = {}
  BY DEF Ordered, Range
<1>4. \/ n.got = k.got /\ n.last = k.last
      \/ \E s \in Nat : s > k.last /\ n.last = s /\ n.got = k.got \cup {s}
  BY FramesForward
<1>5. \A s \in n.got : s <= n.last
  BY <1>1, <1>2, <1>4
<1>6. CASE k.replay # <<>> /\ k.pc = "replaying"
             /\ n = Receive([k EXCEPT !.replay = Tail(@)], Head(k.replay))
  <2>1. /\ n.last = Head(k.replay).sequence
        /\ n.replay = Tail(k.replay) \/ n.replay = <<>>
        /\ n.pc = "replaying" \/ n.replay = <<>>
    BY <1>6 DEF Receive, Disconnected, Connection
  <2>2. Ordered(Tail(k.replay)) /\ \A r \in Range(Tail(k.replay)) : r.sequence > n.last
    BY <1>1, <1>2, <1>6, <2>1, OrderedTail
  <2> QED
    BY <1>3, <1>5, <2>1, <2>2 DEF Steady
<1>7. CASE n.replay = <<>>
  BY <1>3, <1>5, <1>7 DEF Steady
<1>8. CASE n.replay = k.replay /\ n.pc = k.pc /\ n.last = k.last
  BY <1>2, <1>5, <1>8 DEF Steady
<1>9. CASE n = [k EXCEPT !.pc = "replaying", !.replay = ReplayAfter(k.last),
                         !.missed = Sequences(After(k.last))
                                      \ Sequences(Range(ReplayAfter(k.last)))]
  <2>1. n.replay = ReplayAfter(k.last) /\ n.pc = "replaying" /\ n.last = k.last
    BY <1>9 DEF Connection
  <2>2. ReplayAfter(k.last) \in Seq(After(k.last)) /\ Ordered(ReplayAfter(k.last))
    BY <1>1, ReplayInOrder DEF StreamInvariant, LogInvariant
  <2>3. \A r \in Range(ReplayAfter(k.last)) : r \in After(k.last)
    BY <2>2 DEF Range
  <2> QED
    BY <1>5, <2>1, <2>2, <2>3 DEF Steady, After
<1>10. CASE \/ n = k
            \/ n = [k EXCEPT !.queue = Tail(@)]
            \/ n = [k EXCEPT !.queue = Append(@, Head(pending))]
            \/ n = [k EXCEPT !.missed = @ \cup {Head(pending).sequence}]
  <2>1. n.replay = k.replay /\ n.pc = k.pc /\ n.last = k.last
    BY <1>10 DEF Connection
  <2> QED
    BY <1>8, <2>1
<1>11. CASE \/ /\ k.pc = "away"
               /\ n = [k EXCEPT !.pc = "opened", !.opened = @ + 1, !.ended = ended]
            \/ k.pc = "opened" /\ n = [k EXCEPT !.pc = "subscribed"]
            \/ k.replay = <<>> /\ n = [k EXCEPT !.pc = "live"]
            \/ n = Disconnected(k, "away")
            \/ k.pc = "live" /\ n = Receive([k EXCEPT !.queue = Tail(@)], Head(k.queue))
  <2>1. n.replay = <<>>
    BY <1>2, <1>11 DEF Connection, Receive, Disconnected
  <2> QED
    BY <1>7, <2>1
<1> QED
  BY <1>6, <1>9, <1>10, <1>11 DEF Moves

\* Only its own steps move a writer, unless the process dies.
LEMMA HandsStep ==
  ASSUME StreamInvariant, [Next]_vars
  PROVE  HandsCommitted'
<1>1. writer \in [Writers -> [pc : WriterPcs, next : Nat, max : Nat, tries : Nat]]
  BY DEF StreamInvariant, TypeOK
<1>2. \A w \in Writers : /\ writer[w].next > 0
                         /\ writer[w].pc \in {"read", "committed"} => Pending(w)
                         /\ writer[w].pc = "committed" => Hand(w) \in rows
  BY DEF StreamInvariant, HandsCommitted
<1>3. rows \subseteq rows'
  BY LogSteps DEF StreamInvariant
<1>4. CASE writer' = writer
  BY <1>2, <1>3, <1>4 DEF HandsCommitted, Hand, Kind, Pending
<1>5. ASSUME NEW w \in Writers, NEW n,
             writer' = [writer EXCEPT ![w] = n],
             n.next > 0,
             n.pc \in {"read", "committed"} => n.next <= Len(Script[w]),
             n.pc = "committed" =>
               [sequence |-> n.max + 1, kind |-> Script[w][n.next]] \in rows'
      PROVE  HandsCommitted'
  <2>1. writer'[w] = n /\ \A v \in Writers : v # w => writer'[v] = writer[v]
    BY <1>1, <1>5
  <2>2. ASSUME NEW v \in Writers, v # w
        PROVE  /\ writer'[v].next > 0
               /\ writer'[v].pc \in {"read", "committed"} => Pending(v)'
               /\ writer'[v].pc = "committed" => Hand(v)' \in rows'
    BY <1>2, <1>3, <2>1, <2>2 DEF Hand, Kind, Pending
  <2>3. /\ writer'[w].next > 0
        /\ writer'[w].pc \in {"read", "committed"} => Pending(w)'
        /\ writer'[w].pc = "committed" => Hand(w)' \in rows'
    BY <1>5, <2>1 DEF Hand, Kind, Pending
  <2> QED
    BY <2>2, <2>3 DEF HandsCommitted
<1>6. ASSUME NEW w \in Writers, Record(w) PROVE HandsCommitted'
  <2>0. writer[w].next \in Nat /\ writer[w].next + 1 > 0
    BY <1>1, <1>2
  <2>1. CASE EndRun(w)
    BY <1>4, <2>1 DEF EndRun
  <2>2. CASE ReadMax(w)
    <3> DEFINE n == [writer[w] EXCEPT !.pc = "read", !.max = LastSequence]
    <3>1. writer' = [writer EXCEPT ![w] = n]
      BY <2>2 DEF ReadMax
    <3>2. n.pc = "read" /\ n.next = writer[w].next
      BY <1>1
    <3>3. n.next <= Len(Script[w])
      BY <2>2, <3>2 DEF ReadMax, Pending
    <3> HIDE DEF n
    <3> QED
      BY <1>2, <1>5, <3>1, <3>2, <3>3
  <2>3. CASE Insert(w)
    <3> DEFINE n == [writer[w] EXCEPT !.pc = "committed"]
    <3>1. writer' = [writer EXCEPT ![w] = n]
      BY <2>3 DEF Insert
    <3>2. n.pc = "committed" /\ n.next = writer[w].next /\ n.max = writer[w].max
      BY <1>1
    <3>3. n.next <= Len(Script[w])
      BY <1>2, <2>3, <3>2 DEF Insert, Pending
    <3>4. [sequence |-> n.max + 1, kind |-> Script[w][n.next]] \in rows'
      BY <2>3, <3>2 DEF Insert, Kind
    <3> HIDE DEF n
    <3> QED
      BY <1>2, <1>5, <3>1, <3>2, <3>3, <3>4
  <2>4. CASE Conflict(w)
    <3>1. \/ writer' = [writer EXCEPT ![w] =
               [pc |-> "idle", next |-> writer[w].next + 1, max |-> 0, tries |-> 0]]
          \/ writer' = [writer EXCEPT ![w] =
               [pc |-> "read", next |-> writer[w].next, max |-> LastSequence,
                tries |-> writer[w].tries + 1]]
      BY <2>4 DEF Conflict
    <3>2. writer[w].next > 0 /\ writer[w].next <= Len(Script[w])
      BY <1>2, <2>4 DEF Conflict, Pending
    <3> QED
      BY <1>5, <2>0, <3>1, <3>2
  <2>5. CASE Publish(w)
    <3> DEFINE n == [pc |-> "idle", next |-> writer[w].next + 1, max |-> 0, tries |-> 0]
    <3>1. writer' = [writer EXCEPT ![w] = n]
      BY <2>5 DEF Publish
    <3>2. n.pc = "idle" /\ n.next > 0
      BY <2>0
    <3> HIDE DEF n
    <3> QED
      BY <1>5, <3>1, <3>2
  <2> QED
    BY <1>6, <2>1, <2>2, <2>3, <2>4, <2>5 DEF Record
<1>7. CASE Restart
  <2>1. writer' = [w \in Writers |-> [writer[w] EXCEPT !.pc = "dead"]]
    BY <1>7 DEF Restart
  <2>2. \A w \in Writers : writer'[w].pc = "dead" /\ writer'[w].next = writer[w].next
    BY <1>1, <2>1
  <2> QED
    BY <1>2, <2>2 DEF HandsCommitted
<1>8. ASSUME NEW c \in Clients, Open(c) \/ Serve(c) \/ Drop(c) PROVE writer' = writer
  BY <1>8 DEF Open, Serve, Drop, Subscribe, ReadReplay, SendReplay, GoLive, Deliver
<1>9. Broadcast \/ Idle \/ UNCHANGED vars => writer' = writer
  BY DEF Broadcast, Idle, vars
<1> QED
  BY <1>4, <1>6, <1>7, <1>8, <1>9 DEF Next

\* Where NothingFallsBetween looks for a row that connection k has not sent.
InHand(r) == \E w \in Writers : writer[w].pc = "committed" /\ writer[w].max + 1 = r.sequence

Covered(k, r) ==
  \/ r \in Range(k.replay) \cup Range(k.queue) \cup Range(pending)
  \/ InHand(r)
  \/ r.sequence \in k.missed

\* A row taken from the front of the replay or the queue is the one the cursor
\* moves to, or was not past it; every other row stays where it was.
LEMMA MovesCover ==
  ASSUME StreamInvariant, NEW k \in Connection, Steady(k), NEW n, Moves(k, n),
         k.pc \in {"replaying", "live"} => \A r \in After(k.last) : Covered(k, r),
         n.pc \in {"replaying", "live"},
         NEW r \in After(n.last)
  PROVE  Covered(n, r)
<1>1. /\ k.last \in Nat /\ k.replay \in Seq(Rows) /\ k.queue \in Seq(Rows)
      /\ rows \subseteq Rows
  BY DEF Connection, StreamInvariant, TypeOK
<1>2. /\ \A q \in Range(k.replay) : q.sequence > k.last
      /\ Ordered(k.replay)
      /\ k.pc # "replaying" => k.replay = <<>>
  BY DEF Steady
<1>3. r \in rows /\ r \in Rows /\ r.sequence \in Nat /\ r.sequence > n.last
  BY <1>1 DEF After, Rows
<1>4. n.last \in Nat /\ n.last >= k.last
  BY <1>1, FramesForward
<1>5. r \in After(k.last)
  BY <1>1, <1>3, <1>4 DEF After
<1>6. CASE /\ k.pc = "replaying" /\ k.replay # <<>>
           /\ n = Receive([k EXCEPT !.replay = Tail(@)], Head(k.replay))
  <2>1. /\ n.last = Head(k.replay).sequence /\ n.replay = Tail(k.replay)
        /\ n.queue = k.queue /\ n.missed = k.missed
    BY <1>6 DEF Receive, Disconnected, Connection
  <2>2. r # Head(k.replay)
    BY <1>3, <2>1
  <2>3. r \in Range(k.replay) => r \in Range(Tail(k.replay))
    BY <1>1, <1>6, <2>2, HeadOrTail
  <2> QED
    BY <1>5, <1>6, <2>1, <2>3 DEF Covered
<1>7. CASE /\ k.pc = "live" /\ k.queue # <<>>
           /\ \/ /\ Head(k.queue).sequence <= k.last
                 /\ n = [k EXCEPT !.queue = Tail(@)]
              \/ n = Receive([k EXCEPT !.queue = Tail(@)], Head(k.queue))
  <2>1. /\ n.queue = Tail(k.queue) /\ n.replay = k.replay /\ n.missed = k.missed
        /\ \/ n.last = Head(k.queue).sequence
           \/ n.last = k.last /\ Head(k.queue).sequence <= k.last
    BY <1>7 DEF Receive, Disconnected, Connection
  <2>2. r # Head(k.queue)
    BY <1>1, <1>3, <2>1
  <2>3. r \in Range(k.queue) => r \in Range(Tail(k.queue))
    BY <1>1, <1>7, <2>2, HeadOrTail
  <2> QED
    BY <1>5, <1>7, <2>1, <2>3 DEF Covered
<1>8. CASE n = [k EXCEPT !.pc = "replaying", !.replay = ReplayAfter(k.last),
                         !.missed = Sequences(After(k.last))
                                      \ Sequences(Range(ReplayAfter(k.last)))]
  <2>1. /\ n.replay = ReplayAfter(k.last)
        /\ n.missed = Sequences(After(k.last)) \ Sequences(Range(ReplayAfter(k.last)))
    BY <1>8 DEF Connection
  <2>2. r.sequence \in Sequences(After(k.last))
    BY <1>5 DEF Sequences
  <2>3. CASE r.sequence \in Sequences(Range(ReplayAfter(k.last)))
    <3>1. PICK q \in Range(ReplayAfter(k.last)) : q.sequence = r.sequence
      BY <2>3 DEF Sequences
    <3>2. ReplayAfter(k.last) \in Seq(After(k.last))
      BY <1>1, ReplayInOrder DEF StreamInvariant, LogInvariant
    <3>3. q \in rows
      BY <3>1, <3>2 DEF Range, After
    <3>4. q = r
      BY <1>3, <3>1, <3>3 DEF StreamInvariant, LogInvariant, SequencesContiguous
    <3> QED
      BY <2>1, <3>1, <3>4 DEF Covered
  <2> QED
    BY <2>1, <2>2, <2>3 DEF Covered
<1>9. CASE n = k \/ (k.pc = "replaying" /\ n = [k EXCEPT !.pc = "live"])
  <2>1. /\ n.replay = k.replay /\ n.queue = k.queue /\ n.missed = k.missed
        /\ k.pc \in {"replaying", "live"}
    BY <1>9 DEF Connection
  <2> QED
    BY <1>5, <2>1 DEF Covered
<1>10. CASE /\ pending # <<>>
            /\ \/ n = [k EXCEPT !.queue = Append(@, Head(pending))]
               \/ n = [k EXCEPT !.missed = @ \cup {Head(pending).sequence}]
  <2>1. Head(pending) \in Rows
    BY <1>10 DEF StreamInvariant, TypeOK
  <2>2. /\ n.replay = k.replay /\ k.missed \subseteq n.missed
        /\ n.queue = k.queue \/ n.queue = Append(k.queue, Head(pending))
        /\ k.pc \in {"replaying", "live"}
    BY <1>10 DEF Connection
  <2>3. r \in Range(k.queue) => r \in Range(n.queue)
    BY <1>1, <2>1, <2>2, AppendedRange
  <2> QED
    BY <1>5, <2>2, <2>3 DEF Covered
<1>11. ~(\/ n = [k EXCEPT !.pc = "opened", !.opened = @ + 1, !.ended = ended]
         \/ n = [k EXCEPT !.pc = "subscribed"]
         \/ n = Disconnected(k, "away"))
  BY DEF Connection, Disconnected
<1> QED
  BY <1>6, <1>7, <1>8, <1>9, <1>10, <1>11 DEF Moves

\* The steps between the places: the row a writer inserts is in its hand, the
\* one it publishes is scheduled, the one that is broadcast is queued or missed.
LEMMA NothingFallsStep ==
  ASSUME StreamInvariant, [Next]_vars
  PROVE  NothingFallsBetween'
<1>1. /\ writer \in [Writers -> [pc : WriterPcs, next : Nat, max : Nat, tries : Nat]]
      /\ client \in [Clients -> Connection] /\ pending \in Seq(Rows) /\ rows \subseteq Rows
  BY DEF StreamInvariant, TypeOK, Connection
<1>2. SUFFICES ASSUME NEW c \in Clients, client'[c].pc \in {"replaying", "live"},
                      NEW r \in rows', r.sequence > client'[c].last
               PROVE  \/ r \in Range(client'[c].replay) \cup Range(client'[c].queue)
                                 \cup Range(pending')
                      \/ InHand(r)'
                      \/ r.sequence \in client'[c].missed
  BY DEF NothingFallsBetween, After, InHand
<1> DEFINE Goal == \/ r \in Range(client'[c].replay) \cup Range(client'[c].queue)
                              \cup Range(pending')
                   \/ InHand(r)'
                   \/ r.sequence \in client'[c].missed
<1>3. client[c].pc \in {"replaying", "live"} =>
        \A q \in After(client[c].last) : Covered(client[c], q)
  BY DEF StreamInvariant, NothingFallsBetween, Covered, InHand
<1>4. Steady(client[c]) /\ client[c] \in Connection /\ Moves(client[c], client'[c])
  BY <1>1, ConnectionsMove DEF StreamInvariant
<1>5. r \in rows => Covered(client'[c], r)
  <2> SUFFICES ASSUME r \in rows PROVE Covered(client'[c], r)
    OBVIOUS
  <2>1. r \in After(client'[c].last)
    BY <1>2 DEF After
  <2> QED
    BY <1>2, <1>3, <1>4, <2>1, MovesCover
<1>6. ASSUME NEW w \in Writers, Record(w) PROVE Goal
  <2>1. CASE EndRun(w) \/ ReadMax(w) \/ Conflict(w)
    <3>1. rows' = rows /\ pending' = pending /\ client' = client /\ writer[w].pc # "committed"
      BY <2>1 DEF EndRun, ReadMax, Conflict
    <3>2. \A v \in Writers : v # w => writer'[v] = writer[v]
      BY <1>1, <2>1 DEF EndRun, ReadMax, Conflict
    <3>3. InHand(r) => InHand(r)'
      BY <3>1, <3>2 DEF InHand
    <3> QED
      BY <1>5, <3>1, <3>3 DEF Covered
  <2>2. CASE Insert(w)
    <3> DEFINE new == [sequence |-> writer[w].max + 1, kind |-> Kind(w)]
    <3>1. pending' = pending /\ client' = client /\ writer[w].pc = "read"
          /\ rows' = rows \cup {new}
      BY <2>2 DEF Insert
    <3>2. /\ \A v \in Writers : v # w => writer'[v] = writer[v]
          /\ writer'[w].pc = "committed" /\ writer'[w].max = writer[w].max
      BY <1>1, <2>2 DEF Insert
    <3>3. InHand(r) => InHand(r)'
      BY <3>1, <3>2 DEF InHand
    <3>4. CASE r \in rows
      BY <1>5, <3>1, <3>3, <3>4 DEF Covered
    <3>5. CASE r = new
      <4>1. r.sequence = writer'[w].max + 1
        BY <3>2, <3>5
      <4> QED
        BY <3>2, <4>1 DEF InHand
    <3> QED
      BY <3>1, <3>4, <3>5
  <2>3. CASE Publish(w)
    <3>1. /\ rows' = rows /\ client' = client /\ writer[w].pc = "committed"
          /\ pending' = Append(pending, Hand(w))
      BY <2>3 DEF Publish, Hand
    <3>2. \A v \in Writers : v # w => writer'[v] = writer[v]
      BY <1>1, <2>3 DEF Publish
    <3>3. Hand(w) \in Rows /\ Hand(w) \in rows
      BY <3>1, HandTyped DEF StreamInvariant, HandsCommitted
    <3>4. /\ Hand(w) \in Range(pending')
          /\ \A q \in Range(pending) : q \in Range(pending')
      BY <1>1, <3>1, <3>3, AppendedRange
    <3>5. ASSUME InHand(r) PROVE InHand(r)' \/ r \in Range(pending')
      <4>1. PICK v \in Writers : writer[v].pc = "committed" /\ writer[v].max + 1 = r.sequence
        BY <3>5 DEF InHand
      <4>2. CASE v # w
        BY <3>2, <4>1, <4>2 DEF InHand
      <4>3. CASE v = w
        <5>1. Hand(w).sequence = r.sequence
          BY <4>1, <4>3 DEF Hand
        <5>2. Hand(w) = r
          BY <3>1, <3>3, <5>1 DEF StreamInvariant, LogInvariant, SequencesContiguous
        <5> QED
          BY <3>4, <5>2
      <4> QED
        BY <4>2, <4>3
    <3> QED
      BY <1>5, <3>1, <3>4, <3>5 DEF Covered
  <2> QED
    BY <1>6, <2>1, <2>2, <2>3 DEF Record
<1>7. CASE Broadcast
  <2>1. /\ pending # <<>> /\ pending' = Tail(pending) /\ rows' = rows /\ writer' = writer
        /\ client' = [d \in Clients |->
             IF ~Subscribed(d) THEN client[d]
             ELSE IF Len(client[d].queue) < QueueSize
             THEN [client[d] EXCEPT !.queue = Append(@, Head(pending))]
             ELSE [client[d] EXCEPT !.missed = @ \cup {Head(pending).sequence}]]
    BY <1>7 DEF Broadcast
  <2>2. Subscribed(c)
    BY <1>2, <2>1 DEF Subscribed
  <2>3. \/ client'[c] = [client[c] EXCEPT !.queue = Append(@, Head(pending))]
        \/ client'[c] = [client[c] EXCEPT !.missed = @ \cup {Head(pending).sequence}]
    BY <2>1, <2>2
  <2>4. /\ Head(pending) \in Rows
        /\ \A q \in Range(pending) : q = Head(pending) \/ q \in Range(pending')
    BY <1>1, <2>1, HeadOrTail
  <2>5. CASE r = Head(pending)
    <3>1. client[c].queue \in Seq(Rows)
      BY <1>4 DEF Connection
    <3>2. Head(pending) \in Range(Append(client[c].queue, Head(pending)))
      BY <2>4, <3>1, AppendedRange
    <3> QED
      BY <1>4, <2>3, <2>5, <3>2 DEF Connection
  <2>6. InHand(r) => InHand(r)'
    BY <2>1 DEF InHand
  <2> QED
    BY <1>5, <2>1, <2>4, <2>5, <2>6 DEF Covered
<1>8. CASE rows' = rows /\ pending' = pending /\ writer' = writer
  <2>1. InHand(r) => InHand(r)'
    BY <1>8 DEF InHand
  <2> QED
    BY <1>5, <1>8, <2>1 DEF Covered
<1>9. ASSUME NEW d \in Clients, Open(d) \/ Serve(d) \/ Drop(d)
      PROVE  rows' = rows /\ pending' = pending /\ writer' = writer
  BY <1>9 DEF Open, Serve, Drop, Subscribe, ReadReplay, SendReplay, GoLive, Deliver
<1>10. Idle \/ UNCHANGED vars => rows' = rows /\ pending' = pending /\ writer' = writer
  BY DEF Idle, vars
<1>11. ~Restart
  <2>1. SUFFICES ASSUME Restart PROVE FALSE
    OBVIOUS
  <2>2. \/ client'[c] = client[c] /\ client[c].pc = "finished"
        \/ client'[c] = Disconnected(client[c], "away")
    BY <2>1 DEF Restart
  <2> QED
    BY <1>2, <1>4, <2>2 DEF Disconnected, Connection
<1> QED
  BY <1>6, <1>7, <1>8, <1>9, <1>10, <1>11 DEF Next

\* No step leaves the declared types.
LEMMA StreamTypes ==
  ASSUME StreamInvariant, [Next]_vars
  PROVE  TypeOK'
<1>1. /\ rows \subseteq Rows /\ ended \in BOOLEAN /\ pending \in Seq(Rows)
      /\ client \in [Clients -> Connection] /\ restarts \in Nat
      /\ writer \in [Writers -> [pc : WriterPcs, next : Nat, max : Nat, tries : Nat]]
      /\ LastSequence \in Nat
  BY DEF StreamInvariant, TypeOK, LogInvariant, Connection
<1>2. client' \in [Clients -> Connection]
  <2>1. \A c \in Clients : client'[c] \in Connection
    BY <1>1, ConnectionsMove, MovesTyped
  <2> QED
    BY <2>1, ConnectionsMove
<1>3. writer' \in [Writers -> [pc : WriterPcs, next : Nat, max : Nat, tries : Nat]]
  BY ReadingsStep DEF StreamInvariant
<1>4. rows' \subseteq Rows /\ pending' \in Seq(Rows) /\ ended' \in BOOLEAN /\ restarts' \in Nat
  <2>1. ASSUME NEW w \in Writers, Insert(w)
        PROVE  rows' \subseteq Rows /\ UNCHANGED <<ended, pending, restarts>>
    BY <1>1, <2>1, HandTyped DEF Insert, Hand
  <2>2. ASSUME NEW w \in Writers, Publish(w)
        PROVE  pending' \in Seq(Rows) /\ UNCHANGED <<rows, ended, restarts>>
    BY <1>1, <2>2, HandTyped DEF Publish, Hand
  <2>3. ASSUME NEW w \in Writers, EndRun(w) \/ ReadMax(w) \/ Conflict(w)
        PROVE  ended' \in BOOLEAN /\ UNCHANGED <<rows, pending, restarts>>
    BY <1>1, <2>3 DEF EndRun, ReadMax, Conflict
  <2>4. ASSUME NEW c \in Clients, Open(c) \/ Serve(c) \/ Drop(c)
        PROVE  UNCHANGED <<rows, ended, pending, restarts>>
    BY <2>4 DEF Open, Serve, Drop, Subscribe, ReadReplay, SendReplay, GoLive, Deliver
  <2>5. CASE Broadcast
    BY <1>1, <2>5 DEF Broadcast
  <2>6. CASE Restart
    <3>1. [sequence |-> LastSequence + 1, kind |-> "terminal"] \in Rows
      BY <1>1 DEF Rows, Kinds
    <3>2. rows' \subseteq Rows
      BY <1>1, <2>6, <3>1 DEF Restart
    <3>3. <<>> \in Seq(Rows) /\ restarts + 1 \in Nat
      BY <1>1
    <3> QED
      BY <2>6, <3>2, <3>3 DEF Restart
  <2>7. Idle \/ UNCHANGED vars => UNCHANGED <<rows, ended, pending, restarts>>
    BY DEF Idle, vars
  <2> QED
    BY <1>1, <2>1, <2>2, <2>3, <2>4, <2>5, <2>6, <2>7 DEF Next, Record
<1> QED
  BY <1>2, <1>3, <1>4 DEF TypeOK, Connection

\* A run that has recorded nothing and that nobody follows, and what every step
\* of it keeps.
THEOREM StreamSafe == Spec => []StreamInvariant
<1>1. Init /\ LogInvariant => StreamInvariant
  <2> SUFFICES ASSUME Init, LogInvariant PROVE StreamInvariant
    OBVIOUS
  <2>1. <<>> \in Seq(Rows) /\ {} \in SUBSET Nat /\ Range(<<>>) = {} /\ Ordered(<<>>)
    BY DEF Range, Ordered
  <2>2. TypeOK
    BY <2>1 DEF Init, TypeOK, WriterPcs, ClientPcs
  <2>3. \A c \in Clients : Steady(client[c]) /\ client[c].pc = "away"
    BY <2>1 DEF Init, Steady
  <2>4. HandsCommitted
    BY DEF Init, HandsCommitted
  <2> QED
    BY <2>2, <2>3, <2>4 DEF StreamInvariant, NothingFallsBetween
<1>2. StreamInvariant /\ [Next]_vars => StreamInvariant'
  <2> SUFFICES ASSUME StreamInvariant, [Next]_vars PROVE StreamInvariant'
    OBVIOUS
  <2>1. LogInvariant'
    BY LogInvariantStep DEF StreamInvariant
  <2>2. \A c \in Clients : Steady(client'[c])
    <3> TAKE c \in Clients
    <3>1. Steady(client[c]) /\ client[c] \in Connection
      BY DEF StreamInvariant, TypeOK, Connection
    <3> QED
      BY <3>1, ConnectionsMove, MovesSteady
  <2>3. \A c \in Clients : Steady(client[c])'
    BY <2>2 DEF Steady
  <2> QED
    BY <2>1, <2>3, StreamTypes, HandsStep, NothingFallsStep DEF StreamInvariant
<1> QED
  BY <1>1, <1>2, LogSafe, PTL DEF Spec

\* The log, its writers and the connections stay what TypeOK says.
THEOREM StreamTyped == Spec => []TypeOK
BY StreamSafe, PTL DEF StreamInvariant

\* Whatever writers, event loop and restarts do, a committed row past the cursor
\* of a browser that is served has not fallen between its replay and its queue.
THEOREM NoGap == Spec => []NothingFallsBetween
BY StreamSafe, PTL DEF StreamInvariant

\* No browser, however often it reconnects, is shown an event twice or one that
\* comes before another it has seen.
THEOREM FramesInOrder == Spec => FramesIncrease
<1> DEFINE Forward ==
      \A c \in Clients :
        /\ \A s \in client'[c].got \ client[c].got : s > client[c].last
        /\ client'[c].last # client[c].last =>
             client'[c].got \ client[c].got = {client'[c].last}
<1>1. StreamInvariant /\ [Next]_vars => Forward
  <2> SUFFICES ASSUME StreamInvariant, [Next]_vars, NEW c \in Clients
               PROVE  /\ \A s \in client'[c].got \ client[c].got : s > client[c].last
                      /\ client'[c].last # client[c].last =>
                           client'[c].got \ client[c].got = {client'[c].last}
    OBVIOUS
  <2>1. Steady(client[c]) /\ client[c] \in Connection /\ Moves(client[c], client'[c])
    BY ConnectionsMove DEF StreamInvariant, TypeOK, Connection
  <2>2. client[c].last \in Nat /\ \A s \in client[c].got : s <= client[c].last
    BY <2>1 DEF Steady, Connection
  <2>3. \/ client'[c].got = client[c].got /\ client'[c].last = client[c].last
        \/ \E s \in Nat : /\ s > client[c].last /\ client'[c].last = s
                          /\ client'[c].got = client[c].got \cup {s}
    BY <2>1, FramesForward
  <2> QED
    BY <2>2, <2>3
<1> QED
  BY <1>1, StreamSafe, PTL DEF Spec, FramesIncrease
=============================================================================
