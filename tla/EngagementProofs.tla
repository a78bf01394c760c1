-------------------------- MODULE EngagementProofs --------------------------
(***************************************************************************)
(* Proofs about Engagement for any number of handlers and requests and any *)
(* terms, quotes and bound: the type invariant, that the negotiation       *)
(* commits to nothing of its own accord, and that a linked request is      *)
(* stale.                                                                  *)
(***************************************************************************)
EXTENDS Engagement, TLAPS

-----------------------------------------------------------------------------
(* Rows and patches *)

IsRow(f) ==
  /\ f = [c \in Columns |-> f[c]]
  /\ \A c \in Columns : f[c] \in Kinds[c]

IsPatch(p) ==
  /\ p = [c \in Columns |-> p[c]]
  /\ \A c \in Columns : p[c] \in Kinds[c] \cup {Keep}

\* The columns of an engagement.
LEMMA ColumnNames ==
  Columns = {"neg", "status", "control", "terms", "quoted", "round", "link"}
BY DEF Columns, Kinds

\* What each column may hold.
LEMMA KindsOf ==
  /\ Kinds["neg"] = Negotiations
  /\ Kinds["status"] = {"REQUESTED", "CONFIRMED", "CANCELLED", "REPLACED"}
  /\ Kinds["control"] = {"AGENT", "HUMAN"}
  /\ Kinds["terms"] = Terms \cup {Untold}
  /\ Kinds["quoted"] = Quotes \cup {None}
  /\ Kinds["round"] = 0 .. MaxRound
  /\ Kinds["link"] = Requests \cup {NoRequest}
BY DEF Kinds

\* What is assigned to one column of a row leaves a row.
LEMMA Assigned ==
  ASSUME NEW f, IsRow(f), NEW c \in Columns, NEW v \in Kinds[c]
  PROVE  /\ IsRow([f EXCEPT ![c] = v])
         /\ [f EXCEPT ![c] = v][c] = v
         /\ \A d \in Columns \ {c} : [f EXCEPT ![c] = v][d] = f[d]
BY DEF IsRow

\* A patch holds Keep or what is new, the latter only where it differs from what
\* was loaded or is assigned blindly.
LEMMA PatchShape ==
  ASSUME NEW new, IsRow(new), NEW blind
  PROVE  /\ IsPatch(Patch(new, blind))
         /\ \A c \in Columns : Patch(new, blind)[c] # Keep =>
              /\ Patch(new, blind)[c] = new[c]
              /\ new[c] # row[c] \/ c \in blind
BY DEF IsRow, IsPatch, Patch

\* Writing a patch to a row gives a row.
LEMMA FlushedShape ==
  ASSUME IsRow(row), NEW p, IsPatch(p)
  PROVE  /\ IsRow(Flushed(p))
         /\ \A c \in Columns : Flushed(p)[c] = IF p[c] = Keep THEN row[c] ELSE p[c]
BY DEF IsRow, IsPatch, Flushed

\* The empty patch is a patch.
LEMMA NothingShape == IsPatch(Nothing) /\ \A c \in Columns : Nothing[c] = Keep
BY DEF IsPatch, Nothing

-----------------------------------------------------------------------------
(* Types *)

RequestKinds == [status   : {"ABSENT", "PENDING", "STALE", "APPROVED"},
                 fresh    : BOOLEAN,
                 executed : BOOLEAN]

SlotKinds == [pc    : Pcs,
              stamp : BOOLEAN,
              reply : Replies,
              about : Requests \cup {NoRequest}]

\* The type invariant, table by table.
PatchesTyped ==
  /\ patch = [s \in Slots |-> patch[s]]
  /\ \A s \in Slots : IsPatch(patch[s])

\* Type correctness in the form the proofs use.
LEMMA Types ==
  TypeOK <=> /\ IsRow(row)
             /\ request \in [Requests -> RequestKinds]
             /\ slot \in [Slots -> SlotKinds]
             /\ PatchesTyped
BY DEF TypeOK, IsRow, IsPatch, PatchesTyped, RequestKinds, SlotKinds

\* ... and of the next state.
LEMMA TypesNext ==
  ASSUME IsRow(row'), request' \in [Requests -> RequestKinds],
         slot' \in [Slots -> SlotKinds], PatchesTyped'
  PROVE  TypeOK'
BY DEF TypeOK, IsRow, IsPatch, PatchesTyped, RequestKinds, SlotKinds

\* Requests that have aged are still requests.
LEMMA AgedShape ==
  ASSUME request \in [Requests -> RequestKinds]
  PROVE  /\ Aged \in [Requests -> RequestKinds]
         /\ \A r \in Requests : /\ Aged[r].status = request[r].status
                                /\ Aged[r].executed = request[r].executed
                                /\ ~Aged[r].fresh
BY DEF Aged, RequestKinds

\* A commit keeps the types.
LEMMA FlushTyped ==
  ASSUME TypeOK, NEW p, IsPatch(p), NEW stamp, Flush(p, stamp)
  PROVE  IsRow(row') /\ request' \in [Requests -> RequestKinds]
BY Types, AgedShape, FlushedShape DEF Flush

\* So does a handler that decides,
LEMMA DecideTyped ==
  ASSUME TypeOK, NEW s \in Slots, NEW pc \in Pcs, NEW p, IsPatch(p),
         NEW stamp \in BOOLEAN, Decide(s, pc, p, stamp)
  PROVE  slot' \in [Slots -> SlotKinds] /\ PatchesTyped'
<1>1. slot \in [Slots -> SlotKinds] /\ PatchesTyped
  BY Types
<1>2. slot' \in [Slots -> SlotKinds]
  <2>1. PICK b \in BOOLEAN : b = (stamp /\ p = Nothing)
    OBVIOUS
  <2>2. slot' = [slot EXCEPT ![s].pc = pc, ![s].stamp = b, ![s].reply = None]
    BY <2>1 DEF Decide
  <2>3. PICK g : g = [slot[s] EXCEPT !.pc = pc, !.stamp = b, !.reply = None]
    OBVIOUS
  <2>4. g \in SlotKinds
    BY <1>1, <2>3 DEF SlotKinds, Replies
  <2>5. slot' = [slot EXCEPT ![s] = g]
    BY <1>1, <2>2, <2>3
  <2> QED
    BY <1>1, <2>4, <2>5
<1> QED
  BY <1>1, <1>2 DEF Decide, PatchesTyped

\* one that goes on without a patch,
LEMMA GotoTyped ==
  ASSUME TypeOK, NEW s \in Slots, NEW pc \in Pcs,
         NEW about \in Requests \cup {NoRequest}, Goto(s, pc, about)
  PROVE  slot' \in [Slots -> SlotKinds] /\ PatchesTyped'
<1>1. slot \in [Slots -> SlotKinds] /\ PatchesTyped
  BY Types
<1>2. slot' \in [Slots -> SlotKinds]
  BY <1>1 DEF Goto, SlotKinds
<1> QED
  BY <1>1, <1>2, NothingShape DEF Goto, PatchesTyped

\* and one that ends.
LEMMA FreeTyped ==
  ASSUME TypeOK, NEW s \in Slots, Free(s)
  PROVE  slot' \in [Slots -> SlotKinds] /\ PatchesTyped'
<1>1. slot \in [Slots -> SlotKinds] /\ PatchesTyped
  BY Types
<1>2. slot' \in [Slots -> SlotKinds]
  BY <1>1 DEF Free, Idle, SlotKinds, Pcs, Replies
<1> QED
  BY <1>1, <1>2, NothingShape DEF Free, PatchesTyped

\* What a handler decides on is a row, so its patch is one of the row's columns.
LEMMA EditTyped ==
  ASSUME TypeOK, NEW s \in Slots, NEW new, IsRow(new), NEW stamp \in BOOLEAN,
         NEW pc \in {"editing", "binding", "contracting"}, EditAs(s, pc, new, stamp)
  PROVE  TypeOK'
<1>1. IsPatch(Patch(new, {}))
  BY PatchShape
<1>2. pc \in Pcs
  BY DEF Pcs
<1>3. slot' \in [Slots -> SlotKinds] /\ PatchesTyped'
  BY <1>1, <1>2, DecideTyped DEF EditAs
<1> QED
  BY <1>3, Types, TypesNext DEF EditAs

\* The rows that handlers decide on.
LEMMA NewRows ==
  ASSUME IsRow(row)
  PROVE  /\ \A n \in Negotiations : IsRow([row EXCEPT !.neg = n])
         /\ \A k \in Kinds["control"] : IsRow([row EXCEPT !.control = k])
         /\ \A t \in Terms : IsRow([row EXCEPT !.terms = t])
         /\ \A q \in Quotes : IsRow([row EXCEPT !.quoted = q])
         /\ \A q \in Quotes, n \in Negotiations :
              IsRow([row EXCEPT !.quoted = q, !.neg = n])
         /\ \A n \in Negotiations, u \in Kinds["status"] :
              IsRow([row EXCEPT !.neg = n, !.status = u])
         /\ \A k \in Kinds["control"], n \in Negotiations, u \in Kinds["status"] :
              IsRow([row EXCEPT !.control = k, !.neg = n, !.status = u])
         /\ \A u \in Kinds["status"] : IsRow([row EXCEPT !.status = u])
         /\ \A n \in Negotiations : row.round < MaxRound =>
              IsRow([row EXCEPT !.neg = n, !.round = @ + 1])
<1> USE Assigned, ColumnNames, KindsOf
<1>1. ASSUME NEW n \in Negotiations PROVE IsRow([row EXCEPT !.neg = n])
  OBVIOUS
<1>2. ASSUME NEW k \in Kinds["control"] PROVE IsRow([row EXCEPT !.control = k])
  OBVIOUS
<1>3. ASSUME NEW t \in Terms PROVE IsRow([row EXCEPT !.terms = t])
  OBVIOUS
<1>4. ASSUME NEW q \in Quotes PROVE IsRow([row EXCEPT !.quoted = q])
  OBVIOUS
<1>5. ASSUME NEW q \in Quotes, NEW n \in Negotiations
      PROVE  IsRow([row EXCEPT !.quoted = q, !.neg = n])
  BY <1>4
<1>6. ASSUME NEW n \in Negotiations, NEW u \in Kinds["status"]
      PROVE  IsRow([row EXCEPT !.neg = n, !.status = u])
  BY <1>1
<1>7. ASSUME NEW k \in Kinds["control"], NEW n \in Negotiations, NEW u \in Kinds["status"]
      PROVE  IsRow([row EXCEPT !.control = k, !.neg = n, !.status = u])
  <2>1. PICK f : f = [row EXCEPT !.control = k, !.neg = n]
    OBVIOUS
  <2>2. IsRow(f)
    BY <1>2, <2>1
  <2>3. IsRow([f EXCEPT !.status = u])
    BY <2>2
  <2> QED
    BY <2>1, <2>3, Zenon
<1>8. ASSUME NEW n \in Negotiations, row.round < MaxRound
      PROVE  IsRow([row EXCEPT !.neg = n, !.round = @ + 1])
  <2>1. PICK m \in Kinds["round"] : m = row.round + 1
    BY <1>8, BoundAssumption DEF IsRow
  <2>2. PICK f : f = [row EXCEPT !.neg = n]
    OBVIOUS
  <2>3. IsRow(f)
    BY <2>2
  <2>4. IsRow([f EXCEPT !.round = m])
    BY <2>3
  <2>5. [f EXCEPT !.round = m] = [row EXCEPT !.neg = n, !.round = @ + 1]
    BY <2>1, <2>2
  <2> QED
    BY <2>4, <2>5, Zenon
<1>9. ASSUME NEW u \in Kinds["status"] PROVE IsRow([row EXCEPT !.status = u])
  OBVIOUS
<1> QED
  BY <1>1, <1>2, <1>3, <1>4, <1>5, <1>6, <1>7, <1>8, <1>9

\* Whatever the provider said, the answer decided on keeps the types.
LEMMA ReadTyped ==
  ASSUME TypeOK, NEW s \in Slots, NEW o \in Replies, Read(s, o)
  PROVE  TypeOK'
<1> DEFINE asked == IF o \in Quotes THEN [row EXCEPT !.quoted = o] ELSE row
           answer(n) == Patch([asked EXCEPT !.neg = n],
                              IF o \in Quotes THEN {"quoted"} ELSE {})
<1>1. IsRow(row)
  BY Types
<1>2. /\ {"QUOTATION_RECEIVED", "NEGOTIATING", "AWAITING_APPROVAL", "DECLINED"}
           \subseteq Negotiations
      /\ {"editing", "filing"} \subseteq Pcs
  BY DEF Negotiations, Pcs
<1>3. IsRow(asked)
  BY <1>1, NewRows
<1>4. \A n \in Negotiations : IsRow([asked EXCEPT !.neg = n])
  <2> HIDE DEF asked
  <2> QED
    BY <1>3, Assigned, ColumnNames, KindsOf
<1>5. \A n \in Negotiations : IsPatch(answer(n))
  <2> HIDE DEF asked
  <2> QED
    BY <1>4, PatchShape
<1>6. IsPatch(Patch([row EXCEPT !.neg = "DECLINED"], {"neg"}))
  BY <1>1, <1>2, NewRows, PatchShape
<1>7. \/ Decide(s, "editing", Patch([row EXCEPT !.neg = "DECLINED"], {"neg"}), TRUE)
      \/ \E pc \in {"editing", "filing"}, n \in Negotiations : Decide(s, pc, answer(n), TRUE)
  BY <1>2 DEF Read
<1>8. slot' \in [Slots -> SlotKinds] /\ PatchesTyped'
  <2> HIDE DEF answer
  <2> QED
    BY <1>2, <1>5, <1>6, <1>7, DecideTyped
<1> QED
  BY <1>8, Types, TypesNext DEF Read

\* A handler of the negotiation that starts keeps the types.
LEMMA ConverseTyped ==
  ASSUME TypeOK, NEW s \in Slots, Converse(s)
  PROVE  TypeOK'
<1>1. /\ IsRow(row) /\ request \in [Requests -> RequestKinds]
      /\ slot \in [Slots -> SlotKinds] /\ PatchesTyped
  BY Types
<1>2. /\ {"DISCOVERED", "WAITING_FOR_RESPONSE", "QUOTATION_RECEIVED", "NEGOTIATING",
          "COUNTER_OFFER_SENT", "APPROVED", "CONFIRMED", "DECLINED"} \subseteq Negotiations
      /\ {"editing", "engaging", "hearing", "quoting", "voicing", "countering", "linking",
          "executing", "confirming"} \subseteq Pcs
  BY DEF Negotiations, Pcs
<1>3. ASSUME NEW t \in Terms, Engage(s, t)
      PROVE  TypeOK'
  <2>1. IsPatch(Patch([row EXCEPT !.terms = t], {}))
    BY <1>1, NewRows, PatchShape
  <2> QED
    BY <1>1, <1>2, <1>3, <2>1, DecideTyped, TypesNext DEF Engage
<1>4. CASE TakeOver(s) \/ Resume(s)
  BY <1>1, <1>4, KindsOf, NewRows, EditTyped DEF TakeOver, Resume, Edit
<1>5. CASE Cancel(s)
  BY <1>1, <1>2, <1>5, KindsOf, NewRows, EditTyped DEF Cancel, Edit
<1>6. CASE Decline(s)
  BY <1>1, <1>2, <1>6, KindsOf, NewRows, EditTyped DEF Decline, Edit
<1>7. CASE AwaitReply(s)
  BY <1>1, <1>2, <1>7, NewRows, EditTyped DEF AwaitReply, Edit
<1>8. ASSUME NEW o \in Replies, Reply(s, o)
      PROVE  TypeOK'
  BY <1>8, ReadTyped DEF Reply
<1>9. ASSUME NEW q \in Quotes, Quote(s, q)
      PROVE  TypeOK'
  <2>1. IsPatch(Patch([row EXCEPT !.quoted = q], {}))
    BY <1>1, NewRows, PatchShape
  <2>2. slot' \in [Slots -> SlotKinds]
    <3>1. PICK b \in BOOLEAN :
            slot' = [slot EXCEPT ![s].pc = "quoting", ![s].reply = q, ![s].stamp = b]
      BY <1>9 DEF Quote
    <3>2. q \in Replies /\ "quoting" \in Pcs
      BY <1>2 DEF Replies
    <3>3. PICK g : g = [slot[s] EXCEPT !.pc = "quoting", !.reply = q, !.stamp = b]
      OBVIOUS
    <3>4. g \in SlotKinds
      BY <1>1, <3>2, <3>3 DEF SlotKinds
    <3>5. slot' = [slot EXCEPT ![s] = g]
      BY <1>1, <3>1, <3>3
    <3> QED
      BY <1>1, <3>4, <3>5
  <2>3. PatchesTyped'
    BY <1>1, <1>9, <2>1 DEF Quote, PatchesTyped
  <2> QED
    BY <1>1, <1>9, <2>2, <2>3, TypesNext DEF Quote
<1>10. ASSUME NEW q \in Quotes, NEW t \in Terms \cup {Untold}, Voice(s, q, t)
       PROVE  TypeOK'
  <2>1. IsPatch(Patch([row EXCEPT !.quoted = q], {}))
    BY <1>1, NewRows, PatchShape
  <2>2. \A n \in Negotiations : IsPatch(Patch([row EXCEPT !.quoted = q, !.neg = n], {}))
    BY <1>1, NewRows, PatchShape
  <2>3. UNCHANGED <<row, request>>
    BY <1>10 DEF Voice
  <2>4. CASE \E pc \in Pcs, n \in Negotiations :
               Decide(s, pc, Patch([row EXCEPT !.quoted = q, !.neg = n], {}), FALSE)
    BY <1>1, <2>2, <2>3, <2>4, DecideTyped, TypesNext
  <2>5. CASE /\ slot' = [slot EXCEPT ![s].pc = "quoting", ![s].reply = q]
             /\ patch' = [patch EXCEPT ![s] = Patch([row EXCEPT !.quoted = q], {})]
    <3>1. slot' \in [Slots -> SlotKinds]
      BY <1>1, <1>2, <2>5 DEF SlotKinds, Replies
    <3>2. PatchesTyped'
      BY <1>1, <2>1, <2>5 DEF PatchesTyped
    <3> QED
      BY <1>1, <2>3, <3>1, <3>2, TypesNext
  <2> QED
    BY <1>2, <1>10, <2>4, <2>5 DEF Voice
<1>11. CASE Negotiate(s)
  <2>1. row.round < MaxRound => IsPatch(Patch([row EXCEPT !.neg = "COUNTER_OFFER_SENT",
                                                          !.round = @ + 1], {"neg", "round"}))
    BY <1>1, <1>2, NewRows, PatchShape
  <2> QED
    BY <1>1, <1>2, <1>11, <2>1, FreeTyped, DecideTyped, TypesNext DEF Negotiate
<1>12. ASSUME NEW r \in Requests, RequestApproval(s, r)
       PROVE  TypeOK'
  <2>1. request' \in [Requests -> RequestKinds]
    BY <1>1, <1>12 DEF RequestApproval, RequestKinds
  <2> QED
    BY <1>1, <1>2, <1>12, <2>1, GotoTyped, TypesNext DEF RequestApproval
<1>13. ASSUME NEW r \in Requests, Approve(s, r)
       PROVE  TypeOK'
  <2>1. IsPatch(Patch([row EXCEPT !.neg = "APPROVED"], {}))
    BY <1>1, <1>2, NewRows, PatchShape
  <2>2. request' \in [Requests -> RequestKinds]
    BY <1>1, <1>13 DEF Approve, RequestKinds
  <2>3. slot' \in [Slots -> SlotKinds]
    BY <1>1, <1>2, <1>13 DEF Approve, SlotKinds
  <2>4. PatchesTyped'
    BY <1>1, <1>13, <2>1 DEF Approve, PatchesTyped
  <2> QED
    BY <1>1, <1>13, <2>2, <2>3, <2>4, TypesNext DEF Approve
<1>14. CASE Confirm(s)
  <2>1. IsPatch(Patch([row EXCEPT !.neg = "CONFIRMED", !.status = "CONFIRMED"], {}))
    BY <1>1, <1>2, KindsOf, NewRows, PatchShape
  <2> QED
    BY <1>1, <1>2, <1>14, <2>1, DecideTyped, TypesNext DEF Confirm
<1> QED
  BY <1>3, <1>4, <1>5, <1>6, <1>7, <1>8, <1>9, <1>10, <1>11, <1>12, <1>13, <1>14 DEF Converse

\* So does one of the services beside it.
LEMMA BeginTyped ==
  ASSUME TypeOK, NEW s \in Slots, Begin(s)
  PROVE  TypeOK'
<1>1. IsRow(row)
  BY Types
<1>2. {"CONFIRMED", "REPLACED"} \subseteq Kinds["status"] /\ "APPROVED" \in Negotiations
  BY KindsOf DEF Negotiations
<1>3. /\ IsRow([row EXCEPT !.status = "CONFIRMED"])
      /\ IsRow([row EXCEPT !.status = "REPLACED"])
      /\ IsRow([row EXCEPT !.neg = "APPROVED", !.status = "CONFIRMED"])
  BY <1>1, <1>2, NewRows
<1>4. ASSUME NEW stamp \in BOOLEAN, Bind(s, stamp) \/ Contract(s, stamp)
      PROVE  TypeOK'
  BY <1>1, <1>3, <1>4, EditTyped DEF Bind, Contract
<1>5. CASE Replaced(s) \/ BindHeard(s)
  BY <1>1, <1>3, <1>5, EditTyped DEF Replaced, BindHeard, Edit
<1> QED
  BY <1>4, <1>5, ConverseTyped DEF Begin

\* A handler that goes on keeps the types.
LEMMA ContinueTyped ==
  ASSUME TypeOK, NEW s \in Slots, Continue(s)
  PROVE  TypeOK'
<1>1. /\ IsRow(row) /\ request \in [Requests -> RequestKinds]
      /\ slot \in [Slots -> SlotKinds] /\ PatchesTyped
  BY Types DEF Continue
<1>2. /\ {"CONTACTED", "QUOTATION_RECEIVED", "NEGOTIATING", "AWAITING_APPROVAL",
          "COUNTER_OFFER_SENT", "DECLINED"} \subseteq Negotiations
      /\ {"editing", "hearing", "calling", "filing", "linking", "marking",
          "countering"} \subseteq Pcs
  BY DEF Negotiations, Pcs
<1>3. /\ IsPatch(patch[s]) /\ slot[s].stamp \in BOOLEAN /\ slot[s].reply \in Replies
      /\ slot[s].about \in Requests \cup {NoRequest}
  BY <1>1 DEF PatchesTyped, SlotKinds
<1>4. CASE Store(s)
  <2>1. IsRow(row') /\ request' \in [Requests -> RequestKinds]
    BY <1>3, <1>4, FlushTyped DEF Store
  <2>2. slot' \in [Slots -> SlotKinds] /\ PatchesTyped'
    BY <1>2, <1>4, GotoTyped, FreeTyped DEF Store
  <2> QED
    BY <1>1, <2>1, <2>2, TypesNext
<1>5. CASE Hear(s)
  BY <1>3, <1>5, ReadTyped DEF Hear
<1>6. CASE Link(s)
  <2>1. IsRow(row')
    BY <1>1, <1>3, <1>6, Assigned, ColumnNames, KindsOf DEF Link
  <2> QED
    BY <1>1, <1>6, <2>1, AgedShape, FreeTyped, TypesNext DEF Link
<1>7. CASE Execute(s)
  <2>1. IsRow(row')
    BY <1>1, <1>3, <1>7, FlushedShape DEF Execute
  <2>2. request' \in [Requests -> RequestKinds]
    <3>1. PICK q : q = (IF Writes(patch[s], FALSE) THEN Aged ELSE request)
      OBVIOUS
    <3>2. q \in [Requests -> RequestKinds]
      BY <1>1, <3>1, AgedShape
    <3>3. request' = [q EXCEPT ![slot[s].about].executed = TRUE]
      BY <1>7, <3>1 DEF Execute
    <3> QED
      BY <3>2, <3>3 DEF RequestKinds
  <2> QED
    BY <1>1, <1>2, <1>3, <1>7, <2>1, <2>2, GotoTyped, TypesNext DEF Execute
<1>8. CASE Mark(s)
  <2>1. request' \in [Requests -> RequestKinds]
    BY <1>1, <1>8 DEF Mark, RequestKinds
  <2> QED
    BY <1>1, <1>8, <2>1, FreeTyped, TypesNext DEF Mark
<1>9. ASSUME NEW r \in Requests, FileAnswer(s, r)
      PROVE  TypeOK'
  <2>1. IsRow(row')
    BY <1>1, <1>3, <1>9, FlushedShape DEF FileAnswer
  <2>2. request' \in [Requests -> RequestKinds]
    BY <1>1, <1>3, <1>9, AgedShape DEF FileAnswer, RequestKinds
  <2> QED
    BY <1>1, <1>2, <1>9, <2>1, <2>2, GotoTyped, TypesNext DEF FileAnswer
<1>10. ASSUME NEW recorded \in BOOLEAN, Engaged(s, recorded)
       PROVE  TypeOK'
  <2>1. PICK f : f = (IF recorded THEN Flushed(patch[s]) ELSE row)
    OBVIOUS
  <2>2. IsRow(f)
    BY <1>1, <1>3, <2>1, FlushedShape
  <2>3. PICK g : g = [f EXCEPT !.neg = "CONTACTED"]
    OBVIOUS
  <2>4. IsRow(g)
    BY <1>2, <2>2, <2>3, Assigned, ColumnNames, KindsOf
  <2>5. IsRow([g EXCEPT !.round = 0])
    <3>1. 0 \in Kinds["round"]
      BY BoundAssumption, KindsOf
    <3> QED
      BY <2>4, <3>1, Assigned, ColumnNames
  <2>6. row' = [g EXCEPT !.round = 0]
    BY <1>10, <2>1, <2>3 DEF Engaged
  <2> QED
    BY <1>1, <1>10, <2>5, <2>6, AgedShape, FreeTyped, TypesNext DEF Engaged
<1>11. ASSUME NEW recorded \in BOOLEAN, Confirmed(s, recorded)
       PROVE  TypeOK'
  <2>1. IsRow(row') /\ request' \in [Requests -> RequestKinds]
    BY <1>1, <1>3, <1>11, FlushTyped DEF Confirmed
  <2> QED
    BY <1>1, <1>11, <2>1, FreeTyped, TypesNext DEF Confirmed
<1>12. CASE Negotiate(s)
  <2>1. row.round < MaxRound => IsPatch(Patch([row EXCEPT !.neg = "COUNTER_OFFER_SENT",
                                                          !.round = @ + 1], {"neg", "round"}))
    BY <1>1, <1>2, NewRows, PatchShape
  <2> QED
    BY <1>1, <1>2, <1>12, <2>1, FreeTyped, DecideTyped, TypesNext DEF Negotiate
<1>13. CASE Escalate(s)
  BY <1>1, <1>13, FreeTyped, TypesNext DEF Escalate
<1> QED
  BY <1>4, <1>5, <1>6, <1>7, <1>8, <1>9, <1>10, <1>11, <1>12, <1>13 DEF Continue

\* The tables are well typed in every reachable state.
THEOREM EngagementTyped == Spec => []TypeOK
<1>1. Init => TypeOK
  <2> SUFFICES ASSUME Init PROVE TypeOK
    OBVIOUS
  <2>1. IsRow(row)
    <3>1. PICK made \in {"REQUESTED", "CONFIRMED"} :
            row = [neg |-> "DISCOVERED", status |-> made, control |-> "AGENT",
                   terms |-> Untold, quoted |-> None, round |-> 0, link |-> NoRequest]
      BY DEF Init
    <3>2. row = [c \in Columns |-> row[c]]
      BY <3>1, ColumnNames
    <3>3. 0 \in Kinds["round"] /\ "DISCOVERED" \in Negotiations
      BY BoundAssumption, KindsOf DEF Negotiations
    <3>4. /\ row["neg"] = "DISCOVERED" /\ row["status"] = made
          /\ row["control"] = "AGENT" /\ row["terms"] = Untold /\ row["quoted"] = None
          /\ row["round"] = 0 /\ row["link"] = NoRequest
      BY <3>1
    <3>5. \A c \in Columns : row[c] \in Kinds[c]
      BY <3>3, <3>4, ColumnNames, KindsOf
    <3> QED
      BY <3>2, <3>5 DEF IsRow
  <2>2. request \in [Requests -> RequestKinds]
    BY DEF Init, RequestKinds
  <2>3. slot \in [Slots -> SlotKinds]
    BY DEF Init, Idle, SlotKinds, Pcs, Replies
  <2>4. PatchesTyped
    BY NothingShape DEF Init, PatchesTyped
  <2> QED
    BY <2>1, <2>2, <2>3, <2>4, Types
<1>2. TypeOK /\ [Next]_vars => TypeOK'
  <2> SUFFICES ASSUME TypeOK, [Next]_vars PROVE TypeOK'
    OBVIOUS
  <2>1. CASE PlanEdited
    BY <2>1, Types, AgedShape, TypesNext DEF PlanEdited, PatchesTyped
  <2>2. CASE UNCHANGED vars
    BY <2>2, Types, TypesNext DEF vars, PatchesTyped
  <2> QED
    BY <2>1, <2>2, BeginTyped, ContinueTyped DEF Next
<1> QED
  BY <1>1, <1>2, PTL DEF Spec

-----------------------------------------------------------------------------
(* The inductive invariant *)

\* A patch under way does not write the link; it writes APPROVED only on behalf
\* of an approval or a contract, and CONFIRMED only once a human has approved or,
\* to the status, for a binding or a contract; a handler that is about a request
\* is about one that was filed.
HandlerOK(s) ==
  /\ patch[s].link = Keep
  /\ patch[s].neg = "APPROVED" => slot[s].pc \in {"executing", "contracting"}
  /\ patch[s].neg = "CONFIRMED" => HumanApproved
  /\ patch[s].status = "CONFIRMED" => HumanApproved \/ slot[s].pc \in {"binding", "contracting"}
  /\ slot[s].pc \in {"linking", "executing", "marking"} =>
       slot[s].about \in Requests /\ request[slot[s].about].status # "ABSENT"
  /\ slot[s].pc = "marking" => request[slot[s].about].executed

\* A request is approved after it was executed; one that is linked was filed,
\* and a linked pending one is stale.
RequestOK(r) ==
  /\ request[r].status = "APPROVED" => request[r].executed
  /\ row.link = r => request[r].status # "ABSENT"
  /\ row.link = r /\ request[r].status = "PENDING" => ~request[r].fresh

EngagementInvariant ==
  /\ \A s \in Slots : HandlerOK(s)
  /\ \A r \in Requests : RequestOK(r)
  /\ row.neg = "CONFIRMED" => HumanApproved

\* A patch that commits nobody and links nothing.
Harmless(p) ==
  /\ p["link"] = Keep
  /\ p["neg"] \notin {"APPROVED", "CONFIRMED"}
  /\ p["status"] # "CONFIRMED"

\* A patch that keeps a column writes no state to it.
LEMMA KeepIsNoState ==
  /\ Keep \notin {"APPROVED", "CONFIRMED"}
  /\ Keep \notin Requests \cup {NoRequest}
BY KeepAssumption, ColumnNames, KindsOf DEF Negotiations

\* The empty patch commits to nothing.
LEMMA NothingHarmless == Harmless(Nothing)
BY KeepIsNoState, NothingShape, ColumnNames DEF Harmless

\* What a handler decides on the row it has loaded is harmless, unless it
\* assigns one of the states that commit the event.
LEMMA HarmlessPatch ==
  ASSUME IsRow(row), NEW new, IsRow(new), NEW blind \in SUBSET {"neg", "round", "quoted"},
         new["link"] = row["link"],
         new["status"] \in {row["status"], "CANCELLED", "REPLACED"},
         \/ new["neg"] \notin {"APPROVED", "CONFIRMED"}
         \/ new["neg"] = row["neg"] /\ "neg" \notin blind
  PROVE  Harmless(Patch(new, blind))
<1>1. \A c \in Columns : Patch(new, blind)[c] # Keep =>
        /\ Patch(new, blind)[c] = new[c]
        /\ new[c] # row[c] \/ c \in blind
  BY PatchShape
<1> HIDE DEF Patch
<1>2. Patch(new, blind)["link"] = Keep
  BY <1>1, ColumnNames
<1>3. Patch(new, blind)["neg"] \notin {"APPROVED", "CONFIRMED"}
  BY <1>1, ColumnNames, KeepIsNoState
<1>4. Patch(new, blind)["status"] # "CONFIRMED"
  BY <1>1, ColumnNames, KeepIsNoState
<1> QED
  BY <1>2, <1>3, <1>4 DEF Harmless

\* What each kind of step leaves in the slot and its patch.
LEMMA DecideShape ==
  ASSUME TypeOK, NEW s \in Slots, NEW pc, NEW p, NEW stamp, Decide(s, pc, p, stamp)
  PROVE  /\ slot'[s].pc = pc /\ slot'[s].about = slot[s].about
         /\ patch'[s] = p
         /\ \A o \in Slots \ {s} : slot'[o] = slot[o] /\ patch'[o] = patch[o]
BY Types DEF Decide, SlotKinds, PatchesTyped

\* What a handler that goes on leaves of itself.
LEMMA GotoShape ==
  ASSUME TypeOK, NEW s \in Slots, NEW pc, NEW about, Goto(s, pc, about)
  PROVE  /\ slot'[s].pc = pc /\ slot'[s].about = about
         /\ patch'[s] = Nothing
         /\ \A o \in Slots \ {s} : slot'[o] = slot[o] /\ patch'[o] = patch[o]
BY Types DEF Goto, SlotKinds, PatchesTyped

\* What a handler that ends leaves of itself.
LEMMA FreeShape ==
  ASSUME TypeOK, NEW s \in Slots, Free(s)
  PROVE  /\ slot'[s].pc = "idle"
         /\ patch'[s] = Nothing
         /\ \A o \in Slots \ {s} : slot'[o] = slot[o] /\ patch'[o] = patch[o]
BY Types DEF Free, Idle, SlotKinds, PatchesTyped

\* The handlers in the other slots are where they were.
OthersStay(s) ==
  \A o \in Slots \ {s} : slot'[o] = slot[o] /\ patch'[o] = patch[o]

Busy == {"linking", "executing", "marking"}

\* A handler with a harmless patch that waits for nobody keeps its part of the invariant.
LEMMA QuietHandler ==
  ASSUME NEW s \in Slots, Harmless(patch'[s]), slot'[s].pc \notin Busy
  PROVE  HandlerOK(s)'
BY KeepIsNoState DEF HandlerOK, Harmless, Busy

\* Such a handler may have decided,
LEMMA DecideQuiet ==
  ASSUME TypeOK, NEW s \in Slots, NEW pc, pc \notin Busy, NEW p, Harmless(p), NEW stamp,
         Decide(s, pc, p, stamp)
  PROVE  HandlerOK(s)' /\ OthersStay(s)
<1>1. slot'[s].pc = pc /\ patch'[s] = p /\ OthersStay(s)
  BY DecideShape DEF OthersStay
<1> QED
  BY <1>1, QuietHandler

\* gone on,
LEMMA GotoQuiet ==
  ASSUME TypeOK, NEW s \in Slots, NEW pc, pc \notin Busy, NEW about, Goto(s, pc, about)
  PROVE  HandlerOK(s)' /\ OthersStay(s)
<1>1. slot'[s].pc = pc /\ patch'[s] = Nothing /\ OthersStay(s)
  BY GotoShape DEF OthersStay
<1> QED
  BY <1>1, NothingHarmless, QuietHandler

\* or ended.
LEMMA FreeQuiet ==
  ASSUME TypeOK, NEW s \in Slots, Free(s)
  PROVE  HandlerOK(s)' /\ OthersStay(s)
<1>1. slot'[s].pc = "idle" /\ patch'[s] = Nothing /\ OthersStay(s)
  BY FreeShape DEF OthersStay
<1> QED
  BY <1>1, NothingHarmless, QuietHandler DEF Busy

\* The states that commit nobody.
Open == Negotiations \ {"APPROVED", "CONFIRMED"}

\* The states the agent leaves a negotiation in are open ones.
LEMMA OpenStates ==
  {"WAITING_FOR_RESPONSE", "QUOTATION_RECEIVED", "NEGOTIATING", "AWAITING_APPROVAL",
   "COUNTER_OFFER_SENT", "DECLINED"} \subseteq Open
BY DEF Open, Negotiations

\* One column after the other: what is assigned to a row that agrees with the
\* one loaded on what matters.
Agrees(f) ==
  /\ IsRow(f)
  /\ f["link"] = row["link"]
  /\ f["status"] \in {row["status"], "CANCELLED", "REPLACED"}
  /\ f["neg"] = row["neg"] \/ f["neg"] \in Open

\* A row that agrees with the table on what an agent must not change still does
\* with other columns changed.
LEMMA AgreesStill ==
  ASSUME NEW f, Agrees(f)
  PROVE  /\ \A n \in Open : Agrees([f EXCEPT !.neg = n]) /\ [f EXCEPT !.neg = n].neg \in Open
         /\ \A k \in Kinds["control"] : Agrees([f EXCEPT !.control = k])
         /\ \A u \in {"CANCELLED", "REPLACED"} : Agrees([f EXCEPT !.status = u])
         /\ \A t \in Terms : Agrees([f EXCEPT !.terms = t])
         /\ \A q \in Quotes : Agrees([f EXCEPT !.quoted = q])
         /\ \A m \in Kinds["round"] : Agrees([f EXCEPT !.round = m])
<1> USE Assigned, ColumnNames DEF Agrees
<1>1. ASSUME NEW n \in Open
      PROVE  Agrees([f EXCEPT !.neg = n]) /\ [f EXCEPT !.neg = n].neg \in Open
  BY KindsOf DEF Open
<1>2. ASSUME NEW k \in Kinds["control"] PROVE Agrees([f EXCEPT !.control = k])
  OBVIOUS
<1>3. ASSUME NEW u \in {"CANCELLED", "REPLACED"} PROVE Agrees([f EXCEPT !.status = u])
  BY KindsOf
<1>4. ASSUME NEW t \in Terms PROVE Agrees([f EXCEPT !.terms = t])
  BY KindsOf
<1>5. ASSUME NEW q \in Quotes PROVE Agrees([f EXCEPT !.quoted = q])
  BY KindsOf
<1>6. ASSUME NEW m \in Kinds["round"] PROVE Agrees([f EXCEPT !.round = m])
  OBVIOUS
<1> QED
  BY <1>1, <1>2, <1>3, <1>4, <1>5, <1>6

\* A patch made of such a row is harmless.
LEMMA AgreesHarmless ==
  ASSUME IsRow(row), NEW f, Agrees(f), NEW blind \in SUBSET {"neg", "round", "quoted"},
         f["neg"] \in Open \/ "neg" \notin blind
  PROVE  Harmless(Patch(f, blind))
BY HarmlessPatch DEF Agrees, Open

\* A counter-offer commits to nothing.
LEMMA CounterHarmless ==
  ASSUME IsRow(row), row.round < MaxRound
  PROVE  Harmless(Patch([row EXCEPT !.neg = "COUNTER_OFFER_SENT", !.round = @ + 1],
                        {"neg", "round"}))
<1>1. PICK f : f = [row EXCEPT !.neg = "COUNTER_OFFER_SENT", !.round = @ + 1]
  OBVIOUS
<1>2. IsRow(f)
  BY <1>1, NewRows, OpenStates DEF Open
<1>3. f["link"] = row["link"] /\ f["status"] = row["status"] /\ f["neg"] = "COUNTER_OFFER_SENT"
  BY <1>1, ColumnNames DEF IsRow
<1>4. Agrees(f) /\ f["neg"] \in Open
  BY <1>2, <1>3, OpenStates DEF Agrees
<1>5. Harmless(Patch(f, {"neg", "round"}))
  BY <1>4, AgreesHarmless
<1> QED
  BY <1>1, <1>5

\* The answer to the provider commits nobody.
LEMMA ReadHandler ==
  ASSUME TypeOK, NEW s \in Slots, NEW o \in Replies, Read(s, o)
  PROVE  HandlerOK(s)' /\ OthersStay(s)
<1> DEFINE asked == IF o \in Quotes THEN [row EXCEPT !.quoted = o] ELSE row
           answer(n) == Patch([asked EXCEPT !.neg = n],
                              IF o \in Quotes THEN {"quoted"} ELSE {})
<1>1. IsRow(row) /\ Agrees(row)
  BY Types DEF Agrees
<1>2. {"editing", "filing"} \cap Busy = {}
  BY DEF Busy
<1>3. Agrees(asked)
  BY <1>1, AgreesStill
<1>4. \A n \in Open : Harmless(answer(n))
  <2> HIDE DEF asked
  <2> QED
    BY <1>1, <1>3, AgreesStill, AgreesHarmless
<1>5. Harmless(Patch([row EXCEPT !.neg = "DECLINED"], {"neg"}))
  BY <1>1, AgreesStill, AgreesHarmless, OpenStates
<1>6. \/ Decide(s, "editing", Patch([row EXCEPT !.neg = "DECLINED"], {"neg"}), TRUE)
      \/ \E pc \in {"editing", "filing"}, n \in Open : Decide(s, pc, answer(n), TRUE)
  BY OpenStates DEF Read
<1> HIDE DEF answer
<1> QED
  BY <1>2, <1>4, <1>5, <1>6, DecideQuiet

\* The handler that starts knows what its patch may contain,
LEMMA ConverseHandler ==
  ASSUME TypeOK, EngagementInvariant, NEW s \in Slots, Converse(s)
  PROVE  HandlerOK(s)' /\ OthersStay(s)
<1>1. IsRow(row) /\ Agrees(row)
  BY Types DEF Agrees
<1>2. /\ request \in [Requests -> RequestKinds] /\ slot \in [Slots -> SlotKinds]
      /\ PatchesTyped
  BY Types
<1>3. {"idle", "engaging", "editing", "quoting", "hearing", "countering", "confirming",
       "voicing", "calling"} \cap Busy = {}
  BY DEF Busy
<1>4. ASSUME NEW t \in Terms, Engage(s, t)
      PROVE  HandlerOK(s)' /\ OthersStay(s)
  <2>1. Harmless(Patch([row EXCEPT !.terms = t], {}))
    BY <1>1, AgreesStill, AgreesHarmless
  <2> QED
    BY <1>3, <1>4, <2>1, DecideQuiet DEF Engage
<1>5. ASSUME NEW k \in Kinds["control"], Edit(s, [row EXCEPT !.control = k], TRUE)
      PROVE  HandlerOK(s)' /\ OthersStay(s)
  <2>1. Harmless(Patch([row EXCEPT !.control = k], {}))
    BY <1>1, AgreesStill, AgreesHarmless
  <2> QED
    BY <1>3, <1>5, <2>1, DecideQuiet DEF Edit, EditAs
<1>6. CASE Cancel(s)
  <2>1. PICK f : f = [row EXCEPT !.control = "HUMAN", !.neg = "DECLINED"]
    OBVIOUS
  <2>2. PICK g : g = [row EXCEPT !.control = "HUMAN"]
    OBVIOUS
  <2>3. Agrees(g)
    BY <1>1, <2>2, AgreesStill, KindsOf
  <2>4. Agrees(f) /\ f["neg"] \in Open
    <3>1. f = [g EXCEPT !.neg = "DECLINED"]
      BY <2>1, <2>2
    <3> QED
      BY <2>3, <3>1, AgreesStill, OpenStates
  <2>5. Agrees([f EXCEPT !.status = "CANCELLED"])
    BY <2>4, AgreesStill
  <2>6. Harmless(Patch([f EXCEPT !.status = "CANCELLED"], {}))
    BY <1>1, <2>5, AgreesHarmless
  <2>7. [f EXCEPT !.status = "CANCELLED"] =
          [row EXCEPT !.control = "HUMAN", !.neg = "DECLINED", !.status = "CANCELLED"]
    BY <2>1
  <2> QED
    BY <1>3, <1>6, <2>6, <2>7, DecideQuiet DEF Cancel, Edit, EditAs
<1>7. CASE Decline(s)
  <2>1. PICK f : f = [row EXCEPT !.neg = "DECLINED"]
    OBVIOUS
  <2>2. Agrees([f EXCEPT !.status = "CANCELLED"])
    BY <1>1, <2>1, AgreesStill, OpenStates
  <2>3. Harmless(Patch([f EXCEPT !.status = "CANCELLED"], {}))
    BY <1>1, <2>2, AgreesHarmless
  <2>4. [f EXCEPT !.status = "CANCELLED"] =
          [row EXCEPT !.neg = "DECLINED", !.status = "CANCELLED"]
    BY <2>1
  <2> QED
    BY <1>3, <1>7, <2>3, <2>4, DecideQuiet DEF Decline, Edit, EditAs
<1>8. CASE AwaitReply(s)
  <2>1. Harmless(Patch([row EXCEPT !.neg = "WAITING_FOR_RESPONSE"], {}))
    BY <1>1, AgreesStill, AgreesHarmless, OpenStates
  <2> QED
    BY <1>3, <1>8, <2>1, DecideQuiet DEF AwaitReply, Edit, EditAs
<1>9. ASSUME NEW o \in Replies, Reply(s, o)
      PROVE  HandlerOK(s)' /\ OthersStay(s)
  BY <1>9, ReadHandler DEF Reply
<1>10. \A q \in Quotes : Harmless(Patch([row EXCEPT !.quoted = q], {}))
  BY <1>1, AgreesStill, AgreesHarmless
<1>11. ASSUME NEW q \in Quotes, Quote(s, q)
       PROVE  HandlerOK(s)' /\ OthersStay(s)
  <2>1. patch'[s] = Patch([row EXCEPT !.quoted = q], {}) /\ slot'[s].pc = "quoting"
    BY <1>2, <1>11 DEF Quote, SlotKinds, PatchesTyped
  <2>2. OthersStay(s)
    BY <1>2, <1>11 DEF Quote, OthersStay, PatchesTyped
  <2> QED
    BY <1>3, <1>10, <2>1, <2>2, QuietHandler
<1>12. ASSUME NEW q \in Quotes, NEW t \in Terms \cup {Untold}, Voice(s, q, t)
       PROVE  HandlerOK(s)' /\ OthersStay(s)
  <2>1. \A n \in Open : Harmless(Patch([row EXCEPT !.quoted = q, !.neg = n], {}))
    <3> TAKE n \in Open
    <3>1. PICK f : f = [row EXCEPT !.quoted = q]
      OBVIOUS
    <3>2. Harmless(Patch([f EXCEPT !.neg = n], {}))
      BY <1>1, <3>1, AgreesStill, AgreesHarmless
    <3>3. [f EXCEPT !.neg = n] = [row EXCEPT !.quoted = q, !.neg = n]
      BY <3>1
    <3> QED
      BY <3>2, <3>3
  <2>2. CASE \E pc \in {"editing", "voicing"}, n \in Open :
               Decide(s, pc, Patch([row EXCEPT !.quoted = q, !.neg = n], {}), FALSE)
    BY <1>3, <2>1, <2>2, DecideQuiet
  <2>3. CASE /\ slot' = [slot EXCEPT ![s].pc = "quoting", ![s].reply = q]
             /\ patch' = [patch EXCEPT ![s] = Patch([row EXCEPT !.quoted = q], {})]
    <3>1. patch'[s] = Patch([row EXCEPT !.quoted = q], {}) /\ slot'[s].pc = "quoting"
      BY <1>2, <2>3 DEF SlotKinds, PatchesTyped
    <3>2. OthersStay(s)
      BY <1>2, <2>3 DEF OthersStay, PatchesTyped
    <3> QED
      BY <1>3, <1>10, <3>1, <3>2, QuietHandler
  <2> QED
    BY <1>12, <2>2, <2>3, OpenStates DEF Voice
<1>13. CASE Negotiate(s)
  BY <1>1, <1>3, <1>13, CounterHarmless, DecideQuiet, FreeQuiet DEF Negotiate
<1>14. ASSUME NEW r \in Requests, RequestApproval(s, r)
       PROVE  HandlerOK(s)' /\ OthersStay(s)
  <2>1. slot'[s].pc = "linking" /\ slot'[s].about = r /\ patch'[s] = Nothing /\ OthersStay(s)
    BY <1>14, GotoShape DEF RequestApproval, OthersStay
  <2>2. request'[r].status = "PENDING"
    BY <1>2, <1>14 DEF RequestApproval, RequestKinds
  <2> QED
    BY <2>1, <2>2, NothingHarmless, KeepIsNoState DEF HandlerOK, Harmless
<1>15. ASSUME NEW r \in Requests, Approve(s, r)
       PROVE  HandlerOK(s)' /\ OthersStay(s)
  <2>1. CASE request[r].fresh
    <3>1. /\ slot'[s].pc = "executing" /\ slot'[s].about = r /\ request' = request
          /\ patch'[s] = Patch([row EXCEPT !.neg = "APPROVED"], {})
      <4>1. slot' = [slot EXCEPT ![s].pc = "executing", ![s].about = r]
        BY <1>15, <2>1 DEF Approve
      <4>2. slot'[s].pc = "executing" /\ slot'[s].about = r
        BY <1>2, <4>1 DEF SlotKinds
      <4> QED
        BY <1>2, <1>15, <2>1, <4>2 DEF Approve, PatchesTyped
    <3>2. PICK new : new = [row EXCEPT !.neg = "APPROVED"]
      OBVIOUS
    <3>3. /\ IsRow(new) /\ new["link"] = row["link"] /\ new["status"] = row["status"]
          /\ new["neg"] = "APPROVED"
      <4>1. "APPROVED" \in Negotiations
        BY DEF Negotiations
      <4>2. IsRow(new)
        BY <1>1, <3>2, <4>1, NewRows
      <4> QED
        BY <1>1, <3>2, <4>2, ColumnNames DEF IsRow
    <3>4. /\ patch'[s]["link"] = Keep /\ patch'[s]["status"] = Keep
          /\ patch'[s]["neg"] \in {Keep, "APPROVED"}
      <4> HIDE DEF Patch
      <4>1. \A c \in Columns : patch'[s][c] # Keep => patch'[s][c] = new[c] /\ new[c] # row[c]
        BY <3>1, <3>2, <3>3, PatchShape
      <4> QED
        BY <3>3, <4>1, ColumnNames
    <3>5. OthersStay(s)
      BY <1>2, <1>15, <2>1 DEF Approve, OthersStay, PatchesTyped
    <3> QED
      BY <1>2, <1>15, <3>1, <3>4, <3>5, KeepIsNoState DEF HandlerOK, Approve
  <2>2. CASE ~request[r].fresh
    <3>1. slot' = slot /\ patch' = patch /\ slot[s].pc = "idle"
      BY <1>15, <2>2 DEF Approve
    <3>2. HumanApproved => HumanApproved'
      BY <1>2, <1>15, <2>2 DEF Approve, HumanApproved, RequestKinds
    <3> QED
      BY <3>1, <3>2 DEF HandlerOK, EngagementInvariant, OthersStay
  <2> QED
    BY <2>1, <2>2
<1>16. CASE Confirm(s)
  <2>1. HumanApproved
    BY <1>1, <1>16, ColumnNames, KindsOf
       DEF Confirm, EngagementInvariant, RequestOK, HumanApproved, IsRow
  <2>2. PICK new : new = [row EXCEPT !.neg = "CONFIRMED", !.status = "CONFIRMED"]
    OBVIOUS
  <2>3. IsRow(new) /\ new["link"] = row["link"] /\ new["neg"] = "CONFIRMED"
    <3>1. "CONFIRMED" \in Negotiations
      BY DEF Negotiations
    <3>2. IsRow(new)
      BY <1>1, <2>2, <3>1, NewRows, KindsOf
    <3> QED
      BY <1>1, <2>2, <3>2, ColumnNames DEF IsRow
  <2>4. slot'[s].pc = "confirming" /\ patch'[s] = Patch(new, {}) /\ OthersStay(s)
    BY <1>16, <2>2, DecideShape DEF Confirm, OthersStay
  <2>5. patch'[s]["link"] = Keep /\ patch'[s]["neg"] \in {Keep, "CONFIRMED"}
    BY <2>3, <2>4, PatchShape, ColumnNames
  <2>6. HumanApproved'
    BY <1>16, <2>1 DEF Confirm, HumanApproved
  <2> QED
    BY <1>3, <2>4, <2>5, <2>6, KeepIsNoState DEF HandlerOK, Busy
<1> QED
  BY <1>4, <1>5, <1>6, <1>7, <1>8, <1>9, <1>11, <1>12, <1>13, <1>14, <1>15, <1>16, KindsOf
     DEF Converse, TakeOver, Resume

\* whoever it is that starts it.
LEMMA BeginHandler ==
  ASSUME TypeOK, EngagementInvariant, NEW s \in Slots, Begin(s)
  PROVE  HandlerOK(s)' /\ OthersStay(s)
<1>1. IsRow(row) /\ Agrees(row) /\ "editing" \notin Busy
  BY Types DEF Agrees, Busy
<1>2. IsRow([row EXCEPT !.status = "CONFIRMED"])
  BY <1>1, NewRows, KindsOf
<1>3. IsRow([row EXCEPT !.neg = "APPROVED", !.status = "CONFIRMED"])
  BY <1>1, NewRows, KindsOf DEF Negotiations
<1>4. ASSUME NEW new, IsRow(new), NEW stamp, NEW pc \in {"editing", "binding", "contracting"},
             EditAs(s, pc, new, stamp),
             new["link"] = row["link"],
             new["neg"] = row["neg"] \/ (new["neg"] = "APPROVED" /\ pc = "contracting"),
             new["status"] = "CONFIRMED",
             pc = "editing" => row["status"] = "CONFIRMED" \/ HumanApproved'
      PROVE  HandlerOK(s)' /\ OthersStay(s)
  <2>1. slot'[s].pc = pc /\ patch'[s] = Patch(new, {}) /\ OthersStay(s)
    BY <1>4, DecideShape DEF EditAs, OthersStay
  <2>2. \A c \in Columns : patch'[s][c] # Keep => patch'[s][c] = new[c] /\ new[c] # row[c]
    BY <1>4, <2>1, PatchShape
  <2>3. /\ patch'[s]["link"] = Keep
        /\ patch'[s]["neg"] = Keep \/ (patch'[s]["neg"] = "APPROVED" /\ pc = "contracting")
        /\ patch'[s]["status"] = Keep \/ row["status"] # "CONFIRMED"
    BY <1>4, <2>2, ColumnNames
  <2> QED
    BY <1>1, <1>4, <2>1, <2>3, KeepIsNoState DEF HandlerOK, Busy
<1>5. ASSUME NEW stamp \in BOOLEAN, Bind(s, stamp)
      PROVE  HandlerOK(s)' /\ OthersStay(s)
  <2>1. PICK new : new = [row EXCEPT !.status = "CONFIRMED"]
    OBVIOUS
  <2>2. IsRow(new) /\ new["link"] = row["link"] /\ new["neg"] = row["neg"]
        /\ new["status"] = "CONFIRMED"
    BY <1>1, <1>2, <2>1, ColumnNames DEF IsRow
  <2>3. EditAs(s, "binding", new, stamp)
    BY <1>5, <2>1 DEF Bind
  <2> QED
    BY <1>4, <2>2, <2>3
<1>6. ASSUME NEW stamp \in BOOLEAN, Contract(s, stamp)
      PROVE  HandlerOK(s)' /\ OthersStay(s)
  <2>1. PICK new : new = [row EXCEPT !.neg = "APPROVED", !.status = "CONFIRMED"]
    OBVIOUS
  <2>2. IsRow(new) /\ new["link"] = row["link"] /\ new["neg"] = "APPROVED"
        /\ new["status"] = "CONFIRMED"
    BY <1>1, <1>3, <2>1, ColumnNames DEF IsRow
  <2>3. EditAs(s, "contracting", new, stamp)
    BY <1>6, <2>1 DEF Contract
  <2> QED
    BY <1>4, <2>2, <2>3
<1>7. CASE Replaced(s)
  <2>1. Harmless(Patch([row EXCEPT !.status = "REPLACED"], {}))
    BY <1>1, AgreesStill, AgreesHarmless
  <2> QED
    BY <1>1, <1>7, <2>1, DecideQuiet DEF Replaced, Edit, EditAs
<1>8. CASE BindHeard(s)
  <2>1. PICK new : new = [row EXCEPT !.status = "CONFIRMED"]
    OBVIOUS
  <2>2. IsRow(new) /\ new["link"] = row["link"] /\ new["neg"] = row["neg"]
        /\ new["status"] = "CONFIRMED"
    BY <1>1, <1>2, <2>1, ColumnNames DEF IsRow
  <2>3. EditAs(s, "editing", new, TRUE) /\ request' = request
    BY <1>8, <2>1 DEF BindHeard, Edit, EditAs
  <2>4. row.status = "CONFIRMED" \/ HumanApproved
    <3>1. CASE "CONFIRMED" \in {row.status, row.neg}
      BY <3>1 DEF EngagementInvariant
    <3>2. CASE row.link # NoRequest /\ request[row.link].status = "APPROVED"
      BY <1>1, <3>2, ColumnNames, KindsOf
         DEF EngagementInvariant, RequestOK, HumanApproved, IsRow
    <3> QED
      BY <1>8, <3>1, <3>2 DEF BindHeard
  <2>5. row["status"] = "CONFIRMED" \/ HumanApproved'
    BY <2>3, <2>4 DEF HumanApproved
  <2> QED
    BY <1>4, <2>2, <2>3, <2>5
<1> QED
  BY <1>5, <1>6, <1>7, <1>8, ConverseHandler DEF Begin

\* What a step does to the requests: an execution stays, a filed request stays
\* filed, only what was executed is approved, and only what is new is fresh.
RequestsMove ==
  \A r \in Requests :
    /\ request[r].executed => request'[r].executed
    /\ request[r].status # "ABSENT" => request'[r].status # "ABSENT"
    /\ request'[r].status = "APPROVED" => request[r].status = "APPROVED" \/ request'[r].executed
    /\ request'[r].status = "PENDING" /\ request'[r].fresh =>
         request[r].status = "ABSENT" \/ (request[r].status = "PENDING" /\ request[r].fresh)

\* No step breaks what the invariant says of the requests,
LEMMA RequestsStep ==
  ASSUME TypeOK, EngagementInvariant, [Next]_vars
  PROVE  RequestsMove
<1> USE DEF RequestsMove
<1>1. request \in [Requests -> RequestKinds]
  BY Types
<1>2. CASE request' = request
  BY <1>2
<1>3. CASE request' = Aged
  BY <1>1, <1>3, AgedShape
<1>4. ASSUME NEW s \in Slots, NEW r \in Requests, RequestApproval(s, r) \/ Approve(s, r)
      PROVE  RequestsMove
  BY <1>1, <1>4 DEF RequestApproval, Approve, RequestKinds
<1>5. ASSUME NEW s \in Slots, NEW r \in Requests, FileAnswer(s, r)
      PROVE  RequestsMove
  <2>1. /\ request' = [Aged EXCEPT ![r].status = "PENDING"]
        /\ request[r].status = "ABSENT"
    BY <1>5 DEF FileAnswer
  <2> QED
    BY <1>1, <2>1, AgedShape DEF RequestKinds
<1>6. ASSUME NEW s \in Slots, Execute(s)
      PROVE  RequestsMove
  <2>1. PICK q : q = (IF Writes(patch[s], FALSE) THEN Aged ELSE request)
    OBVIOUS
  <2>2. /\ q \in [Requests -> RequestKinds]
        /\ \A r \in Requests : /\ q[r].status = request[r].status
                               /\ q[r].executed = request[r].executed
                               /\ q[r].fresh => request[r].fresh
    BY <1>1, <2>1, AgedShape
  <2>3. request' = [q EXCEPT ![slot[s].about].executed = TRUE]
    BY <1>6, <2>1 DEF Execute
  <2> QED
    BY <2>2, <2>3 DEF RequestKinds
<1>7. ASSUME NEW s \in Slots, Mark(s)
      PROVE  RequestsMove
  <2>1. slot[s].about \in Requests /\ request[slot[s].about].executed
    BY <1>7 DEF Mark, EngagementInvariant, HandlerOK
  <2> QED
    BY <1>1, <1>7, <2>1 DEF Mark, RequestKinds
<1>8. ASSUME NEW s \in Slots, Begin(s)
      PROVE  \/ request' = request
             \/ \E r \in Requests : RequestApproval(s, r) \/ Approve(s, r)
  BY <1>8 DEF Begin, Converse, Bind, Contract, Replaced, BindHeard, Engage, TakeOver, Resume, Cancel, Decline, AwaitReply, Edit, EditAs, Reply, Read,
     Quote, Voice, Negotiate, Confirm
<1>9. ASSUME NEW s \in Slots, Continue(s)
      PROVE  \/ request' \in {request, Aged}
             \/ Execute(s) \/ Mark(s) \/ \E r \in Requests : FileAnswer(s, r)
  BY <1>9 DEF Continue, Store, Hear, Read, Link, Engaged, Confirmed, Negotiate, Escalate, Flush
<1>10. PlanEdited \/ UNCHANGED vars => request' \in {request, Aged}
  BY DEF PlanEdited, vars
<1> QED
  BY <1>2, <1>3, <1>4, <1>5, <1>6, <1>7, <1>8, <1>9, <1>10 DEF Next

\* The handler that goes on does so too.
LEMMA ContinueHandler ==
  ASSUME TypeOK, EngagementInvariant, NEW s \in Slots, Continue(s)
  PROVE  HandlerOK(s)' /\ OthersStay(s)
<1>1. IsRow(row) /\ Agrees(row)
  BY Types DEF Agrees
<1>2. request \in [Requests -> RequestKinds]
  BY Types
<1>3. {"idle", "editing", "filing", "hearing", "countering", "calling"} \cap Busy = {}
  BY DEF Busy
<1>4. CASE Store(s)
  BY <1>3, <1>4, GotoQuiet, FreeQuiet DEF Store
<1>5. CASE Hear(s)
  <2>1. slot[s].reply \in Replies
    BY Types DEF SlotKinds
  <2> QED
    BY <1>5, <2>1, ReadHandler DEF Hear
<1>6. CASE Link(s) \/ Mark(s) \/ Escalate(s)
  BY <1>6, FreeQuiet DEF Link, Mark, Escalate
<1>7. CASE Execute(s)
  <2>1. slot[s].about \in Requests /\ request[slot[s].about].status # "ABSENT"
    BY <1>7 DEF Execute, EngagementInvariant, HandlerOK
  <2>2. /\ slot'[s].pc = "marking" /\ slot'[s].about = slot[s].about
        /\ patch'[s] = Nothing /\ OthersStay(s)
    BY <1>7, GotoShape DEF Execute, OthersStay
  <2>3. PICK q : q = (IF Writes(patch[s], FALSE) THEN Aged ELSE request)
    OBVIOUS
  <2>4. q \in [Requests -> RequestKinds] /\ \A r \in Requests : q[r].status = request[r].status
    BY <1>2, <2>3, AgedShape
  <2>5. request' = [q EXCEPT ![slot[s].about].executed = TRUE]
    BY <1>7, <2>3 DEF Execute
  <2>6. request'[slot[s].about].executed /\ request'[slot[s].about].status # "ABSENT"
    BY <2>1, <2>4, <2>5 DEF RequestKinds
  <2> QED
    BY <2>1, <2>2, <2>6, NothingHarmless, KeepIsNoState DEF HandlerOK, Harmless
<1>8. ASSUME NEW r \in Requests, FileAnswer(s, r)
      PROVE  HandlerOK(s)' /\ OthersStay(s)
  <2>1. slot'[s].pc = "linking" /\ slot'[s].about = r /\ patch'[s] = Nothing /\ OthersStay(s)
    BY <1>8, GotoShape DEF FileAnswer, OthersStay
  <2>2. request'[r].status = "PENDING"
    BY <1>2, <1>8, AgedShape DEF FileAnswer, RequestKinds
  <2> QED
    BY <2>1, <2>2, NothingHarmless, KeepIsNoState DEF HandlerOK, Harmless
<1>9. ASSUME NEW recorded \in BOOLEAN, Engaged(s, recorded) \/ Confirmed(s, recorded)
      PROVE  HandlerOK(s)' /\ OthersStay(s)
  BY <1>9, FreeQuiet DEF Engaged, Confirmed
<1>10. CASE Negotiate(s)
  BY <1>1, <1>3, <1>10, CounterHarmless, DecideQuiet, FreeQuiet DEF Negotiate
<1> QED
  BY <1>4, <1>5, <1>6, <1>7, <1>8, <1>9, <1>10 DEF Continue

\* What a handler knows survives the steps of the others.
LEMMA Bystander ==
  ASSUME EngagementInvariant, RequestsMove, NEW o \in Slots,
         slot'[o] = slot[o], patch'[o] = patch[o]
  PROVE  HandlerOK(o)'
<1>1. HandlerOK(o)
  BY DEF EngagementInvariant
<1>2. HumanApproved => HumanApproved'
  BY DEF HumanApproved, RequestsMove
<1> QED
  BY <1>1, <1>2 DEF HandlerOK, RequestsMove

\* of the handlers,
LEMMA HandlersStep ==
  ASSUME TypeOK, EngagementInvariant, [Next]_vars
  PROVE  \A s \in Slots : HandlerOK(s)'
<1>1. RequestsMove
  BY RequestsStep
<1>2. ASSUME NEW s \in Slots, Begin(s) \/ Continue(s)
      PROVE  \A o \in Slots : HandlerOK(o)'
  <2>1. HandlerOK(s)' /\ OthersStay(s)
    BY <1>2, BeginHandler, ContinueHandler
  <2> QED
    BY <1>1, <2>1, Bystander DEF OthersStay
<1>3. CASE slot' = slot /\ patch' = patch
  BY <1>1, <1>3, Bystander
<1>4. PlanEdited \/ UNCHANGED vars => slot' = slot /\ patch' = patch
  BY DEF PlanEdited, vars
<1> QED
  BY <1>2, <1>3, <1>4 DEF Next

\* What a step may make of the row: a commitment that was there before, or one
\* it has the authority for.
Permitted(f) ==
  /\ f["neg"] = "CONFIRMED" => HumanApproved
  /\ f["neg"] = "APPROVED" =>
       row["neg"] = "APPROVED" \/ HumanApproved' \/ Flushes({"contracting"})
  /\ f["status"] = "CONFIRMED" =>
       row["status"] = "CONFIRMED" \/ HumanApproved \/ Flushes({"binding", "contracting"})

\* A step writes the link only as Link does, and no column without authority.
LEMMA RowStep ==
  ASSUME TypeOK, EngagementInvariant, [Next]_vars
  PROVE  /\ \/ row'["link"] = row["link"]
            \/ \E s \in Slots : Link(s) /\ row'["link"] = slot[s].about
         /\ Permitted(row')
<1>1. IsRow(row) /\ request \in [Requests -> RequestKinds]
  BY Types
<1> DEFINE Stands(f) == f["link"] = row["link"] /\ Permitted(f)
<1>2. Stands(row)
  BY DEF EngagementInvariant, Permitted
<1>3. ASSUME NEW s \in Slots, slot[s].pc # "executing",
             slot[s].pc \in {"binding", "contracting"} => slot'[s].pc = "idle"
      PROVE  Stands(Flushed(patch[s]))
  <2>1. HandlerOK(s) /\ IsPatch(patch[s])
    BY Types DEF EngagementInvariant, PatchesTyped
  <2>2. /\ slot[s].pc = "contracting" => Flushes({"contracting"})
        /\ slot[s].pc \in {"binding", "contracting"} => Flushes({"binding", "contracting"})
    BY <1>3 DEF Flushes
  <2>3. \A c \in {"link", "neg", "status"} :
          Flushed(patch[s])[c] = IF patch[s][c] = Keep THEN row[c] ELSE patch[s][c]
    BY <1>1, <2>1, FlushedShape, ColumnNames
  <2> HIDE DEF Flushed
  <2>4. Flushed(patch[s])["link"] = row["link"]
    BY <2>1, <2>3 DEF HandlerOK
  <2>5. Permitted(Flushed(patch[s]))
    BY <1>2, <1>3, <2>1, <2>2, <2>3 DEF HandlerOK, Permitted
  <2> QED
    BY <2>4, <2>5
<1>4. ASSUME NEW s \in Slots, Store(s)
      PROVE  Stands(row')
  <2>1. slot[s].pc \in {"binding", "contracting"} => slot'[s].pc = "idle"
    BY <1>4, FreeShape DEF Store
  <2> QED
    BY <1>3, <1>4, <2>1 DEF Store, Flush
<1>5. ASSUME NEW s \in Slots, Link(s)
      PROVE  row'["link"] = slot[s].about /\ Permitted(row')
  <2>1. /\ row'["link"] = slot[s].about
        /\ row'["neg"] = row["neg"] /\ row'["status"] = row["status"]
    BY <1>1, <1>5, ColumnNames DEF Link, IsRow
  <2> QED
    BY <1>2, <2>1 DEF Permitted
<1>6. ASSUME NEW s \in Slots, Execute(s)
      PROVE  Stands(row')
  <2>1. HandlerOK(s) /\ IsPatch(patch[s]) /\ slot[s].pc = "executing"
    BY <1>6, Types DEF EngagementInvariant, PatchesTyped, Execute
  <2>2. slot'[s].pc = "marking" /\ slot'[s].about = slot[s].about
    BY <1>6, GotoShape DEF Execute
  <2>3. HandlerOK(s)'
    BY <1>6, ContinueHandler DEF Continue
  <2>4. HumanApproved'
    BY <2>2, <2>3 DEF HandlerOK, HumanApproved
  <2>5. \A c \in {"link", "neg", "status"} :
          row'[c] = IF patch[s][c] = Keep THEN row[c] ELSE patch[s][c]
    BY <1>1, <1>6, <2>1, FlushedShape, ColumnNames DEF Execute
  <2>6. row'["link"] = row["link"]
    BY <2>1, <2>5 DEF HandlerOK
  <2>7. Permitted(row')
    BY <1>2, <2>1, <2>4, <2>5 DEF HandlerOK, Permitted
  <2> QED
    BY <2>6, <2>7
<1>7. ASSUME NEW s \in Slots, NEW r \in Requests, FileAnswer(s, r)
      PROVE  Stands(row')
  BY <1>3, <1>7 DEF FileAnswer
<1>8. ASSUME NEW s \in Slots, NEW recorded \in BOOLEAN, Engaged(s, recorded)
       PROVE  Stands(row')
  <2>1. PICK f : f = (IF recorded THEN Flushed(patch[s]) ELSE row)
    OBVIOUS
  <2>2. IsPatch(patch[s]) /\ slot[s].pc = "engaging"
    BY <1>8, Types DEF Engaged, PatchesTyped
  <2>3. IsRow(f) /\ Stands(f)
    BY <1>1, <1>2, <1>3, <2>1, <2>2, FlushedShape
  <2>4. row' = [f EXCEPT !.neg = "CONTACTED", !.round = 0]
    BY <1>8, <2>1 DEF Engaged
  <2>5. row'["link"] = f["link"] /\ row'["neg"] = "CONTACTED" /\ row'["status"] = f["status"]
    BY <2>3, <2>4, ColumnNames DEF IsRow
  <2> QED
    BY <2>3, <2>5 DEF Permitted
<1>9. ASSUME NEW s \in Slots, NEW recorded \in BOOLEAN, Confirmed(s, recorded)
       PROVE  Stands(row')
  BY <1>2, <1>3, <1>9 DEF Confirmed, Flush
<1>10. ASSUME NEW s \in Slots, Begin(s) \/ Hear(s) \/ Mark(s) \/ Negotiate(s) \/ Escalate(s)
       PROVE  row' = row
  BY <1>10 DEF Begin, Converse, Bind, Contract, Replaced, BindHeard, Engage, TakeOver, Resume, Cancel, Decline, AwaitReply, Edit, EditAs, Reply, Read,
     Quote, Voice, Negotiate, RequestApproval, Approve, Confirm, Hear, Mark, Escalate
<1>11. PlanEdited \/ UNCHANGED vars => row' = row
  BY DEF PlanEdited, vars
<1> QED
  BY <1>2, <1>4, <1>5, <1>6, <1>7, <1>8, <1>9, <1>10, <1>11 DEF Next, Continue

\* No step commits the event without authority.
LEMMA AuthorityStep ==
  ASSUME TypeOK, EngagementInvariant, [Next]_vars
  PROVE  /\ Entered("neg", "CONFIRMED") => HumanApproved
         /\ Entered("neg", "APPROVED") => HumanApproved' \/ Flushes({"contracting"})
         /\ Entered("status", "CONFIRMED") =>
              HumanApproved \/ Flushes({"binding", "contracting"})
BY RowStep DEF Permitted, Entered

\* The inductive invariant of an engagement.
THEOREM EngagementSafe == Spec => []EngagementInvariant
<1>1. Init => EngagementInvariant
  <2> SUFFICES ASSUME Init PROVE EngagementInvariant
    OBVIOUS
  <2>1. \A s \in Slots : HandlerOK(s)
    BY NothingHarmless, KeepIsNoState DEF Init, HandlerOK, Harmless, Idle
  <2>2. \A r \in Requests : RequestOK(r)
    BY RequestsAssumption DEF Init, RequestOK
  <2>3. row.neg # "CONFIRMED"
    BY DEF Init
  <2> QED
    BY <2>1, <2>2, <2>3 DEF EngagementInvariant
<1>2. TypeOK /\ EngagementInvariant /\ [Next]_vars => EngagementInvariant'
  <2> SUFFICES ASSUME TypeOK, EngagementInvariant, [Next]_vars PROVE EngagementInvariant'
    OBVIOUS
  <2>1. RequestsMove
    BY RequestsStep
  <2>2. row'["neg"] = "CONFIRMED" => HumanApproved'
    BY <2>1, RowStep DEF Permitted, RequestsMove, HumanApproved
  <2>3. ASSUME NEW r \in Requests PROVE RequestOK(r)'
    <3>1. RequestOK(r)
      BY DEF EngagementInvariant
    <3>2. CASE row'["link"] = row["link"]
      BY <2>1, <3>1, <3>2 DEF RequestOK, RequestsMove
    <3>3. ASSUME NEW s \in Slots, Link(s), row'["link"] = slot[s].about
          PROVE  RequestOK(r)'
      <4>1. slot[s].about \in Requests /\ request[slot[s].about].status # "ABSENT"
        BY <3>3 DEF Link, EngagementInvariant, HandlerOK
      <4>2. \A q \in Requests : /\ request'[q].status = request[q].status /\ ~request'[q].fresh
                                /\ request'[q].executed = request[q].executed
        BY <3>3, Types, AgedShape DEF Link
      <4> QED
        BY <3>1, <3>3, <4>1, <4>2 DEF RequestOK
    <3> QED
      BY <3>2, <3>3, RowStep
  <2> QED
    BY <2>2, <2>3, HandlersStep DEF EngagementInvariant
<1> QED
  BY <1>1, <1>2, EngagementTyped, PTL DEF Spec

\* A step confirms the negotiation only after a human approved a request for it;
\* it makes it APPROVED, or the assignment CONFIRMED, only besides as the flush of
\* an executed contract, or of that or a binding that was let through.
THEOREM AuthorityCommits == Spec => CommittedOnAuthority
<1>1. TypeOK /\ EngagementInvariant /\ [Next]_vars =>
        [/\ Entered("neg", "CONFIRMED") => HumanApproved
         /\ Entered("neg", "APPROVED") => HumanApproved' \/ Flushes({"contracting"})
         /\ Entered("status", "CONFIRMED") =>
              HumanApproved \/ Flushes({"binding", "contracting"})]_vars
  BY AuthorityStep
<1> QED
  BY <1>1, EngagementTyped, EngagementSafe, PTL DEF Spec, CommittedOnAuthority

\* The request an assignment links to is pending only as a stale one.
THEOREM LinkedIsStale == Spec => []LinkedNeverFresh
<1>1. EngagementInvariant => LinkedNeverFresh
  BY DEF EngagementInvariant, RequestOK, LinkedNeverFresh
<1> QED
  BY <1>1, EngagementSafe, PTL
=============================================================================
