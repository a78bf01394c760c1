------------------------- MODULE PlanBindingProofs -------------------------
(***************************************************************************)
(* What PlanBinding keeps of the assignments and of the budget, for every  *)
(* plan, and the sums that the budget is compared with.                    *)
(***************************************************************************)
EXTENDS PlanBinding, TaskGraphProofs

-----------------------------------------------------------------------------
(* What a set of budget items is committed to.  The fold is a recursive     *)
(* function over the subsets, defined by CHOOSE; that there is one is to be *)
(* proved, by induction on the size of the subsets it is defined for.       *)

OneOf(s) == CHOOSE x \in s : TRUE

Adds(f, items, cs, s) == IF s = {} THEN 0 ELSE f[s \ {OneOf(s)}] + items[OneOf(s)]

IsSum(f, items, cs) == f = [s \in SUBSET cs |-> Adds(f, items, cs, s)]

Sum(items, cs) == CHOOSE f : IsSum(f, items, cs)

\* The fold of the model is that function.
LEMMA CommittedIsSum ==
  ASSUME NEW items, NEW cs
  PROVE  Committed(items, cs) = Sum(items, cs)[cs]
BY DEF Committed, FoldSet, MapThenFoldSet, Sum, IsSum, Adds, OneOf

\* The member counted next is one.
LEMMA OneOfIn ==
  ASSUME NEW s, s # {}
  PROVE  OneOf(s) \in s
BY DEF OneOf

\* There is a function that adds up the items of every subset.
LEMMA SumExists ==
  ASSUME NEW cs, IsFiniteSet(cs), NEW items, \A c \in cs : items[c] \in Nat
  PROVE  \E f \in [SUBSET cs -> Nat] : IsSum(f, items, cs)
<1> DEFINE UpTo(n) == {s \in SUBSET cs : Cardinality(s) <= n}
           Sums(n) == {f \in [UpTo(n) -> Nat] : \A s \in UpTo(n) : f[s] = Adds(f, items, cs, s)}
           Good == {n \in Nat : Sums(n) # {}}
<1>1. \A s \in SUBSET cs : IsFiniteSet(s) /\ Cardinality(s) \in Nat
  BY FS_Subset, FS_CardinalityType
<1>2. ASSUME NEW s \in SUBSET cs, s # {}
      PROVE  /\ OneOf(s) \in s
             /\ s \ {OneOf(s)} \in SUBSET cs
             /\ Cardinality(s \ {OneOf(s)}) = Cardinality(s) - 1
             /\ items[OneOf(s)] \in Nat
  <2>1. OneOf(s) \in s
    BY <1>2, OneOfIn
  <2> QED
    BY <2>1, <1>1, FS_RemoveElement
<1>3. 0 \in Good
  <2> DEFINE f == [s \in UpTo(0) |-> 0]
  <2>1. \A s \in UpTo(0) : s = {}
    BY <1>1, FS_EmptySet
  <2>2. f \in Sums(0)
    BY <2>1 DEF Adds
  <2> QED
    BY <2>2
<1>4. ASSUME NEW n \in Good PROVE n + 1 \in Good
  <2>1. PICK f \in Sums(n) : TRUE
    BY <1>4
  <2> DEFINE g == [s \in UpTo(n + 1) |-> IF s \in UpTo(n) THEN f[s] ELSE Adds(f, items, cs, s)]
  <2>2. ASSUME NEW s \in UpTo(n + 1), s # {}
        PROVE  /\ s \ {OneOf(s)} \in UpTo(n)
               /\ s \ {OneOf(s)} \in UpTo(n + 1)
    BY <2>2, <1>1, <1>2
  <2>3. ASSUME NEW s \in UpTo(n + 1) PROVE g[s] = Adds(f, items, cs, s) /\ g[s] \in Nat
    <3>1. CASE s = {}
      BY <3>1, <2>1 DEF Adds
    <3>2. CASE s # {}
      <4>1. f[s \ {OneOf(s)}] \in Nat
        BY <3>2, <2>1, <2>2
      <4>2. Adds(f, items, cs, s) \in Nat
        BY <4>1, <3>2, <1>2 DEF Adds
      <4> QED
        BY <4>2, <2>1
    <3> QED
      BY <3>1, <3>2
  <2>4. ASSUME NEW s \in UpTo(n + 1) PROVE Adds(g, items, cs, s) = Adds(f, items, cs, s)
    <3>1. CASE s = {}
      BY <3>1 DEF Adds
    <3>2. CASE s # {}
      BY <3>2, <2>2 DEF Adds
    <3> QED
      BY <3>1, <3>2
  <2>5. g \in Sums(n + 1)
    BY <2>3, <2>4
  <2> HIDE DEF Sums, g
  <2> QED
    BY <2>5, <1>4
<1>5. Good = Nat
  BY <1>3, <1>4, EveryNumber
<1>6. Cardinality(cs) \in Nat /\ UpTo(Cardinality(cs)) = SUBSET cs
  BY FS_Subset, FS_CardinalityType
<1>7. PICK f \in Sums(Cardinality(cs)) : TRUE
  <2> HIDE DEF Sums
  <2> QED
    BY <1>5, <1>6
<1> QED
  BY <1>6, <1>7 DEF IsSum

\* The sum has the values its equation gives,
LEMMA SumIs ==
  ASSUME NEW cs, IsFiniteSet(cs), NEW items, \A c \in cs : items[c] \in Nat
  PROVE  \A s \in SUBSET cs : Sum(items, cs)[s] = Adds(Sum(items, cs), items, cs, s)
<1>1. IsSum(Sum(items, cs), items, cs)
  BY SumExists DEF Sum
<1> QED
  BY <1>1 DEF IsSum

\* which are numbers.
LEMMA SumIsNumber ==
  ASSUME NEW cs, IsFiniteSet(cs), NEW items, \A c \in cs : items[c] \in Nat
  PROVE  \A s \in SUBSET cs : Sum(items, cs)[s] \in Nat
<1>1. PICK f \in [SUBSET cs -> Nat] : IsSum(f, items, cs)
  BY SumExists
<1>2. IsSum(Sum(items, cs), items, cs)
  BY <1>1 DEF Sum
<1> DEFINE F == Sum(items, cs)
           Good == {s \in SUBSET cs : F[s] \in Nat}
<1> HIDE DEF F
<1>3. ASSUME NEW s \in SUBSET cs, \A x \in s : s \ {x} \in Good PROVE s \in Good
  <2>1. F[s] = Adds(F, items, cs, s)
    BY SumIs DEF F
  <2>2. CASE s = {}
    BY <2>1, <2>2 DEF Adds
  <2>3. CASE s # {}
    <3>1. OneOf(s) \in s
      BY <2>3, OneOfIn
    <3>2. F[s \ {OneOf(s)}] \in Nat /\ items[OneOf(s)] \in Nat
      BY <3>1, <1>3
    <3>3. F[s] = F[s \ {OneOf(s)}] + items[OneOf(s)]
      BY <2>1, <2>3 DEF Adds
    <3> QED
      BY <3>2, <3>3
  <2> QED
    BY <2>2, <2>3
<1>4. Good = SUBSET cs
  <2>1. Good \in SUBSET SUBSET cs
    OBVIOUS
  <2>2. \A s \in SUBSET cs : (\A x \in s : s \ {x} \in Good) => s \in Good
    BY <1>3
  <2> HIDE DEF Good
  <2> QED
    BY <2>1, <2>2, EverySubset
<1> QED
  BY <1>4 DEF F

\* Whichever member is counted last, the sum is the same.
LEMMA SumLess ==
  ASSUME NEW cs, IsFiniteSet(cs), NEW items, \A c \in cs : items[c] \in Nat
  PROVE  \A s \in SUBSET cs : \A c \in s :
           Sum(items, cs)[s] = Sum(items, cs)[s \ {c}] + items[c]
<1> DEFINE F == Sum(items, cs)
           Good == {s \in SUBSET cs : \A c \in s : F[s] = F[s \ {c}] + items[c]}
<1>1. \A s \in SUBSET cs : F[s] \in Nat /\ F[s] = Adds(F, items, cs, s)
  BY SumIs, SumIsNumber
<1> HIDE DEF F
<1>2. ASSUME NEW s \in SUBSET cs, \A x \in s : s \ {x} \in Good, NEW c \in s
      PROVE  F[s] = F[s \ {c}] + items[c]
  <2> DEFINE p == OneOf(s)
  <2>1. p \in s
    BY OneOfIn
  <2>2. F[s] = F[s \ {p}] + items[p]
    BY <1>1 DEF Adds
  <2> HIDE DEF p
  <2>3. CASE c = p
    BY <2>2, <2>3
  <2>4. CASE c # p
    <3>1. F[s \ {p}] = F[(s \ {p}) \ {c}] + items[c]
      BY <1>2, <2>1, <2>4
    <3>2. F[s \ {c}] = F[(s \ {c}) \ {p}] + items[p]
      BY <1>2, <2>1, <2>4
    <3>3. (s \ {c}) \ {p} = (s \ {p}) \ {c} /\ (s \ {p}) \ {c} \in SUBSET cs
      OBVIOUS
    <3>4. F[(s \ {p}) \ {c}] \in Nat /\ items[c] \in Nat /\ items[p] \in Nat
      BY <1>1, <3>3, <2>1
    <3> QED
      BY <2>2, <3>1, <3>2, <3>3, <3>4
  <2> QED
    BY <2>3, <2>4
<1>3. Good = SUBSET cs
  <2>1. Good \in SUBSET SUBSET cs
    OBVIOUS
  <2>2. \A s \in SUBSET cs : (\A x \in s : s \ {x} \in Good) => s \in Good
    BY <1>2
  <2> HIDE DEF Good
  <2> QED
    BY <2>1, <2>2, EverySubset
<1> QED
  BY <1>3 DEF F

\* The sum over some categories depends on their items alone.
LEMMA SumSame ==
  ASSUME NEW cs, IsFiniteSet(cs), NEW ds \in SUBSET cs, NEW items, NEW others,
         \A c \in cs : items[c] \in Nat, \A c \in ds : others[c] = items[c]
  PROVE  \A s \in SUBSET ds : Sum(others, ds)[s] = Sum(items, cs)[s]
<1> DEFINE F == Sum(items, cs)
           D == Sum(others, ds)
           Good == {s \in SUBSET ds : D[s] = F[s]}
<1>1. \A s \in SUBSET cs : F[s] = Adds(F, items, cs, s)
  BY SumIs
<1>2. IsFiniteSet(ds) /\ \A c \in ds : others[c] \in Nat
  BY FS_Subset
<1>3. \A s \in SUBSET ds : D[s] = Adds(D, others, ds, s)
  BY <1>2, SumIs
<1> HIDE DEF F, D
<1>4. ASSUME NEW s \in SUBSET ds, \A x \in s : s \ {x} \in Good PROVE D[s] = F[s]
  <2>1. CASE s = {}
    BY <2>1, <1>1, <1>3 DEF Adds
  <2>2. CASE s # {}
    <3>1. OneOf(s) \in s
      BY <2>2, OneOfIn
    <3>2. D[s \ {OneOf(s)}] = F[s \ {OneOf(s)}] /\ others[OneOf(s)] = items[OneOf(s)]
      BY <3>1, <1>4
    <3> QED
      BY <2>2, <3>2, <1>1, <1>3 DEF Adds
  <2> QED
    BY <2>1, <2>2
<1>5. Good = SUBSET ds
  <2>1. Good \in SUBSET SUBSET ds
    OBVIOUS
  <2>2. \A s \in SUBSET ds : (\A x \in s : s \ {x} \in Good) => s \in Good
    BY <1>4
  <2> HIDE DEF Good
  <2> QED
    BY <2>1, <2>2, <1>2, EverySubset
<1> QED
  BY <1>5 DEF F, D

-----------------------------------------------------------------------------
\* The categories' commitments add up to one category's and the others'.
LEMMA CommittedSplit ==
  ASSUME NEW cs, IsFiniteSet(cs), NEW items, \A x \in cs : items[x] \in Nat, NEW c \in cs
  PROVE  /\ Committed(items, cs) = Committed(items, cs \ {c}) + items[c]
         /\ Committed(items, cs \ {c}) \in Nat
<1>1. Sum(items, cs)[cs] = Sum(items, cs)[cs \ {c}] + items[c]
  BY SumLess
<1>2. Sum(items, cs \ {c})[cs \ {c}] = Sum(items, cs)[cs \ {c}]
  BY SumSame
<1>3. Sum(items, cs)[cs \ {c}] \in Nat
  BY SumIsNumber
<1> QED
  BY <1>1, <1>2, <1>3, CommittedIsSum

\* What a category is committed to does not count among the others.
LEMMA CommittedOthers ==
  ASSUME NEW cs, IsFiniteSet(cs), NEW items, NEW others,
         \A x \in cs : items[x] \in Nat, \A x \in cs : others[x] = items[x]
  PROVE  Committed(others, cs) = Committed(items, cs)
<1>1. \A s \in SUBSET cs : Sum(others, cs)[s] = Sum(items, cs)[s]
  <2>1. cs \in SUBSET cs
    OBVIOUS
  <2> QED
    BY <2>1, SumSame
<1>2. Sum(others, cs)[cs] = Sum(items, cs)[cs]
  BY <1>1
<1> QED
  BY <1>2, CommittedIsSum

\* Without commitments the sum is zero.
LEMMA NothingCommitted ==
  ASSUME NEW cs, IsFiniteSet(cs), NEW items, \A c \in cs : items[c] = 0
  PROVE  Committed(items, cs) = 0
<1> DEFINE F == Sum(items, cs)
           Good == {s \in SUBSET cs : F[s] = 0}
<1>1. \A s \in SUBSET cs : F[s] = Adds(F, items, cs, s)
  BY SumIs
<1> HIDE DEF F
<1>2. ASSUME NEW s \in SUBSET cs, \A x \in s : s \ {x} \in Good PROVE F[s] = 0
  <2>1. CASE s = {}
    BY <2>1, <1>1 DEF Adds
  <2>2. CASE s # {}
    <3>1. OneOf(s) \in s
      BY <2>2, OneOfIn
    <3>2. F[s \ {OneOf(s)}] = 0 /\ items[OneOf(s)] = 0
      BY <3>1, <1>2
    <3>3. F[s] = F[s \ {OneOf(s)}] + items[OneOf(s)]
      BY <2>2, <1>1 DEF Adds
    <3> QED
      BY <3>2, <3>3
  <2> QED
    BY <2>1, <2>2
<1>3. Good = SUBSET cs
  <2>1. Good \in SUBSET SUBSET cs
    OBVIOUS
  <2>2. \A s \in SUBSET cs : (\A x \in s : s \ {x} \in Good) => s \in Good
    BY <1>2
  <2> HIDE DEF Good
  <2> QED
    BY <2>1, <2>2, EverySubset
<1> QED
  BY <1>3, CommittedIsSum DEF F

-----------------------------------------------------------------------------
(* The inductive invariant: a handler that nobody has overtaken holds what   *)
(* follows from the tables as they still are, and every handler holds rows   *)
(* that exist.                                                               *)

Assignment == [vendor : Vendors, category : Categories, status : {"CONFIRMED", "REPLACED"}]

Tables ==
  /\ provider \in [Tasks -> Vendors \cup {NoVendor}]
  /\ row \in [Rows -> Assignment \cup {NoAssignment}]
  /\ item \in [Categories -> {0} \cup Quotes]
  /\ DOMAIN slot = Slots
  /\ raced \in BOOLEAN /\ takenOver \in BOOLEAN /\ unchecked \in BOOLEAN

Assigned == {r \in Rows : row[r] # NoAssignment}

Holds(s) ==
  CASE slot[s].pc = "bind"     -> {"spent", "plan"}
    [] slot[s].pc = "reassign" -> {"old"}
    [] slot[s].pc = "execute"  -> {"spent", "own"}
    [] OTHER                   -> {}

Assigns(s) ==
  /\ slot[s].pc \in {"bind", "reassign", "execute"}
  /\ DOMAIN slot[s] = {"pc", "overtaken", "task", "vendor", "found"} \cup Holds(s)
  /\ slot[s].overtaken \in BOOLEAN
  /\ slot[s].task \in Tasks
  /\ slot[s].vendor \in Vendors
  /\ slot[s].found \in {Insert, Kept} \cup Assigned
  /\ slot[s].pc = "reassign" => slot[s].old \in {NoRow} \cup Assigned
  /\ slot[s].pc = "execute" => slot[s].own \in SUBSET Assigned
  /\ slot[s].pc \in {"bind", "execute"} =>
       \A c \in DOMAIN slot[s].spent : slot[s].spent[c] \in {0} \cup Quotes

Computes(s) ==
  /\ slot[s].pc = "compute"
  /\ DOMAIN slot[s] = {"pc", "overtaken", "plan"}
  /\ slot[s].overtaken \in BOOLEAN

Typed(s) == slot[s] = Idle \/ Computes(s) \/ Assigns(s)

Current(s) ==
  /\ slot[s].pc = "bind" =>
       \E t \in Tasks, price \in Quotes :
         slot[s].task = t /\ slot[s].spent = Spent(t, price) /\ Affordable(t, price)
  /\ slot[s].pc \in {"bind", "reassign"} =>
       \E v \in Vendors : slot[s].vendor = v /\ slot[s].found \in Lookup(v)
  /\ slot[s].pc = "execute" =>
       \E v \in Vendors :
         slot[s].vendor = v /\ slot[s].found \in Lookup(v) \cup {r \in Rows : row[r].vendor # v}
  /\ slot[s].pc = "reassign" =>
       \E t \in Tasks :
         slot[s].task = t /\ provider[t] # slot[s].vendor /\ slot[s].old \in ToReplace(t)

HandlerOK(s) == Typed(s) /\ (slot[s].pc = "idle" \/ slot[s].overtaken \/ Current(s))

PlanInvariant ==
  /\ Tables
  /\ \A s \in Slots : HandlerOK(s)
  /\ BoundHasCommitment
  /\ BudgetRespected

-----------------------------------------------------------------------------
\* There are no more categories than tasks.
LEMMA CategoriesFinite == IsFiniteSet(Categories)
<1> DEFINE Good == {s \in SUBSET Tasks : IsFiniteSet({Category[t] : t \in s})}
<1>1. ASSUME NEW s \in SUBSET Tasks, \A x \in s : s \ {x} \in Good
      PROVE  IsFiniteSet({Category[t] : t \in s})
  <2>1. CASE s = {}
    <3>1. {Category[t] : t \in s} = {}
      BY <2>1
    <3> QED
      BY <3>1, FS_EmptySet
  <2>2. CASE s # {}
    <3>1. PICK x \in s : TRUE
      BY <2>2
    <3>2. IsFiniteSet({Category[t] : t \in s \ {x}})
      BY <1>1
    <3> DEFINE others == {Category[t] : t \in s \ {x}}
    <3>3. {Category[t] : t \in s} = others \cup {Category[x]}
      OBVIOUS
    <3>4. IsFiniteSet(others)
      BY <3>2
    <3> HIDE DEF others
    <3>5. IsFiniteSet(others \cup {Category[x]})
      BY <3>4, FS_AddElement
    <3> QED
      BY <3>3, <3>5
  <2> QED
    BY <2>1, <2>2
<1>2. Good \in SUBSET SUBSET Tasks
  OBVIOUS
<1>3. \A s \in SUBSET Tasks : (\A x \in s : s \ {x} \in Good) => s \in Good
  BY <1>1
<1>4. IsFiniteSet(Tasks)
  BY TasksAssumption
<1>5. Good = SUBSET Tasks
  <2> HIDE DEF Good
  <2> QED
    BY <1>2, <1>3, <1>4, EverySubset
<1>6. IsFiniteSet({Category[t] : t \in Tasks})
  BY <1>5
<1> QED
  BY <1>6 DEF Categories

\* A handler that has read nothing later than a commit is overtaken by it.
LEMMA BecomesOvertaken ==
  ASSUME NEW o \in Slots, Typed(o), DOMAIN slot = Slots, slot'[o] = Overtaken[o],
         \A r \in Rows : row[r] # NoAssignment => row'[r] # NoAssignment
  PROVE  HandlerOK(o)'
<1>1. Overtaken[o] = IF slot[o].pc = "idle" THEN Idle ELSE [slot[o] EXCEPT !.overtaken = TRUE]
  BY DEF Overtaken
<1>2. CASE slot[o] = Idle
  BY <1>1, <1>2 DEF HandlerOK, Typed, Idle
<1> DEFINE h == [slot[o] EXCEPT !.overtaken = TRUE]
<1>3. CASE Computes(o)
  <2>1. slot'[o] = h
    BY <1>1, <1>3 DEF Computes
  <2>2. h.pc = "compute" /\ DOMAIN h = DOMAIN slot[o] /\ h.overtaken = TRUE
    BY <1>3 DEF Computes
  <2> QED
    BY <1>3, <2>1, <2>2 DEF HandlerOK, Typed, Computes
<1>4. CASE Assigns(o)
  <2>1. slot'[o] = h
    BY <1>1, <1>4 DEF Assigns
  <2>2. DOMAIN h = DOMAIN slot[o] /\ h.overtaken = TRUE
    BY <1>4 DEF Assigns
  <2>3. \A f \in DOMAIN slot[o] : f # "overtaken" => h[f] = slot[o][f]
    OBVIOUS
  <2>4. /\ h.pc = slot[o].pc /\ h.task = slot[o].task /\ h.vendor = slot[o].vendor
        /\ h.found = slot[o].found
        /\ slot[o].pc = "reassign" => h.old = slot[o].old
        /\ slot[o].pc = "execute" => h.own = slot[o].own
        /\ slot[o].pc \in {"bind", "execute"} => h.spent = slot[o].spent
    BY <1>4 DEF Assigns, Holds
  <2> HIDE DEF h
  <2>5. Assigned \subseteq Assigned'
    BY DEF Assigned
  <2>6. Holds(o)' = Holds(o)
    BY <2>1, <2>4 DEF Holds
  <2>7. Assigns(o)'
    BY <1>4, <2>1, <2>2, <2>4, <2>5, <2>6 DEF Assigns
  <2> QED
    BY <2>1, <2>2, <2>7 DEF HandlerOK, Typed
<1> QED
  BY <1>2, <1>3, <1>4 DEF Typed

\* The sum is over the items of the state it is taken in.
LEMMA CommittedNext ==
  ASSUME NEW cs
  PROVE  Committed(item, cs)' = Committed(item', cs)
BY DEF Committed, FoldSet, MapThenFoldSet

\* As long as nothing a handler has read changes, it stays as it is.
LEMMA StaysCurrent ==
  ASSUME NEW o \in Slots, HandlerOK(o), slot'[o] = slot[o],
         provider' = provider, row' = row, item' = item
  PROVE  HandlerOK(o)'
<1>1. Assigned' = Assigned
  BY DEF Assigned
<1>2. Holds(o)' = Holds(o)
  BY DEF Holds
<1>3. Typed(o)'
  BY <1>1, <1>2 DEF HandlerOK, Typed, Computes, Assigns
<1>4. ASSUME Current(o) PROVE Current(o)'
  <2>1. ASSUME NEW v PROVE Lookup(v)' = Lookup(v)
    BY DEF Lookup, RowsOf
  <2>2. ASSUME NEW t PROVE ToReplace(t)' = ToReplace(t)
    BY DEF ToReplace, SoleTask, RowsOf
  <2>3. ASSUME NEW t, NEW price, Affordable(t, price)
        PROVE  Affordable(t, price)' /\ Spent(t, price)' = Spent(t, price)
    BY <2>3, CommittedNext DEF Affordable, Spent, Changes
  <2>4. CASE slot[o].pc = "bind"
    <3>1. PICK t \in Tasks, price \in Quotes :
            slot[o].task = t /\ slot[o].spent = Spent(t, price) /\ Affordable(t, price)
      BY <1>4, <2>4 DEF Current
    <3>2. slot'[o].task = t /\ slot'[o].spent = Spent(t, price)' /\ Affordable(t, price)'
      BY <2>3, <3>1
    <3>3. PICK v \in Vendors : slot[o].vendor = v /\ slot[o].found \in Lookup(v)
      BY <1>4, <2>4 DEF Current
    <3>4. slot'[o].vendor = v /\ slot'[o].found \in Lookup(v)'
      BY <2>1, <3>3
    <3> QED
      BY <2>4, <3>2, <3>4 DEF Current
  <2>5. CASE slot[o].pc = "reassign"
    <3>1. PICK t \in Tasks :
            slot[o].task = t /\ provider[t] # slot[o].vendor /\ slot[o].old \in ToReplace(t)
      BY <1>4, <2>5 DEF Current
    <3>2. slot'[o].task = t /\ provider'[t] # slot'[o].vendor /\ slot'[o].old \in ToReplace(t)'
      BY <2>2, <3>1
    <3>3. PICK v \in Vendors : slot[o].vendor = v /\ slot[o].found \in Lookup(v)
      BY <1>4, <2>5 DEF Current
    <3>4. slot'[o].vendor = v /\ slot'[o].found \in Lookup(v)'
      BY <2>1, <3>3
    <3> QED
      BY <2>5, <3>2, <3>4 DEF Current
  <2>6. CASE slot[o].pc = "execute"
    <3>1. PICK v \in Vendors :
            slot[o].vendor = v /\ slot[o].found \in Lookup(v) \cup {r \in Rows : row[r].vendor # v}
      BY <1>4, <2>6 DEF Current
    <3>2. slot'[o].vendor = v /\ slot'[o].found \in Lookup(v)' \cup {r \in Rows : row'[r].vendor # v}
      BY <2>1, <3>1
    <3> QED
      BY <2>6, <3>2 DEF Current
  <2> QED
    BY <2>4, <2>5, <2>6 DEF Current
<1> QED
  BY <1>3, <1>4 DEF HandlerOK

\* A handler that begins changes no table.
LEMMA Begins ==
  ASSUME PlanInvariant, NEW s \in Slots, NEW h, Begin(s, h), HandlerOK(s)',
         UNCHANGED <<provider, row, item, raced, takenOver, unchecked>>
  PROVE  PlanInvariant'
<1>1. Tables' /\ slot'[s] = h
  BY DEF PlanInvariant, Tables, Begin
<1>2. ASSUME NEW o \in Slots PROVE HandlerOK(o)'
  <2>1. CASE o = s
    BY <2>1
  <2>2. CASE o # s
    <3>1. slot'[o] = slot[o]
      BY <2>2 DEF Begin, PlanInvariant, Tables
    <3>2. HandlerOK(o)
      BY DEF PlanInvariant
    <3> QED
      BY <3>1, <3>2, StaysCurrent
  <2> QED
    BY <2>1, <2>2
<1>3. BoundHasCommitment' /\ BudgetRespected'
  BY CommittedNext DEF PlanInvariant, BoundHasCommitment, BudgetRespected
<1> QED
  BY <1>1, <1>2, <1>3 DEF PlanInvariant

\* An edit that changes neither assignments nor items overtakes every handler.
LEMMA Edits ==
  ASSUME PlanInvariant, slot' = Overtaken,
         UNCHANGED <<provider, row, item, raced, takenOver, unchecked>>
  PROVE  PlanInvariant'
<1>1. Tables'
  BY DEF PlanInvariant, Tables, Overtaken
<1>2. ASSUME NEW o \in Slots PROVE HandlerOK(o)'
  <2>1. Typed(o) /\ DOMAIN slot = Slots
    BY DEF PlanInvariant, HandlerOK, Tables
  <2> QED
    BY <2>1, BecomesOvertaken
<1>3. BoundHasCommitment' /\ BudgetRespected'
  BY CommittedNext DEF PlanInvariant, BoundHasCommitment, BudgetRespected
<1> QED
  BY <1>1, <1>2, <1>3 DEF PlanInvariant

\* A handler that commits is free, and every other one is overtaken.
LEMMA Commits ==
  ASSUME PlanInvariant, NEW s \in Slots, slot' = Ended(s),
         provider' \in [Tasks -> Vendors \cup {NoVendor}],
         row' \in [Rows -> Assignment \cup {NoAssignment}],
         item' \in [Categories -> {0} \cup Quotes],
         raced' \in BOOLEAN, takenOver' \in BOOLEAN, unchecked' \in BOOLEAN,
         \A r \in Rows : row[r] # NoAssignment => row'[r] # NoAssignment,
         BoundHasCommitment', BudgetRespected'
  PROVE  PlanInvariant'
<1>1. DOMAIN Overtaken = Slots
  BY DEF Overtaken
<1>2. Tables'
  BY <1>1 DEF Tables, Ended
<1>3. ASSUME NEW o \in Slots PROVE HandlerOK(o)'
  <2>1. CASE o = s
    <3>1. slot'[o] = Idle
      BY <2>1, <1>1 DEF Ended
    <3> QED
      BY <3>1 DEF HandlerOK, Typed, Idle
  <2>2. CASE o # s
    <3>1. slot'[o] = Overtaken[o]
      BY <2>2, <1>1 DEF Ended
    <3>2. Typed(o) /\ DOMAIN slot = Slots
      BY DEF PlanInvariant, HandlerOK, Tables
    <3> QED
      BY <3>1, <3>2, BecomesOvertaken
  <2> QED
    BY <2>1, <2>2
<1> QED
  BY <1>2, <1>3 DEF PlanInvariant

-----------------------------------------------------------------------------
\* What a confirmation leaves in the rows.
LEMMA Confirms ==
  ASSUME NEW rows \in [Rows -> Assignment \cup {NoAssignment}],
         \A r \in Rows : rows[r] = NoAssignment <=> r \in Unused,
         NEW v \in Vendors, NEW c \in Categories,
         NEW found \in {Insert, Kept} \cup {r \in Rows : rows[r] # NoAssignment},
         NEW new \in Confirmed(rows, found, v, c)
  PROVE  /\ new \in [Rows -> Assignment \cup {NoAssignment}]
         /\ \A r \in Rows : rows[r] # NoAssignment =>
              /\ new[r] # NoAssignment
              /\ new[r].vendor = rows[r].vendor
              /\ rows[r].status = "CONFIRMED" => new[r].status = "CONFIRMED"
         /\ found \in Rows => new[found].status = "CONFIRMED"
         /\ found = Insert =>
              \E r \in Rows : new[r].vendor = v /\ new[r].status = "CONFIRMED"
<1>1. {Insert, Kept} \cap Rows = {}
  BY VendorsAssumption
<1>2. NoAssignment \notin Assignment
  BY VendorsAssumption DEF Assignment, NoAssignment
<1>3. CASE found = Insert
  <2> DEFINE inserted == [vendor |-> v, category |-> c, status |-> "CONFIRMED"]
  <2>1. PICK r \in Unused : new = [rows EXCEPT ![r] = inserted]
    BY <1>3, VendorsAssumption DEF Confirmed
  <2>2. inserted \in Assignment /\ inserted.vendor = v /\ inserted.status = "CONFIRMED"
    BY DEF Assignment
  <2> HIDE DEF inserted
  <2>3. r \in Rows /\ rows[r] = NoAssignment
    BY DEF Unused
  <2>4. new[r] = inserted /\ \A o \in Rows \ {r} : new[o] = rows[o]
    BY <2>1, <2>3
  <2>5. new \in [Rows -> Assignment \cup {NoAssignment}]
    BY <2>1, <2>2
  <2> QED
    BY <1>1, <1>3, <2>2, <2>3, <2>4, <2>5
<1>4. CASE found = Kept /\ found # Insert
  <2>1. new = rows
    BY <1>4 DEF Confirmed
  <2> QED
    BY <1>1, <1>4, <2>1
<1>5. CASE found # Insert /\ found # Kept
  <2>1. found \in Rows /\ rows[found] \in Assignment
    BY <1>5
  <2>2. new = [rows EXCEPT ![found].status = "CONFIRMED"]
    BY <1>5 DEF Confirmed
  <2>3. PICK w : w = [rows[found] EXCEPT !.status = "CONFIRMED"]
    OBVIOUS
  <2>4. w \in Assignment /\ w.vendor = rows[found].vendor /\ w.status = "CONFIRMED"
    BY <2>1, <2>3 DEF Assignment
  <2>5. new = [rows EXCEPT ![found] = w]
    BY <2>2, <2>3, Zenon
  <2>6. new[found] = w /\ \A o \in Rows \ {found} : new[o] = rows[o]
    BY <2>1, <2>5
  <2>7. new \in [Rows -> Assignment \cup {NoAssignment}]
    BY <2>4, <2>5
  <2> QED
    BY <1>2, <1>5, <2>1, <2>4, <2>6, <2>7
<1> QED
  BY <1>3, <1>4, <1>5

-----------------------------------------------------------------------------
(* The handlers that begin *)

\* What is found for a vendor is a row of the vendor's, or tells that it has
\* none or a confirmed one.
LEMMA Finds ==
  ASSUME Tables, NEW v \in Vendors, NEW found \in Lookup(v)
  PROVE  /\ found \in {Insert, Kept} \cup Assigned
         /\ found \in Rows => row[found].vendor = v
         /\ found = Kept => \E r \in Rows : row[r].vendor = v /\ row[r].status = "CONFIRMED"
<1>1. \A r \in RowsOf(v) : r \in Assigned /\ row[r].vendor = v
  BY VendorsAssumption DEF RowsOf, Assigned, NoAssignment
<1>2. {Insert, Kept} \cap Rows = {} /\ Insert # Kept /\ RowsOf(v) \subseteq Rows
  BY VendorsAssumption DEF RowsOf
<1>3. CASE RowsOf(v) = {}
  BY <1>2, <1>3 DEF Lookup
<1>4. CASE RowsOf(v) # {}
  <2>1. PICK r \in RowsOf(v) : found = IF row[r].status = "CONFIRMED" THEN Kept ELSE r
    BY <1>4 DEF Lookup
  <2>2. CASE row[r].status = "CONFIRMED"
    BY <2>1, <2>2, <1>1, <1>2
  <2>3. CASE row[r].status # "CONFIRMED"
    BY <2>1, <2>3, <1>1, <1>2
  <2> QED
    BY <2>2, <2>3
<1> QED
  BY <1>3, <1>4

\* A binding or an approved action writes amounts to the items.
LEMMA Spends ==
  ASSUME Tables, NEW t \in Tasks, NEW price \in Quotes
  PROVE  /\ \A c \in DOMAIN Spent(t, price) : Spent(t, price)[c] \in {0} \cup Quotes
         /\ Written(Spent(t, price), item) = [item EXCEPT ![Category[t]] = price]
<1> DEFINE new == [item EXCEPT ![Category[t]] = price]
<1>1. new \in [Categories -> {0} \cup Quotes] /\ item \in [Categories -> {0} \cup Quotes]
  BY DEF Tables, Categories
<1>2. Spent(t, price) = [x \in {y \in Categories : new[y] # item[y]} |-> new[x]]
  BY <1>1 DEF Spent, Changes
<1> HIDE DEF new
<1>3. Written(Spent(t, price), item) = [x \in Categories |-> new[x]]
  <2>1. \A x \in Categories :
          (IF x \in DOMAIN Spent(t, price) THEN Spent(t, price)[x] ELSE item[x]) = new[x]
    BY <1>1, <1>2
  <2> QED
    BY <2>1, <1>1 DEF Written
<1>4. [x \in Categories |-> new[x]] = new
  BY <1>1
<1>5. \A c \in DOMAIN Spent(t, price) : Spent(t, price)[c] \in {0} \cup Quotes
  BY <1>1, <1>2
<1> QED
  BY <1>3, <1>4, <1>5 DEF new

\* The handlers begin: none of them breaks the invariant.
LEMMA ComputeKeeps ==
  ASSUME PlanInvariant, NEW s \in Slots, Compute(s)
  PROVE  PlanInvariant'
<1> DEFINE h == [pc |-> "compute", overtaken |-> FALSE, plan |-> Recalculated]
<1>1. Begin(s, h) /\ UNCHANGED <<provider, row, item, raced, takenOver, unchecked>>
  BY DEF Compute
<1>2. slot'[s] = h
  BY <1>1 DEF Begin, PlanInvariant, Tables
<1>3. HandlerOK(s)'
  BY <1>2 DEF HandlerOK, Typed, Computes, Current
<1> QED
  BY <1>1, <1>3, Begins

\* A binding that was feasible holds what follows from the tables.
LEMMA BindKeeps ==
  ASSUME PlanInvariant, NEW s \in Slots, NEW t \in Tasks, NEW v \in Vendors, NEW price \in Quotes,
         Bind(s, t, v, price)
  PROVE  PlanInvariant'
<1>1. PICK found \in Lookup(v) :
        Begin(s, [pc |-> "bind", overtaken |-> FALSE, task |-> t, vendor |-> v,
                  found |-> found, spent |-> Spent(t, price), plan |-> Recalculated])
  BY DEF Bind
<1> DEFINE h == [pc |-> "bind", overtaken |-> FALSE, task |-> t, vendor |-> v,
                 found |-> found, spent |-> Spent(t, price), plan |-> Recalculated]
<1>2. UNCHANGED <<provider, row, item, raced, takenOver, unchecked>> /\ Affordable(t, price)
  BY DEF Bind
<1>3. slot'[s] = h
  BY <1>1 DEF Begin, PlanInvariant, Tables
<1>4. found \in {Insert, Kept} \cup Assigned
      /\ \A c \in DOMAIN Spent(t, price) : Spent(t, price)[c] \in {0} \cup Quotes
  BY Finds, Spends DEF PlanInvariant
<1>5. Assigned' = Assigned /\ Lookup(v)' = Lookup(v) /\ Spent(t, price)' = Spent(t, price)
  BY <1>2 DEF Assigned, Lookup, RowsOf, Spent, Changes
<1>6. Affordable(t, price)'
  BY <1>2, CommittedNext DEF Affordable
<1>7. Assigns(s)'
  BY <1>3, <1>4, <1>5 DEF Assigns, Holds
<1>8. Current(s)'
  BY <1>3, <1>5, <1>6 DEF Current
<1>9. HandlerOK(s)'
  BY <1>7, <1>8 DEF HandlerOK, Typed
<1> QED
  BY <1>1, <1>2, <1>9, Begins

\* A reassignment holds rows that exist.
LEMMA ReassignKeeps ==
  ASSUME PlanInvariant, NEW s \in Slots, NEW t \in Tasks, NEW v \in Vendors, Reassign(s, t, v)
  PROVE  PlanInvariant'
<1>1. PICK found \in Lookup(v), old \in ToReplace(t) :
        Begin(s, [pc |-> "reassign", overtaken |-> FALSE, task |-> t, vendor |-> v,
                  found |-> found, old |-> old])
  BY DEF Reassign
<1> DEFINE h == [pc |-> "reassign", overtaken |-> FALSE, task |-> t, vendor |-> v,
                 found |-> found, old |-> old]
<1>2. UNCHANGED <<provider, row, item, raced, takenOver, unchecked>> /\ provider[t] # v
  BY DEF Reassign
<1>3. slot'[s] = h
  BY <1>1 DEF Begin, PlanInvariant, Tables
<1>4. found \in {Insert, Kept} \cup Assigned
  BY Finds DEF PlanInvariant
<1>5. old \in {NoRow} \cup Assigned
  <2>1. provider[t] \in Vendors \cup {NoVendor}
    BY DEF PlanInvariant, Tables
  <2>2. provider[t] # NoVendor => RowsOf(provider[t]) \subseteq Assigned
    BY <2>1 DEF RowsOf, Assigned, NoAssignment
  <2> QED
    BY <2>2 DEF ToReplace
<1>6. Assigned' = Assigned /\ Lookup(v)' = Lookup(v)
  BY <1>2 DEF Assigned, Lookup, RowsOf
<1>7. ToReplace(t)' = ToReplace(t)
  BY <1>2 DEF ToReplace, SoleTask, RowsOf
<1>8. Assigns(s)'
  BY <1>3, <1>4, <1>5, <1>6 DEF Assigns, Holds
<1>9. Current(s)'
  BY <1>2, <1>3, <1>6, <1>7 DEF Current
<1>10. HandlerOK(s)'
  BY <1>8, <1>9 DEF HandlerOK, Typed
<1> QED
  BY <1>1, <1>2, <1>10, Begins

\* So does an approved action.
LEMMA ExecuteKeeps ==
  ASSUME PlanInvariant, NEW s \in Slots, NEW t \in Tasks, NEW v \in Vendors, NEW price \in Quotes,
         Execute(s, t, v, price)
  PROVE  PlanInvariant'
<1> DEFINE ofCategory == {r \in Rows : row[r].category = Category[t]}
           own == {r \in RowsOf(v) : row[r].status # "CONFIRMED"}
<1>1. PICK found \in IF RowsOf(v) = {} /\ ofCategory # {} THEN ofCategory ELSE Lookup(v) :
        Begin(s, [pc |-> "execute", overtaken |-> FALSE, task |-> t, vendor |-> v,
                  found |-> found, spent |-> Spent(t, price), own |-> own])
  BY DEF Execute
<1> DEFINE h == [pc |-> "execute", overtaken |-> FALSE, task |-> t, vendor |-> v,
                 found |-> found, spent |-> Spent(t, price), own |-> own]
<1>2. UNCHANGED <<provider, row, item, raced, takenOver, unchecked>>
  BY DEF Execute
<1>3. slot'[s] = h
  BY <1>1 DEF Begin, PlanInvariant, Tables
<1>4. \A c \in DOMAIN Spent(t, price) : Spent(t, price)[c] \in {0} \cup Quotes
  BY Spends DEF PlanInvariant
<1>5. own \subseteq Assigned
  BY VendorsAssumption DEF RowsOf, Assigned, NoAssignment
<1>6. found \in {Insert, Kept} \cup Assigned
      /\ found \in Lookup(v) \cup {r \in Rows : row[r].vendor # v}
  <2>1. CASE RowsOf(v) = {} /\ ofCategory # {}
    <3>1. found \in Rows /\ row[found].category = Category[t] /\ row[found].vendor # v
      BY <1>1, <2>1 DEF RowsOf
    <3>2. row[found] # NoAssignment
      BY <3>1, VendorsAssumption DEF NoAssignment, Categories
    <3> QED
      BY <3>1, <3>2 DEF Assigned
  <2>2. CASE ~(RowsOf(v) = {} /\ ofCategory # {})
    <3>1. found \in Lookup(v)
      BY <1>1, <2>2
    <3> QED
      BY <3>1, Finds DEF PlanInvariant
  <2> QED
    BY <2>1, <2>2
<1>7. Assigned' = Assigned /\ Lookup(v)' = Lookup(v)
  BY <1>2 DEF Assigned, Lookup, RowsOf
<1> HIDE DEF own
<1>8. Assigns(s)'
  BY <1>3, <1>4, <1>5, <1>6, <1>7 DEF Assigns, Holds
<1>9. Current(s)'
  BY <1>2, <1>3, <1>6, <1>7 DEF Current
<1>10. HandlerOK(s)'
  BY <1>8, <1>9 DEF HandlerOK, Typed
<1> QED
  BY <1>1, <1>2, <1>10, Begins

-----------------------------------------------------------------------------
(* The handlers that commit *)

\* What is written into the items are amounts.
LEMMA WrittenAmounts ==
  ASSUME Tables, NEW spent, \A c \in DOMAIN spent : spent[c] \in {0} \cup Quotes
  PROVE  Written(spent, item) \in [Categories -> {0} \cup Quotes]
BY DEF Tables, Written

\* A price that was affordable leaves the commitments within the budget.
LEMMA StaysWithinBudget ==
  ASSUME Tables, NEW t \in Tasks, NEW price \in Quotes, Affordable(t, price)
  PROVE  Committed([item EXCEPT ![Category[t]] = price], Categories) <= TotalBudget
<1> DEFINE c == Category[t]
           new == [item EXCEPT ![c] = price]
<1>1. c \in Categories /\ IsFiniteSet(Categories) /\ IsFiniteSet(Categories \ {c})
  BY CategoriesFinite, FS_Subset DEF Categories
<1>2. /\ \A x \in Categories : item[x] \in Nat /\ new[x] \in Nat
      /\ \A x \in Categories \ {c} : new[x] = item[x]
      /\ new[c] = price
  <2>1. price \in Nat /\ item \in [Categories -> {0} \cup Quotes] /\ {0} \cup Quotes \subseteq Nat
    BY MoneyAssumption DEF Tables
  <2> HIDE DEF c
  <2>2. new[c] = price /\ \A x \in Categories \ {c} : new[x] = item[x]
    BY <2>1, <1>1
  <2>3. \A x \in Categories : item[x] \in Nat
    BY <2>1
  <2>4. \A x \in Categories : new[x] \in Nat
    BY <2>1, <2>2, <2>3
  <2> QED
    BY <2>2, <2>3, <2>4
<1>3. Committed(item, Categories \ {c}) + price <= TotalBudget
  BY DEF Affordable
<1> HIDE DEF new, c
<1>4. Committed(new, Categories) = Committed(new, Categories \ {c}) + new[c]
  BY <1>1, <1>2, CommittedSplit
<1>5. Committed(new, Categories \ {c}) = Committed(item, Categories \ {c})
  BY <1>1, <1>2, CommittedOthers
<1> QED
  BY <1>2, <1>3, <1>4, <1>5 DEF new, c

\* The handlers commit: a schedule touches no assignment.
LEMMA ComputedKeeps ==
  ASSUME PlanInvariant, NEW s \in Slots, Computed(s)
  PROVE  PlanInvariant'
<1>1. slot[s].overtaken \in BOOLEAN
  BY DEF PlanInvariant, HandlerOK, Typed, Computes, Assigns, Computed, Idle
<1>2. raced' \in BOOLEAN
  BY <1>1 DEF Computed, PlanInvariant, Tables
<1>3. UNCHANGED <<provider, row, item, takenOver, unchecked>> /\ (raced => raced') /\ slot' = Ended(s)
  BY DEF Computed
<1>4. BoundHasCommitment' /\ BudgetRespected'
  BY <1>3, CommittedNext DEF PlanInvariant, BoundHasCommitment, BudgetRespected
<1> QED
  BY <1>2, <1>3, <1>4, Commits DEF PlanInvariant, Tables

\* A binding confirms an assignment and stays within the budget.
LEMMA BoundKeeps ==
  ASSUME PlanInvariant, NEW s \in Slots, Bound(s)
  PROVE  PlanInvariant'
<1>1. Tables /\ Assigns(s) /\ slot[s].pc = "bind"
  BY DEF PlanInvariant, HandlerOK, Typed, Computes, Bound, Idle
<1>2. PICK t, v, found, spent :
        slot[s].task = t /\ slot[s].vendor = v /\ slot[s].found = found /\ slot[s].spent = spent
  OBVIOUS
<1>3. /\ t \in Tasks /\ v \in Vendors /\ Category[t] \in Categories
      /\ found \in {Insert, Kept} \cup {r \in Rows : row[r] # NoAssignment}
      /\ \A c \in DOMAIN spent : spent[c] \in {0} \cup Quotes
  BY <1>1, <1>2 DEF Assigns, Assigned, Categories
<1>4. /\ provider' = [provider EXCEPT ![t] = v]
      /\ row' \in Confirmed(row, found, v, Category[t])
      /\ item' = Written(spent, item)
      /\ raced' = (raced \/ slot[s].overtaken)
      /\ UNCHANGED <<takenOver, unchecked>>
      /\ slot' = Ended(s)
  BY <1>2 DEF Bound
<1>5. \A r \in Rows : row[r] = NoAssignment <=> r \in Unused
  BY DEF Unused
<1>6. /\ row' \in [Rows -> Assignment \cup {NoAssignment}]
      /\ \A r \in Rows : row[r] # NoAssignment =>
           /\ row'[r] # NoAssignment
           /\ row'[r].vendor = row[r].vendor
           /\ row[r].status = "CONFIRMED" => row'[r].status = "CONFIRMED"
      /\ found \in Rows => row'[found].status = "CONFIRMED"
      /\ found = Insert => \E r \in Rows : row'[r].vendor = v /\ row'[r].status = "CONFIRMED"
  <2>1. row \in [Rows -> Assignment \cup {NoAssignment}]
    BY <1>1 DEF Tables
  <2> QED
    BY <2>1, <1>3, <1>4, <1>5, Confirms
<1>7. provider' \in [Tasks -> Vendors \cup {NoVendor}]
  BY <1>1, <1>3, <1>4 DEF Tables
<1>8. item' \in [Categories -> {0} \cup Quotes]
  BY <1>1, <1>3, <1>4, WrittenAmounts
<1>9. raced' \in BOOLEAN /\ takenOver' \in BOOLEAN /\ unchecked' \in BOOLEAN
  BY <1>1, <1>4 DEF Tables, Assigns
<1>10. ASSUME ~raced' PROVE ~raced /\ Current(s)
  BY <1>1, <1>4, <1>10 DEF PlanInvariant, HandlerOK, Assigns, Tables
<1>11. ASSUME ~raced', ~takenOver', NEW o \in Tasks, provider'[o] # NoVendor
       PROVE  \E r \in Rows : row'[r].vendor = provider'[o] /\ row'[r].status = "CONFIRMED"
  <2>1. CASE o = t
    <3>1. found \in Lookup(v) /\ provider'[o] = v
      BY <2>1, <1>1, <1>2, <1>4, <1>10, <1>11 DEF Current, Tables
    <3>2. found \in Rows => row[found].vendor = v
      BY <1>1, <1>3, <3>1, Finds
    <3>3. found = Kept => \E r \in Rows : row[r].vendor = v /\ row[r].status = "CONFIRMED"
      BY <1>1, <1>3, <3>1, Finds
    <3>4. \A r \in Rows : row[r].vendor = v => row[r] # NoAssignment
      BY <1>3, VendorsAssumption DEF NoAssignment
    <3>5. CASE found = Insert
      BY <3>1, <3>5, <1>6
    <3>6. CASE found = Kept
      BY <3>1, <3>3, <3>4, <3>6, <1>6
    <3>7. CASE found \in Rows
      BY <3>1, <3>2, <3>4, <3>7, <1>6
    <3> QED
      BY <1>3, <3>5, <3>6, <3>7
  <2>2. CASE o # t
    <3>1. provider'[o] = provider[o] /\ provider[o] # NoVendor
      BY <2>2, <1>1, <1>4, <1>11 DEF Tables
    <3>2. PICK r \in Rows : row[r].vendor = provider[o] /\ row[r].status = "CONFIRMED"
      BY <3>1, <1>4, <1>10, <1>11 DEF PlanInvariant, BoundHasCommitment
    <3>3. row[r] # NoAssignment
      BY <3>2 DEF NoAssignment
    <3> QED
      BY <3>1, <3>2, <3>3, <1>6
  <2> QED
    BY <2>1, <2>2
<1>12. BoundHasCommitment'
  BY <1>11 DEF BoundHasCommitment
<1>13. ASSUME ~raced' PROVE Committed(item', Categories) <= TotalBudget
  <2>1. PICK price \in Quotes : spent = Spent(t, price) /\ Affordable(t, price)
    BY <1>1, <1>2, <1>10, <1>13 DEF Current
  <2>2. item' = [item EXCEPT ![Category[t]] = price]
    BY <2>1, <1>1, <1>3, <1>4, Spends
  <2> QED
    BY <2>1, <2>2, <1>1, <1>3, StaysWithinBudget
<1>14. BudgetRespected'
  BY <1>13, CommittedNext DEF BudgetRespected
<1> QED
  BY <1>4, <1>6, <1>7, <1>8, <1>9, <1>12, <1>14, Commits

\* A reassignment replaces a row that no other task depends on.
LEMMA ReassignedKeeps ==
  ASSUME PlanInvariant, NEW s \in Slots, Reassigned(s)
  PROVE  PlanInvariant'
<1>1. Tables /\ Assigns(s) /\ slot[s].pc = "reassign"
  BY DEF PlanInvariant, HandlerOK, Typed, Computes, Reassigned, Idle
<1>2. PICK t, v, found, old :
        slot[s].task = t /\ slot[s].vendor = v /\ slot[s].found = found /\ slot[s].old = old
  OBVIOUS
<1>3. PICK rows : rows = IF old = NoRow THEN row ELSE [row EXCEPT ![old].status = "REPLACED"]
  OBVIOUS
<1>4. /\ t \in Tasks /\ v \in Vendors /\ Category[t] \in Categories
      /\ found \in {Insert, Kept} \cup {r \in Rows : row[r] # NoAssignment}
      /\ old \in {NoRow} \cup {r \in Rows : row[r] # NoAssignment}
      /\ NoRow \notin Rows
  BY <1>1, <1>2, VendorsAssumption DEF Assigns, Assigned, Categories
<1>5. /\ provider' = [provider EXCEPT ![t] = v]
      /\ row' \in Confirmed(rows, found, v, Category[t])
      /\ raced' = (raced \/ slot[s].overtaken)
      /\ UNCHANGED <<item, takenOver, unchecked>>
      /\ slot' = Ended(s)
  BY <1>2, <1>3 DEF Reassigned
<1>6. /\ rows \in [Rows -> Assignment \cup {NoAssignment}]
      /\ \A r \in Rows : rows[r] = NoAssignment <=> row[r] = NoAssignment
      /\ \A r \in Rows : row[r] # NoAssignment => rows[r].vendor = row[r].vendor
      /\ \A r \in Rows : r # old => rows[r] = row[r]
  <2>1. row \in [Rows -> Assignment \cup {NoAssignment}]
    BY <1>1 DEF Tables
  <2>2. CASE old = NoRow
    BY <2>1, <2>2, <1>3
  <2>3. CASE old # NoRow
    <3>1. old \in Rows /\ row[old] \in Assignment
      BY <2>1, <2>3, <1>4
    <3>2. PICK w : w = [row[old] EXCEPT !.status = "REPLACED"]
      OBVIOUS
    <3>3. w \in Assignment /\ w.vendor = row[old].vendor
      BY <3>1, <3>2 DEF Assignment
    <3>4. rows = [row EXCEPT ![old] = w]
      BY <2>3, <1>3, <3>2, Zenon
    <3>5. rows[old] = w /\ \A r \in Rows \ {old} : rows[r] = row[r]
      BY <2>1, <3>1, <3>4
    <3>6. w # NoAssignment /\ row[old] # NoAssignment
      BY <3>1, <3>3, VendorsAssumption DEF Assignment, NoAssignment
    <3> QED
      BY <2>1, <3>1, <3>3, <3>4, <3>5, <3>6
  <2> QED
    BY <2>2, <2>3
<1>7. \A r \in Rows : rows[r] = NoAssignment <=> r \in Unused
  BY <1>6 DEF Unused
<1>8. /\ row' \in [Rows -> Assignment \cup {NoAssignment}]
      /\ \A r \in Rows : row[r] # NoAssignment =>
           /\ row'[r] # NoAssignment
           /\ row'[r].vendor = row[r].vendor
           /\ r # old /\ row[r].status = "CONFIRMED" => row'[r].status = "CONFIRMED"
      /\ found \in Rows => row'[found].status = "CONFIRMED"
      /\ found = Insert => \E r \in Rows : row'[r].vendor = v /\ row'[r].status = "CONFIRMED"
  <2>1. found \in {Insert, Kept} \cup {r \in Rows : rows[r] # NoAssignment}
    BY <1>4, <1>6
  <2>2. /\ row' \in [Rows -> Assignment \cup {NoAssignment}]
        /\ \A r \in Rows : rows[r] # NoAssignment =>
             /\ row'[r] # NoAssignment
             /\ row'[r].vendor = rows[r].vendor
             /\ rows[r].status = "CONFIRMED" => row'[r].status = "CONFIRMED"
        /\ found \in Rows => row'[found].status = "CONFIRMED"
        /\ found = Insert => \E r \in Rows : row'[r].vendor = v /\ row'[r].status = "CONFIRMED"
    BY <2>1, <1>4, <1>5, <1>6, <1>7, Confirms
  <2> QED
    BY <2>2, <1>6
<1>9. provider' \in [Tasks -> Vendors \cup {NoVendor}]
  BY <1>1, <1>4, <1>5 DEF Tables
<1>10. raced' \in BOOLEAN /\ takenOver' \in BOOLEAN /\ unchecked' \in BOOLEAN
  BY <1>1, <1>5 DEF Tables, Assigns
<1>11. ASSUME ~raced' PROVE ~raced /\ Current(s)
  BY <1>1, <1>5, <1>11 DEF PlanInvariant, HandlerOK, Assigns, Tables
<1>12. ASSUME ~raced', ~takenOver', NEW o \in Tasks, provider'[o] # NoVendor
       PROVE  \E r \in Rows : row'[r].vendor = provider'[o] /\ row'[r].status = "CONFIRMED"
  <2>1. found \in Lookup(v) /\ provider[t] # v /\ old \in ToReplace(t)
    BY <1>1, <1>2, <1>11, <1>12 DEF Current
  <2>2. old # NoRow =>
          /\ row[old].vendor = provider[t]
          /\ \A p \in Tasks \ {t} : provider[p] # provider[t]
    <3>1. SUFFICES ASSUME old # NoRow
                   PROVE  /\ row[old].vendor = provider[t]
                          /\ \A p \in Tasks \ {t} : provider[p] # provider[t]
      OBVIOUS
    <3>2. SoleTask(t) /\ old \in RowsOf(provider[t])
      BY <2>1, <3>1 DEF ToReplace
    <3> QED
      BY <3>2 DEF SoleTask, RowsOf
  <2>3. CASE o = t
    <3>1. provider'[o] = v
      BY <2>3, <1>1, <1>5 DEF Tables
    <3>2. found \in Rows => row[found].vendor = v
      BY <1>1, <1>4, <2>1, Finds
    <3>3. found = Kept => \E r \in Rows : row[r].vendor = v /\ row[r].status = "CONFIRMED"
      BY <1>1, <1>4, <2>1, Finds
    <3>4. \A r \in Rows : row[r].vendor = v => row[r] # NoAssignment /\ r # old
      BY <1>4, <2>1, <2>2, VendorsAssumption DEF NoAssignment
    <3>5. CASE found = Insert
      BY <3>1, <3>5, <1>8
    <3>6. CASE found = Kept
      BY <3>1, <3>3, <3>4, <3>6, <1>8
    <3>7. CASE found \in Rows
      BY <3>1, <3>2, <3>4, <3>7, <1>8
    <3> QED
      BY <1>4, <3>5, <3>6, <3>7
  <2>4. CASE o # t
    <3>1. provider'[o] = provider[o] /\ provider[o] # NoVendor
      BY <2>4, <1>1, <1>5, <1>12 DEF Tables
    <3>2. PICK r \in Rows : row[r].vendor = provider[o] /\ row[r].status = "CONFIRMED"
      BY <3>1, <1>5, <1>11, <1>12 DEF PlanInvariant, BoundHasCommitment
    <3>3. row[r] # NoAssignment
      BY <3>2 DEF NoAssignment
    <3>4. r # old
      BY <2>2, <2>4, <3>2, <1>4
    <3> QED
      BY <3>1, <3>2, <3>3, <3>4, <1>8
  <2> QED
    BY <2>3, <2>4
<1>13. BoundHasCommitment'
  BY <1>12 DEF BoundHasCommitment
<1>14. BudgetRespected'
  BY <1>5, CommittedNext DEF PlanInvariant, BudgetRespected
<1>15. item' \in [Categories -> {0} \cup Quotes]
  BY <1>1, <1>5 DEF Tables
<1> QED
  BY <1>5, <1>8, <1>9, <1>10, <1>13, <1>14, <1>15, Commits

\* An approved action that takes a row over, or commits an amount, says so.
LEMMA ExecutedKeeps ==
  ASSUME PlanInvariant, NEW s \in Slots, Executed(s)
  PROVE  PlanInvariant'
<1>1. Tables /\ Assigns(s) /\ slot[s].pc = "execute"
  BY DEF PlanInvariant, HandlerOK, Typed, Computes, Executed, Idle
<1>2. PICK t, v, found, spent, own :
        /\ slot[s].task = t /\ slot[s].vendor = v /\ slot[s].found = found
        /\ slot[s].spent = spent /\ slot[s].own = own
  OBVIOUS
<1>3. /\ t \in Tasks /\ v \in Vendors /\ Category[t] \in Categories
      /\ found \in {Insert, Kept} \cup {r \in Rows : row[r] # NoAssignment}
      /\ own \subseteq {r \in Rows : row[r] # NoAssignment}
      /\ \A c \in DOMAIN spent : spent[c] \in {0} \cup Quotes
      /\ Insert \notin Rows /\ Kept \notin Rows
  BY <1>1, <1>2, VendorsAssumption DEF Assigns, Assigned, Categories
<1>4. /\ provider' = [provider EXCEPT ![t] = v]
      /\ item' = Written(spent, item)
      /\ takenOver' = (takenOver \/ (found \in Rows /\ row[found].vendor # v))
      /\ unchecked' = TRUE
      /\ raced' = (raced \/ slot[s].overtaken)
      /\ slot' = Ended(s)
  BY <1>2 DEF Executed
<1>5. PICK rows \in Confirmed(row, found, v, Category[t]) :
        /\ row' = [r \in Rows |-> row'[r]]
        /\ \A r \in Rows :
             /\ r = found => row'[r] = [rows[r] EXCEPT !.vendor = v]
             /\ r \in own \ {found} => row'[r] = [rows[r] EXCEPT !.status = "CONFIRMED"]
             /\ r \notin {found} \cup own => row'[r] = rows[r]
  <2>1. PICK rows \in Confirmed(row, slot[s].found, slot[s].vendor, Category[slot[s].task]) :
          row' = [r \in Rows |-> CASE r = slot[s].found -> [rows[r] EXCEPT !.vendor = slot[s].vendor]
                                   [] r \in slot[s].own \ {slot[s].found} ->
                                        [rows[r] EXCEPT !.status = "CONFIRMED"]
                                   [] OTHER -> rows[r]]
    BY DEF Executed
  <2>2. rows \in Confirmed(row, found, v, Category[t])
    BY <1>2, <2>1
  <2>3. ASSUME NEW r \in Rows
        PROVE  /\ r = slot[s].found => row'[r] = [rows[r] EXCEPT !.vendor = slot[s].vendor]
               /\ r \in slot[s].own \ {slot[s].found} =>
                    row'[r] = [rows[r] EXCEPT !.status = "CONFIRMED"]
               /\ r \notin {slot[s].found} \cup slot[s].own => row'[r] = rows[r]
    BY <2>1
  <2>4. row' = [r \in Rows |-> row'[r]]
    BY <2>1
  <2> QED
    BY <1>2, <2>2, <2>3, <2>4
<1>6. /\ rows \in [Rows -> Assignment \cup {NoAssignment}]
      /\ \A r \in Rows : row[r] # NoAssignment =>
           /\ rows[r] # NoAssignment
           /\ rows[r].vendor = row[r].vendor
           /\ row[r].status = "CONFIRMED" => rows[r].status = "CONFIRMED"
      /\ found \in Rows => rows[found].status = "CONFIRMED"
      /\ found = Insert => \E r \in Rows : rows[r].vendor = v /\ rows[r].status = "CONFIRMED"
  <2>1. row \in [Rows -> Assignment \cup {NoAssignment}]
    BY <1>1 DEF Tables
  <2>2. \A r \in Rows : row[r] = NoAssignment <=> r \in Unused
    BY DEF Unused
  <2> QED
    BY <2>1, <2>2, <1>3, Confirms

<1>7. ASSUME NEW r \in Rows
      PROVE  /\ row'[r] \in Assignment \cup {NoAssignment}
             /\ row[r] # NoAssignment =>
                  /\ row'[r] # NoAssignment
                  /\ r # found => row'[r].vendor = row[r].vendor
                  /\ row[r].status = "CONFIRMED" => row'[r].status = "CONFIRMED"
             /\ r = found => row'[r].vendor = v /\ row'[r].status = "CONFIRMED"
             /\ r \notin {found} \cup own => row'[r] = rows[r]
  <2>1. v # NoVendor
    BY <1>3, VendorsAssumption
  <2>2. CASE r = found
    <3>1. rows[r] \in Assignment /\ rows[r].status = "CONFIRMED"
      BY <2>2, <1>3, <1>6
    <3>2. row'[r] = [rows[r] EXCEPT !.vendor = v]
      BY <2>2, <1>5
    <3>3. row'[r] \in Assignment /\ row'[r].vendor = v /\ row'[r].status = "CONFIRMED"
      BY <3>1, <3>2, <1>3 DEF Assignment
    <3> QED
      BY <2>1, <2>2, <3>3 DEF NoAssignment
  <2>3. CASE r \in own /\ r # found
    <3>1. row[r] # NoAssignment /\ rows[r] \in Assignment /\ rows[r].vendor = row[r].vendor
      BY <2>3, <1>3, <1>6
    <3>2. row'[r] = [rows[r] EXCEPT !.status = "CONFIRMED"]
      BY <2>3, <1>5
    <3>3. row'[r] \in Assignment /\ row'[r].vendor = row[r].vendor /\ row'[r].status = "CONFIRMED"
      BY <3>1, <3>2 DEF Assignment
    <3>4. row'[r] # NoAssignment
      BY <3>3, VendorsAssumption DEF Assignment, NoAssignment
    <3> QED
      BY <2>3, <3>3, <3>4
  <2>4. CASE r \notin {found} \cup own
    <3>1. row'[r] = rows[r]
      BY <2>4, <1>5
    <3> QED
      BY <2>4, <3>1, <1>6
  <2> QED
    BY <2>2, <2>3, <2>4
<1>8. row' \in [Rows -> Assignment \cup {NoAssignment}]
  BY <1>5, <1>7
<1>9. provider' \in [Tasks -> Vendors \cup {NoVendor}] /\ item' \in [Categories -> {0} \cup Quotes]
  BY <1>1, <1>3, <1>4, WrittenAmounts DEF Tables
<1>10. raced' \in BOOLEAN /\ takenOver' \in BOOLEAN /\ unchecked' \in BOOLEAN
  BY <1>1, <1>4 DEF Tables, Assigns
<1>11. ASSUME ~raced' PROVE ~raced /\ Current(s)
  BY <1>1, <1>4, <1>11 DEF PlanInvariant, HandlerOK, Assigns, Tables
<1>12. ASSUME ~raced', ~takenOver', NEW o \in Tasks, provider'[o] # NoVendor
       PROVE  \E r \in Rows : row'[r].vendor = provider'[o] /\ row'[r].status = "CONFIRMED"
  <2>1. ~takenOver /\ (found \in Rows => row[found].vendor = v)
    BY <1>4, <1>12
  <2>2. CASE o = t
    <3>1. provider'[o] = v
      BY <2>2, <1>1, <1>4 DEF Tables
    <3>2. found \in Lookup(v) \/ found \in Rows
      BY <1>1, <1>2, <1>11, <1>12 DEF Current
    <3>3. CASE found \in Rows
      BY <3>1, <3>3, <1>7
    <3>4. CASE found = Kept
      <4>1. PICK r \in Rows : row[r].vendor = v /\ row[r].status = "CONFIRMED"
        BY <3>2, <3>4, <1>1, <1>3, Finds
      <4>2. row[r] # NoAssignment /\ r # found
        BY <4>1, <3>4, <1>3 DEF NoAssignment
      <4> QED
        BY <3>1, <4>1, <4>2, <1>7
    <3>5. CASE found = Insert
      <4>1. PICK r \in Rows : rows[r].vendor = v /\ rows[r].status = "CONFIRMED"
        BY <3>5, <1>6
      <4>2. CASE r \in own
        <5>1. row[r] # NoAssignment /\ r # found
          BY <4>2, <3>5, <1>3
        <5>2. row[r].vendor = v /\ row'[r].vendor = v
          BY <4>1, <5>1, <1>6, <1>7
        <5>3. row'[r].status = "CONFIRMED"
          <6>1. rows[r] \in Assignment
            BY <5>1, <1>6
          <6>2. row'[r] = [rows[r] EXCEPT !.status = "CONFIRMED"]
            BY <4>2, <5>1, <1>5
          <6> QED
            BY <6>1, <6>2 DEF Assignment
        <5> QED
          BY <3>1, <5>2, <5>3
      <4>3. CASE r \notin own
        <5>1. row'[r] = rows[r]
          BY <4>3, <3>5, <1>3, <1>7
        <5> QED
          BY <3>1, <4>1, <5>1
      <4> QED
        BY <4>2, <4>3
    <3> QED
      BY <1>3, <3>3, <3>4, <3>5
  <2>3. CASE o # t
    <3>1. provider'[o] = provider[o] /\ provider[o] # NoVendor
      BY <2>3, <1>1, <1>4, <1>12 DEF Tables
    <3>2. PICK r \in Rows : row[r].vendor = provider[o] /\ row[r].status = "CONFIRMED"
      BY <3>1, <2>1, <1>11, <1>12 DEF PlanInvariant, BoundHasCommitment
    <3>3. row[r] # NoAssignment
      BY <3>2 DEF NoAssignment
    <3>4. row'[r].vendor = row[r].vendor /\ row'[r].status = "CONFIRMED"
      BY <2>1, <3>2, <3>3, <1>7
    <3> QED
      BY <3>1, <3>2, <3>4
  <2> QED
    BY <2>2, <2>3
<1>13. BoundHasCommitment'
  BY <1>12 DEF BoundHasCommitment
<1>14. BudgetRespected'
  BY <1>4 DEF BudgetRespected
<1>15. \A r \in Rows : row[r] # NoAssignment => row'[r] # NoAssignment
  BY <1>7
<1> QED
  BY <1>4, <1>8, <1>9, <1>10, <1>13, <1>14, <1>15, Commits

-----------------------------------------------------------------------------
\* A new plan binds nothing and ends every handler.
LEMMA ReplanKeeps ==
  ASSUME PlanInvariant, Replan
  PROVE  PlanInvariant'
<1>1. /\ provider' = [t \in Tasks |-> NoVendor]
      /\ item' = [c \in Categories |-> 0]
      /\ slot' = [s \in Slots |-> Idle]
      /\ UNCHANGED <<row, raced, takenOver, unchecked>>
  BY DEF Replan
<1>2. Tables'
  BY <1>1 DEF PlanInvariant, Tables
<1>3. \A s \in Slots : HandlerOK(s)'
  BY <1>1 DEF HandlerOK, Typed, Idle
<1>4. BoundHasCommitment'
  BY <1>1 DEF BoundHasCommitment
<1>5. BudgetRespected'
  <2>1. Committed(item', Categories) = 0
    BY <1>1, CategoriesFinite, NothingCommitted
  <2> QED
    BY <2>1, CommittedNext, MoneyAssumption DEF BudgetRespected
<1> QED
  BY <1>2, <1>3, <1>4, <1>5 DEF PlanInvariant

\* The invariant holds at the start,
LEMMA PlanStarts ==
  ASSUME Init
  PROVE  PlanInvariant
<1>1. Tables
  BY DEF Init, Tables
<1>2. \A s \in Slots : HandlerOK(s)
  BY DEF Init, HandlerOK, Typed, Idle
<1>3. BoundHasCommitment
  BY DEF Init, BoundHasCommitment
<1>4. BudgetRespected
  <2>1. Committed(item, Categories) = 0
    BY CategoriesFinite, NothingCommitted DEF Init
  <2> QED
    BY <2>1, MoneyAssumption DEF BudgetRespected
<1> QED
  BY <1>1, <1>2, <1>3, <1>4 DEF PlanInvariant

\* under a stutter,
LEMMA PlanStutters ==
  ASSUME PlanInvariant, UNCHANGED vars
  PROVE  PlanInvariant'
<1>1. UNCHANGED <<provider, row, item, slot, raced, takenOver, unchecked>>
  BY DEF vars
<1>2. \A s \in Slots : HandlerOK(s)'
  BY <1>1, StaysCurrent DEF PlanInvariant
<1>3. BoundHasCommitment' /\ BudgetRespected'
  BY <1>1, CommittedNext DEF PlanInvariant, BoundHasCommitment, BudgetRespected
<1> QED
  BY <1>1, <1>2, <1>3 DEF PlanInvariant, Tables

\* and after every step.
LEMMA PlanSteps ==
  ASSUME PlanInvariant, Next
  PROVE  PlanInvariant'
<1>1. ASSUME NEW p \in Tasks, NEW t \in Tasks, AddDependency(p, t) PROVE PlanInvariant'
  BY <1>1, Edits DEF AddDependency
<1>2. ASSUME NEW t \in Tasks, NEW d \in Durations, ChangeTask(t, d) PROVE PlanInvariant'
  BY <1>2, Edits DEF ChangeTask
<1>3. ASSUME NEW t \in Tasks, NEW shift \in Shifts, NEW window, ShiftTask(t, shift, window)
      PROVE  PlanInvariant'
  BY <1>3, Edits DEF ShiftTask
<1>4. ASSUME Edit PROVE PlanInvariant'
  BY <1>1, <1>2, <1>3, <1>4, ReplanKeeps DEF Edit
<1>5. ASSUME NEW s \in Slots, Handle(s) PROVE PlanInvariant'
  BY <1>5, ComputeKeeps, ComputedKeeps, BindKeeps, BoundKeeps, ReassignKeeps, ReassignedKeeps,
     ExecuteKeeps, ExecutedKeeps DEF Handle
<1> QED
  BY <1>4, <1>5 DEF Next

-----------------------------------------------------------------------------
\* The inductive invariant holds throughout: handlers nobody has overtaken hold
\* what follows from the tables, the bindings have their commitments, and the
\* commitments are within the budget.
THEOREM PlanSafe == Spec => []PlanInvariant
<1>1. Init => PlanInvariant
  BY PlanStarts
<1>2. PlanInvariant /\ [Next]_vars => PlanInvariant'
  BY PlanSteps, PlanStutters
<1> QED
  BY <1>1, <1>2, PTL DEF Spec

\* For every plan, every set of vendors and rows and any number of handlers: a
\* bound task's provider has a CONFIRMED assignment, except after a race or once
\* an action took a row over.
THEOREM BindingsCommit == Spec => []BoundHasCommitment
<1>1. PlanInvariant => BoundHasCommitment
  BY DEF PlanInvariant
<1> QED
  BY <1>1, PlanSafe, PTL

\* Whatever the categories and the prices, users' bindings keep the sum of what
\* the items are committed to within the budget.
THEOREM BudgetKept == Spec => []BudgetRespected
<1>1. PlanInvariant => BudgetRespected
  BY DEF PlanInvariant
<1> QED
  BY <1>1, PlanSafe, PTL

-----------------------------------------------------------------------------
(* The second inductive invariant, of the schedule and its slack: wherever   *)
(* adjustments put the tasks, a handler that nobody has overtaken holds what *)
(* the engines make of the plan as it still is, and a schedule and a slack   *)
(* that are fresh are those of the plan.                                     *)

InTime(ts, windows) == \A t \in DOMAIN windows : windows[t] \in ts

PlanRead(s) ==
  /\ InTime(Placements, slot[s].plan.schedule)
  /\ InTime(Nat, slot[s].plan.slack)
  /\ slot[s].overtaken \/ (IsAcyclic(Graph) /\ slot[s].plan = Recalculated)

HoldsPlan(s) == slot[s].pc \in {"compute", "bind"} => PlanRead(s)

UpToDate ==
  /\ IsAcyclic(Graph)
  /\ schedule = Schedule(Graph, DefaultDuration)
  /\ slack = Slack(Graph)

PlanTimes ==
  /\ deps \subseteq Edges
  /\ dur \in [Tasks -> Durations]
  /\ schedule \in [Tasks -> Placements]
  /\ slack \in [Tasks -> Nat \cup {NoSlack}]
  /\ requests \in 0 .. MaxRequests
  /\ fresh \in BOOLEAN

TimesInvariant ==
  /\ PlanTimes
  /\ fresh => UpToDate
  /\ \A s \in Slots : HoldsPlan(s)

-----------------------------------------------------------------------------
\* The plan with some dependencies and durations.
PlanGraph(es, d) == [nodes |-> Tasks, edges |-> es, dur |-> d, lag |-> [e \in Edges |-> 0]]

\* It is a graph the engines can read.
LEMMA PlanGraphs ==
  ASSUME NEW es \in SUBSET Edges, NEW d \in [Tasks -> Durations]
  PROVE  /\ IsGraph(PlanGraph(es, d))
         /\ PlanGraph(es, d).nodes = Tasks /\ PlanGraph(es, d).edges = es /\ PlanGraph(es, d).dur = d
<1> DEFINE g == PlanGraph(es, d)
<1>1. g.nodes = Tasks /\ g.edges = es /\ g.dur = d /\ g.lag = [e \in Edges |-> 0]
  BY DEF PlanGraph
<1> HIDE DEF g
<1>2. IsFiniteSet(Tasks) /\ Tasks \subseteq Nat
  BY TasksAssumption
<1>3. es \subseteq Tasks \X Tasks
  BY DEF Edges
<1>4. d \in [Tasks -> Nat]
  BY TimesAssumption
<1>5. \A e \in es : g.lag[e] \in Nat
  BY <1>1
<1> QED
  BY <1>1, <1>2, <1>3, <1>4, <1>5 DEF IsGraph, g

\* What the engines make of a plan without cycles, or without dependencies.
LEMMA PlanComputed ==
  ASSUME NEW es \in SUBSET Edges, NEW d \in [Tasks -> Durations],
         IsAcyclic(PlanGraph(es, d)) \/ es = {}
  PROVE  /\ Schedule(PlanGraph(es, d), DefaultDuration) \in [Tasks -> Placements]
         /\ IsAcyclic(PlanGraph(es, d)) => Slack(PlanGraph(es, d)) \in [Tasks -> Nat]
<1> DEFINE g == PlanGraph(es, d)
<1>1. IsGraph(g) /\ g.nodes = Tasks /\ g.edges = es
  BY PlanGraphs
<1> HIDE DEF g
<1>2. \E rank : Ranked(g, rank)
  <2>1. CASE IsAcyclic(g)
    BY <1>1, <2>1, AcyclicRanked
  <2>2. CASE es = {}
    <3>1. \A t \in g.nodes : Preds(g, t) = {}
      BY <1>1, <2>2 DEF Preds
    <3>2. g.nodes # {} => Cardinality(g.nodes) # 0 /\ Cardinality(g.nodes) \in Nat
      BY <1>1, FS_EmptySet, FS_CardinalityType DEF IsGraph
    <3>3. \A t \in g.nodes : 1 \in 1 .. Cardinality(g.nodes)
      BY <3>2
    <3>4. Ranked(g, [t \in g.nodes |-> 1])
      BY <3>1, <3>3 DEF Ranked
    <3> QED
      BY <3>4
  <2> QED
    BY <2>1, <2>2 DEF g
<1>3. DefaultDuration \in Nat
  BY TimesAssumption
<1>4. Schedule(g, DefaultDuration) \in [g.nodes -> {w \in [from : Nat, to : Nat] : w.from <= w.to}]
  BY <1>1, <1>2, <1>3, Schedules
<1>5. IsAcyclic(g) => Slack(g) \in [g.nodes -> Nat]
  BY <1>1, SlackIsNatural
<1> QED
  BY <1>1, <1>4, <1>5 DEF g, Placements

\* The plan of the tables is one of them.
LEMMA GraphIs == Graph = PlanGraph(deps, dur)
BY DEF Graph, PlanGraph

\* A column that is written where it differs from what it is to be becomes that.
LEMMA ChangesAre ==
  ASSUME NEW S, NEW T, NEW new \in [S -> T], NEW old, old = [x \in S |-> old[x]]
  PROVE  InTime(T, Changes(new, old)) /\ Written(Changes(new, old), old) = new
BY DEF InTime, Changes, Written

\* What is written to some rows of a column leaves a column.
LEMMA WrittenIs ==
  ASSUME NEW S, NEW T, NEW old \in [S -> T], NEW writes, InTime(T, writes)
  PROVE  Written(writes, old) \in [S -> T]
BY DEF InTime, Written

-----------------------------------------------------------------------------
\* A handler that is overtaken holds a plan that need no longer be that of the
\* tables.
LEMMA PlanOvertaken ==
  ASSUME PlanInvariant, NEW o \in Slots, HoldsPlan(o), slot'[o] = Overtaken[o] \/ slot'[o] = Idle
  PROVE  HoldsPlan(o)'
<1>1. CASE slot'[o] = Idle
  BY <1>1 DEF HoldsPlan, Idle
<1>2. CASE slot'[o] = Overtaken[o] /\ slot[o].pc = "idle"
  BY <1>2 DEF HoldsPlan, Overtaken, Idle
<1>3. CASE slot'[o] = Overtaken[o] /\ slot[o].pc # "idle"
  <2>1. slot'[o] = [slot[o] EXCEPT !.overtaken = TRUE]
    BY <1>3 DEF Overtaken
  <2>2. Typed(o)
    BY DEF PlanInvariant, HandlerOK
  <2>3. "overtaken" \in DOMAIN slot[o] /\ "pc" \in DOMAIN slot[o]
    BY <1>3, <2>2 DEF Typed, Idle, Computes, Assigns
  <2>4. slot'[o].overtaken = TRUE /\ slot'[o].pc = slot[o].pc
    BY <2>1, <2>3
  <2>5. ASSUME slot[o].pc \in {"compute", "bind"} PROVE slot'[o].plan = slot[o].plan
    <3>1. "plan" \in DOMAIN slot[o]
      BY <2>2, <2>5 DEF Typed, Idle, Computes, Assigns, Holds
    <3> QED
      BY <2>1, <3>1
  <2> QED
    BY <2>4, <2>5 DEF HoldsPlan, PlanRead
<1> QED
  BY <1>1, <1>2, <1>3

\* As long as the plan is not changed, a handler's is that of the tables.
LEMMA PlanStays ==
  ASSUME NEW o \in Slots, HoldsPlan(o), slot'[o] = slot[o], UNCHANGED <<deps, dur, schedule, slack>>
  PROVE  HoldsPlan(o)'
<1>1. Graph' = Graph
  BY DEF Graph
<1>2. Recalculated' = Recalculated
  BY <1>1 DEF Recalculated
<1>3. IsAcyclic(Graph)' = IsAcyclic(Graph)
  BY <1>1
<1> QED
  BY <1>2, <1>3 DEF HoldsPlan, PlanRead

\* A handler that begins changes no times.
LEMMA TimesBegin ==
  ASSUME PlanInvariant, TimesInvariant, NEW s \in Slots, NEW h, Begin(s, h), Request,
         UNCHANGED <<deps, dur, schedule, slack, fresh>>, HoldsPlan(s)'
  PROVE  TimesInvariant'
<1>1. PlanTimes'
  BY BoundsAssumption DEF TimesInvariant, PlanTimes, Request
<1>2. fresh' => UpToDate'
  <2>1. Graph' = Graph
    BY DEF Graph
  <2>2. UpToDate' = UpToDate
    BY <2>1 DEF UpToDate
  <2> QED
    BY <2>2 DEF TimesInvariant
<1>3. ASSUME NEW o \in Slots PROVE HoldsPlan(o)'
  <2>1. CASE o # s
    <3>1. slot'[o] = slot[o]
      BY <2>1 DEF Begin, PlanInvariant, Tables
    <3> QED
      BY <3>1, PlanStays DEF TimesInvariant
  <2> QED
    BY <2>1
<1> QED
  BY <1>1, <1>2, <1>3 DEF TimesInvariant

\* A commit overtakes every handler that goes on.
LEMMA TimesCommit ==
  ASSUME PlanInvariant, TimesInvariant, PlanTimes', fresh' => UpToDate',
         \A o \in Slots : slot'[o] = Overtaken[o] \/ slot'[o] = Idle
  PROVE  TimesInvariant'
<1>1. ASSUME NEW o \in Slots PROVE HoldsPlan(o)'
  BY PlanOvertaken DEF TimesInvariant
<1> QED
  BY <1>1 DEF TimesInvariant

\* A commit overtakes every other handler.
LEMMA AllOvertaken ==
  ASSUME NEW s \in Slots, slot' = Ended(s)
  PROVE  \A o \in Slots : slot'[o] = Overtaken[o] \/ slot'[o] = Idle
BY DEF Ended, Overtaken

\* What is written back from a plan that was read.
LEMMA TimesWritten ==
  ASSUME PlanInvariant, TimesInvariant, NEW s \in Slots, slot[s].pc \in {"compute", "bind"},
         schedule' = Written(slot[s].plan.schedule, schedule),
         slack' = Written(slot[s].plan.slack, slack),
         fresh' = ~slot[s].overtaken, slot' = Ended(s), UNCHANGED <<deps, dur, requests>>
  PROVE  TimesInvariant'
<1>1. PlanRead(s)
  BY DEF TimesInvariant, HoldsPlan
<1>2. Graph' = Graph
  BY DEF Graph
<1>3. /\ deps \in SUBSET Edges /\ dur \in [Tasks -> Durations]
      /\ schedule \in [Tasks -> Placements] /\ slack \in [Tasks -> Nat \cup {NoSlack}]
  BY DEF TimesInvariant, PlanTimes
<1>4. slot[s].overtaken \in BOOLEAN
  BY DEF PlanInvariant, HandlerOK, Typed, Idle, Computes, Assigns
<1>5. InTime(Nat \cup {NoSlack}, slot[s].plan.slack)
  BY <1>1 DEF PlanRead, InTime
<1>6. schedule' \in [Tasks -> Placements] /\ slack' \in [Tasks -> Nat \cup {NoSlack}]
  BY <1>1, <1>3, <1>5, WrittenIs DEF PlanRead
<1>7. PlanTimes'
  BY <1>4, <1>6 DEF TimesInvariant, PlanTimes
<1>8. ASSUME ~slot[s].overtaken PROVE UpToDate'
  <2>1. IsAcyclic(Graph) /\ slot[s].plan = Recalculated
    BY <1>1, <1>8 DEF PlanRead
  <2>2. /\ Schedule(Graph, DefaultDuration) \in [Tasks -> Placements]
        /\ Slack(Graph) \in [Tasks -> Nat]
    BY <1>3, <2>1, GraphIs, PlanComputed
  <2>3. /\ slot[s].plan.schedule = Changes(Schedule(Graph, DefaultDuration), schedule)
        /\ slot[s].plan.slack = Changes(Slack(Graph), slack)
    BY <2>1 DEF Recalculated
  <2>4. schedule' = Schedule(Graph, DefaultDuration)
    <3> DEFINE new == Schedule(Graph, DefaultDuration)
    <3>1. schedule = [t \in Tasks |-> schedule[t]] /\ new \in [Tasks -> Placements]
      BY <1>3, <2>2
    <3>2. schedule' = Written(Changes(new, schedule), schedule)
      BY <2>3
    <3> HIDE DEF new
    <3>3. Written(Changes(new, schedule), schedule) = new
      BY <3>1, ChangesAre
    <3>4. schedule' = new
      BY <3>2, <3>3
    <3> QED
      BY <3>4 DEF new
  <2>5. slack' = Slack(Graph)
    <3> DEFINE new == Slack(Graph)
    <3>1. slack = [t \in Tasks |-> slack[t]] /\ new \in [Tasks -> Nat]
      BY <1>3, <2>2
    <3>2. slack' = Written(Changes(new, slack), slack)
      BY <2>3
    <3> HIDE DEF new
    <3>3. Written(Changes(new, slack), slack) = new
      BY <3>1, ChangesAre
    <3>4. slack' = new
      BY <3>2, <3>3
    <3> QED
      BY <3>4 DEF new
  <2> QED
    BY <1>2, <2>1, <2>4, <2>5 DEF UpToDate
<1> QED
  BY <1>7, <1>8, AllOvertaken, TimesCommit

\* What is read of a plan without cycles.
LEMMA PlanIsRead ==
  ASSUME TimesInvariant, IsAcyclic(Graph), NEW s \in Slots,
         slot'[s].plan = Recalculated, UNCHANGED <<deps, dur, schedule, slack>>
  PROVE  HoldsPlan(s)'
<1>1. /\ deps \in SUBSET Edges /\ dur \in [Tasks -> Durations]
      /\ schedule \in [Tasks -> Placements] /\ slack \in [Tasks -> Nat \cup {NoSlack}]
  BY DEF TimesInvariant, PlanTimes
<1>2. Schedule(Graph, DefaultDuration) \in [Tasks -> Placements] /\ Slack(Graph) \in [Tasks -> Nat]
  BY <1>1, GraphIs, PlanComputed
<1>3. /\ slot'[s].plan.schedule = Changes(Schedule(Graph, DefaultDuration), schedule)
      /\ slot'[s].plan.slack = Changes(Slack(Graph), slack)
  BY DEF Recalculated
<1>4. InTime(Placements, slot'[s].plan.schedule) /\ InTime(Nat, slot'[s].plan.slack)
  BY <1>1, <1>2, <1>3, ChangesAre
<1>5. Graph' = Graph
  BY DEF Graph
<1>6. IsAcyclic(Graph)' /\ Recalculated' = Recalculated
  BY <1>5 DEF Recalculated
<1> QED
  BY <1>4, <1>6 DEF HoldsPlan, PlanRead

-----------------------------------------------------------------------------
\* The second invariant holds at the start,
LEMMA TimesStart ==
  ASSUME Init
  PROVE  TimesInvariant
<1>1. deps = {} /\ deps \in SUBSET Edges /\ dur \in [Tasks -> Durations]
  BY TimesAssumption DEF Init
<1>2. schedule \in [Tasks -> Placements]
  <2>1. schedule = Schedule(Graph, DefaultDuration)
    BY DEF Init
  <2> QED
    BY <1>1, <2>1, GraphIs, PlanComputed
<1>3. slack \in [Tasks -> Nat \cup {NoSlack}] /\ fresh = FALSE /\ requests \in 0 .. MaxRequests
  BY BoundsAssumption DEF Init
<1>4. \A s \in Slots : HoldsPlan(s)
  BY DEF Init, HoldsPlan, Idle
<1> QED
  BY <1>1, <1>2, <1>3, <1>4 DEF TimesInvariant, PlanTimes

\* under a stutter,
LEMMA TimesStutter ==
  ASSUME TimesInvariant, UNCHANGED vars
  PROVE  TimesInvariant'
<1>1. UNCHANGED <<deps, dur, schedule, slack, requests, fresh, slot>>
  BY DEF vars
<1>2. Graph' = Graph
  BY <1>1 DEF Graph
<1>3. UpToDate' = UpToDate
  BY <1>1, <1>2 DEF UpToDate
<1>4. \A s \in Slots : HoldsPlan(s)'
  BY <1>1, PlanStays DEF TimesInvariant
<1> QED
  BY <1>1, <1>3, <1>4 DEF TimesInvariant, PlanTimes

\* What is left of a slack is not less than none.
LEMMA UsedUpIs ==
  ASSUME NEW left \in Nat, NEW shift \in Int
  PROVE  UsedUp(left, shift) \in Nat
<1>1. \E m \in {0, left - shift} : \A x \in {0, left - shift} : m >= x
  <2>1. CASE left - shift <= 0
    BY <2>1
  <2>2. CASE left - shift >= 0
    BY <2>2
  <2> QED
    BY <2>1, <2>2
<1>2. Max({0, left - shift}) \in {0, left - shift} /\ Max({0, left - shift}) >= 0
  BY <1>1 DEF Max
<1> QED
  BY <1>2 DEF UsedUp

\* Requests are counted up to their bound.
LEMMA RequestCounts ==
  ASSUME PlanTimes, Request
  PROVE  requests' \in 0 .. MaxRequests
BY BoundsAssumption DEF PlanTimes, Request

\* after every edit,
LEMMA TimesEdits ==
  ASSUME PlanInvariant, TimesInvariant, Edit
  PROVE  TimesInvariant'
<1>1. PlanTimes
  BY DEF TimesInvariant
<1>2. ASSUME slot' = Overtaken PROVE \A o \in Slots : slot'[o] = Overtaken[o] \/ slot'[o] = Idle
  BY <1>2
<1>3. ASSUME NEW p \in Tasks, NEW s \in Tasks, AddDependency(p, s) PROVE TimesInvariant'
  <2>1. /\ Request /\ deps' = deps \cup {<<p, s>>} /\ <<p, s>> \in Edges
        /\ fresh' = FALSE /\ slot' = Overtaken /\ UNCHANGED <<dur, schedule, slack>>
    BY <1>3 DEF AddDependency
  <2>2. requests' \in 0 .. MaxRequests
    BY <1>1, <2>1, RequestCounts
  <2>3. PlanTimes'
    BY <1>1, <2>1, <2>2 DEF PlanTimes
  <2> QED
    BY <1>2, <2>1, <2>3, TimesCommit
<1>4. ASSUME NEW t \in Tasks, NEW d \in Durations, ChangeTask(t, d) PROVE TimesInvariant'
  <2>1. /\ Request /\ dur' = [dur EXCEPT ![t] = d]
        /\ fresh' = FALSE /\ slot' = Overtaken /\ UNCHANGED <<deps, schedule, slack>>
    BY <1>4 DEF ChangeTask
  <2>2. requests' \in 0 .. MaxRequests
    BY <1>1, <2>1, RequestCounts
  <2>3. PlanTimes'
    BY <1>1, <2>1, <2>2 DEF PlanTimes
  <2> QED
    BY <1>2, <2>1, <2>3, TimesCommit
<1>5. ASSUME NEW t \in Tasks, NEW shift \in Shifts,
             NEW from \in Moments \cup {schedule[t].from + shift},
             NEW to \in Moments \cup {schedule[t].to + shift},
             ShiftTask(t, shift, [from |-> from, to |-> to])
      PROVE  TimesInvariant'
  <2>1. shift \in Int /\ Moments \subseteq Int
    BY TimesAssumption
  <2>2. schedule[t].from \in Int /\ schedule[t].to \in Int
    BY <1>1 DEF PlanTimes, Placements
  <2>3. [from |-> from, to |-> to] \in Placements
    BY <2>1, <2>2 DEF Placements
  <2>4. schedule' = [schedule EXCEPT ![t] = [from |-> from, to |-> to]]
    BY <1>5 DEF ShiftTask
  <2>7. schedule' \in [Tasks -> Placements]
    BY <1>1, <2>3, <2>4 DEF PlanTimes
  <2>8. slack' \in [Tasks -> Nat \cup {NoSlack}]
    <3>1. slack' = [slack EXCEPT ![t] = IF slack[t] = NoSlack \/ shift = 0 THEN slack[t]
                                        ELSE UsedUp(slack[t], shift)]
      BY <1>5 DEF ShiftTask
    <3>2. slack \in [Tasks -> Nat \cup {NoSlack}]
      BY <1>1 DEF PlanTimes
    <3>3. slack[t] = NoSlack \/ UsedUp(slack[t], shift) \in Nat
      BY <2>1, <3>2, UsedUpIs
    <3> QED
      BY <3>1, <3>2, <3>3
  <2>9. Request /\ fresh' = FALSE /\ slot' = Overtaken /\ UNCHANGED <<deps, dur>>
    BY <1>5 DEF ShiftTask
  <2>10. requests' \in 0 .. MaxRequests
    BY <1>1, <2>9, RequestCounts
  <2>11. PlanTimes'
    BY <1>1, <2>7, <2>8, <2>9, <2>10 DEF PlanTimes
  <2> QED
    BY <1>2, <2>9, <2>11, TimesCommit
<1>6. ASSUME Replan PROVE TimesInvariant'
  <2>1. {} \in SUBSET Edges /\ Baseline \in [Tasks -> Durations]
    BY TimesAssumption
  <2>2. [Graph EXCEPT !.edges = {}, !.dur = Baseline] = PlanGraph({}, Baseline)
    <3> DEFINE l == [x \in Edges |-> 0]
    <3>1. Graph = [nodes |-> Tasks, edges |-> deps, dur |-> dur, lag |-> l]
      BY DEF Graph
    <3> HIDE DEF l
    <3>2. PICK new : new = [Graph EXCEPT !.edges = {}, !.dur = Baseline]
      OBVIOUS
    <3>3. new = [f \in {"nodes", "edges", "dur", "lag"} |-> new[f]]
      BY <3>1, <3>2
    <3>4. new.nodes = Tasks /\ new.lag = l /\ new.dur = Baseline
      BY <3>1, <3>2
    <3>5. new.edges = {}
      BY <3>1, <3>2
    <3>6. new = [nodes |-> Tasks, edges |-> {}, dur |-> Baseline, lag |-> l]
      BY <3>3, <3>4, <3>5
    <3> QED
      BY <3>2, <3>6 DEF PlanGraph, l
  <2>3. schedule' = Schedule(PlanGraph({}, Baseline), DefaultDuration)
    BY <1>6, <2>2 DEF Replan
  <2>4. schedule' \in [Tasks -> Placements]
    BY <2>1, <2>3, PlanComputed
  <2>5. /\ Request /\ fresh' = FALSE /\ deps' = {} /\ dur' = Baseline
        /\ slack' = [t \in Tasks |-> NoSlack] /\ slot' = [s \in Slots |-> Idle]
    BY <1>6 DEF Replan
  <2>6. requests' \in 0 .. MaxRequests
    BY <1>1, <2>5, RequestCounts
  <2>7. PlanTimes'
    BY <2>1, <2>4, <2>5, <2>6 DEF PlanTimes
  <2>8. \A o \in Slots : slot'[o] = Idle
    BY <2>5
  <2> QED
    BY <2>5, <2>7, <2>8, TimesCommit
<1> QED
  BY <1>3, <1>4, <1>5, <1>6 DEF Edit

\* and after every step of a handler.
LEMMA TimesHandled ==
  ASSUME PlanInvariant, TimesInvariant, NEW s \in Slots, Handle(s)
  PROVE  TimesInvariant'
<1>1. PlanTimes /\ DOMAIN slot = Slots
  BY DEF TimesInvariant, PlanInvariant, Tables
<1>2. ASSUME NEW h, Begin(s, h) PROVE slot'[s] = h
  BY <1>1, <1>2 DEF Begin
<1>3. CASE Compute(s)
  <2> DEFINE h == [pc |-> "compute", overtaken |-> FALSE, plan |-> Recalculated]
  <2>1. /\ Begin(s, h) /\ Request /\ IsAcyclic(Graph)
        /\ UNCHANGED <<deps, dur, schedule, slack, fresh>>
    BY <1>3 DEF Compute, Free
  <2>2. slot'[s].plan = Recalculated
    BY <1>2, <2>1
  <2>3. HoldsPlan(s)'
    BY <2>1, <2>2, PlanIsRead
  <2> HIDE DEF h
  <2> QED
    BY <2>1, <2>3, TimesBegin
<1>4. CASE Computed(s)
  BY <1>4, TimesWritten DEF Computed
<1>5. ASSUME NEW t \in Tasks, NEW v \in Vendors, NEW price \in Quotes, Bind(s, t, v, price)
      PROVE  TimesInvariant'
  <2>1. PICK found \in Lookup(v) :
          Begin(s, [pc |-> "bind", overtaken |-> FALSE, task |-> t, vendor |-> v,
                    found |-> found, spent |-> Spent(t, price), plan |-> Recalculated])
    BY <1>5 DEF Bind
  <2> DEFINE h == [pc |-> "bind", overtaken |-> FALSE, task |-> t, vendor |-> v,
                   found |-> found, spent |-> Spent(t, price), plan |-> Recalculated]
  <2>2. /\ Begin(s, h) /\ Request /\ IsAcyclic(Graph)
        /\ UNCHANGED <<deps, dur, schedule, slack, fresh>>
    BY <1>5, <2>1 DEF Bind, Free
  <2>3. slot'[s].plan = Recalculated
    BY <1>2, <2>2
  <2>4. HoldsPlan(s)'
    BY <2>2, <2>3, PlanIsRead
  <2> HIDE DEF h
  <2> QED
    BY <2>2, <2>4, TimesBegin
<1>6. CASE Bound(s)
  BY <1>6, TimesWritten DEF Bound
<1>7. ASSUME NEW h, h.pc \in {"reassign", "execute"}, Begin(s, h), Request,
             UNCHANGED <<deps, dur, schedule, slack, fresh>>
      PROVE  TimesInvariant'
  <2>1. HoldsPlan(s)'
    BY <1>2, <1>7 DEF HoldsPlan
  <2> QED
    BY <1>7, <2>1, TimesBegin
<1>8. ASSUME NEW t \in Tasks, NEW v \in Vendors, Reassign(s, t, v) PROVE TimesInvariant'
  <2>1. PICK found, old :
          Begin(s, [pc |-> "reassign", overtaken |-> FALSE, task |-> t, vendor |-> v,
                    found |-> found, old |-> old])
    BY <1>8 DEF Reassign
  <2> DEFINE h == [pc |-> "reassign", overtaken |-> FALSE, task |-> t, vendor |-> v,
                   found |-> found, old |-> old]
  <2>2. /\ h.pc = "reassign" /\ Begin(s, h) /\ Request
        /\ UNCHANGED <<deps, dur, schedule, slack, fresh>>
    BY <1>8, <2>1 DEF Reassign, Free
  <2> HIDE DEF h
  <2> QED
    BY <1>7, <2>2
<1>9. ASSUME NEW t \in Tasks, NEW v \in Vendors, NEW price \in Quotes, Execute(s, t, v, price)
      PROVE  TimesInvariant'
  <2> DEFINE own == {r \in RowsOf(v) : row[r].status # "CONFIRMED"}
  <2>1. PICK found :
          Begin(s, [pc |-> "execute", overtaken |-> FALSE, task |-> t, vendor |-> v,
                    found |-> found, spent |-> Spent(t, price), own |-> own])
    BY <1>9 DEF Execute
  <2> DEFINE h == [pc |-> "execute", overtaken |-> FALSE, task |-> t, vendor |-> v,
                   found |-> found, spent |-> Spent(t, price), own |-> own]
  <2>2. /\ h.pc = "execute" /\ Begin(s, h) /\ Request
        /\ UNCHANGED <<deps, dur, schedule, slack, fresh>>
    BY <1>9, <2>1 DEF Execute, Free
  <2> HIDE DEF h
  <2> QED
    BY <1>7, <2>2
<1>10. ASSUME slot' = Ended(s), UNCHANGED <<requests, deps, dur, schedule, slack, fresh>>
       PROVE  TimesInvariant'
  <2>1. PlanTimes'
    BY <1>1, <1>10 DEF PlanTimes
  <2>2. Graph' = Graph
    BY <1>10 DEF Graph
  <2>3. fresh' => UpToDate'
    BY <1>10, <2>2 DEF TimesInvariant, UpToDate
  <2> QED
    BY <1>10, <2>1, <2>3, AllOvertaken, TimesCommit
<1>11. CASE Reassigned(s)
  BY <1>10, <1>11 DEF Reassigned
<1>12. CASE Executed(s)
  BY <1>10, <1>12 DEF Executed
<1> QED
  BY <1>3, <1>4, <1>5, <1>6, <1>8, <1>9, <1>11, <1>12 DEF Handle

-----------------------------------------------------------------------------
\* Whatever overlaps, a fresh schedule and a fresh slack are those of the plan, and a handler that nobody has overtaken holds what
\* the engines make of the plan.
THEOREM TimesSafe == Spec => []TimesInvariant
<1>1. Init => TimesInvariant
  BY TimesStart
<1>2. PlanInvariant /\ TimesInvariant /\ [Next]_vars => TimesInvariant'
  BY TimesEdits, TimesHandled, TimesStutter DEF Next
<1> QED
  BY <1>1, <1>2, PlanSafe, PTL DEF Spec

\* For every plan: as long as nothing has been edited since its slack was
\* computed, and every task has a duration, a delay within the slack of a task
\* does not move the end of the plan.
THEOREM SlackSafe == Spec => []SlackIsSafe
<1>1. TimesInvariant => SlackIsSafe
  <2>1. SUFFICES ASSUME TimesInvariant, fresh, \A t \in Tasks : dur[t] > 0, NEW t \in Tasks
                 PROVE  ProjectEnd(Adjust(Graph, schedule, t, slack[t])) = ProjectEnd(schedule)
    BY DEF SlackIsSafe
  <2>2. deps \in SUBSET Edges /\ dur \in [Tasks -> Durations] /\ DefaultDuration \in Nat
    BY <2>1, TimesAssumption DEF TimesInvariant, PlanTimes
  <2>3. IsGraph(Graph) /\ Graph.nodes = Tasks /\ Graph.dur = dur
    BY <2>2, GraphIs, PlanGraphs
  <2>4. IsAcyclic(Graph) /\ schedule = Schedule(Graph, DefaultDuration) /\ slack = Slack(Graph)
    BY <2>1 DEF TimesInvariant, UpToDate
  <2>5. ProjectEnd(Adjust(Graph, Schedule(Graph, DefaultDuration), t, Slack(Graph)[t]))
          = ProjectEnd(Schedule(Graph, DefaultDuration))
    BY <2>1, <2>2, <2>3, <2>4, DelayWithinSlack
  <2> QED
    BY <2>4, <2>5
<1> QED
  BY <1>1, TimesSafe, PTL

\* Every table holds what it is declared to hold, and no task has a negative
\* slack, whichever way it was shifted and to whatever times it was moved.
THEOREM PlanTyped == Spec => []TypeOK
<1>1. PlanInvariant /\ TimesInvariant => TypeOK
  <2>1. SUFFICES ASSUME PlanInvariant, TimesInvariant PROVE TypeOK
    OBVIOUS
  <2>2. /\ deps \subseteq Edges /\ dur \in [Tasks -> Durations]
        /\ schedule \in [Tasks -> Placements] /\ slack \in [Tasks -> Nat \cup {NoSlack}]
        /\ requests \in 0 .. MaxRequests
    BY <2>1 DEF TimesInvariant, PlanTimes
  <2>4. /\ provider \in [Tasks -> Vendors \cup {NoVendor}]
        /\ item \in [Categories -> {0} \cup Quotes]
        /\ \A r \in Rows : row[r] = NoAssignment \/ row[r] \in Assignment
    BY <2>1 DEF PlanInvariant, Tables
  <2>5. {fresh, raced, takenOver, unchecked} \subseteq BOOLEAN
    BY <2>1 DEF PlanInvariant, Tables, TimesInvariant, PlanTimes
  <2>6. \A s \in Slots : slot[s].pc \in {"idle", "compute", "bind", "reassign", "execute"}
    BY <2>1 DEF PlanInvariant, HandlerOK, Typed, Idle, Computes, Assigns
  <2> QED
    BY <2>2, <2>4, <2>5, <2>6 DEF TypeOK, Assignment
<1> QED
  BY <1>1, PlanSafe, TimesSafe, PTL
=============================================================================
