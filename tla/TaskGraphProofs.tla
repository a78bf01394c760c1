-------------------------- MODULE TaskGraphProofs --------------------------
(***************************************************************************)
(* What the engines of TaskGraph compute, for every graph: a graph that    *)
(* the topological sort accepts has no cycle, the two passes of the        *)
(* critical path have the values their equations give, no slack is         *)
(* negative, and a delay within the slack of a task leaves the end of the  *)
(* plan where it was.                                                      *)
(*                                                                         *)
(* The operators are folds and recursive functions.  Induction is in       *)
(* first-order form, over sets of numbers and over sets of subsets in      *)
(* place of predicates.                                                    *)
(***************************************************************************)
EXTENDS TaskGraph, FiniteSetTheorems, WellFoundedInduction, TLAPS

-----------------------------------------------------------------------------
(* Induction *)

\* A set of natural numbers that is not empty has a least member.
LEMMA LeastNumber ==
  ASSUME NEW T \in SUBSET Nat, T # {}
  PROVE  \E n \in T : \A m \in T : n <= m
<1> DEFINE Less == OpToRel(<, Nat)
<1>1. IsWellFoundedOn(Less, Nat)
  BY NatLessThanWellFounded
<1>2. Less = {p \in Nat \X Nat : p[1] < p[2]}
  BY DEF OpToRel
<1> HIDE DEF Less
<1>3. PICK n \in T : \A m \in T : <<m, n>> \notin Less
  BY <1>1, WFMin
<1>4. ASSUME NEW m \in T PROVE ~(m < n)
  <2>1. <<m, n>> \notin Less
    BY <1>3
  <2>2. <<m, n>> \in Nat \X Nat /\ <<m, n>>[1] = m /\ <<m, n>>[2] = n
    OBVIOUS
  <2> QED
    BY <2>1, <2>2, <1>2
<1> QED
  BY <1>4

\* A set that holds zero and the successor of each of its members holds every
\* natural number.
LEMMA EveryNumber ==
  ASSUME NEW Good \in SUBSET Nat, 0 \in Good, \A n \in Good : n + 1 \in Good
  PROVE  Good = Nat
<1>1. SUFFICES ASSUME Nat \ Good # {} PROVE FALSE
  OBVIOUS
<1>2. PICK n \in Nat \ Good : \A m \in Nat \ Good : n <= m
  BY <1>1, LeastNumber
<1>3. n # 0 /\ n - 1 \in Nat /\ ~(n <= n - 1)
  BY <1>2
<1>4. n - 1 \in Good
  BY <1>2, <1>3
<1>5. (n - 1) + 1 = n
  BY <1>2
<1> QED
  BY <1>2, <1>4, <1>5

\* What holds of a subset of a finite set whenever it holds of the subset less
\* any one of its members holds of every subset.
LEMMA EverySubset ==
  ASSUME NEW S, IsFiniteSet(S), NEW Good \in SUBSET SUBSET S,
         \A s \in SUBSET S : (\A x \in s : s \ {x} \in Good) => s \in Good
  PROVE  Good = SUBSET S
<1> DEFINE Bad == (SUBSET S) \ Good
           Sizes == {Cardinality(s) : s \in Bad}
<1>1. SUFFICES ASSUME Bad # {} PROVE FALSE
  OBVIOUS
<1>2. \A s \in SUBSET S : IsFiniteSet(s) /\ Cardinality(s) \in Nat
  BY FS_Subset, FS_CardinalityType
<1>3. Sizes \in SUBSET Nat /\ Sizes # {}
  BY <1>1, <1>2
<1>4. PICK n \in Sizes : \A m \in Sizes : n <= m
  BY <1>3, LeastNumber
<1>5. PICK s \in Bad : Cardinality(s) = n
  BY <1>4
<1>6. ASSUME NEW x \in s PROVE s \ {x} \in Good
  <2>1. Cardinality(s \ {x}) = n - 1
    BY <1>2, <1>5, FS_RemoveElement
  <2>2. n - 1 \notin Sizes
    BY <1>3, <1>4
  <2> QED
    BY <2>1, <2>2
<1> QED
  BY <1>5, <1>6

\* Of finitely many numbers one is the greatest.
LEMMA GreatestAt ==
  ASSUME NEW S, IsFiniteSet(S), S # {}, NEW f, \A x \in S : f[x] \in Int
  PROVE  \E m \in S : \A x \in S : f[x] <= f[m]
<1> DEFINE Good == {s \in SUBSET S : s = {} \/ \E m \in s : \A x \in s : f[x] <= f[m]}
<1>1. ASSUME NEW s \in SUBSET S, \A x \in s : s \ {x} \in Good PROVE s \in Good
  <2>1. SUFFICES ASSUME s # {} PROVE \E m \in s : \A x \in s : f[x] <= f[m]
    OBVIOUS
  <2>2. PICK x \in s : TRUE
    BY <2>1
  <2>3. s \ {x} \in Good
    BY <1>1
  <2>4. CASE s \ {x} = {}
    BY <2>2, <2>4
  <2>5. ASSUME NEW m \in s \ {x}, \A y \in s \ {x} : f[y] <= f[m]
        PROVE  \E n \in s : \A y \in s : f[y] <= f[n]
    <3>1. \A y \in s : f[y] \in Int
      OBVIOUS
    <3>2. CASE f[x] <= f[m]
      BY <2>5, <3>2
    <3>3. CASE f[m] <= f[x]
      BY <2>5, <3>1, <3>3
    <3> QED
      BY <3>1, <3>2, <3>3
  <2> QED
    BY <2>3, <2>4, <2>5
<1>2. Good = SUBSET S
  <2>1. Good \in SUBSET SUBSET S
    OBVIOUS
  <2>2. \A s \in SUBSET S : (\A x \in s : s \ {x} \in Good) => s \in Good
    BY <1>1
  <2> HIDE DEF Good
  <2> QED
    BY <2>1, <2>2, EverySubset
<1> QED
  BY <1>2

\* The latest of finitely many times, and the soonest.
LEMMA LatestIs ==
  ASSUME NEW S, IsFiniteSet(S), S \subseteq Int, NEW base \in Int
  PROVE  /\ S = {} => Latest(S, base) = base
         /\ S # {} => Latest(S, base) \in S
         /\ \A x \in S : x <= Latest(S, base)
<1>1. CASE S = {}
  BY <1>1 DEF Latest
<1>2. CASE S # {}
  <2> DEFINE f == [x \in S |-> x]
  <2>1. PICK m \in S : \A x \in S : f[x] <= f[m]
    BY <1>2, GreatestAt
  <2>2. \A x \in S : m >= x
    BY <2>1
  <2>3. Max(S) \in S /\ \A x \in S : Max(S) >= x
    BY <2>2 DEF Max
  <2> QED
    BY <1>2, <2>3 DEF Latest
<1> QED
  BY <1>1, <1>2

\* ... and the soonest.
LEMMA SoonestIs ==
  ASSUME NEW S, IsFiniteSet(S), S \subseteq Int, NEW base \in Int
  PROVE  /\ S = {} => Soonest(S, base) = base
         /\ S # {} => Soonest(S, base) \in S
         /\ \A x \in S : Soonest(S, base) <= x
<1>1. CASE S = {}
  BY <1>1 DEF Soonest
<1>2. CASE S # {}
  <2> DEFINE f == [x \in S |-> 0 - x]
  <2>0. \A x \in S : f[x] \in Int /\ f[x] = 0 - x
    OBVIOUS
  <2> HIDE DEF f
  <2>1. PICK m \in S : \A x \in S : f[x] <= f[m]
    BY <1>2, <2>0, GreatestAt
  <2>2. \A x \in S : m <= x
    BY <2>0, <2>1
  <2>3. Min(S) \in S /\ \A x \in S : Min(S) <= x
    BY <2>2 DEF Min
  <2> QED
    BY <1>2, <2>3 DEF Soonest
<1> QED
  BY <1>1, <1>2

\* One time for each of finitely many tasks makes finitely many times.
LEMMA FiniteTimes ==
  ASSUME NEW S, IsFiniteSet(S), NEW f
  PROVE  IsFiniteSet({f[x] : x \in S})
<1> DEFINE T == {f[x] : x \in S}
           g == [x \in S |-> f[x]]
<1>1. g \in Surjection(S, T)
  BY DEF Surjection
<1> QED
  BY <1>1, FS_Surjection

-----------------------------------------------------------------------------
(* DependencyGraph                                                           *)

\* For every place in a set of ids there is one with as many before it.
LEMMA PlaceTaken ==
  ASSUME NEW ts, IsFiniteSet(ts), ts \subseteq Nat
  PROVE  \A i \in 1 .. Cardinality(ts) : \E t \in ts : Cardinality({u \in ts : u < t}) = i - 1
<1> DEFINE Good == {s \in SUBSET ts : \A i \in 1 .. Cardinality(s) :
                                        \E t \in s : Cardinality({u \in s : u < t}) = i - 1}
<1>1. ASSUME NEW s \in SUBSET ts, \A x \in s : s \ {x} \in Good PROVE s \in Good
  <2>1. SUFFICES ASSUME NEW i \in 1 .. Cardinality(s)
                 PROVE  \E t \in s : Cardinality({u \in s : u < t}) = i - 1
    OBVIOUS
  <2>2. IsFiniteSet(s) /\ Cardinality(s) \in Nat /\ s # {}
    <3>1. IsFiniteSet(s) /\ Cardinality(s) \in Nat
      BY FS_Subset, FS_CardinalityType
    <3>2. Cardinality({}) = 0
      BY FS_EmptySet
    <3> QED
      BY <2>1, <3>1, <3>2
  <2> DEFINE f == [x \in s |-> x]
  <2>3. \A x \in s : f[x] \in Int /\ f[x] = x
    OBVIOUS
  <2> HIDE DEF f
  <2>4. PICK m \in s : \A x \in s : f[x] <= f[m]
    BY <2>2, <2>3, GreatestAt
  <2>5. \A x \in s : x <= m /\ x \in Nat
    BY <2>3, <2>4
  <2>6. Cardinality(s \ {m}) = Cardinality(s) - 1
    BY <2>2, FS_RemoveElement
  <2>7. CASE i = Cardinality(s)
    <3>0. \A u \in s : u < m <=> u # m
      BY <2>5
    <3>1. {u \in s : u < m} = s \ {m}
      BY <3>0
    <3> QED
      BY <2>6, <2>7, <3>1
  <2>8. CASE i # Cardinality(s)
    <3>1. i \in 1 .. Cardinality(s \ {m})
      BY <2>2, <2>6, <2>8
    <3>2. PICK t \in s \ {m} : Cardinality({u \in s \ {m} : u < t}) = i - 1
      BY <1>1, <3>1
    <3>3. {u \in s \ {m} : u < t} = {u \in s : u < t}
      BY <2>5
    <3> QED
      BY <3>2, <3>3
  <2> QED
    BY <2>7, <2>8
<1>2. Good = SUBSET ts
  <2>1. Good \in SUBSET SUBSET ts
    OBVIOUS
  <2>2. \A s \in SUBSET ts : (\A x \in s : s \ {x} \in Good) => s \in Good
    BY <1>1
  <2> HIDE DEF Good
  <2> QED
    BY <2>1, <2>2, EverySubset
<1> QED
  BY <1>2

\* Sorting lists every task once.
LEMMA SortedLists ==
  ASSUME NEW ts, IsFiniteSet(ts), ts \subseteq Nat
  PROVE  /\ Sorted(ts) \in Seq(ts) /\ Len(Sorted(ts)) = Cardinality(ts)
         /\ \A i, j \in DOMAIN Sorted(ts) : Sorted(ts)[i] = Sorted(ts)[j] => i = j
         /\ \A t \in ts : \E i \in DOMAIN Sorted(ts) : Sorted(ts)[i] = t
<1> DEFINE D == 1 .. Cardinality(ts)
           Before(t) == Cardinality({u \in ts : u < t})
           s == [i \in D |-> CHOOSE t \in ts : Before(t) = i - 1]
<1>1. Cardinality(ts) \in Nat
  BY FS_CardinalityType
<1>2. \A i \in D : s[i] \in ts /\ Before(s[i]) = i - 1
  <2> TAKE i \in D
  <2>1. \E t \in ts : Before(t) = i - 1
    BY PlaceTaken
  <2> QED
    BY <2>1
<1> HIDE DEF Before
<1>3. s \in [D -> ts]
  BY <1>2
<1>4. \A i, j \in D : s[i] = s[j] => i = j
  BY <1>1, <1>2
<1>5. Sorted(ts) = s
  BY DEF Sorted, Before
<1> HIDE DEF s
<1>6. s \in Injection(D, ts)
  BY <1>3, <1>4 DEF Injection, IsInjective
<1>7. IsFiniteSet(D) /\ Cardinality(D) = Cardinality(ts)
  BY <1>1, FS_Interval
<1>8. s \in Surjection(D, ts)
  BY <1>6, <1>7, FS_Injection
<1>9. s \in Seq(ts) /\ Len(s) = Cardinality(ts) /\ DOMAIN s = D
  BY <1>1, <1>3
<1> QED
  BY <1>4, <1>5, <1>8, <1>9 DEF Surjection

\* A graph as the engines read it from the tables: finitely many tasks, edges
\* between them, and neither duration nor lag negative.
IsGraph(g) ==
  /\ IsFiniteSet(g.nodes) /\ g.nodes \subseteq Nat
  /\ g.edges \subseteq g.nodes \X g.nodes
  /\ g.dur \in [g.nodes -> Nat]
  /\ \A e \in g.edges : g.lag[e] \in Nat

\* The tasks before and after a task are finitely many of the graph.
LEMMA Neighbours ==
  ASSUME NEW g, IsGraph(g), NEW t \in g.nodes
  PROVE  /\ Preds(g, t) \subseteq g.nodes /\ IsFiniteSet(Preds(g, t))
         /\ Succs(g, t) \subseteq g.nodes /\ IsFiniteSet(Succs(g, t))
         /\ \A s \in Succs(g, t) : t \in Preds(g, s) /\ <<t, s>> \in g.edges
         /\ \A p \in Preds(g, t) : t \in Succs(g, p) /\ <<p, t>> \in g.edges
<1>1. Preds(g, t) \subseteq g.nodes /\ Succs(g, t) \subseteq g.nodes
  BY DEF Preds, Succs
<1>2. IsFiniteSet(Preds(g, t)) /\ IsFiniteSet(Succs(g, t))
  BY <1>1, FS_Subset DEF IsGraph
<1> QED
  BY <1>1, <1>2 DEF Preds, Succs

\* The recursive function of the steps of the sort.
IsKahn(g, n, f) ==
  f = [i \in 0 .. n |-> IF i = 0 THEN KahnStart(g) ELSE KahnStep(g, f[i - 1])]

\* There is such a function, of any number of steps.
LEMMA KahnExists ==
  ASSUME NEW g
  PROVE  \A n \in Nat : \E f : IsKahn(g, n, f)
<1> DEFINE Good == {n \in Nat : \E f : IsKahn(g, n, f)}
<1>1. 0 \in Good
  <2> DEFINE f == [i \in 0 .. 0 |-> KahnStart(g)]
  <2>1. IsKahn(g, 0, f)
    BY DEF IsKahn
  <2> HIDE DEF f
  <2> QED
    BY <2>1
<1>2. ASSUME NEW n \in Good PROVE n + 1 \in Good
  <2>1. PICK f : IsKahn(g, n, f)
    BY <1>2
  <2> DEFINE h == [i \in 0 .. (n + 1) |-> IF i \in 0 .. n THEN f[i] ELSE KahnStep(g, f[n])]
  <2>2. ASSUME NEW i \in 0 .. (n + 1)
        PROVE  h[i] = IF i = 0 THEN KahnStart(g) ELSE KahnStep(g, h[i - 1])
    <3>1. CASE i \in 0 .. n
      <4>1. h[i] = f[i] /\ f[i] = IF i = 0 THEN KahnStart(g) ELSE KahnStep(g, f[i - 1])
        BY <2>1, <3>1 DEF IsKahn
      <4>2. i # 0 => i - 1 \in 0 .. n /\ i - 1 \in 0 .. (n + 1)
        BY <3>1
      <4>3. i # 0 => h[i - 1] = f[i - 1]
        BY <4>2
      <4> QED
        BY <4>1, <4>3
    <3>2. CASE i = n + 1
      <4>1. i \notin 0 .. n /\ i # 0 /\ i - 1 = n /\ n \in 0 .. n /\ n \in 0 .. (n + 1)
        BY <3>2
      <4>2. h[i] = KahnStep(g, f[n]) /\ h[i - 1] = f[n]
        BY <4>1
      <4> QED
        BY <4>1, <4>2
    <3> QED
      BY <3>1, <3>2
  <2>3. h = [i \in 0 .. (n + 1) |-> IF i = 0 THEN KahnStart(g) ELSE KahnStep(g, h[i - 1])]
    <3>1. h = [i \in 0 .. (n + 1) |-> h[i]]
      OBVIOUS
    <3> HIDE DEF h
    <3> QED
      BY <2>2, <3>1
  <2>4. IsKahn(g, n + 1, h)
    BY <2>3 DEF IsKahn
  <2> HIDE DEF h
  <2> QED
    BY <2>4
<1>3. Good = Nat
  <2> HIDE DEF Good
  <2>1. Good \in SUBSET Nat
    BY DEF Good
  <2> QED
    BY <1>1, <1>2, <2>1, EveryNumber
<1> QED
  BY <1>3

\* The sort is what it gives after as many steps as there are tasks.
LEMMA TopologicalSortIs ==
  ASSUME NEW g
  PROVE  TopologicalSort(g) =
           (CHOOSE f : IsKahn(g, Cardinality(g.nodes), f))[Cardinality(g.nodes)].order
BY DEF TopologicalSort, IsKahn

\* The places of a list, of its tail, and of one with an element more.
LEMMA Places ==
  ASSUME NEW T, NEW s \in Seq(T), NEW S, T \subseteq S
  PROVE  /\ s \in Seq(S) /\ Len(s) \in Nat /\ DOMAIN s = 1 .. Len(s)
         /\ \A i \in 1 .. Len(s) : s[i] \in T
OBVIOUS

\* ... of its tail,
LEMMA PlacesAfterHead ==
  ASSUME NEW S, NEW s \in Seq(S), s # <<>>
  PROVE  /\ Head(s) = s[1] /\ Head(s) \in S /\ Len(s) \in Nat /\ 1 \in 1 .. Len(s)
         /\ Tail(s) \in Seq(S) /\ Len(Tail(s)) = Len(s) - 1 /\ Len(Tail(s)) \in Nat
         /\ \A i \in 1 .. Len(Tail(s)) : i + 1 \in 1 .. Len(s) /\ Tail(s)[i] = s[i + 1]
OBVIOUS

\* ... and of one with an element more.
LEMMA PlacesOfMore ==
  ASSUME NEW S, NEW s \in Seq(S), NEW x \in S
  PROVE  /\ Len(s) \in Nat /\ Append(s, x) \in Seq(S)
         /\ Len(Append(s, x)) = Len(s) + 1 /\ Append(s, x)[Len(s) + 1] = x
         /\ \A i \in 1 .. Len(s) : Append(s, x)[i] = s[i]
         /\ DOMAIN s = 1 .. Len(s) /\ DOMAIN Append(s, x) = 1 .. (Len(s) + 1)
OBVIOUS

\* Whatever is in the order comes after what it depends on, whatever is queued
\* waits for nothing, and a degree counts what a task still waits for.
KahnOrdered(g, k) ==
  /\ k.order \in Seq(g.nodes)
  /\ \A i, j \in 1 .. Len(k.order) : k.order[i] = k.order[j] => i = j
  /\ \A i \in 1 .. Len(k.order) : \A p \in Preds(g, k.order[i]) :
       \E j \in 1 .. Len(k.order) : j < i /\ k.order[j] = p

KahnQueued(g, k) ==
  /\ k.queue \in Seq(g.nodes)
  /\ \A i, j \in 1 .. Len(k.queue) : k.queue[i] = k.queue[j] => i = j
  /\ \A i \in 1 .. Len(k.queue) :
       k.queue[i] \notin Range(k.order) /\ Preds(g, k.queue[i]) \subseteq Range(k.order)

KahnCounts(g, k) ==
  \A s \in g.nodes : k.degree[s] = Cardinality(Preds(g, s) \ Range(k.order))

KahnOK(g, k) == KahnOrdered(g, k) /\ KahnQueued(g, k) /\ KahnCounts(g, k)

\* The sort starts with the tasks that depend on nothing.
LEMMA KahnStarts ==
  ASSUME NEW g, IsGraph(g)
  PROVE  KahnOK(g, KahnStart(g))
<1> DEFINE k == KahnStart(g)
           free == {t \in g.nodes : Preds(g, t) = {}}
<1>1. /\ k.order = <<>> /\ k.queue = Sorted(free)
      /\ k.degree = [t \in g.nodes |-> Cardinality(Preds(g, t))]
  BY DEF KahnStart
<1> HIDE DEF k
<1>2. k.order \in Seq(g.nodes) /\ Len(k.order) = 0 /\ Range(k.order) = {} /\ 1 .. 0 = {}
  BY <1>1 DEF Range
<1>3. IsFiniteSet(free) /\ free \subseteq Nat /\ free \subseteq g.nodes
  BY FS_Subset DEF IsGraph
<1>4. /\ k.queue \in Seq(free)
      /\ \A i, j \in DOMAIN k.queue : k.queue[i] = k.queue[j] => i = j
  <2> HIDE DEF free
  <2>1. /\ Sorted(free) \in Seq(free)
        /\ \A i, j \in DOMAIN Sorted(free) : Sorted(free)[i] = Sorted(free)[j] => i = j
    BY <1>3, SortedLists
  <2> QED
    BY <1>1, <2>1
<1> HIDE DEF free
<1>5. /\ k.queue \in Seq(g.nodes) /\ DOMAIN k.queue = 1 .. Len(k.queue)
      /\ \A i \in 1 .. Len(k.queue) : k.queue[i] \in free
  BY <1>3, <1>4, Places
<1>6. KahnOrdered(g, k)
  BY <1>2 DEF KahnOrdered
<1>7. KahnQueued(g, k)
  BY <1>2, <1>4, <1>5 DEF KahnQueued, free
<1>8. KahnCounts(g, k)
  <2> SUFFICES ASSUME NEW s \in g.nodes
               PROVE  k.degree[s] = Cardinality(Preds(g, s) \ Range(k.order))
    BY DEF KahnCounts
  <2>1. Preds(g, s) \ Range(k.order) = Preds(g, s)
    BY <1>2
  <2> QED
    BY <1>1, <2>1
<1> QED
  BY <1>6, <1>7, <1>8 DEF KahnOK, k

\* One step of the sort keeps this.
LEMMA KahnSteps ==
  ASSUME NEW g, IsGraph(g), NEW k, KahnOK(g, k)
  PROVE  KahnOK(g, KahnStep(g, k))
<1>1. CASE k.queue = <<>>
  BY <1>1 DEF KahnStep
<1>2. CASE k.queue # <<>>
  <2> DEFINE t == Head(k.queue)
             freed == {s \in Succs(g, t) : k.degree[s] = 1}
             n == KahnStep(g, k)
             rest == Tail(k.queue)
             done == Range(k.order)
  <2>1. /\ n.degree = [s \in g.nodes |-> k.degree[s] - (IF s \in Succs(g, t) THEN 1 ELSE 0)]
        /\ n.queue = rest \o Sorted(freed)
        /\ n.order = Append(k.order, t)
    BY <1>2 DEF KahnStep
  <2>2. /\ k.order \in Seq(g.nodes) /\ k.queue \in Seq(g.nodes)
        /\ \A i, j \in 1 .. Len(k.order) : k.order[i] = k.order[j] => i = j
        /\ \A i \in 1 .. Len(k.order) : \A p \in Preds(g, k.order[i]) :
             \E j \in 1 .. Len(k.order) : j < i /\ k.order[j] = p
        /\ \A i, j \in 1 .. Len(k.queue) : k.queue[i] = k.queue[j] => i = j
        /\ \A i \in 1 .. Len(k.queue) : k.queue[i] \notin done /\ Preds(g, k.queue[i]) \subseteq done
        /\ \A s \in g.nodes : k.degree[s] = Cardinality(Preds(g, s) \ done)
    BY DEF KahnOK, KahnOrdered, KahnQueued, KahnCounts
  <2>3. /\ t = k.queue[1] /\ t \in g.nodes /\ Len(k.queue) \in Nat /\ 1 \in 1 .. Len(k.queue)
        /\ rest \in Seq(g.nodes) /\ Len(rest) = Len(k.queue) - 1 /\ Len(rest) \in Nat
        /\ \A i \in 1 .. Len(rest) : i + 1 \in 1 .. Len(k.queue) /\ rest[i] = k.queue[i + 1]
    BY <1>2, <2>2, PlacesAfterHead
  <2>4. t \notin done /\ Preds(g, t) \subseteq done
    BY <2>2, <2>3
  <2>5. \A i \in 1 .. Len(rest) : /\ rest[i] \notin done \cup {t}
                                  /\ Preds(g, rest[i]) \subseteq done
    <3> TAKE i \in 1 .. Len(rest)
    <3>1. i + 1 # 1
      BY <2>3
    <3> QED
      BY <2>2, <2>3, <3>1
  <2>6. \A i, j \in 1 .. Len(rest) : rest[i] = rest[j] => i = j
    <3> TAKE i \in 1 .. Len(rest), j \in 1 .. Len(rest)
    <3>1. rest[i] = rest[j] => i + 1 = j + 1
      BY <2>2, <2>3
    <3> QED
      BY <2>3, <3>1
  <2> HIDE DEF n, rest, t
  <2>7. /\ Len(k.order) \in Nat /\ n.order \in Seq(g.nodes)
        /\ Len(n.order) = Len(k.order) + 1 /\ n.order[Len(k.order) + 1] = t
        /\ \A i \in 1 .. Len(k.order) : n.order[i] = k.order[i]
        /\ DOMAIN k.order = 1 .. Len(k.order) /\ DOMAIN n.order = 1 .. (Len(k.order) + 1)
    <3>1. k.order \in Seq(g.nodes) /\ t \in g.nodes
      BY <2>2, <2>3
    <3> DEFINE o == k.order
               a == Append(o, t)
    <3> HIDE DEF o
    <3>2. o \in Seq(g.nodes)
      BY <3>1 DEF o
    <3>3. /\ Len(o) \in Nat /\ a \in Seq(g.nodes) /\ Len(a) = Len(o) + 1 /\ a[Len(o) + 1] = t
          /\ \A i \in 1 .. Len(o) : a[i] = o[i]
          /\ DOMAIN o = 1 .. Len(o) /\ DOMAIN a = 1 .. (Len(o) + 1)
      BY <3>1, <3>2, PlacesOfMore
    <3>4. n.order = a
      BY <2>1 DEF o
    <3> HIDE DEF a
    <3> QED
      BY <3>3, <3>4 DEF o
  <2>8. Range(n.order) = done \cup {t}
    <3>1. \A i \in 1 .. (Len(k.order) + 1) : i \in 1 .. Len(k.order) \/ i = Len(k.order) + 1
      BY <2>7
    <3>2. Len(k.order) + 1 \in 1 .. (Len(k.order) + 1)
      BY <2>7
    <3>3. \A i \in 1 .. Len(k.order) : i \in 1 .. (Len(k.order) + 1)
      BY <2>7
    <3> QED
      BY <2>7, <3>1, <3>2, <3>3 DEF Range
  <2>9. \A s \in freed : s \in g.nodes /\ t \in Preds(g, s) /\ Preds(g, s) \subseteq done \cup {t}
    <3> TAKE s \in freed
    <3>1. s \in g.nodes /\ t \in Preds(g, s)
      BY <2>3, Neighbours
    <3>2. IsFiniteSet(Preds(g, s) \ done)
      BY <3>1, Neighbours, FS_Subset
    <3>3. Cardinality(Preds(g, s) \ done) = 1
      BY <2>2, <3>1
    <3>4. PICK x : Preds(g, s) \ done = {x}
      BY <3>2, <3>3, FS_Singleton
    <3>5. t \in Preds(g, s) \ done
      BY <2>4, <3>1
    <3> QED
      BY <3>1, <3>4, <3>5
  <2>10. \A s \in freed : s \notin done \cup {t} /\ \A i \in 1 .. Len(rest) : rest[i] # s
    <3> TAKE s \in freed
    <3>1. s # t
      BY <2>4, <2>9
    <3>2. s \notin done
      <4> SUFFICES ASSUME s \in done PROVE FALSE
        OBVIOUS
      <4>1. PICK i \in 1 .. Len(k.order) : k.order[i] = s
        BY <2>7 DEF Range
      <4>2. PICK j \in 1 .. Len(k.order) : k.order[j] = t
        <5>1. t \in Preds(g, k.order[i])
          BY <2>9, <4>1
        <5> QED
          BY <2>2, <5>1
      <4> QED
        BY <2>4, <2>7, <4>2 DEF Range
    <3>3. \A i \in 1 .. Len(rest) : rest[i] # s
      BY <2>4, <2>5, <2>9
    <3> QED
      BY <3>1, <3>2, <3>3
  <2>11. IsFiniteSet(freed) /\ freed \subseteq Nat /\ freed \subseteq g.nodes
    <3>1. freed \subseteq Succs(g, t) /\ IsFiniteSet(Succs(g, t))
      BY <2>3, Neighbours
    <3> QED
      BY <2>9, <3>1, FS_Subset DEF IsGraph
  <2> DEFINE new == Sorted(freed)
  <2>12. /\ new \in Seq(freed)
         /\ \A i, j \in DOMAIN new : new[i] = new[j] => i = j
    BY <2>11, SortedLists
  <2> HIDE DEF new, freed
  <2>13. KahnOrdered(g, n)
    <3>1. \A i \in 1 .. Len(k.order) : n.order[i] # t
      BY <2>4, <2>7 DEF Range
    <3>2. \A i \in 1 .. Len(n.order) : i \in 1 .. Len(k.order) \/ i = Len(k.order) + 1
      BY <2>7
    <3>3. \A i, j \in 1 .. Len(n.order) : n.order[i] = n.order[j] => i = j
      BY <2>2, <2>7, <3>1, <3>2
    <3>4. ASSUME NEW i \in 1 .. Len(n.order), NEW p \in Preds(g, n.order[i])
          PROVE  \E j \in 1 .. Len(n.order) : j < i /\ n.order[j] = p
      <4>1. CASE i \in 1 .. Len(k.order)
        <5>1. PICK j \in 1 .. Len(k.order) : j < i /\ k.order[j] = p
          BY <2>2, <2>7, <3>4, <4>1
        <5> QED
          BY <2>7, <5>1
      <4>2. CASE i = Len(k.order) + 1
        <5>1. p \in done
          BY <2>4, <2>7, <3>4, <4>2
        <5>2. PICK j \in 1 .. Len(k.order) : k.order[j] = p
          BY <2>7, <5>1 DEF Range
        <5>3. j < i /\ j \in 1 .. Len(n.order) /\ n.order[j] = p
          BY <2>7, <4>2, <5>2
        <5> QED
          BY <5>3
      <4> QED
        BY <3>2, <4>1, <4>2
    <3> QED
      BY <2>7, <3>3, <3>4 DEF KahnOrdered
  <2>14. KahnQueued(g, n)
    <3>1. /\ new \in Seq(g.nodes) /\ Len(new) \in Nat /\ DOMAIN new = 1 .. Len(new)
          /\ \A i \in 1 .. Len(new) : new[i] \in freed
      BY <2>11, <2>12, Places
    <3>2. /\ n.queue = rest \o new
          /\ rest \in Seq(g.nodes) /\ Len(rest) \in Nat
      BY <2>1, <2>3 DEF new
    <3>3. /\ n.queue \in Seq(g.nodes) /\ Len(n.queue) = Len(rest) + Len(new)
          /\ \A i \in 1 .. Len(n.queue) :
               n.queue[i] = IF i <= Len(rest) THEN rest[i] ELSE new[i - Len(rest)]
      BY <3>1, <3>2
    <3>4. \A i \in 1 .. Len(n.queue) :
            \/ i \in 1 .. Len(rest) /\ n.queue[i] = rest[i]
            \/ i - Len(rest) \in 1 .. Len(new) /\ n.queue[i] = new[i - Len(rest)]
      BY <3>1, <3>2, <3>3
    <3>5. \A i, j \in 1 .. Len(n.queue) : n.queue[i] = n.queue[j] => i = j
      <4> SUFFICES ASSUME NEW i \in 1 .. Len(n.queue), NEW j \in 1 .. Len(n.queue),
                          n.queue[i] = n.queue[j]
                   PROVE  i = j
        OBVIOUS
      <4>1. CASE i \in 1 .. Len(rest) /\ n.queue[i] = rest[i]
        BY <2>6, <2>10, <3>1, <3>4, <4>1
      <4>2. CASE i - Len(rest) \in 1 .. Len(new) /\ n.queue[i] = new[i - Len(rest)]
        <5>1. j - Len(rest) \in 1 .. Len(new) /\ n.queue[j] = new[j - Len(rest)]
          BY <2>10, <3>1, <3>4, <4>2
        <5>2. i - Len(rest) = j - Len(rest)
          BY <2>12, <3>1, <4>2, <5>1
        <5> QED
          BY <3>2, <3>3, <5>2
      <4> QED
        BY <3>4, <4>1, <4>2
    <3>6. \A i \in 1 .. Len(n.queue) :
            n.queue[i] \notin Range(n.order) /\ Preds(g, n.queue[i]) \subseteq Range(n.order)
      BY <2>5, <2>8, <2>9, <2>10, <3>1, <3>4
    <3> QED
      BY <3>3, <3>5, <3>6 DEF KahnQueued
  <2>15. KahnCounts(g, n)
    <3> SUFFICES ASSUME NEW s \in g.nodes
                 PROVE  n.degree[s] = Cardinality(Preds(g, s) \ Range(n.order))
      BY DEF KahnCounts
    <3>1. Preds(g, s) \ Range(n.order) = (Preds(g, s) \ done) \ {t}
      BY <2>8
    <3>2. IsFiniteSet(Preds(g, s) \ done)
      BY Neighbours, FS_Subset
    <3>3. Cardinality(Preds(g, s) \ done) \in Nat
      BY <3>2, FS_CardinalityType
    <3>4. n.degree[s] = k.degree[s] - (IF s \in Succs(g, t) THEN 1 ELSE 0)
      BY <2>1
    <3>5. CASE s \in Succs(g, t)
      <4>1. t \in Preds(g, s) \ done
        BY <2>3, <2>4, <3>5, Neighbours
      <4>2. Cardinality((Preds(g, s) \ done) \ {t}) = Cardinality(Preds(g, s) \ done) - 1
        BY <3>2, <4>1, FS_RemoveElement
      <4> QED
        BY <2>2, <3>1, <3>4, <3>5, <4>2
    <3>6. CASE s \notin Succs(g, t)
      <4>1. t \notin Preds(g, s)
        BY <2>3, <3>6, Neighbours
      <4>2. (Preds(g, s) \ done) \ {t} = Preds(g, s) \ done
        BY <4>1
      <4>3. k.degree[s] \in Nat /\ n.degree[s] = k.degree[s] - 0
        BY <2>2, <3>3, <3>4, <3>6
      <4>4. n.degree[s] = k.degree[s]
        BY <4>3
      <4> QED
        BY <2>2, <3>1, <4>2, <4>4
    <3> QED
      BY <3>5, <3>6
  <2> QED
    BY <2>13, <2>14, <2>15 DEF KahnOK, n
<1> QED
  BY <1>1, <1>2

\* Ranks: every task after those it depends on.
Ranked(g, rank) ==
  /\ \A t \in g.nodes : rank[t] \in 1 .. Cardinality(g.nodes)
  /\ \A t \in g.nodes : \A p \in Preds(g, t) : rank[p] < rank[t]

\* A graph that the topological sort accepts can be ranked: it has no cycle.
THEOREM AcyclicRanked ==
  ASSUME NEW g, IsGraph(g), IsAcyclic(g)
  PROVE  \E rank : Ranked(g, rank)
<1> DEFINE N == Cardinality(g.nodes)
           f == CHOOSE h : IsKahn(g, N, h)
           k == f[N]
           Good == {i \in Nat : i <= N => KahnOK(g, f[i])}
<1>1. N \in Nat
  BY FS_CardinalityType DEF IsGraph
<1>2. IsKahn(g, N, f)
  BY <1>1, KahnExists
<1> HIDE DEF f
<1>3. \A i \in 0 .. N : f[i] = IF i = 0 THEN KahnStart(g) ELSE KahnStep(g, f[i - 1])
  BY <1>1, <1>2 DEF IsKahn
<1>4. Good = Nat
  <2>1. 0 \in Good
    BY <1>1, <1>3, KahnStarts
  <2>2. ASSUME NEW i \in Good PROVE i + 1 \in Good
    <3> SUFFICES ASSUME i + 1 <= N PROVE KahnOK(g, f[i + 1])
      OBVIOUS
    <3>1. i <= N /\ i + 1 \in 0 .. N /\ i + 1 # 0 /\ (i + 1) - 1 = i
      BY <1>1
    <3>2. f[i + 1] = KahnStep(g, f[i])
      BY <1>3, <3>1
    <3>3. KahnOK(g, f[i])
      BY <2>2, <3>1
    <3> QED
      BY <3>2, <3>3, KahnSteps
  <2>3. Good \in SUBSET Nat
    OBVIOUS
  <2> HIDE DEF Good
  <2> QED
    BY <2>1, <2>2, <2>3, EveryNumber
<1>5. KahnOK(g, k)
  BY <1>1, <1>4
<1> HIDE DEF k
<1>6. Len(k.order) = N
  BY TopologicalSortIs DEF IsAcyclic, f, k
<1>7. /\ k.order \in [1 .. N -> g.nodes]
      /\ \A i, j \in 1 .. N : k.order[i] = k.order[j] => i = j
      /\ \A i \in 1 .. N : \A p \in Preds(g, k.order[i]) :
           \E j \in 1 .. N : j < i /\ k.order[j] = p
  BY <1>5, <1>6 DEF KahnOK, KahnOrdered
<1>8. k.order \in Surjection(1 .. N, g.nodes)
  <2>1. k.order \in Injection(1 .. N, g.nodes)
    BY <1>7 DEF Injection, IsInjective
  <2>2. Cardinality(1 .. N) = N
    BY <1>1, FS_Interval
  <2> QED
    BY <2>1, <2>2, FS_Injection DEF IsGraph
<1> DEFINE rank == [t \in g.nodes |-> CHOOSE i \in 1 .. N : k.order[i] = t]
<1>9. \A t \in g.nodes : rank[t] \in 1 .. N /\ k.order[rank[t]] = t
  <2> TAKE t \in g.nodes
  <2>1. \E i \in 1 .. N : k.order[i] = t
    BY <1>8 DEF Surjection
  <2> QED
    BY <2>1
<1>10. \A t \in g.nodes : \A p \in Preds(g, t) : rank[p] < rank[t]
  <2> TAKE t \in g.nodes
  <2> TAKE p \in Preds(g, t)
  <2>1. rank[t] \in 1 .. N /\ p \in Preds(g, k.order[rank[t]]) /\ p \in g.nodes
    BY <1>9 DEF Preds
  <2>2. rank[p] \in 1 .. N /\ k.order[rank[p]] = p
    BY <1>9, <2>1
  <2> HIDE DEF rank
  <2>3. PICK j \in 1 .. N : j < rank[t] /\ k.order[j] = p
    BY <1>7, <2>1
  <2>4. rank[p] = j
    BY <1>7, <2>2, <2>3
  <2> QED
    BY <2>3, <2>4
<1>11. Ranked(g, rank)
  BY <1>9, <1>10 DEF Ranked
<1> QED
  BY <1>11

-----------------------------------------------------------------------------
(* Induction along the dependencies                                          *)

\* What holds of a task whenever it holds of those it depends on holds of all.
LEMMA Forward ==
  ASSUME NEW g, IsGraph(g), NEW rank, Ranked(g, rank),
         NEW Good \in SUBSET g.nodes,
         \A t \in g.nodes : Preds(g, t) \subseteq Good => t \in Good
  PROVE  Good = g.nodes
<1> DEFINE Bad == {rank[t] : t \in g.nodes \ Good}
<1>1. SUFFICES ASSUME g.nodes \ Good # {} PROVE FALSE
  OBVIOUS
<1>2. Bad \in SUBSET Nat /\ Bad # {}
  BY <1>1 DEF Ranked
<1>3. PICK n \in Bad : \A m \in Bad : n <= m
  BY <1>2, LeastNumber
<1>4. PICK t \in g.nodes \ Good : rank[t] = n
  BY <1>3
<1>5. ASSUME NEW p \in Preds(g, t), p \notin Good PROVE FALSE
  <2>1. p \in g.nodes /\ rank[p] < n
    BY <1>4 DEF Ranked, Preds
  <2>2. rank[p] \in Bad
    BY <1>5, <2>1
  <2> QED
    BY <1>2, <1>3, <2>1, <2>2
<1> QED
  BY <1>4, <1>5

\* ... and whenever it holds of those that depend on it.
LEMMA Backward ==
  ASSUME NEW g, IsGraph(g), NEW rank, Ranked(g, rank),
         NEW Good \in SUBSET g.nodes,
         \A t \in g.nodes : Succs(g, t) \subseteq Good => t \in Good
  PROVE  Good = g.nodes
<1> DEFINE N == Cardinality(g.nodes)
           Bad == {N - rank[t] : t \in g.nodes \ Good}
<1>1. SUFFICES ASSUME g.nodes \ Good # {} PROVE FALSE
  OBVIOUS
<1>2. N \in Nat
  BY FS_CardinalityType DEF IsGraph
<1>3. Bad \in SUBSET Nat /\ Bad # {}
  BY <1>1, <1>2 DEF Ranked
<1>4. PICK n \in Bad : \A m \in Bad : n <= m
  BY <1>3, LeastNumber
<1>5. PICK t \in g.nodes \ Good : N - rank[t] = n
  BY <1>4
<1>6. ASSUME NEW s \in Succs(g, t), s \notin Good PROVE FALSE
  <2>1. s \in g.nodes /\ t \in Preds(g, s)
    BY Neighbours
  <2>2. rank[t] < rank[s] /\ rank[t] \in Nat /\ rank[s] \in Nat
    BY <2>1 DEF Ranked
  <2>3. N - rank[s] \in Bad
    BY <1>6, <2>1
  <2>4. n <= N - rank[s]
    BY <1>4, <2>3
  <2> QED
    BY <1>2, <1>5, <2>2, <2>4
<1> QED
  BY <1>5, <1>6

-----------------------------------------------------------------------------
(* Recursion along the dependencies                                          *)

\* F gives each task a value from the values of the tasks before it.
FromBefore(S, V, before, rank, N, F) ==
  /\ \A t \in S : /\ before[t] \subseteq S
                  /\ rank[t] \in 0 .. N
                  /\ \A p \in before[t] : rank[p] < rank[t]
  /\ \A h \in [S -> V] : \A t \in S : F[h][t] \in V
  /\ \A h, k \in [S -> V] : \A t \in S :
       (\A p \in before[t] : h[p] = k[p]) => F[h][t] = F[k][t]

Solvable(S, V, F) == \E f \in [S -> V] : f = [t \in S |-> F[f][t]]

\* Some function gives every task the value that F has it have.
LEMMA Recursion ==
  ASSUME NEW S, NEW V, NEW v0 \in V, NEW before, NEW rank, NEW N \in Nat, NEW F,
         FromBefore(S, V, before, rank, N, F)
  PROVE  Solvable(S, V, F)
<1> USE DEF FromBefore
<1> DEFINE Upto(f, n) == \A t \in S : rank[t] < n => f[t] = F[f][t]
           Good == {n \in Nat : \E f \in [S -> V] : Upto(f, n)}
<1>1. 0 \in Good
  <2>1. [t \in S |-> v0] \in [S -> V] /\ Upto([t \in S |-> v0], 0)
    OBVIOUS
  <2> QED
    BY <2>1
<1>2. ASSUME NEW n \in Good PROVE n + 1 \in Good
  <2>1. PICK f \in [S -> V] : Upto(f, n)
    BY <1>2
  <2> DEFINE h == [t \in S |-> IF rank[t] < n THEN f[t] ELSE F[f][t]]
  <2>2. h \in [S -> V]
    OBVIOUS
  <2>3. \A t \in S : h[t] = F[f][t]
    BY <2>1
  <2>4. \A t \in S : rank[t] < n => h[t] = f[t]
    OBVIOUS
  <2> HIDE DEF h
  <2>5. ASSUME NEW t \in S, rank[t] < n + 1 PROVE h[t] = F[h][t]
    <3>1. \A p \in before[t] : p \in S /\ rank[p] \in Nat /\ rank[t] \in Nat /\ rank[p] < rank[t]
      OBVIOUS
    <3>2. \A p \in before[t] : rank[p] < n
      BY <2>5, <3>1
    <3>3. \A p \in before[t] : h[p] = f[p]
      BY <2>4, <3>1, <3>2
    <3>4. F[h][t] = F[f][t]
      BY <2>2, <3>3
    <3> QED
      BY <2>3, <3>4
  <2>6. Upto(h, n + 1)
    BY <2>5
  <2> QED
    BY <2>2, <2>6
<1>3. N + 1 \in Good
  <2>1. Good \in SUBSET Nat
    OBVIOUS
  <2> HIDE DEF Good
  <2> QED
    BY <1>1, <1>2, <2>1, EveryNumber
<1>4. PICK f \in [S -> V] : Upto(f, N + 1)
  BY <1>3
<1>5. \A t \in S : f[t] = F[f][t]
  BY <1>4
<1>6. f = [t \in S |-> F[f][t]]
  BY <1>5
<1> QED
  BY <1>6 DEF Solvable

\* The times x gives finitely many tasks; the last and the first of them.
TimesOf(P, x, ts) ==
  /\ IsFiniteSet(P)
  /\ \A p \in P : x[p] \in Int
  /\ ts = {x[p] : p \in P}

\* The last of them is one of them and no earlier than any.
LEMMA LatestOf ==
  ASSUME NEW P, NEW x, NEW ts, TimesOf(P, x, ts), NEW base \in Int
  PROVE  /\ P = {} => Latest(ts, base) = base
         /\ P # {} => \E p \in P : Latest(ts, base) = x[p]
         /\ \A p \in P : x[p] <= Latest(ts, base)
<1> USE DEF TimesOf
<1>1. IsFiniteSet(ts)
  BY FiniteTimes
<1>2. ts \subseteq Int
  OBVIOUS
<1>3. /\ ts = {} => Latest(ts, base) = base
      /\ ts # {} => Latest(ts, base) \in ts
      /\ \A y \in ts : y <= Latest(ts, base)
  BY <1>1, <1>2, LatestIs
<1> QED
  BY <1>3

\* The first of them is one of them and no later than any.
LEMMA SoonestOf ==
  ASSUME NEW P, NEW x, NEW ts, TimesOf(P, x, ts), NEW base \in Int
  PROVE  /\ P = {} => Soonest(ts, base) = base
         /\ P # {} => \E p \in P : Soonest(ts, base) = x[p]
         /\ \A p \in P : Soonest(ts, base) <= x[p]
<1> USE DEF TimesOf
<1>1. IsFiniteSet(ts)
  BY FiniteTimes
<1>2. ts \subseteq Int
  OBVIOUS
<1>3. /\ ts = {} => Soonest(ts, base) = base
      /\ ts # {} => Soonest(ts, base) \in ts
      /\ \A y \in ts : Soonest(ts, base) <= y
  BY <1>1, <1>2, SoonestIs
<1> QED
  BY <1>3

\* The times a task waits for in the forward pass, and its start.
TimesBefore(g, dur, f, t) == {f[p] + dur[p] + g.lag[<<p, t>>] : p \in Preds(g, t)}
StartAt(g, dur, f, t) == Latest(TimesBefore(g, dur, f, t), 0)

\* It is zero, or what one of those times is, and before none of them.
LEMMA StartIs ==
  ASSUME NEW g, IsGraph(g), NEW dur \in [g.nodes -> Nat], NEW f, NEW t \in g.nodes,
         \A p \in Preds(g, t) : f[p] \in Nat
  PROVE  /\ StartAt(g, dur, f, t) \in Nat
         /\ \A p \in Preds(g, t) : f[p] + dur[p] + g.lag[<<p, t>>] <= StartAt(g, dur, f, t)
         /\ \/ StartAt(g, dur, f, t) = 0
            \/ \E p \in Preds(g, t) : StartAt(g, dur, f, t) = f[p] + dur[p] + g.lag[<<p, t>>]
<1>1. IsFiniteSet(Preds(g, t)) /\ Preds(g, t) \subseteq g.nodes
  BY Neighbours
<1>2. \A p \in Preds(g, t) : dur[p] \in Nat /\ g.lag[<<p, t>>] \in Nat
  BY Neighbours DEF IsGraph
<1>3. PICK after : after = [p \in Preds(g, t) |-> f[p] + dur[p] + g.lag[<<p, t>>]]
  OBVIOUS
<1>4. \A p \in Preds(g, t) : /\ after[p] = f[p] + dur[p] + g.lag[<<p, t>>]
                             /\ after[p] \in Nat /\ after[p] \in Int
  BY <1>2, <1>3
<1>5. PICK ts : ts = {after[p] : p \in Preds(g, t)}
  OBVIOUS
<1>6. StartAt(g, dur, f, t) = Latest(ts, 0)
  BY <1>4, <1>5 DEF StartAt, TimesBefore
<1>7. /\ Preds(g, t) = {} => Latest(ts, 0) = 0
      /\ Preds(g, t) # {} => \E p \in Preds(g, t) : Latest(ts, 0) = after[p]
      /\ \A p \in Preds(g, t) : after[p] <= Latest(ts, 0)
  <2>1. TimesOf(Preds(g, t), after, ts)
    BY <1>1, <1>4, <1>5 DEF TimesOf
  <2>2. 0 \in Int
    OBVIOUS
  <2> QED
    BY <2>1, <2>2, LatestOf
<1>8. StartAt(g, dur, f, t) \in Nat
  <2>1. Preds(g, t) = {} => Latest(ts, 0) \in Nat
    BY <1>7
  <2>2. Preds(g, t) # {} => Latest(ts, 0) \in Nat
    BY <1>4, <1>7
  <2> QED
    BY <1>6, <2>1, <2>2
<1>9. \A p \in Preds(g, t) : f[p] + dur[p] + g.lag[<<p, t>>] <= StartAt(g, dur, f, t)
  BY <1>4, <1>6, <1>7
<1>10. Preds(g, t) # {} =>
         \E p \in Preds(g, t) : StartAt(g, dur, f, t) = f[p] + dur[p] + g.lag[<<p, t>>]
  BY <1>4, <1>6, <1>7
<1> QED
  BY <1>6, <1>7, <1>8, <1>9, <1>10

\* The forward pass has the values its equation gives.
LEMMA StartsAre ==
  ASSUME NEW g, IsGraph(g), NEW rank, Ranked(g, rank), NEW dur \in [g.nodes -> Nat]
  PROVE  /\ Starts(g, dur) \in [g.nodes -> Nat]
         /\ \A t \in g.nodes : Starts(g, dur)[t] = StartAt(g, dur, Starts(g, dur), t)
<1> DEFINE S == g.nodes
           N == Cardinality(g.nodes)
           F == [h \in [S -> Nat] |-> [t \in S |-> StartAt(g, dur, h, t)]]
           before == [t \in S |-> Preds(g, t)]
           Is(f) == f = [t \in S |-> Latest({f[p] + dur[p] + g.lag[<<p, t>>] : p \in Preds(g, t)}, 0)]
<1>1. Ranked(g, rank)
  OBVIOUS
<1>2. N \in Nat
  BY FS_CardinalityType DEF IsGraph
<1>3. \A t \in S : /\ before[t] \subseteq S
                   /\ rank[t] \in 0 .. N
                   /\ \A p \in before[t] : rank[p] < rank[t]
  BY <1>1, <1>2 DEF Ranked, Preds
<1>4. ASSUME NEW h \in [S -> Nat], NEW t \in S PROVE F[h][t] \in Nat
  <2>1. F[h][t] = StartAt(g, dur, h, t)
    OBVIOUS
  <2>2. \A p \in Preds(g, t) : h[p] \in Nat
    BY DEF Preds
  <2> HIDE DEF F
  <2> QED
    BY <2>1, <2>2, StartIs
<1>5. ASSUME NEW h \in [S -> Nat], NEW k \in [S -> Nat], NEW t \in S,
             \A p \in before[t] : h[p] = k[p]
      PROVE  F[h][t] = F[k][t]
  <2>1. {h[p] + dur[p] + g.lag[<<p, t>>] : p \in Preds(g, t)}
          = {k[p] + dur[p] + g.lag[<<p, t>>] : p \in Preds(g, t)}
    BY <1>5
  <2> QED
    BY <2>1 DEF StartAt, TimesBefore
<1>6. Solvable(S, Nat, F)
  <2> HIDE DEF F, before, S, N
  <2>1. FromBefore(S, Nat, before, rank, N, F)
    BY <1>3, <1>4, <1>5 DEF FromBefore
  <2> QED
    BY <1>2, <2>1, Recursion
<1>7. PICK f \in [S -> Nat] : Is(f)
  BY <1>6 DEF StartAt, TimesBefore, Solvable
<1>8. Starts(g, dur) = CHOOSE h : Is(h)
  BY DEF Starts
<1> HIDE DEF Is
<1>9. Is(Starts(g, dur))
  BY <1>7, <1>8
<1> DEFINE start == Starts(g, dur)
<1>10. start = [t \in S |-> StartAt(g, dur, start, t)]
  BY <1>9 DEF Is, StartAt, TimesBefore
<1> HIDE DEF start
<1>11. \A t \in S : start[t] = StartAt(g, dur, start, t)
  BY <1>10
<1>12. \A t \in S : start[t] \in Nat
  <2> DEFINE Good == {t \in S : start[t] \in Nat}
  <2>1. \A t \in g.nodes : Preds(g, t) \subseteq Good => t \in Good
    BY <1>11, StartIs
  <2>2. Good \in SUBSET g.nodes
    OBVIOUS
  <2>3. Good = g.nodes
    <3> HIDE DEF Good
    <3> QED
      BY <1>1, <2>1, <2>2, Forward
  <2> QED
    BY <2>3
<1>13. start \in [S -> Nat]
  BY <1>10, <1>12
<1> QED
  BY <1>11, <1>13 DEF start

\* No task ends after the plan, which ends with one of them.
LEMMA EndIs ==
  ASSUME NEW g, IsGraph(g), NEW starts, NEW dur,
         \A t \in g.nodes : starts[t] \in Nat /\ dur[t] \in Nat
  PROVE  /\ EndOfPlan(g, starts, dur) \in Nat
         /\ \A t \in g.nodes : starts[t] + dur[t] <= EndOfPlan(g, starts, dur)
         /\ g.nodes # {} => \E t \in g.nodes : EndOfPlan(g, starts, dur) = starts[t] + dur[t]
<1>1. PICK to : to = [t \in g.nodes |-> starts[t] + dur[t]]
  OBVIOUS
<1>2. \A t \in g.nodes : to[t] = starts[t] + dur[t] /\ to[t] \in Nat /\ to[t] \in Int
  BY <1>1
<1>3. PICK ts : ts = {to[t] : t \in g.nodes}
  OBVIOUS
<1>4. EndOfPlan(g, starts, dur) = Latest(ts, 0)
  BY <1>2, <1>3 DEF EndOfPlan
<1>5. TimesOf(g.nodes, to, ts)
  BY <1>2, <1>3 DEF TimesOf, IsGraph
<1>6. /\ g.nodes = {} => Latest(ts, 0) = 0
      /\ g.nodes # {} => \E t \in g.nodes : Latest(ts, 0) = to[t]
      /\ \A t \in g.nodes : to[t] <= Latest(ts, 0)
  <2>1. 0 \in Int
    OBVIOUS
  <2> QED
    BY <1>5, <2>1, LatestOf
<1>7. Latest(ts, 0) \in Nat
  <2>1. g.nodes = {} => Latest(ts, 0) \in Nat
    BY <1>6
  <2>2. g.nodes # {} => Latest(ts, 0) \in Nat
    BY <1>2, <1>6
  <2> QED
    BY <2>1, <2>2
<1>8. \A t \in g.nodes : starts[t] + dur[t] <= Latest(ts, 0)
  BY <1>2, <1>6
<1>9. g.nodes # {} => \E t \in g.nodes : Latest(ts, 0) = starts[t] + dur[t]
  BY <1>2, <1>6
<1> QED
  BY <1>4, <1>7, <1>8, <1>9

\* The times a task must leave to those after it in the backward pass, and its
\* latest start.
TimesAfter(g, f, t) == {f[s] - g.lag[<<t, s>>] : s \in Succs(g, t)}
LateAt(g, total, f, t) == Soonest(TimesAfter(g, f, t), total) - g.dur[t]

\* It leaves every task after it its latest start, and the end of the plan where it is.
LEMMA LateIs ==
  ASSUME NEW g, IsGraph(g), NEW total \in Int, NEW f, NEW t \in g.nodes,
         \A s \in Succs(g, t) : f[s] \in Int
  PROVE  /\ LateAt(g, total, f, t) \in Int
         /\ \A s \in Succs(g, t) : LateAt(g, total, f, t) + g.dur[t] + g.lag[<<t, s>>] <= f[s]
         /\ \/ LateAt(g, total, f, t) = total - g.dur[t]
            \/ \E s \in Succs(g, t) : LateAt(g, total, f, t) = f[s] - g.lag[<<t, s>>] - g.dur[t]
<1>1. IsFiniteSet(Succs(g, t)) /\ Succs(g, t) \subseteq g.nodes
  BY Neighbours
<1>2. g.dur[t] \in Nat /\ \A s \in Succs(g, t) : g.lag[<<t, s>>] \in Nat
  BY Neighbours DEF IsGraph
<1>3. PICK by : by = [s \in Succs(g, t) |-> f[s] - g.lag[<<t, s>>]]
  OBVIOUS
<1>4. \A s \in Succs(g, t) : by[s] = f[s] - g.lag[<<t, s>>] /\ by[s] \in Int
  BY <1>2, <1>3
<1>5. PICK ts : ts = {by[s] : s \in Succs(g, t)}
  OBVIOUS
<1>6. LateAt(g, total, f, t) = Soonest(ts, total) - g.dur[t]
  <2>1. TimesAfter(g, f, t) = ts
    BY <1>4, <1>5 DEF TimesAfter
  <2> QED
    BY <2>1 DEF LateAt
<1>7. /\ Succs(g, t) = {} => Soonest(ts, total) = total
      /\ Succs(g, t) # {} => \E s \in Succs(g, t) : Soonest(ts, total) = by[s]
      /\ \A s \in Succs(g, t) : Soonest(ts, total) <= by[s]
  <2>1. TimesOf(Succs(g, t), by, ts)
    BY <1>1, <1>4, <1>5 DEF TimesOf
  <2> QED
    BY <2>1, SoonestOf
<1>8. Soonest(ts, total) \in Int
  <2>1. Succs(g, t) = {} => Soonest(ts, total) \in Int
    BY <1>7
  <2>2. Succs(g, t) # {} => Soonest(ts, total) \in Int
    BY <1>4, <1>7
  <2> QED
    BY <2>1, <2>2
<1>9. \A s \in Succs(g, t) : Soonest(ts, total) <= f[s] - g.lag[<<t, s>>]
  BY <1>4, <1>7
<1>10. Succs(g, t) # {} => \E s \in Succs(g, t) : Soonest(ts, total) = f[s] - g.lag[<<t, s>>]
  BY <1>4, <1>7
<1>11. LateAt(g, total, f, t) \in Int
  BY <1>2, <1>6, <1>8
<1>12. \A s \in Succs(g, t) : LateAt(g, total, f, t) + g.dur[t] + g.lag[<<t, s>>] <= f[s]
  BY <1>2, <1>6, <1>8, <1>9
<1>13. \/ LateAt(g, total, f, t) = total - g.dur[t]
       \/ \E s \in Succs(g, t) : LateAt(g, total, f, t) = f[s] - g.lag[<<t, s>>] - g.dur[t]
  BY <1>6, <1>7, <1>10
<1> QED
  BY <1>11, <1>12, <1>13

\* The backward pass has the values its equation gives.
LEMMA LatestStartsAre ==
  ASSUME NEW g, IsGraph(g), IsAcyclic(g)
  PROVE  /\ LatestStarts(g) \in [g.nodes -> Int]
         /\ \A t \in g.nodes :
              LatestStarts(g)[t] = LateAt(g, EndOfPlan(g, Starts(g, g.dur), g.dur), LatestStarts(g), t)
<1> DEFINE S == g.nodes
           N == Cardinality(g.nodes)
           total == EndOfPlan(g, Starts(g, g.dur), g.dur)
           F == [h \in [S -> Int] |-> [t \in S |-> LateAt(g, total, h, t)]]
           before == [t \in S |-> Succs(g, t)]
           Is(f) == f = [t \in S |->
                           Soonest({f[s] - g.lag[<<t, s>>] : s \in Succs(g, t)}, total) - g.dur[t]]
<1>1. PICK rank : Ranked(g, rank)
  BY AcyclicRanked
<1>2. N \in Nat
  BY FS_CardinalityType DEF IsGraph
<1>3. total \in Int
  <2>1. g.dur \in [g.nodes -> Nat]
    BY DEF IsGraph
  <2>2. \A t \in g.nodes : Starts(g, g.dur)[t] \in Nat /\ g.dur[t] \in Nat
    BY <1>1, <2>1, StartsAre
  <2>3. total \in Nat
    BY <2>2, EndIs
  <2> QED
    BY <2>3
<1> DEFINE back == [t \in S |-> N - rank[t]]
<1>4. \A t \in S : rank[t] \in 1 .. N /\ back[t] = N - rank[t]
  BY <1>1 DEF Ranked
<1>5. \A t \in S : /\ before[t] \subseteq S
                   /\ back[t] \in 0 .. N
                   /\ \A s \in before[t] : back[s] < back[t]
  <2> TAKE t \in S
  <2>1. \A s \in before[t] : s \in S /\ rank[t] < rank[s]
    BY <1>1, Neighbours DEF Ranked
  <2>2. back[t] \in 0 .. N
    BY <1>2, <1>4
  <2> HIDE DEF before, back
  <2>3. \A s \in before[t] : back[s] < back[t]
    BY <1>2, <1>4, <2>1
  <2> QED
    BY <2>1, <2>2, <2>3
<1> HIDE DEF total
<1>6. ASSUME NEW h \in [S -> Int], NEW t \in S PROVE F[h][t] \in Int
  <2>1. F[h][t] = LateAt(g, total, h, t)
    OBVIOUS
  <2>2. \A s \in Succs(g, t) : h[s] \in Int
    BY DEF Succs
  <2> HIDE DEF F
  <2> QED
    BY <1>3, <2>1, <2>2, LateIs
<1>7. ASSUME NEW h \in [S -> Int], NEW k \in [S -> Int], NEW t \in S,
             \A s \in before[t] : h[s] = k[s]
      PROVE  F[h][t] = F[k][t]
  <2>1. TimesAfter(g, h, t) = TimesAfter(g, k, t)
    BY <1>7 DEF TimesAfter
  <2> QED
    BY <2>1 DEF LateAt
<1>8. Solvable(S, Int, F)
  <2> HIDE DEF F, before, back, S, N
  <2>1. FromBefore(S, Int, before, back, N, F)
    BY <1>5, <1>6, <1>7 DEF FromBefore
  <2>2. 0 \in Int
    OBVIOUS
  <2> QED
    BY <1>2, <2>1, <2>2, Recursion
<1>9. PICK f \in [S -> Int] : Is(f)
  BY <1>8 DEF LateAt, TimesAfter, Solvable
<1>10. LatestStarts(g) = CHOOSE h : Is(h)
  BY DEF LatestStarts, total
<1> HIDE DEF Is
<1>11. Is(LatestStarts(g))
  BY <1>9, <1>10
<1> DEFINE late == LatestStarts(g)
<1>12. late = [t \in S |-> LateAt(g, total, late, t)]
  BY <1>11 DEF Is, LateAt, TimesAfter
<1> HIDE DEF late
<1>13. \A t \in S : late[t] = LateAt(g, total, late, t)
  BY <1>12
<1>14. \A t \in S : late[t] \in Int
  <2> DEFINE Good == {t \in S : late[t] \in Int}
  <2>1. \A t \in g.nodes : Succs(g, t) \subseteq Good => t \in Good
    BY <1>3, <1>13, LateIs
  <2>2. Good \in SUBSET g.nodes
    OBVIOUS
  <2>3. Good = g.nodes
    <3> HIDE DEF Good
    <3> QED
      BY <1>1, <2>1, <2>2, Backward
  <2> QED
    BY <2>3
<1>15. late \in [S -> Int]
  BY <1>12, <1>14
<1> QED
  BY <1>13, <1>15 DEF late, total

-----------------------------------------------------------------------------
(* Slack                                                                     *)

\* What the two passes say of each task: it starts no later than it may, which
\* leaves those after it and the end of the plan where they are.
InWindow(g, early, late, total) ==
  /\ early \in [g.nodes -> Nat] /\ late \in [g.nodes -> Int] /\ total \in Nat
  /\ \A t \in g.nodes : early[t] + g.dur[t] <= total /\ late[t] + g.dur[t] <= total
  /\ \A t \in g.nodes : early[t] <= late[t]
  /\ \A t \in g.nodes : \A p \in Preds(g, t) :
       late[p] + g.dur[p] + g.lag[<<p, t>>] <= late[t]

\* The two passes leave every task such a window.
LEMMA Windows ==
  ASSUME NEW g, IsGraph(g), IsAcyclic(g)
  PROVE  InWindow(g, Starts(g, g.dur), LatestStarts(g), EndOfPlan(g, Starts(g, g.dur), g.dur))
<1> DEFINE early == Starts(g, g.dur)
           late == LatestStarts(g)
           total == EndOfPlan(g, early, g.dur)
<1>1. PICK rank : Ranked(g, rank)
  BY AcyclicRanked
<1>2. g.dur \in [g.nodes -> Nat] /\ \A e \in g.edges : g.lag[e] \in Nat
  BY DEF IsGraph
<1>3. early \in [g.nodes -> Nat] /\ \A t \in g.nodes : early[t] = StartAt(g, g.dur, early, t)
  BY <1>1, <1>2, StartsAre
<1>4. late \in [g.nodes -> Int] /\ \A t \in g.nodes : late[t] = LateAt(g, total, late, t)
  BY LatestStartsAre
<1> HIDE DEF early, late
<1>5. total \in Nat /\ \A t \in g.nodes : early[t] + g.dur[t] <= total
  BY <1>2, <1>3, EndIs
<1> HIDE DEF total
<1>6. \A t \in g.nodes : \A p \in Preds(g, t) : early[p] + g.dur[p] + g.lag[<<p, t>>] <= early[t]
  <2> TAKE t \in g.nodes
  <2>1. \A p \in Preds(g, t) : early[p] \in Nat
    BY <1>3 DEF Preds
  <2> QED
    BY <1>2, <1>3, <2>1, StartIs
<1>7. ASSUME NEW t \in g.nodes
      PROVE  /\ \A s \in Succs(g, t) : late[t] + g.dur[t] + g.lag[<<t, s>>] <= late[s]
             /\ \/ late[t] = total - g.dur[t]
                \/ \E s \in Succs(g, t) : late[t] = late[s] - g.lag[<<t, s>>] - g.dur[t]
  <2>1. \A s \in Succs(g, t) : late[s] \in Int
    BY <1>4 DEF Succs
  <2>2. total \in Int
    BY <1>5
  <2> QED
    BY <1>4, <2>1, <2>2, LateIs
<1>8. ASSUME NEW t \in g.nodes, NEW s \in Succs(g, t)
      PROVE  s \in g.nodes /\ t \in Preds(g, s) /\ g.lag[<<t, s>>] \in Nat
  BY <1>2, Neighbours
<1>9. \A t \in g.nodes : late[t] + g.dur[t] <= total
  <2> DEFINE Good == {t \in g.nodes : late[t] + g.dur[t] <= total}
  <2>1. ASSUME NEW t \in g.nodes, Succs(g, t) \subseteq Good PROVE t \in Good
    <3>1. CASE late[t] = total - g.dur[t]
      BY <1>2, <1>5, <3>1
    <3>2. ASSUME NEW s \in Succs(g, t), late[t] = late[s] - g.lag[<<t, s>>] - g.dur[t]
          PROVE  late[t] + g.dur[t] <= total
      <4>1. s \in g.nodes /\ g.lag[<<t, s>>] \in Nat /\ late[s] + g.dur[s] <= total
        BY <1>8, <2>1
      <4> QED
        BY <1>2, <1>4, <1>5, <3>2, <4>1
    <3> QED
      BY <1>7, <3>1, <3>2
  <2>2. Good = g.nodes
    <3>1. Good \in SUBSET g.nodes
      OBVIOUS
    <3> HIDE DEF Good
    <3> QED
      BY <1>1, <2>1, <3>1, Backward
  <2> QED
    BY <2>2
<1>10. \A t \in g.nodes : early[t] <= late[t]
  <2> DEFINE Good == {t \in g.nodes : early[t] <= late[t]}
  <2>1. ASSUME NEW t \in g.nodes, Succs(g, t) \subseteq Good PROVE t \in Good
    <3>1. CASE late[t] = total - g.dur[t]
      BY <1>2, <1>3, <1>5, <3>1
    <3>2. ASSUME NEW s \in Succs(g, t), late[t] = late[s] - g.lag[<<t, s>>] - g.dur[t]
          PROVE  early[t] <= late[t]
      <4>1. s \in g.nodes /\ g.lag[<<t, s>>] \in Nat /\ t \in Preds(g, s) /\ early[s] <= late[s]
        BY <1>8, <2>1
      <4>2. early[t] + g.dur[t] + g.lag[<<t, s>>] <= early[s]
        BY <1>6, <4>1
      <4> QED
        BY <1>2, <1>3, <1>4, <3>2, <4>1, <4>2
    <3> QED
      BY <1>7, <3>1, <3>2
  <2>2. Good = g.nodes
    <3>1. Good \in SUBSET g.nodes
      OBVIOUS
    <3> HIDE DEF Good
    <3> QED
      BY <1>1, <2>1, <3>1, Backward
  <2> QED
    BY <2>2
<1>11. \A t \in g.nodes : \A p \in Preds(g, t) : late[p] + g.dur[p] + g.lag[<<p, t>>] <= late[t]
  <2> TAKE t \in g.nodes
  <2> TAKE p \in Preds(g, t)
  <2>1. p \in g.nodes /\ t \in Succs(g, p)
    BY Neighbours
  <2> QED
    BY <1>7, <2>1
<1> QED
  BY <1>3, <1>4, <1>5, <1>9, <1>10, <1>11 DEF InWindow, early, late, total

\* No task has a negative slack: what the critical path leaves out can wait.
THEOREM SlackIsNatural ==
  ASSUME NEW g, IsGraph(g), IsAcyclic(g)
  PROVE  Slack(g) \in [g.nodes -> Nat]
<1> DEFINE early == Starts(g, g.dur)
           late == LatestStarts(g)
<1>1. /\ early \in [g.nodes -> Nat] /\ late \in [g.nodes -> Int]
      /\ \A t \in g.nodes : early[t] <= late[t]
  BY Windows DEF InWindow
<1>2. Slack(g) = [t \in g.nodes |-> late[t] - early[t]]
  BY DEF Slack
<1> HIDE DEF early, late
<1>3. \A t \in g.nodes : late[t] - early[t] \in Nat
  BY <1>1
<1> QED
  BY <1>2, <1>3

\* The schedule gives every task a start and an end that is not before it.
LEMMA Schedules ==
  ASSUME NEW g, IsGraph(g), NEW rank, Ranked(g, rank), NEW default \in Nat
  PROVE  LET dur == Scheduled(g, default)
             schedule == Schedule(g, default)
         IN  /\ dur \in [g.nodes -> Nat] /\ Starts(g, dur) \in [g.nodes -> Nat]
             /\ DOMAIN schedule = g.nodes
             /\ \A t \in g.nodes : /\ schedule[t].from = Starts(g, dur)[t]
                                  /\ schedule[t].to = Starts(g, dur)[t] + dur[t]
             /\ schedule \in [g.nodes -> {w \in [from : Nat, to : Nat] : w.from <= w.to}]
<1> DEFINE dur == Scheduled(g, default)
           starts == Starts(g, dur)
           schedule == Schedule(g, default)
<1>1. dur \in [g.nodes -> Nat]
  BY DEF Scheduled, IsGraph
<1>2. starts \in [g.nodes -> Nat]
  BY <1>1, StartsAre
<1>3. schedule = [t \in g.nodes |-> [from |-> starts[t], to |-> starts[t] + dur[t]]]
  BY DEF Schedule
<1> HIDE DEF dur, starts, schedule
<1>4. \A t \in g.nodes : starts[t] \in Nat /\ starts[t] + dur[t] \in Nat /\ starts[t] <= starts[t] + dur[t]
  BY <1>1, <1>2
<1>5. \A t \in g.nodes :
        [from |-> starts[t], to |-> starts[t] + dur[t]] \in {w \in [from : Nat, to : Nat] : w.from <= w.to}
  BY <1>4
<1>6. schedule \in [g.nodes -> {w \in [from : Nat, to : Nat] : w.from <= w.to}]
  BY <1>3, <1>5
<1>7. \A t \in g.nodes : schedule[t].from = starts[t] /\ schedule[t].to = starts[t] + dur[t]
  BY <1>3
<1> QED
  BY <1>1, <1>2, <1>6, <1>7 DEF dur, starts, schedule

-----------------------------------------------------------------------------
(* ScheduleAdjuster                                                          *)

Span == [from : Nat, to : Nat]
Proper == {w \in Span : w.from <= w.to}

\* When the tasks before one end, with their lags, and where that moves it.
EndsBefore(g, f, t) == {f[p].to + g.lag[<<p, t>>] : p \in Preds(g, t)}

Follows(g, source, t) ==
  LET order == TopologicalSort(g)
      Place(u) == CHOOSE i \in 1 .. Len(order) : order[i] = u
  IN  Place(t) > Place(source)

MovedAt(g, schedule, source, delay, f, t) ==
  IF t = source THEN [schedule[t] EXCEPT !.to = @ + delay]
  ELSE LET due == Latest(EndsBefore(g, f, t), 0)
       IN  IF Follows(g, source, t) /\ due > schedule[t].from
           THEN [from |-> due, to |-> due + schedule[t].to - schedule[t].from]
           ELSE schedule[t]

\* What a window w of a task, moved or not, has to do with the windows f of
\* those before it.
MovesTo(g, schedule, source, delay, f, t, w) ==
  /\ w \in Span
  /\ schedule[t].to <= w.to
  /\ t = source => w.to = schedule[t].to + delay
  /\ t # source =>
       \/ w = schedule[t]
       \/ \E p \in Preds(g, t) :
            w.to = f[p].to + g.lag[<<p, t>>] + schedule[t].to - schedule[t].from

\* The window that the adjuster gives a task is such a one.
LEMMA MovedIs ==
  ASSUME NEW g, IsGraph(g), NEW schedule \in [g.nodes -> Proper], NEW source, NEW delay \in Nat,
         NEW f, NEW t \in g.nodes, \A p \in Preds(g, t) : f[p] \in Span
  PROVE  MovesTo(g, schedule, source, delay, f, t, MovedAt(g, schedule, source, delay, f, t))
<1> DEFINE due == Latest(EndsBefore(g, f, t), 0)
           moved == MovedAt(g, schedule, source, delay, f, t)
<1>1. IsFiniteSet(Preds(g, t)) /\ \A p \in Preds(g, t) : g.lag[<<p, t>>] \in Nat
  BY Neighbours DEF IsGraph
<1>2. PICK ends : ends = [p \in Preds(g, t) |-> f[p].to + g.lag[<<p, t>>]]
  OBVIOUS
<1>3. \A p \in Preds(g, t) : ends[p] = f[p].to + g.lag[<<p, t>>] /\ ends[p] \in Nat /\ ends[p] \in Int
  BY <1>1, <1>2 DEF Span
<1>4. PICK ts : ts = {ends[p] : p \in Preds(g, t)}
  OBVIOUS
<1>5. due = Latest(ts, 0)
  <2>1. EndsBefore(g, f, t) = ts
    BY <1>3, <1>4 DEF EndsBefore
  <2> QED
    BY <2>1
<1>6. /\ Preds(g, t) = {} => Latest(ts, 0) = 0
      /\ Preds(g, t) # {} => \E p \in Preds(g, t) : Latest(ts, 0) = ends[p]
  <2>1. TimesOf(Preds(g, t), ends, ts)
    BY <1>1, <1>3, <1>4 DEF TimesOf
  <2>2. 0 \in Int
    OBVIOUS
  <2> QED
    BY <2>1, <2>2, LatestOf
<1> HIDE DEF due
<1>7. due \in Nat /\ (due = 0 \/ \E p \in Preds(g, t) : due = f[p].to + g.lag[<<p, t>>])
  <2>1. CASE Preds(g, t) = {}
    BY <1>5, <1>6, <2>1
  <2>2. CASE Preds(g, t) # {}
    <3>1. PICK p \in Preds(g, t) : Latest(ts, 0) = ends[p]
      BY <1>6, <2>2
    <3> QED
      BY <1>3, <1>5, <3>1
  <2> QED
    BY <2>1, <2>2
<1>8. /\ schedule[t].from \in Nat /\ schedule[t].to \in Nat /\ schedule[t].from <= schedule[t].to
      /\ schedule[t] \in Span /\ schedule[t] = [from |-> schedule[t].from, to |-> schedule[t].to]
  BY DEF Proper, Span
<1>9. CASE t = source
  <2>1. moved = [schedule[t] EXCEPT !.to = @ + delay]
    BY <1>9 DEF MovedAt
  <2>2. moved = [from |-> schedule[t].from, to |-> schedule[t].to + delay]
    BY <1>8, <2>1
  <2> HIDE DEF moved
  <2>3. moved.to = schedule[t].to + delay /\ moved \in Span /\ schedule[t].to <= moved.to
    BY <1>8, <2>2 DEF Span
  <2> QED
    BY <1>9, <2>3 DEF moved, MovesTo
<1>10. CASE t # source /\ Follows(g, source, t) /\ due > schedule[t].from
  <2>1. moved = [from |-> due, to |-> due + schedule[t].to - schedule[t].from]
    BY <1>10 DEF MovedAt, due
  <2> HIDE DEF moved
  <2>2. moved \in Span /\ schedule[t].to <= moved.to
    BY <1>7, <1>8, <1>10, <2>1 DEF Span
  <2>3. PICK p \in Preds(g, t) : due = f[p].to + g.lag[<<p, t>>]
    BY <1>7, <1>8, <1>10
  <2>4. moved.to = f[p].to + g.lag[<<p, t>>] + schedule[t].to - schedule[t].from
    BY <2>1, <2>3
  <2> QED
    BY <1>10, <2>2, <2>4 DEF moved, MovesTo
<1>11. CASE t # source /\ ~(Follows(g, source, t) /\ due > schedule[t].from)
  <2>1. moved = schedule[t]
    BY <1>11 DEF MovedAt, due
  <2> HIDE DEF moved
  <2> QED
    BY <1>8, <1>11, <2>1 DEF moved, MovesTo
<1> QED
  BY <1>9, <1>10, <1>11

\* The adjusted schedule has the windows its equation gives.
LEMMA AdjustIs ==
  ASSUME NEW g, IsGraph(g), IsAcyclic(g), NEW schedule \in [g.nodes -> Proper], NEW source, NEW delay \in Nat
  PROVE  LET new == Adjust(g, schedule, source, delay)
         IN  /\ new \in [g.nodes -> Span]
             /\ \A t \in g.nodes : new[t] = MovedAt(g, schedule, source, delay, new, t)
<1> DEFINE S == g.nodes
           N == Cardinality(g.nodes)
           At(f, t) == MovedAt(g, schedule, source, delay, f, t)
           F == [h \in [S -> Span] |-> [t \in S |-> At(h, t)]]
           before == [t \in S |-> Preds(g, t)]
           Is(f) == f = [t \in S |-> At(f, t)]
           new == Adjust(g, schedule, source, delay)
<1>1. PICK rank : Ranked(g, rank)
  BY AcyclicRanked
<1>2. N \in Nat
  BY FS_CardinalityType DEF IsGraph
<1>3. \A t \in S : /\ before[t] \subseteq S
                   /\ rank[t] \in 0 .. N
                   /\ \A p \in before[t] : rank[p] < rank[t]
  BY <1>1, <1>2 DEF Ranked, Preds
<1>4. ASSUME NEW h \in [S -> Span], NEW t \in S PROVE F[h][t] \in Span
  <2>1. F[h][t] = At(h, t)
    OBVIOUS
  <2>2. \A p \in Preds(g, t) : h[p] \in Span
    BY DEF Preds
  <2> HIDE DEF F
  <2> QED
    BY <2>1, <2>2, MovedIs DEF MovesTo
<1>5. ASSUME NEW h \in [S -> Span], NEW k \in [S -> Span], NEW t \in S,
             \A p \in before[t] : h[p] = k[p]
      PROVE  F[h][t] = F[k][t]
  <2>1. EndsBefore(g, h, t) = EndsBefore(g, k, t)
    BY <1>5 DEF EndsBefore
  <2>2. At(h, t) = At(k, t)
    BY <2>1 DEF MovedAt
  <2> HIDE DEF At
  <2> QED
    BY <2>2
<1>6. Solvable(S, Span, F)
  <2> HIDE DEF F, before, S, N
  <2>1. FromBefore(S, Span, before, rank, N, F)
    BY <1>3, <1>4, <1>5 DEF FromBefore
  <2>2. [from |-> 0, to |-> 0] \in Span
    BY DEF Span
  <2> QED
    BY <1>2, <2>1, <2>2, Recursion
<1>7. new = CHOOSE h : Is(h)
  BY DEF Adjust, MovedAt, EndsBefore, Follows
<1> HIDE DEF At
<1>8. PICK f \in [S -> Span] : Is(f)
  BY <1>6 DEF Solvable
<1> HIDE DEF Is
<1>9. Is(new)
  BY <1>7, <1>8
<1> HIDE DEF new
<1>10. new = [t \in S |-> At(new, t)]
  BY <1>9 DEF Is
<1>11. \A t \in S : new[t] = At(new, t)
  BY <1>10
<1>12. \A t \in S : new[t] \in Span
  <2> DEFINE Good == {t \in S : new[t] \in Span}
  <2>1. \A t \in g.nodes : Preds(g, t) \subseteq Good => t \in Good
    BY <1>11, MovedIs DEF At, MovesTo
  <2>2. Good \in SUBSET g.nodes
    OBVIOUS
  <2>3. Good = g.nodes
    <3> HIDE DEF Good
    <3> QED
      BY <1>1, <2>1, <2>2, Forward
  <2> QED
    BY <2>3
<1>13. new \in [S -> Span]
  BY <1>10, <1>12
<1> QED
  BY <1>11, <1>13 DEF new, At

\* A delay within the slack of a task, carried through the schedule, leaves the
\* end of the plan where it was, whatever the plan.
THEOREM DelayWithinSlack ==
  ASSUME NEW g, IsGraph(g), IsAcyclic(g), NEW default \in Nat,
         \A t \in g.nodes : g.dur[t] > 0, NEW source \in g.nodes
  PROVE  LET schedule == Schedule(g, default)
         IN  ProjectEnd(Adjust(g, schedule, source, Slack(g)[source])) = ProjectEnd(schedule)
<1> DEFINE early == Starts(g, g.dur)
           late == LatestStarts(g)
           total == EndOfPlan(g, early, g.dur)
           schedule == Schedule(g, default)
           delay == Slack(g)[source]
           new == Adjust(g, schedule, source, delay)
<1>1. PICK rank : Ranked(g, rank)
  BY AcyclicRanked
<1>2. Scheduled(g, default) = g.dur
  BY DEF Scheduled, IsGraph
<1>3. /\ DOMAIN schedule = g.nodes
      /\ schedule \in [g.nodes -> Proper]
      /\ \A t \in g.nodes : schedule[t].from = early[t] /\ schedule[t].to = early[t] + g.dur[t]
  <2> DEFINE dur == Scheduled(g, default)
  <2>1. /\ DOMAIN schedule = g.nodes
        /\ schedule \in [g.nodes -> Proper]
        /\ \A t \in g.nodes : /\ schedule[t].from = Starts(g, dur)[t]
                             /\ schedule[t].to = Starts(g, dur)[t] + dur[t]
    BY <1>1, Schedules DEF Proper, Span
  <2>2. dur = g.dur
    BY <1>2
  <2> DEFINE starts == Starts(g, dur)
  <2>3. starts = early
    BY <2>2
  <2> HIDE DEF schedule, dur, starts, early
  <2>4. \A t \in g.nodes : schedule[t].from = starts[t] /\ schedule[t].to = starts[t] + dur[t]
    BY <2>1 DEF starts
  <2> QED
    BY <2>1, <2>2, <2>3, <2>4
<1>4. InWindow(g, early, late, total)
  BY Windows
<1>5. delay = late[source] - early[source]
  BY DEF Slack
<1>6. delay \in Nat
  BY SlackIsNatural
<1>7. g.dur \in [g.nodes -> Nat]
  BY DEF IsGraph
<1> HIDE DEF early, late, total, schedule, delay
<1>8. /\ new \in [g.nodes -> Span]
      /\ \A t \in g.nodes : new[t] = MovedAt(g, schedule, source, delay, new, t)
  BY <1>3, <1>6, AdjustIs
<1> HIDE DEF new
<1>9. ASSUME NEW t \in g.nodes PROVE MovesTo(g, schedule, source, delay, new, t, new[t])
  <2>1. \A p \in Preds(g, t) : new[p] \in Span
    BY <1>8 DEF Preds
  <2>2. MovesTo(g, schedule, source, delay, new, t, MovedAt(g, schedule, source, delay, new, t))
    BY <1>3, <1>6, <2>1, MovedIs
  <2> QED
    BY <1>8, <2>2
<1>10. \A t \in g.nodes : /\ schedule[t].from = early[t] /\ schedule[t].to = early[t] + g.dur[t]
                          /\ early[t] \in Nat /\ late[t] \in Int /\ g.dur[t] \in Nat
                          /\ early[t] <= late[t] /\ late[t] + g.dur[t] <= total
  <2> TAKE t \in g.nodes
  <2>1. schedule[t].from = early[t] /\ schedule[t].to = early[t] + g.dur[t]
    BY <1>3
  <2>2. early[t] \in Nat /\ late[t] \in Int /\ early[t] <= late[t] /\ late[t] + g.dur[t] <= total
    BY <1>4 DEF InWindow
  <2>3. g.dur[t] \in Nat
    BY <1>7
  <2> QED
    BY <2>1, <2>2, <2>3
<1>11. \A t \in g.nodes : new[t].to \in Nat
  BY <1>8 DEF Span
<1>12. \A t \in g.nodes : new[t].to <= late[t] + g.dur[t]
  <2> DEFINE Good == {t \in g.nodes : new[t].to <= late[t] + g.dur[t]}
  <2>1. ASSUME NEW t \in g.nodes, Preds(g, t) \subseteq Good PROVE t \in Good
    <3>1. CASE t = source
      BY <1>5, <1>9, <1>10, <3>1 DEF MovesTo
    <3>2. CASE new[t] = schedule[t]
      BY <1>10, <3>2
    <3>3. ASSUME NEW p \in Preds(g, t),
                 new[t].to = new[p].to + g.lag[<<p, t>>] + schedule[t].to - schedule[t].from
          PROVE  new[t].to <= late[t] + g.dur[t]
      <4>1. p \in g.nodes /\ g.lag[<<p, t>>] \in Nat /\ new[p].to <= late[p] + g.dur[p]
        BY <2>1, Neighbours DEF IsGraph
      <4>2. late[p] + g.dur[p] + g.lag[<<p, t>>] <= late[t]
        BY <1>4 DEF InWindow
      <4>3. new[t].to = new[p].to + g.lag[<<p, t>>] + g.dur[t]
        BY <1>10, <1>11, <3>3, <4>1
      <4> QED
        BY <1>10, <1>11, <4>1, <4>2, <4>3
    <3> QED
      BY <1>9, <3>1, <3>2, <3>3 DEF MovesTo
  <2>2. Good = g.nodes
    <3>1. Good \in SUBSET g.nodes
      OBVIOUS
    <3> HIDE DEF Good
    <3> QED
      BY <1>1, <2>1, <3>1, Forward
  <2> QED
    BY <2>2
<1>13. ASSUME NEW end \in [g.nodes -> Nat],
              \A t \in g.nodes : schedule[t].to <= end[t] /\ end[t] <= total
       PROVE  Latest({end[t] : t \in g.nodes}, 0) = total
  <2>1. PICK ts : ts = {end[t] : t \in g.nodes}
    OBVIOUS
  <2>2. TimesOf(g.nodes, end, ts)
    BY <2>1 DEF TimesOf, IsGraph
  <2>3. 0 \in Int
    OBVIOUS
  <2>4. /\ \E t \in g.nodes : Latest(ts, 0) = end[t]
        /\ \A t \in g.nodes : end[t] <= Latest(ts, 0)
    BY <2>2, <2>3, LatestOf
  <2>5. \E t \in g.nodes : total = early[t] + g.dur[t]
    BY <1>7, <1>10, EndIs DEF total
  <2>6. total \in Nat
    BY <1>4 DEF InWindow
  <2>7. PICK t \in g.nodes : total = schedule[t].to
    BY <1>10, <2>5
  <2>8. PICK u \in g.nodes : Latest(ts, 0) = end[u]
    BY <2>4
  <2>9. end[t] <= end[u] /\ total <= end[t] /\ end[u] <= total /\ end[t] \in Nat /\ end[u] \in Nat
    BY <1>13, <2>4, <2>7, <2>8
  <2>10. Latest(ts, 0) = total
    BY <2>6, <2>8, <2>9
  <2> QED
    BY <2>1, <2>10
<1>14. ProjectEnd(new) = total
  <2>1. PICK end : end = [t \in g.nodes |-> new[t].to]
    OBVIOUS
  <2>2. end \in [g.nodes -> Nat] /\ \A t \in g.nodes : end[t] = new[t].to
    BY <1>11, <2>1
  <2>3. \A t \in g.nodes : schedule[t].to <= end[t] /\ end[t] <= total
    <3> TAKE t \in g.nodes
    <3>1. end[t] <= late[t] + g.dur[t] /\ end[t] \in Nat
      BY <1>12, <2>2
    <3>2. total \in Nat
      BY <1>4 DEF InWindow
    <3> QED
      BY <1>9, <1>10, <2>2, <3>1, <3>2 DEF MovesTo
  <2>4. DOMAIN new = g.nodes
    BY <1>8
  <2>5. {new[t].to : t \in DOMAIN new} = {end[t] : t \in g.nodes}
    BY <2>2, <2>4
  <2> QED
    BY <1>13, <2>2, <2>3, <2>5 DEF ProjectEnd
<1>15. ProjectEnd(schedule) = total
  <2>1. PICK end : end = [t \in g.nodes |-> schedule[t].to]
    OBVIOUS
  <2>2. end \in [g.nodes -> Nat] /\ \A t \in g.nodes : end[t] = schedule[t].to
    BY <1>10, <2>1
  <2>3. \A t \in g.nodes : schedule[t].to <= end[t] /\ end[t] <= total
    <3> TAKE t \in g.nodes
    <3>1. total \in Nat
      BY <1>4 DEF InWindow
    <3>2. early[t] + g.dur[t] <= total
      BY <1>4 DEF InWindow
    <3> QED
      BY <1>10, <2>2, <3>1, <3>2
  <2>4. {schedule[t].to : t \in DOMAIN schedule} = {end[t] : t \in g.nodes}
    BY <1>3, <2>2
  <2> QED
    BY <1>13, <2>2, <2>3, <2>4 DEF ProjectEnd
<1> QED
  BY <1>14, <1>15 DEF new, schedule, delay
=============================================================================
