----------------------------- MODULE PlanProofs -----------------------------
(***************************************************************************)
(* The inductive invariants of what is decided before a machine changes:   *)
(* the plans, the claims of the providers and the layers they come from,   *)
(* and of what is kept about a person: the profile, its sections and its   *)
(* revisions.  For any number of inputs, operations, layers, sessions and  *)
(* claims.  DomainsProofs takes the theorems from them.                    *)
(***************************************************************************)
EXTENDS Plans, Composition, PersonalContext, AboutMe,
        WellFoundedInduction, FiniteSetTheorems, SequenceTheorems, TLAPS

-----------------------------------------------------------------------------
(* Induction: the forms of it that speak of sets.                           *)

\* CountedTo that have members have a least one.
LEMMA LeastMember == ASSUME NEW T, T \subseteq Nat, T # {} PROVE \E x \in T : \A y \in T : x <= y
<1>1. IsWellFoundedOn({ss \in Nat \X Nat : ss[1] < ss[2]}, Nat)
  BY NatLessThanWellFounded DEF OpToRel
<1>2. PICK x \in T : \A y \in T : ~ (<<y, x>> \in {ss \in Nat \X Nat : ss[1] < ss[2]})
  BY <1>1, WFMin
<1>3. \A y \in T : ~ (y < x)
  BY <1>2
<1>4. QED
  BY <1>3

\* A set of numbers with zero and every successor below a bound has them all.
LEMMA AllBelow == ASSUME NEW n \in Nat, NEW T, 0 \in T, \A i \in 0 .. (n - 1) : i \in T => i + 1 \in T PROVE 0 .. n \subseteq T
<1> DEFINE U == (0 .. n) \ T
<1>1. SUFFICES ASSUME U # {} PROVE FALSE
  OBVIOUS
<1>2. PICK x \in U : \A y \in U : x <= y
  <2>1. U \subseteq Nat /\ U # {}
    BY <1>1
  <2> HIDE DEF U
  <2>2. QED
    BY <2>1, LeastMember
<1>3. x # 0 /\ x - 1 \in 0 .. (n - 1) /\ x - 1 \notin U
  BY <1>2
<1>4. QED
  BY <1>2, <1>3

-----------------------------------------------------------------------------
(* PersonalContext: the sections a session may read, in their order.        *)

\* Two sections have an order.
LEMMA RankedTotal == ASSUME NEW c \in ContextSections, NEW d \in ContextSections
  PROVE /\ c = d \/ RankedBefore(c, d) \/ RankedBefore(d, c)
        /\ ~RankedBefore(c, c)
        /\ ~(RankedBefore(c, d) /\ RankedBefore(d, c))
BY SectionsNumbered DEF RankedBefore

LEMMA RankedTransitive ==
  ASSUME NEW c \in ContextSections, NEW d \in ContextSections, NEW e \in ContextSections, RankedBefore(c, d), RankedBefore(d, e)
  PROVE RankedBefore(c, e)
BY SectionsNumbered DEF RankedBefore

\* The numbers up to the size of a set.
LEMMA CountedTo == ASSUME NEW n \in Nat PROVE IsFiniteSet(1 .. n) /\ Cardinality(1 .. n) = n
BY FS_Interval

\* Sections can be listed in their order.
LEMMA RankingExists == ASSUME NEW E, E \subseteq ContextSections
  PROVE \E q \in [1 .. Cardinality(E) -> E] : \A i, j \in 1 .. Cardinality(E) : i < j => RankedBefore(q[i], q[j])
<1> DEFINE n == Cardinality(E)
           To(c) == {d \in E : d = c \/ RankedBefore(d, c)}
           place == [c \in E |-> Cardinality(To(c))]
<1>1. IsFiniteSet(E) /\ n \in Nat
  BY SectionsNumbered, FS_Subset, FS_CardinalityType
<1>2. \A c \in E : place[c] \in 1 .. n
  <2> TAKE c \in E
  <2>1. To(c) \in SUBSET E /\ c \in To(c)
    OBVIOUS
  <2>2. IsFiniteSet(To(c)) /\ Cardinality(To(c)) <= n /\ Cardinality(To(c)) \in Nat
    BY <1>1, <2>1, FS_Subset, FS_CardinalityType
  <2>3. Cardinality(To(c)) # 0
    BY <2>1, <2>2, FS_EmptySet
  <2>4. QED
    BY <1>1, <2>2, <2>3
<1>3. \A c, d \in E : RankedBefore(c, d) => place[c] < place[d]
  <2> SUFFICES ASSUME NEW c \in E, NEW d \in E, RankedBefore(c, d) PROVE place[c] < place[d]
    OBVIOUS
  <2>1. To(c) \subseteq To(d) /\ d \in To(d) /\ d \notin To(c)
    BY RankedTotal, RankedTransitive
  <2>2. IsFiniteSet(To(d)) /\ To(c) \in SUBSET To(d) /\ To(c) # To(d)
    BY <1>1, <2>1, FS_Subset
  <2>3. Cardinality(To(c)) <= Cardinality(To(d)) /\ Cardinality(To(c)) # Cardinality(To(d))
    BY <2>2, FS_Subset
  <2>4. QED
    BY <1>2, <2>3
<1>4. place \in Injection(E, 1 .. n)
  <2>1. place \in [E -> 1 .. n]
    BY <1>2
  <2>2. \A c, d \in E : c # d => place[c] # place[d]
    <3> SUFFICES ASSUME NEW c \in E, NEW d \in E, c # d PROVE place[c] # place[d]
      OBVIOUS
    <3>1. RankedBefore(c, d) \/ RankedBefore(d, c)
      BY RankedTotal
    <3>2. place[c] \in 1 .. n /\ place[d] \in 1 .. n /\ (place[c] < place[d] \/ place[d] < place[c])
      BY <1>2, <1>3, <3>1
    <3> HIDE DEF place
    <3>3. QED
      BY <1>1, <3>2
  <2>3. QED
    BY <2>1, <2>2 DEF Injection, IsInjective
<1>5. place \in Surjection(E, 1 .. n)
  BY <1>1, <1>4, CountedTo, FS_Injection
<1>6. \A i \in 1 .. n : \E c \in E : place[c] = i
  BY <1>5 DEF Surjection
<1> DEFINE q == [i \in 1 .. n |-> CHOOSE c \in E : place[c] = i]
<1>7. \A i \in 1 .. n : q[i] \in E /\ place[q[i]] = i
  BY <1>6
<1>8. \A i, j \in 1 .. n : i < j => RankedBefore(q[i], q[j])
  <2> SUFFICES ASSUME NEW i \in 1 .. n, NEW j \in 1 .. n, i < j PROVE RankedBefore(q[i], q[j])
    OBVIOUS
  <2>1. q[i] # q[j] /\ ~RankedBefore(q[j], q[i])
    <3>1. place[q[i]] = i /\ place[q[j]] = j /\ q[i] \in E /\ q[j] \in E
      BY <1>7
    <3> HIDE DEF place, q
    <3>2. QED
      BY <1>1, <1>3, <3>1
  <2>2. QED
    BY <1>7, <2>1, RankedTotal
<1>9. q \in [1 .. n -> E]
  BY <1>7
<1>10. QED
  BY <1>8, <1>9

\* The list has every section, each after the ones before it.
LEMMA RankedLists == ASSUME NEW E, E \subseteq ContextSections
  PROVE /\ Cardinality(E) \in Nat /\ IsFiniteSet(E)
        /\ Ranked(E) \in [1 .. Cardinality(E) -> E] /\ Len(Ranked(E)) = Cardinality(E)
        /\ \A i, j \in 1 .. Cardinality(E) : i # j => Ranked(E)[i] # Ranked(E)[j]
        /\ \A c \in E : \E i \in 1 .. Cardinality(E) : Ranked(E)[i] = c
<1> DEFINE n == Cardinality(E)
           q == Ranked(E)
<1>1. IsFiniteSet(E) /\ n \in Nat
  BY SectionsNumbered, FS_Subset, FS_CardinalityType
<1>2. q \in [1 .. n -> E] /\ \A i, j \in 1 .. n : i < j => RankedBefore(q[i], q[j])
  BY RankingExists DEF Ranked
<1>3. Len(q) = n
  BY <1>1, <1>2
<1>4. \A i, j \in 1 .. n : i # j => q[i] # q[j]
  BY <1>1, <1>2, RankedTotal
<1>5. q \in Injection(1 .. n, E)
  BY <1>2, <1>4 DEF Injection, IsInjective
<1>6. q \in Surjection(1 .. n, E)
  BY <1>1, <1>5, CountedTo, FS_Injection
<1>7. QED
  BY <1>1, <1>2, <1>3, <1>4, <1>6 DEF Surjection

\* What a section leaves of a budget, and a budget that follows a list.
After(c, left) == IF Fits(c, left) THEN left - c.cost ELSE left
Follows(f, n, q, b) == f = [i \in 0 .. n |-> IF i = 0 THEN b ELSE After(q[i], f[i - 1])]

\* A budget follows every list.
LEMMA FollowsExists == ASSUME NEW q, NEW b, NEW n \in Nat PROVE \E f : Follows(f, n, q, b)
<1> DEFINE T == {m \in Nat : \E f : Follows(f, m, q, b)}
<1>1. 0 \in T
  <2>1. Follows([i \in 0 .. 0 |-> b], 0, q, b)
    BY DEF Follows
  <2>2. QED
    BY <2>1
<1>2. ASSUME NEW m \in 0 .. (n - 1), m \in T PROVE m + 1 \in T
  <2>1. PICK f : Follows(f, m, q, b)
    BY <1>2
  <2> DEFINE g == [i \in 0 .. (m + 1) |-> IF i = m + 1 THEN After(q[i], f[m]) ELSE f[i]]
  <2>2. \A i \in 0 .. m : g[i] = f[i]
    OBVIOUS
  <2>3. \A i \in 0 .. (m + 1) : g[i] = IF i = 0 THEN b ELSE After(q[i], g[i - 1])
    <3> TAKE i \in 0 .. (m + 1)
    <3>1. CASE i = m + 1
      BY <2>2, <3>1
    <3>2. CASE i \in 0 .. m
      <4>1. f[i] = IF i = 0 THEN b ELSE After(q[i], f[i - 1])
        BY <2>1, <3>2 DEF Follows
      <4>2. i # 0 => i - 1 \in 0 .. m
        BY <3>2
      <4>3. QED
        BY <2>2, <3>2, <4>1, <4>2
    <3>3. QED
      BY <3>1, <3>2
  <2>4. Follows(g, m + 1, q, b)
    BY <2>3 DEF Follows
  <2>5. QED
    BY <2>4
<1>3. 0 .. n \subseteq T
  <2> HIDE DEF T
  <2>1. QED
    BY <1>1, <1>2, AllBelow
<1>4. QED
  BY <1>3

\* What remains is what the sections before leave.
LEMMA RemainingFollows == ASSUME NEW q, NEW b, Len(q) \in Nat PROVE Follows(Remaining(q, b), Len(q), q, b)
<1>1. \E f : Follows(f, Len(q), q, b)
  BY FollowsExists
<1>2. QED
  BY <1>1 DEF Remaining, Follows, After

\* It never grows, and is what the list was given at first.
LEMMA RemainingBounds ==
  ASSUME NEW q, NEW b \in Nat, Len(q) \in Nat, \A i \in 1 .. Len(q) : q[i].cost \in Nat
  PROVE  /\ Remaining(q, b)[0] = b
         /\ \A i \in 0 .. Len(q) : Remaining(q, b)[i] \in Nat /\ Remaining(q, b)[i] <= b
         /\ \A i \in 1 .. Len(q) : Remaining(q, b)[i] = After(q[i], Remaining(q, b)[i - 1])
<1> DEFINE left == Remaining(q, b)
           n == Len(q)
           T == {i \in 0 .. n : left[i] \in Nat /\ left[i] <= b}
<1>1. \A i \in 0 .. n : left[i] = IF i = 0 THEN b ELSE After(q[i], left[i - 1])
  BY RemainingFollows DEF Follows
<1>2. left[0] = b /\ \A i \in 1 .. n : left[i] = After(q[i], left[i - 1])
  BY <1>1
<1> HIDE DEF left
<1>3. 0 \in T
  BY <1>2
<1>4. ASSUME NEW i \in 0 .. (n - 1), i \in T PROVE i + 1 \in T
  <2>1. left[i + 1] = After(q[i + 1], left[i]) /\ q[i + 1].cost \in Nat
    BY <1>2
  <2>2. QED
    BY <1>4, <2>1 DEF After, Fits
<1>5. 0 .. n \subseteq T
  <2> HIDE DEF T
  <2>1. QED
    BY <1>3, <1>4, AllBelow
<1>6. QED
  BY <1>2, <1>5 DEF left

-----------------------------------------------------------------------------
(* PersonalContext: what a set of sections costs.                           *)

\* The sum of what the sections of a set cost, element by element.
Chosen(u) == CHOOSE x \in u : TRUE
Adds(f, D) == f = [u \in D |-> IF u = {} THEN 0 ELSE Chosen(u).cost + f[u \ {Chosen(u)}]]
CostOf(S) == MapThenSumSet(LAMBDA c : c.cost, S)
Costed(S) == \A c \in S : c.cost \in Nat
SumsUp(f, S) ==
  /\ f[{}] = 0
  /\ \A u \in SUBSET S : f[u] \in Nat /\ \A x \in u : f[u] = x.cost + f[u \ {x}]

\* One of a set is in it, and the rest is smaller.
LEMMA ChosenLeaves == ASSUME NEW u, IsFiniteSet(u), u # {}
  PROVE /\ Chosen(u) \in u /\ Cardinality(u) \in Nat \ {0}
        /\ \A x \in u : IsFiniteSet(u \ {x}) /\ Cardinality(u \ {x}) = Cardinality(u) - 1
BY FS_EmptySet, FS_RemoveElement, FS_CardinalityType DEF Chosen

\* Sums exist.
LEMMA AddsExists == ASSUME NEW S, IsFiniteSet(S) PROVE \E f : Adds(f, SUBSET S)
<1> DEFINE Upto(m) == {u \in SUBSET S : Cardinality(u) <= m}
           n == Cardinality(S)
           T == {m \in Nat : \E f : Adds(f, Upto(m))}
<1>1. \A u \in SUBSET S : IsFiniteSet(u) /\ Cardinality(u) \in Nat /\ Cardinality(u) <= n /\ (Cardinality(u) = 0 <=> u = {})
  BY FS_Subset, FS_CardinalityType, FS_EmptySet
<1>2. n \in Nat
  BY FS_CardinalityType
<1>3. 0 \in T
  <2>1. \A u \in Upto(0) : u = {}
    BY <1>1
  <2>2. Adds([u \in Upto(0) |-> 0], Upto(0))
    BY <2>1 DEF Adds
  <2>3. QED
    BY <2>2
<1>4. ASSUME NEW m \in 0 .. (n - 1), m \in T PROVE m + 1 \in T
  <2>1. PICK f : Adds(f, Upto(m))
    BY <1>4
  <2> DEFINE g == [u \in Upto(m + 1) |-> IF u = {} THEN 0 ELSE Chosen(u).cost + f[u \ {Chosen(u)}]]
  <2>2. \A u \in Upto(m) : g[u] = f[u] /\ u \in Upto(m + 1)
    <3> TAKE u \in Upto(m)
    <3>1. u \in Upto(m + 1)
      BY <1>1
    <3>2. f[u] = IF u = {} THEN 0 ELSE Chosen(u).cost + f[u \ {Chosen(u)}]
      BY <2>1 DEF Adds
    <3>3. QED
      BY <3>1, <3>2
  <2>3. \A u \in Upto(m + 1) : u # {} => u \ {Chosen(u)} \in Upto(m)
    BY <1>1, ChosenLeaves
  <2>4. \A u \in Upto(m + 1) : g[u] = IF u = {} THEN 0 ELSE Chosen(u).cost + g[u \ {Chosen(u)}]
    BY <2>2, <2>3
  <2>5. Adds(g, Upto(m + 1))
    BY <2>4 DEF Adds
  <2>6. QED
    BY <2>5
<1>5. 0 .. n \subseteq T
  <2> HIDE DEF T
  <2>1. QED
    BY <1>2, <1>3, <1>4, AllBelow
<1>6. Upto(n) = SUBSET S
  BY <1>1
<1>7. \E f : Adds(f, Upto(n))
  <2>1. n \in T
    <3> HIDE DEF T
    <3>1. QED
      BY <1>2, <1>5
  <2>2. QED
    BY <2>1
<1>8. QED
  BY <1>6, <1>7

\* The cost of a set is such a sum.
LEMMA CostAdds == ASSUME NEW S, IsFiniteSet(S) PROVE \E f : Adds(f, SUBSET S) /\ CostOf(S) = f[S]
<1> DEFINE f == CHOOSE f : Adds(f, SUBSET S)
<1>1. Adds(f, SUBSET S)
  BY AddsExists
<1>2. CostOf(S) = f[S]
  BY DEF CostOf, MapThenSumSet, MapThenFoldSet, Adds, Chosen
<1>3. QED
  BY <1>1, <1>2

\* It does not matter which element is added last.
LEMMA AddsAnyOrder == ASSUME NEW S, IsFiniteSet(S), Costed(S), NEW f, Adds(f, SUBSET S) PROVE SumsUp(f, S)
<1> DEFINE Right(u) == f[u] \in Nat /\ \A x \in u : f[u] = x.cost + f[u \ {x}]
           T == {m \in Nat : \A u \in SUBSET S : Cardinality(u) <= m => Right(u)}
           n == Cardinality(S)
<1>1. \A u \in SUBSET S : IsFiniteSet(u) /\ Cardinality(u) \in 0 .. n /\ (Cardinality(u) = 0 <=> u = {})
  BY FS_Subset, FS_CardinalityType, FS_EmptySet
<1>2. n \in Nat
  BY FS_CardinalityType
<1>3. f[{}] = 0 /\ \A u \in SUBSET S : u # {} => f[u] = Chosen(u).cost + f[u \ {Chosen(u)}]
  BY DEF Adds
<1>4. 0 \in T
  <2>1. Right({})
    BY <1>3
  <2>2. \A u \in SUBSET S : Cardinality(u) <= 0 => u = {}
    BY <1>1
  <2>3. QED
    BY <2>1, <2>2
<1>5. ASSUME NEW m \in 0 .. (n - 1), m \in T PROVE m + 1 \in T
  <2>1. \A u \in SUBSET S : Cardinality(u) <= m => Right(u)
    BY <1>5
  <2>2. ASSUME NEW u \in SUBSET S, Cardinality(u) = m + 1 PROVE Right(u)
    <3> DEFINE y == Chosen(u)
    <3>1. u # {} /\ IsFiniteSet(u)
      BY <1>1, <2>2
    <3>2. y \in u /\ \A x \in u : IsFiniteSet(u \ {x}) /\ Cardinality(u \ {x}) = m
      BY <2>2, <3>1, ChosenLeaves
    <3>3. \A x \in u : Right(u \ {x})
      <4> TAKE x \in u
      <4>1. u \ {x} \in SUBSET S
        OBVIOUS
      <4>2. Cardinality(u \ {x}) = m
        BY <3>2
      <4>3. Cardinality(u \ {x}) <= m
        BY <1>2, <4>2
      <4> HIDE DEF Right
      <4>4. QED
        BY <2>1, <4>1, <4>3
    <3>4. f[u] = y.cost + f[u \ {y}] /\ y.cost \in Nat /\ f[u \ {y}] \in Nat
      BY <1>3, <3>1, <3>2, <3>3 DEF Costed
    <3> HIDE DEF y
    <3>5. ASSUME NEW x \in u PROVE f[u] = x.cost + f[u \ {x}]
      <4>1. CASE x = y
        BY <3>4, <4>1
      <4>2. CASE x # y
        <5>1. f[u \ {y}] = x.cost + f[(u \ {y}) \ {x}] /\ f[u \ {x}] = y.cost + f[(u \ {x}) \ {y}]
          BY <3>2, <3>3, <4>2
        <5>2. (u \ {y}) \ {x} = (u \ {x}) \ {y}
          OBVIOUS
        <5>3. f[(u \ {y}) \ {x}] \in Nat
          <6> DEFINE v == (u \ {y}) \ {x}
          <6>1. v \in SUBSET S /\ IsFiniteSet(u \ {y}) /\ x \in u \ {y} /\ Cardinality(u \ {y}) = m
            BY <3>2, <4>2
          <6>2. Cardinality(v) = m - 1
            BY <6>1, FS_RemoveElement
          <6>3. Cardinality(v) <= m
            BY <6>2
          <6>4. Right(v)
            BY <2>1, <6>1, <6>3
          <6>5. QED
            BY <6>4
        <5>4. x.cost \in Nat
          BY DEF Costed
        <5> DEFINE v == (u \ {y}) \ {x}
        <5>5. f[u \ {y}] = x.cost + f[v] /\ f[u \ {x}] = y.cost + f[v] /\ f[v] \in Nat
          BY <5>1, <5>2, <5>3
        <5> HIDE DEF v
        <5>6. QED
          BY <3>4, <5>4, <5>5
      <4>3. QED
        BY <4>1, <4>2
    <3>6. f[u] \in Nat
      BY <3>4
    <3>7. QED
      BY <3>5, <3>6
  <2>3. \A u \in SUBSET S : Cardinality(u) <= m + 1 => Cardinality(u) <= m \/ Cardinality(u) = m + 1
    BY <1>1
  <2>4. \A u \in SUBSET S : Cardinality(u) <= m + 1 => Right(u)
    <3> HIDE DEF Right
    <3>1. QED
      BY <2>1, <2>2, <2>3
  <2>5. QED
    BY <2>4
<1>6. 0 .. n \subseteq T
  <2> HIDE DEF T
  <2>1. QED
    BY <1>2, <1>4, <1>5, AllBelow
<1>7. n \in T
  <2> HIDE DEF T
  <2>1. QED
    BY <1>2, <1>6
<1>8. \A u \in SUBSET S : Right(u)
  BY <1>1, <1>7
<1>9. QED
  BY <1>3, <1>8 DEF SumsUp

-----------------------------------------------------------------------------
(* PersonalContext: what a session is given.                                *)

\* The sections that fit, one after the other, cost what is gone of the budget.
LEMMA SelectionFits == ASSUME NEW s, NEW b \in Nat PROVE CostOf(Selected(s, ContextSections, b)) <= b
<1> DEFINE E == Eligible(s, ContextSections)
           n == Cardinality(E)
           q == Ranked(E)
           left == Remaining(q, b)
           Upto(k) == {q[i] : i \in {j \in 1 .. k : Fits(q[j], left[j - 1])}}
<1>1. E \subseteq ContextSections
  BY DEF Eligible, Considered
<1>2. /\ n \in Nat /\ IsFiniteSet(E) /\ q \in [1 .. n -> E] /\ Len(q) = n
      /\ \A i, j \in 1 .. n : i # j => q[i] # q[j]
  BY <1>1, RankedLists
<1>3. \A i \in 1 .. n : q[i] \in E /\ q[i].cost \in Nat
  BY <1>1, <1>2, SectionsNumbered
<1>4. /\ left[0] = b /\ \A i \in 0 .. n : left[i] \in Nat
      /\ \A i \in 1 .. n : left[i] = After(q[i], left[i - 1])
  BY <1>2, <1>3, RemainingBounds
<1>5. Selected(s, ContextSections, b) = Upto(n)
  BY <1>2 DEF Selected
<1>6. Upto(n) \subseteq E /\ IsFiniteSet(Upto(n)) /\ \A c \in Upto(n) : c.cost \in Nat
  <2>1. Upto(n) \subseteq E
    BY <1>2
  <2>2. QED
    BY <1>1, <1>2, <2>1, FS_Subset, SectionsNumbered
<1>7. PICK f : Adds(f, SUBSET Upto(n)) /\ CostOf(Upto(n)) = f[Upto(n)]
  BY <1>6, CostAdds
<1>8. /\ f[{}] = 0
      /\ \A u \in SUBSET Upto(n) : f[u] \in Nat /\ \A x \in u : f[u] = x.cost + f[u \ {x}]
  <2> DEFINE U == Upto(n)
  <2>1. IsFiniteSet(U) /\ Costed(U) /\ Adds(f, SUBSET U)
    BY <1>6, <1>7 DEF Costed
  <2> HIDE DEF U
  <2>2. SumsUp(f, U)
    BY <2>1, AddsAnyOrder
  <2>3. QED
    BY <2>2 DEF U, SumsUp
<1> DEFINE T == {k \in 0 .. n : f[Upto(k)] + left[k] = b}
<1> HIDE DEF q, left, E, n
<1>9. 0 \in T
  <2>1. Upto(0) = {}
    OBVIOUS
  <2>2. 0 \in 0 .. n /\ left[0] = b
    BY <1>2, <1>4
  <2>3. f[Upto(0)] = 0
    <3> DEFINE none == Upto(0)
    <3> HIDE DEF none
    <3>1. none = {}
      BY <2>1 DEF none
    <3>2. f[none] = 0
      BY <1>8, <3>1
    <3>3. QED
      BY <3>2 DEF none
  <2>4. f[Upto(0)] + left[0] = b
    BY <2>2, <2>3
  <2>5. QED
    BY <2>2, <2>4
<1>10. ASSUME NEW k \in 0 .. (n - 1), k \in T PROVE k + 1 \in T
  <2>1. k + 1 \in 1 .. n /\ k \in 0 .. n /\ (k + 1) - 1 = k /\ 1 .. k \subseteq 1 .. n /\ k \in Nat
    BY <1>2
  <2>2. left[k + 1] = After(q[k + 1], left[k]) /\ left[k] \in Nat /\ q[k + 1].cost \in Nat /\ left[k + 1] \in Nat
    BY <1>3, <1>4, <2>1
  <2>3. Upto(k) \subseteq Upto(n) /\ f[Upto(k)] \in Nat
    BY <1>8, <2>1
  <2>4. \A j : j \in 1 .. (k + 1) <=> (j \in 1 .. k \/ j = k + 1)
    BY <2>1
  <2>5. CASE Fits(q[k + 1], left[k])
    <3>1. Upto(k + 1) = Upto(k) \cup {q[k + 1]}
      BY <2>1, <2>4, <2>5
    <3>2. q[k + 1] \notin Upto(k)
      <4> SUFFICES ASSUME NEW i \in 1 .. k PROVE q[i] # q[k + 1]
        OBVIOUS
      <4>1. i \in 1 .. n /\ i # k + 1
        BY <2>1
      <4>2. QED
        BY <1>2, <2>1, <4>1
    <3>3. Upto(k + 1) \subseteq Upto(n)
      BY <1>2, <2>1
    <3>4. Upto(k + 1) \ {q[k + 1]} = Upto(k) /\ q[k + 1] \in Upto(k + 1)
      BY <3>1, <3>2
    <3> DEFINE u == Upto(k + 1)
               v == Upto(k)
               x == q[k + 1]
    <3>5. u \in SUBSET Upto(n) /\ x \in u /\ u \ {x} = v
      BY <3>3, <3>4
    <3>6. f[u] = x.cost + f[v]
      <4> HIDE DEF u, v, x
      <4>1. QED
        BY <1>8, <3>5
    <3>7. left[k + 1] = left[k] - x.cost
      BY <2>2, <2>5 DEF After
    <3>8. f[v] + left[k] = b
      BY <1>10
    <3>9. f[v] \in Nat /\ left[k] \in Nat /\ x.cost \in Nat
      BY <2>2, <2>3
    <3>10. f[u] + left[k + 1] = b
      <4> HIDE DEF u, v, x
      <4>1. QED
        BY <3>6, <3>7, <3>8, <3>9
    <3>11. QED
      BY <2>1, <3>10
  <2>6. CASE ~Fits(q[k + 1], left[k])
    <3>1. Upto(k + 1) = Upto(k)
      BY <2>1, <2>4, <2>6
    <3>2. left[k + 1] = left[k]
      BY <2>2, <2>6 DEF After
    <3>3. f[Upto(k + 1)] + left[k + 1] = f[Upto(k)] + left[k]
      BY <3>1, <3>2
    <3>4. QED
      BY <1>10, <2>1, <3>3
  <2>7. QED
    BY <2>5, <2>6
<1>11. n \in T
  <2>1. 0 .. n \subseteq T
    <3> HIDE DEF T
    <3>1. QED
      BY <1>2, <1>9, <1>10, AllBelow
  <2> HIDE DEF T
  <2>2. QED
    BY <1>2, <2>1
<1>12. CostOf(Upto(n)) \in Nat /\ CostOf(Upto(n)) + left[n] = b /\ left[n] \in Nat
  <2>1. n \in 0 .. n
    BY <1>2
  <2>2. left[n] \in Nat
    BY <1>4, <2>1
  <2> DEFINE u == Upto(n)
  <2>3. f[u] + left[n] = b
    BY <1>11
  <2>4. u \in SUBSET Upto(n)
    OBVIOUS
  <2>5. CostOf(u) = f[u]
    BY <1>7
  <2>6. f[u] \in Nat
    <3> HIDE DEF u
    <3>1. QED
      BY <1>8, <2>4
  <2>7. CostOf(u) \in Nat /\ CostOf(u) + left[n] = b
    <3> HIDE DEF u
    <3>1. QED
      BY <2>3, <2>5, <2>6
  <2>8. QED
    BY <2>2, <2>7
<1>13. QED
  BY <1>5, <1>12

\* A section alone, with the budget of its cost, is given when the session may read it.
LEMMA GivenAlone == ASSUME NEW s, NEW c \in ContextSections
  PROVE c \in Selected(s, {c}, c.cost) <=> c \in Eligible(s, ContextSections)
<1> DEFINE E == Eligible(s, {c})
           q == Ranked(E)
<1>1. E \subseteq {c} /\ (c \in E <=> c \in Eligible(s, ContextSections))
  BY DEF Eligible, Considered
<1>2. /\ Cardinality(E) \in Nat /\ q \in [1 .. Cardinality(E) -> E] /\ Len(q) = Cardinality(E)
      /\ \A d \in E : \E i \in 1 .. Cardinality(E) : q[i] = d
  BY <1>1, RankedLists
<1>3. Selected(s, {c}, c.cost) \subseteq E
  BY <1>2 DEF Selected
<1>4. ASSUME c \in E PROVE c \in Selected(s, {c}, c.cost)
  <2>1. E = {c} /\ Cardinality(E) = 1
    <3>1. E = {c}
      BY <1>1, <1>4
    <3> HIDE DEF E
    <3>2. QED
      BY <3>1, FS_Singleton
  <2>2. DOMAIN q = 1 .. 1 /\ q[1] = c
    BY <1>2, <2>1
  <2>3. Remaining(q, c.cost)[0] = c.cost
    <3>1. Len(q) \in Nat /\ c.cost \in Nat /\ \A i \in 1 .. Len(q) : q[i].cost \in Nat
      BY <1>2, <2>1, <2>2, SectionsNumbered
    <3> HIDE DEF q
    <3>2. QED
      BY <3>1, RemainingBounds
  <2>4. Fits(q[1], Remaining(q, c.cost)[1 - 1])
    BY <2>2, <2>3, SectionsNumbered DEF Fits
  <2>5. 1 \in {j \in DOMAIN q : Fits(q[j], Remaining(q, c.cost)[j - 1])}
    BY <2>2, <2>4
  <2>6. Selected(s, {c}, c.cost) = {q[i] : i \in {j \in DOMAIN q : Fits(q[j], Remaining(q, c.cost)[j - 1])}}
    BY DEF Selected
  <2>7. QED
    BY <2>2, <2>5, <2>6
<1>5. QED
  BY <1>1, <1>3, <1>4

\* With no budget, what costs nothing is given.
LEMMA GivenFreely == ASSUME NEW s
  PROVE Selected(s, ContextSections, 0) = {c \in Eligible(s, ContextSections) : c.cost = 0}
<1> DEFINE E == Eligible(s, ContextSections)
           q == Ranked(E)
           n == Cardinality(E)
           left == Remaining(q, 0)
<1>1. E \subseteq ContextSections
  BY DEF Eligible, Considered
<1>2. /\ n \in Nat /\ q \in [1 .. n -> E] /\ Len(q) = n
      /\ \A c \in E : \E i \in 1 .. n : q[i] = c
  BY <1>1, RankedLists
<1>3. \A i \in 1 .. n : q[i] \in E /\ q[i].cost \in Nat
  BY <1>1, <1>2, SectionsNumbered
<1>4. \A i \in 0 .. n : left[i] = 0
  <2>1. \A i \in 0 .. n : left[i] \in Nat /\ left[i] <= 0
    BY <1>2, <1>3, RemainingBounds
  <2> HIDE DEF left, q, n
  <2>2. QED
    BY <2>1
<1>5. \A i \in 1 .. n : Fits(q[i], left[i - 1]) <=> q[i].cost = 0
  <2> TAKE i \in 1 .. n
  <2>1. left[i - 1] = 0 /\ q[i].cost \in Nat
    BY <1>2, <1>3, <1>4
  <2> HIDE DEF left, q
  <2>2. QED
    BY <2>1 DEF Fits
<1>6. Selected(s, ContextSections, 0) = {q[i] : i \in {j \in 1 .. n : Fits(q[j], left[j - 1])}}
  BY <1>2 DEF Selected
<1>7. {j \in 1 .. n : Fits(q[j], left[j - 1])} = {j \in 1 .. n : q[j].cost = 0}
  BY <1>5
<1> HIDE DEF q, E, left, n
<1>8. {q[i] : i \in {j \in 1 .. n : q[j].cost = 0}} = {c \in E : c.cost = 0}
  BY <1>2, <1>3
<1>9. QED
  BY <1>6, <1>7, <1>8 DEF E


\* A grant that is alive was given since the last revocation; receipts are of sections.
ContextInv ==
  /\ ctSessions \subseteq ContextSessions /\ ctGrants \subseteq ContextGrants /\ ctGeneration \in Nat
  /\ \A g \in ctGrants : g.generation <= ctGeneration /\ (g.generation = ctGeneration => g.context \in ctGranted)
  /\ \A i \in DOMAIN ctReceipts : ctReceipts[i].context \in ContextSections
  /\ OrganisationSeesNoPersonal

\* Nobody is given anything at first.
LEMMA ContextOpens == ASSUME ContextInit PROVE ContextInv
BY DEF ContextInit, ContextInv, OrganisationSeesNoPersonal, NoAnswer

\* PersonalContext: what the owner does.
LEMMA OwnerKeepsContext == ASSUME ContextInv, OwnerOpens \/ OwnerGrants \/ OwnerRevokes PROVE ContextInv'
<1>1. CASE OwnerOpens
  BY <1>1 DEF ContextInv, OwnerOpens, ReplaceRuntimeState, OrganisationSeesNoPersonal
<1>2. CASE OwnerGrants
  BY <1>2, GenerationsCount DEF ContextInv, OwnerGrants, ReplaceRuntimeState, OrganisationSeesNoPersonal
<1>3. CASE OwnerRevokes
  <2>1. \A g \in ctGrants : g.generation \in Nat
    BY GenerationsCount DEF ContextInv
  <2>2. ctGeneration' = ctGeneration + 1 /\ ctGrants' = ctGrants
    BY <1>3 DEF OwnerRevokes, ReplaceRuntimeState
  <2>3. \A g \in ctGrants' : g.generation <= ctGeneration' /\ g.generation # ctGeneration'
    BY <2>1, <2>2 DEF ContextInv
  <2>4. QED
    BY <1>3, <2>2, <2>3 DEF ContextInv, OwnerRevokes, ReplaceRuntimeState, OrganisationSeesNoPersonal
<1>4. QED
  BY <1>1, <1>2, <1>3

\* What does not touch the runtime state, and answers without a receipt or for the organisation.
LEMMA AnswerKeepsContext ==
  ASSUME ContextInv, UNCHANGED <<ctGeneration, ctSessions, ctGrants, ctGranted>>,
         \A i \in DOMAIN ctReceipts' : ctReceipts'[i].context \in ContextSections,
         ctAnswer'.kind # "organization" \/ ctAnswer' = ctAnswer
  PROVE  ContextInv'
BY DEF ContextInv, OrganisationSeesNoPersonal

\* PersonalContext: every step keeps the grants and the receipts.
LEMMA ContextHolds == ASSUME ContextInv, [ContextNext]_ctVars PROVE ContextInv'
<1>1. CASE UNCHANGED ctVars
  BY <1>1 DEF ctVars, ContextInv, OrganisationSeesNoPersonal
<1>2. CASE OwnerOpens \/ OwnerGrants \/ OwnerRevokes
  BY <1>2, OwnerKeepsContext
<1>3. CASE ContextTick
  BY <1>3, AnswerKeepsContext DEF ContextTick, ContextInv
<1>4. ASSUME NEW s \in ContextSessions, NEW found \in SUBSET ContextSections, Search(s, found) PROVE ContextInv'
  <2>1. ctAnswer'.kind # "organization"
    BY <1>4 DEF Search, Answer, NoAnswer
  <2>2. UNCHANGED <<ctGeneration, ctSessions, ctGrants, ctGranted, ctReceipts>>
    BY <1>4 DEF Search
  <2>3. QED
    BY <2>1, <2>2, AnswerKeepsContext DEF ContextInv
<1>8. ASSUME NEW s \in ContextSessions, ProposeRevision(s) PROVE ContextInv'
  <2>1. ctAnswer'.kind # "organization" /\ UNCHANGED <<ctGeneration, ctSessions, ctGrants, ctGranted, ctReceipts>>
    BY <1>8 DEF ProposeRevision, Answer, NoAnswer
  <2>2. QED
    BY <2>1, AnswerKeepsContext DEF ContextInv
<1>9. ASSUME NEW s \in ContextSessions, NEW c \in ContextSections, RequestAccess(s, c) PROVE ContextInv'
  <2>1. ctAnswer'.kind # "organization" /\ UNCHANGED <<ctGeneration, ctSessions, ctGrants, ctGranted, ctReceipts>>
    BY <1>9 DEF RequestAccess, Answer, NoAnswer
  <2>2. QED
    BY <2>1, AnswerKeepsContext DEF ContextInv
<1>5. ASSUME NEW s \in ContextSessions, NEW c \in ContextSections, NEW limit \in ResponseLimits, Retrieve(s, c, limit)
      PROVE ContextInv'
  <2>1. ctAnswer'.kind = "content"
    BY <1>5 DEF Retrieve, Answer, NoAnswer
  <2>2. \A i \in DOMAIN ctReceipts' : ctReceipts'[i].context \in ContextSections
    BY <1>5 DEF Retrieve, NextContextId, ContextInv
  <2>3. UNCHANGED <<ctGeneration, ctSessions, ctGrants, ctGranted>>
    BY <1>5 DEF Retrieve
  <2>4. QED
    BY <2>1, <2>2, <2>3, AnswerKeepsContext
<1>6. ASSUME NEW s \in ContextSessions, NEW i \in DOMAIN ctReceipts, NEW a \in {"user", "organization"}, InspectReceipt(s, i, a)
      PROVE ContextInv'
  <2>1. /\ ctAnswer'.ids = PublicOf(ctReceipts[i].context)
        /\ ctAnswer'.fragment = FragmentOf(ctReceipts[i].context, a) /\ ctAnswer'.kind = a
    BY <1>6 DEF InspectReceipt, Answer, NoAnswer
  <2>2. ctReceipts[i].context \in ContextSections
    BY DEF ContextInv
  <2> DEFINE d == ctReceipts[i].context
  <2> HIDE DEF d
  <2>5. d \in ContextSections /\ ctAnswer'.ids = PublicOf(d) /\ ctAnswer'.fragment = FragmentOf(d, a) /\ ctAnswer'.kind = a
    BY <2>1, <2>2 DEF d
  <2>6. \A c \in ContextSections : c.scope = "personal" => c.id \notin PublicOf(d)
    BY <2>5, SectionsNumbered DEF PublicOf
  <2>7. a = "organization" => ~FragmentOf(d, a)
    BY DEF FragmentOf
  <2>3. OrganisationSeesNoPersonal'
    BY <2>5, <2>6, <2>7 DEF OrganisationSeesNoPersonal
  <2>4. QED
    BY <1>6, <2>3 DEF InspectReceipt, ContextInv
<1>7. QED
  BY <1>1, <1>2, <1>3, <1>4, <1>5, <1>6, <1>8, <1>9 DEF ContextNext

\* PersonalContext: the one action that writes a receipt.
LEMMA ReceiptWritten ==
  ASSUME [ContextNext]_ctVars, ctReceipts' # ctReceipts
  PROVE  \E s \in ContextSessions, c \in ContextSections, limit \in ResponseLimits : Retrieve(s, c, limit)
<1>1. ~UNCHANGED ctVars
  BY DEF ctVars
<1>2. ~OwnerOpens /\ ~OwnerGrants /\ ~OwnerRevokes /\ ~ContextTick
  BY DEF OwnerOpens, OwnerGrants, OwnerRevokes, ReplaceRuntimeState, ContextTick
<1>3. ASSUME NEW s PROVE ~ProposeRevision(s)
  BY DEF ProposeRevision
<1>4. ASSUME NEW s, NEW found PROVE ~Search(s, found)
  BY DEF Search
<1>5. ASSUME NEW s, NEW c PROVE ~RequestAccess(s, c)
  BY DEF RequestAccess
<1>6. ASSUME NEW s, NEW i, NEW a PROVE ~InspectReceipt(s, i, a)
  BY DEF InspectReceipt
<1>7. QED
  BY <1>1, <1>2, <1>3, <1>4, <1>5, <1>6, Zenon DEF ContextNext

\* PersonalContext: the one action that answers a search.
LEMMA SearchAnswered ==
  ASSUME [ContextNext]_ctVars, ctAnswer' # ctAnswer, ctAnswer'.kind = "search"
  PROVE  \E s \in ContextSessions, found \in SUBSET ContextSections : Search(s, found)
<1>1. ~UNCHANGED ctVars
  BY DEF ctVars
<1>2. ~OwnerOpens /\ ~OwnerGrants /\ ~OwnerRevokes /\ ~ContextTick
  BY DEF OwnerOpens, OwnerGrants, OwnerRevokes, ReplaceRuntimeState, ContextTick
<1>3. ASSUME NEW s PROVE ~ProposeRevision(s)
  BY DEF ProposeRevision, Answer, NoAnswer
<1>4. ASSUME NEW s, NEW c, NEW limit PROVE ~Retrieve(s, c, limit)
  BY DEF Retrieve, Answer, NoAnswer
<1>5. ASSUME NEW s, NEW c PROVE ~RequestAccess(s, c)
  BY DEF RequestAccess, Answer, NoAnswer
<1>6. ASSUME NEW s, NEW i, NEW a \in {"user", "organization"} PROVE ~InspectReceipt(s, i, a)
  BY DEF InspectReceipt, Answer, NoAnswer
<1>7. QED
  BY <1>1, <1>2, <1>3, <1>4, <1>5, <1>6, Zenon DEF ContextNext

\* A personal section that is given was granted since the last revocation.
LEMMA GivenWasGranted == ASSUME ContextInv, [ContextNext]_ctVars PROVE RevokedUntilGranted
<1> SUFFICES ASSUME NEW c \in ContextSections, ctReceipts' # ctReceipts, ctAnswer'.section = c.id, c.scope = "personal"
             PROVE c.id \in ctGranted
  BY DEF RevokedUntilGranted
<1>1. PICK s \in ContextSessions, d \in ContextSections, limit \in ResponseLimits : Retrieve(s, d, limit)
  BY ReceiptWritten, Zenon
<1>2. ctAnswer'.section = d.id
  BY <1>1 DEF Retrieve, Answer, NoAnswer
<1>3. c = d
  BY <1>2, SectionsNumbered
<1>4. c \in Selected(s, {c}, c.cost)
  BY <1>1, <1>3 DEF Retrieve, MayRetrieve
<1>5. c \in Eligible(s, ContextSections)
  BY <1>4, GivenAlone
<1>6. PICK g \in ctGrants : GrantAuthorizes(g, s, c)
  BY <1>5 DEF Eligible, Authorized
<1>7. QED
  BY <1>6 DEF GrantAuthorizes, ContextInv

\* What a search reports is what can be retrieved.
LEMMA FoundIsGiven == ASSUME ContextInv, [ContextNext]_ctVars PROVE FoundIsReadable
<1> SUFFICES ASSUME NEW s \in ctSessions, NEW c \in ContextSections, NEW limit \in ResponseLimits,
                    ctAnswer' # ctAnswer, ctAnswer'.kind = "search", ctAnswer'.session = s.id,
                    c.id \in ctAnswer'.listed, c.size <= limit
             PROVE c.id \in ctAnswer'.ids <=> (c.cost > 0 /\ MayRetrieve(s, c, limit))
  BY DEF FoundIsReadable
<1>1. PICK t \in ContextSessions, found \in SUBSET ContextSections : Search(t, found)
  BY SearchAnswered, Zenon
<1>2. /\ ctAnswer'.session = t.id /\ ctAnswer'.listed = {d.id : d \in found}
      /\ ctAnswer'.ids = {d.id : d \in found \cap Retrievable(t, ContextSections, 0)}
  BY <1>1 DEF Search, Answer, NoAnswer
<1>3. t = s /\ AuthorizeSession(s)
  BY <1>1, <1>2, SessionsNamed DEF ContextInv, Search
<1> DEFINE E == Eligible(s, ContextSections)
<1>4. Retrievable(s, ContextSections, 0) = {d \in E : d.cost # 0}
  BY GivenFreely DEF Retrievable
<1>5. c \in Selected(s, {c}, c.cost) <=> c \in E
  BY GivenAlone
<1>6. c.cost > 0 <=> c.cost # 0
  BY SectionsNumbered
<1>7. c \in found
  <2>1. PICK d \in found : d.id = c.id
    BY <1>2
  <2>2. QED
    BY <2>1, SectionsNumbered
<1> HIDE DEF E
<1>8. c.id \in ctAnswer'.ids <=> c \in Retrievable(s, ContextSections, 0)
  <2> DEFINE R == Retrievable(s, ContextSections, 0)
  <2> HIDE DEF R
  <2>1. ctAnswer'.ids = {d.id : d \in found \cap R}
    BY <1>2, <1>3 DEF R
  <2>2. ASSUME c.id \in ctAnswer'.ids PROVE c \in R
    <3>1. PICK d \in found \cap R : d.id = c.id
      BY <2>1, <2>2
    <3>2. QED
      BY <3>1, SectionsNumbered
  <2>3. ASSUME c \in R PROVE c.id \in ctAnswer'.ids
    BY <1>7, <2>1, <2>3
  <2>4. QED
    BY <2>2, <2>3 DEF R
<1>9. c \in Retrievable(s, ContextSections, 0) <=> c \in E /\ c.cost # 0
  BY <1>4
<1>10. MayRetrieve(s, c, limit) <=> c \in E
  BY <1>3, <1>5 DEF MayRetrieve
<1>11. QED
  BY <1>6, <1>8, <1>9, <1>10

\* Nothing is shown of a personal section, and nothing given beyond a budget.
LEMMA ContextSafe == ASSUME ContextInv PROVE OrganisationSeesNoPersonal /\ BudgetHeld
<1>1. BudgetHeld
  <2> SUFFICES ASSUME NEW s \in ctSessions, NEW b \in SessionBudgets
               PROVE MapThenSumSet(LAMBDA c : c.cost, Selected(s, ContextSections, b)) <= b
    BY DEF BudgetHeld
  <2>1. b \in Nat
    BY BudgetsCount
  <2>2. CostOf(Selected(s, ContextSections, b)) <= b
    BY <2>1, SelectionFits
  <2>3. QED
    BY <2>2 DEF CostOf
<1>2. QED
  BY <1>1 DEF ContextInv

-----------------------------------------------------------------------------
(* PersonalContext: the interview and the deletion of a profile.            *)

\* What may be confirmed.
Confirmable == {<<InterviewFields[i], v>> : i \in 1 .. Len(InterviewFields), v \in InterviewValues}

\* A pending answer has the digest of its field, and the screen showed a pair.
ProfileInv ==
  /\ ppIndex \in Nat \ {0} /\ ppPending \in InterviewValues \cup {NoValue} /\ ppConfirmed \in Seq(Confirmable)
  /\ ppPending # NoValue => ppPendingDigest = <<NextField, ppPending>> /\ HasField
  /\ ppShown = <<ppShown[1], ppShown[2]>>
  /\ DeletedStaysDeleted

\* Nothing is answered at first.
LEMMA ProfileStart == ASSUME ProfileInit PROVE ProfileInv
BY DEF ProfileInit, ProfileInv, NoDigest, DeletedStaysDeleted

\* PersonalContext: every step of the interview and of the deletion.
LEMMA ProfileStep == ASSUME ProfileInv, [ProfileNext]_ppVars PROVE ProfileInv'
<1> USE DEF ProfileInv, DeletedStaysDeleted, HasField, NextField
<1>1. CASE UNCHANGED ppVars
  BY <1>1 DEF ppVars, interviewVars, deletionVars
<1>2. ASSUME NEW v \in InterviewValues, AnswerCurrent(v) PROVE ProfileInv'
  BY <1>2 DEF AnswerCurrent, ConfirmationDigest, deletionVars
<1>3. CASE ShowPending
  BY <1>3 DEF ShowPending, deletionVars
<1>4. CASE ConfirmPending
  <2>1. <<NextField, ppPending>> \in Confirmable
    BY <1>4 DEF ConfirmPending, Confirmable
  <2>2. ppConfirmed' \in Seq(Confirmable)
    BY <1>4, <2>1 DEF ConfirmPending
  <2>3. QED
    BY <1>4, <2>2 DEF ConfirmPending, deletionVars
<1>5. CASE AdvanceInterview
  BY <1>5 DEF AdvanceInterview, deletionVars
<1>6. CASE IntoConfirmedDraft \/ CancelInterview
  <2>1. ppIndex' = 1 /\ ppPending' = NoValue /\ ppConfirmed' = <<>> /\ UNCHANGED <<ppShown, ppObjects, ppTombstone>>
    BY <1>6 DEF IntoConfirmedDraft, CancelInterview, deletionVars
  <2>2. ppConfirmed' \in Seq(Confirmable)
    BY <2>1
  <2>3. QED
    BY <2>1, <2>2
<1>7. ASSUME NEW g \in 1 .. MaxGeneration, ReceiveRevision(g) \/ ObserveTombstone(g) PROVE ProfileInv'
  BY <1>7 DEF ReceiveRevision, ObserveTombstone, AcceptsRevision, interviewVars
<1>8. QED
  BY <1>1, <1>2, <1>3, <1>4, <1>5, <1>6, <1>7 DEF ProfileNext

\* What is taken into the draft is what was on the screen.
LEMMA ProfileKeeps == ASSUME ProfileInv, [ProfileNext]_ppVars PROVE ConfirmedWasShown
<1> SUFFICES ASSUME Len(ppConfirmed') > Len(ppConfirmed) PROVE ppConfirmed'[Len(ppConfirmed')] = ppAgreed'
  BY DEF ConfirmedWasShown
<1>1. Len(ppConfirmed) \in Nat
  BY DEF ProfileInv
<1>2. ConfirmPending
  BY <1>1 DEF ProfileNext, ppVars, interviewVars, AnswerCurrent, ShowPending, AdvanceInterview, IntoConfirmedDraft,
              CancelInterview, ReceiveRevision, ObserveTombstone
<1>3. /\ ppConfirmed' = Append(ppConfirmed, <<NextField, ppPending>>) /\ ppAgreed' = ppShown
      /\ <<NextField, ppPending>> = <<ppShown[1], ppShown[2]>>
  BY <1>2 DEF ConfirmPending, ConfirmationDigest, ProfileInv
<1>4. ppConfirmed'[Len(ppConfirmed')] = <<NextField, ppPending>>
  BY <1>3 DEF ProfileInv
<1>5. QED
  BY <1>3, <1>4 DEF ProfileInv

-----------------------------------------------------------------------------
(* AboutMe: what a request holds, and what becomes of a claim.              *)

Summaries == Requests \cup {NoSummary, Empty, "answers"}
RequestStages == {"idle", "seen", "drafted", "unsuppressed", "reject", "accept", "revision", "publish", "remove"}
HeldRequests == [at : RequestStages, id : Nat, revision : Nat, summary : Summaries, text : ClaimTexts \cup {"none"}, heard : BOOLEAN]

\* The statements of the store and of the requests.
AboutMeTypes ==
  /\ amRequest \in [Requests -> HeldRequests]
  /\ amRevision \in Nat /\ amSummary \in Summaries /\ amSuggested \in Nat
  /\ \A s \in amSuggestions : s.id \in Nat /\ s.text \in ClaimTexts \cup {"none"}

\* The summary that a draft made now would carry on.
SummaryNow == IF amSummary = NoSummary THEN Empty ELSE amSummary

\* A request that goes on to publish read its summary at its revision or later.
ReadsInOrder ==
  \A r \in Requests :
    /\ amRequest[r].at \in {"revision", "publish"} => amRequest[r].revision <= amRevision
    /\ amRequest[r].at = "publish" /\ amRequest[r].revision = amRevision => amRequest[r].summary = SummaryNow

\* A request in flight heard of no rejection.
NoneHeard == RejectedNotOffered /\ \A r \in Requests : amRequest[r].heard = FALSE

\* A claim replaces an earlier one that is not active any more.
ClaimsInOrder ==
  /\ amClaims \in Seq([revision : Nat, active : BOOLEAN, supersedes : Nat])
  /\ \A d \in 1 .. Len(amClaims) : amClaims[d].supersedes < d
  /\ ReplacedOnce

SetupStages == {"start", "create", "write", "open", "publish", "configure", "ended"}

\* The one key that is ever made is the database's, and only one set-up makes it.
KeysInv ==
  /\ amSetup \in [Setups -> [at : SetupStages, key : Nat]]
  /\ amKey \in {NoKey, TornKey, 1} /\ amKeysMade = (IF amKey = 1 THEN 1 ELSE 0)
  /\ amDatabaseKey \in {NoKey, 1} /\ (amDatabaseKey = 1 => amKey = 1)
  /\ \A s \in Setups : amSetup[s].at = "write" =>
       amKey = TornKey /\ \A t \in Setups : amSetup[t].at = "write" => t = s
  /\ \A s \in Setups : amSetup[s].at \in {"open", "publish", "configure"} => amKey = 1 /\ amSetup[s].key = 1
  /\ \A s \in Setups : amSetup[s].at \in {"publish", "configure"} => amDatabaseKey = 1
  /\ \A s \in Setups : amSetup[s].at = "configure" => amRevision > 0
  /\ amConfigured => amDatabaseKey = 1 /\ amRevision > 0

AboutMeInv == AboutMeTypes /\ ReadsInOrder /\ ToldSummaryKept /\ NoneHeard /\ ClaimsInOrder /\ KeysInv

\* Nothing is published at first.
LEMMA AboutMeStart == ASSUME AboutMeInit PROVE AboutMeInv
<1>1. AboutMeTypes
  <2>1. Waiting \in HeldRequests
    BY DEF Waiting, HeldRequests, RequestStages, Summaries, NoSummary
  <2>2. QED
    BY <2>1 DEF AboutMeInit, AboutMeTypes, Summaries
<1>2. ReadsInOrder /\ ToldSummaryKept /\ NoneHeard
  BY DEF AboutMeInit, ReadsInOrder, NoneHeard, ToldSummaryKept, RejectedNotOffered, Waiting, NoSummary
<1>3. ClaimsInOrder
  BY DEF AboutMeInit, ClaimsInOrder, ReplacedOnce
<1>4. KeysInv
  BY DEF AboutMeInit, KeysInv, SetupStages, NoKey, TornKey
<1>5. QED
  BY <1>1, <1>2, <1>3, <1>4 DEF AboutMeInv

SetupMoves(s) == LoadKey(s) \/ CreateKey(s) \/ WriteKey(s) \/ OpenProfile(s) \/ PublishAnswers(s) \/ WriteConfiguration(s) \/ SetupStops(s)

\* What a request holds after a step: what the step writes into it.
LEMMA RequestStep == ASSUME AboutMeTypes, NEW r \in Requests
  PROVE  /\ Inspect(r) => amRequest' = [amRequest EXCEPT ![r] = [amRequest[r] EXCEPT !.at = "seen", !.revision = amRevision]]
         /\ CreateDraft(r) => amRequest' = [amRequest EXCEPT ![r] = [amRequest[r] EXCEPT !.at = "drafted", !.summary = r]]
         /\ AcceptReadsRevision(r) => amRequest' = [amRequest EXCEPT ![r] = [amRequest[r] EXCEPT !.at = "revision", !.revision = amRevision]]
         /\ AcceptReadsSummaryAndDrafts(r) =>
              /\ amRequest' = [amRequest EXCEPT ![r] = [amRequest[r] EXCEPT !.at = "publish", !.summary = SummaryNow]]
              /\ amRequest[r].at = "revision"
BY DEF AboutMeTypes, HeldRequests, Inspect, CreateDraft, AcceptReadsRevision, AcceptReadsSummaryAndDrafts, Holds, RequestBecomes,
       RequestAt, SummaryNow

\* What a request that suggests or decides holds.
Taken(v, at) == v \in HeldRequests /\ v.at = at /\ v.heard = FALSE

LEMMA SuggestStep == ASSUME NEW r \in Requests, NEW t \in ClaimTexts, SuggestChecks(r, t)
  PROVE  \E v : amRequest' = [amRequest EXCEPT ![r] = v] /\ Taken(v, "unsuppressed")
<1> DEFINE heard == \E u \in ClaimTexts : Meaning(u) = Meaning(t) /\ Fingerprint(u) \in amSuppressed
           v == [Waiting EXCEPT !.at = "unsuppressed", !.text = t, !.heard = heard]
<1>1. ~ heard
  BY DEF SuggestChecks, Fingerprint
<1>2. amRequest' = [amRequest EXCEPT ![r] = v]
  BY Zenon DEF SuggestChecks, RequestBecomes
<1>3. heard \in BOOLEAN
  OBVIOUS
<1> HIDE DEF heard
<1>4. v \in HeldRequests /\ v.at = "unsuppressed" /\ v.heard = heard
  BY <1>3 DEF Waiting, HeldRequests, RequestStages, Summaries
<1>5. Taken(v, "unsuppressed")
  BY <1>1, <1>3, <1>4 DEF Taken
<1> HIDE DEF v
<1>6. QED
  BY <1>2, <1>5

LEMMA DecideStep == ASSUME AboutMeTypes, NEW r \in Requests, NEW at \in {"reject", "accept"}, Decide(r, at)
  PROVE  \E v : amRequest' = [amRequest EXCEPT ![r] = v] /\ Taken(v, at)
<1>1. PICK s \in amSuggestions : amRequest' = [amRequest EXCEPT ![r] = [Waiting EXCEPT !.at = at, !.id = s.id, !.text = s.text]]
  BY Zenon DEF Decide, RequestBecomes
<1>2. s.id \in Nat /\ s.text \in ClaimTexts \cup {"none"}
  BY DEF AboutMeTypes
<1> DEFINE v == [Waiting EXCEPT !.at = at, !.id = s.id, !.text = s.text]
<1>3. v \in HeldRequests /\ v.at = at /\ v.heard = FALSE
  BY <1>2 DEF Waiting, HeldRequests, RequestStages, Summaries
<1>4. amRequest' = [amRequest EXCEPT ![r] = v]
  BY <1>1, Zenon
<1> HIDE DEF v
<1>5. QED
  BY <1>3, <1>4 DEF Taken

\* A request holds what it may hold after a step that writes it.
LEMMA HeldAfter == ASSUME AboutMeTypes, NEW r \in Requests, NEW v \in HeldRequests, amRequest' = [amRequest EXCEPT ![r] = v]
  PROVE amRequest' \in [Requests -> HeldRequests] /\ amRequest'[r] = v /\ \A q \in Requests : q # r => amRequest'[q] = amRequest[q]
BY DEF AboutMeTypes

\* Every action of a request writes one request.
LEMMA HeldFields == ASSUME AboutMeTypes, NEW r \in Requests, NEW at \in RequestStages
  PROVE  /\ [amRequest[r] EXCEPT !.at = at].at = at
         /\ [amRequest[r] EXCEPT !.at = at, !.revision = amRevision].at = at
         /\ [amRequest[r] EXCEPT !.at = at, !.revision = amRevision].revision = amRevision
         /\ \A x \in Summaries : /\ [amRequest[r] EXCEPT !.at = at, !.summary = x].at = at
                                 /\ [amRequest[r] EXCEPT !.at = at, !.summary = x].summary = x
                                 /\ [amRequest[r] EXCEPT !.at = at, !.summary = x].revision = amRequest[r].revision
<1>1. amRequest[r] \in HeldRequests /\ amRevision \in Nat
  BY DEF AboutMeTypes
<1>2. QED
  BY <1>1 DEF HeldRequests, RequestStages, Summaries

LEMMA RequestWrites == ASSUME AboutMeTypes, NEW r \in Requests, NEW at \in RequestStages
  PROVE  /\ Waiting \in HeldRequests /\ Waiting.heard = FALSE
         /\ [amRequest[r] EXCEPT !.at = at] \in HeldRequests /\ [amRequest[r] EXCEPT !.at = at].heard = amRequest[r].heard
         /\ [amRequest[r] EXCEPT !.at = at, !.revision = amRevision] \in HeldRequests
         /\ [amRequest[r] EXCEPT !.at = at, !.revision = amRevision].heard = amRequest[r].heard
         /\ \A x \in Summaries : /\ [amRequest[r] EXCEPT !.at = at, !.summary = x] \in HeldRequests
                                 /\ [amRequest[r] EXCEPT !.at = at, !.summary = x].heard = amRequest[r].heard
<1>1. amRequest[r] \in HeldRequests /\ amRevision \in Nat
  BY DEF AboutMeTypes
<1>2. QED
  BY <1>1 DEF HeldRequests, Waiting, RequestStages, Summaries


\* A step writes what one request holds, or what none does.
LEMMA OneRequest == ASSUME AboutMeTypes, NoneHeard, [AboutMeNext]_amVars
  PROVE  amRequest' \in [Requests -> HeldRequests] /\ \A r \in Requests : amRequest'[r].heard = FALSE
<1> DEFINE Kept == amRequest' \in [Requests -> HeldRequests] /\ \A r \in Requests : amRequest'[r].heard = FALSE
<1>1. ASSUME amRequest' = amRequest PROVE Kept
  BY <1>1 DEF AboutMeTypes, NoneHeard
<1>2. ASSUME NEW r \in Requests, NEW v \in HeldRequests, v.heard = FALSE, amRequest' = [amRequest EXCEPT ![r] = v] PROVE Kept
  <2>1. amRequest' \in [Requests -> HeldRequests] /\ amRequest'[r] = v /\ \A q \in Requests : q # r => amRequest'[q] = amRequest[q]
    BY <1>2, HeldAfter
  <2>2. QED
    BY <1>2, <2>1 DEF NoneHeard
<1>3. ASSUME NEW r \in Requests, Inspect(r) \/ CreateDraft(r) \/ AcceptReadsRevision(r) \/ AcceptReadsSummaryAndDrafts(r) PROVE Kept
  <2>1. SummaryNow \in Summaries /\ r \in Summaries
    BY DEF SummaryNow, Summaries, AboutMeTypes
  <2>2. amRequest[r].heard = FALSE
    BY DEF NoneHeard
  <2>3. \E v \in HeldRequests : v.heard = FALSE /\ amRequest' = [amRequest EXCEPT ![r] = v]
    <3>1. CASE Inspect(r)
      <4> DEFINE v == [amRequest[r] EXCEPT !.at = "seen", !.revision = amRevision]
      <4>1. v \in HeldRequests /\ v.heard = FALSE
        BY <2>1, <2>2, RequestWrites DEF RequestStages
      <4>2. amRequest' = [amRequest EXCEPT ![r] = v]
        BY <3>1, RequestStep
      <4> HIDE DEF v
      <4>3. QED
        BY <4>1, <4>2
    <3>2. CASE CreateDraft(r)
      <4> DEFINE v == [amRequest[r] EXCEPT !.at = "drafted", !.summary = r]
      <4>1. v \in HeldRequests /\ v.heard = FALSE
        BY <2>1, <2>2, RequestWrites DEF RequestStages
      <4>2. amRequest' = [amRequest EXCEPT ![r] = v]
        BY <3>2, RequestStep
      <4> HIDE DEF v
      <4>3. QED
        BY <4>1, <4>2
    <3>3. CASE AcceptReadsRevision(r)
      <4> DEFINE v == [amRequest[r] EXCEPT !.at = "revision", !.revision = amRevision]
      <4>1. v \in HeldRequests /\ v.heard = FALSE
        BY <2>1, <2>2, RequestWrites DEF RequestStages
      <4>2. amRequest' = [amRequest EXCEPT ![r] = v]
        BY <3>3, RequestStep
      <4> HIDE DEF v
      <4>3. QED
        BY <4>1, <4>2
    <3>4. CASE AcceptReadsSummaryAndDrafts(r)
      <4> DEFINE v == [amRequest[r] EXCEPT !.at = "publish", !.summary = SummaryNow]
      <4>1. v \in HeldRequests /\ v.heard = FALSE
        BY <2>1, <2>2, RequestWrites DEF RequestStages
      <4>2. amRequest' = [amRequest EXCEPT ![r] = v]
        BY <3>4, RequestStep
      <4> HIDE DEF v
      <4>3. QED
        BY <4>1, <4>2
    <3>5. QED
      BY <1>3, <3>1, <3>2, <3>3, <3>4
  <2>4. QED
    BY <1>2, <2>3
<1>4. ASSUME NEW r \in Requests, amRequest' = [amRequest EXCEPT ![r] = Waiting] PROVE Kept
  <2>1. Waiting \in HeldRequests /\ Waiting.heard = FALSE
    BY RequestWrites DEF RequestStages
  <2>2. QED
    BY <1>2, <1>4, <2>1
<1>5. ASSUME NEW r \in Requests,
             PublishConfirmed(r) \/ Resolve(r) \/ SuggestInserts(r) \/ Reject(r) \/ AcceptRemoves(r) \/ RequestStops(r)
      PROVE Kept
  BY <1>4, <1>5 DEF PublishConfirmed, Resolve, SuggestInserts, Reject, AcceptRemoves, RequestStops, RequestBecomes
<1>6. ASSUME NEW r \in Requests, AcceptPublishes(r) PROVE Kept
  <2>1. amRequest' = [amRequest EXCEPT ![r] = Waiting] \/ amRequest' = [amRequest EXCEPT ![r] = [amRequest[r] EXCEPT !.at = "remove"]]
    BY <1>6 DEF AcceptPublishes, RequestBecomes
  <2> DEFINE v == [amRequest[r] EXCEPT !.at = "remove"]
  <2>2. v \in HeldRequests /\ v.heard = FALSE
    BY RequestWrites DEF RequestStages, NoneHeard
  <2> HIDE DEF v
  <2>3. amRequest' = [amRequest EXCEPT ![r] = v] => Kept
    BY <1>2, <2>2
  <2>4. QED
    BY <1>4, <2>1, <2>3 DEF v
<1>7. ASSUME NEW r \in Requests, Decide(r, "reject") \/ Decide(r, "accept") \/ \E t \in ClaimTexts : SuggestChecks(r, t) PROVE Kept
  <2>1. \E v : amRequest' = [amRequest EXCEPT ![r] = v] /\ v \in HeldRequests /\ v.heard = FALSE
    <3>1. CASE Decide(r, "reject") \/ Decide(r, "accept")
      BY <3>1, DecideStep DEF Taken
    <3>2. CASE \E t \in ClaimTexts : SuggestChecks(r, t)
      BY <3>2, SuggestStep DEF Taken
    <3>3. QED
      BY <1>7, <3>1, <3>2
  <2>2. QED
    BY <1>2, <2>1
<1>8. ASSUME NEW s \in Setups, SetupMoves(s) PROVE amRequest' = amRequest
  BY <1>8 DEF SetupMoves, LoadKey, CreateKey, WriteKey, OpenProfile, PublishAnswers, WriteConfiguration, SetupStops
<1>9. ASSUME UNCHANGED amVars PROVE Kept
  BY <1>1, <1>9 DEF amVars
<1> HIDE DEF Kept
<1>10. Kept
  BY <1>1, <1>3, <1>5, <1>6, <1>7, <1>8, <1>9 DEF AboutMeNext, SetupMoves
<1>11. QED
  BY <1>10 DEF Kept

\* The actions that only change what a request holds.
OnlyHolds(r) ==
  \/ Inspect(r) \/ CreateDraft(r) \/ Decide(r, "reject") \/ Decide(r, "accept") \/ AcceptReadsRevision(r)
  \/ AcceptReadsSummaryAndDrafts(r) \/ RequestStops(r) \/ \E t \in ClaimTexts : SuggestChecks(r, t)

LEMMA HoldingMovesNothing == ASSUME NEW r \in Requests, OnlyHolds(r) PROVE UNCHANGED <<storeVars, amSetup, keyVars, amTold>>
BY DEF OnlyHolds, Inspect, CreateDraft, Decide, AcceptReadsRevision, AcceptReadsSummaryAndDrafts, RequestStops, SuggestChecks

\* What a step does to the summary, the revision and the suggestions.
LEMMA StoreMoves == ASSUME AboutMeTypes, ReadsInOrder, NoneHeard, [AboutMeNext]_amVars
  PROVE  /\ \/ UNCHANGED <<amRevision, amSummary, amTold>>
            \/ amRevision' = amRevision + 1 /\ amSummary' = amTold' /\ amTold' \in Summaries
            \/ amRevision' = amRevision + 1 /\ UNCHANGED <<amSummary, amTold>>
            \/ amRevision' = amRevision + 1 /\ amTold' = amTold /\ amSummary' = SummaryNow
         /\ amSuggested' \in Nat
         /\ \A s \in amSuggestions' : s.id \in Nat /\ s.text \in ClaimTexts \cup {"none"} /\ (s \in amSuggestions \/ s.again = FALSE)
<1> DEFINE Moved == \/ UNCHANGED <<amRevision, amSummary, amTold>>
                    \/ amRevision' = amRevision + 1 /\ amSummary' = amTold' /\ amTold' \in Summaries
                    \/ amRevision' = amRevision + 1 /\ UNCHANGED <<amSummary, amTold>>
                    \/ amRevision' = amRevision + 1 /\ amTold' = amTold /\ amSummary' = SummaryNow
           Offered == /\ amSuggested' \in Nat
                      /\ \A s \in amSuggestions' : s.id \in Nat /\ s.text \in ClaimTexts \cup {"none"} /\ (s \in amSuggestions \/ s.again = FALSE)
<1>1. amSuggestions' \subseteq amSuggestions /\ amSuggested' = amSuggested => Offered
  BY DEF AboutMeTypes
<1>2. CASE UNCHANGED <<storeVars, amTold>>
  BY <1>1, <1>2 DEF storeVars
<1>3. ASSUME NEW r \in Requests, PublishConfirmed(r) PROVE Moved /\ Offered
  BY <1>1, <1>3 DEF PublishConfirmed, PublishDraft, storeVars, Summaries
<1>4. ASSUME NEW r \in Requests, Resolve(r) PROVE Moved /\ Offered
  BY <1>1, <1>4 DEF Resolve, ResolveContradiction, storeVars
<1>5. ASSUME NEW r \in Requests, Reject(r) \/ AcceptRemoves(r) PROVE Moved /\ Offered
  <2>1. amSuggestions' \subseteq amSuggestions /\ amSuggested' = amSuggested /\ UNCHANGED <<amRevision, amSummary, amTold>>
    BY <1>5 DEF Reject, AcceptRemoves
  <2>2. QED
    BY <1>1, <2>1
<1>6. ASSUME NEW r \in Requests, AcceptPublishes(r) PROVE Moved /\ Offered
  <2>1. CASE MayPublish(amRequest[r].revision)
    <3>1. amRequest[r].summary = SummaryNow
      BY <1>6, <2>1 DEF ReadsInOrder, AcceptPublishes, RequestAt, MayPublish
    <3>2. amRevision' = amRevision + 1 /\ amTold' = amTold /\ amSummary' = SummaryNow /\ UNCHANGED <<amSuggestions, amSuggested>>
      BY <1>6, <2>1, <3>1 DEF AcceptPublishes, PublishDraft
    <3>3. QED
      BY <1>1, <3>2
  <2>2. CASE ~MayPublish(amRequest[r].revision)
    BY <1>2, <1>6, <2>2 DEF AcceptPublishes
  <2>3. QED
    BY <2>1, <2>2
<1>7. ASSUME NEW r \in Requests, SuggestInserts(r) PROVE Moved /\ Offered
  <2> DEFINE new == [id |-> amSuggested + 1, text |-> amRequest[r].text, again |-> amRequest[r].heard]
  <2>1. amSuggestions' = amSuggestions \cup {new} /\ amSuggested' = amSuggested + 1 /\ UNCHANGED <<amRevision, amSummary, amTold>>
    BY <1>7 DEF SuggestInserts
  <2>2. amRequest[r].heard = FALSE /\ amRequest[r].text \in ClaimTexts \cup {"none"} /\ amSuggested \in Nat
    BY <1>7 DEF SuggestInserts, RequestAt, NoneHeard, AboutMeTypes, HeldRequests
  <2>3. new.id \in Nat /\ new.text \in ClaimTexts \cup {"none"} /\ new.again = FALSE
    BY <2>2
  <2> HIDE DEF new
  <2>4. QED
    BY <2>1, <2>2, <2>3 DEF AboutMeTypes
<1>8. ASSUME NEW s \in Setups, PublishAnswers(s) PROVE Moved /\ Offered
  BY <1>1, <1>8 DEF PublishAnswers, storeVars, Summaries, AboutMeTypes
<1>9. ASSUME NEW s \in Setups, SetupMoves(s), ~PublishAnswers(s) PROVE UNCHANGED <<storeVars, amTold>>
  BY <1>9 DEF SetupMoves, LoadKey, CreateKey, WriteKey, OpenProfile, WriteConfiguration, SetupStops
<1>10. ASSUME NEW r \in Requests, OnlyHolds(r) PROVE UNCHANGED <<storeVars, amTold>>
  BY <1>10, HoldingMovesNothing
<1>11. CASE UNCHANGED amVars
  BY <1>2, <1>11 DEF amVars
<1> HIDE DEF Moved, Offered
<1>12. Moved /\ Offered
  <2>1. CASE UNCHANGED <<storeVars, amTold>>
    BY <1>2, <2>1 DEF Moved, Offered
  <2>2. CASE UNCHANGED amVars
    BY <1>11, <2>2 DEF Moved, Offered
  <2>3. QED
    BY <1>3, <1>4, <1>5, <1>6, <1>7, <1>8, <1>9, <1>10, <2>1, <2>2 DEF AboutMeNext, SetupMoves, OnlyHolds
<1>13. QED
  BY <1>12 DEF Moved, Offered


\* AboutMe: every step keeps the statements of the store, and nobody suggests what was rejected.
LEMMA AboutMeTyped == ASSUME AboutMeTypes, ReadsInOrder, NoneHeard, [AboutMeNext]_amVars PROVE AboutMeTypes' /\ NoneHeard'
<1>1. amRequest' \in [Requests -> HeldRequests] /\ \A r \in Requests : amRequest'[r].heard = FALSE
  BY OneRequest
<1>2. /\ amSuggested' \in Nat
      /\ \A s \in amSuggestions' : s.id \in Nat /\ s.text \in ClaimTexts \cup {"none"} /\ (s \in amSuggestions \/ s.again = FALSE)
  BY StoreMoves
<1>3. amRevision' \in Nat /\ amSummary' \in Summaries
  <2>1. SummaryNow \in Summaries /\ amSummary \in Summaries /\ amRevision \in Nat
    BY DEF SummaryNow, Summaries, AboutMeTypes
  <2>2. \/ UNCHANGED <<amRevision, amSummary, amTold>>
        \/ amRevision' = amRevision + 1 /\ amSummary' = amTold' /\ amTold' \in Summaries
        \/ amRevision' = amRevision + 1 /\ UNCHANGED <<amSummary, amTold>>
        \/ amRevision' = amRevision + 1 /\ amTold' = amTold /\ amSummary' = SummaryNow
    BY StoreMoves
  <2>3. amRevision' \in Nat
    BY <2>1, <2>2
  <2>4. amSummary' \in {amSummary, SummaryNow} \/ amSummary' \in Summaries
    BY <2>2
  <2>5. QED
    BY <2>1, <2>3, <2>4
<1>4. QED
  BY <1>1, <1>2, <1>3 DEF AboutMeTypes, NoneHeard, RejectedNotOffered

\* The summary that was told stays, however the store moves.
LEMMA ToldStays == ASSUME AboutMeTypes, ReadsInOrder, NoneHeard, ToldSummaryKept, [AboutMeNext]_amVars PROVE ToldSummaryKept'
<1>1. amSummary \in {amTold, IF amTold = NoSummary THEN Empty ELSE amTold}
  BY DEF ToldSummaryKept
<1>2. CASE UNCHANGED <<amSummary, amTold>>
  BY <1>1, <1>2 DEF ToldSummaryKept
<1>3. CASE amSummary' = amTold'
  BY <1>3 DEF ToldSummaryKept
<1>4. CASE amTold' = amTold /\ amSummary' = SummaryNow
  BY <1>1, <1>4 DEF ToldSummaryKept, SummaryNow
<1>5. QED
  BY <1>2, <1>3, <1>4, StoreMoves

\* What one request read is its revision or an earlier one, and the summary that goes with it.
InOrder(v, revision, now) ==
  /\ v.at \in {"revision", "publish"} => v.revision <= revision
  /\ v.at = "publish" /\ v.revision = revision => v.summary = now

\* A request that does not move stays in order, however the store moves.
LEMMA WaitersStay ==
  ASSUME AboutMeTypes, ReadsInOrder, NoneHeard, [AboutMeNext]_amVars, NEW r \in Requests, amRequest'[r] = amRequest[r]
  PROVE  InOrder(amRequest'[r], amRevision', SummaryNow')
<1>1. amRequest[r] \in HeldRequests /\ amRevision \in Nat /\ InOrder(amRequest[r], amRevision, SummaryNow)
  BY DEF AboutMeTypes, ReadsInOrder, InOrder
<1>2. amRequest[r].revision \in Nat
  BY <1>1 DEF HeldRequests
<1>3. CASE UNCHANGED <<amRevision, amSummary>>
  <2>1. SummaryNow' = SummaryNow /\ amRevision' = amRevision
    BY <1>3 DEF SummaryNow
  <2>2. QED
    BY <1>1, <2>1 DEF InOrder
<1>4. CASE amRevision' = amRevision + 1
  <2> DEFINE v == amRequest[r]
  <2>1. v.at \in {"revision", "publish"} => v.revision <= amRevision
    BY <1>1 DEF InOrder
  <2>2. v.revision \in Nat /\ amRevision \in Nat /\ amRequest'[r] = v
    BY <1>1, <1>2
  <2> HIDE DEF v
  <2>3. v.at \in {"revision", "publish"} => v.revision <= amRevision' /\ v.revision # amRevision'
    BY <1>4, <2>1, <2>2
  <2>4. QED
    BY <2>2, <2>3 DEF InOrder
<1>5. QED
  BY <1>3, <1>4, StoreMoves

\* AboutMe: a request that publishes carries on the summary of its revision.
LEMMA OrderStays == ASSUME AboutMeTypes, ReadsInOrder, NoneHeard, [AboutMeNext]_amVars PROVE ReadsInOrder'
<1> DEFINE Kept == \A r \in Requests : InOrder(amRequest'[r], amRevision', SummaryNow')
<1>1. ASSUME amRequest' = amRequest PROVE Kept
  BY <1>1, WaitersStay
<1>2. ASSUME NEW r \in Requests, NEW v \in HeldRequests, amRequest' = [amRequest EXCEPT ![r] = v], InOrder(v, amRevision', SummaryNow')
      PROVE Kept
  <2>1. amRequest'[r] = v /\ \A q \in Requests : q # r => amRequest'[q] = amRequest[q]
    BY <1>2, HeldAfter
  <2>2. QED
    BY <1>2, <2>1, WaitersStay
<1>3. ASSUME NEW r \in Requests, NEW v \in HeldRequests, amRequest' = [amRequest EXCEPT ![r] = v], v.at \notin {"revision", "publish"}
      PROVE Kept
  <2>1. InOrder(v, amRevision', SummaryNow')
    BY <1>3 DEF InOrder
  <2>2. QED
    BY <1>2, <1>3, <2>1
<1>4. ASSUME NEW r \in Requests, Inspect(r) PROVE Kept
  <2> DEFINE v == [amRequest[r] EXCEPT !.at = "seen", !.revision = amRevision]
  <2>1. v \in HeldRequests /\ v.at = "seen"
    <3>1. "seen" \in RequestStages
      BY DEF RequestStages
    <3>2. v \in HeldRequests
      BY <3>1, RequestWrites
    <3>3. v.at = "seen"
      BY <3>1, HeldFields
    <3>4. QED
      BY <3>2, <3>3
  <2>2. amRequest' = [amRequest EXCEPT ![r] = v]
    BY <1>4, RequestStep
  <2> HIDE DEF v
  <2>3. QED
    BY <1>3, <2>1, <2>2
<1>5. ASSUME NEW r \in Requests, CreateDraft(r) PROVE Kept
  <2> DEFINE v == [amRequest[r] EXCEPT !.at = "drafted", !.summary = r]
  <2>1. v \in HeldRequests /\ v.at = "drafted"
    <3>1. "drafted" \in RequestStages /\ r \in Summaries
      BY DEF RequestStages, Summaries
    <3>2. v \in HeldRequests
      BY <3>1, RequestWrites
    <3>3. v.at = "drafted"
      BY <3>1, HeldFields
    <3>4. QED
      BY <3>2, <3>3
  <2>2. amRequest' = [amRequest EXCEPT ![r] = v]
    BY <1>5, RequestStep
  <2> HIDE DEF v
  <2>3. QED
    BY <1>3, <2>1, <2>2
<1>6. ASSUME NEW r \in Requests, AcceptReadsRevision(r) PROVE Kept
  <2> DEFINE v == [amRequest[r] EXCEPT !.at = "revision", !.revision = amRevision]
  <2>1. v \in HeldRequests /\ v.at = "revision" /\ v.revision = amRevision /\ amRevision \in Nat
    <3>1. "revision" \in RequestStages
      BY DEF RequestStages
    <3>2. v \in HeldRequests
      BY <3>1, RequestWrites
    <3>3. v.at = "revision" /\ v.revision = amRevision /\ amRevision \in Nat
      BY <3>1, HeldFields DEF AboutMeTypes
    <3>4. QED
      BY <3>2, <3>3
  <2>2. amRequest' = [amRequest EXCEPT ![r] = v] /\ amRevision' = amRevision
    BY <1>6, RequestStep DEF AcceptReadsRevision, storeVars
  <2> HIDE DEF v
  <2>3. InOrder(v, amRevision', SummaryNow')
    BY <2>1, <2>2 DEF InOrder
  <2>4. QED
    BY <1>2, <2>1, <2>2, <2>3
<1>7. ASSUME NEW r \in Requests, AcceptReadsSummaryAndDrafts(r) PROVE Kept
  <2> DEFINE v == [amRequest[r] EXCEPT !.at = "publish", !.summary = SummaryNow]
  <2>1. SummaryNow \in Summaries
    BY DEF SummaryNow, Summaries, AboutMeTypes
  <2>2. v \in HeldRequests /\ v.at = "publish" /\ v.revision = amRequest[r].revision /\ v.summary = SummaryNow
    <3>1. "publish" \in RequestStages
      BY DEF RequestStages
    <3>2. v \in HeldRequests
      BY <3>1, <2>1, RequestWrites
    <3>3. v.at = "publish" /\ v.revision = amRequest[r].revision /\ v.summary = SummaryNow
      BY <3>1, <2>1, HeldFields
    <3>4. QED
      BY <3>2, <3>3
  <2>3. amRequest' = [amRequest EXCEPT ![r] = v] /\ amRequest[r].at = "revision" /\ amRevision' = amRevision /\ SummaryNow' = SummaryNow
    BY <1>7, RequestStep DEF AcceptReadsSummaryAndDrafts, storeVars, SummaryNow
  <2> HIDE DEF v
  <2>4. InOrder(v, amRevision', SummaryNow')
    BY <2>2, <2>3 DEF InOrder, ReadsInOrder
  <2>5. QED
    BY <1>2, <2>2, <2>3, <2>4
<1>8. ASSUME NEW r \in Requests, amRequest' = [amRequest EXCEPT ![r] = Waiting] PROVE Kept
  <2>1. Waiting \in HeldRequests /\ Waiting.at = "idle"
    BY RequestWrites DEF RequestStages, Waiting
  <2>2. QED
    BY <1>3, <1>8, <2>1
<1>9. ASSUME NEW r \in Requests,
             PublishConfirmed(r) \/ Resolve(r) \/ SuggestInserts(r) \/ Reject(r) \/ AcceptRemoves(r) \/ RequestStops(r)
      PROVE Kept
  BY <1>8, <1>9 DEF PublishConfirmed, Resolve, SuggestInserts, Reject, AcceptRemoves, RequestStops, RequestBecomes
<1>10. ASSUME NEW r \in Requests, AcceptPublishes(r) PROVE Kept
  <2>1. amRequest' = [amRequest EXCEPT ![r] = Waiting] \/ amRequest' = [amRequest EXCEPT ![r] = [amRequest[r] EXCEPT !.at = "remove"]]
    BY <1>10 DEF AcceptPublishes, RequestBecomes
  <2> DEFINE v == [amRequest[r] EXCEPT !.at = "remove"]
  <2>2. v \in HeldRequests /\ v.at = "remove"
    BY RequestWrites, HeldFields DEF RequestStages
  <2> HIDE DEF v
  <2>3. amRequest' = [amRequest EXCEPT ![r] = v] => Kept
    BY <1>3, <2>2
  <2>4. QED
    BY <1>8, <2>1, <2>3 DEF v
<1>11. ASSUME NEW r \in Requests, Decide(r, "reject") \/ Decide(r, "accept") \/ \E t \in ClaimTexts : SuggestChecks(r, t) PROVE Kept
  <2>1. \E v : amRequest' = [amRequest EXCEPT ![r] = v] /\ v \in HeldRequests /\ v.at \notin {"revision", "publish"}
    <3>1. CASE Decide(r, "reject") \/ Decide(r, "accept")
      BY <3>1, DecideStep DEF Taken
    <3>2. CASE \E t \in ClaimTexts : SuggestChecks(r, t)
      BY <3>2, SuggestStep DEF Taken
    <3>3. QED
      BY <1>11, <3>1, <3>2
  <2>2. QED
    BY <1>3, <2>1
<1>12. ASSUME NEW s \in Setups, SetupMoves(s) PROVE amRequest' = amRequest
  BY <1>12 DEF SetupMoves, LoadKey, CreateKey, WriteKey, OpenProfile, PublishAnswers, WriteConfiguration, SetupStops
<1>13. UNCHANGED amVars => amRequest' = amRequest
  BY DEF amVars
<1> HIDE DEF Kept
<1>14. Kept
  BY <1>1, <1>4, <1>5, <1>6, <1>7, <1>9, <1>10, <1>11, <1>12, <1>13 DEF AboutMeNext, SetupMoves
<1>15. QED
  BY <1>14 DEF Kept, ReadsInOrder, InOrder


ClaimFields == [revision : Nat, active : BOOLEAN, supersedes : Nat]

\* AboutMe: a claim inserted at the end replaces nothing, or a claim that was active and is retired with it.
LEMMA ClaimInserted == ASSUME ClaimsInOrder, amRevision \in Nat, amClaims' = Append(amClaims, InsertClaim(amRevision + 1, 0))
  PROVE ClaimsInOrder'
<1> DEFINE n == Len(amClaims)
           new == InsertClaim(amRevision + 1, 0)
<1>1. amClaims \in Seq(ClaimFields) /\ n \in Nat
  BY DEF ClaimsInOrder, ClaimFields
<1>2. new \in ClaimFields /\ new.supersedes = 0
  BY DEF ClaimFields, InsertClaim
<1>3. \A d \in 1 .. n : amClaims[d].supersedes < d /\ amClaims[d].supersedes \in Nat
  <2>1. \A d \in 1 .. n : amClaims[d] \in ClaimFields
    BY <1>1
  <2>2. QED
    BY <1>1, <2>1 DEF ClaimsInOrder, ClaimFields
<1> HIDE DEF new
<1>4. amClaims' \in Seq(ClaimFields) /\ Len(amClaims') = n + 1 /\ amClaims'[n + 1] = new /\ \A d \in 1 .. n : amClaims'[d] = amClaims[d]
  BY <1>1, <1>2 DEF new
<1>5. \A d \in 1 .. Len(amClaims') : amClaims'[d].supersedes < d /\ amClaims'[d].supersedes \in Nat
  BY <1>1, <1>2, <1>3, <1>4
<1>6. ReplacedOnce'
  <2> SUFFICES ASSUME NEW c \in 1 .. n + 1, NEW d \in 1 .. n + 1
               PROVE  /\ amClaims'[d].supersedes = c => ~amClaims'[c].active
                      /\ amClaims'[c].supersedes = amClaims'[d].supersedes /\ amClaims'[c].supersedes # 0 => c = d
    BY <1>1, <1>4 DEF ReplacedOnce
  <2>1. CASE c \in 1 .. n /\ d \in 1 .. n
    BY SMTT(60), <1>1, <1>4, <2>1 DEF ClaimsInOrder, ReplacedOnce
  <2>2. CASE d = n + 1
    BY <1>1, <1>2, <1>4, <2>2
  <2>3. CASE c = n + 1 /\ d \in 1 .. n
    BY <1>1, <1>2, <1>3, <1>4, <2>3
  <2>4. QED
    BY <1>1, <2>1, <2>2, <2>3
<1>7. QED
  BY <1>4, <1>5, <1>6 DEF ClaimsInOrder, ClaimFields

LEMMA ClaimReplaced ==
  ASSUME ClaimsInOrder, amRevision \in Nat, NEW c \in DOMAIN amClaims, amClaims[c].active,
         amClaims' = Append([amClaims EXCEPT ![c].active = FALSE], InsertClaim(amRevision + 1, c))
  PROVE ClaimsInOrder'
<1> DEFINE n == Len(amClaims)
           new == InsertClaim(amRevision + 1, c)
           old == [amClaims EXCEPT ![c].active = FALSE]
<1>1. amClaims \in Seq(ClaimFields) /\ n \in Nat /\ c \in 1 .. n
  BY DEF ClaimsInOrder, ClaimFields
<1>2. new \in ClaimFields /\ new.supersedes = c
  BY <1>1 DEF ClaimFields, InsertClaim
<1>3. \A d \in 1 .. n : amClaims[d] \in ClaimFields /\ amClaims[d].supersedes < d /\ amClaims[d].supersedes \in Nat
  <2>1. \A d \in 1 .. n : amClaims[d] \in ClaimFields
    BY <1>1
  <2>2. QED
    BY <1>1, <2>1 DEF ClaimsInOrder, ClaimFields
<1>4. old \in Seq(ClaimFields) /\ Len(old) = n
  <2> DEFINE retired == [amClaims[c] EXCEPT !.active = FALSE]
  <2>1. retired \in ClaimFields
    BY <1>1, <1>3 DEF ClaimFields
  <2>2. old = [amClaims EXCEPT ![c] = retired]
    BY <1>1
  <2> HIDE DEF retired, old
  <2>3. QED
    BY <1>1, <2>1, <2>2
<1>5. \A d \in 1 .. n : /\ old[d].supersedes = amClaims[d].supersedes
                        /\ old[d].active => amClaims[d].active /\ d # c
  BY <1>1, <1>3 DEF ClaimFields
<1> HIDE DEF new, old
<1>6. amClaims' \in Seq(ClaimFields) /\ Len(amClaims') = n + 1 /\ amClaims'[n + 1] = new /\ \A d \in 1 .. n : amClaims'[d] = old[d]
  BY <1>1, <1>2, <1>4 DEF new, old
<1>7. \A d \in 1 .. Len(amClaims') : amClaims'[d].supersedes < d /\ amClaims'[d].supersedes \in Nat
  BY <1>1, <1>2, <1>3, <1>5, <1>6
<1>8. \A d \in 1 .. n : amClaims[d].supersedes # c
  BY <1>1 DEF ClaimsInOrder, ReplacedOnce
<1>9. ReplacedOnce'
  <2> SUFFICES ASSUME NEW a \in 1 .. n + 1, NEW d \in 1 .. n + 1
               PROVE  /\ amClaims'[d].supersedes = a => ~amClaims'[a].active
                      /\ amClaims'[a].supersedes = amClaims'[d].supersedes /\ amClaims'[a].supersedes # 0 => a = d
    BY <1>1, <1>6 DEF ReplacedOnce
  <2>1. CASE a \in 1 .. n /\ d \in 1 .. n
    <3>1. /\ amClaims[d].supersedes = a => ~amClaims[a].active
          /\ amClaims[a].supersedes = amClaims[d].supersedes /\ amClaims[a].supersedes # 0 => a = d
      BY SMTT(60), <1>1, <2>1 DEF ClaimsInOrder, ReplacedOnce
    <3>2. amClaims'[a] = old[a] /\ amClaims'[d] = old[d]
      BY <1>6, <2>1
    <3>3. amClaims'[a].supersedes = amClaims[a].supersedes /\ amClaims'[d].supersedes = amClaims[d].supersedes
      BY <1>5, <2>1, <3>2
    <3>4. amClaims'[a].active => amClaims[a].active
      BY <1>5, <2>1, <3>2
    <3>5. QED
      BY <3>1, <3>3, <3>4
  <2>2. CASE d = n + 1 /\ a \in 1 .. n
    BY <1>1, <1>2, <1>5, <1>6, <1>8, <2>2
  <2>3. CASE a = n + 1 /\ d \in 1 .. n
    BY <1>1, <1>2, <1>3, <1>5, <1>6, <1>8, <2>3
  <2>4. CASE a = n + 1 /\ d = n + 1
    BY <1>1, <1>2, <1>6, <2>4
  <2>5. QED
    BY <1>1, <2>1, <2>2, <2>3, <2>4
<1>10. QED
  BY <1>6, <1>7, <1>9 DEF ClaimsInOrder, ClaimFields

\* AboutMe: a claim is replaced once, in every step.
LEMMA ClaimsStay == ASSUME AboutMeTypes, ClaimsInOrder, [AboutMeNext]_amVars PROVE ClaimsInOrder'
<1>1. amRevision \in Nat
  BY DEF AboutMeTypes
<1>2. ASSUME amClaims' = amClaims PROVE ClaimsInOrder'
  BY <1>2 DEF ClaimsInOrder, ReplacedOnce
<1>3. ASSUME NEW r \in Requests, PublishConfirmed(r) \/ AcceptPublishes(r) PROVE ClaimsInOrder'
  <2>1. amClaims' = Append(amClaims, InsertClaim(amRevision + 1, 0)) \/ amClaims' = amClaims
    BY <1>3 DEF PublishConfirmed, AcceptPublishes, PublishDraft, storeVars
  <2>2. QED
    BY <1>1, <1>2, <2>1, ClaimInserted
<1>4. ASSUME NEW r \in Requests, Resolve(r) PROVE ClaimsInOrder'
  <2>1. \/ amClaims' = amClaims
        \/ \E c \in DOMAIN amClaims :
             amClaims[c].active /\ amClaims' = Append([amClaims EXCEPT ![c].active = FALSE], InsertClaim(amRevision + 1, c))
    BY <1>4, Zenon DEF Resolve, MayResolve, ResolveContradiction, storeVars
  <2>2. QED
    BY <1>1, <1>2, <2>1, ClaimReplaced
<1>5. ASSUME NEW s \in Setups, PublishAnswers(s) PROVE ClaimsInOrder'
  <2>1. amClaims' = <<InsertClaim(1, 0)>> \/ amClaims' = amClaims
    BY <1>5 DEF PublishAnswers, storeVars
  <2>2. ASSUME amClaims' = <<InsertClaim(1, 0)>> PROVE ClaimsInOrder'
    <3> DEFINE new == InsertClaim(1, 0)
    <3>1. new \in ClaimFields /\ new.supersedes = 0
      BY DEF ClaimFields, InsertClaim
    <3> HIDE DEF new
    <3>2. amClaims' \in Seq(ClaimFields) /\ DOMAIN amClaims' = {1} /\ Len(amClaims') = 1 /\ amClaims'[1] = new
      BY <2>2, <3>1 DEF new
    <3>3. QED
      BY <3>1, <3>2 DEF ClaimsInOrder, ReplacedOnce, ClaimFields
  <2>3. QED
    BY <1>2, <2>1, <2>2
<1>6. ASSUME NEW s \in Setups, SetupMoves(s), ~PublishAnswers(s) PROVE amClaims' = amClaims
  BY <1>6 DEF SetupMoves, LoadKey, CreateKey, WriteKey, OpenProfile, WriteConfiguration, SetupStops, storeVars
<1>7. ASSUME NEW r \in Requests, OnlyHolds(r) PROVE amClaims' = amClaims
  BY <1>7, HoldingMovesNothing DEF storeVars
<1>8. ASSUME NEW r \in Requests, SuggestInserts(r) \/ Reject(r) \/ AcceptRemoves(r) PROVE amClaims' = amClaims
  BY <1>8 DEF SuggestInserts, Reject, AcceptRemoves
<1>9. UNCHANGED amVars => amClaims' = amClaims
  BY DEF amVars, storeVars
<1>10. QED
  BY <1>2, <1>3, <1>4, <1>5, <1>6, <1>7, <1>8, <1>9 DEF AboutMeNext, SetupMoves, OnlyHolds


\* What a set-up holds after a step that writes it.
LEMMA SetupAfter ==
  ASSUME KeysInv, NEW s \in Setups, NEW to \in SetupStages, NEW key \in Nat, amSetup' = [amSetup EXCEPT ![s] = [at |-> to, key |-> key]]
  PROVE  /\ amSetup' \in [Setups -> [at : SetupStages, key : Nat]]
         /\ amSetup'[s].at = to /\ amSetup'[s].key = key
         /\ \A t \in Setups : t # s => amSetup'[t] = amSetup[t]
BY DEF KeysInv

LEMMA SetupStopped == ASSUME KeysInv, NEW s \in Setups, NEW from, Setup(s, from, "ended"), UNCHANGED keyVars, amRevision' \in {amRevision, amRevision + 1}, amRevision \in Nat
  PROVE  KeysInv'
<1>1. amSetup' = [amSetup EXCEPT ![s] = [at |-> "ended", key |-> 0]] /\ "ended" \in SetupStages /\ 0 \in Nat
  BY DEF Setup, SetupTo, NoKey, SetupStages
<1>2. /\ amSetup' \in [Setups -> [at : SetupStages, key : Nat]]
      /\ amSetup'[s].at = "ended"
      /\ \A t \in Setups : t # s => amSetup'[t] = amSetup[t]
  BY <1>1, SetupAfter
<1>3. \A t \in Setups : amSetup'[t].at # "ended" => amSetup'[t] = amSetup[t]
  BY <1>2
<1>4. QED
  BY <1>2, <1>3 DEF KeysInv, keyVars

\* AboutMe: the key of the database stays the one that was made.
LEMMA KeysStay == ASSUME AboutMeTypes, ReadsInOrder, NoneHeard, KeysInv, [AboutMeNext]_amVars PROVE KeysInv'
<1>1. amRevision \in Nat /\ amRevision' \in {amRevision, amRevision + 1}
  BY StoreMoves DEF AboutMeTypes
<1>2. ASSUME UNCHANGED <<amSetup, keyVars>> PROVE KeysInv'
  BY <1>1, <1>2 DEF KeysInv, keyVars
<1>3. ASSUME NEW s \in Setups, LoadKey(s) PROVE KeysInv'
  <2>1. CASE Setup(s, "start", "ended")
    BY <1>1, <1>3, <2>1, SetupStopped DEF LoadKey
  <2>2. CASE amKey = NoKey /\ Setup(s, "start", "create")
    <3>1. amSetup' = [amSetup EXCEPT ![s] = [at |-> "create", key |-> amSetup[s].key]] /\ amSetup[s].key \in Nat /\ "create" \in SetupStages
      BY <2>2 DEF Setup, SetupTo, KeysInv, SetupStages
    <3>2. /\ amSetup' \in [Setups -> [at : SetupStages, key : Nat]] /\ amSetup'[s].at = "create"
          /\ \A t \in Setups : t # s => amSetup'[t] = amSetup[t]
      BY <3>1, SetupAfter
    <3>3. UNCHANGED <<keyVars, amRevision>>
      BY <1>3 DEF LoadKey, storeVars
    <3>4. QED
      BY <3>2, <3>3 DEF KeysInv, keyVars
  <2>3. CASE amKey \notin {NoKey, TornKey} /\ SetupTo(s, "start", "open", amKey)
    <3>1. amSetup' = [amSetup EXCEPT ![s] = [at |-> "open", key |-> 1]] /\ amKey = 1 /\ 1 \in Nat /\ "open" \in SetupStages
      BY <2>3 DEF SetupTo, KeysInv, SetupStages
    <3>2. /\ amSetup' \in [Setups -> [at : SetupStages, key : Nat]] /\ amSetup'[s].at = "open" /\ amSetup'[s].key = 1
          /\ \A t \in Setups : t # s => amSetup'[t] = amSetup[t]
      BY <3>1, SetupAfter
    <3>3. UNCHANGED <<keyVars, amRevision>>
      BY <1>3 DEF LoadKey, storeVars
    <3>4. QED
      BY <3>1, <3>2, <3>3 DEF KeysInv, keyVars, NoKey, TornKey
  <2>4. QED
    BY <1>3, <2>1, <2>2, <2>3 DEF LoadKey
<1>4. ASSUME NEW s \in Setups, CreateKey(s) PROVE KeysInv'
  <2>1. CASE ~MayCreateKey
    <3>1. Setup(s, "create", "ended") /\ UNCHANGED keyVars
      BY <1>4, <2>1 DEF CreateKey, keyVars
    <3>2. QED
      BY <1>1, <3>1, SetupStopped
  <2>2. CASE MayCreateKey
    <3>1. /\ amSetup' = [amSetup EXCEPT ![s] = [at |-> "write", key |-> amSetup[s].key]] /\ amSetup[s].key \in Nat /\ "write" \in SetupStages
          /\ amKey = NoKey /\ amKey' = TornKey /\ UNCHANGED <<amKeysMade, amDatabaseKey, amConfigured, amRevision>>
      BY <1>4, <2>2 DEF CreateKey, MayCreateKey, Setup, SetupTo, KeysInv, SetupStages, storeVars
    <3>2. /\ amSetup' \in [Setups -> [at : SetupStages, key : Nat]] /\ amSetup'[s].at = "write"
          /\ \A t \in Setups : t # s => amSetup'[t] = amSetup[t]
      BY <3>1, SetupAfter
    <3>3. \A t \in Setups : amSetup[t].at \notin {"write", "open", "publish", "configure"}
      BY <3>1 DEF KeysInv, NoKey, TornKey
    <3>4. QED
      BY <3>1, <3>2, <3>3 DEF KeysInv, NoKey, TornKey
  <2>3. QED
    BY <2>1, <2>2
<1>5. ASSUME NEW s \in Setups, WriteKey(s) PROVE KeysInv'
  <2>1. amSetup[s].at = "write" /\ amKey = TornKey /\ amKeysMade = 0
    BY <1>5 DEF WriteKey, SetupTo, KeysInv, TornKey
  <2>2. /\ amSetup' = [amSetup EXCEPT ![s] = [at |-> "open", key |-> 1]] /\ 1 \in Nat /\ "open" \in SetupStages
        /\ amKey' = 1 /\ amKeysMade' = 1 /\ UNCHANGED <<amDatabaseKey, amConfigured, amRevision>>
    BY <1>5, <2>1 DEF WriteKey, SetupTo, SetupStages, storeVars
  <2>3. /\ amSetup' \in [Setups -> [at : SetupStages, key : Nat]] /\ amSetup'[s].at = "open" /\ amSetup'[s].key = 1
        /\ \A t \in Setups : t # s => amSetup'[t] = amSetup[t]
    BY <2>2, SetupAfter
  <2>4. \A t \in Setups : t # s => amSetup[t].at \notin {"write", "open", "publish", "configure"}
    BY <2>1 DEF KeysInv, TornKey
  <2>5. amDatabaseKey = NoKey /\ ~amConfigured
    BY <2>1 DEF KeysInv, NoKey, TornKey
  <2>6. QED
    BY <2>2, <2>3, <2>4, <2>5 DEF KeysInv, NoKey, TornKey
<1>6. ASSUME NEW s \in Setups, OpenProfile(s) PROVE KeysInv'
  <2>1. CASE Setup(s, "open", "ended") /\ UNCHANGED amDatabaseKey
    <3>1. UNCHANGED keyVars
      BY <1>6, <2>1 DEF OpenProfile, keyVars
    <3>2. QED
      BY <1>1, <2>1, <3>1, SetupStopped
  <2>2. CASE Setup(s, "open", "publish") /\ amDatabaseKey' = amSetup[s].key
    <3>1. amSetup[s].at = "open" /\ amKey = 1 /\ amSetup[s].key = 1
      BY <2>2 DEF Setup, SetupTo, KeysInv
    <3>2. /\ amSetup' = [amSetup EXCEPT ![s] = [at |-> "publish", key |-> 1]] /\ 1 \in Nat /\ "publish" \in SetupStages
          /\ amDatabaseKey' = 1 /\ UNCHANGED <<amKey, amKeysMade, amConfigured, amRevision>>
      BY <1>6, <2>2, <3>1 DEF OpenProfile, Setup, SetupTo, SetupStages, storeVars
    <3>3. /\ amSetup' \in [Setups -> [at : SetupStages, key : Nat]] /\ amSetup'[s].at = "publish" /\ amSetup'[s].key = 1
          /\ \A t \in Setups : t # s => amSetup'[t] = amSetup[t]
      BY <3>2, SetupAfter
    <3>4. QED
      BY <3>1, <3>2, <3>3 DEF KeysInv, NoKey, TornKey
  <2>3. QED
    BY <1>6, <2>1, <2>2 DEF OpenProfile
<1>7. ASSUME NEW s \in Setups, PublishAnswers(s) PROVE KeysInv'
  <2>1. CASE Setup(s, "publish", "ended")
    BY <1>1, <1>7, <2>1, SetupStopped DEF PublishAnswers
  <2>2. CASE Setup(s, "publish", "configure") /\ amRevision' = 1
    <3>1. amSetup[s].at = "publish" /\ amKey = 1 /\ amSetup[s].key = 1 /\ amDatabaseKey = 1
      BY <2>2 DEF Setup, SetupTo, KeysInv
    <3>2. amSetup' = [amSetup EXCEPT ![s] = [at |-> "configure", key |-> 1]] /\ 1 \in Nat /\ "configure" \in SetupStages /\ UNCHANGED keyVars
      BY <1>7, <2>2, <3>1 DEF PublishAnswers, Setup, SetupTo, SetupStages
    <3>3. /\ amSetup' \in [Setups -> [at : SetupStages, key : Nat]] /\ amSetup'[s].at = "configure" /\ amSetup'[s].key = 1
          /\ \A t \in Setups : t # s => amSetup'[t] = amSetup[t]
      BY <3>2, SetupAfter
    <3>4. QED
      BY <1>1, <2>2, <3>1, <3>2, <3>3 DEF KeysInv, NoKey, TornKey, keyVars
  <2>3. QED
    BY <1>7, <2>1, <2>2 DEF PublishAnswers
<1>8. ASSUME NEW s \in Setups, WriteConfiguration(s) PROVE KeysInv'
  <2>1. amSetup[s].at = "configure" /\ amDatabaseKey = 1 /\ amRevision > 0
    BY <1>8 DEF WriteConfiguration, Setup, SetupTo, KeysInv
  <2>2. /\ amSetup' = [amSetup EXCEPT ![s] = [at |-> "ended", key |-> 0]] /\ 0 \in Nat /\ "ended" \in SetupStages
        /\ amConfigured' = TRUE /\ UNCHANGED <<amKey, amKeysMade, amDatabaseKey, amRevision>>
    BY <1>8 DEF WriteConfiguration, Setup, SetupTo, SetupStages, storeVars, NoKey
  <2>3. /\ amSetup' \in [Setups -> [at : SetupStages, key : Nat]] /\ amSetup'[s].at = "ended"
        /\ \A t \in Setups : t # s => amSetup'[t] = amSetup[t]
    BY <2>2, SetupAfter
  <2>4. QED
    BY <2>1, <2>2, <2>3 DEF KeysInv
<1>9. ASSUME NEW s \in Setups, SetupStops(s) PROVE KeysInv'
  <2>1. Setup(s, amSetup[s].at, "ended") /\ UNCHANGED keyVars
    BY <1>9 DEF SetupStops
  <2>2. QED
    BY <1>1, <2>1, SetupStopped
<1>10. ASSUME NEW r \in Requests, OnlyHolds(r) PROVE UNCHANGED <<amSetup, keyVars>>
  BY <1>10, HoldingMovesNothing
<1>11. ASSUME NEW r \in Requests,
              PublishConfirmed(r) \/ Resolve(r) \/ SuggestInserts(r) \/ Reject(r) \/ AcceptPublishes(r) \/ AcceptRemoves(r)
       PROVE UNCHANGED <<amSetup, keyVars>>
  BY <1>11 DEF PublishConfirmed, Resolve, SuggestInserts, Reject, AcceptPublishes, AcceptRemoves
<1>12. UNCHANGED amVars => UNCHANGED <<amSetup, keyVars>>
  BY DEF amVars
<1>13. QED
  BY <1>2, <1>3, <1>4, <1>5, <1>6, <1>7, <1>8, <1>9, <1>10, <1>11, <1>12 DEF AboutMeNext, OnlyHolds

\* AboutMe: every step keeps what holds of the store, the requests and the set-ups.
LEMMA AboutMeStep == AboutMeInv /\ [AboutMeNext]_amVars => AboutMeInv'
BY AboutMeTyped, ToldStays, OrderStays, ClaimsStay, KeysStay DEF AboutMeInv

\* AboutMe: what the domain promises.
LEMMA AboutMeKeeps == AboutMeInv => ToldSummaryKept /\ ReplacedOnce /\ RejectedNotOffered /\ ConfiguredOpens
BY DEF AboutMeInv, NoneHeard, ClaimsInOrder, KeysInv, ConfiguredOpens, ProfileOpens

-----------------------------------------------------------------------------
(* Revisions: who stages an identifier, and what was reported staged.       *)

StagerStages == {"idle", "encrypted", "written", "renamed"}
FieldsKept == {[g \in {f} |-> v] : f \in ProfileFields, v \in FieldValues} \cup {<<>>}
ListsKept == RecipientLists \cup {<<>>}
RevisionRecords == [id : RevisionIds \cup {"none"}, bytes : Nat, recipients : ListsKept, digest : {RecipientSet(l) : l \in ListsKept} \cup {{}},
              fields : FieldsKept]

RevisionTypes ==
  /\ prStore \in [RevisionIds -> RevisionRecords] /\ prAcknowledged \in [RevisionIds -> RevisionRecords]
  /\ prStager \in [Stagers -> [at : StagerStages, revision : RevisionRecords]] /\ prMade \in Nat

\* What encryption makes: no other bytes, and a digest of the recipients.
Encrypted(r) == r.id \in RevisionIds /\ r.bytes # 0 /\ r.digest = RecipientSet(r.recipients)

Staging(p) == prStager[p].at # "idle"

\* A process stages what was encrypted; the store holds that or nothing.
StagedEncrypted ==
  /\ \A p \in Stagers : Staging(p) => Encrypted(prStager[p].revision)
  /\ \A i \in RevisionIds : prStore[i] = NotStaged \/ Encrypted(prStore[i])

\* One process at a time stages an identifier, unless two overlapped.
OneStages ==
  \A p, q \in Stagers :
    Staging(p) /\ Staging(q) /\ prStager[p].revision.id = prStager[q].revision.id /\ prStager[p].revision.id \notin prOverlap => p = q

\* What a process wrote aside is not in the store yet; what it renamed is.
StagerKnows ==
  \A p \in Stagers :
    LET r == prStager[p].revision IN
    /\ prStager[p].at = "written" /\ r.id \notin prOverlap => prStore[r.id] = NotStaged
    /\ prStager[p].at = "renamed" /\ r.id \notin prOverlap => prStore[r.id] = r

RevisionsInv == RevisionTypes /\ StagedEncrypted /\ OneStages /\ StagerKnows /\ AcknowledgedKept

LEMMA NothingStaged == NotStaged \in RevisionRecords /\ Unstaged \in [at : StagerStages, revision : RevisionRecords]
<1>1. NotStaged \in RevisionRecords
  BY DEF NotStaged, RevisionRecords, ListsKept, FieldsKept
<1>2. QED
  BY <1>1 DEF Unstaged, StagerStages

\* Nothing is staged at first.
LEMMA RevisionsStart == ASSUME RevisionsInit PROVE RevisionsInv
<1>1. RevisionTypes
  BY NothingStaged DEF RevisionsInit, RevisionTypes
<1>2. \A p \in Stagers : prStager[p].at = "idle"
  BY DEF RevisionsInit, Unstaged
<1>3. StagedEncrypted /\ OneStages /\ StagerKnows
  BY <1>2 DEF RevisionsInit, StagedEncrypted, OneStages, StagerKnows, Staging
<1>4. AcknowledgedKept
  BY DEF RevisionsInit, AcknowledgedKept
<1>5. QED
  BY <1>1, <1>3, <1>4 DEF RevisionsInv

\* An encryption is a revision of its own.
LEMMA EncryptionIsNew == ASSUME prMade \in Nat, NEW i \in RevisionIds, NEW f \in FieldsKept, NEW l \in RecipientLists
  PROVE EncryptRevision(i, f, l) \in RevisionRecords /\ Encrypted(EncryptRevision(i, f, l))
<1> DEFINE d == RecipientSet(l)
<1>1. d \in {RecipientSet(k) : k \in ListsKept} \cup {{}} /\ l \in ListsKept
  BY DEF ListsKept
<1> HIDE DEF d
<1>2. [id |-> i, bytes |-> prMade + 1, recipients |-> l, digest |-> d, fields |-> f] \in RevisionRecords
  BY <1>1 DEF RevisionRecords
<1>3. QED
  BY <1>2 DEF EncryptRevision, Encrypted, d

\* What a process that begins or ends leaves of the others.
LEMMA StagerSet == ASSUME RevisionTypes, NEW p \in Stagers, NEW v \in [at : StagerStages, revision : RevisionRecords], prStager' = [prStager EXCEPT ![p] = v]
  PROVE  /\ prStager' \in [Stagers -> [at : StagerStages, revision : RevisionRecords]]
         /\ prStager'[p] = v /\ \A q \in Stagers : q # p => prStager'[q] = prStager[q]
BY DEF RevisionTypes

LEMMA StagerGone == ASSUME RevisionsInv, NEW p \in Stagers, StagerDone(p), UNCHANGED <<prStore, prMade, prOverlap>>
  PROVE  prStager' \in [Stagers -> [at : StagerStages, revision : RevisionRecords]] /\ StagedEncrypted' /\ OneStages' /\ StagerKnows'
<1>1. /\ prStager' \in [Stagers -> [at : StagerStages, revision : RevisionRecords]]
      /\ prStager'[p] = Unstaged /\ \A q \in Stagers : q # p => prStager'[q] = prStager[q]
  BY StagerSet, NothingStaged DEF RevisionsInv, StagerDone
<1>2. prStager'[p].at = "idle"
  BY <1>1 DEF Unstaged
<1>3. \A q \in Stagers : Staging(q)' => Staging(q) /\ prStager'[q] = prStager[q]
  BY <1>1, <1>2 DEF Staging
<1>4. StagedEncrypted'
  BY <1>3 DEF RevisionsInv, StagedEncrypted
<1>5. OneStages'
  BY <1>3 DEF RevisionsInv, OneStages
<1>6. StagerKnows'
  BY <1>3 DEF RevisionsInv, StagerKnows, Staging
<1>7. QED
  BY <1>1, <1>4, <1>5, <1>6

LEMMA StagerBegins == ASSUME RevisionsInv, NEW p \in Stagers, NEW r \in RevisionRecords, Encrypted(r), StagerAt(p, "idle"), Begins(p, r)
  PROVE  RevisionsInv'
<1> DEFINE v == [at |-> "encrypted", revision |-> r]
<1>1. v \in [at : StagerStages, revision : RevisionRecords] /\ v.at = "encrypted" /\ v.revision = r
  BY DEF StagerStages
<1>2. prStager' = [prStager EXCEPT ![p] = v]
  BY DEF Begins
<1> HIDE DEF v
<1>3. /\ prStager' \in [Stagers -> [at : StagerStages, revision : RevisionRecords]]
      /\ prStager'[p] = v /\ \A q \in Stagers : q # p => prStager'[q] = prStager[q]
  BY <1>1, <1>2, StagerSet DEF RevisionsInv
<1>4. UNCHANGED <<prStore, prAcknowledged>> /\ prMade' = prMade + 1 /\ prOverlap \subseteq prOverlap'
  BY DEF Begins
<1>5. \A q \in Stagers : prStager[q].revision.id = r.id => r.id \in prOverlap'
  BY DEF Begins
<1>6. RevisionTypes'
  BY <1>3, <1>4 DEF RevisionsInv, RevisionTypes
<1>7. StagedEncrypted'
  BY <1>1, <1>3, <1>4 DEF RevisionsInv, StagedEncrypted, Staging
<1>8. OneStages'
  <2> SUFFICES ASSUME NEW a \in Stagers, NEW b \in Stagers, Staging(a)', Staging(b)',
                      prStager'[a].revision.id = prStager'[b].revision.id, prStager'[a].revision.id \notin prOverlap', a # b
               PROVE FALSE
    BY DEF OneStages
  <2>1. CASE a # p /\ b # p
    BY <1>3, <1>4, <2>1 DEF RevisionsInv, OneStages, Staging
  <2>2. CASE a = p \/ b = p
    BY <1>1, <1>3, <1>5, <2>2
  <2>3. QED
    BY <2>1, <2>2
<1>9. StagerKnows'
  BY <1>1, <1>3, <1>4 DEF RevisionsInv, StagerKnows
<1>10. AcknowledgedKept'
  BY <1>4 DEF RevisionsInv, AcknowledgedKept
<1>11. QED
  BY <1>6, <1>7, <1>8, <1>9, <1>10 DEF RevisionsInv

\* What is staged again under new recipients has the fields it had.
LEMMA FieldsStay == ASSUME NEW r \in RevisionRecords, NEW who PROVE DecryptRevision(r, who) \in FieldsKept
<1>1. r.fields \in FieldsKept
  BY DEF RevisionRecords
<1>2. <<>> \in FieldsKept
  BY DEF FieldsKept
<1>3. QED
  BY <1>1, <1>2 DEF DecryptRevision

LEMMA StagerMoves == ASSUME RevisionTypes, NEW p \in Stagers, NEW at \in StagerStages, StagerGoes(p, at)
  PROVE  /\ prStager' \in [Stagers -> [at : StagerStages, revision : RevisionRecords]]
         /\ prStager'[p].at = at /\ prStager'[p].revision = prStager[p].revision
         /\ \A q \in Stagers : q # p => prStager'[q] = prStager[q]
<1> DEFINE v == [prStager[p] EXCEPT !.at = at]
<1>1. v \in [at : StagerStages, revision : RevisionRecords] /\ v.at = at /\ v.revision = prStager[p].revision
  BY DEF RevisionTypes
<1>2. prStager' = [prStager EXCEPT ![p] = v]
  BY DEF StagerGoes
<1> HIDE DEF v
<1>3. QED
  BY <1>1, <1>2, StagerSet

\* Revisions: every step keeps what was reported staged.
LEMMA RevisionsStep == ASSUME RevisionsInv, [RevisionsNext]_prVars PROVE RevisionsInv'
<1>1. ASSUME NEW p \in Stagers, StageExisting(p) PROVE RevisionsInv'
  <2> DEFINE r == prStager[p].revision
  <2>1. Staging(p) /\ r \in RevisionRecords /\ Encrypted(r) /\ StagerDone(p) /\ UNCHANGED <<prStore, prMade, prOverlap>>
    BY <1>1 DEF RevisionsInv, RevisionTypes, StagedEncrypted, StageExisting, StagerAt, Staging
  <2>2. prAcknowledged' = (IF prStore[r.id] = r THEN [prAcknowledged EXCEPT ![r.id] = r] ELSE prAcknowledged)
    BY <1>1 DEF StageExisting
  <2>3. prStager' \in [Stagers -> [at : StagerStages, revision : RevisionRecords]] /\ StagedEncrypted' /\ OneStages' /\ StagerKnows'
    BY <2>1, StagerGone
  <2> HIDE DEF r
  <2>4. prAcknowledged' \in [RevisionIds -> RevisionRecords]
    BY <2>1, <2>2 DEF RevisionsInv, RevisionTypes
  <2>5. \A i \in RevisionIds : prAcknowledged'[i] = prAcknowledged[i] \/ prAcknowledged'[i] = prStore[i]
    BY <2>1, <2>2 DEF RevisionsInv, RevisionTypes
  <2>6. AcknowledgedKept'
    BY <2>1, <2>5 DEF RevisionsInv, AcknowledgedKept
  <2>7. QED
    BY <2>1, <2>3, <2>4, <2>6 DEF RevisionsInv, RevisionTypes
<1>2. ASSUME NEW p \in Stagers, StageWrites(p) PROVE RevisionsInv'
  <2>1. prStager[p].at = "encrypted" /\ prStore[prStager[p].revision.id] = NotStaged /\ UNCHANGED <<prStore, prMade, prAcknowledged, prOverlap>>
    BY <1>2 DEF StageWrites, StagerAt, FindsExisting
  <2>2. /\ prStager' \in [Stagers -> [at : StagerStages, revision : RevisionRecords]]
        /\ prStager'[p].at = "written" /\ prStager'[p].revision = prStager[p].revision
        /\ \A q \in Stagers : q # p => prStager'[q] = prStager[q]
    BY <1>2, StagerMoves DEF StageWrites, StagerStages, RevisionsInv
  <2>3. \A q \in Stagers : (Staging(q)' <=> Staging(q)) /\ prStager'[q].revision = prStager[q].revision
    BY <2>1, <2>2 DEF Staging
  <2>4. StagedEncrypted' /\ OneStages'
    BY <2>1, <2>3 DEF RevisionsInv, StagedEncrypted, OneStages
  <2>5. StagerKnows'
    BY <2>1, <2>2 DEF RevisionsInv, StagerKnows
  <2>6. QED
    BY <2>1, <2>2, <2>4, <2>5 DEF RevisionsInv, RevisionTypes, AcknowledgedKept
<1>3. ASSUME NEW p \in Stagers, StageRenames(p) PROVE RevisionsInv'
  <2> DEFINE r == prStager[p].revision
  <2>1. prStager[p].at = "written" /\ Staging(p) /\ r \in RevisionRecords /\ Encrypted(r) /\ UNCHANGED <<prMade, prAcknowledged, prOverlap>>
    BY <1>3 DEF RevisionsInv, RevisionTypes, StagedEncrypted, StageRenames, StagerAt, Staging
  <2>2. prStore' = [prStore EXCEPT ![r.id] = r]
    BY <1>3 DEF StageRenames
  <2>3. /\ prStager' \in [Stagers -> [at : StagerStages, revision : RevisionRecords]]
        /\ prStager'[p].at = "renamed" /\ prStager'[p].revision = r
        /\ \A q \in Stagers : q # p => prStager'[q] = prStager[q]
    BY <1>3, StagerMoves DEF StageRenames, StagerStages, RevisionsInv
  <2>4. r.id \notin prOverlap => prStore[r.id] = NotStaged
    BY <2>1 DEF RevisionsInv, StagerKnows
  <2>5. \A q \in Stagers : q # p /\ Staging(q) /\ prStager[q].revision.id = r.id => r.id \in prOverlap
    BY <2>1 DEF RevisionsInv, OneStages
  <2> HIDE DEF r
  <2>6. r.id \in RevisionIds
    BY <2>1 DEF Encrypted
  <2>7. prStore' \in [RevisionIds -> RevisionRecords] /\ prStore'[r.id] = r /\ \A i \in RevisionIds : i # r.id => prStore'[i] = prStore[i]
    BY <2>1, <2>2, <2>6 DEF RevisionsInv, RevisionTypes
  <2>8. \A q \in Stagers : (Staging(q)' <=> Staging(q)) /\ prStager'[q].revision = prStager[q].revision
    BY <2>1, <2>3 DEF Staging, r
  <2>9. StagedEncrypted'
    BY <2>1, <2>7, <2>8 DEF RevisionsInv, StagedEncrypted
  <2>10. OneStages'
    BY <2>1, <2>8 DEF RevisionsInv, OneStages
  <2>11. StagerKnows'
    <3> SUFFICES ASSUME NEW q \in Stagers, prStager'[q].revision.id \notin prOverlap
                 PROVE  /\ prStager'[q].at = "written" => prStore'[prStager'[q].revision.id] = NotStaged
                        /\ prStager'[q].at = "renamed" => prStore'[prStager'[q].revision.id] = prStager'[q].revision
      BY <2>1 DEF StagerKnows
    <3>1. CASE q = p
      BY <2>3, <2>7, <3>1
    <3>2. CASE q # p /\ Staging(q)
      <4>1. prStager'[q] = prStager[q] /\ prStager[q].revision.id # r.id /\ prStager[q].revision.id \in RevisionIds
        BY <2>3, <2>5, <3>2 DEF RevisionsInv, StagedEncrypted, Encrypted
      <4>2. prStore'[prStager[q].revision.id] = prStore[prStager[q].revision.id]
        BY <2>7, <4>1
      <4>3. QED
        BY <4>1, <4>2 DEF RevisionsInv, StagerKnows
    <3>3. CASE q # p /\ ~Staging(q)
      BY <2>3, <3>3 DEF Staging
    <3>4. QED
      BY <3>1, <3>2, <3>3
  <2>12. AcknowledgedKept'
    BY <2>1, <2>4, <2>7 DEF RevisionsInv, AcknowledgedKept
  <2>13. QED
    BY <2>1, <2>3, <2>7, <2>9, <2>10, <2>11, <2>12 DEF RevisionsInv, RevisionTypes
<1>4. ASSUME NEW p \in Stagers, StageAcknowledges(p) PROVE RevisionsInv'
  <2> DEFINE r == prStager[p].revision
  <2>1. /\ prStager[p].at = "renamed" /\ Staging(p) /\ r \in RevisionRecords /\ Encrypted(r) /\ StagerDone(p)
        /\ UNCHANGED <<prStore, prMade, prOverlap>>
    BY <1>4 DEF RevisionsInv, RevisionTypes, StagedEncrypted, StageAcknowledges, StagerAt, Staging
  <2>2. prAcknowledged' = [prAcknowledged EXCEPT ![r.id] = r]
    BY <1>4 DEF StageAcknowledges
  <2>3. prStager' \in [Stagers -> [at : StagerStages, revision : RevisionRecords]] /\ StagedEncrypted' /\ OneStages' /\ StagerKnows'
    BY <2>1, StagerGone
  <2>4. r.id \notin prOverlap => prStore[r.id] = r
    BY <2>1 DEF RevisionsInv, StagerKnows
  <2> HIDE DEF r
  <2>5. prAcknowledged' \in [RevisionIds -> RevisionRecords]
    BY <2>1, <2>2 DEF RevisionsInv, RevisionTypes
  <2>6. \A i \in RevisionIds : prAcknowledged'[i] = prAcknowledged[i] \/ (i = r.id /\ prAcknowledged'[i] = r)
    BY <2>1, <2>2 DEF RevisionsInv, RevisionTypes
  <2>7. AcknowledgedKept'
    BY <2>1, <2>4, <2>6 DEF RevisionsInv, AcknowledgedKept
  <2>8. QED
    BY <2>1, <2>3, <2>5, <2>7 DEF RevisionsInv, RevisionTypes
<1>5. ASSUME NEW p \in Stagers, StagerEnds(p) PROVE RevisionsInv'
  <2>1. StagerDone(p) /\ UNCHANGED <<prStore, prMade, prAcknowledged, prOverlap>>
    BY <1>5 DEF StagerEnds
  <2>2. prStager' \in [Stagers -> [at : StagerStages, revision : RevisionRecords]] /\ StagedEncrypted' /\ OneStages' /\ StagerKnows'
    BY <2>1, StagerGone
  <2>3. QED
    BY <2>1, <2>2 DEF RevisionsInv, RevisionTypes, AcknowledgedKept
<1>6. ASSUME NEW p \in Stagers, NEW i \in RevisionIds, NEW l \in RecipientLists, NEW f \in ProfileFields, NEW v \in FieldValues,
             Encrypt(p, i, [g \in {f} |-> v], l)
      PROVE RevisionsInv'
  <2> DEFINE fs == [g \in {f} |-> v]
  <2>1. fs \in FieldsKept
    BY DEF FieldsKept
  <2>2. StagerAt(p, "idle") /\ Begins(p, EncryptRevision(i, fs, l))
    BY <1>6 DEF Encrypt
  <2> HIDE DEF fs
  <2>3. EncryptRevision(i, fs, l) \in RevisionRecords /\ Encrypted(EncryptRevision(i, fs, l))
    BY <2>1, EncryptionIsNew DEF RevisionsInv, RevisionTypes
  <2>4. QED
    BY <2>2, <2>3, StagerBegins
<1>7. ASSUME NEW p \in Stagers, NEW i \in RevisionIds, NEW l \in RecipientLists, NEW who \in Identities, RotateRecipients(p, i, who, l)
      PROVE RevisionsInv'
  <2> DEFINE fs == DecryptRevision(prStore[i], who)
  <2>1. fs \in FieldsKept
    BY FieldsStay DEF RevisionsInv, RevisionTypes
  <2>2. StagerAt(p, "idle") /\ Begins(p, EncryptRevision(i, fs, l))
    BY <1>7 DEF RotateRecipients
  <2> HIDE DEF fs
  <2>3. EncryptRevision(i, fs, l) \in RevisionRecords /\ Encrypted(EncryptRevision(i, fs, l))
    BY <2>1, EncryptionIsNew DEF RevisionsInv, RevisionTypes
  <2>4. QED
    BY <2>2, <2>3, StagerBegins
<1>8. CASE UNCHANGED prVars
  BY <1>8 DEF prVars, RevisionsInv, RevisionTypes, StagedEncrypted, OneStages, StagerKnows, AcknowledgedKept, Staging
<1>9. QED
  BY <1>1, <1>2, <1>3, <1>4, <1>5, <1>6, <1>7, <1>8 DEF RevisionsNext

\* Merging in the other direction merges the same, and nothing of either side is lost.
LEMMA MergeIsSymmetric == ASSUME NEW l, NEW r PROVE Merge(l, r).merged = Merge(r, l).merged
<1> DEFINE D == {f \in DOMAIN l \cap DOMAIN r : l[f] # r[f]}
           E == {f \in DOMAIN r \cap DOMAIN l : r[f] # l[f]}
           F == (DOMAIN l \cup DOMAIN r) \ D
<1>1. D = E /\ (DOMAIN r \cup DOMAIN l) \ E = F
  OBVIOUS
<1>2. \A f \in F : (IF f \in DOMAIN l THEN l[f] ELSE r[f]) = (IF f \in DOMAIN r THEN r[f] ELSE l[f])
  OBVIOUS
<1>3. Merge(l, r).merged = [f \in F |-> IF f \in DOMAIN l THEN l[f] ELSE r[f]]
  BY DEF Merge
<1>4. Merge(r, l).merged = [f \in F |-> IF f \in DOMAIN r THEN r[f] ELSE l[f]]
  BY <1>1 DEF Merge
<1> HIDE DEF D, E, F
<1>5. QED
  BY <1>2, <1>3, <1>4

LEMMA MergeKeeps == ASSUME NEW l, NEW r
  PROVE LET m == Merge(l, r) IN
    /\ \A f \in DOMAIN l : (f \in DOMAIN m.merged /\ m.merged[f] = l[f]) \/ \E c \in m.conflicts : c.field = f /\ c.left = l[f]
    /\ \A f \in DOMAIN r : (f \in DOMAIN m.merged /\ m.merged[f] = r[f]) \/ \E c \in m.conflicts : c.field = f /\ c.right = r[f]
<1> DEFINE D == {f \in DOMAIN l \cap DOMAIN r : l[f] # r[f]}
           merged == [f \in (DOMAIN l \cup DOMAIN r) \ D |-> IF f \in DOMAIN l THEN l[f] ELSE r[f]]
           conflicts == {[field |-> f, left |-> l[f], right |-> r[f]] : f \in D}
<1>1. Merge(l, r).merged = merged /\ Merge(l, r).conflicts = conflicts
  BY DEF Merge
<1>2. \A f \in D : \E c \in conflicts : c.field = f /\ c.left = l[f] /\ c.right = r[f]
  <2> SUFFICES ASSUME NEW f \in D PROVE \E c \in conflicts : c.field = f /\ c.left = l[f] /\ c.right = r[f]
    OBVIOUS
  <2> DEFINE c == [field |-> f, left |-> l[f], right |-> r[f]]
  <2>1. c.field = f /\ c.left = l[f] /\ c.right = r[f]
    OBVIOUS
  <2>2. c \in conflicts
    OBVIOUS
  <2> HIDE DEF c, conflicts
  <2>3. QED
    BY <2>1, <2>2
<1>3. \A f \in (DOMAIN l \cup DOMAIN r) \ D :
        f \in DOMAIN merged /\ merged[f] = (IF f \in DOMAIN l THEN l[f] ELSE r[f])
  OBVIOUS
<1> HIDE DEF merged, conflicts
<1>4. QED
  BY <1>1, <1>2, <1>3

\* Revisions: what the domain promises.
LEMMA RevisionsKeep == RevisionsInv => AcknowledgedKept /\ RecipientsRead /\ MergeKeepsBoth
<1> SUFFICES ASSUME RevisionsInv PROVE AcknowledgedKept /\ RecipientsRead /\ MergeKeepsBoth
  OBVIOUS
<1>1. RecipientsRead
  <2> SUFFICES ASSUME NEW i \in RevisionIds, NEW who \in ToSet(prStore[i].recipients)
               PROVE DecryptRevision(prStore[i], who) = prStore[i].fields
    BY DEF RecipientsRead
  <2>1. prStore[i] # NotStaged
    BY DEF NotStaged, ToSet
  <2>2. prStore[i].digest = RecipientSet(prStore[i].recipients)
    BY <2>1 DEF RevisionsInv, StagedEncrypted, Encrypted
  <2>3. QED
    BY <2>2 DEF DecryptRevision, RecipientSet
<1>2. MergeKeepsBoth
  BY MergeIsSymmetric, MergeKeeps DEF MergeKeepsBoth
<1>3. QED
  BY <1>1, <1>2 DEF RevisionsInv

-----------------------------------------------------------------------------
(* Plans: what is stored was sealed, and what is sealed is what was wanted. *)

SealRecords == [tools : ProviderTools \cup {"none"}, inputs : PlanInputs \cup {"none"}, key : Nat, moved : BOOLEAN]
BuildRecords == [at : {"idle", "materialized", "observed", "keyless", "keyed", "sealed", "staged"},
                 want : PlanInputs \cup {"none"}, seen : PlanInputs \cup {"none"}, moved : BOOLEAN, key : Nat]

PlansTypes ==
  /\ plInputs \in PlanInputs /\ plTools \in ProviderTools /\ plTarget \in PlanInputs /\ plKey \in Nat
  /\ plSealed \in [PlanIds -> SealRecords]
  /\ plStore \in [PlanIds -> {"absent", "whole"}]
  /\ plBuild \in [Builders -> BuildRecords]

\* A request knows its plan once the target was observed, and its key once it has one.
BuildStands(v) ==
  /\ v.at # "idle" => v.want \in PlanInputs
  /\ v.at \notin {"idle", "materialized"} => v.seen \in PlanInputs
  /\ v.at = "keyed" => 1 <= v.key /\ v.key <= plKey
  /\ v.at \in {"sealed", "staged"} => plSealed[[want |-> v.want, seen |-> v.seen]] # NoSeal

\* A seal is made with a key there has been, for the inputs that were wanted.
SealStands(p) ==
  plSealed[p] # NoSeal =>
    /\ 1 <= plSealed[p].key /\ plSealed[p].key <= plKey
    /\ plSealed[p].moved \/ plSealed[p].inputs = p.want

PlansInv ==
  /\ PlansTypes
  /\ \A b \in Builders : BuildStands(plBuild[b])
  /\ \A p \in PlanIds : SealStands(p) /\ (plStore[p] = "whole" => plSealed[p] # NoSeal)
  /\ AppliedIsCurrent

\* Nothing is planned at first.
LEMMA PlansStart == ASSUME PlansInit PROVE PlansInv
<1>1. plInputs \in PlanInputs /\ plTools \in ProviderTools
  BY InputsGiven DEF PlansInit
<1>2. NoSeal \in SealRecords /\ NoBuild \in BuildRecords /\ NoBuild.at = "idle"
  BY DEF NoSeal, SealRecords, NoBuild, BuildRecords
<1>3. PlansTypes
  BY <1>1, <1>2 DEF PlansInit, PlansTypes
<1>4. QED
  BY <1>2, <1>3 DEF PlansInit, PlansInv, BuildStands, SealStands, AppliedIsCurrent, NoApply

\* The request that moves becomes v; the others and what they rely on stay.
LEMMA BuildMoves ==
  ASSUME PlansInv, NEW b \in Builders, NEW v \in BuildRecords, plBuild' = [plBuild EXCEPT ![b] = v],
         plKey' \in Nat, plKey <= plKey', plSealed' \in [PlanIds -> SealRecords],
         \A p \in PlanIds : plSealed[p] # NoSeal => plSealed'[p] # NoSeal,
         /\ v.at # "idle" => v.want \in PlanInputs
         /\ v.at \notin {"idle", "materialized"} => v.seen \in PlanInputs
         /\ v.at = "keyed" => 1 <= v.key /\ v.key <= plKey'
         /\ v.at \in {"sealed", "staged"} => plSealed'[[want |-> v.want, seen |-> v.seen]] # NoSeal
  PROVE  plBuild' \in [Builders -> BuildRecords] /\ \A c \in Builders : BuildStands(plBuild[c])'
<1>1. plBuild' \in [Builders -> BuildRecords]
  BY DEF PlansInv, PlansTypes
<1>2. ASSUME NEW c \in Builders PROVE BuildStands(plBuild[c])'
  <2>1. CASE c = b
    <3>1. plBuild'[c] = v
      BY <2>1 DEF PlansInv, PlansTypes
    <3>2. QED
      BY <3>1 DEF BuildStands
  <2>2. CASE c # b
    <3>1. plBuild'[c] = plBuild[c] /\ plBuild[c] \in BuildRecords /\ BuildStands(plBuild[c])
      BY <2>2 DEF PlansInv, PlansTypes
    <3> DEFINE w == plBuild[c]
               p == [want |-> w.want, seen |-> w.seen]
    <3>2. w.at \notin {"idle", "materialized"} => p \in PlanIds
      BY <3>1 DEF BuildStands, PlanIds
    <3>3. w.key \in Nat /\ plKey \in Nat
      BY <3>1 DEF BuildRecords, PlansInv, PlansTypes
    <3>4. w.at = "keyed" => 1 <= w.key /\ w.key <= plKey'
      BY <3>1, <3>3 DEF BuildStands
    <3>5. w.at \in {"sealed", "staged"} => plSealed'[p] # NoSeal
      BY <3>1, <3>2 DEF BuildStands
    <3>6. QED
      BY <3>1, <3>4, <3>5 DEF BuildStands
  <2>3. QED
    BY <2>1, <2>2
<1>3. QED
  BY <1>1, <1>2

\* A request that ends leaves the rest alone.
LEMMA BuildEnds ==
  ASSUME PlansInv, NEW b \in Builders, plBuild' = [plBuild EXCEPT ![b] = NoBuild],
         UNCHANGED <<plInputs, plTools, plTarget, plKey, plSealed, plAccepted>>,
         plStore' \in [PlanIds -> {"absent", "whole"}],
         \A p \in PlanIds : plStore'[p] = "whole" => plSealed[p] # NoSeal
  PROVE  PlansInv'
<1>1. NoBuild \in BuildRecords /\ NoBuild.at = "idle"
  BY DEF NoBuild, BuildRecords
<1>2. plKey' \in Nat /\ plKey <= plKey' /\ plSealed' \in [PlanIds -> SealRecords] /\ plSealed' = plSealed
  BY DEF PlansInv, PlansTypes
<1>3. plBuild' \in [Builders -> BuildRecords] /\ \A c \in Builders : BuildStands(plBuild[c])'
  BY <1>1, <1>2, BuildMoves
<1>4. QED
  BY <1>3 DEF PlansInv, PlansTypes, SealStands, AppliedIsCurrent

\* What a request has sealed and wants is a plan.
LEMMA PlanKnown == ASSUME PlansInv, NEW b \in Builders, plBuild[b].at \notin {"idle", "materialized"}
  PROVE PlanOf(b) \in PlanIds /\ PlanOf(b).want = plBuild[b].want
BY DEF PlansInv, BuildStands, PlanOf, PlanIds

\* The world around the daemon moves; no request loses what it relies on.
LEMMA WorldMoves == ASSUME PlansInv, InputsMove \/ ToolsMove \/ DaemonStops PROVE PlansInv'
<1>1. CASE InputsMove
  <2>1. plInputs' \in PlanInputs /\ UNCHANGED <<plTools, plTarget, plKey, plSealed, plStore, plAccepted>>
    BY <1>1 DEF InputsMove
  <2>2. ASSUME NEW b \in Builders PROVE plBuild'[b] \in BuildRecords /\ BuildStands(plBuild[b])'
    <3>1. plBuild[b] \in BuildRecords /\ BuildStands(plBuild[b])
      BY DEF PlansInv, PlansTypes
    <3>2. plBuild'[b] \in {plBuild[b], [plBuild[b] EXCEPT !.moved = TRUE]}
      BY <1>1 DEF InputsMove
    <3>3. /\ plBuild'[b] \in BuildRecords /\ plBuild'[b].at = plBuild[b].at /\ plBuild'[b].want = plBuild[b].want
          /\ plBuild'[b].seen = plBuild[b].seen /\ plBuild'[b].key = plBuild[b].key
      BY <3>1, <3>2 DEF BuildRecords
    <3>4. QED
      BY <2>1, <3>1, <3>3 DEF BuildStands
  <2>3. plBuild' \in [Builders -> BuildRecords]
    <3>1. plBuild' = [b \in Builders |-> plBuild'[b]]
      BY <1>1 DEF InputsMove
    <3>2. QED
      BY <2>2, <3>1
  <2>4. QED
    BY <2>1, <2>2, <2>3 DEF PlansInv, PlansTypes, SealStands, AppliedIsCurrent
<1>2. CASE ToolsMove
  BY <1>2 DEF ToolsMove, PlansInv, PlansTypes, BuildStands, SealStands, AppliedIsCurrent
<1>3. CASE DaemonStops
  <2>1. NoBuild \in BuildRecords /\ NoBuild.at = "idle"
    BY DEF NoBuild, BuildRecords
  <2>2. plBuild' \in [Builders -> BuildRecords] /\ \A b \in Builders : plBuild'[b] = NoBuild
    BY <1>3, <2>1 DEF DaemonStops
  <2>3. \A b \in Builders : BuildStands(plBuild[b])'
    BY <2>1, <2>2 DEF BuildStands
  <2>4. QED
    BY <1>3, <2>2, <2>3 DEF DaemonStops, PlansInv, PlansTypes, SealStands, AppliedIsCurrent
<1>4. QED
  BY <1>1, <1>2, <1>3

\* A request reads its inputs and the target.
LEMMA BuildReads == ASSUME PlansInv, NEW b \in Builders, Materialize(b) \/ Observe(b) PROVE PlansInv'
<1> DEFINE v == plBuild'[b]
<1>1. plBuild[b] \in BuildRecords /\ BuildStands(plBuild[b]) /\ NoBuild \in BuildRecords
  BY DEF PlansInv, PlansTypes, NoBuild, BuildRecords
<1>2. UNCHANGED <<plInputs, plTools, plTarget, plKey, plSealed, plStore, plAccepted>>
  BY DEF Materialize, Observe
<1>3. /\ plBuild' = [plBuild EXCEPT ![b] = v] /\ v \in BuildRecords
      /\ v.at \in {"materialized", "observed"} /\ v.want \in PlanInputs
      /\ v.at = "observed" => v.seen \in PlanInputs
  <2>1. CASE Materialize(b)
    <3>1. v = [NoBuild EXCEPT !.at = "materialized", !.want = plInputs] /\ plBuild' = [plBuild EXCEPT ![b] = v]
      BY <2>1 DEF Materialize, PlansInv, PlansTypes
    <3>2. v = [at |-> "materialized", want |-> plInputs, seen |-> "none", moved |-> FALSE, key |-> 0]
      BY <3>1 DEF NoBuild
    <3>3. plInputs \in PlanInputs
      BY DEF PlansInv, PlansTypes
    <3> HIDE DEF v
    <3>4. v \in BuildRecords /\ v.at = "materialized" /\ v.want = plInputs
      BY <3>2, <3>3 DEF BuildRecords
    <3>5. QED
      BY <3>1, <3>3, <3>4
  <2>2. CASE Observe(b)
    <3>1. v = [plBuild[b] EXCEPT !.at = "observed", !.seen = plTarget] /\ plBuild' = [plBuild EXCEPT ![b] = v]
      BY <2>2 DEF Observe, PlansInv, PlansTypes
    <3>2. v.at = "observed" /\ v.want = plBuild[b].want /\ v.seen = plTarget /\ v \in BuildRecords
      BY <1>1, <3>1 DEF BuildRecords, PlansInv, PlansTypes
    <3>3. plBuild[b].want \in PlanInputs
      BY <1>1, <2>2 DEF Observe, BuildStands
    <3>4. QED
      BY <3>1, <3>2, <3>3 DEF PlansInv, PlansTypes
  <2>3. QED
    BY <2>1, <2>2
<1> HIDE DEF v
<1>4. plKey' \in Nat /\ plKey <= plKey' /\ plSealed' \in [PlanIds -> SealRecords] /\ plSealed' = plSealed
  BY <1>2 DEF PlansInv, PlansTypes
<1>5. v.at \notin {"keyed", "sealed", "staged"} /\ (v.at \notin {"idle", "materialized"} => v.seen \in PlanInputs)
  BY <1>3
<1>6. plBuild' \in [Builders -> BuildRecords] /\ \A c \in Builders : BuildStands(plBuild[c])'
  BY <1>3, <1>4, <1>5, BuildMoves
<1>7. QED
  BY <1>2, <1>6 DEF PlansInv, PlansTypes, SealStands, AppliedIsCurrent

\* The authority is looked at: a seal that says the same is kept.
LEMMA SealChecked == ASSUME PlansInv, NEW b \in Builders, CheckSeal(b) PROVE PlansInv'
<1> DEFINE p == PlanOf(b)
           v == plBuild'[b]
<1>1. /\ plBuild[b] \in BuildRecords /\ BuildStands(plBuild[b]) /\ plBuild[b].at = "observed"
      /\ p \in PlanIds /\ p = [want |-> plBuild[b].want, seen |-> plBuild[b].seen]
  BY PlanKnown DEF PlansInv, PlansTypes, CheckSeal, PlanOf
<1>2. UNCHANGED <<plInputs, plTools, plTarget, plKey, plStore, plAccepted>> /\ plKey \in Nat /\ plKey <= plKey'
  BY DEF CheckSeal, PlansInv, PlansTypes
<1>3. plBuild[b].want \in PlanInputs /\ plBuild[b].seen \in PlanInputs
  BY <1>1 DEF BuildStands
<1>4. plSealed' = plSealed \/ (plSealed[p] # NoSeal /\ plSealed' = [plSealed EXCEPT ![p].moved = @ \/ plBuild[b].moved])
  BY DEF CheckSeal
<1>5. ASSUME NEW q \in PlanIds
      PROVE  /\ plSealed'[q] \in SealRecords /\ (plSealed[q] # NoSeal <=> plSealed'[q] # NoSeal) /\ SealStands(q)'
             /\ plStore[q] = "whole" => plSealed'[q] # NoSeal
  <2>1. plSealed[q] \in SealRecords /\ SealStands(q) /\ (plStore[q] = "whole" => plSealed[q] # NoSeal)
    BY DEF PlansInv, PlansTypes
  <2>2. CASE plSealed'[q] = plSealed[q]
    BY <1>2, <2>1, <2>2 DEF SealStands
  <2>3. CASE q = p /\ plSealed[q] # NoSeal /\ plSealed'[q] = [plSealed[q] EXCEPT !.moved = @ \/ plBuild[b].moved]
    <3>1. plBuild[b].moved \in BOOLEAN
      BY <1>1 DEF BuildRecords
    <3>2. /\ plSealed'[q].key = plSealed[q].key /\ plSealed'[q].inputs = plSealed[q].inputs
          /\ plSealed'[q].moved = (plSealed[q].moved \/ plBuild[b].moved) /\ plSealed'[q] \in SealRecords
      BY <2>1, <2>3, <3>1 DEF SealRecords
    <3>3. plSealed[q].key >= 1
      BY <2>1, <2>3 DEF SealStands, SealRecords
    <3>4. plSealed'[q] # NoSeal
      BY <3>2, <3>3 DEF NoSeal
    <3>5. QED
      BY <1>2, <2>1, <2>3, <3>2, <3>4 DEF SealStands
  <2>4. QED
    BY <1>1, <1>4, <2>2, <2>3 DEF PlansInv, PlansTypes
<1>6. plSealed' \in [PlanIds -> SealRecords]
  <2>1. plSealed' = [q \in PlanIds |-> plSealed'[q]]
    BY <1>4 DEF PlansInv, PlansTypes
  <2>2. QED
    BY <1>5, <2>1
<1>7. CASE plBuild' = [plBuild EXCEPT ![b] = NoBuild] /\ plSealed' = plSealed
  BY <1>2, <1>7, BuildEnds DEF PlansInv, PlansTypes
<1>8. CASE /\ plBuild' = [plBuild EXCEPT ![b] = v] /\ v \in BuildRecords /\ v.want = plBuild[b].want /\ v.seen = plBuild[b].seen
           /\ v.at \in {"sealed", "keyless", "keyed"}
           /\ v.at = "keyed" => 1 <= v.key /\ v.key <= plKey
           /\ v.at = "sealed" => plSealed[p] # NoSeal
  <2>1. v.at \in {"sealed", "staged"} => plSealed'[[want |-> v.want, seen |-> v.seen]] # NoSeal
    BY <1>1, <1>5, <1>8
  <2>2. v.want \in PlanInputs /\ v.seen \in PlanInputs /\ (v.at = "keyed" => 1 <= v.key /\ v.key <= plKey')
    BY <1>2, <1>3, <1>8
  <2>3. plBuild' = [plBuild EXCEPT ![b] = v] /\ v \in BuildRecords /\ plKey' \in Nat
    BY <1>2, <1>8
  <2> HIDE DEF v, p
  <2>4. plBuild' \in [Builders -> BuildRecords] /\ \A c \in Builders : BuildStands(plBuild[c])'
    BY <1>2, <1>5, <1>6, <2>1, <2>2, <2>3, BuildMoves
  <2>5. QED
    BY <1>2, <1>5, <1>6, <2>4 DEF PlansInv, PlansTypes, AppliedIsCurrent
<1>9. CASE plSealed[p] # NoSeal /\ plBuild' = [plBuild EXCEPT ![b].at = "sealed"]
  <2>1. v = [plBuild[b] EXCEPT !.at = "sealed"] /\ plBuild' = [plBuild EXCEPT ![b] = v]
    BY <1>9 DEF PlansInv, PlansTypes
  <2>2. v \in BuildRecords /\ v.at = "sealed" /\ v.want = plBuild[b].want /\ v.seen = plBuild[b].seen
    BY <1>1, <2>1 DEF BuildRecords
  <2>3. QED
    BY <1>8, <1>9, <2>1, <2>2
<1>10. CASE plBuild' = [plBuild EXCEPT ![b].at = IF plKey = 0 THEN "keyless" ELSE "keyed", ![b].key = plKey]
  <2>1. v = [plBuild[b] EXCEPT !.at = IF plKey = 0 THEN "keyless" ELSE "keyed", !.key = plKey] /\ plBuild' = [plBuild EXCEPT ![b] = v]
    BY <1>10 DEF PlansInv, PlansTypes
  <2>2. /\ v.at = (IF plKey = 0 THEN "keyless" ELSE "keyed") /\ v.key = plKey
        /\ v.want = plBuild[b].want /\ v.seen = plBuild[b].seen /\ v \in BuildRecords
    BY <1>1, <1>2, <2>1 DEF BuildRecords
  <2>3. QED
    BY <1>2, <1>8, <2>1, <2>2
<1>11. QED
  BY <1>7, <1>9, <1>10 DEF CheckSeal

\* A key is made, and the seal is written with the key the request holds.
LEMMA SealMade == ASSUME PlansInv, NEW b \in Builders, MakeKey(b) \/ WriteSeal(b) PROVE PlansInv'
<1> DEFINE p == PlanOf(b)
           v == plBuild'[b]
<1>1. /\ plBuild[b] \in BuildRecords /\ BuildStands(plBuild[b]) /\ plBuild[b].at \in {"keyless", "keyed"}
      /\ p \in PlanIds /\ p = [want |-> plBuild[b].want, seen |-> plBuild[b].seen]
  BY PlanKnown DEF PlansInv, PlansTypes, MakeKey, WriteSeal, PlanOf
<1>2. UNCHANGED <<plInputs, plTools, plTarget, plStore, plAccepted>> /\ plKey \in Nat /\ plKey' \in {plKey, plKey + 1}
  BY DEF MakeKey, WriteSeal, PlansInv, PlansTypes
<1>3. plBuild[b].want \in PlanInputs /\ plBuild[b].seen \in PlanInputs
  BY <1>1 DEF BuildStands
<1>k. plKey' \in Nat /\ plKey <= plKey'
  BY <1>2
<1>4. CASE MakeKey(b)
  <2>1. v = [plBuild[b] EXCEPT !.at = "keyed", !.key = plKey + 1] /\ plBuild' = [plBuild EXCEPT ![b] = v]
        /\ plKey' = plKey + 1 /\ plSealed' = plSealed
    BY <1>4 DEF MakeKey, PlansInv, PlansTypes
  <2>2. /\ v.at = "keyed" /\ v.key = plKey + 1
        /\ v.want = plBuild[b].want /\ v.seen = plBuild[b].seen /\ v \in BuildRecords
    <3> DEFINE k == plKey + 1
    <3>1. k \in Nat
      BY <1>2
    <3>2. v = [plBuild[b] EXCEPT !.at = "keyed", !.key = k]
      BY <2>1
    <3> HIDE DEF k, v
    <3>3. v.at = "keyed" /\ v.key = k /\ v.want = plBuild[b].want /\ v.seen = plBuild[b].seen
      BY <1>1, <3>2 DEF BuildRecords
    <3>4. v \in BuildRecords
      BY <1>1, <3>1, <3>2 DEF BuildRecords
    <3>5. QED
      BY <3>3, <3>4 DEF k
  <2>3. plSealed' \in [PlanIds -> SealRecords]
    BY <2>1 DEF PlansInv, PlansTypes
  <2>4. v.want \in PlanInputs /\ v.seen \in PlanInputs /\ 1 <= v.key /\ v.key <= plKey' /\ v.at \notin {"sealed", "staged"}
    BY <1>2, <1>3, <2>1, <2>2
  <2>5. plBuild' = [plBuild EXCEPT ![b] = v] /\ v \in BuildRecords
    BY <2>1, <2>2
  <2>6. plBuild' \in [Builders -> BuildRecords] /\ \A c \in Builders : BuildStands(plBuild[c])'
    <3> HIDE DEF v
    <3>1. QED
      BY <1>k, <2>1, <2>3, <2>4, <2>5, BuildMoves
  <2>7. ASSUME NEW q \in PlanIds PROVE SealStands(q)' /\ (plStore'[q] = "whole" => plSealed'[q] # NoSeal)
    <3>1. plSealed[q] \in SealRecords /\ SealStands(q) /\ (plStore[q] = "whole" => plSealed[q] # NoSeal)
      BY DEF PlansInv, PlansTypes
    <3>2. plSealed[q].key \in Nat
      BY <3>1 DEF SealRecords
    <3>3. QED
      BY <1>2, <2>1, <3>1, <3>2 DEF SealStands
  <2>8. QED
    BY <1>2, <1>k, <2>3, <2>6, <2>7 DEF PlansInv, PlansTypes, AppliedIsCurrent
<1>5. CASE WriteSeal(b)
  <2> DEFINE s == SealNow(b, plBuild[b].key)
             r == plSealed'[p]
  <2>1. /\ s = [tools |-> plTools, inputs |-> plInputs, key |-> plBuild[b].key, moved |-> plBuild[b].moved]
        /\ r = [s EXCEPT !.moved = @ \/ plInputs # plBuild[b].want] /\ plSealed' = [plSealed EXCEPT ![p] = r]
        /\ plKey' = plKey
    BY <1>1, <1>5 DEF WriteSeal, SealNow, ToolDigests, InputDigests, PlansInv, PlansTypes
  <2>2. 1 <= plBuild[b].key /\ plBuild[b].key <= plKey /\ plBuild[b].key \in Nat /\ plBuild[b].moved \in BOOLEAN
    BY <1>1, <1>5 DEF WriteSeal, BuildStands, BuildRecords
  <2>3. r = [tools |-> plTools, inputs |-> plInputs, key |-> plBuild[b].key,
             moved |-> (plBuild[b].moved \/ plInputs # plBuild[b].want)]
    BY <2>1
  <2>4. /\ r \in SealRecords /\ r.key = plBuild[b].key /\ r.inputs = plInputs
        /\ r.moved = (plBuild[b].moved \/ plInputs # plBuild[b].want)
    <3> HIDE DEF r
    <3>1. QED
      BY <2>2, <2>3 DEF SealRecords, PlansInv, PlansTypes
  <2>5. r # NoSeal
    BY <2>2, <2>4 DEF NoSeal
  <2>6. plSealed' \in [PlanIds -> SealRecords] /\ \A q \in PlanIds \ {p} : plSealed'[q] = plSealed[q]
    <3> HIDE DEF r, p
    <3>1. QED
      BY <2>1, <2>4 DEF PlansInv, PlansTypes
  <2>7. \A q \in PlanIds : plSealed[q] # NoSeal => plSealed'[q] # NoSeal
    BY <2>5, <2>6
  <2>8. v = [plBuild[b] EXCEPT !.at = "sealed"] /\ plBuild' = [plBuild EXCEPT ![b] = v]
    BY <1>5 DEF WriteSeal, PlansInv, PlansTypes
  <2>9. v.at = "sealed" /\ v.want = plBuild[b].want /\ v.seen = plBuild[b].seen /\ v \in BuildRecords
    BY <1>1, <2>8 DEF BuildRecords
  <2>10. /\ plBuild' = [plBuild EXCEPT ![b] = v] /\ v \in BuildRecords /\ v.at # "keyed"
         /\ v.want \in PlanInputs /\ v.seen \in PlanInputs /\ plSealed'[[want |-> v.want, seen |-> v.seen]] # NoSeal
    BY <1>1, <1>3, <2>5, <2>8, <2>9
  <2>11. plBuild' \in [Builders -> BuildRecords] /\ \A c \in Builders : BuildStands(plBuild[c])'
    <3> HIDE DEF v
    <3>1. QED
      BY <1>k, <2>6, <2>7, <2>10, BuildMoves
  <2>12. ASSUME NEW q \in PlanIds PROVE SealStands(q)' /\ (plStore'[q] = "whole" => plSealed'[q] # NoSeal)
    <3>1. CASE q = p
      <4>1. p.want = plBuild[b].want
        BY <1>1
      <4>2. QED
        BY <2>1, <2>2, <2>4, <2>5, <3>1, <4>1 DEF SealStands
    <3>2. CASE q # p
      BY <1>2, <2>1, <2>6, <3>2 DEF SealStands, PlansInv
    <3>3. QED
      BY <3>1, <3>2
  <2>13. QED
    BY <1>2, <1>k, <2>6, <2>11, <2>12 DEF PlansInv, PlansTypes, AppliedIsCurrent
<1>6. QED
  BY <1>4, <1>5

\* A plan is stored once it is sealed.
LEMMA PlanStored == ASSUME PlansInv, NEW b \in Builders, StagePlan(b) \/ LinkPlan(b) PROVE PlansInv'
<1>1. /\ plBuild[b] \in BuildRecords /\ BuildStands(plBuild[b]) /\ plBuild[b].at \in {"sealed", "staged"}
      /\ PlanOf(b) \in PlanIds /\ PlanOf(b) = [want |-> plBuild[b].want, seen |-> plBuild[b].seen]
  BY PlanKnown DEF PlansInv, PlansTypes, StagePlan, LinkPlan, PlanOf
<1>2. UNCHANGED <<plInputs, plTools, plTarget, plKey, plSealed, plAccepted>>
  BY DEF StagePlan, LinkPlan
<1>3. plSealed[PlanOf(b)] # NoSeal
  BY <1>1 DEF BuildStands
<1>4. CASE plBuild' = [plBuild EXCEPT ![b] = NoBuild]
  <2>1. /\ plStore' \in [PlanIds -> {"absent", "whole"}]
        /\ \A p \in PlanIds : plStore'[p] = "whole" => plSealed[p] # NoSeal
    BY <1>1, <1>3 DEF StagePlan, LinkPlan, PlansInv, PlansTypes
  <2>2. QED
    BY <1>2, <1>4, <2>1, BuildEnds
<1>5. CASE plBuild' = [plBuild EXCEPT ![b].at = "staged"] /\ plStore' = plStore
  <2> DEFINE v == plBuild'[b]
  <2>1. v = [plBuild[b] EXCEPT !.at = "staged"] /\ plBuild' = [plBuild EXCEPT ![b] = v]
    BY <1>5 DEF PlansInv, PlansTypes
  <2>2. v.at = "staged" /\ v.want = plBuild[b].want /\ v.seen = plBuild[b].seen /\ v \in BuildRecords
    BY <1>1, <2>1 DEF BuildRecords
  <2>3. plKey' \in Nat /\ plKey <= plKey' /\ plSealed' \in [PlanIds -> SealRecords] /\ plSealed' = plSealed
    BY <1>2 DEF PlansInv, PlansTypes
  <2>4. /\ plBuild' = [plBuild EXCEPT ![b] = v] /\ v \in BuildRecords /\ v.at # "keyed"
        /\ v.want \in PlanInputs /\ v.seen \in PlanInputs /\ plSealed'[[want |-> v.want, seen |-> v.seen]] # NoSeal
    BY <1>1, <1>3, <2>1, <2>2, <2>3 DEF BuildStands
  <2>5. plBuild' \in [Builders -> BuildRecords] /\ \A c \in Builders : BuildStands(plBuild[c])'
    <3> HIDE DEF v
    <3>1. QED
      BY <2>3, <2>4, BuildMoves
  <2>6. QED
    BY <1>2, <1>5, <2>5 DEF PlansInv, PlansTypes, SealStands, AppliedIsCurrent
<1>6. QED
  BY <1>4, <1>5 DEF StagePlan, LinkPlan

\* What is applied was sealed for the inputs as they are now.
LEMMA PlanAccepted == ASSUME PlansInv, NEW p \in PlanIds, AcceptPlan(p) PROVE PlansInv'
<1>1. SealStands(p) /\ plSealed[p] # NoSeal /\ plSealed[p].inputs = plInputs /\ p.want \in PlanInputs
  BY DEF PlansInv, AcceptPlan, AuthorityHolds, InputDigests, PlanIds
<1>2. plAccepted'.want = p.want /\ plAccepted'.inputs = plInputs /\ plAccepted'.moved = plSealed[p].moved
  BY DEF AcceptPlan
<1>3. AppliedIsCurrent'
  BY <1>1, <1>2 DEF SealStands, AppliedIsCurrent
<1>4. QED
  BY <1>1, <1>3 DEF AcceptPlan, PlansInv, PlansTypes, BuildStands, SealStands

\* Plans are built, sealed, stored and applied in this order.
LEMMA PlansStep == ASSUME PlansInv, [PlansNext]_plVars PROVE PlansInv'
<1>1. CASE UNCHANGED plVars
  BY <1>1 DEF plVars, PlansInv, PlansTypes, BuildStands, SealStands, AppliedIsCurrent
<1>2. CASE PlansNext
  BY <1>2, WorldMoves, BuildReads, SealChecked, SealMade, PlanStored, PlanAccepted DEF PlansNext
<1>3. QED
  BY <1>1, <1>2

\* What the store holds can be read, was sealed, and is applied for current inputs.
LEMMA PlansKept == ASSUME PlansInv PROVE StoreStaysReadable /\ StoredIsSealed /\ AppliedIsCurrent
<1>1. StoreStaysReadable
  BY DEF PlansInv, PlansTypes, StoreStaysReadable, HasInvalidCandidate, AllowedEntry
<1>2. StoredIsSealed
  <2> SUFFICES ASSUME plKey <= 1, NEW p \in PlanIds, plStore[p] # "absent" PROVE Opens(p)
    BY DEF StoredIsSealed
  <2>1. plSealed[p] # NoSeal /\ SealStands(p) /\ plSealed[p] \in SealRecords /\ plKey \in Nat
    BY DEF PlansInv, PlansTypes
  <2>2. plSealed[p].key \in Nat /\ 1 <= plSealed[p].key /\ plSealed[p].key <= plKey
    BY <2>1 DEF SealRecords, SealStands
  <2>3. plSealed[p].key = plKey
    BY <2>1, <2>2
  <2>4. QED
    BY <2>1, <2>3 DEF Opens
<1>3. QED
  BY <1>1, <1>2 DEF PlansInv

-----------------------------------------------------------------------------
(* ProviderPlan: what was approved keeps to its places and its providers.   *)

ClaimedResources == UNION {Range(l) : l \in ProviderClaims}
ProviderNames == {"apm", "chezmoi"}
ProviderStates == [provider : ProviderNames, resources : Seq(ClaimedResources), unsupported : BOOLEAN]
StatesListed(states) == states \in Seq(ProviderStates) /\ Len(states) = 2

\* What a set of claims gives each provider, and so the digests of the states.
OwnedBy(claims, p) == {c.resource : c \in {d \in claims : d.provider = p}}
DigestsOf(claims) == {[provider |-> p, resources |-> OwnedBy(claims, p)] : p \in ProviderNames}

OwnershipInv ==
  /\ owCase \in BOOLEAN
  /\ owStage \in {"idle", "materialised", "refused", "planned", "registered", "approved", "applying", "stale"}
  /\ owStage # "idle" => StatesListed(owStates)
  /\ owStage \in {"idle", "materialised", "refused"} => owRegistered = {}
  /\ owStage \notin {"idle", "materialised", "refused"} =>
       owApproved.bindings = <<DigestsOf(owApproved.claims), owApproved.claims, owApproved.case>>
  /\ ProtectedPlacesKept /\ ProvidersKeepApart /\ AppliedAsApproved

\* Two lists, each a prefix of the other, are one.
LEMMA PrefixOfEachOther == ASSUME NEW S, NEW s \in Seq(S), NEW t \in Seq(S), IsPrefix(s, t), IsPrefix(t, s) PROVE s = t
<1>1. Len(s) \in Nat /\ Len(t) \in Nat /\ Len(s) <= Len(t) /\ Len(t) <= Len(s)
  BY DEF IsPrefix
<1>2. Len(s) = Len(t)
  BY <1>1
<1>3. \A i \in 1 .. Len(s) : SubSeq(s, 1, Len(s))[i] = s[i] /\ SubSeq(t, 1, Len(s))[i] = t[i]
  BY <1>1, <1>2
<1>4. SubSeq(s, 1, Len(s)) = SubSeq(t, 1, Len(s))
  BY DEF IsPrefix
<1>5. \A i \in 1 .. Len(s) : s[i] = t[i]
  BY <1>3, <1>4
<1>6. s = [i \in 1 .. Len(s) |-> s[i]] /\ t = [i \in 1 .. Len(s) |-> t[i]]
  BY <1>2
<1>7. QED
  BY <1>5, <1>6

\* Two lists of lists are flattened to the one followed by the other.
LEMMA FlattenTwo == ASSUME NEW q, Len(q) = 2 PROVE FlattenSeq(q) = q[1] \o q[2]
<1> DEFINE F(f) == f = [i \in 1 .. Len(q) |-> IF i = 1 THEN q[i] ELSE f[i - 1] \o q[i]]
           g == [i \in 1 .. Len(q) |-> IF i = 1 THEN q[1] ELSE q[1] \o q[2]]
           f == CHOOSE f : F(f)
<1>1. \E h : F(h)
  <2>1. \A i \in 1 .. Len(q) : g[i] = IF i = 1 THEN q[i] ELSE g[i - 1] \o q[i]
    <3> TAKE i \in 1 .. Len(q)
    <3>1. i \in {1, 2} /\ 1 \in 1 .. Len(q) /\ 2 - 1 = 1
      OBVIOUS
    <3>2. QED
      BY <3>1
  <2>2. g = [i \in 1 .. Len(q) |-> g[i]]
    OBVIOUS
  <2>3. F(g)
    <3> HIDE DEF g
    <3>1. QED
      BY <2>1, <2>2
  <2>4. QED
    BY <2>3
<1>2. F(f)
  <2> HIDE DEF F
  <2>1. QED
    BY <1>1
<1>3. FlattenSeq(q) = f[Len(q)]
  BY DEF FlattenSeq
<1> HIDE DEF f
<1>4. \A i \in 1 .. 2 : f[i] = IF i = 1 THEN q[i] ELSE f[i - 1] \o q[i]
  BY <1>2
<1>5. f[1] = q[1] /\ f[2] = f[2 - 1] \o q[2] /\ 2 - 1 = 1
  BY <1>4
<1>6. QED
  BY <1>3, <1>5

\* The claims of one state.
ClaimsOf(v) == [i \in DOMAIN v.resources |-> [resource |-> v.resources[i], provider |-> v.provider]]
ClaimRecords == [resource : ClaimedResources, provider : ProviderNames]

\* What a list that follows another holds.
LEMMA RangeOfBoth == ASSUME NEW S, NEW a \in Seq(S), NEW b \in Seq(S) PROVE Range(a \o b) = Range(a) \cup Range(b)
<1>1. DOMAIN (a \o b) = 1 .. (Len(a) + Len(b)) /\ DOMAIN a = 1 .. Len(a) /\ DOMAIN b = 1 .. Len(b)
  BY LenProperties, ConcatProperties
<1>2. Len(a) \in Nat /\ Len(b) \in Nat
  OBVIOUS
<1>3. \A i \in 1 .. Len(a) : (a \o b)[i] = a[i] /\ i \in DOMAIN (a \o b)
  BY <1>1, <1>2, ConcatProperties
<1>4. \A i \in 1 .. Len(b) : (a \o b)[Len(a) + i] = b[i] /\ Len(a) + i \in DOMAIN (a \o b)
  BY <1>1, <1>2, ConcatProperties
<1>5. \A i \in DOMAIN (a \o b) : i \in 1 .. Len(a) \/ \E j \in 1 .. Len(b) : i = Len(a) + j
  <2> TAKE i \in DOMAIN (a \o b)
  <2>1. i > Len(a) => i - Len(a) \in 1 .. Len(b) /\ i = Len(a) + (i - Len(a))
    BY <1>1, <1>2
  <2>2. i <= Len(a) => i \in 1 .. Len(a)
    BY <1>1, <1>2
  <2>3. QED
    BY <1>1, <1>2, <2>1, <2>2
<1>6. \A x : x \in Range(a \o b) => x \in Range(a) \cup Range(b)
  <2> SUFFICES ASSUME NEW i \in DOMAIN (a \o b) PROVE (a \o b)[i] \in Range(a) \cup Range(b)
    BY DEF Range
  <2>1. CASE i \in 1 .. Len(a)
    BY <1>1, <1>3, <2>1 DEF Range
  <2>2. CASE \E j \in 1 .. Len(b) : i = Len(a) + j
    BY <1>1, <1>4, <2>2 DEF Range
  <2>3. QED
    BY <1>5, <2>1, <2>2
<1>7. \A x : x \in Range(a) \/ x \in Range(b) => x \in Range(a \o b)
  BY <1>1, <1>3, <1>4, Zenon DEF Range
<1>8. QED
  BY <1>6, <1>7

\* The claims of a state that is listed.
LEMMA ClaimsOfOne == ASSUME NEW v \in ProviderStates
  PROVE /\ v.resources \in Seq(ClaimedResources) /\ v.provider \in ProviderNames
        /\ ClaimsOf(v) \in Seq(ClaimRecords)
        /\ Range(ClaimsOf(v)) = {[resource |-> r, provider |-> v.provider] : r \in Range(v.resources)}
<1>1. v.resources \in Seq(ClaimedResources) /\ v.provider \in ProviderNames
  BY DEF ProviderStates
<1> DEFINE n == Len(v.resources)
           l == v.resources
           p == v.provider
<1>2. DOMAIN l = 1 .. n /\ n \in Nat /\ \A i \in 1 .. n : l[i] \in ClaimedResources
  BY <1>1
<1>3. ClaimsOf(v) = [i \in 1 .. n |-> [resource |-> l[i], provider |-> p]]
  BY <1>2 DEF ClaimsOf
<1>4. \A i \in 1 .. n : [resource |-> l[i], provider |-> p] \in ClaimRecords
  BY <1>1, <1>2 DEF ClaimRecords
<1> HIDE DEF l, n, p
<1>5. ClaimsOf(v) \in [1 .. n -> ClaimRecords]
  BY <1>3, <1>4
<1>6. ClaimsOf(v) \in Seq(ClaimRecords)
  BY <1>2, <1>5, SeqDef
<1>7. Range(ClaimsOf(v)) = {[resource |-> r, provider |-> p] : r \in Range(l)}
  BY <1>2, <1>3 DEF Range
<1>8. QED
  BY <1>1, <1>6, <1>7 DEF l, p

\* The claims of two states are those of the one and those of the other.
LEMMA ClaimsOfTwo ==
  ASSUME NEW states, StatesListed(states)
  PROVE  /\ DOMAIN states = {1, 2} /\ \A s \in {1, 2} : states[s] \in ProviderStates
         /\ Range(Claims(states)) = Range(ClaimsOf(states[1])) \cup Range(ClaimsOf(states[2]))
         /\ Claims(states) \in Seq(ClaimRecords)
<1>1. states \in Seq(ProviderStates) /\ Len(states) = 2
  BY DEF StatesListed
<1>2. DOMAIN states = 1 .. 2 /\ \A s \in 1 .. 2 : states[s] \in ProviderStates
  BY <1>1, LenProperties, ElementOfSeq
<1>3. DOMAIN states = {1, 2} /\ \A s \in {1, 2} : states[s] \in ProviderStates
  BY <1>2
<1> DEFINE q == [s \in DOMAIN states |-> ClaimsOf(states[s])]
<1>4. q = <<ClaimsOf(states[1]), ClaimsOf(states[2])>>
  BY <1>2
<1>5. Claims(states) = FlattenSeq(q)
  BY DEF Claims, ClaimsOf
<1> HIDE DEF q
<1>6. Len(q) = 2 /\ q[1] = ClaimsOf(states[1]) /\ q[2] = ClaimsOf(states[2])
  BY <1>4
<1>7. Claims(states) = ClaimsOf(states[1]) \o ClaimsOf(states[2])
  BY <1>5, <1>6, FlattenTwo
<1>8. ClaimsOf(states[1]) \in Seq(ClaimRecords) /\ ClaimsOf(states[2]) \in Seq(ClaimRecords)
  BY <1>3, ClaimsOfOne
<1>9. QED
  BY <1>3, <1>7, <1>8, RangeOfBoth, ConcatProperties

\* If they are of two providers, their digests follow from the claims.
LEMMA DigestsFollow ==
  ASSUME NEW states, StatesListed(states), states[1].provider # states[2].provider
  PROVE  {StateDigest(states[s]) : s \in DOMAIN states} = DigestsOf(Range(Claims(states)))
<1> DEFINE all == Range(Claims(states))
<1>1. DOMAIN states = {1, 2} /\ \A s \in {1, 2} : states[s] \in ProviderStates
  BY ClaimsOfTwo
<1>2. \A s \in {1, 2} : Range(ClaimsOf(states[s])) = {[resource |-> r, provider |-> states[s].provider] : r \in Range(states[s].resources)}
  BY <1>1, ClaimsOfOne
<1>3. all = Range(ClaimsOf(states[1])) \cup Range(ClaimsOf(states[2]))
  BY ClaimsOfTwo
<1> HIDE DEF all
<1>4. ASSUME NEW s \in {1, 2} PROVE OwnedBy(all, states[s].provider) = Range(states[s].resources)
  <2>1. \A c : c \in all /\ c.provider = states[s].provider <=>
               \E r \in Range(states[s].resources) : c = [resource |-> r, provider |-> states[s].provider]
    BY <1>2, <1>3
  <2> DEFINE p == states[s].provider
             R == Range(states[s].resources)
  <2>2. \A c : c \in all /\ c.provider = p <=> \E r \in R : c = [resource |-> r, provider |-> p]
    BY <2>1
  <2> HIDE DEF p, R
  <2>3. \A x : x \in OwnedBy(all, p) <=> x \in R
    <3>1. ASSUME NEW x \in OwnedBy(all, p) PROVE x \in R
      <4>1. PICK c \in all : c.provider = p /\ x = c.resource
        BY <3>1 DEF OwnedBy
      <4>2. PICK r \in R : c = [resource |-> r, provider |-> p]
        BY <2>2, <4>1
      <4>3. QED
        BY <4>1, <4>2
    <3>2. ASSUME NEW x \in R PROVE x \in OwnedBy(all, p)
      <4> DEFINE c == [resource |-> x, provider |-> p]
      <4>1. c \in all /\ c.provider = p
        BY <2>2, <3>2
      <4>2. c.resource = x
        OBVIOUS
      <4> HIDE DEF c
      <4>3. QED
        BY <4>1, <4>2 DEF OwnedBy
    <3>3. QED
      BY <3>1, <3>2
  <2>4. OwnedBy(all, p) = R
    BY <2>3 DEF OwnedBy
  <2>5. QED
    BY <2>4 DEF p, R
<1>5. ProviderNames = {states[1].provider, states[2].provider}
  BY <1>1, ClaimsOfOne DEF ProviderNames
<1>6. DigestsOf(all) = {[provider |-> states[s].provider, resources |-> OwnedBy(all, states[s].provider)] : s \in {1, 2}}
  BY <1>5 DEF DigestsOf
<1>7. {StateDigest(states[s]) : s \in DOMAIN states} = {[provider |-> states[s].provider, resources |-> Range(states[s].resources)] : s \in {1, 2}}
  BY <1>1 DEF StateDigest
<1>8. QED
  BY <1>4, <1>6, <1>7 DEF all

\* What valid claims keep away from, and how they keep apart.
PlacesSpared(case, claims) ==
  \A c \in claims : IsFile(c) =>
    \A root \in ProtectedRoots :
      /\ ~Affects(case, c.resource, root)
      /\ c.resource.kind = "symlink" => ~ContainsPath(case, c.resource.leads, root)
KeptApart(case, claims) ==
  \A c, d \in claims : IsFile(c) /\ IsFile(d) /\ c # d =>
    /\ ~(ContainsPath(case, c.resource.path, d.resource.path) /\ ContainsPath(case, d.resource.path, c.resource.path))
    /\ (c.resource.kind = "exact" /\ c.provider # d.provider) => ~Affects(case, c.resource, d.resource.path)

\* Valid claims spare the protected places.
LEMMA ValidSpares == ASSUME NEW case, NEW list, OwnershipValid(case, list) PROVE PlacesSpared(case, Range(list))
<1> SUFFICES ASSUME NEW i \in DOMAIN list, IsFile(list[i]), NEW root \in ProtectedRoots
             PROVE  /\ ~Affects(case, list[i].resource, root)
                    /\ list[i].resource.kind = "symlink" => ~ContainsPath(case, list[i].resource.leads, root)
  BY DEF PlacesSpared, Range
<1>1. PlaceAllowed(case, list[i].resource)
  BY DEF OwnershipValid
<1>2. QED
  BY <1>1 DEF PlaceAllowed, Affects

\* Two places that hold each other are one.
LEMMA SamePlaceEither ==
  ASSUME NEW case \in BOOLEAN, NEW l \in ClaimedResources, NEW r \in ClaimedResources,
         ContainsPath(case, l.path, r.path), ContainsPath(case, r.path, l.path)
  PROVE  SamePlace(case, l, r) /\ SamePlace(case, r, l)
<1>1. \A x \in ClaimedResources : x.path \in Seq(Range(x.path))
  <2> TAKE x \in ClaimedResources
  <2>1. PICK c \in ProviderClaims : x \in Range(c)
    BY DEF ClaimedResources
  <2>2. PICK i \in DOMAIN c : x = c[i]
    BY <2>1 DEF Range
  <2>3. QED
    BY <2>2, ClaimsListed
<1> DEFINE S == Range(l.path) \cup Range(r.path)
           a == l.path
           b == r.path
<1>2. a \in Seq(S) /\ b \in Seq(S)
  BY <1>1, SeqMonotonic
<1>3. CASE case
  <2>1. IsPrefix(b, a) /\ IsPrefix(a, b)
    BY <1>3 DEF ContainsPath
  <2> HIDE DEF S, a, b
  <2>2. a = b
    BY <1>2, <2>1, PrefixOfEachOther
  <2>3. QED
    BY <2>2 DEF SamePlace, a, b
<1>4. CASE ~case
  <2> DEFINE L == {LowerCase[x] : x \in S}
  <2>1. ASSUME NEW p \in Seq(S) PROVE Lowered(p) \in Seq(L)
    <3>1. DOMAIN p = 1 .. Len(p) /\ Len(p) \in Nat /\ \A i \in 1 .. Len(p) : LowerCase[p[i]] \in L
      BY <2>1, LenProperties, ElementOfSeq
    <3> HIDE DEF L
    <3>2. Lowered(p) \in [1 .. Len(p) -> L]
      BY <3>1 DEF Lowered
    <3>3. QED
      BY <3>1, <3>2, SeqDef
  <2>2. IsPrefix(Lowered(b), Lowered(a)) /\ IsPrefix(Lowered(a), Lowered(b))
    BY <1>4 DEF ContainsPath
  <2>3. Lowered(a) \in Seq(L) /\ Lowered(b) \in Seq(L)
    BY <1>2, <2>1
  <2> HIDE DEF S, L, a, b
  <2>4. Lowered(a) = Lowered(b)
    BY <2>2, <2>3, PrefixOfEachOther
  <2>5. QED
    BY <1>4, <2>4 DEF SamePlace, a, b
<1>5. QED
  BY <1>3, <1>4

\* Valid claims keep apart.
LEMMA ValidKeepsApart ==
  ASSUME NEW case \in BOOLEAN, NEW list \in Seq(ClaimRecords), OwnershipValid(case, list)
  PROVE  KeptApart(case, Range(list))
<1>1. DOMAIN list = 1 .. Len(list) /\ Len(list) \in Nat
  BY LenProperties
<1> SUFFICES ASSUME NEW i \in DOMAIN list, NEW j \in DOMAIN list, IsFile(list[i]), IsFile(list[j]), list[i] # list[j]
             PROVE  /\ ~(/\ ContainsPath(case, list[i].resource.path, list[j].resource.path)
                         /\ ContainsPath(case, list[j].resource.path, list[i].resource.path))
                    /\ (list[i].resource.kind = "exact" /\ list[i].provider # list[j].provider) =>
                         ~Affects(case, list[i].resource, list[j].resource.path)
  BY DEF KeptApart, Range
<1>2. list[i] \in ClaimRecords /\ list[j] \in ClaimRecords
  BY <1>1
<1> DEFINE l == list[i].resource
           r == list[j].resource
<1>3. l \in ClaimedResources /\ r \in ClaimedResources
  BY <1>2 DEF ClaimRecords
<1>4. i < j \/ j < i
  BY <1>1
<1>5. ~(SamePlace(case, l, r) /\ SamePlace(case, r, l))
  BY <1>4 DEF OwnershipValid, ClaimsApart
<1>6. ~(ContainsPath(case, l.path, r.path) /\ ContainsPath(case, r.path, l.path))
  BY <1>3, <1>5, SamePlaceEither
<1>7. l.path # r.path
  BY <1>5 DEF SamePlace
<1>8. ~ExactConflict(case, list[i], list[j])
  BY DEF OwnershipValid, ExactOverOther
<1>9. (l.kind = "exact" /\ list[i].provider # list[j].provider) => ~Affects(case, l, r.path)
  BY <1>7, <1>8 DEF ExactConflict, Affects
<1>10. QED
  BY <1>6, <1>9

\* Nothing is approved at first.
LEMMA OwnershipStart == ASSUME ProviderPlanInit PROVE OwnershipInv
BY DEF ProviderPlanInit, OwnershipInv, NothingApproved, ProtectedPlacesKept, ProvidersKeepApart, AppliedAsApproved

\* Whatever is materialised first or again is two listed states.
LEMMA MaterialisedListed ==
  ASSUME NEW first \in ProviderClaims, NEW second \in ProviderClaims, NEW u \in BOOLEAN
  PROVE  StatesListed(MaterialisedStates(first, second, u))
<1>1. \A l \in ProviderClaims : l \in Seq(ClaimedResources)
  <2> TAKE l \in ProviderClaims
  <2>1. l \in Seq(Range(l)) /\ Range(l) \subseteq ClaimedResources
    BY ClaimsListed DEF ClaimedResources
  <2>2. QED
    BY <2>1, SeqMonotonic
<1> DEFINE a == [provider |-> "apm", resources |-> first, unsupported |-> u]
           b == [provider |-> "chezmoi", resources |-> second, unsupported |-> FALSE]
<1>2. a \in ProviderStates /\ b \in ProviderStates
  BY <1>1 DEF ProviderStates, ProviderNames
<1>3. MaterialisedStates(first, second, u) = <<a, b>>
  BY DEF MaterialisedStates
<1> HIDE DEF a, b
<1>4. QED
  BY <1>2, <1>3 DEF StatesListed

\* Two of a kind are a list.
LEMMA TwoListed == ASSUME NEW S, NEW q \in [1 .. 2 -> S] PROVE q \in Seq(S)
<1>1. \E n \in Nat : q \in [1 .. n -> S]
  OBVIOUS
<1>2. QED
  BY <1>1, SeqDef

\* What is materialised again.
LEMMA RematerialisedListed ==
  ASSUME StatesListed(owStates), NEW states \in Rematerialised
  PROVE  StatesListed(states)
<1>1. owStates \in Seq(ProviderStates) /\ Len(owStates) = 2
  BY DEF StatesListed
<1> DEFINE a == owStates[1]
           b == owStates[2]
<1>2. a \in ProviderStates /\ b \in ProviderStates
  BY <1>1, ElementOfSeq
<1>3. \A v, w \in ProviderStates : StatesListed(<<v, w>>)
  BY DEF StatesListed
<1>4. \A v \in ProviderStates : \A l \in Seq(ClaimedResources) : [v EXCEPT !.resources = l] \in ProviderStates
  BY DEF ProviderStates
<1>5. \A l \in Seq(ClaimedResources) : Reverse(l) \in Seq(ClaimedResources)
  <2> TAKE l \in Seq(ClaimedResources)
  <2>1. Len(l) \in Nat /\ \A i \in 1 .. Len(l) : (Len(l) - i) + 1 \in 1 .. Len(l)
    BY LenProperties
  <2>2. \A i \in 1 .. Len(l) : l[(Len(l) - i) + 1] \in ClaimedResources
    BY <2>1, ElementOfSeq
  <2>3. Reverse(l) \in [1 .. Len(l) -> ClaimedResources]
    BY <2>2 DEF Reverse
  <2>4. QED
    BY <2>1, <2>3, SeqDef
<1>6. a.resources \in Seq(ClaimedResources) /\ b.resources \in Seq(ClaimedResources)
  BY <1>2 DEF ProviderStates
<1>k. 1 \in 1 .. Len(owStates) /\ 2 \in 1 .. Len(owStates)
  BY <1>1
<1>7. \A v \in ProviderStates : /\ [owStates EXCEPT ![1] = v] \in Seq(ProviderStates) /\ Len([owStates EXCEPT ![1] = v]) = 2
                                /\ [owStates EXCEPT ![2] = v] \in Seq(ProviderStates) /\ Len([owStates EXCEPT ![2] = v]) = 2
  <2> TAKE v \in ProviderStates
  <2> HIDE DEF a, b
  <2>1. owStates \in Seq(ProviderStates) /\ Len(owStates) = 2
    BY <1>1
  <2>2. owStates \in [1 .. 2 -> ProviderStates]
    <3>1. owStates \in [1 .. Len(owStates) -> ProviderStates]
      <4> HIDE DEF ProviderStates
      <4>1. QED
        BY <2>1, LenProperties
    <3>2. QED
      BY <2>1, <3>1
  <2>3. /\ [owStates EXCEPT ![1] = v] \in [1 .. 2 -> ProviderStates]
        /\ [owStates EXCEPT ![2] = v] \in [1 .. 2 -> ProviderStates]
    BY <2>2
  <2>4. /\ [owStates EXCEPT ![1] = v] \in Seq(ProviderStates)
        /\ [owStates EXCEPT ![2] = v] \in Seq(ProviderStates)
    BY <2>3, TwoListed
  <2>5. QED
    BY <2>3, <2>4
<1>8. CASE states = owStates
  BY <1>8
<1>9. CASE states = Reverse(owStates)
  <2>1. Reverse(owStates) = [i \in 1 .. 2 |-> owStates[(2 - i) + 1]]
    BY <1>1 DEF Reverse
  <2>2. \A i \in 1 .. 2 : (2 - i) + 1 \in 1 .. 2
    OBVIOUS
  <2>3. \A i \in 1 .. 2 : owStates[(2 - i) + 1] \in ProviderStates
    BY <1>1, <2>2, ElementOfSeq
  <2>4. Reverse(owStates) \in [1 .. 2 -> ProviderStates]
    BY <2>1, <2>3
  <2>5. Reverse(owStates) \in Seq(ProviderStates)
    BY <2>4, SeqDef
  <2>6. Len(Reverse(owStates)) = 2
    BY <2>4, <2>5, LenProperties
  <2>7. QED
    BY <1>9, <2>5, <2>6 DEF StatesListed
<1>10. CASE states = <<a, a>>
  BY <1>2, <1>3, <1>10
<1>11. CASE states = [owStates EXCEPT ![2].resources = <<>>]
  <2> DEFINE v == [b EXCEPT !.resources = <<>>]
  <2>1. states = [owStates EXCEPT ![2] = v]
    BY <1>11
  <2>2. v \in ProviderStates
    BY <1>2, <1>4, EmptySeq
  <2> HIDE DEF v
  <2>3. QED
    BY <1>7, <2>1, <2>2 DEF StatesListed
<1>12. CASE states = [owStates EXCEPT ![1].resources = Reverse(@), ![2].resources = Reverse(@)]
  <2> DEFINE v == [a EXCEPT !.resources = Reverse(a.resources)]
             w == [b EXCEPT !.resources = Reverse(b.resources)]
  <2>1. v \in ProviderStates /\ w \in ProviderStates
    BY <1>2, <1>4, <1>5, <1>6
  <2>2. DOMAIN owStates = 1 .. 2
    BY <1>1, LenProperties
  <2>3. DOMAIN states = 1 .. 2 /\ states[1] = v /\ states[2] = w
    BY <1>12, <2>2
  <2>4. states = [i \in 1 .. 2 |-> states[i]]
    BY <1>12, <2>2
  <2> HIDE DEF v, w
  <2>5. states \in [1 .. 2 -> ProviderStates]
    BY <2>1, <2>3, <2>4
  <2>6. states \in Seq(ProviderStates)
    BY <2>5, TwoListed
  <2>7. Len(states) = 2
    BY <2>5, <2>6, LenProperties
  <2>8. QED
    BY <2>6, <2>7 DEF StatesListed
<1>13. QED
  BY <1>8, <1>9, <1>10, <1>11, <1>12 DEF Rematerialised

\* Accepted states are of two providers.
LEMMA AcceptedDiffer ==
  ASSUME NEW states, StatesListed(states), StatesAccepted(states)
  PROVE  states[1].provider # states[2].provider
<1> DEFINE g == [s \in DOMAIN states |-> states[s].provider]
<1>1. DOMAIN states = {1, 2}
  BY ClaimsOfTwo
<1>2. DOMAIN g = {1, 2} /\ g[1] = states[1].provider /\ g[2] = states[2].provider
  BY <1>1
<1>3. IsInjective(g)
  BY DEF StatesAccepted
<1> HIDE DEF g
<1>4. g[1] # g[2]
  BY <1>2, <1>3 DEF IsInjective
<1>5. QED
  BY <1>2, <1>4

\* A plan is built from claims that are valid.
LEMMA PlanBuilt == ASSUME OwnershipInv, NEW authority \in BOOLEAN, NEW loads \in BOOLEAN, BuildProviderPlan(authority, loads) PROVE OwnershipInv'
<1> DEFINE claims == Claims(owStates)
<1>1. owStage = "materialised" /\ owRegistered = {} /\ StatesListed(owStates) /\ owCase \in BOOLEAN /\ UNCHANGED <<owStates, owCase, owRegistered>>
  BY DEF BuildProviderPlan, OwnershipInv
<1>2. CASE owStage' = "refused" /\ owApproved' = owApproved
  BY <1>1, <1>2 DEF OwnershipInv, ProtectedPlacesKept, ProvidersKeepApart, AppliedAsApproved
<1>3. CASE /\ StatesAccepted(owStates) /\ OwnershipValid(owCase, claims) /\ owStage' = "planned"
           /\ owApproved' = [claims |-> Range(claims), bindings |-> Bindings(owCase, owStates), case |-> owCase]
  <2>1. claims \in Seq(ClaimRecords)
    BY <1>1, ClaimsOfTwo
  <2>2. PlacesSpared(owCase, Range(claims)) /\ KeptApart(owCase, Range(claims))
    BY <1>1, <1>3, <2>1, ValidSpares, ValidKeepsApart
  <2>3. owApproved'.claims = Range(claims) /\ owApproved'.case = owCase /\ owApproved'.bindings = Bindings(owCase, owStates)
    BY <1>3
  <2>4. owStates[1].provider # owStates[2].provider
    BY <1>1, <1>3, AcceptedDiffer
  <2>5. Bindings(owCase, owStates) = <<DigestsOf(Range(claims)), Range(claims), owCase>>
    BY <1>1, <2>4, DigestsFollow DEF Bindings
  <2> HIDE DEF claims
  <2>6. ProtectedPlacesKept' /\ ProvidersKeepApart'
    BY <2>2, <2>3 DEF PlacesSpared, KeptApart, ProtectedPlacesKept, ProvidersKeepApart
  <2>7. owApproved'.bindings = <<DigestsOf(owApproved'.claims), owApproved'.claims, owApproved'.case>>
    BY <2>3, <2>5
  <2>8. AppliedAsApproved'
    BY <1>1, <1>3 DEF AppliedAsApproved
  <2>9. QED
    BY <1>1, <1>3, <2>6, <2>7, <2>8 DEF OwnershipInv
<1>4. QED
  BY <1>2, <1>3 DEF BuildProviderPlan

\* An apply goes on with the claims that were approved, or is stale for a reason.
LEMMA AuthorityChecked == ASSUME OwnershipInv, NEW authority \in BOOLEAN, CheckAuthority(authority) PROVE OwnershipInv'
<1>1. /\ owStage = "approved" /\ StatesListed(owStates) /\ UNCHANGED <<owStates, owCase, owApproved, owRegistered>>
      /\ owApproved.bindings = <<DigestsOf(owApproved.claims), owApproved.claims, owApproved.case>>
      /\ owRegistered \subseteq owApproved.claims
  BY DEF CheckAuthority, OwnershipInv, AppliedAsApproved
<1>2. CASE owStage' = "applying" /\ Bindings(owCase, owStates) = owApproved.bindings
  <2>1. Range(Claims(owStates)) = owApproved.claims /\ owCase = owApproved.case
    BY <1>1, <1>2 DEF Bindings
  <2>2. QED
    BY <1>1, <1>2, <2>1 DEF OwnershipInv, ProtectedPlacesKept, ProvidersKeepApart, AppliedAsApproved
<1>3. CASE /\ owStage' = "stale"
           /\ ~(/\ StatesAccepted(owStates) /\ OwnershipValid(owCase, Claims(owStates))
                /\ Packages(owStates) # {} => authority
                /\ Bindings(owCase, owStates) = owApproved.bindings)
  <2> SUFFICES ASSUME Range(Claims(owStates)) = owApproved.claims, owCase = owApproved.case, StatesAccepted(owStates),
                      OwnershipValid(owCase, Claims(owStates)), Packages(owStates) = {}
               PROVE  FALSE
    BY <1>1, <1>3 DEF OwnershipInv, ProtectedPlacesKept, ProvidersKeepApart, AppliedAsApproved
  <2>1. owStates[1].provider # owStates[2].provider
    BY <1>1, AcceptedDiffer
  <2>2. Bindings(owCase, owStates) = <<DigestsOf(Range(Claims(owStates))), Range(Claims(owStates)), owCase>>
    BY <1>1, <2>1, DigestsFollow DEF Bindings
  <2>3. QED
    BY <1>1, <1>3, <2>2
<1>4. QED
  BY <1>2, <1>3 DEF CheckAuthority

\* Every step keeps the approved claims in their places and their providers apart.
LEMMA OwnershipStep == ASSUME OwnershipInv, [ProviderPlanNext]_owVars PROVE OwnershipInv'
<1>1. CASE UNCHANGED owVars
  BY <1>1 DEF owVars, OwnershipInv, ProtectedPlacesKept, ProvidersKeepApart, AppliedAsApproved
<1>2. ASSUME NEW first \in ProviderClaims, NEW second \in ProviderClaims, NEW u \in BOOLEAN, NEW case \in BOOLEAN,
             Materialised(MaterialisedStates(first, second, u), case)
      PROVE  OwnershipInv'
  <2>1. StatesListed(owStates') /\ owCase' \in BOOLEAN /\ owStage = "idle" /\ owStage' = "materialised" /\ UNCHANGED <<owApproved, owRegistered>>
    BY <1>2, MaterialisedListed DEF Materialised
  <2>2. QED
    BY <2>1 DEF OwnershipInv, ProtectedPlacesKept, ProvidersKeepApart, AppliedAsApproved
<1>3. ASSUME NEW c \in {{}, owApproved.claims}, RegisterOperations(c) PROVE OwnershipInv'
  <2>1. /\ owStage = "planned" /\ owStage' = "registered" /\ owRegistered' \subseteq owApproved.claims
        /\ UNCHANGED <<owStates, owCase, owApproved>>
    BY <1>3 DEF RegisterOperations
  <2>2. QED
    BY <2>1 DEF OwnershipInv, ProtectedPlacesKept, ProvidersKeepApart, AppliedAsApproved
<1>4. ASSUME owStage = "registered", NEW s \in Rematerialised, NEW case \in BOOLEAN, MaterialiseAgain(s, case) PROVE OwnershipInv'
  <2>1. StatesListed(owStates)
    BY <1>4 DEF OwnershipInv
  <2>2. StatesListed(owStates') /\ owCase' \in BOOLEAN /\ owStage' = "approved" /\ UNCHANGED <<owApproved, owRegistered>>
    BY <1>4, <2>1, RematerialisedListed DEF MaterialiseAgain
  <2>3. QED
    BY <1>4, <2>2 DEF OwnershipInv, ProtectedPlacesKept, ProvidersKeepApart, AppliedAsApproved
<1>5. QED
  BY <1>1, <1>2, <1>3, <1>4, PlanBuilt, AuthorityChecked DEF ProviderPlanNext

-----------------------------------------------------------------------------
(* Plans: a plan is a function of the set of its operations.                *)

\* What a list holds before a place.
ListedBefore(q, i) == {q[k] : k \in 1 .. (i - 1)}

\* Each operation of a list comes behind what it depends on, and was the least that could come next.
EmittedRight(q, ops) ==
  /\ IsInjective(q)
  /\ \A i \in DOMAIN q :
       /\ pbDepends[q[i]] \subseteq ListedBefore(q, i)
       /\ \A y \in ops \ ListedBefore(q, i) : pbDepends[y] \subseteq ListedBefore(q, i) => OperationOrder(q[i], y)

\* No operation that is rolled back exactly depends on forward-only work.
CleanOf(ops) == \A o \in ops : pbCapability[o] = "exact" => \A d \in Reaches(o) : pbCapability[d] # "forward"

PlanningTypes ==
  /\ pbCapability \in [OperationIds -> {"exact", "forward"}]
  /\ pbDepends \in [OperationIds -> SUBSET OperationIds]
  /\ pbDraft \in Seq(OperationIds) /\ pbOrdered \in Seq(OperationIds)
  /\ pbBuilt \in Seq(OperationIds) /\ pbStored \in Seq(OperationIds)
  /\ pbStage \in {"idle", "drafted", "refused", "ordering", "planned", "accepted", "rejected"}

\* What the loop has emitted and what it has left are the operations that were drafted.
LoopStands ==
  /\ pbStage = "idle" => pbBuilt = <<>> /\ pbStored = <<>> /\ pbOrdered = <<>>
  /\ pbStage = "drafted" => pbOrdered = <<>>
  /\ pbStage = "planned" => pbStored = <<>>
  /\ pbStage = "ordering" =>
       /\ IsInjective(pbDraft) /\ Range(pbDraft) \cap Range(pbOrdered) = {}
       /\ EmittedRight(pbOrdered, Range(pbDraft) \cup Range(pbOrdered))
       /\ CleanOf(Range(pbDraft) \cup Range(pbOrdered))

\* The plan that was built, and what has been emitted again of it.
BuiltStands ==
  EmittedRight(pbBuilt, Range(pbBuilt)) /\ CleanOf(Range(pbBuilt)) /\ Range(pbBuilt) \subseteq pbGenuine
Follow(q, p) == \A i \in DOMAIN q : i \in DOMAIN p /\ q[i] = p[i]
RebuildStands ==
  pbStored # <<>> =>
    /\ pbStage \in {"drafted", "ordering", "accepted", "rejected"}
    /\ pbStage = "drafted" => IsInjective(pbDraft) /\ Range(pbDraft) = Range(pbBuilt)
    /\ pbStage = "ordering" => Range(pbDraft) \cup Range(pbOrdered) = Range(pbBuilt) /\ Follow(pbOrdered, pbBuilt)

PlanningInv == PlanningTypes /\ LoopStands /\ BuiltStands /\ RebuildStands /\ StoredPlanJudged

\* What an operation depends on is found by the search.
LEMMA ReachesDepends == ASSUME PlanningTypes, NEW o \in OperationIds PROVE pbDepends[o] \subseteq Reaches(o)
<1> DEFINE n == Cardinality(OperationIds)
           Next(s) == s \cup UNION {pbDepends[d] : d \in s}
           F(f, m) == f = [k \in 0 .. m |-> IF k = 0 THEN pbDepends[o] ELSE Next(f[k - 1])]
           T == {m \in Nat : \E f : F(f, m)}
           f == CHOOSE f : F(f, n)
<1>1. n \in Nat
  BY OperationsOrdered, FS_CardinalityType
<1>2. 0 \in T
  <2>1. F([k \in 0 .. 0 |-> pbDepends[o]], 0)
    OBVIOUS
  <2>2. QED
    BY <2>1
<1>3. ASSUME NEW m \in 0 .. (n - 1), m \in T PROVE m + 1 \in T
  <2>1. PICK g : F(g, m)
    BY <1>3
  <2> DEFINE h == [k \in 0 .. (m + 1) |-> IF k = m + 1 THEN Next(g[m]) ELSE g[k]]
  <2>2. m \in Nat /\ \A k \in 0 .. m : h[k] = g[k]
    BY <1>1
  <2>3. \A k \in 0 .. m : g[k] = IF k = 0 THEN pbDepends[o] ELSE Next(g[k - 1])
    <3> HIDE DEF Next
    <3>1. QED
      BY <2>1
  <2>4. \A k \in 0 .. (m + 1) : h[k] = IF k = 0 THEN pbDepends[o] ELSE Next(h[k - 1])
    <3> TAKE k \in 0 .. (m + 1)
    <3>1. CASE k = m + 1
      <4>1. h[k] = Next(g[m]) /\ k - 1 = m /\ m \in 0 .. m /\ k # 0
        BY <2>2, <3>1
      <4> HIDE DEF Next, h
      <4>2. QED
        BY <2>2, <4>1
    <3>2. CASE k \in 0 .. m
      <4>1. k # 0 => k - 1 \in 0 .. m
        BY <2>2, <3>2
      <4> HIDE DEF Next, h
      <4>2. QED
        BY <2>2, <2>3, <3>2, <4>1
    <3>3. QED
      BY <2>2, <3>1, <3>2
  <2>5. h = [k \in 0 .. (m + 1) |-> h[k]]
    OBVIOUS
  <2>6. F(h, m + 1)
    <3> HIDE DEF Next, h
    <3>1. QED
      BY <2>4, <2>5
  <2> HIDE DEF h, F
  <2>7. QED
    BY <2>2, <2>6
<1>4. n \in T
  <2> HIDE DEF T
  <2>1. 0 .. n \subseteq T
    BY <1>1, <1>2, <1>3, AllBelow
  <2>2. QED
    BY <1>1, <2>1
<1>5. F(f, n)
  <2> HIDE DEF F
  <2>1. QED
    BY <1>4
<1>6. Reaches(o) = f[n]
  BY DEF Reaches
<1>7. \A k \in 0 .. n : f[k] = IF k = 0 THEN pbDepends[o] ELSE Next(f[k - 1])
  <2> HIDE DEF f, Next
  <2>1. QED
    BY <1>5
<1> DEFINE U == {k \in 0 .. n : pbDepends[o] \subseteq f[k]}
<1> HIDE DEF f, F, n, T
<1>8. 0 \in U
  <2>1. 0 \in 0 .. n
    BY <1>1
  <2>2. f[0] = pbDepends[o]
    <3> HIDE DEF Next
    <3>1. QED
      BY <1>7, <2>1
  <2>3. QED
    BY <2>1, <2>2
<1>9. ASSUME NEW k \in 0 .. (n - 1), k \in U PROVE k + 1 \in U
  <2>1. k + 1 \in 0 .. n /\ k + 1 # 0 /\ (k + 1) - 1 = k
    BY <1>1
  <2>2. f[k + 1] = Next(f[k])
    <3> HIDE DEF Next
    <3>1. QED
      BY <1>7, <2>1
  <2>3. f[k] \subseteq f[k + 1]
    BY <2>2
  <2>4. QED
    BY <1>9, <2>1, <2>3
<1>10. 0 .. n \subseteq U
  <2> HIDE DEF U
  <2>1. QED
    BY <1>1, <1>8, <1>9, AllBelow
<1>11. QED
  BY <1>1, <1>6, <1>10

\* A list without one of its members.
LEMMA WithoutOne ==
  ASSUME NEW S, NEW q \in Seq(S), IsInjective(q), NEW i \in DOMAIN q
  PROVE  RemoveAt(q, i) \in Seq(S) /\ IsInjective(RemoveAt(q, i)) /\ Range(RemoveAt(q, i)) = Range(q) \ {q[i]}
<1> DEFINE n == Len(q)
           a == SubSeq(q, 1, i - 1)
           b == SubSeq(q, i + 1, n)
           r == RemoveAt(q, i)
<1>1. DOMAIN q = 1 .. n /\ n \in Nat /\ i \in 1 .. n /\ \A j \in 1 .. n : q[j] \in S
  BY LenProperties, ElementOfSeq
<1>2. a \in Seq(S) /\ Len(a) = i - 1 /\ \A j \in 1 .. (i - 1) : a[j] = q[j]
  <2>1. \A j \in 1 .. (i - 1) : q[j] \in S
    BY <1>1
  <2>2. QED
    BY <1>1, <2>1
<1>3. b \in Seq(S) /\ Len(b) = n - i /\ \A j \in 1 .. (n - i) : b[j] = q[i + j]
  <2>1. \A j \in (i + 1) .. n : q[j] \in S
    BY <1>1
  <2>2. QED
    BY <1>1, <2>1
<1>4. r = a \o b
  BY DEF RemoveAt
<1> HIDE DEF a, b, r
<1>5. r \in Seq(S) /\ Len(r) = n - 1 /\ \A j \in 1 .. (n - 1) : r[j] = IF j <= i - 1 THEN a[j] ELSE b[j - (i - 1)]
  <2> HIDE DEF n
  <2>1. Len(a) + Len(b) = n - 1 /\ Len(a) = i - 1
    BY <1>1, <1>2, <1>3
  <2>2. r \in Seq(S) /\ Len(r) = Len(a) + Len(b)
        /\ \A j \in 1 .. (Len(a) + Len(b)) : r[j] = IF j <= Len(a) THEN a[j] ELSE b[j - Len(a)]
    BY <1>2, <1>3, <1>4, ConcatProperties
  <2>3. QED
    BY <2>1, <2>2
<1>i. i \in Int /\ n \in Nat
  BY <1>1
<1> HIDE DEF n
<1>6. \A j \in 1 .. (n - 1) : r[j] = IF j < i THEN q[j] ELSE q[j + 1]
  <2> TAKE j \in 1 .. (n - 1)
  <2>1. CASE j < i
    <3>1. j \in 1 .. (i - 1) /\ j <= i - 1
      BY <1>i, <2>1
    <3>2. QED
      BY <1>2, <1>5, <2>1, <3>1
  <2>2. CASE j >= i
    <3>1. j - (i - 1) \in 1 .. (n - i) /\ i + (j - (i - 1)) = j + 1 /\ ~(j <= i - 1)
      BY <1>1, <2>2
    <3>2. QED
      <4>1. r[j] = b[j - (i - 1)] /\ b[j - (i - 1)] = q[i + (j - (i - 1))]
        BY <1>3, <1>5, <3>1
      <4>2. ~(j < i)
        BY <1>i, <2>2
      <4>3. QED
        BY <3>1, <4>1, <4>2
  <2>3. QED
    BY <1>i, <2>1, <2>2
<1>7. DOMAIN r = 1 .. (n - 1)
  BY <1>5, LenProperties
<1>8. IsInjective(r)
  <2> SUFFICES ASSUME NEW j \in 1 .. (n - 1), NEW k \in 1 .. (n - 1), r[j] = r[k] PROVE j = k
    BY <1>7 DEF IsInjective
  <2> DEFINE u == IF j < i THEN j ELSE j + 1
             v == IF k < i THEN k ELSE k + 1
  <2>1. u \in 1 .. n /\ v \in 1 .. n
    BY <1>1
  <2>2. q[u] = q[v]
    BY <1>6
  <2>3. u = v
    BY <1>1, <2>1, <2>2 DEF IsInjective
  <2>4. QED
    BY <1>1, <2>3
<1>9. \A x \in Range(r) : x \in Range(q) /\ x # q[i]
  <2> SUFFICES ASSUME NEW j \in 1 .. (n - 1) PROVE r[j] \in Range(q) /\ r[j] # q[i]
    BY <1>7 DEF Range
  <2> DEFINE u == IF j < i THEN j ELSE j + 1
  <2>1. u \in 1 .. n /\ u # i /\ r[j] = q[u]
    BY <1>1, <1>6
  <2> HIDE DEF u
  <2>2. QED
    BY <1>1, <2>1 DEF IsInjective, Range
<1>10. \A x \in Range(q) : x # q[i] => x \in Range(r)
  <2> SUFFICES ASSUME NEW u \in 1 .. n, u # i PROVE q[u] \in Range(r)
    BY <1>1 DEF Range
  <2> DEFINE j == IF u < i THEN u ELSE u - 1
  <2>1. j \in 1 .. (n - 1) /\ u = (IF j < i THEN j ELSE j + 1)
    BY <1>1
  <2>2. r[j] = q[u]
    BY <1>6, <2>1
  <2> HIDE DEF j
  <2>3. QED
    BY <1>7, <2>1, <2>2 DEF Range
<1>11. Range(r) = Range(q) \ {q[i]}
  BY <1>9, <1>10
<1>12. QED
  BY <1>5, <1>8, <1>11 DEF r

\* Among some operations one comes before all others.
LEMMA LeastOperation ==
  ASSUME PlanningTypes, NEW ops, ops \subseteq OperationIds, ops # {}
  PROVE  \E o \in ops : \A p \in ops : OperationOrder(o, p)
<1>1. ops \subseteq Nat /\ \A o \in ops : pbCapability[o] \in {"exact", "forward"}
  BY OperationsOrdered DEF PlanningTypes
<1> DEFINE E == {o \in ops : pbCapability[o] = "exact"}
<1>2. CASE E # {}
  <2>1. PICK o \in E : \A p \in E : o <= p
    BY <1>1, <1>2, LeastMember
  <2>2. QED
    BY <1>1, <2>1 DEF OperationOrder
<1>3. CASE E = {}
  <2>1. PICK o \in ops : \A p \in ops : o <= p
    BY <1>1, LeastMember
  <2>2. QED
    BY <1>1, <1>3, <2>1 DEF OperationOrder
<1>4. QED
  BY <1>2, <1>3

\* Two operations that come before each other are one.
LEMMA OrderDecides ==
  ASSUME PlanningTypes, NEW o \in OperationIds, NEW p \in OperationIds, OperationOrder(o, p), OperationOrder(p, o)
  PROVE  o = p
<1>1. o \in Nat /\ p \in Nat
  BY OperationsOrdered
<1>2. CASE pbCapability[o] = pbCapability[p]
  BY <1>1, <1>2 DEF OperationOrder
<1>3. CASE pbCapability[o] # pbCapability[p]
  BY <1>3 DEF OperationOrder
<1>4. QED
  BY <1>2, <1>3

\* The least of what may come next is put behind what was emitted.
LEMMA RightGrows ==
  ASSUME PlanningTypes, NEW q \in Seq(OperationIds), NEW ops, EmittedRight(q, ops), NEW x \in OperationIds,
         x \notin Range(q), pbDepends[x] \subseteq Range(q),
         \A y \in ops \ Range(q) : pbDepends[y] \subseteq Range(q) => OperationOrder(x, y)
  PROVE  EmittedRight(Append(q, x), ops)
<1> DEFINE r == Append(q, x)
           n == Len(q)
<1>1. /\ n \in Nat /\ DOMAIN q = 1 .. n /\ DOMAIN r = 1 .. (n + 1) /\ r[n + 1] = x /\ \A i \in 1 .. n : r[i] = q[i]
  BY LenProperties
<1>2. \A i \in 1 .. n : ListedBefore(r, i) = ListedBefore(q, i)
  <2> SUFFICES ASSUME NEW i \in 1 .. n PROVE \A k \in 1 .. (i - 1) : r[k] = q[k]
    BY DEF ListedBefore
  <2>1. \A k \in 1 .. (i - 1) : k \in 1 .. n
    BY <1>1
  <2>2. QED
    BY <1>1, <2>1
<1>3. ListedBefore(r, n + 1) = Range(q)
  <2>1. (n + 1) - 1 = n
    BY <1>1
  <2>2. ListedBefore(r, n + 1) = {r[k] : k \in 1 .. n}
    BY <2>1 DEF ListedBefore
  <2>3. QED
    BY <1>1, <2>2 DEF Range
<1> HIDE DEF r, n
<1>4. IsInjective(r)
  <2> SUFFICES ASSUME NEW a \in 1 .. (n + 1), NEW b \in 1 .. (n + 1), r[a] = r[b] PROVE a = b
    BY <1>1 DEF IsInjective
  <2>1. CASE a \in 1 .. n /\ b \in 1 .. n
    BY <1>1, <2>1 DEF EmittedRight, IsInjective
  <2>2. CASE a = n + 1 /\ b \in 1 .. n
    BY <1>1, <2>2 DEF Range
  <2>3. CASE b = n + 1 /\ a \in 1 .. n
    BY <1>1, <2>3 DEF Range
  <2>4. (a \in 1 .. n \/ a = n + 1) /\ (b \in 1 .. n \/ b = n + 1)
    BY <1>1
  <2>5. QED
    BY <2>1, <2>2, <2>3, <2>4
<1>5. ASSUME NEW i \in 1 .. (n + 1)
      PROVE  /\ pbDepends[r[i]] \subseteq ListedBefore(r, i)
             /\ \A y \in ops \ ListedBefore(r, i) : pbDepends[y] \subseteq ListedBefore(r, i) => OperationOrder(r[i], y)
  <2>1. CASE i \in 1 .. n
    <3>1. /\ pbDepends[q[i]] \subseteq ListedBefore(q, i)
          /\ \A y \in ops \ ListedBefore(q, i) : pbDepends[y] \subseteq ListedBefore(q, i) => OperationOrder(q[i], y)
      BY <1>1, <2>1 DEF EmittedRight
    <3>2. r[i] = q[i] /\ ListedBefore(r, i) = ListedBefore(q, i)
      BY <1>1, <1>2, <2>1
    <3>3. QED
      BY <3>1, <3>2
  <2>2. CASE i = n + 1
    <3>1. r[i] = x /\ ListedBefore(r, i) = Range(q)
      BY <1>1, <1>3, <2>2
    <3>2. QED
      BY <3>1
  <2>3. QED
    BY <1>1, <2>1, <2>2
<1>6. EmittedRight(r, ops)
  BY <1>1, <1>4, <1>5 DEF EmittedRight
<1>7. QED
  BY <1>6 DEF r

\* Nothing is planned at first.
LEMMA PlanningStart == ASSUME PlanBuildingInit PROVE PlanningInv
<1>1. <<>> \in Seq(OperationIds) /\ DOMAIN <<>> = {} /\ Range(<<>>) = {}
  BY DEF Range
<1>2. PlanningTypes
  BY <1>1 DEF PlanBuildingInit, PlanningTypes, NoOperations
<1>3. EmittedRight(<<>>, {}) /\ CleanOf({})
  BY <1>1 DEF EmittedRight, IsInjective, CleanOf
<1>4. QED
  BY <1>1, <1>2, <1>3 DEF PlanBuildingInit, PlanningInv, LoopStands, BuiltStands, RebuildStands, StoredPlanJudged, NoOperations

\* A step that leaves the operations and the plan alone leaves what holds of the plan.
LEMMA BuiltStays == ASSUME BuiltStands, UNCHANGED <<operationVars, pbBuilt>> PROVE BuiltStands'
BY DEF BuiltStands, operationVars, EmittedRight, CleanOf, Reaches, OperationOrder

\* What the loop has emitted stands while the operations stay.
LEMMA LoopMoves ==
  ASSUME UNCHANGED operationVars,
         EmittedRight(pbOrdered', Range(pbDraft') \cup Range(pbOrdered')), CleanOf(Range(pbDraft') \cup Range(pbOrdered'))
  PROVE  EmittedRight(pbOrdered, Range(pbDraft) \cup Range(pbOrdered))' /\ CleanOf(Range(pbDraft) \cup Range(pbOrdered))'
<1>1. EmittedRight(pbOrdered, Range(pbDraft) \cup Range(pbOrdered))'
  BY DEF EmittedRight, OperationOrder, operationVars
<1>2. CleanOf(Range(pbDraft) \cup Range(pbOrdered))'
  BY DEF CleanOf, Reaches, operationVars
<1>3. QED
  BY <1>1, <1>2

\* A built plan holds what its operations depend on.
LEMMA BuiltHolds ==
  ASSUME PlanningTypes, BuiltStands
  PROVE  \A o \in Range(pbBuilt) : pbDepends[o] \subseteq Range(pbBuilt)
<1>1. DOMAIN pbBuilt = 1 .. Len(pbBuilt) /\ Len(pbBuilt) \in Nat
  BY LenProperties DEF PlanningTypes
<1> SUFFICES ASSUME NEW i \in 1 .. Len(pbBuilt) PROVE pbDepends[pbBuilt[i]] \subseteq Range(pbBuilt)
  BY <1>1 DEF Range
<1>2. pbDepends[pbBuilt[i]] \subseteq ListedBefore(pbBuilt, i)
  BY <1>1 DEF BuiltStands, EmittedRight
<1>3. \A k \in 1 .. (i - 1) : k \in DOMAIN pbBuilt
  BY <1>1
<1>4. ListedBefore(pbBuilt, i) \subseteq Range(pbBuilt)
  BY <1>3 DEF ListedBefore, Range
<1>5. QED
  BY <1>2, <1>4

\* The draft is checked; one that is built again passes.
LEMMA DraftChecked == ASSUME PlanningInv, CheckDraft PROVE PlanningInv'
<1>1. /\ pbStage = "drafted" /\ pbStage' \in {"refused", "ordering"} /\ pbOrdered = <<>>
      /\ UNCHANGED operationVars /\ UNCHANGED <<pbDraft, pbOrdered, pbBuilt, pbStored>>
  BY DEF CheckDraft, PlanningInv, LoopStands
<1>2. PlanningTypes'
  BY <1>1 DEF PlanningInv, PlanningTypes, operationVars
<1>3. BuiltStands'
  BY <1>1, BuiltStays DEF PlanningInv
<1>4. CASE pbStage' = "ordering"
  <2>1. ~DuplicateOperation(pbDraft) /\ ~ExactDependsOnForwardOnly(pbDraft)
    BY <1>4 DEF CheckDraft
  <2>2. IsInjective(pbDraft)
    BY <2>1 DEF DuplicateOperation
  <2>3. Range(pbOrdered) = {} /\ DOMAIN pbOrdered = {}
    BY <1>1 DEF Range
  <2>4. EmittedRight(pbOrdered', Range(pbDraft') \cup Range(pbOrdered'))
    BY <1>1, <2>3 DEF EmittedRight, IsInjective
  <2>5. CleanOf(Range(pbDraft))
    BY <2>1 DEF ExactDependsOnForwardOnly, CleanOf, Range
  <2>6. CleanOf(Range(pbDraft') \cup Range(pbOrdered'))
    BY <1>1, <2>3, <2>5
  <2>7. EmittedRight(pbOrdered, Range(pbDraft) \cup Range(pbOrdered))' /\ CleanOf(Range(pbDraft) \cup Range(pbOrdered))'
    BY <1>1, <2>4, <2>6, LoopMoves
  <2>8. LoopStands'
    BY <1>1, <1>4, <2>2, <2>3, <2>7 DEF LoopStands
  <2>9. RebuildStands'
    BY <1>1, <1>4, <2>3 DEF PlanningInv, RebuildStands, Follow
  <2>10. StoredPlanJudged'
    BY <1>4 DEF StoredPlanJudged
  <2>11. QED
    BY <1>2, <1>3, <2>8, <2>9, <2>10 DEF PlanningInv
<1>5. CASE pbStage' = "refused"
  <2>1. DuplicateOperation(pbDraft) \/ MissingDependency(pbDraft) \/ ExactDependsOnForwardOnly(pbDraft)
    BY <1>5 DEF CheckDraft
  <2>2. pbStored = <<>>
    <3> SUFFICES ASSUME pbStored # <<>> PROVE FALSE
      OBVIOUS
    <3>1. IsInjective(pbDraft) /\ Range(pbDraft) = Range(pbBuilt)
      BY <1>1 DEF PlanningInv, RebuildStands
    <3>2. ~DuplicateOperation(pbDraft)
      BY <3>1 DEF DuplicateOperation
    <3>3. ~MissingDependency(pbDraft)
      BY <3>1, BuiltHolds DEF PlanningInv, MissingDependency, Range
    <3>4. CleanOf(Range(pbDraft))
      BY <3>1 DEF PlanningInv, BuiltStands
    <3>5. ~ExactDependsOnForwardOnly(pbDraft)
      BY <3>4 DEF ExactDependsOnForwardOnly, CleanOf, Range
    <3>6. QED
      BY <2>1, <3>2, <3>3, <3>5
  <2>3. pbStored' = <<>>
    BY <1>1, <2>2
  <2>4. LoopStands' /\ RebuildStands' /\ StoredPlanJudged'
    BY <1>5, <2>3 DEF LoopStands, RebuildStands, StoredPlanJudged, NoOperations
  <2>5. QED
    BY <1>2, <1>3, <2>4 DEF PlanningInv
<1>6. QED
  BY <1>1, <1>4, <1>5

\* What is emitted again of a plan is its beginning: the next operation is there and can be taken.
LEMMA NextOfBuilt ==
  ASSUME PlanningInv, pbStage = "ordering", pbStored # <<>>, pbDraft # <<>>
  PROVE  /\ Len(pbOrdered) + 1 \in DOMAIN pbBuilt /\ ListedBefore(pbBuilt, Len(pbOrdered) + 1) = Range(pbOrdered)
         /\ pbBuilt[Len(pbOrdered) + 1] \in Range(pbDraft)
         /\ pbDepends[pbBuilt[Len(pbOrdered) + 1]] \subseteq Range(pbOrdered)
<1> DEFINE n == Len(pbOrdered)
           m == Len(pbBuilt)
<1>1. DOMAIN pbOrdered = 1 .. n /\ n \in Nat /\ DOMAIN pbBuilt = 1 .. m /\ m \in Nat /\ DOMAIN pbDraft = 1 .. Len(pbDraft)
  BY LenProperties DEF PlanningInv, PlanningTypes
<1>2. Range(pbDraft) \cup Range(pbOrdered) = Range(pbBuilt) /\ Follow(pbOrdered, pbBuilt) /\ Range(pbDraft) \cap Range(pbOrdered) = {}
  BY DEF PlanningInv, RebuildStands, LoopStands
<1>3. \A i \in 1 .. n : i \in 1 .. m /\ pbOrdered[i] = pbBuilt[i]
  BY <1>1, <1>2 DEF Follow
<1>4. pbDraft[1] \in Range(pbDraft)
  <2>1. Len(pbDraft) \in Nat \ {0}
    BY EmptySeq DEF PlanningInv, PlanningTypes
  <2>2. 1 \in DOMAIN pbDraft
    BY <1>1, <2>1
  <2>3. QED
    BY <2>2 DEF Range
<1>5. PICK k \in 1 .. m : pbBuilt[k] = pbDraft[1]
  BY <1>1, <1>2, <1>4 DEF Range
<1>6. k \notin 1 .. n
  <2> SUFFICES ASSUME k \in 1 .. n PROVE FALSE
    OBVIOUS
  <2>1. pbOrdered[k] = pbDraft[1]
    BY <1>3, <1>5
  <2>2. pbOrdered[k] \in Range(pbOrdered)
    BY <1>1 DEF Range
  <2>3. QED
    BY <1>2, <1>4, <2>1, <2>2
<1>7. n + 1 \in 1 .. m /\ (n + 1) - 1 = n
  BY <1>1, <1>3, <1>5, <1>6
<1>8. ListedBefore(pbBuilt, n + 1) = Range(pbOrdered)
  <2>1. ListedBefore(pbBuilt, n + 1) = {pbBuilt[i] : i \in 1 .. n}
    BY <1>7 DEF ListedBefore
  <2>2. QED
    BY <1>1, <1>3, <2>1 DEF Range
<1>9. pbBuilt[n + 1] \notin Range(pbOrdered)
  <2> SUFFICES ASSUME NEW i \in 1 .. n, pbOrdered[i] = pbBuilt[n + 1] PROVE FALSE
    BY <1>1 DEF Range
  <2>1. pbBuilt[i] = pbBuilt[n + 1] /\ i \in DOMAIN pbBuilt /\ n + 1 \in DOMAIN pbBuilt
    BY <1>1, <1>3, <1>7
  <2>2. i = n + 1
    BY <2>1 DEF PlanningInv, BuiltStands, EmittedRight, IsInjective
  <2>3. QED
    BY <1>1, <2>2
<1>10. pbBuilt[n + 1] \in Range(pbDraft)
  BY <1>1, <1>2, <1>7, <1>9 DEF Range
<1>11. pbDepends[pbBuilt[n + 1]] \subseteq ListedBefore(pbBuilt, n + 1)
  BY <1>1, <1>7 DEF PlanningInv, BuiltStands, EmittedRight
<1>12. QED
  BY <1>1, <1>7, <1>8, <1>10, <1>11

\* What the loop takes: the least of the operations whose dependencies were emitted.
LEMMA LoopTakes ==
  ASSUME PlanningInv, EmitNext
  PROVE  \/ /\ \A o \in Range(pbDraft) : ~(pbDepends[o] \subseteq Range(pbOrdered))
            /\ pbStage' = "refused" /\ UNCHANGED <<pbDraft, pbOrdered>>
         \/ \E x \in Range(pbDraft) :
              /\ pbDepends[x] \subseteq Range(pbOrdered)
              /\ \A y \in Range(pbDraft) : pbDepends[y] \subseteq Range(pbOrdered) => OperationOrder(x, y)
              /\ pbStage' = "ordering" /\ pbOrdered' = Append(pbOrdered, x)
              /\ pbDraft' \in Seq(OperationIds) /\ IsInjective(pbDraft') /\ Range(pbDraft') = Range(pbDraft) \ {x}
<1> DEFINE ready == {i \in DOMAIN pbDraft : DependenciesEmitted(pbDraft[i])}
           least == {i \in ready : \A j \in ready : OperationOrder(pbDraft[i], pbDraft[j])}
           next == CHOOSE i \in least : \A j \in least : i <= j
<1>1. /\ pbStage = "ordering" /\ pbDraft \in Seq(OperationIds) /\ IsInjective(pbDraft)
      /\ DOMAIN pbDraft = 1 .. Len(pbDraft) /\ Len(pbDraft) \in Nat
  BY LenProperties DEF EmitNext, PlanningInv, PlanningTypes, LoopStands
<1>2. \A o \in OperationIds : DependenciesEmitted(o) <=> pbDepends[o] \subseteq Range(pbOrdered)
  BY DEF DependenciesEmitted
<1>3. \A i \in DOMAIN pbDraft : pbDraft[i] \in OperationIds /\ pbDraft[i] \in Range(pbDraft)
  BY <1>1 DEF Range
<1>4. ready = {i \in DOMAIN pbDraft : pbDepends[pbDraft[i]] \subseteq Range(pbOrdered)}
  BY <1>2, <1>3
<1>5. CASE ready = {}
  <2>1. pbStage' = "refused" /\ UNCHANGED <<pbDraft, pbOrdered>>
    BY <1>5 DEF EmitNext
  <2>2. \A o \in Range(pbDraft) : ~(pbDepends[o] \subseteq Range(pbOrdered))
    BY <1>4, <1>5 DEF Range
  <2>3. QED
    BY <2>1, <2>2
<1>6. CASE ready # {}
  <2>1. pbDraft' = RemoveAt(pbDraft, next) /\ pbOrdered' = Append(pbOrdered, pbDraft[next]) /\ pbStage' = pbStage
    BY <1>6 DEF EmitNext
  <2>2. next \in least
    <3> DEFINE ops == {pbDraft[i] : i \in ready}
    <3>1. ops \subseteq OperationIds /\ ops # {}
      BY <1>3, <1>6
    <3>2. PICK o \in ops : \A p \in ops : OperationOrder(o, p)
      <4> HIDE DEF ops
      <4>1. QED
        BY <3>1, LeastOperation DEF PlanningInv
    <3>3. least # {}
      BY <3>2
    <3>4. least \subseteq Nat
      BY <1>1
    <3> HIDE DEF least
    <3>5. \E i \in least : \A j \in least : i <= j
      BY <3>3, <3>4, LeastMember
    <3>6. QED
      BY <3>5
  <2> DEFINE x == pbDraft[next]
  <2>3. next \in ready /\ \A j \in ready : OperationOrder(x, pbDraft[j])
    <3> HIDE DEF next
    <3>1. QED
      BY <2>2
  <2> HIDE DEF next, least
  <2>4. next \in DOMAIN pbDraft /\ x \in Range(pbDraft) /\ pbDepends[x] \subseteq Range(pbOrdered)
    BY <1>3, <1>4, <2>3
  <2>5. \A y \in Range(pbDraft) : pbDepends[y] \subseteq Range(pbOrdered) => OperationOrder(x, y)
    BY <1>4, <2>3 DEF Range
  <2>6. pbDraft' \in Seq(OperationIds) /\ IsInjective(pbDraft') /\ Range(pbDraft') = Range(pbDraft) \ {x}
    BY <1>1, <2>1, <2>4, WithoutOne
  <2> HIDE DEF x
  <2>7. pbStage' = "ordering" /\ pbOrdered' = Append(pbOrdered, x)
    BY <1>1, <2>1 DEF x
  <2>8. QED
    BY <2>4, <2>5, <2>6, <2>7
<1>7. QED
  BY <1>5, <1>6

\* The loop emits the next operation, of a plan that is built again the one that follows.
LEMMA LoopGoesOn == ASSUME PlanningInv, EmitNext PROVE PlanningInv'
<1>1. /\ pbStage = "ordering" /\ pbDraft # <<>> /\ UNCHANGED operationVars /\ UNCHANGED <<pbBuilt, pbStored>>
  BY DEF EmitNext, NoOperations
<1>2. BuiltStands'
  BY <1>1, BuiltStays DEF PlanningInv
<1> DEFINE ops == Range(pbDraft) \cup Range(pbOrdered)
<1>3. EmittedRight(pbOrdered, ops) /\ CleanOf(ops) /\ Range(pbDraft) \cap Range(pbOrdered) = {}
  BY <1>1 DEF PlanningInv, LoopStands
<1>o. pbOrdered \in Seq(OperationIds) /\ pbDraft \in Seq(OperationIds) /\ Range(pbDraft) \subseteq OperationIds
  BY DEF PlanningInv, PlanningTypes, Range
<1>4. CASE /\ \A o \in Range(pbDraft) : ~(pbDepends[o] \subseteq Range(pbOrdered))
           /\ pbStage' = "refused" /\ UNCHANGED <<pbDraft, pbOrdered>>
  <2>1. pbStored = <<>>
    BY <1>1, <1>4, NextOfBuilt
  <2>2. pbStored' = <<>>
    BY <1>1, <2>1
  <2>3. PlanningTypes'
    BY <1>1, <1>4 DEF PlanningInv, PlanningTypes, operationVars
  <2>4. LoopStands' /\ RebuildStands' /\ StoredPlanJudged'
    BY <1>4, <2>2 DEF LoopStands, RebuildStands, StoredPlanJudged, NoOperations
  <2>5. QED
    BY <1>2, <2>3, <2>4 DEF PlanningInv
<1>5. ASSUME NEW x \in Range(pbDraft),
             pbDepends[x] \subseteq Range(pbOrdered),
             \A y \in Range(pbDraft) : pbDepends[y] \subseteq Range(pbOrdered) => OperationOrder(x, y),
             pbStage' = "ordering", pbOrdered' = Append(pbOrdered, x),
             pbDraft' \in Seq(OperationIds), IsInjective(pbDraft'), Range(pbDraft') = Range(pbDraft) \ {x}
      PROVE  PlanningInv'
  <2>1. x \in OperationIds /\ x \notin Range(pbOrdered)
    BY <1>3, <1>o
  <2> DEFINE r == Append(pbOrdered, x)
             n == Len(pbOrdered)
  <2>2. r \in Seq(OperationIds) /\ n \in Nat /\ DOMAIN r = 1 .. (n + 1) /\ r[n + 1] = x /\ DOMAIN pbOrdered = 1 .. n
        /\ \A i \in 1 .. n : r[i] = pbOrdered[i]
    BY <1>o, <2>1, LenProperties
  <2>3. Range(r) = Range(pbOrdered) \cup {x}
    <3> HIDE DEF r, n
    <3>1. \A i : i \in 1 .. (n + 1) <=> (i \in 1 .. n \/ i = n + 1)
      BY <2>2
    <3>2. QED
      BY <2>2, <3>1 DEF Range
  <2>4. Range(pbDraft') \cup Range(r) = ops /\ Range(pbDraft') \cap Range(r) = {}
    BY <1>3, <1>5, <2>1, <2>3
  <2>5. EmittedRight(r, ops)
    <3>1. \A y \in ops \ Range(pbOrdered) : pbDepends[y] \subseteq Range(pbOrdered) => OperationOrder(x, y)
      BY <1>5
    <3> HIDE DEF ops
    <3>2. QED
      BY <1>3, <1>5, <1>o, <2>1, <3>1, RightGrows DEF PlanningInv
  <2> HIDE DEF r, ops, n
  <2>6. pbOrdered' = r
    BY <1>5 DEF r
  <2>7. EmittedRight(pbOrdered', Range(pbDraft') \cup Range(pbOrdered')) /\ CleanOf(Range(pbDraft') \cup Range(pbOrdered'))
    BY <1>3, <2>4, <2>5, <2>6
  <2>8. EmittedRight(pbOrdered, Range(pbDraft) \cup Range(pbOrdered))' /\ CleanOf(Range(pbDraft) \cup Range(pbOrdered))'
    BY <1>1, <2>7, LoopMoves
  <2>9. Range(pbDraft') \cap Range(pbOrdered') = {}
    BY <2>4, <2>6
  <2>10. LoopStands'
    BY <1>5, <2>8, <2>9 DEF LoopStands
  <2>11. PlanningTypes'
    BY <1>1, <1>5, <2>2, <2>6 DEF PlanningInv, PlanningTypes, operationVars
  <2>12. ASSUME pbStored # <<>> PROVE Range(pbDraft') \cup Range(pbOrdered') = Range(pbBuilt) /\ Follow(pbOrdered', pbBuilt)
    <3>1. Range(pbDraft) \cup Range(pbOrdered) = Range(pbBuilt) /\ Follow(pbOrdered, pbBuilt)
      BY <1>1, <2>12 DEF PlanningInv, RebuildStands
    <3> DEFINE o == pbBuilt[n + 1]
    <3>2. n + 1 \in DOMAIN pbBuilt /\ ListedBefore(pbBuilt, n + 1) = Range(pbOrdered) /\ o \in Range(pbDraft) /\ pbDepends[o] \subseteq Range(pbOrdered)
      BY <1>1, <2>12, NextOfBuilt DEF n
    <3>3. OperationOrder(x, o)
      BY <1>5, <3>2
    <3>4. \A y \in Range(pbBuilt) \ ListedBefore(pbBuilt, n + 1) : pbDepends[y] \subseteq ListedBefore(pbBuilt, n + 1) => OperationOrder(o, y)
      BY <3>2 DEF PlanningInv, BuiltStands, EmittedRight
    <3>5. OperationOrder(o, x)
      BY <1>5, <2>1, <3>1, <3>2, <3>4
    <3>6. x = o
      <4>1. o \in OperationIds
        BY <1>o, <3>2
      <4> HIDE DEF o
      <4>2. QED
        BY <2>1, <3>3, <3>5, <4>1, OrderDecides DEF PlanningInv
    <3>7. Follow(r, pbBuilt)
      <4> SUFFICES ASSUME NEW i \in 1 .. (n + 1) PROVE i \in DOMAIN pbBuilt /\ r[i] = pbBuilt[i]
        BY <2>2 DEF Follow
      <4>1. CASE i \in 1 .. n
        BY <2>2, <3>1, <4>1 DEF Follow
      <4>2. CASE i = n + 1
        BY <2>2, <3>2, <3>6, <4>2
      <4>3. QED
        BY <2>2, <4>1, <4>2
    <3>8. QED
      BY <2>4, <2>6, <3>1, <3>7 DEF ops
  <2>13. RebuildStands'
    BY <1>1, <1>5, <2>12 DEF RebuildStands, Follow
  <2>14. StoredPlanJudged'
    BY <1>5 DEF StoredPlanJudged
  <2>15. QED
    BY <1>2, <2>10, <2>11, <2>13, <2>14 DEF PlanningInv
<1>6. QED
  BY <1>4, <1>5, LoopTakes

\* A plan that is built again ends as it was built.
LEMMA EndsAsBuilt == ASSUME PlanningInv, pbStage = "ordering", pbStored # <<>>, pbDraft = <<>> PROVE pbOrdered = pbBuilt
<1>1. pbOrdered \in Seq(OperationIds) /\ pbBuilt \in Seq(OperationIds)
  BY DEF PlanningInv, PlanningTypes
<1>2. DOMAIN pbOrdered = 1 .. Len(pbOrdered) /\ DOMAIN pbBuilt = 1 .. Len(pbBuilt) /\ Len(pbOrdered) \in Nat /\ Len(pbBuilt) \in Nat
  BY <1>1, LenProperties
<1>3. Range(pbOrdered) = Range(pbBuilt) /\ Follow(pbOrdered, pbBuilt)
  <2>1. Range(pbDraft) = {}
    BY DEF Range
  <2>2. QED
    BY <2>1 DEF PlanningInv, RebuildStands
<1>4. \A k \in 1 .. Len(pbBuilt) : k \in 1 .. Len(pbOrdered)
  <2> TAKE k \in 1 .. Len(pbBuilt)
  <2>1. PICK i \in 1 .. Len(pbOrdered) : pbOrdered[i] = pbBuilt[k]
    BY <1>2, <1>3 DEF Range
  <2>2. i \in DOMAIN pbBuilt /\ pbBuilt[i] = pbBuilt[k]
    BY <1>2, <1>3, <2>1 DEF Follow
  <2>3. i = k
    BY <1>2, <2>2 DEF PlanningInv, BuiltStands, EmittedRight, IsInjective
  <2>4. QED
    BY <2>1, <2>3
<1>5. \A i \in 1 .. Len(pbOrdered) : i \in 1 .. Len(pbBuilt) /\ pbOrdered[i] = pbBuilt[i]
  BY <1>2, <1>3 DEF Follow
<1>6. Len(pbOrdered) = Len(pbBuilt)
  <2>1. PICK a \in Nat, b \in Nat : a = Len(pbOrdered) /\ b = Len(pbBuilt)
    BY <1>2
  <2>2. a # 0 => a \in 1 .. b
    BY <1>5, <2>1
  <2>3. b # 0 => b \in 1 .. a
    BY <1>4, <2>1
  <2>4. a = b
    BY <2>2, <2>3
  <2>5. QED
    BY <2>1, <2>4
<1>7. QED
  BY <1>1, <1>5, <1>6, SeqEqual

\* A plan stands while the operations stay.
LEMMA BuiltMoves ==
  ASSUME UNCHANGED operationVars, EmittedRight(pbBuilt', Range(pbBuilt')), CleanOf(Range(pbBuilt')), Range(pbBuilt') \subseteq pbGenuine'
  PROVE  BuiltStands'
<1>1. EmittedRight(pbBuilt, Range(pbBuilt))'
  BY DEF EmittedRight, OperationOrder, operationVars
<1>2. \A o : Reaches(o)' = Reaches(o)
  BY DEF Reaches, operationVars
<1>3. CleanOf(Range(pbBuilt))'
  BY <1>2 DEF CleanOf, operationVars
<1>4. QED
  BY <1>1, <1>3 DEF BuiltStands

\* The plan is finished, or judged against the one that was stored.
LEMMA PlanFinished == ASSUME PlanningInv, FinishPlan PROVE PlanningInv'
<1>1. /\ pbStage = "ordering" /\ pbDraft = <<>> /\ UNCHANGED operationVars /\ UNCHANGED <<pbDraft, pbOrdered, pbStored>>
      /\ Range(pbDraft) = {}
  BY DEF FinishPlan, NoOperations, Range
<1>2. EmittedRight(pbOrdered, Range(pbOrdered)) /\ CleanOf(Range(pbOrdered))
  BY <1>1 DEF PlanningInv, LoopStands
<1>3. CASE pbStored = <<>>
  <2>1. pbStage' \in {"planned", "refused"} /\ pbStored' = <<>>
    BY <1>1, <1>3 DEF FinishPlan, NoOperations
  <2>2. PlanningTypes'
    BY <1>1, <1>3, <2>1 DEF FinishPlan, PlanningInv, PlanningTypes, operationVars, NoOperations
  <2>3. BuiltStands'
    <3>1. CASE pbBuilt' = pbBuilt
      BY <1>1, <3>1, BuiltStays DEF PlanningInv
    <3>2. CASE pbBuilt' = pbOrdered /\ Range(pbOrdered) \subseteq pbGenuine
      <4>1. EmittedRight(pbBuilt', Range(pbBuilt')) /\ CleanOf(Range(pbBuilt')) /\ Range(pbBuilt') \subseteq pbGenuine'
        BY <1>1, <1>2, <3>2 DEF operationVars
      <4>2. QED
        BY <1>1, <4>1, BuiltMoves
    <3>3. QED
      BY <1>3, <3>1, <3>2 DEF FinishPlan, NoOperations
  <2>4. LoopStands' /\ RebuildStands' /\ StoredPlanJudged'
    BY <2>1 DEF LoopStands, RebuildStands, StoredPlanJudged, NoOperations
  <2>5. QED
    BY <2>2, <2>3, <2>4 DEF PlanningInv
<1>4. CASE pbStored # <<>>
  <2>1. pbOrdered = pbBuilt
    BY <1>1, <1>4, EndsAsBuilt
  <2>2. Range(pbOrdered) \subseteq pbGenuine
    BY <2>1 DEF PlanningInv, BuiltStands
  <2>3. pbBuilt' = pbBuilt /\ pbStage' = (IF pbBuilt = pbStored THEN "accepted" ELSE "rejected") /\ pbStored' = pbStored
    BY <1>1, <1>4, <2>1, <2>2 DEF FinishPlan, NoOperations
  <2>4. BuiltStands'
    BY <1>1, <2>3, BuiltStays DEF PlanningInv
  <2>5. PlanningTypes'
    BY <1>1, <2>3 DEF PlanningInv, PlanningTypes, operationVars
  <2>6. StoredPlanJudged'
    BY <2>3 DEF StoredPlanJudged
  <2>7. LoopStands' /\ RebuildStands'
    BY <2>3 DEF LoopStands, RebuildStands
  <2>8. QED
    BY <2>4, <2>5, <2>6, <2>7 DEF PlanningInv
<1>5. QED
  BY <1>3, <1>4

\* A draft is handed over before anything is built.
LEMMA DraftHandedOver ==
  ASSUME PlanningInv, pbStage = "idle", NEW order \in DraftOrders, NEW c \in [OperationIds -> {"exact", "forward"}],
         NEW d \in Dependencies, NEW genuine, HandOver(c, d, genuine, order)
  PROVE  PlanningInv'
<1>1. /\ pbCapability' = c /\ pbDepends' = d /\ pbDraft' = order /\ pbStage' = "drafted"
      /\ pbOrdered' = <<>> /\ pbBuilt' = <<>> /\ pbStored' = <<>>
  BY DEF HandOver, PlanningInv, LoopStands
<1>2. d \in [OperationIds -> SUBSET OperationIds] /\ order \in Seq(OperationIds) /\ <<>> \in Seq(OperationIds)
  BY OperationsOrdered DEF Dependencies
<1>3. PlanningTypes'
  BY <1>1, <1>2 DEF PlanningTypes
<1>4. DOMAIN pbBuilt' = {} /\ Range(pbBuilt') = {}
  BY <1>1 DEF Range
<1>5. BuiltStands'
  BY <1>4 DEF BuiltStands, EmittedRight, IsInjective, CleanOf
<1>6. LoopStands' /\ RebuildStands' /\ StoredPlanJudged'
  BY <1>1 DEF LoopStands, RebuildStands, StoredPlanJudged, NoOperations
<1>7. QED
  BY <1>3, <1>5, <1>6 DEF PlanningInv

\* A plan is read back with its operations in some order.
LEMMA PlanReadBack ==
  ASSUME PlanningInv, NEW order \in SetToSeqs(Range(pbBuilt)), ReadBack(order)
  PROVE  PlanningInv'
<1> DEFINE S == Range(pbBuilt)
           n == Cardinality(S)
<1>1. /\ pbStage = "planned" /\ pbStored' = order /\ pbDraft' = order /\ pbOrdered' = <<>> /\ pbStage' = "drafted"
      /\ UNCHANGED operationVars /\ UNCHANGED pbBuilt
  BY DEF ReadBack, NoOperations
<1>2. S \subseteq OperationIds
  BY DEF PlanningInv, PlanningTypes, Range
<1>3. IsFiniteSet(S) /\ n \in Nat
  BY <1>2, OperationsOrdered, FS_Subset, FS_CardinalityType
<1>4. order \in [1 .. n -> S] /\ \A i, j \in 1 .. n : i # j => order[i] # order[j]
  BY DEF SetToSeqs
<1>5. IsInjective(order)
  BY <1>4 DEF IsInjective
<1>6. Range(order) = S
  <2>1. order \in Injection(1 .. n, S)
    BY <1>4, <1>5 DEF Injection
  <2>2. IsFiniteSet(1 .. n) /\ Cardinality(1 .. n) = n
    BY <1>3, FS_Interval
  <2>c. Cardinality(1 .. n) = Cardinality(S)
    BY <2>2
  <2> HIDE DEF S, n
  <2>3. order \in Surjection(1 .. n, S)
    <3> DEFINE D == 1 .. n
    <3>1. order \in Injection(D, S) /\ IsFiniteSet(D) /\ Cardinality(D) = Cardinality(S)
      BY <2>1, <2>2, <2>c
    <3> HIDE DEF D
    <3>2. Cardinality(D) = Cardinality(S) <=> order \in Surjection(D, S)
      BY <1>3, <3>1, FS_Injection
    <3>3. QED
      BY <3>1, <3>2 DEF D
  <2>4. QED
    BY <1>4, <2>3 DEF Surjection, Range
<1>7. order \in Seq(OperationIds)
  <2>1. order \in [1 .. n -> OperationIds]
    BY <1>2, <1>4
  <2> HIDE DEF n
  <2>2. QED
    BY <1>3, <2>1, SeqDef
<1>8. PlanningTypes'
  BY <1>1, <1>7 DEF PlanningInv, PlanningTypes, operationVars
<1>9. BuiltStands'
  BY <1>1, BuiltStays DEF PlanningInv
<1>10. LoopStands' /\ StoredPlanJudged'
  BY <1>1 DEF LoopStands, StoredPlanJudged
<1>11. RebuildStands'
  BY <1>1, <1>5, <1>6 DEF RebuildStands
<1>12. QED
  BY <1>8, <1>9, <1>10, <1>11 DEF PlanningInv

\* Whatever is drafted, built and read back, a plan is what its operations make it.
LEMMA PlanningStep == ASSUME PlanningInv, [PlanBuildingNext]_pbVars PROVE PlanningInv'
<1>1. CASE UNCHANGED pbVars
  <2>1. /\ UNCHANGED operationVars /\ UNCHANGED <<pbDraft, pbOrdered, pbBuilt, pbStored, pbStage>>
    BY <1>1 DEF pbVars, operationVars
  <2>2. PlanningTypes' /\ RebuildStands' /\ StoredPlanJudged'
    BY <2>1 DEF PlanningInv, PlanningTypes, RebuildStands, StoredPlanJudged, Follow, operationVars
  <2>3. BuiltStands'
    BY <2>1, BuiltStays DEF PlanningInv
  <2>4. LoopStands'
    <3>1. CASE pbStage = "ordering"
      <4>1. EmittedRight(pbOrdered', Range(pbDraft') \cup Range(pbOrdered')) /\ CleanOf(Range(pbDraft') \cup Range(pbOrdered'))
        BY <2>1, <3>1 DEF PlanningInv, LoopStands
      <4>2. EmittedRight(pbOrdered, Range(pbDraft) \cup Range(pbOrdered))' /\ CleanOf(Range(pbDraft) \cup Range(pbOrdered))'
        BY <2>1, <4>1, LoopMoves
      <4>3. QED
        BY <2>1, <3>1, <4>2 DEF PlanningInv, LoopStands
    <3>2. CASE pbStage # "ordering"
      BY <2>1, <3>2 DEF PlanningInv, LoopStands
    <3>3. QED
      BY <3>1, <3>2
  <2>5. QED
    BY <2>2, <2>3, <2>4 DEF PlanningInv
<1>2. ASSUME pbStage = "idle", NEW order \in DraftOrders, NEW c \in [OperationIds -> {"exact", "forward"}],
             NEW altered \in OperationIds \cup {0}, NEW d \in Dependencies, HandOver(c, d, OperationIds \ {altered}, order)
      PROVE  PlanningInv'
  BY <1>2, DraftHandedOver
<1>3. QED
  BY <1>1, <1>2, DraftChecked, LoopGoesOn, PlanFinished, PlanReadBack DEF PlanBuildingNext

\* A plan runs in dependency order, with forward-only work last, and is judged as it was built.
LEMMA PlanningKeeps == ASSUME PlanningInv PROVE PlanRunsInOrder /\ ForwardOnlyLast /\ StoredPlanJudged
<1>1. /\ pbBuilt \in Seq(OperationIds) /\ DOMAIN pbBuilt = 1 .. Len(pbBuilt) /\ Len(pbBuilt) \in Nat
      /\ \A i \in DOMAIN pbBuilt : pbBuilt[i] \in OperationIds
  BY LenProperties, ElementOfSeq DEF PlanningInv, PlanningTypes
<1>2. IsInjective(pbBuilt) /\ \A i \in DOMAIN pbBuilt :
         /\ pbDepends[pbBuilt[i]] \subseteq ListedBefore(pbBuilt, i)
         /\ \A y \in Range(pbBuilt) \ ListedBefore(pbBuilt, i) : pbDepends[y] \subseteq ListedBefore(pbBuilt, i) => OperationOrder(pbBuilt[i], y)
  BY DEF PlanningInv, BuiltStands, EmittedRight
<1>3. PlanRunsInOrder
  <2> SUFFICES ASSUME NEW i \in DOMAIN pbBuilt, NEW d \in pbDepends[pbBuilt[i]] PROVE \E j \in 1 .. (i - 1) : pbBuilt[j] = d
    BY <1>2 DEF PlanRunsInOrder
  <2>1. d \in ListedBefore(pbBuilt, i)
    BY <1>2
  <2>2. QED
    BY <2>1 DEF ListedBefore
<1>4. ForwardOnlyLast
  <2> SUFFICES ASSUME NEW i \in DOMAIN pbBuilt, NEW j \in DOMAIN pbBuilt, i < j,
                      pbCapability[pbBuilt[i]] = "forward", pbCapability[pbBuilt[j]] # "forward"
               PROVE  FALSE
    BY DEF ForwardOnlyLast
  <2> DEFINE K == {k \in DOMAIN pbBuilt : i < k /\ pbCapability[pbBuilt[k]] # "forward"}
  <2>1. PICK k \in K : \A l \in K : k <= l
    <3>1. K \subseteq Nat /\ K # {}
      BY <1>1
    <3> HIDE DEF K
    <3>2. QED
      BY <3>1, LeastMember
  <2>2. k \in 1 .. Len(pbBuilt) /\ i \in 1 .. Len(pbBuilt) /\ i < k /\ pbBuilt[k] \in OperationIds
    BY <1>1, <2>1
  <2>3. pbCapability[pbBuilt[k]] = "exact"
    BY <2>1, <2>2 DEF PlanningInv, PlanningTypes
  <2>4. pbBuilt[k] \in Range(pbBuilt)
    BY <2>1 DEF Range
  <2>5. \A d \in pbDepends[pbBuilt[k]] : pbCapability[d] # "forward"
    BY <2>2, <2>3, <2>4, ReachesDepends DEF PlanningInv, BuiltStands, CleanOf
  <2>6. pbDepends[pbBuilt[k]] \subseteq ListedBefore(pbBuilt, i)
    <3> SUFFICES ASSUME NEW d \in pbDepends[pbBuilt[k]] PROVE d \in ListedBefore(pbBuilt, i)
      OBVIOUS
    <3>1. PICK l \in 1 .. (k - 1) : pbBuilt[l] = d
      BY <1>1, <1>2, <2>2 DEF ListedBefore
    <3>2. l \in DOMAIN pbBuilt /\ l < k /\ l \in Nat /\ k \in Nat /\ i \in Nat
      BY <1>1, <2>2
    <3>3. pbCapability[pbBuilt[l]] # "forward"
      BY <2>5, <3>1
    <3>4. l \notin K
      <4>1. l \in K => k <= l
        BY <2>1
      <4>2. QED
        BY <3>2, <4>1
    <3>5. ~(i < l)
      BY <3>2, <3>3, <3>4
    <3>6. l # i
      BY <3>3
    <3>7. l \in 1 .. (i - 1)
      BY <3>1, <3>2, <3>5, <3>6
    <3>8. QED
      BY <3>1, <3>7 DEF ListedBefore
  <2>7. pbBuilt[k] \notin ListedBefore(pbBuilt, i)
    <3> SUFFICES ASSUME NEW l \in 1 .. (i - 1), pbBuilt[l] = pbBuilt[k] PROVE FALSE
      BY DEF ListedBefore
    <3>1. l \in DOMAIN pbBuilt /\ l # k
      BY <1>1, <2>2
    <3>2. QED
      BY <1>1, <1>2, <2>2, <3>1 DEF IsInjective
  <2>8. OperationOrder(pbBuilt[i], pbBuilt[k])
    BY <1>2, <2>4, <2>6, <2>7
  <2>9. QED
    BY <2>3, <2>8 DEF OperationOrder
<1>5. QED
  BY <1>3, <1>4 DEF PlanningInv

-----------------------------------------------------------------------------
(* Composition: layers in their order.                                      *)

\* What may be read of a layer.
ReadableLayer(l) ==
  /\ l.kind \in Range(LayerKinds)
  /\ "packages" \in DOMAIN l.spec => l.spec.packages = DeleteMark \/ Listing(l.spec.packages)
ReadableLayers(q) == Len(q) \in Nat /\ q \in [1 .. Len(q) -> Range(q)] /\ \A i \in 1 .. Len(q) : ReadableLayer(q[i])

\* Every kind has a place of its own.
LEMMA PlacesOfKinds ==
  /\ \A k \in Range(LayerKinds) : Precedence(k) \in 1 .. 5 /\ LayerKinds[Precedence(k)] = k
  /\ \A k, c \in Range(LayerKinds) : Precedence(k) = Precedence(c) => k = c
<1>1. DOMAIN LayerKinds = 1 .. 5
  BY DEF LayerKinds
<1>2. \A k \in Range(LayerKinds) : \E i \in DOMAIN LayerKinds : LayerKinds[i] = k
  BY DEF Range
<1>3. \A k \in Range(LayerKinds) : Precedence(k) \in DOMAIN LayerKinds /\ LayerKinds[Precedence(k)] = k
  BY <1>2 DEF Precedence
<1>4. QED
  BY <1>1, <1>3

Ahead(l, r) == Precedence(l.kind) < Precedence(r.kind)

\* Layers of different kinds have an order.
LEMMA AheadTotal == ASSUME NEW c, NEW d, c.kind \in Range(LayerKinds), d.kind \in Range(LayerKinds)
  PROVE /\ c.kind = d.kind \/ Ahead(c, d) \/ Ahead(d, c)
        /\ ~Ahead(c, c) /\ ~(Ahead(c, d) /\ Ahead(d, c))
<1>1. Precedence(c.kind) \in 1 .. 5 /\ Precedence(d.kind) \in 1 .. 5 /\ (Precedence(c.kind) = Precedence(d.kind) => c.kind = d.kind)
  BY PlacesOfKinds
<1>2. QED
  BY <1>1 DEF Ahead

LEMMA AheadTransitive ==
  ASSUME NEW c, NEW d, NEW e, c.kind \in Range(LayerKinds), d.kind \in Range(LayerKinds), e.kind \in Range(LayerKinds),
         Ahead(c, d), Ahead(d, e)
  PROVE Ahead(c, e)
BY PlacesOfKinds DEF Ahead

KindsDiffer(E) == \A c, d \in E : c.kind = d.kind => c = d

\* Layers can be listed in their order.
LEMMA OrderingExists == ASSUME NEW E, IsFiniteSet(E), \A c \in E : c.kind \in Range(LayerKinds), KindsDiffer(E)
  PROVE \E q \in [1 .. Cardinality(E) -> E] :
          /\ \A c \in E : \E i \in 1 .. Cardinality(E) : q[i] = c
          /\ \A i, j \in 1 .. Cardinality(E) : i < j => Ahead(q[i], q[j])
<1> DEFINE n == Cardinality(E)
           To(c) == {d \in E : d = c \/ Ahead(d, c)}
           place == [c \in E |-> Cardinality(To(c))]
<1>1. n \in Nat
  BY FS_CardinalityType
<1>2. \A c \in E : place[c] \in 1 .. n
  <2> TAKE c \in E
  <2>1. To(c) \in SUBSET E /\ c \in To(c)
    OBVIOUS
  <2>2. IsFiniteSet(To(c)) /\ Cardinality(To(c)) <= n /\ Cardinality(To(c)) \in Nat
    BY <1>1, <2>1, FS_Subset, FS_CardinalityType
  <2>3. Cardinality(To(c)) # 0
    BY <2>1, <2>2, FS_EmptySet
  <2>4. QED
    BY <1>1, <2>2, <2>3
<1>3. \A c, d \in E : Ahead(c, d) => place[c] < place[d]
  <2> SUFFICES ASSUME NEW c \in E, NEW d \in E, Ahead(c, d) PROVE place[c] < place[d]
    OBVIOUS
  <2>1. To(c) \subseteq To(d) /\ d \in To(d) /\ d \notin To(c)
    BY AheadTotal, AheadTransitive
  <2>2. IsFiniteSet(To(d)) /\ To(c) \in SUBSET To(d) /\ To(c) # To(d)
    BY <1>1, <2>1, FS_Subset
  <2>3. Cardinality(To(c)) <= Cardinality(To(d)) /\ Cardinality(To(c)) # Cardinality(To(d))
    BY <2>2, FS_Subset
  <2>4. QED
    BY <1>2, <2>3
<1>4. place \in Injection(E, 1 .. n)
  <2>1. place \in [E -> 1 .. n]
    BY <1>2
  <2>2. \A c, d \in E : c # d => place[c] # place[d]
    <3> SUFFICES ASSUME NEW c \in E, NEW d \in E, c # d PROVE place[c] # place[d]
      OBVIOUS
    <3>1. Ahead(c, d) \/ Ahead(d, c)
      BY AheadTotal DEF KindsDiffer
    <3>2. place[c] \in 1 .. n /\ place[d] \in 1 .. n /\ (place[c] < place[d] \/ place[d] < place[c])
      BY <1>2, <1>3, <3>1
    <3> HIDE DEF place
    <3>3. QED
      BY <1>1, <3>2
  <2>3. QED
    BY <2>1, <2>2 DEF Injection, IsInjective
<1>5. place \in Surjection(E, 1 .. n)
  BY <1>1, <1>4, FS_Interval, FS_Injection
<1>6. \A i \in 1 .. n : \E c \in E : place[c] = i
  BY <1>5 DEF Surjection
<1> DEFINE q == [i \in 1 .. n |-> CHOOSE c \in E : place[c] = i]
<1>7. \A i \in 1 .. n : q[i] \in E /\ place[q[i]] = i
  BY <1>6
<1>8. \A i, j \in 1 .. n : i < j => Ahead(q[i], q[j])
  <2> SUFFICES ASSUME NEW i \in 1 .. n, NEW j \in 1 .. n, i < j PROVE Ahead(q[i], q[j])
    OBVIOUS
  <2>1. q[i] # q[j] /\ ~Ahead(q[j], q[i]) /\ q[i] \in E /\ q[j] \in E
    <3>1. place[q[i]] = i /\ place[q[j]] = j /\ q[i] \in E /\ q[j] \in E
      BY <1>7
    <3> HIDE DEF place, q
    <3>2. QED
      BY <1>1, <1>3, <3>1
  <2> HIDE DEF q, place
  <2>2. QED
    BY <2>1, AheadTotal DEF KindsDiffer
<1>9. \A c \in E : \E i \in 1 .. n : q[i] = c
  <2> TAKE c \in E
  <2>1. place[c] \in 1 .. n /\ q[place[c]] \in E /\ place[q[place[c]]] = place[c]
    BY <1>2, <1>7
  <2> HIDE DEF place, q
  <2>2. q[place[c]] = c
    BY <2>1, <1>4 DEF Injection, IsInjective
  <2>3. QED
    BY <2>1, <2>2
<1>10. q \in [1 .. n -> E]
  BY <1>7
<1>11. QED
  BY <1>8, <1>9, <1>10

-----------------------------------------------------------------------------
\* A valid set of layers has its list in order of precedence.
LayersInOrder(q, layers) ==
  /\ ReadableLayers(q) /\ Len(q) = Len(layers) /\ Range(q) = Range(layers)
  /\ \A i, j \in 1 .. Len(q) : i < j => Ahead(q[i], q[j])

LEMMA PrecedenceOrders == ASSUME NEW layers, ReadableLayers(layers), LayerSetValid(layers)
  PROVE LayersInOrder(InPrecedence(layers), layers) /\ KindsDiffer(Range(layers))
<1> DEFINE n == Len(layers)
           E == Range(layers)
           q == InPrecedence(layers)
           Sorts(s) == /\ Range(s) = Range(layers)
                      /\ \A i, j \in DOMAIN s : i < j => Precedence(s[i].kind) < Precedence(s[j].kind)
<1>1. DOMAIN layers = 1 .. n /\ n \in Nat /\ E = {layers[i] : i \in 1 .. n}
  BY DEF ReadableLayers, Range
<1>2. \A i, j \in 1 .. n : layers[i].kind = layers[j].kind => i = j
  BY <1>1 DEF LayerSetValid, IsInjective
<1>3. KindsDiffer(E)
  BY <1>1, <1>2 DEF KindsDiffer
<1>4. layers \in Bijection(1 .. n, E)
  <2>1. layers \in [1 .. n -> E]
    BY DEF ReadableLayers
  <2>2. \A i, j \in 1 .. n : i # j => layers[i] # layers[j]
    BY <1>2
  <2>3. \A e \in E : \E i \in 1 .. n : layers[i] = e
    BY <1>1
  <2>4. QED
    BY <2>1, <2>2, <2>3 DEF Bijection, Injection, Surjection, IsInjective
<1>5. IsFiniteSet(E) /\ Cardinality(E) = n
  <2>1. IsFiniteSet(1 .. n) /\ Cardinality(1 .. n) = n
    BY <1>1, CountedTo
  <2> HIDE DEF E
  <2>2. ExistsBijection(1 .. n, E)
    BY <1>4 DEF ExistsBijection
  <2>3. QED
    BY <2>1, <2>2, FS_Bijection
<1>6. \A c \in E : c.kind \in Range(LayerKinds)
  BY <1>1 DEF ReadableLayers, ReadableLayer
<1>7. \E s \in [DOMAIN layers -> E] : Sorts(s)
  <2>1. PICK s \in [1 .. n -> E] :
          /\ \A c \in E : \E i \in 1 .. n : s[i] = c
          /\ \A i, j \in 1 .. n : i < j => Ahead(s[i], s[j])
    <3> HIDE DEF E, n
    <3>1. QED
      BY <1>3, <1>5, <1>6, OrderingExists
  <2>2. Range(s) = E
    BY <2>1 DEF Range
  <2>3. Sorts(s)
    BY <2>1, <2>2 DEF Ahead
  <2>4. QED
    BY <1>1, <2>1, <2>3
<1>8. q \in [1 .. n -> E] /\ Sorts(q)
  BY <1>1, <1>7 DEF InPrecedence
<1>9. Len(q) = n /\ DOMAIN q = 1 .. n
  BY <1>1, <1>8
<1>10. ReadableLayers(q)
  <2>1. \A e \in E : ReadableLayer(e)
    BY <1>1 DEF ReadableLayers
  <2> HIDE DEF q, E
  <2>2. QED
    BY <1>1, <1>8, <1>9, <2>1 DEF ReadableLayers, Range
<1>11. QED
  BY <1>3, <1>8, <1>9, <1>10 DEF LayersInOrder, Ahead

-----------------------------------------------------------------------------
(* Composition: what a fold over a list does, place by place.               *)

\* The two folds of the module: layers into a composition, items into a list.
Folded(w, acc, x) == IF w = "layers" THEN Composing(acc, x) ELSE OverlaidItem(acc, x)
FoldOf(w, b, q) == IF w = "layers" THEN FoldLeft(Composing, b, q) ELSE FoldLeft(OverlaidItem, b, q)
FoldedBy(f, w, b, q, m) ==
  f = [s \in SUBSET (1 .. m) |-> IF s = {} THEN b ELSE Folded(w, f[s \ {Max(s)}], q[Max(s)])]

\* The last place of some places.
LEMMA LastPlace == ASSUME NEW m \in Nat, NEW s \in SUBSET (1 .. m), s # {}
  PROVE Max(s) \in s /\ \A y \in s : y <= Max(s)
<1> DEFINE T == {m - y : y \in s}
<1>1. T \subseteq Nat /\ T # {}
  <2>1. \A y \in s : y \in 1 .. m
    OBVIOUS
  <2>2. \A y \in s : m - y \in Nat
    BY <2>1
  <2>3. QED
    BY <2>2
<1>2. PICK x \in T : \A y \in T : x <= y
  <2> HIDE DEF T
  <2>1. QED
    BY <1>1, LeastMember
<1>3. PICK z \in s : x = m - z
  BY <1>2
<1>4. \A y \in s : m - z <= m - y
  BY <1>2, <1>3
<1>5. \A y \in s : z >= y
  BY <1>4
<1>6. \E z_1 \in s : \A y \in s : z_1 >= y
  BY <1>5
<1>7. Max(s) \in s /\ \A y \in s : Max(s) >= y
  BY <1>6 DEF Max
<1>8. QED
  BY <1>7

\* Folds exist.
LEMMA FoldsExist == ASSUME NEW w, NEW b, NEW q, NEW n \in Nat PROVE \E f : FoldedBy(f, w, b, q, n)
<1> DEFINE T == {m \in Nat : \E f : FoldedBy(f, w, b, q, m)}
<1>1. 0 \in T
  <2>1. FoldedBy([s \in SUBSET (1 .. 0) |-> b], w, b, q, 0)
    BY DEF FoldedBy
  <2>2. QED
    BY <2>1
<1>2. ASSUME NEW m \in 0 .. (n - 1), m \in T PROVE m + 1 \in T
  <2>1. PICK f : FoldedBy(f, w, b, q, m)
    BY <1>2
  <2> DEFINE g == [s \in SUBSET (1 .. (m + 1)) |-> IF s = {} THEN b ELSE Folded(w, f[s \ {Max(s)}], q[Max(s)])]
  <2>2. \A s \in SUBSET (1 .. m) : g[s] = f[s] /\ s \in SUBSET (1 .. (m + 1))
    <3> TAKE s \in SUBSET (1 .. m)
    <3>1. s \in SUBSET (1 .. (m + 1))
      OBVIOUS
    <3>2. f[s] = IF s = {} THEN b ELSE Folded(w, f[s \ {Max(s)}], q[Max(s)])
      BY <2>1 DEF FoldedBy
    <3>3. QED
      BY <3>1, <3>2
  <2>3. \A s \in SUBSET (1 .. (m + 1)) : s # {} => s \ {Max(s)} \in SUBSET (1 .. m)
    <3> SUFFICES ASSUME NEW s \in SUBSET (1 .. (m + 1)), s # {} PROVE s \ {Max(s)} \in SUBSET (1 .. m)
      OBVIOUS
    <3>1. Max(s) \in 1 .. (m + 1) /\ \A y \in s : y <= Max(s)
      <4>1. m + 1 \in Nat
        OBVIOUS
      <4>2. Max(s) \in s /\ \A y \in s : y <= Max(s)
        BY <4>1, LastPlace
      <4>3. QED
        BY <4>2
    <3>2. ASSUME NEW y \in s, y # Max(s) PROVE y \in 1 .. m
      <4>1. y \in 1 .. (m + 1) /\ y <= Max(s) /\ Max(s) <= m + 1 /\ Max(s) \in Nat
        BY <3>1
      <4>2. QED
        BY <3>2, <4>1
    <3>3. QED
      BY <3>2
  <2>4. \A s \in SUBSET (1 .. (m + 1)) : g[s] = IF s = {} THEN b ELSE Folded(w, g[s \ {Max(s)}], q[Max(s)])
    BY <2>2, <2>3
  <2>5. FoldedBy(g, w, b, q, m + 1)
    BY <2>4 DEF FoldedBy
  <2>6. QED
    BY <2>5
<1>3. 0 .. n \subseteq T
  <2> HIDE DEF T
  <2>1. QED
    BY <1>1, <1>2, AllBelow
<1>4. QED
  BY <1>3

\* A fold is such a function's value at all the places.
LEMMA FoldIs == ASSUME NEW w, NEW b, NEW q, NEW n \in Nat, DOMAIN q = 1 .. n
  PROVE \E f : FoldedBy(f, w, b, q, n) /\ FoldOf(w, b, q) = f[1 .. n]
<1> DEFINE f == CHOOSE f : FoldedBy(f, w, b, q, n)
<1>1. FoldedBy(f, w, b, q, n)
  BY FoldsExist
<1>2. ASSUME w = "layers" PROVE FoldOf(w, b, q) = f[1 .. n]
  <2> DEFINE g == CHOOSE g : g = [s \in SUBSET (1 .. n) |-> IF s = {} THEN b ELSE Composing(g[s \ {Max(s)}], q[Max(s)])]
  <2>1. FoldOf(w, b, q) = FoldLeft(Composing, b, q)
    BY <1>2 DEF FoldOf
  <2>2. FoldLeft(Composing, b, q) = g[1 .. n]
    BY Zenon DEF FoldLeft, MapThenFoldSet
  <2>3. f = g
    BY <1>2, Zenon DEF FoldedBy, Folded
  <2>4. QED
    BY <2>1, <2>2, <2>3, Zenon
<1>3. ASSUME w # "layers" PROVE FoldOf(w, b, q) = f[1 .. n]
  <2> DEFINE g == CHOOSE g : g = [s \in SUBSET (1 .. n) |-> IF s = {} THEN b ELSE OverlaidItem(g[s \ {Max(s)}], q[Max(s)])]
  <2>1. FoldOf(w, b, q) = FoldLeft(OverlaidItem, b, q)
    BY <1>3 DEF FoldOf
  <2>2. FoldLeft(OverlaidItem, b, q) = g[1 .. n]
    BY Zenon DEF FoldLeft, MapThenFoldSet
  <2>3. f = g
    BY <1>3, Zenon DEF FoldedBy, Folded
  <2>4. QED
    BY <2>1, <2>2, <2>3, Zenon
<1>4. FoldOf(w, b, q) = f[1 .. n]
  BY <1>2, <1>3
<1>5. QED
  BY <1>1, <1>4

\* Place by place.
Unrolled(g, w, b, q, n) ==
  /\ g[0] = b
  /\ \A k \in 1 .. n : g[k] = Folded(w, g[k - 1], q[k])
  /\ FoldOf(w, b, q) = g[n]

LEMMA FoldUnrolls == ASSUME NEW w, NEW b, NEW q, NEW n \in Nat, DOMAIN q = 1 .. n PROVE \E g : Unrolled(g, w, b, q, n)
<1>1. PICK f : FoldedBy(f, w, b, q, n) /\ FoldOf(w, b, q) = f[1 .. n]
  BY FoldIs
<1> DEFINE g == [k \in 0 .. n |-> f[1 .. k]]
<1>2. \A s \in SUBSET (1 .. n) : f[s] = IF s = {} THEN b ELSE Folded(w, f[s \ {Max(s)}], q[Max(s)])
  BY <1>1 DEF FoldedBy
<1>3. g[0] = b
  <2>1. 1 .. 0 = {} /\ {} \in SUBSET (1 .. n)
    OBVIOUS
  <2>2. f[{}] = b
    BY <1>2, <2>1
  <2>3. QED
    BY <2>1, <2>2
<1>4. ASSUME NEW k \in 1 .. n PROVE g[k] = Folded(w, g[k - 1], q[k])
  <2>1. 1 .. k \in SUBSET (1 .. n) /\ 1 .. k # {} /\ k \in 1 .. k
    <3>1. k \in Nat /\ k >= 1 /\ k <= n
      OBVIOUS
    <3>2. \A j \in 1 .. k : j \in 1 .. n
      BY <3>1
    <3>3. k \in 1 .. k
      BY <3>1
    <3>4. QED
      BY <3>2, <3>3
  <2>2. Max(1 .. k) \in 1 .. k /\ k <= Max(1 .. k)
    BY <2>1, LastPlace
  <2>3. Max(1 .. k) = k
    BY <2>2
  <2>4. (1 .. k) \ {k} = 1 .. (k - 1)
    OBVIOUS
  <2>5. f[1 .. k] = Folded(w, f[1 .. (k - 1)], q[k])
    BY <1>2, <2>1, <2>3, <2>4
  <2>6. g[k] = f[1 .. k] /\ g[k - 1] = f[1 .. (k - 1)]
    OBVIOUS
  <2>7. QED
    BY <2>5, <2>6, Zenon
<1>5. g[n] = f[1 .. n]
  OBVIOUS
<1>6. Unrolled(g, w, b, q, n)
  <2> HIDE DEF g
  <2>1. QED
    BY <1>1, <1>3, <1>4, <1>5 DEF Unrolled
<1>7. QED
  BY <1>6

-----------------------------------------------------------------------------
(* Composition: lists merged by id.                                         *)

OnceEach(s) == \A i, j \in 1 .. Len(s) : s[i].id = s[j].id => i = j

\* A fact y of an item: a field of a package, and its value.
Sets(x, y) == Gives(x, y.id, y.field, y.value)
Decides(x, y) == Settles(x, y.id, y.field)
Has(s, y) == \E i \in 1 .. Len(s) : Sets(s[i], y)
NamesField(s, y) == \E i \in 1 .. Len(s) : Decides(s[i], y)
NamesId(s, id) == \E i \in 1 .. Len(s) : s[i].id = id

LEMMA IdsOf == ASSUME NEW X, NEW s \in Seq(X)
  PROVE /\ IsInjective(ItemIds(s)) <=> OnceEach(s)
        /\ \A id : id \in Range(ItemIds(s)) <=> NamesId(s, id)
<1>1. DOMAIN s = 1 .. Len(s)
  OBVIOUS
<1>2. DOMAIN ItemIds(s) = 1 .. Len(s) /\ \A i \in 1 .. Len(s) : ItemIds(s)[i] = s[i].id
  BY <1>1 DEF ItemIds
<1>3. IsInjective(ItemIds(s)) <=> OnceEach(s)
  BY <1>2 DEF IsInjective, OnceEach
<1>4. \A id : id \in Range(ItemIds(s)) <=> NamesId(s, id)
  BY <1>2 DEF Range, NamesId
<1>5. QED
  BY <1>3, <1>4

\* A listing, by its places.
LEMMA ItemsListed == ASSUME NEW s
  PROVE /\ Listing(s) => /\ s \in Seq(Range(s)) /\ Len(s) \in Nat /\ DOMAIN s = 1 .. Len(s)
                        /\ \A i \in 1 .. Len(s) : "id" \in DOMAIN s[i]
        /\ \A X : s \in Seq(X) /\ (\A i \in 1 .. Len(s) : "id" \in DOMAIN s[i]) => Listing(s)
<1>1. ASSUME Listing(s)
      PROVE s \in Seq(Range(s)) /\ Len(s) \in Nat /\ DOMAIN s = 1 .. Len(s) /\ \A i \in 1 .. Len(s) : "id" \in DOMAIN s[i]
  <2>1. s \in Seq(Range(s)) /\ \A p \in Range(s) : "id" \in DOMAIN p
    BY <1>1 DEF Listing
  <2> DEFINE X == Range(s)
  <2> HIDE DEF X
  <2>2. s \in Seq(X) => Len(s) \in Nat /\ DOMAIN s = 1 .. Len(s)
    OBVIOUS
  <2>3. Len(s) \in Nat /\ DOMAIN s = 1 .. Len(s)
    BY <2>1, <2>2 DEF X
  <2>4. \A i \in DOMAIN s : s[i] \in Range(s)
    BY DEF Range
  <2>5. QED
    BY <2>1, <2>3, <2>4
<1>2. ASSUME NEW X, s \in Seq(X), \A i \in 1 .. Len(s) : "id" \in DOMAIN s[i] PROVE Listing(s)
  <2>1. DOMAIN s = 1 .. Len(s) /\ Len(s) \in Nat /\ s \in [1 .. Len(s) -> X]
    BY <1>2
  <2>2. \A p \in Range(s) : \E i \in 1 .. Len(s) : p = s[i]
    BY <2>1 DEF Range
  <2>3. s \in [1 .. Len(s) -> Range(s)]
    BY <2>1 DEF Range
  <2>4. s \in Seq(Range(s))
    <3> DEFINE R == Range(s)
    <3> HIDE DEF R
    <3>1. s \in [1 .. Len(s) -> R] => s \in Seq(R)
      BY <2>1, SeqDef
    <3>2. QED
      BY <2>3, <3>1 DEF R
  <2>5. QED
    BY <1>2, <2>2, <2>4 DEF Listing
<1>3. QED
  BY <1>1, <1>2

\* Two items of one id, merged.
LEMMA ItemMerged == ASSUME NEW b, NEW x, "id" \in DOMAIN x, b.id = x.id
  PROVE /\ MergeItem(b, x).id = x.id /\ "id" \in DOMAIN MergeItem(b, x)
        /\ \A y : Sets(x, y) => Sets(MergeItem(b, x), y)
        /\ \A y : Sets(b, y) /\ ~Decides(x, y) => Sets(MergeItem(b, x), y)
<1> DEFINE m == MergeItem(b, x)
<1>1. DOMAIN m = DOMAIN b \cup DOMAIN x /\ \A f \in DOMAIN m : m[f] = IF f \in DOMAIN x THEN x[f] ELSE b[f]
  BY DEF MergeItem
<1> HIDE DEF m
<1>2. "id" \in DOMAIN m /\ m["id"] = x["id"]
  BY <1>1
<1>3. m.id = x.id
  BY <1>2
<1>4. ASSUME NEW y, Sets(x, y) PROVE Sets(m, y)
  BY <1>1, <1>3, <1>4 DEF Sets, Gives, Settles
<1>5. ASSUME NEW y, Sets(b, y), ~Decides(x, y) PROVE Sets(m, y)
  BY <1>1, <1>3, <1>5 DEF Sets, Decides, Gives, Settles
<1>6. QED
  BY <1>2, <1>3, <1>4, <1>5 DEF m

\* One item laid over a list.
LEMMA OneOverlaid == ASSUME NEW s, Listing(s), NEW x, "id" \in DOMAIN x, OnceEach(s)
  PROVE /\ Listing(OverlaidItem(s, x)) /\ OnceEach(OverlaidItem(s, x))
        /\ \A y : Sets(x, y) => Has(OverlaidItem(s, x), y)
        /\ \A y : Has(s, y) /\ ~Decides(x, y) => Has(OverlaidItem(s, x), y)
<1> DEFINE o == OverlaidItem(s, x)
           n == Len(s)
<1>1. DOMAIN s = 1 .. n /\ n \in Nat /\ s \in Seq(Range(s)) /\ \A i \in 1 .. n : "id" \in DOMAIN s[i]
  BY ItemsListed
<1>i. x.id \in Range(ItemIds(s)) <=> NamesId(s, x.id)
  <2> DEFINE R == Range(s)
  <2>1. s \in Seq(R)
    BY <1>1
  <2> HIDE DEF R
  <2>2. QED
    BY <2>1, IdsOf
<1>2. ASSUME NamesId(s, x.id)
      PROVE Listing(o) /\ OnceEach(o) /\ (\A y : Sets(x, y) => Has(o, y)) /\ \A y : Has(s, y) /\ ~Decides(x, y) => Has(o, y)
  <2>1. o = [i \in 1 .. n |-> IF s[i].id = x.id THEN MergeItem(s[i], x) ELSE s[i]]
    BY <1>1, <1>i, <1>2 DEF OverlaidItem
  <2> HIDE DEF o
  <2>2. \A i \in 1 .. n : s[i].id = x.id =>
          /\ o[i].id = x.id /\ "id" \in DOMAIN o[i]
          /\ \A y : Sets(x, y) => Sets(o[i], y)
          /\ \A y : Sets(s[i], y) /\ ~Decides(x, y) => Sets(o[i], y)
    <3> SUFFICES ASSUME NEW i \in 1 .. n, s[i].id = x.id
                 PROVE /\ o[i].id = x.id /\ "id" \in DOMAIN o[i]
                       /\ \A y : Sets(x, y) => Sets(o[i], y)
                       /\ \A y : Sets(s[i], y) /\ ~Decides(x, y) => Sets(o[i], y)
      OBVIOUS
    <3>1. o[i] = MergeItem(s[i], x)
      BY <2>1
    <3>2. QED
      BY <3>1, ItemMerged
  <2>3. \A i \in 1 .. n : s[i].id # x.id => o[i] = s[i]
    BY <2>1
  <2>4. o \in Seq({o[i] : i \in 1 .. n}) /\ Len(o) = n
    <3> DEFINE R == {o[i] : i \in 1 .. n}
    <3>1. o \in [1 .. n -> R]
      BY <2>1
    <3> HIDE DEF R
    <3>2. o \in Seq(R) /\ Len(o) = n
      BY <1>1, <3>1, SeqDef
    <3>3. QED
      BY <3>2 DEF R
  <2>5. \A i \in 1 .. n : o[i].id = s[i].id /\ "id" \in DOMAIN o[i]
    BY <1>1, <2>2, <2>3
  <2>6. Listing(o) /\ OnceEach(o)
    <3>1. Listing(o)
      BY <2>4, <2>5, ItemsListed
    <3>2. OnceEach(o)
      BY <2>4, <2>5 DEF OnceEach
    <3>3. QED
      BY <3>1, <3>2
  <2>7. ASSUME NEW y, Sets(x, y) PROVE Has(o, y)
    <3>1. PICK i \in 1 .. n : s[i].id = x.id
      BY <1>2 DEF NamesId
    <3>2. QED
      BY <2>2, <2>4, <2>7, <3>1 DEF Has
  <2>8. ASSUME NEW y, Has(s, y), ~Decides(x, y) PROVE Has(o, y)
    <3>1. PICK i \in 1 .. n : Sets(s[i], y)
      BY <2>8 DEF Has
    <3>2. Sets(o[i], y)
      BY <2>2, <2>3, <2>8, <3>1
    <3>3. QED
      BY <2>4, <3>2 DEF Has
  <2>9. QED
    BY <2>6, <2>7, <2>8
<1>3. ASSUME ~NamesId(s, x.id)
      PROVE Listing(o) /\ OnceEach(o) /\ (\A y : Sets(x, y) => Has(o, y)) /\ \A y : Has(s, y) /\ ~Decides(x, y) => Has(o, y)
  <2>1. o = Append(s, x)
    <3>1. x.id \notin Range(ItemIds(s))
      BY <1>i, <1>3
    <3>2. QED
      BY <3>1, Zenon DEF OverlaidItem
  <2> HIDE DEF o
  <2> DEFINE X == Range(s) \cup {x}
  <2>2. o \in Seq(X) /\ Len(o) = n + 1 /\ o[n + 1] = x /\ \A i \in 1 .. n : o[i] = s[i]
    <3>1. s \in Seq(X)
      <4>1. s \in [1 .. n -> X]
        BY <1>1 DEF Range
      <4> HIDE DEF X
      <4>2. QED
        BY <1>1, <4>1, SeqDef
    <3>2. x \in X
      OBVIOUS
    <3> HIDE DEF X
    <3>3. QED
      BY <2>1, <3>1, <3>2
  <2> HIDE DEF X
  <2>3. \A i \in 1 .. n : s[i].id # x.id
    BY <1>3 DEF NamesId
  <2>4. OnceEach(o)
    <3> SUFFICES ASSUME NEW i \in 1 .. (n + 1), NEW j \in 1 .. (n + 1), o[i].id = o[j].id PROVE i = j
      BY <2>2 DEF OnceEach
    <3>1. CASE i \in 1 .. n /\ j \in 1 .. n
      BY <2>2, <3>1 DEF OnceEach
    <3>2. CASE i = n + 1 \/ j = n + 1
      BY <1>1, <2>2, <2>3, <3>2
    <3>3. QED
      BY <1>1, <3>1, <3>2
  <2>5. Listing(o)
    <3>1. \A i \in 1 .. (n + 1) : "id" \in DOMAIN o[i]
      <4> TAKE i \in 1 .. (n + 1)
      <4>1. i \in 1 .. n \/ i = n + 1
        BY <1>1
      <4>2. QED
        BY <1>1, <2>2, <4>1
    <3>2. QED
      BY <2>2, <3>1, ItemsListed
  <2>6. \A y : Sets(x, y) => Has(o, y)
    BY <1>1, <2>2 DEF Has
  <2>7. \A y : Has(s, y) => Has(o, y)
    BY <1>1, <2>2 DEF Has
  <2>8. QED
    BY <2>4, <2>5, <2>6, <2>7
<1>4. QED
  BY <1>2, <1>3

\* One list laid over another.
LEMMA OverlayKeeps == ASSUME NEW s, NEW t, Listing(s), Listing(t), OnceEach(s), OnceEach(t)
  PROVE /\ Listing(MergeById(s, t)) /\ OnceEach(MergeById(s, t))
        /\ \A y : Has(t, y) => Has(MergeById(s, t), y)
        /\ \A y : Has(s, y) /\ ~NamesField(t, y) => Has(MergeById(s, t), y)
<1> DEFINE n == Len(t)
<1>1. DOMAIN t = 1 .. n /\ n \in Nat /\ \A i \in 1 .. n : "id" \in DOMAIN t[i]
  BY ItemsListed
<1>2. PICK g : Unrolled(g, "items", s, t, n)
  BY <1>1, FoldUnrolls
<1>3. MergeById(s, t) = g[n]
  BY <1>2 DEF Unrolled, FoldOf, MergeById
<1>4. g[0] = s /\ \A k \in 1 .. n : g[k] = OverlaidItem(g[k - 1], t[k])
  BY <1>2 DEF Unrolled, Folded
<1> DEFINE Upto(k) == /\ Listing(g[k]) /\ OnceEach(g[k])
                      /\ \A i \in 1 .. k : \A y : Sets(t[i], y) => Has(g[k], y)
                      /\ \A y : Has(s, y) /\ ~NamesField(t, y) => Has(g[k], y)
           T == {k \in 0 .. n : Upto(k)}
<1>5. 0 \in T
  BY <1>1, <1>4
<1>6. ASSUME NEW k \in 0 .. (n - 1), k \in T PROVE k + 1 \in T
  <2>1. Upto(k)
    BY <1>6
  <2>2. k + 1 \in 1 .. n /\ "id" \in DOMAIN t[k + 1] /\ g[k + 1] = OverlaidItem(g[k], t[k + 1])
    <3>1. k + 1 \in 1 .. n /\ (k + 1) - 1 = k
      BY <1>1
    <3>2. QED
      BY <1>1, <1>4, <3>1
  <2>3. /\ Listing(g[k + 1]) /\ OnceEach(g[k + 1])
        /\ \A y : Sets(t[k + 1], y) => Has(g[k + 1], y)
        /\ \A y : Has(g[k], y) /\ ~Decides(t[k + 1], y) => Has(g[k + 1], y)
    <3> DEFINE a == g[k]
               x == t[k + 1]
    <3>1. Listing(a) /\ "id" \in DOMAIN x /\ OnceEach(a) /\ g[k + 1] = OverlaidItem(a, x)
      BY <2>1, <2>2
    <3> HIDE DEF a, x
    <3>2. /\ Listing(OverlaidItem(a, x)) /\ OnceEach(OverlaidItem(a, x))
          /\ \A y : Sets(x, y) => Has(OverlaidItem(a, x), y)
          /\ \A y : Has(a, y) /\ ~Decides(x, y) => Has(OverlaidItem(a, x), y)
      BY <3>1, OneOverlaid
    <3>3. QED
      BY <3>1, <3>2, Zenon DEF a, x
  <2>4. ASSUME NEW i \in 1 .. (k + 1), NEW y, Sets(t[i], y) PROVE Has(g[k + 1], y)
    <3>1. CASE i = k + 1
      BY <2>3, <2>4, <3>1
    <3>2. CASE i \in 1 .. k
      <4>1. i \in 1 .. n /\ i # k + 1
        BY <1>1, <3>2
      <4>2. t[i].id # t[k + 1].id
        BY <2>2, <4>1 DEF OnceEach
      <4>3. ~Decides(t[k + 1], y)
        BY <2>4, <4>2 DEF Sets, Gives, Decides, Settles
      <4>4. Has(g[k], y)
        BY <2>1, <2>4, <3>2
      <4>5. QED
        BY <2>3, <4>3, <4>4
    <3>3. QED
      BY <3>1, <3>2
  <2>5. ASSUME NEW y, Has(s, y), ~NamesField(t, y) PROVE Has(g[k + 1], y)
    <3>1. ~Decides(t[k + 1], y)
      BY <2>2, <2>5 DEF NamesField
    <3>2. QED
      BY <2>1, <2>3, <2>5, <3>1
  <2>6. QED
    BY <2>2, <2>3, <2>4, <2>5
<1>7. 0 .. n \subseteq T
  <2> HIDE DEF T
  <2>1. QED
    BY <1>1, <1>5, <1>6, AllBelow
<1>8. Upto(n)
  <2>1. n \in T
    <3> HIDE DEF T
    <3>1. QED
      BY <1>1, <1>7
  <2>2. QED
    BY <2>1
<1>9. \A y : Has(t, y) => Has(g[n], y)
  BY <1>8 DEF Has
<1>10. QED
  BY <1>3, <1>8, <1>9

-----------------------------------------------------------------------------
(* Composition: the specification, layer by layer.                          *)

\* What the layers up to each place compose to.
Composed(q, n, s, w) ==
  /\ s[0] = << >> /\ w[0] = << >>
  /\ \A k \in 1 .. n :
       /\ ~MergeRefused(s[k - 1], q[k].spec)
       /\ s[k] = MergeSpecs(s[k - 1], q[k].spec) /\ w[k] = Winners(w[k - 1], q[k])

CompositionShape(c) == DOMAIN c = {"refused", "spec", "winners"} /\ c.refused \in BOOLEAN

\* One layer.
LEMMA ComposingOne == ASSUME NEW acc, NEW l, CompositionShape(acc)
  PROVE /\ CompositionShape(Composing(acc, l))
        /\ ~Composing(acc, l).refused =>
             /\ ~acc.refused /\ ~MergeRefused(acc.spec, l.spec)
             /\ Composing(acc, l).spec = MergeSpecs(acc.spec, l.spec)
             /\ Composing(acc, l).winners = Winners(acc.winners, l)
<1> DEFINE s == MergeSpecs(acc.spec, l.spec)
           w == Winners(acc.winners, l)
           stop == acc.refused \/ MergeRefused(acc.spec, l.spec)
           a == [acc EXCEPT !.refused = TRUE]
           b == [acc EXCEPT !.spec = s, !.winners = w]
           c == Composing(acc, l)
<1>1. c = IF stop THEN a ELSE b
  BY DEF Composing
<1> HIDE DEF s, w, c
<1>2. DOMAIN a = {"refused", "spec", "winners"} /\ a.refused = TRUE
  BY DEF CompositionShape
<1>3. DOMAIN b = {"refused", "spec", "winners"} /\ b.refused = acc.refused /\ b.spec = s /\ b.winners = w
  BY DEF CompositionShape
<1> HIDE DEF a, b, stop
<1>4. CASE stop
  <2>1. c = a
    BY <1>1, <1>4
  <2>2. QED
    BY <1>2, <2>1 DEF c, CompositionShape
<1>5. CASE ~stop
  <2>1. c = b
    BY <1>1, <1>5
  <2>2. QED
    BY <1>3, <1>5, <2>1 DEF c, s, w, stop, CompositionShape
<1>6. QED
  BY <1>4, <1>5

\* A composition that is not refused was refused at no layer.
LEMMA LayersUnroll == ASSUME NEW q, NEW n \in Nat, DOMAIN q = 1 .. n,
         NEW c, c = FoldLeft(Composing, [refused |-> FALSE, spec |-> << >>, winners |-> << >>], q), ~c.refused
  PROVE \E s, w : Composed(q, n, s, w) /\ c.spec = s[n] /\ c.winners = w[n]
<1> DEFINE b == [refused |-> FALSE, spec |-> << >>, winners |-> << >>]
<1>1. PICK g : Unrolled(g, "layers", b, q, n)
  BY FoldUnrolls
<1>2. c = g[n] /\ g[0] = b /\ \A k \in 1 .. n : g[k] = Composing(g[k - 1], q[k])
  BY <1>1 DEF Unrolled, FoldOf, Folded
<1> DEFINE T == {k \in 0 .. n : CompositionShape(g[k])}
<1>3. 0 .. n \subseteq T
  <2>1. 0 \in T
    <3>1. DOMAIN b = {"refused", "spec", "winners"} /\ b.refused = FALSE
      OBVIOUS
    <3>2. CompositionShape(b)
      BY <3>1 DEF CompositionShape
    <3>3. QED
      BY <1>2, <3>2
  <2>2. ASSUME NEW k \in 0 .. (n - 1), k \in T PROVE k + 1 \in T
    <3>1. k + 1 \in 1 .. n /\ (k + 1) - 1 = k
      OBVIOUS
    <3>2. g[k + 1] = Composing(g[k], q[k + 1])
      BY <1>2, <3>1
    <3>3. CompositionShape(Composing(g[k], q[k + 1]))
      BY <2>2, ComposingOne
    <3>4. QED
      BY <3>1, <3>2, <3>3
  <2> HIDE DEF T
  <2>3. QED
    BY <2>1, <2>2, AllBelow
<1>4. \A k \in 1 .. n : ~g[k].refused =>
        /\ ~g[k - 1].refused /\ ~MergeRefused(g[k - 1].spec, q[k].spec)
        /\ g[k].spec = MergeSpecs(g[k - 1].spec, q[k].spec)
        /\ g[k].winners = Winners(g[k - 1].winners, q[k])
  <2> TAKE k \in 1 .. n
  <2>1. k - 1 \in 0 .. n
    OBVIOUS
  <2>2. CompositionShape(g[k - 1]) /\ g[k] = Composing(g[k - 1], q[k])
    BY <1>2, <1>3, <2>1
  <2>3. QED
    BY <2>2, ComposingOne
<1> DEFINE U == {k \in 0 .. n : ~g[n - k].refused}
<1>5. 0 .. n \subseteq U
  <2>1. 0 \in U
    BY <1>2
  <2>2. ASSUME NEW k \in 0 .. (n - 1), k \in U PROVE k + 1 \in U
    <3>1. n - k \in 1 .. n /\ (n - k) - 1 = n - (k + 1) /\ k + 1 \in 0 .. n
      OBVIOUS
    <3>2. ~g[n - k].refused
      BY <2>2
    <3>3. ~g[(n - k) - 1].refused
      BY <1>4, <3>1, <3>2
    <3>4. QED
      BY <3>1, <3>3
  <2> HIDE DEF U
  <2>3. QED
    BY <2>1, <2>2, AllBelow
<1>6. \A k \in 1 .. n : ~g[k].refused
  <2> TAKE k \in 1 .. n
  <2>1. n - k \in 0 .. n /\ n - (n - k) = k
    OBVIOUS
  <2>2. n - k \in U
    BY <1>5, <2>1
  <2>3. QED
    BY <2>1, <2>2
<1> DEFINE s == [k \in 0 .. n |-> g[k].spec]
           w == [k \in 0 .. n |-> g[k].winners]
<1>7. s[0] = << >> /\ w[0] = << >>
  BY <1>2
<1>8. \A k \in 1 .. n : s[k] = g[k].spec /\ w[k] = g[k].winners /\ s[k - 1] = g[k - 1].spec /\ w[k - 1] = g[k - 1].winners
  OBVIOUS
<1>9. c.spec = s[n] /\ c.winners = w[n]
  BY <1>2
<1> HIDE DEF s, w
<1>10. Composed(q, n, s, w)
  BY <1>4, <1>6, <1>7, <1>8 DEF Composed
<1>11. QED
  BY <1>9, <1>10

\* The last of the layers up to a place that speaks about a field.
LastOf(q, f, i, k) == f \in DOMAIN q[i].spec /\ \A j \in (i + 1) .. k : f \notin DOMAIN q[j].spec

LEMMA LastDecides == ASSUME NEW q, NEW n \in Nat, NEW s, NEW w, Composed(q, n, s, w)
  PROVE \A k \in 0 .. n :
          /\ \A i \in 1 .. k : DOMAIN q[i].spec \subseteq DOMAIN s[k]
          /\ DOMAIN w[k] = DOMAIN s[k]
          /\ \A f \in DOMAIN s[k] : \E i \in 1 .. k :
               LastOf(q, f, i, k) /\ w[k][f] = q[i].kind /\ (Strategy(f) = "Replace" => s[k][f] = q[i].spec[f])
<1> DEFINE Right(k) == /\ \A i \in 1 .. k : DOMAIN q[i].spec \subseteq DOMAIN s[k]
                       /\ DOMAIN w[k] = DOMAIN s[k]
                       /\ \A f \in DOMAIN s[k] : \E i \in 1 .. k :
                            LastOf(q, f, i, k) /\ w[k][f] = q[i].kind /\ (Strategy(f) = "Replace" => s[k][f] = q[i].spec[f])
           T == {k \in 0 .. n : Right(k)}
<1>1. 0 \in T
  <2>1. DOMAIN s[0] = {} /\ DOMAIN w[0] = {}
    BY DEF Composed
  <2>2. QED
    BY <2>1
<1>2. ASSUME NEW k \in 0 .. (n - 1), k \in T PROVE k + 1 \in T
  <2> DEFINE l == q[k + 1]
             m == k + 1
  <2>1. m \in 1 .. n /\ m - 1 = k
    OBVIOUS
  <2>2. s[m] = MergeSpecs(s[k], l.spec) /\ w[m] = Winners(w[k], l)
    BY <2>1 DEF Composed
  <2>3. Right(k)
    BY <1>2
  <2>4. DOMAIN s[m] = DOMAIN s[k] \cup DOMAIN l.spec
    BY <2>2 DEF MergeSpecs
  <2>5. DOMAIN w[m] = DOMAIN w[k] \cup DOMAIN l.spec
    BY <2>2 DEF Winners
  <2>6. ASSUME NEW i \in 1 .. m PROVE DOMAIN q[i].spec \subseteq DOMAIN s[m]
    <3>1. i = m \/ i \in 1 .. k
      OBVIOUS
    <3>2. QED
      BY <2>3, <2>4, <3>1
  <2>7. ASSUME NEW f \in DOMAIN l.spec PROVE w[m][f] = l.kind /\ (Strategy(f) = "Replace" => s[m][f] = l.spec[f])
    <3>1. w[m][f] = l.kind
      BY <2>2, <2>7 DEF Winners
    <3>2. Strategy(f) = "Replace" => s[m][f] = l.spec[f]
      <4>1. s[m][f] = IF f \notin DOMAIN l.spec THEN s[k][f]
                  ELSE IF f \notin DOMAIN s[k] THEN l.spec[f]
                  ELSE CASE Strategy(f) = "SetUnion" -> s[k][f] \cup l.spec[f]
                         [] Strategy(f) = "MergeById" -> MergeById(s[k][f], l.spec[f])
                         [] OTHER -> l.spec[f]
        BY <2>2, <2>7 DEF MergeSpecs
      <4> HIDE DEF l, m
      <4>2. QED
        BY <2>7, <4>1
    <3>3. QED
      BY <3>1, <3>2
  <2>8. ASSUME NEW f \in DOMAIN s[k], f \notin DOMAIN l.spec PROVE w[m][f] = w[k][f] /\ s[m][f] = s[k][f]
    <3>1. f \in DOMAIN w[k]
      BY <2>3, <2>8
    <3>2. w[m][f] = w[k][f]
      BY <2>2, <2>8, <3>1 DEF Winners
    <3>3. s[m][f] = s[k][f]
      <4>1. s[m][f] = IF f \notin DOMAIN l.spec THEN s[k][f]
                  ELSE IF f \notin DOMAIN s[k] THEN l.spec[f]
                  ELSE CASE Strategy(f) = "SetUnion" -> s[k][f] \cup l.spec[f]
                         [] Strategy(f) = "MergeById" -> MergeById(s[k][f], l.spec[f])
                         [] OTHER -> l.spec[f]
        BY <2>2, <2>8 DEF MergeSpecs
      <4> HIDE DEF l, m
      <4>2. QED
        BY <2>8, <4>1
    <3>4. QED
      BY <3>2, <3>3
  <2>9. ASSUME NEW f \in DOMAIN s[m]
        PROVE \E i \in 1 .. m : LastOf(q, f, i, m) /\ w[m][f] = q[i].kind /\ (Strategy(f) = "Replace" => s[m][f] = q[i].spec[f])
    <3>1. ASSUME f \in DOMAIN l.spec
          PROVE LastOf(q, f, m, m) /\ w[m][f] = q[m].kind /\ (Strategy(f) = "Replace" => s[m][f] = q[m].spec[f])
      <4>1. (m + 1) .. m = {}
        OBVIOUS
      <4>2. LastOf(q, f, m, m)
        BY <3>1, <4>1 DEF LastOf
      <4>3. QED
        BY <2>7, <3>1, <4>2
    <3>2. ASSUME f \notin DOMAIN l.spec
          PROVE \E i \in 1 .. k : LastOf(q, f, i, m) /\ w[m][f] = q[i].kind /\ (Strategy(f) = "Replace" => s[m][f] = q[i].spec[f])
      <4>1. f \in DOMAIN s[k]
        BY <2>4, <2>9, <3>2
      <4>2. PICK i \in 1 .. k : LastOf(q, f, i, k) /\ w[k][f] = q[i].kind /\ (Strategy(f) = "Replace" => s[k][f] = q[i].spec[f])
        BY <2>3, <4>1
      <4>3. \A j \in (i + 1) .. m : j \in (i + 1) .. k \/ j = m
        OBVIOUS
      <4>4. LastOf(q, f, i, m)
        BY <3>2, <4>2, <4>3 DEF LastOf
      <4>5. QED
        BY <2>8, <3>2, <4>1, <4>2, <4>4
    <3>3. m \in 1 .. m /\ \A i \in 1 .. k : i \in 1 .. m
      BY <2>1
    <3>4. QED
      BY <3>1, <3>2, <3>3
  <2>10. Right(m)
    BY <2>3, <2>4, <2>5, <2>6, <2>9
  <2>11. QED
    BY <2>1, <2>10
<1>3. 0 .. n \subseteq T
  <2> HIDE DEF T
  <2>1. QED
    BY <1>1, <1>2, AllBelow
<1>4. QED
  BY <1>3

\* A denied path stays denied.
LEMMA DenialsGrow == ASSUME NEW q, NEW n \in Nat, NEW s, NEW w, Composed(q, n, s, w)
  PROVE \A i \in 1 .. n : Denied(q[i].spec) \subseteq Denied(s[n])
<1> DEFINE Right(k) == \A i \in 1 .. k : Denied(q[i].spec) \subseteq Denied(s[k])
           T == {k \in 0 .. n : Right(k)}
<1>1. 0 \in T
  OBVIOUS
<1>2. ASSUME NEW k \in 0 .. (n - 1), k \in T PROVE k + 1 \in T
  <2> DEFINE l == q[k + 1]
             m == k + 1
             f == "deniedPaths"
  <2>1. m \in 1 .. n /\ m - 1 = k
    OBVIOUS
  <2>2. s[m] = MergeSpecs(s[k], l.spec)
    BY <2>1 DEF Composed
  <2>3. DOMAIN s[m] = DOMAIN s[k] \cup DOMAIN l.spec
    BY <2>2 DEF MergeSpecs
  <2>4. f \in DOMAIN s[m] => s[m][f] = IF f \notin DOMAIN l.spec THEN s[k][f]
                                       ELSE IF f \notin DOMAIN s[k] THEN l.spec[f]
                                       ELSE s[k][f] \cup l.spec[f]
    <3>1. Strategy(f) = "SetUnion"
      BY DEF Strategy
    <3>2. f \in DOMAIN s[m] => s[m][f] = IF f \notin DOMAIN l.spec THEN s[k][f]
                  ELSE IF f \notin DOMAIN s[k] THEN l.spec[f]
                  ELSE CASE Strategy(f) = "SetUnion" -> s[k][f] \cup l.spec[f]
                         [] Strategy(f) = "MergeById" -> MergeById(s[k][f], l.spec[f])
                         [] OTHER -> l.spec[f]
      BY <2>2, <2>3 DEF MergeSpecs
    <3> HIDE DEF l, m, f
    <3>3. QED
      BY <3>1, <3>2
  <2>5. \A r : Denied(r) = IF f \in DOMAIN r THEN r[f] ELSE {}
    BY DEF Denied
  <2>6. Denied(s[k]) \subseteq Denied(s[m]) /\ Denied(l.spec) \subseteq Denied(s[m])
    <3> HIDE DEF l, m, f
    <3>1. QED
      BY <2>3, <2>4, <2>5
  <2>7. ASSUME NEW i \in 1 .. m PROVE Denied(q[i].spec) \subseteq Denied(s[m])
    <3>1. i = m \/ i \in 1 .. k
      OBVIOUS
    <3>2. QED
      BY <1>2, <2>6, <3>1
  <2>8. QED
    BY <2>1, <2>7
<1>3. 0 .. n \subseteq T
  <2> HIDE DEF T
  <2>1. QED
    BY <1>1, <1>2, AllBelow
<1>4. n \in T
  BY <1>3
<1>5. QED
  BY <1>4

-----------------------------------------------------------------------------
\* The packages that the layers up to a place come to.
Speaks(q, i) == "packages" \in DOMAIN q[i].spec
Later(q, i, k, y) == \E j \in (i + 1) .. k : Speaks(q, j) /\ NamesField(q[j].spec.packages, y)

LEMMA PackagesStand == ASSUME NEW q, NEW n \in Nat, NEW s, NEW w, Composed(q, n, s, w),
         \A i \in 1 .. n : Speaks(q, i) /\ q[i].spec.packages # DeleteMark => Listing(q[i].spec.packages)
  PROVE \A k \in 0 .. n :
          /\ "packages" \in DOMAIN s[k] => Listing(s[k].packages)
          /\ \A i \in 1 .. k : Speaks(q, i) =>
               \A y : Has(q[i].spec.packages, y) /\ ~Later(q, i, k, y) => Has(s[k].packages, y)
          /\ \A i, j \in 1 .. k : i # j /\ Speaks(q, i) /\ Speaks(q, j) => OnceEach(s[k].packages)
<1> DEFINE f == "packages"
           Typed(k) == f \in DOMAIN s[k] => Listing(s[k].packages)
           Kept(k) == \A i \in 1 .. k : Speaks(q, i) =>
                        \A y : Has(q[i].spec.packages, y) /\ ~Later(q, i, k, y) => Has(s[k].packages, y)
           Once(k) == \A i, j \in 1 .. k : i # j /\ Speaks(q, i) /\ Speaks(q, j) => OnceEach(s[k].packages)
           Right(k) == Typed(k) /\ Kept(k) /\ Once(k)
           T == {k \in 0 .. n : Right(k)}
<1>1. 0 \in T
  <2>1. DOMAIN s[0] = {}
    BY DEF Composed
  <2>2. 1 .. 0 = {}
    OBVIOUS
  <2>3. QED
    BY <2>1, <2>2
<1>2. ASSUME NEW k \in 0 .. (n - 1), k \in T PROVE k + 1 \in T
  <2> DEFINE l == q[k + 1]
             m == k + 1
             a == s[k].packages
             b == l.spec.packages
  <2>1. m \in 1 .. n /\ m - 1 = k /\ \A i \in 1 .. m : i = m \/ i \in 1 .. k
    OBVIOUS
  <2>2. s[m] = MergeSpecs(s[k], l.spec) /\ ~MergeRefused(s[k], l.spec)
    BY <2>1 DEF Composed
  <2>3. Right(k)
    BY <1>2
  <2>4. DOMAIN s[m] = DOMAIN s[k] \cup DOMAIN l.spec
    BY <2>2 DEF MergeSpecs
  <2>5. f \in DOMAIN s[m] => s[m].packages = IF f \notin DOMAIN l.spec THEN a
                                       ELSE IF f \notin DOMAIN s[k] THEN b
                                       ELSE MergeById(a, b)
    <3>1. Strategy(f) = "MergeById"
      BY DEF Strategy
    <3>2. f \in DOMAIN s[m] => s[m][f] = IF f \notin DOMAIN l.spec THEN s[k][f]
                  ELSE IF f \notin DOMAIN s[k] THEN l.spec[f]
                  ELSE CASE Strategy(f) = "SetUnion" -> s[k][f] \cup l.spec[f]
                         [] Strategy(f) = "MergeById" -> MergeById(s[k][f], l.spec[f])
                         [] OTHER -> l.spec[f]
      BY <2>2, <2>4 DEF MergeSpecs
    <3>3. f \in DOMAIN s[m] => s[m][f] = IF f \notin DOMAIN l.spec THEN s[k][f]
                  ELSE IF f \notin DOMAIN s[k] THEN l.spec[f]
                  ELSE MergeById(s[k][f], l.spec[f])
      <4> HIDE DEF l, m, f
      <4>1. QED
        BY <3>1, <3>2
    <3>4. QED
      BY <3>3
  <2>6. \A i \in 1 .. k : Speaks(q, i) => f \in DOMAIN s[k]
    BY <2>1, LastDecides DEF Speaks
  <2>7. ASSUME NEW i \in 1 .. k, NEW y, ~Later(q, i, m, y) PROVE ~Later(q, i, k, y) /\ (Speaks(q, m) => ~NamesField(b, y))
    <3>1. \A j \in (i + 1) .. k : j \in (i + 1) .. m
      BY <2>1
    <3>2. m \in (i + 1) .. m
      BY <2>1
    <3>3. QED
      BY <2>7, <3>1, <3>2 DEF Later
  <2>8. ASSUME ~Speaks(q, m) PROVE Right(m)
    <3>1. f \notin DOMAIN l.spec
      BY <2>8 DEF Speaks
    <3>2. f \in DOMAIN s[m] <=> f \in DOMAIN s[k]
      BY <2>4, <3>1
    <3>3. f \in DOMAIN s[k] => s[m].packages = a
      BY <2>5, <3>1, <3>2
    <3>4. Typed(m)
      BY <2>3, <3>2, <3>3
    <3>5. Kept(m)
      <4> SUFFICES ASSUME NEW i \in 1 .. m, Speaks(q, i), NEW y, Has(q[i].spec.packages, y), ~Later(q, i, m, y)
                   PROVE Has(s[m].packages, y)
        OBVIOUS
      <4>1. i \in 1 .. k
        BY <2>1, <2>8
      <4>2. ~Later(q, i, k, y) /\ f \in DOMAIN s[k]
        BY <2>6, <2>7, <4>1
      <4>3. Has(a, y)
        BY <2>3, <4>1, <4>2
      <4>4. QED
        BY <3>3, <4>2, <4>3
    <3>6. Once(m)
      <4> SUFFICES ASSUME NEW i \in 1 .. m, NEW j \in 1 .. m, i # j, Speaks(q, i), Speaks(q, j) PROVE OnceEach(s[m].packages)
        OBVIOUS
      <4>1. i \in 1 .. k /\ j \in 1 .. k
        BY <2>1, <2>8
      <4>2. OnceEach(a) /\ f \in DOMAIN s[k]
        BY <2>3, <2>6, <4>1
      <4>3. QED
        BY <3>3, <4>2
    <3>7. QED
      BY <3>4, <3>5, <3>6
  <2>9. ASSUME Speaks(q, m) PROVE f \in DOMAIN l.spec /\ Listing(b)
    <3>1. f \in DOMAIN l.spec
      BY <2>9 DEF Speaks
    <3>2. b # DeleteMark
      BY <2>2, <3>1 DEF MergeRefused
    <3>3. QED
      BY <2>1, <2>9, <3>1, <3>2
  <2>10. ASSUME Speaks(q, m), f \notin DOMAIN s[k] PROVE Right(m)
    <3>1. s[m].packages = b /\ Listing(b)
      BY <2>4, <2>5, <2>9, <2>10
    <3>2. \A i \in 1 .. m : Speaks(q, i) => i = m
      BY <2>1, <2>6, <2>10
    <3>3. QED
      BY <3>1, <3>2
  <2>11. ASSUME Speaks(q, m), f \in DOMAIN s[k] PROVE Right(m)
    <3>1. Listing(b) /\ Listing(a) /\ f \in DOMAIN l.spec
      BY <2>3, <2>9, <2>11
    <3>2. OnceEach(a) /\ OnceEach(b)
      <4>1. IsInjective(ItemIds(s[k][f])) /\ IsInjective(ItemIds(l.spec[f]))
        BY <2>2, <2>11, <3>1 DEF MergeRefused, Strategy
      <4>2. IsInjective(ItemIds(a)) /\ IsInjective(ItemIds(b))
        BY <4>1
      <4> HIDE DEF a, b
      <4>3. QED
        BY <3>1, <4>2, IdsOf, ItemsListed
    <3>3. s[m].packages = MergeById(a, b)
      BY <2>4, <2>5, <2>11, <3>1
    <3>4. /\ Listing(MergeById(a, b)) /\ OnceEach(MergeById(a, b))
          /\ \A y : Has(b, y) => Has(MergeById(a, b), y)
          /\ \A y : Has(a, y) /\ ~NamesField(b, y) => Has(MergeById(a, b), y)
      <4> HIDE DEF a, b
      <4>1. QED
        BY <3>1, <3>2, OverlayKeeps
    <3>5. Kept(m)
      <4> SUFFICES ASSUME NEW i \in 1 .. m, Speaks(q, i), NEW y, Has(q[i].spec.packages, y), ~Later(q, i, m, y)
                   PROVE Has(s[m].packages, y)
        OBVIOUS
      <4>1. CASE i = m
        BY <3>3, <3>4, <4>1
      <4>2. CASE i \in 1 .. k
        <5>1. ~Later(q, i, k, y) /\ ~NamesField(b, y)
          BY <2>7, <2>11, <4>2
        <5>2. Has(a, y)
          BY <2>3, <4>2, <5>1
        <5>3. QED
          BY <3>3, <3>4, <5>1, <5>2
      <4>3. QED
        BY <2>1, <4>1, <4>2
    <3>6. Typed(m) /\ Once(m)
      BY <3>3, <3>4
    <3>7. QED
      BY <3>5, <3>6
  <2>12. QED
    BY <2>1, <2>8, <2>10, <2>11
<1>3. 0 .. n \subseteq T
  <2> HIDE DEF T
  <2>1. QED
    BY <1>1, <1>2, AllBelow
<1>4. QED
  BY <1>3

-----------------------------------------------------------------------------
(* Composition: what an accepted composition is.                            *)

\* An accepted composition of layers, laid out.
LaidOut(layers, q, n, s, w) ==
  /\ n \in Nat /\ n = Len(q) /\ LayersInOrder(q, layers) /\ KindsDiffer(Range(layers)) /\ Composed(q, n, s, w)
  /\ FloorHolds(SpecOf(layers, "organisation"), s[n])

LEMMA JudgedIs == ASSUME NEW layers, ReadableLayers(layers), Judge(layers).accepted
  PROVE \E q, n, s, w : LaidOut(layers, q, n, s, w)
          /\ Judge(layers) = [accepted |-> TRUE, layers |-> layers, spec |-> s[n], winners |-> w[n]]
<1> DEFINE c == ComposeLayers(layers)
           q == InPrecedence(layers)
           n == Len(q)
           yes == [accepted |-> TRUE, layers |-> layers, spec |-> c.spec, winners |-> c.winners]
<1>1. ~NoComposition.accepted
  BY DEF NoComposition
<1>2. LayerSetValid(layers) /\ ~c.refused /\ FloorHolds(SpecOf(layers, "organisation"), c.spec) /\ Judge(layers) = yes
  <2> HIDE DEF c
  <2>1. Judge(layers) = IF ~LayerSetValid(layers) THEN NoComposition
                        ELSE IF c.refused THEN NoComposition
                        ELSE IF ~FloorHolds(SpecOf(layers, "organisation"), c.spec) THEN NoComposition
                        ELSE yes
    BY DEF Judge, c
  <2> HIDE DEF yes
  <2>2. QED
    BY <1>1, <2>1
<1>3. LayersInOrder(q, layers) /\ KindsDiffer(Range(layers))
  BY <1>2, PrecedenceOrders
<1>4. n \in Nat /\ DOMAIN q = 1 .. n
  BY <1>3 DEF LayersInOrder, ReadableLayers
<1>5. \E s, w : Composed(q, n, s, w) /\ c.spec = s[n] /\ c.winners = w[n]
  <2>1. c = FoldLeft(Composing, [refused |-> FALSE, spec |-> << >>, winners |-> << >>], q)
    BY DEF ComposeLayers
  <2> HIDE DEF c, q, n
  <2>2. QED
    BY <1>2, <1>4, <2>1, LayersUnroll
<1>6. PICK s, w : Composed(q, n, s, w) /\ c.spec = s[n] /\ c.winners = w[n]
  BY <1>5
<1>7. LaidOut(layers, q, n, s, w)
  <2> HIDE DEF q, c
  <2>1. QED
    BY <1>2, <1>3, <1>4, <1>6 DEF LaidOut
<1>8. Judge(layers) = [accepted |-> TRUE, layers |-> layers, spec |-> s[n], winners |-> w[n]]
  BY <1>2, <1>6
<1> HIDE DEF q, c, n
<1>9. QED
  BY <1>7, <1>8

\* What the properties ask of the composition that stands.
ResultStands(layers, q, n, s, w) ==
  /\ LaidOut(layers, q, n, s, w)
  /\ coResult.accepted /\ coResult.layers = layers /\ coResult.spec = s[n] /\ coResult.winners = w[n]

LEMMA ComposedAre == ASSUME NEW layers, NEW q, NEW n, NEW s, NEW w, ResultStands(layers, q, n, s, w)
  PROVE /\ n \in Nat /\ LayersComposed = Range(layers)
        /\ \A l : l \in LayersComposed <=> \E i \in 1 .. n : l = q[i]
<1>1. n \in Nat /\ LayersComposed = Range(layers) /\ Range(q) = Range(layers) /\ DOMAIN q = 1 .. n
  BY DEF ResultStands, LaidOut, LayersComposed, LayersInOrder, ReadableLayers
<1>2. QED
  BY <1>1 DEF Range

LEMMA StandsUnweakened == ASSUME NEW layers, NEW q, NEW n, NEW s, NEW w, ResultStands(layers, q, n, s, w) PROVE NothingIsWeakened
<1> DEFINE spec == coResult.spec
           organisation == SpecOf(coResult.layers, "organisation")
<1>1. spec = s[n] /\ Composed(q, n, s, w) /\ FloorHolds(organisation, spec)
  BY DEF ResultStands, LaidOut
<1>2. \A l \in LayersComposed : Denied(l.spec) \subseteq Denied(spec)
  <2> SUFFICES ASSUME NEW l \in LayersComposed PROVE Denied(l.spec) \subseteq Denied(spec)
    OBVIOUS
  <2>1. PICK i \in 1 .. n : l = q[i]
    BY ComposedAre
  <2>2. Denied(q[i].spec) \subseteq Denied(s[n])
    BY <1>1, ComposedAre, DenialsGrow
  <2>3. QED
    BY <1>1, <2>1, <2>2
<1> HIDE DEF spec, organisation
<1>3. "packages" \in DOMAIN spec /\ "packageSources" \in DOMAIN organisation =>
         \A i \in DOMAIN spec.packages :
           SourceAllowed(spec, spec.packages[i]) => SourceAllowed(organisation, spec.packages[i])
  BY <1>1 DEF FloorHolds, AllowlistNarrowed, SourceAllowed
<1>4. ControlKept(organisation, spec) /\ BoundsKept(organisation, spec)
  BY <1>1 DEF FloorHolds
<1>5. QED
  BY <1>2, <1>3, <1>4 DEF NothingIsWeakened, spec, organisation

LEMMA StandsSpecific == ASSUME NEW layers, NEW q, NEW n, NEW s, NEW w, ResultStands(layers, q, n, s, w) PROVE MostSpecificWins
<1>1. n \in Nat /\ Composed(q, n, s, w) /\ LayersInOrder(q, layers) /\ n = Len(q) /\ KindsDiffer(LayersComposed)
  BY ComposedAre DEF ResultStands, LaidOut
<1>2. \A i \in 1 .. n : q[i].kind \in Range(LayerKinds) /\ q[i] \in LayersComposed
  BY <1>1, ComposedAre DEF LayersInOrder, ReadableLayers, ReadableLayer
<1>3. ASSUME NEW f \in DOMAIN s[n]
      PROVE w[n][f] = Specific(f).kind /\ (Strategy(f) = "Replace" => s[n][f] = Specific(f).spec[f])
  <2>1. PICK i \in 1 .. n : LastOf(q, f, i, n) /\ w[n][f] = q[i].kind /\ (Strategy(f) = "Replace" => s[n][f] = q[i].spec[f])
    BY <1>1, LastDecides
  <2> DEFINE speakers == {l \in LayersComposed : f \in DOMAIN l.spec}
  <2>2. q[i] \in speakers
    BY <1>2, <2>1 DEF LastOf
  <2>3. \A m \in speakers : Precedence(m.kind) <= Precedence(q[i].kind)
    <3> SUFFICES ASSUME NEW m \in speakers PROVE Precedence(m.kind) <= Precedence(q[i].kind)
      OBVIOUS
    <3>1. PICK j \in 1 .. n : m = q[j]
      BY ComposedAre
    <3>2. j <= i
      <4>1. f \in DOMAIN q[j].spec
        BY <3>1
      <4>2. j \notin (i + 1) .. n
        BY <2>1, <4>1 DEF LastOf
      <4>3. QED
        BY <1>1, <4>2
    <3>3. j = i \/ Ahead(q[j], q[i])
      BY <1>1, <3>2 DEF LayersInOrder
    <3>4. Precedence(q[i].kind) \in 1 .. 5 /\ Precedence(q[j].kind) \in 1 .. 5
      BY <1>2, PlacesOfKinds
    <3>5. QED
      BY <3>1, <3>3, <3>4 DEF Ahead
  <2>4. ASSUME NEW l \in speakers, \A m \in speakers : Precedence(m.kind) <= Precedence(l.kind) PROVE l = q[i]
    <3>1. l.kind \in Range(LayerKinds) /\ q[i].kind \in Range(LayerKinds)
      BY <1>2, ComposedAre
    <3>2. Precedence(l.kind) \in 1 .. 5 /\ Precedence(q[i].kind) \in 1 .. 5
      BY <3>1, PlacesOfKinds
    <3>3. Precedence(l.kind) <= Precedence(q[i].kind) /\ Precedence(q[i].kind) <= Precedence(l.kind)
      BY <2>2, <2>3, <2>4
    <3>4. Precedence(l.kind) = Precedence(q[i].kind)
      BY <3>2, <3>3
    <3>5. l.kind = q[i].kind
      BY <3>1, <3>4, PlacesOfKinds
    <3>6. l \in LayersComposed /\ q[i] \in LayersComposed
      BY <2>2
    <3>7. QED
      BY <1>1, <3>5, <3>6 DEF KindsDiffer
  <2>5. Specific(f) = q[i]
    <3>1. Specific(f) = CHOOSE l \in speakers : \A m \in speakers : Precedence(m.kind) <= Precedence(l.kind)
      BY DEF Specific
    <3> HIDE DEF speakers
    <3>2. QED
      BY <2>2, <2>3, <2>4, <3>1
  <2>6. QED
    BY <2>1, <2>5
<1>4. \A f : f \notin {"packages", "deniedPaths"} => Strategy(f) = "Replace"
  BY DEF Strategy
<1>5. coResult.accepted /\ coResult.spec = s[n] /\ coResult.winners = w[n]
  BY DEF ResultStands
<1>6. QED
  BY <1>3, <1>4, <1>5 DEF MostSpecificWins

LEMMA StandsMerged == ASSUME NEW layers, NEW q, NEW n, NEW s, NEW w, ResultStands(layers, q, n, s, w) PROVE PackagesMergedOnce
<1>1. n \in Nat /\ Composed(q, n, s, w) /\ LayersInOrder(q, layers) /\ n = Len(q)
  BY ComposedAre DEF ResultStands, LaidOut
<1> DEFINE speakers == {l \in LayersComposed : "packages" \in DOMAIN l.spec}
           Overriding(l, id, f) == {m \in speakers : /\ Precedence(m.kind) > Precedence(l.kind)
                                                /\ \E p \in Range(m.spec.packages) : Settles(p, id, f)}
<1>2. \A i \in 1 .. n : q[i].kind \in Range(LayerKinds) /\ q[i] \in LayersComposed
  BY <1>1, ComposedAre DEF LayersInOrder, ReadableLayers, ReadableLayer
<1>3. \A i \in 1 .. n : Speaks(q, i) /\ q[i].spec.packages # DeleteMark => Listing(q[i].spec.packages)
  BY <1>1 DEF LayersInOrder, ReadableLayers, ReadableLayer, Speaks
<1>4. /\ "packages" \in DOMAIN s[n] => Listing(s[n].packages)
      /\ \A i \in 1 .. n : Speaks(q, i) =>
           \A y : Has(q[i].spec.packages, y) /\ ~Later(q, i, n, y) => Has(s[n].packages, y)
      /\ \A i, j \in 1 .. n : i # j /\ Speaks(q, i) /\ Speaks(q, j) => OnceEach(s[n].packages)
  <2>1. n \in 0 .. n
    BY <1>1
  <2>2. QED
    BY <1>1, <1>3, <2>1, PackagesStand
<1>5. \A i \in 1 .. n : Speaks(q, i) => Listing(q[i].spec.packages) /\ Listing(s[n].packages)
  <2> SUFFICES ASSUME NEW i \in 1 .. n, Speaks(q, i) PROVE Listing(q[i].spec.packages) /\ Listing(s[n].packages)
    OBVIOUS
  <2>1. ~MergeRefused(s[i - 1], q[i].spec)
    BY <1>1 DEF Composed
  <2>2. q[i].spec.packages # DeleteMark
    BY <2>1 DEF MergeRefused, Speaks
  <2>3. "packages" \in DOMAIN s[n]
    <3>1. n \in 0 .. n
      BY <1>1
    <3>2. DOMAIN q[i].spec \subseteq DOMAIN s[n]
      BY <1>1, <3>1, LastDecides
    <3>3. QED
      BY <3>2 DEF Speaks
  <2>4. QED
    BY <1>3, <1>4, <2>2, <2>3
<1>6. ASSUME NEW l \in speakers, NEW p \in Range(l.spec.packages), NEW f \in DOMAIN p, Overriding(l, p.id, f) = {}
      PROVE \E r \in Range(s[n].packages) : Gives(r, p.id, f, p[f])
  <2> DEFINE y == [id |-> p.id, field |-> f, value |-> p[f]]
  <2>1. PICK i \in 1 .. n : l = q[i]
    BY ComposedAre
  <2> DEFINE t == q[i].spec.packages
             u == s[n].packages
  <2>2. Speaks(q, i) /\ Listing(t) /\ Listing(u)
    BY <1>5, <2>1 DEF Speaks
  <2>3. y.id = p.id /\ y.field = f /\ y.value = p[f]
    OBVIOUS
  <2> HIDE DEF y
  <2>4. Has(t, y)
    <3>1. p \in Range(t)
      BY <2>1
    <3> HIDE DEF t
    <3>2. PICK h \in 1 .. Len(t) : t[h] = p
      BY <2>2, <3>1, ItemsListed DEF Range
    <3>3. Sets(p, y)
      BY <1>6, <2>3 DEF Sets, Gives, Settles
    <3>4. QED
      BY <3>2, <3>3 DEF Has
  <2>5. ~Later(q, i, n, y)
    <3> SUFFICES ASSUME NEW j \in (i + 1) .. n, Speaks(q, j), NamesField(q[j].spec.packages, y) PROVE FALSE
      BY DEF Later
    <3>1. j \in 1 .. n /\ i < j
      BY <1>1
    <3>2. q[j] \in speakers
      BY <1>2, <3>1 DEF Speaks
    <3>3. Ahead(q[i], q[j])
      BY <1>1, <3>1 DEF LayersInOrder
    <3>4. Precedence(q[j].kind) > Precedence(l.kind)
      <4>1. Precedence(q[i].kind) \in 1 .. 5 /\ Precedence(q[j].kind) \in 1 .. 5
        BY <1>2, <3>1, PlacesOfKinds
      <4>2. QED
        BY <2>1, <3>3, <4>1 DEF Ahead
    <3>5. \E r \in Range(q[j].spec.packages) : Settles(r, p.id, f)
      <4> DEFINE v == q[j].spec.packages
      <4>1. Listing(v) /\ NamesField(v, y)
        BY <1>5, <3>1
      <4> HIDE DEF v
      <4>2. PICK h \in 1 .. Len(v) : Settles(v[h], p.id, f)
        BY <2>3, <4>1 DEF NamesField, Decides
      <4>3. v[h] \in Range(v)
        BY <4>1, ItemsListed DEF Range
      <4>4. QED
        BY <4>2, <4>3 DEF v
    <3>6. q[j] \in Overriding(l, p.id, f)
      BY <3>2, <3>4, <3>5
    <3>7. QED
      BY <1>6, <3>6
  <2>6. Has(u, y)
    BY <1>4, <2>2, <2>4, <2>5
  <2> HIDE DEF u
  <2>7. PICK h \in 1 .. Len(u) : Sets(u[h], y)
    BY <2>6 DEF Has
  <2>8. Gives(u[h], p.id, f, p[f])
    BY <2>3, <2>7 DEF Sets
  <2>9. u[h] \in Range(u)
    BY <2>2, ItemsListed DEF Range
  <2>10. QED
    BY <2>8, <2>9 DEF u
<1>7. ASSUME NEW l \in speakers, Cardinality(speakers) > 1 PROVE IsInjective(ItemIds(s[n].packages))
  <2>1. \E m \in speakers : m # l
    <3> SUFFICES ASSUME speakers = {l} PROVE FALSE
      OBVIOUS
    <3>1. Cardinality({l}) = 1
      BY FS_Singleton
    <3> HIDE DEF speakers
    <3>2. QED
      BY <1>7, <3>1
  <2>2. PICK m \in speakers : m # l
    BY <2>1
  <2>3. PICK i \in 1 .. n : l = q[i]
    BY ComposedAre
  <2>4. PICK j \in 1 .. n : m = q[j]
    BY ComposedAre
  <2>5. i # j /\ Speaks(q, i) /\ Speaks(q, j)
    BY <2>2, <2>3, <2>4 DEF Speaks
  <2>6. OnceEach(s[n].packages) /\ Listing(s[n].packages)
    BY <1>4, <1>5, <2>5
  <2>7. QED
    BY <2>6, IdsOf, ItemsListed
<1>8. coResult.spec = s[n]
  BY DEF ResultStands
<1>9. QED
  BY <1>6, <1>7, <1>8 DEF PackagesMergedOnce

-----------------------------------------------------------------------------
(* Composition: what is read, and what becomes of it.                       *)

WellListed(spec) == "packages" \in DOMAIN spec => spec.packages = DeleteMark \/ Listing(spec.packages)

CompositionInv ==
  /\ DOMAIN coFiles = DOMAIN LayerSpecs /\ \A k \in DOMAIN LayerSpecs : WellListed(coFiles[k].spec)
  /\ coListed \in Seq(DOMAIN LayerSpecs)
  /\ ReadableLayers(coRead)
  /\ coResult = NoComposition \/ \E layers : ReadableLayers(layers) /\ coResult = Judge(layers)

\* What was judged keeps what the layers lay down.
LEMMA CompositionKeeps == ASSUME CompositionInv PROVE NothingIsWeakened /\ MostSpecificWins /\ PackagesMergedOnce
<1>1. ASSUME ~coResult.accepted PROVE NothingIsWeakened /\ MostSpecificWins /\ PackagesMergedOnce
  BY <1>1 DEF NothingIsWeakened, MostSpecificWins, PackagesMergedOnce
<1>2. ASSUME coResult.accepted PROVE NothingIsWeakened /\ MostSpecificWins /\ PackagesMergedOnce
  <2>1. PICK layers : ReadableLayers(layers) /\ coResult = Judge(layers)
    BY <1>2 DEF CompositionInv, NoComposition
  <2>2. PICK q, n, s, w : LaidOut(layers, q, n, s, w)
          /\ Judge(layers) = [accepted |-> TRUE, layers |-> layers, spec |-> s[n], winners |-> w[n]]
    BY <1>2, <2>1, JudgedIs
  <2>3. coResult.accepted /\ coResult.layers = layers /\ coResult.spec = s[n] /\ coResult.winners = w[n]
    BY <2>1, <2>2
  <2>4. ResultStands(layers, q, n, s, w)
    BY <2>2, <2>3 DEF ResultStands
  <2>5. QED
    BY <2>4, StandsUnweakened, StandsSpecific, StandsMerged
<1>3. QED
  BY <1>1, <1>2

LEMMA CompositionStart == CompositionInit => CompositionInv
<1> SUFFICES ASSUME CompositionInit PROVE CompositionInv
  OBVIOUS
<1>1. DOMAIN coFiles = DOMAIN LayerSpecs /\ \A k \in DOMAIN LayerSpecs : coFiles[k].spec = << >>
  BY DEF CompositionInit
<1>2. WellListed(<< >>)
  BY DEF WellListed
<1>3. coListed = <<>> /\ coRead = <<>> /\ coResult = NoComposition
  BY DEF CompositionInit
<1>4. ReadableLayers(<<>>)
  <2>1. Len(<<>>) = 0 /\ <<>> \in [1 .. 0 -> Range(<<>>)]
    OBVIOUS
  <2>2. QED
    BY <2>1 DEF ReadableLayers
<1>5. QED
  BY <1>1, <1>2, <1>3, <1>4 DEF CompositionInv

\* A layer that is read is one more readable layer.
LEMMA OneMoreRead == ASSUME NEW q, ReadableLayers(q), NEW l, ReadableLayer(l) PROVE ReadableLayers(Append(q, l))
<1> DEFINE X == Range(q) \cup {l}
           a == Append(q, l)
           n == Len(q)
<1>1. n \in Nat /\ q \in [1 .. n -> Range(q)] /\ \A i \in 1 .. n : ReadableLayer(q[i])
  BY DEF ReadableLayers
<1>2. q \in Seq(X)
  <2>1. q \in [1 .. n -> X]
    BY <1>1
  <2> HIDE DEF X
  <2>2. q \in Seq(X)
    BY <1>1, <2>1, SeqDef
  <2>3. QED
    BY <2>2
<1>3. a \in Seq(X) /\ Len(a) = n + 1 /\ a[n + 1] = l /\ \A i \in 1 .. n : a[i] = q[i]
  <2>1. l \in X
    OBVIOUS
  <2> HIDE DEF X
  <2>2. QED
    BY <1>2, <2>1
<1> HIDE DEF a
<1>4. a \in [1 .. n + 1 -> Range(a)]
  <2>1. DOMAIN a = 1 .. (n + 1) /\ a \in [1 .. (n + 1) -> X]
    <3> HIDE DEF X
    <3>1. QED
      BY <1>1, <1>3
  <2>2. QED
    BY <2>1 DEF Range
<1>5. \A i \in 1 .. (n + 1) : ReadableLayer(a[i])
  <2> TAKE i \in 1 .. (n + 1)
  <2>1. i \in 1 .. n \/ i = n + 1
    BY <1>1
  <2>2. QED
    BY <1>1, <1>3, <2>1
<1>6. QED
  BY <1>1, <1>3, <1>4, <1>5 DEF ReadableLayers, a

LEMMA CompositionStep == ASSUME CompositionInv, [CompositionNext]_coVars PROVE CompositionInv'
<1>1. CASE UNCHANGED coVars
  BY <1>1 DEF coVars, CompositionInv, WellListed, ReadableLayers, ReadableLayer, Judge, NoComposition
<1>2. ASSUME NEW k \in DOMAIN LayerSpecs, NEW spec \in LayerSpecs[k], NEW sealed \in BOOLEAN, EditLayer(k, spec, sealed)
      PROVE CompositionInv'
  <2>1. WellListed(spec)
    BY LayersKnown DEF WellListed
  <2>2. coFiles' = [coFiles EXCEPT ![k] = [spec |-> spec, sealed |-> sealed]] /\ UNCHANGED <<coListed, coRead, coResult>>
    BY <1>2 DEF EditLayer
  <2>3. DOMAIN coFiles' = DOMAIN LayerSpecs /\ \A c \in DOMAIN LayerSpecs : WellListed(coFiles'[c].spec)
    BY <2>1, <2>2 DEF CompositionInv
  <2>4. QED
    BY <2>2, <2>3 DEF CompositionInv
<1>3. ASSUME NEW e \in CompositionEntries, NEW listed \in ListedLayers, BeginComposition(e, listed) PROVE CompositionInv'
  <2>1. coListed' = listed /\ coRead' = <<>> /\ coResult' = NoComposition /\ coFiles' = coFiles
    BY <1>3 DEF BeginComposition
  <2>2. listed \in Seq(DOMAIN LayerSpecs)
    BY LayersKnown
  <2>3. ReadableLayers(<<>>)
    <3>1. Len(<<>>) = 0 /\ <<>> \in [1 .. 0 -> Range(<<>>)]
      OBVIOUS
    <3>2. QED
      BY <3>1 DEF ReadableLayers
  <2>4. QED
    BY <2>1, <2>2, <2>3 DEF CompositionInv
<1>4. ASSUME ReadLayer PROVE CompositionInv'
  <2> DEFINE k == coListed[Len(coRead) + 1]
             l == [kind |-> k, spec |-> coFiles[k].spec]
  <2>1. UNCHANGED <<coFiles, coListed, coResult>> /\ (coRead' = coRead \/ coRead' = Append(coRead, l))
    BY <1>4 DEF ReadLayer
  <2>2. ReadableLayer(l)
    <3>1. Len(coRead) \in Nat /\ Len(coRead) < Len(coListed) /\ coListed \in Seq(DOMAIN LayerSpecs)
      BY <1>4 DEF ReadLayer, CompositionInv, ReadableLayers
    <3>2. k \in DOMAIN LayerSpecs
      BY <3>1
    <3> HIDE DEF k
    <3>3. k \in Range(LayerKinds) /\ WellListed(coFiles[k].spec)
      BY <3>2, LayersKnown DEF CompositionInv
    <3>4. QED
      BY <3>3 DEF ReadableLayer, WellListed
  <2> HIDE DEF l
  <2>3. ReadableLayers(coRead')
    BY <2>1, <2>2, OneMoreRead DEF CompositionInv
  <2>4. QED
    BY <2>1, <2>3 DEF CompositionInv
<1>5. ASSUME NEW e, Composes(e) PROVE CompositionInv'
  <2>1. coResult' = Judge(coRead) /\ UNCHANGED <<coFiles, coListed, coRead>>
    BY <1>5 DEF Composes
  <2>2. QED
    BY <2>1 DEF CompositionInv
<1>6. QED
  BY <1>1, <1>2, <1>3, <1>4, <1>5 DEF CompositionNext, DaemonComposes, CommandLineComposes, OnboardingComposes
=============================================================================
