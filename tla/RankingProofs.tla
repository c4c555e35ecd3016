--------------------------- MODULE RankingProofs ---------------------------
(***************************************************************************)
(* The ranking totals proved for every set of enrollments, results and     *)
(* subjects: types, that every award and every saved result moves each     *)
(* total by exactly what it writes, and that clubs and boards never lose   *)
(* points they are due.                                                    *)
(*                                                                         *)
(* The first part is about SumFunctionOnSet, defined by recursion over     *)
(* subsets.  A fact about all finite sets is proved by taking a smallest   *)
(* set it fails for.                                                       *)
(***************************************************************************)
EXTENDS Ranking, FiniteSetTheorems, WellFoundedInduction, TLAPS

-----------------------------------------------------------------------------
(* Sums over finite sets *)

\* The value of a sum at t, from its values at smaller sets.
Body(f, g, t) ==
  IF t = {} THEN 0
  ELSE f[CHOOSE x \in t : TRUE] + g[t \ {CHOOSE x \in t : TRUE}]

IsSum(f, S, g) == g = [t \in SUBSET S |-> Body(f, g, t)]

\* Among finite sets there is a smallest one.
LEMMA SmallestSet ==
  ASSUME NEW B, B # {}, \A T \in B : IsFiniteSet(T)
  PROVE  \E T \in B : \A U \in B : ~(Cardinality(U) < Cardinality(T))
  <1> DEFINE N == {Cardinality(T) : T \in B}
  <1>1. N # {} /\ N \in SUBSET Nat
    BY FS_CardinalityType
  <1>2. PICK n \in N : \A m \in N : <<m, n>> \notin OpToRel(<, Nat)
    <2> HIDE DEF N
    <2> QED
      BY <1>1, WFMin, NatLessThanWellFounded
  <1>3. \A m \in N : ~(m < n)
    BY <1>1, <1>2 DEF OpToRel
  <1> QED
    BY <1>3

\* An element taken out of a finite set leaves a smaller one.
LEMMA TakenOut ==
  ASSUME NEW T, IsFiniteSet(T), NEW x \in T
  PROVE  IsFiniteSet(T \ {x}) /\ Cardinality(T \ {x}) < Cardinality(T)
  <1>1. /\ IsFiniteSet(T \ {x}) /\ Cardinality(T \ {x}) = Cardinality(T) - 1
        /\ Cardinality(T) \in Nat
    BY FS_RemoveElement, FS_CardinalityType
  <1> QED
    BY <1>1

\* CHOOSE picks an element.
LEMMA Picked ==
  ASSUME NEW t, t # {}
  PROVE  (CHOOSE x \in t : TRUE) \in t
  OBVIOUS

\* There is a function that sums f over every subset of a finite set.
LEMMA SumExists ==
  ASSUME NEW f, NEW S, IsFiniteSet(S)
  PROVE  \E g : IsSum(f, S, g)
  <1> DEFINE Up(n) == {t \in SUBSET S : Cardinality(t) <= n}
             Good(n) == \E g : g = [t \in Up(n) |-> Body(f, g, t)]
  <1>1. \A t \in SUBSET S : IsFiniteSet(t) /\ Cardinality(t) \in Nat
                            /\ Cardinality(t) <= Cardinality(S)
    BY FS_Subset, FS_CardinalityType
  <1>2. Good(0)
    <2> DEFINE g == [t \in Up(0) |-> 0]
    <2>1. \A t \in Up(0) : t = {}
      BY <1>1, FS_EmptySet
    <2>2. g = [t \in Up(0) |-> Body(f, g, t)]
      BY <2>1 DEF Body
    <2> QED
      BY <2>2
  <1>3. ASSUME NEW n \in Nat, Good(n) PROVE Good(n + 1)
    <2>1. PICK g : g = [t \in Up(n) |-> Body(f, g, t)]
      BY <1>3
    <2> DEFINE h == [t \in Up(n + 1) |-> IF t \in Up(n) THEN g[t] ELSE Body(f, g, t)]
    <2>2. ASSUME NEW t \in Up(n + 1) PROVE h[t] = Body(f, h, t)
      <3>1. h[t] = Body(f, g, t)
        BY <2>1
      <3>2. CASE t = {}
        BY <3>1, <3>2 DEF Body
      <3>3. CASE t # {}
        <4> DEFINE x == CHOOSE y \in t : TRUE
        <4>1. x \in t
          BY <3>3, Picked
        <4> HIDE DEF x
        <4>2. t \ {x} \in Up(n) /\ t \ {x} \in Up(n + 1)
          BY <1>1, <4>1, TakenOut
        <4>3. h[t \ {x}] = g[t \ {x}]
          BY <4>2
        <4> HIDE DEF h
        <4> QED
          BY <3>1, <3>3, <4>3 DEF Body, x
      <3> QED
        BY <3>2, <3>3
    <2>3. h = [t \in Up(n + 1) |-> Body(f, h, t)]
      <3>1. h = [t \in Up(n + 1) |-> h[t]]
        OBVIOUS
      <3> HIDE DEF h
      <3> QED
        BY <2>2, <3>1
    <2> QED
      BY <2>3
  <1>4. \A n \in Nat : Good(n)
    <2> DEFINE Bad == {n \in Nat : ~Good(n)}
    <2> SUFFICES ASSUME Bad # {} PROVE FALSE
      OBVIOUS
    <2>1. PICK n \in Bad : \A m \in Bad : <<m, n>> \notin OpToRel(<, Nat)
      BY WFMin, NatLessThanWellFounded
    <2>2. \A m \in Bad : ~(m < n)
      BY <2>1 DEF OpToRel
    <2> HIDE DEF Good
    <2>3. n \in Nat /\ ~Good(n)
      OBVIOUS
    <2>4. n # 0
      BY <1>2, <2>3
    <2>5. n - 1 \in Nat /\ n - 1 < n /\ (n - 1) + 1 = n
      BY <2>3, <2>4
    <2>6. Good(n - 1)
      BY <2>2, <2>5
    <2> QED
      BY <1>3, <2>3, <2>5, <2>6
  <1>5. Cardinality(S) \in Nat /\ Up(Cardinality(S)) = SUBSET S
    BY <1>1, FS_CardinalityType
  <1>6. Good(Cardinality(S))
    BY <1>4, <1>5
  <1> QED
    BY <1>5, <1>6 DEF IsSum

\* The values of a sum are determined.
LEMMA SumUnique ==
  ASSUME NEW f, NEW S, IsFiniteSet(S), NEW T \in SUBSET S,
         NEW g, IsSum(f, S, g), NEW h, IsSum(f, T, h), NEW u \in SUBSET T
  PROVE  g[u] = h[u]
  <1> DEFINE B == {t \in SUBSET T : g[t] # h[t]}
  <1> SUFFICES ASSUME B # {} PROVE FALSE
    OBVIOUS
  <1>1. \A t \in SUBSET T : /\ IsFiniteSet(t) /\ t \in SUBSET S
                            /\ g[t] = Body(f, g, t) /\ h[t] = Body(f, h, t)
    <2>1. \A t \in SUBSET S : g[t] = Body(f, g, t)
      BY DEF IsSum
    <2>2. \A t \in SUBSET T : h[t] = Body(f, h, t)
      BY DEF IsSum
    <2> QED
      BY <2>1, <2>2, FS_Subset
  <1>2. PICK t \in B : \A v \in B : ~(Cardinality(v) < Cardinality(t))
    BY <1>1, SmallestSet
  <1>3. t # {}
    BY <1>1 DEF Body
  <1> DEFINE x == CHOOSE y \in t : TRUE
  <1>4. x \in t
    BY <1>3, Picked
  <1> HIDE DEF x
  <1>5. t \ {x} \in SUBSET T /\ Cardinality(t \ {x}) < Cardinality(t)
    BY <1>1, <1>4, TakenOut
  <1>6. g[t \ {x}] = h[t \ {x}]
    BY <1>2, <1>5
  <1>7. Body(f, g, t) = Body(f, h, t)
    BY <1>6 DEF Body, x
  <1> QED
    BY <1>1, <1>7

\* What SumFunctionOnSet computes: any sum.
LEMMA SumIs ==
  ASSUME NEW f, NEW S, IsFiniteSet(S), NEW g, IsSum(f, S, g),
         NEW T \in SUBSET S
  PROVE  SumFunctionOnSet(f, T) = g[T]
  <1> DEFINE c == CHOOSE h : IsSum(f, T, h)
  <1>1. IsFiniteSet(T)
    BY FS_Subset
  <1>2. IsSum(f, T, c)
    BY <1>1, SumExists
  <1>3. SumFunctionOnSet(f, T) = c[T]
    BY DEF SumFunctionOnSet, FoldFunctionOnSet, MapThenFoldSet, IsSum, Body
  <1> HIDE DEF c
  <1>4. g[T] = c[T]
    BY <1>2, SumUnique
  <1> QED
    BY <1>3, <1>4

\* The empty sum.
LEMMA SumEmpty ==
  ASSUME NEW f PROVE SumFunctionOnSet(f, {}) = 0
  <1>1. IsFiniteSet({}) /\ {} \in SUBSET {}
    BY FS_EmptySet
  <1>2. PICK g : IsSum(f, {}, g)
    BY <1>1, SumExists
  <1>3. g[{}] = 0
    BY <1>2 DEF IsSum, Body
  <1> QED
    BY <1>1, <1>2, <1>3, SumIs

\* Some element of the set is summed last.
LEMMA SumPick ==
  ASSUME NEW f, NEW T, IsFiniteSet(T), T # {}
  PROVE  \E x \in T : SumFunctionOnSet(f, T) = f[x] + SumFunctionOnSet(f, T \ {x})
  <1> DEFINE x == CHOOSE y \in T : TRUE
  <1>1. x \in T
    BY Picked
  <1>2. PICK g : IsSum(f, T, g)
    BY SumExists
  <1>3. g[T] = f[x] + g[T \ {x}]
    BY <1>2 DEF IsSum, Body
  <1> HIDE DEF x
  <1>4. SumFunctionOnSet(f, T) = g[T] /\ SumFunctionOnSet(f, T \ {x}) = g[T \ {x}]
    BY <1>2, SumIs
  <1> QED
    BY <1>1, <1>3, <1>4

\* A sum of integers is an integer.
LEMMA SumInt ==
  ASSUME NEW f, NEW S, IsFiniteSet(S), \A x \in S : f[x] \in Int
  PROVE  SumFunctionOnSet(f, S) \in Int
  <1> DEFINE B == {T \in SUBSET S : SumFunctionOnSet(f, T) \notin Int}
  <1> SUFFICES ASSUME B # {} PROVE FALSE
    OBVIOUS
  <1>1. \A T \in SUBSET S : IsFiniteSet(T)
    BY FS_Subset
  <1>2. PICK T \in B : \A U \in B : ~(Cardinality(U) < Cardinality(T))
    BY <1>1, SmallestSet
  <1>3. T # {}
    BY SumEmpty
  <1>4. PICK x \in T :
          SumFunctionOnSet(f, T) = f[x] + SumFunctionOnSet(f, T \ {x})
    BY <1>1, <1>3, SumPick
  <1>5. T \ {x} \in SUBSET S /\ Cardinality(T \ {x}) < Cardinality(T)
    BY <1>1, TakenOut
  <1>6. SumFunctionOnSet(f, T \ {x}) \in Int /\ f[x] \in Int
    BY <1>2, <1>5
  <1> QED
    BY <1>4, <1>6

\* A sum of naturals is a natural.
LEMMA SumNat ==
  ASSUME NEW f, NEW S, IsFiniteSet(S), \A x \in S : f[x] \in Nat
  PROVE  SumFunctionOnSet(f, S) \in Nat
  <1> DEFINE B == {T \in SUBSET S : SumFunctionOnSet(f, T) \notin Nat}
  <1> SUFFICES ASSUME B # {} PROVE FALSE
    OBVIOUS
  <1>1. \A T \in SUBSET S : IsFiniteSet(T)
    BY FS_Subset
  <1>2. PICK T \in B : \A U \in B : ~(Cardinality(U) < Cardinality(T))
    BY <1>1, SmallestSet
  <1>3. T # {}
    BY SumEmpty
  <1>4. PICK x \in T :
          SumFunctionOnSet(f, T) = f[x] + SumFunctionOnSet(f, T \ {x})
    BY <1>1, <1>3, SumPick
  <1>5. T \ {x} \in SUBSET S /\ Cardinality(T \ {x}) < Cardinality(T)
    BY <1>1, TakenOut
  <1>6. SumFunctionOnSet(f, T \ {x}) \in Nat /\ f[x] \in Nat
    BY <1>2, <1>5
  <1> QED
    BY <1>4, <1>6

\* A sum of zeros.
LEMMA SumZero ==
  ASSUME NEW f, NEW S, IsFiniteSet(S), \A x \in S : f[x] = 0
  PROVE  SumFunctionOnSet(f, S) = 0
  <1> DEFINE B == {T \in SUBSET S : SumFunctionOnSet(f, T) # 0}
  <1> SUFFICES ASSUME B # {} PROVE FALSE
    OBVIOUS
  <1>1. \A T \in SUBSET S : IsFiniteSet(T)
    BY FS_Subset
  <1>2. PICK T \in B : \A U \in B : ~(Cardinality(U) < Cardinality(T))
    BY <1>1, SmallestSet
  <1>3. T # {}
    BY SumEmpty
  <1>4. PICK x \in T :
          SumFunctionOnSet(f, T) = f[x] + SumFunctionOnSet(f, T \ {x})
    BY <1>1, <1>3, SumPick
  <1>5. T \ {x} \in SUBSET S /\ Cardinality(T \ {x}) < Cardinality(T)
    BY <1>1, TakenOut
  <1>6. SumFunctionOnSet(f, T \ {x}) = 0 /\ f[x] = 0
    BY <1>2, <1>5
  <1> QED
    BY <1>4, <1>6

\* The sum with y summed last.
LastSummed(f, S, y) == f[y] + SumFunctionOnSet(f, S \ {y})

\* Any element of the set may be summed last.
LEMMA SumRemove ==
  ASSUME NEW f, NEW S, IsFiniteSet(S), \A x \in S : f[x] \in Int,
         NEW y \in S
  PROVE  SumFunctionOnSet(f, S) = LastSummed(f, S, y)
  <1> USE DEF LastSummed
  <1> DEFINE Out(T, z) ==
               SumFunctionOnSet(f, T) = f[z] + SumFunctionOnSet(f, T \ {z})
             B == {T \in SUBSET S : \E z \in T : ~Out(T, z)}
  <1> SUFFICES ASSUME B # {} PROVE FALSE
    OBVIOUS
  <1>1. \A T \in SUBSET S : IsFiniteSet(T)
    BY FS_Subset
  <1>2. PICK T \in B : \A U \in B : ~(Cardinality(U) < Cardinality(T))
    BY <1>1, SmallestSet
  <1>3. PICK z \in T : ~Out(T, z)
    OBVIOUS
  <1>4. PICK x \in T : Out(T, x)
    BY <1>1, SumPick
  <1>5. x # z
    BY <1>3, <1>4
  <1>6. /\ T \ {x} \in SUBSET S /\ Cardinality(T \ {x}) < Cardinality(T)
        /\ T \ {z} \in SUBSET S /\ Cardinality(T \ {z}) < Cardinality(T)
        /\ (T \ {x}) \ {z} = (T \ {z}) \ {x}
        /\ z \in T \ {x} /\ x \in T \ {z}
    BY <1>1, <1>5, TakenOut
  <1>7. Out(T \ {x}, z) /\ Out(T \ {z}, x)
    BY <1>2, <1>6
  <1> DEFINE rest == SumFunctionOnSet(f, (T \ {x}) \ {z})
  <1>8. rest \in Int /\ f[x] \in Int /\ f[z] \in Int
    BY <1>1, SumInt
  <1>9. /\ SumFunctionOnSet(f, T) = f[x] + (f[z] + rest)
        /\ SumFunctionOnSet(f, T \ {z}) = f[x] + rest
    BY <1>4, <1>6, <1>7
  <1> HIDE DEF rest
  <1> QED
    BY <1>3, <1>8, <1>9

\* A sum depends on its summands only.
LEMMA SumSame ==
  ASSUME NEW f, NEW g, NEW S, IsFiniteSet(S), \A x \in S : f[x] = g[x]
  PROVE  SumFunctionOnSet(f, S) = SumFunctionOnSet(g, S)
  <1>1. PICK a : IsSum(f, S, a)
    BY SumExists
  <1>2. IsSum(g, S, a)
    <2>1. \A t \in SUBSET S : Body(f, a, t) = Body(g, a, t)
      <3> SUFFICES ASSUME NEW t \in SUBSET S, t # {}
                   PROVE  f[CHOOSE x \in t : TRUE] = g[CHOOSE x \in t : TRUE]
        BY DEF Body
      <3> QED
        BY Picked
    <2> QED
      BY <1>1, <2>1 DEF IsSum
  <1> QED
    BY <1>1, <1>2, SumIs

-----------------------------------------------------------------------------
(* Points *)

\* What an enrollment gives, and a medal, is a number of points.
LEMMA PointsType ==
  /\ \A e, s : AwardPoints(e, s) \in Nat
  /\ \A m, e, s : MedalPoints(m, e, s) \in Nat
  <1>1. \A e, s : AwardPoints(e, s) \in Nat
    BY DEF AwardPoints
  <1>2. \A m, e, s : MedalPoints(m, e, s) \in Nat
    <2> SUFFICES ASSUME NEW m, NEW e, NEW s
                 PROVE  MedalPoints(m, e, s) \in Nat
      OBVIOUS
    <2> DEFINE v == MedalValue(m)
    <2>1. v \in {100, 200, 300}
      BY DEF MedalValue
    <2> HIDE DEF v
    <2>2. v \in Nat /\ (v * 30) \div 100 \in Nat /\ (v * 20) \div 100 \in Nat
      BY <2>1
    <2> QED
      BY <2>2 DEF MedalPoints, v
  <1> QED
    BY <1>1, <1>2

\* The points of a result are naturals: its places are finitely many.
LEMMA ResultPointsType ==
  ASSUME NEW medals
  PROVE  ResultPoints(medals) \in [Subjects -> Nat]
  <1>1. IsFiniteSet(Taken(medals))
    <2>1. IsFiniteSet({"gold", "silver", "bronze1", "bronze2"})
      <3>1. /\ IsFiniteSet({"gold"}) /\ IsFiniteSet({"silver"})
            /\ IsFiniteSet({"bronze1"}) /\ IsFiniteSet({"bronze2"})
        BY FS_Singleton
      <3>2. IsFiniteSet({"gold"} \cup {"silver"})
        BY <3>1, FS_Union
      <3>3. IsFiniteSet({"bronze1"} \cup {"bronze2"})
        BY <3>1, FS_Union
      <3>4. IsFiniteSet(({"gold"} \cup {"silver"})
                          \cup ({"bronze1"} \cup {"bronze2"}))
        BY <3>2, <3>3, FS_Union
      <3>5. ({"gold"} \cup {"silver"}) \cup ({"bronze1"} \cup {"bronze2"})
              = {"gold", "silver", "bronze1", "bronze2"}
        OBVIOUS
      <3> QED
        BY <3>4, <3>5
    <2> QED
      BY <2>1, FS_Subset DEF Taken, Places
  <1> SUFFICES ASSUME NEW s \in Subjects
               PROVE  SumFunction([m \in Taken(medals) |->
                                     MedalPoints(m, medals[m], s)]) \in Nat
    BY DEF ResultPoints
  <1> DEFINE f == [m \in Taken(medals) |-> MedalPoints(m, medals[m], s)]
  <1>2. DOMAIN f = Taken(medals) /\ \A m \in Taken(medals) : f[m] \in Nat
    BY PointsType
  <1> HIDE DEF f
  <1>3. SumFunctionOnSet(f, Taken(medals)) \in Nat
    BY <1>1, <1>2, SumNat
  <1> QED
    BY <1>2, <1>3 DEF SumFunction, f

-----------------------------------------------------------------------------
(* What a subject is due *)

\* The two parts of Due, with the state they read as parameters.
AwardsDue(done, s) == SumFunction([e \in done |-> AwardPoints(e, s)])

LedgerDue(book, s) == SumFunction([r \in Results |-> book[r][s]])

\* Both are integers.
LEMMA DueType ==
  ASSUME NEW done \in SUBSET Enrollments,
         NEW book \in [Results -> [Subjects -> Nat]], NEW s \in Subjects
  PROVE  AwardsDue(done, s) \in Int /\ LedgerDue(book, s) \in Int
  <1> USE RankingAssumption
  <1> DEFINE f == [e \in done |-> AwardPoints(e, s)]
             g == [r \in Results |-> book[r][s]]
  <1>1. DOMAIN f = done /\ (\A e \in done : f[e] \in Int) /\ IsFiniteSet(done)
    BY PointsType, FS_Subset
  <1>2. DOMAIN g = Results /\ \A r \in Results : g[r] \in Int
    OBVIOUS
  <1> HIDE DEF f, g
  <1>3. SumFunctionOnSet(f, done) \in Int
    BY <1>1, SumInt
  <1>4. SumFunctionOnSet(g, Results) \in Int
    BY <1>2, SumInt
  <1> QED
    BY <1>1, <1>2, <1>3, <1>4 DEF AwardsDue, LedgerDue, SumFunction, f, g

\* A new enrollment adds its award.
LEMMA AwardsDueAdd ==
  ASSUME NEW done \in SUBSET Enrollments, NEW e \in Enrollments,
         e \notin done, NEW s
  PROVE  AwardsDue(done \cup {e}, s) = AwardPoints(e, s) + AwardsDue(done, s)
  <1> USE RankingAssumption
  <1> DEFINE all == done \cup {e}
             f == [d \in all |-> AwardPoints(d, s)]
             g == [d \in done |-> AwardPoints(d, s)]
  <1>1. /\ DOMAIN f = all /\ DOMAIN g = done
        /\ \A d \in all : f[d] \in Int
        /\ f[e] = AwardPoints(e, s)
        /\ \A d \in done : f[d] = g[d]
        /\ IsFiniteSet(all) /\ IsFiniteSet(done)
        /\ e \in all /\ all \ {e} = done
    BY PointsType, FS_Subset
  <1> HIDE DEF f, g, all
  <1>2. SumFunctionOnSet(f, all) = f[e] + SumFunctionOnSet(f, all \ {e})
    BY <1>1, SumRemove DEF LastSummed
  <1>3. SumFunctionOnSet(f, done) = SumFunctionOnSet(g, done)
    BY <1>1, SumSame
  <1> QED
    BY <1>1, <1>2, <1>3 DEF AwardsDue, SumFunction, f, g, all

\* A result that gets new ledger entries changes what is due by the
\* difference.
LEMMA LedgerDueChange ==
  ASSUME NEW book \in [Results -> [Subjects -> Nat]],
         NEW new \in [Results -> [Subjects -> Nat]],
         NEW r \in Results, \A q \in Results \ {r} : new[q] = book[q],
         NEW s \in Subjects
  PROVE  LedgerDue(new, s) = (LedgerDue(book, s) - book[r][s]) + new[r][s]
  <1> DEFINE f == [q \in Results |-> book[q][s]]
             g == [q \in Results |-> new[q][s]]
             rest == Results \ {r}
  <1>1. /\ DOMAIN f = Results /\ DOMAIN g = Results
        /\ f[r] = book[r][s] /\ g[r] = new[r][s]
        /\ f[r] \in Int /\ g[r] \in Int
    OBVIOUS
  <1>2. /\ \A q \in Results : f[q] \in Int
        /\ \A q \in Results : g[q] \in Int
        /\ \A q \in rest : f[q] = g[q]
        /\ \A q \in rest : f[q] \in Int
    OBVIOUS
  <1>3. IsFiniteSet(Results) /\ IsFiniteSet(rest)
    BY RankingAssumption, FS_Subset
  <1> HIDE DEF f, g
  <1>r. ASSUME NEW h, \A q \in Results : h[q] \in Int
        PROVE  SumFunctionOnSet(h, Results) = h[r] + SumFunctionOnSet(h, rest)
    <2>1. SumFunctionOnSet(h, Results) = LastSummed(h, Results, r)
      BY <1>r, <1>3, SumRemove
    <2> QED
      BY <2>1 DEF LastSummed
  <1>4. SumFunctionOnSet(f, Results) = f[r] + SumFunctionOnSet(f, rest)
    BY <1>2, <1>r
  <1>5. SumFunctionOnSet(g, Results) = g[r] + SumFunctionOnSet(g, rest)
    BY <1>2, <1>r
  <1> HIDE DEF rest
  <1>6. SumFunctionOnSet(f, rest) = SumFunctionOnSet(g, rest)
    BY <1>2, <1>3, SumSame
  <1>7. SumFunctionOnSet(f, rest) \in Int
    BY <1>2, <1>3, SumInt
  <1>8. LedgerDue(book, s) = SumFunctionOnSet(f, Results)
    BY <1>1 DEF LedgerDue, SumFunction, f
  <1>9. LedgerDue(new, s) = SumFunctionOnSet(g, Results)
    BY <1>1 DEF LedgerDue, SumFunction, g
  <1>10. LedgerDue(new, s) = (LedgerDue(book, s) - f[r]) + g[r]
    BY <1>1, <1>4, <1>5, <1>6, <1>7, <1>8, <1>9
  <1> QED
    BY <1>1, <1>10

\* Due, now and in the next state, by its parts.
LEMMA DueParts ==
  \A s : /\ Due(s) = AwardsDue(awarded, s) + LedgerDue(ledger, s)
         /\ Due(s)' = AwardsDue(awarded', s) + LedgerDue(ledger', s)
  BY DEF Due, AwardsDue, LedgerDue, AwardPoints, AwardCoach, AwardClub, AwardBoard

-----------------------------------------------------------------------------
(* Types *)

\* One step keeps the types.
LEMMA TypeStep ==
  ASSUME TypeOK, [Next]_vars
  PROVE  TypeOK'
  <1> USE RankingAssumption DEF TypeOK
  <1>1. ASSUME NEW e \in Enrollments, Enroll(e)
        PROVE  TypeOK'
    BY <1>1, PointsType DEF Enroll
  <1>2. ASSUME NEW gone \in SUBSET Enrollments, DeleteEnrollments(gone)
        PROVE  TypeOK'
    BY <1>2 DEF DeleteEnrollments
  <1>3. ASSUME NEW r \in Results, NEW medals \in [Places -> Enrollments \cup {None}],
               SaveResult(r, medals)
        PROVE  TypeOK'
    <2>1. ResultPoints(medals) \in [Subjects -> Nat]
      BY ResultPointsType
    <2>2. total' \in [Subjects -> Int]
      BY <1>3, <2>1 DEF SaveResult, Rollback
    <2>3. ledger' \in [Results -> [Subjects -> Nat]]
      BY <1>3, <2>1 DEF SaveResult
    <2> QED
      BY <1>3, <2>2, <2>3 DEF SaveResult
  <1>4. ASSUME NEW r \in Results, DeleteResult(r)
        PROVE  TypeOK'
    BY <1>4 DEF DeleteResult, NoPoints
  <1>5. ASSUME NEW w \in Workers, NEW p \in Profiles, EditRead(w, p)
        PROVE  TypeOK'
    BY <1>5 DEF EditRead, Subjects
  <1>6. ASSUME NEW w \in Workers, EditSave(w)
        PROVE  TypeOK'
    BY <1>6 DEF EditSave, Subjects
  <1>7. CASE UNCHANGED vars
    BY <1>7 DEF vars
  <1> QED
    BY <1>1, <1>2, <1>3, <1>4, <1>5, <1>6, <1>7 DEF Next

\* The totals, the ledger of every result and the rows that approvals of
\* profile edits hold keep their types.
THEOREM TypeCorrect == Spec => []TypeOK
  <1>1. Init => TypeOK
    BY RankingAssumption DEF Init, TypeOK, NoPoints
  <1> QED
    BY <1>1, TypeStep, PTL DEF Spec

-----------------------------------------------------------------------------
(* Totals and what is due *)

\* A step either moves each total by the change of what is due, or is the
\* deletion of a result, or leaves enrollments, ledger and saves alone and
\* writes no club and no board.
LEMMA StepMoves ==
  ASSUME TypeOK, [Next]_vars
  PROVE  \/ \A s \in Subjects : total'[s] - total[s] = Due(s)' - Due(s)
         \/ /\ UNCHANGED <<enrolled, awarded, saves, total>>
            /\ \A s \in Subjects : Due(s)' <= Due(s)
         \/ /\ UNCHANGED <<enrolled, awarded, saves, ledger>>
            /\ \A s \in Orgs : total'[s] = total[s]
  <1> USE RankingAssumption
  <1> DEFINE Moves(s) == total'[s] - total[s] = Due(s)' - Due(s)
             Goal == \/ \A s \in Subjects : Moves(s)
                     \/ /\ UNCHANGED <<enrolled, awarded, saves, total>>
                        /\ \A s \in Subjects : Due(s)' <= Due(s)
                     \/ /\ UNCHANGED <<enrolled, awarded, saves, ledger>>
                        /\ \A s \in Orgs : total'[s] = total[s]
  <1>t. /\ awarded \in SUBSET Enrollments /\ total \in [Subjects -> Int]
        /\ ledger \in [Results -> [Subjects -> Nat]]
    BY DEF TypeOK
  <1>d. \A s \in Subjects : /\ AwardsDue(awarded, s) \in Int
                            /\ LedgerDue(ledger, s) \in Int
    BY <1>t, DueType
  <1>1. ASSUME NEW e \in Enrollments, Enroll(e)
        PROVE  Goal
    <2>1. ASSUME NEW s \in Subjects PROVE Moves(s)
      <3>1. AwardsDue(awarded', s) = AwardPoints(e, s) + AwardsDue(awarded, s)
        BY <1>1, <1>t, AwardsDueAdd DEF Enroll
      <3>2. ledger' = ledger /\ total'[s] = total[s] + AwardPoints(e, s)
        BY <1>1 DEF Enroll
      <3>3. /\ AwardPoints(e, s) \in Int /\ total[s] \in Int
            /\ AwardsDue(awarded, s) \in Int /\ LedgerDue(ledger, s) \in Int
        BY <1>t, <1>d, PointsType
      <3>4. /\ Due(s) = AwardsDue(awarded, s) + LedgerDue(ledger, s)
            /\ Due(s)' = AwardsDue(awarded', s) + LedgerDue(ledger, s)
        BY <3>2, DueParts
      <3> QED
        BY <3>1, <3>2, <3>3, <3>4
    <2> QED
      BY <2>1
  <1>2. ASSUME NEW gone \in SUBSET Enrollments, DeleteEnrollments(gone)
        PROVE  Goal
    <2>1. ASSUME NEW s \in Subjects PROVE Moves(s)
      <3>1. awarded' = awarded /\ ledger' = ledger /\ total' = total
        BY <1>2 DEF DeleteEnrollments
      <3>2. Due(s)' = Due(s) /\ Due(s) \in Int /\ total[s] \in Int
        BY <1>t, <1>d, <3>1, DueParts
      <3> QED
        BY <3>1, <3>2
    <2> QED
      BY <2>1
  <1>3. ASSUME NEW r \in Results, NEW medals \in [Places -> Enrollments \cup {None}],
               SaveResult(r, medals)
        PROVE  Goal
    <2> DEFINE points == ResultPoints(medals)
    <2>1. points \in [Subjects -> Nat]
      BY ResultPointsType
    <2>2. /\ awarded' = awarded /\ ledger' = [ledger EXCEPT ![r] = points]
          /\ total' = [s \in Subjects |-> (total[s] - ledger[r][s]) + points[s]]
      BY <1>3 DEF SaveResult, Rollback
    <2> HIDE DEF points
    <2>3. ASSUME NEW s \in Subjects PROVE Moves(s)
      <3>1. LedgerDue(ledger', s) = (LedgerDue(ledger, s) - ledger[r][s]) + points[s]
        <4>1. /\ ledger' \in [Results -> [Subjects -> Nat]]
              /\ ledger'[r][s] = points[s]
              /\ \A q \in Results \ {r} : ledger'[q] = ledger[q]
          BY <1>t, <2>1, <2>2
        <4>2. LedgerDue(ledger', s) = (LedgerDue(ledger, s) - ledger[r][s]) + ledger'[r][s]
          BY ONLY <1>t, <4>1, r \in Results, s \in Subjects, LedgerDueChange
        <4> QED
          BY <4>1, <4>2
      <3>2. total'[s] = (total[s] - ledger[r][s]) + points[s]
        BY <2>2
      <3>3. /\ points[s] \in Int /\ total[s] \in Int /\ ledger[r][s] \in Int
            /\ AwardsDue(awarded, s) \in Int /\ LedgerDue(ledger, s) \in Int
        BY <1>t, <1>d, <2>1
      <3>4. /\ Due(s) = AwardsDue(awarded, s) + LedgerDue(ledger, s)
            /\ Due(s)' = AwardsDue(awarded, s) + LedgerDue(ledger', s)
        BY <2>2, DueParts
      <3> QED
        BY <3>1, <3>2, <3>3, <3>4
    <2> QED
      BY <2>3
  <1>4. ASSUME NEW r \in Results, DeleteResult(r)
        PROVE  Goal
    <2>1. /\ UNCHANGED <<enrolled, awarded, saves, total>>
          /\ ledger' = [ledger EXCEPT ![r] = NoPoints]
      BY <1>4 DEF DeleteResult
    <2>2. ASSUME NEW s \in Subjects PROVE Due(s)' <= Due(s)
      <3>1. NoPoints \in [Subjects -> Nat] /\ NoPoints[s] = 0
        BY DEF NoPoints
      <3>2. LedgerDue(ledger', s) = (LedgerDue(ledger, s) - ledger[r][s]) + NoPoints[s]
        <4>1. /\ ledger' \in [Results -> [Subjects -> Nat]]
              /\ ledger'[r][s] = NoPoints[s]
              /\ \A q \in Results \ {r} : ledger'[q] = ledger[q]
          BY <1>t, <2>1, <3>1
        <4>2. LedgerDue(ledger', s) = (LedgerDue(ledger, s) - ledger[r][s]) + ledger'[r][s]
          BY ONLY <1>t, <4>1, r \in Results, s \in Subjects, LedgerDueChange
        <4> QED
          BY <4>1, <4>2
      <3>3. /\ ledger[r][s] \in Nat
            /\ AwardsDue(awarded, s) \in Int /\ LedgerDue(ledger, s) \in Int
        BY <1>t, <1>d
      <3>4. /\ Due(s) = AwardsDue(awarded, s) + LedgerDue(ledger, s)
            /\ Due(s)' = AwardsDue(awarded, s) + LedgerDue(ledger', s)
        BY <2>1, DueParts
      <3> QED
        BY <3>1, <3>2, <3>3, <3>4
    <2> QED
      BY <2>1, <2>2
  <1>5. ASSUME NEW w \in Workers, NEW p \in Profiles, EditRead(w, p)
        PROVE  Goal
    BY <1>5 DEF EditRead
  <1>6. ASSUME NEW w \in Workers, EditSave(w)
        PROVE  Goal
    <2>1. held[w].profile \in Profiles
      BY <1>6 DEF EditSave, TypeOK
    <2>2. \A s \in Orgs : total'[s] = total[s]
      BY <1>6, <1>t, <2>1 DEF EditSave, Subjects
    <2> QED
      BY <1>6, <2>2 DEF EditSave
  <1>7. CASE UNCHANGED vars
    BY <1>7 DEF vars
  <1> QED
    BY <1>1, <1>2, <1>3, <1>4, <1>5, <1>6, <1>7 DEF Next

\* Every award and every saved result moves each total by exactly what it
\* changes in the enrollments and the ledger, for results and enrollments of
\* any number and whatever was deleted or overwritten before.
THEOREM PointsFollowLedgerCorrect == Spec => PointsFollowLedger
  <1> DEFINE A == <<awarded, saves>>' # <<awarded, saves>>
                    => \A s \in Subjects :
                         total'[s] - total[s] = Due(s)' - Due(s)
  <1>1. TypeOK /\ [Next]_vars => [A]_vars
    BY StepMoves
  <1> QED
    BY <1>1, TypeCorrect, PTL DEF Spec, PointsFollowLedger

\* At the start nobody has points and nobody is due any.
LEMMA StartsEven ==
  ASSUME Init, NEW s \in Subjects
  PROVE  total[s] = 0 /\ Due(s) = 0
  <1> USE RankingAssumption
  <1> DEFINE f == [r \in Results |-> ledger[r][s]]
             g == [r \in Results |-> 0]
             z == [e \in awarded |-> AwardPoints(e, s)]
  <1>1. total[s] = 0 /\ awarded = {}
    BY DEF Init
  <1>2. AwardsDue(awarded, s) = 0
    <2>1. DOMAIN z = {}
      BY <1>1
    <2> HIDE DEF z
    <2>2. SumFunctionOnSet(z, {}) = 0
      BY SumEmpty
    <2> QED
      BY <2>1, <2>2 DEF AwardsDue, SumFunction, z
  <1>3. LedgerDue(ledger, s) = 0
    <2>1. \A r \in Results : ledger[r][s] = 0
      BY <1>1 DEF Init, NoPoints
    <2>2. DOMAIN f = Results /\ \A r \in Results : f[r] = 0
      BY <2>1
    <2> HIDE DEF f
    <2>3. SumFunctionOnSet(f, Results) = 0
      BY <2>2, SumZero
    <2> QED
      BY <2>2, <2>3 DEF LedgerDue, SumFunction, f
  <1> QED
    BY <1>1, <1>2, <1>3, DueParts

\* Clubs and boards never have fewer points than the enrollments and the
\* ledger give them: the rollback of a result takes back what the ledger of
\* that result says and no more, deleting a result only lowers what is due,
\* and the approval of an edit writes persons only.
THEOREM OrgsNeverShortCorrect == Spec => []OrgsNeverShort
  <1> USE RankingAssumption
  <1>1. Init => OrgsNeverShort
    BY StartsEven DEF OrgsNeverShort, Subjects
  <1>2. TypeOK /\ OrgsNeverShort /\ [Next]_vars => OrgsNeverShort'
    <2> SUFFICES ASSUME TypeOK, OrgsNeverShort, [Next]_vars, NEW s \in Orgs
                 PROVE  total'[s] >= Due(s)'
      BY DEF OrgsNeverShort
    <2>1. s \in Subjects /\ total[s] >= Due(s)
      BY DEF OrgsNeverShort, Subjects
    <2>2. TypeOK'
      BY TypeStep
    <2>3. /\ total[s] \in Int /\ total'[s] \in Int
          /\ Due(s) \in Int /\ Due(s)' \in Int
      <3>1. /\ AwardsDue(awarded, s) \in Int /\ LedgerDue(ledger, s) \in Int
        BY <2>1, DueType DEF TypeOK
      <3>2. /\ AwardsDue(awarded', s) \in Int /\ LedgerDue(ledger', s) \in Int
        BY <2>1, <2>2, DueType DEF TypeOK
      <3>3. total[s] \in Int /\ total'[s] \in Int
        BY <2>1, <2>2 DEF TypeOK
      <3> QED
        BY <3>1, <3>2, <3>3, DueParts
    <2>4. CASE \A q \in Subjects : total'[q] - total[q] = Due(q)' - Due(q)
      BY <2>1, <2>3, <2>4
    <2>5. CASE UNCHANGED total /\ \A q \in Subjects : Due(q)' <= Due(q)
      BY <2>1, <2>3, <2>5
    <2>6. CASE /\ UNCHANGED <<awarded, ledger>>
               /\ \A q \in Orgs : total'[q] = total[q]
      <3>1. Due(s)' = Due(s)
        BY <2>6, DueParts
      <3> QED
        BY <2>1, <2>6, <3>1
    <2> QED
      BY <2>4, <2>5, <2>6, StepMoves
  <1> QED
    BY <1>1, <1>2, TypeCorrect, PTL DEF Spec

=============================================================================
