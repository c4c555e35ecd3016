--------------------------- MODULE BracketsProofs ---------------------------
(***************************************************************************)
(* Proofs about Brackets, for any players, groups, clubs, weights, mats    *)
(* and bounds.                                                             *)
(***************************************************************************)
EXTENDS Brackets, FiniteSetTheorems, WellFoundedInduction, TLAPS

-----------------------------------------------------------------------------
(* Byes *)

LEMMA SizeCases ==
  ASSUME NEW size \in TableSizes
  PROVE  size \in {2, 4, 8, 16, 32, 64, 128}
  BY DEF TableSizes, PowersOfTwo

\* BYE_ORDER_MAP, and the order made for the other sizes, name every place
\* once.
LEMMA ByeOrderPermutes ==
  ASSUME NEW size \in TableSizes
  PROVE  \A i, j \in 1..size :
           /\ ByeOrder(size)[i] \in 1..size
           /\ ByeOrder(size)[i] = ByeOrder(size)[j] => i = j
  <1>1. CASE size = 2
    BY <1>1 DEF ByeOrder, Half
  <1>2. CASE size = 4
    BY <1>2 DEF ByeOrder
  <1>3. CASE size = 8
    BY <1>3 DEF ByeOrder
  <1>4. CASE size = 16
    BY <1>4 DEF ByeOrder
  <1>5. CASE size = 32
    BY <1>5 DEF ByeOrder
  <1>6. CASE size = 64
    BY <1>6 DEF ByeOrder
  <1>7. CASE size = 128
    BY <1>7 DEF ByeOrder, Half
  <1> QED
    BY SizeCases, <1>1, <1>2, <1>3, <1>4, <1>5, <1>6, <1>7

\* As long as fewer than half of the places are byes, or two of four, no
\* first-round bout has two.
LEMMA ByeOrderSpreads ==
  ASSUME NEW size \in TableSizes, size >= 4, size <= 64,
         NEW i \in 1..size, NEW j \in 1..size, NEW k \in 1..Half(size),
         \/ i < Half(size) /\ j < Half(size)
         \/ size = 4 /\ i <= 2 /\ j <= 2
  PROVE  ~(ByeOrder(size)[i] = 2 * k - 1 /\ ByeOrder(size)[j] = 2 * k)
  <1>1. CASE size = 4
    BY <1>1 DEF ByeOrder, Half
  <1>2. CASE size = 8
    BY <1>2 DEF ByeOrder, Half
  <1>3. CASE size = 16
    BY <1>3 DEF ByeOrder, Half
  <1>4. CASE size = 32
    BY <1>4 DEF ByeOrder, Half
  <1>5. CASE size = 64
    <2>1. \A n \in 1..31 : ByeOrder(64)[n] % 4 \in {0, 1}
      BY DEF ByeOrder
    <2>2. i \in 1..31 /\ j \in 1..31 /\ k \in Nat
      BY <1>5 DEF Half
    <2> QED
      BY <1>5, <2>1, <2>2
  <1> QED
    BY SizeCases, <1>1, <1>2, <1>3, <1>4, <1>5

\* _bye_slots gives as many byes as there are places without a player.
LEMMA ByeSlotsCount ==
  ASSUME NEW size \in TableSizes, NEW count \in Nat
  PROVE  /\ ByeSlots(size, count) \in SUBSET (1..size)
         /\ IsFiniteSet(ByeSlots(size, count))
         /\ count <= size => Cardinality(ByeSlots(size, count)) = size - count
         /\ count >= size => ByeSlots(size, count) = {}
  <1> DEFINE B == ByeSlots(size, count)
             J == {j \in 1..size : j + count <= size}
             f == [i \in J |-> ByeOrder(size)[i]]
  <1>1. size \in Nat
    BY SizeCases
  <1>2. B = {ByeOrder(size)[i] : i \in J}
    BY DEF ByeSlots
  <1>3. B \in SUBSET (1..size)
    BY <1>2, ByeOrderPermutes
  <1>4. IsFiniteSet(1..size) /\ IsFiniteSet(B)
    BY <1>1, <1>3, FS_Interval, FS_Subset
  <1>5. ASSUME count >= size PROVE B = {}
    BY <1>1, <1>2, <1>5
  <1>6. ASSUME count <= size PROVE Cardinality(B) = size - count
    <2>1. J = 1..(size - count)
      BY <1>1, <1>6
    <2>2. IsFiniteSet(J) /\ Cardinality(J) = size - count
      <3> DEFINE n == size - count
      <3>1. n \in Nat
        BY <1>1, <1>6
      <3> HIDE DEF n
      <3>2. IsFiniteSet(1..n) /\ Cardinality(1..n) = n
        BY <3>1, FS_Interval
      <3> QED
        BY <2>1, <3>2 DEF n
    <2>3. f \in Bijection(J, B)
      <3>1. f \in [J -> B]
        BY <1>2
      <3>2. \A i, j \in J : f[i] = f[j] => i = j
        BY ByeOrderPermutes
      <3>3. \A b \in B : \E i \in J : f[i] = b
        BY <1>2
      <3> QED
        BY <3>1, <3>2, <3>3 DEF Bijection, Injection, Surjection, IsInjective
    <2> QED
      BY <2>2, <2>3, FS_Bijection DEF ExistsBijection
  <1> QED
    BY <1>3, <1>4, <1>5, <1>6

-----------------------------------------------------------------------------
(* Seats *)

\* The places up to s that are no byes.
Free(byes, s) == {t \in 1..s : t \notin byes}

AllFree(byes, size) == (1..size) \ byes

\* Counting the places that are no byes numbers them from 1 on.
LEMMA FreePlaces ==
  ASSUME NEW size \in Nat, NEW byes \in SUBSET (1..size)
  PROVE  /\ Cardinality(AllFree(byes, size)) \in Nat
         /\ \A s \in AllFree(byes, size) :
              Cardinality(Free(byes, s)) \in 1..Cardinality(AllFree(byes, size))
         /\ \A s, t \in AllFree(byes, size) :
              Cardinality(Free(byes, s)) = Cardinality(Free(byes, t)) => s = t
         /\ \A i \in 1..Cardinality(AllFree(byes, size)) :
              \E s \in AllFree(byes, size) : Cardinality(Free(byes, s)) = i
  <1> DEFINE F == (1..size) \ byes
             n == Cardinality(F)
             R(s) == Cardinality(Free(byes, s))
             f == [s \in F |-> R(s)]
  <1>1. IsFiniteSet(F)
    <2>1. IsFiniteSet(1..size)
      BY FS_Interval
    <2> QED
      BY <2>1, FS_Difference
  <1>a. n \in Nat
    BY <1>1, FS_CardinalityType
  <1>2. ASSUME NEW s \in F
        PROVE  /\ Free(byes, s) \in SUBSET F /\ s \in Free(byes, s)
               /\ IsFiniteSet(Free(byes, s)) /\ R(s) \in 1..n
    <2>1. Free(byes, s) \in SUBSET F /\ s \in Free(byes, s)
      BY DEF Free
    <2>2. IsFiniteSet(Free(byes, s)) /\ R(s) <= n /\ R(s) \in Nat
      BY <1>1, <2>1, FS_Subset, FS_CardinalityType
    <2>3. R(s) # 0
      BY <2>1, <2>2, FS_EmptySet
    <2> QED
      BY <2>1, <2>2, <2>3
  <1>3. ASSUME NEW s \in F, NEW t \in F, s < t PROVE R(s) < R(t)
    <2>1. Free(byes, s) \in SUBSET Free(byes, t) /\ t \in Free(byes, t)
          /\ t \notin Free(byes, s)
      BY <1>3 DEF Free
    <2>2. /\ IsFiniteSet(Free(byes, t)) /\ R(s) <= R(t) /\ R(s) # R(t)
          /\ R(s) \in Nat /\ R(t) \in Nat
      BY <1>2, <2>1, FS_Subset
    <2> QED
      BY <2>2
  <1>4. \A s, t \in F : R(s) = R(t) => s = t
    <2> SUFFICES ASSUME NEW s \in F, NEW t \in F, R(s) = R(t), s # t PROVE FALSE
      OBVIOUS
    <2>1. s < t \/ t < s
      OBVIOUS
    <2>2. R(s) < R(t) \/ R(t) < R(s)
      BY <1>3, <2>1
    <2>3. R(s) \in Nat /\ R(t) \in Nat
      BY <1>2
    <2> HIDE DEF R
    <2> QED
      BY <2>2, <2>3
  <1>5. f \in Injection(F, 1..n)
    BY <1>2, <1>4 DEF Injection, IsInjective
  <1>6. IsFiniteSet(1..n) /\ Cardinality(1..n) = n
    <2> HIDE DEF n
    <2> QED
      BY <1>a, FS_Interval
  <1>7. f \in Surjection(F, 1..n)
    BY <1>5, <1>6, FS_Injection
  <1>8. \A i \in 1..n : \E s \in F : R(s) = i
    BY <1>7 DEF Surjection
  <1> QED
    BY <1>a, <1>2, <1>4, <1>8 DEF AllFree

\* An order names every player once.
LEMMA OrderPermutes ==
  ASSUME NEW pool, IsFiniteSet(pool), NEW order \in Orders(pool)
  PROVE  /\ Cardinality(pool) \in Nat
         /\ order \in [1..Cardinality(pool) -> pool]
         /\ \A i, j \in 1..Cardinality(pool) : order[i] = order[j] => i = j
         /\ \A p \in pool : \E i \in 1..Cardinality(pool) : order[i] = p
  <1> DEFINE n == Cardinality(pool)
  <1>1. n \in Nat
    BY FS_CardinalityType
  <1>2. order \in [1..n -> pool] /\ {order[i] : i \in DOMAIN order} = pool
    BY DEF Orders
  <1>3. order \in Surjection(1..n, pool)
    BY <1>2 DEF Surjection
  <1>4. IsFiniteSet(1..n) /\ Cardinality(1..n) = n
    BY <1>1, FS_Interval
  <1>5. order \in Injection(1..n, pool)
    BY <1>3, <1>4, FS_Surjection
  <1> QED
    BY <1>1, <1>2, <1>3, <1>5 DEF Injection, IsInjective, Surjection

\* Players and byes share out the places; a table that is too small is full.
LEMMA FreeCount ==
  ASSUME NEW size \in TableSizes, NEW count \in Nat
  PROVE  Cardinality(AllFree(ByeSlots(size, count), size)) =
           IF count <= size THEN count ELSE size
  <1> DEFINE byes == ByeSlots(size, count)
             F == (1..size) \ byes
             n == Cardinality(F)
  <1>1. size \in Nat
    BY SizeCases
  <1>2. /\ byes \in SUBSET (1..size) /\ IsFiniteSet(byes)
        /\ count <= size => Cardinality(byes) = size - count
        /\ count >= size => byes = {}
    BY ByeSlotsCount
  <1>3. IsFiniteSet(1..size) /\ Cardinality(1..size) = size
    BY <1>1, FS_Interval
  <1>4. n = size - Cardinality((1..size) \cap byes)
    BY <1>3, FS_Difference
  <1>5. (1..size) \cap byes = byes
    BY <1>2
  <1>6. count <= size => n = size - (size - count)
    BY <1>2, <1>4, <1>5
  <1>7. ASSUME count > size PROVE n = size
    <2>1. byes = {}
      BY <1>1, <1>2, <1>7
    <2>2. F = 1..size
      BY <2>1
    <2> QED
      BY <1>3, <2>2
  <1>8. AllFree(byes, size) = F
    BY DEF AllFree
  <1> HIDE DEF n
  <1>9. n = IF count <= size THEN count ELSE size
    BY <1>1, <1>6, <1>7
  <1> QED
    BY <1>8, <1>9 DEF n

\* Nobody sits on a bye or on two places, and where there is room everybody
\* sits.
LEMMA SeatingPlaces ==
  ASSUME NEW pool, IsFiniteSet(pool), None \notin pool,
         NEW order \in Orders(pool), NEW size \in TableSizes,
         NEW count, count = Cardinality(pool),
         NEW seats, seats = Seating(order, size, count)
  PROVE  /\ count \in Nat
         /\ seats \in [1..size -> pool \cup {None}]
         /\ \A s \in 1..size : seats[s] = None <=> s \in ByeSlots(size, count)
         /\ \A s, t \in 1..size : seats[s] = seats[t] /\ seats[s] # None => s = t
         /\ count <= size => \A p \in pool : \E s \in 1..size : seats[s] = p
  <1> DEFINE byes == ByeSlots(size, count)
             F == (1..size) \ byes
             R(s) == Cardinality(Free(byes, s))
             n == Cardinality(F)
  <1>1. /\ count \in Nat /\ order \in [1..count -> pool]
        /\ \A i, j \in 1..count : order[i] = order[j] => i = j
        /\ \A p \in pool : \E i \in 1..count : order[i] = p
    BY OrderPermutes
  <1>2. size \in Nat
    BY SizeCases
  <1>3. /\ byes \in SUBSET (1..size) /\ IsFiniteSet(byes)
        /\ count <= size => Cardinality(byes) = size - count
        /\ count >= size => byes = {}
    BY <1>1, ByeSlotsCount
  <1>4. /\ n \in Nat
        /\ count <= size => n = count
        /\ count > size => n = size
    <2>1. F = AllFree(byes, size)
      BY DEF AllFree
    <2> HIDE DEF F
    <2> QED
      BY <1>1, <1>2, <2>1, FreeCount
  <1>5. seats = [s \in 1..size |-> IF s \in byes THEN None ELSE order[R(s)]]
    BY DEF Seating, Free
  <1>6. /\ \A s \in F : R(s) \in 1..n
        /\ \A s, t \in F : R(s) = R(t) => s = t
        /\ \A i \in 1..n : \E s \in F : R(s) = i
    <2>1. F = AllFree(byes, size)
      BY DEF AllFree
    <2> HIDE DEF byes, F
    <2> QED
      BY <1>2, <1>3, <2>1, FreePlaces
  <1> HIDE DEF byes, R, n
  <1>7. n <= count
    BY <1>1, <1>2, <1>4
  <1>8. \A s \in F : R(s) \in 1..count /\ seats[s] = order[R(s)] /\ seats[s] \in pool
    <2>1. \A s \in F : R(s) \in 1..count
      BY <1>1, <1>4, <1>6, <1>7
    <2> QED
      BY <1>1, <1>5, <2>1
  <1>9. \A s \in 1..size : s \in byes => seats[s] = None
    BY <1>5
  <1>10. \A s \in 1..size : s \in byes \/ s \in F
    OBVIOUS
  <1>11. seats \in [1..size -> pool \cup {None}]
    <2>1. \A s \in 1..size : seats[s] \in pool \cup {None}
      BY <1>8, <1>9, <1>10
    <2> QED
      BY <1>5, <2>1
  <1>12. \A s \in 1..size : seats[s] = None <=> s \in byes
    BY <1>8, <1>9, <1>10
  <1>13. \A s, t \in 1..size : seats[s] = seats[t] /\ seats[s] # None => s = t
    BY <1>1, <1>6, <1>8, <1>9, <1>10
  <1>14. count <= size => \A p \in pool : \E s \in 1..size : seats[s] = p
    BY <1>1, <1>4, <1>6, <1>8
  <1> QED
    BY <1>1, <1>11, <1>12, <1>13, <1>14 DEF byes

\* The empty places of a table that was just made are the byes for the players
\* it seats.
LEMMA SeatingCount ==
  ASSUME NEW pool, IsFiniteSet(pool), None \notin pool,
         NEW order \in Orders(pool), NEW size \in TableSizes,
         NEW count, count = Cardinality(pool),
         NEW seats, seats = Seating(order, size, count)
  PROVE  /\ Cardinality({seats[s] : s \in 1..size} \ {None}) \in 0..size
         /\ {s \in 1..size : seats[s] = None} =
              ByeSlots(size, Cardinality({seats[s] : s \in 1..size} \ {None}))
  <1> DEFINE byes == ByeSlots(size, count)
             F == (1..size) \ byes
             seated == {seats[s] : s \in 1..size} \ {None}
             f == [s \in F |-> seats[s]]
             n == Cardinality(seated)
  <1>1. /\ count \in Nat
        /\ \A s \in 1..size : seats[s] = None <=> s \in byes
        /\ \A s, t \in 1..size : seats[s] = seats[t] /\ seats[s] # None => s = t
    BY SeatingPlaces
  <1>2. size \in Nat
    BY SizeCases
  <1>3. IsFiniteSet(F)
    <2>1. IsFiniteSet(1..size)
      BY <1>2, FS_Interval
    <2> QED
      BY <2>1, FS_Difference
  <1>4. f \in Bijection(F, seated)
    <2>1. f \in [F -> seated]
      BY <1>1
    <2>2. \A s, t \in F : f[s] = f[t] => s = t
      BY <1>1
    <2>3. \A p \in seated : \E s \in F : f[s] = p
      BY <1>1
    <2> QED
      BY <2>1, <2>2, <2>3 DEF Bijection, Injection, Surjection, IsInjective
  <1>5. n = Cardinality(F)
    BY <1>3, <1>4, FS_Bijection DEF ExistsBijection
  <1>6. F = AllFree(byes, size)
    BY DEF AllFree
  <1>7. n = IF count <= size THEN count ELSE size
    BY <1>1, <1>5, <1>6, FreeCount
  <1>8. byes \in SUBSET (1..size)
    BY <1>1, ByeSlotsCount
  <1>9. {s \in 1..size : seats[s] = None} = byes
    BY <1>1, <1>8
  <1> HIDE DEF n
  <1>10. ByeSlots(size, n) = byes
    <2>1. CASE count <= size
      BY <1>7, <2>1
    <2>2. CASE ~(count <= size)
      <3>1. ByeSlots(size, size) = {} /\ byes = {}
        BY <1>1, <1>2, <2>2, ByeSlotsCount
      <3> QED
        BY <1>7, <2>2, <3>1
    <2> QED
      BY <2>1, <2>2
  <1> QED
    BY <1>1, <1>2, <1>7, <1>9, <1>10 DEF n

-----------------------------------------------------------------------------
(* Bouts and their order *)

LEMMA RoundsType ==
  ASSUME NEW size \in TableSizes
  PROVE  Rounds(size) \in 1..7
  <1>1. \E n \in 1..7 : Places[n] = size
    <2>1. /\ Places[1] = 2 /\ Places[2] = 4 /\ Places[3] = 8 /\ Places[4] = 16
          /\ Places[5] = 32 /\ Places[6] = 64 /\ Places[7] = 128
      BY DEF Places
    <2> QED
      BY <2>1, SizeCases
  <1> QED
    BY <1>1 DEF Rounds

LEMMA BoutType ==
  ASSUME NEW size \in TableSizes, NEW b \in Bouts(size)
  PROVE  /\ b = <<b[1], b[2]>> /\ b[1] \in 1..Rounds(size)
         /\ b[1] \in 1..7 /\ b[2] \in 1..64
  <1>1. PICK r \in 1..Rounds(size), k \in Int :
          k \in 1..(size \div Places[r]) /\ b = <<r, k>>
    BY DEF Bouts
  <1>2. Rounds(size) \in 1..7
    BY RoundsType
  <1>3. r \in 1..7
    BY <1>2
  <1>4. Places[r] \in {2, 4, 8, 16, 32, 64, 128}
    BY <1>3 DEF Places
  <1>5. size \div Places[r] <= 64 /\ size \div Places[r] \in Int
    BY <1>4, SizeCases
  <1>6. k \in 1..64
    BY <1>1, <1>5
  <1> QED
    BY <1>1, <1>3, <1>6

\* The order of bouts is a strict order.
LEMMA PrecedesTransitive ==
  ASSUME NEW x, NEW y, NEW z, Precedes(x, y), Precedes(y, z),
         \A i \in 1..5 : Place(x)[i] \in Int /\ Place(y)[i] \in Int /\ Place(z)[i] \in Int
  PROVE  Precedes(x, z)
  <1>1. PICK i \in 1..5 : /\ Place(x)[i] < Place(y)[i]
                          /\ \A j \in 1..(i - 1) : Place(x)[j] = Place(y)[j]
    BY DEF Precedes
  <1>2. PICK k \in 1..5 : /\ Place(y)[k] < Place(z)[k]
                          /\ \A j \in 1..(k - 1) : Place(y)[j] = Place(z)[j]
    BY DEF Precedes
  <1>3. CASE i <= k
    <2>1. Place(y)[i] <= Place(z)[i]
      <3>1. CASE i = k
        BY <1>2, <3>1
      <3>2. CASE i < k
        <4>1. Place(y)[i] = Place(z)[i]
          BY <1>2, <3>2
        <4> QED
          BY <4>1
      <3> QED
        BY <1>3, <3>1, <3>2
    <2>2. Place(x)[i] < Place(z)[i]
      BY <1>1, <2>1
    <2>3. \A j \in 1..(i - 1) : Place(x)[j] = Place(z)[j]
      BY <1>1, <1>2, <1>3
    <2> QED
      BY <2>2, <2>3 DEF Precedes
  <1>4. CASE k < i
    <2>1. Place(x)[k] = Place(y)[k]
      BY <1>1, <1>4
    <2>2. Place(x)[k] < Place(z)[k]
      BY <1>2, <2>1
    <2>3. \A j \in 1..(k - 1) : Place(x)[j] = Place(z)[j]
      BY <1>1, <1>2, <1>4
    <2> QED
      BY <2>2, <2>3 DEF Precedes
  <1> QED
    BY <1>3, <1>4

\* The groups that have a draw.
LEMMA Drawn ==
  /\ Chosen(Weights) = {g \in Groups : draw[g] # None}
  /\ \A ws : Chosen(ws) \subseteq Chosen(Weights)
  BY DEF Chosen, Weights

LEMMA DrawType ==
  ASSUME TypeOK, NEW g \in Chosen(Weights)
  PROVE  /\ g \in Groups /\ draw[g] # None /\ draw[g].size \in TableSizes
         /\ draw[g] \in DrawRows(draw[g].size) /\ draw[g].id \in 1..made
         /\ draw[g].id \in Nat /\ WeightOf[g] \in Nat
  <1>1. g \in Groups /\ draw[g] # None
    BY Drawn
  <1>2. draw[g].id \in 1..made /\ made \in Nat
    BY DEF TypeOK
  <1>3. WeightOf[g] \in Nat
    BY <1>1, BracketsAssumption
  <1> QED
    BY <1>1, <1>2, <1>3 DEF TypeOK

\* What is known of a bout that a call numbers.
LEMMA OnMat ==
  ASSUME TypeOK, NEW ws, NEW t, NEW x \in BoutsOnMat(ws, t)
  PROVE  /\ x[1] \in Chosen(ws) /\ x[1] \in Chosen(Weights) /\ x[1] \in Groups
         /\ x[2] \in Bouts(draw[x[1]].size)
         /\ x = <<x[1], x[2]>> /\ MatOf(x[1]) = t
         /\ Several(draw[x[1]]) /\ ~IsBye(draw[x[1]], x[2])
  <1>1. /\ x \in UNION {{g} \X Bouts(draw[g].size) : g \in Chosen(ws)}
        /\ MatOf(x[1]) = t
        /\ Several(draw[x[1]]) /\ ~IsBye(draw[x[1]], x[2])
    BY DEF BoutsOnMat
  <1>2. PICK g \in Chosen(ws) : x \in {g} \X Bouts(draw[g].size)
    BY <1>1
  <1>3. x[1] = g /\ x[2] \in Bouts(draw[g].size) /\ x = <<x[1], x[2]>>
    BY <1>2
  <1>4. g \in Chosen(Weights) /\ g \in Groups
    BY Drawn
  <1> QED
    BY <1>1, <1>3, <1>4

LEMMA MatFinite ==
  ASSUME TypeOK, NEW ws, NEW t
  PROVE  IsFiniteSet(BoutsOnMat(ws, t))
  <1> DEFINE All == Groups \X ((1..7) \X (1..64))
  <1>1. IsFiniteSet(All)
    <2>1. IsFiniteSet(1..7) /\ IsFiniteSet(1..64)
      <3>1. \A n \in Nat : IsFiniteSet(1..n)
        BY FS_Interval
      <3> QED
        BY <3>1
    <2>2. IsFiniteSet((1..7) \X (1..64))
      BY <2>1, FS_Product
    <2> QED
      BY <2>2, FS_Product, BracketsAssumption
  <1>2. ASSUME NEW x \in BoutsOnMat(ws, t) PROVE x \in All
    <2>1. /\ x = <<x[1], x[2]>> /\ x[1] \in Groups
          /\ x[2] \in Bouts(draw[x[1]].size) /\ x[1] \in Chosen(Weights)
      BY OnMat
    <2>2. x[2] = <<x[2][1], x[2][2]>> /\ x[2][1] \in 1..7 /\ x[2][2] \in 1..64
      BY <2>1, DrawType, BoutType
    <2>3. x[2] \in (1..7) \X (1..64)
      BY <2>2
    <2> HIDE DEF All
    <2>4. <<x[1], x[2]>> \in All
      BY <2>1, <2>3 DEF All
    <2> QED
      BY <2>1, <2>4
  <1>3. BoutsOnMat(ws, t) \in SUBSET All
    BY <1>2
  <1> QED
    BY <1>1, <1>3, FS_Subset

LEMMA PlaceType ==
  ASSUME TypeOK, NEW ws, NEW t, NEW x \in BoutsOnMat(ws, t)
  PROVE  /\ \A i \in 1..5 : Place(x)[i] \in Int
         /\ Place(x)[1] = IF IsFinal(draw[x[1]], x[2]) THEN 1 ELSE 0
         /\ Place(x)[2] = IF IsFinal(draw[x[1]], x[2]) THEN 0 ELSE x[2][1]
         /\ Place(x)[3] = WeightOf[x[1]] /\ Place(x)[4] = draw[x[1]].id
         /\ Place(x)[5] = x[2][2]
  <1>1. x[1] \in Chosen(Weights) /\ x[2] \in Bouts(draw[x[1]].size)
    BY OnMat
  <1>2. /\ draw[x[1]].id \in Nat /\ WeightOf[x[1]] \in Nat
        /\ x[2][1] \in 1..7 /\ x[2][2] \in 1..64
    BY <1>1, DrawType, BoutType
  <1>3. /\ Place(x)[1] = IF IsFinal(draw[x[1]], x[2]) THEN 1 ELSE 0
        /\ Place(x)[2] = IF IsFinal(draw[x[1]], x[2]) THEN 0 ELSE x[2][1]
        /\ Place(x)[3] = WeightOf[x[1]] /\ Place(x)[4] = draw[x[1]].id
        /\ Place(x)[5] = x[2][2]
    BY DEF Place
  <1>4. \A i \in 1..5 : Place(x)[i] \in Int
    <2>1. /\ Place(x)[1] \in Int /\ Place(x)[2] \in Int /\ Place(x)[3] \in Int
          /\ Place(x)[4] \in Int /\ Place(x)[5] \in Int
      BY <1>2, <1>3
    <2> QED
      BY <2>1
  <1> QED
    BY <1>3, <1>4

\* The number a bout gets among the bouts of its mat.
NumberOf(x, here) == Cardinality({y \in here : ~Precedes(x, y)})

LEMMA NumberFollowsOrder ==
  ASSUME TypeOK, NEW ws, NEW t, NEW x \in BoutsOnMat(ws, t)
  PROVE  /\ NumberOf(x, BoutsOnMat(ws, t)) \in 1..Cardinality(BoutsOnMat(ws, t))
         /\ \A z \in BoutsOnMat(ws, t) : Precedes(x, z) =>
              NumberOf(x, BoutsOnMat(ws, t)) < NumberOf(z, BoutsOnMat(ws, t))
  <1> DEFINE here == BoutsOnMat(ws, t)
             UpTo(y) == {z \in here : ~Precedes(y, z)}
  <1>1. IsFiniteSet(here)
    BY MatFinite
  <1>2. \A y \in here : \A i \in 1..5 : Place(y)[i] \in Int
    BY PlaceType
  <1>3. ASSUME NEW y \in here
        PROVE  /\ y \in UpTo(y) /\ IsFiniteSet(UpTo(y))
               /\ Cardinality(UpTo(y)) \in 1..Cardinality(here)
               /\ Cardinality(here) \in Nat
    <2>1. ~Precedes(y, y)
      BY <1>2 DEF Precedes
    <2>2. y \in UpTo(y) /\ UpTo(y) \in SUBSET here
      BY <2>1
    <2>3. /\ IsFiniteSet(UpTo(y)) /\ Cardinality(UpTo(y)) <= Cardinality(here)
          /\ Cardinality(UpTo(y)) \in Nat /\ Cardinality(here) \in Nat
      BY <1>1, <2>2, FS_Subset, FS_CardinalityType
    <2>4. Cardinality(UpTo(y)) # 0
      BY <2>2, <2>3, FS_EmptySet
    <2> HIDE DEF UpTo, here
    <2> QED
      BY <2>2, <2>3, <2>4
  <1>4. ASSUME NEW z \in here, Precedes(x, z)
        PROVE  Cardinality(UpTo(x)) < Cardinality(UpTo(z))
    <2>1. UpTo(x) \in SUBSET UpTo(z)
      <3>1. ASSUME NEW y \in here, Precedes(z, y) PROVE Precedes(x, y)
        BY <1>2, <1>4, <3>1, PrecedesTransitive
      <3> QED
        BY <3>1
    <2>2. z \in UpTo(z) /\ z \notin UpTo(x) /\ IsFiniteSet(UpTo(z))
      BY <1>3, <1>4
    <2> HIDE DEF UpTo, here
    <2>3. /\ Cardinality(UpTo(x)) <= Cardinality(UpTo(z))
          /\ Cardinality(UpTo(x)) # Cardinality(UpTo(z))
      BY <2>1, <2>2, FS_Subset
    <2>4. Cardinality(UpTo(x)) \in Nat /\ Cardinality(UpTo(z)) \in Nat
      BY <1>3 DEF here
    <2> QED
      BY <2>3, <2>4
  <1> QED
    BY <1>3, <1>4 DEF NumberOf

\* Bouts of one mat are never level, because draws have ids of their own.
LEMMA OrderTotal ==
  ASSUME TypeOK, DistinctIds, NEW ws, NEW t,
         NEW x \in BoutsOnMat(ws, t), NEW y \in BoutsOnMat(ws, t), x # y
  PROVE  Precedes(x, y) \/ Precedes(y, x)
  <1>1. \A i \in 1..5 : Place(x)[i] \in Int /\ Place(y)[i] \in Int
    BY PlaceType
  <1>2. ASSUME \A i \in 1..5 : Place(x)[i] = Place(y)[i] PROVE FALSE
    <2>1. draw[x[1]].id = draw[y[1]].id
      BY <1>2, PlaceType
    <2>2. x[1] = y[1]
      BY <2>1, OnMat DEF DistinctIds
    <2>3. x[2][2] = y[2][2]
      BY <1>2, PlaceType
    <2>4. IsFinal(draw[x[1]], x[2]) <=> IsFinal(draw[y[1]], y[2])
      BY <1>2, PlaceType
    <2>5. x[2][1] = y[2][1]
      <3>1. CASE IsFinal(draw[x[1]], x[2])
        BY <2>2, <2>4, <3>1 DEF IsFinal
      <3>2. CASE ~IsFinal(draw[x[1]], x[2])
        BY <1>2, <2>4, <3>2, PlaceType
      <3> QED
        BY <3>1, <3>2
    <2>6. /\ x[2] \in Bouts(draw[x[1]].size) /\ y[2] \in Bouts(draw[x[1]].size)
          /\ draw[x[1]].size \in TableSizes
      BY <2>2, OnMat, DrawType
    <2>7. x[2] = <<x[2][1], x[2][2]>> /\ y[2] = <<y[2][1], y[2][2]>>
      BY <2>6, BoutType
    <2>8. x[2] = y[2]
      BY <2>3, <2>5, <2>7
    <2>9. x = <<x[1], x[2]>> /\ y = <<y[1], y[2]>>
      BY OnMat
    <2> QED
      BY <2>2, <2>8, <2>9
  <1> DEFINE D(i) == Place(x)[i] # Place(y)[i]
  <1>3. \E i \in 1..5 : D(i) /\ \A j \in 1..(i - 1) : ~D(j)
    <2>1. D(1) \/ D(2) \/ D(3) \/ D(4) \/ D(5)
      BY <1>2
    <2> HIDE DEF D
    <2> QED
      BY <2>1
  <1>4. PICK i \in 1..5 : Place(x)[i] # Place(y)[i]
                          /\ \A j \in 1..(i - 1) : Place(x)[j] = Place(y)[j]
    BY <1>3
  <1>5. Place(x)[i] < Place(y)[i] \/ Place(y)[i] < Place(x)[i]
    BY <1>1, <1>4
  <1> QED
    BY <1>4, <1>5 DEF Precedes

-----------------------------------------------------------------------------
(* What the operations do to the draws *)

LEMMA MatOfType ==
  ASSUME TypeOK, NEW g \in Groups, mats[WeightOf[g]] # {}
  PROVE  MatOf(g) \in Mats
  <1> DEFINE M == mats[WeightOf[g]]
  <1>1. M \in SUBSET Mats /\ M \subseteq Nat /\ M # {}
    <2>1. WeightOf[g] \in Weights
      BY DEF Weights
    <2>2. mats[WeightOf[g]] \in SUBSET Mats
      BY <2>1 DEF TypeOK
    <2>3. Mats \subseteq Nat
      BY BracketsAssumption
    <2> QED
      BY <2>2, <2>3
  <1>2. \E t \in M : \A u \in M : t <= u
    <2>1. PICK t \in M : \A u \in M : <<u, t>> \notin OpToRel(<, Nat)
      BY <1>1, WFMin, NatLessThanWellFounded
    <2>2. \A u \in M : ~(u < t)
      BY <1>1, <2>1 DEF OpToRel
    <2> HIDE DEF M
    <2> QED
      BY <1>1, <2>2
  <1>3. MatOf(g) \in M
    BY <1>2 DEF MatOf
  <1> QED
    BY <1>1, <1>3

\* The size of a table is a power of two from two on.
LEMMA TableSizeType ==
  ASSUME NEW given \in PowersOfTwo, NEW count \in Nat
  PROVE  TableSize(given, count) \in TableSizes
  BY DEF TableSize, TableSizes, PowersOfTwo

\* The row a draw makes.
FreshRow(size, seats) ==
  [id |-> made + 1, size |-> size, seats |-> seats,
   number |-> [b \in Bouts(size) |-> 0],
   mat |-> [b \in Bouts(size) |-> 0], later |-> FALSE]

\* What a draw makes of the request.
LEMMA DrawMade ==
  ASSUME TypeOK, CreateDraw
  PROVE  /\ request \in Requests /\ request.group \in Groups
         /\ IsFiniteSet(Pool(request.group)) /\ Pool(request.group) \in SUBSET Entries
         /\ None \notin Pool(request.group)
         /\ \E size \in TableSizes, order \in Orders(Pool(request.group)) : \E seats :
              /\ seats = Seating(order, size, Cardinality(Pool(request.group)))
              /\ draw' = [draw EXCEPT ![request.group] = FreshRow(size, seats)]
              /\ history' = {} \/ history' = history \cup {Meeting(request.group, pair) : pair \in Pairs(seats, size)}
  <1> DEFINE g == request.group
             pool == Pool(g)
             count == Cardinality(pool)
             size == TableSize(request.size, count)
  <1>1. request \in Requests /\ g \in Groups /\ request.size \in PowersOfTwo
    BY DEF TypeOK, CreateDraw, Requests
  <1>2. pool \in SUBSET Entries
    BY DEF Pool, TypeOK
  <1>3. IsFiniteSet(pool) /\ count \in Nat /\ None \notin pool
    BY <1>2, FS_Subset, FS_CardinalityType, BracketsAssumption
  <1>4. size \in TableSizes
    BY <1>1, <1>3, TableSizeType
  <1>5. PICK seats \in BestSeatings(pool, size, count > request.threshold) :
          /\ draw' = [draw EXCEPT ![g] = FreshRow(size, seats)]
          /\ history' = {} \/ history' = history \cup {Meeting(g, pair) : pair \in Pairs(seats, size)}
    BY DEF CreateDraw, FreshRow
  <1> HIDE DEF size
  <1>6. PICK order \in Orders(pool) : seats = Seating(order, size, count)
    BY DEF BestSeatings
  <1> QED
    BY <1>1, <1>2, <1>3, <1>4, <1>5, <1>6

\* A draw that numbering does not touch keeps everything; of the others only
\* numbers and mats change.
LEMMA Renumbered ==
  ASSUME TypeOK, NEW ws \in SUBSET Weights, NEW reset \in BOOLEAN,
         NumberMatches(ws, reset), NEW g \in Groups
  PROVE  /\ g \notin Chosen(ws) => draw'[g] = draw[g]
         /\ g \in Chosen(ws) =>
              /\ draw'[g].size = draw[g].size /\ draw'[g].seats = draw[g].seats
              /\ draw'[g].id = draw[g].id
              /\ draw'[g] \in DrawRows(draw[g].size)
              /\ \A b \in Bouts(draw[g].size) :
                   draw'[g].number[b] =
                     IF <<g, b>> \in BoutsOnMat(ws, MatOf(g))
                     THEN NumberOf(<<g, b>>, BoutsOnMat(ws, MatOf(g)))
                     ELSE IF reset THEN 0 ELSE draw[g].number[b]
              /\ \A b \in Bouts(draw[g].size) :
                   draw'[g].mat[b] =
                     IF <<g, b>> \in BoutsOnMat(ws, MatOf(g)) /\ draw[g].mat[b] = 0
                     THEN MatOf(g) ELSE draw[g].mat[b]
  <1>1. CASE g \notin Chosen(ws)
    BY <1>1 DEF NumberMatches
  <1>2. CASE g \in Chosen(ws)
    <2> DEFINE d == draw[g]
               here == BoutsOnMat(ws, MatOf(g))
               number == [b \in DOMAIN d.number |->
                            CASE <<g, b>> \in here ->
                                   Cardinality({y \in here : ~Precedes(<<g, b>>, y)})
                              [] ~(<<g, b>> \in here) /\ reset -> 0
                              [] OTHER -> d.number[b]]
               mat == [b \in DOMAIN d.mat |->
                         IF <<g, b>> \in here /\ d.mat[b] = 0 THEN MatOf(g)
                         ELSE d.mat[b]]
    <2>1. draw'[g] = [d EXCEPT !.later = TRUE, !.number = number, !.mat = mat]
      BY <1>2 DEF NumberMatches
    <2>2. g \in Chosen(Weights)
      BY <1>2, Drawn
    <2>3. d.size \in TableSizes /\ d \in DrawRows(d.size)
      BY <2>2, DrawType
    <2>4. MatOf(g) \in Mats
      <3>1. WeightOf[g] \in ws
        BY <1>2 DEF Chosen
      <3>2. mats[WeightOf[g]] # {}
        BY <3>1 DEF NumberMatches
      <3> QED
        BY <3>2, MatOfType
    <2>5. /\ d.number \in [Bouts(d.size) -> Nat] /\ d.mat \in [Bouts(d.size) -> Mats \cup {0}]
          /\ d.seats \in [1..d.size -> Entries \cup {None}] /\ d.id \in Nat
      BY <2>3 DEF DrawRows
    <2>6. \A b \in Bouts(d.size) :
            <<g, b>> \in here => NumberOf(<<g, b>>, here) \in Nat
      <3>1. ASSUME NEW x \in here PROVE NumberOf(x, here) \in Nat
        <4>1. NumberOf(x, here) \in 1..Cardinality(here)
          BY NumberFollowsOrder
        <4> QED
          BY <4>1
      <3> QED
        BY <3>1
    <2> HIDE DEF here
    <2>7. \A b \in Bouts(d.size) :
            number[b] = IF <<g, b>> \in here THEN NumberOf(<<g, b>>, here)
                        ELSE IF reset THEN 0 ELSE d.number[b]
      BY <2>5 DEF NumberOf
    <2>8. number \in [Bouts(d.size) -> Nat]
      <3>1. \A b \in Bouts(d.size) : number[b] \in Nat
        BY <2>5, <2>6, <2>7
      <3>2. DOMAIN d.number = Bouts(d.size)
        BY <2>5
      <3> QED
        BY <3>1, <3>2
    <2>9. /\ mat \in [Bouts(d.size) -> Mats \cup {0}]
          /\ \A b \in Bouts(d.size) :
               mat[b] = IF <<g, b>> \in here /\ d.mat[b] = 0 THEN MatOf(g) ELSE d.mat[b]
      BY <2>4, <2>5
    <2> HIDE DEF number, mat
    <2>10. /\ draw'[g] \in DrawRows(d.size) /\ draw'[g].number = number
           /\ draw'[g].mat = mat
           /\ draw'[g].size = d.size /\ draw'[g].seats = d.seats /\ draw'[g].id = d.id
      BY <2>1, <2>3, <2>8, <2>9 DEF DrawRows
    <2> QED
      BY <1>2, <2>7, <2>9, <2>10 DEF here
  <1> QED
    BY <1>1, <1>2

\* Clearing changes nothing but numbers.
LEMMA Cleared ==
  ASSUME TypeOK, NEW ws \in SUBSET Weights, ClearNumbers(ws), NEW g \in Groups
  PROVE  /\ g \notin Chosen(ws) => draw'[g] = draw[g]
         /\ g \in Chosen(ws) =>
              /\ draw'[g].size = draw[g].size /\ draw'[g].seats = draw[g].seats
              /\ draw'[g].id = draw[g].id
              /\ draw'[g] \in DrawRows(draw[g].size)
              /\ draw'[g].mat = draw[g].mat
              /\ \A b \in Bouts(draw[g].size) : draw'[g].number[b] = 0
  <1>1. CASE g \notin Chosen(ws)
    BY <1>1 DEF ClearNumbers
  <1>2. CASE g \in Chosen(ws)
    <2> DEFINE d == draw[g]
               number == [b \in DOMAIN d.number |-> 0]
    <2>1. draw'[g] = [d EXCEPT !.number = number]
      BY <1>2 DEF ClearNumbers
    <2>2. d.size \in TableSizes /\ d \in DrawRows(d.size)
      BY <1>2, Drawn, DrawType
    <2>3. number \in [Bouts(d.size) -> Nat] /\ \A b \in Bouts(d.size) : number[b] = 0
      BY <2>2 DEF DrawRows
    <2> HIDE DEF number
    <2>4. /\ draw'[g] \in DrawRows(d.size) /\ draw'[g].number = number
          /\ draw'[g].mat = d.mat
          /\ draw'[g].size = d.size /\ draw'[g].seats = d.seats /\ draw'[g].id = d.id
      BY <2>1, <2>2, <2>3 DEF DrawRows
    <2> QED
      BY <1>2, <2>3, <2>4
  <1> QED
    BY <1>1, <1>2

-----------------------------------------------------------------------------
(* The inductive invariant *)

\* What holds of every draw: it is a row of a table whose empty places are the
\* byes, it has no numbers or all of them, they follow the rounds, and its
\* bouts are on one mat.
RowInv(d) ==
  /\ d.size \in TableSizes /\ d \in DrawRows(d.size)
  /\ Cardinality(Seated(d)) \in 0..d.size
  /\ {s \in 1..d.size : d.seats[s] = None} =
       ByeSlots(d.size, Cardinality(Seated(d)))
  /\ Numbered(d) \in {{}, {b \in Bouts(d.size) : ~IsBye(d, b)}}
  /\ \A b, c \in Numbered(d) : b[1] < c[1] => d.number[b] < d.number[c]
  /\ OneMat(d)

\* A draw that the page has started stays within the bound.
Pending == request # None => made < MaxDraws

Inv ==
  /\ TypeOK /\ Pending /\ DistinctIds
  /\ \A g \in Chosen(Weights) : RowInv(draw[g])

LEMMA InvGives ==
  ASSUME Inv
  PROVE  TypeOK /\ DistinctIds /\ SeatsInv /\ AllOrNone /\ FeedersFirst /\ MatsInv
  <1>1. TypeOK /\ DistinctIds /\ SeatsInv /\ FeedersFirst /\ MatsInv
    BY DEF Inv, RowInv, SeatsInv, FeedersFirst, MatsInv
  <1>2. ASSUME NEW g \in Chosen(Weights),
               NEW b \in Bouts(draw[g].size), NEW c \in Bouts(draw[g].size),
               ~IsBye(draw[g], b), ~IsBye(draw[g], c)
        PROVE  draw[g].mat[b] = draw[g].mat[c]
    BY <1>1, <1>2 DEF MatsInv, OneMat
  <1>3. ASSUME NEW g \in Chosen(Weights)
        PROVE  Numbered(draw[g]) \in {{}, {b \in Bouts(draw[g].size) : ~IsBye(draw[g], b)}}
    BY DEF Inv, RowInv
  <1> QED
    BY <1>1, <1>2, <1>3 DEF AllOrNone

\* A draw that was just made.
LEMMA NewRow ==
  ASSUME NEW pool \in SUBSET Entries, IsFiniteSet(pool), None \notin pool,
         NEW order \in Orders(pool), NEW size \in TableSizes, made \in Nat,
         NEW seats, seats = Seating(order, size, Cardinality(pool)),
         NEW d, d = FreshRow(size, seats)
  PROVE  RowInv(d)
  <1>1. d.size = size /\ d.seats = seats /\ \A b \in Bouts(size) : d.number[b] = 0
    BY DEF FreshRow
  <1>2. seats \in [1..size -> Entries \cup {None}]
    <2>1. seats \in [1..size -> pool \cup {None}]
      BY SeatingPlaces
    <2> QED
      BY <2>1
  <1>3. d \in DrawRows(d.size)
    <2> DEFINE zero == [b \in Bouts(size) |-> 0]
    <2>1. zero \in [Bouts(size) -> Nat] /\ zero \in [Bouts(size) -> Mats \cup {0}]
      OBVIOUS
    <2>2. d = [id |-> made + 1, size |-> size, seats |-> seats,
               number |-> zero, mat |-> zero, later |-> FALSE]
      BY DEF FreshRow
    <2> HIDE DEF zero
    <2> QED
      BY <1>2, <2>1, <2>2 DEF DrawRows
  <1>4. /\ Cardinality(Seated(d)) \in 0..size
        /\ {s \in 1..size : d.seats[s] = None} = ByeSlots(size, Cardinality(Seated(d)))
    <2> DEFINE seated == {seats[s] : s \in 1..size} \ {None}
    <2>1. Seated(d) = seated
      BY <1>1 DEF Seated
    <2>2. /\ Cardinality(seated) \in 0..size
          /\ {s \in 1..size : seats[s] = None} = ByeSlots(size, Cardinality(seated))
      BY SeatingCount
    <2>3. {s \in 1..size : d.seats[s] = None} = {s \in 1..size : seats[s] = None}
      BY <1>1
    <2> HIDE DEF seated
    <2> QED
      BY <2>1, <2>2, <2>3
  <1>5. Numbered(d) = {}
    BY <1>1 DEF Numbered
  <1>6. OneMat(d)
    BY <1>1 DEF OneMat, FreshRow
  <1> QED
    BY <1>1, <1>3, <1>4, <1>5, <1>6 DEF RowInv

\* Of one draw, a bout of a later round comes after one of an earlier round.
LEMMA RoundsInOrder ==
  ASSUME TypeOK, NEW ws, NEW t, NEW g, NEW b, NEW c,
         <<g, b>> \in BoutsOnMat(ws, t), <<g, c>> \in BoutsOnMat(ws, t), b[1] < c[1]
  PROVE  Precedes(<<g, b>>, <<g, c>>)
  <1> DEFINE x == <<g, b>>
             y == <<g, c>>
  <1>1. x[1] = g /\ x[2] = b /\ y[1] = g /\ y[2] = c
    OBVIOUS
  <1> HIDE DEF x, y
  <1>2. x \in BoutsOnMat(ws, t) /\ y \in BoutsOnMat(ws, t)
    BY DEF x, y
  <1>3. /\ g \in Chosen(Weights) /\ b \in Bouts(draw[g].size)
        /\ c \in Bouts(draw[g].size)
    BY <1>1, <1>2, OnMat
  <1>4. /\ b[1] \in 1..Rounds(draw[g].size) /\ c[1] \in 1..Rounds(draw[g].size)
        /\ b[1] \in 1..7 /\ c[1] \in 1..7 /\ Rounds(draw[g].size) \in 1..7
    BY <1>3, DrawType, BoutType, RoundsType
  <1>5. ~IsFinal(draw[g], b)
    BY <1>4 DEF IsFinal
  <1>6. Place(x)[1] = 0 /\ Place(x)[2] = b[1]
    BY <1>1, <1>2, <1>5, PlaceType
  <1>7. /\ Place(y)[1] = IF IsFinal(draw[g], c) THEN 1 ELSE 0
        /\ Place(y)[2] = IF IsFinal(draw[g], c) THEN 0 ELSE c[1]
    BY <1>1, <1>2, PlaceType
  <1>8. Precedes(x, y)
    <2>1. CASE IsFinal(draw[g], c)
      BY <1>6, <1>7, <2>1 DEF Precedes
    <2>2. CASE ~IsFinal(draw[g], c)
      <3>1. Place(x)[2] < Place(y)[2] /\ \A j \in 1..(2 - 1) : Place(x)[j] = Place(y)[j]
        BY <1>6, <1>7, <2>2
      <3> QED
        BY <3>1 DEF Precedes
    <2> QED
      BY <2>1, <2>2
  <1> QED
    BY <1>8 DEF x, y

\* The invariant of a draw survives a change of its numbers to nothing or to
\* all bouts in the order of the rounds.
LEMMA RowKept ==
  ASSUME NEW d, NEW e, RowInv(d), e \in DrawRows(d.size), e.size = d.size,
         e.seats = d.seats,
         Numbered(e) \in {{}, {b \in Bouts(d.size) : ~IsBye(d, b)}},
         \A b, c \in Numbered(e) : b[1] < c[1] => e.number[b] < e.number[c],
         OneMat(e)
  PROVE  RowInv(e)
  <1>1. Seated(e) = Seated(d)
    BY DEF Seated
  <1>2. \A b : IsBye(e, b) <=> IsBye(d, b)
    BY DEF IsBye
  <1>3. {b \in Bouts(e.size) : ~IsBye(e, b)} = {b \in Bouts(d.size) : ~IsBye(d, b)}
    BY <1>2
  <1> QED
    BY <1>1, <1>3 DEF RowInv

LEMMA RenumberedRow ==
  ASSUME Inv, NEW ws \in SUBSET Weights, NEW reset \in BOOLEAN,
         NumberMatches(ws, reset), NEW g \in Chosen(ws)
  PROVE  RowInv(draw'[g])
  <1> DEFINE d == draw[g]
             e == draw'[g]
             here == BoutsOnMat(ws, MatOf(g))
  <1>1. g \in Groups /\ g \in Chosen(Weights) /\ TypeOK
    BY Drawn DEF Inv
  <1>2. RowInv(d)
    BY <1>1 DEF Inv
  <1>3. /\ e.size = d.size /\ e.seats = d.seats /\ e \in DrawRows(d.size)
        /\ \A b \in Bouts(d.size) :
             e.number[b] = IF <<g, b>> \in here THEN NumberOf(<<g, b>>, here)
                           ELSE IF reset THEN 0 ELSE d.number[b]
    BY <1>1, Renumbered
  <1>4. \A b \in Bouts(d.size) :
          <<g, b>> \in here <=> Several(d) /\ ~IsBye(d, b)
    <2> SUFFICES ASSUME NEW b \in Bouts(d.size)
                 PROVE  <<g, b>> \in here <=> Several(d) /\ ~IsBye(d, b)
      OBVIOUS
    <2>1. <<g, b>>[1] = g /\ <<g, b>>[2] = b
      OBVIOUS
    <2>2. <<g, b>> \in UNION {{h} \X Bouts(draw[h].size) : h \in Chosen(ws)}
      OBVIOUS
    <2> QED
      BY <2>1, <2>2 DEF BoutsOnMat
  <1>m. /\ MatOf(g) \in Mats
        /\ \A b \in Bouts(d.size) :
             e.mat[b] = IF <<g, b>> \in here /\ d.mat[b] = 0 THEN MatOf(g) ELSE d.mat[b]
    <2>1. mats[WeightOf[g]] # {}
      BY DEF NumberMatches, Chosen
    <2> QED
      BY <1>1, <2>1, MatOfType, Renumbered
  <1>5. \A b : <<g, b>> \in here =>
          /\ NumberOf(<<g, b>>, here) # 0
          /\ \A c : <<g, c>> \in here /\ b[1] < c[1] =>
               NumberOf(<<g, b>>, here) < NumberOf(<<g, c>>, here)
    <2> SUFFICES ASSUME NEW b, <<g, b>> \in here
                 PROVE  /\ NumberOf(<<g, b>>, here) # 0
                        /\ \A c : <<g, c>> \in here /\ b[1] < c[1] =>
                             NumberOf(<<g, b>>, here) < NumberOf(<<g, c>>, here)
      OBVIOUS
    <2>1. /\ NumberOf(<<g, b>>, here) \in 1..Cardinality(here)
          /\ \A z \in here : Precedes(<<g, b>>, z) =>
               NumberOf(<<g, b>>, here) < NumberOf(z, here)
      BY <1>1, NumberFollowsOrder
    <2>2. \A c : <<g, c>> \in here /\ b[1] < c[1] => Precedes(<<g, b>>, <<g, c>>)
      BY <1>1, RoundsInOrder
    <2> QED
      BY <2>1, <2>2
  <1>6. Numbered(e) = {b \in Bouts(d.size) : e.number[b] # 0}
    BY <1>3 DEF Numbered
  <1>7. Numbered(d) = {b \in Bouts(d.size) : d.number[b] # 0}
    BY DEF Numbered
  <1>8. /\ Numbered(d) \in {{}, {b \in Bouts(d.size) : ~IsBye(d, b)}}
        /\ \A b, c \in Numbered(d) : b[1] < c[1] => d.number[b] < d.number[c]
    BY <1>2 DEF RowInv
  <1> HIDE DEF here, d, e
  <1>9. /\ Numbered(e) \in {{}, {b \in Bouts(d.size) : ~IsBye(d, b)}}
        /\ \A b, c \in Numbered(e) : b[1] < c[1] => e.number[b] < e.number[c]
    <2>1. CASE Several(d)
      <3>1. \A b \in Bouts(d.size) : <<g, b>> \in here <=> ~IsBye(d, b)
        BY <1>4, <2>1
      <3>2. \A b \in Bouts(d.size) : IsBye(d, b) => d.number[b] = 0
        BY <1>7, <1>8
      <3>3. \A b \in Bouts(d.size) : e.number[b] # 0 <=> <<g, b>> \in here
        BY <1>3, <1>5, <3>1, <3>2
      <3>4. Numbered(e) = {b \in Bouts(d.size) : ~IsBye(d, b)}
        BY <1>6, <3>1, <3>3
      <3>5. \A b \in Numbered(e) : /\ <<g, b>> \in here
                                   /\ e.number[b] = NumberOf(<<g, b>>, here)
        BY <1>3, <1>6, <3>3
      <3> QED
        BY <1>5, <3>4, <3>5
    <2>2. CASE ~Several(d)
      <3>1. \A b \in Bouts(d.size) : e.number[b] = IF reset THEN 0 ELSE d.number[b]
        BY <1>3, <1>4, <2>2
      <3>2. CASE reset
        <4>1. Numbered(e) = {}
          BY <1>6, <3>1, <3>2
        <4> QED
          BY <4>1
      <3>3. CASE ~reset
        <4>1. \A b \in Bouts(d.size) : e.number[b] = d.number[b]
          BY <3>1, <3>3
        <4>2. Numbered(e) = Numbered(d)
          BY <1>6, <1>7, <4>1
        <4>3. \A b \in Numbered(e) : e.number[b] = d.number[b]
          BY <1>6, <4>1
        <4> QED
          BY <1>8, <4>2, <4>3
      <3> QED
        BY <3>2, <3>3
    <2> QED
      BY <2>1, <2>2
  <1>10. OneMat(e)
    <2>1. PICK t \in Mats \cup {0} : \A b \in Bouts(d.size) :
            d.mat[b] = IF Several(d) /\ ~IsBye(d, b) THEN t ELSE 0
      BY <1>2 DEF RowInv, OneMat
    <2>2. Several(e) <=> Several(d)
      BY <1>3 DEF Several, Seated
    <2>3. \A b : IsBye(e, b) <=> IsBye(d, b)
      BY <1>3 DEF IsBye
    <2> DEFINE u == IF t = 0 THEN MatOf(g) ELSE t
    <2>4. u \in Mats \cup {0}
      BY <1>m
    <2>5. \A b \in Bouts(d.size) :
            e.mat[b] = IF Several(d) /\ ~IsBye(d, b) THEN u ELSE 0
      BY <1>m, <1>4, <2>1
    <2> HIDE DEF u
    <2> QED
      BY <1>3, <2>2, <2>3, <2>4, <2>5 DEF OneMat
  <1>11. RowInv(e)
    BY <1>2, <1>3, <1>9, <1>10, RowKept
  <1> QED
    BY <1>11 DEF e

LEMMA ClearedRow ==
  ASSUME Inv, NEW ws \in SUBSET Weights, ClearNumbers(ws), NEW g \in Chosen(ws)
  PROVE  RowInv(draw'[g])
  <1>1. g \in Groups /\ g \in Chosen(Weights) /\ TypeOK
    BY Drawn DEF Inv
  <1>2. RowInv(draw[g])
    BY <1>1 DEF Inv
  <1>3. /\ draw'[g].size = draw[g].size /\ draw'[g].seats = draw[g].seats
        /\ draw'[g] \in DrawRows(draw[g].size)
        /\ draw'[g].mat = draw[g].mat
        /\ \A b \in Bouts(draw[g].size) : draw'[g].number[b] = 0
    BY <1>1, Cleared
  <1>4. Numbered(draw'[g]) = {}
    BY <1>3 DEF Numbered
  <1>5. OneMat(draw'[g])
    <2>1. Several(draw'[g]) <=> Several(draw[g])
      BY <1>3 DEF Several, Seated
    <2>2. \A b : IsBye(draw'[g], b) <=> IsBye(draw[g], b)
      BY <1>3 DEF IsBye
    <2>3. OneMat(draw[g])
      BY <1>2 DEF RowInv
    <2> QED
      BY <1>3, <2>1, <2>2, <2>3 DEF OneMat
  <1> QED
    BY <1>2, <1>3, <1>4, <1>5, RowKept

-----------------------------------------------------------------------------
(* Every step keeps the invariant *)

\* The part of the type invariant that is not about draws.
RestOK ==
  /\ eligible \subseteq Entries
  /\ history \subseteq Meetings
  /\ mats \in [Weights -> SUBSET Mats]
  /\ published \in BOOLEAN
  /\ made \in 0..MaxDraws /\ edits \in 0..MaxEdits
  /\ request # None => request \in Requests
  /\ Pending

\* A draw stays as it is, or keeps its id and the invariant of its row, or is
\* the one that was just made.
LEMMA RowsStep ==
  ASSUME Inv, RestOK', made' \in {made, made + 1}, DOMAIN draw' = Groups,
         NEW n \in Groups,
         \A g \in Groups :
           \/ draw'[g] = draw[g]
           \/ /\ g \in Chosen(Weights) /\ RowInv(draw'[g])
              /\ draw'[g].id = draw[g].id
           \/ /\ g = n /\ made' = made + 1 /\ RowInv(draw'[g])
              /\ draw'[g].id = made + 1
  PROVE  Inv'
  <1>1. made \in Nat /\ made' \in Nat /\ made <= made'
    BY DEF Inv, TypeOK
  <1>2. Chosen(Weights)' = {g \in Groups : draw'[g] # None}
    BY DEF Chosen, Weights
  <1>3. ASSUME NEW g \in Chosen(Weights)
        PROVE  RowInv(draw[g]) /\ draw[g].id \in 1..made
    BY <1>3 DEF Inv, TypeOK
  <1>4. ASSUME NEW g \in Groups, draw'[g] # None
        PROVE  /\ RowInv(draw'[g]) /\ draw'[g].id \in 1..made'
               /\ \/ g \in Chosen(Weights) /\ draw'[g].id = draw[g].id
                  \/ g = n /\ made' = made + 1 /\ draw'[g].id = made + 1
    <2>1. CASE draw'[g] = draw[g]
      <3>1. g \in Chosen(Weights)
        BY <1>4, <2>1, Drawn
      <3> QED
        BY <1>1, <1>3, <2>1, <3>1
    <2>2. CASE g \in Chosen(Weights) /\ RowInv(draw'[g]) /\ draw'[g].id = draw[g].id
      BY <1>1, <1>3, <2>2
    <2>3. CASE g = n /\ made' = made + 1 /\ RowInv(draw'[g]) /\ draw'[g].id = made + 1
      BY <1>1, <2>3
    <2> QED
      BY <2>1, <2>2, <2>3
  <1>5. TypeOK' /\ Pending'
    <2>1. \A g \in Chosen(Weights)' :
            /\ draw'[g].size \in TableSizes /\ draw'[g] \in DrawRows(draw'[g].size)
            /\ draw'[g].id \in 1..made'
      BY <1>2, <1>4 DEF RowInv
    <2> QED
      BY <2>1 DEF TypeOK, RestOK
  <1>6. DistinctIds'
    <2>1. ASSUME NEW g \in Groups, NEW h \in Groups, draw'[g] # None,
                 draw'[h] # None, draw'[g].id = draw'[h].id
          PROVE  g = h
      <3>1. \A k \in Chosen(Weights) : draw[k].id # made + 1
        BY <1>1, <1>3
      <3>2. \/ g \in Chosen(Weights) /\ draw'[g].id = draw[g].id
            \/ g = n /\ draw'[g].id = made + 1
        BY <1>4, <2>1
      <3>3. \/ h \in Chosen(Weights) /\ draw'[h].id = draw[h].id
            \/ h = n /\ draw'[h].id = made + 1
        BY <1>4, <2>1
      <3> QED
        BY <2>1, <3>1, <3>2, <3>3 DEF Inv, DistinctIds
    <2> QED
      BY <1>2, <2>1 DEF DistinctIds
  <1>7. \A g \in Chosen(Weights)' : RowInv(draw'[g])
    BY <1>2, <1>4
  <1> QED
    BY <1>5, <1>6, <1>7 DEF Inv

LEMMA DrawsUnchanged ==
  ASSUME Inv, RestOK', UNCHANGED <<draw, made>>
  PROVE  Inv'
  <1>1. Chosen(Weights)' = Chosen(Weights)
    BY DEF Chosen, Weights
  <1>2. TypeOK' /\ Pending'
    BY <1>1 DEF Inv, TypeOK, RestOK
  <1>3. DistinctIds'
    BY <1>1 DEF Inv, DistinctIds
  <1> QED
    BY <1>1, <1>2, <1>3 DEF Inv

\* The pairs of a first round are meetings of players in the group that is drawn.
LEMMA PairsOfGroup ==
  ASSUME TypeOK, NEW g \in Groups, NEW order \in Orders(Pool(g)),
         NEW size \in TableSizes,
         NEW seats, seats = Seating(order, size, Cardinality(Pool(g)))
  PROVE  {Meeting(g, pair) : pair \in Pairs(seats, size)} \subseteq Meetings
  <1> DEFINE pool == Pool(g)
  <1>1. pool \subseteq Entries /\ \A p \in pool : GroupOf[p] = g
    BY DEF Pool, TypeOK
  <1>2. IsFiniteSet(pool) /\ None \notin pool
    BY <1>1, FS_Subset, BracketsAssumption
  <1>3. /\ seats \in [1..size -> pool \cup {None}]
        /\ \A s, t \in 1..size : seats[s] = seats[t] /\ seats[s] # None => s = t
    BY <1>2, SeatingPlaces
  <1>4. ASSUME NEW pair \in Pairs(seats, size) PROVE Meeting(g, pair) \in Meetings
    <2>1. PICK k \in 1..Half(size) :
            /\ None \notin {seats[2 * k - 1], seats[2 * k]}
            /\ pair = {seats[2 * k - 1], seats[2 * k]}
      BY DEF Pairs
    <2>2. 2 * k - 1 \in 1..size /\ 2 * k \in 1..size
      BY SizeCases DEF Half
    <2>3. seats[2 * k - 1] \in pool /\ seats[2 * k] \in pool
      BY <1>3, <2>1, <2>2
    <2>4. PICK p \in pool, q \in pool : pair = {p, q}
      BY <2>1, <2>3
    <2>5. PlayerOf[p] \in Players /\ PlayerOf[q] \in Players
      BY <1>1, <2>4, BracketsAssumption
    <2>6. {PlayerOf[e] : e \in pair} = {PlayerOf[p], PlayerOf[q]}
      BY <2>4
    <2>7. Meeting(g, pair) = <<g, {PlayerOf[p], PlayerOf[q]}>>
      BY <2>6 DEF Meeting
    <2> DEFINE x == PlayerOf[p]
               y == PlayerOf[q]
    <2> HIDE DEF x, y
    <2>8. x \in Players /\ y \in Players /\ Meeting(g, pair) = <<g, {x, y}>>
      BY <2>5, <2>7 DEF x, y
    <2> QED
      BY <2>8 DEF Meetings
  <1> QED
    BY <1>4

LEMMA InitHolds ==
  ASSUME Init PROVE Inv
  <1>1. Chosen(Weights) = {}
    BY DEF Init, Chosen
  <1>2. mats \in [Weights -> SUBSET Mats] /\ history \subseteq Meetings
    BY BracketsAssumption DEF Init
  <1>3. made = 0 /\ edits = 0 /\ request = None /\ published = FALSE
        /\ eligible = {} /\ DOMAIN draw = Groups
    BY DEF Init
  <1>4. published \in BOOLEAN /\ eligible \subseteq Entries
    BY <1>3
  <1>5. made \in 0..MaxDraws /\ edits \in 0..MaxEdits
    BY <1>3, BracketsAssumption
  <1>6. TypeOK
    BY <1>1, <1>2, <1>3, <1>4, <1>5 DEF TypeOK
  <1> QED
    BY <1>1, <1>3, <1>6 DEF Inv, DistinctIds, Pending

LEMMA CreateDrawKeeps ==
  ASSUME Inv, CreateDraw PROVE Inv'
  <1> DEFINE n == request.group
             pool == Pool(n)
  <1>1. TypeOK
    BY DEF Inv
  <1>2. /\ n \in Groups /\ IsFiniteSet(pool) /\ pool \in SUBSET Entries
        /\ None \notin pool
    BY <1>1, DrawMade
  <1>3. PICK size \in TableSizes, order \in Orders(pool) : \E seats :
          /\ seats = Seating(order, size, Cardinality(pool))
          /\ draw' = [draw EXCEPT ![n] = FreshRow(size, seats)]
          /\ history' = {} \/ history' = history \cup {Meeting(n, pair) : pair \in Pairs(seats, size)}
    BY <1>1, DrawMade
  <1>4. PICK seats :
          /\ seats = Seating(order, size, Cardinality(pool))
          /\ draw' = [draw EXCEPT ![n] = FreshRow(size, seats)]
          /\ history' = {} \/ history' = history \cup {Meeting(n, pair) : pair \in Pairs(seats, size)}
    BY <1>3
  <1> DEFINE row == FreshRow(size, seats)
  <1>5. row.id = made + 1
    BY DEF FreshRow
  <1>6. made \in Nat /\ made + 1 \in 0..MaxDraws
    BY <1>1, BracketsAssumption DEF Inv, Pending, TypeOK, CreateDraw
  <1>7. RowInv(row)
    BY <1>2, <1>4, <1>6, NewRow
  <1>8. {Meeting(n, pair) : pair \in Pairs(seats, size)} \subseteq Meetings
    BY <1>1, <1>2, <1>4, PairsOfGroup
  <1>9. RestOK'
    BY <1>1, <1>4, <1>6, <1>8 DEF CreateDraw, RestOK, TypeOK, Pending
  <1> HIDE DEF row, n
  <1>10. draw' = [draw EXCEPT ![n] = row]
    BY <1>4 DEF row, n
  <1>11. DOMAIN draw = Groups /\ made' = made + 1
    BY <1>1 DEF TypeOK, CreateDraw
  <1>12. \A g \in Groups : draw'[g] = IF g = n THEN row ELSE draw[g]
    BY <1>10, <1>11
  <1>13. DOMAIN draw' = Groups
    BY <1>10, <1>11
  <1> QED
    BY <1>2, <1>5, <1>7, <1>9, <1>11, <1>12, <1>13, RowsStep DEF n

LEMMA NumberMatchesKeeps ==
  ASSUME Inv, NEW ws \in SUBSET Weights, NEW reset \in BOOLEAN,
         NumberMatches(ws, reset)
  PROVE  Inv'
  <1>1. TypeOK
    BY DEF Inv
  <1>2. RestOK' /\ made' = made /\ DOMAIN draw' = Groups
    BY <1>1 DEF Inv, TypeOK, RestOK, Pending, NumberMatches
  <1>3. \A g \in Groups :
          \/ draw'[g] = draw[g]
          \/ /\ g \in Chosen(Weights) /\ RowInv(draw'[g])
             /\ draw'[g].id = draw[g].id
    <2> SUFFICES ASSUME NEW g \in Groups
                 PROVE  \/ draw'[g] = draw[g]
                        \/ /\ g \in Chosen(Weights) /\ RowInv(draw'[g])
                           /\ draw'[g].id = draw[g].id
      OBVIOUS
    <2>1. CASE g \in Chosen(ws)
      <3>1. draw'[g].id = draw[g].id
        BY <1>1, <2>1, Renumbered
      <3>2. RowInv(draw'[g])
        BY <2>1, RenumberedRow
      <3> QED
        BY <2>1, <3>1, <3>2, Drawn
    <2>2. CASE g \notin Chosen(ws)
      BY <1>1, <2>2, Renumbered
    <2> QED
      BY <2>1, <2>2
  <1>4. PICK n : n \in Groups
    BY DEF NumberMatches, Chosen
  <1> QED
    BY <1>2, <1>3, <1>4, RowsStep

LEMMA ClearNumbersKeeps ==
  ASSUME Inv, NEW ws \in SUBSET Weights, ws # {}, ClearNumbers(ws)
  PROVE  Inv'
  <1>1. TypeOK
    BY DEF Inv
  <1>2. RestOK' /\ made' = made /\ DOMAIN draw' = Groups
    BY <1>1, BracketsAssumption DEF Inv, TypeOK, RestOK, Pending, ClearNumbers
  <1>3. \A g \in Groups :
          \/ draw'[g] = draw[g]
          \/ /\ g \in Chosen(Weights) /\ RowInv(draw'[g])
             /\ draw'[g].id = draw[g].id
    <2> SUFFICES ASSUME NEW g \in Groups
                 PROVE  \/ draw'[g] = draw[g]
                        \/ /\ g \in Chosen(Weights) /\ RowInv(draw'[g])
                           /\ draw'[g].id = draw[g].id
      OBVIOUS
    <2>1. CASE g \in Chosen(ws)
      <3>1. draw'[g].id = draw[g].id
        BY <1>1, <2>1, Cleared
      <3>2. RowInv(draw'[g])
        BY <2>1, ClearedRow
      <3> QED
        BY <2>1, <3>1, <3>2, Drawn
    <2>2. CASE g \notin Chosen(ws)
      BY <1>1, <2>2, Cleared
    <2> QED
      BY <2>1, <2>2
  <1>4. PICK n : n \in Groups
    BY DEF Weights
  <1> QED
    BY <1>2, <1>3, <1>4, RowsStep

LEMMA StepKeeps ==
  ASSUME Inv, [Next]_vars PROVE Inv'
  <1>1. TypeOK /\ Pending /\ MaxEdits \in Nat
    BY BracketsAssumption DEF Inv
  <1>2. CASE \E p \in Entries : Enroll(p) \/ Withdraw(p)
    <2>1. RestOK' /\ UNCHANGED <<draw, made>>
      BY <1>1, <1>2 DEF Enroll, Withdraw, TypeOK, RestOK, Pending
    <2> QED
      BY <2>1, DrawsUnchanged
  <1>3. CASE \E g \in Groups : DrawPage(g)
    <2>1. PICK g \in Groups : DrawPage(g)
      BY <1>3
    <2> DEFINE count == Cardinality(Pool(g))
               usual == IF count >= 8 THEN 8 ELSE 9999
    <2>2. PICK size \in Sizes \cup {AutoSize(count)},
               threshold \in Thresholds \cup {usual} :
            /\ size \in PowersOfTwo
            /\ request' = [group |-> g, size |-> size, threshold |-> threshold]
      BY <2>1 DEF DrawPage
    <2>3. request' \in Requests
      <3>1. threshold \in Nat
        <4>1. usual \in Nat
          OBVIOUS
        <4> HIDE DEF usual
        <4> QED
          BY <4>1, BracketsAssumption
      <3> QED
        BY <2>2, <3>1 DEF Requests
    <2>4. RestOK' /\ UNCHANGED <<draw, made>>
      BY <1>1, <2>1, <2>3 DEF DrawPage, TypeOK, RestOK, Pending
    <2> QED
      BY <2>4, DrawsUnchanged
  <1>4. CASE CreateDrawFails
    <2>1. RestOK' /\ UNCHANGED <<draw, made>>
      BY <1>1, <1>4 DEF CreateDrawFails, TypeOK, RestOK, Pending
    <2> QED
      BY <2>1, DrawsUnchanged
  <1>5. CASE \E w \in Weights, ms \in Assignments : AssignMats(w, ms)
    <2>1. PICK w \in Weights, ms \in Assignments : AssignMats(w, ms)
      BY <1>5
    <2>2. mats' \in [Weights -> SUBSET Mats]
      BY <1>1, <2>1, BracketsAssumption DEF AssignMats, TypeOK
    <2>3. RestOK' /\ UNCHANGED <<draw, made>>
      BY <1>1, <2>1, <2>2 DEF AssignMats, TypeOK, RestOK, Pending
    <2> QED
      BY <2>3, DrawsUnchanged
  <1>6. CASE \E ws \in SUBSET Weights, reset, apply \in BOOLEAN :
               NumberingView(ws, reset, apply)
    <2>1. PICK ws \in SUBSET Weights, reset \in BOOLEAN, apply \in BOOLEAN :
            NumberingView(ws, reset, apply)
      BY <1>6
    <2>2. CASE NumberMatches(ws, reset)
      BY <2>2, NumberMatchesKeeps
    <2>3. CASE ClearNumbers(ws) /\ ws # {}
      BY <2>3, ClearNumbersKeeps
    <2> QED
      BY <2>1, <2>2, <2>3 DEF NumberingView
  <1>7. CASE Publish \/ Unpublish
    <2>1. published' \in BOOLEAN
      BY <1>7 DEF Publish, Unpublish
    <2>2. edits' \in 0..MaxEdits
      BY <1>1, <1>7 DEF Publish, Unpublish, TypeOK
    <2>3. UNCHANGED <<eligible, history, draw, mats, request, made>>
      BY <1>7 DEF Publish, Unpublish
    <2>4. RestOK'
      BY <1>1, <2>1, <2>2, <2>3 DEF TypeOK, RestOK, Pending
    <2> QED
      BY <2>3, <2>4, DrawsUnchanged
  <1>8. CASE UNCHANGED vars
    <2>1. RestOK' /\ UNCHANGED <<draw, made>>
      BY <1>1, <1>8 DEF vars, TypeOK, RestOK, Pending
    <2> QED
      BY <2>1, DrawsUnchanged
  <1> QED
    BY <1>2, <1>3, <1>4, <1>5, <1>6, <1>7, <1>8, CreateDrawKeeps DEF Next

\* The invariant holds of every reachable state.
LEMMA StateInvariant ==
  Spec => []Inv
  BY InitHolds, StepKeeps, PTL DEF Spec

-----------------------------------------------------------------------------
(* Theorems *)

\* Rows, requests, mats and draws have the shape the services give them, and
\* every table has a power of two of places (create_draw_for_group,
\* number_matches_for_competition).
THEOREM TypeCorrect == Spec => []TypeOK
  <1>1. Inv => TypeOK
    BY DEF Inv
  <1> QED
    BY <1>1, StateInvariant, PTL

\* A draw has no numbers or all of them, through every redraw, renumbering and
\* clearing (number_matches_for_competition, clear_match_numbers_for_competition).
THEOREM AllOrNoneCorrect == Spec => []AllOrNone
  <1>1. Inv => AllOrNone
    BY InvGives
  <1> QED
    BY <1>1, StateInvariant, PTL

\* A bout always has a higher number than the bouts of earlier rounds
\* (number_matches_for_competition).
THEOREM FeedersFirstCorrect == Spec => []FeedersFirst
  <1>1. Inv => FeedersFirst
    BY InvGives
  <1> QED
    BY <1>1, StateInvariant, PTL

\* The size the page proposes leaves fewer byes than half of the places, or
\* two of four.
LEMMA ProposedSize ==
  ASSUME NEW count \in 2..64, NEW size \in TableSizes,
         size = TableSize(NextPow2(count), count)
  PROVE  \/ size = 4
         \/ size > 4 /\ size - count < Half(size)
  <1> DEFINE s == NextPow2(count)
  <1>1. s \in PowersOfTwo /\ s >= count /\ \A t \in PowersOfTwo : t >= count => s <= t
    <2>1. \E p \in PowersOfTwo :
            p >= count /\ \A t \in PowersOfTwo : t >= count => p <= t
      <3>1. \/ count = 2 \/ count \in 3..4 \/ count \in 5..8 \/ count \in 9..16
            \/ count \in 17..32 \/ count \in 33..64
        OBVIOUS
      <3> QED
        BY <3>1 DEF PowersOfTwo
    <2> QED
      BY <2>1 DEF NextPow2
  <1> HIDE DEF s
  <1>2. size = TableSize(s, count)
    BY DEF s
  <1>3. CASE count <= 4
    <2>1. s <= 4
      BY <1>1, <1>3 DEF PowersOfTwo
    <2> QED
      BY <1>1, <1>2, <1>3, <2>1 DEF TableSize, PowersOfTwo
  <1>4. CASE count > 4
    <2>1. size = s
      BY <1>1, <1>2, <1>4 DEF TableSize, PowersOfTwo
    <2>2. s \in {8, 16, 32, 64, 128}
      BY <1>1, <1>4 DEF PowersOfTwo
    <2>3. Half(s) \in PowersOfTwo /\ Half(s) < s
      BY <2>2 DEF Half, PowersOfTwo
    <2>4. Half(s) < count
      BY <1>1, <2>2, <2>3 DEF PowersOfTwo
    <2> QED
      BY <2>1, <2>2, <2>4 DEF Half
  <1> QED
    BY <1>3, <1>4

\* No first-round bout of a table of the proposed size is empty
\* (BYE_ORDER_MAP, _bye_slots).
THEOREM NoEmptyBoutCorrect == Spec => []NoEmptyBout
  <1>1. ASSUME Inv PROVE NoEmptyBout
    <2> SUFFICES ASSUME NEW g \in Chosen(Weights),
                        Cardinality(Seated(draw[g])) >= 2, draw[g].size <= 64,
                        draw[g].size = TableSize(NextPow2(Cardinality(Seated(draw[g]))),
                                                 Cardinality(Seated(draw[g]))),
                        NEW k \in 1..Half(draw[g].size),
                        {draw[g].seats[2 * k - 1], draw[g].seats[2 * k]} = {None}
                 PROVE  FALSE
      BY DEF NoEmptyBout
    <2> DEFINE d == draw[g]
               size == d.size
               count == Cardinality(Seated(d))
    <2>1. /\ size \in TableSizes /\ count \in 0..size
          /\ {s \in 1..size : d.seats[s] = None} = ByeSlots(size, count)
      BY <1>1 DEF Inv, RowInv
    <2>2. 2 * k - 1 \in 1..size /\ 2 * k \in 1..size
      BY <2>1, SizeCases DEF Half
    <2>3. d.seats[2 * k - 1] = None /\ d.seats[2 * k] = None
      OBVIOUS
    <2>4. 2 * k - 1 \in ByeSlots(size, count) /\ 2 * k \in ByeSlots(size, count)
      BY <2>1, <2>2, <2>3
    <2>5. size \in {2, 4, 8, 16, 32, 64, 128} /\ size <= 64 /\ count >= 2
      BY <2>1, SizeCases
    <2>6. size = TableSize(NextPow2(count), count) /\ k \in 1..Half(size)
      OBVIOUS
    <2> HIDE DEF size, count
    <2>7. size \in Nat /\ count \in 2..64
      BY <2>1, <2>5
    <2>8. PICK i \in 1..size : i + count <= size /\ ByeOrder(size)[i] = 2 * k - 1
      BY <2>4 DEF ByeSlots
    <2>9. PICK j \in 1..size : j + count <= size /\ ByeOrder(size)[j] = 2 * k
      BY <2>4 DEF ByeSlots
    <2>10. size = 4 \/ (size > 4 /\ size - count < Half(size))
      <3>1. \A n \in 2..64, t \in TableSizes :
              t = TableSize(NextPow2(n), n) =>
                t = 4 \/ (t > 4 /\ t - n < Half(t))
        BY ProposedSize
      <3> QED
        BY <2>1, <2>6, <2>7, <3>1
    <2>11. size >= 4 /\ \/ i < Half(size) /\ j < Half(size)
                        \/ size = 4 /\ i <= 2 /\ j <= 2
      <3>1. Half(size) \in Nat
        BY <2>7 DEF Half
      <3> QED
        BY <2>7, <2>8, <2>9, <2>10, <3>1
    <2> QED
      BY <2>1, <2>5, <2>6, <2>8, <2>9, <2>11, ByeOrderSpreads
  <1> QED
    BY <1>1, StateInvariant, PTL

\* Only the draw makes a Draw row.
LEMMA OnlyDrawsMake ==
  ASSUME [Next]_vars, made' # made
  PROVE  CreateDraw
  <1>1. \A p \in Entries : ~Enroll(p) /\ ~Withdraw(p)
    BY DEF Enroll, Withdraw
  <1>2. \A g \in Groups : ~DrawPage(g)
    BY DEF DrawPage
  <1>3. ~CreateDrawFails /\ ~Publish /\ ~Unpublish
    BY DEF CreateDrawFails, Publish, Unpublish
  <1>4. \A w \in Weights, ms \in Assignments : ~AssignMats(w, ms)
    BY DEF AssignMats
  <1>5. \A ws \in SUBSET Weights, reset, apply \in BOOLEAN :
          ~NumberingView(ws, reset, apply)
    <2>1. ASSUME NEW ws, NEW reset, NumberMatches(ws, reset) PROVE FALSE
      <3>1. UNCHANGED <<eligible, history, mats, published, request, made, edits>>
        BY <2>1, ZenonT(30) DEF NumberMatches
      <3> QED
        BY <3>1
    <2>2. \A ws : ~ClearNumbers(ws)
      BY DEF ClearNumbers
    <2> QED
      BY <2>1, <2>2 DEF NumberingView
  <1> QED
    BY <1>1, <1>2, <1>3, <1>4, <1>5 DEF Next, vars

\* Whoever was eligible when a group is drawn has exactly one place of its
\* table, if the table is large enough (create_draw_for_group).
THEOREM RoomForAllCorrect == Spec => RoomForAll
  <1> DEFINE Room ==
        \A g \in Groups :
          LET d == draw'[g] IN
          made' # made /\ g = request.group /\ Cardinality(Pool(g)) <= d.size =>
            \A p \in Pool(g) :
              Cardinality({s \in 1..d.size : d.seats[s] = p}) = 1
  <1>1. ASSUME Inv, [Next]_vars PROVE Room
    <2>1. TypeOK /\ made \in Nat
      BY <1>1 DEF Inv, TypeOK
    <2>2. made' # made => CreateDraw
      BY <1>1, OnlyDrawsMake
    <2> SUFFICES ASSUME CreateDraw, NEW g \in Groups, g = request.group,
                        Cardinality(Pool(g)) <= draw'[g].size, NEW p \in Pool(g)
                 PROVE  Cardinality({s \in 1..draw'[g].size : draw'[g].seats[s] = p}) = 1
      BY <2>2
    <2>3. IsFiniteSet(Pool(g)) /\ None \notin Pool(g) /\ DOMAIN draw = Groups
      BY <2>1, DrawMade DEF TypeOK
    <2>4. PICK size \in TableSizes, order \in Orders(Pool(g)) : \E seats :
            /\ seats = Seating(order, size, Cardinality(Pool(g)))
            /\ draw' = [draw EXCEPT ![g] = FreshRow(size, seats)]
      BY <2>1, DrawMade
    <2>5. PICK seats : /\ seats = Seating(order, size, Cardinality(Pool(g)))
                       /\ draw'[g].size = size /\ draw'[g].seats = seats
      BY <2>3, <2>4 DEF FreshRow
    <2>6. /\ \A s, t \in 1..size : seats[s] = seats[t] /\ seats[s] # None => s = t
          /\ \E s \in 1..size : seats[s] = p
      BY <2>3, <2>5, SeatingPlaces
    <2>7. PICK s \in 1..size : seats[s] = p
      BY <2>6
    <2>8. {t \in 1..size : seats[t] = p} = {s}
      BY <2>3, <2>6, <2>7
    <2>9. Cardinality({t \in 1..size : seats[t] = p}) = 1
      BY <2>8, FS_Singleton
    <2> QED
      BY <2>5, <2>9
  <1>2. Inv /\ [Next]_vars => [Room]_vars
    BY <1>1
  <1> QED
    BY <1>2, StateInvariant, PTL DEF Spec, RoomForAll

\* The numbers of the bouts of a mat are those from 1 to their number.
LEMMA NumbersFill ==
  ASSUME TypeOK, DistinctIds, NEW ws, NEW t
  PROVE  {NumberOf(x, BoutsOnMat(ws, t)) : x \in BoutsOnMat(ws, t)} =
           1..Cardinality(BoutsOnMat(ws, t))
  <1> DEFINE here == BoutsOnMat(ws, t)
             n == Cardinality(here)
             f == [x \in here |-> NumberOf(x, here)]
  <1>1. IsFiniteSet(here) /\ n \in Nat
    BY MatFinite, FS_CardinalityType
  <1>2. \A x \in here : NumberOf(x, here) \in 1..n
    BY NumberFollowsOrder
  <1>3. ASSUME NEW x \in here, NEW y \in here, x # y
        PROVE  NumberOf(x, here) # NumberOf(y, here)
    <2>1. Precedes(x, y) \/ Precedes(y, x)
      BY <1>3, OrderTotal
    <2>2. /\ Precedes(x, y) => NumberOf(x, here) < NumberOf(y, here)
          /\ Precedes(y, x) => NumberOf(y, here) < NumberOf(x, here)
      BY NumberFollowsOrder
    <2>3. NumberOf(x, here) \in Int /\ NumberOf(y, here) \in Int
      BY <1>2
    <2> HIDE DEF here
    <2> QED
      BY <2>1, <2>2, <2>3
  <1> HIDE DEF here
  <1>4. f \in Injection(here, 1..n)
    BY <1>2, <1>3 DEF Injection, IsInjective
  <1>5. IsFiniteSet(1..n) /\ Cardinality(1..n) = n
    <2> HIDE DEF n
    <2> QED
      BY <1>1, FS_Interval
  <1>6. f \in Surjection(here, 1..n)
    BY <1>1, <1>4, <1>5, FS_Injection
  <1>7. \A i \in 1..n : \E x \in here : NumberOf(x, here) = i
    BY <1>6 DEF Surjection
  <1>8. {NumberOf(x, here) : x \in here} = 1..n
    BY <1>2, <1>7
  <1> QED
    BY <1>8 DEF here

\* A call over all drawn weights lists on a settled mat the bouts it counts for it.
LEMMA ListedIsCounted ==
  ASSUME Inv, NEW ws \in SUBSET Weights, NEW reset \in BOOLEAN,
         NumberMatches(ws, reset), Chosen(ws) = Chosen(Weights),
         NEW t \in Mats, Settled(t)
  PROVE  ListedOn(t)' = BoutsOnMat(ws, t)
  <1>1. TypeOK /\ t # 0
    BY BracketsAssumption DEF Inv
  <1> DEFINE new == draw'
  <1>2. ASSUME NEW g \in Chosen(ws)
        PROVE  /\ g \in Groups /\ new[g] # None /\ new[g].size = draw[g].size
               /\ \A b \in Bouts(draw[g].size) :
                    new[g].mat[b] = t <=> <<g, b>> \in BoutsOnMat(ws, t)
    <2>1. g \in Groups /\ g \in Chosen(Weights) /\ draw[g].size \in TableSizes
      BY <1>1, Drawn, DrawType
    <2>2. /\ new[g].size = draw[g].size /\ new[g] \in DrawRows(draw[g].size)
          /\ \A b \in Bouts(draw[g].size) :
               new[g].mat[b] =
                 IF <<g, b>> \in BoutsOnMat(ws, MatOf(g)) /\ draw[g].mat[b] = 0
                 THEN MatOf(g) ELSE draw[g].mat[b]
      BY <1>1, <2>1, Renumbered
    <2>3. new[g] # None
      BY <2>1, <2>2, NoneIsNoDraw
    <2>4. \A u, b : b \in Bouts(draw[g].size) =>
            (<<g, b>> \in BoutsOnMat(ws, u) <=>
               MatOf(g) = u /\ Several(draw[g]) /\ ~IsBye(draw[g], b))
      <3> SUFFICES ASSUME NEW u, NEW b \in Bouts(draw[g].size)
                   PROVE  <<g, b>> \in BoutsOnMat(ws, u) <=>
                            MatOf(g) = u /\ Several(draw[g]) /\ ~IsBye(draw[g], b)
        OBVIOUS
      <3>1. <<g, b>>[1] = g /\ <<g, b>>[2] = b
        OBVIOUS
      <3>2. <<g, b>> \in UNION {{h} \X Bouts(draw[h].size) : h \in Chosen(ws)}
        OBVIOUS
      <3> QED
        BY <3>1, <3>2 DEF BoutsOnMat
    <2>5. \A b \in Bouts(draw[g].size) :
            /\ draw[g].mat[b] # 0 => (draw[g].mat[b] = t <=> MatOf(g) = t)
            /\ ~(Several(draw[g]) /\ ~IsBye(draw[g], b)) => draw[g].mat[b] = 0
      <3>1. OneMat(draw[g])
        BY <2>1 DEF Inv, RowInv
      <3> QED
        BY <2>1, <3>1 DEF Settled, OneMat
    <2> HIDE DEF new
    <2>6. \A b \in Bouts(draw[g].size) :
            new[g].mat[b] = t <=> <<g, b>> \in BoutsOnMat(ws, t)
      BY <1>1, <2>2, <2>4, <2>5
    <2> QED
      BY <2>1, <2>2, <2>3, <2>6
  <1>3. Chosen(Weights)' = Chosen(ws)
    <2>1. Chosen(Weights)' = {g \in Groups : new[g] # None}
      BY DEF Chosen, Weights
    <2>2. \A g \in Groups : g \notin Chosen(ws) => new[g] = None
      BY <1>1, Drawn, Renumbered
    <2> HIDE DEF new
    <2> QED
      BY <1>2, <2>1, <2>2
  <1>4. ListedOn(t)' =
          {x \in UNION {{g} \X Bouts(new[g].size) : g \in Chosen(ws)} :
             new[x[1]].mat[x[2]] = t}
    BY <1>3 DEF ListedOn
  <1> HIDE DEF new
  <1>5. ASSUME NEW x \in ListedOn(t)' PROVE x \in BoutsOnMat(ws, t)
    <2>1. PICK g \in Chosen(ws) : x \in {g} \X Bouts(new[g].size)
      BY <1>4
    <2>2. x = <<g, x[2]>> /\ x[1] = g /\ x[2] \in Bouts(draw[g].size)
      BY <1>2, <2>1
    <2>3. new[g].mat[x[2]] = t
      BY <1>4, <2>2
    <2> QED
      BY <1>2, <2>2, <2>3
  <1>6. ASSUME NEW x \in BoutsOnMat(ws, t) PROVE x \in ListedOn(t)'
    <2>1. /\ x[1] \in Chosen(ws) /\ x[2] \in Bouts(draw[x[1]].size)
          /\ x = <<x[1], x[2]>>
      BY <1>1, OnMat
    <2>2. new[x[1]].size = draw[x[1]].size /\ new[x[1]].mat[x[2]] = t
      BY <1>2, <2>1
    <2>3. x \in {x[1]} \X Bouts(new[x[1]].size)
      BY <2>1, <2>2
    <2> QED
      BY <1>4, <2>1, <2>2, <2>3
  <1> QED
    BY <1>5, <1>6

\* A call over all drawn weights leaves the list of every settled mat without a gap
\* or a repetition and with the finals last, whatever happened before
\* (number_matches_for_competition, KyorugiBracketSerializer).
THEOREM MatListInOrderCorrect == Spec => MatListInOrder
  <1> DEFINE InOrder(here) ==
        LET No(x) == draw'[x[1]].number[x[2]]
        IN  /\ {No(x) : x \in here} = 1..Cardinality(here)
            /\ \A x, y \in here :
                 ~IsFinal(draw[x[1]], x[2]) /\ IsFinal(draw[y[1]], y[2])
                   => No(x) < No(y)
      Whole ==
        draw' # draw /\ made' = made =>
          \A ws \in SUBSET Weights :
            NumberMatches(ws, TRUE) /\ Chosen(ws) = Chosen(Weights) =>
              \A t \in {u \in Mats : Settled(u)} : InOrder(ListedOn(t)')
  <1>1. ASSUME Inv, NEW ws \in SUBSET Weights, NumberMatches(ws, TRUE), NEW t \in Mats
        PROVE  InOrder(BoutsOnMat(ws, t))
    <2> DEFINE here == BoutsOnMat(ws, t)
               No(x) == draw'[x[1]].number[x[2]]
    <2>1. TypeOK /\ DistinctIds
      BY <1>1 DEF Inv
    <2>2. ASSUME NEW x \in here PROVE No(x) = NumberOf(x, here)
      <3>1. /\ x[1] \in Groups /\ x[1] \in Chosen(ws) /\ x[2] \in Bouts(draw[x[1]].size)
            /\ x = <<x[1], x[2]>> /\ MatOf(x[1]) = t
        BY <2>1, OnMat
      <3>2. draw'[x[1]].number[x[2]] =
              IF <<x[1], x[2]>> \in BoutsOnMat(ws, MatOf(x[1]))
              THEN NumberOf(<<x[1], x[2]>>, BoutsOnMat(ws, MatOf(x[1])))
              ELSE IF TRUE THEN 0 ELSE draw[x[1]].number[x[2]]
        BY <1>1, <2>1, <3>1, Renumbered
      <3> QED
        BY <3>1, <3>2
    <2>3. {NumberOf(x, here) : x \in here} = 1..Cardinality(here)
      BY <2>1, NumbersFill
    <2>4. ASSUME NEW x \in here, NEW y \in here,
                 ~IsFinal(draw[x[1]], x[2]), IsFinal(draw[y[1]], y[2])
          PROVE  NumberOf(x, here) < NumberOf(y, here)
      <3>1. Place(x)[1] = 0 /\ Place(y)[1] = 1
        BY <2>1, <2>4, PlaceType
      <3>2. Precedes(x, y)
        BY <3>1 DEF Precedes
      <3> QED
        BY <2>1, <3>2, NumberFollowsOrder
    <2> HIDE DEF here, No
    <2>5. {No(x) : x \in here} = {NumberOf(x, here) : x \in here}
      BY <2>2
    <2>6. /\ {No(x) : x \in here} = 1..Cardinality(here)
          /\ \A x, y \in here :
               ~IsFinal(draw[x[1]], x[2]) /\ IsFinal(draw[y[1]], y[2])
                 => No(x) < No(y)
      BY <2>2, <2>3, <2>4, <2>5
    <2> QED
      BY <2>6 DEF here, No
  <1>2. ASSUME Inv, NEW ws \in SUBSET Weights, NumberMatches(ws, TRUE),
               Chosen(ws) = Chosen(Weights), NEW t \in Mats, Settled(t)
        PROVE  InOrder(ListedOn(t)')
    <2>1. ListedOn(t)' = BoutsOnMat(ws, t)
      BY <1>2, ListedIsCounted
    <2>2. InOrder(BoutsOnMat(ws, t))
      BY <1>1, <1>2
    <2> HIDE DEF InOrder
    <2> QED
      BY <2>1, <2>2
  <1> HIDE DEF InOrder
  <1>3. Inv /\ [Next]_vars => [Whole]_vars
    BY <1>2
  <1> QED
    BY <1>3, StateInvariant, PTL DEF Spec, MatListInOrder, InOrder

-----------------------------------------------------------------------------
(* Repeated pairs *)

\* Two players change places in an order.
Swap(order, i, j) ==
  [k \in DOMAIN order |-> IF k = i THEN order[j]
                          ELSE IF k = j THEN order[i] ELSE order[k]]

\* The result is an order, which one of the shuffles meets.
LEMMA SwapOrders ==
  ASSUME NEW pool, NEW order \in Orders(pool),
         NEW i \in 1..Cardinality(pool), NEW j \in 1..Cardinality(pool)
  PROVE  /\ Swap(order, i, j) \in Orders(pool)
         /\ \A k \in 1..Cardinality(pool) :
              Swap(order, i, j)[k] = IF k = i THEN order[j]
                                     ELSE IF k = j THEN order[i] ELSE order[k]
  <1> DEFINE D == 1..Cardinality(pool)
             o == Swap(order, i, j)
  <1>1. order \in [D -> pool] /\ {order[k] : k \in D} = pool
    BY DEF Orders
  <1>2. /\ o \in [D -> pool]
        /\ \A k \in D : o[k] = IF k = i THEN order[j]
                               ELSE IF k = j THEN order[i] ELSE order[k]
    BY <1>1 DEF Swap
  <1>3. ASSUME NEW p \in pool PROVE \E k \in D : o[k] = p
    <2> HIDE DEF o, D
    <2>1. PICK k \in D : order[k] = p
      BY <1>1
    <2>2. i \in D /\ j \in D
      BY DEF D
    <2> QED
      BY <1>2, <2>1, <2>2
  <1>4. {o[k] : k \in D} = pool
    <2> HIDE DEF o, D
    <2> QED
      BY <1>2, <1>3
  <1> QED
    BY <1>2, <1>4 DEF Orders

\* The places of a table of four: with three players the last one is a bye.
LEMMA FourPlaces ==
  ASSUME NEW order, NEW count \in Nat, count >= 3, NEW s \in 1..4
  PROVE  Seating(order, 4, count)[s] =
           IF s = 4 /\ count = 3 THEN None ELSE order[s]
  <1>1. ByeSlots(4, count) = IF count = 3 THEN {4} ELSE {}
    <2>1. {j \in 1..4 : j + count <= 4} = IF count = 3 THEN {1} ELSE {}
      OBVIOUS
    <2>2. ByeOrder(4)[1] = 4
      BY DEF ByeOrder
    <2> QED
      BY <2>1, <2>2 DEF ByeSlots
  <1>2. CASE s = 4 /\ count = 3
    BY <1>1, <1>2 DEF Seating
  <1>3. CASE ~(s = 4 /\ count = 3)
    <2> DEFINE byes == ByeSlots(4, count)
    <2>1. s \notin byes /\ {t \in 1..s : t \notin byes} = 1..s
      BY <1>1, <1>3
    <2>2. Cardinality(1..s) = s
      <3>1. \A n \in Nat : IsFiniteSet(1..n) /\ Cardinality(1..n) = n
        BY FS_Interval
      <3> QED
        BY <3>1
    <2> QED
      BY <1>3, <2>1, <2>2 DEF Seating
  <1> QED
    BY <1>2, <1>3

\* The pairs of a table of four.
LEMMA FourPairs ==
  ASSUME NEW seats
  PROVE  Pairs(seats, 4) =
           {pair \in {{seats[1], seats[2]}, {seats[3], seats[4]}} : None \notin pair}
  <1>1. \A b \in 1..2 : b = 1 \/ b = 2
    OBVIOUS
  <1>2. Half(4) = 2
    BY DEF Half
  <1>3. /\ 2 * 1 - 1 = 1 /\ 2 * 1 = 2 /\ 2 * 2 - 1 = 3 /\ 2 * 2 = 4
        /\ 1 \in 1..2 /\ 2 \in 1..2
    OBVIOUS
  <1>4. ASSUME NEW pair \in Pairs(seats, 4)
        PROVE  /\ pair \in {{seats[1], seats[2]}, {seats[3], seats[4]}}
               /\ None \notin pair
    <2>1. PICK k \in 1..2 : /\ None \notin {seats[2 * k - 1], seats[2 * k]}
                            /\ pair = {seats[2 * k - 1], seats[2 * k]}
      BY <1>2 DEF Pairs
    <2> QED
      BY <1>1, <1>3, <2>1
  <1>5. ASSUME None \notin {seats[1], seats[2]}
        PROVE  {seats[1], seats[2]} \in Pairs(seats, 4)
    BY <1>2, <1>3, <1>5 DEF Pairs
  <1>6. ASSUME None \notin {seats[3], seats[4]}
        PROVE  {seats[3], seats[4]} \in Pairs(seats, 4)
    BY <1>2, <1>3, <1>6 DEF Pairs
  <1> QED
    BY <1>4, <1>5, <1>6

\* A set of at most two pairs costs less than a hundred exactly when none of
\* them met before.
LEMMA CostOfRepeats ==
  ASSUME NEW a, NEW b, NEW pairs \in SUBSET {a, b}, NEW guarded \in BOOLEAN
  PROVE  /\ Cost(pairs, guarded) \in Nat
         /\ pairs \cap Remembered = {} => Cost(pairs, guarded) <= 2
         /\ pairs \cap Remembered # {} => Cost(pairs, guarded) >= 100
  <1>1. /\ IsFiniteSet({a, b})
        /\ Cardinality({a, b}) \in Nat /\ Cardinality({a, b}) <= 2
    <2>1. IsFiniteSet({a}) /\ Cardinality({a}) = 1
      BY FS_Singleton
    <2>2. /\ IsFiniteSet({a} \cup {b})
          /\ Cardinality({a} \cup {b}) = IF b \in {a} THEN 1 ELSE 2
      BY <2>1, FS_AddElement
    <2>3. {a} \cup {b} = {a, b}
      OBVIOUS
    <2> QED
      BY <2>2, <2>3
  <1> DEFINE again == pairs \cap Remembered
             club == {p \in pairs : SameClub(p)}
             r == Cardinality(again)
             c == Cardinality(club)
  <1>2. again \in SUBSET {a, b} /\ club \in SUBSET {a, b}
    OBVIOUS
  <1>3. IsFiniteSet(again) /\ r \in Nat /\ c \in Nat /\ c <= 2
    <2> HIDE DEF again, club
    <2>1. IsFiniteSet(again) /\ IsFiniteSet(club)
          /\ Cardinality(club) <= Cardinality({a, b})
      BY <1>1, <1>2, FS_Subset
    <2>2. r \in Nat /\ c \in Nat
      BY <2>1, FS_CardinalityType
    <2> QED
      BY <1>1, <2>1, <2>2
  <1>4. again = {} <=> r = 0
    <2> HIDE DEF again
    <2> QED
      BY <1>3, FS_EmptySet
  <1>5. Cost(pairs, guarded) = 100 * r + (IF guarded THEN c ELSE 0)
    BY DEF Cost
  <1> HIDE DEF r, c, again
  <1>6. /\ Cost(pairs, guarded) \in Nat
        /\ r = 0 => Cost(pairs, guarded) <= 2
        /\ r # 0 => Cost(pairs, guarded) >= 100
    BY <1>3, <1>5
  <1> QED
    BY <1>4, <1>6 DEF again

\* When the cheapest seating of a table of four repeats a pair, every seating
\* does.
LEMMA AllRepeat ==
  ASSUME NEW pool, NEW guarded \in BOOLEAN,
         NEW seats \in BestSeatings(pool, 4, guarded),
         Pairs(seats, 4) \cap Remembered # {}, NEW order \in Orders(pool)
  PROVE  Pairs(Seating(order, 4, Cardinality(pool)), 4) \cap Remembered # {}
  <1> DEFINE other == Seating(order, 4, Cardinality(pool))
             seatings == {Seating(o, 4, Cardinality(pool)) : o \in Orders(pool)}
             mine == Pairs(seats, 4)
             theirs == Pairs(other, 4)
  <1>1. Cost(mine, guarded) <= Cost(theirs, guarded)
    <2>1. other \in seatings /\ seats \in seatings
      BY DEF BestSeatings
    <2>2. LET cost == [s \in seatings |-> Cost(Pairs(s, 4), guarded)]
          IN  cost[seats] <= cost[other]
      BY <2>1 DEF BestSeatings
    <2> QED
      BY <2>1, <2>2
  <1>2. ASSUME NEW table
        PROVE  /\ Cost(Pairs(table, 4), guarded) \in Nat
               /\ Pairs(table, 4) \cap Remembered = {} => Cost(Pairs(table, 4), guarded) <= 2
               /\ Pairs(table, 4) \cap Remembered # {} => Cost(Pairs(table, 4), guarded) >= 100
    <2> DEFINE a == {table[1], table[2]}
               b == {table[3], table[4]}
               pairs == Pairs(table, 4)
    <2>1. pairs \in SUBSET {a, b}
      BY FourPairs
    <2> HIDE DEF a, b, pairs
    <2>2. /\ Cost(pairs, guarded) \in Nat
          /\ pairs \cap Remembered = {} => Cost(pairs, guarded) <= 2
          /\ pairs \cap Remembered # {} => Cost(pairs, guarded) >= 100
      BY <2>1, CostOfRepeats
    <2> QED
      BY <2>2 DEF pairs
  <1>3. Cost(mine, guarded) \in Nat /\ Cost(mine, guarded) >= 100
    BY <1>2
  <1>4. /\ Cost(theirs, guarded) \in Nat
        /\ theirs \cap Remembered = {} => Cost(theirs, guarded) <= 2
    BY <1>2
  <1> HIDE DEF mine, theirs, other
  <1>5. theirs \cap Remembered # {}
    BY <1>1, <1>3, <1>4
  <1> QED
    BY <1>5 DEF theirs, other

\* Three different elements make three.
LEMMA AtLeastThree ==
  ASSUME NEW S, IsFiniteSet(S), NEW a \in S, NEW b \in S, NEW c \in S,
         a # b, a # c, b # c
  PROVE  Cardinality(S) >= 3
  <1> DEFINE two == {a} \cup {b}
             three == two \cup {c}
  <1>1. IsFiniteSet({a}) /\ Cardinality({a}) = 1 /\ b \notin {a}
    BY FS_Singleton
  <1>2. IsFiniteSet(two) /\ Cardinality(two) = 2
    <2>1. /\ IsFiniteSet({a} \cup {b})
          /\ Cardinality({a} \cup {b}) =
               IF b \in {a} THEN Cardinality({a}) ELSE Cardinality({a}) + 1
      BY <1>1, FS_AddElement
    <2> QED
      BY <1>1, <2>1
  <1>3. c \notin two
    OBVIOUS
  <1> HIDE DEF two
  <1>4. IsFiniteSet(three) /\ Cardinality(three) = 3
    BY <1>2, <1>3, FS_AddElement
  <1>5. three \in SUBSET S
    BY DEF two
  <1> HIDE DEF three
  <1>6. Cardinality(three) <= Cardinality(S) /\ Cardinality(S) \in Nat
    BY <1>5, FS_Subset, FS_CardinalityType
  <1> QED
    BY <1>4, <1>6

\* Then three pairs of the players drawn have met before: one from each of
\* the ways to pair three players, or four.
LEMMA ThreeHaveMet ==
  ASSUME NEW pool, IsFiniteSet(pool), pool # {}, None \notin pool,
         IsFiniteSet(Remembered), NEW guarded \in BOOLEAN,
         NEW seats \in BestSeatings(pool, 4, guarded),
         Pairs(seats, 4) \cap Remembered # {}
  PROVE  Cardinality({pair \in Remembered : pair \subseteq pool}) >= 3
  <1> DEFINE n == Cardinality(pool)
             met == {pair \in Remembered : pair \subseteq pool}
             Repeats(p, q, r, s) ==
               {p, q} \in Remembered \/ (n >= 4 /\ {r, s} \in Remembered)
  <1>1. PICK order \in Orders(pool) : seats = Seating(order, 4, n)
    BY DEF BestSeatings
  <1>2. /\ n \in Nat /\ order \in [1..n -> pool]
        /\ \A i, j \in 1..n : order[i] = order[j] => i = j
    BY OrderPermutes
  <1>3. n >= 3
    <2> SUFFICES ASSUME n < 3 PROVE FALSE
      BY <1>2
    <2>1. n \in {1, 2}
      BY <1>2, FS_EmptySet
    <2>2. 1 \in ByeSlots(4, n) /\ 4 \in ByeSlots(4, n)
      <3>1. ByeOrder(4)[1] = 4 /\ ByeOrder(4)[2] = 1
        BY DEF ByeOrder
      <3>2. /\ 1 \in {j \in 1..4 : j + n <= 4}
            /\ 2 \in {j \in 1..4 : j + n <= 4}
        BY <2>1
      <3> QED
        BY <3>1, <3>2 DEF ByeSlots
    <2>3. seats[1] = None /\ seats[4] = None
      BY <1>1, <2>2 DEF Seating
    <2> QED
      BY <2>3, FourPairs
  <1>4. ASSUME NEW o \in Orders(pool)
        PROVE  Repeats(o[1], o[2], o[3], o[4])
    <2> DEFINE t == Seating(o, 4, n)
    <2>1. /\ t[1] = o[1] /\ t[2] = o[2] /\ t[3] = o[3]
          /\ t[4] = IF n = 3 THEN None ELSE o[4]
      BY <1>2, <1>3, FourPlaces
    <2>2. Pairs(t, 4) \cap Remembered # {}
      BY AllRepeat
    <2> HIDE DEF t
    <2>3. PICK pair \in Remembered : /\ pair \in {{t[1], t[2]}, {t[3], t[4]}}
                                  /\ None \notin pair
      BY <2>2, FourPairs
    <2>4. CASE pair = {t[1], t[2]}
      BY <2>1, <2>4
    <2>5. CASE pair = {t[3], t[4]}
      <3>1. t[4] # None
        BY <2>3, <2>5
      <3>2. n >= 4 /\ t[4] = o[4]
        BY <1>2, <1>3, <2>1, <3>1
      <3>3. {o[3], o[4]} \in Remembered
        BY <2>1, <2>5, <3>2
      <3> QED
        BY <3>2, <3>3
    <2> QED
      BY <2>3, <2>4, <2>5
  <1>5. IsFiniteSet(met)
    BY FS_Subset
  <1> DEFINE p == order[1]
             q == order[2]
             r == order[3]
             s == order[4]
  <1>6. /\ p \in pool /\ q \in pool /\ r \in pool
        /\ p # q /\ p # r /\ q # r
    BY <1>2, <1>3
  <1>7. Repeats(p, q, r, s)
    BY <1>4
  <1>w. ASSUME NEW i \in 1..n, NEW j \in 1..n
        PROVE  /\ Swap(order, i, j) \in Orders(pool)
               /\ \A k \in 1..n :
                    Swap(order, i, j)[k] = IF k = i THEN order[j]
                                           ELSE IF k = j THEN order[i] ELSE order[k]
    BY SwapOrders
  <1>i. 1 \in 1..n /\ 2 \in 1..n /\ 3 \in 1..n /\ (n >= 4 => 4 \in 1..n)
    BY <1>2, <1>3
  <1>8. Repeats(p, r, q, s)
    <2> DEFINE o == Swap(order, 2, 3)
    <2>1. /\ o \in Orders(pool) /\ o[1] = p /\ o[2] = r /\ o[3] = q
          /\ n >= 4 => o[4] = s
      BY <1>i, <1>w
    <2> HIDE DEF o
    <2>2. Repeats(o[1], o[2], o[3], o[4])
      BY <1>4, <2>1
    <2> QED
      BY <2>1, <2>2
  <1>9. CASE n = 3
    <2> DEFINE o == Swap(order, 1, 3)
    <2>1. o \in Orders(pool) /\ o[1] = r /\ o[2] = q
      BY <1>i, <1>w
    <2> HIDE DEF o
    <2>2. Repeats(o[1], o[2], o[3], o[4])
      BY <1>4, <2>1
    <2>3. {p, q} \in met /\ {p, r} \in met /\ {r, q} \in met
      BY <1>6, <1>7, <1>8, <1>9, <2>1, <2>2
    <2>4. {p, q} # {p, r} /\ {p, q} # {r, q} /\ {p, r} # {r, q}
      BY <1>6
    <2> HIDE DEF met
    <2>5. Cardinality(met) >= 3
      BY <1>5, <2>3, <2>4, AtLeastThree
    <2> QED
      BY <2>5 DEF met
  <1>10. CASE n >= 4
    <2>1. s \in pool /\ s # p /\ s # q /\ s # r
      BY <1>2, <1>10
    <2>2. Repeats(p, s, r, q)
      <3> DEFINE o == Swap(order, 2, 4)
      <3>1. o \in Orders(pool) /\ o[1] = p /\ o[2] = s /\ o[3] = r /\ o[4] = q
        BY <1>10, <1>i, <1>w
      <3> HIDE DEF o
      <3>2. Repeats(o[1], o[2], o[3], o[4])
        BY <1>4, <3>1
      <3> QED
        BY <3>1, <3>2
    <2>3. /\ {p, q} \subseteq pool /\ {r, s} \subseteq pool /\ {p, r} \subseteq pool
          /\ {q, s} \subseteq pool /\ {p, s} \subseteq pool /\ {r, q} \subseteq pool
      BY <1>6, <2>1
    <2>4. PICK a \in {{p, q}, {r, s}} : a \in met
      BY <1>7, <2>3
    <2>5. PICK b \in {{p, r}, {q, s}} : b \in met
      BY <1>8, <2>3
    <2>6. PICK c \in {{p, s}, {r, q}} : c \in met
      BY <2>2, <2>3
    <2> HIDE DEF met, p, q, r, s
    <2>7. a # b /\ a # c /\ b # c
      BY <1>6, <2>1
    <2>8. Cardinality(met) >= 3
      BY <1>5, <2>4, <2>5, <2>6, <2>7, AtLeastThree
    <2> QED
      BY <2>8 DEF met
  <1> QED
    BY <1>2, <1>3, <1>9, <1>10

\* In a table of four places nobody meets an earlier first-round opponent
\* unless three pairs of the group have met before, whatever the clubs and
\* however many players there are for the places: a repeated pair outweighs
\* every pair of one club (REPEAT_PAIR_PENALTY).
THEOREM RepeatsOnlyWhenForcedCorrect == Spec => RepeatsOnlyWhenForced
  <1> DEFINE Forced ==
        made' # made =>
          LET d == draw'[request.group]
              met == {pair \in Remembered : \A p \in pair : GroupOf[p] = request.group}
          IN  d.size = 4 /\ Pairs(d.seats, 4) \cap Remembered # {}
                => Cardinality(met) >= 3
  <1>1. ASSUME Inv, [Next]_vars PROVE Forced
    <2>1. TypeOK /\ made \in Nat
      BY <1>1 DEF Inv, TypeOK
    <2>2. made' # made => CreateDraw
      BY <1>1, OnlyDrawsMake
    <2> DEFINE g == request.group
               pool == Pool(g)
               count == Cardinality(pool)
               guarded == count > request.threshold
               d == draw'[g]
               met == {pair \in Remembered : \A p \in pair : GroupOf[p] = g}
    <2> SUFFICES ASSUME CreateDraw, d.size = 4, Pairs(d.seats, 4) \cap Remembered # {}
                 PROVE  Cardinality(met) >= 3
      BY <2>2
    <2>3. /\ g \in Groups /\ IsFiniteSet(pool) /\ None \notin pool
          /\ pool \in SUBSET Entries /\ DOMAIN draw = Groups /\ pool # {}
          /\ \A p \in pool : GroupOf[p] = g
      BY <2>1, DrawMade DEF TypeOK, CreateDraw, Pool
    <2>4. guarded \in BOOLEAN
      OBVIOUS
    <2>5. d.seats \in BestSeatings(pool, 4, guarded)
      <3> DEFINE size == TableSize(request.size, count)
      <3>1. PICK seats \in BestSeatings(pool, size, guarded) :
              draw' = [draw EXCEPT ![g] = FreshRow(size, seats)]
        BY DEF CreateDraw, FreshRow
      <3> HIDE DEF size
      <3>2. d.size = size /\ d.seats = seats
        BY <2>3, <3>1 DEF FreshRow
      <3> QED
        BY <3>1, <3>2
    <2>6. IsFiniteSet(Remembered)
      <3>1. IsFiniteSet(SUBSET Entries)
        BY BracketsAssumption, FS_SUBSET
      <3>2. Remembered \in SUBSET (SUBSET Entries)
        BY DEF Remembered, GroupPairs
      <3> QED
        BY <3>1, <3>2, FS_Subset
    <2> DEFINE ours == {pair \in Remembered : pair \subseteq pool}
    <2>7. ours \in SUBSET met /\ IsFiniteSet(met)
      BY <2>3, <2>6, FS_Subset
    <2> HIDE DEF pool, guarded, d
    <2>8. Cardinality(ours) >= 3
      BY <2>3, <2>4, <2>5, <2>6, ThreeHaveMet
    <2> HIDE DEF ours, met
    <2>9. /\ Cardinality(ours) <= Cardinality(met) /\ Cardinality(met) \in Nat
          /\ Cardinality(ours) \in Nat
      BY <2>7, FS_Subset, FS_CardinalityType
    <2> QED
      BY <2>8, <2>9
  <1>2. Inv /\ [Next]_vars => [Forced]_vars
    BY <1>1
  <1> QED
    BY <1>2, StateInvariant, PTL DEF Spec, RepeatsOnlyWhenForced

=============================================================================
