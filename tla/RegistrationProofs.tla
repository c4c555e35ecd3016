------------------------ MODULE RegistrationProofs --------------------------
(***************************************************************************)
(* Proofs about Registration, for any students, coaches, codes, categories *)
(* and bounds.                                                             *)
(***************************************************************************)
EXTENDS Registration, SequenceTheorems,
        WellFoundedInduction, TLAPS

-----------------------------------------------------------------------------
(* What the operations on orders and enrollments do *)

\* The enrollments made for an order: one, paid, for each of its lines.
LEMMA EnrollItemsMakes ==
  ASSUME NEW o \in Nat, NEW order \in Orders, NEW rows, rows = EnrollItems(o, order)
  PROVE  /\ rows \in Seq(KyoRows) /\ Len(rows) \in Nat
         /\ Len(rows) = Len(order.items) /\ DOMAIN order.items = 1..Len(rows)
         /\ \A i \in 1..Len(rows) :
              /\ rows[i].player = order.items[i] /\ rows[i].line = i
              /\ rows[i].order = o /\ rows[i].paid /\ rows[i].live
  <1> DEFINE n == Len(order.items)
  <1>1. order.items \in Seq(Students) /\ order.coach \in Coaches
    BY DEF Orders
  <1>2. n \in Nat /\ DOMAIN order.items = 1..n /\ \A i \in 1..n : order.items[i] \in Students
    BY <1>1, LenProperties, ElementOfSeq
  <1>3. rows =
          [i \in 1..n |-> [player |-> order.items[i], coach |-> order.coach, order |-> o,
                           line |-> i, paid |-> TRUE, live |-> TRUE]]
    BY <1>2 DEF EnrollItems
  <1> HIDE DEF n
  <1>4. \A i \in 1..n : rows[i] \in KyoRows
    BY <1>1, <1>2, <1>3 DEF KyoRows
  <1>5. rows \in [1..n -> KyoRows]
    BY <1>3, <1>4
  <1>6. rows \in Seq(KyoRows) /\ Len(rows) = n
    BY <1>2, <1>5
  <1> QED
    BY <1>2, <1>3, <1>6 DEF n

\* What a group registration adds.
LEMMA GroupRegisterAdds ==
  ASSUME TypeOK, NEW c \in Registering, NEW n \in 1..MaxLines,
         NEW lines \in [1..n -> Lines], GroupRegister(c, lines)
  PROVE  \E order \in Orders :
           /\ order.since = Len(kyo)
           /\ orders' = Append(orders, order) /\ kyo' = kyo
           /\ \A l \in DOMAIN order.items : ~Enrolled(order.items[l])
  <1> DEFINE items == [i \in DOMAIN lines |-> lines[i].player]
             order == [coach |-> c, items |-> items, paid |-> FALSE, since |-> Len(kyo)]
  <1>1. DOMAIN lines = 1..n /\ n \in Nat /\ \A i \in 1..n : lines[i].player \in Students
    BY RegistrationAssumption DEF Lines
  <1>2. items \in [1..n -> Students]
    BY <1>1
  <1>3. items \in Seq(Students)
    BY <1>1, <1>2
  <1>4. Len(kyo) \in Nat /\ c \in Coaches
    BY LenProperties, RegistrationAssumption DEF TypeOK
  <1>5. orders' = Append(orders, order) /\ kyo' = kyo
    BY DEF GroupRegister
  <1>6. \A l \in DOMAIN lines : ~Enrolled(lines[l].player)
    BY DEF GroupRegister, Free
  <1>7. DOMAIN items = DOMAIN lines /\ \A l \in DOMAIN lines : items[l] = lines[l].player
    OBVIOUS
  <1> HIDE DEF items
  <1>8. order \in Orders /\ order.since = Len(kyo) /\ order.items = items
    BY <1>3, <1>4 DEF Orders
  <1> HIDE DEF order
  <1> QED
    BY <1>5, <1>6, <1>7, <1>8

\* Two tables put one after the other, row by row.
LEMMA Appending ==
  ASSUME NEW S, NEW s \in Seq(S), NEW t \in Seq(S), NEW u, u = s \o t
  PROVE  /\ u \in Seq(S) /\ Len(u) = Len(s) + Len(t)
         /\ DOMAIN u = 1..(Len(s) + Len(t))
         /\ \A i \in 1..(Len(s) + Len(t)) :
              u[i] = IF i <= Len(s) THEN s[i] ELSE t[i - Len(s)]
  <1>1. u \in Seq(S) /\ Len(u) = Len(s) + Len(t)
    BY ConcatProperties
  <1>2. DOMAIN u = 1..Len(u)
    BY <1>1, LenProperties
  <1>3. \A i \in 1..(Len(s) + Len(t)) :
           u[i] = IF i <= Len(s) THEN s[i] ELSE t[i - Len(s)]
    BY ConcatProperties
  <1> QED
    BY <1>1, <1>2, <1>3

-----------------------------------------------------------------------------
(* Orders and enrollments *)

\* What relates orders and enrollments, with what their types promise.
Tables == /\ orders \in Seq(Orders) /\ Len(orders) <= MaxOrders
          /\ kyo \in Seq(KyoRows) /\ Len(kyo) <= MaxKyo
          /\ \A i \in DOMAIN kyo :
               /\ kyo[i].order \in DOMAIN orders
               /\ kyo[i].line \in DOMAIN orders[kyo[i].order].items
               /\ kyo[i].player = orders[kyo[i].order].items[kyo[i].line]

EnrollInv == Tables /\ OrdersInv /\ EnrolledPaid /\ DoubleNeedsOverlap

\* An order that is paid makes its enrollments: those who were enrolled first
\* were enrolled after the order was put together.
LEMMA EnrollingKeeps ==
  ASSUME EnrollInv,
         NEW o \in Nat, NEW order \in Orders, NEW rows, rows = EnrollItems(o, order),
         order.since <= Len(kyo),
         \A i \in 1..order.since, l \in DOMAIN order.items :
           kyo[i].live => kyo[i].player # order.items[l],
         \A i \in DOMAIN kyo : kyo[i].order # o,
         Len(kyo) + Len(order.items) <= MaxKyo,
         kyo' = kyo \o rows,
         orders' \in Seq(Orders), Len(orders') <= MaxOrders,
         DOMAIN orders \subseteq DOMAIN orders',
         o \in DOMAIN orders', orders'[o].items = order.items,
         orders'[o].since = order.since, orders'[o].paid,
         \A p \in DOMAIN orders' : p # o => p \in DOMAIN orders /\ orders'[p] = orders[p]
  PROVE  EnrollInv'
  <1> DEFINE n == Len(kyo)
  <1>1. /\ n \in Nat /\ DOMAIN kyo = 1..n /\ kyo \in Seq(KyoRows)
        /\ \A i \in 1..n : kyo[i] \in KyoRows
    BY DEF EnrollInv, Tables
  <1>2. /\ rows \in Seq(KyoRows) /\ Len(rows) \in Nat
        /\ Len(rows) = Len(order.items) /\ DOMAIN order.items = 1..Len(rows)
        /\ \A i \in 1..Len(rows) :
             /\ rows[i].player = order.items[i] /\ rows[i].line = i
             /\ rows[i].order = o /\ rows[i].paid /\ rows[i].live
    BY ONLY o \in Nat, order \in Orders, rows = EnrollItems(o, order), EnrollItemsMakes
  <1>3. /\ kyo' \in Seq(KyoRows) /\ Len(kyo') = n + Len(rows)
        /\ DOMAIN kyo' = 1..(n + Len(rows))
        /\ \A i \in 1..(n + Len(rows)) :
             kyo'[i] = IF i <= n THEN kyo[i] ELSE rows[i - n]
    <2> HIDE DEF n
    <2>1. n = Len(kyo)
      BY DEF n
    <2>2. kyo \in Seq(KyoRows) /\ rows \in Seq(KyoRows) /\ kyo' = kyo \o rows
      BY <1>1, <1>2
    <2> QED
      BY ONLY <2>1, <2>2, Appending
  <1>4. \A i \in 1..n : i \in DOMAIN kyo' /\ kyo'[i] = kyo[i]
    BY <1>1, <1>2, <1>3
  <1>5. \A i \in DOMAIN kyo' : i \in 1..n \/ (i - n \in 1..Len(rows) /\ i > n
                                              /\ kyo'[i] = rows[i - n])
    BY <1>1, <1>2, <1>3
  <1>6. order.since \in Nat /\ \A p \in DOMAIN orders : orders[p].since \in Nat
    <2>1. \A p \in DOMAIN orders : orders[p] \in Orders
      BY ElementOfSeq, LenProperties DEF EnrollInv, Tables
    <2> QED
      BY <2>1 DEF Orders
  <1>7. Tables'
    <2>1. Len(kyo') <= MaxKyo
      BY <1>2, <1>3
    <2>2. ASSUME NEW i \in DOMAIN kyo'
          PROVE  /\ kyo'[i].order \in DOMAIN orders'
                 /\ kyo'[i].line \in DOMAIN orders'[kyo'[i].order].items
                 /\ kyo'[i].player = orders'[kyo'[i].order].items[kyo'[i].line]
      <3>1. CASE i \in 1..n
        BY <1>1, <1>4, <3>1 DEF EnrollInv, Tables
      <3>2. CASE i \notin 1..n
        BY <1>2, <1>5, <3>2
      <3> QED
        BY <3>1, <3>2
    <2> QED
      BY <1>3, <2>1, <2>2 DEF Tables
  <1>8. OrdersInv'
    <2>1. ASSUME NEW p \in DOMAIN orders'
          PROVE  /\ orders'[p].since <= Len(kyo')
                 /\ \A i \in 1..orders'[p].since, l \in DOMAIN orders'[p].items :
                      kyo'[i].live => kyo'[i].player # orders'[p].items[l]
                 /\ ~orders'[p].paid => \A i \in DOMAIN kyo' : kyo'[i].order # p
      <3>1. CASE p = o
        <4>1. /\ orders'[p].items = order.items /\ orders'[p].since = order.since
              /\ orders'[p].paid
          BY <3>1
        <4>2. order.since <= Len(kyo')
          BY <1>1, <1>2, <1>3, <1>6
        <4>3. \A i \in 1..order.since : kyo'[i] = kyo[i]
          BY <1>1, <1>4, <1>6
        <4>4. \A i \in 1..order.since, l \in DOMAIN order.items :
                kyo'[i].live => kyo'[i].player # order.items[l]
          BY <4>3
        <4> QED
          BY ONLY <4>1, <4>2, <4>4, Zenon
      <3>2. CASE p # o
        <4>1. p \in DOMAIN orders /\ orders'[p] = orders[p]
          BY <3>2
        <4>2. /\ orders[p].since <= n /\ orders[p].since \in Nat
              /\ \A i \in 1..orders[p].since, l \in DOMAIN orders[p].items :
                   kyo[i].live => kyo[i].player # orders[p].items[l]
              /\ ~orders[p].paid => \A i \in DOMAIN kyo : kyo[i].order # p
          BY <1>6, <4>1 DEF EnrollInv, OrdersInv
        <4>3. orders'[p].since <= Len(kyo')
          BY <1>1, <1>2, <1>3, <4>1, <4>2
        <4>4. \A i \in 1..orders'[p].since, l \in DOMAIN orders'[p].items :
                kyo'[i].live => kyo'[i].player # orders'[p].items[l]
          BY <1>1, <1>4, <4>1, <4>2
        <4>5. ASSUME ~orders'[p].paid, NEW i \in DOMAIN kyo'
              PROVE  kyo'[i].order # p
          BY <1>1, <1>2, <1>4, <1>5, <3>2, <4>1, <4>2, <4>5
        <4> QED
          BY <4>3, <4>4, <4>5
      <3> QED
        BY <3>1, <3>2
    <2> QED
      BY <2>1 DEF OrdersInv
  <1>9. EnrolledPaid'
    BY <1>1, <1>2, <1>4, <1>5 DEF EnrollInv, EnrolledPaid
  <1>10. DoubleNeedsOverlap'
    <2>1. ASSUME NEW i \in KyoIds', NEW j \in KyoIds',
                 i < j, kyo'[i].player = kyo'[j].player
          PROVE  \/ kyo'[i].order = kyo'[j].order /\ kyo'[i].line # kyo'[j].line
                 \/ kyo'[i].order # kyo'[j].order /\ orders'[kyo'[j].order].since < i
      <3>1. i \in DOMAIN kyo' /\ j \in DOMAIN kyo' /\ kyo'[i].live /\ kyo'[j].live
        BY DEF KyoIds
      <3>2. CASE j \in 1..n
        <4>1. i \in 1..n /\ i \in KyoIds /\ j \in KyoIds
              /\ kyo'[i] = kyo[i] /\ kyo'[j] = kyo[j]
          BY <1>1, <1>3, <1>4, <2>1, <3>1, <3>2 DEF KyoIds
        <4>2. \/ kyo[i].order = kyo[j].order /\ kyo[i].line # kyo[j].line
              \/ kyo[i].order # kyo[j].order /\ orders[kyo[j].order].since < i
          BY <2>1, <4>1 DEF EnrollInv, DoubleNeedsOverlap
        <4>3. kyo[j].order \in DOMAIN orders /\ kyo[j].order # o
          BY <1>1, <3>2 DEF EnrollInv, Tables
        <4> QED
          BY <4>1, <4>2, <4>3
      <3>3. CASE i \in 1..n /\ j \notin 1..n
        <4>1. /\ kyo'[j].order = o /\ kyo'[j].player = order.items[j - n]
              /\ j - n \in DOMAIN order.items
              /\ kyo'[i] = kyo[i]
          BY <1>2, <1>4, <1>5, <3>1, <3>3
        <4>2. ~(i <= order.since)
          BY <1>1, <1>6, <2>1, <3>1, <3>3, <4>1
        <4>3. kyo[i].order # o
          BY <1>1, <3>3
        <4>4. order.since < i
          BY <1>6, <3>3, <4>2
        <4> QED
          BY <4>1, <4>3, <4>4
      <3>4. CASE i \notin 1..n /\ j \notin 1..n
        <4>1. /\ kyo'[i].order = o /\ kyo'[i].line = i - n
              /\ kyo'[j].order = o /\ kyo'[j].line = j - n
          BY <1>2, <1>5, <3>1, <3>4
        <4> QED
          BY <1>1, <1>3, <2>1, <3>1, <4>1
      <3> QED
        BY <3>2, <3>3, <3>4
    <2> QED
      BY <2>1 DEF DoubleNeedsOverlap
  <1> QED
    BY <1>7, <1>8, <1>9, <1>10 DEF EnrollInv

\* An order that waits for its payment: its students are not enrolled now.
LEMMA OrderingKeeps ==
  ASSUME EnrollInv, NEW order \in Orders, Len(orders) < MaxOrders,
         order.since = Len(kyo),
         \A l \in DOMAIN order.items : ~Enrolled(order.items[l]),
         orders' = Append(orders, order), kyo' = kyo
  PROVE  EnrollInv'
  <1> DEFINE n == Len(orders)
  <1>1. n \in Nat /\ DOMAIN orders = 1..n /\ orders \in Seq(Orders) /\ MaxOrders \in Nat
    BY LenProperties, RegistrationAssumption DEF EnrollInv, Tables
  <1>2. /\ orders' \in Seq(Orders) /\ Len(orders') = n + 1
        /\ DOMAIN orders' = 1..(n + 1)
        /\ \A p \in 1..n : orders'[p] = orders[p]
        /\ orders'[n + 1] = order
    BY <1>1, AppendProperties, LenProperties
  <1>3. \A i \in DOMAIN kyo : kyo[i].order \in 1..n
    BY <1>1 DEF EnrollInv, Tables
  <1>4. Len(kyo) \in Nat /\ DOMAIN kyo = 1..Len(kyo)
    BY LenProperties DEF EnrollInv, Tables
  <1>5. Tables'
    BY <1>1, <1>2, <1>3 DEF EnrollInv, Tables
  <1>6. OrdersInv'
    <2>1. ASSUME NEW p \in DOMAIN orders'
          PROVE  /\ orders'[p].since <= Len(kyo)
                 /\ \A i \in 1..orders'[p].since, l \in DOMAIN orders'[p].items :
                      kyo[i].live => kyo[i].player # orders'[p].items[l]
                 /\ ~orders'[p].paid => \A i \in DOMAIN kyo : kyo[i].order # p
      <3>1. CASE p \in 1..n
        BY <1>1, <1>2, <3>1 DEF EnrollInv, OrdersInv
      <3>2. CASE p = n + 1
        <4>1. \A i \in 1..Len(kyo), l \in DOMAIN order.items :
                kyo[i].live => kyo[i].player # order.items[l]
          BY <1>4 DEF Enrolled
        <4>2. \A i \in DOMAIN kyo : kyo[i].order # p
          BY <1>1, <1>3, <3>2
        <4> QED
          BY <1>2, <1>4, <3>2, <4>1, <4>2
      <3> QED
        BY <1>1, <1>2, <3>1, <3>2
    <2> QED
      BY <2>1 DEF OrdersInv
  <1>7. EnrolledPaid'
    BY DEF EnrollInv, EnrolledPaid
  <1>8. DoubleNeedsOverlap'
    <2>1. KyoIds' = KyoIds /\ \A i \in KyoIds : i \in DOMAIN kyo
      BY DEF KyoIds
    <2>2. \A i \in KyoIds : orders'[kyo[i].order] = orders[kyo[i].order]
      BY <1>2, <1>3, <2>1
    <2> QED
      BY <2>1, <2>2 DEF EnrollInv, DoubleNeedsOverlap
  <1> QED
    BY <1>5, <1>6, <1>7, <1>8 DEF EnrollInv


\* Each registration, payment and deletion keeps what relates orders and
\* enrollments.
LEMMA GroupRegisterKeeps ==
  ASSUME TypeOK, EnrollInv, NEW c \in Registering, NEW n \in 1..MaxLines,
         NEW lines \in [1..n -> Lines], GroupRegister(c, lines)
  PROVE  EnrollInv'
  <1>1. PICK order \in Orders :
           /\ order.since = Len(kyo)
           /\ orders' = Append(orders, order) /\ kyo' = kyo
           /\ \A l \in DOMAIN order.items : ~Enrolled(order.items[l])
    BY GroupRegisterAdds
  <1>2. Len(orders) < MaxOrders
    BY DEF GroupRegister
  <1> QED
    BY <1>1, <1>2, OrderingKeeps

LEMMA GroupPayKeeps ==
  ASSUME TypeOK, EnrollInv, NEW o \in DOMAIN orders, GroupPay(o)
  PROVE  EnrollInv'
  <1>1. /\ orders \in Seq(Orders) /\ DOMAIN orders = 1..Len(orders)
        /\ Len(orders) \in Nat /\ orders[o] \in Orders /\ o \in Nat
        /\ Len(orders) <= MaxOrders
    BY LenProperties, ElementOfSeq DEF EnrollInv, Tables
  <1>2. /\ ~orders[o].paid
        /\ Len(kyo) + Len(orders[o].items) <= MaxKyo
        /\ orders' = [orders EXCEPT ![o] = [orders[o] EXCEPT !.paid = TRUE]]
    BY DEF GroupPay
  <1>3. PICK rows : rows = EnrollItems(o, orders[o]) /\ kyo' = kyo \o rows
    BY DEF GroupPay
  <1> DEFINE new == [orders[o] EXCEPT !.paid = TRUE]
  <1>4. /\ new \in Orders /\ new.items = orders[o].items
        /\ new.since = orders[o].since /\ new.paid
    BY <1>1 DEF Orders
  <1> HIDE DEF new
  <1>5. /\ orders' \in Seq(Orders) /\ Len(orders') = Len(orders)
        /\ DOMAIN orders' = 1..Len(orders)
        /\ \A p \in 1..Len(orders) : orders'[p] = IF p = o THEN new ELSE orders[p]
    BY <1>1, <1>2, <1>4, ExceptSeq, LenProperties DEF new
  <1>6. /\ orders[o].since <= Len(kyo)
        /\ \A i \in 1..orders[o].since, l \in DOMAIN orders[o].items :
             kyo[i].live => kyo[i].player # orders[o].items[l]
        /\ \A i \in DOMAIN kyo : kyo[i].order # o
    BY <1>2 DEF EnrollInv, OrdersInv
  <1>7. /\ Len(orders') <= MaxOrders /\ DOMAIN orders \subseteq DOMAIN orders'
        /\ o \in DOMAIN orders' /\ orders'[o].items = orders[o].items
        /\ orders'[o].since = orders[o].since /\ orders'[o].paid
        /\ \A p \in DOMAIN orders' : p # o => p \in DOMAIN orders /\ orders'[p] = orders[p]
    BY <1>1, <1>4, <1>5
  <1> QED
    BY <1>1, <1>2, <1>3, <1>5, <1>6, <1>7, EnrollingKeeps

LEMMA DeleteEnrollmentKeeps ==
  ASSUME EnrollInv, NEW i \in DOMAIN kyo, DeleteEnrollment(i)
  PROVE  EnrollInv'
  <1>1. /\ kyo \in Seq(KyoRows) /\ DOMAIN kyo = 1..Len(kyo) /\ kyo[i] \in KyoRows
        /\ Len(kyo) \in Nat
    BY LenProperties, ElementOfSeq DEF EnrollInv, Tables
  <1>2. /\ kyo' = [kyo EXCEPT ![i] = [kyo[i] EXCEPT !.live = FALSE]]
        /\ orders' = orders
    BY DEF DeleteEnrollment
  <1> DEFINE new == [kyo[i] EXCEPT !.live = FALSE]
  <1>3. /\ new \in KyoRows /\ new.player = kyo[i].player /\ new.order = kyo[i].order
        /\ new.line = kyo[i].line
        /\ new.paid = kyo[i].paid /\ ~new.live
    BY <1>1 DEF KyoRows
  <1> HIDE DEF new
  <1>4. /\ kyo' \in Seq(KyoRows) /\ Len(kyo') = Len(kyo) /\ DOMAIN kyo' = DOMAIN kyo
        /\ \A j \in DOMAIN kyo : kyo'[j] = IF j = i THEN new ELSE kyo[j]
    BY <1>1, <1>2, <1>3, ExceptSeq, LenProperties DEF new
  <1>5. \A j \in DOMAIN kyo : /\ kyo'[j].player = kyo[j].player
                              /\ kyo'[j].order = kyo[j].order
                              /\ kyo'[j].line = kyo[j].line
                              /\ kyo'[j].paid = kyo[j].paid
                              /\ kyo'[j].live => kyo[j].live
    BY <1>3, <1>4
  <1>6. Tables'
    BY <1>2, <1>4, <1>5 DEF EnrollInv, Tables
  <1>7. OrdersInv'
    <2>1. ASSUME NEW o \in DOMAIN orders PROVE 1..orders[o].since \subseteq DOMAIN kyo
      <3>1. orders[o] \in Orders /\ orders[o].since <= Len(kyo)
        BY ElementOfSeq, LenProperties DEF EnrollInv, Tables, OrdersInv
      <3> QED
        BY <1>1, <3>1 DEF Orders
    <2> QED
      BY <1>2, <1>4, <1>5, <2>1 DEF EnrollInv, OrdersInv
  <1>8. EnrolledPaid'
    BY <1>4, <1>5 DEF EnrollInv, EnrolledPaid
  <1>9. DoubleNeedsOverlap'
    <2>1. \A j \in KyoIds' : j \in KyoIds /\ j \in DOMAIN kyo
      BY <1>4, <1>5 DEF KyoIds
    <2> QED
      BY <1>2, <1>5, <2>1 DEF EnrollInv, DoubleNeedsOverlap
  <1> QED
    BY <1>6, <1>7, <1>8, <1>9 DEF EnrollInv

-----------------------------------------------------------------------------
(* Approvals *)

ApprovalTypes ==
  /\ approval \in [Kinds -> [Coaches -> Approvals \cup {None}]]
  /\ drawing \in [Kinds -> [Coaches -> Codes \cup {None}]]
  /\ shared \subseteq Kinds \X Codes

\* The actions on the approval of a coach.
ApprovalAction(k, c) ==
  \/ Approve(k, c) \/ DrawCode(k, c) \/ CommitCode(k, c) \/ DeleteApproval(k, c)
  \/ \E accepted, active \in BOOLEAN : EditApproval(k, c, accepted, active)
  \/ \E d \in Applicants[k] : MoveApproval(k, c, d)

\* They leave the other tables alone, and the others leave the approvals alone.
LEMMA ApprovalFrame ==
  ASSUME NEW k \in Kinds, NEW c \in Applicants[k], ApprovalAction(k, c)
  PROVE  /\ UNCHANGED <<today, manual, belt, orders, kyo, poo, seminar>>
         /\ edits' = edits \/ (edits < MaxEdits /\ edits' = edits + 1)
  BY DEF ApprovalAction, Approve, DrawCode, CommitCode, DeleteApproval, EditApproval,
         MoveApproval

LEMMA OtherFrame ==
  ASSUME [Next]_vars
  PROVE  \/ UNCHANGED approvals
         \/ \E k \in Kinds : \E c \in Applicants[k] : ApprovalAction(k, c)
  <1> DEFINE Goal == \/ UNCHANGED approvals
                     \/ \E k \in Kinds : \E c \in Applicants[k] : ApprovalAction(k, c)
  <1>1. ASSUME NEW k \in Kinds, NEW c \in Applicants[k], ApprovalAction(k, c) PROVE Goal
    BY <1>1
  <1>2. ASSUME UNCHANGED vars PROVE Goal
    BY <1>2 DEF vars
  <1>3. ASSUME NextDay \/ \E k \in Kinds, v \in {None, TRUE, FALSE} : SetManual(k, v)
        PROVE  Goal
    BY <1>3 DEF NextDay, SetManual
  <1>4. ASSUME \E s \in Students, b \in Belts : Promote(s, b) PROVE Goal
    BY <1>4 DEF Promote
  <1>5. ASSUME NEW c, NEW lines, GroupRegister(c, lines) PROVE Goal
    BY <1>5 DEF GroupRegister
  <1>6. ASSUME \/ \E o \in DOMAIN orders : GroupPay(o)
               \/ \E i \in DOMAIN kyo : DeleteEnrollment(i)
               \/ \E i \in DOMAIN poo : PoomsaePay(i)
        PROVE  Goal
    BY <1>6 DEF GroupPay, DeleteEnrollment, PoomsaePay
  <1>7. ASSUME NEW s, NEW style, NEW code, NEW issued,
               PoomsaeRegister(s, style, code, issued)
        PROVE  Goal
    BY <1>7 DEF PoomsaeRegister
  <1>8. ASSUME \E u \in Attendees : SeminarRegister(u) \/ SeminarPay(u) PROVE Goal
    BY <1>8 DEF SeminarRegister, SeminarPay
  <1> HIDE DEF Goal
  <1>9. Goal
    BY <1>1, <1>2, <1>3, <1>4, <1>5, <1>6, <1>7, <1>8 DEF Next, ApprovalAction
  <1> QED
    BY <1>9 DEF Goal

\* The switches and the registrations for the seminar have actions of their own.
LEMMA SwitchesFrame ==
  ASSUME [Next]_vars
  PROVE  /\ \/ UNCHANGED manual
            \/ \E k \in Kinds, v \in {None, TRUE, FALSE} : SetManual(k, v)
         /\ \/ UNCHANGED seminar
            \/ \E u \in Attendees : SeminarRegister(u) \/ SeminarPay(u)
  <1> DEFINE M == \/ UNCHANGED manual
                  \/ \E k \in Kinds, v \in {None, TRUE, FALSE} : SetManual(k, v)
             S == \/ UNCHANGED seminar
                  \/ \E u \in Attendees : SeminarRegister(u) \/ SeminarPay(u)
  <1>1. ASSUME NEW k \in Kinds, NEW c \in Applicants[k], ApprovalAction(k, c)
        PROVE  M /\ S
    BY <1>1, ApprovalFrame
  <1>2. ASSUME UNCHANGED vars PROVE M /\ S
    BY <1>2 DEF vars
  <1>3. ASSUME NextDay \/ \E k \in Kinds, v \in {None, TRUE, FALSE} : SetManual(k, v)
        PROVE  M /\ S
    BY <1>3 DEF NextDay, SetManual
  <1>4. ASSUME \E s \in Students, b \in Belts : Promote(s, b) PROVE M /\ S
    BY <1>4 DEF Promote
  <1>5. ASSUME NEW c, NEW lines, GroupRegister(c, lines) PROVE M /\ S
    BY <1>5 DEF GroupRegister
  <1>6. ASSUME \/ \E o \in DOMAIN orders : GroupPay(o)
               \/ \E i \in DOMAIN kyo : DeleteEnrollment(i)
               \/ \E i \in DOMAIN poo : PoomsaePay(i)
        PROVE  M /\ S
    BY <1>6 DEF GroupPay, DeleteEnrollment, PoomsaePay
  <1>7. ASSUME NEW s, NEW style, NEW code, NEW issued,
               PoomsaeRegister(s, style, code, issued)
        PROVE  M /\ S
    BY <1>7 DEF PoomsaeRegister
  <1>8. ASSUME \E u \in Attendees : SeminarRegister(u) \/ SeminarPay(u) PROVE M /\ S
    BY <1>8 DEF SeminarRegister, SeminarPay
  <1> HIDE DEF M, S
  <1>9. M /\ S
    BY <1>1, <1>2, <1>3, <1>4, <1>5, <1>6, <1>7, <1>8 DEF Next, ApprovalAction
  <1> QED
    BY <1>9 DEF M, S

\* A cell of a table by competition and coach.
LEMMA CellAfter ==
  ASSUME NEW S, NEW f \in [Kinds -> [Coaches -> S]], NEW k \in Kinds, NEW c \in Coaches,
         NEW v \in S, NEW g, g = [f EXCEPT ![k][c] = v]
  PROVE  /\ g \in [Kinds -> [Coaches -> S]]
         /\ g[k][c] = v
         /\ \A l \in Kinds, d \in Coaches : <<l, d>> # <<k, c>> => g[l][d] = f[l][d]
  OBVIOUS

\* An acceptance of a row that has its code, a change by hand and a deletion:
\* the row goes, or its code stays.
RowStep(k, c, row) ==
  /\ approval' = [approval EXCEPT ![k][c] = row]
  /\ UNCHANGED <<drawing, shared>>
  /\ ~Locked(k, c)
  /\ \/ row = None
     \/ /\ row \in Approvals
        /\ row.code = IF approval[k][c] = None THEN None ELSE approval[k][c].code

LEMMA RowWritten ==
  ASSUME ApprovalTypes, NEW k \in Kinds, NEW c \in Coaches,
         \/ Approve(k, c) \/ DeleteApproval(k, c)
         \/ \E accepted, active \in BOOLEAN : EditApproval(k, c, accepted, active)
  PROVE  \E row : RowStep(k, c, row)
  <1>1. approval[k][c] \in Approvals \cup {None}
    BY DEF ApprovalTypes
  <1>2. CASE Approve(k, c)
    <2> DEFINE row == [approval[k][c] EXCEPT !.accepted = TRUE, !.active = TRUE]
    <2>1. approval[k][c] # None /\ approval[k][c] \in Approvals /\ ~Locked(k, c)
      BY <1>1, <1>2 DEF Approve, NeedsCode
    <2>2. row \in Approvals /\ row.code = approval[k][c].code
      BY <2>1 DEF Approvals
    <2>3. approval' = [approval EXCEPT ![k][c] = row] /\ UNCHANGED <<drawing, shared>>
      BY <1>2 DEF Approve, ApprovalTypes
    <2> HIDE DEF row
    <2>4. RowStep(k, c, row)
      BY <2>1, <2>2, <2>3 DEF RowStep
    <2> QED
      BY <2>4
  <1>3. CASE DeleteApproval(k, c)
    <2>1. RowStep(k, c, None)
      BY <1>3 DEF DeleteApproval, RowStep
    <2> QED
      BY <2>1
  <1>4. ASSUME NEW accepted \in BOOLEAN, NEW active \in BOOLEAN,
               EditApproval(k, c, accepted, active)
        PROVE  \E row : RowStep(k, c, row)
    <2> DEFINE code == IF approval[k][c] = None THEN None ELSE approval[k][c].code
               row == [accepted |-> accepted, active |-> active, code |-> code]
    <2>1. /\ approval' = [approval EXCEPT ![k][c] = row]
          /\ UNCHANGED <<drawing, shared>> /\ ~Locked(k, c)
      BY <1>4 DEF EditApproval, ApprovalTypes
    <2>2. code \in Codes \cup {None}
      BY <1>1 DEF Approvals
    <2>3. row \in Approvals /\ row.code = code
      BY <2>2 DEF Approvals
    <2> HIDE DEF row
    <2>4. RowStep(k, c, row)
      BY <2>1, <2>3 DEF RowStep
    <2> QED
      BY <2>4
  <1> QED
    BY <1>2, <1>3, <1>4

CodesInv == DistinctCodes /\ DrawnInv /\ LockedInv

\* A step on one row: it goes, or it keeps its code.
LEMMA RowKeeps ==
  ASSUME ApprovalTypes, CodesInv, NEW k \in Kinds, NEW c \in Coaches, NEW row,
         RowStep(k, c, row)
  PROVE  ApprovalTypes' /\ CodesInv'
  <1>1. row \in Approvals \cup {None}
    BY DEF RowStep
  <1>2. /\ approval' \in [Kinds -> [Coaches -> Approvals \cup {None}]]
        /\ approval'[k][c] = row
        /\ \A l \in Kinds, d \in Coaches :
             <<l, d>> # <<k, c>> => approval'[l][d] = approval[l][d]
    BY <1>1, CellAfter DEF RowStep, ApprovalTypes
  <1>3. drawing' = drawing /\ shared' = shared
    BY DEF RowStep
  <1>4. ASSUME NEW l \in Kinds, NEW d \in Coaches,
               approval'[l][d] # None, approval'[l][d].code # None
        PROVE  approval[l][d] # None /\ approval'[l][d].code = approval[l][d].code
    <2>1. CASE <<l, d>> # <<k, c>>
      BY <1>2, <1>4, <2>1
    <2>2. CASE l = k /\ d = c
      BY <1>2, <1>4, <2>2 DEF RowStep
    <2> QED
      BY <2>1, <2>2
  <1>5. DistinctCodes'
    BY <1>3, <1>4 DEF CodesInv, DistinctCodes
  <1>6. DrawnInv'
    BY <1>3, <1>4, RegistrationAssumption DEF CodesInv, DrawnInv
  <1>7. LockedInv'
    <2>1. ASSUME NEW l \in Kinds, NEW d \in Coaches, drawing[l][d] # None,
                 approval'[l][d] # None
          PROVE  approval'[l][d].code = None
      <3>1. <<l, d>> # <<k, c>>
        BY <2>1 DEF RowStep, Locked
      <3> QED
        BY <1>2, <2>1, <3>1 DEF CodesInv, LockedInv, Locked, NeedsCode
    <2> QED
      BY <1>3, <2>1 DEF LockedInv, Locked, NeedsCode
  <1> QED
    BY <1>2, <1>3, <1>5, <1>6, <1>7 DEF ApprovalTypes, CodesInv

\* A code is drawn: no row has it, and who else drew it shares it.
LEMMA DrawKeeps ==
  ASSUME ApprovalTypes, CodesInv, NEW k \in Kinds, NEW c \in Coaches, DrawCode(k, c)
  PROVE  ApprovalTypes' /\ CodesInv'
  <1>1. PICK code \in Codes \ CodesOf(k) :
          /\ drawing' = [drawing EXCEPT ![k][c] = code]
          /\ shared' = IF \E d \in Coaches : drawing[k][d] = code
                       THEN shared \cup {<<k, code>>} ELSE shared
    BY DEF DrawCode
  <1>2. approval' = approval /\ NeedsCode(k, c)
    BY DEF DrawCode
  <1>3. /\ drawing' \in [Kinds -> [Coaches -> Codes \cup {None}]]
        /\ drawing'[k][c] = code
        /\ \A l \in Kinds, d \in Coaches :
             <<l, d>> # <<k, c>> => drawing'[l][d] = drawing[l][d]
    BY <1>1, CellAfter DEF ApprovalTypes
  <1>4. /\ shared \subseteq shared' /\ shared' \subseteq Kinds \X Codes
        /\ \A d \in Coaches : drawing[k][d] = code => <<k, code>> \in shared'
    BY <1>1 DEF ApprovalTypes
  <1>5. \A d \in Coaches : approval[k][d] # None => approval[k][d].code # code
    BY <1>1 DEF CodesOf
  <1>6. DistinctCodes'
    BY <1>2, <1>4 DEF CodesInv, DistinctCodes
  <1>7. DrawnInv'
    <2>1. ASSUME NEW l \in Kinds, NEW a \in Coaches, NEW b \in Coaches,
                 drawing'[l][a] # None, <<l, drawing'[l][a]>> \notin shared'
          PROVE  /\ approval[l][b] # None => approval[l][b].code # drawing'[l][a]
                 /\ b # a => drawing'[l][b] # drawing'[l][a]
      <3>1. CASE l # k \/ (a # c /\ b # c)
        <4>1. drawing'[l][a] = drawing[l][a] /\ drawing'[l][b] = drawing[l][b]
          BY <1>3, <3>1
        <4> QED
          BY <1>4, <2>1, <4>1 DEF CodesInv, DrawnInv
      <3>2. CASE l = k /\ a = c
        <4>1. drawing'[l][a] = code /\ (b # a => drawing'[l][b] = drawing[l][b])
          BY <1>3, <3>2
        <4> QED
          BY <1>4, <1>5, <2>1, <3>2, <4>1
      <3>3. CASE l = k /\ a # c /\ b = c
        <4>1. drawing'[l][a] = drawing[l][a] /\ drawing'[l][b] = code
          BY <1>3, <3>3
        <4>2. drawing[l][a] # code
          BY <1>4, <2>1, <3>3, <4>1
        <4> QED
          BY <1>4, <2>1, <4>1, <4>2 DEF CodesInv, DrawnInv
      <3> QED
        BY <3>1, <3>2, <3>3
    <2> QED
      BY <1>2, <2>1 DEF DrawnInv
  <1>8. LockedInv'
    <2>1. ASSUME NEW l \in Kinds, NEW d \in Coaches, drawing'[l][d] # None
          PROVE  NeedsCode(l, d)
      BY <1>2, <1>3, <2>1 DEF CodesInv, LockedInv, Locked
    <2> QED
      BY <1>2, <2>1 DEF LockedInv, Locked, NeedsCode
  <1> QED
    BY <1>2, <1>3, <1>4, <1>6, <1>7, <1>8 DEF ApprovalTypes, CodesInv

\* The code that was drawn is written.
LEMMA CommitKeeps ==
  ASSUME ApprovalTypes, CodesInv, NEW k \in Kinds, NEW c \in Coaches, CommitCode(k, c)
  PROVE  ApprovalTypes' /\ CodesInv'
  <1> DEFINE row == [accepted |-> TRUE, active |-> TRUE, code |-> drawing[k][c]]
  <1>1. PICK code : code = drawing[k][c]
    OBVIOUS
  <1>2. code \in Codes /\ code # None
    BY <1>1, RegistrationAssumption DEF CommitCode, Locked, ApprovalTypes
  <1>3. row \in Approvals /\ row.code = code
    BY <1>1, <1>2 DEF Approvals
  <1>4. /\ approval' = [approval EXCEPT ![k][c] = row]
        /\ drawing' = [drawing EXCEPT ![k][c] = None]
        /\ shared' = shared
    BY DEF CommitCode
  <1>5. PICK new : new = row
    OBVIOUS
  <1> HIDE DEF row
  <1>6. /\ approval' \in [Kinds -> [Coaches -> Approvals \cup {None}]]
        /\ approval'[k][c] = new
        /\ \A l \in Kinds, d \in Coaches :
             <<l, d>> # <<k, c>> => approval'[l][d] = approval[l][d]
    BY <1>3, <1>4, <1>5, CellAfter DEF ApprovalTypes
  <1>7. /\ drawing' \in [Kinds -> [Coaches -> Codes \cup {None}]]
        /\ drawing'[k][c] = None
        /\ \A l \in Kinds, d \in Coaches :
             <<l, d>> # <<k, c>> => drawing'[l][d] = drawing[l][d]
    BY <1>4, CellAfter DEF ApprovalTypes
  <1>8. new.code = code
    BY <1>3, <1>5
  <1>9. \A d \in Coaches : approval[k][d] # None /\ <<k, code>> \notin shared
                             => approval[k][d].code # code
    BY <1>1, <1>2 DEF CodesInv, DrawnInv
  <1>10. DistinctCodes'
    <2>1. ASSUME NEW l \in Kinds, NEW a \in Coaches, NEW b \in Coaches,
                 approval'[l][a] # None, approval'[l][b] # None,
                 approval'[l][a].code # None,
                 approval'[l][a].code = approval'[l][b].code
          PROVE  a = b \/ <<l, approval'[l][a].code>> \in shared
      <3>1. CASE l # k \/ (a # c /\ b # c)
        <4>1. approval'[l][a] = approval[l][a] /\ approval'[l][b] = approval[l][b]
          BY <1>6, <3>1
        <4> QED
          BY <2>1, <4>1 DEF CodesInv, DistinctCodes
      <3>2. CASE l = k /\ a = c /\ b # c
        BY <1>6, <1>8, <1>9, <2>1, <3>2
      <3>3. CASE l = k /\ a # c /\ b = c
        BY <1>6, <1>8, <1>9, <2>1, <3>3
      <3>4. CASE l = k /\ a = c /\ b = c
        BY <3>4
      <3> QED
        BY <3>1, <3>2, <3>3, <3>4
    <2> QED
      BY <1>4, <2>1 DEF DistinctCodes
  <1>11. DrawnInv'
    <2>1. ASSUME NEW l \in Kinds, NEW a \in Coaches, NEW b \in Coaches,
                 drawing'[l][a] # None, <<l, drawing'[l][a]>> \notin shared
          PROVE  /\ approval'[l][b] # None => approval'[l][b].code # drawing'[l][a]
                 /\ b # a => drawing'[l][b] # drawing'[l][a]
      <3>1. <<l, a>> # <<k, c>> /\ drawing'[l][a] = drawing[l][a]
        BY <1>7, <2>1
      <3>2. CASE <<l, b>> # <<k, c>>
        <4>1. drawing'[l][b] = drawing[l][b] /\ approval'[l][b] = approval[l][b]
          BY <1>6, <1>7, <3>2
        <4> QED
          BY <2>1, <3>1, <4>1 DEF CodesInv, DrawnInv
      <3>3. CASE l = k /\ b = c
        <4>1. a # c /\ drawing[k][a] # code
          BY <1>1, <2>1, <3>1, <3>3 DEF CodesInv, DrawnInv
        <4> QED
          BY <1>6, <1>7, <1>8, <2>1, <3>1, <3>3, <4>1
      <3> QED
        BY <3>2, <3>3
    <2> QED
      BY <1>4, <2>1 DEF DrawnInv
  <1>12. LockedInv'
    <2>1. ASSUME NEW l \in Kinds, NEW d \in Coaches, drawing'[l][d] # None,
                 approval'[l][d] # None
          PROVE  approval'[l][d].code = None
      <3>1. <<l, d>> # <<k, c>>
        BY <1>7, <2>1
      <3> QED
        BY <1>6, <1>7, <2>1, <3>1 DEF CodesInv, LockedInv, Locked, NeedsCode
    <2> QED
      BY <2>1 DEF LockedInv, Locked, NeedsCode
  <1> QED
    BY <1>4, <1>6, <1>7, <1>10, <1>11, <1>12 DEF ApprovalTypes, CodesInv

\* A row moves to a coach who has none.
LEMMA MoveAfter ==
  ASSUME ApprovalTypes, NEW k \in Kinds, NEW c \in Coaches, NEW d \in Coaches,
         MoveApproval(k, c, d)
  PROVE  /\ c # d
         /\ approval' \in [Kinds -> [Coaches -> Approvals \cup {None}]]
         /\ approval'[k][c] = None /\ approval'[k][d] = approval[k][c]
         /\ \A l \in Kinds, e \in Coaches :
              <<l, e>> # <<k, c>> /\ <<l, e>> # <<k, d>> => approval'[l][e] = approval[l][e]
  <1>1. PICK row \in Approvals \cup {None} : row = approval[k][c]
    BY DEF ApprovalTypes
  <1>2. PICK g : g = [approval EXCEPT ![k][d] = row]
    OBVIOUS
  <1>3. c # d /\ approval' = [g EXCEPT ![k][c] = None]
    BY <1>1, <1>2 DEF MoveApproval
  <1>4. /\ g \in [Kinds -> [Coaches -> Approvals \cup {None}]]
        /\ g[k][d] = row
        /\ \A l \in Kinds, e \in Coaches : <<l, e>> # <<k, d>> => g[l][e] = approval[l][e]
    BY <1>1, <1>2, CellAfter DEF ApprovalTypes
  <1>5. /\ approval' \in [Kinds -> [Coaches -> Approvals \cup {None}]]
        /\ approval'[k][c] = None
        /\ \A l \in Kinds, e \in Coaches : <<l, e>> # <<k, c>> => approval'[l][e] = g[l][e]
    BY <1>3, <1>4, CellAfter
  <1> QED
    BY <1>1, <1>3, <1>4, <1>5

LEMMA MoveKeeps ==
  ASSUME ApprovalTypes, CodesInv, NEW k \in Kinds, NEW c \in Coaches, NEW d \in Coaches,
         MoveApproval(k, c, d)
  PROVE  ApprovalTypes' /\ CodesInv'
  <1>1. /\ c # d
        /\ approval' \in [Kinds -> [Coaches -> Approvals \cup {None}]]
        /\ approval'[k][c] = None /\ approval'[k][d] = approval[k][c]
        /\ \A l \in Kinds, e \in Coaches :
             <<l, e>> # <<k, c>> /\ <<l, e>> # <<k, d>> => approval'[l][e] = approval[l][e]
    BY MoveAfter
  <1>2. drawing' = drawing /\ shared' = shared /\ ~Locked(k, c) /\ ~Locked(k, d)
    BY DEF MoveApproval
  <1> DEFINE from(l, e) == IF l = k /\ e = d THEN c ELSE e
  <1>3. ASSUME NEW l \in Kinds, NEW e \in Coaches, approval'[l][e] # None
        PROVE  /\ from(l, e) \in Coaches
               /\ approval'[l][e] = approval[l][from(l, e)]
               /\ ~(l = k /\ e = c)
    BY <1>1, <1>3
  <1>4. ASSUME NEW l \in Kinds, NEW a \in Coaches, NEW b \in Coaches,
               ~(l = k /\ a = c), ~(l = k /\ b = c), from(l, a) = from(l, b)
        PROVE  a = b
    BY <1>4
  <1> HIDE DEF from
  <1>5. DistinctCodes'
    <2>1. ASSUME NEW l \in Kinds, NEW a \in Coaches, NEW b \in Coaches,
                 approval'[l][a] # None, approval'[l][b] # None,
                 approval'[l][a].code # None,
                 approval'[l][a].code = approval'[l][b].code
          PROVE  a = b \/ <<l, approval'[l][a].code>> \in shared
      BY <1>3, <1>4, <2>1 DEF CodesInv, DistinctCodes
    <2> QED
      BY <1>2, <2>1 DEF DistinctCodes
  <1>6. DrawnInv'
    BY <1>2, <1>3 DEF CodesInv, DrawnInv
  <1>7. LockedInv'
    <2>1. ASSUME NEW l \in Kinds, NEW e \in Coaches, drawing[l][e] # None,
                 approval'[l][e] # None
          PROVE  approval'[l][e].code = None
      <3>1. <<l, e>> # <<k, c>> /\ <<l, e>> # <<k, d>>
        BY <1>2, <2>1 DEF Locked
      <3> QED
        BY <1>1, <2>1, <3>1 DEF CodesInv, LockedInv, Locked, NeedsCode
    <2> QED
      BY <1>2, <2>1 DEF LockedInv, Locked, NeedsCode
  <1> QED
    BY <1>1, <1>2, <1>5, <1>6, <1>7 DEF ApprovalTypes, CodesInv

\* Codes through every step.
LEMMA CodesAfter ==
  ASSUME ApprovalTypes, CodesInv, [Next]_vars
  PROVE  ApprovalTypes' /\ CodesInv'
  <1> DEFINE Goal == ApprovalTypes' /\ CodesInv'
  <1>1. ASSUME UNCHANGED approvals PROVE Goal
    <2>1. approval' = approval /\ drawing' = drawing /\ shared' = shared
      BY <1>1 DEF approvals
    <2> QED
      BY <2>1 DEF ApprovalTypes, CodesInv, DistinctCodes, DrawnInv, LockedInv, Locked,
                  NeedsCode
  <1>2. ASSUME NEW k \in Kinds, NEW c \in Applicants[k], ApprovalAction(k, c)
        PROVE  Goal
    <2>1. c \in Coaches /\ Applicants[k] \subseteq Coaches
      BY RegistrationAssumption
    <2>2. ASSUME \/ Approve(k, c) \/ DeleteApproval(k, c)
                 \/ \E accepted, active \in BOOLEAN : EditApproval(k, c, accepted, active)
          PROVE  Goal
      <3>1. PICK row : RowStep(k, c, row)
        BY <2>1, <2>2, RowWritten
      <3> QED
        BY <2>1, <3>1, RowKeeps
    <2>3. ASSUME DrawCode(k, c) PROVE Goal
      BY <2>1, <2>3, DrawKeeps
    <2>4. ASSUME CommitCode(k, c) PROVE Goal
      BY <2>1, <2>4, CommitKeeps
    <2>5. ASSUME NEW d \in Applicants[k], MoveApproval(k, c, d) PROVE Goal
      BY <2>1, <2>5, MoveKeeps
    <2> HIDE DEF Goal
    <2> QED
      BY <1>2, <2>2, <2>3, <2>4, <2>5 DEF ApprovalAction
  <1> HIDE DEF Goal
  <1>3. Goal
    BY <1>1, <1>2, OtherFrame
  <1> QED
    BY <1>3 DEF Goal

-----------------------------------------------------------------------------
(* Types and the inductive invariant *)

\* The part of TypeOK that is about neither approvals nor orders and enrollments.
RestOK ==
  /\ today \in 0..LastDay
  /\ manual \in [Kinds -> {None, TRUE, FALSE}]
  /\ belt \in [Students -> Belts]
  /\ poo \in Seq(PooRows) /\ Len(poo) <= MaxPoo
  /\ seminar \in [Attendees -> {None, "unpaid", "paid"}]
  /\ edits \in 0..MaxEdits

LEMMA TypeParts == TypeOK <=> RestOK /\ ApprovalTypes /\ Tables
  BY DEF TypeOK, RestOK, ApprovalTypes, Tables

\* The poomsae table grows by one row at a time, and a row changes only from
\* unpaid to paid.
LEMMA PoomsaeAfter ==
  ASSUME TypeOK, [Next]_vars
  PROVE  /\ poo' \in Seq(PooRows) /\ Len(poo') <= MaxPoo
         /\ \A i \in DOMAIN poo :
              /\ i \in DOMAIN poo' /\ poo'[i].player = poo[i].player
              /\ poo[i].paid => poo'[i].paid
  <1> DEFINE Goal ==
         /\ poo' \in Seq(PooRows) /\ Len(poo') <= MaxPoo
         /\ \A i \in DOMAIN poo :
              /\ i \in DOMAIN poo' /\ poo'[i].player = poo[i].player
              /\ poo[i].paid => poo'[i].paid
  <1>1. /\ poo \in Seq(PooRows) /\ Len(poo) \in Nat /\ DOMAIN poo = 1..Len(poo)
        /\ Len(poo) <= MaxPoo /\ MaxPoo \in Nat
    BY LenProperties, RegistrationAssumption DEF TypeOK
  <1>2. CASE UNCHANGED poo
    BY <1>1, <1>2
  <1>3. ASSUME NEW s \in Students, NEW style \in Styles, NEW code \in Codes,
               NEW issued, PoomsaeRegister(s, style, code, issued)
        PROVE  Goal
    <2>1. PICK c \in CoachesFor(code) :
            poo' = Append(poo, [player |-> s, coach |-> c, style |-> style,
                                code |-> code, paid |-> FALSE,
                                eligible |-> PoomsaeEligible(s)])
      BY <1>3 DEF PoomsaeRegister
    <2> DEFINE row == [player |-> s, coach |-> c, style |-> style, code |-> code,
                       paid |-> FALSE, eligible |-> PoomsaeEligible(s)]
    <2>2. PoomsaeEligible(s) \in BOOLEAN
      BY Zenon DEF PoomsaeEligible
    <2>3. row \in PooRows
      BY <2>2 DEF PooRows, CoachesFor
    <2> HIDE DEF row
    <2>4. /\ poo' \in Seq(PooRows) /\ Len(poo') = Len(poo) + 1
          /\ \A i \in DOMAIN poo : poo'[i] = poo[i]
          /\ DOMAIN poo' = 1..(Len(poo) + 1)
      BY <1>1, <2>1, <2>3, AppendProperties, LenProperties DEF row
    <2>5. Len(poo) < MaxPoo
      BY <1>3 DEF PoomsaeRegister
    <2> QED
      BY <1>1, <2>4, <2>5
  <1>4. ASSUME NEW i \in DOMAIN poo, PoomsaePay(i) PROVE Goal
    <2> DEFINE row == [poo[i] EXCEPT !.paid = TRUE]
    <2>1. poo' = [poo EXCEPT ![i] = row]
      BY <1>4 DEF PoomsaePay
    <2>2. poo[i] \in PooRows
      BY <1>1, ElementOfSeq
    <2>3. row \in PooRows /\ row.player = poo[i].player /\ row.paid
      BY <2>2 DEF PooRows
    <2> HIDE DEF row
    <2>4. /\ poo' \in Seq(PooRows) /\ Len(poo') = Len(poo)
          /\ \A j \in DOMAIN poo : poo'[j] = IF j = i THEN row ELSE poo[j]
          /\ DOMAIN poo' = DOMAIN poo
      BY <1>1, <2>1, <2>3, ExceptSeq, LenProperties
    <2> QED
      BY <1>1, <2>3, <2>4
  <1>5. ASSUME \/ NextDay \/ \E k \in Kinds, v \in {None, TRUE, FALSE} : SetManual(k, v)
               \/ \E s \in Students, b \in Belts : Promote(s, b)
        PROVE  UNCHANGED poo
    BY <1>5 DEF NextDay, SetManual, Promote
  <1>6. ASSUME NEW k \in Kinds, NEW c \in Applicants[k], ApprovalAction(k, c)
        PROVE  UNCHANGED poo
    BY <1>6, ApprovalFrame
  <1>7. ASSUME NEW c, NEW lines, GroupRegister(c, lines)
        PROVE  UNCHANGED poo
    BY <1>7 DEF GroupRegister
  <1>8. ASSUME \/ \E o \in DOMAIN orders : GroupPay(o)
               \/ \E i \in DOMAIN kyo : DeleteEnrollment(i)
               \/ \E u \in Attendees : SeminarRegister(u) \/ SeminarPay(u)
        PROVE  UNCHANGED poo
    BY <1>8 DEF GroupPay, DeleteEnrollment, SeminarRegister, SeminarPay
  <1>9. CASE UNCHANGED vars
    BY <1>2, <1>9 DEF vars
  <1> HIDE DEF Goal
  <1>10. Goal
    BY <1>2, <1>3, <1>4, <1>5, <1>6, <1>7, <1>8, <1>9 DEF Next, Goal, ApprovalAction
  <1> QED
    BY <1>10 DEF Goal

\* The rest of the state keeps its type.
LEMMA RestAfter ==
  ASSUME TypeOK, [Next]_vars
  PROVE  RestOK'
  <1> DEFINE T == /\ today' \in 0..LastDay
                  /\ belt' \in [Students -> Belts]
                  /\ seminar' \in [Attendees -> {None, "unpaid", "paid"}]
                  /\ edits' \in 0..MaxEdits
             M == manual' \in [Kinds -> {None, TRUE, FALSE}]
  <1>0. /\ today \in 0..LastDay
        /\ belt \in [Students -> Belts]
        /\ seminar \in [Attendees -> {None, "unpaid", "paid"}]
        /\ edits \in 0..MaxEdits
    BY DEF TypeOK
  <1>1. ASSUME NextDay PROVE T
    BY <1>0, <1>1, RegistrationAssumption DEF NextDay
  <1>2. ASSUME NEW k \in Kinds, NEW v \in {None, TRUE, FALSE}, SetManual(k, v)
        PROVE  T
    BY <1>0, <1>2, RegistrationAssumption DEF SetManual
  <1>3. ASSUME NEW s \in Students, NEW b \in Belts, Promote(s, b) PROVE T
    BY <1>0, <1>3, RegistrationAssumption DEF Promote
  <1>4. ASSUME NEW k \in Kinds, NEW c \in Applicants[k], ApprovalAction(k, c)
        PROVE  T
    BY <1>0, <1>4, ApprovalFrame, RegistrationAssumption
  <1>5. ASSUME NEW c, NEW lines, GroupRegister(c, lines)
        PROVE  T
    <2>1. UNCHANGED <<today, manual, belt, seminar, edits>>
      BY <1>5 DEF GroupRegister
    <2> QED
      BY <1>0, <2>1
  <1>6. ASSUME \/ \E o \in DOMAIN orders : GroupPay(o)
               \/ \E i \in DOMAIN kyo : DeleteEnrollment(i)
               \/ \E i \in DOMAIN poo : PoomsaePay(i)
        PROVE  T
    BY <1>0, <1>6, RegistrationAssumption
    DEF GroupPay, DeleteEnrollment, PoomsaePay
  <1>7. ASSUME NEW s, NEW style, NEW code, NEW issued,
               PoomsaeRegister(s, style, code, issued)
        PROVE  T
    <2>1. UNCHANGED <<today, manual, belt, seminar, edits>>
      BY <1>7 DEF PoomsaeRegister
    <2> QED
      BY <1>0, <2>1
  <1>8. ASSUME NEW u \in Attendees, SeminarRegister(u) \/ SeminarPay(u) PROVE T
    BY <1>0, <1>8 DEF SeminarRegister, SeminarPay
  <1>9. ASSUME UNCHANGED vars PROVE T
    BY <1>0, <1>9 DEF vars
  <1> HIDE DEF T
  <1>10. T
    BY <1>1, <1>2, <1>3, <1>4, <1>5, <1>6, <1>7, <1>8, <1>9 DEF Next, ApprovalAction
  <1>11. M
    <2>1. manual \in [Kinds -> {None, TRUE, FALSE}]
      BY DEF TypeOK
    <2>2. ASSUME NEW k \in Kinds, NEW v \in {None, TRUE, FALSE}, SetManual(k, v)
          PROVE  M
      BY <2>1, <2>2, Zenon DEF SetManual
    <2>3. UNCHANGED manual
          \/ \E k \in Kinds, v \in {None, TRUE, FALSE} : SetManual(k, v)
      BY SwitchesFrame
    <2> QED
      BY <2>1, <2>2, <2>3, Zenon
  <1> QED
    BY <1>10, <1>11, PoomsaeAfter DEF T, RestOK

\* Orders and enrollments through every step.
LEMMA EnrollAfter ==
  ASSUME TypeOK, EnrollInv, [Next]_vars
  PROVE  EnrollInv'
  <1>1. ASSUME UNCHANGED <<orders, kyo>> PROVE EnrollInv'
    BY <1>1 DEF EnrollInv, Tables, OrdersInv, EnrolledPaid, DoubleNeedsOverlap, KyoIds
  <1>2. ASSUME \/ NextDay \/ \E k \in Kinds, v \in {None, TRUE, FALSE} : SetManual(k, v)
               \/ \E s \in Students, b \in Belts : Promote(s, b)
        PROVE  UNCHANGED <<orders, kyo>>
    BY <1>2 DEF NextDay, SetManual, Promote
  <1>3. ASSUME NEW k \in Kinds, NEW c \in Applicants[k], ApprovalAction(k, c)
        PROVE  UNCHANGED <<orders, kyo>>
    BY <1>3, ApprovalFrame
  <1>4. ASSUME NEW s, NEW style, NEW code, NEW issued,
               PoomsaeRegister(s, style, code, issued)
        PROVE  UNCHANGED <<orders, kyo>>
    BY <1>4 DEF PoomsaeRegister
  <1>5. ASSUME \/ \E i \in DOMAIN poo : PoomsaePay(i)
               \/ \E u \in Attendees : SeminarRegister(u) \/ SeminarPay(u)
               \/ UNCHANGED vars
        PROVE  UNCHANGED <<orders, kyo>>
    BY <1>5 DEF PoomsaePay, SeminarRegister, SeminarPay, vars
  <1> QED
    BY <1>1, <1>2, <1>3, <1>4, <1>5, GroupRegisterKeeps, GroupPayKeeps,
       DeleteEnrollmentKeeps
    DEF Next, ApprovalAction

\* The inductive invariant: types, the relation of orders to enrollments, and
\* codes kept apart.
LEMMA StateInvariant == Spec => [](TypeOK /\ EnrollInv /\ CodesInv)
  <1> DEFINE Inv == TypeOK /\ EnrollInv /\ CodesInv
  <1>1. Init => Inv
    <2>1. ASSUME Init PROVE RestOK
      <3>1. poo \in Seq(PooRows) /\ Len(poo) = 0
        BY <2>1, EmptySeq DEF Init
      <3> QED
        BY <2>1, <3>1, RegistrationAssumption DEF Init, RestOK
    <2>2. ASSUME Init PROVE EnrollInv
      <3>1. /\ orders \in Seq(Orders) /\ Len(orders) = 0 /\ DOMAIN orders = {}
            /\ kyo \in Seq(KyoRows) /\ Len(kyo) = 0 /\ DOMAIN kyo = {}
        BY <2>1, <2>2, EmptySeq DEF Init
      <3> QED
        BY <3>1, RegistrationAssumption
        DEF EnrollInv, Tables, OrdersInv, EnrolledPaid, DoubleNeedsOverlap, KyoIds
    <2>3. ASSUME Init PROVE CodesInv
      BY <2>3
      DEF Init, CodesInv, DistinctCodes, DrawnInv, LockedInv, Locked, NeedsCode
    <2>4. ASSUME Init PROVE ApprovalTypes
      BY <2>4 DEF Init, ApprovalTypes
    <2> QED
      BY <2>1, <2>2, <2>3, <2>4, TypeParts DEF EnrollInv
  <1>2. Inv /\ [Next]_vars => Inv'
    <2>1. RestOK' /\ ApprovalTypes' /\ Tables' => TypeOK'
      BY DEF TypeOK, RestOK, ApprovalTypes, Tables
    <2> QED
      BY <2>1, TypeParts, RestAfter, EnrollAfter, CodesAfter DEF EnrollInv
  <1> QED
    BY <1>1, <1>2, PTL DEF Spec

-----------------------------------------------------------------------------
(* The properties *)

\* Every table keeps its type, and every enrollment belongs to a line of its
\* order.
THEOREM TypeCorrect == Spec => []TypeOK
  BY StateInvariant, PTL

\* Two live enrollments of a student come from two lines of one order or from two
\* orders that overlapped, for any number of students, orders, payments and
\* deletions
\* (CoachRegisterStudentsView, _finalize_group_payment_if_needed).
THEOREM DoubleNeedsOverlapCorrect == Spec => []DoubleNeedsOverlap
  <1>1. EnrollInv => DoubleNeedsOverlap
    BY DEF EnrollInv
  <1> QED
    BY <1>1, StateInvariant, PTL

\* A code names one coach unless two acceptances that overlapped drew it, and what
\* an approved coach is shown is accepted for him (set_fresh_code).
THEOREM CodesNeedOverlapCorrect == Spec => []CodesNeedOverlap
  <1>1. ASSUME TypeOK, CodesInv PROVE CodesNeedOverlap
    <2>0. DistinctCodes
      BY <1>1 DEF CodesInv
    <2>1. ASSUME NEW c \in Coaches, ShownPoomsae(c).approved,
                 ShownPoomsae(c).code # None
          PROVE  /\ c \in CoachesFor(ShownPoomsae(c).code)
                 /\ <<"poomsae", ShownPoomsae(c).code>> \notin shared =>
                      CoachesFor(ShownPoomsae(c).code) = {c}
      <3>1. /\ Approved("poomsae", c)
            /\ ShownPoomsae(c).code = approval["poomsae"][c].code
        BY <2>1, Zenon DEF ShownPoomsae, Approved
      <3>2. "poomsae" \in Kinds
        BY DEF Kinds
      <3>3. c \in CoachesFor(ShownPoomsae(c).code)
        BY <3>1, Zenon DEF CoachesFor
      <3>4. ASSUME <<"poomsae", ShownPoomsae(c).code>> \notin shared,
                   NEW d \in CoachesFor(ShownPoomsae(c).code)
            PROVE  d = c
        BY <2>0, <2>1, <3>1, <3>2, <3>4, Zenon DEF CoachesFor, DistinctCodes, Approved
      <3> QED
        BY <3>3, <3>4
    <2>2. ASSUME NEW c \in Coaches PROVE PoomsaePage(c) = ShownPoomsae(c)
      <3>1. "poomsae" \in Kinds /\ approval["poomsae"][c] \in Approvals \cup {None}
        BY <1>1 DEF Kinds, TypeOK
      <3>2. CASE approval["poomsae"][c] = None
        BY <3>2 DEF PoomsaePage, ShownPoomsae, Approved, ShownCode
      <3>3. CASE approval["poomsae"][c] # None
        BY <3>1, <3>3 DEF PoomsaePage, ShownPoomsae, Approved, ShownCode, Approvals
      <3> QED
        BY <3>2, <3>3
    <2> QED
      BY <2>0, <2>1, <2>2 DEF CodesNeedOverlap
  <1> QED
    BY <1>1, StateInvariant, PTL

\* No acceptance and no change by hand replaces a code (CoachApproval.save).
THEOREM CodeStableCorrect == Spec => CodeStable
  <1> DEFINE Stable ==
        \A k \in Kinds, c \in Coaches :
          approval[k][c] # None /\ approval'[k][c] # None /\ approval[k][c].code # None
            => approval'[k][c].code = approval[k][c].code
  <1>1. ASSUME TypeOK, CodesInv, [Next]_vars PROVE Stable
    <2>0. ApprovalTypes
      BY <1>1, TypeParts
    <2>1. ASSUME UNCHANGED approvals PROVE Stable
      BY <2>1 DEF approvals
    <2>2. ASSUME NEW k \in Kinds, NEW c \in Applicants[k], ApprovalAction(k, c)
          PROVE  Stable
      <3>1. c \in Coaches /\ Applicants[k] \subseteq Coaches
        BY RegistrationAssumption
      <3>2. ASSUME NEW row, RowStep(k, c, row) PROVE Stable
        <4>1. /\ approval'[k][c] = row
              /\ \A l \in Kinds, d \in Coaches :
                   <<l, d>> # <<k, c>> => approval'[l][d] = approval[l][d]
          BY <2>0, <3>1, <3>2, CellAfter DEF RowStep, ApprovalTypes
        <4> QED
          BY <3>1, <3>2, <4>1 DEF RowStep
      <3>3. ASSUME DrawCode(k, c) PROVE Stable
        BY <3>3 DEF DrawCode
      <3>4. ASSUME CommitCode(k, c) PROVE Stable
        <4>1. NeedsCode(k, c)
          BY <1>1, <3>1, <3>4 DEF CodesInv, LockedInv, CommitCode
        <4>2. \A l \in Kinds, d \in Coaches :
                <<l, d>> # <<k, c>> => approval'[l][d] = approval[l][d]
          BY <2>0, <3>1, <3>4 DEF CommitCode, ApprovalTypes
        <4> QED
          BY <3>1, <4>1, <4>2 DEF NeedsCode
      <3>5. ASSUME NEW d \in Applicants[k], MoveApproval(k, c, d) PROVE Stable
        <4>1. /\ approval'[k][c] = None /\ approval[k][d] = None
              /\ \A l \in Kinds, e \in Coaches :
                   <<l, e>> # <<k, c>> /\ <<l, e>> # <<k, d>>
                     => approval'[l][e] = approval[l][e]
          <5>1. approval[k][d] = None
            BY <3>5 DEF MoveApproval
          <5> QED
            BY <2>0, <3>1, <3>5, <5>1, MoveAfter
        <4> QED
          BY <3>1, <4>1
      <3> HIDE DEF Stable
      <3> QED
        BY <2>0, <2>2, <3>1, <3>2, <3>3, <3>4, <3>5, RowWritten DEF ApprovalAction
    <2> HIDE DEF Stable
    <2> QED
      BY <1>1, <2>1, <2>2, OtherFrame
  <1>2. TypeOK /\ CodesInv /\ [Next]_vars => [Stable]_vars
    BY <1>1
  <1> QED
    BY <1>2, StateInvariant, PTL DEF Spec, CodeStable

\* No step takes a payment back or moves a card to another person
\* (SeminarRegisterView, PoomsaeRegisterSelfView).
THEOREM PaidKeptCorrect == Spec => PaidKept
  <1> DEFINE Kept ==
        /\ \A u \in Attendees : seminar[u] = "paid" => seminar'[u] = "paid"
        /\ \A i \in DOMAIN poo :
             i \in DOMAIN poo' /\ poo'[i].player = poo[i].player
               /\ (poo[i].paid => poo'[i].paid)
  <1>1. ASSUME TypeOK, [Next]_vars PROVE Kept
    <2>1. \/ UNCHANGED seminar
          \/ \E u \in Attendees : SeminarRegister(u) \/ SeminarPay(u)
      BY <1>1, SwitchesFrame
    <2>2. seminar \in [Attendees -> {None, "unpaid", "paid"}]
      BY <1>1 DEF TypeOK
    <2>3. \A u \in Attendees : seminar[u] = "paid" => seminar'[u] = "paid"
      <3>1. CASE UNCHANGED seminar
        BY <3>1
      <3>2. ASSUME NEW v \in Attendees, SeminarPay(v)
            PROVE  \A u \in Attendees : seminar[u] = "paid" => seminar'[u] = "paid"
        BY <2>2, <3>2 DEF SeminarPay
      <3>3. ASSUME NEW v \in Attendees, SeminarRegister(v)
            PROVE  \A u \in Attendees : seminar[u] = "paid" => seminar'[u] = "paid"
        <4>1. seminar' = [seminar EXCEPT ![v] = IF seminar[v] = None THEN "unpaid"
                                                ELSE seminar[v]]
          BY <3>3 DEF SeminarRegister
        <4> QED
          BY <2>2, <4>1, RegistrationAssumption
      <3> QED
        BY <2>1, <3>1, <3>2, <3>3
    <2> QED
      BY <1>1, <2>3, PoomsaeAfter
  <1>2. TypeOK /\ [Next]_vars => [Kept]_vars
    BY <1>1
  <1> QED
    BY <1>2, TypeCorrect, PTL DEF Spec, PaidKept

\* Lists, pages and registration agree on what is open, whatever the dates of
\* the competitions and of the seminar.
THEOREM OpenAgreesCorrect == Spec => []OpenAgrees
  <1>1. ASSUME TypeOK PROVE OpenAgrees
    <2>1. today \in Int /\ \A k \in Kinds : Opens[k] \in Int /\ Closes[k] \in Int
      BY <1>1, RegistrationAssumption DEF TypeOK
    <2>2. /\ SeminarDays.opens \in Int /\ SeminarDays.closes \in Int
          /\ SeminarDays.event \in Int
          /\ SeminarDays.opens <= SeminarDays.closes
          /\ SeminarDays.closes <= SeminarDays.event
      BY RegistrationAssumption
    <2>3. ASSUME NEW k \in Kinds PROVE OpenListed(k) <=> OpenEffective(k)
      BY <2>1 DEF OpenListed, OpenEffective
    <2>4. ASSUME NEW k \in Kinds PROVE CanRegister(k) => OpenListed(k)
      BY <2>3 DEF CanRegister
    <2>5. ASSUME NEW s \in Students
          PROVE  /\ \A k \in Dashboard(s, TRUE) : OpenEffective(k)
                 /\ PlayerList(s) \cup RefereeList(s) \subseteq Dashboard(s, TRUE)
      <3>1. "kyorugi" \in Kinds
        BY DEF Kinds
      <3>2. \A k \in Dashboard(s, TRUE) : k \in Kinds /\ OpenListed(k)
        BY DEF Dashboard
      <3>3. PlayerList(s) \cup RefereeList(s) \subseteq Dashboard(s, TRUE)
        BY <3>1 DEF PlayerList, RefereeList, Dashboard
      <3> QED
        BY <2>3, <3>2, <3>3
    <2>6. ASSUME NEW role, NEW show \in {"open", "upcoming", "past", "all"}
          PROVE  SeminarListed(role, show) <=> SeminarSidebar(role, show)
      BY DEF SeminarListed, SeminarSidebar
    <2>7. ASSUME NEW role, RoleAllowed(role)
          PROVE  /\ SeminarOpen => SeminarListed(role, "open") /\ SeminarListed(role, "upcoming")
                 /\ SeminarListed(role, "past") <=> ~SeminarListed(role, "upcoming")
      BY <2>1, <2>2, <2>7 DEF SeminarListed, SeminarOpen
    <2> QED
      BY <2>3, <2>4, <2>5, <2>6, <2>7 DEF OpenAgrees
  <1> QED
    BY <1>1, TypeCorrect, PTL

\* Whom a page calls eligible, his coach can register, for every choice of
\* groups, levels, windows of birth and categories.
THEOREM ListedAreAcceptedCorrect == Spec => []ListedAreAccepted
  <1>1. ASSUME TypeOK PROVE ListedAreAccepted
    <2>1. "kyorugi" \in Kinds /\ "poomsae" \in Kinds
      BY DEF Kinds
    <2>2. ASSUME NEW k \in Kinds PROVE AllowedOnPage(k) \subseteq AllowedBelts(k)
      BY RegistrationAssumption DEF AllowedOnPage, AllowedBelts
    <2>3. ASSUME NEW k \in Kinds, NEW s \in Students, belt[s] \in AllowedBelts(k)
          PROVE  GroupsFor(s, k) # {}
      BY <2>3 DEF AllowedBelts, GroupsFor
    <2>4. ASSUME NEW s \in Students
          PROVE  /\ EligibleSelf(s) => CoachOf[s] = None \/ s \in Listed(CoachOf[s])
                 /\ EligibleSelfPoomsae(s) =>
                      CoachOf[s] = None \/ s \in ListedPoomsae(CoachOf[s])
      BY <2>1, <2>2, RegistrationAssumption
      DEF EligibleSelf, Listed, EligibleSelfPoomsae, ListedPoomsae, PoomsaeEligible
    <2>5. ASSUME NEW c \in Coaches, NEW s \in Listed(c), RoleOf[s] # "referee",
                 NEW w \in Weights, NEW d \in Issued,
                 d <= Date["kyorugi"] - 3, CategoriesFor(s, w) # {}, w > 0
          PROVE  Accepts(s, w, d)
      BY <2>1, <2>3, <2>5, RegistrationAssumption DEF Listed, Accepts
    <2>6. ASSUME NEW c \in Coaches, NEW s \in ListedPoomsae(c)
          PROVE  GroupsFor(s, "poomsae") # {}
      BY <2>1, <2>2, <2>3 DEF ListedPoomsae, PoomsaeEligible
    <2> QED
      BY <2>4, <2>5, <2>6 DEF ListedAreAccepted
  <1> QED
    BY <1>1, TypeCorrect, PTL

\* A set of ids that has one has a first and a last.
LEMMA FirstAndLast ==
  ASSUME NEW n \in Nat, NEW R \in SUBSET (1..n), R # {}
  PROVE  /\ \E i \in R : \A j \in R : i <= j
         /\ \E i \in R : \A j \in R : j <= i
  <1>1. ASSUME NEW T \in SUBSET Nat, T # {} PROVE \E i \in T : \A j \in T : i <= j
    <2>1. PICK i \in T : \A j \in T : <<j, i>> \notin OpToRel(<, Nat)
      BY <1>1, WFMin, NatLessThanWellFounded
    <2>2. \A j \in T : ~(j < i)
      BY <2>1 DEF OpToRel
    <2> QED
      BY <2>2
  <1>2. \E i \in R : \A j \in R : i <= j
    BY <1>1
  <1> DEFINE U == {m \in Nat : \A j \in R : j <= m}
  <1>3. PICK m \in U : \A k \in U : m <= k
    <2>1. n \in U
      OBVIOUS
    <2> QED
      BY <1>1, <2>1
  <1>4. m \in R
    <2>1. SUFFICES ASSUME m \notin R PROVE FALSE
      OBVIOUS
    <2>2. \A j \in R : j <= m - 1
      BY <1>3, <2>1
    <2>3. m - 1 \in Nat
      <3>1. PICK j \in R : TRUE
        OBVIOUS
      <3>2. j \in Nat /\ j >= 1 /\ j <= m - 1
        BY <2>2
      <3> QED
        BY <1>3, <3>2
    <2>4. m - 1 \in U
      BY <2>2, <2>3
    <2> QED
      BY <1>3, <2>4
  <1> QED
    BY <1>2, <1>3, <1>4

\* The two card pages agree although they read the tables in opposite orders,
\* and the page of a competition offers a card exactly when it names an
\* enrollment (EnrollmentCardView, EnrollmentCardsBulkView, MyEnrollmentView).
THEOREM CardsAgreeCorrect == Spec => []CardsAgree
  <1>1. ASSUME TypeOK, EnrolledPaid PROVE CardsAgree
    <2>1. /\ Len(kyo) \in Nat /\ DOMAIN kyo = 1..Len(kyo)
          /\ Len(poo) \in Nat /\ DOMAIN poo = 1..Len(poo)
      BY <1>1, LenProperties DEF TypeOK
    <2>2. KyoIds \subseteq DOMAIN kyo /\ \A i \in KyoIds : kyo[i].paid
      BY <1>1 DEF KyoIds, EnrolledPaid
    <2>3. \A i \in KyoIds \cup DOMAIN poo :
            <<"kyorugi", i>> # None /\ <<"poomsae", i>> # None
      BY <2>1, <2>2, RegistrationAssumption, SMTT(30) DEF Kinds
    <2>4. ASSUME NEW u, NEW i \in KyoIds, MaySee(u, kyo[i])
          PROVE  Card(u, i) = <<"kyorugi", i>>
      BY <2>2, <2>4 DEF Card
    <2>5. ASSUME NEW u, NEW i \in DOMAIN poo, MaySee(u, poo[i]), poo[i].paid
          PROVE  Card(u, i) # None
      <3>1. CASE i \in KyoIds /\ MaySee(u, kyo[i])
        BY <2>3, <2>4, <3>1
      <3>2. CASE ~(i \in KyoIds /\ MaySee(u, kyo[i]))
        BY <2>3, <2>5, <3>2 DEF Card
      <3> QED
        BY <3>1, <3>2
    <2>6. ASSUME NEW u, NEW i \in KyoIds \cup DOMAIN poo, BulkCard(u, i) # None
          PROVE  Card(u, i) # None
      <3>1. CASE i \in DOMAIN poo
        <4>1. MaySee(u, poo[i]) /\ poo[i].paid
          BY <2>6, <3>1 DEF BulkCard
        <4> QED
          BY <2>5, <3>1, <4>1
      <3>2. CASE i \notin DOMAIN poo
        <4>1. i \in KyoIds /\ MaySee(u, kyo[i])
          BY <2>6, <3>2 DEF BulkCard
        <4> QED
          BY <2>3, <2>4, <4>1
      <3> QED
        BY <3>1, <3>2
    <2>7. ASSUME NEW s \in Students
          PROVE  /\ \A i \in OfferedKyo(s) \cup OfferedPoo(s) : Card(s, i) # None
                 /\ \A i \in PageEnrollment(s) :
                      kyo[i].paid => Card(s, i) = <<"kyorugi", i>>
                 /\ PageEnrollment(s) = {} <=> OfferedKyo(s) = {}
      <3> DEFINE rows == {i \in KyoIds : RoleOf[s] \in {"player", "both"}
                                           /\ kyo[i].player = s}
      <3>1. /\ PageEnrollment(s) = {i \in rows : \A j \in rows : j <= i}
            /\ OfferedKyo(s) = {i \in rows : kyo[i].paid /\ \A j \in rows : i <= j}
        BY DEF PageEnrollment, OfferedKyo
      <3>2. \A i \in rows : i \in KyoIds /\ MaySee(s, kyo[i]) /\ kyo[i].paid
        BY <2>2 DEF MaySee
      <3>3. rows \in SUBSET (1..Len(kyo))
        BY <2>1, <2>2
      <3>4. \A i \in OfferedPoo(s) : i \in DOMAIN poo /\ MaySee(s, poo[i]) /\ poo[i].paid
        BY DEF OfferedPoo, MaySee
      <3> HIDE DEF rows
      <3>5. \A i \in OfferedKyo(s) \cup OfferedPoo(s) : Card(s, i) # None
        BY <2>3, <2>4, <2>5, <3>1, <3>2, <3>4
      <3>6. \A i \in PageEnrollment(s) : Card(s, i) = <<"kyorugi", i>>
        BY <2>4, <3>1, <3>2
      <3>7. rows = {} <=> PageEnrollment(s) = {}
        BY <2>1, <3>1, <3>3, FirstAndLast
      <3>8. rows = {} <=> OfferedKyo(s) = {}
        BY <2>1, <3>1, <3>2, <3>3, FirstAndLast
      <3> QED
        BY <3>5, <3>6, <3>7, <3>8
    <2> QED
      BY <2>6, <2>7 DEF CardsAgree
  <1>2. EnrollInv => EnrolledPaid
    BY DEF EnrollInv
  <1> QED
    BY <1>1, <1>2, StateInvariant, PTL

=============================================================================
