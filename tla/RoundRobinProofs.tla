-------------------------- MODULE RoundRobinProofs --------------------------
(***************************************************************************)
(* The round-robin bound, for pools of every length and order.             *)
(***************************************************************************)
EXTENDS RoundRobinFairness, TLAPS

\* The pool is not empty, and its places hold its members.
LEMMA PoolPlaces ==
  /\ Len(Pool) \in Nat /\ Len(Pool) > 0
  /\ \A i \in 0 .. (Len(Pool) - 1) : PoolAt(i) \in PoolMembers
  /\ \A q \in PoolMembers : \E i \in 0 .. (Len(Pool) - 1) : PoolAt(i) = q
<1>1. Len(Pool) \in Nat /\ Len(Pool) > 0 /\ DOMAIN Pool = 1 .. Len(Pool)
  BY PoolAssumption
<1>2. ASSUME NEW i \in 0 .. (Len(Pool) - 1)
      PROVE  PoolAt(i) \in PoolMembers
  BY <1>1 DEF PoolAt, PoolMembers
<1>3. ASSUME NEW q \in PoolMembers
      PROVE  \E i \in 0 .. (Len(Pool) - 1) : PoolAt(i) = q
  <2>1. PICK j \in 1 .. Len(Pool) : Pool[j] = q
    BY <1>1 DEF PoolMembers
  <2>2. j - 1 \in 0 .. (Len(Pool) - 1) /\ PoolAt(j - 1) = q
    BY <1>1, <2>1 DEF PoolAt
  <2> QED
    BY <2>2
<1> QED
  BY <1>1, <1>2, <1>3

\* The remainder of what is less than twice the divisor.
LEMMA Remainder ==
  ASSUME NEW n \in Nat, n > 0, NEW i \in 0 .. (2 * n - 1)
  PROVE  i % n = IF i < n THEN i ELSE i - n
OBVIOUS

\* How far place i is ahead of place c on a ring of n places.
LEMMA Ring ==
  ASSUME NEW n \in Nat, n > 0, NEW c \in 0 .. (n - 1), NEW i \in 0 .. (n - 1)
  PROVE  /\ (i + n - c) % n \in 0 .. (n - 1)
         /\ (i + n - c) % n = IF i < c THEN i + n - c ELSE i - c
         /\ (c + ((i + n - c) % n)) % n = i
<1>1. i + n - c \in 0 .. (2 * n - 1)
  OBVIOUS
<1>2. (i + n - c) % n = IF i < c THEN i + n - c ELSE i - c
  BY <1>1, Remainder
<1>3. c + ((i + n - c) % n) \in 0 .. (2 * n - 1)
  BY <1>2
<1>4. (c + ((i + n - c) % n)) % n =
        IF c + ((i + n - c) % n) < n THEN c + ((i + n - c) % n)
                                   ELSE c + ((i + n - c) % n) - n
  BY <1>3, Remainder
<1> QED
  BY <1>2, <1>4

\* Where the cursor is after passing k places and stopping one further.
LEMMA Advance ==
  ASSUME NEW n \in Nat, n > 0, NEW c \in 0 .. (n - 1), NEW k \in 0 .. (n - 1)
  PROVE  (((c + k) % n) + 1) % n = IF c + k + 1 < n THEN c + k + 1
                                                  ELSE c + k + 1 - n
<1> DEFINE place == (c + k) % n
<1>1. c + k \in 0 .. (2 * n - 1)
  OBVIOUS
<1>2. place = IF c + k < n THEN c + k ELSE c + k - n
  BY <1>1, Remainder
<1>3. place + 1 \in 0 .. (2 * n - 1)
  BY <1>2
<1>4. (place + 1) % n = IF place + 1 < n THEN place + 1 ELSE place + 1 - n
  BY <1>3, Remainder
<1> HIDE DEF place
<1>5. (place + 1) % n = IF c + k + 1 < n THEN c + k + 1 ELSE c + k + 1 - n
  <2>1. CASE c + k < n - 1
    BY <1>2, <1>4, <2>1
  <2>2. CASE c + k = n - 1
    BY <1>2, <1>4, <2>2
  <2>3. CASE c + k > n - 1
    BY <1>2, <1>4, <2>3
  <2> QED
    BY <2>1, <2>2, <2>3
<1> QED
  BY <1>5 DEF place

\* A place beyond where the cursor stopped is that much nearer.
LEMMA Nearer ==
  ASSUME NEW n \in Nat, n > 0, NEW c \in 0 .. (n - 1), NEW k \in 0 .. (n - 1),
         NEW i \in 0 .. (n - 1), NEW c2, NEW d, NEW d2,
         d = IF i < c THEN i + n - c ELSE i - c,
         d > k,
         c2 = IF c + k + 1 < n THEN c + k + 1 ELSE c + k + 1 - n,
         d2 = IF i < c2 THEN i + n - c2 ELSE i - c2
  PROVE  d2 = d - (k + 1)
<1>1. CASE c + k + 1 < n
  BY <1>1
<1>2. CASE c + k + 1 >= n
  BY <1>2
<1> QED
  BY <1>1, <1>2

\* The index as far ahead of the cursor as its distance is that index.
LEMMA DistanceReaches ==
  ASSUME CursorTypeOK, NEW i \in 0 .. (Len(Pool) - 1)
  PROVE  /\ Distance(i) \in 0 .. (Len(Pool) - 1)
         /\ (cursor + Distance(i)) % Len(Pool) = i
         /\ Distance(i) = IF i < cursor THEN i + Len(Pool) - cursor
                                        ELSE i - cursor
<1> DEFINE n == Len(Pool)
<1>1. n \in Nat /\ n > 0 /\ cursor \in 0 .. (n - 1) /\ i \in 0 .. (n - 1)
  BY PoolPlaces DEF CursorTypeOK
<1>2. Distance(i) = (i + n - cursor) % n
  BY DEF Distance
<1> HIDE DEF n
<1>3. /\ Distance(i) \in 0 .. (n - 1)
      /\ (cursor + Distance(i)) % n = i
      /\ Distance(i) = IF i < cursor THEN i + n - cursor ELSE i - cursor
  BY <1>1, <1>2, Ring
<1> QED
  BY <1>3 DEF n

\* Nothing is missed yet, and every place is less than a round away.
LEMMA RoundRobinInit ==
  ASSUME Init
  PROVE  TypeOK /\ MissesAdvanceCursor
<1>1. TypeOK
  BY PoolPlaces DEF Init, CursorInit, TypeOK, CursorTypeOK
<1> QED
  BY <1>1, PoolPlaces, DistanceReaches DEF Init, MissesAdvanceCursor, TypeOK

\* A selection that misses a provider brings the cursor closer to it.
LEMMA RoundRobinStep ==
  ASSUME Strategy = "RoundRobin", TypeOK, MissesAdvanceCursor, [Next]_vars
  PROVE  TypeOK' /\ MissesAdvanceCursor'
<1> DEFINE n == Len(Pool)
<1>0. n \in Nat /\ n > 0 /\ cursor \in 0 .. (n - 1)
  BY PoolPlaces DEF TypeOK, CursorTypeOK
<1>1. CASE UNCHANGED vars
  BY <1>1 DEF vars, TypeOK, CursorTypeOK, MissesAdvanceCursor, Distance
<1>2. ASSUME NEW eligible \in SUBSET PoolMembers, NEW p \in eligible,
             SelectOne(eligible, p)
      PROVE  TypeOK' /\ MissesAdvanceCursor'
  <2>1. PICK k \in 0 .. (n - 1) :
          /\ PoolAt((cursor + k) % n) = p
          /\ \A j \in 0 .. (k - 1) : PoolAt((cursor + j) % n) \notin eligible
          /\ cursor' = (((cursor + k) % n) + 1) % n
    BY <1>2 DEF SelectOne, Select, NextRoundRobin
  <2>2. cursor' \in 0 .. (n - 1)
    BY <1>0, <2>1
  <2>3. TypeOK'
    BY <1>2, <2>2 DEF SelectOne, TypeOK, CursorTypeOK
  <2>4. ASSUME NEW i \in 0 .. (n - 1)
        PROVE  missed'[PoolAt(i)] + Distance(i)' < n
    <3> DEFINE q == PoolAt(i)
    <3>1. q \in PoolMembers
      BY PoolPlaces
    <3>2. /\ Distance(i)' \in 0 .. (n - 1)
          /\ Distance(i)' = IF i < cursor' THEN i + n - cursor' ELSE i - cursor'
      BY <1>0, <2>2, Ring DEF Distance
    <3>3. CASE ~ (q \in eligible /\ q # p)
      <4>1. missed'[q] = 0
        BY <1>2, <3>1, <3>3 DEF SelectOne
      <4> QED
        BY <1>0, <3>2, <4>1
    <3>4. CASE q \in eligible /\ q # p
      <4>1. missed'[q] = missed[q] + 1 /\ missed[q] \in Nat
        BY <1>2, <3>1, <3>4 DEF SelectOne, TypeOK
      <4>2. /\ Distance(i) \in 0 .. (n - 1)
            /\ Distance(i) = IF i < cursor THEN i + n - cursor ELSE i - cursor
        BY DistanceReaches DEF TypeOK
      <4>3. Distance(i) > k
        <5>1. (cursor + Distance(i)) % n = i
          BY DistanceReaches DEF TypeOK
        <5>2. Distance(i) # k /\ Distance(i) \notin 0 .. (k - 1)
          BY <2>1, <3>4, <5>1
        <5> QED
          BY <1>0, <4>2, <5>2
      <4>4. missed[q] + Distance(i) < n
        BY DEF MissesAdvanceCursor
      <4>5. cursor' = IF cursor + k + 1 < n THEN cursor + k + 1
                                            ELSE cursor + k + 1 - n
        BY <1>0, <2>1, Advance
      <4>6. Distance(i)' = Distance(i) - (k + 1)
        <5> HIDE DEF n
        <5> QED
          BY <1>0, <3>2, <4>2, <4>3, <4>5, Nearer
      <4>7. missed'[q] + Distance(i)' < n
        <5> HIDE DEF n, q
        <5> QED
          BY <1>0, <4>1, <4>2, <4>4, <4>6
      <4> QED
        BY <4>7
    <3> QED
      BY <3>3, <3>4
  <2> QED
    BY <2>3, <2>4 DEF MissesAdvanceCursor
<1> QED
  BY <1>1, <1>2 DEF Next

\* However the eligible sets change, every selection that passes a provider
\* over has brought the cursor closer to each of its places.
THEOREM MissesBringCursorCloser ==
  Strategy = "RoundRobin" /\ Spec => [](TypeOK /\ MissesAdvanceCursor)
<1> SUFFICES ASSUME Strategy = "RoundRobin"
             PROVE  Spec => [](TypeOK /\ MissesAdvanceCursor)
  OBVIOUS
<1>1. Init => TypeOK /\ MissesAdvanceCursor
  BY RoundRobinInit
<1>2. TypeOK /\ MissesAdvanceCursor /\ [Next]_vars
        => TypeOK' /\ MissesAdvanceCursor'
  BY RoundRobinStep
<1> QED
  BY <1>1, <1>2, PTL DEF Spec

\* In a pool of n places a provider that stays eligible is passed over fewer
\* than n times in a row, whatever the requests exclude.
THEOREM RoundRobinIsFair == Strategy = "RoundRobin" /\ Spec => []BoundedBypass
<1> SUFFICES ASSUME Strategy = "RoundRobin" PROVE Spec => []BoundedBypass
  OBVIOUS
<1>1. Spec => [](TypeOK /\ MissesAdvanceCursor)
  BY MissesBringCursorCloser
<1>2. TypeOK /\ MissesAdvanceCursor => BoundedBypass
  <2> SUFFICES ASSUME TypeOK, MissesAdvanceCursor, NEW q \in PoolMembers
               PROVE  missed[q] < Len(Pool)
    BY DEF BoundedBypass
  <2>1. PICK i \in 0 .. (Len(Pool) - 1) : PoolAt(i) = q
    BY PoolPlaces
  <2>2. missed[q] + Distance(i) < Len(Pool)
    BY <2>1 DEF MissesAdvanceCursor
  <2>3. Distance(i) \in Nat
    BY DistanceReaches DEF TypeOK
  <2> QED
    BY <2>2, <2>3, PoolPlaces DEF TypeOK
<1> QED
  BY <1>1, <1>2, PTL
=============================================================================
