------------------------ MODULE HashMapTable_proofs -------------------------
(***************************************************************************)
(* What the operations on a table preserve.                                *)
(*   TableOK   no node is in two lists, and each is in one that its hash   *)
(*             code leads to; the flags of the buckets that were never     *)
(*             split off another are set                                   *)
(*   AllInUse  the segments are those that the mask tells of               *)
(*   Placed    of the buckets that masks lead to for its hash code, a node *)
(*             is in the last that was reached, so no key is there twice   *)
(*   Counted   what the threads counted adds up to the number of elements  *)
(***************************************************************************)
EXTENDS HashMapTable, TLAPS, WellFoundedInduction, NaturalsInduction, FiniteSetTheorems

-----------------------------------------------------------------------------
(* Powers of two.  The provers know 2 ^ k of a numeral k only. *)

Exponents == 0 .. 33

LEMMA Powers ==
    ASSUME NEW k \in Exponents
    PROVE  2 ^ k \in Nat \ {0} /\ (k < 33 => 2 ^ (k + 1) = 2 * 2 ^ k)
<1>1. CASE k = 0 BY <1>1
<1>2. CASE k = 1 BY <1>2
<1>3. CASE k = 2 BY <1>3
<1>4. CASE k = 3 BY <1>4
<1>5. CASE k = 4 BY <1>5
<1>6. CASE k = 5 BY <1>6
<1>7. CASE k = 6 BY <1>7
<1>8. CASE k = 7 BY <1>8
<1>9. CASE k = 8 BY <1>9
<1>10. CASE k = 9 BY <1>10
<1>11. CASE k = 10 BY <1>11
<1>12. CASE k = 11 BY <1>12
<1>13. CASE k = 12 BY <1>13
<1>14. CASE k = 13 BY <1>14
<1>15. CASE k = 14 BY <1>15
<1>16. CASE k = 15 BY <1>16
<1>17. CASE k = 16 BY <1>17
<1>18. CASE k = 17 BY <1>18
<1>19. CASE k = 18 BY <1>19
<1>20. CASE k = 19 BY <1>20
<1>21. CASE k = 20 BY <1>21
<1>22. CASE k = 21 BY <1>22
<1>23. CASE k = 22 BY <1>23
<1>24. CASE k = 23 BY <1>24
<1>25. CASE k = 24 BY <1>25
<1>26. CASE k = 25 BY <1>26
<1>27. CASE k = 26 BY <1>27
<1>28. CASE k = 27 BY <1>28
<1>29. CASE k = 28 BY <1>29
<1>30. CASE k = 29 BY <1>30
<1>31. CASE k = 30 BY <1>31
<1>32. CASE k = 31 BY <1>32
<1>33. CASE k = 32 BY <1>33
<1>34. CASE k = 33 BY <1>34
<1> QED
  BY <1>1, <1>2, <1>3, <1>4, <1>5, <1>6, <1>7, <1>8, <1>9, <1>10, <1>11, <1>12, <1>13, <1>14, <1>15, <1>16, <1>17,
     <1>18, <1>19, <1>20, <1>21, <1>22, <1>23, <1>24, <1>25, <1>26, <1>27, <1>28, <1>29, <1>30, <1>31, <1>32, <1>33, <1>34
  DEF Exponents

\* Every set of numbers has a least one.
LEMMA LeastOf ==
    ASSUME NEW T \in SUBSET Nat, T # {}
    PROVE  \E x \in T : \A y \in T : x <= y
<1>1. PICK x \in T : \A y \in T : ~(<<y, x>> \in OpToRel(<, Nat))
  BY NatLessThanWellFounded, WFMin
<1>2. ASSUME NEW y \in T PROVE x <= y
  <2>1. ~(<<y, x>> \in OpToRel(<, Nat))
    BY <1>1
  <2>2. ~(y < x)
    BY <2>1 DEF OpToRel
  <2> QED BY <2>2
<1> QED BY <1>2

\* A larger power is a multiple of a smaller one.
LEMMA PowersDivide ==
    ASSUME NEW i \in Exponents, NEW j \in Exponents, i <= j
    PROVE  \E q \in Nat \ {0} : 2 ^ j = 2 ^ i * q
<1> DEFINE P(n) == \E q \in Nat \ {0} : 2 ^ n = 2 ^ i * q
<1> DEFINE T == {n \in i .. j : ~P(n)}
<1>1. SUFFICES T = {}
  <2>1. j \in i .. j
    BY DEF Exponents
  <2> QED BY <2>1
<1>2. SUFFICES ASSUME T # {} PROVE FALSE
  OBVIOUS
<1>3. T \in SUBSET Nat
  BY DEF Exponents
<1>4. PICK n \in T : \A y \in T : n <= y
  BY <1>2, <1>3, LeastOf
<1>5. n # i
  <2>1. 2 ^ i = 2 ^ i * 1
    BY Powers
  <2> QED BY <2>1, <1>4
<1>6. n - 1 \in i .. j /\ n - 1 \notin T /\ n - 1 \in Exponents /\ n - 1 < 33
  BY <1>4, <1>5 DEF Exponents
<1>7. PICK q \in Nat \ {0} : 2 ^ (n - 1) = 2 ^ i * q
  BY <1>6
<1>8. 2 ^ n = 2 * 2 ^ (n - 1)
  <2>1. (n - 1) + 1 = n
    BY <1>4 DEF Exponents
  <2> QED BY <2>1, <1>6, Powers
<1>9. 2 ^ n = 2 ^ i * (2 * q) /\ 2 * q \in Nat \ {0}
  <2>1. 2 ^ i \in Nat
    BY Powers
  <2> HIDE DEF T
  <2>2. ASSUME NEW a \in Nat PROVE 2 * (a * q) = a * (2 * q)
    OBVIOUS
  <2> QED BY <1>7, <1>8, <2>1, <2>2
<1> QED BY <1>9, <1>4

LEMMA PowersGrow ==
    ASSUME NEW i \in Exponents, NEW j \in Exponents
    PROVE  /\ i <= j => 2 ^ i <= 2 ^ j
           /\ i < j => 2 * 2 ^ i <= 2 ^ j
<1>1. ASSUME NEW a \in Exponents, NEW b \in Exponents, a <= b PROVE 2 ^ a <= 2 ^ b
  <2>1. PICK q \in Nat \ {0} : 2 ^ b = 2 ^ a * q
    BY <1>1, PowersDivide
  <2>2. 2 ^ a \in Nat
    BY Powers
  <2>3. ASSUME NEW x \in Nat PROVE x <= x * q
    OBVIOUS
  <2> QED BY <2>1, <2>2, <2>3
<1>2. ASSUME i < j PROVE 2 * 2 ^ i <= 2 ^ j
  <2>1. i + 1 \in Exponents /\ i + 1 <= j /\ i < 33
    BY <1>2 DEF Exponents
  <2> QED BY <2>1, <1>1, Powers
<1> QED BY <1>1, <1>2

-----------------------------------------------------------------------------
(* Division *)

LEMMA DivMod ==
    ASSUME NEW h \in Nat, NEW m \in Nat \ {0}
    PROVE  h % m \in 0 .. (m - 1) /\ h \div m \in Nat /\ h = m * (h \div m) + (h % m)
<1>1. h % m \in 0 .. (m - 1) /\ h \div m \in Nat
  OBVIOUS
<1>2. PICK d, r : d = h \div m /\ r = h % m
  OBVIOUS
<1>3. h - r = m * d
  BY <1>1, <1>2, SMTT(30)
<1> QED BY <1>1, <1>2, <1>3

LEMMA ModUnique ==
    ASSUME NEW m \in Nat \ {0}, NEW q \in Nat, NEW r \in 0 .. (m - 1)
    PROVE  (m * q + r) % m = r
<1> DEFINE x == m * q + r
<1>1. x \in Nat
  OBVIOUS
<1> HIDE DEF x
<1>2. x % m \in 0 .. (m - 1) /\ x \div m \in Nat /\ x = m * (x \div m) + (x % m)
  BY <1>1, DivMod
<1> DEFINE p == x \div m
<1> DEFINE s == x % m
<1> HIDE DEF p, s
<1>3. m * p + s = m * q + r /\ p \in Nat /\ s \in 0 .. (m - 1)
  BY <1>2 DEF x, p, s
<1>4. p = q
  <2>1. CASE p < q
    <3>1. m * (p + 1) <= m * q
      BY <2>1, <1>3
    <3>2. m * (p + 1) = m * p + m
      BY <1>3
    <3> QED BY <3>1, <3>2, <1>3
  <2>2. CASE q < p
    <3>1. m * (q + 1) <= m * p
      BY <2>2, <1>3
    <3>2. m * (q + 1) = m * q + m
      OBVIOUS
    <3> QED BY <3>1, <3>2, <1>3
  <2> QED BY <2>1, <2>2, <1>3
<1>5. s = r
  BY <1>3, <1>4
<1> QED BY <1>5 DEF s, x

\* A mask that is applied after a larger one does all of its work.
LEMMA ModMod ==
    ASSUME NEW h \in Nat, NEW m \in Nat \ {0}, NEW q \in Nat \ {0}
    PROVE  (h % (m * q)) % m = h % m
<1> DEFINE n == m * q
<1> DEFINE a == h \div n
<1> DEFINE b == h % n
<1> DEFINE c == b \div m
<1> DEFINE d == b % m
<1>1. n \in Nat \ {0}
  OBVIOUS
<1> HIDE DEF n
<1>2. b \in Nat /\ a \in Nat /\ h = n * a + b
  BY <1>1, DivMod
<1> HIDE DEF a, b
<1>3. d \in 0 .. (m - 1) /\ c \in Nat /\ b = m * c + d
  BY <1>2, DivMod
<1> HIDE DEF c, d
<1>4. h = m * (q * a + c) + d
  <2>1. n * a = m * (q * a)
    BY <1>2 DEF n
  <2>2. m * (q * a + c) = m * (q * a) + m * c
    BY <1>2, <1>3
  <2> QED BY <2>1, <2>2, <1>2, <1>3
<1>5. q * a + c \in Nat
  BY <1>2, <1>3
<1>6. h % m = d
  BY <1>3, <1>4, <1>5, ModUnique
<1> QED BY <1>6 DEF d, b, n

LEMMA MaskMask ==
    ASSUME NEW h \in Nat, NEW i \in Exponents, NEW j \in Exponents, i <= j
    PROVE  (h % 2 ^ j) % 2 ^ i = h % 2 ^ i
<1>1. PICK q \in Nat \ {0} : 2 ^ j = 2 ^ i * q
  BY PowersDivide
<1>2. 2 ^ i \in Nat \ {0}
  BY Powers
<1> QED BY <1>1, <1>2, ModMod

LEMMA PowersFromTwo ==
    ASSUME NEW j \in Exponents, j >= 1
    PROVE  2 <= 2 ^ j
<1>1. PICK i \in Exponents : i = 1
  BY DEF Exponents
<1>2. 2 ^ i = 2
  BY <1>1
<1>3. 2 ^ i <= 2 ^ j
  BY <1>1, PowersGrow
<1> QED BY <1>2, <1>3

LEMMA ModSmall ==
    ASSUME NEW m \in Nat \ {0}, NEW r \in 0 .. (m - 1)
    PROVE  r % m = r
<1>1. (m * 0 + r) % m = r
  BY ModUnique
<1>2. m * 0 + r = r
  OBVIOUS
<1> QED BY <1>1, <1>2

-----------------------------------------------------------------------------
(* Masks and segments *)

LEMMA Log2Is ==
    ASSUME NEW x \in Nat, NEW e \in 0 .. 32, 2 ^ e <= x, x < 2 ^ (e + 1)
    PROVE  Log2(x) = e
<1>1. ASSUME NEW f \in 0 .. 32, NEW g \in 0 .. 32, 2 ^ f <= x, x < 2 ^ (g + 1)
      PROVE  f <= g
  <2>1. SUFFICES ASSUME g + 1 <= f PROVE FALSE
    BY <1>1
  <2>2. f \in Exponents /\ g + 1 \in Exponents
    BY <1>1 DEF Exponents
  <2>3. 2 ^ f \in Nat /\ 2 ^ (g + 1) \in Nat
    BY <2>2, Powers
  <2>4. 2 ^ (g + 1) <= 2 ^ f
    BY <2>1, <2>2, PowersGrow
  <2> QED BY <1>1, <2>3, <2>4
<1>2. \A f \in 0 .. 32 : 2 ^ f <= x /\ x < 2 ^ (f + 1) => f = e
  <2>1. SUFFICES ASSUME NEW f \in 0 .. 32, 2 ^ f <= x, x < 2 ^ (f + 1) PROVE f = e
    OBVIOUS
  <2>2. f <= e /\ e <= f
    BY <2>1, <1>1
  <2> QED BY <2>2
<1> QED BY <1>2 DEF Log2

LEMMA Log2Range ==
    ASSUME NEW x \in Nat, NEW k \in Exponents, 1 <= x, x < 2 ^ k
    PROVE  /\ Log2(x) \in 0 .. (k - 1)
           /\ 2 ^ Log2(x) <= x /\ x < 2 ^ (Log2(x) + 1)
<1> DEFINE T == {n \in Exponents : x < 2 ^ n}
<1>1. T \in SUBSET Nat /\ k \in T
  BY DEF Exponents
<1>2. PICK n \in T : \A y \in T : n <= y
  <2> HIDE DEF T
  <2> QED BY <1>1, LeastOf
<1>3. n \in Exponents /\ x < 2 ^ n /\ n <= k
  BY <1>1, <1>2
<1>4. n # 0
  <2>1. ASSUME n = 0 PROVE 2 ^ n = 1
    BY <2>1
  <2> QED BY <2>1, <1>3
<1>5. n - 1 \in 0 .. 32 /\ n - 1 \in Exponents /\ (n - 1) + 1 = n /\ n - 1 <= k - 1
  BY <1>3, <1>4 DEF Exponents
<1>6. 2 ^ (n - 1) <= x
  <2>1. n - 1 \notin T
    BY <1>2, <1>5
  <2>2. 2 ^ (n - 1) \in Nat
    BY <1>5, Powers
  <2> QED BY <2>1, <2>2, <1>5
<1>7. Log2(x) = n - 1
  BY <1>3, <1>5, <1>6, Log2Is
<1> QED BY <1>3, <1>5, <1>6, <1>7

LEMMA Log2OfPower ==
    ASSUME NEW k \in 0 .. 32
    PROVE  Log2(2 ^ k) = k
<1>1. k \in Exponents /\ k < 33
  BY DEF Exponents
<1>2. 2 ^ k \in Nat /\ 2 ^ k <= 2 ^ k /\ 2 ^ k < 2 ^ (k + 1)
  BY <1>1, Powers
<1> QED BY <1>2, Log2Is

LEMMA BucketsAreNumbers == Buckets \subseteq Nat
<1>1. number_of_segments \in Exponents
  BY SegmentAssumption DEF Exponents
<1>2. 2 ^ number_of_segments \in Nat
  BY <1>1, Powers
<1> QED BY <1>2 DEF Buckets

\* The mask that covers the segments 0 to j.
MaskOf(j) == 2 ^ (j + 1) - 1

LEMMA MaskFacts ==
    ASSUME NEW j \in 0 .. (number_of_segments - 1)
    PROVE  /\ MaskOf(j) \in Nat /\ MaskOf(j) + 1 = 2 ^ (j + 1) /\ MaskOf(j) >= 1
           /\ 0 .. MaskOf(j) \subseteq Buckets
           /\ j + 1 \in Exponents /\ j + 1 \in 0 .. 32 /\ j + 1 \in 1 .. number_of_segments
           /\ Log2(MaskOf(j) + 1) = j + 1
<1>1. /\ j + 1 \in Exponents /\ j + 1 \in 0 .. 32 /\ j + 1 \in 1 .. number_of_segments
      /\ number_of_segments \in Exponents
  BY SegmentAssumption DEF Exponents
<1>2. 2 ^ (j + 1) \in Nat /\ 2 <= 2 ^ (j + 1)
  BY <1>1, Powers, PowersFromTwo
<1>3. 2 ^ (j + 1) <= 2 ^ number_of_segments /\ 2 ^ number_of_segments \in Nat
  BY <1>1, Powers, PowersGrow
<1>4. MaskOf(j) \in Nat /\ MaskOf(j) + 1 = 2 ^ (j + 1) /\ MaskOf(j) >= 1
  BY <1>2 DEF MaskOf
<1>5. 0 .. MaskOf(j) \subseteq Buckets
  BY <1>3, <1>4 DEF Buckets
<1> QED BY <1>1, <1>4, <1>5, Log2OfPower

LEMMA MaskedRange ==
    ASSUME NEW h \in Nat, NEW j \in 0 .. (number_of_segments - 1)
    PROVE  Masked(h, MaskOf(j)) \in 0 .. MaskOf(j) /\ Masked(h, MaskOf(j)) = h % 2 ^ (j + 1)
<1>1. MaskOf(j) \in Nat /\ MaskOf(j) + 1 = 2 ^ (j + 1)
  BY MaskFacts
<1>2. h % (MaskOf(j) + 1) \in 0 .. ((MaskOf(j) + 1) - 1)
  <2> DEFINE m == MaskOf(j) + 1
  <2>1. m \in Nat \ {0}
    BY <1>1
  <2> HIDE DEF m
  <2>2. h % m \in 0 .. (m - 1)
    BY <2>1, DivMod
  <2> QED BY <2>2 DEF m
<1> QED BY <1>1, <1>2 DEF Masked

\* A bucket that some mask leads to is the one its own mask leads to.
LEMMA OwnMaskFits ==
    ASSUME NEW h \in Nat, NEW j \in 0 .. (number_of_segments - 1)
    PROVE  Masked(h, OwnMask(Masked(h, MaskOf(j)))) = Masked(h, MaskOf(j))
<1> DEFINE b == Masked(h, MaskOf(j))
<1>1. b \in 0 .. MaskOf(j) /\ b = h % 2 ^ (j + 1) /\ b \in Nat
  BY MaskedRange, MaskFacts
<1>2. j + 1 \in Exponents /\ 2 ^ (j + 1) \in Nat \ {0} /\ b < 2 ^ (j + 1) /\ 1 \in Exponents /\ 1 <= j + 1
  BY <1>1, MaskFacts, Powers DEF Exponents
<1> HIDE DEF b
<1>3. CASE b = 0
  <2>1. h % 2 ^ 1 = (h % 2 ^ (j + 1)) % 2 ^ 1
    BY <1>2, MaskMask
  <2>2. 2 ^ 1 = 2 /\ 0 % 2 = 0
    OBVIOUS
  <2>3. OwnMask(b) + 1 = 2
    BY <1>3 DEF OwnMask
  <2> QED BY <2>1, <2>2, <2>3, <1>1, <1>3 DEF Masked, b
<1>4. CASE b # 0
  <2> DEFINE e == Log2(b)
  <2>1. e \in 0 .. j /\ b < 2 ^ (e + 1)
    BY <1>1, <1>2, <1>4, Log2Range
  <2> HIDE DEF e
  <2>2. e + 1 \in Exponents /\ e + 1 <= j + 1 /\ 2 ^ (e + 1) \in Nat \ {0}
    <3>1. e + 1 \in Exponents /\ e + 1 <= j + 1
      BY <2>1, SegmentAssumption DEF Exponents
    <3> QED BY <3>1, Powers
  <2>3. h % 2 ^ (e + 1) = b % 2 ^ (e + 1)
    BY <1>1, <1>2, <2>2, MaskMask
  <2>4. b % 2 ^ (e + 1) = b
    <3>1. b \in 0 .. (2 ^ (e + 1) - 1)
      BY <1>1, <2>1, <2>2
    <3> QED BY <3>1, <2>2, ModSmall
  <2>5. OwnMask(b) + 1 = 2 ^ (e + 1)
    BY <1>4, <2>2 DEF OwnMask, e
  <2> QED BY <2>3, <2>4, <2>5 DEF Masked, b
<1> QED BY <1>3, <1>4

\* A bucket is split off one that comes before it.
LEMMA ParentBefore ==
    ASSUME NEW b \in Buckets, b >= 2
    PROVE  Parent(b) \in Buckets /\ Parent(b) < b
<1>1. number_of_segments \in Exponents
  BY SegmentAssumption DEF Exponents
<1>2. b \in Nat /\ b < 2 ^ number_of_segments /\ 2 ^ number_of_segments \in Nat
  BY <1>1, Powers DEF Buckets
<1> DEFINE e == Log2(b)
<1>3. e \in 0 .. (number_of_segments - 1) /\ 2 ^ e <= b
  BY <1>1, <1>2, Log2Range
<1> HIDE DEF e
<1>4. e \in Exponents
  BY <1>3, SegmentAssumption DEF Exponents
<1>5. 2 ^ e \in Nat \ {0} /\ (2 ^ e - 1) + 1 = 2 ^ e
  BY <1>4, Powers
<1>6. b % 2 ^ e \in 0 .. (2 ^ e - 1)
  BY <1>2, <1>5, DivMod
<1>7. Parent(b) = b % 2 ^ e
  BY <1>5 DEF Parent, Masked, e
<1>8. Parent(b) \in Nat /\ Parent(b) < b
  BY <1>2, <1>3, <1>5, <1>6, <1>7
<1> QED BY <1>2, <1>8 DEF Buckets

LEMMA SegmentOf ==
    ASSUME NEW j \in 0 .. (number_of_segments - 1), NEW x \in 0 .. MaskOf(j)
    PROVE  segment_index_of(x) \in 0 .. j
<1>1. CASE x < 2
  BY <1>1 DEF segment_index_of
<1>2. CASE x >= 2
  <2>1. x \in Nat /\ 1 <= x /\ j + 1 \in Exponents /\ x < 2 ^ (j + 1)
    BY <1>2, MaskFacts
  <2>2. Log2(x) \in 0 .. ((j + 1) - 1)
    BY <2>1, Log2Range
  <2>3. segment_index_of(x) = Log2(x)
    BY <1>2, MaskFacts DEF segment_index_of
  <2> QED BY <2>2, <2>3
<1> QED BY <1>1, <1>2, MaskFacts

LEMMA SegmentOfMask ==
    ASSUME NEW j \in 0 .. (number_of_segments - 1)
    PROVE  segment_index_of(MaskOf(j)) = j
<1>1. CASE j = 0
  <2>1. 2 ^ 1 = 2
    OBVIOUS
  <2>2. MaskOf(j) = 1
    BY <1>1, <2>1 DEF MaskOf
  <2> QED BY <1>1, <2>2 DEF segment_index_of
<1>2. CASE j # 0
  <2>1. j \in Exponents /\ 1 <= j /\ j < 33 /\ j \in 0 .. 32
    BY <1>2, SegmentAssumption DEF Exponents
  <2>2. 2 ^ j \in Nat /\ 2 <= 2 ^ j /\ 2 ^ (j + 1) = 2 * 2 ^ j
    BY <2>1, Powers, PowersFromTwo
  <2>3. MaskOf(j) \in Nat /\ 2 ^ j <= MaskOf(j) /\ MaskOf(j) < 2 ^ (j + 1) /\ MaskOf(j) >= 2
    BY <2>2 DEF MaskOf
  <2>4. Log2(MaskOf(j)) = j
    BY <2>1, <2>3, Log2Is
  <2> QED BY <2>3, <2>4 DEF segment_index_of
<1> QED BY <1>1, <1>2

LEMMA SegmentOfNext ==
    ASSUME NEW j \in 0 .. (number_of_segments - 1)
    PROVE  segment_index_of(MaskOf(j) + 1) = j + 1
<1>1. MaskOf(j) + 1 \in Nat /\ ~(MaskOf(j) + 1 < 2) /\ Log2(MaskOf(j) + 1) = j + 1
  BY MaskFacts
<1> QED BY <1>1 DEF segment_index_of

\* The embedded buckets are 0 and 1, and those of the other segments follow.
LEMMA EmbeddedBuckets == BucketsOf(0) = {0, 1}
<1>1. 2 ^ 1 = 2
  OBVIOUS
<1> QED BY <1>1 DEF BucketsOf, segment_base, Size, segment_size

LEMMA LaterBuckets ==
    ASSUME NEW k \in 1 .. 32
    PROVE  0 \notin BucketsOf(k) /\ 1 \notin BucketsOf(k)
<1>1. k \in Exponents /\ 1 <= k
  BY DEF Exponents
<1>2. 2 ^ k \in Nat /\ 2 <= 2 ^ k
  BY <1>1, Powers, PowersFromTwo
<1>3. BucketsOf(k) = 2 ^ k .. (2 ^ k + 2 ^ k - 1)
  BY <1>1 DEF BucketsOf, segment_base, Size, segment_size
<1> QED BY <1>2, <1>3

\* The segments that enable_segment() makes valid.
Grown(j) == j \in 0 .. (number_of_segments - 1) /\ (j = 0 \/ j >= first_block - 1)

LEMMA EnabledSegments ==
    ASSUME NEW k \in 0 .. (number_of_segments - 1)
    PROVE  /\ LastEnabled(k) \in k .. (number_of_segments - 1) /\ Grown(LastEnabled(k))
           /\ NewMask(k) = MaskOf(LastEnabled(k))
           /\ LastEnabled(LastEnabled(k)) = LastEnabled(k)
  BY SegmentAssumption DEF LastEnabled, Grown, NewMask, MaskOf, segment_size

-----------------------------------------------------------------------------
(* What is true of a table at any time *)

Node == [id : NodeIds, key : Keys, val : Values]
IdsOf(tab, b) == {n.id : n \in tab.node_list[b]}

\* A node is in one list only.
OneHome(tab) ==
    \A b, c \in Buckets : \A n \in tab.node_list[b], m \in tab.node_list[c] :
        n.id = m.id => b = c /\ n = m

\* A node is in a list that its hash code leads to.
Congruent(tab) ==
    \A b \in Buckets : \A n \in tab.node_list[b] : Masked(hasher[n.key], OwnMask(b)) = b

\* The fields that nothing here depends on have whatever value they have: the
\* sizes are sums over a sequence, of which the provers know nothing.
TableType(tab) ==
    tab \in [node_list : [Buckets -> SUBSET Node], rehashed : {tab.rehashed},
             durable : {tab.durable}, segments : {tab.segments}, my_mask : Nat,
             my_size : {tab.my_size}, on_init_size : {tab.on_init_size},
             tls : [storage : Seq(Int), cached : Nat], consistent : {tab.consistent}]

TableOK(tab) ==
    /\ TableType(tab)
    /\ OneHome(tab)
    /\ Congruent(tab)
    /\ {0, 1} \subseteq tab.durable /\ tab.durable \subseteq tab.rehashed
    /\ tab.tls.cached <= Len(tab.tls.storage)

\* All segments are in use, or the ones that were enabled last are not yet.
AllInUse(tab) == \E j \in Nat : Grown(j) /\ tab.my_mask = MaskOf(j) /\ tab.segments = 0 .. j
OneToPublish(tab) ==
    \E j \in Nat :
        /\ Grown(j) /\ j + 1 < number_of_segments
        /\ tab.my_mask = MaskOf(j) /\ tab.segments = 0 .. LastEnabled(j + 1)

LEMMA SameNodes ==
    ASSUME NEW tab, NEW tab2, TableOK(tab), TableType(tab2), tab2.node_list = tab.node_list,
           {0, 1} \subseteq tab2.durable, tab2.durable \subseteq tab2.rehashed,
           tab2.tls.cached <= Len(tab2.tls.storage)
    PROVE  TableOK(tab2)
  BY DEF TableOK, OneHome, Congruent

LEMMA MaskedBucket ==
    ASSUME NEW tab, AllInUse(tab) \/ OneToPublish(tab), NEW h \in Nat
    PROVE  /\ Masked(h, tab.my_mask) \in Buckets
           /\ Masked(h, tab.my_mask) <= tab.my_mask
           /\ Masked(h, OwnMask(Masked(h, tab.my_mask))) = Masked(h, tab.my_mask)
<1>1. PICK j \in Nat : Grown(j) /\ tab.my_mask = MaskOf(j)
  BY DEF AllInUse, OneToPublish
<1>2. j \in 0 .. (number_of_segments - 1)
  BY <1>1 DEF Grown
<1> QED BY <1>1, <1>2, MaskedRange, MaskFacts, OwnMaskFits

-----------------------------------------------------------------------------
(* Flags and thread-specific sizes *)

LEMMA SetRehashedOK ==
    ASSUME NEW tab, TableOK(tab), NEW h
    PROVE  TableOK(set_rehashed(tab, h))
<1> DEFINE new == set_rehashed(tab, h)
<1>1. TableType(new) /\ new.node_list = tab.node_list /\ new.durable = tab.durable
      /\ new.rehashed = tab.rehashed \cup {h} /\ new.tls = tab.tls
  BY DEF TableOK, TableType, set_rehashed
<1> QED BY <1>1, SameNodes DEF TableOK

LEMMA PersistRehashedOK ==
    ASSUME NEW tab, TableOK(tab), NEW h
    PROVE  TableOK(persist_rehashed(tab, h))
<1> DEFINE new == persist_rehashed(tab, h)
<1>1. TableType(new) /\ new.node_list = tab.node_list /\ new.rehashed = tab.rehashed
      /\ new.durable = tab.durable \cup ({h} \cap tab.rehashed) /\ new.tls = tab.tls
  BY DEF TableOK, TableType, persist_rehashed
<1> QED BY <1>1, SameNodes DEF TableOK

LEMMA MarkRehashedOK ==
    ASSUME NEW tab, TableOK(tab), NEW ks
    PROVE  TableOK(mark_rehashed(tab, ks))
<1> DEFINE new == mark_rehashed(tab, ks)
<1> DEFINE marked == UNION {BucketsOf(k) : k \in ks}
<1>1. TableType(new) /\ new.node_list = tab.node_list /\ new.rehashed = tab.rehashed \cup marked
      /\ new.durable = tab.durable \cup marked /\ new.tls = tab.tls
  <2> HIDE DEF marked
  <2>1. new = [tab EXCEPT !.rehashed = @ \cup marked, !.durable = @ \cup marked]
    BY DEF mark_rehashed, marked
  <2> HIDE DEF new
  <2> QED BY <2>1 DEF TableOK, TableType
<1> HIDE DEF marked, new
<1> QED BY <1>1, SameNodes DEF TableOK, new

TlsOK(e) == e \in [storage : Seq(Int), cached : Nat] /\ e.cached <= Len(e.storage)

LEMMA ResizeOK ==
    ASSUME NEW e, TlsOK(e), NEW index \in Nat
    PROVE  /\ TlsOK(resize(e, index)) /\ index < Len(resize(e, index).storage)
           /\ Len(e.storage) <= Len(resize(e, index).storage)
<1>1. CASE index < Len(e.storage)
  BY <1>1 DEF resize, TlsOK
<1>2. CASE ~(index < Len(e.storage))
  <2> DEFINE n == index + 1 - Len(e.storage)
  <2> DEFINE zeros == [i \in 1 .. n |-> 0]
  <2>1. Len(e.storage) \in Nat /\ n \in Nat
    BY <1>2 DEF TlsOK
  <2> HIDE DEF n
  <2>2. zeros \in Seq(Int) /\ Len(zeros) = n
    BY <2>1
  <2> HIDE DEF zeros
  <2>3. e.storage \o zeros \in Seq(Int) /\ Len(e.storage \o zeros) = Len(e.storage) + n
    <3>1. \A s1, s2 \in Seq(Int) : s1 \o s2 \in Seq(Int) /\ Len(s1 \o s2) = Len(s1) + Len(s2)
      OBVIOUS
    <3>2. e.storage \in Seq(Int)
      BY DEF TlsOK
    <3> QED BY <3>1, <3>2, <2>2
  <2>4. resize(e, index) = [e EXCEPT !.storage = e.storage \o zeros]
    BY <1>2 DEF resize, zeros, n
  <2>5. resize(e, index).storage = e.storage \o zeros /\ resize(e, index).cached = e.cached
        /\ resize(e, index) \in [storage : Seq(Int), cached : Nat]
    BY <2>3, <2>4 DEF TlsOK
  <2> QED BY <2>1, <2>3, <2>5 DEF TlsOK, n
<1> QED BY <1>1, <1>2

LEMMA CacheOK ==
    ASSUME NEW e, TlsOK(e)
    PROVE  TlsOK(set_cached_size(e)) /\ set_cached_size(e).storage = e.storage
  BY DEF TlsOK, set_cached_size

LEMMA AddOK ==
    ASSUME NEW e, TlsOK(e), NEW index \in Nat, index < Len(e.storage), NEW n \in Int
    PROVE  TlsOK(Add(e, index, n)) /\ Len(Add(e, index, n).storage) = Len(e.storage)
<1> DEFINE s == [e.storage EXCEPT ![index + 1] = @ + n]
<1>1. s \in Seq(Int) /\ Len(s) = Len(e.storage)
  BY DEF TlsOK
<1>2. Add(e, index, n) = [e EXCEPT !.storage = s]
  BY DEF Add, TlsOK
<1> HIDE DEF s
<1> QED BY <1>1, <1>2 DEF TlsOK

LEMMA ClearOK == ASSUME NEW e PROVE TlsOK(clear(e))
  BY DEF clear, Construct, TlsOK

\* A change of the fields that no list, flag or segment depends on.
LEMMA SameTable ==
    ASSUME NEW tab, TableOK(tab), NEW e, TlsOK(e), NEW size, NEW size0, NEW kept
    PROVE  LET new == [tab EXCEPT !.tls = e, !.my_size = size, !.on_init_size = size0,
                                  !.consistent = kept]
           IN  TableOK(new)
<1> DEFINE new == [tab EXCEPT !.tls = e, !.my_size = size, !.on_init_size = size0,
                              !.consistent = kept]
<1>1. TableType(new) /\ new.node_list = tab.node_list /\ new.rehashed = tab.rehashed
      /\ new.durable = tab.durable /\ new.tls = e
  BY DEF TableOK, TableType, TlsOK
<1> HIDE DEF new
<1>2. TableOK(new)
  BY <1>1, SameNodes DEF TableOK, TlsOK
<1> QED BY <1>2 DEF new

LEMMA CountNewOK ==
    ASSUME NEW tab, TableOK(tab), NEW n \in Nat, NEW in_tx \in BOOLEAN, NEW thread \in Nat
    PROVE  LET new == CountNew(tab, n, in_tx, thread)
           IN  /\ TableOK(new) /\ new.node_list = tab.node_list
               /\ new.my_mask = tab.my_mask /\ new.segments = tab.segments
<1> DEFINE new == CountNew(tab, n, in_tx, thread)
<1> DEFINE e == IF in_tx \/ n = 0 THEN tab.tls
                ELSE Add(set_cached_size(resize(tab.tls, thread)), thread, n)
<1>1. TlsOK(e)
  <2>1. TlsOK(tab.tls)
    BY DEF TlsOK, TableOK, TableType
  <2> DEFINE a == resize(tab.tls, thread)
  <2>2. TlsOK(a) /\ thread < Len(a.storage)
    BY <2>1, ResizeOK
  <2> HIDE DEF a
  <2> DEFINE b == set_cached_size(a)
  <2>3. TlsOK(b) /\ b.storage = a.storage
    BY <2>2, CacheOK
  <2> HIDE DEF b
  <2>4. TlsOK(Add(b, thread, n))
    BY <2>2, <2>3, AddOK
  <2> QED BY <2>1, <2>4 DEF a, b
<1> HIDE DEF e
<1>2. PICK size, size0, kept :
        new = [tab EXCEPT !.tls = e, !.my_size = size, !.on_init_size = size0, !.consistent = kept]
  <2>1. CASE in_tx
    <3>1. new = [tab EXCEPT !.on_init_size = @ + n, !.my_size = @ + n]
      BY <2>1 DEF CountNew
    <3>2. new = [tab EXCEPT !.tls = e, !.my_size = tab.my_size + n,
                            !.on_init_size = tab.on_init_size + n, !.consistent = tab.consistent]
      BY <2>1, <3>1 DEF e, TableOK, TableType
    <3> HIDE DEF new
    <3> QED BY <3>2
  <2>2. CASE ~in_tx /\ n = 0
    <3>1. new = tab
      BY <2>2 DEF CountNew
    <3>2. new = [tab EXCEPT !.tls = e, !.my_size = tab.my_size,
                            !.on_init_size = tab.on_init_size, !.consistent = tab.consistent]
      BY <2>2, <3>1 DEF e, TableOK, TableType
    <3> HIDE DEF new
    <3> QED BY <3>2
  <2>3. CASE ~in_tx /\ n # 0
    <3>1. new = [tab EXCEPT !.tls = Add(set_cached_size(resize(@, thread)), thread, n),
                            !.my_size = @ + n]
      BY <2>3 DEF CountNew
    <3>2. new = [tab EXCEPT !.tls = e, !.my_size = tab.my_size + n,
                            !.on_init_size = tab.on_init_size, !.consistent = tab.consistent]
      BY <2>3, <3>1 DEF e, TableOK, TableType
    <3> HIDE DEF new
    <3> QED BY <3>2
  <2> QED BY <2>1, <2>2, <2>3
<1> HIDE DEF new
<1>3. TableOK(new)
  BY <1>1, <1>2, SameTable
<1>4. new.node_list = tab.node_list /\ new.my_mask = tab.my_mask /\ new.segments = tab.segments
  BY <1>2 DEF TableOK, TableType
<1> QED BY <1>3, <1>4 DEF new

-----------------------------------------------------------------------------
(* Nodes *)

\* Lists that hold fewer nodes.
LEMMA FewerNodes ==
    ASSUME NEW tab, TableOK(tab), NEW tab2, TableType(tab2),
           \A b \in Buckets : tab2.node_list[b] \subseteq tab.node_list[b],
           {0, 1} \subseteq tab2.durable, tab2.durable \subseteq tab2.rehashed,
           tab2.tls.cached <= Len(tab2.tls.storage)
    PROVE  TableOK(tab2)
<1>1. OneHome(tab2)
  BY DEF TableOK, OneHome
<1>2. Congruent(tab2)
  BY DEF TableOK, Congruent
<1> QED BY <1>1, <1>2 DEF TableOK

LEMMA NodeListsChanged ==
    ASSUME NEW tab, TableOK(tab), NEW lists \in [Buckets -> SUBSET Node]
    PROVE  LET new == [tab EXCEPT !.node_list = lists]
           IN  /\ TableType(new) /\ new.node_list = lists
               /\ new.durable = tab.durable /\ new.rehashed = tab.rehashed
               /\ {0, 1} \subseteq new.durable /\ new.durable \subseteq new.rehashed
               /\ new.my_mask = tab.my_mask /\ new.segments = tab.segments /\ new.tls = tab.tls
               /\ new.tls.cached <= Len(new.tls.storage)
  BY DEF TableOK, TableType

LEMMA DeleteOK ==
    ASSUME NEW tab, TableOK(tab), NEW b \in Buckets, NEW id
    PROVE  LET new == delete_node(tab, b, id)
           IN  /\ TableOK(new)
               /\ \A c \in Buckets \ {b} : new.node_list[c] = tab.node_list[c]
               /\ new.rehashed = tab.rehashed /\ new.my_mask = tab.my_mask
               /\ new.segments = tab.segments /\ new.tls = tab.tls
<1> DEFINE new == delete_node(tab, b, id)
<1> DEFINE lists == [tab.node_list EXCEPT ![b] = {n \in @ : n.id # id}]
<1>1. tab.node_list \in [Buckets -> SUBSET Node]
  BY DEF TableOK, TableType
<1>2. /\ lists \in [Buckets -> SUBSET Node]
      /\ \A c \in Buckets : lists[c] \subseteq tab.node_list[c]
      /\ \A c \in Buckets \ {b} : lists[c] = tab.node_list[c]
  BY <1>1
<1>3. new = [tab EXCEPT !.node_list = lists]
  BY DEF delete_node, TableOK, TableType
<1> HIDE DEF lists, new
<1>4. /\ TableType(new) /\ new.node_list = lists
      /\ new.rehashed = tab.rehashed /\ {0, 1} \subseteq new.durable /\ new.durable \subseteq new.rehashed
      /\ new.my_mask = tab.my_mask /\ new.segments = tab.segments /\ new.tls = tab.tls
      /\ new.tls.cached <= Len(new.tls.storage)
  BY <1>2, <1>3, NodeListsChanged
<1>5. TableOK(new)
  BY <1>2, <1>4, FewerNodes
<1> QED BY <1>2, <1>4, <1>5 DEF new

LEMMA InsertOK ==
    ASSUME NEW tab, TableOK(tab), NEW b \in Buckets, NEW n \in Node,
           \A c \in Buckets : n.id \notin IdsOf(tab, c),
           Masked(hasher[n.key], OwnMask(b)) = b
    PROVE  LET new == insert_new_node_internal(tab, b, n)
           IN  /\ TableOK(new) /\ n.id \in IdsOf(new, b)
               /\ \A c \in Buckets : tab.node_list[c] \subseteq new.node_list[c]
               /\ new.rehashed = tab.rehashed /\ new.my_mask = tab.my_mask
               /\ new.segments = tab.segments /\ new.tls = tab.tls
<1> DEFINE new == insert_new_node_internal(tab, b, n)
<1> DEFINE lists == [tab.node_list EXCEPT ![b] = @ \cup {n}]
<1>1. tab.node_list \in [Buckets -> SUBSET Node]
  BY DEF TableOK, TableType
<1>2. /\ lists \in [Buckets -> SUBSET Node]
      /\ \A c \in Buckets : lists[c] = IF c = b THEN tab.node_list[c] \cup {n} ELSE tab.node_list[c]
  BY <1>1
<1>3. new = [tab EXCEPT !.node_list = lists]
  BY DEF insert_new_node_internal, TableOK, TableType
<1> HIDE DEF lists, new
<1>4. /\ TableType(new) /\ new.node_list = lists
      /\ new.rehashed = tab.rehashed /\ {0, 1} \subseteq new.durable /\ new.durable \subseteq new.rehashed
      /\ new.my_mask = tab.my_mask /\ new.segments = tab.segments /\ new.tls = tab.tls
      /\ new.tls.cached <= Len(new.tls.storage)
  BY <1>2, <1>3, NodeListsChanged
<1>5. OneHome(new)
  <2>1. SUFFICES ASSUME NEW c \in Buckets, NEW d \in Buckets, NEW x \in lists[c], NEW y \in lists[d],
                        x.id = y.id
                 PROVE  c = d /\ x = y
    BY <1>4 DEF OneHome
  <2>2. \A e \in Buckets : \A z \in tab.node_list[e] : z.id # n.id
    BY DEF IdsOf
  <2>3. CASE x = n \/ y = n
    BY <1>2, <2>1, <2>2, <2>3
  <2>4. CASE x # n /\ y # n
    <3>1. x \in tab.node_list[c] /\ y \in tab.node_list[d]
      BY <1>2, <2>4
    <3> QED BY <3>1, <2>1 DEF TableOK, OneHome
  <2> QED BY <2>3, <2>4
<1>6. Congruent(new)
  BY <1>2, <1>4 DEF Congruent, TableOK
<1>7. TableOK(new)
  BY <1>4, <1>5, <1>6 DEF TableOK
<1>8. n.id \in IdsOf(new, b)
  BY <1>2, <1>4 DEF IdsOf
<1> QED BY <1>2, <1>4, <1>7, <1>8 DEF new

LEMMA StoreOK ==
    ASSUME NEW tab, TableOK(tab), NEW id, NEW v \in Values
    PROVE  LET new == StoreValue(tab, id, v)
           IN  /\ TableOK(new)
               /\ \A c \in Buckets : IdsOf(new, c) = IdsOf(tab, c)
               /\ new.rehashed = tab.rehashed /\ new.my_mask = tab.my_mask
               /\ new.segments = tab.segments /\ new.tls = tab.tls
<1> DEFINE new == StoreValue(tab, id, v)
<1> DEFINE stored(n) == IF n.id = id THEN [n EXCEPT !.val = v] ELSE n
<1> DEFINE lists == [b \in Buckets |-> {stored(n) : n \in tab.node_list[b]}]
<1>1. tab.node_list \in [Buckets -> SUBSET Node]
  BY DEF TableOK, TableType
<1>2. \A n \in Node : stored(n) \in Node /\ stored(n).id = n.id /\ stored(n).key = n.key
  BY DEF Node
<1>3. new = [tab EXCEPT !.node_list = lists]
  BY DEF StoreValue, TableOK, TableType
<1> HIDE DEF stored, new
<1>4. lists \in [Buckets -> SUBSET Node]
  BY <1>1, <1>2
<1>5. \A b \in Buckets : lists[b] = {stored(n) : n \in tab.node_list[b]}
  OBVIOUS
<1> HIDE DEF lists
<1>6. /\ TableType(new) /\ new.node_list = lists
      /\ new.rehashed = tab.rehashed /\ {0, 1} \subseteq new.durable /\ new.durable \subseteq new.rehashed
      /\ new.my_mask = tab.my_mask /\ new.segments = tab.segments /\ new.tls = tab.tls
      /\ new.tls.cached <= Len(new.tls.storage)
  BY <1>3, <1>4, NodeListsChanged
<1>7. ASSUME NEW b \in Buckets, NEW x \in lists[b]
      PROVE  \E n \in tab.node_list[b] : x = stored(n) /\ x.id = n.id /\ x.key = n.key
  BY <1>1, <1>2, <1>5, <1>7
<1>8. OneHome(new)
  <2>1. SUFFICES ASSUME NEW c \in Buckets, NEW d \in Buckets, NEW x \in lists[c], NEW y \in lists[d],
                        x.id = y.id
                 PROVE  c = d /\ x = y
    BY <1>6 DEF OneHome
  <2>2. PICK n \in tab.node_list[c] : x = stored(n) /\ x.id = n.id
    BY <1>7
  <2>3. PICK m \in tab.node_list[d] : y = stored(m) /\ y.id = m.id
    BY <1>7
  <2>4. c = d /\ n = m
    BY <2>1, <2>2, <2>3 DEF TableOK, OneHome
  <2> QED BY <2>2, <2>3, <2>4
<1>9. Congruent(new)
  <2>1. SUFFICES ASSUME NEW b \in Buckets, NEW x \in lists[b]
                 PROVE  Masked(hasher[x.key], OwnMask(b)) = b
    BY <1>6 DEF Congruent
  <2>2. PICK n \in tab.node_list[b] : x.key = n.key
    BY <1>7
  <2> QED BY <2>2 DEF TableOK, Congruent
<1>10. ASSUME NEW b \in Buckets PROVE IdsOf(new, b) = IdsOf(tab, b)
  <2>1. \A n \in tab.node_list[b] : stored(n) \in lists[b] /\ stored(n).id = n.id
    BY <1>1, <1>2, <1>5
  <2>2. \A x \in lists[b] : \E n \in tab.node_list[b] : x.id = n.id
    BY <1>7
  <2> QED BY <1>6, <2>1, <2>2 DEF IdsOf
<1>11. TableOK(new)
  BY <1>6, <1>8, <1>9 DEF TableOK
<1> QED BY <1>6, <1>10, <1>11 DEF new

LEMMA MoveOK ==
    ASSUME NEW tab, TableOK(tab), NEW h \in Buckets, h >= 2
    PROVE  LET new == MoveNodes(tab, h)
           IN  /\ TableOK(new)
               /\ \A c \in Buckets \ {h, Parent(h)} : new.node_list[c] = tab.node_list[c]
               /\ new.rehashed = tab.rehashed /\ new.my_mask = tab.my_mask
               /\ new.segments = tab.segments /\ new.tls = tab.tls
<1> DEFINE new == MoveNodes(tab, h)
<1> DEFINE p == Parent(h)
<1> DEFINE mine == {n \in tab.node_list[p] : Masked(hasher[n.key], OwnMask(h)) = h}
<1> DEFINE lists == [tab.node_list EXCEPT ![h] = mine, ![p] = tab.node_list[p] \ mine]
<1>1. tab.node_list \in [Buckets -> SUBSET Node]
  BY DEF TableOK, TableType
<1>2. p \in Buckets /\ p # h
  <2>1. h \in Nat /\ p < h
    BY ParentBefore DEF Buckets
  <2> QED BY <2>1, ParentBefore DEF Buckets
<1>3. new = [tab EXCEPT !.node_list = lists]
  BY <1>1, <1>2 DEF MoveNodes, TableOK, TableType
<1> HIDE DEF p
<1>4. /\ lists \in [Buckets -> SUBSET Node]
      /\ lists[h] = mine /\ lists[p] = tab.node_list[p] \ mine
      /\ \A c \in Buckets \ {h, p} : lists[c] = tab.node_list[c]
  BY <1>1, <1>2
<1> HIDE DEF lists, new
<1>5. /\ TableType(new) /\ new.node_list = lists
      /\ new.rehashed = tab.rehashed /\ {0, 1} \subseteq new.durable /\ new.durable \subseteq new.rehashed
      /\ new.my_mask = tab.my_mask /\ new.segments = tab.segments /\ new.tls = tab.tls
      /\ new.tls.cached <= Len(new.tls.storage)
  BY <1>3, <1>4, NodeListsChanged
<1>6. \A n \in mine : n \in tab.node_list[p] /\ Masked(hasher[n.key], OwnMask(h)) = h
  OBVIOUS
<1> HIDE DEF mine
\* Where a node was before.
<1> DEFINE from(c) == IF c = h THEN p ELSE c
<1>7. \A c \in Buckets : from(c) \in Buckets /\ lists[c] \subseteq tab.node_list[from(c)]
  BY <1>2, <1>4, <1>6
<1>8. OneHome(new)
  <2>1. SUFFICES ASSUME NEW c \in Buckets, NEW d \in Buckets, NEW x \in lists[c], NEW y \in lists[d],
                        x.id = y.id
                 PROVE  c = d /\ x = y
    BY <1>5 DEF OneHome
  <2>2. from(c) = from(d) /\ x = y
    <3> HIDE DEF from
    <3> QED BY <1>7, <2>1 DEF TableOK, OneHome
  <2>3. CASE c = d
    BY <2>2, <2>3
  <2>4. CASE c # d
    <3>1. (c = h /\ d = p) \/ (c = p /\ d = h)
      BY <2>2, <2>4
    <3> QED BY <3>1, <2>2, <1>4
  <2> QED BY <2>3, <2>4
<1>9. Congruent(new)
  <2>1. SUFFICES ASSUME NEW b \in Buckets, NEW x \in lists[b]
                 PROVE  Masked(hasher[x.key], OwnMask(b)) = b
    BY <1>5 DEF Congruent
  <2>2. CASE b = h
    BY <2>2, <1>4, <1>6
  <2>3. CASE b # h
    <3>1. x \in tab.node_list[b]
      BY <2>3, <1>7
    <3> QED BY <3>1 DEF TableOK, Congruent
  <2> QED BY <2>2, <2>3
<1>10. TableOK(new)
  BY <1>5, <1>8, <1>9 DEF TableOK
<1> QED BY <1>4, <1>5, <1>10 DEF new, p

-----------------------------------------------------------------------------
(* Segments *)

LEMMA SameSegments ==
    ASSUME NEW tab, NEW tab2, tab2.my_mask = tab.my_mask, tab2.segments = tab.segments
    PROVE  AllInUse(tab2) = AllInUse(tab) /\ OneToPublish(tab2) = OneToPublish(tab)
  BY DEF AllInUse, OneToPublish

LEMMA EnableOK ==
    ASSUME NEW tab, TableOK(tab), NEW k
    PROVE  LET new == enable(tab, k)
           IN  /\ TableOK(new) /\ new.node_list = tab.node_list /\ new.rehashed = tab.rehashed
               /\ new.segments = tab.segments \cup (k .. LastEnabled(k))
               /\ new.my_mask = tab.my_mask /\ new.tls = tab.tls
<1> DEFINE new == enable(tab, k)
<1>1. /\ TableType(new) /\ new.node_list = tab.node_list /\ new.durable = tab.durable
      /\ new.rehashed = tab.rehashed /\ new.tls = tab.tls /\ new.my_mask = tab.my_mask
      /\ new.segments = tab.segments \cup (k .. LastEnabled(k))
  BY DEF TableOK, TableType, enable
<1> QED BY <1>1, SameNodes DEF TableOK

LEMMA MaskChanged ==
    ASSUME NEW tab, TableOK(tab), NEW m \in Nat
    PROVE  LET new == [tab EXCEPT !.my_mask = m]
           IN  /\ TableOK(new) /\ new.node_list = tab.node_list /\ new.rehashed = tab.rehashed
               /\ new.segments = tab.segments /\ new.my_mask = m /\ new.tls = tab.tls
<1> DEFINE new == [tab EXCEPT !.my_mask = m]
<1>1. /\ TableType(new) /\ new.node_list = tab.node_list /\ new.durable = tab.durable
      /\ new.rehashed = tab.rehashed /\ new.tls = tab.tls /\ new.my_mask = m
      /\ new.segments = tab.segments
  BY DEF TableOK, TableType
<1> HIDE DEF new
<1>2. TableOK(new)
  BY <1>1, SameNodes DEF TableOK
<1> QED BY <1>1, <1>2 DEF new

LEMMA ReserveOK ==
    ASSUME NEW tab, TableOK(tab), AllInUse(tab), NEW n \in 0 .. 2 ^ number_of_segments
    PROVE  TableOK(reserve(tab, n)) /\ AllInUse(reserve(tab, n))
           /\ reserve(tab, n).node_list = tab.node_list
<1>1. PICK j \in 0 .. (number_of_segments - 1) :
        Grown(j) /\ tab.my_mask = MaskOf(j) /\ tab.segments = 0 .. j
  BY DEF AllInUse, Grown
<1>2. CASE n <= tab.my_mask + 1
  BY <1>2 DEF reserve
<1>3. CASE ~(n <= tab.my_mask + 1)
  <2> DEFINE first == segment_index_of(tab.my_mask + 1)
  <2> DEFINE last == LastEnabled(segment_index_of(n - 1))
  <2> DEFINE enabled == [tab EXCEPT !.segments = @ \cup (first .. last), !.my_mask = NewMask(last)]
  <2>1. first = j + 1 /\ MaskOf(j) \in Nat /\ MaskOf(j) + 1 = 2 ^ (j + 1) /\ j + 1 \in Exponents
        /\ MaskOf(j) >= 1
    BY <1>1, SegmentOfNext, MaskFacts
  <2>2. segment_index_of(n - 1) \in (j + 1) .. (number_of_segments - 1)
    <3> DEFINE e == Log2(n - 1)
    <3>1. number_of_segments \in Exponents
      BY SegmentAssumption DEF Exponents
    <3>2. 2 ^ number_of_segments \in Nat /\ 2 ^ (j + 1) \in Nat
      BY <2>1, <3>1, Powers
    <3>3. n - 1 \in Nat /\ 2 ^ (j + 1) <= n - 1 /\ n - 1 < 2 ^ number_of_segments /\ 2 <= n - 1
      BY <1>1, <1>3, <2>1, <3>2
    <3>4. e \in 0 .. (number_of_segments - 1) /\ n - 1 < 2 ^ (e + 1)
      BY <3>1, <3>3, Log2Range
    <3> HIDE DEF e
    <3>5. e + 1 \in Exponents
      BY <3>4, SegmentAssumption DEF Exponents
    <3>6. j + 1 < e + 1
      <4>1. CASE e + 1 <= j + 1
        <5>1. 2 ^ (e + 1) <= 2 ^ (j + 1) /\ 2 ^ (e + 1) \in Nat
          BY <2>1, <3>5, <4>1, Powers, PowersGrow
        <5> QED BY <5>1, <3>2, <3>3, <3>4
      <4> QED BY <4>1, <3>4
    <3>7. segment_index_of(n - 1) = e
      BY <3>3 DEF segment_index_of, e
    <3> QED BY <3>4, <3>6, <3>7
  <2>3. /\ last \in (j + 1) .. (number_of_segments - 1) /\ last \in Nat /\ Grown(last)
        /\ NewMask(last) = MaskOf(last) /\ MaskOf(last) \in Nat
    <3> DEFINE s == segment_index_of(n - 1)
    <3>1. s \in 0 .. (number_of_segments - 1) /\ s >= j + 1
      BY <2>2
    <3> HIDE DEF s
    <3>2. LastEnabled(s) \in s .. (number_of_segments - 1) /\ Grown(LastEnabled(s))
          /\ LastEnabled(LastEnabled(s)) = LastEnabled(s)
      BY <3>1, EnabledSegments
    <3>3. LastEnabled(s) \in 0 .. (number_of_segments - 1)
      BY <3>1, <3>2
    <3>4. NewMask(LastEnabled(s)) = MaskOf(LastEnabled(s))
      BY <3>2, <3>3, EnabledSegments
    <3> QED BY <3>1, <3>2, <3>3, <3>4, MaskFacts DEF s
  <2> HIDE DEF first, last
  <2>4. /\ TableType(enabled) /\ enabled.node_list = tab.node_list /\ enabled.tls = tab.tls
        /\ enabled.durable = tab.durable /\ enabled.rehashed = tab.rehashed
        /\ enabled.my_mask = MaskOf(last)
        /\ enabled.segments = tab.segments \cup (first .. last)
    BY <2>3 DEF TableOK, TableType
  <2> HIDE DEF enabled
  <2>5. TableOK(enabled)
    BY <2>4, SameNodes DEF TableOK
  <2>6. enabled.segments = 0 .. last
    BY <1>1, <2>1, <2>3, <2>4
  <2>7. AllInUse(enabled)
    BY <2>3, <2>4, <2>6 DEF AllInUse
  <2> DEFINE marked == mark_rehashed(enabled, first .. last)
  <2>8. marked.node_list = enabled.node_list /\ marked.my_mask = enabled.my_mask
        /\ marked.segments = enabled.segments
    BY <2>5 DEF mark_rehashed, TableOK, TableType
  <2>9. TableOK(marked)
    BY <2>5, MarkRehashedOK
  <2>10. reserve(tab, n) = IF tab.my_size = 0 THEN marked ELSE enabled
    BY <1>3 DEF reserve, enabled, first, last
  <2> HIDE DEF marked
  <2>11. AllInUse(marked)
    BY <2>7, <2>8, SameSegments
  <2> QED BY <2>4, <2>5, <2>7, <2>8, <2>9, <2>10, <2>11
<1> QED BY <1>2, <1>3

LEMMA ClearTableOK ==
    ASSUME NEW tab, TableOK(tab), AllInUse(tab)
    PROVE  LET new == ClearTable(tab)
           IN  /\ TableOK(new) /\ AllInUse(new)
               /\ \A b \in Buckets : new.node_list[b] \subseteq tab.node_list[b]
<1>1. PICK j \in 0 .. (number_of_segments - 1) :
        Grown(j) /\ tab.my_mask = MaskOf(j) /\ tab.segments = 0 .. j
  BY DEF AllInUse, Grown
<1> DEFINE new == ClearTable(tab)
<1> DEFINE gone == UNION {BucketsOf(k) : k \in 1 .. j}
<1> DEFINE emptied == UNION {BucketsOf(k) : k \in 0 .. j}
<1> DEFINE lists == [b \in Buckets |-> IF b \in emptied THEN {} ELSE tab.node_list[b]]
<1>2. segment_index_of(tab.my_mask) = j
  BY <1>1, SegmentOfMask
<1>3. disable(tab, 1 .. j) = [tab EXCEPT !.segments = @ \ (1 .. j), !.rehashed = @ \ gone, !.durable = @ \ gone]
  BY DEF disable
<1>4. clear_segments(tab, j) = [disable(tab, 1 .. j) EXCEPT !.node_list = lists]
  <2>1. clear_segments(tab, j) =
          [disable(tab, 1 .. j) EXCEPT !.node_list =
              [b \in Buckets |-> IF b \in emptied THEN {} ELSE disable(tab, 1 .. j).node_list[b]]]
    BY DEF clear_segments, embedded_segments, disable, TableOK, TableType
  <2>2. disable(tab, 1 .. j).node_list = tab.node_list
    BY <1>3 DEF TableOK, TableType
  <2> QED BY <2>1, <2>2
<1>5. 0 \notin gone /\ 1 \notin gone
  BY LaterBuckets, SegmentAssumption
<1>6. lists \in [Buckets -> SUBSET Node] /\ \A b \in Buckets : lists[b] \subseteq tab.node_list[b]
  BY DEF TableOK, TableType
<1>7. embedded_buckets - 1 = 1 /\ MaskOf(0) = 1
  <2>1. 2 ^ 1 = 2 /\ 2 ^ (0 + 1) = 2
    OBVIOUS
  <2> QED BY <2>1 DEF embedded_buckets, embedded_segments, MaskOf
<1> HIDE DEF gone, emptied, lists
<1>8. new = [tab EXCEPT !.segments = tab.segments \ (1 .. j), !.rehashed = tab.rehashed \ gone,
                        !.durable = tab.durable \ gone, !.node_list = lists,
                        !.tls = clear(tab.tls), !.on_init_size = 0, !.my_mask = 1, !.my_size = 0]
  <2> DEFINE mid == clear_segments(tab, j)
  <2>1. mid = [tab EXCEPT !.segments = tab.segments \ (1 .. j), !.rehashed = tab.rehashed \ gone,
                        !.durable = tab.durable \ gone, !.node_list = lists]
    BY <1>3, <1>4 DEF TableOK, TableType
  <2>2. new = [mid EXCEPT !.tls = clear(@), !.on_init_size = 0, !.my_mask = 1, !.my_size = 0]
    BY <1>2, <1>7 DEF ClearTable
  <2> HIDE DEF mid, new
  <2> QED BY <2>1, <2>2 DEF TableOK, TableType
<1> HIDE DEF new
<1>9. /\ TableType(new) /\ new.node_list = lists /\ new.segments = tab.segments \ (1 .. j)
      /\ new.rehashed = tab.rehashed \ gone /\ new.durable = tab.durable \ gone
      /\ new.my_mask = 1 /\ new.tls = clear(tab.tls)
  BY <1>6, <1>8, ClearOK DEF TableOK, TableType, TlsOK
<1>10. /\ {0, 1} \subseteq new.durable /\ new.durable \subseteq new.rehashed
       /\ new.tls.cached <= Len(new.tls.storage)
  BY <1>5, <1>9, ClearOK DEF TableOK, TlsOK
<1>11. TableOK(new)
  BY <1>6, <1>9, <1>10, FewerNodes
<1>12. AllInUse(new)
  <2>1. new.segments = 0 .. 0
    BY <1>1, <1>9
  <2>2. Grown(0)
    BY SegmentAssumption DEF Grown
  <2> QED BY <2>1, <2>2, <1>7, <1>9 DEF AllInUse
<1> QED BY <1>6, <1>9, <1>11, <1>12 DEF new

LEMMA ConstructedOK ==
    TableOK(Constructed) /\ AllInUse(Constructed) /\ \A b \in Buckets : IdsOf(Constructed, b) = {}
<1>1. embedded_buckets - 1 = 1 /\ MaskOf(0) = 1
  <2>1. 2 ^ 1 = 2 /\ 2 ^ (0 + 1) = 2
    OBVIOUS
  <2> QED BY <2>1 DEF embedded_buckets, embedded_segments, MaskOf
<1>2. /\ Constructed.node_list = [b \in Buckets |-> {}] /\ Constructed.my_mask = 1
      /\ Constructed.segments = {0} /\ Constructed.rehashed = {0, 1} /\ Constructed.durable = {0, 1}
      /\ Constructed.tls = Construct
  BY <1>1, EmbeddedBuckets DEF Constructed
<1>3. TableType(Constructed)
  BY <1>1 DEF Constructed, TableType, Construct
<1>4. TableOK(Constructed)
  BY <1>2, <1>3 DEF TableOK, OneHome, Congruent, Construct
<1>5. AllInUse(Constructed)
  <2>1. {0} = 0 .. 0
    OBVIOUS
  <2> QED BY <1>1, <1>2, <2>1, SegmentAssumption DEF AllInUse, Grown
<1> QED BY <1>2, <1>4, <1>5 DEF IdsOf

-----------------------------------------------------------------------------
(* The elements of a list, each with an address that is not in use *)

LEMMA CopyOK ==
    ASSUME NEW tab, TableOK(tab), AllInUse(tab), NEW list \in Seq([key : Keys, val : Values]), NEW ids,
           \A i \in DOMAIN list : ids[i] \in NodeIds /\ \A c \in Buckets : ids[i] \notin IdsOf(tab, c),
           \A i, k \in DOMAIN list : ids[i] = ids[k] => i = k,
           NEW in_tx \in BOOLEAN, NEW thread \in Nat
    PROVE  LET new == internal_copy(tab, list, ids, in_tx, thread)
           IN  TableOK(new) /\ AllInUse(new)
<1> DEFINE node(i) == [id |-> ids[i], key |-> list[i].key, val |-> list[i].val]
<1> DEFINE of(b) == {i \in DOMAIN list : Masked(hasher[list[i].key], tab.my_mask) = b}
<1> DEFINE lists == [b \in Buckets |-> tab.node_list[b] \cup {node(i) : i \in of(b)}]
<1> DEFINE copied == [tab EXCEPT !.node_list = lists]
<1>1. tab.node_list \in [Buckets -> SUBSET Node]
  BY DEF TableOK, TableType
<1>2. copied = [tab EXCEPT !.node_list = [b \in Buckets |-> @[b] \cup {node(i) : i \in of(b)}]]
  BY DEF TableOK, TableType
<1>3. internal_copy(tab, list, ids, in_tx, thread) = CountNew(copied, Len(list), in_tx, thread)
  BY <1>2 DEF internal_copy
<1>4. \A i \in DOMAIN list : list[i] \in [key : Keys, val : Values]
  <2> DEFINE Element == [key : Keys, val : Values]
  <2>1. list \in Seq(Element)
    OBVIOUS
  <2> HIDE DEF Element
  <2>2. \A i \in DOMAIN list : list[i] \in Element
    BY <2>1
  <2> QED BY <2>2 DEF Element
<1>5. \A i \in DOMAIN list : node(i) \in Node /\ node(i).id = ids[i] /\ node(i).key = list[i].key
  BY <1>4 DEF Node
<1>6. \A b \in Buckets : \A i \in of(b) :
        i \in DOMAIN list /\ Masked(hasher[list[i].key], OwnMask(b)) = b
  <2>1. SUFFICES ASSUME NEW b \in Buckets, NEW i \in of(b)
                 PROVE  Masked(hasher[list[i].key], OwnMask(b)) = b
    OBVIOUS
  <2>2. hasher[list[i].key] \in Nat
    BY <1>4, HashAssumption
  <2>3. Masked(hasher[list[i].key], tab.my_mask) = b
    OBVIOUS
  <2> HIDE DEF of
  <2> QED BY <2>2, <2>3, MaskedBucket
<1>7. ASSUME NEW b \in Buckets, NEW c \in Buckets, NEW i \in of(b), i \in of(c) PROVE b = c
  BY <1>7
<1> HIDE DEF node, of
<1>8. lists \in [Buckets -> SUBSET Node]
  BY <1>1, <1>5, <1>6
<1>9. \A b \in Buckets : lists[b] = tab.node_list[b] \cup {node(i) : i \in of(b)}
  OBVIOUS
<1> HIDE DEF lists
<1>10. /\ TableType(copied) /\ copied.node_list = lists
       /\ {0, 1} \subseteq copied.durable /\ copied.durable \subseteq copied.rehashed
       /\ copied.my_mask = tab.my_mask /\ copied.segments = tab.segments
       /\ copied.tls.cached <= Len(copied.tls.storage)
  BY <1>8, NodeListsChanged
<1> HIDE DEF copied
<1>11. ASSUME NEW b \in Buckets, NEW x \in lists[b], x \notin tab.node_list[b]
       PROVE  \E i \in of(b) : x = node(i) /\ x.id = ids[i] /\ \A c \in Buckets : x.id \notin IdsOf(tab, c)
  BY <1>5, <1>6, <1>9, <1>11
<1>12. OneHome(copied)
  <2>1. SUFFICES ASSUME NEW c \in Buckets, NEW d \in Buckets, NEW x \in lists[c], NEW y \in lists[d],
                        x.id = y.id
                 PROVE  c = d /\ x = y
    BY <1>10 DEF OneHome
  <2>2. CASE x \in tab.node_list[c] /\ y \in tab.node_list[d]
    BY <2>1, <2>2 DEF TableOK, OneHome
  <2>3. CASE x \in tab.node_list[c] /\ y \notin tab.node_list[d]
    <3>1. x.id \notin IdsOf(tab, c)
      BY <1>11, <2>1, <2>3
    <3> QED BY <3>1, <2>3 DEF IdsOf
  <2>4. CASE x \notin tab.node_list[c] /\ y \in tab.node_list[d]
    <3>1. y.id \notin IdsOf(tab, d)
      BY <1>11, <2>1, <2>4
    <3> QED BY <3>1, <2>4 DEF IdsOf
  <2>5. CASE x \notin tab.node_list[c] /\ y \notin tab.node_list[d]
    <3>1. PICK i \in of(c) : x = node(i) /\ x.id = ids[i]
      BY <1>11, <2>5
    <3>2. PICK k \in of(d) : y = node(k) /\ y.id = ids[k]
      BY <1>11, <2>5
    <3>3. i = k
      BY <1>6, <2>1, <3>1, <3>2
    <3> QED BY <1>7, <3>1, <3>2, <3>3
  <2> QED BY <2>2, <2>3, <2>4, <2>5
<1>13. Congruent(copied)
  <2>1. SUFFICES ASSUME NEW b \in Buckets, NEW x \in lists[b]
                 PROVE  Masked(hasher[x.key], OwnMask(b)) = b
    BY <1>10 DEF Congruent
  <2>2. CASE x \in tab.node_list[b]
    BY <2>2 DEF TableOK, Congruent
  <2>3. CASE x \notin tab.node_list[b]
    <3>1. PICK i \in of(b) : x = node(i)
      BY <1>11, <2>3
    <3> QED BY <3>1, <1>5, <1>6
  <2> QED BY <2>2, <2>3
<1>14. TableOK(copied) /\ AllInUse(copied)
  BY <1>10, <1>12, <1>13, SameSegments DEF TableOK
<1>15. Len(list) \in Nat
  OBVIOUS
<1> DEFINE new == CountNew(copied, Len(list), in_tx, thread)
<1>16. TableOK(new) /\ new.my_mask = copied.my_mask /\ new.segments = copied.segments
  BY <1>14, <1>15, CountNewOK
<1> HIDE DEF new
<1>17. AllInUse(new)
  BY <1>14, <1>16, SameSegments
<1> QED BY <1>3, <1>16, <1>17 DEF new

-----------------------------------------------------------------------------
(* rehash(sz) *)

LEMMA RehashBucketOK ==
    ASSUME NEW tab, TableOK(tab), AllInUse(tab), NEW h \in Buckets, h >= 2
    PROVE  TableOK(rehash_bucket(tab, h)) /\ AllInUse(rehash_bucket(tab, h))
<1> DEFINE moved == IF MovedBeforeCrash(tab, h) THEN tab ELSE MoveNodes(tab, h)
<1>1. TableOK(moved) /\ moved.my_mask = tab.my_mask /\ moved.segments = tab.segments
  BY MoveOK
<1> HIDE DEF moved
<1> DEFINE flagged == set_rehashed(moved, h)
<1>2. TableOK(flagged)
  BY <1>1, SetRehashedOK
<1>3. flagged.my_mask = moved.my_mask /\ flagged.segments = moved.segments
  BY <1>1 DEF set_rehashed, TableOK, TableType
<1> HIDE DEF flagged
<1> DEFINE new == persist_rehashed(flagged, h)
<1>4. TableOK(new)
  BY <1>2, PersistRehashedOK
<1>5. new.my_mask = flagged.my_mask /\ new.segments = flagged.segments
  BY <1>2 DEF persist_rehashed, TableOK, TableType
<1>6. rehash_bucket(tab, h) = new
  BY DEF rehash_bucket, moved, flagged
<1> HIDE DEF new
<1>7. AllInUse(new)
  BY <1>1, <1>3, <1>5, SameSegments
<1> QED BY <1>4, <1>6, <1>7

\* The equation of the function that goes through the buckets one by one, and
Scan(first, pending, N, f) ==
    [n \in 0 .. N |-> IF n = 0 THEN first
                      ELSE IF n - 1 \in pending THEN rehash_bucket(f[n - 1], n - 1)
                      ELSE f[n - 1]]

\* its solution: there is no first point that it cannot reach.
LEMMA DoneExists ==
    ASSUME NEW first, NEW pending, NEW N \in Nat
    PROVE  \E f : f = Scan(first, pending, N, f)
<1> DEFINE next(t, n) == IF n \in pending THEN rehash_bucket(t, n) ELSE t
<1> DEFINE Reaches(f, k) == f = [n \in 0 .. k |-> IF n = 0 THEN first ELSE next(f[n - 1], n - 1)]
<1> DEFINE T == {k \in Nat : ~\E f : Reaches(f, k)}
<1>1. SUFFICES T = {}
  <2>1. PICK f : Reaches(f, N)
    BY <1>1
  <2>2. f = Scan(first, pending, N, f)
    BY <2>1 DEF Scan
  <2> QED BY <2>2
<1>2. SUFFICES ASSUME T # {} PROVE FALSE
  OBVIOUS
<1> HIDE DEF next
<1>3. PICK k \in T : \A y \in T : k <= y
  <2>1. T \in SUBSET Nat
    OBVIOUS
  <2> HIDE DEF T
  <2> QED BY <1>2, <2>1, LeastOf
<1>4. k # 0
  <2> DEFINE f == [n \in 0 .. 0 |-> first]
  <2>1. Reaches(f, 0)
    OBVIOUS
  <2> HIDE DEF Reaches
  <2> QED BY <2>1, <1>3
<1>5. k \in Nat /\ k - 1 \in Nat /\ k - 1 \notin T
  BY <1>3, <1>4
<1>6. PICK f : Reaches(f, k - 1)
  BY <1>5
<1> DEFINE g == [n \in 0 .. k |-> IF n = k THEN next(f[k - 1], k - 1) ELSE f[n]]
<1>7. \A n \in 0 .. k : g[n] = IF n = 0 THEN first ELSE next(g[n - 1], n - 1)
  <2>1. SUFFICES ASSUME NEW n \in 0 .. k
                 PROVE  g[n] = IF n = 0 THEN first ELSE next(g[n - 1], n - 1)
    OBVIOUS
  <2>2. CASE n = k
    <3>1. g[k - 1] = f[k - 1]
      BY <1>5
    <3> QED BY <3>1, <2>2, <1>4, <1>5
  <2>3. CASE n # k
    <3>1. n \in 0 .. (k - 1)
      BY <2>3, <1>5
    <3>2. f[n] = IF n = 0 THEN first ELSE next(f[n - 1], n - 1)
      BY <3>1, <1>6
    <3>3. g[n] = f[n]
      BY <2>3
    <3>4. n # 0 => g[n - 1] = f[n - 1]
      BY <3>1, <1>5
    <3> QED BY <3>2, <3>3, <3>4
  <2> QED BY <2>2, <2>3
<1>8. Reaches(g, k)
  <2>1. g = [n \in 0 .. k |-> g[n]]
    OBVIOUS
  <2> HIDE DEF g
  <2>2. [n \in 0 .. k |-> g[n]] = [n \in 0 .. k |-> IF n = 0 THEN first ELSE next(g[n - 1], n - 1)]
    BY <1>7
  <2> QED BY <2>1, <2>2
<1> HIDE DEF Reaches
<1> QED BY <1>8, <1>3

LEMMA RehashOK ==
    ASSUME NEW tab, TableOK(tab), AllInUse(tab), NEW sz \in 0 .. 2 ^ number_of_segments
    PROVE  TableOK(rehash(tab, sz)) /\ AllInUse(rehash(tab, sz))
<1> DEFINE r == reserve(tab, sz)
<1>1. TableOK(r) /\ AllInUse(r)
  BY ReserveOK
<1> HIDE DEF r
<1> DEFINE scanned == {b \in Buckets : (r.my_mask + 1) \div 2 <= b /\ b <= r.my_mask}
<1> DEFINE pending == UNION {Pending(r, b) : b \in scanned}
<1> DEFINE N == 2 ^ number_of_segments
<1> DEFINE done == CHOOSE f : f = Scan(r, pending, N, f)
<1>2. N \in Nat
  BY Powers, SegmentAssumption DEF Exponents
<1>3. rehash(tab, sz) = done[N]
  BY DEF rehash, r, Scan
<1>4. \A h \in pending : h \notin r.rehashed
  BY DEF Pending
<1>5. Buckets = 0 .. (N - 1)
  BY DEF Buckets
<1> HIDE DEF pending, N
<1>6. done = Scan(r, pending, N, done)
  <2>1. \E f : f = Scan(r, pending, N, f)
    BY <1>2, DoneExists
  <2> QED BY <2>1
<1>7. \A n \in 0 .. N : done[n] = IF n = 0 THEN r
                                  ELSE IF n - 1 \in pending THEN rehash_bucket(done[n - 1], n - 1)
                                  ELSE done[n - 1]
  <2> HIDE DEF done
  <2> QED BY <1>6 DEF Scan
<1> HIDE DEF done
<1> DEFINE Good(n) == TableOK(done[n]) /\ AllInUse(done[n])
<1> DEFINE T == {n \in 0 .. N : ~Good(n)}
<1>8. SUFFICES T = {}
  BY <1>2, <1>3
<1>9. SUFFICES ASSUME T # {} PROVE FALSE
  OBVIOUS
<1>10. PICK n \in T : \A y \in T : n <= y
  <2>1. T \in SUBSET Nat
    BY <1>2
  <2> HIDE DEF T
  <2> QED BY <1>9, <2>1, LeastOf
<1>11. n \in 0 .. N /\ ~Good(n)
  BY <1>10
<1>12. n # 0
  BY <1>1, <1>2, <1>7, <1>11
<1>13. n - 1 \in 0 .. N /\ Good(n - 1) /\ n - 1 \in Buckets
  BY <1>2, <1>5, <1>10, <1>11, <1>12
<1>14. CASE n - 1 \in pending
  <2>1. n - 1 >= 2
    <3>1. n - 1 \notin {0, 1}
      BY <1>1, <1>4, <1>14 DEF TableOK
    <3> QED BY <3>1, <1>2, <1>13
  <2>2. done[n] = rehash_bucket(done[n - 1], n - 1)
    BY <1>7, <1>11, <1>12, <1>14
  <2> QED BY <2>1, <2>2, <1>11, <1>13, RehashBucketOK
<1>15. CASE n - 1 \notin pending
  <2>1. done[n] = done[n - 1]
    BY <1>7, <1>11, <1>12, <1>15
  <2> QED BY <2>1, <1>11, <1>13
<1> QED BY <1>14, <1>15

-----------------------------------------------------------------------------
(* Exchange of two maps, and restart *)

LEMMA SwapOK ==
    ASSUME NEW a, TableOK(a), NEW b, TableOK(b), AllInUse(b)
    PROVE  TableOK(internal_swap(a, b)) /\ AllInUse(internal_swap(a, b))
<1> DEFINE new == internal_swap(a, b)
<1>1. /\ TableType(new) /\ new.node_list = b.node_list /\ new.my_mask = b.my_mask
      /\ new.rehashed = BucketsOf(0) \cup b.rehashed /\ new.durable = BucketsOf(0) \cup b.durable
      /\ new.segments = b.segments /\ new.tls = b.tls
  BY DEF internal_swap, TableOK, TableType
<1> HIDE DEF new
<1>2. TableOK(new)
  BY <1>1, SameNodes DEF TableOK
<1>3. AllInUse(new)
  BY <1>1, SameSegments
<1> QED BY <1>2, <1>3 DEF new

LEMMA SwapUndoneOK ==
    ASSUME NEW a, NEW b, TableOK(b), AllInUse(b), a.my_mask = b.my_mask
    PROVE  TableOK(SwapUndone(a, b)) /\ AllInUse(SwapUndone(a, b))
<1> DEFINE new == SwapUndone(a, b)
<1>1. /\ TableType(new) /\ new.node_list = b.node_list /\ new.my_mask = b.my_mask
      /\ new.rehashed = b.rehashed /\ new.durable = b.durable
      /\ new.segments = b.segments /\ new.tls = b.tls
  BY DEF SwapUndone, TableOK, TableType
<1> HIDE DEF new
<1>2. TableOK(new)
  BY <1>1, SameNodes DEF TableOK
<1>3. AllInUse(new)
  BY <1>1, SameSegments
<1> QED BY <1>2, <1>3 DEF new

LEMMA CalculateMaskOK ==
    ASSUME NEW tab, TableOK(tab), AllInUse(tab) \/ OneToPublish(tab)
    PROVE  TableOK(calculate_mask(tab)) /\ AllInUse(calculate_mask(tab))
<1>1. PICK j \in 0 .. (number_of_segments - 1) : Grown(j) /\ tab.segments = 0 .. j
  <2>1. CASE AllInUse(tab)
    BY <2>1 DEF AllInUse, Grown
  <2>2. CASE OneToPublish(tab)
    <3>1. PICK k \in Nat : k + 1 < number_of_segments /\ tab.segments = 0 .. LastEnabled(k + 1)
      BY <2>2 DEF OneToPublish
    <3>2. k + 1 \in 0 .. (number_of_segments - 1)
      <4>1. number_of_segments \in Nat
        BY SegmentAssumption
      <4>2. k + 1 < number_of_segments
        BY <3>1
      <4> QED BY <4>1, <4>2
    <3>3. Grown(LastEnabled(k + 1)) /\ LastEnabled(k + 1) \in 0 .. (number_of_segments - 1)
      BY <3>2, EnabledSegments
    <3> QED BY <3>1, <3>3
  <2> QED BY <2>1, <2>2
<1> DEFINE IsLast(k) == k + 1 \notin tab.segments /\ \A i \in 0 .. k : i \in tab.segments
<1>2. j \in 0 .. number_of_segments /\ IsLast(j)
  BY <1>1, SegmentAssumption
<1>3. ASSUME NEW k \in 0 .. number_of_segments, IsLast(k) PROVE k = j
  <2>1. ~(k < j)
    <3>1. SUFFICES ASSUME k < j PROVE FALSE
      OBVIOUS
    <3>2. k + 1 \in 0 .. j
      BY <3>1
    <3> QED BY <3>2, <1>1, <1>3
  <2>2. ~(j < k)
    <3>1. SUFFICES ASSUME j < k PROVE FALSE
      OBVIOUS
    <3>2. j + 1 \in 0 .. k
      BY <3>1
    <3> QED BY <3>2, <1>1, <1>3
  <2> QED BY <2>1, <2>2
<1>4. calculate_mask(tab) = [tab EXCEPT !.my_mask = MaskOf(j)]
  <2>1. (CHOOSE k \in 0 .. number_of_segments : IsLast(k)) = j
    <3> HIDE DEF IsLast
    <3> QED BY <1>2, <1>3
  <2> QED BY <2>1 DEF calculate_mask, MaskOf, segment_size
<1>5. MaskOf(j) \in Nat
  BY MaskFacts
<1> DEFINE new == [tab EXCEPT !.my_mask = MaskOf(j)]
<1>6. TableOK(new) /\ new.my_mask = MaskOf(j) /\ new.segments = tab.segments
  BY <1>5, MaskChanged
<1> HIDE DEF new
<1>7. AllInUse(new)
  BY <1>1, <1>6 DEF AllInUse
<1> QED BY <1>4, <1>6, <1>7 DEF new

LEMMA InitializeOK ==
    ASSUME NEW tab, TableOK(tab), AllInUse(tab) \/ OneToPublish(tab)
    PROVE  TableOK(runtime_initialize(tab)) /\ AllInUse(runtime_initialize(tab))
<1> DEFINE m == calculate_mask(tab)
<1>1. TableOK(m) /\ AllInUse(m)
  BY CalculateMaskOK
<1> HIDE DEF m
<1> DEFINE new == runtime_initialize(tab)
<1>2. PICK size, size0, kept :
        new = [m EXCEPT !.tls = clear(m.tls), !.my_size = size, !.on_init_size = size0, !.consistent = kept]
  <2>1. CASE m.consistent
    <3>1. new = tls_restore(m)
      BY <2>1 DEF runtime_initialize, m
    <3> DEFINE total == m.on_init_size + Total(m.tls)
    <3>2. new = [m EXCEPT !.on_init_size = total, !.tls = clear(@), !.my_size = total]
      BY <3>1 DEF tls_restore
    <3> HIDE DEF total, new
    <3>3. new = [m EXCEPT !.tls = clear(m.tls), !.my_size = total, !.on_init_size = total,
                          !.consistent = m.consistent]
      BY <3>2, <1>1 DEF TableOK, TableType
    <3> QED BY <3>3
  <2>2. CASE ~m.consistent
    <3>1. new = CountElements(m)
      BY <2>2 DEF runtime_initialize, m
    <3>2. new = [m EXCEPT !.my_size = distance(m), !.on_init_size = distance(m), !.tls = clear(@),
                          !.consistent = TRUE]
      BY <3>1 DEF CountElements
    <3> HIDE DEF new
    <3>3. new = [m EXCEPT !.tls = clear(m.tls), !.my_size = distance(m), !.on_init_size = distance(m),
                          !.consistent = TRUE]
      BY <3>2, <1>1 DEF TableOK, TableType
    <3> QED BY <3>3
  <2> QED BY <2>1, <2>2
<1> HIDE DEF new
<1> DEFINE e == clear(m.tls)
<1>3. TlsOK(e)
  BY ClearOK
<1> HIDE DEF e
<1>4. new = [m EXCEPT !.tls = e, !.my_size = size, !.on_init_size = size0, !.consistent = kept]
  BY <1>2 DEF e
<1>5. TableOK(new)
  BY <1>1, <1>3, <1>4, SameTable
<1>6. new.my_mask = m.my_mask /\ new.segments = m.segments
  BY <1>1, <1>4 DEF TableOK, TableType
<1>7. AllInUse(new)
  BY <1>1, <1>6, SameSegments
<1> QED BY <1>5, <1>7 DEF new

-----------------------------------------------------------------------------
(* The chain of a hash code: the buckets that some mask leads to for it,     *)
(* each split off the one before it                                          *)

OfChain(h, b) == Masked(h, OwnMask(b)) = b

\* The number of bits that tell a bucket of its chain.
BitsOf(b) == IF b = 0 THEN 1 ELSE Log2(b) + 1

LEMMA BitsFacts ==
    ASSUME NEW b \in Buckets
    PROVE  /\ BitsOf(b) \in Exponents /\ BitsOf(b) \in 1 .. number_of_segments
           /\ b \in 0 .. (2 ^ BitsOf(b) - 1) /\ 2 ^ BitsOf(b) \in Nat \ {0}
           /\ \A h \in Nat : OfChain(h, b) <=> h % 2 ^ BitsOf(b) = b
<1>1. number_of_segments \in Exponents /\ 1 \in Exponents /\ number_of_segments >= 1
  BY SegmentAssumption DEF Exponents
<1>2. b \in Nat /\ b < 2 ^ number_of_segments /\ 2 ^ number_of_segments \in Nat
  BY <1>1, Powers DEF Buckets
<1>3. /\ BitsOf(b) \in Exponents /\ BitsOf(b) \in 1 .. number_of_segments
      /\ b \in 0 .. (2 ^ BitsOf(b) - 1) /\ 2 ^ BitsOf(b) \in Nat \ {0}
  <2>1. CASE b = 0
    <3>1. BitsOf(b) = 1
      BY <2>1 DEF BitsOf
    <3>2. 2 ^ BitsOf(b) = 2
      BY <3>1
    <3> HIDE DEF BitsOf
    <3>3. BitsOf(b) \in Exponents /\ BitsOf(b) \in 1 .. number_of_segments
      BY <3>1, <1>1, SegmentAssumption
    <3> QED BY <2>1, <3>2, <3>3
  <2>2. CASE b # 0
    <3>1. Log2(b) \in 0 .. (number_of_segments - 1) /\ b < 2 ^ (Log2(b) + 1)
      BY <1>1, <1>2, <2>2, Log2Range
    <3>2. Log2(b) + 1 \in Exponents /\ Log2(b) + 1 \in 1 .. number_of_segments
      BY <3>1, SegmentAssumption DEF Exponents
    <3>3. 2 ^ (Log2(b) + 1) \in Nat \ {0}
      BY <3>2, Powers
    <3> QED BY <3>1, <3>2, <3>3, <2>2, <1>2 DEF BitsOf
  <2> QED BY <2>1, <2>2
<1>4. OwnMask(b) + 1 = 2 ^ BitsOf(b)
  <2>1. CASE b = 0
    BY <2>1 DEF OwnMask, BitsOf
  <2>2. CASE b # 0
    BY <2>2, <1>3 DEF OwnMask, BitsOf
  <2> QED BY <2>1, <2>2
<1> QED BY <1>3, <1>4 DEF OfChain, Masked

\* The buckets that split off another one.
LEMMA ParentFacts ==
    ASSUME NEW b \in Buckets, b >= 2
    PROVE  /\ Parent(b) \in Buckets /\ Parent(b) < b
           /\ BitsOf(b) - 1 \in Exponents /\ BitsOf(b) - 1 \in 1 .. (number_of_segments - 1)
           /\ 2 ^ (BitsOf(b) - 1) \in Nat \ {0} /\ 2 ^ (BitsOf(b) - 1) <= b
           /\ Parent(b) = b % 2 ^ (BitsOf(b) - 1)
           /\ \A h \in Nat : OfChain(h, b) => Parent(b) = h % 2 ^ (BitsOf(b) - 1)
<1>1. number_of_segments \in Exponents
  BY SegmentAssumption DEF Exponents
<1>2. b \in Nat /\ b < 2 ^ number_of_segments /\ 2 ^ number_of_segments \in Nat
  BY <1>1, Powers DEF Buckets
<1>3. Log2(b) \in 0 .. (number_of_segments - 1) /\ 2 ^ Log2(b) <= b /\ b < 2 ^ (Log2(b) + 1)
  BY <1>1, <1>2, Log2Range
<1>4. Log2(b) # 0
  <2>1. ASSUME Log2(b) = 0 PROVE 2 ^ (Log2(b) + 1) = 2
    BY <2>1
  <2> QED BY <2>1, <1>2, <1>3
<1>5. BitsOf(b) - 1 = Log2(b)
  BY <1>3 DEF BitsOf
<1>6. Log2(b) \in Exponents /\ Log2(b) \in 1 .. (number_of_segments - 1) /\ 2 ^ Log2(b) \in Nat \ {0}
  <2>1. Log2(b) \in Exponents
    BY <1>3, SegmentAssumption DEF Exponents
  <2> QED BY <2>1, <1>3, <1>4, Powers
<1>7. Parent(b) = b % 2 ^ Log2(b)
  BY <1>6 DEF Parent, Masked
<1>8. ASSUME NEW h \in Nat, OfChain(h, b) PROVE Parent(b) = h % 2 ^ Log2(b)
  <2>1. h % 2 ^ BitsOf(b) = b /\ BitsOf(b) \in Exponents
    BY <1>8, BitsFacts
  <2>2. (h % 2 ^ BitsOf(b)) % 2 ^ Log2(b) = h % 2 ^ Log2(b)
    <3>1. Log2(b) <= BitsOf(b)
      BY <1>5, <1>6, <2>1 DEF Exponents
    <3> QED BY <3>1, <2>1, <1>6, MaskMask
  <2> QED BY <2>1, <2>2, <1>7
<1> QED BY <1>3, <1>5, <1>6, <1>7, <1>8, ParentBefore

LEMMA ParentOfChain ==
    ASSUME NEW b \in Buckets, b >= 2, NEW h \in Nat, OfChain(h, b)
    PROVE  OfChain(h, Parent(b))
<1> DEFINE j == BitsOf(b) - 2
<1>1. j \in 0 .. (number_of_segments - 1) /\ j + 1 = BitsOf(b) - 1
  BY ParentFacts, BitsFacts, SegmentAssumption
<1>2. Parent(b) = h % 2 ^ (j + 1)
  BY <1>1, ParentFacts
<1> HIDE DEF j
<1>3. Parent(b) = Masked(h, MaskOf(j))
  BY <1>1, <1>2, MaskedRange
<1> QED BY <1>1, <1>3, OwnMaskFits DEF OfChain

\* Of two buckets of a chain, the first is the other's parent or before that.
LEMMA ChainOrder ==
    ASSUME NEW h \in Nat, NEW b \in Buckets, NEW c \in Buckets, OfChain(h, b), OfChain(h, c), b < c
    PROVE  c >= 2 /\ b <= Parent(c)
<1>1. b \in Nat /\ c \in Nat
  BY BucketsAreNumbers
<1>2. /\ h % 2 ^ BitsOf(b) = b /\ BitsOf(b) \in Exponents /\ BitsOf(b) >= 1
      /\ h % 2 ^ BitsOf(c) = c /\ BitsOf(c) \in Exponents
      /\ b < 2 ^ BitsOf(b) /\ 2 ^ BitsOf(b) \in Nat
  BY BitsFacts, SegmentAssumption
<1>3. BitsOf(b) < BitsOf(c)
  <2>1. SUFFICES ASSUME BitsOf(c) <= BitsOf(b) PROVE FALSE
    BY <1>2 DEF Exponents
  <2>2. (h % 2 ^ BitsOf(b)) % 2 ^ BitsOf(c) = h % 2 ^ BitsOf(c)
    BY <2>1, <1>2, MaskMask
  <2>3. c = b % 2 ^ BitsOf(c)
    BY <2>2, <1>2
  <2>4. c <= b
    <3> DEFINE m == 2 ^ BitsOf(c)
    <3>1. m \in Nat \ {0}
      BY BitsFacts
    <3> HIDE DEF m
    <3>2. b % m <= b
      <4>1. b % m \in 0 .. (m - 1) /\ b \div m \in Nat /\ b = m * (b \div m) + (b % m)
        BY <3>1, <1>1, DivMod
      <4>2. PICK q, r : q = b \div m /\ r = b % m
        OBVIOUS
      <4>3. q \in Nat /\ r \in Nat /\ b = m * q + r
        BY <4>1, <4>2
      <4>4. m * q \in Nat
        BY <3>1, <4>3
      <4>5. r <= b
        BY <4>3, <4>4, <1>1
      <4> QED BY <4>2, <4>5
    <3> QED BY <3>2, <2>3 DEF m
  <2> QED BY <2>4, <1>1
<1>4. c >= 2
  <2>1. SUFFICES ASSUME c < 2 PROVE FALSE
    BY <1>1
  <2>2. c = 1 /\ b = 0
    BY <2>1, <1>1
  <2>3. Log2(1) = 0
    <3>1. 2 ^ 0 = 1 /\ 2 ^ (0 + 1) = 2 /\ 0 \in 0 .. 32
      OBVIOUS
    <3> QED BY <3>1, Log2Is
  <2>4. BitsOf(c) = 1 /\ BitsOf(b) = 1
    BY <2>2, <2>3 DEF BitsOf
  <2> QED BY <2>4, <1>3
<1>5. BitsOf(b) <= BitsOf(c) - 1 /\ BitsOf(c) - 1 \in Exponents /\ Parent(c) = h % 2 ^ (BitsOf(c) - 1)
      /\ Parent(c) \in Nat
  BY <1>2, <1>3, <1>4, ParentFacts, BucketsAreNumbers DEF Exponents
<1>6. Parent(c) % 2 ^ BitsOf(b) = b
  BY <1>2, <1>5, MaskMask
<1> DEFINE m == 2 ^ BitsOf(b)
<1>7. m \in Nat \ {0} /\ Parent(c) % m = b
  BY <1>6, BitsFacts
<1> HIDE DEF m
<1>8. b <= Parent(c)
  <2>1. Parent(c) % m \in 0 .. (m - 1) /\ Parent(c) \div m \in Nat /\ Parent(c) = m * (Parent(c) \div m) + (Parent(c) % m)
    BY <1>7, <1>5, DivMod
  <2>2. PICK q : q = Parent(c) \div m
    OBVIOUS
  <2>3. q \in Nat /\ Parent(c) = m * q + b
    BY <2>1, <2>2, <1>7
  <2>4. m * q \in Nat
    BY <2>3, <1>7
  <2> QED BY <2>3, <2>4, <1>1
<1> QED BY <1>4, <1>8

\* What a mask leads to is of the chain, and no bucket in use comes after it.
LEMMA ChainOfMask ==
    ASSUME NEW h \in Nat, NEW j \in 0 .. (number_of_segments - 1)
    PROVE  /\ Masked(h, MaskOf(j)) \in Buckets /\ Masked(h, MaskOf(j)) <= MaskOf(j)
           /\ OfChain(h, Masked(h, MaskOf(j)))
           /\ \A c \in Buckets : OfChain(h, c) /\ c <= MaskOf(j) => c <= Masked(h, MaskOf(j))
<1> DEFINE b == Masked(h, MaskOf(j))
<1>1. b \in 0 .. MaskOf(j) /\ b \in Buckets /\ OfChain(h, b)
  BY MaskedRange, MaskFacts, OwnMaskFits DEF OfChain
<1>2. ASSUME NEW c \in Buckets, OfChain(h, c), c <= MaskOf(j) PROVE c <= b
  <2>1. b \in Nat /\ c \in Nat
    BY <1>1, BucketsAreNumbers
  <2>2. SUFFICES ASSUME b < c PROVE FALSE
    BY <2>1
  <2> HIDE DEF b
  <2>3. c >= 2 /\ BitsOf(c) - 1 \in Exponents /\ 2 ^ (BitsOf(c) - 1) \in Nat /\ 2 ^ (BitsOf(c) - 1) <= c
    BY <1>1, <1>2, <2>2, ChainOrder, ParentFacts
  <2>4. j + 1 \in Exponents /\ MaskOf(j) + 1 = 2 ^ (j + 1) /\ MaskOf(j) \in Nat /\ b = h % 2 ^ (j + 1)
    BY MaskFacts, MaskedRange DEF b
  <2>5. c = h % 2 ^ BitsOf(c) /\ BitsOf(c) \in Exponents
    BY <1>2, BitsFacts
  <2>6. BitsOf(c) <= j + 1
    <3>1. SUFFICES ASSUME j + 1 <= BitsOf(c) - 1 PROVE FALSE
      BY <2>4, <2>5 DEF Exponents
    <3>2. 2 ^ (j + 1) <= 2 ^ (BitsOf(c) - 1)
      BY <3>1, <2>3, <2>4, PowersGrow
    <3> QED BY <3>2, <2>1, <2>3, <2>4, <1>2
  <2>7. b % 2 ^ BitsOf(c) = c
    BY <2>4, <2>5, <2>6, MaskMask
  <2> DEFINE m == 2 ^ BitsOf(c)
  <2>8. m \in Nat \ {0} /\ b % m = c
    BY <2>7, BitsFacts
  <2> HIDE DEF m
  <2>9. b % m \in 0 .. (m - 1) /\ b \div m \in Nat /\ b = m * (b \div m) + (b % m)
    BY <2>8, <2>1, DivMod
  <2>10. PICK q : q = b \div m
    OBVIOUS
  <2>11. q \in Nat /\ b = m * q + c
    BY <2>8, <2>9, <2>10
  <2>12. m * q \in Nat
    BY <2>11, <2>8
  <2> QED BY <2>2, <2>11, <2>12, <2>1
<1> QED BY <1>1, <1>2, MaskFacts

\* A bit of a hash code, and the bits below it.
LEMMA Bit ==
    ASSUME NEW h \in Nat, NEW e \in Exponents, e < 33
    PROVE  /\ h % 2 ^ (e + 1) < 2 ^ e => (h \div 2 ^ e) % 2 = 0
           /\ h % 2 ^ (e + 1) >= 2 ^ e => (h \div 2 ^ e) % 2 = 1
<1> DEFINE m == 2 ^ e
<1>1. m \in Nat \ {0} /\ 2 ^ (e + 1) = m * 2
  BY Powers
<1> HIDE DEF m
<1> DEFINE q == h \div m
<1> DEFINE r == h % m
<1>2. r \in 0 .. (m - 1) /\ q \in Nat /\ h = m * q + r
  BY <1>1, DivMod
<1> HIDE DEF q, r
<1> DEFINE p == q \div 2
<1> DEFINE s == q % 2
<1>3. s \in 0 .. 1 /\ p \in Nat /\ q = 2 * p + s
  <2>1. 2 \in Nat \ {0}
    OBVIOUS
  <2> QED BY <1>2, <2>1, DivMod
<1> HIDE DEF p, s
<1>4. h = (m * 2) * p + (m * s + r)
  <2>1. m * q = m * (2 * p) + m * s
    BY <1>1, <1>3
  <2>2. m * (2 * p) = (m * 2) * p
    BY <1>1, <1>3
  <2>3. m * (2 * p) \in Nat /\ m * s \in Nat
    BY <1>1, <1>3
  <2> QED BY <2>1, <2>2, <2>3, <1>2
<1>5. m * s + r \in 0 .. (m * 2 - 1)
  <2>1. CASE s = 0
    BY <2>1, <1>1, <1>2
  <2>2. CASE s = 1
    BY <2>2, <1>1, <1>2
  <2> QED BY <2>1, <2>2, <1>3
<1>6. h % (m * 2) = m * s + r
  <2> DEFINE n == m * 2
  <2> DEFINE y == m * s + r
  <2>1. n \in Nat \ {0} /\ y \in 0 .. (n - 1) /\ h = n * p + y
    BY <1>1, <1>4, <1>5
  <2> HIDE DEF n, y
  <2>2. h % n = y
    BY <2>1, <1>3, ModUnique
  <2> QED BY <2>2 DEF n, y
<1>7. m * s + r < m => s = 0
  BY <1>1, <1>2, <1>3
<1>8. m * s + r >= m => s = 1
  BY <1>1, <1>2, <1>3
<1> QED BY <1>1, <1>6, <1>7, <1>8 DEF s, q, m

\* A mask that leads to a later bucket shows a race once the first one that comes
\* after the bucket of the old mask is rehashed.
LEMMA RaceSeen ==
    ASSUME NEW h \in Nat, NEW i \in 0 .. (number_of_segments - 1), NEW j \in 0 .. (number_of_segments - 1),
           NEW tab, tab.my_mask = MaskOf(j),
           NEW c \in Buckets, OfChain(h, c), c <= MaskOf(j), Masked(h, MaskOf(i)) < c,
           Parent(c) = Masked(h, MaskOf(i)), c \in tab.rehashed
    PROVE  check_mask_race(tab, h, MaskOf(i))
<1> DEFINE b == Masked(h, MaskOf(i))
<1>1. b \in Buckets /\ b \in Nat /\ c \in Nat /\ OfChain(h, b) /\ b <= MaskOf(i) /\ MaskOf(i) < c
      /\ MaskOf(i) \in Nat
  <2>1. b \in Buckets /\ OfChain(h, b) /\ b <= MaskOf(i) /\ (c <= MaskOf(i) => c <= b)
    BY ChainOfMask
  <2>2. b \in Nat /\ c \in Nat /\ MaskOf(i) \in Nat
    BY <2>1, BucketsAreNumbers, MaskFacts
  <2> QED BY <2>1, <2>2
<1>2. c >= 2
  BY <1>1, ChainOrder
<1> DEFINE e == BitsOf(c) - 1
<1>3. /\ e \in Exponents /\ e \in 1 .. (number_of_segments - 1) /\ 2 ^ e \in Nat \ {0} /\ 2 ^ e <= c
      /\ h % 2 ^ e = b /\ e < 33 /\ e \in 0 .. 31
  <2>1. e \in Exponents /\ e \in 1 .. (number_of_segments - 1) /\ 2 ^ e \in Nat \ {0} /\ 2 ^ e <= c
        /\ h % 2 ^ e = b
    BY <1>2, ParentFacts
  <2>2. e < 33 /\ e \in 0 .. 31
    <3> HIDE DEF e
    <3> QED BY <2>1, SegmentAssumption
  <2> QED BY <2>1, <2>2
<1>4. e + 1 = BitsOf(c) /\ h % 2 ^ (e + 1) = c /\ c < 2 ^ (e + 1) /\ 2 ^ (e + 1) \in Nat \ {0}
  BY BitsFacts
<1> HIDE DEF e, b
<1>5. /\ i + 1 \in Exponents /\ MaskOf(i) + 1 = 2 ^ (i + 1) /\ b = h % 2 ^ (i + 1)
      /\ b < 2 ^ (i + 1) /\ 2 ^ (i + 1) \in Nat
  BY MaskFacts, MaskedRange, <1>1 DEF b
<1>6. i + 1 <= e
  <2>1. SUFFICES ASSUME e + 1 <= i + 1 PROVE FALSE
    BY <1>3, <1>5 DEF Exponents
  <2>2. e + 1 \in Exponents
    BY <1>3 DEF Exponents
  <2>3. 2 ^ (e + 1) <= 2 ^ (i + 1)
    BY <2>1, <2>2, <1>5, PowersGrow
  <2> QED BY <2>3, <1>1, <1>4, <1>5
<1>7. 2 ^ e > MaskOf(i)
  <2>1. 2 ^ (i + 1) <= 2 ^ e
    BY <1>3, <1>5, <1>6, PowersGrow
  <2> QED BY <2>1, <1>1, <1>3, <1>5
<1>8. (h \div 2 ^ e) % 2 = 1
  BY <1>3, <1>4, Bit
<1>9. ASSUME NEW f \in 0 .. (e - 1), 2 ^ f > MaskOf(i) PROVE (h \div 2 ^ f) % 2 = 0
  <2>1. f \in Exponents /\ f + 1 \in Exponents /\ f < 33 /\ f + 1 <= e /\ f \in Nat
    BY <1>3 DEF Exponents
  <2>2. 2 ^ f \in Nat \ {0} /\ 2 ^ (f + 1) = 2 * 2 ^ f
    BY <2>1, Powers
  <2>3. i + 1 <= f
    <3>1. SUFFICES ASSUME f + 1 <= i + 1 PROVE FALSE
      BY <1>5, <2>1 DEF Exponents
    <3>2. 2 ^ (f + 1) <= 2 ^ (i + 1)
      BY <3>1, <2>1, <1>5, PowersGrow
    <3> QED BY <3>2, <2>2, <1>9, <1>1, <1>5
  <2>4. 2 ^ (i + 1) <= 2 ^ f
    BY <2>1, <2>3, <1>5, PowersGrow
  <2>5. h % 2 ^ (f + 1) = b
    <3>1. (h % 2 ^ e) % 2 ^ (f + 1) = h % 2 ^ (f + 1)
      BY <2>1, <1>3, MaskMask
    <3>2. b \in 0 .. (2 ^ (f + 1) - 1)
      BY <2>2, <2>4, <1>1, <1>5
    <3>3. b % 2 ^ (f + 1) = b
      BY <3>2, <2>2, ModSmall
    <3> QED BY <3>1, <3>3, <1>3
  <2>6. h % 2 ^ (f + 1) < 2 ^ f
    BY <2>2, <2>4, <2>5, <1>1, <1>5
  <2> QED BY <2>1, <2>6, Bit
<1> DEFINE Is(g) == /\ 2 ^ g > MaskOf(i) /\ (h \div 2 ^ g) % 2 = 1
                    /\ \A f \in 0 .. (g - 1) : 2 ^ f > MaskOf(i) => (h \div 2 ^ f) % 2 = 0
<1>10. (CHOOSE g \in 0 .. 31 : Is(g)) = e
  <2>1. Is(e)
    BY <1>7, <1>8, <1>9
  <2>2. ASSUME NEW g \in 0 .. 31, Is(g) PROVE g = e
    <3>1. CASE g < e
      <4>1. g \in 0 .. (e - 1)
        BY <3>1, <1>3
      <4> QED BY <4>1, <2>2, <1>9
    <3>2. CASE e < g
      <4>1. e \in 0 .. (g - 1)
        BY <3>2, <1>3
      <4> QED BY <4>1, <2>2, <1>7, <1>8
    <3> QED BY <3>1, <3>2, <1>3
  <2> HIDE DEF Is
  <2> QED BY <2>1, <2>2, <1>3
<1>11. Masked(h, 2 ^ (e + 1) - 1) = c
  BY <1>4 DEF Masked
<1>12. Masked(h, MaskOf(i)) # Masked(h, MaskOf(j))
  <2>1. c <= Masked(h, MaskOf(j)) /\ Masked(h, MaskOf(j)) \in Nat
    BY ChainOfMask, BucketsAreNumbers
  <2> QED BY <2>1, <1>1 DEF b
<1>13. MaskOf(i) # MaskOf(j)
  BY <1>12
<1>14. check_rehashing_collision(tab, h, MaskOf(i), MaskOf(j))
  BY <1>10, <1>11, <1>12 DEF check_rehashing_collision
<1> QED BY <1>13, <1>14 DEF check_mask_race

-----------------------------------------------------------------------------
(* Where the nodes of a table are *)

\* A bucket that rehash_bucket() has filled, or is about to mark.
Reached(tab, b) == b \in tab.rehashed \/ tab.node_list[b] # {}

\* A node is in the last bucket of its chain that was reached.
Located(tab) ==
    \A b \in Buckets : \A n \in tab.node_list[b] :
        \A c \in Buckets : OfChain(hasher[n.key], c) /\ b < c => ~Reached(tab, c)

InRange(tab) == \A b \in Buckets : Reached(tab, b) => b <= tab.my_mask

\* A list has no key twice.
KeysDiffer(tab) ==
    \A b \in Buckets : \A n, m \in tab.node_list[b] : n.key = m.key => n = m

Placed(tab) == Located(tab) /\ InRange(tab) /\ KeysDiffer(tab)

\* No key is in the table twice.
KeysUnique(tab) == \A n, m \in NodesIn(tab) : n.key = m.key => n = m

\* The key is not in the table, and no later bucket of its chain is reached.
Absent(tab, b, k) ==
    /\ \A n \in NodesIn(tab) : n.key # k
    /\ \A c \in Buckets : OfChain(hasher[k], c) /\ b < c => ~Reached(tab, c)

LEMMA NodeFacts ==
    ASSUME NEW tab, TableOK(tab), NEW b \in Buckets, NEW n \in tab.node_list[b]
    PROVE  /\ n \in Node /\ n.id \in NodeIds /\ n.key \in Keys /\ n.val \in Values
           /\ hasher[n.key] \in Nat /\ OfChain(hasher[n.key], b) /\ n \in NodesIn(tab)
<1>1. n \in Node
  BY DEF TableOK, TableType
<1>2. n.id \in NodeIds /\ n.key \in Keys /\ n.val \in Values
  BY <1>1 DEF Node
<1>3. OfChain(hasher[n.key], b)
  BY DEF TableOK, Congruent, OfChain
<1> QED BY <1>1, <1>2, <1>3, HashAssumption DEF NodesIn

LEMMA InBucket ==
    ASSUME NEW tab, NEW n \in NodesIn(tab)
    PROVE  \E b \in Buckets : n \in tab.node_list[b]
  BY DEF NodesIn

LEMMA PlacedUnique ==
    ASSUME NEW tab, TableOK(tab), Placed(tab)
    PROVE  KeysUnique(tab)
<1>1. ASSUME NEW b \in Buckets, NEW c \in Buckets, NEW n \in tab.node_list[b], NEW m \in tab.node_list[c],
             n.key = m.key, b < c
      PROVE  FALSE
  <2>1. OfChain(hasher[n.key], c)
    BY <1>1, NodeFacts
  <2>2. Reached(tab, c)
    BY DEF Reached
  <2> QED BY <2>1, <2>2, <1>1 DEF Placed, Located
<1>2. SUFFICES ASSUME NEW n \in NodesIn(tab), NEW m \in NodesIn(tab), n.key = m.key PROVE n = m
  BY DEF KeysUnique
<1>3. PICK b \in Buckets : n \in tab.node_list[b]
  BY InBucket
<1>4. PICK c \in Buckets : m \in tab.node_list[c]
  BY InBucket
<1>5. ~(b < c) /\ ~(c < b)
  BY <1>1, <1>2, <1>3, <1>4
<1>6. b = c
  BY <1>5, BucketsAreNumbers
<1> QED BY <1>2, <1>3, <1>4, <1>6 DEF Placed, KeysDiffer

\* The nodes of a bucket that is not reached yet are in its parent.
LEMMA OnlyInParent ==
    ASSUME NEW tab, TableOK(tab), Placed(tab), NEW h \in Buckets, h >= 2, Reached(tab, Parent(h)),
           NEW b \in Buckets, NEW n \in tab.node_list[b], OfChain(hasher[n.key], h), b < h
    PROVE  b = Parent(h)
<1>1. hasher[n.key] \in Nat /\ OfChain(hasher[n.key], b)
  BY NodeFacts
<1>2. b <= Parent(h) /\ Parent(h) \in Buckets /\ OfChain(hasher[n.key], Parent(h))
  BY <1>1, ChainOrder, ParentFacts, ParentOfChain
<1>3. ~(b < Parent(h))
  BY <1>2 DEF Placed, Located
<1> QED BY <1>2, <1>3, BucketsAreNumbers

\* Fewer nodes, flags, and more buckets.
LEMMA FewerPlaced ==
    ASSUME NEW tab, TableOK(tab), Placed(tab), NEW new, TableOK(new),
           \A b \in Buckets : new.node_list[b] \subseteq tab.node_list[b],
           new.rehashed \subseteq tab.rehashed, tab.my_mask <= new.my_mask
    PROVE  Placed(new)
<1>1. \A b \in Buckets : Reached(new, b) => Reached(tab, b)
  BY DEF Reached
<1>2. Located(new)
  BY <1>1 DEF Placed, Located
<1>3. InRange(new)
  <2>1. tab.my_mask \in Nat /\ new.my_mask \in Nat
    BY DEF TableOK, TableType
  <2>2. SUFFICES ASSUME NEW b \in Buckets, Reached(new, b) PROVE b <= new.my_mask
    BY DEF InRange
  <2>3. b <= tab.my_mask /\ b \in Nat
    BY <1>1, <2>2, BucketsAreNumbers DEF Placed, InRange
  <2> QED BY <2>1, <2>3
<1>4. KeysDiffer(new)
  BY DEF Placed, KeysDiffer
<1> QED BY <1>2, <1>3, <1>4 DEF Placed

LEMMA SamePlaced ==
    ASSUME NEW tab, TableOK(tab), Placed(tab), NEW new, TableOK(new), new.node_list = tab.node_list,
           new.rehashed \subseteq tab.rehashed, tab.my_mask <= new.my_mask
    PROVE  Placed(new) /\ NodesIn(new) = NodesIn(tab)
<1>1. Placed(new)
  BY FewerPlaced
<1> QED BY <1>1 DEF NodesIn

LEMMA EmptyPlaced ==
    ASSUME NEW tab, NodesIn(tab) = {}, \A b \in Buckets : b \in tab.rehashed => b <= tab.my_mask
    PROVE  Placed(tab)
<1>1. \A b \in Buckets : tab.node_list[b] = {}
  BY DEF NodesIn
<1> QED BY <1>1 DEF Placed, Located, InRange, KeysDiffer, Reached

-----------------------------------------------------------------------------
(* rehash_bucket() *)

LEMMA MoveFields ==
    ASSUME NEW tab, TableOK(tab), NEW h \in Buckets, h >= 2
    PROVE  LET new == MoveNodes(tab, h)
               lists == tab.node_list
           IN  /\ new.node_list[h] = {n \in lists[Parent(h)] : OfChain(hasher[n.key], h)}
               /\ new.node_list[Parent(h)] = {n \in lists[Parent(h)] : ~OfChain(hasher[n.key], h)}
               /\ \A c \in Buckets \ {h, Parent(h)} : new.node_list[c] = lists[c]
               /\ new = [tab EXCEPT !.node_list = new.node_list]
<1> DEFINE p == Parent(h)
<1> DEFINE mine == {n \in tab.node_list[p] : Masked(hasher[n.key], OwnMask(h)) = h}
<1> DEFINE lists == [tab.node_list EXCEPT ![h] = mine, ![p] = tab.node_list[p] \ mine]
<1>1. tab.node_list \in [Buckets -> SUBSET Node]
  BY DEF TableOK, TableType
<1>2. p \in Buckets /\ p # h
  <2>1. h \in Nat /\ p < h
    BY ParentBefore DEF Buckets
  <2> QED BY <2>1, ParentBefore DEF Buckets
<1>3. MoveNodes(tab, h) = [tab EXCEPT !.node_list = lists]
  BY <1>1, <1>2 DEF MoveNodes, TableOK, TableType
<1>4. mine = {n \in tab.node_list[p] : OfChain(hasher[n.key], h)}
      /\ tab.node_list[p] \ mine = {n \in tab.node_list[p] : ~OfChain(hasher[n.key], h)}
  BY DEF OfChain
<1> HIDE DEF p, mine
<1>5. /\ lists[h] = mine /\ lists[p] = tab.node_list[p] \ mine
      /\ \A c \in Buckets \ {h, p} : lists[c] = tab.node_list[c]
  BY <1>1, <1>2
<1> HIDE DEF lists
<1>6. MoveNodes(tab, h).node_list = lists
  BY <1>3 DEF TableOK, TableType
<1> QED BY <1>3, <1>4, <1>5, <1>6 DEF p

LEMMA MovePlaced ==
    ASSUME NEW tab, TableOK(tab), Placed(tab), NEW h \in Buckets, h >= 2, h <= tab.my_mask,
           ~Reached(tab, h), Reached(tab, Parent(h))
    PROVE  LET new == MoveNodes(tab, h)
           IN  /\ Placed(new) /\ NodesIn(new) = NodesIn(tab)
               /\ \A n \in new.node_list[Parent(h)] : ~OfChain(hasher[n.key], h)
               /\ \A b \in Buckets \ {h} : Reached(new, b) => Reached(tab, b)
<1> DEFINE new == MoveNodes(tab, h)
<1> DEFINE p == Parent(h)
<1>1. /\ new.node_list[h] = {n \in tab.node_list[p] : OfChain(hasher[n.key], h)}
      /\ new.node_list[p] = {n \in tab.node_list[p] : ~OfChain(hasher[n.key], h)}
      /\ \A c \in Buckets \ {h, p} : new.node_list[c] = tab.node_list[c]
  BY MoveFields
<1>2. new.rehashed = tab.rehashed /\ new.my_mask = tab.my_mask /\ TableOK(new)
  BY MoveOK
<1>3. p \in Buckets /\ p < h /\ p # h /\ h \in Nat
  BY ParentFacts, BucketsAreNumbers
<1> HIDE DEF new, p
<1>4. tab.node_list[h] = {}
  BY DEF Reached
<1>5. \A b \in Buckets \ {h} : new.node_list[b] \subseteq tab.node_list[b]
  BY <1>1, <1>3
<1>6. \A b \in Buckets \ {h} : Reached(new, b) => Reached(tab, b)
  BY <1>2, <1>5 DEF Reached
<1>7. ASSUME NEW b \in Buckets, NEW n \in tab.node_list[b], OfChain(hasher[n.key], h), b < h
      PROVE  b = p
  BY <1>7, OnlyInParent DEF p
<1>8. Located(new)
  <2>1. SUFFICES ASSUME NEW b \in Buckets, NEW n \in new.node_list[b], NEW c \in Buckets,
                        OfChain(hasher[n.key], c), b < c, Reached(new, c)
                 PROVE  FALSE
    BY DEF Located
  <2>2. CASE b = h
    <3>1. n \in tab.node_list[p]
      BY <2>2, <1>1
    <3>2. p < c /\ c # h
      <4>1. p \in Nat /\ c \in Nat
        BY <1>3, BucketsAreNumbers
      <4> QED BY <4>1, <2>1, <2>2, <1>3
    <3> QED BY <3>1, <3>2, <2>1, <1>3, <1>6 DEF Placed, Located
  <2>3. CASE b # h
    <3>1. n \in tab.node_list[b]
      BY <2>3, <1>5
    <3>2. c = h
      BY <3>1, <2>1, <1>6 DEF Placed, Located
    <3>3. b = p
      BY <3>1, <3>2, <2>1, <1>7
    <3> QED BY <3>2, <3>3, <2>1, <1>1
  <2> QED BY <2>2, <2>3
<1>9. InRange(new)
  BY <1>2, <1>6 DEF Placed, InRange
<1>10. KeysDiffer(new)
  <2>1. SUFFICES ASSUME NEW b \in Buckets, NEW n \in new.node_list[b], NEW m \in new.node_list[b], n.key = m.key
                 PROVE  n = m
    BY DEF KeysDiffer
  <2>2. PICK c \in Buckets : n \in tab.node_list[c] /\ m \in tab.node_list[c]
    BY <1>1, <1>3, <1>5
  <2> QED BY <2>1, <2>2 DEF Placed, KeysDiffer
<1>11. NodesIn(new) = NodesIn(tab)
  <2>1. ASSUME NEW n \in NodesIn(new) PROVE n \in NodesIn(tab)
    BY <1>1, <1>3, <1>5 DEF NodesIn
  <2>2. ASSUME NEW n \in NodesIn(tab) PROVE n \in NodesIn(new)
    <3>1. PICK b \in Buckets : n \in tab.node_list[b]
      BY InBucket
    <3>2. b # h
      BY <3>1, <1>4
    <3>3. \E c \in Buckets : n \in new.node_list[c]
      <4>1. CASE b = p
        BY <4>1, <3>1, <1>1, <1>3
      <4>2. CASE b # p
        BY <4>2, <3>1, <3>2, <1>1
      <4> QED BY <4>1, <4>2
    <3> QED BY <3>3 DEF NodesIn
  <2> QED BY <2>1, <2>2
<1> QED BY <1>1, <1>6, <1>8, <1>9, <1>10, <1>11, <1>3 DEF Placed, new, p

LEMMA MarkFields ==
    ASSUME NEW tab, TableOK(tab), NEW h
    PROVE  LET new == set_rehashed(tab, h)
           IN  /\ new.node_list = tab.node_list /\ new.rehashed = tab.rehashed \cup {h}
               /\ new.durable = tab.durable /\ new.tls = tab.tls /\ new.consistent = tab.consistent
               /\ new.my_mask = tab.my_mask /\ new.segments = tab.segments
               /\ new.my_size = tab.my_size /\ new.on_init_size = tab.on_init_size
  BY DEF set_rehashed, TableOK, TableType

LEMMA PersistFields ==
    ASSUME NEW tab, TableOK(tab), NEW h
    PROVE  LET new == persist_rehashed(tab, h)
           IN  /\ new.node_list = tab.node_list /\ new.rehashed = tab.rehashed /\ new.tls = tab.tls
               /\ new.my_mask = tab.my_mask /\ new.segments = tab.segments /\ new.consistent = tab.consistent
               /\ new.my_size = tab.my_size /\ new.on_init_size = tab.on_init_size
  BY DEF persist_rehashed, TableOK, TableType

\* A bucket whose nodes have moved is marked.
LEMMA MarkPlaced ==
    ASSUME NEW tab, TableOK(tab), Placed(tab), NEW h \in Buckets, h >= 2, h <= tab.my_mask,
           Reached(tab, h) \/
              (Reached(tab, Parent(h)) /\ \A n \in tab.node_list[Parent(h)] : ~OfChain(hasher[n.key], h))
    PROVE  LET new == set_rehashed(tab, h)
           IN  /\ Placed(new) /\ NodesIn(new) = NodesIn(tab)
               /\ \A b \in Buckets \ {h} : Reached(new, b) => Reached(tab, b)
<1> DEFINE new == set_rehashed(tab, h)
<1>1. new.node_list = tab.node_list /\ new.rehashed = tab.rehashed \cup {h} /\ new.my_mask = tab.my_mask
  BY MarkFields
<1> HIDE DEF new
<1>2. \A b \in Buckets \ {h} : Reached(new, b) => Reached(tab, b)
  BY <1>1 DEF Reached
<1>3. Located(new)
  <2>1. SUFFICES ASSUME NEW b \in Buckets, NEW n \in tab.node_list[b], NEW c \in Buckets,
                        OfChain(hasher[n.key], c), b < c, Reached(new, c)
                 PROVE  FALSE
    BY <1>1 DEF Located
  <2>2. c = h /\ ~Reached(tab, h)
    BY <2>1, <1>2 DEF Placed, Located
  <2>3. b = Parent(h)
    BY <2>1, <2>2, OnlyInParent
  <2> QED BY <2>1, <2>2, <2>3
<1>4. InRange(new) /\ KeysDiffer(new)
  BY <1>1, <1>2 DEF Placed, InRange, KeysDiffer
<1> QED BY <1>1, <1>2, <1>3, <1>4 DEF Placed, NodesIn, new

-----------------------------------------------------------------------------
(* Nodes that come and go *)

LEMMA InsertFields ==
    ASSUME NEW tab, TableOK(tab), NEW b \in Buckets, NEW n
    PROVE  LET new == insert_new_node_internal(tab, b, n)
           IN  /\ \A c \in Buckets : new.node_list[c] = IF c = b THEN tab.node_list[c] \cup {n} ELSE tab.node_list[c]
               /\ new.rehashed = tab.rehashed /\ new.my_mask = tab.my_mask
               /\ NodesIn(new) = NodesIn(tab) \cup {n}
<1> DEFINE new == insert_new_node_internal(tab, b, n)
<1> DEFINE lists == [tab.node_list EXCEPT ![b] = @ \cup {n}]
<1>1. new = [tab EXCEPT !.node_list = lists]
  BY DEF insert_new_node_internal, TableOK, TableType
<1>2. \A c \in Buckets : lists[c] = IF c = b THEN tab.node_list[c] \cup {n} ELSE tab.node_list[c]
  BY DEF TableOK, TableType
<1> HIDE DEF lists, new
<1>3. new.node_list = lists /\ new.rehashed = tab.rehashed /\ new.my_mask = tab.my_mask
  BY <1>1 DEF TableOK, TableType
<1>4. NodesIn(new) = NodesIn(tab) \cup {n}
  BY <1>2, <1>3 DEF NodesIn
<1> QED BY <1>1, <1>2, <1>3, <1>4 DEF new

LEMMA InsertPlaced ==
    ASSUME NEW tab, TableOK(tab), Placed(tab), NEW b \in Buckets, NEW n \in Node, b \in tab.rehashed,
           OfChain(hasher[n.key], b), Absent(tab, b, n.key)
    PROVE  LET new == insert_new_node_internal(tab, b, n)
           IN  /\ Placed(new) /\ n \notin NodesIn(tab)
               /\ \A c \in Buckets : Reached(new, c) => Reached(tab, c)
<1> DEFINE new == insert_new_node_internal(tab, b, n)
<1>1. /\ \A c \in Buckets : new.node_list[c] = IF c = b THEN tab.node_list[c] \cup {n} ELSE tab.node_list[c]
      /\ new.rehashed = tab.rehashed /\ new.my_mask = tab.my_mask
  BY InsertFields
<1> HIDE DEF new
<1>2. \A c \in Buckets : Reached(new, c) => Reached(tab, c)
  BY <1>1 DEF Reached
<1>3. Located(new)
  <2>1. SUFFICES ASSUME NEW a \in Buckets, NEW x \in new.node_list[a], NEW c \in Buckets,
                        OfChain(hasher[x.key], c), a < c, Reached(tab, c)
                 PROVE  FALSE
    BY <1>2 DEF Located
  <2>2. CASE x \in tab.node_list[a]
    BY <2>1, <2>2 DEF Placed, Located
  <2>3. CASE x \notin tab.node_list[a]
    <3>1. a = b /\ x = n
      BY <2>3, <1>1
    <3> QED BY <3>1, <2>1 DEF Absent
  <2> QED BY <2>2, <2>3
<1>4. InRange(new)
  BY <1>1, <1>2 DEF Placed, InRange
<1>5. KeysDiffer(new)
  <2>1. \A c \in Buckets : \A m \in tab.node_list[c] : m.key # n.key
    BY DEF Absent, NodesIn
  <2>2. SUFFICES ASSUME NEW c \in Buckets, NEW x \in new.node_list[c], NEW y \in new.node_list[c], x.key = y.key
                 PROVE  x = y
    BY DEF KeysDiffer
  <2>3. CASE x \in tab.node_list[c] /\ y \in tab.node_list[c]
    BY <2>2, <2>3 DEF Placed, KeysDiffer
  <2>4. CASE x \notin tab.node_list[c] \/ y \notin tab.node_list[c]
    <3>1. (x = n \/ x \in tab.node_list[c]) /\ (y = n \/ y \in tab.node_list[c])
      BY <1>1
    <3> QED BY <3>1, <2>1, <2>2, <2>4
  <2> QED BY <2>3, <2>4
<1>6. n \notin NodesIn(tab)
  BY DEF Absent
<1> QED BY <1>2, <1>3, <1>4, <1>5, <1>6 DEF Placed, new

LEMMA DeleteFields ==
    ASSUME NEW tab, TableOK(tab), NEW b \in Buckets, NEW id
    PROVE  LET new == delete_node(tab, b, id)
           IN  /\ \A c \in Buckets : new.node_list[c] =
                    IF c = b THEN {n \in tab.node_list[b] : n.id # id} ELSE tab.node_list[c]
               /\ new.rehashed = tab.rehashed /\ new.my_mask = tab.my_mask
<1> DEFINE new == delete_node(tab, b, id)
<1> DEFINE lists == [tab.node_list EXCEPT ![b] = {n \in @ : n.id # id}]
<1>1. new = [tab EXCEPT !.node_list = lists]
  BY DEF delete_node, TableOK, TableType
<1>2. \A c \in Buckets : lists[c] = IF c = b THEN {n \in tab.node_list[b] : n.id # id} ELSE tab.node_list[c]
  BY DEF TableOK, TableType
<1> HIDE DEF lists, new
<1>3. new.node_list = lists /\ new.rehashed = tab.rehashed /\ new.my_mask = tab.my_mask
  BY <1>1 DEF TableOK, TableType
<1> QED BY <1>1, <1>2, <1>3 DEF new

LEMMA DeletePlaced ==
    ASSUME NEW tab, TableOK(tab), Placed(tab), NEW b \in Buckets, NEW n \in tab.node_list[b]
    PROVE  LET new == delete_node(tab, b, n.id)
           IN  /\ Placed(new) /\ NodesIn(new) = NodesIn(tab) \ {n}
               /\ \A c \in Buckets : Reached(new, c) => Reached(tab, c)
<1> DEFINE new == delete_node(tab, b, n.id)
<1>1. /\ \A c \in Buckets : new.node_list[c] =
                    IF c = b THEN {m \in tab.node_list[b] : m.id # n.id} ELSE tab.node_list[c]
      /\ new.rehashed = tab.rehashed /\ new.my_mask = tab.my_mask
  BY DeleteFields
<1>2. TableOK(new)
  BY DeleteOK
<1> HIDE DEF new
<1>3. \A c \in Buckets : new.node_list[c] = tab.node_list[c] \ {n}
  <2>1. ASSUME NEW c \in Buckets, NEW m \in tab.node_list[c], m.id = n.id PROVE c = b /\ m = n
    BY <2>1 DEF TableOK, OneHome
  <2> QED BY <2>1, <1>1
<1>4. \A c \in Buckets : Reached(new, c) => Reached(tab, c)
  BY <1>1, <1>3 DEF Reached
<1>5. Placed(new)
  <2>1. tab.my_mask \in Nat
    BY DEF TableOK, TableType
  <2> QED BY <2>1, <1>1, <1>2, <1>3, FewerPlaced
<1>6. NodesIn(new) = NodesIn(tab) \ {n}
  BY <1>3 DEF NodesIn
<1> QED BY <1>4, <1>5, <1>6 DEF new

\* The value of one node changes.
Valued(n, v) == [n EXCEPT !.val = v]

LEMMA StoreFields ==
    ASSUME NEW tab, TableOK(tab), NEW b \in Buckets, NEW n \in tab.node_list[b], NEW v,
           NEW id, id = n.id
    PROVE  LET new == StoreValue(tab, id, v)
           IN  /\ \A c \in Buckets : new.node_list[c] =
                    IF c = b THEN (tab.node_list[c] \ {n}) \cup {Valued(n, v)} ELSE tab.node_list[c]
               /\ new.rehashed = tab.rehashed /\ new.my_mask = tab.my_mask
<1> DEFINE new == StoreValue(tab, id, v)
<1> DEFINE stored(m) == IF m.id = id THEN Valued(m, v) ELSE m
<1> DEFINE lists == [c \in Buckets |-> {stored(m) : m \in tab.node_list[c]}]
<1>1. new = [tab EXCEPT !.node_list = lists]
  <2>1. new = [tab EXCEPT !.node_list = [c \in Buckets |-> {stored(m) : m \in @[c]}]]
    BY DEF StoreValue, Valued
  <2> HIDE DEF new, stored
  <2> QED BY <2>1 DEF TableOK, TableType
<1>2. ASSUME NEW c \in Buckets, NEW m \in tab.node_list[c], m.id = n.id PROVE c = b /\ m = n
  BY <1>2 DEF TableOK, OneHome
<1>3. ASSUME NEW c \in Buckets, c # b PROVE lists[c] = tab.node_list[c]
  <2>1. \A m \in tab.node_list[c] : stored(m) = m
    BY <1>2, <1>3
  <2> QED BY <2>1
<1>4. lists[b] = (tab.node_list[b] \ {n}) \cup {Valued(n, v)}
  <2>1. \A m \in tab.node_list[b] : stored(m) = IF m = n THEN Valued(n, v) ELSE m
    BY <1>2
  <2> HIDE DEF stored
  <2> QED BY <2>1
<1> HIDE DEF lists, new
<1>5. new.node_list = lists /\ new.rehashed = tab.rehashed /\ new.my_mask = tab.my_mask
  BY <1>1 DEF TableOK, TableType
<1> QED BY <1>1, <1>3, <1>4, <1>5 DEF new

LEMMA ValuedFacts ==
    ASSUME NEW n \in Node, NEW v \in Values
    PROVE  /\ Valued(n, v) \in Node /\ Valued(n, v).id = n.id /\ Valued(n, v).key = n.key
           /\ Valued(n, v).val = v
  BY DEF Valued, Node

LEMMA StorePlaced ==
    ASSUME NEW tab, TableOK(tab), Placed(tab), NEW b \in Buckets, NEW n \in tab.node_list[b], NEW v \in Values
    PROVE  LET new == StoreValue(tab, n.id, v)
           IN  /\ Placed(new) /\ NodesIn(new) = (NodesIn(tab) \ {n}) \cup {Valued(n, v)}
               /\ \A c \in Buckets : Reached(new, c) <=> Reached(tab, c)
<1> DEFINE new == StoreValue(tab, n.id, v)
<1>0. PICK id : id = n.id
  OBVIOUS
<1>00. /\ \A c \in Buckets : new.node_list[c] =
            IF c = b THEN (tab.node_list[c] \ {n}) \cup {Valued(n, v)} ELSE tab.node_list[c]
      /\ new.rehashed = tab.rehashed /\ new.my_mask = tab.my_mask
  BY <1>0, StoreFields
<1> DEFINE w == Valued(n, v)
<1>1. /\ \A c \in Buckets : new.node_list[c] =
            IF c = b THEN (tab.node_list[c] \ {n}) \cup {w} ELSE tab.node_list[c]
      /\ new.rehashed = tab.rehashed /\ new.my_mask = tab.my_mask
  BY <1>00
<1>2. w.key = n.key /\ w.id = n.id
  BY NodeFacts, ValuedFacts
<1> HIDE DEF new, w
<1>3. \A c \in Buckets : Reached(new, c) <=> Reached(tab, c)
  BY <1>1 DEF Reached
<1>4. ASSUME NEW c \in Buckets, NEW x \in new.node_list[c]
      PROVE  \E y \in tab.node_list[c] : y.key = x.key /\ (x = y \/ (x = w /\ y = n))
  BY <1>1, <1>2, <1>4
<1>5. Located(new)
  <2>1. SUFFICES ASSUME NEW a \in Buckets, NEW x \in new.node_list[a], NEW c \in Buckets,
                        OfChain(hasher[x.key], c), a < c
                 PROVE  ~Reached(tab, c)
    BY <1>3 DEF Located
  <2>2. PICK y \in tab.node_list[a] : y.key = x.key
    BY <1>4
  <2> QED BY <2>1, <2>2 DEF Placed, Located
<1>6. InRange(new)
  BY <1>1, <1>3 DEF Placed, InRange
<1>7. KeysDiffer(new)
  <2>1. SUFFICES ASSUME NEW c \in Buckets, NEW x \in new.node_list[c], NEW y \in new.node_list[c], x.key = y.key
                 PROVE  x = y
    BY DEF KeysDiffer
  <2>2. PICK p \in tab.node_list[c] : p.key = x.key /\ (x = p \/ (x = w /\ p = n))
    BY <1>4
  <2>3. PICK q \in tab.node_list[c] : q.key = y.key /\ (y = q \/ (y = w /\ q = n))
    BY <1>4
  <2>4. p = q
    BY <2>1, <2>2, <2>3 DEF Placed, KeysDiffer
  <2>5. CASE c # b
    BY <2>5, <2>1, <1>1 DEF Placed, KeysDiffer
  <2>6. CASE c = b
    <3>1. (x \in tab.node_list[b] /\ x # n) \/ x = w
      BY <2>6, <1>1
    <3>2. (y \in tab.node_list[b] /\ y # n) \/ y = w
      BY <2>6, <1>1
    <3> QED BY <3>1, <3>2, <2>2, <2>3, <2>4
  <2> QED BY <2>5, <2>6
<1>8. NodesIn(new) = (NodesIn(tab) \ {n}) \cup {w}
  <2>1. \A c \in Buckets : c # b => n \notin tab.node_list[c]
    BY DEF TableOK, OneHome
  <2>2. ASSUME NEW x \in NodesIn(new) PROVE x \in (NodesIn(tab) \ {n}) \cup {w}
    <3>1. PICK c \in Buckets : x \in new.node_list[c]
      BY InBucket
    <3> QED BY <3>1, <2>1, <1>1 DEF NodesIn
  <2>3. ASSUME NEW x \in (NodesIn(tab) \ {n}) \cup {w} PROVE x \in NodesIn(new)
    <3>1. CASE x = w
      <4>1. x \in new.node_list[b]
        BY <3>1, <1>1
      <4> QED BY <4>1 DEF NodesIn
    <3>2. CASE x # w
      <4>1. PICK c \in Buckets : x \in tab.node_list[c]
        BY <3>2 DEF NodesIn
      <4>2. x \in new.node_list[c]
        BY <4>1, <3>2, <1>1
      <4> QED BY <4>2 DEF NodesIn
    <3> QED BY <3>1, <3>2
  <2> QED BY <2>2, <2>3
<1> QED BY <1>3, <1>5, <1>6, <1>7, <1>8 DEF Placed, new, w

-----------------------------------------------------------------------------
(* What the threads have counted, all together *)

\* The sums of the first i numbers of a sequence.
Sums(s, f) ==
    /\ f[0] = 0
    /\ \A i \in 1 .. Len(s) : f[i] = f[i - 1] + s[i]

LEMMA SumsAreInts ==
    ASSUME NEW s \in Seq(Int), NEW f, Sums(s, f)
    PROVE  \A i \in 0 .. Len(s) : f[i] \in Int
<1> DEFINE T == {i \in 0 .. Len(s) : f[i] \notin Int}
<1>1. SUFFICES ASSUME T # {} PROVE FALSE
  OBVIOUS
<1>2. PICK k \in T : \A y \in T : k <= y
  <2>1. T \in SUBSET Nat
    OBVIOUS
  <2> HIDE DEF T
  <2> QED BY <2>1, <1>1, LeastOf
<1>3. k # 0
  BY <1>2 DEF Sums
<1>4. k \in 1 .. Len(s) /\ k - 1 \in 0 .. Len(s) /\ k - 1 \notin T
  BY <1>2, <1>3
<1>5. f[k - 1] \in Int /\ s[k] \in Int
  BY <1>4
<1> QED BY <1>2, <1>4, <1>5 DEF Sums

LEMMA SumsUnique ==
    ASSUME NEW s \in Seq(Int), NEW f, Sums(s, f), NEW g, Sums(s, g)
    PROVE  f[Len(s)] = g[Len(s)]
<1> DEFINE T == {i \in 0 .. Len(s) : f[i] # g[i]}
<1>1. SUFFICES ASSUME T # {} PROVE FALSE
  OBVIOUS
<1>2. PICK k \in T : \A y \in T : k <= y
  <2>1. T \in SUBSET Nat
    OBVIOUS
  <2> HIDE DEF T
  <2> QED BY <2>1, <1>1, LeastOf
<1>3. k # 0
  BY <1>2 DEF Sums
<1>4. k \in 1 .. Len(s) /\ k - 1 \in 0 .. Len(s) /\ k - 1 \notin T
  BY <1>2, <1>3
<1>5. f[k - 1] = g[k - 1]
  BY <1>4
<1> QED BY <1>2, <1>4, <1>5 DEF Sums

\* There are such sums.
LEMMA SumsExist ==
    ASSUME NEW s \in Seq(Int)
    PROVE  \E f : f = [i \in 0 .. Len(s) |-> IF i = 0 THEN 0 ELSE f[i - 1] + s[i]]
<1> DEFINE Is(f, k) == f = [i \in 0 .. k |-> IF i = 0 THEN 0 ELSE f[i - 1] + s[i]]
<1> DEFINE T == {k \in Nat : ~\E f : Is(f, k)}
<1>1. SUFFICES T = {}
  <2>1. Len(s) \in Nat
    OBVIOUS
  <2> QED BY <1>1, <2>1
<1>2. SUFFICES ASSUME T # {} PROVE FALSE
  OBVIOUS
<1>3. PICK k \in T : \A y \in T : k <= y
  <2>1. T \in SUBSET Nat
    OBVIOUS
  <2> HIDE DEF T
  <2> QED BY <1>2, <2>1, LeastOf
<1>4. k # 0
  <2> DEFINE f == [i \in 0 .. 0 |-> 0]
  <2>1. Is(f, 0)
    OBVIOUS
  <2> HIDE DEF Is
  <2> QED BY <2>1, <1>3
<1>5. k \in Nat /\ k - 1 \in Nat /\ k - 1 \notin T
  BY <1>3, <1>4
<1>6. PICK f : Is(f, k - 1)
  BY <1>5
<1> DEFINE g == [i \in 0 .. k |-> IF i = k THEN f[k - 1] + s[k] ELSE f[i]]
<1>7. \A i \in 0 .. k : g[i] = IF i = 0 THEN 0 ELSE g[i - 1] + s[i]
  <2>1. SUFFICES ASSUME NEW i \in 0 .. k
                 PROVE  g[i] = IF i = 0 THEN 0 ELSE g[i - 1] + s[i]
    OBVIOUS
  <2>2. CASE i = k
    <3>1. g[k - 1] = f[k - 1]
      BY <1>5
    <3> QED BY <3>1, <2>2, <1>4, <1>5
  <2>3. CASE i # k
    <3>1. i \in 0 .. (k - 1)
      BY <2>3, <1>5
    <3>2. f[i] = IF i = 0 THEN 0 ELSE f[i - 1] + s[i]
      BY <3>1, <1>6
    <3>3. g[i] = f[i]
      BY <2>3
    <3>4. i # 0 => g[i - 1] = f[i - 1]
      BY <3>1, <1>5
    <3> QED BY <3>2, <3>3, <3>4
  <2> QED BY <2>2, <2>3
<1>8. Is(g, k)
  <2>1. g = [i \in 0 .. k |-> g[i]]
    OBVIOUS
  <2> HIDE DEF g
  <2>2. [i \in 0 .. k |-> g[i]] = [i \in 0 .. k |-> IF i = 0 THEN 0 ELSE g[i - 1] + s[i]]
    BY <1>7
  <2> QED BY <2>1, <2>2
<1> HIDE DEF Is
<1> QED BY <1>8, <1>3

LEMMA TotalSums ==
    ASSUME NEW e, e.storage \in Seq(Int)
    PROVE  \E f : Sums(e.storage, f) /\ Total(e) = f[Len(e.storage)] /\ Total(e) \in Int
<1> DEFINE s == e.storage
<1> DEFINE Is(f) == f = [i \in 0 .. Len(s) |-> IF i = 0 THEN 0 ELSE f[i - 1] + s[i]]
<1> DEFINE sum == CHOOSE f : Is(f)
<1>1. Total(e) = sum[Len(s)]
  BY DEF Total
<1>2. Is(sum)
  <2>1. \E f : Is(f)
    BY SumsExist
  <2> HIDE DEF Is
  <2> QED BY <2>1
<1> HIDE DEF sum
<1>3. Len(s) \in Nat
  OBVIOUS
<1>4. \A i \in 0 .. Len(s) : sum[i] = IF i = 0 THEN 0 ELSE sum[i - 1] + s[i]
  BY <1>2
<1>5. Sums(s, sum)
  <2>1. sum[0] = 0
    BY <1>3, <1>4
  <2>2. ASSUME NEW i \in 1 .. Len(s) PROVE sum[i] = sum[i - 1] + s[i]
    BY <1>3, <1>4
  <2> QED BY <2>1, <2>2 DEF Sums
<1>6. sum[Len(s)] \in Int
  BY <1>3, <1>5, SumsAreInts
<1> QED BY <1>1, <1>5, <1>6

LEMMA TotalIs ==
    ASSUME NEW e, e.storage \in Seq(Int), NEW f, Sums(e.storage, f)
    PROVE  Total(e) = f[Len(e.storage)]
  BY TotalSums, SumsUnique

LEMMA TotalInt ==
    ASSUME NEW e, TlsOK(e)
    PROVE  Total(e) \in Int
<1>1. e.storage \in Seq(Int)
  BY DEF TlsOK
<1> QED BY <1>1, TotalSums

LEMMA TotalClear ==
    ASSUME NEW e
    PROVE  Total(clear(e)) = 0 /\ Total(Construct) = 0
<1>1. Construct.storage = <<>>
  BY DEF Construct
<1>2. Total(Construct) = 0
  <2> DEFINE f == [i \in {0} |-> 0]
  <2>1. Sums(<<>>, f)
    BY DEF Sums
  <2>2. f[Len(<<>>)] = 0
    OBVIOUS
  <2> HIDE DEF f
  <2>3. Construct.storage \in Seq(Int) /\ Sums(Construct.storage, f)
    BY <1>1, <2>1
  <2>4. Total(Construct) = f[Len(Construct.storage)]
    BY <2>3, TotalIs
  <2> QED BY <2>2, <2>4, <1>1
<1> QED BY <1>2 DEF clear

LEMMA TotalCached ==
    ASSUME NEW e, TlsOK(e)
    PROVE  Total(set_cached_size(e)) = Total(e)
<1>1. set_cached_size(e).storage = e.storage
  BY DEF set_cached_size, TlsOK
<1>2. PICK f : Sums(e.storage, f) /\ Total(e) = f[Len(e.storage)]
  BY TotalSums DEF TlsOK
<1>3. e.storage \in Seq(Int)
  BY DEF TlsOK
<1> QED BY <1>1, <1>2, <1>3, TotalIs

LEMMA TotalAdd ==
    ASSUME NEW e, TlsOK(e), NEW index \in Nat, index < Len(e.storage), NEW n \in Int
    PROVE  Total(Add(e, index, n)) = Total(e) + n
<1> DEFINE s == e.storage
<1> DEFINE new == Add(e, index, n)
<1>1. s \in Seq(Int) /\ Len(s) \in Nat
  BY DEF TlsOK
<1>2. new.storage = [s EXCEPT ![index + 1] = @ + n]
  BY DEF Add, TlsOK
<1>3. PICK f : Sums(s, f) /\ Total(e) = f[Len(s)]
  BY <1>1, TotalSums
<1>4. \A i \in 0 .. Len(s) : f[i] \in Int
  BY <1>1, <1>3, SumsAreInts
<1> HIDE DEF s, new
<1>5. new.storage \in Seq(Int) /\ Len(new.storage) = Len(s)
      /\ \A i \in 1 .. Len(s) : new.storage[i] = IF i = index + 1 THEN s[i] + n ELSE s[i]
  <2>1. index + 1 \in 1 .. Len(s) /\ s[index + 1] + n \in Int
    BY <1>1 DEF s
  <2>2. new.storage = [s EXCEPT ![index + 1] = s[index + 1] + n]
    BY <1>2
  <2>3. new.storage \in Seq(Int) /\ Len(new.storage) = Len(s)
    BY <1>1, <2>1, <2>2
  <2>4. ASSUME NEW i \in 1 .. Len(s)
        PROVE  new.storage[i] = IF i = index + 1 THEN s[i] + n ELSE s[i]
    BY <1>1, <2>1, <2>2
  <2> QED BY <2>3, <2>4
<1> DEFINE g == [i \in 0 .. Len(s) |-> IF i > index THEN f[i] + n ELSE f[i]]
<1>6. Sums(new.storage, g)
  <2>1. g[0] = 0
    BY <1>1, <1>3 DEF Sums
  <2>2. ASSUME NEW i \in 1 .. Len(s) PROVE g[i] = g[i - 1] + new.storage[i]
    <3>1. f[i] = f[i - 1] + s[i] /\ f[i - 1] \in Int /\ s[i] \in Int /\ i - 1 \in 0 .. Len(s)
          /\ i \in 0 .. Len(s)
      BY <1>1, <1>3, <1>4 DEF Sums
    <3>2. g[i] = (IF i > index THEN f[i] + n ELSE f[i])
          /\ g[i - 1] = (IF i - 1 > index THEN f[i - 1] + n ELSE f[i - 1])
      BY <3>1
    <3> HIDE DEF g
    <3>3. new.storage[i] = IF i = index + 1 THEN s[i] + n ELSE s[i]
      BY <1>5
    <3> QED BY <3>1, <3>2, <3>3
  <2> HIDE DEF g
  <2> QED BY <2>1, <2>2, <1>5 DEF Sums
<1>7. g[Len(s)] = f[Len(s)] + n
  BY <1>1 DEF s
<1> HIDE DEF g
<1>8. Total(new) = g[Len(s)]
  BY <1>5, <1>6, TotalIs
<1> QED BY <1>3, <1>7, <1>8 DEF new

LEMMA TotalResize ==
    ASSUME NEW e, TlsOK(e), NEW index \in Nat
    PROVE  Total(resize(e, index)) = Total(e)
<1> DEFINE s == e.storage
<1> DEFINE new == resize(e, index)
<1>1. s \in Seq(Int) /\ Len(s) \in Nat
  BY DEF TlsOK
<1>2. CASE index < Len(s)
  BY <1>2 DEF resize
<1>3. CASE ~(index < Len(s))
  <2> DEFINE more == [i \in 1 .. (index + 1 - Len(s)) |-> 0]
  <2>1. new.storage = s \o more
    BY <1>3 DEF resize, TlsOK
  <2>2. PICK f : Sums(s, f) /\ Total(e) = f[Len(s)]
    BY <1>1, TotalSums
  <2>3. \A i \in 0 .. Len(s) : f[i] \in Int
    BY <1>1, <2>2, SumsAreInts
  <2> HIDE DEF s, new
  <2>4. more \in Seq(Int) /\ Len(more) = index + 1 - Len(s)
    BY <1>1, <1>3
  <2>5. \A i \in 1 .. Len(more) : more[i] = 0
    BY <2>4
  <2> HIDE DEF more
  <2>6. /\ new.storage \in Seq(Int) /\ Len(new.storage) = index + 1
        /\ \A i \in 1 .. (index + 1) : new.storage[i] = IF i <= Len(s) THEN s[i] ELSE 0
    <3>1. new.storage \in Seq(Int) /\ Len(new.storage) = index + 1
      BY <1>1, <1>3, <2>1, <2>4
    <3>2. ASSUME NEW i \in 1 .. (index + 1)
          PROVE new.storage[i] = IF i <= Len(s) THEN s[i] ELSE 0
      BY <1>1, <1>3, <2>1, <2>4, <2>5
    <3> QED BY <3>1, <3>2
  <2> DEFINE g == [i \in 0 .. (index + 1) |-> IF i <= Len(s) THEN f[i] ELSE f[Len(s)]]
  <2>7. Sums(new.storage, g)
    <3>1. g[0] = 0
      BY <1>1, <2>2 DEF Sums
    <3>2. ASSUME NEW i \in 1 .. (index + 1) PROVE g[i] = g[i - 1] + new.storage[i]
      <4>1. g[i] = (IF i <= Len(s) THEN f[i] ELSE f[Len(s)])
            /\ g[i - 1] = (IF i - 1 <= Len(s) THEN f[i - 1] ELSE f[Len(s)])
        OBVIOUS
      <4> HIDE DEF g
      <4>2. new.storage[i] = IF i <= Len(s) THEN s[i] ELSE 0
        BY <2>6
      <4>3. f[Len(s)] \in Int
        BY <1>1, <2>3
      <4>4. CASE i <= Len(s)
        BY <4>1, <4>2, <4>4, <1>1, <2>2, <2>6 DEF Sums
      <4>5. CASE i = Len(s) + 1
        <5>1. i - 1 = Len(s)
          BY <4>5, <1>1
        <5> QED BY <4>1, <4>2, <4>3, <4>5, <5>1, <1>1
      <4>6. CASE i > Len(s) + 1
        BY <4>1, <4>2, <4>3, <4>6, <1>1
      <4> QED BY <4>4, <4>5, <4>6, <1>1
    <3> HIDE DEF g
    <3> QED BY <3>1, <3>2, <2>6 DEF Sums
  <2>8. g[index + 1] = f[Len(s)]
    <3>1. index + 1 \in 0 .. (index + 1)
      OBVIOUS
    <3>2. g[index + 1] = IF index + 1 <= Len(s) THEN f[index + 1] ELSE f[Len(s)]
      BY <3>1
    <3> HIDE DEF g
    <3> QED BY <3>2, <1>1, <1>3 DEF s
  <2> HIDE DEF g
  <2>9. Total(new) = g[index + 1]
    BY <2>6, <2>7, TotalIs
  <2> QED BY <2>2, <2>8, <2>9 DEF new, s
<1> QED BY <1>2, <1>3

-----------------------------------------------------------------------------
(* Buckets that are added, or emptied *)

LEMMA BucketsOfSegment ==
    ASSUME NEW k \in 1 .. (number_of_segments - 1)
    PROVE  BucketsOf(k) = 2 ^ k .. MaskOf(k) /\ 2 ^ k \in Nat /\ 2 <= 2 ^ k
<1>1. k \in Exponents /\ 1 <= k /\ k < 33
  BY SegmentAssumption DEF Exponents
<1>2. 2 ^ k \in Nat /\ 2 <= 2 ^ k /\ 2 ^ (k + 1) = 2 * 2 ^ k
  BY <1>1, Powers, PowersFromTwo
<1>3. BucketsOf(k) = 2 ^ k .. (2 ^ k + 2 ^ k - 1)
  BY <1>1 DEF BucketsOf, segment_base, Size, segment_size
<1> QED BY <1>2, <1>3 DEF MaskOf

LEMMA MasksGrow ==
    ASSUME NEW i \in 0 .. (number_of_segments - 1), NEW j \in 0 .. (number_of_segments - 1), i <= j
    PROVE  MaskOf(i) <= MaskOf(j) /\ MaskOf(i) \in Nat /\ MaskOf(j) \in Nat
<1>1. i + 1 \in Exponents /\ j + 1 \in Exponents /\ MaskOf(i) \in Nat /\ MaskOf(j) \in Nat
  BY MaskFacts
<1>2. 2 ^ (i + 1) <= 2 ^ (j + 1)
  BY <1>1, PowersGrow
<1>3. 2 ^ (i + 1) = MaskOf(i) + 1 /\ 2 ^ (j + 1) = MaskOf(j) + 1
  BY MaskFacts
<1> QED BY <1>1, <1>2, <1>3

\* The buckets of the segments up to j are those that its mask covers.
LEMMA SegmentsCover ==
    ASSUME NEW j \in 0 .. (number_of_segments - 1)
    PROVE  /\ \A k \in 0 .. j : \A b \in BucketsOf(k) : b \in 0 .. MaskOf(j)
           /\ \A b \in 0 .. MaskOf(j) : b < 2 \/ \E k \in 1 .. j : b \in BucketsOf(k)
<1>1. ASSUME NEW k \in 0 .. j, NEW b \in BucketsOf(k) PROVE b \in 0 .. MaskOf(j)
  <2>1. CASE k = 0
    <3>1. b \in {0, 1}
      BY <2>1, EmbeddedBuckets
    <3> QED BY <3>1, MaskFacts
  <2>2. CASE k # 0
    <3>1. k \in 1 .. (number_of_segments - 1) /\ k \in 0 .. (number_of_segments - 1)
      BY <2>2, SegmentAssumption
    <3>2. b \in 0 .. MaskOf(k) /\ b \in Int
      <4>1. BucketsOf(k) = 2 ^ k .. MaskOf(k) /\ 2 ^ k \in Nat
        BY <3>1, BucketsOfSegment
      <4>2. PICK p : p = 2 ^ k
        OBVIOUS
      <4> QED BY <4>1, <4>2
    <3>3. MaskOf(k) <= MaskOf(j) /\ MaskOf(k) \in Nat /\ MaskOf(j) \in Nat
      BY <3>1, MasksGrow
    <3> QED BY <3>2, <3>3
  <2> QED BY <2>1, <2>2
<1>2. ASSUME NEW b \in 0 .. MaskOf(j), b >= 2 PROVE \E k \in 1 .. j : b \in BucketsOf(k)
  <2>1. b \in Nat /\ 1 <= b /\ j + 1 \in Exponents /\ b < 2 ^ (j + 1) /\ MaskOf(j) \in Nat
    BY <1>2, MaskFacts
  <2> DEFINE k == Log2(b)
  <2>2. k \in 0 .. j /\ 2 ^ k <= b /\ b < 2 ^ (k + 1)
    <3>1. k \in 0 .. ((j + 1) - 1) /\ 2 ^ k <= b /\ b < 2 ^ (k + 1)
      BY <2>1, Log2Range
    <3> HIDE DEF k
    <3> QED BY <3>1
  <2>3. k # 0
    <3>1. ASSUME k = 0 PROVE 2 ^ (k + 1) = 2
      BY <3>1
    <3> HIDE DEF k
    <3> QED BY <3>1, <2>2, <1>2
  <2> HIDE DEF k
  <2>4. k \in 1 .. (number_of_segments - 1) /\ k \in 1 .. j
    BY <2>2, <2>3, SegmentAssumption
  <2>5. b \in 2 ^ k .. MaskOf(k)
    <3>1. MaskOf(k) + 1 = 2 ^ (k + 1) /\ MaskOf(k) \in Nat
      BY <2>4, MaskFacts
    <3>2. 2 ^ k \in Nat
      BY <2>4, BucketsOfSegment
    <3> QED BY <3>1, <3>2, <2>1, <2>2
  <2> QED BY <2>4, <2>5, BucketsOfSegment
<1> QED BY <1>1, <1>2, MaskFacts

\* reserve() changes no list and no size; if it marks new buckets there is
\* nothing in the others that would belong there.
LEMMA ReservePlaced ==
    ASSUME NEW tab, TableOK(tab), AllInUse(tab), Placed(tab), NEW n \in 0 .. 2 ^ number_of_segments,
           tab.my_size = 0 => NodesIn(tab) = {}
    PROVE  LET new == reserve(tab, n)
           IN  /\ Placed(new) /\ new.node_list = tab.node_list /\ NodesIn(new) = NodesIn(tab)
               /\ new.tls = tab.tls /\ new.my_size = tab.my_size
               /\ new.on_init_size = tab.on_init_size /\ new.consistent = tab.consistent
<1> DEFINE new == reserve(tab, n)
<1>1. PICK j \in 0 .. (number_of_segments - 1) : tab.my_mask = MaskOf(j)
  BY DEF AllInUse, Grown
<1>2. TableOK(new) /\ AllInUse(new) /\ new.node_list = tab.node_list
  BY ReserveOK
<1>3. CASE n <= tab.my_mask + 1
  BY <1>3 DEF reserve
<1>4. CASE ~(n <= tab.my_mask + 1)
  <2> DEFINE first == segment_index_of(tab.my_mask + 1)
  <2> DEFINE s == segment_index_of(n - 1)
  <2> DEFINE last == LastEnabled(s)
  <2> DEFINE enabled == [tab EXCEPT !.segments = @ \cup (first .. last), !.my_mask = NewMask(last)]
  <2> DEFINE marked == mark_rehashed(enabled, first .. last)
  <2> DEFINE more == UNION {BucketsOf(k) : k \in first .. last}
  <2>1. new = IF tab.my_size = 0 THEN marked ELSE enabled
    BY <1>4 DEF reserve
  <2>2. first = j + 1
    BY <1>1, SegmentOfNext
  <2>3. s \in 0 .. (number_of_segments - 1)
    <3>1. number_of_segments - 1 \in 0 .. (number_of_segments - 1)
          /\ MaskOf(number_of_segments - 1) = 2 ^ number_of_segments - 1
      BY SegmentAssumption DEF MaskOf
    <3>2. MaskOf(j) \in Nat /\ MaskOf(number_of_segments - 1) \in Nat
      BY <3>1, MaskFacts
    <3>3. n - 1 \in 0 .. MaskOf(number_of_segments - 1)
      <4>1. 2 ^ number_of_segments \in Nat
        BY SegmentAssumption, Powers DEF Exponents
      <4>2. PICK p : p = 2 ^ number_of_segments
        OBVIOUS
      <4> QED BY <4>1, <4>2, <1>1, <1>4, <3>1, <3>2
    <3> QED BY <3>1, <3>3, SegmentOf
  <2> HIDE DEF s
  <2>4. last \in s .. (number_of_segments - 1) /\ last \in 0 .. (number_of_segments - 1)
        /\ NewMask(last) = MaskOf(last)
    <3>1. last \in s .. (number_of_segments - 1) /\ LastEnabled(last) = last
      BY <2>3, EnabledSegments
    <3>2. last \in 0 .. (number_of_segments - 1)
      BY <2>3, <3>1
    <3> HIDE DEF last
    <3> QED BY <3>1, <3>2, EnabledSegments
  <2> HIDE DEF first, last
  <2>5. enabled.node_list = tab.node_list /\ enabled.rehashed = tab.rehashed /\ enabled.my_mask = MaskOf(last)
        /\ enabled.tls = tab.tls /\ enabled.my_size = tab.my_size /\ enabled.durable = tab.durable
        /\ enabled.on_init_size = tab.on_init_size /\ enabled.consistent = tab.consistent
    BY <2>4 DEF TableOK, TableType
  <2>6. marked = [enabled EXCEPT !.rehashed = @ \cup more, !.durable = @ \cup more]
    BY DEF mark_rehashed
  <2> HIDE DEF more, marked
  <2>7. marked.node_list = enabled.node_list /\ marked.rehashed = enabled.rehashed \cup more
        /\ marked.my_mask = enabled.my_mask
        /\ marked.tls = enabled.tls /\ marked.my_size = enabled.my_size
        /\ marked.on_init_size = enabled.on_init_size /\ marked.consistent = enabled.consistent
    BY <2>6 DEF TableOK, TableType
  <2> HIDE DEF enabled, new
  <2>8. new.tls = tab.tls /\ new.my_size = tab.my_size /\ new.my_mask = MaskOf(last)
        /\ new.on_init_size = tab.on_init_size /\ new.consistent = tab.consistent
    BY <2>1, <2>5, <2>7
  <2>9. NodesIn(new) = NodesIn(tab)
    BY <1>2 DEF NodesIn
  <2>10. tab.my_mask <= MaskOf(last)
    <3>1. MaskOf(j) \in Nat /\ n - 1 \in 0 .. MaskOf(last) /\ MaskOf(last) \in Nat /\ n - 1 \in Nat
      <4>1. MaskOf(j) \in Nat
        BY MaskFacts
      <4>2. n - 1 \in 0 .. MaskOf(s)
        <5>1. n - 1 \in Nat /\ ~(n - 1 < 2)
          BY <4>1, <1>1, <1>4, MaskFacts
        <5>2. s = Log2(n - 1)
          BY <5>1 DEF s, segment_index_of
        <5>3. number_of_segments \in Exponents /\ n - 1 < 2 ^ number_of_segments
          BY <5>1, SegmentAssumption, Powers DEF Exponents
        <5>4. n - 1 < 2 ^ (Log2(n - 1) + 1)
          BY <5>1, <5>3, Log2Range
        <5>5. MaskOf(s) + 1 = 2 ^ (s + 1) /\ MaskOf(s) \in Nat
          BY <2>3, MaskFacts
        <5> QED BY <5>1, <5>2, <5>4, <5>5
      <4>3. MaskOf(s) <= MaskOf(last) /\ MaskOf(s) \in Nat /\ MaskOf(last) \in Nat
        <5>1. s <= last
          BY <2>3, <2>4
        <5> QED BY <5>1, <2>3, <2>4, MasksGrow
      <4> QED BY <4>1, <4>2, <4>3
    <3> QED BY <3>1, <1>1, <1>4
  <2>11. CASE tab.my_size # 0
    <3>1. new.rehashed = tab.rehashed
      BY <2>1, <2>5, <2>11
    <3> QED BY <3>1, <2>8, <2>9, <2>10, <1>2, SamePlaced DEF new
  <2>12. CASE tab.my_size = 0
    <3>1. new.rehashed = tab.rehashed \cup more
      BY <2>1, <2>5, <2>7, <2>12
    <3>2. NodesIn(new) = {}
      BY <2>9, <2>12
    <3>3. ASSUME NEW b \in Buckets, b \in new.rehashed PROVE b <= new.my_mask
      <4>1. CASE b \in tab.rehashed
        <5>1. b <= tab.my_mask
          BY <4>1 DEF Placed, InRange, Reached
        <5>2. b \in Nat /\ tab.my_mask \in Nat /\ MaskOf(last) \in Nat
          BY <2>4, MaskFacts, BucketsAreNumbers DEF TableOK, TableType
        <5> QED BY <5>1, <5>2, <2>8, <2>10
      <4>2. CASE b \in more
        <5>1. PICK k \in first .. last : b \in BucketsOf(k)
          BY <4>2 DEF more
        <5>2. k \in 0 .. last
          BY <5>1, <2>2, <2>4
        <5> QED BY <5>1, <5>2, <2>4, <2>8, SegmentsCover
      <4> QED BY <4>1, <4>2, <3>1, <3>3
    <3>4. Placed(new)
      BY <3>2, <3>3, EmptyPlaced
    <3> QED BY <3>4, <2>8, <2>9, <1>2 DEF new
  <2> QED BY <2>11, <2>12
<1> QED BY <1>3, <1>4

\* clear(): the lists are emptied, and the buckets that were added are gone.
LEMMA ClearPlaced ==
    ASSUME NEW tab, TableOK(tab), AllInUse(tab), Placed(tab)
    PROVE  LET new == ClearTable(tab)
           IN  /\ Placed(new) /\ NodesIn(new) = {}
               /\ new.tls = Construct /\ new.my_size = 0
               /\ new.on_init_size = 0 /\ new.consistent = tab.consistent
<1>1. PICK j \in 0 .. (number_of_segments - 1) : tab.my_mask = MaskOf(j)
  BY DEF AllInUse, Grown
<1> DEFINE new == ClearTable(tab)
<1> DEFINE gone == UNION {BucketsOf(k) : k \in 1 .. j}
<1> DEFINE emptied == UNION {BucketsOf(k) : k \in 0 .. j}
<1> DEFINE lists == [b \in Buckets |-> IF b \in emptied THEN {} ELSE tab.node_list[b]]
<1>2. segment_index_of(tab.my_mask) = j
  BY <1>1, SegmentOfMask
<1>3. disable(tab, 1 .. j) = [tab EXCEPT !.segments = @ \ (1 .. j), !.rehashed = @ \ gone, !.durable = @ \ gone]
  BY DEF disable
<1>4. clear_segments(tab, j) = [disable(tab, 1 .. j) EXCEPT !.node_list = lists]
  <2>1. clear_segments(tab, j) =
          [disable(tab, 1 .. j) EXCEPT !.node_list =
              [b \in Buckets |-> IF b \in emptied THEN {} ELSE disable(tab, 1 .. j).node_list[b]]]
    BY DEF clear_segments, embedded_segments, disable, TableOK, TableType
  <2>2. disable(tab, 1 .. j).node_list = tab.node_list
    BY <1>3 DEF TableOK, TableType
  <2> QED BY <2>1, <2>2
<1>5. embedded_buckets - 1 = 1
  BY DEF embedded_buckets, embedded_segments
<1>6. \A b \in Buckets : b \in tab.rehashed => b <= 1 \/ b \in gone
  <2>1. SUFFICES ASSUME NEW b \in Buckets, b \in tab.rehashed PROVE b <= 1 \/ b \in gone
    OBVIOUS
  <2>2. b <= MaskOf(j) /\ b \in Nat /\ MaskOf(j) \in Nat
    BY <2>1, <1>1, MaskFacts, BucketsAreNumbers DEF Placed, InRange, Reached
  <2>3. b < 2 \/ \E k \in 1 .. j : b \in BucketsOf(k)
    BY <2>2, SegmentsCover
  <2> QED BY <2>2, <2>3
<1>7. \A b \in Buckets : lists[b] = {}
  <2>1. SUFFICES ASSUME NEW b \in Buckets, b \notin emptied PROVE tab.node_list[b] = {}
    OBVIOUS
  <2>2. SUFFICES ASSUME tab.node_list[b] # {} PROVE FALSE
    OBVIOUS
  <2>3. b <= MaskOf(j) /\ b \in Nat /\ MaskOf(j) \in Nat
    BY <2>2, <1>1, MaskFacts, BucketsAreNumbers DEF Placed, InRange, Reached
  <2>4. b < 2 \/ \E k \in 1 .. j : b \in BucketsOf(k)
    BY <2>3, SegmentsCover
  <2>5. b \in BucketsOf(0) \/ \E k \in 1 .. j : b \in BucketsOf(k)
    BY <2>3, <2>4, EmbeddedBuckets
  <2>6. 0 \in 0 .. j /\ \A k \in 1 .. j : k \in 0 .. j
    OBVIOUS
  <2> QED BY <2>1, <2>5, <2>6
<1> HIDE DEF gone, emptied, lists
<1>8. new = [tab EXCEPT !.segments = tab.segments \ (1 .. j), !.rehashed = tab.rehashed \ gone,
                        !.durable = tab.durable \ gone, !.node_list = lists,
                        !.tls = clear(tab.tls), !.on_init_size = 0, !.my_mask = 1, !.my_size = 0]
  <2> DEFINE mid == clear_segments(tab, j)
  <2>1. mid = [tab EXCEPT !.segments = tab.segments \ (1 .. j), !.rehashed = tab.rehashed \ gone,
                        !.durable = tab.durable \ gone, !.node_list = lists]
    BY <1>3, <1>4 DEF TableOK, TableType
  <2>2. new = [mid EXCEPT !.tls = clear(@), !.on_init_size = 0, !.my_mask = 1, !.my_size = 0]
    BY <1>2, <1>5 DEF ClearTable
  <2> HIDE DEF mid, new
  <2> QED BY <2>1, <2>2 DEF TableOK, TableType
<1> HIDE DEF new
<1>9. new.node_list = lists /\ new.rehashed = tab.rehashed \ gone /\ new.my_mask = 1
      /\ new.tls = clear(tab.tls) /\ new.on_init_size = 0 /\ new.my_size = 0
      /\ new.consistent = tab.consistent
  BY <1>8 DEF TableOK, TableType
<1>10. NodesIn(new) = {}
  BY <1>7, <1>9 DEF NodesIn
<1>11. Placed(new)
  BY <1>6, <1>9, <1>10, EmptyPlaced
<1> QED BY <1>9, <1>10, <1>11 DEF clear, new

-----------------------------------------------------------------------------
(* The number of elements, and how it is kept *)

Sized(tab) == tab.my_size \in Int /\ tab.on_init_size \in Int /\ IsFiniteSet(NodesIn(tab))

\* What the threads have counted, since the number of elements was last summed up,
\* is right at every step: it is changed together with the lists.
Counted(tab) == tab.on_init_size + Total(tab.tls) = Cardinality(NodesIn(tab))

Exact(tab) == Sized(tab) /\ Counted(tab) /\ tab.my_size = Cardinality(NodesIn(tab))

LEMMA TlsOfTable ==
    ASSUME NEW tab, TableOK(tab)
    PROVE  TlsOK(tab.tls) /\ Total(tab.tls) \in Int
<1>1. TlsOK(tab.tls)
  BY DEF TableOK, TableType, TlsOK
<1> QED BY <1>1, TotalInt

\* All nodes are in buckets that are in use.
LEMMA DistanceIs ==
    ASSUME NEW tab, Placed(tab)
    PROVE  Iterated(tab) = NodesIn(tab) /\ distance(tab) = Cardinality(NodesIn(tab))
<1>1. Iterated(tab) = NodesIn(tab)
  <2>1. ASSUME NEW n \in NodesIn(tab) PROVE n \in Iterated(tab)
    <3>1. PICK b \in Buckets : n \in tab.node_list[b]
      BY DEF NodesIn
    <3>2. b <= tab.my_mask
      BY <3>1 DEF Placed, InRange, Reached
    <3> QED BY <3>1, <3>2 DEF Iterated
  <2>2. ASSUME NEW n \in Iterated(tab) PROVE n \in NodesIn(tab)
    BY DEF Iterated, NodesIn
  <2> QED BY <2>1, <2>2
<1> QED BY <1>1 DEF distance

\* The fields of a table, with whatever values.
IsTable(tab) ==
    tab \in [node_list : {tab.node_list}, rehashed : {tab.rehashed},
             durable : {tab.durable}, segments : {tab.segments}, my_mask : {tab.my_mask},
             my_size : {tab.my_size}, on_init_size : {tab.on_init_size},
             tls : {tab.tls}, consistent : {tab.consistent}]

LEMMA CountNewFields ==
    ASSUME NEW tab, IsTable(tab), NEW n \in Nat, NEW in_tx \in BOOLEAN, NEW thread
    PROVE  LET new == CountNew(tab, n, in_tx, thread)
           IN  /\ new.node_list = tab.node_list /\ new.rehashed = tab.rehashed
               /\ new.my_mask = tab.my_mask /\ new.consistent = tab.consistent
               /\ NodesIn(new) = NodesIn(tab)
<1> DEFINE new == CountNew(tab, n, in_tx, thread)
<1>1. /\ new.node_list = tab.node_list /\ new.rehashed = tab.rehashed
      /\ new.my_mask = tab.my_mask /\ new.consistent = tab.consistent
  <2> DEFINE e == Add(set_cached_size(resize(tab.tls, thread)), thread, n)
  <2>1. new = IF in_tx THEN [tab EXCEPT !.on_init_size = @ + n, !.my_size = @ + n]
              ELSE IF n = 0 THEN tab
              ELSE [tab EXCEPT !.tls = e, !.my_size = @ + n]
    BY DEF CountNew, IsTable
  <2> HIDE DEF new, e
  <2> QED BY <2>1 DEF IsTable
<1> QED BY <1>1 DEF NodesIn, new

LEMMA CountNewSizes ==
    ASSUME NEW tab, IsTable(tab), TlsOK(tab.tls), tab.my_size \in Int, tab.on_init_size \in Int,
           NEW n \in Nat, NEW in_tx \in BOOLEAN, NEW thread \in Nat
    PROVE  LET new == CountNew(tab, n, in_tx, thread)
           IN  /\ new.my_size = tab.my_size + n /\ new.on_init_size \in Int
               /\ new.on_init_size + Total(new.tls) = tab.on_init_size + Total(tab.tls) + n
<1> DEFINE new == CountNew(tab, n, in_tx, thread)
<1> DEFINE a == resize(tab.tls, thread)
<1> DEFINE b == set_cached_size(a)
<1> DEFINE e == Add(b, thread, n)
<1>1. new = IF in_tx THEN [tab EXCEPT !.on_init_size = @ + n, !.my_size = @ + n]
            ELSE IF n = 0 THEN tab
            ELSE [tab EXCEPT !.tls = e, !.my_size = @ + n]
  BY DEF CountNew, IsTable
<1>2. TlsOK(a) /\ thread < Len(a.storage) /\ Total(a) = Total(tab.tls)
  BY ResizeOK, TotalResize
<1> HIDE DEF a
<1>3. TlsOK(b) /\ b.storage = a.storage /\ Total(b) = Total(a)
  BY <1>2, CacheOK, TotalCached
<1> HIDE DEF b
<1>4. Total(e) = Total(b) + n
  BY <1>2, <1>3, TotalAdd
<1>5. Total(tab.tls) \in Int
  BY TotalInt
<1> HIDE DEF e, new
<1>6. CASE in_tx
  <2>1. new.my_size = tab.my_size + n /\ new.on_init_size = tab.on_init_size + n /\ new.tls = tab.tls
    BY <1>1, <1>6 DEF IsTable
  <2> QED BY <2>1, <1>5 DEF new
<1>7. CASE ~in_tx /\ n = 0
  <2>1. new = tab
    BY <1>1, <1>7
  <2> QED BY <2>1, <1>5, <1>7 DEF new
<1>8. CASE ~in_tx /\ n # 0
  <2>1. new.my_size = tab.my_size + n /\ new.on_init_size = tab.on_init_size /\ new.tls = e
    BY <1>1, <1>8 DEF IsTable
  <2> QED BY <2>1, <1>2, <1>3, <1>4, <1>5 DEF new
<1> QED BY <1>6, <1>7, <1>8

-----------------------------------------------------------------------------
(* The elements of a list *)

\* The node of an element.
Element(list, ids, i) == [id |-> ids[i], key |-> list[i].key, val |-> list[i].val]
Elements(list, ids) == {Element(list, ids, i) : i \in DOMAIN list}

\* Those of a bucket.
ElementsOf(list, ids, m, b) ==
    {Element(list, ids, i) : i \in {k \in DOMAIN list : Masked(hasher[list[k].key], m) = b}}

Lists == Seq([key : Keys, val : Values])

DistinctKeys(list) == \A i, k \in DOMAIN list : list[i].key = list[k].key => i = k

LEMMA ListTypes ==
    ASSUME NEW list \in Lists
    PROVE  /\ Len(list) \in Nat /\ DOMAIN list = 1 .. Len(list)
           /\ \A i \in DOMAIN list : /\ list[i].key \in Keys /\ list[i].val \in Values
                                     /\ hasher[list[i].key] \in Nat
<1> DEFINE E == [key : Keys, val : Values]
<1>1. list \in Seq(E)
  BY DEF Lists
<1> HIDE DEF E
<1>2. Len(list) \in Nat /\ DOMAIN list = 1 .. Len(list) /\ \A i \in DOMAIN list : list[i] \in E
  BY <1>1
<1> QED BY <1>2, HashAssumption DEF E

LEMMA ElementFacts ==
    ASSUME NEW list, NEW ids, NEW i
    PROVE  /\ Element(list, ids, i).id = ids[i] /\ Element(list, ids, i).key = list[i].key
           /\ Element(list, ids, i).val = list[i].val
  BY DEF Element

CopiedTo(tab, new, list, ids) ==
    \A b \in Buckets : new.node_list[b] = tab.node_list[b] \cup ElementsOf(list, ids, tab.my_mask, b)

LEMMA CopyNodes ==
    ASSUME NEW tab, TableOK(tab), AllInUse(tab), NEW list \in Lists, NEW ids,
           NEW in_tx \in BOOLEAN, NEW thread
    PROVE  LET new == internal_copy(tab, list, ids, in_tx, thread)
           IN  /\ CopiedTo(tab, new, list, ids)
               /\ NodesIn(new) = NodesIn(tab) \cup Elements(list, ids)
               /\ new.rehashed = tab.rehashed /\ new.my_mask = tab.my_mask
               /\ new.consistent = tab.consistent
<1> DEFINE of(b) == {i \in DOMAIN list : Masked(hasher[list[i].key], tab.my_mask) = b}
<1> DEFINE lists == [b \in Buckets |-> tab.node_list[b] \cup {Element(list, ids, i) : i \in of(b)}]
<1> DEFINE copied == [tab EXCEPT !.node_list = lists]
<1> DEFINE new == internal_copy(tab, list, ids, in_tx, thread)
<1>1. copied = [tab EXCEPT !.node_list = [b \in Buckets |-> @[b] \cup {Element(list, ids, i) : i \in of(b)}]]
  BY DEF TableOK, TableType
<1>2. new = CountNew(copied, Len(list), in_tx, thread)
  BY <1>1 DEF internal_copy, Element
<1> HIDE DEF new
<1>3. \A b \in Buckets : lists[b] = tab.node_list[b] \cup {Element(list, ids, i) : i \in of(b)}
  OBVIOUS
<1> HIDE DEF lists
<1>4. IsTable(copied) /\ copied.node_list = lists /\ copied.rehashed = tab.rehashed
      /\ copied.my_mask = tab.my_mask /\ copied.consistent = tab.consistent
  BY DEF TableOK, TableType, IsTable
<1> HIDE DEF copied
<1>5. new.node_list = lists /\ new.rehashed = tab.rehashed /\ new.my_mask = tab.my_mask
      /\ new.consistent = tab.consistent /\ NodesIn(new) = NodesIn(copied)
  BY <1>2, <1>4, ListTypes, CountNewFields
<1>6. NodesIn(new) = NodesIn(tab) \cup Elements(list, ids)
  <2>1. ASSUME NEW x \in NodesIn(new) PROVE x \in NodesIn(tab) \cup Elements(list, ids)
    <3>1. PICK b \in Buckets : x \in lists[b]
      BY <1>5 DEF NodesIn
    <3> QED BY <3>1, <1>3 DEF NodesIn, Elements
  <2>2. ASSUME NEW x \in NodesIn(tab) PROVE x \in NodesIn(new)
    <3>1. PICK b \in Buckets : x \in tab.node_list[b]
      BY DEF NodesIn
    <3>2. x \in new.node_list[b]
      BY <3>1, <1>3, <1>5
    <3> QED BY <3>2 DEF NodesIn
  <2>3. ASSUME NEW i \in DOMAIN list PROVE Element(list, ids, i) \in NodesIn(new)
    <3> DEFINE b == Masked(hasher[list[i].key], tab.my_mask)
    <3>1. hasher[list[i].key] \in Nat
      BY ListTypes
    <3>2. b \in Buckets
      BY <3>1, MaskedBucket
    <3>3. i \in of(b)
      OBVIOUS
    <3> HIDE DEF b, of
    <3>4. Element(list, ids, i) \in new.node_list[b]
      BY <3>2, <3>3, <1>3, <1>5
    <3> QED BY <3>2, <3>4 DEF NodesIn
  <2> QED BY <2>1, <2>2, <2>3 DEF Elements
<1>7. CopiedTo(tab, new, list, ids)
  BY <1>3, <1>5 DEF ElementsOf, CopiedTo
<1> QED BY <1>5, <1>6, <1>7 DEF new

LEMMA ElementsCounted ==
    ASSUME NEW list \in Lists, NEW ids,
           \A i, k \in DOMAIN list : ids[i] = ids[k] => i = k
    PROVE  IsFiniteSet(Elements(list, ids)) /\ Cardinality(Elements(list, ids)) = Len(list)
<1> DEFINE f == [i \in 1 .. Len(list) |-> Element(list, ids, i)]
<1>1. Len(list) \in Nat /\ DOMAIN list = 1 .. Len(list)
  BY ListTypes
<1>2. f \in Bijection(1 .. Len(list), Elements(list, ids))
  <2>1. f \in [1 .. Len(list) -> Elements(list, ids)]
    BY <1>1 DEF Elements
  <2>2. ASSUME NEW i \in 1 .. Len(list), NEW k \in 1 .. Len(list), f[i] = f[k] PROVE i = k
    <3>1. Element(list, ids, i) = Element(list, ids, k)
      BY <2>2
    <3>2. ids[i] = ids[k]
      BY <3>1, ElementFacts
    <3> QED BY <3>2, <1>1
  <2>3. ASSUME NEW x \in Elements(list, ids) PROVE \E i \in 1 .. Len(list) : f[i] = x
    BY <1>1 DEF Elements
  <2> HIDE DEF f
  <2> QED BY <2>1, <2>2, <2>3 DEF Bijection, Injection, Surjection, IsInjective
<1>3. IsFiniteSet(1 .. Len(list)) /\ Cardinality(1 .. Len(list)) = Len(list)
  <2>1. 1 \in Int /\ Len(list) \in Int
    BY <1>1
  <2>2. IsFiniteSet(1 .. Len(list)) /\ Cardinality(1 .. Len(list)) = IF 1 > Len(list) THEN 0 ELSE Len(list) - 1 + 1
    BY <2>1, FS_Interval
  <2> QED BY <2>2, <1>1
<1>4. ExistsBijection(1 .. Len(list), Elements(list, ids))
  BY <1>2 DEF ExistsBijection
<1> QED BY <1>3, <1>4, FS_Bijection

\* A map that is empty takes the elements of a list.
LEMMA CopyPlaced ==
    ASSUME NEW tab, TableOK(tab), AllInUse(tab), Placed(tab), NodesIn(tab) = {},
           tab.my_size = 0, tab.on_init_size = 0, tab.tls = Construct,
           NEW list \in Lists, DistinctKeys(list), NEW ids,
           \A i, k \in DOMAIN list : ids[i] = ids[k] => i = k,
           NEW in_tx \in BOOLEAN, NEW thread \in Nat
    PROVE  LET new == internal_copy(tab, list, ids, in_tx, thread)
           IN  Placed(new) /\ Exact(new) /\ new.consistent = tab.consistent
               /\ NodesIn(new) = Elements(list, ids)
<1> DEFINE new == internal_copy(tab, list, ids, in_tx, thread)
<1>1. /\ \A b \in Buckets : new.node_list[b] = tab.node_list[b] \cup ElementsOf(list, ids, tab.my_mask, b)
      /\ NodesIn(new) = Elements(list, ids)
      /\ new.rehashed = tab.rehashed /\ new.my_mask = tab.my_mask /\ new.consistent = tab.consistent
  <2>1. CopiedTo(tab, new, list, ids) /\ NodesIn(new) = NodesIn(tab) \cup Elements(list, ids)
        /\ new.rehashed = tab.rehashed /\ new.my_mask = tab.my_mask /\ new.consistent = tab.consistent
    BY CopyNodes
  <2> QED BY <2>1 DEF CopiedTo
<1>2. \A b \in Buckets : tab.node_list[b] = {}
  BY DEF NodesIn
<1>3. PICK j \in 0 .. (number_of_segments - 1) : tab.my_mask = MaskOf(j)
  BY DEF AllInUse, Grown
<1>4. new.my_size = Len(list) /\ new.on_init_size \in Int /\ new.on_init_size + Total(new.tls) = Len(list)
  <2> DEFINE of(b) == {k \in DOMAIN list : Masked(hasher[list[k].key], tab.my_mask) = b}
  <2> DEFINE lists == [b \in Buckets |-> tab.node_list[b] \cup {Element(list, ids, i) : i \in of(b)}]
  <2> DEFINE copied == [tab EXCEPT !.node_list = lists]
  <2>1. copied = [tab EXCEPT !.node_list = [b \in Buckets |-> @[b] \cup {Element(list, ids, i) : i \in of(b)}]]
    BY DEF TableOK, TableType
  <2>2. new = CountNew(copied, Len(list), in_tx, thread)
    BY <2>1 DEF internal_copy, Element
  <2> HIDE DEF lists
  <2>3. IsTable(copied) /\ copied.tls = Construct /\ copied.my_size = 0 /\ copied.on_init_size = 0
    BY DEF TableOK, TableType, IsTable
  <2> HIDE DEF copied, new
  <2>4. TlsOK(copied.tls) /\ Total(copied.tls) = 0
    <3>1. Total(Construct) = 0 /\ TlsOK(Construct)
      BY TotalClear, ClearOK DEF clear
    <3> QED BY <3>1, <2>3
  <2>5. Len(list) \in Nat
    BY ListTypes
  <2> DEFINE counted == CountNew(copied, Len(list), in_tx, thread)
  <2>6. counted.my_size = copied.my_size + Len(list) /\ counted.on_init_size \in Int
        /\ counted.on_init_size + Total(counted.tls) = copied.on_init_size + Total(copied.tls) + Len(list)
    <3>1. copied.my_size \in Int /\ copied.on_init_size \in Int
      BY <2>3
    <3> QED BY <3>1, <2>3, <2>4, <2>5, CountNewSizes
  <2> HIDE DEF counted
  <2> QED BY <2>2, <2>3, <2>4, <2>5, <2>6 DEF counted
<1> HIDE DEF new
<1>5. ASSUME NEW b \in Buckets, NEW x \in new.node_list[b]
      PROVE  \E i \in DOMAIN list : x = Element(list, ids, i) /\ x.key = list[i].key /\ hasher[x.key] \in Nat
                /\ b = Masked(hasher[x.key], MaskOf(j))
  <2>1. x \in ElementsOf(list, ids, tab.my_mask, b)
    BY <1>1, <1>2, <1>5
  <2>2. PICK i \in DOMAIN list : x = Element(list, ids, i) /\ b = Masked(hasher[list[i].key], MaskOf(j))
    BY <2>1, <1>3 DEF ElementsOf
  <2>3. x.key = list[i].key
    BY <2>2, ElementFacts
  <2>4. hasher[list[i].key] \in Nat
    BY ListTypes
  <2> QED BY <2>2, <2>3, <2>4
<1>6. InRange(new)
  <2>1. SUFFICES ASSUME NEW b \in Buckets, Reached(new, b) PROVE b <= tab.my_mask
    BY <1>1 DEF InRange
  <2>2. CASE b \in tab.rehashed
    BY <2>2 DEF Placed, InRange, Reached
  <2>3. CASE b \notin tab.rehashed
    <3>1. PICK x : x \in new.node_list[b]
      BY <2>1, <2>3, <1>1 DEF Reached
    <3>2. b = Masked(hasher[x.key], MaskOf(j)) /\ hasher[x.key] \in Nat
      BY <3>1, <1>5
    <3> QED BY <3>2, <1>3, ChainOfMask
  <2> QED BY <2>2, <2>3
<1>7. Located(new)
  <2>1. SUFFICES ASSUME NEW b \in Buckets, NEW x \in new.node_list[b], NEW c \in Buckets,
                        OfChain(hasher[x.key], c), b < c, Reached(new, c)
                 PROVE  FALSE
    BY DEF Located
  <2>2. b = Masked(hasher[x.key], MaskOf(j)) /\ hasher[x.key] \in Nat
    BY <1>5
  <2>3. c <= MaskOf(j)
    BY <2>1, <1>1, <1>3, <1>6 DEF InRange
  <2>4. c <= b
    BY <2>1, <2>2, <2>3, ChainOfMask
  <2> QED BY <2>1, <2>4, BucketsAreNumbers
<1>8. KeysDiffer(new)
  <2>1. SUFFICES ASSUME NEW b \in Buckets, NEW x \in new.node_list[b], NEW y \in new.node_list[b], x.key = y.key
                 PROVE  x = y
    BY DEF KeysDiffer
  <2>2. PICK i \in DOMAIN list : x = Element(list, ids, i) /\ x.key = list[i].key
    BY <1>5
  <2>3. PICK k \in DOMAIN list : y = Element(list, ids, k) /\ y.key = list[k].key
    BY <1>5
  <2>4. i = k
    BY <2>1, <2>2, <2>3 DEF DistinctKeys
  <2> QED BY <2>2, <2>3, <2>4
<1>9. IsFiniteSet(NodesIn(new)) /\ Cardinality(NodesIn(new)) = Len(list) /\ Len(list) \in Nat
  <2>1. IsFiniteSet(Elements(list, ids)) /\ Cardinality(Elements(list, ids)) = Len(list)
    BY ElementsCounted
  <2> QED BY <1>1, <2>1, ListTypes
<1> QED BY <1>1, <1>4, <1>6, <1>7, <1>8, <1>9 DEF Placed, Exact, Sized, Counted, new

\* A map that was just constructed.
LEMMA ConstructedPlaced ==
    /\ TableOK(Constructed) /\ AllInUse(Constructed) /\ Placed(Constructed) /\ NodesIn(Constructed) = {}
    /\ Exact(Constructed) /\ Constructed.my_size = 0 /\ Constructed.on_init_size = 0
    /\ Constructed.tls = Construct /\ Constructed.consistent
<1>1. embedded_buckets - 1 = 1
  BY DEF embedded_buckets, embedded_segments
<1>2. /\ Constructed.node_list = [b \in Buckets |-> {}] /\ Constructed.my_mask = 1
      /\ Constructed.rehashed = {0, 1} /\ Constructed.my_size = 0 /\ Constructed.on_init_size = 0
      /\ Constructed.tls = Construct /\ Constructed.consistent = TRUE
  BY <1>1, EmbeddedBuckets DEF Constructed
<1>3. NodesIn(Constructed) = {}
  BY <1>2 DEF NodesIn
<1>4. Placed(Constructed)
  <2>1. \A b \in Buckets : b \in Constructed.rehashed => b <= Constructed.my_mask
    BY <1>2
  <2> QED BY <2>1, <1>3, EmptyPlaced
<1>5. Exact(Constructed)
  <2>1. Total(Constructed.tls) = 0
    BY <1>2, TotalClear
  <2>2. IsFiniteSet(NodesIn(Constructed)) /\ Cardinality(NodesIn(Constructed)) = 0
    BY <1>3, FS_EmptySet
  <2> QED BY <1>2, <2>1, <2>2 DEF Exact, Sized, Counted
<1> QED BY <1>2, <1>3, <1>4, <1>5, ConstructedOK

\* What is counted stays as it is.
SameCounts(tab, new) ==
    /\ new.tls = tab.tls /\ new.my_size = tab.my_size /\ new.on_init_size = tab.on_init_size
    /\ new.consistent = tab.consistent /\ NodesIn(new) = NodesIn(tab)

LEMMA CountsKept ==
    ASSUME NEW tab, NEW new, SameCounts(tab, new)
    PROVE  /\ Sized(tab) => Sized(new)
           /\ Counted(tab) => Counted(new)
           /\ Exact(tab) => Exact(new)
  BY DEF SameCounts, Sized, Counted, Exact

LEMMA Zeroed ==
    ASSUME NEW tab, Exact(tab), tab.my_size = 0
    PROVE  NodesIn(tab) = {}
  BY FS_EmptySet DEF Exact, Sized

\* A list that is given to a map that is empty.
LEMMA FilledPlaced ==
    ASSUME NEW tab, TableOK(tab), AllInUse(tab), Placed(tab), NodesIn(tab) = {},
           tab.my_size = 0, tab.on_init_size = 0, tab.tls = Construct,
           NEW n \in 0 .. 2 ^ number_of_segments,
           NEW list \in Lists, DistinctKeys(list), NEW ids,
           \A i, k \in DOMAIN list : ids[i] = ids[k] => i = k,
           NEW in_tx \in BOOLEAN, NEW thread \in Nat
    PROVE  LET new == internal_copy(reserve(tab, n), list, ids, in_tx, thread)
           IN  Placed(new) /\ Exact(new) /\ new.consistent = tab.consistent
               /\ NodesIn(new) = Elements(list, ids)
<1> DEFINE r == reserve(tab, n)
<1>1. TableOK(r) /\ AllInUse(r)
  BY ReserveOK
<1>2. Placed(r) /\ NodesIn(r) = {} /\ r.tls = Construct /\ r.my_size = 0 /\ r.on_init_size = 0
      /\ r.consistent = tab.consistent
  BY ReservePlaced
<1> HIDE DEF r
<1>3. LET new == internal_copy(r, list, ids, in_tx, thread)
      IN  Placed(new) /\ Exact(new) /\ new.consistent = r.consistent
          /\ NodesIn(new) = Elements(list, ids)
  BY <1>1, <1>2, CopyPlaced
<1> QED BY <1>2, <1>3 DEF r

LEMMA AssignedPlaced ==
    ASSUME NEW tab, TableOK(tab), AllInUse(tab), Placed(tab),
           NEW n \in 0 .. 2 ^ number_of_segments,
           NEW list \in Lists, DistinctKeys(list), NEW ids,
           \A i, k \in DOMAIN list : ids[i] = ids[k] => i = k,
           NEW in_tx \in BOOLEAN, NEW thread \in Nat
    PROVE  LET new == internal_copy(reserve(ClearTable(tab), n), list, ids, in_tx, thread)
           IN  Placed(new) /\ Exact(new) /\ new.consistent = tab.consistent
               /\ NodesIn(new) = Elements(list, ids)
<1> DEFINE c == ClearTable(tab)
<1>1. TableOK(c) /\ AllInUse(c)
  BY ClearTableOK
<1>2. Placed(c) /\ NodesIn(c) = {} /\ c.tls = Construct /\ c.my_size = 0 /\ c.on_init_size = 0
      /\ c.consistent = tab.consistent
  BY ClearPlaced
<1> HIDE DEF c
<1>3. LET new == internal_copy(reserve(c, n), list, ids, in_tx, thread)
      IN  Placed(new) /\ Exact(new) /\ new.consistent = c.consistent
          /\ NodesIn(new) = Elements(list, ids)
  BY <1>1, <1>2, FilledPlaced
<1> QED BY <1>2, <1>3 DEF c

\* clear() leaves nothing.
LEMMA ClearExact ==
    ASSUME NEW tab, TableOK(tab), AllInUse(tab), Placed(tab)
    PROVE  Exact(ClearTable(tab))
<1> DEFINE c == ClearTable(tab)
<1>1. NodesIn(c) = {} /\ c.tls = Construct /\ c.my_size = 0 /\ c.on_init_size = 0
  BY ClearPlaced
<1> HIDE DEF c
<1>2. Total(c.tls) = 0
  BY <1>1, TotalClear
<1> QED BY <1>1, <1>2, FS_EmptySet DEF Exact, Sized, Counted, c

-----------------------------------------------------------------------------
(* Exchange of two maps, and restart *)

LEMMA SwapPlaced ==
    ASSUME NEW a, TableOK(a), AllInUse(a), Placed(a), Exact(a),
           NEW b, TableOK(b), AllInUse(b), Placed(b), Exact(b),
           a.on_init_size = b.on_init_size
    PROVE  LET new == internal_swap(a, b)
           IN  Placed(new) /\ Exact(new) /\ NodesIn(new) = NodesIn(b) /\ new.consistent = a.consistent
<1> DEFINE new == internal_swap(a, b)
<1>1. /\ new.node_list = b.node_list /\ new.my_mask = b.my_mask
      /\ new.rehashed = BucketsOf(0) \cup b.rehashed /\ new.tls = b.tls /\ new.my_size = b.my_size
      /\ new.on_init_size = a.on_init_size /\ new.consistent = a.consistent
  BY DEF internal_swap, TableOK, TableType
<1> HIDE DEF new
<1>2. new.rehashed = b.rehashed
  BY <1>1, EmbeddedBuckets DEF TableOK
<1>3. TableOK(new)
  BY SwapOK DEF new
<1>4. Placed(new) /\ NodesIn(new) = NodesIn(b)
  <2>1. b.my_mask <= new.my_mask
    BY <1>1 DEF TableOK, TableType
  <2> QED BY <1>1, <1>2, <1>3, <2>1, SamePlaced
<1>5. Exact(new)
  BY <1>1, <1>4 DEF Exact, Sized, Counted
<1> QED BY <1>1, <1>4, <1>5 DEF new

LEMMA SwapUndonePlaced ==
    ASSUME NEW a, NEW b, TableOK(b), AllInUse(b), Placed(b), Exact(b),
           a.my_mask = b.my_mask, a.my_size = b.my_size
    PROVE  LET new == SwapUndone(a, b)
           IN  Placed(new) /\ Exact(new) /\ NodesIn(new) = NodesIn(b) /\ new.consistent = b.consistent
<1> DEFINE new == SwapUndone(a, b)
<1>1. new = b
  BY DEF SwapUndone, TableOK, TableType
<1> QED BY <1>1

LEMMA MaskPlaced ==
    ASSUME NEW tab, TableOK(tab), AllInUse(tab) \/ OneToPublish(tab), Placed(tab)
    PROVE  LET new == calculate_mask(tab)
           IN  Placed(new) /\ SameCounts(tab, new)
<1> DEFINE new == calculate_mask(tab)
<1>1. TableOK(new) /\ AllInUse(new)
  BY CalculateMaskOK
<1>2. PICK m : new = [tab EXCEPT !.my_mask = m]
  BY DEF calculate_mask
<1> HIDE DEF new
<1>3. new.node_list = tab.node_list /\ new.rehashed = tab.rehashed /\ new.segments = tab.segments
      /\ new.tls = tab.tls /\ new.my_size = tab.my_size /\ new.on_init_size = tab.on_init_size
      /\ new.consistent = tab.consistent
  BY <1>2 DEF TableOK, TableType
<1>4. tab.my_mask <= new.my_mask
  <2>1. PICK k \in 0 .. (number_of_segments - 1) : new.my_mask = MaskOf(k) /\ tab.segments = 0 .. k
    BY <1>1, <1>3 DEF AllInUse, Grown
  <2>2. CASE AllInUse(tab)
    <3>1. PICK j \in 0 .. (number_of_segments - 1) : tab.my_mask = MaskOf(j) /\ tab.segments = 0 .. j
      BY <2>2 DEF AllInUse, Grown
    <3>2. j \in 0 .. k
      BY <2>1, <3>1
    <3> QED BY <2>1, <3>1, <3>2, MasksGrow
  <2>3. CASE OneToPublish(tab)
    <3>1. PICK j \in 0 .. (number_of_segments - 1) :
            j + 1 < number_of_segments /\ tab.my_mask = MaskOf(j) /\ tab.segments = 0 .. LastEnabled(j + 1)
      BY <2>3 DEF OneToPublish, Grown
    <3>2. j + 1 \in 0 .. (number_of_segments - 1)
      BY <3>1, SegmentAssumption
    <3>3. LastEnabled(j + 1) \in (j + 1) .. (number_of_segments - 1)
      BY <3>2, EnabledSegments
    <3>4. j \in 0 .. k
      BY <2>1, <3>1, <3>3
    <3> QED BY <2>1, <3>1, <3>4, MasksGrow
  <2> QED BY <2>2, <2>3
<1>5. Placed(new) /\ NodesIn(new) = NodesIn(tab)
  BY <1>1, <1>3, <1>4, SamePlaced
<1> QED BY <1>3, <1>5 DEF SameCounts, new

\* runtime_initialize(): the number of elements is added up from what was
\* counted, or counted anew.
LEMMA InitializePlaced ==
    ASSUME NEW tab, TableOK(tab), AllInUse(tab) \/ OneToPublish(tab), Placed(tab), Sized(tab),
           tab.consistent => Counted(tab)
    PROVE  LET new == runtime_initialize(tab)
           IN  Placed(new) /\ Exact(new) /\ NodesIn(new) = NodesIn(tab) /\ new.consistent
<1> DEFINE m == calculate_mask(tab)
<1> DEFINE new == runtime_initialize(tab)
<1>1. TableOK(m) /\ Placed(m) /\ SameCounts(tab, m)
  BY CalculateMaskOK, MaskPlaced
<1>2. new = IF m.consistent THEN tls_restore(m) ELSE CountElements(m)
  BY DEF runtime_initialize
<1> HIDE DEF m, new
<1>3. Sized(m) /\ (m.consistent => Counted(m))
  BY <1>1, CountsKept DEF SameCounts
<1> DEFINE total == Cardinality(NodesIn(m))
<1>4. new.my_size = total /\ new.on_init_size = total /\ new.tls = Construct /\ new.consistent
      /\ new.node_list = m.node_list /\ new.rehashed = m.rehashed /\ new.my_mask = m.my_mask
  <2>1. CASE m.consistent
    <3> DEFINE now == m.on_init_size + Total(m.tls)
    <3>1. now = total
      BY <1>3, <2>1 DEF Counted
    <3>2. new = [m EXCEPT !.on_init_size = now, !.tls = clear(@), !.my_size = now]
      BY <1>2, <2>1 DEF tls_restore
    <3> HIDE DEF now, total
    <3> QED BY <3>1, <3>2, <1>1, <2>1 DEF TableOK, TableType, clear
  <2>2. CASE ~m.consistent
    <3>1. distance(m) = total
      BY <1>1, DistanceIs
    <3>2. new = [m EXCEPT !.my_size = distance(m), !.on_init_size = distance(m), !.tls = clear(@),
                          !.consistent = TRUE]
      BY <1>2, <2>2 DEF CountElements
    <3> HIDE DEF total
    <3> QED BY <3>1, <3>2, <1>1 DEF TableOK, TableType, clear
  <2> QED BY <2>1, <2>2
<1>5. TableOK(new)
  BY InitializeOK DEF new
<1>6. Placed(new) /\ NodesIn(new) = NodesIn(m)
  <2>1. m.my_mask <= new.my_mask
    BY <1>1, <1>4 DEF TableOK, TableType
  <2> QED BY <1>1, <1>4, <1>5, <2>1, SamePlaced
<1>7. Exact(new)
  <2>1. IsFiniteSet(NodesIn(new)) /\ Cardinality(NodesIn(new)) = total /\ total \in Nat
    BY <1>3, <1>6, FS_CardinalityType DEF Sized
  <2>2. Total(new.tls) = 0
    BY <1>4, TotalClear
  <2> HIDE DEF total
  <2> QED BY <1>4, <2>1, <2>2 DEF Exact, Sized, Counted
<1> QED BY <1>1, <1>4, <1>6, <1>7 DEF SameCounts, new

-----------------------------------------------------------------------------
(* rehash(sz) *)

LEMMA RehashBucketPlaced ==
    ASSUME NEW tab, TableOK(tab), Placed(tab), NEW h \in Buckets, h >= 2, h <= tab.my_mask,
           h \notin tab.rehashed, tab.node_list[h] # {} \/ Parent(h) \in tab.rehashed
    PROVE  LET new == rehash_bucket(tab, h)
           IN  /\ Placed(new) /\ SameCounts(tab, new) /\ new.my_mask = tab.my_mask
               /\ new.rehashed = tab.rehashed \cup {h}
               /\ \A b \in Buckets : b > h => new.node_list[b] = tab.node_list[b]
<1> DEFINE moved == IF MovedBeforeCrash(tab, h) THEN tab ELSE MoveNodes(tab, h)
<1> DEFINE p == Parent(h)
<1>1. p \in Buckets /\ p < h /\ h \in Nat /\ p \in Nat
  BY ParentFacts, BucketsAreNumbers
<1>2. /\ TableOK(moved) /\ Placed(moved) /\ SameCounts(tab, moved) /\ moved.my_mask = tab.my_mask
      /\ moved.rehashed = tab.rehashed
      /\ \A b \in Buckets : b > h => moved.node_list[b] = tab.node_list[b]
      /\ Reached(moved, h) \/ (Reached(moved, p) /\ \A n \in moved.node_list[p] : ~OfChain(hasher[n.key], h))
  <2>1. CASE MovedBeforeCrash(tab, h)
    <3>1. moved = tab
      BY <2>1
    <3>2. Reached(tab, h)
      BY <2>1 DEF MovedBeforeCrash, Reached
    <3> HIDE DEF moved
    <3> QED BY <3>1, <3>2 DEF SameCounts
  <2>2. CASE ~MovedBeforeCrash(tab, h)
    <3>1. moved = MoveNodes(tab, h)
      BY <2>2
    <3> HIDE DEF moved, p
    <3>2. ~Reached(tab, h) /\ Reached(tab, Parent(h))
      BY <2>2 DEF MovedBeforeCrash, Reached
    <3>3. Placed(moved) /\ NodesIn(moved) = NodesIn(tab)
          /\ \A n \in moved.node_list[p] : ~OfChain(hasher[n.key], h)
      BY <3>1, <3>2, MovePlaced DEF p
    <3>4. TableOK(moved) /\ moved.rehashed = tab.rehashed /\ moved.my_mask = tab.my_mask
          /\ \A c \in Buckets \ {h, p} : moved.node_list[c] = tab.node_list[c]
      BY <3>1, MoveOK DEF p
    <3>5. moved.tls = tab.tls /\ moved.my_size = tab.my_size /\ moved.on_init_size = tab.on_init_size
          /\ moved.consistent = tab.consistent
      <4>1. PICK lists : moved = [tab EXCEPT !.node_list = lists]
        BY <3>1, MoveFields
      <4> QED BY <4>1 DEF TableOK, TableType
    <3>6. \A b \in Buckets : b > h => moved.node_list[b] = tab.node_list[b]
      BY <3>4, <1>1, BucketsAreNumbers
    <3>7. Reached(moved, p)
      <4>1. Parent(h) \in tab.rehashed
        BY <2>2 DEF MovedBeforeCrash
      <4> QED BY <4>1, <3>4 DEF Reached, p
    <3> QED BY <3>3, <3>4, <3>5, <3>6, <3>7 DEF SameCounts
  <2> QED BY <2>1, <2>2
<1> HIDE DEF moved
<1> DEFINE flagged == set_rehashed(moved, h)
<1>3. Placed(flagged) /\ NodesIn(flagged) = NodesIn(moved)
  BY <1>2, MarkPlaced
<1>4. TableOK(flagged)
  BY <1>2, SetRehashedOK
<1>5. /\ flagged.node_list = moved.node_list /\ flagged.rehashed = moved.rehashed \cup {h}
      /\ flagged.tls = moved.tls /\ flagged.consistent = moved.consistent
      /\ flagged.my_mask = moved.my_mask
      /\ flagged.my_size = moved.my_size /\ flagged.on_init_size = moved.on_init_size
  BY <1>2, MarkFields
<1> HIDE DEF flagged
<1> DEFINE new == persist_rehashed(flagged, h)
<1>6. TableOK(new)
  BY <1>4, PersistRehashedOK
<1>7. /\ new.node_list = flagged.node_list /\ new.rehashed = flagged.rehashed /\ new.tls = flagged.tls
      /\ new.my_mask = flagged.my_mask /\ new.consistent = flagged.consistent
      /\ new.my_size = flagged.my_size /\ new.on_init_size = flagged.on_init_size
  BY <1>4, PersistFields
<1>8. rehash_bucket(tab, h) = new
  BY DEF rehash_bucket, moved, flagged
<1> HIDE DEF new
<1>9. Placed(new) /\ NodesIn(new) = NodesIn(flagged)
  <2>1. flagged.my_mask <= new.my_mask
    BY <1>4, <1>7 DEF TableOK, TableType
  <2> QED BY <1>3, <1>4, <1>6, <1>7, <2>1, SamePlaced
<1> QED BY <1>2, <1>3, <1>5, <1>7, <1>8, <1>9 DEF SameCounts

\* A number has more bits the larger the mask.
LEMMA ModLeast ==
    ASSUME NEW x \in Nat, NEW m \in Nat \ {0}
    PROVE  x % m <= x /\ x % m \in Nat /\ x % m < m
<1>1. x % m \in 0 .. (m - 1) /\ x \div m \in Nat /\ x = m * (x \div m) + (x % m)
  BY DivMod
<1>2. PICK q, r : q = x \div m /\ r = x % m
  OBVIOUS
<1>3. q \in Nat /\ r \in 0 .. (m - 1) /\ x = m * q + r
  BY <1>1, <1>2
<1>4. m * q \in Nat
  BY <1>3
<1>5. r <= x /\ r \in Nat /\ r < m
  BY <1>3, <1>4
<1> QED BY <1>2, <1>5

LEMMA MasksLead ==
    ASSUME NEW x \in Nat, NEW i \in Exponents, NEW j \in Exponents, i <= j
    PROVE  x % 2 ^ i <= x % 2 ^ j
<1>1. 2 ^ i \in Nat \ {0} /\ 2 ^ j \in Nat \ {0}
  BY Powers
<1>2. (x % 2 ^ j) % 2 ^ i = x % 2 ^ i
  BY MaskMask
<1>3. x % 2 ^ j \in Nat
  BY <1>1, ModLeast
<1>4. (x % 2 ^ j) % 2 ^ i <= x % 2 ^ j
  BY <1>1, <1>3, ModLeast
<1> QED BY <1>2, <1>4

\* What rehash_bucket<true>() goes up to is rehashed, or was before the crash, or
\* has a parent that is rehashed before it.
LEMMA PendingParent ==
    ASSUME NEW tab, TableOK(tab), NEW b \in Buckets, NEW h \in Pending(tab, b)
    PROVE  /\ h \in Buckets /\ h <= b /\ h >= 2 /\ h \notin tab.rehashed
           /\ \/ tab.node_list[h] # {}
              \/ Parent(h) \in tab.rehashed
              \/ Parent(h) \in Pending(tab, b)
<1> DEFINE way == {Masked(b, 2 ^ e - 1) : e \in 1 .. number_of_segments}
<1>0. b \in Nat
  BY BucketsAreNumbers
<1>1. ASSUME NEW c \in way PROVE \E e \in 1 .. number_of_segments : e \in Exponents /\ c = b % 2 ^ e
  <2>1. PICK e \in 1 .. number_of_segments : c = Masked(b, 2 ^ e - 1)
    BY <1>1
  <2>2. e \in Exponents
    BY SegmentAssumption DEF Exponents
  <2>3. 2 ^ e \in Nat
    BY <2>2, Powers
  <2>4. c = b % 2 ^ e
    BY <2>1, <2>3 DEF Masked
  <2> QED BY <2>2, <2>4
<1>2. ASSUME NEW e \in 1 .. number_of_segments PROVE b % 2 ^ e \in way
  <2>1. e \in Exponents
    BY SegmentAssumption DEF Exponents
  <2>2. 2 ^ e \in Nat
    BY <2>1, Powers
  <2>3. Masked(b, 2 ^ e - 1) = b % 2 ^ e
    BY <2>2 DEF Masked
  <2> QED BY <2>3
<1>3. Pending(tab, b) = {a \in way : /\ a \notin tab.rehashed
                                     /\ \A c \in way : c > a => c \notin tab.rehashed /\ ~MovedBeforeCrash(tab, c)}
  BY DEF Pending
<1> HIDE DEF way
<1>4. PICK e \in 1 .. number_of_segments : e \in Exponents /\ h = b % 2 ^ e
  BY <1>1, <1>3
<1>5. 2 ^ e \in Nat \ {0}
  BY <1>4, Powers
<1>6. h \in Nat /\ h <= b /\ h < 2 ^ e
  BY <1>0, <1>4, <1>5, ModLeast
<1>7. h \in Buckets
  <2>1. PICK p : p = 2 ^ number_of_segments
    OBVIOUS
  <2>2. number_of_segments \in Exponents
    BY SegmentAssumption DEF Exponents
  <2>3. 2 ^ number_of_segments \in Nat
    BY <2>2, Powers
  <2>4. p \in Nat
    BY <2>1, <2>3
  <2> QED BY <2>1, <2>4, <1>0, <1>6 DEF Buckets
<1>8. h \notin tab.rehashed
  BY <1>3
<1>9. h >= 2
  BY <1>6, <1>8 DEF TableOK
<1>10. SUFFICES ASSUME tab.node_list[h] = {}, Parent(h) \notin tab.rehashed
                PROVE  Parent(h) \in Pending(tab, b)
  BY <1>6, <1>7, <1>8, <1>9
<1> DEFINE k == BitsOf(h) - 1
<1>11. /\ k \in Exponents /\ k \in 1 .. (number_of_segments - 1) /\ k + 1 = BitsOf(h) /\ k + 1 \in Exponents
       /\ 2 ^ k \in Nat \ {0} /\ 2 ^ k <= h /\ Parent(h) = h % 2 ^ k
       /\ h < 2 ^ (k + 1) /\ 2 ^ (k + 1) \in Nat \ {0}
  <2>1. /\ k \in Exponents /\ k \in 1 .. (number_of_segments - 1)
        /\ 2 ^ k \in Nat \ {0} /\ 2 ^ k <= h /\ Parent(h) = h % 2 ^ k
    BY <1>7, <1>9, ParentFacts
  <2>2. BitsOf(h) \in Exponents /\ h \in 0 .. (2 ^ BitsOf(h) - 1) /\ 2 ^ BitsOf(h) \in Nat \ {0}
        /\ BitsOf(h) \in 1 .. number_of_segments
    BY <1>7, BitsFacts
  <2>3. k + 1 = BitsOf(h)
    BY <2>2
  <2>4. h < 2 ^ BitsOf(h)
    <3>1. PICK p : p = 2 ^ BitsOf(h)
      OBVIOUS
    <3> QED BY <3>1, <2>2
  <2> HIDE DEF k
  <2> QED BY <2>1, <2>2, <2>3, <2>4
<1> HIDE DEF k
<1>12. k + 1 <= e
  <2>1. SUFFICES ASSUME e <= k PROVE FALSE
    BY <1>4, <1>11 DEF Exponents
  <2>2. 2 ^ e <= 2 ^ k
    BY <2>1, <1>4, <1>11, PowersGrow
  <2> QED BY <2>2, <1>5, <1>6, <1>11
<1>13. Parent(h) = b % 2 ^ k
  <2>1. (b % 2 ^ e) % 2 ^ k = b % 2 ^ k
    <3>1. k <= e
      BY <1>4, <1>11, <1>12 DEF Exponents
    <3> QED BY <3>1, <1>0, <1>4, <1>11, MaskMask
  <2> QED BY <2>1, <1>4, <1>11
<1>14. h = b % 2 ^ (k + 1)
  <2>1. (b % 2 ^ e) % 2 ^ (k + 1) = b % 2 ^ (k + 1)
    BY <1>0, <1>4, <1>11, <1>12, MaskMask
  <2>2. PICK p : p = 2 ^ (k + 1)
    OBVIOUS
  <2>3. h % p = h
    <3>1. h \in 0 .. (p - 1) /\ p \in Nat \ {0}
      BY <1>6, <1>11, <2>2
    <3> QED BY <3>1, ModSmall
  <2> QED BY <2>1, <2>2, <2>3, <1>4
<1>15. Parent(h) \in way
  <2>1. k \in 1 .. number_of_segments
    BY <1>11, SegmentAssumption
  <2> QED BY <2>1, <1>2, <1>13
<1>16. ASSUME NEW c \in way, c > Parent(h) PROVE c = h \/ c > h
  <2>1. PICK g \in 1 .. number_of_segments : g \in Exponents /\ c = b % 2 ^ g
    BY <1>1
  <2>2. c \in Nat /\ Parent(h) \in Nat
    BY <2>1, <1>0, <1>11, <1>6, Powers, ModLeast
  <2>3. ~(g <= k)
    <3>1. SUFFICES ASSUME g <= k PROVE FALSE
      OBVIOUS
    <3>2. b % 2 ^ g <= b % 2 ^ k
      BY <3>1, <2>1, <1>0, <1>11, MasksLead
    <3> QED BY <3>2, <2>1, <2>2, <1>13, <1>16
  <2>4. k + 1 <= g
    BY <2>1, <2>3, <1>11 DEF Exponents
  <2>5. h <= c
    BY <2>1, <2>4, <1>0, <1>11, <1>14, MasksLead
  <2> QED BY <2>2, <2>5, <1>6
<1>17. ASSUME NEW c \in way, c > Parent(h)
       PROVE  c \notin tab.rehashed /\ ~MovedBeforeCrash(tab, c)
  <2>1. CASE c = h
    BY <2>1, <1>8, <1>10 DEF MovedBeforeCrash
  <2>2. CASE c > h
    BY <2>2, <1>3
  <2> QED BY <2>1, <2>2, <1>16, <1>17
<1> QED BY <1>3, <1>10, <1>15, <1>17

LEMMA RehashPlaced ==
    ASSUME NEW tab, TableOK(tab), AllInUse(tab), Placed(tab), NEW sz \in 0 .. 2 ^ number_of_segments,
           tab.my_size = 0 => NodesIn(tab) = {}
    PROVE  Placed(rehash(tab, sz)) /\ SameCounts(tab, rehash(tab, sz))
<1> DEFINE r == reserve(tab, sz)
<1>1. TableOK(r) /\ AllInUse(r) /\ Placed(r) /\ SameCounts(tab, r)
  BY ReserveOK, ReservePlaced DEF SameCounts
<1> HIDE DEF r
<1> DEFINE scanned == {b \in Buckets : (r.my_mask + 1) \div 2 <= b /\ b <= r.my_mask}
<1> DEFINE pending == UNION {Pending(r, b) : b \in scanned}
<1> DEFINE N == 2 ^ number_of_segments
<1> DEFINE done == CHOOSE f : f = Scan(r, pending, N, f)
<1>2. N \in Nat
  BY Powers, SegmentAssumption DEF Exponents
<1>3. rehash(tab, sz) = done[N]
  BY DEF rehash, r, Scan
<1>4. ASSUME NEW h \in pending
      PROVE  /\ h \in Buckets /\ h <= r.my_mask /\ h >= 2 /\ h \notin r.rehashed
             /\ r.node_list[h] # {} \/ Parent(h) \in r.rehashed \/ Parent(h) \in pending
  <2>1. PICK b \in scanned : h \in Pending(r, b)
    BY <1>4
  <2>2. b \in Buckets /\ b <= r.my_mask
    BY <2>1
  <2> HIDE DEF scanned
  <2>3. /\ h \in Buckets /\ h <= b /\ h >= 2 /\ h \notin r.rehashed
        /\ r.node_list[h] # {} \/ Parent(h) \in r.rehashed \/ Parent(h) \in Pending(r, b)
    BY <1>1, <2>1, <2>2, PendingParent
  <2>4. h <= r.my_mask
    <3>1. r.my_mask \in Nat
      BY <1>1 DEF TableOK, TableType
    <3> QED BY <3>1, <2>2, <2>3, BucketsAreNumbers
  <2> QED BY <2>1, <2>3, <2>4
<1>5. Buckets = 0 .. (N - 1)
  BY DEF Buckets
<1> HIDE DEF pending, N
<1>6. done = Scan(r, pending, N, done)
  <2>1. \E f : f = Scan(r, pending, N, f)
    BY <1>2, DoneExists
  <2> QED BY <2>1
<1>7. \A n \in 0 .. N : done[n] = IF n = 0 THEN r
                                  ELSE IF n - 1 \in pending THEN rehash_bucket(done[n - 1], n - 1)
                                  ELSE done[n - 1]
  <2> HIDE DEF done
  <2> QED BY <1>6 DEF Scan
<1> HIDE DEF done
<1> DEFINE Good(n) ==
        /\ TableOK(done[n]) /\ AllInUse(done[n]) /\ Placed(done[n]) /\ SameCounts(r, done[n])
        /\ done[n].my_mask = r.my_mask
        /\ \A b \in Buckets : b \in done[n].rehashed <=> b \in r.rehashed \/ (b \in pending /\ b < n)
        /\ \A b \in Buckets : b >= n => done[n].node_list[b] = r.node_list[b]
<1> DEFINE T == {n \in 0 .. N : ~Good(n)}
<1>8. SUFFICES T = {}
  <2>1. N \in 0 .. N /\ N \notin T
    BY <1>2, <1>8
  <2>2. Good(N)
    BY <2>1
  <2> QED BY <1>1, <1>3, <2>2 DEF SameCounts
<1>9. SUFFICES ASSUME T # {} PROVE FALSE
  OBVIOUS
<1>10. PICK n \in T : \A y \in T : n <= y
  <2>1. T \in SUBSET Nat
    BY <1>2
  <2> HIDE DEF T
  <2> QED BY <1>9, <2>1, LeastOf
<1>11. n \in 0 .. N /\ ~Good(n)
  BY <1>10
<1>12. n # 0
  <2>1. SUFFICES ASSUME n = 0 PROVE FALSE
    OBVIOUS
  <2>2. done[0] = r
    BY <1>2, <1>7
  <2>3. \A b \in Buckets : ~(b < 0)
    BY BucketsAreNumbers
  <2>4. Good(0)
    BY <1>1, <2>2, <2>3 DEF SameCounts
  <2> QED BY <2>1, <2>4, <1>11
<1>13. n - 1 \in 0 .. N /\ Good(n - 1) /\ n - 1 \in Buckets /\ n \in Nat
  BY <1>2, <1>5, <1>10, <1>11, <1>12
<1> DEFINE h == n - 1
<1> DEFINE f == done[h]
<1>14. /\ TableOK(f) /\ AllInUse(f) /\ Placed(f) /\ SameCounts(r, f) /\ f.my_mask = r.my_mask
       /\ \A b \in Buckets : b \in f.rehashed <=> b \in r.rehashed \/ (b \in pending /\ b < h)
       /\ \A b \in Buckets : b >= h => f.node_list[b] = r.node_list[b]
       /\ h \in Buckets /\ h \in Nat /\ n = h + 1
  BY <1>13
<1>15. CASE h \in pending
  <2>1. done[n] = rehash_bucket(f, h)
    BY <1>7, <1>11, <1>12, <1>15
  <2> HIDE DEF h, f
  <2>2. h >= 2 /\ h <= f.my_mask /\ h \notin f.rehashed
    BY <1>4, <1>14, <1>15
  <2>3. f.node_list[h] # {} \/ Parent(h) \in f.rehashed
    <3>1. r.node_list[h] = f.node_list[h]
      BY <1>14
    <3>2. Parent(h) \in Buckets /\ Parent(h) < h
      BY <1>14, <2>2, ParentFacts
    <3> QED BY <3>1, <3>2, <1>4, <1>14, <1>15
  <2> DEFINE new == rehash_bucket(f, h)
  <2>4. /\ Placed(new) /\ SameCounts(f, new) /\ new.my_mask = f.my_mask
        /\ new.rehashed = f.rehashed \cup {h}
        /\ \A b \in Buckets : b > h => new.node_list[b] = f.node_list[b]
    BY <1>14, <2>2, <2>3, RehashBucketPlaced
  <2>5. TableOK(new) /\ AllInUse(new)
    BY <1>14, <2>2, RehashBucketOK
  <2> HIDE DEF new
  <2>6. SameCounts(r, new)
    BY <1>14, <2>4 DEF SameCounts
  <2>7. \A b \in Buckets : b \in new.rehashed <=> b \in r.rehashed \/ (b \in pending /\ b < n)
    BY <1>14, <1>15, <2>4, BucketsAreNumbers
  <2>8. ASSUME NEW b \in Buckets, b >= n PROVE new.node_list[b] = r.node_list[b]
    <3>1. b \in Nat /\ b > h /\ b >= h
      BY <1>14, <2>8, BucketsAreNumbers
    <3>2. new.node_list[b] = f.node_list[b]
      BY <2>4, <3>1
    <3>3. f.node_list[b] = r.node_list[b]
      BY <1>14, <3>1
    <3> QED BY <3>2, <3>3
  <2>9. done[n] = new
    BY <2>1 DEF new
  <2> QED BY <1>11, <1>14, <2>4, <2>5, <2>6, <2>7, <2>8, <2>9
<1>16. CASE h \notin pending
  <2>1. done[n] = f
    BY <1>7, <1>11, <1>12, <1>16
  <2> HIDE DEF h, f
  <2>2. \A b \in Buckets : b \in f.rehashed <=> b \in r.rehashed \/ (b \in pending /\ b < n)
    BY <1>14, <1>16, BucketsAreNumbers
  <2>3. ASSUME NEW b \in Buckets, b >= n PROVE f.node_list[b] = r.node_list[b]
    <3>1. b \in Nat /\ b >= h
      BY <1>14, <2>3, BucketsAreNumbers
    <3> QED BY <1>14, <3>1
  <2> QED BY <1>11, <1>14, <2>1, <2>2, <2>3
<1> QED BY <1>15, <1>16
=============================================================================
