---------------------------- MODULE SeqNum_proofs ----------------------------
(* The arithmetic of circular sequence numbers, and of the rings of buffers  *)
(* they are mapped to, for every size of the circle.                         *)
EXTENDS SeqNum, FiniteSetTheorems, TLAPS

(* A multiple of H less than H away from zero is zero.                       *)
LEMMA SmallMultiple ==
    ASSUME NEW H \in Nat \ {0}, NEW k \in Int, H * k < H, -H < H * k
    PROVE  k = 0
<1>1. CASE k >= 1
  <2>1. H * k >= H
    BY <1>1
  <2> QED BY <2>1
<1>2. CASE k <= -1
  <2>1. H * k <= -H
    BY <1>2
  <2> QED BY <2>1
<1> QED BY <1>1, <1>2

(* A number is a multiple of H and a rest.                                   *)
LEMMA QuotientAndRest ==
    ASSUME NEW H \in Nat \ {0}, NEW a \in Int
    PROVE  /\ a % H \in 0..H - 1
           /\ a \div H \in Int
           /\ a = H * (a \div H) + (a % H)
  OBVIOUS

(* Numbers less than H apart leave different rests.                          *)
LEMMA RestsDiffer ==
    ASSUME NEW H \in Nat \ {0}, NEW a \in Int, NEW b \in Int,
           a # b, b - a < H, a - b < H
    PROVE  a % H # b % H
<1> SUFFICES ASSUME a % H = b % H PROVE FALSE
  OBVIOUS
<1> DEFINE qa == a \div H
           qb == b \div H
<1>1. /\ a = H * qa + (a % H) /\ qa \in Int /\ a % H \in 0..H - 1
      /\ b = H * qb + (b % H) /\ qb \in Int /\ b % H \in 0..H - 1
  BY QuotientAndRest
<1> HIDE DEF qa, qb
<1>2. b - a = H * (qb - qa)
  BY <1>1
<1>3. qb - qa = 0
  BY <1>1, <1>2, SmallMultiple
<1> QED BY <1>2, <1>3

(* A multiple of H changes no rest.                                          *)
LEMMA RestOfSum ==
    ASSUME NEW H \in Nat \ {0}, NEW q \in Int, NEW a \in Int
    PROVE  (a + H * q) % H = a % H
<1> DEFINE d == (a + H * q) \div H
           e == a \div H
           m == (a + H * q) % H
           n == a % H
<1>1. /\ a + H * q = H * d + m /\ d \in Int /\ m \in 0..H - 1
      /\ a = H * e + n /\ e \in Int /\ n \in 0..H - 1
  BY QuotientAndRest
<1> HIDE DEF d, e, m, n
<1>2. n - m = H * (d - e - q)
  BY <1>1
<1>3. d - e - q = 0
  BY <1>1, <1>2, SmallMultiple
<1> QED BY <1>1, <1>2, <1>3 DEF m, n

(* Among H numbers in a row, one leaves any given rest.                      *)
LEMMA SomeRest ==
    ASSUME NEW H \in Nat \ {0}, NEW a \in Int, NEW i \in 0..H - 1
    PROVE  \E n \in 1..H : (a + n) % H = i
<1> DEFINE d == i - a - 1
           q == d \div H
           n == (d % H) + 1
<1>1. d \in Int
  OBVIOUS
<1> HIDE DEF d
<1>2. d = H * q + (d % H) /\ q \in Int /\ d % H \in 0..H - 1
  BY <1>1, QuotientAndRest
<1> HIDE DEF q
<1>3. n \in 1..H
  BY <1>2
<1>4. a + n = i + H * (-q)
  BY <1>2 DEF d
<1> DEFINE p == -q
<1>5. p \in Int
  BY <1>2
<1> HIDE DEF p
<1> HIDE DEF n
<1>6. (i + H * p) % H = i % H
  <2>1. i \in Int
    OBVIOUS
  <2> QED BY <2>1, <1>5, RestOfSum
<1>7. i % H = i
  OBVIOUS
<1>8. (a + n) % H = i
  BY <1>4, <1>6, <1>7 DEF p
<1> QED BY <1>3, <1>8

LEMMA QuotientType ==
    ASSUME NEW B \in Nat \ {0}, NEW x \in Nat
    PROVE  x \div B \in Nat
<1> DEFINE q == x \div B
           r == x % B
<1>1. x = B * q + r /\ q \in Int /\ r \in 0..B - 1
  BY QuotientAndRest
<1> HIDE DEF q, r
<1>2. q >= 0
  <2> SUFFICES ASSUME q <= -1 PROVE FALSE
    BY <1>1
  <2>1. B * q <= -B
    BY <1>1
  <2> QED BY <1>1, <2>1
<1> QED BY <1>1, <1>2 DEF q

(* The quotient by B of what is less than B * k.                             *)
LEMMA QuotientBelow ==
    ASSUME NEW B \in Nat \ {0}, NEW x \in Nat, NEW k \in Int, x < B * k
    PROVE  x \div B \in 0..k - 1
<1> DEFINE q == x \div B
           r == x % B
<1>1. x = B * q + r /\ q \in Nat /\ r \in 0..B - 1
  <2>1. x = B * q + r /\ r \in 0..B - 1
    BY QuotientAndRest
  <2>2. q \in Nat
    BY QuotientType
  <2> QED BY <2>1, <2>2
<1> HIDE DEF q, r
<1>2. q < k
  <2> SUFFICES ASSUME q >= k PROVE FALSE
    BY <1>1
  <2>1. B * q >= B * k
    BY <1>1
  <2> QED BY <1>1, <2>1
<1> QED BY <1>1, <1>2 DEF q

(* The least number of a set is the top of its smallest initial segment.     *)
LEMMA LeastOf ==
    ASSUME NEW S, S \subseteq Nat, S # {}
    PROVE  \E n \in S : \A m \in S : n <= m
<1> DEFINE R == StrictSubsetOrdering(Nat)
           F == FiniteSubsetsOf(Nat)
           T == {0..n : n \in S}
<1>1. IsWellFoundedOn(R, F)
  BY FS_StrictSubsetOrderingWellFounded
<1>2. T \subseteq F /\ T # {}
  <2>1. ASSUME NEW n \in S PROVE 0..n \in F
    <3>1. n \in Int /\ 0 \in Int /\ 0..n \in SUBSET Nat
      OBVIOUS
    <3>2. IsFiniteSet(0..n)
      BY <3>1, FS_Interval
    <3> QED BY <3>1, <3>2 DEF FiniteSubsetsOf
  <2> QED BY <2>1
<1>3. PICK s \in T : \A t \in T : ~(<<t, s>> \in R)
  <2> HIDE DEF R, F, T
  <2> QED BY <1>1, <1>2, WFMin
<1>4. PICK n \in S : s = 0..n
  BY <1>3
<1>5. ASSUME NEW m \in S PROVE n <= m
  <2> SUFFICES ASSUME m < n PROVE FALSE
    BY <1>5
  <2>1. /\ 0..m \in SUBSET Nat /\ 0..n \in SUBSET Nat
        /\ 0..m \subseteq 0..n /\ n \in 0..n /\ n \notin 0..m
    OBVIOUS
  <2>2. <<0..m, 0..n>> \in R
    BY <2>1 DEF StrictSubsetOrdering
  <2> QED BY <1>3, <1>4, <2>2
<1> QED BY <1>5

(* And the greatest of a bounded one.                                        *)
LEMMA GreatestOf ==
    ASSUME NEW B \in Nat, NEW S, S \subseteq 0..B, S # {}
    PROVE  \E n \in S : \A m \in S : m <= n
<1> DEFINE T == {B - n : n \in S}
<1>1. \A n \in S : n \in 0..B
  OBVIOUS
<1>2. \A n \in S : B - n \in Nat
  BY <1>1
<1>3. T \subseteq Nat /\ T # {}
  BY <1>2
<1>4. PICK k \in T : \A m \in T : k <= m
  <2> HIDE DEF T
  <2> QED BY <1>3, LeastOf
<1>5. PICK n \in S : k = B - n
  BY <1>4
<1>6. \A m \in S : B - n <= B - m
  BY <1>4, <1>5
<1> QED BY <1>1, <1>5, <1>6

(***************************************************************************)
(* uxr_seq_num_add, uxr_seq_num_sub, uxr_seq_num_cmp.                      *)
(***************************************************************************)
LEMMA SeqNumSizes ==
    /\ SeqNumSize \in Nat \ {0}
    /\ SeqNumMidsize \in Nat
    /\ SeqNumSize = 2 * SeqNumMidsize
    /\ SeqNumMax = SeqNumSize - 1
  BY SeqNumSizeAssumption DEF SeqNumMidsize, SeqNumMax

LEMMA SeqNumAddForm ==
    ASSUME NEW s \in SeqNums, NEW i \in 0..SeqNumSize
    PROVE  SeqNumAdd(s, i) = IF s + i < SeqNumSize THEN s + i
                                                   ELSE s + i - SeqNumSize
  BY SeqNumSizes DEF SeqNumAdd, SeqNums

LEMMA SeqNumAddType ==
    ASSUME NEW s \in SeqNums, NEW i \in 0..SeqNumSize
    PROVE  SeqNumAdd(s, i) \in SeqNums
<1>1. SeqNumAdd(s, i) = IF s + i < SeqNumSize THEN s + i ELSE s + i - SeqNumSize
  BY SeqNumAddForm
<1> QED BY <1>1, SeqNumSizes DEF SeqNums

LEMMA SeqNumSubType ==
    ASSUME NEW s \in SeqNums, NEW t \in SeqNums
    PROVE  SeqNumSub(s, t) \in SeqNums
  BY SeqNumSizes DEF SeqNumSub, SeqNums

(* Sub measures the way Add goes.                                            *)
LEMMA AddOfSub ==
    ASSUME NEW s \in SeqNums, NEW t \in SeqNums
    PROVE  SeqNumAdd(t, SeqNumSub(s, t)) = s
<1> DEFINE d == SeqNumSub(s, t)
<1>1. d = IF t > s THEN s + (SeqNumSize - t) ELSE s - t
  BY DEF SeqNumSub
<1>2. d \in 0..SeqNumSize
  BY <1>1, SeqNumSizes DEF SeqNums
<1> HIDE DEF d
<1>3. SeqNumAdd(t, d) = IF t + d < SeqNumSize THEN t + d ELSE t + d - SeqNumSize
  BY <1>2, SeqNumAddForm
<1>4. SeqNumAdd(t, d) = s
  BY <1>1, <1>2, <1>3, SeqNumSizes DEF SeqNums
<1> QED BY <1>4 DEF d

LEMMA AddOfAdd ==
    ASSUME NEW s \in SeqNums, NEW m \in Nat, NEW n \in Nat, m + n < SeqNumSize
    PROVE  SeqNumAdd(SeqNumAdd(s, m), n) = SeqNumAdd(s, m + n)
<1> DEFINE t == SeqNumAdd(s, m)
<1>1. m \in 0..SeqNumSize /\ n \in 0..SeqNumSize /\ m + n \in 0..SeqNumSize
  BY SeqNumSizes
<1>2. t \in SeqNums
  BY <1>1, SeqNumAddType
<1>3. t = IF s + m < SeqNumSize THEN s + m ELSE s + m - SeqNumSize
  BY <1>1, SeqNumAddForm
<1> HIDE DEF t
<1>4. SeqNumAdd(t, n) = IF t + n < SeqNumSize THEN t + n ELSE t + n - SeqNumSize
  BY <1>1, <1>2, SeqNumAddForm
<1>5. SeqNumAdd(s, m + n)
         = IF s + (m + n) < SeqNumSize THEN s + (m + n) ELSE s + (m + n) - SeqNumSize
  BY <1>1, SeqNumAddForm
<1>6. SeqNumAdd(t, n) = SeqNumAdd(s, m + n)
  BY <1>3, <1>4, <1>5, SeqNumSizes DEF SeqNums
<1> QED BY <1>6 DEF t

(* The distance of two numbers reached from the same one.                    *)
LEMMA SubOfAdds ==
    ASSUME NEW s \in SeqNums, NEW m \in Nat, NEW n \in Nat,
           m <= n, n < SeqNumSize
    PROVE  SeqNumSub(SeqNumAdd(s, n), SeqNumAdd(s, m)) = n - m
<1>1. m \in 0..SeqNumSize /\ n \in 0..SeqNumSize
  BY SeqNumSizes
<1>2. SeqNumAdd(s, m) = IF s + m < SeqNumSize THEN s + m ELSE s + m - SeqNumSize
  BY <1>1, SeqNumAddForm
<1>3. SeqNumAdd(s, n) = IF s + n < SeqNumSize THEN s + n ELSE s + n - SeqNumSize
  BY <1>1, SeqNumAddForm
<1> QED BY <1>2, <1>3, SeqNumSizes DEF SeqNumSub, SeqNums

LEMMA SubOfAdd ==
    ASSUME NEW s \in SeqNums, NEW n \in Nat, n < SeqNumSize
    PROVE  SeqNumSub(SeqNumAdd(s, n), s) = n
<1>1. n \in 0..SeqNumSize
  BY SeqNumSizes
<1>2. SeqNumAdd(s, n) = IF s + n < SeqNumSize THEN s + n ELSE s + n - SeqNumSize
  BY <1>1, SeqNumAddForm
<1> QED BY <1>2, SeqNumSizes DEF SeqNumSub, SeqNums

LEMMA SubOne ==
    ASSUME NEW s \in SeqNums, NEW n \in Nat \ {0}, n < SeqNumSize
    PROVE  SeqNumSub(SeqNumAdd(s, n), 1) = SeqNumAdd(s, n - 1)
<1>1. n \in 0..SeqNumSize /\ n - 1 \in 0..SeqNumSize
  BY SeqNumSizes
<1>2. SeqNumAdd(s, n) = IF s + n < SeqNumSize THEN s + n ELSE s + n - SeqNumSize
  BY <1>1, SeqNumAddForm
<1>3. SeqNumAdd(s, n - 1)
         = IF s + (n - 1) < SeqNumSize THEN s + (n - 1) ELSE s + (n - 1) - SeqNumSize
  BY <1>1, SeqNumAddForm
<1> QED BY <1>2, <1>3, SeqNumSizes DEF SeqNumSub, SeqNums

(* Less than half of the circle apart, the comparison is that of the ways    *)
(* gone.                                                                     *)
LEMMA CmpOfAdds ==
    ASSUME NEW s \in SeqNums, NEW m \in Nat, NEW n \in Nat,
           m < SeqNumSize, n < SeqNumSize,
           m - n < SeqNumMidsize, n - m < SeqNumMidsize
    PROVE  /\ SeqNumCmp(SeqNumAdd(s, m), SeqNumAdd(s, n)) <= 0 <=> m <= n
           /\ SeqNumCmp(SeqNumAdd(s, m), SeqNumAdd(s, n)) < 0 <=> m < n
           /\ SeqNumCmp(SeqNumAdd(s, m), SeqNumAdd(s, n)) = 0 <=> m = n
<1>1. m \in 0..SeqNumSize /\ n \in 0..SeqNumSize
  BY SeqNumSizes
<1>2. SeqNumAdd(s, m) = IF s + m < SeqNumSize THEN s + m ELSE s + m - SeqNumSize
  BY <1>1, SeqNumAddForm
<1>3. SeqNumAdd(s, n) = IF s + n < SeqNumSize THEN s + n ELSE s + n - SeqNumSize
  BY <1>1, SeqNumAddForm
<1> QED BY <1>2, <1>3, SeqNumSizes DEF SeqNumCmp, SeqNumBehind, SeqNums

(***************************************************************************)
(* Any distance, forwards or backwards.                                    *)
(***************************************************************************)
LEMMA AddType ==
    ASSUME NEW s \in SeqNums, NEW i \in Int
    PROVE  SeqNumAdd(s, i) \in SeqNums
<1>1. s + i \in Int
  BY SeqNumSizes DEF SeqNums
<1> DEFINE a == s + i
<1> HIDE DEF a
<1>2. a \in Int => a % SeqNumSize \in 0..SeqNumSize - 1
  BY QuotientAndRest, SeqNumSizes
<1> QED BY <1>1, <1>2, SeqNumSizes DEF a, SeqNumAdd, SeqNums

LEMMA AddTwice ==
    ASSUME NEW s \in SeqNums, NEW i \in Int, NEW j \in Int
    PROVE  SeqNumAdd(SeqNumAdd(s, i), j) = SeqNumAdd(s, i + j)
<1> DEFINE a == s + i
           q == a \div SeqNumSize
           r == a % SeqNumSize
           t == a + j
           k == -q
<1>1. a \in Int /\ s \in Int /\ SeqNumSize \in Nat \ {0}
  BY SeqNumSizes DEF SeqNums
<1> HIDE DEF a
<1>2. r \in 0..SeqNumSize - 1 /\ q \in Int /\ a = SeqNumSize * q + r
  BY <1>1, QuotientAndRest
<1> HIDE DEF q, r
<1>3. t \in Int /\ k \in Int /\ r + j = t + SeqNumSize * k
  BY <1>1, <1>2
<1>4. (t + SeqNumSize * k) % SeqNumSize = t % SeqNumSize
  <2> HIDE DEF t, k
  <2> QED BY <1>1, <1>3, RestOfSum
<1>5. SeqNumAdd(SeqNumAdd(s, i), j) = (r + j) % SeqNumSize
  BY DEF SeqNumAdd, r, a
<1>6. SeqNumAdd(s, i + j) = t % SeqNumSize
  BY <1>1, SMT DEF SeqNumAdd, a, t
<1> QED BY <1>3, <1>4, <1>5, <1>6

LEMMA AddNothing ==
    ASSUME NEW s \in SeqNums
    PROVE  SeqNumAdd(s, 0) = s
<1>1. 0 \in 0..SeqNumSize
  BY SeqNumSizes
<1> QED BY <1>1, SeqNumAddForm, SeqNumSizes DEF SeqNums

LEMMA FullCircle ==
    ASSUME NEW s \in SeqNums, NEW i \in Int
    PROVE  SeqNumAdd(s, i + SeqNumSize) = SeqNumAdd(s, i)
<1> DEFINE a == s + i
           one == 1
<1>1. /\ a \in Int /\ one \in Int /\ SeqNumSize \in Nat \ {0}
      /\ s + (i + SeqNumSize) = a + SeqNumSize * one
  BY SeqNumSizes DEF SeqNums
<1>2. SeqNumAdd(s, i) = a % SeqNumSize
  BY DEF SeqNumAdd
<1>3. SeqNumAdd(s, i + SeqNumSize) = (a + SeqNumSize * one) % SeqNumSize
  BY <1>1 DEF SeqNumAdd
<1> HIDE DEF a, one
<1>4. (a + SeqNumSize * one) % SeqNumSize = a % SeqNumSize
  BY <1>1, RestOfSum
<1> QED BY <1>2, <1>3, <1>4

(* From any number, the ways to two others differ by what lies between.      *)
LEMMA SubMeasures ==
    ASSUME NEW s \in SeqNums, NEW i \in Int, NEW j \in Int,
           j <= i, i - j < SeqNumSize
    PROVE  SeqNumSub(SeqNumAdd(s, i), SeqNumAdd(s, j)) = i - j
<1> DEFINE t == SeqNumAdd(s, j)
           d == i - j
<1>1. t \in SeqNums /\ d \in Nat /\ d < SeqNumSize
  BY AddType
<1>2. SeqNumAdd(t, d) = SeqNumAdd(s, j + d) /\ j + d = i
  BY AddTwice
<1> HIDE DEF t, d
<1>3. SeqNumSub(SeqNumAdd(t, d), t) = d
  BY <1>1, SubOfAdd
<1> QED BY <1>2, <1>3 DEF t, d

LEMMA SubWraps ==
    ASSUME NEW s \in SeqNums, NEW i \in Int, NEW j \in Int,
           i < j, j - i <= SeqNumSize
    PROVE  SeqNumSub(SeqNumAdd(s, i), SeqNumAdd(s, j)) = i - j + SeqNumSize
<1> DEFINE k == i + SeqNumSize
<1>1. k \in Int /\ j <= k /\ k - j < SeqNumSize /\ k - j = i - j + SeqNumSize
  BY SeqNumSizes
<1>2. SeqNumAdd(s, k) = SeqNumAdd(s, i)
  BY FullCircle
<1> HIDE DEF k
<1>3. SeqNumSub(SeqNumAdd(s, k), SeqNumAdd(s, j)) = k - j
  BY <1>1, SubMeasures
<1> QED BY <1>1, <1>2, <1>3

LEMMA SubGoesBack ==
    ASSUME NEW s \in SeqNums, NEW i \in Int, NEW k \in 0..SeqNumSize - 1
    PROVE  SeqNumSub(SeqNumAdd(s, i), k) = SeqNumAdd(s, i - k)
<1> DEFINE x == SeqNumAdd(s, i)
           y == SeqNumAdd(s, i - k)
<1>1. x \in SeqNums /\ y \in SeqNums /\ k \in 0..SeqNumSize
  BY AddType, SeqNumSizes
<1>2. x = SeqNumAdd(y, k)
  BY AddTwice
<1> HIDE DEF x, y
<1>3. x = IF y + k < SeqNumSize THEN y + k ELSE y + k - SeqNumSize
  BY <1>1, <1>2, SeqNumAddForm
<1>4. SeqNumSub(x, k) = y
  BY <1>1, <1>3, SeqNumSizes DEF SeqNumSub, SeqNums
<1> QED BY <1>4 DEF x, y

LEMMA CmpCompares ==
    ASSUME NEW s \in SeqNums, NEW i \in Int, NEW j \in Int,
           i - j < SeqNumMidsize, j - i < SeqNumMidsize
    PROVE  /\ SeqNumCmp(SeqNumAdd(s, i), SeqNumAdd(s, j)) < 0 <=> i < j
           /\ SeqNumCmp(SeqNumAdd(s, i), SeqNumAdd(s, j)) >= 0 <=> i >= j
           /\ SeqNumCmp(SeqNumAdd(s, i), SeqNumAdd(s, j)) <= 0 <=> i <= j
           /\ SeqNumAdd(s, i) = SeqNumAdd(s, j) <=> i = j
<1> DEFINE least == IF i <= j THEN i ELSE j
           t == SeqNumAdd(s, least)
           m == i - least
           n == j - least
<1>1. /\ t \in SeqNums /\ m \in Nat /\ n \in Nat /\ m < SeqNumSize /\ n < SeqNumSize
      /\ m - n = i - j
  BY AddType, SeqNumSizes
<1>2. SeqNumAdd(s, i) = SeqNumAdd(t, m) /\ SeqNumAdd(s, j) = SeqNumAdd(t, n)
  <2>1. least \in Int /\ m \in Int /\ n \in Int /\ least + m = i /\ least + n = j
    OBVIOUS
  <2> HIDE DEF least, m, n
  <2>2. SeqNumAdd(t, m) = SeqNumAdd(s, least + m)
    BY <2>1, AddTwice
  <2>3. SeqNumAdd(t, n) = SeqNumAdd(s, least + n)
    BY <2>1, AddTwice
  <2> QED BY <2>1, <2>2, <2>3
<1> HIDE DEF t, m, n, least
<1>3. /\ SeqNumCmp(SeqNumAdd(t, m), SeqNumAdd(t, n)) <= 0 <=> m <= n
      /\ SeqNumCmp(SeqNumAdd(t, m), SeqNumAdd(t, n)) < 0 <=> m < n
      /\ SeqNumCmp(SeqNumAdd(t, m), SeqNumAdd(t, n)) = 0 <=> m = n
  BY <1>1, CmpOfAdds
<1>4. \A a, b \in SeqNums : SeqNumCmp(a, b) \in {-1, 0, 1} /\ (a = b <=> SeqNumCmp(a, b) = 0)
  BY DEF SeqNumCmp
<1>5. SeqNumAdd(t, m) \in SeqNums /\ SeqNumAdd(t, n) \in SeqNums
  BY <1>1, AddType
<1> DEFINE c == SeqNumCmp(SeqNumAdd(t, m), SeqNumAdd(t, n))
<1>6. c \in {-1, 0, 1} /\ (SeqNumAdd(t, m) = SeqNumAdd(t, n) <=> c = 0)
  BY <1>4, <1>5
<1>7. /\ c <= 0 <=> m <= n
      /\ c < 0 <=> m < n
      /\ c = 0 <=> m = n
  BY <1>3
<1> HIDE DEF c
<1>8. /\ c < 0 <=> i < j
      /\ c >= 0 <=> i >= j
      /\ c <= 0 <=> i <= j
      /\ c = 0 <=> i = j
  BY <1>1, <1>6, <1>7
<1> QED BY <1>2, <1>6, <1>8 DEF c

(* The buffer of a ring of H, on a circle of whole laps, at any distance.     *)
LEMMA RingSlot ==
    ASSUME NEW H \in Nat \ {0}, NEW laps \in Int, SeqNumSize = H * laps,
           NEW s \in SeqNums, NEW i \in Int
    PROVE  SeqNumAdd(s, i) % H = (s + i) % H
<1> DEFINE x == s + i
           q == x \div SeqNumSize
           r == x % SeqNumSize
           k == laps * q
<1>1. x \in Int /\ SeqNumSize \in Nat \ {0}
  BY SeqNumSizes DEF SeqNums
<1>2. SeqNumAdd(s, i) = r
  BY DEF SeqNumAdd
<1> HIDE DEF x
<1>3. x = SeqNumSize * q + r /\ q \in Int /\ r \in Int
  <2>1. \A N \in Nat \ {0} : /\ x % N \in 0..N - 1 /\ x \div N \in Int
                            /\ x = N * (x \div N) + (x % N)
    BY <1>1, QuotientAndRest
  <2>2. r \in 0..SeqNumSize - 1 /\ q \in Int /\ x = SeqNumSize * q + r
    BY <1>1, <2>1
  <2> HIDE DEF q, r
  <2> QED BY <1>1, <2>2
<1> HIDE DEF q, r
<1>4. k \in Int /\ x = r + H * k
  BY <1>3
<1> HIDE DEF k
<1>5. (r + H * k) % H = r % H
  BY <1>3, <1>4, RestOfSum
<1> QED BY <1>2, <1>4, <1>5 DEF x
=============================================================================
