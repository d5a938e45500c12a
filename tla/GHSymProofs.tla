---------------------------- MODULE GHSymProofs -----------------------------
(***************************************************************************)
(* Proofs about GHSym, for any numbers of bins, sizes of the buffer, values, *)
(* weights and numbers of fills.                                           *)
(*                                                                         *)
(* The inductive invariant says where the fills are: in the array, in the  *)
(* buffer, or in both while fBuffer[0] is negative.  The rest is what the  *)
(* fills amount to in one cell, in a projection and in a rectangle of bins, *)
(* and that the position GetBin computes differs for different pairs.      *)
(***************************************************************************)
EXTENDS GHSym, FiniteSetTheorems, WellFoundedInduction, TLAPS

\* A set of numbers has a least one.
LEMMA LeastNumber ==
    ASSUME NEW T \in SUBSET Nat, T # {}
    PROVE  \E m \in T : \A n \in T : m <= n
<1> DEFINE R == OpToRel(<, Nat)
<1>1. IsWellFoundedOn(R, Nat)
  BY NatLessThanWellFounded
<1>2. \A n, m \in T : <<n, m>> \in R <=> n < m
  BY DEF OpToRel
<1> HIDE DEF R
<1>3. PICK m \in T : \A n \in T : ~ (<<n, m>> \in R)
  BY <1>1, WFMin
<1>4. \A n \in T : ~ (n < m)
  BY <1>2, <1>3
<1> QED
  BY <1>4

-----------------------------------------------------------------------------
(* Sums                                                                    *)

IsSum(s, f, first, last) ==
    s = [j \in first - 1 .. last |-> IF j < first THEN 0 ELSE s[j - 1] + f[j]]

LEMMA SumExists ==
    ASSUME NEW f, NEW first \in Int, NEW k \in Nat
    PROVE  \E s : IsSum(s, f, first, first - 1 + k)
<1> DEFINE T == {i \in Nat : ~ \E s : IsSum(s, f, first, first - 1 + i)}
<1>1. T = {}
  <2> SUFFICES ASSUME T # {} PROVE FALSE
    OBVIOUS
  <2>1. PICK n \in T : \A m \in T : n <= m
    BY LeastNumber
  <2>2. CASE n = 0
    <3> DEFINE s == [j \in first - 1 .. first - 1 |-> 0]
    <3>1. IsSum(s, f, first, first - 1 + 0)
      BY DEF IsSum
    <3> QED
      BY <3>1, <2>2
  <2>3. CASE n # 0
    <3>1. n - 1 \in Nat /\ n - 1 \notin T
      BY <2>1, <2>3
    <3>2. PICK g : IsSum(g, f, first, first - 1 + (n - 1))
      BY <3>1
    <3> DEFINE last == first - 1 + n
               s == [j \in first - 1 .. last |-> IF j = last THEN g[j - 1] + f[j] ELSE g[j]]
    <3>3. last \in Int /\ last >= first /\ last - 1 = first - 1 + (n - 1)
      BY <2>1, <2>3
    <3> HIDE DEF last
    <3>4. g = [j \in first - 1 .. last - 1 |-> IF j < first THEN 0 ELSE g[j - 1] + f[j]]
      BY <3>2, <3>3 DEF IsSum
    <3>5. ASSUME NEW j \in first - 1 .. last
          PROVE  s[j] = IF j < first THEN 0 ELSE s[j - 1] + f[j]
      <4>1. CASE j = last
        BY <4>1, <3>3
      <4>2. CASE j # last /\ j < first
        BY <4>2, <3>3, <3>4
      <4>3. CASE j # last /\ ~ (j < first)
        <5>1. j \in first - 1 .. last - 1 /\ j - 1 \in first - 1 .. last /\ j - 1 # last
          BY <4>3, <3>3
        <5>2. s[j] = g[j] /\ s[j - 1] = g[j - 1] /\ g[j] = g[j - 1] + f[j]
          BY <4>3, <5>1, <3>4
        <5> QED
          BY <4>3, <5>2
      <4> QED
        BY <4>1, <4>2, <4>3
    <3>6. IsSum(s, f, first, last)
      BY <3>5 DEF IsSum
    <3> QED
      BY <3>6, <2>1 DEF last
  <2> QED
    BY <2>2, <2>3
<1> QED
  BY <1>1

LEMMA SumsAgree ==
    ASSUME NEW f, NEW first \in Int, NEW last \in Int, NEW s, NEW t, last >= first,
           IsSum(s, f, first, last), IsSum(t, f, first, last - 1)
    PROVE  s[last - 1] = t[last - 1]
<1> DEFINE T == {i \in Nat : first - 1 + i <= last - 1 /\ s[first - 1 + i] # t[first - 1 + i]}
<1>1. T = {}
  <2> SUFFICES ASSUME T # {} PROVE FALSE
    OBVIOUS
  <2>1. PICK n \in T : \A m \in T : n <= m
    BY LeastNumber
  <2> DEFINE j == first - 1 + n
  <2>2. j \in first - 1 .. last - 1 /\ j \in first - 1 .. last /\ s[j] # t[j]
    BY <2>1
  <2>3. /\ s[j] = IF j < first THEN 0 ELSE s[j - 1] + f[j]
        /\ t[j] = IF j < first THEN 0 ELSE t[j - 1] + f[j]
    BY <2>2 DEF IsSum
  <2>4. CASE n = 0
    BY <2>2, <2>3, <2>4
  <2>5. CASE n # 0
    <3>1. n - 1 \in Nat /\ n - 1 \notin T
      BY <2>1, <2>5
    <3>2. first - 1 + (n - 1) = j - 1 /\ j - 1 <= last - 1
      BY <2>1, <2>2
    <3>3. s[j - 1] = t[j - 1]
      BY <3>1, <3>2
    <3> QED
      BY <2>2, <2>3, <3>3
  <2> QED
    BY <2>4, <2>5
<1> DEFINE k == last - first
<1>2. k \in Nat /\ first - 1 + k = last - 1
  OBVIOUS
<1>3. k \notin T
  BY <1>1
<1> QED
  BY <1>2, <1>3

LEMMA TotalNone ==
    ASSUME NEW f, NEW first \in Int
    PROVE  Total(f, first, first - 1) = 0
<1> DEFINE sum == CHOOSE s : IsSum(s, f, first, first - 1)
<1>1. Total(f, first, first - 1) = sum[first - 1]
  BY DEF Total, IsSum
<1>2. \E s : IsSum(s, f, first, first - 1)
  <2>1. \E s : IsSum(s, f, first, first - 1 + 0)
    BY SumExists
  <2> QED
    BY <2>1
<1>3. IsSum(sum, f, first, first - 1)
  BY <1>2
<1> HIDE DEF sum
<1>4. sum[first - 1] = 0
  BY <1>3 DEF IsSum
<1> QED
  BY <1>1, <1>4

LEMMA TotalStep ==
    ASSUME NEW f, NEW first \in Int, NEW last \in Int, last >= first
    PROVE  Total(f, first, last) = Total(f, first, last - 1) + f[last]
<1> DEFINE sum == CHOOSE s : IsSum(s, f, first, last)
           less == CHOOSE s : IsSum(s, f, first, last - 1)
<1>1. Total(f, first, last) = sum[last] /\ Total(f, first, last - 1) = less[last - 1]
  BY DEF Total, IsSum
<1>2. \E s : IsSum(s, f, first, last)
  <2>1. last - first + 1 \in Nat /\ first - 1 + (last - first + 1) = last
    OBVIOUS
  <2> QED
    BY <2>1, SumExists
<1>3. \E s : IsSum(s, f, first, last - 1)
  <2>1. last - first \in Nat /\ first - 1 + (last - first) = last - 1
    OBVIOUS
  <2> QED
    BY <2>1, SumExists
<1>4. IsSum(sum, f, first, last) /\ IsSum(less, f, first, last - 1)
  BY <1>2, <1>3
<1> HIDE DEF sum, less
<1>5. sum[last - 1] = less[last - 1]
  BY <1>4, SumsAgree
<1>6. sum[last] = sum[last - 1] + f[last]
  BY <1>4 DEF IsSum
<1> QED
  BY <1>1, <1>5, <1>6

\* Induction along an interval: S is the set of the numbers with the property.
LEMMA Along ==
    ASSUME NEW first \in Int, NEW last \in Int, last >= first - 1, NEW S,
           first - 1 \in S, \A j \in first .. last : j - 1 \in S => j \in S
    PROVE  last \in S
<1> DEFINE T == {i \in Nat : first - 1 + i <= last /\ first - 1 + i \notin S}
<1>1. T = {}
  <2> SUFFICES ASSUME T # {} PROVE FALSE
    OBVIOUS
  <2>1. PICK n \in T : \A m \in T : n <= m
    BY LeastNumber
  <2>2. n # 0
    BY <2>1
  <2>3. n - 1 \in Nat /\ n - 1 \notin T /\ first - 1 + (n - 1) = first - 1 + n - 1
    BY <2>1, <2>2
  <2> DEFINE j == first - 1 + n
  <2>4. j \in first .. last /\ j \notin S /\ first - 1 + (n - 1) = j - 1
    BY <2>1, <2>2
  <2>5. j - 1 \in S
    BY <2>3, <2>4
  <2> QED
    BY <2>4, <2>5
<1> DEFINE k == last - first + 1
<1>2. k \in Nat /\ first - 1 + k = last
  OBVIOUS
<1>3. k \notin T
  BY <1>1
<1> QED
  BY <1>2, <1>3

LEMMA AlongFromZero ==
    ASSUME NEW m \in Nat, NEW S, 0 \in S, \A j \in 1 .. m : j - 1 \in S => j \in S
    PROVE  m \in S
<1>1. m \in Int /\ m >= 1 - 1 /\ 1 - 1 \in S
  OBVIOUS
<1> QED
  BY <1>1, Along

LEMMA TotalInt ==
    ASSUME NEW first \in Int, NEW last \in Int, last >= first - 1,
           NEW f, \A j \in first .. last : f[j] \in Int
    PROVE  Total(f, first, last) \in Int
<1> DEFINE S == {j \in Int : Total(f, first, j) \in Int}
<1>1. first - 1 \in S
  BY TotalNone
<1>2. ASSUME NEW j \in first .. last, j - 1 \in S
      PROVE  j \in S
  BY <1>2, TotalStep
<1> HIDE DEF S
<1>3. last \in S
  BY <1>1, <1>2, Along
<1> QED
  BY <1>3 DEF S

LEMMA TotalSame ==
    ASSUME NEW first \in Int, NEW last \in Int, last >= first - 1,
           NEW f, NEW g, \A j \in first .. last : f[j] = g[j]
    PROVE  Total(f, first, last) = Total(g, first, last)
<1> DEFINE S == {j \in Int : Total(f, first, j) = Total(g, first, j)}
<1>1. first - 1 \in S
  BY TotalNone
<1>2. ASSUME NEW j \in first .. last, j - 1 \in S
      PROVE  j \in S
  <2>1. f[j] = g[j] /\ j >= first /\ j \in Int
    OBVIOUS
  <2>2. /\ Total(f, first, j) = Total(f, first, j - 1) + f[j]
        /\ Total(g, first, j) = Total(g, first, j - 1) + g[j]
    BY <2>1, TotalStep
  <2> QED
    BY <1>2, <2>1, <2>2
<1> HIDE DEF S
<1>3. last \in S
  BY <1>1, <1>2, Along
<1> QED
  BY <1>3 DEF S

LEMMA TotalPlus ==
    ASSUME NEW first \in Int, NEW last \in Int, last >= first - 1,
           NEW f, NEW g, NEW h,
           \A j \in first .. last : f[j] \in Int /\ g[j] \in Int /\ h[j] = f[j] + g[j]
    PROVE  Total(h, first, last) = Total(f, first, last) + Total(g, first, last)
<1> DEFINE S == {j \in Int : /\ Total(f, first, j) \in Int /\ Total(g, first, j) \in Int
                             /\ Total(h, first, j) = Total(f, first, j) + Total(g, first, j)}
<1>1. first - 1 \in S
  BY TotalNone
<1>2. ASSUME NEW j \in first .. last, j - 1 \in S
      PROVE  j \in S
  <2>1. f[j] \in Int /\ g[j] \in Int /\ h[j] = f[j] + g[j] /\ j >= first /\ j \in Int
    OBVIOUS
  <2>2. /\ Total(f, first, j) = Total(f, first, j - 1) + f[j]
        /\ Total(g, first, j) = Total(g, first, j - 1) + g[j]
        /\ Total(h, first, j) = Total(h, first, j - 1) + h[j]
    BY <2>1, TotalStep
  <2> QED
    BY <1>2, <2>1, <2>2
<1> HIDE DEF S
<1>3. last \in S
  BY <1>1, <1>2, Along
<1> QED
  BY <1>3 DEF S

\* All terms but one are zero.
LEMMA TotalOne ==
    ASSUME NEW first \in Int, NEW last \in Int, last >= first - 1, NEW v \in Int,
           NEW a \in Int, NEW f, \A j \in first .. last : f[j] = IF j = v THEN a ELSE 0
    PROVE  Total(f, first, last) = IF v \in first .. last THEN a ELSE 0
<1> DEFINE S == {j \in Int : Total(f, first, j) = IF v \in first .. j THEN a ELSE 0}
<1>1. first - 1 \in S
  BY TotalNone
<1>2. ASSUME NEW j \in first .. last, j - 1 \in S
      PROVE  j \in S
  <2>1. f[j] = (IF j = v THEN a ELSE 0) /\ j >= first /\ j \in Int
    OBVIOUS
  <2>2. Total(f, first, j) = Total(f, first, j - 1) + f[j]
    BY <2>1, TotalStep
  <2>3. Total(f, first, j - 1) = IF v \in first .. j - 1 THEN a ELSE 0
    BY <1>2
  <2>4. CASE j = v
    BY <2>1, <2>2, <2>3, <2>4
  <2>5. CASE j # v
    <3>1. v \in first .. j <=> v \in first .. j - 1
      BY <2>1, <2>5
    <3> QED
      BY <2>1, <2>2, <2>3, <2>5, <3>1
  <2> QED
    BY <2>4, <2>5
<1> HIDE DEF S
<1>3. last \in S
  BY <1>1, <1>2, Along
<1> QED
  BY <1>3 DEF S

-----------------------------------------------------------------------------
(* The cells of the folded array                                           *)

\* Where the cells with the lower bin number b begin.
Row(b, n) == (b * (2 * n - b + 3)) \div 2

LEMMA RowIs ==
    ASSUME NEW n \in Nat, NEW b \in 0 .. n + 1
    PROVE  Row(b, n) \in Nat /\ 2 * Row(b, n) = b * (2 * n - b + 3)
<1>1. b \in Nat /\ n \in Int /\ b \in Int
  OBVIOUS
<1>2. \E k \in Nat : b * (2 * n - b + 3) = 2 * k
  <2>1. PICK h \in Nat : b = 2 * h \/ b = 2 * h + 1
    <3>1. b \div 2 \in Nat /\ (b = 2 * (b \div 2) \/ b = 2 * (b \div 2) + 1)
      BY <1>1
    <3> QED
      BY <3>1
  <2>2. CASE b = 2 * h
    <3> DEFINE k == h * (2 * n - b + 3)
    <3>1. 2 * n - b + 3 \in Nat
      OBVIOUS
    <3>2. k \in Nat
      <4> DEFINE m == 2 * n - b + 3
      <4>1. m \in Nat
        BY <3>1
      <4> HIDE DEF m
      <4>2. h * m \in Nat
        BY <4>1
      <4> QED
        BY <4>2 DEF m
    <3>3. b * (2 * n - b + 3) = 2 * k
      BY <2>2
    <3> QED
      BY <3>2, <3>3
  <2>3. CASE b = 2 * h + 1
    <3> DEFINE m == n - h + 1
               k == b * m
    <3>1. m \in Nat
      BY <2>3
    <3>2. 2 * n - b + 3 = 2 * m
      BY <2>3
    <3> HIDE DEF m
    <3>3. k \in Nat
      BY <1>1, <3>1
    <3>4. b * (2 * m) = 2 * k
      BY <1>1, <3>1
    <3> QED
      BY <3>2, <3>3, <3>4
  <2> QED
    BY <2>1, <2>2, <2>3
<1>3. PICK k \in Nat : b * (2 * n - b + 3) = 2 * k
  BY <1>2
<1>4. (2 * k) \div 2 = k
  OBVIOUS
<1> QED
  BY <1>3, <1>4 DEF Row

\* A row ends before the next one begins.
LEMMA RowsApart ==
    ASSUME NEW n \in Nat, NEW a \in 0 .. n + 1, NEW b \in 0 .. n + 1, a < b
    PROVE  Row(a, n) + n + 2 <= Row(b, n) + b
<1> DEFINE d == b - a
           u == d - 1
           v == 2 * n + 4 - 2 * a - d
<1>1. u \in Nat /\ v \in Nat /\ d \in Nat /\ b = a + d /\ n \in Int /\ a \in Int
  OBVIOUS
<1>2. u * v >= 0
  <2> HIDE DEF u, v
  <2>1. u * v \in Nat
    BY <1>1
  <2> QED
    BY <2>1
<1>3. b * (2 * n - b + 3) + 2 * b - (a * (2 * n - a + 3) + 2 * n + 4) = u * v
  <2> HIDE DEF d
  <2>1. (a + d) * (2 * n - (a + d) + 3) + 2 * (a + d) - (a * (2 * n - a + 3) + 2 * n + 4)
          = (d - 1) * (2 * n + 4 - 2 * a - d)
    BY <1>1
  <2> QED
    BY <1>1, <2>1
<1>4. /\ Row(a, n) \in Nat /\ 2 * Row(a, n) = a * (2 * n - a + 3)
      /\ Row(b, n) \in Nat /\ 2 * Row(b, n) = b * (2 * n - b + 3)
  BY RowIs
<1> DEFINE p == a * (2 * n - a + 3)
           q == b * (2 * n - b + 3)
<1>5. p \in Int /\ q \in Int /\ q + 2 * b - (p + 2 * n + 4) >= 0
  BY <1>1, <1>2, <1>3
<1> HIDE DEF p, q, d, u, v
<1> QED
  BY <1>1, <1>4, <1>5 DEF p, q

LEMMA GetBinIs ==
    ASSUME NEW n \in Nat, NEW x \in Axis(n), NEW y \in Axis(n)
    PROVE  /\ x \in Nat /\ y \in Nat
           /\ GetBin(x, y, n) = IF y <= x THEN x + Row(y, n) ELSE y + Row(x, n)
           /\ GetBin(x, y, n) \in Cells(n)
<1>1. x \in 0 .. n + 1 /\ y \in 0 .. n + 1 /\ x \in Nat /\ y \in Nat
  BY DEF Axis
<1>2. GetBin(x, y, n) = IF y <= x THEN x + Row(y, n) ELSE y + Row(x, n)
  BY DEF GetBin, Fold, Row
<1> DEFINE last == ((n + 2) * (n + 3)) \div 2 - 1
<1>3. Row(n + 1, n) + n + 1 = last
  <2>1. n + 1 \in 0 .. n + 1
    OBVIOUS
  <2>2. Row(n + 1, n) \in Nat /\ 2 * Row(n + 1, n) = (n + 1) * (2 * n - (n + 1) + 3)
    BY <2>1, RowIs
  <2>3. (n + 2) * (n + 3) = (n + 1) * (2 * n - (n + 1) + 3) + 2 * (n + 2)
    OBVIOUS
  <2> DEFINE r == Row(n + 1, n)
             p == (n + 2) * (n + 3)
  <2>4. p = 2 * r + 2 * (n + 2) /\ r \in Nat
    BY <2>2, <2>3
  <2> HIDE DEF r, p
  <2>5. p \div 2 = r + n + 2
    BY <2>4
  <2> QED
    BY <2>4, <2>5 DEF r, p
<1>4. ASSUME NEW a \in 0 .. n + 1, NEW b \in 0 .. n + 1, b <= a
      PROVE  a + Row(b, n) \in 0 .. last
  <2> DEFINE c == n + 1
  <2>0. c \in 0 .. n + 1 /\ c = n + 1
    OBVIOUS
  <2> HIDE DEF c
  <2>1. Row(b, n) \in Nat /\ Row(c, n) \in Nat
    BY <2>0, RowIs
  <2>2. Row(b, n) + n + 1 <= Row(c, n) + n + 1
    <3>1. CASE b = n + 1
      BY <3>1, <2>0, <2>1
    <3>2. CASE b < n + 1
      <4>1. b < c
        BY <3>2, <2>0
      <4>2. Row(b, n) + n + 2 <= Row(c, n) + c
        BY <4>1, <2>0, RowsApart
      <4> QED
        BY <4>2, <2>0, <2>1
    <3> QED
      BY <3>1, <3>2
  <2> HIDE DEF last
  <2> QED
    BY <2>0, <2>1, <2>2, <1>3
<1>5. GetBin(x, y, n) \in 0 .. last
  <2>1. CASE y <= x
    BY <2>1, <1>1, <1>2, <1>4
  <2>2. CASE ~ (y <= x)
    BY <2>2, <1>1, <1>2, <1>4
  <2> QED
    BY <2>1, <2>2
<1> QED
  BY <1>1, <1>2, <1>5 DEF Cells

\* Two pairs share a cell if they are the same but for the order.
LEMMA OneCellPerPair ==
    ASSUME NEW n \in Nat, NEW x \in Axis(n), NEW y \in Axis(n),
           NEW a \in Axis(n), NEW b \in Axis(n)
    PROVE  GetBin(x, y, n) = GetBin(a, b, n) <=> (x = a /\ y = b) \/ (x = b /\ y = a)
<1>1. ASSUME NEW p \in 0 .. n + 1, NEW q \in 0 .. n + 1, q <= p,
             NEW r \in 0 .. n + 1, NEW s \in 0 .. n + 1, s <= r,
             p + Row(q, n) = r + Row(s, n)
      PROVE  p = r /\ q = s
  <2>1. Row(q, n) \in Nat /\ Row(s, n) \in Nat
    BY RowIs
  <2>2. CASE q < s
    <3>1. Row(q, n) + n + 2 <= Row(s, n) + s
      BY <2>2, RowsApart
    <3> QED
      BY <1>1, <2>1, <3>1
  <2>3. CASE s < q
    <3>1. Row(s, n) + n + 2 <= Row(q, n) + q
      BY <2>3, RowsApart
    <3> QED
      BY <1>1, <2>1, <3>1
  <2>4. CASE q = s
    BY <1>1, <2>1, <2>4
  <2> QED
    BY <2>2, <2>3, <2>4
<1>2. /\ GetBin(x, y, n) = IF y <= x THEN x + Row(y, n) ELSE y + Row(x, n)
      /\ GetBin(a, b, n) = IF b <= a THEN a + Row(b, n) ELSE b + Row(a, n)
  BY GetBinIs
<1>3. /\ x \in 0 .. n + 1 /\ y \in 0 .. n + 1 /\ a \in 0 .. n + 1 /\ b \in 0 .. n + 1
  BY DEF Axis
<1>4. ASSUME GetBin(x, y, n) = GetBin(a, b, n)
      PROVE  (x = a /\ y = b) \/ (x = b /\ y = a)
  <2>1. CASE y <= x /\ b <= a
    <3>1. x = a /\ y = b
      BY <1>1, <1>2, <1>3, <1>4, <2>1
    <3> QED
      BY <3>1
  <2>2. CASE y <= x /\ ~ (b <= a)
    <3>1. x = b /\ y = a
      BY <1>1, <1>2, <1>3, <1>4, <2>2
    <3> QED
      BY <3>1
  <2>3. CASE ~ (y <= x) /\ b <= a
    <3>1. y = a /\ x = b
      BY <1>1, <1>2, <1>3, <1>4, <2>3
    <3> QED
      BY <3>1
  <2>4. CASE ~ (y <= x) /\ ~ (b <= a)
    <3>1. y = b /\ x = a
      BY <1>1, <1>2, <1>3, <1>4, <2>4
    <3> QED
      BY <3>1
  <2> QED
    BY <2>1, <2>2, <2>3, <2>4
<1>5. ASSUME (x = a /\ y = b) \/ (x = b /\ y = a)
      PROVE  GetBin(x, y, n) = GetBin(a, b, n)
  <2>2. CASE x = a /\ y = b
    BY <2>2
  <2>3. CASE x = b /\ y = a
    BY <2>3, <1>2, <1>3
  <2> QED
    BY <1>5, <2>2, <2>3
<1> QED
  BY <1>4, <1>5

-----------------------------------------------------------------------------
(* The weight of fills                                                     *)

LEMMA AppendOf ==
    ASSUME NEW S, NEW s \in Seq(S), NEW x \in S
    PROVE  /\ Append(s, x) \in Seq(S) /\ Append(s, x) # <<>>
           /\ Len(s) \in Nat
           /\ DOMAIN Append(s, x) = 1 .. (Len(s) + 1)
           /\ \A i \in 1 .. Len(s) : Append(s, x)[i] = s[i]
           /\ Append(s, x)[Len(s) + 1] = x
  OBVIOUS

Triples(n) == Axis(n) \X Axis(n) \X Int

LEMMA TripleIs ==
    ASSUME NEW n \in Nat, NEW f \in Triples(n)
    PROVE  /\ f[1] \in Axis(n) /\ f[2] \in Axis(n) /\ f[3] \in Int
           /\ f = <<f[1], f[2], f[3]>>
  BY DEF Triples

\* What the fill i adds to the weight in the pairs P.
Counted(s, P) == [i \in DOMAIN s |-> IF {s[i][1], s[i][2]} \in P THEN s[i][3] ELSE 0]

LEMMA CountedInt ==
    ASSUME NEW n \in Nat, NEW s \in Seq(Triples(n)), NEW P
    PROVE  /\ WeightIn(s, P) = Total(Counted(s, P), 1, Len(s)) /\ Len(s) \in Nat
           /\ \A i \in 1 .. Len(s) :
                  /\ Counted(s, P)[i] = IF {s[i][1], s[i][2]} \in P THEN s[i][3] ELSE 0
                  /\ Counted(s, P)[i] \in Int
<1>1. Len(s) \in Nat /\ DOMAIN s = 1 .. Len(s)
  OBVIOUS
<1>2. \A i \in 1 .. Len(s) : s[i] \in Triples(n)
  OBVIOUS
<1>3. \A i \in 1 .. Len(s) : s[i][3] \in Int
  BY <1>2, TripleIs
<1> QED
  BY <1>1, <1>3 DEF WeightIn, Counted

LEMMA WeightInt ==
    ASSUME NEW n \in Nat, NEW s \in Seq(Triples(n)), NEW P
    PROVE  WeightIn(s, P) \in Int
<1> DEFINE k == Len(s)
           c == Counted(s, P)
<1>1. WeightIn(s, P) = Total(c, 1, k) /\ k \in Nat /\ \A i \in 1 .. k : c[i] \in Int
  BY CountedInt
<1> HIDE DEF k, c
<1>2. k \in Int /\ k >= 1 - 1
  BY <1>1
<1>3. Total(c, 1, k) \in Int
  BY <1>1, <1>2, TotalInt
<1> QED
  BY <1>1, <1>3

LEMMA WeightOfNone ==
    ASSUME NEW P
    PROVE  WeightIn(<<>>, P) = 0
<1> DEFINE f == [i \in DOMAIN <<>> |-> IF {<<>>[i][1], <<>>[i][2]} \in P THEN <<>>[i][3] ELSE 0]
<1>1. WeightIn(<<>>, P) = Total(f, 1, Len(<<>>)) /\ Len(<<>>) = 1 - 1
  BY DEF WeightIn
<1> HIDE DEF f
<1>2. Total(f, 1, 1 - 1) = 0
  BY TotalNone
<1> QED
  BY <1>1, <1>2

LEMMA WeightAppended ==
    ASSUME NEW n \in Nat, NEW s \in Seq(Triples(n)), NEW f \in Triples(n), NEW P
    PROVE  WeightIn(Append(s, f), P) =
               WeightIn(s, P) + IF {f[1], f[2]} \in P THEN f[3] ELSE 0
<1> DEFINE T == Triples(n)
           t == Append(s, f)
           k == Len(s)
           c == Counted(s, P)
           d == Counted(t, P)
<1>1. f \in T
  OBVIOUS
<1>2. /\ t \in Seq(T) /\ k \in Nat /\ Len(t) = k + 1
      /\ \A i \in 1 .. k : t[i] = s[i]
      /\ t[k + 1] = f
  <2>1. s \in Seq(T)
    OBVIOUS
  <2> HIDE DEF T
  <2>2. Len(t) = k + 1
    BY <1>1, <2>1
  <2> QED
    BY <1>1, <2>1, <2>2, AppendOf
<1>3. /\ WeightIn(t, P) = Total(d, 1, k + 1)
      /\ \A i \in 1 .. k + 1 : d[i] = IF {t[i][1], t[i][2]} \in P THEN t[i][3] ELSE 0
  <2> HIDE DEF t, d
  <2>1. WeightIn(t, P) = Total(Counted(t, P), 1, Len(t))
    BY <1>2, CountedInt
  <2>2. \A i \in 1 .. Len(t) :
            Counted(t, P)[i] = IF {t[i][1], t[i][2]} \in P THEN t[i][3] ELSE 0
    BY <1>2, CountedInt
  <2> QED
    BY <1>2, <2>1, <2>2 DEF d
<1>4. /\ WeightIn(s, P) = Total(c, 1, k)
      /\ \A i \in 1 .. k : c[i] = IF {s[i][1], s[i][2]} \in P THEN s[i][3] ELSE 0
  BY CountedInt
<1> HIDE DEF t, d, c, k
<1>5. \A i \in 1 .. k : c[i] = d[i]
  <2> TAKE i \in 1 .. k
  <2>1. i \in 1 .. k + 1 /\ t[i] = s[i]
    BY <1>2
  <2> QED
    BY <2>1, <1>3, <1>4
<1>6. Total(c, 1, k) = Total(d, 1, k)
  <2>1. k \in Int /\ k >= 1 - 1
    BY <1>2
  <2> QED
    BY <1>5, <2>1, TotalSame
<1>7. Total(d, 1, k + 1) = Total(d, 1, k) + d[k + 1]
  <2> DEFINE l == k + 1
  <2>1. l \in Int /\ l >= 1 /\ l - 1 = k
    BY <1>2
  <2> HIDE DEF l
  <2>2. Total(d, 1, l) = Total(d, 1, l - 1) + d[l]
    BY <2>1, TotalStep
  <2> QED
    BY <2>1, <2>2 DEF l
<1>8. d[k + 1] = IF {f[1], f[2]} \in P THEN f[3] ELSE 0
  BY <1>1, <1>2, <1>3
<1> QED
  BY <1>3, <1>4, <1>6, <1>7, <1>8 DEF t

\* The weight in one more pair.
LEMMA WeightOfOneMore ==
    ASSUME NEW n \in Nat, NEW s \in Seq(Triples(n)), NEW P, NEW q, q \notin P
    PROVE  WeightIn(s, P \cup {q}) = WeightIn(s, P) + WeightIn(s, {q})
<1> DEFINE k == Len(s)
           f == Counted(s, P)
           g == Counted(s, {q})
           h == Counted(s, P \cup {q})
<1>1. /\ k \in Nat /\ WeightIn(s, P) = Total(f, 1, k) /\ WeightIn(s, {q}) = Total(g, 1, k)
      /\ WeightIn(s, P \cup {q}) = Total(h, 1, k)
  BY CountedInt
<1>2. ASSUME NEW i \in 1 .. k
      PROVE  f[i] \in Int /\ g[i] \in Int /\ h[i] = f[i] + g[i]
  <2>1. f[i] \in Int /\ f[i] = IF {s[i][1], s[i][2]} \in P THEN s[i][3] ELSE 0
    BY CountedInt
  <2>2. g[i] \in Int /\ g[i] = IF {s[i][1], s[i][2]} \in {q} THEN s[i][3] ELSE 0
    BY CountedInt
  <2>3. h[i] \in Int /\ h[i] = IF {s[i][1], s[i][2]} \in P \cup {q} THEN s[i][3] ELSE 0
    BY CountedInt
  <2> DEFINE e == {s[i][1], s[i][2]}
  <2> HIDE DEF e, f, g, h
  <2>4. /\ f[i] = (IF e \in P THEN s[i][3] ELSE 0)
        /\ g[i] = (IF e = q THEN s[i][3] ELSE 0)
        /\ h[i] = (IF e \in P \/ e = q THEN s[i][3] ELSE 0)
    BY <2>1, <2>2, <2>3 DEF e
  <2> QED
    BY <2>1, <2>2, <2>3, <2>4
<1> HIDE DEF k, f, g, h
<1>3. k \in Int /\ k >= 1 - 1
  BY <1>1
<1>4. Total(h, 1, k) = Total(f, 1, k) + Total(g, 1, k)
  BY <1>2, <1>3, TotalPlus
<1> QED
  BY <1>1, <1>4

-----------------------------------------------------------------------------
(* Filling                                                                 *)

Hists(n) ==
    [nbins : {n}, array : [Cells(n) -> Int], fEntries : Nat, size : Nat,
     buffer : Seq(Triples(n)), count : Int,
     matrix : {NoMatrix} \cup [Axis(n) \X Axis(n) -> Int]]

\* The array holds the fills s.
Holds(h, s, n) ==
    /\ h.fEntries = Len(s)
    /\ \A x, y \in Axis(n) : h.array[GetBin(x, y, n)] = WeightIn(s, {{x, y}})

SameBuffer(h, g) == h.size = g.size /\ h.buffer = g.buffer /\ h.count = g.count

LEMMA HistIs ==
    ASSUME NEW n \in Nat, NEW h \in Hists(n)
    PROVE  /\ h.nbins = n /\ h.array \in [Cells(n) -> Int] /\ h.fEntries \in Nat
           /\ h.size \in Nat /\ h.buffer \in Seq(Triples(n)) /\ h.count \in Int
           /\ DOMAIN h = {"nbins", "array", "fEntries", "size", "buffer", "count", "matrix"}
           /\ h.matrix \in {NoMatrix} \cup [Axis(n) \X Axis(n) -> Int]
  BY DEF Hists

LEMMA CellFilled ==
    ASSUME NEW n \in Nat, NEW h \in Hists(n), NEW s \in Seq(Triples(n)), Holds(h, s, n),
           NEW x \in Axis(n), NEW y \in Axis(n), NEW w \in Int
    PROVE  LET g == FillCell(h, x, y, w) IN
           /\ g \in Hists(n) /\ Holds(g, Append(s, <<x, y, w>>), n)
           /\ SameBuffer(g, h) /\ g.matrix = h.matrix
<1> DEFINE cell == GetBin(x, y, n)
           array == [h.array EXCEPT ![cell] = @ + w]
           entries == h.fEntries + 1
           g == FillCell(h, x, y, w)
           f == <<x, y, w>>
           t == Append(s, f)
<1>1. /\ h.nbins = n /\ h.array \in [Cells(n) -> Int] /\ h.fEntries \in Nat
  BY HistIs
<1>2. x \in Nat /\ y \in Nat /\ cell \in Cells(n)
  BY GetBinIs
<1>3. g = [h EXCEPT !.array = array, !.fEntries = entries]
  <2>1. cell = Fold(IF y <= x THEN x ELSE y, IF y <= x THEN y ELSE x, n)
    BY DEF GetBin
  <2> HIDE DEF cell
  <2> QED
    BY <1>1, <2>1 DEF FillCell
<1> HIDE DEF cell, g
<1>4. array \in [Cells(n) -> Int] /\ entries \in Nat
  BY <1>1, <1>2
<1>5. \A c \in Cells(n) : array[c] = IF c = cell THEN h.array[c] + w ELSE h.array[c]
  BY <1>1
<1> HIDE DEF array, entries
<1>6. g \in Hists(n)
  BY <1>3, <1>4 DEF Hists
<1>7. /\ g.array = array /\ g.fEntries = entries /\ SameBuffer(g, h) /\ g.matrix = h.matrix
  BY <1>3 DEF Hists, SameBuffer
<1>8. Len(t) = entries
  <2>1. Len(t) = Len(s) + 1
    OBVIOUS
  <2> QED
    BY <2>1 DEF Holds, entries
<1>9. ASSUME NEW a \in Axis(n), NEW b \in Axis(n)
      PROVE  array[GetBin(a, b, n)] = WeightIn(t, {{a, b}})
  <2> DEFINE c == GetBin(a, b, n)
             P == {{a, b}}
  <2>1. c \in Cells(n) /\ h.array[c] = WeightIn(s, P)
    BY GetBinIs DEF Holds
  <2>2. c = cell <=> {x, y} \in P
    <3>1. GetBin(x, y, n) = GetBin(a, b, n) <=> (x = a /\ y = b) \/ (x = b /\ y = a)
      BY OneCellPerPair
    <3>2. {x, y} \in P <=> (x = a /\ y = b) \/ (x = b /\ y = a)
      OBVIOUS
    <3> QED
      BY <3>1, <3>2 DEF cell
  <2> HIDE DEF c, P
  <2>3. WeightIn(t, P) = WeightIn(s, P) + IF {x, y} \in P THEN w ELSE 0
    <3>1. f \in Triples(n) /\ f[1] = x /\ f[2] = y /\ f[3] = w
      BY DEF Triples
    <3> HIDE DEF f
    <3>2. WeightIn(t, P) = WeightIn(s, P) + IF {f[1], f[2]} \in P THEN f[3] ELSE 0
      BY <3>1, WeightAppended
    <3> QED
      BY <3>1, <3>2
  <2>4. WeightIn(s, P) \in Int
    BY WeightInt
  <2>5. array[c] = WeightIn(t, P)
    <3> HIDE DEF t
    <3> QED
      BY <1>5, <2>1, <2>2, <2>3, <2>4
  <2> QED
    BY <2>5 DEF c, P
<1>10. Holds(g, t, n)
  BY <1>7, <1>8, <1>9 DEF Holds
<1> QED
  BY <1>6, <1>7, <1>10 DEF g

LEMMA ResetIs ==
    ASSUME NEW n \in Nat, NEW h \in Hists(n)
    PROVE  LET g == Reset(h) IN
           /\ g \in Hists(n) /\ Holds(g, <<>>, n)
           /\ SameBuffer(g, h) /\ g.matrix = NoMatrix
<1> DEFINE array == [c \in Cells(n) |-> 0]
           g == Reset(h)
<1>1. g = [h EXCEPT !.array = array, !.fEntries = 0, !.matrix = NoMatrix]
  BY HistIs DEF Reset
<1>2. array \in [Cells(n) -> Int] /\ \A c \in Cells(n) : array[c] = 0
  OBVIOUS
<1> HIDE DEF g, array
<1>3. g \in Hists(n)
  BY <1>1, <1>2 DEF Hists
<1>4. g.array = array /\ g.fEntries = 0 /\ SameBuffer(g, h) /\ g.matrix = NoMatrix
  BY <1>1 DEF Hists, SameBuffer
<1>5. \A x, y \in Axis(n) : array[GetBin(x, y, n)] = 0
  BY <1>2, GetBinIs
<1>6. Holds(g, <<>>, n)
  BY <1>4, <1>5, WeightOfNone DEF Holds
<1> QED
  BY <1>3, <1>4, <1>6 DEF g

\* What Holds says of the array stays true where only the buffer changes.
LEMMA HoldsSame ==
    ASSUME NEW n, NEW h, NEW s, Holds(h, s, n), NEW g, g.array = h.array,
           g.fEntries = h.fEntries
    PROVE  Holds(g, s, n)
  BY DEF Holds

-----------------------------------------------------------------------------
(* Filling from the buffer                                                 *)

LEMMA FirstOf ==
    ASSUME NEW T, NEW s \in Seq(T), NEW i \in 1 .. Len(s)
    PROVE  /\ SubSeq(s, 1, i - 1) \in Seq(T) /\ s[i] \in T
           /\ SubSeq(s, 1, i) = Append(SubSeq(s, 1, i - 1), s[i])
<1> DEFINE a == SubSeq(s, 1, i - 1)
           b == SubSeq(s, 1, i)
           c == Append(a, s[i])
<1>1. i \in Nat /\ Len(s) \in Nat /\ s[i] \in T
  OBVIOUS
<1>2. a \in Seq(T) /\ Len(a) = i - 1 /\ \A j \in 1 .. i - 1 : a[j] = s[j]
  OBVIOUS
<1>3. b \in Seq(T) /\ Len(b) = i /\ \A j \in 1 .. i : b[j] = s[j]
  OBVIOUS
<1> HIDE DEF a, b
<1>4. c \in Seq(T) /\ Len(c) = i /\ (\A j \in 1 .. i - 1 : c[j] = a[j]) /\ c[i] = s[i]
  BY <1>1, <1>2
<1> HIDE DEF c
<1>5. \A j \in 1 .. i : b[j] = c[j]
  <2> TAKE j \in 1 .. i
  <2>1. j \in 1 .. i - 1 \/ j = i
    BY <1>1
  <2> QED
    BY <2>1, <1>2, <1>3, <1>4
<1>6. b = c
  BY <1>1, <1>3, <1>4, <1>5
<1> QED
  BY <1>1, <1>2, <1>6 DEF a, b, c

\* How the histogram is filled from the buffer, one fill after the other.
Filling(g, from, buffer, m) ==
    g = [i \in 0 .. m |->
            IF i = 0 THEN from
            ELSE FillCell(g[i - 1], buffer[i][1], buffer[i][2], buffer[i][3])]

LEMMA FillingExists ==
    ASSUME NEW from, NEW buffer, NEW m \in Nat
    PROVE  \E g : Filling(g, from, buffer, m)
<1> DEFINE S == {k \in Int : \E g : Filling(g, from, buffer, k)}
<1>1. 0 \in S
  <2> DEFINE g == [i \in 0 .. 0 |-> from]
  <2>1. Filling(g, from, buffer, 0)
    BY DEF Filling
  <2> QED
    BY <2>1
<1>2. ASSUME NEW k \in 1 .. m, k - 1 \in S
      PROVE  k \in S
  <2>1. PICK f : Filling(f, from, buffer, k - 1)
    BY <1>2
  <2> DEFINE next(d) == FillCell(d, buffer[k][1], buffer[k][2], buffer[k][3])
             g == [i \in 0 .. k |-> IF i = k THEN next(f[k - 1]) ELSE f[i]]
  <2>2. f = [i \in 0 .. k - 1 |->
                IF i = 0 THEN from
                ELSE FillCell(f[i - 1], buffer[i][1], buffer[i][2], buffer[i][3])]
    BY <2>1 DEF Filling
  <2>3. ASSUME NEW i \in 0 .. k
        PROVE  g[i] = IF i = 0 THEN from
                      ELSE FillCell(g[i - 1], buffer[i][1], buffer[i][2], buffer[i][3])
    <3>1. CASE i = k
      <4>1. i # 0 /\ k - 1 \in 0 .. k /\ k - 1 # k
        BY <3>1
      <4> QED
        BY <3>1, <4>1
    <3>2. CASE i = 0
      BY <3>2, <2>2
    <3>3. CASE i # 0 /\ i # k
      <4>1. i \in 0 .. k - 1 /\ i - 1 \in 0 .. k /\ i - 1 # k
        BY <3>3
      <4>2. g[i] = f[i] /\ g[i - 1] = f[i - 1]
        BY <4>1, <3>3
      <4>3. f[i] = FillCell(f[i - 1], buffer[i][1], buffer[i][2], buffer[i][3])
        BY <4>1, <3>3, <2>2
      <4> QED
        BY <3>3, <4>2, <4>3
    <3> QED
      BY <3>1, <3>2, <3>3
  <2>4. Filling(g, from, buffer, k)
    BY <2>3 DEF Filling
  <2> QED
    BY <2>4
<1> HIDE DEF S
<1>3. m \in S
  BY <1>1, <1>2, AlongFromZero
<1> QED
  BY <1>3 DEF S

\* The fills s are those at the beginning of the buffer.
Buffered(buffer, s) == Len(buffer) >= Len(s) /\ \A i \in 1 .. Len(s) : buffer[i] = s[i]

LEMMA FilledFromBuffer ==
    ASSUME NEW n \in Nat, NEW from \in Hists(n), Holds(from, <<>>, n),
           NEW s \in Seq(Triples(n)), NEW buffer, Buffered(buffer, s),
           NEW g, Filling(g, from, buffer, Len(s))
    PROVE  LET h == g[Len(s)] IN
           /\ h \in Hists(n) /\ Holds(h, s, n)
           /\ SameBuffer(h, from) /\ h.matrix = from.matrix
<1> DEFINE m == Len(s)
           Good(i) == /\ g[i] \in Hists(n) /\ Holds(g[i], SubSeq(s, 1, i), n)
                      /\ SameBuffer(g[i], from) /\ g[i].matrix = from.matrix
           S == {i \in Int : Good(i)}
<1>1. m \in Nat
  OBVIOUS
<1>2. \A i \in 0 .. m : g[i] = IF i = 0 THEN from
                               ELSE FillCell(g[i - 1], buffer[i][1], buffer[i][2], buffer[i][3])
  BY DEF Filling
<1>3. 0 \in S
  <2>1. SubSeq(s, 1, 0) = <<>>
    OBVIOUS
  <2>2. g[0] = from
    BY <1>1, <1>2
  <2>3. SameBuffer(from, from)
    BY DEF SameBuffer
  <2>4. Good(0)
    BY <2>1, <2>2, <2>3
  <2> HIDE DEF Good
  <2> QED
    BY <2>4
<1>4. ASSUME NEW k \in 1 .. m, k - 1 \in S
      PROVE  k \in S
  <2> DEFINE before == g[k - 1]
             t == SubSeq(s, 1, k - 1)
             f == s[k]
  <2>1. /\ before \in Hists(n) /\ Holds(before, t, n)
        /\ SameBuffer(before, from) /\ before.matrix = from.matrix
    BY <1>4
  <2>2. t \in Seq(Triples(n)) /\ f \in Triples(n) /\ SubSeq(s, 1, k) = Append(t, f)
    BY FirstOf
  <2>3. buffer[k] = f
    BY DEF Buffered
  <2>4. g[k] = FillCell(before, f[1], f[2], f[3])
    <3>1. k \in 0 .. m /\ k # 0
      BY <1>1
    <3> QED
      BY <3>1, <1>2, <2>3
  <2>5. f[1] \in Axis(n) /\ f[2] \in Axis(n) /\ f[3] \in Int /\ f = <<f[1], f[2], f[3]>>
    BY <2>2, TripleIs
  <2> DEFINE x == f[1]
             y == f[2]
             w == f[3]
             after == FillCell(before, x, y, w)
             u == Append(t, <<x, y, w>>)
  <2>6. x \in Axis(n) /\ y \in Axis(n) /\ w \in Int
    BY <2>5
  <2>7. SubSeq(s, 1, k) = u /\ g[k] = after
    BY <2>2, <2>4, <2>5
  <2> HIDE DEF before, t, f, x, y, w
  <2>8. /\ after \in Hists(n) /\ Holds(after, u, n)
        /\ SameBuffer(after, before) /\ after.matrix = before.matrix
    BY <2>1, <2>2, <2>6, CellFilled
  <2> HIDE DEF after, u
  <2>9. SameBuffer(after, from) /\ after.matrix = from.matrix
    BY <2>1, <2>8 DEF SameBuffer
  <2>10. Good(k)
    BY <2>7, <2>8, <2>9
  <2> HIDE DEF Good
  <2> QED
    BY <2>10
<1> HIDE DEF S, m
<1>5. m \in S
  BY <1>1, <1>3, <1>4, AlongFromZero
<1>6. SubSeq(s, 1, m) = s
  BY DEF m
<1>7. Good(m)
  <2> HIDE DEF Good
  <2> QED
    BY <1>5 DEF S
<1> QED
  BY <1>6, <1>7 DEF m

-----------------------------------------------------------------------------
(* A histogram that was filled with s                                      *)

\* What was filled is in the array unless it waits in the buffer; the buffer
\* has it too while count is not 0.
Good(h, s, n) ==
    /\ h \in Hists(n)
    /\ h.count <= 0 => Holds(h, s, n)
    /\ h.count > 0 => Holds(h, <<>>, n)
    /\ h.count # 0 => /\ h.size > 3 /\ Magnitude(h.count) = Len(s)
                      /\ Buffered(h.buffer, s)
    /\ h.count = 0 /\ h.size > 3 => s = <<>>

LEMMA MagnitudeIs ==
    ASSUME NEW i \in Int
    PROVE  Magnitude(i) \in Nat /\ (Magnitude(i) = 0 <=> i = 0)
           /\ (i >= 0 => Magnitude(i) = i) /\ (i <= 0 => Magnitude(i) = -i)
  BY DEF Magnitude

\* What BufferEmpty returns where it fills, f being the histogram it filled.
Emptied(f, h, s, action, n) ==
    /\ Holds(f, s, n) /\ SameBuffer(f, h)
    /\ f.matrix = (IF h.count < 0 THEN NoMatrix ELSE h.matrix)
    /\ BufferEmpty(h, action) =
           IF action > 0 THEN [f EXCEPT !.size = 0, !.buffer = <<>>, !.count = 0]
           ELSE [f EXCEPT !.count = -Len(s)]

LEMMA EmptiedIs ==
    ASSUME NEW n \in Nat, NEW h \in Hists(n), NEW s \in Seq(Triples(n)), NEW action \in Int,
           h.size # 0, h.count # 0, h.count > 0 \/ action # 0,
           h.count > 0 => Holds(h, <<>>, n),
           Magnitude(h.count) = Len(s), Buffered(h.buffer, s)
    PROVE  \E f \in Hists(n) : Emptied(f, h, s, action, n)
<1> DEFINE m == Len(s)
           from == IF h.count < 0 THEN Reset(h) ELSE h
           filled == CHOOSE g : Filling(g, from, h.buffer, m)
           f == filled[m]
<1>1. m \in Nat /\ h.count \in Int /\ h.size \in Nat
  <2>1. m \in Nat
    OBVIOUS
  <2>2. h.count \in Int /\ h.size \in Nat
    BY HistIs
  <2> QED
    BY <2>1, <2>2
<1>2. ~ (h.size = 0 \/ h.count = 0 \/ (h.count < 0 /\ action = 0))
  BY <1>1
<1>3. BufferEmpty(h, action) =
          IF action > 0 THEN [f EXCEPT !.size = 0, !.buffer = <<>>, !.count = 0]
          ELSE [f EXCEPT !.count = IF m = f.fEntries THEN -m ELSE 0]
  BY <1>2 DEF BufferEmpty, Filling
<1>4. \E g : Filling(g, from, h.buffer, m)
  BY <1>1, FillingExists
<1>5. Filling(filled, from, h.buffer, m)
  BY <1>4
<1> HIDE DEF filled
<1>6. /\ from \in Hists(n) /\ Holds(from, <<>>, n) /\ SameBuffer(from, h)
      /\ from.matrix = (IF h.count < 0 THEN NoMatrix ELSE h.matrix)
  <2>1. CASE h.count < 0
    BY <2>1, ResetIs
  <2>2. CASE ~ (h.count < 0)
    BY <2>2, <1>1 DEF SameBuffer
  <2> QED
    BY <2>1, <2>2
<1> DEFINE buffer == h.buffer
<1>7. Buffered(buffer, s) /\ Filling(filled, from, buffer, m)
  BY <1>5
<1> HIDE DEF from, buffer
<1>8. f \in Hists(n) /\ Holds(f, s, n) /\ SameBuffer(f, from) /\ f.matrix = from.matrix
  BY <1>6, <1>7, FilledFromBuffer
<1>9. m = f.fEntries
  BY <1>8 DEF Holds
<1> HIDE DEF f
<1>10. SameBuffer(f, h)
  BY <1>6, <1>8 DEF SameBuffer
<1>11. Emptied(f, h, s, action, n)
  BY <1>3, <1>6, <1>8, <1>9, <1>10 DEF Emptied
<1> QED
  BY <1>8, <1>11

\* Reading, or painting, leaves the histogram filled with the same.
LEMMA ReadKeeps ==
    ASSUME NEW n \in Nat, NEW h, NEW s \in Seq(Triples(n)), Good(h, s, n),
           NEW action \in {-1, 0}
    PROVE  LET r == BufferEmpty(h, action) IN
           /\ Good(r, s, n) /\ Holds(r, s, n)
           /\ r.matrix \in {h.matrix, NoMatrix} /\ (action = 0 => r.matrix = h.matrix)
<1> DEFINE r == BufferEmpty(h, action)
<1>1. /\ h \in Hists(n) /\ h.count \in Int /\ h.size \in Nat /\ action \in Int
      /\ Len(s) \in Nat
  <2>1. h \in Hists(n)
    BY DEF Good
  <2>2. h.count \in Int /\ h.size \in Nat
    BY <2>1, HistIs
  <2>3. action \in Int
    OBVIOUS
  <2>4. Len(s) \in Nat
    OBVIOUS
  <2> QED
    BY <2>1, <2>2, <2>3, <2>4
<1>2. CASE h.size = 0 \/ h.count = 0 \/ (h.count < 0 /\ action = 0)
  <2>1. r = h
    BY <1>2 DEF BufferEmpty
  <2>2. h.count <= 0
    BY <1>1, <1>2 DEF Good
  <2> HIDE DEF r
  <2> QED
    BY <2>1, <2>2 DEF Good, r
<1>3. CASE ~ (h.size = 0 \/ h.count = 0 \/ (h.count < 0 /\ action = 0))
  <2>1. /\ h.size # 0 /\ h.count # 0 /\ (h.count > 0 \/ action # 0) /\ h.size > 3
        /\ (h.count > 0 => Holds(h, <<>>, n))
        /\ Magnitude(h.count) = Len(s) /\ Buffered(h.buffer, s)
    BY <1>1, <1>3 DEF Good
  <2>2. PICK f \in Hists(n) : Emptied(f, h, s, action, n)
    BY <1>1, <2>1, EmptiedIs
  <2>3. /\ Holds(f, s, n) /\ SameBuffer(f, h)
        /\ f.matrix = (IF h.count < 0 THEN NoMatrix ELSE h.matrix)
        /\ r = [f EXCEPT !.count = -Len(s)]
    BY <2>2 DEF Emptied
  <2> HIDE DEF r
  <2>4. Len(s) # 0 /\ -Len(s) \in Int /\ -Len(s) < 0 /\ Magnitude(-Len(s)) = Len(s)
    BY <1>1, <2>1, MagnitudeIs
  <2> DEFINE c == -Len(s)
  <2>5. c \in Int /\ c < 0 /\ Magnitude(c) = Len(s) /\ r = [f EXCEPT !.count = c]
    BY <2>3, <2>4
  <2> HIDE DEF c
  <2>6. /\ r \in Hists(n) /\ r.array = f.array /\ r.fEntries = f.fEntries /\ r.count = c
        /\ r.size = f.size /\ r.buffer = f.buffer /\ r.matrix = f.matrix
    BY <2>5 DEF Hists
  <2>7. Holds(r, s, n)
    BY <2>3, <2>6, HoldsSame
  <2>8. r.size > 3 /\ Buffered(r.buffer, s)
    BY <2>1, <2>3, <2>6 DEF SameBuffer
  <2>9. Good(r, s, n)
    BY <2>5, <2>6, <2>7, <2>8 DEF Good
  <2>10. r.matrix \in {h.matrix, NoMatrix} /\ (action = 0 => r.matrix = h.matrix)
    BY <1>1, <2>1, <2>3, <2>6
  <2> QED
    BY <2>7, <2>9, <2>10 DEF r
<1> QED
  BY <1>2, <1>3

\* A fill into the array, with nothing in the buffer.
LEMMA CellKeeps ==
    ASSUME NEW n \in Nat, NEW h \in Hists(n), NEW s \in Seq(Triples(n)), Holds(h, s, n),
           h.count = 0, h.size <= 3,
           NEW x \in Axis(n), NEW y \in Axis(n), NEW w \in Int
    PROVE  LET r == FillCell(h, x, y, w) IN
           Good(r, Append(s, <<x, y, w>>), n) /\ r.matrix = h.matrix
<1> DEFINE r == FillCell(h, x, y, w)
           t == Append(s, <<x, y, w>>)
<1>1. r \in Hists(n) /\ Holds(r, t, n) /\ SameBuffer(r, h) /\ r.matrix = h.matrix
  BY CellFilled
<1>2. h.size \in Nat
  BY HistIs
<1> HIDE DEF r, t
<1>3. r.count = 0 /\ r.size = h.size
  BY <1>1 DEF SameBuffer
<1>4. Good(r, t, n)
  BY <1>1, <1>2, <1>3 DEF Good
<1> QED
  BY <1>1, <1>4 DEF r, t

LEMMA BufferFillKeeps ==
    ASSUME NEW n \in Nat, NEW h, NEW s \in Seq(Triples(n)), Good(h, s, n), h.size # 0,
           NEW x \in Axis(n), NEW y \in Axis(n)
    PROVE  LET r == BufferFill(h, x, y, 1) IN
           /\ Good(r, Append(s, <<x, y, 1>>), n)
           /\ r.matrix \in {h.matrix, NoMatrix}
<1> DEFINE k == Magnitude(h.count)
           ready == IF h.count < 0 /\ h.fEntries > 0 THEN Reset(h) ELSE h
           d == [ready EXCEPT !.count = k]
           f == <<x, y, 1>>
           t == Append(s, f)
           buffer == Append(SubSeq(h.buffer, 1, k), f)
           r == BufferFill(h, x, y, 1)
<1>1. /\ h \in Hists(n) /\ h.count \in Int /\ h.size \in Nat /\ h.fEntries \in Nat
      /\ h.buffer \in Seq(Triples(n))
      /\ k \in Nat /\ (k = 0 <=> h.count = 0)
      /\ Len(s) \in Nat
  <2>1. h \in Hists(n)
    BY DEF Good
  <2>2. h.count \in Int /\ h.size \in Nat /\ h.fEntries \in Nat /\ h.buffer \in Seq(Triples(n))
    BY <2>1, HistIs
  <2>3. k \in Nat /\ (k = 0 <=> h.count = 0)
    BY <2>2, MagnitudeIs
  <2>4. Len(s) \in Nat
    OBVIOUS
  <2> QED
    BY <2>1, <2>2, <2>3, <2>4
<1>2. f \in Triples(n)
  BY DEF Triples
<1> DEFINE T == Triples(n)
<1>3. t \in Seq(T) /\ Len(t) = Len(s) + 1 /\ t[Len(s) + 1] = f
      /\ \A i \in 1 .. Len(s) : t[i] = s[i]
  <2>1. s \in Seq(T) /\ f \in T
    BY <1>2
  <2> HIDE DEF T, f
  <2> QED
    BY <2>1, AppendOf
<1>4. /\ ready \in Hists(n) /\ SameBuffer(ready, h) /\ ready.matrix \in {h.matrix, NoMatrix}
      /\ h.count # 0 => Holds(ready, <<>>, n)
      /\ h.count = 0 => ready = h
  <2>1. CASE h.count < 0
    <3>1. h.fEntries > 0
      BY <1>1, <2>1 DEF Good, Holds
    <3>2. ready = Reset(h)
      BY <2>1, <3>1
    <3> QED
      BY <1>1, <2>1, <3>2, ResetIs
  <2>2. CASE ~ (h.count < 0)
    BY <1>1, <2>2 DEF Good, SameBuffer
  <2> QED
    BY <2>1, <2>2
<1>5. /\ r = IF 3 * k + 3 >= h.size THEN FillCell(BufferEmpty(d, 1), x, y, 1)
             ELSE [ready EXCEPT !.count = k + 1,
                                !.buffer = Append(SubSeq(@, 1, k), f)]
  BY DEF BufferFill
<1> HIDE DEF ready, k
<1>6. /\ d \in Hists(n) /\ d.count = k /\ d.size = h.size /\ d.buffer = h.buffer
      /\ d.matrix = ready.matrix /\ d.array = ready.array /\ d.fEntries = ready.fEntries
  <2>1. k \in Int /\ ready \in Hists(n) /\ ready.size = h.size /\ ready.buffer = h.buffer
    BY <1>1, <1>4 DEF SameBuffer
  <2>2. /\ d \in Hists(n) /\ d.count = k /\ d.size = ready.size /\ d.buffer = ready.buffer
        /\ d.matrix = ready.matrix /\ d.array = ready.array /\ d.fEntries = ready.fEntries
    BY ONLY <2>1 DEF Hists
  <2> QED
    BY <2>1, <2>2
<1> HIDE DEF d
<1>7. CASE 3 * k + 3 >= h.size /\ h.count = 0
  <2>1. Holds(h, s, n) /\ k = 0 /\ h.size <= 3 /\ ready = h
    BY <1>1, <1>4, <1>7 DEF Good
  <2>2. Holds(d, s, n) /\ d.count = 0 /\ d.size <= 3
    BY <1>6, <2>1, HoldsSame
  <2>3. BufferEmpty(d, 1) = d
    BY <2>2 DEF BufferEmpty
  <2>4. r = FillCell(d, x, y, 1)
    BY <1>5, <1>7, <2>3
  <2>5. 1 \in Int
    OBVIOUS
  <2>6. /\ Good(FillCell(d, x, y, 1), t, n)
        /\ FillCell(d, x, y, 1).matrix = d.matrix
    BY <1>6, <2>2, <2>5, CellKeeps
  <2> HIDE DEF r, t
  <2>7. Good(r, t, n) /\ r.matrix = d.matrix
    BY <2>4, <2>6
  <2> QED
    BY <1>4, <1>6, <2>7 DEF r, t
<1>8. CASE 3 * k + 3 >= h.size /\ h.count # 0
  <2>1. h.size > 3 /\ k = Len(s) /\ Buffered(h.buffer, s)
    BY <1>8 DEF Good, k
  <2>2. Holds(d, <<>>, n)
    BY <1>4, <1>6, <1>8, HoldsSame
  <2>3. d.size # 0 /\ d.count # 0 /\ d.count > 0 /\ Magnitude(d.count) = Len(s)
        /\ Buffered(d.buffer, s)
    BY <1>1, <1>6, <1>8, <2>1, MagnitudeIs
  <2>4. PICK g \in Hists(n) : Emptied(g, d, s, 1, n)
    BY <1>6, <2>2, <2>3, EmptiedIs
  <2> DEFINE e == [g EXCEPT !.size = 0, !.buffer = <<>>, !.count = 0]
  <2>5. /\ Holds(g, s, n) /\ g.matrix = d.matrix /\ BufferEmpty(d, 1) = e
    BY <1>1, <1>6, <2>3, <2>4 DEF Emptied
  <2>6. /\ e \in Hists(n) /\ e.count = 0 /\ e.size = 0 /\ e.matrix = g.matrix
        /\ e.array = g.array /\ e.fEntries = g.fEntries
    <3>1. <<>> \in Seq(Triples(n)) /\ 0 \in Nat /\ 0 \in Int
      OBVIOUS
    <3> DEFINE a == [g EXCEPT !.size = 0]
               b == [a EXCEPT !.buffer = <<>>]
               c == [b EXCEPT !.count = 0]
    <3>2. e = c
      OBVIOUS
    <3>3. a \in Hists(n) /\ a.size = 0 /\ a.matrix = g.matrix /\ a.array = g.array
          /\ a.fEntries = g.fEntries
      BY DEF Hists
    <3> HIDE DEF a
    <3>4. b \in Hists(n) /\ b.size = a.size /\ b.matrix = a.matrix /\ b.array = a.array
          /\ b.fEntries = a.fEntries
      BY <3>1, <3>3 DEF Hists
    <3> HIDE DEF b
    <3>5. c \in Hists(n) /\ c.size = b.size /\ c.matrix = b.matrix /\ c.array = b.array
          /\ c.fEntries = b.fEntries /\ c.count = 0
      BY <3>1, <3>4 DEF Hists
    <3> HIDE DEF c, e
    <3> QED
      BY <3>2, <3>3, <3>4, <3>5
  <2>7. r = FillCell(e, x, y, 1)
    BY <1>5, <1>8, <2>5
  <2> HIDE DEF e
  <2>8. Holds(e, s, n) /\ e.size <= 3
    BY <2>5, <2>6, HoldsSame
  <2>9. 1 \in Int
    OBVIOUS
  <2>10. /\ Good(FillCell(e, x, y, 1), t, n)
         /\ FillCell(e, x, y, 1).matrix = e.matrix
    BY <2>6, <2>8, <2>9, CellKeeps
  <2> HIDE DEF r, t
  <2>11. Good(r, t, n) /\ r.matrix = e.matrix
    BY <2>7, <2>10
  <2> QED
    BY <1>4, <1>6, <2>5, <2>6, <2>11 DEF r, t
<1>9. CASE ~ (3 * k + 3 >= h.size)
  <2> HIDE DEF t, f
  <2>1. h.size > 3 /\ k = Len(s) /\ Buffered(h.buffer, s) /\ Holds(ready, <<>>, n)
    <3>1. h.size > 3
      BY <1>1, <1>9
    <3>2. CASE h.count # 0
      BY <3>1, <3>2, <1>4 DEF Good, k
    <3>3. CASE h.count = 0
      <4>1. s = <<>> /\ Holds(h, s, n) /\ k = 0 /\ ready = h
        BY <1>1, <1>4, <3>1, <3>3 DEF Good
      <4>2. Len(s) = 0 /\ Len(h.buffer) >= 0
        BY <1>1, <4>1
      <4> QED
        BY <3>1, <4>1, <4>2 DEF Buffered
    <3> QED
      BY <3>2, <3>3
  <2> HIDE DEF T
  <2>2. /\ buffer \in Seq(T) /\ Len(buffer) = k + 1 /\ buffer[k + 1] = f
        /\ \A i \in 1 .. k : buffer[i] = h.buffer[i]
    <3> DEFINE a == SubSeq(h.buffer, 1, k)
    <3>1. h.buffer \in Seq(T) /\ k \in Nat /\ k <= Len(h.buffer)
      BY <1>1, <2>1 DEF Buffered, T
    <3>2. a \in Seq(T) /\ Len(a) = k /\ \A i \in 1 .. k : a[i] = h.buffer[i]
      BY <3>1
    <3>3. f \in T
      BY <1>2 DEF T
    <3> HIDE DEF a
    <3>4. Append(a, f) \in Seq(T) /\ Len(Append(a, f)) = k + 1 /\ Append(a, f)[k + 1] = f
          /\ \A i \in 1 .. k : Append(a, f)[i] = a[i]
      BY <3>2, <3>3, AppendOf
    <3> QED
      BY <3>2, <3>4 DEF a
  <2> DEFINE b == [ready EXCEPT !.count = k + 1]
             c == [b EXCEPT !.buffer = buffer]
  <2>3. ready.buffer = h.buffer /\ ready.size = h.size
    BY <1>4 DEF SameBuffer
  <2>4. r = c
    BY <1>4, <1>5, <1>9, <2>3 DEF Hists
  <2>5. k + 1 \in Int /\ k + 1 > 0 /\ Magnitude(k + 1) = k + 1
    BY <1>1, MagnitudeIs
  <2> DEFINE l == k + 1
  <2>6. l \in Int /\ l > 0 /\ Magnitude(l) = k + 1 /\ b = [ready EXCEPT !.count = l]
    BY <2>5
  <2> HIDE DEF l, b
  <2>7. b \in Hists(n) /\ b.count = l /\ b.size = ready.size /\ b.array = ready.array
        /\ b.fEntries = ready.fEntries /\ b.matrix = ready.matrix
    BY <1>4, <2>6 DEF Hists
  <2> HIDE DEF buffer
  <2>8. c \in Hists(n) /\ c.count = l /\ c.size = b.size /\ c.array = b.array
        /\ c.fEntries = b.fEntries /\ c.matrix = b.matrix /\ c.buffer = buffer
    BY <2>2, <2>7 DEF Hists, T
  <2> HIDE DEF c, r
  <2>9. Holds(r, <<>>, n)
    BY <2>1, <2>4, <2>7, <2>8, HoldsSame
  <2>10. Buffered(r.buffer, t)
    <3>1. \A i \in 1 .. Len(t) : buffer[i] = t[i]
      <4> TAKE i \in 1 .. Len(t)
      <4>1. i \in 1 .. k \/ i = k + 1
        BY <1>1, <1>3, <2>1
      <4>2. ASSUME i \in 1 .. k
            PROVE  buffer[i] = t[i]
        BY <4>2, <1>3, <2>1, <2>2 DEF Buffered
      <4> QED
        BY <4>1, <4>2, <1>3, <2>1, <2>2
    <3> QED
      BY <3>1, <1>1, <1>3, <2>1, <2>2, <2>4, <2>8 DEF Buffered
  <2>11. Good(r, t, n)
    BY <1>1, <1>3, <2>1, <2>3, <2>4, <2>6, <2>7, <2>8, <2>9, <2>10 DEF Good
  <2> QED
    BY <1>4, <2>4, <2>7, <2>8, <2>11 DEF r, t, f
<1> QED
  BY <1>7, <1>8, <1>9

LEMMA FillKeeps ==
    ASSUME NEW n \in Nat, NEW h, NEW s \in Seq(Triples(n)), Good(h, s, n),
           NEW x \in Axis(n), NEW y \in Axis(n), NEW w \in Int
    PROVE  LET r == Fill(h, x, y, w) IN
           /\ Good(r, Append(s, <<x, y, Kept(h, w)>>), n)
           /\ r.matrix \in {h.matrix, NoMatrix}
<1>1. CASE h.size = 0
  <2>1. h \in Hists(n) /\ h.count = 0 /\ h.size <= 3 /\ Holds(h, s, n)
    BY <1>1 DEF Good
  <2>2. Fill(h, x, y, w) = FillCell(h, x, y, w) /\ Kept(h, w) = w
    BY <1>1 DEF Fill, Kept
  <2>3. /\ Good(FillCell(h, x, y, w), Append(s, <<x, y, w>>), n)
        /\ FillCell(h, x, y, w).matrix = h.matrix
    BY <2>1, CellKeeps
  <2> QED
    BY <2>2, <2>3
<1>2. CASE h.size # 0
  <2>1. Fill(h, x, y, w) = BufferFill(h, x, y, 1) /\ Kept(h, w) = 1
    BY <1>2 DEF Fill, Kept
  <2> QED
    BY <1>2, <2>1, BufferFillKeeps
<1> QED
  BY <1>1, <1>2

-----------------------------------------------------------------------------
(* A projection                                                            *)

LEMMA WeightNowhere ==
    ASSUME NEW n \in Nat, NEW s \in Seq(Triples(n))
    PROVE  WeightIn(s, {}) = 0
<1> DEFINE k == Len(s)
           f == Counted(s, {})
           z == 0
<1>1. k \in Nat /\ WeightIn(s, {}) = Total(f, 1, k)
  BY CountedInt
<1>2. ASSUME NEW i \in 1 .. k
      PROVE  f[i] = IF i = z THEN z ELSE 0
  <2>1. f[i] = IF {s[i][1], s[i][2]} \in {} THEN s[i][3] ELSE 0
    BY CountedInt
  <2> QED
    BY <2>1
<1>3. k \in Int /\ k >= 1 - 1 /\ 1 \in Int /\ z \in Int
  BY <1>1
<1> HIDE DEF k, f, z
<1>4. Total(f, 1, k) = IF z \in 1 .. k THEN z ELSE 0
  BY <1>2, <1>3, TotalOne
<1> QED
  BY <1>1, <1>4 DEF z

LEMMA ProjectionIs ==
    ASSUME NEW n \in Nat, NEW h \in Hists(n), NEW s \in Seq(Triples(n)), Holds(h, s, n),
           NEW x \in Axis(n)
    PROVE  Projection(h, x) = WeightIn(s, {{x, y} : y \in Axis(n)})
<1> DEFINE f == [y \in Axis(n) |-> GetBinContent(h, x, y)]
           P(j) == {{x, y} : y \in 0 .. j}
           last == n + 1
           S == {j \in Int : Total(f, 0, j) = WeightIn(s, P(j))}
<1>1. Projection(h, x) = Total(f, 0, last)
  BY HistIs DEF Projection
<1>2. -1 \in S
  <2>1. Total(f, 0, 0 - 1) = 0
    BY TotalNone
  <2>2. P(-1) = {}
    OBVIOUS
  <2>3. WeightIn(s, P(-1)) = 0
    BY <2>2, WeightNowhere
  <2> HIDE DEF f, P
  <2> QED
    BY <2>1, <2>3
<1>3. ASSUME NEW j \in 0 .. last, j - 1 \in S
      PROVE  j \in S
  <2>1. j \in Int /\ j >= 0 /\ j \in Axis(n)
    BY DEF Axis
  <2> DEFINE q == {x, j}
  <2>2. f[j] = WeightIn(s, {q})
    BY <2>1, HistIs DEF GetBinContent, Holds
  <2>3. Total(f, 0, j) = Total(f, 0, j - 1) + f[j]
    BY <2>1, TotalStep
  <2>4. Total(f, 0, j - 1) = WeightIn(s, P(j - 1))
    BY <1>3
  <2>5. P(j) = P(j - 1) \cup {q} /\ q \notin P(j - 1)
    <3>1. 0 .. j = (0 .. j - 1) \cup {j} /\ j \notin 0 .. j - 1
      BY <2>1
    <3>2. P(j) = P(j - 1) \cup {q}
      BY <3>1
    <3>3. ASSUME NEW y \in 0 .. j - 1
          PROVE  {x, y} # q
      <4>1. y # j
        BY <3>1
      <4> QED
        BY <4>1
    <3> QED
      BY <3>2, <3>3
  <2> HIDE DEF f, P, q
  <2>6. WeightIn(s, P(j - 1) \cup {q}) = WeightIn(s, P(j - 1)) + WeightIn(s, {q})
    <3> DEFINE R == P(j - 1)
    <3>1. q \notin R
      BY <2>5
    <3> HIDE DEF R
    <3>2. WeightIn(s, R \cup {q}) = WeightIn(s, R) + WeightIn(s, {q})
      BY <3>1, WeightOfOneMore
    <3> QED
      BY <3>2 DEF R
  <2>7. Total(f, 0, j) = WeightIn(s, P(j))
    BY <2>2, <2>3, <2>4, <2>5, <2>6
  <2> QED
    BY <2>1, <2>7
<1> HIDE DEF S
<1>4. last \in S
  <2>1. last \in Int /\ 0 \in Int /\ last >= 0 - 1 /\ 0 - 1 = -1
    OBVIOUS
  <2> HIDE DEF last
  <2>2. 0 - 1 \in S
    BY <1>2, <2>1
  <2> QED
    BY <1>3, <2>1, <2>2, Along
<1>5. P(last) = {{x, y} : y \in Axis(n)}
  BY DEF Axis
<1> QED
  BY <1>1, <1>4, <1>5 DEF S

-----------------------------------------------------------------------------
(* The histogram in use                                                    *)

\* The cached matrix m shows the first k of the fills s.
Shows(m, s, k, n) ==
    m # NoMatrix => \A x, y \in Axis(n) : m[x, y] = WeightIn(SubSeq(s, 1, k), {{x, y}})

HistInv ==
    /\ hist.nbins \in NBins
    /\ fills \in Seq(Triples(hist.nbins))
    /\ Good(hist, fills, hist.nbins)
    /\ shown \in Nat /\ shown <= Len(fills)
    /\ Shows(hist.matrix, fills, shown, hist.nbins)

LEMMA NBinsIs ==
    HistInv => /\ hist.nbins \in NBins /\ hist.nbins \in Nat /\ hist \in Hists(hist.nbins)
               /\ fills \in Seq(Triples(hist.nbins)) /\ Len(fills) \in Nat
               /\ Good(hist, fills, hist.nbins)
               /\ shown \in Nat /\ shown <= Len(fills)
               /\ Shows(hist.matrix, fills, shown, hist.nbins)
<1> SUFFICES ASSUME HistInv
             PROVE  /\ hist.nbins \in Nat /\ hist \in Hists(hist.nbins)
                    /\ Len(fills) \in Nat
  BY DEF HistInv
<1>1. hist.nbins \in Nat
  BY HistAssumption DEF HistInv
<1>2. hist \in Hists(hist.nbins)
  BY DEF HistInv, Good
<1>3. Len(fills) \in Nat
  BY DEF HistInv
<1> QED
  BY <1>1, <1>2, <1>3

LEMMA HistInvInit == HistInit => HistInv
<1> SUFFICES ASSUME HistInit
             PROVE  HistInv
  OBVIOUS
<1>1. PICK n \in NBins, z \in BufferSizes :
          hist = [nbins |-> n, array |-> [c \in Cells(n) |-> 0], fEntries |-> 0,
                  size |-> z, buffer |-> <<>>, count |-> 0, matrix |-> NoMatrix]
  BY DEF HistInit
<1>2. fills = <<>> /\ shown = 0
  BY DEF HistInit
<1>3. n \in Nat /\ z \in Nat
  BY HistAssumption
<1> DEFINE array == [c \in Cells(n) |-> 0]
<1>4. array \in [Cells(n) -> Int] /\ \A c \in Cells(n) : array[c] = 0
  OBVIOUS
<1>5. <<>> \in Seq(Triples(n)) /\ Len(<<>>) = 0
  OBVIOUS
<1>6. hist = [nbins |-> n, array |-> array, fEntries |-> 0,
              size |-> z, buffer |-> <<>>, count |-> 0, matrix |-> NoMatrix]
  BY <1>1
<1> HIDE DEF array
<1>7. /\ hist \in Hists(n) /\ hist.nbins = n /\ hist.array = array /\ hist.fEntries = 0
      /\ hist.count = 0 /\ hist.matrix = NoMatrix
  BY <1>3, <1>4, <1>5, <1>6 DEF Hists
<1>8. Holds(hist, <<>>, n)
  <2>1. \A x, y \in Axis(n) : array[GetBin(x, y, n)] = 0
    BY <1>3, <1>4, GetBinIs
  <2> QED
    BY <1>5, <1>7, <2>1, WeightOfNone DEF Holds
<1>9. Good(hist, <<>>, n)
  BY <1>7, <1>8 DEF Good
<1> QED
  BY <1>2, <1>5, <1>7, <1>9 DEF HistInv, Shows

LEMMA HistInvNext == HistInv /\ [HistNext]_histVars => HistInv'
<1> SUFFICES ASSUME HistInv, [HistNext]_histVars
             PROVE  HistInv'
  OBVIOUS
<1> DEFINE n == hist.nbins
<1>1. /\ n \in NBins /\ n \in Nat /\ hist \in Hists(n)
      /\ fills \in Seq(Triples(n)) /\ Len(fills) \in Nat
      /\ Good(hist, fills, n)
      /\ shown \in Nat /\ shown <= Len(fills)
      /\ Shows(hist.matrix, fills, shown, n)
  BY NBinsIs
<1> HIDE DEF n
<1>2. ASSUME Good(hist', fills', n), fills' \in Seq(Triples(n)),
             shown' \in Nat, shown' <= Len(fills'),
             Shows(hist'.matrix, fills', shown', n)
      PROVE  HistInv'
  <2>1. hist'.nbins = n
    BY <1>2 DEF Good, Hists
  <2> QED
    BY <1>1, <1>2, <2>1 DEF HistInv
<1>3. ASSUME KeepShown, hist'.matrix \in {hist.matrix, NoMatrix},
             Len(fills') \in Nat, Len(fills) <= Len(fills'),
             SubSeq(fills', 1, shown) = SubSeq(fills, 1, shown)
      PROVE  /\ shown' \in Nat /\ shown' <= Len(fills')
             /\ Shows(hist'.matrix, fills', shown', n)
  <2>1. CASE hist'.matrix = NoMatrix
    BY <1>3, <2>1 DEF KeepShown, Shows
  <2>2. CASE hist'.matrix # NoMatrix
    <3>1. hist'.matrix = hist.matrix /\ shown' = shown
      BY <1>3, <2>2 DEF KeepShown
    <3>2. SubSeq(fills', 1, shown') = SubSeq(fills, 1, shown)
      BY <1>3, <3>1
    <3>3. \A x, y \in Axis(n) :
              hist'.matrix[x, y] = WeightIn(SubSeq(fills, 1, shown), {{x, y}})
      BY <1>1, <2>2, <3>1 DEF Shows
    <3>4. Shows(hist'.matrix, fills', shown', n)
      BY <3>2, <3>3 DEF Shows
    <3> QED
      BY <1>1, <1>3, <3>1, <3>4
  <2> QED
    BY <2>1, <2>2
<1>4. ASSUME NEW p \in Points, NEW w \in Weights, FillHist(p[1], p[2], w)
      PROVE  HistInv'
  <2> DEFINE x == p[1]
             y == p[2]
             f == <<x, y, Kept(hist, w)>>
  <2>1. x \in Axis(n) /\ y \in Axis(n) /\ w \in Int
    BY <1>1, HistAssumption
  <2>2. f \in Triples(n)
    BY <2>1 DEF Triples, Kept
  <2>3. hist' = Fill(hist, x, y, w) /\ fills' = Append(fills, f) /\ KeepShown
    BY <1>4 DEF FillHist
  <2> HIDE DEF x, y
  <2>4. Good(hist', fills', n) /\ hist'.matrix \in {hist.matrix, NoMatrix}
    BY <1>1, <2>1, <2>3, FillKeeps
  <2> HIDE DEF f
  <2> DEFINE T == Triples(n)
  <2>5. f \in T /\ fills \in Seq(T) /\ fills' = Append(fills, f)
    BY <1>1, <2>2, <2>3
  <2>6. fills' \in Seq(T)
    <3> HIDE DEF T
    <3> QED
      BY <2>5, AppendOf
  <2>7. Len(fills') = Len(fills) + 1 /\ SubSeq(fills', 1, shown) = SubSeq(fills, 1, shown)
    <3> DEFINE a == SubSeq(fills', 1, shown)
               b == SubSeq(fills, 1, shown)
    <3> HIDE DEF T
    <3>1. Len(fills') = Len(fills) + 1 /\ \A i \in 1 .. Len(fills) : fills'[i] = fills[i]
      BY <2>5
    <3>2. a \in Seq(T) /\ Len(a) = shown /\ \A i \in 1 .. shown : a[i] = fills'[i]
      BY <1>1, <2>6, <3>1
    <3>3. b \in Seq(T) /\ Len(b) = shown /\ \A i \in 1 .. shown : b[i] = fills[i]
      BY <1>1, <2>5
    <3> HIDE DEF a, b
    <3>4. \A i \in 1 .. shown : a[i] = b[i]
      BY <1>1, <3>1, <3>2, <3>3
    <3>5. a = b
      BY <1>1, <3>2, <3>3, <3>4
    <3> QED
      BY <3>1, <3>5 DEF a, b
  <2>8. /\ shown' \in Nat /\ shown' <= Len(fills')
        /\ Shows(hist'.matrix, fills', shown', n)
    BY <1>1, <1>3, <2>3, <2>4, <2>7
  <2> QED
    BY <1>2, <2>4, <2>6, <2>8
<1>5. ASSUME ReadHist
      PROVE  HistInv'
  <2>1. PICK action \in {-1, 0} : hist' = BufferEmpty(hist, action)
    BY <1>5 DEF ReadHist
  <2>2. fills' = fills /\ KeepShown
    BY <1>5 DEF ReadHist
  <2>3. Good(hist', fills, n) /\ hist'.matrix \in {hist.matrix, NoMatrix}
    BY <1>1, <2>1, ReadKeeps
  <2>4. /\ shown' \in Nat /\ shown' <= Len(fills')
        /\ Shows(hist'.matrix, fills', shown', n)
    BY <1>1, <1>3, <2>2, <2>3
  <2> QED
    BY <1>1, <1>2, <2>2, <2>3, <2>4
<1>6. ASSUME NEW force \in BOOLEAN, DrawHist(force)
      PROVE  HistInv'
  <2>1. /\ hist' = GetMatrix(hist, force)
        /\ shown' = (IF hist.matrix = NoMatrix \/ force THEN Len(fills) ELSE shown)
        /\ fills' = fills
    BY <1>6 DEF DrawHist
  <2>2. CASE hist.matrix # NoMatrix /\ ~ force
    <3>1. hist' = hist /\ shown' = shown
      BY <2>1, <2>2 DEF GetMatrix
    <3> QED
      BY <1>1, <1>2, <2>1, <3>1
  <2>3. CASE ~ (hist.matrix # NoMatrix /\ ~ force)
    <3> DEFINE read == BufferEmpty(hist, 0)
               matrix == [b \in Axis(n) \X Axis(n) |-> GetBinContent(read, b[1], b[2])]
    <3>1. hist' = [read EXCEPT !.matrix = matrix] /\ shown' = Len(fills)
      BY <2>1, <2>3 DEF GetMatrix, n
    <3>2. Good(read, fills, n) /\ Holds(read, fills, n)
      BY <1>1, ReadKeeps
    <3> HIDE DEF read
    <3>3. read \in Hists(n) /\ read.nbins = n /\ read.array \in [Cells(n) -> Int]
      BY <3>2, HistIs, <1>1 DEF Good
    <3>4. \A x, y \in Axis(n) : /\ matrix[x, y] = read.array[GetBin(x, y, n)]
                                /\ matrix[x, y] \in Int
      <4> TAKE x, y \in Axis(n)
      <4>1. matrix[x, y] = GetBinContent(read, x, y)
        OBVIOUS
      <4>2. GetBinContent(read, x, y) = read.array[GetBin(x, y, n)]
        BY <3>3 DEF GetBinContent
      <4>3. GetBin(x, y, n) \in Cells(n)
        BY <1>1, GetBinIs
      <4> HIDE DEF matrix
      <4> QED
        BY <3>3, <4>1, <4>2, <4>3
    <3>5. matrix \in [Axis(n) \X Axis(n) -> Int]
      <4>1. ASSUME NEW b \in Axis(n) \X Axis(n)
            PROVE  GetBinContent(read, b[1], b[2]) \in Int
        <5>1. b[1] \in Axis(n) /\ b[2] \in Axis(n)
          OBVIOUS
        <5>2. GetBin(b[1], b[2], n) \in Cells(n)
          BY <1>1, <5>1, GetBinIs
        <5> QED
          BY <3>3, <5>2 DEF GetBinContent
      <4> QED
        BY <4>1
    <3> HIDE DEF matrix
    <3>6. /\ hist' \in Hists(n) /\ hist'.matrix = matrix
          /\ hist'.array = read.array /\ hist'.fEntries = read.fEntries
          /\ SameBuffer(hist', read)
      BY <3>1, <3>3, <3>5 DEF Hists, SameBuffer
    <3>7. Good(hist', fills, n)
      BY <3>2, <3>6 DEF Good, Holds, SameBuffer
    <3>8. SubSeq(fills, 1, Len(fills)) = fills
      BY <1>1
    <3>9. Shows(matrix, fills, shown', n)
      BY <3>1, <3>2, <3>4, <3>8 DEF Shows, Holds
    <3> QED
      BY <1>1, <1>2, <2>1, <3>1, <3>6, <3>7, <3>9
  <2> QED
    BY <2>2, <2>3
<1>7. ASSUME ResetHist
      PROVE  HistInv'
  <2> DEFINE r == Reset(hist)
  <2>1. hist' = [r EXCEPT !.count = 0] /\ fills' = <<>> /\ KeepShown
    BY <1>7 DEF ResetHist
  <2>2. r \in Hists(n) /\ Holds(r, <<>>, n) /\ r.matrix = NoMatrix
    BY <1>1, ResetIs
  <2> HIDE DEF r
  <2>3. /\ hist' \in Hists(n) /\ hist'.count = 0 /\ hist'.matrix = NoMatrix
        /\ hist'.array = r.array /\ hist'.fEntries = r.fEntries
    BY <2>1, <2>2 DEF Hists
  <2>4. Holds(hist', <<>>, n)
    BY <2>2, <2>3, HoldsSame
  <2>5. Good(hist', fills', n)
    BY <2>1, <2>3, <2>4 DEF Good
  <2>6. fills' \in Seq(Triples(n)) /\ Len(fills') = 0
    BY <2>1
  <2>7. shown' = 0
    BY <2>1, <2>3 DEF KeepShown
  <2> QED
    BY <1>2, <2>3, <2>5, <2>6, <2>7 DEF Shows
<1>8. CASE UNCHANGED histVars
  <2>1. hist' = hist /\ fills' = fills /\ shown' = shown
    BY <1>8 DEF histVars
  <2> QED
    BY <1>1, <1>2, <2>1
<1> QED
  BY <1>4, <1>5, <1>6, <1>7, <1>8 DEF HistNext

\* The histogram is read as filled once with every fill.
LEMMA FillsRead ==
    ASSUME HistInv
    PROVE  EveryFillOnce
<1> DEFINE n == hist.nbins
           r == Read
<1>1. /\ n \in Nat /\ fills \in Seq(Triples(n)) /\ Good(hist, fills, n)
      /\ shown <= Len(fills) /\ Shows(hist.matrix, fills, shown, n)
  BY NBinsIs
<1> HIDE DEF n
<1>2. Good(r, fills, n) /\ Holds(r, fills, n)
  BY <1>1, ReadKeeps DEF Read
<1> HIDE DEF r
<1>3. r \in Hists(n)
  BY <1>2 DEF Good
<1>4. r.nbins = n
  BY <1>1, <1>3, HistIs
<1>5. r.fEntries = Len(fills)
  BY <1>2 DEF Holds
<1>6. \A x, y \in Axis(n) : GetBinContent(r, x, y) = WeightIn(fills, {{x, y}})
  BY <1>2, <1>4 DEF Holds, GetBinContent
<1>7. \A x \in Axis(n) : Projection(r, x) = WeightIn(fills, {{x, y} : y \in Axis(n)})
  BY <1>1, <1>2, <1>3, ProjectionIs
<1> QED
  BY <1>1, <1>5, <1>6, <1>7 DEF EveryFillOnce, Shows, n, r

\* For any numbers of bins, sizes of the buffer, points and weights: every call
\* of Fill counts once in the cell of its two values, in whichever order, in
\* the projection, and in the matrix made after it, through any readings,
\* paintings (which fill anew from the buffer), growths of the buffer beyond
\* its end and resets.
THEOREM EveryFillIsRead == HistSpec => []EveryFillOnce
<1>1. HistInit => HistInv
  BY HistInvInit
<1>2. HistInv /\ [HistNext]_histVars => HistInv'
  BY HistInvNext
<1>3. HistInv => EveryFillOnce
  BY FillsRead
<1> QED
  BY <1>1, <1>2, <1>3, PTL DEF HistSpec

-----------------------------------------------------------------------------
(* Sums over a rectangle of bins, from a to b and from c to d, of h        *)

Column(h, x, c, d) == Total([y \in c .. d |-> h[x][y]], c, d)
Rectangle(h, a, b, c, d) == Total([x \in a .. b |-> Column(h, x, c, d)], a, b)

Bounds(a, b, c, d) ==
    /\ a \in Int /\ b \in Int /\ c \in Int /\ d \in Int
    /\ b >= a - 1 /\ d >= c - 1
Alike(h, g, a, b, c, d) == \A x \in a .. b : \A y \in c .. d : h[x][y] = g[x][y]
IsPlus(h, f, g, a, b, c, d) ==
    \A x \in a .. b : \A y \in c .. d :
        f[x][y] \in Int /\ g[x][y] \in Int /\ h[x][y] = f[x][y] + g[x][y]
OnlyAt(h, u, v, w, a, b, c, d) ==
    \A x \in a .. b : \A y \in c .. d : h[x][y] = IF x = u /\ y = v THEN w ELSE 0
OfFill(h, u, v, w, a, b, c, d) ==
    \A x \in a .. b : \A y \in c .. d : h[x][y] = IF {u, v} \in {{x, y}} THEN w ELSE 0
OfFills(h, s, a, b, c, d) ==
    \A x \in a .. b : \A y \in c .. d : h[x][y] = WeightIn(s, {{x, y}})

LEMMA RectangleSame ==
    ASSUME NEW a, NEW b, NEW c, NEW d, Bounds(a, b, c, d), NEW h, NEW g,
           Alike(h, g, a, b, c, d)
    PROVE  Rectangle(h, a, b, c, d) = Rectangle(g, a, b, c, d)
<1>0. a \in Int /\ b \in Int /\ c \in Int /\ d \in Int /\ b >= a - 1 /\ d >= c - 1
  BY DEF Bounds
<1>1. \A x \in a .. b : Column(h, x, c, d) = Column(g, x, c, d)
  <2> TAKE x \in a .. b
  <2> DEFINE H == [y \in c .. d |-> h[x][y]]
             G == [y \in c .. d |-> g[x][y]]
  <2>1. \A y \in c .. d : H[y] = G[y]
    BY DEF Alike
  <2> HIDE DEF H, G
  <2>2. Total(H, c, d) = Total(G, c, d)
    BY <1>0, <2>1, TotalSame
  <2> QED
    BY <2>2 DEF Column, H, G
<1> DEFINE H == [x \in a .. b |-> Column(h, x, c, d)]
           G == [x \in a .. b |-> Column(g, x, c, d)]
<1>2. \A x \in a .. b : H[x] = G[x]
  BY <1>1
<1> HIDE DEF H, G
<1>3. Total(H, a, b) = Total(G, a, b)
  BY <1>0, <1>2, TotalSame
<1> QED
  BY <1>3 DEF Rectangle, H, G

LEMMA RectanglePlus ==
    ASSUME NEW a, NEW b, NEW c, NEW d, Bounds(a, b, c, d), NEW h, NEW f, NEW g,
           IsPlus(h, f, g, a, b, c, d)
    PROVE  Rectangle(h, a, b, c, d) = Rectangle(f, a, b, c, d) + Rectangle(g, a, b, c, d)
<1>0. a \in Int /\ b \in Int /\ c \in Int /\ d \in Int /\ b >= a - 1 /\ d >= c - 1
  BY DEF Bounds
<1>1. ASSUME NEW x \in a .. b
      PROVE  /\ Column(f, x, c, d) \in Int /\ Column(g, x, c, d) \in Int
             /\ Column(h, x, c, d) = Column(f, x, c, d) + Column(g, x, c, d)
  <2> DEFINE H == [y \in c .. d |-> h[x][y]]
             F == [y \in c .. d |-> f[x][y]]
             G == [y \in c .. d |-> g[x][y]]
  <2>1. \A y \in c .. d : F[y] \in Int /\ G[y] \in Int /\ H[y] = F[y] + G[y]
    BY DEF IsPlus
  <2> HIDE DEF H, F, G
  <2>2. Total(H, c, d) = Total(F, c, d) + Total(G, c, d)
    BY <1>0, <2>1, TotalPlus
  <2>3. Total(F, c, d) \in Int
    BY <1>0, <2>1, TotalInt
  <2>4. Total(G, c, d) \in Int
    BY <1>0, <2>1, TotalInt
  <2> QED
    BY <2>2, <2>3, <2>4 DEF Column, H, F, G
<1> DEFINE H == [x \in a .. b |-> Column(h, x, c, d)]
           F == [x \in a .. b |-> Column(f, x, c, d)]
           G == [x \in a .. b |-> Column(g, x, c, d)]
<1>2. \A x \in a .. b : F[x] \in Int /\ G[x] \in Int /\ H[x] = F[x] + G[x]
  BY <1>1
<1> HIDE DEF H, F, G
<1>3. Total(H, a, b) = Total(F, a, b) + Total(G, a, b)
  BY <1>0, <1>2, TotalPlus
<1> QED
  BY <1>3 DEF Rectangle, H, F, G

\* All cells but one are zero.
LEMMA RectangleOne ==
    ASSUME NEW a, NEW b, NEW c, NEW d, Bounds(a, b, c, d),
           NEW h, NEW u \in Int, NEW v \in Int, NEW w \in Int,
           OnlyAt(h, u, v, w, a, b, c, d)
    PROVE  Rectangle(h, a, b, c, d) = IF u \in a .. b /\ v \in c .. d THEN w ELSE 0
<1> DEFINE z == IF v \in c .. d THEN w ELSE 0
<1>0. a \in Int /\ b \in Int /\ c \in Int /\ d \in Int /\ b >= a - 1 /\ d >= c - 1
  BY DEF Bounds
<1>1. ASSUME NEW x \in a .. b
      PROVE  Column(h, x, c, d) = IF x = u THEN z ELSE 0
  <2> DEFINE H == [y \in c .. d |-> h[x][y]]
             e == IF x = u THEN w ELSE 0
  <2>1. e \in Int /\ \A y \in c .. d : H[y] = IF y = v THEN e ELSE 0
    BY DEF OnlyAt
  <2> HIDE DEF H, e
  <2>2. Total(H, c, d) = IF v \in c .. d THEN e ELSE 0
    BY <1>0, <2>1, TotalOne
  <2> QED
    BY <2>2 DEF Column, H, e
<1> DEFINE H == [x \in a .. b |-> Column(h, x, c, d)]
<1>2. z \in Int /\ \A x \in a .. b : H[x] = IF x = u THEN z ELSE 0
  BY <1>1
<1> HIDE DEF H, z
<1>3. Total(H, a, b) = IF u \in a .. b THEN z ELSE 0
  BY <1>0, <1>2, TotalOne
<1> QED
  BY <1>3 DEF Rectangle, H, z

\* The pairs (u, v) and (v, u) in the set Q.
Orders(u, v, Q) == {<<u, v>>, <<v, u>>} \cap Q
In(w, p, Q) == IF p \in Q THEN w ELSE 0

LEMMA OrdersIn ==
    ASSUME NEW u \in Int, NEW v \in Int, NEW Q, NEW w \in Int
    PROVE  w * Cardinality(Orders(u, v, Q)) =
               IF u = v THEN In(w, <<u, v>>, Q) ELSE In(w, <<u, v>>, Q) + In(w, <<v, u>>, Q)
<1> DEFINE p == <<u, v>>
           q == <<v, u>>
<1>1. u = v <=> p = q
  OBVIOUS
<1>2. Orders(u, v, Q) = {p, q} \cap Q
  BY DEF Orders
<1> HIDE DEF p, q
<1>3. Cardinality({}) = 0 /\ Cardinality({p}) = 1 /\ Cardinality({q}) = 1
  BY FS_EmptySet, FS_Singleton
<1>4. p # q => Cardinality({p, q}) = 2
  <2>1. IsFiniteSet({p}) /\ {p} \cup {q} = {p, q}
    BY FS_Singleton
  <2> HAVE p # q
  <2>2. q \notin {p}
    OBVIOUS
  <2>3. Cardinality({p} \cup {q}) = Cardinality({p}) + 1
    BY <2>1, <2>2, FS_AddElement
  <2> QED
    BY <1>3, <2>1, <2>3
<1>5. w * 0 = 0 /\ w * 1 = w /\ w * 2 = w + w
  OBVIOUS
<1> DEFINE O == Orders(u, v, Q)
<1>6. CASE p \in Q /\ q \in Q
  <2>1. O = {p, q}
    BY <1>2, <1>6
  <2>2. p = q => O = {p}
    BY <2>1
  <2> HIDE DEF O
  <2> QED
    BY <1>1, <1>3, <1>4, <1>5, <1>6, <2>1, <2>2 DEF In, O, p, q
<1>7. CASE p \in Q /\ q \notin Q
  <2>1. O = {p} /\ p # q
    BY <1>2, <1>7
  <2> HIDE DEF O
  <2> QED
    BY <1>1, <1>3, <1>5, <1>7, <2>1 DEF In, O, p, q
<1>8. CASE p \notin Q /\ q \in Q
  <2>1. O = {q} /\ p # q
    BY <1>2, <1>8
  <2> HIDE DEF O
  <2> QED
    BY <1>1, <1>3, <1>5, <1>8, <2>1 DEF In, O, p, q
<1>9. CASE p \notin Q /\ q \notin Q
  <2>1. O = {}
    BY <1>2, <1>9
  <2> HIDE DEF O
  <2> QED
    BY <1>3, <1>5, <1>9, <2>1 DEF In, O, p, q
<1> QED
  BY <1>6, <1>7, <1>8, <1>9

\* What one fill adds to a rectangle.
LEMMA RectangleOfFill ==
    ASSUME NEW a, NEW b, NEW c, NEW d, Bounds(a, b, c, d),
           NEW h, NEW u \in Int, NEW v \in Int, NEW w \in Int,
           OfFill(h, u, v, w, a, b, c, d)
    PROVE  Rectangle(h, a, b, c, d) = w * Cardinality(Orders(u, v, (a .. b) \X (c .. d)))
<1> DEFINE Q == (a .. b) \X (c .. d)
           f == [x \in a .. b |-> [y \in c .. d |-> IF x = u /\ y = v THEN w ELSE 0]]
           g == [x \in a .. b |-> [y \in c .. d |-> IF x = v /\ y = u THEN w ELSE 0]]
<1>0. a \in Int /\ b \in Int /\ c \in Int /\ d \in Int /\ b >= a - 1 /\ d >= c - 1
  BY DEF Bounds
<1>1. ASSUME NEW x \in a .. b, NEW y \in c .. d
      PROVE  /\ f[x][y] = (IF x = u /\ y = v THEN w ELSE 0)
             /\ g[x][y] = (IF x = v /\ y = u THEN w ELSE 0)
             /\ h[x][y] = (IF (x = u /\ y = v) \/ (x = v /\ y = u) THEN w ELSE 0)
  <2>1. {u, v} \in {{x, y}} <=> (x = u /\ y = v) \/ (x = v /\ y = u)
    OBVIOUS
  <2>3. /\ f[x][y] = (IF x = u /\ y = v THEN w ELSE 0)
        /\ g[x][y] = (IF x = v /\ y = u THEN w ELSE 0)
    OBVIOUS
  <2>4. h[x][y] = IF {u, v} \in {{x, y}} THEN w ELSE 0
    BY DEF OfFill
  <2> HIDE DEF f, g
  <2> QED
    BY <2>1, <2>3, <2>4
<1>2. /\ <<u, v>> \in Q <=> u \in a .. b /\ v \in c .. d
      /\ <<v, u>> \in Q <=> v \in a .. b /\ u \in c .. d
  OBVIOUS
<1> HIDE DEF Q, f, g
<1>3. Rectangle(f, a, b, c, d) = In(w, <<u, v>>, Q)
  <2>1. OnlyAt(f, u, v, w, a, b, c, d)
    BY <1>1 DEF OnlyAt
  <2>2. Rectangle(f, a, b, c, d) = IF u \in a .. b /\ v \in c .. d THEN w ELSE 0
    BY <2>1, RectangleOne
  <2> QED
    BY <1>2, <2>2 DEF In
<1>4. Rectangle(g, a, b, c, d) = In(w, <<v, u>>, Q)
  <2>1. OnlyAt(g, v, u, w, a, b, c, d)
    BY <1>1 DEF OnlyAt
  <2>2. Rectangle(g, a, b, c, d) = IF v \in a .. b /\ u \in c .. d THEN w ELSE 0
    BY <2>1, RectangleOne
  <2> QED
    BY <1>2, <2>2 DEF In
<1>5. CASE u = v
  <2>1. Alike(h, f, a, b, c, d)
    BY <1>1, <1>5 DEF Alike
  <2>2. Rectangle(h, a, b, c, d) = Rectangle(f, a, b, c, d)
    BY <2>1, RectangleSame
  <2> QED
    BY <1>3, <1>5, <2>2, OrdersIn DEF Q
<1>6. CASE u # v
  <2>1. IsPlus(h, f, g, a, b, c, d)
    BY <1>1, <1>6 DEF IsPlus
  <2>2. Rectangle(h, a, b, c, d) = Rectangle(f, a, b, c, d) + Rectangle(g, a, b, c, d)
    BY <2>1, RectanglePlus
  <2>3. w * Cardinality(Orders(u, v, Q)) = In(w, <<u, v>>, Q) + In(w, <<v, u>>, Q)
    BY <1>6, OrdersIn
  <2> QED
    BY <1>3, <1>4, <2>2, <2>3 DEF Q
<1> QED
  BY <1>5, <1>6

\* What the fills add to a rectangle: e has what each adds.
EachIn(e, s, Q) ==
    \A i \in 1 .. Len(s) : e[i] = s[i][3] * Cardinality(Orders(s[i][1], s[i][2], Q))

LEMMA RectangleOfFills ==
    ASSUME NEW n \in Nat, NEW s \in Seq(Triples(n)),
           NEW a, NEW b, NEW c, NEW d, Bounds(a, b, c, d),
           NEW h, OfFills(h, s, a, b, c, d),
           NEW e, EachIn(e, s, (a .. b) \X (c .. d))
    PROVE  Rectangle(h, a, b, c, d) = Total(e, 1, Len(s))
<1> DEFINE m == Len(s)
           Q == (a .. b) \X (c .. d)
           first(i) == SubSeq(s, 1, i)
           in(i) == [x \in a .. b |-> [y \in c .. d |-> WeightIn(first(i), {{x, y}})]]
           S == {i \in Int : Rectangle(in(i), a, b, c, d) = Total(e, 1, i)}
<1>1. m \in Nat
  OBVIOUS
<1>2. \A i : OfFills(in(i), first(i), a, b, c, d)
  BY DEF OfFills
<1>3. 0 \in S
  <2> DEFINE k == in(0)
             z == 0
  <2>1. first(0) = <<>>
    OBVIOUS
  <2>2. OfFills(k, <<>>, a, b, c, d)
    BY <1>2, <2>1
  <2> HIDE DEF k
  <2>3. OnlyAt(k, z, z, z, a, b, c, d)
    BY <2>2, WeightOfNone DEF OfFills, OnlyAt
  <2>4. z \in Int
    OBVIOUS
  <2> HIDE DEF z
  <2>5. Rectangle(k, a, b, c, d) = IF z \in a .. b /\ z \in c .. d THEN z ELSE 0
    BY <2>3, <2>4, RectangleOne
  <2>6. Rectangle(k, a, b, c, d) = 0
    BY <2>5 DEF z
  <2>7. \A f : Total(f, 1, 1 - 1) = 0
    BY ONLY TotalNone
  <2>8. Total(e, 1, 0) = 0
    BY <2>7
  <2> QED
    BY <2>6, <2>8 DEF k
<1>4. ASSUME NEW i \in 1 .. m, i - 1 \in S
      PROVE  i \in S
  <2> DEFINE t == first(i - 1)
             l == first(i)
             f == s[i]
             u == f[1]
             v == f[2]
             w == f[3]
             g == [x \in a .. b |-> [y \in c .. d |-> IF {u, v} \in {{x, y}} THEN w ELSE 0]]
             F == in(i - 1)
             H == in(i)
  <2>1. t \in Seq(Triples(n)) /\ f \in Triples(n) /\ l = Append(t, f)
    BY FirstOf
  <2>2. u \in Int /\ v \in Int /\ w \in Int
    BY <2>1, TripleIs DEF Axis
  <2>3. OfFill(g, u, v, w, a, b, c, d)
    BY DEF OfFill
  <2>4. OfFills(F, t, a, b, c, d)
    BY <1>2
  <2>5. OfFills(H, l, a, b, c, d)
    BY <1>2
  <2>6. Rectangle(F, a, b, c, d) = Total(e, 1, i - 1)
    BY <1>4
  <2>7. e[i] = w * Cardinality(Orders(u, v, Q))
    BY DEF EachIn
  <2> HIDE DEF t, l, g, F, H, first, in
  <2>8. ASSUME NEW x \in a .. b, NEW y \in c .. d
        PROVE  /\ F[x][y] \in Int /\ g[x][y] \in Int
               /\ H[x][y] = F[x][y] + g[x][y]
    <3> DEFINE P == {{x, y}}
    <3>1. WeightIn(l, P) = WeightIn(t, P) + IF {u, v} \in P THEN w ELSE 0
      <4> HIDE DEF P
      <4> QED
        BY <2>1, WeightAppended
    <3>2. WeightIn(t, P) \in Int
      <4> HIDE DEF P
      <4> QED
        BY <2>1, WeightInt
    <3>3. /\ F[x][y] = WeightIn(t, P) /\ H[x][y] = WeightIn(l, P)
          /\ g[x][y] = IF {u, v} \in P THEN w ELSE 0
      BY <2>3, <2>4, <2>5 DEF OfFill, OfFills
    <3> HIDE DEF P, u, v, w
    <3> QED
      BY <2>2, <3>1, <3>2, <3>3
  <2> HIDE DEF f, u, v, w, Q
  <2>9. Rectangle(H, a, b, c, d) = Rectangle(F, a, b, c, d) + Rectangle(g, a, b, c, d)
    <3>1. IsPlus(H, F, g, a, b, c, d)
      BY <2>8 DEF IsPlus
    <3> QED
      BY <3>1, RectanglePlus
  <2>10. Rectangle(g, a, b, c, d) = w * Cardinality(Orders(u, v, Q))
    BY <2>2, <2>3, RectangleOfFill DEF Q
  <2>11. i \in Int /\ i >= 1
    BY <1>1
  <2>12. Total(e, 1, i) = Total(e, 1, i - 1) + e[i]
    BY <2>11, TotalStep
  <2>13. Rectangle(H, a, b, c, d) = Total(e, 1, i)
    BY <2>6, <2>7, <2>9, <2>10, <2>12
  <2> QED
    BY <1>1, <2>13 DEF H
<1> HIDE DEF S
<1>5. m \in S
  BY <1>1, <1>3, <1>4, AlongFromZero
<1>6. first(m) = s
  OBVIOUS
<1> DEFINE g == in(m)
<1>7. Alike(h, g, a, b, c, d)
  <2>1. OfFills(g, s, a, b, c, d)
    BY <1>2, <1>6
  <2> HIDE DEF g
  <2> QED
    BY <2>1 DEF OfFills, Alike
<1>8. Rectangle(g, a, b, c, d) = Total(e, 1, m)
  BY <1>5 DEF S
<1> HIDE DEF g, m
<1>9. Rectangle(h, a, b, c, d) = Rectangle(g, a, b, c, d)
  BY <1>7, RectangleSame
<1> QED
  BY <1>8, <1>9 DEF m

-----------------------------------------------------------------------------
(* The histogram rebinned                                                  *)

\* The bins of a group are bins of the axis.
LEMMA BlockIs ==
    ASSUME NEW n \in Nat, NEW g \in 1 .. n, NEW b \in 1 .. n \div g
    PROVE  /\ First(b, g) \in Int /\ b * g \in Int /\ b * g >= First(b, g) - 1
           /\ \A x \in First(b, g) .. b * g : x \in Axis(n)
<1> DEFINE q == n \div g
<1>1. g \in Int /\ g > 0 /\ q \in Int /\ b \in Int /\ b >= 1 /\ b <= q
  OBVIOUS
<1>2. q * g <= n
  BY <1>1
<1> HIDE DEF q
<1>3. b * g \in Int /\ (b - 1) * g \in Int /\ b * g = (b - 1) * g + g
      /\ (b - 1) * g >= 0 /\ b * g <= q * g /\ q * g \in Int
  <2>1. b * g \in Int /\ (b - 1) * g \in Int /\ q * g \in Int
    BY <1>1
  <2>2. b * g = (b - 1) * g + g
    BY <1>1
  <2>3. (b - 1) * g >= 0
    BY <1>1
  <2>4. b * g <= q * g
    <3> DEFINE r == q - b
    <3>1. r \in Int /\ r >= 0
      BY <1>1
    <3>2. r * g >= 0 /\ r * g \in Int
      BY <1>1, <3>1
    <3>3. q * g = b * g + r * g
      BY <1>1
    <3> HIDE DEF r
    <3> QED
      BY <2>1, <3>2, <3>3
  <2> QED
    BY <2>1, <2>2, <2>3, <2>4
<1> DEFINE k == (b - 1) * g
           l == b * g
           o == q * g
<1>4. /\ k \in Int /\ l \in Int /\ o \in Int /\ l = k + g /\ k >= 0 /\ l <= o /\ o <= n
      /\ First(b, g) = k + 1
  BY <1>2, <1>3 DEF First
<1> HIDE DEF k, l, o
<1>5. \A x \in k + 1 .. l : x \in Axis(n)
  BY <1>1, <1>4 DEF Axis
<1>6. k + 1 \in Int /\ l >= k + 1 - 1
  BY <1>1, <1>4
<1> QED
  BY <1>4, <1>5, <1>6 DEF l

LEMMA RebinnedRead ==
    ASSUME HistInv
    PROVE  RebinnedCopyIsFills
<1> DEFINE n == hist.nbins
           r == Read
<1>1. /\ n \in Nat /\ fills \in Seq(Triples(n)) /\ Good(hist, fills, n)
  BY NBinsIs
<1> HIDE DEF n
<1>2. Holds(r, fills, n) /\ r \in Hists(n)
  <2>1. Good(r, fills, n) /\ Holds(r, fills, n)
    BY <1>1, ReadKeeps DEF Read
  <2> QED
    BY <2>1 DEF Good
<1> HIDE DEF r
<1>3. r.nbins = n
  BY <1>1, <1>2, HistIs
<1>4. ASSUME NEW g \in 1 .. n, NEW p \in DOMAIN Rebin2D(r, g, "hnew")
      PROVE  Rebin2D(r, g, "hnew")[p] =
                 Total([i \in DOMAIN fills |-> fills[i][3] * Cardinality(
                           {<<fills[i][1], fills[i][2]>>, <<fills[i][2], fills[i][1]>>}
                               \cap (Block(p[1], g) \X Block(p[2], g)))],
                       1, Len(fills))
  <2> DEFINE q == n \div g
             a == First(p[1], g)
             b == p[1] * g
             c == First(p[2], g)
             d == p[2] * g
             h == [x \in a .. b |-> [y \in c .. d |-> OldCell(<<x, y>>, r, n)]]
             e == [i \in DOMAIN fills |-> fills[i][3] * Cardinality(
                           {<<fills[i][1], fills[i][2]>>, <<fills[i][2], fills[i][1]>>}
                               \cap (Block(p[1], g) \X Block(p[2], g)))]
  <2>1. /\ p \in (1 .. q) \X (1 .. q)
        /\ Rebin2D(r, g, "hnew")[p] =
               Total([x \in Block(p[1], g) |->
                         Total([y \in Block(p[2], g) |-> OldCell(<<x, y>>, r, n)], c, d)],
                     a, b)
    BY <1>3, <1>4 DEF Rebin2D
  <2>2. p[1] \in 1 .. q /\ p[2] \in 1 .. q
    BY <2>1
  <2>3. /\ a \in Int /\ b \in Int /\ b >= a - 1 /\ \A x \in a .. b : x \in Axis(n)
    BY <1>1, <2>2, BlockIs
  <2>4. /\ c \in Int /\ d \in Int /\ d >= c - 1 /\ \A x \in c .. d : x \in Axis(n)
    BY <1>1, <2>2, BlockIs
  <2>5. Block(p[1], g) = a .. b /\ Block(p[2], g) = c .. d
    BY DEF Block
  <2>6. EachIn(e, fills, (a .. b) \X (c .. d))
    BY <1>1, <2>5 DEF EachIn, Orders
  <2> HIDE DEF a, b, c, d, e, q
  <2>7. ASSUME NEW x \in a .. b, NEW y \in c .. d
        PROVE  /\ h[x][y] = OldCell(<<x, y>>, r, n)
               /\ h[x][y] = WeightIn(fills, {{x, y}})
    <3>1. h[x][y] = OldCell(<<x, y>>, r, n)
      OBVIOUS
    <3>2. OldCell(<<x, y>>, r, n) = r.array[GetBin(x, y, n)]
      BY DEF OldCell
    <3>3. x \in Axis(n) /\ y \in Axis(n)
      BY <2>3, <2>4
    <3> HIDE DEF h
    <3> QED
      BY <1>2, <3>1, <3>2, <3>3 DEF Holds
  <2> HIDE DEF h
  <2>8. OfFills(h, fills, a, b, c, d) /\ Bounds(a, b, c, d)
    BY <2>3, <2>4, <2>7 DEF OfFills, Bounds
  <2>9. Rectangle(h, a, b, c, d) = Total(e, 1, Len(fills))
    BY <1>1, <2>6, <2>8, RectangleOfFills
  <2>10. Rebin2D(r, g, "hnew")[p] = Rectangle(h, a, b, c, d)
    <3>1. \A x \in a .. b : Column(h, x, c, d) =
                                Total([y \in c .. d |-> OldCell(<<x, y>>, r, n)], c, d)
      <4> TAKE x \in a .. b
      <4>1. [y \in c .. d |-> OldCell(<<x, y>>, r, n)] = [y \in c .. d |-> h[x][y]]
        BY <2>7
      <4> QED
        BY <4>1 DEF Column
    <3>2. [x \in a .. b |-> Total([y \in c .. d |-> OldCell(<<x, y>>, r, n)], c, d)] =
              [x \in a .. b |-> Column(h, x, c, d)]
      BY <3>1
    <3> QED
      BY <2>1, <2>5, <3>2 DEF Rectangle
  <2> QED
    BY <2>9, <2>10 DEF e
<1> QED
  BY <1>4 DEF RebinnedCopyIsFills, MergesFills, n, r

\* Rebin2D into a new histogram, by any number of bins up to all of them, adds
\* up the cells of the old one that hold fills of its two groups of bins, and
\* counts a fill of two different bins of one group twice.  Nothing is claimed
\* of a histogram that is rebinned itself, nor of under- and overflow.
THEOREM RebinnedCopyKeepsFills == HistSpec => []RebinnedCopyIsFills
<1>1. HistInit => HistInv
  BY HistInvInit
<1>2. HistInv /\ [HistNext]_histVars => HistInv'
  BY HistInvNext
<1>3. HistInv => RebinnedCopyIsFills
  BY RebinnedRead
<1> QED
  BY <1>1, <1>2, <1>3, PTL DEF HistSpec
=============================================================================
