------------------------- MODULE TFragmentMapProofs -------------------------
(***************************************************************************)
(* Proofs about TFragmentMap, for any addresses, pile-ups and losses, and  *)
(* about PileUpCharges, for any charges and integration lengths.           *)
(*                                                                         *)
(* What makes EveryFragmentOnce and ArrivalOrderKept inductive is the      *)
(* order of the hits: what waits at an address came after all of it in the *)
(* good output, and what is still to be sent after all that was received.  *)
(* What makes SpoiledOnlyByLoss inductive is a count of integrals: those   *)
(* that wait and are sent, against those their fragments would have.       *)
(***************************************************************************)
EXTENDS TFragmentMap, PileUpCharges, SequenceTheorems, FiniteSetTheorems,
        WellFoundedInduction, TLAPS

-----------------------------------------------------------------------------
(* The fragments of the map                                                *)

FragmentsOf(a) ==
    [address : {a}, pileUp : Nat, hit : Nat, integrals : Seq(BOOLEAN)]
AllFragments ==
    [address : HitAddresses, pileUp : Nat, hit : Nat, integrals : Seq(BOOLEAN)]

\* A sequence in the order of the hits.
InOrder(s) == \A i, j \in DOMAIN s : i < j => Before(s[i], s[j])

\* Every fragment of S is of an earlier hit than every one in s.
AllBefore(S, s) == \A e \in S : \A i \in DOMAIN s : Before(e, s[i])

OfAddress(a, S) == {f \in S : f.address = a}

\* The invariant.
FragmentTyped ==
    /\ fMap = [a \in HitAddresses |-> fMap[a]] /\ DOMAIN sending = HitAddresses
    /\ started \in [HitAddresses -> Nat]
    /\ \A a \in HitAddresses :
           fMap[a] \in Seq(FragmentsOf(a)) /\ sending[a] \in Seq(FragmentsOf(a))
    /\ goodOutput \in Seq(AllFragments \X Nat)
    /\ badOutput \in Seq(AllFragments)
    /\ received \subseteq AllFragments

Sending ==
    \A a \in HitAddresses :
        /\ InOrder(sending[a])
        /\ AllBefore(OfAddress(a, received), sending[a])
        /\ \A f \in OfAddress(a, received) : f.pileUp <= started[a]
        /\ \A i \in DOMAIN sending[a] : sending[a][i].pileUp <= started[a]

Output ==
    \A a \in HitAddresses :
        /\ InOrder(fMap[a])
        /\ AllBefore(OfAddress(a, Range(Good)), fMap[a])

FragmentInv ==
    FragmentTyped /\ Sending /\ Output /\ ArrivalOrderKept /\ EveryFragmentOnce
-----------------------------------------------------------------------------
LEMMA FragmentIsOfAddress ==
    ASSUME NEW a \in HitAddresses, NEW f \in FragmentsOf(a)
    PROVE  /\ f \in AllFragments /\ f.address = a
           /\ f.pileUp \in Nat /\ f.hit \in Nat
  BY DEF FragmentsOf, AllFragments

LEMMA OrderIsStrict ==
    ASSUME NEW e \in AllFragments PROVE ~ Before(e, e)
  BY DEF Before, AllFragments

LEMMA TailOf ==
    ASSUME NEW S, NEW s \in Seq(S), s # <<>>
    PROVE  /\ Tail(s) \in Seq(S) /\ Head(s) = s[1] /\ Head(s) \in S
           /\ Len(s) \in Nat \ {0} /\ DOMAIN s = 1 .. Len(s)
           /\ DOMAIN Tail(s) = 1 .. (Len(s) - 1)
           /\ \A i \in 1 .. (Len(s) - 1) : Tail(s)[i] = s[i + 1]
  OBVIOUS

LEMMA AppendOf ==
    ASSUME NEW S, NEW s \in Seq(S), NEW x \in S
    PROVE  /\ Append(s, x) \in Seq(S)
           /\ Len(s) \in Nat
           /\ DOMAIN Append(s, x) = 1 .. (Len(s) + 1)
           /\ \A i \in 1 .. Len(s) : Append(s, x)[i] = s[i]
           /\ Append(s, x)[Len(s) + 1] = x
  OBVIOUS

LEMMA ConcatOf ==
    ASSUME NEW S, NEW s \in Seq(S), NEW t \in Seq(S)
    PROVE  /\ s \o t \in Seq(S)
           /\ Len(s) \in Nat /\ Len(t) \in Nat
           /\ DOMAIN (s \o t) = 1 .. (Len(s) + Len(t))
           /\ \A i \in 1 .. Len(s) : (s \o t)[i] = s[i]
           /\ \A i \in 1 .. Len(t) : (s \o t)[Len(s) + i] = t[i]
  OBVIOUS

LEMMA RangeAppend ==
    ASSUME NEW S, NEW s \in Seq(S), NEW x \in S
    PROVE  Range(Append(s, x)) = Range(s) \cup {x}
<1>1. DOMAIN s = 1 .. Len(s)
  OBVIOUS
<1>2. DOMAIN Append(s, x) = (DOMAIN s) \cup {Len(s) + 1}
  BY <1>1, AppendOf
<1> QED
  BY <1>1, <1>2, AppendOf DEF Range

LEMMA RangeConcat ==
    ASSUME NEW S, NEW s \in Seq(S), NEW t \in Seq(S)
    PROVE  Range(s \o t) = Range(s) \cup Range(t)
<1>1. /\ Len(s) \in Nat /\ Len(t) \in Nat
      /\ DOMAIN s = 1 .. Len(s) /\ DOMAIN t = 1 .. Len(t)
  OBVIOUS
<1>2. DOMAIN (s \o t) = 1 .. (Len(s) + Len(t))
  BY ConcatOf
<1>3. ASSUME NEW i \in DOMAIN (s \o t)
      PROVE  (s \o t)[i] \in Range(s) \cup Range(t)
  <2>1. CASE i \in 1 .. Len(s)
    BY <2>1, <1>1, ConcatOf DEF Range
  <2>2. CASE i \notin 1 .. Len(s)
    <3>1. i - Len(s) \in 1 .. Len(t) /\ i = Len(s) + (i - Len(s))
      BY <2>2, <1>1, <1>2
    <3>2. (s \o t)[i] = t[i - Len(s)]
      BY <3>1, ConcatOf
    <3> QED
      BY <3>1, <3>2, <1>1 DEF Range
  <2> QED
    BY <2>1, <2>2
<1>4. ASSUME NEW i \in DOMAIN s PROVE s[i] \in Range(s \o t)
  <2>1. i \in DOMAIN (s \o t) /\ (s \o t)[i] = s[i]
    BY <1>1, <1>2, ConcatOf
  <2> QED
    BY <2>1 DEF Range
<1>5. ASSUME NEW i \in DOMAIN t PROVE t[i] \in Range(s \o t)
  <2>1. Len(s) + i \in DOMAIN (s \o t) /\ (s \o t)[Len(s) + i] = t[i]
    BY <1>1, <1>2, ConcatOf
  <2> QED
    BY <2>1 DEF Range
<1> QED
  BY <1>3, <1>4, <1>5 DEF Range

\* A sequence that ends with an element of a later hit.
LEMMA InOrderAppend ==
    ASSUME NEW S, NEW s \in Seq(S), NEW x \in S, InOrder(s),
           \A i \in DOMAIN s : Before(s[i], x)
    PROVE  InOrder(Append(s, x))
<1>1. DOMAIN s = 1 .. Len(s)
  OBVIOUS
<1> SUFFICES ASSUME NEW i \in DOMAIN Append(s, x), NEW j \in DOMAIN Append(s, x), i < j
             PROVE  Before(Append(s, x)[i], Append(s, x)[j])
  BY DEF InOrder
<1>2. i \in 1 .. Len(s)
  BY AppendOf
<1>3. CASE j = Len(s) + 1
  BY <1>1, <1>2, <1>3, AppendOf
<1>4. CASE j # Len(s) + 1
  <2>1. j \in 1 .. Len(s)
    BY <1>4, AppendOf
  <2> QED
    BY <1>1, <1>2, <2>1, AppendOf DEF InOrder
<1> QED
  BY <1>3, <1>4

LEMMA InOrderOnce ==
    ASSUME NEW s \in Seq(AllFragments), InOrder(s)
    PROVE  IsInjective(s)
<1> SUFFICES ASSUME NEW i \in DOMAIN s, NEW j \in DOMAIN s, s[i] = s[j], i # j
             PROVE  FALSE
  BY DEF IsInjective
<1>1. s[i] \in AllFragments /\ i \in Int /\ j \in Int
  OBVIOUS
<1>2. ~ Before(s[i], s[i])
  BY <1>1, OrderIsStrict
<1> QED
  BY <1>1, <1>2 DEF InOrder

LEMMA OnceConcat ==
    ASSUME NEW S, NEW s \in Seq(S), NEW t \in Seq(S),
           IsInjective(s), IsInjective(t), Range(s) \cap Range(t) = {}
    PROVE  IsInjective(s \o t)
<1>1. /\ Len(s) \in Nat /\ Len(t) \in Nat
      /\ DOMAIN s = 1 .. Len(s) /\ DOMAIN t = 1 .. Len(t)
      /\ DOMAIN (s \o t) = 1 .. (Len(s) + Len(t))
  BY ConcatOf
<1> SUFFICES ASSUME NEW i \in DOMAIN (s \o t), NEW j \in DOMAIN (s \o t),
                    (s \o t)[i] = (s \o t)[j], i < j
             PROVE  FALSE
  BY <1>1 DEF IsInjective
<1>2. CASE j \in 1 .. Len(s)
  <2>1. i \in 1 .. Len(s)
    BY <1>2, <1>1
  <2> QED
    BY <2>1, <1>1, <1>2, ConcatOf DEF IsInjective
<1>3. CASE j \notin 1 .. Len(s)
  <2>1. j - Len(s) \in 1 .. Len(t) /\ j = Len(s) + (j - Len(s))
    BY <1>3, <1>1
  <2>2. (s \o t)[j] = t[j - Len(s)]
    BY <2>1, ConcatOf
  <2>3. CASE i \in 1 .. Len(s)
    <3>1. (s \o t)[i] \in Range(s) /\ (s \o t)[j] \in Range(t)
      BY <2>1, <2>2, <2>3, <1>1, ConcatOf DEF Range
    <3> QED
      BY <3>1
  <2>4. CASE i \notin 1 .. Len(s)
    <3>1. i - Len(s) \in 1 .. Len(t) /\ i = Len(s) + (i - Len(s))
      BY <2>4, <1>1
    <3>2. (s \o t)[i] = t[i - Len(s)]
      BY <3>1, ConcatOf
    <3>3. i - Len(s) = j - Len(s)
      BY <3>1, <3>2, <2>1, <2>2, <1>1 DEF IsInjective
    <3> QED
      BY <3>3, <1>1
  <2> QED
    BY <2>3, <2>4
<1> QED
  BY <1>2, <1>3

-----------------------------------------------------------------------------
(* Sums                                                                    *)

\* A set of numbers has a least one.
LEMMA LeastNumber ==
    ASSUME NEW T \in SUBSET Nat, T # {}
    PROVE  \E m \in T : \A n \in T : m <= n
<1> DEFINE R == OpToRel(<, Nat)
<1>1. IsWellFoundedOn(R, Nat)
  BY NatLessThanWellFounded
<1>2. \A n, m \in T : <<n, m>> \in R <=> n < m
  BY DEF OpToRel
<1> HIDE DEF R
<1>3. PICK m \in T : \A n \in T : ~ (<<n, m>> \in R)
  BY <1>1, WFMin
<1>4. \A n \in T : ~ (n < m)
  BY <1>2, <1>3
<1> QED
  BY <1>4

AreSums(f, s) == f = [n \in 0 .. Len(s) |-> IF n = 0 THEN 0 ELSE f[n - 1] + s[n]]

LEMMA SumsExist ==
    ASSUME NEW s, Len(s) \in Nat
    PROVE  \E f : AreSums(f, s)
<1> DEFINE Upto(f, k) == f = [n \in 0 .. k |-> IF n = 0 THEN 0 ELSE f[n - 1] + s[n]]
           T == {k \in Nat : ~ \E f : Upto(f, k)}
<1>1. T = {}
  <2> SUFFICES ASSUME T # {} PROVE FALSE
    OBVIOUS
  <2>1. PICK k \in T : \A n \in T : k <= n
    BY LeastNumber
  <2>2. CASE k = 0
    <3> DEFINE f == [n \in 0 .. 0 |-> 0]
    <3>1. Upto(f, 0)
      OBVIOUS
    <3> QED
      BY <3>1, <2>2
  <2>3. CASE k # 0
    <3>1. k - 1 \in Nat /\ k - 1 \notin T
      BY <2>1, <2>3
    <3>2. PICK e : Upto(e, k - 1)
      BY <3>1
    <3> DEFINE f == [n \in 0 .. k |-> IF n = k THEN e[k - 1] + s[k] ELSE e[n]]
    <3>3. \A n \in 0 .. k : f[n] = IF n = 0 THEN 0 ELSE f[n - 1] + s[n]
      BY <3>1, <3>2, <2>3
    <3>4. Upto(f, k)
      BY <3>3
    <3> QED
      BY <3>4
  <2> QED
    BY <2>2, <2>3
<1>2. \E f : Upto(f, Len(s))
  BY <1>1
<1> QED
  BY <1>2 DEF AreSums

LEMMA SumsAre ==
    ASSUME NEW s \in Seq(Nat)
    PROVE  /\ \A n \in 0 .. Len(s) : Sums(s)[n] \in Nat
           /\ Sums(s)[0] = 0
           /\ \A n \in 1 .. Len(s) : Sums(s)[n] = Sums(s)[n - 1] + s[n]
<1> DEFINE f == Sums(s)
<1>1. f = CHOOSE e : AreSums(e, s)
  BY DEF Sums, AreSums
<1>2. Len(s) \in Nat /\ \A n \in 1 .. Len(s) : s[n] \in Nat
  OBVIOUS
<1>3. AreSums(f, s)
  BY <1>1, <1>2, SumsExist
<1> HIDE DEF f
<1>4. \A n \in 0 .. Len(s) : f[n] = IF n = 0 THEN 0 ELSE f[n - 1] + s[n]
  BY <1>3 DEF AreSums
<1>5. f[0] = 0 /\ \A n \in 1 .. Len(s) : f[n] = f[n - 1] + s[n]
  BY <1>2, <1>4
<1> DEFINE T == {n \in Nat : n <= Len(s) /\ f[n] \notin Nat}
<1>6. T = {}
  <2> SUFFICES ASSUME T # {} PROVE FALSE
    OBVIOUS
  <2>1. PICK k \in T : \A n \in T : k <= n
    BY LeastNumber
  <2>2. k # 0
    BY <2>1, <1>5
  <2>3. k - 1 \in Nat /\ k - 1 \notin T /\ k - 1 <= Len(s) /\ k \in 1 .. Len(s)
    BY <2>1, <2>2, <1>2
  <2>4. f[k - 1] \in Nat
    BY <2>3
  <2>5. f[k] = f[k - 1] + s[k] /\ s[k] \in Nat
    BY <2>3, <1>2, <1>5
  <2>6. f[k] \in Nat
    BY <2>4, <2>5
  <2> QED
    BY <2>1, <2>6
<1>7. \A n \in 0 .. Len(s) : f[n] \in Nat
  <2> TAKE n \in 0 .. Len(s)
  <2>1. n \in Nat /\ n <= Len(s) /\ n \notin T
    BY <1>2, <1>6
  <2> QED
    BY <2>1
<1> QED
  BY <1>5, <1>7 DEF f

\* Where two sequences agree, from some place of the one on, their sums grow
\* alike.
LEMMA SumsShift ==
    ASSUME NEW s \in Seq(Nat), NEW t \in Seq(Nat), NEW d \in Nat, NEW k \in Nat,
           k <= Len(t), d + k <= Len(s),
           \A n \in 1 .. k : s[d + n] = t[n]
    PROVE  \A n \in 0 .. k : Sums(s)[d + n] = Sums(s)[d] + Sums(t)[n]
<1> DEFINE e == Sums(s)
           f == Sums(t)
<1>1. /\ \A n \in 0 .. Len(s) : e[n] \in Nat
      /\ \A n \in 1 .. Len(s) : e[n] = e[n - 1] + s[n]
  BY SumsAre
<1>2. /\ \A n \in 0 .. Len(t) : f[n] \in Nat
      /\ f[0] = 0
      /\ \A n \in 1 .. Len(t) : f[n] = f[n - 1] + t[n]
  BY SumsAre
<1>3. Len(s) \in Nat /\ Len(t) \in Nat /\ \A n \in 1 .. Len(t) : t[n] \in Nat
  OBVIOUS
<1> HIDE DEF e, f
<1> DEFINE T == {n \in Nat : n <= k /\ e[d + n] # e[d] + f[n]}
<1>4. T = {}
  <2> SUFFICES ASSUME T # {} PROVE FALSE
    OBVIOUS
  <2>1. PICK j \in T : \A n \in T : j <= n
    BY LeastNumber
  <2>2. j # 0
    <3>1. d \in 0 .. Len(s)
      BY <1>3
    <3>2. e[d] \in Nat
      BY <3>1, <1>1
    <3> QED
      BY <2>1, <3>2, <1>2
  <2>3. j \in Nat /\ j <= k /\ j - 1 \in Nat /\ j - 1 \notin T /\ j \in 1 .. k
    BY <2>1, <2>2
  <2>4. e[d + (j - 1)] = e[d] + f[j - 1]
    BY <2>3
  <2>a. d + j \in 1 .. Len(s) /\ (d + j) - 1 = d + (j - 1)
    BY <2>3, <1>3
  <2>b. j \in 1 .. Len(t) /\ j - 1 \in 0 .. Len(t)
    BY <2>3, <1>3
  <2>c. d \in 0 .. Len(s)
    BY <1>3
  <2>5. d + j \in 1 .. Len(s) /\ (d + j) - 1 = d + (j - 1) /\ j \in 1 .. Len(t)
        /\ d \in 0 .. Len(s) /\ j - 1 \in 0 .. Len(t)
    BY <2>a, <2>b, <2>c
  <2>6. e[d + j] = e[d + (j - 1)] + t[j] /\ f[j] = f[j - 1] + t[j]
    BY <2>3, <2>5, <1>1, <1>2
  <2>7. e[d] \in Nat /\ f[j - 1] \in Nat /\ t[j] \in Nat
    BY <2>5, <1>1, <1>2, <1>3
  <2>8. e[d + j] = e[d] + f[j]
    <3>1. e[d + j] = (e[d] + f[j - 1]) + t[j]
      BY <2>4, <2>6
    <3>2. (e[d] + f[j - 1]) + t[j] = e[d] + (f[j - 1] + t[j])
      <4> DEFINE x == e[d]
                 y == f[j - 1]
                 z == t[j]
      <4> HIDE DEF x, y, z
      <4>1. x \in Nat /\ y \in Nat /\ z \in Nat
        BY <2>7 DEF x, y, z
      <4>2. (x + y) + z = x + (y + z)
        BY <4>1
      <4> QED
        BY <4>2 DEF x, y, z
    <3> QED
      BY <3>1, <3>2, <2>6
  <2> QED
    BY <2>1, <2>8
<1>5. \A n \in 0 .. k : e[d + n] = e[d] + f[n]
  <2> TAKE n \in 0 .. k
  <2>1. n \in Nat /\ n <= k
    OBVIOUS
  <2>2. n \notin T
    <3> HIDE DEF T
    <3> QED
      BY <1>4
  <2> QED
    BY <2>1, <2>2
<1> QED
  BY <1>5 DEF e, f

-----------------------------------------------------------------------------
(* Integrals                                                               *)

\* The lengths of the integrals of fragments.
Lens(s) == Lengths(IntegralsOf(s))

LEMMA LensAre ==
    ASSUME NEW a, NEW s \in Seq(FragmentsOf(a))
    PROVE  /\ Lens(s) \in Seq(Nat) /\ Len(Lens(s)) = Len(s)
           /\ \A i \in 1 .. Len(s) : Lens(s)[i] = Len(s[i].integrals)
           /\ Charges(s) = Sums(Lens(s))[Len(s)]
           /\ Charges(s) \in Nat
<1>1. /\ DOMAIN s = 1 .. Len(s) /\ Len(s) \in Nat
      /\ \A i \in 1 .. Len(s) : s[i] \in FragmentsOf(a)
  OBVIOUS
<1>2. \A i \in 1 .. Len(s) : s[i].integrals \in Seq(BOOLEAN)
  BY <1>1 DEF FragmentsOf
<1>3. \A i \in 1 .. Len(s) : Len(s[i].integrals) \in Nat
  BY <1>2
<1>4. Lens(s) = [i \in 1 .. Len(s) |-> Len(s[i].integrals)]
  BY <1>1 DEF Lens, Lengths, IntegralsOf
<1>5. Lens(s) \in Seq(Nat) /\ Len(Lens(s)) = Len(s)
  BY <1>1, <1>3, <1>4
<1>6. Charges(s) = Sums(Lens(s))[Len(s)]
  BY DEF Charges, Lens
<1>7. Charges(s) \in Nat
  BY <1>1, <1>5, <1>6, SumsAre
<1> QED
  BY <1>4, <1>5, <1>6, <1>7

LEMMA ChargesAppend ==
    ASSUME NEW a, NEW s \in Seq(FragmentsOf(a)), NEW x \in FragmentsOf(a)
    PROVE  /\ Charges(Append(s, x)) = Charges(s) + Len(x.integrals)
           /\ Len(Append(s, x)) = Len(s) + 1 /\ Len(x.integrals) \in Nat
<1> DEFINE t == Append(s, x)
           n == Len(s)
<1>1. /\ t \in Seq(FragmentsOf(a)) /\ n \in Nat /\ Len(t) = n + 1
      /\ \A i \in 1 .. n : t[i] = s[i]
      /\ t[n + 1] = x
  BY AppendOf
<1> HIDE DEF t, n
<1>2. /\ Lens(s) \in Seq(Nat) /\ Len(Lens(s)) = n
      /\ \A i \in 1 .. n : Lens(s)[i] = Len(s[i].integrals)
      /\ Charges(s) = Sums(Lens(s))[n] /\ Charges(s) \in Nat
  BY LensAre DEF n
<1>3. /\ Lens(t) \in Seq(Nat) /\ Len(Lens(t)) = n + 1
      /\ \A i \in 1 .. n + 1 : Lens(t)[i] = Len(t[i].integrals)
      /\ Charges(t) = Sums(Lens(t))[n + 1]
  BY <1>1, LensAre
<1>4. \A i \in 1 .. n : Lens(t)[0 + i] = Lens(s)[i]
  <2> TAKE i \in 1 .. n
  <2>1. 0 + i = i /\ i \in 1 .. n + 1
    BY <1>1
  <2>2. Lens(t)[i] = Len(t[i].integrals) /\ t[i] = s[i]
    BY <2>1, <1>1, <1>3
  <2> QED
    BY <2>1, <2>2, <1>2
<1>5. Sums(Lens(t))[0 + n] = Sums(Lens(t))[0] + Sums(Lens(s))[n]
  <2>1. n <= Len(Lens(s)) /\ 0 + n <= Len(Lens(t)) /\ 0 \in Nat /\ n \in 0 .. n
    BY <1>1, <1>2, <1>3
  <2>2. \A i \in 0 .. n : Sums(Lens(t))[0 + i] = Sums(Lens(t))[0] + Sums(Lens(s))[i]
    BY <2>1, <1>1, <1>2, <1>3, <1>4, SumsShift
  <2> QED
    BY <2>1, <2>2
<1>6. /\ Sums(Lens(t))[0] = 0
      /\ Sums(Lens(t))[n + 1] = Sums(Lens(t))[(n + 1) - 1] + Lens(t)[n + 1]
  BY <1>1, <1>3, SumsAre
<1>7. Lens(t)[n + 1] = Len(x.integrals)
  BY <1>1, <1>3
<1>8. Len(x.integrals) \in Nat
  BY DEF FragmentsOf
<1> QED
  BY <1>1, <1>2, <1>3, <1>5, <1>6, <1>7, <1>8 DEF t, n

LEMMA NoCharges == Charges(<<>>) = 0
<1>1. <<>> \in Seq(FragmentsOf(0)) /\ Len(<<>>) = 0
  OBVIOUS
<1>2. Charges(<<>>) = Sums(Lens(<<>>))[0] /\ Lens(<<>>) \in Seq(Nat)
  BY <1>1, LensAre
<1> QED
  BY <1>2, SumsAre

\* Behind any place of what is still sent there are less than two integrals
\* for each fragment.
FewIntegrals(s) ==
    \A n \in 0 .. Len(s) - 1 : Charges(s) - Sums(Lens(s))[n] < 2 * (Len(s) - n)

LEMMA TailCharges ==
    ASSUME NEW a, NEW s \in Seq(FragmentsOf(a)), s # <<>>, FewIntegrals(s)
    PROVE  /\ Charges(s) = Len(Head(s).integrals) + Charges(Tail(s))
           /\ Len(s) = Len(Tail(s)) + 1
           /\ FewIntegrals(Tail(s))
           /\ Tail(s) # <<>> => Charges(Tail(s)) < 2 * Len(Tail(s))
           /\ Tail(s) = <<>> => Charges(Tail(s)) = 0 /\ Len(Tail(s)) = 0
<1> DEFINE t == Tail(s)
           k == Len(t)
<1>1. /\ t \in Seq(FragmentsOf(a)) /\ Head(s) = s[1]
      /\ k \in Nat /\ Len(s) = k + 1
      /\ \A i \in 1 .. k : t[i] = s[i + 1]
  BY TailOf
<1>a. t = <<>> => Charges(t) = 0 /\ k = 0
  BY NoCharges
<1>b. t # <<>> => k > 0
  BY <1>1
<1> HIDE DEF t, k
<1>2. /\ Lens(s) \in Seq(Nat) /\ Len(Lens(s)) = k + 1
      /\ \A i \in 1 .. k + 1 : Lens(s)[i] = Len(s[i].integrals)
      /\ Charges(s) = Sums(Lens(s))[k + 1] /\ Charges(s) \in Nat
  BY <1>1, LensAre
<1>3. /\ Lens(t) \in Seq(Nat) /\ Len(Lens(t)) = k
      /\ \A i \in 1 .. k : Lens(t)[i] = Len(t[i].integrals)
      /\ Charges(t) = Sums(Lens(t))[k] /\ Charges(t) \in Nat
  BY <1>1, LensAre DEF k
<1>4. \A i \in 1 .. k : Lens(s)[1 + i] = Lens(t)[i]
  <2> TAKE i \in 1 .. k
  <2>1. 1 + i = i + 1 /\ i + 1 \in 1 .. k + 1
    BY <1>1
  <2>2. Lens(s)[i + 1] = Len(s[i + 1].integrals) /\ t[i] = s[i + 1]
    BY <2>1, <1>1, <1>2
  <2> QED
    BY <2>1, <2>2, <1>3
<1>5. \A n \in 0 .. k : Sums(Lens(s))[1 + n] = Sums(Lens(s))[1] + Sums(Lens(t))[n]
  <2>1. k <= Len(Lens(t)) /\ 1 + k <= Len(Lens(s))
    BY <1>1, <1>2, <1>3
  <2>2. Lens(s) \in Seq(Nat) /\ Lens(t) \in Seq(Nat) /\ k \in Nat /\ 1 \in Nat
    BY <1>1, <1>2, <1>3
  <2> QED
    BY <2>1, <2>2, <1>4, SumsShift
<1>6. Sums(Lens(s))[1] = Len(Head(s).integrals) /\ Len(Head(s).integrals) \in Nat
  <2>1. 1 \in 1 .. Len(Lens(s)) /\ 1 \in 1 .. k + 1 /\ 1 - 1 = 0
    BY <1>1, <1>2
  <2>2. Sums(Lens(s))[0] = 0 /\ Sums(Lens(s))[1] = Sums(Lens(s))[1 - 1] + Lens(s)[1]
    BY <2>1, <1>2, SumsAre
  <2>3. Lens(s)[1] \in Nat /\ Lens(s)[1] = Len(Head(s).integrals)
    BY <2>1, <1>1, <1>2
  <2> QED
    BY <2>1, <2>2, <2>3
<1>7. Charges(s) = Len(Head(s).integrals) + Charges(t)
  <2>1. k \in 0 .. k /\ 1 + k = k + 1
    BY <1>1
  <2> QED
    BY <2>1, <1>2, <1>3, <1>5, <1>6
<1>8. ASSUME NEW n \in 0 .. k - 1
      PROVE  Charges(t) - Sums(Lens(t))[n] < 2 * (k - n)
  <2>1. n + 1 \in 0 .. Len(s) - 1 /\ n \in 0 .. k /\ n \in 0 .. Len(Lens(t)) /\ n + 1 = 1 + n
    BY <1>1, <1>3
  <2>2. Charges(s) - Sums(Lens(s))[n + 1] < 2 * (Len(s) - (n + 1))
    BY <2>1 DEF FewIntegrals
  <2>3. Sums(Lens(t))[n] \in Nat
    BY <2>1, <1>3, SumsAre
  <2>4. Sums(Lens(s))[n + 1] = Len(Head(s).integrals) + Sums(Lens(t))[n]
    BY <2>1, <1>5, <1>6
  <2>5. Len(s) - (n + 1) = k - n
    BY <1>1
  <2> DEFINE h == Len(Head(s).integrals)
             c == Charges(t)
             x == Sums(Lens(t))[n]
  <2>6. h \in Nat /\ c \in Nat /\ x \in Nat /\ k - n \in Int
    BY <2>1, <2>3, <1>1, <1>3, <1>6
  <2>7. (h + c) - (h + x) < 2 * (k - n)
    BY <2>2, <2>4, <2>5, <1>7
  <2> HIDE DEF h, c, x
  <2>8. c - x < 2 * (k - n)
    BY <2>6, <2>7
  <2> QED
    BY <2>8 DEF c, x
<1>9. FewIntegrals(t)
  BY <1>8 DEF FewIntegrals, k
<1>10. k > 0 => Charges(t) < 2 * k
  <2>1. k > 0 => 0 \in 0 .. k - 1
    BY <1>1
  <2>2. Sums(Lens(t))[0] = 0
    BY <1>3, SumsAre
  <2> QED
    BY <2>1, <2>2, <1>1, <1>3, <1>8
<1> QED
  BY <1>1, <1>7, <1>9, <1>10, <1>a, <1>b DEF t, k

LEMMA SequenceIs ==
    ASSUME NEW S, NEW s \in Seq(S)
    PROVE  s = [i \in 1 .. Len(s) |-> s[i]]
  OBVIOUS

\* The fragments of a pile-up.
LEMMA PileUpIs ==
    ASSUME NEW a, NEW g \in Nat, NEW p \in PileUps, NEW s,
           s = [i \in DOMAIN p |-> Fragment(a, g, i, p[i])]
    PROVE  /\ s \in Seq(FragmentsOf(a)) /\ s # <<>> /\ Len(s) \in Nat \ {0}
           /\ \A i \in DOMAIN s : s[i].pileUp = g /\ Len(s[i].integrals) > 0
           /\ FewIntegrals(s) /\ Charges(s) = 2 * Len(s) - 1
<1>1. /\ p \in Seq(Seq(BOOLEAN)) /\ DOMAIN p = 1 .. Len(p) /\ Len(p) \in Nat /\ IsPileUp(p)
  BY FragmentAssumption
<1>2. \A i \in 1 .. Len(p) :
        /\ Fragment(a, g, i, p[i]) \in FragmentsOf(a)
        /\ Fragment(a, g, i, p[i]).pileUp = g
        /\ Fragment(a, g, i, p[i]).integrals = p[i]
  BY <1>1 DEF Fragment, FragmentsOf
<1>3. /\ s \in Seq(FragmentsOf(a)) /\ Len(s) = Len(p) /\ DOMAIN s = 1 .. Len(p)
      /\ \A i \in 1 .. Len(p) : s[i] = Fragment(a, g, i, p[i])
  BY <1>1, <1>2
<1>4. IntegralsOf(s) = p
  <2>1. IntegralsOf(s) = [i \in 1 .. Len(p) |-> p[i]]
    BY <1>2, <1>3 DEF IntegralsOf
  <2>2. p = [i \in 1 .. Len(p) |-> p[i]]
    BY <1>1, SequenceIs
  <2> QED
    BY <2>1, <2>2
<1>5. Lens(s) = Lengths(p)
  BY <1>4 DEF Lens
<1> DEFINE sums == Sums(Lengths(p))
           k == Len(p)
<1>6. /\ k > 0 /\ \A i \in 1 .. k : Len(p[i]) > 0
      /\ sums[k] = 2 * k - 1
      /\ \A n \in 1 .. k - 1 : sums[n] >= 2 * n
  BY <1>1 DEF IsPileUp
<1>7. Charges(s) = sums[k] /\ Lens(s) \in Seq(Nat) /\ Len(Lens(s)) = k
  BY <1>3, <1>5, LensAre
<1>8. sums[0] = 0 /\ \A n \in 0 .. k : sums[n] \in Nat
  BY <1>5, <1>7, SumsAre
<1> HIDE DEF sums, k
<1>9. \A n \in 0 .. k - 1 : Charges(s) - sums[n] < 2 * (k - n)
  <2> TAKE n \in 0 .. k - 1
  <2>1. n \in Nat /\ k \in Nat /\ n \in 0 .. k
    BY <1>1 DEF k
  <2>2. sums[n] >= 2 * n
    <3>1. CASE n = 0
      BY <3>1, <1>8
    <3>2. CASE n # 0
      <4>1. n \in 1 .. k - 1
        BY <3>2, <2>1
      <4> QED
        BY <4>1, <1>6
    <3> QED
      BY <3>1, <3>2
  <2>3. sums[n] \in Nat
    BY <2>1, <1>8
  <2> QED
    BY <2>1, <2>2, <2>3, <1>6, <1>7
<1>10. FewIntegrals(s)
  BY <1>3, <1>5, <1>9 DEF FewIntegrals, sums, k
<1>11. \A i \in DOMAIN s : s[i].pileUp = g /\ Len(s[i].integrals) > 0
  BY <1>2, <1>3, <1>6 DEF k
<1>12. Len(s) \in Nat \ {0} /\ Charges(s) = 2 * Len(s) - 1
  BY <1>1, <1>3, <1>6, <1>7 DEF k
<1>13. s # <<>>
  BY <1>12
<1> QED
  BY <1>3, <1>10, <1>11, <1>12, <1>13

-----------------------------------------------------------------------------
\* What a step leaves alone stays good.
LEMMA OutputUnchanged ==
    ASSUME Output, ArrivalOrderKept, EveryFragmentOnce,
           UNCHANGED <<fMap, goodOutput, badOutput, refused, received>>
    PROVE  Output' /\ ArrivalOrderKept' /\ EveryFragmentOnce'
<1>1. /\ fMap' = fMap /\ goodOutput' = goodOutput /\ badOutput' = badOutput
      /\ refused' = refused /\ received' = received
  OBVIOUS
<1>2. Good' = Good /\ Waiting' = Waiting
  BY <1>1 DEF Good, Waiting
<1> QED
  BY <1>1, <1>2 DEF Output, ArrivalOrderKept, EveryFragmentOnce

LEMMA FragmentInitInv == FragmentInit => FragmentInv
<1> SUFFICES ASSUME FragmentInit PROVE FragmentInv
  OBVIOUS
<1>1. /\ fMap = [a \in HitAddresses |-> <<>>] /\ sending = [a \in HitAddresses |-> <<>>]
      /\ started = [a \in HitAddresses |-> 0]
      /\ goodOutput = <<>> /\ badOutput = <<>> /\ received = {} /\ refused = {}
  BY DEF FragmentInit
<1>2. Good = <<>> /\ Waiting = {}
  BY <1>1 DEF Good, Waiting, Range
<1>3. FragmentTyped
  BY <1>1 DEF FragmentTyped
<1>4. Sending
  BY <1>1 DEF Sending, InOrder, AllBefore, OfAddress
<1>5. Output
  BY <1>1 DEF Output, InOrder, AllBefore
<1>6. ArrivalOrderKept
  BY <1>1 DEF ArrivalOrderKept
<1>7. EveryFragmentOnce
  BY <1>1, <1>2 DEF EveryFragmentOnce, Disjoint, IsInjective, Range
<1> QED
  BY <1>3, <1>4, <1>5, <1>6, <1>7 DEF FragmentInv

LEMMA PileUpInv ==
    ASSUME FragmentInv, NEW a \in HitAddresses, NEW p \in PileUps, PileUp(a, p)
    PROVE  FragmentInv'
<1> DEFINE g == started[a] + 1
           s == [i \in DOMAIN p |-> Fragment(a, g, i, p[i])]
<1>1. p \in Seq(Seq(BOOLEAN)) /\ DOMAIN p = 1 .. Len(p) /\ Len(p) \in Nat
  BY FragmentAssumption
<1>2. started[a] \in Nat /\ g \in Nat
  BY DEF FragmentInv, FragmentTyped
<1>3. /\ started' = [started EXCEPT ![a] = g] /\ sending' = [sending EXCEPT ![a] = s]
      /\ UNCHANGED <<fMap, goodOutput, badOutput, refused, received>>
  BY DEF PileUp
<1>a. g = started[a] + 1
  OBVIOUS
<1> HIDE DEF g
<1>4. \A i \in DOMAIN p : /\ Fragment(a, g, i, p[i]) \in FragmentsOf(a)
                          /\ Fragment(a, g, i, p[i]).pileUp = g
                          /\ Fragment(a, g, i, p[i]).hit = i
  BY <1>1, <1>2 DEF Fragment, FragmentsOf
<1>5. s \in Seq(FragmentsOf(a)) /\ DOMAIN s = DOMAIN p
  BY <1>1, <1>4
<1>6. \A i \in DOMAIN s : s[i].pileUp = g /\ s[i].hit = i
  BY <1>4
<1> HIDE DEF s
<1>7. InOrder(s)
  BY <1>6 DEF InOrder, Before
<1>8. FragmentTyped'
  BY <1>2, <1>3, <1>5 DEF FragmentInv, FragmentTyped
<1>9. ASSUME NEW b \in HitAddresses
      PROVE  /\ InOrder(sending'[b])
             /\ AllBefore(OfAddress(b, received'), sending'[b])
             /\ \A f \in OfAddress(b, received') : f.pileUp <= started'[b]
             /\ \A i \in DOMAIN sending'[b] : sending'[b][i].pileUp <= started'[b]
  <2>1. CASE b # a
    <3>1. sending'[b] = sending[b] /\ started'[b] = started[b]
      BY <2>1, <1>3 DEF FragmentInv, FragmentTyped
    <3> QED
      BY <3>1, <1>3 DEF FragmentInv, Sending
  <2>2. CASE b = a
    <3>1. sending'[b] = s /\ started'[b] = g
      BY <2>2, <1>3 DEF FragmentInv, FragmentTyped
    <3>2. \A f \in OfAddress(b, received') : f.pileUp \in Nat /\ f.pileUp <= started[a]
      BY <1>3, <2>2 DEF FragmentInv, FragmentTyped, Sending, OfAddress, AllFragments
    <3>3. \A f \in OfAddress(b, received') : f.pileUp < g
      BY <3>2, <1>2, <1>a
    <3>4. AllBefore(OfAddress(b, received'), s)
      BY <3>3, <1>6 DEF AllBefore, Before
    <3>5. \A f \in OfAddress(b, received') : f.pileUp <= g
      BY <3>2, <3>3, <1>2
    <3> QED
      BY <3>1, <3>4, <3>5, <1>2, <1>6, <1>7
  <2> QED
    BY <2>1, <2>2
<1>10. Sending'
  BY <1>9 DEF Sending
<1> QED
  BY <1>3, <1>8, <1>10, OutputUnchanged DEF FragmentInv

\* The first fragment that is sent is later than all that were received, and
\* the rest are later than it.
LEMMA FirstSent ==
    ASSUME FragmentInv, NEW a \in HitAddresses, sending[a] # <<>>
    PROVE  LET frag == Head(sending[a]) IN
           /\ frag \in FragmentsOf(a)
           /\ frag.pileUp <= started[a]
           /\ \A e \in OfAddress(a, received) : Before(e, frag)
           /\ AllBefore({frag}, Tail(sending[a]))
           /\ InOrder(Tail(sending[a]))
           /\ AllBefore(OfAddress(a, received), Tail(sending[a]))
           /\ \A i \in DOMAIN Tail(sending[a]) : Tail(sending[a])[i].pileUp <= started[a]
<1> DEFINE s == sending[a]
<1>1. s \in Seq(FragmentsOf(a)) /\ s # <<>>
  BY DEF FragmentInv, FragmentTyped
<1>2. /\ InOrder(s) /\ AllBefore(OfAddress(a, received), s)
      /\ \A i \in DOMAIN s : s[i].pileUp <= started[a]
  BY DEF FragmentInv, Sending
<1> HIDE DEF s
<1>3. /\ Tail(s) \in Seq(FragmentsOf(a)) /\ Head(s) = s[1] /\ Head(s) \in FragmentsOf(a)
      /\ Len(s) \in Nat \ {0} /\ DOMAIN s = 1 .. Len(s)
      /\ DOMAIN Tail(s) = 1 .. (Len(s) - 1)
      /\ \A i \in 1 .. (Len(s) - 1) : Tail(s)[i] = s[i + 1]
  BY <1>1, TailOf
<1>4. 1 \in DOMAIN s
  BY <1>3
<1>5. \A i \in DOMAIN Tail(s) : i + 1 \in DOMAIN s /\ Tail(s)[i] = s[i + 1] /\ 1 < i + 1
  BY <1>3
<1>6. InOrder(Tail(s))
  BY <1>2, <1>3, <1>5 DEF InOrder
<1>7. AllBefore({Head(s)}, Tail(s))
  BY <1>2, <1>3, <1>4, <1>5 DEF InOrder, AllBefore
<1>8. AllBefore(OfAddress(a, received), Tail(s))
  BY <1>2, <1>5 DEF AllBefore
<1>9. \A e \in OfAddress(a, received) : Before(e, Head(s))
  BY <1>2, <1>3, <1>4 DEF AllBefore
<1>10. \A i \in DOMAIN Tail(s) : Tail(s)[i].pileUp <= started[a]
  BY <1>2, <1>5
<1>11. Head(s).pileUp <= started[a]
  BY <1>2, <1>3, <1>4
<1> QED
  BY <1>3, <1>6, <1>7, <1>8, <1>9, <1>10, <1>11 DEF s

LEMMA SentInv ==
    ASSUME FragmentInv, NEW a \in HitAddresses, Sent(a),
           received' \in {received, received \cup {Head(sending[a])}}
    PROVE  Sending' /\ received' \subseteq AllFragments
           /\ DOMAIN sending' = HitAddresses /\ started' = started
           /\ \A b \in HitAddresses : sending'[b] \in Seq(FragmentsOf(b))
<1> DEFINE frag == Head(sending[a])
<1>1. /\ sending' = [sending EXCEPT ![a] = Tail(sending[a])] /\ started' = started
      /\ sending[a] # <<>> /\ DOMAIN sending = HitAddresses
  BY DEF Sent, FragmentInv, FragmentTyped
<1>2. /\ frag \in FragmentsOf(a)
      /\ frag.pileUp <= started[a]
      /\ AllBefore({frag}, Tail(sending[a]))
      /\ InOrder(Tail(sending[a]))
      /\ AllBefore(OfAddress(a, received), Tail(sending[a]))
      /\ \A i \in DOMAIN Tail(sending[a]) : Tail(sending[a])[i].pileUp <= started[a]
  BY <1>1, FirstSent
<1>3. frag \in AllFragments /\ frag.address = a
  BY <1>2, FragmentIsOfAddress
<1>4. received' \in {received, received \cup {frag}}
  OBVIOUS
<1> HIDE DEF frag
<1>5. ASSUME NEW b \in HitAddresses
      PROVE  /\ InOrder(sending'[b])
             /\ AllBefore(OfAddress(b, received'), sending'[b])
             /\ \A f \in OfAddress(b, received') : f.pileUp <= started[b]
             /\ \A i \in DOMAIN sending'[b] : sending'[b][i].pileUp <= started[b]
             /\ sending'[b] \in Seq(FragmentsOf(b))
  <2>1. CASE b # a
    <3>1. sending'[b] = sending[b]
      BY <2>1, <1>1
    <3>2. OfAddress(b, received') = OfAddress(b, received)
      BY <2>1, <1>3, <1>4 DEF OfAddress
    <3> QED
      BY <3>1, <3>2 DEF FragmentInv, FragmentTyped, Sending
  <2>2. CASE b = a
    <3>1. sending'[b] = Tail(sending[a])
      BY <2>2, <1>1
    <3>2. OfAddress(b, received') \subseteq OfAddress(a, received) \cup {frag}
      BY <2>2, <1>4 DEF OfAddress
    <3>3. AllBefore(OfAddress(b, received'), Tail(sending[a]))
      BY <3>2, <1>2 DEF AllBefore
    <3>4. \A f \in OfAddress(b, received') : f.pileUp <= started[b]
      BY <3>2, <2>2, <1>2 DEF FragmentInv, Sending
    <3>5. Tail(sending[a]) \in Seq(FragmentsOf(a))
      BY <1>1, TailOf DEF FragmentInv, FragmentTyped
    <3> QED
      BY <3>1, <3>3, <3>4, <3>5, <2>2, <1>2
  <2> QED
    BY <2>1, <2>2
<1>6. Sending'
  BY <1>1, <1>5 DEF Sending
<1>7. received' \subseteq AllFragments
  BY <1>3, <1>4 DEF FragmentInv, FragmentTyped
<1> QED
  BY <1>1, <1>5, <1>6, <1>7

LEMMA LoseInv ==
    ASSUME FragmentInv, NEW a \in HitAddresses, Lose(a)
    PROVE  FragmentInv'
<1>1. Sent(a) /\ UNCHANGED <<fMap, goodOutput, badOutput, refused, received>>
  BY DEF Lose
<1>2. Sending' /\ DOMAIN sending' = HitAddresses /\ started' = started
      /\ \A b \in HitAddresses : sending'[b] \in Seq(FragmentsOf(b))
  BY <1>1, SentInv
<1>3. FragmentTyped'
  BY <1>1, <1>2 DEF FragmentInv, FragmentTyped
<1> QED
  BY <1>1, <1>2, <1>3, OutputUnchanged DEF FragmentInv

-----------------------------------------------------------------------------
\* The group that a fragment joins, and where the fragments are.
LEMMA GroupIs ==
    ASSUME FragmentInv, NEW a \in HitAddresses, sending[a] # <<>>
    PROVE  LET frag == Head(sending[a])
               w == fMap[a]
               group == Append(w, frag)
           IN  /\ frag \in FragmentsOf(a) /\ frag \notin received
               /\ w \in Seq(FragmentsOf(a)) /\ w \in Seq(AllFragments)
               /\ group \in Seq(FragmentsOf(a)) /\ group \in Seq(AllFragments)
               /\ Range(group) = Range(w) \cup {frag}
               /\ InOrder(w) /\ InOrder(group)
               /\ Range(w) \subseteq Waiting
               /\ AllBefore(OfAddress(a, Range(Good)), group)
<1> DEFINE frag == Head(sending[a])
           w == fMap[a]
           group == Append(w, frag)
<1>1. /\ frag \in FragmentsOf(a)
      /\ \A e \in OfAddress(a, received) : Before(e, frag)
  BY FirstSent
<1>2. frag \in AllFragments /\ frag.address = a
  BY <1>1, FragmentIsOfAddress
<1>3. w \in Seq(FragmentsOf(a))
  BY DEF FragmentInv, FragmentTyped
<1>4. FragmentsOf(a) \subseteq AllFragments
  BY FragmentIsOfAddress
<1> HIDE DEF frag
<1>5. frag \notin received
  BY <1>1, <1>2, OrderIsStrict DEF OfAddress
<1>6. w \in Seq(AllFragments)
  BY <1>3, <1>4
<1>7. group \in Seq(FragmentsOf(a)) /\ group \in Seq(AllFragments)
  BY <1>1, <1>2, <1>3, <1>6
<1>8. Range(group) = Range(w) \cup {frag}
  BY <1>1, <1>3, RangeAppend
<1>9. Range(w) \subseteq Waiting
  BY DEF Waiting
<1>10. Waiting \subseteq received /\ Range(Good) \subseteq received
  BY DEF FragmentInv, EveryFragmentOnce
<1>11. InOrder(w) /\ AllBefore(OfAddress(a, Range(Good)), w)
  BY DEF FragmentInv, Output
<1> HIDE DEF w
<1>12. DOMAIN w = 1 .. Len(w) /\ Len(w) \in Nat
  BY <1>3
<1>13. \A i \in DOMAIN w : w[i] \in FragmentsOf(a) /\ w[i] \in Range(w)
  BY <1>3, <1>12 DEF Range
<1>14. \A i \in DOMAIN w : w[i] \in OfAddress(a, received)
  BY <1>9, <1>10, <1>13, FragmentIsOfAddress DEF OfAddress
<1>15. InOrder(group)
  BY <1>1, <1>3, <1>11, <1>14, InOrderAppend
<1>16. AllBefore(OfAddress(a, Range(Good)), group)
  <2> SUFFICES ASSUME NEW e \in OfAddress(a, Range(Good)), NEW i \in DOMAIN group
               PROVE  Before(e, group[i])
    BY DEF AllBefore
  <2>1. CASE i \in 1 .. Len(w)
    <3>1. group[i] = w[i]
      BY <2>1, <1>1, <1>3, AppendOf
    <3> QED
      BY <3>1, <2>1, <1>11, <1>12 DEF AllBefore
  <2>2. CASE i \notin 1 .. Len(w)
    <3>1. group[i] = frag
      BY <2>2, <1>1, <1>3, <1>12, AppendOf
    <3>2. e \in OfAddress(a, received)
      BY <1>10 DEF OfAddress
    <3> QED
      BY <3>1, <3>2, <1>1
  <2> QED
    BY <2>1, <2>2
<1> QED
  BY <1>1, <1>3, <1>5, <1>6, <1>7, <1>8, <1>9, <1>11, <1>15, <1>16 DEF frag, w

\* Only the fragments of one address change.
LEMMA WaitingChanged ==
    ASSUME FragmentTyped, NEW a \in HitAddresses, NEW t \in Seq(FragmentsOf(a)),
           fMap' = [fMap EXCEPT ![a] = t]
    PROVE  /\ Waiting' = (Waiting \ Range(fMap[a])) \cup Range(t)
           /\ DOMAIN fMap' = HitAddresses
           /\ \A b \in HitAddresses : fMap'[b] = IF b = a THEN t ELSE fMap[b]
           /\ \A b \in HitAddresses : fMap'[b] \in Seq(FragmentsOf(b))
<1>1. /\ DOMAIN fMap' = HitAddresses
      /\ \A b \in HitAddresses : fMap'[b] = IF b = a THEN t ELSE fMap[b]
  BY DEF FragmentTyped
<1>2. \A b \in HitAddresses : fMap'[b] \in Seq(FragmentsOf(b))
  BY <1>1 DEF FragmentTyped
<1>3. ASSUME NEW b \in HitAddresses, b # a, NEW f \in Range(fMap[b])
      PROVE  f \notin Range(fMap[a])
  <2>1. f \in FragmentsOf(b) /\ Range(fMap[a]) \subseteq FragmentsOf(a)
    BY DEF FragmentTyped, Range
  <2>2. f.address = b /\ \A e \in FragmentsOf(a) : e.address = a
    BY <2>1, FragmentIsOfAddress
  <2> QED
    BY <2>1, <2>2, <1>3
<1>4. \A f : f \in Waiting <=> \E b \in HitAddresses : f \in Range(fMap[b])
  BY DEF Waiting
<1>5. \A f : f \in Waiting' <=> \E b \in HitAddresses : f \in Range(fMap'[b])
  BY DEF Waiting
<1>6. ASSUME NEW f
      PROVE  f \in Waiting' <=> f \in (Waiting \ Range(fMap[a])) \cup Range(t)
  <2>1. CASE f \in Range(t)
    BY <2>1, <1>1, <1>5
  <2>2. CASE f \notin Range(t)
    <3>1. f \in Waiting' <=> \E b \in HitAddresses : b # a /\ f \in Range(fMap[b])
      BY <2>2, <1>1, <1>5
    <3> QED
      BY <3>1, <2>2, <1>3, <1>4
  <2> QED
    BY <2>1, <2>2
<1>7. Waiting' = (Waiting \ Range(fMap[a])) \cup Range(t)
  BY <1>6
<1> QED
  BY <1>1, <1>2, <1>7

\* Everything Add does: the fragment joins those that wait, or the group
\* that it completes leaves as a whole, to the good output or to the bad one.
Waits(a) ==
    /\ fMap' = [fMap EXCEPT ![a] = Append(fMap[a], Head(sending[a]))]
    /\ UNCHANGED <<goodOutput, badOutput, refused>>
Solved(a) ==
    /\ fMap' = [fMap EXCEPT ![a] = <<>>]
    /\ PushGroup(Append(fMap[a], Head(sending[a])))
    /\ UNCHANGED <<badOutput, refused>>
Drops(a) ==
    /\ fMap' = [fMap EXCEPT ![a] = <<>>]
    /\ badOutput' = badOutput \o fMap[a]
    /\ refused' = refused \cup {Head(sending[a])}
    /\ UNCHANGED goodOutput

LEMMA AddIs ==
    ASSUME FragmentInv, NEW a \in HitAddresses, sending[a] # <<>>, Add(Head(sending[a]))
    PROVE  LET group == Append(fMap[a], Head(sending[a])) IN
           \/ Waits(a) /\ ~ Complete(group)
           \/ (Solved(a) \/ Drops(a)) /\ Complete(group)
<1> DEFINE frag == Head(sending[a])
           group == Append(fMap[a], frag)
<1>1. frag \in FragmentsOf(a)
  BY GroupIs
<1>2. frag.address = a
  BY <1>1, FragmentIsOfAddress
<1>3. fMap = [b \in HitAddresses |-> fMap[b]]
  BY DEF FragmentInv, FragmentTyped
<1>4. CASE PushSingle(frag)
  <2>1. fMap[a] = <<>> /\ fMap' = fMap /\ Len(frag.integrals) = 1
    BY <1>2, <1>4 DEF PushSingle, IsAlone, IsSingle
  <2>2. Complete(Append(<<>>, frag))
    <3>1. <<>> \in Seq(FragmentsOf(a)) /\ Len(<<>>) = 0
      OBVIOUS
    <3>2. Charges(Append(<<>>, frag)) = 0 + 1 /\ Len(Append(<<>>, frag)) = 0 + 1
      BY <3>1, <2>1, <1>1, ChargesAppend, NoCharges
    <3> QED
      BY <3>2 DEF Complete
  <2> HIDE DEF frag
  <2>3. Append(<<>>, frag) = <<frag>>
    OBVIOUS
  <2>4. fMap' = [fMap EXCEPT ![a] = <<>>]
    BY <2>1, <1>3, Zenon
  <2> QED
    BY <2>1, <2>2, <2>3, <2>4, <1>4 DEF PushSingle, Solved, frag
<1>5. CASE Wait(frag)
  BY <1>2, <1>5 DEF Wait, Waits
<1>6. CASE SolveGroup(frag)
  BY <1>2, <1>6 DEF SolveGroup, Solved
<1>7. CASE DropFragments(frag)
  BY <1>2, <1>7 DEF DropFragments, Drops
<1> QED
  BY <1>4, <1>5, <1>6, <1>7 DEF Add

LEMMA GoodTyped ==
    ASSUME goodOutput \in Seq(AllFragments \X Nat)
    PROVE  /\ Good \in Seq(AllFragments) /\ Len(Good) = Len(goodOutput)
           /\ DOMAIN Good = DOMAIN goodOutput
           /\ \A i \in DOMAIN Good : Good[i] = goodOutput[i][1]
<1>1. /\ DOMAIN goodOutput = 1 .. Len(goodOutput) /\ Len(goodOutput) \in Nat
      /\ \A i \in DOMAIN goodOutput : goodOutput[i][1] \in AllFragments
  OBVIOUS
<1> QED
  BY <1>1 DEF Good

LEMMA GoodExtended ==
    ASSUME goodOutput \in Seq(AllFragments \X Nat), NEW group \in Seq(AllFragments),
           PushGroup(group)
    PROVE  goodOutput' \in Seq(AllFragments \X Nat) /\ Good' = Good \o group
<1> DEFINE pairs == [i \in DOMAIN group |-> <<group[i], Len(goodOutput) + 1>>]
<1>1. goodOutput' = goodOutput \o pairs
  BY DEF PushGroup
<1>2. /\ DOMAIN group = 1 .. Len(group) /\ Len(group) \in Nat
      /\ \A i \in DOMAIN group : group[i] \in AllFragments
      /\ Len(goodOutput) + 1 \in Nat
  OBVIOUS
<1>3. pairs \in Seq(AllFragments \X Nat) /\ Len(pairs) = Len(group)
      /\ \A i \in 1 .. Len(group) : pairs[i][1] = group[i]
  BY <1>2
<1> HIDE DEF pairs
<1>4. goodOutput' \in Seq(AllFragments \X Nat)
  BY <1>1, <1>3
<1>5. /\ Good \in Seq(AllFragments) /\ Len(Good) = Len(goodOutput)
      /\ DOMAIN Good = DOMAIN goodOutput
      /\ \A i \in DOMAIN Good : Good[i] = goodOutput[i][1]
  BY GoodTyped
<1> DEFINE n == Len(goodOutput)
<1>6. /\ n \in Nat /\ DOMAIN goodOutput = 1 .. n
      /\ DOMAIN goodOutput' = 1 .. (n + Len(group))
      /\ \A i \in 1 .. n : goodOutput'[i] = goodOutput[i]
      /\ \A i \in 1 .. Len(group) : goodOutput'[n + i] = pairs[i]
  <2> DEFINE s == goodOutput
  <2>1. s \in Seq(AllFragments \X Nat) /\ pairs \in Seq(AllFragments \X Nat)
    BY <1>3
  <2> HIDE DEF s
  <2>2. /\ Len(s) \in Nat
        /\ DOMAIN (s \o pairs) = 1 .. (Len(s) + Len(pairs))
        /\ \A i \in 1 .. Len(s) : (s \o pairs)[i] = s[i]
        /\ \A i \in 1 .. Len(pairs) : (s \o pairs)[Len(s) + i] = pairs[i]
    BY <2>1, ConcatOf
  <2>3. DOMAIN s = 1 .. Len(s)
    BY <2>1
  <2> QED
    BY <1>1, <1>3, <2>2, <2>3 DEF s
<1>7. /\ DOMAIN (Good \o group) = 1 .. (n + Len(group))
      /\ \A i \in 1 .. n : (Good \o group)[i] = Good[i]
      /\ \A i \in 1 .. Len(group) : (Good \o group)[n + i] = group[i]
      /\ Good \o group \in Seq(AllFragments)
  <2> DEFINE s == Good
  <2>1. s \in Seq(AllFragments)
    BY <1>5
  <2> HIDE DEF s
  <2>2. s \o group \in Seq(AllFragments)
    BY <2>1, ConcatOf
  <2>3. /\ DOMAIN (s \o group) = 1 .. (Len(s) + Len(group))
        /\ \A i \in 1 .. Len(s) : (s \o group)[i] = s[i]
        /\ \A i \in 1 .. Len(group) : (s \o group)[Len(s) + i] = group[i]
    BY <2>1, ConcatOf
  <2> QED
    BY <1>5, <2>2, <2>3 DEF s
<1>8. Good' = [i \in DOMAIN goodOutput' |-> goodOutput'[i][1]]
  BY DEF Good
<1> HIDE DEF n
<1>9. \A i \in 1 .. (n + Len(group)) : i \in 1 .. n \/ \E j \in 1 .. Len(group) : i = n + j
  <2> TAKE i \in 1 .. (n + Len(group))
  <2>1. CASE i \in 1 .. n
    BY <2>1
  <2>2. CASE i \notin 1 .. n
    <3>1. i - n \in 1 .. Len(group) /\ i = n + (i - n)
      BY <2>2, <1>2, <1>6
    <3> QED
      BY <3>1
  <2> QED
    BY <2>1, <2>2
<1>10. \A i \in 1 .. (n + Len(group)) : goodOutput'[i][1] = (Good \o group)[i]
  <2> TAKE i \in 1 .. (n + Len(group))
  <2>1. CASE i \in 1 .. n
    BY <2>1, <1>5, <1>6, <1>7
  <2>2. ASSUME NEW j \in 1 .. Len(group), i = n + j
        PROVE  goodOutput'[i][1] = (Good \o group)[i]
    BY <2>2, <1>3, <1>6, <1>7
  <2> QED
    BY <2>1, <2>2, <1>9
<1>11. Good \o group = [i \in 1 .. (n + Len(group)) |-> (Good \o group)[i]]
  <2> DEFINE t == Good \o group
  <2>1. t \in Seq(AllFragments) /\ DOMAIN t = 1 .. (n + Len(group))
    BY <1>7
  <2> HIDE DEF t
  <2>2. t = [i \in DOMAIN t |-> t[i]]
    BY <2>1
  <2> QED
    BY <2>1, <2>2 DEF t
<1>12. Good' = [i \in 1 .. (n + Len(group)) |-> goodOutput'[i][1]]
  BY <1>6, <1>8
<1>13. Good' = Good \o group
  BY <1>10, <1>11, <1>12
<1> QED
  BY <1>4, <1>13

\* ArrivalOrderKept, of the fragments alone.
LEMMA OrderOfGood ==
    ASSUME goodOutput \in Seq(AllFragments \X Nat)
    PROVE  ArrivalOrderKept <=>
               \A i, j \in DOMAIN Good :
                   i < j /\ Good[i].address = Good[j].address => Before(Good[i], Good[j])
<1> DEFINE G == Good
<1>1. DOMAIN G = DOMAIN goodOutput /\ \A i \in DOMAIN G : G[i] = goodOutput[i][1]
  BY DEF Good
<1> HIDE DEF G
<1>2. ASSUME ArrivalOrderKept, NEW i \in DOMAIN G, NEW j \in DOMAIN G,
             i < j, G[i].address = G[j].address
      PROVE  Before(G[i], G[j])
  <2> DEFINE e == goodOutput[i][1]
             f == goodOutput[j][1]
  <2>1. G[i] = e /\ G[j] = f /\ i \in DOMAIN goodOutput /\ j \in DOMAIN goodOutput
    BY <1>1
  <2>2. e.address = f.address => Before(e, f)
    BY <1>2, <2>1 DEF ArrivalOrderKept
  <2> HIDE DEF e, f
  <2> QED
    BY <1>2, <2>1, <2>2
<1>3. ASSUME \A i, j \in DOMAIN G : i < j /\ G[i].address = G[j].address => Before(G[i], G[j]),
             NEW i \in DOMAIN goodOutput, NEW j \in DOMAIN goodOutput,
             i < j, goodOutput[i][1].address = goodOutput[j][1].address
      PROVE  Before(goodOutput[i][1], goodOutput[j][1])
  <2> DEFINE e == goodOutput[i][1]
             f == goodOutput[j][1]
  <2>1. G[i] = e /\ G[j] = f /\ i \in DOMAIN G /\ j \in DOMAIN G /\ e.address = f.address
    BY <1>1, <1>3
  <2> HIDE DEF e, f
  <2>2. Before(e, f)
    BY <1>3, <2>1
  <2> QED
    BY <2>2 DEF e, f
<1> QED
  BY <1>2, <1>3 DEF ArrivalOrderKept, G

LEMMA WaitsInv ==
    ASSUME FragmentInv, NEW a \in HitAddresses, sending[a] # <<>>, Waits(a),
           received' = received \cup {Head(sending[a])}
    PROVE  Output' /\ ArrivalOrderKept' /\ EveryFragmentOnce'
           /\ \A b \in HitAddresses : fMap'[b] \in Seq(FragmentsOf(b))
<1> DEFINE frag == Head(sending[a])
           w == fMap[a]
           group == Append(w, frag)
<1>1. /\ frag \in FragmentsOf(a) /\ frag \notin received
      /\ group \in Seq(FragmentsOf(a)) /\ group \in Seq(AllFragments)
      /\ Range(group) = Range(w) \cup {frag}
      /\ InOrder(group) /\ Range(w) \subseteq Waiting
      /\ AllBefore(OfAddress(a, Range(Good)), group)
  BY GroupIs
<1>2. /\ fMap' = [fMap EXCEPT ![a] = group] /\ received' = received \cup {frag}
      /\ goodOutput' = goodOutput /\ badOutput' = badOutput /\ refused' = refused
  BY DEF Waits
<1> HIDE DEF frag, group
<1>3. /\ Waiting' = (Waiting \ Range(w)) \cup Range(group)
      /\ \A b \in HitAddresses : fMap'[b] = IF b = a THEN group ELSE fMap[b]
      /\ \A b \in HitAddresses : fMap'[b] \in Seq(FragmentsOf(b))
  BY <1>1, <1>2, WaitingChanged DEF FragmentInv
<1> HIDE DEF w
<1>4. Waiting' = Waiting \cup {frag} /\ Good' = Good
  BY <1>1, <1>2, <1>3 DEF Good
<1>5. Output'
  BY <1>1, <1>3, <1>4 DEF FragmentInv, Output
<1>6. IsInjective(group)
  BY <1>1, InOrderOnce
<1>7. EveryFragmentOnce'
  BY <1>1, <1>2, <1>3, <1>4, <1>6 DEF FragmentInv, EveryFragmentOnce, Disjoint
<1>8. ArrivalOrderKept'
  BY <1>2 DEF FragmentInv, ArrivalOrderKept
<1> QED
  BY <1>3, <1>5, <1>7, <1>8

LEMMA SolvedInv ==
    ASSUME FragmentInv, NEW a \in HitAddresses, sending[a] # <<>>, Solved(a),
           received' = received \cup {Head(sending[a])}
    PROVE  Output' /\ ArrivalOrderKept' /\ EveryFragmentOnce'
           /\ (\A b \in HitAddresses : fMap'[b] \in Seq(FragmentsOf(b)))
           /\ goodOutput' \in Seq(AllFragments \X Nat)
<1> DEFINE frag == Head(sending[a])
           w == fMap[a]
           group == Append(w, frag)
<1>1. /\ frag \in FragmentsOf(a) /\ frag \notin received
      /\ group \in Seq(FragmentsOf(a)) /\ group \in Seq(AllFragments)
      /\ Range(group) = Range(w) \cup {frag}
      /\ InOrder(group) /\ Range(w) \subseteq Waiting
      /\ AllBefore(OfAddress(a, Range(Good)), group)
  BY GroupIs
<1>2. /\ fMap' = [fMap EXCEPT ![a] = <<>>] /\ received' = received \cup {frag}
      /\ PushGroup(group) /\ badOutput' = badOutput /\ refused' = refused
  BY DEF Solved
<1> HIDE DEF frag, group
<1>17. <<>> \in Seq(FragmentsOf(a)) /\ FragmentTyped
  BY DEF FragmentInv
<1>3. /\ Waiting' = (Waiting \ Range(w)) \cup Range(<<>>)
      /\ \A b \in HitAddresses : fMap'[b] = IF b = a THEN <<>> ELSE fMap[b]
      /\ \A b \in HitAddresses : fMap'[b] \in Seq(FragmentsOf(b))
  BY <1>2, <1>17, WaitingChanged
<1> HIDE DEF w
<1>4. goodOutput \in Seq(AllFragments \X Nat)
  BY DEF FragmentInv, FragmentTyped
<1>5. goodOutput' \in Seq(AllFragments \X Nat) /\ Good' = Good \o group
  BY <1>1, <1>2, <1>4, GoodExtended
<1>6. Good \in Seq(AllFragments)
  BY <1>4, GoodTyped
<1>7. Range(Good') = Range(Good) \cup Range(group)
  BY <1>1, <1>5, <1>6, RangeConcat
<1>8. Waiting' = Waiting \ Range(w)
  BY <1>3 DEF Range
<1>9. Range(group) \cap Range(Good) = {}
  BY <1>1 DEF FragmentInv, EveryFragmentOnce, Disjoint
<1>10. IsInjective(Good')
  BY <1>1, <1>5, <1>6, <1>9, InOrderOnce, OnceConcat DEF FragmentInv, EveryFragmentOnce
<1>11. IsInjective(<<>>)
  BY DEF IsInjective
<1>12. EveryFragmentOnce'
  BY <1>1, <1>2, <1>3, <1>7, <1>8, <1>10, <1>11 DEF FragmentInv, EveryFragmentOnce, Disjoint
<1>13. \A f \in Range(group) : f.address = a
  <2> TAKE f \in Range(group)
  <2>1. f \in FragmentsOf(a)
    BY <1>1 DEF Range
  <2> QED
    BY <2>1, FragmentIsOfAddress
<1>14. Output'
  <2>1. ASSUME NEW b \in HitAddresses
        PROVE  InOrder(fMap'[b]) /\ AllBefore(OfAddress(b, Range(Good')), fMap'[b])
    <3>1. CASE b = a
      BY <3>1, <1>3 DEF InOrder, AllBefore
    <3>2. CASE b # a
      <4>1. OfAddress(b, Range(Good')) = OfAddress(b, Range(Good))
        BY <3>2, <1>7, <1>13 DEF OfAddress
      <4> QED
        BY <4>1, <3>2, <1>3 DEF FragmentInv, Output
    <3> QED
      BY <3>1, <3>2
  <2> QED
    BY <2>1 DEF Output
<1>15. \A i, j \in DOMAIN Good' :
           i < j /\ Good'[i].address = Good'[j].address => Before(Good'[i], Good'[j])
  <2> SUFFICES ASSUME NEW i \in DOMAIN (Good \o group), NEW j \in DOMAIN (Good \o group),
                      i < j, (Good \o group)[i].address = (Good \o group)[j].address
               PROVE  Before((Good \o group)[i], (Good \o group)[j])
    BY <1>5
  <2>1. /\ Len(Good) \in Nat /\ Len(group) \in Nat
        /\ DOMAIN Good = 1 .. Len(Good) /\ DOMAIN group = 1 .. Len(group)
        /\ DOMAIN (Good \o group) = 1 .. (Len(Good) + Len(group))
        /\ \A k \in 1 .. Len(Good) : (Good \o group)[k] = Good[k]
        /\ \A k \in 1 .. Len(group) : (Good \o group)[Len(Good) + k] = group[k]
    BY <1>1, <1>6, ConcatOf
  <2>2. CASE j \in DOMAIN Good
    <3>1. i \in DOMAIN Good
      BY <2>1, <2>2
    <3>2. Good[i].address = Good[j].address
      BY <3>1, <2>1, <2>2
    <3>3. Before(Good[i], Good[j])
      BY <3>1, <3>2, <2>2, <1>4, OrderOfGood DEF FragmentInv
    <3> QED
      BY <3>1, <3>3, <2>1, <2>2
  <2>3. CASE j \notin DOMAIN Good
    <3>1. PICK k \in DOMAIN group : j = Len(Good) + k
      <4>1. j - Len(Good) \in 1 .. Len(group) /\ j = Len(Good) + (j - Len(Good))
        BY <2>1, <2>3
      <4> QED
        BY <4>1, <2>1
    <3>2. (Good \o group)[j] = group[k] /\ group[k] \in Range(group)
      BY <3>1, <2>1 DEF Range
    <3>3. CASE i \in DOMAIN Good
      <4>1. (Good \o group)[i] = Good[i] /\ Good[i] \in Range(Good)
        BY <3>3, <2>1 DEF Range
      <4>2. Good[i].address = a
        BY <4>1, <3>2, <1>13
      <4>3. Good[i] \in OfAddress(a, Range(Good))
        BY <4>1, <4>2 DEF OfAddress
      <4> QED
        BY <4>1, <4>3, <3>1, <3>2, <1>1 DEF AllBefore
    <3>4. CASE i \notin DOMAIN Good
      <4>1. PICK h \in DOMAIN group : i = Len(Good) + h
        <5>1. i - Len(Good) \in 1 .. Len(group) /\ i = Len(Good) + (i - Len(Good))
          BY <2>1, <3>4
        <5> QED
          BY <5>1, <2>1
      <4>2. (Good \o group)[i] = group[h] /\ h < k
        BY <4>1, <3>1, <2>1
      <4> QED
        BY <4>2, <3>2, <1>1 DEF InOrder
    <3> QED
      BY <3>3, <3>4
  <2> QED
    BY <2>2, <2>3
<1>16. ArrivalOrderKept'
  <2>1. /\ DOMAIN Good' = DOMAIN goodOutput'
        /\ \A i \in DOMAIN Good' : Good'[i] = goodOutput'[i][1]
    BY DEF Good
  <2> QED
    BY <1>15, <2>1 DEF ArrivalOrderKept
<1> QED
  BY <1>3, <1>5, <1>12, <1>14, <1>16

LEMMA DropsInv ==
    ASSUME FragmentInv, NEW a \in HitAddresses, sending[a] # <<>>, Drops(a),
           received' = received \cup {Head(sending[a])}
    PROVE  Output' /\ ArrivalOrderKept' /\ EveryFragmentOnce'
           /\ (\A b \in HitAddresses : fMap'[b] \in Seq(FragmentsOf(b)))
           /\ badOutput' \in Seq(AllFragments)
<1> DEFINE frag == Head(sending[a])
           w == fMap[a]
<1>1. /\ frag \in FragmentsOf(a) /\ frag \notin received
      /\ w \in Seq(AllFragments) /\ InOrder(w) /\ Range(w) \subseteq Waiting
  BY GroupIs
<1>2. /\ fMap' = [fMap EXCEPT ![a] = <<>>] /\ received' = received \cup {frag}
      /\ goodOutput' = goodOutput /\ badOutput' = badOutput \o w
      /\ refused' = refused \cup {frag}
  BY DEF Drops
<1> HIDE DEF frag
<1>14. <<>> \in Seq(FragmentsOf(a)) /\ FragmentTyped
  BY DEF FragmentInv
<1>3. /\ Waiting' = (Waiting \ Range(w)) \cup Range(<<>>)
      /\ \A b \in HitAddresses : fMap'[b] = IF b = a THEN <<>> ELSE fMap[b]
      /\ \A b \in HitAddresses : fMap'[b] \in Seq(FragmentsOf(b))
  BY <1>2, <1>14, WaitingChanged
<1> HIDE DEF w
<1>4. Waiting' = Waiting \ Range(w) /\ Good' = Good
  BY <1>2, <1>3 DEF Range, Good
<1>5. badOutput \in Seq(AllFragments)
  BY DEF FragmentInv, FragmentTyped
<1>6. /\ badOutput' \in Seq(AllFragments)
      /\ Range(badOutput') = Range(badOutput) \cup Range(w)
  BY <1>1, <1>2, <1>5, RangeConcat, ConcatOf
<1>7. Range(badOutput) \cap Range(w) = {}
  BY <1>1 DEF FragmentInv, EveryFragmentOnce, Disjoint
<1>8. IsInjective(w)
  BY <1>1, InOrderOnce
<1>9. IsInjective(badOutput')
  BY <1>1, <1>2, <1>5, <1>7, <1>8, OnceConcat DEF FragmentInv, EveryFragmentOnce
<1>10. IsInjective(<<>>)
  BY DEF IsInjective
<1>11. EveryFragmentOnce'
  BY <1>1, <1>2, <1>3, <1>4, <1>6, <1>9, <1>10 DEF FragmentInv, EveryFragmentOnce, Disjoint
<1>12. Output'
  BY <1>3, <1>4 DEF FragmentInv, Output, InOrder, AllBefore
<1>13. ArrivalOrderKept'
  BY <1>2 DEF FragmentInv, ArrivalOrderKept
<1> QED
  BY <1>3, <1>6, <1>11, <1>12, <1>13

LEMMA ReceiveInv ==
    ASSUME FragmentInv, NEW a \in HitAddresses, Receive(a)
    PROVE  FragmentInv'
<1>1. /\ Sent(a) /\ sending[a] # <<>> /\ Add(Head(sending[a]))
      /\ received' = received \cup {Head(sending[a])}
  BY DEF Receive, Sent
<1>2. /\ Sending' /\ received' \subseteq AllFragments
      /\ DOMAIN sending' = HitAddresses /\ started' = started
      /\ \A b \in HitAddresses : sending'[b] \in Seq(FragmentsOf(b))
  BY <1>1, SentInv
<1>3. /\ Output' /\ ArrivalOrderKept' /\ EveryFragmentOnce'
      /\ \A b \in HitAddresses : fMap'[b] \in Seq(FragmentsOf(b))
      /\ goodOutput' \in Seq(AllFragments \X Nat) /\ badOutput' \in Seq(AllFragments)
  <2>1. goodOutput \in Seq(AllFragments \X Nat) /\ badOutput \in Seq(AllFragments)
    BY DEF FragmentInv, FragmentTyped
  <2>2. CASE Waits(a)
    BY <1>1, <2>1, <2>2, WaitsInv DEF Waits
  <2>3. CASE Solved(a)
    BY <1>1, <2>1, <2>3, SolvedInv DEF Solved
  <2>4. CASE Drops(a)
    BY <1>1, <2>1, <2>4, DropsInv DEF Drops
  <2> QED
    BY <1>1, <2>2, <2>3, <2>4, AddIs
<1>4. fMap' = [b \in HitAddresses |-> fMap'[b]]
  BY <1>1, AddIs DEF Waits, Solved, Drops, FragmentInv, FragmentTyped
<1>5. FragmentTyped'
  BY <1>2, <1>3, <1>4 DEF FragmentInv, FragmentTyped
<1> QED
  BY <1>2, <1>3, <1>5 DEF FragmentInv

LEMMA FragmentAlways == FragmentSpec => []FragmentInv
<1>1. FragmentInv /\ [FragmentNext]_fragmentVars => FragmentInv'
  <2> SUFFICES ASSUME FragmentInv, [FragmentNext]_fragmentVars PROVE FragmentInv'
    OBVIOUS
  <2>1. CASE FragmentNext
    BY <2>1, PileUpInv, ReceiveInv, LoseInv DEF FragmentNext
  <2>2. CASE UNCHANGED fragmentVars
    <3>1. /\ UNCHANGED <<fMap, goodOutput, badOutput, refused, received>>
          /\ UNCHANGED <<sending, started>>
      BY <2>2 DEF fragmentVars
    <3>2. FragmentTyped' /\ Sending'
      BY <3>1 DEF FragmentInv, FragmentTyped, Sending
    <3> QED
      BY <3>1, <3>2, OutputUnchanged DEF FragmentInv
  <2> QED
    BY <2>1, <2>2
<1> QED
  BY <1>1, FragmentInitInv, PTL DEF FragmentSpec

\* For any addresses, pile-ups and losses Add puts every fragment it is given
\* in one place, once, whichever of its four ways it takes.
THEOREM FragmentsOnce == FragmentSpec => []EveryFragmentOnce
  BY FragmentAlways, PTL DEF FragmentInv

\* The fragments of an address leave for the good output in the order of their
\* hits, whatever was lost between them: the map is emptied when a group is
\* complete, and a single fragment leaves at once only when nothing waits.
THEOREM OrderKept == FragmentSpec => []ArrivalOrderKept
  BY FragmentAlways, PTL DEF FragmentInv

-----------------------------------------------------------------------------
(* Pile-ups and lost fragments                                             *)

\* By how many integrals what waits and what is still sent are more than a
\* group has, and how many fragments without integrals would make one of it.
Surplus(a) ==
    (Charges(fMap[a]) + Charges(sending[a]) + 1) - 2 * (Len(fMap[a]) + Len(sending[a]))
Missing(a) ==
    IF (fMap[a] = <<>> /\ sending[a] = <<>>) \/ Surplus(a) < 0 THEN 0 ELSE Surplus(a)

Among(g, s) == \E i \in DOMAIN s : s[i].pileUp = g
OwnGood(a, g) == {i \in DOMAIN goodOutput : goodOutput[i][1].address = a
                                              /\ goodOutput[i][1].pileUp = g}
GroupsOf(a, g) == {goodOutput[i][2] : i \in OwnGood(a, g)}
OwnBad(a, g) == Of(a, g, Range(badOutput) \cup refused)

\* Nothing of the pile-up has left, and what waits is of it only.
Whole(a, g) ==
    /\ OwnGood(a, g) = {} /\ OwnBad(a, g) = {}
    /\ \A i \in DOMAIN fMap[a] : fMap[a][i].pileUp = g
Lossless(a, g) == Of(a, g, lost) = {}

\* A pile-up without a loss that is torn or mixed, or will be.
Spoiled(a) ==
    {g \in 1 .. PileUpBound :
        /\ Lossless(a, g)
        /\ \/ TornOrMixed(a, g)
           \/ (Among(g, fMap[a]) \/ Among(g, sending[a])) /\ ~ Whole(a, g)}

\* A pile-up that is whole will be complete with its last fragment.
WholeFits(a) ==
    \A g \in 1 .. PileUpBound :
        Lossless(a, g) /\ Whole(a, g) =>
            /\ Among(g, sending[a]) => Surplus(a) = 0
            /\ ~ Among(g, sending[a]) => ~ Among(g, fMap[a])

\* The fragments that are sent are of the last pile-up.
SentOne(a) ==
    /\ FewIntegrals(sending[a])
    /\ \A i \in DOMAIN sending[a] :
           sending[a][i].pileUp = started[a] /\ Len(sending[a][i].integrals) > 0
    /\ started[a] <= PileUpBound

LostBefore(a) ==
    /\ AllBefore(OfAddress(a, lost), sending[a])
    /\ \A f \in OfAddress(a, lost) : f.pileUp \in Nat /\ f.pileUp <= started[a]

NotComplete(a) == Charges(fMap[a]) >= 2 * Len(fMap[a])

Fewer(a) == Cardinality(Spoiled(a)) + Missing(a) <= Cardinality(OfAddress(a, lost))

Numbered == \A i \in DOMAIN goodOutput : goodOutput[i][2] <= Len(goodOutput)

\* The invariant at an address, and of all of them.
At(a) == SentOne(a) /\ LostBefore(a) /\ NotComplete(a) /\ WholeFits(a) /\ Fewer(a)

LossInv ==
    /\ FragmentInv /\ Numbered /\ IsFiniteSet(lost)
    /\ \A a \in HitAddresses : At(a)

-----------------------------------------------------------------------------
LEMMA TornOrMixedIs ==
    ASSUME NEW a, NEW g
    PROVE  TornOrMixed(a, g) <=>
             \/ Cardinality(GroupsOf(a, g)) > 1
             \/ OwnGood(a, g) # {} /\ OwnBad(a, g) # {}
             \/ \E i \in DOMAIN goodOutput :
                    /\ goodOutput[i][2] \in GroupsOf(a, g)
                    /\ goodOutput[i][1].pileUp # g
  BY DEF TornOrMixed, GroupsOf, OwnGood, OwnBad

\* The numbers that Surplus is made of.
LEMMA SurplusIs ==
    ASSUME FragmentTyped, NEW a \in HitAddresses
    PROVE  /\ Charges(fMap[a]) \in Nat /\ Len(fMap[a]) \in Nat
           /\ Charges(sending[a]) \in Nat /\ Len(sending[a]) \in Nat
           /\ Surplus(a) \in Int /\ Missing(a) \in Nat
<1>1. fMap[a] \in Seq(FragmentsOf(a)) /\ sending[a] \in Seq(FragmentsOf(a))
  BY DEF FragmentTyped
<1>2. /\ Charges(fMap[a]) \in Nat /\ Len(fMap[a]) \in Nat
      /\ Charges(sending[a]) \in Nat /\ Len(sending[a]) \in Nat
  BY <1>1, LensAre
<1>3. Surplus(a) \in Int
  <2> DEFINE b == Charges(fMap[a])
             c == Charges(sending[a])
             d == Len(fMap[a])
             e == Len(sending[a])
  <2> HIDE DEF b, c, d, e
  <2>1. b \in Nat /\ c \in Nat /\ d \in Nat /\ e \in Nat
    BY <1>2 DEF b, c, d, e
  <2>2. (b + c + 1) - 2 * (d + e) \in Int
    BY <2>1
  <2>3. Surplus(a) = (b + c + 1) - 2 * (d + e)
    BY DEF Surplus, b, c, d, e
  <2> QED
    BY <2>2, <2>3
<1>4. Missing(a) \in Nat
  BY <1>3 DEF Missing
<1> QED
  BY <1>2, <1>3, <1>4

LEMMA SpoiledIsFinite ==
    ASSUME NEW a
    PROVE  /\ IsFiniteSet(Spoiled(a)) /\ Cardinality(Spoiled(a)) \in Nat
           /\ \A S \in SUBSET Spoiled(a) :
                  IsFiniteSet(S) /\ Cardinality(S) <= Cardinality(Spoiled(a))
<1>1. PileUpBound \in Nat
  BY FragmentAssumption
<1>2. IsFiniteSet(1 .. PileUpBound)
  BY <1>1, FS_Interval
<1>3. Spoiled(a) \subseteq 1 .. PileUpBound
  BY DEF Spoiled
<1>4. IsFiniteSet(Spoiled(a))
  BY <1>2, <1>3, FS_Subset
<1> QED
  BY <1>4, FS_Subset, FS_CardinalityType

\* What a step has to show about an address.
LEMMA FewerKept ==
    ASSUME NEW a, Fewer(a), Spoiled(a)' \subseteq Spoiled(a), Missing(a)' <= Missing(a),
           Missing(a) \in Nat, Missing(a)' \in Nat, OfAddress(a, lost)' = OfAddress(a, lost),
           IsFiniteSet(OfAddress(a, lost))
    PROVE  Fewer(a)'
<1>1. Cardinality(Spoiled(a)') <= Cardinality(Spoiled(a)) /\ IsFiniteSet(Spoiled(a)')
  BY SpoiledIsFinite
<1>2. Cardinality(Spoiled(a)') \in Nat /\ Cardinality(Spoiled(a)) \in Nat
      /\ Cardinality(OfAddress(a, lost)) \in Nat
  BY <1>1, SpoiledIsFinite, FS_CardinalityType
<1>3. Cardinality(Spoiled(a))' = Cardinality(Spoiled(a)')
      /\ Cardinality(OfAddress(a, lost))' = Cardinality(OfAddress(a, lost))
  OBVIOUS
<1> HIDE DEF Spoiled, Missing
<1> DEFINE n == Cardinality(Spoiled(a))
           m == Cardinality(Spoiled(a)')
           k == Cardinality(OfAddress(a, lost))
<1>4. n + Missing(a) <= k
  BY DEF Fewer
<1>5. n \in Nat /\ m \in Nat /\ k \in Nat /\ m <= n
  BY <1>1, <1>2
<1> HIDE DEF n, m, k
<1>6. m + Missing(a)' <= k
  BY <1>4, <1>5
<1> QED
  BY <1>3, <1>6 DEF Fewer, n, m, k

\* An address that nothing happens to.
LEMMA AddressUnchanged ==
    ASSUME NEW a, SentOne(a), LostBefore(a), NotComplete(a), WholeFits(a), Fewer(a),
           fMap'[a] = fMap[a], sending'[a] = sending[a], started'[a] = started[a],
           OfAddress(a, lost') = OfAddress(a, lost),
           \A g \in 1 .. PileUpBound :
               /\ OwnGood(a, g)' = OwnGood(a, g) /\ OwnBad(a, g)' = OwnBad(a, g)
               /\ TornOrMixed(a, g)' <=> TornOrMixed(a, g)
    PROVE  SentOne(a)' /\ LostBefore(a)' /\ NotComplete(a)' /\ WholeFits(a)' /\ Fewer(a)'
<1>1. \A g : Lossless(a, g)' <=> Lossless(a, g)
  <2> TAKE g
  <2>1. Of(a, g, lost) = {f \in OfAddress(a, lost) : f.pileUp = g}
    BY DEF Of, OfAddress
  <2>2. Of(a, g, lost') = {f \in OfAddress(a, lost') : f.pileUp = g}
    BY DEF Of, OfAddress
  <2> QED
    BY <2>1, <2>2 DEF Lossless
<1>2. \A g \in 1 .. PileUpBound : Whole(a, g)' <=> Whole(a, g)
  BY DEF Whole
<1>3. Surplus(a)' = Surplus(a)
  BY DEF Surplus
<1>4. Missing(a)' = Missing(a)
  BY <1>3 DEF Missing
<1>5. Spoiled(a)' = Spoiled(a)
  BY <1>1, <1>2 DEF Spoiled
<1>6. WholeFits(a)'
  BY <1>1, <1>2, <1>3 DEF WholeFits
<1>7. Fewer(a)'
  BY <1>4, <1>5 DEF Fewer
<1> QED
  BY <1>6, <1>7 DEF SentOne, LostBefore, NotComplete

\* The first fragment that is sent, and the rest.
LEMMA SentIs ==
    ASSUME FragmentInv, NEW a \in HitAddresses, SentOne(a), LostBefore(a), sending[a] # <<>>
    PROVE  LET frag == Head(sending[a])
               t == Tail(sending[a])
           IN  /\ frag \in FragmentsOf(a) /\ frag.pileUp = started[a]
               /\ Len(frag.integrals) \in Nat \ {0}
               /\ t \in Seq(FragmentsOf(a)) /\ Charges(t) \in Nat /\ Len(t) \in Nat
               /\ Charges(sending[a]) = Len(frag.integrals) + Charges(t)
               /\ Len(sending[a]) = Len(t) + 1
               /\ FewIntegrals(t)
               /\ t # <<>> => Charges(t) < 2 * Len(t)
               /\ t = <<>> => Charges(t) = 0 /\ Len(t) = 0
               /\ \A i \in DOMAIN t : t[i].pileUp = started[a] /\ Len(t[i].integrals) > 0
               /\ \A g : Among(g, sending[a]) <=> g = started[a]
               /\ \A g : Among(g, t) => g = started[a]
               /\ t # <<>> => Among(started[a], t)
               /\ frag \notin lost
               /\ AllBefore(OfAddress(a, lost \cup {frag}), t)
<1> DEFINE s == sending[a]
           t == Tail(s)
           frag == Head(s)
<1>1. s \in Seq(FragmentsOf(a)) /\ s # <<>> /\ FewIntegrals(s) /\ InOrder(s)
      /\ \A i \in DOMAIN s : s[i].pileUp = started[a] /\ Len(s[i].integrals) > 0
  BY DEF FragmentInv, FragmentTyped, Sending, SentOne
<1>2. AllBefore(OfAddress(a, lost), s)
  BY DEF LostBefore
<1>3. AllBefore({frag}, t)
  BY FirstSent
<1> HIDE DEF s
<1>4. /\ Charges(s) = Len(frag.integrals) + Charges(t)
      /\ Len(s) = Len(t) + 1
      /\ FewIntegrals(t)
      /\ t # <<>> => Charges(t) < 2 * Len(t)
      /\ t = <<>> => Charges(t) = 0 /\ Len(t) = 0
  BY <1>1, TailCharges
<1>5. /\ t \in Seq(FragmentsOf(a)) /\ frag = s[1] /\ frag \in FragmentsOf(a)
      /\ Len(s) \in Nat \ {0} /\ DOMAIN s = 1 .. Len(s)
      /\ DOMAIN t = 1 .. (Len(s) - 1)
      /\ \A i \in 1 .. (Len(s) - 1) : t[i] = s[i + 1]
  BY <1>1, TailOf
<1>7. 1 \in DOMAIN s /\ \A i \in DOMAIN t : i + 1 \in DOMAIN s /\ t[i] = s[i + 1]
  BY <1>5
<1> HIDE DEF t, frag
<1>6. Charges(t) \in Nat /\ Len(t) \in Nat
  BY <1>5, LensAre
<1>8. frag.integrals \in Seq(BOOLEAN) /\ frag.address = a /\ frag \in AllFragments
  BY <1>5, FragmentIsOfAddress DEF FragmentsOf
<1>9. Len(frag.integrals) \in Nat \ {0} /\ frag.pileUp = started[a]
  BY <1>1, <1>5, <1>7, <1>8
<1>10. \A i \in DOMAIN t : t[i].pileUp = started[a] /\ Len(t[i].integrals) > 0
  BY <1>1, <1>7
<1>11. \A g : Among(g, s) <=> g = started[a]
  BY <1>1, <1>7 DEF Among
<1>12. \A g : Among(g, t) => g = started[a]
  BY <1>10 DEF Among
<1>13. t # <<>> => Among(started[a], t)
  <2>1. t # <<>> => 1 \in DOMAIN t
    BY <1>5
  <2> QED
    BY <2>1, <1>10 DEF Among
<1>14. frag \notin lost
  <2>1. frag \in OfAddress(a, lost) => Before(frag, frag)
    BY <1>2, <1>5, <1>7 DEF AllBefore
  <2> QED
    BY <2>1, <1>8, OrderIsStrict DEF OfAddress
<1>15. AllBefore(OfAddress(a, lost \cup {frag}), t)
  <2> SUFFICES ASSUME NEW e \in OfAddress(a, lost \cup {frag}), NEW i \in DOMAIN t
               PROVE  Before(e, t[i])
    BY DEF AllBefore
  <2>1. e = frag \/ e \in OfAddress(a, lost)
    BY DEF OfAddress
  <2> QED
    BY <2>1, <1>2, <1>3, <1>7 DEF AllBefore
<1> QED
  BY <1>4, <1>5, <1>6, <1>9, <1>10, <1>11, <1>12, <1>13, <1>14, <1>15 DEF s, t, frag

-----------------------------------------------------------------------------
\* The number of a new group is new.
LEMMA NumberedKept ==
    ASSUME FragmentTyped, Numbered, NEW group \in Seq(AllFragments), PushGroup(group)
    PROVE  LET n == Len(goodOutput) IN
           /\ Numbered' /\ n \in Nat
           /\ DOMAIN goodOutput = 1 .. n /\ DOMAIN goodOutput' = 1 .. (n + Len(group))
           /\ Len(group) \in Nat
           /\ \A i \in 1 .. n : goodOutput'[i] = goodOutput[i]
           /\ \A i \in 1 .. Len(group) : /\ goodOutput'[n + i][1] = group[i]
                                         /\ goodOutput'[n + i][2] = n + 1
           /\ \A i \in 1 .. n : goodOutput[i][2] # n + 1
<1> DEFINE s == goodOutput
           n == Len(s)
           pairs == [i \in DOMAIN group |-> <<group[i], n + 1>>]
<1>1. s \in Seq(AllFragments \X Nat)
  BY DEF FragmentTyped
<1>2. goodOutput' = s \o pairs
  BY DEF PushGroup
<1>3. /\ DOMAIN group = 1 .. Len(group) /\ Len(group) \in Nat
      /\ \A i \in DOMAIN group : group[i] \in AllFragments
      /\ n \in Nat /\ n + 1 \in Nat
  BY <1>1
<1>4. pairs \in Seq(AllFragments \X Nat) /\ Len(pairs) = Len(group)
      /\ \A i \in 1 .. Len(group) : pairs[i] = <<group[i], n + 1>>
  BY <1>3
<1>5. \A i \in DOMAIN s : s[i][2] <= n
  BY DEF Numbered
<1> HIDE DEF s, pairs
<1>6. /\ DOMAIN (s \o pairs) = 1 .. (Len(s) + Len(pairs))
      /\ \A i \in 1 .. Len(s) : (s \o pairs)[i] = s[i]
      /\ \A i \in 1 .. Len(pairs) : (s \o pairs)[Len(s) + i] = pairs[i]
  <2>1. s \in Seq(AllFragments \X Nat) /\ pairs \in Seq(AllFragments \X Nat)
    BY <1>1, <1>4
  <2> QED
    BY <2>1, ConcatOf
<1>7. DOMAIN s = 1 .. n /\ \A i \in DOMAIN s : s[i][2] \in Nat
  BY <1>1
<1>8. /\ DOMAIN goodOutput' = 1 .. (n + Len(group))
      /\ \A i \in 1 .. n : goodOutput'[i] = s[i]
      /\ \A i \in 1 .. Len(group) : goodOutput'[n + i] = <<group[i], n + 1>>
  BY <1>2, <1>4, <1>6
<1>9. \A i \in 1 .. n : s[i][2] # n + 1
  BY <1>3, <1>5, <1>7
<1>10. Len(group) > 0 => n + 1 <= n + Len(group)
  BY <1>3
<1>11. Len(goodOutput') = n + Len(group)
  BY <1>2, <1>4, <1>6
<1>12. ASSUME NEW i \in 1 .. (n + Len(group)) PROVE goodOutput'[i][2] <= n + Len(group)
  <2>1. CASE i \in 1 .. n
    <3>1. goodOutput'[i][2] = s[i][2] /\ s[i][2] <= n /\ s[i][2] \in Nat
      BY <2>1, <1>5, <1>7, <1>8
    <3> QED
      BY <3>1, <1>3
  <2>2. CASE i \notin 1 .. n
    <3>1. i - n \in 1 .. Len(group) /\ i = n + (i - n)
      BY <2>2, <1>3
    <3>2. goodOutput'[i] = <<group[i - n], n + 1>>
      BY <3>1, <1>8
    <3> QED
      BY <3>1, <3>2, <1>3
  <2> QED
    BY <2>1, <2>2
<1>13. Numbered'
  BY <1>8, <1>11, <1>12 DEF Numbered
<1> QED
  BY <1>3, <1>7, <1>8, <1>9, <1>13 DEF s

\* A pile-up that no fragment of the new group is of.
LEMMA OtherPileUp ==
    ASSUME FragmentTyped, Numbered, NEW b, NEW g, NEW group \in Seq(AllFragments), PushGroup(group),
           \A i \in DOMAIN group : ~ (group[i].address = b /\ group[i].pileUp = g)
    PROVE  /\ OwnGood(b, g)' = OwnGood(b, g)
           /\ OwnBad(b, g)' = OwnBad(b, g) => (TornOrMixed(b, g)' <=> TornOrMixed(b, g))
<1> DEFINE n == Len(goodOutput)
           m == Len(group)
<1>1. /\ n \in Nat /\ m \in Nat /\ DOMAIN group = 1 .. m
      /\ DOMAIN goodOutput = 1 .. n /\ DOMAIN goodOutput' = 1 .. (n + m)
      /\ \A i \in 1 .. n : goodOutput'[i] = goodOutput[i]
      /\ \A i \in 1 .. m : goodOutput'[n + i][1] = group[i] /\ goodOutput'[n + i][2] = n + 1
      /\ \A i \in 1 .. n : goodOutput[i][2] # n + 1
  BY NumberedKept
<1> HIDE DEF n, m
<1>2. ASSUME NEW i \in DOMAIN goodOutput', i \notin 1 .. n
      PROVE  /\ i - n \in DOMAIN group /\ goodOutput'[i][1] = group[i - n]
             /\ goodOutput'[i][2] = n + 1
  <2>1. i - n \in 1 .. m /\ i = n + (i - n)
    BY <1>1, <1>2
  <2> QED
    BY <2>1, <1>1
<1>3. 1 .. n \subseteq DOMAIN goodOutput'
  BY <1>1
<1>4. OwnGood(b, g)' = OwnGood(b, g)
  <2>1. \A i \in OwnGood(b, g)' : i \in 1 .. n
    BY <1>2 DEF OwnGood
  <2>2. \A i \in 1 .. n : i \in OwnGood(b, g)' <=> i \in OwnGood(b, g)
    BY <1>1, <1>3 DEF OwnGood
  <2>3. OwnGood(b, g) \subseteq 1 .. n
    BY <1>1 DEF OwnGood
  <2> QED
    BY <2>1, <2>2, <2>3
<1>5. OwnGood(b, g) \subseteq 1 .. n
  BY <1>1 DEF OwnGood
<1>6. GroupsOf(b, g)' = GroupsOf(b, g)
  <2>1. \A i \in OwnGood(b, g) : goodOutput'[i] = goodOutput[i]
    BY <1>1, <1>5
  <2> QED
    BY <2>1, <1>4 DEF GroupsOf
<1>7. n + 1 \notin GroupsOf(b, g)
  BY <1>1, <1>5 DEF GroupsOf
<1>8. (\E i \in DOMAIN goodOutput' :
            goodOutput'[i][2] \in GroupsOf(b, g) /\ goodOutput'[i][1].pileUp # g)
        <=> (\E i \in DOMAIN goodOutput :
                goodOutput[i][2] \in GroupsOf(b, g) /\ goodOutput[i][1].pileUp # g)
  <2>1. \A i \in DOMAIN goodOutput' : goodOutput'[i][2] \in GroupsOf(b, g) => i \in 1 .. n
    BY <1>2, <1>7
  <2> QED
    BY <2>1, <1>1, <1>3
<1>9. TornOrMixed(b, g)' <=>
        \/ Cardinality(GroupsOf(b, g)') > 1
        \/ OwnGood(b, g)' # {} /\ OwnBad(b, g)' # {}
        \/ \E i \in DOMAIN goodOutput' :
               goodOutput'[i][2] \in GroupsOf(b, g)' /\ goodOutput'[i][1].pileUp # g
  BY DEF TornOrMixed, GroupsOf, OwnGood, OwnBad
<1>10. OwnBad(b, g)' = OwnBad(b, g) => (TornOrMixed(b, g)' <=> TornOrMixed(b, g))
  BY <1>4, <1>6, <1>8, <1>9, TornOrMixedIs
<1> QED
  BY <1>4, <1>10

\* A group that leaves changes nothing for the other pile-ups.
LEMMA LeavesElsewhere ==
    ASSUME FragmentInv, Numbered, NEW a \in HitAddresses, sending[a] # <<>>,
           Solved(a) \/ Drops(a), NEW b, NEW g,
           LET group == Append(fMap[a], Head(sending[a])) IN
               \A f \in Range(group) : ~ (f.address = b /\ f.pileUp = g)
    PROVE  /\ OwnGood(b, g)' = OwnGood(b, g) /\ OwnBad(b, g)' = OwnBad(b, g)
           /\ TornOrMixed(b, g)' <=> TornOrMixed(b, g)
<1> DEFINE frag == Head(sending[a])
           w == fMap[a]
           group == Append(w, frag)
<1>1. /\ group \in Seq(AllFragments) /\ Range(group) = Range(w) \cup {frag}
      /\ w \in Seq(AllFragments)
  BY GroupIs
<1>2. \A f \in Range(group) : ~ (f.address = b /\ f.pileUp = g)
  OBVIOUS
<1>3. FragmentTyped /\ badOutput \in Seq(AllFragments)
  BY DEF FragmentInv, FragmentTyped
<1>4. CASE Solved(a)
  <2>1. PushGroup(group) /\ badOutput' = badOutput /\ refused' = refused
    BY <1>4 DEF Solved
  <2> HIDE DEF group
  <2>2. \A i \in DOMAIN group : ~ (group[i].address = b /\ group[i].pileUp = g)
    BY <1>2 DEF Range
  <2>3. OwnBad(b, g)' = OwnBad(b, g)
    BY <2>1 DEF OwnBad, Of
  <2> QED
    BY <1>1, <1>3, <2>1, <2>2, <2>3, OtherPileUp
<1>5. CASE Drops(a)
  <2>1. /\ goodOutput' = goodOutput /\ badOutput' = badOutput \o w
        /\ refused' = refused \cup {frag}
    BY <1>5 DEF Drops
  <2> HIDE DEF w, frag, group
  <2>2. Range(badOutput') = Range(badOutput) \cup Range(w)
    BY <1>1, <1>3, <2>1, RangeConcat
  <2>3. Range(badOutput') \cup refused' = (Range(badOutput) \cup refused) \cup Range(group)
    BY <1>1, <2>1, <2>2
  <2>4. OwnBad(b, g)' = Of(b, g, Range(badOutput') \cup refused')
    BY DEF OwnBad, Of
  <2>5. OwnBad(b, g)' = OwnBad(b, g)
    BY <1>2, <2>3, <2>4 DEF OwnBad, Of
  <2>6. OwnGood(b, g)' = OwnGood(b, g)
    BY <2>1 DEF OwnGood
  <2>7. TornOrMixed(b, g)' <=>
            \/ Cardinality(GroupsOf(b, g)') > 1
            \/ OwnGood(b, g)' # {} /\ OwnBad(b, g)' # {}
            \/ \E i \in DOMAIN goodOutput' :
                   goodOutput'[i][2] \in GroupsOf(b, g)' /\ goodOutput'[i][1].pileUp # g
    BY DEF TornOrMixed, GroupsOf, OwnGood, OwnBad
  <2>8. GroupsOf(b, g)' = GroupsOf(b, g)
    BY <2>1, <2>6 DEF GroupsOf
  <2> QED
    BY <2>1, <2>5, <2>6, <2>7, <2>8, TornOrMixedIs
<1> QED
  BY <1>4, <1>5

\* A pile-up that leaves as a whole is neither torn nor mixed, and one of
\* which a fragment leaves is out.
LEMMA LeavesWhole ==
    ASSUME FragmentInv, Numbered, NEW a \in HitAddresses, sending[a] # <<>>,
           Solved(a) \/ Drops(a), NEW g
    PROVE  LET group == Append(fMap[a], Head(sending[a])) IN
           /\ (\A f \in Range(group) : f.pileUp = g) /\ Whole(a, g) => ~ TornOrMixed(a, g)'
           /\ Head(sending[a]).pileUp = g => ~ Whole(a, g)'
<1> DEFINE frag == Head(sending[a])
           w == fMap[a]
           group == Append(w, frag)
<1>1. /\ group \in Seq(AllFragments) /\ group \in Seq(FragmentsOf(a))
      /\ Range(group) = Range(w) \cup {frag} /\ frag \in FragmentsOf(a)
      /\ w \in Seq(AllFragments) /\ w \in Seq(FragmentsOf(a))
  BY GroupIs
<1>2. FragmentTyped /\ badOutput \in Seq(AllFragments)
  BY DEF FragmentInv, FragmentTyped
<1>3. frag.address = a /\ \A i \in DOMAIN group : group[i].address = a
  <2> HIDE DEF group, frag
  <2>1. \A i \in DOMAIN group : group[i] \in FragmentsOf(a)
    BY <1>1
  <2> QED
    BY <2>1, <1>1, FragmentIsOfAddress
<1>a. group[Len(w) + 1] = frag /\ Len(group) = Len(w) + 1 /\ Len(w) \in Nat
  <2> HIDE DEF w, frag
  <2> QED
    BY <1>1, AppendOf
<1>4. TornOrMixed(a, g)' <=>
            \/ Cardinality(GroupsOf(a, g)') > 1
            \/ OwnGood(a, g)' # {} /\ OwnBad(a, g)' # {}
            \/ \E i \in DOMAIN goodOutput' :
                   goodOutput'[i][2] \in GroupsOf(a, g)' /\ goodOutput'[i][1].pileUp # g
  BY DEF TornOrMixed, GroupsOf, OwnGood, OwnBad
<1>5. CASE Solved(a)
  <2>1. PushGroup(group) /\ badOutput' = badOutput /\ refused' = refused
    BY <1>5 DEF Solved
  <2> DEFINE n == Len(goodOutput)
             m == Len(group)
  <2> HIDE DEF group, frag, w
  <2>2. /\ n \in Nat /\ m \in Nat /\ DOMAIN group = 1 .. m
        /\ DOMAIN goodOutput = 1 .. n /\ DOMAIN goodOutput' = 1 .. (n + m)
        /\ \A i \in 1 .. n : goodOutput'[i] = goodOutput[i]
        /\ \A i \in 1 .. m : goodOutput'[n + i][1] = group[i] /\ goodOutput'[n + i][2] = n + 1
        /\ \A i \in 1 .. n : goodOutput[i][2] # n + 1
    <3>1. group \in Seq(AllFragments) /\ FragmentTyped /\ PushGroup(group)
      BY <1>1, <1>2, <2>1
    <3>2. DOMAIN group = 1 .. m
      BY <3>1
    <3>3. /\ n \in Nat /\ m \in Nat
          /\ DOMAIN goodOutput = 1 .. n /\ DOMAIN goodOutput' = 1 .. (n + m)
          /\ \A i \in 1 .. n : goodOutput'[i] = goodOutput[i]
          /\ \A i \in 1 .. m : goodOutput'[n + i][1] = group[i] /\ goodOutput'[n + i][2] = n + 1
          /\ \A i \in 1 .. n : goodOutput[i][2] # n + 1
      BY <3>1, NumberedKept
    <3> QED
      BY <3>2, <3>3
  <2> HIDE DEF n, m
  <2>3. ASSUME NEW i \in DOMAIN goodOutput', i \notin 1 .. n
        PROVE  /\ i - n \in DOMAIN group /\ goodOutput'[i][1] = group[i - n]
               /\ goodOutput'[i][2] = n + 1
    <3>1. i - n \in 1 .. m /\ i = n + (i - n)
      BY <2>2, <2>3
    <3> QED
      BY <3>1, <2>2
  <2>4. ASSUME \A f \in Range(group) : f.pileUp = g, Whole(a, g)
        PROVE  ~ TornOrMixed(a, g)'
    <3>1. OwnGood(a, g) = {} /\ OwnBad(a, g) = {}
      BY <2>4 DEF Whole
    <3>2. OwnBad(a, g)' = {}
      BY <3>1, <2>1 DEF OwnBad, Of
    <3>3. \A i \in OwnGood(a, g)' : i \in DOMAIN goodOutput' /\ i \notin 1 .. n
      BY <3>1, <2>2 DEF OwnGood
    <3>4. GroupsOf(a, g)' \subseteq {n + 1}
      BY <3>3, <2>3 DEF GroupsOf
    <3>5. Cardinality(GroupsOf(a, g)') <= 1
      <4>1. IsFiniteSet({n + 1}) /\ Cardinality({n + 1}) = 1
        BY FS_Singleton
      <4> QED
        BY <4>1, <3>4, FS_Subset
    <3>6. ~ (Cardinality(GroupsOf(a, g)') > 1)
      <4>1. IsFiniteSet(GroupsOf(a, g)')
        BY <3>4, FS_Subset, FS_Singleton
      <4>2. Cardinality(GroupsOf(a, g)') \in Nat
        BY <4>1, FS_CardinalityType
      <4> QED
        BY <4>2, <3>5
    <3>7. \A i \in DOMAIN goodOutput' :
              goodOutput'[i][2] \in GroupsOf(a, g)' => goodOutput'[i][1].pileUp = g
      <4> TAKE i \in DOMAIN goodOutput'
      <4> HAVE goodOutput'[i][2] \in GroupsOf(a, g)'
      <4>1. goodOutput'[i][2] = n + 1
        BY <3>4
      <4>2. i \notin 1 .. n
        BY <4>1, <2>2
      <4>3. i - n \in DOMAIN group /\ goodOutput'[i][1] = group[i - n]
        BY <4>2, <2>3
      <4> QED
        BY <4>3, <2>4 DEF Range
    <3> QED
      BY <1>4, <3>2, <3>6, <3>7
  <2>5. ASSUME frag.pileUp = g PROVE ~ Whole(a, g)'
    <3>1. m = Len(w) + 1 /\ m \in 1 .. m /\ group[m] = frag
      BY <1>a DEF m
    <3>2. n + m \in 1 .. (n + m)
      BY <2>2, <3>1
    <3>3. n + m \in DOMAIN goodOutput' /\ goodOutput'[n + m][1] = frag
      BY <2>2, <3>1, <3>2
    <3>4. n + m \in OwnGood(a, g)'
      BY <3>3, <2>5, <1>3 DEF OwnGood
    <3> QED
      BY <3>4 DEF Whole
  <2> QED
    BY <2>4, <2>5 DEF group, frag, w
<1>6. CASE Drops(a)
  <2>1. /\ goodOutput' = goodOutput /\ badOutput' = badOutput \o w
        /\ refused' = refused \cup {frag}
    BY <1>6 DEF Drops
  <2> HIDE DEF w, frag, group
  <2>2. OwnGood(a, g)' = OwnGood(a, g)
    BY <2>1 DEF OwnGood
  <2>3. ASSUME Whole(a, g) PROVE ~ TornOrMixed(a, g)'
    <3>1. OwnGood(a, g)' = {}
      BY <2>2, <2>3 DEF Whole
    <3>2. GroupsOf(a, g)' = {}
      BY <3>1 DEF GroupsOf
    <3>3. Cardinality({}) = 0
      BY FS_EmptySet
    <3> QED
      BY <1>4, <3>1, <3>2, <3>3
  <2>4. ASSUME frag.pileUp = g PROVE ~ Whole(a, g)'
    <3>1. frag \in OwnBad(a, g)'
      BY <2>1, <2>4, <1>3 DEF OwnBad, Of
    <3> QED
      BY <3>1 DEF Whole
  <2> QED
    BY <2>3, <2>4 DEF group, frag, w
<1> QED
  BY <1>5, <1>6

-----------------------------------------------------------------------------
LEMMA LossInvAt ==
    ASSUME LossInv, NEW a \in HitAddresses
    PROVE  /\ At(a) /\ FragmentInv /\ FragmentTyped /\ Numbered
           /\ started[a] \in Nat /\ IsFiniteSet(lost) /\ IsFiniteSet(OfAddress(a, lost))
<1>1. IsFiniteSet(OfAddress(a, lost))
  BY FS_Subset DEF LossInv, OfAddress
<1> QED
  BY <1>1 DEF LossInv, At, FragmentInv, FragmentTyped

\* What a step of Receive leaves alone, and what it takes from sending.
LEMMA ReceiveSends ==
    ASSUME LossInv, NEW a \in HitAddresses, Sent(a), lost' = lost
    PROVE  /\ SentOne(a)' /\ LostBefore(a)'
           /\ sending'[a] = Tail(sending[a]) /\ started'[a] = started[a]
           /\ \A g : Lossless(a, g)' <=> Lossless(a, g)
           /\ OfAddress(a, lost)' = OfAddress(a, lost)
<1>1. /\ sending[a] # <<>> /\ sending' = [sending EXCEPT ![a] = Tail(sending[a])]
      /\ started' = started
  BY DEF Sent
<1>2. sending'[a] = Tail(sending[a]) /\ started'[a] = started[a]
  BY <1>1 DEF LossInv, FragmentInv, FragmentTyped
<1>3. FragmentInv /\ SentOne(a) /\ LostBefore(a)
  BY LossInvAt DEF At
<1> DEFINE t == Tail(sending[a])
<1>4. /\ FewIntegrals(t)
      /\ \A i \in DOMAIN t : t[i].pileUp = started[a] /\ Len(t[i].integrals) > 0
      /\ AllBefore(OfAddress(a, lost \cup {Head(sending[a])}), t)
  BY <1>1, <1>3, SentIs
<1>5. AllBefore(OfAddress(a, lost), t)
  BY <1>4 DEF AllBefore, OfAddress
<1> HIDE DEF t
<1>6. sending'[a] = t
  BY <1>2 DEF t
<1>7. SentOne(a)'
  BY <1>2, <1>3, <1>4, <1>6 DEF SentOne
<1>8. LostBefore(a)'
  BY <1>2, <1>3, <1>5, <1>6 DEF LostBefore
<1> QED
  BY <1>2, <1>7, <1>8 DEF Lossless

\* The numbers of what is left when the first fragment sent is taken.
LEMMA SurplusWhenSent ==
    ASSUME LossInv, NEW a \in HitAddresses, sending[a] # <<>>
    PROVE  LET frag == Head(sending[a])
               t == Tail(sending[a])
               group == Append(fMap[a], frag)
           IN  /\ Charges(group) = Charges(fMap[a]) + Len(frag.integrals)
               /\ Len(group) = Len(fMap[a]) + 1
               /\ Charges(group) \in Nat /\ Len(group) \in Nat
               /\ Surplus(a) = (Charges(group) + Charges(t) + 1) - 2 * (Len(group) + Len(t))
<1> DEFINE frag == Head(sending[a])
           t == Tail(sending[a])
           w == fMap[a]
           group == Append(w, frag)
<1>1. /\ frag \in FragmentsOf(a) /\ Len(frag.integrals) \in Nat \ {0}
      /\ Charges(t) \in Nat /\ Len(t) \in Nat
      /\ Charges(sending[a]) = Len(frag.integrals) + Charges(t)
      /\ Len(sending[a]) = Len(t) + 1
  BY LossInvAt, SentIs DEF At
<1>2. w \in Seq(FragmentsOf(a)) /\ Charges(w) \in Nat /\ Len(w) \in Nat
  BY LossInvAt, SurplusIs DEF FragmentTyped
<1>3. Charges(group) = Charges(w) + Len(frag.integrals) /\ Len(group) = Len(w) + 1
  <2> HIDE DEF w, frag
  <2> QED
    BY <1>1, <1>2, ChargesAppend
<1> DEFINE b == Charges(w)
           c == Charges(t)
           d == Len(w)
           e == Len(t)
           h == Len(frag.integrals)
<1>4. Surplus(a) = (b + (h + c) + 1) - 2 * (d + (e + 1))
  BY <1>1 DEF Surplus
<1>5. b \in Nat /\ c \in Nat /\ d \in Nat /\ e \in Nat /\ h \in Nat
  BY <1>1, <1>2
<1>6. Charges(group) = b + h /\ Len(group) = d + 1
  BY <1>3
<1> HIDE DEF b, c, d, e, h, group
<1>7. Surplus(a) = ((b + h) + c + 1) - 2 * ((d + 1) + e)
  BY <1>4, <1>5
<1>8. b + h \in Nat /\ d + 1 \in Nat
  BY <1>5
<1> QED
  BY <1>6, <1>7, <1>8 DEF group, b, c, d, e, h

LEMMA WaitKeeps ==
    ASSUME LossInv, NEW a \in HitAddresses, Sent(a), lost' = lost,
           Waits(a), ~ Complete(Append(fMap[a], Head(sending[a])))
    PROVE  At(a)'
<1> DEFINE frag == Head(sending[a])
           t == Tail(sending[a])
           w == fMap[a]
           group == Append(w, frag)
           c == started[a]
<1>1. /\ SentOne(a)' /\ LostBefore(a)' /\ sending'[a] = t
      /\ \A g : Lossless(a, g)' <=> Lossless(a, g)
      /\ OfAddress(a, lost)' = OfAddress(a, lost)
  BY ReceiveSends
<1>2. sending[a] # <<>>
  BY DEF Sent
<1>3. /\ frag \in FragmentsOf(a) /\ frag.pileUp = c
      /\ Len(frag.integrals) \in Nat \ {0}
      /\ Charges(t) \in Nat /\ Len(t) \in Nat
      /\ t = <<>> => Charges(t) = 0 /\ Len(t) = 0
      /\ \A g : Among(g, sending[a]) <=> g = c
      /\ \A g : Among(g, t) => g = c
      /\ t # <<>> => Among(c, t)
  BY <1>2, LossInvAt, SentIs DEF At
<1>4. /\ Charges(group) = Charges(w) + Len(frag.integrals)
      /\ Len(group) = Len(w) + 1
      /\ Charges(group) \in Nat /\ Len(group) \in Nat
      /\ Surplus(a) = (Charges(group) + Charges(t) + 1) - 2 * (Len(group) + Len(t))
  BY <1>2, SurplusWhenSent
<1>5. /\ fMap'[a] = group /\ goodOutput' = goodOutput /\ badOutput' = badOutput
      /\ refused' = refused
  BY DEF Waits, LossInv, FragmentInv, FragmentTyped
<1>6. w \in Seq(FragmentsOf(a)) /\ Charges(w) \in Nat /\ Len(w) \in Nat
      /\ Charges(w) >= 2 * Len(w)
  BY LossInvAt, SurplusIs DEF FragmentTyped, At, NotComplete
<1>7. At(a) /\ Missing(a) \in Nat /\ IsFiniteSet(OfAddress(a, lost))
  BY LossInvAt, SurplusIs
<1>8. ~ Complete(group)
  OBVIOUS
<1> HIDE DEF frag, t
<1>9. /\ \A i \in 1 .. Len(w) : group[i] = w[i]
      /\ DOMAIN group = 1 .. (Len(w) + 1) /\ DOMAIN w = 1 .. Len(w)
      /\ group[Len(w) + 1] = frag /\ group # <<>>
  <2> HIDE DEF w
  <2>1. Append(w, frag) # <<>>
    BY <1>3, <1>6
  <2> QED
    BY <2>1, <1>3, <1>6, AppendOf
<1> HIDE DEF group
<1>10. Charges(group) >= 2 * Len(group)
  <2> DEFINE x == Charges(w)
             d == Len(w)
             h == Len(frag.integrals)
  <2>1. x \in Nat /\ d \in Nat /\ h \in Nat \ {0} /\ x >= 2 * d
    BY <1>3, <1>6
  <2>2. x + h # 2 * (d + 1) - 1
    BY <1>4, <1>8 DEF Complete
  <2>3. Charges(group) = x + h /\ Len(group) = d + 1
    BY <1>4
  <2> HIDE DEF x, d, h
  <2>4. x + h >= 2 * (d + 1)
    BY <2>1, <2>2
  <2> QED
    BY <2>3, <2>4
<1>11. NotComplete(a)'
  BY <1>5, <1>10 DEF NotComplete
<1>12. Surplus(a)' = Surplus(a)
  <2>1. Surplus(a)' = (Charges(group) + Charges(t) + 1) - 2 * (Len(group) + Len(t))
    BY <1>1, <1>5 DEF Surplus
  <2> QED
    BY <2>1, <1>4
<1>13. Missing(a)' = Missing(a)
  <2>1. fMap'[a] # <<>>
    BY <1>5, <1>9
  <2> QED
    BY <2>1, <1>2, <1>12 DEF Missing
<1>14. \A g : /\ OwnGood(a, g)' = OwnGood(a, g) /\ OwnBad(a, g)' = OwnBad(a, g)
              /\ TornOrMixed(a, g)' <=> TornOrMixed(a, g)
  BY <1>5 DEF OwnGood, OwnBad, Of, TornOrMixed
<1>15. \A g : Among(g, group) => Among(g, w) \/ g = c
  <2> SUFFICES ASSUME NEW i \in DOMAIN group
               PROVE  Among(group[i].pileUp, w) \/ group[i].pileUp = c
    BY DEF Among
  <2>1. i \in DOMAIN w \/ i = Len(w) + 1
    BY <1>6, <1>9
  <2> QED
    BY <2>1, <1>3, <1>9 DEF Among
<1>16. ASSUME NEW g, Whole(a, g)' PROVE Whole(a, g) /\ g = c
  <2>1. \A i \in DOMAIN group : group[i].pileUp = g
    BY <1>5, <1>16 DEF Whole
  <2>2. \A i \in DOMAIN w : i \in DOMAIN group /\ group[i] = w[i]
    BY <1>6, <1>9
  <2>3. Len(w) + 1 \in DOMAIN group
    BY <1>6, <1>9
  <2>4. \A i \in DOMAIN w : w[i].pileUp = g
    BY <2>1, <2>2
  <2>5. g = c
    BY <2>1, <2>3, <1>3, <1>9
  <2> QED
    BY <2>4, <2>5, <1>14, <1>16 DEF Whole
<1>17. ASSUME NEW g, Whole(a, g), g = c PROVE Whole(a, g)'
  <2>1. \A i \in DOMAIN group : group[i].pileUp = g
    <3> TAKE i \in DOMAIN group
    <3>1. i \in DOMAIN w \/ i = Len(w) + 1
      BY <1>6, <1>9
    <3>2. \A j \in DOMAIN w : w[j].pileUp = g
      BY <1>17 DEF Whole
    <3> QED
      BY <3>1, <3>2, <1>3, <1>9, <1>17
  <2> QED
    BY <2>1, <1>5, <1>14, <1>17 DEF Whole
<1>18. WholeFits(a)'
  <2> SUFFICES ASSUME NEW g \in 1 .. PileUpBound, Lossless(a, g)', Whole(a, g)'
               PROVE  /\ Among(g, sending[a])' => Surplus(a)' = 0
                      /\ ~ Among(g, sending[a])' => ~ Among(g, fMap[a])'
    BY DEF WholeFits
  <2>1. Whole(a, g) /\ g = c /\ Lossless(a, g) /\ Among(g, sending[a])
    BY <1>1, <1>3, <1>16
  <2>2. Surplus(a) = 0
    BY <2>1, <1>7 DEF At, WholeFits
  <2>3. t # <<>>
    <3> SUFFICES ASSUME t = <<>> PROVE FALSE
      OBVIOUS
    <3> DEFINE x == Charges(group)
               d == Len(group)
    <3>1. x \in Nat /\ d \in Nat /\ x >= 2 * d
      BY <1>4, <1>10
    <3>2. (x + 0 + 1) - 2 * (d + 0) = 0
      BY <2>2, <1>3, <1>4
    <3> HIDE DEF x, d
    <3> QED
      BY <3>1, <3>2
  <2>4. Among(g, sending[a])' <=> Among(g, t)
    BY <1>1 DEF Among
  <2> QED
    BY <2>1, <2>2, <2>3, <2>4, <1>3, <1>12
<1>19. Spoiled(a)' \subseteq Spoiled(a)
  <2> SUFFICES ASSUME NEW g \in Spoiled(a)' PROVE g \in Spoiled(a)
    OBVIOUS
  <2>0. /\ g \in 1 .. PileUpBound /\ Lossless(a, g)'
        /\ \/ TornOrMixed(a, g)'
           \/ (Among(g, fMap[a])' \/ Among(g, sending[a])') /\ ~ Whole(a, g)'
    BY DEF Spoiled
  <2>1. Lossless(a, g) /\ g \in 1 .. PileUpBound
    BY <2>0, <1>1
  <2>2. CASE TornOrMixed(a, g)'
    BY <2>1, <2>2, <1>14 DEF Spoiled
  <2>3. CASE (Among(g, fMap[a])' \/ Among(g, sending[a])') /\ ~ Whole(a, g)'
    <3>1. Among(g, group) \/ Among(g, t)
      BY <2>3, <1>1, <1>5 DEF Among
    <3>2. Among(g, w) \/ g = c
      BY <3>1, <1>3, <1>15
    <3>3. CASE Whole(a, g)
      <4>1. g # c
        BY <2>3, <3>3, <1>17
      <4>2. ~ Among(g, w)
        BY <2>1, <3>3, <4>1, <1>3, <1>7 DEF At, WholeFits
      <4> QED
        BY <3>2, <4>1, <4>2
    <3>4. CASE ~ Whole(a, g)
      BY <2>1, <3>2, <3>4, <1>3 DEF Spoiled
    <3> QED
      BY <3>3, <3>4
  <2> QED
    BY <2>0, <2>2, <2>3
<1>20. Missing(a)' <= Missing(a) /\ Missing(a)' \in Nat
  BY <1>7, <1>13
<1>21. Fewer(a)'
  BY <1>1, <1>7, <1>19, <1>20, FewerKept DEF At
<1> QED
  BY <1>1, <1>11, <1>18, <1>21 DEF At

LEMMA LeaveKeeps ==
    ASSUME LossInv, NEW a \in HitAddresses, Sent(a), lost' = lost,
           Solved(a) \/ Drops(a), Complete(Append(fMap[a], Head(sending[a])))
    PROVE  At(a)'
<1> DEFINE frag == Head(sending[a])
           t == Tail(sending[a])
           w == fMap[a]
           group == Append(w, frag)
           c == started[a]
<1>1. /\ SentOne(a)' /\ LostBefore(a)' /\ sending'[a] = t
      /\ \A g : Lossless(a, g)' <=> Lossless(a, g)
      /\ OfAddress(a, lost)' = OfAddress(a, lost)
  BY ReceiveSends
<1>2. sending[a] # <<>>
  BY DEF Sent
<1>3. /\ frag \in FragmentsOf(a) /\ frag.pileUp = c
      /\ Charges(t) \in Nat /\ Len(t) \in Nat
      /\ t # <<>> => Charges(t) < 2 * Len(t)
      /\ t = <<>> => Charges(t) = 0 /\ Len(t) = 0
      /\ \A g : Among(g, sending[a]) <=> g = c
      /\ \A g : Among(g, t) => g = c
  BY <1>2, LossInvAt, SentIs DEF At
<1>4. /\ Charges(group) \in Nat /\ Len(group) \in Nat
      /\ Surplus(a) = (Charges(group) + Charges(t) + 1) - 2 * (Len(group) + Len(t))
  BY <1>2, SurplusWhenSent
<1>5. Charges(group) = 2 * Len(group) - 1
  BY DEF Complete
<1>6. FragmentInv /\ Numbered /\ At(a) /\ Missing(a) \in Nat
      /\ IsFiniteSet(OfAddress(a, lost))
  BY LossInvAt, SurplusIs
<1>7. w \in Seq(FragmentsOf(a)) /\ Range(group) = Range(w) \cup {frag}
  BY <1>2, <1>6, GroupIs
<1>8. fMap'[a] = <<>>
  BY DEF Solved, Drops, LossInv, FragmentInv, FragmentTyped
<1>9. \A g : (\A f \in Range(group) : f.pileUp = g) /\ Whole(a, g)
                => ~ TornOrMixed(a, g)'
  BY <1>2, <1>6, LeavesWhole
<1>10. \A g : frag.pileUp = g => ~ Whole(a, g)'
  BY <1>2, <1>6, LeavesWhole
<1>11. ASSUME NEW g, \A f \in Range(group) : f.pileUp # g
       PROVE  TornOrMixed(a, g)' <=> TornOrMixed(a, g)
  BY <1>2, <1>6, <1>11, LeavesElsewhere
<1> HIDE DEF frag, t, group
<1>12. NotComplete(a)'
  BY <1>8, NoCharges DEF NotComplete
<1>13. \A g : (Among(g, fMap[a])' <=> FALSE) /\ (Among(g, sending[a])' <=> Among(g, t))
  BY <1>1, <1>8 DEF Among
<1>14. WholeFits(a)'
  <2> SUFFICES ASSUME NEW g \in 1 .. PileUpBound, Lossless(a, g)', Whole(a, g)'
               PROVE  /\ Among(g, sending[a])' => Surplus(a)' = 0
                      /\ ~ Among(g, sending[a])' => ~ Among(g, fMap[a])'
    BY DEF WholeFits
  <2>1. g # c
    BY <1>3, <1>10
  <2> QED
    BY <2>1, <1>3, <1>13
<1>15. Missing(a)' = 0
  <2>1. CASE t = <<>>
    BY <2>1, <1>1, <1>8 DEF Missing
  <2>2. CASE t # <<>>
    <3>1. Surplus(a)' = (0 + Charges(t) + 1) - 2 * (0 + Len(t))
      BY <1>1, <1>8, NoCharges DEF Surplus
    <3>2. Surplus(a)' <= 0 /\ Surplus(a)' \in Int
      <4> DEFINE x == Charges(t)
                 d == Len(t)
      <4>1. x \in Nat /\ d \in Nat /\ x < 2 * d /\ Surplus(a)' = (0 + x + 1) - 2 * (0 + d)
        BY <2>2, <3>1, <1>3
      <4> HIDE DEF x, d
      <4> QED
        BY <4>1
    <3> QED
      BY <3>2 DEF Missing
  <2> QED
    BY <2>1, <2>2
\* While a whole pile-up is sent, the group that is complete is the last.
<1>16. Surplus(a) = 0 => t = <<>>
  <2> SUFFICES ASSUME Surplus(a) = 0, t # <<>> PROVE FALSE
    OBVIOUS
  <2> DEFINE x == Charges(t)
             d == Len(t)
             y == Charges(group)
             e == Len(group)
  <2>1. /\ x \in Nat /\ d \in Nat /\ y \in Nat /\ e \in Nat
        /\ x < 2 * d /\ y = 2 * e - 1 /\ (y + x + 1) - 2 * (e + d) = 0
    BY <1>3, <1>4, <1>5
  <2> HIDE DEF x, d, y, e
  <2> QED
    BY <2>1
<1>17. Spoiled(a)' \subseteq Spoiled(a)
  <2> SUFFICES ASSUME NEW g \in Spoiled(a)' PROVE g \in Spoiled(a)
    OBVIOUS
  <2>0. /\ g \in 1 .. PileUpBound /\ Lossless(a, g)'
        /\ \/ TornOrMixed(a, g)'
           \/ (Among(g, fMap[a])' \/ Among(g, sending[a])') /\ ~ Whole(a, g)'
    BY DEF Spoiled
  <2>1. Lossless(a, g) /\ g \in 1 .. PileUpBound
    BY <2>0, <1>1
  <2>2. CASE ~ TornOrMixed(a, g)'
    <3>1. Among(g, t)
      BY <2>0, <2>2, <1>13
    <3>2. g = c /\ Among(g, sending[a]) /\ t # <<>>
      <4>1. Among(g, t) => t # <<>>
        BY DEF Among
      <4> QED
        BY <3>1, <4>1, <1>3
    <3>3. ~ Whole(a, g)
      BY <2>1, <3>2, <1>6, <1>16 DEF At, WholeFits
    <3> QED
      BY <2>1, <3>2, <3>3 DEF Spoiled
  <2>3. CASE TornOrMixed(a, g)'
    <3>1. CASE TornOrMixed(a, g)
      BY <2>1, <3>1 DEF Spoiled
    <3>2. CASE ~ TornOrMixed(a, g)
      <4>1. PICK f \in Range(group) : f.pileUp = g
        BY <2>3, <3>2, <1>11
      <4>2. Among(g, w) \/ g = c
        BY <4>1, <1>3, <1>7 DEF Among, Range
      <4>3. CASE Whole(a, g)
        <5>1. g = c
          BY <2>1, <4>2, <4>3, <1>3, <1>6 DEF At, WholeFits
        <5>2. \A e \in Range(w) : e.pileUp = g
          BY <4>3 DEF Whole, Range
        <5>3. \A e \in Range(group) : e.pileUp = g
          BY <5>1, <5>2, <1>3, <1>7
        <5> QED
          BY <2>3, <4>3, <5>3, <1>9
      <4>4. CASE ~ Whole(a, g)
        BY <2>1, <4>2, <4>4, <1>3 DEF Spoiled
      <4> QED
        BY <4>3, <4>4
    <3> QED
      BY <3>1, <3>2
  <2> QED
    BY <2>2, <2>3
<1>18. Missing(a)' <= Missing(a) /\ Missing(a)' \in Nat
  BY <1>6, <1>15
<1>19. Fewer(a)'
  BY <1>1, <1>6, <1>17, <1>18, FewerKept DEF At
<1> QED
  BY <1>1, <1>12, <1>14, <1>19 DEF At

\* What is received of one address is nothing to the others.
LEMMA ReceiveElsewhere ==
    ASSUME LossInv, NEW a \in HitAddresses, Sent(a), lost' = lost,
           Waits(a) \/ Solved(a) \/ Drops(a), NEW b \in HitAddresses, b # a
    PROVE  At(b)'
<1>1. sending[a] # <<>> /\ sending'[b] = sending[b] /\ started'[b] = started[b]
  BY DEF Sent, LossInv, FragmentInv, FragmentTyped
<1>2. fMap'[b] = fMap[b]
  BY DEF Waits, Solved, Drops, LossInv, FragmentInv, FragmentTyped
<1>3. FragmentInv /\ Numbered /\ At(b)
  BY LossInvAt
<1>4. ASSUME NEW g
      PROVE  /\ OwnGood(b, g)' = OwnGood(b, g) /\ OwnBad(b, g)' = OwnBad(b, g)
             /\ TornOrMixed(b, g)' <=> TornOrMixed(b, g)
  <2>1. CASE Waits(a)
    BY <2>1 DEF Waits, OwnGood, OwnBad, Of, TornOrMixed
  <2>2. CASE Solved(a) \/ Drops(a)
    <3> DEFINE group == Append(fMap[a], Head(sending[a]))
    <3>1. group \in Seq(FragmentsOf(a))
      BY <1>1, <1>3, GroupIs
    <3>2. \A f \in Range(group) : f.address # b
      <4> HIDE DEF group
      <4>1. \A f \in Range(group) : f \in FragmentsOf(a)
        BY <3>1 DEF Range
      <4> QED
        BY <4>1, FragmentIsOfAddress
    <3> QED
      BY <1>1, <1>3, <2>2, <3>2, LeavesElsewhere
  <2> QED
    BY <2>1, <2>2
<1> QED
  BY <1>1, <1>2, <1>3, <1>4, AddressUnchanged DEF At

LEMMA LoseKeeps ==
    ASSUME LossInv, NEW a \in HitAddresses, Lose(a)
    PROVE  At(a)'
<1> DEFINE frag == Head(sending[a])
           t == Tail(sending[a])
           c == started[a]
           L == OfAddress(a, lost)
<1>1. /\ sending[a] # <<>> /\ sending' = [sending EXCEPT ![a] = t] /\ started' = started
      /\ lost' = lost \cup {frag} /\ fMap' = fMap /\ goodOutput' = goodOutput
      /\ badOutput' = badOutput /\ refused' = refused
  BY DEF Lose, Sent
<1>2. sending'[a] = t /\ started'[a] = c
  BY <1>1 DEF LossInv, FragmentInv, FragmentTyped
<1>3. FragmentInv /\ At(a) /\ Missing(a) \in Nat /\ IsFiniteSet(L) /\ c \in Nat
      /\ Surplus(a) \in Int
  BY LossInvAt, SurplusIs
<1>4. /\ frag \in FragmentsOf(a) /\ frag.pileUp = c
      /\ Len(frag.integrals) \in Nat \ {0}
      /\ Charges(t) \in Nat /\ Len(t) \in Nat
      /\ Charges(sending[a]) = Len(frag.integrals) + Charges(t)
      /\ Len(sending[a]) = Len(t) + 1
      /\ FewIntegrals(t)
      /\ \A i \in DOMAIN t : t[i].pileUp = c /\ Len(t[i].integrals) > 0
      /\ \A g : Among(g, sending[a]) <=> g = c
      /\ \A g : Among(g, t) => g = c
      /\ frag \notin lost
      /\ AllBefore(OfAddress(a, lost \cup {frag}), t)
  BY <1>1, <1>3, SentIs DEF At
<1>5. Charges(fMap[a]) \in Nat /\ Len(fMap[a]) \in Nat
  BY <1>3, SurplusIs DEF FragmentInv
<1> HIDE DEF t, frag
<1>6. frag.address = a
  BY <1>4, FragmentIsOfAddress
<1>7. OfAddress(a, lost') = L \cup {frag} /\ frag \notin L
  BY <1>1, <1>4, <1>6 DEF OfAddress
<1>8. SentOne(a)'
  BY <1>2, <1>3, <1>4 DEF At, SentOne
<1>9. LostBefore(a)'
  <2>1. AllBefore(OfAddress(a, lost'), t)
    BY <1>1, <1>4
  <2>2. \A f \in OfAddress(a, lost') : f.pileUp \in Nat /\ f.pileUp <= c
    BY <1>3, <1>4, <1>7 DEF At, LostBefore
  <2> QED
    BY <2>1, <2>2, <1>2 DEF LostBefore
<1>10. NotComplete(a)'
  BY <1>1, <1>3 DEF At, NotComplete
<1>11. \A g : /\ Whole(a, g)' <=> Whole(a, g)
              /\ TornOrMixed(a, g)' <=> TornOrMixed(a, g)
              /\ Among(g, fMap[a])' <=> Among(g, fMap[a])
              /\ Among(g, sending[a])' <=> Among(g, t)
  BY <1>1, <1>2 DEF Whole, OwnGood, OwnBad, Of, TornOrMixed, Among
<1>12. ASSUME NEW g, Lossless(a, g)' PROVE Lossless(a, g) /\ g # c
  <2>1. Of(a, g, lost') = {}
    BY <1>12 DEF Lossless
  <2>2. Of(a, g, lost) = {}
    BY <2>1, <1>1 DEF Of
  <2>3. frag \in Of(a, c, lost')
    BY <1>1, <1>4, <1>6 DEF Of
  <2> QED
    BY <2>1, <2>2, <2>3 DEF Lossless
<1>13. WholeFits(a)'
  <2> SUFFICES ASSUME NEW g \in 1 .. PileUpBound, Lossless(a, g)', Whole(a, g)'
               PROVE  /\ Among(g, sending[a])' => Surplus(a)' = 0
                      /\ ~ Among(g, sending[a])' => ~ Among(g, fMap[a])'
    BY DEF WholeFits
  <2>1. Lossless(a, g) /\ Whole(a, g) /\ g # c
    BY <1>11, <1>12
  <2>2. ~ Among(g, sending[a]) /\ ~ Among(g, t)
    BY <2>1, <1>4
  <2>3. ~ Among(g, fMap[a])
    BY <2>1, <2>2, <1>3 DEF At, WholeFits
  <2> QED
    BY <2>2, <2>3, <1>11
<1>14. Spoiled(a)' \subseteq Spoiled(a)
  <2> SUFFICES ASSUME NEW g \in Spoiled(a)' PROVE g \in Spoiled(a)
    OBVIOUS
  <2>1. /\ g \in 1 .. PileUpBound /\ Lossless(a, g)'
        /\ \/ TornOrMixed(a, g)'
           \/ (Among(g, fMap[a])' \/ Among(g, sending[a])') /\ ~ Whole(a, g)'
    BY DEF Spoiled
  <2>2. Lossless(a, g) /\ (Among(g, t) => Among(g, sending[a]))
    BY <2>1, <1>4, <1>12
  <2> QED
    BY <2>1, <2>2, <1>11 DEF Spoiled
<1>15. Missing(a)' \in Nat /\ Missing(a)' <= Missing(a) + 1
  <2> DEFINE b == Charges(fMap[a])
             m == Len(fMap[a])
             x == Charges(t)
             d == Len(t)
             h == Len(frag.integrals)
             u == Surplus(a)
             v == (b + x + 1) - 2 * (m + d)
  <2>1. Surplus(a)' = v
    BY <1>1, <1>2 DEF Surplus
  <2>2. u = (b + (h + x) + 1) - 2 * (m + (d + 1))
    BY <1>4 DEF Surplus
  <2>3. b \in Nat /\ m \in Nat /\ x \in Nat /\ d \in Nat /\ h \in Nat \ {0}
    BY <1>4, <1>5
  <2>4. u \in Int
    BY <1>3
  <2>5. Missing(a) = IF u < 0 THEN 0 ELSE u
    BY <1>1 DEF Missing
  <2>6. Missing(a)' = 0 \/ (~ (v < 0) /\ Missing(a)' = v)
    BY <2>1 DEF Missing
  <2> HIDE DEF b, m, x, d, h, u
  <2>7. v \in Int /\ v <= u + 1
    BY <2>2, <2>3, <2>4
  <2> HIDE DEF v
  <2>8. Missing(a) >= u /\ Missing(a) \in Nat
    BY <2>4, <2>5
  <2> QED
    BY <2>4, <2>6, <2>7, <2>8
<1>16. Fewer(a)'
  <2> DEFINE n == Cardinality(Spoiled(a))
             m == Cardinality(Spoiled(a)')
             k == Cardinality(L)
  <2>1. m <= n /\ IsFiniteSet(Spoiled(a)')
    BY <1>14, SpoiledIsFinite
  <2>2. n \in Nat /\ m \in Nat /\ k \in Nat
    BY <2>1, <1>3, SpoiledIsFinite, FS_CardinalityType
  <2>3. Cardinality(OfAddress(a, lost')) = k + 1
    BY <1>3, <1>7, FS_AddElement
  <2>4. n + Missing(a) <= k
    BY <1>3 DEF At, Fewer
  <2>5. Fewer(a)' <=> m + Missing(a)' <= Cardinality(OfAddress(a, lost'))
    BY DEF Fewer, OfAddress
  <2> HIDE DEF n, m, k
  <2>6. m + Missing(a)' <= k + 1
    BY <2>1, <2>2, <2>4, <1>3, <1>15
  <2> QED
    BY <2>3, <2>5, <2>6
<1> QED
  BY <1>8, <1>9, <1>10, <1>13, <1>16 DEF At

LEMMA LoseElsewhere ==
    ASSUME LossInv, NEW a \in HitAddresses, Lose(a), NEW b \in HitAddresses, b # a
    PROVE  At(b)'
<1>1. /\ sending[a] # <<>> /\ sending' = [sending EXCEPT ![a] = Tail(sending[a])]
      /\ started' = started
      /\ lost' = lost \cup {Head(sending[a])} /\ fMap' = fMap /\ goodOutput' = goodOutput
      /\ badOutput' = badOutput /\ refused' = refused
  BY DEF Lose, Sent
<1>2. sending'[b] = sending[b]
  BY <1>1 DEF LossInv, FragmentInv, FragmentTyped
<1>3. At(b) /\ FragmentInv
  BY LossInvAt
<1>4. Head(sending[a]).address = a
  BY <1>1, <1>3, FirstSent, FragmentIsOfAddress
<1>5. OfAddress(b, lost') = OfAddress(b, lost)
  BY <1>1, <1>4 DEF OfAddress
<1>6. \A g : /\ OwnGood(b, g)' = OwnGood(b, g) /\ OwnBad(b, g)' = OwnBad(b, g)
             /\ TornOrMixed(b, g)' <=> TornOrMixed(b, g)
  BY <1>1 DEF OwnGood, OwnBad, Of, TornOrMixed
<1> QED
  BY <1>1, <1>2, <1>3, <1>5, <1>6, AddressUnchanged DEF At

\* Nothing of a pile-up that has not begun is anywhere.
LEMMA NotBegun ==
    ASSUME FragmentInv, NEW a \in HitAddresses, NEW g \in Nat, g > started[a]
    PROVE  OwnGood(a, g) = {} /\ OwnBad(a, g) = {} /\ ~ Among(g, fMap[a])
<1>1. started[a] \in Nat /\ fMap[a] \in Seq(FragmentsOf(a))
  BY DEF FragmentInv, FragmentTyped
<1>2. ASSUME NEW f \in received, f.address = a PROVE f.pileUp # g
  <2>1. f \in OfAddress(a, received) /\ f \in AllFragments
    BY <1>2 DEF OfAddress, FragmentInv, FragmentTyped
  <2>2. f.pileUp <= started[a] /\ f.pileUp \in Nat
    BY <2>1 DEF FragmentInv, Sending, AllFragments
  <2> QED
    BY <2>2, <1>1
<1>3. Waiting \subseteq received /\ Range(Good) \subseteq received
      /\ Range(badOutput) \cup refused \subseteq received
  BY DEF FragmentInv, EveryFragmentOnce
<1>4. \A i \in DOMAIN goodOutput : goodOutput[i][1] \in Range(Good)
  BY DEF Range, Good
<1>5. OwnGood(a, g) = {}
  BY <1>2, <1>3, <1>4 DEF OwnGood
<1>6. OwnBad(a, g) = {}
  BY <1>2, <1>3 DEF OwnBad, Of
<1>7. \A i \in DOMAIN fMap[a] : fMap[a][i] \in Waiting
  BY DEF Waiting, Range
<1>8. \A i \in DOMAIN fMap[a] : fMap[a][i].address = a
  BY <1>1, FragmentIsOfAddress
<1>9. ~ Among(g, fMap[a])
  BY <1>2, <1>3, <1>7, <1>8 DEF Among
<1> QED
  BY <1>5, <1>6, <1>9

LEMMA PileUpKeeps ==
    ASSUME LossInv, NEW a \in HitAddresses, NEW p \in PileUps, PileUp(a, p)
    PROVE  At(a)'
<1> DEFINE c == started[a]
           g0 == c + 1
           s == [i \in DOMAIN p |-> Fragment(a, g0, i, p[i])]
           w == fMap[a]
<1>1. /\ sending[a] = <<>> /\ c < PileUpBound
      /\ started' = [started EXCEPT ![a] = g0] /\ sending' = [sending EXCEPT ![a] = s]
      /\ fMap' = fMap /\ goodOutput' = goodOutput /\ badOutput' = badOutput
      /\ refused' = refused /\ received' = received /\ lost' = lost
  BY DEF PileUp
<1>2. sending'[a] = s /\ started'[a] = g0
  BY <1>1 DEF LossInv, FragmentInv, FragmentTyped
<1>3. /\ FragmentInv /\ At(a) /\ Missing(a) \in Nat /\ IsFiniteSet(OfAddress(a, lost))
      /\ c \in Nat /\ Surplus(a) \in Int
      /\ Charges(w) \in Nat /\ Len(w) \in Nat /\ Charges(w) >= 2 * Len(w)
      /\ w \in Seq(FragmentsOf(a))
  BY LossInvAt, SurplusIs DEF At, NotComplete, FragmentTyped
<1>4. g0 \in Nat /\ g0 > c /\ g0 \in 1 .. PileUpBound /\ g0 <= PileUpBound
  BY <1>1, <1>3, FragmentAssumption
<1> HIDE DEF g0
<1>5. /\ s \in Seq(FragmentsOf(a)) /\ s # <<>> /\ Len(s) \in Nat \ {0}
      /\ \A i \in DOMAIN s : s[i].pileUp = g0 /\ Len(s[i].integrals) > 0
      /\ FewIntegrals(s) /\ Charges(s) = 2 * Len(s) - 1
  <2>1. g0 \in Nat /\ s = [i \in DOMAIN p |-> Fragment(a, g0, i, p[i])]
    BY <1>4
  <2> HIDE DEF s
  <2> QED
    BY <2>1, PileUpIs
<1> HIDE DEF s
<1>6. OwnGood(a, g0) = {} /\ OwnBad(a, g0) = {} /\ ~ Among(g0, w)
  BY <1>3, <1>4, NotBegun
<1>7. \A g : Among(g, s) <=> g = g0
  <2>1. 1 \in DOMAIN s
    BY <1>5
  <2> QED
    BY <2>1, <1>5 DEF Among
<1> HIDE DEF w
<1>8. SentOne(a)'
  BY <1>2, <1>4, <1>5 DEF SentOne
<1>9. LostBefore(a)'
  <2>1. \A f \in OfAddress(a, lost) : f.pileUp \in Nat /\ f.pileUp <= c
    BY <1>3 DEF At, LostBefore
  <2>2. \A f \in OfAddress(a, lost) : f.pileUp \in Nat /\ f.pileUp < g0 /\ f.pileUp <= g0
    BY <2>1, <1>3, <1>4
  <2>3. AllBefore(OfAddress(a, lost), s)
    BY <2>2, <1>5 DEF AllBefore, Before
  <2>4. OfAddress(a, lost') = OfAddress(a, lost)
    BY <1>1
  <2> QED
    BY <2>2, <2>3, <2>4, <1>2 DEF LostBefore
<1>10. NotComplete(a)'
  BY <1>1, <1>3 DEF At, NotComplete
<1>11. /\ \A g : /\ Whole(a, g)' <=> Whole(a, g)
                 /\ TornOrMixed(a, g)' <=> TornOrMixed(a, g)
                 /\ Lossless(a, g)' <=> Lossless(a, g)
                 /\ Among(g, fMap[a])' <=> Among(g, w)
                 /\ Among(g, sending[a])' <=> g = g0
       /\ \A g : ~ Among(g, sending[a])
  BY <1>1, <1>2, <1>7 DEF Whole, OwnGood, OwnBad, Of, TornOrMixed, Among, Lossless, w
<1>12. ~ TornOrMixed(a, g0)
  <2>1. GroupsOf(a, g0) = {}
    BY <1>6 DEF GroupsOf
  <2> QED
    BY <2>1, <1>6, TornOrMixedIs, FS_EmptySet
<1>13. w # <<>> => ~ Whole(a, g0)
  <2>1. w # <<>> => 1 \in DOMAIN w
    BY <1>3
  <2> QED
    BY <2>1, <1>6 DEF Whole, Among, w
<1>14. w = <<>> => Whole(a, g0)
  BY <1>6 DEF Whole, w
<1>15. Surplus(a)' \in Int /\ Surplus(a)' = Charges(w) - 2 * Len(w)
  <2> DEFINE b == Charges(w)
             m == Len(w)
             x == Charges(s)
             d == Len(s)
  <2>1. Surplus(a)' = (b + x + 1) - 2 * (m + d)
    BY <1>1, <1>2 DEF Surplus, w
  <2>2. b \in Nat /\ m \in Nat /\ d \in Nat /\ x = 2 * d - 1
    BY <1>3, <1>5
  <2> HIDE DEF b, m, x, d
  <2>3. Surplus(a)' = b - 2 * m /\ b - 2 * m \in Int
    BY <2>1, <2>2
  <2> QED
    BY <2>3 DEF b, m
<1>16. w = <<>> => Surplus(a)' = 0
  BY <1>15, NoCharges
<1>17. WholeFits(a)'
  <2> SUFFICES ASSUME NEW g \in 1 .. PileUpBound, Lossless(a, g)', Whole(a, g)'
               PROVE  /\ Among(g, sending[a])' => Surplus(a)' = 0
                      /\ ~ Among(g, sending[a])' => ~ Among(g, fMap[a])'
    BY DEF WholeFits
  <2>1. CASE g = g0
    BY <2>1, <1>11, <1>13, <1>16
  <2>2. CASE g # g0
    <3>1. ~ Among(g, w)
      BY <1>3, <1>11 DEF At, WholeFits, w
    <3> QED
      BY <2>2, <3>1, <1>11
  <2> QED
    BY <2>1, <2>2
<1>18. ASSUME NEW g \in Spoiled(a)' PROVE g \in Spoiled(a) \/ (g = g0 /\ w # <<>>)
  <2>1. /\ g \in 1 .. PileUpBound /\ Lossless(a, g)'
        /\ \/ TornOrMixed(a, g)'
           \/ (Among(g, fMap[a])' \/ Among(g, sending[a])') /\ ~ Whole(a, g)'
    BY DEF Spoiled
  <2>2. CASE g # g0
    BY <2>1, <2>2, <1>11 DEF Spoiled, w
  <2>3. CASE g = g0
    BY <2>1, <2>3, <1>11, <1>12, <1>14
  <2> QED
    BY <2>2, <2>3
<1>19. CASE w = <<>>
  <2>1. Missing(a)' = 0
    BY <1>16, <1>19 DEF Missing
  <2>2. Spoiled(a)' \subseteq Spoiled(a)
    BY <1>18, <1>19
  <2>3. Missing(a)' <= Missing(a) /\ Missing(a)' \in Nat
    BY <2>1, <1>3
  <2>4. OfAddress(a, lost)' = OfAddress(a, lost)
    BY <1>1
  <2>5. Fewer(a)'
    BY <2>2, <2>3, <2>4, <1>3, FewerKept DEF At
  <2> QED
    BY <2>5, <1>8, <1>9, <1>10, <1>17 DEF At
<1>20. CASE w # <<>>
  <2>1. Missing(a)' \in Nat /\ Missing(a)' + 1 = Missing(a)
    <3> DEFINE b == Charges(w)
               m == Len(w)
    <3>1. Surplus(a) = (b + 0 + 1) - 2 * (m + 0)
      BY <1>1, NoCharges DEF Surplus, w
    <3>2. b \in Nat /\ m \in Nat /\ b >= 2 * m /\ Surplus(a)' = b - 2 * m
      BY <1>3, <1>15
    <3> HIDE DEF b, m
    <3>3. Surplus(a)' \in Nat /\ Surplus(a) = Surplus(a)' + 1
      BY <3>1, <3>2
    <3>4. Missing(a) = Surplus(a)
      BY <3>3, <1>20 DEF Missing, w
    <3>5. Missing(a)' = Surplus(a)'
      <4>1. fMap'[a] # <<>>
        BY <1>1, <1>20 DEF w
      <4>2. ~ (Surplus(a)' < 0)
        BY <3>3
      <4> QED
        BY <4>1, <4>2 DEF Missing
    <3> QED
      BY <3>3, <3>4, <3>5
  <2> DEFINE S == Spoiled(a) \cup {g0}
             n == Cardinality(Spoiled(a))
             m == Cardinality(Spoiled(a)')
             k == Cardinality(OfAddress(a, lost))
  <2>2. Spoiled(a)' \subseteq S
    BY <1>18
  <2>3. IsFiniteSet(S) /\ Cardinality(S) \in Nat /\ Cardinality(S) <= n + 1
        /\ n \in Nat
    <3>1. IsFiniteSet(Spoiled(a)) /\ n \in Nat
      BY SpoiledIsFinite
    <3>2. IsFiniteSet(S)
          /\ Cardinality(S) = IF g0 \in Spoiled(a) THEN n ELSE n + 1
      BY <3>1, FS_AddElement
    <3> QED
      BY <3>1, <3>2
  <2>4. IsFiniteSet(Spoiled(a)') /\ m <= Cardinality(S)
    BY <2>2, <2>3, FS_Subset
  <2>5. m \in Nat /\ k \in Nat
    BY <2>4, <1>3, FS_CardinalityType
  <2>6. n + Missing(a) <= k
    BY <1>3 DEF At, Fewer
  <2>7. Fewer(a)' <=> m + Missing(a)' <= k
    BY <1>1 DEF Fewer
  <2> HIDE DEF S, n, m, k
  <2>8. m + Missing(a)' <= k
    <3>1. m <= n + 1
      BY <2>3, <2>4, <2>5
    <3> QED
      BY <3>1, <2>1, <2>3, <2>5, <2>6
  <2> QED
    BY <2>7, <2>8, <1>8, <1>9, <1>10, <1>17 DEF At
<1> QED
  BY <1>19, <1>20

LEMMA PileUpElsewhere ==
    ASSUME LossInv, NEW a \in HitAddresses, NEW p \in PileUps, PileUp(a, p),
           NEW b \in HitAddresses, b # a
    PROVE  At(b)'
<1>1. /\ DOMAIN sending = HitAddresses /\ started \in [HitAddresses -> Nat]
      /\ fMap' = fMap /\ goodOutput' = goodOutput /\ badOutput' = badOutput
      /\ refused' = refused /\ lost' = lost
  BY DEF PileUp, LossInv, FragmentInv, FragmentTyped
<1>2. sending'[b] = sending[b] /\ started'[b] = started[b]
  BY <1>1 DEF PileUp
<1>3. At(b)
  BY LossInvAt
<1>4. \A g : /\ OwnGood(b, g)' = OwnGood(b, g) /\ OwnBad(b, g)' = OwnBad(b, g)
             /\ TornOrMixed(b, g)' <=> TornOrMixed(b, g)
  BY <1>1 DEF OwnGood, OwnBad, Of, TornOrMixed
<1> QED
  BY <1>1, <1>2, <1>3, <1>4, AddressUnchanged DEF At

-----------------------------------------------------------------------------
LEMMA LossInitInv == FragmentInit => LossInv
<1> SUFFICES ASSUME FragmentInit PROVE LossInv
  OBVIOUS
<1>1. /\ fMap = [a \in HitAddresses |-> <<>>] /\ sending = [a \in HitAddresses |-> <<>>]
      /\ started = [a \in HitAddresses |-> 0] /\ lost = {}
      /\ goodOutput = <<>> /\ badOutput = <<>> /\ received = {} /\ refused = {}
  BY DEF FragmentInit
<1>2. FragmentInv
  BY FragmentInitInv
<1>3. Numbered /\ IsFiniteSet(lost)
  BY <1>1, FS_EmptySet DEF Numbered
<1>4. ASSUME NEW a \in HitAddresses PROVE At(a)
  <2>1. fMap[a] = <<>> /\ sending[a] = <<>> /\ started[a] = 0
    BY <1>1
  <2>2. SentOne(a)
    BY <2>1, FragmentAssumption DEF SentOne, FewIntegrals
  <2>3. LostBefore(a)
    BY <1>1 DEF LostBefore, AllBefore, OfAddress
  <2>4. NotComplete(a)
    BY <2>1, NoCharges DEF NotComplete
  <2>5. \A g : ~ Among(g, fMap[a]) /\ ~ Among(g, sending[a])
    BY <2>1 DEF Among
  <2>6. WholeFits(a)
    BY <2>5 DEF WholeFits
  <2>7. \A g : ~ TornOrMixed(a, g)
    <3> TAKE g
    <3>1. OwnGood(a, g) = {} /\ DOMAIN goodOutput = {}
      BY <1>1 DEF OwnGood
    <3>2. GroupsOf(a, g) = {}
      BY <3>1 DEF GroupsOf
    <3> QED
      BY <3>1, <3>2, TornOrMixedIs, FS_EmptySet
  <2>8. Spoiled(a) = {} /\ Missing(a) = 0 /\ OfAddress(a, lost) = {}
    BY <1>1, <2>1, <2>5, <2>7 DEF Spoiled, Missing, OfAddress
  <2>9. Fewer(a)
    BY <2>8, FS_EmptySet DEF Fewer
  <2> QED
    BY <2>2, <2>3, <2>4, <2>6, <2>9 DEF At
<1> QED
  BY <1>2, <1>3, <1>4 DEF LossInv, At

LEMMA LossNext ==
    ASSUME LossInv, FragmentNext, FragmentInv' PROVE LossInv'
<1>1. PICK a \in HitAddresses : (\E p \in PileUps : PileUp(a, p)) \/ Receive(a) \/ Lose(a)
  BY DEF FragmentNext
<1>2. CASE \E p \in PileUps : PileUp(a, p)
  <2>1. PICK p \in PileUps : PileUp(a, p)
    BY <1>2
  <2>2. \A b \in HitAddresses : At(b)'
    BY <2>1, PileUpKeeps, PileUpElsewhere
  <2>3. goodOutput' = goodOutput /\ lost' = lost
    BY <2>1 DEF PileUp
  <2>4. Numbered' /\ IsFiniteSet(lost)'
    BY <2>3 DEF LossInv, Numbered
  <2> QED
    BY <2>2, <2>4 DEF LossInv, At
<1>3. CASE Lose(a)
  <2>1. \A b \in HitAddresses : At(b)'
    BY <1>3, LoseKeeps, LoseElsewhere
  <2>2. goodOutput' = goodOutput /\ lost' = lost \cup {Head(sending[a])}
    BY <1>3 DEF Lose
  <2>3. IsFiniteSet(lost')
    BY <2>2, FS_AddElement DEF LossInv
  <2>4. Numbered' /\ IsFiniteSet(lost)'
    BY <2>2, <2>3 DEF LossInv, Numbered
  <2> QED
    BY <2>1, <2>4 DEF LossInv, At
<1>4. CASE Receive(a)
  <2> DEFINE group == Append(fMap[a], Head(sending[a]))
  <2>1. Sent(a) /\ Add(Head(sending[a])) /\ lost' = lost /\ sending[a] # <<>>
    BY <1>4 DEF Receive, Sent
  <2>2. FragmentInv /\ Numbered /\ FragmentTyped
    BY DEF LossInv, FragmentInv
  <2>3. \/ Waits(a) /\ ~ Complete(group)
        \/ (Solved(a) \/ Drops(a)) /\ Complete(group)
    BY <2>1, <2>2, AddIs
  <2>4. At(a)'
    BY <2>1, <2>3, WaitKeeps, LeaveKeeps
  <2>5. \A b \in HitAddresses : b # a => At(b)'
    BY <2>1, <2>3, ReceiveElsewhere
  <2>6. Numbered'
    <3>1. CASE Solved(a)
      <4>1. group \in Seq(AllFragments)
        BY <2>1, <2>2, GroupIs
      <4>2. PushGroup(group)
        BY <3>1 DEF Solved
      <4> HIDE DEF group
      <4> QED
        BY <4>1, <4>2, <2>2, NumberedKept
    <3>2. CASE Waits(a) \/ Drops(a)
      BY <3>2, <2>2 DEF Waits, Drops, Numbered
    <3> QED
      BY <2>3, <3>1, <3>2
  <2>7. IsFiniteSet(lost)'
    BY <2>1 DEF LossInv
  <2> QED
    BY <2>4, <2>5, <2>6, <2>7 DEF LossInv, At
<1> QED
  BY <1>1, <1>2, <1>3, <1>4

LEMMA LossAlways == FragmentSpec => []LossInv
<1>1. LossInv /\ FragmentInv' /\ [FragmentNext]_fragmentVars => LossInv'
  <2> SUFFICES ASSUME LossInv, FragmentInv', [FragmentNext]_fragmentVars PROVE LossInv'
    OBVIOUS
  <2>1. CASE FragmentNext
    BY <2>1, LossNext
  <2>2. CASE UNCHANGED fragmentVars
    <3>1. /\ fMap' = fMap /\ goodOutput' = goodOutput /\ badOutput' = badOutput
          /\ refused' = refused /\ sending' = sending /\ started' = started /\ lost' = lost
      BY <2>2 DEF fragmentVars
    <3>2. \A b \in HitAddresses : At(b)'
      <4> TAKE b \in HitAddresses
      <4>1. At(b)
        BY LossInvAt
      <4>2. \A g : /\ OwnGood(b, g)' = OwnGood(b, g) /\ OwnBad(b, g)' = OwnBad(b, g)
                   /\ TornOrMixed(b, g)' <=> TornOrMixed(b, g)
        BY <3>1 DEF OwnGood, OwnBad, Of, TornOrMixed
      <4> QED
        BY <3>1, <4>1, <4>2, AddressUnchanged DEF At
    <3>3. Numbered' /\ IsFiniteSet(lost)'
      BY <3>1 DEF LossInv, Numbered
    <3> QED
      BY <3>2, <3>3 DEF LossInv, At
  <2> QED
    BY <2>1, <2>2
<1> QED
  BY <1>1, FragmentAlways, LossInitInv, PTL DEF FragmentSpec

LEMMA SpoiledByLoss == LossInv => SpoiledOnlyByLoss
<1> SUFFICES ASSUME LossInv, NEW a \in HitAddresses
             PROVE  Cardinality({g \in 1 .. PileUpBound :
                                    TornOrMixed(a, g) /\ Of(a, g, lost) = {}})
                        <= Cardinality({f \in lost : f.address = a})
  BY DEF SpoiledOnlyByLoss
<1> DEFINE T == {g \in 1 .. PileUpBound : TornOrMixed(a, g) /\ Of(a, g, lost) = {}}
           k == Cardinality(OfAddress(a, lost))
           n == Cardinality(Spoiled(a))
<1>1. T \in SUBSET Spoiled(a)
  BY DEF Spoiled, Lossless
<1>2. IsFiniteSet(T) /\ Cardinality(T) <= n /\ n \in Nat
  BY <1>1, SpoiledIsFinite
<1>3. Cardinality(T) \in Nat /\ k \in Nat
  BY <1>2, LossInvAt, FS_CardinalityType
<1>4. n + Missing(a) <= k /\ Missing(a) \in Nat
  BY LossInvAt, SurplusIs DEF At, Fewer
<1> HIDE DEF T, k, n
<1>5. Cardinality(T) <= k
  BY <1>2, <1>3, <1>4
<1> QED
  BY <1>5 DEF T, k, OfAddress

\* Whatever is lost, every lost fragment spoils one pile-up besides its own at
\* most, however long the pile-ups are: what waits has at most one integral too
\* many for each lost fragment, and each pile-up it swallows takes one of them.
THEOREM SpoiledFew == FragmentSpec => []SpoiledOnlyByLoss
  BY LossAlways, SpoiledByLoss, PTL

-----------------------------------------------------------------------------
(* The charges of a pile-up                                                *)

LEMMA ProductOf ==
    ASSUME NEW k \in Nat \ {0}, NEW l \in Nat \ {0}
    PROVE  k * l \in Nat \ {0}
  OBVIOUS

\* The weighted differences of two hits, and those of three: polynomials that
\* are zero whatever the charges and the lengths.
LEMMA PairIsMinimum ==
    ASSUME NEW q0 \in Int, NEW q1 \in Int, NEW q2 \in Int,
           NEW c0 \in Int, NEW c1 \in Int, NEW c2 \in Int,
           NEW d, d = q0*q1 + q0*q2 + q1*q2,
           NEW x0, x0 = c0*(q0*q1 + q0*q2) + (c1 - c2)*q1*q2,
           NEW x1, x1 = c2*(q0*q2 + q1*q2) + (c1 - c0)*q0*q1
    PROVE  /\ q0*(c0*d - x0) + q1*(c1*d - (x0 + x1)) = 0
           /\ q1*(c1*d - (x0 + x1)) + q2*(c2*d - x1) = 0
  OBVIOUS

LEMMA ThirdWithSecondIsMinimum ==
    ASSUME NEW q0 \in Int, NEW q1 \in Int, NEW q2 \in Int, NEW q3 \in Int, NEW q4 \in Int,
           NEW c0 \in Int, NEW c1 \in Int, NEW c2 \in Int, NEW c3 \in Int, NEW c4 \in Int,
           NEW d, d = q0*q1*q3 + q0*q1*q4 + q0*q2*q3 + q0*q2*q4 + q0*q3*q4
                        + q1*q2*q3 + q1*q2*q4 + q1*q3*q4,
           NEW x0, x0 = c0*(q0*q1*q3 + q0*q1*q4 + q0*q2*q3 + q0*q2*q4 + q0*q3*q4)
                          + c1*(q1*q2*q3 + q1*q2*q4 + q1*q3*q4)
                          - c2*(q1*q2*q3 + q1*q2*q4)
                          - (c3 - c4)*(q1*q3*q4),
           NEW x1, x1 = (c1 - c0)*(q0*q1*q3 + q0*q1*q4)
                          + c2*(q0*q2*q3 + q0*q2*q4 + q1*q2*q3 + q1*q2*q4)
                          + (c3 - c4)*(q0*q3*q4 + q1*q3*q4),
           NEW x2, x2 = (c0 - c1)*(q0*q1*q3) - c2*(q0*q2*q3 + q1*q2*q3)
                          + c3*(q0*q1*q3 + q0*q2*q3 + q1*q2*q3)
                          + c4*(q0*q1*q4 + q0*q2*q4 + q0*q3*q4 + q1*q2*q4 + q1*q3*q4)
    PROVE  /\ q0*(c0*d - x0) + q1*(c1*d - (x0 + x1)) = 0
           /\ q1*(c1*d - (x0 + x1)) + q2*(c2*d - x1) + q3*(c3*d - (x1 + x2)) = 0
           /\ q3*(c3*d - (x1 + x2)) + q4*(c4*d - x2) = 0
<1>1. q0*(c0*d - x0) + q1*(c1*d - (x0 + x1)) = 0
  OBVIOUS
<1>2. q1*(c1*d - (x0 + x1)) + q2*(c2*d - x1) + q3*(c3*d - (x1 + x2)) = 0
  OBVIOUS
<1>3. q3*(c3*d - (x1 + x2)) + q4*(c4*d - x2) = 0
  OBVIOUS
<1> QED
  BY <1>1, <1>2, <1>3

SolveInv ==
    /\ situation \in SolvedSituations
    /\ charges \in [Integrals(situation) -> Int]
    /\ kValues \in [Integrals(situation) -> Nat \ {0}]
    /\ solution # <<>> => solution = Solve(situation, charges,
                             [i \in DOMAIN kValues |-> kValues[i] * kValues[i]])

LEMMA SolveInvHolds == SolveSpec => []SolveInv
<1>1. SolveInit => SolveInv
  BY SolveAssumption DEF SolveInit, SolveInv
<1>2. SolveInv /\ [SolveNext]_solveVars => SolveInv'
  BY DEF SolveInv, SolveNext, solveVars
<1> QED
  BY <1>1, <1>2, PTL DEF SolveSpec

\* The sums of the model, one window and one hit at a time.
LEMMA WindowSums ==
    ASSUME NEW charge, \A h \in 0 .. 1 : charge[h] \in Int
    PROVE  /\ SumOver({0}, charge) = charge[0]
           /\ SumOver({0, 1}, charge) = charge[0] + charge[1]
           /\ SumOver({1}, charge) = charge[1]
  BY DEF SumOver

LEMMA LaterWindowSums ==
    ASSUME NEW charge, \A h \in 0 .. 2 : charge[h] \in Int
    PROVE  /\ SumOver({1, 2}, charge) = charge[1] + charge[2]
           /\ SumOver({2}, charge) = charge[2]
  BY DEF SumOver

\* In both situations whose formulas are right the charges that Solve finds
\* make the weighted squares of the differences to the integrals a minimum,
\* for all charges and all integration lengths: each derivative is zero.
THEOREM ChargesMinimise ==
    ASSUME "bothWithFirst" \notin SolvedSituations
    PROVE  SolveSpec => []SolveMinimises
<1>1. ASSUME SolveInv, solution # <<>>
      PROVE  /\ solution.denominator > 0
             /\ \A h \in Hits(situation) :
                   SumOver({i \in Integrals(situation) : h \in Window(situation, i)},
                           [i \in Integrals(situation) |-> Excess(i)]) = 0
  <2> DEFINE q == [i \in DOMAIN kValues |-> kValues[i] * kValues[i]]
             c == charges
             x == solution.charge
             d == solution.denominator
             W(i) == SumOver(Window(situation, i), solution.charge)
             D == [i \in Integrals(situation) |-> Excess(i)]
             S(h) == {i \in Integrals(situation) : h \in Window(situation, i)}
  <2>1. situation \in {"pair", "thirdWithSecond"}
    BY <1>1, SolveAssumption DEF SolveInv, Situations
  <2>2. solution = Solve(situation, c, q)
    BY <1>1 DEF SolveInv
  <2>3. ASSUME NEW i \in Integrals(situation)
        PROVE  c[i] \in Int /\ q[i] = kValues[i] * kValues[i] /\ q[i] \in Nat \ {0}
               /\ kValues[i] \in Int
    <3>1. kValues[i] \in Nat \ {0} /\ i \in DOMAIN kValues /\ c[i] \in Int
      BY <1>1 DEF SolveInv
    <3> QED
      BY <3>1, ProductOf
  <2>4. CASE situation = "pair"
    <3>1. /\ q[0] \in Nat \ {0} /\ q[1] \in Nat \ {0} /\ q[2] \in Nat \ {0}
          /\ c[0] \in Int /\ c[1] \in Int /\ c[2] \in Int
      BY <2>3, <2>4 DEF Integrals
    <3> HIDE DEF q, c
    <3>2. /\ d = q[0]*q[1] + q[0]*q[2] + q[1]*q[2]
          /\ x[0] = c[0]*(q[0]*q[1] + q[0]*q[2]) + (c[1] - c[2])*q[1]*q[2]
          /\ x[1] = c[2]*(q[0]*q[2] + q[1]*q[2]) + (c[1] - c[0])*q[0]*q[1]
      BY <2>2, <2>4 DEF Solve, Pair
    <3>3. q[0]*q[1] \in Nat \ {0} /\ q[0]*q[2] \in Nat \ {0} /\ q[1]*q[2] \in Nat \ {0}
      BY <3>1, ProductOf
    <3>4. d > 0 /\ d \in Int /\ x[0] \in Int /\ x[1] \in Int
      BY <3>1, <3>2, <3>3
    <3>5. /\ W(0) = x[0] /\ W(1) = x[0] + x[1] /\ W(2) = x[1]
      <4>1. \A h \in 0 .. 1 : x[h] \in Int
        BY <3>4
      <4>2. Window(situation, 0) = {0} /\ Window(situation, 1) = {0, 1}
            /\ Window(situation, 2) = {1}
        BY <2>4 DEF Window
      <4> QED
        BY <4>1, <4>2, WindowSums
    <3>6. S(0) = {0, 1} /\ S(1) = {1, 2}
      BY <2>4 DEF Integrals, Window
    <3> HIDE DEF d, x, W
    <3>7. /\ D[0] = q[0] * (c[0]*d - x[0]) /\ D[1] = q[1] * (c[1]*d - (x[0] + x[1]))
          /\ D[2] = q[2] * (c[2]*d - x[1])
          /\ D[0] \in Int /\ D[1] \in Int /\ D[2] \in Int
      <4>1. kValues[0]*kValues[0] = q[0] /\ kValues[1]*kValues[1] = q[1]
            /\ kValues[2]*kValues[2] = q[2]
        BY <2>3, <2>4 DEF Integrals
      <4> QED
        BY <2>4, <4>1, <3>1, <3>4, <3>5 DEF c, d, x, W, Excess, Integrals
    <3>8. D[0] + D[1] = 0 /\ D[1] + D[2] = 0
      <4> DEFINE q0 == q[0]
                 q1 == q[1]
                 q2 == q[2]
                 c0 == c[0]
                 c1 == c[1]
                 c2 == c[2]
                 x0 == x[0]
                 x1 == x[1]
      <4>1. /\ q0 \in Int /\ q1 \in Int /\ q2 \in Int
            /\ c0 \in Int /\ c1 \in Int /\ c2 \in Int
            /\ d = q0*q1 + q0*q2 + q1*q2
            /\ x0 = c0*(q0*q1 + q0*q2) + (c1 - c2)*q1*q2
            /\ x1 = c2*(q0*q2 + q1*q2) + (c1 - c0)*q0*q1
        BY <3>1, <3>2
      <4>2. /\ D[0] = q0 * (c0*d - x0) /\ D[1] = q1 * (c1*d - (x0 + x1))
            /\ D[2] = q2 * (c2*d - x1)
        BY <3>7
      <4> HIDE DEF q0, q1, q2, c0, c1, c2, x0, x1
      <4>3. /\ q0*(c0*d - x0) + q1*(c1*d - (x0 + x1)) = 0
            /\ q1*(c1*d - (x0 + x1)) + q2*(c2*d - x1) = 0
        BY <4>1, PairIsMinimum
      <4> QED
        BY <4>2, <4>3
    <3> HIDE DEF D
    <3>9. SumOver({0, 1}, D) = 0 /\ SumOver({1, 2}, D) = 0
      BY <3>7, <3>8 DEF SumOver
    <3>10. \A h \in Hits(situation) : SumOver(S(h), D) = 0
      <4>1. \A h \in Hits(situation) : h = 0 \/ h = 1
        BY <2>4 DEF Hits
      <4> HIDE DEF S
      <4> QED
        BY <4>1, <3>6, <3>9
    <3> QED
      BY <3>4, <3>10 DEF D, S, d
  <2>5. CASE situation = "thirdWithSecond"
    <3> DEFINE p(i, j, k) == q[i]*q[j]*q[k]
    <3>1. \A i \in 0 .. 4 : q[i] \in Nat \ {0} /\ c[i] \in Int /\ kValues[i]*kValues[i] = q[i]
      BY <2>3, <2>5 DEF Integrals
    <3> HIDE DEF q, c
    <3>2. /\ d = p(0,1,3) + p(0,1,4) + p(0,2,3) + p(0,2,4) + p(0,3,4)
                   + p(1,2,3) + p(1,2,4) + p(1,3,4)
          /\ x[0] = c[0]*(p(0,1,3) + p(0,1,4) + p(0,2,3) + p(0,2,4) + p(0,3,4))
                      + c[1]*(p(1,2,3) + p(1,2,4) + p(1,3,4))
                      - c[2]*(p(1,2,3) + p(1,2,4))
                      - (c[3] - c[4])*p(1,3,4)
          /\ x[1] = (c[1] - c[0])*(p(0,1,3) + p(0,1,4))
                      + c[2]*(p(0,2,3) + p(0,2,4) + p(1,2,3) + p(1,2,4))
                      + (c[3] - c[4])*(p(0,3,4) + p(1,3,4))
          /\ x[2] = (c[0] - c[1])*p(0,1,3) - c[2]*(p(0,2,3) + p(1,2,3))
                      + c[3]*(p(0,1,3) + p(0,2,3) + p(1,2,3))
                      + c[4]*(p(0,1,4) + p(0,2,4) + p(0,3,4) + p(1,2,4) + p(1,3,4))
      <4>1. solution = ThirdWithSecond(c, q)
        BY <2>2, <2>5 DEF Solve
      <4>2. d = p(0,1,3) + p(0,1,4) + p(0,2,3) + p(0,2,4) + p(0,3,4)
                  + p(1,2,3) + p(1,2,4) + p(1,3,4)
        BY <4>1 DEF ThirdWithSecond
      <4>3. x[0] = c[0]*(p(0,1,3) + p(0,1,4) + p(0,2,3) + p(0,2,4) + p(0,3,4))
                     + c[1]*(p(1,2,3) + p(1,2,4) + p(1,3,4))
                     - c[2]*(p(1,2,3) + p(1,2,4))
                     - (c[3] - c[4])*p(1,3,4)
        BY <4>1 DEF ThirdWithSecond
      <4>4. x[1] = (c[1] - c[0])*(p(0,1,3) + p(0,1,4))
                     + c[2]*(p(0,2,3) + p(0,2,4) + p(1,2,3) + p(1,2,4))
                     + (c[3] - c[4])*(p(0,3,4) + p(1,3,4))
        BY <4>1 DEF ThirdWithSecond
      <4>5. x[2] = (c[0] - c[1])*p(0,1,3) - c[2]*(p(0,2,3) + p(1,2,3))
                     + c[3]*(p(0,1,3) + p(0,2,3) + p(1,2,3))
                     + c[4]*(p(0,1,4) + p(0,2,4) + p(0,3,4) + p(1,2,4) + p(1,3,4))
        BY <4>1 DEF ThirdWithSecond
      <4> HIDE DEF d, x, p
      <4> QED
        BY <4>2, <4>3, <4>4, <4>5
    <3>3. \A i, j, k \in 0 .. 4 : p(i, j, k) \in Nat \ {0}
      BY <3>1, ProductOf
    <3> HIDE DEF p
    <3>4. d > 0 /\ d \in Int /\ \A h \in 0 .. 2 : x[h] \in Int
      <4>1. /\ p(0,1,3) \in Nat \ {0} /\ p(0,1,4) \in Nat \ {0} /\ p(0,2,3) \in Nat \ {0}
            /\ p(0,2,4) \in Nat \ {0} /\ p(0,3,4) \in Nat \ {0} /\ p(1,2,3) \in Nat \ {0}
            /\ p(1,2,4) \in Nat \ {0} /\ p(1,3,4) \in Nat \ {0}
        BY <3>3
      <4>2. /\ c[0] \in Int /\ c[1] \in Int /\ c[2] \in Int /\ c[3] \in Int /\ c[4] \in Int
        BY <3>1
      <4>3. d > 0 /\ d \in Int
        BY <4>1, <3>2
      <4>4. x[0] \in Int
        BY <4>1, <4>2, <3>2
      <4>5. x[1] \in Int
        BY <4>1, <4>2, <3>2
      <4>6. x[2] \in Int
        BY <4>1, <4>2, <3>2
      <4> QED
        BY <4>3, <4>4, <4>5, <4>6
    <3>5. /\ W(0) = x[0] /\ W(1) = x[0] + x[1] /\ W(2) = x[1]
          /\ W(3) = x[1] + x[2] /\ W(4) = x[2]
      <4>1. /\ Window(situation, 0) = {0} /\ Window(situation, 1) = {0, 1}
            /\ Window(situation, 2) = {1} /\ Window(situation, 3) = {1, 2}
            /\ Window(situation, 4) = {2}
        BY <2>5 DEF Window
      <4>2. \A h \in 0 .. 1 : x[h] \in Int
        BY <3>4
      <4> HIDE DEF x
      <4>3. /\ SumOver({0}, x) = x[0] /\ SumOver({0, 1}, x) = x[0] + x[1]
            /\ SumOver({1}, x) = x[1]
        BY <4>2, WindowSums
      <4>4. SumOver({1, 2}, x) = x[1] + x[2] /\ SumOver({2}, x) = x[2]
        BY <3>4, LaterWindowSums
      <4> QED
        BY <4>1, <4>3, <4>4 DEF x
    <3>6. S(0) = {0, 1} /\ S(1) = {1, 2, 3} /\ S(2) = {3, 4}
      BY <2>5 DEF Integrals, Window
    <3> DEFINE q0 == q[0]
               q1 == q[1]
               q2 == q[2]
               q3 == q[3]
               q4 == q[4]
               c0 == c[0]
               c1 == c[1]
               c2 == c[2]
               c3 == c[3]
               c4 == c[4]
               x0 == x[0]
               x1 == x[1]
               x2 == x[2]
    <3>7. /\ D[0] = q0 * (c0*d - x0) /\ D[1] = q1 * (c1*d - (x0 + x1))
          /\ D[2] = q2 * (c2*d - x1) /\ D[3] = q3 * (c3*d - (x1 + x2))
          /\ D[4] = q4 * (c4*d - x2)
      <4>1. \A i \in 0 .. 4 : D[i] = q[i] * (c[i] * d - W(i))
        BY <2>5, <3>1 DEF c, Excess, Integrals
      <4> HIDE DEF d, x, D, W
      <4> QED
        BY <4>1, <3>5
    <3>8. /\ q0 \in Int /\ q1 \in Int /\ q2 \in Int /\ q3 \in Int /\ q4 \in Int
          /\ c0 \in Int /\ c1 \in Int /\ c2 \in Int /\ c3 \in Int /\ c4 \in Int
          /\ x0 \in Int /\ x1 \in Int /\ x2 \in Int /\ d \in Int
      BY <3>1, <3>4
    <3>9. /\ d = q0*q1*q3 + q0*q1*q4 + q0*q2*q3 + q0*q2*q4 + q0*q3*q4
                   + q1*q2*q3 + q1*q2*q4 + q1*q3*q4
          /\ x0 = c0*(q0*q1*q3 + q0*q1*q4 + q0*q2*q3 + q0*q2*q4 + q0*q3*q4)
                     + c1*(q1*q2*q3 + q1*q2*q4 + q1*q3*q4)
                     - c2*(q1*q2*q3 + q1*q2*q4)
                     - (c3 - c4)*(q1*q3*q4)
          /\ x1 = (c1 - c0)*(q0*q1*q3 + q0*q1*q4)
                     + c2*(q0*q2*q3 + q0*q2*q4 + q1*q2*q3 + q1*q2*q4)
                     + (c3 - c4)*(q0*q3*q4 + q1*q3*q4)
          /\ x2 = (c0 - c1)*(q0*q1*q3) - c2*(q0*q2*q3 + q1*q2*q3)
                     + c3*(q0*q1*q3 + q0*q2*q3 + q1*q2*q3)
                     + c4*(q0*q1*q4 + q0*q2*q4 + q0*q3*q4 + q1*q2*q4 + q1*q3*q4)
      BY <3>2 DEF p
    <3> HIDE DEF q0, q1, q2, q3, q4, c0, c1, c2, c3, c4, x0, x1, x2, d, x, D, S
    <3>10. /\ q0*(c0*d - x0) + q1*(c1*d - (x0 + x1)) = 0
           /\ q1*(c1*d - (x0 + x1)) + q2*(c2*d - x1) + q3*(c3*d - (x1 + x2)) = 0
           /\ q3*(c3*d - (x1 + x2)) + q4*(c4*d - x2) = 0
      BY <3>8, <3>9, ThirdWithSecondIsMinimum
    <3>11. D[0] \in Int /\ D[1] \in Int /\ D[2] \in Int /\ D[3] \in Int /\ D[4] \in Int
      BY <3>7, <3>8
    <3>12. D[0] + D[1] = 0 /\ D[1] + D[2] + D[3] = 0 /\ D[3] + D[4] = 0
      BY <3>7, <3>10
    <3>13. SumOver({0, 1}, D) = 0 /\ SumOver({1, 2, 3}, D) = 0 /\ SumOver({3, 4}, D) = 0
      <4>1. SumOver({0, 1}, D) = D[0] + D[1]
        BY <3>11 DEF SumOver
      <4>2. SumOver({1, 2, 3}, D) = D[1] + D[2] + D[3]
        BY <3>11 DEF SumOver
      <4>3. SumOver({3, 4}, D) = D[3] + D[4]
        BY <3>11 DEF SumOver
      <4> QED
        BY <3>12, <4>1, <4>2, <4>3
    <3>14. \A h \in Hits(situation) : SumOver(S(h), D) = 0
      <4>1. \A h \in Hits(situation) : h = 0 \/ h = 1 \/ h = 2
        BY <2>5 DEF Hits
      <4> QED
        BY <4>1, <3>6, <3>13
    <3> QED
      BY <3>4, <3>14 DEF D, S, d
  <2> QED
    BY <2>1, <2>4, <2>5
<1>2. SolveInv => SolveMinimises
  BY <1>1 DEF SolveMinimises
<1> QED
  BY <1>2, SolveInvHolds, PTL
=============================================================================
