---------------------------- MODULE PlayerProofs ----------------------------
(***************************************************************************)
(* Proofs about the parts of the web client through which a player gives   *)
(* orders: tax rates, gotos, worklists, the units that ask what to do, and *)
(* the treaties.                                                           *)
(*                                                                         *)
(* Lists are filtered and folded by recursive functions; what those        *)
(* compute is found by induction over their length, stated on sets.        *)
(***************************************************************************)
EXTENDS Rates, Goto, Worklist, UnitDecision, Diplomacy, FiniteSetTheorems,
        FunctionTheorems, WellFoundedInduction, TLAPS

-----------------------------------------------------------------------------
(***************************************************************************)
(* Induction, and the elements of a list that a loop collects              *)
(***************************************************************************)

LEMMA LeastNat == ASSUME NEW T \in SUBSET Nat, T # {} PROVE \E m \in T : \A k \in T : m <= k
<1> DEFINE R == OpToRel(<, Nat)
<1>1. IsWellFoundedOn(R, Nat)
  BY NatLessThanWellFounded
<1>2. \A x, y \in Nat : x < y => <<x, y>> \in R
  BY DEF OpToRel
<1> HIDE DEF R
<1>3. PICK m \in T : \A k \in T : ~ (<<k, m>> \in R)
  BY <1>1, WFMin
<1>4. ASSUME NEW k \in T PROVE m <= k
  <2>1. ~(k < m)
    BY <1>2, <1>3
  <2> QED BY <2>1
<1> QED BY <1>4

LEMMA Induct ==
  ASSUME NEW T, 0 \in T, \A n \in Nat : n \in T => n + 1 \in T
  PROVE  Nat \subseteq T
<1> SUFFICES ASSUME Nat \ T # {} PROVE FALSE
  OBVIOUS
<1>1. PICK m \in Nat \ T : \A k \in Nat \ T : m <= k
  BY LeastNat
<1>2. m # 0 /\ m - 1 \in Nat /\ m - 1 \in T
  BY <1>1
<1> QED BY <1>1, <1>2

ThoseStep(s, G, f, i) == IF s[i] \in G THEN Append(f[i - 1], s[i]) ELSE f[i - 1]

ThoseUpto(f, s, G, n) ==
  f = [i \in 0..n |-> IF i = 0 THEN <<>>
        ELSE IF s[i] \in G THEN Append(f[i - 1], s[i]) ELSE f[i - 1]]

LEMMA ThoseExtends ==
  ASSUME NEW s, NEW G, NEW n \in Nat, NEW f, ThoseUpto(f, s, G, n)
  PROVE  \E h : ThoseUpto(h, s, G, n + 1)
<1> DEFINE v == IF s[n + 1] \in G THEN Append(f[n], s[n + 1]) ELSE f[n]
           h == [i \in 0..(n + 1) |-> IF i = n + 1 THEN v ELSE f[i]]
<1>1. ASSUME NEW i \in 0..(n + 1)
      PROVE  h[i] = IF i = 0 THEN <<>>
                    ELSE IF s[i] \in G THEN Append(h[i - 1], s[i]) ELSE h[i - 1]
  <2>1. CASE i = n + 1
    BY <2>1
  <2>2. CASE i \in 0..n
    <3>1. f[i] = IF i = 0 THEN <<>>
                 ELSE IF s[i] \in G THEN Append(f[i - 1], s[i]) ELSE f[i - 1]
      BY <2>2 DEF ThoseUpto
    <3> QED BY <2>2, <3>1
  <2> QED BY <2>1, <2>2
<1> HIDE DEF v
<1>2. ThoseUpto(h, s, G, n + 1)
  BY <1>1 DEF ThoseUpto
<1> HIDE DEF h
<1> QED BY <1>2

LEMMA ThoseFcnExists ==
  ASSUME NEW s, NEW G, NEW n \in Nat
  PROVE  \E f : ThoseUpto(f, s, G, n)
<1> DEFINE T == {k \in Nat : \E f : ThoseUpto(f, s, G, k)}
<1>1. 0 \in T
  <2> DEFINE h == [i \in 0..0 |-> <<>>]
  <2>1. ThoseUpto(h, s, G, 0)
    BY DEF ThoseUpto
  <2> HIDE DEF h
  <2> QED BY <2>1
<1>2. ASSUME NEW k \in Nat, k \in T PROVE k + 1 \in T
  <2>1. \E h : ThoseUpto(h, s, G, k + 1)
    BY <1>2, ThoseExtends
  <2> QED BY <2>1
<1>3. Nat \subseteq T
  <2> HIDE DEF T
  <2> QED BY <1>1, <1>2, Induct
<1> QED BY <1>3

LEMMA ThoseIs ==
  ASSUME NEW s, NEW G, Len(s) \in Nat
  PROVE  \E f : ThoseUpto(f, s, G, Len(s)) /\ Those(s, G) = f[Len(s)]
<1> DEFINE f == CHOOSE f : ThoseUpto(f, s, G, Len(s))
<1>1. ThoseUpto(f, s, G, Len(s))
  BY ThoseFcnExists
<1>2. Those(s, G) = f[Len(s)]
  BY DEF Those, ThoseUpto
<1> HIDE DEF f
<1> QED BY <1>1, <1>2

\* q holds the elements of s up to n that are in G, in their order.
Picked(q, s, G, n) ==
  /\ \E h \in [1..Len(q) -> 1..n] :
       /\ \A i, j \in 1..Len(q) : i < j => h[i] < h[j]
       /\ \A i \in 1..Len(q) : q[i] = s[h[i]]
  /\ \A i \in 1..n : s[i] \in G => \E j \in 1..Len(q) : q[j] = s[i]
  /\ \A j \in 1..Len(q) : q[j] \in G

LEMMA ThosePicks ==
  ASSUME NEW S, NEW s \in Seq(S), NEW G
  PROVE  Those(s, G) \in Seq(S) /\ Len(Those(s, G)) <= Len(s) /\ Picked(Those(s, G), s, G, Len(s))
<1>1. PICK f : ThoseUpto(f, s, G, Len(s)) /\ Those(s, G) = f[Len(s)]
  BY ThoseIs
<1> DEFINE T == {n \in Nat : n <= Len(s) => 
                    f[n] \in Seq(S) /\ Len(f[n]) <= n /\ Picked(f[n], s, G, n)}
<1>2. 0 \in T
  <2>1. f[0] = <<>>
    BY <1>1 DEF ThoseUpto
  <2>2. Picked(<<>>, s, G, 0)
    <3> DEFINE h == [i \in 1..0 |-> 1]
    <3>1. 1..0 = {} /\ Len(<<>>) = 0
      OBVIOUS
    <3>2. h \in [1..0 -> 1..0]
      BY <3>1
    <3>3. \A i, j \in 1..0 : i < j => h[i] < h[j]
      BY <3>1
    <3>4. \A i \in 1..0 : <<>>[i] = s[h[i]]
      BY <3>1
    <3> HIDE DEF h
    <3> QED BY <3>1, <3>2, <3>3, <3>4 DEF Picked
  <2>3. <<>> \in Seq(S) /\ Len(<<>>) = 0 /\ 0 \in Nat
    OBVIOUS
  <2> DEFINE e == f[0]
  <2>4. e \in Seq(S) /\ Len(e) = 0 /\ Picked(e, s, G, 0)
    BY <2>1, <2>2, <2>3
  <2> HIDE DEF e
  <2>5. Len(e) <= 0
    BY <2>4
  <2> QED BY <2>4, <2>5 DEF e
<1>3. ASSUME NEW n \in Nat, n \in T PROVE n + 1 \in T
  <2> SUFFICES ASSUME n + 1 <= Len(s)
               PROVE  f[n + 1] \in Seq(S) /\ Len(f[n + 1]) <= n + 1 /\ Picked(f[n + 1], s, G, n + 1)
    OBVIOUS
  <2> DEFINE q == f[n]
             x == s[n + 1]
             r == f[n + 1]
  <2>1. q \in Seq(S) /\ Len(q) <= n /\ Picked(q, s, G, n) /\ x \in S
    BY <1>3
  <2>2. r = IF x \in G THEN Append(q, x) ELSE q
    <3>1. n + 1 \in 0..Len(s) /\ n + 1 # 0 /\ (n + 1) - 1 = n
      OBVIOUS
    <3>2. f[n + 1] = IF s[n + 1] \in G THEN Append(f[(n + 1) - 1], s[n + 1])
                     ELSE f[(n + 1) - 1]
      BY <1>1, <3>1 DEF ThoseUpto
    <3> QED BY <3>1, <3>2
  <2>3. n + 1 \in Nat /\ x = s[n + 1]
    OBVIOUS
  <2> HIDE DEF q, x, r
  <2>4. CASE x \in G
    <3>1. r \in Seq(S) /\ Len(r) = Len(q) + 1 /\ r[Len(q) + 1] = x
          /\ \A i \in 1..Len(q) : r[i] = q[i]
      BY <2>1, <2>2, <2>4
    <3>2. Len(q) \in Nat
      BY <2>1
    <3>3. PICK h \in [1..Len(q) -> 1..n] :
                 /\ \A i, j \in 1..Len(q) : i < j => h[i] < h[j]
                 /\ \A i \in 1..Len(q) : q[i] = s[h[i]]
      BY <2>1 DEF Picked
    <3> DEFINE k == [i \in 1..Len(r) |-> IF i = Len(q) + 1 THEN n + 1 ELSE h[i]]
    <3>4. k \in [1..Len(r) -> 1..(n + 1)]
      BY <3>1, <3>2, <3>3
    <3>5. \A i, j \in 1..Len(r) : i < j => k[i] < k[j]
      <4> SUFFICES ASSUME NEW i \in 1..Len(r), NEW j \in 1..Len(r), i < j PROVE k[i] < k[j]
        OBVIOUS
      <4>1. i \in 1..Len(q) /\ k[i] = h[i] /\ h[i] \in 1..n
        BY <3>1, <3>2, <3>3
      <4>2. CASE j = Len(q) + 1
        BY <3>1, <3>2, <4>1, <4>2
      <4>3. CASE j \in 1..Len(q)
        BY <3>1, <3>2, <3>3, <4>1, <4>3
      <4> QED BY <3>1, <3>2, <4>2, <4>3, SMTT(60)
    <3>6. \A i \in 1..Len(r) : r[i] = s[k[i]]
      BY <3>1, <3>2, <3>3, <2>3
    <3>7. \A i \in 1..(n + 1) : s[i] \in G => \E j \in 1..Len(r) : r[j] = s[i]
      <4> SUFFICES ASSUME NEW i \in 1..(n + 1), s[i] \in G PROVE \E j \in 1..Len(r) : r[j] = s[i]
        OBVIOUS
      <4>1. CASE i = n + 1
        BY <3>1, <3>2, <2>3, <4>1
      <4>2. CASE i \in 1..n
        <5>1. PICK j \in 1..Len(q) : q[j] = s[i]
          BY <2>1, <4>2 DEF Picked
        <5> QED BY <3>1, <3>2, <5>1
      <4> QED BY <4>1, <4>2
    <3>8. \A j \in 1..Len(r) : r[j] \in G
      BY <3>1, <3>2, <2>1, <2>4, SMTT(60) DEF Picked
    <3> HIDE DEF k
    <3>9. Picked(r, s, G, n + 1)
      BY <3>4, <3>5, <3>6, <3>7, <3>8 DEF Picked
    <3> QED BY <3>1, <3>9, <2>1 DEF r
  <2>5. CASE x \notin G
    <3>1. r = q
      BY <2>2, <2>5
    <3>2. PICK h \in [1..Len(q) -> 1..n] :
                 /\ \A i, j \in 1..Len(q) : i < j => h[i] < h[j]
                 /\ \A i \in 1..Len(q) : q[i] = s[h[i]]
      BY <2>1 DEF Picked
    <3>3. h \in [1..Len(q) -> 1..(n + 1)]
      BY <3>2
    <3>4. \A i \in 1..(n + 1) : s[i] \in G => i \in 1..n
      BY <2>3, <2>5
    <3>5. Picked(q, s, G, n + 1)
      BY <2>1, <3>2, <3>3, <3>4 DEF Picked
    <3> QED BY <2>1, <3>1, <3>5 DEF r
  <2> QED BY <2>4, <2>5
<1>4. Len(s) \in T
  <2> HIDE DEF T
  <2> QED BY <1>2, <1>3, Induct
<1> QED BY <1>1, <1>4

-----------------------------------------------------------------------------
(***************************************************************************)
(* Rates                                                                   *)
(***************************************************************************)

TensUpTo == {10 * i : i \in 0..10}

\* The sliders rest at multiples of ten, also where they do not add up.
Rested == slider \in [Rate -> TensUpTo]

RatesInv == RatesTypeOK /\ Rested /\ SentLegal

-----------------------------------------------------------------------------
(***************************************************************************)
(* Arithmetic of the sliders                                               *)
(***************************************************************************)

LEMMA MaxInTens == ASSUME NEW max \in MaxRates PROVE max \in TensUpTo /\ max \in 50..100
  BY Percentages DEF TensUpTo

\* A value is brought into the range, and stays a multiple of ten.
LEMMA RangeOfInt == ASSUME NEW v \in Int, NEW max \in MaxRates
                    PROVE  InRangeOf(v, max) \in 0..max
  BY MaxInTens DEF InRangeOf, Least, Most

LEMMA RangeOfTens == ASSUME NEW i \in Int, NEW max \in MaxRates
                     PROVE  InRangeOf(10 * i, max) \in TensUpTo
<1>1. PICK m \in 0..10 : max = 10 * m
  BY MaxInTens DEF TensUpTo
<1>2. InRangeOf(10 * i, max) \in {0, 10 * i, 10 * m}
  BY <1>1 DEF InRangeOf, Least, Most
<1>3. CASE InRangeOf(10 * i, max) = 10 * i
  <2>1. 10 * i \in 0..max
    BY <1>3, RangeOfInt
  <2>2. i \in 0..10
    BY <2>1, MaxInTens
  <2> QED BY <1>3, <2>2 DEF TensUpTo
<1>4. CASE InRangeOf(10 * i, max) = 0
  <2>1. 0 = 10 * 0 /\ 0 \in 0..10
    OBVIOUS
  <2> QED BY <1>4, <2>1 DEF TensUpTo
<1>5. CASE InRangeOf(10 * i, max) = 10 * m
  BY <1>5 DEF TensUpTo
<1> QED BY <1>2, <1>3, <1>4, <1>5

\* What the sum lacks is a multiple of ten.
LEMMA Missing == ASSUME NEW a \in TensUpTo, NEW b \in TensUpTo, NEW c \in Int,
                        NEW d \in TensUpTo, c = a + b + d
                 PROVE  \E i \in Int : 100 - c + a = 10 * i
<1>1. PICK y \in 0..10 : b = 10 * y
  BY DEF TensUpTo
<1>2. PICK z \in 0..10 : d = 10 * z
  BY DEF TensUpTo
<1>3. 100 - c + a = 10 * (10 - y - z) /\ 10 - y - z \in Int
  BY <1>1, <1>2 DEF TensUpTo
<1> QED BY <1>3

LEMMA RateNames == Rate = {"tax", "lux", "sci"}
  BY DEF Rate

\* Rates at rest within the maximum.
Resting(r) == r \in [Rate -> TensUpTo] /\ \A k \in Rate : r[k] <= maxrate

\* Rounding down.
LEMMA DownToTens == ASSUME NEW v \in 0..100
                    PROVE  v - (v % 10) \in TensUpTo /\ v - (v % 10) <= v
<1>1. v = 10 * (v \div 10) + (v % 10) /\ v % 10 \in 0..9 /\ v \div 10 \in 0..10
  OBVIOUS
<1>2. v - (v % 10) = 10 * (v \div 10)
  BY <1>1
<1> QED BY <1>1, <1>2 DEF TensUpTo

LEMMA TensRest == ASSUME NEW r \in Settings, maxrate \in MaxRates,
                         \A k \in Rate : r[k] <= maxrate
                  PROVE  Resting(Tens(r))
<1>1. ASSUME NEW k \in Rate
      PROVE  r[k] - (r[k] % 10) \in TensUpTo /\ r[k] - (r[k] % 10) <= maxrate
  <2>1. r[k] \in 0..100 /\ r[k] <= maxrate /\ maxrate \in Int
    BY MaxInTens DEF Settings
  <2>2. r[k] - (r[k] % 10) \in TensUpTo /\ r[k] - (r[k] % 10) <= r[k]
    BY <2>1, DownToTens
  <2> QED BY <2>1, <2>2 DEF TensUpTo
<1>2. Tens(r) \in [Rate -> TensUpTo]
  BY <1>1 DEF Tens
<1>3. \A k \in Rate : Tens(r)[k] <= maxrate
  BY <1>1 DEF Tens
<1> QED BY <1>2, <1>3 DEF Resting

\* One rate takes what the sum lacks: it stays at rest.
LEMMA TakenRests == ASSUME maxrate \in MaxRates, NEW r, Resting(r), NEW k \in Rate
                    PROVE  LET v == InRangeOf(100 - Total(r) + r[k], maxrate)
                           IN  v \in TensUpTo /\ v <= maxrate
<1>1. r["tax"] \in TensUpTo /\ r["lux"] \in TensUpTo /\ r["sci"] \in TensUpTo
  BY RateNames DEF Resting
<1>2. Total(r) \in Int
  BY <1>1 DEF Total, TensUpTo
<1>3. \E i \in Int : 100 - Total(r) + r[k] = 10 * i
  <2>1. CASE k = "tax"
    <3>1. Total(r) = r["tax"] + r["lux"] + r["sci"]
      BY DEF Total
    <3> QED BY <1>1, <1>2, <2>1, <3>1, Missing
  <2>2. CASE k = "lux"
    <3>1. Total(r) = r["lux"] + r["tax"] + r["sci"]
      BY <1>1 DEF Total, TensUpTo
    <3> QED BY <1>1, <1>2, <2>2, <3>1, Missing
  <2>3. CASE k = "sci"
    <3>1. Total(r) = r["sci"] + r["tax"] + r["lux"]
      BY <1>1 DEF Total, TensUpTo
    <3> QED BY <1>1, <1>2, <2>3, <3>1, Missing
  <2> QED BY <2>1, <2>2, <2>3, RateNames
<1>4. PICK i \in Int : 100 - Total(r) + r[k] = 10 * i
  BY <1>3
<1>5. InRangeOf(10 * i, maxrate) \in TensUpTo
  BY RangeOfTens
<1>6. InRangeOf(10 * i, maxrate) \in 0..maxrate
  BY RangeOfInt
<1> QED BY <1>4, <1>5, <1>6, MaxInTens

LEMMA AdjustRests == ASSUME maxrate \in MaxRates, NEW r, Resting(r), NEW k \in Rate
                     PROVE  Resting(Adjust(r, k))
<1> DEFINE v == InRangeOf(100 - Total(r) + r[k], maxrate)
<1>1. v \in TensUpTo /\ v <= maxrate
  BY TakenRests
<1> HIDE DEF v
<1>2. Resting([r EXCEPT ![k] = v])
  BY <1>1 DEF Resting
<1>3. Adjust(r, k) = r \/ Adjust(r, k) = [r EXCEPT ![k] = v]
  BY DEF Adjust, v
<1> QED BY <1>2, <1>3

\* Resting rates are what RatesTypeOK asks for.
LEMMA RestingType == ASSUME NEW r, Resting(r)
                     PROVE  /\ r \in Settings /\ r \in [Rate -> TensUpTo]
                            /\ \A k \in Rate : r[k] <= maxrate
<1>1. TensUpTo \subseteq 0..100
  BY DEF TensUpTo
<1> QED BY <1>1 DEF Resting, Settings

-----------------------------------------------------------------------------
(***************************************************************************)
(* The steps                                                               *)
(***************************************************************************)

LEMMA OpenedRests == ASSUME NEW max \in MaxRates, NEW m \in MaxRates, NEW r \in Legal(m)
                     PROVE  /\ Opened(r, max) \in [Rate -> TensUpTo]
                            /\ \A k \in Rate : Opened(r, max)[k] <= max
<1>1. ASSUME NEW k \in Rate
      PROVE  InRangeOf(r[k], max) \in TensUpTo /\ InRangeOf(r[k], max) <= max
  <2>1. PICK i \in 0..10 : r[k] = 10 * i
    BY DEF Legal, AddUp
  <2>2. i \in Int /\ 10 * i \in Int
    OBVIOUS
  <2>3. InRangeOf(10 * i, max) \in TensUpTo
    BY <2>2, RangeOfTens
  <2>4. InRangeOf(10 * i, max) \in 0..max
    BY <2>2, RangeOfInt
  <2> QED BY <2>1, <2>3, <2>4, MaxInTens
<1> QED BY <1>1 DEF Opened

LEMMA TensAreSettings == [Rate -> TensUpTo] \subseteq Settings
<1>1. TensUpTo \subseteq 0..100
  BY DEF TensUpTo
<1> QED BY <1>1 DEF Settings

LEMMA InitInv == Init_rates => RatesInv
<1> SUFFICES ASSUME Init_rates PROVE RatesInv
  OBVIOUS
<1>1. /\ maxrate \in MaxRates /\ lock = {} /\ offered = <<>>
      /\ \E r \in Legal(maxrate) : slider = Opened(r, maxrate)
  BY DEF Init_rates
<1>2. slider \in [Rate -> TensUpTo] /\ \A k \in Rate : slider[k] <= maxrate
  BY <1>1, OpenedRests
<1>3. slider \in Settings
  BY <1>2, TensAreSettings
<1> QED BY <1>1, <1>2, <1>3 DEF RatesInv, RatesTypeOK, Rested, SentLegal

\* Moving one slider: what adds up is at rest, and so is what does not.
LEMMA UpdateInv == ASSUME RatesInv, NEW k \in Rate, NEW moved \in Settings,
                          \A j \in Rate : moved[j] <= maxrate,
                          update_rates(moved, k), lock' = lock, maxrate' = maxrate
                   PROVE  RatesInv'
<1> DEFINE start == Tens(moved)
           one == Adjust(start, Others(k)[1])
           r == Adjust(one, Others(k)[2])
           back == InRangeOf(100 - r[Others(k)[1]] - r[Others(k)[2]], maxrate)
<1>1. maxrate \in MaxRates /\ lock \subseteq Rate
  BY DEF RatesInv, RatesTypeOK
<1>2. Others(k)[1] \in Rate /\ Others(k)[2] \in Rate
  BY RateNames DEF Others
<1>3. Resting(start)
  BY <1>1, TensRest
<1>4. Resting(one)
  BY <1>1, <1>2, <1>3, AdjustRests
<1>5. Resting(r)
  BY <1>1, <1>2, <1>4, AdjustRests
<1>6. back \in TensUpTo /\ back <= maxrate
  <2>1. PICK a \in 0..10 : r[Others(k)[1]] = 10 * a
    BY <1>2, <1>5 DEF Resting, TensUpTo
  <2>2. PICK b \in 0..10 : r[Others(k)[2]] = 10 * b
    BY <1>2, <1>5 DEF Resting, TensUpTo
  <2>3. 100 - r[Others(k)[1]] - r[Others(k)[2]] = 10 * (10 - a - b) /\ 10 - a - b \in Int
    BY <2>1, <2>2
  <2>4. back \in TensUpTo
    BY <1>1, <2>3, RangeOfTens
  <2>5. back \in 0..maxrate
    <3>1. 10 * (10 - a - b) \in Int
      BY <2>3
    <3> QED BY <1>1, <2>3, <3>1, RangeOfInt
  <2> QED BY <2>4, <2>5, <1>1, MaxInTens
<1>7. \/ slider' = [start EXCEPT ![k] = back] /\ offered' = offered
      \/ slider' = r /\ offered' = <<r>> /\ Total(r) = 100
  BY DEF update_rates
<1> HIDE DEF start, one, r, back
<1>8. CASE slider' = [start EXCEPT ![k] = back] /\ offered' = offered
  <2>1. Resting([start EXCEPT ![k] = back])
    BY <1>3, <1>6 DEF Resting
  <2>2. Legal(maxrate') = Legal(maxrate)
    OBVIOUS
  <2>3. /\ slider' \in Settings /\ slider' \in [Rate -> TensUpTo]
        /\ \A j \in Rate : slider'[j] <= maxrate
    BY <1>8, <2>1, RestingType
  <2>4. /\ offered' \in Seq(Settings) /\ Len(offered') <= 1
        /\ offered' # <<>> => Head(offered') \in Legal(maxrate')
    BY <1>8, <2>2 DEF RatesInv, RatesTypeOK, SentLegal
  <2> QED BY <1>1, <2>3, <2>4 DEF RatesInv, RatesTypeOK, Rested, SentLegal
<1>9. CASE slider' = r /\ offered' = <<r>> /\ Total(r) = 100
  <2>1. /\ r \in Settings /\ r \in [Rate -> TensUpTo] /\ \A j \in Rate : r[j] <= maxrate
    BY <1>5, RestingType
  <2>2. r \in Legal(maxrate)
    BY <1>9, <2>1 DEF Legal, AddUp, TensUpTo
  <2>3. <<r>> \in Seq(Settings) /\ Len(<<r>>) = 1 /\ Head(<<r>>) = r
    BY <2>1
  <2> QED BY <1>1, <1>9, <2>1, <2>2, <2>3 DEF RatesInv, RatesTypeOK, Rested, SentLegal
<1> QED BY <1>7, <1>8, <1>9

LEMMA SlideInv == RatesInv /\ Slide => RatesInv'
<1> SUFFICES ASSUME RatesInv, Slide PROVE RatesInv'
  OBVIOUS
<1>0. PICK k \in Rate : \E v \in Position \cup {slider[k] + 10, slider[k] - 10} :
        update_rates([slider EXCEPT ![k] = InRangeOf(v, maxrate)], k)
  BY DEF Slide
<1>1. PICK v \in Position \cup {slider[k] + 10, slider[k] - 10} :
        update_rates([slider EXCEPT ![k] = InRangeOf(v, maxrate)], k)
  BY <1>0
<1>2. lock' = lock /\ maxrate' = maxrate
  BY DEF Slide
<1>3. slider \in Settings /\ maxrate \in MaxRates /\ \A j \in Rate : slider[j] <= maxrate
  BY DEF RatesInv, RatesTypeOK
<1>4. v \in Int
  BY <1>3, Percentages DEF Settings
<1>5. InRangeOf(v, maxrate) \in 0..maxrate
  BY <1>3, <1>4, RangeOfInt
<1>6. InRangeOf(v, maxrate) \in 0..100 /\ InRangeOf(v, maxrate) <= maxrate
  BY <1>3, <1>5, MaxInTens
<1> DEFINE moved == [slider EXCEPT ![k] = InRangeOf(v, maxrate)]
<1>7. moved \in Settings /\ \A j \in Rate : moved[j] <= maxrate
  BY <1>3, <1>6 DEF Settings
<1>8. update_rates(moved, k)
  BY <1>1
<1> HIDE DEF moved
<1> QED BY <1>2, <1>7, <1>8, UpdateInv

LEMMA OtherInv == RatesInv /\ (Lock \/ show_tax_rates_dialog \/ UNCHANGED ratesVars) => RatesInv'
<1> SUFFICES ASSUME RatesInv, Lock \/ show_tax_rates_dialog \/ UNCHANGED ratesVars PROVE RatesInv'
  OBVIOUS
<1>1. CASE Lock
  <2>1. lock' \subseteq Rate
    BY <1>1 DEF Lock, RatesInv, RatesTypeOK
  <2>2. slider' = slider /\ maxrate' = maxrate /\ offered' = offered
    BY <1>1 DEF Lock
  <2> QED BY <2>1, <2>2 DEF RatesInv, RatesTypeOK, Rested, SentLegal, Legal
<1>2. CASE show_tax_rates_dialog
  <2>1. /\ maxrate' \in MaxRates /\ lock' = {} /\ offered' = <<>>
        /\ \E m \in MaxRates : \E r \in Legal(m) : slider' = Opened(r, maxrate')
    BY <1>2 DEF show_tax_rates_dialog, show_rates
  <2>2. slider' \in [Rate -> TensUpTo] /\ \A k \in Rate : slider'[k] <= maxrate'
    BY <2>1, OpenedRests
  <2>3. slider' \in Settings
    BY <2>2, TensAreSettings
  <2> QED BY <2>1, <2>2, <2>3 DEF RatesInv, RatesTypeOK, Rested, SentLegal
<1>3. CASE UNCHANGED ratesVars
  BY <1>3 DEF ratesVars, RatesInv, RatesTypeOK, Rested, SentLegal, Legal
<1> QED BY <1>1, <1>2, <1>3

\* Whatever the government's maximum, the sliders dragged and locked: what
\* rates.js sends to the civserver adds up to 100, in tens and within the
\* maximum of its sliders.
THEOREM RatesAlwaysLegal == RatesSpec => []RatesLegal
<1>1. RatesInv /\ [Next_rates]_ratesVars => RatesInv'
  BY SlideInv, OtherInv DEF Next_rates
<1>2. RatesInv => RatesLegal
  BY DEF RatesInv, RatesLegal
<1> QED BY InitInv, <1>1, <1>2, PTL DEF RatesSpec

-----------------------------------------------------------------------------
(***************************************************************************)
(* Goto                                                                    *)
(***************************************************************************)

PathAsks == [ask : {"path"}, ship : Ship, dest : Place]
PathsTold == [told : {"path"}, ship : Ship, dest : Place, from : Place]
UnitsTold == [told : {"unit"}, ship : Ship, place : Place]
GotoState == [active : BOOLEAN, last : BOOLEAN, paths : Paths, focus : Seq(Ship)]

\* A goto that ends in a detonation is for units the player wants to detonate,
\* and no others are in focus.
OwnGoto(g, m) == g.active /\ g.last => m # {} /\ UnitsIn(g.focus) \subseteq m

GotoInv == GotoTypeOK /\ OwnGoto(goto, meant)

LEMMA GroupsAreLists == Groups \subseteq Seq(Ship)
<1>1. <<>> \in Seq(Ship)
  OBVIOUS
<1>2. ASSUME NEW u \in Ship PROVE <<u>> \in Seq(Ship)
  OBVIOUS
<1>3. ASSUME NEW s \in Ship \X Ship PROVE s \in Seq(Ship)
  <2>1. s = <<s[1], s[2]>> /\ s[1] \in Ship /\ s[2] \in Ship
    OBVIOUS
  <2>2. <<s[1], s[2]>> \in Seq(Ship)
    BY <2>1
  <2> QED BY <2>1, <2>2
<1> QED BY <1>1, <1>2, <1>3 DEF Groups

\* What a click sends along: every unit has been told a path to the tile, and
\* is in focus.
LEMMA ToldUnits ==
  ASSUME GotoTypeOK, NEW d \in Place
  PROVE  /\ Told(d) \in Seq(Ship) /\ Len(Told(d)) <= Len(goto.focus)
         /\ \A i \in 1..Len(Told(d)) : /\ goto.paths[<<Told(d)[i], d>>] \in Place
                                       /\ Told(d)[i] \in UnitsIn(goto.focus)
<1> DEFINE G == {u \in Ship : goto.paths[<<u, d>>] # Unknown}
           l == Listed(d)
           A == {i \in DOMAIN l : goto.paths[<<l[i], d>>] = Asked}
           q == Told(d)
<1>1. goto.focus \in Seq(Ship) /\ goto.paths \in Paths
  BY DEF GotoTypeOK
<1>2. /\ Those(goto.focus, G) \in Seq(Ship) /\ Len(Those(goto.focus, G)) <= Len(goto.focus)
      /\ \A j \in 1..Len(Those(goto.focus, G)) :
            Those(goto.focus, G)[j] \in G /\ Those(goto.focus, G)[j] \in UnitsIn(goto.focus)
  <2> HIDE DEF G
  <2>1. /\ Those(goto.focus, G) \in Seq(Ship) /\ Len(Those(goto.focus, G)) <= Len(goto.focus)
        /\ Picked(Those(goto.focus, G), goto.focus, G, Len(goto.focus))
    BY <1>1, ThosePicks
  <2> DEFINE t == Those(goto.focus, G)
  <2>2. PICK h \in [1..Len(t) -> 1..Len(goto.focus)] : \A i \in 1..Len(t) : t[i] = goto.focus[h[i]]
    BY <2>1 DEF Picked
  <2>3. \A i \in 1..Len(t) : t[i] \in UnitsIn(goto.focus)
    BY <1>1, <2>2 DEF UnitsIn
  <2> QED BY <2>1, <2>3 DEF Picked
<1>3. l \in Seq(Ship) /\ Len(l) <= Len(goto.focus) /\ Len(l) \in Nat /\ DOMAIN l = 1..Len(l)
      /\ \A j \in 1..Len(l) : l[j] \in G /\ l[j] \in UnitsIn(goto.focus)
  <2>1. l = Those(goto.focus, G)
    BY DEF Listed
  <2> HIDE DEF l, G
  <2>2. Len(l) \in Nat /\ DOMAIN l = 1..Len(l)
    BY <1>2, <2>1
  <2> QED BY <1>2, <2>1, <2>2
<1>4. \A j \in 1..Len(l) : goto.paths[<<l[j], d>>] \in {Asked} \cup Place
  <2> SUFFICES ASSUME NEW j \in 1..Len(l) PROVE goto.paths[<<l[j], d>>] \in {Asked} \cup Place
    OBVIOUS
  <2>1. l[j] \in Ship /\ goto.paths[<<l[j], d>>] # Unknown
    BY <1>3
  <2>2. goto.paths[<<l[j], d>>] \in {Unknown, Asked} \cup Place
    BY <1>1, <2>1 DEF Paths
  <2> QED BY <2>1, <2>2
<1>5. q = IF A = {} THEN l ELSE SubSeq(l, 1, (CHOOSE i \in A : \A j \in A : i <= j) - 1)
  BY DEF Told
<1> HIDE DEF l, q, G
<1>6. CASE A = {}
  <2>1. \A j \in 1..Len(l) : goto.paths[<<l[j], d>>] \in Place /\ l[j] \in UnitsIn(goto.focus)
    BY <1>3, <1>4, <1>6
  <2> QED BY <2>1, <1>3, <1>5, <1>6 DEF q
<1>7. CASE A # {}
  <2>1. A \in SUBSET Nat
    BY <1>3
  <2>2. \E i \in A : \A j \in A : i <= j
    <3> HIDE DEF A
    <3> QED BY <2>1, <1>7, LeastNat
  <2>3. PICK i \in A : (\A j \in A : i <= j) /\ q = SubSeq(l, 1, i - 1)
    BY <2>2, <1>5, <1>7
  <2>4. i \in 1..Len(l) /\ \A j \in 1..Len(l) : j < i => goto.paths[<<l[j], d>>] # Asked
    <3>1. \A j \in A : ~(j < i)
      BY <2>1, <2>3, SMTT(60)
    <3> QED BY <2>3, <1>3, <3>1
  <2>5. q \in Seq(Ship) /\ Len(q) = i - 1 /\ \A j \in 1..(i - 1) : q[j] = l[j]
    BY <2>3, <2>4, <1>3
  <2>6. \A j \in 1..(i - 1) : j \in 1..Len(l) /\ j < i
    BY <2>4, <1>3
  <2>7. \A j \in 1..(i - 1) : goto.paths[<<q[j], d>>] \in Place /\ q[j] \in UnitsIn(goto.focus)
    BY <2>4, <2>5, <2>6, <1>3, <1>4
  <2>8. Len(q) <= Len(goto.focus)
    BY <2>4, <2>5, <1>3, <1>1
  <2> QED BY <2>5, <2>7, <2>8 DEF q
<1> QED BY <1>6, <1>7, <1>3 DEF q

\* Only the first of the orders ends in a detonation.
LEMMA ClickedOrders ==
  ASSUME GotoTypeOK, NEW d \in Place
  PROVE  /\ OrdersOf(d) \in Seq(Orders) /\ Len(OrdersOf(d)) = Len(Told(d))
         /\ \A i \in 1..Len(OrdersOf(d)) :
               OrdersOf(d)[i].final => /\ i = 1 /\ goto.last
                                       /\ OrdersOf(d)[i].ship \in UnitsIn(goto.focus)
<1> DEFINE q == Told(d)
           o == OrdersOf(d)
<1>1. q \in Seq(Ship) /\ Len(q) \in Nat /\ DOMAIN q = 1..Len(q)
      /\ \A i \in 1..Len(q) : goto.paths[<<q[i], d>>] \in Place /\ q[i] \in UnitsIn(goto.focus)
  BY ToldUnits
<1>2. o = [i \in DOMAIN q |->
             [ask |-> "orders", ship |-> q[i], src |-> at[q[i]],
              path |-> goto.paths[<<q[i], d>>], dest |-> d, final |-> goto.last /\ i = 1]]
  BY DEF OrdersOf
<1> HIDE DEF q, o
<1>3. goto.last \in BOOLEAN /\ at \in [Ship -> Place]
  BY DEF GotoTypeOK
<1>4. ASSUME NEW i \in 1..Len(q)
      PROVE  o[i] \in Orders /\ (o[i].final => i = 1 /\ goto.last) /\ o[i].ship = q[i]
  <2> DEFINE f == goto.last /\ i = 1
  <2>1. f \in BOOLEAN /\ (f => i = 1 /\ goto.last)
    BY <1>3
  <2> HIDE DEF f
  <2>2. q[i] \in Ship /\ at[q[i]] \in Place /\ goto.paths[<<q[i], d>>] \in Place
    BY <1>1, <1>3
  <2>3. o[i] = [ask |-> "orders", ship |-> q[i], src |-> at[q[i]],
              path |-> goto.paths[<<q[i], d>>], dest |-> d, final |-> f]
    BY <1>1, <1>2 DEF f
  <2> QED BY <2>1, <2>2, <2>3, <1>3 DEF Orders
<1>5. o \in [1..Len(q) -> Orders]
  BY <1>1, <1>2, <1>4
<1>6. o \in Seq(Orders) /\ Len(o) = Len(q)
  BY <1>1, <1>5
<1>7. \A i \in 1..Len(o) : o[i].final => i = 1 /\ goto.last /\ o[i].ship \in UnitsIn(goto.focus)
  BY <1>1, <1>4, <1>6
<1> QED BY <1>6, <1>7 DEF o, q

ToServerPackets == Seq(PathAsks \cup Orders)
ToPagePackets == Seq(PathsTold \cup UnitsTold)

LEMMA GotoParts ==
  GotoInv <=> /\ goto \in GotoState /\ OwnGoto(goto, meant) /\ meant \subseteq Ship
              /\ at \in [Ship -> Place] /\ pos \in [Ship -> Place]
              /\ toServer \in ToServerPackets /\ toPage \in ToPagePackets
BY DEF GotoInv, GotoTypeOK, GotoState, ToServerPackets, ToPagePackets, PathAsks, PathsTold, UnitsTold

LEMMA GotoPartsNext ==
  ASSUME goto' \in GotoState, OwnGoto(goto', meant'), meant' \subseteq Ship,
         at' \in [Ship -> Place], pos' \in [Ship -> Place],
         toServer' \in ToServerPackets, toPage' \in ToPagePackets
  PROVE  GotoInv'
BY DEF GotoInv, GotoTypeOK, GotoState, ToServerPackets, ToPagePackets, PathAsks, PathsTold, UnitsTold

\* Packets are added behind the others, and taken from the front.
LEMMA Sent ==
  ASSUME NEW q \in ToServerPackets, NEW r \in ToServerPackets
  PROVE  q \o r \in ToServerPackets
BY DEF ToServerPackets

LEMMA Served ==
  ASSUME NEW q \in ToServerPackets, q # <<>>
  PROVE  /\ Tail(q) \in ToServerPackets /\ Len(Tail(q)) < Len(q)
         /\ Head(q) \in PathAsks \cup Orders
BY DEF ToServerPackets

LEMMA EndsGoto ==
  ASSUME NEW g \in GotoState
  PROVE  deactivate_goto(g) \in GotoState /\ ~deactivate_goto(g).active
<1>1. NoPaths \in Paths
  BY DEF NoPaths, Paths
<1> QED BY <1>1 DEF deactivate_goto, GotoState

LEMMA GotoStep == GotoInv /\ [Next_goto]_gotoVars => GotoInv'
<1> SUFFICES ASSUME GotoInv, [Next_goto]_gotoVars PROVE GotoInv'
  OBVIOUS
<1>t. /\ goto \in GotoState /\ OwnGoto(goto, meant) /\ meant \subseteq Ship
      /\ at \in [Ship -> Place] /\ pos \in [Ship -> Place]
      /\ toServer \in ToServerPackets /\ toPage \in ToPagePackets
  BY GotoParts
<1>g. GotoTypeOK
  BY DEF GotoInv
<1>1. ASSUME NEW nuke \in BOOLEAN, activate_goto_last(nuke) PROVE GotoInv'
  <2> DEFINE h == [goto EXCEPT !.active = TRUE, !.last = nuke]
             m == IF nuke THEN UnitsIn(goto.focus) ELSE {}
  <2>1. goto.focus \in Seq(Ship) /\ m \subseteq Ship
    BY <1>t DEF GotoState, UnitsIn
  <2>2. h \in GotoState /\ (goto.focus # <<>> => OwnGoto(h, m))
    <3>1. goto.focus # <<>> => goto.focus[1] \in UnitsIn(goto.focus)
      <4>1. goto.focus # <<>> => 1 \in DOMAIN goto.focus
        BY <2>1
      <4> QED BY <4>1 DEF UnitsIn
    <3>2. h \in GotoState /\ h.focus = goto.focus /\ h.last = nuke
      BY <1>t DEF GotoState
    <3> QED BY <3>1, <3>2 DEF OwnGoto
  <2>3. goto' = (IF goto.focus = <<>> THEN deactivate_goto(goto) ELSE h)
        /\ UNCHANGED <<at, pos, toPage, toServer>> /\ meant' = m
    BY <1>1 DEF activate_goto_last, Page
  <2> HIDE DEF h, m
  <2>4. goto' \in GotoState /\ OwnGoto(goto', meant')
    BY <1>t, <2>2, <2>3, EndsGoto DEF OwnGoto
  <2> QED BY <1>t, <2>1, <2>3, <2>4, GotoPartsNext
<1>2. ASSUME NEW s \in Groups, NEW g \in GotoState, Focus(s, g),
             meant' \subseteq Ship, g.active /\ g.last => meant' # {} /\ UnitsIn(s) \subseteq meant'
      PROVE  GotoInv'
  <2>1. [g EXCEPT !.focus = s] \in GotoState /\ OwnGoto([g EXCEPT !.focus = s], meant')
    BY <1>2, GroupsAreLists DEF GotoState, OwnGoto
  <2>2. goto' = [g EXCEPT !.focus = s] /\ UNCHANGED <<at, pos, toPage, toServer>>
    BY <1>2 DEF Focus, Page
  <2> QED BY <1>t, <1>2, <2>1, <2>2, GotoPartsNext
<1>3. CASE SelectUnits
  <2>1. PICK s \in Groups :
          /\ Focus(s, goto)
          /\ meant' = IF goto.active /\ meant # {} THEN meant \cup UnitsIn(s) ELSE meant
    BY <1>3 DEF SelectUnits
  <2>2. UnitsIn(s) \subseteq Ship
    BY GroupsAreLists DEF UnitsIn
  <2>3. meant' \subseteq Ship
        /\ (goto.active /\ goto.last => meant' # {} /\ UnitsIn(s) \subseteq meant')
    BY <1>t, <2>1, <2>2 DEF OwnGoto
  <2> QED BY <1>t, <1>2, <2>1, <2>3
<1>4. CASE FocusMovesOn
  <2>1. [goto EXCEPT !.active = FALSE] \in GotoState /\ ~[goto EXCEPT !.active = FALSE].active
    BY <1>t DEF GotoState
  <2>2. meant' = {} /\ \E s \in Groups : Focus(s, [goto EXCEPT !.active = FALSE])
    BY <1>4 DEF FocusMovesOn
  <2> QED BY <1>2, <2>1, <2>2
<1>5. CASE ClearFocus
  <2> DEFINE h == [goto EXCEPT !.active = FALSE, !.paths = NoPaths]
  <2>1. NoPaths \in Paths
    BY DEF NoPaths, Paths
  <2>2. h \in GotoState /\ ~h.active
    BY <1>t, <2>1 DEF GotoState
  <2>3. <<>> \in Groups
    BY DEF Groups
  <2>4. meant' = {} /\ Focus(<<>>, h)
    BY <1>5 DEF ClearFocus
  <2> HIDE DEF h
  <2> QED BY <1>2, <2>2, <2>3, <2>4
<1>6. CASE Escape
  <2>1. goto' = deactivate_goto(goto) /\ meant' = {} /\ UNCHANGED <<at, pos, toPage, toServer>>
    BY <1>6 DEF Escape, Page
  <2>2. goto' \in GotoState /\ OwnGoto(goto', meant')
    BY <1>t, <2>1, EndsGoto DEF OwnGoto
  <2> QED BY <1>t, <2>1, <2>2, GotoPartsNext
<1>7. CASE check_request_goto_path
  <2>1. PICK d \in Place :
          LET new == Those(goto.focus, {u \in Ship : goto.paths[<<u, d>>] = Unknown})
          IN  /\ Page([goto EXCEPT !.paths = [k \in DOMAIN @ |->
                         IF k[2] = d /\ \E i \in DOMAIN new : new[i] = k[1] THEN Asked ELSE @[k]]])
              /\ toServer' = toServer \o [i \in DOMAIN new |-> [ask |-> "path", ship |-> new[i],
                                                                dest |-> d]]
              /\ UNCHANGED meant
    BY <1>7 DEF check_request_goto_path
  <2> DEFINE G == {u \in Ship : goto.paths[<<u, d>>] = Unknown}
             new == Those(goto.focus, G)
             ps == [k \in DOMAIN goto.paths |->
                      IF k[2] = d /\ \E i \in DOMAIN new : new[i] = k[1] THEN Asked
                      ELSE goto.paths[k]]
             r == [i \in DOMAIN new |-> [ask |-> "path", ship |-> new[i], dest |-> d]]
  <2>2. Page([goto EXCEPT !.paths = ps]) /\ toServer' = toServer \o r /\ UNCHANGED meant
    BY <2>1
  <2>3. new \in Seq(Ship)
    <3> HIDE DEF G
    <3>1. goto.focus \in Seq(Ship)
      BY <1>t DEF GotoState
    <3> QED BY <3>1, ThosePicks
  <2> HIDE DEF new
  <2>4. ps \in Paths
    BY <1>t DEF GotoState, Paths
  <2>5. r \in [1..Len(new) -> PathAsks] /\ Len(new) \in Nat
    BY <2>3 DEF PathAsks
  <2> HIDE DEF r, ps
  <2>6. r \in ToServerPackets
    <3>1. r \in Seq(PathAsks)
      BY <2>5
    <3> QED BY <3>1 DEF ToServerPackets
  <2>7. [goto EXCEPT !.paths = ps] \in GotoState /\ OwnGoto([goto EXCEPT !.paths = ps], meant)
    BY <1>t, <2>4 DEF GotoState, OwnGoto
  <2>8. toServer' \in ToServerPackets
    BY <1>t, <2>2, <2>6, Sent
  <2>9. goto' = [goto EXCEPT !.paths = ps] /\ UNCHANGED <<at, pos, toPage, meant>>
    BY <2>2 DEF Page
  <2> QED BY <1>t, <2>7, <2>8, <2>9, GotoPartsNext
<1>8. CASE do_map_click
  <2>1. PICK d \in Place :
          /\ goto.active
          /\ \/ Page(deactivate_goto(goto)) /\ UNCHANGED toServer
             \/ /\ toServer' = toServer \o OrdersOf(d)
                /\ \/ Page([goto EXCEPT !.last = FALSE])
                   \/ Page(deactivate_goto(goto))
          /\ meant' \in {meant, {}}
    BY <1>8 DEF do_map_click
  <2>2. goto' \in {[goto EXCEPT !.last = FALSE], deactivate_goto(goto)}
        /\ UNCHANGED <<at, pos, toPage>>
    BY <2>1 DEF Page
  <2>3. [goto EXCEPT !.last = FALSE] \in GotoState /\ ~[goto EXCEPT !.last = FALSE].last
    BY <1>t DEF GotoState
  <2>4. goto' \in GotoState /\ OwnGoto(goto', meant')
    BY <1>t, <2>2, <2>3, EndsGoto DEF OwnGoto
  <2>5. OrdersOf(d) \in ToServerPackets
    <3>1. OrdersOf(d) \in Seq(Orders)
      BY <1>g, ClickedOrders
    <3> QED BY <3>1 DEF ToServerPackets
  <2>6. toServer' \in ToServerPackets
    BY <1>t, <2>1, <2>5, Sent
  <2> QED BY <1>t, <2>1, <2>2, <2>4, <2>6, GotoPartsNext
<1>9. CASE key_unit_move
  <2>1. PICK d \in Place :
          toServer' = IF goto.focus = <<>> THEN toServer
                   ELSE Append(toServer, [ask |-> "orders", ship |-> goto.focus[1],
                                          src |-> at[goto.focus[1]],
                                          path |-> at[goto.focus[1]], dest |-> d,
                                          final |-> FALSE])
    BY <1>9 DEF key_unit_move
  <2>2. goto' = deactivate_goto(goto) /\ meant' = {} /\ UNCHANGED <<at, pos, toPage>>
    BY <1>9 DEF key_unit_move, Page
  <2>3. goto' \in GotoState /\ OwnGoto(goto', meant')
    BY <1>t, <2>2, EndsGoto DEF OwnGoto
  <2>4. toServer' \in ToServerPackets
    <3>1. CASE goto.focus = <<>>
      BY <1>t, <2>1, <3>1
    <3>2. CASE goto.focus # <<>>
      <4> DEFINE u == goto.focus[1]
                 o == [ask |-> "orders", ship |-> u, src |-> at[u], path |-> at[u], dest |-> d,
                       final |-> FALSE]
      <4>1. u \in Ship
        BY <1>t, <3>2 DEF GotoState
      <4> HIDE DEF u
      <4>2. at[u] \in Place
        BY <1>t, <4>1
      <4>3. o \in Orders
        BY <4>1, <4>2 DEF Orders
      <4>4. toServer' = Append(toServer, o)
        BY <2>1, <3>2 DEF u
      <4> HIDE DEF o
      <4>5. <<o>> \in ToServerPackets
        BY <4>3 DEF ToServerPackets
      <4>6. toServer' = toServer \o <<o>>
        BY <1>t, <4>4 DEF ToServerPackets
      <4> QED BY <1>t, <4>5, <4>6, Sent
    <3> QED BY <3>1, <3>2
  <2> QED BY <1>t, <2>2, <2>3, <2>4, GotoPartsNext
<1>10. ASSUME NEW ask, Serves(ask)
       PROVE  /\ toServer' \in ToServerPackets
              /\ Head(toServer) \in PathAsks \cup Orders /\ Head(toServer).ask = ask
              /\ UNCHANGED <<goto, at, meant>>
  BY <1>t, <1>10, Served DEF Serves
<1>11. CASE handle_web_goto_path_req
  <2> DEFINE r == Head(toServer)
             p == [told |-> "path", ship |-> r.ship, dest |-> r.dest, from |-> pos[r.ship]]
  <2>1. /\ toServer' \in ToServerPackets
        /\ r \in PathAsks \cup Orders /\ r.ask = "path" /\ UNCHANGED <<goto, at, pos, meant>>
    BY <1>10, <1>11 DEF handle_web_goto_path_req
  <2>2. toPage' \in {toPage, Append(toPage, p)}
    BY <1>11 DEF handle_web_goto_path_req
  <2> HIDE DEF r
  <2>3. r.ship \in Ship /\ r.dest \in Place
    BY <2>1 DEF PathAsks, Orders
  <2>4. p \in PathsTold
    BY <1>t, <2>3 DEF PathsTold
  <2> HIDE DEF p
  <2>5. toPage' \in ToPagePackets
    BY <1>t, <2>2, <2>4 DEF ToPagePackets
  <2> QED BY <1>t, <2>1, <2>5, GotoPartsNext
<1>12. ASSUME NEW u \in Ship, NEW p \in Place, Moves(u, p)
       PROVE  pos' \in [Ship -> Place] /\ toPage' \in ToPagePackets
  <2> DEFINE m == [told |-> "unit", ship |-> u, place |-> p]
  <2>1. m \in UnitsTold
    BY DEF UnitsTold
  <2>2. toPage' = Append(toPage, m) /\ pos' = [pos EXCEPT ![u] = p]
    BY <1>12 DEF Moves
  <2> HIDE DEF m
  <2> QED BY <1>t, <2>1, <2>2 DEF ToPagePackets
<1>13. CASE handle_unit_orders
  <2> DEFINE r == Head(toServer)
  <2>1. /\ toServer' \in ToServerPackets
        /\ r \in PathAsks \cup Orders /\ r.ask = "orders" /\ UNCHANGED <<goto, at, meant>>
    BY <1>10, <1>13 DEF handle_unit_orders
  <2>2. UNCHANGED <<pos, toPage>> \/ \E p \in Place : Moves(r.ship, p)
    BY <1>13 DEF handle_unit_orders
  <2> HIDE DEF r
  <2>3. r.ship \in Ship
    BY <2>1 DEF PathAsks, Orders
  <2>4. pos' \in [Ship -> Place] /\ toPage' \in ToPagePackets
    BY <1>t, <1>12, <2>2, <2>3
  <2> QED BY <1>t, <2>1, <2>4, GotoPartsNext
<1>14. CASE UnitMoves
  <2>1. UNCHANGED <<goto, at, toServer, meant>> /\ \E u \in Ship, p \in Place : Moves(u, p)
    BY <1>14 DEF UnitMoves
  <2> QED BY <1>t, <1>12, <2>1, GotoPartsNext
<1>15. ASSUME NEW told_, HearsOf(told_)
       PROVE  /\ toPage' \in ToPagePackets /\ Head(toPage) \in PathsTold \cup UnitsTold
              /\ Head(toPage).told = told_ /\ UNCHANGED <<pos, toServer, meant>>
  BY <1>t, <1>15 DEF HearsOf, ToPagePackets
<1>16. CASE handle_web_goto_path
  <2> DEFINE r == Head(toPage)
             ps == [goto.paths EXCEPT ![<<r.ship, r.dest>>] = r.from]
  <2>1. /\ toPage' \in ToPagePackets /\ r \in PathsTold \cup UnitsTold /\ r.told = "path"
        /\ UNCHANGED <<pos, toServer, at, meant>>
    BY <1>15, <1>16 DEF handle_web_goto_path
  <2>2. goto' \in {goto, [goto EXCEPT !.paths = ps]}
    <3>1. goto' \in {goto, [goto EXCEPT !.paths[<<r.ship, r.dest>>] = r.from]}
      BY <1>16 DEF handle_web_goto_path
    <3> QED BY <3>1
  <2> HIDE DEF r
  <2>3. r.from \in Place
    BY <2>1 DEF PathsTold, UnitsTold
  <2>4. ps \in Paths
    BY <1>t, <2>3 DEF GotoState, Paths
  <2> HIDE DEF ps
  <2>5. [goto EXCEPT !.paths = ps] \in GotoState /\ OwnGoto([goto EXCEPT !.paths = ps], meant)
    BY <1>t, <2>4 DEF GotoState, OwnGoto
  <2> QED BY <1>t, <2>1, <2>2, <2>5, GotoPartsNext
<1>17. CASE handle_unit_info
  <2> DEFINE r == Head(toPage)
  <2>1. /\ toPage' \in ToPagePackets /\ r \in PathsTold \cup UnitsTold /\ r.told = "unit"
        /\ UNCHANGED <<pos, toServer, goto, meant>> /\ at' = [at EXCEPT ![r.ship] = r.place]
    BY <1>15, <1>17 DEF handle_unit_info
  <2> HIDE DEF r
  <2>2. r.place \in Place
    BY <2>1 DEF PathsTold, UnitsTold
  <2>3. at' \in [Ship -> Place]
    BY <1>t, <2>1, <2>2
  <2> QED BY <1>t, <2>1, <2>3, GotoPartsNext
<1>18. CASE UNCHANGED gotoVars
  BY <1>t, <1>18, GotoPartsNext DEF gotoVars
<1> QED
  BY <1>1, <1>3, <1>4, <1>5, <1>6, <1>7, <1>8, <1>9, <1>11, <1>13, <1>14, <1>16, <1>17, <1>18
     DEF Next_goto, activate_goto, key_unit_nuke

LEMMA GotoBegins == Init_goto => GotoInv
<1> SUFFICES ASSUME Init_goto PROVE GotoInv
  OBVIOUS
<1>1. NoPaths \in Paths
  BY DEF NoPaths, Paths
<1>2. goto \in GotoState /\ OwnGoto(goto, meant) /\ meant \subseteq Ship
  BY <1>1 DEF Init_goto, GotoState, OwnGoto
<1>3. at \in [Ship -> Place] /\ pos \in [Ship -> Place]
  BY DEF Init_goto
<1>4. toServer = <<>> /\ toPage = <<>>
  BY DEF Init_goto
<1>5. toServer \in ToServerPackets /\ toPage \in ToPagePackets
  BY <1>4 DEF ToServerPackets, ToPagePackets
<1> QED BY <1>2, <1>3, <1>5, GotoParts

\* What a step adds to the packets under way holds the orders to detonate.
LEMMA DetonationsAreNew ==
  ASSUME toServer \in ToServerPackets, NEW r \in ToServerPackets, toServer' = toServer \o r,
         NEW k \in Detonations
  PROVE  \E i \in 1..Len(r) : /\ k = Len(toServer) + i /\ toServer'[k] = r[i]
                              /\ r[i].ask = "orders" /\ r[i].final
<1>1. /\ Len(toServer) \in Nat /\ Len(r) \in Nat /\ DOMAIN toServer' = 1..Len(toServer')
      /\ Len(toServer') = Len(toServer) + Len(r)
  BY DEF ToServerPackets
<1>2. /\ k \in 1..Len(toServer') /\ k > Len(toServer)
      /\ toServer'[k].ask = "orders" /\ toServer'[k].final
  BY <1>1 DEF Detonations
<1>3. k - Len(toServer) \in 1..Len(r) /\ toServer'[k] = r[k - Len(toServer)]
  BY <1>1, <1>2 DEF ToServerPackets
<1>4. k = Len(toServer) + (k - Len(toServer))
  BY <1>1, <1>2
<1> QED BY <1>2, <1>3, <1>4

LEMMA NoneIsNew ==
  ASSUME toServer \in ToServerPackets, toServer' \in ToServerPackets,
         Len(toServer') <= Len(toServer)
  PROVE  DetonatesMeant
<1>1. DOMAIN toServer' = 1..Len(toServer') /\ Len(toServer) \in Nat /\ Len(toServer') \in Nat
  BY DEF ToServerPackets
<1>2. Detonations = {}
  BY <1>1 DEF Detonations
<1> QED BY <1>2 DEF DetonatesMeant

\* Only a click gives an order to detonate, to one unit, which is meant.
LEMMA OnlyClicksDetonate == GotoInv /\ [Next_goto]_gotoVars => [DetonatesMeant]_gotoVars
<1> SUFFICES ASSUME GotoInv, Next_goto, GotoInv' PROVE DetonatesMeant
  BY GotoStep
<1>t. /\ goto \in GotoState /\ OwnGoto(goto, meant) /\ at \in [Ship -> Place]
      /\ toServer \in ToServerPackets /\ GotoTypeOK
  BY GotoParts DEF GotoInv
<1>n. toServer' \in ToServerPackets
  BY DEF GotoInv, GotoTypeOK, ToServerPackets, PathAsks
<1>l. Len(toServer) \in Nat
  BY <1>t DEF ToServerPackets
<1>1. CASE UNCHANGED toServer
  BY <1>1, <1>t, <1>n, <1>l, NoneIsNew
<1>2. ASSUME NEW ask, Serves(ask) PROVE DetonatesMeant
  <2>1. toServer # <<>> /\ toServer' = Tail(toServer)
    BY <1>2 DEF Serves
  <2>2. Len(toServer') <= Len(toServer)
    BY <1>t, <1>l, <2>1 DEF ToServerPackets
  <2> QED BY <1>t, <1>n, <2>2, NoneIsNew
<1>3. ASSUME NEW r \in ToServerPackets, toServer' = toServer \o r,
             \A i \in 1..Len(r) : r[i].ask = "orders" => ~r[i].final
      PROVE  DetonatesMeant
  <2>1. Detonations = {}
    BY <1>t, <1>3, DetonationsAreNew
  <2> QED BY <2>1 DEF DetonatesMeant
<1>4. CASE check_request_goto_path
  <2>1. PICK d \in Place :
          LET new == Those(goto.focus, {u \in Ship : goto.paths[<<u, d>>] = Unknown})
          IN  toServer' = toServer \o [i \in DOMAIN new |-> [ask |-> "path", ship |-> new[i],
                                                             dest |-> d]]
    BY <1>4 DEF check_request_goto_path
  <2> DEFINE G == {u \in Ship : goto.paths[<<u, d>>] = Unknown}
             new == Those(goto.focus, G)
             r == [i \in DOMAIN new |-> [ask |-> "path", ship |-> new[i], dest |-> d]]
  <2>2. new \in Seq(Ship)
    <3> HIDE DEF G
    <3>1. goto.focus \in Seq(Ship)
      BY <1>t DEF GotoState
    <3> QED BY <3>1, ThosePicks
  <2>3. toServer' = toServer \o r
    BY <2>1
  <2> HIDE DEF new
  <2>4. r \in [1..Len(new) -> PathAsks] /\ Len(new) \in Nat
    BY <2>2 DEF PathAsks
  <2> HIDE DEF r
  <2>5. r \in Seq(PathAsks) /\ Len(r) = Len(new)
    BY <2>4
  <2>6. r \in ToServerPackets
    BY <2>5 DEF ToServerPackets
  <2>7. \A i \in 1..Len(r) : r[i].ask # "orders"
    BY <2>4, <2>5 DEF PathAsks
  <2> QED BY <1>3, <2>3, <2>6, <2>7
<1>5. CASE do_map_click
  <2>1. PICK d \in Place : goto.active /\ (UNCHANGED toServer \/ toServer' = toServer \o OrdersOf(d))
    BY <1>5 DEF do_map_click
  <2>2. CASE toServer' = toServer \o OrdersOf(d)
    <3> DEFINE o == OrdersOf(d)
    <3>1. /\ o \in Seq(Orders)
          /\ \A i \in 1..Len(o) : o[i].final =>
                i = 1 /\ goto.last /\ o[i].ship \in UnitsIn(goto.focus)
      BY <1>t, ClickedOrders
    <3>2. toServer' = toServer \o o
      BY <2>2
    <3> HIDE DEF o
    <3>3. o \in ToServerPackets
      BY <3>1 DEF ToServerPackets
    <3>4. ASSUME NEW k \in Detonations
          PROVE  k = Len(toServer) + 1 /\ toServer'[k].ship \in meant
      <4>1. PICK i \in 1..Len(o) : /\ k = Len(toServer) + i /\ toServer'[k] = o[i]
                                  /\ o[i].ask = "orders" /\ o[i].final
        BY <1>t, <3>2, <3>3, DetonationsAreNew
      <4>2. i = 1 /\ goto.last /\ o[i].ship \in UnitsIn(goto.focus)
        BY <3>1, <4>1
      <4> QED BY <1>t, <2>1, <4>1, <4>2 DEF OwnGoto
    <3>5. \A k \in Detonations : toServer'[k].ship \in meant /\ Detonations = {k}
      BY <3>4
    <3> QED BY <3>5 DEF DetonatesMeant
  <2> QED BY <1>1, <2>1, <2>2
<1>6. CASE key_unit_move
  <2>1. PICK d \in Place :
          toServer' = IF goto.focus = <<>> THEN toServer
                   ELSE Append(toServer, [ask |-> "orders", ship |-> goto.focus[1],
                                          src |-> at[goto.focus[1]],
                                          path |-> at[goto.focus[1]], dest |-> d,
                                          final |-> FALSE])
    BY <1>6 DEF key_unit_move
  <2>2. CASE goto.focus # <<>>
    <3> DEFINE u == goto.focus[1]
               o == [ask |-> "orders", ship |-> u, src |-> at[u], path |-> at[u], dest |-> d,
                     final |-> FALSE]
    <3>1. u \in Ship
      BY <1>t, <2>2 DEF GotoState
    <3>2. toServer' = Append(toServer, o)
      BY <2>1, <2>2
    <3> HIDE DEF u
    <3>3. at[u] \in Place
      BY <1>t, <3>1
    <3>4. o \in Orders /\ ~o.final
      BY <3>1, <3>3 DEF Orders
    <3> HIDE DEF o
    <3>5. <<o>> \in ToServerPackets /\ toServer' = toServer \o <<o>> /\ Len(<<o>>) = 1 /\ <<o>>[1] = o
      BY <1>t, <3>2, <3>4 DEF ToServerPackets
    <3>6. \A i \in 1..Len(<<o>>) : ~<<o>>[i].final
      BY <3>4, <3>5
    <3> QED BY <1>3, <3>5, <3>6
  <2> QED BY <1>1, <2>1, <2>2
<1>7. ASSUME \/ activate_goto \/ key_unit_nuke \/ SelectUnits \/ FocusMovesOn \/ ClearFocus
             \/ Escape \/ UnitMoves \/ handle_web_goto_path \/ handle_unit_info
      PROVE  UNCHANGED toServer
  BY <1>7 DEF activate_goto, key_unit_nuke, activate_goto_last, SelectUnits, FocusMovesOn,
              ClearFocus, Focus, Escape, UnitMoves, handle_web_goto_path, handle_unit_info, HearsOf
<1>8. CASE handle_web_goto_path_req \/ handle_unit_orders
  BY <1>2, <1>8 DEF handle_web_goto_path_req, handle_unit_orders
<1> QED BY <1>1, <1>4, <1>5, <1>6, <1>7, <1>8 DEF Next_goto

\* A unit is sent to detonate only by a nuclear goto started for it, or taken
\* over by it when the player selected it: whatever clicks, paths, moves and
\* changes of the focus come between, and whatever goto_last_order still holds.
THEOREM OrdersOfTheirGoto == GotoSpec => FinalOrderOfItsGoto
<1>1. GotoInv => GotoTypeOK
  BY DEF GotoInv
<1> QED BY <1>1, GotoBegins, GotoStep, OnlyClicksDetonate, PTL DEF GotoSpec, FinalOrderOfItsGoto

-----------------------------------------------------------------------------
(***************************************************************************)
(* Worklist                                                                *)
(***************************************************************************)

Thing == Item \cup {Hole}
Ascends(sel) == \A i, j \in 1..Len(sel) : i < j => sel[i] < sel[j]

LEMMA AtIsThing == ASSUME NEW l \in Lists, NEW i \in Nat PROVE At(l, i) \in Thing
<1>1. CASE i < Len(l)
  <2>1. Len(l) \in Nat /\ i + 1 \in 1..Len(l)
    BY <1>1 DEF Lists
  <2> QED BY <1>1, <2>1 DEF At, Lists, Thing
<1>2. CASE ~(i < Len(l))
  BY <1>2 DEF At, Thing
<1> QED BY <1>1, <1>2

LEMMA PutIsList ==
  ASSUME NEW l \in Lists, NEW i \in Nat, NEW x \in Thing
  PROVE  Put(l, i, x) \in Lists
<1> DEFINE n == IF i < Len(l) THEN Len(l) ELSE i + 1
           p == [j \in 1..n |-> IF j = i + 1 THEN x ELSE At(l, j - 1)]
<1>1. n \in Nat
  BY DEF Lists
<1> HIDE DEF n
<1>2. ASSUME NEW j \in 1..n PROVE At(l, j - 1) \in Thing
  <2>1. j - 1 \in Nat
    BY <1>1
  <2> QED BY <2>1, AtIsThing
<1>3. p \in [1..n -> Thing]
  BY <1>2
<1>4. Put(l, i, x) = p
  BY DEF Put, n
<1> HIDE DEF p
<1>5. p \in Seq(Thing)
  BY <1>1, <1>3
<1> QED BY <1>4, <1>5 DEF Lists, Thing

LEMMA SwapIsList ==
  ASSUME NEW l \in Lists, NEW i \in Nat, NEW j \in Nat
  PROVE  Swap(l, i, j) \in Lists
<1>1. Put(l, i, At(l, j)) \in Lists
  BY AtIsThing, PutIsList
<1> QED BY <1>1, AtIsThing, PutIsList DEF Swap

LEMMA Part ==
  ASSUME NEW S, NEW l \in Seq(S), NEW i \in Nat, i >= 1, NEW j \in Nat, j <= Len(l)
  PROVE  SubSeq(l, i, j) \in Seq(S)
OBVIOUS

LEMMA SpliceIsList ==
  ASSUME NEW l \in Lists, NEW i \in Nat, NEW n \in Nat, NEW more \in Lists
  PROVE  Splice(l, i, n, more) \in Lists
<1> DEFINE first == IF i < Len(l) THEN i ELSE Len(l)
           m == first + 1 + (IF first + n < Len(l) THEN n ELSE Len(l) - first)
<1>1. first \in Nat /\ first <= Len(l) /\ m \in Nat /\ m >= 1 /\ Len(l) \in Nat
  <2>1. Len(l) \in Nat
    BY DEF Lists
  <2>2. first \in Nat /\ first <= Len(l)
    BY <2>1
  <2> HIDE DEF first
  <2> DEFINE d == IF first + n < Len(l) THEN n ELSE Len(l) - first
  <2>3. d \in Nat
    <3>1. CASE first + n < Len(l)
      BY <3>1
    <3>2. CASE ~(first + n < Len(l))
      BY <2>1, <2>2, <3>2
    <3> QED BY <3>1, <3>2
  <2>4. m = first + 1 + d
    OBVIOUS
  <2> HIDE DEF d, m
  <2> QED BY <2>1, <2>2, <2>3, <2>4
<1>2. Splice(l, i, n, more) = SubSeq(l, 1, first) \o more \o SubSeq(l, m, Len(l))
  BY DEF Splice
<1> HIDE DEF first, m
<1>3. SubSeq(l, 1, first) \in Seq(Thing) /\ SubSeq(l, m, Len(l)) \in Seq(Thing) /\ more \in Seq(Thing)
  <2>1. l \in Seq(Thing) /\ more \in Seq(Thing)
    BY DEF Lists, Thing
  <2> QED BY <1>1, <2>1, Part
<1> QED BY <1>2, <1>3 DEF Lists, Thing

LEMMA ClipIsList ==
  ASSUME NEW l \in Lists
  PROVE  Clip(l) \in Lists /\ Len(Clip(l)) <= MaxLen
<1>1. MaxLen \in Nat
  BY WorklistAssumption
<1>2. CASE Len(l) > MaxLen
  <2>1. SubSeq(l, 1, MaxLen) \in Seq(Thing) /\ Len(SubSeq(l, 1, MaxLen)) = MaxLen
    BY <1>1, <1>2 DEF Lists, Thing
  <2> QED BY <1>1, <1>2, <2>1 DEF Clip, Lists, Thing
<1>3. CASE ~(Len(l) > MaxLen)
  BY <1>1, <1>3 DEF Clip, Lists
<1> QED BY <1>2, <1>3

-----------------------------------------------------------------------------

ForEachUpto(f, button, t, l, ks, n) ==
  f = [i \in 0..n |-> IF i = 0 THEN l ELSE ForOne(button, t, f[i - 1], ks[i])]

LEMMA ForEachFcnExists ==
  ASSUME NEW button, NEW t, NEW l, NEW ks, NEW n \in Nat
  PROVE  \E f : ForEachUpto(f, button, t, l, ks, n)
<1> DEFINE T == {k \in Nat : \E f : ForEachUpto(f, button, t, l, ks, k)}
<1>1. 0 \in T
  <2> DEFINE h == [i \in 0..0 |-> l]
  <2>1. ForEachUpto(h, button, t, l, ks, 0)
    BY DEF ForEachUpto
  <2> HIDE DEF h
  <2> QED BY <2>1
<1>2. ASSUME NEW k \in Nat, k \in T PROVE k + 1 \in T
  <2>1. PICK f : ForEachUpto(f, button, t, l, ks, k)
    BY <1>2
  <2> DEFINE v == ForOne(button, t, f[k], ks[k + 1])
             h == [i \in 0..(k + 1) |-> IF i = k + 1 THEN v ELSE f[i]]
  <2>2. ASSUME NEW i \in 0..(k + 1)
        PROVE  h[i] = IF i = 0 THEN l ELSE ForOne(button, t, h[i - 1], ks[i])
    <3>1. CASE i = k + 1
      BY <3>1
    <3>2. CASE i \in 0..k
      <4>1. f[i] = IF i = 0 THEN l ELSE ForOne(button, t, f[i - 1], ks[i])
        BY <2>1, <3>2 DEF ForEachUpto
      <4> QED BY <3>2, <4>1
    <3> QED BY <3>1, <3>2
  <2> HIDE DEF v
  <2>3. ForEachUpto(h, button, t, l, ks, k + 1)
    BY <2>2 DEF ForEachUpto
  <2> HIDE DEF h
  <2> QED BY <2>3
<1>3. Nat \subseteq T
  <2> HIDE DEF T
  <2> QED BY <1>1, <1>2, Induct
<1> QED BY <1>3

LEMMA ForEachIs ==
  ASSUME NEW button, NEW t, NEW l, NEW ks, Len(ks) \in Nat
  PROVE  \E f : ForEachUpto(f, button, t, l, ks, Len(ks)) /\ ForEach(button, t, l, ks) = f[Len(ks)]
<1> DEFINE f == CHOOSE f : ForEachUpto(f, button, t, l, ks, Len(ks))
<1>1. ForEachUpto(f, button, t, l, ks, Len(ks))
  BY ForEachFcnExists
<1>2. ForEach(button, t, l, ks) = f[Len(ks)]
  BY DEF ForEach, ForEachUpto
<1> HIDE DEF f
<1> QED BY <1>1, <1>2

\* What each step keeps, all of them keep.
LEMMA ForEachKeeps ==
  ASSUME NEW button, NEW t, NEW S, NEW l \in S, NEW ks, Len(ks) \in Nat,
         \A m \in S, i \in 1..Len(ks) : ForOne(button, t, m, ks[i]) \in S
  PROVE  ForEach(button, t, l, ks) \in S
<1>1. PICK f : ForEachUpto(f, button, t, l, ks, Len(ks)) /\ ForEach(button, t, l, ks) = f[Len(ks)]
  BY ForEachIs
<1> DEFINE T == {n \in Nat : n <= Len(ks) => f[n] \in S}
<1>2. 0 \in T
  BY <1>1 DEF ForEachUpto
<1>3. ASSUME NEW n \in Nat, n \in T PROVE n + 1 \in T
  <2> SUFFICES ASSUME n + 1 <= Len(ks) PROVE f[n + 1] \in S
    OBVIOUS
  <2>1. n + 1 \in 0..Len(ks) /\ n + 1 # 0 /\ (n + 1) - 1 = n /\ n + 1 \in 1..Len(ks) /\ f[n] \in S
    BY <1>3
  <2>2. f[n + 1] = ForOne(button, t, f[n], ks[n + 1])
    <3>1. f[n + 1] = ForOne(button, t, f[(n + 1) - 1], ks[n + 1])
      BY <1>1, <2>1 DEF ForEachUpto
    <3> QED BY <2>1, <3>1
  <2> QED BY <2>1, <2>2
<1>4. Len(ks) \in T
  <2> HIDE DEF T
  <2> QED BY <1>2, <1>3, Induct
<1> QED BY <1>1, <1>4

-----------------------------------------------------------------------------
LEMMA ThoseAscend ==
  ASSUME NEW s \in Seq(Nat), Ascends(s), NEW G
  PROVE  Those(s, G) \in Seq(Nat) /\ Ascends(Those(s, G)) /\ Len(Those(s, G)) <= Len(s)
         /\ \A i \in 1..Len(Those(s, G)) : Those(s, G)[i] \in G
<1> DEFINE q == Those(s, G)
<1>1. q \in Seq(Nat) /\ Len(q) <= Len(s) /\ Picked(q, s, G, Len(s))
  BY ThosePicks
<1> HIDE DEF q
<1>2. PICK h \in [1..Len(q) -> 1..Len(s)] :
             /\ \A i, j \in 1..Len(q) : i < j => h[i] < h[j]
             /\ \A i \in 1..Len(q) : q[i] = s[h[i]]
  BY <1>1 DEF Picked
<1>3. Ascends(q)
  <2> SUFFICES ASSUME NEW i \in 1..Len(q), NEW j \in 1..Len(q), i < j PROVE q[i] < q[j]
    BY DEF Ascends
  <2>1. h[i] \in 1..Len(s) /\ h[j] \in 1..Len(s) /\ h[i] < h[j]
    BY <1>2
  <2> QED BY <1>2, <2>1 DEF Ascends
<1> QED BY <1>1, <1>3 DEF q, Picked

\* Positions that ascend stay so when one is put where it belongs.
LEMMA SelectedAscends ==
  ASSUME NEW s \in Seq(Nat), Ascends(s), NEW i \in Nat
  PROVE  Selected(s, i) \in Seq(Nat) /\ Ascends(Selected(s, i))
         /\ \A k \in 1..Len(Selected(s, i)) : Selected(s, i)[k] = i \/ \E j \in 1..Len(s) : Selected(s, i)[k] = s[j]
<1> DEFINE a == Those(s, 0..(i - 1))
           b == Those(s, Nat \ (0..i))
           q == a \o <<i>> \o b
<1>1. a \in Seq(Nat) /\ Ascends(a) /\ \A k \in 1..Len(a) : a[k] < i
  <2>1. a \in Seq(Nat) /\ Ascends(a) /\ \A k \in 1..Len(a) : a[k] \in 0..(i - 1)
    BY ThoseAscend
  <2> QED BY <2>1
<1>2. b \in Seq(Nat) /\ Ascends(b) /\ \A k \in 1..Len(b) : b[k] > i
  <2>1. b \in Seq(Nat) /\ Ascends(b) /\ \A k \in 1..Len(b) : b[k] \in Nat \ (0..i)
    BY ThoseAscend
  <2> HIDE DEF b
  <2>2. ASSUME NEW k \in 1..Len(b) PROVE b[k] > i
    <3>1. b[k] \in Nat /\ ~(b[k] \in 0..i)
      BY <2>1
    <3> QED BY <3>1
  <2> QED BY <2>1, <2>2
<1>s. \A k \in 1..Len(a) : \E j \in 1..Len(s) : a[k] = s[j]
  <2>1. Picked(a, s, 0..(i - 1), Len(s))
    BY ThosePicks
  <2> HIDE DEF a
  <2> QED BY <2>1 DEF Picked
<1>t. \A k \in 1..Len(b) : \E j \in 1..Len(s) : b[k] = s[j]
  <2>1. Picked(b, s, Nat \ (0..i), Len(s))
    BY ThosePicks
  <2> HIDE DEF b
  <2> QED BY <2>1 DEF Picked
<1> HIDE DEF a, b
<1>3. q \in Seq(Nat) /\ Len(q) = Len(a) + 1 + Len(b) /\ Len(a) \in Nat /\ Len(b) \in Nat
  BY <1>1, <1>2
<1>4. ASSUME NEW k \in 1..Len(q)
      PROVE  \/ k \in 1..Len(a) /\ q[k] = a[k]
             \/ k = Len(a) + 1 /\ q[k] = i
             \/ k - Len(a) - 1 \in 1..Len(b) /\ q[k] = b[k - Len(a) - 1]
  <2> DEFINE c == a \o <<i>>
  <2>1. c \in Seq(Nat) /\ Len(c) = Len(a) + 1 /\ c[Len(a) + 1] = i
        /\ \A j \in 1..Len(a) : c[j] = a[j]
    BY <1>1
  <2>2. q = c \o b
    OBVIOUS
  <2> HIDE DEF c, q
  <2>3. CASE k <= Len(c)
    <3>1. q[k] = c[k]
      BY <1>2, <1>3, <2>1, <2>2, <2>3
    <3> QED BY <1>3, <2>1, <2>3, <3>1, SMTT(60)
  <2>4. CASE k > Len(c)
    <3>1. q[k] = b[k - Len(c)] /\ k - Len(c) \in 1..Len(b)
      BY <1>2, <1>3, <2>1, <2>2, <2>4
    <3> QED BY <1>3, <2>1, <3>1
  <2> QED BY <1>3, <2>1, <2>3, <2>4
<1> HIDE DEF q
<1>l. /\ Len(q) \in Nat /\ Len(a) \in Nat /\ Len(b) \in Nat /\ Len(s) \in Nat
      /\ \A k \in 1..Len(a) : a[k] \in Nat
      /\ \A k \in 1..Len(b) : b[k] \in Nat
  <2>1. Len(q) \in Nat /\ Len(a) \in Nat /\ Len(b) \in Nat /\ Len(s) \in Nat
    BY <1>3
  <2>2. \A k \in 1..Len(a) : a[k] \in Nat
    BY <1>1
  <2>3. \A k \in 1..Len(b) : b[k] \in Nat
    BY <1>2
  <2> QED BY <2>1, <2>2, <2>3
<1>5. Ascends(q)
  <2> SUFFICES ASSUME NEW j \in 1..Len(q), NEW k \in 1..Len(q), j < k PROVE q[j] < q[k]
    BY DEF Ascends
  <2>1. CASE j \in 1..Len(a) /\ q[j] = a[j]
    <3>1. CASE k \in 1..Len(a) /\ q[k] = a[k]
      BY <1>1, <2>1, <3>1 DEF Ascends
    <3>2. CASE k = Len(a) + 1 /\ q[k] = i
      BY <1>1, <2>1, <3>2
    <3>3. CASE k - Len(a) - 1 \in 1..Len(b) /\ q[k] = b[k - Len(a) - 1]
      <4>1. a[j] \in Nat /\ a[j] < i
        BY <1>1, <1>l, <2>1
      <4>2. b[k - Len(a) - 1] \in Nat /\ b[k - Len(a) - 1] > i
        BY <1>2, <1>l, <3>3
      <4>3. a[j] < b[k - Len(a) - 1]
        BY <4>1, <4>2
      <4> QED BY <2>1, <3>3, <4>3
    <3> QED BY <1>4, <3>1, <3>2, <3>3
  <2>2. CASE j = Len(a) + 1 /\ q[j] = i
    <3>1. k - Len(a) - 1 \in 1..Len(b) /\ q[k] = b[k - Len(a) - 1]
      <4>1. \/ k \in 1..Len(a) \/ k = Len(a) + 1
            \/ k - Len(a) - 1 \in 1..Len(b) /\ q[k] = b[k - Len(a) - 1]
        BY <1>4
      <4>2. k > Len(a) + 1
        BY <1>l, <2>2
      <4> QED BY <1>l, <4>1, <4>2
    <3>2. b[k - Len(a) - 1] \in Nat /\ b[k - Len(a) - 1] > i
      BY <1>2, <1>l, <3>1
    <3>3. i < q[k]
      BY <3>1, <3>2
    <3> QED BY <2>2, <3>3
  <2>3. CASE j - Len(a) - 1 \in 1..Len(b) /\ q[j] = b[j - Len(a) - 1]
    <3>1. k - Len(a) - 1 \in 1..Len(b) /\ q[k] = b[k - Len(a) - 1]
          /\ j - Len(a) - 1 < k - Len(a) - 1
      <4>1. \/ k \in 1..Len(a) \/ k = Len(a) + 1
            \/ k - Len(a) - 1 \in 1..Len(b) /\ q[k] = b[k - Len(a) - 1]
        BY <1>4
      <4>2. k > Len(a) + 1 /\ j - Len(a) - 1 < k - Len(a) - 1
        BY <1>l, <2>3
      <4> QED BY <1>l, <4>1, <4>2
    <3> QED BY <1>2, <2>3, <3>1 DEF Ascends
  <2> QED BY <1>4, <2>1, <2>2, <2>3
<1>6. \A k \in 1..Len(q) : q[k] = i \/ \E j \in 1..Len(s) : q[k] = s[j]
  <2> SUFFICES ASSUME NEW k \in 1..Len(q) PROVE q[k] = i \/ \E j \in 1..Len(s) : q[k] = s[j]
    OBVIOUS
  <2>1. CASE k \in 1..Len(a) /\ q[k] = a[k]
    BY <1>s, <2>1
  <2>2. CASE k - Len(a) - 1 \in 1..Len(b) /\ q[k] = b[k - Len(a) - 1]
    BY <1>t, <2>2
  <2> QED BY <1>4, <2>1, <2>2
<1> QED BY <1>3, <1>5, <1>6 DEF q, a, b, Selected

LEMMA ShiftedAscends ==
  ASSUME NEW s \in Seq(Nat), Ascends(s), NEW n \in Int, \A k \in 1..Len(s) : s[k] + n \in Nat
  PROVE  Shifted(s, n) \in Seq(Nat) /\ Ascends(Shifted(s, n))
<1> DEFINE q == Shifted(s, n)
<1>1. Len(s) \in Nat /\ DOMAIN s = 1..Len(s) /\ q = [k \in 1..Len(s) |-> s[k] + n]
  BY DEF Shifted
<1> HIDE DEF q
<1>2. q \in [1..Len(s) -> Nat]
  BY <1>1
<1>3. q \in Seq(Nat) /\ Len(q) = Len(s)
  BY <1>1, <1>2
<1>4. Ascends(q)
  BY <1>1, <1>3 DEF Ascends
<1> QED BY <1>3, <1>4 DEF q

LEMMA RemovedAscends ==
  ASSUME NEW s \in Seq(Nat), Ascends(s), NEW i \in Nat
  PROVE  RemovedSelection(s, i) \in Seq(Nat) /\ Ascends(RemovedSelection(s, i))
<1> DEFINE u == Unselected(s, i)
           q == RemovedSelection(s, i)
<1>1. u \in Seq(Nat) /\ Ascends(u) /\ \A k \in 1..Len(u) : u[k] \in Nat \ {i}
  BY ThoseAscend DEF Unselected
<1>2. q = [k \in DOMAIN u |-> LET p == u[k] IN IF p > i THEN p - 1 ELSE p]
  BY DEF RemovedSelection
<1> HIDE DEF u, q
<1>3. Len(u) \in Nat /\ DOMAIN u = 1..Len(u)
  BY <1>1
<1>4. ASSUME NEW k \in 1..Len(u)
      PROVE  q[k] = (IF u[k] > i THEN u[k] - 1 ELSE u[k]) /\ q[k] \in Nat /\ u[k] # i /\ u[k] \in Nat
  BY <1>1, <1>2, <1>3
<1>5. q \in [1..Len(u) -> Nat]
  BY <1>2, <1>3, <1>4
<1>6. q \in Seq(Nat) /\ Len(q) = Len(u)
  BY <1>3, <1>5
<1>7. Ascends(q)
  <2> SUFFICES ASSUME NEW j \in 1..Len(u), NEW k \in 1..Len(u), j < k PROVE q[j] < q[k]
    BY <1>6 DEF Ascends
  <2>1. u[j] < u[k]
    BY <1>1 DEF Ascends
  <2> QED BY <1>4, <2>1
<1> QED BY <1>6, <1>7 DEF q

-----------------------------------------------------------------------------
SentPackets == [type : {"change"}, item : Item] \cup [type : {"list"}, list : Lists]
                 \cup [type : {"buy"}]
NewsPackets == [type : {"info"}, prod : Item, list : Seq(Item)] \cup [type : {"addition"}]
Cities == [prod : Item, list : Seq(Item), bought : BOOLEAN]

\* The list l is on its way to the civserver.
OnItsWay(s, l) == \E i \in 1..Len(s) : s[i].type = "list" /\ s[i].list = l
ShortLists(s) == \A i \in 1..Len(s) : s[i].type = "list" => Len(s[i].list) <= MaxLen

\* The city is told before the dialog is drawn, and last as it is.
DrawnLast(c) == c # <<>> => c[Len(c)].type = "addition"
NoInfo(c) == \A i \in 1..Len(c) : c[i].type # "info"
LastInfo(c, now) ==
  \A i \in 1..Len(c) : c[i].type = "info" /\ (\A j \in 1..Len(c) : i < j => c[j].type # "info")
     => c[i].prod = now.prod /\ c[i].list = now.list

Lost(t) == Contains(t.list, Hole)
Fits(t) == (\A k \in 1..Len(t.sel) : t.sel[k] < Len(t.list)) /\ t.drawn <= Len(t.list)

TabOK == tab \in Tabs /\ Ascends(tab.sel)
SentOK == sent \in Seq(SentPackets) /\ ShortLists(sent)
ComingOK == coming \in Seq(NewsPackets) /\ DrawnLast(coming) /\ LastInfo(coming, city)
CityOK == city \in Cities /\ Len(city.list) <= MaxLen
CountsOK == edits \in 0..MaxEdits /\ news \in 0..MaxNews

\* What the client shows is what the city has, on its way there, or lost.
ListShows == NoInfo(coming) =>
           tab.prod = city.prod /\ (tab.list = city.list \/ OnItsWay(sent, tab.list) \/ Lost(tab))
ListFits == coming = <<>> => Fits(tab) \/ OnItsWay(sent, tab.list) \/ Lost(tab)

ListInv == TabOK /\ SentOK /\ ComingOK /\ CityOK /\ CountsOK /\ ListShows /\ ListFits

-----------------------------------------------------------------------------
LEMMA MoreSent ==
  ASSUME NEW s \in Seq(SentPackets), ShortLists(s), NEW r \in Seq(SentPackets), ShortLists(r)
  PROVE  /\ s \o r \in Seq(SentPackets) /\ ShortLists(s \o r)
         /\ \A l : OnItsWay(s, l) \/ OnItsWay(r, l) => OnItsWay(s \o r, l)
<1>1. s \o r \in Seq(SentPackets) /\ Len(s \o r) = Len(s) + Len(r) /\ Len(s) \in Nat /\ Len(r) \in Nat
  OBVIOUS
<1>2. \A i \in 1..Len(s) : i \in 1..Len(s \o r) /\ (s \o r)[i] = s[i]
  BY <1>1
<1>3. \A i \in 1..Len(r) : Len(s) + i \in 1..Len(s \o r) /\ (s \o r)[Len(s) + i] = r[i]
  BY <1>1
<1>4. ASSUME NEW i \in 1..Len(s \o r), (s \o r)[i].type = "list" PROVE Len((s \o r)[i].list) <= MaxLen
  <2>1. CASE i \in 1..Len(s)
    BY <1>2, <1>4, <2>1 DEF ShortLists
  <2>2. CASE i \notin 1..Len(s)
    <3>1. i - Len(s) \in 1..Len(r) /\ i = Len(s) + (i - Len(s))
      BY <1>1, <2>2
    <3>2. (s \o r)[i] = r[i - Len(s)]
      BY <1>3, <3>1
    <3> QED BY <1>4, <3>1, <3>2 DEF ShortLists
  <2> QED BY <2>1, <2>2
<1>5. ASSUME NEW l, OnItsWay(s, l) \/ OnItsWay(r, l) PROVE OnItsWay(s \o r, l)
  <2>1. CASE OnItsWay(s, l)
    BY <1>2, <2>1 DEF OnItsWay
  <2>2. CASE OnItsWay(r, l)
    BY <1>3, <2>2 DEF OnItsWay
  <2> QED BY <1>5, <2>1, <2>2
<1> QED BY <1>1, <1>4, <1>5 DEF ShortLists

LEMMA LessSent ==
  ASSUME NEW s \in Seq(SentPackets), ShortLists(s), s # <<>>
  PROVE  /\ Tail(s) \in Seq(SentPackets) /\ ShortLists(Tail(s)) /\ Head(s) \in SentPackets
         /\ Head(s).type = "list" => Len(Head(s).list) <= MaxLen
         /\ \A l : OnItsWay(s, l) => \/ Head(s).type = "list" /\ Head(s).list = l
                                     \/ OnItsWay(Tail(s), l)
<1>1. /\ Tail(s) \in Seq(SentPackets) /\ Len(Tail(s)) = Len(s) - 1 /\ Len(s) \in Nat /\ Len(s) >= 1
      /\ Head(s) \in SentPackets /\ Head(s) = s[1]
  OBVIOUS
<1>2. \A i \in 1..Len(Tail(s)) : i + 1 \in 1..Len(s) /\ Tail(s)[i] = s[i + 1]
  BY <1>1
<1>3. ShortLists(Tail(s))
  BY <1>2 DEF ShortLists
<1>4. ASSUME NEW l, OnItsWay(s, l)
      PROVE  (Head(s).type = "list" /\ Head(s).list = l) \/ OnItsWay(Tail(s), l)
  <2>1. PICK i \in 1..Len(s) : s[i].type = "list" /\ s[i].list = l
    BY <1>4 DEF OnItsWay
  <2>2. CASE i = 1
    BY <1>1, <2>1, <2>2
  <2>3. CASE i # 1
    <3>1. i - 1 \in 1..Len(Tail(s)) /\ (i - 1) + 1 = i
      BY <1>1, <2>3
    <3>2. Tail(s)[i - 1] = s[i]
      BY <1>2, <3>1
    <3> QED BY <2>1, <3>1, <3>2 DEF OnItsWay
  <2> QED BY <2>2, <2>3
<1>5. Head(s).type = "list" => Len(Head(s).list) <= MaxLen
  BY <1>1 DEF ShortLists
<1> QED BY <1>1, <1>3, <1>4, <1>5

LEMMA CityTold ==
  ASSUME NEW q \in Seq(NewsPackets), NEW c \in Cities
  PROVE  LET r == q \o Infos(c)
         IN  r \in Seq(NewsPackets) /\ DrawnLast(r) /\ LastInfo(r, c) /\ ~NoInfo(r) /\ r # <<>>
<1> DEFINE a == [type |-> "info", prod |-> c.prod, list |-> c.list]
           b == [type |-> "addition"]
           r == q \o <<a, b>>
<1>1. a \in NewsPackets /\ b \in NewsPackets /\ a.type = "info" /\ b.type = "addition"
      /\ a.prod = c.prod /\ a.list = c.list
  BY DEF NewsPackets, Cities
<1>2. q \o Infos(c) = r
  BY DEF Infos
<1> HIDE DEF a, b
<1>3. r \in Seq(NewsPackets) /\ Len(r) = Len(q) + 2 /\ Len(q) \in Nat
      /\ r[Len(q) + 1] = a /\ r[Len(q) + 2] = b
  BY <1>1
<1> HIDE DEF r
<1>4. DrawnLast(r) /\ r # <<>>
  BY <1>1, <1>3 DEF DrawnLast
<1>5. ~NoInfo(r)
  <2>1. Len(q) + 1 \in 1..Len(r)
    BY <1>3
  <2> QED BY <1>1, <1>3, <2>1 DEF NoInfo
<1>6. LastInfo(r, c)
  <2> SUFFICES ASSUME NEW i \in 1..Len(r), r[i].type = "info",
                      \A j \in 1..Len(r) : i < j => r[j].type # "info"
               PROVE  r[i].prod = c.prod /\ r[i].list = c.list
    BY DEF LastInfo
  <2>1. Len(q) + 1 \in 1..Len(r) /\ r[Len(q) + 1].type = "info"
    BY <1>1, <1>3
  <2>2. ~(i < Len(q) + 1)
    BY <2>1
  <2>3. i # Len(q) + 2
    <3>1. "info" # "addition"
      OBVIOUS
    <3> QED BY <1>1, <1>3, <3>1
  <2>4. i = Len(q) + 1
    BY <1>3, <2>2, <2>3
  <2> QED BY <1>1, <1>3, <2>4
<1> QED BY <1>2, <1>3, <1>4, <1>5, <1>6

LEMMA CityHeard ==
  ASSUME NEW q \in Seq(NewsPackets), NEW c, q # <<>>, DrawnLast(q), LastInfo(q, c)
  PROVE  /\ Tail(q) \in Seq(NewsPackets) /\ DrawnLast(Tail(q)) /\ LastInfo(Tail(q), c)
         /\ Head(q) \in NewsPackets
         /\ Head(q).type = "info" =>
              /\ Tail(q) # <<>>
              /\ NoInfo(Tail(q)) => Head(q).prod = c.prod /\ Head(q).list = c.list
         /\ Head(q).type # "info" /\ NoInfo(Tail(q)) => NoInfo(q)
<1> DEFINE r == Tail(q)
<1>1. r \in Seq(NewsPackets) /\ Len(r) = Len(q) - 1 /\ Len(q) \in Nat /\ Len(q) >= 1 /\ Len(r) \in Nat
      /\ Head(q) \in NewsPackets /\ Head(q) = q[1]
  OBVIOUS
<1>2. \A i \in 1..Len(r) : i + 1 \in 1..Len(q) /\ r[i] = q[i + 1]
  BY <1>1
<1>0. r # <<>> => Len(r) >= 1
  BY <1>1
<1>00. r = <<>> => Len(r) = 0
  BY <1>1
<1> HIDE DEF r
<1>3. ASSUME NEW i \in 1..Len(q), i # 1 PROVE i - 1 \in 1..Len(r) /\ r[i - 1] = q[i]
  <2>1. i - 1 \in 1..Len(r) /\ (i - 1) + 1 = i
    BY <1>1, <1>3
  <2> QED BY <1>2, <2>1
<1>4. DrawnLast(r)
  <2> SUFFICES ASSUME r # <<>> PROVE r[Len(r)].type = "addition"
    BY DEF DrawnLast
  <2>1. Len(r) \in 1..Len(r) /\ Len(r) + 1 = Len(q)
    BY <1>0, <1>1
  <2>2. r[Len(r)] = q[Len(q)]
    BY <1>2, <2>1
  <2> QED BY <2>2 DEF DrawnLast
<1>5. LastInfo(r, c)
  <2> SUFFICES ASSUME NEW i \in 1..Len(r), r[i].type = "info",
                      \A j \in 1..Len(r) : i < j => r[j].type # "info"
               PROVE  r[i].prod = c.prod /\ r[i].list = c.list
    BY DEF LastInfo
  <2>1. i + 1 \in 1..Len(q) /\ r[i] = q[i + 1]
    BY <1>2
  <2>2. ASSUME NEW j \in 1..Len(q), i + 1 < j PROVE q[j].type # "info"
    <3>1. j # 1 /\ i < j - 1
      BY <1>1, <2>2
    <3>2. j - 1 \in 1..Len(r) /\ r[j - 1] = q[j]
      BY <1>3, <3>1
    <3> QED BY <3>1, <3>2
  <2> QED BY <2>1, <2>2 DEF LastInfo
<1>6. ASSUME Head(q).type = "info" PROVE r # <<>>
  <2> SUFFICES ASSUME r = <<>> PROVE FALSE
    OBVIOUS
  <2>1. Len(q) = 1
    BY <1>00, <1>1
  <2>2. q[1].type = "addition"
    BY <2>1 DEF DrawnLast
  <2>3. "info" # "addition"
    OBVIOUS
  <2> QED BY <1>1, <1>6, <2>2, <2>3
<1>7. ASSUME Head(q).type = "info", NoInfo(r) PROVE Head(q).prod = c.prod /\ Head(q).list = c.list
  <2>1. 1 \in 1..Len(q) /\ q[1].type = "info"
    BY <1>1, <1>7
  <2>2. ASSUME NEW j \in 1..Len(q), 1 < j PROVE q[j].type # "info"
    <3>1. j - 1 \in 1..Len(r) /\ r[j - 1] = q[j]
      BY <1>3, <2>2
    <3> QED BY <1>7, <3>1 DEF NoInfo
  <2> QED BY <1>1, <2>1, <2>2 DEF LastInfo
<1>8. ASSUME Head(q).type # "info", NoInfo(r) PROVE NoInfo(q)
  <2> SUFFICES ASSUME NEW i \in 1..Len(q) PROVE q[i].type # "info"
    BY DEF NoInfo
  <2>1. CASE i = 1
    BY <1>1, <1>8, <2>1
  <2>2. CASE i # 1
    BY <1>3, <1>8, <2>2 DEF NoInfo
  <2> QED BY <2>1, <2>2
<1> QED BY <1>1, <1>4, <1>5, <1>6, <1>7, <1>8 DEF r

-----------------------------------------------------------------------------
\* What a button makes of the tab t: its production stays.
Edits(t, u) == u \in Tabs /\ Ascends(u.sel) /\ u.prod = t.prod

LEMMA TabParts ==
  ASSUME NEW t \in Tabs
  PROVE  /\ t.prod \in Item /\ t.list \in Lists /\ t.sel \in Seq(Nat) /\ t.picks \in Seq(Item)
         /\ t.drawn \in Nat /\ Len(t.sel) \in Nat /\ Len(t.picks) \in Nat
         /\ DOMAIN t.sel = 1..Len(t.sel) /\ DOMAIN t.picks = 1..Len(t.picks)
<1>1. /\ t.prod \in Item /\ t.list \in Lists /\ t.sel \in Seq(Nat) /\ t.picks \in Seq(Item)
      /\ t.drawn \in Nat
  BY DEF Tabs
<1> QED BY <1>1

LEMMA Edited ==
  ASSUME NEW t \in Tabs, NEW l \in Lists, NEW sel \in Seq(Nat), Ascends(sel)
  PROVE  Edits(t, [t EXCEPT !.list = l, !.sel = sel])
BY DEF Tabs, Edits

LEMMA Picks == ASSUME NEW t \in Tabs PROVE t.picks \in Lists
BY TabParts DEF Lists

LEMMA Reversed ==
  ASSUME NEW s \in Seq(Nat) PROVE Reverse(s) \in Seq(Nat) /\ Len(Reverse(s)) = Len(s)
<1>1. Len(s) \in Nat /\ \A i \in 1..Len(s) : (Len(s) - i) + 1 \in 1..Len(s)
  OBVIOUS
<1>2. Reverse(s) \in [1..Len(s) -> Nat]
  BY <1>1 DEF Reverse
<1> QED BY <1>1, <1>2

LEMMA Downs ==
  ASSUME NEW t \in Tabs, Ascends(t.sel) PROVE Edits(t, MovesDown(t))
<1> DEFINE ks == Reverse(t.sel)
           l == ForEach("down", t, t.list, ks)
<1>1. ks \in Seq(Nat) /\ Len(ks) \in Nat
  BY TabParts, Reversed
<1> HIDE DEF ks
<1>2. \A m \in Lists, i \in 1..Len(ks) : ForOne("down", t, m, ks[i]) \in Lists
  <2> SUFFICES ASSUME NEW m \in Lists, NEW i \in 1..Len(ks) PROVE ForOne("down", t, m, ks[i]) \in Lists
    OBVIOUS
  <2>1. ks[i] \in Nat /\ ks[i] + 1 \in Nat
    BY <1>1
  <2>2. ForOne("down", t, m, ks[i]) = Swap(m, ks[i], ks[i] + 1)
    BY DEF ForOne
  <2> QED BY <2>1, <2>2, SwapIsList
<1>3. l \in Lists
  BY <1>1, <1>2, TabParts, ForEachKeeps
<1>4. Shifted(t.sel, 1) \in Seq(Nat) /\ Ascends(Shifted(t.sel, 1))
  BY TabParts, ShiftedAscends
<1>5. MovesDown(t) = [t EXCEPT !.list = l, !.sel = Shifted(t.sel, 1)]
  BY DEF MovesDown, ks
<1> HIDE DEF l
<1> QED BY <1>3, <1>4, <1>5, Edited

LEMMA Ups ==
  ASSUME NEW t \in Tabs, Ascends(t.sel), t.sel # <<>> PROVE Edits(t, MovesUp(t))
<1> DEFINE rest == IF Produces(t) THEN Tail(t.sel) ELSE t.sel
           list == IF Produces(t) THEN Put(t.list, 0, t.prod) ELSE t.list
           l == ForEach("up", t, list, rest)
<1>1. list \in Lists
  <2>1. t.prod \in Thing
    BY TabParts DEF Thing
  <2> QED BY <2>1, TabParts, PutIsList
<1>2. /\ rest \in Seq(Nat) /\ Ascends(rest) /\ Len(rest) \in Nat
      /\ \A k \in 1..Len(rest) : rest[k] + (-1) \in Nat /\ rest[k] - 1 \in Nat
  <2>0. /\ t.sel \in Seq(Nat) /\ Len(t.sel) \in Nat /\ Len(t.sel) >= 1
        /\ \A k \in 1..Len(t.sel) : t.sel[k] \in Nat
    BY TabParts
  <2>1. CASE Produces(t)
    <3>1. rest = Tail(t.sel)
      BY <2>1
    <3> HIDE DEF rest
    <3>2. /\ rest \in Seq(Nat) /\ Len(rest) = Len(t.sel) - 1 /\ Len(rest) \in Nat
      BY <2>0, <3>1
    <3>3. \A k \in 1..Len(rest) : rest[k] = t.sel[k + 1] /\ k + 1 \in 1..Len(t.sel) /\ rest[k] \in Nat
      BY <2>0, <3>1, <3>2
    <3>4. Ascends(rest)
      <4> SUFFICES ASSUME NEW i \in 1..Len(rest), NEW j \in 1..Len(rest), i < j PROVE rest[i] < rest[j]
        BY DEF Ascends
      <4>1. i + 1 < j + 1
        BY <3>2
      <4> QED BY <3>3, <4>1 DEF Ascends
    <3>5. ASSUME NEW k \in 1..Len(rest) PROVE rest[k] + (-1) \in Nat /\ rest[k] - 1 \in Nat
      <4>1. 1 \in 1..Len(t.sel) /\ 1 < k + 1 /\ t.sel[1] \in Nat
        BY <2>0, <3>2
      <4>2. t.sel[1] < rest[k]
        BY <3>3, <4>1 DEF Ascends
      <4> QED BY <3>3, <4>1, <4>2
    <3> QED BY <3>2, <3>4, <3>5
  <2>2. CASE ~Produces(t)
    <3>1. rest = t.sel /\ t.sel[1] # 0
      BY <2>2 DEF Produces
    <3> HIDE DEF rest
    <3>2. ASSUME NEW k \in 1..Len(t.sel) PROVE t.sel[k] + (-1) \in Nat /\ t.sel[k] - 1 \in Nat
      <4>1. 1 \in 1..Len(t.sel) /\ t.sel[1] \in Nat /\ t.sel[1] # 0 /\ t.sel[k] \in Nat
        BY <2>0, <3>1
      <4>2. CASE k = 1
        BY <4>1, <4>2
      <4>3. CASE k # 1
        <5>1. 1 < k
          BY <4>3, <2>0
        <5>2. t.sel[1] < t.sel[k]
          BY <4>1, <5>1 DEF Ascends
        <5> QED BY <4>1, <5>2
      <4> QED BY <4>2, <4>3
    <3> QED BY <2>0, <3>1, <3>2
  <2> QED BY <2>1, <2>2
<1>5. MovesUp(t) = [t EXCEPT !.list = l, !.sel = Shifted(rest, -1)]
  BY DEF MovesUp
<1> HIDE DEF rest, list
<1>3. l \in Lists
  <2>1. \A m \in Lists, i \in 1..Len(rest) : ForOne("up", t, m, rest[i]) \in Lists
    <3> SUFFICES ASSUME NEW m \in Lists, NEW i \in 1..Len(rest) PROVE ForOne("up", t, m, rest[i]) \in Lists
      OBVIOUS
    <3>1. rest[i] \in Nat /\ rest[i] - 1 \in Nat
      BY <1>2
    <3>2. ForOne("up", t, m, rest[i]) = Swap(m, rest[i] - 1, rest[i])
      BY DEF ForOne
    <3> QED BY <3>1, <3>2, SwapIsList
  <2> QED BY <1>1, <1>2, <2>1, ForEachKeeps
<1>4. Shifted(rest, -1) \in Seq(Nat) /\ Ascends(Shifted(rest, -1))
  <2>1. -1 \in Int
    OBVIOUS
  <2> QED BY <1>2, <2>1, ShiftedAscends
<1> HIDE DEF l
<1> QED BY <1>3, <1>4, <1>5, Edited

LEMMA Counted ==
  ASSUME NEW n \in Nat, NEW b \in Nat
  PROVE  LET s == [k \in 1..n |-> b + k - 1] IN s \in Seq(Nat) /\ Ascends(s)
<1> DEFINE s == [k \in 1..n |-> b + k - 1]
<1>1. s \in [1..n -> Nat]
  OBVIOUS
<1>2. s \in Seq(Nat) /\ Len(s) = n
  BY <1>1
<1>3. Ascends(s)
  BY <1>2 DEF Ascends
<1> QED BY <1>2, <1>3

LEMMA Insertions ==
  ASSUME NEW t \in Tabs, Ascends(t.sel) PROVE Edits(t, Inserts(t))
<1> DEFINE n == Len(Clip(t.picks))
<1>0. n \in Nat
  BY Picks, ClipIsList DEF Lists
<1>1. CASE t.sel = <<>>
  <2> DEFINE l == t.picks \o t.list
             s == [k \in 1..n |-> k - 1]
  <2>1. l \in Lists
    BY TabParts, Picks DEF Lists
  <2>4. Inserts(t) = [t EXCEPT !.list = l, !.sel = s]
    BY <1>1 DEF Inserts
  <2> HIDE DEF n
  <2>2. s = [k \in 1..n |-> 0 + k - 1]
    BY <1>0
  <2>3. s \in Seq(Nat) /\ Ascends(s)
    BY <2>2, <1>0, Counted
  <2> HIDE DEF l, s
  <2> QED BY <2>1, <2>3, <2>4, Edited
<1>2. CASE t.sel # <<>>
  <2> DEFINE l == Splice(t.list, t.sel[1], 0, t.picks)
             s == Shifted(t.sel, n)
  <2>1. t.sel[1] \in Nat /\ 0 \in Nat
    BY <1>2, TabParts
  <2>2. l \in Lists
    BY <2>1, TabParts, Picks, SpliceIsList
  <2>5. Inserts(t) = [t EXCEPT !.list = l, !.sel = s]
    BY <1>2 DEF Inserts
  <2> HIDE DEF n
  <2>3. n \in Int /\ \A k \in 1..Len(t.sel) : t.sel[k] + n \in Nat
    BY <1>0, TabParts
  <2>4. s \in Seq(Nat) /\ Ascends(s)
    BY <2>3, TabParts, ShiftedAscends
  <2> HIDE DEF l, s
  <2> QED BY <2>2, <2>4, <2>5, Edited
<1> QED BY <1>1, <1>2

LEMMA Exchanged ==
  ASSUME NEW t \in Tabs, Ascends(t.sel), Len(t.picks) = Len(t.sel) \/ Len(t.sel) = 1
  PROVE  Edits(t, Exchanges(t))
<1>1. CASE Len(t.picks) = Len(t.sel)
  <2> DEFINE ks == [k \in DOMAIN t.sel |-> k]
             l == ForEach("exchange", t, t.list, ks)
  <2>1. Len(ks) = Len(t.sel) /\ Len(ks) \in Nat /\ \A i \in 1..Len(ks) : ks[i] = i
    <3>1. ks = [k \in 1..Len(t.sel) |-> k] /\ Len(t.sel) \in Nat
      BY TabParts
    <3>2. ks \in [1..Len(t.sel) -> Nat]
      BY <3>1
    <3>3. ks \in Seq(Nat) /\ Len(ks) = Len(t.sel)
      BY <3>1, <3>2
    <3> QED BY <3>1, <3>3
  <2>0. Exchanges(t) = [t EXCEPT !.list = l]
    BY <1>1 DEF Exchanges
  <2> HIDE DEF ks
  <2>2. \A m \in Lists, i \in 1..Len(ks) : ForOne("exchange", t, m, ks[i]) \in Lists
    <3> SUFFICES ASSUME NEW m \in Lists, NEW i \in 1..Len(ks)
                 PROVE  ForOne("exchange", t, m, ks[i]) \in Lists
      OBVIOUS
    <3>1. i \in 1..Len(t.sel) /\ i \in 1..Len(t.picks) /\ ks[i] = i
      BY <1>1, <2>1
    <3>2. t.sel[i] \in Nat /\ t.picks[i] \in Thing
      BY <3>1, TabParts DEF Thing
    <3>3. ForOne("exchange", t, m, ks[i]) = Put(m, t.sel[i], t.picks[i])
      BY <3>1 DEF ForOne
    <3> QED BY <3>2, <3>3, PutIsList
  <2>3. l \in Lists
    BY <2>1, <2>2, TabParts, ForEachKeeps
  <2> HIDE DEF l
  <2>4. t.sel \in Seq(Nat)
    BY TabParts
  <2>5. [t EXCEPT !.list = l] \in Tabs
    BY <2>3 DEF Tabs
  <2>6. [t EXCEPT !.list = l].sel = t.sel /\ [t EXCEPT !.list = l].prod = t.prod
    BY DEF Tabs
  <2> QED BY <2>0, <2>5, <2>6 DEF Edits
<1>2. CASE Len(t.picks) # Len(t.sel)
  <2> DEFINE l == Splice(t.list, t.sel[1], 1, t.picks)
             s == [k \in DOMAIN t.picks |-> t.sel[1] + k - 1]
  <2>1. t.sel[1] \in Nat /\ 1 \in Nat
    BY <1>2, TabParts
  <2>2. l \in Lists
    BY <2>1, TabParts, Picks, SpliceIsList
  <2>3. s = [k \in 1..Len(t.picks) |-> t.sel[1] + k - 1]
    BY TabParts
  <2>4. s \in Seq(Nat) /\ Ascends(s)
    BY <2>1, <2>3, TabParts, Counted
  <2>5. Exchanges(t) = [t EXCEPT !.list = l, !.sel = s]
    BY <1>2 DEF Exchanges
  <2> HIDE DEF l, s
  <2> QED BY <2>2, <2>4, <2>5, Edited
<1> QED BY <1>1, <1>2

LEMMA Deletion ==
  ASSUME NEW t \in Tabs, Ascends(t.sel) PROVE Edits(t, Removes(t))
<1> DEFINE ks == Reverse(t.sel)
           l == ForEach("remove", t, t.list, ks)
<1>1. ks \in Seq(Nat) /\ Len(ks) \in Nat
  BY TabParts, Reversed
<1>5. Removes(t) = [t EXCEPT !.list = l, !.sel = <<>>]
  BY DEF Removes
<1> HIDE DEF ks
<1>2. \A m \in Lists, i \in 1..Len(ks) : ForOne("remove", t, m, ks[i]) \in Lists
  <2> SUFFICES ASSUME NEW m \in Lists, NEW i \in 1..Len(ks) PROVE ForOne("remove", t, m, ks[i]) \in Lists
    OBVIOUS
  <2>1. ks[i] \in Nat /\ 1 \in Nat /\ <<>> \in Lists
    BY <1>1 DEF Lists
  <2>2. ForOne("remove", t, m, ks[i]) = Splice(m, ks[i], 1, <<>>)
    BY DEF ForOne
  <2> QED BY <2>1, <2>2, SpliceIsList
<1>3. l \in Lists
  BY <1>1, <1>2, TabParts, ForEachKeeps
<1>4. <<>> \in Seq(Nat) /\ Ascends(<<>>)
  BY DEF Ascends
<1> HIDE DEF l
<1> QED BY <1>3, <1>4, <1>5, Edited

LEMMA DrawnTab ==
  ASSUME NEW t \in Tabs, Ascends(t.sel)
  PROVE  Edits(t, Drawn(t)) /\ Fits(Drawn(t)) /\ Drawn(t).list = t.list
<1> DEFINE s == Those(t.sel, {k \in 0..(MaxLen - 1) : k < Len(t.list)})
           n == Len(t.list)
<1>1. s \in Seq(Nat) /\ Ascends(s) /\ \A i \in 1..Len(s) : s[i] < n
  <2> DEFINE G == {k \in 0..(MaxLen - 1) : k < n}
  <2> HIDE DEF n
  <2>1. Those(t.sel, G) \in Seq(Nat) /\ Ascends(Those(t.sel, G))
        /\ \A i \in 1..Len(Those(t.sel, G)) : Those(t.sel, G)[i] \in G
    <3> HIDE DEF G
    <3> QED BY TabParts, ThoseAscend
  <2> QED BY <2>1 DEF n
<1>2. Drawn(t) = [t EXCEPT !.sel = s, !.drawn = n]
  BY DEF Drawn
<1>3. n \in Nat
  BY TabParts DEF Lists
<1> HIDE DEF s, n
<1>4. Drawn(t) \in Tabs /\ Drawn(t).sel = s /\ Drawn(t).drawn = n /\ Drawn(t).list = t.list
      /\ Drawn(t).prod = t.prod
  BY <1>1, <1>2, <1>3 DEF Tabs
<1> QED BY <1>1, <1>3, <1>4 DEF Edits, Fits, n

-----------------------------------------------------------------------------
\* The selections change, the rest of the tab does not.
LEMMA SelectsKeeps ==
  ASSUME ListInv, NEW t \in Tabs, Ascends(t.sel), Selects(t),
         t.list = tab.list, t.prod = tab.prod, Fits(tab) => Fits(t) \/ Lost(t)
  PROVE  ListInv'
<1>1. tab' = t /\ UNCHANGED <<sent, coming, city, edits, news>>
  BY DEF Selects
<1>2. TabOK'
  BY <1>1 DEF TabOK
<1>3. SentOK' /\ ComingOK' /\ CityOK' /\ CountsOK'
  BY <1>1 DEF ListInv, SentOK, ComingOK, CityOK, CountsOK
<1>4. Lost(t) <=> Lost(tab)
  BY DEF Lost
<1>5. ListShows'
  BY <1>1, <1>4 DEF ListInv, ListShows
<1>6. ListFits'
  BY <1>1, <1>4 DEF ListInv, ListFits
<1> QED BY <1>2, <1>3, <1>5, <1>6 DEF ListInv

LEMMA CountUp == ASSUME CountsOK, edits < MaxEdits, edits' = edits + 1, news' = news PROVE CountsOK'
BY WorklistAssumption DEF CountsOK

\* Packets that leave the tab as it is.
LEMMA SendsKeeps ==
  ASSUME ListInv, NEW p \in SentPackets, p.type # "list", Sends(tab, <<p>>)
  PROVE  ListInv'
<1>1. tab' = tab /\ sent' = sent \o <<p>> /\ UNCHANGED <<coming, city, news>>
  BY DEF Sends
<1>2. TabOK' /\ ComingOK' /\ CityOK'
  BY <1>1 DEF ListInv, TabOK, ComingOK, CityOK
<1>3. CountsOK'
  BY CountUp DEF Sends, ListInv
<1>4. <<p>> \in Seq(SentPackets) /\ ShortLists(<<p>>)
  BY DEF ShortLists
<1>5. SentOK' /\ \A l : OnItsWay(sent, l) => OnItsWay(sent', l)
  BY <1>1, <1>4, MoreSent DEF ListInv, SentOK
<1>6. ListShows' /\ ListFits'
  BY <1>1, <1>5 DEF ListInv, ListShows, ListFits
<1> QED BY <1>2, <1>3, <1>5, <1>6 DEF ListInv

\* An edited list is on its way as soon as it is shown.
LEMMA SendListKeeps ==
  ASSUME ListInv, NEW t, Edits(tab, t), NEW before \in Seq(SentPackets), ShortLists(before),
         SendList(t, before)
  PROVE  ListInv'
<1> DEFINE l == Clip(t.list)
           u == [t EXCEPT !.list = l]
           p == [type |-> "list", list |-> l]
           r == Append(before, p)
<1>1. t \in Tabs /\ Ascends(t.sel) /\ t.prod = tab.prod
  BY DEF Edits
<1>2. l \in Lists /\ Len(l) <= MaxLen
  BY <1>1, TabParts, ClipIsList
<1>3. Sends(u, r)
  <2>1. [t EXCEPT !.list = Clip(@)] = u /\ u.list = l
    BY <1>1 DEF Tabs
  <2> QED BY <2>1 DEF SendList
<1> HIDE DEF l
<1>4. u \in Tabs /\ u.list = l /\ u.sel = t.sel /\ u.prod = t.prod
  BY <1>1, <1>2 DEF Tabs
<1>5. p \in SentPackets /\ p.type = "list" /\ p.list = l
  BY <1>2 DEF SentPackets
<1> HIDE DEF u, p
<1>6. r \in Seq(SentPackets) /\ ShortLists(r) /\ OnItsWay(r, l)
  <2>1. <<p>> \in Seq(SentPackets) /\ ShortLists(<<p>>)
    BY <1>2, <1>5 DEF ShortLists
  <2>2. OnItsWay(<<p>>, l)
    <3>1. 1 \in 1..Len(<<p>>) /\ <<p>>[1] = p
      OBVIOUS
    <3> QED BY <1>5, <3>1 DEF OnItsWay
  <2>3. r = before \o <<p>>
    OBVIOUS
  <2> QED BY <2>1, <2>2, <2>3, MoreSent
<1> HIDE DEF r
<1>7. tab' = u /\ sent' = sent \o r /\ UNCHANGED <<coming, city, news>>
  BY <1>3 DEF Sends
<1>8. SentOK' /\ OnItsWay(sent', l)
  BY <1>6, <1>7, MoreSent DEF ListInv, SentOK
<1>9. CountsOK'
  BY <1>3, CountUp DEF Sends, ListInv
<1>10. TabOK' /\ ComingOK' /\ CityOK'
  BY <1>1, <1>4, <1>7 DEF ListInv, TabOK, ComingOK, CityOK
<1>11. ListShows' /\ ListFits'
  BY <1>1, <1>4, <1>7, <1>8 DEF ListInv, ListShows, ListFits
<1> QED BY <1>8, <1>9, <1>10, <1>11 DEF ListInv

\* The civserver has changed the city and tells it.
LEMMA TellsKeeps ==
  ASSUME ListInv, NEW c \in Cities, Len(c.list) <= MaxLen, Tells_city(c), SentOK', CountsOK', tab' = tab
  PROVE  ListInv'
<1>1. city' = c /\ coming' = coming \o Infos(c)
  BY DEF Tells_city
<1>2. coming \in Seq(NewsPackets)
  BY DEF ListInv, ComingOK
<1> DEFINE r == coming \o Infos(c)
<1>3. r \in Seq(NewsPackets) /\ DrawnLast(r) /\ LastInfo(r, c) /\ ~NoInfo(r) /\ r # <<>>
  BY <1>2, CityTold
<1> HIDE DEF r
<1>4. coming' = r
  BY <1>1 DEF r
<1>5. ComingOK' /\ ListShows' /\ ListFits'
  BY <1>1, <1>3, <1>4 DEF ComingOK, ListShows, ListFits
<1> QED BY <1>1, <1>5 DEF ListInv, TabOK, CityOK

LEMMA Taken ==
  ASSUME ListInv, NEW type, TakesPacket(type)
  PROVE  /\ SentOK' /\ CountsOK' /\ TabOK' /\ tab' = tab
         /\ Head(sent) \in SentPackets /\ Head(sent).type = type
         /\ type = "list" => Len(Head(sent).list) <= MaxLen
         /\ \A l : OnItsWay(sent, l) => (type = "list" /\ Head(sent).list = l) \/ OnItsWay(sent', l)
<1>1. sent # <<>> /\ Head(sent).type = type /\ sent' = Tail(sent) /\ UNCHANGED <<tab, edits, news>>
  BY DEF TakesPacket
<1>2. sent \in Seq(SentPackets) /\ ShortLists(sent)
  BY DEF ListInv, SentOK
<1>3. CountsOK' /\ TabOK'
  BY <1>1 DEF ListInv, CountsOK, TabOK
<1> QED BY <1>1, <1>2, <1>3, LessSent DEF SentOK

\* A packet that changes nothing.
LEMMA RefusedKeeps ==
  ASSUME ListInv, NEW type, TakesPacket(type), UNCHANGED <<city, coming>>,
         type = "list" => Contains(Head(sent).list, Hole)
  PROVE  ListInv'
<1>1. /\ SentOK' /\ CountsOK' /\ TabOK' /\ tab' = tab
      /\ \A l : OnItsWay(sent, l) => (type = "list" /\ Head(sent).list = l) \/ OnItsWay(sent', l)
  BY Taken
<1>2. OnItsWay(sent, tab.list) => OnItsWay(sent', tab.list) \/ Lost(tab)
  BY <1>1 DEF Lost
<1>3. ListShows' /\ ListFits'
  BY <1>1, <1>2 DEF ListInv, ListShows, ListFits, Lost
<1>4. ComingOK' /\ CityOK'
  BY DEF ListInv, ComingOK, CityOK
<1> QED BY <1>1, <1>3, <1>4 DEF ListInv

LEMMA Altered ==
  ASSUME ListInv, handle_city_change PROVE ListInv'
<1> DEFINE x == Head(sent).item
<1>1. TakesPacket("change")
  BY DEF handle_city_change
<1>2. SentOK' /\ CountsOK' /\ tab' = tab /\ Head(sent) \in SentPackets /\ Head(sent).type = "change"
  BY <1>1, Taken
<1>3. x \in Item
  BY <1>2 DEF SentPackets
<1> HIDE DEF x
<1>4. CASE UNCHANGED <<city, coming>>
  BY <1>1, <1>4, RefusedKeeps
<1>5. CASE Tells_city([city EXCEPT !.prod = x])
  <2> DEFINE c == [city EXCEPT !.prod = x]
  <2>1. c \in Cities /\ Len(c.list) <= MaxLen
    BY <1>3 DEF ListInv, CityOK, Cities
  <2> HIDE DEF c
  <2> QED BY <1>2, <1>5, <2>1, TellsKeeps DEF c
<1> QED BY <1>4, <1>5 DEF handle_city_change, x

LEMMA Listened ==
  ASSUME ListInv, handle_city_worklist PROVE ListInv'
<1> DEFINE l == Head(sent).list
<1>1. TakesPacket("list")
  BY DEF handle_city_worklist
<1>2. /\ SentOK' /\ CountsOK' /\ tab' = tab /\ Head(sent) \in SentPackets
      /\ Head(sent).type = "list" /\ Len(l) <= MaxLen
  BY <1>1, Taken
<1>3. l \in Lists
  BY <1>2 DEF SentPackets
<1>4. CASE Contains(l, Hole)
  <2>1. UNCHANGED <<city, coming>>
    BY <1>4 DEF handle_city_worklist
  <2> QED BY <1>1, <1>4, <2>1, RefusedKeeps
<1>5. CASE ~Contains(l, Hole)
  <2> DEFINE c == [city EXCEPT !.list = l]
  <2>1. Tells_city(c)
    BY <1>5 DEF handle_city_worklist
  <2> HIDE DEF l
  <2>2. l \in Seq(Item)
    <3>1. Len(l) \in Nat /\ DOMAIN l = 1..Len(l) /\ \A i \in 1..Len(l) : l[i] \in Item \cup {Hole}
      BY <1>3 DEF Lists
    <3>2. \A i \in 1..Len(l) : l[i] \in Item
      BY <1>5, <3>1 DEF Contains
    <3>3. l = [i \in 1..Len(l) |-> l[i]]
      BY <1>3 DEF Lists
    <3>4. l \in [1..Len(l) -> Item]
      BY <3>2, <3>3
    <3> QED BY <3>1, <3>4
  <2>3. c \in Cities /\ Len(c.list) <= MaxLen
    BY <1>2, <2>2 DEF ListInv, CityOK, Cities
  <2> HIDE DEF c
  <2> QED BY <1>2, <2>1, <2>3, TellsKeeps
<1> QED BY <1>4, <1>5

LEMMA Bought == ASSUME ListInv, handle_city_buy PROVE ListInv'
<1> DEFINE c == [city EXCEPT !.bought = TRUE]
<1>1. TakesPacket("buy") /\ Tells_city(c)
  BY DEF handle_city_buy
<1>2. c \in Cities /\ Len(c.list) <= MaxLen
  BY DEF ListInv, CityOK, Cities
<1> HIDE DEF c
<1>3. SentOK' /\ CountsOK' /\ tab' = tab
  BY <1>1, Taken
<1> QED BY <1>1, <1>2, <1>3, TellsKeeps

LEMMA TurnChanges == ASSUME ListInv, TurnChange PROVE ListInv'
<1> DEFINE c == IF city.list = <<>> THEN [city EXCEPT !.bought = FALSE]
                ELSE [prod |-> Head(city.list), list |-> Tail(city.list), bought |-> FALSE]
<1>1. news < MaxNews /\ news' = news + 1 /\ Tells_city(c) /\ UNCHANGED <<tab, sent, edits>>
  BY DEF TurnChange
<1>2. city \in Cities /\ Len(city.list) <= MaxLen /\ city.list \in Seq(Item)
  BY DEF ListInv, CityOK, Cities
<1>3. c \in Cities /\ Len(c.list) <= MaxLen
  <2>1. CASE city.list = <<>>
    BY <1>2, <2>1 DEF Cities
  <2>2. CASE city.list # <<>>
    <3> DEFINE h == Head(city.list)
               q == Tail(city.list)
    <3>1. h \in Item /\ q \in Seq(Item) /\ Len(q) = Len(city.list) - 1 /\ Len(city.list) \in Nat
      BY <1>2, <2>2
    <3>2. c = [prod |-> h, list |-> q, bought |-> FALSE]
      BY <2>2
    <3> HIDE DEF h, q, c
    <3>3. c \in Cities /\ c.list = q
      BY <3>1, <3>2 DEF Cities
    <3> QED BY <1>2, <3>1, <3>3, WorklistAssumption
  <2> QED BY <2>1, <2>2
<1> HIDE DEF c
<1>4. SentOK' /\ CountsOK'
  BY <1>1, WorklistAssumption DEF ListInv, SentOK, CountsOK
<1> QED BY <1>1, <1>3, <1>4, TellsKeeps

LEMMA Received ==
  ASSUME ListInv, NEW type, Receives(type)
  PROVE  /\ SentOK' /\ CountsOK' /\ CityOK' /\ ComingOK' /\ UNCHANGED <<sent, city>>
         /\ Head(coming) \in NewsPackets /\ Head(coming).type = type
         /\ type = "info" =>
              /\ coming' # <<>>
              /\ NoInfo(coming') => Head(coming).prod = city.prod /\ Head(coming).list = city.list
         /\ type # "info" /\ NoInfo(coming') => NoInfo(coming)
<1>1. coming # <<>> /\ Head(coming).type = type /\ coming' = Tail(coming)
      /\ UNCHANGED <<sent, city, edits, news>>
  BY DEF Receives
<1>2. coming \in Seq(NewsPackets) /\ DrawnLast(coming) /\ LastInfo(coming, city)
  BY DEF ListInv, ComingOK
<1>3. SentOK' /\ CountsOK' /\ CityOK'
  BY <1>1 DEF ListInv, SentOK, CountsOK, CityOK
<1> QED BY <1>1, <1>2, <1>3, CityHeard DEF ComingOK

LEMMA InfoComes == ASSUME ListInv, handle_city_info PROVE ListInv'
<1> DEFINE r == Head(coming)
<1>1. Receives("info") /\ tab' = [tab EXCEPT !.prod = r.prod, !.list = r.list]
  BY DEF handle_city_info
<1>2. /\ SentOK' /\ CountsOK' /\ CityOK' /\ ComingOK' /\ UNCHANGED <<sent, city>>
      /\ r \in NewsPackets /\ r.type = "info" /\ coming' # <<>>
      /\ NoInfo(coming') => r.prod = city.prod /\ r.list = city.list
  BY <1>1, Received
<1> HIDE DEF r
<1>3. r.prod \in Item /\ r.list \in Lists
  <2>1. r.prod \in Item /\ r.list \in Seq(Item)
    BY <1>2 DEF NewsPackets
  <2> QED BY <2>1 DEF Lists
<1>4. tab' \in Tabs /\ tab'.sel = tab.sel /\ tab'.prod = r.prod /\ tab'.list = r.list
  BY <1>1, <1>3 DEF ListInv, TabOK, Tabs
<1>5. TabOK'
  BY <1>4 DEF ListInv, TabOK
<1>6. ListShows' /\ ListFits'
  BY <1>2, <1>4 DEF ListShows, ListFits
<1> QED BY <1>2, <1>5, <1>6 DEF ListInv

LEMMA DialogIsDrawn == ASSUME ListInv, handle_web_city_info_addition PROVE ListInv'
<1>1. Receives("addition") /\ tab' = Drawn(tab)
  BY DEF handle_web_city_info_addition
<1>2. /\ SentOK' /\ CountsOK' /\ CityOK' /\ ComingOK' /\ UNCHANGED <<sent, city>>
      /\ NoInfo(coming') => NoInfo(coming)
  BY <1>1, Received
<1>3. Edits(tab, tab') /\ Fits(tab') /\ tab'.list = tab.list
  BY <1>1, DrawnTab DEF ListInv, TabOK
<1>4. TabOK' /\ ListShows' /\ ListFits'
  BY <1>2, <1>3 DEF ListInv, Edits, TabOK, ListShows, ListFits, Lost
<1> QED BY <1>2, <1>4 DEF ListInv

-----------------------------------------------------------------------------
LEMMA FitsWith ==
  ASSUME NEW t \in Tabs, NEW s \in Seq(Nat), Ascends(s),
         Fits(t) => \A k \in 1..Len(s) : s[k] < Len(t.list)
  PROVE  LET u == [t EXCEPT !.sel = s]
         IN  /\ u \in Tabs /\ Ascends(u.sel) /\ u.list = t.list /\ u.prod = t.prod
             /\ Fits(t) => Fits(u)
<1> DEFINE u == [t EXCEPT !.sel = s]
<1>1. u \in Tabs /\ u.sel = s /\ u.list = t.list /\ u.prod = t.prod /\ u.drawn = t.drawn
  BY DEF Tabs
<1> HIDE DEF u
<1>2. Ascends(u.sel) /\ (Fits(t) => Fits(u))
  BY <1>1 DEF Fits
<1> QED BY <1>1, <1>2 DEF u

LEMMA TaskSelected == ASSUME ListInv, SelectTask PROVE ListInv'
<1>0. tab \in Tabs /\ Ascends(tab.sel) /\ tab.sel \in Seq(Nat) /\ tab.drawn \in Nat
      /\ Len(tab.list) \in Nat
  <2>1. tab \in Tabs /\ Ascends(tab.sel)
    BY DEF ListInv, TabOK
  <2> QED BY <2>1, TabParts DEF Lists
<1>1. PICK i \in 0..(tab.drawn - 1) :
        \/ Selects([tab EXCEPT !.sel = Selected(@, i)])
        \/ Selects([tab EXCEPT !.sel = Unselected(@, i)])
        \/ Selects([tab EXCEPT !.sel = IF @ = <<i>> THEN <<>> ELSE <<i>>])
  BY DEF SelectTask
<1>2. i \in Nat /\ (Fits(tab) => i < Len(tab.list))
  BY <1>0 DEF Fits
<1>3. ASSUME NEW s \in Seq(Nat), Ascends(s), Selects([tab EXCEPT !.sel = s]),
             \A k \in 1..Len(s) : s[k] = i \/ \E j \in 1..Len(tab.sel) : s[k] = tab.sel[j]
      PROVE  ListInv'
  <2> DEFINE u == [tab EXCEPT !.sel = s]
  <2>1. Fits(tab) => \A k \in 1..Len(s) : s[k] < Len(tab.list)
    BY <1>2, <1>3 DEF Fits
  <2>2. /\ u \in Tabs /\ Ascends(u.sel) /\ u.list = tab.list /\ u.prod = tab.prod
        /\ Fits(tab) => Fits(u)
    BY <1>0, <1>3, <2>1, FitsWith
  <2>3. Selects(u)
    BY <1>3
  <2> HIDE DEF u
  <2> QED BY <2>2, <2>3, SelectsKeeps
<1>4. CASE Selects([tab EXCEPT !.sel = Selected(@, i)])
  <2> DEFINE s == Selected(tab.sel, i)
  <2>1. s \in Seq(Nat) /\ Ascends(s)
        /\ \A k \in 1..Len(s) : s[k] = i \/ \E j \in 1..Len(tab.sel) : s[k] = tab.sel[j]
    BY <1>0, <1>2, SelectedAscends
  <2>2. Selects([tab EXCEPT !.sel = s])
    BY <1>4
  <2> HIDE DEF s
  <2> QED BY <2>1, <2>2, <1>3
<1>5. CASE Selects([tab EXCEPT !.sel = Unselected(@, i)])
  <2> DEFINE s == Unselected(tab.sel, i)
  <2>1. s \in Seq(Nat) /\ Ascends(s)
    BY <1>0, ThoseAscend DEF Unselected
  <2>3. Picked(s, tab.sel, Nat \ {i}, Len(tab.sel))
    BY <1>0, ThosePicks DEF Unselected
  <2>2. Selects([tab EXCEPT !.sel = s])
    BY <1>5
  <2> HIDE DEF s
  <2>4. \A k \in 1..Len(s) : s[k] = i \/ \E j \in 1..Len(tab.sel) : s[k] = tab.sel[j]
    BY <2>3 DEF Picked
  <2> QED BY <2>1, <2>2, <2>4, <1>3
<1>6. CASE Selects([tab EXCEPT !.sel = IF @ = <<i>> THEN <<>> ELSE <<i>>])
  <2> DEFINE s == IF tab.sel = <<i>> THEN <<>> ELSE <<i>>
  <2>1. s \in Seq(Nat) /\ Ascends(s) /\ \A k \in 1..Len(s) : s[k] = i
    <3>1. CASE s = <<>>
      BY <3>1 DEF Ascends
    <3>2. CASE s = <<i>>
      BY <1>2, <3>2 DEF Ascends
    <3> QED BY <3>1, <3>2
  <2>2. Selects([tab EXCEPT !.sel = s])
    BY <1>6
  <2> HIDE DEF s
  <2> QED BY <2>1, <2>2, <1>3
<1> QED BY <1>1, <1>4, <1>5, <1>6

LEMMA ChoiceSelected == ASSUME ListInv, SelectChoice PROVE ListInv'
<1>0. tab \in Tabs /\ Ascends(tab.sel) /\ tab.picks \in Seq(Item)
  BY TabParts DEF ListInv, TabOK
<1>1. ASSUME NEW q \in Seq(Item), Selects([tab EXCEPT !.picks = q]) PROVE ListInv'
  <2> DEFINE u == [tab EXCEPT !.picks = q]
  <2>1. u \in Tabs /\ u.sel = tab.sel /\ u.list = tab.list /\ u.prod = tab.prod /\ u.drawn = tab.drawn
    BY <1>0 DEF Tabs
  <2>2. Selects(u)
    BY <1>1
  <2> HIDE DEF u
  <2>3. Fits(tab) => Fits(u)
    BY <2>1 DEF Fits
  <2> QED BY <1>0, <2>1, <2>2, <2>3, SelectsKeeps
<1>2. PICK x \in Item : \/ Selects([tab EXCEPT !.picks = Append(@, x)])
                        \/ Selects([tab EXCEPT !.picks = Those(@, Item \ {x})])
  BY DEF SelectChoice
<1>3. Append(tab.picks, x) \in Seq(Item)
  BY <1>0
<1>4. Those(tab.picks, Item \ {x}) \in Seq(Item)
  BY <1>0, ThosePicks
<1> QED BY <1>1, <1>2, <1>3, <1>4

LEMMA DialogShown == ASSUME ListInv, show_city_dialog PROVE ListInv'
<1> DEFINE e == <<>>
<1>0. e \in Seq(Nat) /\ e \in Seq(Item) /\ Ascends(e)
  BY DEF Ascends
<1> DEFINE t == [tab EXCEPT !.sel = e, !.picks = e]
<1>2. Selects(Drawn(t))
  BY DEF show_city_dialog
<1> HIDE DEF e
<1>1. t \in Tabs /\ t.sel = e /\ t.list = tab.list /\ t.prod = tab.prod
  BY <1>0 DEF ListInv, TabOK, Tabs
<1> HIDE DEF t
<1>3. Ascends(t.sel)
  BY <1>0, <1>1
<1>4. Edits(t, Drawn(t)) /\ Fits(Drawn(t)) /\ Drawn(t).list = t.list
  BY <1>1, <1>3, DrawnTab
<1> QED BY <1>1, <1>2, <1>4, SelectsKeeps DEF Edits

LEMMA DialogRedrawn == ASSUME ListInv, RedrawnForAnother PROVE ListInv'
<1>1. tab \in Tabs /\ Ascends(tab.sel)
  BY DEF ListInv, TabOK
<1>2. Edits(tab, Drawn(tab)) /\ Fits(Drawn(tab)) /\ Drawn(tab).list = tab.list
  BY <1>1, DrawnTab
<1> QED BY <1>2, SelectsKeeps DEF RedrawnForAnother, Edits

LEMMA NothingBefore == <<>> \in Seq(SentPackets) /\ ShortLists(<<>>)
BY DEF ShortLists

LEMMA ButtonsKeep == ASSUME ListInv, Buttons PROVE ListInv'
<1>t. tab \in Tabs /\ Ascends(tab.sel)
  BY DEF ListInv, TabOK
<1>p. /\ tab.prod \in Item /\ tab.list \in Lists /\ tab.sel \in Seq(Nat) /\ tab.picks \in Seq(Item)
      /\ tab.drawn \in Nat /\ Len(tab.sel) \in Nat /\ Len(tab.picks) \in Nat
  BY <1>t, TabParts
<1>c. ASSUME NEW x \in Item
      PROVE  ChangePacket(x) \in SentPackets /\ ChangePacket(x).type # "list"
  BY DEF ChangePacket, SentPackets
<1>1. CASE city_change_production
  <2>1. tab.picks[1] \in Item
    BY <1>1, <1>p DEF city_change_production
  <2>2. Sends(tab, <<ChangePacket(tab.picks[1])>>)
    BY <1>1 DEF city_change_production
  <2> QED BY <1>c, <2>1, <2>2, SendsKeeps
<1>2. CASE request_city_buy
  <2> DEFINE p == [type |-> "buy"]
  <2>1. p \in SentPackets /\ p.type # "list"
    BY DEF SentPackets
  <2>2. Sends(tab, <<p>>)
    BY <1>2 DEF request_city_buy
  <2> HIDE DEF p
  <2> QED BY <2>1, <2>2, SendsKeeps
<1>l. ASSUME NEW l \in Lists, SendList([tab EXCEPT !.list = l], <<>>) PROVE ListInv'
  <2> DEFINE u == [tab EXCEPT !.list = l]
  <2>1. u \in Tabs /\ u.sel = tab.sel /\ u.prod = tab.prod
    BY <1>t, <1>l DEF Tabs
  <2>2. SendList(u, <<>>)
    BY <1>l
  <2> HIDE DEF u
  <2>3. Edits(tab, u)
    BY <1>t, <2>1 DEF Edits
  <2> QED BY <2>2, <2>3, NothingBefore, SendListKeeps
<1>3. CASE city_add_to_worklist
  <2>1. tab.list \o tab.picks \in Lists
    BY <1>p DEF Lists
  <2>2. SendList([tab EXCEPT !.list = tab.list \o tab.picks], <<>>)
    BY <1>3 DEF city_add_to_worklist
  <2> QED BY <1>l, <2>1, <2>2
<1>4. CASE send_city_worklist_add
  <2>1. PICK x \in Item : SendList([tab EXCEPT !.list = Append(@, x)], <<>>)
    BY <1>4 DEF send_city_worklist_add
  <2>2. Append(tab.list, x) \in Lists
    BY <1>p DEF Lists
  <2> QED BY <1>l, <2>1, <2>2
<1>5. CASE handle_current_worklist_direct_remove
  <2>1. PICK i \in 0..(tab.drawn - 1) :
          SendList([tab EXCEPT !.list = Splice(@, i, 1, <<>>), !.sel = RemovedSelection(@, i)], <<>>)
    BY <1>5 DEF handle_current_worklist_direct_remove
  <2> DEFINE l == Splice(tab.list, i, 1, <<>>)
             s == RemovedSelection(tab.sel, i)
             u == [tab EXCEPT !.list = l, !.sel = s]
  <2>2. i \in Nat /\ 1 \in Nat /\ <<>> \in Lists
    BY <1>p DEF Lists
  <2>3. l \in Lists
    BY <1>p, <2>2, SpliceIsList
  <2>4. s \in Seq(Nat) /\ Ascends(s)
    BY <1>p, <1>t, <2>2, RemovedAscends
  <2>5. SendList(u, <<>>)
    BY <2>1
  <2> HIDE DEF l, s
  <2>6. Edits(tab, u)
    BY <1>t, <2>3, <2>4, Edited
  <2> HIDE DEF u
  <2> QED BY <2>5, <2>6, NothingBefore, SendListKeeps
<1>6. CASE city_insert_in_worklist
  <2>1. SendList(Inserts(tab), <<>>)
    BY <1>6 DEF city_insert_in_worklist
  <2>2. Edits(tab, Inserts(tab))
    BY <1>t, Insertions
  <2> QED BY <2>1, <2>2, NothingBefore, SendListKeeps
<1>7. CASE city_worklist_task_up
  <2>1. CASE Produces(tab) /\ At(tab.list, 0) = Hole
    <3> DEFINE s == Tail(tab.sel)
               u == [tab EXCEPT !.sel = s]
    <3>1. Selects(u)
      BY <1>7, <2>1 DEF city_worklist_task_up
    <3>2. tab.sel # <<>>
      BY <1>7 DEF city_worklist_task_up
    <3>3. /\ s \in Seq(Nat) /\ Len(s) = Len(tab.sel) - 1 /\ Len(s) \in Nat
      BY <1>p, <3>2
    <3>4. \A k \in 1..Len(s) : s[k] = tab.sel[k + 1] /\ k + 1 \in 1..Len(tab.sel)
      BY <1>p, <3>2, <3>3
    <3> HIDE DEF s
    <3>5. Ascends(s)
      <4> SUFFICES ASSUME NEW i \in 1..Len(s), NEW j \in 1..Len(s), i < j PROVE s[i] < s[j]
        BY DEF Ascends
      <4>1. i + 1 < j + 1
        BY <3>3
      <4> QED BY <1>t, <3>4, <4>1 DEF Ascends
    <3>6. Fits(tab) => \A k \in 1..Len(s) : s[k] < Len(tab.list)
      BY <3>4 DEF Fits
    <3>7. /\ u \in Tabs /\ Ascends(u.sel) /\ u.list = tab.list /\ u.prod = tab.prod
          /\ Fits(tab) => Fits(u)
      BY <1>t, <3>3, <3>5, <3>6, FitsWith
    <3> HIDE DEF u
    <3> QED BY <3>1, <3>7, SelectsKeeps
  <2>2. CASE ~(Produces(tab) /\ At(tab.list, 0) = Hole)
    <3> DEFINE before == IF ChangesProduction(tab) THEN <<ChangePacket(tab.list[1])>> ELSE <<>>
    <3>1. SendList(MovesUp(tab), before) /\ tab.sel # <<>>
      BY <1>7, <2>2 DEF city_worklist_task_up
    <3>2. Edits(tab, MovesUp(tab))
      BY <1>t, <3>1, Ups
    <3>3. before \in Seq(SentPackets) /\ ShortLists(before)
      <4>1. CASE ChangesProduction(tab)
        <5>1. At(tab.list, 0) # Hole
          BY <2>2, <4>1 DEF ChangesProduction
        <5>2. tab.list[1] \in Item
          <6>1. 0 < Len(tab.list)
            BY <5>1 DEF At
          <6>2. At(tab.list, 0) = tab.list[1]
            BY <6>1 DEF At
          <6>3. tab.list[1] \in Item \cup {Hole}
            BY <1>p, <6>1 DEF Lists
          <6> QED BY <5>1, <6>2, <6>3
        <5> DEFINE p == ChangePacket(tab.list[1])
        <5>3. p \in SentPackets /\ p.type # "list"
          BY <1>c, <5>2
        <5>4. before = <<p>>
          BY <4>1
        <5> HIDE DEF p, before
        <5> QED BY <5>3, <5>4 DEF ShortLists
      <4>2. CASE ~ChangesProduction(tab)
        BY <4>2, NothingBefore
      <4> QED BY <4>1, <4>2
    <3> HIDE DEF before
    <3> QED BY <3>1, <3>2, <3>3, SendListKeeps
  <2> QED BY <2>1, <2>2
<1>8. CASE city_worklist_task_down
  <2>1. SendList(MovesDown(tab), <<>>)
    BY <1>8 DEF city_worklist_task_down
  <2>2. Edits(tab, MovesDown(tab))
    BY <1>t, Downs
  <2> QED BY <2>1, <2>2, NothingBefore, SendListKeeps
<1>9. CASE city_exchange_worklist_task
  <2>1. SendList(Exchanges(tab), <<>>) /\ (Len(tab.picks) = Len(tab.sel) \/ Len(tab.sel) = 1)
    BY <1>9 DEF city_exchange_worklist_task
  <2>2. Edits(tab, Exchanges(tab))
    BY <1>t, <2>1, Exchanged
  <2> QED BY <2>1, <2>2, NothingBefore, SendListKeeps
<1>10. CASE city_worklist_task_remove
  <2>1. SendList(Removes(tab), <<>>)
    BY <1>10 DEF city_worklist_task_remove
  <2>2. Edits(tab, Removes(tab))
    BY <1>t, Deletion
  <2> QED BY <2>1, <2>2, NothingBefore, SendListKeeps
<1> QED BY <1>1, <1>2, <1>3, <1>4, <1>5, <1>6, <1>7, <1>8, <1>9, <1>10 DEF Buttons

LEMMA ListStep == ListInv /\ [Next_worklist]_listVars => ListInv'
<1> SUFFICES ASSUME ListInv, [Next_worklist]_listVars PROVE ListInv'
  OBVIOUS
<1>1. CASE UNCHANGED listVars
  BY <1>1 DEF listVars, ListInv, TabOK, SentOK, ComingOK, CityOK, CountsOK, ListShows, ListFits
<1> QED
  BY <1>1, TaskSelected, ChoiceSelected, DialogShown, ButtonsKeep, Altered, Listened, Bought,
     TurnChanges, InfoComes, DialogIsDrawn, DialogRedrawn DEF Next_worklist

LEMMA ListBegins == Init_worklist => ListInv
<1> SUFFICES ASSUME Init_worklist PROVE ListInv
  OBVIOUS
<1>1. PICK p \in Buildable :
        /\ tab = [prod |-> p, list |-> <<>>, sel |-> <<>>, picks |-> <<>>, drawn |-> 0]
        /\ city = [prod |-> p, list |-> <<>>, bought |-> FALSE]
  BY DEF Init_worklist
<1>2. p \in Item /\ sent = <<>> /\ coming = <<>> /\ edits = 0 /\ news = 0
  BY WorklistAssumption DEF Init_worklist
<1>3. TabOK
  <2>1. tab \in Tabs
    BY <1>1, <1>2 DEF Tabs, Lists
  <2>2. tab.sel = <<>>
    BY <1>1
  <2> QED BY <2>1, <2>2 DEF TabOK, Ascends
<1>4. SentOK /\ ComingOK
  BY <1>2 DEF SentOK, ComingOK, ShortLists, DrawnLast, LastInfo
<1>5. CityOK /\ CountsOK
  BY <1>1, <1>2, WorklistAssumption DEF CityOK, Cities, CountsOK
<1>6. ListShows
  BY <1>1 DEF ListShows
<1>7. ListFits
  <2>1. tab.sel = <<>> /\ tab.drawn = 0 /\ tab.list = <<>>
    BY <1>1
  <2> QED BY <2>1 DEF ListFits, Fits
<1> QED BY <1>3, <1>4, <1>5, <1>6, <1>7 DEF ListInv

\* When nothing is under way the tab shows the worklist that the city has, and
\* the selection is one of ascending positions in it.
THEOREM ListsAreSound == ListSpec => []ListSound
<1>1. ListInv => ListSound
  <2> SUFFICES ASSUME ListInv PROVE ListSound
    OBVIOUS
  <2>t. tab \in Tabs /\ Ascends(tab.sel) /\ DOMAIN tab.sel = 1..Len(tab.sel)
    BY TabParts DEF ListInv, TabOK
  <2>1. ListTypeOK
    BY DEF ListInv, TabOK, SentOK, ComingOK, CityOK, CountsOK, ListTypeOK, SentPackets,
           NewsPackets, Cities
  <2>2. SelectionAscends
    BY <2>t DEF SelectionAscends, Ascends
  <2>3. InStep
    <3> SUFFICES ASSUME sent = <<>>, coming = <<>>, ~Contains(tab.list, Hole)
                 PROVE  /\ tab.list = city.list /\ tab.prod = city.prod
                        /\ \A k \in 1..Len(tab.sel) : tab.sel[k] < Len(tab.list)
      BY <2>t DEF InStep
    <3>1. ~Lost(tab)
      BY DEF Lost
    <3>2. ~OnItsWay(sent, tab.list)
      BY DEF OnItsWay
    <3>3. NoInfo(coming)
      BY DEF NoInfo
    <3>4. tab.list = city.list /\ tab.prod = city.prod
      BY <3>1, <3>2, <3>3 DEF ListInv, ListShows
    <3>5. Fits(tab)
      BY <3>1, <3>2 DEF ListInv, ListFits
    <3> QED BY <3>4, <3>5 DEF Fits
  <2> QED BY <2>1, <2>2, <2>3 DEF ListSound
<1> QED BY <1>1, ListBegins, ListStep, PTL DEF ListSpec

\* The task at k of m is at k + d of q, and all but these two stay.
Moving(m, q, k, d) ==
  /\ q \in Lists /\ Len(q) = Len(m) /\ At(q, k + d) = At(m, k)
  /\ \A p \in 0..(Len(m) - 1) : p # k /\ p # k + d => At(q, p) = At(m, p)

LEMMA PutReads ==
  ASSUME NEW l \in Lists, NEW i \in 0..(Len(l) - 1), NEW x \in Thing
  PROVE  /\ Put(l, i, x) \in Lists /\ Len(Put(l, i, x)) = Len(l)
         /\ \A p \in 0..(Len(l) - 1) : At(Put(l, i, x), p) = IF p = i THEN x ELSE At(l, p)
<1>1. Len(l) \in Nat /\ i \in Nat /\ i < Len(l)
  BY DEF Lists
<1> DEFINE q == Put(l, i, x)
<1>2. q = [j \in 1..Len(l) |-> IF j = i + 1 THEN x ELSE At(l, j - 1)]
  BY <1>1 DEF Put
<1>3. q \in Lists
  BY <1>1, PutIsList
<1> HIDE DEF q
<1>4. Len(q) = Len(l)
  <2>1. Len(q) \in Nat /\ DOMAIN q = 1..Len(q)
    BY <1>3 DEF Lists
  <2>2. DOMAIN q = 1..Len(l)
    BY <1>2
  <2> QED BY <1>1, <2>1, <2>2
<1>5. ASSUME NEW p \in 0..(Len(l) - 1) PROVE At(q, p) = IF p = i THEN x ELSE At(l, p)
  <2>1. p < Len(q) /\ p + 1 \in 1..Len(l) /\ (p + 1) - 1 = p /\ (p + 1 = i + 1 <=> p = i)
    BY <1>1, <1>4
  <2>2. At(q, p) = q[p + 1]
    BY <2>1 DEF At
  <2> QED BY <1>2, <2>1, <2>2
<1> QED BY <1>3, <1>4, <1>5 DEF q

LEMMA SwapMoves ==
  ASSUME NEW l \in Lists, NEW i \in 0..(Len(l) - 1), NEW j \in 0..(Len(l) - 1), i # j
  PROVE  /\ Swap(l, i, j) \in Lists /\ Len(Swap(l, i, j)) = Len(l)
         /\ At(Swap(l, i, j), i) = At(l, j) /\ At(Swap(l, i, j), j) = At(l, i)
         /\ \A p \in 0..(Len(l) - 1) : p # i /\ p # j => At(Swap(l, i, j), p) = At(l, p)
<1> DEFINE a == At(l, i)
           b == At(l, j)
           m == Put(l, i, b)
           q == Put(m, j, a)
<1>1. i \in Nat /\ j \in Nat /\ a \in Thing /\ b \in Thing
  <2>1. Len(l) \in Nat /\ i \in Nat /\ j \in Nat
    BY DEF Lists
  <2> QED BY <2>1, AtIsThing
<1>2. Swap(l, i, j) = q
  BY DEF Swap
<1> HIDE DEF a, b
<1>3. m \in Lists /\ Len(m) = Len(l) /\ \A p \in 0..(Len(l) - 1) : At(m, p) = IF p = i THEN b ELSE At(l, p)
  BY <1>1, PutReads
<1> HIDE DEF m
<1>4. q \in Lists /\ Len(q) = Len(m) /\ \A p \in 0..(Len(m) - 1) : At(q, p) = IF p = j THEN a ELSE At(m, p)
  <2>1. j \in 0..(Len(m) - 1)
    BY <1>3
  <2> QED BY <1>1, <1>3, <2>1, PutReads
<1> HIDE DEF q
<1> QED BY <1>2, <1>3, <1>4 DEF a, b

\* Each of the tasks at ks moves by d, if no later one is in its way.
\* Each of ks moves by d as its turn comes, and none of them is in the way of
\* another.
InTurn(button, t, l, ks, d) ==
  /\ l \in Lists /\ d \in Int /\ ks \in Seq(Nat)
  /\ \A k \in 1..Len(ks) : ks[k] \in 0..(Len(l) - 1) /\ ks[k] + d \in 0..(Len(l) - 1)
  /\ \A i, j \in 1..Len(ks) : i < j => /\ ks[j] # ks[i] /\ ks[j] # ks[i] + d
                                        /\ ks[j] + d # ks[i] + d
  /\ \A m \in Lists, k \in 1..Len(ks) :
       Len(m) = Len(l) => Moving(m, ForOne(button, t, m, ks[k]), ks[k], d)

\* In q, each of ks of l is d further.
AllMoved(q, l, ks, d) ==
  /\ q \in Lists /\ Len(q) = Len(l)
  /\ \A k \in 1..Len(ks) : At(q, ks[k] + d) = At(l, ks[k])

LEMMA TasksMove ==
  ASSUME NEW button, NEW t, NEW l, NEW ks, NEW d, InTurn(button, t, l, ks, d)
  PROVE  AllMoved(ForEach(button, t, l, ks), l, ks, d)
<1>a. /\ l \in Lists /\ d \in Int /\ ks \in Seq(Nat)
      /\ \A k \in 1..Len(ks) : ks[k] \in 0..(Len(l) - 1) /\ ks[k] + d \in 0..(Len(l) - 1)
  BY DEF InTurn
<1>b. \A i, j \in 1..Len(ks) : i < j => /\ ks[j] # ks[i] /\ ks[j] # ks[i] + d
                                        /\ ks[j] + d # ks[i] + d
  BY DEF InTurn
<1>c. \A m \in Lists, k \in 1..Len(ks) :
        Len(m) = Len(l) => Moving(m, ForOne(button, t, m, ks[k]), ks[k], d)
  BY DEF InTurn
<1> USE <1>a, <1>b, <1>c
<1>0. Len(ks) \in Nat /\ Len(l) \in Nat
  BY DEF Lists
<1>1. PICK f : ForEachUpto(f, button, t, l, ks, Len(ks)) /\ ForEach(button, t, l, ks) = f[Len(ks)]
  BY <1>0, ForEachIs, ZenonT(60)
<1> DEFINE Good_(m, n) ==
             /\ m \in Lists /\ Len(m) = Len(l)
             /\ \A k \in 1..n : At(m, ks[k] + d) = At(l, ks[k])
             /\ \A p \in 0..(Len(l) - 1) :
                  (\A k \in 1..n : p # ks[k] /\ p # ks[k] + d) => At(m, p) = At(l, p)
           T == {n \in Nat : n <= Len(ks) => Good_(f[n], n)}
<1>2. 0 \in T
  <2>1. f[0] = l
    BY <1>0, <1>1 DEF ForEachUpto
  <2> QED BY <2>1
<1>3. ASSUME NEW n \in Nat, n \in T PROVE n + 1 \in T
  <2> SUFFICES ASSUME n + 1 <= Len(ks) PROVE Good_(f[n + 1], n + 1)
    OBVIOUS
  <2>1. /\ n + 1 \in 0..Len(ks) /\ n + 1 # 0 /\ (n + 1) - 1 = n /\ n + 1 \in 1..Len(ks)
        /\ Good_(f[n], n)
    BY <1>0, <1>3
  <2> DEFINE m == f[n]
             q == f[n + 1]
             e == ks[n + 1]
  <2>2. q = ForOne(button, t, m, e)
    <3>1. f[n + 1] = ForOne(button, t, f[(n + 1) - 1], ks[n + 1])
      BY <1>1, <2>1 DEF ForEachUpto
    <3> QED BY <2>1, <3>1
  <2>3. Good_(m, n)
    BY <2>1
  <2>4. Moving(m, q, e, d)
    BY <2>1, <2>2, <2>3
  <2>5. e \in 0..(Len(l) - 1) /\ e + d \in 0..(Len(l) - 1) /\ e = ks[n + 1]
    BY <2>1
  <2>6. \A k \in 1..n : /\ k \in 1..Len(ks) /\ ks[k] + d \in 0..(Len(l) - 1)
                        /\ e # ks[k] /\ e # ks[k] + d /\ e + d # ks[k] + d
    <3> SUFFICES ASSUME NEW k \in 1..n
                 PROVE  /\ k \in 1..Len(ks) /\ ks[k] + d \in 0..(Len(l) - 1)
                        /\ e # ks[k] /\ e # ks[k] + d /\ e + d # ks[k] + d
      OBVIOUS
    <3>1. k \in 1..Len(ks) /\ k < n + 1
      BY <1>0, <2>1
    <3> QED BY <2>1, <3>1
  <2> HIDE DEF m, q, e
  <2>7. q \in Lists /\ Len(q) = Len(l)
    BY <2>3, <2>4 DEF Moving
  <2>8. At(q, e + d) = At(l, e)
    BY <2>3, <2>4, <2>5, <2>6 DEF Moving
  <2>9. ASSUME NEW k \in 1..n PROVE At(q, ks[k] + d) = At(l, ks[k])
    <3>1. At(m, ks[k] + d) = At(l, ks[k])
      BY <2>3
    <3>2. ks[k] + d \in 0..(Len(m) - 1) /\ ks[k] + d # e /\ ks[k] + d # e + d
      BY <2>3, <2>6
    <3> QED BY <2>4, <3>1, <3>2 DEF Moving
  <2>10. ASSUME NEW p \in 0..(Len(l) - 1), \A k \in 1..(n + 1) : p # ks[k] /\ p # ks[k] + d
         PROVE  At(q, p) = At(l, p)
    <3>1. p # e /\ p # e + d
      BY <2>5, <2>10
    <3>2. \A k \in 1..n : k \in 1..(n + 1)
      OBVIOUS
    <3>3. At(m, p) = At(l, p)
      BY <2>3, <2>10, <3>2
    <3> QED BY <2>3, <2>4, <3>1, <3>3 DEF Moving
  <2>11. ASSUME NEW k \in 1..(n + 1) PROVE At(q, ks[k] + d) = At(l, ks[k])
    <3>1. k = n + 1 \/ k \in 1..n
      OBVIOUS
    <3> QED BY <2>5, <2>8, <2>9, <3>1
  <2>12. Good_(q, n + 1)
    BY <2>7, <2>10, <2>11
  <2> QED BY <2>12 DEF q
<1>4. Len(ks) \in T
  <2> HIDE DEF T
  <2> QED BY <1>0, <1>2, <1>3, Induct
<1>5. Good_(ForEach(button, t, l, ks), Len(ks))
  BY <1>0, <1>1, <1>4
<1> QED BY <1>5 DEF AllMoved

LEMMA TasksOf ==
  ASSUME NEW t, t.list \in Lists, t.sel \in Seq(Nat)
  PROVE  /\ SelectedTasks(t) \in Seq(Thing) /\ Len(SelectedTasks(t)) = Len(t.sel)
         /\ \A k \in 1..Len(t.sel) : SelectedTasks(t)[k] = At(t.list, t.sel[k])
<1> DEFINE q == SelectedTasks(t)
<1>1. Len(t.sel) \in Nat /\ q = [k \in 1..Len(t.sel) |-> At(t.list, t.sel[k])]
  BY DEF SelectedTasks
<1>2. \A k \in 1..Len(t.sel) : At(t.list, t.sel[k]) \in Thing
  <2> SUFFICES ASSUME NEW k \in 1..Len(t.sel) PROVE At(t.list, t.sel[k]) \in Thing
    OBVIOUS
  <2>1. t.sel[k] \in Nat
    OBVIOUS
  <2> QED BY <2>1, AtIsThing
<1> HIDE DEF q
<1>3. q \in [1..Len(t.sel) -> Thing]
  BY <1>1, <1>2
<1> QED BY <1>1, <1>3 DEF q

LEMMA SameLists ==
  ASSUME NEW S, NEW p \in Seq(S), NEW q \in Seq(S), Len(p) = Len(q), \A k \in 1..Len(p) : p[k] = q[k]
  PROVE  p = q
OBVIOUS

LEMMA Joined ==
  ASSUME NEW S, NEW a \in Seq(S), NEW b \in Seq(S)
  PROVE  /\ a \o b \in Seq(S) /\ Len(a \o b) = Len(a) + Len(b)
         /\ \A k \in 1..Len(a) : (a \o b)[k] = a[k]
         /\ \A k \in 1..Len(b) : (a \o b)[Len(a) + k] = b[k]
OBVIOUS

LEMMA SameTasks ==
  ASSUME NEW t, NEW u, t.list \in Lists, t.sel \in Seq(Nat), u.list \in Lists, u.sel \in Seq(Nat),
         Len(u.sel) = Len(t.sel),
         \A k \in 1..Len(t.sel) : At(u.list, u.sel[k]) = At(t.list, t.sel[k])
  PROVE  SelectedTasks(u) = SelectedTasks(t)
<1> DEFINE p == SelectedTasks(t)
           q == SelectedTasks(u)
<1>1. /\ p \in Seq(Thing) /\ Len(p) = Len(t.sel) /\ q \in Seq(Thing) /\ Len(q) = Len(u.sel)
      /\ \A k \in 1..Len(t.sel) : p[k] = At(t.list, t.sel[k])
      /\ \A k \in 1..Len(u.sel) : q[k] = At(u.list, u.sel[k])
  BY TasksOf
<1> HIDE DEF p, q
<1>2. p \in Seq(Thing) /\ q \in Seq(Thing) /\ Len(p) = Len(q) /\ \A k \in 1..Len(p) : p[k] = q[k]
  BY <1>1
<1>3. p = q
  BY <1>2, SameLists
<1> QED BY <1>3 DEF p, q

LEMMA Index ==
  ASSUME NEW n \in Nat, NEW k \in Nat, NEW c \in Nat, c <= k, k <= n - 1
  PROVE  /\ (c - 1) + ((k - c) + 1) = k /\ (k - c) + 1 \in 1..(n - c)
         /\ ((k - c) + 1) + c = k + 1
OBVIOUS

LEMMA AtRemoved ==
  \A p, q \in Seq(Thing) : \A c \in 1..Len(p) :
    /\ Len(q) = Len(p) - 1
    /\ \A k \in 1..Len(q) : k < c => q[k] = p[k]
    /\ \A k \in 1..Len(q) : ~(k < c) => q[k] = p[k + 1]
    => q = RemoveAt(p, c)
<1> SUFFICES ASSUME NEW p \in Seq(Thing), NEW q \in Seq(Thing), NEW c \in 1..Len(p), Len(q) = Len(p) - 1,
         \A k \in 1..Len(q) : k < c => q[k] = p[k],
         \A k \in 1..Len(q) : ~(k < c) => q[k] = p[k + 1]
  PROVE  q = RemoveAt(p, c)
  OBVIOUS
<1> DEFINE a == SubSeq(p, 1, c - 1)
           b == SubSeq(p, c + 1, Len(p))
<1>0. Len(p) \in Nat /\ Len(q) \in Nat /\ c \in Nat /\ c >= 1 /\ c <= Len(p)
  OBVIOUS
<1>1. a \in Seq(Thing) /\ Len(a) = c - 1 /\ \A k \in 1..(c - 1) : a[k] = p[k]
  BY <1>0
<1>2. b \in Seq(Thing) /\ Len(b) = Len(p) - c /\ \A k \in 1..(Len(p) - c) : b[k] = p[k + c]
  BY <1>0
<1>3. RemoveAt(p, c) = a \o b
  BY DEF RemoveAt
<1> HIDE DEF a, b
<1>b. a \in Seq(Thing) /\ b \in Seq(Thing)
  BY <1>1, <1>2
<1> DEFINE r == a \o b
<1>4. /\ r \in Seq(Thing) /\ Len(r) = Len(a) + Len(b)
      /\ \A k \in 1..Len(a) : r[k] = a[k]
      /\ \A k \in 1..Len(b) : r[Len(a) + k] = b[k]
  BY <1>b, Joined
<1> HIDE DEF r
<1>5. Len(r) = Len(q)
  BY <1>0, <1>1, <1>2, <1>4
<1>6. ASSUME NEW k \in 1..Len(q) PROVE r[k] = q[k]
  <2>0. k \in 1..Len(r) /\ k \in Nat
    BY <1>5
  <2>1. CASE k < c
    <3>1. k \in 1..Len(a) /\ k \in 1..(c - 1)
      BY <1>0, <1>1, <2>0, <2>1
    <3>2. r[k] = a[k] /\ a[k] = p[k]
      BY <1>1, <1>4, <3>1
    <3> QED BY <2>1, <3>2
  <2>2. CASE ~(k < c)
    <3>1. /\ Len(a) + ((k - c) + 1) = k /\ (k - c) + 1 \in 1..(Len(p) - c)
          /\ (k - c) + 1 \in 1..Len(b) /\ ((k - c) + 1) + c = k + 1
      <4>1. k \in Nat /\ c \in Nat /\ c <= k /\ k <= Len(p) - 1 /\ Len(p) \in Nat
        BY <1>0, <2>0, <2>2
      <4>2. Len(a) = c - 1 /\ Len(b) = Len(p) - c
        BY <1>1, <1>2
      <4>3. /\ (c - 1) + ((k - c) + 1) = k /\ (k - c) + 1 \in 1..(Len(p) - c)
            /\ ((k - c) + 1) + c = k + 1
        BY <4>1, Index
      <4> QED BY <4>2, <4>3
    <3> DEFINE i == (k - c) + 1
    <3>i. Len(a) + i = k /\ i \in 1..Len(b) /\ i = (k - c) + 1
      BY <3>1
    <3> HIDE DEF i
    <3>j. r[Len(a) + i] = b[i]
      BY <1>4, <3>i
    <3>2. r[k] = b[(k - c) + 1]
      BY <3>i, <3>j
    <3>3. b[(k - c) + 1] = p[k + 1]
      BY <1>2, <3>1
    <3> QED BY <2>2, <3>2, <3>3
  <2> QED BY <2>1, <2>2
<1>7. r = q
  BY <1>4, <1>5, <1>6, SameLists
<1> QED BY <1>3, <1>7 DEF r

LEMMA LessTasks ==
  ASSUME NEW t, NEW u, t.list \in Lists, t.sel \in Seq(Nat), u.list \in Lists, u.sel \in Seq(Nat),
         NEW c \in 1..Len(t.sel), Len(u.sel) = Len(t.sel) - 1,
         \A k \in 1..Len(u.sel) :
           At(u.list, u.sel[k]) = At(t.list, t.sel[IF k < c THEN k ELSE k + 1])
  PROVE  SelectedTasks(u) = RemoveAt(SelectedTasks(t), c)
<1>p. PICK p : p = SelectedTasks(t)
  OBVIOUS
<1>q. PICK q : q = SelectedTasks(u)
  OBVIOUS
<1>1. /\ p \in Seq(Thing) /\ Len(p) = Len(t.sel) /\ q \in Seq(Thing) /\ Len(q) = Len(u.sel)
      /\ \A k \in 1..Len(t.sel) : p[k] = At(t.list, t.sel[k])
      /\ \A k \in 1..Len(u.sel) : q[k] = At(u.list, u.sel[k])
  BY <1>p, <1>q, TasksOf
<1>2. ASSUME NEW k \in 1..Len(q) PROVE (k < c => q[k] = p[k]) /\ (~(k < c) => q[k] = p[k + 1])
  <2>0. k \in 1..Len(u.sel) /\ q[k] = At(u.list, u.sel[k])
    BY <1>1
  <2>1. CASE k < c
    <3>1. k \in 1..Len(t.sel)
      BY <1>1
    <3>2. At(u.list, u.sel[k]) = At(t.list, t.sel[k])
      BY <2>0, <2>1
    <3> QED BY <1>1, <2>0, <2>1, <3>1, <3>2
  <2>2. CASE ~(k < c)
    <3>1. k + 1 \in 1..Len(t.sel)
      BY <1>1
    <3>2. At(u.list, u.sel[k]) = At(t.list, t.sel[k + 1])
      BY <2>0, <2>2
    <3> QED BY <1>1, <2>0, <2>2, <3>1, <3>2
  <2> QED BY <2>1, <2>2
<1>3. p \in Seq(Thing) /\ q \in Seq(Thing) /\ c \in 1..Len(p) /\ Len(q) = Len(p) - 1
  BY <1>1
<1>4. q = RemoveAt(p, c)
  <2>1. \A k \in 1..Len(q) : k < c => q[k] = p[k]
    BY <1>2
  <2>2. \A k \in 1..Len(q) : ~(k < c) => q[k] = p[k + 1]
    BY <1>2
  <2> QED BY <1>3, <2>1, <2>2, AtRemoved
<1> QED BY <1>p, <1>q, <1>4

LEMMA Unclipped == ASSUME NEW l \in Lists, Len(Clip(l)) < MaxLen PROVE Clip(l) = l
<1>1. MaxLen \in Nat
  BY WorklistAssumption
<1>2. CASE Len(l) > MaxLen
  <2>1. Len(SubSeq(l, 1, MaxLen)) = MaxLen
    BY <1>1, <1>2 DEF Lists
  <2> QED BY <1>1, <1>2, <2>1 DEF Clip
<1>3. CASE ~(Len(l) > MaxLen)
  BY <1>3 DEF Clip
<1> QED BY <1>2, <1>3

\* What the selection is on once t has become u.
Followed(t, u) == \/ SelectedTasks(u) = SelectedTasks(t)
                  \/ \E k \in DOMAIN t.sel : SelectedTasks(u) = RemoveAt(SelectedTasks(t), k)

LEMMA UpsFollow ==
  ASSUME NEW t \in Tabs, Ascends(t.sel), t.sel # <<>>, InRange(t)
  PROVE  Followed(t, MovesUp(t))
<1> DEFINE u == MovesUp(t)
           rest == IF Produces(t) THEN Tail(t.sel) ELSE t.sel
           list == IF Produces(t) THEN Put(t.list, 0, t.prod) ELSE t.list
           l == ForEach("up", t, list, rest)
           d == -1
           more == IF Produces(t) THEN 1 ELSE 0
<1>0. /\ t.list \in Lists /\ t.sel \in Seq(Nat) /\ Len(t.sel) \in Nat /\ Len(t.sel) >= 1
      /\ DOMAIN t.sel = 1..Len(t.sel) /\ Len(t.list) \in Nat /\ 1 \in 1..Len(t.sel)
      /\ \A k \in 1..Len(t.sel) : t.sel[k] \in Nat /\ t.sel[k] < Len(t.list)
  <2>1. t.list \in Lists /\ t.sel \in Seq(Nat) /\ DOMAIN t.sel = 1..Len(t.sel)
    BY TabParts
  <2>2. Len(t.sel) \in Nat /\ Len(t.sel) >= 1 /\ 1 \in 1..Len(t.sel) /\ Len(t.list) \in Nat
    BY <2>1 DEF Lists
  <2> QED BY <2>1, <2>2 DEF InRange
<1>1. u \in Tabs
  BY Ups DEF Edits
<1>2. u.list = l /\ u.sel = Shifted(rest, -1)
  BY <1>0 DEF MovesUp, Tabs
<1>3. /\ list \in Lists /\ Len(list) = Len(t.list)
      /\ \A p \in 1..(Len(t.list) - 1) : At(list, p) = At(t.list, p)
  <2>1. CASE Produces(t)
    <3>1. 0 \in 0..(Len(t.list) - 1) /\ t.prod \in Thing
      BY <1>0, <2>1, TabParts DEF Produces, Thing
    <3>2. /\ Put(t.list, 0, t.prod) \in Lists /\ Len(Put(t.list, 0, t.prod)) = Len(t.list)
          /\ \A p \in 0..(Len(t.list) - 1) :
               At(Put(t.list, 0, t.prod), p) = IF p = 0 THEN t.prod ELSE At(t.list, p)
      BY <1>0, <3>1, PutReads
    <3>3. \A p \in 1..(Len(t.list) - 1) : p \in 0..(Len(t.list) - 1) /\ p # 0
      BY <1>0
    <3> QED BY <2>1, <3>2, <3>3
  <2>2. CASE ~Produces(t)
    BY <1>0, <2>2
  <2> QED BY <2>1, <2>2
<1>4. /\ rest \in Seq(Nat) /\ Len(rest) \in Nat /\ Len(rest) = Len(t.sel) - more
      /\ more \in {0, 1} /\ (more = 1 <=> Produces(t))
      /\ \A k \in 1..Len(rest) : rest[k] = t.sel[k + more] /\ k + more \in 1..Len(t.sel)
  <2>1. CASE Produces(t)
    <3>1. rest = Tail(t.sel) /\ more = 1
      BY <2>1
    <3> HIDE DEF rest, more
    <3>2. rest \in Seq(Nat) /\ Len(rest) = Len(t.sel) - 1 /\ Len(rest) \in Nat
      BY <1>0, <3>1
    <3>3. \A k \in 1..Len(rest) : rest[k] = t.sel[k + 1] /\ k + 1 \in 1..Len(t.sel)
      BY <1>0, <3>1, <3>2
    <3> QED BY <2>1, <3>1, <3>2, <3>3
  <2>2. CASE ~Produces(t)
    <3>1. rest = t.sel /\ more = 0
      BY <2>2
    <3> HIDE DEF rest, more
    <3> QED BY <1>0, <2>2, <3>1
  <2> QED BY <2>1, <2>2
<1>5. ~Produces(t) => t.sel[1] # 0
  BY DEF Produces
<1> HIDE DEF rest, list, more
<1>6. \A k \in 1..Len(rest) : rest[k] \in 1..(Len(t.list) - 1)
  <2> SUFFICES ASSUME NEW k \in 1..Len(rest) PROVE rest[k] \in 1..(Len(t.list) - 1)
    OBVIOUS
  <2>1. k + more \in 1..Len(t.sel) /\ rest[k] = t.sel[k + more]
    BY <1>4
  <2>2. rest[k] \in Nat /\ rest[k] < Len(t.list)
    BY <1>0, <2>1
  <2>3. rest[k] # 0
    <3>1. CASE k + more = 1
      <4>1. more = 0
        BY <1>4, <3>1
      <4> QED BY <1>4, <1>5, <2>1, <3>1, <4>1
    <3>2. CASE k + more # 1
      <4>1. 1 < k + more
        BY <1>4, <2>1, <3>2
      <4>2. t.sel[1] < t.sel[k + more] /\ t.sel[1] \in Nat
        BY <1>0, <2>1, <4>1 DEF Ascends
      <4> QED BY <2>1, <2>2, <4>2
    <3> QED BY <3>1, <3>2
  <2> QED BY <1>0, <2>2, <2>3
<1>7. \A i, j \in 1..Len(rest) : i < j => rest[i] < rest[j]
  <2> SUFFICES ASSUME NEW i \in 1..Len(rest), NEW j \in 1..Len(rest), i < j PROVE rest[i] < rest[j]
    OBVIOUS
  <2>1. i + more < j + more
    BY <1>4
  <2> QED BY <1>4, <2>1 DEF Ascends
<1>8. /\ l \in Lists /\ Len(l) = Len(list)
      /\ \A k \in 1..Len(rest) : At(l, rest[k] + d) = At(list, rest[k])
  <2>0. d \in Int
    OBVIOUS
  <2>1. \A k \in 1..Len(rest) : rest[k] \in 0..(Len(list) - 1) /\ rest[k] + d \in 0..(Len(list) - 1)
    BY <1>0, <1>3, <1>6
  <2>2. \A i, j \in 1..Len(rest) : i < j => /\ rest[j] # rest[i] /\ rest[j] # rest[i] + d
                                            /\ rest[j] + d # rest[i] + d
    <3> SUFFICES ASSUME NEW i \in 1..Len(rest), NEW j \in 1..Len(rest), i < j
                 PROVE  rest[j] # rest[i] /\ rest[j] # rest[i] + d /\ rest[j] + d # rest[i] + d
      OBVIOUS
    <3>1. rest[i] < rest[j] /\ rest[i] \in Int /\ rest[j] \in Int
      BY <1>6, <1>7
    <3> QED BY <3>1
  <2>3. ASSUME NEW m \in Lists, NEW k \in 1..Len(rest), Len(m) = Len(list)
        PROVE  Moving(m, ForOne("up", t, m, rest[k]), rest[k], d)
    <3> DEFINE e == rest[k]
               q == Swap(m, e - 1, e)
    <3>1. e \in 0..(Len(m) - 1) /\ e - 1 \in 0..(Len(m) - 1) /\ e - 1 # e /\ e + d = e - 1
      BY <1>0, <1>3, <1>6, <2>3
    <3>2. ForOne("up", t, m, rest[k]) = q
      BY DEF ForOne
    <3> HIDE DEF e
    <3>3. /\ q \in Lists /\ Len(q) = Len(m) /\ At(q, e - 1) = At(m, e)
          /\ \A p \in 0..(Len(m) - 1) : p # e - 1 /\ p # e => At(q, p) = At(m, p)
      BY <3>1, SwapMoves
    <3> HIDE DEF q
    <3>4. Moving(m, q, e, d)
      BY <3>1, <3>3 DEF Moving
    <3> QED BY <3>2, <3>4 DEF e
  <2> HIDE DEF d
  <2>4. \A m \in Lists, k \in 1..Len(rest) :
          Len(m) = Len(list) => Moving(m, ForOne("up", t, m, rest[k]), rest[k], d)
    BY <2>3
  <2>5. list \in Lists /\ rest \in Seq(Nat)
    BY <1>3, <1>4
  <2> HIDE DEF list, rest
  <2>6. InTurn("up", t, list, rest, d)
    BY <2>0, <2>1, <2>2, <2>4, <2>5 DEF InTurn
  <2>7. AllMoved(l, list, rest, d)
    BY <2>6, TasksMove
  <2>8. Len(list) = Len(t.list)
    BY <1>3
  <2> QED BY <2>7, <2>8 DEF AllMoved
<1> HIDE DEF l
<1>9. /\ Len(u.sel) = Len(rest) /\ u.list \in Lists /\ u.sel \in Seq(Nat)
      /\ \A k \in 1..Len(rest) : u.sel[k] = rest[k] + d
  <2>1. u.list \in Lists /\ u.sel \in Seq(Nat)
    BY <1>1, TabParts
  <2>2. DOMAIN rest = 1..Len(rest) /\ u.sel = [k \in 1..Len(rest) |-> rest[k] + d]
    BY <1>2, <1>4 DEF Shifted
  <2>3. Len(u.sel) = Len(rest)
    <3>1. DOMAIN u.sel = 1..Len(u.sel) /\ Len(u.sel) \in Nat
      BY <2>1
    <3>2. DOMAIN u.sel = 1..Len(rest)
      BY <2>2
    <3> QED BY <1>4, <3>1, <3>2
  <2> QED BY <2>1, <2>2, <2>3
<1>10. \A k \in 1..Len(u.sel) : At(u.list, u.sel[k]) = At(t.list, t.sel[k + more])
  <2> SUFFICES ASSUME NEW k \in 1..Len(rest) PROVE At(u.list, u.sel[k]) = At(t.list, t.sel[k + more])
    BY <1>9
  <2>1. At(u.list, u.sel[k]) = At(list, rest[k])
    BY <1>2, <1>8, <1>9
  <2> QED BY <1>3, <1>4, <1>6, <2>1
<1> HIDE DEF u, d
<1>11. CASE Produces(t)
  <2>1. more = 1 /\ Len(u.sel) = Len(t.sel) - 1
    BY <1>4, <1>9, <1>11
  <2>2. \A k \in 1..Len(u.sel) : At(u.list, u.sel[k]) = At(t.list, t.sel[IF k < 1 THEN k ELSE k + 1])
    <3> SUFFICES ASSUME NEW k \in 1..Len(u.sel)
                 PROVE  At(u.list, u.sel[k]) = At(t.list, t.sel[IF k < 1 THEN k ELSE k + 1])
      OBVIOUS
    <3>1. ~(k < 1)
      OBVIOUS
    <3>2. At(u.list, u.sel[k]) = At(t.list, t.sel[k + 1])
      BY <1>10, <2>1
    <3> QED BY <3>1, <3>2
  <2>3. SelectedTasks(u) = RemoveAt(SelectedTasks(t), 1)
    BY <1>0, <1>9, <2>1, <2>2, LessTasks
  <2> QED BY <1>0, <2>3 DEF Followed, u
<1>12. CASE ~Produces(t)
  <2>1. more = 0 /\ Len(u.sel) = Len(t.sel)
    BY <1>4, <1>9, <1>12, <1>0
  <2>2. \A k \in 1..Len(t.sel) : At(u.list, u.sel[k]) = At(t.list, t.sel[k])
    <3> SUFFICES ASSUME NEW k \in 1..Len(t.sel) PROVE At(u.list, u.sel[k]) = At(t.list, t.sel[k])
      OBVIOUS
    <3>1. At(u.list, u.sel[k]) = At(t.list, t.sel[k + 0]) /\ k + 0 = k
      BY <1>10, <2>1
    <3> QED BY <3>1
  <2>3. SelectedTasks(u) = SelectedTasks(t)
    BY <1>0, <1>9, <2>1, <2>2, SameTasks
  <2> QED BY <2>3 DEF Followed, u
<1> QED BY <1>11, <1>12

LEMMA ShiftReads ==
  ASSUME NEW s \in Seq(Nat), NEW n, Shifted(s, n) \in Seq(Nat)
  PROVE  Len(Shifted(s, n)) = Len(s) /\ \A k \in 1..Len(s) : Shifted(s, n)[k] = s[k] + n
<1> DEFINE q == Shifted(s, n)
<1>1. q \in Seq(Nat) /\ Len(s) \in Nat /\ q = [k \in 1..Len(s) |-> s[k] + n]
  BY DEF Shifted
<1> HIDE DEF q
<1>2. DOMAIN q = 1..Len(q) /\ Len(q) \in Nat /\ DOMAIN q = 1..Len(s)
  BY <1>1
<1>3. Len(q) = Len(s)
  BY <1>1, <1>2
<1> QED BY <1>1, <1>3 DEF q

LEMMA DownsFollow ==
  ASSUME NEW t \in Tabs, Ascends(t.sel), t.sel # <<>>, InRange(t), Last(t.sel) # Len(t.list) - 1
  PROVE  Followed(t, MovesDown(t))
<1> DEFINE u == MovesDown(t)
           s == t.sel
           ks == Reverse(s)
           n == Len(s)
<1>0. /\ t.list \in Lists /\ s \in Seq(Nat) /\ n \in Nat /\ n >= 1 /\ DOMAIN s = 1..n
      /\ Len(t.list) \in Nat /\ n \in 1..n
      /\ \A k \in 1..n : s[k] \in Nat /\ s[k] < Len(t.list)
  <2>1. t.list \in Lists /\ s \in Seq(Nat) /\ DOMAIN s = 1..n
    BY TabParts
  <2>2. n \in Nat /\ n >= 1 /\ n \in 1..n /\ Len(t.list) \in Nat
    BY <2>1 DEF Lists
  <2> QED BY <2>1, <2>2 DEF InRange
<1>1. u \in Tabs
  BY Downs DEF Edits
<1>2. u.list = ForEach("down", t, t.list, ks) /\ u.sel = Shifted(s, 1)
  BY <1>0 DEF MovesDown, Tabs
<1>3. \A i, j \in 1..n : i < j => s[i] < s[j]
  BY DEF Ascends
<1>4. s[n] # Len(t.list) - 1
  BY DEF Last
<1>5. ks \in Seq(Nat) /\ Len(ks) = n
  BY <1>0, Reversed
<1>6. \A k \in 1..n : ks[k] = s[(n - k) + 1] /\ (n - k) + 1 \in 1..n
  BY <1>0 DEF Reverse
<1> HIDE DEF u, ks, n, s
<1>7. \A k \in 1..n : s[k] \in 0..(Len(t.list) - 1) /\ s[k] + 1 \in 0..(Len(t.list) - 1)
  <2> SUFFICES ASSUME NEW k \in 1..n
               PROVE  s[k] \in 0..(Len(t.list) - 1) /\ s[k] + 1 \in 0..(Len(t.list) - 1)
    OBVIOUS
  <2>1. s[k] \in Nat /\ s[k] < Len(t.list) /\ s[n] \in Nat /\ s[n] < Len(t.list)
    BY <1>0
  <2>2. s[k] < Len(t.list) - 1
    <3>1. CASE k = n
      BY <1>0, <1>4, <2>1, <3>1
    <3>2. CASE k # n
      <4>1. s[k] < s[n]
        BY <1>0, <1>3, <3>2
      <4> QED BY <1>0, <2>1, <4>1
    <3> QED BY <3>1, <3>2
  <2> QED BY <1>0, <2>1, <2>2
<1>8. \A k \in 1..n : At(u.list, s[k] + 1) = At(t.list, s[k])
  <2>1. \A k \in 1..Len(ks) : ks[k] \in 0..(Len(t.list) - 1) /\ ks[k] + 1 \in 0..(Len(t.list) - 1)
    BY <1>5, <1>6, <1>7
  <2>2. \A i, j \in 1..Len(ks) : i < j => /\ ks[j] # ks[i] /\ ks[j] # ks[i] + 1
                                          /\ ks[j] + 1 # ks[i] + 1
    <3> SUFFICES ASSUME NEW i \in 1..n, NEW j \in 1..n, i < j
                 PROVE  ks[j] # ks[i] /\ ks[j] # ks[i] + 1 /\ ks[j] + 1 # ks[i] + 1
      BY <1>5
    <3>1. (n - j) + 1 < (n - i) + 1
      BY <1>0
    <3>2. ks[j] < ks[i] /\ ks[i] \in Int /\ ks[j] \in Int
      BY <1>0, <1>3, <1>6, <3>1
    <3> QED BY <3>2
  <2>3. ASSUME NEW m \in Lists, NEW k \in 1..Len(ks), Len(m) = Len(t.list)
        PROVE  Moving(m, ForOne("down", t, m, ks[k]), ks[k], 1)
    <3> DEFINE e == ks[k]
               q == Swap(m, e, e + 1)
    <3>1. e \in 0..(Len(m) - 1) /\ e + 1 \in 0..(Len(m) - 1) /\ e # e + 1
      BY <2>1, <2>3
    <3>2. ForOne("down", t, m, ks[k]) = q
      BY DEF ForOne
    <3> HIDE DEF e
    <3>3. /\ q \in Lists /\ Len(q) = Len(m) /\ At(q, e + 1) = At(m, e)
          /\ \A p \in 0..(Len(m) - 1) : p # e /\ p # e + 1 => At(q, p) = At(m, p)
      BY <3>1, SwapMoves
    <3> HIDE DEF q
    <3>4. Moving(m, q, e, 1)
      BY <3>1, <3>3 DEF Moving
    <3> QED BY <3>2, <3>4 DEF e
  <2>4. \A m \in Lists, k \in 1..Len(ks) :
          Len(m) = Len(t.list) => Moving(m, ForOne("down", t, m, ks[k]), ks[k], 1)
    BY <2>3
  <2>5. t.list \in Lists /\ ks \in Seq(Nat) /\ 1 \in Int
    BY <1>0, <1>5
  <2>a. InTurn("down", t, t.list, ks, 1)
    BY <2>1, <2>2, <2>4, <2>5 DEF InTurn
  <2>b. AllMoved(ForEach("down", t, t.list, ks), t.list, ks, 1)
    BY <2>a, TasksMove
  <2>6. \A k \in 1..Len(ks) : At(ForEach("down", t, t.list, ks), ks[k] + 1) = At(t.list, ks[k])
    BY <2>b DEF AllMoved
  <2>7. ASSUME NEW k \in 1..n PROVE At(u.list, s[k] + 1) = At(t.list, s[k])
    <3>1. (n - k) + 1 \in 1..Len(ks) /\ (n - ((n - k) + 1)) + 1 = k
      BY <1>0, <1>5
    <3>2. ks[(n - k) + 1] = s[(n - ((n - k) + 1)) + 1]
      BY <1>5, <1>6, <3>1
    <3>3. ks[(n - k) + 1] = s[k]
      BY <3>1, <3>2
    <3> QED BY <1>2, <2>6, <3>1, <3>3
  <2> QED BY <2>7
<1>9. /\ u.list \in Lists /\ u.sel \in Seq(Nat) /\ Len(u.sel) = n
      /\ \A k \in 1..n : u.sel[k] = s[k] + 1
  <2>1. u.list \in Lists /\ u.sel \in Seq(Nat)
    BY <1>1, TabParts
  <2>2. Len(Shifted(s, 1)) = Len(s) /\ \A k \in 1..Len(s) : Shifted(s, 1)[k] = s[k] + 1
    BY <1>0, <1>2, <2>1, ShiftReads
  <2> QED BY <1>2, <2>1, <2>2 DEF n
<1>10. SelectedTasks(u) = SelectedTasks(t)
  <2>1. \A k \in 1..Len(t.sel) : At(u.list, u.sel[k]) = At(t.list, t.sel[k])
    BY <1>8, <1>9 DEF n, s
  <2>2. Len(u.sel) = Len(t.sel) /\ t.sel \in Seq(Nat)
    BY <1>0, <1>9 DEF n, s
  <2> QED BY <1>0, <1>9, <2>1, <2>2, SameTasks
<1> QED BY <1>10 DEF Followed, u

LEMMA Sliced ==
  ASSUME NEW l \in Seq(Thing), NEW i \in 0..Len(l)
  PROVE  /\ SubSeq(l, 1, i) \in Seq(Thing) /\ Len(SubSeq(l, 1, i)) = i
         /\ \A k \in 1..i : SubSeq(l, 1, i)[k] = l[k]
         /\ SubSeq(l, i + 1, Len(l)) \in Seq(Thing) /\ Len(SubSeq(l, i + 1, Len(l))) = Len(l) - i
         /\ \A k \in 1..(Len(l) - i) : SubSeq(l, i + 1, Len(l))[k] = l[i + k]
<1>1. Len(l) \in Nat /\ i \in Nat /\ i <= Len(l)
  OBVIOUS
<1>2. /\ SubSeq(l, 1, i) \in Seq(Thing) /\ Len(SubSeq(l, 1, i)) = i
      /\ \A k \in 1..i : SubSeq(l, 1, i)[k] = l[k]
  BY <1>1
<1>3. SubSeq(l, i + 1, Len(l)) \in Seq(Thing) /\ Len(SubSeq(l, i + 1, Len(l))) = Len(l) - i
  BY <1>1
<1>4. \A k \in 1..(Len(l) - i) : SubSeq(l, i + 1, Len(l))[k] = l[i + k]
  BY <1>1
<1> QED BY <1>2, <1>3, <1>4

\* The n tasks from i on are replaced by those of more.
LEMMA SpliceReads ==
  ASSUME NEW l \in Lists, NEW i \in 0..(Len(l) - 1), NEW n \in 0..1, NEW more \in Lists
  PROVE  /\ \A p \in 0..(i - 1) : At(Splice(l, i, n, more), p) = At(l, p)
         /\ \A p \in (i + n)..(Len(l) - 1) :
              At(Splice(l, i, n, more), (p - n) + Len(more)) = At(l, p)
         /\ Len(more) <= Len(Splice(l, i, n, more))
<1> DEFINE a == SubSeq(l, 1, i)
           j == i + n
           b == SubSeq(l, j + 1, Len(l))
           c == a \o more
           q == c \o b
           N == Len(l)
           M == Len(more)
<1>0. /\ l \in Seq(Thing) /\ more \in Seq(Thing) /\ N \in Nat /\ M \in Nat /\ i \in Nat /\ n \in Nat
      /\ i \in 0..N /\ j \in 0..N /\ i < N /\ j = i + n /\ j <= N
  BY DEF Lists, Thing
<1>1. Splice(l, i, n, more) = q
  <2>1. CASE i + n < Len(l)
    <3>1. Splice(l, i, n, more) = SubSeq(l, 1, i) \o more \o SubSeq(l, i + 1 + n, Len(l))
      BY <1>0, <2>1 DEF Splice
    <3>2. i + 1 + n = j + 1
      BY <1>0
    <3> QED BY <3>1, <3>2
  <2>2. CASE ~(i + n < Len(l))
    <3>1. Splice(l, i, n, more) = SubSeq(l, 1, i) \o more \o SubSeq(l, i + 1 + (Len(l) - i), Len(l))
      BY <1>0, <2>2 DEF Splice
    <3>2. i + 1 + (Len(l) - i) = j + 1
      BY <1>0, <2>2
    <3> QED BY <3>1, <3>2
  <2> QED BY <2>1, <2>2
<1>2. /\ a \in Seq(Thing) /\ Len(a) = i /\ \A k \in 1..i : a[k] = l[k]
  BY <1>0, Sliced
<1>3. /\ b \in Seq(Thing) /\ Len(b) = N - j /\ \A k \in 1..(N - j) : b[k] = l[j + k]
  BY <1>0, Sliced
<1> HIDE DEF a, b, j, N, M
<1>4. /\ c \in Seq(Thing) /\ Len(c) = i + M
      /\ \A k \in 1..i : c[k] = a[k]
  <2>1. /\ a \o more \in Seq(Thing) /\ Len(a \o more) = Len(a) + Len(more)
        /\ \A k \in 1..Len(a) : (a \o more)[k] = a[k]
    <3>1. a \in Seq(Thing) /\ more \in Seq(Thing)
      BY <1>0, <1>2
    <3> QED BY <3>1, Joined
  <2> QED BY <1>2, <2>1 DEF M
<1> HIDE DEF c
<1>5. /\ q \in Seq(Thing) /\ Len(q) = (i + M) + (N - j)
      /\ \A k \in 1..(i + M) : q[k] = c[k]
      /\ \A k \in 1..(N - j) : q[(i + M) + k] = b[k]
  <2>1. /\ c \o b \in Seq(Thing) /\ Len(c \o b) = Len(c) + Len(b)
        /\ \A k \in 1..Len(c) : (c \o b)[k] = c[k]
        /\ \A k \in 1..Len(b) : (c \o b)[Len(c) + k] = b[k]
    <3>1. c \in Seq(Thing) /\ b \in Seq(Thing)
      BY <1>3, <1>4
    <3> QED BY <3>1, Joined
  <2> QED BY <1>3, <1>4, <2>1
<1> HIDE DEF q
<1>6. ASSUME NEW p \in 0..(i - 1) PROVE At(q, p) = At(l, p)
  <2>1. p + 1 \in 1..i /\ p + 1 \in 1..(i + M) /\ p < Len(q) /\ p < Len(l)
    BY <1>0, <1>5 DEF N
  <2>2. q[p + 1] = l[p + 1]
    BY <1>2, <1>4, <1>5, <2>1
  <2> QED BY <2>1, <2>2 DEF At
<1>7. ASSUME NEW p \in j..(N - 1) PROVE At(q, (p - n) + M) = At(l, p)
  <2> DEFINE k == (p - j) + 1
  <2>1. /\ k \in 1..(N - j) /\ (i + M) + k = ((p - n) + M) + 1 /\ j + k = p + 1
        /\ (p - n) + M < (i + M) + (N - j) /\ p < N
    <3>1. p \in Nat /\ p >= j /\ p <= N - 1 /\ j \in Nat
      BY <1>0
    <3>2. (p - j) + 1 \in 1..(N - j) /\ j + ((p - j) + 1) = p + 1 /\ p < N
      BY <1>0, <3>1
    <3>3. (i + M) + ((p - j) + 1) = ((p - n) + M) + 1 /\ (p - n) + M < (i + M) + (N - j)
      BY <1>0, <3>1
    <3> QED BY <3>2, <3>3
  <2> HIDE DEF k
  <2>2. q[(i + M) + k] = l[j + k]
    BY <1>3, <1>5, <2>1
  <2>3. q[((p - n) + M) + 1] = l[p + 1]
    BY <2>1, <2>2
  <2>4. (p - n) + M < Len(q) /\ p < Len(l)
    BY <1>5, <2>1 DEF N
  <2> QED BY <2>3, <2>4 DEF At
<1>8. M <= Len(q)
  BY <1>0, <1>5
<1> QED BY <1>1, <1>6, <1>7, <1>8 DEF j, N, M

LEMMA InsertsFollow ==
  ASSUME NEW t \in Tabs, Ascends(t.sel), t.sel # <<>>, InRange(t),
         Len(Inserts(t).list) < MaxLen
  PROVE  Followed(t, Inserts(t))
<1> DEFINE u == Inserts(t)
           M == Len(t.picks)
           i == t.sel[1]
<1>0. /\ t.list \in Lists /\ t.sel \in Seq(Nat) /\ t.picks \in Lists /\ M \in Nat
      /\ Len(t.sel) \in Nat /\ 1 \in 1..Len(t.sel) /\ Len(t.list) \in Nat /\ 0 \in 0..1
      /\ \A k \in 1..Len(t.sel) : t.sel[k] \in Nat /\ t.sel[k] < Len(t.list)
  <2>1. t.list \in Lists /\ t.sel \in Seq(Nat) /\ t.picks \in Lists /\ M \in Nat /\ DOMAIN t.sel = 1..Len(t.sel)
    BY TabParts, Picks
  <2>2. Len(t.sel) \in Nat /\ 1 \in 1..Len(t.sel) /\ Len(t.list) \in Nat
    BY <2>1 DEF Lists
  <2> QED BY <2>1, <2>2 DEF InRange
<1>1. u \in Tabs
  BY Insertions DEF Edits
<1>3. i \in 0..(Len(t.list) - 1)
  BY <1>0
<1>2. u.list = Splice(t.list, i, 0, t.picks) /\ u.sel = Shifted(t.sel, M)
  <2>1. u.list = Splice(t.list, i, 0, t.picks) /\ u.sel = Shifted(t.sel, Len(Clip(t.picks)))
    BY <1>0 DEF Inserts, Tabs
  <2>2. M <= Len(Splice(t.list, i, 0, t.picks))
    BY <1>0, <1>3, SpliceReads
  <2>3. Len(Splice(t.list, i, 0, t.picks)) \in Nat /\ MaxLen \in Nat
    BY <1>0, SpliceIsList, WorklistAssumption DEF Lists
  <2>4. ~(M > MaxLen)
    BY <1>0, <2>1, <2>2, <2>3
  <2> QED BY <2>1, <2>4 DEF Clip
<1>4. \A p \in (i + 0)..(Len(t.list) - 1) :
        At(Splice(t.list, i, 0, t.picks), (p - 0) + M) = At(t.list, p)
  BY <1>0, <1>3, SpliceReads
<1>5. u.list \in Lists /\ u.sel \in Seq(Nat)
  BY <1>1, TabParts
<1>6. Len(u.sel) = Len(t.sel) /\ \A k \in 1..Len(t.sel) : u.sel[k] = t.sel[k] + M
  BY <1>0, <1>2, <1>5, ShiftReads
<1> HIDE DEF u, M
<1>7. \A k \in 1..Len(t.sel) : At(u.list, u.sel[k]) = At(t.list, t.sel[k])
  <2> SUFFICES ASSUME NEW k \in 1..Len(t.sel) PROVE At(u.list, u.sel[k]) = At(t.list, t.sel[k])
    OBVIOUS
  <2> DEFINE p == t.sel[k]
  <2>1. i <= p /\ p \in Nat /\ p < Len(t.list)
    <3>1. CASE k = 1
      BY <1>0, <3>1
    <3>2. CASE k # 1
      <4>1. 1 < k
        BY <1>0, <3>2
      <4>2. i < p
        BY <1>0, <4>1 DEF Ascends
      <4> QED BY <1>0, <4>2
    <3> QED BY <3>1, <3>2
  <2>2. u.sel[k] = p + M
    BY <1>6
  <2> HIDE DEF p, i
  <2>3. p \in (i + 0)..(Len(t.list) - 1) /\ (p - 0) + M = p + M
    BY <1>0, <1>3, <2>1
  <2>4. At(u.list, p + M) = At(t.list, p)
    BY <1>2, <1>4, <2>3
  <2> QED BY <2>2, <2>4 DEF p
<1>8. SelectedTasks(u) = SelectedTasks(t)
  BY <1>0, <1>5, <1>6, <1>7, SameTasks
<1> QED BY <1>8 DEF Followed, u

\* A filter that all pass but, it may be, one: the one at c.
LEMMA ThoseBut ==
  ASSUME NEW s \in Seq(Nat), NEW G, NEW c \in 1..(Len(s) + 1),
         \A k \in 1..Len(s) : s[k] \in G <=> k # c
  PROVE  /\ Those(s, G) \in Seq(Nat)
         /\ Len(Those(s, G)) = IF c <= Len(s) THEN Len(s) - 1 ELSE Len(s)
         /\ \A k \in 1..Len(Those(s, G)) : Those(s, G)[k] = s[IF k < c THEN k ELSE k + 1]
<1>0. Len(s) \in Nat /\ c \in Nat /\ c >= 1 /\ c <= Len(s) + 1
  OBVIOUS
<1>1. PICK f : ThoseUpto(f, s, G, Len(s)) /\ Those(s, G) = f[Len(s)]
  BY <1>0, ThoseIs
<1> DEFINE From(k) == IF k < c THEN k ELSE k + 1
           Are(q, n) == /\ q \in Seq(Nat)
                        /\ Len(q) = IF n < c THEN n ELSE n - 1
                        /\ \A k \in 1..Len(q) : q[k] = s[From(k)]
           T == {n \in Nat : n <= Len(s) => Are(f[n], n)}
<1>2. 0 \in T
  <2> DEFINE e == <<>>
  <2>1. f[0] = e /\ e \in Seq(Nat) /\ Len(e) = 0
    BY <1>0, <1>1 DEF ThoseUpto
  <2> HIDE DEF e
  <2>2. 0 < c /\ 1..0 = {}
    BY <1>0
  <2>3. Are(e, 0)
    BY <2>1, <2>2
  <2> QED BY <2>1, <2>3
<1>3. ASSUME NEW n \in Nat, n \in T PROVE n + 1 \in T
  <2> SUFFICES ASSUME n + 1 <= Len(s) PROVE Are(f[n + 1], n + 1)
    OBVIOUS
  <2> DEFINE q == f[n]
             x == s[n + 1]
             r == f[n + 1]
  <2>1. Are(q, n) /\ x \in Nat /\ n + 1 \in 1..Len(s) /\ (x \in G <=> n + 1 # c)
    BY <1>0, <1>3
  <2>2. r = IF x \in G THEN Append(q, x) ELSE q
    <3>1. n + 1 \in 0..Len(s) /\ n + 1 # 0 /\ (n + 1) - 1 = n
      OBVIOUS
    <3>2. f[n + 1] = IF s[n + 1] \in G THEN Append(f[(n + 1) - 1], s[n + 1])
                     ELSE f[(n + 1) - 1]
      BY <1>1, <3>1 DEF ThoseUpto
    <3> QED BY <3>1, <3>2
  <2>x. x = s[n + 1]
    OBVIOUS
  <2> HIDE DEF q, x, r
  <2>3. CASE n + 1 = c
    <3>1. r = q /\ n < c /\ ~(n + 1 < c) /\ (n + 1) - 1 = n
      BY <1>0, <2>1, <2>2, <2>3
    <3> QED BY <2>1, <3>1 DEF r
  <2>4. CASE n + 1 # c
    <3>a. q \in Seq(Nat) /\ x \in Nat /\ r = Append(q, x) /\ Len(q) \in Nat
      BY <2>1, <2>2, <2>4
    <3>1. r \in Seq(Nat) /\ Len(r) = Len(q) + 1 /\ r[Len(q) + 1] = x
          /\ \A k \in 1..Len(q) : r[k] = q[k]
      BY <3>a
    <3>2. Len(r) = IF n + 1 < c THEN n + 1 ELSE (n + 1) - 1
      <4>1. CASE n < c
        <5>1. Len(q) = n /\ n + 1 < c
          BY <1>0, <2>1, <2>4, <4>1
        <5> QED BY <3>1, <5>1
      <4>2. CASE ~(n < c)
        <5>1. Len(q) = n - 1 /\ ~(n + 1 < c)
          BY <1>0, <2>1, <4>2
        <5> QED BY <3>1, <5>1
      <4> QED BY <4>1, <4>2
    <3>3. From(Len(q) + 1) = n + 1
      <4>1. CASE n < c
        <5>1. Len(q) = n /\ n + 1 < c
          BY <1>0, <2>1, <2>4, <4>1
        <5> QED BY <5>1
      <4>2. CASE ~(n < c)
        <5>1. Len(q) = n - 1 /\ ~((n - 1) + 1 < c) /\ (n - 1) + 1 = n
          BY <1>0, <2>1, <4>2
        <5> QED BY <5>1
      <4> QED BY <4>1, <4>2
    <3>4. \A k \in 1..Len(r) : r[k] = s[From(k)]
      <4> SUFFICES ASSUME NEW k \in 1..Len(r) PROVE r[k] = s[From(k)]
        OBVIOUS
      <4>1. CASE k = Len(q) + 1
        BY <2>x, <3>1, <3>3, <4>1
      <4>2. CASE k \in 1..Len(q)
        BY <2>1, <3>1, <4>2
      <4> QED BY <3>a, <3>1, <4>1, <4>2
    <3> QED BY <3>1, <3>2, <3>4 DEF r
  <2> QED BY <2>3, <2>4
<1>4. Len(s) \in T
  <2> HIDE DEF T
  <2> QED BY <1>0, <1>2, <1>3, Induct
<1>5. Are(f[Len(s)], Len(s))
  <2> HIDE DEF Are
  <2>1. Len(s) <= Len(s)
    BY <1>0
  <2> QED BY <1>4, <2>1
<1>6. Len(s) < c <=> ~(c <= Len(s))
  BY <1>0
<1>7. /\ Those(s, G) \in Seq(Nat)
      /\ Len(Those(s, G)) = IF Len(s) < c THEN Len(s) ELSE Len(s) - 1
      /\ \A k \in 1..Len(Those(s, G)) : Those(s, G)[k] = s[IF k < c THEN k ELSE k + 1]
  BY <1>1, <1>5
<1> QED BY <1>6, <1>7

LEMMA SplicesNothing ==
  ASSUME NEW l \in Lists, NEW i \in Nat, ~(i < Len(l)) PROVE Splice(l, i, 1, <<>>) = l
<1> DEFINE n == Len(l)
           e == <<>>
           a == SubSeq(l, 1, n)
           b == SubSeq(l, n + 1, n)
<1>0. n \in Nat /\ l \in Seq(Thing) /\ n \in 0..n
  BY DEF Lists, Thing
<1>n. ~(n + 1 < n)
  BY <1>0
<1>1. Splice(l, i, 1, e) = SubSeq(l, 1, n) \o e \o SubSeq(l, n + 1 + (n - n), n)
  <2> HIDE DEF n, e
  <2>1. Len(l) = n /\ ~(i < n)
    BY DEF n
  <2> QED BY <1>n, <2>1 DEF Splice
<1>2. n + 1 + (n - n) = n + 1
  BY <1>0
<1>3. a = l /\ b = e
  BY <1>0
<1>4. Splice(l, i, 1, e) = a \o e \o b
  BY <1>1, <1>2
<1> HIDE DEF a, b
<1>5. l \o e = l
  BY <1>0
<1> QED BY <1>3, <1>4, <1>5

LEMMA RemovalsFollow ==
  ASSUME NEW t \in Tabs, Ascends(t.sel), InRange(t), NEW i \in Nat, NEW u,
         u.list \in Lists, u.list = Splice(t.list, i, 1, <<>>), u.sel = RemovedSelection(t.sel, i)
  PROVE  Followed(t, u)
<1> DEFINE s == t.sel
           n == Len(s)
           G == Nat \ {i}
           v == Those(s, G)
<1>0. /\ t.list \in Lists /\ s \in Seq(Nat) /\ n \in Nat /\ DOMAIN s = 1..n /\ Len(t.list) \in Nat
      /\ \A k \in 1..n : s[k] \in Nat /\ s[k] < Len(t.list)
  <2>1. t.list \in Lists /\ s \in Seq(Nat) /\ DOMAIN s = 1..n /\ n \in Nat
    BY TabParts
  <2>2. Len(t.list) \in Nat
    BY <2>1 DEF Lists
  <2> QED BY <2>1, <2>2 DEF InRange
<1>1. \A j, k \in 1..n : j < k => s[j] < s[k]
  BY DEF Ascends
<1>2. u.sel \in Seq(Nat)
  BY <1>0, RemovedAscends
<1>3. v \in Seq(Nat) /\ \A k \in 1..Len(v) : v[k] \in G
  BY <1>0, ThosePicks DEF Picked
<1>4. u.sel = [k \in DOMAIN v |-> IF v[k] > i THEN v[k] - 1 ELSE v[k]]
  BY DEF RemovedSelection, Unselected
<1> HIDE DEF v
<1>5. /\ Len(u.sel) = Len(v) /\ Len(v) \in Nat
      /\ \A k \in 1..Len(v) : u.sel[k] = IF v[k] > i THEN v[k] - 1 ELSE v[k]
  <2>1. DOMAIN v = 1..Len(v) /\ Len(v) \in Nat
    BY <1>3
  <2>2. DOMAIN u.sel = 1..Len(v) /\ DOMAIN u.sel = 1..Len(u.sel) /\ Len(u.sel) \in Nat
    BY <1>2, <1>4, <2>1
  <2>3. Len(u.sel) = Len(v)
    BY <2>1, <2>2
  <2> QED BY <1>4, <2>1, <2>3
\* A task that is not the one at i is still where the selection says.
<1>6. ASSUME NEW k \in 1..Len(v), NEW p, p = v[k], p < Len(t.list)
      PROVE  At(u.list, u.sel[k]) = At(t.list, p)
  <2>0. p \in Nat /\ p # i
    BY <1>3, <1>6
  <2>1. CASE ~(i < Len(t.list))
    <3>1. u.list = t.list
      BY <1>0, <2>1, SplicesNothing
    <3>2. ~(p > i)
      BY <1>0, <1>6, <2>0, <2>1
    <3> QED BY <1>5, <1>6, <3>1, <3>2
  <2>2. CASE i < Len(t.list)
    <3> DEFINE e == <<>>
    <3>e. e \in Lists /\ Len(e) = 0 /\ e = <<>>
      BY DEF Lists
    <3> HIDE DEF e
    <3>0. i \in 0..(Len(t.list) - 1) /\ 1 \in 0..1
      BY <1>0, <2>2
    <3>1. /\ \A r \in 0..(i - 1) : At(Splice(t.list, i, 1, e), r) = At(t.list, r)
          /\ \A r \in (i + 1)..(Len(t.list) - 1) :
               At(Splice(t.list, i, 1, e), (r - 1) + Len(e)) = At(t.list, r)
      <4>1. t.list \in Lists /\ e \in Lists
        BY <1>0, <3>e
      <4>2. \A r \in 0..(i - 1) : At(Splice(t.list, i, 1, e), r) = At(t.list, r)
        BY <3>0, <4>1, SpliceReads
      <4>3. \A r \in (i + 1)..(Len(t.list) - 1) :
               At(Splice(t.list, i, 1, e), (r - 1) + Len(e)) = At(t.list, r)
        BY <3>0, <4>1, SpliceReads
      <4> QED BY <4>2, <4>3
    <3>2. CASE p > i
      <4>1. p \in (i + 1)..(Len(t.list) - 1) /\ (p - 1) + 0 = p - 1
        BY <1>0, <1>6, <2>0, <3>2
      <4>2. At(u.list, (p - 1) + Len(e)) = At(t.list, p)
        BY <3>1, <3>e, <4>1
      <4>3. u.sel[k] = p - 1
        BY <1>5, <1>6, <3>2
      <4> QED BY <3>e, <4>1, <4>2, <4>3
    <3>3. CASE ~(p > i)
      <4>1. p \in 0..(i - 1)
        BY <2>0, <3>3
      <4>2. u.sel[k] = p
        BY <1>5, <1>6, <3>3
      <4> QED BY <3>1, <3>e, <4>1, <4>2
    <3> QED BY <3>2, <3>3
  <2> QED BY <2>1, <2>2
<1> HIDE DEF s, n
<1>7. CASE \E c \in 1..n : s[c] = i
  <2>1. PICK c \in 1..n : s[c] = i
    BY <1>7
  <2>2. \A k \in 1..Len(s) : s[k] \in G <=> k # c
    <3> SUFFICES ASSUME NEW k \in 1..n PROVE s[k] # i <=> k # c
      BY <1>0 DEF n
    <3>1. k # c => k < c \/ c < k
      BY <1>0
    <3>2. s[k] \in Nat /\ s[c] \in Nat
      BY <1>0
    <3> QED BY <1>1, <2>1, <3>1, <3>2
  <2>3. c \in 1..(Len(s) + 1) /\ c <= Len(s)
    BY <1>0 DEF n
  <2> HIDE DEF G
  <2>4. /\ Len(v) = IF c <= Len(s) THEN Len(s) - 1 ELSE Len(s)
        /\ \A k \in 1..Len(v) : v[k] = s[IF k < c THEN k ELSE k + 1]
    BY <1>0, <2>2, <2>3, ThoseBut, SMTT(60) DEF v
  <2>5. Len(u.sel) = n - 1
    BY <1>5, <2>3, <2>4 DEF n
  <2>6. \A k \in 1..Len(u.sel) : At(u.list, u.sel[k]) = At(t.list, s[IF k < c THEN k ELSE k + 1])
    <3> SUFFICES ASSUME NEW k \in 1..Len(v)
                 PROVE  At(u.list, u.sel[k]) = At(t.list, s[IF k < c THEN k ELSE k + 1])
      BY <1>5
    <3> DEFINE j == IF k < c THEN k ELSE k + 1
    <3>1. j \in 1..n
      BY <1>0, <1>5, <2>5
    <3>2. v[k] = s[j]
      BY <2>4
    <3> HIDE DEF j
    <3>3. s[j] < Len(t.list)
      BY <1>0, <3>1
    <3>4. At(u.list, u.sel[k]) = At(t.list, s[j])
      BY <1>6, <3>2, <3>3
    <3> QED BY <3>4 DEF j
  <2>7. SelectedTasks(u) = RemoveAt(SelectedTasks(t), c)
    <3>1. /\ t.sel \in Seq(Nat) /\ c \in 1..Len(t.sel) /\ Len(u.sel) = Len(t.sel) - 1
          /\ \A k \in 1..Len(u.sel) : At(u.list, u.sel[k]) = At(t.list, t.sel[IF k < c THEN k ELSE k + 1])
      BY <1>0, <2>5, <2>6 DEF s, n
    <3> QED BY <1>0, <1>2, <3>1, LessTasks
  <2>8. c \in DOMAIN t.sel
    BY <1>0 DEF s
  <2> QED BY <2>7, <2>8 DEF Followed
<1>8. CASE ~ \E c \in 1..n : s[c] = i
  <2> DEFINE c == Len(s) + 1
  <2>1. c \in 1..(Len(s) + 1) /\ ~(c <= Len(s)) /\ \A k \in 1..Len(s) : k # c /\ k < c
    BY <1>0 DEF n
  <2>2. \A k \in 1..Len(s) : s[k] \in G <=> k # c
    BY <1>0, <1>8, <2>1 DEF n
  <2> HIDE DEF G, c
  <2>4. /\ Len(v) = IF c <= Len(s) THEN Len(s) - 1 ELSE Len(s)
        /\ \A k \in 1..Len(v) : v[k] = s[IF k < c THEN k ELSE k + 1]
    BY <1>0, <2>1, <2>2, ThoseBut DEF v
  <2>5. Len(v) = n /\ \A k \in 1..n : v[k] = s[k]
    BY <2>1, <2>4 DEF n
  <2>6. \A k \in 1..n : At(u.list, u.sel[k]) = At(t.list, s[k])
    <3> SUFFICES ASSUME NEW k \in 1..n PROVE At(u.list, u.sel[k]) = At(t.list, s[k])
      OBVIOUS
    <3>1. k \in 1..Len(v) /\ s[k] = v[k] /\ s[k] < Len(t.list)
      BY <1>0, <2>5
    <3> QED BY <1>6, <3>1
  <2>7. SelectedTasks(u) = SelectedTasks(t)
    <3>1. /\ t.sel \in Seq(Nat) /\ Len(u.sel) = Len(t.sel)
          /\ \A k \in 1..Len(t.sel) : At(u.list, u.sel[k]) = At(t.list, t.sel[k])
      BY <1>0, <1>5, <2>5, <2>6 DEF s, n
    <3> QED BY <1>0, <1>2, <3>1, SameTasks
  <2> QED BY <2>7 DEF Followed
<1> QED BY <1>7, <1>8

\* Tasks that are moved or make room keep their selection.
THEOREM SelectionStays == ListSpec => SelectionFollows
<1> DEFINE Acts == \/ city_worklist_task_up \/ city_worklist_task_down
                   \/ city_insert_in_worklist \/ handle_current_worklist_direct_remove
<1>1. ASSUME tab \in Tabs, Ascends(tab.sel), InRange(tab), Len(tab'.list) < MaxLen, tab.sel # <<>>, Acts
      PROVE  Followed(tab, tab')
  <2>0. /\ tab.list \in Lists /\ tab.sel \in Seq(Nat) /\ Len(tab.sel) \in Nat
        /\ DOMAIN tab.sel = 1..Len(tab.sel) /\ tab.drawn \in Nat
    BY <1>1, TabParts
  <2>c. ASSUME NEW w, w \in Tabs, tab' = [w EXCEPT !.list = Clip(@)] PROVE tab' = w
    <3>1. w.list \in Lists
      BY <2>c, TabParts
    <3>2. tab'.list = Clip(w.list)
      BY <2>c DEF Tabs
    <3>3. Clip(w.list) = w.list
      BY <1>1, <3>1, <3>2, Unclipped
    <3> QED BY <2>c, <3>3 DEF Tabs
  <2>1. CASE city_worklist_task_up
    <3>1. CASE Produces(tab) /\ At(tab.list, 0) = Hole
      <4>1. tab' = [tab EXCEPT !.sel = Tail(@)]
        BY <2>1, <3>1 DEF city_worklist_task_up, Selects
      <4>2. tab'.list = tab.list /\ tab'.sel = Tail(tab.sel)
        BY <1>1, <4>1 DEF Tabs
      <4>3. /\ tab'.sel \in Seq(Nat) /\ Len(tab'.sel) = Len(tab.sel) - 1 /\ 1 \in 1..Len(tab.sel)
        BY <1>1, <2>0, <4>2
      <4>4. \A k \in 1..Len(tab'.sel) : tab'.sel[k] = tab.sel[k + 1] /\ ~(k < 1)
        BY <2>0, <4>2, <4>3
      <4>5. \A k \in 1..Len(tab'.sel) :
              At(tab'.list, tab'.sel[k]) = At(tab.list, tab.sel[IF k < 1 THEN k ELSE k + 1])
        BY <4>2, <4>4
      <4>6. SelectedTasks(tab') = RemoveAt(SelectedTasks(tab), 1)
        BY <2>0, <4>2, <4>3, <4>5, LessTasks
      <4> QED BY <2>0, <4>3, <4>6 DEF Followed
    <3>2. CASE ~(Produces(tab) /\ At(tab.list, 0) = Hole)
      <4>1. tab' = [MovesUp(tab) EXCEPT !.list = Clip(@)]
        BY <2>1, <3>2 DEF city_worklist_task_up, SendList, Sends
      <4>2. MovesUp(tab) \in Tabs
        BY <1>1, Ups DEF Edits
      <4>3. tab' = MovesUp(tab)
        BY <2>c, <4>1, <4>2
      <4> QED BY <1>1, <4>3, UpsFollow
    <3> QED BY <3>1, <3>2
  <2>2. CASE city_worklist_task_down
    <3>1. tab' = [MovesDown(tab) EXCEPT !.list = Clip(@)] /\ Last(tab.sel) # Len(tab.list) - 1
      BY <2>2 DEF city_worklist_task_down, SendList, Sends
    <3>2. MovesDown(tab) \in Tabs
      BY <1>1, Downs DEF Edits
    <3>3. tab' = MovesDown(tab)
      BY <2>c, <3>1, <3>2
    <3> QED BY <1>1, <3>1, <3>3, DownsFollow
  <2>3. CASE city_insert_in_worklist
    <3>1. tab' = [Inserts(tab) EXCEPT !.list = Clip(@)]
      BY <2>3 DEF city_insert_in_worklist, SendList, Sends
    <3>2. Inserts(tab) \in Tabs
      BY <1>1, Insertions DEF Edits
    <3>3. tab' = Inserts(tab)
      BY <2>c, <3>1, <3>2
    <3>4. Len(Inserts(tab).list) < MaxLen
      BY <1>1, <3>3
    <3> QED BY <1>1, <3>3, <3>4, InsertsFollow
  <2>4. CASE handle_current_worklist_direct_remove
    <3>1. PICK i \in 0..(tab.drawn - 1) :
            SendList([tab EXCEPT !.list = Splice(@, i, 1, <<>>), !.sel = RemovedSelection(@, i)], <<>>)
      BY <2>4 DEF handle_current_worklist_direct_remove
    <3> DEFINE e == <<>>
               l == Splice(tab.list, i, 1, e)
               r == RemovedSelection(tab.sel, i)
               w == [tab EXCEPT !.list = l, !.sel = r]
    <3>0. i \in Nat /\ 1 \in Nat /\ e \in Lists
      BY <2>0 DEF Lists
    <3>2. tab' = [w EXCEPT !.list = Clip(@)]
      BY <3>1 DEF SendList, Sends
    <3>e. e = <<>>
      OBVIOUS
    <3> HIDE DEF e
    <3>3. l \in Lists /\ r \in Seq(Nat)
      BY <1>1, <2>0, <3>0, SpliceIsList, RemovedAscends
    <3>i. l = Splice(tab.list, i, 1, <<>>) /\ r = RemovedSelection(tab.sel, i)
      BY <3>e
    <3> HIDE DEF l, r
    <3>4. w \in Tabs /\ w.list = l /\ w.sel = r
      BY <1>1, <3>3 DEF Tabs
    <3> HIDE DEF w
    <3>5. tab' = w
      BY <2>c, <3>2, <3>4
    <3>6. Followed(tab, w)
      BY <1>1, <3>0, <3>3, <3>4, <3>i, RemovalsFollow
    <3> QED BY <3>5, <3>6
  <2> QED BY <1>1, <2>1, <2>2, <2>3, <2>4
<1>2. ListSpec => []ListSound
  BY ListsAreSound
<1>3. ListSound => tab \in Tabs /\ Ascends(tab.sel)
  <2> SUFFICES ASSUME ListSound PROVE tab \in Tabs /\ Ascends(tab.sel)
    OBVIOUS
  <2>1. tab \in Tabs
    BY DEF ListSound, ListTypeOK
  <2>2. DOMAIN tab.sel = 1..Len(tab.sel)
    BY <2>1, TabParts
  <2> QED BY <2>1, <2>2 DEF ListSound, SelectionAscends, Ascends
<1> DEFINE Keeps == InRange(tab) /\ Len(tab'.list) < MaxLen /\ tab.sel # <<>> /\ Acts
                      => Followed(tab, tab')
<1>4. ListSound /\ [Next_worklist]_listVars => [Keeps]_listVars
  BY <1>1, <1>3
<1>5. ListSpec => [][Keeps]_listVars
  BY <1>2, <1>4, PTL DEF ListSpec
<1>6. [Keeps]_listVars <=> [/\ InRange(tab) /\ Len(tab'.list) < MaxLen /\ tab.sel # <<>>
     /\ \/ city_worklist_task_up \/ city_worklist_task_down
        \/ city_insert_in_worklist \/ handle_current_worklist_direct_remove
     => \/ SelectedTasks(tab') = SelectedTasks(tab)
        \/ \E k \in DOMAIN tab.sel :
             SelectedTasks(tab') = RemoveAt(SelectedTasks(tab), k)]_listVars
  BY DEF Followed
<1> QED BY <1>5, <1>6, PTL DEF SelectionFollows

-----------------------------------------------------------------------------
(***************************************************************************)
(* UnitDecision                                                            *)
(***************************************************************************)

Present(s, us) == \A i \in 1..Len(s) : s[i] \in us
Distinct(q) == \A i, j \in 1..Len(q) : q[i] = q[j] => i = j

Good(c) == /\ c \in Clients /\ Distinct(c.dialogs)
           /\ Present(c.focus, c.units) /\ Present(c.urgent, c.units)

\* A step of a selection leaves the units, the focus and the dialogs alone.
Calm(c, d) == /\ d.units = c.units /\ d.want = c.want /\ d.doing = c.doing
              /\ d.focus = c.focus /\ d.urgent = c.urgent /\ d.waiting = c.waiting
              /\ d.dialogs = c.dialogs

LEMMA ClientParts ==
  ASSUME NEW c \in Clients
  PROVE  /\ c.units \in SUBSET Unit /\ c.want \in [Unit -> BOOLEAN] /\ c.doing \in [Unit -> Doing]
         /\ c.focus \in Seq(Unit) /\ c.urgent \in Seq(Unit) /\ c.waiting \in Seq(Unit)
         /\ c.asking \in Unit \cup {Zero} /\ c.more \in BOOLEAN /\ c.restart \in BOOLEAN
         /\ c.undecided \in BOOLEAN /\ c.dialogs \in Seq(Dialog) /\ c.up \in Seq(Request)
BY DEF Clients

LEMMA CalmIsGood == ASSUME NEW c, NEW d \in Clients, Good(c), Calm(c, d) PROVE Good(d)
BY DEF Good, Calm

LEMMA CalmTwice == ASSUME NEW c, NEW d, NEW e, Calm(c, d), Calm(d, e) PROVE Calm(c, e)
BY DEF Calm

LEMMA Requested ==
  ASSUME NEW c \in Clients, NEW type \in Requests, NEW u \in Unit
  PROVE  send_request(c, type, u) \in Clients /\ Calm(c, send_request(c, type, u))
<1> DEFINE r == [type |-> type, unit |-> u]
           q == Append(c.up, r)
<1>1. r \in Request
  BY DEF Request
<1> HIDE DEF r
<1>2. q \in Seq(Request)
  BY <1>1, ClientParts
<1>3. send_request(c, type, u) = [c EXCEPT !.up = q]
  BY DEF send_request, r
<1> HIDE DEF q
<1> QED BY <1>2, <1>3 DEF Clients, Calm

LEMMA Asked_ ==
  ASSUME NEW c \in Clients, NEW u \in Unit
  PROVE  ask_server_for_actions(c, u) \in Clients /\ Calm(c, ask_server_for_actions(c, u))
<1> DEFINE d == [c EXCEPT !.asking = u]
<1>1. d \in Clients /\ Calm(c, d)
  BY DEF Clients, Calm
<1>2. "actions" \in Requests
  BY DEF Requests
<1>3. ask_server_for_actions(c, u) = send_request(d, "actions", u)
  BY DEF ask_server_for_actions
<1> HIDE DEF d
<1> QED BY <1>1, <1>2, <1>3, Requested, CalmTwice

LEMMA Ended_ ==
  ASSUME NEW c \in Clients
  PROVE  LET d == action_selection_no_longer_in_progress(c) IN d \in Clients /\ Calm(c, d)
BY DEF action_selection_no_longer_in_progress, Clients, Calm

LEMMA Cleared ==
  ASSUME NEW c \in Clients, NEW u
  PROVE  action_decision_clear_want(c, u) \in Clients /\ Calm(c, action_decision_clear_want(c, u))
<1>1. CASE u \in c.units /\ c.want[u]
  <2>1. u \in Unit /\ "unqueue" \in Requests
    BY <1>1, ClientParts DEF Requests
  <2> QED BY <1>1, <2>1, Requested DEF action_decision_clear_want
<1>2. CASE ~(u \in c.units /\ c.want[u])
  BY <1>2 DEF action_decision_clear_want, Calm
<1> QED BY <1>1, <1>2

LEMMA NextAsks ==
  ASSUME NEW c \in Clients, NEW old
  PROVE  LET d == action_selection_next_in_focus(c, old) IN d \in Clients /\ Calm(c, d)
<1> DEFINE G == {u \in Unit : u # old /\ c.want[u]}
           owing == Those(c.focus, G)
<1>1. owing \in Seq(Unit)
  <2> HIDE DEF G
  <2> QED BY ClientParts, ThosePicks
<1>2. action_selection_next_in_focus(c, old) =
        IF owing = <<>> THEN c ELSE ask_server_for_actions(c, Head(owing))
  BY DEF action_selection_next_in_focus
<1> HIDE DEF owing
<1>3. CASE owing = <<>>
  BY <1>2, <1>3 DEF Calm
<1>4. CASE owing # <<>>
  <2>1. Head(owing) \in Unit
    BY <1>1, <1>4
  <2> QED BY <1>2, <1>4, <2>1, Asked_
<1> QED BY <1>3, <1>4

LEMMA MayBeDone ==
  ASSUME NEW c \in Clients, NEW u
  PROVE  LET d == act_sel_queue_may_be_done(c, u) IN d \in Clients /\ Calm(c, d)
<1> DEFINE over == IF c.restart THEN [c EXCEPT !.restart = FALSE]
                   ELSE action_selection_no_longer_in_progress(c)
           d == act_sel_queue_may_be_done(c, u)
<1>1. over \in Clients /\ Calm(c, over)
  <2>1. CASE c.restart
    BY <2>1 DEF Clients, Calm
  <2>2. CASE ~c.restart
    BY <2>2, Ended_
  <2> QED BY <2>1, <2>2
<1>2. d = IF c.more THEN c
          ELSE IF c.undecided THEN [over EXCEPT !.undecided = FALSE]
          ELSE action_selection_next_in_focus(action_decision_clear_want(over, u), u)
  BY DEF act_sel_queue_may_be_done
<1> HIDE DEF over, d
<1>3. ASSUME c.more PROVE d \in Clients /\ Calm(c, d)
  BY <1>2, <1>3 DEF Calm
<1>4. ASSUME ~c.more, c.undecided PROVE d \in Clients /\ Calm(c, d)
  BY <1>1, <1>2, <1>4 DEF Clients, Calm
<1>5. ASSUME ~c.more, ~c.undecided PROVE d \in Clients /\ Calm(c, d)
  <2> DEFINE e == action_decision_clear_want(over, u)
  <2>1. e \in Clients /\ Calm(over, e)
    BY <1>1, Cleared
  <2>2. d = action_selection_next_in_focus(e, u)
    BY <1>2, <1>5
  <2> HIDE DEF e
  <2>3. d \in Clients /\ Calm(e, d)
    BY <2>1, <2>2, NextAsks
  <2> QED BY <1>1, <2>1, <2>3, CalmTwice
<1>6. d \in Clients /\ Calm(c, d)
  BY <1>3, <1>4, <1>5
<1> QED BY <1>6 DEF d

LEMMA IsDone ==
  ASSUME NEW c \in Clients, NEW u
  PROVE  LET d == act_sel_queue_done(c, u) IN d \in Clients /\ Calm(c, d)
<1> DEFINE a == [c EXCEPT !.more = FALSE]
           b == act_sel_queue_may_be_done(a, u)
           d == [b EXCEPT !.restart = FALSE, !.undecided = FALSE]
<1>1. a \in Clients /\ Calm(c, a)
  BY DEF Clients, Calm
<1>2. act_sel_queue_done(c, u) = d
  BY DEF act_sel_queue_done
<1> HIDE DEF a
<1>3. b \in Clients /\ Calm(a, b)
  BY <1>1, MayBeDone
<1> HIDE DEF b
<1>4. d \in Clients /\ Calm(b, d)
  BY <1>3 DEF Clients, Calm
<1> HIDE DEF d
<1> QED BY <1>1, <1>2, <1>3, <1>4, CalmTwice

-----------------------------------------------------------------------------
\* The dialogs of p are among those of q, in their order.
Fewer(p, q) == /\ p \in Seq(Dialog) /\ (Distinct(q) => Distinct(p))
               /\ \A i \in 1..Len(p) : \E j \in 1..Len(q) : p[i] = q[j]

\* All but the dialogs stays.
Quiet(c, d) == /\ d.units = c.units /\ d.want = c.want /\ d.doing = c.doing
               /\ d.focus = c.focus /\ d.urgent = c.urgent /\ d.waiting = c.waiting

LEMMA QuietIsGood ==
  ASSUME NEW c, NEW d \in Clients, Good(c), Quiet(c, d), Distinct(d.dialogs) PROVE Good(d)
BY DEF Good, Quiet

LEMMA FewerThose ==
  ASSUME NEW q \in Seq(Dialog), NEW G
  PROVE  Fewer(Those(q, G), q) /\ \A i \in 1..Len(Those(q, G)) : Those(q, G)[i] \in G
<1> DEFINE p == Those(q, G)
<1>1. p \in Seq(Dialog) /\ Picked(p, q, G, Len(q))
  BY ThosePicks
<1> HIDE DEF p
<1>2. PICK h \in [1..Len(p) -> 1..Len(q)] :
             /\ \A i, j \in 1..Len(p) : i < j => h[i] < h[j]
             /\ \A i \in 1..Len(p) : p[i] = q[h[i]]
  BY <1>1 DEF Picked
<1>3. ASSUME Distinct(q) PROVE Distinct(p)
  <2> SUFFICES ASSUME NEW i \in 1..Len(p), NEW j \in 1..Len(p), p[i] = p[j] PROVE i = j
    BY DEF Distinct
  <2>1. h[i] \in 1..Len(q) /\ h[j] \in 1..Len(q) /\ q[h[i]] = q[h[j]]
    BY <1>2
  <2>2. h[i] = h[j]
    BY <1>3, <2>1 DEF Distinct
  <2>3. ~(h[i] < h[j]) /\ ~(h[j] < h[i])
    BY <2>1, <2>2
  <2>4. ~(i < j) /\ ~(j < i)
    BY <1>2, <2>3
  <2>5. i \in Nat /\ j \in Nat
    BY <1>1
  <2> QED BY <2>4, <2>5
<1>4. \A i \in 1..Len(p) : \E j \in 1..Len(q) : p[i] = q[j]
  BY <1>2
<1>5. \A i \in 1..Len(p) : p[i] \in G
  BY <1>1 DEF Picked
<1> QED BY <1>1, <1>3, <1>4, <1>5 DEF Fewer, p

LEMMA IsShut ==
  ASSUME NEW c \in Clients, NEW kinds \in SUBSET Kinds, NEW u
  PROVE  /\ Shut(c, kinds, u) \in Clients /\ Quiet(c, Shut(c, kinds, u))
         /\ Fewer(Shut(c, kinds, u).dialogs, c.dialogs)
         /\ Shut(c, kinds, u).asking = c.asking /\ Shut(c, kinds, u).more = c.more
         /\ \A i \in 1..Len(Shut(c, kinds, u).dialogs) :
              LET d == Shut(c, kinds, u).dialogs[i] IN ~(d.kind \in kinds /\ d.unit = u)
<1> DEFINE G == Dialog \ DialogsOf(kinds, u)
           q == Those(c.dialogs, G)
           d == Shut(c, kinds, u)
<1>1. c.dialogs \in Seq(Dialog)
  BY ClientParts
<1>2. Fewer(q, c.dialogs) /\ \A i \in 1..Len(q) : q[i] \in G
  <2> HIDE DEF G
  <2> QED BY <1>1, FewerThose
<1>3. d = [c EXCEPT !.dialogs = q]
  BY DEF Shut
<1> HIDE DEF q, d
<1>4. q \in Seq(Dialog)
  BY <1>2 DEF Fewer
<1>5. /\ d \in Clients /\ Quiet(c, d) /\ d.dialogs = q /\ d.asking = c.asking /\ d.more = c.more
  BY <1>3, <1>4 DEF Clients, Quiet
<1>6. ASSUME NEW i \in 1..Len(q) PROVE ~(q[i].kind \in kinds /\ q[i].unit = u)
  <2>1. q[i] \in Dialog /\ q[i] \notin DialogsOf(kinds, u)
    BY <1>2
  <2> SUFFICES ASSUME q[i].kind \in kinds, q[i].unit = u PROVE FALSE
    OBVIOUS
  <2>2. q[i] \in [kind : kinds, unit : Unit]
    BY <2>1 DEF Dialog
  <2> QED BY <2>1, <2>2 DEF DialogsOf
<1> QED BY <1>2, <1>5, <1>6 DEF d

\* A dialog is added that is not there.
LEMMA IsAdded ==
  ASSUME NEW q \in Seq(Dialog), Distinct(q), NEW d \in Dialog, \A i \in 1..Len(q) : q[i] # d
  PROVE  Append(q, d) \in Seq(Dialog) /\ Distinct(Append(q, d))
<1> DEFINE p == Append(q, d)
<1>1. p \in Seq(Dialog) /\ Len(p) = Len(q) + 1 /\ Len(q) \in Nat /\ p[Len(q) + 1] = d
      /\ \A i \in 1..Len(q) : p[i] = q[i]
  OBVIOUS
<1> HIDE DEF p
<1>2. ASSUME NEW i \in 1..Len(p), NEW j \in 1..Len(p), p[i] = p[j], i < j PROVE FALSE
  <2>1. i \in 1..Len(q) /\ p[i] = q[i]
    BY <1>1, <1>2
  <2>2. CASE j = Len(q) + 1
    BY <1>1, <1>2, <2>1, <2>2
  <2>3. CASE j \in 1..Len(q)
    <3>1. q[i] = q[j]
      BY <1>1, <1>2, <2>1, <2>3
    <3>2. i = j
      BY <2>1, <2>3, <3>1 DEF Distinct
    <3> QED BY <1>1, <1>2, <3>2
  <2> QED BY <1>1, <2>2, <2>3
<1>3. \A i, j \in 1..Len(p) : i \in Int /\ j \in Int /\ (i < j \/ j < i \/ i = j)
  BY <1>1
<1>4. Distinct(p)
  BY <1>2, <1>3 DEF Distinct
<1> QED BY <1>1, <1>4 DEF p

LEMMA IsOpened ==
  ASSUME NEW c, Good(c), NEW kind \in Kinds, NEW u \in Unit
  PROVE  Good(Open(c, kind, u)) /\ Quiet(c, Open(c, kind, u))
<1> DEFINE s == Shut(c, {kind}, u)
           d == [kind |-> kind, unit |-> u]
           q == Append(s.dialogs, d)
           e == [s EXCEPT !.dialogs = q]
<1>0. c \in Clients /\ {kind} \in SUBSET Kinds
  BY DEF Good
<1>1. /\ s \in Clients /\ Quiet(c, s) /\ Fewer(s.dialogs, c.dialogs)
      /\ \A i \in 1..Len(s.dialogs) : ~(s.dialogs[i].kind \in {kind} /\ s.dialogs[i].unit = u)
  BY <1>0, IsShut
<1>2. d \in Dialog /\ d.kind = kind /\ d.unit = u
  BY DEF Dialog
<1>3. Open(c, kind, u) = e
  BY DEF Open
<1> HIDE DEF s, d
<1>4. s.dialogs \in Seq(Dialog) /\ Distinct(s.dialogs) /\ \A i \in 1..Len(s.dialogs) : s.dialogs[i] # d
  BY <1>1, <1>2 DEF Good, Fewer
<1>5. q \in Seq(Dialog) /\ Distinct(q)
  BY <1>2, <1>4, IsAdded
<1> HIDE DEF q
<1>6. e \in Clients /\ Quiet(c, e) /\ e.dialogs = q
  BY <1>1, <1>5 DEF Clients, Quiet
<1> HIDE DEF e
<1> QED BY <1>3, <1>5, <1>6, QuietIsGood

LEMMA IsClosed ==
  ASSUME NEW c, Good(c)
  PROVE  /\ Good(action_selection_close(c)) /\ Quiet(c, action_selection_close(c))
         /\ Fewer(action_selection_close(c).dialogs, c.dialogs)
<1> DEFINE s == Shut(c, {"act", "price", "target", "name"}, c.asking)
           d == act_sel_queue_done(s, c.asking)
<1>1. c \in Clients /\ {"act", "price", "target", "name"} \in SUBSET Kinds
  BY DEF Good, Kinds
<1>2. s \in Clients /\ Quiet(c, s) /\ Fewer(s.dialogs, c.dialogs)
  BY <1>1, IsShut
<1>3. action_selection_close(c) = d
  BY DEF action_selection_close
<1> HIDE DEF s
<1>4. d \in Clients /\ Calm(s, d)
  BY <1>2, IsDone
<1> HIDE DEF d
<1>5. Quiet(c, d) /\ d.dialogs = s.dialogs
  BY <1>2, <1>4 DEF Quiet, Calm
<1>6. Good(d)
  BY <1>2, <1>4, <1>5, QuietIsGood DEF Good, Fewer
<1> QED BY <1>2, <1>3, <1>5, <1>6

LEMMA IsPoppedUp ==
  ASSUME NEW c, Good(c), NEW u \in Unit
  PROVE  Good(popup_action_selection(c, u))
<1> DEFINE b == Shut(c, {"act"}, u)
           s == IF b.asking \in {Zero, u} THEN b ELSE action_selection_close(b)
           d == [kind |-> "act", unit |-> u]
           q == Append(s.dialogs, d)
           e == [s EXCEPT !.dialogs = q, !.more = FALSE]
<1>0. c \in Clients /\ {"act"} \in SUBSET Kinds
  BY DEF Good, Kinds
<1>1. /\ b \in Clients /\ Quiet(c, b) /\ Fewer(b.dialogs, c.dialogs)
      /\ \A i \in 1..Len(b.dialogs) : ~(b.dialogs[i].kind \in {"act"} /\ b.dialogs[i].unit = u)
  BY <1>0, IsShut
<1>2. d \in Dialog /\ d.kind = "act" /\ d.unit = u
  BY DEF Dialog, Kinds
<1>3. popup_action_selection(c, u) = e
  BY DEF popup_action_selection
<1> HIDE DEF d, b
<1>4. Good(b)
  BY <1>1, QuietIsGood DEF Good, Fewer
<1>5. Good(s) /\ \A i \in 1..Len(s.dialogs) : \E j \in 1..Len(b.dialogs) : s.dialogs[i] = b.dialogs[j]
  <2>1. CASE b.asking \in {Zero, u}
    BY <1>4, <2>1
  <2>2. CASE b.asking \notin {Zero, u}
    <3>1. s = action_selection_close(b)
      BY <2>2
    <3> HIDE DEF s
    <3> QED BY <1>4, <3>1, IsClosed DEF Fewer
  <2> QED BY <2>1, <2>2
<1> HIDE DEF s
<1>6. s.dialogs \in Seq(Dialog) /\ Distinct(s.dialogs) /\ \A i \in 1..Len(s.dialogs) : s.dialogs[i] # d
  <2>1. s.dialogs \in Seq(Dialog) /\ Distinct(s.dialogs)
    BY <1>5, ClientParts DEF Good
  <2> QED BY <1>1, <1>2, <1>5, <2>1
<1>7. q \in Seq(Dialog) /\ Distinct(q)
  BY <1>2, <1>6, IsAdded
<1> HIDE DEF q
<1>8. e \in Clients /\ Quiet(s, e) /\ e.dialogs = q
  BY <1>5, <1>7 DEF Good, Clients, Quiet
<1> HIDE DEF e
<1> QED BY <1>3, <1>5, <1>7, <1>8, QuietIsGood

-----------------------------------------------------------------------------
\* What moving the focus keeps: the units, and whom urgent units are among.
Moved(c, d) == /\ d.units = c.units /\ d.want = c.want /\ d.doing = c.doing
               /\ \A us : Present(c.urgent, us) => Present(d.urgent, us)

LEMMA ThosePresent ==
  ASSUME NEW s \in Seq(Unit), NEW G
  PROVE  /\ Those(s, G) \in Seq(Unit)
         /\ \A us : Present(s, us) => Present(Those(s, G), us)
         /\ Present(Those(s, G), G)
<1> DEFINE q == Those(s, G)
<1>1. q \in Seq(Unit) /\ Picked(q, s, G, Len(s))
  BY ThosePicks
<1> HIDE DEF q
<1>2. PICK h \in [1..Len(q) -> 1..Len(s)] : \A i \in 1..Len(q) : q[i] = s[h[i]]
  BY <1>1 DEF Picked
<1>3. \A i \in 1..Len(q) : h[i] \in 1..Len(s) /\ q[i] = s[h[i]]
  BY <1>2
<1> QED BY <1>1, <1>3 DEF Present, Picked, q

LEMMA IsInFocus ==
  ASSUME NEW c, Good(c), NEW u \in c.units
  PROVE  LET d == set_unit_focus_and_redraw(c, u)
         IN  Good(d) /\ Moved(c, d) /\ d.focus = <<u>>
<1> DEFINE f == <<u>>
           b == [c EXCEPT !.focus = f]
           d == action_selection_next_in_focus(b, Zero)
<1>1. c \in Clients /\ u \in Unit
  BY ClientParts DEF Good
<1>0. f \in Seq(Unit) /\ Present(f, c.units)
  BY <1>1 DEF Present
<1>3. set_unit_focus_and_redraw(c, u) = d
  BY DEF set_unit_focus_and_redraw
<1> HIDE DEF f
<1>2. b \in Clients /\ b.focus = f /\ b.units = c.units /\ b.urgent = c.urgent
      /\ b.want = c.want /\ b.doing = c.doing /\ b.dialogs = c.dialogs
  BY <1>0, <1>1 DEF Clients
<1> HIDE DEF b
<1>5. Good(b)
  BY <1>0, <1>2 DEF Good
<1>6. d \in Clients /\ Calm(b, d)
  BY <1>2, NextAsks
<1> HIDE DEF d
<1>7. Good(d)
  BY <1>5, <1>6, CalmIsGood
<1> QED BY <1>2, <1>3, <1>6, <1>7 DEF Moved, Calm, f

LEMMA UrgentFound ==
  ASSUME NEW c, Good(c), FreshUrgent(c) # <<>>, NEW k \in UrgentChoices(c)
  PROVE  /\ k.unit \in c.units /\ k.urgent \in Seq(Unit)
         /\ \A us : Present(c.urgent, us) => Present(k.urgent, us)
         /\ \E i \in 1..Len(c.urgent) : k.unit = c.urgent[i]
<1> DEFINE Met(j) == {u \in {c.urgent[i] : i \in 1..(j - 1)} : Stale(c, u)}
           first == Head(FreshUrgent(c))
           Choice(u, drop) == [unit |-> u, urgent |-> Those(c.urgent, Unit \ (drop \cup {u}))]
<1>1. c.urgent \in Seq(Unit) /\ DOMAIN c.urgent = 1..Len(c.urgent) /\ Present(c.urgent, c.units)
  BY ClientParts DEF Good
<1>2. ASSUME NEW u, NEW drop
      PROVE  Choice(u, drop).unit = u /\ Choice(u, drop).urgent \in Seq(Unit)
             /\ \A us : Present(c.urgent, us) => Present(Choice(u, drop).urgent, us)
  <2> DEFINE G == Unit \ (drop \cup {u})
  <2> HIDE DEF G
  <2>1. Those(c.urgent, G) \in Seq(Unit)
        /\ \A us : Present(c.urgent, us) => Present(Those(c.urgent, G), us)
    BY <1>1, ThosePresent
  <2>2. Choice(u, drop).unit = u /\ Choice(u, drop).urgent = Those(c.urgent, G)
    BY DEF G
  <2> QED BY <2>1, <2>2
<1>3. \E i \in 1..Len(c.urgent) : first = c.urgent[i]
  <2> DEFINE G == {u \in Unit : ~Stale(c, u)}
             q == Those(c.urgent, G)
  <2>1. q \in Seq(Unit) /\ Picked(q, c.urgent, G, Len(c.urgent))
    <3> HIDE DEF G
    <3> QED BY <1>1, ThosePicks
  <2>2. FreshUrgent(c) = q
    BY DEF FreshUrgent
  <2> HIDE DEF q
  <2>3. first = q[1] /\ 1 \in 1..Len(q)
    BY <2>1, <2>2
  <2>4. PICK h \in [1..Len(q) -> 1..Len(c.urgent)] : \A i \in 1..Len(q) : q[i] = c.urgent[h[i]]
    BY <2>1 DEF Picked
  <2>5. h[1] \in 1..Len(c.urgent) /\ first = c.urgent[h[1]]
    BY <2>3, <2>4
  <2> QED BY <2>5
<1>4. \/ \E j \in 1..Len(c.urgent) : k = Choice(c.urgent[j], Met(j))
      \/ k = Choice(first, {v \in ToSet(c.urgent) : Stale(c, v)})
  BY <1>1 DEF UrgentChoices
<1> HIDE DEF Choice, Met, first
<1>5. CASE \E j \in 1..Len(c.urgent) : k = Choice(c.urgent[j], Met(j))
  BY <1>1, <1>2, <1>5 DEF Present
<1>6. CASE k = Choice(first, {v \in ToSet(c.urgent) : Stale(c, v)})
  BY <1>1, <1>2, <1>3, <1>6 DEF Present
<1> QED BY <1>4, <1>5, <1>6

LEMMA WithoutOne ==
  ASSUME NEW S, NEW s \in Seq(S), NEW i \in 1..Len(s)
  PROVE  RemoveAt(s, i) \in Seq(S)
<1>1. SubSeq(s, 1, i - 1) \in Seq(S) /\ SubSeq(s, i + 1, Len(s)) \in Seq(S)
  OBVIOUS
<1> QED BY <1>1 DEF RemoveAt

LEMMA CandidateFound ==
  ASSUME NEW c, Good(c), NEW accept, NEW k \in find_best_focus_candidate(c, accept)
  PROVE  k.unit \in c.units /\ k.waiting \in Seq(Unit)
<1>1. c.waiting \in Seq(Unit) /\ DOMAIN c.waiting = 1..Len(c.waiting)
  BY ClientParts DEF Good
<1>2. \/ \E u \in c.units : k = [unit |-> u, waiting |-> c.waiting]
      \/ \E i \in Waiters(c) : k = [unit |-> c.waiting[i], waiting |-> RemoveAt(c.waiting, i)]
  BY DEF find_best_focus_candidate, Candidates
<1>3. CASE \E u \in c.units : k = [unit |-> u, waiting |-> c.waiting]
  BY <1>1, <1>3
<1>4. CASE \E i \in Waiters(c) : k = [unit |-> c.waiting[i], waiting |-> RemoveAt(c.waiting, i)]
  <2>1. PICK i \in Waiters(c) : k = [unit |-> c.waiting[i], waiting |-> RemoveAt(c.waiting, i)]
    BY <1>4
  <2>2. i \in 1..Len(c.waiting) /\ c.waiting[i] \in c.units
    BY <1>1 DEF Waiters
  <2>3. RemoveAt(c.waiting, i) \in Seq(Unit)
    BY <1>1, <2>2, WithoutOne
  <2> QED BY <2>1, <2>2, <2>3
<1> QED BY <1>2, <1>3, <1>4

LEMMA Advances ==
  ASSUME NEW c, Good(c), NEW d \in advance_unit_focus(c)
  PROVE  Good(d) /\ Moved(c, d)
<1> DEFINE q == FreshUrgent(c)
           fresh == [c EXCEPT !.urgent = q]
           found == IF find_best_focus_candidate(fresh, FALSE) # {}
                    THEN find_best_focus_candidate(fresh, FALSE)
                    ELSE find_best_focus_candidate(fresh, TRUE)
<1>0. c \in Clients
  BY DEF Good
<1>1. /\ q \in Seq(Unit) /\ \A us : Present(c.urgent, us) => Present(q, us)
  <2>1. c.urgent \in Seq(Unit)
    BY <1>0, ClientParts
  <2> QED BY <2>1, ThosePresent DEF FreshUrgent
<1>2. d \in (IF fresh.urgent # <<>>
             THEN {set_unit_focus_and_redraw([c EXCEPT !.urgent = k.urgent], k.unit) : k \in UrgentChoices(c)}
             ELSE IF found # {}
             THEN {set_unit_focus_and_redraw([fresh EXCEPT !.waiting = k.waiting], k.unit) : k \in found}
             ELSE {[fresh EXCEPT !.focus = <<>>]})
  BY DEF advance_unit_focus
<1>q. q # <<>> <=> FreshUrgent(c) # <<>>
  OBVIOUS
<1> HIDE DEF q
<1>3. fresh \in Clients /\ fresh.urgent = q /\ fresh.units = c.units /\ fresh.want = c.want
      /\ fresh.doing = c.doing /\ fresh.focus = c.focus /\ fresh.dialogs = c.dialogs
  BY <1>0, <1>1 DEF Clients
<1>4. Good(fresh) /\ Moved(c, fresh)
  BY <1>1, <1>3 DEF Good, Moved
<1> HIDE DEF fresh
<1>5. CASE q # <<>>
  <2>1. PICK k \in UrgentChoices(c) :
               d = set_unit_focus_and_redraw([c EXCEPT !.urgent = k.urgent], k.unit)
    BY <1>2, <1>3, <1>5
  <2> DEFINE b == [c EXCEPT !.urgent = k.urgent]
  <2>2. /\ k.unit \in c.units /\ k.urgent \in Seq(Unit)
        /\ \A us : Present(c.urgent, us) => Present(k.urgent, us)
    BY <1>q, <1>5, UrgentFound
  <2>3. b \in Clients /\ b.urgent = k.urgent /\ b.units = c.units /\ b.focus = c.focus
        /\ b.dialogs = c.dialogs /\ b.want = c.want /\ b.doing = c.doing
    BY <1>0, <2>2 DEF Clients
  <2>5. d = set_unit_focus_and_redraw(b, k.unit)
    BY <2>1
  <2> HIDE DEF b
  <2>4. Good(b) /\ Moved(c, b)
    BY <2>2, <2>3 DEF Good, Moved
  <2>6. Good(d) /\ Moved(b, d)
    BY <2>2, <2>3, <2>4, <2>5, IsInFocus
  <2> QED BY <2>4, <2>6 DEF Moved
<1>6. CASE q = <<>> /\ found # {}
  <2>1. PICK k \in found : d = set_unit_focus_and_redraw([fresh EXCEPT !.waiting = k.waiting], k.unit)
    BY <1>2, <1>3, <1>6
  <2> DEFINE b == [fresh EXCEPT !.waiting = k.waiting]
  <2>2. k.unit \in fresh.units /\ k.waiting \in Seq(Unit)
    BY <1>4, CandidateFound
  <2>3. b \in Clients /\ b.urgent = fresh.urgent /\ b.units = fresh.units /\ b.focus = fresh.focus
        /\ b.dialogs = fresh.dialogs /\ b.want = fresh.want /\ b.doing = fresh.doing
    BY <1>3, <2>2 DEF Clients
  <2>5. d = set_unit_focus_and_redraw(b, k.unit)
    BY <2>1
  <2> HIDE DEF b
  <2>4. Good(b) /\ Moved(fresh, b)
    BY <1>4, <2>3 DEF Good, Moved
  <2>6. Good(d) /\ Moved(b, d)
    BY <2>2, <2>3, <2>4, <2>5, IsInFocus
  <2> QED BY <1>4, <2>4, <2>6 DEF Moved
<1>7. CASE q = <<>> /\ found = {}
  <2> DEFINE f == <<>>
  <2>1. d = [fresh EXCEPT !.focus = f]
    BY <1>2, <1>3, <1>7
  <2>3. f \in Seq(Unit) /\ Present(f, fresh.units)
    BY DEF Present
  <2> HIDE DEF f
  <2>2. d \in Clients /\ d.focus = f /\ d.urgent = fresh.urgent /\ d.units = fresh.units
        /\ d.want = fresh.want /\ d.doing = fresh.doing /\ d.dialogs = fresh.dialogs
    BY <1>3, <2>1, <2>3 DEF Clients
  <2> QED BY <1>4, <2>2, <2>3 DEF Good, Moved
<1> QED BY <1>5, <1>6, <1>7

LEMMA Updates ==
  ASSUME NEW c, Good(c), NEW d \in update_unit_focus(c)
  PROVE  Good(d) /\ Moved(c, d)
<1>1. d = c \/ d \in advance_unit_focus(c)
  BY DEF update_unit_focus
<1>2. CASE d = c
  BY <1>2 DEF Moved
<1>3. CASE d \in advance_unit_focus(c)
  BY <1>3, Advances
<1> QED BY <1>1, <1>2, <1>3

LEMMA Killed ==
  ASSUME NEW c, Good(c), NEW u \in Unit, NEW d \in control_unit_killed(c, u)
  PROVE  Good(d) /\ d.units = c.units /\ Present(d.urgent, Unit \ {u})
<1> DEFINE q == unit_list_without(c.urgent, u)
           calm == [c EXCEPT !.urgent = q]
<1>0. c \in Clients /\ c.urgent \in Seq(Unit) /\ c.focus \in Seq(Unit)
  BY ClientParts DEF Good
<1>1. /\ q \in Seq(Unit) /\ \A us : Present(c.urgent, us) => Present(q, us)
      /\ Present(q, Unit \ {u})
  <2> DEFINE G == Unit \ {u}
  <2> HIDE DEF G
  <2>1. /\ Those(c.urgent, G) \in Seq(Unit) /\ Present(Those(c.urgent, G), G)
        /\ \A us : Present(c.urgent, us) => Present(Those(c.urgent, G), us)
    BY <1>0, ThosePresent
  <2>2. q = Those(c.urgent, G)
    BY DEF unit_list_without, G
  <2> QED BY <2>1, <2>2 DEF G
<1>2. \/ d = calm \/ d \in advance_unit_focus(calm)
      \/ d = [calm EXCEPT !.focus = unit_list_without(@, u)]
  BY DEF control_unit_killed
<1> HIDE DEF q
<1>3. calm \in Clients /\ calm.urgent = q /\ calm.units = c.units /\ calm.focus = c.focus
      /\ calm.dialogs = c.dialogs
  BY <1>0, <1>1 DEF Clients
<1> HIDE DEF calm
<1>4. Good(calm)
  BY <1>1, <1>3 DEF Good
<1>5. CASE d = calm
  BY <1>1, <1>3, <1>4, <1>5
<1>6. CASE d \in advance_unit_focus(calm)
  <2>1. Good(d) /\ Moved(calm, d)
    BY <1>4, <1>6, Advances
  <2> QED BY <1>1, <1>3, <2>1 DEF Moved
<1>7. CASE d = [calm EXCEPT !.focus = unit_list_without(@, u)]
  <2> DEFINE f == unit_list_without(calm.focus, u)
  <2>1. f \in Seq(Unit) /\ Present(f, c.units)
    BY <1>0, <1>3, <1>4, ThosePresent DEF Good, unit_list_without
  <2>2. d = [calm EXCEPT !.focus = f]
    BY <1>7
  <2> HIDE DEF f
  <2>3. d \in Clients /\ d.focus = f /\ d.urgent = calm.urgent /\ d.units = calm.units
        /\ d.dialogs = calm.dialogs
    BY <1>3, <2>1, <2>2 DEF Clients
  <2> QED BY <1>1, <1>3, <1>4, <2>1, <2>3 DEF Good
<1> QED BY <1>2, <1>5, <1>6, <1>7

LEMMA Removed ==
  ASSUME NEW c, Good(c), NEW u \in Unit, NEW d \in client_remove_unit(c, u)
  PROVE  Good(d)
<1>1. PICK k \in control_unit_killed(c, u) :
             d = [k EXCEPT !.focus = IF Contains(@, u) THEN <<>> ELSE @, !.units = @ \ {u}]
  BY DEF client_remove_unit
<1>2. Good(k) /\ k.units = c.units /\ Present(k.urgent, Unit \ {u})
  BY Killed
<1> DEFINE f == IF Contains(k.focus, u) THEN <<>> ELSE k.focus
           us == k.units \ {u}
<1>3. k \in Clients /\ k.focus \in Seq(Unit) /\ us \in SUBSET Unit
  BY <1>2, ClientParts DEF Good
<1>4. f \in Seq(Unit) /\ Present(f, us)
  <2>1. CASE Contains(k.focus, u)
    BY <2>1 DEF Present
  <2>2. CASE ~Contains(k.focus, u)
    BY <1>2, <1>3, <2>2 DEF Good, Present, Contains
  <2> QED BY <2>1, <2>2
<1>5. Present(k.urgent, us)
  BY <1>2 DEF Good, Present
<1>6. d = [k EXCEPT !.focus = f, !.units = us]
  BY <1>1
<1> HIDE DEF f, us
<1>7. d \in Clients /\ d.focus = f /\ d.units = us /\ d.urgent = k.urgent /\ d.dialogs = k.dialogs
  BY <1>3, <1>4, <1>6 DEF Clients
<1> QED BY <1>2, <1>4, <1>5, <1>7 DEF Good

-----------------------------------------------------------------------------
\* Only a packet about a turn has no unit.
OfUnits(q) == \A i \in 1..Len(q) : q[i].type # "turn" => q[i].unit \in Unit

ServerOK == /\ down \in Seq(Packet) /\ OfUnits(down)
            /\ life \in [Unit -> {"unborn", "dead"} \cup Doing]
            /\ wants \in [Unit -> BOOLEAN]
            /\ events \in 0..MaxEvents

DecisionInv == Good(client) /\ ServerOK

LEMMA BecomesKeeps ==
  ASSUME DecisionInv, down # <<>>, NEW R, Becomes(R), \A d \in R : Good(d)
  PROVE  DecisionInv'
<1>1. client' \in R /\ down' = Tail(down) /\ UNCHANGED <<life, wants, events>>
  BY DEF Becomes
<1>2. /\ Tail(down) \in Seq(Packet) /\ Len(Tail(down)) = Len(down) - 1 /\ Len(down) \in Nat
      /\ \A i \in 1..Len(Tail(down)) : Tail(down)[i] = down[i + 1] /\ i + 1 \in 1..Len(down)
  BY DEF DecisionInv, ServerOK
<1>3. OfUnits(Tail(down))
  BY <1>2 DEF DecisionInv, ServerOK, OfUnits
<1> QED BY <1>1, <1>2, <1>3 DEF DecisionInv, ServerOK

LEMMA FirstPacket ==
  ASSUME DecisionInv, NEW type, Gets(type)
  PROVE  /\ down # <<>> /\ Head(down) \in Packet /\ Head(down).type = type
         /\ type # "turn" => Head(down).unit \in Unit
<1>1. down # <<>> /\ Head(down).type = type /\ down \in Seq(Packet) /\ OfUnits(down)
  BY DEF Gets, DecisionInv, ServerOK
<1>2. Head(down) = down[1] /\ 1 \in 1..Len(down) /\ Head(down) \in Packet
  BY <1>1
<1> QED BY <1>1, <1>2 DEF OfUnits

LEMMA UnitTold == ASSUME DecisionInv, handle_unit_packet_common PROVE DecisionInv'
<1> DEFINE p == Head(down)
           new == p.unit \notin client.units
           asked == IF p.ok /\ (new \/ ~client.want[p.unit])
                    THEN action_decision_request(client, p.unit) ELSE client
           u == p.unit
           e == [asked EXCEPT !.units = @ \cup {u}, !.want[u] = p.ok, !.doing[u] = p.doing]
<1>1. /\ down # <<>> /\ p \in Packet /\ p.type = "info" /\ u \in Unit
  <2>1. Gets("info") /\ "info" # "turn"
    BY DEF handle_unit_packet_common
  <2> QED BY <2>1, FirstPacket
<1>2. Becomes({e})
  BY DEF handle_unit_packet_common
<1>3. client \in Clients /\ Good(client)
  BY DEF DecisionInv, Good
<1>p. p.ok \in BOOLEAN /\ p.doing \in Doing
  BY <1>1 DEF Packet
<1>4. /\ asked \in Clients /\ asked.units = client.units /\ asked.dialogs = client.dialogs
      /\ Present(asked.focus, client.units) /\ Present(asked.urgent, client.units \cup {u})
  <2>0. Present(client.focus, client.units) /\ Present(client.urgent, client.units \cup {u})
    BY <1>3 DEF Good, Present
  <2>1. asked = client \/ asked = [client EXCEPT !.urgent = Append(@, u)]
        \/ asked = ask_server_for_actions(client, u)
    BY DEF action_decision_request
  <2> HIDE DEF asked, u
  <2>2. CASE asked = client
    BY <1>3, <2>0, <2>2
  <2>3. CASE asked = [client EXCEPT !.urgent = Append(@, u)]
    <3> DEFINE q == Append(client.urgent, u)
    <3>1. client.urgent \in Seq(Unit)
      BY <1>3, ClientParts
    <3>2. q \in Seq(Unit) /\ Present(q, client.units \cup {u})
      <4>1. /\ q \in Seq(Unit) /\ Len(q) = Len(client.urgent) + 1 /\ Len(client.urgent) \in Nat
            /\ q[Len(client.urgent) + 1] = u
            /\ \A i \in 1..Len(client.urgent) : q[i] = client.urgent[i]
        BY <1>1, <3>1
      <4> HIDE DEF q
      <4>2. ASSUME NEW i \in 1..Len(q) PROVE q[i] \in client.units \cup {u}
        <5>1. CASE i = Len(client.urgent) + 1
          BY <4>1, <5>1
        <5>2. CASE i \in 1..Len(client.urgent)
          BY <2>0, <4>1, <5>2 DEF Present
        <5> QED BY <4>1, <5>1, <5>2
      <4> QED BY <4>1, <4>2 DEF Present
    <3>3. asked = [client EXCEPT !.urgent = q]
      BY <2>3
    <3> HIDE DEF q
    <3>4. asked \in Clients /\ asked.urgent = q /\ asked.units = client.units
          /\ asked.dialogs = client.dialogs /\ asked.focus = client.focus
      BY <1>3, <3>2, <3>3 DEF Clients
    <3> QED BY <2>0, <3>2, <3>4
  <2>4. CASE asked = ask_server_for_actions(client, u)
    <3>1. asked \in Clients /\ Calm(client, asked)
      BY <1>1, <1>3, <2>4, Asked_
    <3> QED BY <2>0, <3>1 DEF Calm
  <2> QED BY <2>1, <2>2, <2>3, <2>4
<1> HIDE DEF asked, new
<1>5. Good(e)
  <2> DEFINE us == asked.units \cup {u}
             w == [asked.want EXCEPT ![u] = p.ok]
             dg == [asked.doing EXCEPT ![u] = p.doing]
  <2>1. e = [asked EXCEPT !.units = us, !.want = w, !.doing = dg]
    OBVIOUS
  <2>2. us \in SUBSET Unit /\ w \in [Unit -> BOOLEAN] /\ dg \in [Unit -> Doing]
    BY <1>1, <1>p, <1>4, ClientParts
  <2>3. Present(asked.focus, us) /\ Present(asked.urgent, us)
    BY <1>4 DEF Present
  <2>4. Distinct(asked.dialogs)
    BY <1>3, <1>4 DEF Good
  <2> HIDE DEF e, us, w, dg
  <2>5. e \in Clients /\ e.units = us /\ e.focus = asked.focus /\ e.urgent = asked.urgent
        /\ e.dialogs = asked.dialogs
    BY <1>4, <2>1, <2>2 DEF Clients
  <2> QED BY <2>3, <2>4, <2>5 DEF Good
<1> HIDE DEF e
<1> QED BY <1>1, <1>2, <1>5, BecomesKeeps

LEMMA CalmSteps ==
  ASSUME NEW c, Good(c), NEW u
  PROVE  /\ Good(act_sel_queue_done(c, u))
         /\ Good(act_sel_queue_may_be_done(c, u))
         /\ Good(action_selection_next_in_focus(c, u))
         /\ Good(action_decision_clear_want(c, u))
         /\ Good(action_selection_no_longer_in_progress(c))
<1>1. c \in Clients
  BY DEF Good
<1>2. Good(act_sel_queue_done(c, u))
  BY <1>1, IsDone, CalmIsGood
<1>3. Good(act_sel_queue_may_be_done(c, u))
  BY <1>1, MayBeDone, CalmIsGood
<1>4. Good(action_selection_next_in_focus(c, u))
  BY <1>1, NextAsks, CalmIsGood
<1>5. Good(action_decision_clear_want(c, u))
  BY <1>1, Cleared, CalmIsGood
<1>6. Good(action_selection_no_longer_in_progress(c))
  BY <1>1, Ended_, CalmIsGood
<1> QED BY <1>2, <1>3, <1>4, <1>5, <1>6

LEMMA PacketsKeep == ASSUME DecisionInv, Client PROVE DecisionInv'
<1> DEFINE p == Head(down)
           u == p.unit
<1>g. Good(client) /\ client \in Clients
  BY DEF DecisionInv, Good
<1>1. CASE handle_unit_remove
  <2> DEFINE c == IF client.asking = u
                  THEN action_selection_next_in_focus(action_selection_close(client), u)
                  ELSE client
  <2>1. Gets("remove") /\ "remove" # "turn"
    BY <1>1 DEF handle_unit_remove
  <2>2. down # <<>> /\ u \in Unit
    BY <2>1, FirstPacket
  <2>3. Becomes(IF u \in client.units THEN client_remove_unit(c, u) ELSE {client})
    BY <1>1 DEF handle_unit_remove
  <2> HIDE DEF u
  <2>4. Good(c)
    BY <1>g, IsClosed, CalmSteps
  <2> HIDE DEF c
  <2>5. \A d \in client_remove_unit(c, u) : Good(d)
    BY <2>2, <2>4, Removed
  <2> DEFINE R == IF u \in client.units THEN client_remove_unit(c, u) ELSE {client}
  <2>6. \A d \in R : Good(d)
    BY <1>g, <2>5
  <2> HIDE DEF R
  <2> QED BY <2>2, <2>3, <2>6, BecomesKeeps DEF R
<1>2. CASE handle_unit_actions
  <2> DEFINE over == action_selection_no_longer_in_progress(client)
             d == IF p.ok /\ u \in client.units THEN popup_action_selection(client, u)
                  ELSE action_selection_next_in_focus(action_decision_clear_want(over, u), u)
  <2>1. Gets("actions") /\ "actions" # "turn" /\ Becomes({d})
    BY <1>2 DEF handle_unit_actions
  <2>2. down # <<>> /\ u \in Unit
    BY <2>1, FirstPacket
  <2> HIDE DEF u, p
  <2>3. Good(d)
    <3>1. Good(popup_action_selection(client, u))
      BY <1>g, <2>2, IsPoppedUp
    <3>2. Good(action_decision_clear_want(over, u))
      BY <1>g, CalmSteps
    <3>3. Good(action_selection_next_in_focus(action_decision_clear_want(over, u), u))
      BY <3>2, CalmSteps
    <3> QED BY <3>1, <3>3
  <2> HIDE DEF d
  <2> QED BY <2>1, <2>2, <2>3, BecomesKeeps
<1>3. CASE handle_unit_action_answer
  <2> DEFINE d == IF p.ok /\ u \in client.units THEN Open(client, "price", u)
                  ELSE act_sel_queue_done(client, u)
  <2>1. Gets("answer") /\ "answer" # "turn" /\ Becomes({d})
    BY <1>3 DEF handle_unit_action_answer
  <2>2. down # <<>> /\ u \in Unit
    BY <2>1, FirstPacket
  <2> HIDE DEF u, p
  <2>3. Good(d)
    <3>1. "price" \in Kinds
      BY DEF Kinds
    <3>2. Good(Open(client, "price", u)) /\ Good(act_sel_queue_done(client, u))
      BY <1>g, <2>2, <3>1, IsOpened, CalmSteps
    <3> QED BY <3>2
  <2> HIDE DEF d
  <2> QED BY <2>1, <2>2, <2>3, BecomesKeeps
<1>4. CASE handle_city_sabotage_list
  <2> DEFINE d == IF u \in client.units THEN Open(client, "steal", u) ELSE client
  <2>1. Gets("list") /\ "list" # "turn" /\ Becomes({d})
    BY <1>4 DEF handle_city_sabotage_list
  <2>2. down # <<>> /\ u \in Unit
    BY <2>1, FirstPacket
  <2> HIDE DEF u
  <2>3. Good(d)
    <3>1. "steal" \in Kinds
      BY DEF Kinds
    <3>2. Good(Open(client, "steal", u))
      BY <1>g, <2>2, <3>1, IsOpened
    <3> QED BY <1>g, <3>2
  <2> HIDE DEF d
  <2> QED BY <2>1, <2>2, <2>3, BecomesKeeps
<1>5. CASE handle_city_name_suggestion_info
  <2> DEFINE d == Open(client, "name", u)
  <2>1. Gets("suggestion") /\ "suggestion" # "turn" /\ Becomes({d})
    BY <1>5 DEF handle_city_name_suggestion_info
  <2>2. down # <<>> /\ u \in Unit
    BY <2>1, FirstPacket
  <2> HIDE DEF u
  <2>3. Good(d)
    <3>1. "name" \in Kinds
      BY DEF Kinds
    <3> QED BY <1>g, <2>2, <3>1, IsOpened
  <2> HIDE DEF d
  <2> QED BY <2>1, <2>2, <2>3, BecomesKeeps
<1>6. CASE handle_begin_turn
  <2> DEFINE w == <<>>
             c == [client EXCEPT !.waiting = w]
  <2>1. down # <<>> /\ Becomes(update_unit_focus(c))
    BY <1>6 DEF handle_begin_turn, Gets
  <2>w. w \in Seq(Unit)
    OBVIOUS
  <2> HIDE DEF w
  <2>2. c \in Clients /\ c.focus = client.focus /\ c.urgent = client.urgent
        /\ c.units = client.units /\ c.dialogs = client.dialogs
    BY <1>g, <2>w DEF Clients
  <2> HIDE DEF c
  <2>3. Good(c)
    BY <1>g, <2>2 DEF Good
  <2>4. \A d \in update_unit_focus(c) : Good(d)
    BY <2>3, Updates
  <2> QED BY <2>1, <2>4, BecomesKeeps
<1> QED BY <1>1, <1>2, <1>3, <1>4, <1>5, <1>6, UnitTold DEF Client

-----------------------------------------------------------------------------
LEMMA PlaysKeeps ==
  ASSUME DecisionInv, NEW R, Plays(R), events' \in 0..MaxEvents, \A d \in R : Good(d)
  PROVE  DecisionInv'
BY DEF Plays, DecisionInv, ServerOK

LEMMA InDialogKeeps ==
  ASSUME DecisionInv, NEW R, InDialog(R), \A d \in R : Good(d)
  PROVE  DecisionInv'
BY PlaysKeeps DEF InDialog, DecisionInv, ServerOK

LEMMA EventCounts == ASSUME DecisionInv, Event PROVE events' \in 0..MaxEvents
BY DecisionAssumption DEF Event, DecisionInv, ServerOK

LEMMA OnMapKeeps ==
  ASSUME DecisionInv, NEW R, OnMap(R), \A d \in R : Good(d)
  PROVE  DecisionInv'
BY PlaysKeeps, EventCounts DEF OnMap

LEMMA ShownDialog ==
  ASSUME DecisionInv, NEW kind, Shows(kind)
  PROVE  client.dialogs # <<>> /\ Top.unit \in Unit
<1>1. client.dialogs # <<>> /\ client.dialogs \in Seq(Dialog)
  BY ClientParts DEF Shows, DecisionInv, Good
<1>2. Top \in Dialog
  BY <1>1 DEF Top, Last
<1> QED BY <1>1, <1>2 DEF Dialog

LEMMA IsGone ==
  ASSUME NEW c, Good(c), c.dialogs # <<>>
  PROVE  Good(Gone(c))
<1> DEFINE q == Front(c.dialogs)
<1>1. c \in Clients /\ c.dialogs \in Seq(Dialog) /\ Distinct(c.dialogs)
  BY ClientParts DEF Good
<1>2. q \in Seq(Dialog) /\ Len(q) = Len(c.dialogs) - 1 /\ Len(c.dialogs) \in Nat
      /\ \A i \in 1..Len(q) : q[i] = c.dialogs[i] /\ i \in 1..Len(c.dialogs)
  BY <1>1 DEF Front
<1>3. Gone(c) = [c EXCEPT !.dialogs = q]
  BY DEF Gone
<1> HIDE DEF q
<1>4. Distinct(q)
  BY <1>1, <1>2 DEF Distinct
<1>5. Gone(c) \in Clients /\ Quiet(c, Gone(c)) /\ Gone(c).dialogs = q
  BY <1>1, <1>2, <1>3 DEF Clients, Quiet
<1> QED BY <1>4, <1>5, QuietIsGood

\* What a button does before its dialog goes.
LEMMA Flagged ==
  ASSUME NEW c, Good(c), NEW b \in BOOLEAN
  PROVE  /\ Good([c EXCEPT !.more = b]) /\ [c EXCEPT !.more = b].dialogs = c.dialogs
         /\ Good([c EXCEPT !.restart = b]) /\ [c EXCEPT !.restart = b].dialogs = c.dialogs
         /\ Good([c EXCEPT !.undecided = b]) /\ [c EXCEPT !.undecided = b].dialogs = c.dialogs
<1>1. c \in Clients
  BY DEF Good
<1>2. [c EXCEPT !.more = b] \in Clients /\ Calm(c, [c EXCEPT !.more = b])
  BY <1>1 DEF Clients, Calm
<1>3. [c EXCEPT !.restart = b] \in Clients /\ Calm(c, [c EXCEPT !.restart = b])
  BY <1>1 DEF Clients, Calm
<1>4. [c EXCEPT !.undecided = b] \in Clients /\ Calm(c, [c EXCEPT !.undecided = b])
  BY <1>1 DEF Clients, Calm
<1>5. /\ [c EXCEPT !.more = b].dialogs = c.dialogs
      /\ [c EXCEPT !.restart = b].dialogs = c.dialogs
      /\ [c EXCEPT !.undecided = b].dialogs = c.dialogs
  BY <1>2, <1>3, <1>4 DEF Calm
<1> QED BY <1>2, <1>3, <1>4, <1>5, CalmIsGood

LEMMA Sends_ ==
  ASSUME NEW c, Good(c), NEW type \in Requests, NEW u \in Unit
  PROVE  Good(send_request(c, type, u)) /\ send_request(c, type, u).dialogs = c.dialogs
<1>1. c \in Clients
  BY DEF Good
<1> QED BY <1>1, Requested, CalmIsGood DEF Calm

LEMMA Acts ==
  ASSUME NEW c, Good(c), NEW u \in Unit
  PROVE  Good(request_unit_do_action(c, u)) /\ request_unit_do_action(c, u).dialogs = c.dialogs
<1> DEFINE d == send_request(c, "act", u)
<1>1. "act" \in Requests
  BY DEF Requests
<1>2. Good(d) /\ d.dialogs = c.dialogs
  BY <1>1, Sends_
<1> HIDE DEF d
<1>3. action_decision_clear_want(d, u).dialogs = d.dialogs
  BY <1>2, Cleared DEF Good, Calm
<1>4. Good(action_decision_clear_want(d, u))
  BY <1>2, CalmSteps
<1> QED BY <1>2, <1>3, <1>4 DEF request_unit_do_action, d

-----------------------------------------------------------------------------
LEMMA DialogsKeep ==
  ASSUME DecisionInv,
         \/ ChooseAction \/ ChooseQuery \/ ChooseSteal \/ ChangeTarget
         \/ SelectTarget \/ DecideLater \/ AnswerFollowUp \/ CancelFollowUp
  PROVE  DecisionInv'
<1> DEFINE u == Top.unit
<1>g. Good(client)
  BY DEF DecisionInv
<1>s. ASSUME NEW kind, Shows(kind) PROVE client.dialogs # <<>> /\ u \in Unit
  BY <1>s, ShownDialog
<1>1. CASE ChooseAction
  <2> DEFINE a == request_unit_do_action(client, u)
             d == act_sel_queue_may_be_done(Gone(a), u)
             e == act_sel_queue_may_be_done(Gone(client), u)
  <2>1. client.dialogs # <<>> /\ u \in Unit /\ InDialog({d, e})
    BY <1>1, <1>s DEF ChooseAction
  <2> HIDE DEF u
  <2>2. Good(a) /\ a.dialogs = client.dialogs
    BY <1>g, <2>1, Acts
  <2> HIDE DEF a
  <2>3. Good(Gone(a)) /\ Good(Gone(client))
    BY <1>g, <2>1, <2>2, IsGone
  <2>4. Good(d) /\ Good(e)
    BY <2>3, CalmSteps
  <2> HIDE DEF d, e
  <2> QED BY <2>1, <2>4, InDialogKeeps
<1>2. CASE ChooseQuery
  <2>1. PICK type \in {"query", "suggest"} :
               InDialog({Gone([send_request(client, type, u) EXCEPT !.more = TRUE])})
    BY <1>2 DEF ChooseQuery
  <2>2. client.dialogs # <<>> /\ u \in Unit /\ type \in Requests
    BY <1>2, <1>s DEF ChooseQuery, Requests
  <2> DEFINE a == send_request(client, type, u)
             b == [a EXCEPT !.more = TRUE]
             d == Gone(b)
  <2> HIDE DEF u
  <2>3. Good(a) /\ a.dialogs = client.dialogs
    BY <1>g, <2>2, Sends_
  <2>4. InDialog({d})
    BY <2>1
  <2> HIDE DEF a
  <2>5. Good(b) /\ b.dialogs = a.dialogs
    BY <2>3, Flagged
  <2> HIDE DEF b
  <2>6. Good(d)
    BY <2>2, <2>3, <2>5, IsGone
  <2> HIDE DEF d
  <2> QED BY <2>4, <2>6, InDialogKeeps
<1>3. CASE ChooseSteal
  <2> DEFINE a == Gone(client)
             b == Open(a, "steal", u)
             d == [b EXCEPT !.more = TRUE]
  <2>1. client.dialogs # <<>> /\ u \in Unit /\ InDialog({d}) /\ "steal" \in Kinds
    BY <1>3, <1>s DEF ChooseSteal, Kinds
  <2> HIDE DEF u
  <2>2. Good(a)
    BY <1>g, <2>1, IsGone
  <2> HIDE DEF a
  <2>3. Good(b)
    BY <2>1, <2>2, IsOpened
  <2> HIDE DEF b
  <2>4. Good(d)
    BY <2>3, Flagged
  <2> HIDE DEF d
  <2> QED BY <2>1, <2>4, InDialogKeeps
<1>4. CASE ChangeTarget
  <2> DEFINE a == Gone(client)
             c == [a EXCEPT !.restart = TRUE]
             b == Open(c, "target", u)
             d == act_sel_queue_may_be_done(b, u)
  <2>1. client.dialogs # <<>> /\ u \in Unit /\ InDialog({d}) /\ "target" \in Kinds
    BY <1>4, <1>s DEF ChangeTarget, Kinds
  <2> HIDE DEF u
  <2>2. Good(a)
    BY <1>g, <2>1, IsGone
  <2> HIDE DEF a
  <2>3. Good(c)
    BY <2>2, Flagged
  <2> HIDE DEF c
  <2>4. Good(b)
    BY <2>1, <2>3, IsOpened
  <2> HIDE DEF b
  <2>5. Good(d)
    BY <2>4, CalmSteps
  <2> HIDE DEF d
  <2> QED BY <2>1, <2>5, InDialogKeeps
<1>5. CASE SelectTarget
  <2> DEFINE a == send_request(client, "actions", u)
             d == Gone(a)
             e == act_sel_queue_may_be_done(Gone(client), u)
  <2>1. client.dialogs # <<>> /\ u \in Unit /\ InDialog({d, e}) /\ "actions" \in Requests
    BY <1>5, <1>s DEF SelectTarget, Requests
  <2> HIDE DEF u
  <2>2. Good(a) /\ a.dialogs = client.dialogs
    BY <1>g, <2>1, Sends_
  <2> HIDE DEF a
  <2>3. Good(d) /\ Good(Gone(client))
    BY <1>g, <2>1, <2>2, IsGone
  <2>4. Good(e)
    BY <2>3, CalmSteps
  <2> HIDE DEF d, e
  <2> QED BY <2>1, <2>3, <2>4, InDialogKeeps
<1>6. CASE DecideLater
  <2> DEFINE a == [client EXCEPT !.undecided = TRUE]
             d == act_sel_queue_may_be_done(Gone(a), u)
  <2>1. client.dialogs # <<>> /\ InDialog({d})
    BY <1>6, <1>s DEF DecideLater
  <2> HIDE DEF u
  <2>2. Good(a) /\ a.dialogs = client.dialogs
    BY <1>g, Flagged
  <2> HIDE DEF a
  <2>3. Good(Gone(a))
    BY <2>1, <2>2, IsGone
  <2>4. Good(d)
    BY <2>3, CalmSteps
  <2> HIDE DEF d
  <2> QED BY <2>1, <2>4, InDialogKeeps
<1>7. CASE AnswerFollowUp
  <2> DEFINE a == request_unit_do_action(client, u)
             d == act_sel_queue_done(Gone(a), u)
  <2>1. client.dialogs # <<>> /\ u \in Unit /\ InDialog({d})
    BY <1>7, <1>s DEF AnswerFollowUp
  <2> HIDE DEF u
  <2>2. Good(a) /\ a.dialogs = client.dialogs
    BY <1>g, <2>1, Acts
  <2> HIDE DEF a
  <2>3. Good(Gone(a))
    BY <2>1, <2>2, IsGone
  <2>4. Good(d)
    BY <2>3, CalmSteps
  <2> HIDE DEF d
  <2> QED BY <2>1, <2>4, InDialogKeeps
<1>8. CASE CancelFollowUp
  <2> DEFINE d == act_sel_queue_done(Gone(client), u)
  <2>1. client.dialogs # <<>> /\ InDialog({d})
    BY <1>8, <1>s DEF CancelFollowUp
  <2> HIDE DEF u
  <2>2. Good(Gone(client))
    BY <1>g, <2>1, IsGone
  <2>3. Good(d)
    BY <2>2, CalmSteps
  <2> HIDE DEF d
  <2> QED BY <2>1, <2>3, InDialogKeeps
<1> QED BY <1>1, <1>2, <1>3, <1>4, <1>5, <1>6, <1>7, <1>8

LEMMA NewActivity ==
  ASSUME NEW c, Good(c), NEW u \in Unit
  PROVE  LET d == request_new_unit_activity(c, u)
         IN  Good(d) /\ d.units = c.units /\ d.focus = c.focus
<1> DEFINE a == action_decision_clear_want(c, u)
           d == send_request(a, "idle", u)
<1>1. "idle" \in Requests /\ c \in Clients
  BY DEF Requests, Good
<1>2. Good(a) /\ Calm(c, a)
  BY <1>1, Cleared, CalmSteps
<1> HIDE DEF a
<1>3. Good(d) /\ Calm(a, d)
  BY <1>1, <1>2, Sends_, Requested DEF Good
<1> HIDE DEF d
<1> QED BY <1>2, <1>3 DEF request_new_unit_activity, d, a, Calm

\* The units in focus get their orders one after the other.
OrderedUpto(f, c, n) ==
  f = [i \in 0..n |-> IF i = 0 THEN c ELSE request_new_unit_activity(f[i - 1], c.focus[i])]

LEMMA OrderedFcnExists ==
  ASSUME NEW c, NEW n \in Nat
  PROVE  \E f : OrderedUpto(f, c, n)
<1> DEFINE T == {k \in Nat : \E f : OrderedUpto(f, c, k)}
<1>1. 0 \in T
  <2> DEFINE h == [i \in 0..0 |-> c]
  <2>1. OrderedUpto(h, c, 0)
    BY DEF OrderedUpto
  <2> HIDE DEF h
  <2> QED BY <2>1
<1>2. ASSUME NEW k \in Nat, k \in T PROVE k + 1 \in T
  <2>1. PICK f : OrderedUpto(f, c, k)
    BY <1>2
  <2> DEFINE v == request_new_unit_activity(f[k], c.focus[k + 1])
             h == [i \in 0..(k + 1) |-> IF i = k + 1 THEN v ELSE f[i]]
  <2>2. ASSUME NEW i \in 0..(k + 1)
        PROVE  h[i] = IF i = 0 THEN c ELSE request_new_unit_activity(h[i - 1], c.focus[i])
    <3>1. CASE i = k + 1
      BY <3>1
    <3>2. CASE i \in 0..k
      <4>1. f[i] = IF i = 0 THEN c ELSE request_new_unit_activity(f[i - 1], c.focus[i])
        BY <2>1, <3>2 DEF OrderedUpto
      <4> QED BY <3>2, <4>1
    <3> QED BY <3>1, <3>2
  <2> HIDE DEF v
  <2>3. OrderedUpto(h, c, k + 1)
    BY <2>2 DEF OrderedUpto
  <2> HIDE DEF h
  <2> QED BY <2>3
<1>3. Nat \subseteq T
  <2> HIDE DEF T
  <2> QED BY <1>1, <1>2, Induct
<1> QED BY <1>3

LEMMA IsOrdered == ASSUME NEW c, Good(c) PROVE Good(Ordered(c))
<1> DEFINE n == Len(c.focus)
           f == CHOOSE f : OrderedUpto(f, c, n)
<1>0. c.focus \in Seq(Unit) /\ n \in Nat /\ \A i \in 1..n : c.focus[i] \in Unit
  BY ClientParts DEF Good
<1>1. OrderedUpto(f, c, n)
  BY <1>0, OrderedFcnExists
<1>2. Ordered(c) = f[n]
  BY DEF Ordered, OrderedUpto
<1> HIDE DEF f
<1> DEFINE T == {k \in Nat : k <= n => Good(f[k])}
<1>3. 0 \in T
  <2>1. f[0] = c
    BY <1>0, <1>1 DEF OrderedUpto
  <2> QED BY <2>1
<1>4. ASSUME NEW k \in Nat, k \in T PROVE k + 1 \in T
  <2> SUFFICES ASSUME k + 1 <= n PROVE Good(f[k + 1])
    OBVIOUS
  <2>1. k + 1 \in 0..n /\ k + 1 # 0 /\ (k + 1) - 1 = k /\ k + 1 \in 1..n /\ Good(f[k])
    BY <1>0, <1>4
  <2> HIDE DEF n
  <2>2. f[k + 1] = request_new_unit_activity(f[k], c.focus[k + 1])
    <3>1. f[k + 1] = request_new_unit_activity(f[(k + 1) - 1], c.focus[k + 1])
      BY <1>1, <2>1 DEF OrderedUpto
    <3> QED BY <2>1, <3>1
  <2> QED BY <1>0, <2>1, <2>2, NewActivity
<1>5. n \in T
  <2> HIDE DEF T
  <2> QED BY <1>0, <1>3, <1>4, Induct
<1> QED BY <1>0, <1>2, <1>5

LEMMA SelectedUnits ==
  ASSUME Good(client), NEW s \in SetToAllKPermutations(client.units)
  PROVE  s \in Seq(Unit) /\ Present(s, client.units)
<1>1. PICK T \in SUBSET client.units : s \in SetToSeqs(T)
  BY DEF SetToAllKPermutations
<1>2. IsFiniteSet(T) /\ T \subseteq Unit
  BY <1>1, DecisionAssumption, FS_Subset, ClientParts DEF Good
<1>3. Cardinality(T) \in Nat
  BY <1>2, FS_CardinalityType
<1>4. s \in [1..Cardinality(T) -> T]
  BY <1>1 DEF SetToSeqs
<1> QED BY <1>2, <1>3, <1>4, <1>1 DEF Present

LEMMA MapKeeps ==
  ASSUME DecisionInv,
         \/ ClickUnit \/ map_select_units \/ key_unit_wait \/ key_unit_noorders
         \/ OrderFocus \/ request_unit_act_sel_vs \/ FocusTimer
  PROVE  DecisionInv'
<1>g. Good(client) /\ client \in Clients
  BY DEF DecisionInv, Good
<1>p. /\ client.focus \in Seq(Unit) /\ client.waiting \in Seq(Unit)
      /\ client.doing \in [Unit -> Doing] /\ client.up \in Seq(Request)
      /\ client.units \subseteq Unit
  BY <1>g, ClientParts
<1>1. CASE ClickUnit
  <2>1. PICK u \in client.units :
               OnMap({set_unit_focus_and_redraw(client, u),
                      request_new_unit_activity(set_unit_focus_and_redraw(client, u), u)})
    BY <1>1 DEF ClickUnit
  <2> DEFINE c == set_unit_focus_and_redraw(client, u)
             d == request_new_unit_activity(c, u)
  <2>2. Good(c)
    BY <1>g, IsInFocus
  <2>4. OnMap({c, d})
    BY <2>1
  <2> HIDE DEF c
  <2>3. Good(d)
    BY <1>p, <2>2, NewActivity
  <2> HIDE DEF d
  <2> QED BY <2>2, <2>3, <2>4, OnMapKeeps
<1>2. CASE map_select_units
  <2>1. PICK s \in SetToAllKPermutations(client.units) :
               OnMap({action_selection_next_in_focus([client EXCEPT !.focus = s], Zero)})
    BY <1>2 DEF map_select_units
  <2> DEFINE b == [client EXCEPT !.focus = s]
             d == action_selection_next_in_focus(b, Zero)
  <2>2. s \in Seq(Unit) /\ Present(s, client.units)
    BY <1>g, SelectedUnits
  <2>3. b \in Clients /\ b.focus = s /\ b.units = client.units /\ b.urgent = client.urgent
        /\ b.dialogs = client.dialogs
    BY <1>g, <2>2 DEF Clients
  <2>4. OnMap({d})
    BY <2>1
  <2> HIDE DEF b
  <2>5. Good(b)
    BY <1>g, <2>2, <2>3 DEF Good
  <2>6. Good(d)
    BY <2>5, CalmSteps
  <2> HIDE DEF d
  <2> QED BY <2>4, <2>6, OnMapKeeps
<1>3. CASE key_unit_wait
  <2> DEFINE w == client.waiting \o client.focus
             c == [client EXCEPT !.waiting = w]
  <2>1. OnMap(advance_unit_focus(c))
    BY <1>3 DEF key_unit_wait
  <2>2. w \in Seq(Unit)
    BY <1>p
  <2> HIDE DEF w
  <2>3. c \in Clients /\ c.focus = client.focus /\ c.units = client.units
        /\ c.urgent = client.urgent /\ c.dialogs = client.dialogs
    BY <1>g, <2>2 DEF Clients
  <2> HIDE DEF c
  <2>4. Good(c)
    BY <1>g, <2>3 DEF Good
  <2>5. \A d \in advance_unit_focus(c) : Good(d)
    BY <2>4, Advances
  <2> QED BY <2>1, <2>5, OnMapKeeps
<1>4. CASE key_unit_noorders
  <2> DEFINE dg == [u \in Unit |-> IF unit_is_in_focus(client, u) /\ MovesLeft(client.doing[u])
                                   THEN "skipped" ELSE client.doing[u]]
             c == [client EXCEPT !.doing = dg]
  <2>1. OnMap(advance_unit_focus(c))
    BY <1>4 DEF key_unit_noorders
  <2>2. dg \in [Unit -> Doing]
    BY <1>p DEF Doing
  <2> HIDE DEF dg
  <2>3. c \in Clients /\ c.focus = client.focus /\ c.units = client.units
        /\ c.urgent = client.urgent /\ c.dialogs = client.dialogs
    BY <1>g, <2>2 DEF Clients
  <2> HIDE DEF c
  <2>4. Good(c)
    BY <1>g, <2>3 DEF Good
  <2>5. \A d \in advance_unit_focus(c) : Good(d)
    BY <2>4, Advances
  <2> QED BY <2>1, <2>5, OnMapKeeps
<1>5. CASE OrderFocus
  <2> DEFINE d == Ordered(client)
  <2>1. OnMap({d})
    BY <1>5 DEF OrderFocus
  <2>2. Good(d)
    BY <1>g, IsOrdered
  <2> HIDE DEF d
  <2> QED BY <2>1, <2>2, OnMapKeeps
<1>6. CASE request_unit_act_sel_vs
  <2> DEFINE q == [i \in DOMAIN client.focus |-> [type |-> "queue", unit |-> client.focus[i]]]
             r == client.up \o q
             d == [client EXCEPT !.up = r]
  <2>1. OnMap({d})
    BY <1>6 DEF request_unit_act_sel_vs
  <2>2. \A i \in 1..Len(client.focus) :
           [type |-> "queue", unit |-> client.focus[i]] \in Request
    BY <1>p DEF Request, Requests
  <2>3. q \in Seq(Request)
    <3>1. DOMAIN client.focus = 1..Len(client.focus) /\ Len(client.focus) \in Nat
      BY <1>p
    <3> QED BY <2>2, <3>1
  <2> HIDE DEF q
  <2>4. r \in Seq(Request)
    BY <1>p, <2>3
  <2> HIDE DEF r
  <2>5. d \in Clients /\ Calm(client, d)
    BY <1>g, <2>4 DEF Clients, Calm
  <2> HIDE DEF d
  <2>6. Good(d)
    BY <1>g, <2>5, CalmIsGood
  <2> QED BY <2>1, <2>6, OnMapKeeps
<1>7. CASE FocusTimer
  <2>1. Event /\ Plays(update_unit_focus(client))
    BY <1>7 DEF FocusTimer
  <2>2. \A d \in update_unit_focus(client) : Good(d)
    BY <1>g, Updates
  <2> QED BY <2>1, <2>2, EventCounts, PlaysKeeps
<1> QED BY <1>1, <1>2, <1>3, <1>4, <1>5, <1>6, <1>7

LEMMA PlayerKeeps == ASSUME DecisionInv, Player PROVE DecisionInv'
BY DialogsKeep, MapKeeps DEF Player

-----------------------------------------------------------------------------
LEMMA IsTold ==
  ASSUME DecisionInv, NEW q \in Seq(Packet), OfUnits(q), Tells(q)
  PROVE  down' \in Seq(Packet) /\ OfUnits(down')
<1>1. down \in Seq(Packet) /\ OfUnits(down)
  BY DEF DecisionInv, ServerOK
<1> DEFINE r == down \o q
<1>2. r \in Seq(Packet) /\ Len(r) = Len(down) + Len(q) /\ Len(down) \in Nat /\ Len(q) \in Nat
      /\ \A i \in 1..Len(r) : r[i] = IF i <= Len(down) THEN down[i] ELSE q[i - Len(down)]
  BY <1>1
<1>3. down' = r
  BY DEF Tells
<1> HIDE DEF r
<1>4. ASSUME NEW i \in 1..Len(r), r[i].type # "turn" PROVE r[i].unit \in Unit
  <2>1. CASE i <= Len(down)
    BY <1>1, <1>2, <1>4, <2>1 DEF OfUnits
  <2>2. CASE ~(i <= Len(down))
    <3>1. i - Len(down) \in 1..Len(q) /\ r[i] = q[i - Len(down)]
      BY <1>2, <2>2
    <3> QED BY <1>4, <3>1 DEF OfUnits
  <2> QED BY <2>1, <2>2
<1> QED BY <1>2, <1>3, <1>4 DEF OfUnits

LEMMA TellsOne ==
  ASSUME DecisionInv, NEW type \in Replies, NEW u \in Unit, NEW ok \in BOOLEAN,
         NEW doing \in Doing, Tells(<<Reply(type, u, ok, doing)>>)
  PROVE  down' \in Seq(Packet) /\ OfUnits(down')
<1> DEFINE p == Reply(type, u, ok, doing)
           q == <<p>>
<1>1. p \in Packet /\ p.unit = u
  BY DEF Packet, Reply
<1> HIDE DEF p
<1>2. q \in Seq(Packet) /\ OfUnits(q)
  BY <1>1 DEF OfUnits
<1>3. Tells(q)
  BY DEF p
<1> HIDE DEF q
<1> QED BY <1>2, <1>3, IsTold

LEMMA TellsNothing ==
  ASSUME DecisionInv, Tells(<<>>) PROVE down' \in Seq(Packet) /\ OfUnits(down')
<1> DEFINE q == <<>>
<1>1. q \in Seq(Packet) /\ OfUnits(q) /\ Tells(q)
  BY DEF OfUnits
<1> HIDE DEF q
<1> QED BY <1>1, IsTold

LEMMA TakesOne ==
  ASSUME DecisionInv, NEW type, Takes(type)
  PROVE  Good(client') /\ Asker \in Unit /\ UNCHANGED events
<1> DEFINE q == Tail(client.up)
<1>1. client.up # <<>> /\ client' = [client EXCEPT !.up = q] /\ UNCHANGED events
  BY DEF Takes
<1>2. client \in Clients /\ Good(client) /\ client.up \in Seq(Request)
  BY ClientParts DEF DecisionInv, Good
<1>3. q \in Seq(Request) /\ Head(client.up) \in Request
  BY <1>1, <1>2
<1>4. Asker \in Unit
  BY <1>3 DEF Asker, Request
<1> HIDE DEF q
<1> DEFINE d == [client EXCEPT !.up = q]
<1>5. d \in Clients /\ Calm(client, d)
  BY <1>2, <1>3 DEF Clients, Calm
<1>6. client' = d
  BY <1>1
<1> HIDE DEF d
<1>7. Good(d)
  BY <1>2, <1>5, CalmIsGood
<1> QED BY <1>1, <1>4, <1>6, <1>7

LEMMA CivserverKeeps == ASSUME DecisionInv, Civserver PROVE DecisionInv'
<1>s. /\ Good(client) /\ life \in [Unit -> {"unborn", "dead"} \cup Doing]
      /\ wants \in [Unit -> BOOLEAN] /\ events \in 0..MaxEvents
  BY DEF DecisionInv, ServerOK
<1>d. {"ready", "busy", "done", "skipped"} = Doing
      /\ {"actions", "answer", "list", "suggestion", "info", "remove", "turn"} = Replies
  BY DEF Doing, Replies
<1>k. ASSUME Good(client'), down' \in Seq(Packet) /\ OfUnits(down'), events' \in 0..MaxEvents,
             life' \in [Unit -> {"unborn", "dead"} \cup Doing], wants' \in [Unit -> BOOLEAN]
      PROVE  DecisionInv'
  BY <1>k DEF DecisionInv, ServerOK
<1>1. CASE handle_unit_get_actions
  <2>1. Good(client') /\ Asker \in Unit /\ UNCHANGED <<events, life, wants>>
    BY <1>1, TakesOne DEF handle_unit_get_actions
  <2>2. PICK ok \in BOOLEAN : Tells(<<Reply("actions", Asker, ok, "ready")>>)
    BY <1>1 DEF handle_unit_get_actions
  <2>3. down' \in Seq(Packet) /\ OfUnits(down')
    BY <1>d, <2>1, <2>2, TellsOne
  <2> QED BY <1>s, <1>k, <2>1, <2>3
<1>2. CASE handle_unit_action_query
  <2>1. Good(client') /\ Asker \in Unit /\ UNCHANGED <<events, life, wants>>
    BY <1>2, TakesOne DEF handle_unit_action_query
  <2>2. \/ Tells(<<Reply("answer", Asker, TRUE, "ready")>>)
        \/ Tells(<<Reply("list", Asker, TRUE, "ready")>>)
        \/ Tells(<<Reply("answer", Asker, FALSE, "ready")>>)
    BY <1>2 DEF handle_unit_action_query
  <2>3. down' \in Seq(Packet) /\ OfUnits(down')
    BY <1>d, <2>1, <2>2, TellsOne
  <2> QED BY <1>s, <1>k, <2>1, <2>3
<1>3. CASE handle_city_name_suggestion_req
  <2>1. Good(client') /\ Asker \in Unit /\ UNCHANGED <<events, life, wants>>
    BY <1>3, TakesOne DEF handle_city_name_suggestion_req
  <2>2. Tells(<<>>) \/ Tells(<<Reply("suggestion", Asker, TRUE, "ready")>>)
    BY <1>3 DEF handle_city_name_suggestion_req
  <2>3. down' \in Seq(Packet) /\ OfUnits(down')
    BY <1>d, <2>1, <2>2, TellsOne, TellsNothing
  <2> QED BY <1>s, <1>k, <2>1, <2>3
<1>4. CASE handle_unit_do_action
  <2>1. Good(client') /\ Asker \in Unit /\ UNCHANGED <<events, wants>>
    BY <1>4, TakesOne DEF handle_unit_do_action
  <2>2. CASE Tells(<<>>) /\ UNCHANGED life
    BY <1>s, <1>k, <2>1, <2>2, TellsNothing
  <2>3. CASE \E d \in {"ready", "done"} : /\ Tells(<<Reply("info", Asker, wants[Asker], d)>>)
                                          /\ life' = [life EXCEPT ![Asker] = d]
    <3>1. PICK d \in {"ready", "done"} : /\ Tells(<<Reply("info", Asker, wants[Asker], d)>>)
                                         /\ life' = [life EXCEPT ![Asker] = d]
      BY <2>3
    <3>2. d \in Doing /\ wants[Asker] \in BOOLEAN
      BY <1>s, <1>d, <2>1
    <3>3. down' \in Seq(Packet) /\ OfUnits(down')
      BY <1>d, <2>1, <3>1, <3>2, TellsOne
    <3>4. life' \in [Unit -> {"unborn", "dead"} \cup Doing]
      BY <1>s, <3>1, <3>2
    <3> QED BY <1>s, <1>k, <2>1, <3>3, <3>4
  <2>4. CASE /\ Tells(<<Reply("remove", Asker, TRUE, "ready")>>)
             /\ life' = [life EXCEPT ![Asker] = "dead"]
    <3>1. down' \in Seq(Packet) /\ OfUnits(down')
      BY <1>d, <2>1, <2>4, TellsOne
    <3>2. life' \in [Unit -> {"unborn", "dead"} \cup Doing]
      BY <1>s, <2>4
    <3> QED BY <1>s, <1>k, <2>1, <3>1, <3>2
  <2> QED BY <1>4, <2>2, <2>3, <2>4 DEF handle_unit_do_action
<1>5. CASE handle_unit_sscs_set
  <2>1. Good(client') /\ Asker \in Unit /\ UNCHANGED <<events, life>>
    BY <1>5, TakesOne DEF handle_unit_sscs_set
  <2>2. wants' \in [Unit -> BOOLEAN]
    <3>1. Alive(Asker) \in BOOLEAN
      BY DEF Alive
    <3> QED BY <1>5, <1>s, <3>1 DEF handle_unit_sscs_set
  <2>3. Tells(<<>>) \/ (Alive(Asker) /\ Tells(<<Reply("info", Asker, wants'[Asker], life[Asker])>>))
    BY <1>5 DEF handle_unit_sscs_set
  <2>4. CASE Tells(<<>>)
    BY <1>s, <1>k, <2>1, <2>2, <2>4, TellsNothing
  <2>5. CASE Alive(Asker) /\ Tells(<<Reply("info", Asker, wants'[Asker], life[Asker])>>)
    <3>1. wants'[Asker] \in BOOLEAN /\ life[Asker] \in Doing
      BY <2>1, <2>2, <2>5 DEF Alive
    <3>2. down' \in Seq(Packet) /\ OfUnits(down')
      BY <1>d, <2>1, <2>5, <3>1, TellsOne
    <3> QED BY <1>s, <1>k, <2>1, <2>2, <3>2
  <2> QED BY <2>3, <2>4, <2>5
<1>6. CASE handle_unit_change_activity
  <2>1. Good(client') /\ Asker \in Unit /\ UNCHANGED <<events, wants>>
    BY <1>6, TakesOne DEF handle_unit_change_activity
  <2>2. CASE Tells(<<>>) /\ UNCHANGED life
    BY <1>s, <1>k, <2>1, <2>2, TellsNothing
  <2>3. CASE \E d \in {"ready", "busy"} : /\ Tells(<<Reply("info", Asker, wants[Asker], d)>>)
                                          /\ life' = [life EXCEPT ![Asker] = d]
    <3>1. PICK d \in {"ready", "busy"} : /\ Tells(<<Reply("info", Asker, wants[Asker], d)>>)
                                         /\ life' = [life EXCEPT ![Asker] = d]
      BY <2>3
    <3>2. d \in Doing /\ wants[Asker] \in BOOLEAN
      BY <1>s, <1>d, <2>1
    <3>3. down' \in Seq(Packet) /\ OfUnits(down')
      BY <1>d, <2>1, <3>1, <3>2, TellsOne
    <3>4. life' \in [Unit -> {"unborn", "dead"} \cup Doing]
      BY <1>s, <3>1, <3>2
    <3> QED BY <1>s, <1>k, <2>1, <3>3, <3>4
  <2> QED BY <1>6, <2>2, <2>3 DEF handle_unit_change_activity
<1>7. CASE UnitStirs
  <2>1. events' \in 0..MaxEvents /\ UNCHANGED client
    BY <1>7, EventCounts DEF UnitStirs
  <2>2. PICK u \in Unit, w \in BOOLEAN :
               /\ life' = [life EXCEPT ![u] = "ready"] /\ wants' = [wants EXCEPT ![u] = w]
               /\ Tells(<<Reply("info", u, w, "ready")>>)
    BY <1>7 DEF UnitStirs
  <2>3. down' \in Seq(Packet) /\ OfUnits(down')
    BY <1>d, <2>2, TellsOne
  <2>4. life' \in [Unit -> {"unborn", "dead"} \cup Doing] /\ wants' \in [Unit -> BOOLEAN]
    BY <1>s, <1>d, <2>2
  <2>5. Good(client')
    BY <1>s, <2>1
  <2> QED BY <1>k, <2>1, <2>3, <2>4, <2>5
<1>8. CASE UnitDies
  <2>1. events' \in 0..MaxEvents /\ UNCHANGED <<client, wants>>
    BY <1>8, EventCounts DEF UnitDies
  <2>2. PICK u \in Unit : /\ life' = [life EXCEPT ![u] = "dead"]
                          /\ Tells(<<Reply("remove", u, TRUE, "ready")>>)
    BY <1>8 DEF UnitDies
  <2>3. down' \in Seq(Packet) /\ OfUnits(down')
    BY <1>d, <2>2, TellsOne
  <2>4. life' \in [Unit -> {"unborn", "dead"} \cup Doing]
    BY <1>s, <2>2
  <2>5. Good(client') /\ wants' \in [Unit -> BOOLEAN]
    BY <1>s, <2>1
  <2> QED BY <1>k, <2>1, <2>3, <2>4, <2>5
<1>9. CASE TurnBegins
  <2>1. events' \in 0..MaxEvents /\ UNCHANGED <<client, life, wants>>
    BY <1>9, EventCounts DEF TurnBegins
  <2> DEFINE p == Reply("turn", Zero, TRUE, "ready")
             q == <<p>>
  <2>2. p \in Packet /\ p.type = "turn"
    BY <1>d DEF Packet, Reply
  <2>3. Tells(q)
    BY <1>9 DEF TurnBegins
  <2> HIDE DEF p
  <2>4. q \in Seq(Packet) /\ OfUnits(q)
    BY <2>2 DEF OfUnits
  <2> HIDE DEF q
  <2>5. down' \in Seq(Packet) /\ OfUnits(down')
    BY <2>3, <2>4, IsTold
  <2>6. Good(client') /\ life' \in [Unit -> {"unborn", "dead"} \cup Doing] /\ wants' \in [Unit -> BOOLEAN]
    BY <1>s, <2>1
  <2> QED BY <1>k, <2>1, <2>5, <2>6
<1> QED BY <1>1, <1>2, <1>3, <1>4, <1>5, <1>6, <1>7, <1>8, <1>9 DEF Civserver

LEMMA DecisionStep == DecisionInv /\ [Next_decision]_decisionVars => DecisionInv'
<1> SUFFICES ASSUME DecisionInv, [Next_decision]_decisionVars PROVE DecisionInv'
  OBVIOUS
<1>1. CASE UNCHANGED decisionVars
  BY <1>1 DEF decisionVars, DecisionInv, ServerOK
<1>2. CASE Next_decision
  BY <1>2, PacketsKeep, PlayerKeeps, CivserverKeeps DEF Next_decision
<1> QED BY <1>1, <1>2

LEMMA DecisionBegins == Init_decision => DecisionInv
<1> SUFFICES ASSUME Init_decision PROVE DecisionInv
  OBVIOUS
<1> DEFINE e == <<>>
<1>1. /\ e \in Seq(Unit) /\ e \in Seq(Dialog) /\ e \in Seq(Request) /\ e \in Seq(Packet)
      /\ Distinct(e) /\ Present(e, {}) /\ OfUnits(e)
  BY DEF Distinct, Present, OfUnits
<1>2. client = [units |-> {}, want |-> [u \in Unit |-> FALSE],
                doing |-> [u \in Unit |-> "ready"], focus |-> e,
                urgent |-> e, waiting |-> e, asking |-> Zero,
                more |-> FALSE, restart |-> FALSE, undecided |-> FALSE,
                dialogs |-> e, up |-> e] /\ down = e
  BY DEF Init_decision
<1> HIDE DEF e
<1>3. client \in Clients /\ client.units = {} /\ client.focus = e /\ client.urgent = e
      /\ client.dialogs = e
  BY <1>1, <1>2 DEF Clients, Doing
<1>4. Good(client)
  BY <1>1, <1>3 DEF Good
<1>5. ServerOK
  BY <1>1, <1>2, DecisionAssumption DEF Init_decision, ServerOK
<1> QED BY <1>4, <1>5 DEF DecisionInv

LEMMA InvFocus == DecisionInv => FocusAlive
<1> SUFFICES ASSUME DecisionInv PROVE FocusAlive
  OBVIOUS
<1>1. /\ client \in Clients /\ Distinct(client.dialogs)
      /\ Present(client.focus, client.units) /\ Present(client.urgent, client.units) /\ ServerOK
  BY DEF DecisionInv, Good
<1>2. /\ client.dialogs \in Seq(Dialog) /\ client.focus \in Seq(Unit) /\ client.urgent \in Seq(Unit)
  BY <1>1, ClientParts
<1>3. IsInjective(client.dialogs)
  BY <1>1, <1>2 DEF IsInjective, Distinct
<1>4. ToSet(client.focus) \cup ToSet(client.urgent) \subseteq client.units
  BY <1>1, <1>2, SMTT(60) DEF ToSet, Present
<1> QED BY <1>1, <1>3, <1>4 DEF FocusAlive, DecisionTypeOK, ServerOK

\* No unit that is gone gets the focus or waits for it.
THEOREM FocusStaysAlive == DecisionSpec => []FocusAlive
<1>1. Init_decision => DecisionInv
  BY DecisionBegins
<1>2. DecisionInv /\ [Next_decision]_decisionVars => DecisionInv'
  BY DecisionStep
<1>3. DecisionInv => FocusAlive
  BY InvFocus
<1> QED BY <1>1, <1>2, <1>3, PTL DEF DecisionSpec

-----------------------------------------------------------------------------
\* The focus moves to the first urgent unit there is, or to a unit that can
\* move or that wants a decision.
LEMMA MovesTo ==
  ASSUME NEW c, Good(c), NEW d \in advance_unit_focus(c)
  PROVE  /\ FreshUrgent(c) # <<>> => \E i \in 1..Len(c.urgent) : d.focus = <<c.urgent[i]>>
         /\ d.focus = <<>> /\ c.waiting = <<>> =>
              \A u \in c.units : c.doing[u] # "ready" /\ ~c.want[u]
<1> DEFINE q == FreshUrgent(c)
           fresh == [c EXCEPT !.urgent = q]
           found == IF find_best_focus_candidate(fresh, FALSE) # {}
                    THEN find_best_focus_candidate(fresh, FALSE)
                    ELSE find_best_focus_candidate(fresh, TRUE)
<1>0. c \in Clients
  BY DEF Good
<1>1. /\ q \in Seq(Unit) /\ \A us : Present(c.urgent, us) => Present(q, us)
  <2>1. c.urgent \in Seq(Unit)
    BY <1>0, ClientParts
  <2> QED BY <2>1, ThosePresent DEF FreshUrgent
<1>2. d \in (IF fresh.urgent # <<>>
             THEN {set_unit_focus_and_redraw([c EXCEPT !.urgent = k.urgent], k.unit) : k \in UrgentChoices(c)}
             ELSE IF found # {}
             THEN {set_unit_focus_and_redraw([fresh EXCEPT !.waiting = k.waiting], k.unit) : k \in found}
             ELSE {[fresh EXCEPT !.focus = <<>>]})
  BY DEF advance_unit_focus
<1>q. q # <<>> <=> FreshUrgent(c) # <<>>
  OBVIOUS
<1> HIDE DEF q
<1>3. fresh \in Clients /\ fresh.urgent = q /\ fresh.units = c.units /\ fresh.want = c.want
      /\ fresh.doing = c.doing /\ fresh.focus = c.focus /\ fresh.dialogs = c.dialogs
      /\ fresh.waiting = c.waiting
  BY <1>0, <1>1 DEF Clients
<1>4. Good(fresh)
  BY <1>1, <1>3 DEF Good
<1> HIDE DEF fresh
<1>5. CASE q # <<>>
  <2>1. PICK k \in UrgentChoices(c) :
               d = set_unit_focus_and_redraw([c EXCEPT !.urgent = k.urgent], k.unit)
    BY <1>2, <1>3, <1>5
  <2> DEFINE b == [c EXCEPT !.urgent = k.urgent]
  <2>2. /\ k.unit \in c.units /\ k.urgent \in Seq(Unit)
        /\ \A us : Present(c.urgent, us) => Present(k.urgent, us)
        /\ \E i \in 1..Len(c.urgent) : k.unit = c.urgent[i]
    BY <1>q, <1>5, UrgentFound
  <2>3. b \in Clients /\ b.urgent = k.urgent /\ b.units = c.units /\ b.focus = c.focus
        /\ b.dialogs = c.dialogs
    BY <1>0, <2>2 DEF Clients
  <2>5. d = set_unit_focus_and_redraw(b, k.unit)
    BY <2>1
  <2> HIDE DEF b
  <2>4. Good(b)
    BY <2>2, <2>3 DEF Good
  <2>6. d.focus = <<k.unit>>
    BY <2>2, <2>3, <2>4, <2>5, IsInFocus
  <2> QED BY <2>2, <2>6
<1>6. CASE q = <<>> /\ found # {}
  <2>1. PICK k \in found : d = set_unit_focus_and_redraw([fresh EXCEPT !.waiting = k.waiting], k.unit)
    BY <1>2, <1>3, <1>6
  <2> DEFINE b == [fresh EXCEPT !.waiting = k.waiting]
  <2>2. k.unit \in fresh.units /\ k.waiting \in Seq(Unit)
    BY <1>4, CandidateFound
  <2>3. b \in Clients /\ b.urgent = fresh.urgent /\ b.units = fresh.units /\ b.focus = fresh.focus
        /\ b.dialogs = fresh.dialogs
    BY <1>3, <2>2 DEF Clients
  <2>5. d = set_unit_focus_and_redraw(b, k.unit)
    BY <2>1
  <2> HIDE DEF b
  <2>4. Good(b)
    BY <1>4, <2>3 DEF Good
  <2>6. d.focus = <<k.unit>>
    BY <2>2, <2>3, <2>4, <2>5, IsInFocus
  <2> QED BY <1>q, <1>6, <2>6
<1>7. CASE q = <<>> /\ found = {}
  <2>1. find_best_focus_candidate(fresh, TRUE) = {}
    BY <1>7
  <2>2. Candidates(fresh, TRUE) = {}
    <3> SUFFICES ASSUME NEW u \in Candidates(fresh, TRUE) PROVE FALSE
      OBVIOUS
    <3>1. [unit |-> u, waiting |-> fresh.waiting] \in find_best_focus_candidate(fresh, TRUE)
      BY DEF find_best_focus_candidate
    <3> QED BY <2>1, <3>1
  <2>3. ASSUME c.waiting = <<>>, NEW u \in c.units PROVE c.doing[u] # "ready" /\ ~c.want[u]
    <3>1. ~Contains(fresh.waiting, u)
      BY <1>3, <2>3 DEF Contains
    <3> QED BY <1>3, <2>2, <2>3, <3>1 DEF Candidates
  <2> QED BY <1>q, <1>7, <2>3
<1> QED BY <1>5, <1>6, <1>7

\* The focus moves on from a client whose list of units that wait is new.
LEMMA WaitsAnew ==
  ASSUME Good(client), NEW w \in Seq(Unit)
  PROVE  LET c == [client EXCEPT !.waiting = w]
         IN  /\ Good(c) /\ c.waiting = w /\ c.units = client.units /\ c.focus = client.focus
             /\ c.urgent = client.urgent /\ c.doing = client.doing /\ c.want = client.want
             /\ c.asking = client.asking /\ FreshUrgent(c) = FreshUrgent(client)
<1> DEFINE c == [client EXCEPT !.waiting = w]
<1>1. c \in Clients /\ c.waiting = w /\ c.units = client.units /\ c.focus = client.focus
      /\ c.urgent = client.urgent /\ c.doing = client.doing /\ c.want = client.want
      /\ c.asking = client.asking /\ c.dialogs = client.dialogs
  BY DEF Good, Clients
<1> HIDE DEF c
<1>2. Good(c)
  BY <1>1 DEF Good
<1>3. \A u : Stale(c, u) = Stale(client, u)
  BY <1>1 DEF Stale
<1>4. FreshUrgent(c) = FreshUrgent(client)
  BY <1>1, <1>3 DEF FreshUrgent
<1> QED BY <1>1, <1>2, <1>4 DEF c

LEMMA TurnFinds ==
  ASSUME DecisionInv, handle_begin_turn, client'.focus = <<>>
  PROVE  \A u \in client.units : client.doing[u] # "ready" /\ ~client.want[u]
<1> DEFINE w == <<>>
           c == [client EXCEPT !.waiting = w]
<1>1. client' \in update_unit_focus(c)
  BY DEF handle_begin_turn, Becomes
<1>2. w \in Seq(Unit)
  OBVIOUS
<1>3. w = <<>>
  OBVIOUS
<1> HIDE DEF w
<1>4. /\ Good(c) /\ c.waiting = w /\ c.units = client.units /\ c.focus = client.focus
      /\ c.doing = client.doing /\ c.want = client.want
  BY <1>2, WaitsAnew DEF DecisionInv
<1> HIDE DEF c
<1>5. CASE client' \in advance_unit_focus(c)
  BY <1>3, <1>4, <1>5, MovesTo
<1>6. CASE /\ client' = c
           /\ c.focus # <<>> \/ \E u \in ToSet(c.focus) : c.doing[u] = "ready"
  BY <1>6 DEF ToSet
<1> QED BY <1>1, <1>5, <1>6 DEF update_unit_focus

LEMMA UrgentMoves ==
  ASSUME DecisionInv, key_unit_wait \/ handle_begin_turn, client'.focus # client.focus,
         FreshUrgent(client) # <<>>
  PROVE  Head(client'.focus) \in ToSet(client.urgent)
<1>g. Good(client) /\ client.urgent \in Seq(Unit) /\ client.focus \in Seq(Unit)
      /\ client.waiting \in Seq(Unit)
  BY ClientParts DEF DecisionInv, Good
<1>1. \E w \in Seq(Unit) : client' \in advance_unit_focus([client EXCEPT !.waiting = w])
  <2>1. CASE key_unit_wait
    <3> DEFINE w == client.waiting \o client.focus
    <3>1. w \in Seq(Unit)
      BY <1>g
    <3>2. client' \in advance_unit_focus([client EXCEPT !.waiting = w])
      BY <2>1 DEF key_unit_wait, OnMap, Plays
    <3> HIDE DEF w
    <3> QED BY <3>1, <3>2
  <2>2. CASE handle_begin_turn
    <3> DEFINE w == <<>>
               c == [client EXCEPT !.waiting = w]
    <3>1. client' \in update_unit_focus(c)
      BY <2>2 DEF handle_begin_turn, Becomes
    <3>2. w \in Seq(Unit)
      OBVIOUS
    <3> HIDE DEF w
    <3>3. c.focus = client.focus
      BY <1>g, <3>2, WaitsAnew
    <3> HIDE DEF c
    <3>4. client' \in advance_unit_focus(c)
      BY <3>1, <3>3 DEF update_unit_focus
    <3> QED BY <3>2, <3>4 DEF c
  <2> QED BY <2>1, <2>2
<1>2. PICK w \in Seq(Unit) : client' \in advance_unit_focus([client EXCEPT !.waiting = w])
  BY <1>1
<1> DEFINE c == [client EXCEPT !.waiting = w]
<1>3. Good(c) /\ c.urgent = client.urgent /\ FreshUrgent(c) # <<>>
  BY <1>g, WaitsAnew
<1>4. client' \in advance_unit_focus(c)
  BY <1>2
<1> HIDE DEF c
<1>5. PICK i \in 1..Len(c.urgent) : client'.focus = <<c.urgent[i]>>
  BY <1>3, <1>4, MovesTo
<1>6. Head(client'.focus) = client.urgent[i]
  BY <1>3, <1>5
<1> QED BY <1>g, <1>3, <1>5, <1>6 DEF ToSet

\* Nobody who waits for a decision is passed over: a turn that begins leaves
\* nobody in focus only if no unit can move or wants a decision, and the focus
\* moves to an urgent unit first.
THEOREM FocusIsFair == DecisionSpec => FocusFair
<1>1. Init_decision => DecisionInv
  BY DecisionBegins
<1>2. DecisionInv /\ [Next_decision]_decisionVars => DecisionInv'
  BY DecisionStep
<1>3. DecisionInv => [handle_begin_turn /\ client'.focus = <<>> =>
        \A u \in client.units : client.doing[u] # "ready" /\ ~client.want[u]]_decisionVars
  BY TurnFinds
<1>4. DecisionInv => [(key_unit_wait \/ handle_begin_turn) /\ client'.focus # client.focus
         /\ FreshUrgent(client) # <<>> => Head(client'.focus) \in ToSet(client.urgent)]_decisionVars
  BY UrgentMoves
<1> QED BY <1>1, <1>2, <1>3, <1>4, PTL DEF DecisionSpec, FocusFair, TurnFindsUnit, UrgentFirst

-----------------------------------------------------------------------------
(***************************************************************************)
(* Diplomacy                                                               *)
(***************************************************************************)

Seen == [clauses : Seq(Clause), dialogs : 0..1, hidden : BOOLEAN, thumbs : [Party -> BOOLEAN]]
Treaties == [open : BOOLEAN, clauses : Seq(Clause), accepted : [Party -> BOOLEAN]]

AskPackets == [ask : {"init", "cancel", "accept"}] \cup [ask : {"create", "remove"}, clause : Clause]
ToldPackets == [ask : {"init", "cancel", "end_turn"}]
                 \cup [ask : {"create", "remove"}, clause : Clause]
                 \cup [ask : {"accept"}, accepted : [Party -> BOOLEAN]]

NoThumbs == [p \in Party |-> FALSE]

\* What a client that showed v shows once it has heard m, but for `hidden`.
Hearing(v, m, w) ==
  /\ m.ask = "init" => w.clauses = <<>> /\ w.dialogs = v.dialogs + 1 /\ w.thumbs = NoThumbs
  /\ m.ask = "cancel" => w.clauses = <<>> /\ w.dialogs = 0 /\ w.thumbs = v.thumbs
  /\ m.ask = "end_turn" => w.clauses = v.clauses /\ w.dialogs = 0 /\ w.thumbs = v.thumbs
  /\ m.ask = "create" => /\ w.clauses = Append(v.clauses, m.clause)
                         /\ w.dialogs = v.dialogs /\ w.thumbs = v.thumbs
  /\ m.ask = "remove" => /\ w.clauses = remove_clause(v.clauses, m.clause)
                         /\ w.dialogs = v.dialogs /\ w.thumbs = v.thumbs
  /\ m.ask = "accept" /\ (\A q \in Party : m.accepted[q]) =>
       w.clauses = <<>> /\ w.dialogs = 0 /\ w.thumbs = v.thumbs
  /\ m.ask = "accept" /\ ~(\A q \in Party : m.accepted[q]) =>
       /\ w.clauses = v.clauses /\ w.dialogs = v.dialogs
       /\ w.thumbs = IF v.dialogs > 0 THEN m.accepted ELSE v.thumbs

\* What is shown is the treaty, as far as it can be.
Says(shown, clauses) ==
  /\ \A g \in Party : Cardinality(Given(shown, g)) = Cardinality(Given(clauses, g))
  /\ \A i \in DOMAIN clauses : clauses[i].type # "ADVANCE" => LastLine(shown, clauses[i])

Agrees(v, t) ==
  /\ ~t.open => v.dialogs = 0 /\ v.clauses = <<>>
  /\ t.open => Says(v.clauses, t.clauses)
  /\ \A q \in Party : t.accepted[q] /\ v.dialogs > 0 => v.thumbs[q]

\* f is what the client shows while it hears one packet after the other.
Follows(f, v, msgs, t) ==
  /\ f \in [0..Len(msgs) -> Seen] /\ f[0] = v
  /\ \A i \in 1..Len(msgs) : Hearing(f[i - 1], msgs[i], f[i])
  /\ Agrees(f[Len(msgs)], t)

WillAgree(v, msgs, t) == \E f : Follows(f, v, msgs, t)

\* No clause could have taken the place of another one.
Alone(clauses) == \A i, j \in DOMAIN clauses : i # j => ~Replaces(clauses[i], clauses[j])

MeetTypes == /\ view \in [Party -> Seen]
             /\ asks \in [Party -> Seq(AskPackets)]
             /\ told \in [Party -> Seq(ToldPackets)]
             /\ treaty \in Treaties
             /\ reqs \in 0..MaxReqs

TreatyOK == Alone(treaty.clauses) /\ (treaty.open => \E q \in Party : ~treaty.accepted[q])

MeetInv == MeetTypes /\ TreatyOK /\ \A p \in Party : WillAgree(view[p], told[p], treaty)

-----------------------------------------------------------------------------
LEMMA ClauseParts ==
  ASSUME NEW c \in Clause
  PROVE  /\ c.giver \in Party
         /\ (c.type \in {"ADVANCE", "GOLD"} /\ c.value \in Worth) \/ (c.type \in Pacts /\ c.value = 1)
<1>1. CASE c \in [giver : Party, type : {"ADVANCE", "GOLD"}, value : Worth]
  BY <1>1
<1>2. CASE c \in [giver : Party, type : Pacts, value : {1}]
  BY <1>2
<1> QED BY <1>1, <1>2 DEF Clause

LEMMA Alike == \A c, d, e \in Clause : /\ Replaces(c, d) => Replaces(d, c)
                                       /\ Replaces(c, d) /\ Replaces(d, e) => Replaces(c, e)
                                       /\ c.type # "ADVANCE" => Replaces(c, c)
                                       /\ Replaces(c, d) => c.type # "ADVANCE" /\ d.type # "ADVANCE"
<1>1. \A c \in Clause : c.type \in {"ADVANCE", "GOLD"} \/ c.type \in Pacts
  BY ClauseParts
<1>2. "ADVANCE" \notin Pacts /\ "GOLD" \notin Pacts
  BY DEF Pacts
<1> QED BY <1>1, <1>2 DEF Replaces

\* r is s without its element at m.
TakenAt(r, s, m) == /\ r \in Seq(Clause) /\ Len(r) = Len(s) - 1
                    /\ \A i \in 1..Len(r) : r[i] = IF i < m THEN s[i] ELSE s[i + 1]

LEMMA Freed ==
  ASSUME NEW s \in Seq(Clause), NEW hits, hits \subseteq DOMAIN s, hits # {}
  PROVE  \E m \in hits : TakenAt(FirstTaken(s, hits), s, m)
<1> DEFINE m == CHOOSE i \in hits : \A j \in hits : i <= j
<1>1. DOMAIN s = 1..Len(s) /\ Len(s) \in Nat
  OBVIOUS
<1>2. \E i \in hits : \A j \in hits : i <= j
  BY <1>1, LeastNat
<1>3. m \in hits
  BY <1>2
<1>4. FirstTaken(s, hits) = SubSeq(s, 1, m - 1) \o SubSeq(s, m + 1, Len(s))
  BY DEF FirstTaken, RemoveAt
<1> HIDE DEF m
<1>5. m \in 1..Len(s)
  BY <1>1, <1>3
<1> DEFINE a == SubSeq(s, 1, m - 1)
           b == SubSeq(s, m + 1, Len(s))
<1>6. a \in Seq(Clause) /\ Len(a) = m - 1 /\ \A i \in 1..(m - 1) : a[i] = s[i]
  BY <1>5
<1>7. b \in Seq(Clause) /\ Len(b) = Len(s) - m /\ \A i \in 1..(Len(s) - m) : b[i] = s[m + i]
  BY <1>5
<1> HIDE DEF a, b
<1>8. a \o b \in Seq(Clause) /\ Len(a \o b) = Len(s) - 1
  <2>0. a \in Seq(Clause) /\ b \in Seq(Clause)
    BY <1>6, <1>7
  <2>1. a \o b \in Seq(Clause) /\ Len(a \o b) = Len(a) + Len(b)
    BY <2>0
  <2>2. Len(a) = m - 1 /\ Len(b) = Len(s) - m
    BY <1>6, <1>7
  <2>3. (m - 1) + (Len(s) - m) = Len(s) - 1
    BY <1>1, <1>5
  <2> QED BY <2>1, <2>2, <2>3
<1>9. ASSUME NEW i \in 1..(Len(s) - 1) PROVE (a \o b)[i] = IF i < m THEN s[i] ELSE s[i + 1]
  <2>1. CASE i < m
    BY <1>5, <1>6, <1>7, <2>1
  <2>2. CASE ~(i < m)
    <3>1. i - (m - 1) \in 1..(Len(s) - m) /\ m + (i - (m - 1)) = i + 1
      BY <1>1, <1>5, <2>2
    <3>2. (a \o b)[i] = b[i - (m - 1)]
      BY <1>1, <1>5, <1>6, <1>7, <2>2
    <3> QED BY <1>7, <2>2, <3>1, <3>2
  <2> QED BY <2>1, <2>2
<1> QED BY <1>3, <1>4, <1>8, <1>9 DEF TakenAt, a, b

LEMMA GivenFinite == ASSUME NEW s \in Seq(Clause), NEW g PROVE
  IsFiniteSet(Given(s, g)) /\ Cardinality(Given(s, g)) \in Nat /\ Given(s, g) \subseteq 1..Len(s)
<1>1. Given(s, g) \subseteq 1..Len(s) /\ IsFiniteSet(1..Len(s))
  <2>1. DOMAIN s = 1..Len(s) /\ Len(s) \in Int /\ 1 \in Int
    OBVIOUS
  <2> QED BY <2>1, FS_Interval DEF Given
<1> QED BY <1>1, FS_Subset, FS_CardinalityType

LEMMA GivenTaken ==
  ASSUME NEW s \in Seq(Clause), NEW m \in 1..Len(s), NEW r, TakenAt(r, s, m), NEW g
  PROVE  Cardinality(Given(r, g)) = Cardinality(Given(s, g)) - (IF m \in Given(s, g) THEN 1 ELSE 0)
<1> DEFINE G == Given(s, g)
<1> DEFINE h == [i \in G \ {m} |-> IF i < m THEN i ELSE i - 1]
<1>1. IsFiniteSet(G) /\ Cardinality(G) \in Nat /\ G \subseteq 1..Len(s) /\ Len(s) \in Nat
  BY GivenFinite
<1>0. r \in Seq(Clause) /\ Len(r) = Len(s) - 1 /\ Given(r, g) \subseteq 1..Len(r)
  BY GivenFinite DEF TakenAt
<1>2. h \in Bijection(G \ {m}, Given(r, g))
  <2>1. ASSUME NEW i \in G \ {m} PROVE h[i] \in Given(r, g)
    <3>1. h[i] \in 1..Len(r) /\ r[h[i]] = s[i]
      BY <1>0, <1>1 DEF TakenAt
    <3> QED BY <1>0, <3>1 DEF Given
  <2>2. ASSUME NEW i \in G \ {m}, NEW j \in G \ {m}, h[i] = h[j] PROVE i = j
    BY <1>1, <2>2
  <2>3. ASSUME NEW k \in Given(r, g) PROVE \E i \in G \ {m} : h[i] = k
    <3>1. k \in 1..Len(r) /\ r[k].giver = g /\ r[k].type = "ADVANCE"
      BY <1>0 DEF Given
    <3>2. CASE k < m
      <4>1. k \in G \ {m}
        BY <1>0, <1>1, <3>1, <3>2 DEF TakenAt, Given
      <4> QED BY <4>1, <3>2
    <3>3. CASE ~(k < m)
      <4>1. k + 1 \in G \ {m} /\ ~(k + 1 < m)
        BY <1>0, <1>1, <3>1, <3>3 DEF TakenAt, Given
      <4>2. h[k + 1] = k
        BY <4>1, <1>0, <3>1
      <4> QED BY <4>1, <4>2
    <3> QED BY <3>2, <3>3
  <2> HIDE DEF h
  <2>4. h \in [G \ {m} -> Given(r, g)]
    BY <2>1 DEF h
  <2> QED BY <2>2, <2>3, <2>4, Fun_IsBij
<1> HIDE DEF h
<1>3. IsFiniteSet(G \ {m}) /\ Cardinality(G \ {m}) = Cardinality(G) - (IF m \in G THEN 1 ELSE 0)
  <2>1. CASE m \in G
    BY <1>1, <2>1, FS_RemoveElement
  <2>2. CASE m \notin G
    <3>1. G \ {m} = G
      BY <2>2
    <3>2. Cardinality(G) - 0 = Cardinality(G)
      BY <1>1
    <3> QED BY <1>1, <2>2, <3>1, <3>2
  <2> QED BY <2>1, <2>2
<1>4. Cardinality(Given(r, g)) = Cardinality(G \ {m})
  <2>1. ExistsBijection(G \ {m}, Given(r, g))
    BY <1>2 DEF ExistsBijection
  <2> HIDE DEF G
  <2> QED BY <1>3, <2>1, FS_Bijection
<1> QED BY <1>3, <1>4

LEMMA LastTaken ==
  ASSUME NEW s \in Seq(Clause), NEW m \in 1..Len(s), NEW r, TakenAt(r, s, m),
         NEW d \in Clause, LastLine(s, d), ~Replaces(d, s[m])
  PROVE  LastLine(r, d)
<1>1. PICK k \in 1..Len(s) :
        /\ Replaces(d, s[k]) /\ s[k].type = d.type /\ s[k].value = d.value
        /\ \A j \in 1..Len(s) : j > k => ~Replaces(d, s[j])
  BY DEF LastLine
<1>0. r \in Seq(Clause) /\ DOMAIN r = 1..Len(r) /\ Len(s) \in Nat /\ Len(r) = Len(s) - 1
  BY DEF TakenAt
<1>2. k # m
  BY <1>1
<1> DEFINE h == IF k < m THEN k ELSE k - 1
<1>3. h \in 1..Len(r) /\ r[h] = s[k]
  BY <1>0, <1>1, <1>2 DEF TakenAt
<1>4. ASSUME NEW j \in 1..Len(r), j > h PROVE ~Replaces(d, r[j])
  <2>1. CASE j < m
    <3>1. j \in 1..Len(s) /\ j > k /\ r[j] = s[j]
      BY <1>0, <1>1, <1>2, <1>4, <2>1 DEF TakenAt
    <3> QED BY <1>1, <3>1
  <2>2. CASE ~(j < m)
    <3>1. j + 1 \in 1..Len(s) /\ j + 1 > k /\ r[j] = s[j + 1]
      BY <1>0, <1>1, <1>2, <1>4, <2>2 DEF TakenAt
    <3> QED BY <1>1, <3>1
  <2> QED BY <2>1, <2>2
<1> HIDE DEF h
<1> QED BY <1>0, <1>1, <1>3, <1>4 DEF LastLine

LEMMA Appended == ASSUME NEW s \in Seq(Clause), NEW c \in Clause
  PROVE  /\ Append(s, c) \in Seq(Clause) /\ Len(Append(s, c)) = Len(s) + 1 /\ Len(s) \in Nat
         /\ DOMAIN s = 1..Len(s) /\ DOMAIN Append(s, c) = 1..(Len(s) + 1)
         /\ Append(s, c)[Len(s) + 1] = c
         /\ \A i \in 1..Len(s) : Append(s, c)[i] = s[i]
OBVIOUS

LEMMA LastAppended ==
  ASSUME NEW s \in Seq(Clause), NEW c \in Clause, NEW d \in Clause
  PROVE  /\ LastLine(s, d) /\ ~Replaces(d, c) => LastLine(Append(s, c), d)
         /\ Replaces(d, c) /\ c.type = d.type /\ c.value = d.value => LastLine(Append(s, c), d)
<1> DEFINE r == Append(s, c)
<1>1. /\ r \in Seq(Clause) /\ Len(r) = Len(s) + 1 /\ Len(s) \in Nat
      /\ DOMAIN s = 1..Len(s) /\ DOMAIN r = 1..(Len(s) + 1)
      /\ r[Len(s) + 1] = c /\ \A i \in 1..Len(s) : r[i] = s[i]
  BY Appended
<1> HIDE DEF r
<1>2. ASSUME LastLine(s, d), ~Replaces(d, c) PROVE LastLine(r, d)
  <2>1. PICK k \in 1..Len(s) :
          /\ Replaces(d, s[k]) /\ s[k].type = d.type /\ s[k].value = d.value
          /\ \A j \in 1..Len(s) : j > k => ~Replaces(d, s[j])
    BY <1>1, <1>2 DEF LastLine
  <2>2. k \in DOMAIN r /\ r[k] = s[k]
    BY <1>1
  <2>3. ASSUME NEW j \in DOMAIN r, j > k PROVE ~Replaces(d, r[j])
    <3>1. CASE j = Len(s) + 1
      BY <1>1, <1>2, <3>1
    <3>2. CASE j \in 1..Len(s)
      BY <1>1, <2>1, <2>3, <3>2
    <3> QED BY <1>1, <3>1, <3>2
  <2> QED BY <2>1, <2>2, <2>3 DEF LastLine
<1>3. ASSUME Replaces(d, c), c.type = d.type, c.value = d.value PROVE LastLine(r, d)
  <2>1. Len(s) + 1 \in DOMAIN r /\ \A j \in DOMAIN r : ~(j > Len(s) + 1)
    BY <1>1
  <2> QED BY <1>1, <1>3, <2>1 DEF LastLine
<1> QED BY <1>2, <1>3 DEF r

LEMMA GivenAppended ==
  ASSUME NEW s \in Seq(Clause), NEW c \in Clause, NEW g
  PROVE  Cardinality(Given(Append(s, c), g))
           = Cardinality(Given(s, g)) + (IF c.giver = g /\ c.type = "ADVANCE" THEN 1 ELSE 0)
<1> DEFINE r == Append(s, c)
           G == Given(s, g)
           n == Len(s) + 1
<1>1. /\ r \in Seq(Clause) /\ Len(s) \in Nat
      /\ DOMAIN s = 1..Len(s) /\ DOMAIN r = 1..(Len(s) + 1)
      /\ r[Len(s) + 1] = c /\ \A i \in 1..Len(s) : r[i] = s[i]
  BY Appended
<1>2. IsFiniteSet(G) /\ Cardinality(G) \in Nat /\ G \subseteq 1..Len(s)
  BY GivenFinite
<1> HIDE DEF r
<1>3. n \notin G
  BY <1>1, <1>2
<1>4. CASE c.giver = g /\ c.type = "ADVANCE"
  <2>1. Given(r, g) = G \cup {n}
    BY <1>1, <1>4 DEF Given
  <2> HIDE DEF G, n
  <2>2. Cardinality(G \cup {n}) = Cardinality(G) + 1
    BY <1>2, <1>3, FS_AddElement
  <2> QED BY <1>4, <2>1, <2>2 DEF G, r
<1>5. CASE ~(c.giver = g /\ c.type = "ADVANCE")
  <2>1. Given(r, g) = G
    BY <1>1, <1>5 DEF Given
  <2>2. Cardinality(G) + 0 = Cardinality(G)
    BY <1>2
  <2> HIDE DEF G
  <2> QED BY <1>5, <2>1, <2>2 DEF G, r
<1> QED BY <1>4, <1>5

LEMMA SameSort == \A c, d, e \in Clause :
  d.type = c.type /\ d.giver = c.giver => (Replaces(e, d) <=> Replaces(e, c))
BY ClauseParts DEF Replaces

LEMMA ToldRemoved ==
  ASSUME NEW cl \in Seq(Clause), NEW sh \in Seq(Clause), Alone(cl), Says(sh, cl), NEW c \in Clause,
         NEW same, same = {i \in DOMAIN cl : cl[i] = c}, same # {}
  PROVE  /\ FirstTaken(cl, same) \in Seq(Clause) /\ remove_clause(sh, c) \in Seq(Clause)
         /\ Alone(FirstTaken(cl, same)) /\ Says(remove_clause(sh, c), FirstTaken(cl, same))
<1> DEFINE cl2 == FirstTaken(cl, same)
           sh2 == remove_clause(sh, c)
           hits == {i \in DOMAIN sh : sh[i].giver = c.giver /\ sh[i].type = c.type}
<1>1. PICK m \in same : TakenAt(cl2, cl, m)
  BY Freed
<1>2. m \in 1..Len(cl) /\ cl[m] = c
  OBVIOUS
<1>3. cl2 \in Seq(Clause) /\ DOMAIN cl2 = 1..Len(cl2) /\ Len(cl) \in Nat /\ DOMAIN cl = 1..Len(cl)
      /\ DOMAIN sh = 1..Len(sh)
  BY <1>1 DEF TakenAt
<1>4. sh2 = FirstTaken(sh, hits)
  BY DEF remove_clause
<1> HIDE DEF cl2, sh2
<1>5. ASSUME NEW j \in 1..Len(cl2)
      PROVE  \E i \in 1..Len(cl) : i # m /\ cl2[j] = cl[i] /\ i = IF j < m THEN j ELSE j + 1
  BY <1>1, <1>2, <1>3 DEF TakenAt
<1>6. Alone(cl2)
  <2> SUFFICES ASSUME NEW i \in 1..Len(cl2), NEW j \in 1..Len(cl2), i # j PROVE ~Replaces(cl2[i], cl2[j])
    BY <1>3 DEF Alone
  <2>1. PICK k \in 1..Len(cl) : cl2[i] = cl[k] /\ k = IF i < m THEN i ELSE i + 1
    BY <1>5
  <2>2. PICK l \in 1..Len(cl) : cl2[j] = cl[l] /\ l = IF j < m THEN j ELSE j + 1
    BY <1>5
  <2>3. k # l
    BY <1>2, <2>1, <2>2
  <2> QED BY <1>3, <2>1, <2>2, <2>3 DEF Alone
<1>7. ASSUME NEW j \in DOMAIN cl2, cl2[j].type # "ADVANCE"
      PROVE  cl2[j] \in Clause /\ LastLine(sh, cl2[j]) /\ ~Replaces(cl2[j], c)
  <2>1. PICK i \in 1..Len(cl) : i # m /\ cl2[j] = cl[i]
    BY <1>3, <1>5
  <2> QED BY <1>2, <1>3, <1>7, <2>1 DEF Alone, Says
<1>8. ASSUME NEW g \in Party
      PROVE  /\ Cardinality(Given(cl2, g))
                  = Cardinality(Given(sh, g)) - (IF c.giver = g /\ c.type = "ADVANCE" THEN 1 ELSE 0)
             /\ Cardinality(Given(sh, g)) = Cardinality(Given(cl, g))
  <2>1. m \in Given(cl, g) <=> c.giver = g /\ c.type = "ADVANCE"
    BY <1>2, <1>3 DEF Given
  <2>2. Cardinality(Given(cl2, g)) = Cardinality(Given(cl, g)) - (IF m \in Given(cl, g) THEN 1 ELSE 0)
    BY <1>1, <1>2, GivenTaken
  <2> QED BY <2>1, <2>2 DEF Says
<1>9. CASE hits = {}
  <2>1. sh2 = sh
    BY <1>4, <1>9 DEF FirstTaken
  <2>2. ASSUME NEW g \in Party PROVE ~(c.giver = g /\ c.type = "ADVANCE")
    <3> SUFFICES ASSUME c.giver = g, c.type = "ADVANCE" PROVE FALSE
      OBVIOUS
    <3>1. Given(sh, g) = {}
      BY <1>9 DEF Given
    <3>2. m \in Given(cl, g)
      BY <1>2, <1>3 DEF Given
    <3>3. Cardinality(Given(sh, g)) = 0
      BY <3>1, FS_EmptySet
    <3>4. Cardinality(Given(cl, g)) = 0
      BY <3>3 DEF Says
    <3>5. Given(cl, g) = {}
      BY <3>4, GivenFinite, FS_EmptySet
    <3> QED BY <3>2, <3>5
  <2>3. ASSUME NEW g \in Party PROVE Cardinality(Given(sh2, g)) = Cardinality(Given(cl2, g))
    <3>1. Cardinality(Given(sh, g)) \in Nat
      BY GivenFinite
    <3> QED BY <1>8, <2>1, <2>2, <3>1
  <2> QED BY <1>3, <1>6, <1>7, <2>1, <2>3 DEF Says, cl2, sh2
<1>10. CASE hits # {}
  <2>1. PICK k \in hits : TakenAt(sh2, sh, k)
    <3>1. hits \subseteq DOMAIN sh
      OBVIOUS
    <3> HIDE DEF hits
    <3> QED BY <1>4, <1>10, <3>1, Freed
  <2>2. k \in 1..Len(sh) /\ sh[k].giver = c.giver /\ sh[k].type = c.type /\ sh[k] \in Clause
    BY <1>3
  <2>3. sh2 \in Seq(Clause)
    BY <2>1 DEF TakenAt
  <2>4. ASSUME NEW g \in Party PROVE Cardinality(Given(sh2, g)) = Cardinality(Given(cl2, g))
    <3>1. k \in Given(sh, g) <=> c.giver = g /\ c.type = "ADVANCE"
      BY <1>3, <2>2 DEF Given
    <3>2. Cardinality(Given(sh2, g)) = Cardinality(Given(sh, g)) - (IF k \in Given(sh, g) THEN 1 ELSE 0)
      BY <2>1, <2>2, GivenTaken
    <3> QED BY <1>8, <3>1, <3>2
  <2>5. ASSUME NEW j \in DOMAIN cl2, cl2[j].type # "ADVANCE" PROVE LastLine(sh2, cl2[j])
    <3>1. cl2[j] \in Clause /\ LastLine(sh, cl2[j]) /\ ~Replaces(cl2[j], sh[k])
      BY <1>7, <2>2, <2>5, SameSort
    <3> QED BY <2>1, <2>2, <3>1, LastTaken
  <2> QED BY <1>3, <1>6, <2>3, <2>4, <2>5 DEF Says, cl2, sh2
<1> QED BY <1>9, <1>10

LEMMA ToldAdded ==
  ASSUME NEW cl \in Seq(Clause), NEW sh \in Seq(Clause), Alone(cl), Says(sh, cl), NEW c \in Clause,
         ~Contains(cl, c)
  PROVE  /\ AddClause(cl, c) \in Seq(Clause) /\ Alone(AddClause(cl, c))
         /\ Says(Append(sh, c), AddClause(cl, c))
<1> DEFINE hits == {i \in DOMAIN cl : cl[i] = c \/ Replaces(c, cl[i])}
           cl2 == AddClause(cl, c)
           sh2 == Append(sh, c)
<1>0. DOMAIN cl = 1..Len(cl) /\ Len(cl) \in Nat
  OBVIOUS
<1>1. \A i \in 1..Len(cl) : cl[i] # c /\ cl[i] \in Clause
  BY DEF Contains
<1>2. sh2 \in Seq(Clause)
  OBVIOUS
<1>3. CASE hits = {}
  <2>1. cl2 = Append(cl, c)
    BY <1>3 DEF AddClause
  <2>2. /\ cl2 \in Seq(Clause) /\ DOMAIN cl2 = 1..(Len(cl) + 1)
        /\ cl2[Len(cl) + 1] = c /\ \A i \in 1..Len(cl) : cl2[i] = cl[i]
    BY <2>1, Appended
  <2>3. \A i \in 1..Len(cl) : ~Replaces(c, cl[i]) /\ ~Replaces(cl[i], c)
    BY <1>0, <1>1, <1>3, Alike
  <2> HIDE DEF cl2, sh2, hits
  <2>4. Alone(cl2)
    <3> SUFFICES ASSUME NEW i \in DOMAIN cl2, NEW j \in DOMAIN cl2, i # j PROVE ~Replaces(cl2[i], cl2[j])
      BY DEF Alone
    <3>1. CASE i \in 1..Len(cl) /\ j \in 1..Len(cl)
      BY <1>0, <2>2, <3>1 DEF Alone
    <3>2. CASE i = Len(cl) + 1
      BY <1>0, <2>2, <2>3, <3>2
    <3>3. CASE j = Len(cl) + 1
      BY <1>0, <2>2, <2>3, <3>3
    <3> QED BY <1>0, <2>2, <3>1, <3>2, <3>3
  <2>5. ASSUME NEW g \in Party PROVE Cardinality(Given(sh2, g)) = Cardinality(Given(cl2, g))
    BY <2>1, GivenAppended DEF Says, sh2
  <2>6. ASSUME NEW i \in DOMAIN cl2, cl2[i].type # "ADVANCE" PROVE LastLine(sh2, cl2[i])
    <3>1. CASE i = Len(cl) + 1
      <4>1. Replaces(c, c)
        BY <2>2, <2>6, <3>1, Alike
      <4> QED BY <2>2, <3>1, <4>1, LastAppended DEF sh2
    <3>2. CASE i \in 1..Len(cl)
      <4>1. LastLine(sh, cl[i]) /\ cl[i] \in Clause
        BY <1>0, <1>1, <2>2, <2>6, <3>2 DEF Says
      <4> QED BY <2>2, <2>3, <3>2, <4>1, LastAppended DEF sh2
    <3> QED BY <1>0, <2>2, <3>1, <3>2
  <2> QED BY <2>2, <2>4, <2>5, <2>6 DEF Says, cl2, sh2
<1>4. CASE hits # {}
  <2> DEFINE k == CHOOSE j \in hits : \A i \in hits : j <= i
  <2>1. \E j \in hits : \A i \in hits : j <= i
    <3>1. hits \in SUBSET Nat
      BY <1>0
    <3> HIDE DEF hits
    <3> QED BY <1>4, <3>1, LeastNat
  <2>2. k \in hits
    BY <2>1
  <2>3. cl2 = [cl EXCEPT ![k].type = c.type, ![k].value = c.value]
    BY <1>4 DEF AddClause
  <2> HIDE DEF k
  <2>4. k \in 1..Len(cl) /\ Replaces(c, cl[k]) /\ cl[k] \in Clause
    BY <1>0, <1>1, <2>2
  <2> DEFINE e == [cl[k] EXCEPT !.type = c.type, !.value = c.value]
  <2>5. cl2 = [cl EXCEPT ![k] = e]
    BY <1>0, <2>3, <2>4
  <2>6. e \in Clause /\ e.type = c.type /\ e.value = c.value /\ e.giver = cl[k].giver
    BY <2>4 DEF Clause, Replaces
  <2> HIDE DEF e, cl2, sh2, hits
  <2>7. /\ cl2 \in Seq(Clause) /\ DOMAIN cl2 = 1..Len(cl)
        /\ cl2[k] = e /\ \A i \in 1..Len(cl) : i # k => cl2[i] = cl[i]
    BY <1>0, <2>4, <2>5, <2>6
  <2>8. Replaces(e, c) /\ Replaces(c, e) /\ Replaces(e, cl[k]) /\ Replaces(cl[k], e)
    <3>1. Replaces(e, c)
      BY <2>4, <2>6 DEF Replaces
    <3> QED BY <2>4, <2>6, <3>1, Alike
  <2>9. \A i \in 1..Len(cl) : i # k => ~Replaces(cl[i], e) /\ ~Replaces(e, cl[i]) /\ ~Replaces(cl[i], c)
    <3> SUFFICES ASSUME NEW i \in 1..Len(cl), i # k
                 PROVE  ~Replaces(cl[i], e) /\ ~Replaces(e, cl[i]) /\ ~Replaces(cl[i], c)
      OBVIOUS
    <3>1. ~Replaces(cl[i], cl[k])
      BY <1>0, <2>4 DEF Alone
    <3> QED BY <1>1, <2>4, <2>6, <2>8, <3>1, Alike
  <2>10. Alone(cl2)
    <3> SUFFICES ASSUME NEW i \in 1..Len(cl), NEW j \in 1..Len(cl), i # j PROVE ~Replaces(cl2[i], cl2[j])
      BY <2>7 DEF Alone
    <3>1. CASE i = k
      BY <2>7, <2>9, <3>1
    <3>2. CASE j = k
      BY <2>7, <2>9, <3>2
    <3>3. CASE i # k /\ j # k
      BY <1>0, <2>7, <3>3 DEF Alone
    <3> QED BY <3>1, <3>2, <3>3
  <2>11. c.type # "ADVANCE" /\ cl[k].type # "ADVANCE"
    BY <2>4, Alike
  <2>12. ASSUME NEW g \in Party PROVE Cardinality(Given(sh2, g)) = Cardinality(Given(cl2, g))
    <3>1. Given(cl2, g) = Given(cl, g)
      BY <1>0, <2>6, <2>7, <2>11 DEF Given
    <3>2. Cardinality(Given(sh, g)) \in Nat
      BY GivenFinite
    <3> QED BY <2>11, <3>1, <3>2, GivenAppended DEF Says, sh2
  <2>13. ASSUME NEW i \in DOMAIN cl2, cl2[i].type # "ADVANCE" PROVE LastLine(sh2, cl2[i])
    <3>1. CASE i = k
      BY <2>6, <2>7, <2>8, <3>1, LastAppended DEF sh2
    <3>2. CASE i # k
      <4>1. LastLine(sh, cl[i]) /\ cl[i] \in Clause /\ ~Replaces(cl[i], c) /\ cl2[i] = cl[i]
        BY <1>0, <1>1, <2>7, <2>9, <2>13, <3>2 DEF Says
      <4> QED BY <4>1, LastAppended DEF sh2
    <3> QED BY <3>1, <3>2
  <2> QED BY <1>2, <2>7, <2>10, <2>12, <2>13 DEF Says, cl2, sh2
<1> QED BY <1>3, <1>4

-----------------------------------------------------------------------------
SameShown(v, w) == w.clauses = v.clauses /\ w.dialogs = v.dialogs /\ w.thumbs = v.thumbs

LEMMA HiddenAgrees ==
  ASSUME NEW v, NEW w \in Seen, SameShown(v, w), NEW msgs \in Seq(ToldPackets), NEW t, WillAgree(v, msgs, t)
  PROVE  WillAgree(w, msgs, t)
<1>1. PICK f : Follows(f, v, msgs, t)
  BY DEF WillAgree
<1>2. /\ f \in [0..Len(msgs) -> Seen] /\ f[0] = v /\ Len(msgs) \in Nat
      /\ \A i \in 1..Len(msgs) : Hearing(f[i - 1], msgs[i], f[i])
      /\ Agrees(f[Len(msgs)], t)
  BY <1>1 DEF Follows
<1> DEFINE g == [f EXCEPT ![0] = w]
<1>3. g \in [0..Len(msgs) -> Seen] /\ g[0] = w /\ \A i \in 1..Len(msgs) : g[i] = f[i]
  BY <1>2
<1> HIDE DEF g
<1>4. ASSUME NEW i \in 1..Len(msgs) PROVE Hearing(g[i - 1], msgs[i], g[i])
  <2>1. SameShown(f[i - 1], g[i - 1]) /\ g[i] = f[i]
    BY <1>2, <1>3 DEF SameShown
  <2> QED BY <1>2, <2>1 DEF SameShown, Hearing
<1>5. Agrees(g[Len(msgs)], t)
  <2>1. SameShown(f[Len(msgs)], g[Len(msgs)])
    BY <1>2, <1>3 DEF SameShown
  <2> QED BY <1>2, <2>1 DEF SameShown, Agrees
<1> QED BY <1>3, <1>4, <1>5 DEF WillAgree, Follows

LEMMA HeardOnce == ASSUME NEW v, NEW u, NEW w, NEW m \in ToldPackets, Hearing(v, m, u), Hearing(v, m, w)
  PROVE SameShown(u, w)
<1>1. m.ask \in {"init", "cancel", "end_turn", "create", "remove", "accept"}
  BY DEF ToldPackets
<1> QED BY <1>1 DEF Hearing, SameShown

LEMMA HeardAgrees ==
  ASSUME NEW v, NEW msgs \in Seq(ToldPackets), msgs # <<>>, NEW t, WillAgree(v, msgs, t),
         NEW w \in [clauses : Seq(Clause), dialogs : Int, hidden : BOOLEAN, thumbs : [Party -> BOOLEAN]],
         Hearing(v, Head(msgs), w)
  PROVE  w \in Seen /\ WillAgree(w, Tail(msgs), t)
<1>1. PICK f : Follows(f, v, msgs, t)
  BY DEF WillAgree
<1> DEFINE n == Len(msgs) - 1
           rest == Tail(msgs)
           g == [i \in 0..n |-> f[i + 1]]
<1>2. /\ f \in [0..Len(msgs) -> Seen] /\ f[0] = v
      /\ \A i \in 1..Len(msgs) : Hearing(f[i - 1], msgs[i], f[i])
      /\ Agrees(f[Len(msgs)], t)
  BY <1>1 DEF Follows
<1>3. /\ rest \in Seq(ToldPackets) /\ Len(rest) = n /\ n \in Nat /\ n + 1 = Len(msgs)
      /\ Head(msgs) = msgs[1] /\ msgs[1] \in ToldPackets /\ 1 \in 1..Len(msgs)
      /\ \A i \in 1..n : rest[i] = msgs[i + 1]
  OBVIOUS
<1> HIDE DEF n, rest
<1>4. g \in [0..n -> Seen] /\ \A i \in 0..n : g[i] = f[i + 1]
  <2>1. ASSUME NEW i \in 0..n PROVE i + 1 \in 0..Len(msgs) /\ f[i + 1] \in Seen
    <3>1. Len(msgs) \in Nat /\ n \in Nat /\ n + 1 = Len(msgs)
      BY <1>3
    <3>2. i + 1 \in 0..Len(msgs)
      BY <3>1
    <3> QED BY <1>2, <3>2
  <2> QED BY <2>1
<1> HIDE DEF g
<1>5. ASSUME NEW i \in 1..n PROVE Hearing(g[i - 1], rest[i], g[i])
  <2>1. g[i] = f[i + 1] /\ g[i - 1] = f[i]
    BY <1>3, <1>4
  <2>2. i + 1 \in 1..Len(msgs) /\ (i + 1) - 1 = i
    BY <1>3
  <2>3. Hearing(f[(i + 1) - 1], msgs[i + 1], f[i + 1])
    BY <1>2, <2>2
  <2> QED BY <1>3, <2>1, <2>2, <2>3
<1>6. Agrees(g[n], t)
  <2>1. n \in 0..n /\ n + 1 = Len(msgs)
    BY <1>3
  <2>2. g[n] = f[Len(msgs)]
    BY <1>4, <2>1
  <2> QED BY <1>2, <2>2
<1>7. Follows(g, g[0], rest, t)
  BY <1>3, <1>4, <1>5, <1>6 DEF Follows
<1>8. g[0] \in Seen /\ Hearing(v, Head(msgs), g[0])
  <2>1. g[0] = f[1] /\ 1 - 1 = 0 /\ g[0] \in Seen
    BY <1>3, <1>4
  <2>2. Hearing(f[1 - 1], msgs[1], f[1])
    BY <1>2, <1>3
  <2> QED BY <1>2, <1>3, <2>1, <2>2
<1>9. SameShown(g[0], w)
  BY <1>3, <1>8, HeardOnce
<1>10. w \in Seen
  <2>1. w.dialogs \in 0..1
    BY <1>8, <1>9 DEF SameShown, Seen
  <2> QED BY <2>1 DEF Seen
<1>11. WillAgree(g[0], rest, t)
  BY <1>7 DEF WillAgree
<1>12. WillAgree(w, rest, t)
  BY <1>3, <1>8, <1>9, <1>10, <1>11, HiddenAgrees
<1> QED BY <1>10, <1>12 DEF rest

LEMMA ToldAgrees ==
  ASSUME NEW v, NEW msgs \in Seq(ToldPackets), NEW t, WillAgree(v, msgs, t), NEW m \in ToldPackets, NEW t2,
         \A u \in Seen : Agrees(u, t) => \E w \in Seen : Hearing(u, m, w) /\ Agrees(w, t2)
  PROVE  msgs \o <<m>> \in Seq(ToldPackets) /\ WillAgree(v, msgs \o <<m>>, t2)
<1>1. PICK f : Follows(f, v, msgs, t)
  BY DEF WillAgree
<1> DEFINE n == Len(msgs)
           more == msgs \o <<m>>
<1>2. /\ f \in [0..n -> Seen] /\ f[0] = v /\ n \in Nat
      /\ \A i \in 1..n : Hearing(f[i - 1], msgs[i], f[i])
      /\ Agrees(f[n], t)
  BY <1>1 DEF Follows
<1>3. more \in Seq(ToldPackets) /\ Len(more) = n + 1 /\ more[n + 1] = m
      /\ \A i \in 1..n : more[i] = msgs[i]
  OBVIOUS
<1>4. PICK w \in Seen : Hearing(f[n], m, w) /\ Agrees(w, t2)
  BY <1>2
<1> DEFINE g == [i \in 0..(n + 1) |-> IF i = n + 1 THEN w ELSE f[i]]
<1> HIDE DEF n, more
<1>5. g \in [0..(n + 1) -> Seen] /\ g[n + 1] = w /\ \A i \in 0..n : g[i] = f[i]
  BY <1>2
<1> HIDE DEF g
<1>6. ASSUME NEW i \in 1..(n + 1) PROVE Hearing(g[i - 1], more[i], g[i])
  <2>1. CASE i = n + 1
    <3>1. g[i - 1] = f[n] /\ g[i] = w /\ more[i] = m
      BY <1>2, <1>3, <1>5, <2>1
    <3> QED BY <1>4, <3>1
  <2>2. CASE i \in 1..n
    <3>1. g[i - 1] = f[i - 1] /\ g[i] = f[i] /\ more[i] = msgs[i]
      BY <1>2, <1>3, <1>5, <2>2
    <3> QED BY <1>2, <2>2, <3>1
  <2> QED BY <1>2, <2>1, <2>2
<1>7. g[0] = v /\ Agrees(g[Len(more)], t2)
  BY <1>2, <1>3, <1>4, <1>5
<1> QED BY <1>3, <1>5, <1>6, <1>7 DEF WillAgree, Follows, more

-----------------------------------------------------------------------------
LEMMA AsksKeeps ==
  ASSUME MeetInv, NEW p \in Party, NEW s \in Seq(AskPackets), Asks(p, s),
         view' = view \/ view' = [view EXCEPT ![p].hidden = TRUE]
  PROVE  MeetInv'
<1>0. MaxReqs \in Nat
  BY MeetAssumption
<1>1. asks' \in [Party -> Seq(AskPackets)] /\ reqs' \in 0..MaxReqs /\ UNCHANGED <<told, treaty>>
  BY <1>0 DEF MeetInv, MeetTypes, Asks, Counts
<1>2. view' \in [Party -> Seen] /\ \A q \in Party : SameShown(view[q], view'[q])
  <2>1. CASE view' = view
    BY <2>1 DEF MeetInv, MeetTypes, SameShown
  <2>2. CASE view' = [view EXCEPT ![p].hidden = TRUE]
    <3> DEFINE w == [view[p] EXCEPT !.hidden = TRUE]
    <3>1. view[p] \in Seen
      BY DEF MeetInv, MeetTypes
    <3>2. w \in Seen
      BY <3>1 DEF Seen
    <3>3. SameShown(view[p], w)
      BY <3>1 DEF Seen, SameShown
    <3>4. view' = [view EXCEPT ![p] = w]
      BY <2>2
    <3> HIDE DEF w
    <3> QED BY <3>2, <3>3, <3>4 DEF MeetInv, MeetTypes, SameShown
  <2> QED BY <2>1, <2>2
<1>3. ASSUME NEW q \in Party PROVE WillAgree(view'[q], told'[q], treaty')
  <2>1. WillAgree(view[q], told[q], treaty) /\ told[q] \in Seq(ToldPackets)
    BY DEF MeetInv, MeetTypes
  <2>2. view'[q] \in Seen /\ SameShown(view[q], view'[q])
    BY <1>2
  <2> QED BY <1>1, <2>1, <2>2, HiddenAgrees
<1> QED BY <1>1, <1>2, <1>3 DEF MeetInv, MeetTypes, TreatyOK

LEMMA Warns ==
  ASSUME MeetInv, NEW m \in ToldPackets, TellsBoth(<<m>>),
         asks' \in [Party -> Seq(AskPackets)], reqs' \in 0..MaxReqs, view' = view,
         treaty' \in Treaties, TreatyOK',
         \A u \in Seen : Agrees(u, treaty) => \E w \in Seen : Hearing(u, m, w) /\ Agrees(w, treaty')
  PROVE  MeetInv'
<1>2. ASSUME NEW q \in Party
      PROVE  told[q] \o <<m>> \in Seq(ToldPackets) /\ WillAgree(view[q], told[q] \o <<m>>, treaty')
  <2>1. WillAgree(view[q], told[q], treaty) /\ told[q] \in Seq(ToldPackets)
    BY DEF MeetInv, MeetTypes
  <2> QED BY <2>1, ToldAgrees
<1>3. told' \in [Party -> Seq(ToldPackets)]
  BY <1>2 DEF TellsBoth
<1>4. ASSUME NEW q \in Party PROVE WillAgree(view'[q], told'[q], treaty')
  <2>1. told'[q] = told[q] \o <<m>> /\ view'[q] = view[q]
    BY DEF TellsBoth
  <2> QED BY <1>2, <2>1
<1> QED BY <1>3, <1>4 DEF MeetInv, MeetTypes

LEMMA Ignores == ASSUME MeetInv, NEW p \in Party, NEW a, TakesAsk(p, a), Nothing PROVE MeetInv'
<1>1. asks' \in [Party -> Seq(AskPackets)] /\ UNCHANGED <<view, reqs, treaty, told>>
  BY DEF MeetInv, MeetTypes, TakesAsk, Nothing
<1> QED BY <1>1 DEF MeetInv, MeetTypes, TreatyOK

LEMMA Listens ==
  ASSUME MeetInv, NEW p \in Party, NEW a, Hears(p, a), NEW w, view' = [view EXCEPT ![p] = w],
         w \in [clauses : Seq(Clause), dialogs : Int, hidden : BOOLEAN, thumbs : [Party -> BOOLEAN]],
         Hearing(view[p], Head(told[p]), w)
  PROVE  MeetInv'
<1>0. view \in [Party -> Seen] /\ told \in [Party -> Seq(ToldPackets)]
  BY DEF MeetInv, MeetTypes
<1>1. told[p] # <<>> /\ told' = [told EXCEPT ![p] = Tail(@)] /\ UNCHANGED <<asks, treaty, reqs>>
  BY DEF Hears
<1>2. w \in Seen /\ WillAgree(w, Tail(told[p]), treaty)
  BY <1>0, <1>1, HeardAgrees DEF MeetInv
<1>3. Tail(told[p]) \in Seq(ToldPackets)
  BY <1>0, <1>1
<1>4. view' \in [Party -> Seen] /\ told' \in [Party -> Seq(ToldPackets)]
  BY <1>0, <1>1, <1>2, <1>3
<1>5. ASSUME NEW q \in Party PROVE WillAgree(view'[q], told'[q], treaty')
  <2>1. CASE q = p
    BY <1>0, <1>1, <1>2, <2>1
  <2>2. CASE q # p
    BY <1>0, <1>1, <2>2 DEF MeetInv
  <2> QED BY <2>1, <2>2
<1> QED BY <1>1, <1>4, <1>5 DEF MeetInv, MeetTypes, TreatyOK

LEMMA Heeds == ASSUME MeetInv, NEW p \in Party, NEW a, TakesAsk(p, a)
  PROVE /\ asks' \in [Party -> Seq(AskPackets)] /\ reqs' \in 0..MaxReqs /\ view' = view
        /\ Head(asks[p]) \in AskPackets /\ Head(asks[p]).ask = a
BY DEF MeetInv, MeetTypes, TakesAsk

LEMMA AsksOne == \A a \in {"init", "cancel", "accept"} : <<Plain(a)>> \in Seq(AskPackets)
<1>1. \A a \in {"init", "cancel", "accept"} : Plain(a) \in AskPackets
  BY DEF AskPackets, Plain
<1> QED BY <1>1

LEMMA AsksOf == ASSUME NEW a \in {"create", "remove"}, NEW c \in Clause PROVE Of(a, c) \in AskPackets
BY DEF AskPackets, Of

LEMMA AsksRemovals == ASSUME NEW s \in Seq(Clause)
  PROVE [i \in DOMAIN s |-> Of("remove", s[i])] \in Seq(AskPackets)
<1>1. DOMAIN s = 1..Len(s) /\ Len(s) \in Nat
  OBVIOUS
<1>2. \A i \in 1..Len(s) : Of("remove", s[i]) \in AskPackets
  BY <1>1, AsksOf
<1> QED BY <1>1, <1>2

LEMMA RequestsKeep ==
  ASSUME MeetInv, NEW p \in Party,
         \/ diplomacy_init_meeting_req(p) \/ accept_treaty_req(p) \/ cancel_meeting_req(p)
         \/ create_clause_req(p) \/ meeting_gold_change_req(p) \/ remove_clause_req(p)
  PROVE  MeetInv'
<1>0. view[p].clauses \in Seq(Clause)
  BY DEF MeetInv, MeetTypes, Seen
<1>1. CASE diplomacy_init_meeting_req(p)
  BY <1>1, AsksOne, AsksKeeps DEF diplomacy_init_meeting_req
<1>2. CASE accept_treaty_req(p)
  BY <1>2, AsksOne, AsksKeeps DEF accept_treaty_req
<1>3. CASE cancel_meeting_req(p)
  BY <1>3, AsksOne, AsksKeeps DEF cancel_meeting_req
<1>4. CASE create_clause_req(p)
  <2>1. PICK c \in Clause :
          Asks(p, (IF c.type \in Pacts THEN Removals(p, Pacts) ELSE <<>>) \o <<Of("create", c)>>)
          /\ view' = view
    BY <1>4 DEF create_clause_req
  <2> DEFINE s == IF c.type \in Pacts THEN Removals(p, Pacts) ELSE <<>>
             e == <<Of("create", c)>>
  <2>2. Removals(p, Pacts) \in Seq(AskPackets)
    <3> DEFINE those == Those(view[p].clauses, {d \in Clause : d.type \in Pacts})
    <3>1. those \in Seq(Clause)
      BY <1>0, ThosePicks
    <3>2. Removals(p, Pacts) = [i \in DOMAIN those |-> Of("remove", those[i])]
      BY DEF Removals
    <3> HIDE DEF those
    <3> QED BY <3>1, <3>2, AsksRemovals
  <2>3. s \in Seq(AskPackets)
    BY <2>2
  <2>4. e \in Seq(AskPackets)
    BY AsksOf
  <2>5. Asks(p, s \o e) /\ view' = view
    BY <2>1
  <2> HIDE DEF s, e
  <2>6. s \o e \in Seq(AskPackets)
    BY <2>3, <2>4
  <2> QED BY <2>5, <2>6, AsksKeeps
<1>5. CASE meeting_gold_change_req(p)
  <2>1. PICK g \in Party, v \in Worth \cup {0} :
          LET shown == Those(view[p].clauses, {d \in Clause : d.giver = g /\ d.type = "GOLD"})
              gold == [giver |-> g, type |-> "GOLD", value |-> v]
              same == {i \in DOMAIN shown : shown[i].value = v}
              before == IF same = {} THEN shown
                        ELSE SubSeq(shown, 1, (CHOOSE i \in same : \A j \in same : i <= j) - 1)
          IN  /\ ShowsMeeting(p)
              /\ Asks(p, [i \in DOMAIN before |-> Of("remove", before[i])]
                           \o (IF same = {} /\ v # 0 THEN <<Of("create", gold)>> ELSE <<>>))
              /\ UNCHANGED view
    BY <1>5 DEF meeting_gold_change_req
  <2> DEFINE shown == Those(view[p].clauses, {d \in Clause : d.giver = g /\ d.type = "GOLD"})
             gold == [giver |-> g, type |-> "GOLD", value |-> v]
             same == {i \in DOMAIN shown : shown[i].value = v}
             k == CHOOSE i \in same : \A j \in same : i <= j
             before == IF same = {} THEN shown ELSE SubSeq(shown, 1, k - 1)
             s == [i \in DOMAIN before |-> Of("remove", before[i])]
             e == IF same = {} /\ v # 0 THEN <<Of("create", gold)>> ELSE <<>>
  <2>2. Asks(p, s \o e) /\ view' = view
    BY <2>1
  <2>3. shown \in Seq(Clause)
    BY <1>0, ThosePicks
  <2>4. v # 0 => gold \in Clause
    BY DEF Clause
  <2> HIDE DEF shown, gold
  <2>5. before \in Seq(Clause)
    <3>1. CASE same = {}
      BY <2>3, <3>1
    <3>2. CASE same # {}
      <4>1. same \in SUBSET Nat /\ DOMAIN shown = 1..Len(shown) /\ Len(shown) \in Nat
        BY <2>3
      <4> HIDE DEF same
      <4>2. k \in same
        BY <3>2, <4>1, LeastNat
      <4>3. k \in 1..Len(shown)
        BY <4>1, <4>2 DEF same
      <4> HIDE DEF k
      <4>4. SubSeq(shown, 1, k - 1) \in Seq(Clause)
        BY <2>3, <4>1, <4>3
      <4> QED BY <3>2, <4>4 DEF same
    <3> QED BY <3>1, <3>2
  <2>6. e \in Seq(AskPackets)
    <3>1. CASE same = {} /\ v # 0
      <4>1. Of("create", gold) \in AskPackets
        BY <2>4, <3>1, AsksOf
      <4> QED BY <3>1, <4>1
    <3>2. CASE ~(same = {} /\ v # 0)
      BY <3>2
    <3> QED BY <3>1, <3>2
  <2> HIDE DEF before, e
  <2>7. s \in Seq(AskPackets)
    BY <2>5, AsksRemovals
  <2> HIDE DEF s
  <2>8. s \o e \in Seq(AskPackets)
    BY <2>6, <2>7
  <2> QED BY <2>2, <2>8, AsksKeeps
<1>6. CASE remove_clause_req(p)
  <2>1. PICK i \in DOMAIN view[p].clauses : Asks(p, <<Of("remove", view[p].clauses[i])>>) /\ view' = view
    BY <1>6 DEF remove_clause_req
  <2>2. Of("remove", view[p].clauses[i]) \in AskPackets
    BY <1>0, AsksOf
  <2>3. <<Of("remove", view[p].clauses[i])>> \in Seq(AskPackets)
    BY <2>2
  <2> QED BY <2>1, <2>3, AsksKeeps
<1> QED BY <1>1, <1>2, <1>3, <1>4, <1>5, <1>6

LEMMA TellsPlain == \A a \in {"init", "cancel", "end_turn"} : Plain(a) \in ToldPackets /\ Plain(a).ask = a
BY DEF ToldPackets, Plain

LEMMA TellsOf == ASSUME NEW a \in {"create", "remove"}, NEW c \in Clause
  PROVE Of(a, c) \in ToldPackets /\ Of(a, c).ask = a /\ Of(a, c).clause = c
BY DEF ToldPackets, Of

LEMMA NoTreatyOK ==
  /\ \A b \in BOOLEAN : [NoTreaty EXCEPT !.open = b] \in Treaties
  /\ NoTreaty \in Treaties /\ NoThumbs \in [Party -> BOOLEAN] /\ NoTreaty.accepted = NoThumbs
  /\ NoTreaty.clauses = <<>> /\ NoTreaty.open = FALSE /\ Alone(<<>>)
<1>1. <<>> \in Seq(Clause) /\ NoThumbs \in [Party -> BOOLEAN]
  BY DEF NoThumbs
<1>2. NoTreaty.accepted = NoThumbs /\ NoTreaty.clauses = <<>> /\ NoTreaty.open = FALSE
  BY DEF NoTreaty, NoThumbs
<1> DEFINE e == <<>>
<1>3. NoTreaty = [open |-> FALSE, clauses |-> e, accepted |-> NoThumbs] /\ e \in Seq(Clause)
  BY DEF NoTreaty, NoThumbs
<1> HIDE DEF e
<1>4. NoTreaty \in Treaties
  BY <1>1, <1>3 DEF Treaties
<1>5. Alone(<<>>)
  BY DEF Alone
<1> HIDE DEF NoTreaty, NoThumbs
<1>6. \A b \in BOOLEAN : [NoTreaty EXCEPT !.open = b] \in Treaties
  BY <1>4 DEF Treaties
<1> QED BY <1>1, <1>2, <1>4, <1>5, <1>6

\* A treaty with no acceptance, and what is shown of it.
LEMMA Fresh == ASSUME NEW cl \in Seq(Clause)
  PROVE /\ Changed(cl) \in Treaties /\ Changed(cl).open = TRUE /\ Changed(cl).clauses = cl
        /\ \A q \in Party : ~Changed(cl).accepted[q]
<1>1. NoTreaty \in Treaties /\ NoTreaty.accepted = NoThumbs
  BY NoTreatyOK
<1> DEFINE t == [NoTreaty EXCEPT !.open = TRUE, !.clauses = cl]
<1>2. t \in Treaties /\ t.open = TRUE /\ t.clauses = cl /\ t.accepted = NoThumbs
  BY <1>1 DEF Treaties
<1> QED BY <1>2 DEF Changed, NoThumbs

LEMMA SeenIs ==
  ASSUME NEW c \in Seq(Clause), NEW d \in 0..1, NEW h \in [Party -> BOOLEAN]
  PROVE  LET w == [clauses |-> c, dialogs |-> d, hidden |-> FALSE, thumbs |-> h]
         IN  w \in Seen /\ w.clauses = c /\ w.dialogs = d /\ w.thumbs = h
BY DEF Seen

LEMMA EmptyIsTold == Says(<<>>, <<>>)
<1>1. \A g \in Party : Given(<<>>, g) = {}
  BY DEF Given
<1>2. DOMAIN <<>> = {}
  OBVIOUS
<1> QED BY <1>1, <1>2 DEF Says

LEMMA ToldItself == ASSUME NEW cl \in Seq(Clause), Alone(cl) PROVE Says(cl, cl)
<1>1. ASSUME NEW i \in DOMAIN cl, cl[i].type # "ADVANCE" PROVE LastLine(cl, cl[i])
  <2>1. Replaces(cl[i], cl[i])
    BY <1>1, Alike
  <2>2. \A j \in DOMAIN cl : j > i => ~Replaces(cl[i], cl[j])
    BY DEF Alone
  <2> QED BY <2>1, <2>2 DEF LastLine
<1> QED BY <1>1 DEF Says

LEMMA InitAnswered == ASSUME MeetInv, NEW p \in Party, handle_diplomacy_init_meeting_req(p) PROVE MeetInv'
<1>t. asks' \in [Party -> Seq(AskPackets)] /\ reqs' \in 0..MaxReqs /\ view' = view
  BY Heeds DEF handle_diplomacy_init_meeting_req
<1>1. CASE treaty.open
  BY <1>1, Ignores DEF handle_diplomacy_init_meeting_req
<1>2. CASE ~treaty.open
  <2> DEFINE t == [NoTreaty EXCEPT !.open = TRUE]
             m == Plain("init")
  <2>1. treaty' = t /\ TellsBoth(<<m>>)
    BY <1>2 DEF handle_diplomacy_init_meeting_req
  <2>2. t \in Treaties /\ t.open = TRUE /\ t.clauses = <<>> /\ t.accepted = NoThumbs
    BY NoTreatyOK DEF Treaties
  <2>3. m \in ToldPackets /\ m.ask = "init"
    BY TellsPlain
  <2> HIDE DEF t, m
  <2>4. ASSUME NEW u \in Seen, Agrees(u, treaty) PROVE \E w \in Seen : Hearing(u, m, w) /\ Agrees(w, t)
    <3> DEFINE e == <<>>
               w == [clauses |-> e, dialogs |-> 1, hidden |-> FALSE, thumbs |-> NoThumbs]
    <3>0. e \in Seq(Clause) /\ e = <<>> /\ 1 \in 0..1 /\ NoThumbs \in [Party -> BOOLEAN]
      BY NoTreatyOK
    <3> HIDE DEF e
    <3>1. w \in Seen /\ w.clauses = e /\ w.dialogs = 1 /\ w.thumbs = NoThumbs
      BY <3>0, SeenIs
    <3> HIDE DEF w
    <3>2. u.dialogs = 0
      BY <1>2, <2>4 DEF Agrees
    <3>3. Hearing(u, m, w)
      BY <2>3, <3>0, <3>1, <3>2 DEF Hearing
    <3>4. Agrees(w, t)
      BY <2>2, <3>0, <3>1, EmptyIsTold DEF Agrees, NoThumbs
    <3> QED BY <3>1, <3>3, <3>4
  <2>5. TreatyOK'
    BY <2>1, <2>2, NoTreatyOK, MeetAssumption DEF TreatyOK, NoThumbs
  <2> QED BY <1>t, <2>1, <2>2, <2>3, <2>4, <2>5, Warns
<1> QED BY <1>1, <1>2

\* After the end of the meeting, heard by a client that has heard of its end.
LEMMA CancelAgrees ==
  ASSUME NEW u \in Seen, NEW m,
         m.ask = "cancel" \/ (m.ask = "accept" /\ \A q \in Party : m.accepted[q])
  PROVE  \E w \in Seen : Hearing(u, m, w) /\ Agrees(w, NoTreaty)
<1> DEFINE e == <<>>
           w == [clauses |-> e, dialogs |-> 0, hidden |-> FALSE, thumbs |-> u.thumbs]
<1>0. e \in Seq(Clause) /\ e = <<>> /\ 0 \in 0..1 /\ u.thumbs \in [Party -> BOOLEAN]
  BY DEF Seen
<1> HIDE DEF e
<1>1. w \in Seen /\ w.clauses = e /\ w.dialogs = 0 /\ w.thumbs = u.thumbs
  BY <1>0, SeenIs
<1> HIDE DEF w
<1>2. Hearing(u, m, w)
  BY <1>0, <1>1 DEF Hearing
<1>3. Agrees(w, NoTreaty)
  BY <1>0, <1>1, NoTreatyOK DEF Agrees
<1> QED BY <1>1, <1>2, <1>3

LEMMA CancelAnswered == ASSUME MeetInv, NEW p \in Party, handle_diplomacy_cancel_meeting_req(p) PROVE MeetInv'
<1>t. asks' \in [Party -> Seq(AskPackets)] /\ reqs' \in 0..MaxReqs /\ view' = view
  BY Heeds DEF handle_diplomacy_cancel_meeting_req
<1>1. CASE ~treaty.open
  BY <1>1, Ignores DEF handle_diplomacy_cancel_meeting_req
<1>2. CASE treaty.open
  <2> DEFINE m == Plain("cancel")
  <2>1. treaty' = NoTreaty /\ TellsBoth(<<m>>)
    BY <1>2 DEF handle_diplomacy_cancel_meeting_req
  <2>2. m \in ToldPackets /\ m.ask = "cancel"
    BY TellsPlain
  <2> HIDE DEF m
  <2>3. TreatyOK'
    BY <2>1, NoTreatyOK DEF TreatyOK
  <2>4. treaty' \in Treaties
    BY <2>1, NoTreatyOK
  <2>5. \A u \in Seen : \E w \in Seen : Hearing(u, m, w) /\ Agrees(w, treaty')
    BY <2>1, <2>2, CancelAgrees
  <2> QED BY <1>t, <2>1, <2>2, <2>3, <2>4, <2>5, Warns
<1> QED BY <1>1, <1>2

LEMMA RemoveAnswered == ASSUME MeetInv, NEW p \in Party, handle_diplomacy_remove_clause_req(p) PROVE MeetInv'
<1>t. /\ asks' \in [Party -> Seq(AskPackets)] /\ reqs' \in 0..MaxReqs /\ view' = view
      /\ Head(asks[p]) \in AskPackets /\ Head(asks[p]).ask = "remove"
  BY Heeds DEF handle_diplomacy_remove_clause_req
<1> DEFINE c == Head(asks[p]).clause
           same == {i \in DOMAIN treaty.clauses : treaty.clauses[i] = c}
           cl == FirstTaken(treaty.clauses, same)
           m == Of("remove", c)
<1>0. c \in Clause
  BY <1>t DEF AskPackets
<1>1. \/ treaty.open /\ same # {} /\ treaty' = Changed(cl) /\ TellsBoth(<<m>>)
      \/ Nothing
  BY DEF handle_diplomacy_remove_clause_req
<1>2. CASE Nothing
  BY <1>2, Ignores DEF handle_diplomacy_remove_clause_req
<1>3. ASSUME treaty.open, same # {}, treaty' = Changed(cl), TellsBoth(<<m>>) PROVE MeetInv'
  <2>1. m \in ToldPackets /\ m.ask = "remove" /\ m.clause = c
    BY <1>0, TellsOf
  <2>2. treaty.clauses \in Seq(Clause) /\ Alone(treaty.clauses)
    BY DEF MeetInv, MeetTypes, TreatyOK, Treaties
  <2>s. same = {i \in DOMAIN treaty.clauses : treaty.clauses[i] = c}
    OBVIOUS
  <2> HIDE DEF m, c, same
  <2>3. ASSUME NEW sh \in Seq(Clause), Says(sh, treaty.clauses)
        PROVE  /\ cl \in Seq(Clause) /\ remove_clause(sh, c) \in Seq(Clause)
               /\ Alone(cl) /\ Says(remove_clause(sh, c), cl)
    BY <1>0, <1>3, <2>2, <2>3, <2>s, ToldRemoved
  <2>5. Says(treaty.clauses, treaty.clauses)
    BY <2>2, ToldItself
  <2>6. cl \in Seq(Clause) /\ Alone(cl)
    BY <2>2, <2>3, <2>5
  <2> DEFINE t == Changed(cl)
  <2> HIDE DEF cl
  <2>7. t \in Treaties /\ t.open = TRUE /\ t.clauses = cl /\ \A q \in Party : ~t.accepted[q]
    BY <2>6, Fresh
  <2> HIDE DEF t
  <2>8. ASSUME NEW u \in Seen, Agrees(u, treaty) PROVE \E w \in Seen : Hearing(u, m, w) /\ Agrees(w, t)
    <3> DEFINE r == remove_clause(u.clauses, c)
               w == [clauses |-> r, dialogs |-> u.dialogs, hidden |-> FALSE, thumbs |-> u.thumbs]
    <3>0. u.clauses \in Seq(Clause) /\ u.dialogs \in 0..1 /\ u.thumbs \in [Party -> BOOLEAN]
      BY DEF Seen
    <3>1. r \in Seq(Clause) /\ Says(r, cl)
      BY <1>3, <2>3, <2>8, <3>0 DEF Agrees
    <3>r. r = remove_clause(u.clauses, c)
      OBVIOUS
    <3> HIDE DEF r
    <3>2. w \in Seen /\ w.clauses = r /\ w.dialogs = u.dialogs /\ w.thumbs = u.thumbs
      BY <3>0, <3>1, SeenIs
    <3> HIDE DEF w
    <3>3. Hearing(u, m, w)
      BY <2>1, <3>r, <3>2 DEF Hearing
    <3>4. Agrees(w, t)
      BY <2>7, <3>1, <3>2 DEF Agrees
    <3> QED BY <3>2, <3>3, <3>4
  <2>9. TreatyOK'
    BY <1>3, <2>6, <2>7, MeetAssumption DEF TreatyOK, t, cl
  <2>10. treaty' = t
    BY <1>3 DEF t, cl
  <2> QED BY <1>t, <1>3, <2>1, <2>7, <2>8, <2>9, <2>10, Warns
<1> QED BY <1>1, <1>2, <1>3

LEMMA CreateAnswered == ASSUME MeetInv, NEW p \in Party, handle_diplomacy_create_clause_req(p) PROVE MeetInv'
<1>t. /\ asks' \in [Party -> Seq(AskPackets)] /\ reqs' \in 0..MaxReqs /\ view' = view
      /\ Head(asks[p]) \in AskPackets /\ Head(asks[p]).ask = "create"
  BY Heeds DEF handle_diplomacy_create_clause_req
<1> DEFINE c == Head(asks[p]).clause
           cl == AddClause(treaty.clauses, c)
           m == Of("create", c)
<1>0. c \in Clause
  BY <1>t DEF AskPackets
<1>1. \/ treaty.open /\ ~Contains(treaty.clauses, c) /\ treaty' = Changed(cl) /\ TellsBoth(<<m>>)
      \/ Nothing
  BY DEF handle_diplomacy_create_clause_req
<1>2. CASE Nothing
  BY <1>2, Ignores DEF handle_diplomacy_create_clause_req
<1>3. ASSUME treaty.open, ~Contains(treaty.clauses, c), treaty' = Changed(cl), TellsBoth(<<m>>) PROVE MeetInv'
  <2>1. m \in ToldPackets /\ m.ask = "create" /\ m.clause = c
    BY <1>0, TellsOf
  <2>2. treaty.clauses \in Seq(Clause) /\ Alone(treaty.clauses)
    BY DEF MeetInv, MeetTypes, TreatyOK, Treaties
  <2> HIDE DEF m, c
  <2>3. ASSUME NEW sh \in Seq(Clause), Says(sh, treaty.clauses)
        PROVE  cl \in Seq(Clause) /\ Alone(cl) /\ Says(Append(sh, c), cl)
    BY <1>0, <1>3, <2>2, <2>3, ToldAdded
  <2>5. Says(treaty.clauses, treaty.clauses)
    BY <2>2, ToldItself
  <2>6. cl \in Seq(Clause) /\ Alone(cl)
    BY <2>2, <2>3, <2>5
  <2> DEFINE t == Changed(cl)
  <2> HIDE DEF cl
  <2>7. t \in Treaties /\ t.open = TRUE /\ t.clauses = cl /\ \A q \in Party : ~t.accepted[q]
    BY <2>6, Fresh
  <2> HIDE DEF t
  <2>8. ASSUME NEW u \in Seen, Agrees(u, treaty) PROVE \E w \in Seen : Hearing(u, m, w) /\ Agrees(w, t)
    <3> DEFINE r == Append(u.clauses, c)
               w == [clauses |-> r, dialogs |-> u.dialogs, hidden |-> FALSE, thumbs |-> u.thumbs]
    <3>0. u.clauses \in Seq(Clause) /\ u.dialogs \in 0..1 /\ u.thumbs \in [Party -> BOOLEAN]
      BY DEF Seen
    <3>1. r \in Seq(Clause) /\ Says(r, cl)
      BY <1>0, <1>3, <2>3, <2>8, <3>0 DEF Agrees
    <3>r. r = Append(u.clauses, c)
      OBVIOUS
    <3> HIDE DEF r
    <3>2. w \in Seen /\ w.clauses = r /\ w.dialogs = u.dialogs /\ w.thumbs = u.thumbs
      BY <3>0, <3>1, SeenIs
    <3> HIDE DEF w
    <3>3. Hearing(u, m, w)
      BY <2>1, <3>r, <3>2 DEF Hearing
    <3>4. Agrees(w, t)
      BY <2>7, <3>1, <3>2 DEF Agrees
    <3> QED BY <3>2, <3>3, <3>4
  <2>9. TreatyOK'
    BY <1>3, <2>6, <2>7, MeetAssumption DEF TreatyOK, t, cl
  <2>10. treaty' = t
    BY <1>3 DEF t, cl
  <2> QED BY <1>t, <1>3, <2>1, <2>7, <2>8, <2>9, <2>10, Warns
<1> QED BY <1>1, <1>2, <1>3

LEMMA AcceptAnswered == ASSUME MeetInv, NEW p \in Party, handle_diplomacy_accept_treaty_req(p) PROVE MeetInv'
<1>t. asks' \in [Party -> Seq(AskPackets)] /\ reqs' \in 0..MaxReqs /\ view' = view
  BY Heeds DEF handle_diplomacy_accept_treaty_req
<1>i. /\ told \in [Party -> Seq(ToldPackets)] /\ view \in [Party -> Seen] /\ treaty \in Treaties
      /\ TreatyOK /\ \A q \in Party : WillAgree(view[q], told[q], treaty)
  BY DEF MeetInv, MeetTypes
<1> DEFINE accepted == [treaty.accepted EXCEPT ![p] = ~@]
           done == \A q \in Party : accepted[q]
           m == [ask |-> "accept", accepted |-> accepted]
           bye == Plain("cancel")
<1>0. accepted \in [Party -> BOOLEAN]
  BY <1>i DEF Treaties
<1>1. \/ /\ treaty.open
         /\ treaty' = IF done THEN NoTreaty ELSE [treaty EXCEPT !.accepted = accepted]
         /\ told' = [q \in Party |-> told[q] \o <<m>> \o IF done THEN <<bye>> ELSE <<>>]
      \/ Nothing
  BY DEF handle_diplomacy_accept_treaty_req, AcceptPackets
<1>2. CASE Nothing
  BY <1>2, Ignores DEF handle_diplomacy_accept_treaty_req
<1> HIDE DEF accepted
<1>m. m \in ToldPackets /\ m.ask = "accept" /\ m.accepted = accepted /\ bye \in ToldPackets /\ bye.ask = "cancel"
  BY <1>0, TellsPlain DEF ToldPackets
<1> HIDE DEF m, bye
<1>3. ASSUME treaty.open, done, treaty' = NoTreaty,
             told' = [q \in Party |-> told[q] \o <<m>> \o <<bye>>]
      PROVE  MeetInv'
  <2>1. ASSUME NEW q \in Party
        PROVE  /\ (told[q] \o <<m>>) \o <<bye>> \in Seq(ToldPackets)
               /\ WillAgree(view[q], (told[q] \o <<m>>) \o <<bye>>, NoTreaty)
    <3>1. \A u \in Seen : \E w \in Seen : Hearing(u, m, w) /\ Agrees(w, NoTreaty)
      BY <1>3, <1>m, CancelAgrees
    <3>2. told[q] \in Seq(ToldPackets) /\ WillAgree(view[q], told[q], treaty)
      BY <1>i
    <3> DEFINE s == told[q] \o <<m>>
    <3>3. s \in Seq(ToldPackets) /\ WillAgree(view[q], s, NoTreaty)
      BY <1>m, <3>1, <3>2, ToldAgrees
    <3> HIDE DEF s
    <3>4. \A u \in Seen : \E w \in Seen : Hearing(u, bye, w) /\ Agrees(w, NoTreaty)
      BY <1>m, CancelAgrees
    <3>5. s \o <<bye>> \in Seq(ToldPackets) /\ WillAgree(view[q], s \o <<bye>>, NoTreaty)
      BY <1>m, <3>3, <3>4, ToldAgrees
    <3> QED BY <3>5 DEF s
  <2>2. told' \in [Party -> Seq(ToldPackets)]
    BY <1>3, <2>1
  <2>3. TreatyOK'
    BY <1>3, NoTreatyOK DEF TreatyOK
  <2>4. treaty' \in Treaties
    BY <1>3, NoTreatyOK
  <2>5. ASSUME NEW q \in Party PROVE WillAgree(view'[q], told'[q], treaty')
    <3>1. told'[q] = (told[q] \o <<m>>) \o <<bye>> /\ view'[q] = view[q]
      BY <1>3, <1>t
    <3> QED BY <1>3, <2>1, <3>1
  <2> QED BY <1>i, <1>t, <2>2, <2>3, <2>4, <2>5 DEF MeetInv, MeetTypes
<1>4. ASSUME treaty.open, ~done, treaty' = [treaty EXCEPT !.accepted = accepted],
             told' = [q \in Party |-> told[q] \o <<m>> \o <<>>]
      PROVE  MeetInv'
  <2> DEFINE t == [treaty EXCEPT !.accepted = accepted]
  <2>1. t \in Treaties /\ t.open = treaty.open /\ t.clauses = treaty.clauses /\ t.accepted = accepted
    BY <1>0, <1>i DEF Treaties
  <2>t. treaty' = t
    BY <1>4
  <2> HIDE DEF t
  <2>2. ASSUME NEW u \in Seen, Agrees(u, treaty) PROVE \E w \in Seen : Hearing(u, m, w) /\ Agrees(w, t)
    <3> DEFINE h == IF u.dialogs > 0 THEN accepted ELSE u.thumbs
               w == [clauses |-> u.clauses, dialogs |-> u.dialogs, hidden |-> FALSE, thumbs |-> h]
    <3>0. u.clauses \in Seq(Clause) /\ u.dialogs \in 0..1 /\ u.thumbs \in [Party -> BOOLEAN]
      BY DEF Seen
    <3>1. h \in [Party -> BOOLEAN] /\ (u.dialogs > 0 => h = accepted)
          /\ h = IF u.dialogs > 0 THEN accepted ELSE u.thumbs
      BY <1>0, <3>0
    <3> HIDE DEF h
    <3>2. w \in Seen /\ w.clauses = u.clauses /\ w.dialogs = u.dialogs /\ w.thumbs = h
      BY <3>0, <3>1, SeenIs
    <3> HIDE DEF w
    <3>3. Hearing(u, m, w)
      BY <1>4, <1>m, <3>1, <3>2 DEF Hearing
    <3>4. Agrees(w, t)
      BY <1>4, <2>1, <2>2, <3>1, <3>2 DEF Agrees
    <3> QED BY <3>2, <3>3, <3>4
  <2>3. ASSUME NEW q \in Party
        PROVE  /\ told[q] \o <<m>> \o <<>> \in Seq(ToldPackets)
               /\ WillAgree(view[q], told[q] \o <<m>> \o <<>>, t)
    <3> DEFINE s == told[q] \o <<m>>
    <3>1. s \in Seq(ToldPackets) /\ WillAgree(view[q], s, t)
      BY <1>i, <1>m, <2>2, ToldAgrees
    <3> HIDE DEF s
    <3>2. s \o <<>> = s
      BY <3>1
    <3> QED BY <3>1, <3>2 DEF s
  <2>4. told' \in [Party -> Seq(ToldPackets)]
    BY <1>4, <2>3
  <2>5. TreatyOK'
    BY <1>4, <1>i, <2>1, <2>t DEF TreatyOK
  <2>6. ASSUME NEW q \in Party PROVE WillAgree(view'[q], told'[q], treaty')
    <3>1. told'[q] = told[q] \o <<m>> \o <<>> /\ view'[q] = view[q]
      BY <1>4, <1>t
    <3> QED BY <2>t, <2>3, <3>1
  <2> QED BY <1>i, <1>t, <2>1, <2>t, <2>4, <2>5, <2>6 DEF MeetInv, MeetTypes
<1> QED BY <1>1, <1>2, <1>3, <1>4

LEMMA TurnEnds == ASSUME MeetInv, EndTurn PROVE MeetInv'
<1> DEFINE m == Plain("end_turn")
<1>0. MaxReqs \in Nat
  BY MeetAssumption
<1>1. /\ TellsBoth(<<m>>) /\ view' = view /\ asks' = asks /\ treaty' = treaty /\ reqs' \in 0..MaxReqs
  BY <1>0 DEF EndTurn, Counts, MeetInv, MeetTypes
<1>2. m \in ToldPackets /\ m.ask = "end_turn"
  BY TellsPlain
<1> HIDE DEF m
<1>3. ASSUME NEW u \in Seen, Agrees(u, treaty) PROVE \E w \in Seen : Hearing(u, m, w) /\ Agrees(w, treaty)
  <2> DEFINE w == [clauses |-> u.clauses, dialogs |-> 0, hidden |-> FALSE, thumbs |-> u.thumbs]
  <2>0. u.clauses \in Seq(Clause) /\ 0 \in 0..1 /\ u.thumbs \in [Party -> BOOLEAN]
    BY DEF Seen
  <2>1. w \in Seen /\ w.clauses = u.clauses /\ w.dialogs = 0 /\ w.thumbs = u.thumbs
    BY <2>0, SeenIs
  <2> HIDE DEF w
  <2>2. Hearing(u, m, w)
    BY <1>2, <2>1 DEF Hearing
  <2>3. Agrees(w, treaty)
    BY <1>3, <2>1 DEF Agrees
  <2> QED BY <2>1, <2>2, <2>3
<1>4. asks' \in [Party -> Seq(AskPackets)] /\ treaty' \in Treaties /\ TreatyOK'
  BY <1>1 DEF MeetInv, MeetTypes, TreatyOK
<1> QED BY <1>1, <1>2, <1>3, <1>4, Warns

LEMMA NoMeetingIs == /\ NoMeeting \in Seen /\ NoMeeting.clauses = <<>> /\ NoMeeting.dialogs = 0
                     /\ NoMeeting.hidden = FALSE /\ NoMeeting.thumbs = NoThumbs
<1> DEFINE e == <<>>
<1>1. e \in Seq(Clause) /\ NoThumbs \in [Party -> BOOLEAN] /\ 0 \in 0..1
  BY NoTreatyOK
<1>2. NoMeeting = [clauses |-> e, dialogs |-> 0, hidden |-> FALSE, thumbs |-> NoThumbs]
  BY DEF NoMeeting, NoThumbs
<1> HIDE DEF e
<1>3. /\ NoMeeting \in Seen /\ NoMeeting.clauses = e /\ NoMeeting.dialogs = 0
      /\ NoMeeting.hidden = FALSE /\ NoMeeting.thumbs = NoThumbs
  BY <1>1, <1>2 DEF Seen
<1> QED BY <1>3 DEF e

LEMMA AtOnce == ASSUME NEW v \in Seen, NEW t, Agrees(v, t) PROVE WillAgree(v, <<>>, t)
<1> DEFINE f == [i \in 0..0 |-> v]
<1>1. Len(<<>>) = 0 /\ 1..0 = {} /\ 0 \in 0..0
  OBVIOUS
<1>2. f \in [0..0 -> Seen] /\ f[0] = v
  BY <1>1
<1> HIDE DEF f
<1>3. Follows(f, v, <<>>, t)
  BY <1>1, <1>2 DEF Follows
<1> QED BY <1>3 DEF WillAgree

LEMMA OneMore == ASSUME NEW s \in Seq(ToldPackets), NEW m \in ToldPackets
  PROVE /\ s \o <<m>> \in Seq(ToldPackets) /\ Len(s \o <<m>>) = Len(s) + 1
        /\ (s \o <<m>>)[Len(s) + 1] = m /\ \A i \in 1..Len(s) : (s \o <<m>>)[i] = s[i]
OBVIOUS

LEMMA Chained == ASSUME NEW s \in Seq(ToldPackets), NEW t \in Seq(ToldPackets)
  PROVE /\ s \o t \in Seq(ToldPackets) /\ Len(s \o t) = Len(s) + Len(t)
        /\ \A i \in 1..Len(s) : (s \o t)[i] = s[i]
        /\ \A i \in 1..Len(t) : (s \o t)[i + Len(s)] = t[i]
OBVIOUS

\* What a player who loads the page again is told shows the treaty.
LEMMA AllTold ==
  ASSUME NEW cl \in Seq(Clause), Alone(cl), NEW acc \in [Party -> BOOLEAN], \E q \in Party : ~acc[q],
         NEW t, t.open, t.clauses = cl, t.accepted = acc,
         NEW msgs, msgs = <<Plain("init")>> \o [i \in DOMAIN cl |-> Of("create", cl[i])]
                            \o <<[ask |-> "accept", accepted |-> acc]>>
  PROVE  msgs \in Seq(ToldPackets) /\ WillAgree(NoMeeting, msgs, t)
<1> DEFINE n == Len(cl)
           a == Plain("init")
           b == [i \in 1..n |-> Of("create", cl[i])]
           m == [ask |-> "accept", accepted |-> acc]
<1>1. n \in Nat /\ DOMAIN cl = 1..n /\ \A i \in 1..n : cl[i] \in Clause
  OBVIOUS
<1>2. a \in ToldPackets /\ a.ask = "init"
  BY TellsPlain
<1>3. m \in ToldPackets /\ m.ask = "accept" /\ m.accepted = acc
  BY DEF ToldPackets
<1>4. b \in Seq(ToldPackets) /\ Len(b) = n
      /\ \A i \in 1..n : b[i].ask = "create" /\ b[i].clause = cl[i]
  <2>1. \A i \in 1..n : Of("create", cl[i]) \in ToldPackets /\ Of("create", cl[i]).ask = "create"
                         /\ Of("create", cl[i]).clause = cl[i]
    BY <1>1, TellsOf
  <2> QED BY <1>1, <2>1
<1>5. msgs = <<a>> \o b \o <<m>>
  BY <1>1
<1> HIDE DEF a, b, m
<1>6. /\ msgs \in Seq(ToldPackets) /\ Len(msgs) = n + 2
      /\ msgs[1] = a /\ msgs[n + 2] = m /\ \A i \in 1..n : msgs[i + 1] = b[i]
  <2> DEFINE s == <<a>> \o b
  <2> DEFINE h == <<a>>
  <2>a. h \in Seq(ToldPackets) /\ Len(h) = 1 /\ h[1] = a /\ s = h \o b /\ <<a>> = h
    BY <1>2
  <2>b. b \in Seq(ToldPackets) /\ Len(b) = n
    BY <1>4
  <2> HIDE DEF s, h, b
  <2>c. h \o b \in Seq(ToldPackets) /\ Len(h \o b) = Len(h) + Len(b)
        /\ (\A i \in 1..Len(h) : (h \o b)[i] = h[i])
        /\ \A i \in 1..Len(b) : (h \o b)[i + Len(h)] = b[i]
    BY <2>a, <2>b, Chained
  <2>1. s \in Seq(ToldPackets) /\ Len(s) = n + 1 /\ s[1] = a /\ \A i \in 1..n : s[i + 1] = b[i]
    <3>1. s \in Seq(ToldPackets) /\ Len(s) = n + 1
      BY <1>1, <2>a, <2>b, <2>c
    <3>2. s[1] = a
      BY <2>a, <2>c
    <3> QED BY <1>1, <2>a, <2>b, <2>c, <3>1, <3>2
  <2>2. msgs = s \o <<m>>
    BY <1>5, <2>a
  <2>3. /\ msgs \in Seq(ToldPackets) /\ Len(msgs) = Len(s) + 1
        /\ msgs[Len(s) + 1] = m /\ \A i \in 1..Len(s) : msgs[i] = s[i]
    <3>1. s \in Seq(ToldPackets) /\ m \in ToldPackets
      BY <1>3, <2>1
    <3>2. /\ s \o <<m>> \in Seq(ToldPackets) /\ Len(s \o <<m>>) = Len(s) + 1
          /\ (s \o <<m>>)[Len(s) + 1] = m /\ \A i \in 1..Len(s) : (s \o <<m>>)[i] = s[i]
      BY <3>1, OneMore
    <3> DEFINE u == s \o <<m>>
    <3>3. /\ u \in Seq(ToldPackets) /\ Len(u) = Len(s) + 1 /\ msgs = u
          /\ u[Len(s) + 1] = m /\ \A i \in 1..Len(s) : u[i] = s[i]
      BY <2>2, <3>2
    <3> HIDE DEF u
    <3> QED BY <3>3
  <2>4. Len(s) = n + 1 /\ (n + 1) + 1 = n + 2 /\ 1 \in 1..(n + 1) /\ \A i \in 1..n : i + 1 \in 1..(n + 1)
    BY <1>1, <2>1
  <2>5. Len(msgs) = n + 2 /\ msgs[n + 2] = m /\ msgs[1] = s[1]
    BY <2>3, <2>4
  <2>6. ASSUME NEW i \in 1..n PROVE msgs[i + 1] = b[i]
    BY <2>1, <2>3, <2>4
  <2> QED BY <2>1, <2>3, <2>5, <2>6
<1> DEFINE shown(i) == SubSeq(cl, 1, IF i <= n THEN i ELSE n)
           view_(i) == [clauses |-> shown(i - 1), dialogs |-> 1, hidden |-> FALSE,
                        thumbs |-> IF i = n + 2 THEN acc ELSE NoThumbs]
           f == [i \in 0..(n + 2) |-> IF i = 0 THEN NoMeeting ELSE view_(i)]
<1>7. /\ \A i \in 0..(n + 1) : shown(i) \in Seq(Clause)
      /\ shown(0) = <<>> /\ shown(n + 1) = cl /\ shown(n) = cl
      /\ \A i \in 1..n : shown(i) = Append(shown(i - 1), cl[i])
  <2>1. ASSUME NEW i \in 0..(n + 1) PROVE shown(i) \in Seq(Clause)
    BY <1>1
  <2>2. SubSeq(cl, 1, 0) = <<>> /\ SubSeq(cl, 1, n) = cl
    OBVIOUS
  <2>3. ASSUME NEW i \in 1..n PROVE SubSeq(cl, 1, i) = Append(SubSeq(cl, 1, i - 1), cl[i])
    BY <1>1
  <2>4. ASSUME NEW i \in 1..n PROVE shown(i) = SubSeq(cl, 1, i) /\ shown(i - 1) = SubSeq(cl, 1, i - 1)
    BY <1>1
  <2>5. 0 <= n /\ ~(n + 1 <= n)
    BY <1>1
  <2> QED BY <2>1, <2>2, <2>3, <2>4, <2>5
<1>n. NoThumbs \in [Party -> BOOLEAN]
  BY NoTreatyOK
<1> HIDE DEF n, shown
<1>8. ASSUME NEW i \in 1..(n + 2)
      PROVE  /\ view_(i) \in Seen /\ view_(i).clauses = shown(i - 1) /\ view_(i).dialogs = 1
             /\ view_(i).thumbs = IF i = n + 2 THEN acc ELSE NoThumbs
  <2> DEFINE s == shown(i - 1)
             h == IF i = n + 2 THEN acc ELSE NoThumbs
  <2>0. i - 1 \in 0..(n + 1) /\ 1 \in 0..1
    BY <1>1
  <2>1. s \in Seq(Clause) /\ h \in [Party -> BOOLEAN]
    BY <1>7, <1>n, <2>0
  <2>2. view_(i) = [clauses |-> s, dialogs |-> 1, hidden |-> FALSE, thumbs |-> h]
    OBVIOUS
  <2> HIDE DEF s, h
  <2>3. /\ view_(i) \in Seen /\ view_(i).clauses = s /\ view_(i).dialogs = 1 /\ view_(i).thumbs = h
    BY <2>0, <2>1, <2>2, SeenIs
  <2> QED BY <2>3 DEF s, h
<1> HIDE DEF view_
<1>9. f \in [0..(n + 2) -> Seen] /\ f[0] = NoMeeting /\ \A i \in 1..(n + 2) : f[i] = view_(i)
  <2>1. NoMeeting \in Seen
    BY NoMeetingIs
  <2>2. ASSUME NEW i \in 0..(n + 2) PROVE i = 0 \/ (i \in 1..(n + 2) /\ i # 0)
    BY <1>1
  <2>3. ASSUME NEW i \in 0..(n + 2) PROVE (IF i = 0 THEN NoMeeting ELSE view_(i)) \in Seen
    BY <1>8, <2>1, <2>2
  <2>4. 0 \in 0..(n + 2) /\ \A i \in 1..(n + 2) : i \in 0..(n + 2) /\ i # 0
    BY <1>1
  <2> QED BY <2>3, <2>4
<1> HIDE DEF f
<1>10. ASSUME NEW i \in 1..(n + 2) PROVE Hearing(f[i - 1], msgs[i], f[i])
  <2>1. CASE i = 1
    <3>1. i - 1 = 0 /\ i # n + 2 /\ f[i - 1] = NoMeeting /\ f[i] = view_(i)
      BY <1>1, <1>9, <2>1
    <3>2. f[i].clauses = <<>> /\ f[i].dialogs = 1 /\ f[i].thumbs = NoThumbs
      BY <1>7, <1>8, <3>1
    <3> QED BY <1>2, <1>6, <2>1, <3>1, <3>2, NoMeetingIs DEF Hearing
  <2>2. CASE i \in 2..(n + 1)
    <3>1. /\ i - 1 \in 1..n /\ (i - 1) + 1 = i /\ i - 1 \in 1..(n + 2)
          /\ i # n + 2 /\ i - 1 # n + 2 /\ (i - 1) - 1 = i - 2
      BY <1>1, <2>2
    <3>2. f[i - 1] = view_(i - 1) /\ f[i] = view_(i)
      BY <1>9, <3>1
    <3>a. msgs[(i - 1) + 1] = b[i - 1]
      BY <1>6, <3>1
    <3>3. msgs[i].ask = "create" /\ msgs[i].clause = cl[i - 1]
      BY <1>4, <3>1, <3>a, ZenonT(60)
    <3>4. shown(i - 1) = Append(shown((i - 1) - 1), cl[i - 1])
      BY <1>7, <3>1
    <3> QED BY <1>8, <3>1, <3>2, <3>3, <3>4, ZenonT(60) DEF Hearing
  <2>3. CASE i = n + 2
    <3>1. i - 1 = n + 1 /\ i - 1 \in 1..(n + 2) /\ i - 1 # n + 2 /\ (i - 1) - 1 = n
      BY <1>1, <2>3
    <3>2. f[i - 1] = view_(i - 1) /\ f[i] = view_(i)
      BY <1>9, <3>1
    <3>a. shown(i - 1) = cl /\ shown((i - 1) - 1) = cl
      BY <1>7, <3>1
    <3>b. view_(i).clauses = shown(i - 1) /\ view_(i).dialogs = 1 /\ view_(i).thumbs = acc
      BY <1>8, <2>3
    <3>c. view_(i - 1).clauses = shown((i - 1) - 1) /\ view_(i - 1).dialogs = 1
      BY <1>8, <3>1
    <3>3. f[i - 1].clauses = cl /\ f[i].clauses = cl /\ f[i - 1].dialogs = 1 /\ f[i].dialogs = 1
          /\ f[i].thumbs = acc
      BY <3>2, <3>a, <3>b, <3>c
    <3>4. msgs[i] = m
      BY <1>6, <2>3
    <3>5. msgs[i].ask = "accept" /\ ~(\A q \in Party : msgs[i].accepted[q]) /\ msgs[i].accepted = acc
      BY <1>3, <3>4
    <3>6. f[i - 1].dialogs > 0
      BY <3>3
    <3> QED BY <3>3, <3>5, <3>6 DEF Hearing
  <2> QED BY <1>1, <2>1, <2>2, <2>3
<1>11. Agrees(f[n + 2], t)
  <2>1. n + 2 \in 1..(n + 2) /\ (n + 2) - 1 = n + 1
    BY <1>1
  <2>2. f[n + 2].clauses = cl /\ f[n + 2].thumbs = acc
    BY <1>7, <1>8, <1>9, <2>1
  <2> QED BY <2>2, ToldItself DEF Agrees
<1> QED BY <1>6, <1>9, <1>10, <1>11 DEF WillAgree, Follows

LEMMA RejoinKeeps == ASSUME MeetInv, NEW p \in Party, Rejoin(p) PROVE MeetInv'
<1>0. MaxReqs \in Nat
  BY MeetAssumption
<1>i. /\ told \in [Party -> Seq(ToldPackets)] /\ view \in [Party -> Seen] /\ treaty \in Treaties
      /\ asks \in [Party -> Seq(AskPackets)]
      /\ TreatyOK /\ \A q \in Party : WillAgree(view[q], told[q], treaty)
  BY DEF MeetInv, MeetTypes
<1>p. /\ treaty.clauses \in Seq(Clause) /\ treaty.accepted \in [Party -> BOOLEAN] /\ Alone(treaty.clauses)
      /\ treaty.open => \E q \in Party : ~treaty.accepted[q]
  BY <1>i DEF Treaties, TreatyOK
<1> DEFINE msgs == <<Plain("init")>> \o [i \in DOMAIN treaty.clauses |-> Of("create", treaty.clauses[i])]
                     \o <<[ask |-> "accept", accepted |-> treaty.accepted]>>
           e == <<>>
           s == IF ~treaty.open THEN e ELSE msgs
<1>1. /\ reqs' \in 0..MaxReqs /\ view' = [view EXCEPT ![p] = NoMeeting] /\ treaty' = treaty
      /\ asks' = [asks EXCEPT ![p] = e] /\ told' = [told EXCEPT ![p] = s]
  BY <1>0 DEF Rejoin, Counts, MeetInv, MeetTypes, AcceptPackets
<1>e. e \in Seq(AskPackets) /\ e \in Seq(ToldPackets) /\ e = <<>>
  OBVIOUS
<1> HIDE DEF e
<1>2. s \in Seq(ToldPackets) /\ WillAgree(NoMeeting, s, treaty)
  <2>1. CASE ~treaty.open
    <3>1. Agrees(NoMeeting, treaty)
      BY <2>1, NoMeetingIs DEF Agrees
    <3> QED BY <1>e, <2>1, <3>1, NoMeetingIs, AtOnce
  <2>2. CASE treaty.open
    <3>1. s = msgs
      BY <2>2
    <3>2. msgs \in Seq(ToldPackets) /\ WillAgree(NoMeeting, msgs, treaty)
      BY <1>p, <2>2, AllTold
    <3> HIDE DEF msgs
    <3> QED BY <3>1, <3>2
  <2> QED BY <2>1, <2>2
<1> HIDE DEF s
<1>3. /\ view' \in [Party -> Seen] /\ told' \in [Party -> Seq(ToldPackets)]
      /\ asks' \in [Party -> Seq(AskPackets)]
  BY <1>1, <1>2, <1>e, <1>i, NoMeetingIs
<1>4. ASSUME NEW q \in Party PROVE WillAgree(view'[q], told'[q], treaty')
  <2>1. CASE q = p
    BY <1>1, <1>2, <1>i, <2>1
  <2>2. CASE q # p
    BY <1>1, <1>i, <2>2
  <2> QED BY <2>1, <2>2
<1> QED BY <1>1, <1>3, <1>4, <1>i DEF MeetInv, MeetTypes, TreatyOK

LEMMA CancelledView == ASSUME NEW v \in Seen
  PROVE /\ cancel_meeting(v) \in [clauses : Seq(Clause), dialogs : Int, hidden : BOOLEAN,
                                  thumbs : [Party -> BOOLEAN]]
        /\ cancel_meeting(v).clauses = <<>> /\ cancel_meeting(v).dialogs = 0
        /\ cancel_meeting(v).thumbs = v.thumbs
<1> DEFINE e == <<>>
           d == IF v.dialogs = 0 THEN 0 ELSE v.dialogs - 1
           w == [v EXCEPT !.dialogs = d, !.hidden = FALSE]
<1>1. e \in Seq(Clause) /\ e = <<>>
  OBVIOUS
<1>2. d = 0
  BY DEF Seen
<1>3. cancel_meeting(v) = [w EXCEPT !.clauses = e]
  BY DEF cancel_meeting, Cleaned
<1> HIDE DEF d
<1>5. d \in 0..1
  BY <1>2
<1>4. w \in Seen /\ w.dialogs = d /\ w.thumbs = v.thumbs
  BY <1>5 DEF Seen
<1> HIDE DEF w, e
<1> DEFINE u == [w EXCEPT !.clauses = e]
<1>6. u \in Seen /\ u.clauses = e /\ u.dialogs = w.dialogs /\ u.thumbs = w.thumbs
  BY <1>1, <1>4 DEF Seen
<1>7. cancel_meeting(v) = u
  BY <1>3
<1> HIDE DEF u
<1>8. u \in [clauses : Seq(Clause), dialogs : Int, hidden : BOOLEAN, thumbs : [Party -> BOOLEAN]]
  BY <1>6 DEF Seen
<1> QED BY <1>1, <1>2, <1>4, <1>6, <1>7, <1>8

LEMMA ClauseRemoved == ASSUME NEW s \in Seq(Clause), NEW c PROVE remove_clause(s, c) \in Seq(Clause)
<1> DEFINE hits == {i \in DOMAIN s : s[i].giver = c.giver /\ s[i].type = c.type}
<1>1. remove_clause(s, c) = FirstTaken(s, hits) /\ hits \subseteq DOMAIN s
  BY DEF remove_clause
<1> HIDE DEF hits
<1>2. CASE hits = {}
  BY <1>1, <1>2 DEF FirstTaken
<1>3. CASE hits # {}
  BY <1>1, <1>3, Freed DEF TakenAt
<1> QED BY <1>2, <1>3

LEMMA ClientsKeep ==
  ASSUME MeetInv, NEW p \in Party,
         \/ handle_diplomacy_init_meeting(p) \/ handle_diplomacy_cancel_meeting(p)
         \/ handle_diplomacy_create_clause(p) \/ handle_diplomacy_remove_clause(p)
         \/ handle_diplomacy_accept_treaty(p) \/ handle_end_turn(p)
  PROVE  MeetInv'
<1> DEFINE v == view[p]
           m == Head(told[p])
           Wide == [clauses : Seq(Clause), dialogs : Int, hidden : BOOLEAN, thumbs : [Party -> BOOLEAN]]
<1>0. v \in Seen /\ told[p] \in Seq(ToldPackets)
  BY DEF MeetInv, MeetTypes
<1>v. /\ v.clauses \in Seq(Clause) /\ v.dialogs \in 0..1 /\ v.hidden \in BOOLEAN
      /\ v.thumbs \in [Party -> BOOLEAN]
  BY <1>0 DEF Seen
<1>m. ASSUME NEW a, Hears(p, a) PROVE m \in ToldPackets /\ m.ask = a
  BY <1>0, <1>m DEF Hears
<1>c. ASSUME NEW e \in Seq(Clause) PROVE e \in Seq(Clause)
  BY <1>c
<1>w. ASSUME NEW w \in Wide, NEW a, Hears(p, a), view' = [view EXCEPT ![p] = w], Hearing(v, m, w) PROVE MeetInv'
  BY <1>w, Listens
<1>1. CASE handle_diplomacy_init_meeting(p)
  <2> DEFINE w == [NoMeeting EXCEPT !.dialogs = view[p].dialogs + 1]
  <2>1. Hears(p, "init") /\ view' = [view EXCEPT ![p] = w]
    BY <1>1 DEF handle_diplomacy_init_meeting
  <2>2. /\ w \in Wide /\ w.clauses = NoMeeting.clauses /\ w.dialogs = v.dialogs + 1
        /\ w.thumbs = NoMeeting.thumbs
    BY <1>v, NoMeetingIs DEF Seen
  <2> HIDE DEF w, v, m, Wide
  <2>3. Hearing(v, m, w)
    BY <1>m, <2>1, <2>2, NoMeetingIs DEF Hearing
  <2> QED BY <1>w, <2>1, <2>2, <2>3
<1>2. CASE handle_diplomacy_cancel_meeting(p)
  <2> DEFINE w == cancel_meeting(v)
  <2>1. Hears(p, "cancel") /\ view' = [view EXCEPT ![p] = w]
    BY <1>0, <1>2 DEF handle_diplomacy_cancel_meeting, MeetInv, MeetTypes
  <2>2. w \in Wide /\ w.clauses = <<>> /\ w.dialogs = 0 /\ w.thumbs = v.thumbs
    BY <1>0, <1>v, CancelledView
  <2> HIDE DEF w, v, m, Wide
  <2>3. Hearing(v, m, w)
    BY <1>m, <2>1, <2>2 DEF Hearing
  <2> QED BY <1>w, <2>1, <2>2, <2>3
<1>3. CASE handle_diplomacy_create_clause(p)
  <2> DEFINE r == Append(v.clauses, m.clause)
             w == [v EXCEPT !.clauses = r]
  <2>1. Hears(p, "create") /\ view' = [view EXCEPT ![p] = w]
    BY <1>0, <1>3 DEF handle_diplomacy_create_clause, MeetInv, MeetTypes
  <2>2. m.clause \in Clause
    BY <1>m, <2>1 DEF ToldPackets
  <2>3. r \in Seq(Clause)
    BY <1>v, <2>2
  <2>r. r = Append(v.clauses, m.clause)
    OBVIOUS
  <2> HIDE DEF r
  <2>4. w \in Wide /\ w.clauses = r /\ w.dialogs = v.dialogs /\ w.thumbs = v.thumbs
    BY <1>0, <1>v, <2>3, SMTT(60) DEF Seen
  <2> HIDE DEF w, v, m, Wide
  <2>5. Hearing(v, m, w)
    BY <1>m, <2>1, <2>r, <2>4 DEF Hearing
  <2> QED BY <1>w, <2>1, <2>4, <2>5
<1>4. CASE handle_diplomacy_remove_clause(p)
  <2> DEFINE r == remove_clause(v.clauses, m.clause)
             w == [v EXCEPT !.clauses = r]
  <2>1. Hears(p, "remove") /\ view' = [view EXCEPT ![p] = w]
    BY <1>0, <1>4 DEF handle_diplomacy_remove_clause, MeetInv, MeetTypes
  <2>3. r \in Seq(Clause) /\ r = remove_clause(v.clauses, m.clause)
    BY <1>v, ClauseRemoved
  <2> HIDE DEF r
  <2>4. w \in Wide /\ w.clauses = r /\ w.dialogs = v.dialogs /\ w.thumbs = v.thumbs
    BY <1>0, <1>v, <2>3 DEF Seen
  <2> HIDE DEF w, v, m, Wide
  <2>5. Hearing(v, m, w)
    BY <1>m, <2>1, <2>3, <2>4 DEF Hearing
  <2> QED BY <1>w, <2>1, <2>4, <2>5
<1>5. CASE handle_diplomacy_accept_treaty(p)
  <2> DEFINE w == accept_treaty(v, m.accepted)
  <2>1. Hears(p, "accept") /\ view' = [view EXCEPT ![p] = w]
    BY <1>0, <1>5 DEF handle_diplomacy_accept_treaty, MeetInv, MeetTypes
  <2>2. m.accepted \in [Party -> BOOLEAN] /\ m.ask = "accept"
    BY <1>m, <2>1 DEF ToldPackets
  <2>3. CASE \A q \in Party : m.accepted[q]
    <3>1. w = cancel_meeting(v)
      BY <2>3 DEF accept_treaty
    <3>2. w \in Wide /\ w.clauses = <<>> /\ w.dialogs = 0 /\ w.thumbs = v.thumbs
      BY <1>0, <1>v, <3>1, CancelledView
    <3> HIDE DEF w, v, m, Wide
    <3>3. Hearing(v, m, w)
      BY <2>2, <2>3, <3>2 DEF Hearing
    <3> QED BY <1>w, <2>1, <3>2, <3>3
  <2>4. CASE ~(\A q \in Party : m.accepted[q])
    <3> DEFINE h == IF v.dialogs > 0 THEN m.accepted ELSE v.thumbs
    <3>0. h \in [Party -> BOOLEAN] /\ h = IF v.dialogs > 0 THEN m.accepted ELSE v.thumbs
      BY <1>v, <2>2
    <3>1. w = [v EXCEPT !.thumbs = h]
      BY <2>4 DEF accept_treaty
    <3> HIDE DEF h
    <3>2. w \in Wide /\ w.clauses = v.clauses /\ w.dialogs = v.dialogs /\ w.thumbs = h
      BY <1>0, <1>v, <3>0, <3>1 DEF Seen
    <3> HIDE DEF w, v, m, Wide
    <3>3. Hearing(v, m, w)
      BY <2>2, <2>4, <3>0, <3>2 DEF Hearing
    <3> QED BY <1>w, <2>1, <3>2, <3>3
  <2> QED BY <2>3, <2>4
<1>6. CASE handle_end_turn(p)
  <2> DEFINE w == [v EXCEPT !.dialogs = 0, !.hidden = FALSE]
  <2>1. Hears(p, "end_turn") /\ view' = [view EXCEPT ![p] = w]
    BY <1>0, <1>6 DEF handle_end_turn, MeetInv, MeetTypes
  <2>d. 0 \in Int /\ FALSE \in BOOLEAN
    OBVIOUS
  <2>a. w \in Wide
    BY <1>0, <1>v, <2>d DEF Seen
  <2>b. w.clauses = v.clauses /\ w.dialogs = 0 /\ w.thumbs = v.thumbs
    BY <1>0 DEF Seen
  <2>2. w \in Wide /\ w.clauses = v.clauses /\ w.dialogs = 0 /\ w.thumbs = v.thumbs
    BY <2>a, <2>b
  <2> HIDE DEF w, v, m, Wide
  <2>3. Hearing(v, m, w)
    BY <1>m, <2>1, <2>2 DEF Hearing
  <2> QED BY <1>w, <2>1, <2>2, <2>3
<1> QED BY <1>1, <1>2, <1>3, <1>4, <1>5, <1>6

LEMMA MeetStep == MeetInv /\ [Next_diplomacy]_meetVars => MeetInv'
<1> SUFFICES ASSUME MeetInv, [Next_diplomacy]_meetVars PROVE MeetInv'
  OBVIOUS
<1>1. CASE UNCHANGED meetVars
  BY <1>1 DEF meetVars, MeetInv, MeetTypes, TreatyOK
<1>2. CASE EndTurn
  BY <1>2, TurnEnds
<1>3. ASSUME NEW p \in Party,
             \/ diplomacy_init_meeting_req(p) \/ accept_treaty_req(p) \/ cancel_meeting_req(p)
             \/ create_clause_req(p) \/ meeting_gold_change_req(p) \/ remove_clause_req(p)
      PROVE  MeetInv'
  BY <1>3, RequestsKeep
<1>4. ASSUME NEW p \in Party,
             \/ handle_diplomacy_init_meeting_req(p) \/ handle_diplomacy_cancel_meeting_req(p)
             \/ handle_diplomacy_remove_clause_req(p) \/ handle_diplomacy_create_clause_req(p)
             \/ handle_diplomacy_accept_treaty_req(p)
      PROVE  MeetInv'
  BY <1>4, InitAnswered, CancelAnswered, RemoveAnswered, CreateAnswered, AcceptAnswered
<1>5. ASSUME NEW p \in Party, Rejoin(p) PROVE MeetInv'
  BY <1>5, RejoinKeeps
<1>6. ASSUME NEW p \in Party,
             \/ handle_diplomacy_init_meeting(p) \/ handle_diplomacy_cancel_meeting(p)
             \/ handle_diplomacy_create_clause(p) \/ handle_diplomacy_remove_clause(p)
             \/ handle_diplomacy_accept_treaty(p) \/ handle_end_turn(p)
      PROVE  MeetInv'
  BY <1>6, ClientsKeep
<1> QED BY <1>1, <1>2, <1>3, <1>4, <1>5, <1>6 DEF Next_diplomacy

LEMMA MeetBegins == Init_diplomacy => MeetInv
<1> SUFFICES ASSUME Init_diplomacy PROVE MeetInv
  OBVIOUS
<1> DEFINE e == <<>>
<1>1. PICK n \in {0, 1} : /\ view = [p \in Party |-> [NoMeeting EXCEPT !.dialogs = n]]
                          /\ treaty = [NoTreaty EXCEPT !.open = (n = 1)]
  BY DEF Init_diplomacy
<1>2. asks = [p \in Party |-> e] /\ told = [p \in Party |-> e] /\ reqs = 0
  BY DEF Init_diplomacy
<1>3. e \in Seq(AskPackets) /\ e \in Seq(ToldPackets) /\ e = <<>>
  OBVIOUS
<1> HIDE DEF e
<1>4. asks \in [Party -> Seq(AskPackets)] /\ told \in [Party -> Seq(ToldPackets)] /\ reqs \in 0..MaxReqs
  BY <1>2, <1>3, MeetAssumption
<1> DEFINE v == [NoMeeting EXCEPT !.dialogs = n]
<1>5. v \in Seen /\ v.clauses = NoMeeting.clauses /\ v.dialogs = n /\ v.thumbs = NoMeeting.thumbs
  BY NoMeetingIs DEF Seen
<1>6. /\ treaty \in Treaties /\ treaty.clauses = NoTreaty.clauses /\ treaty.accepted = NoTreaty.accepted
      /\ (treaty.open <=> n = 1)
  <2>1. CASE n = 1
    <3>1. treaty = [NoTreaty EXCEPT !.open = TRUE]
      BY <1>1, <2>1
    <3> QED BY <2>1, <3>1, NoTreatyOK DEF Treaties
  <2>2. CASE n # 1
    <3>1. treaty = [NoTreaty EXCEPT !.open = FALSE]
      BY <1>1, <2>2
    <3> QED BY <2>2, <3>1, NoTreatyOK DEF Treaties
  <2> QED BY <2>1, <2>2
<1> HIDE DEF v
<1>7. view \in [Party -> Seen] /\ \A p \in Party : view[p] = v
  BY <1>1, <1>5 DEF v
<1>8. Agrees(v, treaty)
  <2>1. v.clauses = <<>> /\ treaty.clauses = <<>>
    BY <1>5, <1>6, NoMeetingIs, NoTreatyOK
  <2>2. \A q \in Party : ~treaty.accepted[q]
    BY <1>6, NoTreatyOK DEF NoThumbs
  <2>3. CASE treaty.open
    BY <2>1, <2>2, <2>3, EmptyIsTold DEF Agrees
  <2>4. CASE ~treaty.open
    BY <1>5, <1>6, <2>1, <2>2, <2>4 DEF Agrees
  <2> QED BY <2>3, <2>4
<1>9. TreatyOK
  <2>1. Alone(treaty.clauses)
    BY <1>6, NoTreatyOK
  <2>2. PICK q \in Party : TRUE
    BY MeetAssumption
  <2>3. ~treaty.accepted[q]
    BY <1>6, NoTreatyOK DEF NoThumbs
  <2> QED BY <2>1, <2>2, <2>3 DEF TreatyOK
<1>10. ASSUME NEW p \in Party PROVE WillAgree(view[p], told[p], treaty)
  BY <1>2, <1>3, <1>5, <1>7, <1>8, AtOnce
<1> QED BY <1>4, <1>6, <1>7, <1>9, <1>10 DEF MeetInv, MeetTypes

LEMMA MeetImplies == MeetInv => MeetingShown
<1> SUFFICES ASSUME MeetInv PROVE MeetingShown
  OBVIOUS
<1>0. /\ view \in [Party -> Seen] /\ treaty \in Treaties /\ reqs \in 0..MaxReqs
      /\ \A p \in Party : WillAgree(view[p], told[p], treaty)
  BY DEF MeetInv, MeetTypes
<1>1. ASSUME NEW p \in Party, told[p] = <<>> PROVE Agrees(view[p], treaty)
  BY <1>0, <1>1 DEF WillAgree, Follows
<1>2. MeetTypeOK
  BY <1>0, <1>1 DEF MeetTypeOK, Seen, Treaties, Agrees
<1>3. NothingHidden
  BY <1>1 DEF NothingHidden, Agrees, Says
<1>4. AcceptanceShown
  BY <1>1 DEF AcceptanceShown, Agrees
<1> QED BY <1>2, <1>3, <1>4 DEF MeetingShown

\* What a player agrees to is what he sees.
THEOREM WhatIsAgreedIsShown == MeetSpec => []MeetingShown
<1>1. MeetSpec => []MeetInv
  BY MeetBegins, MeetStep, PTL DEF MeetSpec
<1> QED BY <1>1, MeetImplies, PTL
=============================================================================
