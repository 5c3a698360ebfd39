--------------------------- MODULE Trading_proofs ---------------------------
(* Proofs about Trading, for any bots, groups, limits and pools, and however *)
(* often pool and limit move.                                                *)
EXTENDS Trading, TLAPS

-----------------------------------------------------------------------------
(* The arithmetic of the impact check.                                       *)

LEMMA DivBounds ==
  \A a \in Nat, b \in Nat \ {0} :
    /\ a \div b \in Nat
    /\ (a \div b) * b <= a
    /\ a < ((a \div b) + 1) * b
OBVIOUS

LEMMA ProductNat == \A a, b \in Nat : a * b \in Nat
OBVIOUS

LEMMA NotMore == \A x, r, R, d \in Nat : r > 0 /\ R > 0 => ~((R + d) * (r + x) <= x * R)
BY SMT

LEMMA Scale == \A a, b, k \in Nat : a <= b => a * k <= b * k
OBVIOUS

\* An impact of at most 15% means an output of 84.99% of the marginal one.
LEMMA ShallowOutput ==
  ASSUME NEW in \in Nat, in > Negligible, NEW out \in Nat, NEW outSmall \in Nat,
         Marginal(in, outSmall) \in Nat \ {0}, ImpactBps(in, out, outSmall) <= 1500
  PROVE  8499 * Marginal(in, outSmall) < 10000 * out
<1> DEFINE m == Marginal(in, outSmall)
           d == Distance(m, out)
<1>1. m \in Nat \ {0} /\ d \in Nat /\ (m > out => d = m - out)
  BY DEF Distance
<1>2. ImpactBps(in, out, outSmall) = Least(10000, (d * 10000) \div m)
  BY <1>1 DEF ImpactBps, BPS, Negligible
<1> HIDE DEF m, d
<1>3. d * 10000 \in Nat
  BY <1>1
<1>4. (d * 10000) \div m \in Nat /\ d * 10000 < (((d * 10000) \div m) + 1) * m
  BY <1>1, <1>3, DivBounds
<1>5. (d * 10000) \div m <= 1500
  BY <1>2, <1>4 DEF Least
<1>6. (((d * 10000) \div m) + 1) * m <= 1501 * m
  BY <1>1, <1>4, <1>5, Scale
<1>7. d * 10000 < 1501 * m
  BY <1>1, <1>4, <1>6
<1>8. 8499 * m < 10000 * out
  BY <1>1, <1>7
<1>9. QED
  BY <1>8 DEF m

LEMMA ImpactInt ==
  ASSUME NEW in \in Nat, in > Negligible, NEW out \in Nat, NEW os \in Nat
  PROVE  ImpactBps(in, out, os) \in Int
<1>1. SmallIn(in) \in Nat \ {0}
  BY DEF SmallIn, Negligible
<1>2. Marginal(in, os) \in Nat
  BY <1>1, ProductNat, DivBounds DEF Marginal
<1>3. CASE Marginal(in, os) = 0
  BY <1>3 DEF ImpactBps
<1>4. CASE Marginal(in, os) # 0
  <2> DEFINE m == Marginal(in, os)
  <2>1. m \in Nat \ {0} /\ Distance(m, out) * 10000 \in Nat
    BY <1>2, <1>4 DEF Distance
  <2>2. (Distance(m, out) * 10000) \div m \in Nat
    BY <2>1, DivBounds
  <2>3. ImpactBps(in, out, os) = Least(10000, (Distance(m, out) * 10000) \div m)
    BY <1>4 DEF ImpactBps, BPS, Negligible
  <2>4. QED
    BY <2>2, <2>3 DEF Least
<1>5. QED
  BY <1>3, <1>4

\* The inequality behind it: s is the small amount, os its quote, m the marginal
\* output and out the real one, each given by its bounds.
Bounds(x, r, R, s, os, m, out) ==
  /\ r > 0 /\ R > 0 /\ s > 0 /\ os >= 100
  /\ 100 * s <= x
  /\ s * R < (os + 1) * (r + s)
  /\ out * (r + x) <= x * R
  /\ os * x < (m + 1) * s
  /\ m >= 10000 => 8499 * m < 10000 * out

LEMMA ShallowArithmetic ==
  \A x, r, R, s, os, m, out \in Nat :
    Bounds(x, r, R, s, os, m, out) => KeepsPrice(x, r, R, out)
<1> TAKE x, r, R, s, os, m, out \in Nat
<1>p. PICK p \in Nat : p = r + s
  OBVIOUS
<1>q. PICK q \in Nat : q = r + x
  OBVIOUS
<1>a. SUFFICES ASSUME r > 0, R > 0, s > 0, os >= 100,
                      100 * s <= x,
                      s * R < (os + 1) * p,
                      out * q <= x * R,
                      os * x < (m + 1) * s,
                      m >= 10000 => 8499 * m < 10000 * out
               PROVE  6 * (out * r) >= 5 * (R * x)
  BY SMT, <1>p, <1>q DEF Bounds, KeepsPrice
<1>b. r > 0 /\ R > 0 /\ s > 0 /\ x > 0 /\ p > 0 /\ q > 0
  BY SMT, <1>a, <1>p, <1>q
<1>c. os >= 100
  BY <1>a
<1>1. m >= 10000
  <2>1. 100 * x <= os * x
    BY SMT, <1>c
  <2>2. 100 * s <= x /\ os * x < (m + 1) * s
    BY <1>a
  <2>3. 10000 * s < (m + 1) * s
    BY SMT, <2>1, <2>2
  <2>4. QED
    BY SMT, <2>3
<1>2. 10000 * (os * x) < 10001 * (m * s)
  <2>1. 10000 * ((m + 1) * s) <= 10001 * (m * s)
    BY SMT, <1>1
  <2>2. os * x < (m + 1) * s
    BY <1>a
  <2>3. QED
    BY SMT, <2>1, <2>2
<1>3. 100 * (s * R) < 101 * (os * p)
  <2>1. 100 * ((os + 1) * p) <= 101 * (os * p)
    BY SMT, <1>c
  <2>2. s * R < (os + 1) * p
    BY <1>a
  <2>3. QED
    BY SMT, <2>1, <2>2
<1>4. 8499 * (os * x) < 10001 * (out * s)
  <2>1. 8499 * m < 10000 * out
    BY SMT, <1>a, <1>1
  <2>2. 8499 * (m * s) < 10000 * (out * s)
    BY SMT, <1>b, <2>1
  <2>3. QED
    BY SMT, <1>2, <2>2
<1>5. 849900 * (R * x) < 1010101 * (out * p)
  <2>1. 8499 * (os * x * p) < 10001 * (out * s * p)
    BY SMT, <1>b, <1>4
  <2>2. 100 * (s * R * x) < 101 * (os * p * x)
    BY SMT, <1>b, <1>3
  <2>3. 849900 * ((R * x) * s) < 1010101 * ((out * p) * s)
    BY SMT, <2>1, <2>2
  <2>4. QED
    BY SMT, <2>3
<1>6. 849900 * q < 1010101 * p
  <2>1. 849900 * (R * x * q) < 1010101 * (out * p * q)
    BY SMT, <1>b, <1>5
  <2>2. out * q <= x * R
    BY <1>a
  <2>3. out * q * p <= x * R * p
    BY SMT, <2>2
  <2>4. 849900 * (q * (R * x)) < 1010101 * (p * (R * x))
    BY SMT, <2>1, <2>3
  <2>5. QED
    BY SMT, <2>4
<1>7. 500 * p <= 501 * r
  <2>1. 100 * s <= x /\ p = r + s /\ q = r + x
    BY <1>a, <1>p, <1>q
  <2>2. QED
    BY SMT, <1>6, <2>1
<1>8. 500 * (out * p) <= 501 * (out * r)
  BY SMT, <1>7
<1>9. QED
  BY SMT, <1>5, <1>8

\* A swap of a constant-product pool with reserves r and R that the check lets
\* pass, judged by a small quote of at least Telling, keeps five sixths of R / r.
LEMMA ShallowKeepsPrice ==
  ASSUME NEW x \in Nat, NEW r \in Nat \ {0}, NEW R \in Nat \ {0}, NEW os, NEW out
  PROVE  /\ x > Negligible /\ os >= 100
         /\ os = (SmallIn(x) * R) \div (r + SmallIn(x)) /\ out = (x * R) \div (r + x)
         /\ ImpactBps(x, out, os) <= 1500
         => KeepsPrice(x, r, R, out)
<1>a. SUFFICES ASSUME x > Negligible, os >= 100,
                      os = (SmallIn(x) * R) \div (r + SmallIn(x)),
                      out = (x * R) \div (r + x),
                      ImpactBps(x, out, os) <= 1500
               PROVE  KeepsPrice(x, r, R, out)
  OBVIOUS
<1> DEFINE s == SmallIn(x)
           m == Marginal(x, os)
<1>1. s \in Nat /\ s > 0 /\ 100 * s <= x
  BY <1>a DEF SmallIn, Negligible
<1>2. m = (os * x) \div s
  BY DEF Marginal
<1>3. os = (s * R) \div (r + s) /\ out = (x * R) \div (r + x)
  BY <1>a
<1> HIDE DEF s, m
<1>5. os \in Nat /\ s * R < (os + 1) * (r + s)
  <2>1. s * R \in Nat /\ r + s \in Nat \ {0}
    BY <1>1, ProductNat
  <2>2. QED
    BY <1>3, <2>1, DivBounds
<1>6. out \in Nat /\ out * (r + x) <= x * R
  <2>1. x * R \in Nat /\ r + x \in Nat \ {0}
    BY ProductNat
  <2>2. QED
    BY <1>3, <2>1, DivBounds
<1>7. m \in Nat /\ os * x < (m + 1) * s
  <2>1. os * x \in Nat /\ s \in Nat \ {0}
    BY <1>1, <1>5, ProductNat
  <2>2. QED
    BY <1>2, <2>1, DivBounds
<1>8. m >= 10000 => 8499 * m < 10000 * out
  <2>1. m \in Nat \ {0} => 8499 * m < 10000 * out
    BY <1>a, <1>5, <1>6, ShallowOutput DEF m
  <2>2. QED
    BY SMT, <1>7, <2>1
<1>9. Bounds(x, r, R, s, os, m, out)
  <2>1. os >= 100
    BY <1>a
  <2>2. QED
    BY SMT, <1>1, <1>5, <1>6, <1>7, <1>8, <2>1 DEF Bounds
<1>10. x \in Nat /\ r \in Nat /\ R \in Nat /\ s \in Nat /\ os \in Nat /\ m \in Nat /\ out \in Nat
  BY <1>1, <1>5, <1>6, <1>7
<1>11. QED
  BY <1>9, <1>10, ShallowArithmetic

-----------------------------------------------------------------------------
(* What the strategy generates.                                              *)

USE TradingOK DEF TradingOK

LEMMA AmountsNat == \A b \in Bots : Amounts(b) \subseteq Nat
BY DEF Amounts, AmountRange

LEMMA TurnSides == \A i \in Int : Turn(i) \in {"buy", "sell"}
BY DEF Turn

\* A wallet acts only in a turn whose side is enabled.
LEMMA ActingEnabled ==
  ASSUME NEW b \in Bots, b.buy \/ b.sell, NEW k \in Nat
  PROVE  Acting(b, k) \in Int /\ Enabled(b, Turn(Acting(b, k)))
<1>1. CASE b.buy /\ b.sell
  BY <1>1 DEF Acting, Enabled, Turn
<1>2. CASE b.buy /\ ~b.sell
  <2>1. Acting(b, k) = 2 * k - 1 /\ (2 * k - 1) % 2 = 1
    BY <1>2 DEF Acting
  <2>2. QED
    BY <1>2, <2>1 DEF Enabled, Turn
<1>3. CASE ~b.buy
  <2>1. Acting(b, k) = 2 * k /\ (2 * k) % 2 # 1
    BY <1>3 DEF Acting
  <2>2. b.sell
    BY <1>3
  <2>3. QED
    BY <2>1, <2>2 DEF Enabled, Turn
<1>4. QED
  BY <1>1, <1>2, <1>3

LEMMA TurnsAlternate ==
  /\ \A i \in Nat : Turn(i) # Turn(i + 1)
  /\ Turn(1) = "buy"
BY DEF Turn

LEMMA ActorsNat ==
  ASSUME NEW b \in Bots, NEW n \in Nat
  PROVE  Actors(b, n) \in Nat /\ (Actors(b, n) > 0 => b.buy \/ b.sell)
<1>1. (n + 1) \div 2 \in Nat /\ n \div 2 \in Nat
  OBVIOUS
<1>2. QED
  BY <1>1 DEF Actors

\* Every list the strategy may return, for every bot and group.
AsConfigured(b, q) ==
  /\ q \in Seq(IntentType)
  /\ \A i \in DOMAIN q : Enabled(b, q[i].side) /\ q[i].amount \in Amounts(b)

LEMMA SmoothConfigured ==
  ASSUME NEW b \in Bots, NEW n \in Nat, NEW side \in {"buy", "sell"}, NEW q \in Smooth(b, n, side)
  PROVE  AsConfigured(b, q)
<1>1. CASE ~Enabled(b, side) \/ n = 0
  <2>1. q = <<>>
    BY <1>1 DEF Smooth
  <2>2. QED
    BY <2>1 DEF AsConfigured
<1>2. CASE Enabled(b, side) /\ n # 0
  <2> DEFINE S == {<<Intent(w, side, a)>> : w \in 1..n, a \in Amounts(b)}
  <2>a. Smooth(b, n, side) = IF ~Enabled(b, side) \/ n = 0 THEN {<<>>} ELSE S
    BY DEF Smooth
  <2> HIDE DEF S
  <2>b. Smooth(b, n, side) = S
    BY <1>2, <2>a
  <2>0. q \in S
    BY <2>b
  <2>1. PICK w \in 1..n, a \in Amounts(b) : q = <<Intent(w, side, a)>>
    BY <2>0 DEF S
  <2>2. Intent(w, side, a) \in IntentType
    BY AmountsNat DEF Intent, IntentType
  <2>3. QED
    BY <1>2, <2>1, <2>2 DEF AsConfigured, Intent
<1>3. QED
  BY <1>1, <1>2

LEMMA VolumeConfigured ==
  ASSUME NEW b \in Bots, NEW n \in Nat, NEW q \in VolumeCycle(b, n)
  PROVE  /\ AsConfigured(b, q)
         /\ b.buy /\ b.sell => /\ Alternates(q)
                               /\ q # <<>> => Head(q).side = "buy"
<1> DEFINE m == Actors(b, n)
<1>1. m \in Nat /\ (m > 0 => b.buy \/ b.sell)
  BY ActorsNat
<1>2. PICK a \in [1..m -> Amounts(b)] :
        q = [k \in 1..m |-> Intent(Acting(b, k), Turn(Acting(b, k)), a[k])]
  BY DEF VolumeCycle
<1> HIDE DEF m
<1>3. ASSUME NEW k \in 1..m
      PROVE  /\ q[k] = Intent(Acting(b, k), Turn(Acting(b, k)), a[k])
             /\ q[k] \in IntentType
             /\ Enabled(b, q[k].side) /\ q[k].amount \in Amounts(b)
  <2>1. Acting(b, k) \in Int /\ Enabled(b, Turn(Acting(b, k)))
    BY <1>1, ActingEnabled
  <2>2. Turn(Acting(b, k)) \in {"buy", "sell"}
    BY <2>1, TurnSides
  <2>3. a[k] \in Amounts(b) /\ a[k] \in Nat
    BY <1>2, AmountsNat
  <2>4. q[k] = Intent(Acting(b, k), Turn(Acting(b, k)), a[k])
    BY <1>2
  <2>5. QED
    BY <2>1, <2>2, <2>3, <2>4 DEF Intent, IntentType
<1>4. q \in Seq(IntentType) /\ Len(q) = m /\ DOMAIN q = 1..m
  BY <1>1, <1>2, <1>3
<1>5. AsConfigured(b, q)
  BY <1>3, <1>4 DEF AsConfigured
<1>6. ASSUME b.buy, b.sell
      PROVE  Alternates(q) /\ (q # <<>> => Head(q).side = "buy")
  <2>1. ASSUME NEW k \in 1..m
        PROVE  q[k].side = Turn(k)
    <3>1. Acting(b, k) = k
      BY <1>6 DEF Acting
    <3>2. q[k] = Intent(k, Turn(k), a[k])
      BY <1>3, <3>1
    <3>3. QED
      BY <3>2 DEF Intent
  <2>2. ASSUME NEW i \in 1 .. m - 1
        PROVE  q[i].side # q[i + 1].side
    <3>1. i \in 1..m /\ i + 1 \in 1..m /\ i \in Nat
      BY <1>1
    <3>2. q[i].side = Turn(i)
      BY <2>1, <3>1
    <3>3. q[i + 1].side = Turn(i + 1)
      BY <2>1, <3>1
    <3>4. QED
      BY <3>1, <3>2, <3>3, TurnsAlternate
  <2>3. q # <<>> => 1 \in 1..m /\ Head(q) = q[1]
    BY <1>1, <1>4
  <2>4. Alternates(q)
    BY <1>4, <2>2 DEF Alternates
  <2>5. QED
    BY <2>1, <2>3, <2>4, TurnsAlternate
<1>7. QED
  BY <1>5, <1>6

LEMMA GeneratedConfigured ==
  ASSUME NEW b \in Bots, NEW n \in Nat, NEW q \in Generated(b, n)
  PROVE  /\ AsConfigured(b, q)
         /\ b.strategy = "volume_cycle" /\ b.buy /\ b.sell
              => Alternates(q) /\ (q # <<>> => Head(q).side = "buy")
<1>1. CASE b.strategy = "smooth_buy"
  BY <1>1, SmoothConfigured DEF Generated
<1>2. CASE b.strategy = "smooth_sell"
  BY <1>2, SmoothConfigured DEF Generated
<1>3. CASE b.strategy \notin {"smooth_buy", "smooth_sell"}
  BY <1>3, VolumeConfigured DEF Generated
<1>4. QED
  BY <1>1, <1>2, <1>3

\* The worker's slice of that list.
LEMMA SliceConfigured ==
  ASSUME NEW b \in Bots, NEW q, AsConfigured(b, q), NEW m \in 0..Len(q)
  PROVE  /\ AsConfigured(b, SubSeq(q, 1, m))
         /\ Alternates(q) => Alternates(SubSeq(q, 1, m))
         /\ SubSeq(q, 1, m) # <<>> => q # <<>> /\ Head(SubSeq(q, 1, m)) = Head(q)
<1> DEFINE p == SubSeq(q, 1, m)
<1>1. q \in Seq(IntentType) /\ Len(q) \in Nat
  BY DEF AsConfigured
<1>2. p \in Seq(IntentType) /\ Len(p) = m /\ \A i \in 1..m : p[i] = q[i] /\ i \in DOMAIN q
  BY <1>1
<1> HIDE DEF p
<1>3. AsConfigured(b, p)
  BY <1>2 DEF AsConfigured
<1>4. ASSUME Alternates(q) PROVE Alternates(p)
  <2> SUFFICES ASSUME NEW i \in 1 .. Len(p) - 1 PROVE p[i].side # p[i + 1].side
    BY DEF Alternates
  <2>1. i \in 1 .. Len(q) - 1 /\ p[i] = q[i] /\ p[i + 1] = q[i + 1]
    BY <1>1, <1>2
  <2>2. QED
    BY <1>4, <2>1 DEF Alternates
<1>5. p # <<>> => q # <<>> /\ Head(p) = Head(q)
  BY <1>1, <1>2
<1>6. QED
  BY <1>3, <1>4, <1>5 DEF p

-----------------------------------------------------------------------------
(* The pool.                                                                 *)

LEMMA PoolsTyped == Pools \subseteq PoolType
<1> SUFFICES ASSUME NEW p \in Pools PROVE p \in PoolType
  OBVIOUS
<1>1. p = [base |-> p.base, quote |-> p.quote] /\ p.base \in Nat \ {0} /\ p.quote \in Nat \ {0}
  OBVIOUS
<1>2. QED
  BY <1>1 DEF PoolType

LEMMA ReservesPositive ==
  \A p \in PoolType : \A side :
    InReserve(p, side) \in Nat \ {0} /\ OutReserve(p, side) \in Nat \ {0}
BY DEF PoolType, InReserve, OutReserve

\* A pool pays less than it has.
LEMMA PaysLess ==
  ASSUME NEW p \in PoolType, NEW side, NEW x \in Nat
  PROVE  Pays(p, side, x) \in Nat /\ Pays(p, side, x) < OutReserve(p, side)
<1> DEFINE r == InReserve(p, side)
           R == OutReserve(p, side)
           q == Pays(p, side, x)
<1>1. r \in Nat \ {0} /\ R \in Nat \ {0}
  BY ReservesPositive
<1>2. q = (x * R) \div (r + x)
  BY DEF Pays
<1> HIDE DEF r, R, q
<1>3. q \in Nat /\ q * (r + x) <= x * R
  BY <1>1, <1>2, ProductNat, DivBounds
<1>4. q < R
  <2>1. ASSUME NEW d \in Nat, q = R + d PROVE FALSE
    <3>1. (R + d) * (r + x) <= x * R
      BY <1>3, <2>1
    <3>2. r \in Nat /\ R \in Nat /\ r > 0 /\ R > 0
      BY <1>1
    <3>3. QED
      BY <3>1, <3>2, NotMore
  <2>2. ~(q < R) => q - R \in Nat /\ q = R + (q - R)
    BY <1>1, <1>3
  <2>3. QED
    BY <2>1, <2>2
<1>5. QED
  BY <1>3, <1>4 DEF q, R

LEMMA AfterTyped ==
  ASSUME NEW p \in PoolType, NEW side, NEW x \in Nat
  PROVE  After(p, side, x, Pays(p, side, x)) \in PoolType
<1>1. Pays(p, side, x) \in Nat /\ Pays(p, side, x) < OutReserve(p, side)
  BY PaysLess
<1>2. QED
  BY <1>1 DEF After, OutReserve, PoolType

-----------------------------------------------------------------------------
(* The inductive invariant.                                                  *)

LEMMA InitIInv == Init => IInv
<1> SUFFICES ASSUME Init PROVE IInv
  OBVIOUS
<1>1. TypeOK
  <2>1. pool \in PoolType /\ built \in PoolType
    BY PoolsTyped DEF Init
  <2>2. QED
    BY <2>1 DEF Init, TypeOK, Pcs
<1>2. /\ IntentsAsConfigured /\ SpendsWithin /\ FloorsFromBuild /\ QuotesFresh
      /\ TurnsFollow
  BY DEF Init, IntentsAsConfigured, SpendsWithin, FloorsFromBuild, QuotesFresh, TurnsFollow,
         Alternates
<1>3. SwapsAsConfigured /\ FreshFloor /\ ImpactBounded /\ CycleBalanced
  BY DEF Init, SwapsAsConfigured, FreshFloor, ImpactBounded, CycleBalanced
<1>4. QED
  BY <1>1, <1>2, <1>3 DEF IInv

LEMMA BeginIInv == ASSUME IInv, Begin PROVE IInv'
<1>0. PICK b \in Bots, n \in 0..MaxWallets : \E intents \in Generated(b, n) :
        bot' = b /\ queue' = SubSeq(intents, 1, Least(b.concurrent, Len(intents)))
  BY DEF Begin
<1>1. PICK intents \in Generated(b, n) :
        bot' = b /\ queue' = SubSeq(intents, 1, Least(b.concurrent, Len(intents)))
  BY <1>0
<1>2. AsConfigured(b, intents) /\ Len(intents) \in Nat
  BY GeneratedConfigured DEF AsConfigured
<1>3. Least(b.concurrent, Len(intents)) \in 0..Len(intents)
  BY <1>2 DEF Least
<1>4. AsConfigured(bot', queue')
  BY <1>1, <1>2, <1>3, SliceConfigured
<1>5. bot'.strategy = "volume_cycle" /\ bot'.buy /\ bot'.sell
        => Alternates(queue') /\ (queue' # <<>> => Head(queue').side = "buy")
  BY <1>1, <1>2, <1>3, GeneratedConfigured, SliceConfigured
<1>6. /\ pc' = "next" /\ swaps' = {} /\ begun' = [buy |-> 0, sell |-> 0]
      /\ UNCHANGED <<intentVars, limit, highest>> /\ pool' \in PoolType
  BY PoolsTyped DEF Begin
<1>7. TypeOK'
  BY <1>1, <1>4, <1>6 DEF IInv, TypeOK, AsConfigured, Pcs, intentVars
<1>8. IntentsAsConfigured' /\ SpendsWithin' /\ FloorsFromBuild' /\ QuotesFresh'
  BY <1>4, <1>6 DEF IInv, IntentsAsConfigured, SpendsWithin, FloorsFromBuild, QuotesFresh,
                    AsConfigured
<1>9. TurnsFollow'
  BY <1>5, <1>6 DEF TurnsFollow, TwoSided, current
<1>10. SwapsAsConfigured' /\ FreshFloor' /\ ImpactBounded' /\ CycleBalanced'
  BY <1>6 DEF SwapsAsConfigured, FreshFloor, ImpactBounded, CycleBalanced
<1>11. QED
  BY <1>7, <1>8, <1>9, <1>10 DEF IInv

LEMMA StartIntentIInv == ASSUME IInv, StartIntent PROVE IInv'
<1>1. /\ pc = "next" /\ queue # <<>> /\ current = Head(queue)
      /\ begun' = [begun EXCEPT ![current.side] = @ + 1] /\ highest' = limit
      /\ UNCHANGED <<bot, intentVars, swaps, limit, pool>>
      /\ \/ pc' = "cap" /\ queue' = queue
         \/ pc' = "next" /\ queue' = <<>>
  BY DEF StartIntent, current, world
<1>2. current \in IntentType
  BY <1>1 DEF IInv, TypeOK
<1>3. TypeOK'
  <2>1. begun' \in [buy : Nat, sell : Nat]
    <3>1. current.side \in {"buy", "sell"}
      BY <1>2 DEF IntentType
    <3>2. begun \in [buy : Nat, sell : Nat]
      BY DEF IInv, TypeOK
    <3>3. QED
      BY <1>1, <3>1, <3>2
  <2>2. highest' \in Nat
    <3>1. limit \in Limits
      BY DEF IInv, TypeOK
    <3>2. QED
      BY <1>1, <3>1
  <2>3. queue' \in Seq(IntentType)
    <3>1. CASE queue' = queue
      BY <3>1 DEF IInv, TypeOK
    <3>2. CASE queue' = <<>>
      BY <3>2
    <3>3. QED
      BY <1>1, <3>1, <3>2
  <2>4. QED
    BY <1>1, <2>1, <2>2, <2>3 DEF IInv, TypeOK, intentVars, Pcs
<1>4. IntentsAsConfigured' /\ SpendsWithin' /\ FloorsFromBuild' /\ QuotesFresh'
  <2>1. IntentsAsConfigured'
    BY <1>1 DEF IInv, IntentsAsConfigured
  <2>2. SpendsWithin'
    BY <1>1, <1>3 DEF TypeOK, SpendsWithin
  <2>3. FloorsFromBuild'
    BY <1>1 DEF IInv, FloorsFromBuild
  <2>4. QuotesFresh'
    BY <1>1 DEF QuotesFresh
  <2>5. QED
    BY <2>1, <2>2, <2>3, <2>4
<1>5. TurnsFollow' /\ CycleBalanced'
  <2> SUFFICES ASSUME TwoSided PROVE TurnsFollow' /\ CycleBalanced'
    BY <1>1 DEF TurnsFollow, CycleBalanced, TwoSided
  <2>1. /\ Alternates(queue) /\ ((current.side = "buy") <=> (begun.buy = begun.sell))
        /\ begun.buy - begun.sell \in {0, 1}
    BY <1>1 DEF IInv, TurnsFollow, CycleBalanced, TwoSided
  <2>2. CASE current.side = "buy"
    <3>1. begun'.buy = begun.buy + 1 /\ begun'.sell = begun.sell
      BY <1>1, <2>2 DEF IInv, TypeOK
    <3>2. begun'.buy - begun'.sell = 1 /\ begun'.buy # begun'.sell
      BY <2>1, <2>2, <3>1 DEF IInv, TypeOK
    <3>3. QED
      BY <1>1, <2>1, <2>2, <3>2 DEF TurnsFollow, CycleBalanced, Alternates, current
  <2>3. CASE current.side # "buy"
    <3>1. begun'.sell = begun.sell + 1 /\ begun'.buy = begun.buy
      BY <1>1, <1>2, <2>3 DEF IInv, TypeOK, IntentType
    <3>2. begun'.buy - begun'.sell = 0 /\ begun'.buy = begun'.sell
      BY <2>1, <2>3, <3>1 DEF IInv, TypeOK
    <3>3. QED
      BY <1>1, <2>1, <2>3, <3>2 DEF TurnsFollow, CycleBalanced, Alternates, current
  <2>4. QED
    BY <2>2, <2>3
<1>6. SwapsAsConfigured' /\ FreshFloor' /\ ImpactBounded'
  BY <1>1 DEF IInv, SwapsAsConfigured, FreshFloor, ImpactBounded
<1>7. QED
  BY <1>3, <1>4, <1>5, <1>6 DEF IInv

LEMMA EndCycleIInv == ASSUME IInv, EndCycle PROVE IInv'
<1>1. /\ pc' = "idle" /\ queue' = <<>>
      /\ UNCHANGED <<queue, bot, amount, built, pool, limit, highest, begun, swaps>>
  BY DEF EndCycle, Goto, Outside, intentVars, world
<1>2. TypeOK'
  BY <1>1 DEF IInv, TypeOK, Pcs
<1>3. /\ IntentsAsConfigured' /\ SpendsWithin' /\ FloorsFromBuild' /\ QuotesFresh'
      /\ TurnsFollow'
  BY <1>1 DEF IInv, IntentsAsConfigured, SpendsWithin, FloorsFromBuild, QuotesFresh, TurnsFollow,
              TwoSided
<1>4. SwapsAsConfigured' /\ FreshFloor' /\ ImpactBounded' /\ CycleBalanced'
  BY <1>1 DEF IInv, SwapsAsConfigured, FreshFloor, ImpactBounded, CycleBalanced
<1>5. QED
  BY <1>2, <1>3, <1>4 DEF IInv

\* A step of an intent that goes on.
Underway == Pcs \ {"idle", "next", "cap"}

LEMMA AdvanceIInv ==
  ASSUME IInv, Local, pc \notin {"idle", "next"}, pc' \in Underway,
         built' \in PoolType, QuotesFresh',
         amount' \in Nat, Within(amount'),
         pc' \in {"estimate", "fees", "send"}
           => floor' = MinOut(Pays(built', current.side, amount'), bot.slippage)
  PROVE  IInv'
<1>1. UNCHANGED <<queue, bot, pool, limit, highest, begun, swaps>>
  BY DEF Local, Outside, world
<1>2. current' = current /\ QuoteSpend' = QuoteSpend
  BY <1>1 DEF current, QuoteSpend, NativePath, TokenIn
<1>3. TypeOK'
  BY <1>1 DEF IInv, TypeOK, Underway
<1>4. IntentsAsConfigured' /\ SpendsWithin'
  BY <1>1, <1>2 DEF IInv, IntentsAsConfigured, SpendsWithin, Within, Underway
<1>5. FloorsFromBuild'
  BY <1>1, <1>2 DEF IInv, FloorsFromBuild
<1>6. TurnsFollow'
  BY <1>1, <1>2 DEF IInv, TurnsFollow, TwoSided, Underway
<1>7. SwapsAsConfigured' /\ FreshFloor' /\ ImpactBounded' /\ CycleBalanced'
  BY <1>1 DEF IInv, SwapsAsConfigured, FreshFloor, ImpactBounded, CycleBalanced
<1>8. QED
  BY <1>3, <1>4, <1>5, <1>6, <1>7 DEF IInv

\* What is broadcast has passed the check of its impact, on the pool it was
\* built on when that has not moved.
Shallow(s) ==
  /\ s.calm /\ s.in > Negligible
  /\ Pays(s.built, s.side, SmallIn(s.in)) >= Telling
  => KeepsPrice(s.in, InReserve(s.built, s.side), OutReserve(s.built, s.side),
                Pays(s.built, s.side, s.in))

LEMMA SendShallow == ASSUME IInv, pc = "send" PROVE Shallow(Swap)
<1> DEFINE side == current.side
           r == InReserve(pool, side)
           R == OutReserve(pool, side)
           os == Pays(pool, side, SmallIn(amount))
           out == Pays(pool, side, amount)
<1>0. SUFFICES ASSUME calm, amount > Negligible, Pays(built, side, SmallIn(amount)) >= Telling
               PROVE  KeepsPrice(amount, InReserve(built, side), OutReserve(built, side),
                                 Pays(built, side, amount))
  BY DEF Shallow, Swap
<1>1. amount \in Nat /\ r \in Nat \ {0} /\ R \in Nat \ {0}
  BY ReservesPositive DEF IInv, TypeOK
<1>2. built = pool /\ quoted = out /\ small = os /\ ~TooDeep
  BY <1>0 DEF IInv, QuotesFresh
<1>3. os \in Nat /\ out \in Nat
  <2>1. SmallIn(amount) \in Nat
    BY <1>1 DEF SmallIn, Negligible
  <2>2. QED
    BY <1>1, <2>1, PaysLess DEF IInv, TypeOK
<1>4. os = (SmallIn(amount) * R) \div (r + SmallIn(amount)) /\ out = (amount * R) \div (r + amount)
  BY DEF Pays
<1>5. os >= 100
  BY <1>0, <1>2 DEF Telling
<1>6. ImpactBps(amount, out, os) <= 1500
  <2>1. ~(ImpactBps(amount, out, os) > 1500)
    BY <1>2 DEF TooDeep, MaxImpact
  <2>2. ImpactBps(amount, out, os) \in Int
    BY <1>0, <1>1, <1>3, ImpactInt
  <2>3. QED
    BY <2>1, <2>2
<1>7. KeepsPrice(amount, r, R, out)
  <2> HIDE DEF r, R, os, out
  <2>1. QED
    BY <1>0, <1>1, <1>4, <1>5, <1>6, ShallowKeepsPrice
<1>8. QED
  BY <1>2, <1>7

\* An intent that ends, with the swap it has broadcast or without one.
LEMMA DropIInv ==
  ASSUME IInv, pc \notin {"idle", "next"}, Drop, Outside,
         \/ swaps' = swaps
         \/ (pc = "send" /\ swaps' = swaps \union {Swap})
  PROVE  IInv'
<1>1. /\ pc' = "next" /\ queue' = Tail(queue) /\ amount' = 0
      /\ UNCHANGED <<bot, built, pool, limit, highest, begun>>
  BY DEF Drop, Outside, world
<1>2. queue # <<>> /\ queue \in Seq(IntentType)
  BY DEF IInv, TypeOK, SpendsWithin
<1>3. /\ Tail(queue) \in Seq(IntentType) /\ Len(Tail(queue)) = Len(queue) - 1
      /\ \A i \in 1 .. Len(queue) - 1 : Tail(queue)[i] = queue[i + 1]
      /\ Len(queue) \in Nat \ {0} /\ DOMAIN queue = 1..Len(queue)
      /\ DOMAIN Tail(queue) = 1 .. Len(queue) - 1
  BY <1>2
<1>4. DOMAIN Swap = SwapFields /\ Swap.in \in Nat
  BY DEF Swap, SwapFields, IInv, TypeOK
<1>5. TypeOK'
  BY <1>1, <1>3, <1>4 DEF IInv, TypeOK, Pcs
<1>6. IntentsAsConfigured'
  BY <1>1, <1>3 DEF IInv, IntentsAsConfigured
<1>7. SpendsWithin' /\ QuotesFresh'
  BY <1>1 DEF IInv, SpendsWithin, QuotesFresh
<1>8. FloorsFromBuild' /\ FreshFloor'
  <2>1. pc = "send" => /\ Swap.floor = MinOut(Pays(Swap.built, Swap.side, Swap.in), bot.slippage)
                       /\ Swap.st = "pending"
    BY DEF IInv, FloorsFromBuild, Swap
  <2>2. QED
    BY <1>1, <2>1 DEF IInv, FloorsFromBuild, FreshFloor
<1>9. TurnsFollow' /\ CycleBalanced'
  <2>1. CycleBalanced'
    BY <1>1 DEF IInv, CycleBalanced
  <2> SUFFICES ASSUME TwoSided
               PROVE  /\ Alternates(queue')
                      /\ queue' # <<>> =>
                           ((Head(queue').side = "buy") <=> (begun.buy = begun.sell))
    BY <1>1, <2>1 DEF TurnsFollow, TwoSided, current
  <2>2. Alternates(queue) /\ ((Head(queue).side = "buy") <=> (begun.buy # begun.sell))
    BY <1>2 DEF IInv, TurnsFollow, current
  <2>3. Alternates(queue')
    BY <1>1, <1>3, <2>2 DEF Alternates
  <2>4. CASE queue' # <<>>
    <3>1. 1 \in 1 .. Len(queue) - 1 /\ Head(queue) = queue[1] /\ Head(queue') = queue[2]
      <4>1. Len(queue) - 1 # 0
        BY <1>1, <1>3, <2>4
      <4>2. 1 \in 1 .. Len(queue) - 1
        BY <1>3, <4>1
      <4>3. Head(queue) = queue[1] /\ Head(queue') = Tail(queue)[1]
        BY <1>1, <1>2, <1>3, <2>4
      <4>4. QED
        BY <1>3, <4>2, <4>3
    <3>2. queue[1].side # queue[2].side /\ queue[1] \in IntentType /\ queue[2] \in IntentType
      <4>1. queue[1].side # queue[1 + 1].side
        BY <2>2, <3>1 DEF Alternates
      <4>2. 1 \in DOMAIN queue /\ 2 \in DOMAIN queue
        BY <1>3, <3>1
      <4>3. queue[1] \in IntentType /\ queue[2] \in IntentType
        BY <1>2, <4>2
      <4>4. QED
        BY <4>1, <4>3
    <3>3. (queue[2].side = "buy") <=> (queue[1].side # "buy")
      BY <3>2 DEF IntentType
    <3>4. (Head(queue').side = "buy") <=> (Head(queue).side # "buy")
      BY <3>1, <3>3
    <3>5. QED
      BY <2>2, <2>3, <3>4
  <2>5. QED
    BY <2>3, <2>4
<1>10. SwapsAsConfigured'
  <2>1. ASSUME pc = "send"
        PROVE  /\ Enabled(bot, Swap.side)
               /\ \E a \in Amounts(bot) :
                    IF Swap.limited THEN Swap.in <= a + Slack(a) + Slack(Swap.limit)
                                    ELSE Swap.in = a
               /\ Swap.limited => Swap.in - Slack(Swap.in) <= Swap.limit
    <3>1. 1 \in DOMAIN queue /\ current = queue[1]
      BY <1>2, <1>3 DEF current
    <3>2. Enabled(bot, current.side) /\ current.amount \in Amounts(bot)
      BY <3>1 DEF IInv, IntentsAsConfigured
    <3>3. Within(amount)
      BY <2>1 DEF IInv, SpendsWithin
    <3>4. QED
      BY <3>2, <3>3 DEF Swap, Within
  <2>2. QED
    BY <1>1, <2>1 DEF IInv, SwapsAsConfigured
<1>11. ImpactBounded'
  <2>1. pc = "send" => Shallow(Swap)
    BY SendShallow
  <2>2. QED
    BY <1>1, <2>1 DEF IInv, ImpactBounded, Shallow, KeepsPrice
<1>12. QED
  BY <1>5, <1>6, <1>7, <1>8, <1>9, <1>10, <1>11 DEF IInv

LEMMA FailIInv == ASSUME IInv, pc \notin {"idle", "next"}, Fail PROVE IInv'
<1>1. Drop /\ Outside /\ swaps' = swaps
  BY DEF Fail
<1>2. QED
  BY <1>1, DropIInv

\* A larger amount is off by no less.
LEMMA SlackGrows ==
  /\ \A x \in Nat : Slack(x) \in Nat
  /\ \A x, y \in Nat : x <= y => Slack(x) <= Slack(y)
<1> USE PrecisionOK DEF PrecisionOK
<1>1. \A x \in Nat : Slack(x) \in Nat
  BY DivBounds DEF Slack
<1>2. ASSUME NEW x \in Nat, NEW y \in Nat, x <= y PROVE Slack(x) <= Slack(y)
  <2>1. PICK m \in Nat : m = Slack(x) /\ m * Precision <= x
    BY DivBounds DEF Slack
  <2>2. PICK n \in Nat : n = Slack(y) /\ y < (n + 1) * Precision
    BY DivBounds DEF Slack
  <2>3. m * Precision < (n + 1) * Precision
    BY <1>2, <2>1, <2>2, ProductNat
  <2>4. QED
    BY <2>1, <2>2, <2>3, SMT
<1>3. QED
  BY <1>1, <1>2

\* What the doubles of the cap can do to an amount.
LEMMA CappedWithin ==
  ASSUME NEW in \in Nat, NEW l \in Nat, NEW h \in Nat, l <= h, NEW v \in Capped(in, l)
  PROVE  v \in Nat /\ v <= in + Slack(in) + Slack(h) /\ v - Slack(v) <= h
<1>1. \A x \in Nat : Slack(x) \in Nat
  BY SlackGrows
<1>2. \A x, y \in Nat : x <= y => Slack(x) <= Slack(y)
  BY SlackGrows
<1>3. CASE v = in /\ in - Slack(in) <= l
  BY <1>1, <1>3
<1>4. CASE v >= 0 /\ v \in Int /\ v <= l + Slack(l) /\ in + Slack(in) >= l
  <2>1. Slack(l) <= Slack(h) /\ Slack(l) \in Nat /\ Slack(h) \in Nat /\ Slack(v) \in Nat
    BY <1>1, <1>2, <1>4
  <2>2. v - Slack(v) <= l
    BY <1>1, <1>2, <1>4, <2>1
  <2>3. QED
    BY <1>1, <1>4, <2>1, <2>2
<1>5. QED
  BY <1>1, <1>3, <1>4 DEF Capped

\* What the current intent may spend is settled by the cap.
LEMMA CapIInv == ASSUME IInv, Cap PROVE IInv'
<1>1. /\ pc = "cap" /\ pc' = "balance" /\ Local
      /\ amount' \in IF QuoteSpend THEN Capped(current.amount, limit) ELSE {current.amount}
  BY DEF Cap, Goto
<1>2. current.amount \in Nat
  <2>1. queue \in Seq(IntentType) /\ queue # <<>>
    BY <1>1 DEF IInv, TypeOK, SpendsWithin
  <2>2. current \in IntentType
    BY <2>1 DEF current
  <2>3. QED
    BY <2>2 DEF IntentType
<1>3. limit \in Nat /\ highest \in Nat /\ limit <= highest
  BY DEF IInv, TypeOK, SpendsWithin
<1>4. amount' \in Nat /\ Within(amount')
  BY <1>1, <1>2, <1>3, CappedWithin DEF Within
<1>5. QuotesFresh'
  BY <1>1 DEF QuotesFresh
<1>6. built' \in PoolType
  BY DEF Cap, IInv, TypeOK
<1>7. QED
  BY <1>1, <1>4, <1>5, <1>6, AdvanceIInv DEF Underway, Pcs

LEMMA BuildIInv == ASSUME IInv, Build PROVE IInv'
<1>1. CASE pc = "build" /\ Fail
  BY <1>1, FailIInv
<1>2. CASE /\ Goto("build", "estimate")
           /\ floor' = MinOut(Quote(amount), bot.slippage)
           /\ built' = pool
           /\ Local /\ UNCHANGED <<amount, quoted, small>>
  <2>1. pc = "build" /\ pc' = "estimate"
    BY <1>2 DEF Goto
  <2>2. floor' = MinOut(Pays(built', current.side, amount'), bot.slippage)
    BY <1>2 DEF Quote
  <2>3. amount' \in Nat /\ Within(amount')
    BY <1>2, <2>1 DEF IInv, TypeOK, SpendsWithin
  <2>4. QuotesFresh'
    BY <1>2, <2>1 DEF IInv, QuotesFresh, TooDeep, Local, Outside, world, current
  <2>5. built' \in PoolType
    BY <1>2 DEF IInv, TypeOK
  <2>6. QED
    BY <1>2, <2>1, <2>2, <2>3, <2>4, <2>5, AdvanceIInv DEF Underway, Pcs
<1>3. QED
  BY <1>1, <1>2 DEF Build

\* The other steps of an intent leave its amount alone, and keep its floor once
\* there is one.
LEMMA IntentIInv ==
  ASSUME IInv, Balance \/ FullQuote \/ SmallQuote \/ ImpactCheck \/ Allowance \/ Approve
               \/ Estimate \/ Fees
  PROVE  IInv'
<1>1. pc \in Underway
  BY DEF Balance, FullQuote, SmallQuote, ImpactCheck, Allowance, Approve, Estimate, Fees,
         Goto, Underway, Pcs
<1>2. CASE Fail
  BY <1>1, <1>2, FailIInv DEF Underway
<1>3. CASE ~Fail
  <2>1. /\ Local /\ pc' \in Underway /\ UNCHANGED <<amount, floor, built>>
        /\ pc' \in {"estimate", "fees", "send"} => pc \in {"estimate", "fees", "send"}
    BY <1>3 DEF Balance, FullQuote, SmallQuote, ImpactCheck, Allowance, Approve, Estimate,
                Fees, Goto, Underway, Pcs, intentVars
  <2>2. amount' \in Nat /\ Within(amount')
    BY <1>1, <2>1 DEF IInv, TypeOK, SpendsWithin, Underway
  <2>3. pc' \in {"estimate", "fees", "send"}
          => floor' = MinOut(Pays(built', current.side, amount'), bot.slippage)
    BY <2>1 DEF IInv, FloorsFromBuild
  <2>4. built' \in PoolType
    BY <2>1 DEF IInv, TypeOK
  <2>5. QuotesFresh'
    <3>1. UNCHANGED <<queue, bot, pool, calm, amount, built>> /\ current' = current
      BY <2>1 DEF Local, Outside, world, current
    <3>2. CASE FullQuote
      <4>1. /\ quoted' = Pays(pool, current.side, amount)
            /\ pc' = IF amount <= Negligible THEN "impact" ELSE "small"
        BY <1>3, <3>2 DEF FullQuote, Goto, Quote
      <4>2. amount \in Nat
        BY DEF IInv, TypeOK
      <4>3. QED
        BY <3>1, <4>1, <4>2 DEF QuotesFresh, Negligible
    <3>3. CASE SmallQuote
      BY <1>3, <3>1, <3>3 DEF SmallQuote, Goto, Quote, IInv, QuotesFresh
    <3>4. CASE ImpactCheck
      BY <1>3, <3>1, <3>4 DEF ImpactCheck, IInv, QuotesFresh, TooDeep, intentVars
    <3>5. CASE Balance
      BY <1>3, <3>1, <3>5 DEF Balance, Goto, QuotesFresh
    <3>6. CASE Allowance \/ Approve \/ Estimate \/ Fees
      BY <1>3, <3>1, <3>6 DEF Allowance, Approve, Estimate, Fees, Goto, IInv, QuotesFresh,
                              TooDeep, intentVars
    <3>7. QED
      BY <3>2, <3>3, <3>4, <3>5, <3>6
  <2>6. QED
    BY <1>1, <2>1, <2>2, <2>3, <2>4, <2>5, AdvanceIInv DEF Underway
<1>4. QED
  BY <1>2, <1>3

LEMMA SendIInv == ASSUME IInv, Send PROVE IInv'
<1>1. /\ pc = "send" /\ Drop /\ Outside
      /\ swaps' = swaps \/ swaps' = swaps \union {Swap}
  BY DEF Send
<1>2. pc \notin {"idle", "next"}
  BY <1>1
<1>3. QED
  BY <1>1, <1>2, DropIInv

\* The world moves: swaps are mined, the pool and the limit change.
LEMMA MineIInv == ASSUME IInv, Mine PROVE IInv'
<1>1. UNCHANGED <<bot, queue, pc, amount, quoted, small, floor, built, limit, highest, begun>>
  BY DEF Mine, intentVars
<1>2. PICK s \in swaps :
        \/ /\ Pays(pool, s.side, s.in) >= s.floor
           /\ pool' = After(pool, s.side, s.in, Pays(pool, s.side, s.in)) /\ calm' = FALSE
           /\ swaps' = (swaps \ {s}) \union {Paid(s, Pays(pool, s.side, s.in))}
        \/ /\ swaps' = (swaps \ {s}) \union {Reverted(s)}
           /\ UNCHANGED <<pool, calm>>
  BY DEF Mine
<1> DEFINE Like(t) ==
      /\ DOMAIN t = SwapFields
      /\ t.side = s.side /\ t.limited = s.limited /\ t.in = s.in /\ t.floor = s.floor
      /\ t.built = s.built /\ t.limit = s.limit /\ t.calm = s.calm
      /\ t.st = "mined" => t.out >= s.floor
<1>3. DOMAIN s = SwapFields
  BY DEF IInv, TypeOK
<1>4. PICK t : Like(t) /\ swaps' = (swaps \ {s}) \union {t}
  <2>1. ASSUME Pays(pool, s.side, s.in) >= s.floor
        PROVE  Like(Paid(s, Pays(pool, s.side, s.in)))
    BY <1>3, <2>1 DEF SwapFields, Paid
  <2>2. Like(Reverted(s))
    BY <1>3 DEF SwapFields, Reverted
  <2> HIDE DEF Like
  <2>3. QED
    BY <1>2, <2>1, <2>2
<1>5. TypeOK'
  <2>1. pool' \in PoolType
    BY <1>2, AfterTyped DEF IInv, TypeOK
  <2>2. QED
    BY <1>1, <1>4, <2>1 DEF IInv, TypeOK
<1>6. /\ IntentsAsConfigured' /\ SpendsWithin' /\ QuotesFresh' /\ TurnsFollow'
      /\ CycleBalanced'
  BY <1>1, <1>2 DEF IInv, IntentsAsConfigured, SpendsWithin, QuotesFresh, TooDeep, TurnsFollow,
                    TwoSided, CycleBalanced, current, Within, QuoteSpend, NativePath, TokenIn
<1>7. FloorsFromBuild' /\ FreshFloor'
  BY <1>1, <1>4 DEF IInv, FloorsFromBuild, FreshFloor, current
<1>8. SwapsAsConfigured' /\ ImpactBounded'
  BY <1>1, <1>4 DEF IInv, SwapsAsConfigured, ImpactBounded
<1>9. QED
  BY <1>5, <1>6, <1>7, <1>8 DEF IInv

LEMMA MovesIInv == ASSUME IInv, PoolMoves \/ LimitMoves PROVE IInv'
<1>1. /\ UNCHANGED <<bot, queue, pc, amount, quoted, small, floor, built, begun, swaps>>
      /\ pool' \in PoolType /\ (calm' => calm /\ pool' = pool)
  BY PoolsTyped DEF PoolMoves, LimitMoves, intentVars, IInv, TypeOK
<1>2. limit' \in Limits /\ highest' \in Nat /\ limit' <= highest' /\ highest <= highest'
  <2>1. limit \in Limits /\ limit \in Nat /\ highest \in Nat /\ limit <= highest
    BY DEF IInv, TypeOK, SpendsWithin
  <2>2. CASE PoolMoves
    BY <2>1, <2>2 DEF PoolMoves
  <2>3. CASE LimitMoves
    <3>1. limit' \in Limits /\ highest' = IF limit' > highest THEN limit' ELSE highest
      BY <2>3 DEF LimitMoves
    <3>2. limit' \in Nat
      BY <3>1
    <3>3. QED
      BY <2>1, <3>1, <3>2
  <2>4. QED
    BY <2>2, <2>3
<1>3. TypeOK'
  BY <1>1, <1>2 DEF IInv, TypeOK
<1>4. SpendsWithin'
  <2>1. highest \in Nat /\ Slack(highest) \in Nat /\ Slack(highest') \in Nat
        /\ Slack(highest) <= Slack(highest')
    BY <1>2, SlackGrows DEF IInv, TypeOK
  <2>2. current' = current /\ QuoteSpend' = QuoteSpend
    BY <1>1 DEF current, QuoteSpend, NativePath, TokenIn
  <2>3. ASSUME pc \notin {"idle", "next", "cap"} PROVE Within(amount)'
    <3>1. Within(amount) /\ queue # <<>> /\ queue \in Seq(IntentType) /\ amount \in Nat
      BY <2>3 DEF IInv, TypeOK, SpendsWithin
    <3>2. current \in IntentType
      BY <3>1 DEF current
    <3>3. current.amount \in Nat /\ Slack(current.amount) \in Nat /\ Slack(amount) \in Nat
      BY <3>1, <3>2, SlackGrows DEF IntentType
    <3>4. CASE QuoteSpend
      <4>1. /\ amount <= current.amount + Slack(current.amount) + Slack(highest)
            /\ amount - Slack(amount) <= highest
        BY <3>1, <3>4 DEF Within
      <4>2. /\ amount <= current.amount + Slack(current.amount) + Slack(highest')
            /\ amount - Slack(amount) <= highest'
        BY <1>2, <2>1, <3>1, <3>3, <4>1
      <4>3. QED
        BY <1>1, <2>2, <3>4, <4>2 DEF Within
    <3>5. CASE ~QuoteSpend
      BY <1>1, <2>2, <3>1, <3>5 DEF Within
    <3>6. QED
      BY <3>4, <3>5
  <2>4. QED
    BY <1>1, <1>2, <2>3 DEF IInv, SpendsWithin
<1>5. /\ IntentsAsConfigured' /\ FloorsFromBuild' /\ QuotesFresh' /\ TurnsFollow'
      /\ CycleBalanced'
  BY <1>1 DEF IInv, IntentsAsConfigured, FloorsFromBuild, QuotesFresh, TooDeep, TurnsFollow,
              TwoSided, CycleBalanced, current
<1>6. SwapsAsConfigured' /\ FreshFloor' /\ ImpactBounded'
  BY <1>1 DEF IInv, SwapsAsConfigured, FreshFloor, ImpactBounded
<1>7. QED
  BY <1>3, <1>4, <1>5, <1>6 DEF IInv

LEMMA StutterIInv == ASSUME IInv, UNCHANGED vars PROVE IInv'
BY DEF IInv, TypeOK, IntentsAsConfigured, SpendsWithin, FloorsFromBuild, QuotesFresh, TooDeep,
       TurnsFollow, TwoSided, SwapsAsConfigured, FreshFloor, ImpactBounded, CycleBalanced,
       current, Within, QuoteSpend, NativePath, TokenIn, vars, intentVars, world

\* The inductive invariant holds of every cycle of every bot.
THEOREM Invariance == Spec => []IInv
<1>1. IInv /\ [Next]_vars => IInv'
  BY BeginIInv, StartIntentIInv, EndCycleIInv, CapIInv, IntentIInv, BuildIInv, SendIInv,
     MineIInv, MovesIInv, StutterIInv DEF Next
<1>2. QED
  BY InitIInv, <1>1, PTL DEF Spec

\* However limit and pool move between the reads of an intent, what is broadcast
\* is what the bot is configured for and a limit of the trader allowed.
THEOREM BroadcastAsConfigured == Spec => []SwapsAsConfigured
<1>1. IInv => SwapsAsConfigured
  BY DEF IInv
<1>2. QED
  BY Invariance, <1>1, PTL

\* A mined swap pays what the pool offered when it was built, less the slippage.
THEOREM PaidByFreshQuote == Spec => []FreshFloor
<1>1. IInv => FreshFloor
  BY DEF IInv
<1>2. QED
  BY Invariance, <1>1, PTL

\* The integer estimate of the impact lets no swap through that would lose more
\* than a sixth of the spot price on a quiet pool, for any amount and reserves.
THEOREM DeepSwapsRefused == Spec => []ImpactBounded
<1>1. IInv => ImpactBounded
  BY DEF IInv
<1>2. QED
  BY Invariance, <1>1, PTL

\* A volume cycle on both sides never runs ahead on one of them, for groups of
\* any size and however short the worker cuts the list.
THEOREM SidesBalanced == Spec => []CycleBalanced
<1>1. IInv => CycleBalanced
  BY DEF IInv
<1>2. QED
  BY Invariance, <1>1, PTL
=============================================================================
