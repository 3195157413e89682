----------------------------- MODULE PoolProofs -------------------------------
(***************************************************************************)
(* Proofs about the pool, for every number of actors, every fee, ceiling   *)
(* and integer width: the square root that mints the first shares, the     *)
(* backing of shares, their value, and the conservation of both assets.    *)
(***************************************************************************)
EXTENDS Pool, VaiProofs

(* Every non-empty set of naturals has a least element. *)
LEMMA LeastNat ==
  ASSUME NEW T, T \subseteq Nat, T # {}
  PROVE  \E x \in T : \A y \in T : x <= y
<1>1. PICK x \in T : \A y \in T : ~(<<y, x>> \in OpToRel(<, Nat))
  BY NatLessThanWellFounded, WFMin, Zenon
<1>2. ASSUME NEW y \in T PROVE x <= y
  <2>1. ~(<<y, x>> \in OpToRel(<, Nat)) /\ x \in Nat /\ y \in Nat
    BY <1>1
  <2>. QED  BY <2>1 DEF OpToRel
<1>. QED  BY <1>2

(* Products of naturals keep an order, and a common positive factor can be *)
(* cancelled from it.                                                      *)
LEMMA MulMono ==
  ASSUME NEW a \in Nat, NEW b \in Nat, NEW c \in Nat, NEW d \in Nat, a <= b, c <= d
  PROVE  a * c <= b * d
<1>1. a * c <= b * c
  OBVIOUS
<1>2. b * c <= b * d
  OBVIOUS
<1>3. a * c \in Nat /\ b * c \in Nat /\ b * d \in Nat
  OBVIOUS
<1>. QED  BY <1>1, <1>2, <1>3

LEMMA MulStrict ==
  ASSUME NEW a \in Nat, NEW b \in Nat, NEW c \in Nat \ {0}, a < b
  PROVE  a * c < b * c
<1>1. (a + 1) * c <= b * c
  <2>1. a + 1 \in Nat /\ a + 1 <= b /\ c \in Nat /\ c <= c
    OBVIOUS
  <2>. QED  BY <2>1, MulMono
<1>2. (a + 1) * c = a * c + c
  OBVIOUS
<1>3. a * c \in Nat /\ b * c \in Nat
  OBVIOUS
<1>. QED  BY <1>1, <1>2, <1>3

LEMMA MulCancel ==
  ASSUME NEW a \in Nat, NEW b \in Nat, NEW c \in Nat \ {0}, a * c <= b * c
  PROVE  a <= b
<1>1. CASE b < a
  <2>1. b * c < a * c
    BY <1>1, MulStrict
  <2>2. a * c \in Nat /\ b * c \in Nat
    OBVIOUS
  <2>. QED  BY <2>1, <2>2
<1>. QED  BY <1>1

(* What Go's integer division computes. *)
LEMMA Quotient ==
  ASSUME NEW n \in Nat, NEW d \in Nat \ {0}
  PROVE  /\ n \div d \in Nat
         /\ (n \div d) * d <= n
         /\ n < (n \div d + 1) * d
<1> DEFINE q == n \div d
<1>1. q \in Nat /\ q * d <= n
  OBVIOUS
<1>2. n < q * d + d
  OBVIOUS
<1>. HIDE DEF q
<1>3. (q + 1) * d = q * d + d
  BY <1>1
<1>. QED  BY <1>1, <1>2, <1>3 DEF q

(* n has an integer root. *)
LEMMA RootExists ==
  ASSUME NEW n \in Nat
  PROVE  \E r \in Nat : r * r <= n /\ n < (r + 1) * (r + 1)
<1> DEFINE T == {k \in Nat : n < k * k}
<1>1. n + 1 \in T
  <2>1. n + 1 \in Nat /\ 1 \in Nat /\ 1 <= n + 1
    OBVIOUS
  <2>2. (n + 1) * 1 <= (n + 1) * (n + 1)
    BY <2>1, MulMono
  <2>. QED  BY <2>1, <2>2
<1>2. PICK k \in T : \A j \in T : k <= j
  BY <1>1, LeastNat
<1>3. k \in Nat /\ k # 0 /\ n < k * k
  BY <1>2
<1>4. k - 1 \in Nat /\ k - 1 \notin T
  BY <1>2, <1>3
<1>5. (k - 1) * (k - 1) <= n /\ n < ((k - 1) + 1) * ((k - 1) + 1)
  <2>1. (k - 1) + 1 = k
    BY <1>3
  <2>2. (k - 1) * (k - 1) \in Nat
    BY <1>4
  <2>. QED  BY <1>3, <1>4, <2>1, <2>2
<1>. QED  BY <1>4, <1>5

(* One round of intSqrt's loop. *)
Estimate(n, x) == (x + n \div x) \div 2

(* Below or at the root the estimate does not fall; above it, it falls but *)
(* not below the root (the arithmetic mean is at least the geometric one). *)
LEMMA EstimateStep ==
  ASSUME NEW n \in Nat, NEW r \in Nat \ {0}, r * r <= n, n < (r + 1) * (r + 1),
         NEW x \in 1 .. n
  PROVE  /\ Estimate(n, x) \in Nat
         /\ x <= r => ~(Estimate(n, x) < x)
         /\ x > r => Estimate(n, x) < x /\ r <= Estimate(n, x)
<1> DEFINE q == n \div x
<1>1. x \in Nat \ {0} /\ q \in Nat /\ q * x <= n /\ n < (q + 1) * x
  <2>1. x \in Nat \ {0}
    OBVIOUS
  <2>. QED  BY <2>1, Quotient
<1>2. Estimate(n, x) = (x + q) \div 2
  BY DEF Estimate
<1>. HIDE DEF q
<1>3. CASE x <= r
  <2>1. x * x <= r * r
    BY <1>1, <1>3, MulMono
  <2>2. x * x < (q + 1) * x
    BY <1>1, <2>1
  <2>3. x <= q
    <3>1. CASE q + 1 <= x
      <4>1. (q + 1) * x <= x * x
        BY <1>1, <3>1, MulMono
      <4>2. (q + 1) * x \in Nat /\ x * x \in Nat
        BY <1>1
      <4>. QED  BY <2>2, <4>1, <4>2
    <3>. QED  BY <1>1, <3>1
  <2>. QED  BY <1>1, <1>2, <1>3, <2>3
<1>4. CASE x > r
  <2>1. q < x
    <3>1. CASE x <= q
      <4>1. x * x <= q * x
        BY <1>1, <3>1, MulMono
      <4>2. (r + 1) * (r + 1) <= x * x
        BY <1>1, <1>4, MulMono
      <4>3. x * x \in Nat /\ q * x \in Nat /\ (r + 1) * (r + 1) \in Nat
        BY <1>1
      <4>. QED  BY <1>1, <4>1, <4>2, <4>3
    <3>. QED  BY <1>1, <3>1
  <2>2. 2 * r <= x + q
    <3>1. CASE x + q + 1 <= 2 * r
      <4>1. PICK d \in Nat : x = r + d
        <5>1. x - r \in Nat /\ x = r + (x - r)
          BY <1>1, <1>4
        <5>. QED  BY <5>1
      <4>2. r - d \in Nat /\ q + 1 <= r - d
        BY <1>1, <3>1, <4>1
      <4>3. (q + 1) * x <= (r - d) * x
        BY <1>1, <4>2, MulMono
      <4>4. (r - d) * (r + d) = r * r - d * d
        BY <4>1
      <4>5. d * d \in Nat /\ r * r \in Nat
        BY <4>1
      <4>6. (q + 1) * x \in Nat
        BY <1>1
      <4>. QED  BY <1>1, <4>1, <4>3, <4>4, <4>5, <4>6
    <3>. QED  BY <1>1, <3>1
  <2>. QED  BY <1>1, <1>2, <1>4, <2>1, <2>2
<1>. QED  BY <1>1, <1>3, <1>4

(* The loop of intSqrt as an equation on functions. *)
Loops(n, f) == f = [x \in 1 .. n |-> IF Estimate(n, x) < x THEN f[Estimate(n, x)] ELSE x]
SqrtLoop(n) == CHOOSE f : Loops(n, f)

LEMMA IntSqrtIsLoop ==
  ASSUME NEW n \in Nat
  PROVE  IntSqrt(n) = IF n = 0 THEN 0 ELSE SqrtLoop(n)[n]
  BY DEF IntSqrt, SqrtLoop, Loops, Estimate

(* Some function satisfies the equation: what lies above the root falls to *)
(* the root, and the rest stays.                                           *)
LEMMA LoopExists ==
  ASSUME NEW n \in Nat, NEW r \in Nat \ {0}, r * r <= n, n < (r + 1) * (r + 1)
  PROVE  Loops(n, SqrtLoop(n))
<1> DEFINE g == [x \in 1 .. n |-> IF x <= r THEN x ELSE r]
           h == [x \in 1 .. n |-> IF Estimate(n, x) < x THEN g[Estimate(n, x)] ELSE x]
<1>1. ASSUME NEW x \in 1 .. n PROVE g[x] = h[x]
  <2>1. /\ Estimate(n, x) \in Nat
        /\ x <= r => ~(Estimate(n, x) < x)
        /\ x > r => Estimate(n, x) < x /\ r <= Estimate(n, x)
    BY EstimateStep
  <2>2. CASE x <= r
    BY <2>1, <2>2
  <2>3. CASE x > r
    <3>1. Estimate(n, x) \in 1 .. n
      BY <2>1, <2>3
    <3>2. g[Estimate(n, x)] = r
      BY <2>1, <2>3, <3>1
    <3>. QED  BY <2>1, <2>3, <3>2
  <2>. QED  BY <2>2, <2>3
<1>2. g = h
  BY <1>1
<1>3. Loops(n, g)
  BY <1>2 DEF Loops
<1>. HIDE DEF g
<1>. QED  BY <1>3 DEF SqrtLoop

(* The loop ends at the root, from every start at or above it. *)
LEMMA LoopEndsAtRoot ==
  ASSUME NEW n \in Nat, NEW r \in Nat \ {0}, r * r <= n, n < (r + 1) * (r + 1),
         NEW f, Loops(n, f), NEW s \in r .. n
  PROVE  f[s] = r
<1> DEFINE T == {x \in r .. n : f[x] # r}
<1>1. CASE T # {}
  <2>1. T \subseteq Nat
    OBVIOUS
  <2>2. PICK x \in T : \A y \in T : x <= y
    BY <1>1, <2>1, LeastNat
  <2>3. x \in 1 .. n /\ r <= x /\ f[x] # r
    BY <2>2
  <2>4. f[x] = IF Estimate(n, x) < x THEN f[Estimate(n, x)] ELSE x
    BY <2>3 DEF Loops
  <2>5. /\ Estimate(n, x) \in Nat
        /\ x <= r => ~(Estimate(n, x) < x)
        /\ x > r => Estimate(n, x) < x /\ r <= Estimate(n, x)
    BY <2>3, EstimateStep
  <2>6. x > r
    BY <2>3, <2>4, <2>5
  <2>7. Estimate(n, x) \in r .. n /\ Estimate(n, x) \notin T
    BY <2>2, <2>3, <2>5, <2>6
  <2>. QED  BY <2>3, <2>4, <2>5, <2>6, <2>7
<1>. QED  BY <1>1

(* intSqrt returns the integer square root of every argument (the largest  *)
(* uint64 excepted, for which its first sum wraps): Newton's loop neither  *)
(* stops above the root nor overshoots it.                                 *)
THEOREM IntSqrtIsFloorRoot ==
  \A n \in Nat : /\ IntSqrt(n) \in Nat
                 /\ IntSqrt(n) * IntSqrt(n) <= n
                 /\ n < (IntSqrt(n) + 1) * (IntSqrt(n) + 1)
<1> SUFFICES ASSUME NEW n \in Nat
             PROVE  /\ IntSqrt(n) \in Nat
                    /\ IntSqrt(n) * IntSqrt(n) <= n
                    /\ n < (IntSqrt(n) + 1) * (IntSqrt(n) + 1)
  OBVIOUS
<1>1. CASE n = 0
  BY <1>1, IntSqrtIsLoop
<1>2. CASE n # 0
  <2>1. PICK r \in Nat : r * r <= n /\ n < (r + 1) * (r + 1)
    BY RootExists
  <2>2. r # 0
    BY <1>2, <2>1
  <2>3. r <= n
    <3>1. r * 1 <= r * r
      BY <2>1, <2>2, MulMono
    <3>. QED  BY <2>1, <3>1
  <2>4. SqrtLoop(n)[n] = r
    <3>1. Loops(n, SqrtLoop(n))
      BY <2>1, <2>2, LoopExists
    <3>. QED  BY <2>1, <2>2, <2>3, <3>1, LoopEndsAtRoot
  <2>. QED  BY <1>2, <2>1, <2>4, IntSqrtIsLoop
<1>. QED  BY <1>1, <1>2
-----------------------------------------------------------------------------
(* A side of the pool is fair to the shares when what backs one of them    *)
(* does not fall: r per L before, s per M after.                           *)
FairSide(r, s, L, M) == r * M <= s * L

LEMMA DepositFair ==
  ASSUME NEW r \in Nat, NEW i \in Nat, NEW L \in Nat, NEW m \in Nat, m * r <= i * L
  PROVE  FairSide(r, r + i, L, L + m)
<1>1. r * (L + m) = r * L + m * r /\ (r + i) * L = r * L + i * L
  OBVIOUS
<1>2. r * L \in Nat /\ m * r \in Nat /\ i * L \in Nat
  OBVIOUS
<1>. QED  BY <1>1, <1>2 DEF FairSide

LEMMA WithdrawFair ==
  ASSUME NEW r \in Nat, NEW o \in Nat, NEW L \in Nat, NEW l \in Nat, o * L <= l * r
  PROVE  FairSide(r, r - o, L, L - l)
<1>1. r * (L - l) = r * L - l * r /\ (r - o) * L = r * L - o * L
  OBVIOUS
<1>2. r * L \in Nat /\ l * r \in Nat /\ o * L \in Nat
  OBVIOUS
<1>. QED  BY <1>1, <1>2 DEF FairSide

(* Two fair sides together: the product of the reserves per squared share. *)
LEMMA FairProduct ==
  ASSUME NEW r0 \in Nat, NEW r1 \in Nat, NEW s0 \in Nat, NEW s1 \in Nat,
         NEW L \in Nat, NEW M \in Nat, FairSide(r0, s0, L, M), FairSide(r1, s1, L, M)
  PROVE  r0 * r1 * M * M <= s0 * s1 * L * L
<1>1. (r0 * M) * (r1 * M) <= (s0 * L) * (s1 * L)
  <2>1. r0 * M \in Nat /\ r1 * M \in Nat /\ s0 * L \in Nat /\ s1 * L \in Nat
    OBVIOUS
  <2>. QED  BY <2>1, MulMono DEF FairSide
<1>2. (r0 * M) * (r1 * M) = r0 * r1 * M * M
  OBVIOUS
<1>3. (s0 * L) * (s1 * L) = s0 * s1 * L * L
  OBVIOUS
<1>. QED  BY <1>1, <1>2, <1>3

(* Shares that were backed stay backed when their value does not fall. *)
LEMMA BackingStays ==
  ASSUME NEW r0 \in Nat \ {0}, NEW r1 \in Nat \ {0}, NEW s0 \in Nat, NEW s1 \in Nat,
         NEW L \in Nat, NEW M \in Nat,
         L * L <= r0 * r1, r0 * r1 * M * M <= s0 * s1 * L * L
  PROVE  M * M <= s0 * s1
<1> DEFINE r == r0 * r1
           s == s0 * s1
           l == L * L
           m == M * M
<1>1. r \in Nat \ {0} /\ s \in Nat /\ l \in Nat /\ m \in Nat /\ l <= r
  <2>1. 1 * 1 <= r0 * r1
    BY MulMono
  <2>. QED  BY <2>1
<1>2. r0 * r1 * M * M = m * r /\ s0 * s1 * L * L = s * l
  OBVIOUS
<1>3. m * r <= s * l
  BY <1>2
<1>. HIDE DEF r, s, l, m
<1>4. s * l <= s * r
  BY <1>1, MulMono
<1>5. m * r <= s * r
  <2>1. m * r \in Nat /\ s * l \in Nat /\ s * r \in Nat
    BY <1>1
  <2>. QED  BY <1>3, <1>4, <2>1
<1>. QED  BY <1>1, <1>5, MulCancel DEF m, s

(* A swap pays out less than the reserve and never lowers the product.     *)
(* Here w is what is left of the amount i after the fee.                   *)
LEMMA SwapFair ==
  ASSUME NEW p \in Nat \ {0}, NEW q \in Nat \ {0}, NEW w \in Nat, NEW i \in Nat, w <= i,
         NEW o \in Nat, o * (p + w) <= q * w
  PROVE  o < q /\ p * q <= (p + i) * (q - o)
<1>1. o < q
  <2>1. CASE q <= o
    <3>1. q * (p + w) <= o * (p + w)
      BY <2>1, MulMono
    <3>2. q * (p + w) = q * p + q * w
      OBVIOUS
    <3>3. 1 * 1 <= q * p
      BY MulMono
    <3>4. q * p \in Nat /\ q * w \in Nat /\ o * (p + w) \in Nat
      OBVIOUS
    <3>. QED  BY <3>1, <3>2, <3>3, <3>4
  <2>. QED  BY <2>1
<1>2. q - o \in Nat
  BY <1>1
<1>3. (p + w) * (q - o) <= (p + i) * (q - o)
  BY <1>2, MulMono
<1>4. (p + w) * (q - o) = p * q + q * w - o * (p + w)
  OBVIOUS
<1>5. /\ p * q \in Nat /\ q * w \in Nat /\ o * (p + w) \in Nat
      /\ (p + i) * (q - o) \in Nat /\ (p + w) * (q - o) \in Nat
  BY <1>2
<1>. QED  BY <1>1, <1>3, <1>4, <1>5
-----------------------------------------------------------------------------
Uint64 == 0 .. MaxUint64
PoolRecords == [feeBips : 0 .. MaxPoolFeeBips, reserve0 : Uint64, reserve1 : Uint64,
                totalLP : Uint64]

PoolTyped ==
    /\ balance \in [Actors -> Uint64]
    /\ vaiBalance \in [Actors -> Uint64]
    /\ lp \in [Actors -> Uint64]
    /\ pool \in PoolRecords

(* The part of SharesAreBacked that is about the pool alone. *)
BackedBy(r0, r1, L) ==
    /\ L = 0 <=> r0 = 0
    /\ L = 0 <=> r1 = 0
    /\ L * L <= r0 * r1

PoolBacked == BackedBy(pool.reserve0, pool.reserve1, pool.totalLP)

(* What every action on the pool comes down to: an actor pays d0 of VEIL   *)
(* and d1 of VAI into the pool for m shares (or is paid, where these are   *)
(* negative), within uint64 everywhere, and the shares stay backed and do  *)
(* not lose value.                                                         *)
Exchange(a, d0, d1, m) ==
    /\ balance' = [balance EXCEPT ![a] = @ - d0] /\ balance[a] - d0 \in Uint64
    /\ vaiBalance' = [vaiBalance EXCEPT ![a] = @ - d1] /\ vaiBalance[a] - d1 \in Uint64
    /\ lp' = [lp EXCEPT ![a] = @ + m] /\ lp[a] + m \in Uint64
    /\ pool' \in PoolRecords
    /\ pool'.reserve0 = pool.reserve0 + d0
    /\ pool'.reserve1 = pool.reserve1 + d1
    /\ pool'.totalLP = pool.totalLP + m
    /\ PoolBacked'
    /\ pool.totalLP > 0 /\ pool'.totalLP > 0 =>
          pool.reserve0 * pool.reserve1 * pool'.totalLP * pool'.totalLP
             <= pool'.reserve0 * pool'.reserve1 * pool.totalLP * pool.totalLP
    /\ UNCHANGED <<now, burned, vaiState, risk, reserve, mintedAt>>

Grown(p, q, i, j, k) == q = [p EXCEPT !.reserve0 = @ + i, !.reserve1 = @ + j, !.totalLP = @ + k]

LEMMA PoolGrows ==
  ASSUME NEW p \in PoolRecords, NEW i, NEW j, NEW k,
         p.reserve0 + i \in Uint64, p.reserve1 + j \in Uint64, p.totalLP + k \in Uint64,
         NEW q, Grown(p, q, i, j, k)
  PROVE  /\ q \in PoolRecords
         /\ q.reserve0 = p.reserve0 + i /\ q.reserve1 = p.reserve1 + j /\ q.totalLP = p.totalLP + k
<1> DEFINE p1 == [p EXCEPT !.reserve0 = p.reserve0 + i]
           p2 == [p1 EXCEPT !.reserve1 = p.reserve1 + j]
           p3 == [p2 EXCEPT !.totalLP = p.totalLP + k]
<1>1. p1 \in PoolRecords /\ p1.reserve0 = p.reserve0 + i
  BY DEF PoolRecords
<1>0. q = p3
  BY DEF PoolRecords, Grown
<1>. HIDE DEF p1
<1>2. p2 \in PoolRecords /\ p2.reserve0 = p.reserve0 + i /\ p2.reserve1 = p.reserve1 + j
  BY <1>1 DEF PoolRecords
<1>. HIDE DEF p2
<1>3. /\ p3 \in PoolRecords
      /\ p3.reserve0 = p.reserve0 + i /\ p3.reserve1 = p.reserve1 + j /\ p3.totalLP = p.totalLP + k
  BY <1>2 DEF PoolRecords
<1>. QED  BY <1>0, <1>3

(* The fields and the constants, as numbers. *)
LEMMA PoolNumbers ==
  ASSUME PoolTyped
  PROVE  /\ pool.reserve0 \in Uint64 /\ pool.reserve1 \in Uint64 /\ pool.totalLP \in Uint64
         /\ pool.reserve0 \in Nat /\ pool.reserve1 \in Nat /\ pool.totalLP \in Nat
         /\ pool.feeBips \in 0 .. BipsDenominator /\ BipsDenominator \in Nat \ {0}
         /\ MaxUint64 \in Nat
<1>1. MaxUint64 \in Nat /\ MaxPoolFeeBips \in 1 .. BipsDenominator /\ BipsDenominator \in Nat \ {0}
  BY LedgerAssumption, PoolAssumption
<1>. QED  BY <1>1 DEF PoolTyped, PoolRecords, Uint64

LEMMA CreateExchanges ==
  ASSUME PoolTyped, NEW a \in Actors, NEW x, NEW y, NEW f, CreatePool(a, x, y, f)
  PROVE  Exchange(a, 0, 0, 0)
<1>1. /\ pool = NoPool /\ pool' = [NoPool EXCEPT !.feeBips = f] /\ f \in 1 .. MaxPoolFeeBips
      /\ UNCHANGED <<now, burned, balance, vaiBalance, lp, vaiState, risk, reserve, mintedAt>>
  BY DEF CreatePool, PoolExists, ledgerVars, vaiVars, MinPoolFeeBips
<1>2. /\ pool' \in PoolRecords /\ pool'.reserve0 = 0 /\ pool'.reserve1 = 0 /\ pool'.totalLP = 0
      /\ pool.reserve0 = 0 /\ pool.reserve1 = 0 /\ pool.totalLP = 0
  <2>1. MaxPoolFeeBips \in Nat /\ MaxUint64 \in Nat
    BY LedgerAssumption, PoolAssumption
  <2>. QED  BY <1>1, <2>1 DEF PoolRecords, NoPool, Uint64
<1>3. PoolBacked'
  BY <1>2 DEF PoolBacked, BackedBy
<1>4. /\ balance' = [balance EXCEPT ![a] = @ - 0] /\ balance[a] - 0 \in Uint64
      /\ vaiBalance' = [vaiBalance EXCEPT ![a] = @ - 0] /\ vaiBalance[a] - 0 \in Uint64
      /\ lp' = [lp EXCEPT ![a] = @ + 0] /\ lp[a] + 0 \in Uint64
  BY <1>1, LedgerAssumption DEF PoolTyped, Uint64
<1>5. /\ pool'.reserve0 = pool.reserve0 + 0 /\ pool'.reserve1 = pool.reserve1 + 0
      /\ pool'.totalLP = pool.totalLP + 0 /\ ~(pool.totalLP > 0)
  BY <1>2
<1>. QED  BY <1>1, <1>2, <1>3, <1>4, <1>5, Zenon DEF Exchange

(* What AddLiquidity mints is backed by what is paid in. *)
LEMMA MintedIsBacked ==
  ASSUME PoolTyped, PoolBacked,
         NEW in, in[1] \in Nat \ {0}, in[2] \in Nat \ {0}, NEW m \in 1 .. MaxUint64,
         FirstLiquidity(in, m) \/ MoreLiquidity(in, m)
  PROVE  /\ BackedBy(pool.reserve0 + in[1], pool.reserve1 + in[2], pool.totalLP + m)
         /\ pool.totalLP > 0 =>
               pool.reserve0 * pool.reserve1 * (pool.totalLP + m) * (pool.totalLP + m)
                 <= (pool.reserve0 + in[1]) * (pool.reserve1 + in[2])
                      * pool.totalLP * pool.totalLP
<1> DEFINE L == pool.totalLP
           r0 == pool.reserve0
           r1 == pool.reserve1
           i0 == in[1]
           i1 == in[2]
<1>1. /\ L \in Nat /\ r0 \in Nat /\ r1 \in Nat /\ i0 \in Nat \ {0} /\ i1 \in Nat \ {0}
      /\ m \in Nat \ {0} /\ BackedBy(r0, r1, L)
  BY PoolNumbers DEF PoolBacked
<1>2. CASE FirstLiquidity(in, m)
  <2>1. L = 0 /\ m = IntSqrt(i0 * i1)
    BY <1>2 DEF FirstLiquidity
  <2>2. i0 * i1 \in Nat
    BY <1>1
  <2>3. m * m <= i0 * i1
    BY <2>1, <2>2, IntSqrtIsFloorRoot
  <2>4. r0 = 0 /\ r1 = 0
    BY <1>1, <2>1 DEF BackedBy
  <2>5. r0 + i0 = i0 /\ r1 + i1 = i1 /\ L + m = m
    BY <1>1, <2>1, <2>4
  <2>6. BackedBy(i0, i1, m)
    BY <1>1, <2>3 DEF BackedBy
  <2>. QED  BY <2>1, <2>5, <2>6
<1>3. CASE MoreLiquidity(in, m)
  <2> DEFINE q0 == (i0 * L) \div r0
             q1 == (i1 * L) \div r1
  <2>1. L # 0 /\ r0 # 0 /\ r1 # 0 /\ m = (IF q0 < q1 THEN q0 ELSE q1)
    BY <1>3 DEF MoreLiquidity, MulDiv, MinU64
  <2>2. q0 \in Nat /\ q0 * r0 <= i0 * L /\ q1 \in Nat /\ q1 * r1 <= i1 * L
    <3>1. i0 * L \in Nat /\ i1 * L \in Nat
      BY <1>1
    <3>. QED  BY <1>1, <2>1, <3>1, Quotient
  <2>. HIDE DEF L, r0, r1, i0, i1, q0, q1
  <2>3. m <= q0 /\ m <= q1
    BY <1>1, <2>1, <2>2
  <2>4. m * r0 <= q0 * r0 /\ m * r1 <= q1 * r1
    BY <1>1, <2>2, <2>3, MulMono
  <2>5. m * r0 <= i0 * L /\ m * r1 <= i1 * L
    <3>1. /\ m * r0 \in Nat /\ m * r1 \in Nat /\ q0 * r0 \in Nat /\ q1 * r1 \in Nat
          /\ i0 * L \in Nat /\ i1 * L \in Nat
      BY <1>1, <2>2
    <3>. QED  BY <2>2, <2>4, <3>1
  <2>6. FairSide(r0, r0 + i0, L, L + m) /\ FairSide(r1, r1 + i1, L, L + m)
    BY <1>1, <2>5, DepositFair
  <2>7. r0 + i0 \in Nat \ {0} /\ r1 + i1 \in Nat \ {0} /\ L + m \in Nat \ {0}
    BY <1>1
  <2>8. r0 * r1 * (L + m) * (L + m) <= (r0 + i0) * (r1 + i1) * L * L
    BY <1>1, <2>6, <2>7, FairProduct
  <2>9. (L + m) * (L + m) <= (r0 + i0) * (r1 + i1)
    <3>1. L * L <= r0 * r1
      BY <1>1 DEF BackedBy
    <3>. QED  BY <1>1, <2>1, <2>7, <2>8, <3>1, BackingStays
  <2>10. BackedBy(r0 + i0, r1 + i1, L + m)
    BY <2>7, <2>9 DEF BackedBy
  <2>. QED  BY <2>8, <2>10 DEF L, r0, r1, i0, i1
<1>. QED  BY <1>2, <1>3

LEMMA AddExchanges ==
  ASSUME PoolTyped, PoolBacked, NEW a \in Actors, NEW x, NEW y, NEW v \in Amounts, NEW w \in Amounts,
         NEW o, AddLiquidity(a, x, y, v, w, o)
  PROVE  \E d0, d1, m \in Int : Exchange(a, d0, d1, m)
<1> DEFINE in == MapPairAmounts(x, v, w)
<1>1. v \in Nat \ {0} /\ w \in Nat \ {0}
  BY LedgerAssumption DEF AddLiquidity
<1>2. /\ in[1] = (IF x = AssetVEIL THEN v ELSE w)
      /\ in[2] = (IF x = AssetVEIL THEN w ELSE v)
      /\ in[1] \in Nat \ {0} /\ in[2] \in Nat \ {0}
  BY <1>1 DEF MapPairAmounts
<1>3. /\ (IF AssetVEIL = x THEN v ELSE w) = in[1]
      /\ (IF AssetVAI = x THEN v ELSE w) = in[2]
  <2>1. {x, y} = {AssetVEIL, AssetVAI}
    BY DEF AddLiquidity, ValidateAssetPair
  <2>. QED  BY <1>2, <2>1 DEF AssetVEIL, AssetVAI
<1>4. /\ CanSub(balance, a, in[1]) /\ balance' = Sub(balance, a, in[1])
      /\ CanSub(vaiBalance, a, in[2]) /\ vaiBalance' = Sub(vaiBalance, a, in[2])
      /\ UNCHANGED <<now, burned, vaiState, risk, reserve, mintedAt>>
  BY <1>3 DEF AddLiquidity
<1>5. PICK m \in 1 .. MaxUint64 :
          /\ FirstLiquidity(in, m) \/ MoreLiquidity(in, m)
          /\ FitsUint64(pool.reserve0 + in[1]) /\ FitsUint64(pool.reserve1 + in[2])
          /\ FitsUint64(pool.totalLP + m)
          /\ pool' = [pool EXCEPT !.reserve0 = @ + in[1], !.reserve1 = @ + in[2],
                                  !.totalLP = @ + m]
          /\ CanAdd(lp, a, m, MaxUint64)
          /\ lp' = Add(lp, a, m)
  BY DEF AddLiquidity
<1>. HIDE DEF in
<1>6. /\ pool' \in PoolRecords
      /\ pool'.reserve0 = pool.reserve0 + in[1]
      /\ pool'.reserve1 = pool.reserve1 + in[2]
      /\ pool'.totalLP = pool.totalLP + m
  <2>1. /\ pool.reserve0 + in[1] \in Uint64 /\ pool.reserve1 + in[2] \in Uint64
        /\ pool.totalLP + m \in Uint64
    BY <1>2, <1>5, PoolNumbers DEF FitsUint64, Uint64
  <2>2. pool \in PoolRecords
    BY DEF PoolTyped
  <2>3. Grown(pool, pool', in[1], in[2], m)
    BY <1>5 DEF Grown
  <2>. QED  BY <2>1, <2>2, <2>3, PoolGrows
<1>7. /\ BackedBy(pool.reserve0 + in[1], pool.reserve1 + in[2], pool.totalLP + m)
      /\ pool.totalLP > 0 =>
            pool.reserve0 * pool.reserve1 * (pool.totalLP + m) * (pool.totalLP + m)
              <= (pool.reserve0 + in[1]) * (pool.reserve1 + in[2])
                   * pool.totalLP * pool.totalLP
  BY <1>2, <1>5, MintedIsBacked
<1>8. /\ balance' = [balance EXCEPT ![a] = @ - in[1]] /\ balance[a] - in[1] \in Uint64
      /\ vaiBalance' = [vaiBalance EXCEPT ![a] = @ - in[2]] /\ vaiBalance[a] - in[2] \in Uint64
  BY <1>2, <1>4, LedgerAssumption DEF PoolTyped, CanSub, Sub, Uint64
<1>9. lp' = [lp EXCEPT ![a] = @ + m] /\ lp[a] + m \in Uint64
  BY <1>5, LedgerAssumption DEF PoolTyped, CanAdd, Add, Uint64
<1>10. Exchange(a, in[1], in[2], m)
  BY <1>4, <1>6, <1>7, <1>8, <1>9, Zenon DEF Exchange, PoolBacked
<1>11. in[1] \in Int /\ in[2] \in Int /\ m \in Int
  BY <1>2
<1>. QED  BY <1>10, <1>11

(* Paying in a negative amount is being paid. *)
LEMMA Negated ==
  ASSUME NEW f \in [Actors -> Uint64], NEW a \in Actors, NEW d \in Nat
  PROVE  /\ Add(f, a, d) = [f EXCEPT ![a] = @ - (-d)] /\ f[a] - (-d) = f[a] + d
         /\ Sub(f, a, d) = [f EXCEPT ![a] = @ + (-d)] /\ f[a] + (-d) = f[a] - d
<1>1. f[a] \in Int /\ -d \in Int
  BY LedgerAssumption DEF Uint64
<1>2. f[a] - (-d) = f[a] + d /\ f[a] + (-d) = f[a] - d
  BY <1>1
<1>. QED  BY <1>2 DEF Add, Sub

(* What RemoveLiquidity pays on one side for l of L shares: all of the     *)
(* reserve for all of the shares, less than the reserve for fewer.         *)
LEMMA WithdrawnPart ==
  ASSUME NEW r \in Nat \ {0}, NEW L \in Nat \ {0}, NEW l \in Nat, l <= L,
         NEW o, o = (l * r) \div L
  PROVE  /\ o \in Nat /\ o <= r /\ o * L <= l * r
         /\ l = L => o = r
         /\ l < L => o < r
<1>1. l * r \in Nat
  OBVIOUS
<1>2. o \in Nat /\ o * L <= l * r /\ l * r < (o + 1) * L
  BY <1>1, Quotient
<1>3. r * L \in Nat /\ o * L \in Nat /\ (o + 1) * L \in Nat
  BY <1>2
<1>4. l * r <= r * L
  <2>1. l * r <= L * r
    BY MulMono
  <2>. QED  BY <2>1
<1>5. o <= r
  <2>1. o * L <= r * L
    BY <1>1, <1>2, <1>3, <1>4
  <2>. QED  BY <1>2, <2>1, MulCancel
<1>6. CASE l = L
  <2>1. CASE o + 1 <= r
    <3>1. (o + 1) * L <= r * L
      BY <1>2, <2>1, MulMono
    <3>2. l * r = r * L
      BY <1>6
    <3>. QED  BY <1>1, <1>2, <1>3, <3>1, <3>2
  <2>. QED  BY <1>2, <1>5, <1>6, <2>1
<1>7. CASE l < L
  <2>1. l * r < L * r
    BY <1>7, MulStrict
  <2>2. CASE o = r
    BY <1>1, <1>2, <1>3, <2>1, <2>2
  <2>. QED  BY <1>2, <1>5, <1>7, <2>2
<1>. QED  BY <1>2, <1>5, <1>6, <1>7

(* A withdrawal of l shares leaves the others backed and at their value. *)
LEMMA WithdrawKeeps ==
  ASSUME NEW r0 \in Nat \ {0}, NEW r1 \in Nat \ {0}, NEW L \in Nat \ {0}, NEW l \in Nat \ {0},
         l <= L, BackedBy(r0, r1, L),
         NEW o0, o0 = (l * r0) \div L, NEW o1, o1 = (l * r1) \div L
  PROVE  /\ o0 \in Nat /\ o0 <= r0 /\ o1 \in Nat /\ o1 <= r1
         /\ BackedBy(r0 - o0, r1 - o1, L - l)
         /\ L - l > 0 => r0 * r1 * (L - l) * (L - l) <= (r0 - o0) * (r1 - o1) * L * L
<1>1. /\ o0 \in Nat /\ o0 <= r0 /\ o0 * L <= l * r0
      /\ l = L => o0 = r0
      /\ l < L => o0 < r0
  BY WithdrawnPart
<1>2. /\ o1 \in Nat /\ o1 <= r1 /\ o1 * L <= l * r1
      /\ l = L => o1 = r1
      /\ l < L => o1 < r1
  BY WithdrawnPart
<1>3. r0 - o0 \in Nat /\ r1 - o1 \in Nat /\ L - l \in Nat
  BY <1>1, <1>2
<1>4. r0 * r1 * (L - l) * (L - l) <= (r0 - o0) * (r1 - o1) * L * L
  <2>1. FairSide(r0, r0 - o0, L, L - l) /\ FairSide(r1, r1 - o1, L, L - l)
    BY <1>1, <1>2, WithdrawFair
  <2>. QED  BY <1>3, <2>1, FairProduct
<1>5. (L - l) * (L - l) <= (r0 - o0) * (r1 - o1)
  BY <1>3, <1>4, BackingStays DEF BackedBy
<1>6. CASE l = L
  <2>1. r0 - o0 = 0 /\ r1 - o1 = 0 /\ L - l = 0
    BY <1>1, <1>2, <1>6
  <2>. QED  BY <1>1, <1>2, <1>4, <1>5, <2>1 DEF BackedBy
<1>7. CASE l < L
  <2>1. r0 - o0 # 0 /\ r1 - o1 # 0 /\ L - l # 0
    BY <1>1, <1>2, <1>7
  <2>. QED  BY <1>1, <1>2, <1>4, <1>5, <2>1 DEF BackedBy
<1>. QED  BY <1>6, <1>7

Shrunk(p, q, i, j, k) == q = [p EXCEPT !.reserve0 = @ - i, !.reserve1 = @ - j, !.totalLP = @ - k]

LEMMA PoolShrinks ==
  ASSUME NEW p \in PoolRecords, NEW i, NEW j, NEW k,
         p.reserve0 - i \in Uint64, p.reserve1 - j \in Uint64, p.totalLP - k \in Uint64,
         NEW q, Shrunk(p, q, i, j, k)
  PROVE  /\ q \in PoolRecords
         /\ q.reserve0 = p.reserve0 - i /\ q.reserve1 = p.reserve1 - j /\ q.totalLP = p.totalLP - k
<1> DEFINE p1 == [p EXCEPT !.reserve0 = p.reserve0 - i]
           p2 == [p1 EXCEPT !.reserve1 = p.reserve1 - j]
           p3 == [p2 EXCEPT !.totalLP = p.totalLP - k]
<1>1. p1 \in PoolRecords /\ p1.reserve0 = p.reserve0 - i
  BY DEF PoolRecords
<1>0. q = p3
  BY DEF PoolRecords, Shrunk
<1>. HIDE DEF p1
<1>2. p2 \in PoolRecords /\ p2.reserve0 = p.reserve0 - i /\ p2.reserve1 = p.reserve1 - j
  BY <1>1 DEF PoolRecords
<1>. HIDE DEF p2
<1>3. /\ p3 \in PoolRecords
      /\ p3.reserve0 = p.reserve0 - i /\ p3.reserve1 = p.reserve1 - j /\ p3.totalLP = p.totalLP - k
  BY <1>2 DEF PoolRecords
<1>. QED  BY <1>0, <1>3

LEMMA RemoveExchanges ==
  ASSUME PoolTyped, PoolBacked, NEW a \in Actors, NEW x, NEW y, NEW l \in Amounts, NEW v, NEW w,
         RemoveLiquidity(a, x, y, l, v, w)
  PROVE  \E d0, d1, m \in Int : Exchange(a, d0, d1, m)
<1> DEFINE L == pool.totalLP
           r0 == pool.reserve0
           r1 == pool.reserve1
           o0 == (l * r0) \div L
           o1 == (l * r1) \div L
<1>1. /\ l # 0 /\ L # 0 /\ r0 # 0 /\ r1 # 0 /\ l <= L
      /\ pool' = [pool EXCEPT !.reserve0 = @ - o0, !.reserve1 = @ - o1, !.totalLP = @ - l]
      /\ CanSub(lp, a, l) /\ lp' = Sub(lp, a, l)
      /\ CanAdd(balance, a, o0, MaxUint64) /\ balance' = Add(balance, a, o0)
      /\ CanAdd(vaiBalance, a, o1, MaxUint64) /\ vaiBalance' = Add(vaiBalance, a, o1)
      /\ UNCHANGED <<now, burned, vaiState, risk, reserve, mintedAt>>
  <2>1. pool.totalLP \in Nat /\ l \in Nat /\ l <= L <=> L >= l
    BY PoolNumbers, LedgerAssumption
  <2>. QED  BY <2>1 DEF RemoveLiquidity, MulDiv
<1>2. /\ L \in Uint64 /\ r0 \in Uint64 /\ r1 \in Uint64 /\ MaxUint64 \in Nat
      /\ L \in Nat \ {0} /\ r0 \in Nat \ {0} /\ r1 \in Nat \ {0} /\ l \in Nat \ {0}
      /\ BackedBy(r0, r1, L)
  BY <1>1, PoolNumbers, LedgerAssumption DEF PoolBacked
<1>3. /\ o0 \in Nat /\ o0 <= r0 /\ o1 \in Nat /\ o1 <= r1
      /\ BackedBy(r0 - o0, r1 - o1, L - l)
      /\ L - l > 0 => r0 * r1 * (L - l) * (L - l) <= (r0 - o0) * (r1 - o1) * L * L
  BY <1>1, <1>2, WithdrawKeeps
<1>. HIDE DEF o0, o1
<1>4. /\ pool' \in PoolRecords
      /\ pool'.reserve0 = r0 - o0 /\ pool'.reserve1 = r1 - o1 /\ pool'.totalLP = L - l
  <2>1. r0 - o0 \in Uint64 /\ r1 - o1 \in Uint64 /\ L - l \in Uint64
    BY <1>1, <1>2, <1>3 DEF Uint64
  <2>2. pool \in PoolRecords
    BY DEF PoolTyped
  <2>3. Shrunk(pool, pool', o0, o1, l)
    BY <1>1 DEF Shrunk
  <2>. QED  BY <2>1, <2>2, <2>3, PoolShrinks
<1>5. /\ pool'.reserve0 = pool.reserve0 + (-o0) /\ pool'.reserve1 = pool.reserve1 + (-o1)
      /\ pool'.totalLP = pool.totalLP + (-l)
      /\ -o0 \in Int /\ -o1 \in Int /\ -l \in Int
  BY <1>2, <1>3, <1>4
<1>6. /\ balance' = [balance EXCEPT ![a] = @ - (-o0)] /\ balance[a] - (-o0) \in Uint64
      /\ vaiBalance' = [vaiBalance EXCEPT ![a] = @ - (-o1)] /\ vaiBalance[a] - (-o1) \in Uint64
  <2>1. balance \in [Actors -> Uint64] /\ vaiBalance \in [Actors -> Uint64]
    BY DEF PoolTyped
  <2>2. balance[a] + o0 \in Uint64 /\ vaiBalance[a] + o1 \in Uint64
    BY <1>1, <1>2, <1>3, <2>1 DEF CanAdd, Uint64
  <2>. QED  BY <1>1, <1>3, <2>1, <2>2, Negated
<1>7. lp' = [lp EXCEPT ![a] = @ + (-l)] /\ lp[a] + (-l) \in Uint64
  <2>1. lp \in [Actors -> Uint64]
    BY DEF PoolTyped
  <2>2. lp[a] - l \in Uint64
    BY <1>1, <1>2, <2>1 DEF CanSub, Uint64
  <2>. QED  BY <1>1, <1>2, <2>1, <2>2, Negated
<1>8. PoolBacked'
  BY <1>3, <1>4, Zenon DEF PoolBacked
<1>9. pool.totalLP > 0 /\ pool'.totalLP > 0 =>
          pool.reserve0 * pool.reserve1 * pool'.totalLP * pool'.totalLP
             <= pool'.reserve0 * pool'.reserve1 * pool.totalLP * pool.totalLP
  BY <1>3, <1>4, Zenon
<1>10. Exchange(a, -o0, -o1, -l)
  BY <1>1, <1>4, <1>5, <1>6, <1>7, <1>8, <1>9, Zenon DEF Exchange
<1>. QED  BY <1>5, <1>10

(* What SwapExactIn lets out for v is less than the reserve and leaves the *)
(* product of the reserves at least where it was, whatever the fee.        *)
LEMMA SwapOut ==
  ASSUME PoolTyped, NEW p \in Nat, NEW q \in Nat, NEW v \in Nat, NEW o \in Nat, NEW n,
         SwapAllowed(p, q, v, o, n)
  PROVE  p # 0 /\ q # 0 /\ o < q /\ p * q <= (p + v) * (q - o) /\ p + v <= MaxUint64
<1> DEFINE keep == BipsDenominator - pool.feeBips
           w == (v * keep) \div BipsDenominator
<1>1. /\ p # 0 /\ q # 0 /\ o = (q * w) \div (p + w) /\ p + v <= MaxUint64
  BY DEF SwapAllowed, MulDiv, AmountInWithFee, FitsUint64
<1>2. BipsDenominator \in Nat \ {0} /\ keep \in Nat /\ keep <= BipsDenominator
  BY PoolNumbers
<1>. HIDE DEF keep
<1>3. w \in Nat /\ w * BipsDenominator <= v * keep
  <2>1. v * keep \in Nat
    BY <1>2
  <2>. QED  BY <1>2, <2>1, Quotient
<1>. HIDE DEF w
<1>4. w <= v
  <2>1. v * keep <= v * BipsDenominator
    BY <1>2, MulMono
  <2>2. w * BipsDenominator <= v * BipsDenominator
    <3>1. w * BipsDenominator \in Nat /\ v * keep \in Nat /\ v * BipsDenominator \in Nat
      BY <1>2, <1>3
    <3>. QED  BY <1>3, <2>1, <3>1
  <2>. QED  BY <1>2, <1>3, <2>2, MulCancel
<1>5. o * (p + w) <= q * w
  <2>1. q * w \in Nat /\ p + w \in Nat \ {0}
    BY <1>1, <1>3
  <2>. QED  BY <1>1, <2>1, Quotient
<1>6. p \in Nat \ {0} /\ q \in Nat \ {0}
  BY <1>1
<1>. QED  BY <1>1, <1>3, <1>4, <1>5, <1>6, SwapFair

(* Reserves whose product does not fall keep the same shares backed. *)
LEMMA SwapKeeps ==
  ASSUME NEW r0 \in Nat \ {0}, NEW r1 \in Nat \ {0}, NEW s0 \in Nat \ {0}, NEW s1 \in Nat \ {0},
         NEW L \in Nat, BackedBy(r0, r1, L), r0 * r1 <= s0 * s1
  PROVE  BackedBy(s0, s1, L) /\ r0 * r1 * L * L <= s0 * s1 * L * L
<1>1. L # 0 /\ L * L <= r0 * r1
  BY DEF BackedBy
<1>2. r0 * r1 \in Nat /\ s0 * s1 \in Nat /\ L * L \in Nat
  OBVIOUS
<1>3. L * L <= s0 * s1
  BY <1>1, <1>2
<1>4. (r0 * r1) * (L * L) <= (s0 * s1) * (L * L)
  BY <1>2, MulMono
<1>5. r0 * r1 * L * L = (r0 * r1) * (L * L) /\ s0 * s1 * L * L = (s0 * s1) * (L * L)
  OBVIOUS
<1>. QED  BY <1>1, <1>3, <1>4, <1>5 DEF BackedBy

Holds(q, x, y, z) == q \in PoolRecords /\ q.reserve0 = x /\ q.reserve1 = y /\ q.totalLP = z
Swapped0(p, q, i, o) == q = [p EXCEPT !.reserve0 = @ + i, !.reserve1 = @ - o]
Swapped1(p, q, i, o) == q = [p EXCEPT !.reserve1 = @ + i, !.reserve0 = @ - o]

LEMMA PoolSwaps0 ==
  ASSUME NEW p \in PoolRecords, NEW i, NEW o, p.reserve0 + i \in Uint64, p.reserve1 - o \in Uint64,
         NEW q, Swapped0(p, q, i, o)
  PROVE  Holds(q, p.reserve0 + i, p.reserve1 - o, p.totalLP)
<1> DEFINE p1 == [p EXCEPT !.reserve0 = p.reserve0 + i]
           p2 == [p1 EXCEPT !.reserve1 = p.reserve1 - o]
<1>1. p1 \in PoolRecords /\ p1.reserve0 = p.reserve0 + i /\ p1.totalLP = p.totalLP
  BY DEF PoolRecords
<1>2. q = p2
  BY DEF PoolRecords, Swapped0
<1>. HIDE DEF p1
<1>3. /\ p2 \in PoolRecords
      /\ p2.reserve0 = p.reserve0 + i /\ p2.reserve1 = p.reserve1 - o /\ p2.totalLP = p.totalLP
  BY <1>1 DEF PoolRecords
<1>. QED  BY <1>2, <1>3 DEF Holds

LEMMA PoolSwaps1 ==
  ASSUME NEW p \in PoolRecords, NEW i, NEW o, p.reserve1 + i \in Uint64, p.reserve0 - o \in Uint64,
         NEW q, Swapped1(p, q, i, o)
  PROVE  Holds(q, p.reserve0 - o, p.reserve1 + i, p.totalLP)
<1> DEFINE p1 == [p EXCEPT !.reserve1 = p.reserve1 + i]
           p2 == [p1 EXCEPT !.reserve0 = p.reserve0 - o]
<1>1. p1 \in PoolRecords /\ p1.reserve1 = p.reserve1 + i /\ p1.totalLP = p.totalLP
  BY DEF PoolRecords
<1>2. q = p2
  BY DEF PoolRecords, Swapped1
<1>. HIDE DEF p1
<1>3. /\ p2 \in PoolRecords
      /\ p2.reserve0 = p.reserve0 - o /\ p2.reserve1 = p.reserve1 + i /\ p2.totalLP = p.totalLP
  BY <1>1 DEF PoolRecords
<1>. QED  BY <1>2, <1>3 DEF Holds

LEMMA SwapExchanges ==
  ASSUME PoolTyped, PoolBacked, NEW a \in Actors, NEW x, NEW y, NEW v \in Amounts, NEW n,
         SwapExactIn(a, x, y, v, n)
  PROVE  \E d0, d1, m \in Int : Exchange(a, d0, d1, m)
<1> DEFINE L == pool.totalLP
           r0 == pool.reserve0
           r1 == pool.reserve1
<1>0. UNCHANGED <<now, burned, lp, vaiState, risk, reserve, mintedAt>>
  BY DEF SwapExactIn
<1>1. v \in Nat /\ MaxUint64 \in Nat
  BY LedgerAssumption
<1>2. /\ L \in Nat /\ r0 \in Nat /\ r1 \in Nat /\ L \in Uint64 /\ r0 \in Uint64 /\ r1 \in Uint64
      /\ BackedBy(r0, r1, L)
  BY PoolNumbers DEF PoolBacked
<1>3. /\ balance \in [Actors -> Uint64] /\ vaiBalance \in [Actors -> Uint64]
      /\ lp \in [Actors -> Uint64] /\ pool \in PoolRecords
  BY DEF PoolTyped
<1>4. lp' = [lp EXCEPT ![a] = @ + 0] /\ lp[a] + 0 \in Uint64
  <2>1. lp[a] + 0 = lp[a] /\ lp[a] \in Uint64
    BY <1>1, <1>3 DEF Uint64
  <2>2. lp' = [lp EXCEPT ![a] = lp[a]]
    BY <1>0, <1>3
  <2>. QED  BY <2>1, <2>2
<1>5. ASSUME NEW o \in 1 .. r1, SwapAllowed(r0, r1, v, o, n),
             pool' = [pool EXCEPT !.reserve0 = @ + v, !.reserve1 = @ - o],
             CanSub(balance, a, v), balance' = Sub(balance, a, v),
             CanAdd(vaiBalance, a, o, MaxUint64), vaiBalance' = Add(vaiBalance, a, o)
      PROVE  Exchange(a, v, -o, 0)
  <2>1. /\ o \in Nat /\ r0 \in Nat \ {0} /\ r1 \in Nat \ {0}
        /\ o < r1 /\ r0 * r1 <= (r0 + v) * (r1 - o) /\ r0 + v <= MaxUint64
    <3>1. o \in Nat
      BY <1>2
    <3>. QED  BY <1>1, <1>2, <1>5, <3>1, SwapOut
  <2>2. r0 + v \in Uint64 /\ r1 - o \in Uint64 /\ r0 + v \in Nat \ {0} /\ r1 - o \in Nat \ {0}
    BY <1>1, <1>2, <2>1 DEF Uint64
  <2>3. Swapped0(pool, pool', v, o)
    BY <1>5 DEF Swapped0
  <2>4. /\ pool' \in PoolRecords
        /\ pool'.reserve0 = r0 + v /\ pool'.reserve1 = r1 - o /\ pool'.totalLP = L
    <3>1. pool \in PoolRecords /\ r0 + v \in Uint64 /\ r1 - o \in Uint64
      BY <1>3, <2>2
    <3>2. Holds(pool', r0 + v, r1 - o, L)
      BY <2>3, <3>1, PoolSwaps0
    <3>. QED  BY <3>2 DEF Holds
  <2>5. BackedBy(r0 + v, r1 - o, L) /\ r0 * r1 * L * L <= (r0 + v) * (r1 - o) * L * L
    BY <1>2, <2>1, <2>2, SwapKeeps
  <2>6. PoolBacked'
    BY <2>4, <2>5, Zenon DEF PoolBacked
  <2>7. /\ balance' = [balance EXCEPT ![a] = @ - v] /\ balance[a] - v \in Uint64
    BY <1>1, <1>3, <1>5 DEF CanSub, Sub, Uint64
  <2>8. vaiBalance' = [vaiBalance EXCEPT ![a] = @ - (-o)] /\ vaiBalance[a] - (-o) \in Uint64
    <3>1. vaiBalance[a] + o \in Uint64
      BY <1>1, <1>3, <1>5, <2>1 DEF CanAdd, Uint64
    <3>. QED  BY <1>3, <1>5, <2>1, <3>1, Negated
  <2>9. pool'.reserve1 = pool.reserve1 + (-o) /\ pool'.totalLP = pool.totalLP + 0
    <3>1. r1 - o = r1 + (-o) /\ L = L + 0
      BY <1>2, <2>1
    <3>. QED  BY <2>4, <3>1, Zenon
  <2>10. pool.totalLP > 0 /\ pool'.totalLP > 0 =>
            pool.reserve0 * pool.reserve1 * pool'.totalLP * pool'.totalLP
               <= pool'.reserve0 * pool'.reserve1 * pool.totalLP * pool.totalLP
    BY <2>4, <2>5, Zenon
  <2>. QED  BY <1>0, <1>4, <2>4, <2>6, <2>7, <2>8, <2>9, <2>10, Zenon DEF Exchange
<1>6. ASSUME NEW o \in 1 .. r0, SwapAllowed(r1, r0, v, o, n),
             pool' = [pool EXCEPT !.reserve1 = @ + v, !.reserve0 = @ - o],
             CanSub(vaiBalance, a, v), vaiBalance' = Sub(vaiBalance, a, v),
             CanAdd(balance, a, o, MaxUint64), balance' = Add(balance, a, o)
      PROVE  Exchange(a, -o, v, 0)
  <2>1. /\ o \in Nat /\ r0 \in Nat \ {0} /\ r1 \in Nat \ {0}
        /\ o < r0 /\ r0 * r1 <= (r0 - o) * (r1 + v) /\ r1 + v <= MaxUint64
    <3>1. o \in Nat
      BY <1>2
    <3>2. r1 # 0 /\ r0 # 0 /\ o < r0 /\ r1 * r0 <= (r1 + v) * (r0 - o) /\ r1 + v <= MaxUint64
      BY <1>1, <1>2, <1>6, <3>1, SwapOut
    <3>3. r1 * r0 = r0 * r1 /\ (r1 + v) * (r0 - o) = (r0 - o) * (r1 + v)
      BY <1>1, <1>2, <3>1
    <3>. QED  BY <1>2, <3>1, <3>2, <3>3
  <2>2. r1 + v \in Uint64 /\ r0 - o \in Uint64 /\ r1 + v \in Nat \ {0} /\ r0 - o \in Nat \ {0}
    BY <1>1, <1>2, <2>1 DEF Uint64
  <2>3. Swapped1(pool, pool', v, o)
    BY <1>6 DEF Swapped1
  <2>4. /\ pool' \in PoolRecords
        /\ pool'.reserve0 = r0 - o /\ pool'.reserve1 = r1 + v /\ pool'.totalLP = L
    <3>1. pool \in PoolRecords /\ r1 + v \in Uint64 /\ r0 - o \in Uint64
      BY <1>3, <2>2
    <3>2. Holds(pool', r0 - o, r1 + v, L)
      BY <2>3, <3>1, PoolSwaps1
    <3>. QED  BY <3>2 DEF Holds
  <2>5. BackedBy(r0 - o, r1 + v, L) /\ r0 * r1 * L * L <= (r0 - o) * (r1 + v) * L * L
    BY <1>2, <2>1, <2>2, SwapKeeps
  <2>6. PoolBacked'
    BY <2>4, <2>5, Zenon DEF PoolBacked
  <2>7. vaiBalance' = [vaiBalance EXCEPT ![a] = @ - v] /\ vaiBalance[a] - v \in Uint64
    BY <1>1, <1>3, <1>6 DEF CanSub, Sub, Uint64
  <2>8. balance' = [balance EXCEPT ![a] = @ - (-o)] /\ balance[a] - (-o) \in Uint64
    <3>1. balance[a] + o \in Uint64
      BY <1>1, <1>3, <1>6, <2>1 DEF CanAdd, Uint64
    <3>. QED  BY <1>3, <1>6, <2>1, <3>1, Negated
  <2>9. pool'.reserve0 = pool.reserve0 + (-o) /\ pool'.totalLP = pool.totalLP + 0
    <3>1. r0 - o = r0 + (-o) /\ L = L + 0
      BY <1>2, <2>1
    <3>. QED  BY <2>4, <3>1, Zenon
  <2>10. pool.totalLP > 0 /\ pool'.totalLP > 0 =>
            pool.reserve0 * pool.reserve1 * pool'.totalLP * pool'.totalLP
               <= pool'.reserve0 * pool'.reserve1 * pool.totalLP * pool.totalLP
    BY <2>4, <2>5, Zenon
  <2>. QED  BY <1>0, <1>4, <2>4, <2>6, <2>7, <2>8, <2>9, <2>10, Zenon DEF Exchange
<1>7. \/ \E o \in 1 .. r1 : /\ SwapAllowed(r0, r1, v, o, n)
                           /\ pool' = [pool EXCEPT !.reserve0 = @ + v, !.reserve1 = @ - o]
                           /\ CanSub(balance, a, v) /\ balance' = Sub(balance, a, v)
                           /\ CanAdd(vaiBalance, a, o, MaxUint64)
                           /\ vaiBalance' = Add(vaiBalance, a, o)
      \/ \E o \in 1 .. r0 : /\ SwapAllowed(r1, r0, v, o, n)
                           /\ pool' = [pool EXCEPT !.reserve1 = @ + v, !.reserve0 = @ - o]
                           /\ CanSub(vaiBalance, a, v) /\ vaiBalance' = Sub(vaiBalance, a, v)
                           /\ CanAdd(balance, a, o, MaxUint64)
                           /\ balance' = Add(balance, a, o)
  BY Zenon DEF SwapExactIn
<1>8. \/ \E o \in 1 .. r1 : Exchange(a, v, -o, 0)
      \/ \E o \in 1 .. r0 : Exchange(a, -o, v, 0)
  BY <1>5, <1>6, <1>7, Zenon
<1>9. v \in Int /\ 0 \in Int /\ \A o \in Nat : -o \in Int
  BY <1>1
<1>10. \A o \in 1 .. r1 : o \in Nat
  BY <1>2
<1>11. \A o \in 1 .. r0 : o \in Nat
  BY <1>2
<1>. QED  BY <1>8, <1>9, <1>10, <1>11, Zenon
-----------------------------------------------------------------------------
(* One balance changed by d. *)
Credited(f, g, a, d) == f \in [Actors -> Uint64] /\ g = [f EXCEPT ![a] = @ + d]
Debited(f, g, a, d) == f \in [Actors -> Uint64] /\ g = [f EXCEPT ![a] = @ - d]

(* The total of the balances, and what changing one of them does to it. *)
LEMMA TotalMoves ==
  ASSUME NEW f, NEW g, NEW a \in Actors, NEW d \in Int, Credited(f, g, a, d)
  PROVE  SumFunction(f) \in Int /\ SumFunction(g) = SumFunction(f) + d
<1>1. IsFiniteSet(Actors) /\ DOMAIN f = Actors /\ DOMAIN g = Actors
  BY LedgerAssumption DEF Credited
<1>2. Moved(f, g, Actors, a, d)
  BY LedgerAssumption DEF Moved, Uint64, Credited
<1>. QED  BY <1>1, <1>2, SumMove DEF SumFunction

LEMMA TotalFalls ==
  ASSUME NEW f, NEW g, NEW a \in Actors, NEW d \in Int, Debited(f, g, a, d)
  PROVE  SumFunction(f) \in Int /\ SumFunction(g) = SumFunction(f) - d
<1>1. IsFiniteSet(Actors) /\ DOMAIN f = Actors /\ DOMAIN g = Actors
  BY LedgerAssumption DEF Debited
<1>2. -d \in Int /\ Moved(f, g, Actors, a, -d)
  BY LedgerAssumption DEF Moved, Uint64, Debited
<1>3. SumFunctionOnSet(f, Actors) \in Int
      /\ SumFunctionOnSet(g, Actors) = SumFunctionOnSet(f, Actors) + (-d)
  BY <1>1, <1>2, SumMove
<1>. QED  BY <1>1, <1>3 DEF SumFunction

LEMMA TotalTyped ==
  ASSUME NEW f \in [Actors -> Uint64]
  PROVE  SumFunction(f) \in Nat
<1>1. IsFiniteSet(Actors) /\ DOMAIN f = Actors /\ \A x \in Actors : f[x] \in Nat
  BY LedgerAssumption DEF Uint64
<1>. QED  BY <1>1, SumNat DEF SumFunction

(* Every share is held, every unit of VAI is held or in the pool. *)
Counted ==
    /\ SumFunction(lp) = pool.totalLP
    /\ SumFunction(vaiBalance) + pool.reserve1 = vaiState.totalDebt
    /\ vaiState.totalDebt <= DebtCeiling

(* The inductive invariant. *)
PoolInv == VaiInv /\ PoolTyped /\ PoolBacked /\ Counted

LEMMA PoolInvInit == LedgerInit /\ VaiInit /\ PoolInit => PoolInv
<1> SUFFICES ASSUME LedgerInit, VaiInit, PoolInit PROVE PoolInv
  OBVIOUS
<1>1. VaiInv
  BY VaiInvInit
<1>2. MaxUint64 \in Nat /\ MaxPoolFeeBips \in Nat /\ InitialBalance \in Uint64 /\ DebtCeiling \in Nat
  BY LedgerAssumption, VaiAssumption, PoolAssumption DEF Uint64
<1>3. PoolTyped
  BY <1>2 DEF LedgerInit, VaiInit, PoolInit, PoolTyped, PoolRecords, NoPool, Uint64
<1>4. pool.reserve0 = 0 /\ pool.reserve1 = 0 /\ pool.totalLP = 0 /\ vaiState.totalDebt = 0
  BY DEF PoolInit, NoPool, VaiInit
<1>5. PoolBacked
  BY <1>4 DEF PoolBacked, BackedBy
<1>6. SumFunction(lp) = 0 /\ SumFunction(vaiBalance) = 0
  <2>1. /\ IsFiniteSet(Actors) /\ DOMAIN lp = Actors /\ DOMAIN vaiBalance = Actors
        /\ \A x \in Actors : lp[x] = 0
        /\ \A x \in Actors : vaiBalance[x] = 0
    BY LedgerAssumption DEF PoolInit, VaiInit
  <2>. QED  BY <2>1, SumOfZeros DEF SumFunction
<1>7. Counted
  BY <1>2, <1>4, <1>6 DEF Counted
<1>. QED  BY <1>1, <1>3, <1>5, <1>7 DEF PoolInv

(* An exchange with the pool keeps the invariant and moves VEIL only       *)
(* between the actor and the pool.                                         *)
LEMMA ExchangeKeeps ==
  ASSUME PoolInv, NEW a \in Actors, NEW d0 \in Int, NEW d1 \in Int, NEW m \in Int,
         Exchange(a, d0, d1, m)
  PROVE  /\ PoolInv'
         /\ SumFunction(balance') + pool'.reserve0 = SumFunction(balance) + pool.reserve0
<1>1. PoolTyped /\ VaiInv /\ Counted
  BY DEF PoolInv
<1>2. /\ balance' = [balance EXCEPT ![a] = @ - d0] /\ balance[a] - d0 \in Uint64
      /\ vaiBalance' = [vaiBalance EXCEPT ![a] = @ - d1] /\ vaiBalance[a] - d1 \in Uint64
      /\ lp' = [lp EXCEPT ![a] = @ + m] /\ lp[a] + m \in Uint64
      /\ UNCHANGED <<now, vaiState, risk, reserve, mintedAt>>
  BY DEF Exchange
<1>3. /\ pool' \in PoolRecords /\ PoolBacked'
      /\ pool'.reserve0 = pool.reserve0 + d0
      /\ pool'.reserve1 = pool.reserve1 + d1
      /\ pool'.totalLP = pool.totalLP + m
  BY DEF Exchange
<1>4. /\ balance \in [Actors -> Uint64] /\ vaiBalance \in [Actors -> Uint64]
      /\ lp \in [Actors -> Uint64]
  BY <1>1 DEF PoolTyped
<1>5. /\ balance' \in [Actors -> Uint64] /\ vaiBalance' \in [Actors -> Uint64]
      /\ lp' \in [Actors -> Uint64]
  BY <1>2, <1>4
<1>6. PoolTyped'
  BY <1>3, <1>5 DEF PoolTyped
<1>7. VaiInv'
  BY <1>1, <1>2, <1>5 DEF VaiInv, VaiTypeOK, Clock, Uint64
<1>8. SumFunction(balance) \in Int /\ SumFunction(balance') = SumFunction(balance) - d0
  <2>1. Debited(balance, balance', a, d0)
    BY <1>2, <1>4 DEF Debited
  <2>. QED  BY <2>1, TotalFalls
<1>9. SumFunction(vaiBalance) \in Int /\ SumFunction(vaiBalance') = SumFunction(vaiBalance) - d1
  <2>1. Debited(vaiBalance, vaiBalance', a, d1)
    BY <1>2, <1>4 DEF Debited
  <2>. QED  BY <2>1, TotalFalls
<1>10. SumFunction(lp) \in Int /\ SumFunction(lp') = SumFunction(lp) + m
  <2>1. Credited(lp, lp', a, m)
    BY <1>2, <1>4 DEF Credited
  <2>. QED  BY <2>1, TotalMoves
<1>11. pool.reserve0 \in Int /\ pool.reserve1 \in Int
  BY <1>1, PoolNumbers
<1>12. Counted'
  BY <1>1, <1>2, <1>3, <1>9, <1>10, <1>11 DEF Counted
<1>13. SumFunction(balance') + pool'.reserve0 = SumFunction(balance) + pool.reserve0
  BY <1>3, <1>8, <1>11
<1>. QED  BY <1>3, <1>6, <1>7, <1>12, <1>13 DEF PoolInv

(* Minting and burning keep the debt at what is held. *)
LEMMA VaiKeeps ==
  ASSUME PoolInv, VaiNext, UNCHANGED poolVars
  PROVE  PoolInv' /\ UNCHANGED <<balance, burned>>
<1>1. PoolTyped /\ VaiInv /\ Counted /\ UNCHANGED <<pool, lp>>
  BY DEF PoolInv, poolVars
<1>2. VaiInv'
  BY <1>1, VaiInvStep DEF VaiSpecNext
<1>3. UNCHANGED <<balance, burned>>
  BY DEF VaiNext, MintVAI, BurnVAI, SetRiskParams, UpdateReserveState, ledgerVars
<1>4. vaiBalance \in [Actors -> Uint64] /\ vaiBalance' \in [Actors -> Uint64]
  BY <1>1, <1>2 DEF PoolTyped, VaiInv, VaiTypeOK, Uint64
<1>5. PoolTyped' /\ PoolBacked'
  BY <1>1, <1>3, <1>4 DEF PoolInv, PoolTyped, PoolBacked
<1>6. /\ SumFunction(vaiBalance) \in Int /\ pool.reserve1 \in Int /\ vaiState.totalDebt \in Int
      /\ DebtCeiling \in Nat
  BY <1>1, <1>4, TotalTyped, PoolNumbers, VaiAssumption, LedgerAssumption DEF VaiInv, VaiTypeOK
<1>7. ASSUME NEW a \in Actors, NEW b \in Actors, NEW v \in Amounts, MintVAI(a, b, v)
      PROVE  Counted'
  <2>1. /\ vaiBalance' = [vaiBalance EXCEPT ![b] = @ + v]
        /\ vaiState.totalDebt + v <= DebtCeiling
        /\ vaiState' = [CurrentEpoch EXCEPT !.epochMinted = CurrentEpoch.epochMinted + v,
                                            !.totalDebt = vaiState.totalDebt + v]
    BY <1>7 DEF MintVAI, Add
  <2>2. vaiState'.totalDebt = vaiState.totalDebt + v
    BY <1>1, <2>1, EpochTyped DEF States
  <2>3. v \in Int
    BY LedgerAssumption
  <2>4. SumFunction(vaiBalance') = SumFunction(vaiBalance) + v
    <3>1. Credited(vaiBalance, vaiBalance', b, v)
      BY <1>4, <2>1 DEF Credited
    <3>. QED  BY <2>3, <3>1, TotalMoves
  <2>. QED  BY <1>1, <1>6, <2>1, <2>2, <2>3, <2>4 DEF Counted
<1>8. ASSUME NEW a \in Actors, NEW v \in Amounts, BurnVAI(a, v) PROVE Counted'
  <2>1. /\ vaiBalance' = [vaiBalance EXCEPT ![a] = @ - v]
        /\ vaiState' = [vaiState EXCEPT !.totalDebt = @ - v]
    BY <1>8 DEF BurnVAI, Sub
  <2>2. vaiState'.totalDebt = vaiState.totalDebt - v
    BY <1>1, <2>1 DEF VaiInv, VaiTypeOK
  <2>3. v \in Nat
    BY LedgerAssumption
  <2>4. SumFunction(vaiBalance') = SumFunction(vaiBalance) - v
    <3>1. v \in Int /\ Debited(vaiBalance, vaiBalance', a, v)
      BY <1>4, <2>1, <2>3 DEF Debited
    <3>. QED  BY <3>1, TotalFalls
  <2>. QED  BY <1>1, <1>6, <2>2, <2>3, <2>4 DEF Counted
<1>9. ASSUME UNCHANGED <<vaiBalance, vaiState>> PROVE Counted'
  BY <1>1, <1>9 DEF Counted
<1>10. Counted'
  BY <1>7, <1>8, <1>9 DEF VaiNext, SetRiskParams, UpdateReserveState
<1>. QED  BY <1>2, <1>3, <1>5, <1>10 DEF PoolInv

LEMMA PoolStepExchanges ==
  ASSUME PoolInv, PoolNext
  PROVE  \E a \in Actors, d0, d1, m \in Int : Exchange(a, d0, d1, m)
<1>1. PoolTyped /\ PoolBacked
  BY DEF PoolInv
<1>2. ASSUME NEW a \in Actors, NEW x, NEW y, NEW f, CreatePool(a, x, y, f)
      PROVE  \E d0, d1, m \in Int : Exchange(a, d0, d1, m)
  <2>1. Exchange(a, 0, 0, 0)
    BY <1>1, <1>2, CreateExchanges
  <2>. QED  BY <2>1
<1>. QED  BY <1>1, <1>2, AddExchanges, RemoveExchanges, SwapExchanges, Zenon DEF PoolNext

poolSpecVars == <<ledgerVars, vaiVars, poolVars>>
PoolSpecNext == PoolNext \/ (VaiNext /\ UNCHANGED poolVars)

(* VEIL is in a balance, in the pool, or was burned. *)
VeilConserved ==
    /\ SumFunction(balance) + pool.reserve0 + burned
          = SumFunction([a \in Actors |-> InitialBalance])
    /\ burned \in Nat

LEMMA PoolInvStep ==
  PoolInv /\ [PoolSpecNext]_poolSpecVars => PoolInv'
<1> SUFFICES ASSUME PoolInv, [PoolSpecNext]_poolSpecVars PROVE PoolInv'
  OBVIOUS
<1>1. CASE PoolNext
  BY <1>1, PoolStepExchanges, ExchangeKeeps
<1>2. CASE VaiNext /\ UNCHANGED poolVars
  BY <1>2, VaiKeeps
<1>3. CASE UNCHANGED poolSpecVars
  BY <1>3 DEF poolSpecVars, ledgerVars, vaiVars, poolVars, PoolInv, VaiInv, VaiTypeOK, Clock,
              PoolTyped, PoolBacked, Counted
<1>. QED  BY <1>1, <1>2, <1>3 DEF PoolSpecNext

LEMMA VeilConservedInit == LedgerInit /\ VaiInit /\ PoolInit => VeilConserved
<1> SUFFICES ASSUME LedgerInit, VaiInit, PoolInit PROVE VeilConserved
  OBVIOUS
<1>1. SumFunction(balance) \in Nat
  BY PoolInvInit, TotalTyped DEF PoolInv, PoolTyped
<1>2. pool.reserve0 = 0 /\ burned = 0 /\ balance = [a \in Actors |-> InitialBalance]
  BY DEF LedgerInit, PoolInit, NoPool
<1>. QED  BY <1>1, <1>2 DEF VeilConserved

LEMMA VeilConservedStep ==
  PoolInv /\ VeilConserved /\ [PoolSpecNext]_poolSpecVars => VeilConserved'
<1> SUFFICES ASSUME PoolInv, VeilConserved, [PoolSpecNext]_poolSpecVars PROVE VeilConserved'
  OBVIOUS
<1>1. CASE PoolNext
  <2>1. PICK a \in Actors, d0, d1, m \in Int : Exchange(a, d0, d1, m)
    BY <1>1, PoolStepExchanges
  <2>2. SumFunction(balance') + pool'.reserve0 = SumFunction(balance) + pool.reserve0
    BY <2>1, ExchangeKeeps
  <2>3. burned' = burned
    BY <2>1 DEF Exchange
  <2>. QED  BY <2>2, <2>3 DEF VeilConserved
<1>2. CASE VaiNext /\ UNCHANGED poolVars
  BY <1>2, VaiKeeps DEF VeilConserved, poolVars
<1>3. CASE UNCHANGED poolSpecVars
  BY <1>3 DEF poolSpecVars, ledgerVars, vaiVars, poolVars, VeilConserved
<1>. QED  BY <1>1, <1>2, <1>3 DEF PoolSpecNext

LEMMA PoolInvariant == PoolSpec => [](PoolInv /\ VeilConserved)
  BY PoolInvInit, PoolInvStep, VeilConservedInit, VeilConservedStep, PTL
     DEF PoolSpec, PoolSpecInit, PoolSpecNext, poolSpecVars

(* SharesAreBacked for every fee, integer width and number of providers,   *)
(* after every sequence of deposits, withdrawals and swaps.                *)
THEOREM SharesStayBacked == PoolSpec => []SharesAreBacked
<1>1. PoolInv => SharesAreBacked
  BY DEF PoolInv, PoolBacked, BackedBy, Counted, SharesAreBacked
<1>. QED  BY PoolInvariant, <1>1, PTL

(* AssetsConserved in full generality: the pool's roundings and the mints  *)
(* and burns neither create nor lose VEIL or VAI, so that the debt can     *)
(* always be burned down by the holders and the pool.                      *)
THEOREM AssetsAreConserved == PoolSpec => []AssetsConserved
<1>1. PoolInv /\ VeilConserved => AssetsConserved
  BY DEF PoolInv, VeilConserved, Counted, AssetsConserved
<1>. QED  BY PoolInvariant, <1>1, PTL

(* No step of any actor lowers the value of a share. *)
LEMMA ShareValueStep ==
  ASSUME PoolInv, [PoolSpecNext]_poolSpecVars, pool' # pool
  PROVE  pool.totalLP > 0 /\ pool'.totalLP > 0 =>
            pool.reserve0 * pool.reserve1 * pool'.totalLP * pool'.totalLP
               <= pool'.reserve0 * pool'.reserve1 * pool.totalLP * pool.totalLP
<1>1. PoolNext
  BY DEF PoolSpecNext, poolSpecVars, poolVars
<1>. QED  BY <1>1, PoolStepExchanges DEF Exchange

(* ShareValueNeverFalls for every fee and integer width: every division of *)
(* AddLiquidity, RemoveLiquidity and SwapExactIn rounds for the pool.      *)
THEOREM ShareValueHolds == PoolSpec => ShareValueNeverFalls
<1>1. PoolInv /\ [PoolSpecNext]_poolSpecVars =>
        [pool.totalLP > 0 /\ pool'.totalLP > 0 =>
          pool.reserve0 * pool.reserve1 * pool'.totalLP * pool'.totalLP
             <= pool'.reserve0 * pool'.reserve1 * pool.totalLP * pool.totalLP]_pool
  BY ShareValueStep, Zenon
<1>. QED  BY PoolInvariant, <1>1, PTL
          DEF PoolSpec, PoolSpecNext, poolSpecVars, ShareValueNeverFalls

(* Whoever holds VAI can burn it: the check of BurnVAI that reports        *)
(* ErrVAIDebtInvariant never fails, because no holder has more than the    *)
(* debt, wherever the rest of the VAI is.                                  *)
THEOREM HoldersCanBurn == PoolSpec => [](\A a \in Actors : vaiBalance[a] <= vaiState.totalDebt)
<1>1. ASSUME PoolInv, NEW a \in Actors PROVE vaiBalance[a] <= vaiState.totalDebt
  <2>1. /\ IsFiniteSet(Actors) /\ DOMAIN vaiBalance = Actors
        /\ \A x \in Actors : vaiBalance[x] \in Nat
    BY <1>1, LedgerAssumption DEF PoolInv, PoolTyped, Uint64
  <2> DEFINE rest == Actors \ {a}
             w == SumFunctionOnSet(vaiBalance, rest)
  <2>2. IsFiniteSet(rest)
    BY <2>1, FS_Subset
  <2>3. w \in Nat
    BY <2>1, <2>2, SumNat
  <2>4. SumFunctionOnSet(vaiBalance, Actors) = vaiBalance[a] + w
    <3>1. \A x \in Actors : vaiBalance[x] \in Int
      BY <2>1
    <3>. QED  BY <2>1, <3>1, SumRemove
  <2>5. SumFunction(vaiBalance) = vaiBalance[a] + w
    BY <2>1, <2>4 DEF SumFunction
  <2>6. pool.reserve1 \in Nat /\ vaiBalance[a] \in Nat
    BY <1>1, <2>1, PoolNumbers DEF PoolInv
  <2>. HIDE DEF w
  <2>. QED  BY <1>1, <2>3, <2>5, <2>6 DEF PoolInv, Counted
<1>2. PoolInv => \A a \in Actors : vaiBalance[a] <= vaiState.totalDebt
  BY <1>1
<1>. QED  BY PoolInvariant, <1>2, PTL
===============================================================================
