-------------------------- MODULE ArithmeticTheorems --------------------------
(***************************************************************************)
(* The arithmetic the other proofs rest on: the direction of every         *)
(* rounding step in math.rs, for every amount, price, rate and decimal     *)
(* shift, and what a sum over finitely many parties does when one entry of *)
(* the function changes, or every one.                                     *)
(***************************************************************************)
EXTENDS FixedPoint, Sums, FiniteSetTheorems, FunctionTheorems,
        WellFoundedInduction, TLAPS

\* Integer division never rounds up.
LEMMA DivRoundsDown ==
    ASSUME NEW a \in Nat, NEW b \in Nat \ {0}
    PROVE  /\ a \div b \in Nat
           /\ (a \div b) * b <= a
           /\ a < (a \div b) * b + b
<1>1. a = b * (a \div b) + (a % b) /\ a % b \in 0 .. (b - 1)
  OBVIOUS
<1>2. a \div b \in Nat
  OBVIOUS
<1> QED
  BY <1>1, <1>2

\* Products of naturals are naturals and grow with each factor.
LEMMA ProductMonotone ==
    ASSUME NEW a \in Nat, NEW b \in Nat, NEW c \in Nat, a <= b
    PROVE  a * c \in Nat /\ a * c <= b * c
<1>1. b = a + (b - a) /\ b - a \in Nat
  OBVIOUS
<1>2. b * c = a * c + (b - a) * c
  BY <1>1
<1>3. (b - a) * c \in Nat /\ a * c \in Nat /\ b * c \in Nat
  BY <1>1
<1> QED
  BY <1>2, <1>3

\* A common positive factor can be dropped from an inequality.
LEMMA CancelFactor ==
    ASSUME NEW a \in Int, NEW b \in Int, NEW c \in Nat \ {0}, a * c <= b * c
    PROVE  a <= b
<1> SUFFICES ASSUME a > b PROVE FALSE
  OBVIOUS
<1>1. a - b - 1 \in Nat
  OBVIOUS
<1>2. (a - b - 1) * c \in Nat
  BY <1>1
<1>3. a * c = b * c + (a - b - 1) * c + c
  OBVIOUS
<1> QED
  BY <1>2, <1>3

\* A quotient grows with what is divided.
LEMMA QuotientMonotone ==
    ASSUME NEW a \in Nat, NEW b \in Nat, NEW c \in Nat \ {0}, a <= b
    PROVE  a \div c <= b \div c
<1> DEFINE p == a \div c
           q == b \div c
<1>1. p \in Nat /\ p * c <= a /\ q \in Nat /\ b < q * c + c
  BY DivRoundsDown
<1> HIDE DEF p, q
<1>2. ASSUME q + 1 <= p PROVE FALSE
  <2>1. (q + 1) * c <= p * c /\ (q + 1) * c = q * c + c /\ q * c \in Nat /\ p * c \in Nat
    BY <1>1, <1>2, ProductMonotone
  <2> QED
    BY <1>1, <2>1
<1>3. p <= q
  BY <1>1, <1>2
<1> QED
  BY <1>3 DEF p, q

\* collateral_to_notional credits no more than the exact value of the deposit.
THEOREM NotionalRoundsDown ==
    ASSUME NEW c \in Nat, NEW price \in Nat \ {0}
    PROVE  /\ CollateralToNotional(c, price) \in Nat
           /\ CollateralToNotional(c, price) * ScaleDown <= c * price * ScaleUp
<1>1. c * price * ScaleUp \in Nat
  <2>1. c * price \in Nat
    OBVIOUS
  <2> QED
    BY <2>1, ScaleAssumption
<1> QED
  BY <1>1, DivRoundsDown, ScaleAssumption DEF CollateralToNotional

\* notional_to_collateral pays no more than the notional is worth.
THEOREM CollateralRoundsDown ==
    ASSUME NEW n \in Nat, NEW price \in Nat \ {0}
    PROVE  /\ NotionalToCollateral(n, price) \in Nat
           /\ NotionalToCollateral(n, price) * price * ScaleUp <= n * ScaleDown
<1>1. price * ScaleUp \in Nat \ {0}
  BY ScaleAssumption
<1>2. n * ScaleDown \in Nat
  BY ScaleAssumption
<1>3. /\ NotionalToCollateral(n, price) \in Nat
      /\ NotionalToCollateral(n, price) * (price * ScaleUp) <= n * ScaleDown
  BY <1>1, <1>2, DivRoundsDown DEF NotionalToCollateral
<1> QED
  BY <1>3, ScaleAssumption

\* Converting collateral to a notional and back at one price never yields more
\* collateral than went in.
THEOREM RoundTripCreatesNothing ==
    ASSUME NEW c \in Nat, NEW price \in Nat \ {0}
    PROVE  NotionalToCollateral(CollateralToNotional(c, price), price) <= c
<1> DEFINE n == CollateralToNotional(c, price)
           back == NotionalToCollateral(n, price)
<1>1. n \in Nat /\ n * ScaleDown <= c * price * ScaleUp
  BY NotionalRoundsDown
<1>2. back \in Nat /\ back * price * ScaleUp <= n * ScaleDown
  BY <1>1, CollateralRoundsDown
<1> HIDE DEF n, back
<1>3. price * ScaleUp \in Nat \ {0}
  BY ScaleAssumption
<1>4. back * (price * ScaleUp) <= c * (price * ScaleUp)
  BY <1>1, <1>2, ScaleAssumption
<1>5. back <= c
  BY <1>2, <1>3, <1>4, CancelFactor
<1> QED
  BY <1>5 DEF back, n

\* A rate applied to an amount, rounded either way, stays a natural number;
\* rounding up never gives less than the exact share.
THEOREM BpsRounding ==
    ASSUME NEW amount \in Nat, NEW bps \in Nat
    PROVE  /\ MulBpsFloor(amount, bps) \in Nat
           /\ MulBpsFloor(amount, bps) * BPS <= amount * bps
           /\ MulBpsCeil(amount, bps) \in Nat
           /\ amount * bps <= MulBpsCeil(amount, bps) * BPS
<1>1. amount * bps \in Nat
  OBVIOUS
<1>2. BPS \in Nat \ {0} /\ BPS = 10000
  BY DEF BPS
<1>3. amount * bps + (BPS - 1) \in Nat
  BY <1>1, <1>2
<1>4. /\ MulBpsFloor(amount, bps) \in Nat
      /\ MulBpsFloor(amount, bps) * BPS <= amount * bps
  BY <1>1, <1>2, DivRoundsDown DEF MulBpsFloor
<1>5. /\ MulBpsCeil(amount, bps) \in Nat
      /\ amount * bps + (BPS - 1) < MulBpsCeil(amount, bps) * BPS + BPS
  BY <1>2, <1>3, DivRoundsDown DEF MulBpsCeil
<1> HIDE DEF BPS
<1> QED
  BY <1>1, <1>2, <1>4, <1>5

\* Dividing by the collateral ratio issues no more than the ratio allows.
THEOREM RatioRoundsDown ==
    ASSUME NEW amount \in Nat, NEW ratio \in Nat \ {0}
    PROVE  /\ DivBpsFloor(amount, ratio) \in Nat
           /\ DivBpsFloor(amount, ratio) * ratio <= amount * BPS
<1>1. amount * BPS \in Nat
  BY DEF BPS
<1> QED
  BY <1>1, DivRoundsDown DEF DivBpsFloor

\* A conversion that rounds down gives at least as much for the whole as for its
\* parts.
THEOREM NotionalAdds ==
    ASSUME NEW a \in Nat, NEW b \in Nat, NEW price \in Nat \ {0}
    PROVE  CollateralToNotional(a, price) + CollateralToNotional(b, price)
               <= CollateralToNotional(a + b, price)
<1> DEFINE x == a * price * ScaleUp
           y == b * price * ScaleUp
           p == x \div ScaleDown
           q == y \div ScaleDown
           w == (x + y) \div ScaleDown
           s == ScaleDown
<1>1. x \in Nat /\ y \in Nat /\ s \in Nat \ {0} /\ (a + b) * price * ScaleUp = x + y
  <2>1. ScaleUp \in Nat /\ a * price \in Nat /\ b * price \in Nat
    BY ScaleAssumption
  <2>2. (a + b) * price = a * price + b * price
    OBVIOUS
  <2> QED
    BY <2>1, <2>2, ScaleAssumption
<1>2. /\ CollateralToNotional(a, price) = p /\ CollateralToNotional(b, price) = q
      /\ CollateralToNotional(a + b, price) = w
  BY <1>1 DEF CollateralToNotional
<1> HIDE DEF x, y
<1>3. /\ p \in Nat /\ p * s <= x
      /\ q \in Nat /\ q * s <= y
      /\ w \in Nat /\ x + y < w * s + s
  BY <1>1, DivRoundsDown
<1> HIDE DEF p, q, w, s
<1>4. (p + q) * s < (w + 1) * s
  <2>1. /\ (p + q) * s = p * s + q * s /\ (w + 1) * s = w * s + s
        /\ p * s \in Int /\ q * s \in Int /\ w * s \in Int
    BY <1>1, <1>3
  <2> QED
    BY <1>1, <1>3, <2>1
<1>5. p + q <= w
  <2> SUFFICES ASSUME p + q > w PROVE FALSE
    BY <1>3
  <2>1. w + 1 \in Nat /\ p + q \in Nat /\ w + 1 <= p + q
    BY <1>3
  <2>2. (w + 1) * s <= (p + q) * s
    BY <1>1, <2>1, ProductMonotone
  <2>3. (w + 1) * s \in Int /\ (p + q) * s \in Int
    BY <1>1, <2>1
  <2> QED
    BY <1>4, <2>2, <2>3
<1> QED
  BY <1>2, <1>5

\* A share of a larger amount, rounded up, is no smaller.
THEOREM CeilMonotone ==
    ASSUME NEW a \in Nat, NEW b \in Nat, NEW bps \in Nat, a <= b
    PROVE  MulBpsCeil(a, bps) <= MulBpsCeil(b, bps)
<1> DEFINE x == a * bps
           y == b * bps
<1>1. x \in Nat /\ y \in Nat /\ x <= y
  BY ProductMonotone
<1> HIDE DEF x, y
<1>2. (x + 9999) \div 10000 <= (y + 9999) \div 10000
  BY <1>1, QuotientMonotone
<1> QED
  BY <1>2 DEF x, y, MulBpsCeil, BPS

-----------------------------------------------------------------------------
(* What Sum does when one entry of the function changes. *)

\* The units held under one key are as many as the function says.
LEMMA BlockCardinality ==
    ASSUME NEW k, NEW n \in Nat
    PROVE  /\ IsFiniteSet({k} \X (1 .. n))
           /\ Cardinality({k} \X (1 .. n)) = n
<1>1. IsFiniteSet(1 .. n) /\ Cardinality(1 .. n) = n
  BY FS_Interval
<1>2. IsFiniteSet({k}) /\ Cardinality({k}) = 1
  BY FS_Singleton
<1> QED
  BY <1>1, <1>2, FS_Product

\* The units of a function on a finite set are a finite set.
LEMMA UnitsFinite ==
    ASSUME NEW S, IsFiniteSet(S), NEW f \in [S -> Nat]
    PROVE  IsFiniteSet(UNION { {k} \X (1 .. f[k]) : k \in S })
<1> DEFINE B == { {k} \X (1 .. f[k]) : k \in S }
           h == [k \in S |-> {k} \X (1 .. f[k])]
<1>1. h \in Surjection(S, B)
  BY DEF Surjection
<1>2. IsFiniteSet(B)
  BY <1>1, FS_Surjection
<1>3. \A b \in B : IsFiniteSet(b)
  <2> TAKE b \in B
  <2>1. PICK k \in S : b = {k} \X (1 .. f[k])
    OBVIOUS
  <2>2. f[k] \in Nat
    OBVIOUS
  <2> HIDE DEF B, h
  <2> QED
    BY <2>1, <2>2, BlockCardinality
<1> QED
  BY <1>2, <1>3, FS_UNION

\* A sum is a natural number.
THEOREM SumType ==
    ASSUME NEW S, IsFiniteSet(S), NEW f \in [S -> Nat]
    PROVE  Sum(f) \in Nat
<1>1. DOMAIN f = S
  OBVIOUS
<1>2. IsFiniteSet(Units(f))
  BY <1>1, UnitsFinite DEF Units
<1> QED
  BY <1>2, FS_CardinalityType DEF Sum

\* Nothing sums to nothing.
THEOREM SumZero ==
    ASSUME NEW S, NEW f, f = [k \in S |-> 0]
    PROVE  Sum(f) = 0
<1>1. Units(f) = {}
  BY DEF Units
<1> QED
  BY <1>1, FS_EmptySet DEF Sum

\* The sum splits into the entry of one key and the sum of the others.
LEMMA SumSplit ==
    ASSUME NEW S, IsFiniteSet(S), NEW f \in [S -> Nat], NEW k \in S
    PROVE  LET Rest == UNION { {j} \X (1 .. f[j]) : j \in S \ {k} }
           IN  /\ IsFiniteSet(Rest)
               /\ Cardinality(Rest) \in Nat
               /\ Sum(f) = Cardinality(Rest) + f[k]
<1> DEFINE Rest == UNION { {j} \X (1 .. f[j]) : j \in S \ {k} }
           Own == {k} \X (1 .. f[k])
<1>1. IsFiniteSet(UNION { {j} \X (1 .. f[j]) : j \in S })
  BY UnitsFinite
<1>2. /\ Rest \subseteq UNION { {j} \X (1 .. f[j]) : j \in S }
      /\ IsFiniteSet(Rest)
  BY <1>1, FS_Subset
<1>3. /\ IsFiniteSet(Own)
      /\ Cardinality(Own) = f[k]
  BY BlockCardinality
<1>4. Units(f) = Rest \cup Own
  BY DEF Units
<1>5. Rest \cap Own = {}
  OBVIOUS
<1>6. Cardinality(Rest) \in Nat
  BY <1>2, FS_CardinalityType
<1>7. Cardinality(Rest \cup Own) = Cardinality(Rest) + Cardinality(Own) - Cardinality(Rest \cap Own)
  BY <1>2, <1>3, FS_Union
<1>8. Sum(f) = Cardinality(Rest) + f[k]
  <2> HIDE DEF Rest, Own
  <2>1. Cardinality(Rest \cap Own) = 0
    BY <1>5, FS_EmptySet
  <2>2. f[k] \in Nat
    OBVIOUS
  <2> QED
    BY <1>3, <1>4, <1>6, <1>7, <2>1, <2>2 DEF Sum
<1> QED
  BY <1>2, <1>6, <1>8

\* No entry exceeds the sum.
THEOREM SumBound ==
    ASSUME NEW S, IsFiniteSet(S), NEW f \in [S -> Nat], NEW k \in S
    PROVE  f[k] <= Sum(f)
<1> DEFINE Rest == UNION { {j} \X (1 .. f[j]) : j \in S \ {k} }
<1>1. Cardinality(Rest) \in Nat /\ Sum(f) = Cardinality(Rest) + f[k]
  BY SumSplit
<1> QED
  BY <1>1

\* Replacing one entry changes the sum by the difference.
THEOREM SumUpdate ==
    ASSUME NEW S, IsFiniteSet(S), NEW f \in [S -> Nat], NEW g \in [S -> Nat],
           NEW k \in S, \A j \in S \ {k} : g[j] = f[j]
    PROVE  Sum(g) = Sum(f) - f[k] + g[k]
<1> DEFINE RestF == UNION { {j} \X (1 .. f[j]) : j \in S \ {k} }
           RestG == UNION { {j} \X (1 .. g[j]) : j \in S \ {k} }
<1>1. RestG = RestF
  OBVIOUS
<1>2. Cardinality(RestF) \in Nat /\ Sum(f) = Cardinality(RestF) + f[k]
  BY SumSplit
<1>3. Sum(g) = Cardinality(RestG) + g[k]
  BY SumSplit
<1>4. f[k] \in Nat /\ g[k] \in Nat
  OBVIOUS
<1> HIDE DEF RestF, RestG
<1> QED
  BY <1>1, <1>2, <1>3, <1>4

-----------------------------------------------------------------------------
(* What Sum does when every entry changes. *)

\* A family of sets that holds the empty set and grows by any element of a
\* finite set holds that set: induction on finite sets, said of a set of sets
\* because a theorem about an operator cannot be instantiated.
LEMMA FamilyReaches ==
    ASSUME NEW S, IsFiniteSet(S), NEW F, {} \in F,
           \A T \in F, x \in S : T \subseteq S => T \cup {x} \in F
    PROVE  S \in F
<1> DEFINE Missing == (SUBSET S) \ F
<1> SUFFICES ASSUME S \notin F PROVE FALSE
  OBVIOUS
<1>1. IsWellFoundedOn(StrictSubsetOrdering(S), FiniteSubsetsOf(S))
  BY FS_StrictSubsetOrderingWellFounded
<1>2. FiniteSubsetsOf(S) = SUBSET S
  BY FS_FiniteSubsetsOfFinite
<1>3. PICK T \in Missing : \A U \in Missing : <<U, T>> \notin StrictSubsetOrdering(S)
  <2>1. Missing \subseteq FiniteSubsetsOf(S) /\ Missing # {}
    BY <1>2
  <2> HIDE DEF Missing
  <2> QED
    BY <1>1, <2>1, WFMin
<1>4. PICK x \in T : TRUE
  BY <1>3
<1>5. T \ {x} \in F
  <2>1. <<T \ {x}, T>> \in StrictSubsetOrdering(S)
    BY <1>3, <1>4 DEF StrictSubsetOrdering
  <2> QED
    BY <1>3, <2>1
<1>6. T = (T \ {x}) \cup {x} /\ x \in S /\ T \ {x} \subseteq S
  BY <1>3, <1>4
<1> QED
  BY <1>3, <1>5, <1>6

\* The sum of a sum of functions, one of them scaled.
THEOREM SumLinear ==
    ASSUME NEW S, IsFiniteSet(S), NEW f \in [S -> Nat], NEW g \in [S -> Nat],
           NEW c \in Nat, NEW h \in [S -> Nat],
           \A k \in S : h[k] = f[k] + c * g[k]
    PROVE  Sum(h) = Sum(f) + c * Sum(g)
<1> DEFINE On(e, T) == [k \in S |-> IF k \in T THEN e[k] ELSE 0]
           F == {T \in SUBSET S : Sum(On(h, T)) = Sum(On(f, T)) + c * Sum(On(g, T))}
<1>1. ASSUME NEW e \in [S -> Nat], NEW T \in SUBSET S, NEW x \in S, x \notin T
      PROVE  /\ Sum(On(e, T)) \in Nat
             /\ Sum(On(e, T \cup {x})) = Sum(On(e, T)) + e[x]
  <2> DEFINE a == On(e, T)
             b == On(e, T \cup {x})
  <2>1. /\ a \in [S -> Nat] /\ b \in [S -> Nat]
        /\ \A j \in S \ {x} : b[j] = a[j]
        /\ a[x] = 0 /\ b[x] = e[x] /\ e[x] \in Nat
    BY <1>1
  <2> HIDE DEF a, b
  <2>2. Sum(b) = Sum(a) - a[x] + b[x]
    BY <2>1, SumUpdate
  <2>3. Sum(a) \in Nat
    BY <2>1, SumType
  <2>4. Sum(a) \in Nat /\ Sum(b) = Sum(a) + e[x]
    BY <2>1, <2>2, <2>3
  <2> QED
    BY <2>4 DEF a, b
<1>2. {} \in F
  <2>1. \A e : On(e, {}) = [k \in S |-> 0]
    OBVIOUS
  <2>2. \A e : Sum(On(e, {})) = 0
    BY <2>1, SumZero
  <2> HIDE DEF On
  <2> QED
    BY <2>2
<1>3. ASSUME NEW T \in F, NEW x \in S, T \subseteq S PROVE T \cup {x} \in F
  <2>1. CASE x \in T
    <3>1. T \cup {x} = T
      BY <2>1
    <3> QED
      BY <3>1
  <2>2. CASE x \notin T
    <3>1. /\ Sum(On(h, T)) \in Nat /\ Sum(On(f, T)) \in Nat /\ Sum(On(g, T)) \in Nat
          /\ Sum(On(h, T \cup {x})) = Sum(On(h, T)) + h[x]
          /\ Sum(On(f, T \cup {x})) = Sum(On(f, T)) + f[x]
          /\ Sum(On(g, T \cup {x})) = Sum(On(g, T)) + g[x]
      BY <1>1, <1>3, <2>2
    <3>2. Sum(On(h, T)) = Sum(On(f, T)) + c * Sum(On(g, T))
      BY <1>3
    <3>3. h[x] = f[x] + c * g[x] /\ f[x] \in Nat /\ g[x] \in Nat
      OBVIOUS
    <3> HIDE DEF On
    <3>4. c * Sum(On(g, T \cup {x})) = c * Sum(On(g, T)) + c * g[x]
      BY <3>1, <3>3
    <3>5. c * Sum(On(g, T)) \in Nat /\ c * g[x] \in Nat
      BY <3>1, <3>3
    <3> QED
      BY <1>3, <3>1, <3>2, <3>3, <3>4, <3>5
  <2> QED
    BY <2>1, <2>2
<1>4. S \in F
  <2> HIDE DEF F
  <2> QED
    BY <1>2, <1>3, FamilyReaches
<1>5. On(h, S) = h /\ On(f, S) = f /\ On(g, S) = g
  OBVIOUS
<1> QED
  <2> HIDE DEF On
  <2> QED
    BY <1>4, <1>5

\* The sum is monotone.
THEOREM SumMonotone ==
    ASSUME NEW S, IsFiniteSet(S), NEW f \in [S -> Nat], NEW g \in [S -> Nat],
           \A k \in S : f[k] <= g[k]
    PROVE  Sum(f) <= Sum(g)
<1> DEFINE d == [k \in S |-> g[k] - f[k]]
<1>1. d \in [S -> Nat] /\ \A k \in S : g[k] = f[k] + 1 * d[k]
  OBVIOUS
<1> HIDE DEF d
<1>2. Sum(g) = Sum(f) + 1 * Sum(d)
  BY <1>1, SumLinear
<1>3. Sum(f) \in Nat /\ Sum(d) \in Nat
  BY <1>1, SumType
<1> QED
  BY <1>2, <1>3

\* Summing one constant over a subset counts the subset.
THEOREM SumConstantOn ==
    ASSUME NEW S, IsFiniteSet(S), NEW T \in SUBSET S, NEW c \in Nat
    PROVE  Sum([k \in S |-> IF k \in T THEN c ELSE 0]) = c * Cardinality(T)
<1> DEFINE f == [k \in S |-> IF k \in T THEN c ELSE 0]
<1>1. Units(f) = T \X (1 .. c)
  BY DEF Units
<1>2. IsFiniteSet(T) /\ Cardinality(T) \in Nat
  BY FS_Subset, FS_CardinalityType
<1>3. IsFiniteSet(1 .. c) /\ Cardinality(1 .. c) = c
  BY FS_Interval
<1>4. Cardinality(T \X (1 .. c)) = Cardinality(T) * c
  BY <1>2, <1>3, FS_Product
<1> HIDE DEF f
<1>5. Sum(f) = c * Cardinality(T)
  BY <1>1, <1>2, <1>4 DEF Sum
<1> QED
  BY <1>5 DEF f

=============================================================================
