----------------------------- MODULE StakingProofs -----------------------------
(***************************************************************************)
(* Theorems about Staking and StakingHistory, for any stakers, amounts,    *)
(* scale of the accumulator, parameters and number of steps.               *)
(***************************************************************************)
EXTENDS StakingHistory, ArithmeticTheorems

\* What the accumulator's divisions leave behind in each position.
Fraction(amount) == (amount * acc_funding_per_share) % AccScale

Fractions == [s \in Stakers |-> Fraction(position[s].amount)]

\* Where the funding is, and how much of it the accumulator can have promised.
FundingTraced ==
    /\ Cardinality(Stakers) * StakerWealth <= Held
    /\ acc_funding_per_share <= BroughtIn * AccScale

Inv == TypeOK /\ VaultsAccounted /\ DebtWithinEntitlement /\ FundingTraced

-----------------------------------------------------------------------------
(* Arithmetic of the accumulator. *)

LEMMA ScaleType == AccScale \in Nat \ {0} /\ IsFiniteSet(Stakers)
BY StakingAssumption

\* A product is made up of whole units and a fraction of one.
LEMMA UnitsAndFraction ==
    ASSUME NEW x \in Nat
    PROVE  /\ x \div AccScale \in Nat /\ x % AccScale \in 0 .. (AccScale - 1)
           /\ AccScale * (x \div AccScale) + (x % AccScale) = x
<1>1. /\ x \div AccScale \in Nat /\ x % AccScale \in 0 .. (AccScale - 1)
      /\ x = AccScale * (x \div AccScale) + (x % AccScale)
  BY ScaleType
<1> QED
  BY <1>1

\* An entitlement and its fraction make up the product.
LEMMA EntitlementParts ==
    ASSUME NEW a \in Nat, acc_funding_per_share \in Nat
    PROVE  /\ Entitlement(a) \in Nat
           /\ Fraction(a) \in 0 .. (AccScale - 1)
           /\ AccScale * Entitlement(a) + Fraction(a) = a * acc_funding_per_share
<1>1. a * acc_funding_per_share \in Nat
  OBVIOUS
<1> QED
  BY <1>1, UnitsAndFraction DEF Entitlement, Fraction

LEMMA ParamTypes ==
    ASSUME params \in ParamSets
    PROVE  /\ params.buffer_share_bps \in Nat /\ params.buffer_share_bps <= BPS
           /\ params.buffer_max_draw_bps \in Nat
           /\ params.unstake_cooldown_sec \in Nat
           /\ params.buffer_unlock_delay_sec \in Nat
           /\ params.max_reportable_capacity_notional \in Nat
BY ParamAssumption DEF ParamRecords, ValidConfig

\* The buffer's share is a part of what is settled.
LEMMA ShareBound ==
    ASSUME params \in ParamSets, NEW amount \in Nat
    PROVE  ToBuffer(amount) \in Nat /\ ToBuffer(amount) <= amount
<1> DEFINE bps == params.buffer_share_bps
<1>1. bps \in Nat /\ bps <= 10000
  BY ParamTypes DEF BPS
<1> HIDE DEF bps
<1>2. bps * amount <= 10000 * amount /\ bps * amount \in Nat
  BY <1>1, ProductMonotone
<1>3. (amount * bps + 9999) \div 10000 \in Nat
      /\ (amount * bps + 9999) \div 10000 <= amount
  <2> DEFINE x == amount * bps
  <2>1. x \in Nat /\ x <= 10000 * amount
    BY <1>1, <1>2
  <2> HIDE DEF x
  <2>2. (x + 9999) \div 10000 \in Nat /\ (x + 9999) \div 10000 <= amount
    BY <2>1
  <2> QED
    BY <2>2 DEF x
<1>4. MulBpsCeil(amount, bps) \in Nat /\ MulBpsCeil(amount, bps) <= amount
  BY <1>3 DEF MulBpsCeil, BPS
<1> QED
  BY <1>4 DEF ToBuffer, bps

\* An increment shared out over the stake is no more than what is distributed.
LEMMA IncrementBound ==
    ASSUME total_staked \in Nat, total_staked > 0, NEW amount \in Nat
    PROVE  /\ AccIncrement(amount) \in Nat
           /\ AccIncrement(amount) * total_staked <= amount * AccScale
           /\ AccIncrement(amount) <= amount * AccScale
<1>1. amount * AccScale \in Nat
  BY ScaleType
<1>2. /\ AccIncrement(amount) \in Nat
      /\ AccIncrement(amount) * total_staked <= amount * AccScale
  BY <1>1, DivRoundsDown DEF AccIncrement
<1> HIDE DEF AccIncrement
<1>3. AccIncrement(amount) * 1 <= AccIncrement(amount) * total_staked
  <2>1. 1 * AccIncrement(amount) <= total_staked * AccIncrement(amount)
    BY <1>2, ProductMonotone
  <2> QED
    BY <1>2, <2>1
<1>4. AccIncrement(amount) * total_staked \in Nat
  BY <1>2
<1> QED
  BY <1>1, <1>2, <1>3, <1>4

-----------------------------------------------------------------------------
(* How positions, sums and wallets move. *)

LEMMA PositionTypes ==
    ASSUME TypeOK, DebtWithinEntitlement
    PROVE  /\ Amounts \in [Stakers -> Nat] /\ Pendings \in [Stakers -> Nat]
           /\ Claims \in [Stakers -> Nat] /\ Fractions \in [Stakers -> Nat]
           /\ Sum(Amounts) \in Nat /\ Sum(Pendings) \in Nat
           /\ Sum(Claims) \in Nat /\ Sum(Fractions) \in Nat /\ Sum(wallet) \in Nat
<1>1. \A s \in Stakers : position[s] \in Positions
  BY DEF TypeOK
<1>2. Amounts \in [Stakers -> Nat] /\ Pendings \in [Stakers -> Nat]
  BY <1>1 DEF Amounts, Pendings, Positions
<1>3. ASSUME NEW s \in Stakers PROVE Claimable(position[s]) \in Nat
  <2>1. /\ position[s].amount \in Nat /\ position[s].unclaimed \in Nat
        /\ position[s].reward_debt \in Nat
    BY <1>1 DEF Positions
  <2>2. Entitlement(position[s].amount) \in Nat
    BY <2>1, EntitlementParts DEF TypeOK
  <2>3. position[s].reward_debt <= Entitlement(position[s].amount)
    BY DEF DebtWithinEntitlement
  <2> QED
    BY <2>1, <2>2, <2>3 DEF Claimable
<1>4. ASSUME NEW s \in Stakers PROVE Fraction(position[s].amount) \in Nat
  <2>1. position[s].amount \in Nat
    BY <1>1 DEF Positions
  <2>2. Fraction(position[s].amount) \in 0 .. (AccScale - 1)
    BY <2>1, EntitlementParts DEF TypeOK
  <2> QED
    BY <2>2, ScaleType
<1>5. Claims \in [Stakers -> Nat] /\ Fractions \in [Stakers -> Nat]
  BY <1>3, <1>4 DEF Claims, Fractions
<1>6. wallet \in [Stakers -> Nat]
  BY DEF TypeOK
<1> QED
  BY <1>2, <1>5, <1>6, ScaleType, SumType

\* One position is replaced by another.
LEMMA PositionMoved ==
    ASSUME TypeOK, DebtWithinEntitlement, NEW s \in Stakers, NEW q \in Positions,
           position' = [position EXCEPT ![s] = q]
    PROVE  /\ position' \in [Stakers -> Positions]
           /\ position'[s] = q
           /\ \A t \in Stakers \ {s} : position'[t] = position[t]
           /\ Sum(Amounts') = Sum(Amounts) - position[s].amount + q.amount
           /\ Sum(Pendings') = Sum(Pendings) - position[s].pending_unstake
                                   + q.pending_unstake
           /\ position[s].amount <= Sum(Amounts)
           /\ position[s].pending_unstake <= Sum(Pendings)
<1>1. /\ position' \in [Stakers -> Positions] /\ position'[s] = q
      /\ \A t \in Stakers \ {s} : position'[t] = position[t]
  BY DEF TypeOK
<1>2. /\ Amounts \in [Stakers -> Nat] /\ Pendings \in [Stakers -> Nat]
      /\ IsFiniteSet(Stakers)
  BY PositionTypes, ScaleType
<1>3. /\ Amounts' \in [Stakers -> Nat] /\ Pendings' \in [Stakers -> Nat]
      /\ Amounts[s] = position[s].amount /\ Amounts'[s] = q.amount
      /\ Pendings[s] = position[s].pending_unstake
      /\ Pendings'[s] = q.pending_unstake
      /\ \A t \in Stakers \ {s} : Amounts'[t] = Amounts[t] /\ Pendings'[t] = Pendings[t]
  BY <1>1 DEF Amounts, Pendings, Positions
<1>4. ASSUME NEW f \in [Stakers -> Nat], NEW g \in [Stakers -> Nat],
             \A t \in Stakers \ {s} : g[t] = f[t]
      PROVE  Sum(g) = Sum(f) - f[s] + g[s] /\ f[s] <= Sum(f)
  BY <1>2, <1>4, SumUpdate, SumBound
<1>5. Sum(Amounts') = Sum(Amounts) - Amounts[s] + Amounts'[s] /\ Amounts[s] <= Sum(Amounts)
  BY <1>2, <1>3, <1>4, Zenon
<1>6. /\ Sum(Pendings') = Sum(Pendings) - Pendings[s] + Pendings'[s]
      /\ Pendings[s] <= Sum(Pendings)
  BY <1>2, <1>3, <1>4, Zenon
<1> QED
  BY <1>1, <1>3, <1>5, <1>6

LEMMA WalletMoved ==
    ASSUME TypeOK, NEW s \in Stakers, NEW w \in Nat,
           wallet' = [wallet EXCEPT ![s] = w]
    PROVE  /\ wallet' \in [Stakers -> Nat]
           /\ Sum(wallet') = Sum(wallet) - wallet[s] + w
           /\ Sum(wallet) \in Nat /\ wallet[s] \in Nat
<1>1. /\ wallet \in [Stakers -> Nat] /\ wallet' \in [Stakers -> Nat]
      /\ wallet'[s] = w /\ \A t \in Stakers \ {s} : wallet'[t] = wallet[t]
  BY DEF TypeOK
<1>3. ASSUME NEW f \in [Stakers -> Nat], NEW g \in [Stakers -> Nat],
             \A t \in Stakers \ {s} : g[t] = f[t]
      PROVE  Sum(g) = Sum(f) - f[s] + g[s]
  BY <1>3, ScaleType, SumUpdate
<1>2. Sum(wallet') = Sum(wallet) - wallet[s] + wallet'[s]
  BY <1>1, <1>3, Zenon
<1> QED
  BY <1>1, <1>2, ScaleType, SumType

\* What accrue leaves, with the amount that is stored after it: the claim is the
\* one the position had before.
LEMMA RebasedFacts ==
    ASSUME TypeOK, DebtWithinEntitlement, NEW s \in Stakers, NEW amount \in Nat
    PROVE  LET p == position[s]
               q == Rebased(p, amount)
           IN  /\ p \in Positions /\ q \in Positions
               /\ q.amount = amount /\ q.pending_unstake = p.pending_unstake
               /\ q.reward_debt = Entitlement(amount) /\ Entitlement(amount) \in Nat
               /\ q.unclaimed = Claimable(p) /\ Claimable(p) \in Nat
<1> DEFINE p == position[s]
<1>1. p \in Positions
  BY DEF TypeOK
<1>2. Entitlement(amount) \in Nat
  BY EntitlementParts DEF TypeOK
<1>3. Claimable(p) \in Nat
  <2>1. Claims \in [Stakers -> Nat] /\ Claims[s] = Claimable(p)
    BY PositionTypes DEF Claims
  <2> QED
    BY <2>1
<1> HIDE DEF p
<1>4. Rebased(p, amount) = [p EXCEPT !.unclaimed = Claimable(p), !.amount = amount,
                                     !.reward_debt = Entitlement(amount)]
  BY <1>1 DEF Rebased, Accrued, Positions
<1>5. /\ Rebased(p, amount) \in Positions
      /\ Rebased(p, amount).amount = amount
      /\ Rebased(p, amount).pending_unstake = p.pending_unstake
      /\ Rebased(p, amount).reward_debt = Entitlement(amount)
      /\ Rebased(p, amount).unclaimed = Claimable(p)
  BY <1>1, <1>2, <1>3, <1>4 DEF Positions
<1> QED
  BY <1>1, <1>2, <1>3, <1>5 DEF p

\* The debts stay within the entitlements when one position is re-based.
LEMMA DebtKept ==
    ASSUME TypeOK, DebtWithinEntitlement, NEW s \in Stakers, NEW q \in Positions,
           position' = [position EXCEPT ![s] = q],
           UNCHANGED acc_funding_per_share,
           q.reward_debt <= Entitlement(q.amount)
    PROVE  DebtWithinEntitlement'
<1>1. \A a : Entitlement(a)' = Entitlement(a')
  BY DEF Entitlement
<1>2. position'[s] = q /\ \A t \in Stakers \ {s} : position'[t] = position[t]
  BY DEF TypeOK
<1> SUFFICES ASSUME NEW t \in Stakers
             PROVE  position'[t].reward_debt <= Entitlement(position[t].amount)'
  BY DEF DebtWithinEntitlement
<1>3. Entitlement(position[t].amount)' = Entitlement(position'[t].amount)
  BY DEF Entitlement
<1> QED
  BY <1>2, <1>3 DEF DebtWithinEntitlement

\* Funding is traced as long as what leaves the funding vault reaches a staker,
\* and the accumulator grows by no more than what comes in.
LEMMA TracedWhenHeld ==
    ASSUME TypeOK, DebtWithinEntitlement, FundingTraced, NEW d \in Nat,
           NEW held \in Nat, Held' = held, held >= Held,
           NEW balance \in Nat, staker_funding_balance' = balance,
           held + balance = Held + staker_funding_balance + d,
           NEW acc \in Nat, acc_funding_per_share' = acc,
           acc <= acc_funding_per_share + d * AccScale
    PROVE  FundingTraced'
<1> DEFINE W == Cardinality(Stakers) * StakerWealth
<1>1. W \in Nat
  BY ScaleType, StakingAssumption, FS_CardinalityType
<1>2. /\ Held \in Nat /\ staker_funding_balance \in Nat
      /\ acc_funding_per_share \in Nat /\ W <= Held
  BY PositionTypes DEF Held, TypeOK, FundingTraced
<1>3. /\ BroughtIn = staker_funding_balance + Held - W
      /\ BroughtIn' = balance + held - W
  BY DEF BroughtIn
<1>4. acc_funding_per_share <= BroughtIn * AccScale
  BY DEF FundingTraced
<1> HIDE DEF W
<1>5. PICK b \in Nat : b = BroughtIn
  BY <1>1, <1>2, <1>3
<1>6. b + d = balance + held - W /\ W <= held
  BY <1>1, <1>2, <1>3, <1>5
<1>7. /\ (b + d) * AccScale = b * AccScale + d * AccScale
      /\ b * AccScale \in Nat /\ d * AccScale \in Nat
  BY ScaleType
<1>8. acc <= (b + d) * AccScale
  BY <1>2, <1>4, <1>5, <1>7
<1>9. acc_funding_per_share' <= BroughtIn' * AccScale
  BY <1>3, <1>6, <1>8
<1>10. W <= Held'
  BY <1>6
<1> QED
  BY <1>9, <1>10 DEF FundingTraced, W

\* Funding that a staker takes, or does not, leaves the trace intact.
LEMMA TracedWhenTaken ==
    ASSUME TypeOK, DebtWithinEntitlement, FundingTraced,
           NEW m \in Nat, m <= staker_funding_balance,
           Held' = Held + m, staker_funding_balance' = staker_funding_balance - m,
           UNCHANGED acc_funding_per_share
    PROVE  FundingTraced'
<1>1. /\ Held \in Nat /\ staker_funding_balance \in Nat /\ acc_funding_per_share \in Nat
      /\ 0 * AccScale = 0
  BY PositionTypes, ScaleType DEF Held, TypeOK
<1>2. PICK held \in Nat : held = Held + m
  BY <1>1
<1>3. PICK balance \in Nat : balance = staker_funding_balance - m
  BY <1>1
<1>4. /\ Held' = held /\ held >= Held /\ staker_funding_balance' = balance
      /\ held + balance = Held + staker_funding_balance + 0
      /\ acc_funding_per_share' = acc_funding_per_share
      /\ acc_funding_per_share <= acc_funding_per_share + 0 * AccScale
  BY <1>1, <1>2, <1>3
<1> QED
  BY <1>1, <1>4, TracedWhenHeld

-----------------------------------------------------------------------------
(* The invariant, step by step. *)

LEMMA InvInit == Init => Inv
<1> SUFFICES ASSUME Init PROVE Inv
  OBVIOUS
<1> USE DEF Init
<1>1. TypeOK
  <2>1. venue \in VenueRecords
    BY DEF VenueRecords, VenueInit, VENUE_NONE
  <2>2. position \in [Stakers -> Positions]
    BY DEF Positions, EmptyPosition
  <2>3. wallet \in [Stakers -> Nat] /\ outside \in Nat
    BY StakingAssumption
  <2> QED
    BY <2>1, <2>2, <2>3 DEF TypeOK
<1>2. /\ Amounts = [s \in Stakers |-> 0] /\ Pendings = [s \in Stakers |-> 0]
  BY DEF Amounts, Pendings, EmptyPosition
<1>3. Sum(Amounts) = 0 /\ Sum(Pendings) = 0
  BY <1>2, SumZero
<1>4. VaultsAccounted
  BY <1>3 DEF VaultsAccounted
<1>5. 0 \div AccScale = 0 /\ 0 * 0 = 0
  BY ScaleType
<1>6. DebtWithinEntitlement
  BY <1>5 DEF DebtWithinEntitlement, Entitlement, EmptyPosition
<1>7. Sum(wallet) = Cardinality(Stakers) * StakerWealth
  <2>1. wallet = [s \in Stakers |-> IF s \in Stakers THEN StakerWealth ELSE 0]
    OBVIOUS
  <2>2. Sum([s \in Stakers |-> IF s \in Stakers THEN StakerWealth ELSE 0])
            = StakerWealth * Cardinality(Stakers)
    BY ScaleType, StakingAssumption, SumConstantOn
  <2>3. Cardinality(Stakers) \in Nat /\ StakerWealth \in Nat
    BY ScaleType, StakingAssumption, FS_CardinalityType
  <2>4. Sum(wallet) = StakerWealth * Cardinality(Stakers)
    BY <2>1, <2>2
  <2> QED
    BY <2>3, <2>4
<1>8. Cardinality(Stakers) * StakerWealth \in Nat
  BY ScaleType, StakingAssumption, FS_CardinalityType
<1>9. FundingTraced
  <2> DEFINE W == Cardinality(Stakers) * StakerWealth
  <2> HIDE DEF W
  <2>1. Held = W /\ W \in Nat
    BY <1>3, <1>7, <1>8 DEF Held, W
  <2>2. BroughtIn = 0
    BY <2>1 DEF BroughtIn, W
  <2>3. 0 * AccScale = 0
    BY ScaleType
  <2> QED
    BY <2>1, <2>2, <2>3 DEF FundingTraced, W
<1> QED
  BY <1>1, <1>4, <1>6, <1>9 DEF Inv

\* Nothing but the configuration, the clock or the report changes.
LEMMA InvWorld ==
    ASSUME Inv, UNCHANGED <<funding, buffer, stakes, outside>>,
           now' \in Nat, params' \in ParamSets, venue' \in VenueRecords,
           mint_paused' \in BOOLEAN
    PROVE  Inv'
<1>1. /\ UNCHANGED <<acc_funding_per_share, staker_funding_balance, funding_vault>>
      /\ UNCHANGED <<buffer_balance, buffer_vault>>
      /\ UNCHANGED <<position, total_staked, stake_vault, wallet>> /\ UNCHANGED outside
  BY DEF funding, buffer, stakes
<1>2. TypeOK'
  BY <1>1 DEF Inv, TypeOK
<1>3. VaultsAccounted'
  BY <1>1 DEF Inv, VaultsAccounted, Amounts, Pendings
<1>4. DebtWithinEntitlement'
  BY <1>1 DEF Inv, DebtWithinEntitlement, Entitlement
<1>5. FundingTraced'
  BY <1>1 DEF Inv, FundingTraced, BroughtIn, Held, Amounts, Pendings
<1> QED
  BY <1>2, <1>3, <1>4, <1>5 DEF Inv

LEMMA InvStake ==
    ASSUME Inv, NEW s \in Stakers, NEW amount \in StakeAmounts, Stake(s, amount)
    PROVE  Inv'
<1> DEFINE p == position[s]
           q == Rebased(p, p.amount + amount)
<1>1. /\ TypeOK /\ VaultsAccounted /\ DebtWithinEntitlement /\ FundingTraced
      /\ amount \in Nat
  BY StakingAssumption DEF Inv
<1>2. /\ amount <= wallet[s] /\ position' = [position EXCEPT ![s] = q]
      /\ wallet' = [wallet EXCEPT ![s] = wallet[s] - amount]
      /\ stake_vault' = stake_vault + amount /\ total_staked' = total_staked + amount
      /\ UNCHANGED <<world, funding, buffer, outside>>
  BY DEF Stake
<1>3. p.amount \in Nat /\ p.amount + amount \in Nat /\ p.pending_unstake \in Nat
  BY <1>1 DEF TypeOK, Positions
<1>4. /\ q \in Positions /\ q.amount = p.amount + amount
      /\ q.pending_unstake = p.pending_unstake
      /\ q.reward_debt = Entitlement(p.amount + amount) /\ q.reward_debt \in Nat
  BY <1>1, <1>3, RebasedFacts
<1> HIDE DEF q
<1>5. /\ position' \in [Stakers -> Positions]
      /\ Sum(Amounts') = Sum(Amounts) - p.amount + q.amount
      /\ Sum(Pendings') = Sum(Pendings) - p.pending_unstake + q.pending_unstake
  BY <1>1, <1>2, <1>4, PositionMoved
<1>6. Sum(Amounts) \in Nat /\ Sum(Pendings) \in Nat
  BY <1>1, PositionTypes
<1>7. wallet[s] \in Nat /\ wallet[s] - amount \in Nat
  BY <1>1, <1>2 DEF TypeOK
<1>8. /\ wallet' \in [Stakers -> Nat] /\ Sum(wallet) \in Nat
      /\ Sum(wallet') = Sum(wallet) - wallet[s] + (wallet[s] - amount)
  BY <1>1, <1>2, <1>7, WalletMoved
<1> HIDE DEF p
<1>9. /\ Sum(Amounts') = Sum(Amounts) + amount /\ Sum(Pendings') = Sum(Pendings)
      /\ Sum(wallet') = Sum(wallet) - amount
  BY <1>1, <1>3, <1>4, <1>5, <1>6, <1>7, <1>8
<1>10. TypeOK'
  BY <1>1, <1>2, <1>5, <1>8 DEF TypeOK, world, funding, buffer
<1>11. VaultsAccounted'
  <2>1. total_staked' = Sum(Amounts') /\ stake_vault' = Sum(Amounts') + Sum(Pendings')
    BY <1>1, <1>2, <1>6, <1>9 DEF VaultsAccounted
  <2>2. funding_vault' = staker_funding_balance' /\ buffer_vault' = buffer_balance'
    BY <1>1, <1>2 DEF VaultsAccounted, funding, buffer
  <2> QED
    BY <2>1, <2>2 DEF VaultsAccounted
<1>12. DebtWithinEntitlement'
  <2>1. q.reward_debt <= Entitlement(q.amount)
    BY <1>4
  <2> QED
    BY <1>1, <1>2, <1>4, <2>1, DebtKept DEF funding
<1>13. FundingTraced'
  <2>1. Held' = Sum(wallet') + Sum(Amounts') + Sum(Pendings')
    BY DEF Held
  <2>2. Held \in Nat /\ Held = Sum(wallet) + Sum(Amounts) + Sum(Pendings)
    BY <1>6, <1>8 DEF Held
  <2>3. Held' = Held + 0
    BY <1>1, <1>6, <1>8, <1>9, <2>1, <2>2
  <2>4. /\ staker_funding_balance' = staker_funding_balance - 0
        /\ 0 <= staker_funding_balance /\ UNCHANGED acc_funding_per_share
    BY <1>1, <1>2 DEF funding, TypeOK
  <2> QED
    BY <1>1, <2>3, <2>4, TracedWhenTaken
<1> QED
  BY <1>10, <1>11, <1>12, <1>13 DEF Inv

LEMMA InvRequestUnstake ==
    ASSUME Inv, NEW s \in Stakers, NEW amount \in StakeAmounts, RequestUnstake(s, amount)
    PROVE  Inv'
<1> DEFINE p == position[s]
           r == Rebased(p, p.amount - amount)
           end == now + params.unstake_cooldown_sec
           q == [r EXCEPT !.pending_unstake = @ + amount, !.cooldown_end = end]
<1>1. /\ TypeOK /\ VaultsAccounted /\ DebtWithinEntitlement /\ FundingTraced
      /\ amount \in Nat
  BY StakingAssumption DEF Inv
<1>2. /\ amount <= p.amount /\ position' = [position EXCEPT ![s] = q]
      /\ total_staked' = total_staked - amount
      /\ UNCHANGED <<world, funding, buffer, stake_vault, wallet, outside>>
  BY DEF RequestUnstake
<1>3. p.amount \in Nat /\ p.amount - amount \in Nat /\ p.pending_unstake \in Nat
  BY <1>1, <1>2 DEF TypeOK, Positions
<1>4. /\ r \in Positions /\ r.amount = p.amount - amount
      /\ r.pending_unstake = p.pending_unstake
      /\ r.reward_debt = Entitlement(p.amount - amount)
  BY <1>1, <1>3, RebasedFacts
<1>5. end \in Nat
  BY <1>1, ParamTypes DEF TypeOK
<1> HIDE DEF r, end
<1>6. /\ q \in Positions /\ q.amount = p.amount - amount
      /\ q.pending_unstake = p.pending_unstake + amount
      /\ q.reward_debt = Entitlement(p.amount - amount)
  <2>1. r.pending_unstake + amount \in Nat
    BY <1>1, <1>3, <1>4
  <2>2. /\ q \in Positions /\ q.amount = r.amount /\ q.reward_debt = r.reward_debt
        /\ q.pending_unstake = r.pending_unstake + amount
    BY <1>4, <1>5, <2>1 DEF Positions
  <2> HIDE DEF q
  <2> QED
    BY <1>4, <2>2
<1> HIDE DEF q
<1>7. /\ position' \in [Stakers -> Positions]
      /\ Sum(Amounts') = Sum(Amounts) - p.amount + q.amount
      /\ Sum(Pendings') = Sum(Pendings) - p.pending_unstake + q.pending_unstake
      /\ p.amount <= Sum(Amounts)
  BY <1>1, <1>2, <1>6, PositionMoved
<1>8. Sum(Amounts) \in Nat /\ Sum(Pendings) \in Nat /\ Sum(wallet) \in Nat
  BY <1>1, PositionTypes
<1> HIDE DEF p
<1>9. /\ Sum(Amounts') = Sum(Amounts) - amount /\ Sum(Pendings') = Sum(Pendings) + amount
      /\ amount <= Sum(Amounts)
  BY <1>1, <1>2, <1>3, <1>6, <1>7, <1>8
<1>10. TypeOK'
  <2>1. total_staked' \in Nat
    BY <1>1, <1>2, <1>8, <1>9 DEF VaultsAccounted
  <2> QED
    BY <1>1, <1>2, <1>7, <2>1 DEF TypeOK, world, funding, buffer
<1>11. VaultsAccounted'
  <2>1. total_staked' = Sum(Amounts') /\ stake_vault' = Sum(Amounts') + Sum(Pendings')
    BY <1>1, <1>2, <1>8, <1>9 DEF VaultsAccounted
  <2>2. funding_vault' = staker_funding_balance' /\ buffer_vault' = buffer_balance'
    BY <1>1, <1>2 DEF VaultsAccounted, funding, buffer
  <2> QED
    BY <2>1, <2>2 DEF VaultsAccounted
<1>12. DebtWithinEntitlement'
  <2>1. q.reward_debt <= Entitlement(q.amount)
    <3>1. Entitlement(p.amount - amount) \in Nat
      BY <1>1, <1>3, EntitlementParts DEF TypeOK
    <3> QED
      BY <1>6, <3>1
  <2> QED
    BY <1>1, <1>2, <1>6, <2>1, DebtKept DEF funding
<1>13. FundingTraced'
  <2>1. Held' = Sum(wallet) + Sum(Amounts') + Sum(Pendings')
    BY <1>2 DEF Held
  <2>2. Held = Sum(wallet) + Sum(Amounts) + Sum(Pendings)
    BY DEF Held
  <2>3. Held' = Held + 0
    BY <1>1, <1>8, <1>9, <2>1, <2>2
  <2>4. /\ staker_funding_balance' = staker_funding_balance - 0
        /\ 0 <= staker_funding_balance /\ UNCHANGED acc_funding_per_share
    BY <1>1, <1>2 DEF funding, TypeOK
  <2> QED
    BY <1>1, <2>3, <2>4, TracedWhenTaken
<1> QED
  BY <1>10, <1>11, <1>12, <1>13 DEF Inv

LEMMA InvUnstake ==
    ASSUME Inv, NEW s \in Stakers, Unstake(s)
    PROVE  Inv'
<1> DEFINE p == position[s]
           amount == p.pending_unstake
           q == [p EXCEPT !.pending_unstake = 0, !.cooldown_end = 0]
<1>1. TypeOK /\ VaultsAccounted /\ DebtWithinEntitlement /\ FundingTraced
  BY DEF Inv
<1>2. /\ position' = [position EXCEPT ![s] = q]
      /\ stake_vault' = stake_vault - amount
      /\ wallet' = [wallet EXCEPT ![s] = wallet[s] + amount]
      /\ UNCHANGED <<world, funding, buffer, total_staked, outside>>
  BY DEF Unstake
<1>3. p \in Positions /\ p.amount \in Nat /\ amount \in Nat
  BY <1>1 DEF TypeOK, Positions
<1>4. /\ q \in Positions /\ q.amount = p.amount /\ q.pending_unstake = 0
      /\ q.reward_debt = p.reward_debt
  BY <1>3 DEF Positions
<1> HIDE DEF q
<1>5. /\ position' \in [Stakers -> Positions]
      /\ Sum(Amounts') = Sum(Amounts) - p.amount + q.amount
      /\ Sum(Pendings') = Sum(Pendings) - amount + q.pending_unstake
      /\ amount <= Sum(Pendings)
  BY <1>1, <1>2, <1>4, PositionMoved
<1>6. Sum(Amounts) \in Nat /\ Sum(Pendings) \in Nat
  BY <1>1, PositionTypes
<1>7. wallet[s] \in Nat /\ wallet[s] + amount \in Nat
  BY <1>1, <1>3 DEF TypeOK
<1>8. /\ wallet' \in [Stakers -> Nat] /\ Sum(wallet) \in Nat
      /\ Sum(wallet') = Sum(wallet) - wallet[s] + (wallet[s] + amount)
  BY <1>1, <1>2, <1>7, WalletMoved
<1>9. q.reward_debt <= Entitlement(q.amount)
  BY <1>1, <1>4 DEF DebtWithinEntitlement
<1>10. DebtWithinEntitlement'
  BY <1>1, <1>2, <1>4, <1>9, DebtKept DEF funding
<1> HIDE DEF p, amount
<1>11. /\ Sum(Amounts') = Sum(Amounts) /\ Sum(Pendings') = Sum(Pendings) - amount
       /\ Sum(wallet') = Sum(wallet) + amount
  BY <1>1, <1>3, <1>4, <1>5, <1>6, <1>7, <1>8
<1>12. TypeOK'
  <2>1. stake_vault' \in Nat
    BY <1>1, <1>2, <1>3, <1>5, <1>6 DEF VaultsAccounted
  <2> QED
    BY <1>1, <1>2, <1>5, <1>8, <2>1 DEF TypeOK, world, funding, buffer
<1>13. VaultsAccounted'
  <2>1. total_staked' = Sum(Amounts') /\ stake_vault' = Sum(Amounts') + Sum(Pendings')
    BY <1>1, <1>2, <1>3, <1>6, <1>11 DEF VaultsAccounted
  <2>2. funding_vault' = staker_funding_balance' /\ buffer_vault' = buffer_balance'
    BY <1>1, <1>2 DEF VaultsAccounted, funding, buffer
  <2> QED
    BY <2>1, <2>2 DEF VaultsAccounted
<1>14. FundingTraced'
  <2>1. Held' = Sum(wallet') + Sum(Amounts') + Sum(Pendings')
    BY DEF Held
  <2>2. Held = Sum(wallet) + Sum(Amounts) + Sum(Pendings)
    BY DEF Held
  <2>3. Held' = Held + 0
    BY <1>3, <1>6, <1>8, <1>11, <2>1, <2>2
  <2>4. /\ staker_funding_balance' = staker_funding_balance - 0
        /\ 0 <= staker_funding_balance /\ UNCHANGED acc_funding_per_share
    BY <1>1, <1>2 DEF funding, TypeOK
  <2> QED
    BY <1>1, <2>3, <2>4, TracedWhenTaken
<1> QED
  BY <1>10, <1>12, <1>13, <1>14 DEF Inv

LEMMA InvClaimFunding ==
    ASSUME Inv, NEW s \in Stakers, ClaimFunding(s)
    PROVE  Inv'
<1> DEFINE p == position[s]
           amount == Claimable(p)
           q == [Accrued(p) EXCEPT !.unclaimed = 0]
<1>1. TypeOK /\ VaultsAccounted /\ DebtWithinEntitlement /\ FundingTraced
  BY DEF Inv
<1>2. /\ amount <= staker_funding_balance /\ position' = [position EXCEPT ![s] = q]
      /\ staker_funding_balance' = staker_funding_balance - amount
      /\ funding_vault' = funding_vault - amount
      /\ wallet' = [wallet EXCEPT ![s] = wallet[s] + amount]
      /\ UNCHANGED <<world, buffer, acc_funding_per_share, total_staked, stake_vault,
                     outside>>
  BY DEF ClaimFunding
<1>3. p \in Positions /\ p.amount \in Nat /\ p.pending_unstake \in Nat
  BY <1>1 DEF TypeOK, Positions
<1>4. amount \in Nat /\ Entitlement(p.amount) \in Nat
  BY <1>1, <1>3, RebasedFacts
<1> HIDE DEF amount, p
<1>5. /\ q \in Positions /\ q.amount = p.amount
      /\ q.pending_unstake = p.pending_unstake
      /\ q.reward_debt = Entitlement(p.amount)
  <2>1. q = [p EXCEPT !.unclaimed = 0, !.reward_debt = Entitlement(p.amount)]
    BY <1>3 DEF Accrued, Positions
  <2> QED
    BY <1>3, <1>4, <2>1 DEF Positions
<1> HIDE DEF q
<1>6. /\ position' \in [Stakers -> Positions]
      /\ Sum(Amounts') = Sum(Amounts) - p.amount + q.amount
      /\ Sum(Pendings') = Sum(Pendings) - p.pending_unstake + q.pending_unstake
  BY <1>1, <1>2, <1>5, PositionMoved DEF p
<1>7. Sum(Amounts) \in Nat /\ Sum(Pendings) \in Nat
  BY <1>1, PositionTypes
<1>8. wallet[s] \in Nat /\ wallet[s] + amount \in Nat
  BY <1>1, <1>4 DEF TypeOK
<1>9. /\ wallet' \in [Stakers -> Nat] /\ Sum(wallet) \in Nat
      /\ Sum(wallet') = Sum(wallet) - wallet[s] + (wallet[s] + amount)
  BY <1>1, <1>2, <1>8, WalletMoved
<1>10. /\ Sum(Amounts') = Sum(Amounts) /\ Sum(Pendings') = Sum(Pendings)
       /\ Sum(wallet') = Sum(wallet) + amount
  BY <1>3, <1>4, <1>5, <1>6, <1>7, <1>8, <1>9
<1>11. DebtWithinEntitlement'
  <2>1. q.reward_debt <= Entitlement(q.amount)
    BY <1>4, <1>5
  <2> QED
    BY <1>1, <1>2, <1>5, <2>1, DebtKept
<1>12. TypeOK'
  <2>1. staker_funding_balance' \in Nat /\ funding_vault' \in Nat
    BY <1>1, <1>2, <1>4 DEF TypeOK, VaultsAccounted
  <2> QED
    BY <1>1, <1>2, <1>6, <1>9, <2>1 DEF TypeOK, world, buffer
<1>13. VaultsAccounted'
  <2>1. total_staked' = Sum(Amounts') /\ stake_vault' = Sum(Amounts') + Sum(Pendings')
    BY <1>1, <1>2, <1>10 DEF VaultsAccounted
  <2>2. funding_vault' = staker_funding_balance' /\ buffer_vault' = buffer_balance'
    BY <1>1, <1>2 DEF VaultsAccounted, buffer
  <2> QED
    BY <2>1, <2>2 DEF VaultsAccounted
<1>14. FundingTraced'
  <2>1. Held' = Sum(wallet') + Sum(Amounts') + Sum(Pendings')
    BY DEF Held
  <2>2. Held = Sum(wallet) + Sum(Amounts) + Sum(Pendings)
    BY DEF Held
  <2>3. Held' = Held + amount
    BY <1>4, <1>7, <1>9, <1>10, <2>1, <2>2
  <2> QED
    BY <1>1, <1>2, <1>4, <2>3, TracedWhenTaken
<1> QED
  BY <1>11, <1>12, <1>13, <1>14 DEF Inv

\* Funding that comes in for the stakers raises the accumulator by no more.
LEMMA InvFunded ==
    ASSUME Inv, NEW d \in Nat, NEW inc \in Nat, inc <= d * AccScale,
           UNCHANGED <<world, stakes>>,
           staker_funding_balance' = staker_funding_balance + d,
           funding_vault' = funding_vault + d,
           acc_funding_per_share' = acc_funding_per_share + inc,
           NEW b \in Nat, buffer_balance' = b, buffer_vault' = b, outside' \in Nat
    PROVE  Inv'
<1>1. /\ TypeOK /\ VaultsAccounted /\ DebtWithinEntitlement /\ FundingTraced
      /\ UNCHANGED <<now, params, venue, mint_paused>>
      /\ UNCHANGED <<position, total_staked, stake_vault, wallet>>
  BY DEF Inv, world, stakes
<1>2. TypeOK'
  BY <1>1 DEF TypeOK
<1>3. VaultsAccounted'
  BY <1>1 DEF VaultsAccounted, Amounts, Pendings
<1>4. PICK acc \in Nat : acc = acc_funding_per_share + inc
  BY <1>1 DEF TypeOK
<1>5. DebtWithinEntitlement'
  <2> SUFFICES ASSUME NEW s \in Stakers
               PROVE  position[s].reward_debt <= (position[s].amount * acc) \div AccScale
    BY <1>1, <1>4 DEF DebtWithinEntitlement, Entitlement
  <2> DEFINE a == position[s].amount
             x == a * acc_funding_per_share
             y == a * acc
  <2>1. a \in Nat /\ position[s].reward_debt \in Nat
    BY <1>1 DEF TypeOK, Positions
  <2>2. position[s].reward_debt <= x \div AccScale
    BY <1>1 DEF DebtWithinEntitlement, Entitlement
  <2> HIDE DEF a
  <2>3. x \in Nat /\ x <= y /\ y \in Nat
    <3>1. acc_funding_per_share \in Nat /\ acc_funding_per_share <= acc
      BY <1>1, <1>4 DEF TypeOK
    <3>2. /\ acc_funding_per_share * a <= acc * a /\ acc_funding_per_share * a \in Nat
          /\ acc * a \in Nat
      BY <1>4, <2>1, <3>1, ProductMonotone
    <3> QED
      BY <1>4, <2>1, <3>1, <3>2
  <2> HIDE DEF x, y
  <2>4. x \div AccScale <= y \div AccScale /\ x \div AccScale \in Nat /\ y \div AccScale \in Nat
    BY <2>3, ScaleType, QuotientMonotone, DivRoundsDown
  <2>5. position[s].reward_debt <= y \div AccScale
    BY <2>1, <2>2, <2>4
  <2> QED
    BY <2>5 DEF y, a
<1>6. FundingTraced'
  <2>1. Held \in Nat /\ staker_funding_balance \in Nat /\ d * AccScale \in Nat
    BY <1>1, PositionTypes, ScaleType DEF Held, TypeOK
  <2>2. PICK held \in Nat : held = Held
    BY <2>1
  <2>3. PICK balance \in Nat : balance = staker_funding_balance + d
    BY <2>1
  <2>4. Held' = held
    BY <1>1, <2>2 DEF Held, Amounts, Pendings
  <2>5. held >= Held /\ held + balance = Held + staker_funding_balance + d
    BY <2>1, <2>2, <2>3
  <2>6. acc <= acc_funding_per_share + d * AccScale
    BY <1>1, <1>4, <2>1 DEF TypeOK
  <2> QED
    BY <1>1, <1>4, <2>3, <2>4, <2>5, <2>6, TracedWhenHeld
<1> QED
  BY <1>2, <1>3, <1>5, <1>6 DEF Inv

\* Funding has arrived for the stakers: the accumulator promises no more of it
\* than came, to one unit of stake or to all of them.
Funded(d, inc) ==
    /\ d \in Nat /\ inc \in Nat
    /\ inc <= d * AccScale /\ inc * total_staked <= d * AccScale
    /\ d > 0 => total_staked > 0
    /\ UNCHANGED <<world, stakes>>
    /\ staker_funding_balance' = staker_funding_balance + d
    /\ funding_vault' = funding_vault + d
    /\ acc_funding_per_share' = acc_funding_per_share + inc

\* A settlement and a draw are the two ways it arrives.
LEMMA SettlementFunds ==
    ASSUME Inv, NEW amount \in Transfers, SettleFunding(amount)
    PROVE  /\ \E d, inc \in Nat : Funded(d, inc)
           /\ buffer_balance' = buffer_balance + ToBuffer(amount)
           /\ buffer_vault' = buffer_balance + ToBuffer(amount)
           /\ ToBuffer(amount) \in Nat /\ outside' \in Nat
<1> DEFINE b == ToBuffer(amount)
           d == amount - b
           inc == IF d > 0 THEN AccIncrement(d) ELSE 0
<1>1. TypeOK /\ VaultsAccounted /\ amount \in Nat /\ params \in ParamSets
  BY StakingAssumption DEF Inv, TypeOK
<1>2. b \in Nat /\ b <= amount /\ (total_staked = 0 => b = amount)
  BY <1>1, ShareBound DEF ToBuffer
<1>3. /\ amount <= outside /\ outside' = outside - amount
      /\ buffer_balance' = buffer_balance + b /\ buffer_vault' = buffer_vault + b
      /\ staker_funding_balance' = staker_funding_balance + d
      /\ funding_vault' = funding_vault + d
      /\ acc_funding_per_share' = acc_funding_per_share + inc
      /\ UNCHANGED <<world, stakes>>
  BY DEF SettleFunding
<1> HIDE DEF b
<1>4. d \in Nat /\ total_staked \in Nat /\ (d > 0 => total_staked > 0)
  BY <1>1, <1>2 DEF TypeOK
<1> HIDE DEF d
<1>5. inc \in Nat /\ inc <= d * AccScale /\ inc * total_staked <= d * AccScale
  <2>1. CASE d > 0
    <3>1. inc = AccIncrement(d)
      BY <2>1
    <3> QED
      BY <1>4, <2>1, <3>1, IncrementBound
  <2>2. CASE d = 0
    <3>1. inc = 0 /\ 0 * AccScale = 0 /\ 0 * total_staked = 0
      BY <1>4, <2>2, ScaleType
    <3> QED
      BY <2>2, <3>1
  <2> QED
    BY <1>4, <2>1, <2>2
<1> HIDE DEF inc
<1>6. Funded(d, inc)
  BY <1>3, <1>4, <1>5 DEF Funded
<1>7. outside' \in Nat /\ buffer_vault' = buffer_balance + b
  BY <1>1, <1>2, <1>3 DEF TypeOK, VaultsAccounted
<1> QED
  BY <1>2, <1>3, <1>4, <1>5, <1>6, <1>7 DEF b

LEMMA DrawFunds ==
    ASSUME Inv, NEW amount \in Transfers, BufferWithdraw(amount)
    PROVE  /\ \E d, inc \in Nat : Funded(d, inc)
           /\ amount \in Nat /\ amount <= buffer_balance
           /\ buffer_balance' = buffer_balance - amount
           /\ buffer_vault' = buffer_balance - amount /\ outside' \in Nat
<1>1. TypeOK /\ VaultsAccounted /\ amount \in Nat
  BY StakingAssumption DEF Inv
<1>2. /\ amount <= buffer_balance /\ total_staked > 0
      /\ buffer_balance' = buffer_balance - amount /\ buffer_vault' = buffer_vault - amount
      /\ staker_funding_balance' = staker_funding_balance + amount
      /\ funding_vault' = funding_vault + amount
      /\ acc_funding_per_share' = acc_funding_per_share + AccIncrement(amount)
      /\ UNCHANGED <<world, stakes, outside>>
  BY DEF BufferWithdraw
<1>3. /\ AccIncrement(amount) \in Nat /\ AccIncrement(amount) <= amount * AccScale
      /\ AccIncrement(amount) * total_staked <= amount * AccScale
  BY <1>1, <1>2, IncrementBound DEF TypeOK
<1>4. Funded(amount, AccIncrement(amount))
  BY <1>1, <1>2, <1>3 DEF Funded
<1>5. buffer_vault' = buffer_balance - amount /\ outside' \in Nat
  BY <1>1, <1>2 DEF VaultsAccounted, TypeOK
<1> QED
  BY <1>1, <1>2, <1>3, <1>4, <1>5

LEMMA InvFundingStep ==
    ASSUME Inv, FundingStep
    PROVE  Inv'
<1>1. TypeOK /\ buffer_balance \in Nat
  BY DEF Inv, TypeOK
<1>2. ASSUME NEW b \in Nat, buffer_balance' = b, buffer_vault' = b, outside' \in Nat,
             NEW d \in Nat, NEW inc \in Nat, Funded(d, inc)
      PROVE  Inv'
  BY <1>2, InvFunded DEF Funded
<1>3. ASSUME NEW amount \in Transfers, SettleFunding(amount) PROVE Inv'
  <2>1. PICK b \in Nat : b = buffer_balance + ToBuffer(amount)
    BY <1>1, <1>3, SettlementFunds
  <2> QED
    BY <1>2, <1>3, <2>1, SettlementFunds
<1>4. ASSUME NEW amount \in Transfers, BufferWithdraw(amount) PROVE Inv'
  <2>1. PICK b \in Nat : b = buffer_balance - amount
    BY <1>1, <1>4, DrawFunds
  <2> QED
    BY <1>2, <1>4, <2>1, DrawFunds
<1>5. ASSUME NEW amount \in Transfers, BufferDeposit(amount) PROVE Inv'
  <2>1. /\ TypeOK /\ VaultsAccounted /\ DebtWithinEntitlement /\ FundingTraced
        /\ amount \in Nat
    BY StakingAssumption DEF Inv
  <2>2. /\ amount <= outside /\ outside' = outside - amount
        /\ buffer_balance' = buffer_balance + amount
        /\ buffer_vault' = buffer_vault + amount
        /\ UNCHANGED <<now, params, venue, mint_paused>>
        /\ UNCHANGED <<acc_funding_per_share, staker_funding_balance, funding_vault>>
        /\ UNCHANGED <<position, total_staked, stake_vault, wallet>>
    BY <1>5 DEF BufferDeposit, world, funding, stakes
  <2>3. TypeOK'
    BY <2>1, <2>2 DEF TypeOK
  <2>4. VaultsAccounted'
    BY <2>1, <2>2 DEF VaultsAccounted, Amounts, Pendings
  <2>5. DebtWithinEntitlement'
    BY <2>1, <2>2 DEF DebtWithinEntitlement, Entitlement
  <2>6. FundingTraced'
    BY <2>1, <2>2 DEF FundingTraced, BroughtIn, Held, Amounts, Pendings
  <2> QED
    BY <2>3, <2>4, <2>5, <2>6 DEF Inv
<1> QED
  BY <1>3, <1>4, <1>5 DEF FundingStep

\* The report, the clock and the configuration touch no account.
LEMMA InvWorldStep ==
    ASSUME Inv,
           \/ \E id \in Venues, carry \in Carries, capacity \in Capacities :
                  Report(id, carry, capacity)
           \/ TimePasses
           \/ \E p \in ParamSets : SetParams(p)
           \/ \E paused \in BOOLEAN : SetPaused(paused)
    PROVE  Inv' /\ UNCHANGED <<funding, buffer, stakes, outside>>
<1>1. TypeOK
  BY DEF Inv
<1>2. ASSUME NEW id \in Venues, NEW carry \in Carries, NEW capacity \in Capacities,
             Report(id, carry, capacity)
      PROVE  Inv' /\ UNCHANGED <<funding, buffer, stakes, outside>>
  <2>1. Lower(capacity, params.max_reportable_capacity_notional) \in Nat
    BY <1>1, ParamTypes, VenueAssumption DEF Lower, TypeOK
  <2>2. RegimeClock(carry) \in Nat /\ now \in Nat /\ carry \in Int
    BY <1>1, VenueAssumption DEF RegimeClock, VenueRecords, TypeOK
  <2>3. venue' \in VenueRecords
    BY <1>2, <2>1, <2>2 DEF Report, ReportVenueState, VenueRecords
  <2> QED
    BY <1>1, <1>2, <2>3, InvWorld DEF Report, TypeOK
<1>3. ASSUME TimePasses PROVE Inv' /\ UNCHANGED <<funding, buffer, stakes, outside>>
  <2>1. now' \in Nat
    BY <1>1, <1>3 DEF TimePasses, Tick, TypeOK
  <2> QED
    BY <1>1, <1>3, <2>1, InvWorld DEF TimePasses, TypeOK
<1>4. ASSUME NEW p \in ParamSets, SetParams(p)
      PROVE  Inv' /\ UNCHANGED <<funding, buffer, stakes, outside>>
  BY <1>1, <1>4, InvWorld DEF SetParams, TypeOK
<1>5. ASSUME NEW paused \in BOOLEAN, SetPaused(paused)
      PROVE  Inv' /\ UNCHANGED <<funding, buffer, stakes, outside>>
  BY <1>1, <1>5, InvWorld DEF SetPaused, TypeOK
<1> QED
  BY <1>2, <1>3, <1>4, <1>5

LEMMA InvNext == Inv /\ [Next]_vars => Inv'
<1> SUFFICES ASSUME Inv, [Next]_vars PROVE Inv'
  OBVIOUS
<1>1. ASSUME NEW s \in Stakers, StakerStep(s) PROVE Inv'
  BY <1>1, InvStake, InvRequestUnstake, InvUnstake, InvClaimFunding DEF StakerStep
<1>2. ASSUME FundingStep PROVE Inv'
  BY <1>2, InvFundingStep
<1>3. ASSUME UNCHANGED vars PROVE Inv'
  <2>1. /\ UNCHANGED <<funding, buffer, stakes, outside>>
        /\ UNCHANGED <<now, params, venue, mint_paused>>
    BY <1>3 DEF vars, world
  <2>2. now \in Nat /\ params \in ParamSets /\ venue \in VenueRecords /\ mint_paused \in BOOLEAN
    BY DEF Inv, TypeOK
  <2> QED
    BY <2>1, <2>2, InvWorld
<1> QED
  BY <1>1, <1>2, <1>3, InvWorldStep DEF Next

THEOREM StakingInvariant == Spec => []Inv
BY InvInit, InvNext, PTL DEF Spec

\* The fields of every staking account and vault keep their types: no balance,
\* stake, debt or claim is ever negative, as the u64 and u128 of the code demand.
THEOREM StakingKeepsTypes == Spec => []TypeOK
BY StakingInvariant, PTL DEF Inv

\* The three vaults hold what the accounts say, however stakes, exits, claims,
\* settlements and draws interleave.
THEOREM VaultsStayAccounted == Spec => []VaultsAccounted
BY StakingInvariant, PTL DEF Inv

\* No accrual underflows: a position is never locked by its own debt.
THEOREM DebtsStayWithin == Spec => []DebtWithinEntitlement
BY StakingInvariant, PTL DEF Inv

-----------------------------------------------------------------------------
(* How the claims move. *)

LEMMA SumTypes ==
    Inv => /\ Claims \in [Stakers -> Nat] /\ Fractions \in [Stakers -> Nat]
           /\ Amounts \in [Stakers -> Nat]
           /\ Sum(Claims) \in Nat /\ Sum(Fractions) \in Nat /\ Sum(Amounts) \in Nat
BY PositionTypes DEF Inv

LEMMA SumTypesNext ==
    ASSUME Inv'
    PROVE  /\ Claims' \in [Stakers -> Nat] /\ Fractions' \in [Stakers -> Nat]
           /\ Sum(Claims') \in Nat /\ Sum(Fractions') \in Nat
<1>1. (Inv => /\ Claims \in [Stakers -> Nat] /\ Fractions \in [Stakers -> Nat]
              /\ Sum(Claims) \in Nat /\ Sum(Fractions) \in Nat)'
  BY SumTypes, PTL
<1> QED
  BY <1>1

\* A position whose claim is what it was leaves every claim what it was.
LEMMA ClaimsKept ==
    ASSUME Inv, NEW s \in Stakers, NEW q \in Positions,
           position' = [position EXCEPT ![s] = q], UNCHANGED acc_funding_per_share,
           q.unclaimed + Entitlement(q.amount) - q.reward_debt = Claimable(position[s])
    PROVE  Claims' = Claims
<1>1. /\ position'[s] = q /\ \A t \in Stakers \ {s} : position'[t] = position[t]
  BY DEF Inv, TypeOK
<1>2. ASSUME NEW t \in Stakers PROVE Claims'[t] = Claims[t]
  <2>1. CASE t = s
    BY <1>1, <2>1 DEF Claims, Claimable, Entitlement
  <2>2. CASE t # s
    BY <1>1, <2>2 DEF Claims, Claimable, Entitlement
  <2> QED
    BY <2>1, <2>2
<1> QED
  BY <1>2 DEF Claims

\* Stakers who join or leave.
LEMMA StakeChanges ==
    ASSUME Inv, NEW s \in Stakers, NEW amount \in StakeAmounts,
           Stake(s, amount) \/ RequestUnstake(s, amount)
    PROVE  /\ total_staked' # total_staked
           /\ UNCHANGED <<acc_funding_per_share, staker_funding_balance>>
           /\ Claims' = Claims
           /\ \E q \in Positions : position' = [position EXCEPT ![s] = q]
<1>1. /\ TypeOK /\ DebtWithinEntitlement /\ amount \in Nat /\ amount > 0
      /\ total_staked \in Nat
      /\ total_staked' = total_staked + amount \/ total_staked' = total_staked - amount
      /\ UNCHANGED <<acc_funding_per_share, staker_funding_balance>>
  BY StakingAssumption DEF Inv, TypeOK, Stake, RequestUnstake, funding
<1>2. PICK a \in Nat, q \in Positions :
          /\ position' = [position EXCEPT ![s] = q]
          /\ q.amount = a /\ q.reward_debt = Entitlement(a)
          /\ q.unclaimed = Claimable(position[s])
  <2>1. CASE Stake(s, amount)
    <3> DEFINE a == position[s].amount + amount
    <3>1. a \in Nat
      BY <1>1 DEF TypeOK, Positions
    <3>2. position' = [position EXCEPT ![s] = Rebased(position[s], a)]
      BY <2>1 DEF Stake
    <3> HIDE DEF a
    <3> QED
      BY <1>1, <3>1, <3>2, RebasedFacts
  <2>2. CASE RequestUnstake(s, amount)
    <3> DEFINE a == position[s].amount - amount
               r == Rebased(position[s], a)
               end == now + params.unstake_cooldown_sec
               n == r.pending_unstake + amount
               q == [r EXCEPT !.pending_unstake = n, !.cooldown_end = end]
    <3>1. a \in Nat /\ end \in Nat
      BY <1>1, <2>2, ParamTypes DEF RequestUnstake, TypeOK, Positions
    <3>2. position' = [position EXCEPT ![s] = q]
      BY <2>2 DEF RequestUnstake
    <3> HIDE DEF a, end
    <3>3. /\ r \in Positions /\ r.amount = a /\ r.reward_debt = Entitlement(a)
          /\ r.unclaimed = Claimable(position[s])
      BY <1>1, <3>1, RebasedFacts
    <3> HIDE DEF r
    <3>4. n \in Nat
      BY <1>1, <3>3 DEF Positions
    <3> HIDE DEF n
    <3>5. /\ q \in Positions /\ q.amount = r.amount /\ q.reward_debt = r.reward_debt
          /\ q.unclaimed = r.unclaimed
      BY <3>1, <3>3, <3>4 DEF Positions
    <3> HIDE DEF q
    <3> QED
      BY <3>1, <3>2, <3>3, <3>5
  <2> QED
    BY <2>1, <2>2
<1>3. Entitlement(a) \in Nat /\ Claimable(position[s]) \in Nat
  <2>1. Claims[s] \in Nat /\ Claims[s] = Claimable(position[s])
    BY SumTypes DEF Claims
  <2> QED
    BY <1>1, <2>1, EntitlementParts DEF TypeOK
<1>4. q.unclaimed + Entitlement(q.amount) - q.reward_debt = Claimable(position[s])
  BY <1>2, <1>3
<1>5. Claims' = Claims
  BY <1>1, <1>2, <1>4, ClaimsKept
<1>6. total_staked' # total_staked
  BY <1>1
<1>7. \E r \in Positions : position' = [position EXCEPT ![s] = r]
  BY <1>2
<1> QED
  BY <1>1, <1>5, <1>6, <1>7

LEMMA OnlyStakersMoveStakes ==
    ASSUME Inv, [Next]_vars, total_staked' # total_staked
    PROVE  \E s \in Stakers, amount \in StakeAmounts :
               Stake(s, amount) \/ RequestUnstake(s, amount)
<1>1. ASSUME FundingStep PROVE FALSE
  BY <1>1 DEF FundingStep, SettleFunding, BufferDeposit, BufferWithdraw, stakes
<1>2. ASSUME NEW s \in Stakers, Unstake(s) \/ ClaimFunding(s) PROVE FALSE
  BY <1>2 DEF Unstake, ClaimFunding
<1>3. ASSUME UNCHANGED vars PROVE FALSE
  BY <1>3 DEF vars, stakes
<1>4. ASSUME UNCHANGED <<funding, buffer, stakes, outside>> PROVE FALSE
  BY <1>4 DEF stakes
<1>5. CASE \E s \in Stakers : StakerStep(s)
  BY <1>2, <1>5 DEF StakerStep
<1>6. CASE \/ \E id \in Venues, carry \in Carries, capacity \in Capacities :
                  Report(id, carry, capacity)
           \/ TimePasses
           \/ \E p \in ParamSets : SetParams(p)
           \/ \E paused \in BOOLEAN : SetPaused(paused)
  <2>1. UNCHANGED <<funding, buffer, stakes, outside>>
    BY <1>6, InvWorldStep
  <2> QED
    BY <1>4, <2>1
<1> QED
  BY <1>1, <1>3, <1>5, <1>6 DEF Next

\* Joining or leaving moves nobody's claim.
THEOREM StakesMoveNoClaim == Spec => StakeMovesNoClaim
<1>1. Inv /\ [Next]_vars => [total_staked' # total_staked => Claims' = Claims]_vars
  BY OnlyStakersMoveStakes, StakeChanges
<1> QED
  BY <1>1, StakingInvariant, PTL DEF Spec, StakeMovesNoClaim

-----------------------------------------------------------------------------
(* What is owed, counted in AccScale-ths of a unit, fractions included. *)

Owed == Sum(Fractions) + AccScale * Sum(Claims)

LEMMA OwedType == Inv => Owed \in Nat
<1> SUFFICES ASSUME Inv PROVE Owed \in Nat
  OBVIOUS
<1>1. Sum(Claims) \in Nat /\ Sum(Fractions) \in Nat /\ AccScale \in Nat
  BY SumTypes, ScaleType
<1>2. AccScale * Sum(Claims) \in Nat
  BY <1>1
<1> QED
  BY <1>1, <1>2 DEF Owed

\* SumLinear, of functions over the stakers.
LEMMA StakersAddUp ==
    \A c \in Nat : \A f, g, h \in [Stakers -> Nat] :
        (\A s \in Stakers : h[s] = f[s] + c * g[s]) => Sum(h) = Sum(f) + c * Sum(g)
<1> SUFFICES ASSUME NEW c \in Nat, NEW f \in [Stakers -> Nat],
                    NEW g \in [Stakers -> Nat], NEW h \in [Stakers -> Nat],
                    \A s \in Stakers : h[s] = f[s] + c * g[s]
             PROVE  Sum(h) = Sum(f) + c * Sum(g)
  OBVIOUS
<1> QED
  BY ScaleType, SumLinear

\* Funding that arrives adds no more to what is owed than what arrived.
LEMMA OwedWhenFunded ==
    ASSUME Inv, Inv', NEW d \in Nat, NEW inc \in Nat, Funded(d, inc)
    PROVE  \E o \in Nat : Owed' = o /\ o <= Owed + d * AccScale
<1>1. /\ Claims \in [Stakers -> Nat] /\ Fractions \in [Stakers -> Nat]
      /\ Amounts \in [Stakers -> Nat] /\ Sum(Claims) \in Nat /\ Sum(Fractions) \in Nat
      /\ Sum(Amounts) \in Nat /\ AccScale \in Nat /\ IsFiniteSet(Stakers)
  BY SumTypes, ScaleType
<1>2. /\ UNCHANGED position /\ inc * total_staked <= d * AccScale
      /\ acc_funding_per_share' = acc_funding_per_share + inc
      /\ acc_funding_per_share \in Nat /\ total_staked = Sum(Amounts)
  BY DEF Funded, stakes, Inv, TypeOK, VaultsAccounted
<1>3. PICK acc \in Nat : acc = acc_funding_per_share + inc
  BY <1>2
<1>4. PICK claims \in [Stakers -> Nat], fractions \in [Stakers -> Nat] :
          claims = Claims' /\ fractions = Fractions'
  BY SumTypesNext
<1> DEFINE exact == [s \in Stakers |-> Fractions[s] + AccScale * Claims[s]]
           later == [s \in Stakers |-> fractions[s] + AccScale * claims[s]]
<1>5. exact \in [Stakers -> Nat] /\ later \in [Stakers -> Nat]
  <2>1. \A s \in Stakers : AccScale * Claims[s] \in Nat /\ AccScale * claims[s] \in Nat
    BY <1>1, <1>4
  <2> QED
    BY <1>1, <1>4, <2>1
<1> HIDE DEF exact, later
<1>6. Sum(exact) = Sum(Fractions) + AccScale * Sum(Claims)
  <2>1. \A s \in Stakers : exact[s] = Fractions[s] + AccScale * Claims[s]
    BY DEF exact
  <2>2. /\ AccScale \in Nat /\ exact \in [Stakers -> Nat]
        /\ Fractions \in [Stakers -> Nat] /\ Claims \in [Stakers -> Nat]
    BY <1>1, <1>5
  <2> QED
    BY <2>1, <2>2, StakersAddUp
<1>7. Sum(later) = Sum(fractions) + AccScale * Sum(claims)
  <2>1. \A s \in Stakers : later[s] = fractions[s] + AccScale * claims[s]
    BY DEF later
  <2>2. /\ AccScale \in Nat /\ later \in [Stakers -> Nat]
        /\ fractions \in [Stakers -> Nat] /\ claims \in [Stakers -> Nat]
    BY <1>1, <1>5
  <2> QED
    BY <2>1, <2>2, StakersAddUp
<1>8. ASSUME NEW s \in Stakers PROVE later[s] = exact[s] + inc * Amounts[s]
  <2> DEFINE a == position[s].amount
             x == a * acc_funding_per_share
             y == a * acc
             rest == position[s].unclaimed - position[s].reward_debt
  <2>1. a \in Nat /\ rest \in Int
    BY DEF Inv, TypeOK, Positions
  <2>2. /\ Claims[s] = position[s].unclaimed + x \div AccScale - position[s].reward_debt
        /\ Fractions[s] = x % AccScale
    BY DEF Claims, Claimable, Entitlement, Fractions, Fraction
  <2>3. /\ claims[s] = position[s].unclaimed + y \div AccScale - position[s].reward_debt
        /\ fractions[s] = y % AccScale
    BY <1>2, <1>3, <1>4 DEF Claims, Claimable, Entitlement, Fractions, Fraction
  <2>4. position[s].unclaimed \in Nat /\ position[s].reward_debt \in Nat
    BY DEF Inv, TypeOK, Positions
  <2>5. Amounts[s] = a
    BY DEF Amounts
  <2> HIDE DEF a
  <2>6. x \in Nat /\ y \in Nat /\ y = x + inc * a
    BY <1>2, <1>3, <2>1
  <2> HIDE DEF x, y
  <2>7. /\ AccScale * (x \div AccScale) + (x % AccScale) = x
        /\ AccScale * (y \div AccScale) + (y % AccScale) = y
        /\ x \div AccScale \in Nat /\ x % AccScale \in 0 .. (AccScale - 1)
        /\ y \div AccScale \in Nat /\ y % AccScale \in 0 .. (AccScale - 1)
    BY <2>6, UnitsAndFraction
  <2>8. Claims[s] = rest + x \div AccScale /\ claims[s] = rest + y \div AccScale
    BY <2>2, <2>3, <2>4, <2>7
  <2> HIDE DEF rest
  <2>9. ASSUME NEW e \in Nat, NEW r \in Nat
        PROVE  r + AccScale * (rest + e) = (AccScale * e + r) + AccScale * rest
    BY <1>1, <2>1
  <2>10. /\ exact[s] = x + AccScale * rest /\ later[s] = y + AccScale * rest
         /\ AccScale * rest \in Int
    <3>1. x % AccScale \in Nat /\ y % AccScale \in Nat
      BY <2>7, ScaleType
    <3>2. /\ (x % AccScale) + AccScale * (rest + x \div AccScale) = x + AccScale * rest
          /\ (y % AccScale) + AccScale * (rest + y \div AccScale) = y + AccScale * rest
      BY <2>7, <2>9, <3>1
    <3> QED
      BY <1>1, <2>1, <2>2, <2>3, <2>8, <3>2 DEF exact, later
  <2>11. inc * a \in Nat
    BY <2>1
  <2> QED
    BY <2>5, <2>6, <2>10, <2>11
<1>9. Sum(later) = Sum(exact) + inc * Sum(Amounts)
  <2>1. /\ inc \in Nat /\ exact \in [Stakers -> Nat]
        /\ later \in [Stakers -> Nat] /\ Amounts \in [Stakers -> Nat]
    BY <1>1, <1>5
  <2>2. \A s \in Stakers : later[s] = exact[s] + inc * Amounts[s]
    BY <1>8
  <2> QED
    BY <2>1, <2>2, StakersAddUp
<1>10. Owed = Sum(exact) /\ Owed' = Sum(later)
  <2>1. Owed' = Sum(Fractions') + AccScale * Sum(Claims')
    BY DEF Owed
  <2> QED
    BY <1>4, <1>6, <1>7, <2>1 DEF Owed
<1>11. Sum(exact) \in Nat /\ Sum(later) \in Nat /\ inc * Sum(Amounts) \in Nat
       /\ d * AccScale \in Nat
  BY <1>1, <1>5, SumType
<1>12. Sum(later) <= Sum(exact) + d * AccScale
  BY <1>2, <1>9, <1>11
<1> QED
  BY <1>10, <1>11, <1>12

\* Only stakes that earn leave a fraction, each less than a unit.
LEMMA FractionsBound ==
    ASSUME Inv, total_staked > 0
    PROVE  LET n == Cardinality({s \in Stakers : position[s].amount > 0})
           IN  n \in Nat \ {0} /\ Sum(Fractions) <= (AccScale - 1) * n
<1> DEFINE T == {s \in Stakers : position[s].amount > 0}
           most == [s \in Stakers |-> IF s \in T THEN AccScale - 1 ELSE 0]
<1>1. /\ IsFiniteSet(Stakers) /\ AccScale - 1 \in Nat /\ T \in SUBSET Stakers
      /\ Fractions \in [Stakers -> Nat] /\ TypeOK
  BY ScaleType, SumTypes DEF Inv
<1>2. IsFiniteSet(T) /\ Cardinality(T) \in Nat
  BY <1>1, FS_Subset, FS_CardinalityType
<1>3. ASSUME T = {} PROVE FALSE
  <2>1. Amounts = [s \in Stakers |-> 0]
    BY <1>1, <1>3 DEF Amounts, TypeOK, Positions
  <2>2. Sum(Amounts) = 0
    BY <2>1, SumZero
  <2> QED
    BY <2>2 DEF Inv, VaultsAccounted
<1>4. Cardinality(T) # 0
  BY <1>2, <1>3, FS_EmptySet
<1>5. most \in [Stakers -> Nat] /\ Sum(most) = (AccScale - 1) * Cardinality(T)
  <2> HIDE DEF T
  <2> QED
    BY <1>1, SumConstantOn
<1>6. \A s \in Stakers : Fractions[s] <= most[s]
  <2> TAKE s \in Stakers
  <2>1. position[s].amount \in Nat
    BY <1>1 DEF TypeOK, Positions
  <2>2. Fractions[s] = Fraction(position[s].amount)
    BY DEF Fractions
  <2>3. CASE s \in T
    <3>1. Fraction(position[s].amount) \in 0 .. (AccScale - 1)
      BY <1>1, <2>1, EntitlementParts DEF TypeOK
    <3> QED
      BY <1>1, <2>2, <2>3, <3>1
  <2>4. CASE s \notin T
    <3>1. position[s].amount = 0 /\ acc_funding_per_share \in Nat
      BY <1>1, <2>1, <2>4 DEF TypeOK
    <3>2. 0 * acc_funding_per_share = 0 /\ 0 % AccScale = 0
      BY <3>1, ScaleType
    <3> QED
      BY <2>2, <2>4, <3>1, <3>2 DEF Fraction
  <2> QED
    BY <2>3, <2>4
<1> HIDE DEF most
<1>7. Sum(Fractions) <= Sum(most)
  BY <1>1, <1>5, <1>6, SumMonotone
<1> QED
  BY <1>2, <1>4, <1>5, <1>7

\* Only a settlement or a draw moves the accumulator.
LEMMA OnlyFundsMoveAccumulator ==
    ASSUME Inv, [Next]_vars, acc_funding_per_share' # acc_funding_per_share
    PROVE  \E d, inc \in Nat : Funded(d, inc) /\ d > 0
<1>1. ASSUME UNCHANGED acc_funding_per_share PROVE FALSE
  BY <1>1
<1>2. ASSUME NEW s \in Stakers, StakerStep(s) PROVE FALSE
  BY <1>1, <1>2 DEF StakerStep, Stake, RequestUnstake, Unstake, ClaimFunding, funding
<1>3. ASSUME UNCHANGED <<funding, buffer, stakes, outside>> \/ UNCHANGED vars PROVE FALSE
  BY <1>1, <1>3 DEF funding, vars
<1>4. ASSUME NEW amount \in Transfers, BufferDeposit(amount) PROVE FALSE
  BY <1>1, <1>4 DEF BufferDeposit, funding
<1>5. \E amount \in Transfers : SettleFunding(amount) \/ BufferWithdraw(amount)
  BY <1>2, <1>3, <1>4, InvWorldStep DEF Next, FundingStep
<1>6. PICK d \in Nat, inc \in Nat : Funded(d, inc)
  BY <1>5, SettlementFunds, DrawFunds
<1>7. ASSUME d = 0 PROVE FALSE
  <2>1. inc = 0
    BY <1>6, <1>7, ScaleType DEF Funded
  <2>2. acc_funding_per_share' = acc_funding_per_share
    BY <1>6, <2>1 DEF Funded, Inv, TypeOK
  <2> QED
    BY <2>2
<1>8. d > 0
  BY <1>7
<1> QED
  BY <1>6, <1>8

\* What a settlement or a draw adds to all claims is less than what it brings and
\* the fractions it may complete.
THEOREM SettlementsShareWhatTheyBring == Spec => SettlementSharesWhatItBrings
<1> DEFINE n == Cardinality({s \in Stakers : position[s].amount > 0})
           A == acc_funding_per_share' # acc_funding_per_share =>
                    Sum(Claims') < Sum(Claims)
                        + (staker_funding_balance' - staker_funding_balance) + n
<1>1. ASSUME Inv, Inv', [Next]_vars, acc_funding_per_share' # acc_funding_per_share
      PROVE  Sum(Claims') < Sum(Claims)
                 + (staker_funding_balance' - staker_funding_balance) + n
  <2>1. PICK d \in Nat, inc \in Nat : Funded(d, inc) /\ d > 0
    BY <1>1, OnlyFundsMoveAccumulator
  <2>2. n \in Nat \ {0} /\ Sum(Fractions) <= (AccScale - 1) * n
    BY <1>1, <2>1, FractionsBound DEF Funded
  <2> HIDE DEF n
  <2>3. PICK o \in Nat : Owed' = o /\ o <= Owed + d * AccScale
    BY <1>1, <2>1, OwedWhenFunded
  <2>4. PICK c \in Nat, f \in Nat : c = Sum(Claims') /\ f = Sum(Fractions')
    BY <1>1, SumTypesNext
  <2>5. PICK k \in Nat, e \in Nat : k = Sum(Claims) /\ e = Sum(Fractions)
    BY <1>1, SumTypes
  <2>6. f + AccScale * c <= e + AccScale * k + d * AccScale
    <3>1. Owed = e + AccScale * k
      BY <2>5 DEF Owed
    <3>2. Owed' = f + AccScale * c
      <4>1. Owed' = Sum(Fractions') + AccScale * Sum(Claims')
        BY DEF Owed
      <4> QED
        BY <2>4, <4>1
    <3> QED
      BY <2>3, <3>1, <3>2
  <2>7. c < k + d + n
    <3>1. AccScale \in Nat \ {0}
      BY ScaleType
    <3> SUFFICES ASSUME k + d + n <= c PROVE FALSE
      BY <2>2
    <3>2. (k + d + n) * AccScale <= c * AccScale
      BY <2>2, <3>1, ProductMonotone
    <3>3. (k + d + n) * AccScale = AccScale * k + d * AccScale + n * AccScale
      BY <2>2, <3>1
    <3>4. (AccScale - 1) * n = n * AccScale - n
      BY <2>2, <3>1
    <3>5. /\ AccScale * k \in Nat /\ d * AccScale \in Nat /\ n * AccScale \in Nat
          /\ AccScale * c \in Nat /\ c * AccScale = AccScale * c
      BY <2>2, <3>1
    <3>6. e <= n * AccScale - n
      BY <2>2, <2>5, <3>4
    <3>7. AccScale * k + d * AccScale + n * AccScale <= AccScale * c
      BY <3>2, <3>3, <3>5
    <3> QED
      BY <2>2, <2>6, <3>5, <3>6, <3>7
  <2>8. staker_funding_balance' = staker_funding_balance + d /\ staker_funding_balance \in Nat
    BY <1>1, <2>1 DEF Funded, Inv, TypeOK
  <2>9. staker_funding_balance' - staker_funding_balance = d
    BY <2>8
  <2> QED
    BY <2>2, <2>4, <2>5, <2>7, <2>9
<1>2. Inv /\ Inv' /\ [Next]_vars => [A]_vars
  BY <1>1
<1> QED
  BY <1>2, StakingInvariant, PTL DEF Spec, SettlementSharesWhatItBrings

-----------------------------------------------------------------------------
(* What rounding leaks, over a whole history. *)

\* A stake that moves completes at most one fraction.
LEMMA OwedWhenStakesChange ==
    ASSUME Inv, Inv', NEW s \in Stakers, NEW amount \in StakeAmounts,
           Stake(s, amount) \/ RequestUnstake(s, amount)
    PROVE  \E o \in Nat : Owed' = o /\ o <= Owed + AccScale
<1>1. /\ UNCHANGED acc_funding_per_share /\ Claims' = Claims
      /\ \E q \in Positions : position' = [position EXCEPT ![s] = q]
  BY StakeChanges
<1>2. PICK fractions \in [Stakers -> Nat] : fractions = Fractions'
  BY SumTypesNext
<1>3. /\ Fractions \in [Stakers -> Nat] /\ Sum(Fractions) \in Nat /\ Sum(Claims) \in Nat
      /\ TypeOK /\ IsFiniteSet(Stakers) /\ AccScale \in Nat \ {0}
  BY SumTypes, ScaleType DEF Inv
<1>4. PICK q \in Positions : position' = [position EXCEPT ![s] = q]
  BY <1>1
<1>5. position'[s] = q /\ \A t \in Stakers \ {s} : position'[t] = position[t]
  BY <1>3, <1>4 DEF TypeOK
<1>6. \A t \in Stakers \ {s} : fractions[t] = Fractions[t]
  BY <1>1, <1>2, <1>5 DEF Fractions, Fraction
<1>7. fractions[s] < AccScale
  <2>1. fractions[s] = Fraction(q.amount)
    BY <1>1, <1>2, <1>5 DEF Fractions, Fraction
  <2>2. Fraction(q.amount) \in 0 .. (AccScale - 1)
    BY <1>3, EntitlementParts DEF TypeOK, Positions
  <2> QED
    BY <1>3, <2>1, <2>2
<1>8. /\ Sum(fractions) = Sum(Fractions) - Fractions[s] + fractions[s]
      /\ Sum(fractions) \in Nat
  BY <1>2, <1>3, <1>6, SumUpdate, SumType
<1>9. Sum(fractions) <= Sum(Fractions) + AccScale
  <2>1. Fractions[s] \in Nat /\ fractions[s] \in Nat
    BY <1>2, <1>3
  <2> QED
    BY <1>3, <1>7, <1>8, <2>1
<1>10. Owed' = Sum(fractions) + AccScale * Sum(Claims)
  <2>1. Owed' = Sum(Fractions') + AccScale * Sum(Claims')
    BY DEF Owed
  <2> QED
    BY <1>1, <1>2, <2>1
<1>11. AccScale * Sum(Claims) \in Nat
  BY <1>3
<1> QED
  BY <1>3, <1>8, <1>9, <1>10, <1>11 DEF Owed

\* A claim takes off what is owed exactly what it pays out.
LEMMA OwedWhenClaimed ==
    ASSUME Inv, Inv', NEW s \in Stakers, ClaimFunding(s)
    PROVE  \E o, b \in Nat : /\ Owed' = o /\ staker_funding_balance' = b
                             /\ o + AccScale * staker_funding_balance = Owed + AccScale * b
<1> DEFINE amount == Claimable(position[s])
           q == [Accrued(position[s]) EXCEPT !.unclaimed = 0]
<1>1. /\ UNCHANGED acc_funding_per_share /\ position' = [position EXCEPT ![s] = q]
      /\ staker_funding_balance' = staker_funding_balance - amount
      /\ amount <= staker_funding_balance
  BY DEF ClaimFunding
<1>2. /\ TypeOK /\ DebtWithinEntitlement /\ IsFiniteSet(Stakers) /\ AccScale \in Nat
      /\ Claims \in [Stakers -> Nat] /\ Sum(Claims) \in Nat /\ Sum(Fractions) \in Nat
      /\ staker_funding_balance \in Nat
  BY SumTypes, ScaleType DEF Inv, TypeOK
<1>3. Claims[s] = amount /\ amount \in Nat
  BY <1>2 DEF Claims
<1>4. PICK claims \in [Stakers -> Nat] : claims = Claims'
  BY SumTypesNext
<1>5. position'[s] = q /\ \A t \in Stakers \ {s} : position'[t] = position[t]
  BY <1>1, <1>2 DEF TypeOK
<1>6. /\ position[s] \in Positions /\ position[s].amount \in Nat
      /\ Entitlement(position[s].amount) \in Nat
  BY <1>2, EntitlementParts DEF TypeOK, Positions
<1> HIDE DEF amount
<1>7. /\ q.unclaimed = 0 /\ q.amount = position[s].amount
      /\ q.reward_debt = Entitlement(position[s].amount)
  BY <1>6 DEF Accrued, Positions
<1> HIDE DEF q
<1>8. claims[s] = 0
  <2>1. claims[s] = q.unclaimed + Entitlement(q.amount) - q.reward_debt
    BY <1>1, <1>4, <1>5 DEF Claims, Claimable, Entitlement
  <2> QED
    BY <1>6, <1>7, <2>1
<1>9. \A t \in Stakers \ {s} : claims[t] = Claims[t]
  BY <1>1, <1>4, <1>5 DEF Claims, Claimable, Entitlement
<1>10. Fractions' = Fractions
  <2>1. \A t \in Stakers : position'[t].amount = position[t].amount
    BY <1>5, <1>7
  <2> QED
    BY <1>1, <2>1 DEF Fractions, Fraction
<1>11. Sum(claims) = Sum(Claims) - Claims[s] + claims[s] /\ Sum(claims) \in Nat
  BY <1>2, <1>4, <1>9, SumUpdate, SumType
<1>12. Sum(Claims) = Sum(claims) + amount
  BY <1>2, <1>3, <1>8, <1>11
<1>13. PICK b \in Nat : b = staker_funding_balance - amount
  BY <1>1, <1>2, <1>3
<1>14. Owed' = Sum(Fractions) + AccScale * Sum(claims)
  <2>1. Owed' = Sum(Fractions') + AccScale * Sum(Claims')
    BY DEF Owed
  <2> QED
    BY <1>4, <1>10, <2>1
<1>15. /\ AccScale * Sum(Claims) = AccScale * Sum(claims) + AccScale * amount
       /\ AccScale * staker_funding_balance = AccScale * b + AccScale * amount
       /\ AccScale * Sum(claims) \in Nat /\ AccScale * amount \in Nat /\ AccScale * b \in Nat
  <2>1. staker_funding_balance = b + amount
    BY <1>2, <1>3, <1>13
  <2> QED
    BY <1>2, <1>3, <1>11, <1>12, <2>1
<1>16. PICK o \in Nat : o = Sum(Fractions) + AccScale * Sum(claims)
  BY <1>2, <1>15
<1>17. o + AccScale * staker_funding_balance = Owed + AccScale * b
  BY <1>2, <1>15, <1>16 DEF Owed
<1> QED
  BY <1>1, <1>13, <1>14, <1>16, <1>17

\* One bound for every step: what is owed grows by what arrives, and by a unit
\* when a stake changes.
OwedGrowth(o, b) ==
    /\ Owed' = o /\ staker_funding_balance' = b
    /\ o + AccScale * staker_funding_balance <=
           Owed + AccScale * b + (IF total_staked' # total_staked THEN AccScale ELSE 0)

LEMMA OwedStep ==
    ASSUME Inv, Inv', [Next]_vars
    PROVE  \E o, b \in Nat : OwedGrowth(o, b)
<1>1. /\ Owed \in Nat /\ staker_funding_balance \in Nat /\ AccScale \in Nat \ {0}
      /\ AccScale * staker_funding_balance \in Nat
  BY OwedType, ScaleType DEF Inv, TypeOK
<1>2. ASSUME NEW s \in Stakers, NEW amount \in StakeAmounts,
             Stake(s, amount) \/ RequestUnstake(s, amount)
      PROVE  \E o, b \in Nat : OwedGrowth(o, b)
  <2>1. PICK o \in Nat : Owed' = o /\ o <= Owed + AccScale
    BY <1>2, OwedWhenStakesChange
  <2>2. total_staked' # total_staked /\ staker_funding_balance' = staker_funding_balance
    BY <1>2, StakeChanges
  <2>3. o + AccScale * staker_funding_balance
            <= Owed + AccScale * staker_funding_balance + AccScale
    BY <1>1, <2>1
  <2>4. OwedGrowth(o, staker_funding_balance)
    BY <2>1, <2>2, <2>3 DEF OwedGrowth
  <2> QED
    BY <1>1, <2>1, <2>4
<1>3. ASSUME NEW s \in Stakers, ClaimFunding(s)
      PROVE  \E o, b \in Nat : OwedGrowth(o, b)
  <2>1. PICK o \in Nat, b \in Nat :
            /\ Owed' = o /\ staker_funding_balance' = b
            /\ o + AccScale * staker_funding_balance = Owed + AccScale * b
    BY <1>3, OwedWhenClaimed
  <2>2. total_staked' = total_staked
    BY <1>3 DEF ClaimFunding
  <2>3. Owed + AccScale * b \in Nat
    BY <1>1
  <2>4. OwedGrowth(o, b)
    BY <2>1, <2>2, <2>3 DEF OwedGrowth
  <2> QED
    BY <2>4
<1>4. ASSUME NEW d \in Nat, NEW inc \in Nat, Funded(d, inc)
      PROVE  \E o, b \in Nat : OwedGrowth(o, b)
  <2>1. PICK o \in Nat : Owed' = o /\ o <= Owed + d * AccScale
    BY <1>4, OwedWhenFunded
  <2>2. PICK b \in Nat : b = staker_funding_balance + d
    BY <1>1
  <2>3. staker_funding_balance' = b /\ total_staked' = total_staked
    BY <1>4, <2>2 DEF Funded, stakes
  <2>4. AccScale * b = AccScale * staker_funding_balance + d * AccScale /\ d * AccScale \in Nat
    BY <1>1, <2>2
  <2>5. o + AccScale * staker_funding_balance <= Owed + AccScale * b + 0
    BY <1>1, <2>1, <2>4
  <2>6. OwedGrowth(o, b)
    BY <2>1, <2>3, <2>5 DEF OwedGrowth
  <2> QED
    BY <2>6
<1>5. ASSUME Claims' = Claims, Fractions' = Fractions,
             UNCHANGED <<staker_funding_balance, total_staked>>
      PROVE  \E o, b \in Nat : OwedGrowth(o, b)
  <2>1. Owed' = Owed
    <3>1. Owed' = Sum(Fractions') + AccScale * Sum(Claims')
      BY DEF Owed
    <3> QED
      BY <1>5, <3>1 DEF Owed
  <2>2. OwedGrowth(Owed, staker_funding_balance)
    BY <1>1, <1>5, <2>1 DEF OwedGrowth
  <2> QED
    BY <1>1, <2>2
<1>6. ASSUME NEW s \in Stakers, Unstake(s)
      PROVE  \E o, b \in Nat : OwedGrowth(o, b)
  <2> DEFINE p == position[s]
             q == [p EXCEPT !.pending_unstake = 0, !.cooldown_end = 0]
  <2>1. /\ position' = [position EXCEPT ![s] = q]
        /\ UNCHANGED <<acc_funding_per_share, staker_funding_balance, total_staked>>
    BY <1>6 DEF Unstake, funding
  <2>2. p \in Positions
    BY DEF Inv, TypeOK
  <2> HIDE DEF p
  <2>3. /\ q \in Positions /\ q.amount = p.amount /\ q.reward_debt = p.reward_debt
        /\ q.unclaimed = p.unclaimed
    BY <2>2 DEF Positions
  <2> HIDE DEF q
  <2>4. Claims' = Claims
    <3>1. q.unclaimed + Entitlement(q.amount) - q.reward_debt = Claimable(p)
      BY <2>3 DEF Claimable
    <3> QED
      BY <2>1, <2>3, <3>1, ClaimsKept DEF p
  <2>5. Fractions' = Fractions
    <3>1. \A t \in Stakers : position'[t].amount = position[t].amount
      BY <2>1, <2>3 DEF p, Inv, TypeOK
    <3> QED
      BY <2>1, <3>1 DEF Fractions, Fraction
  <2> QED
    BY <1>5, <2>1, <2>4, <2>5
<1>7. ASSUME UNCHANGED <<funding, stakes>>
      PROVE  \E o, b \in Nat : OwedGrowth(o, b)
  <2>1. UNCHANGED <<acc_funding_per_share, staker_funding_balance, position, total_staked>>
    BY <1>7 DEF funding, stakes
  <2>2. Claims' = Claims /\ Fractions' = Fractions
    BY <2>1 DEF Claims, Claimable, Entitlement, Fractions, Fraction
  <2> QED
    BY <1>5, <2>1, <2>2
<1>8. ASSUME NEW s \in Stakers, StakerStep(s)
      PROVE  \E o, b \in Nat : OwedGrowth(o, b)
  BY <1>2, <1>3, <1>6, <1>8 DEF StakerStep
<1>9. ASSUME FundingStep
      PROVE  \E o, b \in Nat : OwedGrowth(o, b)
  <2>1. ASSUME NEW amount \in Transfers, BufferDeposit(amount)
        PROVE  \E o, b \in Nat : OwedGrowth(o, b)
    BY <1>7, <2>1 DEF BufferDeposit
  <2> QED
    BY <1>4, <1>9, <2>1, SettlementFunds, DrawFunds DEF FundingStep
<1>10. ASSUME UNCHANGED <<funding, buffer, stakes, outside>> \/ UNCHANGED vars
       PROVE  \E o, b \in Nat : OwedGrowth(o, b)
  BY <1>7, <1>10 DEF vars
<1> QED
  BY <1>8, <1>9, <1>10, InvWorldStep DEF Next

\* The strengthening that makes the bound on overpayment inductive: with the
\* fractions that later settlements may complete already counted in.
RoundingBounded ==
    /\ touches \in Nat
    /\ Owed <= AccScale * (staker_funding_balance + touches)

LEMMA RoundingInit == HInit => RoundingBounded
<1> SUFFICES ASSUME HInit PROVE RoundingBounded
  OBVIOUS
<1> USE DEF HInit, Init
<1>1. AccScale \in Nat \ {0}
  BY ScaleType
<1>2. 0 \div AccScale = 0 /\ 0 % AccScale = 0 /\ 0 * 0 = 0
  BY <1>1
<1>3. Claims = [s \in Stakers |-> 0] /\ Fractions = [s \in Stakers |-> 0]
  BY <1>2 DEF Claims, Claimable, Entitlement, Fractions, Fraction, EmptyPosition
<1>4. Sum(Claims) = 0 /\ Sum(Fractions) = 0
  BY <1>3, SumZero
<1>5. Owed = 0 /\ AccScale * (0 + 0) = 0
  BY <1>1, <1>4 DEF Owed
<1> QED
  BY <1>5 DEF RoundingBounded

LEMMA RoundingNext ==
    Inv /\ Inv' /\ RoundingBounded /\ [HNext]_<<vars, history>> => RoundingBounded'
<1> SUFFICES ASSUME Inv, Inv', RoundingBounded, [HNext]_<<vars, history>>
             PROVE  RoundingBounded'
  OBVIOUS
<1>1. /\ Owed \in Nat /\ staker_funding_balance \in Nat /\ AccScale \in Nat \ {0}
      /\ touches \in Nat /\ Owed <= AccScale * (staker_funding_balance + touches)
  BY OwedType, ScaleType DEF Inv, TypeOK, RoundingBounded
<1>2. [Next]_vars
  BY DEF HNext, vars
<1>3. PICK o \in Nat, b \in Nat : OwedGrowth(o, b)
  BY <1>2, OwedStep
<1>4. PICK t \in Nat :
          /\ touches' = t
          /\ t = touches + (IF total_staked' # total_staked THEN 1 ELSE 0)
  <2>1. CASE HNext
    BY <1>1, <2>1 DEF HNext
  <2>2. CASE UNCHANGED <<vars, history>>
    BY <1>1, <2>2 DEF vars, stakes, history
  <2> QED
    BY <2>1, <2>2
<1>5. o <= AccScale * (b + t)
  <2> DEFINE k == IF total_staked' # total_staked THEN 1 ELSE 0
             K == IF total_staked' # total_staked THEN AccScale ELSE 0
  <2>1. k \in Nat /\ K = AccScale * k /\ K \in Nat /\ t = touches + k
    BY <1>1, <1>4
  <2>2. o + AccScale * staker_funding_balance <= Owed + AccScale * b + K
    BY <1>3 DEF OwedGrowth
  <2> HIDE DEF k, K
  <2>3. /\ AccScale * (staker_funding_balance + touches)
               = AccScale * staker_funding_balance + AccScale * touches
        /\ AccScale * (b + t) = AccScale * b + AccScale * touches + AccScale * k
        /\ AccScale * staker_funding_balance \in Nat /\ AccScale * touches \in Nat
        /\ AccScale * b \in Nat /\ AccScale * k \in Nat
    BY <1>1, <2>1
  <2> QED
    BY <1>1, <2>1, <2>2, <2>3
<1>6. Owed' = o /\ staker_funding_balance' = b
  BY <1>3 DEF OwedGrowth
<1> QED
  BY <1>4, <1>5, <1>6 DEF RoundingBounded

\* The history only records: what holds of Staking holds of it.
LEMMA HistoryIsStaking == HSpec => Spec
<1>1. HInit => Init
  BY DEF HInit
<1>2. [HNext]_<<vars, history>> => [Next]_vars
  BY DEF HNext, vars
<1> QED
  BY <1>1, <1>2, PTL DEF HSpec, Spec

LEMMA HistoryInvariant == HSpec => [](Inv /\ RoundingBounded)
BY HistoryIsStaking, StakingInvariant, RoundingInit, RoundingNext, PTL DEF HSpec

\* What is owed to all stakers exceeds what was brought in for them and is still
\* there by at most a unit for each change of a stake.
LEMMA ClaimsBounded ==
    ASSUME Inv, RoundingBounded
    PROVE  Sum(Claims) <= staker_funding_balance + touches
<1>1. /\ Sum(Claims) \in Nat /\ Sum(Fractions) \in Nat /\ AccScale \in Nat \ {0}
      /\ staker_funding_balance \in Nat /\ touches \in Nat
      /\ Sum(Fractions) + AccScale * Sum(Claims)
             <= AccScale * (staker_funding_balance + touches)
  BY SumTypes, ScaleType DEF Inv, TypeOK, RoundingBounded, Owed
<1>2. PICK k \in Nat : k = staker_funding_balance + touches
  BY <1>1
<1>3. AccScale * Sum(Claims) \in Nat /\ AccScale * k \in Nat
  BY <1>1, <1>2
<1>4. Sum(Claims) * AccScale <= k * AccScale
  BY <1>1, <1>2, <1>3
<1>5. Sum(Claims) <= k
  BY <1>1, <1>4, CancelFactor
<1> QED
  BY <1>2, <1>5

\* However many settlements follow, rounding leaks no more than a unit for each
\* change of a stake.
THEOREM OverpaymentStaysBounded == HSpec => []OverpaymentBounded
BY HistoryInvariant, ClaimsBounded, PTL DEF OverpaymentBounded

\* A stake is never locked: its accrual neither underflows nor overflows while
\* the stake times all the funding ever brought in fits.
LEMMA AccrualsFit ==
    ASSUME Inv, RoundingBounded
    PROVE  EveryStakeCanAccrue
<1> SUFFICES ASSUME NEW s \in Stakers,
                    position[s].amount * BroughtIn * AccScale <= U128Max,
                    Fits(BroughtIn + touches)
             PROVE  CanAccrue(position[s])
  BY DEF EveryStakeCanAccrue
<1> DEFINE W == Cardinality(Stakers) * StakerWealth
           a == position[s].amount
<1>1. /\ TypeOK /\ DebtWithinEntitlement /\ a \in Nat
      /\ acc_funding_per_share \in Nat /\ staker_funding_balance \in Nat
      /\ Held \in Nat /\ touches \in Nat /\ AccScale \in Nat \ {0}
      /\ acc_funding_per_share <= BroughtIn * AccScale /\ W <= Held
  BY PositionTypes, ScaleType
     DEF Inv, TypeOK, Positions, Held, FundingTraced, RoundingBounded
<1>2. W \in Nat
  BY ScaleType, StakingAssumption, FS_CardinalityType
<1>3. BroughtIn = staker_funding_balance + Held - W
  BY DEF BroughtIn
<1> HIDE DEF W, a
<1>4. PICK b \in Nat : b = BroughtIn /\ staker_funding_balance <= b
  BY <1>1, <1>2, <1>3
<1>5. EntitlementFits(a)
  <2>1. b * AccScale \in Nat
    BY <1>1
  <2>2. /\ acc_funding_per_share * a \in Nat
        /\ acc_funding_per_share * a <= (b * AccScale) * a
    BY <1>1, <1>4, <2>1, ProductMonotone
  <2>3. (b * AccScale) * a = a * b * AccScale
    BY <1>1
  <2>4. acc_funding_per_share * a = a * acc_funding_per_share
    BY <1>1
  <2>5. a * b * AccScale <= U128Max /\ U128Max \in Nat /\ a * b * AccScale \in Nat
    BY <1>1, <1>4, <2>1, StakingAssumption DEF a
  <2> QED
    BY <2>2, <2>3, <2>4, <2>5 DEF EntitlementFits
<1>6. position[s].reward_debt <= Entitlement(a)
  BY <1>1 DEF DebtWithinEntitlement, a
<1>7. Fits(Claimable(position[s]))
  <2>1. /\ Claims \in [Stakers -> Nat] /\ Sum(Claims) \in Nat /\ IsFiniteSet(Stakers)
    BY SumTypes, ScaleType
  <2>2. Claims[s] <= Sum(Claims) /\ Claims[s] \in Nat
    BY <2>1, SumBound
  <2>3. Sum(Claims) <= staker_funding_balance + touches
    BY ClaimsBounded
  <2>4. b + touches <= U64Max /\ U64Max \in Nat
    BY <1>4, ScaleAssumption DEF Fits
  <2>5. Claims[s] <= U64Max
    BY <1>1, <1>4, <2>1, <2>2, <2>3, <2>4
  <2>6. Claims[s] = Claimable(position[s])
    BY DEF Claims
  <2> QED
    BY <2>5, <2>6 DEF Fits
<1> QED
  BY <1>5, <1>6, <1>7 DEF CanAccrue, Claimable, a

THEOREM StakesStayAccruable == HSpec => []EveryStakeCanAccrue
BY HistoryInvariant, AccrualsFit, PTL

\* The last report that was not negative came before the regime that now runs.
CalmBeforeRegime ==
    /\ calm_until \in Nat /\ calm_until <= now
    /\ venue.negative_funding_since # 0 => calm_until <= venue.negative_funding_since

LEMMA CalmInit == HInit => CalmBeforeRegime
BY DEF HInit, Init, VenueInit, CalmBeforeRegime

LEMMA CalmNext ==
    Inv /\ CalmBeforeRegime /\ [HNext]_<<vars, history>> => CalmBeforeRegime'
<1> SUFFICES ASSUME Inv, CalmBeforeRegime, [HNext]_<<vars, history>>
             PROVE  CalmBeforeRegime'
  OBVIOUS
<1>1. now \in Nat /\ calm_until \in Nat /\ venue \in VenueRecords
      /\ venue.negative_funding_since \in Nat
  BY DEF Inv, TypeOK, VenueRecords, CalmBeforeRegime
<1>2. ASSUME UNCHANGED <<venue, calm_until>>, now' = now \/ now' = now + 1
      PROVE  CalmBeforeRegime'
  BY <1>1, <1>2 DEF CalmBeforeRegime
<1>3. CASE HNext /\ UNCHANGED <<now, venue>>
  <2>1. UNCHANGED calm_until
    BY <1>3 DEF HNext, Calm
  <2> QED
    BY <1>2, <1>3, <2>1
<1>4. CASE HNext /\ TimePasses
  <2>1. UNCHANGED venue /\ now' = now + 1
    BY <1>4 DEF TimePasses, Tick
  <2>2. UNCHANGED calm_until
    BY <1>4, <2>1 DEF HNext, Calm
  <2> QED
    BY <1>2, <2>1, <2>2
<1>5. ASSUME HNext, NEW id \in Venues, NEW carry \in Carries, NEW capacity \in Capacities,
             Report(id, carry, capacity)
      PROVE  CalmBeforeRegime'
  <2>1. /\ UNCHANGED now /\ venue'.negative_funding_since = RegimeClock(carry)
        /\ venue'.last_net_carry_bps = carry /\ carry \in Int
    BY <1>5, VenueAssumption DEF Report, ReportVenueState
  <2>2. calm_until' = IF Calm THEN now ELSE calm_until
    BY <1>5 DEF HNext
  <2>3. CASE carry >= 0
    <3>1. venue'.negative_funding_since = 0
      BY <2>1, <2>3 DEF RegimeClock
    <3>2. calm_until' = now \/ calm_until' = calm_until
      BY <2>2
    <3> QED
      BY <1>1, <2>1, <3>1, <3>2 DEF CalmBeforeRegime
  <2>4. CASE carry < 0
    <3>1. calm_until' = calm_until
      BY <2>1, <2>2, <2>4 DEF Calm
    <3>2. \/ venue'.negative_funding_since = now
          \/ /\ venue.negative_funding_since # 0
             /\ venue'.negative_funding_since = venue.negative_funding_since
      BY <2>1, <2>4 DEF RegimeClock
    <3> QED
      BY <1>1, <2>1, <3>1, <3>2 DEF CalmBeforeRegime
  <2> QED
    BY <2>1, <2>3, <2>4
<1>6. CASE UNCHANGED <<vars, history>>
  BY <1>2, <1>6 DEF vars, world, history
<1>7. CASE HNext
  <2>1. Next
    BY <1>7 DEF HNext
  <2>2. ASSUME NEW s \in Stakers, StakerStep(s) PROVE UNCHANGED <<now, venue>>
    BY <2>2 DEF StakerStep, Stake, RequestUnstake, Unstake, ClaimFunding, world
  <2>3. ASSUME FundingStep PROVE UNCHANGED <<now, venue>>
    BY <2>3 DEF FundingStep, SettleFunding, BufferDeposit, BufferWithdraw, world
  <2>4. ASSUME NEW p \in ParamSets, SetParams(p) PROVE UNCHANGED <<now, venue>>
    BY <2>4 DEF SetParams
  <2>5. ASSUME NEW paused \in BOOLEAN, SetPaused(paused) PROVE UNCHANGED <<now, venue>>
    BY <2>5 DEF SetPaused
  <2> QED
    BY <1>3, <1>4, <1>5, <1>7, <2>1, <2>2, <2>3, <2>4, <2>5 DEF Next
<1> QED
  BY <1>6, <1>7

\* The reserve is drawn on only in a negative regime that has lasted for the
\* unlock delay with no other report in between.
THEOREM BufferDrawsWaitForRegime == HSpec => BufferDrawnInRegime
<1>1. Inv /\ CalmBeforeRegime /\ [HNext]_<<vars, history>> =>
          [buffer_balance' < buffer_balance =>
               now - calm_until >= params.buffer_unlock_delay_sec]_<<vars, history>>
  <2> SUFFICES ASSUME Inv, CalmBeforeRegime, HNext, buffer_balance' < buffer_balance
               PROVE  now - calm_until >= params.buffer_unlock_delay_sec
    OBVIOUS
  <2>1. /\ TypeOK /\ buffer_balance \in Nat /\ now \in Nat /\ calm_until \in Nat
        /\ venue.negative_funding_since \in Nat /\ params.buffer_unlock_delay_sec \in Nat
    BY ParamTypes DEF Inv, TypeOK, VenueRecords, CalmBeforeRegime
  <2>2. ASSUME UNCHANGED buffer_balance PROVE FALSE
    BY <2>1, <2>2
  <2>3. ASSUME NEW s \in Stakers, StakerStep(s) PROVE FALSE
    BY <2>2, <2>3
       DEF StakerStep, Stake, RequestUnstake, Unstake, ClaimFunding, buffer
  <2>4. ASSUME NEW amount \in Transfers, SettleFunding(amount) PROVE FALSE
    <3>1. /\ buffer_balance' = buffer_balance + ToBuffer(amount) /\ ToBuffer(amount) \in Nat
      BY <2>4, SettlementFunds
    <3> QED
      BY <2>1, <3>1
  <2>5. ASSUME NEW amount \in Transfers, BufferDeposit(amount) PROVE FALSE
    BY <2>1, <2>5, StakingAssumption DEF BufferDeposit
  <2>6. ASSUME UNCHANGED <<funding, buffer, stakes, outside>> PROVE FALSE
    BY <2>2, <2>6 DEF buffer
  <2>7. \E amount \in Transfers : BufferWithdraw(amount)
    BY <2>3, <2>4, <2>5, <2>6, InvWorldStep DEF HNext, Next, FundingStep
  <2>8. Unlocked
    BY <2>7 DEF BufferWithdraw
  <2> QED
    BY <2>1, <2>8 DEF Unlocked, CalmBeforeRegime
<1> QED
  BY <1>1, HistoryInvariant, CalmInit, CalmNext, PTL DEF HSpec, BufferDrawnInRegime

=============================================================================
