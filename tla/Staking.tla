-------------------------------- MODULE Staking --------------------------------
(***************************************************************************)
(* Staking of the synthetic, the distribution of funding by a per-share    *)
(* accumulator (instructions/funding.rs) and the insurance buffer          *)
(* (instructions/buffer.rs), whose lock the reported carry turns.          *)
(*                                                                         *)
(* A position that was never created equals one whose fields are all zero: *)
(* stake creates it zeroed, the other instructions refuse both. All vaults *)
(* are ready, as set_paused demands before anything is unpaused.           *)
(***************************************************************************)
EXTENDS VenueState, Sums

CONSTANTS Stakers,
          StakeAmounts,    \* amounts a staker may name
          Transfers,       \* amounts settled, deposited or drawn
          StakerWealth,    \* synthetic each staker starts with
          OutsideWealth,   \* synthetic everybody else holds at the start
          AccScale,        \* ACC_SCALE
          U128Max          \* largest intermediate of acc_entitlement

ASSUME StakingAssumption ==
    /\ IsFiniteSet(Stakers)
    /\ StakeAmounts \subseteq Nat /\ Transfers \subseteq Nat
    /\ StakerWealth \in Nat /\ OutsideWealth \in Nat
    /\ AccScale \in Nat \ {0} /\ U128Max \in Nat

VARIABLES
    mint_paused,             \* Config
    position,                \* the StakePosition of each staker
    total_staked,            \* Config
    acc_funding_per_share,   \* Config
    staker_funding_balance,  \* Config
    buffer_balance,          \* Config
    stake_vault,             \* balance of the stake vault
    funding_vault,           \* balance of the funding vault
    buffer_vault,            \* balance of the insurance buffer's vault
    wallet,                  \* synthetic each staker holds
    outside                  \* synthetic held by the authority and others

world == <<now, params, venue, mint_paused>>
funding == <<acc_funding_per_share, staker_funding_balance, funding_vault>>
buffer == <<buffer_balance, buffer_vault>>
stakes == <<position, total_staked, stake_vault, wallet>>
vars == <<world, funding, buffer, stakes, outside>>

Positions ==
    [ amount : Nat, reward_debt : Nat, unclaimed : Nat,
      pending_unstake : Nat, cooldown_end : Nat ]

EmptyPosition ==
    [ amount |-> 0, reward_debt |-> 0, unclaimed |-> 0,
      pending_unstake |-> 0, cooldown_end |-> 0 ]

TypeOK ==
    /\ now \in Nat /\ params \in ParamSets /\ venue \in VenueRecords
    /\ mint_paused \in BOOLEAN
    /\ position \in [Stakers -> Positions]
    /\ total_staked \in Nat /\ acc_funding_per_share \in Nat
    /\ staker_funding_balance \in Nat /\ buffer_balance \in Nat
    /\ stake_vault \in Nat /\ funding_vault \in Nat /\ buffer_vault \in Nat
    /\ wallet \in [Stakers -> Nat]
    /\ outside \in Nat

Init ==
    /\ now = 1 /\ params \in ParamSets /\ venue = VenueInit
    /\ mint_paused = FALSE
    /\ position = [s \in Stakers |-> EmptyPosition]
    /\ total_staked = 0 /\ acc_funding_per_share = 0
    /\ staker_funding_balance = 0 /\ buffer_balance = 0
    /\ stake_vault = 0 /\ funding_vault = 0 /\ buffer_vault = 0
    /\ wallet = [s \in Stakers |-> StakerWealth]
    /\ outside = OutsideWealth

-----------------------------------------------------------------------------
(* math.rs *)

\* A faulty variant: an increment for each unit instead of a share of one.
AccIncrementUndivided(amount) == amount * AccScale

AccIncrement(amount) == (amount * AccScale) \div total_staked

Entitlement(amount) == (amount * acc_funding_per_share) \div AccScale

\* A faulty variant: the product taken in the width of the amounts.
EntitlementFitsNarrow(amount) == amount * acc_funding_per_share <= U64Max

EntitlementFits(amount) == amount * acc_funding_per_share <= U128Max

-----------------------------------------------------------------------------

\* The accrual fails when the entitlement overflows or fell below the debt.
CanAccrue(p) ==
    /\ EntitlementFits(p.amount)
    /\ p.reward_debt <= Entitlement(p.amount)
    /\ Fits(p.unclaimed + Entitlement(p.amount) - p.reward_debt)

Claimable(p) == p.unclaimed + Entitlement(p.amount) - p.reward_debt

\* A faulty variant: what was credited stays outstanding.
AccruedTwice(p) == [p EXCEPT !.unclaimed = Claimable(p)]

\* accrue: what was earned since the last touch becomes unclaimed.
Accrued(p) ==
    [p EXCEPT !.unclaimed = Claimable(p), !.reward_debt = Entitlement(p.amount)]

\* Faulty variants: the amount not stored, the debt not re-based, the debt
\* rounded up.
RebasedOldAmount(p, amount) == [Accrued(p) EXCEPT !.reward_debt = Entitlement(amount)]
RebasedOldDebt(p, amount) == [Accrued(p) EXCEPT !.amount = amount]
RebasedUp(p, amount) ==
    [Accrued(p) EXCEPT !.amount = amount,
        !.reward_debt = (amount * acc_funding_per_share + AccScale - 1) \div AccScale]

\* An accrued position of another amount, its debt re-based on it.
Rebased(p, amount) ==
    [Accrued(p) EXCEPT !.amount = amount, !.reward_debt = Entitlement(amount)]

Stake(s, amount) ==
    LET p == position[s]
    IN  /\ ~mint_paused
        /\ amount > 0
        /\ amount <= wallet[s]
        /\ CanAccrue(p)
        /\ EntitlementFits(p.amount + amount)
        /\ position' = [position EXCEPT ![s] = Rebased(p, p.amount + amount)]
        /\ wallet' = [wallet EXCEPT ![s] = @ - amount]
        /\ stake_vault' = stake_vault + amount
        /\ total_staked' = total_staked + amount
        /\ UNCHANGED <<world, funding, buffer, outside>>

\* Bound of the model, not of the code: a cooldown only starts if it can run
\* out before the clock stops.
CooldownEndsInTime == now + params.unstake_cooldown_sec <= MaxTime

\* A second request restarts the cooldown of all that is pending.
RequestUnstake(s, amount) ==
    LET p == position[s]
    IN  /\ amount > 0
        /\ amount <= p.amount
        /\ CanAccrue(p)
        /\ CooldownEndsInTime
        /\ position' =
               [position EXCEPT ![s] =
                   [Rebased(p, p.amount - amount) EXCEPT
                       !.pending_unstake = @ + amount,
                       !.cooldown_end = now + params.unstake_cooldown_sec]]
        /\ total_staked' = total_staked - amount
        /\ UNCHANGED <<world, funding, buffer, stake_vault, wallet, outside>>

\* A faulty variant: the breaker over the way out.
UnstakeUnpaused(s) ==
    LET amount == position[s].pending_unstake
    IN  /\ ~mint_paused
        /\ amount > 0
        /\ now >= position[s].cooldown_end
        /\ position' = [position EXCEPT ![s].pending_unstake = 0,
                                        ![s].cooldown_end = 0]
        /\ stake_vault' = stake_vault - amount
        /\ wallet' = [wallet EXCEPT ![s] = @ + amount]
        /\ UNCHANGED <<world, funding, buffer, total_staked, outside>>

Unstake(s) ==
    LET amount == position[s].pending_unstake
    IN  /\ amount > 0
        /\ now >= position[s].cooldown_end
        /\ position' = [position EXCEPT ![s].pending_unstake = 0,
                                        ![s].cooldown_end = 0]
        /\ stake_vault' = stake_vault - amount
        /\ wallet' = [wallet EXCEPT ![s] = @ + amount]
        /\ UNCHANGED <<world, funding, buffer, total_staked, outside>>

\* A faulty variant: the claim is not held against what settlements left.
ClaimFundingUncovered(s) ==
    LET amount == Claimable(position[s])
    IN  /\ CanAccrue(position[s])
        /\ amount > 0
        /\ position' = [position EXCEPT ![s] = [Accrued(@) EXCEPT !.unclaimed = 0]]
        /\ staker_funding_balance' = staker_funding_balance - amount
        /\ funding_vault' = funding_vault - amount
        /\ wallet' = [wallet EXCEPT ![s] = @ + amount]
        /\ UNCHANGED <<world, buffer, acc_funding_per_share, total_staked,
                       stake_vault, outside>>

ClaimFunding(s) ==
    LET amount == Claimable(position[s])
    IN  /\ CanAccrue(position[s])
        /\ amount > 0
        /\ amount <= staker_funding_balance
        /\ position' = [position EXCEPT ![s] = [Accrued(@) EXCEPT !.unclaimed = 0]]
        /\ staker_funding_balance' = staker_funding_balance - amount
        /\ funding_vault' = funding_vault - amount
        /\ wallet' = [wallet EXCEPT ![s] = @ + amount]
        /\ UNCHANGED <<world, buffer, acc_funding_per_share, total_staked,
                       stake_vault, outside>>

\* The buffer's share of a settlement: all of it when nothing is staked.
ToBuffer(amount) ==
    IF total_staked = 0 THEN amount
    ELSE MulBpsCeil(amount, params.buffer_share_bps)

SettleFunding(amount) ==
    LET to_stakers == amount - ToBuffer(amount)
    IN  /\ amount <= outside
        /\ outside' = outside - amount
        /\ buffer_balance' = buffer_balance + ToBuffer(amount)
        /\ buffer_vault' = buffer_vault + ToBuffer(amount)
        /\ staker_funding_balance' = staker_funding_balance + to_stakers
        /\ funding_vault' = funding_vault + to_stakers
        /\ acc_funding_per_share' =
               acc_funding_per_share + (IF to_stakers > 0 THEN AccIncrement(to_stakers) ELSE 0)
        /\ UNCHANGED <<world, stakes>>

BufferDeposit(amount) ==
    /\ amount > 0
    /\ amount <= outside
    /\ outside' = outside - amount
    /\ buffer_balance' = buffer_balance + amount
    /\ buffer_vault' = buffer_vault + amount
    /\ UNCHANGED <<world, funding, stakes>>

\* The reported regime is negative and has been for the unlock delay.
Unlocked ==
    /\ venue.negative_funding_since # 0
    /\ now - venue.negative_funding_since >= params.buffer_unlock_delay_sec

BufferWithdraw(amount) ==
    /\ amount > 0
    /\ amount <= buffer_balance
    /\ total_staked > 0
    /\ Unlocked
    /\ amount <= MulBpsFloor(buffer_balance, params.buffer_max_draw_bps)
    /\ buffer_balance' = buffer_balance - amount
    /\ buffer_vault' = buffer_vault - amount
    /\ staker_funding_balance' = staker_funding_balance + amount
    /\ funding_vault' = funding_vault + amount
    /\ acc_funding_per_share' = acc_funding_per_share + AccIncrement(amount)
    /\ UNCHANGED <<world, stakes, outside>>

Report(id, carry, capacity) ==
    /\ ReportVenueState(id, carry, capacity)
    /\ UNCHANGED <<now, params, mint_paused, funding, buffer, stakes, outside>>

TimePasses ==
    /\ Tick
    /\ UNCHANGED <<params, venue, mint_paused, funding, buffer, stakes, outside>>

SetParams(p) ==
    /\ params' = p
    /\ UNCHANGED <<now, venue, mint_paused, funding, buffer, stakes, outside>>

SetPaused(paused) ==
    /\ mint_paused' = paused
    /\ UNCHANGED <<now, params, venue, funding, buffer, stakes, outside>>

StakerStep(s) ==
    \/ \E amount \in StakeAmounts : Stake(s, amount) \/ RequestUnstake(s, amount)
    \/ Unstake(s)
    \/ ClaimFunding(s)

FundingStep ==
    \E amount \in Transfers :
        \/ SettleFunding(amount)
        \/ BufferDeposit(amount)
        \/ BufferWithdraw(amount)

Next ==
    \/ \E s \in Stakers : StakerStep(s)
    \/ FundingStep
    \/ \E id \in Venues, carry \in Carries, capacity \in Capacities :
           Report(id, carry, capacity)
    \/ TimePasses
    \/ \E p \in ParamSets : SetParams(p)
    \/ \E paused \in BOOLEAN : SetPaused(paused)

Spec == Init /\ [][Next]_vars

\* Time passes, and a staker who asked for its stake back collects it.
Fairness ==
    /\ WF_vars(TimePasses)
    /\ \A s \in Stakers : WF_vars(Unstake(s))

-----------------------------------------------------------------------------

Amounts == [s \in Stakers |-> position[s].amount]
Pendings == [s \in Stakers |-> position[s].pending_unstake]
Claims == [s \in Stakers |-> Claimable(position[s])]

\* The three vaults hold what the accounts say: a principal is never paid from
\* the funding vault, nor funding from the buffer or the stakes.
VaultsAccounted ==
    /\ total_staked = Sum(Amounts)
    /\ stake_vault = Sum(Amounts) + Sum(Pendings)
    /\ funding_vault = staker_funding_balance
    /\ buffer_vault = buffer_balance

\* No sequence of settlements, draws, stakes and exits makes an accrual
\* underflow, which would lock the position: every instruction of a staker
\* begins with one.
DebtWithinEntitlement ==
    \A s \in Stakers : position[s].reward_debt <= Entitlement(position[s].amount)

\* What the stakers hold, with their stakes.
Held == Sum(wallet) + Sum(Amounts) + Sum(Pendings)

\* All the funding ever brought in for stakers: what is still there, and what
\* they hold beyond what they came with.
BroughtIn == staker_funding_balance + Held - Cardinality(Stakers) * StakerWealth

\* Joining or leaving moves nobody's claim: new stake earns nothing from what
\* was settled before it, leaving stake keeps what it earned.
StakeMovesNoClaim ==
    [][ (total_staked' # total_staked) => Claims' = Claims ]_vars

\* A settlement or a draw hands out no more than it brought in, but for the
\* fraction of a unit each staker beside the first may have been waiting for:
\* the buffer's share and the truncated remainder are not promised to anybody.
SettlementSharesWhatItBrings ==
    [][ acc_funding_per_share' # acc_funding_per_share =>
            Sum(Claims') < Sum(Claims)
                + (staker_funding_balance' - staker_funding_balance)
                + Cardinality({s \in Stakers : position[s].amount > 0}) ]_vars

\* Once asked for, a stake is paid out, whatever is paused or settled and
\* however the cooldown is changed meanwhile.
UnstakePaid ==
    \A s \in Stakers :
        position[s].pending_unstake > 0 ~> position[s].pending_unstake = 0

=============================================================================
