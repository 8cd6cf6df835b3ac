---------------------------- MODULE StakingHistory ----------------------------
(***************************************************************************)
(* Staking with a record of what no account stores: how often a position's *)
(* stake changed, and when the last report that was not negative came.     *)
(***************************************************************************)
EXTENDS Staking

CONSTANT MaxTouches      \* bound on the number of changes of a stake

VARIABLES touches, calm_until

history == <<touches, calm_until>>

HInit ==
    /\ Init
    /\ touches = 0
    /\ calm_until = now

Calm == venue' # venue /\ venue'.last_net_carry_bps >= 0

HNext ==
    /\ Next
    /\ touches' = touches + (IF total_staked' # total_staked THEN 1 ELSE 0)
    /\ touches' <= MaxTouches
    /\ calm_until' = IF Calm THEN now ELSE calm_until

HSpec == HInit /\ [][HNext]_<<vars, history>>

FairHSpec == HSpec /\ Fairness

-----------------------------------------------------------------------------

\* Rounding leaks less than a unit each time a stake changes, and no more
\* however many settlements follow: what is owed exceeds what was brought in
\* and not yet paid by at most the number of changes.
OverpaymentBounded == Sum(Claims) <= staker_funding_balance + touches

\* The accumulator only grows, and every instruction of a staker multiplies it
\* by the stake: a stake is locked once the product overflows.  It never does
\* while the stake times all the funding ever brought in fits, even if all of it
\* was settled to a single unit of stake, and that funding with the units that
\* rounding may have leaked is itself an amount.
EveryStakeCanAccrue ==
    \A s \in Stakers :
        /\ position[s].amount * BroughtIn * AccScale <= U128Max
        /\ Fits(BroughtIn + touches)
        => CanAccrue(position[s])

\* The reserve is touched only in a negative regime that no other report has
\* interrupted for the unlock delay.
BufferDrawnInRegime ==
    [][ buffer_balance' < buffer_balance =>
            now - calm_until >= params.buffer_unlock_delay_sec ]_<<vars, history>>

=============================================================================
