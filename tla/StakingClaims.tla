----------------------------- MODULE StakingClaims -----------------------------
(***************************************************************************)
(* What comments of the program say of funding and of the buffer, which    *)
(* its instructions do not keep.                                           *)
(***************************************************************************)
EXTENDS StakingHistory

CONSTANT MaxPrints       \* negative reports counted

VARIABLE negative_prints \* negative reports since the last other one

CInit == HInit /\ negative_prints = 0

NegativePrint == venue' # venue /\ venue'.last_net_carry_bps < 0

CNext ==
    /\ HNext
    /\ negative_prints' =
           IF Calm THEN 0
           ELSE IF NegativePrint THEN Lower(negative_prints + 1, MaxPrints)
           ELSE negative_prints

CSpec == CInit /\ [][CNext]_<<vars, history, negative_prints>>

\* math.rs: what the protocol hands out rounds down, so "the residue of every
\* rounding step therefore stays inside the protocol": the funding vault
\* covers every claim.  Re-basing a debt rounds down too, in the staker's
\* favour, so the last to claim may find less than it is owed.
ClaimsCovered == Sum(Claims) <= staker_funding_balance

\* buffer.rs: the regime must have persisted, "so a single negative print
\* cannot unlock the reserve".  A single print and silence can.
SinglePrintLocks ==
    [][ buffer_balance' < buffer_balance => negative_prints >= 2
      ]_<<vars, history, negative_prints>>

=============================================================================
