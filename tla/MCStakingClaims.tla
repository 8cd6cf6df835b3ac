--------------------------- MODULE MCStakingClaims ----------------------------
\* Instances of StakingClaims for TLC.
EXTENDS StakingClaims, MCParameters, TLC

MCStakers == Permutations(Stakers)

\* The cooldown and the unlock delay fit a short run.
Quick == [Base EXCEPT !.buffer_unlock_delay_sec = 1]
QuickParams == {Quick}

\* Everything to the stakers.
Generous == [Quick EXCEPT !.buffer_share_bps = 0]
GenerousParams == {Generous}

\* Reports on either side of zero.
Signs == {-1, 0}

=============================================================================
