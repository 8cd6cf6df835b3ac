--------------------------- MODULE MCStakingHistory ---------------------------
\* Instances of StakingHistory for TLC.
EXTENDS StakingHistory, MCParameters

\* Delays that fit a short run; a settlement of one unit goes to the buffer,
\* which takes the fraction, and the buffer may be drawn in full.
Quick ==
    [Base EXCEPT !.buffer_unlock_delay_sec = 1, !.buffer_share_bps = 5000,
                 !.buffer_max_draw_bps = 10000]

\* Longer delays, which the authority may set or lift in mid-regime and while a
\* stake is pending, and everything to the stakers.
Slow ==
    [Quick EXCEPT !.buffer_unlock_delay_sec = 2, !.unstake_cooldown_sec = 2,
                  !.buffer_share_bps = 0]

VaultParams == {Quick, Slow}

\* Reports on either side of zero.
Signs == {-1, 0}

=============================================================================
