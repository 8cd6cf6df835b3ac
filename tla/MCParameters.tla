----------------------------- MODULE MCParameters -----------------------------
(***************************************************************************)
(* Parameter records for the model-checking instances, at the boundaries   *)
(* validate_config draws.  With prices 4 and 5 and two decimal places of   *)
(* shift, 40 units of collateral are quoted 16 or 20.                      *)
(***************************************************************************)
EXTENDS Integers

\* The ratio 1.25 is exactly what the fall from 5 to 4 needs.
Base ==
    [ max_price_age_sec |-> 1, max_conf_bps |-> 3000, collateral_ratio_bps |-> 12500,
      mint_fee_bps |-> 500, redeem_fee_bps |-> 500,
      delta_band_bps |-> 1500, delta_exit_bps |-> 1000, delta_hard_bps |-> 2000,
      max_hedge_slippage_bps |-> 0, max_supply_vs_capacity_bps |-> 5000,
      max_venue_state_age_sec |-> 1, min_net_carry_bps |-> 0,
      max_reportable_capacity_notional |-> 60, max_synthetic_supply |-> 25,
      request_ttl_sec |-> 1, min_settlement_delay_sec |-> 0,
      min_keeper_bond |-> 2, unbond_cooldown_sec |-> 1,
      unstake_cooldown_sec |-> 1, buffer_share_bps |-> 2500,
      buffer_unlock_delay_sec |-> 2, buffer_max_draw_bps |-> 5000,
      venue_flags |-> {1} ]

\* Cheaper, looser, slower, and with less room than the supply may already be.
\* A capacity reported before is worth more here than one reported anew.
Changed ==
    [Base EXCEPT !.mint_fee_bps = 0, !.redeem_fee_bps = 0,
                 !.collateral_ratio_bps = 14000,
                 !.max_hedge_slippage_bps = 4000, !.max_conf_bps = 2400,
                 !.max_reportable_capacity_notional = 24,
                 !.max_synthetic_supply = 20, !.min_settlement_delay_sec = 1]

\* No over-collateralisation at all, and short unwinds allowed.
AtPar ==
    [Base EXCEPT !.collateral_ratio_bps = 10000,
                 !.max_hedge_slippage_bps = 5000]

\* One fill within the tolerance of both notionals; the cap has room for a mint
\* of 15 and one of 11, the share of the reported capacity for two of 11.
Lenient ==
    [Base EXCEPT !.max_hedge_slippage_bps = 2500,
                 !.max_synthetic_supply = 26, !.max_reportable_capacity_notional = 44]

\* Slower than a request lives: no redemption can be settled.
AtParSlow == [AtPar EXCEPT !.min_settlement_delay_sec = 2]

OneParams == {Base}
ParParams == {AtPar, AtParSlow}
TwoParams == {Lenient, Changed}

\* Room for two mints of 15.
Roomy == [Base EXCEPT !.max_synthetic_supply = 50, !.max_supply_vs_capacity_bps = 10000]

RoomyParams == {Roomy}

\* Carries around the floor, which is 0.
AroundFloor == {-1, 0}

=============================================================================
