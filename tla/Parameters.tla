------------------------------ MODULE Parameters ------------------------------
(***************************************************************************)
(* The tunable fields of Config and the cluster clock: what every handler  *)
(* of the program reads and only the authority or time changes.            *)
(***************************************************************************)
EXTENDS FixedPoint

CONSTANTS Venues,        \* venue ids a caller may name, the unset id included
          ParamSets,     \* configurations the authority may install
          MaxTime        \* bound on the clock

VARIABLES now,           \* Clock::get().unix_timestamp
          params         \* the tunable fields of Config

VENUE_NONE == 0

\* The fields of Config that set_params writes.
ParamRecords ==
    [ max_price_age_sec : Nat, max_conf_bps : Nat, collateral_ratio_bps : Nat,
      mint_fee_bps : Nat, redeem_fee_bps : Nat,
      delta_band_bps : Nat, delta_exit_bps : Nat, delta_hard_bps : Nat,
      max_hedge_slippage_bps : Nat, max_supply_vs_capacity_bps : Nat,
      max_venue_state_age_sec : Nat, min_net_carry_bps : Int,
      max_reportable_capacity_notional : Nat, max_synthetic_supply : Nat,
      request_ttl_sec : Nat, min_settlement_delay_sec : Nat,
      min_keeper_bond : Nat, unbond_cooldown_sec : Nat,
      unstake_cooldown_sec : Nat, buffer_share_bps : Nat,
      buffer_unlock_delay_sec : Nat, buffer_max_draw_bps : Nat,
      venue_flags : SUBSET Venues ]

\* validate_config: the bounds initialize and set_params enforce after every
\* change.
ValidConfig(p) ==
    /\ p.max_price_age_sec > 0 /\ p.max_price_age_sec <= 3600
    /\ p.collateral_ratio_bps >= BPS /\ p.collateral_ratio_bps <= 5 * BPS
    /\ p.delta_band_bps > 0 /\ p.delta_band_bps <= 2000
    /\ p.delta_exit_bps > 0 /\ p.delta_exit_bps <= p.delta_band_bps
    /\ p.delta_hard_bps >= p.delta_band_bps /\ p.delta_hard_bps <= 2000
    /\ p.mint_fee_bps <= 500 /\ p.redeem_fee_bps <= 500
    /\ p.max_conf_bps > 0 /\ p.max_conf_bps < BPS
    /\ p.max_hedge_slippage_bps < BPS
    /\ p.buffer_share_bps <= BPS
    /\ p.buffer_max_draw_bps > 0 /\ p.buffer_max_draw_bps <= BPS
    /\ p.max_supply_vs_capacity_bps > 0 /\ p.max_supply_vs_capacity_bps <= BPS
    /\ p.max_venue_state_age_sec > 0
    /\ p.venue_flags # {} /\ VENUE_NONE \notin p.venue_flags
    /\ p.min_keeper_bond > 0
    /\ p.max_synthetic_supply > 0
    /\ p.request_ttl_sec > 0

ASSUME ParamAssumption ==
    /\ ParamSets # {}
    /\ \A p \in ParamSets : p \in ParamRecords /\ ValidConfig(p)

VenueEnabled(id) == id \in params.venue_flags

\* Seconds pass between transactions.
Tick ==
    /\ now < MaxTime
    /\ now' = now + 1

=============================================================================
