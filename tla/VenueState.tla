------------------------------ MODULE VenueState ------------------------------
(***************************************************************************)
(* The venue-state part of Config and its single writer,                   *)
(* report_venue_state (programs/poyz/src/instructions/admin.rs).           *)
(*                                                                         *)
(* Issuance reads the carry and the capacity, the insurance buffer reads   *)
(* the negative-funding clock.  Both EXTEND this module.                   *)
(***************************************************************************)
EXTENDS Parameters

CONSTANTS Carries,       \* annualised carries, in bps, a reporter may publish
          Capacities     \* capacities a reporter may publish

ASSUME VenueAssumption ==
    /\ Carries \subseteq Int
    /\ Capacities \subseteq Nat

VARIABLE venue           \* the reported fields of Config

CARRY_BPS_LIMIT == 1000000

VenueRecords ==
    [ last_venue_id : Venues \cup {VENUE_NONE}, last_net_carry_bps : Int,
      venue_capacity_notional : Nat, venue_state_at : Nat,
      negative_funding_since : Nat ]

VenueInit ==
    [ last_venue_id |-> VENUE_NONE, last_net_carry_bps |-> 0,
      venue_capacity_notional |-> 0, venue_state_at |-> 0,
      negative_funding_since |-> 0 ]

\* A faulty variant: a report that is not negative leaves the clock running.
RegimeClockNeverStops(carry) ==
    IF carry < 0 /\ venue.negative_funding_since = 0 THEN now
    ELSE venue.negative_funding_since

\* The regime clock after a report: the first negative report starts it, a
\* report that is not negative stops it.
RegimeClock(carry) ==
    IF carry < 0
    THEN IF venue.negative_funding_since = 0 THEN now
         ELSE venue.negative_funding_since
    ELSE 0

\* report_venue_state.  Any bonded keeper and the authority may report, so
\* some signer always passes the signer check.
ReportVenueState(id, carry, capacity) ==
    /\ VenueEnabled(id)
    /\ Abs(carry) <= CARRY_BPS_LIMIT
    /\ now >= venue.venue_state_at
    /\ venue' = [ last_venue_id |-> id,
                  last_net_carry_bps |-> carry,
                  venue_capacity_notional |->
                      Lower(capacity, params.max_reportable_capacity_notional),
                  venue_state_at |-> now,
                  negative_funding_since |-> RegimeClock(carry) ]

=============================================================================
