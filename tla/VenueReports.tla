----------------------------- MODULE VenueReports -----------------------------
(***************************************************************************)
(* report_venue_state as a keeper daemon calls it: the venue is observed,  *)
(* a transaction is sent, and it lands later, after others, or never.      *)
(*                                                                         *)
(* Config stores the second a report landed; when it was observed is known *)
(* to the reporter only, and kept here in history variables.               *)
(***************************************************************************)
EXTENDS VenueState

VARIABLES carry,         \* the carry at the venue
          in_flight,     \* reports, with the second of observation, sent and
                         \* neither landed nor lost
          observed_at    \* when the report in Config was observed

reports == <<carry, in_flight, observed_at>>
vars == <<now, params, venue, reports>>

Init ==
    /\ now = 1
    /\ params \in ParamSets
    /\ venue = VenueInit
    /\ carry \in Carries
    /\ in_flight = {}
    /\ observed_at = 0

CarryMoves(value) ==
    /\ carry' = value
    /\ UNCHANGED <<now, params, venue, in_flight, observed_at>>

Send(capacity) ==
    /\ in_flight' = in_flight \cup
           {[ carry |-> carry, capacity |-> capacity, observed_at |-> now ]}
    /\ UNCHANGED <<now, params, venue, carry, observed_at>>

Land(report, id) ==
    /\ ReportVenueState(id, report.carry, report.capacity)
    /\ in_flight' = in_flight \ {report}
    /\ observed_at' = report.observed_at
    /\ UNCHANGED <<now, params, carry>>

Lose(report) ==
    /\ in_flight' = in_flight \ {report}
    /\ UNCHANGED <<now, params, venue, carry, observed_at>>

TimePasses ==
    /\ Tick
    /\ UNCHANGED <<params, venue, reports>>

SetParams(p) ==
    /\ params' = p
    /\ UNCHANGED <<now, venue, reports>>

Next ==
    \/ \E value \in Carries : CarryMoves(value)
    \/ \E capacity \in Capacities : Send(capacity)
    \/ \E report \in in_flight : Lose(report) \/ \E id \in Venues : Land(report, id)
    \/ TimePasses
    \/ \E p \in ParamSets : SetParams(p)

Spec == Init /\ [][Next]_vars

-----------------------------------------------------------------------------

CarryAboveFloor == venue.last_net_carry_bps >= params.min_net_carry_bps

\* admin.rs, report_venue_state: "monotonicity stops a stale report from a
\* lagging reporter overwriting a fresher one and silently re-opening a gate
\* that had already closed".  What the instruction compares is the second of
\* landing, which only grows, so a late report re-opens the gate.
LaggardNeverReopens ==
    [][ ~CarryAboveFloor /\ params' = params /\ CarryAboveFloor' =>
            observed_at' >= observed_at ]_vars

=============================================================================
