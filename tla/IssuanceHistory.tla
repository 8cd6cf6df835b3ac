--------------------------- MODULE IssuanceHistory ---------------------------
(***************************************************************************)
(* Issuance with one history variable: when check_issuance_gates would     *)
(* last have passed.  The program does not keep it; it lets a property     *)
(* relate the moment supply is created to the moment it was allowed.       *)
(***************************************************************************)
EXTENDS Issuance

VARIABLE gates_open_at

hvars == <<vars, gates_open_at>>

HInit == Init /\ gates_open_at = 0

HNext ==
    /\ Next
    /\ gates_open_at' = IF PriceLoads /\ IssuanceGates THEN now ELSE gates_open_at

HSpec == HInit /\ [][HNext]_hvars

FairHSpec == HSpec /\ Fairness

\* Supply is only created within one time to live of a moment when every
\* issuance gate was open: mint_confirm does not look at the gates again, so
\* the window in which a keeper can still settle against a venue that has gone
\* silent or negative is bounded by the request's deadline and by nothing else.
IssuanceNearOpenGates ==
    [][ total_synthetic' > total_synthetic =>
            \E p \in ParamSets : now <= gates_open_at' + p.request_ttl_sec ]_hvars

=============================================================================
