-------------------------- MODULE IssuanceStepProofs --------------------------
(***************************************************************************)
(* What a single step of Issuance may do and may never do, for every value *)
(* of the constants: the limit on the supply, the gates supply is created  *)
(* near, the cover it leaves behind, and that every step of the handlers   *)
(* is a step of Exchange or a stutter.  The steps are taken from states    *)
(* the accounting invariant of IssuanceProofs describes.                   *)
(***************************************************************************)
EXTENDS IssuanceRefinement, IssuanceHistory, IssuanceProofs

-----------------------------------------------------------------------------
(* The authority's limits on the supply. *)

\* What a reporter can publish stays within a limit some configuration set.
CapacityWithinLimits ==
    \E q \in ParamSets :
        venue.venue_capacity_notional <= q.max_reportable_capacity_notional

LimitsInv == CapacityWithinLimits /\ SupplyWithinAdminLimits

\* A share of a smaller capacity is a smaller share.
LEMMA ShareMonotone ==
    ASSUME NEW a \in Nat, NEW b \in Nat, NEW bps \in Nat, a <= b
    PROVE  MulBpsFloor(a, bps) <= MulBpsFloor(b, bps)
<1>1. a * bps \in Nat /\ b * bps \in Nat /\ a * bps <= b * bps
  BY ProductMonotone
<1> HIDE DEF BPS
<1>2. (a * bps) \div BPS <= (b * bps) \div BPS
  <2> DEFINE x == a * bps
             y == b * bps
  <2>1. x \in Nat /\ y \in Nat /\ x <= y
    BY <1>1
  <2> HIDE DEF x, y
  <2>2. x \div 10000 <= y \div 10000
    BY <2>1
  <2> QED
    BY <2>2 DEF x, y, BPS
<1> QED
  BY <1>2 DEF MulBpsFloor

LEMMA LimitsInit == Init => LimitsInv
<1> SUFFICES ASSUME Init PROVE LimitsInv
  OBVIOUS
<1>1. PICK p \in ParamSets : TRUE
  BY ParamAssumption
<1>2. /\ p.max_reportable_capacity_notional \in Nat
      /\ p.max_supply_vs_capacity_bps \in Nat
      /\ p.max_synthetic_supply \in Nat
  BY ParamAssumption DEF ParamRecords
<1>3. MulBpsFloor(p.max_reportable_capacity_notional,
                  p.max_supply_vs_capacity_bps) \in Nat
  BY <1>2, BpsRounding
<1>4. total_synthetic = 0 /\ venue.venue_capacity_notional = 0
  BY DEF Init, VenueInit
<1> QED
  BY <1>2, <1>3, <1>4 DEF LimitsInv, CapacityWithinLimits, SupplyWithinAdminLimits

\* Only mint_confirm adds to the supply, and it checks what it creates against
\* the ceiling.
LEMMA MintConfirmLimits ==
    ASSUME TypeOK, CapacityWithinLimits, NEW u \in Users, NEW n \in Nonces,
           NEW venue_id, NEW filled, MintConfirm(u, n, venue_id, filled)
    PROVE  SupplyWithinAdminLimits'
<1> DEFINE new_supply == total_synthetic'
           share == MulBpsFloor(venue.venue_capacity_notional,
                                params.max_supply_vs_capacity_bps)
<1>1. new_supply <= params.max_synthetic_supply /\ new_supply <= SupplyCeiling
  BY DEF MintConfirm
<1>2. new_supply \in Int
  <2>1. /\ total_synthetic \in Nat
        /\ NetMinted(Settled(NotionalNow(mint_request[<<u, n>>].collateral_amount),
                           mint_request[<<u, n>>].quoted_notional)) \in Nat
    BY MintConfirmFacts DEF TypeOK
  <2> QED
    BY <2>1 DEF MintConfirm
<1>3. PICK q \in ParamSets :
          venue.venue_capacity_notional <= q.max_reportable_capacity_notional
  BY DEF CapacityWithinLimits
<1>4. /\ venue.venue_capacity_notional \in Nat
      /\ q.max_reportable_capacity_notional \in Nat
      /\ params \in ParamSets
      /\ params.max_supply_vs_capacity_bps \in Nat
      /\ params.max_synthetic_supply \in Nat
  BY ParamAssumption, ParamTypes DEF ParamRecords, TypeOK, VenueRecords
<1>5. share \in Nat
  BY <1>4, BpsRounding
<1>6. new_supply <= share
  <2> HIDE DEF new_supply
  <2> QED
    BY <1>1, <1>2, <1>4, <1>5 DEF SupplyCeiling, Lower
<1>7. share <= MulBpsFloor(q.max_reportable_capacity_notional,
                           params.max_supply_vs_capacity_bps)
  BY <1>3, <1>4, ShareMonotone
<1>8. MulBpsFloor(q.max_reportable_capacity_notional,
                  params.max_supply_vs_capacity_bps) \in Nat
  BY <1>4, BpsRounding
<1>9. new_supply <= MulBpsFloor(q.max_reportable_capacity_notional,
                                params.max_supply_vs_capacity_bps)
  BY <1>2, <1>5, <1>6, <1>7, <1>8
<1> QED
  BY <1>1, <1>4, <1>9 DEF SupplyWithinAdminLimits

\* A supply that does not grow stays within the limits it was within.
LEMMA LimitsKept ==
    ASSUME SupplyWithinAdminLimits, total_synthetic \in Nat,
           total_synthetic' \in Nat, total_synthetic' <= total_synthetic
    PROVE  SupplyWithinAdminLimits'
<1>1. PICK p \in ParamSets, q \in ParamSets :
          /\ total_synthetic <= p.max_synthetic_supply
          /\ total_synthetic <= MulBpsFloor(q.max_reportable_capacity_notional,
                                            p.max_supply_vs_capacity_bps)
  BY DEF SupplyWithinAdminLimits
<1>2. /\ p.max_synthetic_supply \in Nat
      /\ MulBpsFloor(q.max_reportable_capacity_notional,
                     p.max_supply_vs_capacity_bps) \in Nat
  <2>1. /\ p.max_synthetic_supply \in Nat /\ p.max_supply_vs_capacity_bps \in Nat
        /\ q.max_reportable_capacity_notional \in Nat
    BY ParamAssumption DEF ParamRecords
  <2> QED
    BY <2>1, BpsRounding
<1>3. /\ total_synthetic' <= p.max_synthetic_supply
      /\ total_synthetic' <= MulBpsFloor(q.max_reportable_capacity_notional,
                                         p.max_supply_vs_capacity_bps)
  BY <1>1, <1>2
<1> QED
  BY <1>3 DEF SupplyWithinAdminLimits

\* report_venue_state clamps what it stores; nothing else writes it.
LEMMA CapacityNext ==
    TypeOK /\ CapacityWithinLimits /\ [Next]_vars => CapacityWithinLimits'
<1> SUFFICES ASSUME TypeOK, CapacityWithinLimits, [Next]_vars
             PROVE  CapacityWithinLimits'
  OBVIOUS
<1>1. ASSUME UNCHANGED venue PROVE CapacityWithinLimits'
  BY <1>1 DEF CapacityWithinLimits
<1>2. ASSUME NEW v \in Venues, NEW r \in Carries, NEW c \in Capacities, Report(v, r, c)
      PROVE  CapacityWithinLimits'
  <2>1. venue'.venue_capacity_notional
            = Lower(c, params.max_reportable_capacity_notional)
    BY <1>2 DEF Report, ReportVenueState
  <2>2. c \in Nat /\ params.max_reportable_capacity_notional \in Nat
    BY VenueAssumption, ParamTypes
  <2>3. venue'.venue_capacity_notional <= params.max_reportable_capacity_notional
    BY <2>1, <2>2 DEF Lower
  <2> QED
    BY <2>3 DEF CapacityWithinLimits, TypeOK
<1>3. ASSUME NEW u \in Users, NEW n \in Nonces, UserStep(u, n)
      PROVE  UNCHANGED venue
  BY <1>3 DEF UserStep, MintRequest, RedeemRequest, MintCancel, RedeemCancel, environment
<1>4. ASSUME NEW u \in Users, NEW n \in Nonces, KeeperStep(u, n)
      PROVE  UNCHANGED venue
  BY <1>4 DEF KeeperStep, MintConfirm, RedeemConfirm, environment
<1>5. ASSUME EnvironmentStep PROVE CapacityWithinLimits'
  BY <1>1, <1>2, <1>5 DEF EnvironmentStep, SyntheticTransfer, RebalanceProof, OracleStep,
     OraclePublish, SetOracle,
     KeeperStandingChanges, SetPaused, SetParams, Wait, environment
<1>6. ASSUME UNCHANGED vars PROVE UNCHANGED venue
  BY <1>6 DEF vars, environment
<1> QED
  BY <1>1, <1>3, <1>4, <1>5, <1>6 DEF Next

LEMMA LimitsNext ==
    Accounts /\ Accounts' /\ LimitsInv /\ [Next]_vars => LimitsInv'
<1> SUFFICES ASSUME Accounts, Accounts', LimitsInv, [Next]_vars PROVE LimitsInv'
  OBVIOUS
<1>0. TypeOK /\ total_synthetic \in Nat /\ total_synthetic' \in Nat
  BY DEF Accounts, TypeOK
<1>1. CapacityWithinLimits'
  BY <1>0, CapacityNext DEF LimitsInv
<1>2. ASSUME NEW u \in Users, NEW n \in Nonces, KeeperStep(u, n)
      PROVE  SupplyWithinAdminLimits'
  <2>1. ASSUME NEW f \in Fills, RedeemConfirm(u, n, f)
        PROVE  total_synthetic' <= total_synthetic
    <3>1. redeem_request[<<u, n>>].synthetic_amount \in Nat
      BY <1>0, <2>1, RedeemConfirmFacts
    <3> QED
      BY <1>0, <2>1, <3>1 DEF RedeemConfirm
  <2> QED
    BY <1>0, <1>2, <2>1, MintConfirmLimits, LimitsKept DEF KeeperStep, LimitsInv
<1>3. CASE ~ \E u \in Users, n \in Nonces : KeeperStep(u, n)
  <2>1. total_synthetic' = total_synthetic
    BY <1>3, TotalsUnchanged
  <2> QED
    BY <1>0, <1>1, <2>1, LimitsKept DEF LimitsInv
<1> QED
  BY <1>1, <1>2, <1>3 DEF LimitsInv

\* The supply stays within a cap and a share of a reportable capacity that the
\* authority has set, whatever is reported and in whatever order requests made
\* under earlier limits are settled.
THEOREM SupplyStaysWithinAdminLimits == Spec => []SupplyWithinAdminLimits
<1>1. LimitsInv => SupplyWithinAdminLimits
  BY DEF LimitsInv
<1> QED
  BY AccountsInit, AccountsNext, LimitsInit, LimitsNext, <1>1, PTL DEF Spec

-----------------------------------------------------------------------------
(* The gates supply is created near. *)

\* Every open mint request was made when the gates were open, and runs out
\* within one time to live of the last moment they were.
RequestsNearOpenGates ==
    /\ gates_open_at \in Nat /\ gates_open_at <= now
    /\ \A s \in Slots :
           mint_request[s] # NoRequest =>
               \E p \in ParamSets :
                   mint_request[s].deadline <= gates_open_at + p.request_ttl_sec

\* A step leaves a mint request alone, closes it, or opens one through the
\* gates; time does not run backwards.
LEMMA MintRequestsFollow ==
    ASSUME TypeOK, [Next]_vars
    PROVE  /\ now' \in Nat /\ now <= now'
           /\ \A s \in Slots :
                  \/ mint_request'[s] = mint_request[s]
                  \/ mint_request'[s] = NoRequest
                  \/ /\ PriceLoads /\ IssuanceGates
                     /\ mint_request'[s].deadline = now + params.request_ttl_sec
<1>0. /\ now \in Nat
      /\ mint_request \in [Slots -> MintRequests \cup {NoRequest}]
  BY DEF TypeOK
<1>1. ASSUME UNCHANGED mint_request, now' \in Nat, now <= now'
      PROVE  /\ now' \in Nat /\ now <= now'
             /\ \A s \in Slots : mint_request'[s] = mint_request[s]
  BY <1>1
<1>2. ASSUME NEW u \in Users, NEW n \in Nonces, UserStep(u, n)
      PROVE  /\ now' = now
             /\ \A s \in Slots :
                    \/ mint_request'[s] = mint_request[s]
                    \/ mint_request'[s] = NoRequest
                    \/ /\ PriceLoads /\ IssuanceGates
                       /\ mint_request'[s].deadline = now + params.request_ttl_sec
  <2>1. ASSUME NEW a \in CollateralAmounts, NEW m \in MinOuts, MintRequest(u, n, a, m)
        PROVE  /\ now' = now /\ PriceLoads /\ IssuanceGates
               /\ \A s \in Slots \ {<<u, n>>} : mint_request'[s] = mint_request[s]
               /\ mint_request'[<<u, n>>].deadline = now + params.request_ttl_sec
    <3>1. <<u, n>> \in Slots
      BY DEF Slots
    <3> QED
      BY <1>0, <2>1, <3>1 DEF MintRequest, environment
  <2>2. ASSUME NEW a \in SyntheticAmounts, NEW m \in MinOuts, RedeemRequest(u, n, a, m)
        PROVE  now' = now /\ mint_request' = mint_request
    BY <2>2 DEF RedeemRequest, environment
  <2>3. ASSUME MintCancel(u, n)
        PROVE  /\ now' = now
               /\ mint_request' = [mint_request EXCEPT ![<<u, n>>] = NoRequest]
    BY <2>3 DEF MintCancel, environment
  <2>4. ASSUME RedeemCancel(u, n)
        PROVE  now' = now /\ mint_request' = mint_request
    BY <2>4 DEF RedeemCancel, environment
  <2>5. CASE \E a \in CollateralAmounts, m \in MinOuts : MintRequest(u, n, a, m)
    BY <2>1, <2>5
  <2>6. CASE \E a \in SyntheticAmounts, m \in MinOuts : RedeemRequest(u, n, a, m)
    BY <2>2, <2>6
  <2>7. CASE MintCancel(u, n)
    BY <1>0, <2>3, <2>7
  <2> QED
    BY <1>2, <2>4, <2>5, <2>6, <2>7 DEF UserStep
<1>3. ASSUME NEW u \in Users, NEW n \in Nonces, KeeperStep(u, n)
      PROVE  /\ now' = now
             /\ \A s \in Slots : \/ mint_request'[s] = mint_request[s]
                                \/ mint_request'[s] = NoRequest
  <2>1. ASSUME NEW v \in Venues, NEW f \in Fills, MintConfirm(u, n, v, f)
        PROVE  /\ now' = now
               /\ mint_request' = [mint_request EXCEPT ![<<u, n>>] = NoRequest]
    BY <2>1 DEF MintConfirm, environment
  <2>2. ASSUME NEW f \in Fills, RedeemConfirm(u, n, f)
        PROVE  now' = now /\ mint_request' = mint_request
    BY <2>2 DEF RedeemConfirm, environment
  <2> QED
    BY <1>0, <1>3, <2>1, <2>2 DEF KeeperStep
<1>4. ASSUME EnvironmentStep
      PROVE  UNCHANGED mint_request /\ (now' = now \/ now' = now + 1)
  BY <1>4 DEF EnvironmentStep, SyntheticTransfer, RebalanceProof, OracleStep,
     OraclePublish, SetOracle, KeeperStandingChanges, SetPaused, SetParams, Report,
     Wait, Tick, environment, ledger, requests
<1>5. ASSUME UNCHANGED vars PROVE UNCHANGED <<mint_request, now>>
  BY <1>5 DEF vars, environment, ledger, requests
<1> QED
  BY <1>0, <1>1, <1>2, <1>3, <1>4, <1>5 DEF Next

\* Only a live mint request adds to the supply.
LEMMA SupplyGrowsByRequest ==
    ASSUME Accounts, [Next]_vars, total_synthetic' > total_synthetic
    PROVE  \E s \in Slots :
               mint_request[s] # NoRequest /\ now <= mint_request[s].deadline
<1>0. TypeOK /\ total_synthetic \in Nat
  BY DEF Accounts, TypeOK
<1>1. PICK u \in Users, n \in Nonces : KeeperStep(u, n)
  BY <1>0, TotalsUnchanged
<1>2. ASSUME NEW f \in Fills, RedeemConfirm(u, n, f) PROVE FALSE
  <2>1. redeem_request[<<u, n>>].synthetic_amount \in Nat
    BY <1>0, <1>2, RedeemConfirmFacts
  <2> QED
    BY <1>0, <1>2, <2>1 DEF RedeemConfirm
<1>3. PICK v \in Venues, f \in Fills : MintConfirm(u, n, v, f)
  BY <1>1, <1>2 DEF KeeperStep
<1>4. mint_request[<<u, n>>] # NoRequest /\ now <= mint_request[<<u, n>>].deadline
  BY <1>3 DEF MintConfirm, Live
<1> QED
  BY <1>4 DEF Slots

LEMMA GatesInit == HInit => Init /\ RequestsNearOpenGates
<1> SUFFICES ASSUME HInit PROVE Init /\ RequestsNearOpenGates
  OBVIOUS
<1>1. /\ now = 1 /\ gates_open_at = 0
      /\ \A s \in Slots : mint_request[s] = NoRequest
  BY DEF HInit, Init
<1> QED
  BY <1>1 DEF HInit, RequestsNearOpenGates

LEMMA GatesNext ==
    TypeOK /\ TypeOK' /\ RequestsNearOpenGates /\ [HNext]_hvars
        => /\ RequestsNearOpenGates'
           /\ gates_open_at' \in Nat /\ gates_open_at <= gates_open_at'
<1> SUFFICES ASSUME TypeOK, TypeOK', RequestsNearOpenGates, [HNext]_hvars
             PROVE  /\ RequestsNearOpenGates'
                    /\ gates_open_at' \in Nat /\ gates_open_at <= gates_open_at'
  OBVIOUS
<1>1. /\ [Next]_vars
      /\ gates_open_at' = gates_open_at \/ gates_open_at' = now
      /\ ~ UNCHANGED vars /\ PriceLoads /\ IssuanceGates => gates_open_at' = now
  BY DEF HNext, hvars
<1>2. /\ now \in Nat /\ gates_open_at \in Nat /\ gates_open_at <= now
      /\ params \in ParamSets
      /\ \A p \in ParamSets : p.request_ttl_sec \in Nat
      /\ mint_request \in [Slots -> MintRequests \cup {NoRequest}]
  BY ParamAssumption DEF TypeOK, RequestsNearOpenGates, ParamRecords
<1>3. PICK t \in Nat : t = now' /\ now <= t
  BY <1>1, MintRequestsFollow
<1>4. PICK g \in Nat : g = gates_open_at' /\ gates_open_at <= g /\ g <= now
  BY <1>1, <1>2
<1>5. ASSUME NEW s \in Slots, mint_request'[s] # NoRequest
      PROVE  \E p \in ParamSets : mint_request'[s].deadline <= g + p.request_ttl_sec
  <2>1. CASE mint_request'[s] = mint_request[s]
    <3>1. PICK p \in ParamSets :
              mint_request[s].deadline <= gates_open_at + p.request_ttl_sec
      BY <1>5, <2>1 DEF RequestsNearOpenGates
    <3>2. mint_request[s].deadline \in Nat
      BY <1>2, <1>5, <2>1 DEF MintRequests
    <3>3. mint_request[s].deadline <= g + p.request_ttl_sec
      BY <1>2, <1>4, <3>1, <3>2
    <3> QED
      BY <2>1, <3>3
  <2>2. CASE /\ mint_request'[s] # mint_request[s]
             /\ PriceLoads /\ IssuanceGates
             /\ mint_request'[s].deadline = now + params.request_ttl_sec
    <3>1. ~ UNCHANGED vars
      BY <2>2 DEF vars, ledger, requests
    <3>2. g = now
      BY <1>1, <1>4, <2>2, <3>1
    <3> QED
      BY <1>2, <2>2, <3>2
  <2> QED
    BY <1>1, <1>5, <2>1, <2>2, MintRequestsFollow
<1>6. RequestsNearOpenGates'
  <2>1. g <= t
    BY <1>2, <1>3, <1>4
  <2> QED
    BY <1>3, <1>4, <1>5, <2>1 DEF RequestsNearOpenGates
<1> QED
  BY <1>4, <1>6

\* Supply is created within one time to live of a moment when every issuance
\* gate was open, though the settlement itself looks at none of them.
THEOREM SupplyCreatedNearOpenGates == HSpec => IssuanceNearOpenGates
<1>1. Accounts /\ RequestsNearOpenGates /\ [HNext]_hvars =>
          [ total_synthetic' > total_synthetic =>
                \E p \in ParamSets : now <= gates_open_at' + p.request_ttl_sec ]_hvars
  <2> SUFFICES ASSUME Accounts, RequestsNearOpenGates, [HNext]_hvars,
                      total_synthetic' > total_synthetic
               PROVE  \E p \in ParamSets : now <= gates_open_at' + p.request_ttl_sec
    OBVIOUS
  <2>0. TypeOK /\ [Next]_vars
    BY DEF Accounts, HNext, hvars
  <2>1. PICK g \in Nat : g = gates_open_at' /\ gates_open_at <= g
    <3>1. TypeOK'
      BY <2>0, AccountsNext DEF Accounts
    <3> QED
      BY <2>0, <3>1, GatesNext
  <2>2. PICK s \in Slots :
            mint_request[s] # NoRequest /\ now <= mint_request[s].deadline
    BY <2>0, SupplyGrowsByRequest
  <2>3. PICK p \in ParamSets :
            mint_request[s].deadline <= gates_open_at + p.request_ttl_sec
    BY <2>2 DEF RequestsNearOpenGates
  <2>4. /\ now \in Nat /\ gates_open_at \in Nat /\ p.request_ttl_sec \in Nat
        /\ mint_request[s].deadline \in Nat
    <3>1. mint_request[s] \in MintRequests
      BY <2>0, <2>2 DEF TypeOK
    <3> QED
      BY <2>0, <3>1, ParamAssumption
      DEF TypeOK, RequestsNearOpenGates, ParamRecords, MintRequests
  <2>5. now <= g + p.request_ttl_sec
    BY <2>1, <2>2, <2>3, <2>4
  <2> QED
    BY <2>1, <2>5
<1>2. Accounts => TypeOK
  BY DEF Accounts
<1>3. TypeOK /\ TypeOK' /\ RequestsNearOpenGates /\ [HNext]_hvars
          => RequestsNearOpenGates'
  BY GatesNext
<1>4. [HNext]_hvars => [Next]_vars
  BY DEF HNext, hvars
<1>5. HSpec => [][total_synthetic' > total_synthetic =>
                \E p \in ParamSets : now <= gates_open_at' + p.request_ttl_sec]_hvars
  BY AccountsInit, AccountsNext, GatesInit, <1>1, <1>2, <1>3, <1>4, PTL DEF HSpec
<1> QED
  BY <1>5 DEF IssuanceNearOpenGates

-----------------------------------------------------------------------------
(* Cover at the current price. *)

LEMMA MintKeepsCover ==
    ASSUME Accounts, Covered, NEW u \in Users, NEW n \in Nonces,
           NEW venue_id \in Venues, NEW filled \in Fills,
           MintConfirm(u, n, venue_id, filled)
    PROVE  Covered' /\ total_synthetic' >= total_synthetic
<1> DEFINE r == mint_request[<<u, n>>]
           c == r.collateral_amount
           eff == Settled(NotionalNow(c), r.quoted_notional)
           net == NetMinted(eff)
           price == oracle.price
<1>0. TypeOK
  BY DEF Accounts
<1>1. /\ c \in Nat /\ eff \in Nat /\ net \in Nat
      /\ eff * ScaleDown <= c * price * ScaleUp
  BY <1>0, MintConfirmFacts
<1>2. /\ total_synthetic' = total_synthetic + net
      /\ total_collateral' = total_collateral + c
      /\ oracle' = oracle
  BY DEF MintConfirm, environment
<1> HIDE DEF r, c, eff
<1>3. /\ Gross(eff) \in Nat /\ net <= Gross(eff)
      /\ Gross(eff) * params.collateral_ratio_bps <= eff * BPS
  BY <1>0, <1>1, NetMintedBound
<1> HIDE DEF net
<1>4. price \in Nat /\ params.collateral_ratio_bps \in Nat \ {0}
  BY <1>0, PriceType, ParamTypes
<1>5. price * BPS <= price * params.collateral_ratio_bps
  <2>1. BPS <= params.collateral_ratio_bps
    BY <1>0, ParamTypes DEF ValidConfig
  <2>2. BPS * price <= params.collateral_ratio_bps * price
    BY <1>4, <2>1, ProductMonotone DEF BPS
  <2> QED
    BY <1>4, <2>2 DEF BPS
<1>6. net * ScaleDown <= c * price * ScaleUp
  BY <1>1, <1>3, <1>4, <1>5, MintArithmetic
<1>7. /\ (total_synthetic + net) * ScaleDown = total_synthetic * ScaleDown + net * ScaleDown
      /\ (total_collateral + c) * price * ScaleUp
           = total_collateral * price * ScaleUp + c * price * ScaleUp
      /\ total_synthetic * ScaleDown \in Int /\ net * ScaleDown \in Int
      /\ total_collateral * price * ScaleUp \in Int /\ c * price * ScaleUp \in Int
  BY <1>0, <1>1, <1>4, ScaleAssumption DEF TypeOK
<1>8. total_synthetic' * ScaleDown <= total_collateral' * price * ScaleUp
  BY <1>2, <1>6, <1>7 DEF Covered
<1> QED
  BY <1>0, <1>1, <1>2, <1>8 DEF Covered, TypeOK

LEMMA RedeemKeepsCover ==
    ASSUME Accounts, Covered, NEW u \in Users, NEW n \in Nonces,
           NEW unwound \in Fills, RedeemConfirm(u, n, unwound)
    PROVE  /\ Covered'
           /\ total_collateral' * total_synthetic >= total_collateral * total_synthetic'
<1> DEFINE r == redeem_request[<<u, n>>]
           a == r.synthetic_amount
           p == Settled(CollateralNow(NetRedeemed(a)), r.quoted_collateral)
           S == total_synthetic
           C == total_collateral
           unit == oracle.price * ScaleUp
           sd == ScaleDown
<1>0. TypeOK
  BY DEF Accounts
<1>1. /\ a \in Nat /\ p \in Nat
      /\ p * oracle.price * ScaleUp <= a * ScaleDown
  BY <1>0, RedeemConfirmFacts
<1>2. total_synthetic' = S - a /\ total_collateral' = C - p /\ oracle' = oracle
  BY DEF RedeemConfirm, environment
<1> HIDE DEF r, a, p
<1>3. /\ S \in Nat /\ C \in Nat /\ unit \in Nat \ {0} /\ sd \in Nat
  BY <1>0, PriceType, ScaleAssumption DEF TypeOK
<1>4. p * unit <= a * sd
  BY <1>0, <1>1, PriceType, ScaleAssumption
<1>5. S * sd <= C * unit
  BY <1>0, PriceType, ScaleAssumption DEF Covered, TypeOK
<1>6. oracle'.price = oracle.price
  BY <1>2
<1>7. total_collateral' * oracle'.price * ScaleUp = (C - p) * unit
  BY <1>1, <1>2, <1>3, <1>6, <1>0, PriceType, ScaleAssumption DEF TypeOK
<1>8. total_synthetic' * ScaleDown = (S - a) * sd
  BY <1>2
<1> HIDE DEF S, C, unit, sd
<1>9. (S - a) * sd <= (C - p) * unit
  <2>1. (S - a) * sd = S * sd - a * sd /\ (C - p) * unit = C * unit - p * unit
    BY <1>1, <1>3
  <2>2. S * sd \in Int /\ a * sd \in Int /\ C * unit \in Int /\ p * unit \in Int
    BY <1>1, <1>3
  <2> QED
    BY <1>4, <1>5, <2>1, <2>2
<1>10. p * S <= a * C
  <2>1. (p * unit) * S <= (a * sd) * S
    BY <1>1, <1>3, <1>4, ProductMonotone
  <2>2. (S * sd) * a <= (C * unit) * a
    BY <1>1, <1>3, <1>5, ProductMonotone
  <2>3. /\ (p * S) * unit = (p * unit) * S
        /\ (a * sd) * S = (S * sd) * a
        /\ (a * C) * unit = (C * unit) * a
        /\ p * S \in Int /\ a * C \in Int
    BY <1>1, <1>3
  <2>4. /\ (p * unit) * S \in Int /\ (S * sd) * a \in Int /\ (C * unit) * a \in Int
    BY <1>1, <1>3
  <2>5. (p * S) * unit <= (a * C) * unit
    BY <2>1, <2>2, <2>3, <2>4
  <2> QED
    BY <1>3, <2>3, <2>5, CancelFactor
<1>11. (C - p) * S >= C * (S - a)
  <2>1. (C - p) * S = C * S - p * S /\ C * (S - a) = C * S - a * C
    BY <1>1, <1>3
  <2>2. C * S \in Int /\ p * S \in Int /\ a * C \in Int
    BY <1>1, <1>3
  <2> QED
    BY <1>10, <2>1, <2>2
<1>12. Covered'
  BY <1>7, <1>8, <1>9 DEF Covered
<1> QED
  BY <1>2, <1>11, <1>12 DEF S, C

LEMMA StepKeepsCover ==
    ASSUME Accounts, [Next]_vars
    PROVE  /\ Covered /\ oracle' = oracle => Covered'
           /\ Covered /\ total_synthetic' < total_synthetic =>
                  total_collateral' * total_synthetic
                      >= total_collateral * total_synthetic'
<1>0. total_synthetic \in Nat
  BY DEF Accounts, TypeOK
<1>1. ASSUME Covered, NEW u \in Users, NEW n \in Nonces, NEW v \in Venues,
             NEW f \in Fills, MintConfirm(u, n, v, f)
      PROVE  Covered' /\ ~ (total_synthetic' < total_synthetic)
  <2>1. Covered' /\ total_synthetic' >= total_synthetic
    BY <1>1, MintKeepsCover
  <2>2. total_synthetic' \in Int
    BY <1>1, AccountsNext DEF Accounts, TypeOK
  <2> QED
    BY <1>0, <2>1, <2>2
<1>2. CASE \E u \in Users, n \in Nonces : KeeperStep(u, n)
  BY <1>1, <1>2, RedeemKeepsCover DEF KeeperStep
<1>3. CASE ~ \E u \in Users, n \in Nonces : KeeperStep(u, n)
  <2>1. UNCHANGED <<total_collateral, total_synthetic>>
    BY <1>3, TotalsUnchanged
  <2> QED
    BY <1>0, <2>1 DEF Covered
<1> QED
  BY <1>2, <1>3

\* No instruction uncovers a covered book: only the price does.
THEOREM InstructionsKeepCover == Spec => OnlyPriceUncovers
<1>1. Accounts /\ [Next]_vars => [Covered /\ oracle' = oracle => Covered']_vars
  BY StepKeepsCover
<1> QED
  BY AccountsInit, AccountsNext, <1>1, PTL DEF Spec, OnlyPriceUncovers

\* A redemption from a covered book never leaves the remaining holders with
\* less collateral per unit.
THEOREM RedemptionsNeverDilute == Spec => RedemptionNeverDilutes
<1>1. Accounts /\ [Next]_vars =>
          [ Covered /\ total_synthetic' < total_synthetic =>
                total_collateral' * total_synthetic
                    >= total_collateral * total_synthetic' ]_vars
  BY StepKeepsCover
<1> QED
  BY AccountsInit, AccountsNext, <1>1, PTL DEF Spec, RedemptionNeverDilutes

-----------------------------------------------------------------------------
(* What a user owns, when one request changes. *)

\* A change of one request changes what its user has locked by the difference,
\* and what nobody else has.
LEMMA LockedByUpdate ==
    ASSUME NEW f \in [Slots -> Nat], NEW g \in [Slots -> Nat],
           NEW u \in Users, NEW n \in Nonces,
           \A s \in Slots \ {<<u, n>>} : g[s] = f[s]
    PROVE  /\ LockedBy(u, f) \in Nat /\ LockedBy(u, g) \in Nat
           /\ LockedBy(u, g) = LockedBy(u, f) - f[<<u, n>>] + g[<<u, n>>]
           /\ \A v \in Users \ {u} : LockedBy(v, g) = LockedBy(v, f)
<1> DEFINE Row(h) == [m \in Nonces |-> h[<<u, m>>]]
<1>0. \A v \in Users, m \in Nonces : <<v, m>> \in Slots
  BY DEF Slots
<1>1. IsFiniteSet(Nonces)
  BY IssuanceAssumption
<1>2. Row(f) \in [Nonces -> Nat] /\ Row(g) \in [Nonces -> Nat]
  BY <1>0
<1>3. \A m \in Nonces \ {n} : Row(g)[m] = Row(f)[m]
  BY <1>0
<1>4. Row(f)[n] = f[<<u, n>>] /\ Row(g)[n] = g[<<u, n>>]
  OBVIOUS
<1>5. LockedBy(u, f) = Sum(Row(f)) /\ LockedBy(u, g) = Sum(Row(g))
  BY DEF LockedBy
<1>6. ASSUME NEW v \in Users \ {u} PROVE LockedBy(v, g) = LockedBy(v, f)
  <2>1. [m \in Nonces |-> g[<<v, m>>]] = [m \in Nonces |-> f[<<v, m>>]]
    BY <1>0
  <2> QED
    BY <2>1 DEF LockedBy
<1> HIDE DEF Row
<1>7. Sum(Row(f)) \in Nat /\ Sum(Row(g)) \in Nat
  BY <1>1, <1>2, SumType
<1>8. Sum(Row(g)) = Sum(Row(f)) - Row(f)[n] + Row(g)[n]
  BY <1>1, <1>2, <1>3, SumUpdate
<1> QED
  BY <1>4, <1>5, <1>6, <1>7, <1>8

\* What users own is a natural number for each.
LEMMA OwnedTypes ==
    ASSUME TypeOK
    PROVE  /\ CollateralOwned \in [Users -> Nat]
           /\ SyntheticOwned \in [Users -> Nat]
<1>1. ASSUME NEW h \in [Slots -> Nat], NEW u \in Users PROVE LockedBy(u, h) \in Nat
  <2>1. [n \in Nonces |-> h[<<u, n>>]] \in [Nonces -> Nat]
    BY DEF Slots
  <2>2. IsFiniteSet(Nonces)
    BY IssuanceAssumption
  <2> QED
    BY <2>1, <2>2, SumType DEF LockedBy
<1> QED
  BY <1>1, EscrowTypes DEF TypeOK, CollateralOwned, SyntheticOwned

\* No request locks more than its user has locked altogether.
LEMMA LockedByBound ==
    ASSUME NEW f \in [Slots -> Nat], NEW u \in Users, NEW n \in Nonces
    PROVE  f[<<u, n>>] <= LockedBy(u, f)
<1> DEFINE row == [m \in Nonces |-> f[<<u, m>>]]
<1>1. row \in [Nonces -> Nat] /\ row[n] = f[<<u, n>>] /\ IsFiniteSet(Nonces)
  BY IssuanceAssumption DEF Slots
<1>2. LockedBy(u, f) = Sum(row)
  BY DEF LockedBy
<1> HIDE DEF row
<1> QED
  BY <1>1, <1>2, SumBound

\* The user's account and the user's request of one slot change together: what
\* the user owns changes by the sum of both, what others own does not.
LEMMA CollateralOwnedUpdate ==
    ASSUME TypeOK, NEW u \in Users, NEW n \in Nonces, NEW x \in Nat, NEW e \in Nat,
           collateral_of' = [collateral_of EXCEPT ![u] = x],
           MintEscrows' = [MintEscrows EXCEPT ![<<u, n>>] = e]
    PROVE  /\ CollateralOwned' = [CollateralOwned EXCEPT
                  ![u] = @ + (x - collateral_of[u]) + (e - MintEscrows[<<u, n>>])]
           /\ MintEscrows[<<u, n>>] <= CollateralOwned[u]
<1> DEFINE f == MintEscrows
           g == MintEscrows'
           b == collateral_of
           c == collateral_of'
           s == <<u, n>>
<1>1. f \in [Slots -> Nat] /\ g \in [Slots -> Nat]
  BY EscrowTypes
<1>2. b \in [Users -> Nat] /\ c \in [Users -> Nat] /\ c = [b EXCEPT ![u] = x]
  BY DEF TypeOK
<1>3. s \in Slots
  BY DEF Slots
<1>4. g[s] = e /\ \A t \in Slots \ {s} : g[t] = f[t]
  BY <1>1, <1>3
<1>5. /\ CollateralOwned = [v \in Users |-> b[v] + LockedBy(v, f)]
      /\ CollateralOwned' = [v \in Users |-> c[v] + LockedBy(v, g)]
  BY DEF CollateralOwned, LockedBy
<1> HIDE DEF f, g, b, c
<1>6. /\ LockedBy(u, f) \in Nat /\ LockedBy(u, g) \in Nat
      /\ LockedBy(u, g) = LockedBy(u, f) - f[s] + g[s]
      /\ \A v \in Users \ {u} : LockedBy(v, g) = LockedBy(v, f)
      /\ f[s] <= LockedBy(u, f)
  <2>1. ASSUME NEW F \in [Slots -> Nat], NEW G \in [Slots -> Nat],
               \A t \in Slots \ {<<u, n>>} : G[t] = F[t]
        PROVE  /\ LockedBy(u, F) \in Nat /\ LockedBy(u, G) \in Nat
               /\ LockedBy(u, G) = LockedBy(u, F) - F[<<u, n>>] + G[<<u, n>>]
               /\ \A v \in Users \ {u} : LockedBy(v, G) = LockedBy(v, F)
    BY <2>1, LockedByUpdate
  <2> QED
    BY <1>1, <1>4, <2>1, LockedByBound, Zenon
<1>7. f[s] <= b[u] + LockedBy(u, f)
  BY <1>1, <1>2, <1>3, <1>6
<1>8. CollateralOwned[u] = b[u] + LockedBy(u, f)
  BY <1>5
<1>9. c[u] + LockedBy(u, g) = CollateralOwned[u] + (x - b[u]) + (e - f[s])
  BY <1>1, <1>2, <1>3, <1>4, <1>6, <1>8
<1>10. \A v \in Users \ {u} : c[v] + LockedBy(v, g) = CollateralOwned[v]
  BY <1>2, <1>5, <1>6
<1>11. CollateralOwned' = [CollateralOwned EXCEPT ![u] = @ + (x - b[u]) + (e - f[s])]
  BY <1>5, <1>9, <1>10
<1> QED
  BY <1>7, <1>8, <1>11 DEF b, f

LEMMA SyntheticOwnedUpdate ==
    ASSUME TypeOK, NEW u \in Users, NEW n \in Nonces, NEW x \in Nat, NEW e \in Nat,
           synthetic_of' = [synthetic_of EXCEPT ![u] = x],
           RedeemEscrows' = [RedeemEscrows EXCEPT ![<<u, n>>] = e]
    PROVE  /\ SyntheticOwned' = [SyntheticOwned EXCEPT
                  ![u] = @ + (x - synthetic_of[u]) + (e - RedeemEscrows[<<u, n>>])]
           /\ RedeemEscrows[<<u, n>>] <= SyntheticOwned[u]
<1> DEFINE f == RedeemEscrows
           g == RedeemEscrows'
           b == synthetic_of
           c == synthetic_of'
           s == <<u, n>>
<1>1. f \in [Slots -> Nat] /\ g \in [Slots -> Nat]
  BY EscrowTypes
<1>2. b \in [Users -> Nat] /\ c \in [Users -> Nat] /\ c = [b EXCEPT ![u] = x]
  BY DEF TypeOK
<1>3. s \in Slots
  BY DEF Slots
<1>4. g[s] = e /\ \A t \in Slots \ {s} : g[t] = f[t]
  BY <1>1, <1>3
<1>5. /\ SyntheticOwned = [v \in Users |-> b[v] + LockedBy(v, f)]
      /\ SyntheticOwned' = [v \in Users |-> c[v] + LockedBy(v, g)]
  BY DEF SyntheticOwned, LockedBy
<1> HIDE DEF f, g, b, c
<1>6. /\ LockedBy(u, f) \in Nat /\ LockedBy(u, g) \in Nat
      /\ LockedBy(u, g) = LockedBy(u, f) - f[s] + g[s]
      /\ \A v \in Users \ {u} : LockedBy(v, g) = LockedBy(v, f)
      /\ f[s] <= LockedBy(u, f)
  <2>1. ASSUME NEW F \in [Slots -> Nat], NEW G \in [Slots -> Nat],
               \A t \in Slots \ {<<u, n>>} : G[t] = F[t]
        PROVE  /\ LockedBy(u, F) \in Nat /\ LockedBy(u, G) \in Nat
               /\ LockedBy(u, G) = LockedBy(u, F) - F[<<u, n>>] + G[<<u, n>>]
               /\ \A v \in Users \ {u} : LockedBy(v, G) = LockedBy(v, F)
    BY <2>1, LockedByUpdate
  <2> QED
    BY <1>1, <1>4, <2>1, LockedByBound, Zenon
<1>7. f[s] <= b[u] + LockedBy(u, f)
  BY <1>1, <1>2, <1>3, <1>6
<1>8. SyntheticOwned[u] = b[u] + LockedBy(u, f)
  BY <1>5
<1>9. c[u] + LockedBy(u, g) = SyntheticOwned[u] + (x - b[u]) + (e - f[s])
  BY <1>1, <1>2, <1>3, <1>4, <1>6, <1>8
<1>10. \A v \in Users \ {u} : c[v] + LockedBy(v, g) = SyntheticOwned[v]
  BY <1>2, <1>5, <1>6
<1>11. SyntheticOwned' = [SyntheticOwned EXCEPT ![u] = @ + (x - b[u]) + (e - f[s])]
  BY <1>5, <1>9, <1>10
<1> QED
  BY <1>7, <1>8, <1>11 DEF b, f

\* A request that closes releases what it locked; nothing else changes.
LEMMA MintEscrowClosed ==
    ASSUME TypeOK, NEW s \in Slots, mint_request[s] # NoRequest,
           mint_request' = [mint_request EXCEPT ![s] = NoRequest]
    PROVE  /\ MintEscrows' = [MintEscrows EXCEPT ![s] = 0]
           /\ MintEscrows[s] = mint_request[s].collateral_amount
           /\ mint_request[s].collateral_amount \in Nat
BY DEF MintEscrows, TypeOK, MintRequests

LEMMA RedeemEscrowClosed ==
    ASSUME TypeOK, NEW s \in Slots, redeem_request[s] # NoRequest,
           redeem_request' = [redeem_request EXCEPT ![s] = NoRequest]
    PROVE  /\ RedeemEscrows' = [RedeemEscrows EXCEPT ![s] = 0]
           /\ RedeemEscrows[s] = redeem_request[s].synthetic_amount
           /\ redeem_request[s].synthetic_amount \in Nat
BY DEF RedeemEscrows, TypeOK, RedeemRequests

-----------------------------------------------------------------------------
(* The handlers, one by one. *)

\* What the abstract exchange sees.
seen == <<oracle.price, CollateralOwned, SyntheticOwned, total_collateral, total_synthetic>>

\* Requests and cancellations move a user's own tokens in or out of escrow.
LEMMA MintRequestUnseen ==
    ASSUME TypeOK, NEW u \in Users, NEW n \in Nonces,
           NEW amount \in CollateralAmounts, NEW min_out \in MinOuts,
           MintRequest(u, n, amount, min_out)
    PROVE  UNCHANGED seen
<1> DEFINE s == <<u, n>>
           r == [ collateral_amount |-> amount,
                  quoted_notional |-> NotionalNow(amount),
                  min_synthetic_out |-> min_out,
                  deadline |-> now + params.request_ttl_sec ]
<1>0. s \in Slots /\ amount \in Nat /\ min_out \in Nat
  BY IssuanceAssumption DEF Slots
<1>1. r \in MintRequests
  <2>1. NotionalNow(amount) \in Nat
    BY <1>0, PriceType, NotionalRoundsDown DEF NotionalNow
  <2> QED
    BY <1>0, <2>1, ParamTypes DEF MintRequests, TypeOK
<1>2. mint_request[s] = NoRequest /\ mint_request' = [mint_request EXCEPT ![s] = r]
  BY DEF MintRequest
<1>3. r.collateral_amount = amount
  OBVIOUS
<1> HIDE DEF r
<1>4. MintEscrows' = [MintEscrows EXCEPT ![s] = amount] /\ MintEscrows[s] = 0
  BY <1>0, <1>1, <1>2, <1>3, IssuanceAssumption DEF MintEscrows, TypeOK
<1>5. /\ collateral_of[u] - amount \in Nat
      /\ collateral_of' = [collateral_of EXCEPT ![u] = collateral_of[u] - amount]
  BY <1>0 DEF MintRequest, TypeOK
<1>6. CollateralOwned' = [CollateralOwned EXCEPT
          ![u] = @ + ((collateral_of[u] - amount) - collateral_of[u]) + (amount - 0)]
  BY <1>0, <1>4, <1>5, CollateralOwnedUpdate
<1>7. CollateralOwned' = CollateralOwned
  BY <1>0, <1>6, OwnedTypes DEF TypeOK
<1>8. UNCHANGED <<oracle, synthetic_of, redeem_request, total_collateral, total_synthetic>>
  BY DEF MintRequest, environment
<1>9. SyntheticOwned' = SyntheticOwned
  BY <1>8 DEF SyntheticOwned, LockedBy, RedeemEscrows
<1> QED
  BY <1>7, <1>8, <1>9 DEF seen

LEMMA MintCancelUnseen ==
    ASSUME TypeOK, NEW u \in Users, NEW n \in Nonces, MintCancel(u, n)
    PROVE  UNCHANGED seen
<1> DEFINE s == <<u, n>>
           amount == mint_request[s].collateral_amount
<1>0. s \in Slots
  BY DEF Slots
<1>1. /\ MintEscrows' = [MintEscrows EXCEPT ![s] = 0]
      /\ MintEscrows[s] = amount /\ amount \in Nat
  BY <1>0, MintEscrowClosed DEF MintCancel
<1>2. collateral_of' = [collateral_of EXCEPT ![u] = collateral_of[u] + amount]
  BY DEF MintCancel
<1>3. /\ UNCHANGED <<oracle, synthetic_of, redeem_request, total_collateral, total_synthetic>>
  BY DEF MintCancel, environment
<1> HIDE DEF amount
<1>4. collateral_of[u] \in Nat /\ collateral_of[u] + amount \in Nat
  BY <1>1 DEF TypeOK
<1>5. CollateralOwned' = [CollateralOwned EXCEPT
          ![u] = @ + ((collateral_of[u] + amount) - collateral_of[u]) + (0 - amount)]
  BY <1>1, <1>2, <1>4, CollateralOwnedUpdate
<1>6. CollateralOwned' = CollateralOwned
  BY <1>1, <1>4, <1>5, OwnedTypes
<1>7. SyntheticOwned' = SyntheticOwned
  BY <1>3 DEF SyntheticOwned, LockedBy, RedeemEscrows
<1> QED
  BY <1>3, <1>6, <1>7 DEF seen

LEMMA RedeemRequestUnseen ==
    ASSUME TypeOK, NEW u \in Users, NEW n \in Nonces,
           NEW amount \in SyntheticAmounts, NEW min_out \in MinOuts,
           RedeemRequest(u, n, amount, min_out)
    PROVE  UNCHANGED seen
<1> DEFINE s == <<u, n>>
           r == [ synthetic_amount |-> amount,
                  quoted_collateral |-> CollateralNow(NetRedeemed(amount)),
                  min_collateral_out |-> min_out, created_at |-> now,
                  deadline |-> now + params.request_ttl_sec ]
<1>0. s \in Slots /\ amount \in Nat /\ min_out \in Nat
  BY IssuanceAssumption DEF Slots
<1>1. r \in RedeemRequests
  <2>1. NetRedeemed(amount) \in Nat
    BY <1>0, NetRedeemedBound DEF RedeemRequest
  <2>2. CollateralNow(NetRedeemed(amount)) \in Nat
    BY <2>1, PriceType, CollateralRoundsDown DEF CollateralNow
  <2> QED
    BY <1>0, <2>2, ParamTypes DEF RedeemRequests, TypeOK
<1>2. redeem_request[s] = NoRequest /\ redeem_request' = [redeem_request EXCEPT ![s] = r]
  BY DEF RedeemRequest
<1>3. r.synthetic_amount = amount
  OBVIOUS
<1> HIDE DEF r
<1>4. RedeemEscrows' = [RedeemEscrows EXCEPT ![s] = amount] /\ RedeemEscrows[s] = 0
  BY <1>0, <1>1, <1>2, <1>3, IssuanceAssumption DEF RedeemEscrows, TypeOK
<1>5. /\ synthetic_of[u] - amount \in Nat
      /\ synthetic_of' = [synthetic_of EXCEPT ![u] = synthetic_of[u] - amount]
  BY <1>0 DEF RedeemRequest, TypeOK
<1>6. SyntheticOwned' = [SyntheticOwned EXCEPT
          ![u] = @ + ((synthetic_of[u] - amount) - synthetic_of[u]) + (amount - 0)]
  BY <1>0, <1>4, <1>5, SyntheticOwnedUpdate
<1>7. SyntheticOwned' = SyntheticOwned
  BY <1>0, <1>6, OwnedTypes DEF TypeOK
<1>8. UNCHANGED <<oracle, collateral_of, mint_request, total_collateral, total_synthetic>>
  BY DEF RedeemRequest, environment
<1>9. CollateralOwned' = CollateralOwned
  BY <1>8 DEF CollateralOwned, LockedBy, MintEscrows
<1> QED
  BY <1>7, <1>8, <1>9 DEF seen

LEMMA RedeemCancelUnseen ==
    ASSUME TypeOK, NEW u \in Users, NEW n \in Nonces, RedeemCancel(u, n)
    PROVE  UNCHANGED seen
<1> DEFINE s == <<u, n>>
           amount == redeem_request[s].synthetic_amount
<1>0. s \in Slots
  BY DEF Slots
<1>1. /\ RedeemEscrows' = [RedeemEscrows EXCEPT ![s] = 0]
      /\ RedeemEscrows[s] = amount /\ amount \in Nat
  BY <1>0, RedeemEscrowClosed DEF RedeemCancel
<1>2. synthetic_of' = [synthetic_of EXCEPT ![u] = synthetic_of[u] + amount]
  BY DEF RedeemCancel
<1>3. UNCHANGED <<oracle, collateral_of, mint_request, total_collateral, total_synthetic>>
  BY DEF RedeemCancel, environment
<1> HIDE DEF amount
<1>4. synthetic_of[u] \in Nat /\ synthetic_of[u] + amount \in Nat
  BY <1>1 DEF TypeOK
<1>5. SyntheticOwned' = [SyntheticOwned EXCEPT
          ![u] = @ + ((synthetic_of[u] + amount) - synthetic_of[u]) + (0 - amount)]
  BY <1>1, <1>2, <1>4, SyntheticOwnedUpdate
<1>6. SyntheticOwned' = SyntheticOwned
  BY <1>1, <1>4, <1>5, OwnedTypes
<1>7. CollateralOwned' = CollateralOwned
  BY <1>3 DEF CollateralOwned, LockedBy, MintEscrows
<1> QED
  BY <1>3, <1>6, <1>7 DEF seen

\* A confirmed mint is an exchange of the collateral under the request for what
\* the current price and ratio allow.
LEMMA MintConfirmIssues ==
    ASSUME TypeOK, NEW u \in Users, NEW n \in Nonces, NEW venue_id, NEW filled,
           MintConfirm(u, n, venue_id, filled)
    PROVE  Market!Issue(u, total_collateral' - total_collateral,
                        total_synthetic' - total_synthetic)
<1> DEFINE s == <<u, n>>
           c == mint_request[s].collateral_amount
           eff == Settled(NotionalNow(c), mint_request[s].quoted_notional)
           net == NetMinted(eff)
           ratio == params.collateral_ratio_bps
           price == oracle.price
<1>0. s \in Slots
  BY DEF Slots
<1>1. /\ c \in Nat /\ eff \in Nat /\ net \in Nat \ {0}
      /\ eff * ScaleDown <= c * price * ScaleUp
  BY MintConfirmFacts
<1>2. /\ total_collateral' = total_collateral + c
      /\ total_synthetic' = total_synthetic + net
      /\ synthetic_of' = [synthetic_of EXCEPT ![u] = synthetic_of[u] + net]
      /\ UNCHANGED <<oracle, collateral_of, redeem_request>>
      /\ eff > 0
  BY DEF MintConfirm, environment
<1>3. /\ MintEscrows' = [MintEscrows EXCEPT ![s] = 0] /\ MintEscrows[s] = c
  BY <1>0, MintEscrowClosed DEF MintConfirm
<1> HIDE DEF c, eff
<1>4. /\ Gross(eff) \in Nat /\ net <= Gross(eff) /\ Gross(eff) * ratio <= eff * BPS
  BY <1>1, NetMintedBound
<1> HIDE DEF net
<1>5. price \in Nat \ {0} /\ ratio \in Nat \ {0} /\ price = oracle'.price
  BY <1>2, PriceType, ParamTypes
<1>6. c > 0
  <2>1. CASE c = 0
    <3>1. c * price * ScaleUp = 0
      BY <1>5, <2>1, ScaleAssumption
    <3>2. eff * ScaleDown > 0
      BY <1>1, <1>2, ScaleAssumption
    <3>3. eff * ScaleDown \in Nat
      BY <1>1, ScaleAssumption
    <3> QED
      BY <1>1, <3>1, <3>2, <3>3
  <2> QED
    BY <1>1, <2>1
<1>7. net * ratio * ScaleDown <= c * BPS * price * ScaleUp
  <2> DEFINE gross == Gross(eff)
             worth == c * price * ScaleUp
             sd == ScaleDown
  <2>1. worth \in Nat /\ sd \in Nat /\ BPS \in Nat /\ gross \in Nat
    BY <1>1, <1>4, <1>5, ScaleAssumption DEF BPS
  <2>2. eff * sd <= worth /\ net <= gross /\ gross * ratio <= eff * BPS
    BY <1>1, <1>4
  <2>3. net * ratio * sd = net * (ratio * sd)
    BY <1>1, <1>5, <2>1
  <2>4. c * BPS * price * ScaleUp = worth * BPS
    BY <1>1, <1>5, ScaleAssumption DEF BPS
  <2> HIDE DEF gross, worth, sd, ratio, BPS
  <2>5. ratio \in Nat
    BY <1>5
  <2>6. net * (ratio * sd) <= gross * (ratio * sd) /\ gross * (ratio * sd) \in Nat
    BY <1>1, <2>1, <2>2, <2>5, ProductMonotone
  <2>7. (gross * ratio) * sd <= (eff * BPS) * sd
    BY <1>1, <2>1, <2>2, <2>5, ProductMonotone
  <2>8. (eff * sd) * BPS <= worth * BPS
    BY <1>1, <2>1, <2>2, ProductMonotone
  <2>9. /\ (gross * ratio) * sd = gross * (ratio * sd)
        /\ (eff * BPS) * sd = (eff * sd) * BPS
        /\ net * (ratio * sd) \in Int /\ (eff * sd) * BPS \in Int /\ worth * BPS \in Int
    BY <1>1, <2>1, <2>5
  <2> DEFINE x1 == net * (ratio * sd)
             x2 == gross * (ratio * sd)
             x3 == (eff * sd) * BPS
             x4 == worth * BPS
  <2>10. x1 <= x2 /\ x2 <= x3 /\ x3 <= x4
    BY <2>6, <2>7, <2>8, <2>9
  <2>11. x1 \in Int /\ x2 \in Int /\ x3 \in Int /\ x4 \in Int
    BY <2>6, <2>9
  <2>12. x1 <= x4
    <3> HIDE DEF x1, x2, x3, x4
    <3> QED
      BY <2>10, <2>11
  <2> QED
    BY <2>3, <2>4, <2>12 DEF sd
<1>8. /\ CollateralOwned' = [CollateralOwned EXCEPT ![u] = @ - c]
      /\ c <= CollateralOwned[u]
  <2>1. collateral_of[u] \in Nat /\ collateral_of' = [collateral_of EXCEPT ![u] = collateral_of[u]]
    BY <1>2 DEF TypeOK
  <2>2. /\ CollateralOwned' = [CollateralOwned EXCEPT
              ![u] = @ + (collateral_of[u] - collateral_of[u]) + (0 - MintEscrows[<<u, n>>])]
        /\ MintEscrows[<<u, n>>] <= CollateralOwned[u]
    BY <1>3, <2>1, CollateralOwnedUpdate
  <2>3. CollateralOwned \in [Users -> Nat]
    BY OwnedTypes
  <2>4. CollateralOwned[u] + (collateral_of[u] - collateral_of[u])
            + (0 - MintEscrows[<<u, n>>]) = CollateralOwned[u] - c
    BY <1>1, <1>3, <2>1, <2>3
  <2> QED
    BY <1>3, <2>2, <2>3, <2>4
<1>9. SyntheticOwned' = [SyntheticOwned EXCEPT ![u] = @ + net]
  <2>1. synthetic_of[u] \in Nat /\ synthetic_of[u] + net \in Nat
    BY <1>1 DEF TypeOK
  <2>2. RedeemEscrows' = [RedeemEscrows EXCEPT ![<<u, n>>] = RedeemEscrows[<<u, n>>]]
    BY <1>2 DEF RedeemEscrows
  <2>3. RedeemEscrows[<<u, n>>] \in Nat
    BY <1>0, EscrowTypes
  <2>4. SyntheticOwned' = [SyntheticOwned EXCEPT
            ![u] = @ + ((synthetic_of[u] + net) - synthetic_of[u])
                     + (RedeemEscrows[<<u, n>>] - RedeemEscrows[<<u, n>>])]
    BY <1>2, <2>1, <2>2, <2>3, SyntheticOwnedUpdate
  <2>5. SyntheticOwned \in [Users -> Nat]
    BY OwnedTypes
  <2>6. SyntheticOwned[u] + ((synthetic_of[u] + net) - synthetic_of[u])
            + (RedeemEscrows[<<u, n>>] - RedeemEscrows[<<u, n>>]) = SyntheticOwned[u] + net
    BY <1>1, <2>1, <2>3, <2>5
  <2> QED
    BY <2>4, <2>5, <2>6
<1>10. total_collateral' - total_collateral = c /\ total_synthetic' - total_synthetic = net
  BY <1>1, <1>2 DEF TypeOK
<1>11. \E q \in { p.collateral_ratio_bps : p \in ParamSets } :
           net * q * ScaleDown <= c * BPS * price * ScaleUp
  BY <1>7 DEF TypeOK
<1>12. total_collateral' = total_collateral + c /\ total_synthetic' = total_synthetic + net
  BY <1>2
<1>13. Market!Issue(u, c, net)
  BY <1>1, <1>5, <1>6, <1>8, <1>9, <1>11, <1>12 DEF Market!Issue, Market!BPS, BPS
<1> QED
  BY <1>10, <1>13

\* A confirmed redemption is an exchange of the synthetic under the request for
\* no more than it is worth at the current price.
LEMMA RedeemConfirmRedeems ==
    ASSUME TypeOK, NEW u \in Users, NEW n \in Nonces, NEW unwound,
           RedeemConfirm(u, n, unwound)
    PROVE  Market!Redeem(u, total_synthetic - total_synthetic',
                         total_collateral - total_collateral')
<1> DEFINE s == <<u, n>>
           a == redeem_request[s].synthetic_amount
           p == Settled(CollateralNow(NetRedeemed(a)), redeem_request[s].quoted_collateral)
           price == oracle.price
<1>0. s \in Slots
  BY DEF Slots
<1>1. /\ a \in Nat /\ p \in Nat /\ p <= total_collateral
      /\ p * price * ScaleUp <= a * ScaleDown
  BY RedeemConfirmFacts
<1>2. /\ total_collateral' = total_collateral - p
      /\ total_synthetic' = total_synthetic - a
      /\ collateral_of' = [collateral_of EXCEPT ![u] = collateral_of[u] + p]
      /\ UNCHANGED <<oracle, synthetic_of, mint_request>>
      /\ p > 0
  BY DEF RedeemConfirm, environment
<1>3. RedeemEscrows' = [RedeemEscrows EXCEPT ![s] = 0] /\ RedeemEscrows[s] = a
  BY <1>0, RedeemEscrowClosed DEF RedeemConfirm
<1> HIDE DEF a, p
<1>4. price \in Nat \ {0} /\ price = oracle'.price
  BY <1>2, PriceType
<1>5. a > 0
  <2>1. CASE a = 0
    <3>1. a * ScaleDown = 0
      BY <2>1, ScaleAssumption
    <3>2. price * ScaleUp \in Nat \ {0}
      BY <1>4, ScaleAssumption
    <3>3. p * price * ScaleUp = p * (price * ScaleUp)
      BY <1>1, <1>4, ScaleAssumption
    <3>4. p * (price * ScaleUp) > 0
      BY <1>1, <1>2, <3>2
    <3> QED
      BY <1>1, <3>1, <3>2, <3>3, <3>4
  <2> QED
    BY <1>1, <2>1
<1>6. CollateralOwned' = [CollateralOwned EXCEPT ![u] = @ + p]
  <2>1. collateral_of[u] \in Nat /\ collateral_of[u] + p \in Nat
    BY <1>1 DEF TypeOK
  <2>2. MintEscrows' = [MintEscrows EXCEPT ![<<u, n>>] = MintEscrows[<<u, n>>]]
    BY <1>2 DEF MintEscrows
  <2>3. MintEscrows[<<u, n>>] \in Nat
    BY <1>0, EscrowTypes
  <2>4. CollateralOwned' = [CollateralOwned EXCEPT
            ![u] = @ + ((collateral_of[u] + p) - collateral_of[u])
                     + (MintEscrows[<<u, n>>] - MintEscrows[<<u, n>>])]
    BY <1>2, <2>1, <2>2, <2>3, CollateralOwnedUpdate
  <2>5. CollateralOwned \in [Users -> Nat]
    BY OwnedTypes
  <2>6. CollateralOwned[u] + ((collateral_of[u] + p) - collateral_of[u])
            + (MintEscrows[<<u, n>>] - MintEscrows[<<u, n>>]) = CollateralOwned[u] + p
    BY <1>1, <2>1, <2>3, <2>5
  <2> QED
    BY <2>4, <2>5, <2>6
<1>7. /\ SyntheticOwned' = [SyntheticOwned EXCEPT ![u] = @ - a]
      /\ a <= SyntheticOwned[u]
  <2>1. synthetic_of[u] \in Nat /\ synthetic_of' = [synthetic_of EXCEPT ![u] = synthetic_of[u]]
    BY <1>2 DEF TypeOK
  <2>2. /\ SyntheticOwned' = [SyntheticOwned EXCEPT
              ![u] = @ + (synthetic_of[u] - synthetic_of[u]) + (0 - RedeemEscrows[<<u, n>>])]
        /\ RedeemEscrows[<<u, n>>] <= SyntheticOwned[u]
    BY <1>3, <2>1, SyntheticOwnedUpdate
  <2>3. SyntheticOwned \in [Users -> Nat]
    BY OwnedTypes
  <2>4. SyntheticOwned[u] + (synthetic_of[u] - synthetic_of[u])
            + (0 - RedeemEscrows[<<u, n>>]) = SyntheticOwned[u] - a
    BY <1>1, <1>3, <2>1, <2>3
  <2> QED
    BY <1>3, <2>2, <2>3, <2>4
<1>8. total_collateral - total_collateral' = p /\ total_synthetic - total_synthetic' = a
  BY <1>1, <1>2 DEF TypeOK
<1>9. total_collateral' = total_collateral - p /\ total_synthetic' = total_synthetic - a
  BY <1>2
<1>10. Market!Redeem(u, a, p)
  BY <1>1, <1>2, <1>4, <1>5, <1>6, <1>7, <1>9 DEF Market!Redeem
<1> QED
  BY <1>8, <1>10

\* Users trade what they hold outside any request.
LEMMA TransferTrades ==
    ASSUME TypeOK, NEW u \in Users, NEW w \in Users, NEW amount \in SyntheticAmounts,
           SyntheticTransfer(u, w, amount)
    PROVE  Market!Trade(u, w, SyntheticOwned[u] - SyntheticOwned'[u])
<1>1. /\ u # w /\ amount \in Nat /\ amount > 0 /\ amount <= synthetic_of[u]
      /\ synthetic_of' = [synthetic_of EXCEPT ![u] = @ - amount, ![w] = @ + amount]
      /\ UNCHANGED <<oracle, collateral_of, mint_request, redeem_request,
                     total_collateral, total_synthetic>>
  BY IssuanceAssumption DEF SyntheticTransfer, environment, totals, requests
<1>2. CollateralOwned' = CollateralOwned
  BY <1>1 DEF CollateralOwned, LockedBy, MintEscrows
<1> DEFINE locked(v) == LockedBy(v, RedeemEscrows)
<1>3. SyntheticOwned' = [v \in Users |-> synthetic_of'[v] + locked(v)]
  BY <1>1 DEF SyntheticOwned, LockedBy, RedeemEscrows
<1>4. SyntheticOwned = [v \in Users |-> synthetic_of[v] + locked(v)]
  BY DEF SyntheticOwned
<1>5. \A v \in Users : locked(v) \in Nat /\ synthetic_of[v] \in Nat
  <2> TAKE v \in Users
  <2>1. [m \in Nonces |-> RedeemEscrows[<<v, m>>]] \in [Nonces -> Nat]
    BY EscrowTypes DEF Slots
  <2>2. IsFiniteSet(Nonces)
    BY IssuanceAssumption
  <2> QED
    BY <2>1, <2>2, SumType DEF LockedBy, TypeOK
<1> HIDE DEF locked
<1>6. /\ synthetic_of'[u] = synthetic_of[u] - amount
      /\ synthetic_of'[w] = synthetic_of[w] + amount
      /\ \A v \in Users \ {u, w} : synthetic_of'[v] = synthetic_of[v]
  BY <1>1 DEF TypeOK
<1>7. SyntheticOwned' =
          [SyntheticOwned EXCEPT ![u] = @ - amount, ![w] = @ + amount]
  <2>1. /\ synthetic_of'[u] + locked(u) = (synthetic_of[u] + locked(u)) - amount
        /\ synthetic_of'[w] + locked(w) = (synthetic_of[w] + locked(w)) + amount
    BY <1>1, <1>5, <1>6
  <2>2. /\ SyntheticOwned'[u] = SyntheticOwned[u] - amount
        /\ SyntheticOwned'[w] = SyntheticOwned[w] + amount
        /\ \A v \in Users \ {u, w} : SyntheticOwned'[v] = SyntheticOwned[v]
    BY <1>3, <1>4, <1>6, <2>1
  <2>3. /\ SyntheticOwned = [v \in Users |-> SyntheticOwned[v]]
        /\ SyntheticOwned' = [v \in Users |-> SyntheticOwned'[v]]
    BY <1>3, <1>4
  <2> QED
    BY <1>1, <2>2, <2>3
<1>8. SyntheticOwned[u] - SyntheticOwned'[u] = amount /\ amount <= SyntheticOwned[u]
  BY <1>1, <1>3, <1>4, <1>5, <1>6
<1>9. Market!Trade(u, w, amount)
  BY <1>1, <1>2, <1>7, <1>8 DEF Market!Trade
<1> QED
  BY <1>8, <1>9

-----------------------------------------------------------------------------
(* Every step. *)

LEMMA StepImplements == TypeOK /\ TypeOK' /\ [Next]_vars => [Market!Next]_(Market!vars)
<1> SUFFICES ASSUME TypeOK, TypeOK', [Next]_vars
             PROVE  Market!Next \/ UNCHANGED seen
  BY DEF Market!vars, seen
<1>1. ASSUME NEW u \in Users, NEW n \in Nonces, UserStep(u, n) PROVE UNCHANGED seen
  BY <1>1, MintRequestUnseen, MintCancelUnseen, RedeemRequestUnseen, RedeemCancelUnseen
     DEF UserStep
<1>2. ASSUME NEW u \in Users, NEW n \in Nonces, KeeperStep(u, n) PROVE Market!Next
  BY <1>2, MintConfirmIssues, RedeemConfirmRedeems DEF KeeperStep, Market!Next
<1>3. ASSUME UNCHANGED <<collateral_of, synthetic_of, mint_request, redeem_request,
                         total_collateral, total_synthetic>>
      PROVE  UNCHANGED <<CollateralOwned, SyntheticOwned, total_collateral, total_synthetic>>
  BY <1>3 DEF CollateralOwned, SyntheticOwned, LockedBy, MintEscrows, RedeemEscrows
<1>4. ASSUME EnvironmentStep PROVE Market!Next \/ UNCHANGED seen
  <2>1. ASSUME NEW u \in Users, NEW w \in Users, NEW a \in SyntheticAmounts,
               SyntheticTransfer(u, w, a)
        PROVE  Market!Next
    BY <2>1, TransferTrades DEF Market!Next
  <2>2. ASSUME OracleStep PROVE Market!Next
    <3>1. UNCHANGED ledger
      BY <2>2 DEF OracleStep, OraclePublish, SetOracle
    <3>2. UNCHANGED <<CollateralOwned, SyntheticOwned, total_collateral, total_synthetic>>
      BY <1>3, <3>1 DEF ledger, totals, tokens, requests
    <3>3. oracle'.price \in Prices
      BY DEF TypeOK, OracleRecords
    <3> QED
      BY <3>2, <3>3 DEF Market!Next, Market!PriceMoves
  <2>3. ASSUME NEW f \in Fills, RebalanceProof(f) PROVE UNCHANGED seen
    BY <1>3, <2>3 DEF RebalanceProof, environment, tokens, requests, seen
  <2>4. ASSUME UNCHANGED <<oracle, ledger>> PROVE UNCHANGED seen
    BY <1>3, <2>4 DEF ledger, totals, tokens, requests, seen
  <2> QED
    BY <1>4, <2>1, <2>2, <2>3, <2>4 DEF EnvironmentStep, KeeperStandingChanges,
       SetPaused, SetParams, Report, Wait
<1>5. ASSUME UNCHANGED vars PROVE UNCHANGED seen
  BY <1>3, <1>5 DEF vars, environment, ledger, totals, tokens, requests, seen
<1> QED
  BY <1>1, <1>2, <1>4, <1>5 DEF Next

LEMMA InitImplements == Init => Market!Init
<1> SUFFICES ASSUME Init PROVE Market!Init
  OBVIOUS
<1>1. ASSUME NEW u \in Users
      PROVE  LockedBy(u, MintEscrows) = 0 /\ LockedBy(u, RedeemEscrows) = 0
  <2>1. /\ [n \in Nonces |-> MintEscrows[<<u, n>>]] = [n \in Nonces |-> 0]
        /\ [n \in Nonces |-> RedeemEscrows[<<u, n>>]] = [n \in Nonces |-> 0]
    BY DEF Init, MintEscrows, RedeemEscrows, Slots
  <2> QED
    BY <2>1, SumZero DEF LockedBy
<1>2. CollateralOwned \in [Users -> Nat]
  BY AccountsInit, OwnedTypes DEF Accounts
<1>3. SyntheticOwned = [u \in Users |-> 0]
  BY <1>1 DEF Init, SyntheticOwned
<1>4. oracle.price \in Prices
  BY AccountsInit DEF Accounts, TypeOK, OracleRecords
<1> QED
  BY <1>2, <1>3, <1>4 DEF Init, Market!Init

\* For any number of users, requests, prices and configurations, the two-phase
\* protocol is an exchange in one step at the price of the moment.
THEOREM IssuanceImplementsExchange == Spec => ImplementsExchange
<1>1. Accounts => TypeOK
  BY DEF Accounts
<1> QED
  BY InitImplements, StepImplements, AccountsInit, AccountsNext, <1>1, PTL
     DEF Spec, ImplementsExchange, Market!Spec

=============================================================================
