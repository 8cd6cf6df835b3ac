------------------------------- MODULE Issuance -------------------------------
(***************************************************************************)
(* Two-phase issuance and redemption: instructions/mint.rs and             *)
(* instructions/redeem.rs over the accounting fields of Config, the token  *)
(* accounts they move value between, and the request accounts.             *)
(*                                                                         *)
(* A user escrows collateral (or synthetic) under a request; within the    *)
(* request's time to live a bonded keeper attests the hedge and settles    *)
(* it; afterwards the user takes the escrow back.  Every instruction is    *)
(* atomic, so each is one action.  Between any two of them the clock may   *)
(* advance, the oracle may move, go stale or become unusable, keepers may  *)
(* come and go, either switch may be thrown and the parameters replaced.   *)
(***************************************************************************)
EXTENDS VenueState, Sums

CONSTANTS Users, Nonces,
          Prices,               \* prices the oracle may carry
          Confidences,          \* confidence intervals it may carry
          PublishTimes,         \* publication times of an account repointed to
          Endowments,           \* collateral a user may start with
          CollateralAmounts,    \* amounts a user may ask to mint against
          SyntheticAmounts,     \* amounts a user may redeem or transfer
          MinOuts,              \* minimum-out arguments a user may pass
          Fills,                \* notionals a keeper may attest
          NoRequest             \* a request account that does not exist

Slots == Users \X Nonces

MintRequests ==
    [ collateral_amount : Nat, quoted_notional : Nat,
      min_synthetic_out : Nat, deadline : Nat ]

RedeemRequests ==
    [ synthetic_amount : Nat, quoted_collateral : Nat,
      min_collateral_out : Nat, created_at : Nat, deadline : Nat ]

ASSUME IssuanceAssumption ==
    /\ IsFiniteSet(Users) /\ IsFiniteSet(Nonces)
    /\ Prices \subseteq Nat \ {0}
    /\ \E low \in Prices : \A price \in Prices : low <= price
    /\ Confidences \subseteq Nat /\ PublishTimes \subseteq Nat
    /\ Endowments \subseteq Nat /\ CollateralAmounts \subseteq Nat
    /\ SyntheticAmounts \subseteq Nat /\ MinOuts \subseteq Nat
    /\ Fills \subseteq Nat
    /\ NoRequest \notin MintRequests \cup RedeemRequests

VARIABLES
    oracle,                    \* the Pyth price account
    keeper,                    \* what the registry offers: see KeeperStandings
    mint_paused, redeem_paused,
    total_collateral, pending_collateral,
    total_synthetic, pending_redeem_synthetic,
    hedged_notional,
    collateral_vault,          \* balance of the collateral vault
    redeem_escrow,             \* balance of the redeem escrow
    synthetic_supply,          \* supply of the synthetic mint
    collateral_of,             \* balance of each user's collateral account
    synthetic_of,              \* balance of each user's synthetic account
    mint_request,              \* the request account of each user and nonce
    redeem_request

environment == <<now, params, venue, oracle, keeper, mint_paused, redeem_paused>>
totals == <<total_collateral, pending_collateral, total_synthetic,
            pending_redeem_synthetic, hedged_notional>>
tokens == <<collateral_vault, redeem_escrow, synthetic_supply,
            collateral_of, synthetic_of>>
requests == <<mint_request, redeem_request>>
ledger == <<totals, tokens, requests>>
vars == <<environment, ledger>>

\* The account Config.oracle points at: usable stands for the gates on its
\* owner, its discriminator, its verification level, its feed and the sign of
\* its price.  Feeds with different exponents are compared at the finest one: a
\* price on a coarser scale is the same price with zeros appended, and both
\* conversions of math.rs return the same for either.
OracleRecords ==
    [ price : Prices, conf : Confidences, publish_time : Nat, usable : BOOLEAN ]

\* "none": keeper_count = 0.  "underbonded": an active keeper whose bond the
\* authority has since outbid by raising min_keeper_bond.  "bonded": a keeper
\* that is active and bonded at or above min_keeper_bond.
KeeperStandings == {"none", "underbonded", "bonded"}

TypeOK ==
    /\ now \in Nat
    /\ params \in ParamSets
    /\ venue \in VenueRecords
    /\ oracle \in OracleRecords
    /\ keeper \in KeeperStandings
    /\ mint_paused \in BOOLEAN /\ redeem_paused \in BOOLEAN
    /\ total_collateral \in Nat /\ pending_collateral \in Nat
    /\ total_synthetic \in Nat /\ pending_redeem_synthetic \in Nat
    /\ hedged_notional \in Nat
    /\ collateral_vault \in Nat /\ redeem_escrow \in Nat
    /\ synthetic_supply \in Nat
    /\ collateral_of \in [Users -> Nat]
    /\ synthetic_of \in [Users -> Nat]
    /\ mint_request \in [Slots -> MintRequests \cup {NoRequest}]
    /\ redeem_request \in [Slots -> RedeemRequests \cup {NoRequest}]

\* A freshly initialized program: both switches thrown, no venue report.
Init ==
    /\ now = 1
    /\ params \in ParamSets
    /\ venue = VenueInit
    /\ oracle \in [ price : Prices, conf : Confidences, publish_time : {1},
                    usable : {TRUE} ]
    /\ keeper = "none"
    /\ mint_paused = TRUE /\ redeem_paused = TRUE
    /\ total_collateral = 0 /\ pending_collateral = 0
    /\ total_synthetic = 0 /\ pending_redeem_synthetic = 0
    /\ hedged_notional = 0
    /\ collateral_vault = 0 /\ redeem_escrow = 0 /\ synthetic_supply = 0
    /\ collateral_of \in [Users -> Endowments]
    /\ synthetic_of = [u \in Users |-> 0]
    /\ mint_request = [s \in Slots |-> NoRequest]
    /\ redeem_request = [s \in Slots |-> NoRequest]

-----------------------------------------------------------------------------
(* What the handlers read. *)

\* load_price succeeds.
PriceLoads ==
    /\ oracle.usable
    /\ now >= oracle.publish_time
    /\ now - oracle.publish_time <= params.max_price_age_sec
    /\ ConfidenceBps(oracle.conf, oracle.price) <= params.max_conf_bps

NotionalNow(amount) == CollateralToNotional(amount, oracle.price)

CollateralNow(amount) == NotionalToCollateral(amount, oracle.price)

\* A faulty variant: the reported capacity forgotten.
SupplyCeilingUnreported == params.max_synthetic_supply

SupplyCeiling ==
    Lower(params.max_synthetic_supply,
          MulBpsFloor(venue.venue_capacity_notional,
                      params.max_supply_vs_capacity_bps))

InsideHardBand ==
    (total_collateral > 0 /\ NotionalNow(total_collateral) > 0) =>
        /\ Fits(NotionalNow(total_collateral))
        /\ Abs(DeltaBps(NotionalNow(total_collateral), hedged_notional))
               <= params.delta_hard_bps

VenueStateFresh ==
    /\ venue.venue_state_at # 0
    /\ now >= venue.venue_state_at
    /\ now - venue.venue_state_at <= params.max_venue_state_age_sec

CarryAboveFloor == venue.last_net_carry_bps >= params.min_net_carry_bps

\* check_issuance_gates
IssuanceGates == VenueStateFresh /\ CarryAboveFloor /\ InsideHardBand

\* A faulty variant: a fill is bounded from below only.
MaxFillUnbounded(notional) == U64Max

\* The bounds on a fill, and what a mint issues for a notional.
RequiredFill(notional) == MulBpsFloor(notional, BPS - params.max_hedge_slippage_bps)
MaxFill(notional) == MulBpsCeil(notional, BPS + params.max_hedge_slippage_bps)

\* A faulty variant: the over-collateralisation forgotten.
GrossAtPar(notional) == notional

Gross(notional) == DivBpsFloor(notional, params.collateral_ratio_bps)

\* Faulty variants: the fee on top of the amount instead of out of it.
NetMintedWithFeeOnTop(notional) ==
    Gross(notional) + MulBpsCeil(Gross(notional), params.mint_fee_bps)
NetRedeemedWithFeeOnTop(amount) == amount + MulBpsCeil(amount, params.redeem_fee_bps)

NetMinted(notional) ==
    Gross(notional) - MulBpsCeil(Gross(notional), params.mint_fee_bps)
NetRedeemed(amount) == amount - MulBpsCeil(amount, params.redeem_fee_bps)

\* A faulty variant: the quote binds the protocol.
SettledAsQuoted(current, quoted) == quoted

\* The user gets the worse of the quote and what the price says at settlement.
Settled(current, quoted) == Lower(current, quoted)

\* Faulty variants: no deadline at settlement, and the breaker over the way out.
LiveForever(request) == TRUE
ExpiredAndUnpaused(request) == ~mint_paused /\ now > request.deadline

\* A request can be settled up to its deadline and taken back after it.
Live(request) == now <= request.deadline
Expired(request) == now > request.deadline

-----------------------------------------------------------------------------
(* Minting. *)

MintRequest(u, n, amount, min_out) ==
    LET quoted == NotionalNow(amount)
        request == [ collateral_amount |-> amount, quoted_notional |-> quoted,
                     min_synthetic_out |-> min_out,
                     deadline |-> now + params.request_ttl_sec ]
    IN  /\ mint_request[<<u, n>>] = NoRequest
        /\ ~mint_paused
        /\ amount > 0
        /\ keeper # "none"
        /\ PriceLoads
        /\ IssuanceGates
        /\ total_synthetic < SupplyCeiling
        /\ quoted > 0 /\ Fits(quoted)
        /\ amount <= collateral_of[u]
        /\ Fits(pending_collateral + amount)
        /\ collateral_of' = [collateral_of EXCEPT ![u] = @ - amount]
        /\ collateral_vault' = collateral_vault + amount
        /\ pending_collateral' = pending_collateral + amount
        /\ mint_request' = [mint_request EXCEPT ![<<u, n>>] = request]
        /\ UNCHANGED <<environment, total_collateral, total_synthetic,
                       pending_redeem_synthetic, hedged_notional, redeem_escrow,
                       synthetic_supply, synthetic_of, redeem_request>>

MintConfirm(u, n, venue_id, filled) ==
    LET request == mint_request[<<u, n>>]
        effective == Settled(NotionalNow(request.collateral_amount),
                             request.quoted_notional)
        net == NetMinted(effective)
        new_supply == total_synthetic + net
    IN  /\ request # NoRequest
        /\ ~mint_paused
        /\ keeper = "bonded"
        /\ VenueEnabled(venue_id)
        /\ Live(request)
        /\ PriceLoads
        /\ Fits(NotionalNow(request.collateral_amount))
        /\ effective > 0
        /\ filled >= RequiredFill(effective)
        /\ filled <= MaxFill(effective) /\ Fits(MaxFill(effective))
        /\ net > 0
        /\ net >= request.min_synthetic_out
        /\ new_supply <= params.max_synthetic_supply
        /\ new_supply <= SupplyCeiling
        /\ Fits(total_collateral + request.collateral_amount)
        /\ Fits(hedged_notional + filled)
        /\ synthetic_of' = [synthetic_of EXCEPT ![u] = @ + net]
        /\ synthetic_supply' = synthetic_supply + net
        /\ pending_collateral' = pending_collateral - request.collateral_amount
        /\ total_collateral' = total_collateral + request.collateral_amount
        /\ total_synthetic' = new_supply
        /\ hedged_notional' = hedged_notional + filled
        /\ mint_request' = [mint_request EXCEPT ![<<u, n>>] = NoRequest]
        /\ UNCHANGED <<environment, pending_redeem_synthetic, collateral_vault,
                       redeem_escrow, collateral_of, redeem_request>>

\* A faulty variant: the escrow leaves the vault and stays on the books.
MintCancelStaysPending(u, n) ==
    LET request == mint_request[<<u, n>>]
    IN  /\ request # NoRequest
        /\ Expired(request)
        /\ collateral_of' = [collateral_of EXCEPT ![u] = @ + request.collateral_amount]
        /\ collateral_vault' = collateral_vault - request.collateral_amount
        /\ mint_request' = [mint_request EXCEPT ![<<u, n>>] = NoRequest]
        /\ UNCHANGED <<environment, totals, redeem_escrow, synthetic_supply,
                       synthetic_of, redeem_request>>

MintCancel(u, n) ==
    LET request == mint_request[<<u, n>>]
    IN  /\ request # NoRequest
        /\ Expired(request)
        /\ collateral_of' = [collateral_of EXCEPT ![u] = @ + request.collateral_amount]
        /\ collateral_vault' = collateral_vault - request.collateral_amount
        /\ pending_collateral' = pending_collateral - request.collateral_amount
        /\ mint_request' = [mint_request EXCEPT ![<<u, n>>] = NoRequest]
        /\ UNCHANGED <<environment, total_collateral, total_synthetic,
                       pending_redeem_synthetic, hedged_notional, redeem_escrow,
                       synthetic_supply, synthetic_of, redeem_request>>

-----------------------------------------------------------------------------
(* Redeeming. *)

RedeemRequest(u, n, amount, min_out) ==
    LET quoted == CollateralNow(NetRedeemed(amount))
        in_flight == pending_redeem_synthetic + amount
        request == [ synthetic_amount |-> amount, quoted_collateral |-> quoted,
                     min_collateral_out |-> min_out, created_at |-> now,
                     deadline |-> now + params.request_ttl_sec ]
    IN  /\ redeem_request[<<u, n>>] = NoRequest
        /\ ~redeem_paused
        /\ amount > 0
        /\ keeper # "none"
        /\ in_flight <= total_synthetic
        /\ PriceLoads
        /\ NetRedeemed(amount) > 0
        /\ quoted > 0 /\ Fits(quoted)
        /\ amount <= synthetic_of[u]
        /\ synthetic_of' = [synthetic_of EXCEPT ![u] = @ - amount]
        /\ redeem_escrow' = redeem_escrow + amount
        /\ pending_redeem_synthetic' = in_flight
        /\ redeem_request' = [redeem_request EXCEPT ![<<u, n>>] = request]
        /\ UNCHANGED <<environment, total_collateral, pending_collateral,
                       total_synthetic, hedged_notional, collateral_vault,
                       synthetic_supply, collateral_of, mint_request>>

\* The venue the keeper names is not looked at.
RedeemConfirm(u, n, unwound) ==
    LET request == redeem_request[<<u, n>>]
        amount == request.synthetic_amount
        collateral_now == CollateralNow(NetRedeemed(amount))
        effective == Settled(collateral_now, request.quoted_collateral)
    IN  /\ request # NoRequest
        /\ ~redeem_paused
        /\ keeper = "bonded"
        /\ now - request.created_at >= params.min_settlement_delay_sec
        /\ Live(request)
        /\ PriceLoads
        /\ NetRedeemed(amount) >= 0 /\ Fits(collateral_now)
        /\ effective > 0
        /\ effective >= request.min_collateral_out
        /\ effective <= total_collateral
        /\ unwound >= RequiredFill(amount)
        /\ redeem_escrow' = redeem_escrow - amount
        /\ synthetic_supply' = synthetic_supply - amount
        /\ collateral_vault' = collateral_vault - effective
        /\ collateral_of' = [collateral_of EXCEPT ![u] = @ + effective]
        /\ pending_redeem_synthetic' = pending_redeem_synthetic - amount
        /\ total_synthetic' = total_synthetic - amount
        /\ total_collateral' = total_collateral - effective
        /\ hedged_notional' = MonusSaturating(hedged_notional, unwound)
        /\ redeem_request' = [redeem_request EXCEPT ![<<u, n>>] = NoRequest]
        /\ UNCHANGED <<environment, pending_collateral, synthetic_of, mint_request>>

\* A faulty variant: the escrow is returned and stays in flight.
RedeemCancelStaysPending(u, n) ==
    LET request == redeem_request[<<u, n>>]
    IN  /\ request # NoRequest
        /\ Expired(request)
        /\ synthetic_of' = [synthetic_of EXCEPT ![u] = @ + request.synthetic_amount]
        /\ redeem_escrow' = redeem_escrow - request.synthetic_amount
        /\ redeem_request' = [redeem_request EXCEPT ![<<u, n>>] = NoRequest]
        /\ UNCHANGED <<environment, totals, collateral_vault, synthetic_supply,
                       collateral_of, mint_request>>

RedeemCancel(u, n) ==
    LET request == redeem_request[<<u, n>>]
    IN  /\ request # NoRequest
        /\ Expired(request)
        /\ synthetic_of' = [synthetic_of EXCEPT ![u] = @ + request.synthetic_amount]
        /\ redeem_escrow' = redeem_escrow - request.synthetic_amount
        /\ pending_redeem_synthetic' =
               pending_redeem_synthetic - request.synthetic_amount
        /\ redeem_request' = [redeem_request EXCEPT ![<<u, n>>] = NoRequest]
        /\ UNCHANGED <<environment, total_collateral, pending_collateral,
                       total_synthetic, hedged_notional, collateral_vault,
                       synthetic_supply, collateral_of, mint_request>>

-----------------------------------------------------------------------------
(* The rest of the program and the world, as these handlers see them. *)

\* An SPL transfer between users: no instruction of this program is involved.
SyntheticTransfer(from, to, amount) ==
    /\ from # to
    /\ amount > 0 /\ amount <= synthetic_of[from]
    /\ synthetic_of' = [synthetic_of EXCEPT ![from] = @ - amount, ![to] = @ + amount]
    /\ UNCHANGED <<environment, totals, collateral_vault, redeem_escrow,
                   synthetic_supply, collateral_of, requests>>

\* The Pyth receiver posts an update, or the account becomes unusable.
OraclePublish(price, conf, usable) ==
    /\ oracle' = [ price |-> price, conf |-> conf, publish_time |-> now,
                   usable |-> usable ]
    /\ UNCHANGED <<now, params, venue, keeper, mint_paused, redeem_paused, ledger>>

\* set_oracle: Config points at another account of the receiver, perhaps for
\* another feed.  Neither its age, its confidence nor its verification level is
\* looked at before it is used.
SetOracle(price, conf, published, usable) ==
    /\ oracle' = [ price |-> price, conf |-> conf, publish_time |-> published,
                   usable |-> usable ]
    /\ UNCHANGED <<now, params, venue, keeper, mint_paused, redeem_paused, ledger>>

\* commit_rebalance_proof: the hedge becomes what the keeper attests, if it
\* balances the book at the current price.  The proof itself, the keeper's
\* account and the chain are in ProofChain.
RebalanceProof(hedged) ==
    LET book == NotionalNow(total_collateral)
    IN  /\ keeper = "bonded"
        /\ PriceLoads
        /\ book > 0 /\ Fits(book)
        /\ Abs(DeltaBps(book, hedged)) <= params.delta_exit_bps
        /\ hedged_notional' = hedged
        /\ UNCHANGED <<environment, total_collateral, pending_collateral,
                       total_synthetic, pending_redeem_synthetic, tokens, requests>>

\* keeper_register, keeper_bond, keeper_unbond and keeper_slash change, between
\* two steps of this module, what the registry offers.
KeeperStandingChanges(standing) ==
    /\ keeper' = standing
    /\ UNCHANGED <<now, params, venue, oracle, mint_paused, redeem_paused, ledger>>

\* set_paused.  The authority may set both flags either way, so the guardian's
\* one-way power adds no transition; the vaults are ready (see Governance).
SetPaused(mint, redeem) ==
    /\ mint_paused' = mint /\ redeem_paused' = redeem
    /\ UNCHANGED <<now, params, venue, oracle, keeper, ledger>>

\* set_params: any subset of the fields, as long as the result is valid.  Against
\* a new min_keeper_bond an active keeper may be underbonded, or no longer be.
SetParams(p) ==
    /\ params' = p
    /\ keeper' \in KeeperStandings /\ (keeper' = "none") = (keeper = "none")
    /\ UNCHANGED <<now, venue, oracle, mint_paused, redeem_paused, ledger>>

Report(id, carry, capacity) ==
    /\ ReportVenueState(id, carry, capacity)
    /\ UNCHANGED <<now, params, oracle, keeper, mint_paused, redeem_paused, ledger>>

Wait ==
    /\ Tick
    /\ UNCHANGED <<params, venue, oracle, keeper, mint_paused, redeem_paused, ledger>>

-----------------------------------------------------------------------------

\* Bound of the model, not of the code: a request is only made if it can still
\* run out before the clock stops.
RequestsExpireInTime == now + params.request_ttl_sec < MaxTime

UserStep(u, n) ==
    \/ /\ RequestsExpireInTime
       /\ \/ \E a \in CollateralAmounts, m \in MinOuts : MintRequest(u, n, a, m)
          \/ \E a \in SyntheticAmounts, m \in MinOuts : RedeemRequest(u, n, a, m)
    \/ MintCancel(u, n)
    \/ RedeemCancel(u, n)

KeeperStep(u, n) ==
    \E f \in Fills :
        \/ \E v \in Venues : MintConfirm(u, n, v, f)
        \/ RedeemConfirm(u, n, f)

OracleStep ==
    \E p \in Prices, c \in Confidences, b \in BOOLEAN :
        \/ OraclePublish(p, c, b)
        \/ \E t \in PublishTimes : SetOracle(p, c, t, b)

EnvironmentStep ==
    \/ \E u, w \in Users, a \in SyntheticAmounts : SyntheticTransfer(u, w, a)
    \/ \E f \in Fills : RebalanceProof(f)
    \/ OracleStep
    \/ \E k \in KeeperStandings : KeeperStandingChanges(k)
    \/ \E m, r \in BOOLEAN : SetPaused(m, r)
    \/ \E p \in ParamSets : SetParams(p)
    \/ \E v \in Venues, r \in Carries, c \in Capacities : Report(v, r, c)
    \/ Wait

Next ==
    \/ \E u \in Users, n \in Nonces : UserStep(u, n) \/ KeeperStep(u, n)
    \/ EnvironmentStep

Spec == Init /\ [][Next]_vars

\* Time passes, and a user whose request has run out gets around to taking the
\* escrow back.  Nothing is assumed of keepers, of the oracle, of reporters or
\* of the authority.
Fairness ==
    /\ WF_vars(Wait)
    /\ \A u \in Users, n \in Nonces :
           WF_vars(MintCancel(u, n)) /\ WF_vars(RedeemCancel(u, n))

FairSpec == Spec /\ Fairness

-----------------------------------------------------------------------------
(* Safety. *)

\* What each request escrows and what each redemption was quoted.
MintEscrows ==
    [s \in Slots |-> IF mint_request[s] = NoRequest THEN 0
                     ELSE mint_request[s].collateral_amount]
RedeemEscrows ==
    [s \in Slots |-> IF redeem_request[s] = NoRequest THEN 0
                     ELSE redeem_request[s].synthetic_amount]
RedeemQuotes ==
    [s \in Slots |-> IF redeem_request[s] = NoRequest THEN 0
                     ELSE redeem_request[s].quoted_collateral]

\* Collateral: the vault always holds exactly what Config says backs the supply
\* plus what the open mint requests escrow.  mint.rs keeps the two apart so that
\* an unconfirmed request never counts as backing; a handler that moved tokens
\* without moving the right one of the two counters would break it.
CollateralAccounted ==
    /\ collateral_vault = total_collateral + pending_collateral
    /\ pending_collateral = Sum(MintEscrows)

\* Synthetic: the mint's supply is what Config calls total_synthetic; it is
\* all held by users or by the redeem escrow, and the escrow is exactly what
\* the open redeem requests will burn or return.
SyntheticAccounted ==
    /\ synthetic_supply = total_synthetic
    /\ total_synthetic = Sum(synthetic_of) + redeem_escrow
    /\ redeem_escrow = pending_redeem_synthetic
    /\ pending_redeem_synthetic = Sum(RedeemEscrows)

LowestPrice == CHOOSE low \in Prices : \A price \in Prices : low <= price

\* The collateral ratio covers a fall from any price to the lowest.
RatioCoversPrices ==
    \A p \in ParamSets, price \in Prices :
        price * BPS <= LowestPrice * p.collateral_ratio_bps

\* Backing: whatever the order of mints, redemptions, price moves and parameter
\* changes, the collateral on the books is worth the outstanding supply even at
\* the lowest price the ratio was sized for.  Rests on the direction of every
\* rounding step in mint_confirm and redeem_confirm.
Backing ==
    RatioCoversPrices =>
        total_synthetic * ScaleDown <= total_collateral * LowestPrice * ScaleUp

\* All open redemptions can be paid together: redeem.rs counts every in-flight
\* redemption against the supply because "otherwise a burst of requests could
\* collectively claim more collateral than exists".
RedemptionsPayable ==
    RatioCoversPrices => Sum(RedeemQuotes) <= total_collateral

\* The supply never exceeds what the authority's own limits allow, whatever
\* capacity reporters publish and in whatever order requests are settled:
\* report_venue_state clamps, mint_confirm checks the supply it creates.
SupplyWithinAdminLimits ==
    \E p, q \in ParamSets :
        /\ total_synthetic <= p.max_synthetic_supply
        /\ total_synthetic <= MulBpsFloor(q.max_reportable_capacity_notional,
                                          p.max_supply_vs_capacity_bps)

\* The collateral on the books is worth the supply at the oracle's price.
Covered ==
    total_synthetic * ScaleDown <= total_collateral * oracle.price * ScaleUp

\* Only a price move can uncover the book: no settlement, refund, parameter
\* change or report takes a book that was covered at the current price to one
\* that is not, whatever the configured ratio.
OnlyPriceUncovers == [][Covered /\ oracle' = oracle => Covered']_vars

\* A redemption from a covered book leaves at least as much collateral behind
\* each remaining unit of synthetic as there was: the redeemer is paid rounding
\* down, on the amount net of the fee, at the lower of two quotes.
RedemptionNeverDilutes ==
    [][ Covered /\ total_synthetic' < total_synthetic =>
            total_collateral' * total_synthetic
                >= total_collateral * total_synthetic' ]_vars

-----------------------------------------------------------------------------
(* Liveness. *)

\* No escrow is trapped: every request is eventually settled or taken back,
\* whoever pauses what, even if every keeper and the oracle are gone for good.
RequestsResolve ==
    \A s \in Slots :
        /\ (mint_request[s] # NoRequest) ~> (mint_request[s] = NoRequest)
        /\ (redeem_request[s] # NoRequest) ~> (redeem_request[s] = NoRequest)

=============================================================================
