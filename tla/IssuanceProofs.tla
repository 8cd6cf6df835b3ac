---------------------------- MODULE IssuanceProofs ----------------------------
(***************************************************************************)
(* Theorems about Issuance, for every set of users, nonces, prices,        *)
(* amounts and parameters.  The accounting invariant comes first: the      *)
(* types themselves depend on it, since the handlers subtract from the     *)
(* totals without testing that the difference is natural (checked_sub      *)
(* would abort, and a request that aborts for ever would be trapped).      *)
(***************************************************************************)
EXTENDS Issuance, ArithmeticTheorems

Accounts == TypeOK /\ CollateralAccounted /\ SyntheticAccounted

-----------------------------------------------------------------------------
(* Types of what the handlers compute. *)

LEMMA SlotsFinite == IsFiniteSet(Slots)
BY FS_Product, IssuanceAssumption DEF Slots

\* The fields of a configuration that validate_config lets through.
LEMMA ParamTypes ==
    ASSUME TypeOK
    PROVE  /\ params \in ParamRecords /\ ValidConfig(params)
           /\ params.collateral_ratio_bps \in Nat \ {0}
           /\ params.mint_fee_bps \in Nat /\ params.redeem_fee_bps \in Nat
           /\ params.request_ttl_sec \in Nat
           /\ params.max_supply_vs_capacity_bps \in Nat
           /\ params.max_synthetic_supply \in Nat
           /\ params.max_reportable_capacity_notional \in Nat
<1>1. params \in ParamRecords /\ ValidConfig(params)
  BY ParamAssumption DEF TypeOK
<1> QED
  BY <1>1 DEF ParamRecords, ValidConfig, BPS

LEMMA PriceType ==
    ASSUME TypeOK
    PROVE  oracle.price \in Prices /\ oracle.price \in Nat \ {0}
BY IssuanceAssumption DEF TypeOK, OracleRecords

LEMMA LowestPriceType ==
    /\ LowestPrice \in Prices /\ LowestPrice \in Nat \ {0}
    /\ \A price \in Prices : LowestPrice <= price
BY IssuanceAssumption DEF LowestPrice

\* What a mint issues never exceeds the notional divided by the ratio.
LEMMA NetMintedBound ==
    ASSUME TypeOK, NEW notional \in Nat
    PROVE  /\ NetMinted(notional) \in Int
           /\ Gross(notional) \in Nat
           /\ NetMinted(notional) <= Gross(notional)
           /\ Gross(notional) * params.collateral_ratio_bps <= notional * BPS
<1>1. /\ Gross(notional) \in Nat
      /\ Gross(notional) * params.collateral_ratio_bps <= notional * BPS
  BY ParamTypes, RatioRoundsDown DEF Gross
<1>2. MulBpsCeil(Gross(notional), params.mint_fee_bps) \in Nat
  BY <1>1, ParamTypes, BpsRounding
<1> QED
  BY <1>1, <1>2 DEF NetMinted

LEMMA NetRedeemedBound ==
    ASSUME TypeOK, NEW amount \in Nat
    PROVE  NetRedeemed(amount) \in Int /\ NetRedeemed(amount) <= amount
<1>1. MulBpsCeil(amount, params.redeem_fee_bps) \in Nat
  BY ParamTypes, BpsRounding
<1> QED
  BY <1>1 DEF NetRedeemed

-----------------------------------------------------------------------------
(* How the sums over requests change with one request. *)

LEMMA EscrowTypes ==
    ASSUME TypeOK
    PROVE  /\ MintEscrows \in [Slots -> Nat]
           /\ RedeemEscrows \in [Slots -> Nat]
           /\ RedeemQuotes \in [Slots -> Nat]
BY DEF TypeOK, MintEscrows, RedeemEscrows, RedeemQuotes, MintRequests, RedeemRequests

\* Opening a mint request adds its collateral to the sum, closing it removes it.
LEMMA MintOpened ==
    ASSUME TypeOK, NEW s \in Slots, NEW r \in MintRequests,
           mint_request[s] = NoRequest,
           mint_request' = [mint_request EXCEPT ![s] = r]
    PROVE  Sum(MintEscrows') = Sum(MintEscrows) + r.collateral_amount
<1>1. MintEscrows' = [MintEscrows EXCEPT ![s] = r.collateral_amount]
  BY IssuanceAssumption DEF MintEscrows, TypeOK
<1>2. MintEscrows[s] = 0
  BY DEF MintEscrows
<1>3. r.collateral_amount \in Nat
  BY DEF MintRequests
<1>4. Sum(MintEscrows) \in Nat
  BY SlotsFinite, EscrowTypes, SumType
<1>5. MintEscrows' \in [Slots -> Nat] /\ MintEscrows'[s] = r.collateral_amount
  BY <1>1, <1>3, EscrowTypes
<1>6. \A j \in Slots \ {s} : MintEscrows'[j] = MintEscrows[j]
  BY <1>1, EscrowTypes
<1>7. Sum(MintEscrows') = Sum(MintEscrows) - MintEscrows[s] + MintEscrows'[s]
  BY <1>5, <1>6, SlotsFinite, EscrowTypes, SumUpdate
<1> QED
  BY <1>2, <1>3, <1>4, <1>5, <1>7

LEMMA MintClosed ==
    ASSUME TypeOK, NEW s \in Slots, mint_request[s] # NoRequest,
           mint_request' = [mint_request EXCEPT ![s] = NoRequest]
    PROVE  /\ mint_request[s] \in MintRequests
           /\ mint_request[s].collateral_amount \in Nat
           /\ mint_request[s].collateral_amount <= Sum(MintEscrows)
           /\ Sum(MintEscrows') = Sum(MintEscrows) - mint_request[s].collateral_amount
<1>1. MintEscrows' = [MintEscrows EXCEPT ![s] = 0]
  BY DEF MintEscrows, TypeOK
<1>2. MintEscrows[s] = mint_request[s].collateral_amount
  BY DEF MintEscrows
<1>3. mint_request[s] \in MintRequests
  BY DEF TypeOK
<1>4. mint_request[s].collateral_amount \in Nat
  BY <1>3 DEF MintRequests
<1>5. MintEscrows[s] <= Sum(MintEscrows)
  BY SlotsFinite, EscrowTypes, SumBound
<1>6. Sum(MintEscrows) \in Nat
  BY SlotsFinite, EscrowTypes, SumType
<1>7. Sum(MintEscrows') = Sum(MintEscrows) - MintEscrows[s] + 0
  <2>1. MintEscrows' \in [Slots -> Nat] /\ MintEscrows'[s] = 0
    BY <1>1, EscrowTypes
  <2>2. \A j \in Slots \ {s} : MintEscrows'[j] = MintEscrows[j]
    BY <1>1, EscrowTypes
  <2> QED
    BY <2>1, <2>2, SlotsFinite, EscrowTypes, SumUpdate
<1> QED
  BY <1>2, <1>3, <1>4, <1>5, <1>6, <1>7

\* The same for redeem requests, and for what they were quoted.
LEMMA RedeemOpened ==
    ASSUME TypeOK, NEW s \in Slots, NEW r \in RedeemRequests,
           redeem_request[s] = NoRequest,
           redeem_request' = [redeem_request EXCEPT ![s] = r]
    PROVE  /\ Sum(RedeemEscrows') = Sum(RedeemEscrows) + r.synthetic_amount
           /\ Sum(RedeemQuotes') = Sum(RedeemQuotes) + r.quoted_collateral
<1>1. /\ RedeemEscrows' = [RedeemEscrows EXCEPT ![s] = r.synthetic_amount]
      /\ RedeemQuotes' = [RedeemQuotes EXCEPT ![s] = r.quoted_collateral]
  BY IssuanceAssumption DEF RedeemEscrows, RedeemQuotes, TypeOK
<1>2. RedeemEscrows[s] = 0 /\ RedeemQuotes[s] = 0
  BY DEF RedeemEscrows, RedeemQuotes
<1>3. r.synthetic_amount \in Nat /\ r.quoted_collateral \in Nat
  BY DEF RedeemRequests
<1>4. Sum(RedeemEscrows) \in Nat /\ Sum(RedeemQuotes) \in Nat
  BY SlotsFinite, EscrowTypes, SumType
<1>5. Sum(RedeemEscrows') = Sum(RedeemEscrows) - RedeemEscrows[s] + r.synthetic_amount
  <2>1. RedeemEscrows' \in [Slots -> Nat] /\ RedeemEscrows'[s] = r.synthetic_amount
    BY <1>1, <1>3, EscrowTypes
  <2>2. \A j \in Slots \ {s} : RedeemEscrows'[j] = RedeemEscrows[j]
    BY <1>1, EscrowTypes
  <2> QED
    BY <2>1, <2>2, SlotsFinite, EscrowTypes, SumUpdate
<1>6. Sum(RedeemQuotes') = Sum(RedeemQuotes) - RedeemQuotes[s] + r.quoted_collateral
  <2>1. RedeemQuotes' \in [Slots -> Nat] /\ RedeemQuotes'[s] = r.quoted_collateral
    BY <1>1, <1>3, EscrowTypes
  <2>2. \A j \in Slots \ {s} : RedeemQuotes'[j] = RedeemQuotes[j]
    BY <1>1, EscrowTypes
  <2> QED
    BY <2>1, <2>2, SlotsFinite, EscrowTypes, SumUpdate
<1> QED
  BY <1>2, <1>3, <1>4, <1>5, <1>6

LEMMA RedeemClosed ==
    ASSUME TypeOK, NEW s \in Slots, redeem_request[s] # NoRequest,
           redeem_request' = [redeem_request EXCEPT ![s] = NoRequest]
    PROVE  /\ redeem_request[s] \in RedeemRequests
           /\ redeem_request[s].synthetic_amount \in Nat
           /\ redeem_request[s].quoted_collateral \in Nat
           /\ redeem_request[s].synthetic_amount <= Sum(RedeemEscrows)
           /\ redeem_request[s].quoted_collateral <= Sum(RedeemQuotes)
           /\ Sum(RedeemEscrows')
                = Sum(RedeemEscrows) - redeem_request[s].synthetic_amount
           /\ Sum(RedeemQuotes')
                = Sum(RedeemQuotes) - redeem_request[s].quoted_collateral
<1>1. /\ RedeemEscrows' = [RedeemEscrows EXCEPT ![s] = 0]
      /\ RedeemQuotes' = [RedeemQuotes EXCEPT ![s] = 0]
  BY DEF RedeemEscrows, RedeemQuotes, TypeOK
<1>2. /\ RedeemEscrows[s] = redeem_request[s].synthetic_amount
      /\ RedeemQuotes[s] = redeem_request[s].quoted_collateral
  BY DEF RedeemEscrows, RedeemQuotes
<1>3. redeem_request[s] \in RedeemRequests
  BY DEF TypeOK
<1>4. /\ redeem_request[s].synthetic_amount \in Nat
      /\ redeem_request[s].quoted_collateral \in Nat
  BY <1>3 DEF RedeemRequests
<1>5. RedeemEscrows[s] <= Sum(RedeemEscrows) /\ RedeemQuotes[s] <= Sum(RedeemQuotes)
  BY SlotsFinite, EscrowTypes, SumBound
<1>6. Sum(RedeemEscrows) \in Nat /\ Sum(RedeemQuotes) \in Nat
  BY SlotsFinite, EscrowTypes, SumType
<1>7. Sum(RedeemEscrows') = Sum(RedeemEscrows) - RedeemEscrows[s] + 0
  <2>1. RedeemEscrows' \in [Slots -> Nat] /\ RedeemEscrows'[s] = 0
    BY <1>1, EscrowTypes
  <2>2. \A j \in Slots \ {s} : RedeemEscrows'[j] = RedeemEscrows[j]
    BY <1>1, EscrowTypes
  <2> QED
    BY <2>1, <2>2, SlotsFinite, EscrowTypes, SumUpdate
<1>8. Sum(RedeemQuotes') = Sum(RedeemQuotes) - RedeemQuotes[s] + 0
  <2>1. RedeemQuotes' \in [Slots -> Nat] /\ RedeemQuotes'[s] = 0
    BY <1>1, EscrowTypes
  <2>2. \A j \in Slots \ {s} : RedeemQuotes'[j] = RedeemQuotes[j]
    BY <1>1, EscrowTypes
  <2> QED
    BY <2>1, <2>2, SlotsFinite, EscrowTypes, SumUpdate
<1> QED
  BY <1>2, <1>3, <1>4, <1>5, <1>6, <1>7, <1>8

\* Crediting or debiting one user's synthetic account.
LEMMA BalanceChanged ==
    ASSUME TypeOK, NEW u \in Users, NEW n \in Nat,
           synthetic_of' = [synthetic_of EXCEPT ![u] = n]
    PROVE  /\ synthetic_of' \in [Users -> Nat]
           /\ Sum(synthetic_of) \in Nat
           /\ Sum(synthetic_of') = Sum(synthetic_of) - synthetic_of[u] + n
<1>1. synthetic_of \in [Users -> Nat] /\ synthetic_of' \in [Users -> Nat]
  BY DEF TypeOK
<1>2. \A v \in Users \ {u} : synthetic_of'[v] = synthetic_of[v]
  BY DEF TypeOK
<1>3. synthetic_of'[u] = n
  BY DEF TypeOK
<1>4. Sum(synthetic_of') = Sum(synthetic_of) - synthetic_of[u] + synthetic_of'[u]
  <2>1. IsFiniteSet(Users)
    BY IssuanceAssumption
  <2>2. ASSUME NEW f \in [Users -> Nat], NEW g \in [Users -> Nat],
               \A v \in Users \ {u} : g[v] = f[v]
        PROVE  Sum(g) = Sum(f) - f[u] + g[u]
    BY <2>1, <2>2, SumUpdate
  <2> QED
    BY <1>1, <1>2, <2>2, Zenon
<1>5. Sum(synthetic_of) \in Nat
  BY <1>1, IssuanceAssumption, SumType
<1> QED
  BY <1>1, <1>3, <1>4, <1>5

-----------------------------------------------------------------------------
(* The accounting invariant, action by action. *)

LEMMA AccountsInit == Init => Accounts
<1> SUFFICES ASSUME Init PROVE Accounts
  OBVIOUS
<1>1. TypeOK
  <2>1. venue \in VenueRecords
    BY DEF Init, VenueRecords, VenueInit, VENUE_NONE
  <2>2. oracle \in OracleRecords
    <3>1. \E price \in Prices, c \in Confidences :
             oracle = [price |-> price, conf |-> c, publish_time |-> 1, usable |-> TRUE]
      BY DEF Init
    <3>2. TRUE \in BOOLEAN
      OBVIOUS
    <3> QED
      BY <3>1, <3>2 DEF OracleRecords
  <2>3. collateral_of \in [Users -> Nat] /\ synthetic_of \in [Users -> Nat]
    BY IssuanceAssumption DEF Init
  <2>4. /\ mint_request \in [Slots -> MintRequests \cup {NoRequest}]
        /\ redeem_request \in [Slots -> RedeemRequests \cup {NoRequest}]
    BY DEF Init
  <2> QED
    BY <2>1, <2>2, <2>3, <2>4 DEF Init, TypeOK, KeeperStandings
<1>2. Sum(MintEscrows) = 0
  BY SumZero DEF Init, MintEscrows
<1>3. Sum(RedeemEscrows) = 0
  BY SumZero DEF Init, RedeemEscrows
<1>4. Sum(synthetic_of) = 0
  BY SumZero DEF Init
<1> QED
  BY <1>1, <1>2, <1>3, <1>4 DEF Init, Accounts, CollateralAccounted, SyntheticAccounted

\* Steps that leave the ledger alone keep the accounts, whatever else they do.
LEMMA LedgerUnchanged ==
    ASSUME Accounts, UNCHANGED ledger, TypeOK'
    PROVE  Accounts'
<1>1. /\ MintEscrows' = MintEscrows
      /\ RedeemEscrows' = RedeemEscrows
  BY DEF ledger, requests, MintEscrows, RedeemEscrows
<1> QED
  BY <1>1 DEF Accounts, CollateralAccounted, SyntheticAccounted, ledger, totals, tokens

LEMMA MintRequestAccounts ==
    ASSUME Accounts, NEW u \in Users, NEW n \in Nonces,
           NEW amount \in CollateralAmounts, NEW min_out \in MinOuts,
           MintRequest(u, n, amount, min_out)
    PROVE  Accounts'
<1> DEFINE s == <<u, n>>
           r == [ collateral_amount |-> amount,
                  quoted_notional |-> NotionalNow(amount),
                  min_synthetic_out |-> min_out,
                  deadline |-> now + params.request_ttl_sec ]
<1>0. TypeOK /\ s \in Slots /\ amount \in Nat /\ min_out \in Nat
  BY IssuanceAssumption DEF Accounts, Slots
<1>1. NotionalNow(amount) \in Nat
  BY <1>0, PriceType, NotionalRoundsDown DEF NotionalNow
<1>2. r \in MintRequests
  BY <1>0, <1>1, ParamTypes DEF MintRequests, TypeOK
<1>3. /\ mint_request[s] = NoRequest
      /\ mint_request' = [mint_request EXCEPT ![s] = r]
  BY DEF MintRequest
<1>4. Sum(MintEscrows') = Sum(MintEscrows) + amount
  <2> HIDE DEF s
  <2>1. r.collateral_amount = amount
    OBVIOUS
  <2> HIDE DEF r
  <2> QED
    BY <1>0, <1>2, <1>3, <2>1, MintOpened
<1>5. RedeemEscrows' = RedeemEscrows
  BY DEF MintRequest, RedeemEscrows
<1>6. TypeOK'
  <2>1. mint_request' \in [Slots -> MintRequests \cup {NoRequest}]
    <3> HIDE DEF s, r
    <3> QED
      BY <1>0, <1>2, <1>3 DEF TypeOK
  <2>2. collateral_of' \in [Users -> Nat]
    BY <1>0 DEF TypeOK, MintRequest
  <2>3. collateral_vault' \in Nat /\ pending_collateral' \in Nat
    BY <1>0 DEF TypeOK, MintRequest
  <2> QED
    BY <1>0, <2>1, <2>2, <2>3 DEF TypeOK, MintRequest, environment
<1>7. CollateralAccounted'
  BY <1>0, <1>4 DEF Accounts, CollateralAccounted, MintRequest, TypeOK
<1>8. SyntheticAccounted'
  BY <1>5 DEF Accounts, SyntheticAccounted, MintRequest
<1> QED
  BY <1>6, <1>7, <1>8 DEF Accounts

\* What mint_confirm computes, given that its guards hold.
LEMMA MintConfirmFacts ==
    ASSUME TypeOK, NEW u \in Users, NEW n \in Nonces, NEW venue_id, NEW filled,
           MintConfirm(u, n, venue_id, filled)
    PROVE  LET r == mint_request[<<u, n>>]
               effective == Settled(NotionalNow(r.collateral_amount), r.quoted_notional)
           IN  /\ r \in MintRequests
               /\ r.collateral_amount \in Nat
               /\ effective \in Nat
               /\ effective * ScaleDown
                    <= r.collateral_amount * oracle.price * ScaleUp
               /\ NetMinted(effective) \in Nat \ {0}
<1> DEFINE r == mint_request[<<u, n>>]
           now_worth == NotionalNow(r.collateral_amount)
           effective == Settled(now_worth, r.quoted_notional)
<1>1. r \in MintRequests
  BY DEF MintConfirm, TypeOK, Slots
<1>2. r.collateral_amount \in Nat /\ r.quoted_notional \in Nat
  BY <1>1 DEF MintRequests
<1>3. /\ now_worth \in Nat
      /\ now_worth * ScaleDown <= r.collateral_amount * oracle.price * ScaleUp
  BY <1>2, PriceType, NotionalRoundsDown DEF NotionalNow
<1>4. NetMinted(effective) > 0
  BY DEF MintConfirm
<1> HIDE DEF r, now_worth
<1>5. effective \in Nat /\ effective <= now_worth
  BY <1>2, <1>3 DEF Settled, Lower
<1> HIDE DEF effective
<1>6. effective * ScaleDown <= now_worth * ScaleDown
  BY <1>3, <1>5, ScaleAssumption, ProductMonotone
<1>7. effective * ScaleDown <= r.collateral_amount * oracle.price * ScaleUp
  <2>1. r.collateral_amount * oracle.price * ScaleUp \in Nat
    BY <1>2, PriceType, ScaleAssumption
  <2>2. effective * ScaleDown \in Nat /\ now_worth * ScaleDown \in Nat
    BY <1>3, <1>5, ScaleAssumption
  <2> QED
    BY <1>3, <1>6, <2>1, <2>2
<1>8. NetMinted(effective) \in Nat \ {0}
  BY <1>4, <1>5, NetMintedBound
<1> QED
  BY <1>1, <1>2, <1>5, <1>7, <1>8 DEF r, now_worth, effective

LEMMA MintConfirmAccounts ==
    ASSUME Accounts, NEW u \in Users, NEW n \in Nonces,
           NEW venue_id \in Venues, NEW filled \in Fills,
           MintConfirm(u, n, venue_id, filled)
    PROVE  Accounts'
<1> DEFINE s == <<u, n>>
           r == mint_request[s]
           amount == r.collateral_amount
           net == NetMinted(Settled(NotionalNow(amount), r.quoted_notional))
<1>0. TypeOK /\ s \in Slots /\ filled \in Nat
  BY IssuanceAssumption DEF Accounts, Slots
<1>1. amount \in Nat /\ net \in Nat
  BY <1>0, MintConfirmFacts
<1>2. r # NoRequest /\ mint_request' = [mint_request EXCEPT ![s] = NoRequest]
  BY DEF MintConfirm
<1>3. /\ collateral_vault' = collateral_vault
      /\ pending_collateral' = pending_collateral - amount
      /\ total_collateral' = total_collateral + amount
      /\ synthetic_of' = [synthetic_of EXCEPT ![u] = synthetic_of[u] + net]
      /\ synthetic_supply' = synthetic_supply + net
      /\ total_synthetic' = total_synthetic + net
      /\ hedged_notional' = hedged_notional + filled
      /\ UNCHANGED <<environment, pending_redeem_synthetic, redeem_escrow,
                     collateral_of, redeem_request>>
  BY DEF MintConfirm
<1>5. RedeemEscrows' = RedeemEscrows
  BY <1>3 DEF RedeemEscrows
<1> HIDE DEF s, net
<1>4. /\ amount <= Sum(MintEscrows)
      /\ Sum(MintEscrows') = Sum(MintEscrows) - amount
  BY <1>0, <1>2, MintClosed
<1> HIDE DEF r
<1>6. /\ synthetic_of' \in [Users -> Nat]
      /\ Sum(synthetic_of) \in Nat
      /\ Sum(synthetic_of') = Sum(synthetic_of) + net
  <2>1. synthetic_of[u] \in Nat /\ synthetic_of[u] + net \in Nat
    BY <1>0, <1>1 DEF TypeOK
  <2>2. synthetic_of' = [synthetic_of EXCEPT ![u] = synthetic_of[u] + net]
    BY <1>3
  <2>3. /\ synthetic_of' \in [Users -> Nat]
        /\ Sum(synthetic_of) \in Nat
        /\ Sum(synthetic_of') = Sum(synthetic_of) - synthetic_of[u] + (synthetic_of[u] + net)
    BY <1>0, <2>1, <2>2, BalanceChanged
  <2> QED
    BY <1>1, <2>1, <2>3
<1>7. pending_collateral' \in Nat
  BY <1>0, <1>1, <1>3, <1>4 DEF Accounts, CollateralAccounted, TypeOK
<1>8. TypeOK'
  <2>1. mint_request' \in [Slots -> MintRequests \cup {NoRequest}]
    BY <1>0, <1>2 DEF TypeOK
  <2> QED
    BY <1>0, <1>1, <1>3, <1>6, <1>7, <2>1 DEF TypeOK, environment
<1>9. CollateralAccounted'
  BY <1>0, <1>1, <1>3, <1>4 DEF Accounts, CollateralAccounted, TypeOK
<1>10. SyntheticAccounted'
  BY <1>0, <1>1, <1>3, <1>5, <1>6 DEF Accounts, SyntheticAccounted, TypeOK
<1> QED
  BY <1>8, <1>9, <1>10 DEF Accounts

LEMMA MintCancelAccounts ==
    ASSUME Accounts, NEW u \in Users, NEW n \in Nonces, MintCancel(u, n)
    PROVE  Accounts'
<1> DEFINE s == <<u, n>>
           r == mint_request[s]
           amount == r.collateral_amount
<1>0. TypeOK /\ s \in Slots
  BY DEF Accounts, Slots
<1>1. r # NoRequest /\ mint_request' = [mint_request EXCEPT ![s] = NoRequest]
  BY DEF MintCancel
<1>2. /\ collateral_of' = [collateral_of EXCEPT ![u] = collateral_of[u] + amount]
      /\ collateral_vault' = collateral_vault - amount
      /\ pending_collateral' = pending_collateral - amount
      /\ UNCHANGED <<environment, total_collateral, total_synthetic,
                     pending_redeem_synthetic, hedged_notional, redeem_escrow,
                     synthetic_supply, synthetic_of, redeem_request>>
  BY DEF MintCancel
<1> HIDE DEF s
<1>3. /\ amount \in Nat
      /\ amount <= Sum(MintEscrows)
      /\ Sum(MintEscrows') = Sum(MintEscrows) - amount
  BY <1>0, <1>1, MintClosed
<1>4. RedeemEscrows' = RedeemEscrows
  BY <1>2 DEF RedeemEscrows
<1> HIDE DEF r
<1>5. collateral_vault' \in Nat /\ pending_collateral' \in Nat
  BY <1>0, <1>2, <1>3 DEF Accounts, CollateralAccounted, TypeOK
<1>6. TypeOK'
  <2>1. mint_request' \in [Slots -> MintRequests \cup {NoRequest}]
    BY <1>0, <1>1 DEF TypeOK
  <2>2. collateral_of' \in [Users -> Nat]
    BY <1>0, <1>2, <1>3 DEF TypeOK
  <2> QED
    BY <1>0, <1>2, <1>5, <2>1, <2>2 DEF TypeOK, environment
<1>7. CollateralAccounted'
  BY <1>0, <1>2, <1>3 DEF Accounts, CollateralAccounted, TypeOK
<1>8. SyntheticAccounted'
  BY <1>2, <1>4 DEF Accounts, SyntheticAccounted
<1> QED
  BY <1>6, <1>7, <1>8 DEF Accounts

LEMMA RedeemRequestAccounts ==
    ASSUME Accounts, NEW u \in Users, NEW n \in Nonces,
           NEW amount \in SyntheticAmounts, NEW min_out \in MinOuts,
           RedeemRequest(u, n, amount, min_out)
    PROVE  Accounts'
<1> DEFINE s == <<u, n>>
           r == [ synthetic_amount |-> amount,
                  quoted_collateral |-> CollateralNow(NetRedeemed(amount)),
                  min_collateral_out |-> min_out, created_at |-> now,
                  deadline |-> now + params.request_ttl_sec ]
<1>0. TypeOK /\ s \in Slots /\ amount \in Nat /\ min_out \in Nat
  BY IssuanceAssumption DEF Accounts, Slots
<1>1. NetRedeemed(amount) \in Nat
  BY <1>0, NetRedeemedBound DEF RedeemRequest
<1>2. CollateralNow(NetRedeemed(amount)) \in Nat
  BY <1>0, <1>1, PriceType, CollateralRoundsDown DEF CollateralNow
<1>3. r \in RedeemRequests
  BY <1>0, <1>2, ParamTypes DEF RedeemRequests, TypeOK
<1>4. /\ redeem_request[s] = NoRequest
      /\ redeem_request' = [redeem_request EXCEPT ![s] = r]
  BY DEF RedeemRequest
<1>5. /\ amount <= synthetic_of[u]
      /\ synthetic_of' = [synthetic_of EXCEPT ![u] = synthetic_of[u] - amount]
      /\ redeem_escrow' = redeem_escrow + amount
      /\ pending_redeem_synthetic' = pending_redeem_synthetic + amount
      /\ UNCHANGED <<environment, total_collateral, pending_collateral,
                     total_synthetic, hedged_notional, collateral_vault,
                     synthetic_supply, collateral_of, mint_request>>
  BY DEF RedeemRequest
<1>6. Sum(RedeemEscrows') = Sum(RedeemEscrows) + amount
  <2> HIDE DEF s
  <2>1. r.synthetic_amount = amount
    OBVIOUS
  <2> HIDE DEF r
  <2> QED
    BY <1>0, <1>3, <1>4, <2>1, RedeemOpened
<1>7. MintEscrows' = MintEscrows
  BY <1>5 DEF MintEscrows
<1>8. /\ synthetic_of' \in [Users -> Nat]
      /\ Sum(synthetic_of) \in Nat
      /\ Sum(synthetic_of') = Sum(synthetic_of) - amount
  <2>1. synthetic_of[u] \in Nat /\ synthetic_of[u] - amount \in Nat
    BY <1>0, <1>5 DEF TypeOK
  <2>2. synthetic_of' = [synthetic_of EXCEPT ![u] = synthetic_of[u] - amount]
    BY <1>5
  <2>3. /\ synthetic_of' \in [Users -> Nat]
        /\ Sum(synthetic_of) \in Nat
        /\ Sum(synthetic_of') = Sum(synthetic_of) - synthetic_of[u] + (synthetic_of[u] - amount)
    BY <1>0, <2>1, <2>2, BalanceChanged
  <2> QED
    BY <1>0, <2>1, <2>3
<1>9. TypeOK'
  <2>1. redeem_request' \in [Slots -> RedeemRequests \cup {NoRequest}]
    <3> HIDE DEF s, r
    <3> QED
      BY <1>0, <1>3, <1>4 DEF TypeOK
  <2> QED
    BY <1>0, <1>5, <1>8, <2>1 DEF TypeOK, environment
<1>10. CollateralAccounted'
  BY <1>5, <1>7 DEF Accounts, CollateralAccounted
<1>11. SyntheticAccounted'
  BY <1>0, <1>5, <1>6, <1>8 DEF Accounts, SyntheticAccounted, TypeOK
<1> QED
  BY <1>9, <1>10, <1>11 DEF Accounts

\* What redeem_confirm pays: a natural number, worth at the current price no
\* more than the synthetic it burns, and no more than the request was quoted.
LEMMA RedeemConfirmFacts ==
    ASSUME TypeOK, NEW u \in Users, NEW n \in Nonces, NEW unwound,
           RedeemConfirm(u, n, unwound)
    PROVE  LET r == redeem_request[<<u, n>>]
               amount == r.synthetic_amount
               effective == Settled(CollateralNow(NetRedeemed(amount)),
                                  r.quoted_collateral)
           IN  /\ r \in RedeemRequests
               /\ amount \in Nat
               /\ effective \in Nat
               /\ effective <= r.quoted_collateral
               /\ effective <= total_collateral
               /\ effective * oracle.price * ScaleUp <= amount * ScaleDown
<1> DEFINE r == redeem_request[<<u, n>>]
           amount == r.synthetic_amount
           net == NetRedeemed(amount)
           now_worth == CollateralNow(net)
           effective == Settled(now_worth, r.quoted_collateral)
<1>1. r \in RedeemRequests
  BY DEF RedeemConfirm, TypeOK, Slots
<1>2. amount \in Nat /\ r.quoted_collateral \in Nat
  BY <1>1 DEF RedeemRequests
<1>3. net >= 0 /\ effective <= total_collateral
  BY DEF RedeemConfirm
<1> HIDE DEF r
<1>4. net \in Nat /\ net <= amount
  BY <1>2, <1>3, NetRedeemedBound
<1> HIDE DEF net, amount
<1>5. now_worth \in Nat /\ now_worth * oracle.price * ScaleUp <= net * ScaleDown
  BY <1>4, PriceType, CollateralRoundsDown DEF CollateralNow
<1> HIDE DEF now_worth
<1>6. effective \in Nat /\ effective <= now_worth /\ effective <= r.quoted_collateral
  BY <1>2, <1>5 DEF Settled, Lower
<1>7. effective <= total_collateral
  BY <1>3
<1> HIDE DEF effective
<1>8. effective * oracle.price * ScaleUp <= amount * ScaleDown
  <2> DEFINE unit == oracle.price * ScaleUp
  <2>1. unit \in Nat
    BY PriceType, ScaleAssumption
  <2>2. effective * unit <= now_worth * unit /\ effective * unit \in Nat
    BY <1>5, <1>6, <2>1, ProductMonotone
  <2>3. net * ScaleDown <= amount * ScaleDown /\ net * ScaleDown \in Nat
    BY <1>2, <1>4, ScaleAssumption, ProductMonotone
  <2>4. /\ effective * oracle.price * ScaleUp = effective * unit
        /\ now_worth * oracle.price * ScaleUp = now_worth * unit
    BY <1>5, <1>6, PriceType, ScaleAssumption
  <2>5. now_worth * unit \in Nat /\ amount * ScaleDown \in Nat
    BY <1>2, <1>5, <2>1, ScaleAssumption
  <2> HIDE DEF unit
  <2> QED
    BY <1>5, <2>2, <2>3, <2>4, <2>5
<1> QED
  BY <1>1, <1>2, <1>6, <1>7, <1>8 DEF r, amount, net, now_worth, effective

LEMMA RedeemConfirmAccounts ==
    ASSUME Accounts, NEW u \in Users, NEW n \in Nonces, NEW unwound \in Fills,
           RedeemConfirm(u, n, unwound)
    PROVE  Accounts'
<1> DEFINE s == <<u, n>>
           r == redeem_request[s]
           amount == r.synthetic_amount
           paid == Settled(CollateralNow(NetRedeemed(amount)), r.quoted_collateral)
<1>0. TypeOK /\ s \in Slots /\ unwound \in Nat
  BY IssuanceAssumption DEF Accounts, Slots
<1>1. paid \in Nat /\ paid <= total_collateral
  BY <1>0, RedeemConfirmFacts
<1>2. r # NoRequest /\ redeem_request' = [redeem_request EXCEPT ![s] = NoRequest]
  BY DEF RedeemConfirm
<1>3. /\ redeem_escrow' = redeem_escrow - amount
      /\ synthetic_supply' = synthetic_supply - amount
      /\ collateral_vault' = collateral_vault - paid
      /\ collateral_of' = [collateral_of EXCEPT ![u] = collateral_of[u] + paid]
      /\ pending_redeem_synthetic' = pending_redeem_synthetic - amount
      /\ total_synthetic' = total_synthetic - amount
      /\ total_collateral' = total_collateral - paid
      /\ hedged_notional' = MonusSaturating(hedged_notional, unwound)
      /\ UNCHANGED <<environment, pending_collateral, synthetic_of, mint_request>>
  BY DEF RedeemConfirm
<1>4. MintEscrows' = MintEscrows
  BY <1>3 DEF MintEscrows
<1> HIDE DEF s, paid
<1>5. /\ amount \in Nat
      /\ amount <= Sum(RedeemEscrows)
      /\ Sum(RedeemEscrows') = Sum(RedeemEscrows) - amount
  BY <1>0, <1>2, RedeemClosed
<1> HIDE DEF r
<1>6. Sum(synthetic_of) \in Nat
  BY <1>0, IssuanceAssumption, SumType DEF TypeOK
<1>7. /\ redeem_escrow' \in Nat /\ pending_redeem_synthetic' \in Nat
      /\ total_synthetic' \in Nat /\ synthetic_supply' \in Nat
  BY <1>0, <1>3, <1>5, <1>6 DEF Accounts, SyntheticAccounted, TypeOK
<1>8. collateral_vault' \in Nat /\ total_collateral' \in Nat
  BY <1>0, <1>1, <1>3 DEF Accounts, CollateralAccounted, TypeOK
<1>9. TypeOK'
  <2>1. redeem_request' \in [Slots -> RedeemRequests \cup {NoRequest}]
    BY <1>0, <1>2 DEF TypeOK
  <2>2. collateral_of' \in [Users -> Nat]
    BY <1>0, <1>1, <1>3 DEF TypeOK
  <2>3. hedged_notional' \in Nat
    BY <1>0, <1>3 DEF TypeOK, MonusSaturating
  <2> QED
    BY <1>0, <1>3, <1>7, <1>8, <2>1, <2>2, <2>3 DEF TypeOK, environment
<1>10. CollateralAccounted'
  BY <1>0, <1>1, <1>3, <1>4 DEF Accounts, CollateralAccounted, TypeOK
<1>11. SyntheticAccounted'
  BY <1>0, <1>3, <1>5, <1>6 DEF Accounts, SyntheticAccounted, TypeOK
<1> QED
  BY <1>9, <1>10, <1>11 DEF Accounts

LEMMA RedeemCancelAccounts ==
    ASSUME Accounts, NEW u \in Users, NEW n \in Nonces, RedeemCancel(u, n)
    PROVE  Accounts'
<1> DEFINE s == <<u, n>>
           r == redeem_request[s]
           amount == r.synthetic_amount
<1>0. TypeOK /\ s \in Slots
  BY DEF Accounts, Slots
<1>1. r # NoRequest /\ redeem_request' = [redeem_request EXCEPT ![s] = NoRequest]
  BY DEF RedeemCancel
<1>2. /\ synthetic_of' = [synthetic_of EXCEPT ![u] = synthetic_of[u] + amount]
      /\ redeem_escrow' = redeem_escrow - amount
      /\ pending_redeem_synthetic' = pending_redeem_synthetic - amount
      /\ UNCHANGED <<environment, total_collateral, pending_collateral,
                     total_synthetic, hedged_notional, collateral_vault,
                     synthetic_supply, collateral_of, mint_request>>
  BY DEF RedeemCancel
<1>3. MintEscrows' = MintEscrows
  BY <1>2 DEF MintEscrows
<1> HIDE DEF s
<1>4. /\ amount \in Nat
      /\ amount <= Sum(RedeemEscrows)
      /\ Sum(RedeemEscrows') = Sum(RedeemEscrows) - amount
  BY <1>0, <1>1, RedeemClosed
<1> HIDE DEF r
<1>5. /\ synthetic_of' \in [Users -> Nat]
      /\ Sum(synthetic_of) \in Nat
      /\ Sum(synthetic_of') = Sum(synthetic_of) + amount
  <2>1. synthetic_of[u] \in Nat /\ synthetic_of[u] + amount \in Nat
    BY <1>0, <1>4 DEF TypeOK
  <2>2. synthetic_of' = [synthetic_of EXCEPT ![u] = synthetic_of[u] + amount]
    BY <1>2
  <2>3. /\ synthetic_of' \in [Users -> Nat]
        /\ Sum(synthetic_of) \in Nat
        /\ Sum(synthetic_of') = Sum(synthetic_of) - synthetic_of[u] + (synthetic_of[u] + amount)
    BY <1>0, <2>1, <2>2, BalanceChanged
  <2> QED
    BY <1>4, <2>1, <2>3
<1>6. redeem_escrow' \in Nat /\ pending_redeem_synthetic' \in Nat
  BY <1>0, <1>2, <1>4 DEF Accounts, SyntheticAccounted, TypeOK
<1>7. TypeOK'
  <2>1. redeem_request' \in [Slots -> RedeemRequests \cup {NoRequest}]
    BY <1>0, <1>1 DEF TypeOK
  <2> QED
    BY <1>0, <1>2, <1>5, <1>6, <2>1 DEF TypeOK, environment
<1>8. CollateralAccounted'
  BY <1>2, <1>3 DEF Accounts, CollateralAccounted
<1>9. SyntheticAccounted'
  BY <1>0, <1>2, <1>4, <1>5 DEF Accounts, SyntheticAccounted, TypeOK
<1> QED
  BY <1>7, <1>8, <1>9 DEF Accounts

\* A transfer moves what one user holds to another; the sum stays.
LEMMA TransferAccounts ==
    ASSUME Accounts, NEW u \in Users, NEW w \in Users,
           NEW amount \in SyntheticAmounts, SyntheticTransfer(u, w, amount)
    PROVE  Accounts'
<1> DEFINE mid == [synthetic_of EXCEPT ![u] = synthetic_of[u] - amount]
           end == [mid EXCEPT ![w] = synthetic_of[w] + amount]
<1>0. TypeOK /\ amount \in Nat /\ IsFiniteSet(Users)
  BY IssuanceAssumption DEF Accounts
<1>1. /\ u # w /\ amount <= synthetic_of[u]
      /\ synthetic_of' = end
      /\ UNCHANGED <<environment, totals, collateral_vault, redeem_escrow,
                     synthetic_supply, collateral_of, requests>>
  BY <1>0 DEF SyntheticTransfer, TypeOK
<1>2. synthetic_of \in [Users -> Nat]
  BY <1>0 DEF TypeOK
<1>3. mid \in [Users -> Nat]
  BY <1>0, <1>1, <1>2
<1>4. Sum(mid) = Sum(synthetic_of) - amount
  <2>1. /\ \A v \in Users \ {u} : mid[v] = synthetic_of[v]
        /\ mid[u] = synthetic_of[u] - amount
    BY <1>2
  <2> HIDE DEF mid
  <2>2. Sum(mid) = Sum(synthetic_of) - synthetic_of[u] + mid[u]
    BY <1>0, <1>2, <1>3, <2>1, SumUpdate
  <2>3. Sum(synthetic_of) \in Nat /\ synthetic_of[u] \in Nat
    BY <1>0, <1>2, SumType
  <2> QED
    BY <1>0, <2>1, <2>2, <2>3
<1>5. mid[w] = synthetic_of[w]
  BY <1>1, <1>2
<1> HIDE DEF mid
<1>6. end \in [Users -> Nat] /\ Sum(end) = Sum(mid) + amount
  <2>1. synthetic_of[w] + amount \in Nat /\ mid[w] \in Nat
    BY <1>0, <1>2, <1>3
  <2>2. /\ end \in [Users -> Nat]
        /\ \A v \in Users \ {w} : end[v] = mid[v]
        /\ end[w] = synthetic_of[w] + amount
    BY <1>3, <2>1
  <2> HIDE DEF end
  <2>3. Sum(end) = Sum(mid) - mid[w] + end[w]
    BY <1>0, <1>3, <2>2, SumUpdate
  <2>4. Sum(mid) \in Nat
    BY <1>0, <1>3, SumType
  <2> QED
    BY <1>0, <1>5, <2>1, <2>2, <2>3, <2>4
<1> HIDE DEF end
<1>7. Sum(synthetic_of) \in Nat
  BY <1>0, <1>2, SumType
<1>8. Sum(synthetic_of') = Sum(synthetic_of)
  BY <1>0, <1>1, <1>4, <1>6, <1>7
<1>9. TypeOK'
  BY <1>0, <1>1, <1>6 DEF TypeOK, environment, totals, requests
<1>10. MintEscrows' = MintEscrows /\ RedeemEscrows' = RedeemEscrows
  BY <1>1 DEF MintEscrows, RedeemEscrows, requests
<1>11. CollateralAccounted' /\ SyntheticAccounted'
  BY <1>1, <1>8, <1>10
  DEF Accounts, CollateralAccounted, SyntheticAccounted, totals
<1> QED
  BY <1>9, <1>11 DEF Accounts

\* A rebalance proof replaces the hedge and nothing else.
LEMMA RebalanceAccounts ==
    ASSUME Accounts, NEW hedged \in Fills, RebalanceProof(hedged)
    PROVE  Accounts'
<1>1. TypeOK'
  BY IssuanceAssumption
  DEF Accounts, TypeOK, RebalanceProof, environment, tokens, requests
<1>2. MintEscrows' = MintEscrows /\ RedeemEscrows' = RedeemEscrows
  BY DEF RebalanceProof, MintEscrows, RedeemEscrows, requests
<1>3. CollateralAccounted' /\ SyntheticAccounted'
  BY <1>2 DEF Accounts, CollateralAccounted, SyntheticAccounted, RebalanceProof, tokens
<1> QED
  BY <1>1, <1>3 DEF Accounts

\* The steps of the world and of the other instructions keep every type.
LEMMA EnvironmentTypes ==
    ASSUME TypeOK,
           \/ OracleStep
           \/ \E k \in KeeperStandings : KeeperStandingChanges(k)
           \/ \E m, r \in BOOLEAN : SetPaused(m, r)
           \/ \E p \in ParamSets : SetParams(p)
           \/ \E v \in Venues, r \in Carries, c \in Capacities : Report(v, r, c)
           \/ Wait
    PROVE  TypeOK' /\ UNCHANGED ledger
<1> USE DEF TypeOK, ledger, totals, tokens, requests
<1>1. ASSUME OracleStep PROVE TypeOK' /\ UNCHANGED ledger
  <2>1. ASSUME NEW p \in Prices, NEW c \in Confidences, NEW b \in BOOLEAN,
               NEW t \in Nat,
               oracle' = [price |-> p, conf |-> c, publish_time |-> t, usable |-> b]
        PROVE  oracle' \in OracleRecords
    BY <2>1 DEF OracleRecords
  <2>2. ASSUME NEW p \in Prices, NEW c \in Confidences, NEW b \in BOOLEAN,
               OraclePublish(p, c, b)
        PROVE  TypeOK' /\ UNCHANGED ledger
    BY <2>1, <2>2 DEF OraclePublish
  <2>3. ASSUME NEW p \in Prices, NEW c \in Confidences, NEW b \in BOOLEAN,
               NEW t \in PublishTimes, SetOracle(p, c, t, b)
        PROVE  TypeOK' /\ UNCHANGED ledger
    BY <2>1, <2>3, IssuanceAssumption DEF SetOracle
  <2> QED
    BY <1>1, <2>2, <2>3 DEF OracleStep
<1>2. ASSUME NEW k \in KeeperStandings, KeeperStandingChanges(k)
      PROVE  TypeOK' /\ UNCHANGED ledger
  BY <1>2 DEF KeeperStandingChanges
<1>3. ASSUME NEW m \in BOOLEAN, NEW r \in BOOLEAN, SetPaused(m, r)
      PROVE  TypeOK' /\ UNCHANGED ledger
  BY <1>3 DEF SetPaused
<1>4. ASSUME NEW p \in ParamSets, SetParams(p)
      PROVE  TypeOK' /\ UNCHANGED ledger
  BY <1>4 DEF SetParams
<1>5. ASSUME NEW v \in Venues, NEW r \in Carries, NEW c \in Capacities, Report(v, r, c)
      PROVE  TypeOK' /\ UNCHANGED ledger
  <2>1. Lower(c, params.max_reportable_capacity_notional) \in Nat
    BY ParamTypes, VenueAssumption DEF Lower
  <2>2. RegimeClock(r) \in Nat
    BY DEF RegimeClock, VenueRecords
  <2>3. venue' \in VenueRecords
    BY <1>5, <2>1, <2>2, VenueAssumption DEF Report, ReportVenueState, VenueRecords
  <2> QED
    BY <1>5, <2>3 DEF Report
<1>6. ASSUME Wait PROVE TypeOK' /\ UNCHANGED ledger
  BY <1>6 DEF Wait, Tick
<1> QED
  BY <1>1, <1>2, <1>3, <1>4, <1>5, <1>6

LEMMA AccountsNext == Accounts /\ [Next]_vars => Accounts'
<1> SUFFICES ASSUME Accounts, [Next]_vars PROVE Accounts'
  OBVIOUS
<1>1. ASSUME NEW u \in Users, NEW n \in Nonces, UserStep(u, n) PROVE Accounts'
  BY <1>1, MintRequestAccounts, RedeemRequestAccounts, MintCancelAccounts,
     RedeemCancelAccounts DEF UserStep
<1>2. ASSUME NEW u \in Users, NEW n \in Nonces, KeeperStep(u, n) PROVE Accounts'
  BY <1>2, MintConfirmAccounts, RedeemConfirmAccounts DEF KeeperStep
<1>3. ASSUME EnvironmentStep PROVE Accounts'
  <2>1. ASSUME NEW u \in Users, NEW w \in Users, NEW a \in SyntheticAmounts,
               SyntheticTransfer(u, w, a)
        PROVE  Accounts'
    BY <2>1, TransferAccounts
  <2>3. ASSUME NEW f \in Fills, RebalanceProof(f) PROVE Accounts'
    BY <2>3, RebalanceAccounts
  <2>2. ASSUME TypeOK' /\ UNCHANGED ledger PROVE Accounts'
    BY <2>2, LedgerUnchanged
  <2> QED
    BY <1>3, <2>1, <2>2, <2>3, EnvironmentTypes DEF EnvironmentStep, Accounts
<1>4. ASSUME UNCHANGED vars PROVE Accounts'
  <2>1. UNCHANGED ledger /\ TypeOK'
    BY <1>4 DEF vars, ledger, totals, tokens, requests, environment, Accounts, TypeOK
  <2> QED
    BY <2>1, LedgerUnchanged
<1> QED
  BY <1>1, <1>2, <1>3, <1>4 DEF Next

\* Every handler keeps Config, the token accounts and the open requests in
\* agreement, and every state variable keeps its type.
THEOREM AccountsAlwaysBalance ==
    Spec => [](TypeOK /\ CollateralAccounted /\ SyntheticAccounted)
<1>1. Accounts => TypeOK /\ CollateralAccounted /\ SyntheticAccounted
  BY DEF Accounts
<1> QED
  BY AccountsInit, AccountsNext, <1>1, PTL DEF Spec

\* No subtraction of a handler ever goes below zero, and every field keeps its
\* type.
THEOREM LedgerKeepsTypes == Spec => []TypeOK
BY AccountsAlwaysBalance, PTL

\* Every unit of synthetic is held by a user or in escrow for an open request.
THEOREM SyntheticAlwaysHeld == Spec => []SyntheticAccounted
BY AccountsAlwaysBalance, PTL

-----------------------------------------------------------------------------
(* Backing. *)

\* What one unit of collateral is worth at the lowest price, before the shift.
Unit == LowestPrice * ScaleUp

LEMMA UnitType == Unit \in Nat \ {0} /\ ScaleDown \in Nat \ {0}
BY LowestPriceType, ScaleAssumption DEF Unit

\* The chain of roundings in mint_confirm, as arithmetic: what is issued,
\* valued at the lowest price, never exceeds the deposit.
LEMMA MintArithmetic ==
    ASSUME NEW net \in Nat, NEW gross \in Nat, NEW eff \in Nat, NEW c \in Nat,
           NEW price \in Nat, NEW ratio \in Nat \ {0}, NEW low \in Nat,
           net <= gross,
           gross * ratio <= eff * BPS,
           eff * ScaleDown <= c * price * ScaleUp,
           price * BPS <= low * ratio
    PROVE  net * ScaleDown <= c * low * ScaleUp
<1> DEFINE sd == ScaleDown
           cu == c * ScaleUp
<1>1. sd \in Nat /\ cu \in Nat /\ BPS \in Nat
  BY ScaleAssumption DEF BPS
<1>2. c * price * ScaleUp = price * cu /\ c * low * ScaleUp = low * cu
  BY ScaleAssumption
<1> HIDE DEF sd, cu, BPS
<1>3. (net * ratio) * sd <= (gross * ratio) * sd
  <2>1. net * ratio <= gross * ratio /\ net * ratio \in Nat /\ gross * ratio \in Nat
    BY ProductMonotone
  <2> QED
    BY <1>1, <2>1, ProductMonotone
<1>4. (gross * ratio) * sd <= (eff * BPS) * sd
  <2>1. gross * ratio \in Nat /\ eff * BPS \in Nat
    BY <1>1
  <2> QED
    BY <1>1, <2>1, ProductMonotone
<1>5. (eff * sd) * BPS <= (price * cu) * BPS
  <2>1. eff * sd \in Nat /\ price * cu \in Nat
    BY <1>1
  <2>2. eff * sd <= price * cu
    BY <1>2 DEF sd
  <2> QED
    BY <1>1, <2>1, <2>2, ProductMonotone
<1>6. (price * BPS) * cu <= (low * ratio) * cu
  <2>1. price * BPS \in Nat /\ low * ratio \in Nat
    BY <1>1
  <2> QED
    BY <1>1, <2>1, ProductMonotone
<1>7. /\ (eff * BPS) * sd = (eff * sd) * BPS
      /\ (price * cu) * BPS = (price * BPS) * cu
      /\ (net * ratio) * sd = (net * sd) * ratio
      /\ (low * ratio) * cu = (low * cu) * ratio
  BY <1>1
<1>8. /\ (net * ratio) * sd \in Int /\ (gross * ratio) * sd \in Int
      /\ (eff * BPS) * sd \in Int /\ (price * cu) * BPS \in Int
      /\ (low * ratio) * cu \in Int
      /\ net * sd \in Int /\ low * cu \in Int
  BY <1>1
<1>9. (net * sd) * ratio <= (low * cu) * ratio
  BY <1>3, <1>4, <1>5, <1>6, <1>7, <1>8
<1>10. net * sd <= low * cu
  BY <1>8, <1>9, CancelFactor
<1> QED
  BY <1>2, <1>10 DEF sd

\* A claim fixed at some price is worth no more at the lowest price.
LEMMA ClaimAtLowest ==
    ASSUME NEW paid \in Nat, NEW price \in Prices, NEW worth \in Nat,
           paid * price * ScaleUp <= worth
    PROVE  paid * Unit <= worth
<1>1. LowestPrice <= price /\ LowestPrice \in Nat /\ price \in Nat
  BY LowestPriceType, IssuanceAssumption
<1>2. ScaleUp \in Nat
  BY ScaleAssumption
<1>3. LowestPrice * (paid * ScaleUp) <= price * (paid * ScaleUp)
  <2>1. paid * ScaleUp \in Nat
    BY <1>2
  <2> QED
    BY <1>1, <2>1, ProductMonotone
<1>4. /\ paid * Unit = LowestPrice * (paid * ScaleUp)
      /\ paid * price * ScaleUp = price * (paid * ScaleUp)
  BY <1>1, <1>2 DEF Unit
<1>5. paid * Unit \in Int /\ paid * price * ScaleUp \in Int
  BY <1>1, <1>2, UnitType
<1> QED
  BY <1>3, <1>4, <1>5

\* Backing in terms of Unit.
LEMMA BackingUnit ==
    ASSUME TypeOK
    PROVE  /\ total_collateral * LowestPrice * ScaleUp = total_collateral * Unit
           /\ total_collateral * Unit \in Nat /\ total_synthetic * ScaleDown \in Nat
BY LowestPriceType, ScaleAssumption DEF Unit, TypeOK

LEMMA MintConfirmBacking ==
    ASSUME Accounts, Accounts', Backing, NEW u \in Users, NEW n \in Nonces,
           NEW venue_id \in Venues, NEW filled \in Fills,
           MintConfirm(u, n, venue_id, filled)
    PROVE  Backing'
<1> DEFINE r == mint_request[<<u, n>>]
           c == r.collateral_amount
           eff == Settled(NotionalNow(c), r.quoted_notional)
           net == NetMinted(eff)
<1> SUFFICES ASSUME RatioCoversPrices
             PROVE  total_synthetic' * ScaleDown
                        <= total_collateral' * LowestPrice * ScaleUp
  BY DEF Backing, RatioCoversPrices, LowestPrice
<1>0. TypeOK
  BY DEF Accounts
<1>1. /\ c \in Nat /\ eff \in Nat /\ net \in Nat
      /\ eff * ScaleDown <= c * oracle.price * ScaleUp
  BY <1>0, MintConfirmFacts
<1>2. total_synthetic' = total_synthetic + net /\ total_collateral' = total_collateral + c
  BY DEF MintConfirm
<1> HIDE DEF r, c, eff
<1>3. /\ Gross(eff) \in Nat /\ net <= Gross(eff)
      /\ Gross(eff) * params.collateral_ratio_bps <= eff * BPS
  BY <1>0, <1>1, NetMintedBound
<1> HIDE DEF net
<1>4. oracle.price * BPS <= LowestPrice * params.collateral_ratio_bps
  BY <1>0, PriceType DEF RatioCoversPrices, TypeOK
<1>5. net * ScaleDown <= c * LowestPrice * ScaleUp
  <2>1. /\ oracle.price \in Nat /\ LowestPrice \in Nat
        /\ params.collateral_ratio_bps \in Nat \ {0}
    BY <1>0, PriceType, LowestPriceType, ParamTypes
  <2> QED
    BY <1>1, <1>3, <1>4, <2>1, MintArithmetic
<1>6. total_synthetic * ScaleDown <= total_collateral * LowestPrice * ScaleUp
  BY DEF Backing
<1>7. /\ (total_synthetic + net) * ScaleDown = total_synthetic * ScaleDown + net * ScaleDown
      /\ (total_collateral + c) * LowestPrice * ScaleUp
           = total_collateral * LowestPrice * ScaleUp + c * LowestPrice * ScaleUp
  BY <1>0, <1>1, LowestPriceType, ScaleAssumption DEF TypeOK
<1>8. /\ total_synthetic * ScaleDown \in Int /\ net * ScaleDown \in Int
      /\ total_collateral * LowestPrice * ScaleUp \in Int
      /\ c * LowestPrice * ScaleUp \in Int
  BY <1>0, <1>1, LowestPriceType, ScaleAssumption DEF TypeOK
<1> QED
  BY <1>2, <1>5, <1>6, <1>7, <1>8

LEMMA RedeemConfirmBacking ==
    ASSUME Accounts, Accounts', Backing, NEW u \in Users, NEW n \in Nonces,
           NEW unwound \in Fills, RedeemConfirm(u, n, unwound)
    PROVE  Backing'
<1> DEFINE r == redeem_request[<<u, n>>]
           amount == r.synthetic_amount
           paid == Settled(CollateralNow(NetRedeemed(amount)), r.quoted_collateral)
<1> SUFFICES ASSUME RatioCoversPrices
             PROVE  total_synthetic' * ScaleDown
                        <= total_collateral' * LowestPrice * ScaleUp
  BY DEF Backing, RatioCoversPrices, LowestPrice
<1>0. TypeOK /\ total_synthetic' \in Nat /\ total_collateral' \in Nat
  BY DEF Accounts, TypeOK
<1>1. /\ amount \in Nat /\ paid \in Nat
      /\ paid * oracle.price * ScaleUp <= amount * ScaleDown
  BY <1>0, RedeemConfirmFacts
<1>2. total_synthetic' = total_synthetic - amount /\ total_collateral' = total_collateral - paid
  BY DEF RedeemConfirm
<1> HIDE DEF r, amount, paid
<1>3. amount * ScaleDown \in Nat
  BY <1>1, ScaleAssumption
<1>4. paid * Unit <= amount * ScaleDown
  BY <1>0, <1>1, <1>3, PriceType, ClaimAtLowest
<1>5. total_synthetic * ScaleDown <= total_collateral * Unit
  BY <1>0, BackingUnit DEF Backing
<1>6. /\ (total_synthetic - amount) * ScaleDown = total_synthetic * ScaleDown - amount * ScaleDown
      /\ (total_collateral - paid) * Unit = total_collateral * Unit - paid * Unit
      /\ paid * Unit \in Int
  BY <1>0, <1>1, UnitType DEF TypeOK
<1>7. total_synthetic' * ScaleDown <= total_collateral' * Unit
  BY <1>0, <1>2, <1>3, <1>4, <1>5, <1>6, BackingUnit
<1>8. total_collateral' * LowestPrice * ScaleUp = total_collateral' * Unit
  BY <1>0, LowestPriceType, ScaleAssumption DEF Unit
<1> QED
  BY <1>7, <1>8

\* Any step but the two settlements leaves both totals alone.
LEMMA TotalsUnchanged ==
    ASSUME Accounts, [Next]_vars,
           ~ \E u \in Users, n \in Nonces : KeeperStep(u, n)
    PROVE  UNCHANGED <<total_collateral, total_synthetic>>
<1>1. ASSUME NEW u \in Users, NEW n \in Nonces, UserStep(u, n)
      PROVE  UNCHANGED <<total_collateral, total_synthetic>>
  BY <1>1 DEF UserStep, MintRequest, RedeemRequest, MintCancel, RedeemCancel
<1>2. ASSUME EnvironmentStep
      PROVE  UNCHANGED <<total_collateral, total_synthetic>>
  <2>1. ASSUME NEW u \in Users, NEW w \in Users, NEW a \in SyntheticAmounts,
               SyntheticTransfer(u, w, a)
        PROVE  UNCHANGED <<total_collateral, total_synthetic>>
    BY <2>1 DEF SyntheticTransfer, totals
  <2>3. ASSUME NEW f \in Fills, RebalanceProof(f)
        PROVE  UNCHANGED <<total_collateral, total_synthetic>>
    BY <2>3 DEF RebalanceProof
  <2>2. ASSUME UNCHANGED ledger
        PROVE  UNCHANGED <<total_collateral, total_synthetic>>
    BY <2>2 DEF ledger, totals
  <2> QED
    BY <1>2, <2>1, <2>2, <2>3, EnvironmentTypes DEF EnvironmentStep, Accounts
<1>3. ASSUME UNCHANGED vars
      PROVE  UNCHANGED <<total_collateral, total_synthetic>>
  BY <1>3 DEF vars, ledger, totals
<1> QED
  BY <1>1, <1>2, <1>3 DEF Next

LEMMA BackingNext == Accounts /\ Accounts' /\ Backing /\ [Next]_vars => Backing'
<1> SUFFICES ASSUME Accounts, Accounts', Backing, [Next]_vars PROVE Backing'
  OBVIOUS
<1>1. CASE \E u \in Users, n \in Nonces : KeeperStep(u, n)
  BY <1>1, MintConfirmBacking, RedeemConfirmBacking DEF KeeperStep
<1>2. CASE ~ \E u \in Users, n \in Nonces : KeeperStep(u, n)
  BY <1>2, TotalsUnchanged DEF Backing, RatioCoversPrices, LowestPrice
<1> QED
  BY <1>1, <1>2

LEMMA InitiallyBacked == Init => Backing
<1> SUFFICES ASSUME Init PROVE Backing
  OBVIOUS
<1>1. total_synthetic = 0 /\ total_collateral = 0
  BY DEF Init
<1> QED
  BY <1>1, LowestPriceType, ScaleAssumption DEF Backing

\* For every ratio that covers the fall of the price, every schedule of
\* requests, settlements, price moves and parameter changes keeps the supply
\* backed by the collateral on the books.
THEOREM SupplyIsBacked == Spec => []Backing
BY AccountsInit, AccountsNext, BackingNext, InitiallyBacked, PTL DEF Spec

-----------------------------------------------------------------------------
(* All open redemptions can be paid together. *)

\* What each escrow is worth beyond the quote it carries, at the lowest price.
\* Summing it beside the quotes turns "each quote is within its escrow" into an
\* equation between sums, which one-entry updates preserve.
QuoteSlack ==
    [s \in Slots |-> RedeemEscrows[s] * ScaleDown - RedeemQuotes[s] * Unit]

QuotesWithinEscrows ==
    /\ \A s \in Slots : RedeemQuotes[s] * Unit <= RedeemEscrows[s] * ScaleDown
    /\ Sum(RedeemQuotes) * Unit + Sum(QuoteSlack) = Sum(RedeemEscrows) * ScaleDown

LEMMA SlackType ==
    ASSUME TypeOK,
           \A s \in Slots : RedeemQuotes[s] * Unit <= RedeemEscrows[s] * ScaleDown
    PROVE  QuoteSlack \in [Slots -> Nat] /\ Sum(QuoteSlack) \in Nat
<1>1. ASSUME NEW s \in Slots
      PROVE  RedeemEscrows[s] * ScaleDown - RedeemQuotes[s] * Unit \in Nat
  <2>1. RedeemEscrows[s] \in Nat /\ RedeemQuotes[s] \in Nat
    BY EscrowTypes
  <2>2. RedeemEscrows[s] * ScaleDown \in Nat /\ RedeemQuotes[s] * Unit \in Nat
    BY <2>1, UnitType
  <2>3. RedeemQuotes[s] * Unit <= RedeemEscrows[s] * ScaleDown
    OBVIOUS
  <2> QED
    BY <2>2, <2>3
<1>2. QuoteSlack \in [Slots -> Nat]
  BY <1>1 DEF QuoteSlack
<1> QED
  BY <1>2, SlotsFinite, SumType

\* One entry of each of the three functions changes, by consistent amounts.
LEMMA SlackUpdate ==
    ASSUME TypeOK, TypeOK', QuotesWithinEscrows, NEW s \in Slots,
           NEW e \in Nat, NEW q \in Nat, q * Unit <= e * ScaleDown,
           RedeemEscrows' = [RedeemEscrows EXCEPT ![s] = e],
           RedeemQuotes' = [RedeemQuotes EXCEPT ![s] = q]
    PROVE  QuotesWithinEscrows'
<1> DEFINE E == RedeemEscrows
           Q == RedeemQuotes
           E1 == [RedeemEscrows EXCEPT ![s] = e]
           Q1 == [RedeemQuotes EXCEPT ![s] = q]
           L == QuoteSlack
           L1 == [t \in Slots |-> E1[t] * ScaleDown - Q1[t] * Unit]
<1>1. /\ E \in [Slots -> Nat] /\ Q \in [Slots -> Nat]
      /\ E1 \in [Slots -> Nat] /\ Q1 \in [Slots -> Nat]
  BY EscrowTypes
<1>2. /\ E1[s] = e /\ Q1[s] = q
      /\ \A t \in Slots \ {s} : E1[t] = E[t] /\ Q1[t] = Q[t]
  BY <1>1
<1>3. /\ \A t \in Slots : Q[t] * Unit <= E[t] * ScaleDown
      /\ Sum(Q) * Unit + Sum(L) = Sum(E) * ScaleDown
  BY DEF QuotesWithinEscrows
<1>4. L \in [Slots -> Nat] /\ Sum(L) \in Nat
  BY <1>3, SlackType
<1>5. /\ L[s] = E[s] * ScaleDown - Q[s] * Unit
      /\ L1[s] = e * ScaleDown - q * Unit
  BY <1>2 DEF QuoteSlack
<1>6. \A t \in Slots \ {s} : L1[t] = L[t]
  BY <1>2 DEF QuoteSlack
<1>7. e * ScaleDown - q * Unit \in Nat
  BY UnitType
<1>8. L1 \in [Slots -> Nat]
  <2> HIDE DEF E1, Q1, L
  <2>1. ASSUME NEW t \in Slots PROVE E1[t] * ScaleDown - Q1[t] * Unit \in Nat
    <3>1. CASE t = s
      BY <1>2, <1>7, <3>1
    <3>2. CASE t # s
      <4>1. L1[t] = L[t] /\ L[t] \in Nat
        BY <1>4, <1>6, <3>2
      <4> QED
        BY <4>1
    <3> QED
      BY <3>1, <3>2
  <2> QED
    BY <2>1
<1>9. E' = E1 /\ Q' = Q1 /\ L' = L1
  BY DEF QuoteSlack, Unit, LowestPrice
<1>10. \A t \in Slots : Q1[t] * Unit <= E1[t] * ScaleDown
  <2> HIDE DEF E1, Q1, E, Q
  <2> TAKE t \in Slots
  <2>1. CASE t = s
    BY <1>2, <2>1
  <2>2. CASE t # s
    BY <1>2, <1>3, <2>2
  <2> QED
    BY <2>1, <2>2
<1> HIDE DEF E, Q, L, E1, Q1, L1
<1>11. /\ Sum(E1) = Sum(E) - E[s] + E1[s]
       /\ Sum(Q1) = Sum(Q) - Q[s] + Q1[s]
       /\ Sum(L1) = Sum(L) - L[s] + L1[s]
  BY <1>1, <1>2, <1>4, <1>6, <1>8, SlotsFinite, SumUpdate
<1>12. /\ Sum(E) \in Nat /\ Sum(Q) \in Nat
       /\ E[s] \in Nat /\ Q[s] \in Nat
  BY <1>1, SlotsFinite, SumType
<1>13. Sum(Q1) * Unit + Sum(L1) = Sum(E1) * ScaleDown
  <2>1. /\ Sum(Q1) * Unit = Sum(Q) * Unit - Q[s] * Unit + q * Unit
        /\ Sum(E1) * ScaleDown = Sum(E) * ScaleDown - E[s] * ScaleDown + e * ScaleDown
    BY <1>2, <1>11, <1>12, UnitType
  <2>2. /\ Sum(Q) * Unit \in Int /\ Q[s] * Unit \in Int /\ q * Unit \in Int
        /\ Sum(E) * ScaleDown \in Int /\ E[s] * ScaleDown \in Int
        /\ e * ScaleDown \in Int
    BY <1>12, UnitType
  <2> QED
    BY <1>3, <1>4, <1>5, <1>11, <2>1, <2>2
<1>14. Unit' = Unit
  BY DEF Unit, LowestPrice
<1>15. /\ \A t \in Slots : RedeemQuotes'[t] * Unit <= RedeemEscrows'[t] * ScaleDown
       /\ Sum(RedeemQuotes') * Unit + Sum(QuoteSlack') = Sum(RedeemEscrows') * ScaleDown
  BY <1>9, <1>10, <1>13 DEF E, Q, L
<1> QED
  BY <1>14, <1>15 DEF QuotesWithinEscrows

\* With no request open there is nothing to cover.
LEMMA QuotesInit == Init => QuotesWithinEscrows
<1> SUFFICES ASSUME Init PROVE QuotesWithinEscrows
  OBVIOUS
<1>1. /\ RedeemEscrows = [s \in Slots |-> 0]
      /\ RedeemQuotes = [s \in Slots |-> 0]
  BY DEF Init, RedeemEscrows, RedeemQuotes
<1>2. QuoteSlack = [s \in Slots |-> 0]
  BY <1>1, UnitType DEF QuoteSlack
<1>3. Sum(RedeemEscrows) = 0 /\ Sum(RedeemQuotes) = 0 /\ Sum(QuoteSlack) = 0
  BY <1>1, <1>2, SumZero
<1> QED
  BY <1>1, <1>3, UnitType DEF QuotesWithinEscrows

\* A new request's quote is within its escrow: rounded down, net of the fee.
LEMMA RedeemRequestQuotes ==
    ASSUME Accounts, Accounts', QuotesWithinEscrows, NEW u \in Users, NEW n \in Nonces,
           NEW amount \in SyntheticAmounts, NEW min_out \in MinOuts,
           RedeemRequest(u, n, amount, min_out)
    PROVE  QuotesWithinEscrows'
<1> DEFINE s == <<u, n>>
           net == NetRedeemed(amount)
           quoted == CollateralNow(net)
           r == [ synthetic_amount |-> amount, quoted_collateral |-> quoted,
                  min_collateral_out |-> min_out, created_at |-> now,
                  deadline |-> now + params.request_ttl_sec ]
<1>0. TypeOK /\ TypeOK' /\ s \in Slots /\ amount \in Nat
  BY IssuanceAssumption DEF Accounts, Slots
<1>1. net \in Nat /\ net <= amount
  BY <1>0, NetRedeemedBound DEF RedeemRequest
<1>2. redeem_request' = [redeem_request EXCEPT ![s] = r]
  BY DEF RedeemRequest
<1>3. r # NoRequest
  <2>1. redeem_request'[s] = r
    BY <1>0, <1>2 DEF TypeOK
  <2>2. quoted \in Nat
    BY <1>0, <1>1, PriceType, CollateralRoundsDown DEF CollateralNow
  <2>3. r \in RedeemRequests
    BY <1>0, <2>2, IssuanceAssumption, ParamTypes DEF RedeemRequests, TypeOK
  <2> QED
    BY <2>3, IssuanceAssumption
<1>4. /\ RedeemEscrows' = [RedeemEscrows EXCEPT ![s] = amount]
      /\ RedeemQuotes' = [RedeemQuotes EXCEPT ![s] = quoted]
  <2>1. r.synthetic_amount = amount /\ r.quoted_collateral = quoted
    OBVIOUS
  <2> HIDE DEF s, r, quoted
  <2> QED
    BY <1>0, <1>2, <1>3, <2>1 DEF RedeemEscrows, RedeemQuotes, TypeOK
<1> HIDE DEF s, r, net
<1>5. quoted \in Nat /\ quoted * oracle.price * ScaleUp <= net * ScaleDown
  BY <1>0, <1>1, PriceType, CollateralRoundsDown DEF CollateralNow
<1> HIDE DEF quoted
<1>6. quoted * oracle.price * ScaleUp <= amount * ScaleDown
  <2>1. net * ScaleDown \in Nat /\ net * ScaleDown <= amount * ScaleDown
    BY <1>0, <1>1, ScaleAssumption, ProductMonotone
  <2>2. quoted * oracle.price * ScaleUp \in Nat /\ amount * ScaleDown \in Nat
    BY <1>0, <1>5, PriceType, ScaleAssumption
  <2> QED
    BY <1>5, <2>1, <2>2
<1>7. quoted * Unit <= amount * ScaleDown
  <2>1. amount * ScaleDown \in Nat /\ oracle.price \in Prices
    BY <1>0, PriceType, ScaleAssumption
  <2> QED
    BY <1>5, <1>6, <2>1, ClaimAtLowest
<1> QED
  BY <1>0, <1>4, <1>5, <1>7, SlackUpdate

\* Settling or cancelling a request removes its quote with its escrow.
LEMMA RequestClosedQuotes ==
    ASSUME Accounts, Accounts', QuotesWithinEscrows, NEW s \in Slots,
           redeem_request' = [redeem_request EXCEPT ![s] = NoRequest]
    PROVE  QuotesWithinEscrows'
<1>0. TypeOK /\ TypeOK'
  BY DEF Accounts
<1>1. /\ RedeemEscrows' = [RedeemEscrows EXCEPT ![s] = 0]
      /\ RedeemQuotes' = [RedeemQuotes EXCEPT ![s] = 0]
  BY <1>0 DEF RedeemEscrows, RedeemQuotes, TypeOK
<1>2. 0 * Unit <= 0 * ScaleDown
  BY UnitType
<1> QED
  BY <1>0, <1>1, <1>2, SlackUpdate

LEMMA QuotesUnchanged ==
    ASSUME QuotesWithinEscrows, UNCHANGED redeem_request
    PROVE  QuotesWithinEscrows'
<1>1. /\ RedeemEscrows' = RedeemEscrows /\ RedeemQuotes' = RedeemQuotes
      /\ QuoteSlack' = QuoteSlack /\ Unit' = Unit
  BY DEF RedeemEscrows, RedeemQuotes, QuoteSlack, Unit, LowestPrice
<1> QED
  BY <1>1 DEF QuotesWithinEscrows

LEMMA QuotesNext ==
    Accounts /\ Accounts' /\ QuotesWithinEscrows /\ [Next]_vars => QuotesWithinEscrows'
<1> SUFFICES ASSUME Accounts, Accounts', QuotesWithinEscrows, [Next]_vars
             PROVE  QuotesWithinEscrows'
  OBVIOUS
<1>1. ASSUME NEW u \in Users, NEW n \in Nonces, UserStep(u, n)
      PROVE  QuotesWithinEscrows'
  <2>1. ASSUME NEW a \in CollateralAmounts, NEW m \in MinOuts, MintRequest(u, n, a, m)
        PROVE  QuotesWithinEscrows'
    BY <2>1, QuotesUnchanged DEF MintRequest
  <2>2. ASSUME MintCancel(u, n) PROVE QuotesWithinEscrows'
    BY <2>2, QuotesUnchanged DEF MintCancel
  <2>3. ASSUME RedeemCancel(u, n) PROVE QuotesWithinEscrows'
    BY <2>3, RequestClosedQuotes DEF RedeemCancel, Slots
  <2> QED
    BY <1>1, <2>1, <2>2, <2>3, RedeemRequestQuotes DEF UserStep
<1>2. ASSUME NEW u \in Users, NEW n \in Nonces, KeeperStep(u, n)
      PROVE  QuotesWithinEscrows'
  <2>1. ASSUME NEW v \in Venues, NEW f \in Fills, MintConfirm(u, n, v, f)
        PROVE  QuotesWithinEscrows'
    BY <2>1, QuotesUnchanged DEF MintConfirm
  <2>2. ASSUME NEW f \in Fills, RedeemConfirm(u, n, f)
        PROVE  QuotesWithinEscrows'
    BY <2>2, RequestClosedQuotes DEF RedeemConfirm, Slots
  <2> QED
    BY <1>2, <2>1, <2>2 DEF KeeperStep
<1>3. ASSUME EnvironmentStep PROVE QuotesWithinEscrows'
  <2>1. ASSUME NEW u \in Users, NEW w \in Users, NEW a \in SyntheticAmounts,
               SyntheticTransfer(u, w, a)
        PROVE  QuotesWithinEscrows'
    BY <2>1, QuotesUnchanged DEF SyntheticTransfer, requests
  <2>3. ASSUME NEW f \in Fills, RebalanceProof(f) PROVE QuotesWithinEscrows'
    BY <2>3, QuotesUnchanged DEF RebalanceProof, requests
  <2>2. ASSUME UNCHANGED ledger PROVE QuotesWithinEscrows'
    BY <2>2, QuotesUnchanged DEF ledger, requests
  <2> QED
    BY <1>3, <2>1, <2>2, <2>3, EnvironmentTypes DEF EnvironmentStep, Accounts
<1>4. ASSUME UNCHANGED vars PROVE QuotesWithinEscrows'
  BY <1>4, QuotesUnchanged DEF vars, ledger, requests
<1> QED
  BY <1>1, <1>2, <1>3, <1>4 DEF Next

\* A backed supply pays for every quote within an escrow that is part of it.
LEMMA QuotesPayable ==
    Accounts /\ Backing /\ QuotesWithinEscrows => RedemptionsPayable
<1> SUFFICES ASSUME Accounts, Backing, QuotesWithinEscrows, RatioCoversPrices
             PROVE  Sum(RedeemQuotes) <= total_collateral
  BY DEF RedemptionsPayable
<1>0. TypeOK
  BY DEF Accounts
<1>1. /\ Sum(RedeemQuotes) \in Nat /\ Sum(RedeemEscrows) \in Nat
      /\ Sum(QuoteSlack) \in Nat /\ Sum(synthetic_of) \in Nat
  BY <1>0, EscrowTypes, SlotsFinite, SumType, SlackType, IssuanceAssumption
  DEF QuotesWithinEscrows, TypeOK
<1>2. Sum(RedeemQuotes) * Unit <= Sum(RedeemEscrows) * ScaleDown
  <2>1. Sum(RedeemQuotes) * Unit + Sum(QuoteSlack) = Sum(RedeemEscrows) * ScaleDown
    BY DEF QuotesWithinEscrows
  <2>2. Sum(RedeemQuotes) * Unit \in Int
    BY <1>1, UnitType
  <2> QED
    BY <1>1, <2>1, <2>2
<1>3. Sum(RedeemEscrows) <= total_synthetic
  BY <1>0, <1>1 DEF Accounts, SyntheticAccounted, TypeOK
<1>4. Sum(RedeemEscrows) * ScaleDown <= total_synthetic * ScaleDown
  BY <1>0, <1>1, <1>3, ScaleAssumption, ProductMonotone DEF TypeOK
<1>5. total_synthetic * ScaleDown <= total_collateral * Unit
  BY <1>0, BackingUnit DEF Backing
<1>6. Sum(RedeemQuotes) * Unit <= total_collateral * Unit
  <2>1. /\ Sum(RedeemQuotes) * Unit \in Int /\ total_collateral * Unit \in Int
        /\ Sum(RedeemEscrows) * ScaleDown \in Int /\ total_synthetic * ScaleDown \in Int
    BY <1>0, <1>1, UnitType DEF TypeOK
  <2> QED
    BY <1>2, <1>4, <1>5, <2>1
<1> QED
  BY <1>0, <1>1, <1>6, UnitType, CancelFactor DEF TypeOK

\* Every redemption in flight can be paid its quote, all of them together, in
\* whatever order the keepers settle them.
THEOREM RedemptionsAlwaysPayable == Spec => []RedemptionsPayable
BY AccountsInit, AccountsNext, InitiallyBacked, BackingNext, QuotesInit,
   QuotesNext, QuotesPayable, PTL DEF Spec

=============================================================================
