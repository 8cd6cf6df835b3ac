---------------------------- MODULE ProtocolProofs ----------------------------
(***************************************************************************)
(* Protocol implements Issuance: issuance over the real registry and the   *)
(* real proofs does nothing its own module does not describe, for any      *)
(* number of users and keepers.  So it keeps what Issuance keeps.  And     *)
(* what a proof in flight overwrites when it lands is bounded.             *)
(***************************************************************************)
EXTENDS Protocol, RegistryProofs

-----------------------------------------------------------------------------
(* Protocol reads Issuance twice, as Handlers and as Described.  The two   *)
(* differ in what they ask of the registry and in nothing else.            *)

\* They compute with the same arithmetic.
LEMMA SameArithmetic ==
    /\ \A x : Handlers!Fits(x) <=> Described!Fits(x)
    /\ \A x : Handlers!Abs(x) = Described!Abs(x)
    /\ \A x, y :
           /\ Handlers!CollateralToNotional(x, y) = Described!CollateralToNotional(x, y)
           /\ Handlers!NotionalToCollateral(x, y) = Described!NotionalToCollateral(x, y)
           /\ Handlers!MulBpsFloor(x, y) = Described!MulBpsFloor(x, y)
           /\ Handlers!MulBpsCeil(x, y) = Described!MulBpsCeil(x, y)
           /\ Handlers!DivBpsFloor(x, y) = Described!DivBpsFloor(x, y)
           /\ Handlers!ConfidenceBps(x, y) = Described!ConfidenceBps(x, y)
           /\ Handlers!DeltaBps(x, y) = Described!DeltaBps(x, y)
           /\ Handlers!Lower(x, y) = Described!Lower(x, y)
           /\ Handlers!MonusSaturating(x, y) = Described!MonusSaturating(x, y)
<1>1. \A x : Handlers!Fits(x) <=> Described!Fits(x)
  BY DEF Handlers!Fits, Described!Fits
<1>2. \A x : Handlers!Abs(x) = Described!Abs(x)
  BY DEF Handlers!Abs, Described!Abs
<1>3. \A x, y : Handlers!CollateralToNotional(x, y) = Described!CollateralToNotional(x, y)
  BY DEF Handlers!CollateralToNotional, Described!CollateralToNotional
<1>4. \A x, y : Handlers!NotionalToCollateral(x, y) = Described!NotionalToCollateral(x, y)
  BY DEF Handlers!NotionalToCollateral, Described!NotionalToCollateral
<1>5. \A x, y : Handlers!MulBpsFloor(x, y) = Described!MulBpsFloor(x, y)
  BY DEF Handlers!MulBpsFloor, Described!MulBpsFloor, Handlers!BPS,
     Described!BPS
<1>6. \A x, y : Handlers!MulBpsCeil(x, y) = Described!MulBpsCeil(x, y)
  BY DEF Handlers!MulBpsCeil, Described!MulBpsCeil, Handlers!BPS,
     Described!BPS
<1>7. \A x, y : Handlers!DivBpsFloor(x, y) = Described!DivBpsFloor(x, y)
  BY DEF Handlers!DivBpsFloor, Described!DivBpsFloor, Handlers!BPS,
     Described!BPS
<1>8. \A x, y : Handlers!ConfidenceBps(x, y) = Described!ConfidenceBps(x, y)
  BY DEF Handlers!ConfidenceBps, Described!ConfidenceBps, Handlers!BPS,
     Described!BPS
<1>9. \A x, y : Handlers!DeltaBps(x, y) = Described!DeltaBps(x, y)
  BY DEF Handlers!DeltaBps, Described!DeltaBps, Handlers!BPS, Described!BPS
<1>10. \A x, y : Handlers!Lower(x, y) = Described!Lower(x, y)
  BY DEF Handlers!Lower, Described!Lower
<1>11. \A x, y : Handlers!MonusSaturating(x, y) = Described!MonusSaturating(x, y)
  BY DEF Handlers!MonusSaturating, Described!MonusSaturating
<1> QED
  BY <1>1, <1>2, <1>3, <1>4, <1>5, <1>6, <1>7, <1>8, <1>9, <1>10, <1>11

\* They read the oracle, the venue state and the parameters alike.
LEMMA SameReadings ==
    /\ Handlers!PriceLoads <=> Described!PriceLoads
    /\ Handlers!IssuanceGates <=> Described!IssuanceGates
    /\ Handlers!RequestsExpireInTime <=> Described!RequestsExpireInTime
    /\ Handlers!SupplyCeiling = Described!SupplyCeiling
    /\ \A x : /\ Handlers!VenueEnabled(x) <=> Described!VenueEnabled(x)
              /\ Handlers!NotionalNow(x) = Described!NotionalNow(x)
              /\ Handlers!CollateralNow(x) = Described!CollateralNow(x)
              /\ Handlers!NetMinted(x) = Described!NetMinted(x)
              /\ Handlers!NetRedeemed(x) = Described!NetRedeemed(x)
              /\ Handlers!RequiredFill(x) = Described!RequiredFill(x)
              /\ Handlers!MaxFill(x) = Described!MaxFill(x)
              /\ Handlers!Live(x) <=> Described!Live(x)
              /\ Handlers!Expired(x) <=> Described!Expired(x)
    /\ \A x, y : Handlers!Settled(x, y) = Described!Settled(x, y)
<1>1. Handlers!PriceLoads <=> Described!PriceLoads
  BY SameArithmetic DEF Handlers!PriceLoads, Described!PriceLoads
<1>2. \A x : /\ Handlers!NotionalNow(x) = Described!NotionalNow(x)
             /\ Handlers!CollateralNow(x) = Described!CollateralNow(x)
  BY SameArithmetic DEF Handlers!NotionalNow, Described!NotionalNow,
     Handlers!CollateralNow, Described!CollateralNow
<1>3. Handlers!VenueStateFresh <=> Described!VenueStateFresh
  BY DEF Handlers!VenueStateFresh, Described!VenueStateFresh
<1>4. Handlers!CarryAboveFloor <=> Described!CarryAboveFloor
  BY DEF Handlers!CarryAboveFloor, Described!CarryAboveFloor
<1>5. Handlers!InsideHardBand <=> Described!InsideHardBand
  BY <1>2, SameArithmetic DEF Handlers!InsideHardBand,
     Described!InsideHardBand
<1>6. Handlers!IssuanceGates <=> Described!IssuanceGates
  BY <1>3, <1>4, <1>5 DEF Handlers!IssuanceGates, Described!IssuanceGates
<1>7. Handlers!RequestsExpireInTime <=> Described!RequestsExpireInTime
  BY DEF Handlers!RequestsExpireInTime, Described!RequestsExpireInTime
<1>8. Handlers!SupplyCeiling = Described!SupplyCeiling
  BY SameArithmetic DEF Handlers!SupplyCeiling, Described!SupplyCeiling
<1>9. \A x : /\ Handlers!VenueEnabled(x) <=> Described!VenueEnabled(x)
             /\ Handlers!Live(x) <=> Described!Live(x)
             /\ Handlers!Expired(x) <=> Described!Expired(x)
  BY DEF Handlers!VenueEnabled, Described!VenueEnabled, Handlers!Live,
     Described!Live, Handlers!Expired, Described!Expired
<1>10. \A x : Handlers!Gross(x) = Described!Gross(x)
  BY SameArithmetic DEF Handlers!Gross, Described!Gross
<1>11. \A x : /\ Handlers!NetMinted(x) = Described!NetMinted(x)
              /\ Handlers!NetRedeemed(x) = Described!NetRedeemed(x)
  BY <1>10, SameArithmetic DEF Handlers!NetMinted, Described!NetMinted,
     Handlers!NetRedeemed, Described!NetRedeemed
<1>12. \A x : /\ Handlers!RequiredFill(x) = Described!RequiredFill(x)
              /\ Handlers!MaxFill(x) = Described!MaxFill(x)
  BY SameArithmetic DEF Handlers!RequiredFill, Described!RequiredFill,
     Handlers!MaxFill, Described!MaxFill, Handlers!BPS, Described!BPS
<1>13. \A x, y : Handlers!Settled(x, y) = Described!Settled(x, y)
  BY SameArithmetic DEF Handlers!Settled, Described!Settled
<1> QED
  BY <1>1, <1>2, <1>6, <1>7, <1>8, <1>9, <1>11, <1>12, <1>13

-----------------------------------------------------------------------------
(* What the registry offers to issuance. *)

LEMMA StandingKept ==
    ASSUME UNCHANGED <<params, registry>>
    PROVE  Standing' = Standing
BY DEF Standing, ActiveAbove, ActiveKeepers, Registered, registry

\* A keeper whose word is taken is active, and bonded at the minimum in force.
LEMMA TrustedIsBonded ==
    ASSUME NEW k \in Keepers, Trusted(k)
    PROVE  Standing = "bonded"
BY DEF Trusted, Standing, ActiveAbove, ActiveKeepers

\* The counter the request handlers look at tells whether any keeper is active.
LEMMA CountedIsStanding ==
    ASSUME RegistryInv, keeper_count > 0
    PROVE  Standing # "none"
<1>1. keeper_count = Cardinality(ActiveKeepers)
  BY DEF RegistryInv, CountIsActiveKeepers
<1>2. ActiveKeepers # {}
  BY <1>1, FS_EmptySet
<1> QED
  BY <1>2 DEF Standing

-----------------------------------------------------------------------------
(* The handlers, one by one. *)

LEMMA MintRequestDescribed ==
    ASSUME NEW u, NEW n, NEW a, NEW m, Handlers!MintRequest(u, n, a, m),
           Standing # "none", Standing' = Standing
    PROVE  Described!MintRequest(u, n, a, m)
BY SameReadings, SameArithmetic
DEF Handlers!MintRequest, Described!MintRequest, Handlers!environment,
    Described!environment

LEMMA RedeemRequestDescribed ==
    ASSUME NEW u, NEW n, NEW a, NEW m, Handlers!RedeemRequest(u, n, a, m),
           Standing # "none", Standing' = Standing
    PROVE  Described!RedeemRequest(u, n, a, m)
BY SameReadings, SameArithmetic
DEF Handlers!RedeemRequest, Described!RedeemRequest, Handlers!environment,
    Described!environment

LEMMA CancelDescribed ==
    ASSUME NEW u, NEW n, Handlers!MintCancel(u, n) \/ Handlers!RedeemCancel(u, n),
           Standing' = Standing
    PROVE  Described!MintCancel(u, n) \/ Described!RedeemCancel(u, n)
<1>1. CASE Handlers!MintCancel(u, n)
  BY <1>1, SameReadings
  DEF Handlers!MintCancel, Described!MintCancel, Handlers!environment,
      Described!environment
<1>2. CASE Handlers!RedeemCancel(u, n)
  BY <1>2, SameReadings
  DEF Handlers!RedeemCancel, Described!RedeemCancel, Handlers!environment,
      Described!environment
<1> QED
  BY <1>1, <1>2

LEMMA MintConfirmDescribed ==
    ASSUME NEW u, NEW n, NEW v, NEW f, Handlers!MintConfirm(u, n, v, f),
           Standing = "bonded", Standing' = Standing
    PROVE  Described!MintConfirm(u, n, v, f)
BY SameReadings, SameArithmetic
DEF Handlers!MintConfirm, Described!MintConfirm, Handlers!environment,
    Described!environment

LEMMA RedeemConfirmDescribed ==
    ASSUME NEW u, NEW n, NEW f, Handlers!RedeemConfirm(u, n, f),
           Standing = "bonded", Standing' = Standing
    PROVE  Described!RedeemConfirm(u, n, f)
BY SameReadings, SameArithmetic
DEF Handlers!RedeemConfirm, Described!RedeemConfirm, Handlers!environment,
    Described!environment

LEMMA RebalanceProofDescribed ==
    ASSUME NEW f, Handlers!RebalanceProof(f),
           Standing = "bonded", Standing' = Standing
    PROVE  Described!RebalanceProof(f)
BY SameReadings, SameArithmetic
DEF Handlers!RebalanceProof, Described!RebalanceProof, Handlers!environment,
    Described!environment, Handlers!tokens, Described!tokens,
    Handlers!requests, Described!requests

LEMMA EnvironmentDescribed ==
    ASSUME Standing' = Standing
    PROVE  /\ \A p, c : Handlers!OraclePublish(p, c, TRUE) =>
                             Described!OraclePublish(p, c, TRUE)
           /\ Handlers!SetPaused(FALSE, FALSE) => Described!SetPaused(FALSE, FALSE)
           /\ \A v, r, c : Handlers!Report(v, r, c) => Described!Report(v, r, c)
<1>1. Handlers!ledger = Described!ledger /\ (Handlers!ledger)' = (Described!ledger)'
  BY DEF Handlers!ledger, Described!ledger, Handlers!totals, Described!totals,
     Handlers!tokens, Described!tokens, Handlers!requests, Described!requests
<1>2. ASSUME NEW p, NEW c, Handlers!OraclePublish(p, c, TRUE)
      PROVE  Described!OraclePublish(p, c, TRUE)
  BY <1>1, <1>2 DEF Handlers!OraclePublish, Described!OraclePublish
<1>3. ASSUME Handlers!SetPaused(FALSE, FALSE)
      PROVE  Described!SetPaused(FALSE, FALSE)
  BY <1>1, <1>3 DEF Handlers!SetPaused, Described!SetPaused
<1>4. ASSUME NEW v, NEW r, NEW c, Handlers!Report(v, r, c)
      PROVE  Described!Report(v, r, c)
  <2>1. Handlers!RegimeClock(r) = Described!RegimeClock(r)
    BY DEF Handlers!RegimeClock, Described!RegimeClock
  <2>2. Handlers!ReportVenueState(v, r, c) <=> Described!ReportVenueState(v, r, c)
    BY <2>1, SameReadings, SameArithmetic
    DEF Handlers!ReportVenueState, Described!ReportVenueState,
        Handlers!CARRY_BPS_LIMIT, Described!CARRY_BPS_LIMIT
  <2> QED
    BY <1>1, <1>4, <2>2 DEF Handlers!Report, Described!Report
<1> QED
  BY <1>2, <1>3, <1>4

LEMMA SetParamsDescribed ==
    ASSUME NEW p, Handlers!SetParams(p), UNCHANGED registry
    PROVE  Described!SetParams(p)
<1>1. (Standing = "none") = (Standing' = "none")
  BY DEF Standing, ActiveKeepers, Registered, registry
<1>2. Standing' \in Described!KeeperStandings
  BY DEF Standing, Described!KeeperStandings
<1> QED
  BY <1>1, <1>2
  DEF Handlers!SetParams, Described!SetParams, Handlers!ledger, Described!ledger,
      Handlers!totals, Described!totals, Handlers!tokens, Described!tokens,
      Handlers!requests, Described!requests

-----------------------------------------------------------------------------
(* The invariant. *)

\* A proof in flight attests a hedge some keeper may hold.
DraftsHedge ==
    /\ draft = [k \in Keepers |-> draft[k]]
    /\ \A k \in Keepers :
           draft[k] # NoDraft =>
               "hedged" \in DOMAIN draft[k] /\ draft[k].hedged \in Hedges

ProtocolInv ==
    /\ RegistryInv /\ params \in ParamSets
    /\ now \in Nat /\ slot \in Nat
    /\ DraftsHedge

\* What overtakes a draft does not change what it attests.
LEMMA DraftsOvertaken ==
    ASSUME DraftsHedge, NEW what, Overtake(what)
    PROVE  DraftsHedge'
<1>1. ASSUME NEW k \in Keepers, draft'[k] # NoDraft
      PROVE  "hedged" \in DOMAIN draft'[k] /\ draft'[k].hedged \in Hedges
  <2>1. draft[k] # NoDraft /\ "hedged" \in DOMAIN draft[k] /\ draft[k].hedged \in Hedges
    BY <1>1 DEF Overtake, DraftsHedge
  <2>2. draft'[k] = [draft[k] EXCEPT !.overtaken = what[draft[k].overtaken]]
    BY <2>1 DEF Overtake
  <2> QED
    BY <2>1, <2>2
<1>2. draft' = [k \in Keepers |-> draft'[k]]
  BY DEF Overtake
<1> QED
  BY <1>1, <1>2 DEF DraftsHedge

LEMMA ProtocolInvInit == Init => ProtocolInv
<1> SUFFICES ASSUME Init PROVE ProtocolInv
  OBVIOUS
<1>1. RegistryInv
  BY RegistryStarts DEF Init
<1>2. now = 1 /\ slot = 1 /\ params \in ParamSets /\ draft = [k \in Keepers |-> NoDraft]
  BY DEF Init, Described!Init
<1> QED
  BY <1>1, <1>2 DEF ProtocolInv, DraftsHedge

\* A proof that lands leaves the registry as it was, but for its keeper's notes.
LEMMA LandKeepsRegistry ==
    ASSUME ProtocolInv, NEW k \in Keepers, NEW v \in Venues, Land(k, v)
    PROVE  /\ RegistryInv' /\ Standing = "bonded" /\ Standing' = Standing
           /\ UNCHANGED <<now, params, slot>>
<1>1. /\ Chain!CommitRebalanceProof(k, draft[k].sequence, v, draft[k].delta,
                                    draft[k].hedged, draft[k].claimed)
      /\ UNCHANGED slot
  BY DEF Land
<1>2. /\ Trusted(k) /\ UNCHANGED <<now, params>>
      /\ keeper_account' =
             [keeper_account EXCEPT ![k].proofs_committed = @ + 1,
                                    ![k].last_proof_at = now,
                                    ![k].last_proof_slot = slot]
      /\ UNCHANGED <<keeper_count, bonded_total, slashed_total,
                     bond_vault, buffer_bond_vault, wallet>>
  BY <1>1 DEF Chain!CommitRebalanceProof, Chain!Trusted, Trusted,
     Chain!Registered, Registered, Chain!world
<1>3. /\ RegistryInv' /\ Bonds' = Bonds /\ ActiveKeepers' = ActiveKeepers
      /\ \A j \in Keepers : Registered(j)' <=> Registered(j)
  BY <1>2, ProofNoted DEF ProtocolInv
<1>4. ActiveAbove(params.min_keeper_bond)' = ActiveAbove(params.min_keeper_bond)
  <2>1. \A j \in ActiveKeepers : keeper_account'[j].bonded = keeper_account[j].bonded
    <3> SUFFICES ASSUME NEW j \in ActiveKeepers
                 PROVE  keeper_account'[j].bonded = keeper_account[j].bonded
      OBVIOUS
    <3>1. j \in Keepers /\ Registered(j) /\ Registered(j)'
      BY <1>3 DEF ActiveKeepers
    <3>2. Bonds[j] = keeper_account[j].bonded /\ Bonds'[j] = keeper_account'[j].bonded
      BY <3>1 DEF Bonds
    <3> QED
      BY <1>3, <3>2
  <2> QED
    BY <1>2, <1>3, <2>1 DEF ActiveAbove
<1>5. Standing' = Standing
  BY <1>3, <1>4 DEF Standing
<1> QED
  BY <1>1, <1>2, <1>3, <1>5, TrustedIsBonded

LEMMA ProtocolInvNext == ProtocolInv /\ [Next]_vars => ProtocolInv'
<1> SUFFICES ASSUME ProtocolInv, [Next]_vars PROVE ProtocolInv'
  OBVIOUS
<1>0. /\ RegistryInv /\ params \in ParamSets /\ now \in Nat /\ slot \in Nat
      /\ DraftsHedge
  BY DEF ProtocolInv
<1>1. ASSUME UNCHANGED registry PROVE RegistryInv'
  BY <1>0, <1>1, RegistryUnchanged
<1>2. ASSUME UNCHANGED draft PROVE DraftsHedge'
  BY <1>0, <1>2 DEF DraftsHedge
<1>3. ASSUME UNCHANGED <<now, params, slot, registry, off_chain>> PROVE ProtocolInv'
  BY <1>0, <1>1, <1>2, <1>3 DEF ProtocolInv, off_chain
<1>4. ASSUME NEW u \in Users, NEW n \in Nonces, UserStep(u, n) PROVE ProtocolInv'
  <2>1. UNCHANGED <<now, params, slot, registry, off_chain>>
    BY <1>4
    DEF UserStep, MintRequest, RedeemRequest, Cancel, Handlers!MintRequest,
        Handlers!RedeemRequest, Handlers!MintCancel, Handlers!RedeemCancel,
        Handlers!environment
  <2> QED
    BY <1>3, <2>1
<1>5. ASSUME NEW k \in Keepers, KeeperStep(k) PROVE ProtocolInv'
  <2>1. ASSUME NEW u \in Users, NEW n \in Nonces, NEW f \in Fills, NEW v \in Venues,
               MintConfirm(k, u, n, v, f)
        PROVE  ProtocolInv'
    <3>1. UNCHANGED <<now, params, slot, registry>> /\ Overtake(ByMint)
      BY <2>1 DEF MintConfirm, Handlers!MintConfirm, Handlers!environment
    <3> QED
      BY <1>0, <1>1, <3>1, DraftsOvertaken DEF ProtocolInv
  <2>2. ASSUME NEW u \in Users, NEW n \in Nonces, NEW f \in Fills,
               RedeemConfirm(k, u, n, f)
        PROVE  ProtocolInv'
    <3>1. UNCHANGED <<now, params, slot, registry>> /\ Overtake(ByAnything)
      BY <2>2 DEF RedeemConfirm, Handlers!RedeemConfirm, Handlers!environment
    <3> QED
      BY <1>0, <1>1, <3>1, DraftsOvertaken DEF ProtocolInv
  <2>3. ASSUME NEW h \in Hedges, Rebalance(k, h) PROVE ProtocolInv'
    <3> DEFINE built == [ sequence |-> rebalance_count, hedged |-> h, claimed |-> Book,
                          delta |-> DeltaBps(Book, h), overtaken |-> "no" ]
    <3>1. /\ UNCHANGED <<now, params, slot, registry>>
          /\ draft' = [j \in Keepers |->
                          IF j = k THEN built
                          ELSE IF draft[j] = NoDraft THEN NoDraft
                          ELSE [draft[j] EXCEPT !.overtaken = "otherwise"]]
      BY <2>3 DEF Rebalance
    <3>2. "hedged" \in DOMAIN built /\ built.hedged \in Hedges
      OBVIOUS
    <3> HIDE DEF built
    <3>3. ASSUME NEW j \in Keepers, draft'[j] # NoDraft
          PROVE  "hedged" \in DOMAIN draft'[j] /\ draft'[j].hedged \in Hedges
      <4>1. CASE j = k
        BY <3>1, <3>2, <4>1
      <4>2. CASE j # k
        <5>1. /\ draft[j] # NoDraft
              /\ draft'[j] = [draft[j] EXCEPT !.overtaken = "otherwise"]
          BY <3>1, <3>3, <4>2
        <5>2. "hedged" \in DOMAIN draft[j] /\ draft[j].hedged \in Hedges
          BY <1>0, <5>1 DEF DraftsHedge
        <5> QED
          BY <5>1, <5>2
      <4> QED
        BY <4>1, <4>2
    <3>4. draft' = [j \in Keepers |-> draft'[j]]
      BY <3>1
    <3> QED
      BY <1>0, <1>1, <3>1, <3>3, <3>4 DEF ProtocolInv, DraftsHedge
  <2>4. ASSUME draft' = [draft EXCEPT ![k] = NoDraft] PROVE DraftsHedge'
    <3>1. ASSUME NEW j \in Keepers, draft'[j] # NoDraft
          PROVE  "hedged" \in DOMAIN draft'[j] /\ draft'[j].hedged \in Hedges
      <4>1. draft'[j] = draft[j]
        BY <1>0, <2>4, <3>1 DEF DraftsHedge
      <4> QED
        BY <1>0, <3>1, <4>1 DEF DraftsHedge
    <3>2. draft' = [j \in Keepers |-> draft'[j]]
      BY <1>0, <2>4 DEF DraftsHedge
    <3> QED
      BY <3>1, <3>2 DEF DraftsHedge
  <2>5. ASSUME NEW v \in Venues, Land(k, v) PROVE ProtocolInv'
    <3>1. draft' = [draft EXCEPT ![k] = NoDraft]
      BY <2>5 DEF Land
    <3>2. RegistryInv' /\ UNCHANGED <<now, params, slot>>
      BY <2>5, LandKeepsRegistry
    <3> QED
      BY <1>0, <2>4, <3>1, <3>2 DEF ProtocolInv
  <2>6. ASSUME Lose(k) PROVE ProtocolInv'
    <3>1. /\ draft' = [draft EXCEPT ![k] = NoDraft]
          /\ UNCHANGED <<now, params, slot, registry>>
      BY <2>6 DEF Lose
    <3> QED
      BY <1>0, <1>1, <2>4, <3>1 DEF ProtocolInv
  <2>7. ASSUME Registry(k) PROVE ProtocolInv'
    <3>1. RegistryStep(k) /\ UNCHANGED <<now, params, slot, draft>>
      BY <2>7 DEF Registry, off_chain
    <3> QED
      BY <1>0, <1>2, <3>1, RegistryStepInv DEF ProtocolInv
  <2> QED
    BY <1>5, <2>1, <2>2, <2>3, <2>5, <2>6, <2>7 DEF KeeperStep
<1>6. ASSUME WorldStep PROVE ProtocolInv'
  <2>1. ASSUME NEW p \in Prices, NEW c \in Confidences, OraclePublish(p, c)
        PROVE  ProtocolInv'
    <3>1. /\ UNCHANGED <<now, params, slot, registry>>
          /\ UNCHANGED draft \/ Overtake(ByAnything)
      BY <2>1 DEF OraclePublish, Handlers!OraclePublish
    <3> QED
      BY <1>0, <1>1, <1>2, <3>1, DraftsOvertaken DEF ProtocolInv
  <2>2. ASSUME NEW p \in ParamSets, SetParams(p) PROVE ProtocolInv'
    <3>1. /\ params' = p /\ UNCHANGED <<now, slot, registry>>
          /\ draft' = [k \in Keepers |->
                          IF draft[k] # NoDraft /\ draft[k].overtaken = "mint"
                          THEN [draft[k] EXCEPT !.overtaken = "otherwise"]
                          ELSE draft[k]]
      BY <2>2 DEF SetParams, Handlers!SetParams
    <3>2. ASSUME NEW j \in Keepers, draft'[j] # NoDraft
          PROVE  "hedged" \in DOMAIN draft'[j] /\ draft'[j].hedged \in Hedges
      <4>1. /\ draft[j] # NoDraft
            /\ \/ draft'[j] = draft[j]
               \/ draft'[j] = [draft[j] EXCEPT !.overtaken = "otherwise"]
        BY <3>1, <3>2
      <4>2. "hedged" \in DOMAIN draft[j] /\ draft[j].hedged \in Hedges
        BY <1>0, <4>1 DEF DraftsHedge
      <4> QED
        BY <4>1, <4>2
    <3>3. draft' = [j \in Keepers |-> draft'[j]]
      BY <3>1
    <3> QED
      BY <1>0, <1>1, <3>1, <3>2, <3>3 DEF ProtocolInv, DraftsHedge
  <2>3. ASSUME Open PROVE ProtocolInv'
    BY <1>3, <2>3 DEF Open, Handlers!SetPaused
  <2>4. ASSUME NEW v \in Venues, NEW r \in Carries, NEW c \in Capacities, Report(v, r, c)
        PROVE  ProtocolInv'
    BY <1>3, <2>4 DEF Report, Handlers!Report
  <2>5. ASSUME NextSlot PROVE ProtocolInv'
    <3>1. /\ now' = now + 1 /\ slot' = slot + 1
          /\ UNCHANGED <<params, registry, draft>>
      BY <2>5 DEF NextSlot, Tick, off_chain
    <3> QED
      BY <1>0, <1>1, <1>2, <3>1 DEF ProtocolInv
  <2> QED
    BY <1>6, <2>1, <2>2, <2>3, <2>4, <2>5 DEF WorldStep
<1>7. ASSUME UNCHANGED vars PROVE ProtocolInv'
  BY <1>3, <1>7 DEF vars
<1> QED
  BY <1>4, <1>5, <1>6, <1>7 DEF Next

-----------------------------------------------------------------------------
(* Every step is a step of Issuance or a stutter. *)

\* What issuance does not see.
LEMMA UnseenByIssuance ==
    ASSUME UNCHANGED <<now, params, issuance, registry>>
    PROVE  UNCHANGED Described!vars
<1>1. Standing' = Standing
  BY StandingKept
<1> QED
  BY <1>1
  DEF issuance, Described!vars, Described!environment, Described!ledger,
      Described!totals, Described!tokens, Described!requests

LEMMA UserStepDescribed ==
    ASSUME ProtocolInv, NEW u \in Users, NEW n \in Nonces, UserStep(u, n)
    PROVE  Described!Next
<1>1. ASSUME UNCHANGED <<params, registry>>, keeper_count > 0
      PROVE  Standing' = Standing /\ Standing # "none"
  BY <1>1, StandingKept, CountedIsStanding DEF ProtocolInv
<1>2. ASSUME NEW a \in CollateralAmounts, NEW m \in MinOuts, MintRequest(u, n, a, m)
      PROVE  Described!MintRequest(u, n, a, m)
  <2>1. /\ Handlers!MintRequest(u, n, a, m) /\ keeper_count > 0
        /\ UNCHANGED <<params, registry>>
    BY <1>2 DEF MintRequest, Handlers!MintRequest, Handlers!environment
  <2> QED
    BY <1>1, <2>1, MintRequestDescribed
<1>3. ASSUME NEW a \in SyntheticAmounts, NEW m \in MinOuts, RedeemRequest(u, n, a, m)
      PROVE  Described!RedeemRequest(u, n, a, m)
  <2>1. /\ Handlers!RedeemRequest(u, n, a, m) /\ keeper_count > 0
        /\ UNCHANGED <<params, registry>>
    BY <1>3 DEF RedeemRequest, Handlers!RedeemRequest, Handlers!environment
  <2> QED
    BY <1>1, <2>1, RedeemRequestDescribed
<1>4. ASSUME Cancel(u, n)
      PROVE  Described!MintCancel(u, n) \/ Described!RedeemCancel(u, n)
  <2>1. /\ Handlers!MintCancel(u, n) \/ Handlers!RedeemCancel(u, n)
        /\ UNCHANGED <<params, registry>>
    BY <1>4
    DEF Cancel, Handlers!MintCancel, Handlers!RedeemCancel, Handlers!environment
  <2> QED
    BY <2>1, StandingKept, CancelDescribed
<1>5. Described!UserStep(u, n)
  BY <1>2, <1>3, <1>4, SameReadings DEF UserStep, Described!UserStep
<1> QED
  BY <1>5 DEF Described!Next

LEMMA KeeperStepDescribed ==
    ASSUME ProtocolInv, NEW k \in Keepers, KeeperStep(k)
    PROVE  Described!Next \/ UNCHANGED Described!vars
<1>1. ASSUME Trusted(k), UNCHANGED <<params, registry>>
      PROVE  Standing' = Standing /\ Standing = "bonded"
  BY <1>1, StandingKept, TrustedIsBonded
<1>2. ASSUME NEW u \in Users, NEW n \in Nonces, NEW f \in Fills, NEW v \in Venues,
             MintConfirm(k, u, n, v, f)
      PROVE  Described!KeeperStep(u, n)
  <2>1. /\ Handlers!MintConfirm(u, n, v, f) /\ Trusted(k)
        /\ UNCHANGED <<params, registry>>
    BY <1>2 DEF MintConfirm, Handlers!MintConfirm, Handlers!environment
  <2>2. Described!MintConfirm(u, n, v, f)
    BY <1>1, <2>1, MintConfirmDescribed
  <2> QED
    BY <2>2 DEF Described!KeeperStep
<1>3. ASSUME NEW u \in Users, NEW n \in Nonces, NEW f \in Fills, RedeemConfirm(k, u, n, f)
      PROVE  Described!KeeperStep(u, n)
  <2>1. /\ Handlers!RedeemConfirm(u, n, f) /\ Trusted(k)
        /\ UNCHANGED <<params, registry>>
    BY <1>3 DEF RedeemConfirm, Handlers!RedeemConfirm, Handlers!environment
  <2>2. Described!RedeemConfirm(u, n, f)
    BY <1>1, <2>1, RedeemConfirmDescribed
  <2> QED
    BY <2>2 DEF Described!KeeperStep
<1>4. ASSUME NEW h \in Hedges, Rebalance(k, h) PROVE UNCHANGED Described!vars
  BY <1>4, UnseenByIssuance DEF Rebalance
<1>5. ASSUME NEW v \in Venues, Land(k, v) PROVE Described!EnvironmentStep
  <2>1. /\ Handlers!RebalanceProof(draft[k].hedged) /\ draft[k].hedged \in Hedges
    BY <1>5 DEF Land, ProtocolInv, DraftsHedge
  <2>2. Standing = "bonded" /\ Standing' = Standing
    BY <1>5, LandKeepsRegistry
  <2>3. Described!RebalanceProof(draft[k].hedged)
    BY <2>1, <2>2, RebalanceProofDescribed
  <2> QED
    BY <2>1, <2>3 DEF Described!EnvironmentStep
<1>6. ASSUME Lose(k) PROVE UNCHANGED Described!vars
  BY <1>6, UnseenByIssuance DEF Lose
<1>7. ASSUME Registry(k) PROVE Described!EnvironmentStep
  <2>1. UNCHANGED <<now, params, issuance>>
    BY <1>7 DEF Registry
  <2>2. PICK standing \in Described!KeeperStandings : standing = Standing'
    BY DEF Standing, Described!KeeperStandings
  <2>3. Described!KeeperStandingChanges(standing)
    BY <2>1, <2>2
    DEF issuance, Described!KeeperStandingChanges, Described!ledger, Described!totals,
        Described!tokens, Described!requests
  <2> QED
    BY <2>3 DEF Described!EnvironmentStep
<1> QED
  BY <1>2, <1>3, <1>4, <1>5, <1>6, <1>7 DEF KeeperStep, Described!Next

LEMMA WorldStepDescribed ==
    ASSUME WorldStep
    PROVE  Described!EnvironmentStep
<1>1. ASSUME NEW p \in Prices, NEW c \in Confidences, OraclePublish(p, c)
      PROVE  Described!OracleStep
  <2>1. Handlers!OraclePublish(p, c, TRUE) /\ UNCHANGED <<params, registry>>
    BY <1>1 DEF OraclePublish, Handlers!OraclePublish
  <2>2. Described!OraclePublish(p, c, TRUE)
    BY <2>1, StandingKept, EnvironmentDescribed
  <2> QED
    BY <2>2 DEF Described!OracleStep
<1>2. ASSUME NEW p \in ParamSets, SetParams(p) PROVE Described!SetParams(p)
  BY <1>2, SetParamsDescribed DEF SetParams
<1>3. ASSUME Open PROVE Described!SetPaused(FALSE, FALSE)
  <2>1. Handlers!SetPaused(FALSE, FALSE) /\ UNCHANGED <<params, registry>>
    BY <1>3 DEF Open, Handlers!SetPaused
  <2> QED
    BY <2>1, StandingKept, EnvironmentDescribed
<1>4. ASSUME NEW v \in Venues, NEW r \in Carries, NEW c \in Capacities, Report(v, r, c)
      PROVE  Described!Report(v, r, c)
  <2>1. Handlers!Report(v, r, c) /\ UNCHANGED <<params, registry>>
    BY <1>4 DEF Report, Handlers!Report
  <2> QED
    BY <2>1, StandingKept, EnvironmentDescribed
<1>5. ASSUME NextSlot PROVE Described!Wait
  <2>1. Tick /\ UNCHANGED <<params, issuance, registry>>
    BY <1>5 DEF NextSlot
  <2>2. Standing' = Standing
    BY <2>1, StandingKept
  <2> QED
    BY <2>1, <2>2
    DEF issuance, Tick, Described!Wait, Described!Tick, Described!ledger,
        Described!totals, Described!tokens, Described!requests
<1> QED
  BY <1>1, <1>2, <1>3, <1>4, <1>5 DEF WorldStep, Described!EnvironmentStep

LEMMA ProtocolStepDescribed ==
    ProtocolInv /\ [Next]_vars => [Described!Next]_(Described!vars)
<1> SUFFICES ASSUME ProtocolInv, [Next]_vars
             PROVE  Described!Next \/ UNCHANGED Described!vars
  OBVIOUS
<1>1. ASSUME UNCHANGED vars PROVE UNCHANGED Described!vars
  BY <1>1, UnseenByIssuance DEF vars
<1> QED
  BY <1>1, UserStepDescribed, KeeperStepDescribed, WorldStepDescribed
  DEF Next, Described!Next

\* Whatever keepers register, are slashed or leave, and whatever proofs land in
\* whatever order, issuance sees nothing its own module does not describe.
THEOREM ProtocolImplementsIssuance == Spec => ImplementsIssuance
<1>1. Init => Described!Init
  BY DEF Init
<1> QED
  BY <1>1, ProtocolInvInit, ProtocolInvNext, ProtocolStepDescribed, PTL
     DEF Spec, ImplementsIssuance, Described!Spec

-----------------------------------------------------------------------------
(* What issuance keeps, it keeps here. *)

\* The theorems of IssuanceProofs, over the real registry.
Ledger == INSTANCE IssuanceProofs WITH keeper <- Standing, Fills <- Fills \cup Hedges

LEMMA LedgerAssumptions ==
    /\ Ledger!ScaleAssumption /\ Ledger!ParamAssumption /\ Ledger!VenueAssumption
    /\ Ledger!IssuanceAssumption
<1>1. Ledger!ScaleAssumption /\ Ledger!VenueAssumption
  BY ScaleAssumption, VenueAssumption DEF Ledger!ScaleAssumption, Ledger!VenueAssumption
<1>2. Ledger!ParamAssumption
  BY ParamAssumption
  DEF Ledger!ParamAssumption, Ledger!ParamRecords, ParamRecords, Ledger!ValidConfig,
      ValidConfig, Ledger!BPS, BPS, Ledger!VENUE_NONE, VENUE_NONE
<1>3. Ledger!IssuanceAssumption
  BY ProtocolAssumption
  DEF Ledger!IssuanceAssumption, Described!IssuanceAssumption,
      Ledger!MintRequests, Described!MintRequests,
      Ledger!RedeemRequests, Described!RedeemRequests,
      Ledger!IsFiniteSet, Described!IsFiniteSet
<1> QED
  BY <1>1, <1>2, <1>3

\* IssuanceProofs speaks of the Issuance that Described is.
LEMMA SameLedger ==
    /\ Described!Init <=> Ledger!Init
    /\ Described!Next <=> Ledger!Next
    /\ Described!vars = Ledger!vars
    /\ (Described!vars)' = (Ledger!vars)'
<1> USE DEF Ledger!BPS, Described!BPS, Ledger!Fits, Described!Fits, Ledger!Abs,
            Described!Abs, Ledger!Lower, Described!Lower,
            Ledger!MonusSaturating, Described!MonusSaturating,
            Ledger!CollateralToNotional, Described!CollateralToNotional,
            Ledger!NotionalToCollateral, Described!NotionalToCollateral,
            Ledger!MulBpsFloor, Described!MulBpsFloor, Ledger!MulBpsCeil,
            Described!MulBpsCeil, Ledger!DivBpsFloor, Described!DivBpsFloor,
            Ledger!ConfidenceBps, Described!ConfidenceBps, Ledger!DeltaBps,
            Described!DeltaBps, Ledger!VENUE_NONE, Described!VENUE_NONE,
            Ledger!VenueEnabled, Described!VenueEnabled, Ledger!Tick,
            Described!Tick, Ledger!VenueInit, Described!VenueInit,
            Ledger!CARRY_BPS_LIMIT, Described!CARRY_BPS_LIMIT,
            Ledger!RegimeClock, Described!RegimeClock, Ledger!ReportVenueState,
            Described!ReportVenueState, Ledger!Slots, Described!Slots,
            Ledger!environment, Described!environment, Ledger!totals,
            Described!totals, Ledger!tokens, Described!tokens, Ledger!requests,
            Described!requests, Ledger!ledger, Described!ledger, Ledger!vars,
            Described!vars, Ledger!KeeperStandings, Described!KeeperStandings,
            Ledger!PriceLoads, Described!PriceLoads, Ledger!NotionalNow,
            Described!NotionalNow, Ledger!CollateralNow,
            Described!CollateralNow, Ledger!SupplyCeiling,
            Described!SupplyCeiling, Ledger!InsideHardBand,
            Described!InsideHardBand, Ledger!VenueStateFresh,
            Described!VenueStateFresh, Ledger!CarryAboveFloor,
            Described!CarryAboveFloor, Ledger!IssuanceGates,
            Described!IssuanceGates, Ledger!RequiredFill,
            Described!RequiredFill, Ledger!MaxFill, Described!MaxFill,
            Ledger!Gross, Described!Gross, Ledger!NetMinted,
            Described!NetMinted, Ledger!NetRedeemed, Described!NetRedeemed,
            Ledger!Settled, Described!Settled, Ledger!Live, Described!Live,
            Ledger!Expired, Described!Expired, Ledger!RequestsExpireInTime,
            Described!RequestsExpireInTime
<1>1. \A u, n, a, m :
          Ledger!MintRequest(u, n, a, m) <=> Described!MintRequest(u, n, a, m)
  BY DEF Ledger!MintRequest, Described!MintRequest
<1>2. \A u, n, v, f :
          Ledger!MintConfirm(u, n, v, f) <=> Described!MintConfirm(u, n, v, f)
  BY DEF Ledger!MintConfirm, Described!MintConfirm
<1>3. \A u, n :
          Ledger!MintCancel(u, n) <=> Described!MintCancel(u, n)
  BY DEF Ledger!MintCancel, Described!MintCancel
<1>4. \A u, n, a, m :
          Ledger!RedeemRequest(u, n, a, m) <=> Described!RedeemRequest(u, n, a, m)
  BY DEF Ledger!RedeemRequest, Described!RedeemRequest
<1>5. \A u, n, f :
          Ledger!RedeemConfirm(u, n, f) <=> Described!RedeemConfirm(u, n, f)
  BY DEF Ledger!RedeemConfirm, Described!RedeemConfirm
<1>6. \A u, n :
          Ledger!RedeemCancel(u, n) <=> Described!RedeemCancel(u, n)
  BY DEF Ledger!RedeemCancel, Described!RedeemCancel
<1>7. \A u, w, a :
          Ledger!SyntheticTransfer(u, w, a) <=> Described!SyntheticTransfer(u, w, a)
  BY DEF Ledger!SyntheticTransfer, Described!SyntheticTransfer
<1>8. \A p, c, b :
          Ledger!OraclePublish(p, c, b) <=> Described!OraclePublish(p, c, b)
  BY DEF Ledger!OraclePublish, Described!OraclePublish
<1>9. \A p, c, t, b :
          Ledger!SetOracle(p, c, t, b) <=> Described!SetOracle(p, c, t, b)
  BY DEF Ledger!SetOracle, Described!SetOracle
<1>10. \A f :
          Ledger!RebalanceProof(f) <=> Described!RebalanceProof(f)
  BY DEF Ledger!RebalanceProof, Described!RebalanceProof
<1>11. \A k :
          Ledger!KeeperStandingChanges(k) <=> Described!KeeperStandingChanges(k)
  BY DEF Ledger!KeeperStandingChanges, Described!KeeperStandingChanges
<1>12. \A m, r :
          Ledger!SetPaused(m, r) <=> Described!SetPaused(m, r)
  BY DEF Ledger!SetPaused, Described!SetPaused
<1>13. \A p :
          Ledger!SetParams(p) <=> Described!SetParams(p)
  BY DEF Ledger!SetParams, Described!SetParams
<1>14. \A v, r, c :
          Ledger!Report(v, r, c) <=> Described!Report(v, r, c)
  BY DEF Ledger!Report, Described!Report
<1>15. Ledger!Wait <=> Described!Wait
  BY DEF Ledger!Wait, Described!Wait
<1>16. Ledger!Init <=> Described!Init
  BY DEF Ledger!Init, Described!Init
<1>17. Described!vars = Ledger!vars /\ (Described!vars)' = (Ledger!vars)'
  OBVIOUS
<1>18. \A u, n : Ledger!UserStep(u, n) <=> Described!UserStep(u, n)
  BY <1>1, <1>3, <1>4, <1>6 DEF Ledger!UserStep, Described!UserStep
<1>19. \A u, n : Ledger!KeeperStep(u, n) <=> Described!KeeperStep(u, n)
  BY <1>2, <1>5 DEF Ledger!KeeperStep, Described!KeeperStep
<1>20. Ledger!OracleStep <=> Described!OracleStep
  BY <1>8, <1>9 DEF Ledger!OracleStep, Described!OracleStep
<1>21. Ledger!EnvironmentStep <=> Described!EnvironmentStep
  BY <1>7, <1>10, <1>11, <1>12, <1>13, <1>14, <1>15, <1>20
     DEF Ledger!EnvironmentStep, Described!EnvironmentStep
<1>22. Ledger!Next <=> Described!Next
  BY <1>18, <1>19, <1>21 DEF Ledger!Next, Described!Next
<1> QED
  BY <1>16, <1>17, <1>22

LEMMA LedgerRuns == Spec => Ledger!Spec
<1>1. Described!Init => Ledger!Init
  BY SameLedger
<1>2. [Described!Next]_(Described!vars) => [Ledger!Next]_(Ledger!vars)
  BY SameLedger
<1> QED
  BY <1>1, <1>2, ProtocolImplementsIssuance, PTL
     DEF ImplementsIssuance, Described!Spec, Ledger!Spec

\* Over the real registry and the real proofs the supply is backed, every open
\* redemption can be paid, and Config, the token accounts and the requests agree.
THEOREM ProtocolStaysBacked ==
    Spec => [](/\ Ledger!TypeOK
               /\ Ledger!CollateralAccounted /\ Ledger!SyntheticAccounted
               /\ Ledger!Backing /\ Ledger!RedemptionsPayable)
<1>1. Ledger!ScaleAssumption /\ Ledger!ParamAssumption /\ Ledger!VenueAssumption
  BY LedgerAssumptions
<1>2. Ledger!IssuanceAssumption
  BY LedgerAssumptions
<1>3. Ledger!Spec => [](Ledger!TypeOK /\ Ledger!CollateralAccounted
                          /\ Ledger!SyntheticAccounted)
  BY <1>1, <1>2, Ledger!AccountsAlwaysBalance, PTL
<1>4. Ledger!Spec => []Ledger!Backing
  BY <1>1, <1>2, Ledger!SupplyIsBacked, PTL
<1>5. Ledger!Spec => []Ledger!RedemptionsPayable
  BY <1>1, <1>2, Ledger!RedemptionsAlwaysPayable, PTL
<1> QED
  BY <1>3, <1>4, <1>5, LedgerRuns, PTL

-----------------------------------------------------------------------------
(* What an overtaken proof leaves wrong. *)

\* What a fill of a mint of this worth may be.
LargestFill(worth) == MulBpsCeil(worth, BPS + params.max_hedge_slippage_bps)

\* What separates a proof in flight from the state it was built for: nothing;
\* or the fill of one mint, no larger than what that mint added to the book
\* allows.
Traced(k) ==
    /\ draft[k].overtaken = "no" => short = draft[k].hedged /\ Book = draft[k].claimed
    /\ draft[k].overtaken = "mint" =>
           \E worth \in Nat :
               /\ draft[k].claimed + worth <= Book
               /\ draft[k].hedged <= short
               /\ short - draft[k].hedged <= LargestFill(worth)

DraftsTraced ==
    /\ short \in Nat /\ rebalance_count \in Nat
    /\ draft \in [Keepers -> Drafts \cup {NoDraft}]
    /\ \A k \in Keepers : draft[k] # NoDraft => Traced(k)

LEMMA BookMeaning ==
    /\ Book = CollateralToNotional(total_collateral, oracle.price)
    /\ Book' = CollateralToNotional(total_collateral', oracle'.price)
BY DEF Book, Handlers!NotionalNow, Handlers!CollateralToNotional, CollateralToNotional

LEMMA LedgerTypes ==
    ASSUME Ledger!TypeOK
    PROVE  /\ total_collateral \in Nat /\ oracle.price \in Nat \ {0} /\ Book \in Nat
           /\ params.max_hedge_slippage_bps \in Nat
           /\ \A worth \in Nat : LargestFill(worth) \in Nat
           /\ \A u \in Users, n \in Nonces :
                  mint_request[<<u, n>>] # NoRequest =>
                      /\ mint_request[<<u, n>>].collateral_amount \in Nat
                      /\ mint_request[<<u, n>>].quoted_notional \in Nat
<1>1. total_collateral \in Nat /\ oracle.price \in Prices /\ params \in ParamSets
  BY DEF Ledger!TypeOK, Ledger!OracleRecords
<1>2. oracle.price \in Nat \ {0}
  BY <1>1, LedgerAssumptions DEF Ledger!IssuanceAssumption
<1>3. Book \in Nat
  BY <1>1, <1>2, BookMeaning, NotionalRoundsDown
<1>4. params.max_hedge_slippage_bps \in Nat
  BY <1>1, ParamAssumption DEF ParamRecords
<1>5. ASSUME NEW worth \in Nat PROVE LargestFill(worth) \in Nat
  <2>1. BPS + params.max_hedge_slippage_bps \in Nat
    BY <1>4 DEF BPS
  <2> QED
    BY <2>1, BpsRounding DEF LargestFill
<1>6. ASSUME NEW u \in Users, NEW n \in Nonces, mint_request[<<u, n>>] # NoRequest
      PROVE  /\ mint_request[<<u, n>>].collateral_amount \in Nat
             /\ mint_request[<<u, n>>].quoted_notional \in Nat
  <2>1. mint_request[<<u, n>>] \in Ledger!MintRequests
    BY <1>6 DEF Ledger!TypeOK, Ledger!Slots
  <2> QED
    BY <2>1 DEF Ledger!MintRequests
<1> QED
  BY <1>1, <1>2, <1>3, <1>4, <1>5, <1>6

LEMMA AmountsTyped == Hedges \subseteq Nat /\ Fills \subseteq Nat
BY LedgerAssumptions DEF Ledger!IssuanceAssumption

\* A draft that is overtaken is the same draft with another history.
LEMMA OvertakenDraft ==
    ASSUME draft \in [Keepers -> Drafts \cup {NoDraft}],
           NEW what \in [{"no", "mint", "otherwise"} -> {"no", "mint", "otherwise"}],
           Overtake(what)
    PROVE  /\ draft' \in [Keepers -> Drafts \cup {NoDraft}]
           /\ \A k \in Keepers :
                  draft'[k] # NoDraft =>
                      /\ draft[k] \in Drafts /\ draft[k] # NoDraft
                      /\ draft'[k].hedged = draft[k].hedged
                      /\ draft'[k].claimed = draft[k].claimed
                      /\ draft'[k].overtaken = what[draft[k].overtaken]
<1>1. ASSUME NEW k \in Keepers, draft[k] # NoDraft
      PROVE  /\ draft[k] \in Drafts
             /\ draft'[k] \in Drafts
             /\ draft'[k].hedged = draft[k].hedged
             /\ draft'[k].claimed = draft[k].claimed
             /\ draft'[k].overtaken = what[draft[k].overtaken]
  <2>1. draft[k] \in Drafts
    BY <1>1
  <2>2. draft'[k] = [draft[k] EXCEPT !.overtaken = what[draft[k].overtaken]]
    BY <1>1 DEF Overtake
  <2>3. what[draft[k].overtaken] \in {"no", "mint", "otherwise"}
    BY <2>1 DEF Drafts
  <2> QED
    BY <2>1, <2>2, <2>3 DEF Drafts
<1>2. \A k \in Keepers : draft[k] = NoDraft => draft'[k] = NoDraft
  BY DEF Overtake
<1>3. draft' = [k \in Keepers |-> draft'[k]]
  BY DEF Overtake
<1> QED
  BY <1>1, <1>2, <1>3

\* A step that leaves drafts, short, book and parameters alone.
LEMMA QuietTraced ==
    ASSUME DraftsTraced,
           UNCHANGED <<short, draft, rebalance_count, params, total_collateral>>,
           oracle'.price = oracle.price
    PROVE  DraftsTraced'
<1>1. Book' = Book
  BY BookMeaning
<1>2. \A worth : LargestFill(worth)' = LargestFill(worth)
  BY DEF LargestFill
<1> QED
  BY <1>1, <1>2 DEF DraftsTraced, Traced

\* After anything else nothing is claimed of a draft.
LEMMA ForgottenTraced ==
    ASSUME DraftsTraced, Overtake(ByAnything), short' \in Nat, UNCHANGED rebalance_count
    PROVE  DraftsTraced'
<1>1. ByAnything \in [{"no", "mint", "otherwise"} -> {"no", "mint", "otherwise"}]
  BY DEF ByAnything
<1>2. /\ draft' \in [Keepers -> Drafts \cup {NoDraft}]
      /\ \A k \in Keepers :
             draft'[k] # NoDraft =>
                 draft[k] \in Drafts /\ draft'[k].overtaken = ByAnything[draft[k].overtaken]
  BY <1>1, OvertakenDraft DEF DraftsTraced
<1>3. \A k \in Keepers : draft'[k] # NoDraft => draft'[k].overtaken = "otherwise"
  BY <1>2 DEF ByAnything, Drafts
<1> QED
  BY <1>2, <1>3 DEF DraftsTraced, Traced

\* A settled mint adds to the book what its fill is measured by.
LEMMA MintTraced ==
    ASSUME Ledger!TypeOK, DraftsTraced, NEW k \in Keepers, NEW u \in Users,
           NEW n \in Nonces, NEW f \in Fills, NEW v \in Venues,
           MintConfirm(k, u, n, v, f)
    PROVE  DraftsTraced'
<1> DEFINE request == mint_request[<<u, n>>]
           c == request.collateral_amount
           price == oracle.price
           worth == Lower(CollateralToNotional(c, price), request.quoted_notional)
<1>1. /\ Handlers!MintConfirm(u, n, v, f)
      /\ short' = short + f /\ Overtake(ByMint) /\ UNCHANGED rebalance_count
  BY DEF MintConfirm, chain
<1>2. /\ request # NoRequest
      /\ f <= LargestFill(worth)
      /\ total_collateral' = total_collateral + c
      /\ UNCHANGED <<oracle, params>>
  BY <1>1
  DEF Handlers!MintConfirm, Handlers!environment, Handlers!MaxFill, LargestFill,
      Handlers!MulBpsCeil, MulBpsCeil, Handlers!BPS, BPS, Handlers!Settled,
      Handlers!Lower, Lower, Handlers!NotionalNow, Handlers!CollateralToNotional,
      CollateralToNotional
<1>3. /\ total_collateral \in Nat /\ price \in Nat \ {0} /\ Book \in Nat
      /\ c \in Nat /\ request.quoted_notional \in Nat
  BY <1>2, LedgerTypes
<1> HIDE DEF c
<1>4. /\ CollateralToNotional(c, price) \in Nat
      /\ worth \in Nat /\ worth <= CollateralToNotional(c, price)
  <2>1. CollateralToNotional(c, price) \in Nat
    BY <1>3, NotionalRoundsDown
  <2> QED
    BY <1>3, <2>1 DEF Lower
<1> HIDE DEF worth, request
<1>5. PICK w \in Nat : w = worth
  BY <1>4
<1>6. Book' \in Nat /\ Book + w <= Book'
  <2>1. Book' = CollateralToNotional(total_collateral + c, price)
    BY <1>2, BookMeaning
  <2>2. Book + CollateralToNotional(c, price) <= CollateralToNotional(total_collateral + c, price)
    BY <1>3, BookMeaning, NotionalAdds
  <2>3. total_collateral + c \in Nat
    BY <1>3
  <2>4. CollateralToNotional(total_collateral + c, price) \in Nat
    BY <1>3, <2>3, NotionalRoundsDown
  <2> QED
    BY <1>3, <1>4, <1>5, <2>1, <2>2, <2>4
<1>7. /\ LargestFill(w)' = LargestFill(w) /\ LargestFill(w) \in Nat
      /\ f <= LargestFill(w)
  BY <1>2, <1>5, LedgerTypes DEF LargestFill
<1>8. short \in Nat /\ f \in Nat /\ rebalance_count \in Nat
  BY AmountsTyped DEF DraftsTraced
<1>9. ByMint \in [{"no", "mint", "otherwise"} -> {"no", "mint", "otherwise"}]
  BY DEF ByMint
<1>10. /\ draft' \in [Keepers -> Drafts \cup {NoDraft}]
      /\ \A j \in Keepers :
             draft'[j] # NoDraft =>
                 /\ draft[j] \in Drafts /\ draft[j] # NoDraft
                 /\ draft'[j].hedged = draft[j].hedged
                 /\ draft'[j].claimed = draft[j].claimed
                 /\ draft'[j].overtaken = ByMint[draft[j].overtaken]
  BY <1>1, <1>9, OvertakenDraft DEF DraftsTraced
<1>11. ASSUME NEW j \in Keepers, draft'[j] # NoDraft PROVE Traced(j)'
  <2>1. draft'[j].overtaken # "no"
    BY <1>10, <1>11 DEF ByMint, Drafts
  <2>2. ASSUME draft'[j].overtaken = "mint"
        PROVE  /\ draft'[j].claimed + w <= Book'
               /\ draft'[j].hedged <= short'
               /\ short' - draft'[j].hedged <= LargestFill(w)
    <3>1. draft[j].overtaken = "no"
      BY <1>10, <1>11, <2>2 DEF ByMint, Drafts
    <3>2. short = draft[j].hedged /\ Book = draft[j].claimed
      BY <1>10, <1>11, <3>1 DEF DraftsTraced, Traced
    <3> QED
      BY <1>1, <1>6, <1>7, <1>8, <1>10, <1>11, <3>2
  <2> QED
    BY <1>7, <2>1, <2>2 DEF Traced
<1>12. short' \in Nat /\ rebalance_count' \in Nat
  BY <1>1, <1>8
<1> QED
  BY <1>10, <1>11, <1>12 DEF DraftsTraced

\* The keeper builds its proof for the book and the short of the moment.
LEMMA RebalanceTraced ==
    ASSUME Ledger!TypeOK, DraftsTraced, NEW k \in Keepers, NEW h \in Hedges,
           Rebalance(k, h)
    PROVE  DraftsTraced'
<1> DEFINE built == [ sequence |-> rebalance_count, hedged |-> h, claimed |-> Book,
                      delta |-> DeltaBps(Book, h), overtaken |-> "no" ]
<1>1. /\ Book > 0 /\ short' = h
      /\ draft' = [j \in Keepers |->
                      IF j = k THEN built
                      ELSE IF draft[j] = NoDraft THEN NoDraft
                      ELSE [draft[j] EXCEPT !.overtaken = "otherwise"]]
      /\ UNCHANGED <<rebalance_count, total_collateral, oracle>>
  BY DEF Rebalance, issuance, chain
<1>2. Book \in Nat /\ h \in Nat /\ rebalance_count \in Nat
  BY LedgerTypes, AmountsTyped DEF DraftsTraced
<1>3. DeltaBps(Book, h) \in Int
  <2> DEFINE b == Book
  <2>1. b \in Nat \ {0} /\ (b - h) * BPS \in Int /\ (h - b) * BPS \in Int
    BY <1>1, <1>2 DEF BPS
  <2> HIDE DEF b
  <2>2. ((b - h) * BPS) \div b \in Int /\ ((h - b) * BPS) \div b \in Int
    BY <2>1
  <2>3. DeltaBps(b, h) \in Int
    BY <2>2 DEF DeltaBps
  <2> QED
    BY <2>3 DEF b
<1>4. Book' = Book
  BY <1>1, BookMeaning
<1>5. /\ built \in Drafts /\ built.hedged = h /\ built.claimed = Book
      /\ built.overtaken = "no"
  BY <1>2, <1>3 DEF Drafts
<1> HIDE DEF built
<1>6. ASSUME NEW j \in Keepers
      PROVE  draft'[j] \in Drafts \cup {NoDraft} /\ (draft'[j] # NoDraft => Traced(j)')
  <2>1. CASE j = k
    <3>1. draft'[j] = built
      BY <1>1, <2>1
    <3> QED
      BY <1>1, <1>4, <1>5, <3>1 DEF Traced
  <2>2. CASE j # k /\ draft[j] = NoDraft
    <3>1. draft'[j] = NoDraft
      BY <1>1, <2>2
    <3> QED
      BY <3>1
  <2>3. CASE j # k /\ draft[j] # NoDraft
    <3>1. /\ draft'[j] = [draft[j] EXCEPT !.overtaken = "otherwise"]
          /\ draft[j] \in Drafts
      BY <1>1, <2>3 DEF DraftsTraced
    <3>2. draft'[j] \in Drafts /\ draft'[j].overtaken = "otherwise"
      BY <3>1 DEF Drafts
    <3> QED
      BY <3>2 DEF Traced
  <2> QED
    BY <2>1, <2>2, <2>3
<1>7. draft' \in [Keepers -> Drafts \cup {NoDraft}]
  BY <1>1, <1>6
<1> QED
  BY <1>1, <1>2, <1>6, <1>7 DEF DraftsTraced

\* Another tolerance: what was measured by the old one is given up.
LEMMA SetParamsTraced ==
    ASSUME DraftsTraced, NEW p \in ParamSets, SetParams(p)
    PROVE  DraftsTraced'
<1>1. /\ UNCHANGED <<short, rebalance_count, total_collateral, oracle>>
      /\ draft' = [k \in Keepers |->
                      IF draft[k] # NoDraft /\ draft[k].overtaken = "mint"
                      THEN [draft[k] EXCEPT !.overtaken = "otherwise"]
                      ELSE draft[k]]
  BY DEF SetParams, Handlers!SetParams, Handlers!ledger, Handlers!totals, chain
<1>2. Book' = Book
  BY <1>1, BookMeaning
<1>3. ASSUME NEW j \in Keepers
      PROVE  draft'[j] \in Drafts \cup {NoDraft} /\ (draft'[j] # NoDraft => Traced(j)')
  <2>1. CASE draft[j] # NoDraft /\ draft[j].overtaken = "mint"
    <3>1. /\ draft'[j] = [draft[j] EXCEPT !.overtaken = "otherwise"]
          /\ draft[j] \in Drafts
      BY <1>1, <2>1 DEF DraftsTraced
    <3>2. draft'[j] \in Drafts /\ draft'[j].overtaken = "otherwise"
      BY <3>1 DEF Drafts
    <3> QED
      BY <3>2 DEF Traced
  <2>2. CASE ~ (draft[j] # NoDraft /\ draft[j].overtaken = "mint")
    <3>1. draft'[j] = draft[j]
      BY <1>1, <2>2
    <3> QED
      BY <1>1, <1>2, <2>2, <3>1 DEF DraftsTraced, Traced
  <2> QED
    BY <2>1, <2>2
<1>4. draft' \in [Keepers -> Drafts \cup {NoDraft}]
  BY <1>1, <1>3
<1> QED
  BY <1>1, <1>3, <1>4 DEF DraftsTraced

\* A proof that has landed or is lost is in flight no more.
LEMMA DroppedTraced ==
    ASSUME DraftsTraced, NEW k \in Keepers, draft' = [draft EXCEPT ![k] = NoDraft],
           UNCHANGED <<short, params, total_collateral, oracle>>,
           rebalance_count' \in Nat
    PROVE  DraftsTraced'
<1>1. Book' = Book
  BY BookMeaning
<1>2. \A worth : LargestFill(worth)' = LargestFill(worth)
  BY DEF LargestFill
<1>3. /\ draft' \in [Keepers -> Drafts \cup {NoDraft}]
      /\ \A j \in Keepers : draft'[j] # NoDraft => draft'[j] = draft[j]
  BY DEF DraftsTraced
<1> QED
  BY <1>1, <1>2, <1>3 DEF DraftsTraced, Traced

LEMMA DraftsTracedInit == Init => DraftsTraced
BY DEF Init, DraftsTraced

LEMMA UserStepTraced ==
    ASSUME DraftsTraced, NEW u \in Users, NEW n \in Nonces, UserStep(u, n)
    PROVE  DraftsTraced'
<1>1. UNCHANGED <<short, draft, rebalance_count, params, total_collateral, oracle>>
  BY DEF UserStep, MintRequest, RedeemRequest, Cancel, Handlers!MintRequest,
     Handlers!RedeemRequest, Handlers!MintCancel, Handlers!RedeemCancel,
     Handlers!environment, chain, off_chain
<1> QED
  BY <1>1, QuietTraced

LEMMA RedeemTraced ==
    ASSUME DraftsTraced, NEW k \in Keepers, NEW u \in Users, NEW n \in Nonces,
           NEW f \in Fills, RedeemConfirm(k, u, n, f)
    PROVE  DraftsTraced'
<1>1. /\ f <= short /\ short' = short - f
      /\ Overtake(ByAnything) /\ UNCHANGED rebalance_count
  BY DEF RedeemConfirm, chain
<1>2. short' \in Nat
  BY <1>1, AmountsTyped DEF DraftsTraced
<1> QED
  BY <1>1, <1>2, ForgottenTraced

LEMMA KeeperStepTraced ==
    ASSUME Ledger!TypeOK, DraftsTraced, NEW k \in Keepers, KeeperStep(k)
    PROVE  DraftsTraced'
<1>1. CASE \E u \in Users, n \in Nonces, f \in Fills, v \in Venues :
              MintConfirm(k, u, n, v, f)
  BY <1>1, MintTraced
<1>2. CASE \E u \in Users, n \in Nonces, f \in Fills : RedeemConfirm(k, u, n, f)
  BY <1>2, RedeemTraced
<1>3. CASE \E h \in Hedges : Rebalance(k, h)
  BY <1>3, RebalanceTraced
<1>4. ASSUME NEW v \in Venues, Land(k, v) PROVE DraftsTraced'
  <2>1. /\ draft' = [draft EXCEPT ![k] = NoDraft]
        /\ UNCHANGED <<short, params, total_collateral, oracle>>
    BY <1>4 DEF Land, Handlers!RebalanceProof, Handlers!environment
  <2>2. rebalance_count' = rebalance_count + 1
    BY <1>4 DEF Land, Chain!CommitRebalanceProof
  <2>3. rebalance_count' \in Nat
    BY <2>2 DEF DraftsTraced
  <2> QED
    BY <2>1, <2>3, DroppedTraced
<1>5. CASE Lose(k)
  <2>1. /\ draft' = [draft EXCEPT ![k] = NoDraft]
        /\ UNCHANGED <<short, params, total_collateral, oracle, rebalance_count>>
    BY <1>5 DEF Lose, issuance, chain
  <2>2. rebalance_count' \in Nat
    BY <2>1 DEF DraftsTraced
  <2> QED
    BY <2>1, <2>2, DroppedTraced
<1>6. CASE Registry(k)
  <2>1. UNCHANGED <<short, draft, rebalance_count, params, total_collateral, oracle>>
    BY <1>6 DEF Registry, issuance, chain, off_chain
  <2> QED
    BY <2>1, QuietTraced
<1> QED
  BY <1>1, <1>2, <1>3, <1>4, <1>5, <1>6 DEF KeeperStep

LEMMA WorldStepTraced ==
    ASSUME DraftsTraced, WorldStep
    PROVE  DraftsTraced'
<1>1. ASSUME NEW p \in Prices, NEW c \in Confidences, OraclePublish(p, c)
      PROVE  DraftsTraced'
  <2>1. /\ oracle'.price = p
        /\ UNCHANGED <<short, rebalance_count, params, total_collateral>>
    BY <1>1 DEF OraclePublish, Handlers!OraclePublish, Handlers!ledger,
       Handlers!totals, chain
  <2>2. CASE p = oracle.price
    <3>1. UNCHANGED draft
      BY <1>1, <2>2 DEF OraclePublish
    <3> QED
      BY <2>1, <2>2, <3>1, QuietTraced
  <2>3. CASE p # oracle.price
    <3>1. Overtake(ByAnything) /\ short' \in Nat
      BY <1>1, <2>1, <2>3 DEF OraclePublish, DraftsTraced
    <3> QED
      BY <2>1, <3>1, ForgottenTraced
  <2> QED
    BY <2>2, <2>3
<1>2. CASE \E p \in ParamSets : SetParams(p)
  BY <1>2, SetParamsTraced
<1>3. ASSUME \/ Open
             \/ \E v \in Venues, r \in Carries, c \in Capacities : Report(v, r, c)
             \/ NextSlot
      PROVE  DraftsTraced'
  <2>1. UNCHANGED <<short, draft, rebalance_count, params, total_collateral, oracle>>
    BY <1>3 DEF Open, Report, NextSlot, Handlers!SetPaused, Handlers!Report,
       Handlers!ledger, Handlers!totals, issuance, chain, off_chain
  <2> QED
    BY <2>1, QuietTraced
<1> QED
  BY <1>1, <1>2, <1>3 DEF WorldStep

LEMMA DraftsTracedNext == Ledger!TypeOK /\ DraftsTraced /\ [Next]_vars => DraftsTraced'
<1> SUFFICES ASSUME Ledger!TypeOK, DraftsTraced, [Next]_vars
             PROVE  DraftsTraced'
  OBVIOUS
<1>1. CASE UNCHANGED vars
  <2>1. UNCHANGED <<short, draft, rebalance_count, params, total_collateral, oracle>>
    BY <1>1 DEF vars, issuance, chain, off_chain
  <2> QED
    BY <2>1, QuietTraced
<1> QED
  BY <1>1, UserStepTraced, KeeperStepTraced, WorldStepTraced DEF Next

\* Only its own landing makes a proof one that has landed.
LEMMA LandedByLand ==
    ASSUME DraftsTraced, [Next]_vars, NEW k \in Keepers, Landed(k)
    PROVE  \E v \in Venues : Land(k, v)
<1>1. rebalance_count \in Nat /\ rebalance_count' > rebalance_count
      /\ draft[k] # NoDraft /\ draft'[k] = NoDraft
  BY DEF DraftsTraced, Landed
<1>2. rebalance_count' # rebalance_count
  BY <1>1
<1>3. ~ UNCHANGED vars
  BY <1>2 DEF vars, chain
<1>4. ASSUME NEW u \in Users, NEW n \in Nonces PROVE ~ UserStep(u, n)
  BY <1>2 DEF UserStep, MintRequest, RedeemRequest, Cancel, chain
<1>5. ~ WorldStep
  BY <1>2 DEF WorldStep, OraclePublish, SetParams, Open, Report, NextSlot, chain
<1>6. PICK j \in Keepers : KeeperStep(j)
  BY <1>3, <1>4, <1>5 DEF Next
<1>7. PICK v \in Venues : Land(j, v)
  BY <1>2, <1>6 DEF KeeperStep, MintConfirm, RedeemConfirm, Rebalance, Lose, Registry, chain
<1>8. draft' = [draft EXCEPT ![j] = NoDraft] /\ draft \in [Keepers -> Drafts \cup {NoDraft}]
  BY <1>7 DEF Land, DraftsTraced
<1>9. j = k
  BY <1>1, <1>8
<1> QED
  BY <1>7, <1>9

\* What proof.rs tolerates between the book a keeper claims and the book it
\* finds is what the settlement of a mint may have moved in between.
LEMMA LandedWithinTolerance ==
    ASSUME Ledger!TypeOK, DraftsTraced, [Next]_vars, NEW k \in Keepers, Landed(k)
    PROVE  LET missed == Abs(short' - hedged_notional')
           IN  CASE draft[k].overtaken = "no" -> missed = 0
                 [] draft[k].overtaken = "mint" ->
                        missed <= MulBpsCeil(
                            MulBpsCeil(Book, params.max_hedge_slippage_bps),
                            BPS + params.max_hedge_slippage_bps)
                 [] OTHER -> TRUE
<1> DEFINE claimed == draft[k].claimed
           hedged == draft[k].hedged
           slip == params.max_hedge_slippage_bps
<1>1. PICK v \in Venues : Land(k, v)
  BY LandedByLand
<1>2. /\ draft[k] # NoDraft /\ short' = short /\ hedged_notional' = hedged
      /\ Abs(claimed - Book) <= MulBpsCeil(Book, slip)
  BY <1>1
  DEF Land, Handlers!RebalanceProof, Chain!CommitRebalanceProof,
      Chain!ClaimMatchesBook, Chain!Abs, Abs, Chain!MulBpsCeil, MulBpsCeil,
      Chain!BPS, BPS
<1>3. draft[k] \in Drafts /\ Traced(k)
  BY <1>2 DEF DraftsTraced
<1>4. short \in Nat /\ hedged \in Nat /\ claimed \in Nat
  BY <1>3 DEF Drafts, DraftsTraced
<1>5. Book \in Nat /\ slip \in Nat
  BY LedgerTypes
<1> HIDE DEF claimed, hedged, slip
<1>6. CASE draft[k].overtaken = "no"
  <2>1. short = hedged
    BY <1>3, <1>6 DEF Traced, hedged
  <2>2. Abs(short' - hedged_notional') = 0
    BY <1>2, <1>4, <2>1 DEF Abs
  <2> QED
    BY <1>6, <2>2
<1>7. CASE draft[k].overtaken = "mint"
  <2>1. PICK w \in Nat : claimed + w <= Book /\ hedged <= short
                         /\ short - hedged <= LargestFill(w)
    BY <1>3, <1>7 DEF Traced, claimed, hedged
  <2>2. MulBpsCeil(Book, slip) \in Nat
    BY <1>5, BpsRounding
  <2>3. w <= MulBpsCeil(Book, slip)
    BY <1>2, <1>4, <1>5, <2>1, <2>2 DEF Abs
  <2>4. BPS + slip \in Nat
    BY <1>5 DEF BPS
  <2>5. LargestFill(w) <= MulBpsCeil(MulBpsCeil(Book, slip), BPS + slip)
    BY <2>2, <2>3, <2>4, CeilMonotone DEF LargestFill, slip
  <2>6. /\ LargestFill(w) \in Nat
        /\ MulBpsCeil(MulBpsCeil(Book, slip), BPS + slip) \in Nat
    BY <2>2, <2>4, BpsRounding DEF LargestFill, slip
  <2>7. Abs(short' - hedged_notional') <= MulBpsCeil(MulBpsCeil(Book, slip), BPS + slip)
    BY <1>2, <1>4, <2>1, <2>5, <2>6 DEF Abs
  <2> QED
    BY <1>7, <2>7 DEF slip
<1>8. CASE draft[k].overtaken = "otherwise"
  BY <1>8
<1>9. draft[k].overtaken \in {"no", "mint", "otherwise"}
  BY <1>3 DEF Drafts
<1> QED
  BY <1>6, <1>7, <1>8, <1>9

\* An honest proof that lands leaves Config right if nothing was settled since
\* it was built; if one mint was, Config misses no more short than a fill of
\* the tolerance.
THEOREM OverwrittenMintStaysWithin == Spec => OverwrittenMintWithinTolerance
<1>1. Spec => []Ledger!TypeOK
  BY ProtocolStaysBacked, PTL
<1>2. Spec => []DraftsTraced
  BY <1>1, DraftsTracedInit, DraftsTracedNext, PTL DEF Spec
<1>3. Ledger!TypeOK /\ DraftsTraced /\ [Next]_vars =>
          [ \A k \in Keepers :
              Landed(k) =>
                LET missed == Abs(short' - hedged_notional')
                IN  CASE draft[k].overtaken = "no" -> missed = 0
                      [] draft[k].overtaken = "mint" ->
                             missed <= MulBpsCeil(
                                 MulBpsCeil(Book, params.max_hedge_slippage_bps),
                                 BPS + params.max_hedge_slippage_bps)
                      [] OTHER -> TRUE ]_vars
  BY LandedWithinTolerance
<1>4. Spec =>
          [][ \A k \in Keepers :
              Landed(k) =>
                LET missed == Abs(short' - hedged_notional')
                IN  CASE draft[k].overtaken = "no" -> missed = 0
                      [] draft[k].overtaken = "mint" ->
                             missed <= MulBpsCeil(
                                 MulBpsCeil(Book, params.max_hedge_slippage_bps),
                                 BPS + params.max_hedge_slippage_bps)
                      [] OTHER -> TRUE ]_vars
  BY <1>1, <1>2, <1>3, PTL DEF Spec
<1> QED
  BY <1>4 DEF OverwrittenMintWithinTolerance

=============================================================================
