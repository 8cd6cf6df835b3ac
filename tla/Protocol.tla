-------------------------------- MODULE Protocol --------------------------------
(***************************************************************************)
(* Issuance, the keeper registry and the rebalance proofs over one Config: *)
(* mint.rs, redeem.rs, keeper.rs and proof.rs together, with the keepers   *)
(* off the chain that hedge at a venue and send the proofs.                *)
(*                                                                         *)
(* A proof is built from what the keeper reads, and lands after whatever   *)
(* landed before it.  mint_confirm and redeem_confirm change               *)
(* hedged_notional relative to what it is; a proof replaces it.            *)
(***************************************************************************)
EXTENDS KeeperRegistry, VenueState

CONSTANTS Users, Nonces, Prices, Confidences, PublishTimes, Endowments,
          CollateralAmounts, SyntheticAmounts, MinOuts, Fills, NoRequest,
          Hedges,        \* short positions a keeper may choose to hold
          MaxProofs,     \* bound on the number of proofs
          NoDraft        \* no proof in flight

VARIABLES
    oracle, mint_paused, redeem_paused,
    total_collateral, pending_collateral, total_synthetic,
    pending_redeem_synthetic, hedged_notional,
    collateral_vault, redeem_escrow, synthetic_supply, collateral_of, synthetic_of,
    mint_request, redeem_request,
    slot, rebalance_count, last_proof_slot, last_proof_hash, proofs,
    short,               \* the position the keepers really hold at the venue
    draft                \* each keeper's proof, built and neither landed nor lost

issuance == <<venue, oracle, mint_paused, redeem_paused, total_collateral,
              pending_collateral, total_synthetic, pending_redeem_synthetic,
              hedged_notional, collateral_vault, redeem_escrow, synthetic_supply,
              collateral_of, synthetic_of, mint_request, redeem_request>>
chain == <<rebalance_count, last_proof_slot, last_proof_hash, proofs>>
off_chain == <<short, draft>>
vars == <<now, params, slot, issuance, registry, chain, off_chain>>

ActiveAbove(bond) == {k \in ActiveKeepers : keeper_account[k].bonded >= bond}

\* What the registry offers to issuance.
Standing ==
    IF ActiveKeepers = {} THEN "none"
    ELSE IF ActiveAbove(params.min_keeper_bond) = {} THEN "underbonded"
    ELSE "bonded"

\* Issuance as its own module describes it, over the real registry.
Described ==
    INSTANCE Issuance WITH keeper <- Standing, Fills <- Fills \cup Hedges

\* What that module assumes of its constants holds of these.
ASSUME ProtocolAssumption == Described!IssuanceAssumption

\* Its handlers, with what they ask of the registry left to this module.
Handlers == INSTANCE Issuance WITH keeper <- "bonded"

Book == Handlers!NotionalNow(total_collateral)

Chain ==
    INSTANCE ProofChain WITH
        book <- Book, price_loads <- Handlers!PriceLoads,
        Books <- Nat, DeltaClaims <- Int, MaxSlot <- MaxTime

\* A proof in flight: what the keeper read and claims, and what has changed
\* since the short and the book it was built for: nothing, the one settlement
\* of a mint, or something else.
Drafts ==
    [ sequence : Nat, hedged : Nat, claimed : Nat, delta : Int,
      overtaken : {"no", "mint", "otherwise"} ]

Init ==
    /\ RegistryInit
    /\ Described!Init
    /\ slot = 1
    /\ rebalance_count = 0 /\ last_proof_slot = 0
    /\ last_proof_hash = Chain!Genesis
    /\ proofs = << >>
    /\ short = 0
    /\ draft = [k \in Keepers |-> NoDraft]

-----------------------------------------------------------------------------
(* The history of the proofs in flight. *)

Overtake(what) ==
    draft' = [k \in Keepers |->
                 IF draft[k] = NoDraft THEN NoDraft
                 ELSE [draft[k] EXCEPT !.overtaken = what[@]]]

\* A settled mint is the one thing the tolerance of a proof is meant for.
ByMint == [was \in {"no", "mint", "otherwise"} |->
              IF was = "no" THEN "mint" ELSE "otherwise"]

ByAnything == [was \in {"no", "mint", "otherwise"} |-> "otherwise"]

-----------------------------------------------------------------------------
(* Users and keepers. *)

MintRequest(u, n, amount, min_out) ==
    /\ keeper_count > 0
    /\ Handlers!MintRequest(u, n, amount, min_out)
    /\ UNCHANGED <<slot, registry, chain, off_chain>>

RedeemRequest(u, n, amount, min_out) ==
    /\ keeper_count > 0
    /\ Handlers!RedeemRequest(u, n, amount, min_out)
    /\ UNCHANGED <<slot, registry, chain, off_chain>>

Cancel(u, n) ==
    /\ Handlers!MintCancel(u, n) \/ Handlers!RedeemCancel(u, n)
    /\ UNCHANGED <<slot, registry, chain, off_chain>>

\* The keeper has extended the short by what it attests.
MintConfirm(k, u, n, venue_id, filled) ==
    /\ Trusted(k)
    /\ Handlers!MintConfirm(u, n, venue_id, filled)
    /\ short' = short + filled
    /\ Overtake(ByMint)
    /\ UNCHANGED <<slot, registry, chain>>

RedeemConfirm(k, u, n, unwound) ==
    /\ Trusted(k)
    /\ unwound <= short
    /\ Handlers!RedeemConfirm(u, n, unwound)
    /\ short' = short - unwound
    /\ Overtake(ByAnything)
    /\ UNCHANGED <<slot, registry, chain>>

\* A keeper reads the chain, brings the short to where it balances the book and
\* sends the proof.  The proofs of the others are now out of date.
Rebalance(k, hedged) ==
    LET delta == DeltaBps(Book, hedged)
        built == [ sequence |-> rebalance_count, hedged |-> hedged,
                   claimed |-> Book, delta |-> delta, overtaken |-> "no" ]
    IN  /\ Trusted(k)
        /\ draft[k] = NoDraft
        /\ rebalance_count < MaxProofs
        /\ Book > 0
        /\ Abs(delta) <= params.delta_exit_bps
        /\ short' = hedged
        /\ draft' = [j \in Keepers |->
                        IF j = k THEN built
                        ELSE IF draft[j] = NoDraft THEN NoDraft
                        ELSE [draft[j] EXCEPT !.overtaken = "otherwise"]]
        /\ UNCHANGED <<now, params, slot, issuance, registry, chain>>

\* commit_rebalance_proof, as far as either of the two modules describes it.
Land(k, venue_id) ==
    /\ draft[k] # NoDraft
    /\ Handlers!RebalanceProof(draft[k].hedged)
    /\ draft' = [draft EXCEPT ![k] = NoDraft]
    /\ UNCHANGED <<slot, short>>
    /\ Chain!CommitRebalanceProof(k, draft[k].sequence, venue_id, draft[k].delta,
                                  draft[k].hedged, draft[k].claimed)

\* The transaction is rejected or never included.
Lose(k) ==
    /\ draft[k] # NoDraft
    /\ draft' = [draft EXCEPT ![k] = NoDraft]
    /\ UNCHANGED <<now, params, slot, issuance, registry, chain, short>>

-----------------------------------------------------------------------------
(* The rest of the world. *)

Registry(k) ==
    /\ RegistryStep(k)
    /\ UNCHANGED <<now, params, slot, issuance, chain, off_chain>>

OraclePublish(price, conf) ==
    /\ Handlers!OraclePublish(price, conf, TRUE)
    /\ IF price = oracle.price THEN UNCHANGED draft ELSE Overtake(ByAnything)
    /\ UNCHANGED <<slot, registry, chain, short>>

\* The tolerance of a settlement is not that of a proof after it.
SetParams(p) ==
    /\ Handlers!SetParams(p)
    /\ draft' = [k \in Keepers |->
                    IF draft[k] # NoDraft /\ draft[k].overtaken = "mint"
                    THEN [draft[k] EXCEPT !.overtaken = "otherwise"]
                    ELSE draft[k]]
    /\ UNCHANGED <<slot, registry, chain, short>>

\* Nothing below depends on when the switches are thrown again.
Open ==
    /\ Handlers!SetPaused(FALSE, FALSE)
    /\ UNCHANGED <<slot, registry, chain, off_chain>>

Report(id, carry, capacity) ==
    /\ Handlers!Report(id, carry, capacity)
    /\ UNCHANGED <<slot, registry, chain, off_chain>>

\* One slot a second is enough here; ProofChain has several.
NextSlot ==
    /\ Tick
    /\ slot' = slot + 1
    /\ UNCHANGED <<params, issuance, registry, chain, off_chain>>

-----------------------------------------------------------------------------

UserStep(u, n) ==
    \/ /\ Handlers!RequestsExpireInTime
       /\ \/ \E a \in CollateralAmounts, m \in MinOuts : MintRequest(u, n, a, m)
          \/ \E a \in SyntheticAmounts, m \in MinOuts : RedeemRequest(u, n, a, m)
    \/ Cancel(u, n)

KeeperStep(k) ==
    \/ \E u \in Users, n \in Nonces, f \in Fills :
           \/ \E v \in Venues : MintConfirm(k, u, n, v, f)
           \/ RedeemConfirm(k, u, n, f)
    \/ \E h \in Hedges : Rebalance(k, h)
    \/ \E v \in Venues : Land(k, v)
    \/ Lose(k)
    \/ Registry(k)

WorldStep ==
    \/ \E p \in Prices, c \in Confidences : OraclePublish(p, c)
    \/ \E p \in ParamSets : SetParams(p)
    \/ Open
    \/ /\ Handlers!RequestsExpireInTime
       /\ \E v \in Venues, r \in Carries, c \in Capacities : Report(v, r, c)
    \/ NextSlot

Next ==
    \/ \E u \in Users, n \in Nonces : UserStep(u, n)
    \/ \E k \in Keepers : KeeperStep(k)
    \/ WorldStep

Spec == Init /\ [][Next]_vars

-----------------------------------------------------------------------------

\* The registry and the proofs do to issuance exactly what its own module says
\* they may: a request is accepted only while some keeper is active, though the
\* handler looks at a counter; supply is created and burned only while some
\* keeper is bonded at the minimum in force, though flags lag the minimum; and
\* of a proof issuance sees nothing but a hedge that balances its book.
ImplementsIssuance == Described!Spec

\* Proof k has landed.
Landed(k) ==
    rebalance_count' > rebalance_count /\ draft[k] # NoDraft /\ draft'[k] = NoDraft

\* An honest proof replaces the hedge in Config by the short its keeper had
\* built up.  Nothing has happened since: Config is right.  One mint was settled
\* since, whose fill the proof overwrites: Config misses no more short than a
\* fill of the tolerance proof.rs allows "because total_collateral can move
\* between the keeper building the transaction and it landing".
OverwrittenMintWithinTolerance ==
    [][ \A k \in Keepers :
            Landed(k) =>
                LET missed == Abs(short' - hedged_notional')
                IN  CASE draft[k].overtaken = "no" -> missed = 0
                      [] draft[k].overtaken = "mint" ->
                             missed <= MulBpsCeil(
                                 MulBpsCeil(Book, params.max_hedge_slippage_bps),
                                 BPS + params.max_hedge_slippage_bps)
                      [] OTHER -> TRUE ]_vars

=============================================================================
