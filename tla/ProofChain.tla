------------------------------ MODULE ProofChain ------------------------------
(***************************************************************************)
(* The rebalance proofs of programs/poyz/src/instructions/proof.rs over    *)
(* the registry whose keepers commit them.                                 *)
(*                                                                         *)
(* The book moves under the proofs: mints, redemptions and the oracle      *)
(* change what the collateral is worth, settlements change the hedge.      *)
(* this_hash is collision-free, so it is modelled by what determines it:   *)
(* the previous hash followed by the fields hashed with it. The timestamp  *)
(* stands in the account and not in the hash; the slot, which is hashed,   *)
(* determines it.                                                          *)
(***************************************************************************)
EXTENDS KeeperRegistry, Sequences

CONSTANTS Books,         \* what the collateral may be worth
          Hedges,        \* notionals a keeper may attest
          DeltaClaims,   \* deltas a keeper may report
          MaxSlot,       \* bound on the slot
          MaxProofs      \* bound on the number of proofs

ASSUME ChainAssumption ==
    /\ Books \subseteq Nat /\ Hedges \subseteq Nat /\ DeltaClaims \subseteq Int
    /\ MaxSlot \in Nat /\ MaxProofs \in Nat

VARIABLES
    slot,                \* Clock::get().slot
    book,                \* total_collateral at the oracle's price
    price_loads,         \* load_price would succeed
    hedged_notional,     \* Config
    rebalance_count,     \* Config
    last_proof_slot,     \* Config
    last_proof_hash,     \* Config
    proofs               \* the proof accounts, in order of creation

chain == <<hedged_notional, rebalance_count, last_proof_slot, last_proof_hash, proofs>>
world == <<now, slot, params, book, price_loads>>
vars == <<world, registry, chain>>

\* The fields that go into the hash, apart from the price quoted and the
\* keeper's account of the venue.
Bodies ==
    [ sequence : Nat, slot : Nat, collateral_notional : Nat,
      hedged_notional : Nat, delta_bps_after : Int, venue_id : Venues,
      keeper : Keepers, timestamp : Nat ]

Hashes == Seq(Bodies)

Genesis == << >>

\* A faulty variant: the previous hash is not hashed.
HashOfBodyAlone(prev_hash, body) == <<body>>

Hash(prev_hash, body) == Append(prev_hash, body)

RebalanceProofs == [ body : Bodies, prev_hash : Hashes, this_hash : Hashes ]

TypeOK ==
    /\ now \in Nat /\ slot \in Nat /\ params \in ParamSets
    /\ book \in Nat /\ price_loads \in BOOLEAN
    /\ RegistryTypeOK
    /\ hedged_notional \in Nat /\ rebalance_count \in Nat
    /\ last_proof_slot \in Nat
    /\ last_proof_hash \in Hashes
    /\ proofs \in Seq(RebalanceProofs)

Init ==
    /\ now = 1 /\ slot = 1
    /\ params \in ParamSets
    /\ book \in Books
    /\ price_loads = TRUE
    /\ RegistryInit
    /\ hedged_notional = 0 /\ rebalance_count = 0 /\ last_proof_slot = 0
    /\ last_proof_hash = Genesis
    /\ proofs = << >>

-----------------------------------------------------------------------------

\* What the keeper says the book was worth may differ from what it is worth
\* when the transaction lands, by the tolerance of a hedge fill.
ClaimMatchesBook(claimed) ==
    Abs(claimed - book) <= MulBpsCeil(book, params.max_hedge_slippage_bps)

\* The fixed limit on a reported delta is left out: for the delta after it
\* follows from the two tolerances, and the delta before is only hashed.
CommitRebalanceProof(k, sequence, venue_id, claimed_delta, hedged, claimed) ==
    LET delta == DeltaBps(book, hedged)
        body == [ sequence |-> sequence, slot |-> slot,
                  collateral_notional |-> book, hedged_notional |-> hedged,
                  delta_bps_after |-> delta, venue_id |-> venue_id,
                  keeper |-> k, timestamp |-> now ]
        this_hash == Hash(last_proof_hash, body)
    IN  /\ Trusted(k)
        /\ VenueEnabled(venue_id)
        /\ sequence = rebalance_count
        /\ claimed > 0
        /\ slot > last_proof_slot
        /\ price_loads
        /\ book > 0
        /\ ClaimMatchesBook(claimed)
        /\ Abs(delta) <= params.delta_exit_bps
        /\ Abs(claimed_delta - delta) <= params.delta_exit_bps
        /\ proofs' = Append(proofs, [ body |-> body, prev_hash |-> last_proof_hash,
                                      this_hash |-> this_hash ])
        /\ keeper_account' =
               [keeper_account EXCEPT ![k].proofs_committed = @ + 1,
                                      ![k].last_proof_at = now,
                                      ![k].last_proof_slot = slot]
        /\ rebalance_count' = rebalance_count + 1
        /\ last_proof_slot' = slot
        /\ last_proof_hash' = this_hash
        /\ hedged_notional' = hedged
        /\ UNCHANGED <<world, keeper_count, bonded_total, slashed_total,
                       bond_vault, buffer_bond_vault, wallet>>

\* mint_confirm and redeem_confirm, as the registry sees them: the keeper's
\* word moves the hedge and leaves the keeper's account alone.
Attest(k, hedged) ==
    /\ Trusted(k)
    /\ price_loads
    /\ hedged_notional' = hedged
    /\ UNCHANGED <<world, registry, rebalance_count, last_proof_slot,
                   last_proof_hash, proofs>>

Registry(k) ==
    /\ RegistryStep(k)
    /\ UNCHANGED <<world, chain>>

\* Several slots pass within a second; transactions of one slot share both.
NextSlot ==
    /\ slot < MaxSlot
    /\ slot' = slot + 1
    /\ Tick \/ UNCHANGED now
    /\ UNCHANGED <<params, book, price_loads, registry, chain>>

BookMoves(value, loads) ==
    /\ book' = value /\ price_loads' = loads
    /\ UNCHANGED <<now, slot, params, registry, chain>>

SetParams(p) ==
    /\ params' = p
    /\ UNCHANGED <<now, slot, book, price_loads, registry, chain>>

Commit(k) ==
    \E venue_id \in Venues, delta \in DeltaClaims, hedged \in Hedges, claimed \in Books,
       sequence \in 0 .. (MaxProofs - 1) :
        CommitRebalanceProof(k, sequence, venue_id, delta, hedged, claimed)

Next ==
    \/ \E k \in Keepers :
           \/ Registry(k)
           \/ Commit(k)
           \/ \E hedged \in Hedges : Attest(k, hedged)
    \/ NextSlot
    \/ \E value \in Books, loads \in BOOLEAN : BookMoves(value, loads)
    \/ \E p \in ParamSets : SetParams(p)

Spec == Init /\ [][Next]_vars

-----------------------------------------------------------------------------

\* What the hash after the first n proofs is determined by.
Commitment(n) == [j \in 1 .. n |-> proofs[j].body]

\* The chain cannot be rewritten or reordered: proofs are numbered without a
\* gap in strictly increasing slots, each carries its predecessor's hash, and
\* the head in Config commits to all of them.
ChainIntact ==
    /\ rebalance_count = Len(proofs)
    /\ last_proof_hash = Commitment(Len(proofs))
    /\ \A i \in 1 .. Len(proofs) :
           /\ proofs[i].body.sequence = i - 1
           /\ proofs[i].this_hash = Commitment(i)
           /\ proofs[i].prev_hash = Commitment(i - 1)
           /\ proofs[i].body.slot <= last_proof_slot
           /\ i > 1 => proofs[i - 1].body.slot < proofs[i].body.slot

\* keeper.rs: "a keeper cannot commit a false proof and withdraw its bond in
\* the same block".  Bond only flows back to a keeper all of whose proofs are
\* older than the cooldown.
BondOutlivesProofs ==
    [][ \A k \in Keepers : wallet'[k] > wallet[k] =>
            \A i \in 1 .. Len(proofs) :
                proofs[i].body.keeper = k =>
                    now - proofs[i].body.timestamp >= params.unbond_cooldown_sec ]_vars

=============================================================================
