----------------------------- MODULE KeeperClaims -----------------------------
(***************************************************************************)
(* What the comments say of keepers that the code does not do, over        *)
(* ProofChain with two history variables.  Each property is checked by a   *)
(* run that is expected to find a counterexample.                          *)
(***************************************************************************)
EXTENDS ProofChain

VARIABLES attested_at,   \* when each keeper last confirmed a request, 0 if never
          missed         \* slots that ended outside the band and without a proof

kvars == <<vars, attested_at, missed>>

OutOfBand == book > 0 /\ Abs(DeltaBps(book, hedged_notional)) > params.delta_band_bps

KInit == Init /\ attested_at = [k \in Keepers |-> 0] /\ missed = {}

KNext ==
    \/ \E k \in Keepers, hedged \in Hedges :
           /\ Attest(k, hedged)
           /\ attested_at' = [attested_at EXCEPT ![k] = now]
           /\ UNCHANGED missed
    \/ /\ NextSlot
       /\ missed' = IF OutOfBand /\ last_proof_slot # slot THEN missed \cup {slot}
                    ELSE missed
       /\ UNCHANGED attested_at
    \/ /\ \/ \E k \in Keepers : Registry(k) \/ Commit(k)
          \/ \E value \in Books, loads \in BOOLEAN : BookMoves(value, loads)
          \/ \E p \in ParamSets : SetParams(p)
       /\ UNCHANGED <<attested_at, missed>>

KSpec == KInit /\ [][KNext]_kvars

\* mint.rs: the claim the keeper makes at confirm time "is bonded and
\* slashable".  The cooldown runs from the last proof only, so a keeper that
\* has only confirmed requests takes its whole bond back at once.
ClaimStaysBonded ==
    [][ \A k \in Keepers :
            wallet'[k] > wallet[k] /\ attested_at[k] > 0 =>
                now - attested_at[k] >= params.unbond_cooldown_sec ]_kvars

\* proof.rs: a slot range with the delta out of band and no proof at all is
\* "detectable from the gap in sequence".  commit_rebalance_proof only accepts
\* the next number, so no proof ever leaves a gap.
SilenceLeavesGap ==
    \A i, j \in 1 .. Len(proofs) :
        (\E s \in missed : proofs[i].body.slot < s /\ s < proofs[j].body.slot) =>
            proofs[j].body.sequence - proofs[i].body.sequence > j - i

=============================================================================
