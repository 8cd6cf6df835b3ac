----------------------------- MODULE KeeperProofs -----------------------------
(***************************************************************************)
(* Theorems about ProofChain, for every set of keepers, every bond and     *)
(* every sequence of parameter changes.                                    *)
(***************************************************************************)
EXTENDS ProofChain, RegistryProofs, SequenceTheorems

-----------------------------------------------------------------------------
(* The proofs and the accounts of the keepers that committed them. *)

\* A keeper's account remembers its latest proof, so the cooldown it starts
\* covers all the earlier ones.
ProofsRemembered ==
    /\ now >= 1
    /\ \A k \in Keepers : Registered(k) => keeper_account[k].last_proof_at <= now
    /\ \A i \in 1 .. Len(proofs) :
           LET k == proofs[i].body.keeper
           IN  /\ Registered(k)
               /\ proofs[i].body.timestamp >= 1
               /\ proofs[i].body.timestamp <= keeper_account[k].last_proof_at

Inv == TypeOK /\ RegistryInv /\ ChainIntact /\ ProofsRemembered

LEMMA InvInit == Init => Inv
<1> SUFFICES ASSUME Init PROVE Inv
  OBVIOUS
<1>1. /\ proofs = << >> /\ last_proof_hash = << >> /\ rebalance_count = 0
      /\ now = 1 /\ keeper_account = [k \in Keepers |-> NoAccount]
  BY DEF Init, RegistryInit, Genesis
<1>6. RegistryInv
  BY RegistryStarts DEF Init
<1>7. TypeOK
  BY <1>1, <1>6, ChainAssumption DEF TypeOK, Init, RegistryInv, Hashes
<1>8. ChainIntact
  BY <1>1 DEF ChainIntact, Commitment
<1>9. ProofsRemembered
  <2>1. /\ Len(proofs) = 0 /\ 1 .. 0 = {} /\ now >= 1
        /\ \A k \in Keepers : ~Registered(k)
    BY <1>1 DEF Registered
  <2> QED
    BY <2>1 DEF ProofsRemembered
<1> QED
  BY <1>6, <1>7, <1>8, <1>9 DEF Inv

LEMMA ChainUnchanged ==
    ASSUME ChainIntact, UNCHANGED chain
    PROVE  ChainIntact'
<1>1. /\ proofs' = proofs /\ last_proof_hash' = last_proof_hash
      /\ rebalance_count' = rebalance_count /\ last_proof_slot' = last_proof_slot
  BY DEF chain
<1>2. \A n : Commitment(n)' = Commitment(n)
  BY <1>1 DEF Commitment
<1> QED
  BY <1>1, <1>2 DEF ChainIntact

LEMMA AppendAsFunction ==
    ASSUME NEW S, NEW s \in Seq(S), NEW e \in S
    PROVE  Append(s, e) = [j \in 1 .. (Len(s) + 1) |-> IF j = Len(s) + 1 THEN e ELSE s[j]]
<1> DEFINE t == Append(s, e)
           u == [j \in 1 .. (Len(s) + 1) |-> IF j = Len(s) + 1 THEN e ELSE s[j]]
<1>1. /\ t \in Seq(S) /\ Len(t) = Len(s) + 1 /\ Len(s) \in Nat
      /\ \A j \in 1 .. Len(s) : t[j] = s[j]
      /\ t[Len(s) + 1] = e
  BY AppendProperties
<1> HIDE DEF t
<1>2. t = [j \in 1 .. Len(t) |-> t[j]]
  BY <1>1
<1>3. \A j \in 1 .. (Len(s) + 1) : t[j] = u[j]
  <2> SUFFICES ASSUME NEW j \in 1 .. (Len(s) + 1) PROVE t[j] = u[j]
    OBVIOUS
  <2>1. j = Len(s) + 1 \/ (j \in 1 .. Len(s) /\ j # Len(s) + 1)
    BY <1>1
  <2> QED
    BY <1>1, <2>1
<1>4. u = [j \in 1 .. (Len(s) + 1) |-> u[j]]
  OBVIOUS
<1> HIDE DEF u
<1>5. t = u
  BY <1>1, <1>2, <1>3, <1>4
<1> QED
  BY <1>5 DEF t, u

LEMMA ProofFields ==
    ASSUME TypeOK
    PROVE  /\ Len(proofs) \in Nat
           /\ \A i \in 1 .. Len(proofs) :
                  /\ proofs[i] \in RebalanceProofs
                  /\ proofs[i].body \in Bodies
                  /\ proofs[i].body.keeper \in Keepers
                  /\ proofs[i].body.timestamp \in Nat
                  /\ proofs[i].body.slot \in Nat
<1>1. /\ proofs \in Seq(RebalanceProofs) /\ Len(proofs) \in Nat
      /\ \A i \in 1 .. Len(proofs) : proofs[i] \in RebalanceProofs
  BY DEF TypeOK
<1>2. \A i \in 1 .. Len(proofs) : proofs[i].body \in Bodies
  BY <1>1 DEF RebalanceProofs
<1> QED
  BY <1>1, <1>2 DEF Bodies

\* No handler of the registry touches last_proof_at or closes an account.
LEMMA RegistryStepInvariant ==
    ASSUME Inv, NEW k \in Keepers, Registry(k)
    PROVE  Inv'
<1>1. /\ RegistryInv /\ RegistryTypeOK /\ params \in ParamSets
      /\ RegistryStep(k) /\ UNCHANGED <<world, chain>>
  BY DEF Inv, RegistryInv, TypeOK, Registry
<1>2. RegistryInv' /\ ProofTimesKept
  BY <1>1, RegistryStepInv
<1>3. ChainIntact'
  BY <1>1, ChainUnchanged DEF Inv
<1>4. TypeOK'
  BY <1>1, <1>2 DEF Inv, TypeOK, RegistryInv, world, chain
<1>6. ProofsRemembered'
  <2>1. proofs' = proofs /\ now' = now /\ proofs \in Seq(RebalanceProofs)
    BY <1>1 DEF chain, world, Inv, TypeOK
  <2>2. \A i \in 1 .. Len(proofs) : proofs[i].body.keeper \in Keepers
    BY <1>1, ProofFields DEF Inv
  <2> QED
    BY <1>2, <2>1, <2>2 DEF ProofsRemembered, Inv, ProofTimesKept, Registered, TypeOK
<1> QED
  BY <1>2, <1>3, <1>4, <1>6 DEF Inv

\* A proof extends the chain by one and restarts its keeper's cooldown.
LEMMA CommitInvariant ==
    ASSUME Inv, NEW k \in Keepers, NEW sequence \in Nat, NEW venue_id \in Venues,
           NEW claimed_delta \in DeltaClaims, NEW hedged \in Hedges, NEW claimed \in Books,
           CommitRebalanceProof(k, sequence, venue_id, claimed_delta, hedged, claimed)
    PROVE  Inv'
<1> DEFINE delta == DeltaBps(book, hedged)
           body == [ sequence |-> sequence, slot |-> slot,
                     collateral_notional |-> book, hedged_notional |-> hedged,
                     delta_bps_after |-> delta, venue_id |-> venue_id,
                     keeper |-> k, timestamp |-> now ]
           n == Len(proofs)
           proof == [ body |-> body, prev_hash |-> last_proof_hash,
                      this_hash |-> Append(last_proof_hash, body) ]
           After(m) == [j \in 1 .. m |-> proofs'[j].body]
<1>0. /\ TypeOK /\ RegistryTypeOK /\ n \in Nat /\ now \in Nat /\ slot \in Nat
      /\ book \in Nat /\ hedged \in Nat /\ last_proof_slot \in Nat
  BY ProofFields, ChainAssumption DEF Inv, RegistryInv, TypeOK
<1>1. /\ Trusted(k) /\ sequence = rebalance_count /\ slot > last_proof_slot
      /\ book > 0
      /\ proofs' = Append(proofs, proof)
      /\ rebalance_count' = rebalance_count + 1
      /\ last_proof_slot' = slot
      /\ last_proof_hash' = Append(last_proof_hash, body)
      /\ hedged_notional' = hedged
      /\ UNCHANGED <<world, keeper_count, bonded_total, slashed_total,
                     bond_vault, buffer_bond_vault, wallet>>
  BY DEF CommitRebalanceProof, Hash
<1>2. keeper_account' =
        [keeper_account EXCEPT ![k].proofs_committed = @ + 1,
                               ![k].last_proof_at = now, ![k].last_proof_slot = slot]
  BY DEF CommitRebalanceProof
<1>3. /\ RegistryInv'
      /\ \A j \in Keepers : Registered(j)' <=> Registered(j)
      /\ Registered(k)
      /\ keeper_account'[k].last_proof_at = now
      /\ \A j \in Keepers \ {k} : keeper_account'[j] = keeper_account[j]
  BY <1>0, <1>1, <1>2, ProofNoted DEF Inv, Trusted
<1>4. \A j \in Keepers : Registered(j) => keeper_account[j].last_proof_at \in Nat
  BY <1>0 DEF RegistryTypeOK, Registered, KeeperAccounts
<1>6. delta \in Int
  <2>1. (book - hedged) * BPS \in Int /\ (hedged - book) * BPS \in Int
    BY <1>0 DEF BPS
  <2>2. /\ ((book - hedged) * BPS) \div book \in Int
        /\ ((hedged - book) * BPS) \div book \in Int
    BY <1>0, <1>1, <2>1
  <2> QED
    BY <2>2 DEF DeltaBps
<1> HIDE DEF delta
<1>7. body \in Bodies
  BY <1>0, <1>6 DEF Bodies
<1> HIDE DEF body
<1>10. body.sequence = sequence /\ body.slot = slot /\ body.keeper = k /\ body.timestamp = now
  BY DEF body
<1>11. TypeOK'
  <2>1. last_proof_hash \in Seq(Bodies) /\ last_proof_hash' \in Seq(Bodies)
    BY <1>0, <1>1, <1>7 DEF TypeOK, Hashes
  <2>2. proof \in RebalanceProofs
    BY <1>1, <1>7, <2>1 DEF RebalanceProofs, Hashes
  <2> HIDE DEF proof
  <2>3. proofs' \in Seq(RebalanceProofs)
    BY <1>0, <1>1, <2>2 DEF TypeOK
  <2> QED
    BY <1>0, <1>1, <1>3, <2>1, <2>3
    DEF TypeOK, RegistryInv, world, Hashes, Inv, ChainIntact
<1>12. /\ Len(proofs') = n + 1 /\ proofs'[n + 1] = proof
       /\ \A i \in 1 .. n : proofs'[i] = proofs[i]
  <2> HIDE DEF proof
  <2>1. proofs \in Seq(RebalanceProofs)
    BY <1>0 DEF TypeOK
  <2> QED
    BY <1>1, <2>1
<1>13. proof.body = body /\ proof.prev_hash = last_proof_hash
       /\ proof.this_hash = Append(last_proof_hash, body)
  OBVIOUS
<1> HIDE DEF proof
<1>14. \A m \in 0 .. n : After(m) = Commitment(m)
  BY <1>0, <1>12 DEF Commitment
<1>15. After(n + 1) = Append(last_proof_hash, body)
  <2>1. /\ last_proof_hash = Commitment(n)
        /\ last_proof_hash \in Seq(Bodies)
    BY <1>0 DEF Inv, ChainIntact, TypeOK, Hashes
  <2>2. Len(last_proof_hash) = n
    BY <1>0, <2>1 DEF Commitment
  <2>3. Append(last_proof_hash, body) = [j \in 1 .. (n + 1) |->
               IF j = n + 1 THEN body ELSE last_proof_hash[j]]
    <3>1. Append(last_proof_hash, body) = [j \in 1 .. (Len(last_proof_hash) + 1) |->
              IF j = Len(last_proof_hash) + 1 THEN body ELSE last_proof_hash[j]]
      BY <1>7, <2>1, AppendAsFunction
    <3> HIDE DEF n
    <3> QED
      BY <2>2, <3>1, Zenon
  <2>4. \A j \in 1 .. (n + 1) :
            proofs'[j].body = IF j = n + 1 THEN body ELSE last_proof_hash[j]
    BY <1>0, <1>12, <1>13, <2>1 DEF Commitment
  <2>5. [j \in 1 .. (n + 1) |-> proofs'[j].body]
            = [j \in 1 .. (n + 1) |-> IF j = n + 1 THEN body ELSE last_proof_hash[j]]
    BY <2>4, Zenon
  <2> QED
    BY <2>3, <2>5
<1>16. ChainIntact'
  <2>0. /\ rebalance_count = n /\ last_proof_hash = Commitment(n)
        /\ \A i \in 1 .. n :
               /\ proofs[i].body.sequence = i - 1
               /\ proofs[i].this_hash = Commitment(i)
               /\ proofs[i].prev_hash = Commitment(i - 1)
               /\ proofs[i].body.slot <= last_proof_slot
               /\ proofs[i].body.slot \in Nat
               /\ i > 1 => proofs[i - 1].body.slot < proofs[i].body.slot
    BY <1>0, ProofFields DEF Inv, ChainIntact
  <2>1. ASSUME NEW i \in 1 .. (n + 1)
        PROVE  /\ proofs'[i].body.sequence = i - 1
               /\ proofs'[i].this_hash = After(i)
               /\ proofs'[i].prev_hash = After(i - 1)
               /\ proofs'[i].body.slot <= last_proof_slot'
               /\ i > 1 => proofs'[i - 1].body.slot < proofs'[i].body.slot
    <3>1. CASE i = n + 1
      <4>1. /\ proofs'[i].body.sequence = n /\ proofs'[i].body.slot = slot
            /\ proofs'[i].this_hash = After(i)
        BY <1>1, <1>10, <1>12, <1>13, <1>15, <2>0, <3>1
      <4>2. proofs'[i].prev_hash = After(i - 1)
        <5>1. i - 1 = n /\ After(n) = last_proof_hash
          BY <1>0, <1>14, <2>0, <3>1
        <5> QED
          BY <1>12, <1>13, <3>1, <5>1
      <4>3. i > 1 => proofs'[i - 1].body.slot < slot
        BY <1>0, <1>1, <1>12, <2>0, <3>1
      <4> QED
        BY <1>0, <1>1, <3>1, <4>1, <4>2, <4>3
    <3>2. CASE i # n + 1
      <4>1. i \in 1 .. n /\ (i > 1 => i - 1 \in 1 .. n) /\ i - 1 \in 0 .. n
        BY <1>0, <3>2
      <4>2. proofs'[i] = proofs[i] /\ (i > 1 => proofs'[i - 1] = proofs[i - 1])
        BY <1>12, <4>1
      <4>3. After(i) = Commitment(i) /\ After(i - 1) = Commitment(i - 1)
        BY <1>14, <4>1
      <4>4. proofs[i].body.slot <= last_proof_slot'
        BY <1>0, <1>1, <2>0, <4>1
      <4> QED
        BY <2>0, <4>1, <4>2, <4>3, <4>4
    <3> QED
      BY <3>1, <3>2
  <2>2. last_proof_hash' = After(n + 1)
    BY <1>1, <1>15
  <2>3. \A m : Commitment(m)' = After(m)
    BY DEF Commitment
  <2>4. Commitment(Len(proofs))' = After(n + 1)
    <3>1. Commitment(Len(proofs))' = After(Len(proofs'))
      BY DEF Commitment
    <3> QED
      BY <1>12, <3>1
  <2> HIDE DEF After
  <2>5. \A i \in 1 .. Len(proofs') :
             /\ proofs'[i].body.sequence = i - 1
             /\ proofs'[i].this_hash = Commitment(i)'
             /\ proofs'[i].prev_hash = Commitment(i - 1)'
             /\ proofs'[i].body.slot <= last_proof_slot'
             /\ i > 1 => proofs'[i - 1].body.slot < proofs'[i].body.slot
    BY <1>12, <2>1, <2>3
  <2> QED
    BY <1>1, <1>12, <2>0, <2>2, <2>4, <2>5 DEF ChainIntact
<1>17. ProofsRemembered'
  <2>1. now' = now /\ now >= 1
    BY <1>1 DEF world, Inv, ProofsRemembered
  <2>2. ASSUME NEW i \in 1 .. (n + 1)
        PROVE  /\ keeper_account'[proofs'[i].body.keeper] # NoAccount
               /\ proofs'[i].body.timestamp >= 1
               /\ proofs'[i].body.timestamp
                    <= keeper_account'[proofs'[i].body.keeper].last_proof_at
    <3>1. CASE i = n + 1
      BY <1>0, <1>3, <1>10, <1>12, <1>13, <2>1, <3>1 DEF Registered
    <3>2. CASE i # n + 1
      <4> DEFINE j == proofs[i].body.keeper
                 t == proofs[i].body.timestamp
      <4>1. i \in 1 .. n /\ proofs'[i] = proofs[i]
        BY <1>0, <1>12, <3>2
      <4>2. /\ j \in Keepers /\ t \in Nat /\ t >= 1
            /\ keeper_account[j] # NoAccount
            /\ t <= keeper_account[j].last_proof_at
        BY <1>0, <4>1, ProofFields DEF Inv, ProofsRemembered, Registered
      <4>3. CASE j = k
        <5>1. keeper_account[k].last_proof_at <= now
          BY <4>2, <4>3 DEF Inv, ProofsRemembered, Registered
        <5> QED
          BY <1>0, <1>3, <1>4, <4>1, <4>2, <4>3, <5>1 DEF Registered
      <4>4. CASE j # k
        BY <1>3, <4>1, <4>2, <4>4
      <4> QED
        BY <4>3, <4>4
    <3> QED
      BY <3>1, <3>2
  <2>3. ASSUME NEW j \in Keepers, keeper_account'[j] # NoAccount
        PROVE  keeper_account'[j].last_proof_at <= now
    BY <1>0, <1>3, <1>4, <2>3 DEF Inv, ProofsRemembered, Registered
  <2> QED
    BY <1>12, <2>1, <2>2, <2>3 DEF ProofsRemembered, Registered
<1> QED
  BY <1>3, <1>11, <1>16, <1>17 DEF Inv

\* Steps that leave the registry and the proofs alone: time passes, the book
\* moves, the authority sets parameters, a settlement is attested.
LEMMA QuietInvariant ==
    ASSUME Inv, UNCHANGED registry, TypeOK',
           rebalance_count' = rebalance_count, last_proof_slot' = last_proof_slot,
           last_proof_hash' = last_proof_hash, proofs' = proofs, now' >= now
    PROVE  Inv'
<1>1. RegistryInv'
  BY RegistryUnchanged DEF Inv
<1>2. ChainIntact'
  <2>1. \A n : Commitment(n)' = Commitment(n)
    BY DEF Commitment
  <2> QED
    BY <2>1 DEF Inv, ChainIntact
<1>3. ProofsRemembered'
  <2>1. /\ keeper_account' = keeper_account /\ now' \in Nat /\ now \in Nat /\ now >= 1
        /\ \A k \in Keepers : Registered(k) => keeper_account[k].last_proof_at <= now
    BY DEF registry, Inv, ProofsRemembered, TypeOK
  <2>2. \A k \in Keepers : Registered(k) => keeper_account[k].last_proof_at \in Nat
    BY DEF Inv, RegistryInv, RegistryTypeOK, Registered, KeeperAccounts
  <2>3. \A k \in Keepers : Registered(k) => keeper_account[k].last_proof_at <= now'
    BY <2>1, <2>2
  <2> QED
    BY <2>1, <2>3 DEF Inv, ProofsRemembered, Registered
<1> QED
  BY <1>1, <1>2, <1>3 DEF Inv

LEMMA InvNext == Inv /\ [Next]_vars => Inv'
<1> SUFFICES ASSUME Inv, [Next]_vars PROVE Inv'
  OBVIOUS
<1>0. TypeOK
  BY DEF Inv
<1>1. ASSUME NEW k \in Keepers, Registry(k) PROVE Inv'
  BY <1>1, RegistryStepInvariant
<1>2. ASSUME NEW k \in Keepers, Commit(k) PROVE Inv'
  <2>1. PICK venue_id \in Venues, delta \in DeltaClaims, hedged \in Hedges,
             claimed \in Books, sequence \in 0 .. (MaxProofs - 1) :
            CommitRebalanceProof(k, sequence, venue_id, delta, hedged, claimed)
    BY <1>2 DEF Commit
  <2>2. sequence \in Nat
    OBVIOUS
  <2> QED
    BY <2>1, <2>2, CommitInvariant
<1>3. ASSUME NEW k \in Keepers, NEW hedged \in Hedges, Attest(k, hedged) PROVE Inv'
  <2>1. /\ UNCHANGED <<world, registry, rebalance_count, last_proof_slot,
                      last_proof_hash, proofs>>
        /\ hedged_notional' = hedged /\ hedged \in Nat
    BY <1>3, ChainAssumption DEF Attest
  <2>2. RegistryInv'
    BY <2>1, RegistryUnchanged DEF Inv
  <2>3. TypeOK' /\ now' >= now
    BY <1>0, <2>1, <2>2 DEF TypeOK, world, RegistryInv
  <2> QED
    BY <2>1, <2>3, QuietInvariant
<1>4. CASE NextSlot
  <2>1. /\ slot' = slot + 1 /\ now' \in Nat /\ now' >= now
        /\ UNCHANGED <<params, book, price_loads, registry, chain>>
    BY <1>0, <1>4 DEF NextSlot, Tick, TypeOK
  <2>2. RegistryInv'
    BY <2>1, RegistryUnchanged DEF Inv
  <2>3. TypeOK'
    BY <1>0, <2>1, <2>2 DEF TypeOK, chain, RegistryInv
  <2> QED
    BY <2>1, <2>3, QuietInvariant DEF chain
<1>5. ASSUME NEW value \in Books, NEW loads \in BOOLEAN, BookMoves(value, loads)
      PROVE  Inv'
  <2>1. /\ book' = value /\ book' \in Nat /\ price_loads' \in BOOLEAN
        /\ UNCHANGED <<now, slot, params, registry, chain>>
    BY <1>5, ChainAssumption DEF BookMoves
  <2>2. RegistryInv'
    BY <2>1, RegistryUnchanged DEF Inv
  <2>3. TypeOK' /\ now' >= now
    BY <1>0, <2>1, <2>2 DEF TypeOK, chain, RegistryInv
  <2> QED
    BY <2>1, <2>3, QuietInvariant DEF chain
<1>6. ASSUME NEW p \in ParamSets, SetParams(p) PROVE Inv'
  <2>1. /\ params' = p
        /\ UNCHANGED <<now, slot, book, price_loads, registry, chain>>
    BY <1>6 DEF SetParams
  <2>2. RegistryInv'
    BY <2>1, RegistryUnchanged DEF Inv
  <2>3. TypeOK' /\ now' >= now
    BY <1>0, <2>1, <2>2 DEF TypeOK, chain, RegistryInv
  <2> QED
    BY <2>1, <2>3, QuietInvariant DEF chain
<1>7. CASE UNCHANGED vars
  <2>1. UNCHANGED <<now, slot, params, book, price_loads, registry, chain>>
    BY <1>7 DEF vars, world
  <2>2. RegistryInv'
    BY <2>1, RegistryUnchanged DEF Inv
  <2>3. TypeOK' /\ now' >= now
    BY <1>0, <2>1, <2>2 DEF TypeOK, chain, RegistryInv
  <2> QED
    BY <2>1, <2>3, QuietInvariant DEF chain
<1> QED
  BY <1>1, <1>2, <1>3, <1>4, <1>5, <1>6, <1>7 DEF Next

LEMMA InvAlways == Spec => []Inv
BY InvInit, InvNext, PTL DEF Spec

-----------------------------------------------------------------------------
(* The theorems. *)

\* The registry's books balance whatever is registered, slashed, withdrawn and
\* re-bonded, and whatever the authority does to the minimum in between: every
\* token in custody is accounted for, keeper_count is the number of active
\* keepers, and an active keeper holds a bond the authority once asked for.
THEOREM RegistryConsistent ==
    Spec => [](TypeOK /\ BondsAccounted /\ CountIsActiveKeepers
                 /\ ActiveKeepersHoldAMinimum)
<1>1. Inv => TypeOK /\ BondsAccounted /\ CountIsActiveKeepers
                 /\ ActiveKeepersHoldAMinimum
  BY DEF Inv, RegistryInv
<1> QED
  BY <1>1, InvAlways, PTL

\* The variables of the registry and of the chain keep their types.
THEOREM RegistryKeepsTypes == Spec => []TypeOK
BY RegistryConsistent, PTL

\* Every bond token in custody is some keeper's or was slashed from one.
THEOREM BondsAlwaysAccounted == Spec => []BondsAccounted
BY RegistryConsistent, PTL

\* The active flag never covers a dust bond.
THEOREM ActiveKeepersAreBonded == Spec => []ActiveKeepersHoldAMinimum
BY RegistryConsistent, PTL

\* The proof chain is gapless, strictly ordered by slot, and its head commits to
\* every proof ever accepted.
THEOREM ChainCannotBeRewritten == Spec => []ChainIntact
<1>1. Inv => ChainIntact
  BY DEF Inv
<1> QED
  BY <1>1, InvAlways, PTL

\* What changes a keeper's tokens: only its own withdrawal adds to them, and
\* only after the cooldown.
LEMMA WalletGrows ==
    ASSUME Inv, Next, NEW k \in Keepers, wallet'[k] > wallet[k]
    PROVE  CooledDown(k) /\ Registered(k)
<1>0. /\ wallet \in [Keepers -> Nat]
  BY DEF Inv, RegistryInv, RegistryTypeOK
<1>1. \E j \in Keepers : Registry(j)
  <2>1. wallet' # wallet
    BY <1>0
  <2>2. ASSUME NEW j \in Keepers PROVE ~Commit(j)
    <3> SUFFICES ASSUME NEW venue_id \in Venues, NEW delta \in DeltaClaims,
                        NEW hedged \in Hedges, NEW claimed \in Books,
                        NEW sequence \in 0 .. (MaxProofs - 1),
                        CommitRebalanceProof(j, sequence, venue_id, delta, hedged, claimed)
                 PROVE  FALSE
      BY DEF Commit
    <3>1. wallet' = wallet
      BY DEF CommitRebalanceProof
    <3> QED
      BY <2>1, <3>1
  <2>3. ASSUME NEW j \in Keepers, NEW hedged \in Hedges PROVE ~Attest(j, hedged)
    BY <2>1 DEF Attest, registry
  <2>4. ~NextSlot
    BY <2>1 DEF NextSlot, registry
  <2>5. ASSUME NEW value \in Books, NEW loads \in BOOLEAN PROVE ~BookMoves(value, loads)
    BY <2>1 DEF BookMoves, registry
  <2>6. ASSUME NEW p \in ParamSets PROVE ~SetParams(p)
    BY <2>1 DEF SetParams, registry
  <2> QED
    BY <2>2, <2>3, <2>4, <2>5, <2>6 DEF Next
<1>2. PICK j \in Keepers, amount \in BondAmounts :
          \/ KeeperRegister(j, amount) \/ KeeperBond(j, amount)
          \/ KeeperUnbond(j, amount) \/ KeeperSlash(j, amount)
  BY <1>1 DEF Registry, RegistryStep
<1>3. amount \in Nat
  BY RegistryAssumption
<1>4. ~KeeperSlash(j, amount)
  BY <1>0 DEF KeeperSlash
<1>5. ~(KeeperRegister(j, amount) \/ KeeperBond(j, amount))
  <2> SUFFICES ASSUME wallet' = [wallet EXCEPT ![j] = wallet[j] - amount] PROVE FALSE
    BY DEF KeeperRegister, KeeperBond
  <2> QED
    BY <1>0, <1>3
<1>6. /\ wallet' = [wallet EXCEPT ![j] = wallet[j] + amount]
      /\ CooledDown(j) /\ Registered(j)
  BY <1>2, <1>4, <1>5 DEF KeeperUnbond
<1>7. j = k
  BY <1>0, <1>6
<1> QED
  BY <1>6, <1>7

\* Bond flows back to a keeper only when every proof it ever committed, however
\* its bond came and went since, is older than the cooldown.
THEOREM BondStaysBehindProofs == Spec => BondOutlivesProofs
<1>1. Inv /\ [Next]_vars =>
        [ \A k \in Keepers : wallet'[k] > wallet[k] =>
            \A i \in 1 .. Len(proofs) :
                proofs[i].body.keeper = k =>
                    now - proofs[i].body.timestamp >= params.unbond_cooldown_sec ]_vars
  <2> SUFFICES ASSUME Inv, Next, NEW k \in Keepers, wallet'[k] > wallet[k],
                      NEW i \in 1 .. Len(proofs), proofs[i].body.keeper = k
               PROVE  now - proofs[i].body.timestamp >= params.unbond_cooldown_sec
    OBVIOUS
  <2>1. CooledDown(k) /\ Registered(k)
    BY WalletGrows
  <2>2. /\ proofs[i].body.timestamp \in Nat /\ proofs[i].body.timestamp >= 1
        /\ proofs[i].body.timestamp <= keeper_account[k].last_proof_at
    BY ProofFields DEF Inv, ProofsRemembered
  <2>3. /\ keeper_account[k].last_proof_at \in Nat /\ now \in Nat
        /\ params.unbond_cooldown_sec \in Nat
    BY <2>1, MinimumType
    DEF Inv, RegistryInv, RegistryTypeOK, Registered, KeeperAccounts, TypeOK
  <2>4. now - keeper_account[k].last_proof_at >= params.unbond_cooldown_sec
    BY <2>1, <2>2, <2>3 DEF CooledDown
  <2> QED
    BY <2>2, <2>3, <2>4
<1>2. Spec => [][ \A k \in Keepers : wallet'[k] > wallet[k] =>
            \A i \in 1 .. Len(proofs) :
                proofs[i].body.keeper = k =>
                    now - proofs[i].body.timestamp >= params.unbond_cooldown_sec ]_vars
  BY <1>1, InvAlways, PTL DEF Spec
<1> QED
  BY <1>2 DEF BondOutlivesProofs

=============================================================================
