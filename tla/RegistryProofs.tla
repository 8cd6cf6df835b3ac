----------------------------- MODULE RegistryProofs -----------------------------
(***************************************************************************)
(* Lemmas about KeeperRegistry, for every set of keepers and every bond:   *)
(* what each of its handlers, and a committed proof, leave behind.  Both   *)
(* the modules that compose the registry, ProofChain and Protocol, are     *)
(* proved from them.                                                       *)
(***************************************************************************)
EXTENDS KeeperRegistry, ArithmeticTheorems

LEMMA MinimumType ==
    ASSUME params \in ParamSets
    PROVE  params.min_keeper_bond \in Nat \ {0} /\ params.unbond_cooldown_sec \in Nat
BY ParamAssumption DEF ParamRecords, ValidConfig

LEMMA BondTypes ==
    ASSUME RegistryTypeOK
    PROVE  /\ Bonds \in [Keepers -> Nat] /\ Slashes \in [Keepers -> Nat]
           /\ IsFiniteSet(Keepers) /\ IsFiniteSet(ActiveKeepers)
           /\ Sum(Bonds) \in Nat /\ Sum(Slashes) \in Nat
<1>1. Bonds \in [Keepers -> Nat] /\ Slashes \in [Keepers -> Nat]
  BY DEF RegistryTypeOK, KeeperAccounts, Bonds, Slashes, Registered
<1>2. IsFiniteSet(Keepers) /\ ActiveKeepers \subseteq Keepers
  BY RegistryAssumption DEF ActiveKeepers
<1> QED
  BY <1>1, <1>2, SumType, FS_Subset

-----------------------------------------------------------------------------
(* The registry. *)

RegistryInv ==
    /\ RegistryTypeOK
    /\ BondsAccounted
    /\ CountIsActiveKeepers
    /\ ActiveKeepersHoldAMinimum

\* Accounts stay, and so does the time of each keeper's last proof.
ProofTimesKept ==
    \A j \in Keepers :
        /\ Registered(j) =>
               /\ keeper_account'[j] # NoAccount
               /\ keeper_account'[j].last_proof_at = keeper_account[j].last_proof_at
        /\ ~Registered(j) /\ keeper_account'[j] # NoAccount =>
               keeper_account'[j].last_proof_at = 0

\* What set_active leaves behind, whichever handler calls it.
LEMMA Rebonded ==
    ASSUME RegistryTypeOK, CountIsActiveKeepers, ActiveKeepersHoldAMinimum,
           params \in ParamSets, NEW k \in Keepers, NEW account \in KeeperAccounts,
           account.active <=> k \in ActiveKeepers,
           account.last_proof_at =
               IF Registered(k) THEN keeper_account[k].last_proof_at ELSE 0,
           Rebond(k, account)
    PROVE  /\ keeper_account' \in [Keepers -> KeeperAccounts \cup {NoAccount}]
           /\ keeper_count' \in Nat
           /\ Bonds' = [Bonds EXCEPT ![k] = account.bonded]
           /\ Slashes' = [Slashes EXCEPT ![k] = account.slashed]
           /\ CountIsActiveKeepers'
           /\ ActiveKeepersHoldAMinimum'
           /\ ProofTimesKept
<1> DEFINE active == account.bonded >= params.min_keeper_bond
           after == [account EXCEPT !.active = active]
<1>1. /\ keeper_account' = [keeper_account EXCEPT ![k] = after]
      /\ keeper_count' = CountAfter(account.active, active)
  BY DEF Rebond
<1>2. /\ after \in KeeperAccounts
      /\ after.bonded = account.bonded /\ after.slashed = account.slashed
      /\ after.active = active
      /\ after.last_proof_at = account.last_proof_at
      /\ account.bonded \in Nat /\ account.active \in BOOLEAN /\ active \in BOOLEAN
  <2>1. account.bonded \in Nat /\ account.active \in BOOLEAN /\ active \in BOOLEAN
    BY MinimumType DEF KeeperAccounts
  <2> HIDE DEF active
  <2> QED
    BY <2>1 DEF KeeperAccounts
<1> HIDE DEF after
<1>3. after # NoAccount
  BY <1>2, RegistryAssumption
<1>4. /\ keeper_account' \in [Keepers -> KeeperAccounts \cup {NoAccount}]
      /\ keeper_account'[k] = after
      /\ \A j \in Keepers \ {k} : keeper_account'[j] = keeper_account[j]
  BY <1>1, <1>2 DEF RegistryTypeOK
<1>5. /\ Bonds' = [Bonds EXCEPT ![k] = account.bonded]
      /\ Slashes' = [Slashes EXCEPT ![k] = account.slashed]
  BY <1>2, <1>3, <1>4 DEF Bonds, Slashes, Registered
<1>9. ProofTimesKept
  BY <1>2, <1>3, <1>4 DEF ProofTimesKept, Registered
<1>6. /\ IsFiniteSet(ActiveKeepers) /\ keeper_count = Cardinality(ActiveKeepers)
      /\ Cardinality(ActiveKeepers) \in Nat
  BY BondTypes, FS_CardinalityType DEF CountIsActiveKeepers
<1>7. CASE active
  <2>1. ActiveKeepers' = ActiveKeepers \cup {k}
    BY <1>2, <1>3, <1>4, <1>7 DEF ActiveKeepers, Registered
  <2>2. Cardinality(ActiveKeepers') =
            IF k \in ActiveKeepers THEN Cardinality(ActiveKeepers)
            ELSE Cardinality(ActiveKeepers) + 1
    BY <1>6, <2>1, FS_AddElement
  <2>3. keeper_count' = IF k \in ActiveKeepers THEN keeper_count ELSE keeper_count + 1
    BY <1>1, <1>2, <1>7 DEF CountAfter
  <2>4. ActiveKeepersHoldAMinimum'
    <3> SUFFICES ASSUME NEW j \in ActiveKeepers'
                 PROVE  \E p \in ParamSets : keeper_account'[j].bonded >= p.min_keeper_bond
      BY DEF ActiveKeepersHoldAMinimum
    <3>1. CASE j = k
      BY <1>2, <1>4, <1>7, <3>1
    <3>2. CASE j # k
      BY <1>4, <2>1, <3>2 DEF ActiveKeepersHoldAMinimum, ActiveKeepers
    <3> QED
      BY <3>1, <3>2
  <2> QED
    BY <1>4, <1>5, <1>6, <1>9, <2>2, <2>3, <2>4 DEF CountIsActiveKeepers
<1>8. CASE ~active
  <2>1. ActiveKeepers' = ActiveKeepers \ {k}
    BY <1>2, <1>3, <1>4, <1>8 DEF ActiveKeepers, Registered
  <2>2. /\ Cardinality(ActiveKeepers') =
               IF k \in ActiveKeepers THEN Cardinality(ActiveKeepers) - 1
               ELSE Cardinality(ActiveKeepers)
        /\ k \in ActiveKeepers => Cardinality(ActiveKeepers) # 0
        /\ IsFiniteSet(ActiveKeepers')
    BY <1>6, <2>1, FS_RemoveElement, FS_EmptySet
  <2>3. keeper_count' = IF k \in ActiveKeepers THEN keeper_count - 1 ELSE keeper_count
    <3>1. CASE k \in ActiveKeepers
      <4>1. keeper_count \in Nat /\ keeper_count >= 1
        BY <1>6, <2>2, <3>1
      <4> QED
        BY <1>1, <1>2, <1>8, <3>1, <4>1 DEF CountAfter, MonusSaturating
    <3>2. CASE k \notin ActiveKeepers
      BY <1>1, <1>2, <1>8, <3>2 DEF CountAfter
    <3> QED
      BY <3>1, <3>2
  <2>4. ActiveKeepersHoldAMinimum'
    BY <1>4, <2>1 DEF ActiveKeepersHoldAMinimum, ActiveKeepers
  <2>5. Cardinality(ActiveKeepers') \in Nat
    BY <2>2, FS_CardinalityType
  <2> QED
    BY <1>4, <1>5, <1>6, <1>9, <2>2, <2>3, <2>4, <2>5 DEF CountIsActiveKeepers
<1> QED
  BY <1>7, <1>8

\* The sums of bonds and slashes follow the one account that changed.
LEMMA SumsFollow ==
    ASSUME RegistryTypeOK, NEW k \in Keepers, NEW b \in Nat, NEW s \in Nat,
           Bonds' = [Bonds EXCEPT ![k] = b], Slashes' = [Slashes EXCEPT ![k] = s]
    PROVE  /\ Sum(Bonds') = Sum(Bonds) - Bonds[k] + b
           /\ Sum(Slashes') = Sum(Slashes) - Slashes[k] + s
           /\ Sum(Bonds) \in Nat /\ Sum(Slashes) \in Nat
           /\ Bonds[k] \in Nat /\ Slashes[k] \in Nat
           /\ Bonds[k] <= Sum(Bonds)
<1>1. /\ Bonds' \in [Keepers -> Nat] /\ Bonds'[k] = b
      /\ \A j \in Keepers \ {k} : Bonds'[j] = Bonds[j]
      /\ Slashes' \in [Keepers -> Nat] /\ Slashes'[k] = s
      /\ \A j \in Keepers \ {k} : Slashes'[j] = Slashes[j]
  BY BondTypes
<1>6. ASSUME NEW f \in [Keepers -> Nat], NEW g \in [Keepers -> Nat],
             \A j \in Keepers \ {k} : g[j] = f[j]
      PROVE  Sum(g) = Sum(f) - f[k] + g[k]
  <2>1. IsFiniteSet(Keepers)
    BY RegistryAssumption
  <2> QED
    BY <1>6, <2>1, SumUpdate
<1>2. Sum(Bonds') = Sum(Bonds) - Bonds[k] + b
  BY <1>1, <1>6, BondTypes, Zenon
<1>3. Sum(Slashes') = Sum(Slashes) - Slashes[k] + s
  BY <1>1, <1>6, BondTypes, Zenon
<1>4. Bonds[k] <= Sum(Bonds)
  BY BondTypes, SumBound
<1>5. Bonds[k] \in Nat /\ Slashes[k] \in Nat
  BY BondTypes
<1> QED
  BY <1>2, <1>3, <1>4, <1>5, BondTypes

\* Each handler moves tokens, an account and the totals by the same amount.
LEMMA RegistryStepInv ==
    ASSUME RegistryInv, params \in ParamSets, NEW k \in Keepers, RegistryStep(k)
    PROVE  RegistryInv' /\ ProofTimesKept
<1>0. /\ RegistryTypeOK /\ BondsAccounted
      /\ Bonds \in [Keepers -> Nat] /\ Slashes \in [Keepers -> Nat]
      /\ IsFiniteSet(Keepers)
  BY BondTypes DEF RegistryInv
<1>1. PICK amount \in BondAmounts :
          \/ KeeperRegister(k, amount) \/ KeeperBond(k, amount)
          \/ KeeperUnbond(k, amount) \/ KeeperSlash(k, amount)
  BY DEF RegistryStep
<1>2. amount \in Nat
  BY RegistryAssumption
<1>3. CASE KeeperRegister(k, amount)
  <2> DEFINE account == [ bonded |-> amount, slashed |-> 0, proofs_committed |-> 0,
                          last_proof_at |-> 0, last_proof_slot |-> 0, active |-> FALSE ]
  <2>1. /\ Rebond(k, account) /\ ~Registered(k) /\ amount <= wallet[k]
        /\ wallet' = [wallet EXCEPT ![k] = wallet[k] - amount]
        /\ bond_vault' = bond_vault + amount /\ bonded_total' = bonded_total + amount
        /\ UNCHANGED <<slashed_total, buffer_bond_vault>>
    BY <1>3 DEF KeeperRegister
  <2>2. account \in KeeperAccounts /\ account.bonded = amount /\ account.slashed = 0
        /\ account.last_proof_at = 0
        /\ (account.active <=> k \in ActiveKeepers)
    BY <1>2, <2>1 DEF KeeperAccounts, ActiveKeepers
  <2> HIDE DEF account
  <2>3. /\ keeper_account' \in [Keepers -> KeeperAccounts \cup {NoAccount}]
        /\ keeper_count' \in Nat
        /\ Bonds' = [Bonds EXCEPT ![k] = amount]
        /\ Slashes' = [Slashes EXCEPT ![k] = 0]
        /\ CountIsActiveKeepers' /\ ActiveKeepersHoldAMinimum'
        /\ ProofTimesKept
    BY <2>1, <2>2, Rebonded DEF RegistryInv
  <2>4. Bonds[k] = 0 /\ Slashes[k] = 0
    BY <2>1 DEF Bonds, Slashes
  <2>5. Sum(Bonds') = Sum(Bonds) + amount /\ Sum(Slashes') = Sum(Slashes)
    <3>1. /\ Sum(Bonds') = Sum(Bonds) - Bonds[k] + amount
          /\ Sum(Slashes') = Sum(Slashes) - Slashes[k] + 0
          /\ Sum(Bonds) \in Nat /\ Sum(Slashes) \in Nat
      <4>1. 0 \in Nat
        OBVIOUS
      <4> QED
        BY <1>0, <1>2, <2>3, <4>1, SumsFollow, Zenon
    <3> QED
      BY <1>2, <2>4, <3>1
  <2>6. RegistryTypeOK'
    BY <1>0, <1>2, <2>1, <2>3 DEF RegistryTypeOK
  <2> QED
    BY <1>0, <1>2, <2>1, <2>3, <2>5, <2>6 DEF RegistryInv, BondsAccounted
<1>4. CASE KeeperBond(k, amount)
  <2> DEFINE account == [keeper_account[k] EXCEPT !.bonded = keeper_account[k].bonded + amount]
  <2>1. /\ Rebond(k, account) /\ Registered(k) /\ amount <= wallet[k]
        /\ wallet' = [wallet EXCEPT ![k] = wallet[k] - amount]
        /\ bond_vault' = bond_vault + amount /\ bonded_total' = bonded_total + amount
        /\ UNCHANGED <<slashed_total, buffer_bond_vault>>
    BY <1>4 DEF KeeperBond
  <2>2. keeper_account[k] \in KeeperAccounts
    BY <1>0, <2>1 DEF RegistryTypeOK, Registered
  <2>3. /\ account \in KeeperAccounts /\ account.bonded = keeper_account[k].bonded + amount
        /\ account.slashed = keeper_account[k].slashed
        /\ account.last_proof_at = keeper_account[k].last_proof_at
        /\ (account.active <=> k \in ActiveKeepers)
    BY <1>2, <2>1, <2>2 DEF KeeperAccounts, ActiveKeepers
  <2> HIDE DEF account
  <2>4. /\ keeper_account' \in [Keepers -> KeeperAccounts \cup {NoAccount}]
        /\ keeper_count' \in Nat
        /\ Bonds' = [Bonds EXCEPT ![k] = account.bonded]
        /\ Slashes' = [Slashes EXCEPT ![k] = account.slashed]
        /\ CountIsActiveKeepers' /\ ActiveKeepersHoldAMinimum'
        /\ ProofTimesKept
    BY <2>1, <2>3, Rebonded DEF RegistryInv
  <2>5. /\ Bonds[k] = keeper_account[k].bonded /\ Slashes[k] = keeper_account[k].slashed
        /\ account.bonded \in Nat /\ account.slashed \in Nat
    BY <2>1, <2>3 DEF Bonds, Slashes, KeeperAccounts
  <2>6. Sum(Bonds') = Sum(Bonds) + amount /\ Sum(Slashes') = Sum(Slashes)
    <3>1. /\ Sum(Bonds') = Sum(Bonds) - Bonds[k] + account.bonded
          /\ Sum(Slashes') = Sum(Slashes) - Slashes[k] + account.slashed
          /\ Sum(Bonds) \in Nat /\ Sum(Slashes) \in Nat
          /\ Bonds[k] \in Nat /\ Slashes[k] \in Nat
          /\ Bonds[k] <= Sum(Bonds)
      BY <1>0, <2>4, <2>5, SumsFollow, Zenon
    <3> QED
      BY <1>2, <2>1, <2>3, <2>5, <3>1
  <2>7. RegistryTypeOK'
    BY <1>0, <1>2, <2>1, <2>4 DEF RegistryTypeOK
  <2> QED
    BY <1>0, <1>2, <2>1, <2>4, <2>6, <2>7 DEF RegistryInv, BondsAccounted
<1>5. CASE KeeperUnbond(k, amount)
  <2> DEFINE account == [keeper_account[k] EXCEPT !.bonded = keeper_account[k].bonded - amount]
  <2>1. /\ Rebond(k, account) /\ Registered(k) /\ amount <= keeper_account[k].bonded
        /\ wallet' = [wallet EXCEPT ![k] = wallet[k] + amount]
        /\ bond_vault' = bond_vault - amount /\ bonded_total' = bonded_total - amount
        /\ UNCHANGED <<slashed_total, buffer_bond_vault>>
    BY <1>5 DEF KeeperUnbond
  <2>2. keeper_account[k] \in KeeperAccounts
    BY <1>0, <2>1 DEF RegistryTypeOK, Registered
  <2>3. /\ account \in KeeperAccounts /\ account.bonded = keeper_account[k].bonded - amount
        /\ account.slashed = keeper_account[k].slashed
        /\ account.last_proof_at = keeper_account[k].last_proof_at
        /\ (account.active <=> k \in ActiveKeepers)
    BY <1>2, <2>1, <2>2 DEF KeeperAccounts, ActiveKeepers
  <2> HIDE DEF account
  <2>4. /\ keeper_account' \in [Keepers -> KeeperAccounts \cup {NoAccount}]
        /\ keeper_count' \in Nat
        /\ Bonds' = [Bonds EXCEPT ![k] = account.bonded]
        /\ Slashes' = [Slashes EXCEPT ![k] = account.slashed]
        /\ CountIsActiveKeepers' /\ ActiveKeepersHoldAMinimum'
        /\ ProofTimesKept
    BY <2>1, <2>3, Rebonded DEF RegistryInv
  <2>5. /\ Bonds[k] = keeper_account[k].bonded /\ Slashes[k] = keeper_account[k].slashed
        /\ account.bonded \in Nat /\ account.slashed \in Nat
    BY <2>1, <2>3 DEF Bonds, Slashes, KeeperAccounts
  <2>6. /\ Sum(Bonds') = Sum(Bonds) - amount /\ Sum(Slashes') = Sum(Slashes)
        /\ amount <= Sum(Bonds)
    <3>1. /\ Sum(Bonds') = Sum(Bonds) - Bonds[k] + account.bonded
          /\ Sum(Slashes') = Sum(Slashes) - Slashes[k] + account.slashed
          /\ Sum(Bonds) \in Nat /\ Sum(Slashes) \in Nat
          /\ Bonds[k] \in Nat /\ Slashes[k] \in Nat
          /\ Bonds[k] <= Sum(Bonds)
      BY <1>0, <2>4, <2>5, SumsFollow, Zenon
    <3> QED
      BY <1>2, <2>1, <2>3, <2>5, <3>1
  <2>7. RegistryTypeOK'
    BY <1>0, <1>2, <2>1, <2>4, <2>6 DEF RegistryTypeOK, BondsAccounted
  <2> QED
    BY <1>0, <1>2, <2>1, <2>4, <2>6, <2>7 DEF RegistryInv, BondsAccounted
<1>6. CASE KeeperSlash(k, amount)
  <2> DEFINE account == [keeper_account[k] EXCEPT
                             !.bonded = keeper_account[k].bonded - amount,
                             !.slashed = keeper_account[k].slashed + amount]
  <2>1. /\ Rebond(k, account) /\ Registered(k) /\ amount <= keeper_account[k].bonded
        /\ bond_vault' = bond_vault - amount /\ bonded_total' = bonded_total - amount
        /\ buffer_bond_vault' = buffer_bond_vault + amount
        /\ slashed_total' = slashed_total + amount
        /\ UNCHANGED wallet
    BY <1>6 DEF KeeperSlash
  <2>2. keeper_account[k] \in KeeperAccounts
    BY <1>0, <2>1 DEF RegistryTypeOK, Registered
  <2>3. /\ account \in KeeperAccounts /\ account.bonded = keeper_account[k].bonded - amount
        /\ account.slashed = keeper_account[k].slashed + amount
        /\ account.last_proof_at = keeper_account[k].last_proof_at
        /\ (account.active <=> k \in ActiveKeepers)
    <3>1. /\ account.active = keeper_account[k].active
          /\ account.last_proof_at = keeper_account[k].last_proof_at
      BY <2>2 DEF KeeperAccounts
    <3>2. k \in ActiveKeepers <=> keeper_account[k].active
      BY <2>1 DEF ActiveKeepers
    <3>3. /\ account.bonded = keeper_account[k].bonded - amount
          /\ account.slashed = keeper_account[k].slashed + amount
      BY <2>2 DEF KeeperAccounts
    <3>4. /\ keeper_account[k].bonded - amount \in Nat
          /\ keeper_account[k].slashed + amount \in Nat
      BY <1>2, <2>1, <2>2 DEF KeeperAccounts
    <3>5. account \in KeeperAccounts
      BY <2>2, <3>4 DEF KeeperAccounts
    <3> QED
      BY <3>1, <3>2, <3>3, <3>5
  <2> HIDE DEF account
  <2>4. /\ keeper_account' \in [Keepers -> KeeperAccounts \cup {NoAccount}]
        /\ keeper_count' \in Nat
        /\ Bonds' = [Bonds EXCEPT ![k] = account.bonded]
        /\ Slashes' = [Slashes EXCEPT ![k] = account.slashed]
        /\ CountIsActiveKeepers' /\ ActiveKeepersHoldAMinimum'
        /\ ProofTimesKept
    BY <2>1, <2>3, Rebonded DEF RegistryInv
  <2>5. /\ Bonds[k] = keeper_account[k].bonded /\ Slashes[k] = keeper_account[k].slashed
        /\ account.bonded \in Nat /\ account.slashed \in Nat
    BY <2>1, <2>3 DEF Bonds, Slashes, KeeperAccounts
  <2>6. /\ Sum(Bonds') = Sum(Bonds) - amount /\ Sum(Slashes') = Sum(Slashes) + amount
        /\ amount <= Sum(Bonds)
    <3>1. /\ Sum(Bonds') = Sum(Bonds) - Bonds[k] + account.bonded
          /\ Sum(Slashes') = Sum(Slashes) - Slashes[k] + account.slashed
          /\ Sum(Bonds) \in Nat /\ Sum(Slashes) \in Nat
          /\ Bonds[k] \in Nat /\ Slashes[k] \in Nat
          /\ Bonds[k] <= Sum(Bonds)
      BY <1>0, <2>4, <2>5, SumsFollow, Zenon
    <3> QED
      BY <1>2, <2>1, <2>3, <2>5, <3>1
  <2>7. RegistryTypeOK'
    BY <1>0, <1>2, <2>1, <2>4, <2>6 DEF RegistryTypeOK, BondsAccounted
  <2> QED
    BY <1>0, <1>2, <2>1, <2>4, <2>6, <2>7 DEF RegistryInv, BondsAccounted
<1> QED
  BY <1>1, <1>3, <1>4, <1>5, <1>6

\* No keeper, no bond.
LEMMA RegistryStarts == RegistryInit => RegistryInv
<1> SUFFICES ASSUME RegistryInit PROVE RegistryInv
  OBVIOUS
<1>1. /\ keeper_account = [k \in Keepers |-> NoAccount]
      /\ keeper_count = 0 /\ bonded_total = 0 /\ slashed_total = 0
      /\ bond_vault = 0 /\ buffer_bond_vault = 0
  BY DEF RegistryInit
<1>2. wallet \in [Keepers -> Nat]
  BY RegistryAssumption DEF RegistryInit
<1>3. ActiveKeepers = {}
  BY <1>1 DEF ActiveKeepers, Registered
<1>4. Bonds = [k \in Keepers |-> 0] /\ Slashes = [k \in Keepers |-> 0]
  BY <1>1 DEF Bonds, Slashes, Registered
<1>5. Sum(Bonds) = 0 /\ Sum(Slashes) = 0
  BY <1>4, SumZero
<1> QED
  BY <1>1, <1>2, <1>3, <1>5, FS_EmptySet
  DEF RegistryInv, RegistryTypeOK, BondsAccounted, CountIsActiveKeepers,
      ActiveKeepersHoldAMinimum

\* The registry's invariant speaks of the registry only.
LEMMA RegistryUnchanged ==
    ASSUME RegistryInv, UNCHANGED registry
    PROVE  RegistryInv'
<1>1. /\ Bonds' = Bonds /\ Slashes' = Slashes /\ ActiveKeepers' = ActiveKeepers
  BY DEF Bonds, Slashes, ActiveKeepers, Registered, registry
<1> QED
  BY <1>1 DEF RegistryInv, RegistryTypeOK, BondsAccounted, CountIsActiveKeepers,
     ActiveKeepersHoldAMinimum, registry

\* A committed proof is noted in its keeper's account and changes neither a bond
\* nor a flag.
LEMMA ProofNoted ==
    ASSUME RegistryInv, NEW k \in Keepers, Trusted(k),
           NEW at \in Nat, NEW in_slot \in Nat,
           keeper_account' =
               [keeper_account EXCEPT ![k].proofs_committed = @ + 1,
                                      ![k].last_proof_at = at,
                                      ![k].last_proof_slot = in_slot],
           UNCHANGED <<keeper_count, bonded_total, slashed_total,
                       bond_vault, buffer_bond_vault, wallet>>
    PROVE  /\ RegistryInv'
           /\ \A j \in Keepers : Registered(j)' <=> Registered(j)
           /\ Bonds' = Bonds /\ ActiveKeepers' = ActiveKeepers
           /\ keeper_account'[k].last_proof_at = at
           /\ \A j \in Keepers \ {k} : keeper_account'[j] = keeper_account[j]
<1> DEFINE account == [keeper_account[k] EXCEPT
                           !.proofs_committed = keeper_account[k].proofs_committed + 1,
                           !.last_proof_at = at, !.last_proof_slot = in_slot]
<1>0. RegistryTypeOK /\ Registered(k)
  BY DEF RegistryInv, Trusted
<1>1. keeper_account[k] \in KeeperAccounts
  BY <1>0 DEF RegistryTypeOK, Registered
<1>2. /\ account \in KeeperAccounts /\ account.last_proof_at = at
      /\ account.bonded = keeper_account[k].bonded
      /\ account.slashed = keeper_account[k].slashed
      /\ account.active = keeper_account[k].active
  <2>1. keeper_account[k].proofs_committed + 1 \in Nat
    BY <1>1 DEF KeeperAccounts
  <2>2. account \in KeeperAccounts
    BY <1>1, <2>1 DEF KeeperAccounts
  <2>3. account.last_proof_at = at
    BY <1>1 DEF KeeperAccounts
  <2>4. /\ account.bonded = keeper_account[k].bonded
        /\ account.slashed = keeper_account[k].slashed
        /\ account.active = keeper_account[k].active
    BY <1>1 DEF KeeperAccounts
  <2> QED
    BY <2>2, <2>3, <2>4
<1>3. keeper_account' = [keeper_account EXCEPT ![k] = account]
  BY <1>0, <1>1 DEF RegistryTypeOK, KeeperAccounts
<1> HIDE DEF account
<1>4. /\ keeper_account' \in [Keepers -> KeeperAccounts \cup {NoAccount}]
      /\ Registered(k)' /\ keeper_account'[k] = account
      /\ \A j \in Keepers \ {k} : keeper_account'[j] = keeper_account[j]
  <2> DEFINE Kept == KeeperAccounts \cup {NoAccount}
  <2>0. keeper_account \in [Keepers -> Kept] /\ account \in Kept
    BY <1>0, <1>2 DEF RegistryTypeOK
  <2> HIDE DEF Kept
  <2>1. /\ keeper_account' \in [Keepers -> Kept]
        /\ keeper_account'[k] = account
        /\ \A j \in Keepers \ {k} : keeper_account'[j] = keeper_account[j]
    BY ONLY <2>0, <1>3, k \in Keepers
  <2>2. account # NoAccount
    BY <1>2, RegistryAssumption
  <2> QED
    BY <2>1, <2>2 DEF Registered, Kept
<1>5. \A j \in Keepers : Registered(j)' <=> Registered(j)
  BY <1>0, <1>4 DEF Registered
<1>6. Bonds' = Bonds /\ Slashes' = Slashes /\ ActiveKeepers' = ActiveKeepers
  BY <1>2, <1>4, <1>5 DEF Bonds, Slashes, ActiveKeepers
<1>7. ActiveKeepersHoldAMinimum'
  BY <1>2, <1>4, <1>6 DEF RegistryInv, ActiveKeepersHoldAMinimum, ActiveKeepers
<1> QED
  BY <1>2, <1>4, <1>5, <1>6, <1>7
  DEF RegistryInv, RegistryTypeOK, BondsAccounted, CountIsActiveKeepers

=============================================================================
