--------------------------- MODULE GovernanceProofs ---------------------------
(***************************************************************************)
(* Theorems about Governance, for any set of keys.                         *)
(***************************************************************************)
EXTENDS Governance, TLAPS

\* What is pending is the newest proposal, and the authority in force made it.
PendingIsNewest ==
    pending_authority # NoKey =>
        proposal = [ by |-> authority, to |-> pending_authority ]

Inv == TypeOK /\ OpenOnlyWithVaults /\ PendingIsNewest

LEMMA InvInit == Init => Inv
BY GovernanceAssumption
   DEF Init, Inv, TypeOK, OpenOnlyWithVaults, PendingIsNewest, Proposals

LEMMA InvNext == Inv /\ [Next]_vars => Inv'
<1> SUFFICES ASSUME Inv, [Next]_vars PROVE Inv'
  OBVIOUS
<1> USE GovernanceAssumption DEF Inv, TypeOK, OpenOnlyWithVaults, PendingIsNewest
<1>1. ASSUME NEW key \in Keys, NEW mint \in BOOLEAN, NEW redeem \in BOOLEAN,
             SetPaused(key, mint, redeem)
      PROVE  Inv'
  BY <1>1 DEF SetPaused, SafeToOpen, VaultsReady
<1>0. ASSUME NEW key \in Keys, NEW new \in Keys, Initialize(key, new)
      PROVE  Inv'
  BY <1>0 DEF Initialize, VaultsReady
<1>2. ASSUME NEW key \in Keys, NEW new \in Keys, SetGuardian(key, new)
      PROVE  Inv'
  BY <1>2 DEF SetGuardian, switches, VaultsReady
<1>3. ASSUME NEW key \in Keys, NEW group \in VAULT_FLAGS_ALL, InitVaults(key, group)
      PROVE  Inv'
  BY <1>3 DEF InitVaults, switches, VaultsReady
<1>4. ASSUME NEW key \in Keys, NEW new \in Keys \cup {NoKey}, TransferAuthority(key, new)
      PROVE  Inv'
  BY <1>4 DEF TransferAuthority, Proposed, Proposals, switches, VaultsReady
<1>5. ASSUME NEW key \in Keys, AcceptAuthority(key)
      PROVE  Inv'
  BY <1>5 DEF AcceptAuthority, switches, VaultsReady
<1>6. CASE UNCHANGED vars
  BY <1>6 DEF vars, switches, history, VaultsReady
<1> QED
  BY <1>0, <1>1, <1>2, <1>3, <1>4, <1>5, <1>6 DEF Next

LEMMA InvHolds == Spec => []Inv
BY InvInit, InvNext, PTL DEF Spec

\* Whatever the order of vaults, switches and handovers, nothing is open before
\* every vault exists.
THEOREM NothingOpensEarly == Spec => []OpenOnlyWithVaults
<1>1. Inv => OpenOnlyWithVaults
  BY DEF Inv
<1> QED
  BY InvHolds, <1>1, PTL

LEMMA ReopeningStep ==
    ASSUME [Next]_vars,
           (mint_paused /\ ~mint_paused') \/ (redeem_paused /\ ~redeem_paused')
    PROVE  signer' = authority
BY DEF Next, vars, switches, SetPaused, PausesMore, Initialize, SetGuardian,
       InitVaults, TransferAuthority, AcceptAuthority

\* The guardian, whoever it is and was, never opens what was closed.
THEOREM OnlyAuthorityReopens == Spec => ReopenedByAuthority
<1>1. [Next]_vars => [ (mint_paused /\ ~mint_paused') \/ (redeem_paused /\ ~redeem_paused')
                           => signer' = authority ]_vars
  BY ReopeningStep
<1> QED
  BY <1>1, PTL DEF Spec, ReopenedByAuthority

LEMMA HandoverStep ==
    ASSUME Inv, [Next]_vars, authority # NoKey, authority' # authority
    PROVE  /\ signer' = authority'
           /\ proposal = [ by |-> authority, to |-> authority' ]
BY DEF Inv, PendingIsNewest, Next, vars, switches, SetPaused, Initialize, SetGuardian,
       InitVaults, TransferAuthority, AcceptAuthority

\* The authority passes only by its own newest proposal and only to a key that
\* signs for itself.
THEOREM HandoverTakesTwo == Spec => HandoverByNewestProposal
<1>1. Inv /\ [Next]_vars =>
          [ authority # NoKey /\ authority' # authority =>
                signer' = authority'
                /\ proposal = [ by |-> authority, to |-> authority' ] ]_vars
  BY HandoverStep
<1> QED
  BY InvHolds, <1>1, PTL DEF Spec, HandoverByNewestProposal

=============================================================================
