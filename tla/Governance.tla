------------------------------ MODULE Governance ------------------------------
(***************************************************************************)
(* Who may do what: the authority and its two-step handover, the guardian, *)
(* the two circuit breakers and the creation of the vaults                 *)
(* (instructions/admin.rs and instructions/vaults.rs).                     *)
(*                                                                         *)
(* Any key may sign any instruction; the handlers decide by the keys in    *)
(* Config. What no account stores, the signer of the last instruction and  *)
(* who made the newest proposal, is kept in history variables.             *)
(***************************************************************************)
CONSTANTS Keys,
          NoKey            \* Pubkey::default()

ASSUME GovernanceAssumption == NoKey \notin Keys

VARIABLES
    authority,             \* Config
    pending_authority,     \* Config
    guardian,              \* Config
    mint_paused,           \* Config
    redeem_paused,         \* Config
    vault_flags,           \* Config
    signer,                \* history: who signed the last instruction
    proposal               \* history: the newest proposal

switches == <<mint_paused, redeem_paused>>
history == <<signer, proposal>>
vars == <<authority, pending_authority, guardian, switches, vault_flags, history>>

VAULT_FLAGS_ALL == {"collateral", "bond", "funding", "stake"}

VaultsReady == vault_flags = VAULT_FLAGS_ALL

Proposals == [ by : Keys \cup {NoKey}, to : Keys \cup {NoKey} ]

TypeOK ==
    /\ authority \in Keys \cup {NoKey} /\ guardian \in Keys \cup {NoKey}
    /\ pending_authority \in Keys \cup {NoKey}
    /\ mint_paused \in BOOLEAN /\ redeem_paused \in BOOLEAN
    /\ vault_flags \subseteq VAULT_FLAGS_ALL
    /\ signer \in Keys \cup {NoKey}
    /\ proposal \in Proposals

\* The program is deployed and Config does not exist: no key can sign for the
\* default one its fields would hold.
Init ==
    /\ authority = NoKey /\ guardian = NoKey /\ pending_authority = NoKey
    /\ mint_paused = TRUE /\ redeem_paused = TRUE
    /\ vault_flags = {}
    /\ signer = NoKey
    /\ proposal = [ by |-> NoKey, to |-> NoKey ]

-----------------------------------------------------------------------------

\* initialize: whoever creates Config is the authority and names the guardian;
\* both breakers are thrown and no vault exists.  Config is created once.
Initialize(key, new) ==
    /\ authority = NoKey
    /\ authority' = key
    /\ guardian' = new
    /\ pending_authority' = NoKey
    /\ mint_paused' = TRUE /\ redeem_paused' = TRUE
    /\ vault_flags' = {}
    /\ signer' = key
    /\ UNCHANGED proposal

\* A faulty variant: the vaults are asked for before minting only.
SafeToOpenForMinting(mint, redeem) == ~mint => VaultsReady

\* Unpausing either side demands every vault.
SafeToOpen(mint, redeem) == ~mint \/ ~redeem => VaultsReady

\* A faulty variant: the guardian is refused only when it opens both at once.
PausesOneMore(mint, redeem) == (mint \/ ~mint_paused) \/ (redeem \/ ~redeem_paused)

\* The guardian may move each switch towards paused only.
PausesMore(mint, redeem) == (mint \/ ~mint_paused) /\ (redeem \/ ~redeem_paused)

SetPaused(key, mint, redeem) ==
    /\ key = authority \/ (key = guardian /\ PausesMore(mint, redeem))
    /\ SafeToOpen(mint, redeem)
    /\ mint_paused' = mint
    /\ redeem_paused' = redeem
    /\ signer' = key
    /\ UNCHANGED <<authority, pending_authority, guardian, vault_flags, proposal>>

SetGuardian(key, new) ==
    /\ key = authority
    /\ guardian' = new
    /\ signer' = key
    /\ UNCHANGED <<authority, pending_authority, switches, vault_flags, proposal>>

InitVaults(key, group) ==
    /\ key = authority
    /\ group \notin vault_flags
    /\ vault_flags' = vault_flags \cup {group}
    /\ signer' = key
    /\ UNCHANGED <<authority, pending_authority, guardian, switches, proposal>>

\* A faulty variant: a proposal made while another is pending is dropped.
FirstProposalStands(new) == IF pending_authority = NoKey THEN new ELSE pending_authority

\* The newest proposal replaces an earlier one; proposing nobody withdraws it.
Proposed(new) == new

TransferAuthority(key, new) ==
    /\ key = authority
    /\ pending_authority' = Proposed(new)
    /\ proposal' = [ by |-> key, to |-> new ]
    /\ signer' = key
    /\ UNCHANGED <<authority, guardian, switches, vault_flags>>

AcceptAuthority(key) ==
    /\ pending_authority # NoKey
    /\ key = pending_authority
    /\ authority' = pending_authority
    /\ pending_authority' = NoKey
    /\ signer' = key
    /\ UNCHANGED <<guardian, switches, vault_flags, proposal>>

Next ==
    \E key \in Keys :
        \/ \E mint, redeem \in BOOLEAN : SetPaused(key, mint, redeem)
        \/ \E new \in Keys : Initialize(key, new) \/ SetGuardian(key, new)
        \/ \E group \in VAULT_FLAGS_ALL : InitVaults(key, group)
        \/ \E new \in Keys \cup {NoKey} : TransferAuthority(key, new)
        \/ AcceptAuthority(key)

Spec == Init /\ [][Next]_vars

-----------------------------------------------------------------------------

\* No breaker is ever open before every vault exists, in whatever order vaults
\* are created, switches are thrown and the authority changes hands: an open
\* instruction with a missing vault could take tokens it cannot book.
OpenOnlyWithVaults == ~mint_paused \/ ~redeem_paused => VaultsReady

\* A breaker is only ever opened by the authority of that moment: neither a
\* guardian, nor a former authority that is still guardian, nor a proposed one
\* opens what was closed, in one step or in several.
ReopenedByAuthority ==
    [][ (mint_paused /\ ~mint_paused') \/ (redeem_paused /\ ~redeem_paused')
            => signer' = authority ]_vars

\* The authority passes only to a key that signs for itself, and only by the
\* newest proposal of the authority in force: a proposal that was withdrawn or
\* superseded, or made by a former authority, is dead, and nobody creates Config
\* anew over it.
HandoverByNewestProposal ==
    [][ authority # NoKey /\ authority' # authority =>
            signer' = authority' /\ proposal = [ by |-> authority, to |-> authority' ] ]_vars

=============================================================================
