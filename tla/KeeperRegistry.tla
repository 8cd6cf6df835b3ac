---------------------------- MODULE KeeperRegistry ----------------------------
(***************************************************************************)
(* Registration, bonding, unbonding and slashing of keepers:               *)
(* programs/poyz/src/instructions/keeper.rs.                               *)
(*                                                                         *)
(* A Keeper account is created once and never closed.  Sums of bonds need  *)
(* no overflow guard: every token of the bond mint is counted once and its *)
(* supply is itself a u64.                                                 *)
(***************************************************************************)
EXTENDS Parameters, Sums

CONSTANTS Keepers,
          BondAmounts,     \* amounts a caller may name
          BondHoldings,    \* bond tokens a keeper may start with
          NoAccount        \* a Keeper account that does not exist

KeeperAccounts ==
    [ bonded : Nat, slashed : Nat, proofs_committed : Nat,
      last_proof_at : Nat, last_proof_slot : Nat, active : BOOLEAN ]

ASSUME RegistryAssumption ==
    /\ IsFiniteSet(Keepers)
    /\ BondAmounts \subseteq Nat /\ BondHoldings \subseteq Nat
    /\ NoAccount \notin KeeperAccounts

VARIABLES
    keeper_account,      \* the Keeper account of each keeper
    keeper_count,        \* Config: how many of them are active
    bonded_total,        \* Config
    slashed_total,       \* Config
    bond_vault,          \* balance of the bond vault
    buffer_bond_vault,   \* balance of the insurance buffer's bond vault
    wallet               \* bond tokens each keeper holds

registry == <<keeper_account, keeper_count, bonded_total, slashed_total,
              bond_vault, buffer_bond_vault, wallet>>

RegistryTypeOK ==
    /\ keeper_account \in [Keepers -> KeeperAccounts \cup {NoAccount}]
    /\ keeper_count \in Nat /\ bonded_total \in Nat /\ slashed_total \in Nat
    /\ bond_vault \in Nat /\ buffer_bond_vault \in Nat
    /\ wallet \in [Keepers -> Nat]

RegistryInit ==
    /\ keeper_account = [k \in Keepers |-> NoAccount]
    /\ keeper_count = 0 /\ bonded_total = 0 /\ slashed_total = 0
    /\ bond_vault = 0 /\ buffer_bond_vault = 0
    /\ wallet \in [Keepers -> BondHoldings]

Registered(k) == keeper_account[k] # NoAccount

\* A faulty variant: the flag is taken for the bond.
TrustedByFlag(k) == Registered(k) /\ keeper_account[k].active

\* What the instructions that take a keeper's word require of it.
Trusted(k) ==
    /\ Registered(k)
    /\ keeper_account[k].active
    /\ keeper_account[k].bonded >= params.min_keeper_bond

-----------------------------------------------------------------------------

\* A faulty variant: every bonding counts.
CountAfterEveryBond(was, active) ==
    IF active THEN keeper_count + 1 ELSE MonusSaturating(keeper_count, 1)

\* keeper_count after set_active on a keeper whose flag was "was".
CountAfter(was, active) ==
    IF was = active THEN keeper_count
    ELSE IF active THEN keeper_count + 1
    ELSE MonusSaturating(keeper_count, 1)

\* A faulty variant: the flag is never taken away.
RebondKeepsActive(k, account) ==
    LET active == account.active \/ account.bonded >= params.min_keeper_bond
    IN  /\ keeper_account' =
               [keeper_account EXCEPT ![k] = [account EXCEPT !.active = active]]
        /\ keeper_count' = CountAfter(account.active, active)

\* The account holds a new bond; set_active follows it, against the minimum in
\* force now.
Rebond(k, account) ==
    LET active == account.bonded >= params.min_keeper_bond
    IN  /\ keeper_account' =
               [keeper_account EXCEPT ![k] = [account EXCEPT !.active = active]]
        /\ keeper_count' = CountAfter(account.active, active)

KeeperRegister(k, amount) ==
    /\ ~Registered(k)
    /\ amount >= params.min_keeper_bond
    /\ amount <= wallet[k]
    /\ Rebond(k, [ bonded |-> amount, slashed |-> 0, proofs_committed |-> 0,
                   last_proof_at |-> 0, last_proof_slot |-> 0, active |-> FALSE ])
    /\ wallet' = [wallet EXCEPT ![k] = @ - amount]
    /\ bond_vault' = bond_vault + amount
    /\ bonded_total' = bonded_total + amount
    /\ UNCHANGED <<slashed_total, buffer_bond_vault>>

\* A faulty variant: Config is not told.
KeeperBondUncounted(k, amount) ==
    /\ amount > 0
    /\ Registered(k)
    /\ amount <= wallet[k]
    /\ Rebond(k, [keeper_account[k] EXCEPT !.bonded = @ + amount])
    /\ wallet' = [wallet EXCEPT ![k] = @ - amount]
    /\ bond_vault' = bond_vault + amount
    /\ UNCHANGED <<bonded_total, slashed_total, buffer_bond_vault>>

KeeperBond(k, amount) ==
    /\ amount > 0
    /\ Registered(k)
    /\ amount <= wallet[k]
    /\ Rebond(k, [keeper_account[k] EXCEPT !.bonded = @ + amount])
    /\ wallet' = [wallet EXCEPT ![k] = @ - amount]
    /\ bond_vault' = bond_vault + amount
    /\ bonded_total' = bonded_total + amount
    /\ UNCHANGED <<slashed_total, buffer_bond_vault>>

\* A faulty variant: the cooldown lifted together with the flag.
CooledDownWhenInactive(k) ==
    keeper_account[k].last_proof_at > 0 /\ keeper_account[k].active =>
        now - keeper_account[k].last_proof_at >= params.unbond_cooldown_sec

\* The cooldown runs from the keeper's last proof; a keeper that never
\* committed one has none.
CooledDown(k) ==
    keeper_account[k].last_proof_at > 0 =>
        now - keeper_account[k].last_proof_at >= params.unbond_cooldown_sec

KeeperUnbond(k, amount) ==
    LET remaining == keeper_account[k].bonded - amount
    IN  /\ amount > 0
        /\ Registered(k)
        /\ amount <= keeper_account[k].bonded
        /\ CooledDown(k)
        /\ remaining = 0 \/ remaining >= params.min_keeper_bond
        /\ Rebond(k, [keeper_account[k] EXCEPT !.bonded = remaining])
        /\ wallet' = [wallet EXCEPT ![k] = @ + amount]
        /\ bond_vault' = bond_vault - amount
        /\ bonded_total' = bonded_total - amount
        /\ UNCHANGED <<slashed_total, buffer_bond_vault>>

\* A faulty variant: more slashed than is bonded.
KeeperSlashUnbounded(k, amount) ==
    /\ amount > 0
    /\ Registered(k)
    /\ Rebond(k, [keeper_account[k] EXCEPT !.bonded = @ - amount,
                                           !.slashed = @ + amount])
    /\ bond_vault' = bond_vault - amount
    /\ buffer_bond_vault' = buffer_bond_vault + amount
    /\ bonded_total' = bonded_total - amount
    /\ slashed_total' = slashed_total + amount
    /\ UNCHANGED wallet

\* The authority's decision; the reason and the evidence are arguments it must
\* supply, and what is slashed goes to the insurance buffer.
KeeperSlash(k, amount) ==
    /\ amount > 0
    /\ Registered(k)
    /\ amount <= keeper_account[k].bonded
    /\ Rebond(k, [keeper_account[k] EXCEPT !.bonded = @ - amount,
                                           !.slashed = @ + amount])
    /\ bond_vault' = bond_vault - amount
    /\ buffer_bond_vault' = buffer_bond_vault + amount
    /\ bonded_total' = bonded_total - amount
    /\ slashed_total' = slashed_total + amount
    /\ UNCHANGED wallet

RegistryStep(k) ==
    \E amount \in BondAmounts :
        \/ KeeperRegister(k, amount)
        \/ KeeperBond(k, amount)
        \/ KeeperUnbond(k, amount)
        \/ KeeperSlash(k, amount)

-----------------------------------------------------------------------------

Bonds == [k \in Keepers |-> IF Registered(k) THEN keeper_account[k].bonded ELSE 0]
Slashes == [k \in Keepers |-> IF Registered(k) THEN keeper_account[k].slashed ELSE 0]

ActiveKeepers == {k \in Keepers : Registered(k) /\ keeper_account[k].active}

\* Every bond token in the program's custody is some keeper's bond or was
\* slashed from one: each handler moves tokens, an account and two totals of
\* Config together.
BondsAccounted ==
    /\ bond_vault = bonded_total
    /\ bonded_total = Sum(Bonds)
    /\ buffer_bond_vault = slashed_total
    /\ slashed_total = Sum(Slashes)

\* keeper_count "can never double-count a keeper that crosses the minimum bond
\* more than once": it is the number of active keepers, through any sequence of
\* slashes, exits, returns and changes of the minimum.
CountIsActiveKeepers == keeper_count = Cardinality(ActiveKeepers)

\* No sequence of slashes, partial exits and changes of the minimum leaves an
\* active keeper with less than some minimum the authority has set: the flag
\* may lag the minimum in force, but it never covers a dust bond.
ActiveKeepersHoldAMinimum ==
    \A k \in ActiveKeepers :
        \E p \in ParamSets : keeper_account[k].bonded >= p.min_keeper_bond

=============================================================================
