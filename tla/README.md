# A TLA+ development of the Poyz program

This directory models the on-chain program under `programs/poyz`: a synthetic
dollar minted against collateral whose price exposure a keeper hedges off-chain.
Users lock collateral and receive synthetic in two transactions, bonded keepers
attest hedges and commit proofs that the book is balanced, the authority settles
funding, stakers of the synthetic earn it, and an insurance buffer may be drawn
in a persistent negative-funding regime.

TLC checks small instances of every model. TLAPS proves, for every value of the
constants, every safety property and every action property the passing runs check,
that issuance implements a one-step exchange, and that the composition with
the keepers implements issuance.
`PROJECT.json` maps each definition to the lines it translates.

- [1. The system](#1-the-system) - inventory: components, state, operations, hazards
- [2. The plan](#2-the-plan) - what is built, what is next
- [3. The models](#3-the-models) - how modules correspond to the code
- [4. What is checked](#4-what-is-checked) - runs, bounds, fairness, variants
- [5. What is proved](#5-what-is-proved) - theorems, invariants, assumptions
- [6. Disagreements with the documentation](#6-disagreements-with-the-documentation)
- [7. What is not modelled](#7-what-is-not-modelled)

To run a configuration `MCX_y.cfg`: `tlc -config MCX_y.cfg MCX.tla`. To check the
proofs of a module: `tlapm M.tla`.

## 1. The system

Every operation is one Solana instruction: it is atomic, its account writes are
undone when it returns an error, and instructions of different signers are
serialised in an order nobody controls. So the interleaving of instructions, the
passing of time between them and what changes in the accounts they share is where
the difficulty lies. `Cargo.toml` turns on overflow checks; an overflow is a
failed instruction and never a wrapped value.

| component | source | state it keeps | operations | what makes it correct |
|---|---|---|---|---|
| fixed-point arithmetic | `math.rs` | none | conversions, basis points, accumulator | rounding against the user, order of multiply and divide |
| parameters | `state.rs`, `admin.rs` | tunable fields of `Config` | `initialize`, `set_params` | every installed configuration passes `validate_config` |
| venue reports | `admin.rs` | last report, its time, `negative_funding_since` | `report_venue_state` | clamped capacity, a regime clock that starts and stops with the sign |
| minting | `mint.rs` | `MintRequest`s, `pending_collateral`, `total_collateral`, `total_synthetic` | `mint_request`, `mint_confirm`, `mint_cancel` | ledger balances, supply backed and within limits, gates respected, escrow never trapped |
| redeeming | `redeem.rs` | `RedeemRequest`s, `pending_redeem_synthetic` | `redeem_request`, `redeem_confirm`, `redeem_cancel` | all open redemptions payable, nobody diluted, escrow never trapped |
| keeper registry | `keeper.rs` | `Keeper` accounts, `keeper_count`, bond totals | `keeper_register`, `keeper_bond`, `keeper_unbond`, `keeper_slash` | count and totals agree with the accounts, bond stays behind what it guarantees |
| rebalance proofs | `proof.rs` | `RebalanceProof`s, `rebalance_count`, `last_proof_slot`, `last_proof_hash`, `hedged_notional` | `commit_rebalance_proof` | a gapless chain nobody can rewrite |
| funding and staking | `funding.rs` | `StakePosition`s, accumulator, `staker_funding_balance` | `settle_funding`, `stake`, `request_unstake`, `unstake`, `claim_funding` | claims move only with settlements, vaults agree with books, exits stay open |
| insurance buffer | `buffer.rs` | `buffer_balance` | `buffer_deposit`, `buffer_withdraw` | drawn only in a persistent negative regime |
| oracle | `oracle.rs` | an external account | `load_price` | no stale or unusable price is acted on |
| governance | `admin.rs` | authority, pending authority, guardian, two switches | `initialize`, `set_paused`, `set_guardian`, `set_oracle`, `transfer_authority`, `accept_authority` | guardian may only pause, handover takes two steps |
| vault initialization | `vaults.rs` | vault addresses and ready flags | four `init_*` | nothing runs before every vault exists |
| off-chain keeper, venue | docs only | hedge, margin | - | not in the repository |

How they interact. All components share the `Config` account: minting and
redeeming move `total_collateral`, which `commit_rebalance_proof` values;
settlements and proofs both write `hedged_notional`; venue reports are read by the
issuance gates and by the buffer's lock; the registry's count and each keeper's
account gate requests and settlements; the stakers' synthetic is part of the
supply that issuance accounts for. Tokens move by calls of the token program in
the same transaction as the accounts.

The behaviours that are hard:

- *Two phases.* Between `mint_request` and `mint_confirm` the price, the fees, the
  ratio, the cap, the reported capacity and carry, the keepers and the switches
  may all change, and other requests may be settled.
- *Deadlines.* A request may be settled until its deadline and cancelled after it,
  both against a clock that moves in seconds and may skip some.
- *Counters kept by several handlers*: `keeper_count`, the pending totals, the
  bond totals, the accumulator with its debts.
- *Rounding* in every conversion, each with a direction that matters.
- *Stale reports*: the gates and the lock look at what somebody said earlier.
- *Two writers of the hedge*: a confirm adds to `hedged_notional` or subtracts from
  it, a proof replaces it by what was true when its keeper built it.
- *Absent parties*: keepers, reporters, oracle and authority may stop for good.

The hazards that follow from these are listed in `PROJECT.json`, each with the line
where it bites and the properties that cover it.

## 2. The plan

Built so far, most important first:

1. `FixedPoint`, `Sums`, `Parameters`, `VenueState`: what the other modules share.
2. `Issuance`: the two-phase mint and redemption with everything that may change
   in between. `IssuanceHistory`, `IssuanceClaims`.
3. `KeeperRegistry`, `ProofChain`, `KeeperClaims`.
4. `Staking` (funding, staking, buffer), `StakingHistory`, `StakingClaims`.
5. `Governance` (creation of `Config`, switches, guardian, handover, vault flags).
   `VenueReports` (reports in flight).
6. `Exchange`, what issuance promises its users, and `IssuanceRefinement`, the
   mapping under which `Issuance` implements it.
7. `Protocol`: issuance, registry and proofs composed over one `Config`, with the
   keepers' real short and their proofs in flight.
8. `ArithmeticTheorems`: rounding, conversions, sums. On it rest
   `IssuanceProofs` and `IssuanceStepProofs` (ledgers, backing, limits, exits, gates,
   the refinement), `RegistryProofs` and `KeeperProofs` (registry, chain),
   `StakingProofs` (vaults, debts, rounding, regime), `ProtocolProofs`
   (the composition); `GovernanceProofs` needs no arithmetic.

Next:

9. A pro-rata distribution as the abstract specification of `Staking`, which
   implements it up to rounding: `Owed` of `StakingProofs` is its state.
10. `ChainIntact` and `BondOutlivesProofs` over `Protocol`, where a settlement moves
    the book and the hedge in one step and `ProofChain` does it in two.

## 3. The models

Names follow the source. `Config` fields, accounts and vault balances are
variables; a token account that only one instruction family uses is its balance.
The parameters of `Config` are one record `params`, drawn from the constant
`ParamSets`; the assumption `ParamAssumption` is that each of them passes
`validate_config` (`ValidConfig`).

**FixedPoint.** Conversions and basis-point arithmetic as exact integers with
floors and ceilings where `math.rs` has them. The oracle exponent and the
decimals are folded into `ScaleUp / ScaleDown`. The 128-bit intermediates of
`math.rs` cannot overflow for 64-bit operands except where a model says so;
`U64Max` bounds what is narrowed back.

**VenueState.** `report_venue_state`: enabled venue, carry limit, clamp, regime
clock. Some authorised reporter can always sign, so who does is left out.

**Issuance.** One variable per counter of `Config`, a function from
(user, nonce) to open requests, balances of both vaults, both wallets. One
action per instruction of `mint.rs` and `redeem.rs`, and the environment:

| action | stands for |
|---|---|
| `MintRequest`, `MintConfirm`, `MintCancel` | the handlers of `mint.rs` |
| `RedeemRequest`, `RedeemConfirm`, `RedeemCancel` | the handlers of `redeem.rs` |
| `SyntheticTransfer` | the token program: holders trade |
| `OraclePublish` | the price account changes, or becomes unusable |
| `SetOracle` | `set_oracle`: another account, of any price, age and confidence |
| `RebalanceProof` | what `commit_rebalance_proof` does to `hedged_notional` |
| `KeeperStandingChanges` | what the registry does to who may settle |
| `SetPaused`, `SetParams`, `Report` | `admin.rs` |
| `Wait` | a second passes |

The keeper who settles is abstracted to its standing (none, underbonded,
bonded): settlements look at nothing else, and `ProofChain` has the registry in
full. The nonce that names a request may be used again once its account is
closed, as in the code.

A price loads while it is usable, no older than `max_price_age_sec` and no wider
than `max_conf_bps`; `usable` stands for the account's owner, discriminator, feed,
verification level and sign, of which `set_oracle` looks at the first three only.

**Exchange, IssuanceRefinement.** `Exchange` has no requests, escrows, keepers or
fees: in one step a user gives collateral and receives synthetic worth no more, at
one of the ratios, or gives synthetic and receives collateral worth no more, at the
price of that step - not of the request, as `docs/architecture.md` has it (section 6).
The mapping gives users what they hold and what they have under
open requests: `MintRequest`, `RedeemRequest` and both cancels are stuttering
steps, a confirm is the whole exchange. A confirm that settled at a stale quote, a
cancel that paid twice, or an escrow that vanished would be no step of `Exchange`.

**Protocol.** `Issuance` is instantiated twice. `Handlers` gives its actions, with
"some keeper is bonded" replaced by the checks of the real registry: the counter for a
request, the flag and the bond of the signing keeper for a confirm. `Described` is
the whole of `Issuance` over `Standing`, what the registry's accounts amount to;
`ImplementsIssuance` says that the composition is an instance of it. A proof step is
`RebalanceProof` and `CommitRebalanceProof` at once. Off the chain, `short` is what
the keepers really hold and `draft` a proof built and in flight, which remembers
whether a mint, or anything else, was settled since it was built. `ProtocolAssumption` is what
`Described` assumes of its constants. Three things are left to the other modules: an unusable price, switches thrown again after
the start, and several slots in one second.

**KeeperRegistry, ProofChain.** Keepers with their accounts, wallets and the two
bond vaults; `Rebond` is the common end of the four handlers (the bond is stored,
then `set_active` adjusts flag and count). `ProofChain` adds the proofs; `book` is
the collateral's value at the oracle's price, which moves under the proofs.
A hash is modelled by what determines it: the previous hash and the fields hashed.

**Governance.** `Config` does not exist until some key creates it; then the keys in `Config`, the two switches and the vault flags; any key
may sign any instruction. Two history variables, the signer of the last instruction
and the newest proposal, let the properties speak of who did something.

**VenueReports.** `VenueState` with the way to it: the carry moves, a report is sent
with what was observed, and it lands in any order or never.

**Staking.** Positions, the accumulator, three vaults. `Accrued`, `Rebased` are
`accrue` and the re-basing of the debt after a stake changes.

**History modules** add variables no account holds (when the gates were last
open; how often a stake changed; when the last non-negative report came) so that
a property can speak of the past. They restrict nothing but the bounds they name.

**Faulty variants.** Some definitions are preceded by a variant under a name of
its own (`GrossAtPar`, `RebondKeepsActive`, `LiveForever`, ...), marked "A faulty
variant". No specification uses them. Each says how a plausible slip in that code
would read; substituting it for the definition makes TLC violate the property
named with it in `PROJECT.json` ("mutants"), which shows that the property
depends on that code and that the bounds suffice to see it.

## 4. What is checked

| run | question | what it shows |
|---|---|---|
| `MCIssuance_ledger` | Do the books balance whatever changes under open requests? | `CollateralAccounted`, `SyntheticAccounted`, `Backing`, `SupplyWithinAdminLimits`, `RedemptionsPayable` with two users, prices 4 and 5, two configurations that differ in fees, ratio, tolerances, cap, reportable capacity and settlement delay; two mints that fit under the ceiling singly and not together, and a capacity that is still in force after the authority has lowered what may be reported |
| `MCIssuanceHistory_exits` | What if the price falls further than the ratio covers, and everybody else stops? | `ImplementsExchange`, `OnlyPriceUncovers`, `RedemptionNeverDilutes`, `IssuanceNearOpenGates` at a ratio of one and a price of 2 or 5; `RequestsResolve` under the fairness below, also with a settlement delay longer than a request lives |
| `MCProtocol_hedge` | Do the registry and the proofs do to issuance only what its module assumes, and what does a proof in flight overwrite? | `ImplementsIssuance`, `OverwrittenMintWithinTolerance` with two keepers whose bonds a raised minimum outbids, a book of 40 that a mint of 4 moves under a proof, and prices 4 and 5 |
| `MCProofChain_chain` | Do registry and chain survive any order of operations? | `BondsAccounted`, `CountIsActiveKeepers`, `ActiveKeepersHoldAMinimum`, `ChainIntact`, `BondOutlivesProofs` with two keepers, two minimums, two cooldowns |
| `MCStakingHistory_vaults` | Do vaults agree with books, whose claim moves, what does rounding cost, when is the buffer drawn, does a stake come out? | `VaultsAccounted`, `DebtWithinEntitlement`, `EveryStakeCanAccrue`, `StakeMovesNoClaim`, `SettlementSharesWhatItBrings`, `OverpaymentBounded`, `BufferDrawnInRegime`, `UnstakePaid` |
| `MCGovernance_keys` | Who can open a breaker, who can become the authority? | `OpenOnlyWithVaults`, `ReopenedByAuthority`, `HandoverByNewestProposal` with three keys, no bounds |
| six runs of `MCIssuanceClaims`, `MCKeeperClaims`, `MCStakingClaims`, `MCVenueReports` | Does the code keep what its comments and documents say? | no: see section 6 |

Every action of the specifications of the passing runs fires in one of them. Under
the history modules TLC reports a step as one action; its coverage of the
handlers shows each of them taken.

**Bounds.** `MaxTime`, `MaxSlot`, `MaxProofs` (in `Protocol`, of proofs built), `MaxTouches`, `MaxPrints` bound
what would grow without end; `RequestsExpireInTime` and `CooldownEndsInTime`
keep requests whose deadline lies beyond the last second out of the model, and in
`Protocol` reports that no request could use. They are conjuncts of actions, under
these names. The scale is small: 40 units of
collateral are quoted 16 or 20, fees are 5%, the ratios 1, 1.25 and 1.4.
Rounding bites at every one of these values (one unit of fee is 5 to 10 percent
of an amount), so a wrong direction shows at once, as the faulty variants
confirm. Three seconds with a time to live of one let a request be settled and its
nonce be used again, or expire and be cancelled; the run that checks liveness has
four. A cancelled request is not replaced within these bounds: it can be cancelled
only after its deadline, and one made then would outlive the clock. The theorems
cover that case.
Staking has three seconds for delays of one and two that change in mid-regime.
In `MCStakingHistory_vaults` the widths are 5 and 11, so that a stake times the
accumulator overflows both. In `MCProtocol_hedge` one proof is built at a time per
keeper until one has landed: enough for a settlement, the other keeper, a price
move or a change of the tolerance to come between, and to land out of date.
Two users or keepers suffice where a property compares one party with the
totals, and with two stakers, three changes of a stake and units as small as a
settlement the rounding already leaks a whole unit (the same bounds violate
`ClaimsCovered`). Users, keepers and keys are symmetric where the configuration
says so: they are only compared for equality, and no run with symmetry checks
liveness. The bounds are an argument only for the properties that are merely
model-checked; the theorems of section 5 have no bounds but those named in the
specification.

**Deadlock.** Every run checks it. `OraclePublish`, `SetPaused` or `SetParams` is
always possible, so that asserts little: what matters, that escrows and stakes come
out, is stated as liveness.

**Fairness.** `Issuance!FairSpec` assumes that time passes and that a user whose
request has expired sooner or later sends the cancel. `Staking!Fairness` assumes
that time passes and that a staker who may collect its stake does. Both rest on
the instruction being enabled for its own signer with nobody's help, which is the
point of the properties; the chain includes a transaction that is resent until it
lands. Nothing is assumed of keepers, oracle, reporters, guardian or authority.
Within `UnstakePaid`, a staker that asks again restarts its own cooldown
(`funding.rs:416-420`); the bounded clock lets it do so finitely often, as a staker
that wants its stake back would.

## 5. What is proved

All theorems hold for any users, nonces, keepers, prices, amounts, configurations
that pass `validate_config`, and any bounds. They assume what the modules assume:
finite sets of parties, amounts and prices in `Nat`, and the assumptions on the
scales. They speak of the specifications without fairness.

| theorem | establishes |
|---|---|
| `AccountsAlwaysBalance` | collateral and synthetic ledgers agree with tokens and open requests |
| `SupplyIsBacked` | if the ratio covers the spread of prices, the supply is worth no more than the collateral at the lowest price |
| `RedemptionsAlwaysPayable` | under the same condition, all open redemptions can be paid together |
| `SupplyStaysWithinAdminLimits` | the supply never exceeds what limits set by the authority allow |
| `InstructionsKeepCover` | only a price move uncovers a covered book |
| `RedemptionsNeverDilute` | a redemption from a covered book leaves the others at least what they had per unit |
| `LedgerKeepsTypes` | no subtraction of a handler goes below zero |
| `SyntheticAlwaysHeld` | every unit of synthetic is a user's or in escrow for an open request |
| `IssuanceImplementsExchange` | the two-phase handlers implement the one-step exchange |
| `BondsAlwaysAccounted` | every bond token in custody is a keeper's or was slashed from one |
| `ActiveKeepersAreBonded` | an active keeper holds at least some minimum the authority has set |
| `RegistryConsistent` | bonds, slashes and the count agree with the keepers' accounts |
| `ChainCannotBeRewritten` | the proof chain is gapless, ordered and committed to by its head |
| `RegistryKeepsTypes` | no bond, wallet, vault or count goes below zero |
| `NothingOpensEarly` | no breaker is open before every vault exists |
| `OnlyAuthorityReopens` | only the authority in force opens a breaker |
| `HandoverTakesTwo` | the authority passes by its own newest proposal to a key that signs |
| `BondStaysBehindProofs` | bond flows back only when all of the keeper's proofs are older than the cooldown |
| `SupplyCreatedNearOpenGates` | supply is created within a time to live of a moment when every gate was open |
| `StakingKeepsTypes`, `VaultsStayAccounted`, `DebtsStayWithin` | no staking balance goes below zero, the three vaults hold what the accounts say, no accrual underflows |
| `StakesMoveNoClaim` | joining or leaving changes nobody's claim |
| `SettlementsShareWhatTheyBring` | a settlement or a draw raises the claims by less than it brings and the fractions it completes |
| `OverpaymentStaysBounded` | claims exceed the funding by at most a unit per change of a stake |
| `StakesStayAccruable` | a stake whose product with all funding ever brought in fits never overflows an accrual |
| `BufferDrawsWaitForRegime` | the buffer is drawn only in a negative regime as old as the unlock delay |
| `ProtocolImplementsIssuance` | over the real registry and proofs, issuance takes only steps its own module describes |
| `ProtocolStaysBacked` | hence ledgers, backing and payable redemptions hold of the composition |
| `OverwrittenMintStaysWithin` | a landing proof overwrites at most one mint's fill within the tolerance |

*Issuance.* Three inductive invariants, each resting on the one before
(`IssuanceProofs`). `Accounts` conjoins the type invariant and the two ledgers:
not even the types are inductive alone, since the handlers subtract from
totals that are known to be large enough only because the escrows add up to them.
`Accounts /\ Backing` is next; `Backing` follows from the price the supply was
created at and the ratio then in force. For `RedemptionsPayable`,
`QuotesWithinEscrows` is added: summed over the open redemptions, the quotes are
worth at most the escrows at the lowest price; the escrows are part of the
supply, which is backed. The supply limits use an invariant of their own,
`LimitsInv` (`IssuanceStepProofs`), that also bounds the capacity last reported. The proof has one lemma per action. The arithmetic - every floor and
ceiling a mint and a redemption go through, sums over functions that change at one
point - is in `ArithmeticTheorems`. The action properties follow
from the same invariant in `IssuanceStepProofs`. `IssuanceNearOpenGates` needs
`RequestsNearOpenGates`: the deadline of each open mint request is at most the time to
live of some configuration after the gates were last open.

*Refinement.* `IssuanceStepProofs` also shows that `Init` maps to the exchange's and
each step, from a state where `Accounts` holds, to one of its steps or to stuttering. A
request or a cancel moves an amount between a user's account and one entry of the
escrows, so the sum the user owns does not change. For a mint the
chain of floors and ceilings - quote, ratio, fee - is bounded from above by the exact
value at the current price, since `Settled` takes the lower of the two quotes; for a
redemption likewise, and the pool covers what is paid by the guard of the handler.

*Keepers.* The inductive invariant is
`TypeOK /\ RegistryInv /\ ChainIntact /\ ProofsRemembered`. `ProofsRemembered` says
that a keeper's `last_proof_at` is at least the timestamp of each proof it
committed; without it `BondOutlivesProofs` does not follow from the guard, which
looks at one timestamp only. `RegistryInv` and the lemmas about the four handlers are
in `RegistryProofs`, which the composition uses too. `ProofsRemembered` survives a keeper that leaves and comes back
because the account is never closed.

*Governance.* `OpenOnlyWithVaults` is inductive with the types. The handover needs
`PendingIsNewest`: what is pending is the newest proposal and the authority in force
made it, which is why accepting must clear it.

*Staking.* `TypeOK`, `VaultsAccounted` and `DebtWithinEntitlement` are inductive
together once `FundingTraced` is added: stakers hold at least what they came with, so
`BroughtIn` is a natural number, and the accumulator promises no more per unit of stake
than all of it. `StakeMovesNoClaim` is about two floors: re-basing the debt on the
floor of the new entitlement leaves a claim of exactly what was accrued. For the bound on
overpayment no count of claims is inductive, since a settlement may complete a fraction of a
unit for every staker at once. The invariant counts those fractions from the
start: `Owed`, the claims in units of `1/AccScale` with the fraction of each position, grows
by at most what a settlement brings and by at most a unit when a stake changes
(`RoundingBounded`). `SettlementSharesWhatItBrings` follows from the same quantity.
`EveryStakeCanAccrue` used to have the product of the stake and all funding as its only
premise. The proof did not go through, for a reason: what accrues is written to a `u64`,
and rounding may have leaked units beyond what was brought in, so that a claim may not fit
though all the funding does. The property now has the second premise
`Fits(BroughtIn + touches)`. The regime needs `CalmBeforeRegime`: the last report that was
not negative came no later than the start of the regime that runs.

*Protocol.* `ProtocolInv` is `RegistryInv` with the ranges of time, parameters and drafts.
From it, `keeper_count > 0` says that some keeper is active and `Trusted(k)` that one is
bonded, so each handler of the composition is one of `Described`; registry steps are
`KeeperStandingChanges` or stutter, and whatever is off the chain is invisible.
`Ledger` is `IssuanceProofs` itself under the same substitution: its theorems
apply once its assumptions are shown, which `ProtocolAssumption` grants.
`OverwrittenMintWithinTolerance` needs `DraftsTraced`: for a draft overtaken by nothing, short and
book are what it was built for; for one overtaken by a mint, there is a `worth` by which the
book grew at least and whose largest fill is what the short grew at most. That the
book grows by the worth of the mint although both are floors is `NotionalAdds`. When such
a proof lands, its claimed book is within the tolerance of the book it finds, hence so
is the worth, and the fill is monotone in it.

**Only model-checked.** Liveness (`RequestsResolve`, `UnstakePaid`): the prover has no
rules for `ENABLED`. The counterexamples of section 6 are TLC's as well. A sum is the number
of units its function holds (`Sums`), so that facts about it follow from facts about
cardinality; where a fact goes from one key to the next (`SumLinear`), the induction over the set of keys done is
stated of a family of sets (`FamilyReaches`) and rests on the well-foundedness of the
subsets of a finite set.

## 6. Disagreements with the documentation

Six runs end in a counterexample, each to a sentence of the repository:

1. *Delta band.* `README.md:84-86` says `mint_confirm` issues only inside the delta
   band. It computes no delta: when the price moves between request and confirm, in
   either direction, a mint is issued into a book outside even the hard band, both
   before and after the fill is added. `MCIssuanceClaims_band`, in which nobody
   redeems; an unwind that a keeper reports too large opens the book in the same way,
   since `redeem_confirm` does not bound it. (`IssuanceNearOpenGates` says how stale the gates can be:
   a request's time to live. The same holds of the carry floor of `admin.rs:582`.)
2. *Bonded claims.* `mint.rs:27` says the keeper's claim at confirm time is bonded and
   slashable. The cooldown runs from the last rebalance proof, so a keeper that has
   only settled requests can withdraw its whole bond in the next instruction.
   `MCKeeperClaims_bonded`.
3. *Gap in the sequence.* `proof.rs:101` says silence is detectable from a gap in
   `sequence`. Only the next number is accepted; there is never a gap (the slots of
   the proofs do show one). `MCKeeperClaims_gap`.
4. *Residue.* `math.rs:9` says the residue of every rounding step stays inside the
   protocol. `reward_debt` is rounded down when a stake changes, in the staker's
   favour; the claims can exceed the funding balance by a unit per change
   (`OverpaymentBounded`), and the last claimer is refused until the next
   settlement. `MCStakingClaims_covered`.
5. *Single print.* `buffer.rs:23` says a single negative print cannot unlock the
   reserve. The lock asks how old the regime is and not how old the last
   report: one print and silence unlock it. `MCStakingClaims_print`.
6. *Lagging reporter.* `admin.rs:672-674` says the monotonicity check stops a stale
   report from overwriting a fresher one. It compares landing times, which only
   grow; a report carries no time of observation. A late report re-opens a gate a
   fresher one had closed. `MCVenueReports_lagging`.

One concerns a property that passes:

- *Locked price.* `docs/architecture.md:201-202` says of both requests that "the price
  is quoted and **locked** at request time"; so do lines 32, 243-244 and 333-334. Line
  328 has a mint issued "at quoted price", and 373-374 say that a redemption
  "quotes+locks the collateral owed". The code does not keep to the quote:
  `mint.rs:392-394` and `redeem.rs:337` settle at the lower of the quote and what the
  price of that moment gives, on purpose, since the quote would otherwise be a free
  option. When the price falls, a mint issues less than was quoted; when it rises, a
  redemption pays less. `ImplementsExchange` and the theorem
  `IssuanceImplementsExchange` state what the code does, which is the opposite of these
  sentences in exactly those two cases. The documented behaviour is the faulty variant
  `SettledAsQuoted`: with it, TLC finds `ImplementsExchange` violated in
  `MCIssuanceHistory_exits` after a price move between request and confirm. That the
  code is meant and the document is out of date is also what `lib.rs:216` suggests.

More, without runs of their own:

- *Exit band.* `docs/architecture.md:273-274` says a proof must leave the delta within
  `delta_band_bps`. The code compares with `delta_exit_bps`, which `validate_config` keeps
  at or below it; `proof.rs:112-113` says so.
- *Falling index.* `docs/architecture.md:391-392` says that under negative carry "the
  index can decrease". `settle_funding` and `buffer_withdraw` only add to
  `acc_funding_per_share`; nothing in the program lowers it, and stakers bear a negative carry only by not being paid.
- *Who writes the regime.* `buffer.rs:21-22` says `negative_funding_since` is set by
  `settle_funding`. Only `report_venue_state` sets it, as `funding.rs:28-31` says.
- *Failing early.* `mint.rs:193-195` promises to "fail now rather
  than escrowing the user's collateral for the full TTL" when no keeper is bonded. The
  check reads `keeper_count`, which lags a raised minimum, so such a request is
  escrowed. `ImplementsIssuance` shows that no underbonded keeper settles it,
  `RequestsResolve` that it comes back.

## 7. What is not modelled

- Account validation by Anchor (seeds, owners, signers) and the token program's own
  checks, beyond balances. Tokens anyone sends to a vault directly are left out: no
  handler reads a vault's balance, so they only add to it. A transfer is assumed
  to deliver what it takes; `initialize` does not look at mint extensions, and a
  Token-2022 mint with transfer fees is outside the models.
- A holder that burns its own synthetic through the token program. No handler reads
  the supply of the mint, so every counter of `Config` stays as it is and
  `total_synthetic` is then more than the supply: what is burned stays backed, and no
  one else is paid less. `SyntheticAccounted` equates the two and is about the program's
  own instructions and transfers.
- The checks of `initialize` on mints and decimals, which are taken as passed.
- The exponent of a feed. Prices of all feeds are compared on the finest scale: a
  price on a coarser one is the same price with zeros appended.
- `oracle.rs` byte by byte: an account is usable or not, and has a price, a
  confidence and an age.
- Events, error codes, the IDL, the TypeScript tests, scripts.
- The off-chain keeper and the venue, beyond the short, the proofs in flight and the
  reports in flight: no margin, fees or funding. Keepers of `Protocol` attest what is
  true; in `Issuance` and `ProofChain` they may attest anything the handlers accept.
