-------------------------- MODULE IssuanceRefinement --------------------------
(***************************************************************************)
(* The two-phase protocol of mint.rs and redeem.rs implements the exchange *)
(* that acts in one step.                                                  *)
(***************************************************************************)
EXTENDS Issuance

\* What a user has locked under its open requests of one kind.
LockedBy(u, escrows) == Sum([n \in Nonces |-> escrows[<<u, n>>]])

CollateralOwned == [u \in Users |-> collateral_of[u] + LockedBy(u, MintEscrows)]
SyntheticOwned == [u \in Users |-> synthetic_of[u] + LockedBy(u, RedeemEscrows)]

\* A request moves nothing that a user owns, and neither does a cancellation:
\* both are stuttering steps.  A confirmation is the whole exchange.
Market ==
    INSTANCE Exchange WITH
        Ratios <- { p.collateral_ratio_bps : p \in ParamSets },
        price <- oracle.price,
        collateral <- CollateralOwned,
        synthetic <- SyntheticOwned,
        pool <- total_collateral,
        supply <- total_synthetic

\* However requests, settlements, cancellations, price moves, repointed feeds
\* and new parameters interleave, every user sees an exchange that settles at
\* the price of the moment or not at all: nobody loses an escrow or is paid it
\* twice, nothing is created for less collateral or paid for less synthetic than
\* the current price asks, even if the quote was better.  docs/architecture.md says
\* instead that the price is locked at the request: with SettledAsQuoted this fails.
ImplementsExchange == Market!Spec

=============================================================================
