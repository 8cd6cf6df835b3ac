---------------------------- MODULE IssuanceClaims ----------------------------
(***************************************************************************)
(* What the README says about issuance that the code does not do, checked  *)
(* by a run that is expected to find a counterexample.                     *)
(***************************************************************************)
EXTENDS Issuance

Issues == total_synthetic' > total_synthetic

\* README.md: mint_confirm "issues only once the short exists and the book is
\* inside the delta band".  mint_confirm does not compute the delta, neither
\* before nor after it adds the fill: when the price moves between request and
\* confirm, the supply is issued into a book outside even the hard band.
IssuesOnlyInsideBand == [][Issues => InsideHardBand \/ InsideHardBand']_vars

=============================================================================
