-------------------------- MODULE MCIssuanceHistory ---------------------------
\* Instances of IssuanceHistory for TLC.
EXTENDS IssuanceHistory, IssuanceRefinement, MCParameters, TLC

MCUsers == Permutations(Users)

=============================================================================
