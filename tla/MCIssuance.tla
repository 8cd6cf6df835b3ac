------------------------------ MODULE MCIssuance ------------------------------
\* Instances of Issuance for TLC.
EXTENDS Issuance, MCParameters, TLC

MCUsers == Permutations(Users)

=============================================================================
