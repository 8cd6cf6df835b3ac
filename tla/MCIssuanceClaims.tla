--------------------------- MODULE MCIssuanceClaims ---------------------------
\* Instances of IssuanceClaims for TLC.
EXTENDS IssuanceClaims, MCParameters, TLC


=============================================================================
