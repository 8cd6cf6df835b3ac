---------------------------- MODULE MCKeeperClaims ----------------------------
\* Instances of KeeperClaims for TLC.
EXTENDS KeeperClaims, MCParameters, TLC

=============================================================================
