---------------------------- MODULE MCGovernance -----------------------------
\* Instances of Governance for TLC.
EXTENDS Governance, TLC

MCKeys == Permutations(Keys)

=============================================================================
