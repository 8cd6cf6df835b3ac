----------------------------- MODULE MCProofChain -----------------------------
\* Instances of ProofChain for TLC.
EXTENDS ProofChain, MCParameters, TLC

MCKeepers == Permutations(Keepers)

\* A raised minimum that leaves a bonded keeper's flag behind, and a longer
\* cooldown.
Demanding == [Base EXCEPT !.min_keeper_bond = 3, !.unbond_cooldown_sec = 2]

RegistryParams == {Base, Demanding}

=============================================================================
