------------------------------- MODULE MCProtocol -------------------------------
\* Instances of Protocol for TLC.
EXTENDS Protocol, MCParameters, TLC

MCKeepers == Permutations(Keepers)

\* A tolerance of 15% and room for a book of 44; then no tolerance and a minimum
\* bond above what the keepers have.
Tolerant == [Roomy EXCEPT !.max_hedge_slippage_bps = 1500]
Strict == [Roomy EXCEPT !.min_keeper_bond = 3]

ProtocolParams == {Tolerant, Strict}

=============================================================================
