--------------------------------- MODULE Sums ---------------------------------
(***************************************************************************)
(* The sum of a function with finitely many natural values, as the number  *)
(* of units it holds: no recursion, so facts about it can be proved.       *)
(***************************************************************************)
EXTENDS Integers, FiniteSets

\* One element for each unit held under a key.
Units(f) == UNION { {k} \X (1 .. f[k]) : k \in DOMAIN f }

Sum(f) == Cardinality(Units(f))

=============================================================================
