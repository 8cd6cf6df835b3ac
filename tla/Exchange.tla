------------------------------- MODULE Exchange -------------------------------
(***************************************************************************)
(* What issuance promises its users: an exchange that takes collateral and *)
(* creates synthetic, or burns synthetic and pays collateral, in one step  *)
(* and at the price of that step.  There are no requests, no escrows, no   *)
(* keepers, no fees and no delays: what a user has under a request is      *)
(* still the user's, and whatever stands between the request and the       *)
(* settlement can only make the exchange not happen.                       *)
(*                                                                         *)
(* IssuanceRefinement maps the handlers of mint.rs and redeem.rs to it.    *)
(***************************************************************************)
EXTENDS FixedPoint

CONSTANTS Users,
          Prices,          \* prices of a unit of collateral
          Ratios           \* collateral ratios, in bps, that may be asked for

VARIABLES price,           \* the price everybody sees
          collateral,      \* collateral each user owns
          synthetic,       \* synthetic each user owns
          pool,            \* collateral behind the supply
          supply

vars == <<price, collateral, synthetic, pool, supply>>

Init ==
    /\ price \in Prices
    /\ collateral \in [Users -> Nat]
    /\ synthetic = [u \in Users |-> 0]
    /\ pool = 0
    /\ supply = 0

\* The synthetic issued, at one of the ratios, is worth no more than the
\* collateral taken.
Issue(u, taken, issued) ==
    /\ taken > 0 /\ issued > 0
    /\ taken <= collateral[u]
    /\ \E ratio \in Ratios :
           issued * ratio * ScaleDown <= taken * BPS * price * ScaleUp
    /\ collateral' = [collateral EXCEPT ![u] = @ - taken]
    /\ synthetic' = [synthetic EXCEPT ![u] = @ + issued]
    /\ pool' = pool + taken
    /\ supply' = supply + issued
    /\ UNCHANGED price

\* The collateral paid is there, and worth no more than the synthetic burned.
Redeem(u, burned, paid) ==
    /\ burned > 0 /\ paid > 0
    /\ burned <= synthetic[u]
    /\ paid <= pool
    /\ paid * price * ScaleUp <= burned * ScaleDown
    /\ collateral' = [collateral EXCEPT ![u] = @ + paid]
    /\ synthetic' = [synthetic EXCEPT ![u] = @ - burned]
    /\ pool' = pool - paid
    /\ supply' = supply - burned
    /\ UNCHANGED price

\* Holders trade the synthetic among themselves.
Trade(from, to, amount) ==
    /\ from # to
    /\ amount > 0 /\ amount <= synthetic[from]
    /\ synthetic' = [synthetic EXCEPT ![from] = @ - amount, ![to] = @ + amount]
    /\ UNCHANGED <<price, collateral, pool, supply>>

PriceMoves ==
    /\ price' \in Prices
    /\ UNCHANGED <<pool, supply, collateral, synthetic>>

\* The amounts are what the pool and the supply, or the seller's account, lose
\* or gain in the step.
Next ==
    \/ PriceMoves
    \/ \E u \in Users : Issue(u, pool' - pool, supply' - supply)
    \/ \E u \in Users : Redeem(u, supply - supply', pool - pool')
    \/ \E u, w \in Users : Trade(u, w, synthetic[u] - synthetic'[u])

Spec == Init /\ [][Next]_vars

=============================================================================
