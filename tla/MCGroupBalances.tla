------------------------- MODULE MCGroupBalances --------------------------
(* Small instances of GroupBalances for TLC. *)
EXTENDS GroupBalances

Symmetry == Permutations(Users)

(* Balanced nets in the fourth decimal place: large ones that one, two or    *)
(* three transfers settle, and small ones around the dust of 0.01.          *)
Nets(amounts) == {f \in [Users -> amounts] : SumFunction(f) = 0}
MCStartNets == Nets({-700, -300, 0, 400, 600}) \cup Nets({-300, -100, 0, 100, 200})

(* For TransfersAreMinimal: 8 and 6 owed to 6, 4 and 4, where the greedy     *)
(* matching does not pair the two 6.  Needs five users.                     *)
MCGreedyNets == Nets({-800, -600, 400, 600})

(* 0.0001 over, half a minor unit over, and amounts that do not divide. *)
MCTotals == {100, 150, 401}
MCShares == {49, 10000, 20000}
MCPercentages == {333300, 500000, 666700, 1000000}
=============================================================================
