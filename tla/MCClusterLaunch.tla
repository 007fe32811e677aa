-------------------------- MODULE MCClusterLaunch --------------------------
(***************************************************************************)
(* Small fleets for ClusterLaunch.                                         *)
(***************************************************************************)
EXTENDS ClusterLaunch, TLC

CONSTANTS alpha, beta, gamma, \* machines
          tab, tab2, eye      \* tasks

OneRecipe  == {"r"}
TwoRanks   == {<<"r", 1>>, <<"r", 2>>}
ThreeRanks == TwoRanks \cup {<<"r", 3>>}

Pair     == {<<alpha, beta>>}
Trio     == {<<alpha, beta, gamma>>}
AtAlpha  == [t \in {tab, tab2, eye} \cap (Tab \cup Watch) |-> alpha]
Epochs == Permutations(Epoch)
=============================================================================
