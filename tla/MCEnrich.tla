------------------------------ MODULE MCEnrich ------------------------------
(***************************************************************************)
(* Instances of Enrich for TLC.                                            *)
(***************************************************************************)
EXTENDS Enrich, TLC

OneModel == [w \in Workers |-> CHOOSE m \in Models : TRUE]
Symmetry == Permutations(Workers) \cup Permutations(Contents)
=============================================================================
