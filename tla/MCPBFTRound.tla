------------------------------ MODULE MCPBFTRound ------------------------------
(* Bounds of PBFTRound.tla for TLC.                                        *)
EXTENDS PBFTRound, TLC

\* Every peer entry is a node of its own, or one entry is a copy of another.
MCDeployments ==
  {[p \in Peers |-> IF p = twin THEN other ELSE p] : twin, other \in Peers}

\* Nothing orders or names the nodes.
Symmetry == Permutations(Nodes)
=============================================================================
