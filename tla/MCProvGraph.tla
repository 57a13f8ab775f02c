----------------------------- MODULE MCProvGraph -----------------------------
EXTENDS ProvGraph, TLC

Symmetry == Permutations(NodeIds)
=============================================================================
