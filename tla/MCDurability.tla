---------------------------- MODULE MCDurability ----------------------------
EXTENDS Durability, TLC

Symmetry == Permutations(Block)
=============================================================================
