------------------------------ MODULE MCBalance ------------------------------
EXTENDS Balance, TLC

Symm == Permutations(Pools)
==============================================================================
