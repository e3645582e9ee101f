------------------------------ MODULE MCTypes ------------------------------
EXTENDS Types, TLC
Renamings == Permutations(Names)
=============================================================================
