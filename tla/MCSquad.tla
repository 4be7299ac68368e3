-------------------------------- MODULE MCSquad --------------------------------
EXTENDS Squad, TLC

Symmetry == Permutations(Monsters)
================================================================================
