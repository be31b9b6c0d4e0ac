--------------------------- MODULE MCCommandOutbox ---------------------------
EXTENDS CommandOutbox, TLC

Symmetry == Permutations(Commands) \cup Permutations(Gateways)
=============================================================================
