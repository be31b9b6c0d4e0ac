------------------------------ MODULE MCAiRuns ------------------------------
EXTENDS AiRuns, TLC

Symmetry == Permutations(Workers) \cup Permutations(Labels)
=============================================================================
