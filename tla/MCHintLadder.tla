---------------------------- MODULE MCHintLadder ----------------------------
EXTENDS HintLadder, TLC

Symmetry == Permutations(Turns)
=============================================================================
