---------------------------- MODULE MCIAProject ----------------------------
EXTENDS IAProject, TLC

Symmetry == Permutations(Turns)
=============================================================================
