---------------------------- MODULE MCTutorGate ----------------------------
EXTENDS TutorGate
=============================================================================
