-------------------------- MODULE MCStageExecutor --------------------------
EXTENDS StageExecutor
=============================================================================
