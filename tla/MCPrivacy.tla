----------------------------- MODULE MCPrivacy -----------------------------
EXTENDS Privacy, TLC

\* Wrong work without a topic, whose row the consolidation job shares; help
\* with a project; a doubtful answer that is queued: rows and records that an
\* erasure deletes, and the log that it leaves.
MCWorks == {{"misconceptions"}, {"ia_project_state", "disclosure_log"},
            {"review_queue"}}

Symmetry == Permutations(Turns)
=============================================================================
