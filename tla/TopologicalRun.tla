--------------------------- MODULE TopologicalRun ---------------------------
(***************************************************************************)
(* "A genuine topological execution, not a fixed sequence" of a graph of   *)
(* stages: the stages end one after the other, each once, and each only    *)
(* after everything it depends on.                                         *)
(***************************************************************************)
CONSTANTS Stages, Unregistered

VARIABLES deps, done

Init ==
  /\ deps \in [Stages -> SUBSET (Stages \cup Unregistered)]
  /\ done = {}

End(n) ==
  /\ n \notin done
  /\ deps[n] \subseteq done
  /\ done' = done \cup {n}
  /\ UNCHANGED deps

Next == \E n \in Stages : End(n)

Spec == Init /\ [][Next]_<<deps, done>>
=============================================================================
