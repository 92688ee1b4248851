-------------------------- MODULE MCDocumentGeneration --------------------------
(* Small instances of DocumentGeneration. *)
EXTENDS DocumentGeneration, TLC

\* Workers are interchangeable, and so are callers.
Symmetry == Permutations(Worker) \cup Permutations(Caller)
=============================================================================
