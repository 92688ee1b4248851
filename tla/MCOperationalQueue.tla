--------------------------- MODULE MCOperationalQueue ---------------------------
(* Small instances of OperationalQueue. *)
EXTENDS OperationalQueue, TLC

\* Requests are interchangeable.
Symmetry == Permutations(Poster)
=============================================================================
