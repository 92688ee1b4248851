------------------------- MODULE MCScimOperationLedger -------------------------
(* Small instances of ScimOperationLedger. *)
EXTENDS ScimOperationLedger, TLC

\* Requesters, and consumers, are interchangeable.
Symmetry == Permutations(Requester) \cup Permutations(Consumer)
=============================================================================
