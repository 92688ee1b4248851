-------------------------- MODULE MCIntegrationOutbox --------------------------
(* Small instances of IntegrationOutbox. *)
EXTENDS IntegrationOutbox, TLC

\* Rows and dispatchers are interchangeable: Init, Next and the safety
\* properties treat them alike.
Symmetry == Permutations(Event) \cup Permutations(Dispatcher)
=============================================================================
