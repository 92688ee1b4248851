----------------------- MODULE MCOrganizationProvisioning -----------------------
(* Small instances of OrganizationProvisioning. *)
EXTENDS OrganizationProvisioning, TLC

\* Requests are interchangeable.
Symmetry == Permutations(Request)

OneContact == <<"ada">>
TwoContacts == <<"ada", "grace">>
=============================================================================
