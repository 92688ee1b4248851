------------------------- MODULE MCEntitlementOverlay -------------------------
(* EntitlementOverlay on a small instance: the roles and the requests are *)
(* interchangeable.                                                       *)
EXTENDS EntitlementOverlay, TLC

Symmetry == Permutations(Role) \union Permutations(Admin)
=============================================================================
