------------------------ MODULE MCModuleControlPlane ------------------------
EXTENDS ModuleControlPlane, TLC

Symmetry == Permutations(Caller) \cup Permutations(Binding)

=============================================================================
