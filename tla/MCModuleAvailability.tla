------------------------- MODULE MCModuleAvailability -------------------------
EXTENDS ModuleAvailability, TLC

Symmetry == Permutations(Binding)

=============================================================================
