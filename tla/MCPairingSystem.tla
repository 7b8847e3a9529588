--------------------------- MODULE MCPairingSystem ---------------------------
\* Instances of PairingSystem.  SystemInvariant, which the proofs rest on, may be
\* added to the invariants of any of its configurations.
EXTENDS PairingSystemInvariant, TLC

Symmetry == Permutations(Generation)

=============================================================================
