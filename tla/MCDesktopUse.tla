---------------------------- MODULE MCDesktopUse ----------------------------
\* Instances of DesktopUse.
EXTENDS DesktopUse, TLC

Symmetry == Permutations(Proc) \cup Permutations(Helper)

=============================================================================
