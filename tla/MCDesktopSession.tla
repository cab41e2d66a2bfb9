-------------------------- MODULE MCDesktopSession --------------------------
EXTENDS DesktopSession, TLC

Symmetry == Permutations(Session)
=============================================================================
