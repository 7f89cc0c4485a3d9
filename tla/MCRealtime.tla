------------------------------ MODULE MCRealtime ------------------------------
EXTENDS Realtime, TLC

Symmetry == Permutations(Sockets) \cup Permutations(Members)
=============================================================================
