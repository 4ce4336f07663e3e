---------------------------- MODULE MCThreadPool ----------------------------
EXTENDS ThreadPoolInv, TLC
Symmetry == Permutations(Conn) \cup Permutations(Ip) \cup Permutations(Thread)
=============================================================================
