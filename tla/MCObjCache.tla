---------------------------- MODULE MCObjCache ----------------------------
EXTENDS ObjCacheProps, TLC
Symmetry == Permutations(Obj) \cup Permutations(Client) \cup Permutations(Url)
=============================================================================
