----------------------------- MODULE MCRequests -----------------------------
(***************************************************************************)
(* Two threads and one host that has two addresses.                        *)
(***************************************************************************)
EXTENDS Requests, TLC

Symmetry == Permutations(Thread) \cup Permutations(Addr)
=============================================================================
