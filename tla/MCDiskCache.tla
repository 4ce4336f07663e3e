----------------------------- MODULE MCDiskCache -----------------------------
(***************************************************************************)
(* Two objects, of which the second has a URL that is too long for the     *)
(* index, in three runs.                                                   *)
(***************************************************************************)
EXTENDS DiskCache
=============================================================================
