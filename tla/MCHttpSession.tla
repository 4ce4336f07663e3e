---------------------------- MODULE MCHttpSession ----------------------------
(***************************************************************************)
(* Two requests of every kind whose path differs, and answers of at most   *)
(* two units of body and a head that may arrive in two reads.              *)
(***************************************************************************)
EXTENDS HttpSession

MCKinds == {"get", "cond", "form", "cached", "page", "redirect", "refused"}
=============================================================================
