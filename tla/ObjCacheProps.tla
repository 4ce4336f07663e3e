--------------------------- MODULE ObjCacheProps ---------------------------
(***************************************************************************)
(* What the object cache must guarantee beyond module ObjCacheInv:         *)
(* progress, what clean_disk remembers, and, at the end, what a message of *)
(* the source says and the code does not do.                               *)
(***************************************************************************)
EXTENDS ObjCacheInv

(* Every request a worker thread accepts comes to its end, whatever the    *)
(* collector does with the list lock meanwhile.                            *)
RequestsEnd == \A c \in Client : pc[c] # "idle" ~> pc[c] = "idle" \/ ~Running

(* A dead object is destroyed in the end (with one worker thread), unless  *)
(* an only-if-cached request has left its reference behind.                *)
DeadReclaimed ==
  \A o \in Obj : (status[o] = "hashed" /\ dead[o])
                  ~> \/ status[o] # "hashed" \/ ~dead[o] \/ leaked[o] > 0
                     \/ lost \/ main # "run"

(* A shutdown gets the list lock from the collector and ends.              *)
ShutdownEnds == main = "quit" ~> main \in {"exit", "crash"}

-----------------------------------------------------------------------------
(* run_client.cpp:1547: an only-if-cached request for an object that is    *)
(* not cached is answered with 504, not with a body.                       *)
OnlyCachedIsSent ==
  \A c \in Client : pc[c] = "sending" /\ after[c] = "forget" => held[c] # Nil
=============================================================================
