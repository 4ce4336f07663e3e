---------------------------- MODULE SharedCache ----------------------------
(***************************************************************************)
(* What the object cache promises to its worker threads, without flags,    *)
(* reference counts, list or tiers.  A thread makes an object by itself    *)
(* and publishes it or throws it away; a request is given the one current  *)
(* object of its target; an object that is withdrawn never answers again,  *)
(* but lives on as long as somebody uses it; and only then is its memory   *)
(* free for another one.                                                   *)
(***************************************************************************)
CONSTANTS Obj, Nil, Client, Url

VARIABLES life,     \* "none", "made", "current" or "withdrawn"
          target,   \* the target an object answers
          using,    \* the cached object a thread works with
          making,   \* the object a thread is filling
          starting  \* whether the cache is being restored

vars == <<life, target, using, making, starting>>

Current(u) == {o \in Obj : life[o] = "current" /\ target[o] = u}
Users(o) == {c \in Client : using[c] = o}

Become(o, s) == life' = [life EXCEPT ![o] = s]

Init ==
  /\ life = [o \in Obj |-> "none"]
  /\ target = [o \in Obj |-> Nil]
  /\ using = [c \in Client |-> Nil]
  /\ making = [c \in Client |-> Nil]
  /\ starting = TRUE

Load(o, u) ==
  /\ starting
  /\ life[o] = "none" /\ Current(u) = {}
  /\ Become(o, "current")
  /\ target' = [target EXCEPT ![o] = u]
  /\ UNCHANGED <<using, making, starting>>

Started == starting /\ starting' = FALSE /\ UNCHANGED <<life, target, using, making>>

(* A thread that already uses an object makes its replacement.             *)
Make(c, o, u) ==
  /\ ~starting /\ making[c] = Nil
  /\ life[o] = "none"
  /\ using[c] # Nil => target[using[c]] = u
  /\ Become(o, "made")
  /\ target' = [target EXCEPT ![o] = u]
  /\ making' = [making EXCEPT ![c] = o]
  /\ UNCHANGED <<using, starting>>

Publish(c) ==
  /\ making[c] # Nil
  /\ Current(target[making[c]]) = {}
  /\ Become(making[c], "current")
  /\ making' = [making EXCEPT ![c] = Nil]
  /\ UNCHANGED <<target, using, starting>>

Discard(c) ==
  /\ making[c] # Nil
  /\ Become(making[c], "none")
  /\ target' = [target EXCEPT ![making[c]] = Nil]
  /\ making' = [making EXCEPT ![c] = Nil]
  /\ UNCHANGED <<using, starting>>

(* It is neither published nor thrown away, and its memory is lost.        *)
Abandon(c) ==
  /\ making[c] # Nil
  /\ making' = [making EXCEPT ![c] = Nil]
  /\ UNCHANGED <<life, target, using, starting>>

Use(c, u) ==
  /\ ~starting /\ using[c] = Nil /\ making[c] = Nil
  /\ \E o \in Current(u) : using' = [using EXCEPT ![c] = o]
  /\ UNCHANGED <<life, target, making, starting>>

GiveUp(c) ==
  /\ using[c] # Nil
  /\ using' = [using EXCEPT ![c] = Nil]
  /\ UNCHANGED <<life, target, making, starting>>

Withdraw(o) ==
  /\ life[o] = "current"
  /\ Become(o, "withdrawn")
  /\ UNCHANGED <<target, using, making, starting>>

Free(o) ==
  /\ life[o] \in {"current", "withdrawn"} /\ Users(o) = {}
  /\ Become(o, "none")
  /\ target' = [target EXCEPT ![o] = Nil]
  /\ UNCHANGED <<using, making, starting>>

Next ==
  \/ Started
  \/ \E o \in Obj : Withdraw(o) \/ Free(o) \/ \E u \in Url : Load(o, u)
  \/ \E c \in Client :
       \/ Publish(c) \/ Discard(c) \/ Abandon(c) \/ GiveUp(c)
       \/ \E u \in Url : Use(c, u) \/ \E o \in Obj : Make(c, o, u)

Spec == Init /\ [][Next]_vars
=============================================================================
