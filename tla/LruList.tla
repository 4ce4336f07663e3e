------------------------------ MODULE LruList ------------------------------
(***************************************************************************)
(* What the recency list promises, without pointers: a sequence of the     *)
(* cached objects, oldest first, and a mark where the part in memory       *)
(* starts.  Objects enter at the newest end, move to either end, or leave; *)
(* nothing else changes their order, and none appears twice.               *)
(*                                                                         *)
(* The promise ends with Lose: the one pass of clean_disk that finds every *)
(* object in use throws the list away (cache.cpp:463-466).                 *)
(***************************************************************************)
EXTENDS Naturals, Sequences

CONSTANTS Obj, Nil

VARIABLES order,  \* the objects, oldest first
          mark,   \* the first object of the memory part, or Nil
          lost    \* whether the list was thrown away

vars == <<order, mark, lost>>

Members == {order[i] : i \in DOMAIN order}
Position(o) == CHOOSE i \in DOMAIN order : order[i] = o
Without(o) == [i \in 1 .. Len(order) - 1 |->
                 IF i < Position(o) THEN order[i] ELSE order[i + 1]]
Next2(o) == IF Position(o) = Len(order) THEN Nil ELSE order[Position(o) + 1]
Last == order[Len(order)]

Init == order = <<>> /\ mark = Nil /\ lost = FALSE

Add(o) ==
  /\ o \notin Members
  /\ order' = Append(order, o)
  /\ mark' = IF order = <<>> THEN o ELSE mark

Touch(o) ==
  /\ o \in Members
  /\ order' = Append(Without(o), o)
  /\ mark' = IF o = mark /\ o # Last THEN Next2(o) ELSE mark

(* The mark leaves a buried object, backwards if there is nothing newer.   *)
Bury(o) ==
  /\ o \in Members
  /\ order' = <<o>> \o Without(o)
  /\ mark' = IF o # mark \/ Position(o) = 1 THEN mark
             ELSE IF o = Last THEN order[Len(order) - 1] ELSE Next2(o)

Remove(o) ==
  /\ o \in Members
  /\ order' = Without(o)
  /\ mark' = IF o = mark THEN Next2(o) ELSE mark

(* Objects swapped out or passed over leave the memory part; a start from  *)
(* the index puts the mark on the newest object at once.                   *)
Forward ==
  /\ mark # Nil
  /\ mark' \in {order[i] : i \in Position(mark) + 1 .. Len(order)} \cup {Nil}
  /\ UNCHANGED order

Lose == lost' = TRUE /\ order' = <<>> /\ mark' = Nil

Next ==
  /\ ~lost
  /\ \/ /\ UNCHANGED lost
        /\ Forward \/ \E o \in Obj : Add(o) \/ Touch(o) \/ Bury(o) \/ Remove(o)
     \/ mark = Nil /\ order # <<>> /\ Lose

Spec == Init /\ [][Next]_vars
=============================================================================
