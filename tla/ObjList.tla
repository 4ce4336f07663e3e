------------------------------ MODULE ObjList ------------------------------
(***************************************************************************)
(* The recency list of the object cache (src/src/cache.cpp): a doubly      *)
(* linked list of every cached object with three entry points,             *)
(*                                                                         *)
(*   l_dhead ............ l_head ................ l_end                    *)
(*   oldest object        oldest object           newest object            *)
(*   on disk              in memory                                        *)
(*                                                                         *)
(* as the diagram at cache.cpp:23-28 draws it.  A list value is a record   *)
(* of the two link arrays, the three globals, and the two local variables  *)
(* t_head, t_end of clean_disk, which park the objects it must skip.  Nil  *)
(* is the NULL pointer.  Each operator is the pointer code of one function *)
(* run under obj_list_mutex_t; the operators whose name ends in Faults say *)
(* when that code dereferences NULL.                                       *)
(***************************************************************************)
EXTENDS Naturals, Sequences, FiniteSets

CONSTANTS Obj,   \* object slots; an obj_list node is embedded in its mem_obj
          Nil    \* the NULL pointer

ASSUME NilAssumption == Nil \notin Obj

Ptr == Obj \cup {Nil}

ListType == [next : [Obj -> Ptr], prev : [Obj -> Ptr],
             head : Ptr, end : Ptr, dhead : Ptr, thead : Ptr, tend : Ptr]

EmptyList == [next |-> [o \in Obj |-> Nil], prev |-> [o \in Obj |-> Nil],
              head |-> Nil, end |-> Nil, dhead |-> Nil,
              thead |-> Nil, tend |-> Nil]

(* p->field = q, a store through a pointer that may be NULL only where the *)
(* code tests it first.                                                    *)
Set(links, p, q) == IF p = Nil THEN links ELSE [links EXCEPT ![p] = q]

-----------------------------------------------------------------------------
(* Variant: l_dhead is forgotten when the first object arrives.            *)
AddListNoDhead(l, o) ==
  IF l.end = Nil
  THEN [l EXCEPT !.next[o] = Nil, !.prev[o] = Nil, !.end = o, !.head = o]
  ELSE [l EXCEPT !.next = [Set(@, l.end, o) EXCEPT ![o] = Nil],
                 !.prev[o] = l.end, !.end = o]

(* add_list: the object becomes the newest one.                            *)
add_list(l, o) ==
  IF l.end = Nil
  THEN [l EXCEPT !.next[o] = Nil, !.prev[o] = Nil,
                 !.end = o, !.head = o, !.dhead = o]
  ELSE [l EXCEPT !.next = [Set(@, l.end, o) EXCEPT ![o] = Nil],
                 !.prev[o] = l.end,
                 !.end = o]

(* Variant: l_head stays on the object that moves.                         *)
UpdateListKeepsHead(l, o) ==
  IF l.end = Nil \/ o = l.end
  THEN l
  ELSE LET n  == l.next[o]
           p1 == IF o = l.dhead THEN Set(l.prev, n, Nil) ELSE l.prev
       IN [l EXCEPT !.dhead = IF o = @ THEN n ELSE @,
                    !.next  = [Set(Set(@, p1[o], n), l.end, o) EXCEPT ![o] = Nil],
                    !.prev  = [Set(p1, n, p1[o]) EXCEPT ![o] = l.end],
                    !.end   = o]

(* update_list for an object in memory: it moves to the newest end.  When  *)
(* it was the oldest one, l_dhead moves on and its new target is made the  *)
(* first of the list.                                                      *)
update_list(l, o) ==
  IF l.end = Nil \/ o = l.end
  THEN l
  ELSE LET n  == l.next[o]
           p1 == IF o = l.dhead THEN Set(l.prev, n, Nil) ELSE l.prev
       IN [l EXCEPT !.head  = IF o = @ THEN n ELSE @,
                    !.dhead = IF o = @ THEN n ELSE @,
                    !.next  = [Set(Set(@, p1[o], n), l.end, o) EXCEPT ![o] = Nil],
                    !.prev  = [Set(p1, n, p1[o]) EXCEPT ![o] = l.end],
                    !.end   = o]

(* l_dhead->prev is written after l_dhead moved on (cache.cpp:62-63).      *)
UpdateListFaults(l, o) ==
  /\ l.end # Nil /\ o # l.end
  /\ o = l.dhead /\ l.next[o] = Nil

(* Variant: l_end is not moved back when the newest object is killed.      *)
DeadListKeepsEnd(l, o) ==
  IF o = l.dhead
  THEN l
  ELSE [l EXCEPT !.head  = IF o = @ THEN (IF o = l.end THEN l.prev[o] ELSE l.next[o])
                           ELSE @,
                 !.next  = [Set(@, l.prev[o], l.next[o]) EXCEPT ![o] = l.dhead],
                 !.prev  = [Set(Set(@, l.next[o], l.prev[o]), l.dhead, o) EXCEPT ![o] = Nil],
                 !.dhead = o]

(* dead_list: the object moves to the oldest end, for clean_disk to find.  *)
dead_list(l, o) ==
  IF o = l.dhead
  THEN l
  ELSE LET last == o = l.end
           n    == l.next[o]
           p    == l.prev[o]
       IN [l EXCEPT !.head  = IF o = @ THEN (IF last THEN p ELSE n) ELSE @,
                    !.end   = IF last THEN p ELSE @,
                    !.next  = [Set(@, p, n) EXCEPT ![o] = l.dhead],
                    !.prev  = [Set(Set(@, n, p), l.dhead, o) EXCEPT ![o] = Nil],
                    !.dhead = o]

(* l_end->next when the last object has no predecessor, and l_dhead->prev. *)
DeadListFaults(l, o) ==
  /\ o # l.dhead
  /\ l.dhead = Nil \/ (o = l.end /\ l.prev[o] = Nil)

-----------------------------------------------------------------------------
(* One iteration of delete_cache: the memory part starts one object later. *)
AdvanceHead(l) == [l EXCEPT !.head = l.next[l.head]]

(* clean_disk leaves the first object behind: l_dhead, and l_head with it  *)
(* when both stood there, move to its successor.                           *)
PassFirst(l) ==
  [l EXCEPT !.head  = IF @ = l.dhead THEN l.next[l.dhead] ELSE @,
            !.dhead = l.next[l.dhead]]

(* clean_disk destroys the first object.  The links of freed memory are    *)
(* normalised to NULL, which is what the memset of a new object gives.     *)
DropFirst(l) ==
  [PassFirst(l) EXCEPT !.next[l.dhead] = Nil, !.prev[l.dhead] = Nil]

(* clean_disk parks the first object, which is in use, at the end of the   *)
(* private list t_head .. t_end.                                           *)
KeepFirst(l) ==
  LET o == l.dhead
  IN [PassFirst(l) EXCEPT
        !.next  = [Set(@, l.tend, o) EXCEPT ![o] = Nil],
        !.prev[o] = l.tend,
        !.thead = IF l.tend = Nil THEN o ELSE @,
        !.tend  = o]

(* The end of clean_disk: the parked objects go back in front of what is   *)
(* left.  When nothing is left the code makes the last parked object both  *)
(* l_head and l_end and takes l_dhead from l_head, which has run off the   *)
(* list (cache.cpp:463-466).                                               *)
LosesList(l) == l.dhead = Nil /\ l.thead # Nil

FinishClean(l) ==
  LET joined ==
        IF l.dhead # Nil
        THEN [l EXCEPT !.prev[l.dhead] = l.tend,
                       !.next  = Set(@, l.tend, l.dhead),
                       !.dhead = IF l.thead # Nil THEN l.thead ELSE @]
        ELSE IF l.thead # Nil
             THEN [l EXCEPT !.dhead = l.head, !.head = l.tend, !.end = l.tend]
             ELSE [l EXCEPT !.head = Nil, !.end = Nil]
  IN [joined EXCEPT !.thead = Nil, !.tend = Nil]

-----------------------------------------------------------------------------
(* The objects reached from p along next, in order.  A chain that is       *)
(* longer than the number of slots has a cycle and is cut there.           *)
Walk(k, p) ==
  LET at[i \in 1 .. Cardinality(Obj) + 1] ==
        IF i = 1 THEN p ELSE IF at[i - 1] = Nil THEN Nil ELSE k.next[at[i - 1]]
  IN at

Chain(k, p) ==
  LET at == Walk(k, p)
  IN [i \in 1 .. Cardinality({j \in DOMAIN at : at[j] # Nil}) |-> at[i]]

(* The whole list, oldest object first.  While clean_disk runs, the        *)
(* objects it parked are still in front of the others.                     *)
Order(k) == Chain(k, k.thead) \o Chain(k, k.dhead)
=============================================================================
