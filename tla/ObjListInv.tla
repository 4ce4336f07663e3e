----------------------------- MODULE ObjListInv -----------------------------
(***************************************************************************)
(* The shape of the recency list that every operator of module ObjList     *)
(* preserves.  It is the reason why only cached objects are ever reached   *)
(* through the list, and it holds while clean_disk runs and after          *)
(* clean_disk has lost the list as well.                                   *)
(***************************************************************************)
EXTENDS ObjList

(* The links of the cached objects H are inverse to each other.  Nothing   *)
(* points to l_dhead, whose own prev may be stale while clean_disk runs.   *)
Linked(k, H) ==
  /\ \A p \in H : k.next[p] # Nil =>
       k.next[p] \in H \ {k.dhead} /\ k.prev[k.next[p]] = p
  /\ \A p \in H \ {k.dhead} : k.prev[p] # Nil =>
       k.prev[p] \in H /\ k.next[k.prev[p]] = p

(* f lists n different cached objects in the order of their next fields.   *)
Row(k, H, n, f) ==
  /\ f \in [1 .. n -> H]
  /\ \A i \in 1 .. n - 1 : k.next[f[i]] = f[i + 1]
  /\ n > 0 => k.next[f[n]] = Nil
  /\ \A i, j \in 1 .. n : f[i] = f[j] => i = j

(* The row f of the list and the row g of the objects clean_disk parked.   *)
Rows(k, H, n, f, m, g) ==
  /\ Row(k, H, n, f) /\ Row(k, H, m, g)
  /\ \A i \in 1 .. n, j \in 1 .. m : f[i] # g[j]
  /\ k.dhead = IF n = 0 THEN Nil ELSE f[1]
  /\ n > 0 => k.end = f[n]
  /\ k.thead = IF m = 0 THEN Nil ELSE g[1]
  /\ k.tend  = IF m = 0 THEN Nil ELSE g[m]
  /\ m > 0 => k.prev[k.thead] = Nil
  /\ n + m > 0 => k.head = Nil \/ \E i \in 1 .. n : k.head = f[i]

(* Until the list is lost the rows hold every cached object.               *)
Complete(H, n, f, m, g) ==
  \A p \in H : (\E i \in 1 .. n : p = f[i]) \/ (\E i \in 1 .. m : p = g[i])

(* Outside clean_disk nothing is parked, the first object has no           *)
(* predecessor and the last one no successor.                              *)
Settled(k, H, m) ==
  /\ m = 0
  /\ k.dhead # Nil => k.prev[k.dhead] = Nil
  /\ k.end # Nil => k.end \in H /\ k.next[k.end] = Nil

(* Lengths is Nat, or an interval of it that is long enough for H.         *)
Shape(Lengths, k, H, lost, cleaning) ==
  /\ Linked(k, H)
  /\ k.head # Nil => k.head \in H
  /\ \E n, m \in Lengths : \E f \in [1 .. n -> H], g \in [1 .. m -> H] :
       /\ Rows(k, H, n, f, m, g)
       /\ ~lost => Complete(H, n, f, m, g)
       /\ ~cleaning => Settled(k, H, m)
=============================================================================
