--------------------------- MODULE ObjListProofs ---------------------------
(***************************************************************************)
(* Every operator of module ObjList returns a list record and preserves    *)
(* the shape of the list (module ObjListInv), for any set of objects.      *)
(***************************************************************************)
EXTENDS ObjListInv, TLAPS, FiniteSetTheorems, WellFoundedInduction, SequenceTheorems

-----------------------------------------------------------------------------
(* The list operators return list records.                                 *)

(* A store through a pointer that may be NULL yields a link array.         *)
LEMMA SetType ==
  ASSUME NEW links \in [Obj -> Ptr], NEW p \in Ptr, NEW q \in Ptr
  PROVE  Set(links, p, q) \in [Obj -> Ptr]
BY DEF Set, Ptr

(* add_list returns a list record.                                         *)
LEMMA AddListType ==
  ASSUME NEW k \in ListType, NEW o \in Obj
  PROVE  add_list(k, o) \in ListType
BY SetType DEF add_list, ListType, Ptr

(* update_list returns a list record.                                      *)
LEMMA UpdateListType ==
  ASSUME NEW k \in ListType, NEW o \in Obj
  PROVE  update_list(k, o) \in ListType
<1> DEFINE n  == k.next[o]
           p1 == IF o = k.dhead THEN Set(k.prev, n, Nil) ELSE k.prev
<1>0. /\ k.next \in [Obj -> Ptr] /\ k.prev \in [Obj -> Ptr]
      /\ n \in Ptr /\ Nil \in Ptr /\ o \in Ptr /\ k.end \in Ptr
  BY DEF ListType, Ptr
<1>1. p1 \in [Obj -> Ptr]
  BY <1>0, SetType
<1>2. p1[o] \in Ptr
  BY <1>1
<1> DEFINE a == Set(Set(k.next, p1[o], n), k.end, o)
           b == Set(p1, n, p1[o])
<1>3. a \in [Obj -> Ptr]
  BY <1>0, <1>2, SetType
<1>4. b \in [Obj -> Ptr]
  BY <1>0, <1>1, <1>2, SetType
<1>5. CASE k.end = Nil \/ o = k.end
  BY <1>5 DEF update_list
<1>6. CASE ~(k.end = Nil \/ o = k.end)
  <2>1. update_list(k, o) =
          [k EXCEPT !.head  = IF o = @ THEN n ELSE @,
                    !.dhead = IF o = @ THEN n ELSE @,
                    !.next  = [a EXCEPT ![o] = Nil],
                    !.prev  = [b EXCEPT ![o] = k.end],
                    !.end   = o]
    BY <1>6, Zenon DEF update_list
  <2> HIDE DEF n, p1, a, b
  <2>2. [a EXCEPT ![o] = Nil] \in [Obj -> Ptr]
    BY <1>0, <1>3
  <2>3. [b EXCEPT ![o] = k.end] \in [Obj -> Ptr]
    BY <1>0, <1>4
  <2> QED BY <2>1, <2>2, <2>3, <1>0, ZenonT(60) DEF ListType
<1> QED BY <1>5, <1>6

(* dead_list returns a list record.                                        *)
LEMMA DeadListType ==
  ASSUME NEW k \in ListType, NEW o \in Obj
  PROVE  dead_list(k, o) \in ListType
BY SetType, ZenonT(60) DEF dead_list, ListType, Ptr

(* An iteration of delete_cache returns a list record.                     *)
LEMMA AdvanceHeadType ==
  ASSUME NEW k \in ListType, k.head # Nil
  PROVE  AdvanceHead(k) \in ListType
BY DEF AdvanceHead, ListType, Ptr

(* Dropping the first object returns a list record.                        *)
LEMMA DropFirstType ==
  ASSUME NEW k \in ListType, k.dhead # Nil
  PROVE  DropFirst(k) \in ListType
BY DEF DropFirst, PassFirst, ListType, Ptr

(* Parking the first object returns a list record.                         *)
LEMMA KeepFirstType ==
  ASSUME NEW k \in ListType, k.dhead # Nil
  PROVE  KeepFirst(k) \in ListType
BY SetType, ZenonT(60) DEF KeepFirst, PassFirst, ListType, Ptr

(* The end of clean_disk returns a list record.                            *)
LEMMA FinishCleanType ==
  ASSUME NEW k \in ListType
  PROVE  FinishClean(k) \in ListType
BY SetType DEF FinishClean, ListType, Ptr

-----------------------------------------------------------------------------
(* The list operators keep the list's shape.                               *)

(* The links after add_list appended to a list that is not empty.          *)
LEMMA AddListLinks ==
  ASSUME NEW k \in ListType, NEW o \in Obj, k.end # Nil
  PROVE  LET k2 == add_list(k, o)
         IN /\ k2.head = k.head /\ k2.end = o /\ k2.dhead = k.dhead
            /\ k2.thead = k.thead /\ k2.tend = k.tend
            /\ \A p \in Obj : k2.next[p] = IF p = o THEN Nil
                                           ELSE IF p = k.end THEN o ELSE k.next[p]
            /\ \A p \in Obj : k2.prev[p] = IF p = o THEN k.end ELSE k.prev[p]
<1> DEFINE k2 == add_list(k, o)
           nx == Set(k.next, k.end, o)
<1>0. /\ k.next \in [Obj -> Ptr] /\ k.prev \in [Obj -> Ptr]
      /\ Nil \in Ptr /\ o \in Ptr /\ k.end \in Ptr
  BY DEF ListType, Ptr
<1>1. nx \in [Obj -> Ptr]
  BY <1>0, SetType
<1>2. \A p \in Obj : nx[p] = IF p = k.end THEN o ELSE k.next[p]
  BY <1>0 DEF Set
<1>3. k2 = [k EXCEPT !.next = [nx EXCEPT ![o] = Nil], !.prev[o] = k.end, !.end = o]
  BY Zenon DEF add_list
<1> HIDE DEF nx
<1> QED BY <1>0, <1>1, <1>2, <1>3 DEF ListType

(* add_list appends to the row.                                            *)
LEMMA AddListRow ==
  ASSUME NEW k \in ListType, NEW H \in SUBSET Obj, NEW o \in Obj \ H,
         NEW n \in Nat \ {0}, NEW f \in [1 .. n -> H], Row(k, H, n, f), k.end = f[n],
         NEW f2 \in [1 .. n + 1 -> H \cup {o}],
         f2[n + 1] = o, \A i \in 1 .. n : f2[i] = f[i]
  PROVE  Row(add_list(k, o), H \cup {o}, n + 1, f2)
<1> DEFINE k2 == add_list(k, o)
<1>1. k.end \in H /\ k.end # Nil
  BY NilAssumption DEF Row
<1>2. \A p \in Obj : k2.next[p] = IF p = o THEN Nil ELSE IF p = k.end THEN o ELSE k.next[p]
  BY <1>1, AddListLinks
<1>3. \A i \in 1 .. n : k2.next[f2[i]] = f2[i + 1]
  BY <1>2 DEF Row
<1>4. \A i, h \in 1 .. n + 1 : f2[i] = f2[h] => i = h
  BY DEF Row
<1>5. k2.next[f2[n + 1]] = Nil
  BY <1>2
<1> HIDE DEF k2
<1> QED BY <1>3, <1>4, <1>5 DEF Row, k2

(* add_list, for an object that is not cached yet.                         *)
LEMMA AddListShape ==
  ASSUME NEW k \in ListType, NEW H \in SUBSET Obj, NEW o \in Obj \ H,
         NEW lost \in BOOLEAN, Shape(Nat, k, H, lost, FALSE)
  PROVE  Shape(Nat, add_list(k, o), H \cup {o}, lost, FALSE)
<1> DEFINE k2 == add_list(k, o)
           H2 == H \cup {o}
<1>0. /\ k.next \in [Obj -> Ptr] /\ k.prev \in [Obj -> Ptr]
      /\ Nil \in Ptr /\ o \in Ptr /\ k.end \in Ptr /\ k.dhead \in Ptr /\ k.head \in Ptr
      /\ Nil \notin Obj /\ \A p \in Obj : p \in Ptr
  BY NilAssumption DEF ListType, Ptr
<1>1. PICK n \in Nat, m \in Nat :
        \E f \in [1 .. n -> H], g \in [1 .. m -> H] :
          Rows(k, H, n, f, m, g) /\ (~lost => Complete(H, n, f, m, g)) /\ Settled(k, H, m)
  BY DEF Shape
<1>2. PICK f \in [1 .. n -> H], g \in [1 .. m -> H] :
        Rows(k, H, n, f, m, g) /\ (~lost => Complete(H, n, f, m, g)) /\ Settled(k, H, m)
  BY <1>1
<1>3. m = 0 /\ Linked(k, H) /\ (k.head # Nil => k.head \in H)
  BY <1>2 DEF Settled, Shape
<1>4. k2 \in ListType
  BY AddListType
<1>5. CASE k.end = Nil
  <2>1. n = 0
    BY <1>5, <1>2, <1>0 DEF Rows
  <2>2. /\ k2.head = o /\ k2.end = o /\ k2.dhead = o
        /\ k2.thead = k.thead /\ k2.tend = k.tend
        /\ \A p \in Obj : k2.next[p] = IF p = o THEN Nil ELSE k.next[p]
        /\ \A p \in Obj : k2.prev[p] = IF p = o THEN Nil ELSE k.prev[p]
    BY <1>5, <1>0 DEF add_list, ListType
  <2>3. Linked(k2, H2)
    BY <2>2, <1>3, <1>0, <1>2, <2>1 DEF Linked, Rows
  <2> DEFINE f2 == [i \in 1 .. 1 |-> o]
  <2>4. f2 \in [1 .. 1 -> H2] /\ g \in [1 .. m -> H2]
    BY <1>2
  <2>5. Rows(k2, H2, 1, f2, m, g)
    BY <2>2, <2>4, <1>2, <1>3, <1>0 DEF Rows, Row
  <2>6. ~lost => Complete(H2, 1, f2, m, g)
    BY <1>2, <1>3, <2>1 DEF Complete
  <2>7. Settled(k2, H2, m)
    BY <2>2, <1>3, <1>0 DEF Settled
  <2> HIDE DEF k2, H2, f2
  <2>8. k2.head \in H2
    BY <2>2 DEF H2
  <2>9. Shape(Nat, k2, H2, lost, FALSE)
    BY <2>3, <2>4, <2>5, <2>6, <2>7, <2>8 DEF Shape
  <2> QED BY <2>9 DEF k2, H2
<1>6. CASE k.end # Nil
  <2>1. k.end \in H /\ k.next[k.end] = Nil
    BY <1>6, <1>2 DEF Settled
  <2>2. /\ k2.head = k.head /\ k2.end = o /\ k2.dhead = k.dhead
        /\ k2.thead = k.thead /\ k2.tend = k.tend
        /\ \A p \in Obj : k2.next[p] = IF p = o THEN Nil
                                       ELSE IF p = k.end THEN o ELSE k.next[p]
        /\ \A p \in Obj : k2.prev[p] = IF p = o THEN k.end ELSE k.prev[p]
    BY <1>6, AddListLinks
  <2>3. Linked(k2, H2)
    BY <2>1, <2>2, <1>3, <1>0, <1>2 DEF Linked, Rows
  <2>4. CASE n = 0
    <3>1. f \in [1 .. n -> H2] /\ g \in [1 .. m -> H2]
      BY <1>2
    <3>2. Rows(k2, H2, n, f, m, g)
      BY <2>2, <2>4, <3>1, <1>2, <1>3, <1>0 DEF Rows, Row
    <3>3. lost
      BY <1>2, <1>3, <2>1, <2>4 DEF Complete
    <3>4. Settled(k2, H2, m)
      BY <2>2, <1>3, <1>0, <1>2, <2>4 DEF Settled, Rows
    <3>5. k2.head # Nil => k2.head \in H2
      BY <2>2, <1>3
    <3> HIDE DEF k2, H2
    <3>6. Shape(Nat, k2, H2, lost, FALSE)
      BY <2>3, <3>1, <3>2, <3>3, <3>4, <3>5 DEF Shape
    <3> QED BY <3>6 DEF k2, H2
  <2>5. CASE n # 0
    <3> DEFINE f2 == [i \in 1 .. n + 1 |-> IF i = n + 1 THEN o ELSE f[i]]
    <3>1. n + 1 \in Nat /\ f2 \in [1 .. n + 1 -> H2] /\ g \in [1 .. m -> H2]
      BY <1>2
    <3>2. k.end = f[n] /\ k.dhead = f[1] /\ k.dhead # o
      BY <1>2, <2>5 DEF Rows
    <3>3. Row(k2, H2, n + 1, f2)
      <4>1. n \in Nat \ {0} /\ Row(k, H, n, f)
        BY <1>2, <2>5 DEF Rows
      <4>2. f2[n + 1] = o /\ \A i \in 1 .. n : f2[i] = f[i]
        OBVIOUS
      <4> HIDE DEF f2
      <4> QED BY <3>1, <3>2, <4>1, <4>2, AddListRow
    <3>4. Row(k2, H2, m, g)
      BY <3>1, <1>3 DEF Row
    <3>5. Rows(k2, H2, n + 1, f2, m, g)
      BY <2>2, <2>5, <3>3, <3>4, <3>2, <1>2, <1>3, <1>0 DEF Rows
    <3>6. ~lost => Complete(H2, n + 1, f2, m, g)
      BY <1>2, <1>3 DEF Complete
    <3>7. Settled(k2, H2, m)
      <4>1. f[1] \in H /\ f[1] # Nil
        BY <1>2, <1>0, <2>5
      <4> QED BY <4>1, <2>2, <1>3, <1>0, <1>2, <3>2 DEF Settled
    <3>8. k2.head # Nil => k2.head \in H2
      BY <2>2, <1>3
    <3> HIDE DEF k2, H2, f2
    <3>9. Shape(Nat, k2, H2, lost, FALSE)
      BY <2>3, <3>1, <3>5, <3>6, <3>7, <3>8 DEF Shape
    <3> QED BY <3>9 DEF k2, H2
  <2> QED BY <2>4, <2>5
<1> QED BY <1>5, <1>6

(* The links after update_list really moved an object.                     *)
LEMMA UpdateListLinks ==
  ASSUME NEW k \in ListType, NEW o \in Obj,
         k.end # Nil, o # k.end, o = k.dhead => k.next[o] # o
  PROVE  LET p  == k.prev[o]
             q  == k.next[o]
             k2 == update_list(k, o)
         IN /\ k2.head = (IF o = k.head THEN q ELSE k.head)
            /\ k2.dhead = (IF o = k.dhead THEN q ELSE k.dhead)
            /\ k2.end = o /\ k2.thead = k.thead /\ k2.tend = k.tend
            /\ \A r \in Obj :
                 k2.next[r] = (IF r = o THEN Nil ELSE IF r = k.end THEN o
                               ELSE IF r = p THEN q ELSE k.next[r])
            /\ \A r \in Obj :
                 k2.prev[r] = (IF r = o THEN k.end ELSE IF r = q THEN p ELSE k.prev[r])
<1> DEFINE p  == k.prev[o]
           q  == k.next[o]
           p1 == IF o = k.dhead THEN Set(k.prev, q, Nil) ELSE k.prev
           a1 == Set(k.next, p1[o], q)
           a  == Set(a1, k.end, o)
           b  == Set(p1, q, p1[o])
<1>0. /\ k.next \in [Obj -> Ptr] /\ k.prev \in [Obj -> Ptr]
      /\ p \in Ptr /\ q \in Ptr /\ Nil \in Ptr /\ o \in Ptr /\ k.end \in Ptr
      /\ Nil \notin Obj
  BY NilAssumption DEF ListType, Ptr
<1>1. p1 \in [Obj -> Ptr] /\ \A r \in Obj : r # q => p1[r] = k.prev[r]
  BY <1>0 DEF Set, Ptr
<1>2. p1[o] = p
  BY <1>1
<1>3. a1 \in [Obj -> Ptr] /\ \A r \in Obj : a1[r] = IF r = p THEN q ELSE k.next[r]
  <2> HIDE DEF p1
  <2> QED BY <1>0, <1>2 DEF Set, Ptr
<1>4. a \in [Obj -> Ptr] /\ \A r \in Obj : a[r] = IF r = k.end THEN o ELSE a1[r]
  <2> HIDE DEF a1
  <2> QED BY <1>0, <1>3 DEF Set, Ptr
<1>5. b \in [Obj -> Ptr] /\ \A r \in Obj : b[r] = IF r = q THEN p ELSE k.prev[r]
  <2> HIDE DEF p1
  <2> QED BY <1>0, <1>1, <1>2 DEF Set, Ptr
<1>6. update_list(k, o) =
        [k EXCEPT !.head  = IF o = @ THEN q ELSE @,
                  !.dhead = IF o = @ THEN q ELSE @,
                  !.next  = [a EXCEPT ![o] = Nil],
                  !.prev  = [b EXCEPT ![o] = k.end],
                  !.end   = o]
  BY Zenon DEF update_list
<1> HIDE DEF a, b
<1> QED BY <1>0, <1>3, <1>4, <1>5, <1>6 DEF ListType

(* What a settled shape says of one cached object.                         *)
LEMMA Neighbours ==
  ASSUME NEW k \in ListType, NEW H \in SUBSET Obj, NEW o \in H,
         Linked(k, H), k.dhead # Nil => k.prev[k.dhead] = Nil
  PROVE  /\ k.next[o] # Nil => k.next[o] \in H \ {k.dhead} /\ k.prev[k.next[o]] = o
         /\ k.prev[o] # Nil => k.prev[o] \in H /\ k.next[k.prev[o]] = o /\ o # k.dhead
BY NilAssumption DEF Linked

(* update_list takes the object out of the row and appends it.             *)
LEMMA UpdateListRow ==
  ASSUME NEW k \in ListType, NEW H \in SUBSET Obj, Linked(k, H),
         NEW n \in Nat, NEW f \in [1 .. n -> H], Row(k, H, n, f), k.dhead = f[1], k.end = f[n],
         k.prev[k.dhead] = Nil,
         NEW j \in 1 .. n - 1, NEW o, o = f[j],
         NEW f2 \in [1 .. n -> H], f2[n] = o,
         \A i \in 1 .. j - 1 : f2[i] = f[i],
         \A i \in j .. n - 1 : f2[i] = f[i + 1]
  PROVE  Row(update_list(k, o), H, n, f2)
<1> DEFINE k2 == update_list(k, o)
           p  == k.prev[o]
           q  == k.next[o]
<1>0. Nil \notin H /\ o \in H
  BY NilAssumption DEF Row
<1>1. /\ \A i \in 1 .. n : f[i] \in H /\ f[i] \in Obj
      /\ \A i \in 1 .. n - 1 : k.next[f[i]] = f[i + 1]
      /\ k.next[f[n]] = Nil
      /\ \A i, h \in 1 .. n : f[i] = f[h] => i = h
  BY DEF Row
<1>2. k.end # Nil /\ o # k.end /\ q = f[j + 1] /\ q # o
  BY <1>0, <1>1
<1>3. IF j = 1 THEN p = Nil ELSE p = f[j - 1]
  <2>1. CASE j = 1
    BY <2>1
  <2>2. CASE j # 1
    <3>1. k.next[f[j - 1]] = o /\ f[j - 1] \in H
      BY <1>1, <2>2
    <3> QED BY <1>0, <2>2, <3>1 DEF Linked
  <2> QED BY <2>1, <2>2
<1>4. \A r \in Obj :
        k2.next[r] = (IF r = o THEN Nil ELSE IF r = k.end THEN o
                      ELSE IF r = p THEN q ELSE k.next[r])
  BY <1>0, <1>2, UpdateListLinks
<1> HIDE DEF k2
<1>5. \A i \in 1 .. n - 1 : k2.next[f2[i]] = f2[i + 1]
  <2> TAKE i \in 1 .. n - 1
  <2>1. CASE i < j - 1
    <3>1. f2[i] = f[i] /\ f2[i + 1] = f[i + 1] /\ f[i] # o /\ f[i] # k.end /\ f[i] # p
      BY <1>0, <1>1, <1>3, <2>1
    <3> QED BY <1>1, <1>4, <3>1
  <2>2. CASE i = j - 1
    <3>1. f2[i] = p /\ f2[i + 1] = q /\ p \in Obj /\ p # o /\ p # k.end
      BY <1>1, <1>2, <1>3, <2>2
    <3> QED BY <1>4, <3>1
  <2>3. CASE i >= j /\ i < n - 1
    <3>1. f2[i] = f[i + 1] /\ f2[i + 1] = f[i + 2] /\ f[i + 1] # o /\ f[i + 1] # k.end
      BY <1>1, <2>3
    <3>2. f[i + 1] # p /\ k.next[f[i + 1]] = f[i + 2] /\ f[i + 1] \in Obj
      BY <1>0, <1>1, <1>3, <2>3
    <3> QED BY <1>4, <3>1, <3>2
  <2>4. CASE i >= j /\ i = n - 1
    <3>1. f2[i] = k.end /\ f2[i + 1] = o /\ k.end \in Obj
      BY <1>1, <2>4
    <3> QED BY <1>2, <1>4, <3>1
  <2> QED BY <2>1, <2>2, <2>3, <2>4
<1>6. k2.next[f2[n]] = Nil
  BY <1>0, <1>4
<1>7. \A i, h \in 1 .. n : f2[i] = f2[h] => i = h
  BY <1>1
<1> QED BY <1>5, <1>6, <1>7 DEF Row, k2

(* update_list, for a cached object.                                       *)
LEMMA UpdateListShape ==
  ASSUME NEW k \in ListType, NEW H \in SUBSET Obj, NEW o \in H,
         NEW lost \in BOOLEAN, Shape(Nat, k, H, lost, FALSE)
  PROVE  /\ Shape(Nat, update_list(k, o), H, lost, FALSE)
         /\ ~UpdateListFaults(k, o)
<1> DEFINE k2 == update_list(k, o)
           p  == k.prev[o]
           q  == k.next[o]
<1>0. Nil \notin H
  BY NilAssumption
<1>1. PICK n \in Nat, m \in Nat :
        \E f \in [1 .. n -> H], g \in [1 .. m -> H] :
          Rows(k, H, n, f, m, g) /\ (~lost => Complete(H, n, f, m, g)) /\ Settled(k, H, m)
  BY DEF Shape
<1>2. PICK f \in [1 .. n -> H], g \in [1 .. m -> H] :
        Rows(k, H, n, f, m, g) /\ (~lost => Complete(H, n, f, m, g)) /\ Settled(k, H, m)
  BY <1>1
<1>3. m = 0 /\ Linked(k, H) /\ (k.head # Nil => k.head \in H)
  BY <1>2 DEF Settled, Shape
<1>4. /\ q # Nil => q \in H \ {k.dhead} /\ k.prev[q] = o
      /\ p # Nil => p \in H /\ k.next[p] = o /\ o # k.dhead
  BY <1>2, <1>3, Neighbours DEF Settled
<1>5. o = k.dhead => q # o
  BY <1>0, <1>4
<1>6. o = k.dhead /\ q = Nil => o = k.end
  <2> SUFFICES ASSUME o = k.dhead, q = Nil PROVE o = k.end
    OBVIOUS
  <2>1. n > 0 /\ o = f[1] /\ k.end = f[n]
    BY <1>0, <1>2 DEF Rows
  <2>2. n > 1 => q = f[2] /\ f[2] \in H
    BY <1>2, <2>1 DEF Rows, Row
  <2> QED BY <1>0, <2>1, <2>2
<1>7. ~UpdateListFaults(k, o)
  BY <1>6 DEF UpdateListFaults
<1>8. CASE k.end = Nil \/ o = k.end
  BY <1>7, <1>8 DEF update_list
<1>9. CASE k.end # Nil /\ o # k.end
  <2>1. /\ k2.head = (IF o = k.head THEN q ELSE k.head)
        /\ k2.dhead = (IF o = k.dhead THEN q ELSE k.dhead)
        /\ k2.end = o /\ k2.thead = k.thead /\ k2.tend = k.tend
        /\ \A r \in Obj :
             k2.next[r] = (IF r = o THEN Nil ELSE IF r = k.end THEN o
                           ELSE IF r = p THEN q ELSE k.next[r])
        /\ \A r \in Obj :
             k2.prev[r] = (IF r = o THEN k.end ELSE IF r = q THEN p ELSE k.prev[r])
    BY <1>5, <1>9, UpdateListLinks
  <2>2. k.end \in H /\ k.next[k.end] = Nil
    BY <1>2, <1>9 DEF Settled
  <2>3. k.end # p
    BY <1>0, <1>4, <2>2
  <2> HIDE DEF k2
  <2>4. Linked(k2, H)
    <3>1. \A r \in H : k2.next[r] # Nil =>
            k2.next[r] \in H \ {k2.dhead} /\ k2.prev[k2.next[r]] = r
      BY <1>0, <1>3, <1>4, <1>5, <1>6, <1>9, <2>1, <2>2, <2>3 DEF Linked
    <3>2. \A r \in H \ {k2.dhead} : k2.prev[r] # Nil =>
            k2.prev[r] \in H /\ k2.next[k2.prev[r]] = r
      BY <1>0, <1>3, <1>4, <1>5, <1>6, <1>9, <2>1, <2>2, <2>3 DEF Linked
    <3> QED BY <3>1, <3>2 DEF Linked
  <2>5. k2.head # Nil => k2.head \in H
    BY <1>3, <1>4, <2>1
  <2>6. Settled(k2, H, m)
    <3>1. k.dhead # Nil => k.dhead \in Obj /\ k.prev[k.dhead] = Nil
      BY <1>2 DEF Settled, ListType, Ptr
    <3>2. k2.dhead # Nil => k2.prev[k2.dhead] = Nil
      BY <1>0, <1>4, <1>5, <1>6, <1>9, <2>1, <3>1
    <3> QED BY <1>3, <2>1, <3>2 DEF Settled
  <2>7. Row(k2, H, m, g)
    BY <1>2, <1>3 DEF Row
  <2>8. CASE n = 0
    <3>1. Rows(k2, H, n, f, m, g)
      BY <1>0, <1>2, <1>3, <2>1, <2>7, <2>8 DEF Rows, Row
    <3> QED BY <1>2, <1>7, <2>4, <2>5, <2>6, <3>1 DEF Shape, k2
  <2>9. ASSUME NEW j \in 1 .. n, o = f[j] PROVE Shape(Nat, k2, H, lost, FALSE)
    <3> DEFINE f2 == [i \in 1 .. n |-> IF i < j THEN f[i] ELSE IF i < n THEN f[i + 1] ELSE o]
    <3>1. /\ k.dhead = f[1] /\ k.end = f[n] /\ j < n
          /\ \A i \in 1 .. n : f[i] \in H /\ f[i] \in Obj
          /\ \A i \in 1 .. n - 1 : k.next[f[i]] = f[i + 1]
          /\ \A i, h \in 1 .. n : f[i] = f[h] => i = h
      BY <1>2, <1>9, <2>9 DEF Rows, Row
    <3>2. q = f[j + 1] /\ f[j + 1] \in H
      BY <2>9, <3>1
    <3>4. f2 \in [1 .. n -> H]
      BY <3>1
    <3>8. Row(k2, H, n, f2)
      <4>1. Row(k, H, n, f) /\ k.prev[k.dhead] = Nil /\ j \in 1 .. n - 1
        BY <1>0, <1>2, <2>9, <3>1 DEF Rows, Settled
      <4>2. /\ f2[n] = o
            /\ \A i \in 1 .. j - 1 : f2[i] = f[i]
            /\ \A i \in j .. n - 1 : f2[i] = f[i + 1]
        BY <3>1
      <4>3. k.dhead = f[1] /\ k.end = f[n]
        BY <3>1
      <4>4. Linked(k, H)
        BY <1>3
      <4>5. k2 = update_list(k, o)
        BY DEF k2
      <4> HIDE DEF f2, p, q
      <4> QED BY ONLY NilAssumption, k \in ListType, H \in SUBSET Obj, n \in Nat, f \in [1 .. n -> H], <2>9, <3>4, <4>1, <4>2, <4>3, <4>4, <4>5, UpdateListRow
    <3>9. k2.dhead = f2[1] /\ k2.end = f2[n]
      BY <2>1, <2>9, <3>1, <3>2
    <3>10. k2.head = Nil \/ \E i \in 1 .. n : k2.head = f2[i]
      <4>1. k.head = Nil \/ \E i \in 1 .. n : k.head = f[i]
        BY <1>2, <2>9 DEF Rows
      <4>2. CASE k.head = Nil
        BY <1>0, <2>1, <4>2
      <4>3. ASSUME NEW i \in 1 .. n, k.head = f[i] PROVE \E h \in 1 .. n : k2.head = f2[h]
        <5>1. CASE i < j
          <6>1. k2.head = f2[i]
            BY <2>1, <2>9, <3>1, <4>3, <5>1
          <6> QED BY <6>1
        <5>2. CASE i = j
          <6>1. k2.head = f2[j]
            BY <2>1, <2>9, <3>1, <3>2, <4>3, <5>2
          <6> QED BY <6>1
        <5>3. CASE i > j
          <6>1. k2.head = f2[i - 1] /\ i - 1 \in 1 .. n
            BY <2>1, <2>9, <3>1, <4>3, <5>3
          <6> QED BY <6>1
        <5> QED BY <5>1, <5>2, <5>3
      <4> QED BY <4>1, <4>2, <4>3
    <3>11. ~lost => Complete(H, n, f2, m, g)
      <4> SUFFICES ASSUME ~lost, NEW r \in H PROVE \E i \in 1 .. n : r = f2[i]
        BY DEF Complete
      <4>1. PICK i \in 1 .. n : r = f[i]
        BY <1>2, <1>3 DEF Complete
      <4>2. CASE i < j
        BY <4>1, <4>2
      <4>3. CASE i = j
        <5>1. r = f2[n]
          BY <2>9, <3>1, <4>1, <4>3
        <5> QED BY <5>1, <3>1
      <4>4. CASE i > j
        <5>1. r = f2[i - 1] /\ i - 1 \in 1 .. n
          BY <4>1, <4>4
        <5> QED BY <5>1
      <4> QED BY <4>2, <4>3, <4>4
    <3> HIDE DEF f2
    <3>12. Rows(k2, H, n, f2, m, g)
      BY <1>2, <1>3, <2>1, <2>7, <3>1, <3>8, <3>9, <3>10 DEF Rows
    <3> QED BY <1>2, <2>4, <2>5, <2>6, <3>4, <3>11, <3>12 DEF Shape
  <2>10. CASE n # 0 /\ ~\E j \in 1 .. n : o = f[j]
    <3> DEFINE f2 == [i \in 1 .. n + 1 |-> IF i = n + 1 THEN o ELSE f[i]]
    <3>1. /\ k.dhead = f[1] /\ k.end = f[n] /\ n > 0
          /\ \A i \in 1 .. n : f[i] \in H /\ f[i] \in Obj /\ f[i] # o
          /\ \A i \in 1 .. n - 1 : k.next[f[i]] = f[i + 1]
          /\ \A i, h \in 1 .. n : f[i] = f[h] => i = h
      <4>1. n > 0 /\ Row(k, H, n, f)
        BY <1>2, <2>10 DEF Rows
      <4>2. k.dhead = f[1] /\ k.end = f[n]
        BY <1>2, <2>10, <4>1 DEF Rows
      <4>3. \A i \in 1 .. n : f[i] \in H
        BY <4>1 DEF Row
      <4>4. \A i \in 1 .. n - 1 : k.next[f[i]] = f[i + 1]
        BY <4>1 DEF Row
      <4>5. \A i, h \in 1 .. n : f[i] = f[h] => i = h
        BY <4>1, Zenon DEF Row
      <4> QED BY <2>10, <4>1, <4>2, <4>3, <4>4, <4>5
    <3>2. \A i \in 1 .. n - 1 : f[i] # p /\ f[i] # k.end
      BY <1>0, <1>4, <3>1
    <3>3. n + 1 \in Nat /\ f2 \in [1 .. n + 1 -> H]
      BY <3>1
    <3>4. \A i \in 1 .. n : k2.next[f2[i]] = f2[i + 1]
      BY <1>9, <2>1, <2>3, <3>1, <3>2, SMTT(60)
    <3>5. Row(k2, H, n + 1, f2)
      <4>1. k2.next[f2[n + 1]] = Nil
        BY <2>1, <3>1
      <4>2. \A i, h \in 1 .. n + 1 : f2[i] = f2[h] => i = h
        BY <3>1
      <4> HIDE DEF f2
      <4> QED BY <3>3, <3>4, <4>1, <4>2 DEF Row
    <3>6. k2.dhead = f2[1] /\ k2.end = f2[n + 1]
      BY <2>1, <3>1
    <3>7. k2.head = Nil \/ \E i \in 1 .. n + 1 : k2.head = f2[i]
      <4>1. k2.head = k.head
        BY <1>0, <1>2, <2>1, <2>10 DEF Rows
      <4> QED BY <1>2, <2>10, <4>1 DEF Rows
    <3>8. ~lost => Complete(H, n + 1, f2, m, g)
      BY <1>2, <1>3, <2>10 DEF Complete
    <3> HIDE DEF f2
    <3>9. Rows(k2, H, n + 1, f2, m, g)
      BY <1>2, <1>3, <2>1, <2>7, <3>3, <3>5, <3>6, <3>7 DEF Rows
    <3>10. Shape(Nat, k2, H, lost, FALSE)
      BY <1>2, <2>4, <2>5, <2>6, <3>3, <3>8, <3>9 DEF Shape
    <3> QED BY <1>7, <3>10 DEF k2
  <2> QED BY <1>7, <2>8, <2>9, <2>10 DEF k2
<1> QED BY <1>8, <1>9

(* The links after dead_list really moved an object.                       *)
LEMMA DeadListLinks ==
  ASSUME NEW k \in ListType, NEW o \in Obj, o # k.dhead
  PROVE  LET p  == k.prev[o]
             q  == k.next[o]
             k2 == dead_list(k, o)
         IN /\ k2.head = (IF o # k.head THEN k.head ELSE IF o = k.end THEN p ELSE q)
            /\ k2.end = (IF o = k.end THEN p ELSE k.end)
            /\ k2.dhead = o /\ k2.thead = k.thead /\ k2.tend = k.tend
            /\ \A r \in Obj :
                 k2.next[r] = (IF r = o THEN k.dhead ELSE IF r = p THEN q ELSE k.next[r])
            /\ \A r \in Obj :
                 k2.prev[r] = (IF r = o THEN Nil ELSE IF r = k.dhead THEN o
                               ELSE IF r = q THEN p ELSE k.prev[r])
<1> DEFINE p  == k.prev[o]
           q  == k.next[o]
           a  == Set(k.next, p, q)
           b1 == Set(k.prev, q, p)
           b  == Set(b1, k.dhead, o)
<1>0. /\ k.next \in [Obj -> Ptr] /\ k.prev \in [Obj -> Ptr]
      /\ p \in Ptr /\ q \in Ptr /\ Nil \in Ptr /\ o \in Ptr /\ k.dhead \in Ptr
      /\ Nil \notin Obj
  BY NilAssumption DEF ListType, Ptr
<1>1. a \in [Obj -> Ptr] /\ \A r \in Obj : a[r] = IF r = p THEN q ELSE k.next[r]
  BY <1>0 DEF Set, Ptr
<1>2. b1 \in [Obj -> Ptr] /\ \A r \in Obj : b1[r] = IF r = q THEN p ELSE k.prev[r]
  BY <1>0 DEF Set, Ptr
<1>3. b \in [Obj -> Ptr] /\ \A r \in Obj : b[r] = IF r = k.dhead THEN o ELSE b1[r]
  <2> HIDE DEF b1
  <2> QED BY <1>0, <1>2 DEF Set, Ptr
<1>4. dead_list(k, o) =
        [k EXCEPT !.head  = IF o = @ THEN (IF o = k.end THEN p ELSE q) ELSE @,
                  !.end   = IF o = k.end THEN p ELSE @,
                  !.next  = [a EXCEPT ![o] = k.dhead],
                  !.prev  = [b EXCEPT ![o] = Nil],
                  !.dhead = o]
  BY Zenon DEF dead_list
<1> HIDE DEF a, b
<1> QED BY <1>0, <1>1, <1>2, <1>3, <1>4 DEF ListType

(* dead_list takes the object out of the row and puts it in front.         *)
LEMMA DeadListRow ==
  ASSUME NEW k \in ListType, NEW H \in SUBSET Obj, Linked(k, H),
         NEW n \in Nat, NEW f \in [1 .. n -> H], Row(k, H, n, f), k.dhead = f[1],
         NEW j \in 2 .. n, NEW o, o = f[j],
         NEW f2 \in [1 .. n -> H], f2[1] = o,
         \A i \in 2 .. j : f2[i] = f[i - 1],
         \A i \in j + 1 .. n : f2[i] = f[i]
  PROVE  Row(dead_list(k, o), H, n, f2)
<1> DEFINE k2 == dead_list(k, o)
           p  == k.prev[o]
           q  == k.next[o]
<1>0. Nil \notin H /\ o \in H
  BY NilAssumption DEF Row
<1>1. /\ \A i \in 1 .. n : f[i] \in H /\ f[i] \in Obj
      /\ \A i \in 1 .. n - 1 : k.next[f[i]] = f[i + 1]
      /\ k.next[f[n]] = Nil
      /\ \A i, h \in 1 .. n : f[i] = f[h] => i = h
  BY DEF Row
<1>2. o # k.dhead /\ p = f[j - 1] /\ q = IF j = n THEN Nil ELSE f[j + 1]
  <2>1. k.next[f[j - 1]] = o /\ f[j - 1] \in H
    BY <1>1
  <2>2. p = f[j - 1]
    BY <1>0, <2>1 DEF Linked
  <2> QED BY <1>1, <2>2
<1>3. \A r \in Obj :
        k2.next[r] = (IF r = o THEN k.dhead ELSE IF r = p THEN q ELSE k.next[r])
  BY <1>0, <1>2, DeadListLinks
<1> HIDE DEF k2
<1>4. \A i \in 1 .. n - 1 : k2.next[f2[i]] = f2[i + 1]
  <2> TAKE i \in 1 .. n - 1
  <2>1. CASE i = 1
    <3>1. f2[i] = o /\ f2[i + 1] = k.dhead
      BY <2>1
    <3> QED BY <1>0, <1>3, <3>1
  <2>2. CASE 1 < i /\ i < j
    <3>1. f2[i] = f[i - 1] /\ f2[i + 1] = f[i] /\ f[i - 1] # o /\ f[i - 1] # p
      BY <1>1, <1>2, <2>2
    <3>2. k.next[f[i - 1]] = f[i] /\ f[i - 1] \in Obj
      BY <1>1, <2>2
    <3> QED BY <1>3, <3>1, <3>2
  <2>3. CASE i = j
    <3>1. f2[i] = p /\ f2[i + 1] = q /\ p # o /\ p \in Obj
      BY <1>1, <1>2, <2>3
    <3> QED BY <1>3, <3>1
  <2>4. CASE i > j
    <3>1. f2[i] = f[i] /\ f2[i + 1] = f[i + 1] /\ f[i] # o /\ f[i] # p
      BY <1>1, <1>2, <2>4
    <3> QED BY <1>1, <1>3, <3>1
  <2> QED BY <2>1, <2>2, <2>3, <2>4
<1>5. k2.next[f2[n]] = Nil
  <2>1. CASE j = n
    <3>1. f2[n] = p /\ q = Nil /\ p # o /\ p \in Obj
      BY <1>1, <1>2, <2>1
    <3> QED BY <1>3, <3>1
  <2>2. CASE j # n
    <3>1. f2[n] = f[n] /\ f[n] # p /\ f[n] # o
      BY <1>1, <1>2, <2>2
    <3> QED BY <1>1, <1>3, <3>1
  <2> QED BY <2>1, <2>2
<1>6. \A i, h \in 1 .. n : f2[i] = f2[h] => i = h
  <2> DEFINE x(i) == IF i = 1 THEN j ELSE IF i <= j THEN i - 1 ELSE i
  <2>1. \A i \in 1 .. n : x(i) \in 1 .. n /\ f2[i] = f[x(i)]
    OBVIOUS
  <2>2. \A i, h \in 1 .. n : x(i) = x(h) => i = h
    OBVIOUS
  <2>3. \A y, z \in 1 .. n : f[y] = f[z] => y = z
    BY <1>1
  <2> HIDE DEF x
  <2> SUFFICES ASSUME NEW i \in 1 .. n, NEW h \in 1 .. n, f2[i] = f2[h] PROVE i = h
    OBVIOUS
  <2>4. f[x(i)] = f[x(h)]
    BY <2>1
  <2>5. x(i) = x(h)
    BY <2>1, <2>3, <2>4
  <2> QED BY <2>2, <2>5
<1> QED BY <1>4, <1>5, <1>6 DEF Row, k2

(* dead_list, for a cached object, where it does not dereference NULL; and *)
(* it never does before the list is lost.                                  *)
LEMMA DeadListShape ==
  ASSUME NEW k \in ListType, NEW H \in SUBSET Obj, NEW o \in H,
         NEW lost \in BOOLEAN, Shape(Nat, k, H, lost, FALSE)
  PROVE  /\ ~lost => ~DeadListFaults(k, o)
         /\ ~DeadListFaults(k, o) => Shape(Nat, dead_list(k, o), H, lost, FALSE)
<1> DEFINE k2 == dead_list(k, o)
           p  == k.prev[o]
           q  == k.next[o]
<1>0. Nil \notin H
  BY NilAssumption
<1>1. PICK n \in Nat, m \in Nat :
        \E f \in [1 .. n -> H], g \in [1 .. m -> H] :
          Rows(k, H, n, f, m, g) /\ (~lost => Complete(H, n, f, m, g)) /\ Settled(k, H, m)
  BY DEF Shape
<1>2. PICK f \in [1 .. n -> H], g \in [1 .. m -> H] :
        Rows(k, H, n, f, m, g) /\ (~lost => Complete(H, n, f, m, g)) /\ Settled(k, H, m)
  BY <1>1
<1>3. m = 0 /\ Linked(k, H) /\ (k.head # Nil => k.head \in H)
  BY <1>2 DEF Settled, Shape
<1>4. /\ q # Nil => q \in H \ {k.dhead} /\ k.prev[q] = o
      /\ p # Nil => p \in H /\ k.next[p] = o /\ o # k.dhead
  BY <1>2, <1>3, Neighbours DEF Settled
<1>5. ASSUME NEW j \in 1 .. n, o = f[j], o # k.dhead
      PROVE  /\ j > 1 /\ p = f[j - 1] /\ f[j - 1] \in H
             /\ q = IF j = n THEN Nil ELSE f[j + 1]
  <2>1. j > 1
    BY <1>2, <1>5 DEF Rows
  <2>2. k.next[f[j - 1]] = o /\ f[j - 1] \in H
    BY <1>2, <1>5, <2>1 DEF Rows, Row
  <2>3. p = f[j - 1]
    BY <1>0, <1>3, <2>2 DEF Linked
  <2>4. q = IF j = n THEN Nil ELSE f[j + 1]
    BY <1>2, <1>5 DEF Rows, Row
  <2> QED BY <2>1, <2>2, <2>3, <2>4
<1>6. ~lost => ~DeadListFaults(k, o)
  <2> SUFFICES ASSUME ~lost, o # k.dhead
               PROVE  k.dhead # Nil /\ p # Nil
    BY DEF DeadListFaults
  <2>1. PICK j \in 1 .. n : o = f[j]
    BY <1>2, <1>3 DEF Complete
  <2>2. p # Nil
    BY <1>0, <1>5, <2>1
  <2>3. n > 0 /\ f[1] \in H /\ k.dhead = f[1]
    BY <1>2, <2>1 DEF Rows
  <2> QED BY <1>0, <2>2, <2>3
<1>7. CASE o = k.dhead \/ DeadListFaults(k, o)
  BY <1>6, <1>7 DEF dead_list
<1>8. CASE o # k.dhead /\ ~DeadListFaults(k, o)
  <2>1. /\ k2.head = (IF o # k.head THEN k.head ELSE IF o = k.end THEN p ELSE q)
        /\ k2.end = (IF o = k.end THEN p ELSE k.end)
        /\ k2.dhead = o /\ k2.thead = k.thead /\ k2.tend = k.tend
        /\ \A r \in Obj :
             k2.next[r] = (IF r = o THEN k.dhead ELSE IF r = p THEN q ELSE k.next[r])
        /\ \A r \in Obj :
             k2.prev[r] = (IF r = o THEN Nil ELSE IF r = k.dhead THEN o
                           ELSE IF r = q THEN p ELSE k.prev[r])
    BY <1>8, DeadListLinks
  <2>2. k.dhead # Nil /\ (o = k.end => p # Nil /\ q = Nil)
    BY <1>0, <1>2, <1>8 DEF DeadListFaults, Settled
  <2>3. /\ n > 0 /\ k.dhead = f[1] /\ k.dhead \in H /\ k.end = f[n]
        /\ k.prev[k.dhead] = Nil
        /\ \A i \in 1 .. n : f[i] \in H /\ f[i] \in Obj
        /\ \A i \in 1 .. n - 1 : k.next[f[i]] = f[i + 1]
        /\ k.next[f[n]] = Nil
        /\ \A i, h \in 1 .. n : f[i] = f[h] => i = h
    BY <1>2, <2>2 DEF Rows, Row, Settled
  <2> HIDE DEF k2
  <2>4. Linked(k2, H)
    <3>1. \A r \in H : k2.next[r] # Nil =>
            k2.next[r] \in H \ {k2.dhead} /\ k2.prev[k2.next[r]] = r
      BY <1>0, <1>3, <1>4, <1>8, <2>1, <2>2, <2>3 DEF Linked
    <3>2. \A r \in H \ {k2.dhead} : k2.prev[r] # Nil =>
            k2.prev[r] \in H /\ k2.next[k2.prev[r]] = r
      BY <1>0, <1>3, <1>4, <1>8, <2>1, <2>2, <2>3, SMTT(30) DEF Linked
    <3> QED BY <3>1, <3>2 DEF Linked
  <2>5. k2.head # Nil => k2.head \in H
    BY <1>3, <1>4, <2>1
  <2>6. Settled(k2, H, m)
    <3>1. k2.end \in H /\ k2.next[k2.end] = Nil
      BY <1>0, <1>2, <1>3, <1>4, <1>8, <2>1, <2>2, <2>3
    <3> QED BY <1>3, <2>1, <3>1 DEF Settled
  <2>7. Row(k2, H, m, g)
    BY <1>2, <1>3 DEF Row
  <2>8. ASSUME NEW j \in 1 .. n, o = f[j] PROVE Shape(Nat, k2, H, lost, FALSE)
    <3> DEFINE f2 == [i \in 1 .. n |-> IF i = 1 THEN o ELSE IF i <= j THEN f[i - 1] ELSE f[i]]
    <3>1. j > 1 /\ p = f[j - 1] /\ q = IF j = n THEN Nil ELSE f[j + 1]
      BY <1>5, <1>8, <2>8
    <3>2. f2 \in [1 .. n -> H]
      BY <2>3
    <3>3. Row(k2, H, n, f2)
      <4>1. Row(k, H, n, f) /\ j \in 2 .. n
        BY <1>2, <2>8, <3>1 DEF Rows
      <4>2. /\ f2[1] = o
            /\ \A i \in 2 .. j : f2[i] = f[i - 1]
            /\ \A i \in j + 1 .. n : f2[i] = f[i]
        BY <2>3
      <4>3. Linked(k, H) /\ k.dhead = f[1]
        BY <1>3, <2>3
      <4>4. k2 = dead_list(k, o)
        BY DEF k2
      <4> HIDE DEF f2, p, q
      <4> QED BY ONLY k \in ListType, H \in SUBSET Obj, n \in Nat, f \in [1 .. n -> H], <2>8, <3>2, <4>1, <4>2, <4>3, <4>4, DeadListRow
    <3>4. f2[n] = k2.end
      BY <2>1, <2>3, <2>8, <3>1
    <3>7. f2[1] = k2.dhead
      BY <2>1, <2>3
    <3>8. k2.head = Nil \/ \E i \in 1 .. n : k2.head = f2[i]
      <4>1. k.head = Nil \/ \E i \in 1 .. n : k.head = f[i]
        BY <1>2, <2>3 DEF Rows
      <4>2. CASE k.head = Nil
        BY <1>0, <2>1, <4>2
      <4>3. ASSUME NEW i \in 1 .. n, k.head = f[i] PROVE \E h \in 1 .. n : k2.head = f2[h]
        <5>1. CASE i < j
          <6>1. k2.head = f2[i + 1] /\ i + 1 \in 1 .. n
            BY <2>1, <2>3, <2>8, <4>3, <5>1
          <6> QED BY <6>1
        <5>2. CASE i = j
          <6>1. k2.head = IF j = n THEN f2[j] ELSE f2[j + 1]
            BY <2>1, <2>3, <2>8, <3>1, <4>3, <5>2
          <6> QED BY <6>1
        <5>3. CASE i > j
          <6>1. k2.head = f2[i]
            BY <2>1, <2>3, <2>8, <4>3, <5>3
          <6> QED BY <6>1
        <5> QED BY <5>1, <5>2, <5>3
      <4> QED BY <4>1, <4>2, <4>3
    <3>9. ~lost => Complete(H, n, f2, m, g)
      <4> SUFFICES ASSUME ~lost, NEW r \in H PROVE \E i \in 1 .. n : r = f2[i]
        BY DEF Complete
      <4>1. PICK i \in 1 .. n : r = f[i]
        BY <1>2, <1>3 DEF Complete
      <4>2. CASE i < j
        <5>1. r = f2[i + 1] /\ i + 1 \in 1 .. n
          BY <4>1, <4>2
        <5> QED BY <5>1
      <4>3. CASE i = j
        <5>1. r = f2[1]
          BY <2>8, <2>3, <4>1, <4>3
        <5> QED BY <5>1, <2>3
      <4>4. CASE i > j
        <5>1. r = f2[i]
          BY <4>1, <4>4
        <5> QED BY <5>1
      <4> QED BY <4>2, <4>3, <4>4
    <3> HIDE DEF f2
    <3>11. Rows(k2, H, n, f2, m, g)
      BY <1>2, <1>3, <2>1, <2>3, <2>7, <3>4, <3>7, <3>8, <3>3 DEF Rows
    <3> QED BY <1>2, <2>4, <2>5, <2>6, <3>2, <3>9, <3>11 DEF Shape
  <2>9. ASSUME ~\E j \in 1 .. n : o = f[j] PROVE Shape(Nat, k2, H, lost, FALSE)
    <3> DEFINE f2 == [i \in 1 .. n + 1 |-> IF i = 1 THEN o ELSE f[i - 1]]
    <3>1. \A i \in 1 .. n : f[i] # o /\ f[i] # p
      BY <1>0, <1>4, <2>3, <2>9
    <3>2. n + 1 \in Nat /\ f2 \in [1 .. n + 1 -> H]
      BY <2>3
    <3>3. \A i \in 1 .. n : k2.next[f2[i]] = f2[i + 1]
      <4> TAKE i \in 1 .. n
      <4>1. CASE i = 1
        <5>1. f2[i] = o /\ f2[i + 1] = k.dhead
          BY <2>3, <4>1
        <5> QED BY <2>1, <5>1
      <4>2. CASE i > 1
        <5>1. f2[i] = f[i - 1] /\ f2[i + 1] = f[i] /\ k.next[f[i - 1]] = f[i]
          BY <2>3, <4>2
        <5>2. f[i - 1] # o /\ f[i - 1] # p /\ f[i - 1] \in Obj
          BY <2>3, <3>1, <4>2
        <5> QED BY <2>1, <5>1, <5>2
      <4> QED BY <4>1, <4>2
    <3>4. f2[n + 1] = k2.end /\ f2[1] = k2.dhead
      BY <2>1, <2>3, <3>1
    <3>5. k2.next[f2[n + 1]] = Nil
      BY <1>0, <2>3, <2>6, <3>2, <3>4 DEF Settled
    <3>6. \A i, h \in 1 .. n + 1 : f2[i] = f2[h] => i = h
      BY <2>3, <3>1
    <3>7. k2.head = Nil \/ \E i \in 1 .. n + 1 : k2.head = f2[i]
      <4>1. k.head = Nil \/ \E i \in 1 .. n : k.head = f[i]
        BY <1>2, <2>3 DEF Rows
      <4>2. CASE k.head = Nil
        BY <1>0, <2>1, <4>2
      <4>3. ASSUME NEW i \in 1 .. n, k.head = f[i]
            PROVE  \E h \in 1 .. n + 1 : k2.head = f2[h]
        <5>1. k2.head = f2[i + 1] /\ i + 1 \in 1 .. n + 1
          BY <2>1, <3>1, <4>3
        <5> QED BY <5>1
      <4> QED BY <4>1, <4>2, <4>3
    <3>8. ~lost => Complete(H, n + 1, f2, m, g)
      BY <1>2, <1>3, <2>9 DEF Complete
    <3> HIDE DEF f2
    <3>9. Row(k2, H, n + 1, f2)
      BY <3>2, <3>3, <3>5, <3>6 DEF Row
    <3>10. Rows(k2, H, n + 1, f2, m, g)
      BY <1>2, <1>3, <2>1, <2>3, <2>7, <3>2, <3>4, <3>7, <3>9 DEF Rows
    <3> QED BY <1>2, <2>4, <2>5, <2>6, <3>2, <3>8, <3>10 DEF Shape
  <2> QED BY <1>6, <2>8, <2>9 DEF k2
<1> QED BY <1>7, <1>8

(* An iteration of delete_cache.                                           *)
LEMMA AdvanceHeadShape ==
  ASSUME NEW k \in ListType, NEW H \in SUBSET Obj,
         NEW lost \in BOOLEAN, Shape(Nat, k, H, lost, FALSE), k.head # Nil
  PROVE  Shape(Nat, AdvanceHead(k), H, lost, FALSE)
<1> DEFINE k2 == AdvanceHead(k)
<1>1. PICK n \in Nat, m \in Nat :
        \E f \in [1 .. n -> H], g \in [1 .. m -> H] :
          Rows(k, H, n, f, m, g) /\ (~lost => Complete(H, n, f, m, g)) /\ Settled(k, H, m)
  BY DEF Shape
<1>2. PICK f \in [1 .. n -> H], g \in [1 .. m -> H] :
        Rows(k, H, n, f, m, g) /\ (~lost => Complete(H, n, f, m, g)) /\ Settled(k, H, m)
  BY <1>1
<1>3. Linked(k, H) /\ k.head \in H
  BY DEF Shape
<1>4. /\ k2.head = k.next[k.head] /\ k2.next = k.next /\ k2.prev = k.prev
      /\ k2.end = k.end /\ k2.dhead = k.dhead /\ k2.thead = k.thead /\ k2.tend = k.tend
  BY DEF AdvanceHead, ListType
<1> HIDE DEF k2
<1>5. Linked(k2, H) /\ Settled(k2, H, m) /\ Row(k2, H, n, f) /\ Row(k2, H, m, g)
  BY <1>2, <1>3, <1>4 DEF Linked, Settled, Rows, Row
<1>6. k2.head # Nil => k2.head \in H
  BY <1>3, <1>4 DEF Linked
<1>7. n + m > 0 => k2.head = Nil \/ \E i \in 1 .. n : k2.head = f[i]
  <2> SUFFICES ASSUME n + m > 0 PROVE k2.head = Nil \/ \E i \in 1 .. n : k2.head = f[i]
    OBVIOUS
  <2>1. PICK i \in 1 .. n : k.head = f[i]
    BY <1>2, <1>3 DEF Rows
  <2>2. k2.head = IF i = n THEN Nil ELSE f[i + 1]
    BY <1>2, <1>4, <2>1 DEF Rows, Row
  <2> QED BY <2>2
<1>8. Rows(k2, H, n, f, m, g)
  BY <1>2, <1>4, <1>5, <1>7 DEF Rows
<1> QED BY <1>2, <1>5, <1>6, <1>8 DEF Shape, k2

(* The end of load_all_from_disk: l_head=l_end.                            *)
LEMMA HeadToEndShape ==
  ASSUME NEW k \in ListType, NEW H \in SUBSET Obj,
         NEW lost \in BOOLEAN, Shape(Nat, k, H, lost, FALSE)
  PROVE  Shape(Nat, [k EXCEPT !.head = k.end], H, lost, FALSE)
<1> DEFINE k2 == [k EXCEPT !.head = k.end]
<1>1. PICK n \in Nat, m \in Nat :
        \E f \in [1 .. n -> H], g \in [1 .. m -> H] :
          Rows(k, H, n, f, m, g) /\ (~lost => Complete(H, n, f, m, g)) /\ Settled(k, H, m)
  BY DEF Shape
<1>2. PICK f \in [1 .. n -> H], g \in [1 .. m -> H] :
        Rows(k, H, n, f, m, g) /\ (~lost => Complete(H, n, f, m, g)) /\ Settled(k, H, m)
  BY <1>1
<1>3. Linked(k, H)
  BY DEF Shape
<1>4. /\ k2.head = k.end /\ k2.next = k.next /\ k2.prev = k.prev
      /\ k2.end = k.end /\ k2.dhead = k.dhead /\ k2.thead = k.thead /\ k2.tend = k.tend
  BY DEF ListType
<1> HIDE DEF k2
<1>5. Linked(k2, H) /\ Settled(k2, H, m) /\ Row(k2, H, n, f) /\ Row(k2, H, m, g)
  BY <1>2, <1>3, <1>4 DEF Linked, Settled, Rows, Row
<1>6. k2.head # Nil => k2.head \in H
  BY <1>2, <1>4 DEF Settled
<1>7. Rows(k2, H, n, f, m, g)
  BY <1>2, <1>4, <1>5 DEF Rows, Settled
<1> QED BY <1>2, <1>5, <1>6, <1>7 DEF Shape, k2

(* clean_disk takes the list over as it is.                                *)
LEMMA EnterCleanShape ==
  ASSUME NEW k \in ListType, NEW H \in SUBSET Obj,
         NEW lost \in BOOLEAN, Shape(Nat, k, H, lost, FALSE)
  PROVE  Shape(Nat, k, H, lost, TRUE)
BY DEF Shape

(* The first object leaves the row.                                        *)
LEMMA DropFirstRow ==
  ASSUME NEW k \in ListType, NEW H \in SUBSET Obj,
         NEW n \in Nat \ {0}, NEW f \in [1 .. n -> H], Row(k, H, n, f), k.dhead = f[1],
         NEW f2 \in [1 .. n - 1 -> H \ {k.dhead}],
         \A i \in 1 .. n - 1 : f2[i] = f[i + 1]
  PROVE  Row(DropFirst(k), H \ {k.dhead}, n - 1, f2)
<1> DEFINE k2 == DropFirst(k)
<1>1. /\ \A i \in 1 .. n : f[i] \in H /\ f[i] \in Obj
      /\ \A i \in 1 .. n - 1 : k.next[f[i]] = f[i + 1]
      /\ k.next[f[n]] = Nil
      /\ \A i, h \in 1 .. n : f[i] = f[h] => i = h
  BY DEF Row
<1>2. \A r \in Obj : k2.next[r] = IF r = k.dhead THEN Nil ELSE k.next[r]
  BY <1>1 DEF DropFirst, PassFirst, ListType
<1> HIDE DEF k2
<1>3. \A i \in 1 .. n - 1 - 1 : k2.next[f2[i]] = f2[i + 1]
  <2> TAKE i \in 1 .. n - 1 - 1
  <2>1. f2[i] = f[i + 1] /\ f2[i + 1] = f[i + 2] /\ i + 1 \in 1 .. n - 1 /\ i + 1 # 1
    OBVIOUS
  <2>2. k.next[f[i + 1]] = f[i + 2] /\ f[i + 1] # k.dhead /\ f[i + 1] \in Obj
    BY <1>1, <2>1
  <2> QED BY <1>2, <2>1, <2>2
<1>4. n - 1 > 0 => k2.next[f2[n - 1]] = Nil
  BY <1>1, <1>2
<1>5. \A i, h \in 1 .. n - 1 : f2[i] = f2[h] => i = h
  BY <1>1
<1> QED BY <1>3, <1>4, <1>5 DEF Row, k2

(* clean_disk destroys the first object, which is no longer cached.        *)
LEMMA DropFirstShape ==
  ASSUME NEW k \in ListType, NEW H \in SUBSET Obj,
         NEW lost \in BOOLEAN, Shape(Nat, k, H, lost, TRUE), k.dhead # Nil
  PROVE  k.dhead \in H /\ Shape(Nat, DropFirst(k), H \ {k.dhead}, lost, TRUE)
<1> DEFINE k2 == DropFirst(k)
           H2 == H \ {k.dhead}
           o  == k.dhead
           q  == k.next[o]
<1>0. Nil \notin H
  BY NilAssumption
<1>1. PICK n \in Nat, m \in Nat :
        \E f \in [1 .. n -> H], g \in [1 .. m -> H] :
          Rows(k, H, n, f, m, g) /\ (~lost => Complete(H, n, f, m, g))
  BY DEF Shape
<1>2. PICK f \in [1 .. n -> H], g \in [1 .. m -> H] :
        Rows(k, H, n, f, m, g) /\ (~lost => Complete(H, n, f, m, g))
  BY <1>1
<1>3. Linked(k, H) /\ (k.head # Nil => k.head \in H)
  BY DEF Shape
<1>4. n > 0 /\ o = f[1] /\ o \in H /\ k.end = f[n]
  BY <1>2 DEF Rows
<1>5. q # Nil => q \in H \ {o} /\ k.prev[q] = o
  BY <1>3, <1>4 DEF Linked
<1>6. /\ k2.head = (IF k.head = o THEN q ELSE k.head) /\ k2.dhead = q
      /\ k2.end = k.end /\ k2.thead = k.thead /\ k2.tend = k.tend
      /\ \A r \in Obj : k2.next[r] = IF r = o THEN Nil ELSE k.next[r]
      /\ \A r \in Obj : k2.prev[r] = IF r = o THEN Nil ELSE k.prev[r]
  BY <1>4 DEF DropFirst, PassFirst, ListType
<1> HIDE DEF k2
<1>7. Linked(k2, H2)
  <2>1. \A r \in H2 : k2.next[r] # Nil =>
          k2.next[r] \in H2 \ {k2.dhead} /\ k2.prev[k2.next[r]] = r
    BY <1>0, <1>3, <1>4, <1>5, <1>6 DEF Linked
  <2>2. \A r \in H2 \ {k2.dhead} : k2.prev[r] # Nil =>
          k2.prev[r] \in H2 /\ k2.next[k2.prev[r]] = r
    BY <1>0, <1>3, <1>4, <1>5, <1>6 DEF Linked
  <2> QED BY <2>1, <2>2 DEF Linked
<1>8. k2.head # Nil => k2.head \in H2
  BY <1>3, <1>5, <1>6
<1> DEFINE f2 == [i \in 1 .. n - 1 |-> f[i + 1]]
<1>9. n - 1 \in Nat /\ f2 \in [1 .. n - 1 -> H2] /\ g \in [1 .. m -> H2]
  BY <1>2, <1>4 DEF Rows, Row
<1>10. q = IF n = 1 THEN Nil ELSE f[2]
  BY <1>2, <1>4 DEF Rows, Row
<1>11. Row(k2, H2, n - 1, f2)
  <2>1. n \in Nat \ {0} /\ Row(k, H, n, f)
    BY <1>2, <1>4 DEF Rows
  <2>2. \A i \in 1 .. n - 1 : f2[i] = f[i + 1]
    OBVIOUS
  <2> HIDE DEF f2
  <2> QED BY <1>4, <1>9, <2>1, <2>2, DropFirstRow DEF k2
<1>12. Row(k2, H2, m, g)
  <2>1. \A i \in 1 .. m : g[i] # o /\ g[i] \in Obj
    BY <1>2, <1>4 DEF Rows
  <2> QED BY <1>2, <1>6, <1>9, <2>1, SMTT(60) DEF Rows, Row
<1>13. n - 1 + m > 0 => k2.head = Nil \/ \E i \in 1 .. n - 1 : k2.head = f2[i]
  <2>1. k.head = Nil \/ \E i \in 1 .. n : k.head = f[i]
    BY <1>2, <1>4 DEF Rows
  <2>2. CASE k.head = Nil
    BY <1>0, <1>4, <1>6, <2>2
  <2>3. CASE k.head = o
    <3>1. k2.head = IF n = 1 THEN Nil ELSE f2[1]
      BY <1>4, <1>6, <1>10, <2>3
    <3>2. CASE n = 1
      BY <3>1, <3>2
    <3>3. CASE n # 1
      <4>1. 1 \in 1 .. n - 1 /\ k2.head = f2[1]
        BY <1>4, <3>1, <3>3
      <4> QED BY <4>1
    <3> QED BY <3>2, <3>3
  <2>4. ASSUME NEW i \in 1 .. n, k.head = f[i], k.head # o
        PROVE  \E h \in 1 .. n - 1 : k2.head = f2[h]
    <3>1. i - 1 \in 1 .. n - 1 /\ k2.head = f2[i - 1]
      BY <1>4, <1>6, <2>4
    <3> QED BY <3>1
  <2> QED BY <2>1, <2>2, <2>3, <2>4
<1>14. k2.dhead = IF n - 1 = 0 THEN Nil ELSE f2[1]
  BY <1>4, <1>6, <1>10
<1>15. n - 1 > 0 => k2.end = f2[n - 1]
  BY <1>4, <1>6
<1>16. m > 0 => k2.prev[k2.thead] = Nil
  BY <1>2, <1>6 DEF Rows
<1>17. Rows(k2, H2, n - 1, f2, m, g)
  <2>1. \A i \in 1 .. n - 1, j \in 1 .. m : f2[i] # g[j]
    BY <1>2 DEF Rows
  <2> HIDE DEF f2
  <2> QED BY <1>2, <1>6, <1>11, <1>12, <1>13, <1>14, <1>15, <1>16, <2>1 DEF Rows
<1>18. ~lost => Complete(H2, n - 1, f2, m, g)
  <2> SUFFICES ASSUME ~lost, NEW r \in H2
               PROVE  (\E i \in 1 .. n - 1 : r = f2[i]) \/ (\E i \in 1 .. m : r = g[i])
    BY DEF Complete
  <2>1. (\E i \in 1 .. n : r = f[i]) \/ (\E i \in 1 .. m : r = g[i])
    BY <1>2 DEF Complete
  <2>2. ASSUME NEW i \in 1 .. n, r = f[i] PROVE \E h \in 1 .. n - 1 : r = f2[h]
    <3>1. i - 1 \in 1 .. n - 1 /\ r = f2[i - 1]
      BY <1>4, <2>2
    <3> QED BY <3>1
  <2> QED BY <2>1, <2>2
<1> HIDE DEF f2, H2
<1>19. Shape(Nat, k2, H2, lost, TRUE)
  BY <1>7, <1>8, <1>9, <1>17, <1>18 DEF Shape
<1> QED BY <1>4, <1>19 DEF k2, H2

(* The links after clean_disk parked the first object.                     *)
LEMMA KeepFirstLinks ==
  ASSUME NEW k \in ListType, k.dhead # Nil
  PROVE  LET o  == k.dhead
             t  == k.tend
             k2 == KeepFirst(k)
         IN /\ k2.head = (IF k.head = o THEN k.next[o] ELSE k.head) /\ k2.dhead = k.next[o]
            /\ k2.end = k.end /\ k2.tend = o /\ k2.thead = (IF t = Nil THEN o ELSE k.thead)
            /\ \A r \in Obj :
                 k2.next[r] = IF r = o THEN Nil ELSE IF r = t THEN o ELSE k.next[r]
            /\ \A r \in Obj : k2.prev[r] = IF r = o THEN t ELSE k.prev[r]
<1> DEFINE o  == k.dhead
           q  == k.next[o]
           t  == k.tend
           a  == Set(k.next, t, o)
           k2 == KeepFirst(k)
<1>1. a \in [Obj -> Ptr] /\ \A r \in Obj : a[r] = IF r = t THEN o ELSE k.next[r]
  BY NilAssumption DEF ListType, Set, Ptr
<1>2. k2 = [k EXCEPT !.head  = IF @ = o THEN q ELSE @,
                     !.dhead = q,
                     !.next  = [a EXCEPT ![o] = Nil],
                     !.prev[o] = t,
                     !.thead = IF t = Nil THEN o ELSE @,
                     !.tend  = o]
  BY DEF KeepFirst, PassFirst, ListType
<1> HIDE DEF a, k2
<1> QED BY <1>1, <1>2 DEF ListType, Ptr, k2

(* The first object leaves the row and is appended to the parked ones.     *)
LEMMA KeepFirstRows ==
  ASSUME NEW k \in ListType, NEW H \in SUBSET Obj,
         NEW n \in Nat \ {0}, NEW m \in Nat,
         NEW f \in [1 .. n -> H], NEW g \in [1 .. m -> H], Rows(k, H, n, f, m, g),
         NEW f2 \in [1 .. n - 1 -> H], \A i \in 1 .. n - 1 : f2[i] = f[i + 1],
         NEW g2 \in [1 .. m + 1 -> H], g2[m + 1] = k.dhead, \A i \in 1 .. m : g2[i] = g[i]
  PROVE  Row(KeepFirst(k), H, n - 1, f2) /\ Row(KeepFirst(k), H, m + 1, g2)
<1> DEFINE k2 == KeepFirst(k)
           o  == k.dhead
           t  == k.tend
<1>0. Nil \notin H
  BY NilAssumption
<1>1. o = f[1] /\ t = (IF m = 0 THEN Nil ELSE g[m])
  BY DEF Rows
<1>2. /\ \A i \in 1 .. n : f[i] \in H /\ f[i] \in Obj /\ f[i] # t
      /\ \A i \in 1 .. n - 1 : k.next[f[i]] = f[i + 1]
      /\ k.next[f[n]] = Nil
      /\ \A i, h \in 1 .. n : f[i] = f[h] => i = h
      /\ \A i \in 1 .. m : g[i] \in H /\ g[i] \in Obj /\ g[i] # o
      /\ \A i \in 1 .. m - 1 : k.next[g[i]] = g[i + 1] /\ g[i] # t
      /\ \A i, h \in 1 .. m : g[i] = g[h] => i = h
      /\ \A i \in 1 .. n, j \in 1 .. m : f[i] # g[j]
  BY <1>0, <1>1 DEF Rows, Row
<1>3. o # Nil /\ o \in Obj
  BY <1>0, <1>1, <1>2
<1>4. \A r \in Obj : k2.next[r] = IF r = o THEN Nil ELSE IF r = t THEN o ELSE k.next[r]
  BY <1>3, KeepFirstLinks
<1> HIDE DEF k2
<1>5. Row(k2, H, n - 1, f2)
  <2>1. \A i \in 1 .. n - 1 - 1 : k2.next[f2[i]] = f2[i + 1]
    <3> TAKE i \in 1 .. n - 1 - 1
    <3>1. f2[i] = f[i + 1] /\ f2[i + 1] = f[i + 2] /\ i + 1 \in 1 .. n - 1 /\ i + 1 # 1
      OBVIOUS
    <3>2. k.next[f[i + 1]] = f[i + 2] /\ f[i + 1] # o /\ f[i + 1] # t /\ f[i + 1] \in Obj
      BY <1>1, <1>2, <3>1
    <3> QED BY <1>4, <3>1, <3>2
  <2>2. n - 1 > 0 => k2.next[f2[n - 1]] = Nil
    BY <1>1, <1>2, <1>4
  <2>3. \A i, h \in 1 .. n - 1 : f2[i] = f2[h] => i = h
    <3>1. \A i, h \in 1 .. n : f[i] = f[h] => i = h
      BY <1>2
    <3> QED BY <3>1
  <2> QED BY <2>1, <2>2, <2>3 DEF Row
<1>6. Row(k2, H, m + 1, g2)
  <2>1. \A i \in 1 .. m + 1 - 1 : k2.next[g2[i]] = g2[i + 1]
    <3> TAKE i \in 1 .. m + 1 - 1
    <3>0. i \in 1 .. m /\ g2[i] = g[i] /\ g[i] # o /\ g[i] \in Obj
      BY <1>2
    <3>1. CASE i = m
      <4>1. g[i] = t /\ g2[i + 1] = o
        BY <1>1, <3>0, <3>1
      <4> QED BY <1>4, <3>0, <4>1
    <3>2. CASE i < m
      <4>1. i \in 1 .. m - 1 /\ i + 1 \in 1 .. m
        BY <3>2
      <4>2. g2[i + 1] = g[i + 1] /\ g[i] # t /\ k.next[g[i]] = g[i + 1]
        BY <1>2, <4>1
      <4> QED BY <1>4, <3>0, <4>2
    <3> QED BY <3>1, <3>2
  <2>2. k2.next[g2[m + 1]] = Nil
    BY <1>3, <1>4
  <2>3. \A i \in 1 .. m + 1 : i = m + 1 \/ (i \in 1 .. m /\ g2[i] = g[i] /\ g2[i] # o)
    <3>1. \A i \in 1 .. m : g2[i] = g[i] /\ g2[i] # o
      BY <1>2
    <3>2. \A i \in 1 .. m + 1 : i = m + 1 \/ i \in 1 .. m
      OBVIOUS
    <3> QED BY <3>1, <3>2
  <2>4. \A i, h \in 1 .. m + 1 : g2[i] = g2[h] => i = h
    BY <1>2, <2>3
  <2> QED BY <2>1, <2>2, <2>4 DEF Row
<1> QED BY <1>5, <1>6 DEF k2

(* clean_disk parks the first object.                                      *)
LEMMA KeepFirstShape ==
  ASSUME NEW k \in ListType, NEW H \in SUBSET Obj,
         NEW lost \in BOOLEAN, Shape(Nat, k, H, lost, TRUE), k.dhead # Nil
  PROVE  Shape(Nat, KeepFirst(k), H, lost, TRUE)
<1> DEFINE k2 == KeepFirst(k)
           o  == k.dhead
           q  == k.next[o]
           t  == k.tend
<1>0. Nil \notin H
  BY NilAssumption
<1>1. PICK n \in Nat, m \in Nat :
        \E f \in [1 .. n -> H], g \in [1 .. m -> H] :
          Rows(k, H, n, f, m, g) /\ (~lost => Complete(H, n, f, m, g))
  BY DEF Shape
<1>2. PICK f \in [1 .. n -> H], g \in [1 .. m -> H] :
        Rows(k, H, n, f, m, g) /\ (~lost => Complete(H, n, f, m, g))
  BY <1>1
<1>3. Linked(k, H) /\ (k.head # Nil => k.head \in H)
  BY DEF Shape
<1>4. n > 0 /\ o = f[1] /\ o \in H /\ k.end = f[n]
  BY <1>2 DEF Rows
<1>5. q # Nil => q \in H \ {o} /\ k.prev[q] = o
  BY <1>3, <1>4 DEF Linked
<1>6. /\ t = (IF m = 0 THEN Nil ELSE g[m])
      /\ t # Nil => t \in H /\ t # o /\ k.next[t] = Nil
  BY <1>0, <1>2, <1>4 DEF Rows, Row
<1>7. /\ k2.head = (IF k.head = o THEN q ELSE k.head) /\ k2.dhead = q
      /\ k2.end = k.end /\ k2.tend = o /\ k2.thead = (IF t = Nil THEN o ELSE k.thead)
      /\ \A r \in Obj : k2.next[r] = IF r = o THEN Nil ELSE IF r = t THEN o ELSE k.next[r]
      /\ \A r \in Obj : k2.prev[r] = IF r = o THEN t ELSE k.prev[r]
  BY <1>0, <1>4, KeepFirstLinks
<1> HIDE DEF k2
<1>8. Linked(k2, H)
  <2>1. \A r \in H : k2.next[r] # Nil =>
          k2.next[r] \in H \ {k2.dhead} /\ k2.prev[k2.next[r]] = r
    BY <1>0, <1>3, <1>4, <1>5, <1>6, <1>7 DEF Linked
  <2>2. \A r \in H \ {k2.dhead} : k2.prev[r] # Nil =>
          k2.prev[r] \in H /\ k2.next[k2.prev[r]] = r
    BY <1>0, <1>3, <1>4, <1>5, <1>6, <1>7 DEF Linked
  <2> QED BY <2>1, <2>2 DEF Linked
<1>9. k2.head # Nil => k2.head \in H
  BY <1>3, <1>5, <1>7
<1> DEFINE f2 == [i \in 1 .. n - 1 |-> f[i + 1]]
           g2 == [i \in 1 .. m + 1 |-> IF i = m + 1 THEN o ELSE g[i]]
<1>10. /\ n - 1 \in Nat /\ f2 \in [1 .. n - 1 -> H]
       /\ m + 1 \in Nat /\ g2 \in [1 .. m + 1 -> H]
  BY <1>4
<1>11. /\ \A i \in 1 .. n : f[i] \in H /\ f[i] \in Obj /\ f[i] # t
       /\ \A i \in 1 .. n - 1 : k.next[f[i]] = f[i + 1]
       /\ k.next[f[n]] = Nil
       /\ \A i, h \in 1 .. n : f[i] = f[h] => i = h
       /\ \A i \in 1 .. m : g[i] \in H /\ g[i] \in Obj /\ g[i] # o
       /\ \A i \in 1 .. m - 1 : k.next[g[i]] = g[i + 1] /\ g[i] # t
       /\ \A i, h \in 1 .. m : g[i] = g[h] => i = h
       /\ \A i \in 1 .. n, j \in 1 .. m : f[i] # g[j]
  BY <1>0, <1>2, <1>4, <1>6 DEF Rows, Row
<1>12. q = IF n = 1 THEN Nil ELSE f[2]
  BY <1>4, <1>11
<1>13. Row(k2, H, n - 1, f2) /\ Row(k2, H, m + 1, g2)
  <2>1. n \in Nat \ {0}
    BY <1>4
  <2>2. /\ \A i \in 1 .. n - 1 : f2[i] = f[i + 1]
        /\ g2[m + 1] = o /\ \A i \in 1 .. m : g2[i] = g[i]
    OBVIOUS
  <2> HIDE DEF f2, g2
  <2> QED BY <1>2, <1>10, <2>1, <2>2, KeepFirstRows DEF k2
<1>15. \A i \in 1 .. n - 1, j \in 1 .. m + 1 : f2[i] # g2[j]
  BY <1>4, <1>11
<1>16. k2.head = Nil \/ \E i \in 1 .. n - 1 : k2.head = f2[i]
  <2>1. k.head = Nil \/ \E i \in 1 .. n : k.head = f[i]
    BY <1>2, <1>4 DEF Rows
  <2>2. CASE k.head = Nil
    BY <1>0, <1>4, <1>7, <2>2
  <2>3. CASE k.head = o
    <3>1. k2.head = IF n = 1 THEN Nil ELSE f2[1]
      BY <1>4, <1>7, <1>12, <2>3
    <3>2. CASE n = 1
      BY <3>1, <3>2
    <3>3. CASE n # 1
      <4>1. 1 \in 1 .. n - 1 /\ k2.head = f2[1]
        BY <1>4, <3>1, <3>3
      <4> QED BY <4>1
    <3> QED BY <3>2, <3>3
  <2>4. ASSUME NEW i \in 1 .. n, k.head = f[i], k.head # o
        PROVE  \E h \in 1 .. n - 1 : k2.head = f2[h]
    <3>1. i - 1 \in 1 .. n - 1 /\ k2.head = f2[i - 1]
      BY <1>4, <1>7, <2>4
    <3> QED BY <3>1
  <2> QED BY <2>1, <2>2, <2>3, <2>4
<1>17. /\ k2.dhead = IF n - 1 = 0 THEN Nil ELSE f2[1]
       /\ n - 1 > 0 => k2.end = f2[n - 1]
  BY <1>4, <1>7, <1>12
<1>18. k2.thead = g2[1] /\ k2.tend = g2[m + 1]
  BY <1>0, <1>2, <1>6, <1>7 DEF Rows
<1>19. k2.prev[k2.thead] = Nil
  BY <1>2, <1>4, <1>6, <1>7, <1>11 DEF Rows
<1>20. ~lost => Complete(H, n - 1, f2, m + 1, g2)
  <2> SUFFICES ASSUME ~lost, NEW r \in H
               PROVE  (\E i \in 1 .. n - 1 : r = f2[i]) \/ (\E i \in 1 .. m + 1 : r = g2[i])
    BY DEF Complete
  <2>1. (\E i \in 1 .. n : r = f[i]) \/ (\E i \in 1 .. m : r = g[i])
    BY <1>2 DEF Complete
  <2>2. CASE r = o
    <3>1. m + 1 \in 1 .. m + 1 /\ r = g2[m + 1]
      BY <2>2
    <3> QED BY <3>1
  <2>3. ASSUME NEW i \in 1 .. n, r = f[i], r # o PROVE \E h \in 1 .. n - 1 : r = f2[h]
    <3>1. i - 1 \in 1 .. n - 1 /\ r = f2[i - 1]
      BY <1>4, <2>3
    <3> QED BY <3>1
  <2>4. ASSUME NEW i \in 1 .. m, r = g[i] PROVE \E h \in 1 .. m + 1 : r = g2[h]
    <3>1. i \in 1 .. m + 1 /\ r = g2[i]
      BY <2>4
    <3> QED BY <3>1
  <2> QED BY <2>1, <2>2, <2>3, <2>4
<1> HIDE DEF f2, g2
<1>21. Rows(k2, H, n - 1, f2, m + 1, g2)
  BY <1>13, <1>15, <1>16, <1>17, <1>18, <1>19 DEF Rows
<1>22. Shape(Nat, k2, H, lost, TRUE)
  BY <1>8, <1>9, <1>10, <1>20, <1>21 DEF Shape
<1> QED BY <1>22 DEF k2

(* The parked objects go back in front of the row.                         *)
LEMMA FinishCleanRow ==
  ASSUME NEW k \in ListType, NEW H \in SUBSET Obj,
         NEW n \in Nat \ {0}, NEW m \in Nat,
         NEW f \in [1 .. n -> H], NEW g \in [1 .. m -> H], Rows(k, H, n, f, m, g),
         NEW f2 \in [1 .. m + n -> H],
         \A i \in 1 .. m : f2[i] = g[i],
         \A i \in 1 .. n : f2[m + i] = f[i]
  PROVE  /\ Row(FinishClean(k), H, m + n, f2)
         /\ FinishClean(k).head = k.head /\ FinishClean(k).end = k.end
         /\ FinishClean(k).dhead = f2[1]
         /\ FinishClean(k).thead = Nil /\ FinishClean(k).tend = Nil
<1> DEFINE k2 == FinishClean(k)
           t  == k.tend
<1>0. Nil \notin H
  BY NilAssumption
<1>1. /\ \A i \in 1 .. n : f[i] \in H /\ f[i] \in Obj
      /\ \A i \in 1 .. n - 1 : k.next[f[i]] = f[i + 1]
      /\ k.next[f[n]] = Nil
      /\ \A i, h \in 1 .. n : f[i] = f[h] => i = h
      /\ \A i \in 1 .. m : g[i] \in H /\ g[i] \in Obj
      /\ \A i \in 1 .. m - 1 : k.next[g[i]] = g[i + 1]
      /\ m > 0 => k.next[g[m]] = Nil
      /\ \A i, h \in 1 .. m : g[i] = g[h] => i = h
      /\ \A i \in 1 .. n, j \in 1 .. m : f[i] # g[j]
      /\ k.dhead = f[1]
      /\ IF m = 0 THEN k.thead = Nil /\ t = Nil ELSE k.thead = g[1] /\ t = g[m]
  BY DEF Rows, Row
<1>2. k.dhead # Nil /\ (k.thead = Nil <=> m = 0) /\ (t = Nil <=> m = 0)
  BY <1>0, <1>1
<1>3. /\ k2.head = k.head /\ k2.end = k.end /\ k2.thead = Nil /\ k2.tend = Nil
      /\ k2.dhead = (IF m = 0 THEN k.dhead ELSE k.thead)
      /\ \A r \in Obj : k2.next[r] = IF r = t THEN k.dhead ELSE k.next[r]
  BY NilAssumption, <1>2 DEF FinishClean, ListType, Set, Ptr
<1> HIDE DEF k2
<1>4. \A i \in 1 .. m + n - 1 : k2.next[f2[i]] = f2[i + 1]
  <2> TAKE i \in 1 .. m + n - 1
  <2>1. CASE i < m
    <3>1. f2[i] = g[i] /\ f2[i + 1] = g[i + 1] /\ g[i] # t /\ g[i] \in Obj
      BY <1>1, <2>1
    <3>2. k.next[g[i]] = g[i + 1]
      BY <1>1, <2>1
    <3> QED BY <1>3, <3>1, <3>2
  <2>2. CASE i = m
    <3>1. f2[i] = t /\ f2[i + 1] = f[1] /\ t \in Obj
      BY <1>1, <2>2
    <3> QED BY <1>1, <1>3, <3>1
  <2>3. CASE i > m
    <3> DEFINE h == i - m
    <3>0. h \in 1 .. n - 1 /\ h \in 1 .. n /\ h + 1 \in 1 .. n
      BY <2>3
    <3> HIDE DEF h
    <3>1. f2[m + h] = f[h] /\ f2[m + (h + 1)] = f[h + 1]
      BY <3>0
    <3>2. f[h] \in H /\ f[h] \in Obj /\ k.next[f[h]] = f[h + 1]
      BY <1>1, <3>0
    <3>4. f[h] # t
      <4>1. CASE m = 0
        BY <1>0, <1>2, <3>2, <4>1
      <4>2. CASE m # 0
        <5>1. m \in 1 .. m /\ t = g[m]
          BY <1>1, <4>2
        <5>2. \A x \in 1 .. n, y \in 1 .. m : f[x] # g[y]
          BY <1>1
        <5> QED BY <3>0, <5>1, <5>2
      <4> QED BY <4>1, <4>2
    <3>3. m + h = i /\ m + (h + 1) = i + 1
      BY DEF h
    <3> QED BY <1>3, <3>1, <3>2, <3>3, <3>4, SMTT(60)
  <2> QED BY <2>1, <2>2, <2>3
<1>5. k2.next[f2[m + n]] = Nil
  <2>1. f2[m + n] = f[n] /\ f[n] # t /\ f[n] \in Obj
    BY <1>0, <1>1
  <2> QED BY <1>1, <1>3, <2>1
<1>6. \A i, h \in 1 .. m + n : f2[i] = f2[h] => i = h
  <2>1. \A i \in 1 .. m + n : i <= m => i \in 1 .. m /\ f2[i] = g[i]
    OBVIOUS
  <2>2. \A i \in 1 .. m + n : i > m => i - m \in 1 .. n /\ f2[i] = f[i - m]
    <3> TAKE i \in 1 .. m + n
    <3> SUFFICES ASSUME i > m PROVE i - m \in 1 .. n /\ f2[i] = f[i - m]
      OBVIOUS
    <3>1. i - m \in 1 .. n /\ m + (i - m) = i
      OBVIOUS
    <3> QED BY <3>1
  <2> SUFFICES ASSUME NEW i \in 1 .. m + n, NEW h \in 1 .. m + n, f2[i] = f2[h]
               PROVE  i = h
    OBVIOUS
  <2>3. CASE i <= m /\ h <= m
    BY <1>1, <2>1, <2>3
  <2>4. CASE i > m /\ h > m
    <3>1. i - m \in 1 .. n /\ h - m \in 1 .. n /\ f[i - m] = f[h - m]
      BY <2>2, <2>4
    <3>2. i - m = h - m
      BY <1>1, <3>1
    <3> QED BY <3>2
  <2>5. CASE ~(i <= m <=> h <= m)
    BY <1>1, <2>1, <2>2, <2>5
  <2> QED BY <2>3, <2>4, <2>5
<1>7. k2.dhead = f2[1]
  BY <1>1, <1>3
<1> QED BY <1>3, <1>4, <1>5, <1>6, <1>7 DEF Row, k2

(* The end of clean_disk, which may lose the list.                         *)
LEMMA FinishCleanShape ==
  ASSUME NEW k \in ListType, NEW H \in SUBSET Obj,
         NEW lost \in BOOLEAN, Shape(Nat, k, H, lost, TRUE)
  PROVE  Shape(Nat, FinishClean(k), H, lost \/ LosesList(k), FALSE)
<1> DEFINE k2 == FinishClean(k)
           lost2 == lost \/ LosesList(k)
           t  == k.tend
<1>0. Nil \notin H
  BY NilAssumption
<1>1. PICK n \in Nat, m \in Nat :
        \E f \in [1 .. n -> H], g \in [1 .. m -> H] :
          Rows(k, H, n, f, m, g) /\ (~lost => Complete(H, n, f, m, g))
  BY DEF Shape
<1>2. PICK f \in [1 .. n -> H], g \in [1 .. m -> H] :
        Rows(k, H, n, f, m, g) /\ (~lost => Complete(H, n, f, m, g))
  BY <1>1
<1>3. Linked(k, H) /\ (k.head # Nil => k.head \in H)
  BY DEF Shape
<1>4. /\ k.dhead = Nil <=> n = 0
      /\ k.thead = Nil <=> m = 0
      /\ t = Nil <=> m = 0
  BY <1>0, <1>2 DEF Rows
<1>5. /\ \A i \in 1 .. n : f[i] \in H /\ f[i] \in Obj
      /\ \A i \in 1 .. n - 1 : k.next[f[i]] = f[i + 1]
      /\ n > 0 => k.next[f[n]] = Nil
      /\ \A i, h \in 1 .. n : f[i] = f[h] => i = h
      /\ \A i \in 1 .. m : g[i] \in H /\ g[i] \in Obj
      /\ \A i \in 1 .. m - 1 : k.next[g[i]] = g[i + 1]
      /\ m > 0 => k.next[g[m]] = Nil
      /\ \A i, h \in 1 .. m : g[i] = g[h] => i = h
      /\ \A i \in 1 .. n, j \in 1 .. m : f[i] # g[j]
  BY <1>2 DEF Rows, Row
<1>6. CASE n = 0
  <2>1. /\ k2.next = k.next /\ k2.prev = k.prev /\ k2.thead = Nil /\ k2.tend = Nil
        /\ k2.dhead = Nil
        /\ k2.head = t /\ k2.end = t
    <3>1. CASE m = 0
      BY <1>4, <1>6, <3>1 DEF FinishClean, ListType
    <3>2. CASE m # 0
      <4>1. k.head = Nil
        BY <1>2, <1>6, <3>2 DEF Rows
      <4> QED BY <1>4, <1>6, <3>2, <4>1 DEF FinishClean, ListType
    <3> QED BY <3>1, <3>2
  <2>2. t # Nil => t \in H /\ k.next[t] = Nil
    BY <1>2, <1>4, <1>5 DEF Rows
  <2> HIDE DEF k2
  <2> DEFINE e == [i \in 1 .. 0 |-> Nil]
  <2>3. e \in [1 .. 0 -> H] /\ 0 \in Nat
    OBVIOUS
  <2>4. Linked(k2, H)
    BY <1>3, <1>4, <1>6, <2>1 DEF Linked
  <2>5. Rows(k2, H, 0, e, 0, e)
    BY <2>1, <2>3 DEF Rows, Row
  <2>6. Settled(k2, H, 0)
    BY <2>1, <2>2 DEF Settled
  <2>7. ~lost2 => Complete(H, 0, e, 0, e)
    <3>1. ~lost2 => m = 0
      BY <1>4, <1>6 DEF LosesList
    <3> QED BY <1>2, <1>6, <3>1 DEF Complete
  <2> HIDE DEF e, lost2
  <2>8. Shape(Nat, k2, H, lost2, FALSE)
    BY <2>1, <2>2, <2>3, <2>4, <2>5, <2>6, <2>7 DEF Shape
  <2> QED BY <2>8 DEF k2, lost2
<1>7. CASE n # 0
  <2>1. /\ k2.head = k.head /\ k2.end = k.end /\ k2.thead = Nil /\ k2.tend = Nil
        /\ k2.dhead = (IF m = 0 THEN k.dhead ELSE k.thead)
        /\ \A r \in Obj : k2.next[r] = IF r = t THEN k.dhead ELSE k.next[r]
        /\ \A r \in Obj : k2.prev[r] = IF r = k.dhead THEN t ELSE k.prev[r]
    BY NilAssumption, <1>4, <1>7 DEF FinishClean, ListType, Set, Ptr
  <2>2. /\ k.dhead = f[1] /\ k.dhead \in H /\ k.dhead \in Obj /\ k.end = f[n] /\ f[n] # t
        /\ t # Nil => t = g[m] /\ t \in H /\ k.next[t] = Nil /\ t # k.dhead
        /\ t # Nil => k.thead = g[1] /\ k.thead \in H /\ k.prev[k.thead] = Nil
                      /\ k.thead # k.dhead /\ k.thead \in Obj
    BY <1>0, <1>2, <1>4, <1>5, <1>7 DEF Rows
  <2> HIDE DEF k2
  <2>3. Linked(k2, H)
    <3>1. \A r \in H : k2.next[r] # Nil =>
            k2.next[r] \in H \ {k2.dhead} /\ k2.prev[k2.next[r]] = r
      BY <1>0, <1>3, <1>4, <2>1, <2>2 DEF Linked
    <3>2. \A r \in H \ {k2.dhead} : k2.prev[r] # Nil =>
            k2.prev[r] \in H /\ k2.next[k2.prev[r]] = r
      BY <1>0, <1>3, <1>4, <2>1, <2>2 DEF Linked
    <3> QED BY <3>1, <3>2 DEF Linked
  <2> DEFINE e == [i \in 1 .. 0 |-> Nil]
             f2 == [i \in 1 .. m + n |-> IF i <= m THEN g[i] ELSE f[i - m]]
  <2>4. /\ e \in [1 .. 0 -> H] /\ 0 \in Nat
        /\ m + n \in Nat /\ f2 \in [1 .. m + n -> H]
    BY <1>5
  <2>5. Row(k2, H, m + n, f2)
    <3>1. n \in Nat \ {0}
      BY <1>7
    <3>2. /\ \A i \in 1 .. m : f2[i] = g[i]
          /\ \A i \in 1 .. n : f2[m + i] = f[i]
      OBVIOUS
    <3> HIDE DEF f2
    <3> QED BY <1>2, <2>4, <3>1, <3>2, FinishCleanRow DEF k2
  <2>6. k2.head # Nil => k2.head \in H
    BY <1>3, <2>1
  <2>7. k2.dhead = f2[1] /\ k2.end = f2[m + n] /\ m + n > 0
    BY <1>4, <1>7, <2>1, <2>2
  <2>8. k2.head = Nil \/ \E i \in 1 .. m + n : k2.head = f2[i]
    <3>1. k.head = Nil \/ \E i \in 1 .. n : k.head = f[i]
      BY <1>2, <1>7 DEF Rows
    <3>2. ASSUME NEW i \in 1 .. n, k.head = f[i] PROVE \E h \in 1 .. m + n : k2.head = f2[h]
      <4>1. i + m \in 1 .. m + n /\ k2.head = f2[i + m]
        BY <2>1, <3>2
      <4> QED BY <4>1
    <3> QED BY <2>1, <3>1, <3>2
  <2>9. Settled(k2, H, 0)
    <3>1. k2.prev[k2.dhead] = Nil
      BY <1>4, <2>1, <2>2
    <3>2. k2.end \in H /\ k2.next[k2.end] = Nil
      BY <1>5, <1>7, <2>1, <2>2
    <3> QED BY <3>1, <3>2 DEF Settled
  <2>10. ~lost2 => Complete(H, m + n, f2, 0, e)
    <3> SUFFICES ASSUME ~lost2, NEW r \in H PROVE \E i \in 1 .. m + n : r = f2[i]
      BY DEF Complete
    <3>1. (\E i \in 1 .. n : r = f[i]) \/ (\E i \in 1 .. m : r = g[i])
      BY <1>2 DEF Complete
    <3>2. ASSUME NEW i \in 1 .. n, r = f[i] PROVE \E h \in 1 .. m + n : r = f2[h]
      <4>1. i + m \in 1 .. m + n /\ r = f2[i + m]
        BY <3>2
      <4> QED BY <4>1
    <3>3. ASSUME NEW i \in 1 .. m, r = g[i] PROVE \E h \in 1 .. m + n : r = f2[h]
      <4>1. i \in 1 .. m + n /\ r = f2[i]
        BY <3>3
      <4> QED BY <4>1
    <3> QED BY <3>1, <3>2, <3>3
  <2> HIDE DEF f2, e, lost2
  <2>11. Row(k2, H, 0, e)
    BY <2>4 DEF Row
  <2>12. Rows(k2, H, m + n, f2, 0, e)
    BY <2>1, <2>4, <2>5, <2>7, <2>8, <2>11 DEF Rows
  <2>13. Shape(Nat, k2, H, lost2, FALSE)
    BY <2>3, <2>4, <2>6, <2>9, <2>10, <2>12 DEF Shape
  <2> QED BY <2>13 DEF k2, lost2
<1> QED BY <1>6, <1>7

-----------------------------------------------------------------------------
(* The order of the objects in the list.                                   *)

(* A set of numbers that is not empty has a least one.                     *)
LEMMA LeastNumber ==
  ASSUME NEW D \in SUBSET Nat, D # {}
  PROVE  \E i \in D : \A j \in D : i <= j
<1> DEFINE T == {0 .. i : i \in D}
<1>1. IsWellFoundedOn(StrictSubsetOrdering(Nat), FiniteSubsetsOf(Nat))
  BY FS_StrictSubsetOrderingWellFounded
<1>2. T \subseteq FiniteSubsetsOf(Nat) /\ T # {}
  <2>1. \A i \in D : 0 .. i \in SUBSET Nat /\ IsFiniteSet(0 .. i)
    BY FS_Interval
  <2> QED BY <2>1 DEF FiniteSubsetsOf
<1>3. \E x \in T : \A y \in T : <<y, x>> \notin StrictSubsetOrdering(Nat)
  <2> HIDE DEF T
  <2> QED BY <1>1, <1>2, WFMin
<1>4. PICK i \in D : \A j \in D : <<0 .. j, 0 .. i>> \notin StrictSubsetOrdering(Nat)
  BY <1>3
<1>5. ASSUME NEW j \in D, j < i PROVE FALSE
  <2>1. 0 .. j \in SUBSET Nat /\ 0 .. i \in SUBSET Nat /\ 0 .. j \subseteq 0 .. i
    BY <1>5
  <2>2. i \in 0 .. i /\ i \notin 0 .. j
    BY <1>5
  <2>3. <<0 .. j, 0 .. i>> \in StrictSubsetOrdering(Nat)
    BY <2>1, <2>2 DEF StrictSubsetOrdering
  <2> QED BY <1>4, <2>3
<1> QED BY <1>5

(* A row of different objects is not longer than there are objects.        *)
LEMMA RowLength ==
  ASSUME NEW k, NEW H \in SUBSET Obj, IsFiniteSet(Obj),
         NEW n \in Nat, NEW f, Row(k, H, n, f)
  PROVE  n <= Cardinality(Obj)
<1>1. f \in Injection(1 .. n, Obj)
  BY DEF Row, Injection, IsInjective
<1>2. Cardinality(1 .. n) = n
  BY FS_Interval
<1> QED BY <1>1, <1>2, FS_Injection

(* The walk from the first object of a row passes through the row and then *)
(* stays at NULL.                                                          *)
LEMMA WalkOfRow ==
  ASSUME NEW k \in ListType, NEW H \in SUBSET Obj, IsFiniteSet(Obj),
         NEW n \in Nat, NEW f, Row(k, H, n, f),
         NEW p, p = IF n = 0 THEN Nil ELSE f[1]
  PROVE  /\ {i \in DOMAIN Walk(k, p) : Walk(k, p)[i] # Nil} = 1 .. n
         /\ \A i \in 1 .. n : Walk(k, p)[i] = f[i]
<1> DEFINE N == Cardinality(Obj) + 1
           walk(at) == [i \in 1 .. N |-> IF i = 1 THEN p
                                         ELSE IF at[i - 1] = Nil THEN Nil ELSE k.next[at[i - 1]]]
           row == [i \in 1 .. N |-> IF i <= n THEN f[i] ELSE Nil]
           at == Walk(k, p)
<1>1. N \in Nat /\ n < N
  BY FS_CardinalityType, RowLength
<1>2. /\ \A i \in 1 .. n : f[i] \in Obj /\ f[i] # Nil
      /\ \A i \in 1 .. n - 1 : k.next[f[i]] = f[i + 1]
      /\ n > 0 => k.next[f[n]] = Nil
  BY NilAssumption DEF Row
<1>3. row = walk(row)
  <2> SUFFICES ASSUME NEW i \in 1 .. N PROVE row[i] = walk(row)[i]
    OBVIOUS
  <2>1. CASE i = 1
    BY <1>1, <2>1
  <2>2. CASE i # 1 /\ i - 1 < n
    <3>1. row[i - 1] = f[i - 1] /\ row[i] = f[i] /\ k.next[f[i - 1]] = f[i]
      BY <1>1, <1>2, <2>2
    <3> QED BY <1>1, <1>2, <2>2, <3>1
  <2>3. CASE i # 1 /\ i - 1 >= n
    <3>1. row[i] = Nil /\ row[i - 1] = IF i - 1 = n THEN f[n] ELSE Nil
      BY <1>1, <2>3
    <3> QED BY <1>1, <1>2, <2>3, <3>1
  <2> QED BY <1>1, <2>1, <2>2, <2>3
<1>4. at = CHOOSE a : a = walk(a)
  BY DEF Walk
<1>5. at = walk(at)
  <2> HIDE DEF walk, at, row
  <2> QED BY <1>3, <1>4
<1>6. \A i \in 1 .. N : at[i] = row[i]
  <2> SUFFICES ASSUME {i \in 1 .. N : at[i] # row[i]} # {} PROVE FALSE
    OBVIOUS
  <2>1. PICK i \in 1 .. N : /\ at[i] # row[i]
                            /\ \A j \in 1 .. N : at[j] # row[j] => i <= j
    <3> DEFINE D == {i \in 1 .. N : at[i] # row[i]}
    <3>1. D \in SUBSET Nat /\ D # {}
      BY <1>1
    <3>2. \E i \in D : \A j \in D : i <= j
      <4> HIDE DEF D
      <4> QED BY <3>1, LeastNumber
    <3> QED BY <3>2
  <2>2. at[i] = walk(at)[i] /\ row[i] = walk(row)[i]
    BY <1>3, <1>5
  <2>3. i # 1 => at[i - 1] = row[i - 1]
    BY <1>1, <2>1
  <2> HIDE DEF at, row
  <2> QED BY <1>1, <2>1, <2>2, <2>3
<1>7. DOMAIN at = 1 .. N
  <2> HIDE DEF at
  <2> QED BY <1>5
<1>8. \A i \in 1 .. N : at[i] = IF i <= n THEN f[i] ELSE Nil
  BY <1>6
<1> HIDE DEF at, row
<1> QED BY <1>1, <1>2, <1>7, <1>8 DEF at

(* The chain from the first object of a row is the row.                    *)
LEMMA ChainOfRow ==
  ASSUME NEW k \in ListType, NEW H \in SUBSET Obj, IsFiniteSet(Obj),
         NEW n \in Nat, NEW f, Row(k, H, n, f),
         NEW p, p = IF n = 0 THEN Nil ELSE f[1]
  PROVE  Chain(k, p) = f
<1> DEFINE at == Walk(k, p)
<1>1. {i \in DOMAIN at : at[i] # Nil} = 1 .. n /\ \A i \in 1 .. n : at[i] = f[i]
  BY WalkOfRow
<1>2. Cardinality(1 .. n) = n
  BY FS_Interval
<1>3. Chain(k, p) = [i \in 1 .. n |-> at[i]]
  BY <1>1, <1>2 DEF Chain
<1>4. f = [i \in 1 .. n |-> f[i]]
  BY DEF Row
<1> HIDE DEF at
<1> QED BY <1>1, <1>3, <1>4

(* Between two passes of clean_disk the list is its row.                   *)
LEMMA OrderOfRow ==
  ASSUME IsFiniteSet(Obj), NEW k \in ListType, NEW H \in SUBSET Obj,
         NEW n \in Nat, NEW f \in [1 .. n -> H], Row(k, H, n, f),
         k.dhead = IF n = 0 THEN Nil ELSE f[1], k.thead = Nil
  PROVE  Order(k) = f /\ f \in Seq(H) /\ Len(f) = n
<1> DEFINE e == << >>
<1>1. e \in [1 .. 0 -> H] /\ Row(k, H, 0, e)
  BY DEF Row
<1>2. Chain(k, k.thead) = e
  <2> HIDE DEF e
  <2>1. k.thead = IF 0 = 0 THEN Nil ELSE e[1]
    OBVIOUS
  <2> QED BY <1>1, <2>1, ChainOfRow
<1>3. Chain(k, k.dhead) = f
  BY ChainOfRow
<1>4. f \in Seq(H) /\ Len(f) = n
  OBVIOUS
<1> QED BY <1>2, <1>3, <1>4 DEF Order

(* f is the row of a settled list that is not lost: it holds every cached  *)
(* object, and the globals point to its ends.                              *)
SettledRow(k, H, n, f) ==
  /\ Order(k) = f /\ f \in Seq(H) /\ Len(f) = n
  /\ Row(k, H, n, f) /\ Linked(k, H)
  /\ \A p \in H : \E i \in 1 .. n : p = f[i]
  /\ k.thead = Nil
  /\ k.dhead = IF n = 0 THEN Nil ELSE f[1]
  /\ k.end = IF n = 0 THEN Nil ELSE f[n]
  /\ k.dhead # Nil => k.prev[k.dhead] = Nil
  /\ k.head # Nil => k.head \in H

(* A settled list that is not lost has such a row.                         *)
LEMMA SettledOrder ==
  ASSUME IsFiniteSet(Obj), NEW k \in ListType, NEW H \in SUBSET Obj,
         Shape(Nat, k, H, FALSE, FALSE)
  PROVE  \E n \in Nat : \E f \in [1 .. n -> H] : SettledRow(k, H, n, f)
<1>1. PICK n \in Nat, m \in Nat :
        \E f \in [1 .. n -> H], g \in [1 .. m -> H] :
          Rows(k, H, n, f, m, g) /\ Complete(H, n, f, m, g) /\ Settled(k, H, m)
  BY DEF Shape
<1>2. PICK f \in [1 .. n -> H], g \in [1 .. m -> H] :
        Rows(k, H, n, f, m, g) /\ Complete(H, n, f, m, g) /\ Settled(k, H, m)
  BY <1>1
<1>3. m = 0
  BY <1>2 DEF Settled
<1>4. /\ Row(k, H, n, f) /\ k.dhead = (IF n = 0 THEN Nil ELSE f[1]) /\ k.thead = Nil
      /\ \A p \in H : \E i \in 1 .. n : p = f[i]
  BY <1>2, <1>3 DEF Rows, Complete
<1>5. Order(k) = f /\ f \in Seq(H) /\ Len(f) = n
  BY <1>4, OrderOfRow
<1>6. k.end = IF n = 0 THEN Nil ELSE f[n]
  <2>1. CASE n = 0
    BY <1>2, <1>4, <2>1 DEF Settled
  <2>2. CASE n # 0
    BY <1>2, <2>2 DEF Rows
  <2> QED BY <2>1, <2>2
<1>7. Linked(k, H) /\ (k.head # Nil => k.head \in H) /\ (k.dhead # Nil => k.prev[k.dhead] = Nil)
  BY <1>2 DEF Shape, Settled
<1> QED BY <1>4, <1>5, <1>6, <1>7 DEF SettledRow

(* add_list appends.                                                       *)
LEMMA AddListOrder ==
  ASSUME IsFiniteSet(Obj), NEW k \in ListType, NEW H \in SUBSET Obj, NEW o \in Obj \ H,
         Shape(Nat, k, H, FALSE, FALSE)
  PROVE  /\ Order(k) \in Seq(H)
         /\ Order(add_list(k, o)) = Append(Order(k), o)
         /\ add_list(k, o).head = IF Order(k) = << >> THEN o ELSE k.head
<1> DEFINE k2 == add_list(k, o)
<1>a. PICK n \in Nat : \E f \in [1 .. n -> H] : SettledRow(k, H, n, f)
  BY SettledOrder
<1>b. PICK f \in [1 .. n -> H] : SettledRow(k, H, n, f)
  BY <1>a
<1>1. /\ Order(k) = f /\ f \in Seq(H) /\ Len(f) = n
      /\ Row(k, H, n, f) /\ k.thead = Nil
      /\ k.dhead = IF n = 0 THEN Nil ELSE f[1]
      /\ k.end = IF n = 0 THEN Nil ELSE f[n]
  BY <1>b DEF SettledRow
<1>2. k2 \in ListType
  BY AddListType
<1> DEFINE f2 == [i \in 1 .. n + 1 |-> IF i = n + 1 THEN o ELSE f[i]]
<1>3. /\ f2 \in [1 .. n + 1 -> H \cup {o}] /\ f2[n + 1] = o
      /\ \A i \in 1 .. n : f2[i] = f[i]
  OBVIOUS
<1>7. f2 = Append(f, o)
  <2>1. f \in Seq(Obj)
    BY <1>1
  <2>2. /\ Append(f, o) \in Seq(Obj) /\ Len(Append(f, o)) = n + 1
        /\ \A i \in 1 .. n : Append(f, o)[i] = f[i]
        /\ Append(f, o)[n + 1] = o
    BY <1>1, <2>1, AppendProperties
  <2>3. f2 \in Seq(Obj) /\ Len(f2) = n + 1
    BY <1>3
  <2>4. \A i \in 1 .. n + 1 : f2[i] = Append(f, o)[i]
    BY <2>2
  <2> HIDE DEF f2
  <2> QED BY <2>2, <2>3, <2>4, SeqEqual
<1>4. /\ Row(k2, H \cup {o}, n + 1, f2) /\ k2.dhead = f2[1] /\ k2.thead = Nil
      /\ k2.head = IF n = 0 THEN o ELSE k.head
  <2>1. CASE n = 0
    <3>1. k2 = [k EXCEPT !.next[o] = Nil, !.prev[o] = Nil, !.end = o, !.head = o, !.dhead = o]
      BY <1>1, <2>1 DEF add_list
    <3>2. /\ k2.next[o] = Nil /\ k2.dhead = o /\ k2.thead = Nil /\ k2.head = o
      BY <1>1, <3>1 DEF ListType
    <3> HIDE DEF k2, f2
    <3>3. Row(k2, H \cup {o}, n + 1, f2)
      BY <1>3, <2>1, <3>2 DEF Row
    <3> QED BY <1>3, <2>1, <3>2, <3>3
  <2>2. CASE n # 0
    <3>1. f[n] \in H /\ k.end # Nil /\ n \in Nat \ {0}
      BY <1>1, <2>2, NilAssumption
    <3>2. k2.head = k.head /\ k2.dhead = k.dhead /\ k2.thead = k.thead
      BY <3>1, AddListLinks
    <3>3. Row(k2, H \cup {o}, n + 1, f2)
      <4>1. k.end = f[n]
        BY <1>1, <2>2
      <4> HIDE DEF f2
      <4> QED BY <1>1, <1>3, <3>1, <4>1, AddListRow DEF k2
    <3> HIDE DEF k2, f2
    <3> QED BY <1>1, <1>3, <2>2, <3>2, <3>3
  <2> QED BY <2>1, <2>2
<1>5. Order(k2) = f2
  <2>1. H \cup {o} \in SUBSET Obj /\ n + 1 \in Nat
        /\ k2.dhead = IF n + 1 = 0 THEN Nil ELSE f2[1]
    BY <1>4
  <2> HIDE DEF k2, f2
  <2> QED BY <1>2, <1>3, <1>4, <2>1, OrderOfRow
<1>6. f = << >> <=> n = 0
  BY <1>1
<1> HIDE DEF k2, f2
<1> QED BY <1>1, <1>4, <1>5, <1>6, <1>7 DEF k2

(* update_list moves the object to the end, and the mark off the object.   *)
LEMMA UpdateListOrder ==
  ASSUME IsFiniteSet(Obj), NEW k \in ListType, NEW H \in SUBSET Obj, NEW o \in H,
         Shape(Nat, k, H, FALSE, FALSE)
  PROVE  LET s  == Order(k)
             k2 == update_list(k, o)
             s2 == Order(k2)
         IN /\ s \in Seq(H) /\ s2 \in Seq(H) /\ Len(s2) = Len(s)
            /\ \E j \in 1 .. Len(s) :
                 /\ s[j] = o
                 /\ \A i \in 1 .. Len(s) :
                      s2[i] = IF i < j THEN s[i] ELSE IF i < Len(s) THEN s[i + 1] ELSE o
                 /\ k2.head = IF o = k.head /\ j # Len(s) THEN s[j + 1] ELSE k.head
<1> DEFINE k2 == update_list(k, o)
<1>a. PICK n \in Nat : \E f \in [1 .. n -> H] : SettledRow(k, H, n, f)
  BY SettledOrder
<1>b. PICK f \in [1 .. n -> H] : SettledRow(k, H, n, f)
  BY <1>a
<1>1. /\ Order(k) = f /\ f \in Seq(H) /\ Len(f) = n
      /\ Row(k, H, n, f) /\ Linked(k, H)
      /\ \A p \in H : \E i \in 1 .. n : p = f[i]
      /\ k.thead = Nil
      /\ k.dhead = IF n = 0 THEN Nil ELSE f[1]
      /\ k.end = IF n = 0 THEN Nil ELSE f[n]
      /\ k.dhead # Nil => k.prev[k.dhead] = Nil
  BY <1>b DEF SettledRow
<1>2. k2 \in ListType
  BY UpdateListType
<1>3. PICK j \in 1 .. n : o = f[j]
  BY <1>1
<1>4. k.dhead = f[1] /\ k.end = f[n] /\ k.end # Nil /\ k.dhead # Nil
  BY <1>1, <1>3, NilAssumption
<1>5. CASE j = n
  <2>1. k2 = k
    BY <1>3, <1>4, <1>5 DEF update_list
  <2>2. \A i \in 1 .. n : f[i] = IF i < j THEN f[i] ELSE IF i < n THEN f[i + 1] ELSE o
    BY <1>3, <1>5
  <2> HIDE DEF k2
  <2> QED BY <1>1, <1>3, <1>5, <2>1, <2>2 DEF k2
<1>6. CASE j # n
  <2> DEFINE f2 == [i \in 1 .. n |-> IF i < j THEN f[i] ELSE IF i < n THEN f[i + 1] ELSE o]
  <2>1. /\ j \in 1 .. n - 1 /\ f2 \in [1 .. n -> H] /\ f2[n] = o
        /\ \A i \in 1 .. j - 1 : f2[i] = f[i]
        /\ \A i \in j .. n - 1 : f2[i] = f[i + 1]
    BY <1>6
  <2>2. k.prev[k.dhead] = Nil
    BY <1>1, <1>4
  <2>3. Row(k2, H, n, f2)
    <3> HIDE DEF f2
    <3>1. Row(k, H, n, f) /\ Linked(k, H) /\ k.dhead = f[1] /\ k.end = f[n]
      BY <1>1, <1>4
    <3>2. k2 = update_list(k, o)
      BY DEF k2
    <3> QED
      BY ONLY k \in ListType, H \in SUBSET Obj, n \in Nat, f \in [1 .. n -> H],
              <1>3, <2>1, <2>2, <3>1, <3>2, UpdateListRow
  <2>4. k.next[o] = f[j + 1] /\ f[j + 1] # o /\ o # k.end /\ f[j + 1] \in H
    BY <1>1, <1>3, <1>4, <2>1 DEF Row
  <2>5. /\ k2.head = (IF o = k.head THEN f[j + 1] ELSE k.head)
        /\ k2.dhead = (IF o = k.dhead THEN f[j + 1] ELSE k.dhead)
        /\ k2.thead = Nil
    BY <1>1, <1>4, <2>4, UpdateListLinks
  <2>6. k2.dhead = f2[1]
    <3>1. CASE j = 1
      BY <1>3, <1>4, <2>1, <2>5, <3>1
    <3>2. CASE j # 1
      <4>1. o # f[1]
        BY <1>1, <1>3, <3>2 DEF Row
      <4>2. f2[1] = f[1]
        BY <2>1, <3>2
      <4> QED BY <1>4, <2>5, <4>1, <4>2
    <3> QED BY <3>1, <3>2
  <2>7. Order(k2) = f2 /\ f2 \in Seq(H) /\ Len(f2) = n
    <3>1. k2.dhead = IF n = 0 THEN Nil ELSE f2[1]
      BY <1>3, <2>6
    <3> HIDE DEF k2, f2
    <3> QED BY <1>2, <2>1, <2>3, <2>5, <3>1, OrderOfRow
  <2>8. \A i \in 1 .. n : f2[i] = IF i < j THEN f[i] ELSE IF i < n THEN f[i + 1] ELSE o
    OBVIOUS
  <2> HIDE DEF k2, f2
  <2> QED BY <1>1, <1>3, <1>6, <2>5, <2>7, <2>8, ZenonT(60) DEF k2
<1> QED BY <1>5, <1>6

(* k2 is k with the object at place j moved to the front of the order s;   *)
(* the mark goes from it to a neighbour.                                   *)
MovedFirst(k, k2, s, j) ==
  /\ Len(Order(k2)) = Len(s)
  /\ \A i \in 1 .. Len(s) :
       Order(k2)[i] = IF i = 1 THEN s[j] ELSE IF i <= j THEN s[i - 1] ELSE s[i]
  /\ k2.head = IF s[j] # k.head \/ j = 1 THEN k.head
               ELSE IF j = Len(s) THEN s[j - 1] ELSE s[j + 1]

(* dead_list does that.                                                    *)
LEMMA DeadListOrder ==
  ASSUME IsFiniteSet(Obj), NEW k \in ListType, NEW H \in SUBSET Obj, NEW o \in H,
         Shape(Nat, k, H, FALSE, FALSE)
  PROVE  /\ Order(k) \in Seq(H) /\ Order(dead_list(k, o)) \in Seq(H)
         /\ \E j \in 1 .. Len(Order(k)) :
              Order(k)[j] = o /\ MovedFirst(k, dead_list(k, o), Order(k), j)
<1> DEFINE k2 == dead_list(k, o)
<1>a. PICK n \in Nat : \E f \in [1 .. n -> H] : SettledRow(k, H, n, f)
  BY SettledOrder
<1>b. PICK f \in [1 .. n -> H] : SettledRow(k, H, n, f)
  BY <1>a
<1>1. /\ Order(k) = f /\ f \in Seq(H) /\ Len(f) = n
      /\ Row(k, H, n, f) /\ Linked(k, H)
      /\ \A p \in H : \E i \in 1 .. n : p = f[i]
      /\ k.thead = Nil
      /\ k.dhead = IF n = 0 THEN Nil ELSE f[1]
      /\ k.end = IF n = 0 THEN Nil ELSE f[n]
      /\ k.dhead # Nil => k.prev[k.dhead] = Nil
  BY <1>b DEF SettledRow
<1>2. k2 \in ListType
  BY DeadListType
<1>3. PICK j \in 1 .. n : o = f[j]
  BY <1>1
<1>4. k.dhead = f[1] /\ k.end = f[n]
  BY <1>1, <1>3
<1>5. CASE j = 1
  <2>1. k2 = k
    BY <1>3, <1>4, <1>5 DEF dead_list
  <2>2. \A i \in 1 .. n : f[i] = IF i = 1 THEN o ELSE IF i <= j THEN f[i - 1] ELSE f[i]
    BY <1>3, <1>5
  <2> HIDE DEF k2
  <2>3. MovedFirst(k, k2, f, j)
    BY <1>1, <1>3, <1>5, <2>1, <2>2 DEF MovedFirst
  <2> QED BY <1>1, <1>3, <2>1, <2>3 DEF k2
<1>6. CASE j # 1
  <2> DEFINE f2 == [i \in 1 .. n |-> IF i = 1 THEN o ELSE IF i <= j THEN f[i - 1] ELSE f[i]]
  <2>1. /\ j \in 2 .. n /\ f2 \in [1 .. n -> H] /\ f2[1] = o
        /\ \A i \in 2 .. j : f2[i] = f[i - 1]
        /\ \A i \in j + 1 .. n : f2[i] = f[i]
    BY <1>3, <1>6
  <2>2. Row(k2, H, n, f2)
    <3> HIDE DEF f2
    <3>1. Row(k, H, n, f) /\ Linked(k, H) /\ k.dhead = f[1]
      BY <1>1, <1>4
    <3>2. k2 = dead_list(k, o)
      BY DEF k2
    <3> QED
      BY ONLY k \in ListType, H \in SUBSET Obj, n \in Nat, f \in [1 .. n -> H],
              <1>3, <2>1, <3>1, <3>2, DeadListRow
  <2>3. /\ o # k.dhead /\ (o = k.end <=> j = n)
        /\ j # n => k.next[o] = f[j + 1]
        /\ k.prev[o] = f[j - 1]
    <3>1. \A i, h \in 1 .. n : f[i] = f[h] => i = h
      BY <1>1 DEF Row
    <3>2. o # k.dhead /\ (o = k.end <=> j = n)
      BY <1>3, <1>4, <1>6, <3>1
    <3>3. j # n => k.next[o] = f[j + 1]
      BY <1>1, <1>3 DEF Row
    <3>4. k.next[f[j - 1]] = o /\ f[j - 1] \in H /\ o # Nil
      BY <1>1, <1>3, <2>1, NilAssumption DEF Row
    <3> QED BY <1>1, <3>2, <3>3, <3>4 DEF Linked
  <2>4. /\ k2.head = (IF o = k.head THEN IF o = k.end THEN k.prev[o] ELSE k.next[o]
                      ELSE k.head)
        /\ k2.dhead = o /\ k2.thead = k.thead
    BY <2>3, DeadListLinks
  <2>5. Order(k2) = f2 /\ f2 \in Seq(H) /\ Len(f2) = n
    <3>1. k2.dhead = (IF n = 0 THEN Nil ELSE f2[1]) /\ k2.thead = Nil
      BY <1>1, <1>3, <2>1, <2>4
    <3> HIDE DEF k2, f2
    <3> QED BY <1>2, <2>1, <2>2, <3>1, OrderOfRow
  <2>6. \A i \in 1 .. n : f2[i] = IF i = 1 THEN o ELSE IF i <= j THEN f[i - 1] ELSE f[i]
    OBVIOUS
  <2>7. k2.head = IF o # k.head \/ j = 1 THEN k.head
                  ELSE IF j = n THEN f[j - 1] ELSE f[j + 1]
    BY <1>6, <2>3, <2>4
  <2>8. Order(k) = f /\ f \in Seq(H) /\ Len(f) = n /\ f[j] = o
    BY <1>1, <1>3
  <2> HIDE DEF k2, f2
  <2>9. MovedFirst(k, k2, f, j)
    BY <2>5, <2>6, <2>7, <2>8 DEF MovedFirst
  <2> QED BY <1>3, <2>5, <2>8, <2>9 DEF k2
<1> QED BY <1>5, <1>6

(* Two rows, one after the other.                                          *)
LEMMA ConcatRows ==
  ASSUME NEW H, NEW n \in Nat, NEW f \in [1 .. n -> H],
         NEW m \in Nat, NEW g \in [1 .. m -> H]
  PROVE  /\ g \o f \in Seq(H) /\ Len(g \o f) = m + n
         /\ \A i \in 1 .. m : (g \o f)[i] = g[i]
         /\ \A i \in 1 .. n : (g \o f)[m + i] = f[i]
<1>1. /\ f \in Seq(H) /\ Len(f) = n
      /\ g \in Seq(H) /\ Len(g) = m
  OBVIOUS
<1>2. /\ g \o f \in Seq(H) /\ Len(g \o f) = m + n
      /\ \A i \in 1 .. m + n : (g \o f)[i] = IF i <= m THEN g[i] ELSE f[i - m]
  BY <1>1, ConcatProperties
<1>3. \A i \in 1 .. m : (g \o f)[i] = g[i]
  BY <1>2
<1>4. \A i \in 1 .. n : (g \o f)[m + i] = f[i]
  <2> TAKE i \in 1 .. n
  <2> DEFINE h == m + i
  <2>1. h \in 1 .. m + n /\ ~(h <= m) /\ h - m = i
    OBVIOUS
  <2> HIDE DEF h
  <2>2. (g \o f)[h] = f[i]
    BY <1>2, <2>1
  <2> QED BY <2>2 DEF h
<1> QED BY <1>2, <1>3, <1>4

(* s is the row g with the row f behind it.                                *)
Joined(s, H, n, f, m, g) ==
  /\ s \in Seq(H) /\ Len(s) = m + n
  /\ \A i \in 1 .. m : s[i] = g[i]
  /\ \A i \in 1 .. n : s[m + i] = f[i]

LEMMA RowsJoined ==
  ASSUME NEW H, NEW n \in Nat, NEW f \in [1 .. n -> H],
         NEW m \in Nat, NEW g \in [1 .. m -> H]
  PROVE  Joined(g \o f, H, n, f, m, g)
BY ConcatRows DEF Joined

(* What is known of the two rows while clean_disk runs.                    *)
CleaningRows(k, H, n, f, m, g) ==
  /\ Rows(k, H, n, f, m, g) /\ Complete(H, n, f, m, g)
  /\ Order(k) \in Seq(H) /\ Len(Order(k)) = m + n
  /\ \A i \in 1 .. m : Order(k)[i] = g[i]
  /\ \A i \in 1 .. n : Order(k)[m + i] = f[i]

(* A list that is not lost has such rows.                                  *)
LEMMA CleaningOrder ==
  ASSUME IsFiniteSet(Obj), NEW k \in ListType, NEW H \in SUBSET Obj,
         NEW cleaning \in BOOLEAN, Shape(Nat, k, H, FALSE, cleaning)
  PROVE  \E n, m \in Nat : \E f \in [1 .. n -> H], g \in [1 .. m -> H] :
           CleaningRows(k, H, n, f, m, g)
<1>1. PICK n \in Nat, m \in Nat :
        \E f \in [1 .. n -> H], g \in [1 .. m -> H] :
          Rows(k, H, n, f, m, g) /\ Complete(H, n, f, m, g)
  BY DEF Shape
<1>2. PICK f \in [1 .. n -> H], g \in [1 .. m -> H] :
        Rows(k, H, n, f, m, g) /\ Complete(H, n, f, m, g)
  BY <1>1
<1>3. /\ Row(k, H, n, f) /\ k.dhead = IF n = 0 THEN Nil ELSE f[1]
      /\ Row(k, H, m, g) /\ k.thead = IF m = 0 THEN Nil ELSE g[1]
  BY <1>2 DEF Rows
<1>4. Chain(k, k.dhead) = f /\ Chain(k, k.thead) = g
  BY <1>3, ChainOfRow
<1>5. Order(k) = g \o f
  BY <1>4 DEF Order
<1>6. g \o f \in Seq(H) /\ Len(g \o f) = m + n
  BY ConcatRows
<1>7. \A i \in 1 .. m : (g \o f)[i] = g[i]
  BY ConcatRows
<1>8. \A i \in 1 .. n : (g \o f)[m + i] = f[i]
  BY ConcatRows
<1>9. CleaningRows(k, H, n, f, m, g)
  BY <1>2, <1>5, <1>6, <1>7, <1>8 DEF CleaningRows
<1> QED BY <1>9

(* The order does not depend on where the mark is.                         *)
LEMMA OrderIgnoresHead ==
  ASSUME NEW k \in ListType, NEW p
  PROVE  Order([k EXCEPT !.head = p]) = Order(k)
<1> DEFINE k2 == [k EXCEPT !.head = p]
<1>1. k2.next = k.next /\ k2.thead = k.thead /\ k2.dhead = k.dhead
  BY DEF ListType
<1> HIDE DEF k2
<1>2. Walk(k2, k.thead) = Walk(k, k.thead) /\ Walk(k2, k.dhead) = Walk(k, k.dhead)
  BY <1>1 DEF Walk
<1>3. Order(k2) = Order(k)
  BY <1>1, <1>2 DEF Order, Chain
<1> QED BY <1>3 DEF k2

(* The successor of an object of the row, as the row says it.              *)
LEMMA AdvanceHeadOrder ==
  ASSUME IsFiniteSet(Obj), NEW k \in ListType, NEW H \in SUBSET Obj,
         Shape(Nat, k, H, FALSE, FALSE), k.head # Nil
  PROVE  /\ Order(AdvanceHead(k)) = Order(k)
         /\ \E j \in 1 .. Len(Order(k)) :
              /\ Order(k)[j] = k.head
              /\ AdvanceHead(k).head = IF j = Len(Order(k)) THEN Nil ELSE Order(k)[j + 1]
<1>1. PICK n \in Nat : \E f \in [1 .. n -> H] : SettledRow(k, H, n, f)
  BY SettledOrder
<1>2. PICK f \in [1 .. n -> H] : SettledRow(k, H, n, f)
  BY <1>1
<1>3. PICK j \in 1 .. n : k.head = f[j]
  BY <1>2 DEF SettledRow
<1>4. k.next[k.head] = IF j = n THEN Nil ELSE f[j + 1]
  BY <1>2, <1>3 DEF SettledRow, Row
<1>5. AdvanceHead(k).head = k.next[k.head]
  BY DEF AdvanceHead, ListType
<1>6. Order(AdvanceHead(k)) = Order(k)
  BY OrderIgnoresHead DEF AdvanceHead
<1>7. Order(k) = f /\ Len(f) = n
  BY <1>2 DEF SettledRow
<1> QED BY <1>3, <1>4, <1>5, <1>6, <1>7

(* A start from the index puts the mark on the newest object.              *)
LEMMA HeadToEndOrder ==
  ASSUME IsFiniteSet(Obj), NEW k \in ListType, NEW H \in SUBSET Obj,
         Shape(Nat, k, H, FALSE, FALSE)
  PROVE  LET s  == Order(k)
             k2 == [k EXCEPT !.head = k.end]
         IN  Order(k2) = s /\ k2.head = IF s = << >> THEN Nil ELSE s[Len(s)]
<1>1. PICK n \in Nat : \E f \in [1 .. n -> H] : SettledRow(k, H, n, f)
  BY SettledOrder
<1>2. PICK f \in [1 .. n -> H] : SettledRow(k, H, n, f)
  BY <1>1
<1>3. Order(k) = f /\ Len(f) = n /\ k.end = IF n = 0 THEN Nil ELSE f[n]
  BY <1>2 DEF SettledRow
<1>4. f = << >> <=> n = 0
  OBVIOUS
<1>5. [k EXCEPT !.head = k.end].head = k.end
  BY DEF ListType
<1> QED BY <1>3, <1>4, <1>5, OrderIgnoresHead

(* clean_disk destroys the first object that is not parked.                *)
LEMMA DropFirstOrder ==
  ASSUME IsFiniteSet(Obj), NEW k \in ListType, NEW H \in SUBSET Obj,
         Shape(Nat, k, H, FALSE, TRUE), k.dhead # Nil
  PROVE  LET s  == Order(k)
             k2 == DropFirst(k)
             s2 == Order(k2)
         IN /\ s \in Seq(H) /\ s2 \in Seq(H) /\ Len(s2) = Len(s) - 1
            /\ \E j \in 1 .. Len(s) :
                 /\ s[j] = k.dhead
                 /\ \A i \in 1 .. Len(s) - 1 : s2[i] = IF i < j THEN s[i] ELSE s[i + 1]
                 /\ k2.head = IF k.dhead # k.head THEN k.head
                              ELSE IF j = Len(s) THEN Nil ELSE s[j + 1]
<1> DEFINE k2 == DropFirst(k)
           o  == k.dhead
           H2 == H \ {k.dhead}
           q  == k.next[o]
<1>1. PICK n \in Nat, m \in Nat :
        \E f \in [1 .. n -> H], g \in [1 .. m -> H] : CleaningRows(k, H, n, f, m, g)
  BY CleaningOrder
<1>2. PICK f \in [1 .. n -> H], g \in [1 .. m -> H] : CleaningRows(k, H, n, f, m, g)
  BY <1>1
<1>3. /\ n \in Nat \ {0} /\ o = f[1] /\ Row(k, H, n, f) /\ Row(k, H, m, g)
      /\ \A i \in 1 .. n, j \in 1 .. m : f[i] # g[j]
      /\ k.thead = IF m = 0 THEN Nil ELSE g[1]
  BY <1>2 DEF CleaningRows, Rows
<1>4. /\ k2.head = (IF k.head = o THEN q ELSE k.head) /\ k2.dhead = q
      /\ k2.thead = k.thead
      /\ \A r \in Obj : k2.next[r] = IF r = o THEN Nil ELSE k.next[r]
  BY <1>3 DEF DropFirst, PassFirst, ListType
<1>5. k2 \in ListType /\ H2 \in SUBSET Obj
  BY DropFirstType
<1> HIDE DEF k2
<1> DEFINE f2 == [i \in 1 .. n - 1 |-> f[i + 1]]
<1>6. /\ n - 1 \in Nat /\ f2 \in [1 .. n - 1 -> H2] /\ g \in [1 .. m -> H2]
      /\ \A i \in 1 .. n - 1 : f2[i] = f[i + 1]
  BY <1>3 DEF Row
<1>7. q = IF n = 1 THEN Nil ELSE f[2]
  BY <1>3 DEF Row
<1>8. q = IF n - 1 = 0 THEN Nil ELSE f2[1]
  BY <1>3, <1>7
<1> HIDE DEF f2
<1>9. Row(k2, H2, n - 1, f2)
  BY <1>3, <1>6, DropFirstRow DEF k2
<1>10. Row(k2, H2, m, g)
  <2>1. \A i \in 1 .. m : g[i] # o /\ g[i] \in Obj
    BY <1>3
  <2> QED BY <1>3, <1>4, <1>6, <2>1, SMTT(60) DEF Row
<1> DEFINE s  == Order(k)
           s2 == Order(k2)
<1>11. /\ s2 \in Seq(H2) /\ Len(s2) = m + (n - 1)
       /\ \A i \in 1 .. m : s2[i] = g[i]
       /\ \A i \in 1 .. n - 1 : s2[m + i] = f2[i]
  <2>1. k2.dhead = (IF n - 1 = 0 THEN Nil ELSE f2[1]) /\ k2.thead = IF m = 0 THEN Nil ELSE g[1]
    BY <1>3, <1>4, <1>8
  <2>2. PICK h \in Nat : h = n - 1
    BY <1>6
  <2>3. /\ f2 \in [1 .. h -> H2] /\ Row(k2, H2, h, f2)
        /\ k2.dhead = IF h = 0 THEN Nil ELSE f2[1]
    BY <1>6, <1>9, <2>1, <2>2
  <2>4. k2.thead = IF m = 0 THEN Nil ELSE g[1]
    BY <2>1
  <2> HIDE DEF H2, o, q, s2, s
  <2>6. Chain(k2, k2.dhead) = f2
    BY <1>5, <2>3, ChainOfRow
  <2>7. Chain(k2, k2.thead) = g
    BY <1>5, <1>10, <2>4, ChainOfRow
  <2>8. Order(k2) = g \o f2
    BY <2>6, <2>7 DEF Order
  <2>5. /\ Order(k2) \in Seq(H2) /\ Len(Order(k2)) = m + h
        /\ \A i \in 1 .. m : Order(k2)[i] = g[i]
        /\ \A i \in 1 .. h : Order(k2)[m + i] = f2[i]
    <3>1. f2 \in [1 .. h -> H2] /\ g \in [1 .. m -> H2]
      BY <1>6, <2>3
    <3>2. g \o f2 \in Seq(H2) /\ Len(g \o f2) = m + h
      BY <3>1, ConcatRows
    <3>3. \A i \in 1 .. m : (g \o f2)[i] = g[i]
      BY <3>1, ConcatRows
    <3>4. \A i \in 1 .. h : (g \o f2)[m + i] = f2[i]
      BY <3>1, ConcatRows
    <3> QED BY <2>8, <3>2, <3>3, <3>4
  <2> QED BY <2>2, <2>5 DEF s2
<1>12. /\ s \in Seq(H) /\ Len(s) = m + n
       /\ \A i \in 1 .. m : s[i] = g[i]
       /\ \A i \in 1 .. n : s[m + i] = f[i]
  BY <1>2 DEF CleaningRows
<1>13. s2 \in Seq(H) /\ Len(s2) = Len(s) - 1
  BY <1>3, <1>11, <1>12
<1> HIDE DEF s, s2
<1>14. \A i \in 1 .. m + n - 1 : s2[i] = IF i < m + 1 THEN s[i] ELSE s[i + 1]
  <2> TAKE i \in 1 .. m + n - 1
  <2>1. CASE i < m + 1
    BY <1>11, <1>12, <2>1
  <2>2. CASE i >= m + 1
    <3> DEFINE h == i - m
    <3>1. h \in 1 .. n - 1 /\ m + h = i /\ h + 1 \in 1 .. n /\ m + (h + 1) = i + 1
      BY <2>2
    <3> HIDE DEF h
    <3>2. s2[m + h] = f[h + 1] /\ s[m + (h + 1)] = f[h + 1]
      BY <1>6, <1>11, <1>12, <3>1
    <3> QED BY <2>2, <3>1, <3>2
  <2> QED BY <2>1, <2>2
<1>15. m + 1 \in 1 .. Len(s) /\ s[m + 1] = o
  BY <1>3, <1>12
<1>16. k2.head = IF o # k.head THEN k.head ELSE IF m + 1 = Len(s) THEN Nil ELSE s[m + 1 + 1]
  <2>1. n # 1 => 2 \in 1 .. n /\ m + 2 = m + 1 + 1
    BY <1>3
  <2>2. n # 1 => f[2] = s[m + 1 + 1]
    BY <1>12, <2>1
  <2> QED BY <1>3, <1>4, <1>7, <1>12, <2>2
<1> QED BY <1>12, <1>13, <1>14, <1>15, <1>16 DEF s, s2, k2

(* Parking the first object keeps the order and moves the mark off it.     *)
LEMMA KeepFirstOrder ==
  ASSUME IsFiniteSet(Obj), NEW k \in ListType, NEW H \in SUBSET Obj,
         Shape(Nat, k, H, FALSE, TRUE), k.dhead # Nil
  PROVE  LET s  == Order(k)
             k2 == KeepFirst(k)
         IN /\ s \in Seq(H) /\ Order(k2) = s
            /\ \E j \in 1 .. Len(s) :
                 /\ s[j] = k.dhead
                 /\ k2.head = IF k.dhead # k.head THEN k.head
                              ELSE IF j = Len(s) THEN Nil ELSE s[j + 1]
<1> DEFINE k2 == KeepFirst(k)
           o  == k.dhead
           q  == k.next[o]
           t  == k.tend
<1>1. PICK n \in Nat, m \in Nat :
        \E f \in [1 .. n -> H], g \in [1 .. m -> H] : CleaningRows(k, H, n, f, m, g)
  BY CleaningOrder
<1>2. PICK f \in [1 .. n -> H], g \in [1 .. m -> H] : CleaningRows(k, H, n, f, m, g)
  BY <1>1
<1>3. /\ n \in Nat \ {0} /\ o = f[1] /\ Row(k, H, n, f) /\ Rows(k, H, n, f, m, g)
      /\ k.thead = (IF m = 0 THEN Nil ELSE g[1])
      /\ t = (IF m = 0 THEN Nil ELSE g[m])
  BY <1>2 DEF CleaningRows, Rows
<1>4. /\ k2.head = (IF k.head = o THEN q ELSE k.head) /\ k2.dhead = q
      /\ k2.thead = (IF t = Nil THEN o ELSE k.thead)
  BY KeepFirstLinks
<1>5. k2 \in ListType
  BY KeepFirstType
<1> DEFINE f2 == [i \in 1 .. n - 1 |-> f[i + 1]]
           g2 == [i \in 1 .. m + 1 |-> IF i = m + 1 THEN o ELSE g[i]]
<1>6. PICK n2 \in Nat, m2 \in Nat : n2 = n - 1 /\ m2 = m + 1
  BY <1>3
<1>7. /\ f2 \in [1 .. n2 -> H] /\ \A i \in 1 .. n2 : f2[i] = f[i + 1]
      /\ g2 \in [1 .. m2 -> H] /\ \A i \in 1 .. m : g2[i] = g[i]
      /\ g2[m2] = o
  BY <1>3, <1>6
<1>8. q = IF n = 1 THEN Nil ELSE f[2]
  BY <1>3 DEF Row
<1>9. /\ k2.dhead = IF n2 = 0 THEN Nil ELSE f2[1]
      /\ k2.thead = IF m2 = 0 THEN Nil ELSE g2[1]
  <2>1. k2.dhead = IF n2 = 0 THEN Nil ELSE f2[1]
    BY <1>3, <1>4, <1>6, <1>8
  <2>2. k2.thead = g2[1]
    <3>1. CASE m = 0
      BY <1>3, <1>4, <1>6, <1>7, <3>1
    <3>2. CASE m # 0
      <4>1. t \in H /\ t # Nil
        BY <1>3, <3>2, NilAssumption
      <4> QED BY <1>3, <1>4, <1>7, <3>2, <4>1
    <3> QED BY <3>1, <3>2
  <2> QED BY <1>6, <2>1, <2>2
<1> HIDE DEF f2, g2, k2
<1>10. Row(k2, H, n2, f2) /\ Row(k2, H, m2, g2)
  <2>1. /\ f2 \in [1 .. n - 1 -> H] /\ \A i \in 1 .. n - 1 : f2[i] = f[i + 1]
        /\ g2 \in [1 .. m + 1 -> H] /\ g2[m + 1] = k.dhead
    BY <1>6, <1>7
  <2>2. Row(k2, H, n - 1, f2) /\ Row(k2, H, m + 1, g2)
    BY <1>3, <1>7, <2>1, KeepFirstRows, ZenonT(60) DEF k2
  <2> QED BY <1>6, <2>2
<1>11. Order(k2) = g2 \o f2
  <2>0. IsFiniteSet(Obj) /\ H \in SUBSET Obj /\ k2 \in ListType /\ n2 \in Nat /\ m2 \in Nat
    BY <1>5, <1>7
  <2>1. Chain(k2, k2.dhead) = f2
    BY <2>0, <1>9, <1>10, ChainOfRow, SMTT(60)
  <2>2. Chain(k2, k2.thead) = g2
    BY <2>0, <1>9, <1>10, ChainOfRow, SMTT(60)
  <2> QED BY <2>1, <2>2 DEF Order
<1> DEFINE s  == Order(k)
           s2 == Order(k2)
<1>12. /\ s \in Seq(H) /\ Len(s) = m + n
       /\ \A i \in 1 .. m : s[i] = g[i]
       /\ \A i \in 1 .. n : s[m + i] = f[i]
  BY <1>2 DEF CleaningRows
<1>13. Joined(s2, H, n2, f2, m2, g2)
  <2>1. f2 \in [1 .. n2 -> H] /\ g2 \in [1 .. m2 -> H]
    BY <1>7
  <2>2. Joined(g2 \o f2, H, n2, f2, m2, g2)
    BY <2>1, RowsJoined
  <2> QED BY <1>11, <2>2
<1> HIDE DEF s, s2
<1>14. /\ s2 \in Seq(H) /\ Len(s2) = m + n
       /\ \A i \in 1 .. m2 : s2[i] = g2[i]
  BY <1>6, <1>13 DEF Joined
<1>15. \A i \in 1 .. n2 : s2[m2 + i] = f2[i]
  BY <1>13 DEF Joined
<1>16. \A i \in 1 .. Len(s) : s[i] = s2[i]
  <2> SUFFICES ASSUME NEW i \in 1 .. m + n PROVE s[i] = s2[i]
    BY <1>12
  <2>1. CASE i <= m
    <3>1. i \in 1 .. m /\ i \in 1 .. m2
      BY <1>6, <2>1
    <3> QED BY <1>7, <1>12, <1>14, <3>1
  <2>2. CASE i = m + 1
    <3>1. 1 \in 1 .. n /\ m2 \in 1 .. m2
      BY <1>3, <1>6
    <3>2. s[m + 1] = o /\ s2[m2] = o
      BY <1>3, <1>7, <1>12, <1>14, <3>1
    <3> QED BY <1>6, <2>2, <3>2
  <2>3. CASE i > m + 1
    <3> DEFINE h == i - m2
    <3>1. h \in 1 .. n2 /\ m2 + h = i /\ h + 1 \in 1 .. n /\ m + (h + 1) = i
      BY <1>6, <2>3
    <3> HIDE DEF h
    <3>2. s2[m2 + h] = f[h + 1] /\ s[m + (h + 1)] = f[h + 1]
      BY <1>7, <1>12, <1>15, <3>1
    <3> QED BY <3>1, <3>2
  <2> QED BY <2>1, <2>2, <2>3
<1>17. s2 = s
  BY <1>12, <1>14, <1>16, SeqEqual
<1>18. m + 1 \in 1 .. Len(s) /\ s[m + 1] = o
  BY <1>3, <1>12
<1>19. k2.head = IF o # k.head THEN k.head ELSE IF m + 1 = Len(s) THEN Nil ELSE s[m + 1 + 1]
  <2>1. n # 1 => 2 \in 1 .. n /\ m + 2 = m + 1 + 1
    BY <1>3
  <2>2. n # 1 => f[2] = s[m + 1 + 1]
    BY <1>12, <2>1
  <2> QED BY <1>3, <1>4, <1>8, <1>12, <2>2
<1> QED BY <1>12, <1>17, <1>18, <1>19 DEF s, s2, k2

(* The end of clean_disk keeps the order, except where it loses the list,  *)
(* with objects in it and no mark.                                         *)
LEMMA FinishCleanOrder ==
  ASSUME IsFiniteSet(Obj), NEW k \in ListType, NEW H \in SUBSET Obj,
         Shape(Nat, k, H, FALSE, TRUE)
  PROVE  LET s  == Order(k)
             k2 == FinishClean(k)
         IN /\ LosesList(k) => s # << >> /\ k.head = Nil
            /\ ~LosesList(k) => Order(k2) = s /\ k2.head = k.head
<1> DEFINE k2 == FinishClean(k)
           s  == Order(k)
<1>1. PICK n \in Nat, m \in Nat :
        \E f \in [1 .. n -> H], g \in [1 .. m -> H] : CleaningRows(k, H, n, f, m, g)
  BY CleaningOrder
<1>2. PICK f \in [1 .. n -> H], g \in [1 .. m -> H] : CleaningRows(k, H, n, f, m, g)
  BY <1>1
<1>3. /\ Rows(k, H, n, f, m, g) /\ Row(k, H, n, f) /\ Complete(H, n, f, m, g)
      /\ k.dhead = (IF n = 0 THEN Nil ELSE f[1])
      /\ k.thead = (IF m = 0 THEN Nil ELSE g[1])
      /\ n + m > 0 => k.head = Nil \/ \E i \in 1 .. n : k.head = f[i]
  BY <1>2 DEF CleaningRows, Rows
<1>4. /\ k.dhead = Nil <=> n = 0
      /\ k.thead = Nil <=> m = 0
  BY <1>3, NilAssumption
<1>5. /\ s \in Seq(H) /\ Len(s) = m + n
      /\ \A i \in 1 .. m : s[i] = g[i]
      /\ \A i \in 1 .. n : s[m + i] = f[i]
  BY <1>2 DEF CleaningRows
<1>6. ASSUME LosesList(k) PROVE s # << >> /\ k.head = Nil
  <2>1. n = 0 /\ m > 0
    BY <1>4, <1>6 DEF LosesList
  <2>2. Len(s) > 0
    BY <1>5, <2>1
  <2> HIDE DEF s
  <2> QED BY <1>3, <2>1, <2>2
<1>7. ASSUME ~LosesList(k), n = 0 PROVE Order(k2) = s /\ k2.head = k.head
  <2>1. m = 0 /\ k.dhead = Nil /\ k.thead = Nil
    BY <1>4, <1>7 DEF LosesList
  <2>2. k.head = Nil
    <3>1. H = {}
      BY <1>3, <1>7, <2>1 DEF Complete
    <3>2. k.head # Nil => k.head \in H
      BY DEF Shape
    <3> QED BY <3>1, <3>2
  <2>3. k2.head = Nil /\ k2.dhead = Nil /\ k2.thead = Nil
    BY <2>1 DEF FinishClean, ListType
  <2>4. k2 \in ListType
    BY FinishCleanType
  <2> HIDE DEF k2
  <2> DEFINE e == << >>
  <2>5. e \in [1 .. 0 -> H] /\ Row(k, H, 0, e) /\ Row(k2, H, 0, e) /\ 0 \in Nat
    BY DEF Row
  <2> HIDE DEF e
  <2>6. Nil = IF 0 = 0 THEN Nil ELSE e[1]
    OBVIOUS
  <2>7. Chain(k, Nil) = e /\ Chain(k2, Nil) = e
    BY <2>4, <2>5, <2>6, ChainOfRow
  <2> QED BY <2>1, <2>2, <2>3, <2>7 DEF Order
<1>8. ASSUME n # 0 PROVE Order(k2) = s /\ k2.head = k.head
  <2>1. PICK n2 \in Nat : n2 = m + n
    OBVIOUS
  <2> DEFINE f2 == [i \in 1 .. n2 |-> IF i <= m THEN g[i] ELSE f[i - m]]
  <2>2. f2 \in [1 .. n2 -> H] /\ n \in Nat \ {0}
    BY <1>8, <2>1
  <2>3. /\ \A i \in 1 .. m : f2[i] = g[i]
        /\ \A i \in 1 .. n : f2[m + i] = f[i]
    BY <2>1
  <2>4. \A i \in 1 .. n2 : f2[i] = s[i]
    <3> TAKE i \in 1 .. n2
    <3>1. CASE i <= m
      BY <1>5, <2>1, <3>1
    <3>2. CASE i > m
      <4> DEFINE h == i - m
      <4>1. h \in 1 .. n /\ m + h = i
        BY <2>1, <3>2
      <4>2. f2[i] = f[h]
        BY <3>2
      <4> HIDE DEF h
      <4>3. s[m + h] = f[h]
        BY <1>5, <4>1
      <4> QED BY <4>1, <4>2, <4>3
    <3> QED BY <3>1, <3>2
  <2> HIDE DEF f2, s
  <2>5. f2 \in Seq(H) /\ Len(f2) = n2
    BY <2>2
  <2>6. f2 = s
    BY <1>5, <2>1, <2>4, <2>5, SeqEqual
  <2>7. /\ Row(k2, H, n2, f2) /\ k2.head = k.head
        /\ k2.dhead = f2[1] /\ k2.thead = Nil
    <3>1. f2 \in [1 .. m + n -> H]
      BY <2>1, <2>2
    <3>2. Rows(k, H, n, f, m, g)
      BY <1>3
    <3>3. Row(k2, H, m + n, f2)
      BY <2>2, <2>3, <3>1, <3>2, FinishCleanRow DEF k2
    <3>4. /\ k2.head = k.head /\ k2.thead = Nil
          /\ k2.dhead = IF m = 0 THEN k.dhead ELSE k.thead
      BY <1>4, <1>8 DEF FinishClean, ListType, k2
    <3>5. f2[1] = IF m = 0 THEN f[1] ELSE g[1]
      <4>1. m = 0 => f2[0 + 1] = f[1]
        BY <1>8, <2>3
      <4> QED BY <2>3, <4>1
    <3> QED BY <1>3, <1>8, <2>1, <3>3, <3>4, <3>5
  <2>8. k2 \in ListType
    BY FinishCleanType
  <2>9. k2.dhead = IF n2 = 0 THEN Nil ELSE f2[1]
    BY <1>8, <2>1, <2>7
  <2> HIDE DEF k2
  <2>10. Order(k2) = f2
    BY <2>2, <2>7, <2>8, <2>9, OrderOfRow
  <2> QED BY <2>6, <2>7, <2>10
<1> QED BY <1>6, <1>7, <1>8

(* Every cached object is in the order once, and nothing else is.          *)
LEMMA OrderIsEnumeration ==
  ASSUME IsFiniteSet(Obj), NEW k \in ListType, NEW H \in SUBSET Obj,
         NEW cleaning \in BOOLEAN, Shape(Nat, k, H, FALSE, cleaning)
  PROVE  /\ Order(k) \in Seq(H)
         /\ \A i, j \in 1 .. Len(Order(k)) : Order(k)[i] = Order(k)[j] => i = j
         /\ \A p \in H : \E i \in 1 .. Len(Order(k)) : Order(k)[i] = p
<1>1. PICK n \in Nat, m \in Nat :
        \E f \in [1 .. n -> H], g \in [1 .. m -> H] : CleaningRows(k, H, n, f, m, g)
  BY CleaningOrder
<1>2. PICK f \in [1 .. n -> H], g \in [1 .. m -> H] : CleaningRows(k, H, n, f, m, g)
  BY <1>1
<1> DEFINE s == Order(k)
<1>3. /\ s \in Seq(H) /\ Len(s) = m + n
      /\ \A i \in 1 .. m : s[i] = g[i]
      /\ \A i \in 1 .. n : s[m + i] = f[i]
  BY <1>2 DEF CleaningRows
<1>4. /\ \A i, j \in 1 .. n : f[i] = f[j] => i = j
      /\ \A i, j \in 1 .. m : g[i] = g[j] => i = j
      /\ \A i \in 1 .. n, j \in 1 .. m : f[i] # g[j]
  BY <1>2 DEF CleaningRows, Rows, Row
<1> HIDE DEF s
<1>5. \A i \in 1 .. m + n : i > m => i - m \in 1 .. n /\ s[i] = f[i - m]
  <2> TAKE i \in 1 .. m + n
  <2> DEFINE h == i - m
  <2>1. i > m => h \in 1 .. n /\ m + h = i
    OBVIOUS
  <2> HIDE DEF h
  <2>2. i > m => h \in 1 .. n /\ s[i] = f[h]
    BY <1>3, <2>1
  <2> QED BY <2>2 DEF h
<1>6. \A i \in 1 .. m + n : i <= m => i \in 1 .. m /\ s[i] = g[i]
  BY <1>3
<1>7. ASSUME NEW i \in 1 .. m + n, NEW j \in 1 .. m + n, s[i] = s[j] PROVE i = j
  <2>1. CASE i <= m /\ j <= m
    BY <1>4, <1>6, <1>7, <2>1
  <2>2. CASE i > m /\ j > m
    <3>1. i - m \in 1 .. n /\ j - m \in 1 .. n /\ f[i - m] = f[j - m]
      BY <1>5, <1>7, <2>2
    <3>2. i - m = j - m
      BY <1>4, <3>1
    <3> QED BY <3>2
  <2>3. CASE i <= m /\ j > m
    BY <1>4, <1>5, <1>6, <1>7, <2>3
  <2>4. CASE i > m /\ j <= m
    BY <1>4, <1>5, <1>6, <1>7, <2>4
  <2> QED BY <2>1, <2>2, <2>3, <2>4
<1>8. ASSUME NEW p \in H PROVE \E i \in 1 .. m + n : s[i] = p
  <2>1. (\E i \in 1 .. n : p = f[i]) \/ (\E i \in 1 .. m : p = g[i])
    BY <1>2 DEF CleaningRows, Complete
  <2>2. ASSUME NEW i \in 1 .. n, p = f[i] PROVE \E h \in 1 .. m + n : s[h] = p
    <3>1. m + i \in 1 .. m + n /\ s[m + i] = p
      BY <1>3, <2>2
    <3> QED BY <3>1
  <2>3. ASSUME NEW i \in 1 .. m, p = g[i] PROVE \E h \in 1 .. m + n : s[h] = p
    <3>1. i \in 1 .. m + n /\ s[i] = p
      BY <1>3, <2>3
    <3> QED BY <3>1
  <2> QED BY <2>1, <2>2, <2>3
<1> QED BY <1>3, <1>7, <1>8 DEF s
==============================================================================
