------------------------------ MODULE DiskProofs ------------------------------
(***************************************************************************)
(* Theorems about the cache's files and their index, for any number of     *)
(* objects, requests and runs of the program, bodies of all lengths, and   *)
(* crashes at any moment.                                                  *)
(***************************************************************************)
EXTENDS DiskInv, FiniteSetTheorems, WellFoundedInduction, TLAPS

-----------------------------------------------------------------------------
(* Sequences.                                                              *)

(* Every set of numbers that is not empty has a least element.             *)
LEMMA LeastNumber ==
  ASSUME NEW D \in SUBSET Nat, D # {}
  PROVE  \E i \in D : \A j \in D : i <= j
<1> DEFINE T == {0..i : i \in D}
<1>1. IsWellFoundedOn(StrictSubsetOrdering(Nat), FiniteSubsetsOf(Nat))
  BY FS_StrictSubsetOrderingWellFounded
<1>2. T \subseteq FiniteSubsetsOf(Nat) /\ T # {}
  <2>1. \A i \in D : 0..i \in SUBSET Nat /\ IsFiniteSet(0..i)
    BY FS_Interval
  <2> QED BY <2>1 DEF FiniteSubsetsOf
<1>3. \E x \in T : \A y \in T : <<y, x>> \notin StrictSubsetOrdering(Nat)
  <2> HIDE DEF T
  <2> QED BY <1>1, <1>2, WFMin
<1>4. PICK i \in D : \A j \in D : <<0..j, 0..i>> \notin StrictSubsetOrdering(Nat)
  BY <1>3
<1>5. ASSUME NEW j \in D, j < i PROVE FALSE
  <2>1. 0..j \in SUBSET Nat /\ 0..i \in SUBSET Nat /\ 0..j \subseteq 0..i
    BY <1>5
  <2>2. i \in 0..i /\ i \notin 0..j
    BY <1>5
  <2>3. <<0..j, 0..i>> \in StrictSubsetOrdering(Nat)
    BY <2>1, <2>2 DEF StrictSubsetOrdering
  <2> QED BY <1>4, <2>3
<1> QED BY <1>5

LEMMA AmongAppend ==
  ASSUME NEW S, NEW s \in Seq(S), NEW x \in S
  PROVE  Append(s, x) \in Seq(S) /\ Among(Append(s, x)) = Among(s) \cup {x}
<1>1. Append(s, x) \in Seq(S) /\ Len(Append(s, x)) = Len(s) + 1 /\ Len(s) \in Nat
  OBVIOUS
<1>2. \A i \in 1..Len(s) : Append(s, x)[i] = s[i]
  OBVIOUS
<1>3. Append(s, x)[Len(s) + 1] = x
  OBVIOUS
<1>4. 1..Len(s) + 1 = 1..Len(s) \cup {Len(s) + 1}
  BY <1>1
<1>5. Among(Append(s, x)) = {Append(s, x)[i] : i \in 1..Len(s) \cup {Len(s) + 1}}
  BY <1>1, <1>4 DEF Among
<1> QED BY <1>1, <1>2, <1>3, <1>5 DEF Among

LEMMA AmongWithin ==
  ASSUME NEW s, NEW S, \A k \in 1..Len(s) : s[k] \in S
  PROVE  Among(s) \subseteq S
BY DEF Among

(* The first n elements.                                                   *)
LEMMA UptoOK ==
  ASSUME NEW S, NEW s \in Seq(S), NEW n \in 0..Len(s)
  PROVE  /\ Upto(s, n) \in Seq(S) /\ Len(Upto(s, n)) = n
         /\ \A i \in 1..n : Upto(s, n)[i] = s[i]
         /\ Among(Upto(s, n)) \subseteq Among(s)
<1>1. Len(s) \in Nat /\ n \in Nat /\ n <= Len(s)
  OBVIOUS
<1>2. Upto(s, n) \in Seq(S) /\ Len(Upto(s, n)) = n /\ \A i \in 1..n : Upto(s, n)[i] = s[i]
  BY <1>1 DEF Upto
<1>3. 1..n \subseteq 1..Len(s)
  BY <1>1
<1> QED BY <1>2, <1>3 DEF Among

LEMMA UptoAll ==
  ASSUME NEW S, NEW s \in Seq(S)
  PROVE  Upto(s, Len(s)) = s
<1>1. Len(s) \in 0..Len(s)
  OBVIOUS
<1>2. /\ Upto(s, Len(s)) \in Seq(S) /\ Len(Upto(s, Len(s))) = Len(s)
      /\ \A i \in 1..Len(s) : Upto(s, Len(s))[i] = s[i]
  BY <1>1, UptoOK
<1> QED BY <1>2

(* g is what Selected's loop has found in the first n elements of s.       *)
LoopOf(s, keep, n, g) ==
  g = [i \in 0..n |-> IF i = 0 THEN <<>>
                      ELSE IF s[i] \in keep THEN Append(g[i - 1], s[i]) ELSE g[i - 1]]

(* The loop is well defined.                                               *)
LEMMA LoopExists ==
  ASSUME NEW s, NEW keep, NEW n \in Nat
  PROVE  \E g : LoopOf(s, keep, n, g)
<1> DEFINE D == {i \in Nat : ~ \E g : LoopOf(s, keep, i, g)}
<1> SUFFICES ASSUME D # {} PROVE FALSE
  OBVIOUS
<1>1. PICK m \in D : \A j \in D : m <= j
  <2>1. D \in SUBSET Nat
    OBVIOUS
  <2> HIDE DEF D
  <2> QED BY <2>1, LeastNumber
<1>2. m \in Nat /\ ~ \E g : LoopOf(s, keep, m, g)
  BY <1>1
<1>3. m # 0
  <2> DEFINE g == [i \in 0..0 |-> <<>>]
  <2>1. LoopOf(s, keep, 0, g)
    BY DEF LoopOf
  <2> QED BY <1>2, <2>1
<1>4. PICK l \in Nat : m = l + 1
  <2>1. m - 1 \in Nat /\ m = (m - 1) + 1
    BY <1>2, <1>3
  <2> QED BY <2>1
<1>5. PICK h : LoopOf(s, keep, l, h)
  <2>1. ~(m <= l)
    BY <1>4
  <2>2. l \notin D
    BY <1>1, <2>1
  <2> QED BY <2>2
<1> DEFINE last == IF s[m] \in keep THEN Append(h[l], s[m]) ELSE h[l]
           g == [i \in 0..m |-> IF i = m THEN last ELSE h[i]]
<1>6. ASSUME NEW i \in 0..m
      PROVE  g[i] = IF i = 0 THEN <<>>
                    ELSE IF s[i] \in keep THEN Append(g[i - 1], s[i]) ELSE g[i - 1]
  <2>1. CASE i = m
    <3>1. m - 1 = l /\ l \in 0..m /\ l # m
      BY <1>4
    <3> QED BY <2>1, <3>1, <1>3
  <2>2. CASE i # m
    <3>1. i \in 0..l /\ (i # 0 => i - 1 \in 0..m /\ i - 1 # m)
      BY <1>4, <2>2
    <3>2. h[i] = IF i = 0 THEN <<>>
                 ELSE IF s[i] \in keep THEN Append(h[i - 1], s[i]) ELSE h[i - 1]
      BY <1>5, <3>1 DEF LoopOf
    <3> QED BY <2>2, <3>1, <3>2
  <2> QED BY <2>1, <2>2
<1>7. g = [i \in 0..m |-> IF i = 0 THEN <<>>
                          ELSE IF s[i] \in keep THEN Append(g[i - 1], s[i]) ELSE g[i - 1]]
  <2>1. DOMAIN g = 0..m /\ g = [i \in 0..m |-> g[i]]
    OBVIOUS
  <2> HIDE DEF g
  <2> QED BY <2>1, <1>6
<1>8. LoopOf(s, keep, m, g)
  BY <1>7 DEF LoopOf
<1> QED BY <1>2, <1>8

(* No element twice.                                                       *)
Distinct(s) == \A i, j \in 1..Len(s) : s[i] = s[j] => i = j

(* Selected finds those in keep, each as often as it is there.             *)
LEMMA SelectedOK ==
  ASSUME NEW S, NEW s \in Seq(S), NEW keep
  PROVE  /\ Selected(s, keep) \in Seq(S)
         /\ Among(Selected(s, keep)) = Among(s) \cap keep
         /\ Distinct(s) => Distinct(Selected(s, keep))
<1> DEFINE N == Len(s)
           loop(g) == [i \in 0..N |-> IF i = 0 THEN <<>>
                                      ELSE IF s[i] \in keep THEN Append(g[i - 1], s[i])
                                      ELSE g[i - 1]]
           sel == CHOOSE g : g = loop(g)
<1>1. N \in Nat /\ \A i \in 1..N : s[i] \in S
  OBVIOUS
<1>2. \E g : g = loop(g)
  <2>1. \E g : LoopOf(s, keep, N, g)
    BY <1>1, LoopExists
  <2> QED BY <2>1 DEF LoopOf
<1>3. sel = loop(sel)
  <2> HIDE DEF loop
  <2> QED BY <1>2
<1>4. Selected(s, keep) = sel[N]
  BY DEF Selected
<1>5. \A i \in 0..N : sel[i] = IF i = 0 THEN <<>>
                                ELSE IF s[i] \in keep THEN Append(sel[i - 1], s[i])
                                ELSE sel[i - 1]
  <2> HIDE DEF sel
  <2> QED BY <1>3
<1> HIDE DEF sel, loop
<1> DEFINE First(i) == {s[j] : j \in 1..i}
           Good(i) == /\ sel[i] \in Seq(S) /\ Among(sel[i]) = First(i) \cap keep
                      /\ Distinct(s) => Distinct(sel[i])
           D == {i \in 0..N : ~Good(i)}
<1>6. D = {}
  <2> SUFFICES ASSUME D # {} PROVE FALSE
    OBVIOUS
  <2>1. PICK m \in D : \A j \in D : m <= j
    <3>1. D \in SUBSET Nat
      BY <1>1
    <3> HIDE DEF D
    <3> QED BY <3>1, LeastNumber
  <2>2. m \in 0..N /\ ~Good(m)
    BY <2>1
  <2>3. m # 0
    <3>1. Len(<<>>) = 0 /\ <<>> \in Seq(S) /\ 1..0 = {}
      OBVIOUS
    <3>2. sel[0] = <<>>
      BY <1>1, <1>5
    <3>3. Among(<<>>) = {} /\ Distinct(<<>>) /\ First(0) = {}
      BY <3>1 DEF Among, Distinct
    <3>4. Good(0)
      BY <3>1, <3>2, <3>3
    <3> QED BY <2>2, <3>4
  <2>4. m - 1 \in 0..N /\ ~(m <= m - 1) /\ m \in 1..N
    BY <1>1, <2>2, <2>3
  <2>5. Good(m - 1)
    BY <2>1, <2>4
  <2>6. First(m) = First(m - 1) \cup {s[m]}
    <3>1. 1..m = 1..(m - 1) \cup {m}
      BY <2>4
    <3> QED BY <3>1
  <2> DEFINE t == sel[m - 1]
  <2>7. t \in Seq(S) /\ Among(t) = First(m - 1) \cap keep /\ (Distinct(s) => Distinct(t))
    BY <2>5
  <2>8. s[m] \in S /\ sel[m] = IF s[m] \in keep THEN Append(t, s[m]) ELSE t
    BY <1>1, <1>5, <2>2, <2>3, <2>4
  <2> HIDE DEF t, First
  <2>9. CASE s[m] \notin keep
    <3>1. sel[m] = t
      BY <2>8, <2>9
    <3> QED BY <2>2, <2>6, <2>7, <2>9, <3>1
  <2>10. CASE s[m] \in keep
    <3>1. sel[m] = Append(t, s[m])
      BY <2>8, <2>10
    <3>2. sel[m] \in Seq(S) /\ Among(sel[m]) = Among(t) \cup {s[m]}
      <4>1. t \in Seq(S) /\ s[m] \in S
        BY <2>7, <2>8
      <4>2. /\ Append(t, s[m]) \in Seq(S)
            /\ Among(Append(t, s[m])) = Among(t) \cup {s[m]}
        BY <4>1, AmongAppend
      <4> QED BY <3>1, <4>2
    <3>3. Among(sel[m]) = First(m) \cap keep
      BY <3>2, <2>6, <2>7, <2>10
    <3>4. ASSUME Distinct(s) PROVE Distinct(sel[m])
      <4>1. ASSUME s[m] \in Among(t) PROVE FALSE
        <5>1. PICK j \in 1..m - 1 : s[m] = s[j]
          BY <4>1, <2>7 DEF First
        <5>2. j \in 1..N /\ j # m
          BY <2>4, <1>1
        <5> QED BY <5>1, <5>2, <2>4, <3>4 DEF Distinct
      <4>2. \A i \in 1..Len(t) : t[i] # s[m]
        BY <4>1 DEF Among
      <4>3. /\ Len(sel[m]) = Len(t) + 1 /\ sel[m][Len(t) + 1] = s[m] /\ Len(t) \in Nat
            /\ \A i \in 1..Len(t) : sel[m][i] = t[i]
        <5>1. t \in Seq(S) /\ s[m] \in S
          BY <2>7, <2>8
        <5>2. /\ Len(Append(t, s[m])) = Len(t) + 1 /\ Append(t, s[m])[Len(t) + 1] = s[m]
              /\ Len(t) \in Nat /\ \A i \in 1..Len(t) : Append(t, s[m])[i] = t[i]
          BY <5>1
        <5> QED BY <3>1, <5>2
      <4>4. \A i, j \in 1..Len(t) : t[i] = t[j] => i = j
        BY <2>7, <3>4 DEF Distinct
      <4>5. \A i \in 1..Len(t) + 1 : i \in 1..Len(t) \/ i = Len(t) + 1
        BY <4>3
      <4> QED BY <4>2, <4>3, <4>4, <4>5 DEF Distinct
    <3> QED BY <2>2, <3>2, <3>3, <3>4
  <2> QED BY <2>9, <2>10
<1>7. Good(N)
  <2>1. N \in 0..N
    BY <1>1
  <2> QED BY <1>6, <2>1
<1>8. First(N) = Among(s)
  BY DEF Among
<1> QED BY <1>4, <1>7, <1>8

-----------------------------------------------------------------------------
(* Bodies and records.                                                     *)

LEMMA BodyOK ==
  ASSUME NEW o \in Obj, objs[o].len \in Nat
  PROVE  Body(o) \in Seq(Piece) /\ Len(Body(o)) = objs[o].len
<1>1. o \in Nat
  BY DiskAssumption DEF Obj
<1> QED BY <1>1 DEF Body, Piece

LEMMA ObjFields ==
  ASSUME Types, NEW o \in Obj
  PROVE  /\ objs[o] \in ObjType
         /\ objs[o].len \in Nat /\ objs[o].mem \in BOOLEAN /\ objs[o].disk \in BOOLEAN
         /\ objs[o].dead \in BOOLEAN /\ objs[o].file_name \in Nat /\ objs[o].run \in Nat
         /\ objs[o].cont \in Seq(Piece) /\ objs[o].refs \in Nat /\ objs[o].cut \in BOOLEAN
BY DEF Types, ObjType

LEMMA FreshOK == Fresh \in ObjType
BY DEF Fresh, ObjType

LEMMA OnDiskOK ==
  ASSUME Types, NEW o \in Obj
  PROVE  /\ OnDisk(o) \in ObjType
         /\ OnDisk(o).len = objs[o].len /\ OnDisk(o).file_name = objs[o].file_name
         /\ OnDisk(o).run = objs[o].run
         /\ ~OnDisk(o).mem /\ ~OnDisk(o).disk /\ ~OnDisk(o).dead
         /\ OnDisk(o).cont = <<>> /\ OnDisk(o).refs = 0 /\ ~OnDisk(o).cut
<1> DEFINE old == objs[o]
           new == [old EXCEPT !.mem = FALSE, !.disk = FALSE, !.dead = FALSE, !.cont = <<>>,
                              !.refs = 0, !.cut = FALSE]
<1>1. old \in ObjType
  BY ObjFields
<1>2. <<>> \in Seq(Piece) /\ 0 \in Nat
  OBVIOUS
<1> HIDE DEF old
<1>3. /\ new \in ObjType /\ new.len = old.len /\ new.file_name = old.file_name
      /\ new.run = old.run /\ ~new.mem /\ ~new.disk /\ ~new.dead
      /\ new.cont = <<>> /\ new.refs = 0 /\ ~new.cut
  BY <1>1, <1>2 DEF ObjType
<1>4. OnDisk(o) = new
  BY DEF OnDisk, old
<1> QED BY <1>3, <1>4 DEF old

LEMMA InCache ==
  ASSUME Types
  PROVE  Cached \subseteq Obj /\ Cached \subseteq 1..made
<1>1. Cached \subseteq 1..made /\ 1..made \subseteq Obj
  BY DiskAssumption DEF Types, Obj
<1> QED BY <1>1

(* A file with all pieces of a body has the body.                          *)
LEMMA WholeFile ==
  ASSUME Types, NEW o \in Obj, Holds(o), files[Name(o)] # NoFile,
         Len(files[Name(o)]) = objs[o].len
  PROVE  files[Name(o)] = Body(o)
<1>1. PICK n \in 0..objs[o].len : files[Name(o)] = Upto(Body(o), n)
  BY DEF Holds
<1>2. Body(o) \in Seq(Piece) /\ Len(Body(o)) = objs[o].len
  BY ObjFields, BodyOK
<1>3. Len(Upto(Body(o), n)) = n
  BY <1>2, UptoOK
<1>4. n = Len(Body(o))
  BY <1>1, <1>2, <1>3
<1> QED BY <1>1, <1>2, <1>4, UptoAll

-----------------------------------------------------------------------------
(* What a step that leaves an object alone leaves of what is known of it.  *)

(* Its file, unless another object was given the name.                     *)
SameFile(o) == o \in clashed' \/ files'[Name(o)] = files[Name(o)]

LEMMA OnFileStays ==
  ASSUME NEW o \in Obj, OnFile(o), o \in clashed => o \in clashed', SameFile(o),
         objs'[o].len = objs[o].len, objs'[o].file_name = objs[o].file_name
  PROVE  OnFile(o)'
<1>1. Body(o)' = Body(o) /\ Name(o)' = Name(o)
  BY DEF Body, Name
<1>2. CASE o \in clashed'
  BY <1>1, <1>2 DEF OnFile
<1>3. CASE o \notin clashed'
  <2>1. files'[Name(o)'] = files[Name(o)] /\ o \notin clashed
    BY <1>1, <1>3 DEF SameFile
  <2>2. Holds(o)'
    BY <1>1, <2>1 DEF OnFile, Holds, Upto
  <2> QED BY <1>1, <2>2 DEF OnFile
<1> QED BY <1>2, <1>3

(* What is known of the pieces that reads have left.                       *)
LEMMA PiecesStay ==
  ASSUME NEW o \in Obj, objs'[o].len = objs[o].len, objs'[o].cont = objs[o].cont,
         objs'[o].cut = objs[o].cut, objs[o].dead => objs'[o].dead
  PROVE  /\ Leftover(o) => Leftover(o)'
         /\ ReadAgain(o) => ReadAgain(o)'
<1>1. Body(o)' = Body(o)
  BY DEF Body
<1>2. Among(Body(o))' = Among(Body(o))
  BY <1>1 DEF Among
<1>3. Leftover(o) => Leftover(o)'
  BY <1>2 DEF Leftover
<1>4. ReadAgain(o) => ReadAgain(o)'
  BY <1>1, <1>2 DEF ReadAgain
<1> QED BY <1>3, <1>4

LEMMA ContentsStay ==
  ASSUME NEW o \in Obj, Contents(o), o \in clashed => o \in clashed',
         objs[o].disk => SameFile(o),
         objs'[o].len = objs[o].len, objs'[o].mem = objs[o].mem, objs'[o].disk = objs[o].disk,
         objs'[o].file_name = objs[o].file_name, objs'[o].cont = objs[o].cont,
         objs'[o].refs = objs[o].refs, objs[o].dead => objs'[o].dead,
         use_disk_cache' = use_disk_cache, mode = "quit" => mode' = "quit",
         objs'[o].cut = objs[o].cut,
         objs[o].refs = 0 \/ mode = "quit" => (o \in behind => o \in behind')
  PROVE  Contents(o)'
<1>1. Body(o)' = Body(o) /\ Name(o)' = Name(o) /\ Mishap(o)' = Mishap(o)
      /\ (Leftover(o) => Leftover(o)') /\ (ReadAgain(o) => ReadAgain(o)')
  BY PiecesStay DEF Body, Name, Mishap
<1>2. objs[o].mem => Unwritten(o)' \/ ReadBack(o)' \/ Spoilt(o)'
  <2>1. CASE Unwritten(o)
    BY <2>1, <1>1 DEF Unwritten
  <2>2. CASE ReadBack(o)
    BY <2>2, <1>1 DEF ReadBack, SameFile
  <2>3. CASE Spoilt(o)
    BY <2>3 DEF Spoilt
  <2> QED BY <2>1, <2>2, <2>3 DEF Contents
<1>3. ~objs[o].mem => ToRead(o)'
  BY <1>1 DEF Contents, ToRead, SameFile
<1>4. objs[o].disk => use_disk_cache' /\ OnFile(o)'
  BY OnFileStays DEF Contents
<1> QED BY <1>2, <1>3, <1>4 DEF Contents

LEMMA NamesStay ==
  ASSUME Types, Names, clashed \subseteq clashed', runs' = runs, mode' = "down" \/ mode # "down",
         mode' # "down" => count_file_name' = count_file_name /\ clock' \in Nat /\ clock' >= clock,
         \A o \in Obj : objs'[o].file_name = objs[o].file_name /\ objs'[o].run = objs[o].run
  PROVE  Names'
<1>1. clock \in Nat /\ count_file_name \in Nat /\ runs \in Nat
  BY DiskAssumption DEF Types
<1>2. \A o \in Obj : Name(o)' = Name(o) /\ Name(o) \in Nat /\ objs[o].run \in Nat
  BY ObjFields DEF Name
<1>3. \A o \in Obj : (objs[o].run <= runs)'
  BY DEF Names
<1>4. ASSUME mode' # "down", NEW o \in Obj, objs'[o].run = runs', Name(o)' # 0
      PROVE  Name(o)' < clock' + count_file_name'
  <2>1. Name(o) < clock + count_file_name
    BY <1>2, <1>4 DEF Names
  <2> QED BY <1>1, <1>2, <1>4, <2>1
<1>5. ASSUME NEW o \in Obj, NEW p \in Obj, o # p, Name(o)' = Name(p)', Name(o)' # 0
      PROVE  o \in clashed'
  BY <1>2, <1>5 DEF Names
<1> QED BY <1>3, <1>4, <1>5 DEF Names

LEMMA SomeObjects ==
  ASSUME NEW S \in SUBSET Obj
  PROVE  IsFiniteSet(S) /\ Cardinality(S) \in Nat /\ Cardinality(S) <= MaxObj
<1>1. IsFiniteSet(Obj) /\ Cardinality(Obj) = MaxObj
  <2>1. MaxObj \in Nat /\ 1 \in Nat
    BY DiskAssumption
  <2>2. IsFiniteSet(1..MaxObj)
    BY <2>1, FS_Interval
  <2>3. Cardinality(1..MaxObj) = IF 1 > MaxObj THEN 0 ELSE MaxObj - 1 + 1
    BY <2>1, FS_Interval
  <2> QED BY <2>1, <2>2, <2>3 DEF Obj
<1>2. IsFiniteSet(S) /\ Cardinality(S) <= Cardinality(Obj)
  BY <1>1, FS_Subset
<1> QED BY <1>1, <1>2, FS_CardinalityType

LEMMA NamelessFinite == IsFiniteSet(Nameless) /\ Cardinality(Nameless) \in Nat
<1>1. Nameless \in SUBSET Obj
  BY DEF Nameless
<1> QED BY <1>1, SomeObjects

LEMMA CountedStays ==
  ASSUME Types, Counted, count_file_name' = count_file_name, Nameless' \subseteq Nameless
  PROVE  Counted'
<1>1. Cardinality(Nameless') <= Cardinality(Nameless) /\ Cardinality(Nameless') \in Nat
  <2>1. IsFiniteSet(Nameless)
    BY NamelessFinite
  <2>2. IsFiniteSet(Nameless') /\ Cardinality(Nameless') <= Cardinality(Nameless)
    BY <2>1, FS_Subset
  <2> QED BY <2>2, FS_CardinalityType
<1>2. Cardinality(Nameless) \in Nat
  BY NamelessFinite
<1>3. count_file_name \in Nat /\ MaxObj \in Nat
  BY DiskAssumption DEF Types
<1> QED BY <1>1, <1>2, <1>3 DEF Counted

-----------------------------------------------------------------------------
(* Steps that change one object in memory, and not its name.               *)
Touches(o) ==
  /\ o \in Cached /\ mode # "down"
  /\ UNCHANGED <<procVars, count_file_name, made, diskVars, histVars>>
  /\ list' \in Seq(Obj) /\ Cached' = Cached
  /\ behind' \subseteq Cached /\ behind' \ {o} = behind \ {o}
  /\ objs' \in [Obj -> ObjType] /\ \A p \in Obj \ {o} : objs'[p] = objs[p]
  /\ objs'[o].len = objs[o].len /\ objs'[o].file_name = objs[o].file_name
  /\ objs'[o].run = objs[o].run

LEMMA TouchStep ==
  ASSUME DiskIInv, NEW o \in Obj, Touches(o), Contents(o)',
         mode = "quit" /\ o \in due =>
           objs'[o].dead \/ (o \notin behind' /\ (objs'[o].disk => Safe(o)))
  PROVE  DiskIInv'
<1>1. Types /\ Names /\ Counted /\ Promised
  BY DEF DiskIInv
<1>2. UNCHANGED <<clock, runs, use_disk_cache, mode, count_file_name, made, files, index,
                  clashed, short, due>>
  BY DEF Touches, procVars, diskVars, histVars
<1>3. Types'
  <2>1. Indexed' = Indexed /\ Cached' = Cached
    BY <1>2 DEF Touches, Indexed, Among
  <2>2. mode # "down"
    BY DEF Touches
  <2> QED BY <1>1, <1>2, <2>1, <2>2 DEF Types, Touches, NoIndex
<1>4. \A p \in Obj : objs'[p].file_name = objs[p].file_name /\ objs'[p].run = objs[p].run
                     /\ objs'[p].len = objs[p].len
  BY DEF Touches
<1>5. Names'
  <2>1. clock' \in Nat /\ clock' >= clock
    BY <1>1, <1>2, DiskAssumption DEF Types
  <2>2. mode # "down"
    BY DEF Touches
  <2> QED BY <1>1, <1>2, <1>4, <2>1, <2>2, NamesStay
<1>6. Counted'
  <2>1. Nameless' = Nameless
    BY <1>2, <1>4 DEF Nameless, Name, Touches
  <2> QED BY <1>1, <1>2, <2>1, CountedStays
<1>7. \A p \in Obj : SameFile(p)
  BY <1>2 DEF SameFile
<1>8. ASSUME NEW p \in Cached' PROVE Contents(p)'
  <2>1. p \in Obj /\ p \in Cached
    BY <1>1, InCache DEF Touches
  <2>2. CASE p # o
    <3>1. Contents(p) /\ objs'[p] = objs[p] /\ (p \in behind => p \in behind')
      BY <2>1, <2>2 DEF Touches, DiskIInv
    <3> QED BY <1>2, <1>7, <2>1, <3>1, ContentsStay
  <2> QED BY <2>2
<1>9. ASSUME NEW p \in Indexed' PROVE Recorded(p)'
  <2>1. p \in Indexed /\ p \in Obj /\ Recorded(p)
    BY <1>2 DEF Indexed, Among, DiskIInv
  <2>2. OnFile(p)'
    BY <1>2, <1>4, <1>7, <2>1, OnFileStays DEF Recorded
  <2>3. p \in Cached' \/ (objs[p] = OnDisk(p))'
    <3>1. CASE p \in Cached
      BY <3>1 DEF Touches
    <3>2. CASE p \notin Cached
      <4>1. objs'[p] = objs[p] /\ objs[p] = OnDisk(p)
        BY <2>1, <3>2 DEF Recorded, Touches
      <4> QED BY <4>1 DEF OnDisk
    <3> QED BY <3>1, <3>2
  <2> QED BY <2>2, <2>3 DEF Recorded
<1>10. Promised'
  <2>1. mode' # "down"
    BY <1>2 DEF Touches
  <2>2. \A p \in Obj : Safe(p)' <=> Safe(p)
    BY <1>2, <1>4 DEF Safe, Body, Name
  <2>3. ASSUME mode' = "quit", NEW p \in due'
        PROVE  (objs[p].dead \/ (p \in Cached \ behind /\ (objs[p].disk => Safe(p))))'
    <3>1. p \in due /\ p \in Obj /\ mode = "quit"
      BY <1>1, <1>2, <2>3 DEF Types
    <3>2. CASE p = o
      BY <3>1, <3>2, <2>2 DEF Touches
    <3>3. CASE p # o
      <4>1. objs'[p] = objs[p] /\ (p \in behind <=> p \in behind') /\ Cached' = Cached
        BY <3>1, <3>3 DEF Touches
      <4>2. objs[p].dead \/ (p \in Cached \ behind /\ (objs[p].disk => Safe(p)))
        BY <1>1, <3>1 DEF Promised
      <4> QED BY <2>2, <3>1, <4>1, <4>2
    <3> QED BY <3>2, <3>3
  <2> QED BY <2>1, <2>3 DEF Promised
<1> QED BY <1>3, <1>5, <1>6, <1>8, <1>9, <1>10 DEF DiskIInv

LEMMA ChangesTouch ==
  ASSUME Types, NEW o \in Cached, mode # "down", NEW new \in ObjType, Changes(o, new),
         new.len = objs[o].len, new.file_name = objs[o].file_name, new.run = objs[o].run
  PROVE  Touches(o) /\ objs'[o] = new /\ behind' = behind
<1>1. o \in Obj
  BY InCache
<1>2. UNCHANGED <<procVars, count_file_name, listVars, diskVars, histVars>>
      /\ objs' = [objs EXCEPT ![o] = new]
  BY DEF Changes
<1>3. list' = list /\ behind' = behind /\ made' = made
  BY <1>2 DEF listVars
<1>4. Cached' = Cached /\ list' \in Seq(Obj) /\ behind' \subseteq Cached
  BY <1>3 DEF Cached, Among, Types
<1>5. objs \in [Obj -> ObjType]
  BY DEF Types
<1>6. objs' \in [Obj -> ObjType] /\ objs'[o] = new /\ \A p \in Obj \ {o} : objs'[p] = objs[p]
  BY <1>1, <1>2, <1>5
<1> QED BY <1>2, <1>3, <1>4, <1>6 DEF Touches

(* An object that is moved to the end stays in the list.                   *)
LEMMA MoveOK ==
  ASSUME Types, NEW o \in Cached
  PROVE  /\ Append(Without(o), o) \in Seq(Obj)
         /\ Among(Append(Without(o), o)) = Cached
<1>1. list \in Seq(Obj) /\ o \in Obj
  BY InCache DEF Types
<1>2. Without(o) \in Seq(Obj) /\ Among(Without(o)) = Cached \ {o}
  BY <1>1, SelectedOK DEF Without, Cached
<1>3. /\ Append(Without(o), o) \in Seq(Obj)
      /\ Among(Append(Without(o), o)) = Among(Without(o)) \cup {o}
  BY <1>1, <1>2, AmongAppend
<1> QED BY <1>2, <1>3

LEMMA LeavesTouch ==
  ASSUME Types, NEW o \in Obj, NEW new \in ObjType, Leaves(o, new),
         new.len = objs[o].len, new.file_name = objs[o].file_name, new.run = objs[o].run,
         new.refs = objs[o].refs
  PROVE  /\ Touches(o) /\ behind' = behind \ {o} /\ mode = "up" /\ objs[o].refs > 0
         /\ objs'[o].mem = new.mem /\ objs'[o].disk = new.disk /\ objs'[o].dead = new.dead
         /\ objs'[o].cont = new.cont /\ objs'[o].cut = new.cut
<1>1. /\ o \in Cached /\ mode = "up" /\ objs[o].refs > 0
      /\ list' = Append(Without(o), o) /\ behind' = behind \ {o}
      /\ UNCHANGED <<procVars, count_file_name, made, diskVars, histVars>>
      /\ objs' = [objs EXCEPT ![o] = [new EXCEPT !.refs = @ - 1]]
  BY DEF Leaves
<1>2. list' \in Seq(Obj) /\ Cached' = Cached
  BY <1>1, MoveOK DEF Cached
<1>3. behind' \subseteq Cached /\ behind' \ {o} = behind \ {o}
  BY <1>1 DEF Types
<1>4. new.refs \in Nat /\ new.refs - 1 \in Nat
  BY <1>1, ObjFields
<1> DEFINE left == [new EXCEPT !.refs = @ - 1]
<1>5. /\ left \in ObjType /\ left.len = new.len /\ left.file_name = new.file_name
      /\ left.run = new.run /\ left.mem = new.mem /\ left.disk = new.disk
      /\ left.dead = new.dead /\ left.cont = new.cont /\ left.cut = new.cut
  BY <1>4 DEF ObjType
<1>6. objs' = [objs EXCEPT ![o] = left] /\ objs \in [Obj -> ObjType]
  BY <1>1 DEF Types
<1> HIDE DEF left
<1>7. objs' \in [Obj -> ObjType] /\ objs'[o] = left /\ \A p \in Obj \ {o} : objs'[p] = objs[p]
  BY <1>5, <1>6
<1> QED BY <1>1, <1>2, <1>3, <1>5, <1>7 DEF Touches

(* What stays of an object that is touched.                                *)
LEMMA TouchedFrame ==
  ASSUME Types, NEW o \in Obj, Touches(o)
  PROVE  /\ mode' = mode /\ use_disk_cache' = use_disk_cache /\ files' = files
         /\ clashed' = clashed /\ short' = short
         /\ Body(o)' = Body(o) /\ Name(o)' = Name(o) /\ Holds(o)' = Holds(o)
         /\ (OnFile(o) => OnFile(o)')
<1>1. /\ mode' = mode /\ use_disk_cache' = use_disk_cache /\ files' = files
      /\ clashed' = clashed /\ short' = short
  BY DEF Touches, procVars, diskVars, histVars
<1>2. Body(o)' = Body(o) /\ Name(o)' = Name(o)
  BY DEF Body, Name, Touches
<1>3. Holds(o)' = Holds(o)
  BY <1>1, <1>2 DEF Holds, Touches, Upto
<1>4. OnFile(o) => OnFile(o)'
  BY <1>1, <1>2, <1>3 DEF OnFile
<1> QED BY <1>1, <1>2, <1>3, <1>4

LEMMA TouchedContents ==
  ASSUME Types, NEW o \in Obj, Touches(o), Contents(o), ~Spoilt(o),
         objs'[o].mem = objs[o].mem, objs'[o].disk = objs[o].disk,
         objs'[o].cont = objs[o].cont, objs'[o].cut = objs[o].cut,
         objs[o].dead => objs'[o].dead
  PROVE  Contents(o)'
<1>1. /\ Body(o)' = Body(o) /\ Name(o)' = Name(o) /\ files' = files /\ clashed' = clashed
      /\ use_disk_cache' = use_disk_cache /\ (OnFile(o) => OnFile(o)')
      /\ objs'[o].len = objs[o].len
  BY TouchedFrame DEF Touches
<1>2. Mishap(o)' = Mishap(o)
  BY DEF Mishap, Among
<1>3. Unwritten(o) => Unwritten(o)'
  BY <1>1 DEF Unwritten
<1>4. (Leftover(o) => Leftover(o)') /\ (ReadAgain(o) => ReadAgain(o)')
  BY <1>1, PiecesStay
<1>5. ReadBack(o) => ReadBack(o)'
  BY <1>1, <1>2, <1>4 DEF ReadBack
<1>6. ToRead(o) => ToRead(o)'
  BY <1>1, <1>2, <1>4 DEF ToRead
<1> QED BY <1>1, <1>3, <1>5, <1>6 DEF Contents

-----------------------------------------------------------------------------
(* The requests.                                                           *)

LEMMA LocateStep ==
  ASSUME DiskIInv, NEW o \in Obj, Locate(o)
  PROVE  DiskIInv'
<1>1. Types /\ o \in Cached /\ ~objs[o].dead /\ mode = "up" /\ Contents(o)
  BY DEF Locate, DiskIInv, Live
<1> DEFINE new == [objs[o] EXCEPT !.refs = @ + 1]
<1>2. objs[o] \in ObjType /\ objs[o].refs \in Nat
  BY <1>1, ObjFields
<1>3. /\ new \in ObjType /\ new.len = objs[o].len /\ new.file_name = objs[o].file_name
      /\ new.run = objs[o].run /\ new.mem = objs[o].mem /\ new.disk = objs[o].disk
      /\ new.dead = objs[o].dead /\ new.cont = objs[o].cont /\ new.cut = objs[o].cut
  BY <1>2 DEF ObjType
<1>4. Changes(o, new)
  BY DEF Locate
<1> HIDE DEF new
<1>5. Touches(o) /\ objs'[o] = new /\ behind' = behind
  BY <1>1, <1>3, <1>4, ChangesTouch
<1>6. ~Spoilt(o)
  BY <1>1 DEF Spoilt
<1>7. Contents(o)'
  BY <1>1, <1>3, <1>5, <1>6, TouchedContents
<1> QED BY <1>1, <1>5, <1>7, TouchStep

LEMMA LeaveStep ==
  ASSUME DiskIInv, NEW o \in Obj, Leave(o)
  PROVE  DiskIInv'
<1>1. Types /\ objs[o] \in ObjType /\ o \in Cached
  BY ObjFields DEF DiskIInv, Leave, Leaves
<1>2. /\ Touches(o) /\ behind' = behind \ {o} /\ mode = "up" /\ objs[o].refs > 0
      /\ objs'[o].mem = objs[o].mem /\ objs'[o].disk = objs[o].disk
      /\ objs'[o].dead = objs[o].dead /\ objs'[o].cont = objs[o].cont
      /\ objs'[o].cut = objs[o].cut
  BY <1>1, LeavesTouch DEF Leave
<1>3. Contents(o) /\ ~Spoilt(o)
  BY <1>1, <1>2 DEF DiskIInv, Spoilt
<1>4. Contents(o)'
  BY <1>1, <1>2, <1>3, TouchedContents
<1> QED BY <1>2, <1>4, TouchStep

LEMMA PassOverStep ==
  ASSUME DiskIInv, NEW o \in Obj, PassOver(o)
  PROVE  DiskIInv'
<1>1. /\ Types /\ o \in Cached /\ mode = "up" /\ behind' = behind \cup {o}
      /\ UNCHANGED <<procVars, count_file_name, list, made, objs, diskVars, histVars>>
      /\ objs[o].refs > 0
  BY DEF PassOver, DiskIInv
<1>2. Cached' = Cached /\ list' \in Seq(Obj)
  BY <1>1 DEF Cached, Among, Types
<1>3. Touches(o)
  BY <1>1, <1>2 DEF Touches, Types
<1>4. Contents(o) /\ ~Spoilt(o)
  BY <1>1, ObjFields DEF DiskIInv, Spoilt
<1>5. Contents(o)'
  BY <1>1, <1>3, <1>4, TouchedContents
<1> QED BY <1>1, <1>3, <1>5, TouchStep

(* What a read of n pieces leaves in the container.                        *)
More(o, n) == objs[o].cont \o Upto(files[Name(o)], n)

LEMMA JoinOK ==
  ASSUME NEW s \in Seq(Piece), NEW t \in Seq(Piece)
  PROVE  /\ s \o t \in Seq(Piece) /\ Len(s \o t) = Len(s) + Len(t)
         /\ \A i \in 1..Len(s) : (s \o t)[i] = s[i]
         /\ \A i \in 1..Len(t) : (s \o t)[Len(s) + i] = t[i]
         /\ Among(s) \subseteq Among(s \o t)
         /\ \A S : Among(s) \subseteq S /\ Among(t) \subseteq S =>
              \A k \in 1..Len(s \o t) : (s \o t)[k] \in S
<1>1. /\ s \o t \in Seq(Piece) /\ Len(s \o t) = Len(s) + Len(t)
      /\ \A i \in 1..Len(s) : (s \o t)[i] = s[i]
      /\ \A i \in 1..Len(t) : (s \o t)[Len(s) + i] = t[i]
  OBVIOUS
<1>2. Len(s) \in Nat /\ Len(t) \in Nat
  OBVIOUS
<1>3. Among(s) \subseteq Among(s \o t)
  BY <1>1, <1>2 DEF Among
<1>4. ASSUME NEW S, Among(s) \subseteq S, Among(t) \subseteq S,
             NEW k \in 1..Len(s \o t)
      PROVE  (s \o t)[k] \in S
  <2>1. CASE k <= Len(s)
    <3>1. k \in 1..Len(s)
      BY <1>2, <2>1
    <3> QED BY <1>1, <1>4, <3>1 DEF Among
  <2>2. CASE k > Len(s)
    <3>1. k - Len(s) \in 1..Len(t) /\ k = Len(s) + (k - Len(s))
      BY <1>1, <1>2, <2>2
    <3>2. (s \o t)[k] = t[k - Len(s)]
      BY <1>1, <3>1
    <3> QED BY <1>4, <3>1, <3>2 DEF Among
  <2>3. k \in Int
    BY <1>1, <1>2
  <2> QED BY <1>2, <2>1, <2>2, <2>3
<1> QED BY <1>1, <1>3, <1>4

LEMMA ReadOK ==
  ASSUME DiskIInv, NEW o \in Obj, NEW n, Reads(o, n)
  PROVE  /\ o \in Cached /\ mode = "up" /\ objs[o].refs > 0 /\ ~objs[o].mem /\ objs[o].disk
         /\ ToRead(o) /\ OnFile(o) /\ use_disk_cache
         /\ files[Name(o)] # NoFile /\ n \in 0..Len(files[Name(o)])
         /\ files[Name(o)] \in Seq(Piece) /\ objs[o].cont \in Seq(Piece)
         /\ Upto(files[Name(o)], n) \in Seq(Piece) /\ More(o, n) \in Seq(Piece)
         /\ Mishap(o) => Unusable \in Among(More(o, n))
<1>1. /\ o \in Cached /\ mode = "up" /\ objs[o].refs > 0 /\ ~objs[o].mem /\ objs[o].disk
      /\ Types /\ Contents(o) /\ files[Name(o)] # NoFile /\ n \in 0..Len(files[Name(o)])
  BY DEF Reads, Opens, CanRead, DiskIInv
<1>2. ToRead(o) /\ OnFile(o) /\ use_disk_cache
  BY <1>1 DEF Contents
<1>3. files[Name(o)] \in Seq(Piece) /\ objs[o].cont \in Seq(Piece)
  BY <1>1, <1>2, ObjFields DEF OnFile, Types
<1>4. PICK file \in Seq(Piece) : file = files[Name(o)]
  BY <1>3
<1>5. Upto(file, n) \in Seq(Piece)
  BY <1>1, <1>4, UptoOK
<1>6. PICK cont \in Seq(Piece), got \in Seq(Piece) :
        cont = objs[o].cont /\ got = Upto(files[Name(o)], n)
  BY <1>3, <1>4, <1>5
<1>7. cont \o got \in Seq(Piece) /\ Among(cont) \subseteq Among(cont \o got)
  BY JoinOK
<1>8. More(o, n) = cont \o got
  BY <1>6 DEF More
<1> QED BY <1>1, <1>2, <1>3, <1>6, <1>7, <1>8 DEF Mishap

(* A whole body, read behind pieces of its own.                            *)
LEMMA WholeBehind ==
  ASSUME Types, NEW o \in Obj, files[Name(o)] = Body(o), NEW n, n = objs[o].len,
         \A k \in 1..Len(objs[o].cont) : objs[o].cont[k] \in Among(Body(o))
  PROVE  /\ objs[o].cont = <<>> => More(o, n) = Body(o)
         /\ Len(More(o, n)) - objs[o].len >= 0
         /\ \A k \in 1..Len(More(o, n)) : More(o, n)[k] \in Among(Body(o))
         /\ \A k \in 1..objs[o].len :
              More(o, n)[Len(More(o, n)) - objs[o].len + k] = Body(o)[k]
<1>1. PICK body \in Seq(Piece), cont \in Seq(Piece) :
        body = Body(o) /\ cont = objs[o].cont /\ Len(body) = objs[o].len
  BY ObjFields, BodyOK
<1>2. Upto(files[Name(o)], n) = body
  BY <1>1, UptoAll
<1>3. More(o, n) = cont \o body
  BY <1>1, <1>2 DEF More
<1>4. /\ Len(cont \o body) = Len(cont) + Len(body)
      /\ \A i \in 1..Len(body) : (cont \o body)[Len(cont) + i] = body[i]
      /\ Among(cont) \subseteq Among(body) /\ Among(body) \subseteq Among(body) =>
           \A k \in 1..Len(cont \o body) : (cont \o body)[k] \in Among(body)
  BY JoinOK
<1>5. Among(cont) \subseteq Among(body)
  <2>1. \A k \in 1..Len(cont) : cont[k] \in Among(body)
    BY <1>1
  <2> QED BY <2>1, AmongWithin
<1>6. Len(cont) \in Nat /\ Len(body) \in Nat
  OBVIOUS
<1>7. Len(cont \o body) - Len(body) = Len(cont)
  BY <1>4, <1>6
<1>8. cont = <<>> => cont \o body = body
  OBVIOUS
<1>9. objs[o].cont = <<>> => More(o, n) = Body(o)
  BY <1>1, <1>3, <1>8
<1>10. Len(More(o, n)) - objs[o].len = Len(cont)
  BY <1>1, <1>3, <1>7
<1>11. \A k \in 1..Len(More(o, n)) : More(o, n)[k] \in Among(Body(o))
  BY <1>1, <1>3, <1>4, <1>5
<1>12. \A k \in 1..objs[o].len : More(o, n)[Len(cont) + k] = Body(o)[k]
  BY <1>1, <1>3, <1>4
<1> QED BY <1>6, <1>9, <1>10, <1>11, <1>12

LEMMA SwapInStep ==
  ASSUME DiskIInv, NEW o \in Obj, NEW n, SwapIn(o, n)
  PROVE  DiskIInv'
<1>1. Reads(o, n) /\ n = objs[o].len /\ Types /\ objs[o] \in ObjType
  BY ObjFields DEF SwapIn, LengthFits, DiskIInv
<1>2. /\ o \in Cached /\ mode = "up" /\ objs[o].refs > 0 /\ ~objs[o].mem /\ objs[o].disk
      /\ ToRead(o) /\ OnFile(o) /\ use_disk_cache
      /\ files[Name(o)] # NoFile /\ n \in 0..Len(files[Name(o)])
      /\ files[Name(o)] \in Seq(Piece) /\ objs[o].cont \in Seq(Piece)
      /\ More(o, n) \in Seq(Piece)
      /\ (Mishap(o) => Unusable \in Among(More(o, n)))
  BY <1>1, ReadOK
<1> DEFINE new == [objs[o] EXCEPT !.cont = More(o, n), !.mem = TRUE]
<1>3. /\ new \in ObjType /\ new.len = objs[o].len /\ new.file_name = objs[o].file_name
      /\ new.run = objs[o].run /\ new.mem /\ new.disk = objs[o].disk
      /\ new.cont = More(o, n) /\ new.cut = objs[o].cut /\ new.dead = objs[o].dead
  BY <1>1, <1>2 DEF ObjType
<1>4. Changes(o, new)
  <2>1. [WithRead(o, n) EXCEPT !.mem = TRUE] = new
    BY <1>1 DEF WithRead, ObjType, More
  <2> QED BY <2>1 DEF SwapIn
<1> HIDE DEF new
<1>5. Touches(o) /\ objs'[o] = new /\ behind' = behind
  BY <1>1, <1>2, <1>3, <1>4, ChangesTouch
<1>6. /\ Body(o)' = Body(o) /\ Name(o)' = Name(o) /\ files' = files /\ clashed' = clashed
      /\ use_disk_cache' = use_disk_cache /\ OnFile(o)'
  BY <1>1, <1>2, <1>5, TouchedFrame
<1>7. ASSUME o \notin clashed
      PROVE  files[Name(o)] = Body(o)
  <2>1. Holds(o)
    BY <1>2, <1>7 DEF OnFile
  <2>2. PICK k \in 0..objs[o].len : files[Name(o)] = Upto(Body(o), k)
    BY <1>2, <2>1 DEF Holds
  <2>3. Body(o) \in Seq(Piece) /\ Len(Body(o)) = objs[o].len /\ objs[o].len \in Nat
    BY <1>1, ObjFields, BodyOK
  <2>4. Len(files[Name(o)]) = k
    BY <2>2, <2>3, UptoOK
  <2>5. Len(files[Name(o)]) = objs[o].len
    BY <1>1, <1>2, <2>3, <2>4
  <2> QED BY <1>1, <1>2, <2>1, <2>5, WholeFile
<1>8. objs'[o].disk /\ objs'[o].cont = More(o, n) /\ objs'[o].len = objs[o].len
      /\ objs'[o].cut = objs[o].cut /\ objs'[o].dead = objs[o].dead
  BY <1>2, <1>3, <1>5
<1>9. ASSUME o \notin clashed PROVE (objs[o].cont = Body(o) \/ Mishap(o) \/ ReadAgain(o))'
  <2>1. files[Name(o)] = Body(o)
    BY <1>7, <1>9
  <2>2. CASE Mishap(o)
    BY <1>2, <1>8, <2>2 DEF Mishap, Among
  <2>3. CASE objs[o].cont = <<>>
    <3>1. \A k \in 1..Len(objs[o].cont) : objs[o].cont[k] \in Among(Body(o))
      BY <2>3
    <3>2. More(o, n) = Body(o)
      BY <1>1, <2>1, <2>3, <3>1, WholeBehind
    <3> QED BY <1>6, <1>8, <3>2
  <2>4. CASE Leftover(o)
    <3>1. /\ Len(More(o, n)) - objs[o].len >= 0
          /\ \A k \in 1..Len(More(o, n)) : More(o, n)[k] \in Among(Body(o))
          /\ \A k \in 1..objs[o].len :
               More(o, n)[Len(More(o, n)) - objs[o].len + k] = Body(o)[k]
      BY <1>1, <2>1, <2>4, WholeBehind DEF Leftover
    <3>2. objs'[o].cut /\ objs'[o].dead /\ Among(Body(o))' = Among(Body(o))
      BY <1>6, <1>8, <2>4 DEF Leftover, Among
    <3> QED BY <1>6, <1>8, <3>1, <3>2 DEF ReadAgain
  <2>5. Len(files[Name(o)]) = objs[o].len
    BY <1>1, <2>1, ObjFields, BodyOK
  <2> QED BY <1>2, <1>9, <2>2, <2>3, <2>4, <2>5 DEF ToRead
<1>10. ReadBack(o)'
  BY <1>6, <1>7, <1>8, <1>9 DEF ReadBack
<1>11. Contents(o)'
  BY <1>2, <1>3, <1>5, <1>6, <1>10 DEF Contents
<1> QED BY <1>2, <1>5, <1>11, TouchStep

LEMMA SwapInMisfitsStep ==
  ASSUME DiskIInv, NEW o \in Obj, NEW n, SwapInMisfits(o, n)
  PROVE  DiskIInv'
<1>1. Reads(o, n) /\ n # objs[o].len /\ Types /\ objs[o] \in ObjType
  BY ObjFields DEF SwapInMisfits, LengthFits, DiskIInv
<1>2. /\ o \in Cached /\ mode = "up" /\ ~objs[o].mem /\ objs[o].disk
      /\ ToRead(o) /\ OnFile(o) /\ use_disk_cache
      /\ files[Name(o)] # NoFile /\ n \in 0..Len(files[Name(o)])
      /\ files[Name(o)] \in Seq(Piece) /\ objs[o].cont \in Seq(Piece)
      /\ Upto(files[Name(o)], n) \in Seq(Piece) /\ More(o, n) \in Seq(Piece)
      /\ (Mishap(o) => Unusable \in Among(More(o, n)))
  BY <1>1, ReadOK
<1> DEFINE new == [objs[o] EXCEPT !.cont = More(o, n), !.dead = TRUE, !.cut = Cut(o, n)]
<1>3. /\ new \in ObjType /\ new.len = objs[o].len /\ new.file_name = objs[o].file_name
      /\ new.run = objs[o].run /\ new.mem = objs[o].mem /\ new.disk = objs[o].disk
      /\ new.refs = objs[o].refs /\ new.dead /\ new.cont = More(o, n) /\ new.cut = Cut(o, n)
  <2>1. Cut(o, n) \in BOOLEAN
    BY <1>1, ObjFields DEF Cut
  <2> QED BY <1>1, <1>2, <2>1 DEF ObjType
<1>4. Leaves(o, new)
  <2>1. [WithRead(o, n) EXCEPT !.dead = TRUE, !.cut = Cut(o, n)] = new
    BY <1>1 DEF WithRead, ObjType, More
  <2> QED BY <2>1 DEF SwapInMisfits
<1> HIDE DEF new
<1>5. /\ Touches(o) /\ objs'[o].mem = objs[o].mem /\ objs'[o].disk = objs[o].disk
      /\ objs'[o].cont = More(o, n) /\ objs'[o].dead /\ objs'[o].cut = Cut(o, n)
  BY <1>1, <1>3, <1>4, LeavesTouch
<1>6. /\ Body(o)' = Body(o) /\ Name(o)' = Name(o) /\ files' = files /\ clashed' = clashed
      /\ use_disk_cache' = use_disk_cache /\ OnFile(o)' /\ objs'[o].len = objs[o].len
  BY <1>1, <1>2, <1>5, TouchedFrame DEF Touches
<1>7. ToRead(o)'
  <2>1. CASE o \in clashed
    BY <1>2, <1>5, <1>6, <2>1 DEF ToRead
  <2>2. CASE Mishap(o)
    <3>1. Mishap(o)'
      BY <1>2, <1>5, <2>2 DEF Mishap, Among
    <3> QED BY <1>2, <1>5, <3>1 DEF ToRead
  <2>3. CASE Len(files[Name(o)]) # objs[o].len
    BY <1>2, <1>5, <1>6, <2>3 DEF ToRead
  <2>4. CASE /\ o \notin clashed /\ ~Mishap(o)
             /\ Len(files[Name(o)]) = objs[o].len
    <3>1. files[Name(o)] = Body(o)
      BY <1>1, <1>2, <2>4, WholeFile DEF OnFile
    <3>2. n < Len(files[Name(o)])
      BY <1>1, <1>2, <2>4, ObjFields
    <3>3. \A k \in 1..Len(objs[o].cont) : objs[o].cont[k] \in Among(Body(o))
      BY <1>2, <2>4 DEF ToRead, Leftover
    <3>4. PICK body \in Seq(Piece), cont \in Seq(Piece), got \in Seq(Piece) :
            body = Body(o) /\ cont = objs[o].cont /\ got = Upto(body, n)
            /\ n \in 0..Len(body)
      BY <1>2, <3>1
    <3>5. Among(got) \subseteq Among(body)
      BY <3>4, UptoOK
    <3>6. Among(cont) \subseteq Among(body)
      <4>1. \A k \in 1..Len(cont) : cont[k] \in Among(body)
        BY <3>3, <3>4
      <4> QED BY <4>1, AmongWithin
    <3>7. \A k \in 1..Len(cont \o got) : (cont \o got)[k] \in Among(body)
      BY <3>5, <3>6, JoinOK
    <3>8. objs'[o].cont = cont \o got
      BY <1>5, <3>1, <3>4 DEF More
    <3>9. Among(Body(o))' = Among(body)
      <4>1. Body(o)' = body
        BY <1>6, <3>4
      <4> QED BY <4>1 DEF Among
    <3>10. objs'[o].cut
      BY <1>5, <3>2 DEF Cut
    <3>11. Leftover(o)'
      BY <1>5, <3>7, <3>8, <3>9, <3>10 DEF Leftover
    <3> QED BY <1>2, <1>5, <3>11 DEF ToRead
  <2> QED BY <2>1, <2>2, <2>3, <2>4
<1>8. Contents(o)'
  BY <1>2, <1>5, <1>6, <1>7 DEF Contents
<1> QED BY <1>2, <1>5, <1>8, TouchStep

LEMMA SwapInFailsStep ==
  ASSUME DiskIInv, NEW o \in Obj, SwapInFails(o)
  PROVE  DiskIInv'
<1>1. /\ o \in Cached /\ mode = "up" /\ ~objs[o].mem /\ Types /\ objs[o] \in ObjType
      /\ Contents(o)
  BY ObjFields DEF SwapInFails, CanRead, DiskIInv
<1> DEFINE new == [objs[o] EXCEPT !.dead = TRUE]
<1>2. /\ new \in ObjType /\ new.len = objs[o].len /\ new.file_name = objs[o].file_name
      /\ new.run = objs[o].run /\ new.mem = objs[o].mem /\ new.disk = objs[o].disk
      /\ new.refs = objs[o].refs /\ new.cont = objs[o].cont /\ new.cut = objs[o].cut
      /\ new.dead
  BY <1>1 DEF ObjType
<1>3. Leaves(o, new)
  BY DEF SwapInFails
<1> HIDE DEF new
<1>4. /\ Touches(o) /\ objs'[o].mem = objs[o].mem /\ objs'[o].disk = objs[o].disk
      /\ objs'[o].cont = objs[o].cont /\ objs'[o].cut = objs[o].cut /\ objs'[o].dead
  BY <1>1, <1>2, <1>3, LeavesTouch
<1>5. ~Spoilt(o)
  BY <1>1 DEF Contents, Spoilt, ToRead
<1>6. Contents(o)'
  BY <1>1, <1>4, <1>5, TouchedContents
<1> QED BY <1>1, <1>4, <1>6, TouchStep

LEMMA SwapInFreesStep ==
  ASSUME DiskIInv, NEW o \in Obj, SwapInFrees(o)
  PROVE  DiskIInv'
<1>1. Opens(o) /\ Types /\ objs[o] \in ObjType
  BY ObjFields DEF SwapInFrees, DiskIInv
<1>2. /\ o \in Cached /\ mode = "up" /\ ~objs[o].mem /\ objs[o].disk /\ OnFile(o)
      /\ use_disk_cache
  BY <1>1 DEF Opens, CanRead, DiskIInv, Contents
<1> DEFINE new == [objs[o] EXCEPT !.dead = TRUE, !.cont = <<Unusable>>]
<1>3. <<Unusable>> \in Seq(Piece) /\ Unusable \in Among(<<Unusable>>)
  <2>1. Unusable \in Piece
    BY DEF Unusable, Piece
  <2>2. \A x : Len(<<x>>) = 1 /\ <<x>>[1] = x
    OBVIOUS
  <2> QED BY <2>1, <2>2 DEF Among
<1>4. /\ new \in ObjType /\ new.len = objs[o].len /\ new.file_name = objs[o].file_name
      /\ new.run = objs[o].run /\ new.mem = objs[o].mem /\ new.disk = objs[o].disk
      /\ new.refs = objs[o].refs /\ new.cont = <<Unusable>>
  BY <1>1, <1>3 DEF ObjType
<1>5. Leaves(o, new)
  BY DEF SwapInFrees
<1> HIDE DEF new
<1>6. /\ Touches(o) /\ objs'[o].mem = objs[o].mem /\ objs'[o].disk = objs[o].disk
      /\ objs'[o].cont = <<Unusable>>
  BY <1>1, <1>4, <1>5, LeavesTouch
<1>7. Mishap(o)'
  BY <1>3, <1>6 DEF Mishap, Among
<1>8. Contents(o)'
  <2>1. OnFile(o)' /\ use_disk_cache' = use_disk_cache
    BY <1>1, <1>2, <1>6, TouchedFrame
  <2> QED BY <1>2, <1>6, <1>7, <2>1 DEF Contents, ToRead
<1> QED BY <1>2, <1>6, <1>8, TouchStep

-----------------------------------------------------------------------------
(* The collector writes.                                                   *)

LEMMA SwapOutAgainStep ==
  ASSUME DiskIInv, NEW o \in Obj, SwapOutAgain(o)
  PROVE  DiskIInv'
<1>1. /\ o \in Cached /\ mode # "down" /\ objs[o].mem /\ objs[o].disk /\ Types
      /\ objs[o] \in ObjType /\ Contents(o) /\ Promised
  BY ObjFields DEF SwapOutAgain, Saves, DiskIInv
<1> DEFINE new == [objs[o] EXCEPT !.mem = FALSE, !.cont = <<>>, !.cut = FALSE]
<1>2. /\ new \in ObjType /\ new.len = objs[o].len /\ new.file_name = objs[o].file_name
      /\ new.run = objs[o].run /\ ~new.mem /\ new.disk = objs[o].disk
      /\ new.dead = objs[o].dead /\ new.cont = <<>>
  <2>1. <<>> \in Seq(Piece)
    OBVIOUS
  <2> QED BY <1>1, <2>1 DEF ObjType
<1>3. Changes(o, new)
  BY DEF SwapOutAgain
<1> HIDE DEF new
<1>4. Touches(o) /\ objs'[o] = new /\ behind' = behind
  BY <1>1, <1>2, <1>3, ChangesTouch
<1>5. Contents(o)'
  <2>1. OnFile(o)' /\ use_disk_cache'
    BY <1>1, <1>4, TouchedFrame DEF Contents
  <2> QED BY <1>1, <1>2, <1>4, <2>1 DEF Contents, ToRead
<1>6. mode = "quit" /\ o \in due =>
        objs'[o].dead \/ (o \notin behind' /\ (objs'[o].disk => Safe(o)))
  BY <1>1, <1>2, <1>4 DEF Promised
<1> QED BY <1>1, <1>4, <1>5, <1>6, TouchStep

(* o gets the next name.                                                   *)
TakesName(o) ==
  /\ o \in Cached /\ Unwritten(o) /\ mode # "down" /\ Named(o)
  /\ objs' \in [Obj -> ObjType]
  /\ \A p \in Obj \ {o} : objs'[p] = objs[p]
  /\ objs'[o].file_name = Target(o) /\ objs'[o].run = runs
  /\ UNCHANGED <<procVars, list, made>>

(* It is a file's, and if it is another object's too then both are in      *)
(* clashed.                                                                *)
LEMMA NamingOK ==
  ASSUME DiskIInv, NEW o \in Obj, TakesName(o)
  PROVE  /\ Names' /\ Counted' /\ Target(o) \in FileName /\ count_file_name' \in Nat
         /\ clashed \subseteq clashed' /\ clashed' \subseteq Obj
         /\ \A p \in Obj \ {o} : Name(p) # Target(o) \/ (p \in clashed' /\ o \in clashed')
<1>1. Types /\ Names /\ Counted
  BY DEF DiskIInv
<1> DEFINE same == {p \in Obj \ {o} : Name(p) = Target(o) /\ objs[p].run < runs}
<1>2. /\ Name(o) = 0 /\ Target(o) = clock + count_file_name
      /\ count_file_name' = count_file_name + 1
      /\ clashed' = clashed \cup same \cup {p \in {o} : same # {}}
  BY DEF TakesName, Unwritten, Named, Target, NextName
<1>3. /\ clock \in Nat /\ clock >= 1 /\ clock <= MaxTime /\ count_file_name \in Nat
      /\ runs \in Nat /\ MaxObj \in Nat /\ MaxTime \in Nat
  BY <1>1, DiskAssumption DEF Types
<1>4. \A p \in Obj : Name(p) \in Nat /\ objs[p].run \in Nat
  BY <1>1, ObjFields DEF Name
<1>5. /\ clock' = clock /\ runs' = runs /\ mode' = mode /\ made' = made /\ Cached' = Cached
      /\ mode # "down" /\ o \in Cached
  BY DEF TakesName, procVars, Cached, Among
<1>6. \A p \in Obj \ {o} : Name(p)' = Name(p) /\ objs'[p].run = objs[p].run
  BY DEF TakesName, Name
<1>7. Name(o)' = Target(o) /\ objs'[o].run = runs
  BY DEF TakesName, Name
<1>8. ASSUME NEW p \in Obj \ {o}, Name(p) = Target(o)
      PROVE  p \in clashed' /\ o \in clashed'
  <2>1. Name(p) # 0 /\ ~(Name(p) < clock + count_file_name)
    BY <1>2, <1>3, <1>8
  <2>2. objs[p].run # runs /\ objs[p].run <= runs
    BY <1>1, <1>5, <2>1 DEF Names
  <2>3. objs[p].run < runs
    BY <1>3, <1>4, <2>2
  <2>4. p \in same
    BY <1>8, <2>3
  <2> QED BY <1>2, <2>4
<1>9. clashed \subseteq clashed' /\ clashed' \subseteq Obj
  BY <1>1, <1>2 DEF Types
<1> HIDE DEF same
<1>10. Names'
  <2>1. \A p \in Obj : objs'[p].run <= runs'
    BY <1>1, <1>3, <1>5, <1>6, <1>7 DEF Names
  <2>2. ASSUME NEW p \in Obj, objs'[p].run = runs', Name(p)' # 0
        PROVE  Name(p)' < clock' + count_file_name'
    <3>1. CASE p = o
      BY <3>1, <1>2, <1>3, <1>5, <1>7
    <3>2. CASE p # o
      <4>1. Name(p) < clock + count_file_name
        BY <1>1, <1>5, <1>6, <2>2, <3>2 DEF Names
      <4> QED BY <4>1, <3>2, <1>2, <1>3, <1>4, <1>5, <1>6
    <3> QED BY <3>1, <3>2
  <2>3. ASSUME NEW p \in Obj, NEW q \in Obj, p # q, Name(p)' = Name(q)', Name(p)' # 0
        PROVE  p \in clashed'
    <3>1. CASE p = o
      BY <3>1, <2>3, <1>6, <1>7, <1>8
    <3>2. CASE q = o
      BY <3>2, <2>3, <1>6, <1>7, <1>8
    <3>3. CASE p # o /\ q # o
      BY <3>3, <2>3, <1>1, <1>6, <1>9 DEF Names
    <3> QED BY <3>1, <3>2, <3>3
  <2> QED BY <2>1, <2>2, <2>3 DEF Names
<1>11. IsFiniteSet(Nameless) /\ Cardinality(Nameless) \in Nat
  BY NamelessFinite
<1>12. o \in Nameless /\ Nameless' = Nameless \ {o}
  <2>1. o \in Nameless
    BY <1>2, <1>5 DEF Nameless
  <2>2. ~(o > made)
    <3>1. o \in 1..made /\ made \in Nat
      BY <1>1, <1>5, InCache, DiskAssumption DEF Types
    <3> QED BY <3>1
  <2>3. Target(o) # 0
    BY <1>2, <1>3
  <2>4. o \notin Nameless'
    BY <1>5, <1>7, <2>2, <2>3 DEF Nameless
  <2>5. \A p \in Obj \ {o} : p \in Nameless' <=> p \in Nameless
    BY <1>5, <1>6 DEF Nameless
  <2>6. Nameless \subseteq Obj /\ Nameless' \subseteq Obj
    BY DEF Nameless
  <2> QED BY <2>1, <2>4, <2>5, <2>6
<1>13. Cardinality(Nameless \ {o}) = Cardinality(Nameless) - 1
  BY <1>11, <1>12, FS_RemoveElement
<1>14. Cardinality(Nameless) # 0
  BY <1>11, <1>12, FS_EmptySet
<1>15. Counted'
  <2>1. count_file_name + Cardinality(Nameless) <= MaxObj
    BY <1>1 DEF Counted
  <2>2. Cardinality(Nameless)' = Cardinality(Nameless) - 1
    BY <1>12, <1>13
  <2> QED BY <1>2, <1>3, <1>11, <2>1, <2>2 DEF Counted
<1>16. Target(o) \in FileName /\ count_file_name' \in Nat
  <2>1. count_file_name + Cardinality(Nameless) <= MaxObj
    BY <1>1 DEF Counted
  <2>2. count_file_name <= MaxObj
    BY <2>1, <1>3, <1>11
  <2> QED BY <1>2, <1>3, <2>2 DEF FileName
<1> QED BY <1>8, <1>9, <1>10, <1>15, <1>16

(* What the file of the name holds afterwards.                             *)
Writes(o) ==
  \/ files' = files
  \/ \E n \in 0..Len(objs[o].cont) :
       files' = [files EXCEPT ![Target(o)] = Upto(objs[o].cont, n)]

LEMMA WriteStep ==
  ASSUME DiskIInv, NEW o \in Obj, TakesName(o), Writes(o),
         behind' \subseteq Cached, behind' \ {o} = behind \ {o},
         index' = index, due' = due, short \subseteq short', short' \subseteq Obj,
         Contents(o)',
         mode = "quit" /\ o \in due =>
           objs'[o].dead \/ (o \notin behind' /\ (objs'[o].disk => Safe(o)'))
  PROVE  DiskIInv'
<1>1. Types /\ Promised
  BY DEF DiskIInv
<1>2. /\ Names' /\ Counted' /\ Target(o) \in FileName /\ count_file_name' \in Nat
      /\ clashed \subseteq clashed' /\ clashed' \subseteq Obj
      /\ \A p \in Obj \ {o} : Name(p) # Target(o) \/ (p \in clashed' /\ o \in clashed')
  BY NamingOK
<1>3. /\ clock' = clock /\ runs' = runs /\ use_disk_cache' = use_disk_cache /\ mode' = mode
      /\ made' = made /\ list' = list /\ Cached' = Cached /\ mode # "down"
      /\ o \in Cached /\ Name(o) = 0
      /\ objs' \in [Obj -> ObjType] /\ \A p \in Obj \ {o} : objs'[p] = objs[p]
  BY DEF TakesName, procVars, Cached, Among, Unwritten
<1>4. files' \in [FileName -> Seq(Piece)]
  <2>1. CASE files' = files
    BY <2>1, <1>1 DEF Types
  <2>2. CASE files' # files
    <3>1. PICK n \in 0..Len(objs[o].cont) :
            files' = [files EXCEPT ![Target(o)] = Upto(objs[o].cont, n)]
      BY <2>2 DEF Writes
    <3>2. objs[o].cont \in Seq(Piece)
      BY <1>1, ObjFields
    <3>3. Upto(objs[o].cont, n) \in Seq(Piece)
      BY <3>2, UptoOK
    <3> QED BY <3>1, <3>3, <1>1, <1>2 DEF Types
  <2> QED BY <2>1, <2>2
<1>5. Indexed' = Indexed
  BY DEF Indexed, Among
<1>6. Types'
  BY <1>1, <1>2, <1>3, <1>4, <1>5 DEF Types, NoIndex
<1>7. ASSUME NEW p \in Obj \ {o}, Name(p) \in FileName PROVE SameFile(p)
  <2>1. CASE Name(p) = Target(o)
    BY <1>2, <2>1 DEF SameFile
  <2>2. CASE Name(p) # Target(o)
    <3>1. CASE files' = files
      BY <3>1 DEF SameFile
    <3>2. CASE files' # files
      <4>1. PICK n \in 0..Len(objs[o].cont) :
              files' = [files EXCEPT ![Target(o)] = Upto(objs[o].cont, n)]
        BY <3>2 DEF Writes
      <4>2. DOMAIN files = FileName
        BY <1>1 DEF Types
      <4>3. files'[Name(p)] = files[Name(p)]
        BY <4>1, <4>2, <1>7, <2>2
      <4> QED BY <4>3 DEF SameFile
    <3> QED BY <3>1, <3>2
  <2> QED BY <2>1, <2>2
<1>8. ASSUME NEW p \in Cached' PROVE Contents(p)'
  <2>1. p \in Obj /\ p \in Cached
    BY <1>1, <1>3, InCache
  <2>2. CASE p # o
    <3>1. Contents(p) /\ objs'[p] = objs[p] /\ (p \in behind => p \in behind')
      BY <1>3, <2>1, <2>2 DEF DiskIInv
    <3>2. (objs[p].disk => SameFile(p)) /\ (p \in clashed => p \in clashed')
      BY <1>2, <1>7, <2>1, <2>2, <3>1 DEF Contents, OnFile
    <3> QED BY <1>3, <2>1, <3>1, <3>2, ContentsStay
  <2> QED BY <2>2
<1>9. ASSUME NEW p \in Indexed' PROVE Recorded(p)'
  <2>1. p \in Obj /\ Recorded(p)
    BY <1>5 DEF Indexed, DiskIInv
  <2>2. p # o
    <3>1. Name(p) # 0
      BY <2>1 DEF Recorded, OnFile, FileName
    <3> QED BY <1>3, <3>1
  <2>3. objs'[p] = objs[p] /\ SameFile(p) /\ (p \in clashed => p \in clashed')
    BY <1>2, <1>3, <1>7, <2>1, <2>2 DEF Recorded, OnFile
  <2>4. OnFile(p)'
    BY <2>1, <2>3, OnFileStays DEF Recorded
  <2>5. p \in Cached' \/ (objs[p] = OnDisk(p))'
    BY <1>3, <2>1, <2>3 DEF Recorded, OnDisk
  <2> QED BY <2>4, <2>5 DEF Recorded
<1>10. Promised'
  <2>1. ASSUME mode' = "quit", NEW p \in due'
        PROVE  (objs[p].dead \/ (p \in Cached \ behind /\ (objs[p].disk => Safe(p))))'
    <3>1. p \in due /\ p \in Obj /\ mode = "quit"
      BY <1>1, <1>3, <2>1 DEF Types
    <3>2. CASE p = o
      BY <1>3, <3>1, <3>2
    <3>3. CASE p # o
      <4>1. objs'[p] = objs[p] /\ (p \in behind <=> p \in behind') /\ Cached' = Cached
        BY <1>3, <3>1, <3>3
      <4>2. objs[p].dead \/ (p \in Cached \ behind /\ (objs[p].disk => Safe(p)))
        BY <1>1, <3>1 DEF Promised
      <4>3. p \in Cached /\ objs[p].disk /\ Safe(p) => Safe(p)'
        <5> SUFFICES ASSUME p \in Cached, objs[p].disk, Safe(p) PROVE Safe(p)'
          OBVIOUS
        <5>0. Name(p) \in FileName
          BY DEF DiskIInv, Contents, OnFile
        <5>1. SameFile(p) /\ Name(p)' = Name(p) /\ Body(p)' = Body(p)
          BY <1>7, <3>1, <3>3, <4>1, <5>0 DEF Name, Body
        <5> QED BY <1>2, <5>1 DEF SameFile, Safe
      <4> QED BY <4>1, <4>2, <4>3
    <3> QED BY <3>2, <3>3
  <2> QED BY <1>3, <2>1 DEF Promised
<1> QED BY <1>2, <1>6, <1>8, <1>9, <1>10 DEF DiskIInv

(* An object that is to be written has its body, and no name yet.          *)
LEMMA ToWrite ==
  ASSUME DiskIInv, NEW o \in Obj, Saves(o), ~objs[o].disk
  PROVE  Types /\ o \in Cached \ behind /\ mode # "down" /\ Unwritten(o)
<1>1. Types /\ o \in Cached \ behind /\ mode # "down" /\ objs[o].mem /\ Contents(o)
  BY DEF Saves, DiskIInv
<1>2. ~Spoilt(o) /\ ~ReadBack(o)
  BY <1>1 DEF Spoilt, ReadBack
<1> QED BY <1>1, <1>2 DEF Contents

LEMMA WithOK ==
  ASSUME Types, NEW o \in Obj, NEW name \in Nat
  PROVE  /\ With(o, name) \in ObjType /\ With(o, name).len = objs[o].len
         /\ With(o, name).mem = objs[o].mem /\ With(o, name).disk = objs[o].disk
         /\ With(o, name).dead = objs[o].dead /\ With(o, name).refs = objs[o].refs
         /\ With(o, name).cont = <<>> /\ With(o, name).file_name = name
         /\ With(o, name).run = IF name = Name(o) THEN objs[o].run ELSE runs
<1> DEFINE old == objs[o]
           r == IF name = Name(o) THEN old.run ELSE runs
           new == [old EXCEPT !.cont = <<>>, !.cut = FALSE, !.file_name = name, !.run = r]
<1>1. old \in ObjType /\ r \in Nat /\ <<>> \in Seq(Piece)
  BY ObjFields, DiskAssumption DEF Types
<1>2. With(o, name) = new
  BY DEF With
<1> HIDE DEF old, r
<1>3. /\ new \in ObjType /\ new.len = old.len /\ new.mem = old.mem /\ new.disk = old.disk
      /\ new.dead = old.dead /\ new.refs = old.refs /\ new.cont = <<>>
      /\ new.file_name = name /\ new.run = r
  BY <1>1 DEF ObjType
<1> QED BY <1>2, <1>3 DEF old, r

LEMMA TargetOK ==
  ASSUME Types, NEW o \in Obj, Name(o) = 0
  PROVE  Target(o) \in Nat /\ Target(o) # Name(o)
BY DiskAssumption DEF Types, Target

LEMMA SwapOutStep ==
  ASSUME DiskIInv, NEW o \in Obj, NEW n, SwapOut(o, n)
  PROVE  DiskIInv'
<1>1. Types /\ o \in Cached \ behind /\ mode # "down" /\ Unwritten(o)
  BY ToWrite DEF SwapOut
<1>2. objs[o].cont = Body(o) /\ Body(o) \in Seq(Piece) /\ Len(Body(o)) = objs[o].len
      /\ Name(o) = 0 /\ objs[o].len \in Nat
  BY <1>1, ObjFields, BodyOK DEF Unwritten
<1>3. Target(o) \in Nat /\ Target(o) # Name(o)
  BY <1>1, <1>2, TargetOK
<1> DEFINE w == With(o, Target(o))
           new == [w EXCEPT !.mem = FALSE, !.disk = TRUE]
<1>4. w \in ObjType /\ w.len = objs[o].len /\ w.cont = <<>> /\ w.file_name = Target(o)
      /\ w.run = runs
  BY <1>1, <1>3, WithOK
<1> HIDE DEF w
<1>5. /\ new \in ObjType /\ new.len = objs[o].len /\ new.cont = <<>>
      /\ new.file_name = Target(o) /\ new.run = runs /\ ~new.mem /\ new.disk
  BY <1>4 DEF ObjType
<1>6. /\ n \in 0..Len(objs[o].cont) /\ use_disk_cache /\ Named(o)
      /\ files' = [files EXCEPT ![Target(o)] = Upto(objs[o].cont, n)]
      /\ objs' = [objs EXCEPT ![o] = new]
      /\ short' = (IF n < objs[o].len THEN short \cup {o} ELSE short)
      /\ UNCHANGED <<procVars, listVars, index, due>>
  BY DEF SwapOut, w
<1> HIDE DEF new
<1>7. /\ objs' \in [Obj -> ObjType] /\ objs'[o] = new
      /\ \A p \in Obj \ {o} : objs'[p] = objs[p]
  BY <1>1, <1>5, <1>6 DEF Types
<1>8. TakesName(o)
  BY <1>1, <1>5, <1>6, <1>7 DEF TakesName, listVars
<1>9. Target(o) \in FileName
  BY <1>8, NamingOK
<1>10. Writes(o)
  BY <1>6 DEF Writes
<1>11. Body(o)' = Body(o) /\ Name(o)' = Target(o) /\ files'[Target(o)] = Upto(Body(o), n)
  BY <1>1, <1>2, <1>5, <1>6, <1>7, <1>9 DEF Body, Name, Types
<1>12. Holds(o)'
  <2>1. files'[Name(o)'] = Upto(Body(o)', n) /\ n \in 0..objs'[o].len
    BY <1>2, <1>5, <1>6, <1>7, <1>11
  <2> QED BY <2>1 DEF Holds, Upto
<1>13. Contents(o)'
  <2>1. use_disk_cache'
    BY <1>6 DEF procVars
  <2> QED BY <1>5, <1>7, <1>9, <1>11, <1>12, <2>1 DEF Contents, ToRead, OnFile
<1>14. Safe(o)'
  <2>1. CASE n < objs[o].len
    BY <2>1, <1>6 DEF Safe
  <2>2. CASE ~(n < objs[o].len)
    <3>1. n = Len(Body(o))
      BY <1>2, <1>6, <2>2
    <3>2. Upto(Body(o), n) = Body(o)
      BY <1>2, <3>1, UptoAll
    <3> QED BY <1>11, <3>2 DEF Safe
  <2> QED BY <2>1, <2>2
<1>15. behind' = behind /\ index' = index /\ due' = due /\ short \subseteq short'
       /\ short' \subseteq Obj
  BY <1>1, <1>6 DEF listVars, Types
<1>16. behind' \subseteq Cached
  BY <1>1, <1>15 DEF Types
<1> QED BY <1>1, <1>8, <1>10, <1>13, <1>14, <1>15, <1>16, WriteStep

(* Whoever could not be written is of no use any more.                     *)
LEMMA SpoiltOK ==
  ASSUME Types, NEW o \in Obj, Saves(o), mode' = mode, o \in behind',
         ~objs'[o].disk, objs'[o].cont = <<>>, objs'[o].dead, objs'[o].refs = objs[o].refs,
         objs'[o].mem
  PROVE  Contents(o)'
<1>1. objs[o].refs = 0 \/ mode = "quit"
  BY DEF Saves
<1> QED BY <1>1 DEF Contents, Spoilt

LEMMA SwapOutStopsStep ==
  ASSUME DiskIInv, NEW o \in Obj, NEW n, SwapOutStops(o, n)
  PROVE  DiskIInv'
<1>1. Types /\ o \in Cached \ behind /\ mode # "down" /\ Unwritten(o) /\ objs[o].mem
  BY ToWrite DEF SwapOutStops, Saves
<1>2. Target(o) \in Nat /\ Target(o) # Name(o)
  BY <1>1, TargetOK DEF Unwritten
<1> DEFINE w == With(o, Target(o))
           new == [w EXCEPT !.dead = TRUE]
<1>3. w \in ObjType /\ w.cont = <<>> /\ w.file_name = Target(o) /\ w.run = runs /\ w.mem
      /\ ~w.disk /\ w.refs = objs[o].refs
  BY <1>1, <1>2, WithOK DEF Unwritten
<1> HIDE DEF w
<1>4. /\ new \in ObjType /\ new.cont = <<>> /\ new.refs = objs[o].refs
      /\ new.file_name = Target(o) /\ new.run = runs /\ new.mem /\ ~new.disk /\ new.dead
  BY <1>3 DEF ObjType
<1>5. /\ n \in 0..Len(objs[o].cont) - 1 /\ Named(o) /\ Saves(o)
      /\ files' = [files EXCEPT ![Target(o)] = Upto(objs[o].cont, n)]
      /\ objs' = [objs EXCEPT ![o] = new]
      /\ behind' = behind \cup {o}
      /\ UNCHANGED <<procVars, list, made, index, short, due>>
  BY DEF SwapOutStops, w
<1> HIDE DEF new
<1>6. /\ objs' \in [Obj -> ObjType] /\ objs'[o] = new
      /\ \A p \in Obj \ {o} : objs'[p] = objs[p]
  BY <1>1, <1>4, <1>5 DEF Types
<1>7. TakesName(o)
  BY <1>1, <1>4, <1>5, <1>6 DEF TakesName
<1>8. Writes(o)
  <2>1. Len(objs[o].cont) \in Nat
    BY <1>1, ObjFields
  <2>2. n \in 0..Len(objs[o].cont)
    BY <1>5, <2>1
  <2> QED BY <1>5, <2>2 DEF Writes
<1>9. Contents(o)'
  <2>1. mode' = mode /\ o \in behind'
    BY <1>5 DEF procVars
  <2> QED BY <1>1, <1>4, <1>5, <1>6, <2>1, SpoiltOK
<1>10. behind' \subseteq Cached /\ behind' \ {o} = behind \ {o} /\ short \subseteq short'
       /\ short' \subseteq Obj
  BY <1>1, <1>5 DEF Types
<1> QED BY <1>4, <1>5, <1>6, <1>7, <1>8, <1>9, <1>10, WriteStep

LEMMA SwapOutFailsStep ==
  ASSUME DiskIInv, NEW o \in Obj, SwapOutFails(o)
  PROVE  DiskIInv'
<1>1. /\ Types /\ o \in Cached \ behind /\ mode # "down" /\ objs[o].mem /\ Saves(o)
      /\ Contents(o) /\ ~(use_disk_cache /\ objs[o].disk)
      /\ behind' = behind \cup {o}
      /\ UNCHANGED <<procVars, list, made, diskVars, short, due>>
  BY DEF SwapOutFails, Saves, DiskIInv
<1>2. ~objs[o].disk /\ Unwritten(o)
  BY <1>1, ToWrite DEF Contents
<1>3. behind' \subseteq Cached /\ behind' \ {o} = behind \ {o} /\ mode' = mode /\ o \in behind'
      /\ files' = files /\ index' = index /\ short' = short /\ due' = due
  BY <1>1 DEF Types, procVars, diskVars
<1>4. CASE use_disk_cache
  <2>1. Target(o) \in Nat /\ Target(o) # Name(o)
    BY <1>1, <1>2, TargetOK DEF Unwritten
  <2> DEFINE w == With(o, Target(o))
             new == [w EXCEPT !.dead = TRUE]
  <2>2. w \in ObjType /\ w.cont = <<>> /\ w.file_name = Target(o) /\ w.run = runs /\ w.mem
        /\ ~w.disk /\ w.refs = objs[o].refs
    BY <1>1, <1>2, <2>1, WithOK
  <2> HIDE DEF w
  <2>3. /\ new \in ObjType /\ new.cont = <<>> /\ new.refs = objs[o].refs
        /\ new.file_name = Target(o) /\ new.run = runs /\ new.mem /\ ~new.disk /\ new.dead
    BY <2>2 DEF ObjType
  <2>4. Named(o) /\ objs' = [objs EXCEPT ![o] = new]
    BY <1>4 DEF SwapOutFails, w
  <2> HIDE DEF new
  <2>5. /\ objs' \in [Obj -> ObjType] /\ objs'[o] = new
        /\ \A p \in Obj \ {o} : objs'[p] = objs[p]
    BY <1>1, <2>3, <2>4 DEF Types
  <2>6. TakesName(o) /\ Writes(o)
    BY <1>1, <1>2, <1>3, <2>3, <2>4, <2>5 DEF TakesName, Writes
  <2>7. Contents(o)'
    BY <1>1, <1>3, <2>3, <2>5, SpoiltOK
  <2>8. short \subseteq short' /\ short' \subseteq Obj
    BY <1>1, <1>3 DEF Types
  <2> QED BY <1>3, <2>3, <2>5, <2>6, <2>7, <2>8, WriteStep
<1>5. CASE ~use_disk_cache
  <2>1. Name(o) \in Nat
    BY <1>1, ObjFields DEF Name
  <2> DEFINE w == With(o, Name(o))
             new == [w EXCEPT !.dead = TRUE]
  <2>2. w \in ObjType /\ w.cont = <<>> /\ w.file_name = Name(o) /\ w.run = objs[o].run
        /\ w.mem /\ ~w.disk /\ w.refs = objs[o].refs /\ w.len = objs[o].len
    BY <1>1, <1>2, <2>1, WithOK
  <2> HIDE DEF w
  <2>3. /\ new \in ObjType /\ new.cont = <<>> /\ new.refs = objs[o].refs
        /\ new.file_name = Name(o) /\ new.run = objs[o].run /\ new.mem /\ ~new.disk
        /\ new.dead /\ new.len = objs[o].len
    BY <2>2 DEF ObjType
  <2>4. UNCHANGED <<count_file_name, clashed>> /\ objs' = [objs EXCEPT ![o] = new]
    BY <1>5 DEF SwapOutFails, w
  <2> HIDE DEF new
  <2>5. /\ objs' \in [Obj -> ObjType] /\ objs'[o] = new
        /\ \A p \in Obj \ {o} : objs'[p] = objs[p]
    BY <1>1, <2>3, <2>4 DEF Types
  <2>6. list' \in Seq(Obj) /\ Cached' = Cached
    BY <1>1 DEF Cached, Among, Types
  <2>7. Touches(o)
    BY <1>1, <1>3, <2>3, <2>4, <2>5, <2>6 DEF Touches, histVars, Name
  <2>8. Contents(o)'
    BY <1>1, <1>3, <2>3, <2>5, SpoiltOK
  <2> QED BY <2>3, <2>5, <2>7, <2>8, TouchStep
<1> QED BY <1>4, <1>5

-----------------------------------------------------------------------------
(* A new object.                                                           *)

LEMMA FillStep ==
  ASSUME DiskIInv, NEW old, old = {} \/ (\E q \in Live : old = {q}), NEW len \in Lengths,
         Fill(old, len)
  PROVE  DiskIInv'
<1>0. PICK o : o = made + 1
  OBVIOUS
<1>1. /\ Types /\ Names /\ Counted
      /\ mode = "up" /\ made < MaxObj /\ made' = o /\ o = made + 1
      /\ list' = Append(list, o) /\ behind' = behind \cup old
      /\ UNCHANGED <<procVars, count_file_name, diskVars, histVars>>
      /\ old \subseteq Cached
  BY <1>0 DEF Fill, DiskIInv, Live
<1>2. /\ clock' = clock /\ runs' = runs /\ use_disk_cache' = use_disk_cache /\ mode' = mode
      /\ files' = files /\ index' = index /\ clashed' = clashed /\ short' = short
      /\ due' = due /\ count_file_name' = count_file_name
  BY <1>1 DEF procVars, diskVars, histVars
<1>3. made \in Nat /\ made' \in Nat /\ o \in Nat /\ o \in Obj /\ o \in 0..MaxObj /\ len \in Nat
  BY <1>1, DiskAssumption DEF Types, Obj
<1>4. o \notin 1..made
  BY <1>1, <1>3
<1>5. list' \in Seq(Obj) /\ Cached' = Cached \cup {o}
  <2>1. list \in Seq(Obj)
    BY <1>1 DEF Types
  <2>2. /\ Append(list, o) \in Seq(Obj)
        /\ Among(Append(list, o)) = Among(list) \cup {o}
    BY <2>1, <1>3, AmongAppend
  <2> QED BY <1>1, <2>2 DEF Cached, Among
<1> DEFINE body == [k \in 1..len |-> <<o, k>>]
           new == [Fresh EXCEPT !.len = len, !.mem = TRUE, !.cont = body]
<1>6. body \in Seq(Piece)
  <2>1. o \in Nat
    BY <1>3
  <2> QED BY <1>3, <2>1 DEF Piece
<1>7. /\ new \in ObjType /\ new.len = len /\ new.mem /\ new.cont = body /\ ~new.disk
      /\ new.file_name = 0 /\ new.run = 0
  <2> HIDE DEF body
  <2> QED BY <1>3, <1>6 DEF Fresh, ObjType
<1>8. objs' = [p \in Obj |-> IF p = o THEN new
                             ELSE [objs[p] EXCEPT !.dead = @ \/ p \in old]]
  BY <1>1 DEF Fill
<1>9. ASSUME NEW p \in Obj, p # o
      PROVE  /\ objs'[p] \in ObjType /\ objs'[p].len = objs[p].len
             /\ objs'[p].mem = objs[p].mem /\ objs'[p].disk = objs[p].disk
             /\ objs'[p].file_name = objs[p].file_name /\ objs'[p].cont = objs[p].cont
             /\ objs'[p].refs = objs[p].refs /\ objs'[p].run = objs[p].run
             /\ objs'[p].cut = objs[p].cut
             /\ (objs[p].dead => objs'[p].dead) /\ (p \notin old => objs'[p] = objs[p])
  <2> DEFINE r == objs[p]
             d == r.dead \/ p \in old
             killed == [r EXCEPT !.dead = d]
  <2>1. objs'[p] = killed
    BY <1>8, <1>9
  <2>2. r \in ObjType /\ d \in BOOLEAN
    BY <1>1, ObjFields
  <2>3. (r.dead => d) /\ (p \notin old => (d <=> r.dead))
    OBVIOUS
  <2>4. p \notin old => d = r.dead
    BY <2>2, <2>3, ObjFields, <1>1
  <2> HIDE DEF d
  <2>5. /\ killed \in ObjType /\ killed.len = r.len /\ killed.mem = r.mem
        /\ killed.disk = r.disk /\ killed.file_name = r.file_name /\ killed.cont = r.cont
        /\ killed.refs = r.refs /\ killed.run = r.run /\ killed.dead = d
        /\ killed.cut = r.cut
    BY <2>2 DEF ObjType
  <2>6. p \notin old => killed = r
    BY <2>2, <2>4 DEF ObjType
  <2> HIDE DEF killed
  <2> QED BY <2>1, <2>3, <2>5, <2>6
<1>10. objs'[o] = new
  BY <1>3, <1>8
<1> HIDE DEF new
<1>11. objs' \in [Obj -> ObjType]
  <2>1. \A p \in Obj : objs'[p] \in ObjType
    BY <1>7, <1>9, <1>10
  <2>2. DOMAIN objs' = Obj /\ objs' = [p \in Obj |-> objs'[p]]
    BY <1>8
  <2> QED BY <2>1, <2>2
<1>12. Types'
  <2>1. 1..made \subseteq 1..o /\ o \in 1..o
    BY <1>1, <1>3
  <2>2. Cached' \subseteq 1..o /\ behind' \subseteq Cached'
    BY <1>1, <1>5, <2>1 DEF Types
  <2>3. Indexed' = Indexed
    BY <1>2 DEF Indexed, Among
  <2>4. Indexed' \subseteq 1..o
    BY <1>1, <2>1, <2>3 DEF Types
  <2> QED BY <1>1, <1>2, <1>3, <1>5, <1>11, <2>2, <2>4 DEF Types, NoIndex
<1>13. /\ \A p \in Obj : p # o => Name(p)' = Name(p)
       /\ Name(o)' = 0
  BY <1>3, <1>7, <1>9, <1>10 DEF Name
<1>14. Names'
  <2>1. runs \in Nat
    BY <1>1, DiskAssumption DEF Types
  <2>2. \A p \in Obj : objs'[p].run <= runs'
    BY <1>1, <1>2, <1>7, <1>9, <1>10, <2>1 DEF Names
  <2>3. \A p \in Obj : objs'[p].run = runs' /\ Name(p)' # 0
                        => Name(p)' < clock' + count_file_name'
    BY <1>1, <1>2, <1>9, <1>13 DEF Names
  <2>4. \A p, q \in Obj : p # q /\ Name(p)' = Name(q)' /\ Name(p)' # 0 => p \in clashed'
    BY <1>1, <1>2, <1>13 DEF Names
  <2> QED BY <2>2, <2>3, <2>4 DEF Names
<1>15. Counted'
  <2>1. ASSUME NEW p \in Nameless' PROVE p \in Nameless
    <3>1. p \in Obj /\ p \in Nat
      BY <2>1, DiskAssumption DEF Nameless, Obj
    <3>2. CASE p = o
      BY <3>1, <3>2, <1>1, <1>3 DEF Nameless
    <3>3. CASE p # o
      <4>1. p > o => p > made
        BY <3>1, <1>1, <1>3
      <4> QED BY <3>1, <3>3, <2>1, <4>1, <1>1, <1>5, <1>13 DEF Nameless
    <3> QED BY <3>2, <3>3
  <2> QED BY <1>1, <1>2, <2>1, CountedStays
<1>16. \A p \in Obj : SameFile(p)
  BY <1>2 DEF SameFile
<1>17. ASSUME NEW p \in Cached' PROVE Contents(p)'
  <2>1. CASE p = o
    <3>1. Body(o)' = body
      BY <1>3, <1>7, <1>10 DEF Body
    <3>2. Unwritten(o)'
      BY <1>7, <1>10, <1>13, <3>1 DEF Unwritten
    <3> QED BY <1>7, <1>10, <2>1, <3>2 DEF Contents
  <2>2. CASE p # o
    <3>1. p \in Cached /\ p \in Obj /\ Contents(p)
      BY <1>1, <1>5, <2>2, InCache DEF DiskIInv
    <3>2. p \in behind => p \in behind'
      BY <1>1
    <3> QED BY <1>2, <1>9, <1>16, <2>2, <3>1, <3>2, ContentsStay
  <2> QED BY <2>1, <2>2
<1>18. ASSUME NEW p \in Indexed' PROVE Recorded(p)'
  <2>1. p \in Indexed /\ p \in Obj /\ p \in 1..made /\ Recorded(p)
    BY <1>1, <1>2 DEF Indexed, Among, Types, DiskIInv
  <2>2. p # o
    BY <1>4, <2>1
  <2>3. OnFile(p)'
    BY <1>2, <1>9, <1>16, <2>1, <2>2, OnFileStays DEF Recorded
  <2>4. p \in Cached' \/ (objs[p] = OnDisk(p))'
    <3>1. CASE p \in Cached
      BY <1>5, <3>1
    <3>2. CASE p \notin Cached
      <4>1. objs'[p] = objs[p]
        BY <1>1, <1>9, <2>1, <2>2, <3>2
      <4> QED BY <2>1, <3>2, <4>1 DEF Recorded, OnDisk
    <3> QED BY <3>1, <3>2
  <2> QED BY <2>3, <2>4 DEF Recorded
<1>19. Promised'
  BY <1>1, <1>2 DEF Promised
<1> QED BY <1>12, <1>14, <1>15, <1>17, <1>18, <1>19 DEF DiskIInv

-----------------------------------------------------------------------------
(* Steps that forget what nobody leads to any more.                        *)
Keeps(os, fs, keep) ==
  /\ objs' = KeptObjs(os, keep) /\ files' = KeptFiles(fs, os, keep)
  /\ clashed' = clashed \cap keep /\ short' = short \cap keep

LEMMA KeepOK ==
  ASSUME Types, Names, NEW os \in [Obj -> ObjType], NEW fs \in [FileName -> Seq(Piece)],
         NEW keep \in SUBSET Obj, Keeps(os, fs, keep), runs' = runs,
         \A p \in Obj : os[p].file_name = objs[p].file_name /\ os[p].run = objs[p].run,
         mode' = "down" \/ (mode # "down" /\ clock' = clock /\ count_file_name' = count_file_name)
  PROVE  /\ objs' \in [Obj -> ObjType] /\ files' \in [FileName -> Seq(Piece)]
         /\ \A p \in keep : objs'[p] = os[p] /\ Name(p)' = Name(p)
         /\ \A p \in keep : Name(p) \in FileName => files'[Name(p)] = fs[Name(p)]
         /\ clashed' \subseteq Obj /\ short' \subseteq Obj
         /\ Names'
<1>1. /\ objs' = [p \in Obj |-> IF p \in keep THEN os[p] ELSE Fresh]
      /\ files' = [n \in FileName |-> IF \E p \in keep : os[p].file_name = n THEN fs[n] ELSE NoFile]
      /\ clashed' = clashed \cap keep /\ short' = short \cap keep
  BY DEF Keeps, KeptObjs, KeptFiles
<1>2. objs' \in [Obj -> ObjType]
  BY <1>1, FreshOK
<1>3. files' \in [FileName -> Seq(Piece)]
  <2>1. NoFile \in Seq(Piece)
    <3>1. <<0, 0>> \in Piece
      BY DEF Piece
    <3> QED BY <3>1 DEF NoFile
  <2> QED BY <1>1, <2>1
<1>4. \A p \in keep : objs'[p] = os[p] /\ Name(p)' = Name(p)
  BY <1>1 DEF Name
<1>5. \A p \in Obj \ keep : objs'[p].run = 0 /\ Name(p)' = 0
  BY <1>1 DEF Name, Fresh
<1>6. \A p \in keep : Name(p) \in FileName => files'[Name(p)] = fs[Name(p)]
  BY <1>1 DEF Name
<1>7. clashed' \subseteq Obj /\ short' \subseteq Obj
  BY <1>1 DEF Types
<1>8. \A p \in keep : objs'[p].run = objs[p].run
  BY <1>4
<1>9. Names'
  <2>1. runs \in Nat
    BY DiskAssumption DEF Types
  <2>2. \A p \in Obj : objs'[p].run <= runs'
    BY <1>5, <1>8, <2>1 DEF Names
  <2>3. ASSUME mode' # "down", NEW p \in Obj, objs'[p].run = runs', Name(p)' # 0
        PROVE  Name(p)' < clock' + count_file_name'
    <3>1. p \in keep
      BY <1>5, <2>3
    <3>2. Name(p) < clock + count_file_name
      BY <1>4, <1>8, <2>3, <3>1 DEF Names
    <3> QED BY <1>4, <2>3, <3>1, <3>2
  <2>4. ASSUME NEW p \in Obj, NEW q \in Obj, p # q, Name(p)' = Name(q)', Name(p)' # 0
        PROVE  p \in clashed'
    <3>1. p \in keep /\ q \in keep
      BY <1>5, <2>4
    <3> QED BY <1>1, <1>4, <2>4, <3>1 DEF Names
  <2> QED BY <2>2, <2>3, <2>4 DEF Names
<1> QED BY <1>2, <1>3, <1>4, <1>6, <1>7, <1>9

LEMMA OnDiskAgain ==
  ASSUME NEW o, objs' \in [Obj -> ObjType], o \in Obj, objs'[o] = OnDisk(o), Types
  PROVE  objs'[o] = OnDisk(o)'
<1> DEFINE r == objs'[o]
           again == [r EXCEPT !.mem = FALSE, !.disk = FALSE, !.dead = FALSE, !.cont = <<>>,
                              !.refs = 0, !.cut = FALSE]
<1>1. r \in ObjType /\ r.mem = FALSE /\ r.disk = FALSE /\ r.dead = FALSE /\ r.cont = <<>>
      /\ r.refs = 0 /\ r.cut = FALSE
  BY OnDiskOK DEF ObjType
<1>2. OnDisk(o)' = again
  BY DEF OnDisk
<1> HIDE DEF r
<1>3. again = r
  BY <1>1 DEF ObjType
<1> QED BY <1>2, <1>3 DEF r

LEMMA DestroyStep ==
  ASSUME DiskIInv, NEW o \in Obj, Destroy(o)
  PROVE  DiskIInv'
<1> DEFINE fs   == IF objs[o].disk THEN [files EXCEPT ![Name(o)] = NoFile] ELSE files
           os   == [objs EXCEPT ![o] = OnDisk(o)]
           keep == (Cached \ {o}) \cup (Among(index) \cap Obj)
<1>1. /\ mode = "up" /\ o \in Cached /\ Keeps(os, fs, keep)
      /\ list' = Without(o) /\ behind' = behind \ {o}
      /\ UNCHANGED <<procVars, count_file_name, made, index, due>>
  BY DEF Destroy, Keeps
<1>2. Types /\ Names /\ Counted /\ Contents(o)
  BY <1>1 DEF DiskIInv
<1>3. /\ clock' = clock /\ runs' = runs /\ use_disk_cache' = use_disk_cache /\ mode' = mode
      /\ count_file_name' = count_file_name /\ made' = made /\ index' = index /\ due' = due
  BY <1>1 DEF procVars
<1>4. keep \in SUBSET Obj
  BY <1>2, InCache
<1>5. os \in [Obj -> ObjType] /\ os[o] = OnDisk(o) /\ \A p \in Obj \ {o} : os[p] = objs[p]
  BY <1>2, OnDiskOK DEF Types
<1>6. \A p \in Obj : os[p].file_name = objs[p].file_name /\ os[p].run = objs[p].run
  BY <1>2, <1>5, OnDiskOK
<1>7. fs \in [FileName -> Seq(Piece)]
  <2>1. NoFile \in Seq(Piece) /\ files \in [FileName -> Seq(Piece)]
    <3>1. <<0, 0>> \in Piece
      BY DEF Piece
    <3> QED BY <1>2, <3>1 DEF NoFile, Types
  <2> QED BY <2>1
<1>8. Indexed = Among(index) \cap Obj /\ Indexed' = Indexed
  BY <1>3 DEF Indexed, Among
<1>9. ASSUME NEW p \in Obj \ {o}, Name(p) \in FileName, p \notin clashed
      PROVE  fs[Name(p)] = files[Name(p)]
  <2>1. Name(p) # 0 /\ Name(p) # Name(o)
    BY <1>2, <1>9 DEF Names, FileName
  <2> QED BY <2>1, <1>2, <1>9 DEF Types
<1>10. objs[o].disk => fs[Name(o)] = NoFile
  BY <1>2 DEF Contents, OnFile, Types
<1>11. ~objs[o].disk => fs = files
  OBVIOUS
<1>12. Cached \ {o} \subseteq keep /\ Indexed \subseteq keep
  BY <1>8
<1> HIDE DEF os, fs, keep
<1>13. /\ objs' \in [Obj -> ObjType] /\ files' \in [FileName -> Seq(Piece)]
       /\ \A p \in keep : objs'[p] = os[p] /\ Name(p)' = Name(p)
       /\ \A p \in keep : Name(p) \in FileName => files'[Name(p)] = fs[Name(p)]
       /\ clashed' \subseteq Obj /\ short' \subseteq Obj
       /\ Names'
  BY <1>1, <1>2, <1>3, <1>4, <1>5, <1>6, <1>7, KeepOK
<1>14. clashed' = clashed \cap keep
  BY <1>1 DEF Keeps
<1>15. list' \in Seq(Obj) /\ Cached' = Cached \ {o}
  <2>1. list \in Seq(Obj)
    BY <1>2 DEF Types
  <2>2. Without(o) \in Seq(Obj) /\ Among(Without(o)) = Cached \ {o}
    BY <2>1, SelectedOK DEF Without, Cached
  <2> QED BY <1>1, <2>2 DEF Cached, Among
<1>16. Types'
  BY <1>1, <1>2, <1>3, <1>8, <1>13, <1>15 DEF Types, NoIndex
<1>17. Counted'
  <2>1. \A p \in Nameless' : p \in Nameless
    BY <1>3, <1>12, <1>13, <1>15 DEF Nameless
  <2> QED BY <1>2, <1>3, <2>1, CountedStays
<1>18. ASSUME NEW p \in keep, p # o, Name(p) \in FileName
       PROVE  SameFile(p) /\ objs'[p] = objs[p] /\ (p \in clashed => p \in clashed')
  BY <1>4, <1>5, <1>9, <1>13, <1>14, <1>18 DEF SameFile
<1>19. ASSUME NEW p \in Cached' PROVE Contents(p)'
  <2>1. p \in Cached /\ p \in Obj /\ p \in keep /\ p # o /\ Contents(p)
    BY <1>2, <1>12, <1>15, InCache DEF DiskIInv
  <2>2. objs'[p] = objs[p] /\ (p \in clashed => p \in clashed')
        /\ (p \in behind => p \in behind')
    BY <1>1, <1>4, <1>5, <1>13, <1>14, <2>1
  <2>3. objs[p].disk => SameFile(p)
    BY <1>18, <2>1 DEF Contents, OnFile
  <2> QED BY <1>3, <2>1, <2>2, <2>3, ContentsStay
<1>20. ASSUME NEW p \in Indexed' PROVE Recorded(p)'
  <2>1. p \in Indexed /\ p \in keep /\ p \in Obj /\ Recorded(p)
    BY <1>4, <1>8, <1>12 DEF DiskIInv
  <2>2. CASE p # o
    <3>1. SameFile(p) /\ objs'[p] = objs[p] /\ (p \in clashed => p \in clashed')
      BY <1>18, <2>1, <2>2 DEF Recorded, OnFile
    <3>2. OnFile(p)'
      BY <2>1, <3>1, OnFileStays DEF Recorded
    <3>3. p \in Cached' \/ (objs[p] = OnDisk(p))'
      BY <1>15, <2>1, <2>2, <3>1 DEF Recorded, OnDisk
    <3> QED BY <3>2, <3>3 DEF Recorded
  <2>3. CASE p = o
    <3>1. objs'[o] = OnDisk(o) /\ Name(o)' = Name(o) /\ files'[Name(o)] = fs[Name(o)]
      BY <1>5, <1>13, <2>1, <2>3 DEF Recorded, OnFile
    <3>2. objs'[o].len = objs[o].len /\ objs'[o].file_name = objs[o].file_name
      BY <1>2, <3>1, OnDiskOK
    <3>3. objs'[o] = OnDisk(o)'
      BY <1>2, <1>13, <3>1, OnDiskAgain
    <3>4. OnFile(o)'
      <4>1. CASE objs[o].disk
        BY <4>1, <1>10, <2>1, <2>3, <3>1 DEF OnFile, Holds, Recorded
      <4>2. CASE ~objs[o].disk
        <5>1. SameFile(o) /\ (o \in clashed => o \in clashed')
          BY <4>2, <1>11, <1>14, <2>1, <2>3, <3>1 DEF SameFile
        <5> QED BY <2>1, <2>3, <3>2, <5>1, OnFileStays DEF Recorded
      <4> QED BY <4>1, <4>2
    <3> QED BY <2>3, <3>3, <3>4 DEF Recorded
  <2> QED BY <2>2, <2>3
<1>21. Promised'
  BY <1>1, <1>3 DEF Promised
<1> QED BY <1>13, <1>16, <1>17, <1>19, <1>20, <1>21 DEF DiskIInv

-----------------------------------------------------------------------------
(* The index.                                                              *)

(* What is saved is cached, and has been written.                          *)
LEMMA SavedOK ==
  ASSUME DiskIInv
  PROVE  /\ Saved \in Seq(Obj) /\ Among(Saved) = {o \in Cached : ~objs[o].dead /\ objs[o].disk}
         /\ \A o \in Among(Saved) : o \in Cached /\ o \in Obj /\ o \in 1..made /\ OnFile(o)
<1>1. Types
  BY DEF DiskIInv
<1>2. list \in Seq(Obj)
  BY <1>1 DEF Types
<1>3. /\ Saved \in Seq(Obj)
      /\ Among(Saved) = Among(list) \cap {o \in Cached : ~objs[o].dead /\ objs[o].disk}
  BY <1>2, SelectedOK DEF Saved
<1>4. Among(Saved) = {o \in Cached : ~objs[o].dead /\ objs[o].disk}
  BY <1>3 DEF Cached
<1>5. \A o \in Cached : o \in Obj /\ o \in 1..made /\ (objs[o].disk => OnFile(o))
  BY <1>1, InCache DEF DiskIInv, Contents
<1> QED BY <1>3, <1>4, <1>5

LEMMA SaveIndexStep ==
  ASSUME DiskIInv, SaveIndex
  PROVE  DiskIInv'
<1>1. /\ mode = "up" /\ index' = Saved /\ Keeps(objs, files, Cached)
      /\ UNCHANGED <<procVars, count_file_name, listVars, due>>
  BY DEF SaveIndex, WriteIndex, Keeps
<1>2. Types /\ Names /\ Counted
  BY DEF DiskIInv
<1>3. /\ clock' = clock /\ runs' = runs /\ use_disk_cache' = use_disk_cache /\ mode' = mode
      /\ count_file_name' = count_file_name /\ made' = made /\ list' = list
      /\ behind' = behind /\ due' = due
  BY <1>1 DEF procVars, listVars
<1>4. /\ Cached \in SUBSET Obj /\ objs \in [Obj -> ObjType] /\ files \in [FileName -> Seq(Piece)]
      /\ Cached' = Cached
  BY <1>2, <1>3, InCache DEF Types, Cached, Among
<1>5. /\ objs' \in [Obj -> ObjType] /\ files' \in [FileName -> Seq(Piece)]
      /\ \A p \in Cached : objs'[p] = objs[p] /\ Name(p)' = Name(p)
      /\ \A p \in Cached : Name(p) \in FileName => files'[Name(p)] = files[Name(p)]
      /\ clashed' \subseteq Obj /\ short' \subseteq Obj
      /\ Names'
  <2>1. mode # "down"
    BY <1>1
  <2> HIDE DEF Cached
  <2> QED BY <1>1, <1>2, <1>3, <1>4, <2>1, KeepOK
<1>6. clashed' = clashed \cap Cached
  BY <1>1 DEF Keeps
<1>7. /\ Saved \in Seq(Obj)
      /\ \A o \in Among(Saved) : o \in Cached /\ o \in Obj /\ o \in 1..made /\ OnFile(o)
  BY SavedOK
<1>8. Indexed' = Among(Saved)
  <2>1. Among(Saved) \subseteq Obj
    BY <1>7
  <2> QED BY <1>1, <2>1 DEF Indexed, Among
<1>9. Types'
  BY <1>1, <1>2, <1>3, <1>4, <1>5, <1>7, <1>8 DEF Types
<1>10. Counted'
  <2>1. \A p \in Nameless' : p \in Nameless
    BY <1>3, <1>4, <1>5 DEF Nameless
  <2> QED BY <1>2, <1>3, <2>1, CountedStays
<1>11. ASSUME NEW p \in Cached
       PROVE  /\ p \in Obj /\ objs'[p] = objs[p] /\ (p \in clashed => p \in clashed')
              /\ (Name(p) \in FileName => SameFile(p))
  BY <1>4, <1>5, <1>6, <1>11 DEF SameFile
<1>12. ASSUME NEW p \in Cached' PROVE Contents(p)'
  <2>1. p \in Cached /\ Contents(p)
    BY <1>4 DEF DiskIInv
  <2>2. objs[p].disk => SameFile(p)
    BY <1>11, <2>1 DEF Contents, OnFile
  <2> QED BY <1>3, <1>11, <2>1, <2>2, ContentsStay
<1>13. ASSUME NEW p \in Indexed' PROVE Recorded(p)'
  <2>1. p \in Cached /\ OnFile(p) /\ p \in Cached'
    BY <1>4, <1>7, <1>8
  <2>2. OnFile(p)'
    BY <1>11, <2>1, OnFileStays DEF OnFile
  <2> QED BY <2>1, <2>2 DEF Recorded
<1>14. Promised'
  BY <1>1, <1>3 DEF Promised
<1> QED BY <1>5, <1>9, <1>10, <1>12, <1>13, <1>14 DEF DiskIInv

LEMMA ShutdownStep ==
  ASSUME DiskIInv, Shutdown
  PROVE  DiskIInv'
<1>1. /\ mode = "up" /\ use_disk_cache /\ mode' = "quit"
      /\ due' = {o \in Live \ behind : objs[o].mem \/ files[Name(o)] = Body(o)}
      /\ UNCHANGED <<clock, runs, use_disk_cache, count_file_name, listVars, objs, diskVars,
                     clashed, short>>
  BY DEF Shutdown
<1>2. Types /\ Names /\ Counted
  BY DEF DiskIInv
<1>3. /\ list' = list /\ behind' = behind /\ made' = made /\ files' = files /\ index' = index
  BY <1>1 DEF listVars, diskVars
<1>4. Cached' = Cached /\ Indexed' = Indexed /\ Live \subseteq Cached /\ Cached \subseteq Obj
  BY <1>2, <1>3, InCache DEF Cached, Indexed, Among, Live
<1>5. due' \subseteq Obj
  BY <1>1, <1>4
<1>6. Types'
  BY <1>1, <1>2, <1>3, <1>4, <1>5 DEF Types, NoIndex
<1>7. Names'
  BY <1>1, <1>2 DEF Names, Name
<1>8. Counted'
  <2>1. \A p \in Nameless' : p \in Nameless
    BY <1>1, <1>3, <1>4 DEF Nameless, Name
  <2> QED BY <1>1, <1>2, <2>1, CountedStays
<1>9. \A p \in Obj : SameFile(p)
  BY <1>3 DEF SameFile
<1>10. ASSUME NEW p \in Cached' PROVE Contents(p)'
  <2>1. p \in Obj /\ Contents(p) /\ objs'[p] = objs[p] /\ (p \in behind => p \in behind')
    BY <1>1, <1>3, <1>4 DEF DiskIInv
  <2> QED BY <1>1, <1>9, <2>1, ContentsStay
<1>11. ASSUME NEW p \in Indexed' PROVE Recorded(p)'
  <2>1. p \in Obj /\ Recorded(p) /\ objs'[p] = objs[p]
    BY <1>1, <1>4 DEF DiskIInv, Indexed
  <2>2. OnFile(p)'
    BY <1>1, <1>9, <2>1, OnFileStays DEF Recorded
  <2> QED BY <1>1, <1>4, <2>1, <2>2 DEF Recorded, OnDisk
<1>12. Promised'
  <2>1. ASSUME NEW p \in due' PROVE (p \in Cached \ behind /\ (objs[p].disk => Safe(p)))'
    <3>1. p \in Live \ behind /\ (objs[p].mem \/ files[Name(p)] = Body(p)) /\ Contents(p)
      BY <1>1, <1>4, <2>1 DEF DiskIInv
    <3>2. objs[p].disk => Safe(p)
      <4>1. CASE files[Name(p)] = Body(p)
        BY <4>1 DEF Safe
      <4>2. CASE files[Name(p)] # Body(p)
        BY <4>2, <3>1 DEF Contents, Unwritten, ReadBack, Spoilt, Safe
      <4> QED BY <4>1, <4>2
    <3>3. Safe(p)' <=> Safe(p)
      BY <1>1, <1>3 DEF Safe, Body, Name
    <3> QED BY <1>1, <1>3, <1>4, <3>1, <3>2, <3>3
  <2> QED BY <1>1, <2>1 DEF Promised
<1> QED BY <1>6, <1>7, <1>8, <1>10, <1>11, <1>12 DEF DiskIInv

-----------------------------------------------------------------------------
(* The end of a run, and the start of the next one.                        *)

(* The records that a run leaves lead to files of their objects.           *)
LEMMA DownOK ==
  ASSUME DiskIInv, NEW recs, Down(recs), recs = NoIndex \/ recs \in Seq(Obj), due' \subseteq Obj,
         \A o \in Among(recs) \cap Obj : o \in 1..made /\ OnFile(o)
  PROVE  /\ Types' /\ Names' /\ Counted'
         /\ (\A o \in Cached : Contents(o))' /\ (\A o \in Indexed : Recorded(o))'
         /\ mode' = "down" /\ Indexed' = Among(recs) \cap Obj
         /\ \A o \in Indexed' : Safe(o) => Safe(o)'
<1> DEFINE os == [o \in Obj |-> OnDisk(o)]
           keep == Among(recs) \cap Obj
<1>1. /\ index' = recs /\ Keeps(os, files, keep)
      /\ mode' = "down" /\ list' = <<>> /\ behind' = {} /\ count_file_name' = 0
      /\ clock' = clock /\ runs' = runs /\ use_disk_cache' = use_disk_cache /\ made' = made
  BY DEF Down, WriteIndex, Keeps
<1>2. Types /\ Names
  BY DEF DiskIInv
<1>3. /\ keep \in SUBSET Obj /\ os \in [Obj -> ObjType] /\ \A p \in Obj : os[p] = OnDisk(p)
      /\ files \in [FileName -> Seq(Piece)]
  BY <1>2, OnDiskOK DEF Types
<1>4. Indexed' = keep
  BY <1>1 DEF Indexed, Among
<1>5. \A p \in Obj : os[p].file_name = objs[p].file_name /\ os[p].run = objs[p].run
  BY <1>2, <1>3, OnDiskOK
<1>6. \A p \in keep : p \in 1..made /\ OnFile(p)
  OBVIOUS
<1> HIDE DEF os, keep
<1>7. /\ objs' \in [Obj -> ObjType] /\ files' \in [FileName -> Seq(Piece)]
      /\ \A p \in keep : objs'[p] = os[p] /\ Name(p)' = Name(p)
      /\ \A p \in keep : Name(p) \in FileName => files'[Name(p)] = files[Name(p)]
      /\ clashed' \subseteq Obj /\ short' \subseteq Obj
      /\ Names'
  BY <1>1, <1>2, <1>3, <1>5, KeepOK
<1>8. Cached' = {}
  <2>1. Cached' = Among(list')
    BY DEF Cached, Among
  <2>2. Len(<<>>) = 0 /\ 1..0 = {}
    OBVIOUS
  <2>3. Among(<<>>) = {}
    BY <2>2 DEF Among
  <2> QED BY <1>1, <2>1, <2>3
<1>9. Types'
  <2>1. list' \in Seq(Obj) /\ count_file_name' \in Nat
    BY <1>1
  <2>2. Indexed' \subseteq 1..made
    BY <1>4, <1>6
  <2> QED BY <1>1, <1>2, <1>7, <1>8, <2>1, <2>2 DEF Types
<1>10. Counted'
  <2>1. Nameless' \in SUBSET Obj
    BY DEF Nameless
  <2>2. Cardinality(Nameless') \in Nat /\ Cardinality(Nameless') <= MaxObj
    BY <2>1, SomeObjects
  <2> QED BY <1>1, <2>2, DiskAssumption DEF Counted
<1>11. ASSUME NEW p \in keep
       PROVE  /\ p \in Obj /\ OnFile(p) /\ objs'[p] = OnDisk(p) /\ SameFile(p)
              /\ (p \in clashed => p \in clashed') /\ (p \in short => p \in short')
              /\ objs'[p].len = objs[p].len /\ objs'[p].file_name = objs[p].file_name
  <2>1. p \in Obj /\ OnFile(p) /\ objs'[p] = OnDisk(p)
    BY <1>3, <1>6, <1>7
  <2>2. SameFile(p) /\ (p \in clashed => p \in clashed') /\ (p \in short => p \in short')
    BY <1>1, <1>6, <1>7 DEF SameFile, Keeps, OnFile
  <2>3. objs'[p].len = objs[p].len /\ objs'[p].file_name = objs[p].file_name
    BY <1>2, <2>1, OnDiskOK
  <2> QED BY <2>1, <2>2, <2>3
<1>12. ASSUME NEW p \in Indexed' PROVE Recorded(p)'
  <2>1. p \in keep
    BY <1>4
  <2>2. OnFile(p)'
    BY <1>11, <2>1, OnFileStays
  <2>3. objs'[p] = OnDisk(p)'
    BY <1>2, <1>7, <1>11, <2>1, OnDiskAgain
  <2> QED BY <2>2, <2>3 DEF Recorded
<1>13. ASSUME NEW p \in Indexed', Safe(p) PROVE Safe(p)'
  <2>1. p \in keep
    BY <1>4
  <2>2. Name(p)' = Name(p) /\ Body(p)' = Body(p)
    BY <1>11, <2>1 DEF Name, Body
  <2> QED BY <1>11, <1>13, <2>1, <2>2 DEF Safe, SameFile
<1>14. (\A o \in Cached : Contents(o))'
  BY <1>8
<1> QED BY <1>1, <1>4, <1>7, <1>9, <1>10, <1>12, <1>13, <1>14 DEF keep

LEMMA ExitStep ==
  ASSUME DiskIInv, Exit
  PROVE  DiskIInv'
<1>1. mode = "quit" /\ LeftInMemory = {} /\ due' = due \cap Live /\ Down(Saved)
  BY DEF Exit
<1>2. Types /\ Promised
  BY DEF DiskIInv
<1>3. /\ Saved \in Seq(Obj) /\ Among(Saved) = {o \in Cached : ~objs[o].dead /\ objs[o].disk}
      /\ \A o \in Among(Saved) : o \in Cached /\ o \in Obj /\ o \in 1..made /\ OnFile(o)
  BY SavedOK
<1>4. due' \subseteq Obj
  BY <1>1, <1>2 DEF Types
<1>5. /\ Types' /\ Names' /\ Counted'
      /\ (\A o \in Cached : Contents(o))' /\ (\A o \in Indexed : Recorded(o))'
      /\ mode' = "down" /\ Indexed' = Among(Saved) \cap Obj
      /\ \A o \in Indexed' : Safe(o) => Safe(o)'
  <2> HIDE DEF Saved
  <2> QED BY <1>1, <1>3, <1>4, DownOK
<1>6. ASSUME NEW o \in due' PROVE o \in Indexed' /\ Safe(o)'
  <2>1. o \in due /\ ~objs[o].dead
    BY <1>1, <1>6 DEF Live
  <2>2. o \in Cached \ behind /\ (objs[o].disk => Safe(o)) /\ o \in Obj
    BY <1>1, <1>2, <1>4, <1>6, <2>1 DEF Promised
  <2>3. objs[o].disk
    <3>1. objs[o].mem => objs[o].disk
      BY <1>1, <2>2 DEF LeftInMemory
    <3>2. ~objs[o].mem => objs[o].disk
      BY <2>2 DEF DiskIInv, Contents, ToRead
    <3> QED BY <3>1, <3>2
  <2>4. o \in Indexed'
    BY <1>3, <1>5, <2>1, <2>2, <2>3
  <2> QED BY <1>5, <2>2, <2>3, <2>4
<1>7. Promised'
  BY <1>5, <1>6 DEF Promised
<1> QED BY <1>5, <1>7 DEF DiskIInv

LEMMA CrashStep ==
  ASSUME DiskIInv, Crash
  PROVE  DiskIInv'
<1>1. due' = {}
  BY DEF Crash
<1>2. ASSUME NEW recs, Down(recs), recs = NoIndex \/ recs \in Seq(Obj),
             \A o \in Among(recs) \cap Obj : o \in 1..made /\ OnFile(o)
      PROVE  DiskIInv'
  <2>1. due' \subseteq Obj
    BY <1>1
  <2>2. /\ Types' /\ Names' /\ Counted'
        /\ (\A o \in Cached : Contents(o))' /\ (\A o \in Indexed : Recorded(o))'
        /\ mode' = "down"
    BY <1>2, <2>1, DownOK
  <2>3. Promised'
    BY <1>1, <2>2 DEF Promised
  <2> QED BY <2>2, <2>3 DEF DiskIInv
<1>3. CASE Down(index)
  <2>1. index = NoIndex \/ index \in Seq(Obj)
    BY DEF DiskIInv, Types
  <2>2. \A o \in Among(index) \cap Obj : o \in 1..made /\ OnFile(o)
    BY DEF DiskIInv, Types, Recorded, Indexed
  <2> QED BY <1>2, <1>3, <2>1, <2>2
<1>4. ASSUME NEW n \in 0..Len(Saved), Down(Upto(Saved, n)) PROVE DiskIInv'
  <2>1. /\ Saved \in Seq(Obj)
        /\ \A o \in Among(Saved) : o \in Cached /\ o \in Obj /\ o \in 1..made /\ OnFile(o)
    BY SavedOK
  <2>2. Upto(Saved, n) \in Seq(Obj) /\ Among(Upto(Saved, n)) \subseteq Among(Saved)
    BY <2>1, UptoOK
  <2>3. \A o \in Among(Upto(Saved, n)) \cap Obj : o \in 1..made /\ OnFile(o)
    BY <2>1, <2>2
  <2> HIDE DEF Saved
  <2> QED BY <1>2, <1>4, <2>2, <2>3
<1> QED BY <1>3, <1>4 DEF Crash

(* What load_all_from_disk reads are the first records of the index, all   *)
(* of those in front of one with a URL that is too long.                   *)
LEMMA RestoredOK ==
  ASSUME index \in Seq(Obj)
  PROVE  /\ Restored \in Seq(Obj) /\ Among(Restored) \subseteq Among(index)
         /\ \A i \in 1..Len(index) :
              \/ index[i] \in Among(Restored)
              \/ \E j \in 1..Len(index) : j <= i /\ index[j] \in LongUrl
<1> DEFINE bad == {i \in 1..Len(index) : index[i] \in LongUrl}
           first == CHOOSE i \in bad : \A j \in bad : i <= j
<1>1. Restored = IF bad = {} THEN index ELSE Upto(index, first - 1)
  BY DEF Restored
<1>2. CASE bad = {}
  BY <1>1, <1>2 DEF Among
<1>3. CASE bad # {}
  <2>1. bad \in SUBSET Nat /\ bad \subseteq 1..Len(index)
    OBVIOUS
  <2>2. \E i \in bad : \A j \in bad : i <= j
    <3> HIDE DEF bad
    <3> QED BY <1>3, <2>1, LeastNumber
  <2>3. first \in bad /\ \A j \in bad : first <= j
    <3> HIDE DEF bad
    <3> QED BY <2>2
  <2>4. first - 1 \in 0..Len(index) /\ first \in 1..Len(index) /\ index[first] \in LongUrl
    BY <2>1, <2>3
  <2> HIDE DEF first
  <2>5. /\ Restored \in Seq(Obj) /\ Among(Restored) \subseteq Among(index)
        /\ Len(Restored) = first - 1
        /\ \A i \in 1..first - 1 : Restored[i] = index[i]
    BY <1>1, <1>3, <2>4, UptoOK
  <2>6. ASSUME NEW i \in 1..Len(index)
        PROVE  \/ index[i] \in Among(Restored)
               \/ \E j \in 1..Len(index) : j <= i /\ index[j] \in LongUrl
    <3>1. CASE i < first
      <4>1. i \in 1..first - 1
        BY <2>4, <3>1
      <4> QED BY <2>5, <4>1 DEF Among
    <3>2. CASE first <= i
      BY <2>4, <3>2
    <3> QED BY <2>4, <3>1, <3>2
  <2> QED BY <2>5, <2>6
<1> QED BY <1>2, <1>3

LEMMA NoneCached ==
  ASSUME Types, mode = "down"
  PROVE  Cached = {} /\ behind = {}
<1>1. Among(<<>>) = {}
  <2>1. Len(<<>>) = 0 /\ 1..0 = {}
    OBVIOUS
  <2> QED BY <2>1 DEF Among
<1> QED BY <1>1 DEF Types, Cached

LEMMA BootStep ==
  ASSUME DiskIInv, Boot
  PROVE  DiskIInv'
<1>1. /\ mode = "down" /\ runs < MaxRuns /\ mode' = "up" /\ runs' = runs + 1
      /\ clock' \in clock..MaxTime /\ due' = {} /\ use_disk_cache' = (index # NoIndex)
      /\ list' = IF index = NoIndex THEN <<>> ELSE Restored
      /\ objs' = [o \in Obj |-> [objs[o] EXCEPT !.disk = (o \in Among(list'))]]
      /\ UNCHANGED <<count_file_name, behind, made, diskVars, clashed, short>>
  BY DEF Boot
<1>2. Types /\ Names /\ Counted
  BY DEF DiskIInv
<1>3. /\ count_file_name' = count_file_name /\ behind' = behind /\ made' = made
      /\ files' = files /\ index' = index /\ clashed' = clashed /\ short' = short
  BY <1>1 DEF diskVars
<1>4. Cached = {} /\ behind = {}
  BY <1>1, <1>2, NoneCached
<1>5. list' \in Seq(Obj) /\ Among(list') \subseteq Indexed /\ Indexed \subseteq Obj
      /\ (Among(list') # {} => index # NoIndex)
  <2>1. CASE index = NoIndex
    <3>1. Len(<<>>) = 0 /\ 1..0 = {}
      OBVIOUS
    <3>2. Among(<<>>) = {}
      BY <3>1 DEF Among
    <3> QED BY <1>1, <2>1, <3>2 DEF Indexed
  <2>2. CASE index # NoIndex
    <3>1. index \in Seq(Obj)
      BY <1>2, <2>2 DEF Types
    <3>2. Among(index) \subseteq Obj
      BY <3>1 DEF Among
    <3> QED BY <1>1, <2>2, <3>1, <3>2, RestoredOK DEF Indexed
  <2> QED BY <2>1, <2>2
<1>6. Cached' = Among(list') /\ Indexed' = Indexed
  BY <1>3 DEF Cached, Indexed, Among
<1>7. ASSUME NEW o \in Obj
      PROVE  /\ objs'[o] \in ObjType /\ objs'[o].len = objs[o].len
             /\ objs'[o].mem = objs[o].mem /\ objs'[o].file_name = objs[o].file_name
             /\ objs'[o].cont = objs[o].cont /\ objs'[o].run = objs[o].run
             /\ objs'[o].disk = (o \in Among(list'))
             /\ (o \notin Among(list') /\ ~objs[o].disk => objs'[o] = objs[o])
  <2> DEFINE r == objs[o]
             d == (o \in Among(list'))
             restored == [r EXCEPT !.disk = d]
  <2>1. objs'[o] = restored
    BY <1>1, <1>7
  <2>2. r \in ObjType /\ d \in BOOLEAN /\ r.disk \in BOOLEAN
    BY <1>2, ObjFields
  <2>3. o \notin Among(list') /\ ~r.disk => d = r.disk
    BY <2>2
  <2>4. d = (o \in Among(list'))
    OBVIOUS
  <2> HIDE DEF d, r
  <2>5. /\ restored \in ObjType /\ restored.len = r.len /\ restored.mem = r.mem
        /\ restored.file_name = r.file_name /\ restored.cont = r.cont /\ restored.run = r.run
        /\ restored.disk = d
    BY <2>2 DEF ObjType
  <2>6. d = r.disk => restored = r
    BY <2>2 DEF ObjType
  <2> HIDE DEF restored
  <2> QED BY <2>1, <2>3, <2>4, <2>5, <2>6 DEF r
<1>8. objs' \in [Obj -> ObjType]
  <2>1. DOMAIN objs' = Obj /\ objs' = [o \in Obj |-> objs'[o]]
    BY <1>1
  <2> QED BY <1>7, <2>1
<1>9. Types'
  <2>1. clock' \in 1..MaxTime /\ runs' \in 0..MaxRuns
    BY <1>1, <1>2, DiskAssumption DEF Types
  <2>2. Cached' \subseteq 1..made' /\ behind' \subseteq Cached'
    BY <1>2, <1>3, <1>4, <1>5, <1>6 DEF Types
  <2> QED BY <1>1, <1>2, <1>3, <1>5, <1>6, <1>8, <2>1, <2>2 DEF Types, NoIndex
<1>10. \A o \in Obj : Name(o)' = Name(o)
  BY <1>7 DEF Name
<1>11. Names'
  <2>1. runs \in Nat /\ \A o \in Obj : objs[o].run \in Nat
    BY <1>2, ObjFields, DiskAssumption DEF Types
  <2>2. \A o \in Obj : objs'[o].run <= runs' /\ objs'[o].run # runs'
    BY <1>1, <1>2, <1>7, <2>1 DEF Names
  <2>3. \A o, p \in Obj : o # p /\ Name(o)' = Name(p)' /\ Name(o)' # 0 => o \in clashed'
    BY <1>2, <1>3, <1>10 DEF Names
  <2> QED BY <2>2, <2>3 DEF Names
<1>12. ASSUME NEW o \in Indexed
       PROVE  /\ o \in Obj /\ ~objs[o].mem /\ ~objs[o].disk /\ objs[o].cont = <<>>
              /\ OnFile(o) /\ OnFile(o)' /\ objs[o] = OnDisk(o)
  <2>1. o \in Obj /\ OnFile(o) /\ objs[o] = OnDisk(o)
    BY <1>4, <1>5 DEF DiskIInv, Recorded
  <2>2. ~objs[o].mem /\ ~objs[o].disk /\ objs[o].cont = <<>>
    BY <1>2, <2>1, OnDiskOK
  <2>3. OnFile(o)'
    BY <1>3, <1>7, <2>1, OnFileStays DEF SameFile
  <2> QED BY <2>1, <2>2, <2>3
<1>13. Counted'
  <2>1. ASSUME NEW o \in Nameless' PROVE o \in Nameless
    <3>1. ~(o \in Cached' /\ Name(o)' = 0)
      <4>1. ASSUME o \in Cached' PROVE Name(o)' # 0
        BY <1>5, <1>6, <1>10, <1>12, <4>1, DiskAssumption DEF OnFile, FileName, Types
      <4> QED BY <4>1
    <3> QED BY <1>3, <2>1, <3>1 DEF Nameless
  <2> QED BY <1>2, <1>3, <2>1, CountedStays
<1>14. ASSUME NEW o \in Cached' PROVE Contents(o)'
  <2>1. o \in Among(list') /\ o \in Indexed /\ index # NoIndex
    BY <1>5, <1>6
  <2>2. objs'[o].disk /\ ~objs'[o].mem /\ objs'[o].cont = <<>> /\ use_disk_cache' /\ OnFile(o)'
    BY <1>1, <1>7, <1>12, <2>1
  <2> QED BY <2>2 DEF Contents, ToRead
<1>15. ASSUME NEW o \in Indexed' PROVE Recorded(o)'
  <2>1. o \in Obj /\ OnFile(o)' /\ objs[o] = OnDisk(o) /\ ~objs[o].disk
    BY <1>6, <1>12
  <2>2. o \in Cached' \/ (objs[o] = OnDisk(o))'
    <3>1. CASE o \in Among(list')
      BY <1>6, <3>1
    <3>2. CASE o \notin Among(list')
      <4>1. objs'[o] = objs[o]
        BY <1>7, <2>1, <3>2
      <4> QED BY <2>1, <4>1 DEF OnDisk
    <3> QED BY <3>1, <3>2
  <2> QED BY <2>1, <2>2 DEF Recorded
<1>16. Promised'
  BY <1>1 DEF Promised
<1> QED BY <1>9, <1>11, <1>13, <1>14, <1>15, <1>16 DEF DiskIInv

-----------------------------------------------------------------------------
(* Steps that leave the objects and the files alone.                       *)
LEMMA QuietStep ==
  ASSUME DiskIInv, clock' \in clock..MaxTime, index' = NoIndex \/ index' \in Seq(Obj),
         Indexed' = Indexed,
         UNCHANGED <<runs, use_disk_cache, mode, count_file_name, listVars, objs, files, histVars>>
  PROVE  DiskIInv'
<1>1. Types /\ Names /\ Counted /\ Promised
  BY DEF DiskIInv
<1>2. /\ runs' = runs /\ use_disk_cache' = use_disk_cache /\ mode' = mode
      /\ count_file_name' = count_file_name /\ list' = list /\ behind' = behind /\ made' = made
      /\ objs' = objs /\ files' = files /\ clashed' = clashed /\ short' = short /\ due' = due
  BY DEF listVars, histVars
<1>3. Cached' = Cached /\ \A o \in Obj : Name(o)' = Name(o) /\ Body(o)' = Body(o)
  BY <1>2 DEF Cached, Among, Name, Body
<1>4. clock' \in 1..MaxTime /\ clock' \in Nat /\ clock' >= clock
  BY <1>1, DiskAssumption DEF Types
<1>5. Types'
  BY <1>1, <1>2, <1>3, <1>4 DEF Types
<1>6. Names'
  BY <1>1, <1>2, <1>4, NamesStay
<1>7. Counted'
  <2>1. Nameless' = Nameless
    BY <1>2, <1>3 DEF Nameless
  <2> QED BY <1>1, <1>2, <2>1, CountedStays
<1>8. ASSUME NEW o \in Cached' PROVE Contents(o)'
  <2>1. o \in Obj /\ Contents(o)
    BY <1>1, <1>3, InCache DEF DiskIInv
  <2> QED BY <1>2, <2>1, ContentsStay DEF SameFile
<1>9. ASSUME NEW o \in Indexed' PROVE Recorded(o)'
  <2>1. o \in Obj /\ Recorded(o)
    BY DEF DiskIInv, Indexed
  <2>2. OnFile(o)'
    BY <1>2, <2>1, OnFileStays DEF SameFile, Recorded
  <2> QED BY <1>2, <1>3, <2>1, <2>2 DEF Recorded, OnDisk
<1>10. Promised'
  <2>1. \A o \in due : o \in Obj /\ (Safe(o)' <=> Safe(o))
    BY <1>1, <1>2, <1>3 DEF Safe, Types
  <2> QED BY <1>1, <1>2, <1>3, <2>1 DEF Promised
<1> QED BY <1>5, <1>6, <1>7, <1>8, <1>9, <1>10 DEF DiskIInv

LEMMA FormatStep ==
  ASSUME DiskIInv, Format
  PROVE  DiskIInv'
<1>1. /\ index = NoIndex /\ index' = <<>>
      /\ UNCHANGED <<procVars, count_file_name, listVars, objs, files, histVars>>
  BY DEF Format
<1>2. Indexed = {} /\ Indexed' = {}
  <2>1. Len(<<0>>) = 1 /\ <<0>>[1] = 0 /\ \A i \in 1..1 : i = 1
    OBVIOUS
  <2>2. \A x \in Among(<<0>>) : x = 0
    BY <2>1 DEF Among
  <2>3. 0 \notin Obj
    BY DiskAssumption DEF Obj
  <2>4. Len(<<>>) = 0 /\ 1..0 = {}
    OBVIOUS
  <2>5. Among(<<>>) = {}
    BY <2>4 DEF Among
  <2>6. Indexed' = Among(index') \cap Obj
    BY DEF Indexed, Among
  <2> QED BY <1>1, <2>2, <2>3, <2>5, <2>6 DEF Indexed, NoIndex
<1>3. clock' \in clock..MaxTime
  BY <1>1, DiskAssumption DEF procVars, DiskIInv, Types
<1>4. index' \in Seq(Obj)
  BY <1>1
<1> QED BY <1>1, <1>2, <1>3, <1>4, QuietStep DEF procVars

LEMMA TickStep ==
  ASSUME DiskIInv, Tick
  PROVE  DiskIInv'
<1>1. /\ clock < MaxTime /\ clock' = clock + 1
      /\ UNCHANGED <<runs, use_disk_cache, mode, count_file_name, listVars, objs, diskVars,
                     histVars>>
  BY DEF Tick
<1>2. index' = index /\ files' = files
  BY <1>1 DEF diskVars
<1>3. clock' \in clock..MaxTime /\ (index' = NoIndex \/ index' \in Seq(Obj))
  BY <1>1, <1>2, DiskAssumption DEF DiskIInv, Types
<1>4. Indexed' = Indexed
  BY <1>2 DEF Indexed, Among
<1> QED BY <1>1, <1>2, <1>3, <1>4, QuietStep

LEMMA StutterStep ==
  ASSUME DiskIInv, UNCHANGED vars
  PROVE  DiskIInv'
<1>1. UNCHANGED <<procVars, count_file_name, listVars, objs, diskVars, histVars>>
  BY DEF vars
<1>2. index' = index /\ files' = files
  BY <1>1 DEF diskVars
<1>3. clock' \in clock..MaxTime /\ (index' = NoIndex \/ index' \in Seq(Obj))
  BY <1>1, <1>2, DiskAssumption DEF DiskIInv, Types, procVars
<1>4. Indexed' = Indexed
  BY <1>2 DEF Indexed, Among
<1> QED BY <1>1, <1>2, <1>3, <1>4, QuietStep DEF procVars

LEMMA InitOK ==
  ASSUME Init
  PROVE  DiskIInv
<1>1. /\ clock = 1 /\ runs = 0 /\ count_file_name = 0 /\ mode = "down" /\ use_disk_cache = TRUE
      /\ list = <<>> /\ behind = {} /\ made = 0 /\ objs = [o \in Obj |-> Fresh]
      /\ files = [n \in FileName |-> NoFile] /\ index = NoIndex
      /\ clashed = {} /\ short = {} /\ due = {}
  BY DEF Init
<1>2. Cached = {} /\ Indexed = {}
  <2>1. Len(<<0>>) = 1 /\ <<0>>[1] = 0 /\ (\A i \in 1..1 : i = 1) /\ Len(<<>>) = 0 /\ 1..0 = {}
    OBVIOUS
  <2>2. Among(<<>>) = {} /\ \A x \in Among(<<0>>) : x = 0
    BY <2>1 DEF Among
  <2>3. 0 \notin Obj
    BY DiskAssumption DEF Obj
  <2> QED BY <1>1, <2>2, <2>3 DEF Cached, Indexed, NoIndex
<1>3. NoFile \in Seq(Piece)
  <2>1. <<0, 0>> \in Piece
    BY DEF Piece
  <2> QED BY <2>1 DEF NoFile
<1>4. Types
  <2>1. /\ clock \in 1..MaxTime /\ runs \in 0..MaxRuns /\ made \in 0..MaxObj
        /\ count_file_name \in Nat
    BY <1>1, DiskAssumption
  <2>2. objs \in [Obj -> ObjType] /\ files \in [FileName -> Seq(Piece)] /\ list \in Seq(Obj)
    BY <1>1, <1>3, FreshOK
  <2> QED BY <1>1, <1>2, <2>1, <2>2 DEF Types
<1>5. Names
  <2>1. \A o \in Obj : objs[o].run = 0 /\ Name(o) = 0
    BY <1>1 DEF Name, Fresh
  <2> QED BY <1>1, <2>1 DEF Names
<1>6. Counted
  <2>1. Nameless \in SUBSET Obj
    BY DEF Nameless
  <2>2. Cardinality(Nameless) \in Nat /\ Cardinality(Nameless) <= MaxObj
    BY <2>1, SomeObjects
  <2> QED BY <1>1, <2>2, DiskAssumption DEF Counted
<1>7. Promised
  BY <1>1 DEF Promised
<1> QED BY <1>2, <1>4, <1>5, <1>6, <1>7 DEF DiskIInv

-----------------------------------------------------------------------------
LEMMA DiskStep == DiskIInv /\ [Next]_vars => DiskIInv'
<1> SUFFICES ASSUME DiskIInv, [Next]_vars PROVE DiskIInv'
  OBVIOUS
<1>1. CASE UNCHANGED vars
  BY <1>1, StutterStep
<1>2. ASSUME NEW old \in {{}} \cup {{o} : o \in Live}, NEW len \in Lengths, Fill(old, len)
      PROVE  DiskIInv'
  <2>1. old = {} \/ (\E q \in Live : old = {q})
    OBVIOUS
  <2> QED BY <1>2, <2>1, FillStep
<1>3. ASSUME NEW o \in Obj,
             \/ Locate(o) \/ Leave(o) \/ SwapInFails(o) \/ SwapInFrees(o)
             \/ SwapOutAgain(o) \/ SwapOutFails(o) \/ PassOver(o) \/ Destroy(o)
      PROVE  DiskIInv'
  BY <1>3, LocateStep, LeaveStep, SwapInFailsStep, SwapInFreesStep, SwapOutAgainStep,
     SwapOutFailsStep, PassOverStep, DestroyStep
<1>4. ASSUME NEW o \in Obj, NEW n \in Pieces,
             SwapIn(o, n) \/ SwapInMisfits(o, n) \/ SwapOut(o, n) \/ SwapOutStops(o, n)
      PROVE  DiskIInv'
  BY <1>4, SwapInStep, SwapInMisfitsStep, SwapOutStep, SwapOutStopsStep
<1>5. CASE SaveIndex \/ Shutdown \/ Exit \/ Crash \/ Boot \/ Format \/ Tick
  BY <1>5, SaveIndexStep, ShutdownStep, ExitStep, CrashStep, BootStep, FormatStep, TickStep
<1> QED BY <1>1, <1>2, <1>3, <1>4, <1>5 DEF Next

(* get_disk_cache_file, swap_out_obj, swap_in_obj, save_index_file and     *)
(* load_all_from_disk keep the files true: whatever fails, and whenever    *)
(* the process dies, the file of an object has the first pieces of its     *)
(* own body or is gone, names that are shared are known, and an object     *)
(* whose memory was given back is on disk.  Of containers it says less:    *)
(* what an fread that stopped at an error has left in one stays there in   *)
(* front of the body that another request reads.                           *)
THEOREM FilesAreTrue == Spec => []DiskIInv
<1>1. Init => DiskIInv
  BY InitOK
<1>2. DiskIInv /\ [Next]_vars => DiskIInv'
  BY DiskStep
<1> QED BY <1>1, <1>2, PTL DEF Spec

(* A request that sends a cached object sends the body of that object,     *)
(* whole and once, after failed writes, crashes, an index older than the   *)
(* files and files that earlier runs left: swap_in_obj compares what it    *)
(* has read with content_length, and swap_out_obj and get_disk_cache_file  *)
(* give a name of this run to one object only.  After a failed read it     *)
(* does not always: if fread has stopped at an error for another request   *)
(* that held the object too, pieces of this same body come before it; and  *)
(* after one that ran out of memory nothing is said of the container.      *)
THEOREM BodiesAreOwn == Spec => []OwnBody
<1>1. DiskIInv => OwnBody
  <2> SUFFICES ASSUME DiskIInv, mode = "up", NEW o \in Cached \ clashed,
                      objs[o].mem, objs[o].refs > 0
               PROVE  \/ objs[o].cont = Body(o) \/ Unusable \in Among(objs[o].cont)
                      \/ ReadAgain(o)
    BY DEF OwnBody
  <2>1. Unwritten(o) \/ ReadBack(o) \/ Spoilt(o)
    BY DEF DiskIInv, Contents
  <2>2. ~Spoilt(o)
    BY DEF Spoilt
  <2> QED BY <2>1, <2>2 DEF Unwritten, ReadBack, Mishap
<1> QED BY <1>1, FilesAreTrue, PTL

(* Only init_cache begins a run.                                           *)
LEMMA OnlyBoot ==
  ASSUME Next, mode = "down", mode' = "up"
  PROVE  Boot
<1>1. ASSUME NEW old, NEW len, Fill(old, len) PROVE FALSE
  BY <1>1 DEF Fill
<1>2. ASSUME NEW o \in Obj,
             \/ Locate(o) \/ Leave(o) \/ SwapInFails(o) \/ SwapInFrees(o)
             \/ PassOver(o) \/ Destroy(o)
      PROVE  FALSE
  BY <1>2 DEF Locate, Leave, Leaves, SwapInFails, SwapInFrees, Opens, CanRead, PassOver,
              Destroy
<1>3. ASSUME NEW o \in Obj, NEW n,
             \/ SwapIn(o, n) \/ SwapInMisfits(o, n)
             \/ SwapOutAgain(o) \/ SwapOutFails(o) \/ SwapOut(o, n) \/ SwapOutStops(o, n)
      PROVE  FALSE
  BY <1>3 DEF SwapIn, SwapInMisfits, Reads, Opens, CanRead,
              SwapOutAgain, SwapOutFails, SwapOut, SwapOutStops, Saves
<1>4. CASE SaveIndex \/ Shutdown \/ Exit \/ Crash \/ Format \/ Tick
  BY <1>4 DEF SaveIndex, Shutdown, Exit, Crash, Format, Tick, procVars
<1>5. ASSUME NEW o \in Obj,
             \/ Locate(o) \/ Leave(o) \/ SwapInFails(o) \/ SwapInFrees(o)
             \/ SwapOutAgain(o) \/ SwapOutFails(o) \/ PassOver(o) \/ Destroy(o)
      PROVE  FALSE
  BY <1>2, <1>3, <1>5
<1> QED BY <1>1, <1>3, <1>4, <1>5 DEF Next

(* What could be sent when shutdown was called is cached after the next    *)
(* start, with the whole body in its file: delete_cache(-1) writes it,     *)
(* save_index_file records it, and load_all_from_disk finds it.            *)
THEOREM RestartKeepsAll == Spec => RestartKeeps
<1> DEFINE Kept == mode = "down" /\ mode' = "up" =>
                     \A o \in due \ (short \cup clashed) :
                       \/ o \in Cached' /\ files[Name(o)] = Body(o)
                       \/ \E i, j \in 1..Len(index) : i <= j /\ index[j] = o /\ index[i] \in LongUrl
<1>1. DiskIInv /\ [Next]_vars => [Kept]_vars
  <2> SUFFICES ASSUME DiskIInv, Next, mode = "down", mode' = "up",
                      NEW o \in due \ (short \cup clashed)
               PROVE  \/ o \in Cached' /\ files[Name(o)] = Body(o)
                      \/ \E i, j \in 1..Len(index) :
                           i <= j /\ index[j] = o /\ index[i] \in LongUrl
    OBVIOUS
  <2>1. Boot
    BY OnlyBoot
  <2>2. o \in Indexed /\ Safe(o)
    BY DEF DiskIInv, Promised
  <2>3. files[Name(o)] = Body(o)
    BY <2>2 DEF Safe
  <2>4. index # NoIndex /\ index \in Seq(Obj)
    <3>1. index # NoIndex
      <4>1. Len(<<0>>) = 1 /\ <<0>>[1] = 0 /\ \A i \in 1..1 : i = 1
        OBVIOUS
      <4>2. \A x \in Among(<<0>>) : x = 0
        BY <4>1 DEF Among
      <4>3. 0 \notin Obj
        BY DiskAssumption DEF Obj
      <4> QED BY <2>2, <4>2, <4>3 DEF Indexed, NoIndex
    <3> QED BY <3>1 DEF DiskIInv, Types
  <2>5. PICK j \in 1..Len(index) : index[j] = o
    BY <2>2 DEF Indexed, Among
  <2>6. Cached' = Among(Restored)
    <3>1. list' = Restored
      BY <2>1, <2>4 DEF Boot
    <3>2. Cached' = Among(list')
      BY DEF Cached, Among
    <3> QED BY <3>1, <3>2
  <2>7. \/ index[j] \in Among(Restored)
        \/ \E i \in 1..Len(index) : i <= j /\ index[i] \in LongUrl
    <3> HIDE DEF Restored
    <3> QED BY <2>4, RestoredOK
  <2> QED BY <2>3, <2>5, <2>6, <2>7
<1>2. Spec => [][Kept]_vars
  BY <1>1, FilesAreTrue, PTL DEF Spec
<1> QED BY <1>2 DEF RestartKeeps

-----------------------------------------------------------------------------
(* The list holds an object once, and so does the index.                   *)
Once == Distinct(list) /\ Distinct(index)

LEMMA AppendDistinct ==
  ASSUME NEW S, NEW s \in Seq(S), NEW x \in S, Distinct(s), x \notin Among(s)
  PROVE  Distinct(Append(s, x))
<1>1. /\ Len(Append(s, x)) = Len(s) + 1 /\ Len(s) \in Nat
      /\ \A i \in 1..Len(s) : Append(s, x)[i] = s[i] /\ s[i] # x
      /\ Append(s, x)[Len(s) + 1] = x
  BY DEF Among
<1>2. \A i \in 1..Len(s) + 1 : i \in 1..Len(s) \/ i = Len(s) + 1
  BY <1>1
<1> QED BY <1>1, <1>2 DEF Distinct

LEMMA UptoDistinct ==
  ASSUME NEW S, NEW s \in Seq(S), NEW n \in 0..Len(s), Distinct(s)
  PROVE  Distinct(Upto(s, n))
<1>1. Len(Upto(s, n)) = n /\ \A i \in 1..n : Upto(s, n)[i] = s[i]
  BY UptoOK
<1>2. 1..n \subseteq 1..Len(s)
  OBVIOUS
<1> QED BY <1>1, <1>2 DEF Distinct

LEMMA FewDistinct == Distinct(<<>>) /\ Distinct(NoIndex)
<1>1. Len(<<>>) = 0 /\ 1..0 = {} /\ Len(<<0>>) = 1 /\ \A i \in 1..1 : i = 1
  OBVIOUS
<1> QED BY <1>1 DEF Distinct, NoIndex

(* As many elements as places.                                             *)
LEMMA DistinctCount ==
  ASSUME NEW S, NEW s \in Seq(S), Distinct(s)
  PROVE  Cardinality(Among(s)) = Len(s)
<1> DEFINE f == [i \in 1..Len(s) |-> s[i]]
<1>1. Len(s) \in Nat
  OBVIOUS
<1>2. f \in Bijection(1..Len(s), Among(s))
  <2>1. f \in Injection(1..Len(s), Among(s))
    BY DEF Distinct, Among, Injection, IsInjective
  <2>2. f \in Surjection(1..Len(s), Among(s))
    BY DEF Among, Surjection
  <2> QED BY <2>1, <2>2 DEF Bijection
<1>3. ExistsBijection(1..Len(s), Among(s))
  <2> HIDE DEF f
  <2> QED BY <1>2 DEF ExistsBijection
<1> QED BY <1>1, <1>3, FS_CountingElements

LEMMA RestoredDistinct ==
  ASSUME index \in Seq(Obj), Distinct(index)
  PROVE  Distinct(Restored)
<1> DEFINE bad == {i \in 1..Len(index) : index[i] \in LongUrl}
           first == CHOOSE i \in bad : \A j \in bad : i <= j
<1>1. Restored = IF bad = {} THEN index ELSE Upto(index, first - 1)
  BY DEF Restored
<1>2. ASSUME bad # {} PROVE Distinct(Upto(index, first - 1))
  <2>1. bad \in SUBSET Nat /\ bad \subseteq 1..Len(index)
    OBVIOUS
  <2>2. \E i \in bad : \A j \in bad : i <= j
    <3> HIDE DEF bad
    <3> QED BY <1>2, <2>1, LeastNumber
  <2>3. first \in bad
    <3> HIDE DEF bad
    <3> QED BY <2>2
  <2>4. first - 1 \in 0..Len(index)
    BY <2>1, <2>3
  <2> HIDE DEF first
  <2> QED BY <2>4, UptoDistinct
<1> QED BY <1>1, <1>2

LEMMA OnceStep ==
  ASSUME DiskIInv, Once, [Next]_vars
  PROVE  Once'
<1>1. /\ Types /\ list \in Seq(Obj) /\ (index = NoIndex \/ index \in Seq(Obj))
      /\ Distinct(list) /\ Distinct(index)
  BY DEF DiskIInv, Types, Once
<1>2. Distinct(Saved) /\ Saved \in Seq(Obj)
  BY <1>1, SelectedOK DEF Saved
<1>3. ASSUME NEW o \in Obj
      PROVE  Distinct(Without(o)) /\ Distinct(Append(Without(o), o))
  <2>1. /\ Without(o) \in Seq(Obj) /\ Among(Without(o)) = Among(list) \cap (Cached \ {o})
        /\ Distinct(Without(o))
    BY <1>1, SelectedOK DEF Without
  <2> QED BY <2>1, AppendDistinct
<1>4. ASSUME UNCHANGED list, UNCHANGED index PROVE Once'
  BY <1>1, <1>4 DEF Once, Distinct
<1>5. ASSUME NEW old, NEW len, Fill(old, len) PROVE Once'
  <2>1. PICK o : o = made + 1
    OBVIOUS
  <2>2. list' = Append(list, o) /\ index' = index /\ made < MaxObj
    BY <1>5, <2>1 DEF Fill, diskVars
  <2>3. o \in Obj /\ o \notin 1..made
    BY <1>1, <2>1, <2>2, DiskAssumption DEF Types, Obj
  <2>4. o \notin Among(list)
    BY <1>1, <2>3 DEF Types, Cached
  <2>5. Distinct(Append(list, o))
    BY <1>1, <2>3, <2>4, AppendDistinct
  <2> QED BY <1>1, <2>2, <2>5 DEF Once, Distinct
<1>6. ASSUME NEW o \in Obj, NEW new, Leaves(o, new) PROVE Once'
  <2>1. list' = Append(Without(o), o) /\ index' = index
    BY <1>6 DEF Leaves, diskVars
  <2> QED BY <1>1, <1>3, <2>1 DEF Once, Distinct
<1>7. ASSUME NEW o \in Obj, NEW new, Changes(o, new) PROVE Once'
  BY <1>4, <1>7 DEF Changes, listVars, diskVars
<1>8. ASSUME NEW o \in Obj, NEW n,
             \/ Locate(o) \/ Leave(o) \/ SwapIn(o, n) \/ SwapInMisfits(o, n)
             \/ SwapInFails(o) \/ SwapInFrees(o) \/ SwapOutAgain(o)
      PROVE  Once'
  BY <1>6, <1>7, <1>8 DEF Locate, Leave, SwapIn, SwapInMisfits, SwapInFails, SwapInFrees,
                          SwapOutAgain
<1>9. ASSUME NEW o \in Obj, NEW n,
             SwapOutFails(o) \/ PassOver(o) \/ SwapOut(o, n) \/ SwapOutStops(o, n)
      PROVE  Once'
  BY <1>4, <1>9 DEF SwapOutFails, PassOver, SwapOut, SwapOutStops, listVars, diskVars
<1>10. ASSUME NEW o \in Obj, Destroy(o) PROVE Once'
  <2>1. list' = Without(o) /\ index' = index
    BY <1>10 DEF Destroy
  <2> QED BY <1>1, <1>3, <2>1 DEF Once, Distinct
<1>11. CASE SaveIndex
  <2>1. list' = list /\ index' = Saved
    BY <1>11 DEF SaveIndex, WriteIndex, listVars
  <2> QED BY <1>1, <1>2, <2>1 DEF Once, Distinct
<1>12. CASE Shutdown \/ Format \/ Tick \/ UNCHANGED vars
  <2>1. CASE Shutdown \/ Tick \/ UNCHANGED vars
    BY <1>4, <2>1 DEF Shutdown, Tick, vars, listVars, diskVars
  <2>2. CASE Format
    <3>1. list' = list /\ index' = <<>>
      BY <2>2 DEF Format, listVars
    <3> QED BY <1>1, <3>1, FewDistinct DEF Once, Distinct
  <2> QED BY <1>12, <2>1, <2>2
<1>13. ASSUME NEW recs, Down(recs), Distinct(recs) PROVE Once'
  <2>1. list' = <<>> /\ index' = recs
    BY <1>13 DEF Down, WriteIndex
  <2> QED BY <1>13, <2>1, FewDistinct DEF Once, Distinct
<1>14. CASE Exit
  <2> HIDE DEF Saved
  <2> QED BY <1>2, <1>13, <1>14 DEF Exit
<1>15. CASE Crash
  <2>1. CASE Down(index)
    BY <1>1, <1>13, <2>1
  <2>2. ASSUME NEW n \in 0..Len(Saved), Down(Upto(Saved, n)) PROVE Once'
    <3>1. Distinct(Upto(Saved, n))
      BY <1>2, UptoDistinct
    <3> QED BY <1>13, <2>2, <3>1
  <2> QED BY <1>15, <2>1, <2>2 DEF Crash
<1>16. CASE Boot
  <2>1. index' = index /\ list' = IF index = NoIndex THEN <<>> ELSE Restored
    BY <1>16 DEF Boot, diskVars
  <2>2. index # NoIndex => Distinct(Restored)
    BY <1>1, RestoredDistinct
  <2> HIDE DEF Restored
  <2> QED BY <1>1, <2>1, <2>2, FewDistinct DEF Once, Distinct
<1>17. CASE Next
  BY <1>5, <1>8, <1>9, <1>10, <1>11, <1>12, <1>14, <1>15, <1>16, <1>17 DEF Next
<1> QED BY <1>12, <1>17

(* TypeOK: among the rest, the list holds no object twice after any order  *)
(* of obj_rate and destroy_obj and after any start, and what has lost its  *)
(* memory to swap_out_obj is on disk, under a name that the bounds allow.  *)
THEOREM TypeCorrect == Spec => []TypeOK
<1>1. Init => Once
  BY FewDistinct DEF Init, Once
<1>2. DiskIInv /\ Once /\ [Next]_vars => Once'
  BY OnceStep
<1>3. DiskIInv /\ Once => TypeOK
  <2> SUFFICES ASSUME DiskIInv, Once PROVE TypeOK
    OBVIOUS
  <2>1. Types /\ Counted /\ Distinct(list) /\ list \in Seq(Obj)
    BY DEF DiskIInv, Types, Once
  <2>2. Cardinality(Cached) = Len(list)
    BY <2>1, DistinctCount DEF Cached
  <2>3. count_file_name \in 0..MaxObj
    <3>1. Cardinality(Nameless) \in Nat
      BY NamelessFinite
    <3> QED BY <2>1, <3>1, DiskAssumption DEF Types, Counted
  <2>4. \A o \in Cached : ~objs[o].mem => objs[o].disk /\ Name(o) \in FileName
    BY DEF DiskIInv, Contents, ToRead, OnFile
  <2> QED BY <2>1, <2>2, <2>3, <2>4 DEF TypeOK, Types
<1> QED BY <1>1, <1>2, <1>3, FilesAreTrue, PTL DEF Spec
=============================================================================
