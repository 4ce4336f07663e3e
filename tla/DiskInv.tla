------------------------------- MODULE DiskInv -------------------------------
(***************************************************************************)
(* Why the properties of the cache's files hold: the inductive invariant.  *)
(***************************************************************************)
EXTENDS DiskCache

Piece == Nat \X Nat

ObjType == [len : Nat, mem : BOOLEAN, disk : BOOLEAN, dead : BOOLEAN, file_name : Nat,
            run : Nat, cont : Seq(Piece), refs : Nat, cut : BOOLEAN]

Indexed == Among(index) \cap Obj

Types ==
  /\ clock \in 1..MaxTime /\ runs \in 0..MaxRuns /\ count_file_name \in Nat
  /\ mode \in {"down", "up", "quit"} /\ use_disk_cache \in BOOLEAN
  /\ made \in 0..MaxObj /\ list \in Seq(Obj) /\ Cached \subseteq 1..made
  /\ behind \subseteq Cached
  /\ objs \in [Obj -> ObjType] /\ files \in [FileName -> Seq(Piece)]
  /\ index = NoIndex \/ index \in Seq(Obj)
  /\ Indexed \subseteq 1..made
  /\ clashed \subseteq Obj /\ short \subseteq Obj /\ due \subseteq Obj
  /\ mode = "down" => list = <<>>
  /\ mode = "quit" => use_disk_cache

-----------------------------------------------------------------------------
(* The names that were given.                                              *)

(* Those of this run are below the next one, and whoever shares a name     *)
(* with another object is in clashed.                                      *)
Names ==
  /\ \A o \in Obj : objs[o].run <= runs
  /\ mode # "down" =>
       \A o \in Obj : objs[o].run = runs /\ Name(o) # 0 => Name(o) < clock + count_file_name
  /\ \A o, p \in Obj : o # p /\ Name(o) = Name(p) /\ Name(o) # 0 => o \in clashed

(* Each object takes one step of the counter at most.                      *)
Nameless == {o \in Obj : o > made \/ (o \in Cached /\ Name(o) = 0)}
Counted == count_file_name + Cardinality(Nameless) <= MaxObj

-----------------------------------------------------------------------------
(* What is in the files, and in memory.                                    *)

(* The file of an object has the first pieces of its body, or is gone.     *)
Holds(o) ==
  \/ files[Name(o)] = NoFile
  \/ \E n \in 0..objs[o].len : files[Name(o)] = Upto(Body(o), n)

OnFile(o) == Name(o) \in FileName /\ (o \in clashed \/ Holds(o))

(* swap_out_obj could not write it: it has lost its chunks, though it      *)
(* counts as in memory, but nobody will look at it again.                  *)
Spoilt(o) ==
  /\ ~objs[o].disk /\ objs[o].cont = <<>> /\ objs[o].dead /\ o \in behind
  /\ objs[o].refs = 0 \/ mode = "quit"

Mishap(o) == Unusable \in Among(objs[o].cont)

Unwritten(o) == ~objs[o].disk /\ objs[o].cont = Body(o) /\ Name(o) = 0

ReadBack(o) ==
  /\ objs[o].disk
  /\ \/ o \in clashed
     \/ files[Name(o)] = Body(o) /\ (objs[o].cont = Body(o) \/ Mishap(o) \/ ReadAgain(o))

(* What reads that have stopped before the end of a good file have left.   *)
Leftover(o) ==
  /\ objs[o].cut /\ objs[o].dead
  /\ \A k \in 1..Len(objs[o].cont) : objs[o].cont[k] \in Among(Body(o))

(* A read that fits it finds the body in the file, and only pieces of the  *)
(* body in front of what it reads.                                         *)
ToRead(o) ==
  /\ objs[o].disk
  /\ \/ o \in clashed \/ objs[o].cont = <<>> \/ Mishap(o) \/ Leftover(o)
     \/ Len(files[Name(o)]) # objs[o].len

Contents(o) ==
  /\ objs[o].mem => Unwritten(o) \/ ReadBack(o) \/ Spoilt(o)
  /\ ~objs[o].mem => ToRead(o)
  /\ objs[o].disk => use_disk_cache /\ OnFile(o)

(* What only the index leads to.                                           *)
Recorded(o) == OnFile(o) /\ (o \in Cached \/ objs[o] = OnDisk(o))

-----------------------------------------------------------------------------
(* What the shutdown is to save is saved, or can be.                       *)
Safe(o) == o \in short \cup clashed \/ files[Name(o)] = Body(o)

Promised ==
  /\ mode = "quit" =>
       \A o \in due : objs[o].dead \/ (o \in Cached \ behind /\ (objs[o].disk => Safe(o)))
  /\ mode = "down" => \A o \in due : o \in Indexed /\ Safe(o)

DiskIInv ==
  /\ Types /\ Names /\ Counted
  /\ \A o \in Cached : Contents(o)
  /\ \A o \in Indexed : Recorded(o)
  /\ Promised
=============================================================================
