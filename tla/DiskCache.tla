------------------------------ MODULE DiskCache ------------------------------
(***************************************************************************)
(* The files of the cache and their index, through runs of the program     *)
(* that end in a shutdown or a crash: get_disk_cache_file, swap_out_obj    *)
(* and swap_in_obj (src/src/garbage_c.cpp), save_index_file,               *)
(* restore_obj_index and load_all_from_disk (src/src/cache.cpp), shutdown  *)
(* and -z (src/src/main.cpp).                                              *)
(*                                                                         *)
(* A body is a sequence of pieces <<o, k>>, the k-th of object o.  Objects *)
(* have numbers that are not used again, so that a file or a container     *)
(* tells whose pieces it holds.  All URLs have one hash and so share a     *)
(* directory; the list and its locks are those of ObjCache, reduced to the *)
(* order of the objects.  What neither the list nor the index leads to is  *)
(* forgotten: nobody looks for an object or opens a file in another way.   *)
(***************************************************************************)
EXTENDS Integers, Sequences, FiniteSets

CONSTANTS
  MaxObj,   \* bound: objects
  LongUrl,  \* those whose URL has a path of more than 2048 characters
  Lengths,  \* lengths of bodies
  Pieces,   \* how many pieces of a body a write or a read may come to
  MaxRefs,  \* bound: requests that use an object
  MaxTime,  \* bound: of the clock
  MaxRuns   \* bound: runs of the program

ASSUME DiskAssumption ==
  /\ MaxObj \in Nat /\ LongUrl \subseteq 1..MaxObj
  /\ Lengths \subseteq Nat \ {0} /\ Pieces \subseteq Nat /\ Lengths \subseteq Pieces
  /\ MaxRefs \in Nat /\ MaxTime \in Nat \ {0} /\ MaxRuns \in Nat

Obj == 1..MaxObj

VARIABLES
  clock,            \* time(NULL)
  runs,             \* the number of this run
  count_file_name,  \* of this run
  use_disk_cache,
  mode,             \* "down", "up", "quit" while shutdown writes the objects
  list,             \* the cached objects, from l_dhead on
  behind,           \* those in memory that delete_cache has left in front of l_head
  made,             \* how many objects there have been
  objs,             \* the objects
  files,            \* the files: what each holds, or NoFile
  index,            \* the records of the index file, or NoIndex
  clashed,          \* history: objects whose file name an object of another run got
  short,            \* history: objects whose file lost a write that nobody noticed
  due               \* history: what the last shutdown was to save

procVars == <<clock, runs, use_disk_cache, mode>>
listVars == <<list, behind, made>>
diskVars == <<files, index>>
histVars == <<clashed, short, due>>
vars == <<procVars, count_file_name, listVars, objs, diskVars, histVars>>

NoFile   == <<<<0, 0>>>>
NoIndex  == <<0>>
Unusable == <<0, 1>>  \* a chunk that was freed
FileName == 1..MaxTime + MaxObj

(* refs: requests that use it; run: the run in which it got its file_name; *)
(* cut, history: a read of its file has stopped before the end, and what   *)
(* it has read is still there.                                             *)
Fresh == [len |-> 0, mem |-> FALSE, disk |-> FALSE, dead |-> FALSE, file_name |-> 0,
          run |-> 0, cont |-> <<>>, refs |-> 0, cut |-> FALSE]

Body(o)     == [k \in 1..objs[o].len |-> <<o, k>>]
Among(s)    == {s[i] : i \in 1..Len(s)}
Cached      == Among(list)
Live        == {o \in Cached : ~objs[o].dead}
Name(o)     == objs[o].file_name
Upto(s, n)  == SubSeq(s, 1, n)

(* The objects of s that are in keep, in their order.                      *)
Selected(s, keep) ==
  LET sel[i \in 0..Len(s)] ==
        IF i = 0 THEN <<>>
        ELSE IF s[i] \in keep THEN Append(sel[i - 1], s[i]) ELSE sel[i - 1]
  IN sel[Len(s)]

Without(o)  == Selected(list, Cached \ {o})

(* What the index and its file know of an object whose memory is gone.     *)
OnDisk(o) == [objs[o] EXCEPT !.mem = FALSE, !.disk = FALSE, !.dead = FALSE, !.cont = <<>>,
                             !.refs = 0, !.cut = FALSE]

(* Of os and fs, what the objects in keep still lead to.                   *)
KeptObjs(os, keep) == [o \in Obj |-> IF o \in keep THEN os[o] ELSE Fresh]
KeptFiles(fs, os, keep) ==
  [n \in FileName |-> IF \E o \in keep : os[o].file_name = n THEN fs[n] ELSE NoFile]

Init ==
  /\ clock = 1 /\ runs = 0 /\ count_file_name = 0
  /\ mode = "down" /\ use_disk_cache = TRUE
  /\ list = <<>> /\ behind = {} /\ made = 0 /\ objs = [o \in Obj |-> Fresh]
  /\ files = [n \in FileName |-> NoFile] /\ index = NoIndex
  /\ clashed = {} /\ short = {} /\ due = {}

-----------------------------------------------------------------------------
(* The requests.                                                           *)

(* stored_obj of a whole answer, after dead_obj of the object that it      *)
(* replaces, if there is one: this goes to the front of the list.          *)
Fill(old, len) ==
  /\ mode = "up" /\ made < MaxObj
  /\ made' = made + 1
  /\ objs' = [o \in Obj |->
       IF o = made'
       THEN [Fresh EXCEPT !.len = len, !.mem = TRUE, !.cont = [k \in 1..len |-> <<o, k>>]]
       ELSE [objs[o] EXCEPT !.dead = @ \/ o \in old]]
  /\ list' = Append(list, made')
  /\ behind' = behind \cup old
  /\ UNCHANGED <<procVars, count_file_name, diskVars, histVars>>

Changes(o, new) ==
  /\ objs' = [objs EXCEPT ![o] = new]
  /\ UNCHANGED <<procVars, count_file_name, listVars, diskVars, histVars>>

Locate(o) ==
  /\ mode = "up" /\ o \in Live /\ objs[o].refs < MaxRefs
  /\ Changes(o, [objs[o] EXCEPT !.refs = @ + 1])

(* obj_rate and release_obj.                                               *)
Leaves(o, new) ==
  /\ mode = "up" /\ o \in Cached /\ objs[o].refs > 0
  /\ objs' = [objs EXCEPT ![o] = [new EXCEPT !.refs = @ - 1]]
  /\ list' = Append(Without(o), o)
  /\ behind' = behind \ {o}
  /\ UNCHANGED <<procVars, count_file_name, made, diskVars, histVars>>

Leave(o) == Leaves(o, objs[o])

(* Variant: what was read is not compared with the length of the object.   *)
AnyLength(o, n) == TRUE

(* total_len, the length of this read, is the content_length.              *)
LengthFits(o, n) == n = objs[o].len

CanRead(o) == mode = "up" /\ o \in Cached /\ objs[o].refs > 0 /\ ~objs[o].mem
Opens(o)   == CanRead(o) /\ objs[o].disk /\ files[Name(o)] # NoFile

(* fread has come to n pieces, at the end of the file or at an error: they *)
(* are put behind what an earlier attempt has left.                        *)
Reads(o, n)    == Opens(o) /\ n \in 0..Len(files[Name(o)])
WithRead(o, n) == [objs[o] EXCEPT !.cont = @ \o Upto(files[Name(o)], n)]
Cut(o, n)      == objs[o].cut \/ n < Len(files[Name(o)])

SwapIn(o, n) ==
  /\ Reads(o, n) /\ LengthFits(o, n)
  /\ Changes(o, [WithRead(o, n) EXCEPT !.mem = TRUE])

(* A request that cannot read its object leaves; another one may try again *)
(* with what the first has left: too few pieces or too many, or,           *)
SwapInMisfits(o, n) ==
  /\ Reads(o, n) /\ ~LengthFits(o, n)
  /\ Leaves(o, [WithRead(o, n) EXCEPT !.dead = TRUE, !.cut = Cut(o, n)])

(* no file, or no memory for the buffer, or,                               *)
SwapInFails(o) ==
  /\ CanRead(o)
  /\ Leaves(o, [objs[o] EXCEPT !.dead = TRUE])

(* no memory in store_in_chain: the chunks are freed, but container still  *)
(* points at them.                                                         *)
SwapInFrees(o) ==
  /\ Opens(o)
  /\ Leaves(o, [objs[o] EXCEPT !.dead = TRUE, !.cont = <<Unusable>>])

-----------------------------------------------------------------------------
(* The collector.                                                          *)

(* Variant: the counter is not moved on.                                   *)
TakeName == count_file_name' = count_file_name

NextName == count_file_name' = count_file_name + 1

Target(o) == IF Name(o) = 0 THEN clock + count_file_name ELSE Name(o)

(* file_name is written in an object of its own run once, and not at all   *)
(* in one that the index has brought back.                                 *)
Named(o) ==
  LET same == {p \in Obj \ {o} : Name(p) = Target(o) /\ objs[p].run < runs}
  IN IF Name(o) = 0
     THEN NextName /\ clashed' = clashed \cup same \cup {p \in {o} : same # {}}
     ELSE UNCHANGED <<count_file_name, clashed>>

With(o, name) ==
  [objs[o] EXCEPT !.cont = <<>>, !.cut = FALSE, !.file_name = name,
                  !.run = IF name = Name(o) THEN @ ELSE runs]

Saves(o) ==
  /\ mode \in {"up", "quit"} /\ o \in Cached \ behind /\ objs[o].mem
  /\ mode = "quit" \/ objs[o].refs = 0

(* It is on disk already.                                                  *)
SwapOutAgain(o) ==
  /\ Saves(o) /\ use_disk_cache /\ objs[o].disk
  /\ Changes(o, [objs[o] EXCEPT !.mem = FALSE, !.cont = <<>>, !.cut = FALSE])

(* n pieces reach the file; fclose is not asked whether all of them did.   *)
SwapOut(o, n) ==
  /\ Saves(o) /\ use_disk_cache /\ ~objs[o].disk
  /\ n \in 0..Len(objs[o].cont)
  /\ Named(o)
  /\ files' = [files EXCEPT ![Target(o)] = Upto(objs[o].cont, n)]
  /\ objs' = [objs EXCEPT ![o] = [With(o, Target(o)) EXCEPT !.mem = FALSE, !.disk = TRUE]]
  /\ short' = IF n < objs[o].len THEN short \cup {o} ELSE short
  /\ UNCHANGED <<procVars, listVars, index, due>>

(* fwrite fails: what was written stays, and nobody will remove it.        *)
SwapOutStops(o, n) ==
  /\ Saves(o) /\ use_disk_cache /\ ~objs[o].disk
  /\ n \in 0..Len(objs[o].cont) - 1
  /\ Named(o)
  /\ files' = [files EXCEPT ![Target(o)] = Upto(objs[o].cont, n)]
  /\ objs' = [objs EXCEPT ![o] = [With(o, Target(o)) EXCEPT !.dead = TRUE]]
  /\ behind' = behind \cup {o}
  /\ UNCHANGED <<procVars, list, made, index, short, due>>

(* fopen fails, or there is no disk cache.                                 *)
SwapOutFails(o) ==
  /\ Saves(o) /\ ~(use_disk_cache /\ objs[o].disk)
  /\ IF use_disk_cache
     THEN Named(o) /\ objs' = [objs EXCEPT ![o] = [With(o, Target(o)) EXCEPT !.dead = TRUE]]
     ELSE /\ objs' = [objs EXCEPT ![o] = [With(o, Name(o)) EXCEPT !.dead = TRUE]]
          /\ UNCHANGED <<count_file_name, clashed>>
  /\ behind' = behind \cup {o}
  /\ UNCHANGED <<procVars, list, made, diskVars, short, due>>

(* delete_cache goes on past an object in use.                             *)
PassOver(o) ==
  /\ mode = "up" /\ o \in Cached /\ objs[o].mem /\ objs[o].refs > 0
  /\ behind' = behind \cup {o}
  /\ UNCHANGED <<procVars, count_file_name, list, made, objs, diskVars, histVars>>

(* clean_disk: a dead object, or the oldest one that is not in memory.     *)
Destroy(o) ==
  LET fs   == IF objs[o].disk THEN [files EXCEPT ![Name(o)] = NoFile] ELSE files
      os   == [objs EXCEPT ![o] = OnDisk(o)]
      keep == (Cached \ {o}) \cup (Among(index) \cap Obj)
  IN /\ mode = "up" /\ o \in Cached /\ objs[o].refs = 0
     /\ objs[o].dead \/ ~objs[o].mem
     /\ files' = KeptFiles(fs, os, keep)
     /\ objs' = KeptObjs(os, keep)
     /\ list' = Without(o)
     /\ behind' = behind \ {o}
     /\ clashed' = clashed \cap keep /\ short' = short \cap keep
     /\ UNCHANGED <<procVars, count_file_name, made, index, due>>

-----------------------------------------------------------------------------
(* The index.                                                              *)

Saved == Selected(list, {o \in Cached : ~objs[o].dead /\ objs[o].disk})

(* The file is now recs, and the list holds l.                             *)
WriteIndex(recs, os, keep) ==
  /\ index' = recs
  /\ objs' = KeptObjs(os, keep)
  /\ files' = KeptFiles(files, os, keep)
  /\ clashed' = clashed \cap keep /\ short' = short \cap keep

(* The time thread, when the logs are rotated; no file can be opened in a  *)
(* directory that -z has not made.                                         *)
SaveIndex ==
  /\ mode = "up" /\ index # NoIndex
  /\ WriteIndex(Saved, objs, Cached)
  /\ UNCHANGED <<procVars, count_file_name, listVars, due>>

(* The process ends, and has last written recs as its index.               *)
Down(recs) ==
  /\ WriteIndex(recs, [o \in Obj |-> OnDisk(o)], Among(recs) \cap Obj)
  /\ mode' = "down"
  /\ list' = <<>> /\ behind' = {} /\ count_file_name' = 0
  /\ UNCHANGED <<clock, runs, use_disk_cache, made>>

(* shutdown: from here on the list is locked until delete_cache(-1) ends.  *)
Shutdown ==
  /\ mode = "up" /\ use_disk_cache
  /\ mode' = "quit"
  /\ due' = {o \in Live \ behind : objs[o].mem \/ files[Name(o)] = Body(o)}
  /\ UNCHANGED <<clock, runs, use_disk_cache, count_file_name, listVars, objs, diskVars,
                 clashed, short>>

(* Variant: what is only in memory is left there.                          *)
NothingLeft == {}

LeftInMemory == {o \in Cached : objs[o].mem /\ ~objs[o].disk /\ o \notin behind}

Exit ==
  /\ mode = "quit" /\ LeftInMemory = {}
  /\ due' = due \cap Live
  /\ Down(Saved)

(* The process dies, maybe while it writes the index, which was emptied    *)
(* when it was opened; or it ends without a disk cache.                    *)
Crash ==
  /\ mode # "down"
  /\ due' = {}
  /\ \/ Down(index)
     \/ index # NoIndex /\ \E n \in 0..Len(Saved) : Down(Upto(Saved, n))

(* restore_obj_index reads no string of more than 2048 characters, and the *)
(* first record that it cannot read is the last that is asked for.         *)
Restored ==
  LET bad == {i \in 1..Len(index) : index[i] \in LongUrl}
  IN IF bad = {} THEN index
     ELSE Upto(index, (CHOOSE i \in bad : \A j \in bad : i <= j) - 1)

(* init_cache, some time later; count_file_name starts at 0.               *)
Boot ==
  /\ mode = "down" /\ runs < MaxRuns
  /\ mode' = "up" /\ runs' = runs + 1
  /\ clock' \in clock..MaxTime
  /\ due' = {}
  /\ use_disk_cache' = (index # NoIndex)
  /\ list' = IF index = NoIndex THEN <<>> ELSE Restored
  /\ objs' = [o \in Obj |-> [objs[o] EXCEPT !.disk = o \in Among(list')]]
  /\ UNCHANGED <<count_file_name, behind, made, diskVars, clashed, short>>

(* kingate -z; create_dir gives up when the directory is there already.    *)
Format ==
  /\ mode = "down" /\ index = NoIndex
  /\ index' = <<>>
  /\ UNCHANGED <<procVars, count_file_name, listVars, objs, files, histVars>>

Tick ==
  /\ mode = "up" /\ clock < MaxTime
  /\ clock' = clock + 1
  /\ UNCHANGED <<runs, use_disk_cache, mode, count_file_name, listVars, objs, diskVars,
                 histVars>>

Next ==
  \/ \E old \in {{}} \cup {{o} : o \in Live}, len \in Lengths : Fill(old, len)
  \/ \E o \in Obj :
       \/ Locate(o) \/ Leave(o) \/ SwapInFails(o) \/ SwapInFrees(o)
       \/ SwapOutAgain(o) \/ SwapOutFails(o) \/ PassOver(o) \/ Destroy(o)
       \/ \E n \in Pieces : \/ SwapIn(o, n) \/ SwapInMisfits(o, n)
                            \/ SwapOut(o, n) \/ SwapOutStops(o, n)
  \/ SaveIndex \/ Shutdown \/ Exit \/ Crash \/ Boot \/ Format \/ Tick

Spec == Init /\ [][Next]_vars

-----------------------------------------------------------------------------
(* Types; an object that is not in memory is on disk, and has a name.      *)
TypeOK ==
  /\ clock \in 1..MaxTime /\ count_file_name \in 0..MaxObj /\ runs \in 0..MaxRuns
  /\ mode \in {"down", "up", "quit"} /\ use_disk_cache \in BOOLEAN
  /\ made \in 0..MaxObj /\ Cached \subseteq 1..made /\ Cardinality(Cached) = Len(list)
  /\ behind \subseteq Cached
  /\ \A o \in Cached : ~objs[o].mem => objs[o].disk /\ Name(o) \in FileName

(* The pieces that reads which have stopped have left in front of a body   *)
(* that was read after them.                                               *)
ReadAgain(o) ==
  LET cont == objs[o].cont
      rest == Len(cont) - objs[o].len
  IN  /\ objs[o].cut /\ objs[o].dead
      /\ \A k \in 1..Len(cont) : cont[k] \in Among(Body(o))
      /\ rest >= 0 /\ \A k \in 1..objs[o].len : cont[rest + k] = Body(o)[k]

(* A request that sends a cached object sends the body of that object, of  *)
(* this URL and this version, whole and once: swap_out_obj and             *)
(* swap_in_obj, after failed writes and reads, crashes, an index older     *)
(* than the files, and files that earlier runs left.  Except after a name  *)
(* of another run was given again, or when a request went on with an       *)
(* object on which another had run out of memory; and if fread has stopped *)
(* at an error for another request, the pieces it had read come first.     *)
OwnBody ==
  mode = "up" =>
    \A o \in Cached \ clashed :
      objs[o].mem /\ objs[o].refs > 0 =>
        objs[o].cont = Body(o) \/ Unusable \in Among(objs[o].cont) \/ ReadAgain(o)

(* What could be sent when shutdown was called is cached after the next    *)
(* start, and its file has the body: delete_cache(-1) and save_index_file, *)
(* load_all_from_disk.  Except what delete_cache had left behind, what     *)
(* could not be written, what a name given again has spoiled, and what     *)
(* follows a URL that is too long to be read back.                         *)
RestartKeeps ==
  [][mode = "down" /\ mode' = "up" =>
       \A o \in due \ (short \cup clashed) :
         \/ o \in Cached' /\ files[Name(o)] = Body(o)
         \/ \E i, j \in 1..Len(index) : i <= j /\ index[j] = o /\ index[i] \in LongUrl]_vars
=============================================================================
