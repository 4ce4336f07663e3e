---------------------------- MODULE ObjCacheInv ----------------------------
(***************************************************************************)
(* The state invariants of the object cache that are proved for every      *)
(* instance (module ObjCacheProofs).                                       *)
(***************************************************************************)
EXTENDS ObjCache, ObjListInv

ObjTypes ==
  /\ status \in [Obj -> Status]
  /\ url \in [Obj -> Url \cup {Nil}]
  /\ size \in [Obj -> Nat]
  /\ inMem \in [Obj -> BOOLEAN]
  /\ inDisk \in [Obj -> BOOLEAN]
  /\ dead \in [Obj -> BOOLEAN]
  /\ refs \in [Obj -> Nat]
  /\ leaked \in [Obj -> Nat]

ListTypes ==
  /\ memSize \in Int /\ diskSize \in Int
  /\ l \in ListType /\ lost \in BOOLEAN
  /\ cache_model \in {"CLEAN_CACHE", "DROP_DEAD"}
  /\ tick \in [pc : {"idle", "delete", "clean"}, mem : Int, disk : Int]
  /\ sect \in [by : {"none", "time", "main"}, op : {"none", "delete", "clean"}, m : Int]
  /\ main \in {"boot", "run", "quit", "save", "index", "exit", "crash"}

ClientTypes ==
  /\ pc \in [Client -> PCs]
  /\ held \in [Client -> Ptr]
  /\ mine \in [Client -> Ptr]
  /\ after \in [Client -> AfterPCs]
  /\ leaks \in Nat

(* Types of the variables; refs never goes below zero, as release_obj      *)
(* asserts (run_client.cpp:1230).                                          *)
TypeOK == ObjTypes /\ ListTypes /\ ClientTypes

Cacheable == {o \in Obj : status[o] = "hashed"}

(* The threads that may still use o through the reference they took.       *)
Holders(o) == {c \in Client : held[c] = o /\ pc[c] \in HoldingPCs}

(* A reference count is exactly the number of threads that use the object, *)
(* plus the references that only-if-cached requests left behind: none is   *)
(* taken or given back twice, whatever way a request ends.                 *)
RefsCounted == \A o \in Obj : refs[o] = Cardinality(Holders(o)) + leaked[o]

(* From locate_in_mem to release_obj a thread may use its object: neither  *)
(* clean_disk nor another thread destroys it, dead or not.                 *)
HeldIsCached == \A o \in Obj : Holders(o) # {} => status[o] = "hashed"

(* While send_data_from_obj walks obj->container, which it does without a  *)
(* lock, delete_cache does not free that container.  (Shutdown does.)      *)
SendingHasBody ==
  main = "run" =>
    \A c \in Client : pc[c] = "sending" /\ held[c] # Nil => inMem[held[c]]

(* Two threads that fetched or revalidated the same URL at the same time   *)
(* never leave two live objects for it.                                    *)
OneLivePerUrl == \A u \in Url : \A o, p \in Cached(u) : o = p

(* Whenever obj_rate or dead_obj gets the list lock, update_list and       *)
(* dead_list find no NULL where they do not test for it, with one          *)
(* exception: dead_list after clean_disk has lost the list.                *)
NoNullDereference ==
  ListFree =>
    \A c \in Client :
      /\ pc[c] = "rate" => ~UpdateListFaults(l, held[c])
      /\ pc[c] = "bury" /\ ~lost => ~DeadListFaults(l, held[c])

(* What an object uses in memory and on disk, and what all of them use.    *)
MemShare == [o \in Obj |-> IF status[o] = "hashed" /\ inMem[o] THEN size[o] ELSE 0]
DiskShare == [o \in Obj |-> IF status[o] = "hashed" /\ inDisk[o] THEN size[o] ELSE 0]
Total(f) == Cardinality(UNION {{o} \X (1 .. f[o]) : o \in DOMAIN f})

(* The totals flush_mem_cache compares with its limits are what the cached *)
(* objects use in memory and on disk: no path through stored_obj, swap_in, *)
(* swap_out (failing or not) and destroy_obj counts an object twice or     *)
(* forgets it, so get_cache_size's assert(size>=0) can never fail.         *)
SizesAccounted == memSize = Total(MemShare) /\ diskSize = Total(DiskShare)

Elems(s) == {s[i] : i \in DOMAIN s}

(* Whenever the list lock is free, l_dhead .. l_end is a sound doubly      *)
(* linked list of exactly the cached objects, each once, and l_head points *)
(* into it; until clean_disk finds every object in use and loses the list. *)
ListSound ==
  ListFree /\ ~lost =>
    LET s == Chain(l, l.dhead)
    IN /\ Elems(s) = Cacheable
       /\ Len(s) = Cardinality(Cacheable)
       /\ s # <<>> => l.end = s[Len(s)] /\ l.prev[s[1]] = Nil
       /\ s = <<>> => l.end = Nil /\ l.head = Nil
       /\ \A i \in 2 .. Len(s) : l.prev[s[i]] = s[i - 1]
       /\ main = "run" /\ s # <<>> => l.head \in Cacheable

(* The pointer code implements the abstract recency list: objects enter at *)
(* the newest end, a served one moves there, a killed one moves to the     *)
(* oldest end, the collector's passes keep everybody's order.              *)
Lru == INSTANCE LruList WITH
         order <- IF lost THEN <<>> ELSE Order(l),
         mark  <- IF lost THEN Nil ELSE l.head

ListIsLru == Lru!Spec

(* The flags and counts implement the cache SharedCache promises: a        *)
(* request is only ever given the live object of its URL, what has been    *)
(* killed never answers again, two threads never fill one object, and      *)
(* memory is reused only when no thread uses it.  This is what it takes    *)
(* locate_in_mem, stored_obj, dead_obj, release_obj and the collector      *)
(* together to keep.                                                       *)
Life ==
  [o \in Obj |-> IF status[o] = "free" THEN "none"
                 ELSE IF status[o] # "hashed" THEN "made"
                 ELSE IF dead[o] THEN "withdrawn" ELSE "current"]
Using == [c \in Client |-> IF pc[c] \in HoldingPCs THEN held[c] ELSE Nil]

Shared == INSTANCE SharedCache WITH
            life <- Life, target <- url, using <- Using, making <- mine,
            starting <- (main = "boot")

CacheIsShared == Shared!Spec

-----------------------------------------------------------------------------
(* The invariant that makes them inductive.                                *)

(* Until a shutdown sweeps the list or clean_disk loses it, l_head is set  *)
(* whenever the list is not empty: delete_cache never swaps out the newest *)
(* object.                                                                 *)
Early == {"boot", "run", "quit"}
HeadIsSet == main \in Early /\ ~lost /\ l.dhead # Nil => l.head # Nil

(* Only a cached object is on disk, and unused memory has no flag set.     *)
FlagsFit ==
  \A o \in Obj : /\ inDisk[o] => status[o] = "hashed"
                 /\ status[o] = "free" => ~inMem[o]

(* Unused memory is not marked dead, and any other object has a URL.       *)
SlotsFit == \A o \in Obj : IF status[o] = "free" THEN ~dead[o] ELSE url[o] \in Url

(* What each control point of a worker thread says about the objects it    *)
(* has: the one it located, and the private one it fills.                  *)
ClientOK(c) ==
  /\ pc[c] \in {"idle", "fetch", "store"} => held[c] = Nil /\ after[c] = "rate"
  /\ pc[c] \in HoldingPCs \ {"sending", "forget"} => held[c] # Nil
  /\ pc[c] \in {"hit", "revalidate", "rate", "unlock"} => after[c] = "rate"
  /\ pc[c] = "replace" => after[c] = "replace"
  /\ pc[c] \in {"swapin", "sending"} => after[c] \in {"rate", "forget"}
  /\ pc[c] = "forget" => after[c] = "forget"
  /\ mine[c] # Nil <=>
       \/ pc[c] \in {"fetch", "store", "revalidate", "replace"}
       \/ pc[c] \in {"kill", "bury", "mark"} /\ after[c] = "replace"
       \/ pc[c] \in {"sending", "forget"} /\ held[c] = Nil
  /\ pc[c] = "sending" /\ held[c] = Nil => after[c] = "forget"

(* A private object belongs to one thread.                                 *)
Private ==
  /\ \A c \in Client : mine[c] # Nil => status[mine[c]] = "private"
  /\ \A c, d \in Client : mine[c] = mine[d] /\ mine[c] # Nil => c = d

(* References are left behind on cached objects only.                      *)
LeakedIsCached == \A o \in Obj : leaked[o] # 0 => status[o] = "hashed"

(* Before the start is complete nobody works; the lock is main's only when *)
(* it saves.                                                               *)
Phases ==
  /\ main = "boot" => \A c \in Client : pc[c] = "idle"
  /\ main = "boot" => ListFree
  /\ sect.by = "main" <=> main = "save"
  /\ ListFree <=> sect.op = "none"
  /\ sect.op = "clean" => sect.by = "time"

IInv(Lengths) ==
  /\ TypeOK
  /\ \A c \in Client : ClientOK(c)
  /\ Private /\ LeakedIsCached /\ Phases
  /\ RefsCounted /\ HeldIsCached /\ SendingHasBody /\ OneLivePerUrl
  /\ Shape(Lengths, l, Cacheable, lost, sect.op = "clean")
-----------------------------------------------------------------------------
(* What clean_disk remembers of dead objects.                              *)

(* At most one thread at a time uses an object.                            *)
ServedAlone == \A o \in Obj : \A c, d \in Holders(o) : c = d

(* As long as one thread at a time serves an object, a dead object that    *)
(* clean_disk has to leave behind is deleted next time, as its message     *)
(* says (cache.cpp:446): whenever clean_disk is not running and            *)
(* cache_model says that nothing is left to drop, the only dead objects    *)
(* cached are those a thread is about to report with DROP_DEAD.  (With two *)
(* threads on one object the code loses this: obj_rate moves a dead object *)
(* behind live ones.)                                                      *)
DeadAreRemembered ==
  ~lost /\ sect.op # "clean" /\ cache_model = "CLEAN_CACHE" =>
    \A o \in Cacheable : dead[o] =>
      \E c \in Client : held[c] = o /\ pc[c] \in {"bury", "mark"}

(* dead_obj has moved the dead object to the front of the list.            *)
Buried(o) == dead[o] /\ ~\E c \in Client : held[c] = o /\ pc[c] = "bury"

(* No such object stands behind another one, so clean_disk, which stops at *)
(* the first object that may stay, has seen them all.                      *)
DeadFirst ==
  ~lost => \A i, j \in 1 .. Len(Order(l)) :
             i < j /\ Buried(Order(l)[j]) => Buried(Order(l)[i])

(* A thread that serves an object serves a live one until it kills it.     *)
ServedIsLive ==
  \A c \in Client : held[c] # Nil =>
    /\ pc[c] \in {"hit", "swapin", "sending", "revalidate", "rate", "kill"} => ~dead[held[c]]
    /\ pc[c] \in {"bury", "mark"} => dead[held[c]]

(* Only a revalidation kills an object, and the thread is through with it  *)
(* then.                                                                   *)
KilledIsLeft ==
  \A c \in Client : pc[c] \in {"kill", "bury", "mark"} => after[c] \in {"replace", "release"}

FreeIsBlank == \A o \in Obj : status[o] = "free" => ~dead[o]

DeadInv == ServedIsLive /\ KilledIsLeft /\ FreeIsBlank /\ DeadFirst /\ DeadAreRemembered
=============================================================================
