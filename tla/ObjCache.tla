------------------------------ MODULE ObjCache ------------------------------
(***************************************************************************)
(* The object cache of kingate: the hash table of cached responses, the    *)
(* recency list (module ObjList), the memory and disk tiers, the worker    *)
(* threads that serve, fill, revalidate and kill objects, the collector    *)
(* thread that swaps objects out and destroys them, and the thread that    *)
(* shuts the program down.                                                 *)
(*                                                                         *)
(* Sources: src/src/cache.cpp, src/src/garbage_c.cpp, the object functions *)
(* of src/src/run_client.cpp and src/src/http_utils.cpp, and the counters  *)
(* of src/src/lib.cpp.                                                     *)
(*                                                                         *)
(* Locks.  obj_list_mutex_t ("the list lock") is held by the collector and *)
(* by shutdown across a whole loop: variable sect.  A hash entry's lock    *)
(* and an object's lock are held for one step only, so a step is what runs *)
(* under one of them.                                                      *)
(***************************************************************************)
EXTENDS Integers, FiniteSets, ObjList

CONSTANTS
  Client,      \* worker threads, one request at a time each
  Url,         \* request targets
  Sizes,       \* content lengths of the responses
  MemCache,    \* conf.mem_cache, in the unit of Sizes
  DiskCache,   \* conf.disk_cache
  UseDisk,     \* conf.use_disk_cache
  DiskFaults,  \* whether reading and writing a cache file may fail
  MaxLeaks,    \* bound: requests that may give their object up unreleased
  MayQuit      \* bound: whether the program may be shut down

ASSUME ConstantsAssumption ==
  /\ IsFiniteSet(Obj) /\ IsFiniteSet(Client)
  /\ Nil \notin Client /\ Nil \notin Url
  /\ Sizes \subseteq Nat \ {0} /\ Sizes # {}
  /\ MemCache \in Nat /\ DiskCache \in Nat /\ MaxLeaks \in Nat
  /\ UseDisk \in BOOLEAN /\ DiskFaults \in BOOLEAN /\ MayQuit \in BOOLEAN

VARIABLES
  status,      \* "free", "private" to one thread, "hashed", or "leaked"
  url,         \* obj->url
  size,        \* obj->resident_size
  inMem,       \* FLAG_IN_MEM
  inDisk,      \* FLAG_IN_DISK
  dead,        \* FLAG_DEAD
  refs,        \* obj->refs
  leaked,      \* history: references whose holder ended without releasing
  memSize,     \* sum of the hash entries' size
  diskSize,    \* sum of the hash entries' disk_size
  l,           \* the recency list
  lost,        \* history: clean_disk lost the list (LosesList)
  cache_model, \* "CLEAN_CACHE" or "DROP_DEAD"
  pc,          \* where each worker thread is
  held,        \* the object it took a reference to
  mine,        \* the private object it fills
  after,       \* where it goes after sending or after killing the object
  leaks,       \* number of requests counted against MaxLeaks
  tick,        \* the collector's control point and the excesses it computed
  sect,        \* who holds the list lock across a loop, and m_size
  main         \* life of the process

objVars  == <<status, url, size, inMem, inDisk, dead, refs, leaked>>
sizeVars == <<memSize, diskSize>>
listVars == <<l, lost>>
cliVars  == <<pc, held, mine, after, leaks>>
gcVars   == <<tick, sect>>
vars == <<objVars, sizeVars, listVars, cache_model, cliVars, gcVars, main>>

Status == {"free", "private", "hashed", "leaked"}
AfterPCs == {"rate", "release", "replace", "forget"}
PCs == {"idle", "fetch", "store", "hit", "swapin", "sending", "revalidate",
        "kill", "bury", "mark", "unlock"} \cup AfterPCs
(* Control points at which the thread may touch the object it located.     *)
HoldingPCs == {"hit", "swapin", "sending", "revalidate", "kill", "bury",
               "mark"} \cup AfterPCs

-----------------------------------------------------------------------------
(* Helpers                                                                 *)

NoSection == [by |-> "none", op |-> "none", m |-> 0]
ListFree  == sect.by = "none"
Running   == main \notin {"boot", "exit", "crash"}

(* Variant: locate_in_mem does not look at FLAG_DEAD.                      *)
LiveOrDead(o) == status[o] = "hashed"

(* The objects that answer a request: in the hash chain and not dead.      *)
Live(o) == status[o] = "hashed" /\ ~dead[o]
Cached(u) == {o \in Obj : Live(o) /\ url[o] = u}

Goto(c, p) == pc' = [pc EXCEPT ![c] = p]

(* A new object of locate_in_mem: zeroed, private, in memory.              *)
Allocate(o, u) ==
  /\ status[o] = "free"
  /\ status' = [status EXCEPT ![o] = "private"]
  /\ url'    = [url EXCEPT ![o] = u]
  /\ inMem'  = [inMem EXCEPT ![o] = TRUE]
  /\ UNCHANGED <<size, inDisk, dead, refs, leaked>>

(* Variant: the disk share of a destroyed object stays counted.            *)
DestroyUncounted(o) ==
  /\ memSize'  = memSize - (IF status[o] = "hashed" /\ inMem[o] THEN size[o] ELSE 0)
  /\ status' = [status EXCEPT ![o] = "free"]
  /\ url'    = [url EXCEPT ![o] = Nil]
  /\ size'   = [size EXCEPT ![o] = 0]
  /\ inMem'  = [inMem EXCEPT ![o] = FALSE]
  /\ inDisk' = [inDisk EXCEPT ![o] = FALSE]
  /\ dead'   = [dead EXCEPT ![o] = FALSE]
  /\ refs'   = [refs EXCEPT ![o] = 0]
  /\ UNCHANGED <<leaked, diskSize>>

(* destroy_obj.  A private object was never counted; a hashed one gives    *)
(* back what its flags say it uses.  Freed memory is normalised.           *)
Destroy(o) ==
  /\ diskSize' = diskSize - (IF inDisk[o] THEN size[o] ELSE 0)
  /\ memSize'  = memSize - (IF status[o] = "hashed" /\ inMem[o] THEN size[o] ELSE 0)
  /\ status' = [status EXCEPT ![o] = "free"]
  /\ url'    = [url EXCEPT ![o] = Nil]
  /\ size'   = [size EXCEPT ![o] = 0]
  /\ inMem'  = [inMem EXCEPT ![o] = FALSE]
  /\ inDisk' = [inDisk EXCEPT ![o] = FALSE]
  /\ dead'   = [dead EXCEPT ![o] = FALSE]
  /\ refs'   = [refs EXCEPT ![o] = 0]
  /\ UNCHANGED leaked

(* Variant: the hash chain is not searched for the same URL.               *)
StoredUnchecked(o) ==
  \/ dead[o] /\ Destroy(o) /\ UNCHANGED l
  \/ /\ ~dead[o] /\ ListFree
     /\ status' = [status EXCEPT ![o] = "hashed"]
     /\ memSize'  = memSize + (IF inMem[o] THEN size[o] ELSE 0)
     /\ diskSize' = diskSize + (IF inDisk[o] THEN size[o] ELSE 0)
     /\ l' = add_list(l, o)
     /\ UNCHANGED <<url, size, inMem, inDisk, dead, refs, leaked>>

(* stored_obj: a dead object is dropped at once; otherwise, under the list *)
(* lock and the hash lock, an object whose URL is already cached is        *)
(* dropped and any other enters the hash table and the list.               *)
StoredObj(o) ==
  \/ dead[o] /\ Destroy(o) /\ UNCHANGED l
  \/ /\ ~dead[o] /\ ListFree
     /\ Cached(url[o]) # {}
     /\ Destroy(o) /\ UNCHANGED l
  \/ /\ ~dead[o] /\ ListFree
     /\ Cached(url[o]) = {}
     /\ status' = [status EXCEPT ![o] = "hashed"]
     /\ memSize'  = memSize + (IF inMem[o] THEN size[o] ELSE 0)
     /\ diskSize' = diskSize + (IF inDisk[o] THEN size[o] ELSE 0)
     /\ l' = add_list(l, o)
     /\ UNCHANGED <<url, size, inMem, inDisk, dead, refs, leaked>>

(* The process dies on a NULL dereference.                                 *)
Crash == main' = "crash" /\ UNCHANGED <<objVars, sizeVars, listVars, cache_model,
                                        cliVars, gcVars>>
-----------------------------------------------------------------------------
(* Start: load_all_from_disk restores the objects of the index, which are  *)
(* on disk only, and then starts the memory part at the last of them.      *)

Restore(o, u, s) ==
  /\ main = "boot" /\ UseDisk
  /\ status[o] = "free" /\ Cached(u) = {}
  /\ status' = [status EXCEPT ![o] = "hashed"]
  /\ url'    = [url EXCEPT ![o] = u]
  /\ size'   = [size EXCEPT ![o] = s]
  /\ inDisk' = [inDisk EXCEPT ![o] = TRUE]
  /\ diskSize' = diskSize + s
  /\ l' = add_list(l, o)
  /\ UNCHANGED <<inMem, dead, refs, leaked, memSize, lost, cache_model,
                 cliVars, gcVars, main>>

Booted ==
  /\ main = "boot"
  /\ main' = "run"
  /\ l' = IF UseDisk THEN [l EXCEPT !.head = l.end] ELSE l
  /\ UNCHANGED <<objVars, sizeVars, lost, cache_model, cliVars, gcVars>>

-----------------------------------------------------------------------------
(* A request: http_start                                                   *)

(* Variant: obj->refs++ is missing.                                        *)
TakeRefUncounted(c, o) ==
  /\ held' = [held EXCEPT ![c] = o]
  /\ UNCHANGED <<status, url, size, inMem, inDisk, dead, refs, leaked, mine>>

(* locate_in_mem finds a live object and takes a reference under the hash  *)
(* lock.                                                                   *)
TakeRef(c, o) ==
  /\ refs' = [refs EXCEPT ![o] = @ + 1]
  /\ held' = [held EXCEPT ![c] = o]
  /\ UNCHANGED <<status, url, size, inMem, inDisk, dead, leaked, mine>>

LocateHit(c, u) ==
  /\ Running /\ pc[c] = "idle"
  /\ \E o \in Cached(u) : TakeRef(c, o)
  /\ Goto(c, "hit")
  /\ UNCHANGED <<sizeVars, listVars, cache_model, after, leaks, gcVars, main>>

LocateNew(c, u) ==
  /\ Running /\ pc[c] = "idle"
  /\ Cached(u) = {}
  /\ \E o \in Obj : Allocate(o, u) /\ mine' = [mine EXCEPT ![c] = o]
  /\ Goto(c, "fetch")
  /\ UNCHANGED <<sizeVars, listVars, cache_model, held, after, leaks, gcVars, main>>

(* "Cache-Control: only-if-cached": the same locate_in_mem, and what it    *)
(* returns, found or new, is sent and then forgotten.                      *)
LocateOnlyIfCached(c, u) ==
  /\ Running /\ pc[c] = "idle" /\ leaks < MaxLeaks
  /\ leaks' = leaks + 1
  /\ after' = [after EXCEPT ![c] = "forget"]
  /\ \/ /\ \E o \in Cached(u) : TakeRef(c, o)
        /\ Goto(c, "swapin")
     \/ /\ Cached(u) = {}
        /\ \E o \in Obj : Allocate(o, u) /\ mine' = [mine EXCEPT ![c] = o]
        /\ Goto(c, "sending")
        /\ UNCHANGED held
  /\ UNCHANGED <<sizeVars, listVars, cache_model, gcVars, main>>

(* net_request_start refuses the request ("fatboy"): the new object is     *)
(* neither filled nor destroyed.                                           *)
RefuseFatboy(c) ==
  /\ Running /\ pc[c] = "fetch" /\ leaks < MaxLeaks
  /\ leaks' = leaks + 1
  /\ status' = [status EXCEPT ![mine[c]] = "leaked"]
  /\ mine' = [mine EXCEPT ![c] = Nil]
  /\ Goto(c, "idle")
  /\ UNCHANGED <<url, size, inMem, inDisk, dead, refs, leaked, sizeVars, listVars,
                 cache_model, held, after, gcVars, main>>

-----------------------------------------------------------------------------
(* Filling a new object: fill_mem_obj without an old object                *)

(* The body arrived; load_body may still have set FLAG_DEAD (no or wrong   *)
(* content length).                                                        *)
Filled(c, s, d) ==
  /\ size' = [size EXCEPT ![mine[c]] = s]
  /\ dead' = [dead EXCEPT ![mine[c]] = d]
  /\ UNCHANGED <<status, url, inMem, inDisk, refs, leaked>>

FetchDone(c, s, d) ==
  /\ Running /\ pc[c] = "fetch"
  /\ Filled(c, s, d)
  /\ Goto(c, "store")
  /\ UNCHANGED <<sizeVars, listVars, cache_model, held, mine, after, leaks, gcVars, main>>

FetchFails(c) ==
  /\ Running /\ pc[c] = "fetch"
  /\ Destroy(mine[c])
  /\ mine' = [mine EXCEPT ![c] = Nil]
  /\ Goto(c, "idle")
  /\ UNCHANGED <<listVars, cache_model, held, after, leaks, gcVars, main>>

Store(c) ==
  /\ Running /\ pc[c] = "store"
  /\ StoredObj(mine[c])
  /\ mine' = [mine EXCEPT ![c] = Nil]
  /\ Goto(c, "idle")
  /\ UNCHANGED <<lost, cache_model, held, after, leaks, gcVars, main>>

-----------------------------------------------------------------------------
(* Serving a cached object: send_from_mem                                  *)

(* Fresh enough: the object is sent, or "304 Not Modified" without it.     *)
Serve(c) ==
  /\ Running /\ pc[c] = "hit"
  /\ \E p \in {"swapin", "rate"} : Goto(c, p)
  /\ UNCHANGED <<objVars, sizeVars, listVars, cache_model, held, mine, after, leaks,
                 gcVars, main>>

(* Otherwise the origin is asked, into a new object of the same URL.       *)
Revalidate(c) ==
  /\ Running /\ pc[c] = "hit"
  /\ \E o \in Obj : Allocate(o, url[held[c]]) /\ mine' = [mine EXCEPT ![c] = o]
  /\ Goto(c, "revalidate")
  /\ UNCHANGED <<sizeVars, listVars, cache_model, held, after, leaks, gcVars, main>>

(* HEAD_OK: the old object is killed and the new one stored.               *)
RevalidateOk(c, s, d) ==
  /\ Running /\ pc[c] = "revalidate"
  /\ Filled(c, s, d)
  /\ after' = [after EXCEPT ![c] = "replace"]
  /\ Goto(c, "kill")
  /\ UNCHANGED <<sizeVars, listVars, cache_model, held, mine, leaks, gcVars, main>>

(* HEAD_NOT_MODIFIED: the old object is sent, or the origin's head was.    *)
RevalidateNotModified(c) ==
  /\ Running /\ pc[c] = "revalidate"
  /\ Destroy(mine[c])
  /\ mine' = [mine EXCEPT ![c] = Nil]
  /\ \E p \in {"swapin", "rate"} : Goto(c, p)
  /\ UNCHANGED <<listVars, cache_model, held, after, leaks, gcVars, main>>

(* Anything else: the old object is killed.                                *)
RevalidateFails(c) ==
  /\ Running /\ pc[c] = "revalidate"
  /\ Destroy(mine[c])
  /\ mine' = [mine EXCEPT ![c] = Nil]
  /\ after' = [after EXCEPT ![c] = "release"]
  /\ Goto(c, "kill")
  /\ UNCHANGED <<listVars, cache_model, held, leaks, gcVars, main>>

(* swap_in_obj under the object's lock; when the file cannot be read the   *)
(* object is dead.                                                         *)
SwapIn(c) ==
  /\ Running /\ pc[c] = "swapin"
  /\ LET o == held[c] IN
     \/ /\ inMem[o]
        /\ Goto(c, "sending")
        /\ UNCHANGED <<inMem, memSize, dead>>
     \/ /\ ~inMem[o] /\ inDisk[o]
        /\ inMem' = [inMem EXCEPT ![o] = TRUE]
        /\ memSize' = memSize + size[o]
        /\ Goto(c, "sending")
        /\ UNCHANGED dead
     \/ /\ ~inMem[o] /\ DiskFaults
        /\ dead' = [dead EXCEPT ![o] = TRUE]
        /\ Goto(c, "kill")
        /\ UNCHANGED <<inMem, memSize>>
  /\ UNCHANGED <<status, url, size, inDisk, refs, leaked, diskSize, listVars,
                 cache_model, held, mine, after, leaks, gcVars, main>>

(* The send loop reads obj->container without a lock until it ends.        *)
Sent(c) ==
  /\ Running /\ pc[c] = "sending"
  /\ Goto(c, after[c])
  /\ UNCHANGED <<objVars, sizeVars, listVars, cache_model, held, mine, after, leaks,
                 gcVars, main>>

(* dead_obj, in its three steps: FLAG_DEAD under the object's lock,        *)
(* dead_list under the list lock, cache_model under none.                  *)
Kill(c) ==
  /\ Running /\ pc[c] = "kill"
  /\ dead' = [dead EXCEPT ![held[c]] = TRUE]
  /\ Goto(c, "bury")
  /\ UNCHANGED <<status, url, size, inMem, inDisk, refs, leaked, sizeVars, listVars,
                 cache_model, held, mine, after, leaks, gcVars, main>>

Bury(c) ==
  /\ Running /\ pc[c] = "bury" /\ ListFree
  /\ ~DeadListFaults(l, held[c])
  /\ l' = dead_list(l, held[c])
  /\ Goto(c, "mark")
  /\ UNCHANGED <<objVars, sizeVars, lost, cache_model, held, mine, after, leaks,
                 gcVars, main>>

BuryFaults(c) ==
  /\ Running /\ pc[c] = "bury" /\ ListFree
  /\ DeadListFaults(l, held[c])
  /\ Crash

(* Variant: cache_model is not set. *)
MarkNothing(c) ==
  /\ Running /\ pc[c] = "mark"
  /\ Goto(c, after[c])
  /\ UNCHANGED <<objVars, sizeVars, listVars, cache_model, held, mine, after, leaks,
                 gcVars, main>>

Mark(c) ==
  /\ Running /\ pc[c] = "mark"
  /\ cache_model' = "DROP_DEAD"
  /\ Goto(c, after[c])
  /\ UNCHANGED <<objVars, sizeVars, listVars, held, mine, after, leaks, gcVars, main>>

Replace(c) ==
  /\ Running /\ pc[c] = "replace"
  /\ StoredObj(mine[c])
  /\ mine' = [mine EXCEPT ![c] = Nil]
  /\ Goto(c, "release")
  /\ UNCHANGED <<lost, cache_model, held, after, leaks, gcVars, main>>

(* obj_rate: an object in memory becomes the newest one.                   *)
Rate(c) ==
  /\ Running /\ pc[c] = "rate"
  /\ \/ /\ inMem[held[c]] /\ ListFree
        /\ l' = update_list(l, held[c])
     \/ ~inMem[held[c]] /\ UNCHANGED l
  /\ Goto(c, "release")
  /\ UNCHANGED <<objVars, sizeVars, lost, cache_model, held, mine, after, leaks,
                 gcVars, main>>

(* release_obj: refs goes down inside the object's lock, which is then     *)
(* released in a second step.                                              *)
Release(c) ==
  /\ Running /\ pc[c] = "release"
  /\ refs' = [refs EXCEPT ![held[c]] = @ - 1]
  /\ after' = [after EXCEPT ![c] = "rate"]
  /\ Goto(c, "unlock")
  /\ UNCHANGED <<status, url, size, inMem, inDisk, dead, leaked, sizeVars, listVars,
                 cache_model, held, mine, leaks, gcVars, main>>

Unlock(c) ==
  /\ Running /\ pc[c] = "unlock"
  /\ held' = [held EXCEPT ![c] = Nil]
  /\ Goto(c, "idle")
  /\ UNCHANGED <<objVars, sizeVars, listVars, cache_model, mine, after, leaks, gcVars, main>>

(* The end of an only-if-cached request, which calls no release_obj.       *)
Forget(c) ==
  /\ Running /\ pc[c] = "forget"
  /\ \/ /\ held[c] # Nil
        /\ leaked' = [leaked EXCEPT ![held[c]] = @ + 1]
        /\ UNCHANGED status
     \/ /\ held[c] = Nil
        /\ status' = [status EXCEPT ![mine[c]] = "leaked"]
        /\ UNCHANGED leaked
  /\ held' = [held EXCEPT ![c] = Nil]
  /\ mine' = [mine EXCEPT ![c] = Nil]
  /\ after' = [after EXCEPT ![c] = "rate"]
  /\ Goto(c, "idle")
  /\ UNCHANGED <<url, size, inMem, inDisk, dead, refs, sizeVars, listVars,
                 cache_model, leaks, gcVars, main>>

-----------------------------------------------------------------------------
(* The collector: flush_mem_cache in the time thread                       *)

(* Both totals are read before the first of them is acted upon.  (tick     *)
(* forgets an excess once it has been passed on.)                          *)
ReadSizes ==
  /\ main = "run" /\ tick.pc = "idle"
  /\ tick' = [pc   |-> IF memSize > MemCache THEN "delete" ELSE "clean",
              mem  |-> memSize - MemCache,
              disk |-> diskSize - DiskCache]
  /\ UNCHANGED <<objVars, sizeVars, listVars, cache_model, cliVars, sect, main>>

EnterDelete ==
  /\ Running /\ tick.pc = "delete" /\ ListFree
  /\ sect' = [by |-> "time", op |-> "delete", m |-> tick.mem]
  /\ tick' = [tick EXCEPT !.mem = 0]
  /\ UNCHANGED <<objVars, sizeVars, listVars, cache_model, cliVars, main>>

(* Variant: the line commented out at garbage_c.cpp:371, a decrease that   *)
(* destroy_obj will repeat.                                                *)
SwapOutUncounts(o) ==
  \/ /\ UseDisk /\ ~inMem[o]
     /\ UNCHANGED <<inMem, inDisk, dead, sizeVars, cache_model>>
  \/ /\ UseDisk /\ inMem[o]
     /\ inMem'  = [inMem EXCEPT ![o] = FALSE]
     /\ inDisk' = [inDisk EXCEPT ![o] = TRUE]
     /\ memSize'  = memSize - size[o]
     /\ diskSize' = diskSize + (IF inDisk[o] THEN 0 ELSE size[o])
     /\ UNCHANGED <<dead, cache_model>>
  \/ /\ ~UseDisk \/ (inMem[o] /\ ~inDisk[o] /\ DiskFaults)
     /\ dead' = [dead EXCEPT ![o] = TRUE]
     /\ cache_model' = "DROP_DEAD"
     /\ memSize' = memSize - size[o]
     /\ UNCHANGED <<inMem, inDisk, diskSize>>

(* swap_out_obj.  A written object is on disk only; one that could not be  *)
(* written is dead, and its memory stays counted until it is destroyed.    *)
SwapOut(o) ==
  \/ /\ UseDisk /\ ~inMem[o]
     /\ UNCHANGED <<inMem, inDisk, dead, sizeVars, cache_model>>
  \/ /\ UseDisk /\ inMem[o]
     /\ inMem'  = [inMem EXCEPT ![o] = FALSE]
     /\ inDisk' = [inDisk EXCEPT ![o] = TRUE]
     /\ memSize'  = memSize - size[o]
     /\ diskSize' = diskSize + (IF inDisk[o] THEN 0 ELSE size[o])
     /\ UNCHANGED <<dead, cache_model>>
  \/ /\ ~UseDisk \/ (inMem[o] /\ ~inDisk[o] /\ DiskFaults)
     /\ dead' = [dead EXCEPT ![o] = TRUE]
     /\ cache_model' = "DROP_DEAD"
     /\ UNCHANGED <<inMem, inDisk, sizeVars>>

(* Variant: an early exit of the loop keeps the list lock.                 *)
LeaveDeleteLocked ==
  /\ tick' = IF sect.by = "time" THEN [tick EXCEPT !.pc = "clean"] ELSE tick
  /\ main' = IF sect.by = "main" THEN "index" ELSE main
  /\ UNCHANGED sect

LeaveDelete ==
  /\ sect' = NoSection
  /\ tick' = IF sect.by = "time" THEN [tick EXCEPT !.pc = "clean"] ELSE tick
  /\ main' = IF sect.by = "main" THEN "index" ELSE main

(* delete_cache stops at the end of the list, or before its last object    *)
(* unless everything is to go (shutdown, kill_size -1).                    *)
DeleteStops ==
  l.head # Nil => sect.by # "main" /\ l.next[l.head] = Nil

DeleteEnd ==
  /\ Running /\ sect.op = "delete" /\ DeleteStops
  /\ LeaveDelete
  /\ UNCHANGED <<objVars, sizeVars, listVars, cache_model, cliVars>>

(* Variant: refs is not looked at.                                         *)
MayDeleteAny(o) == TRUE

(* One iteration: the object is swapped out unless it is in use, and l_head*)
(* moves past it either way.                                               *)
MayDelete(o) == refs[o] <= 0 \/ sect.by = "main"

DeleteStep ==
  /\ Running /\ sect.op = "delete" /\ ~DeleteStops
  /\ LET o == l.head
         m == IF MayDelete(o) THEN sect.m - size[o] ELSE sect.m
     IN /\ \/ MayDelete(o) /\ SwapOut(o)
           \/ ~MayDelete(o) /\ UNCHANGED <<inMem, inDisk, dead, sizeVars, cache_model>>
        /\ \/ (m > 0 \/ sect.by = "main") /\ sect' = [sect EXCEPT !.m = m]
              /\ UNCHANGED <<tick, main>>
           \/ ~(m > 0 \/ sect.by = "main") /\ LeaveDelete
  /\ l' = AdvanceHead(l)
  /\ UNCHANGED <<status, url, size, refs, leaked, lost, cliVars>>

(* clean_disk runs when the disk is over its limit, or to drop the dead.   *)
EnterClean ==
  /\ Running /\ tick.pc = "clean" /\ ListFree
  /\ tick.disk > 0 \/ cache_model = "DROP_DEAD"
  /\ sect' = [by |-> "time", op |-> "clean", m |-> IF tick.disk > 0 THEN tick.disk ELSE 0]
  /\ tick' = [tick EXCEPT !.disk = 0]
  /\ cache_model' = "CLEAN_CACHE"
  /\ UNCHANGED <<objVars, sizeVars, listVars, cliVars, main>>

IdleTick == [pc |-> "idle", mem |-> 0, disk |-> 0]

SkipClean ==
  /\ Running /\ tick.pc = "clean" /\ sect.by # "time"
  /\ tick.disk <= 0 /\ cache_model # "DROP_DEAD"
  /\ tick' = IdleTick
  /\ UNCHANGED <<objVars, sizeVars, listVars, cache_model, cliVars, sect, main>>

(* Variant: refs is not looked at for a dead object.                       *)
DisposableInUse(o) ==
  dead[o] \/ (refs[o] <= 0 /\ sect.m > 0 /\ ~inMem[o])

(* An iteration of clean_disk on the first object: it is destroyed if dead *)
(* or if the disk must shrink and it is on disk only, ...                  *)
Disposable(o) ==
  /\ refs[o] <= 0
  /\ dead[o] \/ (sect.m > 0 /\ ~inMem[o])

CleanDrop ==
  /\ Running /\ sect.op = "clean" /\ l.dhead # Nil
  /\ Disposable(l.dhead)
  /\ Destroy(l.dhead)
  /\ l' = DropFirst(l)
  /\ sect' = [sect EXCEPT !.m = IF dead[l.dhead] THEN @ ELSE @ - size[l.dhead]]
  /\ UNCHANGED <<lost, cache_model, cliVars, tick, main>>

(* ... parked if it is in use, ...                                         *)
CleanKeep ==
  /\ Running /\ sect.op = "clean" /\ l.dhead # Nil
  /\ refs[l.dhead] > 0
  /\ l' = KeepFirst(l)
  /\ UNCHANGED <<objVars, sizeVars, lost, cache_model, cliVars, gcVars, main>>

(* ... and otherwise, or at the end of the list, the loop ends and the     *)
(* parked objects go back.                                                 *)
CleanEnd ==
  /\ Running /\ sect.op = "clean"
  /\ l.dhead # Nil => refs[l.dhead] <= 0 /\ ~Disposable(l.dhead)
  /\ l' = FinishClean(l)
  /\ lost' = (lost \/ LosesList(l))
  /\ cache_model' = IF l.thead # Nil THEN "DROP_DEAD" ELSE cache_model
  /\ sect' = NoSection
  /\ tick' = IdleTick
  /\ UNCHANGED <<objVars, sizeVars, cliVars, main>>

-----------------------------------------------------------------------------
(* shutdown: no worker thread is waited for                                *)

Shutdown ==
  /\ MayQuit /\ main = "run"
  /\ main' = IF UseDisk THEN "quit" ELSE "exit"
  /\ UNCHANGED <<objVars, sizeVars, listVars, cache_model, cliVars, gcVars>>

(* save_all_to_disk: delete_cache(-1), then save_index_file.               *)
EnterSaveAll ==
  /\ main = "quit" /\ ListFree
  /\ sect' = [by |-> "main", op |-> "delete", m |-> -1]
  /\ main' = "save"
  /\ UNCHANGED <<objVars, sizeVars, listVars, cache_model, cliVars, tick>>

SaveIndexAndExit ==
  /\ main = "index" /\ ListFree
  /\ main' = "exit"
  /\ UNCHANGED <<objVars, sizeVars, listVars, cache_model, cliVars, gcVars>>

(* Nothing happens in a process that has ended.                            *)
Ended == main \in {"exit", "crash"} /\ UNCHANGED vars

-----------------------------------------------------------------------------
Init ==
  /\ status = [o \in Obj |-> "free"]
  /\ url    = [o \in Obj |-> Nil]
  /\ size   = [o \in Obj |-> 0]
  /\ inMem  = [o \in Obj |-> FALSE]
  /\ inDisk = [o \in Obj |-> FALSE]
  /\ dead   = [o \in Obj |-> FALSE]
  /\ refs   = [o \in Obj |-> 0]
  /\ leaked = [o \in Obj |-> 0]
  /\ memSize = 0 /\ diskSize = 0
  /\ l = EmptyList /\ lost = FALSE
  /\ cache_model = "CLEAN_CACHE"
  /\ pc    = [c \in Client |-> "idle"]
  /\ held  = [c \in Client |-> Nil]
  /\ mine  = [c \in Client |-> Nil]
  /\ after = [c \in Client |-> "rate"]
  /\ leaks = 0
  /\ tick = IdleTick /\ sect = NoSection
  /\ main = "boot"

Request(c) ==
  \E u \in Url : LocateHit(c, u) \/ LocateNew(c, u) \/ LocateOnlyIfCached(c, u)

(* What a worker thread does once it has a request; sockets time out, so   *)
(* it always goes on.                                                      *)
Work(c) ==
  \/ RefuseFatboy(c)
  \/ \E s \in Sizes, d \in BOOLEAN : FetchDone(c, s, d) \/ RevalidateOk(c, s, d)
  \/ FetchFails(c) \/ Store(c)
  \/ Serve(c) \/ Revalidate(c) \/ RevalidateNotModified(c) \/ RevalidateFails(c)
  \/ SwapIn(c) \/ Sent(c)
  \/ Kill(c) \/ Bury(c) \/ BuryFaults(c) \/ Mark(c)
  \/ Replace(c) \/ Rate(c)
  \/ Release(c) \/ Unlock(c) \/ Forget(c)

Collect ==
  \/ ReadSizes
  \/ EnterDelete \/ DeleteEnd \/ DeleteStep
  \/ EnterClean \/ SkipClean \/ CleanDrop \/ CleanKeep \/ CleanEnd

Boot == Booted \/ \E o \in Obj, u \in Url, s \in Sizes : Restore(o, u, s)

Stop == Shutdown \/ EnterSaveAll \/ SaveIndexAndExit

Next ==
  \/ \E c \in Client : Request(c) \/ Work(c)
  \/ Collect \/ Boot \/ Stop \/ Ended

Spec == Init /\ [][Next]_vars

(* The steps of a worker that need the list lock.  The collector releases  *)
(* it and sleeps CHECK_INTERVAL seconds, so a waiter gets it.              *)
LockedWork(c) ==
  Store(c) \/ Bury(c) \/ BuryFaults(c) \/ Replace(c) \/ Rate(c)

(* The time thread loops for ever, a worker finishes what it began, and so *)
(* does a shutdown.                                                        *)
FairSpec == /\ Spec
            /\ WF_vars(Collect)
            /\ \A c \in Client : WF_vars(Work(c)) /\ SF_vars(LockedWork(c))
            /\ WF_vars(EnterSaveAll \/ SaveIndexAndExit)
=============================================================================
