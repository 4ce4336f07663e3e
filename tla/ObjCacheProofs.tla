--------------------------- MODULE ObjCacheProofs ---------------------------
(***************************************************************************)
(* Proofs about the object cache (module ObjCache): IInv of ObjCacheInv is *)
(* an inductive invariant, whatever the constants are.  There is one       *)
(* lemma per conjunct of IInv, with one step per action; the list operators*)
(* are dealt with in ObjListProofs.                                        *)
(***************************************************************************)
EXTENDS ObjCacheInv, ObjListProofs, FiniteSetTheorems

-----------------------------------------------------------------------------
(* Reference counts and holders                                            *)

(* What the invariant says of an object's reference count: a thread that   *)
(* holds it is counted, and a count of zero leaves no user behind.         *)
LEMMA Holding ==
  ASSUME IInv(Nat), NEW o \in Obj
  PROVE  /\ Holders(o) \subseteq Client /\ IsFiniteSet(Holders(o))
         /\ Cardinality(Holders(o)) \in Nat
         /\ Cardinality(Holders(o)) = 0 <=> Holders(o) = {}
         /\ Holders(o) # {} => refs[o] >= 1
         /\ refs[o] <= 0 => Holders(o) = {} /\ leaked[o] = 0 /\ refs[o] = 0
<1>1. Holders(o) \subseteq Client
  BY DEF Holders
<1>2. IsFiniteSet(Holders(o))
  BY <1>1, FS_Subset, ConstantsAssumption
<1>3. Cardinality(Holders(o)) \in Nat /\ (Cardinality(Holders(o)) = 0 <=> Holders(o) = {})
  BY <1>2, FS_CardinalityType, FS_EmptySet
<1>4. refs[o] = Cardinality(Holders(o)) + leaked[o] /\ leaked[o] \in Nat
  BY DEF IInv, RefsCounted, TypeOK, ObjTypes
<1> QED BY <1>1, <1>2, <1>3, <1>4

(* An object that is not cached has no user.                               *)
LEMMA PrivateIsFree ==
  ASSUME IInv(Nat), NEW o \in Obj, status[o] # "hashed"
  PROVE  Holders(o) = {} /\ leaked[o] = 0 /\ refs[o] = 0
<1>1. Holders(o) = {} /\ leaked[o] = 0
  BY DEF IInv, HeldIsCached, LeakedIsCached
<1>2. Cardinality(Holders(o)) = 0
  BY <1>1, Holding
<1> QED BY <1>1, <1>2 DEF IInv, RefsCounted

(* A step that moves no thread leaves the holders of every object.         *)
LEMMA IdleHolders ==
  ASSUME UNCHANGED <<pc, held>>
  PROVE  \A o \in Obj : Holders(o)' = Holders(o)
BY DEF Holders

(* A thread that goes from one control point to another with the object it *)
(* has leaves the holders of every object as they are.                     *)
LEMMA SameHolders ==
  ASSUME NEW c \in Client, NEW p, ClientTypes, Goto(c, p), UNCHANGED held,
         held[c] = Nil \/ (pc[c] \in HoldingPCs /\ p \in HoldingPCs)
  PROVE  \A o \in Obj : Holders(o)' = Holders(o)
BY NilAssumption DEF ClientTypes, Goto, Holders

(* locate_in_mem adds a holder.                                            *)
LEMMA MoreHolders ==
  ASSUME NEW c \in Client, NEW p \in HoldingPCs, NEW o \in Obj, ClientTypes,
         Goto(c, p), held[c] = Nil, held' = [held EXCEPT ![c] = o]
  PROVE  /\ Holders(o)' = Holders(o) \cup {c} /\ c \notin Holders(o)
         /\ \A q \in Obj : q # o => Holders(q)' = Holders(q)
BY NilAssumption DEF ClientTypes, Goto, Holders

(* release_obj, and the request that forgets it, remove one.               *)
LEMMA FewerHolders ==
  ASSUME NEW c \in Client, NEW p, NEW o \in Obj, ClientTypes, Goto(c, p),
         p \notin HoldingPCs, held[c] = o, pc[c] \in HoldingPCs,
         held' \in [Client -> Ptr], \A d \in Client : d # c => held'[d] = held[d]
  PROVE  /\ Holders(o)' = Holders(o) \ {c} /\ c \in Holders(o)
         /\ \A q \in Obj : q # o => Holders(q)' = Holders(q)
<1>1. /\ pc'[c] = p
      /\ \A d \in Client : d # c => pc'[d] = pc[d]
  BY DEF ClientTypes, Goto
<1>2. c \in Holders(o)
  BY DEF Holders
<1>3. Holders(o)' = Holders(o) \ {c}
  BY <1>1 DEF Holders
<1>4. ASSUME NEW q \in Obj, q # o PROVE Holders(q)' = Holders(q)
  BY <1>1, <1>4 DEF Holders
<1> QED BY <1>2, <1>3, <1>4

-----------------------------------------------------------------------------
(* Types                                                                   *)

(* destroy_obj keeps the types.                                            *)
LEMMA DestroyTypes ==
  ASSUME ObjTypes, memSize \in Int, diskSize \in Int, NEW o \in Obj, Destroy(o)
  PROVE  ObjTypes' /\ memSize' \in Int /\ diskSize' \in Int
BY DEF ObjTypes, Destroy, Status

(* stored_obj keeps the types.                                             *)
LEMMA StoredTypes ==
  ASSUME ObjTypes, memSize \in Int, diskSize \in Int, l \in ListType,
         NEW o \in Obj, StoredObj(o)
  PROVE  ObjTypes' /\ memSize' \in Int /\ diskSize' \in Int /\ l' \in ListType
<1>1. CASE Destroy(o) /\ UNCHANGED l
  BY <1>1, DestroyTypes
<1>2. CASE ~(Destroy(o) /\ UNCHANGED l)
  <2>1. /\ status' = [status EXCEPT ![o] = "hashed"]
        /\ memSize'  = memSize + (IF inMem[o] THEN size[o] ELSE 0)
        /\ diskSize' = diskSize + (IF inDisk[o] THEN size[o] ELSE 0)
        /\ l' = add_list(l, o)
        /\ UNCHANGED <<url, size, inMem, inDisk, dead, refs, leaked>>
    BY <1>2 DEF StoredObj
  <2> QED BY <2>1, AddListType DEF ObjTypes, Status
<1> QED BY <1>1, <1>2

(* swap_out_obj keeps the types.                                           *)
LEMMA SwapOutTypes ==
  ASSUME ObjTypes, ListTypes, NEW o \in Obj, SwapOut(o),
         UNCHANGED <<status, url, size, refs, leaked>>
  PROVE  /\ ObjTypes' /\ memSize' \in Int /\ diskSize' \in Int
         /\ cache_model' \in {"CLEAN_CACHE", "DROP_DEAD"}
<1>1. CASE UNCHANGED <<inMem, inDisk, dead, sizeVars, cache_model>>
  BY <1>1 DEF ObjTypes, ListTypes, sizeVars
<1>2. CASE /\ inMem'  = [inMem EXCEPT ![o] = FALSE]
           /\ inDisk' = [inDisk EXCEPT ![o] = TRUE]
           /\ memSize'  = memSize - size[o]
           /\ diskSize' = diskSize + (IF inDisk[o] THEN 0 ELSE size[o])
           /\ UNCHANGED <<dead, cache_model>>
  BY <1>2 DEF ObjTypes, ListTypes
<1>3. CASE /\ dead' = [dead EXCEPT ![o] = TRUE]
           /\ cache_model' = "DROP_DEAD"
           /\ UNCHANGED <<inMem, inDisk, sizeVars>>
  BY <1>3 DEF ObjTypes, ListTypes, sizeVars
<1> QED BY <1>1, <1>2, <1>3 DEF SwapOut

(* Every step keeps the types.                                             *)
LEMMA TypeStep ==
  ASSUME IInv(Nat), [Next]_vars
  PROVE  TypeOK'
<1> USE DEF objVars, sizeVars, listVars, cliVars, gcVars
<1>1. ASSUME NEW c \in Client, NEW u \in Url, LocateHit(c, u) PROVE TypeOK'
  BY <1>1, ConstantsAssumption DEF LocateHit, TakeRef, Goto, Cached, Live,
    IInv, TypeOK, ObjTypes, ListTypes, ClientTypes, PCs, AfterPCs, Status, Ptr
<1>2. ASSUME NEW c \in Client, NEW u \in Url, LocateNew(c, u) PROVE TypeOK'
  BY <1>2 DEF LocateNew, Allocate, Goto, IInv, TypeOK, ObjTypes, ListTypes,
    ClientTypes, PCs, AfterPCs, Status, Ptr
<1>3. ASSUME NEW c \in Client, NEW u \in Url, LocateOnlyIfCached(c, u)
      PROVE  TypeOK'
  <2>1. leaks' \in Nat /\ after' \in [Client -> AfterPCs] /\ UNCHANGED <<sizeVars, listVars, cache_model, gcVars, main>>
    BY <1>3 DEF LocateOnlyIfCached, IInv, TypeOK, ClientTypes, AfterPCs
  <2>2. CASE /\ \E o \in Cached(u) : TakeRef(c, o)
             /\ Goto(c, "swapin")
    BY <2>1, <2>2 DEF TakeRef, Goto, Cached, IInv, TypeOK, ObjTypes, ListTypes,
      ClientTypes, PCs, Ptr
  <2>3. CASE /\ Cached(u) = {}
             /\ \E o \in Obj : Allocate(o, u) /\ mine' = [mine EXCEPT ![c] = o]
             /\ Goto(c, "sending")
             /\ UNCHANGED held
    BY <2>1, <2>3 DEF Allocate, Goto, IInv, TypeOK, ObjTypes, ListTypes,
      ClientTypes, PCs, Status, Ptr
  <2> QED BY <1>3, <2>2, <2>3 DEF LocateOnlyIfCached
<1>4. ASSUME NEW c \in Client, RefuseFatboy(c) PROVE TypeOK'
  <2>1. ObjTypes'
    BY <1>4 DEF RefuseFatboy, Goto, IInv, TypeOK, ObjTypes, ListTypes,
      ClientTypes, PCs, AfterPCs, Status, Ptr
  <2>2. ListTypes'
    BY <1>4 DEF RefuseFatboy, Goto, IInv, TypeOK, ObjTypes, ListTypes,
      ClientTypes, PCs, AfterPCs, Status, Ptr
  <2>3. ClientTypes'
    BY <1>4 DEF RefuseFatboy, Goto, IInv, TypeOK, ObjTypes, ListTypes,
      ClientTypes, PCs, AfterPCs, Status, Ptr
  <2> QED BY <2>1, <2>2, <2>3 DEF TypeOK
<1>5. ASSUME NEW c \in Client, NEW s \in Sizes, NEW d \in BOOLEAN, FetchDone(c, s, d)
      PROVE  TypeOK'
  BY <1>5, ConstantsAssumption DEF FetchDone, Filled, Goto, IInv, TypeOK,
    ObjTypes, ListTypes, ClientTypes, PCs, AfterPCs, Status, Ptr
<1>6. ASSUME NEW c \in Client, FetchFails(c) PROVE TypeOK'
  <2>1. mine[c] \in Obj /\ Destroy(mine[c])
    BY <1>6, NilAssumption DEF FetchFails, IInv, ClientOK, TypeOK, ClientTypes,
      Ptr
  <2>2. ObjTypes' /\ memSize' \in Int /\ diskSize' \in Int
    BY <2>1, DestroyTypes DEF IInv, TypeOK, ListTypes
  <2> QED BY <1>6, <2>2 DEF FetchFails, Goto, IInv, TypeOK, ListTypes,
    ClientTypes, PCs, AfterPCs, Ptr
<1>7. ASSUME NEW c \in Client, Store(c) PROVE TypeOK'
  <2>1. mine[c] \in Obj /\ StoredObj(mine[c])
    BY <1>7, NilAssumption DEF Store, IInv, ClientOK, TypeOK, ClientTypes, Ptr
  <2>2. ObjTypes' /\ memSize' \in Int /\ diskSize' \in Int /\ l' \in ListType
    BY <2>1, StoredTypes DEF IInv, TypeOK, ListTypes
  <2> QED BY <1>7, <2>2 DEF Store, Goto, IInv, TypeOK, ListTypes, ClientTypes,
    PCs, AfterPCs, Ptr
<1>8. ASSUME NEW c \in Client, Serve(c) PROVE TypeOK'
  BY <1>8 DEF Serve, Goto, IInv, TypeOK, ObjTypes, ListTypes, ClientTypes,
    PCs, AfterPCs, Status, Ptr
<1>9. ASSUME NEW c \in Client, Revalidate(c) PROVE TypeOK'
  <2>1. ObjTypes'
    BY <1>9 DEF Revalidate, Allocate, Goto, IInv, TypeOK, ObjTypes, ListTypes,
      ClientTypes, PCs, AfterPCs, Status, Ptr, ClientOK, HoldingPCs
  <2>2. ListTypes'
    BY <1>9 DEF Revalidate, Allocate, Goto, IInv, TypeOK, ObjTypes, ListTypes,
      ClientTypes, PCs, AfterPCs, Status, Ptr, ClientOK, HoldingPCs
  <2>3. ClientTypes'
    BY <1>9 DEF Revalidate, Allocate, Goto, IInv, TypeOK, ObjTypes, ListTypes,
      ClientTypes, PCs, AfterPCs, Status, Ptr, ClientOK, HoldingPCs
  <2> QED BY <2>1, <2>2, <2>3 DEF TypeOK
<1>10. ASSUME NEW c \in Client, NEW s \in Sizes, NEW d \in BOOLEAN, RevalidateOk(c, s, d)
      PROVE  TypeOK'
  BY <1>10, ConstantsAssumption DEF RevalidateOk, Filled, Goto, IInv, TypeOK,
    ObjTypes, ListTypes, ClientTypes, PCs, AfterPCs, Status, Ptr
<1>11. ASSUME NEW c \in Client, RevalidateNotModified(c) PROVE TypeOK'
  <2>1. mine[c] \in Obj /\ Destroy(mine[c])
    BY <1>11, NilAssumption DEF RevalidateNotModified, IInv, ClientOK, TypeOK,
      ClientTypes, Ptr
  <2>2. ObjTypes' /\ memSize' \in Int /\ diskSize' \in Int
    BY <2>1, DestroyTypes DEF IInv, TypeOK, ListTypes
  <2> QED BY <1>11, <2>2 DEF RevalidateNotModified, Goto, IInv, TypeOK,
    ListTypes, ClientTypes, PCs, AfterPCs, Ptr
<1>12. ASSUME NEW c \in Client, RevalidateFails(c) PROVE TypeOK'
  <2>1. mine[c] \in Obj /\ Destroy(mine[c])
    BY <1>12, NilAssumption DEF RevalidateFails, IInv, ClientOK, TypeOK,
      ClientTypes, Ptr
  <2>2. ObjTypes' /\ memSize' \in Int /\ diskSize' \in Int
    BY <2>1, DestroyTypes DEF IInv, TypeOK, ListTypes
  <2> QED BY <1>12, <2>2 DEF RevalidateFails, Goto, IInv, TypeOK, ListTypes,
    ClientTypes, PCs, AfterPCs, Ptr
<1>13. ASSUME NEW c \in Client, SwapIn(c) PROVE TypeOK'
  <2>1. ObjTypes'
    <3>1. \/ inMem' = inMem
          \/ inMem' = [inMem EXCEPT ![held[c]] = TRUE]
      BY <1>13, Zenon DEF SwapIn
    <3>2. \/ dead' = dead
          \/ dead' = [dead EXCEPT ![held[c]] = TRUE]
      BY <1>13, Zenon DEF SwapIn
    <3>3. UNCHANGED <<status, url, size, inDisk, refs, leaked>>
      BY <1>13, Zenon DEF SwapIn
    <3>4. inMem' \in [Obj -> BOOLEAN]
      BY <3>1, Zenon DEF IInv, TypeOK, ObjTypes
    <3>5. dead' \in [Obj -> BOOLEAN]
      BY <3>2, Zenon DEF IInv, TypeOK, ObjTypes
    <3> QED BY <3>3, <3>4, <3>5 DEF IInv, TypeOK, ObjTypes
  <2>2. ListTypes'
    BY <1>13 DEF SwapIn, Goto, IInv, TypeOK, ObjTypes, ListTypes, ClientTypes,
      PCs, AfterPCs, Status, Ptr, ClientOK, HoldingPCs
  <2>3. ClientTypes'
    BY <1>13 DEF SwapIn, Goto, IInv, TypeOK, ObjTypes, ListTypes, ClientTypes,
      PCs, AfterPCs, Status, Ptr, ClientOK, HoldingPCs
  <2> QED BY <2>1, <2>2, <2>3 DEF TypeOK
<1>14. ASSUME NEW c \in Client, Sent(c) PROVE TypeOK'
  BY <1>14 DEF Sent, Goto, IInv, TypeOK, ObjTypes, ListTypes, ClientTypes,
    PCs, AfterPCs, Status, Ptr
<1>15. ASSUME NEW c \in Client, Kill(c) PROVE TypeOK'
  BY <1>15, ZenonT(60) DEF Kill, Goto, IInv, TypeOK, ObjTypes, ListTypes, ClientTypes,
    PCs, AfterPCs, Status, Ptr
<1>16. ASSUME NEW c \in Client, Bury(c) PROVE TypeOK'
  <2>1. held[c] \in Obj
    BY <1>16, NilAssumption DEF Bury, IInv, ClientOK, TypeOK, ClientTypes, Ptr,
      HoldingPCs, AfterPCs
  <2>2. l' \in ListType
    BY <1>16, <2>1, DeadListType DEF Bury, IInv, TypeOK, ListTypes
  <2> QED BY <1>16, <2>2 DEF Bury, Goto, IInv, TypeOK, ObjTypes, ListTypes,
    ClientTypes, PCs
<1>17. ASSUME NEW c \in Client, BuryFaults(c) PROVE TypeOK'
  BY <1>17 DEF BuryFaults, Crash, IInv, TypeOK, ObjTypes, ListTypes,
    ClientTypes, PCs, AfterPCs, Status, Ptr
<1>18. ASSUME NEW c \in Client, Mark(c) PROVE TypeOK'
  BY <1>18 DEF Mark, Goto, IInv, TypeOK, ObjTypes, ListTypes, ClientTypes,
    PCs, AfterPCs, Status, Ptr
<1>19. ASSUME NEW c \in Client, Replace(c) PROVE TypeOK'
  <2>1. mine[c] \in Obj /\ StoredObj(mine[c])
    BY <1>19, NilAssumption DEF Replace, IInv, ClientOK, TypeOK, ClientTypes,
      Ptr
  <2>2. ObjTypes' /\ memSize' \in Int /\ diskSize' \in Int /\ l' \in ListType
    BY <2>1, StoredTypes DEF IInv, TypeOK, ListTypes
  <2> QED BY <1>19, <2>2 DEF Replace, Goto, IInv, TypeOK, ListTypes,
    ClientTypes, PCs, AfterPCs, Ptr
<1>20. ASSUME NEW c \in Client, Rate(c) PROVE TypeOK'
  <2>1. held[c] \in Obj
    BY <1>20, NilAssumption DEF Rate, IInv, ClientOK, TypeOK, ClientTypes, Ptr,
      HoldingPCs, AfterPCs
  <2>2. l' \in ListType
    BY <1>20, <2>1, UpdateListType DEF Rate, IInv, TypeOK, ListTypes
  <2> QED BY <1>20, <2>2 DEF Rate, Goto, IInv, TypeOK, ObjTypes, ListTypes,
    ClientTypes, PCs, AfterPCs
<1>21. ASSUME NEW c \in Client, Release(c) PROVE TypeOK'
  <2>1. held[c] \in Obj /\ c \in Holders(held[c])
    BY <1>21, NilAssumption DEF Release, IInv, ClientOK, TypeOK, ClientTypes,
      Ptr, Holders, HoldingPCs, AfterPCs
  <2>2. refs[held[c]] >= 1
    BY <2>1, Holding
  <2>3. ObjTypes'
    BY <1>21, <2>1, <2>2 DEF Release, IInv, TypeOK, ObjTypes
  <2> QED BY <1>21, <2>3 DEF Release, Goto, IInv, TypeOK, ListTypes,
    ClientTypes, PCs, AfterPCs
<1>22. ASSUME NEW c \in Client, Unlock(c) PROVE TypeOK'
  BY <1>22 DEF Unlock, Goto, IInv, TypeOK, ObjTypes, ListTypes, ClientTypes,
    PCs, AfterPCs, Status, Ptr
<1>23. ASSUME NEW c \in Client, Forget(c) PROVE TypeOK'
  BY <1>23 DEF Forget, Goto, IInv, TypeOK, ObjTypes, ListTypes, ClientTypes,
    PCs, AfterPCs, Status, Ptr
<1>24. ASSUME ReadSizes PROVE TypeOK'
  BY <1>24, ConstantsAssumption DEF ReadSizes, IInv, TypeOK, ObjTypes,
    ListTypes, ClientTypes, PCs, AfterPCs, Status, Ptr
<1>25. ASSUME EnterDelete PROVE TypeOK'
  BY <1>25 DEF EnterDelete, IInv, TypeOK, ObjTypes, ListTypes, ClientTypes,
    PCs, AfterPCs, Status, Ptr
<1>26. ASSUME DeleteEnd PROVE TypeOK'
  BY <1>26 DEF DeleteEnd, LeaveDelete, NoSection, IInv, TypeOK, ObjTypes,
    ListTypes, ClientTypes, PCs, AfterPCs, Status, Ptr
<1>27. ASSUME DeleteStep PROVE TypeOK'
  <2> DEFINE o == l.head
  <2>1. o \in Obj /\ o # Nil
    BY <1>27 DEF DeleteStep, DeleteStops, IInv, TypeOK, ListTypes, ListType,
      Ptr
  <2>2. l' \in ListType
    BY <1>27, <2>1, AdvanceHeadType DEF DeleteStep, IInv, TypeOK, ListTypes
  <2>3. UNCHANGED <<status, url, size, refs, leaked, lost, pc, held, mine, after, leaks>>
    BY <1>27 DEF DeleteStep
  <2>4. /\ ObjTypes' /\ memSize' \in Int /\ diskSize' \in Int
        /\ cache_model' \in {"CLEAN_CACHE", "DROP_DEAD"}
    <3>1. CASE SwapOut(o)
      BY <2>1, <2>3, <3>1, SwapOutTypes DEF IInv, TypeOK
    <3>2. CASE UNCHANGED <<inMem, inDisk, dead, sizeVars, cache_model>>
      BY <2>3, <3>2 DEF IInv, TypeOK, ObjTypes, ListTypes
    <3> QED BY <1>27, <3>1, <3>2 DEF DeleteStep
  <2>5. /\ sect' \in [by : {"none", "time", "main"}, op : {"none", "delete", "clean"}, m : Int]
        /\ tick' \in [pc : {"idle", "delete", "clean"}, mem : Int, disk : Int]
        /\ main' \in {"boot", "run", "quit", "save", "index", "exit", "crash"}
    <3>1. (IF MayDelete(o) THEN sect.m - size[o] ELSE sect.m) \in Int
      BY <2>1 DEF IInv, TypeOK, ObjTypes, ListTypes
    <3>2. CASE LeaveDelete
      BY <3>2 DEF LeaveDelete, NoSection, IInv, TypeOK, ListTypes
    <3>3. CASE ~LeaveDelete
      BY <1>27, <3>1, <3>3 DEF DeleteStep, IInv, TypeOK, ListTypes
    <3> QED BY <3>2, <3>3
  <2> QED BY <2>2, <2>3, <2>4, <2>5 DEF IInv, TypeOK, ListTypes, ClientTypes
<1>28. ASSUME EnterClean PROVE TypeOK'
  BY <1>28 DEF EnterClean, IInv, TypeOK, ObjTypes, ListTypes, ClientTypes,
    PCs, AfterPCs, Status, Ptr
<1>29. ASSUME SkipClean PROVE TypeOK'
  BY <1>29 DEF SkipClean, IdleTick, IInv, TypeOK, ObjTypes, ListTypes,
    ClientTypes, PCs, AfterPCs, Status, Ptr
<1>30. ASSUME CleanDrop PROVE TypeOK'
  <2>1. l.dhead \in Obj /\ l.dhead # Nil
    BY <1>30 DEF CleanDrop, IInv, TypeOK, ListTypes, ListType, Ptr
  <2>2. ObjTypes' /\ memSize' \in Int /\ diskSize' \in Int
    BY <1>30, <2>1, DestroyTypes DEF CleanDrop, IInv, TypeOK, ListTypes
  <2>3. l' \in ListType
    BY <1>30, <2>1, DropFirstType DEF CleanDrop, IInv, TypeOK, ListTypes
  <2>4. sect' \in [by : {"none", "time", "main"}, op : {"none", "delete", "clean"}, m : Int]
    BY <1>30, <2>1 DEF CleanDrop, IInv, TypeOK, ObjTypes, ListTypes
  <2> QED BY <1>30, <2>2, <2>3, <2>4 DEF CleanDrop, IInv, TypeOK, ListTypes,
    ClientTypes
<1>31. ASSUME CleanKeep PROVE TypeOK'
  BY <1>31, KeepFirstType DEF CleanKeep, IInv, TypeOK, ObjTypes, ListTypes,
    ClientTypes, PCs, AfterPCs, Status, Ptr
<1>32. ASSUME CleanEnd PROVE TypeOK'
  BY <1>32, FinishCleanType DEF CleanEnd, NoSection, IdleTick, IInv, TypeOK,
    ObjTypes, ListTypes, ClientTypes, PCs, AfterPCs, Status, Ptr
<1>33. ASSUME Booted PROVE TypeOK'
  BY <1>33 DEF Booted, IInv, TypeOK, ObjTypes, ListTypes, ClientTypes, PCs,
    AfterPCs, Status, Ptr, ListType
<1>34. ASSUME NEW o \in Obj, NEW u \in Url, NEW s \in Sizes, Restore(o, u, s)
      PROVE  TypeOK'
  <2>1. ObjTypes'
    BY <1>34, AddListType, ConstantsAssumption DEF Restore, IInv, TypeOK,
      ObjTypes, ListTypes, ClientTypes, PCs, AfterPCs, Status, Ptr
  <2>2. ListTypes'
    BY <1>34, AddListType, ConstantsAssumption DEF Restore, IInv, TypeOK,
      ObjTypes, ListTypes, ClientTypes, PCs, AfterPCs, Status, Ptr
  <2>3. ClientTypes'
    BY <1>34, AddListType, ConstantsAssumption DEF Restore, IInv, TypeOK,
      ObjTypes, ListTypes, ClientTypes, PCs, AfterPCs, Status, Ptr
  <2> QED BY <2>1, <2>2, <2>3 DEF TypeOK
<1>35. ASSUME Shutdown PROVE TypeOK'
  BY <1>35 DEF Shutdown, IInv, TypeOK, ObjTypes, ListTypes, ClientTypes, PCs,
    AfterPCs, Status, Ptr
<1>36. ASSUME EnterSaveAll PROVE TypeOK'
  BY <1>36 DEF EnterSaveAll, IInv, TypeOK, ObjTypes, ListTypes, ClientTypes,
    PCs, AfterPCs, Status, Ptr
<1>37. ASSUME SaveIndexAndExit PROVE TypeOK'
  BY <1>37 DEF SaveIndexAndExit, IInv, TypeOK, ObjTypes, ListTypes,
    ClientTypes, PCs, AfterPCs, Status, Ptr
<1>38. ASSUME Ended PROVE TypeOK'
  BY <1>38 DEF Ended, vars, IInv, TypeOK, ObjTypes, ListTypes, ClientTypes,
    PCs, AfterPCs, Status, Ptr
<1>39. CASE UNCHANGED vars
  BY <1>39 DEF vars, IInv, TypeOK, ObjTypes, ListTypes, ClientTypes, PCs,
    AfterPCs, Status, Ptr
<1> HIDE DEF objVars, sizeVars, listVars, cliVars, gcVars
<1> QED
  BY <1>1, <1>2, <1>3, <1>4, <1>5, <1>6, <1>7, <1>8, <1>9, <1>10, <1>11,
    <1>12, <1>13, <1>14, <1>15, <1>16, <1>17, <1>18, <1>19, <1>20, <1>21,
    <1>22, <1>23, <1>24, <1>25, <1>26, <1>27, <1>28, <1>29, <1>30, <1>31,
    <1>32, <1>33, <1>34, <1>35, <1>36, <1>37, <1>38, <1>39 DEF Next, Request,
    Work, Collect, Boot, Stop

-----------------------------------------------------------------------------
(* Control points of the worker threads                                    *)

(* Every step keeps what the control points say.                          *)
LEMMA ClientStep ==
  ASSUME IInv(Nat), [Next]_vars
  PROVE  (\A d \in Client : ClientOK(d))'
<1> USE DEF objVars, sizeVars, listVars, cliVars, gcVars
<1>1. ASSUME NEW c \in Client, NEW u \in Url, LocateHit(c, u)
      PROVE  (\A d \in Client : ClientOK(d))'
  BY <1>1, NilAssumption DEF LocateHit, TakeRef, Goto, Cached, Live, ClientOK,
    IInv, HoldingPCs, AfterPCs, TypeOK, ClientTypes, Ptr
<1>2. ASSUME NEW c \in Client, NEW u \in Url, LocateNew(c, u)
      PROVE  (\A d \in Client : ClientOK(d))'
  BY <1>2, NilAssumption DEF LocateNew, Allocate, Goto, ClientOK, IInv,
    HoldingPCs, AfterPCs, TypeOK, ClientTypes, Ptr
<1>3. ASSUME NEW c \in Client, NEW u \in Url, LocateOnlyIfCached(c, u)
      PROVE  (\A d \in Client : ClientOK(d))'
  BY <1>3, NilAssumption DEF LocateOnlyIfCached, TakeRef, Allocate, Goto,
    Cached, Live, ClientOK, IInv, HoldingPCs, AfterPCs, TypeOK, ClientTypes,
    Ptr
<1>4. ASSUME NEW c \in Client, RefuseFatboy(c)
      PROVE  (\A d \in Client : ClientOK(d))'
  BY <1>4, NilAssumption DEF RefuseFatboy, Goto, ClientOK, IInv, HoldingPCs,
    AfterPCs, TypeOK, ClientTypes, Ptr
<1>5. ASSUME NEW c \in Client, NEW s \in Sizes, NEW d \in BOOLEAN, FetchDone(c, s, d)
      PROVE  (\A b \in Client : ClientOK(b))'
  BY <1>5, NilAssumption DEF FetchDone, Filled, Goto, ClientOK, IInv,
    HoldingPCs, AfterPCs, TypeOK, ClientTypes, Ptr
<1>6. ASSUME NEW c \in Client, FetchFails(c)
      PROVE  (\A d \in Client : ClientOK(d))'
  BY <1>6, NilAssumption DEF FetchFails, Destroy, Goto, ClientOK, IInv,
    HoldingPCs, AfterPCs, TypeOK, ClientTypes, Ptr
<1>7. ASSUME NEW c \in Client, Store(c) PROVE (\A d \in Client : ClientOK(d))'
  BY <1>7, NilAssumption DEF Store, StoredObj, Destroy, Goto, ClientOK, IInv,
    HoldingPCs, AfterPCs, TypeOK, ClientTypes, Ptr
<1>8. ASSUME NEW c \in Client, Serve(c) PROVE (\A d \in Client : ClientOK(d))'
  BY <1>8, NilAssumption DEF Serve, Goto, ClientOK, IInv, HoldingPCs,
    AfterPCs, TypeOK, ClientTypes, Ptr
<1>9. ASSUME NEW c \in Client, Revalidate(c)
      PROVE  (\A d \in Client : ClientOK(d))'
  BY <1>9, NilAssumption DEF Revalidate, Allocate, Goto, ClientOK, IInv,
    HoldingPCs, AfterPCs, TypeOK, ClientTypes, Ptr
<1>10. ASSUME NEW c \in Client, NEW s \in Sizes, NEW d \in BOOLEAN, RevalidateOk(c, s, d)
      PROVE  (\A b \in Client : ClientOK(b))'
  BY <1>10, NilAssumption DEF RevalidateOk, Filled, Goto, ClientOK, IInv,
    HoldingPCs, AfterPCs, TypeOK, ClientTypes, Ptr
<1>11. ASSUME NEW c \in Client, RevalidateNotModified(c)
      PROVE  (\A d \in Client : ClientOK(d))'
  BY <1>11, NilAssumption DEF RevalidateNotModified, Destroy, Goto, ClientOK,
    IInv, HoldingPCs, AfterPCs, TypeOK, ClientTypes, Ptr
<1>12. ASSUME NEW c \in Client, RevalidateFails(c)
      PROVE  (\A d \in Client : ClientOK(d))'
  BY <1>12, NilAssumption DEF RevalidateFails, Destroy, Goto, ClientOK, IInv,
    HoldingPCs, AfterPCs, TypeOK, ClientTypes, Ptr
<1>13. ASSUME NEW c \in Client, SwapIn(c)
      PROVE  (\A d \in Client : ClientOK(d))'
  BY <1>13, NilAssumption DEF SwapIn, Goto, ClientOK, IInv, HoldingPCs,
    AfterPCs, TypeOK, ClientTypes, Ptr
<1>14. ASSUME NEW c \in Client, Sent(c) PROVE (\A d \in Client : ClientOK(d))'
  BY <1>14, NilAssumption DEF Sent, Goto, ClientOK, IInv, HoldingPCs,
    AfterPCs, TypeOK, ClientTypes, Ptr
<1>15. ASSUME NEW c \in Client, Kill(c) PROVE (\A d \in Client : ClientOK(d))'
  BY <1>15, NilAssumption DEF Kill, Goto, ClientOK, IInv, HoldingPCs,
    AfterPCs, TypeOK, ClientTypes, Ptr
<1>16. ASSUME NEW c \in Client, Bury(c) PROVE (\A d \in Client : ClientOK(d))'
  BY <1>16, NilAssumption DEF Bury, Goto, ClientOK, IInv, HoldingPCs,
    AfterPCs, TypeOK, ClientTypes, Ptr
<1>17. ASSUME NEW c \in Client, BuryFaults(c)
      PROVE  (\A d \in Client : ClientOK(d))'
  BY <1>17, NilAssumption DEF BuryFaults, Crash, ClientOK, IInv, HoldingPCs,
    AfterPCs, TypeOK, ClientTypes, Ptr
<1>18. ASSUME NEW c \in Client, Mark(c) PROVE (\A d \in Client : ClientOK(d))'
  BY <1>18, NilAssumption DEF Mark, Goto, ClientOK, IInv, HoldingPCs,
    AfterPCs, TypeOK, ClientTypes, Ptr
<1>19. ASSUME NEW c \in Client, Replace(c)
      PROVE  (\A d \in Client : ClientOK(d))'
  BY <1>19, NilAssumption DEF Replace, StoredObj, Destroy, Goto, ClientOK,
    IInv, HoldingPCs, AfterPCs, TypeOK, ClientTypes, Ptr
<1>20. ASSUME NEW c \in Client, Rate(c) PROVE (\A d \in Client : ClientOK(d))'
  BY <1>20, NilAssumption DEF Rate, Goto, ClientOK, IInv, HoldingPCs,
    AfterPCs, TypeOK, ClientTypes, Ptr
<1>21. ASSUME NEW c \in Client, Release(c)
      PROVE  (\A d \in Client : ClientOK(d))'
  BY <1>21, NilAssumption DEF Release, Goto, ClientOK, IInv, HoldingPCs,
    AfterPCs, TypeOK, ClientTypes, Ptr
<1>22. ASSUME NEW c \in Client, Unlock(c)
      PROVE  (\A d \in Client : ClientOK(d))'
  BY <1>22, NilAssumption DEF Unlock, Goto, ClientOK, IInv, HoldingPCs,
    AfterPCs, TypeOK, ClientTypes, Ptr
<1>23. ASSUME NEW c \in Client, Forget(c)
      PROVE  (\A d \in Client : ClientOK(d))'
  BY <1>23, NilAssumption DEF Forget, Goto, ClientOK, IInv, HoldingPCs,
    AfterPCs, TypeOK, ClientTypes, Ptr
<1>24. ASSUME ReadSizes PROVE (\A d \in Client : ClientOK(d))'
  BY <1>24, NilAssumption DEF ReadSizes, ClientOK, IInv, HoldingPCs, AfterPCs,
    TypeOK, ClientTypes, Ptr
<1>25. ASSUME EnterDelete PROVE (\A d \in Client : ClientOK(d))'
  BY <1>25, NilAssumption DEF EnterDelete, ClientOK, IInv, HoldingPCs,
    AfterPCs, TypeOK, ClientTypes, Ptr
<1>26. ASSUME DeleteEnd PROVE (\A d \in Client : ClientOK(d))'
  BY <1>26, NilAssumption DEF DeleteEnd, LeaveDelete, NoSection, ClientOK,
    IInv, HoldingPCs, AfterPCs, TypeOK, ClientTypes, Ptr
<1>27. ASSUME DeleteStep PROVE (\A d \in Client : ClientOK(d))'
  BY <1>27, NilAssumption DEF DeleteStep, SwapOut, LeaveDelete, NoSection,
    ClientOK, IInv, HoldingPCs, AfterPCs, TypeOK, ClientTypes, Ptr
<1>28. ASSUME EnterClean PROVE (\A d \in Client : ClientOK(d))'
  BY <1>28, NilAssumption DEF EnterClean, ClientOK, IInv, HoldingPCs,
    AfterPCs, TypeOK, ClientTypes, Ptr
<1>29. ASSUME SkipClean PROVE (\A d \in Client : ClientOK(d))'
  BY <1>29, NilAssumption DEF SkipClean, IdleTick, ClientOK, IInv, HoldingPCs,
    AfterPCs, TypeOK, ClientTypes, Ptr
<1>30. ASSUME CleanDrop PROVE (\A d \in Client : ClientOK(d))'
  BY <1>30, NilAssumption DEF CleanDrop, Destroy, Disposable, ClientOK, IInv,
    HoldingPCs, AfterPCs, TypeOK, ClientTypes, Ptr
<1>31. ASSUME CleanKeep PROVE (\A d \in Client : ClientOK(d))'
  BY <1>31, NilAssumption DEF CleanKeep, ClientOK, IInv, HoldingPCs, AfterPCs,
    TypeOK, ClientTypes, Ptr
<1>32. ASSUME CleanEnd PROVE (\A d \in Client : ClientOK(d))'
  BY <1>32, NilAssumption DEF CleanEnd, NoSection, IdleTick, ClientOK, IInv,
    HoldingPCs, AfterPCs, TypeOK, ClientTypes, Ptr
<1>33. ASSUME Booted PROVE (\A d \in Client : ClientOK(d))'
  BY <1>33, NilAssumption DEF Booted, ClientOK, IInv, HoldingPCs, AfterPCs,
    TypeOK, ClientTypes, Ptr
<1>34. ASSUME NEW o \in Obj, NEW u \in Url, NEW s \in Sizes, Restore(o, u, s)
      PROVE  (\A d \in Client : ClientOK(d))'
  BY <1>34, NilAssumption DEF Restore, ClientOK, IInv, HoldingPCs, AfterPCs,
    TypeOK, ClientTypes, Ptr
<1>35. ASSUME Shutdown PROVE (\A d \in Client : ClientOK(d))'
  BY <1>35, NilAssumption DEF Shutdown, ClientOK, IInv, HoldingPCs, AfterPCs,
    TypeOK, ClientTypes, Ptr
<1>36. ASSUME EnterSaveAll PROVE (\A d \in Client : ClientOK(d))'
  BY <1>36, NilAssumption DEF EnterSaveAll, ClientOK, IInv, HoldingPCs,
    AfterPCs, TypeOK, ClientTypes, Ptr
<1>37. ASSUME SaveIndexAndExit PROVE (\A d \in Client : ClientOK(d))'
  BY <1>37, NilAssumption DEF SaveIndexAndExit, ClientOK, IInv, HoldingPCs,
    AfterPCs, TypeOK, ClientTypes, Ptr
<1>38. ASSUME Ended PROVE (\A d \in Client : ClientOK(d))'
  BY <1>38, NilAssumption DEF Ended, vars, ClientOK, IInv, HoldingPCs,
    AfterPCs, TypeOK, ClientTypes, Ptr
<1>39. CASE UNCHANGED vars
  BY <1>39, NilAssumption DEF vars, ClientOK, IInv, HoldingPCs, AfterPCs,
    TypeOK, ClientTypes, Ptr
<1> HIDE DEF objVars, sizeVars, listVars, cliVars, gcVars
<1> QED
  BY <1>1, <1>2, <1>3, <1>4, <1>5, <1>6, <1>7, <1>8, <1>9, <1>10, <1>11,
    <1>12, <1>13, <1>14, <1>15, <1>16, <1>17, <1>18, <1>19, <1>20, <1>21,
    <1>22, <1>23, <1>24, <1>25, <1>26, <1>27, <1>28, <1>29, <1>30, <1>31,
    <1>32, <1>33, <1>34, <1>35, <1>36, <1>37, <1>38, <1>39 DEF Next, Request,
    Work, Collect, Boot, Stop

-----------------------------------------------------------------------------
(* Phases of the process                                                   *)

(* Every step keeps the phases.                                            *)
LEMMA PhasesStep ==
  ASSUME IInv(Nat), [Next]_vars
  PROVE  Phases'
<1> USE DEF objVars, sizeVars, listVars, cliVars, gcVars
<1>1. ASSUME NEW c \in Client, NEW u \in Url, LocateHit(c, u) PROVE Phases'
  BY <1>1 DEF LocateHit, TakeRef, Goto, Cached, Live, IInv, TypeOK,
    ClientTypes, ListTypes, Phases, ListFree, Running
<1>2. ASSUME NEW c \in Client, NEW u \in Url, LocateNew(c, u) PROVE Phases'
  BY <1>2 DEF LocateNew, Allocate, Goto, IInv, TypeOK, ClientTypes, ListTypes,
    Phases, ListFree, Running
<1>3. ASSUME NEW c \in Client, NEW u \in Url, LocateOnlyIfCached(c, u)
      PROVE  Phases'
  BY <1>3 DEF LocateOnlyIfCached, TakeRef, Allocate, Goto, Cached, Live, IInv,
    TypeOK, ClientTypes, ListTypes, Phases, ListFree, Running
<1>4. ASSUME NEW c \in Client, RefuseFatboy(c) PROVE Phases'
  BY <1>4 DEF RefuseFatboy, Goto, IInv, TypeOK, ClientTypes, ListTypes,
    Phases, ListFree, Running
<1>5. ASSUME NEW c \in Client, NEW s \in Sizes, NEW d \in BOOLEAN, FetchDone(c, s, d)
      PROVE  Phases'
  BY <1>5 DEF FetchDone, Filled, Goto, IInv, TypeOK, ClientTypes, ListTypes,
    Phases, ListFree, Running
<1>6. ASSUME NEW c \in Client, FetchFails(c) PROVE Phases'
  BY <1>6 DEF FetchFails, Destroy, Goto, IInv, TypeOK, ClientTypes, ListTypes,
    Phases, ListFree, Running
<1>7. ASSUME NEW c \in Client, Store(c) PROVE Phases'
  BY <1>7 DEF Store, StoredObj, Destroy, Goto, IInv, TypeOK, ClientTypes,
    ListTypes, Phases, ListFree, Running
<1>8. ASSUME NEW c \in Client, Serve(c) PROVE Phases'
  BY <1>8 DEF Serve, Goto, IInv, TypeOK, ClientTypes, ListTypes, Phases,
    ListFree, Running
<1>9. ASSUME NEW c \in Client, Revalidate(c) PROVE Phases'
  BY <1>9 DEF Revalidate, Allocate, Goto, IInv, TypeOK, ClientTypes,
    ListTypes, Phases, ListFree, Running
<1>10. ASSUME NEW c \in Client, NEW s \in Sizes, NEW d \in BOOLEAN, RevalidateOk(c, s, d)
      PROVE  Phases'
  BY <1>10 DEF RevalidateOk, Filled, Goto, IInv, TypeOK, ClientTypes,
    ListTypes, Phases, ListFree, Running
<1>11. ASSUME NEW c \in Client, RevalidateNotModified(c) PROVE Phases'
  BY <1>11 DEF RevalidateNotModified, Destroy, Goto, IInv, TypeOK,
    ClientTypes, ListTypes, Phases, ListFree, Running
<1>12. ASSUME NEW c \in Client, RevalidateFails(c) PROVE Phases'
  BY <1>12 DEF RevalidateFails, Destroy, Goto, IInv, TypeOK, ClientTypes,
    ListTypes, Phases, ListFree, Running
<1>13. ASSUME NEW c \in Client, SwapIn(c) PROVE Phases'
  BY <1>13 DEF SwapIn, Goto, IInv, TypeOK, ClientTypes, ListTypes, Phases,
    ListFree, Running
<1>14. ASSUME NEW c \in Client, Sent(c) PROVE Phases'
  BY <1>14 DEF Sent, Goto, IInv, TypeOK, ClientTypes, ListTypes, Phases,
    ListFree, Running
<1>15. ASSUME NEW c \in Client, Kill(c) PROVE Phases'
  BY <1>15 DEF Kill, Goto, IInv, TypeOK, ClientTypes, ListTypes, Phases,
    ListFree, Running
<1>16. ASSUME NEW c \in Client, Bury(c) PROVE Phases'
  BY <1>16 DEF Bury, Goto, IInv, TypeOK, ClientTypes, ListTypes, Phases,
    ListFree, Running
<1>17. ASSUME NEW c \in Client, BuryFaults(c) PROVE Phases'
  BY <1>17 DEF BuryFaults, Crash, IInv, TypeOK, ClientTypes, ListTypes,
    Phases, ListFree, Running
<1>18. ASSUME NEW c \in Client, Mark(c) PROVE Phases'
  BY <1>18 DEF Mark, Goto, IInv, TypeOK, ClientTypes, ListTypes, Phases,
    ListFree, Running
<1>19. ASSUME NEW c \in Client, Replace(c) PROVE Phases'
  BY <1>19 DEF Replace, StoredObj, Destroy, Goto, IInv, TypeOK, ClientTypes,
    ListTypes, Phases, ListFree, Running
<1>20. ASSUME NEW c \in Client, Rate(c) PROVE Phases'
  BY <1>20 DEF Rate, Goto, IInv, TypeOK, ClientTypes, ListTypes, Phases,
    ListFree, Running
<1>21. ASSUME NEW c \in Client, Release(c) PROVE Phases'
  BY <1>21 DEF Release, Goto, IInv, TypeOK, ClientTypes, ListTypes, Phases,
    ListFree, Running
<1>22. ASSUME NEW c \in Client, Unlock(c) PROVE Phases'
  BY <1>22 DEF Unlock, Goto, IInv, TypeOK, ClientTypes, ListTypes, Phases,
    ListFree, Running
<1>23. ASSUME NEW c \in Client, Forget(c) PROVE Phases'
  BY <1>23 DEF Forget, Goto, IInv, TypeOK, ClientTypes, ListTypes, Phases,
    ListFree, Running
<1>24. ASSUME ReadSizes PROVE Phases'
  BY <1>24 DEF ReadSizes, IInv, TypeOK, ClientTypes, ListTypes, Phases,
    ListFree, Running
<1>25. ASSUME EnterDelete PROVE Phases'
  BY <1>25 DEF EnterDelete, IInv, TypeOK, ClientTypes, ListTypes, Phases,
    ListFree, Running
<1>26. ASSUME DeleteEnd PROVE Phases'
  BY <1>26 DEF DeleteEnd, LeaveDelete, NoSection, IInv, TypeOK, ClientTypes,
    ListTypes, Phases, ListFree, Running
<1>27. ASSUME DeleteStep PROVE Phases'
  BY <1>27 DEF DeleteStep, SwapOut, LeaveDelete, NoSection, IInv, TypeOK,
    ClientTypes, ListTypes, Phases, ListFree, Running
<1>28. ASSUME EnterClean PROVE Phases'
  BY <1>28 DEF EnterClean, IInv, TypeOK, ClientTypes, ListTypes, Phases,
    ListFree, Running
<1>29. ASSUME SkipClean PROVE Phases'
  BY <1>29 DEF SkipClean, IdleTick, IInv, TypeOK, ClientTypes, ListTypes,
    Phases, ListFree, Running
<1>30. ASSUME CleanDrop PROVE Phases'
  BY <1>30 DEF CleanDrop, Destroy, Disposable, IInv, TypeOK, ClientTypes,
    ListTypes, Phases, ListFree, Running
<1>31. ASSUME CleanKeep PROVE Phases'
  BY <1>31 DEF CleanKeep, IInv, TypeOK, ClientTypes, ListTypes, Phases,
    ListFree, Running
<1>32. ASSUME CleanEnd PROVE Phases'
  BY <1>32 DEF CleanEnd, NoSection, IdleTick, IInv, TypeOK, ClientTypes,
    ListTypes, Phases, ListFree, Running
<1>33. ASSUME Booted PROVE Phases'
  BY <1>33 DEF Booted, IInv, TypeOK, ClientTypes, ListTypes, Phases, ListFree,
    Running
<1>34. ASSUME NEW o \in Obj, NEW u \in Url, NEW s \in Sizes, Restore(o, u, s)
      PROVE  Phases'
  BY <1>34 DEF Restore, IInv, TypeOK, ClientTypes, ListTypes, Phases,
    ListFree, Running
<1>35. ASSUME Shutdown PROVE Phases'
  BY <1>35 DEF Shutdown, IInv, TypeOK, ClientTypes, ListTypes, Phases,
    ListFree, Running
<1>36. ASSUME EnterSaveAll PROVE Phases'
  BY <1>36 DEF EnterSaveAll, IInv, TypeOK, ClientTypes, ListTypes, Phases,
    ListFree, Running
<1>37. ASSUME SaveIndexAndExit PROVE Phases'
  BY <1>37 DEF SaveIndexAndExit, IInv, TypeOK, ClientTypes, ListTypes, Phases,
    ListFree, Running
<1>38. ASSUME Ended PROVE Phases'
  BY <1>38 DEF Ended, vars, IInv, TypeOK, ClientTypes, ListTypes, Phases,
    ListFree, Running
<1>39. CASE UNCHANGED vars
  BY <1>39 DEF vars, IInv, TypeOK, ClientTypes, ListTypes, Phases, ListFree,
    Running
<1> HIDE DEF objVars, sizeVars, listVars, cliVars, gcVars
<1> QED
  BY <1>1, <1>2, <1>3, <1>4, <1>5, <1>6, <1>7, <1>8, <1>9, <1>10, <1>11,
    <1>12, <1>13, <1>14, <1>15, <1>16, <1>17, <1>18, <1>19, <1>20, <1>21,
    <1>22, <1>23, <1>24, <1>25, <1>26, <1>27, <1>28, <1>29, <1>30, <1>31,
    <1>32, <1>33, <1>34, <1>35, <1>36, <1>37, <1>38, <1>39 DEF Next, Request,
    Work, Collect, Boot, Stop

-----------------------------------------------------------------------------
(* Private objects                                                         *)

(* The first object of the list is a cached one.                           *)
LEMMA FirstIsCached ==
  ASSUME IInv(Nat), sect.op = "clean", l.dhead # Nil
  PROVE  /\ status[l.dhead] = "hashed"
         /\ Shape(Nat, DropFirst(l), Cacheable \ {l.dhead}, lost, TRUE)
<1>1. Cacheable \in SUBSET Obj /\ l \in ListType /\ lost \in BOOLEAN
  BY DEF Cacheable, IInv, TypeOK, ListTypes
<1>2. Shape(Nat, l, Cacheable, lost, TRUE)
  BY DEF IInv
<1>3. l.dhead \in Cacheable /\ Shape(Nat, DropFirst(l), Cacheable \ {l.dhead}, lost, TRUE)
  BY <1>1, <1>2, DropFirstShape
<1> QED BY <1>3 DEF Cacheable

(* Every step keeps private objects private.                               *)
LEMMA PrivateStep ==
  ASSUME IInv(Nat), [Next]_vars
  PROVE  Private'
<1> USE DEF objVars, sizeVars, listVars, cliVars, gcVars
<1>1. ASSUME NEW c \in Client, NEW u \in Url, LocateHit(c, u) PROVE Private'
  BY <1>1 DEF LocateHit, TakeRef, Goto, Cached, Live, IInv, TypeOK,
    ClientTypes, ObjTypes, Private, ClientOK
<1>2. ASSUME NEW c \in Client, NEW u \in Url, LocateNew(c, u) PROVE Private'
  BY <1>2 DEF LocateNew, Allocate, Goto, IInv, TypeOK, ClientTypes, ObjTypes,
    Private, ClientOK
<1>3. ASSUME NEW c \in Client, NEW u \in Url, LocateOnlyIfCached(c, u)
      PROVE  Private'
  <2>1. CASE UNCHANGED <<status, mine>>
    BY <2>1 DEF IInv, Private
  <2>2. CASE \E o \in Obj : Allocate(o, u) /\ mine' = [mine EXCEPT ![c] = o]
    BY <1>3, <2>2 DEF Allocate, IInv, TypeOK, ClientTypes, ObjTypes, Ptr,
      Private
  <2> QED BY <1>3, <2>1, <2>2 DEF LocateOnlyIfCached, TakeRef
<1>4. ASSUME NEW c \in Client, RefuseFatboy(c) PROVE Private'
  BY <1>4 DEF RefuseFatboy, Goto, IInv, TypeOK, ClientTypes, ObjTypes,
    Private, ClientOK
<1>5. ASSUME NEW c \in Client, NEW s \in Sizes, NEW d \in BOOLEAN, FetchDone(c, s, d)
      PROVE  Private'
  BY <1>5 DEF FetchDone, Filled, Goto, IInv, TypeOK, ClientTypes, ObjTypes,
    Private, ClientOK
<1>6. ASSUME NEW c \in Client, FetchFails(c) PROVE Private'
  BY <1>6 DEF FetchFails, Destroy, Goto, IInv, TypeOK, ClientTypes, ObjTypes,
    Private, ClientOK
<1>7. ASSUME NEW c \in Client, Store(c) PROVE Private'
  <2>1. PICK o \in Obj : o = mine[c]
    BY <1>7, NilAssumption DEF Store, IInv, ClientOK, TypeOK, ClientTypes, Ptr
  <2>2. \A p \in Obj : p # o => status'[p] = status[p]
    BY <1>7, <2>1 DEF Store, StoredObj, Destroy, IInv, TypeOK, ObjTypes
  <2>3. mine' = [mine EXCEPT ![c] = Nil]
    BY <1>7 DEF Store
  <2> QED BY <2>1, <2>2, <2>3 DEF IInv, TypeOK, ClientTypes, Ptr, Private
<1>8. ASSUME NEW c \in Client, Serve(c) PROVE Private'
  BY <1>8 DEF Serve, Goto, IInv, TypeOK, ClientTypes, ObjTypes, Private,
    ClientOK
<1>9. ASSUME NEW c \in Client, Revalidate(c) PROVE Private'
  BY <1>9 DEF Revalidate, Allocate, Goto, IInv, TypeOK, ClientTypes, ObjTypes,
    Private, ClientOK
<1>10. ASSUME NEW c \in Client, NEW s \in Sizes, NEW d \in BOOLEAN, RevalidateOk(c, s, d)
      PROVE  Private'
  BY <1>10 DEF RevalidateOk, Filled, Goto, IInv, TypeOK, ClientTypes,
    ObjTypes, Private, ClientOK
<1>11. ASSUME NEW c \in Client, RevalidateNotModified(c) PROVE Private'
  BY <1>11 DEF RevalidateNotModified, Destroy, Goto, IInv, TypeOK,
    ClientTypes, ObjTypes, Private, ClientOK
<1>12. ASSUME NEW c \in Client, RevalidateFails(c) PROVE Private'
  BY <1>12 DEF RevalidateFails, Destroy, Goto, IInv, TypeOK, ClientTypes,
    ObjTypes, Private, ClientOK
<1>13. ASSUME NEW c \in Client, SwapIn(c) PROVE Private'
  BY <1>13 DEF SwapIn, Goto, IInv, TypeOK, ClientTypes, ObjTypes, Private,
    ClientOK
<1>14. ASSUME NEW c \in Client, Sent(c) PROVE Private'
  BY <1>14 DEF Sent, Goto, IInv, TypeOK, ClientTypes, ObjTypes, Private,
    ClientOK
<1>15. ASSUME NEW c \in Client, Kill(c) PROVE Private'
  BY <1>15 DEF Kill, Goto, IInv, TypeOK, ClientTypes, ObjTypes, Private,
    ClientOK
<1>16. ASSUME NEW c \in Client, Bury(c) PROVE Private'
  BY <1>16 DEF Bury, Goto, IInv, TypeOK, ClientTypes, ObjTypes, Private,
    ClientOK
<1>17. ASSUME NEW c \in Client, BuryFaults(c) PROVE Private'
  BY <1>17 DEF BuryFaults, Crash, IInv, TypeOK, ClientTypes, ObjTypes,
    Private, ClientOK
<1>18. ASSUME NEW c \in Client, Mark(c) PROVE Private'
  BY <1>18 DEF Mark, Goto, IInv, TypeOK, ClientTypes, ObjTypes, Private,
    ClientOK
<1>19. ASSUME NEW c \in Client, Replace(c) PROVE Private'
  <2>1. PICK o \in Obj : o = mine[c]
    BY <1>19, NilAssumption DEF Replace, IInv, ClientOK, TypeOK, ClientTypes,
      Ptr
  <2>2. \A p \in Obj : p # o => status'[p] = status[p]
    BY <1>19, <2>1 DEF Replace, StoredObj, Destroy, IInv, TypeOK, ObjTypes
  <2>3. mine' = [mine EXCEPT ![c] = Nil]
    BY <1>19 DEF Replace
  <2> QED BY <2>1, <2>2, <2>3 DEF IInv, TypeOK, ClientTypes, Ptr, Private
<1>20. ASSUME NEW c \in Client, Rate(c) PROVE Private'
  BY <1>20 DEF Rate, Goto, IInv, TypeOK, ClientTypes, ObjTypes, Private,
    ClientOK
<1>21. ASSUME NEW c \in Client, Release(c) PROVE Private'
  BY <1>21 DEF Release, Goto, IInv, TypeOK, ClientTypes, ObjTypes, Private,
    ClientOK
<1>22. ASSUME NEW c \in Client, Unlock(c) PROVE Private'
  BY <1>22 DEF Unlock, Goto, IInv, TypeOK, ClientTypes, ObjTypes, Private,
    ClientOK
<1>23. ASSUME NEW c \in Client, Forget(c) PROVE Private'
  <2>1. mine' = [mine EXCEPT ![c] = Nil]
    BY <1>23 DEF Forget
  <2>2. \A p \in Obj : p # mine[c] => status'[p] = status[p]
    BY <1>23 DEF Forget, IInv, TypeOK, ObjTypes
  <2> QED BY <2>1, <2>2 DEF IInv, TypeOK, ClientTypes, Ptr, Private
<1>24. ASSUME ReadSizes PROVE Private'
  BY <1>24 DEF ReadSizes, IInv, TypeOK, ClientTypes, ObjTypes, Private,
    ClientOK
<1>25. ASSUME EnterDelete PROVE Private'
  BY <1>25 DEF EnterDelete, IInv, TypeOK, ClientTypes, ObjTypes, Private,
    ClientOK
<1>26. ASSUME DeleteEnd PROVE Private'
  BY <1>26 DEF DeleteEnd, LeaveDelete, NoSection, IInv, TypeOK, ClientTypes,
    ObjTypes, Private, ClientOK
<1>27. ASSUME DeleteStep PROVE Private'
  BY <1>27 DEF DeleteStep, SwapOut, LeaveDelete, NoSection, IInv, TypeOK,
    ClientTypes, ObjTypes, Private, ClientOK
<1>28. ASSUME EnterClean PROVE Private'
  BY <1>28 DEF EnterClean, IInv, TypeOK, ClientTypes, ObjTypes, Private,
    ClientOK
<1>29. ASSUME SkipClean PROVE Private'
  BY <1>29 DEF SkipClean, IdleTick, IInv, TypeOK, ClientTypes, ObjTypes,
    Private, ClientOK
<1>30. ASSUME CleanDrop PROVE Private'
  <2>1. PICK o \in Obj : o = l.dhead
    BY <1>30 DEF CleanDrop, IInv, TypeOK, ListTypes, ListType, Ptr
  <2>2. status[o] = "hashed"
    BY <1>30, <2>1, FirstIsCached DEF CleanDrop
  <2>3. UNCHANGED mine /\ status' = [status EXCEPT ![o] = "free"]
    BY <1>30, <2>1 DEF CleanDrop, Destroy
  <2> QED BY <2>2, <2>3 DEF IInv, TypeOK, ClientTypes, ObjTypes, Ptr, Private
<1>31. ASSUME CleanKeep PROVE Private'
  BY <1>31 DEF CleanKeep, IInv, TypeOK, ClientTypes, ObjTypes, Private,
    ClientOK
<1>32. ASSUME CleanEnd PROVE Private'
  BY <1>32 DEF CleanEnd, NoSection, IdleTick, IInv, TypeOK, ClientTypes,
    ObjTypes, Private, ClientOK
<1>33. ASSUME Booted PROVE Private'
  BY <1>33 DEF Booted, IInv, TypeOK, ClientTypes, ObjTypes, Private, ClientOK
<1>34. ASSUME NEW o \in Obj, NEW u \in Url, NEW s \in Sizes, Restore(o, u, s)
      PROVE  Private'
  BY <1>34 DEF Restore, IInv, TypeOK, ClientTypes, ObjTypes, Private, ClientOK
<1>35. ASSUME Shutdown PROVE Private'
  BY <1>35 DEF Shutdown, IInv, TypeOK, ClientTypes, ObjTypes, Private,
    ClientOK
<1>36. ASSUME EnterSaveAll PROVE Private'
  BY <1>36 DEF EnterSaveAll, IInv, TypeOK, ClientTypes, ObjTypes, Private,
    ClientOK
<1>37. ASSUME SaveIndexAndExit PROVE Private'
  BY <1>37 DEF SaveIndexAndExit, IInv, TypeOK, ClientTypes, ObjTypes, Private,
    ClientOK
<1>38. ASSUME Ended PROVE Private'
  BY <1>38 DEF Ended, vars, IInv, TypeOK, ClientTypes, ObjTypes, Private,
    ClientOK
<1>39. CASE UNCHANGED vars
  BY <1>39 DEF vars, IInv, TypeOK, ClientTypes, ObjTypes, Private, ClientOK
<1> HIDE DEF objVars, sizeVars, listVars, cliVars, gcVars
<1> QED
  BY <1>1, <1>2, <1>3, <1>4, <1>5, <1>6, <1>7, <1>8, <1>9, <1>10, <1>11,
    <1>12, <1>13, <1>14, <1>15, <1>16, <1>17, <1>18, <1>19, <1>20, <1>21,
    <1>22, <1>23, <1>24, <1>25, <1>26, <1>27, <1>28, <1>29, <1>30, <1>31,
    <1>32, <1>33, <1>34, <1>35, <1>36, <1>37, <1>38, <1>39 DEF Next, Request,
    Work, Collect, Boot, Stop

-----------------------------------------------------------------------------
(* References left behind                                                  *)

(* Every step keeps the references left behind on cached objects.          *)
LEMMA LeakedStep ==
  ASSUME IInv(Nat), [Next]_vars
  PROVE  LeakedIsCached'
<1> USE DEF objVars, sizeVars, listVars, cliVars, gcVars
<1>1. ASSUME NEW c \in Client, NEW u \in Url, LocateHit(c, u)
      PROVE  LeakedIsCached'
  BY <1>1 DEF LocateHit, TakeRef, Goto, Cached, Live, IInv, TypeOK, ObjTypes,
    LeakedIsCached
<1>2. ASSUME NEW c \in Client, NEW u \in Url, LocateNew(c, u)
      PROVE  LeakedIsCached'
  BY <1>2 DEF LocateNew, Allocate, Goto, IInv, TypeOK, ObjTypes,
    LeakedIsCached
<1>3. ASSUME NEW c \in Client, NEW u \in Url, LocateOnlyIfCached(c, u)
      PROVE  LeakedIsCached'
  <2>1. UNCHANGED leaked /\ \A p \in Obj : status[p] = "hashed" => status'[p] = "hashed"
    BY <1>3 DEF LocateOnlyIfCached, TakeRef, Allocate, IInv, TypeOK, ObjTypes
  <2> QED BY <2>1 DEF IInv, LeakedIsCached
<1>4. ASSUME NEW c \in Client, RefuseFatboy(c) PROVE LeakedIsCached'
  <2>1. PICK o \in Obj : o = mine[c] /\ status[o] = "private"
    BY <1>4, NilAssumption DEF RefuseFatboy, IInv, ClientOK, TypeOK,
      ClientTypes, Ptr, Private
  <2>2. \A p \in Obj : p # o => status'[p] = status[p]
    BY <1>4, <2>1 DEF RefuseFatboy, StoredObj, Destroy, IInv, TypeOK, ObjTypes
  <2>3. leaked[o] = 0 /\ UNCHANGED leaked
    BY <1>4, <2>1, PrivateIsFree DEF RefuseFatboy, StoredObj, Destroy
  <2> QED BY <2>2, <2>3 DEF IInv, LeakedIsCached
<1>5. ASSUME NEW c \in Client, NEW s \in Sizes, NEW d \in BOOLEAN, FetchDone(c, s, d)
      PROVE  LeakedIsCached'
  BY <1>5 DEF FetchDone, Filled, Goto, IInv, TypeOK, ObjTypes, LeakedIsCached
<1>6. ASSUME NEW c \in Client, FetchFails(c) PROVE LeakedIsCached'
  <2>1. PICK o \in Obj : o = mine[c] /\ status[o] = "private"
    BY <1>6, NilAssumption DEF FetchFails, IInv, ClientOK, TypeOK, ClientTypes,
      Ptr, Private
  <2>2. \A p \in Obj : p # o => status'[p] = status[p]
    BY <1>6, <2>1 DEF FetchFails, StoredObj, Destroy, IInv, TypeOK, ObjTypes
  <2>3. leaked[o] = 0 /\ UNCHANGED leaked
    BY <1>6, <2>1, PrivateIsFree DEF FetchFails, StoredObj, Destroy
  <2> QED BY <2>2, <2>3 DEF IInv, LeakedIsCached
<1>7. ASSUME NEW c \in Client, Store(c) PROVE LeakedIsCached'
  <2>1. PICK o \in Obj : o = mine[c] /\ status[o] = "private"
    BY <1>7, NilAssumption DEF Store, IInv, ClientOK, TypeOK, ClientTypes, Ptr,
      Private
  <2>2. \A p \in Obj : p # o => status'[p] = status[p]
    BY <1>7, <2>1 DEF Store, StoredObj, Destroy, IInv, TypeOK, ObjTypes
  <2>3. leaked[o] = 0 /\ UNCHANGED leaked
    BY <1>7, <2>1, PrivateIsFree DEF Store, StoredObj, Destroy
  <2> QED BY <2>2, <2>3 DEF IInv, LeakedIsCached
<1>8. ASSUME NEW c \in Client, Serve(c) PROVE LeakedIsCached'
  BY <1>8 DEF Serve, Goto, IInv, TypeOK, ObjTypes, LeakedIsCached
<1>9. ASSUME NEW c \in Client, Revalidate(c) PROVE LeakedIsCached'
  BY <1>9 DEF Revalidate, Allocate, Goto, IInv, TypeOK, ObjTypes,
    LeakedIsCached
<1>10. ASSUME NEW c \in Client, NEW s \in Sizes, NEW d \in BOOLEAN, RevalidateOk(c, s, d)
      PROVE  LeakedIsCached'
  BY <1>10 DEF RevalidateOk, Filled, Goto, IInv, TypeOK, ObjTypes,
    LeakedIsCached
<1>11. ASSUME NEW c \in Client, RevalidateNotModified(c) PROVE LeakedIsCached'
  <2>1. PICK o \in Obj : o = mine[c] /\ status[o] = "private"
    BY <1>11, NilAssumption DEF RevalidateNotModified, IInv, ClientOK, TypeOK,
      ClientTypes, Ptr, Private
  <2>2. \A p \in Obj : p # o => status'[p] = status[p]
    BY <1>11, <2>1 DEF RevalidateNotModified, StoredObj, Destroy, IInv, TypeOK,
      ObjTypes
  <2>3. leaked[o] = 0 /\ UNCHANGED leaked
    BY <1>11, <2>1, PrivateIsFree DEF RevalidateNotModified, StoredObj, Destroy
  <2> QED BY <2>2, <2>3 DEF IInv, LeakedIsCached
<1>12. ASSUME NEW c \in Client, RevalidateFails(c) PROVE LeakedIsCached'
  <2>1. PICK o \in Obj : o = mine[c] /\ status[o] = "private"
    BY <1>12, NilAssumption DEF RevalidateFails, IInv, ClientOK, TypeOK,
      ClientTypes, Ptr, Private
  <2>2. \A p \in Obj : p # o => status'[p] = status[p]
    BY <1>12, <2>1 DEF RevalidateFails, StoredObj, Destroy, IInv, TypeOK,
      ObjTypes
  <2>3. leaked[o] = 0 /\ UNCHANGED leaked
    BY <1>12, <2>1, PrivateIsFree DEF RevalidateFails, StoredObj, Destroy
  <2> QED BY <2>2, <2>3 DEF IInv, LeakedIsCached
<1>13. ASSUME NEW c \in Client, SwapIn(c) PROVE LeakedIsCached'
  BY <1>13 DEF SwapIn, Goto, IInv, TypeOK, ObjTypes, LeakedIsCached
<1>14. ASSUME NEW c \in Client, Sent(c) PROVE LeakedIsCached'
  BY <1>14 DEF Sent, Goto, IInv, TypeOK, ObjTypes, LeakedIsCached
<1>15. ASSUME NEW c \in Client, Kill(c) PROVE LeakedIsCached'
  BY <1>15 DEF Kill, Goto, IInv, TypeOK, ObjTypes, LeakedIsCached
<1>16. ASSUME NEW c \in Client, Bury(c) PROVE LeakedIsCached'
  BY <1>16 DEF Bury, Goto, IInv, TypeOK, ObjTypes, LeakedIsCached
<1>17. ASSUME NEW c \in Client, BuryFaults(c) PROVE LeakedIsCached'
  BY <1>17 DEF BuryFaults, Crash, IInv, TypeOK, ObjTypes, LeakedIsCached
<1>18. ASSUME NEW c \in Client, Mark(c) PROVE LeakedIsCached'
  BY <1>18 DEF Mark, Goto, IInv, TypeOK, ObjTypes, LeakedIsCached
<1>19. ASSUME NEW c \in Client, Replace(c) PROVE LeakedIsCached'
  <2>1. PICK o \in Obj : o = mine[c] /\ status[o] = "private"
    BY <1>19, NilAssumption DEF Replace, IInv, ClientOK, TypeOK, ClientTypes,
      Ptr, Private
  <2>2. \A p \in Obj : p # o => status'[p] = status[p]
    BY <1>19, <2>1 DEF Replace, StoredObj, Destroy, IInv, TypeOK, ObjTypes
  <2>3. leaked[o] = 0 /\ UNCHANGED leaked
    BY <1>19, <2>1, PrivateIsFree DEF Replace, StoredObj, Destroy
  <2> QED BY <2>2, <2>3 DEF IInv, LeakedIsCached
<1>20. ASSUME NEW c \in Client, Rate(c) PROVE LeakedIsCached'
  BY <1>20 DEF Rate, Goto, IInv, TypeOK, ObjTypes, LeakedIsCached
<1>21. ASSUME NEW c \in Client, Release(c) PROVE LeakedIsCached'
  BY <1>21 DEF Release, Goto, IInv, TypeOK, ObjTypes, LeakedIsCached
<1>22. ASSUME NEW c \in Client, Unlock(c) PROVE LeakedIsCached'
  BY <1>22 DEF Unlock, Goto, IInv, TypeOK, ObjTypes, LeakedIsCached
<1>23. ASSUME NEW c \in Client, Forget(c) PROVE LeakedIsCached'
  <2>1. CASE held[c] = Nil
    <3>1. PICK o \in Obj : o = mine[c] /\ status[o] = "private"
      BY <1>23, <2>1, NilAssumption DEF Forget, IInv, ClientOK, TypeOK,
        ClientTypes, Ptr, Private
    <3>2. \A p \in Obj : p # o => status'[p] = status[p]
      BY <1>23, <3>1 DEF Forget, IInv, TypeOK, ObjTypes
    <3>3. leaked[o] = 0 /\ UNCHANGED leaked
      BY <1>23, <2>1, <3>1, PrivateIsFree DEF Forget
    <3> QED BY <3>2, <3>3 DEF IInv, LeakedIsCached
  <2>2. CASE held[c] # Nil
    <3>1. PICK o \in Obj : o = held[c] /\ c \in Holders(o)
      BY <1>23, <2>2 DEF Forget, IInv, TypeOK, ClientTypes, Ptr, Holders,
        HoldingPCs, AfterPCs
    <3>2. status[o] = "hashed"
      BY <3>1 DEF IInv, HeldIsCached
    <3>3. \A p \in Obj : p # o => leaked'[p] = leaked[p]
      BY <1>23, <2>2, <3>1 DEF Forget, IInv, TypeOK, ObjTypes
    <3>4. UNCHANGED status
      BY <1>23, <2>2 DEF Forget
    <3> QED BY <3>2, <3>3, <3>4 DEF IInv, LeakedIsCached
  <2> QED BY <2>1, <2>2
<1>24. ASSUME ReadSizes PROVE LeakedIsCached'
  BY <1>24 DEF ReadSizes, IInv, TypeOK, ObjTypes, LeakedIsCached
<1>25. ASSUME EnterDelete PROVE LeakedIsCached'
  BY <1>25 DEF EnterDelete, IInv, TypeOK, ObjTypes, LeakedIsCached
<1>26. ASSUME DeleteEnd PROVE LeakedIsCached'
  BY <1>26 DEF DeleteEnd, LeaveDelete, NoSection, IInv, TypeOK, ObjTypes,
    LeakedIsCached
<1>27. ASSUME DeleteStep PROVE LeakedIsCached'
  BY <1>27 DEF DeleteStep, SwapOut, LeaveDelete, NoSection, IInv, TypeOK,
    ObjTypes, LeakedIsCached
<1>28. ASSUME EnterClean PROVE LeakedIsCached'
  BY <1>28 DEF EnterClean, IInv, TypeOK, ObjTypes, LeakedIsCached
<1>29. ASSUME SkipClean PROVE LeakedIsCached'
  BY <1>29 DEF SkipClean, IdleTick, IInv, TypeOK, ObjTypes, LeakedIsCached
<1>30. ASSUME CleanDrop PROVE LeakedIsCached'
  <2>1. PICK o \in Obj : o = l.dhead
    BY <1>30 DEF CleanDrop, IInv, TypeOK, ListTypes, ListType, Ptr
  <2>2. Holders(o) = {} /\ leaked[o] = 0
    BY <1>30, <2>1, Holding DEF CleanDrop, Disposable
  <2>3. \A p \in Obj : p # o => status'[p] = status[p]
    BY <1>30, <2>1 DEF CleanDrop, Destroy, IInv, TypeOK, ObjTypes
  <2>4. UNCHANGED leaked
    BY <1>30 DEF CleanDrop, Destroy
  <2> QED BY <2>2, <2>3, <2>4 DEF IInv, LeakedIsCached
<1>31. ASSUME CleanKeep PROVE LeakedIsCached'
  BY <1>31 DEF CleanKeep, IInv, TypeOK, ObjTypes, LeakedIsCached
<1>32. ASSUME CleanEnd PROVE LeakedIsCached'
  BY <1>32 DEF CleanEnd, NoSection, IdleTick, IInv, TypeOK, ObjTypes,
    LeakedIsCached
<1>33. ASSUME Booted PROVE LeakedIsCached'
  BY <1>33 DEF Booted, IInv, TypeOK, ObjTypes, LeakedIsCached
<1>34. ASSUME NEW o \in Obj, NEW u \in Url, NEW s \in Sizes, Restore(o, u, s)
      PROVE  LeakedIsCached'
  BY <1>34 DEF Restore, IInv, TypeOK, ObjTypes, LeakedIsCached
<1>35. ASSUME Shutdown PROVE LeakedIsCached'
  BY <1>35 DEF Shutdown, IInv, TypeOK, ObjTypes, LeakedIsCached
<1>36. ASSUME EnterSaveAll PROVE LeakedIsCached'
  BY <1>36 DEF EnterSaveAll, IInv, TypeOK, ObjTypes, LeakedIsCached
<1>37. ASSUME SaveIndexAndExit PROVE LeakedIsCached'
  BY <1>37 DEF SaveIndexAndExit, IInv, TypeOK, ObjTypes, LeakedIsCached
<1>38. ASSUME Ended PROVE LeakedIsCached'
  BY <1>38 DEF Ended, vars, IInv, TypeOK, ObjTypes, LeakedIsCached
<1>39. CASE UNCHANGED vars
  BY <1>39 DEF vars, IInv, TypeOK, ObjTypes, LeakedIsCached
<1> HIDE DEF objVars, sizeVars, listVars, cliVars, gcVars
<1> QED
  BY <1>1, <1>2, <1>3, <1>4, <1>5, <1>6, <1>7, <1>8, <1>9, <1>10, <1>11,
    <1>12, <1>13, <1>14, <1>15, <1>16, <1>17, <1>18, <1>19, <1>20, <1>21,
    <1>22, <1>23, <1>24, <1>25, <1>26, <1>27, <1>28, <1>29, <1>30, <1>31,
    <1>32, <1>33, <1>34, <1>35, <1>36, <1>37, <1>38, <1>39 DEF Next, Request,
    Work, Collect, Boot, Stop

-----------------------------------------------------------------------------
(* Reference counts                                                        *)

(* Every step keeps the counts.                                            *)
LEMMA RefsStep ==
  ASSUME IInv(Nat), [Next]_vars
  PROVE  RefsCounted'
<1> USE DEF objVars, sizeVars, listVars, cliVars, gcVars
<1>1. ASSUME NEW c \in Client, NEW u \in Url, LocateHit(c, u)
      PROVE  RefsCounted'
  <2>1. PICK o \in Cached(u) : TakeRef(c, o)
    BY <1>1, NilAssumption DEF LocateHit
  <2>2. o \in Obj /\ held[c] = Nil /\ Goto(c, "hit") /\ UNCHANGED leaked
    BY <1>1, <2>1 DEF LocateHit, Cached, IInv, ClientOK, TakeRef
  <2>3. /\ Holders(o)' = Holders(o) \cup {c} /\ c \notin Holders(o)
        /\ \A q \in Obj : q # o => Holders(q)' = Holders(q)
    BY <2>1, <2>2, MoreHolders DEF TakeRef, HoldingPCs, IInv, TypeOK
  <2>4. Cardinality(Holders(o)') = Cardinality(Holders(o)) + 1
    BY <2>2, <2>3, Holding, FS_AddElement
  <2>5. refs' = [refs EXCEPT ![o] = refs[o] + 1]
    BY <2>1 DEF TakeRef
  <2>6. ASSUME NEW p \in Obj PROVE refs'[p] = Cardinality(Holders(p)') + leaked'[p]
    <3>1. refs[p] = Cardinality(Holders(p)) + leaked[p] /\ Cardinality(Holders(p)) \in Nat
      BY Holding DEF IInv, RefsCounted
    <3>2. CASE p = o
      BY <3>1, <3>2, <2>2, <2>3, <2>4, <2>5 DEF IInv, TypeOK, ObjTypes
    <3>3. CASE p # o
      <4>1. Holders(p)' = Holders(p)
        BY <3>3, <2>2, <2>3, <2>4, <2>5
      <4> QED BY <3>1, <3>3, <4>1, <2>2, <2>3, <2>4, <2>5 DEF IInv, TypeOK,
        ObjTypes
    <3> QED BY <3>2, <3>3
  <2> QED BY <2>6 DEF RefsCounted
<1>2. ASSUME NEW c \in Client, NEW u \in Url, LocateNew(c, u)
      PROVE  RefsCounted'
  BY <1>2, SameHolders DEF LocateNew, Allocate, Goto, IInv, TypeOK,
    ClientTypes, ObjTypes, RefsCounted, ClientOK, HoldingPCs, AfterPCs
<1>3. ASSUME NEW c \in Client, NEW u \in Url, LocateOnlyIfCached(c, u)
      PROVE  RefsCounted'
  <2>1. CASE (\E o \in Cached(u) : TakeRef(c, o)) /\ Goto(c, "swapin")
    <3>1. PICK o \in Cached(u) : TakeRef(c, o)
      BY <1>3, <2>1, NilAssumption DEF LocateOnlyIfCached
    <3>2. o \in Obj /\ held[c] = Nil /\ Goto(c, "swapin") /\ UNCHANGED leaked
      BY <1>3, <2>1, <3>1 DEF LocateOnlyIfCached, Cached, IInv, ClientOK,
        TakeRef
    <3>3. /\ Holders(o)' = Holders(o) \cup {c} /\ c \notin Holders(o)
          /\ \A q \in Obj : q # o => Holders(q)' = Holders(q)
      BY <3>1, <3>2, MoreHolders DEF TakeRef, HoldingPCs, IInv, TypeOK
    <3>4. Cardinality(Holders(o)') = Cardinality(Holders(o)) + 1
      BY <3>2, <3>3, Holding, FS_AddElement
    <3>5. refs' = [refs EXCEPT ![o] = refs[o] + 1]
      BY <3>1 DEF TakeRef
    <3>6. ASSUME NEW p \in Obj PROVE refs'[p] = Cardinality(Holders(p)') + leaked'[p]
      <4>1. refs[p] = Cardinality(Holders(p)) + leaked[p] /\ Cardinality(Holders(p)) \in Nat
        BY Holding DEF IInv, RefsCounted
      <4>2. CASE p = o
        BY <4>1, <4>2, <3>2, <3>3, <3>4, <3>5 DEF IInv, TypeOK, ObjTypes
      <4>3. CASE p # o
        <5>1. Holders(p)' = Holders(p)
          BY <4>3, <3>2, <3>3, <3>4, <3>5
        <5> QED BY <4>1, <4>3, <5>1, <3>2, <3>3, <3>4, <3>5 DEF IInv, TypeOK,
          ObjTypes
      <4> QED BY <4>2, <4>3
    <3> QED BY <3>6 DEF RefsCounted
  <2>2. CASE Goto(c, "sending") /\ UNCHANGED <<held, refs, leaked>>
    BY <1>3, <2>2, SameHolders DEF LocateOnlyIfCached, IInv, TypeOK, ClientOK,
      RefsCounted
  <2> QED BY <1>3, <2>1, <2>2 DEF LocateOnlyIfCached, Allocate
<1>4. ASSUME NEW c \in Client, RefuseFatboy(c) PROVE RefsCounted'
  BY <1>4, SameHolders DEF RefuseFatboy, Goto, IInv, TypeOK, ClientTypes,
    ObjTypes, RefsCounted, ClientOK, HoldingPCs, AfterPCs
<1>5. ASSUME NEW c \in Client, NEW s \in Sizes, NEW d \in BOOLEAN, FetchDone(c, s, d)
      PROVE  RefsCounted'
  BY <1>5, SameHolders DEF FetchDone, Filled, Goto, IInv, TypeOK, ClientTypes,
    ObjTypes, RefsCounted, ClientOK, HoldingPCs, AfterPCs
<1>6. ASSUME NEW c \in Client, FetchFails(c) PROVE RefsCounted'
  <2>1. PICK o \in Obj : o = mine[c] /\ status[o] = "private"
    BY <1>6, NilAssumption DEF FetchFails, IInv, ClientOK, TypeOK, ClientTypes,
      Ptr, Private
  <2>2. \A q \in Obj : Holders(q)' = Holders(q)
    BY <1>6, SameHolders DEF FetchFails, IInv, TypeOK, ClientOK, HoldingPCs,
      AfterPCs
  <2>3. Holders(o) = {} /\ leaked[o] = 0 /\ refs[o] = 0
    BY <2>1, PrivateIsFree
  <2>4. UNCHANGED leaked /\ (UNCHANGED refs \/ refs' = [refs EXCEPT ![o] = 0])
    BY <1>6, <2>1 DEF FetchFails, StoredObj, Destroy
  <2>5. \A q \in Obj : refs'[q] = refs[q] /\ leaked'[q] = leaked[q]
    BY <2>3, <2>4 DEF IInv, TypeOK, ObjTypes
  <2>6. ASSUME NEW p \in Obj PROVE refs'[p] = Cardinality(Holders(p)') + leaked'[p]
    <3>1. Holders(p)' = Holders(p)
      BY <2>2
    <3>2. refs[p] = Cardinality(Holders(p)) + leaked[p]
      BY DEF IInv, RefsCounted
    <3> QED BY <3>1, <3>2, <2>5
  <2> QED BY <2>6 DEF RefsCounted
<1>7. ASSUME NEW c \in Client, Store(c) PROVE RefsCounted'
  <2>1. PICK o \in Obj : o = mine[c] /\ status[o] = "private"
    BY <1>7, NilAssumption DEF Store, IInv, ClientOK, TypeOK, ClientTypes, Ptr,
      Private
  <2>2. \A q \in Obj : Holders(q)' = Holders(q)
    BY <1>7, SameHolders DEF Store, IInv, TypeOK, ClientOK, HoldingPCs,
      AfterPCs
  <2>3. Holders(o) = {} /\ leaked[o] = 0 /\ refs[o] = 0
    BY <2>1, PrivateIsFree
  <2>4. UNCHANGED leaked /\ (UNCHANGED refs \/ refs' = [refs EXCEPT ![o] = 0])
    BY <1>7, <2>1 DEF Store, StoredObj, Destroy
  <2>5. \A q \in Obj : refs'[q] = refs[q] /\ leaked'[q] = leaked[q]
    BY <2>3, <2>4 DEF IInv, TypeOK, ObjTypes
  <2>6. ASSUME NEW p \in Obj PROVE refs'[p] = Cardinality(Holders(p)') + leaked'[p]
    <3>1. Holders(p)' = Holders(p)
      BY <2>2
    <3>2. refs[p] = Cardinality(Holders(p)) + leaked[p]
      BY DEF IInv, RefsCounted
    <3> QED BY <3>1, <3>2, <2>5
  <2> QED BY <2>6 DEF RefsCounted
<1>8. ASSUME NEW c \in Client, Serve(c) PROVE RefsCounted'
  BY <1>8, SameHolders DEF Serve, Goto, IInv, TypeOK, ClientTypes, ObjTypes,
    RefsCounted, ClientOK, HoldingPCs, AfterPCs
<1>9. ASSUME NEW c \in Client, Revalidate(c) PROVE RefsCounted'
  BY <1>9, SameHolders DEF Revalidate, Allocate, Goto, IInv, TypeOK,
    ClientTypes, ObjTypes, RefsCounted, ClientOK, HoldingPCs, AfterPCs
<1>10. ASSUME NEW c \in Client, NEW s \in Sizes, NEW d \in BOOLEAN, RevalidateOk(c, s, d)
      PROVE  RefsCounted'
  BY <1>10, SameHolders DEF RevalidateOk, Filled, Goto, IInv, TypeOK,
    ClientTypes, ObjTypes, RefsCounted, ClientOK, HoldingPCs, AfterPCs
<1>11. ASSUME NEW c \in Client, RevalidateNotModified(c) PROVE RefsCounted'
  <2>1. PICK o \in Obj : o = mine[c] /\ status[o] = "private"
    BY <1>11, NilAssumption DEF RevalidateNotModified, IInv, ClientOK, TypeOK,
      ClientTypes, Ptr, Private
  <2>2. \A q \in Obj : Holders(q)' = Holders(q)
    BY <1>11, SameHolders DEF RevalidateNotModified, IInv, TypeOK, ClientOK,
      HoldingPCs, AfterPCs
  <2>3. Holders(o) = {} /\ leaked[o] = 0 /\ refs[o] = 0
    BY <2>1, PrivateIsFree
  <2>4. UNCHANGED leaked /\ (UNCHANGED refs \/ refs' = [refs EXCEPT ![o] = 0])
    BY <1>11, <2>1 DEF RevalidateNotModified, StoredObj, Destroy
  <2>5. \A q \in Obj : refs'[q] = refs[q] /\ leaked'[q] = leaked[q]
    BY <2>3, <2>4 DEF IInv, TypeOK, ObjTypes
  <2>6. ASSUME NEW p \in Obj PROVE refs'[p] = Cardinality(Holders(p)') + leaked'[p]
    <3>1. Holders(p)' = Holders(p)
      BY <2>2
    <3>2. refs[p] = Cardinality(Holders(p)) + leaked[p]
      BY DEF IInv, RefsCounted
    <3> QED BY <3>1, <3>2, <2>5
  <2> QED BY <2>6 DEF RefsCounted
<1>12. ASSUME NEW c \in Client, RevalidateFails(c) PROVE RefsCounted'
  <2>1. PICK o \in Obj : o = mine[c] /\ status[o] = "private"
    BY <1>12, NilAssumption DEF RevalidateFails, IInv, ClientOK, TypeOK,
      ClientTypes, Ptr, Private
  <2>2. \A q \in Obj : Holders(q)' = Holders(q)
    BY <1>12, SameHolders DEF RevalidateFails, IInv, TypeOK, ClientOK,
      HoldingPCs, AfterPCs
  <2>3. Holders(o) = {} /\ leaked[o] = 0 /\ refs[o] = 0
    BY <2>1, PrivateIsFree
  <2>4. UNCHANGED leaked /\ (UNCHANGED refs \/ refs' = [refs EXCEPT ![o] = 0])
    BY <1>12, <2>1 DEF RevalidateFails, StoredObj, Destroy
  <2>5. \A q \in Obj : refs'[q] = refs[q] /\ leaked'[q] = leaked[q]
    BY <2>3, <2>4 DEF IInv, TypeOK, ObjTypes
  <2>6. ASSUME NEW p \in Obj PROVE refs'[p] = Cardinality(Holders(p)') + leaked'[p]
    <3>1. Holders(p)' = Holders(p)
      BY <2>2
    <3>2. refs[p] = Cardinality(Holders(p)) + leaked[p]
      BY DEF IInv, RefsCounted
    <3> QED BY <3>1, <3>2, <2>5
  <2> QED BY <2>6 DEF RefsCounted
<1>13. ASSUME NEW c \in Client, SwapIn(c) PROVE RefsCounted'
  BY <1>13, SameHolders DEF SwapIn, Goto, IInv, TypeOK, ClientTypes, ObjTypes,
    RefsCounted, ClientOK, HoldingPCs, AfterPCs
<1>14. ASSUME NEW c \in Client, Sent(c) PROVE RefsCounted'
  BY <1>14, SameHolders DEF Sent, Goto, IInv, TypeOK, ClientTypes, ObjTypes,
    RefsCounted, ClientOK, HoldingPCs, AfterPCs
<1>15. ASSUME NEW c \in Client, Kill(c) PROVE RefsCounted'
  BY <1>15, SameHolders DEF Kill, Goto, IInv, TypeOK, ClientTypes, ObjTypes,
    RefsCounted, ClientOK, HoldingPCs, AfterPCs
<1>16. ASSUME NEW c \in Client, Bury(c) PROVE RefsCounted'
  BY <1>16, SameHolders DEF Bury, Goto, IInv, TypeOK, ClientTypes, ObjTypes,
    RefsCounted, ClientOK, HoldingPCs, AfterPCs
<1>17. ASSUME NEW c \in Client, BuryFaults(c) PROVE RefsCounted'
  BY <1>17, IdleHolders DEF BuryFaults, Crash, IInv, TypeOK, ClientTypes,
    ObjTypes, RefsCounted
<1>18. ASSUME NEW c \in Client, Mark(c) PROVE RefsCounted'
  BY <1>18, SameHolders DEF Mark, Goto, IInv, TypeOK, ClientTypes, ObjTypes,
    RefsCounted, ClientOK, HoldingPCs, AfterPCs
<1>19. ASSUME NEW c \in Client, Replace(c) PROVE RefsCounted'
  <2>1. PICK o \in Obj : o = mine[c] /\ status[o] = "private"
    BY <1>19, NilAssumption DEF Replace, IInv, ClientOK, TypeOK, ClientTypes,
      Ptr, Private
  <2>2. \A q \in Obj : Holders(q)' = Holders(q)
    BY <1>19, SameHolders DEF Replace, IInv, TypeOK, ClientOK, HoldingPCs,
      AfterPCs
  <2>3. Holders(o) = {} /\ leaked[o] = 0 /\ refs[o] = 0
    BY <2>1, PrivateIsFree
  <2>4. UNCHANGED leaked /\ (UNCHANGED refs \/ refs' = [refs EXCEPT ![o] = 0])
    BY <1>19, <2>1 DEF Replace, StoredObj, Destroy
  <2>5. \A q \in Obj : refs'[q] = refs[q] /\ leaked'[q] = leaked[q]
    BY <2>3, <2>4 DEF IInv, TypeOK, ObjTypes
  <2>6. ASSUME NEW p \in Obj PROVE refs'[p] = Cardinality(Holders(p)') + leaked'[p]
    <3>1. Holders(p)' = Holders(p)
      BY <2>2
    <3>2. refs[p] = Cardinality(Holders(p)) + leaked[p]
      BY DEF IInv, RefsCounted
    <3> QED BY <3>1, <3>2, <2>5
  <2> QED BY <2>6 DEF RefsCounted
<1>20. ASSUME NEW c \in Client, Rate(c) PROVE RefsCounted'
  BY <1>20, SameHolders DEF Rate, Goto, IInv, TypeOK, ClientTypes, ObjTypes,
    RefsCounted, ClientOK, HoldingPCs, AfterPCs
<1>21. ASSUME NEW c \in Client, Release(c) PROVE RefsCounted'
  <2>1. held[c] \in Obj
    BY <1>21, NilAssumption DEF Release, IInv, ClientOK, TypeOK, ClientTypes,
      Ptr, HoldingPCs, AfterPCs
  <2>2. PICK q \in Obj : q = held[c]
    BY <2>1
  <2>3. /\ Holders(q)' = Holders(q) \ {c} /\ c \in Holders(q)
        /\ \A p \in Obj : p # q => Holders(p)' = Holders(p)
    BY <1>21, <2>2, FewerHolders DEF Release, HoldingPCs, AfterPCs, IInv,
      TypeOK, ClientTypes
  <2>4. Cardinality(Holders(q)') = Cardinality(Holders(q)) - 1
    BY <2>3, Holding, FS_RemoveElement
  <2>5. refs' = [refs EXCEPT ![q] = refs[q] - 1] /\ UNCHANGED leaked
    BY <1>21, <2>2 DEF Release
  <2>6. ASSUME NEW p \in Obj PROVE refs'[p] = Cardinality(Holders(p)') + leaked'[p]
    <3>1. refs[p] = Cardinality(Holders(p)) + leaked[p] /\ Cardinality(Holders(p)) \in Nat
      BY Holding DEF IInv, RefsCounted
    <3>2. CASE p = q
      BY <3>1, <3>2, <2>3, <2>4, <2>5 DEF IInv, TypeOK, ObjTypes
    <3>3. CASE p # q
      <4>1. Holders(p)' = Holders(p)
        BY <3>3, <2>3, <2>4, <2>5
      <4> QED BY <3>1, <3>3, <4>1, <2>3, <2>4, <2>5 DEF IInv, TypeOK, ObjTypes
    <3> QED BY <3>2, <3>3
  <2> QED BY <2>6 DEF RefsCounted
<1>22. ASSUME NEW c \in Client, Unlock(c) PROVE RefsCounted'
  BY <1>22 DEF Unlock, Goto, IInv, TypeOK, ClientTypes, ObjTypes, RefsCounted,
    ClientOK, HoldingPCs, AfterPCs, Holders
<1>23. ASSUME NEW c \in Client, Forget(c) PROVE RefsCounted'
  <2>1. CASE held[c] = Nil
    <3>1. UNCHANGED <<held, refs, leaked>>
      BY <1>23, <2>1 DEF Forget, IInv, TypeOK, ClientTypes
    <3> QED BY <1>23, <2>1, <3>1, SameHolders DEF Forget, IInv, TypeOK,
      RefsCounted
  <2>2. CASE held[c] # Nil
    <3>1. PICK q \in Obj : q = held[c]
      BY <2>2 DEF IInv, TypeOK, ClientTypes, Ptr
    <3>2. held' \in [Client -> Ptr] /\ \A d \in Client : d # c => held'[d] = held[d]
      BY <1>23 DEF Forget, IInv, TypeOK, ClientTypes, Ptr
    <3>3. /\ Holders(q)' = Holders(q) \ {c} /\ c \in Holders(q)
          /\ \A p \in Obj : p # q => Holders(p)' = Holders(p)
      BY <1>23, <3>1, <3>2, FewerHolders DEF Forget, HoldingPCs, AfterPCs,
        IInv, TypeOK
    <3>4. Cardinality(Holders(q)') = Cardinality(Holders(q)) - 1
      BY <3>3, Holding, FS_RemoveElement
    <3>5. leaked' = [leaked EXCEPT ![q] = leaked[q] + 1] /\ UNCHANGED refs
      BY <1>23, <2>2, <3>1 DEF Forget
    <3>6. ASSUME NEW p \in Obj PROVE refs'[p] = Cardinality(Holders(p)') + leaked'[p]
      <4>1. refs[p] = Cardinality(Holders(p)) + leaked[p] /\ Cardinality(Holders(p)) \in Nat
        BY Holding DEF IInv, RefsCounted
      <4>2. CASE p = q
        BY <4>1, <4>2, <3>3, <3>4, <3>5 DEF IInv, TypeOK, ObjTypes
      <4>3. CASE p # q
        <5>1. Holders(p)' = Holders(p)
          BY <4>3, <3>3, <3>4, <3>5
        <5> QED BY <4>1, <4>3, <5>1, <3>3, <3>4, <3>5 DEF IInv, TypeOK,
          ObjTypes
      <4> QED BY <4>2, <4>3
    <3> QED BY <3>6 DEF RefsCounted
  <2> QED BY <2>1, <2>2
<1>24. ASSUME ReadSizes PROVE RefsCounted'
  BY <1>24, IdleHolders DEF ReadSizes, IInv, TypeOK, ClientTypes, ObjTypes,
    RefsCounted
<1>25. ASSUME EnterDelete PROVE RefsCounted'
  BY <1>25, IdleHolders DEF EnterDelete, IInv, TypeOK, ClientTypes, ObjTypes,
    RefsCounted
<1>26. ASSUME DeleteEnd PROVE RefsCounted'
  BY <1>26, IdleHolders DEF DeleteEnd, LeaveDelete, NoSection, IInv, TypeOK,
    ClientTypes, ObjTypes, RefsCounted
<1>27. ASSUME DeleteStep PROVE RefsCounted'
  BY <1>27, IdleHolders DEF DeleteStep, SwapOut, LeaveDelete, NoSection, IInv,
    TypeOK, ClientTypes, ObjTypes, RefsCounted
<1>28. ASSUME EnterClean PROVE RefsCounted'
  BY <1>28, IdleHolders DEF EnterClean, IInv, TypeOK, ClientTypes, ObjTypes,
    RefsCounted
<1>29. ASSUME SkipClean PROVE RefsCounted'
  BY <1>29, IdleHolders DEF SkipClean, IdleTick, IInv, TypeOK, ClientTypes,
    ObjTypes, RefsCounted
<1>30. ASSUME CleanDrop PROVE RefsCounted'
  <2>1. PICK o \in Obj : o = l.dhead
    BY <1>30 DEF CleanDrop, IInv, TypeOK, ListTypes, ListType, Ptr
  <2>3. Holders(o) = {} /\ leaked[o] = 0 /\ refs[o] = 0
    BY <1>30, <2>1, Holding DEF CleanDrop, Disposable
  <2>4. refs' = [refs EXCEPT ![o] = 0] /\ UNCHANGED leaked
    BY <1>30, <2>1 DEF CleanDrop, Destroy
  <2>2. \A q \in Obj : Holders(q)' = Holders(q)
    BY <1>30, IdleHolders DEF CleanDrop
  <2>5. \A q \in Obj : refs'[q] = refs[q] /\ leaked'[q] = leaked[q]
    BY <2>3, <2>4 DEF IInv, TypeOK, ObjTypes
  <2>6. ASSUME NEW p \in Obj PROVE refs'[p] = Cardinality(Holders(p)') + leaked'[p]
    <3>1. Holders(p)' = Holders(p)
      BY <2>2
    <3>2. refs[p] = Cardinality(Holders(p)) + leaked[p]
      BY DEF IInv, RefsCounted
    <3> QED BY <3>1, <3>2, <2>5
  <2> QED BY <2>6 DEF RefsCounted
<1>31. ASSUME CleanKeep PROVE RefsCounted'
  BY <1>31, IdleHolders DEF CleanKeep, IInv, TypeOK, ClientTypes, ObjTypes,
    RefsCounted
<1>32. ASSUME CleanEnd PROVE RefsCounted'
  BY <1>32, IdleHolders DEF CleanEnd, NoSection, IdleTick, IInv, TypeOK,
    ClientTypes, ObjTypes, RefsCounted
<1>33. ASSUME Booted PROVE RefsCounted'
  BY <1>33, IdleHolders DEF Booted, IInv, TypeOK, ClientTypes, ObjTypes,
    RefsCounted
<1>34. ASSUME NEW o \in Obj, NEW u \in Url, NEW s \in Sizes, Restore(o, u, s)
      PROVE  RefsCounted'
  BY <1>34, IdleHolders DEF Restore, IInv, TypeOK, ClientTypes, ObjTypes,
    RefsCounted
<1>35. ASSUME Shutdown PROVE RefsCounted'
  BY <1>35, IdleHolders DEF Shutdown, IInv, TypeOK, ClientTypes, ObjTypes,
    RefsCounted
<1>36. ASSUME EnterSaveAll PROVE RefsCounted'
  BY <1>36, IdleHolders DEF EnterSaveAll, IInv, TypeOK, ClientTypes, ObjTypes,
    RefsCounted
<1>37. ASSUME SaveIndexAndExit PROVE RefsCounted'
  BY <1>37, IdleHolders DEF SaveIndexAndExit, IInv, TypeOK, ClientTypes,
    ObjTypes, RefsCounted
<1>38. ASSUME Ended PROVE RefsCounted'
  BY <1>38, IdleHolders DEF Ended, vars, IInv, TypeOK, ClientTypes, ObjTypes,
    RefsCounted
<1>39. CASE UNCHANGED vars
  BY IdleHolders, <1>39 DEF vars, IInv, TypeOK, ClientTypes, ObjTypes,
    RefsCounted
<1> HIDE DEF objVars, sizeVars, listVars, cliVars, gcVars
<1> QED
  BY <1>1, <1>2, <1>3, <1>4, <1>5, <1>6, <1>7, <1>8, <1>9, <1>10, <1>11,
    <1>12, <1>13, <1>14, <1>15, <1>16, <1>17, <1>18, <1>19, <1>20, <1>21,
    <1>22, <1>23, <1>24, <1>25, <1>26, <1>27, <1>28, <1>29, <1>30, <1>31,
    <1>32, <1>33, <1>34, <1>35, <1>36, <1>37, <1>38, <1>39 DEF Next, Request,
    Work, Collect, Boot, Stop

-----------------------------------------------------------------------------
(* Objects in use                                                          *)

(* Every step keeps the objects in use cached.                             *)
LEMMA HeldStep ==
  ASSUME IInv(Nat), [Next]_vars
  PROVE  HeldIsCached'
<1> USE DEF objVars, sizeVars, listVars, cliVars, gcVars
<1>1. ASSUME NEW c \in Client, NEW u \in Url, LocateHit(c, u)
      PROVE  HeldIsCached'
  <2>1. PICK o \in Cached(u) : TakeRef(c, o)
    BY <1>1 DEF LocateHit
  <2>2. o \in Obj /\ status[o] = "hashed" /\ held[c] = Nil /\ Goto(c, "hit")
    BY <1>1, <2>1 DEF LocateHit, Cached, Live, IInv, ClientOK
  <2>3. \A q \in Obj : q # o => Holders(q)' = Holders(q)
    BY <2>1, <2>2, MoreHolders DEF TakeRef, HoldingPCs, IInv, TypeOK
  <2>4. UNCHANGED status
    BY <2>1 DEF TakeRef
  <2> QED BY <2>2, <2>3, <2>4 DEF IInv, HeldIsCached
<1>2. ASSUME NEW c \in Client, NEW u \in Url, LocateNew(c, u)
      PROVE  HeldIsCached'
  <2>1. \A p \in Obj : Holders(p)' = Holders(p)
    BY <1>2, SameHolders DEF LocateNew, IInv, TypeOK, ClientTypes, ClientOK,
      HoldingPCs, AfterPCs
  <2>2. \A p \in Obj : status[p] = "hashed" => status'[p] = "hashed"
    BY <1>2 DEF LocateNew, Allocate, IInv, TypeOK, ObjTypes
  <2> QED BY <2>1, <2>2 DEF IInv, HeldIsCached
<1>3. ASSUME NEW c \in Client, NEW u \in Url, LocateOnlyIfCached(c, u)
      PROVE  HeldIsCached'
  <2>1. CASE (\E o \in Cached(u) : TakeRef(c, o)) /\ Goto(c, "swapin")
    <3>1. PICK o \in Cached(u) : TakeRef(c, o)
      BY <2>1
    <3>2. o \in Obj /\ status[o] = "hashed" /\ held[c] = Nil
      BY <1>3, <3>1 DEF LocateOnlyIfCached, Cached, Live, IInv, ClientOK
    <3>3. \A q \in Obj : q # o => Holders(q)' = Holders(q)
      BY <2>1, <3>1, <3>2, MoreHolders, ZenonT(60) DEF TakeRef, HoldingPCs, IInv, TypeOK
    <3>4. UNCHANGED status
      BY <3>1 DEF TakeRef
    <3> QED BY <3>2, <3>3, <3>4 DEF IInv, HeldIsCached
  <2>2. CASE (\E o \in Obj : Allocate(o, u)) /\ Goto(c, "sending") /\ UNCHANGED held
    <3>1. \A p \in Obj : Holders(p)' = Holders(p)
      BY <1>3, <2>2, SameHolders DEF LocateOnlyIfCached, IInv, TypeOK, ClientOK
    <3>2. \A p \in Obj : status[p] = "hashed" => status'[p] = "hashed"
      BY <2>2 DEF Allocate, IInv, TypeOK, ObjTypes
    <3> QED BY <3>1, <3>2 DEF IInv, HeldIsCached
  <2> QED BY <1>3, <2>1, <2>2 DEF LocateOnlyIfCached
<1>4. ASSUME NEW c \in Client, RefuseFatboy(c) PROVE HeldIsCached'
  <2>1. PICK o \in Obj : o = mine[c] /\ status[o] = "private"
    BY <1>4, NilAssumption DEF RefuseFatboy, IInv, ClientOK, TypeOK,
      ClientTypes, Ptr, Private
  <2>2. \A p \in Obj : p # o => status'[p] = status[p]
    BY <1>4, <2>1 DEF RefuseFatboy, StoredObj, Destroy, IInv, TypeOK, ObjTypes
  <2>3. \A p \in Obj : Holders(p)' = Holders(p)
    BY <1>4, SameHolders DEF RefuseFatboy, IInv, TypeOK, ClientTypes, ClientOK,
      HoldingPCs, AfterPCs
  <2>4. Holders(o) = {}
    BY <2>1, PrivateIsFree
  <2> QED BY <2>2, <2>3, <2>4 DEF IInv, HeldIsCached
<1>5. ASSUME NEW c \in Client, NEW s \in Sizes, NEW d \in BOOLEAN, FetchDone(c, s, d)
      PROVE  HeldIsCached'
  <2>1. \A p \in Obj : Holders(p)' = Holders(p)
    BY <1>5, SameHolders DEF FetchDone, IInv, TypeOK, ClientTypes, ClientOK,
      HoldingPCs, AfterPCs
  <2>2. \A p \in Obj : status[p] = "hashed" => status'[p] = "hashed"
    BY <1>5 DEF FetchDone, Filled, IInv, TypeOK, ObjTypes
  <2> QED BY <2>1, <2>2 DEF IInv, HeldIsCached
<1>6. ASSUME NEW c \in Client, FetchFails(c) PROVE HeldIsCached'
  <2>1. PICK o \in Obj : o = mine[c] /\ status[o] = "private"
    BY <1>6, NilAssumption DEF FetchFails, IInv, ClientOK, TypeOK, ClientTypes,
      Ptr, Private
  <2>2. \A p \in Obj : p # o => status'[p] = status[p]
    BY <1>6, <2>1 DEF FetchFails, StoredObj, Destroy, IInv, TypeOK, ObjTypes
  <2>3. \A p \in Obj : Holders(p)' = Holders(p)
    BY <1>6, SameHolders DEF FetchFails, IInv, TypeOK, ClientTypes, ClientOK,
      HoldingPCs, AfterPCs
  <2>4. Holders(o) = {}
    BY <2>1, PrivateIsFree
  <2> QED BY <2>2, <2>3, <2>4 DEF IInv, HeldIsCached
<1>7. ASSUME NEW c \in Client, Store(c) PROVE HeldIsCached'
  <2>1. PICK o \in Obj : o = mine[c] /\ status[o] = "private"
    BY <1>7, NilAssumption DEF Store, IInv, ClientOK, TypeOK, ClientTypes, Ptr,
      Private
  <2>2. \A p \in Obj : p # o => status'[p] = status[p]
    BY <1>7, <2>1 DEF Store, StoredObj, Destroy, IInv, TypeOK, ObjTypes
  <2>3. \A p \in Obj : Holders(p)' = Holders(p)
    BY <1>7, SameHolders DEF Store, IInv, TypeOK, ClientTypes, ClientOK,
      HoldingPCs, AfterPCs
  <2>4. Holders(o) = {}
    BY <2>1, PrivateIsFree
  <2> QED BY <2>2, <2>3, <2>4 DEF IInv, HeldIsCached
<1>8. ASSUME NEW c \in Client, Serve(c) PROVE HeldIsCached'
  <2>1. \A p \in Obj : Holders(p)' = Holders(p)
    BY <1>8, SameHolders DEF Serve, IInv, TypeOK, ClientTypes, ClientOK,
      HoldingPCs, AfterPCs
  <2>2. \A p \in Obj : status[p] = "hashed" => status'[p] = "hashed"
    BY <1>8 DEF Serve, IInv, TypeOK, ObjTypes
  <2> QED BY <2>1, <2>2 DEF IInv, HeldIsCached
<1>9. ASSUME NEW c \in Client, Revalidate(c) PROVE HeldIsCached'
  <2>1. \A p \in Obj : Holders(p)' = Holders(p)
    BY <1>9, SameHolders DEF Revalidate, IInv, TypeOK, ClientTypes, ClientOK,
      HoldingPCs, AfterPCs
  <2>2. \A p \in Obj : status[p] = "hashed" => status'[p] = "hashed"
    BY <1>9 DEF Revalidate, Allocate, IInv, TypeOK, ObjTypes
  <2> QED BY <2>1, <2>2 DEF IInv, HeldIsCached
<1>10. ASSUME NEW c \in Client, NEW s \in Sizes, NEW d \in BOOLEAN, RevalidateOk(c, s, d)
      PROVE  HeldIsCached'
  <2>1. \A p \in Obj : Holders(p)' = Holders(p)
    BY <1>10, SameHolders DEF RevalidateOk, IInv, TypeOK, ClientTypes,
      ClientOK, HoldingPCs, AfterPCs
  <2>2. \A p \in Obj : status[p] = "hashed" => status'[p] = "hashed"
    BY <1>10 DEF RevalidateOk, Filled, IInv, TypeOK, ObjTypes
  <2> QED BY <2>1, <2>2 DEF IInv, HeldIsCached
<1>11. ASSUME NEW c \in Client, RevalidateNotModified(c) PROVE HeldIsCached'
  <2>1. PICK o \in Obj : o = mine[c] /\ status[o] = "private"
    BY <1>11, NilAssumption DEF RevalidateNotModified, IInv, ClientOK, TypeOK,
      ClientTypes, Ptr, Private
  <2>2. \A p \in Obj : p # o => status'[p] = status[p]
    BY <1>11, <2>1 DEF RevalidateNotModified, StoredObj, Destroy, IInv, TypeOK,
      ObjTypes
  <2>3. \A p \in Obj : Holders(p)' = Holders(p)
    BY <1>11, SameHolders DEF RevalidateNotModified, IInv, TypeOK, ClientTypes,
      ClientOK, HoldingPCs, AfterPCs
  <2>4. Holders(o) = {}
    BY <2>1, PrivateIsFree
  <2> QED BY <2>2, <2>3, <2>4 DEF IInv, HeldIsCached
<1>12. ASSUME NEW c \in Client, RevalidateFails(c) PROVE HeldIsCached'
  <2>1. PICK o \in Obj : o = mine[c] /\ status[o] = "private"
    BY <1>12, NilAssumption DEF RevalidateFails, IInv, ClientOK, TypeOK,
      ClientTypes, Ptr, Private
  <2>2. \A p \in Obj : p # o => status'[p] = status[p]
    BY <1>12, <2>1 DEF RevalidateFails, StoredObj, Destroy, IInv, TypeOK,
      ObjTypes
  <2>3. \A p \in Obj : Holders(p)' = Holders(p)
    BY <1>12, SameHolders DEF RevalidateFails, IInv, TypeOK, ClientTypes,
      ClientOK, HoldingPCs, AfterPCs
  <2>4. Holders(o) = {}
    BY <2>1, PrivateIsFree
  <2> QED BY <2>2, <2>3, <2>4 DEF IInv, HeldIsCached
<1>13. ASSUME NEW c \in Client, SwapIn(c) PROVE HeldIsCached'
  <2>1. \A p \in Obj : Holders(p)' = Holders(p)
    BY <1>13, SameHolders DEF SwapIn, IInv, TypeOK, ClientTypes, ClientOK,
      HoldingPCs, AfterPCs
  <2>2. \A p \in Obj : status[p] = "hashed" => status'[p] = "hashed"
    BY <1>13 DEF SwapIn, IInv, TypeOK, ObjTypes
  <2> QED BY <2>1, <2>2 DEF IInv, HeldIsCached
<1>14. ASSUME NEW c \in Client, Sent(c) PROVE HeldIsCached'
  <2>1. \A p \in Obj : Holders(p)' = Holders(p)
    BY <1>14, SameHolders DEF Sent, IInv, TypeOK, ClientTypes, ClientOK,
      HoldingPCs, AfterPCs
  <2>2. \A p \in Obj : status[p] = "hashed" => status'[p] = "hashed"
    BY <1>14 DEF Sent, IInv, TypeOK, ObjTypes
  <2> QED BY <2>1, <2>2 DEF IInv, HeldIsCached
<1>15. ASSUME NEW c \in Client, Kill(c) PROVE HeldIsCached'
  <2>1. \A p \in Obj : Holders(p)' = Holders(p)
    BY <1>15, SameHolders DEF Kill, IInv, TypeOK, ClientTypes, ClientOK,
      HoldingPCs, AfterPCs
  <2>2. \A p \in Obj : status[p] = "hashed" => status'[p] = "hashed"
    BY <1>15 DEF Kill, IInv, TypeOK, ObjTypes
  <2> QED BY <2>1, <2>2 DEF IInv, HeldIsCached
<1>16. ASSUME NEW c \in Client, Bury(c) PROVE HeldIsCached'
  <2>1. \A p \in Obj : Holders(p)' = Holders(p)
    BY <1>16, SameHolders DEF Bury, IInv, TypeOK, ClientTypes, ClientOK,
      HoldingPCs, AfterPCs
  <2>2. \A p \in Obj : status[p] = "hashed" => status'[p] = "hashed"
    BY <1>16 DEF Bury, IInv, TypeOK, ObjTypes
  <2> QED BY <2>1, <2>2 DEF IInv, HeldIsCached
<1>17. ASSUME NEW c \in Client, BuryFaults(c) PROVE HeldIsCached'
  <2>1. \A p \in Obj : Holders(p)' = Holders(p)
    BY <1>17, IdleHolders DEF BuryFaults, Crash
  <2>2. \A p \in Obj : status[p] = "hashed" => status'[p] = "hashed"
    BY <1>17 DEF BuryFaults, Crash, IInv, TypeOK, ObjTypes
  <2> QED BY <2>1, <2>2 DEF IInv, HeldIsCached
<1>18. ASSUME NEW c \in Client, Mark(c) PROVE HeldIsCached'
  <2>1. \A p \in Obj : Holders(p)' = Holders(p)
    BY <1>18, SameHolders DEF Mark, IInv, TypeOK, ClientTypes, ClientOK,
      HoldingPCs, AfterPCs
  <2>2. \A p \in Obj : status[p] = "hashed" => status'[p] = "hashed"
    BY <1>18 DEF Mark, IInv, TypeOK, ObjTypes
  <2> QED BY <2>1, <2>2 DEF IInv, HeldIsCached
<1>19. ASSUME NEW c \in Client, Replace(c) PROVE HeldIsCached'
  <2>1. PICK o \in Obj : o = mine[c] /\ status[o] = "private"
    BY <1>19, NilAssumption DEF Replace, IInv, ClientOK, TypeOK, ClientTypes,
      Ptr, Private
  <2>2. \A p \in Obj : p # o => status'[p] = status[p]
    BY <1>19, <2>1 DEF Replace, StoredObj, Destroy, IInv, TypeOK, ObjTypes
  <2>3. \A p \in Obj : Holders(p)' = Holders(p)
    BY <1>19, SameHolders DEF Replace, IInv, TypeOK, ClientTypes, ClientOK,
      HoldingPCs, AfterPCs
  <2>4. Holders(o) = {}
    BY <2>1, PrivateIsFree
  <2> QED BY <2>2, <2>3, <2>4 DEF IInv, HeldIsCached
<1>20. ASSUME NEW c \in Client, Rate(c) PROVE HeldIsCached'
  <2>1. \A p \in Obj : Holders(p)' = Holders(p)
    BY <1>20, SameHolders DEF Rate, IInv, TypeOK, ClientTypes, ClientOK,
      HoldingPCs, AfterPCs
  <2>2. \A p \in Obj : status[p] = "hashed" => status'[p] = "hashed"
    BY <1>20 DEF Rate, IInv, TypeOK, ObjTypes
  <2> QED BY <2>1, <2>2 DEF IInv, HeldIsCached
<1>21. ASSUME NEW c \in Client, Release(c) PROVE HeldIsCached'
  <2>1. PICK o \in Obj : o = held[c] /\ c \in Holders(o)
    BY <1>21, NilAssumption DEF Release, IInv, ClientOK, TypeOK, ClientTypes,
      Ptr, Holders, HoldingPCs, AfterPCs
  <2>2. /\ Holders(o)' = Holders(o) \ {c}
        /\ \A q \in Obj : q # o => Holders(q)' = Holders(q)
    BY <1>21, <2>1, FewerHolders DEF Release, HoldingPCs, AfterPCs, IInv,
      TypeOK, ClientTypes
  <2>3. UNCHANGED status
    BY <1>21 DEF Release
  <2> QED BY <2>1, <2>2, <2>3 DEF IInv, HeldIsCached
<1>22. ASSUME NEW c \in Client, Unlock(c) PROVE HeldIsCached'
  <2>1. \A p \in Obj : Holders(p)' = Holders(p)
    BY <1>22 DEF Unlock, Goto, Holders, HoldingPCs, AfterPCs, IInv, TypeOK,
      ClientTypes
  <2>2. UNCHANGED status
    BY <1>22 DEF Unlock
  <2> QED BY <2>1, <2>2 DEF IInv, HeldIsCached
<1>23. ASSUME NEW c \in Client, Forget(c) PROVE HeldIsCached'
  <2>1. CASE held[c] = Nil
    <3>1. PICK o \in Obj : o = mine[c] /\ status[o] = "private"
      BY <1>23, <2>1, NilAssumption DEF Forget, IInv, ClientOK, TypeOK,
        ClientTypes, Ptr, Private
    <3>2. \A p \in Obj : p # o => status'[p] = status[p]
      BY <1>23, <2>1, <3>1 DEF Forget, IInv, TypeOK, ObjTypes
    <3>3. UNCHANGED held
      BY <1>23, <2>1 DEF Forget, IInv, TypeOK, ClientTypes
    <3>4. \A p \in Obj : Holders(p)' = Holders(p)
      BY <1>23, <2>1, <3>3, SameHolders DEF Forget, IInv, TypeOK
    <3>5. Holders(o) = {}
      BY <3>1, PrivateIsFree
    <3> QED BY <3>2, <3>4, <3>5 DEF IInv, HeldIsCached
  <2>2. CASE held[c] # Nil
    <3>1. PICK o \in Obj : o = held[c] /\ c \in Holders(o)
      BY <1>23, <2>2 DEF Forget, IInv, TypeOK, ClientTypes, Ptr, Holders,
        HoldingPCs, AfterPCs
    <3>2. held' \in [Client -> Ptr] /\ \A d \in Client : d # c => held'[d] = held[d]
      BY <1>23 DEF Forget, IInv, TypeOK, ClientTypes, Ptr
    <3>3. /\ Holders(o)' = Holders(o) \ {c}
          /\ \A q \in Obj : q # o => Holders(q)' = Holders(q)
      BY <1>23, <3>1, <3>2, FewerHolders DEF Forget, HoldingPCs, AfterPCs,
        IInv, TypeOK
    <3>4. UNCHANGED status
      BY <1>23, <2>2 DEF Forget
    <3> QED BY <3>1, <3>3, <3>4 DEF IInv, HeldIsCached
  <2> QED BY <2>1, <2>2
<1>24. ASSUME ReadSizes PROVE HeldIsCached'
  <2>1. \A p \in Obj : Holders(p)' = Holders(p)
    BY <1>24, IdleHolders DEF ReadSizes
  <2>2. \A p \in Obj : status[p] = "hashed" => status'[p] = "hashed"
    BY <1>24 DEF ReadSizes, IInv, TypeOK, ObjTypes
  <2> QED BY <2>1, <2>2 DEF IInv, HeldIsCached
<1>25. ASSUME EnterDelete PROVE HeldIsCached'
  <2>1. \A p \in Obj : Holders(p)' = Holders(p)
    BY <1>25, IdleHolders DEF EnterDelete
  <2>2. \A p \in Obj : status[p] = "hashed" => status'[p] = "hashed"
    BY <1>25 DEF EnterDelete, IInv, TypeOK, ObjTypes
  <2> QED BY <2>1, <2>2 DEF IInv, HeldIsCached
<1>26. ASSUME DeleteEnd PROVE HeldIsCached'
  <2>1. \A p \in Obj : Holders(p)' = Holders(p)
    BY <1>26, IdleHolders DEF DeleteEnd
  <2>2. \A p \in Obj : status[p] = "hashed" => status'[p] = "hashed"
    BY <1>26 DEF DeleteEnd, IInv, TypeOK, ObjTypes
  <2> QED BY <2>1, <2>2 DEF IInv, HeldIsCached
<1>27. ASSUME DeleteStep PROVE HeldIsCached'
  <2>1. \A p \in Obj : Holders(p)' = Holders(p)
    BY <1>27, IdleHolders DEF DeleteStep
  <2>2. \A p \in Obj : status[p] = "hashed" => status'[p] = "hashed"
    BY <1>27 DEF DeleteStep, IInv, TypeOK, ObjTypes
  <2> QED BY <2>1, <2>2 DEF IInv, HeldIsCached
<1>28. ASSUME EnterClean PROVE HeldIsCached'
  <2>1. \A p \in Obj : Holders(p)' = Holders(p)
    BY <1>28, IdleHolders DEF EnterClean
  <2>2. \A p \in Obj : status[p] = "hashed" => status'[p] = "hashed"
    BY <1>28 DEF EnterClean, IInv, TypeOK, ObjTypes
  <2> QED BY <2>1, <2>2 DEF IInv, HeldIsCached
<1>29. ASSUME SkipClean PROVE HeldIsCached'
  <2>1. \A p \in Obj : Holders(p)' = Holders(p)
    BY <1>29, IdleHolders DEF SkipClean
  <2>2. \A p \in Obj : status[p] = "hashed" => status'[p] = "hashed"
    BY <1>29 DEF SkipClean, IInv, TypeOK, ObjTypes
  <2> QED BY <2>1, <2>2 DEF IInv, HeldIsCached
<1>30. ASSUME CleanDrop PROVE HeldIsCached'
  <2>1. PICK o \in Obj : o = l.dhead
    BY <1>30 DEF CleanDrop, IInv, TypeOK, ListTypes, ListType, Ptr
  <2>2. Holders(o) = {} /\ leaked[o] = 0
    BY <1>30, <2>1, Holding DEF CleanDrop, Disposable
  <2>3. \A p \in Obj : p # o => status'[p] = status[p]
    BY <1>30, <2>1 DEF CleanDrop, Destroy, IInv, TypeOK, ObjTypes
  <2>4. \A p \in Obj : Holders(p)' = Holders(p)
    BY <1>30, IdleHolders DEF CleanDrop
  <2> QED BY <2>2, <2>3, <2>4 DEF IInv, HeldIsCached
<1>31. ASSUME CleanKeep PROVE HeldIsCached'
  <2>1. \A p \in Obj : Holders(p)' = Holders(p)
    BY <1>31, IdleHolders DEF CleanKeep
  <2>2. \A p \in Obj : status[p] = "hashed" => status'[p] = "hashed"
    BY <1>31 DEF CleanKeep, IInv, TypeOK, ObjTypes
  <2> QED BY <2>1, <2>2 DEF IInv, HeldIsCached
<1>32. ASSUME CleanEnd PROVE HeldIsCached'
  <2>1. \A p \in Obj : Holders(p)' = Holders(p)
    BY <1>32, IdleHolders DEF CleanEnd
  <2>2. \A p \in Obj : status[p] = "hashed" => status'[p] = "hashed"
    BY <1>32 DEF CleanEnd, IInv, TypeOK, ObjTypes
  <2> QED BY <2>1, <2>2 DEF IInv, HeldIsCached
<1>33. ASSUME Booted PROVE HeldIsCached'
  <2>1. \A p \in Obj : Holders(p)' = Holders(p)
    BY <1>33, IdleHolders DEF Booted
  <2>2. \A p \in Obj : status[p] = "hashed" => status'[p] = "hashed"
    BY <1>33 DEF Booted, IInv, TypeOK, ObjTypes
  <2> QED BY <2>1, <2>2 DEF IInv, HeldIsCached
<1>34. ASSUME NEW o \in Obj, NEW u \in Url, NEW s \in Sizes, Restore(o, u, s)
      PROVE  HeldIsCached'
  <2>1. \A p \in Obj : Holders(p)' = Holders(p)
    BY <1>34, IdleHolders DEF Restore
  <2>2. \A p \in Obj : status[p] = "hashed" => status'[p] = "hashed"
    BY <1>34 DEF Restore, IInv, TypeOK, ObjTypes
  <2> QED BY <2>1, <2>2 DEF IInv, HeldIsCached
<1>35. ASSUME Shutdown PROVE HeldIsCached'
  <2>1. \A p \in Obj : Holders(p)' = Holders(p)
    BY <1>35, IdleHolders DEF Shutdown
  <2>2. \A p \in Obj : status[p] = "hashed" => status'[p] = "hashed"
    BY <1>35 DEF Shutdown, IInv, TypeOK, ObjTypes
  <2> QED BY <2>1, <2>2 DEF IInv, HeldIsCached
<1>36. ASSUME EnterSaveAll PROVE HeldIsCached'
  <2>1. \A p \in Obj : Holders(p)' = Holders(p)
    BY <1>36, IdleHolders DEF EnterSaveAll
  <2>2. \A p \in Obj : status[p] = "hashed" => status'[p] = "hashed"
    BY <1>36 DEF EnterSaveAll, IInv, TypeOK, ObjTypes
  <2> QED BY <2>1, <2>2 DEF IInv, HeldIsCached
<1>37. ASSUME SaveIndexAndExit PROVE HeldIsCached'
  <2>1. \A p \in Obj : Holders(p)' = Holders(p)
    BY <1>37, IdleHolders DEF SaveIndexAndExit
  <2>2. \A p \in Obj : status[p] = "hashed" => status'[p] = "hashed"
    BY <1>37 DEF SaveIndexAndExit, IInv, TypeOK, ObjTypes
  <2> QED BY <2>1, <2>2 DEF IInv, HeldIsCached
<1>38. ASSUME Ended PROVE HeldIsCached'
  <2>1. \A p \in Obj : Holders(p)' = Holders(p)
    BY <1>38, IdleHolders DEF Ended, vars
  <2>2. \A p \in Obj : status[p] = "hashed" => status'[p] = "hashed"
    BY <1>38 DEF Ended, vars, IInv, TypeOK, ObjTypes
  <2> QED BY <2>1, <2>2 DEF IInv, HeldIsCached
<1>39. CASE UNCHANGED vars
  BY IdleHolders, <1>39 DEF vars, IInv, TypeOK, HeldIsCached
<1> HIDE DEF objVars, sizeVars, listVars, cliVars, gcVars
<1> QED
  BY <1>1, <1>2, <1>3, <1>4, <1>5, <1>6, <1>7, <1>8, <1>9, <1>10, <1>11,
    <1>12, <1>13, <1>14, <1>15, <1>16, <1>17, <1>18, <1>19, <1>20, <1>21,
    <1>22, <1>23, <1>24, <1>25, <1>26, <1>27, <1>28, <1>29, <1>30, <1>31,
    <1>32, <1>33, <1>34, <1>35, <1>36, <1>37, <1>38, <1>39 DEF Next, Request,
    Work, Collect, Boot, Stop

-----------------------------------------------------------------------------
(* Objects being sent                                                      *)

(* Every step keeps the body of an object that is being sent.              *)
LEMMA SendingStep ==
  ASSUME IInv(Nat), [Next]_vars
  PROVE  SendingHasBody'
<1> USE DEF objVars, sizeVars, listVars, cliVars, gcVars
<1>1. ASSUME NEW c \in Client, NEW u \in Url, LocateHit(c, u)
      PROVE  SendingHasBody'
  BY <1>1 DEF LocateHit, TakeRef, Goto, Cached, Live, IInv, TypeOK, ObjTypes,
    ClientTypes, Ptr, ClientOK, Phases, SendingHasBody, HoldingPCs
<1>2. ASSUME NEW c \in Client, NEW u \in Url, LocateNew(c, u)
      PROVE  SendingHasBody'
  BY <1>2 DEF LocateNew, Allocate, Goto, IInv, TypeOK, ObjTypes, ClientTypes,
    Ptr, ClientOK, Phases, SendingHasBody
<1>3. ASSUME NEW c \in Client, NEW u \in Url, LocateOnlyIfCached(c, u)
      PROVE  SendingHasBody'
  BY <1>3 DEF LocateOnlyIfCached, TakeRef, Allocate, Goto, Cached, Live, IInv,
    TypeOK, ObjTypes, ClientTypes, Ptr, ClientOK, Phases, SendingHasBody
<1>4. ASSUME NEW c \in Client, RefuseFatboy(c) PROVE SendingHasBody'
  BY <1>4 DEF RefuseFatboy, Goto, IInv, TypeOK, ObjTypes, ClientTypes, Ptr,
    ClientOK, Phases, SendingHasBody
<1>5. ASSUME NEW c \in Client, NEW s \in Sizes, NEW d \in BOOLEAN, FetchDone(c, s, d)
      PROVE  SendingHasBody'
  BY <1>5 DEF FetchDone, Filled, Goto, IInv, TypeOK, ObjTypes, ClientTypes,
    Ptr, ClientOK, Phases, SendingHasBody
<1>6. ASSUME NEW c \in Client, FetchFails(c) PROVE SendingHasBody'
  <2>1. PICK o \in Obj : o = mine[c] /\ status[o] = "private"
    BY <1>6, NilAssumption DEF FetchFails, IInv, ClientOK, TypeOK, ClientTypes,
      Ptr, Private
  <2>2. Holders(o) = {}
    BY <2>1, PrivateIsFree
  <2>3. \A d \in Client : pc[d] \in HoldingPCs => held[d] # o
    BY <2>2 DEF Holders
  <2>4. \A p \in Obj : p # o => inMem'[p] = inMem[p]
    BY <1>6, <2>1 DEF FetchFails, StoredObj, Destroy, IInv, TypeOK, ObjTypes
  <2> QED BY <1>6, <2>3, <2>4 DEF FetchFails, Goto, HoldingPCs, IInv, TypeOK,
    ClientTypes, Ptr, SendingHasBody
<1>7. ASSUME NEW c \in Client, Store(c) PROVE SendingHasBody'
  <2>1. PICK o \in Obj : o = mine[c] /\ status[o] = "private"
    BY <1>7, NilAssumption DEF Store, IInv, ClientOK, TypeOK, ClientTypes, Ptr,
      Private
  <2>2. Holders(o) = {}
    BY <2>1, PrivateIsFree
  <2>3. \A d \in Client : pc[d] \in HoldingPCs => held[d] # o
    BY <2>2 DEF Holders
  <2>4. \A p \in Obj : p # o => inMem'[p] = inMem[p]
    BY <1>7, <2>1 DEF Store, StoredObj, Destroy, IInv, TypeOK, ObjTypes
  <2> QED BY <1>7, <2>3, <2>4 DEF Store, Goto, HoldingPCs, IInv, TypeOK,
    ClientTypes, Ptr, SendingHasBody
<1>8. ASSUME NEW c \in Client, Serve(c) PROVE SendingHasBody'
  BY <1>8 DEF Serve, Goto, IInv, TypeOK, ObjTypes, ClientTypes, Ptr, ClientOK,
    Phases, SendingHasBody
<1>9. ASSUME NEW c \in Client, Revalidate(c) PROVE SendingHasBody'
  BY <1>9 DEF Revalidate, Allocate, Goto, IInv, TypeOK, ObjTypes, ClientTypes,
    Ptr, ClientOK, Phases, SendingHasBody
<1>10. ASSUME NEW c \in Client, NEW s \in Sizes, NEW d \in BOOLEAN, RevalidateOk(c, s, d)
      PROVE  SendingHasBody'
  BY <1>10 DEF RevalidateOk, Filled, Goto, IInv, TypeOK, ObjTypes,
    ClientTypes, Ptr, ClientOK, Phases, SendingHasBody
<1>11. ASSUME NEW c \in Client, RevalidateNotModified(c) PROVE SendingHasBody'
  <2>1. PICK o \in Obj : o = mine[c] /\ status[o] = "private"
    BY <1>11, NilAssumption DEF RevalidateNotModified, IInv, ClientOK, TypeOK,
      ClientTypes, Ptr, Private
  <2>2. Holders(o) = {}
    BY <2>1, PrivateIsFree
  <2>3. \A d \in Client : pc[d] \in HoldingPCs => held[d] # o
    BY <2>2 DEF Holders
  <2>4. \A p \in Obj : p # o => inMem'[p] = inMem[p]
    BY <1>11, <2>1 DEF RevalidateNotModified, StoredObj, Destroy, IInv, TypeOK,
      ObjTypes
  <2> QED BY <1>11, <2>3, <2>4 DEF RevalidateNotModified, Goto, HoldingPCs,
    IInv, TypeOK, ClientTypes, Ptr, SendingHasBody
<1>12. ASSUME NEW c \in Client, RevalidateFails(c) PROVE SendingHasBody'
  <2>1. PICK o \in Obj : o = mine[c] /\ status[o] = "private"
    BY <1>12, NilAssumption DEF RevalidateFails, IInv, ClientOK, TypeOK,
      ClientTypes, Ptr, Private
  <2>2. Holders(o) = {}
    BY <2>1, PrivateIsFree
  <2>3. \A d \in Client : pc[d] \in HoldingPCs => held[d] # o
    BY <2>2 DEF Holders
  <2>4. \A p \in Obj : p # o => inMem'[p] = inMem[p]
    BY <1>12, <2>1 DEF RevalidateFails, StoredObj, Destroy, IInv, TypeOK,
      ObjTypes
  <2> QED BY <1>12, <2>3, <2>4 DEF RevalidateFails, Goto, HoldingPCs, IInv,
    TypeOK, ClientTypes, Ptr, SendingHasBody
<1>13. ASSUME NEW c \in Client, SwapIn(c) PROVE SendingHasBody'
  BY <1>13 DEF SwapIn, Goto, IInv, TypeOK, ObjTypes, ClientTypes, Ptr,
    ClientOK, Phases, SendingHasBody
<1>14. ASSUME NEW c \in Client, Sent(c) PROVE SendingHasBody'
  BY <1>14 DEF Sent, Goto, IInv, TypeOK, ObjTypes, ClientTypes, Ptr, ClientOK,
    Phases, SendingHasBody
<1>15. ASSUME NEW c \in Client, Kill(c) PROVE SendingHasBody'
  BY <1>15 DEF Kill, Goto, IInv, TypeOK, ObjTypes, ClientTypes, Ptr, ClientOK,
    Phases, SendingHasBody
<1>16. ASSUME NEW c \in Client, Bury(c) PROVE SendingHasBody'
  BY <1>16 DEF Bury, Goto, IInv, TypeOK, ObjTypes, ClientTypes, Ptr, ClientOK,
    Phases, SendingHasBody
<1>17. ASSUME NEW c \in Client, BuryFaults(c) PROVE SendingHasBody'
  BY <1>17 DEF BuryFaults, Crash, IInv, TypeOK, ObjTypes, ClientTypes, Ptr,
    ClientOK, Phases, SendingHasBody
<1>18. ASSUME NEW c \in Client, Mark(c) PROVE SendingHasBody'
  BY <1>18 DEF Mark, Goto, IInv, TypeOK, ObjTypes, ClientTypes, Ptr, ClientOK,
    Phases, SendingHasBody, AfterPCs
<1>19. ASSUME NEW c \in Client, Replace(c) PROVE SendingHasBody'
  <2>1. PICK o \in Obj : o = mine[c] /\ status[o] = "private"
    BY <1>19, NilAssumption DEF Replace, IInv, ClientOK, TypeOK, ClientTypes,
      Ptr, Private
  <2>2. Holders(o) = {}
    BY <2>1, PrivateIsFree
  <2>3. \A d \in Client : pc[d] \in HoldingPCs => held[d] # o
    BY <2>2 DEF Holders
  <2>4. \A p \in Obj : p # o => inMem'[p] = inMem[p]
    BY <1>19, <2>1 DEF Replace, StoredObj, Destroy, IInv, TypeOK, ObjTypes
  <2> QED BY <1>19, <2>3, <2>4 DEF Replace, Goto, HoldingPCs, IInv, TypeOK,
    ClientTypes, Ptr, SendingHasBody
<1>20. ASSUME NEW c \in Client, Rate(c) PROVE SendingHasBody'
  BY <1>20 DEF Rate, Goto, IInv, TypeOK, ObjTypes, ClientTypes, Ptr, ClientOK,
    Phases, SendingHasBody
<1>21. ASSUME NEW c \in Client, Release(c) PROVE SendingHasBody'
  BY <1>21 DEF Release, Goto, IInv, TypeOK, ObjTypes, ClientTypes, Ptr,
    ClientOK, Phases, SendingHasBody
<1>22. ASSUME NEW c \in Client, Unlock(c) PROVE SendingHasBody'
  BY <1>22 DEF Unlock, Goto, IInv, TypeOK, ObjTypes, ClientTypes, Ptr,
    ClientOK, Phases, SendingHasBody
<1>23. ASSUME NEW c \in Client, Forget(c) PROVE SendingHasBody'
  BY <1>23 DEF Forget, Goto, IInv, TypeOK, ObjTypes, ClientTypes, Ptr,
    ClientOK, Phases, SendingHasBody
<1>24. ASSUME ReadSizes PROVE SendingHasBody'
  BY <1>24 DEF ReadSizes, IInv, TypeOK, ObjTypes, ClientTypes, Ptr, ClientOK,
    Phases, SendingHasBody
<1>25. ASSUME EnterDelete PROVE SendingHasBody'
  BY <1>25 DEF EnterDelete, IInv, TypeOK, ObjTypes, ClientTypes, Ptr,
    ClientOK, Phases, SendingHasBody
<1>26. ASSUME DeleteEnd PROVE SendingHasBody'
  BY <1>26 DEF DeleteEnd, LeaveDelete, NoSection, IInv, TypeOK, ObjTypes,
    ClientTypes, Ptr, ClientOK, Phases, SendingHasBody
<1>27. ASSUME DeleteStep PROVE SendingHasBody'
  <2>1. PICK o \in Obj : o = l.head
    BY <1>27 DEF DeleteStep, DeleteStops, IInv, TypeOK, ListTypes, ListType,
      Ptr
  <2>2. UNCHANGED <<pc, held>>
    BY <1>27 DEF DeleteStep
  <2>3. SUFFICES ASSUME main' = "run", NEW c \in Client, pc[c] = "sending", held[c] # Nil
                 PROVE  inMem'[held[c]]
    BY <2>2 DEF SendingHasBody
  <2>4. main = "run" /\ sect.by # "main" /\ held[c] \in Obj
    BY <1>27, <2>3 DEF DeleteStep, LeaveDelete, IInv, Phases, TypeOK,
      ClientTypes, Ptr
  <2>5. inMem[held[c]]
    BY <2>3, <2>4 DEF IInv, SendingHasBody
  <2>6. MayDelete(o) => held[c] # o
    BY <2>1, <2>3, <2>4, Holding DEF MayDelete, Holders, HoldingPCs
  <2>7. CASE MayDelete(o)
    BY <1>27, <2>1, <2>4, <2>5, <2>6, <2>7 DEF DeleteStep, SwapOut, IInv,
      TypeOK, ObjTypes
  <2>8. CASE ~MayDelete(o)
    BY <1>27, <2>1, <2>5, <2>8 DEF DeleteStep
  <2> QED BY <2>7, <2>8
<1>28. ASSUME EnterClean PROVE SendingHasBody'
  BY <1>28 DEF EnterClean, IInv, TypeOK, ObjTypes, ClientTypes, Ptr, ClientOK,
    Phases, SendingHasBody
<1>29. ASSUME SkipClean PROVE SendingHasBody'
  BY <1>29 DEF SkipClean, IdleTick, IInv, TypeOK, ObjTypes, ClientTypes, Ptr,
    ClientOK, Phases, SendingHasBody
<1>30. ASSUME CleanDrop PROVE SendingHasBody'
  <2>1. PICK o \in Obj : o = l.dhead
    BY <1>30 DEF CleanDrop, IInv, TypeOK, ListTypes, ListType, Ptr
  <2>2. Holders(o) = {} /\ leaked[o] = 0
    BY <1>30, <2>1, Holding DEF CleanDrop, Disposable
  <2>3. \A d \in Client : pc[d] \in HoldingPCs => held[d] # o
    BY <2>2 DEF Holders
  <2>4. \A p \in Obj : p # o => inMem'[p] = inMem[p]
    BY <1>30, <2>1 DEF CleanDrop, Destroy, IInv, TypeOK, ObjTypes
  <2> QED BY <1>30, <2>3, <2>4 DEF CleanDrop, HoldingPCs, IInv, TypeOK,
    ClientTypes, Ptr, SendingHasBody
<1>31. ASSUME CleanKeep PROVE SendingHasBody'
  BY <1>31 DEF CleanKeep, IInv, TypeOK, ObjTypes, ClientTypes, Ptr, ClientOK,
    Phases, SendingHasBody
<1>32. ASSUME CleanEnd PROVE SendingHasBody'
  BY <1>32 DEF CleanEnd, NoSection, IdleTick, IInv, TypeOK, ObjTypes,
    ClientTypes, Ptr, ClientOK, Phases, SendingHasBody
<1>33. ASSUME Booted PROVE SendingHasBody'
  BY <1>33 DEF Booted, IInv, TypeOK, ObjTypes, ClientTypes, Ptr, ClientOK,
    Phases, SendingHasBody
<1>34. ASSUME NEW o \in Obj, NEW u \in Url, NEW s \in Sizes, Restore(o, u, s)
      PROVE  SendingHasBody'
  BY <1>34 DEF Restore, IInv, TypeOK, ObjTypes, ClientTypes, Ptr, ClientOK,
    Phases, SendingHasBody
<1>35. ASSUME Shutdown PROVE SendingHasBody'
  BY <1>35 DEF Shutdown, IInv, TypeOK, ObjTypes, ClientTypes, Ptr, ClientOK,
    Phases, SendingHasBody
<1>36. ASSUME EnterSaveAll PROVE SendingHasBody'
  BY <1>36 DEF EnterSaveAll, IInv, TypeOK, ObjTypes, ClientTypes, Ptr,
    ClientOK, Phases, SendingHasBody
<1>37. ASSUME SaveIndexAndExit PROVE SendingHasBody'
  BY <1>37 DEF SaveIndexAndExit, IInv, TypeOK, ObjTypes, ClientTypes, Ptr,
    ClientOK, Phases, SendingHasBody
<1>38. ASSUME Ended PROVE SendingHasBody'
  BY <1>38 DEF Ended, vars, IInv, TypeOK, ObjTypes, ClientTypes, Ptr,
    ClientOK, Phases, SendingHasBody
<1>39. CASE UNCHANGED vars
  BY <1>39 DEF vars, IInv, TypeOK, ObjTypes, ClientTypes, Ptr, ClientOK,
    Phases, SendingHasBody
<1> HIDE DEF objVars, sizeVars, listVars, cliVars, gcVars
<1> QED
  BY <1>1, <1>2, <1>3, <1>4, <1>5, <1>6, <1>7, <1>8, <1>9, <1>10, <1>11,
    <1>12, <1>13, <1>14, <1>15, <1>16, <1>17, <1>18, <1>19, <1>20, <1>21,
    <1>22, <1>23, <1>24, <1>25, <1>26, <1>27, <1>28, <1>29, <1>30, <1>31,
    <1>32, <1>33, <1>34, <1>35, <1>36, <1>37, <1>38, <1>39 DEF Next, Request,
    Work, Collect, Boot, Stop

-----------------------------------------------------------------------------
(* One live object per URL                                                 *)

(* Every step keeps one live object per URL.                               *)
LEMMA OneLiveStep ==
  ASSUME IInv(Nat), [Next]_vars
  PROVE  OneLivePerUrl'
<1> USE DEF objVars, sizeVars, listVars, cliVars, gcVars
<1>1. ASSUME NEW c \in Client, NEW u \in Url, LocateHit(c, u)
      PROVE  OneLivePerUrl'
  BY <1>1 DEF LocateHit, TakeRef, Goto, Cached, Live, IInv, TypeOK, ObjTypes,
    OneLivePerUrl
<1>2. ASSUME NEW c \in Client, NEW u \in Url, LocateNew(c, u)
      PROVE  OneLivePerUrl'
  BY <1>2 DEF LocateNew, Allocate, Goto, IInv, TypeOK, ObjTypes,
    OneLivePerUrl, Cached, Live
<1>3. ASSUME NEW c \in Client, NEW u \in Url, LocateOnlyIfCached(c, u)
      PROVE  OneLivePerUrl'
  BY <1>3 DEF LocateOnlyIfCached, TakeRef, Allocate, Goto, Cached, Live, IInv,
    TypeOK, ObjTypes, OneLivePerUrl
<1>4. ASSUME NEW c \in Client, RefuseFatboy(c) PROVE OneLivePerUrl'
  BY <1>4 DEF RefuseFatboy, Goto, IInv, TypeOK, ObjTypes, OneLivePerUrl,
    Cached, Live
<1>5. ASSUME NEW c \in Client, NEW s \in Sizes, NEW d \in BOOLEAN, FetchDone(c, s, d)
      PROVE  OneLivePerUrl'
  <2>1. PICK o \in Obj : o = mine[c] /\ status[o] = "private"
    BY <1>5, NilAssumption DEF FetchDone, IInv, ClientOK, TypeOK, ClientTypes,
      Ptr, Private
  <2>2. UNCHANGED <<status, url>> /\ dead' = [dead EXCEPT ![o] = d]
    BY <1>5, <2>1 DEF FetchDone, Filled
  <2> QED BY <2>1, <2>2 DEF Cached, Live, IInv, TypeOK, ObjTypes, OneLivePerUrl
<1>6. ASSUME NEW c \in Client, FetchFails(c) PROVE OneLivePerUrl'
  BY <1>6 DEF FetchFails, Destroy, Goto, IInv, TypeOK, ObjTypes,
    OneLivePerUrl, Cached, Live
<1>7. ASSUME NEW c \in Client, Store(c) PROVE OneLivePerUrl'
  <2>1. PICK o \in Obj : o = mine[c] /\ status[o] = "private"
    BY <1>7, NilAssumption DEF Store, IInv, ClientOK, TypeOK, ClientTypes, Ptr,
      Private
  <2>2. CASE Destroy(o)
    BY <2>1, <2>2 DEF Destroy, Cached, Live, IInv, TypeOK, ObjTypes,
      OneLivePerUrl
  <2>3. CASE /\ Cached(url[o]) = {}
             /\ status' = [status EXCEPT ![o] = "hashed"]
             /\ UNCHANGED <<url, dead>>
    BY <2>1, <2>3 DEF Cached, Live, IInv, TypeOK, ObjTypes, OneLivePerUrl
  <2> QED BY <1>7, <2>1, <2>2, <2>3 DEF Store, StoredObj
<1>8. ASSUME NEW c \in Client, Serve(c) PROVE OneLivePerUrl'
  <2>1. UNCHANGED <<status, url, dead>>
    BY <1>8 DEF Serve
  <2> QED BY <2>1 DEF Cached, Live, IInv, OneLivePerUrl
<1>9. ASSUME NEW c \in Client, Revalidate(c) PROVE OneLivePerUrl'
  BY <1>9 DEF Revalidate, Allocate, Goto, IInv, TypeOK, ObjTypes,
    OneLivePerUrl, Cached, Live
<1>10. ASSUME NEW c \in Client, NEW s \in Sizes, NEW d \in BOOLEAN, RevalidateOk(c, s, d)
      PROVE  OneLivePerUrl'
  <2>1. PICK o \in Obj : o = mine[c] /\ status[o] = "private"
    BY <1>10, NilAssumption DEF RevalidateOk, IInv, ClientOK, TypeOK,
      ClientTypes, Ptr, Private
  <2>2. UNCHANGED <<status, url>> /\ dead' = [dead EXCEPT ![o] = d]
    BY <1>10, <2>1 DEF RevalidateOk, Filled
  <2> QED BY <2>1, <2>2 DEF Cached, Live, IInv, TypeOK, ObjTypes, OneLivePerUrl
<1>11. ASSUME NEW c \in Client, RevalidateNotModified(c) PROVE OneLivePerUrl'
  <2>1. PICK o \in Obj : o = mine[c] /\ status[o] = "private"
    BY <1>11, NilAssumption DEF RevalidateNotModified, IInv, ClientOK, TypeOK,
      ClientTypes, Ptr, Private
  <2>2. Destroy(o)
    BY <1>11, <2>1 DEF RevalidateNotModified
  <2> QED BY <2>1, <2>2 DEF Destroy, Cached, Live, IInv, TypeOK, ObjTypes,
    OneLivePerUrl
<1>12. ASSUME NEW c \in Client, RevalidateFails(c) PROVE OneLivePerUrl'
  BY <1>12 DEF RevalidateFails, Destroy, Goto, IInv, TypeOK, ObjTypes,
    OneLivePerUrl, Cached, Live
<1>13. ASSUME NEW c \in Client, SwapIn(c) PROVE OneLivePerUrl'
  BY <1>13 DEF SwapIn, Goto, IInv, TypeOK, ObjTypes, OneLivePerUrl, Cached,
    Live
<1>14. ASSUME NEW c \in Client, Sent(c) PROVE OneLivePerUrl'
  BY <1>14 DEF Sent, Goto, IInv, TypeOK, ObjTypes, OneLivePerUrl, Cached, Live
<1>15. ASSUME NEW c \in Client, Kill(c) PROVE OneLivePerUrl'
  BY <1>15 DEF Kill, Goto, IInv, TypeOK, ObjTypes, OneLivePerUrl, Cached, Live
<1>16. ASSUME NEW c \in Client, Bury(c) PROVE OneLivePerUrl'
  BY <1>16 DEF Bury, Goto, IInv, TypeOK, ObjTypes, OneLivePerUrl, Cached, Live
<1>17. ASSUME NEW c \in Client, BuryFaults(c) PROVE OneLivePerUrl'
  BY <1>17 DEF BuryFaults, Crash, IInv, TypeOK, ObjTypes, OneLivePerUrl,
    Cached, Live
<1>18. ASSUME NEW c \in Client, Mark(c) PROVE OneLivePerUrl'
  BY <1>18 DEF Mark, Goto, IInv, TypeOK, ObjTypes, OneLivePerUrl, Cached, Live
<1>19. ASSUME NEW c \in Client, Replace(c) PROVE OneLivePerUrl'
  <2>1. PICK o \in Obj : o = mine[c] /\ status[o] = "private"
    BY <1>19, NilAssumption DEF Replace, IInv, ClientOK, TypeOK, ClientTypes,
      Ptr, Private
  <2>2. CASE Destroy(o)
    BY <2>1, <2>2 DEF Destroy, Cached, Live, IInv, TypeOK, ObjTypes,
      OneLivePerUrl
  <2>3. CASE /\ Cached(url[o]) = {}
             /\ status' = [status EXCEPT ![o] = "hashed"]
             /\ UNCHANGED <<url, dead>>
    BY <2>1, <2>3 DEF Cached, Live, IInv, TypeOK, ObjTypes, OneLivePerUrl
  <2> QED BY <1>19, <2>1, <2>2, <2>3 DEF Replace, StoredObj
<1>20. ASSUME NEW c \in Client, Rate(c) PROVE OneLivePerUrl'
  BY <1>20 DEF Rate, Goto, IInv, TypeOK, ObjTypes, OneLivePerUrl, Cached, Live
<1>21. ASSUME NEW c \in Client, Release(c) PROVE OneLivePerUrl'
  BY <1>21 DEF Release, Goto, IInv, TypeOK, ObjTypes, OneLivePerUrl, Cached,
    Live
<1>22. ASSUME NEW c \in Client, Unlock(c) PROVE OneLivePerUrl'
  BY <1>22 DEF Unlock, Goto, IInv, TypeOK, ObjTypes, OneLivePerUrl, Cached,
    Live
<1>23. ASSUME NEW c \in Client, Forget(c) PROVE OneLivePerUrl'
  BY <1>23 DEF Forget, Goto, IInv, TypeOK, ObjTypes, OneLivePerUrl, Cached,
    Live
<1>24. ASSUME ReadSizes PROVE OneLivePerUrl'
  BY <1>24 DEF ReadSizes, IInv, TypeOK, ObjTypes, OneLivePerUrl, Cached, Live
<1>25. ASSUME EnterDelete PROVE OneLivePerUrl'
  BY <1>25 DEF EnterDelete, IInv, TypeOK, ObjTypes, OneLivePerUrl, Cached,
    Live
<1>26. ASSUME DeleteEnd PROVE OneLivePerUrl'
  BY <1>26 DEF DeleteEnd, LeaveDelete, NoSection, IInv, TypeOK, ObjTypes,
    OneLivePerUrl, Cached, Live
<1>27. ASSUME DeleteStep PROVE OneLivePerUrl'
  BY <1>27 DEF DeleteStep, SwapOut, LeaveDelete, NoSection, IInv, TypeOK,
    ObjTypes, OneLivePerUrl, Cached, Live
<1>28. ASSUME EnterClean PROVE OneLivePerUrl'
  BY <1>28 DEF EnterClean, IInv, TypeOK, ObjTypes, OneLivePerUrl, Cached, Live
<1>29. ASSUME SkipClean PROVE OneLivePerUrl'
  BY <1>29 DEF SkipClean, IdleTick, IInv, TypeOK, ObjTypes, OneLivePerUrl,
    Cached, Live
<1>30. ASSUME CleanDrop PROVE OneLivePerUrl'
  BY <1>30 DEF CleanDrop, Destroy, Disposable, IInv, TypeOK, ObjTypes,
    OneLivePerUrl, Cached, Live
<1>31. ASSUME CleanKeep PROVE OneLivePerUrl'
  BY <1>31 DEF CleanKeep, IInv, TypeOK, ObjTypes, OneLivePerUrl, Cached, Live
<1>32. ASSUME CleanEnd PROVE OneLivePerUrl'
  BY <1>32 DEF CleanEnd, NoSection, IdleTick, IInv, TypeOK, ObjTypes,
    OneLivePerUrl, Cached, Live
<1>33. ASSUME Booted PROVE OneLivePerUrl'
  BY <1>33 DEF Booted, IInv, TypeOK, ObjTypes, OneLivePerUrl, Cached, Live
<1>34. ASSUME NEW o \in Obj, NEW u \in Url, NEW s \in Sizes, Restore(o, u, s)
      PROVE  OneLivePerUrl'
  BY <1>34 DEF Restore, IInv, TypeOK, ObjTypes, OneLivePerUrl, Cached, Live
<1>35. ASSUME Shutdown PROVE OneLivePerUrl'
  BY <1>35 DEF Shutdown, IInv, TypeOK, ObjTypes, OneLivePerUrl, Cached, Live
<1>36. ASSUME EnterSaveAll PROVE OneLivePerUrl'
  BY <1>36 DEF EnterSaveAll, IInv, TypeOK, ObjTypes, OneLivePerUrl, Cached,
    Live
<1>37. ASSUME SaveIndexAndExit PROVE OneLivePerUrl'
  BY <1>37 DEF SaveIndexAndExit, IInv, TypeOK, ObjTypes, OneLivePerUrl,
    Cached, Live
<1>38. ASSUME Ended PROVE OneLivePerUrl'
  BY <1>38 DEF Ended, vars, IInv, TypeOK, ObjTypes, OneLivePerUrl, Cached,
    Live
<1>39. CASE UNCHANGED vars
  BY <1>39 DEF vars, IInv, TypeOK, ObjTypes, OneLivePerUrl, Cached, Live
<1> HIDE DEF objVars, sizeVars, listVars, cliVars, gcVars
<1> QED
  BY <1>1, <1>2, <1>3, <1>4, <1>5, <1>6, <1>7, <1>8, <1>9, <1>10, <1>11,
    <1>12, <1>13, <1>14, <1>15, <1>16, <1>17, <1>18, <1>19, <1>20, <1>21,
    <1>22, <1>23, <1>24, <1>25, <1>26, <1>27, <1>28, <1>29, <1>30, <1>31,
    <1>32, <1>33, <1>34, <1>35, <1>36, <1>37, <1>38, <1>39 DEF Next, Request,
    Work, Collect, Boot, Stop

-----------------------------------------------------------------------------
(* The list                                                                *)

(* A step that leaves the list and the cached objects keeps the shape.     *)
LEMMA SameShape ==
  ASSUME IInv(Nat), \A p \in Obj : status'[p] = "hashed" <=> status[p] = "hashed",
         UNCHANGED <<l, lost>>, sect'.op = "clean" <=> sect.op = "clean"
  PROVE  Shape(Nat, l, Cacheable, lost, sect.op = "clean")'
<1>1. Cacheable' = Cacheable
  BY DEF Cacheable
<1> QED BY <1>1 DEF IInv

(* What the lemmas on the list operators need to know of it.               *)
LEMMA ShapeFacts ==
  ASSUME IInv(Nat)
  PROVE  /\ Cacheable \in SUBSET Obj /\ l \in ListType /\ lost \in BOOLEAN
         /\ sect.op # "clean" => Shape(Nat, l, Cacheable, lost, FALSE)
         /\ sect.op = "clean" => Shape(Nat, l, Cacheable, lost, TRUE)
BY DEF Cacheable, IInv, TypeOK, ListTypes

(* stored_obj puts a private object into the hash table and into the list. *)
LEMMA StoredShape ==
  ASSUME IInv(Nat), NEW o \in Obj, status[o] = "private", StoredObj(o),
         UNCHANGED <<lost, sect>>
  PROVE  Shape(Nat, l, Cacheable, lost, sect.op = "clean")'
<1>1. CASE Destroy(o) /\ UNCHANGED l
  BY <1>1, SameShape DEF Destroy, IInv, TypeOK, ObjTypes
<1>2. CASE ~(Destroy(o) /\ UNCHANGED l)
  <2>1. /\ status' = [status EXCEPT ![o] = "hashed"]
        /\ l' = add_list(l, o) /\ ListFree
    BY <1>2 DEF StoredObj
  <2>2. sect.op # "clean" /\ sect'.op # "clean"
    BY <2>1 DEF ListFree, IInv, Phases
  <2>3. Cacheable' = Cacheable \cup {o} /\ o \in Obj \ Cacheable
    BY <2>1 DEF Cacheable, IInv, TypeOK, ObjTypes
  <2>4. Shape(Nat, add_list(l, o), Cacheable \cup {o}, lost, FALSE)
    BY <2>2, <2>3, ShapeFacts, AddListShape
  <2> QED BY <2>1, <2>2, <2>3, <2>4
<1> QED BY <1>1, <1>2

(* Every step keeps the shape of the list.                                 *)
LEMMA ShapeStep ==
  ASSUME IInv(Nat), [Next]_vars
  PROVE  Shape(Nat, l, Cacheable, lost, sect.op = "clean")'
<1> USE DEF objVars, sizeVars, listVars, cliVars, gcVars
<1>1. ASSUME NEW c \in Client, NEW u \in Url, LocateHit(c, u)
      PROVE  Shape(Nat, l, Cacheable, lost, sect.op = "clean")'
  BY <1>1, SameShape DEF LocateHit, TakeRef, Cached, Live, IInv, TypeOK,
    ObjTypes
<1>2. ASSUME NEW c \in Client, NEW u \in Url, LocateNew(c, u)
      PROVE  Shape(Nat, l, Cacheable, lost, sect.op = "clean")'
  BY <1>2, SameShape DEF LocateNew, Allocate, IInv, TypeOK, ObjTypes
<1>3. ASSUME NEW c \in Client, NEW u \in Url, LocateOnlyIfCached(c, u)
      PROVE  Shape(Nat, l, Cacheable, lost, sect.op = "clean")'
  BY <1>3, SameShape DEF LocateOnlyIfCached, TakeRef, Allocate, Cached, Live,
    IInv, TypeOK, ObjTypes
<1>4. ASSUME NEW c \in Client, RefuseFatboy(c)
      PROVE  Shape(Nat, l, Cacheable, lost, sect.op = "clean")'
  <2>1. PICK o \in Obj : o = mine[c] /\ status[o] = "private"
    BY <1>4, NilAssumption DEF RefuseFatboy, IInv, ClientOK, TypeOK,
      ClientTypes, Ptr, Private
  <2>2. UNCHANGED <<l, lost, sect>> /\ \A p \in Obj : p # o => status'[p] = status[p]
    BY <1>4, <2>1 DEF RefuseFatboy, IInv, TypeOK, ObjTypes
  <2>3. status'[o] # "hashed"
    BY <1>4, <2>1 DEF RefuseFatboy, IInv, TypeOK, ObjTypes
  <2> QED BY <2>1, <2>2, <2>3, SameShape
<1>5. ASSUME NEW c \in Client, NEW s \in Sizes, NEW d \in BOOLEAN, FetchDone(c, s, d)
      PROVE  Shape(Nat, l, Cacheable, lost, sect.op = "clean")'
  <2>1. PICK o \in Obj : o = mine[c] /\ status[o] = "private"
    BY <1>5, NilAssumption DEF FetchDone, IInv, ClientOK, TypeOK, ClientTypes,
      Ptr, Private
  <2>2. UNCHANGED <<l, lost, sect>> /\ \A p \in Obj : p # o => status'[p] = status[p]
    BY <1>5, <2>1 DEF FetchDone, Filled, IInv, TypeOK, ObjTypes
  <2>3. status'[o] # "hashed"
    BY <1>5, <2>1 DEF FetchDone, Filled, IInv, TypeOK, ObjTypes
  <2> QED BY <2>1, <2>2, <2>3, SameShape
<1>6. ASSUME NEW c \in Client, FetchFails(c)
      PROVE  Shape(Nat, l, Cacheable, lost, sect.op = "clean")'
  <2>1. PICK o \in Obj : o = mine[c] /\ status[o] = "private"
    BY <1>6, NilAssumption DEF FetchFails, IInv, ClientOK, TypeOK, ClientTypes,
      Ptr, Private
  <2>2. UNCHANGED <<l, lost, sect>> /\ \A p \in Obj : p # o => status'[p] = status[p]
    BY <1>6, <2>1 DEF FetchFails, Destroy, IInv, TypeOK, ObjTypes
  <2>3. status'[o] # "hashed"
    BY <1>6, <2>1 DEF FetchFails, Destroy, IInv, TypeOK, ObjTypes
  <2> QED BY <2>1, <2>2, <2>3, SameShape
<1>7. ASSUME NEW c \in Client, Store(c)
      PROVE  Shape(Nat, l, Cacheable, lost, sect.op = "clean")'
  <2>1. PICK o \in Obj : o = mine[c] /\ status[o] = "private"
    BY <1>7, NilAssumption DEF Store, IInv, ClientOK, TypeOK, ClientTypes, Ptr,
      Private
  <2> QED BY <1>7, <2>1, StoredShape DEF Store
<1>8. ASSUME NEW c \in Client, Serve(c)
      PROVE  Shape(Nat, l, Cacheable, lost, sect.op = "clean")'
  BY <1>8, SameShape DEF Serve, IInv, TypeOK, ObjTypes
<1>9. ASSUME NEW c \in Client, Revalidate(c)
      PROVE  Shape(Nat, l, Cacheable, lost, sect.op = "clean")'
  BY <1>9, SameShape DEF Revalidate, Allocate, IInv, TypeOK, ObjTypes
<1>10. ASSUME NEW c \in Client, NEW s \in Sizes, NEW d \in BOOLEAN, RevalidateOk(c, s, d)
      PROVE  Shape(Nat, l, Cacheable, lost, sect.op = "clean")'
  <2>1. PICK o \in Obj : o = mine[c] /\ status[o] = "private"
    BY <1>10, NilAssumption DEF RevalidateOk, IInv, ClientOK, TypeOK,
      ClientTypes, Ptr, Private
  <2>2. UNCHANGED <<l, lost, sect>> /\ \A p \in Obj : p # o => status'[p] = status[p]
    BY <1>10, <2>1 DEF RevalidateOk, Filled, IInv, TypeOK, ObjTypes
  <2>3. status'[o] # "hashed"
    BY <1>10, <2>1 DEF RevalidateOk, Filled, IInv, TypeOK, ObjTypes
  <2> QED BY <2>1, <2>2, <2>3, SameShape
<1>11. ASSUME NEW c \in Client, RevalidateNotModified(c)
      PROVE  Shape(Nat, l, Cacheable, lost, sect.op = "clean")'
  <2>1. PICK o \in Obj : o = mine[c] /\ status[o] = "private"
    BY <1>11, NilAssumption DEF RevalidateNotModified, IInv, ClientOK, TypeOK,
      ClientTypes, Ptr, Private
  <2>2. UNCHANGED <<l, lost, sect>> /\ \A p \in Obj : p # o => status'[p] = status[p]
    BY <1>11, <2>1 DEF RevalidateNotModified, Destroy, IInv, TypeOK, ObjTypes
  <2>3. status'[o] # "hashed"
    BY <1>11, <2>1 DEF RevalidateNotModified, Destroy, IInv, TypeOK, ObjTypes
  <2> QED BY <2>1, <2>2, <2>3, SameShape
<1>12. ASSUME NEW c \in Client, RevalidateFails(c)
      PROVE  Shape(Nat, l, Cacheable, lost, sect.op = "clean")'
  <2>1. PICK o \in Obj : o = mine[c] /\ status[o] = "private"
    BY <1>12, NilAssumption DEF RevalidateFails, IInv, ClientOK, TypeOK,
      ClientTypes, Ptr, Private
  <2>2. UNCHANGED <<l, lost, sect>> /\ \A p \in Obj : p # o => status'[p] = status[p]
    BY <1>12, <2>1 DEF RevalidateFails, Destroy, IInv, TypeOK, ObjTypes
  <2>3. status'[o] # "hashed"
    BY <1>12, <2>1 DEF RevalidateFails, Destroy, IInv, TypeOK, ObjTypes
  <2> QED BY <2>1, <2>2, <2>3, SameShape
<1>13. ASSUME NEW c \in Client, SwapIn(c)
      PROVE  Shape(Nat, l, Cacheable, lost, sect.op = "clean")'
  BY <1>13, SameShape DEF SwapIn, IInv, TypeOK, ObjTypes
<1>14. ASSUME NEW c \in Client, Sent(c)
      PROVE  Shape(Nat, l, Cacheable, lost, sect.op = "clean")'
  BY <1>14, SameShape DEF Sent, IInv, TypeOK, ObjTypes
<1>15. ASSUME NEW c \in Client, Kill(c)
      PROVE  Shape(Nat, l, Cacheable, lost, sect.op = "clean")'
  BY <1>15, SameShape DEF Kill, IInv, TypeOK, ObjTypes
<1>16. ASSUME NEW c \in Client, Bury(c)
      PROVE  Shape(Nat, l, Cacheable, lost, sect.op = "clean")'
  <2>1. PICK o \in Obj : o = held[c] /\ c \in Holders(o)
    BY <1>16, NilAssumption DEF Bury, IInv, ClientOK, TypeOK, ClientTypes, Ptr,
      Holders, HoldingPCs, AfterPCs
  <2>2. o \in Cacheable
    BY <2>1 DEF IInv, HeldIsCached, Cacheable
  <2>3. /\ ~DeadListFaults(l, o) /\ l' = dead_list(l, o)
        /\ UNCHANGED <<lost, status, sect>> /\ sect.op # "clean"
    BY <1>16, <2>1 DEF Bury, ListFree, IInv, Phases
  <2>4. Cacheable' = Cacheable
    BY <2>3 DEF Cacheable
  <2>5. Shape(Nat, dead_list(l, o), Cacheable, lost, FALSE)
    BY <2>2, <2>3, ShapeFacts, DeadListShape
  <2> QED BY <2>3, <2>4, <2>5
<1>17. ASSUME NEW c \in Client, BuryFaults(c)
      PROVE  Shape(Nat, l, Cacheable, lost, sect.op = "clean")'
  BY <1>17, SameShape DEF BuryFaults, Crash, IInv, TypeOK, ObjTypes
<1>18. ASSUME NEW c \in Client, Mark(c)
      PROVE  Shape(Nat, l, Cacheable, lost, sect.op = "clean")'
  BY <1>18, SameShape DEF Mark, IInv, TypeOK, ObjTypes
<1>19. ASSUME NEW c \in Client, Replace(c)
      PROVE  Shape(Nat, l, Cacheable, lost, sect.op = "clean")'
  <2>1. PICK o \in Obj : o = mine[c] /\ status[o] = "private"
    BY <1>19, NilAssumption DEF Replace, IInv, ClientOK, TypeOK, ClientTypes,
      Ptr, Private
  <2> QED BY <1>19, <2>1, StoredShape DEF Replace
<1>20. ASSUME NEW c \in Client, Rate(c)
      PROVE  Shape(Nat, l, Cacheable, lost, sect.op = "clean")'
  <2>1. CASE UNCHANGED l
    BY <1>20, <2>1, SameShape DEF Rate
  <2>2. CASE ListFree /\ l' = update_list(l, held[c])
    <3>1. PICK o \in Obj : o = held[c] /\ c \in Holders(o)
      BY <1>20, NilAssumption DEF Rate, IInv, ClientOK, TypeOK, ClientTypes,
        Ptr, Holders, HoldingPCs, AfterPCs
    <3>2. o \in Cacheable
      BY <3>1 DEF IInv, HeldIsCached, Cacheable
    <3>3. UNCHANGED <<lost, status, sect>> /\ sect.op # "clean"
      BY <1>20, <2>2 DEF Rate, ListFree, IInv, Phases
    <3>4. Cacheable' = Cacheable
      BY <3>3 DEF Cacheable
    <3>5. Shape(Nat, update_list(l, o), Cacheable, lost, FALSE)
      BY <3>2, <3>3, ShapeFacts, UpdateListShape
    <3> QED BY <2>2, <3>1, <3>3, <3>4, <3>5
  <2> QED BY <1>20, <2>1, <2>2 DEF Rate
<1>21. ASSUME NEW c \in Client, Release(c)
      PROVE  Shape(Nat, l, Cacheable, lost, sect.op = "clean")'
  BY <1>21, SameShape DEF Release, IInv, TypeOK, ObjTypes
<1>22. ASSUME NEW c \in Client, Unlock(c)
      PROVE  Shape(Nat, l, Cacheable, lost, sect.op = "clean")'
  BY <1>22, SameShape DEF Unlock, IInv, TypeOK, ObjTypes
<1>23. ASSUME NEW c \in Client, Forget(c)
      PROVE  Shape(Nat, l, Cacheable, lost, sect.op = "clean")'
  <2>1. CASE UNCHANGED status
    BY <1>23, <2>1, SameShape DEF Forget
  <2>2. CASE held[c] = Nil /\ status' = [status EXCEPT ![mine[c]] = "leaked"]
    <3>1. PICK o \in Obj : o = mine[c] /\ status[o] = "private"
      BY <1>23, <2>2, NilAssumption DEF Forget, IInv, ClientOK, TypeOK,
        ClientTypes, Ptr, Private
    <3> QED BY <1>23, <2>2, <3>1, SameShape DEF Forget, IInv, TypeOK, ObjTypes
  <2> QED BY <1>23, <2>1, <2>2 DEF Forget
<1>24. ASSUME ReadSizes PROVE Shape(Nat, l, Cacheable, lost, sect.op = "clean")'
  BY <1>24, SameShape DEF ReadSizes, IInv, TypeOK, ObjTypes
<1>25. ASSUME EnterDelete PROVE Shape(Nat, l, Cacheable, lost, sect.op = "clean")'
  <2>1. sect.op # "clean" /\ sect'.op # "clean" /\ UNCHANGED <<l, lost, status>>
    BY <1>25 DEF EnterDelete, ListFree, IInv, Phases
  <2> QED BY <2>1, SameShape
<1>26. ASSUME DeleteEnd PROVE Shape(Nat, l, Cacheable, lost, sect.op = "clean")'
  BY <1>26, SameShape DEF DeleteEnd, LeaveDelete, NoSection, IInv, TypeOK,
    ObjTypes
<1>27. ASSUME DeleteStep PROVE Shape(Nat, l, Cacheable, lost, sect.op = "clean")'
  <2>1. /\ l' = AdvanceHead(l) /\ UNCHANGED <<lost, status>> /\ l.head # Nil
        /\ sect.op # "clean"
    BY <1>27 DEF DeleteStep, DeleteStops
  <2>2. sect'.op # "clean"
    BY <1>27, <2>1 DEF DeleteStep, LeaveDelete, NoSection, IInv, TypeOK,
      ListTypes
  <2>3. Cacheable' = Cacheable
    BY <2>1 DEF Cacheable
  <2>4. Shape(Nat, AdvanceHead(l), Cacheable, lost, FALSE)
    BY <2>1, ShapeFacts, AdvanceHeadShape
  <2> QED BY <2>1, <2>2, <2>3, <2>4
<1>28. ASSUME EnterClean PROVE Shape(Nat, l, Cacheable, lost, sect.op = "clean")'
  <2>1. sect.op # "clean" /\ sect'.op = "clean" /\ UNCHANGED <<l, lost, status>>
    BY <1>28 DEF EnterClean, ListFree, IInv, Phases
  <2>2. Cacheable' = Cacheable
    BY <2>1 DEF Cacheable
  <2>3. Shape(Nat, l, Cacheable, lost, TRUE)
    BY <2>1, ShapeFacts, EnterCleanShape
  <2> QED BY <2>1, <2>2, <2>3
<1>29. ASSUME SkipClean PROVE Shape(Nat, l, Cacheable, lost, sect.op = "clean")'
  BY <1>29, SameShape DEF SkipClean, IdleTick, IInv, TypeOK, ObjTypes
<1>30. ASSUME CleanDrop PROVE Shape(Nat, l, Cacheable, lost, sect.op = "clean")'
  <2>1. PICK o \in Obj : o = l.dhead
    BY <1>30 DEF CleanDrop, IInv, TypeOK, ListTypes, ListType, Ptr
  <2>2. Shape(Nat, DropFirst(l), Cacheable \ {o}, lost, TRUE)
    BY <1>30, <2>1, FirstIsCached DEF CleanDrop
  <2>3. l' = DropFirst(l) /\ UNCHANGED lost /\ status' = [status EXCEPT ![o] = "free"]
    BY <1>30, <2>1 DEF CleanDrop, Destroy
  <2>4. sect'.op = "clean"
    BY <1>30 DEF CleanDrop, IInv, TypeOK, ListTypes
  <2>5. Cacheable' = Cacheable \ {o}
    BY <2>3 DEF Cacheable, IInv, TypeOK, ObjTypes
  <2> QED BY <2>2, <2>3, <2>4, <2>5
<1>31. ASSUME CleanKeep PROVE Shape(Nat, l, Cacheable, lost, sect.op = "clean")'
  <2>1. /\ l' = KeepFirst(l) /\ UNCHANGED <<lost, status, sect>>
        /\ l.dhead # Nil /\ sect.op = "clean"
    BY <1>31 DEF CleanKeep
  <2>2. Cacheable' = Cacheable
    BY <2>1 DEF Cacheable
  <2>3. Shape(Nat, KeepFirst(l), Cacheable, lost, TRUE)
    BY <2>1, ShapeFacts, KeepFirstShape
  <2> QED BY <2>1, <2>2, <2>3
<1>32. ASSUME CleanEnd PROVE Shape(Nat, l, Cacheable, lost, sect.op = "clean")'
  <2>1. /\ l' = FinishClean(l) /\ lost' = (lost \/ LosesList(l)) /\ UNCHANGED status
        /\ sect.op = "clean" /\ sect'.op # "clean"
    BY <1>32 DEF CleanEnd, NoSection
  <2>2. Cacheable' = Cacheable
    BY <2>1 DEF Cacheable
  <2>3. Shape(Nat, FinishClean(l), Cacheable, lost \/ LosesList(l), FALSE)
    BY <2>1, ShapeFacts, FinishCleanShape
  <2> QED BY <2>1, <2>2, <2>3
<1>33. ASSUME Booted PROVE Shape(Nat, l, Cacheable, lost, sect.op = "clean")'
  <2>1. UNCHANGED <<lost, status, sect>> /\ sect.op # "clean"
    BY <1>33 DEF Booted, ListFree, IInv, Phases
  <2>2. Cacheable' = Cacheable
    BY <2>1 DEF Cacheable
  <2>3. Shape(Nat, [l EXCEPT !.head = l.end], Cacheable, lost, FALSE)
    BY <2>1, ShapeFacts, HeadToEndShape
  <2>4. l' = [l EXCEPT !.head = l.end] \/ l' = l
    BY <1>33 DEF Booted
  <2>5. CASE l' = l
    BY <2>1, <2>5, SameShape
  <2>6. CASE l' = [l EXCEPT !.head = l.end]
    BY <2>1, <2>2, <2>3, <2>6
  <2> QED BY <2>4, <2>5, <2>6
<1>34. ASSUME NEW o \in Obj, NEW u \in Url, NEW s \in Sizes, Restore(o, u, s)
      PROVE  Shape(Nat, l, Cacheable, lost, sect.op = "clean")'
  <2>1. /\ l' = add_list(l, o) /\ status' = [status EXCEPT ![o] = "hashed"]
        /\ UNCHANGED <<lost, sect>> /\ sect.op # "clean"
    BY <1>34 DEF Restore, ListFree, IInv, Phases
  <2>2. Cacheable' = Cacheable \cup {o} /\ o \in Obj \ Cacheable
    BY <1>34, <2>1 DEF Restore, Cacheable, IInv, TypeOK, ObjTypes
  <2>3. Shape(Nat, add_list(l, o), Cacheable \cup {o}, lost, FALSE)
    BY <2>1, <2>2, ShapeFacts, AddListShape
  <2> QED BY <2>1, <2>2, <2>3
<1>35. ASSUME Shutdown PROVE Shape(Nat, l, Cacheable, lost, sect.op = "clean")'
  BY <1>35, SameShape DEF Shutdown, IInv, TypeOK, ObjTypes
<1>36. ASSUME EnterSaveAll PROVE Shape(Nat, l, Cacheable, lost, sect.op = "clean")'
  <2>1. sect.op # "clean" /\ sect'.op # "clean" /\ UNCHANGED <<l, lost, status>>
    BY <1>36 DEF EnterSaveAll, ListFree, IInv, Phases
  <2> QED BY <2>1, SameShape
<1>37. ASSUME SaveIndexAndExit PROVE Shape(Nat, l, Cacheable, lost, sect.op = "clean")'
  BY <1>37, SameShape DEF SaveIndexAndExit, IInv, TypeOK, ObjTypes
<1>38. ASSUME Ended PROVE Shape(Nat, l, Cacheable, lost, sect.op = "clean")'
  BY <1>38, SameShape DEF Ended, vars, IInv, TypeOK, ObjTypes
<1>39. CASE UNCHANGED vars
  BY SameShape, <1>39 DEF vars
<1> HIDE DEF objVars, sizeVars, listVars, cliVars, gcVars
<1> QED
  BY <1>1, <1>2, <1>3, <1>4, <1>5, <1>6, <1>7, <1>8, <1>9, <1>10, <1>11,
    <1>12, <1>13, <1>14, <1>15, <1>16, <1>17, <1>18, <1>19, <1>20, <1>21,
    <1>22, <1>23, <1>24, <1>25, <1>26, <1>27, <1>28, <1>29, <1>30, <1>31,
    <1>32, <1>33, <1>34, <1>35, <1>36, <1>37, <1>38, <1>39 DEF Next, Request,
    Work, Collect, Boot, Stop

-----------------------------------------------------------------------------
(* The theorems                                                            *)

(* The invariant holds at the start, where nothing is cached.              *)
LEMMA InitIInv ==
  ASSUME Init
  PROVE  IInv(Nat)
<1>1. TypeOK
  <2>1. ObjTypes
    BY DEF Init, ObjTypes, Status
  <2>2. ListTypes
    <3>1. EmptyList \in ListType
      BY DEF EmptyList, ListType, Ptr
    <3>2. tick \in [pc : {"idle", "delete", "clean"}, mem : Int, disk : Int]
      BY DEF Init, IdleTick
    <3>3. sect \in [by : {"none", "time", "main"}, op : {"none", "delete", "clean"}, m : Int]
      BY DEF Init, NoSection
    <3>4. lost \in BOOLEAN
      BY Zenon DEF Init
    <3>5. /\ memSize \in Int /\ diskSize \in Int /\ l \in ListType
          /\ cache_model \in {"CLEAN_CACHE", "DROP_DEAD"} /\ main = "boot"
      BY <3>1 DEF Init
    <3> QED BY <3>2, <3>3, <3>4, <3>5 DEF ListTypes
  <2>3. ClientTypes
    BY DEF Init, ClientTypes, PCs, AfterPCs, Ptr
  <2> QED BY <2>1, <2>2, <2>3 DEF TypeOK
<1>2. (\A c \in Client : ClientOK(c)) /\ Private /\ LeakedIsCached /\ Phases
  BY DEF Init, ClientOK, HoldingPCs, AfterPCs, Private, LeakedIsCached, Phases,
    ListFree,
    NoSection
<1>3. \A o \in Obj : Holders(o) = {}
  BY DEF Init, Holders, HoldingPCs, AfterPCs
<1>4. RefsCounted
  <2>1. ASSUME NEW o \in Obj PROVE refs[o] = Cardinality(Holders(o)) + leaked[o]
    <3>1. Cardinality(Holders(o)) = 0
      BY <1>3, FS_EmptySet
    <3> QED BY <3>1 DEF Init
  <2> QED BY <2>1 DEF RefsCounted
<1>5. HeldIsCached /\ SendingHasBody /\ OneLivePerUrl
  BY <1>3 DEF Init, HeldIsCached, SendingHasBody, OneLivePerUrl, Cached, Live
<1>6. Cacheable = {} /\ l = EmptyList /\ lost = FALSE /\ sect.op = "none"
  BY DEF Init, Cacheable, NoSection
<1>7. Shape(Nat, EmptyList, {}, FALSE, FALSE)
  <2> DEFINE f == [i \in 1 .. 0 |-> Nil]
  <2>1. f \in [1 .. 0 -> {}]
    OBVIOUS
  <2>2. Rows(EmptyList, {}, 0, f, 0, f) /\ Complete({}, 0, f, 0, f)
    BY <2>1 DEF Rows, Row, Complete, EmptyList
  <2>3. Settled(EmptyList, {}, 0) /\ Linked(EmptyList, {}) /\ EmptyList.head = Nil
    BY DEF Settled, Linked, EmptyList
  <2>4. \E g, h \in [1 .. 0 -> {}] :
          Rows(EmptyList, {}, 0, g, 0, h) /\ Complete({}, 0, g, 0, h) /\ Settled(EmptyList, {}, 0)
    BY <2>1, <2>2, <2>3
  <2> QED BY <2>3, <2>4 DEF Shape
<1> QED BY <1>1, <1>2, <1>4, <1>5, <1>6, <1>7 DEF IInv

(* What the proof is about: IInv holds in every reachable state, for any   *)
(* number of threads, objects and URLs, and any limits.                    *)
THEOREM Inductive == Spec => []IInv(Nat)
<1>1. Init => IInv(Nat)
  BY InitIInv
<1>2. IInv(Nat) /\ [Next]_vars => IInv(Nat)'
  <2>1. SUFFICES ASSUME IInv(Nat), [Next]_vars PROVE IInv(Nat)'
    OBVIOUS
  <2>2. TypeOK' /\ (\A d \in Client : ClientOK(d))' /\ Private' /\ LeakedIsCached' /\ Phases'
    BY <2>1, TypeStep, ClientStep, PrivateStep, LeakedStep, PhasesStep
  <2>3. RefsCounted' /\ HeldIsCached' /\ SendingHasBody' /\ OneLivePerUrl'
    BY <2>1, RefsStep, HeldStep, SendingStep, OneLiveStep
  <2>4. Shape(Nat, l, Cacheable, lost, sect.op = "clean")'
    BY <2>1, ShapeStep
  <2> QED BY <2>2, <2>3, <2>4 DEF IInv
<1> QED BY <1>1, <1>2, PTL DEF Spec

(* Types, and refs >= 0, which release_obj asserts (run_client.cpp:1230).  *)
THEOREM TypeCorrect == Spec => []TypeOK
<1>1. IInv(Nat) => TypeOK
  BY DEF IInv
<1> QED BY <1>1, Inductive, PTL

(* obj->refs is the number of threads between locate_in_mem and            *)
(* release_obj, plus what only-if-cached requests left behind.             *)
THEOREM ReferencesAreCounted == Spec => []RefsCounted
<1>1. IInv(Nat) => RefsCounted
  BY DEF IInv
<1> QED BY <1>1, Inductive, PTL

(* clean_disk and destroy_obj never free an object that a thread located   *)
(* and has not yet given back.                                             *)
THEOREM NoUseAfterFree == Spec => []HeldIsCached
<1>1. IInv(Nat) => HeldIsCached
  BY DEF IInv
<1> QED BY <1>1, Inductive, PTL

(* delete_cache never frees the container that send_data_from_obj walks,   *)
(* as long as the program is not shutting down.                            *)
THEOREM NoSendAfterSwapOut == Spec => []SendingHasBody
<1>1. IInv(Nat) => SendingHasBody
  BY DEF IInv
<1> QED BY <1>1, Inductive, PTL

(* stored_obj and load_all_from_disk never leave two live objects of one   *)
(* URL in the hash table.                                                  *)
THEOREM OneLiveObject == Spec => []OneLivePerUrl
<1>1. IInv(Nat) => OneLivePerUrl
  BY DEF IInv
<1> QED BY <1>1, Inductive, PTL

(* update_list and dead_list meet no NULL pointer in an intact list, and   *)
(* update_list none in a lost one either.                                  *)
THEOREM ListIsSafe == Spec => []NoNullDereference
<1>1. IInv(Nat) => NoNullDereference
  <2>1. SUFFICES ASSUME IInv(Nat), ListFree, NEW c \in Client
                 PROVE  /\ pc[c] = "rate" => ~UpdateListFaults(l, held[c])
                        /\ pc[c] = "bury" /\ ~lost => ~DeadListFaults(l, held[c])
    BY DEF NoNullDereference
  <2>2. SUFFICES ASSUME pc[c] \in {"rate", "bury"}
                 PROVE  /\ ~UpdateListFaults(l, held[c])
                        /\ ~lost => ~DeadListFaults(l, held[c])
    OBVIOUS
  <2>3. held[c] \in Obj /\ c \in Holders(held[c])
    BY <2>1, <2>2, NilAssumption DEF IInv, ClientOK, TypeOK, ClientTypes, Ptr,
      Holders,
      HoldingPCs, AfterPCs
  <2>4. held[c] \in Cacheable
    BY <2>1, <2>3 DEF IInv, HeldIsCached, Cacheable
  <2>5. Shape(Nat, l, Cacheable, lost, FALSE)
    BY <2>1, ShapeFacts DEF ListFree, IInv, Phases
  <2> QED BY <2>1, <2>4, <2>5, ShapeFacts, UpdateListShape, DeadListShape
<1> QED BY <1>1, Inductive, PTL

-----------------------------------------------------------------------------
(* The list the pointers spell is sound, and it is a recency list: ListSound
   and the refinement of LruList.  ListMove says which operator of ObjList a
   step applies; the lemmas of ObjListProofs say what that operator does to
   the order; the lemmas below say which action of LruList this is.        *)

(* The recency list is abstracted to a sequence without repetitions.       *)
LEMMA LruOrder ==
  ASSUME IInv(Nat), ~lost
  PROVE  /\ Order(l) \in Seq(Cacheable)
         /\ \A i, j \in 1 .. Len(Order(l)) : Order(l)[i] = Order(l)[j] => i = j
         /\ \A p \in Cacheable : \E i \in 1 .. Len(Order(l)) : Order(l)[i] = p
<1>1. /\ Cacheable \in SUBSET Obj /\ l \in ListType /\ IsFiniteSet(Obj)
      /\ Shape(Nat, l, Cacheable, FALSE, sect.op = "clean")
  BY ShapeFacts, ConstantsAssumption
<1>2. CASE sect.op = "clean"
  BY <1>1, <1>2, OrderIsEnumeration
<1>3. CASE sect.op # "clean"
  BY <1>1, <1>3, OrderIsEnumeration
<1> QED BY <1>2, <1>3

(* Its members are the cached objects, and Position is where they are.     *)
LEMMA LruMembers ==
  ASSUME IInv(Nat), ~lost
  PROVE  /\ Lru!Members = Cacheable
         /\ \A j \in 1 .. Len(Order(l)) : Lru!Position(Order(l)[j]) = j
<1> DEFINE s == Order(l)
<1>1. /\ s \in Seq(Cacheable) /\ DOMAIN s = 1 .. Len(s)
      /\ \A i, j \in 1 .. Len(s) : s[i] = s[j] => i = j
      /\ \A p \in Cacheable : \E i \in 1 .. Len(s) : s[i] = p
  BY LruOrder
<1>2. Lru!Members = {s[i] : i \in DOMAIN s}
  BY DEF Lru!Members
<1>3. ASSUME NEW j \in 1 .. Len(s) PROVE Lru!Position(s[j]) = j
  <2>1. Lru!Position(s[j]) = CHOOSE i \in DOMAIN s : s[i] = s[j]
    BY DEF Lru!Position
  <2> HIDE DEF s
  <2> QED BY <1>1, <2>1
<1> HIDE DEF s
<1>4. {s[i] : i \in DOMAIN s} = Cacheable
  BY <1>1
<1> QED BY <1>2, <1>3, <1>4 DEF s

(* The ways a step can change the list: which operator of ObjList it       *)
(* applies, to which objects, and when.                                    *)
ListMove ==
  \/ UNCHANGED <<l, lost>>
  \/ /\ sect.op # "clean" /\ UNCHANGED lost
     /\ \/ \E o \in Obj \ Cacheable : l' = add_list(l, o)
        \/ \E o \in Cacheable : /\ \E c \in Client : Rate(c) /\ held[c] = o
                                 /\ l' = update_list(l, o)
        \/ \E o \in Cacheable : /\ \E c \in Client : Bury(c) /\ held[c] = o
                                 /\ l' = dead_list(l, o)
        \/ /\ l.head # Nil /\ (main \in Early => l.next[l.head] # Nil)
           /\ l' = AdvanceHead(l)
        \/ main = "boot" /\ l' = [l EXCEPT !.head = l.end]
  \/ /\ sect.op = "clean"
     /\ \/ l.dhead # Nil /\ l' = DropFirst(l) /\ UNCHANGED lost
        \/ l.dhead # Nil /\ l' = KeepFirst(l) /\ UNCHANGED lost
        \/ l' = FinishClean(l) /\ lost' = (lost \/ LosesList(l))

(* stored_obj either leaves the list or adds a private object to it.       *)
LEMMA StoredMove ==
  ASSUME IInv(Nat), NEW c \in Client, mine[c] # Nil, StoredObj(mine[c]), UNCHANGED lost
  PROVE  ListMove
<1>1. CASE UNCHANGED l
  BY <1>1 DEF ListMove
<1>2. CASE l' # l
  <2>1. PICK o \in Obj : o = mine[c] /\ status[o] = "private"
    BY DEF IInv, TypeOK, ClientTypes, Ptr, Private
  <2>2. l' = add_list(l, o) /\ ListFree
    BY <1>2, <2>1 DEF StoredObj
  <2>3. sect.op # "clean" /\ o \in Obj \ Cacheable
    BY <2>1, <2>2 DEF ListFree, IInv, Phases, Cacheable
  <2> QED BY <2>2, <2>3 DEF ListMove
<1> QED BY <1>1, <1>2

(* A thread at a control point where it uses an object uses a cached one.  *)
LEMMA HeldMember ==
  ASSUME IInv(Nat), NEW c \in Client, pc[c] \in {"bury", "rate"}
  PROVE  held[c] \in Cacheable
<1>1. PICK o \in Obj : o = held[c] /\ c \in Holders(o)
  BY NilAssumption DEF IInv, ClientOK, TypeOK, ClientTypes, Ptr, Holders, HoldingPCs,
    AfterPCs
<1> QED BY <1>1 DEF IInv, HeldIsCached, Cacheable

(* Every step makes one of these moves.                                    *)
LEMMA ListStep ==
  ASSUME IInv(Nat), [Next]_vars
  PROVE  ListMove
<1> USE DEF objVars, sizeVars, listVars, cliVars, gcVars
<1>1. ASSUME NEW c \in Client, Request(c) PROVE ListMove
  BY <1>1 DEF Request, LocateHit, LocateNew, LocateOnlyIfCached, ListMove
<1>2. ASSUME NEW c \in Client, Work(c) PROVE ListMove
  <2>1. ASSUME NEW s \in Sizes, NEW d \in BOOLEAN,
               FetchDone(c, s, d) \/ RevalidateOk(c, s, d)
        PROVE  ListMove
    BY <2>1 DEF FetchDone, RevalidateOk, ListMove
  <2>2. CASE RefuseFatboy(c) \/ FetchFails(c) \/ Serve(c) \/ Revalidate(c)
    BY <2>2 DEF RefuseFatboy, FetchFails, Serve, Revalidate, ListMove
  <2>3. CASE RevalidateNotModified(c) \/ RevalidateFails(c) \/ SwapIn(c) \/ Sent(c)
    BY <2>3 DEF RevalidateNotModified, RevalidateFails, SwapIn, Sent, ListMove
  <2>4. CASE Kill(c) \/ BuryFaults(c) \/ Mark(c) \/ Release(c) \/ Unlock(c) \/ Forget(c)
    BY <2>4 DEF Kill, BuryFaults, Crash, Mark, Release, Unlock, Forget, ListMove
  <2>5. CASE Store(c)
    <3>1. mine[c] # Nil
      BY <2>5 DEF Store, IInv, ClientOK
    <3> QED BY <2>5, <3>1, StoredMove DEF Store
  <2>6. CASE Replace(c)
    <3>1. mine[c] # Nil
      BY <2>6 DEF Replace, IInv, ClientOK
    <3> QED BY <2>6, <3>1, StoredMove DEF Replace
  <2>7. CASE Bury(c)
    <3>1. held[c] \in Cacheable
      BY <2>7, HeldMember DEF Bury
    <3>2. /\ l' = dead_list(l, held[c]) /\ UNCHANGED lost /\ sect.op # "clean"
      BY <2>7 DEF Bury, ListFree, IInv, Phases
    <3> QED BY <2>7, <3>1, <3>2 DEF ListMove
  <2>8. CASE Rate(c)
    <3>1. CASE UNCHANGED l
      BY <2>8, <3>1 DEF Rate, ListMove
    <3>2. CASE ListFree /\ l' = update_list(l, held[c])
      <4>1. held[c] \in Cacheable
        BY <2>8, HeldMember DEF Rate
      <4>2. UNCHANGED lost /\ sect.op # "clean"
        BY <2>8, <3>2 DEF Rate, ListFree, IInv, Phases
      <4> QED BY <2>8, <3>2, <4>1, <4>2 DEF ListMove
    <3> QED BY <2>8, <3>1, <3>2 DEF Rate
  <2> QED BY <1>2, <2>1, <2>2, <2>3, <2>4, <2>5, <2>6, <2>7, <2>8 DEF Work
<1>3. ASSUME Collect PROVE ListMove
  <2>1. CASE ReadSizes \/ EnterDelete \/ DeleteEnd \/ EnterClean \/ SkipClean
    BY <2>1 DEF ReadSizes, EnterDelete, DeleteEnd, EnterClean, SkipClean, ListMove
  <2>2. CASE DeleteStep
    <3>1. /\ l' = AdvanceHead(l) /\ UNCHANGED lost /\ sect.op # "clean"
          /\ l.head # Nil /\ (sect.by # "main" => l.next[l.head] # Nil)
      BY <2>2 DEF DeleteStep, DeleteStops
    <3>2. main \in Early => sect.by # "main"
      BY DEF IInv, Phases, Early
    <3> QED BY <3>1, <3>2 DEF ListMove
  <2>3. CASE CleanDrop
    BY <2>3 DEF CleanDrop, ListMove
  <2>4. CASE CleanKeep
    BY <2>4 DEF CleanKeep, ListMove
  <2>5. CASE CleanEnd
    BY <2>5 DEF CleanEnd, ListMove
  <2> QED BY <1>3, <2>1, <2>2, <2>3, <2>4, <2>5 DEF Collect
<1>4. ASSUME Boot PROVE ListMove
  <2>1. CASE Booted
    <3>1. sect.op # "clean" /\ UNCHANGED lost /\ main = "boot"
      BY <2>1 DEF Booted, ListFree, IInv, Phases
    <3> QED BY <2>1, <3>1 DEF Booted, ListMove
  <2>2. ASSUME NEW o \in Obj, NEW u \in Url, NEW s \in Sizes, Restore(o, u, s)
        PROVE  ListMove
    <3>1. /\ l' = add_list(l, o) /\ UNCHANGED lost /\ sect.op # "clean"
          /\ o \in Obj \ Cacheable
      BY <2>2 DEF Restore, ListFree, IInv, Phases, Cacheable
    <3> QED BY <3>1 DEF ListMove
  <2> QED BY <1>4, <2>1, <2>2 DEF Boot
<1>5. ASSUME Stop PROVE ListMove
  BY <1>5 DEF Stop, Shutdown, EnterSaveAll, SaveIndexAndExit, ListMove
<1>6. CASE Ended \/ UNCHANGED vars
  BY <1>6 DEF Ended, vars, ListMove
<1> HIDE DEF objVars, sizeVars, listVars, cliVars, gcVars
<1> QED BY <1>1, <1>2, <1>3, <1>4, <1>5, <1>6 DEF Next

(* The process never goes back to the phase before its shutdown.           *)
LEMMA EarlyStep ==
  ASSUME IInv(Nat), [Next]_vars, main' \in Early
  PROVE  main \in Early
<1> USE DEF objVars, sizeVars, listVars, cliVars, gcVars, Early
<1>1. ASSUME NEW c \in Client, Request(c) PROVE main \in Early
  BY <1>1 DEF Request, LocateHit, LocateNew, LocateOnlyIfCached
<1>2. ASSUME NEW c \in Client, Work(c) PROVE main \in Early
  <2>1. ASSUME NEW s \in Sizes, NEW d \in BOOLEAN,
               FetchDone(c, s, d) \/ RevalidateOk(c, s, d)
        PROVE  main \in Early
    BY <2>1 DEF FetchDone, RevalidateOk
  <2>2. CASE RefuseFatboy(c) \/ FetchFails(c) \/ Serve(c) \/ Revalidate(c)
    BY <2>2 DEF RefuseFatboy, FetchFails, Serve, Revalidate
  <2>3. CASE RevalidateNotModified(c) \/ RevalidateFails(c) \/ SwapIn(c) \/ Sent(c)
    BY <2>3 DEF RevalidateNotModified, RevalidateFails, SwapIn, Sent
  <2>4. CASE Kill(c) \/ BuryFaults(c) \/ Mark(c) \/ Release(c) \/ Unlock(c) \/ Forget(c)
    BY <2>4 DEF Kill, BuryFaults, Crash, Mark, Release, Unlock, Forget
  <2>5. CASE Store(c) \/ Replace(c) \/ Bury(c) \/ Rate(c)
    BY <2>5 DEF Store, Replace, Bury, Rate
  <2> QED BY <1>2, <2>1, <2>2, <2>3, <2>4, <2>5 DEF Work
<1>3. ASSUME Collect PROVE main \in Early
  <2>1. CASE ReadSizes \/ EnterDelete \/ EnterClean \/ SkipClean
    BY <2>1 DEF ReadSizes, EnterDelete, EnterClean, SkipClean
  <2>2. CASE DeleteEnd \/ DeleteStep
    BY <2>2 DEF DeleteEnd, DeleteStep, LeaveDelete
  <2>3. CASE CleanDrop \/ CleanKeep \/ CleanEnd
    BY <2>3 DEF CleanDrop, CleanKeep, CleanEnd
  <2> QED BY <1>3, <2>1, <2>2, <2>3 DEF Collect
<1>4. CASE Boot \/ Stop \/ Ended \/ UNCHANGED vars
  BY <1>4 DEF Boot, Booted, Restore, Stop, Shutdown, EnterSaveAll, SaveIndexAndExit, Ended,
    vars
<1> HIDE DEF objVars, sizeVars, listVars, cliVars, gcVars, Early
<1> QED BY <1>1, <1>2, <1>3, <1>4 DEF Next

(* Outside clean_disk the list is empty when l_dhead is NULL.              *)
LEMMA EmptyOrder ==
  ASSUME IInv(Nat), ~lost, sect.op # "clean"
  PROVE  l.dhead = Nil <=> Order(l) = << >>
<1>1. Cacheable \in SUBSET Obj /\ l \in ListType /\ IsFiniteSet(Obj)
      /\ Shape(Nat, l, Cacheable, FALSE, FALSE)
  BY ShapeFacts, ConstantsAssumption
<1>2. PICK n \in Nat : \E f \in [1 .. n -> Cacheable] : SettledRow(l, Cacheable, n, f)
  BY <1>1, SettledOrder
<1>3. PICK f \in [1 .. n -> Cacheable] : SettledRow(l, Cacheable, n, f)
  BY <1>2
<1>4. Order(l) = f /\ l.dhead = IF n = 0 THEN Nil ELSE f[1]
  BY <1>3 DEF SettledRow
<1>5. Nil \notin Cacheable
  BY NilAssumption DEF Cacheable
<1> QED BY <1>4, <1>5

(* Only a sweep of the shutdown or a lost list leaves l_head behind.       *)
LEMMA HeadIsSetStep ==
  ASSUME IInv(Nat), HeadIsSet, [Next]_vars
  PROVE  HeadIsSet'
<1> SUFFICES ASSUME main' \in Early, ~lost', l'.dhead # Nil PROVE l'.head # Nil
  BY DEF HeadIsSet, Early
<1>1. main \in Early /\ ListMove
  BY EarlyStep, ListStep
<1>2. ~lost /\ lost \in BOOLEAN
  BY <1>1, ShapeFacts DEF ListMove
<1>3. l.dhead # Nil => l.head # Nil
  BY <1>1, <1>2 DEF HeadIsSet
<1>4. /\ l \in ListType /\ Cacheable \in SUBSET Obj /\ IsFiniteSet(Obj)
      /\ Nil \notin Cacheable
  BY ShapeFacts, NilAssumption, ConstantsAssumption DEF Cacheable
<1> DEFINE s == Order(l)
<1>5. ASSUME sect.op # "clean"
      PROVE  /\ Shape(Nat, l, Cacheable, FALSE, FALSE) /\ s \in Seq(Cacheable)
             /\ s # << >> => l.head # Nil
             /\ s # << >> => s[Len(s)] # Nil
             /\ \A j \in 1 .. Len(s) : s # << >> /\ s[j] # Nil
  <2>1. /\ s \in Seq(Cacheable) /\ (s # << >> => l.head # Nil)
        /\ Shape(Nat, l, Cacheable, FALSE, FALSE)
    BY <1>2, <1>3, <1>5, EmptyOrder, LruOrder, ShapeFacts
  <2> HIDE DEF s
  <2>2. \A j \in 1 .. Len(s) : s[j] \in Cacheable
    BY <2>1
  <2>3. /\ s # << >> => Len(s) \in 1 .. Len(s)
        /\ \A j \in 1 .. Len(s) : s # << >>
    BY <2>1
  <2> QED BY <1>4, <2>1, <2>2, <2>3
<1>6. CASE UNCHANGED <<l, lost>>
  BY <1>3, <1>6
<1>7. ASSUME sect.op # "clean", NEW o \in Obj \ Cacheable, l' = add_list(l, o)
      PROVE  l'.head # Nil
  <2>1. add_list(l, o).head = IF s = << >> THEN o ELSE l.head
    BY <1>4, <1>5, <1>7, AddListOrder
  <2> QED BY <1>5, <1>7, <2>1, NilAssumption
<1>8. ASSUME sect.op # "clean", NEW o \in Cacheable, l' = update_list(l, o)
      PROVE  l'.head # Nil
  <2>1. PICK j \in 1 .. Len(s) :
          l'.head = IF o = l.head /\ j # Len(s) THEN s[j + 1] ELSE l.head
    BY <1>4, <1>5, <1>8, UpdateListOrder, ZenonT(60)
  <2>2. Len(s) \in Nat
    BY <1>5, <1>8
  <2> HIDE DEF s
  <2>3. j # Len(s) => j + 1 \in 1 .. Len(s)
    BY <2>2
  <2> QED BY <1>5, <1>8, <2>1, <2>3
<1>9. ASSUME sect.op # "clean", NEW o \in Cacheable, l' = dead_list(l, o)
      PROVE  l'.head # Nil
  <2>0. Shape(Nat, l, Cacheable, FALSE, FALSE)
    BY <1>5, <1>9
  <2>1. PICK j \in 1 .. Len(s) : s[j] = o /\ MovedFirst(l, l', s, j)
    BY <1>4, <1>9, <2>0, DeadListOrder
  <2>2. Len(s) \in Nat
    BY <1>5, <1>9
  <2> HIDE DEF s
  <2>3. /\ j # Len(s) => j + 1 \in 1 .. Len(s)
        /\ j # 1 => j - 1 \in 1 .. Len(s)
    BY <2>2
  <2> QED BY <1>5, <1>9, <2>1, <2>3 DEF MovedFirst
<1>10. ASSUME l.next[l.head] # Nil, l' = AdvanceHead(l) PROVE l'.head # Nil
  BY <1>4, <1>10 DEF AdvanceHead, ListType
<1>11. ASSUME sect.op # "clean", l' = [l EXCEPT !.head = l.end] PROVE l'.head # Nil
  <2>1. l'.head = IF s = << >> THEN Nil ELSE s[Len(s)]
    BY <1>4, <1>5, <1>11, HeadToEndOrder
  <2>2. l'.dhead = l.dhead
    BY <1>4, <1>11 DEF ListType
  <2> QED BY <1>2, <1>5, <1>11, <2>1, <2>2, EmptyOrder
<1>12. ASSUME l.dhead # Nil, l' = DropFirst(l) PROVE l'.head # Nil
  BY <1>3, <1>4, <1>12 DEF DropFirst, PassFirst, ListType
<1>13. ASSUME l.dhead # Nil, l' = KeepFirst(l) PROVE l'.head # Nil
  BY <1>3, <1>4, <1>13, KeepFirstLinks
<1>14. ASSUME l' = FinishClean(l), lost' = (lost \/ LosesList(l)) PROVE l'.head # Nil
  <2>1. l.dhead # Nil \/ l.thead = Nil
    BY <1>14 DEF LosesList
  <2>2. CASE l.dhead = Nil
    BY <1>4, <1>14, <2>1, <2>2 DEF FinishClean, ListType
  <2>3. CASE l.dhead # Nil
    <3>1. l'.head = l.head
      BY <1>4, <1>14, <2>3 DEF FinishClean, ListType
    <3> QED BY <1>3, <2>3, <3>1
  <2> QED BY <2>2, <2>3
<1> QED
  BY <1>1, <1>6, <1>7, <1>8, <1>9, <1>10, <1>11, <1>12, <1>13, <1>14 DEF ListMove

(* The abstract operators, in terms of the order of the list.              *)
LEMMA LruTerms ==
  ASSUME IInv(Nat), ~lost, NEW j \in 1 .. Len(Order(l)), NEW o, o = Order(l)[j]
  PROVE  /\ Lru!Next2(o) = IF j = Len(Order(l)) THEN Nil ELSE Order(l)[j + 1]
         /\ Lru!Last = Order(l)[Len(Order(l))]
         /\ o = Lru!Last <=> j = Len(Order(l))
         /\ Lru!Without(o) = [i \in 1 .. Len(Order(l)) - 1 |->
                                IF i < j THEN Order(l)[i] ELSE Order(l)[i + 1]]
<1>1. Lru!Position(o) = j
  BY LruMembers
<1>2. /\ Order(l) \in Seq(Cacheable)
      /\ \A i, k \in 1 .. Len(Order(l)) : Order(l)[i] = Order(l)[k] => i = k
  BY LruOrder
<1>3. Lru!Next2(o) = IF j = Len(Order(l)) THEN Nil ELSE Order(l)[j + 1]
  BY <1>1 DEF Lru!Next2
<1>4. Lru!Last = Order(l)[Len(Order(l))]
  BY DEF Lru!Last
<1>5. o = Lru!Last <=> j = Len(Order(l))
  <2>1. Len(Order(l)) \in 1 .. Len(Order(l))
    BY <1>2
  <2> QED BY <1>2, <1>4, <2>1
<1>6. Lru!Without(o) = [i \in 1 .. Len(Order(l)) - 1 |->
                          IF i < j THEN Order(l)[i] ELSE Order(l)[i + 1]]
  BY <1>1 DEF Lru!Without
<1> QED BY <1>3, <1>4, <1>5, <1>6

(* A sequence without one of its elements.                                 *)
LEMMA CutSeq ==
  ASSUME NEW S, NEW s \in Seq(S), NEW j \in 1 .. Len(s)
  PROVE  LET w == [i \in 1 .. Len(s) - 1 |-> IF i < j THEN s[i] ELSE s[i + 1]]
         IN  w \in Seq(S) /\ Len(w) = Len(s) - 1
<1> DEFINE w == [i \in 1 .. Len(s) - 1 |-> IF i < j THEN s[i] ELSE s[i + 1]]
<1>1. Len(s) - 1 \in Nat /\ w \in [1 .. Len(s) - 1 -> S]
  OBVIOUS
<1> HIDE DEF w
<1>2. w \in Seq(S) /\ Len(w) = Len(s) - 1
  BY <1>1
<1> QED BY <1>2 DEF w

(* add_list, as the abstract list sees it.                                 *)
LEMMA AddIsLru ==
  ASSUME IInv(Nat), ~lost, ~lost', sect.op # "clean",
         NEW o \in Obj \ Cacheable, l' = add_list(l, o)
  PROVE  Lru!Add(o)
<1>1. /\ l \in ListType /\ Cacheable \in SUBSET Obj /\ IsFiniteSet(Obj)
      /\ Shape(Nat, l, Cacheable, FALSE, FALSE)
  BY ShapeFacts, ConstantsAssumption
<1>2. /\ Order(l') = Append(Order(l), o)
      /\ l'.head = IF Order(l) = << >> THEN o ELSE l.head
  BY <1>1, AddListOrder
<1>3. o \notin Lru!Members
  BY LruMembers
<1> QED BY <1>2, <1>3 DEF Lru!Add

(* update_list, as the abstract list sees it.                              *)
LEMMA TouchIsLru ==
  ASSUME IInv(Nat), ~lost, ~lost', sect.op # "clean",
         NEW o \in Cacheable, l' = update_list(l, o)
  PROVE  Lru!Touch(o)
<1>1. /\ l \in ListType /\ Cacheable \in SUBSET Obj /\ IsFiniteSet(Obj)
      /\ Shape(Nat, l, Cacheable, FALSE, FALSE)
  BY ShapeFacts, ConstantsAssumption
<1> DEFINE s  == Order(l)
           s2 == Order(l')
<1>2. /\ s \in Seq(Cacheable) /\ s2 \in Seq(Cacheable) /\ Len(s2) = Len(s)
      /\ \E j \in 1 .. Len(s) :
           /\ s[j] = o
           /\ \A i \in 1 .. Len(s) :
                s2[i] = IF i < j THEN s[i] ELSE IF i < Len(s) THEN s[i + 1] ELSE o
           /\ l'.head = IF o = l.head /\ j # Len(s) THEN s[j + 1] ELSE l.head
  BY <1>1, UpdateListOrder, ZenonT(60)
<1>3. PICK j \in 1 .. Len(s) :
        /\ s[j] = o
        /\ \A i \in 1 .. Len(s) :
             s2[i] = IF i < j THEN s[i] ELSE IF i < Len(s) THEN s[i + 1] ELSE o
        /\ l'.head = IF o = l.head /\ j # Len(s) THEN s[j + 1] ELSE l.head
  BY <1>2
<1> DEFINE w == [i \in 1 .. Len(s) - 1 |-> IF i < j THEN s[i] ELSE s[i + 1]]
<1>4. /\ Lru!Next2(o) = IF j = Len(s) THEN Nil ELSE s[j + 1]
      /\ o = Lru!Last <=> j = Len(s)
      /\ Lru!Without(o) = w
  BY <1>3, LruTerms
<1>5. w \in Seq(Cacheable) /\ Len(w) = Len(s) - 1
  BY <1>2, CutSeq
<1>6. s2 = Append(w, o)
  <2>1. \A i \in 1 .. Len(s) - 1 : w[i] = IF i < j THEN s[i] ELSE s[i + 1]
    OBVIOUS
  <2> HIDE DEF w, s, s2
  <2>2. /\ Append(w, o) \in Seq(Cacheable) /\ Len(Append(w, o)) = Len(w) + 1
        /\ \A i \in 1 .. Len(w) : Append(w, o)[i] = w[i]
        /\ Append(w, o)[Len(w) + 1] = o
    BY <1>5, AppendProperties
  <2>3. Len(s) \in Nat
    BY <1>2
  <2>4. \A i \in 1 .. Len(s2) : s2[i] = Append(w, o)[i]
    BY <1>2, <1>3, <1>5, <2>1, <2>2, <2>3
  <2> DEFINE a == Append(w, o)
  <2>5. a \in Seq(Cacheable)
    BY <2>2
  <2>6. Len(s2) = Len(a)
    BY <1>2, <1>5, <2>2, <2>3
  <2>7. \A i \in 1 .. Len(s2) : s2[i] = a[i]
    BY <2>4
  <2>8. s2 \in Seq(Cacheable)
    BY <1>2
  <2> HIDE DEF a
  <2>9. s2 = a
    BY <2>5, <2>6, <2>7, <2>8, SeqEqual
  <2> QED BY <2>9 DEF a
<1>7. o \in Lru!Members
  BY LruMembers
<1> HIDE DEF w
<1> QED BY <1>3, <1>4, <1>6, <1>7 DEF Lru!Touch

(* dead_list, as the abstract list sees it.                                *)
LEMMA BuryIsLru ==
  ASSUME IInv(Nat), ~lost, ~lost', sect.op # "clean",
         NEW o \in Cacheable, l' = dead_list(l, o)
  PROVE  Lru!Bury(o)
<1>1. /\ l \in ListType /\ Cacheable \in SUBSET Obj /\ IsFiniteSet(Obj)
      /\ Shape(Nat, l, Cacheable, FALSE, FALSE)
  BY ShapeFacts, ConstantsAssumption
<1> DEFINE s  == Order(l)
           s2 == Order(l')
<1>2. s \in Seq(Cacheable) /\ s2 \in Seq(Cacheable)
  BY <1>1, DeadListOrder
<1>3. PICK j \in 1 .. Len(s) : s[j] = o /\ MovedFirst(l, l', s, j)
  BY <1>1, DeadListOrder
<1> DEFINE w == [i \in 1 .. Len(s) - 1 |-> IF i < j THEN s[i] ELSE s[i + 1]]
<1>4. /\ Lru!Next2(o) = IF j = Len(s) THEN Nil ELSE s[j + 1]
      /\ o = Lru!Last <=> j = Len(s)
      /\ Lru!Without(o) = w
  BY <1>3, LruTerms
<1>5. w \in Seq(Cacheable) /\ Len(w) = Len(s) - 1
  BY <1>2, CutSeq
<1>6. /\ Len(s2) = Len(s) /\ Len(s) \in Nat
      /\ \A i \in 1 .. Len(s) :
           s2[i] = IF i = 1 THEN o ELSE IF i <= j THEN s[i - 1] ELSE s[i]
      /\ l'.head = IF o # l.head \/ j = 1 THEN l.head
                   ELSE IF j = Len(s) THEN s[j - 1] ELSE s[j + 1]
  BY <1>2, <1>3 DEF MovedFirst
<1>7. s2 = <<o>> \o w
  <2>1. \A i \in 1 .. Len(s) - 1 : w[i] = IF i < j THEN s[i] ELSE s[i + 1]
    OBVIOUS
  <2> HIDE DEF w, s, s2
  <2> DEFINE b == <<o>>
  <2>2. b \in Seq(Cacheable) /\ Len(b) = 1 /\ b[1] = o
    OBVIOUS
  <2> HIDE DEF b
  <2>3. /\ b \o w \in Seq(Cacheable) /\ Len(b \o w) = 1 + Len(w)
        /\ \A i \in 1 .. 1 + Len(w) : (b \o w)[i] = IF i <= 1 THEN b[i] ELSE w[i - 1]
    <3>1. b \in Seq(Cacheable) /\ w \in Seq(Cacheable)
      BY <1>5, <2>2
    <3>2. b \o w \in Seq(Cacheable)
      BY <3>1, ConcatProperties
    <3>3. Len(b \o w) = Len(b) + Len(w)
      BY <3>1, ConcatProperties
    <3>4. \A i \in 1 .. Len(b) + Len(w) :
            (b \o w)[i] = IF i <= Len(b) THEN b[i] ELSE w[i - Len(b)]
      BY <3>1, ConcatProperties
    <3> QED BY <2>2, <3>2, <3>3, <3>4
  <2>4. ASSUME NEW i \in 1 .. Len(s2) PROVE s2[i] = (b \o w)[i]
    <3>1. CASE i = 1
      BY <1>5, <1>6, <2>2, <2>3, <3>1
    <3>2. CASE i # 1
      <4>1. i - 1 \in 1 .. Len(s) - 1 /\ i \in 1 .. 1 + Len(w) /\ i \in 1 .. Len(s)
        BY <1>5, <1>6, <3>2
      <4>2. (b \o w)[i] = w[i - 1]
        BY <2>3, <3>2, <4>1
      <4>3. w[i - 1] = IF i <= j THEN s[i - 1] ELSE s[i]
        <5> DEFINE h == i - 1
        <5>1. h \in 1 .. Len(s) - 1 /\ (h < j <=> i <= j) /\ h + 1 = i
          BY <4>1
        <5> HIDE DEF h
        <5>2. w[h] = IF i <= j THEN s[h] ELSE s[i]
          BY <2>1, <5>1
        <5> QED BY <5>2 DEF h
      <4> QED BY <1>6, <3>2, <4>1, <4>2, <4>3
    <3> QED BY <3>1, <3>2
  <2>5. Len(s2) = Len(b \o w)
    BY <1>5, <1>6, <2>3
  <2>6. s2 = b \o w
    BY <1>2, <2>3, <2>4, <2>5, SeqEqual
  <2> QED BY <2>6 DEF b
<1>8. o \in Lru!Members
  BY LruMembers
<1>9. Lru!Position(o) = j
  BY <1>3, LruMembers
<1> HIDE DEF w
<1> QED BY <1>3, <1>4, <1>6, <1>7, <1>8, <1>9 DEF Lru!Bury

(* DropFirst, as the abstract list sees it.                                *)
LEMMA RemoveIsLru ==
  ASSUME IInv(Nat), ~lost, ~lost', sect.op = "clean", l.dhead # Nil, l' = DropFirst(l)
  PROVE  l.dhead \in Cacheable /\ Lru!Remove(l.dhead)
<1>1. /\ l \in ListType /\ Cacheable \in SUBSET Obj /\ IsFiniteSet(Obj)
      /\ Shape(Nat, l, Cacheable, FALSE, TRUE)
  BY ShapeFacts, ConstantsAssumption
<1> DEFINE s  == Order(l)
           s2 == Order(l')
           o  == l.dhead
<1>2. /\ s \in Seq(Cacheable) /\ s2 \in Seq(Cacheable) /\ Len(s2) = Len(s) - 1
      /\ \E j \in 1 .. Len(s) :
           /\ s[j] = o
           /\ \A i \in 1 .. Len(s) - 1 : s2[i] = IF i < j THEN s[i] ELSE s[i + 1]
           /\ l'.head = IF o # l.head THEN l.head ELSE IF j = Len(s) THEN Nil ELSE s[j + 1]
  BY <1>1, DropFirstOrder
<1>3. PICK j \in 1 .. Len(s) :
        /\ s[j] = o
        /\ \A i \in 1 .. Len(s) - 1 : s2[i] = IF i < j THEN s[i] ELSE s[i + 1]
        /\ l'.head = IF o # l.head THEN l.head ELSE IF j = Len(s) THEN Nil ELSE s[j + 1]
  BY <1>2
<1> DEFINE w == [i \in 1 .. Len(s) - 1 |-> IF i < j THEN s[i] ELSE s[i + 1]]
<1>4. /\ Lru!Next2(o) = IF j = Len(s) THEN Nil ELSE s[j + 1]
      /\ Lru!Without(o) = w
  BY <1>3, LruTerms
<1>5. s2 = w
  <2>1. \A i \in 1 .. Len(s) - 1 : w[i] = s2[i]
    BY <1>3
  <2>2. w \in Seq(Cacheable) /\ Len(w) = Len(s) - 1
    BY <1>2, CutSeq
  <2> HIDE DEF w, s, s2
  <2> QED BY <1>2, <2>1, <2>2, SeqEqual
<1>6. o \in Cacheable /\ o \in Lru!Members
  <2>1. o \in Cacheable
    BY <1>2, <1>3
  <2> QED BY <2>1, LruMembers
<1> HIDE DEF w
<1> QED BY <1>3, <1>4, <1>5, <1>6 DEF Lru!Remove

(* A step that keeps the order and moves the mark on.                      *)
LEMMA ForwardIsLru ==
  ASSUME IInv(Nat), ~lost, ~lost', Order(l') = Order(l),
         NEW j \in 1 .. Len(Order(l)), Order(l)[j] = l.head, l.head # Nil,
         \/ l'.head = Nil
         \/ \E i \in j + 1 .. Len(Order(l)) : l'.head = Order(l)[i]
  PROVE  Lru!Forward
<1>1. Lru!Position(l.head) = j
  BY LruMembers
<1> QED BY <1>1 DEF Lru!Forward

(* A step the abstract list does not see.                                  *)
LEMMA LruStutter ==
  ASSUME lost \in BOOLEAN, lost' = lost,
         ~lost => Order(l') = Order(l) /\ l'.head = l.head
  PROVE  UNCHANGED Lru!vars
<1>1. CASE lost
  BY <1>1 DEF Lru!vars
<1>2. CASE ~lost
  BY <1>2 DEF Lru!vars
<1> QED BY <1>1, <1>2

(* Every step of the cache is a step of the abstract list, or a stutter.   *)
LEMMA LruStep ==
  ASSUME IInv(Nat), HeadIsSet, [Next]_vars
  PROVE  [Lru!Next]_(Lru!vars)
<1>1. ListMove
  BY ListStep
<1>2. /\ l \in ListType /\ Cacheable \in SUBSET Obj /\ IsFiniteSet(Obj)
      /\ Nil \notin Cacheable /\ lost \in BOOLEAN
      /\ sect.op # "clean" => Shape(Nat, l, Cacheable, lost, FALSE)
      /\ sect.op = "clean" => Shape(Nat, l, Cacheable, lost, TRUE)
  BY ShapeFacts, NilAssumption, ConstantsAssumption DEF Cacheable
<1>3. CASE lost
  <2>1. lost'
    BY <1>1, <1>3 DEF ListMove
  <2> QED BY <1>3, <2>1, LruStutter
<1>4. ASSUME ~lost, lost' PROVE [Lru!Next]_(Lru!vars)
  <2>1. sect.op = "clean" /\ LosesList(l)
    BY <1>1, <1>4 DEF ListMove
  <2>2. Order(l) # << >> /\ l.head = Nil
    BY <1>2, <1>4, <2>1, FinishCleanOrder
  <2>3. Lru!Next
    BY <1>4, <2>2 DEF Lru!Next, Lru!Lose
  <2> QED BY <2>3
<1>5. ASSUME ~lost, ~lost' PROVE [Lru!Next]_(Lru!vars)
  <2> DEFINE s == Order(l)
  <2>a. UNCHANGED lost
    BY <1>1, <1>2, <1>5 DEF ListMove
  <2>b. ASSUME Lru!Forward \/ \E o \in Obj : Lru!Add(o) \/ Lru!Touch(o) \/ Lru!Bury(o) \/ Lru!Remove(o)
        PROVE  [Lru!Next]_(Lru!vars)
    BY <1>5, <2>a, <2>b DEF Lru!Next
  <2>c. ASSUME Order(l') = s, l'.head = l.head PROVE [Lru!Next]_(Lru!vars)
    BY <1>2, <2>a, <2>c, LruStutter
  <2>d. ASSUME Order(l') = s, NEW j \in 1 .. Len(s), s[j] = l.head, l.head # Nil,
               l'.head = IF j = Len(s) THEN Nil ELSE s[j + 1]
        PROVE  [Lru!Next]_(Lru!vars)
    <3>1. Len(s) \in Nat
      BY <1>5, LruOrder
    <3>2. l'.head = Nil \/ \E i \in j + 1 .. Len(s) : l'.head = s[i]
      <4>1. CASE j = Len(s)
        BY <2>d, <4>1
      <4>2. CASE j # Len(s)
        <5>1. j + 1 \in j + 1 .. Len(s)
          BY <3>1, <4>2
        <5> QED BY <2>d, <4>2, <5>1
      <4> QED BY <4>1, <4>2
    <3> QED BY <1>5, <2>b, <2>d, <3>2, ForwardIsLru
  <2>1. CASE UNCHANGED <<l, lost>>
    BY <2>1, <2>c
  <2>2. ASSUME sect.op # "clean", NEW o \in Obj \ Cacheable, l' = add_list(l, o)
        PROVE  [Lru!Next]_(Lru!vars)
    <3>1. Lru!Add(o)
      BY <1>5, <2>2, AddIsLru
    <3> QED BY <2>b, <3>1
  <2>3. ASSUME sect.op # "clean", NEW o \in Cacheable, l' = update_list(l, o)
        PROVE  [Lru!Next]_(Lru!vars)
    <3>1. Lru!Touch(o)
      BY <1>5, <2>3, TouchIsLru
    <3> QED BY <1>2, <2>b, <3>1
  <2>4. ASSUME sect.op # "clean", NEW o \in Cacheable, l' = dead_list(l, o)
        PROVE  [Lru!Next]_(Lru!vars)
    <3>1. Lru!Bury(o)
      BY <1>5, <2>4, BuryIsLru
    <3> QED BY <1>2, <2>b, <3>1
  <2>5. ASSUME sect.op # "clean", l.head # Nil, l' = AdvanceHead(l)
        PROVE  [Lru!Next]_(Lru!vars)
    <3>1. Shape(Nat, l, Cacheable, FALSE, FALSE)
      BY <1>2, <1>5, <2>5
    <3>2. /\ Order(l') = s
          /\ \E j \in 1 .. Len(s) :
               s[j] = l.head /\ l'.head = IF j = Len(s) THEN Nil ELSE s[j + 1]
      BY <1>2, <2>5, <3>1, AdvanceHeadOrder
    <3> HIDE DEF s
    <3> QED BY <2>5, <2>d, <3>2
  <2>6. ASSUME sect.op # "clean", main = "boot", l' = [l EXCEPT !.head = l.end]
        PROVE  [Lru!Next]_(Lru!vars)
    <3>1. Shape(Nat, l, Cacheable, FALSE, FALSE)
      BY <1>2, <1>5, <2>6
    <3>2. Order(l') = s /\ l'.head = IF s = << >> THEN Nil ELSE s[Len(s)]
      BY <1>2, <2>6, <3>1, HeadToEndOrder
    <3>3. s \in Seq(Cacheable)
          /\ \A p \in Cacheable : \E i \in 1 .. Len(s) : s[i] = p
      BY <1>5, LruOrder
    <3>4. l.head # Nil => l.head \in Cacheable
      BY <3>1 DEF Shape
    <3>5. CASE s = << >>
      <4>1. l.head = Nil
        BY <3>3, <3>4, <3>5
      <4> QED BY <2>c, <3>2, <3>5, <4>1
    <3>6. ASSUME s # << >> PROVE [Lru!Next]_(Lru!vars)
      <4>1. l.dhead # Nil
        BY <1>5, <2>6, <3>6, EmptyOrder
      <4>2. l.head # Nil
        BY <1>5, <2>6, <4>1 DEF HeadIsSet, Early
      <4>3. PICK j \in 1 .. Len(s) : s[j] = l.head
        BY <3>3, <3>4, <4>2
      <4>4. CASE j = Len(s)
        BY <2>c, <3>2, <3>6, <4>3, <4>4
      <4>5. CASE j # Len(s)
        <5>1. Len(s) \in j + 1 .. Len(s)
          BY <3>3, <4>5
        <5>2. \E i \in j + 1 .. Len(s) : l'.head = s[i]
          BY <3>2, <3>6, <5>1
        <5> QED BY <1>5, <2>b, <3>2, <4>2, <4>3, <5>2, ForwardIsLru
      <4> QED BY <4>4, <4>5
    <3> QED BY <3>5, <3>6
  <2>7. ASSUME sect.op = "clean", l.dhead # Nil, l' = DropFirst(l)
        PROVE  [Lru!Next]_(Lru!vars)
    <3>1. l.dhead \in Cacheable /\ Lru!Remove(l.dhead)
      BY <1>5, <2>7, RemoveIsLru
    <3> QED BY <1>2, <2>b, <3>1
  <2>8. ASSUME sect.op = "clean", l.dhead # Nil, l' = KeepFirst(l)
        PROVE  [Lru!Next]_(Lru!vars)
    <3>1. Shape(Nat, l, Cacheable, FALSE, TRUE)
      BY <1>2, <1>5, <2>8
    <3>2. /\ Order(l') = s
          /\ \E j \in 1 .. Len(s) :
               /\ s[j] = l.dhead
               /\ l'.head = IF l.dhead # l.head THEN l.head
                            ELSE IF j = Len(s) THEN Nil ELSE s[j + 1]
      BY <1>2, <2>8, <3>1, KeepFirstOrder
    <3> HIDE DEF s
    <3>3. CASE l.dhead # l.head
      BY <2>c, <3>2, <3>3
    <3>4. CASE l.dhead = l.head
      BY <2>8, <2>d, <3>2, <3>4
    <3> QED BY <3>3, <3>4
  <2>9. ASSUME sect.op = "clean", l' = FinishClean(l), lost' = (lost \/ LosesList(l))
        PROVE  [Lru!Next]_(Lru!vars)
    <3>1. Shape(Nat, l, Cacheable, FALSE, TRUE) /\ ~LosesList(l)
      BY <1>2, <1>5, <2>9
    <3>2. Order(l') = s /\ l'.head = l.head
      BY <1>2, <2>9, <3>1, FinishCleanOrder
    <3> QED BY <2>c, <3>2
  <2> HIDE DEF s
  <2> QED BY <1>1, <2>1, <2>2, <2>3, <2>4, <2>5, <2>6, <2>7, <2>8, <2>9 DEF ListMove
<1> QED BY <1>2, <1>3, <1>4, <1>5

(* The cache starts with an empty list.                                    *)
LEMMA LruInit ==
  ASSUME Init
  PROVE  Lru!Init /\ HeadIsSet
<1>1. l = EmptyList /\ lost = FALSE
  BY DEF Init
<1> DEFINE e == << >>
<1>2. /\ e \in [1 .. 0 -> Obj] /\ Row(l, Obj, 0, e)
      /\ l \in ListType /\ l.thead = Nil /\ l.dhead = Nil /\ l.head = Nil
  BY <1>1 DEF Row, EmptyList, ListType, Ptr
<1>3. Order(l) = << >>
  <2> HIDE DEF e
  <2>1. l.dhead = IF 0 = 0 THEN Nil ELSE e[1]
    BY <1>2
  <2>2. Order(l) = e
    BY <1>2, <2>1, OrderOfRow, ConstantsAssumption
  <2> QED BY <2>2 DEF e
<1> QED BY <1>1, <1>2, <1>3 DEF Lru!Init, HeadIsSet

(* What ListSound says of a settled list, in terms of its row.             *)
LEMMA SettledIsSound ==
  ASSUME IInv(Nat), HeadIsSet
  PROVE  ListSound
<1> SUFFICES ASSUME ListFree, ~lost
             PROVE  LET s == Chain(l, l.dhead)
                    IN /\ Elems(s) = Cacheable
                       /\ Len(s) = Cardinality(Cacheable)
                       /\ s # << >> => l.end = s[Len(s)] /\ l.prev[s[1]] = Nil
                       /\ s = << >> => l.end = Nil /\ l.head = Nil
                       /\ \A i \in 2 .. Len(s) : l.prev[s[i]] = s[i - 1]
                       /\ main = "run" /\ s # << >> => l.head \in Cacheable
  BY DEF ListSound
<1>1. /\ l \in ListType /\ Cacheable \in SUBSET Obj /\ IsFiniteSet(Obj)
      /\ Shape(Nat, l, Cacheable, FALSE, FALSE) /\ Nil \notin Cacheable
  BY ShapeFacts, ConstantsAssumption, NilAssumption DEF IInv, Phases, Cacheable
<1>2. PICK n \in Nat : \E f \in [1 .. n -> Cacheable] : SettledRow(l, Cacheable, n, f)
  BY <1>1, SettledOrder
<1>3. PICK f \in [1 .. n -> Cacheable] : SettledRow(l, Cacheable, n, f)
  BY <1>2
<1>4. /\ Row(l, Cacheable, n, f) /\ Linked(l, Cacheable) /\ Len(f) = n /\ DOMAIN f = 1 .. n
      /\ \A p \in Cacheable : \E i \in 1 .. n : p = f[i]
      /\ l.dhead = IF n = 0 THEN Nil ELSE f[1]
      /\ l.end = IF n = 0 THEN Nil ELSE f[n]
      /\ l.dhead # Nil => l.prev[l.dhead] = Nil
      /\ l.head # Nil => l.head \in Cacheable
      /\ f = << >> <=> n = 0
  BY <1>3 DEF SettledRow
<1>5. Chain(l, l.dhead) = f
  BY <1>1, <1>4, ChainOfRow
<1>6. Elems(f) = Cacheable
  BY <1>4 DEF Elems
<1>7. n = Cardinality(Cacheable)
  <2>1. \A i, j \in 1 .. n : f[i] = f[j] => i = j
    BY <1>4 DEF Row
  <2>2. ExistsBijection(1 .. n, Cacheable)
    BY <1>4, <2>1 DEF ExistsBijection, Bijection, Injection, Surjection, IsInjective
  <2> QED BY <2>2, FS_CountingElements
<1>8. ASSUME NEW i \in 2 .. n PROVE l.prev[f[i]] = f[i - 1]
  <2>1. i - 1 \in 1 .. n - 1 /\ (i - 1) + 1 = i /\ i \in 1 .. n
    BY <1>8
  <2>2. f[i - 1] \in Cacheable /\ f[i] \in Cacheable
    BY <2>1
  <2>3. l.next[f[i - 1]] = f[i]
    <3> DEFINE h == i - 1
    <3>1. h \in 1 .. n - 1 /\ h + 1 = i
      BY <2>1
    <3> HIDE DEF h
    <3>2. l.next[f[h]] = f[i]
      BY <1>4, <3>1 DEF Row
    <3> QED BY <3>2 DEF h
  <2> QED BY <1>1, <1>4, <2>2, <2>3 DEF Linked
<1>9. ASSUME main = "run", n # 0 PROVE l.head \in Cacheable
  BY <1>1, <1>4, <1>9 DEF HeadIsSet, Early
<1>10. n # 0 => 1 \in 1 .. n /\ l.prev[f[1]] = Nil
  BY <1>1, <1>4
<1> QED BY <1>1, <1>4, <1>5, <1>6, <1>7, <1>8, <1>9, <1>10

-----------------------------------------------------------------------------
(* delete_cache stops before the newest object, so until a shutdown sweeps *)
(* the list l_head is set whenever the list is not empty.                  *)
THEOREM HeadStays == Spec => []HeadIsSet
<1>1. Init => HeadIsSet
  BY LruInit
<1>2. IInv(Nat) /\ HeadIsSet /\ [Next]_vars => HeadIsSet'
  BY HeadIsSetStep
<1> QED BY <1>1, <1>2, Inductive, PTL DEF Spec

(* add_list, update_list, dead_list, delete_cache, clean_disk and the load *)
(* of the index keep the list doubly linked, with every cached object in   *)
(* it once, between l_dhead and l_end.                                     *)
THEOREM ListIsWellFormed == Spec => []ListSound
<1>1. IInv(Nat) /\ HeadIsSet => ListSound
  BY SettledIsSound
<1> QED BY <1>1, Inductive, HeadStays, PTL

(* The pointer code implements the recency list of LruList: served objects *)
(* go to the newest end, killed ones to the oldest, and the passes of the  *)
(* collector, which cut the list in two and join it again, keep the order  *)
(* of all the others.                                                      *)
THEOREM ListRefinesLru == Spec => ListIsLru
<1>1. Init => Lru!Init
  BY LruInit
<1>2. IInv(Nat) /\ HeadIsSet /\ [Next]_vars => [Lru!Next]_(Lru!vars)
  BY LruStep
<1> QED BY <1>1, <1>2, Inductive, HeadStays, PTL DEF Spec, ListIsLru, Lru!Spec

-----------------------------------------------------------------------------
(* Accounting: how the total of a function changes with one of its values, *)
(* and which object each step gives another share.                         *)

(* Nothing is used when every share is zero.                               *)
LEMMA TotalOfNothing ==
  ASSUME NEW S, NEW f \in [S -> Nat], \A o \in S : f[o] = 0
  PROVE  Total(f) = 0
<1>1. UNION {{o} \X (1 .. f[o]) : o \in S} = {}
  OBVIOUS
<1> QED BY <1>1, FS_EmptySet DEF Total

(* When one share changes the total changes by as much.                    *)
LEMMA TotalChange ==
  ASSUME NEW S, IsFiniteSet(S), NEW f \in [S -> Nat], NEW g \in [S -> Nat],
         NEW o \in S, \A p \in S \ {o} : g[p] = f[p]
  PROVE  /\ Total(f) \in Nat /\ Total(f) >= f[o]
         /\ Total(g) = Total(f) - f[o] + g[o]
<1> DEFINE Part(p) == {p} \X (1 .. f[p])
           Rest    == UNION {Part(p) : p \in S \ {o}}
<1>1. IsFiniteSet(Rest)
  <2> DEFINE T == {Part(p) : p \in S \ {o}}
             h == [p \in S \ {o} |-> Part(p)]
  <2>1. h \in Surjection(S \ {o}, T)
    BY DEF Surjection
  <2>2. IsFiniteSet(S \ {o})
    BY FS_Subset
  <2> HIDE DEF h
  <2>3. IsFiniteSet(T)
    <3> HIDE DEF T
    <3> QED BY <2>1, <2>2, FS_Surjection
  <2>4. ASSUME NEW p \in S \ {o} PROVE IsFiniteSet(Part(p))
    <3>1. f[p] \in Int /\ 1 \in Int
      OBVIOUS
    <3>2. IsFiniteSet(1 .. f[p])
      BY <3>1, FS_Interval
    <3>3. IsFiniteSet({p})
      BY FS_Singleton
    <3> QED BY <3>2, <3>3, FS_Product
  <2>5. \A t \in T : IsFiniteSet(t)
    <3> HIDE DEF Part
    <3> QED BY <2>4
  <2> HIDE DEF T
  <2>6. IsFiniteSet(UNION T)
    BY <2>3, <2>5, FS_UNION
  <2> QED BY <2>6 DEF T
<1>2. ASSUME NEW n \in Nat
      PROVE  /\ IsFiniteSet({o} \X (1 .. n)) /\ Cardinality({o} \X (1 .. n)) = n
             /\ Rest \cap ({o} \X (1 .. n)) = {}
  <2>0. IsFiniteSet({o}) /\ Cardinality({o}) = 1
    BY FS_Singleton
  <2>1. /\ IsFiniteSet({o}) /\ Cardinality({o}) = 1
        /\ IsFiniteSet(1 .. n) /\ Cardinality(1 .. n) = n
    <3>1. n \in Int /\ 1 \in Int
      OBVIOUS
    <3>2. IsFiniteSet(1 .. n) /\ Cardinality(1 .. n) = IF 1 > n THEN 0 ELSE n - 1 + 1
      BY <3>1, FS_Interval
    <3> QED BY <2>0, <3>2
  <2>2. /\ IsFiniteSet({o} \X (1 .. n))
        /\ Cardinality({o} \X (1 .. n)) = Cardinality({o}) * Cardinality(1 .. n)
    BY <2>1, FS_Product
  <2>3. Rest \cap ({o} \X (1 .. n)) = {}
    OBVIOUS
  <2> QED BY <2>1, <2>2, <2>3
<1>3. ASSUME NEW n \in Nat
      PROVE  Cardinality(Rest \cup ({o} \X (1 .. n))) = Cardinality(Rest) + n
  <2> DEFINE P == {o} \X (1 .. n)
  <2>1. IsFiniteSet(P) /\ Cardinality(P) = n /\ Rest \cap P = {}
    BY <1>2
  <2> HIDE DEF P, Rest
  <2>2. Cardinality(Rest \cup P) = Cardinality(Rest) + Cardinality(P) - Cardinality(Rest \cap P)
    BY <1>1, <2>1, FS_Union
  <2>3. Cardinality(Rest \cap P) = 0 /\ Cardinality(Rest) \in Nat
    BY <1>1, <2>1, FS_EmptySet, FS_CardinalityType
  <2>4. Cardinality(Rest \cup P) = Cardinality(Rest) + n
    BY <2>1, <2>2, <2>3
  <2> QED BY <2>4 DEF P
<1>4. UNION {{p} \X (1 .. f[p]) : p \in S} = Rest \cup ({o} \X (1 .. f[o]))
  OBVIOUS
<1>5. UNION {{p} \X (1 .. g[p]) : p \in S} = Rest \cup ({o} \X (1 .. g[o]))
  <2>1. \A p \in S \ {o} : {p} \X (1 .. g[p]) = Part(p)
    OBVIOUS
  <2> HIDE DEF Part
  <2> QED BY <2>1
<1>6. f[o] \in Nat /\ g[o] \in Nat /\ DOMAIN f = S /\ DOMAIN g = S /\ Cardinality(Rest) \in Nat
  BY <1>1, FS_CardinalityType
<1>7. Total(f) = Cardinality(Rest) + f[o]
  <2>1. Total(f) = Cardinality(Rest \cup ({o} \X (1 .. f[o])))
    BY <1>4, <1>6 DEF Total
  <2> HIDE DEF Rest
  <2> QED BY <1>3, <1>6, <2>1
<1>8. Total(g) = Cardinality(Rest) + g[o]
  <2>1. Total(g) = Cardinality(Rest \cup ({o} \X (1 .. g[o])))
    BY <1>5, <1>6 DEF Total
  <2> HIDE DEF Rest
  <2> QED BY <1>3, <1>6, <2>1
<1> HIDE DEF Rest
<1> QED BY <1>6, <1>7, <1>8

(* A total is a number, which is never below zero.                         *)
LEMMA TotalIsNat ==
  ASSUME NEW S, IsFiniteSet(S), NEW f \in [S -> Nat]
  PROVE  Total(f) \in Nat
<1>1. CASE S = {}
  <2>1. \A o \in S : f[o] = 0
    BY <1>1
  <2>2. Total(f) = 0
    BY <2>1, TotalOfNothing
  <2> QED BY <2>2
<1>2. CASE S # {}
  <2>1. PICK o \in S : TRUE
    BY <1>2
  <2> QED BY <2>1, TotalChange
<1> QED BY <1>1, <1>2

(* The ways a step can change what an object uses.                         *)
ShareMove ==
  \/ UNCHANGED <<status, size, inMem, inDisk, memSize, diskSize>>
  \/ \E o \in Obj :
       /\ \A p \in Obj \ {o} : /\ status'[p] = status[p] /\ size'[p] = size[p]
                               /\ inMem'[p] = inMem[p] /\ inDisk'[p] = inDisk[p]
       /\ memSize' = memSize - MemShare[o] + MemShare'[o]
       /\ diskSize' = diskSize - DiskShare[o] + DiskShare'[o]
       /\ inDisk'[o] => status'[o] = "hashed"
       /\ status'[o] = "free" => ~inMem'[o]

(* Such a step keeps the totals right.                                     *)
LEMMA ShareMoveAccounts ==
  ASSUME IInv(Nat), ObjTypes', SizesAccounted, FlagsFit, ShareMove
  PROVE  SizesAccounted' /\ FlagsFit'
<1>1. ObjTypes /\ IsFiniteSet(Obj)
  BY ConstantsAssumption DEF IInv, TypeOK
<1>2. CASE UNCHANGED <<status, size, inMem, inDisk, memSize, diskSize>>
  BY <1>2 DEF SizesAccounted, FlagsFit, MemShare, DiskShare
<1>3. ASSUME NEW o \in Obj,
             \A p \in Obj \ {o} : /\ status'[p] = status[p] /\ size'[p] = size[p]
                                  /\ inMem'[p] = inMem[p] /\ inDisk'[p] = inDisk[p],
             memSize' = memSize - MemShare[o] + MemShare'[o],
             diskSize' = diskSize - DiskShare[o] + DiskShare'[o],
             inDisk'[o] => status'[o] = "hashed", status'[o] = "free" => ~inMem'[o]
      PROVE  SizesAccounted' /\ FlagsFit'
  <2>1. /\ MemShare \in [Obj -> Nat] /\ DiskShare \in [Obj -> Nat]
        /\ MemShare' \in [Obj -> Nat] /\ DiskShare' \in [Obj -> Nat]
    BY <1>1 DEF ObjTypes, MemShare, DiskShare
  <2>2. \A p \in Obj \ {o} : MemShare'[p] = MemShare[p] /\ DiskShare'[p] = DiskShare[p]
    BY <1>3 DEF MemShare, DiskShare
  <2>3. Total(MemShare') = Total(MemShare) - MemShare[o] + MemShare'[o]
    BY <1>1, <2>1, <2>2, TotalChange
  <2>4. Total(DiskShare') = Total(DiskShare) - DiskShare[o] + DiskShare'[o]
    BY <1>1, <2>1, <2>2, TotalChange
  <2>5. Total(MemShare)' = Total(MemShare') /\ Total(DiskShare)' = Total(DiskShare')
    BY DEF Total
  <2>6. SizesAccounted'
    BY <1>3, <2>3, <2>4, <2>5 DEF SizesAccounted
  <2>7. FlagsFit'
    BY <1>3 DEF FlagsFit
  <2> QED BY <2>6, <2>7
<1> QED BY <1>2, <1>3 DEF ShareMove

(* destroy_obj gives back what the object used.                            *)
LEMMA DestroyMove ==
  ASSUME IInv(Nat), FlagsFit, NEW o \in Obj, Destroy(o)
  PROVE  ShareMove
<1>1. ObjTypes /\ ListTypes
  BY DEF IInv, TypeOK
<1>2. \A p \in Obj \ {o} : /\ status'[p] = status[p] /\ size'[p] = size[p]
                           /\ inMem'[p] = inMem[p] /\ inDisk'[p] = inDisk[p]
  BY <1>1 DEF Destroy, ObjTypes
<1>3. status'[o] = "free" /\ ~inDisk'[o] /\ ~inMem'[o] /\ size[o] \in Nat
  BY <1>1 DEF Destroy, ObjTypes
<1>4. MemShare'[o] = 0 /\ DiskShare'[o] = 0
  BY <1>3 DEF MemShare, DiskShare
<1>5. memSize' = memSize - MemShare[o] + MemShare'[o]
  BY <1>1, <1>3, <1>4 DEF Destroy, MemShare, ListTypes
<1>6. diskSize' = diskSize - DiskShare[o] + DiskShare'[o]
  BY <1>1, <1>3, <1>4 DEF Destroy, DiskShare, ListTypes, FlagsFit
<1> QED BY <1>2, <1>3, <1>5, <1>6 DEF ShareMove

(* A new object of locate_in_mem is not counted, though it is in memory.   *)
LEMMA AllocateMove ==
  ASSUME IInv(Nat), FlagsFit, NEW o \in Obj, NEW u, Allocate(o, u),
         UNCHANGED sizeVars
  PROVE  ShareMove
<1>1. ObjTypes /\ ListTypes
  BY DEF IInv, TypeOK
<1>2. \A p \in Obj \ {o} : /\ status'[p] = status[p] /\ size'[p] = size[p]
                           /\ inMem'[p] = inMem[p] /\ inDisk'[p] = inDisk[p]
  BY <1>1 DEF Allocate, ObjTypes
<1>3. status[o] = "free" /\ status'[o] = "private" /\ ~inDisk'[o]
  BY <1>1 DEF Allocate, ObjTypes, FlagsFit
<1>4. /\ MemShare[o] = 0 /\ MemShare'[o] = 0 /\ DiskShare[o] = 0 /\ DiskShare'[o] = 0
  BY <1>3 DEF MemShare, DiskShare
<1> QED BY <1>1, <1>2, <1>3, <1>4 DEF ShareMove, sizeVars, ListTypes

(* What a thread does to the object it fills or gives up.                  *)
LEMMA PrivateMove ==
  ASSUME IInv(Nat), FlagsFit, NEW o \in Obj, status[o] = "private",
         status'[o] \in {"private", "leaked"}, UNCHANGED <<inMem, inDisk, memSize, diskSize>>,
         \A p \in Obj \ {o} : status'[p] = status[p] /\ size'[p] = size[p]
  PROVE  ShareMove
<1>1. ListTypes /\ ~inDisk[o]
  BY DEF IInv, TypeOK, FlagsFit
<1>2. /\ MemShare[o] = 0 /\ MemShare'[o] = 0 /\ DiskShare[o] = 0 /\ DiskShare'[o] = 0
  BY DEF MemShare, DiskShare
<1> QED BY <1>1, <1>2 DEF ShareMove, ListTypes

(* stored_obj                                                              *)
LEMMA StoredObjMove ==
  ASSUME IInv(Nat), FlagsFit, NEW o \in Obj, status[o] = "private", StoredObj(o)
  PROVE  ShareMove
<1>1. CASE Destroy(o)
  BY <1>1, DestroyMove
<1>2. ASSUME status' = [status EXCEPT ![o] = "hashed"],
             memSize' = memSize + (IF inMem[o] THEN size[o] ELSE 0),
             diskSize' = diskSize + (IF inDisk[o] THEN size[o] ELSE 0),
             UNCHANGED <<size, inMem, inDisk>>
      PROVE  ShareMove
  <2>1. ObjTypes /\ ListTypes
    BY DEF IInv, TypeOK
  <2>2. status'[o] = "hashed" /\ (\A p \in Obj \ {o} : status'[p] = status[p])
    BY <1>2, <2>1 DEF ObjTypes
  <2>3. MemShare[o] = 0 /\ DiskShare[o] = 0
    BY DEF MemShare, DiskShare
  <2>4. /\ MemShare'[o] = IF inMem[o] THEN size[o] ELSE 0
        /\ DiskShare'[o] = IF inDisk[o] THEN size[o] ELSE 0
    BY <1>2, <2>2 DEF MemShare, DiskShare
  <2>5. memSize \in Int /\ diskSize \in Int /\ size[o] \in Nat
    BY <2>1 DEF ObjTypes, ListTypes
  <2>6. /\ memSize' = memSize - MemShare[o] + MemShare'[o]
        /\ diskSize' = diskSize - DiskShare[o] + DiskShare'[o]
    BY <1>2, <2>3, <2>4, <2>5
  <2> QED BY <1>2, <2>2, <2>6 DEF ShareMove
<1> QED BY <1>1, <1>2 DEF StoredObj

(* load_all_from_disk                                                      *)
LEMMA RestoreMove ==
  ASSUME IInv(Nat), FlagsFit, NEW o \in Obj, NEW u \in Url, NEW s \in Sizes,
         Restore(o, u, s)
  PROVE  ShareMove
<1>1. ObjTypes /\ ListTypes /\ s \in Nat
  BY ConstantsAssumption DEF IInv, TypeOK
<1>2. \A p \in Obj \ {o} : /\ status'[p] = status[p] /\ size'[p] = size[p]
                           /\ inMem'[p] = inMem[p] /\ inDisk'[p] = inDisk[p]
  BY <1>1 DEF Restore, ObjTypes
<1>3. status[o] = "free" /\ status'[o] = "hashed" /\ size'[o] = s /\ inDisk'[o] /\ ~inMem'[o]
  BY <1>1 DEF Restore, ObjTypes, FlagsFit
<1>4. MemShare[o] = 0 /\ MemShare'[o] = 0 /\ DiskShare[o] = 0 /\ DiskShare'[o] = s
  BY <1>3 DEF MemShare, DiskShare
<1>5. /\ memSize' = memSize - MemShare[o] + MemShare'[o]
      /\ diskSize' = diskSize - DiskShare[o] + DiskShare'[o]
  BY <1>1, <1>4 DEF Restore, ListTypes
<1> QED BY <1>2, <1>3, <1>5 DEF ShareMove

(* swap_in_obj                                                             *)
LEMMA SwapInMove ==
  ASSUME IInv(Nat), FlagsFit, NEW c \in Client, SwapIn(c)
  PROVE  ShareMove
<1>1. ObjTypes /\ ListTypes
  BY DEF IInv, TypeOK
<1>2. CASE UNCHANGED <<inMem, memSize>>
  BY <1>2 DEF SwapIn, ShareMove
<1>3. CASE ~UNCHANGED <<inMem, memSize>>
  <2>1. PICK o \in Obj : o = held[c] /\ status[o] = "hashed"
    BY <1>3, NilAssumption DEF SwapIn, IInv, ClientOK, TypeOK, ClientTypes, Ptr, Holders,
      HoldingPCs, AfterPCs, HeldIsCached
  <2>2. /\ ~inMem[o] /\ inDisk[o]
        /\ inMem' = [inMem EXCEPT ![o] = TRUE] /\ memSize' = memSize + size[o]
        /\ UNCHANGED <<status, size, inDisk, diskSize>>
    BY <1>3, <2>1 DEF SwapIn
  <2>3. inMem'[o] /\ (\A p \in Obj \ {o} : inMem'[p] = inMem[p])
        /\ size[o] \in Nat /\ memSize \in Int /\ diskSize \in Int
    BY <1>1, <2>2 DEF ObjTypes, ListTypes
  <2>4. MemShare[o] = 0 /\ MemShare'[o] = size[o] /\ DiskShare[o] = size[o] /\ DiskShare'[o] = size[o]
    BY <2>1, <2>2, <2>3 DEF MemShare, DiskShare
  <2>5. /\ memSize' = memSize - MemShare[o] + MemShare'[o]
        /\ diskSize' = diskSize - DiskShare[o] + DiskShare'[o]
    BY <2>2, <2>3, <2>4
  <2> QED BY <2>1, <2>2, <2>3, <2>5 DEF ShareMove
<1> QED BY <1>2, <1>3

(* swap_out_obj                                                            *)
LEMMA SwapOutMove ==
  ASSUME IInv(Nat), FlagsFit, NEW o \in Obj, status[o] = "hashed", SwapOut(o),
         UNCHANGED <<status, size>>
  PROVE  ShareMove
<1>1. ObjTypes /\ ListTypes
  BY DEF IInv, TypeOK
<1>2. CASE UNCHANGED <<inMem, inDisk, memSize, diskSize>>
  BY <1>2 DEF ShareMove
<1>3. ASSUME inMem[o], inMem' = [inMem EXCEPT ![o] = FALSE],
             inDisk' = [inDisk EXCEPT ![o] = TRUE], memSize' = memSize - size[o],
             diskSize' = diskSize + (IF inDisk[o] THEN 0 ELSE size[o])
      PROVE  ShareMove
  <2>1. /\ ~inMem'[o] /\ inDisk'[o]
        /\ \A p \in Obj \ {o} : inMem'[p] = inMem[p] /\ inDisk'[p] = inDisk[p]
        /\ size[o] \in Nat /\ memSize \in Int /\ diskSize \in Int
    BY <1>1, <1>3 DEF ObjTypes, ListTypes
  <2>2. /\ MemShare[o] = size[o] /\ MemShare'[o] = 0
        /\ DiskShare[o] = (IF inDisk[o] THEN size[o] ELSE 0) /\ DiskShare'[o] = size[o]
    BY <1>3, <2>1 DEF MemShare, DiskShare
  <2>3. /\ memSize' = memSize - MemShare[o] + MemShare'[o]
        /\ diskSize' = diskSize - DiskShare[o] + DiskShare'[o]
    BY <1>3, <2>1, <2>2
  <2> QED BY <2>1, <2>3 DEF ShareMove
<1> QED BY <1>2, <1>3 DEF SwapOut, sizeVars

(* The object a thread fills is private.                                   *)
LEMMA MineIsPrivate ==
  ASSUME IInv(Nat), NEW c \in Client, mine[c] # Nil
  PROVE  mine[c] \in Obj /\ status[mine[c]] = "private"
BY DEF IInv, TypeOK, ClientTypes, Ptr, Private

(* Every step changes the shares of one object at most, and counts that.   *)
LEMMA ShareStep ==
  ASSUME IInv(Nat), FlagsFit, [Next]_vars
  PROVE  ShareMove
<1> DEFINE Same == UNCHANGED <<status, size, inMem, inDisk, memSize, diskSize>>
<1>0. Same => ShareMove
  BY DEF ShareMove
<1>a. ObjTypes
  BY DEF IInv, TypeOK
<1> USE DEF objVars, sizeVars, listVars, cliVars, gcVars
<1>1. ASSUME NEW c \in Client, Request(c) PROVE ShareMove
  <2>1. CASE \E u \in Url, o \in Obj : Allocate(o, u) /\ UNCHANGED sizeVars
    BY <2>1, AllocateMove
  <2>2. CASE Same
    BY <1>0, <2>2
  <2>3. ASSUME NEW u \in Url, LocateHit(c, u) \/ LocateNew(c, u) \/ LocateOnlyIfCached(c, u)
        PROVE  ShareMove
    <3>1. CASE LocateHit(c, u)
      BY <2>2, <3>1 DEF LocateHit, TakeRef
    <3>2. CASE LocateNew(c, u)
      BY <2>1, <3>2 DEF LocateNew
    <3>3. CASE LocateOnlyIfCached(c, u)
      BY <2>1, <2>2, <3>3 DEF LocateOnlyIfCached, TakeRef
    <3> QED BY <2>3, <3>1, <3>2, <3>3
  <2> QED BY <1>1, <2>3 DEF Request
<1>2. ASSUME NEW c \in Client, Work(c) PROVE ShareMove
  <2>1. ASSUME mine[c] # Nil, Destroy(mine[c]) PROVE ShareMove
    BY <2>1, MineIsPrivate, DestroyMove
  <2>2. ASSUME mine[c] # Nil, StoredObj(mine[c]) PROVE ShareMove
    BY <2>2, MineIsPrivate, StoredObjMove
  <2>3. ASSUME mine[c] # Nil, UNCHANGED <<inMem, inDisk, memSize, diskSize>>,
               \/ UNCHANGED size /\ status' = [status EXCEPT ![mine[c]] = "leaked"]
               \/ UNCHANGED status /\ \E s : size' = [size EXCEPT ![mine[c]] = s]
        PROVE ShareMove
    <3>1. PICK o \in Obj : o = mine[c] /\ status[o] = "private"
      BY <2>3, MineIsPrivate
    <3>2. /\ status'[o] \in {"private", "leaked"}
          /\ \A p \in Obj \ {o} : status'[p] = status[p] /\ size'[p] = size[p]
      BY <1>a, <2>3, <3>1 DEF ObjTypes
    <3> QED BY <2>3, <3>1, <3>2, PrivateMove
  <2>4. ASSUME NEW s \in Sizes, NEW d \in BOOLEAN,
               FetchDone(c, s, d) \/ RevalidateOk(c, s, d)
        PROVE  ShareMove
    <3>1. mine[c] # Nil
      BY <2>4 DEF FetchDone, RevalidateOk, IInv, ClientOK
    <3> QED BY <2>3, <2>4, <3>1 DEF FetchDone, RevalidateOk, Filled
  <2>5. CASE Serve(c) \/ Sent(c) \/ Kill(c) \/ Bury(c) \/ BuryFaults(c) \/ Mark(c)
             \/ Rate(c) \/ Release(c) \/ Unlock(c)
    BY <1>0, <2>5 DEF Serve, Sent, Kill, Bury, BuryFaults, Crash, Mark, Rate, Release, Unlock
  <2>6. CASE FetchFails(c) \/ RevalidateNotModified(c) \/ RevalidateFails(c)
    <3>1. mine[c] # Nil
      BY <2>6 DEF FetchFails, RevalidateNotModified, RevalidateFails, IInv, ClientOK
    <3> QED BY <2>1, <2>6, <3>1 DEF FetchFails, RevalidateNotModified, RevalidateFails
  <2>7. CASE Store(c) \/ Replace(c)
    <3>1. mine[c] # Nil
      BY <2>7 DEF Store, Replace, IInv, ClientOK
    <3> QED BY <2>2, <2>7, <3>1 DEF Store, Replace
  <2>8. CASE RefuseFatboy(c)
    <3>1. mine[c] # Nil
      BY <2>8 DEF RefuseFatboy, IInv, ClientOK
    <3> QED BY <2>3, <2>8, <3>1 DEF RefuseFatboy
  <2>9. CASE Forget(c)
    <3>1. CASE UNCHANGED status
      BY <1>0, <2>9, <3>1 DEF Forget
    <3>2. CASE status' = [status EXCEPT ![mine[c]] = "leaked"] /\ held[c] = Nil
      <4>1. mine[c] # Nil
        BY <2>9, <3>2 DEF Forget, IInv, ClientOK
      <4> QED BY <2>3, <2>9, <3>2, <4>1 DEF Forget
    <3> QED BY <2>9, <3>1, <3>2 DEF Forget
  <2>10. CASE Revalidate(c)
    <3>1. PICK o \in Obj : Allocate(o, url[held[c]])
      BY <2>10 DEF Revalidate
    <3> QED BY <2>10, <3>1, AllocateMove DEF Revalidate
  <2>11. CASE SwapIn(c)
    BY <2>11, SwapInMove
  <2> QED BY <1>2, <2>4, <2>5, <2>6, <2>7, <2>8, <2>9, <2>10, <2>11 DEF Work
<1>3. ASSUME Collect PROVE ShareMove
  <2>1. CASE ReadSizes \/ EnterDelete \/ DeleteEnd \/ EnterClean \/ SkipClean
             \/ CleanKeep \/ CleanEnd
    BY <1>0, <2>1 DEF ReadSizes, EnterDelete, DeleteEnd, EnterClean, SkipClean, CleanKeep,
      CleanEnd
  <2>2. CASE DeleteStep
    <3>1. l.head # Nil
      BY <2>2 DEF DeleteStep, DeleteStops
    <3>2. l.head \in Obj /\ status[l.head] = "hashed"
      BY <3>1 DEF IInv, Shape, Cacheable
    <3>3. CASE Same
      BY <1>0, <3>3
    <3>4. CASE SwapOut(l.head)
      BY <2>2, <3>2, <3>4, SwapOutMove DEF DeleteStep
    <3> QED BY <2>2, <3>3, <3>4 DEF DeleteStep
  <2>3. CASE CleanDrop
    <3>1. l.dhead \in Obj
      BY <2>3, NilAssumption DEF CleanDrop, IInv, TypeOK, ListTypes, ListType, Ptr
    <3> QED BY <2>3, <3>1, DestroyMove DEF CleanDrop
  <2> QED BY <1>3, <2>1, <2>2, <2>3 DEF Collect
<1>4. ASSUME Boot PROVE ShareMove
  <2>1. CASE Booted
    BY <1>0, <2>1 DEF Booted
  <2>2. ASSUME NEW o \in Obj, NEW u \in Url, NEW s \in Sizes, Restore(o, u, s)
        PROVE  ShareMove
    BY <2>2, RestoreMove
  <2> QED BY <1>4, <2>1, <2>2 DEF Boot
<1>5. CASE Stop \/ Ended \/ UNCHANGED vars
  BY <1>0, <1>5 DEF Stop, Shutdown, EnterSaveAll, SaveIndexAndExit, Ended, vars
<1> HIDE DEF objVars, sizeVars, listVars, cliVars, gcVars, Same
<1> QED BY <1>1, <1>2, <1>3, <1>4, <1>5 DEF Next

(* get_cache_size and get_disk_cache_size always return what the cached    *)
(* objects use, so the assertion that they are not negative holds.         *)
THEOREM SizesAreExact == Spec => [](SizesAccounted /\ memSize >= 0 /\ diskSize >= 0)
<1>1. Init => SizesAccounted /\ FlagsFit
  <2>1. ASSUME Init PROVE SizesAccounted /\ FlagsFit
    <3>1. /\ MemShare \in [Obj -> Nat] /\ \A o \in Obj : MemShare[o] = 0
          /\ DiskShare \in [Obj -> Nat] /\ \A o \in Obj : DiskShare[o] = 0
      BY <2>1 DEF Init, MemShare, DiskShare
    <3>2. Total(MemShare) = 0 /\ Total(DiskShare) = 0
      BY <3>1, TotalOfNothing
    <3> QED BY <2>1, <3>2 DEF Init, SizesAccounted, FlagsFit
  <2> QED BY <2>1
<1>2. IInv(Nat) /\ IInv(Nat)' /\ SizesAccounted /\ FlagsFit /\ [Next]_vars
      => SizesAccounted' /\ FlagsFit'
  BY ShareStep, ShareMoveAccounts DEF IInv, TypeOK
<1>3. IInv(Nat) /\ SizesAccounted => memSize >= 0 /\ diskSize >= 0
  <2>1. ASSUME IInv(Nat), SizesAccounted PROVE memSize >= 0 /\ diskSize >= 0
    <3>1. IsFiniteSet(Obj) /\ MemShare \in [Obj -> Nat] /\ DiskShare \in [Obj -> Nat]
      BY <2>1, ConstantsAssumption DEF IInv, TypeOK, ObjTypes, MemShare, DiskShare
    <3>2. Total(MemShare) \in Nat /\ Total(DiskShare) \in Nat
      BY <3>1, TotalIsNat
    <3> QED BY <2>1, <3>2 DEF SizesAccounted
  <2> QED BY <2>1
<1> QED BY <1>1, <1>2, <1>3, Inductive, PTL DEF Spec
-----------------------------------------------------------------------------
(* What clean_disk remembers of dead objects.  A step either kills or      *)
(* buries an object or is quiet about the dead ones; the buried ones stay  *)
(* at the front of the list, where clean_disk looks.                       *)

(* The control points at which a thread serves a live object.              *)
ServingPCs == {"hit", "swapin", "sending", "revalidate", "rate", "kill"}

(* A step that kills and buries nothing.                                   *)
Quiet ==
  /\ \A c \in Client :
       /\ pc'[c] = "bury" <=> pc[c] = "bury"
       /\ pc[c] = "bury" => held'[c] = held[c]
       /\ pc'[c] = "mark" => pc[c] = "mark" /\ held'[c] = held[c]
       /\ pc[c] = "mark" /\ cache_model' = "CLEAN_CACHE" =>
            pc'[c] = "mark" /\ held'[c] = held[c]
       /\ pc'[c] \in ServingPCs /\ held'[c] # Nil =>
            \/ pc[c] \in ServingPCs /\ held'[c] = held[c]
            \/ held'[c] \in Obj /\ Live(held'[c])
  /\ \A p \in Obj :
       /\ status[p] = "hashed" /\ status'[p] = "hashed" => dead'[p] = dead[p]
       /\ status[p] # "hashed" /\ status'[p] = "hashed" => ~dead'[p]
       /\ status'[p] = "free" => ~dead'[p]
  /\ sect'.op # "clean" /\ cache_model' = "CLEAN_CACHE" =>
       CleanEnd \/ (sect.op # "clean" /\ cache_model = "CLEAN_CACHE")

(* The part of Quiet about the threads, for a step of thread c to p.       *)
LEMMA QuietThreads ==
  ASSUME IInv(Nat), NEW c \in Client, NEW p \in PCs, Goto(c, p), p # "bury",
         pc[c] # "bury", p # "mark",
         pc[c] = "mark" => cache_model' = "DROP_DEAD",
         held' \in [Client -> Ptr], \A d \in Client : d # c => held'[d] = held[d],
         p \in ServingPCs /\ held'[c] # Nil =>
            \/ pc[c] \in ServingPCs /\ held'[c] = held[c]
            \/ held'[c] \in Obj /\ Live(held'[c])
  PROVE  \A d \in Client :
       /\ pc'[d] = "bury" <=> pc[d] = "bury"
       /\ pc[d] = "bury" => held'[d] = held[d]
       /\ pc'[d] = "mark" => pc[d] = "mark" /\ held'[d] = held[d]
       /\ pc[d] = "mark" /\ cache_model' = "CLEAN_CACHE" =>
            pc'[d] = "mark" /\ held'[d] = held[d]
       /\ pc'[d] \in ServingPCs /\ held'[d] # Nil =>
            \/ pc[d] \in ServingPCs /\ held'[d] = held[d]
            \/ held'[d] \in Obj /\ Live(held'[d])
<1>1. pc \in [Client -> PCs] /\ pc' = [pc EXCEPT ![c] = p]
  BY DEF IInv, TypeOK, ClientTypes, Goto
<1>2. pc'[c] = p /\ \A d \in Client : d # c => pc'[d] = pc[d]
  BY <1>1
<1> QED BY <1>2

(* The part about the objects, for a step that frees or stores one.        *)
LEMMA QuietDestroy ==
  ASSUME IInv(Nat), FreeIsBlank, NEW o \in Obj, Destroy(o)
  PROVE  \A p \in Obj :
       /\ status[p] = "hashed" /\ status'[p] = "hashed" => dead'[p] = dead[p]
       /\ status[p] # "hashed" /\ status'[p] = "hashed" => ~dead'[p]
       /\ status'[p] = "free" => ~dead'[p]
BY DEF Destroy, IInv, TypeOK, ObjTypes, FreeIsBlank

(* An object that enters the cache is alive.                               *)
LEMMA QuietStored ==
  ASSUME IInv(Nat), FreeIsBlank, NEW o \in Obj, StoredObj(o)
  PROVE  \A p \in Obj :
       /\ status[p] = "hashed" /\ status'[p] = "hashed" => dead'[p] = dead[p]
       /\ status[p] # "hashed" /\ status'[p] = "hashed" => ~dead'[p]
       /\ status'[p] = "free" => ~dead'[p]
<1>1. CASE Destroy(o)
  BY <1>1, QuietDestroy
<1>2. CASE ~Destroy(o)
  <2>1. ~dead[o] /\ status' = [status EXCEPT ![o] = "hashed"] /\ UNCHANGED dead
    BY <1>2 DEF StoredObj
  <2> QED BY <2>1 DEF IInv, TypeOK, ObjTypes, FreeIsBlank
<1> QED BY <1>1, <1>2

(* A step that leaves the threads where they are.                          *)
LEMMA QuietIdle ==
  ASSUME UNCHANGED <<pc, held>>
  PROVE  \A d \in Client :
       /\ pc'[d] = "bury" <=> pc[d] = "bury"
       /\ pc[d] = "bury" => held'[d] = held[d]
       /\ pc'[d] = "mark" => pc[d] = "mark" /\ held'[d] = held[d]
       /\ pc[d] = "mark" /\ cache_model' = "CLEAN_CACHE" =>
            pc'[d] = "mark" /\ held'[d] = held[d]
       /\ pc'[d] \in ServingPCs /\ held'[d] # Nil =>
            \/ pc[d] \in ServingPCs /\ held'[d] = held[d]
            \/ held'[d] \in Obj /\ Live(held'[d])
OBVIOUS

(* A step that changes neither dead nor status.                            *)
LEMMA QuietObjects ==
  ASSUME IInv(Nat), FreeIsBlank, UNCHANGED <<status, dead>>
  PROVE  \A p \in Obj :
       /\ status[p] = "hashed" /\ status'[p] = "hashed" => dead'[p] = dead[p]
       /\ status[p] # "hashed" /\ status'[p] = "hashed" => ~dead'[p]
       /\ status'[p] = "free" => ~dead'[p]
BY DEF FreeIsBlank

(* A step that only takes a fresh object changes nothing else.             *)
LEMMA QuietAllocate ==
  ASSUME IInv(Nat), FreeIsBlank, NEW o \in Obj, NEW u, Allocate(o, u)
  PROVE  \A p \in Obj :
       /\ status[p] = "hashed" /\ status'[p] = "hashed" => dead'[p] = dead[p]
       /\ status[p] # "hashed" /\ status'[p] = "hashed" => ~dead'[p]
       /\ status'[p] = "free" => ~dead'[p]
BY DEF FreeIsBlank, Allocate, IInv, TypeOK, ObjTypes

(* Requests.                                                               *)
LEMMA QuietRequest ==
  ASSUME IInv(Nat), FreeIsBlank, NEW c \in Client, Request(c)
  PROVE  Quiet
<1> USE DEF objVars, sizeVars, listVars, cliVars, gcVars, Cached, Live
<1>0. held \in [Client -> Ptr] /\ Obj \subseteq Ptr /\ PCs \cap {"hit", "fetch", "swapin", "sending"} = {"hit", "fetch", "swapin", "sending"}
  BY DEF IInv, TypeOK, ClientTypes, Ptr, PCs
<1>1. ASSUME NEW u \in Url, LocateHit(c, u) PROVE Quiet
  <2>1. PICK o \in Cached(u) : TakeRef(c, o)
    BY <1>1 DEF LocateHit
  <2>2. /\ held' = [held EXCEPT ![c] = o] /\ UNCHANGED <<status, dead, cache_model, sect>>
        /\ Goto(c, "hit") /\ pc[c] = "idle" /\ o \in Obj /\ Live(o)
    BY <1>1, <2>1 DEF LocateHit, TakeRef
  <2>3. held' \in [Client -> Ptr] /\ held'[c] = o /\ \A d \in Client : d # c => held'[d] = held[d]
    BY <1>0, <2>2
  <2> QED BY <1>0, <2>2, <2>3, QuietThreads, QuietObjects DEF Quiet
<1>2. ASSUME NEW u \in Url, LocateNew(c, u) PROVE Quiet
  <2>1. PICK o \in Obj : Allocate(o, u)
    BY <1>2 DEF LocateNew
  <2>2. UNCHANGED <<held, cache_model, sect>> /\ Goto(c, "fetch") /\ pc[c] = "idle"
    BY <1>2 DEF LocateNew
  <2> QED BY <1>0, <2>1, <2>2, QuietThreads, QuietAllocate DEF Quiet, ServingPCs
<1>3. ASSUME NEW u \in Url, LocateOnlyIfCached(c, u) PROVE Quiet
  <2>1. UNCHANGED <<cache_model, sect>> /\ pc[c] = "idle"
    BY <1>3 DEF LocateOnlyIfCached
  <2>2. ASSUME NEW o \in Cached(u), TakeRef(c, o), Goto(c, "swapin") PROVE Quiet
    <3>1. held' = [held EXCEPT ![c] = o] /\ UNCHANGED <<status, dead>> /\ o \in Obj /\ Live(o)
      BY <2>2 DEF TakeRef
    <3>2. held' \in [Client -> Ptr] /\ held'[c] = o /\ \A d \in Client : d # c => held'[d] = held[d]
      BY <1>0, <3>1
    <3> QED BY <1>0, <2>1, <2>2, <3>1, <3>2, QuietThreads, QuietObjects DEF Quiet
  <2>3. ASSUME NEW o \in Obj, Allocate(o, u), Goto(c, "sending"), UNCHANGED held PROVE Quiet
    <3>1. held[c] = Nil
      BY <2>1 DEF IInv, ClientOK
    <3> QED BY <1>0, <2>1, <2>3, <3>1, QuietThreads, QuietAllocate DEF Quiet, ServingPCs
  <2> QED BY <1>3, <2>2, <2>3 DEF LocateOnlyIfCached
<1> QED BY <1>1, <1>2, <1>3 DEF Request

(* The steps of a thread that has its request.                             *)
LEMMA QuietWork ==
  ASSUME IInv(Nat), FreeIsBlank, KilledIsLeft, ~DiskFaults, NEW c \in Client, Work(c), ~Kill(c), ~Bury(c)
  PROVE  Quiet
<1> USE DEF objVars, sizeVars, listVars, cliVars, gcVars
<1>0. /\ held \in [Client -> Ptr] /\ Nil \in Ptr /\ mine \in [Client -> Ptr]
      /\ after \in [Client -> AfterPCs] /\ AfterPCs \subseteq PCs
      /\ "bury" \notin AfterPCs /\ "mark" \notin AfterPCs
      /\ \A p \in {"idle", "fetch", "store", "swapin", "sending", "revalidate", "kill",
                   "rate", "release", "unlock"} : p \in PCs
  BY DEF IInv, TypeOK, ClientTypes, Ptr, PCs, AfterPCs
<1>m. mine[c] # Nil => mine[c] \in Obj /\ status[mine[c]] = "private"
  BY <1>0 DEF IInv, Private, Ptr
<1>h. held[c] # Nil => held[c] \in Obj
  BY <1>0 DEF Ptr
<1>1. CASE RefuseFatboy(c)
  <2>1. mine[c] # Nil /\ pc[c] = "fetch"
    BY <1>1 DEF RefuseFatboy, IInv, ClientOK
  <2>2. /\ status' = [status EXCEPT ![mine[c]] = "leaked"] /\ UNCHANGED dead
        /\ UNCHANGED <<held, cache_model, sect>> /\ Goto(c, "idle")
    BY <1>1 DEF RefuseFatboy
  <2>3. \A p \in Obj :
       /\ status[p] = "hashed" /\ status'[p] = "hashed" => dead'[p] = dead[p]
       /\ status[p] # "hashed" /\ status'[p] = "hashed" => ~dead'[p]
       /\ status'[p] = "free" => ~dead'[p]
    BY <2>2 DEF IInv, TypeOK, ObjTypes, FreeIsBlank
  <2> QED BY <1>0, <2>1, <2>2, <2>3, QuietThreads DEF Quiet, ServingPCs
<1>2. ASSUME NEW s \in Sizes, NEW d \in BOOLEAN, FetchDone(c, s, d) \/ RevalidateOk(c, s, d)
      PROVE  Quiet
  <2>1. mine[c] # Nil
    BY <1>2 DEF FetchDone, RevalidateOk, IInv, ClientOK
  <2>2. /\ dead' = [dead EXCEPT ![mine[c]] = d] /\ UNCHANGED status
        /\ UNCHANGED <<held, cache_model, sect>>
    BY <1>2 DEF FetchDone, RevalidateOk, Filled
  <2>3. \A p \in Obj :
       /\ status[p] = "hashed" /\ status'[p] = "hashed" => dead'[p] = dead[p]
       /\ status[p] # "hashed" /\ status'[p] = "hashed" => ~dead'[p]
       /\ status'[p] = "free" => ~dead'[p]
    BY <1>m, <2>1, <2>2 DEF IInv, TypeOK, ObjTypes, FreeIsBlank
  <2>4. \/ Goto(c, "store") /\ pc[c] = "fetch"
        \/ Goto(c, "kill") /\ pc[c] = "revalidate"
    BY <1>2 DEF FetchDone, RevalidateOk
  <2> QED BY <1>0, <2>2, <2>3, <2>4, QuietThreads DEF Quiet, ServingPCs
<1>3. CASE FetchFails(c) \/ RevalidateNotModified(c) \/ RevalidateFails(c)
  <2>1. mine[c] # Nil /\ Destroy(mine[c])
    BY <1>3 DEF FetchFails, RevalidateNotModified, RevalidateFails, IInv, ClientOK
  <2>2. UNCHANGED <<held, cache_model, sect>>
    BY <1>3 DEF FetchFails, RevalidateNotModified, RevalidateFails
  <2>3. \/ Goto(c, "idle") /\ pc[c] = "fetch"
        \/ pc[c] = "revalidate" /\ \E p \in {"swapin", "rate", "kill"} : Goto(c, p)
    BY <1>3 DEF FetchFails, RevalidateNotModified, RevalidateFails
  <2> QED BY <1>0, <1>m, <2>1, <2>2, <2>3, QuietThreads, QuietDestroy DEF Quiet, ServingPCs
<1>4. CASE Store(c) \/ Replace(c)
  <2>1. mine[c] # Nil /\ StoredObj(mine[c])
    BY <1>4 DEF Store, Replace, IInv, ClientOK
  <2>2. UNCHANGED <<held, cache_model, sect>>
    BY <1>4 DEF Store, Replace
  <2>3. \/ Goto(c, "idle") /\ pc[c] = "store"
        \/ Goto(c, "release") /\ pc[c] = "replace"
    BY <1>4 DEF Store, Replace
  <2> QED BY <1>0, <1>m, <2>1, <2>2, <2>3, QuietThreads, QuietStored DEF Quiet, ServingPCs
<1>5. CASE Serve(c) \/ Rate(c) \/ Release(c)
  <2>1. UNCHANGED <<status, dead, held, cache_model, sect>>
    BY <1>5 DEF Serve, Rate, Release
  <2>2. \/ pc[c] = "hit" /\ \E p \in {"swapin", "rate"} : Goto(c, p)
        \/ pc[c] = "rate" /\ Goto(c, "release")
        \/ pc[c] = "release" /\ Goto(c, "unlock")
    BY <1>5 DEF Serve, Rate, Release
  <2> QED BY <1>0, <2>1, <2>2, QuietThreads, QuietObjects DEF Quiet, ServingPCs
<1>6. CASE Revalidate(c)
  <2>1. PICK o \in Obj : Allocate(o, url[held[c]])
    BY <1>6 DEF Revalidate
  <2>2. UNCHANGED <<held, cache_model, sect>> /\ Goto(c, "revalidate") /\ pc[c] = "hit"
    BY <1>6 DEF Revalidate
  <2> QED BY <1>0, <2>1, <2>2, QuietThreads, QuietAllocate DEF Quiet, ServingPCs
<1>7. CASE SwapIn(c)
  <2>1. /\ UNCHANGED <<status, dead, held, cache_model, sect>>
        /\ pc[c] = "swapin" /\ Goto(c, "sending")
    BY <1>7 DEF SwapIn
  <2> QED BY <1>0, <2>1, QuietThreads, QuietObjects DEF Quiet, ServingPCs
<1>8. CASE Sent(c)
  <2>1. /\ UNCHANGED <<status, dead, held, cache_model, sect>>
        /\ pc[c] = "sending" /\ Goto(c, after[c])
    BY <1>8 DEF Sent
  <2>2. after[c] \in PCs /\ after[c] # "bury" /\ after[c] # "mark"
    BY <1>0
  <2> QED BY <1>0, <2>1, <2>2, QuietThreads, QuietObjects DEF Quiet, ServingPCs
<1>9. CASE BuryFaults(c)
  <2>1. UNCHANGED <<status, dead, pc, held, cache_model, sect>>
    BY <1>9 DEF BuryFaults, Crash
  <2> QED BY <2>1, QuietIdle, QuietObjects DEF Quiet
<1>10. CASE Mark(c)
  <2>1. /\ UNCHANGED <<status, dead, held, sect>> /\ cache_model' = "DROP_DEAD"
        /\ pc[c] = "mark" /\ Goto(c, after[c])
    BY <1>10 DEF Mark
  <2>2. after[c] \in PCs /\ after[c] # "bury" /\ after[c] # "mark" /\ after[c] \notin ServingPCs
    BY <1>0, <2>1 DEF KilledIsLeft, ServingPCs
  <2> QED BY <1>0, <2>1, <2>2, QuietThreads, QuietObjects DEF Quiet
<1>11. CASE Unlock(c)
  <2>1. /\ UNCHANGED <<status, dead, cache_model, sect>> /\ held' = [held EXCEPT ![c] = Nil]
        /\ pc[c] = "unlock" /\ Goto(c, "idle")
    BY <1>11 DEF Unlock
  <2>2. held' \in [Client -> Ptr] /\ \A d \in Client : d # c => held'[d] = held[d]
    BY <1>0, <2>1
  <2> QED BY <1>0, <2>1, <2>2, QuietThreads, QuietObjects DEF Quiet, ServingPCs
<1>12. CASE Forget(c)
  <2>1. /\ UNCHANGED <<dead, cache_model, sect>> /\ held' = [held EXCEPT ![c] = Nil]
        /\ pc[c] = "forget" /\ Goto(c, "idle")
        /\ \/ UNCHANGED status
           \/ status' = [status EXCEPT ![mine[c]] = "leaked"]
    BY <1>12 DEF Forget
  <2>2. held' \in [Client -> Ptr] /\ \A d \in Client : d # c => held'[d] = held[d]
    BY <1>0, <2>1
  <2>3. \A p \in Obj :
       /\ status[p] = "hashed" /\ status'[p] = "hashed" => dead'[p] = dead[p]
       /\ status[p] # "hashed" /\ status'[p] = "hashed" => ~dead'[p]
       /\ status'[p] = "free" => ~dead'[p]
    BY <2>1 DEF IInv, TypeOK, ObjTypes, FreeIsBlank
  <2> QED BY <1>0, <2>1, <2>2, <2>3, QuietThreads DEF Quiet, ServingPCs
<1> HIDE DEF objVars, sizeVars, listVars, cliVars, gcVars
<1> QED
  BY <1>1, <1>2, <1>3, <1>4, <1>5, <1>6, <1>7, <1>8, <1>9, <1>10, <1>11, <1>12 DEF Work

(* The other processes.                                                    *)
LEMMA QuietOthers ==
  ASSUME IInv(Nat), FreeIsBlank, UseDisk, ~DiskFaults,
         Collect \/ Boot \/ Stop \/ Ended \/ UNCHANGED vars
  PROVE  Quiet
<1> USE DEF objVars, sizeVars, listVars, cliVars, gcVars
<1>1. UNCHANGED <<pc, held>>
  BY DEF Collect, ReadSizes, EnterDelete, DeleteEnd, DeleteStep, EnterClean, SkipClean, CleanDrop,
    CleanKeep, CleanEnd, Boot, Booted, Restore, Stop, Shutdown, EnterSaveAll, SaveIndexAndExit,
    Ended, vars
<1>a. \/ ReadSizes \/ EnterDelete \/ DeleteEnd \/ DeleteStep \/ EnterClean \/ SkipClean \/ CleanDrop
      \/ CleanKeep \/ CleanEnd \/ Boot \/ Stop \/ Ended \/ UNCHANGED vars
  BY DEF Collect
<1>2. sect'.op # "clean" /\ cache_model' = "CLEAN_CACHE" =>
        CleanEnd \/ (sect.op # "clean" /\ cache_model = "CLEAN_CACHE")
  <2>1. CASE ReadSizes \/ SkipClean \/ CleanKeep \/ Boot \/ Stop \/ Ended \/ UNCHANGED vars
    <3>1. UNCHANGED cache_model /\ (sect' = sect \/ EnterSaveAll)
      BY <2>1 DEF ReadSizes, SkipClean, CleanKeep, Boot, Booted, Restore, Stop, Shutdown,
        SaveIndexAndExit, EnterSaveAll, Ended, vars
    <3>2. EnterSaveAll => sect.op # "clean"
      BY DEF EnterSaveAll, ListFree, IInv, Phases
    <3> QED BY <3>1, <3>2
  <2>5. CASE DeleteEnd
    BY <2>5 DEF DeleteEnd
  <2>6. CASE CleanDrop
    BY <2>6 DEF CleanDrop, IInv, TypeOK, ListTypes
  <2>2. CASE EnterDelete
    BY <2>2 DEF EnterDelete, ListFree, IInv, Phases
  <2>3. CASE EnterClean
    BY <2>3 DEF EnterClean
  <2>4. CASE DeleteStep
    BY <2>4 DEF DeleteStep, SwapOut
  <2>7. CASE CleanEnd
    BY <2>7
  <2> QED BY <1>a, <2>1, <2>2, <2>3, <2>4, <2>5, <2>6, <2>7
<1>3. \A p \in Obj :
       /\ status[p] = "hashed" /\ status'[p] = "hashed" => dead'[p] = dead[p]
       /\ status[p] # "hashed" /\ status'[p] = "hashed" => ~dead'[p]
       /\ status'[p] = "free" => ~dead'[p]
  <2>1. CASE ReadSizes \/ DeleteEnd \/ SkipClean \/ CleanKeep \/ CleanEnd \/ EnterDelete \/ EnterClean
             \/ Booted \/ Stop \/ Ended \/ UNCHANGED vars
    <3>1. UNCHANGED <<status, dead>>
      BY <2>1 DEF ReadSizes, DeleteEnd, SkipClean, CleanKeep, CleanEnd, EnterDelete, EnterClean,
        Booted, Stop, Shutdown, EnterSaveAll, SaveIndexAndExit, Ended, vars
    <3> QED BY <3>1, QuietObjects
  <2>2. CASE CleanDrop
    <3>1. l.dhead \in Obj /\ Destroy(l.dhead)
      BY <2>2 DEF CleanDrop, IInv, TypeOK, ListTypes, ListType, Ptr
    <3> QED BY <3>1, QuietDestroy
  <2>3. CASE DeleteStep
    <3>1. UNCHANGED <<status, dead>>
      BY <2>3 DEF DeleteStep, SwapOut
    <3> QED BY <3>1, QuietObjects
  <2>4. ASSUME NEW o \in Obj, NEW u \in Url, NEW s \in Sizes, Restore(o, u, s)
        PROVE  \A p \in Obj :
                 /\ status[p] = "hashed" /\ status'[p] = "hashed" => dead'[p] = dead[p]
                 /\ status[p] # "hashed" /\ status'[p] = "hashed" => ~dead'[p]
                 /\ status'[p] = "free" => ~dead'[p]
    BY <2>4 DEF Restore, FreeIsBlank, IInv, TypeOK, ObjTypes
  <2> QED BY <2>1, <2>2, <2>3, <2>4 DEF Collect, Boot
<1> HIDE DEF objVars, sizeVars, listVars, cliVars, gcVars
<1> QED BY <1>1, <1>2, <1>3, QuietIdle DEF Quiet

(* A step that kills or buries an object, or a quiet one.                  *)
LEMMA QuietStep ==
  ASSUME IInv(Nat), FreeIsBlank, KilledIsLeft, UseDisk, ~DiskFaults, [Next]_vars,
         \A c \in Client : ~Kill(c) /\ ~Bury(c)
  PROVE  Quiet
BY QuietRequest, QuietWork, QuietOthers DEF Next

(* A revalidation that goes on or fails leads to the end of the request.   *)
LEMMA KilledStep ==
  ASSUME IInv(Nat), KilledIsLeft, ~DiskFaults, [Next]_vars
  PROVE  KilledIsLeft'
<1> USE DEF objVars, sizeVars, listVars, cliVars, gcVars
<1>0. pc \in [Client -> PCs] /\ after \in [Client -> AfterPCs]
  BY DEF IInv, TypeOK, ClientTypes
<1>1. ASSUME NEW c \in Client, NEW p, p \notin {"kill", "bury", "mark"}, Goto(c, p),
             \A d \in Client : d # c => after'[d] = after[d]
      PROVE  KilledIsLeft'
  BY <1>0, <1>1 DEF Goto, KilledIsLeft
<1>2. ASSUME NEW c \in Client, Request(c) PROVE KilledIsLeft'
  <2>1. \A d \in Client : d # c => after'[d] = after[d]
    BY <1>0, <1>2 DEF Request, LocateHit, LocateNew, LocateOnlyIfCached
  <2>2. \E p \in {"hit", "fetch", "swapin", "sending"} : Goto(c, p)
    BY <1>2 DEF Request, LocateHit, LocateNew, LocateOnlyIfCached
  <2> QED BY <1>1, <2>1, <2>2
<1>3. ASSUME NEW c \in Client, Work(c) PROVE KilledIsLeft'
  <2>1. CASE \/ RefuseFatboy(c) \/ FetchFails(c) \/ Store(c) \/ Serve(c) \/ Revalidate(c)
             \/ RevalidateNotModified(c) \/ SwapIn(c) \/ Replace(c) \/ Rate(c) \/ Release(c)
             \/ Unlock(c) \/ Forget(c) \/ \E s \in Sizes, d \in BOOLEAN : FetchDone(c, s, d)
    <3>1. \A d \in Client : d # c => after'[d] = after[d]
      BY <1>0, <2>1 DEF RefuseFatboy, FetchFails, Store, Serve, Revalidate, RevalidateNotModified,
        SwapIn, Replace, Rate, Release, Unlock, Forget, FetchDone
    <3>2. \E p \in {"idle", "store", "swapin", "rate", "revalidate", "sending", "release", "unlock"} :
            Goto(c, p)
      BY <2>1 DEF RefuseFatboy, FetchFails, Store, Serve, Revalidate, RevalidateNotModified,
        SwapIn, Replace, Rate, Release, Unlock, Forget, FetchDone
    <3> QED BY <1>1, <3>1, <3>2
  <2>2. CASE Sent(c) \/ Mark(c)
    <3>1. Goto(c, after[c]) /\ UNCHANGED after
      BY <2>2 DEF Sent, Mark
    <3>2. after[c] \notin {"kill", "bury", "mark"}
      BY <1>0 DEF AfterPCs
    <3> QED BY <1>1, <3>1, <3>2
  <2>3. CASE RevalidateFails(c) \/ \E s \in Sizes, d \in BOOLEAN : RevalidateOk(c, s, d)
    <3>1. Goto(c, "kill") /\ \E p \in {"replace", "release"} : after' = [after EXCEPT ![c] = p]
      BY <2>3 DEF RevalidateFails, RevalidateOk
    <3> QED BY <1>0, <3>1 DEF Goto, KilledIsLeft
  <2>4. CASE Kill(c) \/ Bury(c)
    <3>1. UNCHANGED after /\ pc[c] \in {"kill", "bury"} /\ \E p \in {"bury", "mark"} : Goto(c, p)
      BY <2>4 DEF Kill, Bury
    <3> QED BY <1>0, <3>1 DEF Goto, KilledIsLeft
  <2>5. CASE BuryFaults(c)
    BY <2>5 DEF BuryFaults, Crash, KilledIsLeft
  <2> QED BY <1>3, <2>1, <2>2, <2>3, <2>4, <2>5 DEF Work
<1>4. CASE Collect \/ Boot \/ Stop \/ Ended \/ UNCHANGED vars
  <2>1. UNCHANGED <<pc, after>>
    BY <1>4 DEF Collect, ReadSizes, EnterDelete, DeleteEnd, DeleteStep, EnterClean, SkipClean,
      CleanDrop, CleanKeep, CleanEnd, Boot, Booted, Restore, Stop, Shutdown, EnterSaveAll,
      SaveIndexAndExit, Ended, vars
  <2> QED BY <2>1 DEF KilledIsLeft
<1> HIDE DEF objVars, sizeVars, listVars, cliVars, gcVars
<1> QED BY <1>2, <1>3, <1>4 DEF Next

(* The sets of objects the four conjuncts are about, and what a thread at  *)
(* a control point of dead_obj holds.                                      *)
LEMMA KillerHolds ==
  ASSUME IInv(Nat), NEW c \in Client, pc[c] \in ServingPCs \cup {"bury", "mark"}, held[c] # Nil
  PROVE  held[c] \in Obj /\ c \in Holders(held[c]) /\ status[held[c]] = "hashed"
<1>1. held[c] \in Obj
  BY DEF IInv, TypeOK, ClientTypes, Ptr
<1>2. c \in Holders(held[c])
  BY DEF Holders, HoldingPCs, AfterPCs, ServingPCs
<1> QED BY <1>1, <1>2 DEF IInv, HeldIsCached

(* The same after a step.                                                  *)
LEMMA KillerHoldsNext ==
  ASSUME IInv(Nat)', NEW c \in Client, pc'[c] \in ServingPCs \cup {"bury", "mark"}, held'[c] # Nil
  PROVE  held'[c] \in Obj /\ status'[held'[c]] = "hashed"
<1>1. PICK o \in Obj : o = held'[c]
  BY DEF IInv, TypeOK, ClientTypes, Ptr
<1>2. c \in Holders(o)'
  BY <1>1 DEF Holders, HoldingPCs, AfterPCs, ServingPCs
<1> QED BY <1>1, <1>2 DEF IInv, HeldIsCached

(* Kill and Bury, seen from a thread and an object.                        *)
LEMMA KillMove ==
  ASSUME IInv(Nat), ServedAlone, NEW c \in Client, Kill(c)
  PROVE  /\ held[c] \in Obj /\ status[held[c]] = "hashed" /\ pc[c] = "kill"
         /\ pc'[c] = "bury" /\ \A d \in Client : d # c => pc'[d] = pc[d]
         /\ dead'[held[c]] = TRUE /\ \A p \in Obj : p # held[c] => dead'[p] = dead[p]
         /\ UNCHANGED <<held, status, l, lost, sect, cache_model>>
         /\ \A d \in Client : d # c /\ pc[d] \in ServingPCs \cup {"bury", "mark"} =>
              held[d] # held[c]
<1>1. /\ Goto(c, "bury") /\ pc[c] = "kill" /\ dead' = [dead EXCEPT ![held[c]] = TRUE]
      /\ UNCHANGED <<held, status, l, lost, sect, cache_model>>
  BY DEF Kill, objVars, sizeVars, listVars, cliVars, gcVars
<1>2. held[c] # Nil
  BY <1>1 DEF IInv, ClientOK, HoldingPCs, AfterPCs
<1>3. held[c] \in Obj /\ c \in Holders(held[c]) /\ status[held[c]] = "hashed"
  BY <1>1, <1>2, KillerHolds DEF ServingPCs
<1>4. ASSUME NEW d \in Client, d # c, pc[d] \in ServingPCs \cup {"bury", "mark"} PROVE held[d] # held[c]
  <2>1. held[d] = held[c] => d \in Holders(held[c])
    BY <1>2, <1>4, KillerHolds
  <2> QED BY <1>3, <1>4, <2>1 DEF ServedAlone
<1>5. pc'[c] = "bury" /\ \A d \in Client : d # c => pc'[d] = pc[d]
  BY <1>1 DEF Goto, IInv, TypeOK, ClientTypes
<1>6. dead'[held[c]] = TRUE /\ \A p \in Obj : p # held[c] => dead'[p] = dead[p]
  BY <1>1, <1>3 DEF IInv, TypeOK, ObjTypes
<1> QED BY <1>1, <1>3, <1>4, <1>5, <1>6

(* Bury changes neither what is dead nor what is cached, and its thread    *)
(* keeps its object.                                                       *)
LEMMA BuryMove ==
  ASSUME IInv(Nat), ServedAlone, NEW c \in Client, Bury(c)
  PROVE  /\ held[c] \in Cacheable /\ pc[c] = "bury" /\ sect.op # "clean"
         /\ pc'[c] = "mark" /\ \A d \in Client : d # c => pc'[d] = pc[d]
         /\ UNCHANGED <<held, status, dead, lost, sect, cache_model>>
         /\ l' = dead_list(l, held[c])
         /\ \A d \in Client : d # c /\ pc[d] = "bury" => held[d] # held[c]
<1>1. /\ Goto(c, "mark") /\ pc[c] = "bury" /\ ListFree /\ l' = dead_list(l, held[c])
      /\ UNCHANGED <<held, status, dead, lost, sect, cache_model>>
  BY DEF Bury, objVars, sizeVars, listVars, cliVars, gcVars
<1>2. held[c] # Nil
  BY <1>1 DEF IInv, ClientOK, HoldingPCs, AfterPCs
<1>3. held[c] \in Obj /\ c \in Holders(held[c]) /\ status[held[c]] = "hashed"
  BY <1>1, <1>2, KillerHolds DEF ServingPCs
<1>4. ASSUME NEW d \in Client, d # c, pc[d] = "bury" PROVE held[d] # held[c]
  <2>1. held[d] = held[c] => d \in Holders(held[c])
    BY <1>2, <1>4, KillerHolds
  <2> QED BY <1>3, <1>4, <2>1 DEF ServedAlone
<1>5. pc'[c] = "mark" /\ \A d \in Client : d # c => pc'[d] = pc[d]
  BY <1>1 DEF Goto, IInv, TypeOK, ClientTypes
<1>6. sect.op # "clean"
  BY <1>1 DEF ListFree, IInv, Phases
<1> QED BY <1>1, <1>3, <1>4, <1>5, <1>6 DEF Cacheable

(* A thread that serves an object serves a live one.                       *)
LEMMA ServedIsLiveStep ==
  ASSUME IInv(Nat), IInv(Nat)', ServedAlone, ServedIsLive, KilledIsLeft, FreeIsBlank,
         UseDisk, ~DiskFaults, [Next]_vars
  PROVE  ServedIsLive'
<1>1. ASSUME NEW c \in Client, Kill(c) PROVE ServedIsLive'
  <2>1. ASSUME NEW d \in Client, held[d] # Nil, d # c, pc[d] \in ServingPCs \cup {"bury", "mark"}
        PROVE  dead'[held[d]] = dead[held[d]]
    BY <1>1, <2>1, KillMove, KillerHolds
  <2>2. pc'[c] = "bury" /\ dead'[held[c]] = TRUE /\ held' = held
    BY <1>1, KillMove
  <2>3. ASSUME NEW d \in Client, d # c PROVE pc'[d] = pc[d]
    BY <1>1, <2>3, KillMove
  <2>4. ASSUME NEW d \in Client, held'[d] # Nil, pc'[d] \in ServingPCs PROVE ~dead'[held'[d]]
    <3>1. d # c
      BY <2>2, <2>4 DEF ServingPCs
    <3>2. pc[d] \in ServingPCs /\ held[d] # Nil
      BY <2>2, <2>3, <2>4, <3>1
    <3>3. ~dead[held[d]]
      BY <3>2 DEF ServedIsLive, ServingPCs
    <3> QED BY <2>1, <2>2, <3>1, <3>2, <3>3
  <2>5. ASSUME NEW d \in Client, held'[d] # Nil, pc'[d] \in {"bury", "mark"} PROVE dead'[held'[d]]
    <3>1. CASE d = c
      BY <2>2, <3>1
    <3>2. CASE d # c
      <4>1. pc[d] \in {"bury", "mark"} /\ held[d] # Nil
        BY <2>2, <2>3, <2>5, <3>2
      <4>2. dead[held[d]]
        BY <4>1 DEF ServedIsLive
      <4> QED BY <2>1, <2>2, <3>2, <4>1, <4>2
    <3> QED BY <3>1, <3>2
  <2> QED BY <2>4, <2>5 DEF ServedIsLive, ServingPCs
<1>2. ASSUME NEW c \in Client, Bury(c) PROVE ServedIsLive'
  BY <1>2, BuryMove DEF ServedIsLive
<1>3. ASSUME \A c \in Client : ~Kill(c) /\ ~Bury(c) PROVE ServedIsLive'
  <2>1. Quiet
    BY <1>3, QuietStep
  <2>2. ASSUME NEW c \in Client, held'[c] # Nil, pc'[c] \in ServingPCs PROVE ~dead'[held'[c]]
    <3>1. held'[c] \in Obj /\ status'[held'[c]] = "hashed"
      BY <2>2, KillerHoldsNext
    <3>2. CASE pc[c] \in ServingPCs /\ held'[c] = held[c]
      <4>1. status[held[c]] = "hashed" /\ ~dead[held[c]]
        BY <2>2, <3>2, KillerHolds DEF ServedIsLive, ServingPCs
      <4> QED BY <2>1, <3>1, <3>2, <4>1 DEF Quiet
    <3>3. CASE Live(held'[c])
      BY <2>1, <3>1, <3>3 DEF Quiet, Live
    <3> QED BY <2>1, <2>2, <3>2, <3>3 DEF Quiet
  <2>3. ASSUME NEW c \in Client, held'[c] # Nil, pc'[c] \in {"bury", "mark"} PROVE dead'[held'[c]]
    <3>1. held'[c] \in Obj /\ status'[held'[c]] = "hashed"
      BY <2>3, KillerHoldsNext
    <3>2. pc[c] \in {"bury", "mark"} /\ held'[c] = held[c]
      BY <2>1, <2>3 DEF Quiet
    <3>3. status[held[c]] = "hashed" /\ dead[held[c]]
      BY <2>3, <3>2, KillerHolds DEF ServedIsLive
    <3> QED BY <2>1, <3>1, <3>2, <3>3 DEF Quiet
  <2> QED BY <2>2, <2>3 DEF ServedIsLive, ServingPCs
<1> QED BY <1>1, <1>2, <1>3

(* No step leaves a free object dead.                                      *)
LEMMA FreeIsBlankStep ==
  ASSUME IInv(Nat), ServedAlone, KilledIsLeft, FreeIsBlank, UseDisk, ~DiskFaults, [Next]_vars
  PROVE  FreeIsBlank'
<1>1. ASSUME NEW c \in Client, Kill(c) PROVE FreeIsBlank'
  BY <1>1, KillMove, ZenonT(60) DEF FreeIsBlank
<1>2. ASSUME NEW c \in Client, Bury(c) PROVE FreeIsBlank'
  BY <1>2, BuryMove DEF FreeIsBlank
<1>3. ASSUME \A c \in Client : ~Kill(c) /\ ~Bury(c) PROVE FreeIsBlank'
  BY <1>3, QuietStep DEF Quiet, FreeIsBlank
<1> QED BY <1>1, <1>2, <1>3

(* Which objects are buried changes with Bury only.                        *)
LEMMA BuriedStep ==
  ASSUME IInv(Nat), ServedAlone, ServedIsLive, KilledIsLeft, FreeIsBlank, UseDisk, ~DiskFaults,
         [Next]_vars, NEW p \in Obj, status'[p] = "hashed"
  PROVE  /\ status[p] # "hashed" => ~Buried(p)'
         /\ (\A c \in Client : ~(Bury(c) /\ held[c] = p)) /\ status[p] = "hashed" =>
              (Buried(p)' <=> Buried(p))
<1>1. ASSUME NEW c \in Client, Kill(c) PROVE status[p] = "hashed" /\ (Buried(p)' <=> Buried(p))
  <2>1. CASE p = held[c]
    <3>1. ~dead[p]
      BY <1>1, <2>1, KillMove, NilAssumption DEF ServedIsLive
    <3> QED BY <1>1, <2>1, <3>1, KillMove DEF Buried
  <2>2. CASE p # held[c]
    <3>1. /\ pc[c] = "kill" /\ pc'[c] = "bury" /\ held' = held /\ status' = status
          /\ dead'[p] = dead[p]
      BY <1>1, <2>2, KillMove
    <3>2. ASSUME NEW d \in Client, d # c PROVE pc'[d] = pc[d]
      BY <1>1, <3>2, KillMove, ZenonT(60)
    <3>3. ASSUME NEW d \in Client PROVE held'[d] = p /\ pc'[d] = "bury" <=> held[d] = p /\ pc[d] = "bury"
      <4>1. CASE d = c
        BY <2>2, <3>1, <4>1
      <4>2. CASE d # c
        BY <3>1, <3>2, <4>2
      <4> QED BY <4>1, <4>2
    <3> QED BY <3>1, <3>3 DEF Buried
  <2> QED BY <2>1, <2>2
<1>2. ASSUME NEW c \in Client, Bury(c), held[c] # p
      PROVE  status[p] = "hashed" /\ (Buried(p)' <=> Buried(p))
  BY <1>2, BuryMove DEF Buried
<1>3. ASSUME \A c \in Client : ~Kill(c) /\ ~Bury(c)
      PROVE  /\ status[p] # "hashed" => ~Buried(p)'
             /\ status[p] = "hashed" => (Buried(p)' <=> Buried(p))
  <2>1. Quiet
    BY <1>3, QuietStep
  <2> QED BY <2>1 DEF Quiet, Buried
<1>4. ASSUME NEW c \in Client, Bury(c), held[c] = p PROVE status[p] = "hashed"
  BY <1>4, BuryMove DEF Cacheable
<1> QED BY <1>1, <1>2, <1>3, <1>4

(* The members of B come first in the sequence s.                          *)
First(s, B) == \A i, j \in 1 .. Len(s) : i < j /\ s[j] \in B => s[i] \in B

(* A sequence keeps its first part when something else is appended, ...    *)
LEMMA FirstAppend ==
  ASSUME NEW S, NEW s \in Seq(S), NEW o, NEW B, NEW B2, First(s, B), o \notin B2,
         \A i \in 1 .. Len(s) : s[i] \in B2 <=> s[i] \in B
  PROVE  First(Append(s, o), B2)
<1>1. /\ Len(Append(s, o)) = Len(s) + 1 /\ Append(s, o)[Len(s) + 1] = o
      /\ \A i \in 1 .. Len(s) : Append(s, o)[i] = s[i]
  OBVIOUS
<1> DEFINE a == Append(s, o)
<1>2. Len(a) = Len(s) + 1 /\ a[Len(s) + 1] = o /\ \A i \in 1 .. Len(s) : a[i] = s[i] /\ s[i] \in S
  BY <1>1
<1> HIDE DEF a
<1>3. First(a, B2)
  BY <1>2 DEF First
<1> QED BY <1>3 DEF a

(* ... when something else moves to the end, ...                           *)
LEMMA FirstTouch ==
  ASSUME NEW S, NEW s \in Seq(S), NEW s2 \in Seq(S), NEW o, NEW B, NEW B2, First(s, B), o \notin B2,
         \A p \in S : p \in B2 <=> p \in B, NEW j \in 1 .. Len(s), Len(s2) = Len(s),
         \A i \in 1 .. Len(s) : s2[i] = IF i < j THEN s[i] ELSE IF i < Len(s) THEN s[i + 1] ELSE o
  PROVE  First(s2, B2)
<1>1. ASSUME NEW h \in 1 .. Len(s), NEW i \in 1 .. Len(s), h < i, s2[i] \in B2 PROVE s2[h] \in B2
  <2>1. i # Len(s) \/ i < j
    BY <1>1
  <2> DEFINE i2 == IF i < j THEN i ELSE i + 1
             h2 == IF h < j THEN h ELSE h + 1
  <2>2. i2 \in 1 .. Len(s) /\ h2 \in 1 .. Len(s) /\ h2 < i2
    BY <1>1, <2>1
  <2>3. s2[i] = s[i2] /\ s2[h] = s[h2]
    BY <1>1, <2>1
  <2> HIDE DEF i2, h2
  <2>4. s[i2] \in S /\ s[h2] \in S
    BY <2>2
  <2> QED BY <1>1, <2>2, <2>3, <2>4 DEF First
<1> QED BY <1>1 DEF First

(* ... when a member of it is moved to the front, ...                      *)
LEMMA FirstBury ==
  ASSUME NEW S, NEW s \in Seq(S), NEW s2 \in Seq(S), NEW B, NEW B2, NEW o \in B2, First(s, B),
         \A p \in S : p # o => (p \in B2 <=> p \in B), NEW j \in 1 .. Len(s), s[j] = o,
         Len(s2) = Len(s), \A h, i \in 1 .. Len(s) : s[h] = s[i] => h = i,
         \A i \in 1 .. Len(s) : s2[i] = IF i = 1 THEN o ELSE IF i <= j THEN s[i - 1] ELSE s[i]
  PROVE  First(s2, B2)
<1>1. ASSUME NEW h \in 1 .. Len(s), NEW i \in 1 .. Len(s), h < i, s2[i] \in B2 PROVE s2[h] \in B2
  <2>1. CASE h = 1
    BY <1>1, <2>1
  <2>2. CASE h # 1
    <3> DEFINE i2 == IF i <= j THEN i - 1 ELSE i
               h2 == IF h <= j THEN h - 1 ELSE h
    <3>1. i2 \in 1 .. Len(s) /\ h2 \in 1 .. Len(s) /\ h2 < i2 /\ i2 # j /\ h2 # j
      BY <1>1, <2>2
    <3>2. s2[i] = s[i2] /\ s2[h] = s[h2]
      BY <1>1, <2>2
    <3> HIDE DEF i2, h2
    <3>3. s[i2] \in S /\ s[h2] \in S /\ s[i2] # o /\ s[h2] # o
      BY <3>1
    <3> QED BY <1>1, <3>1, <3>2, <3>3 DEF First
  <2> QED BY <2>1, <2>2
<1> QED BY <1>1 DEF First

(* ... and when something is taken out.                                    *)
LEMMA FirstDrop ==
  ASSUME NEW S, NEW s \in Seq(S), NEW s2 \in Seq(S), NEW B, NEW B2, First(s, B),
         \A i \in 1 .. Len(s2) : s2[i] \in B2 <=> s2[i] \in B,
         NEW j \in 1 .. Len(s), Len(s2) = Len(s) - 1,
         \A i \in 1 .. Len(s) - 1 : s2[i] = IF i < j THEN s[i] ELSE s[i + 1]
  PROVE  First(s2, B2)
<1>1. ASSUME NEW h \in 1 .. Len(s) - 1, NEW i \in 1 .. Len(s) - 1, h < i, s2[i] \in B2
      PROVE  s2[h] \in B2
  <2> DEFINE i2 == IF i < j THEN i ELSE i + 1
             h2 == IF h < j THEN h ELSE h + 1
  <2>1. i2 \in 1 .. Len(s) /\ h2 \in 1 .. Len(s) /\ h2 < i2
    BY <1>1
  <2>2. s2[i] = s[i2] /\ s2[h] = s[h2]
    BY <1>1
  <2> HIDE DEF i2, h2
  <2> QED BY <1>1, <2>1, <2>2 DEF First
<1> QED BY <1>1 DEF First

(* The objects of the list after a step are the cached ones.               *)
LEMMA OrderNext ==
  ASSUME IInv(Nat)', ~lost'
  PROVE  /\ Order(l') \in Seq(Cacheable')
         /\ \A i \in 1 .. Len(Order(l')) : Order(l')[i] \in Cacheable'
<1>1. /\ Cacheable' \in SUBSET Obj /\ l' \in ListType /\ IsFiniteSet(Obj)
      /\ \E cleaning \in BOOLEAN : Shape(Nat, l', Cacheable', FALSE, cleaning)
  BY ConstantsAssumption DEF IInv, TypeOK, ListTypes, Cacheable
<1>2. Order(l') \in Seq(Cacheable')
  BY <1>1, OrderIsEnumeration
<1> QED BY <1>2

BuriedObjs == {o \in Obj : Buried(o)}

(* DeadFirst, when the cache is intact, is about the order of the list and *)
(* the set of buried objects.                                              *)
LEMMA DeadFirstTerms ==
  ASSUME IInv(Nat)
  PROVE  DeadFirst <=> (~lost => First(Order(l), BuriedObjs))
<1>1. ASSUME ~lost
      PROVE  (\A i, j \in 1 .. Len(Order(l)) :
                i < j /\ Buried(Order(l)[j]) => Buried(Order(l)[i]))
             <=> First(Order(l), BuriedObjs)
  <2> DEFINE s == Order(l)
  <2>1. \A i \in 1 .. Len(s) : s[i] \in Obj
    <3>1. s \in Seq(Cacheable)
      BY <1>1, LruOrder
    <3> HIDE DEF s
    <3> QED BY <3>1 DEF Cacheable
  <2>2. \A i \in 1 .. Len(s) : Buried(s[i]) <=> s[i] \in BuriedObjs
    BY <2>1 DEF BuriedObjs
  <2> HIDE DEF s
  <2>3. (\A i, j \in 1 .. Len(s) : i < j /\ Buried(s[j]) => Buried(s[i])) <=> First(s, BuriedObjs)
    BY <2>2 DEF First
  <2> QED BY <2>3 DEF s
<1> QED BY <1>1 DEF DeadFirst

(* It is enough to show it of the next order and the next set.             *)
LEMMA DeadFirstNext ==
  ASSUME IInv(Nat)', ~lost' => First(Order(l'), BuriedObjs')
  PROVE  DeadFirst'
<1>1. ASSUME ~lost', NEW i \in 1 .. Len(Order(l')), NEW j \in 1 .. Len(Order(l')), i < j,
             Buried(Order(l)[j])'
      PROVE  Buried(Order(l)[i])'
  <2>1. PICK p \in Obj, q \in Obj : p = Order(l')[i] /\ q = Order(l')[j]
    BY <1>1, OrderNext DEF Cacheable
  <2>2. p \in BuriedObjs' <=> Buried(p)'
    BY DEF BuriedObjs
  <2>3. q \in BuriedObjs' <=> Buried(q)'
    BY DEF BuriedObjs
  <2>4. Buried(q)' /\ (Buried(Order(l)[i])' <=> Buried(p)')
    BY <1>1, <2>1 DEF Buried
  <2> QED BY <1>1, <2>1, <2>2, <2>3, <2>4 DEF First
<1> QED BY <1>1 DEF DeadFirst

(* dead_list puts the object in front of the buried ones, add_list and     *)
(* update_list put a live one behind them, the rest keeps their order.     *)
LEMMA DeadFirstStep ==
  ASSUME IInv(Nat), IInv(Nat)', ServedAlone, ServedIsLive, KilledIsLeft, FreeIsBlank, DeadFirst,
         UseDisk, ~DiskFaults, [Next]_vars
  PROVE  DeadFirst'
<1> DEFINE s  == Order(l)
           s2 == Order(l')
           B  == BuriedObjs
           B2 == BuriedObjs'
<1> SUFFICES ASSUME ~lost' PROVE First(s2, B2)
  BY DeadFirstNext
<1>1. ListMove
  BY ListStep
<1>2. ~lost /\ lost \in BOOLEAN
  BY <1>1, ShapeFacts DEF ListMove
<1>3. /\ l \in ListType /\ Cacheable \in SUBSET Obj /\ IsFiniteSet(Obj)
      /\ sect.op # "clean" => Shape(Nat, l, Cacheable, FALSE, FALSE)
      /\ sect.op = "clean" => Shape(Nat, l, Cacheable, FALSE, TRUE)
  BY <1>2, ShapeFacts, ConstantsAssumption
<1>4. First(s, B) /\ s \in Seq(Cacheable)
      /\ \A i, j \in 1 .. Len(s) : s[i] = s[j] => i = j
  BY <1>2, DeadFirstTerms, LruOrder
<1>5. s2 \in Seq(Cacheable') /\ \A i \in 1 .. Len(s2) : s2[i] \in Cacheable'
  BY OrderNext
<1>6. ASSUME NEW p \in Cacheable', p \in Cacheable, \A c \in Client : ~(Bury(c) /\ held[c] = p)
      PROVE  p \in B2 <=> p \in B
  <2>1. p \in Obj /\ status[p] = "hashed" /\ status'[p] = "hashed"
    BY <1>6 DEF Cacheable
  <2>2. Buried(p)' <=> Buried(p)
    BY <1>6, <2>1, BuriedStep
  <2> QED BY <2>1, <2>2 DEF BuriedObjs
<1>7. ASSUME NEW p \in Cacheable', p \notin Cacheable PROVE p \notin B2
  <2>1. p \in Obj /\ status[p] # "hashed" /\ status'[p] = "hashed"
    BY <1>7 DEF Cacheable
  <2>2. ~Buried(p)'
    BY <2>1, BuriedStep
  <2> QED BY <2>2 DEF BuriedObjs
<1>8. ASSUME NEW c \in Client, Bury(c) PROVE First(s2, B2)
  <2>1. PICK o \in Cacheable : o = held[c]
    BY <1>8, BuryMove
  <2>2. /\ sect.op # "clean" /\ l' = dead_list(l, o) /\ Cacheable' = Cacheable
    BY <1>8, <2>1, BuryMove DEF Cacheable
  <2>3. o \in B2
    <3>1. dead'[o] /\ ~\E d \in Client : held'[d] = o /\ pc'[d] = "bury"
      <4>1. dead[o] /\ held[c] # Nil /\ o \in Obj
        BY <1>8, <2>1, BuryMove, NilAssumption DEF ServedIsLive, Cacheable
      <4> QED BY <1>8, <2>1, <4>1, BuryMove
    <3> QED BY <1>3, <3>1 DEF BuriedObjs, Buried
  <2>4. \A p \in Cacheable : p # o => (p \in B2 <=> p \in B)
    <3>1. ASSUME NEW p \in Cacheable, p # o PROVE p \in B2 <=> p \in B
      <4>1. p \in Obj /\ status[p] = "hashed" /\ status'[p] = "hashed"
        BY <2>2 DEF Cacheable
      <4>2. dead'[p] = dead[p] /\ \A d \in Client :
              (held'[d] = p /\ pc'[d] = "bury") <=> (held[d] = p /\ pc[d] = "bury")
        BY <1>8, <2>1, <3>1, BuryMove
      <4> QED BY <4>1, <4>2 DEF BuriedObjs, Buried
    <3> QED BY <3>1
  <2>5. PICK j \in 1 .. Len(s) : s[j] = o /\ MovedFirst(l, l', s, j)
    BY <1>3, <2>2, DeadListOrder
  <2>6. Len(s2) = Len(s) /\ s2 \in Seq(Cacheable)
        /\ \A i \in 1 .. Len(s) : s2[i] = IF i = 1 THEN o ELSE IF i <= j THEN s[i - 1] ELSE s[i]
    BY <1>5, <2>2, <2>5 DEF MovedFirst
  <2> HIDE DEF s, s2, B, B2
  <2> QED BY <1>4, <2>3, <2>4, <2>5, <2>6, FirstBury
<1>9. CASE \A c \in Client : ~Bury(c)
  <2>1. \A p \in Cacheable' : /\ p \in Cacheable => (p \in B2 <=> p \in B)
                              /\ p \notin Cacheable => p \notin B2
    BY <1>6, <1>7, <1>9
  <2>2. ASSUME s2 = s PROVE First(s2, B2)
    <3> HIDE DEF s, s2, B, B2
    <3>1. \A i \in 1 .. Len(s) : s[i] \in B2 <=> s[i] \in B
      BY <1>4, <1>5, <2>1, <2>2
    <3> QED BY <1>4, <2>2, <3>1 DEF First
  <2>3. ASSUME sect.op # "clean", NEW o \in Obj \ Cacheable, l' = add_list(l, o)
        PROVE  First(s2, B2)
    <3>1. s2 = Append(s, o)
      BY <1>3, <2>3, AddListOrder
    <3> HIDE DEF s, s2, B, B2
    <3>2. Len(s2) = Len(s) + 1 /\ s2[Len(s) + 1] = o /\ \A i \in 1 .. Len(s) : s2[i] = s[i]
      BY <1>4, <3>1
    <3>3. o \in Cacheable' /\ \A i \in 1 .. Len(s) : s[i] \in Cacheable' /\ s[i] \in Cacheable
      BY <1>4, <1>5, <3>2
    <3>4. o \notin B2 /\ \A i \in 1 .. Len(s) : s[i] \in B2 <=> s[i] \in B
      BY <2>1, <2>3, <3>3
    <3> QED BY <1>4, <3>1, <3>4, FirstAppend
  <2>4. ASSUME sect.op # "clean", NEW o \in Cacheable, NEW c \in Client, Rate(c), held[c] = o,
               l' = update_list(l, o)
        PROVE  First(s2, B2)
    <3>1. /\ Cacheable' = Cacheable /\ pc[c] = "rate"
      BY <2>4 DEF Rate, objVars, Cacheable
    <3>2. o \notin B2
      <4>1. ~dead[o]
        BY <1>3, <2>4, <3>1, NilAssumption DEF ServedIsLive
      <4>2. o \notin B
        BY <4>1 DEF BuriedObjs, Buried
      <4> QED BY <2>1, <3>1, <4>2
    <3>3. /\ Len(s2) = Len(s)
          /\ \E j \in 1 .. Len(s) :
               \A i \in 1 .. Len(s) :
                 s2[i] = IF i < j THEN s[i] ELSE IF i < Len(s) THEN s[i + 1] ELSE o
      BY <1>3, <2>4, UpdateListOrder
    <3> HIDE DEF s, s2, B, B2
    <3>4. s2 \in Seq(Cacheable) /\ \A p \in Cacheable : p \in B2 <=> p \in B
      BY <1>5, <2>1, <3>1
    <3> QED BY <1>4, <3>2, <3>3, <3>4, FirstTouch
  <2>5. ASSUME sect.op = "clean", l.dhead # Nil, l' = DropFirst(l) PROVE First(s2, B2)
    <3>1. /\ s2 \in Seq(Cacheable) /\ Len(s2) = Len(s) - 1
          /\ \E j \in 1 .. Len(s) :
               \A i \in 1 .. Len(s) - 1 : s2[i] = IF i < j THEN s[i] ELSE s[i + 1]
      BY <1>3, <2>5, DropFirstOrder
    <3> HIDE DEF s, s2, B, B2
    <3>2. \A i \in 1 .. Len(s2) : s2[i] \in B2 <=> s2[i] \in B
      BY <1>5, <2>1, <3>1
    <3> QED BY <1>4, <3>1, <3>2, FirstDrop
  <2>6. CASE UNCHANGED l
    BY <2>2, <2>6
  <2>7. CASE sect.op # "clean" /\ l.head # Nil /\ l' = AdvanceHead(l)
    BY <1>3, <2>2, <2>7, AdvanceHeadOrder
  <2>8. CASE sect.op # "clean" /\ l' = [l EXCEPT !.head = l.end]
    BY <1>3, <2>2, <2>8, HeadToEndOrder
  <2>9. CASE sect.op = "clean" /\ l.dhead # Nil /\ l' = KeepFirst(l)
    BY <1>3, <2>2, <2>9, KeepFirstOrder
  <2>10. CASE sect.op = "clean" /\ l' = FinishClean(l) /\ lost' = (lost \/ LosesList(l))
    BY <1>3, <2>2, <2>10, FinishCleanOrder
  <2> HIDE DEF s, s2, B, B2
  <2> QED BY <1>1, <1>9, <2>3, <2>4, <2>5, <2>6, <2>7, <2>8, <2>9, <2>10 DEF ListMove
<1> QED BY <1>8, <1>9

(* When clean_disk ends with nothing parked, no buried object is left.     *)
LEMMA CleanEndLeaves ==
  ASSUME IInv(Nat), DeadFirst, CleanEnd, ~lost, ~lost', cache_model' = "CLEAN_CACHE",
         NEW p \in Cacheable
  PROVE  ~Buried(p)
<1>1. /\ sect.op = "clean" /\ l.thead = Nil
      /\ l.dhead # Nil => refs[l.dhead] <= 0 /\ ~Disposable(l.dhead)
  BY DEF CleanEnd
<1>2. /\ l \in ListType /\ Cacheable \in SUBSET Obj /\ IsFiniteSet(Obj)
      /\ Shape(Nat, l, Cacheable, FALSE, TRUE) /\ Nil \notin Cacheable
  BY <1>1, ShapeFacts, ConstantsAssumption, NilAssumption DEF Cacheable
<1>3. PICK n \in Nat, m \in Nat : \E f \in [1 .. n -> Cacheable], g \in [1 .. m -> Cacheable] :
                                  CleaningRows(l, Cacheable, n, f, m, g)
  BY <1>2, CleaningOrder
<1>4. PICK f \in [1 .. n -> Cacheable], g \in [1 .. m -> Cacheable] :
        CleaningRows(l, Cacheable, n, f, m, g)
  BY <1>3
<1>5. m = 0
  <2>1. m # 0 => g[1] \in Cacheable /\ l.thead = g[1]
    BY <1>4 DEF CleaningRows, Rows
  <2> QED BY <1>1, <1>2, <2>1
<1>6. /\ Len(Order(l)) = n /\ \A i \in 1 .. n : Order(l)[i] = f[i]
      /\ \E i \in 1 .. n : p = f[i]
      /\ n # 0 => l.dhead = f[1]
  BY <1>4, <1>5 DEF CleaningRows, Complete, Rows
<1>7. PICK i \in 1 .. n : p = f[i]
  BY <1>6
<1>8. 1 \in 1 .. n /\ l.dhead = f[1] /\ f[1] \in Cacheable
  BY <1>6, <1>7
<1>9. ~Buried(f[1])
  <2>1. ~dead[f[1]]
    BY <1>1, <1>2, <1>8 DEF Disposable
  <2> QED BY <2>1 DEF Buried
<1>10. Buried(f[i]) => Buried(f[1])
  <2>1. CASE i = 1
    BY <2>1
  <2>2. CASE i # 1
    <3>1. 1 < i /\ Order(l)[i] = f[i] /\ Order(l)[1] = f[1]
      BY <1>6, <1>7, <1>8, <2>2
    <3>2. i \in 1 .. Len(Order(l)) /\ 1 \in 1 .. Len(Order(l))
      BY <1>6, <1>7, <1>8
    <3>3. Buried(Order(l)[i]) => Buried(Order(l)[1])
      BY <3>1, <3>2 DEF DeadFirst
    <3> QED BY <3>1, <3>3
  <2> QED BY <2>1, <2>2
<1> QED BY <1>7, <1>9, <1>10

(* Every step keeps the dead objects remembered.                           *)
LEMMA RememberedStep ==
  ASSUME IInv(Nat), ServedAlone, DeadInv, UseDisk, ~DiskFaults, [Next]_vars
  PROVE  DeadAreRemembered'
<1> USE DEF DeadInv
<1> SUFFICES ASSUME ~lost', sect'.op # "clean", cache_model' = "CLEAN_CACHE",
                    NEW o \in Cacheable', dead'[o]
             PROVE  \E c \in Client : held'[c] = o /\ pc'[c] \in {"bury", "mark"}
  BY DEF DeadAreRemembered
<1>1. o \in Obj /\ status'[o] = "hashed"
  BY DEF Cacheable
<1>2. ~lost
  BY ListStep, ShapeFacts DEF ListMove
<1>3. ASSUME NEW c \in Client, Kill(c)
      PROVE  \E d \in Client : held'[d] = o /\ pc'[d] \in {"bury", "mark"}
  <2>1. CASE o = held[c]
    BY <1>3, <2>1, KillMove
  <2>2. CASE o # held[c]
    <3>1. dead[o] /\ o \in Cacheable /\ sect.op # "clean" /\ cache_model = "CLEAN_CACHE"
      BY <1>1, <1>3, <2>2, KillMove DEF Cacheable
    <3>2. PICK d \in Client : held[d] = o /\ pc[d] \in {"bury", "mark"}
      BY <1>2, <3>1 DEF DeadAreRemembered
    <3> QED BY <1>3, <3>2, KillMove
  <2> QED BY <2>1, <2>2
<1>4. ASSUME NEW c \in Client, Bury(c)
      PROVE  \E d \in Client : held'[d] = o /\ pc'[d] \in {"bury", "mark"}
  <2>1. dead[o] /\ o \in Cacheable /\ sect.op # "clean" /\ cache_model = "CLEAN_CACHE"
    BY <1>1, <1>4, BuryMove DEF Cacheable
  <2>2. PICK d \in Client : held[d] = o /\ pc[d] \in {"bury", "mark"}
    BY <1>2, <2>1 DEF DeadAreRemembered
  <2> QED BY <1>4, <2>2, BuryMove
<1>5. ASSUME \A c \in Client : ~Kill(c) /\ ~Bury(c)
      PROVE  \E d \in Client : held'[d] = o /\ pc'[d] \in {"bury", "mark"}
  <2>1. Quiet
    BY <1>5, QuietStep
  <2>2. o \in Cacheable /\ dead[o]
    BY <1>1, <2>1 DEF Quiet, Cacheable
  <2>3. CASE CleanEnd
    <3>1. ~Buried(o)
      BY <1>2, <2>2, <2>3, CleanEndLeaves
    <3>2. PICK d \in Client : held[d] = o /\ pc[d] = "bury"
      BY <2>2, <3>1 DEF Buried
    <3> QED BY <2>1, <3>2 DEF Quiet
  <2>4. CASE sect.op # "clean" /\ cache_model = "CLEAN_CACHE"
    <3>1. PICK d \in Client : held[d] = o /\ pc[d] \in {"bury", "mark"}
      BY <1>2, <2>2, <2>4 DEF DeadAreRemembered
    <3> QED BY <2>1, <3>1 DEF Quiet
  <2> QED BY <2>1, <2>3, <2>4 DEF Quiet
<1> QED BY <1>3, <1>4, <1>5

(* clean_disk forgets no dead object (cache.cpp:446), as long as one       *)
(* thread at a time uses an object and the cache files can be written and  *)
(* read.  Each hypothesis is needed: two threads on one object let         *)
(* obj_rate move it behind live ones after it has died; an object that     *)
(* cannot be written dies where it stands, also behind one that stays; and *)
(* without a disk cache so does every object that delete_cache reaches.    *)
THEOREM NoDeadForgotten ==
  ASSUME UseDisk, ~DiskFaults
  PROVE  Spec /\ []ServedAlone => []DeadAreRemembered
<1>1. Init => DeadInv
  <2>1. SUFFICES ASSUME Init PROVE DeadInv
    OBVIOUS
  <2>2. Lru!Init /\ cache_model = "CLEAN_CACHE" /\ Cacheable = {}
    BY <2>1, LruInit DEF Init, Cacheable
  <2>3. ~lost => Order(l) = << >>
    BY <2>2 DEF Lru!Init
  <2>4. ServedIsLive /\ KilledIsLeft /\ FreeIsBlank
    BY <2>1 DEF Init, ServedIsLive, KilledIsLeft, FreeIsBlank
  <2>5. DeadFirst
    BY <2>3 DEF DeadFirst
  <2> QED BY <2>2, <2>4, <2>5 DEF DeadInv, DeadAreRemembered
<1>2. IInv(Nat) /\ IInv(Nat)' /\ ServedAlone /\ DeadInv /\ [Next]_vars => DeadInv'
  <2>1. SUFFICES ASSUME IInv(Nat), IInv(Nat)', ServedAlone, DeadInv, [Next]_vars PROVE DeadInv'
    OBVIOUS
  <2>2. ServedIsLive /\ KilledIsLeft /\ FreeIsBlank /\ DeadFirst
    BY <2>1 DEF DeadInv
  <2>3. ServedIsLive' /\ KilledIsLeft' /\ FreeIsBlank' /\ DeadFirst'
    BY <2>1, <2>2, ServedIsLiveStep, KilledStep, FreeIsBlankStep, DeadFirstStep
  <2>4. DeadAreRemembered'
    BY <2>1, RememberedStep
  <2> QED BY <2>3, <2>4 DEF DeadInv
<1>3. DeadInv => DeadAreRemembered
  BY DEF DeadInv
<1> QED BY <1>1, <1>2, <1>3, Inductive, PTL DEF Spec

(* In particular with one worker thread.                                   *)
COROLLARY OneWorkerForgetsNothing ==
  ASSUME UseDisk, ~DiskFaults, \A c, d \in Client : c = d
  PROVE  Spec => []DeadAreRemembered
<1>1. IInv(Nat) => ServedAlone
  BY DEF ServedAlone, Holders
<1> QED BY <1>1, NoDeadForgotten, Inductive, PTL
-----------------------------------------------------------------------------
(* The cache SharedCache promises: what each step does to the life of an   *)
(* object and to what a thread uses.                                       *)

(* A thread that may use its object has a cached one.                      *)
LEMMA KillerIsCached ==
  ASSUME IInv(Nat), NEW c \in Client, pc[c] \in HoldingPCs \ {"sending", "forget"}
  PROVE  held[c] \in Obj /\ status[held[c]] = "hashed"
<1>1. PICK o \in Obj : o = held[c]
  BY DEF IInv, ClientOK, TypeOK, ClientTypes, Ptr
<1>2. c \in Holders(o)
  BY <1>1 DEF Holders
<1> QED BY <1>1, <1>2 DEF IInv, HeldIsCached

(* What the steps do to unused memory and to the URLs of objects.          *)
LEMMA SlotsFitStep ==
  ASSUME IInv(Nat), SlotsFit, [Next]_vars
  PROVE  SlotsFit'
<1> USE DEF objVars, sizeVars, listVars, cliVars, gcVars
<1>0. ObjTypes
  BY DEF IInv, TypeOK
<1>a. ASSUME UNCHANGED <<status, url>>, \A p \in Obj : status[p] = "free" => dead'[p] = dead[p]
      PROVE  SlotsFit'
  BY <1>a DEF SlotsFit
<1>b. ASSUME NEW o \in Obj, NEW u \in Url, Allocate(o, u) PROVE SlotsFit'
  BY <1>0, <1>b DEF SlotsFit, Allocate, ObjTypes
<1>c. ASSUME NEW o \in Obj, Destroy(o) PROVE SlotsFit'
  BY <1>0, <1>c DEF SlotsFit, Destroy, ObjTypes
<1>d. ASSUME NEW c \in Client, mine[c] # Nil, StoredObj(mine[c]) PROVE SlotsFit'
  <2>1. PICK o \in Obj : o = mine[c] /\ status[o] = "private"
    BY <1>d, MineIsPrivate
  <2>2. CASE Destroy(o)
    BY <1>c, <2>2
  <2>3. CASE ~Destroy(o)
    <3>1. status' = [status EXCEPT ![o] = "hashed"] /\ UNCHANGED <<url, dead>>
      BY <1>d, <2>1, <2>3 DEF StoredObj
    <3> QED BY <1>0, <2>1, <3>1 DEF SlotsFit, ObjTypes
  <2> QED BY <2>2, <2>3
<1>e. ASSUME NEW c \in Client, mine[c] # Nil, UNCHANGED <<url, dead>>,
             status' = [status EXCEPT ![mine[c]] = "leaked"]
      PROVE  SlotsFit'
  <2>1. PICK o \in Obj : o = mine[c] /\ status[o] = "private"
    BY <1>e, MineIsPrivate
  <2> QED BY <1>0, <1>e, <2>1 DEF SlotsFit, ObjTypes
<1>f. ASSUME NEW o \in Obj, status[o] # "free", UNCHANGED <<status, url>>,
             \E d : dead' = [dead EXCEPT ![o] = d]
      PROVE  SlotsFit'
  BY <1>0, <1>a, <1>f DEF ObjTypes
<1>1. ASSUME NEW c \in Client, Request(c) PROVE SlotsFit'
  <2>1. PICK u \in Url : LocateHit(c, u) \/ LocateNew(c, u) \/ LocateOnlyIfCached(c, u)
    BY <1>1 DEF Request
  <2>2. CASE \E o \in Obj : Allocate(o, u)
    BY <1>b, <2>2
  <2>3. CASE UNCHANGED <<status, url, dead>>
    BY <1>a, <2>3
  <2> QED BY <2>1, <2>2, <2>3 DEF LocateHit, LocateNew, LocateOnlyIfCached, TakeRef
<1>2. ASSUME NEW c \in Client, Work(c) PROVE SlotsFit'
  <2>1. CASE RefuseFatboy(c)
    BY <1>e, <2>1 DEF RefuseFatboy, IInv, ClientOK
  <2>2. ASSUME NEW s \in Sizes, NEW d \in BOOLEAN, FetchDone(c, s, d) \/ RevalidateOk(c, s, d)
        PROVE  SlotsFit'
    <3>1. mine[c] # Nil
      BY <2>2 DEF FetchDone, RevalidateOk, IInv, ClientOK
    <3>2. mine[c] \in Obj /\ status[mine[c]] # "free"
      BY <3>1, MineIsPrivate
    <3> QED BY <1>f, <2>2, <3>2 DEF FetchDone, RevalidateOk, Filled
  <2>3. CASE FetchFails(c) \/ RevalidateNotModified(c) \/ RevalidateFails(c)
    <3>1. mine[c] # Nil
      BY <2>3 DEF FetchFails, RevalidateNotModified, RevalidateFails, IInv, ClientOK
    <3> QED BY <1>c, <2>3, <3>1, MineIsPrivate
            DEF FetchFails, RevalidateNotModified, RevalidateFails
  <2>4. CASE Store(c) \/ Replace(c)
    <3>1. mine[c] # Nil
      BY <2>4 DEF Store, Replace, IInv, ClientOK
    <3> QED BY <1>d, <2>4, <3>1 DEF Store, Replace
  <2>5. CASE Serve(c) \/ Sent(c) \/ Bury(c) \/ BuryFaults(c) \/ Mark(c) \/ Rate(c)
             \/ Release(c) \/ Unlock(c)
    BY <1>a, <2>5 DEF Serve, Sent, Bury, BuryFaults, Crash, Mark, Rate, Release, Unlock
  <2>6. CASE Revalidate(c)
    <3>1. PICK o \in Obj : Allocate(o, url[held[c]])
      BY <2>6 DEF Revalidate
    <3>2. url[held[c]] \in Url
      BY <2>6, KillerIsCached DEF Revalidate, HoldingPCs, SlotsFit
    <3> QED BY <1>b, <3>1, <3>2
  <2>7. CASE SwapIn(c) \/ Kill(c)
    <3>1. held[c] \in Obj /\ status[held[c]] # "free"
      BY <2>7, KillerIsCached DEF SwapIn, Kill, HoldingPCs
    <3>2. UNCHANGED dead \/ dead' = [dead EXCEPT ![held[c]] = TRUE]
      BY <2>7 DEF SwapIn, Kill
    <3>3. UNCHANGED <<status, url>>
      BY <2>7 DEF SwapIn, Kill
    <3> QED BY <1>a, <1>f, <3>1, <3>2, <3>3
  <2>8. CASE Forget(c)
    <3>1. held[c] = Nil => mine[c] # Nil
      BY <2>8 DEF Forget, IInv, ClientOK
    <3> QED BY <1>a, <1>e, <2>8, <3>1 DEF Forget
  <2> QED BY <1>2, <2>1, <2>2, <2>3, <2>4, <2>5, <2>6, <2>7, <2>8 DEF Work
<1>3. ASSUME Collect PROVE SlotsFit'
  <2>1. CASE ReadSizes \/ EnterDelete \/ DeleteEnd \/ EnterClean \/ SkipClean
             \/ CleanKeep \/ CleanEnd
    BY <1>a, <2>1 DEF ReadSizes, EnterDelete, DeleteEnd, EnterClean, SkipClean, CleanKeep,
      CleanEnd
  <2>2. CASE DeleteStep
    <3>1. l.head \in Obj /\ status[l.head] # "free"
      BY <2>2 DEF DeleteStep, DeleteStops, IInv, Shape, Cacheable
    <3>2. UNCHANGED dead \/ dead' = [dead EXCEPT ![l.head] = TRUE]
      BY <2>2 DEF DeleteStep, SwapOut
    <3> QED BY <1>a, <1>f, <2>2, <3>1, <3>2 DEF DeleteStep
  <2>3. CASE CleanDrop
    <3>1. l.dhead \in Obj
      BY <2>3, NilAssumption DEF CleanDrop, IInv, TypeOK, ListTypes, ListType, Ptr
    <3> QED BY <1>c, <2>3, <3>1 DEF CleanDrop
  <2> QED BY <1>3, <2>1, <2>2, <2>3 DEF Collect
<1>4. ASSUME Boot PROVE SlotsFit'
  BY <1>0, <1>4 DEF Boot, Booted, Restore, SlotsFit, ObjTypes
<1>5. CASE Stop \/ Ended \/ UNCHANGED vars
  BY <1>a, <1>5 DEF Stop, Shutdown, EnterSaveAll, SaveIndexAndExit, Ended, vars
<1> HIDE DEF objVars, sizeVars, listVars, cliVars, gcVars
<1> QED BY <1>1, <1>2, <1>3, <1>4, <1>5 DEF Next

(* What Life says of an object.                                            *)
LEMMA LifeOf ==
  ASSUME ObjTypes, NEW o \in Obj
  PROVE  /\ Life[o] = "none" <=> status[o] = "free"
         /\ Life[o] = "made" <=> status[o] \in {"private", "leaked"}
         /\ Life[o] = "current" <=> Live(o)
         /\ Life[o] = "withdrawn" <=> status[o] = "hashed" /\ dead[o]
<1>1. status[o] \in Status /\ dead[o] \in BOOLEAN
  BY DEF ObjTypes
<1>2. CASE status[o] = "free"
  BY <1>1, <1>2 DEF Life, Live
<1>3. CASE status[o] \in {"private", "leaked"}
  BY <1>1, <1>3 DEF Life, Live
<1>4. CASE status[o] = "hashed" /\ dead[o]
  BY <1>1, <1>4 DEF Life, Live
<1>5. CASE status[o] = "hashed" /\ ~dead[o]
  BY <1>1, <1>5 DEF Life, Live
<1> QED BY <1>1, <1>2, <1>3, <1>4, <1>5 DEF Status

(* A step that changes one object changes one life, ...                    *)
LEMMA LifeChange ==
  ASSUME NEW o \in Obj, \A p \in Obj \ {o} : status'[p] = status[p] /\ dead'[p] = dead[p],
         NEW s, Life'[o] = s
  PROVE  Life' = [Life EXCEPT ![o] = s]
<1>1. ASSUME NEW p \in Obj \ {o} PROVE Life'[p] = Life[p]
  <2>1. status'[p] = status[p] /\ dead'[p] = dead[p]
    OBVIOUS
  <2> QED BY <2>1 DEF Life
<1>2. DOMAIN Life = Obj /\ DOMAIN Life' = Obj /\ Life = [p \in Obj |-> Life[p]]
      /\ Life' = [p \in Obj |-> Life'[p]]
  BY DEF Life
<1> HIDE DEF Life
<1> QED BY <1>1, <1>2

(* ... and one that changes no cached object's FLAG_DEAD and no status     *)
(* changes none.                                                           *)
LEMMA LifeSame ==
  ASSUME UNCHANGED status, \A p \in Obj : status[p] = "hashed" => dead'[p] = dead[p]
  PROVE  Life' = Life
<1>1. ASSUME NEW p \in Obj PROVE Life'[p] = Life[p]
  <2>1. status'[p] = status[p] /\ (status[p] = "hashed" => dead'[p] = dead[p])
    OBVIOUS
  <2>2. CASE status[p] = "hashed"
    BY <2>1, <2>2 DEF Life
  <2>3. CASE status[p] # "hashed"
    BY <2>1, <2>3 DEF Life
  <2> QED BY <2>2, <2>3
<1>2. Life = [p \in Obj |-> Life[p]] /\ Life' = [p \in Obj |-> Life'[p]]
  BY DEF Life
<1> HIDE DEF Life
<1> QED BY <1>1, <1>2

(* What a thread uses after a step that takes it to p with object x.       *)
LEMMA UsingStep ==
  ASSUME ClientTypes, NEW c \in Client, NEW p, Goto(c, p), NEW x,
         held' = [held EXCEPT ![c] = x]
  PROVE  Using' = [Using EXCEPT ![c] = IF p \in HoldingPCs THEN x ELSE Nil]
<1>1. /\ pc'[c] = p /\ held'[c] = x
      /\ \A d \in Client \ {c} : pc'[d] = pc[d] /\ held'[d] = held[d]
  BY DEF ClientTypes, Goto
<1>2. /\ Using'[c] = IF p \in HoldingPCs THEN x ELSE Nil
      /\ \A d \in Client \ {c} : Using'[d] = Using[d]
  BY <1>1 DEF Using
<1>3. DOMAIN Using = Client /\ Using' = [d \in Client |-> Using'[d]]
      /\ Using = [d \in Client |-> Using[d]]
  BY DEF Using
<1> HIDE DEF Using
<1> QED BY <1>2, <1>3

(* A thread that keeps its object, or has none, uses what it used.         *)
LEMMA UsingSame ==
  ASSUME ClientTypes, NEW c \in Client, NEW p, Goto(c, p), UNCHANGED held,
         held[c] = Nil \/ (pc[c] \in HoldingPCs <=> p \in HoldingPCs)
  PROVE  Using' = Using
<1>1. /\ pc'[c] = p
      /\ \A d \in Client \ {c} : pc'[d] = pc[d]
  BY DEF ClientTypes, Goto
<1> QED BY <1>1 DEF Using

(* Nobody moves.                                                           *)
LEMMA UsingIdle ==
  ASSUME UNCHANGED <<pc, held>>
  PROVE  Using' = Using
BY DEF Using

(* The users SharedCache counts are those of the reference count, and what *)
(* it calls current is what locate_in_mem finds.                           *)
LEMMA SharedTerms ==
  ASSUME IInv(Nat)
  PROVE  /\ \A o \in Obj : Shared!Users(o) = Holders(o)
         /\ \A u : Shared!Current(u) = Cached(u)
<1>1. ASSUME NEW o \in Obj PROVE Shared!Users(o) = Holders(o)
  BY NilAssumption DEF Shared!Users, Using, Holders
<1>2. ASSUME NEW u PROVE Shared!Current(u) = Cached(u)
  <2>1. \A o \in Obj : Life[o] = "current" <=> Live(o)
    BY LifeOf DEF IInv, TypeOK
  <2> QED BY <2>1 DEF Shared!Current, Cached
<1> QED BY <1>1, <1>2

(* A step SharedCache does not see.                                        *)
LEMMA SharedStutter ==
  ASSUME Life' = Life, Using' = Using, UNCHANGED <<url, mine>>,
         main' = "boot" <=> main = "boot"
  PROVE  [Shared!Next]_(Shared!vars)
BY DEF Shared!vars

(* A thread's private object is thrown away: Discard.                      *)
LEMMA DiscardStep ==
  ASSUME IInv(Nat), NEW c \in Client, mine[c] # Nil, Destroy(mine[c]),
         mine' = [mine EXCEPT ![c] = Nil], Using' = Using, UNCHANGED main
  PROVE  [Shared!Next]_(Shared!vars)
<1>1. PICK o \in Obj : o = mine[c] /\ status[o] = "private"
  BY MineIsPrivate
<1>2. /\ status' = [status EXCEPT ![o] = "free"] /\ dead' = [dead EXCEPT ![o] = FALSE]
      /\ url' = [url EXCEPT ![o] = Nil]
  BY <1>1 DEF Destroy
<1>3. Life'[o] = "none" /\ \A p \in Obj \ {o} : status'[p] = status[p] /\ dead'[p] = dead[p]
  BY <1>2 DEF IInv, TypeOK, ObjTypes, Life
<1>4. Life' = [Life EXCEPT ![o] = "none"]
  BY <1>3, LifeChange
<1>5. Shared!Discard(c)
  BY <1>1, <1>2, <1>4 DEF Shared!Discard, Shared!Become
<1> QED BY <1>5 DEF Shared!Next

(* A thread gives up its private object without freeing it: Abandon.       *)
LEMMA AbandonStep ==
  ASSUME IInv(Nat), NEW c \in Client, mine[c] # Nil,
         status' = [status EXCEPT ![mine[c]] = "leaked"],
         mine' = [mine EXCEPT ![c] = Nil], Using' = Using, UNCHANGED <<url, dead, main>>
  PROVE  [Shared!Next]_(Shared!vars)
<1>1. PICK o \in Obj : o = mine[c] /\ status[o] = "private"
  BY MineIsPrivate
<1>2. Life'[o] = "made" /\ Life[o] = "made"
      /\ \A p \in Obj \ {o} : status'[p] = status[p] /\ dead'[p] = dead[p]
  BY <1>1 DEF IInv, TypeOK, ObjTypes, Life
<1>3. Life' = [Life EXCEPT ![o] = "made"]
  BY <1>2, LifeChange
<1>4. Life' = Life
  BY <1>2, <1>3 DEF Life
<1>5. Shared!Abandon(c)
  BY <1>4 DEF Shared!Abandon
<1> QED BY <1>5 DEF Shared!Next

(* stored_obj publishes the private object, or throws it away.             *)
LEMMA PublishStep ==
  ASSUME IInv(Nat), NEW c \in Client, mine[c] # Nil, StoredObj(mine[c]),
         mine' = [mine EXCEPT ![c] = Nil], Using' = Using, UNCHANGED main
  PROVE  [Shared!Next]_(Shared!vars)
<1>1. PICK o \in Obj : o = mine[c] /\ status[o] = "private"
  BY MineIsPrivate
<1>2. CASE Destroy(o)
  BY <1>1, <1>2, DiscardStep
<1>3. CASE ~Destroy(o)
  <2>1. /\ ~dead[o] /\ Cached(url[o]) = {} /\ UNCHANGED <<url, dead>>
        /\ status' = [status EXCEPT ![o] = "hashed"]
    BY <1>1, <1>3 DEF StoredObj
  <2>2. Life'[o] = "current"
        /\ \A p \in Obj \ {o} : status'[p] = status[p] /\ dead'[p] = dead[p]
    BY <2>1 DEF IInv, TypeOK, ObjTypes, Life
  <2>3. Life' = [Life EXCEPT ![o] = "current"]
    BY <2>2, LifeChange
  <2>4. Shared!Current(url[o]) = {}
    BY <2>1, SharedTerms
  <2>5. Shared!Publish(c)
    BY <1>1, <2>1, <2>3, <2>4 DEF Shared!Publish, Shared!Become
  <2> QED BY <2>5 DEF Shared!Next
<1> QED BY <1>2, <1>3

(* A thread allocates an object: Make.                                     *)
LEMMA MakeStep ==
  ASSUME IInv(Nat), NEW c \in Client, NEW u \in Url, NEW o \in Obj, Allocate(o, u),
         mine[c] = Nil, mine' = [mine EXCEPT ![c] = o], Using' = Using,
         Using[c] # Nil => url[Using[c]] = u, main # "boot", UNCHANGED main
  PROVE  [Shared!Next]_(Shared!vars)
<1>1. Life'[o] = "made"
      /\ \A p \in Obj \ {o} : status'[p] = status[p] /\ dead'[p] = dead[p]
  BY DEF Allocate, IInv, TypeOK, ObjTypes, Life
<1>2. Life' = [Life EXCEPT ![o] = "made"]
  BY <1>1, LifeChange
<1>3. Life[o] = "none"
  BY LifeOf DEF Allocate, IInv, TypeOK
<1>4. Shared!Make(c, o, u)
  BY <1>2, <1>3 DEF Shared!Make, Shared!Become, Allocate
<1> QED BY <1>4 DEF Shared!Next

(* A thread takes a reference: Use.                                        *)
LEMMA UseStep ==
  ASSUME IInv(Nat), NEW c \in Client, NEW u \in Url, NEW o \in Cached(u), TakeRef(c, o),
         pc[c] = "idle", mine[c] = Nil, NEW p \in HoldingPCs, Goto(c, p),
         main # "boot", UNCHANGED main
  PROVE  [Shared!Next]_(Shared!vars)
<1>1. Using' = [Using EXCEPT ![c] = o]
  BY UsingStep DEF TakeRef, IInv, TypeOK
<1>2. Using[c] = Nil
  BY DEF Using, HoldingPCs, AfterPCs
<1>3. Life' = Life
  BY LifeSame DEF TakeRef
<1>4. o \in Shared!Current(u)
  BY SharedTerms
<1>5. Shared!Use(c, u)
  BY <1>1, <1>2, <1>3, <1>4 DEF Shared!Use, TakeRef
<1> QED BY <1>5 DEF Shared!Next

(* An object of the cache dies: Withdraw, unless it was dead.              *)
LEMMA WithdrawStep ==
  ASSUME IInv(Nat), NEW o \in Obj, status[o] = "hashed",
         dead' = [dead EXCEPT ![o] = TRUE], Using' = Using,
         UNCHANGED <<status, url, mine>>, main' = "boot" <=> main = "boot"
  PROVE  [Shared!Next]_(Shared!vars)
<1>1. Life'[o] = "withdrawn"
      /\ \A p \in Obj \ {o} : status'[p] = status[p] /\ dead'[p] = dead[p]
  BY DEF IInv, TypeOK, ObjTypes, Life
<1>2. Life' = [Life EXCEPT ![o] = "withdrawn"]
  BY <1>1, LifeChange
<1>3. CASE dead[o]
  <2>1. Life[o] = "withdrawn"
    BY <1>3, LifeOf DEF IInv, TypeOK
  <2>2. Life' = Life
    BY <1>2, <2>1 DEF Life
  <2> QED BY <2>2, SharedStutter
<1>4. CASE ~dead[o]
  <2>1. Life[o] = "current"
    BY <1>4, LifeOf DEF IInv, TypeOK, Live
  <2>2. Shared!Withdraw(o)
    BY <1>2, <2>1 DEF Shared!Withdraw, Shared!Become
  <2> QED BY <2>2 DEF Shared!Next
<1> QED BY <1>3, <1>4

(* clean_disk destroys an object nobody uses: Free.                        *)
LEMMA FreeStep ==
  ASSUME IInv(Nat), NEW o \in Obj, status[o] = "hashed", refs[o] <= 0, Destroy(o),
         Using' = Using, UNCHANGED <<mine, main>>
  PROVE  [Shared!Next]_(Shared!vars)
<1>1. /\ status' = [status EXCEPT ![o] = "free"] /\ dead' = [dead EXCEPT ![o] = FALSE]
      /\ url' = [url EXCEPT ![o] = Nil]
  BY DEF Destroy
<1>2. Life'[o] = "none" /\ \A p \in Obj \ {o} : status'[p] = status[p] /\ dead'[p] = dead[p]
  BY <1>1 DEF IInv, TypeOK, ObjTypes, Life
<1>3. Life' = [Life EXCEPT ![o] = "none"]
  BY <1>2, LifeChange
<1>4. Shared!Users(o) = {}
  BY Holding, SharedTerms
<1>5. Life[o] \in {"current", "withdrawn"}
  BY LifeOf DEF IInv, TypeOK, ObjTypes, Live
<1>6. Shared!Free(o)
  BY <1>1, <1>3, <1>4, <1>5 DEF Shared!Free, Shared!Become
<1> QED BY <1>6 DEF Shared!Next

(* A request begins.                                                       *)
LEMMA SharedRequest ==
  ASSUME IInv(Nat), NEW c \in Client, Request(c)
  PROVE  [Shared!Next]_(Shared!vars)
<1>1. PICK u \in Url : LocateHit(c, u) \/ LocateNew(c, u) \/ LocateOnlyIfCached(c, u)
  BY DEF Request
<1>2. pc[c] = "idle" /\ main # "boot" /\ UNCHANGED main
  BY <1>1 DEF LocateHit, LocateNew, LocateOnlyIfCached, Running
<1>3. held[c] = Nil /\ mine[c] = Nil /\ Using[c] = Nil
  BY <1>2 DEF IInv, ClientOK, Using, HoldingPCs, AfterPCs
<1>4. CASE \E o \in Cached(u) : TakeRef(c, o)
  <2>1. PICK p \in HoldingPCs : Goto(c, p)
    BY <1>1, <1>4 DEF LocateHit, LocateNew, LocateOnlyIfCached, HoldingPCs
  <2> QED BY <1>2, <1>3, <1>4, <2>1, UseStep
<1>5. CASE ~\E o \in Cached(u) : TakeRef(c, o)
  <2>1. PICK o \in Obj : Allocate(o, u) /\ mine' = [mine EXCEPT ![c] = o]
    BY <1>1, <1>5 DEF LocateHit, LocateNew, LocateOnlyIfCached
  <2>2. UNCHANGED held /\ \E p : Goto(c, p)
    BY <1>1, <1>5 DEF LocateHit, LocateNew, LocateOnlyIfCached
  <2>3. Using' = Using
    BY <1>3, <2>2, UsingSame DEF IInv, TypeOK
  <2> QED BY <1>2, <1>3, <2>1, <2>3, MakeStep
<1> QED BY <1>4, <1>5

(* A thread works on its request.                                          *)
LEMMA SharedWork ==
  ASSUME IInv(Nat), SlotsFit, NEW c \in Client, Work(c)
  PROVE  [Shared!Next]_(Shared!vars)
<1> USE DEF objVars, sizeVars, listVars, cliVars, gcVars
<1>0. ClientTypes /\ ObjTypes
  BY DEF IInv, TypeOK
<1>a. main # "boot" /\ (main' # "boot")
  BY DEF Work, RefuseFatboy, FetchDone, RevalidateOk, FetchFails, Store, Serve, Revalidate,
    RevalidateNotModified, RevalidateFails, SwapIn, Sent, Kill, Bury, BuryFaults, Crash,
    Mark, Replace, Rate, Release, Unlock, Forget, Running
<1>b. ASSUME NEW p, Goto(c, p), UNCHANGED held,
             held[c] = Nil \/ (pc[c] \in HoldingPCs /\ p \in HoldingPCs)
      PROVE  Using' = Using
  BY <1>0, <1>b, UsingSame
<1>c. after[c] \in HoldingPCs
  BY <1>0 DEF ClientTypes, HoldingPCs
<1>d. ASSUME Using' = Using, UNCHANGED <<status, dead, url, mine>>
      PROVE  [Shared!Next]_(Shared!vars)
  BY <1>a, <1>d, LifeSame, SharedStutter
<1>e. ASSUME UNCHANGED <<pc, held>> PROVE Using' = Using
  BY <1>e, UsingIdle
<1>1. CASE RefuseFatboy(c)
  <2>1. held[c] = Nil /\ mine[c] # Nil
    BY <1>1 DEF RefuseFatboy, IInv, ClientOK
  <2>2. Using' = Using
    BY <1>1, <1>b, <2>1 DEF RefuseFatboy
  <2> QED BY <1>1, <2>1, <2>2, AbandonStep DEF RefuseFatboy
<1>2. ASSUME NEW s \in Sizes, NEW d \in BOOLEAN, FetchDone(c, s, d) \/ RevalidateOk(c, s, d)
      PROVE  [Shared!Next]_(Shared!vars)
  <2>1. mine[c] # Nil /\ (pc[c] = "fetch" => held[c] = Nil)
    BY <1>2 DEF FetchDone, RevalidateOk, IInv, ClientOK
  <2>2. PICK o \in Obj : o = mine[c] /\ status[o] = "private"
    BY <2>1, MineIsPrivate
  <2>3. UNCHANGED status /\ \A p \in Obj : status[p] = "hashed" => dead'[p] = dead[p]
    BY <1>0, <1>2, <2>2 DEF FetchDone, RevalidateOk, Filled, ObjTypes
  <2>4. Using' = Using
    BY <1>2, <1>b, <2>1 DEF FetchDone, RevalidateOk, HoldingPCs
  <2>5. Life' = Life
    BY <2>3, LifeSame
  <2> QED BY <1>a, <1>2, <2>4, <2>5, SharedStutter DEF FetchDone, RevalidateOk, Filled
<1>3. CASE FetchFails(c)
  <2>1. held[c] = Nil /\ mine[c] # Nil
    BY <1>3 DEF FetchFails, IInv, ClientOK
  <2>2. Using' = Using
    BY <1>3, <1>b, <2>1 DEF FetchFails
  <2> QED BY <1>3, <2>1, <2>2, DiscardStep DEF FetchFails
<1>4. CASE Store(c)
  <2>1. held[c] = Nil /\ mine[c] # Nil
    BY <1>4 DEF Store, IInv, ClientOK
  <2>2. Using' = Using
    BY <1>4, <1>b, <2>1 DEF Store
  <2> QED BY <1>4, <2>1, <2>2, PublishStep DEF Store
<1>5. CASE Serve(c)
  <2>1. PICK p \in {"swapin", "rate"} : Goto(c, p)
    BY <1>5 DEF Serve
  <2>2. Using' = Using
    BY <1>5, <1>b, <2>1 DEF Serve, HoldingPCs, AfterPCs
  <2> QED BY <1>5, <1>d, <2>2 DEF Serve
<1>6. CASE Revalidate(c)
  <2>1. PICK o \in Obj : Allocate(o, url[held[c]]) /\ mine' = [mine EXCEPT ![c] = o]
    BY <1>6 DEF Revalidate
  <2>2. Using' = Using /\ Using[c] = held[c]
    BY <1>6, <1>b DEF Revalidate, HoldingPCs, Using
  <2>3. mine[c] = Nil /\ held[c] # Nil
    BY <1>6 DEF Revalidate, IInv, ClientOK, HoldingPCs
  <2>4. held[c] \in Obj /\ status[held[c]] = "hashed"
    BY <1>6, <2>3, KillerIsCached DEF Revalidate, Cacheable, HoldingPCs
  <2>5. url[held[c]] \in Url
    BY <2>4 DEF SlotsFit
  <2> QED BY <1>a, <1>6, <2>1, <2>2, <2>3, <2>5, MakeStep DEF Revalidate
<1>7. CASE RevalidateNotModified(c)
  <2>1. mine[c] # Nil
    BY <1>7 DEF RevalidateNotModified, IInv, ClientOK
  <2>2. PICK p \in {"swapin", "rate"} : Goto(c, p)
    BY <1>7 DEF RevalidateNotModified
  <2>3. Using' = Using
    BY <1>7, <1>b, <2>2 DEF RevalidateNotModified, HoldingPCs, AfterPCs
  <2> QED BY <1>7, <2>1, <2>3, DiscardStep DEF RevalidateNotModified
<1>8. CASE RevalidateFails(c)
  <2>1. mine[c] # Nil
    BY <1>8 DEF RevalidateFails, IInv, ClientOK
  <2>2. Using' = Using
    BY <1>8, <1>b DEF RevalidateFails, HoldingPCs
  <2> QED BY <1>8, <2>1, <2>2, DiscardStep DEF RevalidateFails
<1>9. CASE SwapIn(c)
  <2>1. Using' = Using
    BY <1>9, <1>b DEF SwapIn, HoldingPCs
  <2>2. CASE UNCHANGED dead
    BY <1>9, <1>d, <2>1, <2>2 DEF SwapIn
  <2>3. CASE dead' = [dead EXCEPT ![held[c]] = TRUE]
    <3>1. held[c] \in Obj /\ status[held[c]] = "hashed"
      BY <1>9, KillerIsCached DEF SwapIn, Cacheable, HoldingPCs
    <3> QED BY <1>a, <1>9, <2>1, <2>3, <3>1, WithdrawStep DEF SwapIn
  <2> QED BY <1>9, <2>2, <2>3 DEF SwapIn
<1>10. CASE Sent(c) \/ Mark(c)
  <2>1. Using' = Using
    BY <1>10, <1>b, <1>c DEF Sent, Mark, HoldingPCs
  <2> QED BY <1>10, <1>d, <2>1 DEF Sent, Mark
<1>11. CASE Kill(c)
  <2>1. Using' = Using
    BY <1>11, <1>b DEF Kill, HoldingPCs
  <2>2. held[c] \in Obj /\ status[held[c]] = "hashed"
    BY <1>11, KillerIsCached DEF Kill, Cacheable, HoldingPCs
  <2> QED BY <1>a, <1>11, <2>1, <2>2, WithdrawStep DEF Kill
<1>12. CASE Bury(c) \/ Rate(c)
  <2>1. Using' = Using
    BY <1>12, <1>b DEF Bury, Rate, HoldingPCs, AfterPCs
  <2> QED BY <1>12, <1>d, <2>1 DEF Bury, Rate
<1>13. CASE BuryFaults(c)
  BY <1>13, <1>d, <1>e DEF BuryFaults, Crash
<1>14. CASE Replace(c)
  <2>1. mine[c] # Nil
    BY <1>14 DEF Replace, IInv, ClientOK
  <2>2. Using' = Using
    BY <1>14, <1>b DEF Replace, HoldingPCs, AfterPCs
  <2> QED BY <1>14, <2>1, <2>2, PublishStep DEF Replace
<1>15. ASSUME held[c] # Nil, Using[c] = held[c], Using' = [Using EXCEPT ![c] = Nil],
              UNCHANGED <<status, dead, url, mine>>
       PROVE  [Shared!Next]_(Shared!vars)
  <2>1. Life' = Life
    BY <1>15, LifeSame
  <2>2. Shared!GiveUp(c)
    BY <1>a, <1>15, <2>1 DEF Shared!GiveUp
  <2> QED BY <2>2 DEF Shared!Next
<1>16. CASE Release(c)
  <2>1. held[c] # Nil /\ Using[c] = held[c]
    BY <1>16 DEF Release, IInv, ClientOK, HoldingPCs, AfterPCs, Using
  <2>2. held' = [held EXCEPT ![c] = held[c]]
    BY <1>0, <1>16 DEF Release, ClientTypes
  <2>3. Using' = [Using EXCEPT ![c] = Nil]
    <3>1. "unlock" \notin HoldingPCs
      BY DEF HoldingPCs, AfterPCs
    <3> QED BY <1>0, <1>16, <2>2, <3>1, UsingStep DEF Release
  <2> QED BY <1>15, <1>16, <2>1, <2>3 DEF Release
<1>17. CASE Unlock(c)
  <2>1. "unlock" \notin HoldingPCs /\ "idle" \notin HoldingPCs
    BY DEF HoldingPCs, AfterPCs
  <2>2. Using[c] = Nil /\ Using' = [Using EXCEPT ![c] = Nil]
    BY <1>0, <1>17, <2>1, UsingStep DEF Unlock, Using
  <2>3. Using' = Using
    BY <2>2 DEF Using
  <2> QED BY <1>d, <1>17, <2>3 DEF Unlock
<1>18. CASE Forget(c)
  <2>1. "idle" \notin HoldingPCs /\ "forget" \in HoldingPCs
    BY DEF HoldingPCs, AfterPCs
  <2>2. Using[c] = held[c] /\ Using' = [Using EXCEPT ![c] = Nil]
    BY <1>0, <1>18, <2>1, UsingStep DEF Forget, Using
  <2>3. CASE held[c] # Nil
    <3>1. mine[c] = Nil
      BY <1>18, <2>3 DEF Forget, IInv, ClientOK
    <3>2. UNCHANGED mine
      BY <1>0, <1>18, <3>1 DEF Forget, ClientTypes
    <3> QED BY <1>15, <1>18, <2>2, <2>3, <3>2 DEF Forget
  <2>4. CASE held[c] = Nil
    <3>1. mine[c] # Nil
      BY <1>18, <2>4 DEF Forget, IInv, ClientOK
    <3>2. Using' = Using
      BY <2>2, <2>4 DEF Using
    <3> QED BY <1>18, <2>4, <3>1, <3>2, AbandonStep DEF Forget
  <2> QED BY <2>3, <2>4
<1> HIDE DEF objVars, sizeVars, listVars, cliVars, gcVars
<1> QED BY <1>1, <1>2, <1>3, <1>4, <1>5, <1>6, <1>7, <1>8, <1>9, <1>10, <1>11, <1>12, <1>13,
       <1>14, <1>16, <1>17, <1>18 DEF Work

(* Every step of the cache is a step of SharedCache, or a stutter.         *)
LEMMA SharedStep ==
  ASSUME IInv(Nat), SlotsFit, [Next]_vars
  PROVE  [Shared!Next]_(Shared!vars)
<1> USE DEF objVars, sizeVars, listVars, cliVars, gcVars
<1>d. ASSUME UNCHANGED <<pc, held, status, dead, url, mine>>, main' = "boot" <=> main = "boot"
      PROVE  [Shared!Next]_(Shared!vars)
  BY <1>d, UsingIdle, LifeSame, SharedStutter
<1>1. ASSUME NEW c \in Client, Request(c) \/ Work(c) PROVE [Shared!Next]_(Shared!vars)
  BY <1>1, SharedRequest, SharedWork
<1>2. ASSUME Collect PROVE [Shared!Next]_(Shared!vars)
  <2>0. main' = "boot" <=> main = "boot"
    BY <1>2 DEF Collect, ReadSizes, EnterDelete, DeleteEnd, DeleteStep, LeaveDelete, EnterClean,
      SkipClean, CleanDrop, CleanKeep, CleanEnd, Running
  <2>1. CASE ReadSizes \/ EnterDelete \/ DeleteEnd \/ EnterClean \/ SkipClean
             \/ CleanKeep \/ CleanEnd
    BY <1>d, <2>0, <2>1 DEF ReadSizes, EnterDelete, DeleteEnd, EnterClean, SkipClean, CleanKeep,
      CleanEnd
  <2>2. CASE DeleteStep
    <3>1. l.head \in Obj /\ status[l.head] = "hashed"
      BY <2>2 DEF DeleteStep, DeleteStops, IInv, Shape, Cacheable
    <3>2. UNCHANGED dead \/ dead' = [dead EXCEPT ![l.head] = TRUE]
      BY <2>2 DEF DeleteStep, SwapOut
    <3>3. UNCHANGED <<status, url, mine, pc, held>>
      BY <2>2 DEF DeleteStep
    <3> QED BY <1>d, <2>0, <3>1, <3>2, <3>3, UsingIdle, WithdrawStep
  <2>3. CASE CleanDrop
    <3>1. l.dhead \in Obj /\ status[l.dhead] = "hashed"
      BY <2>3, FirstIsCached, NilAssumption
         DEF CleanDrop, IInv, TypeOK, ListTypes, ListType, Ptr
    <3> QED BY <2>3, <3>1, UsingIdle, FreeStep DEF CleanDrop, Disposable
  <2> QED BY <1>2, <2>1, <2>2, <2>3 DEF Collect
<1>3. ASSUME Boot PROVE [Shared!Next]_(Shared!vars)
  <2>1. CASE Booted
    <3>1. Shared!Started
      BY <2>1, UsingIdle, LifeSame DEF Booted, Shared!Started
    <3> QED BY <3>1 DEF Shared!Next
  <2>2. ASSUME NEW o \in Obj, NEW u \in Url, NEW s \in Sizes, Restore(o, u, s)
        PROVE  [Shared!Next]_(Shared!vars)
    <3>1. ~dead[o]
      BY <2>2 DEF Restore, SlotsFit
    <3>2. Life'[o] = "current"
          /\ \A p \in Obj \ {o} : status'[p] = status[p] /\ dead'[p] = dead[p]
      BY <2>2, <3>1 DEF Restore, IInv, TypeOK, ObjTypes, Life
    <3>3. Life' = [Life EXCEPT ![o] = "current"] /\ Life[o] = "none"
      BY <2>2, <3>2, LifeChange, LifeOf DEF Restore, IInv, TypeOK
    <3>4. Using' = Using /\ Shared!Current(u) = {}
      BY <2>2, UsingIdle, SharedTerms DEF Restore
    <3>5. Shared!Load(o, u)
      BY <2>2, <3>3, <3>4 DEF Shared!Load, Shared!Become, Restore
    <3> QED BY <3>5 DEF Shared!Next
  <2> QED BY <1>3, <2>1, <2>2 DEF Boot
<1>4. CASE Stop \/ Ended \/ UNCHANGED vars
  BY <1>d, <1>4 DEF Stop, Shutdown, EnterSaveAll, SaveIndexAndExit, Ended, vars
<1> HIDE DEF objVars, sizeVars, listVars, cliVars, gcVars
<1> QED BY <1>1, <1>2, <1>3, <1>4 DEF Next

(* Flags, counts and locks implement the cache SharedCache promises.       *)
THEOREM CacheRefinesShared == Spec => CacheIsShared
<1>1. Init => Shared!Init /\ SlotsFit
  <2>1. SUFFICES ASSUME Init PROVE Shared!Init /\ SlotsFit
    OBVIOUS
  <2>2. Life = [o \in Obj |-> "none"]
    BY <2>1 DEF Init, Life
  <2>3. Using = [c \in Client |-> Nil]
    BY <2>1 DEF Init, Using, HoldingPCs, AfterPCs
  <2> QED BY <2>1, <2>2, <2>3 DEF Init, Shared!Init, SlotsFit
<1>2. IInv(Nat) /\ SlotsFit /\ [Next]_vars => SlotsFit' /\ [Shared!Next]_(Shared!vars)
  BY SlotsFitStep, SharedStep
<1> QED BY <1>1, <1>2, Inductive, PTL DEF Spec, CacheIsShared, Shared!Spec
=============================================================================
