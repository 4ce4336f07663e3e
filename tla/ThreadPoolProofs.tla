-------------------------- MODULE ThreadPoolProofs --------------------------
(***************************************************************************)
(* Theorems about the thread pool, for every number of connections,        *)
(* addresses and threads, and all limits.                                  *)
(***************************************************************************)
EXTENDS ThreadPoolInv, FiniteSetTheorems, TLAPS

BusySet == {t \in Thread : Busy(t)}

(* The threads taken together: the part of the invariant that says which   *)
(* of them are busy, parked and signalled.                                 *)
ThreadsOK == TypeOK /\ TotalIsBusy /\ NoticeKept /\ Owners

-----------------------------------------------------------------------------
(* How the sets of busy threads change.                                    *)

LEMMA BusyStep ==
  ASSUME ThreadsOK, NEW t \in Thread
  PROVE
    /\ \A c \in Conn, i \in Ip : StartNew(c, i, t) \/ StartFree(c, i, t) =>
         /\ t \notin BusySet /\ BusySet' = BusySet \cup {t}
         /\ Serving(i)' = Serving(i) \cup {t} /\ t \notin Serving(i)
         /\ \A j \in Ip \ {i} : Serving(j)' = Serving(j)
    /\ Done(t) =>
         /\ t \in BusySet /\ BusySet' = BusySet \ {t}
         /\ tip[t] \in Ip
         /\ t \in Serving(tip[t])
         /\ \A j \in Ip : Serving(j)' = IF j = tip[t] THEN Serving(j) \ {t} ELSE Serving(j)
<1>1. ASSUME NEW c \in Conn, NEW i \in Ip, StartNew(c, i, t) \/ StartFree(c, i, t)
      PROVE /\ t \notin BusySet /\ BusySet' = BusySet \cup {t}
            /\ Serving(i)' = Serving(i) \cup {t} /\ t \notin Serving(i)
            /\ \A j \in Ip \ {i} : Serving(j)' = Serving(j)
  <2>1. ~Busy(t) /\ Busy(t)' /\ tip'[t] = i
    BY <1>1 DEF ThreadsOK, TypeOK, NoticeKept, StartNew, StartFree, Notify, Busy
  <2>2. \A u \in Thread \ {t} : Busy(u)' = Busy(u) /\ tip'[u] = tip[u]
    BY <1>1 DEF ThreadsOK, TypeOK, StartNew, StartFree, Notify, Busy
  <2> QED
    BY <2>1, <2>2 DEF BusySet, Serving
<1>2. ASSUME Done(t)
      PROVE /\ t \in BusySet /\ BusySet' = BusySet \ {t}
            /\ tip[t] \in Ip
            /\ t \in Serving(tip[t])
            /\ \A j \in Ip : Serving(j)' = IF j = tip[t] THEN Serving(j) \ {t} ELSE Serving(j)
  <2>1. Busy(t) /\ ~Busy(t)' /\ tip[t] \in Ip /\ tip' = tip
    BY <1>2 DEF ThreadsOK, TypeOK, NoticeKept, Owners, Done, Park, Busy
  <2>2. \A u \in Thread \ {t} : Busy(u)' = Busy(u)
    BY <1>2 DEF ThreadsOK, TypeOK, Done, Park, Busy
  <2> QED
    BY <2>1, <2>2 DEF BusySet, Serving
<1> QED
  BY <1>1, <1>2

(* The other steps of a thread, and its end, leave it as busy as it was.   *)
QuietStep(t) ==
  Served(t) \/ Again(t) \/ Sigwait(t) \/ AwakeToServe(t) \/ AwakeToEnd(t) \/ FlushOne(t)

LEMMA QuietBusy ==
  ASSUME ThreadsOK, NEW t \in Thread, QuietStep(t)
  PROVE  /\ \A u \in Thread : Busy(u)' = Busy(u)
         /\ \A u \in Thread : Busy(u) => tip'[u] = tip[u]
         /\ total_thread' = total_thread
<1>1. CASE Served(t)
  BY <1>1 DEF ThreadsOK, TypeOK, Served, Busy
<1>2. CASE Again(t)
  BY <1>2 DEF ThreadsOK, TypeOK, Again, Busy
<1>3. CASE Sigwait(t)
  BY <1>3 DEF ThreadsOK, TypeOK, Sigwait, Busy
<1>4. CASE AwakeToServe(t)
  BY <1>4 DEF ThreadsOK, TypeOK, AwakeToServe, Busy
<1>5. CASE AwakeToEnd(t)
  BY <1>5 DEF ThreadsOK, TypeOK, AwakeToEnd, Busy
<1>6. CASE FlushOne(t)
  <2>1. cmd[t] = "NULL"
    BY <1>6 DEF ThreadsOK, NoticeKept, FlushOne
  <2> QED
    BY <1>6, <2>1 DEF ThreadsOK, TypeOK, FlushOne, Notify, Busy
<1> QED
  BY <1>1, <1>2, <1>3, <1>4, <1>5, <1>6 DEF QuietStep

(* The steps that leave every thread alone.                                *)
Aside == UNCHANGED threadVars

LEMMA StepKinds ==
  ASSUME [Next]_vars
  PROVE  \/ \E c \in Conn, i \in Ip, t \in Thread : StartNew(c, i, t) \/ StartFree(c, i, t)
         \/ \E t \in Thread : Done(t) \/ QuietStep(t)
         \/ Aside
BY DEF Next, Start, run_thread, QuietStep, Aside, Enqueue, Ban, Refuse, SetLimit,
       ClearQueues, AcceptFails, Idle, vars
-----------------------------------------------------------------------------
LEMMA BusyFinite ==
  /\ IsFiniteSet(BusySet)
  /\ \A i \in Ip : IsFiniteSet(Serving(i))
BY PoolAssumption, FS_Subset DEF BusySet, Serving

(* total_thread counts the busy threads.                                   *)
LEMMA TotalStep ==
  ASSUME ThreadsOK, [Next]_vars
  PROVE  TotalIsBusy' /\ total_thread' \in Nat
<1>0. total_thread = Cardinality(BusySet) /\ total_thread \in Nat
  BY DEF ThreadsOK, TotalIsBusy, TypeOK, BusySet
<1>1. SUFFICES total_thread' = Cardinality(BusySet') /\ total_thread' \in Nat
  BY DEF TotalIsBusy, BusySet
<1>2. ASSUME NEW c \in Conn, NEW i \in Ip, NEW t \in Thread,
             StartNew(c, i, t) \/ StartFree(c, i, t)
      PROVE  total_thread' = Cardinality(BusySet') /\ total_thread' \in Nat
  <2>1. t \notin BusySet /\ BusySet' = BusySet \cup {t}
    BY <1>2, BusyStep
  <2>2. Cardinality(BusySet \cup {t}) = Cardinality(BusySet) + 1
    BY <2>1, BusyFinite, FS_AddElement
  <2>3. total_thread' = total_thread + 1
    BY <1>2 DEF StartNew, StartFree
  <2> QED
    BY <1>0, <2>1, <2>2, <2>3
<1>3. ASSUME NEW t \in Thread, Done(t)
      PROVE  total_thread' = Cardinality(BusySet') /\ total_thread' \in Nat
  <2>1. t \in BusySet /\ BusySet' = BusySet \ {t}
    BY <1>3, BusyStep
  <2>2. IsFiniteSet(BusySet \ {t}) /\ Cardinality(BusySet \ {t}) = Cardinality(BusySet) - 1
    BY <2>1, BusyFinite, FS_RemoveElement
  <2>3. Cardinality(BusySet \ {t}) \in Nat
    BY <2>2, FS_CardinalityType
  <2>4. total_thread' = total_thread - 1
    BY <1>3 DEF Done, Park
  <2> QED
    BY <1>0, <2>1, <2>2, <2>3, <2>4
<1>4. ASSUME NEW t \in Thread, QuietStep(t)
      PROVE  total_thread' = Cardinality(BusySet') /\ total_thread' \in Nat
  <2>1. BusySet' = BusySet /\ total_thread' = total_thread
    BY <1>4, QuietBusy DEF BusySet
  <2> QED
    BY <1>0, <2>1
<1>5. CASE Aside
  <2>1. BusySet' = BusySet /\ total_thread' = total_thread
    BY <1>5 DEF Aside, threadVars, BusySet, Busy
  <2> QED
    BY <1>0, <2>1
<1> QED
  BY <1>2, <1>3, <1>4, <1>5, StepKinds

(* Parking, signals and commands.                                          *)
LEMMA NoticeStep ==
  ASSUME ThreadsOK, [Next]_vars
  PROVE  NoticeKept' /\ Owners'
<1>0. TypeOK /\ NoticeKept /\ Owners
  BY DEF ThreadsOK
<1>1. ASSUME NEW c \in Conn, NEW i \in Ip, NEW t \in Thread, StartNew(c, i, t)
      PROVE  NoticeKept' /\ Owners'
  BY <1>0, <1>1 DEF TypeOK, NoticeKept, Owners, StartNew, Busy
<1>2. ASSUME NEW c \in Conn, NEW i \in Ip, NEW t \in Thread, StartFree(c, i, t)
      PROVE  NoticeKept' /\ Owners'
  BY <1>0, <1>2 DEF TypeOK, NoticeKept, Owners, StartFree, Notify, Pends, Busy
<1>3. ASSUME NEW t \in Thread, Done(t)
      PROVE  NoticeKept' /\ Owners'
  BY <1>0, <1>3 DEF TypeOK, NoticeKept, Owners, Done, Park, Busy
<1>4. ASSUME NEW t \in Thread, QuietStep(t)
      PROVE  NoticeKept' /\ Owners'
  <2>1. CASE Served(t)
    BY <1>0, <2>1 DEF TypeOK, NoticeKept, Owners, Served, Busy
  <2>2. CASE Again(t)
    BY <1>0, <2>2 DEF TypeOK, NoticeKept, Owners, Again, Busy
  <2>3. CASE Sigwait(t)
    BY <1>0, <2>3 DEF TypeOK, NoticeKept, Owners, Sigwait, Busy
  <2>4. CASE AwakeToServe(t)
    BY <1>0, <2>4 DEF TypeOK, NoticeKept, Owners, AwakeToServe, Busy
  <2>5. CASE AwakeToEnd(t)
    BY <1>0, <2>5 DEF TypeOK, NoticeKept, Owners, AwakeToEnd, Busy
  <2>6. CASE FlushOne(t)
    BY <1>0, <2>6 DEF TypeOK, NoticeKept, Owners, FlushOne, Notify, Pends, Busy
  <2> QED
    BY <1>4, <2>1, <2>2, <2>3, <2>4, <2>5, <2>6 DEF QuietStep
<1>5. CASE Aside
  BY <1>0, <1>5 DEF Aside, threadVars, NoticeKept, Owners, Busy
<1> QED
  BY <1>1, <1>2, <1>3, <1>4, <1>5, StepKinds
-----------------------------------------------------------------------------
(* Types.                                                                  *)

LEMMA LeaveType ==
  ASSUME TypeOK, NEW i \in Ip, count[i] > 0, Leave(i)
  PROVE  count' \in [Ip -> Nat] /\ queue' \in [Ip -> Seq(Conn)] /\ over' \in [Ip -> Nat]
<1>1. Tail(queue[i]) \in Seq(Conn) \/ queue[i] = <<>>
  BY DEF TypeOK
<1>2. count' \in [Ip -> Nat] /\ over' \in [Ip -> Nat]
  BY DEF TypeOK, Leave
<1>3. queue' \in [Ip -> Seq(Conn)]
  <2>1. (IF count[i] < 2 \/ queue[i] = <<>> THEN <<>> ELSE Tail(queue[i])) \in Seq(Conn)
    BY <1>1
  <2> QED
    BY <2>1 DEF TypeOK, Leave
<1> QED
  BY <1>2, <1>3

LEMMA TypeStep ==
  ASSUME ThreadsOK, [Next]_vars
  PROVE  TypeOK'
<1>0. TypeOK /\ Owners /\ total_thread' \in Nat
  BY TotalStep DEF ThreadsOK
<1>1. ASSUME NEW c \in Conn, NEW i \in Ip, Enqueue(c, i)
      PROVE  TypeOK'
  <2>1. Append(queue[i], c) \in Seq(Conn)
    BY <1>0 DEF TypeOK
  <2> QED
    BY <1>0, <1>1, <2>1 DEF TypeOK, Enqueue, threadVars, adminVars
<1>2. ASSUME NEW c \in Conn, NEW i \in Ip, Ban(c, i)
      PROVE  TypeOK'
  <2>1. <<>> \in Seq(Conn)
    OBVIOUS
  <2> QED
    BY <1>0, <1>2, <2>1 DEF TypeOK, Ban, threadVars, adminVars
<1>3. ASSUME NEW c \in Conn, NEW i \in Ip, Refuse(c, i)
      PROVE  TypeOK'
  BY <1>0, <1>3 DEF TypeOK, Refuse, CountIn, threadVars, adminVars
<1>4. ASSUME NEW c \in Conn, NEW i \in Ip, NEW t \in Thread, StartNew(c, i, t)
      PROVE  TypeOK'
  BY <1>0, <1>4 DEF TypeOK, StartNew, CountIn, adminVars
<1>5. ASSUME NEW c \in Conn, NEW i \in Ip, NEW t \in Thread, StartFree(c, i, t)
      PROVE  TypeOK'
  BY <1>0, <1>5 DEF TypeOK, StartFree, CountIn, Notify, Pends, adminVars
<1>6. ASSUME NEW t \in Thread, Served(t)
      PROVE  TypeOK'
  BY <1>0, <1>6 DEF TypeOK, Served, ipVars, adminVars
<1>7. ASSUME NEW t \in Thread, Again(t)
      PROVE  TypeOK'
  <2>1. tip[t] \in Ip
    BY <1>0, <1>7 DEF TypeOK, Again, Owners, Busy, ThreadsOK, NoticeKept
  <2>2. Head(queue[tip[t]]) \in Conn
    BY <1>0, <1>7, <2>1 DEF TypeOK, Again
  <2>3. count' \in [Ip -> Nat] /\ queue' \in [Ip -> Seq(Conn)] /\ over' \in [Ip -> Nat]
    BY <1>0, <1>7, <2>1, LeaveType DEF Again, Counted
  <2> QED
    BY <1>0, <1>7, <2>2, <2>3 DEF TypeOK, Again, adminVars
<1>8. ASSUME NEW t \in Thread, Done(t)
      PROVE  TypeOK'
  <2>1. tip[t] \in Ip
    BY <1>8, BusyStep
  <2>2. count' \in [Ip -> Nat] /\ queue' \in [Ip -> Seq(Conn)] /\ over' \in [Ip -> Nat]
    BY <1>0, <1>8, <2>1, LeaveType DEF Done, Counted, ipVars, TypeOK
  <2> QED
    BY <1>0, <1>8, <2>2 DEF TypeOK, Done, Park, adminVars
<1>9. ASSUME NEW t \in Thread,
             Sigwait(t) \/ AwakeToServe(t) \/ AwakeToEnd(t) \/ FlushOne(t)
      PROVE  TypeOK'
  BY <1>0, <1>9 DEF TypeOK, Sigwait, AwakeToServe, AwakeToEnd, FlushOne, Notify, Pends,
                    ipVars, adminVars
<1>10. ASSUME NEW n \in Limits, SetLimit(n)
       PROVE  TypeOK'
  BY <1>0, <1>10, PoolAssumption DEF TypeOK, SetLimit, ipVars, threadVars
<1>11. CASE ClearQueues
  <2>1. crashed' \in BOOLEAN
    BY <1>11 DEF ClearQueues
  <2>2. <<>> \in Seq(Conn)
    OBVIOUS
  <2> QED
    BY <1>0, <1>11, <2>1, <2>2 DEF TypeOK, ClearQueues, threadVars
<1>12. CASE UNCHANGED vars
  BY <1>0, <1>12 DEF TypeOK, vars, ipVars, threadVars, adminVars
<1> QED
  BY <1>1, <1>2, <1>3, <1>4, <1>5, <1>6, <1>7, <1>8, <1>9, <1>10, <1>11, <1>12
     DEF Next, Start, run_thread, AcceptFails, Idle
-----------------------------------------------------------------------------
(* The counts of the IPs.                                                  *)

LEMMA ServingAdd ==
  ASSUME NEW i \in Ip, NEW t \in Thread, t \notin Serving(i),
         Serving(i)' = Serving(i) \cup {t}
  PROVE  Cardinality(Serving(i)') = Cardinality(Serving(i)) + 1
BY BusyFinite, FS_AddElement

LEMMA ServingRemove ==
  ASSUME NEW i \in Ip, NEW t \in Serving(i),
         Serving(i)' = Serving(i) \ {t}
  PROVE  Cardinality(Serving(i)') = Cardinality(Serving(i)) - 1
BY BusyFinite, FS_RemoveElement

LEMMA ServingNat == \A i \in Ip : Cardinality(Serving(i)) \in Nat
BY BusyFinite, FS_CardinalityType

(* One IP's part of CountCovers.                                           *)
Covers(i) ==
  /\ count[i] = 0 => queue[i] = <<>> /\ over[i] = 0
  /\ count[i] > 0 => Len(queue[i]) < count[i]
  /\ max_per_ip > 0 => count[i] - Len(queue[i]) <= Cardinality(Serving(i)) + over[i]
  /\ max_per_ip = 0 /\ admin = "idle" => count[i] = 0

(* An IP whose count, queue and threads stay as they are.                  *)
LEMMA SameCovers ==
  ASSUME NEW i \in Ip, Covers(i), UNCHANGED <<max_per_ip, admin>>,
         count'[i] = count[i], queue'[i] = queue[i], over'[i] = over[i],
         Cardinality(Serving(i)') = Cardinality(Serving(i))
  PROVE  Covers(i)'
BY DEF Covers

(* dec_per_ip, for the IP of the thread that ends.                         *)
LEMMA LeaveOther ==
  ASSUME TypeOK, NEW i \in Ip, Leave(i)
  PROVE  \A j \in Ip \ {i} : count'[j] = count[j] /\ queue'[j] = queue[j] /\ over'[j] = over[j]
BY DEF TypeOK, Leave

LEMMA CountStep ==
  ASSUME ThreadsOK, CountCovers, [Next]_vars
  PROVE  CountCovers'
<1>0. TypeOK /\ NoticeKept /\ Owners /\ \A i \in Ip : Covers(i)
  BY DEF ThreadsOK, CountCovers, Covers
<1>a. \A i \in Ip : /\ count[i] \in Nat /\ over[i] \in Nat /\ queue[i] \in Seq(Conn)
                    /\ Cardinality(Serving(i)) \in Nat
  BY <1>0, ServingNat DEF TypeOK
<1>b. max_per_ip \in Nat
  BY <1>0, PoolAssumption DEF TypeOK
<1> SUFFICES ASSUME NEW j \in Ip
             PROVE  Covers(j)'
  BY TypeStep DEF CountCovers, Covers, TypeOK
<1>1. ASSUME NEW c \in Conn, NEW i \in Ip, Enqueue(c, i)
      PROVE  Covers(j)'
  <2>1. Serving(j)' = Serving(j)
    BY <1>1 DEF Enqueue, threadVars, Serving, Busy
  <2>2. CASE j = i
    <3>1. count'[j] = count[j] + 1 /\ queue'[j] = Append(queue[j], c) /\ over'[j] = over[j]
      BY <1>0, <1>1, <2>2 DEF TypeOK, Enqueue
    <3>2. Len(queue'[j]) = Len(queue[j]) + 1
      BY <1>a, <3>1
    <3>3. count[j] > 0 /\ max_per_ip > 0 /\ UNCHANGED <<max_per_ip, admin>>
      BY <1>1, <2>2 DEF Enqueue, Exceeds, adminVars
    <3> QED
      BY <1>0, <1>a, <2>1, <3>1, <3>2, <3>3 DEF Covers
  <2>3. CASE j # i
    BY <1>0, <1>1, <2>1, <2>3, SameCovers DEF TypeOK, Enqueue, adminVars
  <2> QED
    BY <2>2, <2>3
<1>2. ASSUME NEW c \in Conn, NEW i \in Ip, Ban(c, i)
      PROVE  Covers(j)'
  <2>1. Serving(j)' = Serving(j)
    BY <1>2 DEF Ban, threadVars, Serving, Busy
  <2>2. CASE j = i
    <3>1. count'[j] = 0 /\ queue'[j] = <<>> /\ over'[j] = 0
      BY <1>0, <1>2, <2>2 DEF TypeOK, Ban
    <3> QED
      BY <1>a, <2>1, <3>1 DEF Covers
  <2>3. CASE j # i
    BY <1>0, <1>2, <2>1, <2>3, SameCovers DEF TypeOK, Ban, adminVars
  <2> QED
    BY <2>2, <2>3
<1>3. ASSUME NEW c \in Conn, NEW i \in Ip, Refuse(c, i)
      PROVE  Covers(j)'
  <2>1. Serving(j)' = Serving(j)
    BY <1>3 DEF Refuse, threadVars, Serving, Busy
  <2>2. CASE j = i /\ max_per_ip > 0
    <3>1. /\ count'[j] = count[j] + 1 /\ queue'[j] = queue[j] /\ over'[j] = over[j] + 1
          /\ UNCHANGED <<max_per_ip, admin>>
      BY <1>0, <1>3, <2>2 DEF TypeOK, Refuse, CountIn, adminVars
    <3>2. Len(<<>>) = 0
      OBVIOUS
    <3> QED
      BY <1>0, <1>a, <2>1, <2>2, <3>1, <3>2, SMTT(30) DEF Covers
  <2>3. CASE j # i \/ ~(max_per_ip > 0)
    BY <1>0, <1>3, <2>1, <2>3, SameCovers DEF TypeOK, Refuse, CountIn, adminVars
  <2> QED
    BY <2>2, <2>3
<1>4. ASSUME NEW c \in Conn, NEW i \in Ip, NEW t \in Thread,
             StartNew(c, i, t) \/ StartFree(c, i, t)
      PROVE  Covers(j)'
  <2>0. UNCHANGED <<queue, over, max_per_ip, admin>> /\ CountIn(i)
    BY <1>4 DEF StartNew, StartFree, adminVars
  <2>1. CASE j = i
    <3>1. Cardinality(Serving(j)') = Cardinality(Serving(j)) + 1
      BY <1>4, <2>1, BusyStep, ServingAdd
    <3>2. count'[j] = IF max_per_ip > 0 THEN count[j] + 1 ELSE count[j]
      BY <1>0, <2>0, <2>1 DEF TypeOK, CountIn
    <3>3. Len(<<>>) = 0
      OBVIOUS
    <3>4. CASE max_per_ip > 0
      BY <1>0, <1>a, <2>0, <3>1, <3>2, <3>3, <3>4, SMTT(30) DEF Covers
    <3>5. CASE ~(max_per_ip > 0)
      BY <1>0, <1>a, <2>0, <3>1, <3>2, <3>5 DEF Covers
    <3> QED
      BY <3>4, <3>5
  <2>2. CASE j # i
    <3>1. Serving(j)' = Serving(j)
      BY <1>4, <2>2, BusyStep
    <3> QED
      BY <1>0, <2>0, <2>2, <3>1, SameCovers DEF TypeOK, CountIn
  <2> QED
    BY <2>1, <2>2
<1>5. ASSUME NEW t \in Thread, Done(t)
      PROVE  Covers(j)'
  <2>0. UNCHANGED <<max_per_ip, admin>> /\ tip[t] \in Ip
    BY <1>5, BusyStep DEF Done, adminVars
  <2>1. CASE j = tip[t]
    <3>0. t \in Serving(j) /\ Serving(j)' = Serving(j) \ {t}
      BY <1>5, <2>1, BusyStep
    <3>1. Cardinality(Serving(j)') = Cardinality(Serving(j)) - 1
      BY <3>0, ServingRemove
    <3>a. Cardinality(Serving(j)) - 1 \in Nat
      <4>1. IsFiniteSet(Serving(j) \ {t})
        BY BusyFinite, FS_RemoveElement
      <4> QED
        BY <3>0, <3>1, <4>1, FS_CardinalityType
    <3>2. CASE Counted(j) /\ count[j] < 2 /\ Leave(j)
      <4>1. count'[j] = 0 /\ queue'[j] = <<>> /\ over'[j] = 0
        BY <1>0, <1>a, <3>2 DEF TypeOK, Leave, Counted
      <4> QED
        BY <2>0, <3>1, <3>a, <4>1 DEF Covers
    <3>3. CASE Counted(j) /\ ~(count[j] < 2) /\ queue[j] = <<>> /\ Leave(j)
      <4>1. count'[j] = count[j] - 1 /\ queue'[j] = <<>> /\ over'[j] = over[j]
        BY <1>0, <1>a, <3>3 DEF TypeOK, Leave, Counted
      <4>2. Len(<<>>) = 0 /\ count[j] >= 2 /\ max_per_ip > 0
        BY <1>a, <3>3 DEF Counted
      <4> QED
        BY <1>0, <1>a, <2>0, <3>1, <3>3, <4>1, <4>2 DEF Covers
    <3>4. CASE ~Counted(j) /\ UNCHANGED ipVars
      <4>1. count[j] = 0 \/ max_per_ip = 0
        BY <1>a, <1>b, <3>4 DEF Counted
      <4>2. Len(<<>>) = 0
        OBVIOUS
      <4> QED
        BY <1>0, <1>a, <2>0, <3>1, <3>a, <3>4, <4>1, <4>2 DEF Covers, ipVars
    <3> QED
      BY <1>5, <2>1, <3>2, <3>3, <3>4 DEF Done
  <2>2. CASE j # tip[t]
    <3>1. Serving(j)' = Serving(j)
      BY <1>5, <2>2, BusyStep
    <3>2. count'[j] = count[j] /\ queue'[j] = queue[j] /\ over'[j] = over[j]
      BY <1>0, <1>5, <2>0, <2>2, LeaveOther DEF Done, ipVars
    <3> QED
      BY <1>0, <2>0, <3>1, <3>2, SameCovers
  <2> QED
    BY <2>1, <2>2
<1>6. ASSUME NEW t \in Thread, Again(t)
      PROVE  Covers(j)'
  <2>0. UNCHANGED <<max_per_ip, admin>> /\ tip[t] \in Ip /\ QuietStep(t)
    BY <1>0, <1>6 DEF Again, adminVars, NoticeKept, Owners, Busy, QuietStep
  <2>1. Serving(j)' = Serving(j)
    BY <1>6 DEF Again, Serving, Busy, ThreadsOK, TypeOK
  <2>2. CASE j = tip[t]
    <3>1. count'[j] = count[j] - 1 /\ queue'[j] = Tail(queue[j]) /\ over'[j] = over[j]
      BY <1>0, <1>a, <1>6, <2>2 DEF TypeOK, Again, Leave
    <3>2. Len(Tail(queue[j])) = Len(queue[j]) - 1 /\ count[j] >= 2
      BY <1>0, <1>a, <1>6, <2>2 DEF Again
    <3>3. max_per_ip > 0
      BY <1>6 DEF Again, Counted
    <3> QED
      BY <1>0, <1>a, <2>0, <2>1, <3>1, <3>2, <3>3 DEF Covers
  <2>3. CASE j # tip[t]
    <3>1. count'[j] = count[j] /\ queue'[j] = queue[j] /\ over'[j] = over[j]
      BY <1>0, <1>6, <2>0, <2>3, LeaveOther DEF Again
    <3> QED
      BY <1>0, <2>0, <2>1, <3>1, SameCovers
  <2> QED
    BY <2>2, <2>3
<1>7. ASSUME NEW t \in Thread,
             Served(t) \/ Sigwait(t) \/ AwakeToServe(t) \/ AwakeToEnd(t) \/ FlushOne(t)
      PROVE  Covers(j)'
  <2>1. UNCHANGED <<ipVars, max_per_ip, admin>> /\ QuietStep(t)
    BY <1>7 DEF Served, Sigwait, AwakeToServe, AwakeToEnd, FlushOne, adminVars, QuietStep
  <2>2. Serving(j)' = Serving(j)
    <3>1. \A u \in Thread : Busy(u)' = Busy(u) /\ (Busy(u) => tip'[u] = tip[u])
      BY <2>1, QuietBusy
    <3> QED
      BY <3>1 DEF Serving
  <2> QED
    BY <1>0, <2>1, <2>2, SameCovers DEF ipVars
<1>8. ASSUME NEW n \in Limits, SetLimit(n)
      PROVE  Covers(j)'
  <2>1. Serving(j)' = Serving(j) /\ UNCHANGED ipVars
    BY <1>8 DEF SetLimit, threadVars, Serving, Busy
  <2>2. max_per_ip' = n /\ n \in Nat /\ admin = "idle"
        /\ admin' = IF n > 0 THEN "idle" ELSE "clear"
    BY <1>8, PoolAssumption DEF SetLimit
  <2>3. Len(<<>>) = 0
    OBVIOUS
  <2>4. CASE max_per_ip = 0
    BY <1>0, <1>a, <2>1, <2>2, <2>3, <2>4 DEF Covers, ipVars
  <2>5. CASE max_per_ip > 0
    BY <1>0, <1>a, <2>1, <2>2, <2>5 DEF Covers, ipVars
  <2> QED
    BY <1>b, <2>4, <2>5
<1>9. CASE ClearQueues
  <2>1. count'[j] = 0 /\ queue'[j] = <<>> /\ over'[j] = 0
    BY <1>9 DEF ClearQueues
  <2>2. Serving(j)' = Serving(j)
    BY <1>9 DEF ClearQueues, threadVars, Serving, Busy
  <2> QED
    BY <1>a, <2>1, <2>2 DEF Covers
<1>10. CASE UNCHANGED vars
  <2>1. Serving(j)' = Serving(j)
    BY <1>10 DEF vars, threadVars, Serving, Busy
  <2> QED
    BY <1>0, <1>10, <2>1, SameCovers DEF vars, ipVars, adminVars
<1> QED
  BY <1>1, <1>2, <1>3, <1>4, <1>5, <1>6, <1>7, <1>8, <1>9, <1>10
     DEF Next, Start, run_thread, AcceptFails, Idle
-----------------------------------------------------------------------------
(* The places of connections.  EveryConnOnce for one of them, with any     *)
(* number as a place of a queue.                                           *)
Once(c) ==
  /\ c \in open <=> \/ \E i \in Ip, k \in Nat : Queued(i, k, c)
                    \/ \E t \in Thread : Has(t, c)
  /\ \A i, j \in Ip, k, m \in Nat : Queued(i, k, c) /\ Queued(j, m, c) => i = j /\ k = m
  /\ \A i \in Ip, k \in Nat, t \in Thread : ~(Queued(i, k, c) /\ Has(t, c))
  /\ \A t, u \in Thread : Has(t, c) /\ Has(u, c) => t = u

LEMMA OnceIff ==
  ASSUME TypeOK
  PROVE  EveryConnOnce <=> \A c \in Conn : Once(c)
<1>1. \A i \in Ip : DOMAIN queue[i] \subseteq Nat
  BY DEF TypeOK
<1> QED
  BY <1>1 DEF EveryConnOnce, Once, Queued

(* What happens to the places of one queue.                                *)
LEMMA QueuedAppend ==
  ASSUME TypeOK, NEW i \in Ip, NEW c \in Conn,
         queue' = [queue EXCEPT ![i] = Append(@, c)]
  PROVE  \A j \in Ip, k \in Nat, d \in Conn :
           Queued(j, k, d)' <=> \/ Queued(j, k, d)
                                \/ j = i /\ d = c /\ k = Len(queue[i]) + 1
<1>1. \A j \in Ip \ {i} : queue'[j] = queue[j]
  BY DEF TypeOK
<1>2. queue'[i] = Append(queue[i], c) /\ queue[i] \in Seq(Conn)
  BY DEF TypeOK
<1>3. /\ DOMAIN queue'[i] = 1 .. Len(queue[i]) + 1
      /\ \A k \in 1 .. Len(queue[i]) + 1 :
           queue'[i][k] = IF k = Len(queue[i]) + 1 THEN c ELSE queue[i][k]
  <2>1. ASSUME NEW q \in Seq(Conn)
        PROVE  /\ DOMAIN Append(q, c) = 1 .. Len(q) + 1
               /\ \A k \in 1 .. Len(q) + 1 :
                    Append(q, c)[k] = IF k = Len(q) + 1 THEN c ELSE q[k]
    OBVIOUS
  <2> QED
    BY <1>2, <2>1
<1>4. DOMAIN queue[i] = 1 .. Len(queue[i]) /\ Len(queue[i]) \in Nat
  BY <1>2
<1>5. ASSUME NEW k \in Nat, NEW d \in Conn
      PROVE  Queued(i, k, d)' <=> Queued(i, k, d) \/ (d = c /\ k = Len(queue[i]) + 1)
  BY <1>3, <1>4 DEF Queued
<1> QED
  BY <1>1, <1>5 DEF Queued

LEMMA QueuedTail ==
  ASSUME TypeOK, NEW i \in Ip, queue[i] # <<>>,
         queue' = [queue EXCEPT ![i] = Tail(@)]
  PROVE  /\ Queued(i, 1, Head(queue[i]))
         /\ \A j \in Ip, k \in Nat, d \in Conn :
              Queued(j, k, d)' <=> IF j = i THEN k >= 1 /\ Queued(i, k + 1, d)
                                   ELSE Queued(j, k, d)
<1>1. \A j \in Ip \ {i} : queue'[j] = queue[j]
  BY DEF TypeOK
<1>2. queue'[i] = Tail(queue[i]) /\ queue[i] \in Seq(Conn)
  BY DEF TypeOK
<1>3. /\ DOMAIN queue'[i] = 1 .. Len(queue[i]) - 1
      /\ \A k \in 1 .. Len(queue[i]) - 1 : queue'[i][k] = queue[i][k + 1]
  <2>1. ASSUME NEW q \in Seq(Conn), q # <<>>
        PROVE  /\ Len(Tail(q)) = Len(q) - 1 /\ DOMAIN Tail(q) = 1 .. Len(q) - 1
               /\ \A k \in 1 .. Len(q) - 1 : Tail(q)[k] = q[k + 1]
    BY <2>1
  <2> QED
    BY <1>2, <2>1
<1>4. DOMAIN queue[i] = 1 .. Len(queue[i]) /\ Len(queue[i]) \in Nat /\ Len(queue[i]) > 0
  <2>1. ASSUME NEW q \in Seq(Conn), q # <<>>
        PROVE  DOMAIN q = 1 .. Len(q) /\ Len(q) \in Nat /\ Len(q) > 0
    BY <2>1
  <2> QED
    BY <1>2, <2>1
<1>5. ASSUME NEW k \in Nat, NEW d \in Conn
      PROVE  Queued(i, k, d)' <=> k >= 1 /\ Queued(i, k + 1, d)
  BY <1>3, <1>4 DEF Queued
<1>6. Queued(i, 1, Head(queue[i]))
  BY <1>2, <1>4 DEF Queued
<1> QED
  BY <1>1, <1>5, <1>6 DEF Queued

LEMMA QueuedNone ==
  ASSUME NEW i \in Ip, queue'[i] = <<>>
  PROVE  \A k, d : ~Queued(i, k, d)'
BY DEF Queued

LEMMA ElementsQueued ==
  ASSUME NEW i \in Ip, TypeOK, NEW d
  PROVE  d \in Elements(queue[i]) <=> \E k \in Nat : Queued(i, k, d)
<1>1. DOMAIN queue[i] \subseteq Nat
  BY DEF TypeOK
<1> QED
  BY <1>1 DEF Elements, Queued

(* Nothing moves.                                                          *)
LEMMA OnceStays ==
  ASSUME UNCHANGED <<open, queue, param>>, NEW d \in Conn, Once(d)
  PROVE  Once(d)'
BY DEF Once, Queued, Has

LEMMA OnceStep ==
  ASSUME IInv, [Next]_vars
  PROVE  EveryConnOnce'
<1>0. TypeOK /\ TypeOK' /\ ThreadsOK /\ Owners /\ CountCovers /\ \A d \in Conn : Once(d)
  BY OnceIff, TypeStep DEF IInv, ThreadsOK
<1> SUFFICES ASSUME NEW d \in Conn
             PROVE  Once(d)'
  <2>1. \A i \in Ip : DOMAIN queue'[i] \subseteq Nat
    BY <1>0 DEF TypeOK
  <2> QED
    BY <2>1 DEF EveryConnOnce, Once, Queued
<1>1. ASSUME NEW c \in Conn, NEW i \in Ip, Enqueue(c, i)
      PROVE  Once(d)'
  <2>1. \A j \in Ip, k \in Nat :
          Queued(j, k, d)' <=> Queued(j, k, d) \/ (j = i /\ d = c /\ k = Len(queue[i]) + 1)
    BY <1>0, <1>1, QueuedAppend DEF Enqueue
  <2>2. \A t \in Thread : Has(t, d)' <=> Has(t, d)
    BY <1>1 DEF Enqueue, threadVars, Has
  <2>3. open' = open \cup {c} /\ c \notin open /\ Len(queue[i]) + 1 \in Nat
    BY <1>0, <1>1 DEF Enqueue, TypeOK
  <2>4. Once(d)
    BY <1>0
  <2>5. CASE d = c
    <3>1. /\ \A j \in Ip, k \in Nat : ~Queued(j, k, d)
          /\ \A t \in Thread : ~Has(t, d)
      BY <2>3, <2>4, <2>5 DEF Once
    <3> QED
      BY <2>1, <2>2, <2>3, <2>5, <3>1 DEF Once
  <2>6. CASE d # c
    BY <2>1, <2>2, <2>3, <2>4, <2>6 DEF Once
  <2> QED
    BY <2>5, <2>6
<1>2. ASSUME NEW c \in Conn, NEW i \in Ip, Ban(c, i)
      PROVE  Once(d)'
  <2>1. \A j \in Ip, k \in Nat : Queued(j, k, d)' <=> j # i /\ Queued(j, k, d)
    <3>1. queue'[i] = <<>> /\ \A j \in Ip \ {i} : queue'[j] = queue[j]
      BY <1>0, <1>2 DEF Ban, TypeOK
    <3> QED
      BY <3>1, QueuedNone DEF Queued
  <2>2. \A t \in Thread : Has(t, d)' <=> Has(t, d)
    BY <1>2 DEF Ban, threadVars, Has
  <2>3. d \in open' <=> d \in open /\ ~\E k \in Nat : Queued(i, k, d)
    BY <1>0, <1>2, ElementsQueued DEF Ban
  <2>4. Once(d)
    BY <1>0
  <2> QED
    BY <2>1, <2>2, <2>3, <2>4 DEF Once
<1>3. ASSUME NEW c \in Conn, NEW i \in Ip, Refuse(c, i)
      PROVE  Once(d)'
  BY <1>0, <1>3, OnceStays DEF Refuse, threadVars
<1>4. ASSUME NEW c \in Conn, NEW i \in Ip, NEW t \in Thread,
             StartNew(c, i, t) \/ StartFree(c, i, t)
      PROVE  Once(d)'
  <2>1. \A j \in Ip, k \in Nat : Queued(j, k, d)' <=> Queued(j, k, d)
    BY <1>4 DEF StartNew, StartFree, Queued
  <2>2. param[t] = Nil
    <3>1. ~Busy(t)
      BY <1>0, <1>4, BusyStep DEF BusySet
    <3> QED
      BY <1>0, <3>1 DEF Owners
  <2>3. \A u \in Thread : Has(u, d)' <=> Has(u, d) \/ (u = t /\ d = c)
    BY <1>0, <1>4, <2>2, PoolAssumption DEF StartNew, StartFree, Has, TypeOK
  <2>4. open' = open \cup {c} /\ c \notin open
    BY <1>4 DEF StartNew, StartFree
  <2>5. Once(d)
    BY <1>0
  <2> QED
    BY <2>1, <2>3, <2>4, <2>5 DEF Once
<1>5. ASSUME NEW t \in Thread, Served(t)
      PROVE  Once(d)'
  <2>1. \A j \in Ip, k \in Nat : Queued(j, k, d)' <=> Queued(j, k, d)
    BY <1>5 DEF Served, ipVars, Queued
  <2>2. \A u \in Thread : Has(u, d)' <=> Has(u, d) /\ u # t
    BY <1>0, <1>5, PoolAssumption DEF Served, Has, TypeOK
  <2>3. d \in open' <=> d \in open /\ ~Has(t, d)
    BY <1>5 DEF Served, Has
  <2>4. Once(d)
    BY <1>0
  <2> QED
    BY <2>1, <2>2, <2>3, <2>4 DEF Once
<1>6. ASSUME NEW t \in Thread, Again(t)
      PROVE  Once(d)'
  <2> DEFINE i == tip[t]
  <2>1. i \in Ip /\ param[t] = Nil /\ queue[i] # <<>> /\ count[i] >= 2
    BY <1>0, <1>6 DEF Again, Owners, Busy, ThreadsOK, NoticeKept
  <2>2. queue' = [queue EXCEPT ![i] = Tail(@)]
    <3>1. ~(count[i] < 2)
      BY <1>0, <2>1 DEF TypeOK
    <3> QED
      BY <1>6, <2>1, <3>1 DEF Again, Leave
  <2> HIDE DEF i
  <2>3. /\ Queued(i, 1, Head(queue[i]))
        /\ \A j \in Ip, k \in Nat :
             Queued(j, k, d)' <=> IF j = i THEN k >= 1 /\ Queued(i, k + 1, d)
                                  ELSE Queued(j, k, d)
    BY <1>0, <2>1, <2>2, QueuedTail
  <2>4. \A u \in Thread : Has(u, d)' <=> Has(u, d) \/ (u = t /\ d = Head(queue[i]))
    BY <1>0, <1>6, <2>1, PoolAssumption DEF Again, Has, TypeOK, i
  <2>5. open' = open
    BY <1>6 DEF Again
  <2>6. Once(d)
    BY <1>0
  <2>7. \A k \in Nat : Queued(i, k, d) => k >= 1
    BY <1>0, <2>1 DEF Queued, TypeOK
  <2>8. CASE d = Head(queue[i])
    <3>1. /\ Queued(i, 1, d)
          /\ \A j \in Ip, k \in Nat : Queued(j, k, d) => j = i /\ k = 1
          /\ \A u \in Thread : ~Has(u, d)
          /\ d \in open
      BY <2>1, <2>3, <2>6, <2>8 DEF Once
    <3>2. \A j \in Ip, k \in Nat : ~Queued(j, k, d)'
      BY <2>3, <3>1
    <3>3. \A u \in Thread : Has(u, d)' <=> u = t
      BY <2>4, <2>8, <3>1
    <3> QED
      BY <2>5, <3>1, <3>2, <3>3 DEF Once
  <2>9. CASE d # Head(queue[i])
    <3>1. ~Queued(i, 1, d)
      BY <2>3, <2>9 DEF Queued
    <3>2. \A u \in Thread : Has(u, d)' <=> Has(u, d)
      BY <2>4, <2>9
    <3>3. (\E j \in Ip, k \in Nat : Queued(j, k, d)') <=> \E j \in Ip, k \in Nat : Queued(j, k, d)
      <4>1. ASSUME NEW j \in Ip, NEW k \in Nat, Queued(j, k, d)'
            PROVE  \E m \in Nat : Queued(j, m, d)
        BY <2>3, <4>1
      <4>2. ASSUME NEW j \in Ip, NEW k \in Nat, Queued(j, k, d)
            PROVE  \E m \in Nat : Queued(j, m, d)'
        <5>1. CASE j # i
          BY <2>3, <4>2, <5>1
        <5>2. CASE j = i
          <6>1. k - 1 \in Nat /\ k - 1 >= 1 /\ (k - 1) + 1 = k
            BY <2>7, <3>1, <4>2, <5>2
          <6> QED
            BY <2>3, <4>2, <5>2, <6>1
        <5> QED
          BY <5>1, <5>2
      <4> QED
        BY <4>1, <4>2
    <3>4. \A j, h \in Ip, k, m \in Nat : Queued(j, k, d)' /\ Queued(h, m, d)' => j = h /\ k = m
      <4> SUFFICES ASSUME NEW j \in Ip, NEW h \in Ip, NEW k \in Nat, NEW m \in Nat,
                          Queued(j, k, d)', Queued(h, m, d)'
                   PROVE  j = h /\ k = m
        OBVIOUS
      <4>1. Queued(j, IF j = i THEN k + 1 ELSE k, d) /\ Queued(h, IF h = i THEN m + 1 ELSE m, d)
        BY <2>3
      <4>2. j = h /\ (IF j = i THEN k + 1 ELSE k) = (IF h = i THEN m + 1 ELSE m)
        BY <2>6, <4>1 DEF Once
      <4> QED
        BY <4>2
    <3>5. \A j \in Ip, k \in Nat, u \in Thread : ~(Queued(j, k, d)' /\ Has(u, d)')
      BY <2>3, <2>6, <3>2 DEF Once
    <3> QED
      BY <2>5, <2>6, <3>2, <3>3, <3>4, <3>5 DEF Once
  <2> QED
    BY <2>8, <2>9
<1>7. ASSUME NEW t \in Thread, Done(t)
      PROVE  Once(d)'
  <2>1. UNCHANGED queue
    <3>0. tip[t] \in Ip
      BY <1>0, <1>7, BusyStep
    <3>1. CASE UNCHANGED ipVars
      BY <3>1 DEF ipVars
    <3>2. CASE Leave(tip[t]) /\ count[tip[t]] > 0 /\ (count[tip[t]] < 2 \/ queue[tip[t]] = <<>>)
      <4>1. queue[tip[t]] = <<>>
        <5>1. CASE count[tip[t]] < 2
          <6>1. queue[tip[t]] \in Seq(Conn) /\ count[tip[t]] \in Nat
            BY <1>0, <3>0 DEF TypeOK
          <6>2. Len(queue[tip[t]]) < 1
            BY <1>0, <3>0, <3>2, <5>1, <6>1 DEF CountCovers
          <6> QED
            BY <6>1, <6>2
        <5> QED
          BY <3>2, <5>1
      <4>2. queue' = [queue EXCEPT ![tip[t]] = <<>>]
        BY <3>2, <4>1 DEF Leave
      <4> QED
        BY <1>0, <3>0, <4>1, <4>2 DEF TypeOK
    <3> QED
      BY <1>7, <3>1, <3>2 DEF Done, Counted
  <2> QED
    BY <1>0, <1>7, <2>1, OnceStays DEF Done
<1>8. ASSUME NEW t \in Thread,
             Sigwait(t) \/ AwakeToServe(t) \/ AwakeToEnd(t) \/ FlushOne(t)
      PROVE  Once(d)'
  BY <1>0, <1>8, OnceStays DEF Sigwait, AwakeToServe, AwakeToEnd, FlushOne, ipVars
<1>9. ASSUME NEW n \in Limits, SetLimit(n)
      PROVE  Once(d)'
  BY <1>0, <1>9, OnceStays DEF SetLimit, ipVars, threadVars
<1>10. CASE ClearQueues
  <2>1. \A j \in Ip, k \in Nat : ~Queued(j, k, d)'
    BY <1>10, QueuedNone DEF ClearQueues
  <2>2. \A t \in Thread : Has(t, d)' <=> Has(t, d)
    BY <1>10 DEF ClearQueues, threadVars, Has
  <2>3. d \in open' <=> d \in open /\ ~\E j \in Ip, k \in Nat : Queued(j, k, d)
    BY <1>0, <1>10, ElementsQueued DEF ClearQueues
  <2>4. Once(d)
    BY <1>0
  <2> QED
    BY <2>1, <2>2, <2>3, <2>4 DEF Once
<1>11. CASE UNCHANGED vars
  BY <1>0, <1>11, OnceStays DEF vars, ipVars, threadVars
<1> QED
  BY <1>1, <1>2, <1>3, <1>4, <1>5, <1>6, <1>7, <1>8, <1>9, <1>10, <1>11
     DEF Next, Start, run_thread, AcceptFails, Idle
-----------------------------------------------------------------------------
LEMMA InitInv == Init => IInv
<1> SUFFICES ASSUME Init
             PROVE  IInv
  OBVIOUS
<1>1. TypeOK
  <2>1. <<>> \in Seq(Conn)
    OBVIOUS
  <2> QED
    BY <2>1 DEF Init, TypeOK
<1>2. TotalIsBusy
  <2>1. {t \in Thread : Busy(t)} = {}
    BY DEF Init, Busy
  <2> QED
    BY <2>1, FS_EmptySet DEF Init, TotalIsBusy
<1>3. NoticeKept /\ Owners
  BY DEF Init, NoticeKept, Owners, Busy
<1>4. CountCovers
  BY ServingNat DEF Init, CountCovers
<1>5. EveryConnOnce
  BY PoolAssumption DEF Init, EveryConnOnce, Queued, Has
<1> QED
  BY <1>1, <1>2, <1>3, <1>4, <1>5 DEF IInv

(* The invariant is inductive: every step of the accept loop, of a thread, *)
(* of the time thread and of the management page keeps it.                 *)
THEOREM Inductive == Spec => []IInv
<1>1. Init => IInv
  BY InitInv
<1>2. IInv /\ [Next]_vars => IInv'
  <2> SUFFICES ASSUME IInv, [Next]_vars
               PROVE  IInv'
    OBVIOUS
  <2>1. ThreadsOK /\ CountCovers
    BY DEF IInv, ThreadsOK
  <2> QED
    BY <2>1, TypeStep, TotalStep, NoticeStep, CountStep, OnceStep DEF IInv
<1> QED
  BY <1>1, <1>2, PTL DEF Spec

(* Types; the total and the counts never fall below zero, so the repair in *)
(* server_proxy (utils.cpp:609) is never needed.                           *)
THEOREM TypeCorrect == Spec => []TypeOK
<1>1. IInv => TypeOK
  BY DEF IInv
<1> QED
  BY <1>1, Inductive, PTL

(* total_thread, which Start compares with conf.max, is the number of      *)
(* threads that have a connection.                                         *)
THEOREM TotalIsExact == Spec => []TotalIsBusy
<1>1. IInv => TotalIsBusy
  BY DEF IInv
<1> QED
  BY <1>1, Inductive, PTL

(* A parked thread that Start or Flush takes awakes once, with a command.  *)
THEOREM NoLostWakeUp == Spec => []NoticeKept
<1>1. IInv => NoticeKept
  BY DEF IInv
<1> QED
  BY <1>1, Inductive, PTL

(* Every open connection has one owner, a queue or a thread.               *)
THEOREM OneOwner == Spec => []EveryConnOnce
<1>1. IInv => EveryConnOnce
  BY DEF IInv
<1> QED
  BY <1>1, Inductive, PTL

(* What is counted for an IP is waiting, served, or was refused; so an     *)
(* entry that dec_per_ip erases has no queue.                              *)
THEOREM CountsCovered == Spec => []CountCovers
<1>1. IInv => CountCovers
  BY DEF IInv
<1> QED
  BY <1>1, Inductive, PTL

-----------------------------------------------------------------------------
(* The pool as Admission sees it.                                          *)

(* At most as many connections are in service as threads can have one.     *)
LEMMA ServiceSize ==
  ASSUME IInv, NEW T \in SUBSET BusySet, Working \subseteq T
  PROVE  /\ Cardinality(Service) \in Nat
         /\ Cardinality(Service) <= Cardinality(T) /\ Cardinality(T) <= total_thread
         /\ T # BusySet => Cardinality(T) < total_thread
<1>1. total_thread = Cardinality(BusySet) /\ IsFiniteSet(BusySet)
  BY BusyFinite DEF IInv, TotalIsBusy, BusySet
<1>2. IsFiniteSet(T) /\ Cardinality(T) <= Cardinality(BusySet)
      /\ (Cardinality(BusySet) = Cardinality(T) => BusySet = T)
  BY <1>1, FS_Subset
<1>3. IsFiniteSet(Working) /\ Cardinality(Working) <= Cardinality(T)
  BY <1>2, FS_Subset
<1>4. IsFiniteSet(Service) /\ Cardinality(Service) <= Cardinality(Working)
  <2> DEFINE f == [t \in Working |-> <<param[t], tip[t]>>]
  <2>1. f \in Surjection(Working, Service)
    BY DEF Surjection, Service
  <2> HIDE DEF f
  <2> QED BY <1>3, <2>1, FS_Surjection
<1>5. /\ Cardinality(Service) \in Nat /\ Cardinality(Working) \in Nat
      /\ Cardinality(T) \in Nat /\ Cardinality(BusySet) \in Nat
  BY <1>1, <1>2, <1>3, <1>4, FS_CardinalityType
<1> QED BY <1>1, <1>2, <1>3, <1>4, <1>5

(* A thread that has a connection is busy with it, and no other has it.    *)
LEMMA WorkingBusy ==
  ASSUME IInv
  PROVE  /\ Working \subseteq BusySet
         /\ \A t \in Working : param[t] \in open /\ tip[t] \in Ip
         /\ \A t, u \in Working : param[t] = param[u] => t = u
<1>1. \A t \in Working : param[t] \in Conn /\ Has(t, param[t])
  BY DEF Working, IInv, TypeOK, Has
<1>2. \A t \in Working : param[t] \in open
  BY <1>1 DEF IInv, EveryConnOnce, Working
<1>3. \A t, u \in Working : param[t] = param[u] => t = u
  BY <1>1 DEF IInv, EveryConnOnce, Has, Working
<1> QED BY <1>2, <1>3 DEF IInv, Owners, Working, BusySet

(* What Admission calls present has an open socket.                        *)
LEMMA PresentIsOpen ==
  ASSUME IInv, NEW c \in Conn
  PROVE  Line!Present(c) => c \in open
<1>1. ASSUME NEW i \in Ip, <<c, i>> \in Service PROVE c \in open
  BY <1>1, WorkingBusy DEF Service
<1>2. ASSUME NEW i \in Ip, NEW k \in DOMAIN queue[i], queue[i][k] = c PROVE c \in open
  BY <1>2 DEF IInv, EveryConnOnce, Queued
<1> QED BY <1>1, <1>2 DEF Line!Present

(* A thread is given a connection, ...                                     *)
LEMMA ServiceAdd ==
  ASSUME IInv, NEW t \in Thread, t \notin Working, NEW c \in Conn, NEW i,
         param' = [param EXCEPT ![t] = c], tip' = [tip EXCEPT ![t] = i]
  PROVE  Service' = Service \cup {<<c, i>>}
<1>1. /\ param'[t] = c /\ tip'[t] = i /\ c # Nil
      /\ \A u \in Thread \ {t} : param'[u] = param[u] /\ tip'[u] = tip[u]
  BY PoolAssumption DEF IInv, TypeOK
<1>2. Working' = Working \cup {t}
  BY <1>1 DEF Working
<1> QED BY <1>1, <1>2 DEF Service, Working

(* ... or closes the one it has.                                           *)
LEMMA ServiceRemove ==
  ASSUME IInv, NEW t \in Working, param' = [param EXCEPT ![t] = Nil], UNCHANGED tip
  PROVE  Service' = Service \ {<<param[t], tip[t]>>}
<1>1. param'[t] = Nil /\ \A u \in Thread \ {t} : param'[u] = param[u]
  BY DEF IInv, TypeOK, Working
<1>2. Working' = Working \ {t}
  BY <1>1 DEF Working
<1>3. \A u \in Working : param[u] = param[t] => u = t
  BY WorkingBusy
<1> QED BY <1>1, <1>2, <1>3 DEF Service, Working

(* The limits of the pool.                                                 *)
LEMMA WithinStep ==
  ASSUME IInv, WithinLimits, [Next]_vars
  PROVE  WithinLimits'
<1>0. /\ total_thread \in Nat /\ Max \in Nat /\ changes \in Nat /\ max_per_ip \in Nat
      /\ count \in [Ip -> Nat] /\ queue \in [Ip -> Seq(Conn)]
  BY PoolAssumption DEF IInv, TypeOK
<1>1. total_thread' <= Max
  <2>1. CASE \E c \in Conn, i \in Ip, t \in Thread : StartNew(c, i, t) \/ StartFree(c, i, t)
    BY <1>0, <2>1 DEF StartNew, StartFree
  <2>2. ASSUME NEW t \in Thread, Done(t) PROVE total_thread' <= Max
    BY <1>0, <2>2 DEF Done, Park, WithinLimits
  <2>3. ASSUME NEW t \in Thread, QuietStep(t) PROVE total_thread' <= Max
    BY <2>3, QuietBusy DEF WithinLimits, IInv, ThreadsOK
  <2>4. CASE Aside
    BY <2>4 DEF Aside, threadVars, WithinLimits
  <2> QED BY <2>1, <2>2, <2>3, <2>4, StepKinds
<1>2. ASSUME changes' = 0, NEW i \in Ip, queue'[i] # << >>
      PROVE  max_per_ip' > 0 /\ count'[i] >= max_per_ip' + Len(queue'[i])
  <2>1. changes = 0 /\ max_per_ip' = max_per_ip
    <3>1. CASE UNCHANGED adminVars
      BY <1>2, <3>1 DEF adminVars
    <3>2. CASE ClearQueues
      BY <1>2, <3>2 DEF ClearQueues
    <3>3. CASE \E n \in Limits : SetLimit(n)
      BY <1>0, <1>2, <3>3 DEF SetLimit
    <3>4. ASSUME NEW c \in Conn, NEW j \in Ip, Start(c, j) PROVE UNCHANGED adminVars
      BY <3>4 DEF Start, Enqueue, Ban, Refuse, StartNew, StartFree
    <3>5. ASSUME NEW t \in Thread, run_thread(t) \/ FlushOne(t) PROVE UNCHANGED adminVars
      BY <3>5 DEF run_thread, Served, Again, Done, Sigwait, AwakeToServe, AwakeToEnd, FlushOne
    <3>6. CASE AcceptFails \/ Idle \/ UNCHANGED vars
      BY <3>1, <3>6 DEF AcceptFails, Idle, vars
    <3> QED BY <3>1, <3>2, <3>3, <3>4, <3>5, <3>6 DEF Next
  <2>2. queue[i] # << >> => max_per_ip > 0 /\ count[i] >= max_per_ip + Len(queue[i])
    BY <2>1 DEF WithinLimits
  <2>3. CASE queue'[i] = queue[i] /\ count'[i] >= count[i] /\ count'[i] \in Nat
    BY <1>0, <1>2, <2>1, <2>2, <2>3
  <2>4. ASSUME NEW c \in Conn, NEW j \in Ip, Enqueue(c, j)
        PROVE  max_per_ip' > 0 /\ count'[i] >= max_per_ip' + Len(queue'[i])
    <3>1. CASE j # i
      BY <1>0, <2>3, <2>4, <3>1 DEF Enqueue
    <3>2. CASE j = i
      <4>1. /\ queue'[i] = Append(queue[i], c) /\ count'[i] = count[i] + 1
            /\ max_per_ip > 0 /\ count[i] + 1 > max_per_ip
        BY <1>0, <2>4, <3>2 DEF Enqueue, Exceeds
      <4>2. Len(Append(queue[i], c)) = Len(queue[i]) + 1 /\ Len(queue[i]) \in Nat
            /\ (queue[i] = << >> => Len(queue[i]) = 0)
        BY <1>0
      <4> QED BY <1>0, <2>1, <2>2, <4>1, <4>2
    <3> QED BY <3>1, <3>2
  <2>5. ASSUME NEW c \in Conn, NEW j \in Ip, Ban(c, j)
        PROVE  max_per_ip' > 0 /\ count'[i] >= max_per_ip' + Len(queue'[i])
    <3>1. j # i
      BY <1>0, <1>2, <2>5 DEF Ban
    <3>2. queue'[i] = queue[i] /\ count'[i] = count[i]
      BY <1>0, <2>5, <3>1 DEF Ban
    <3> QED BY <1>0, <2>3, <3>2
  <2>6. ASSUME NEW j \in Ip, UNCHANGED queue, CountIn(j)
        PROVE  max_per_ip' > 0 /\ count'[i] >= max_per_ip' + Len(queue'[i])
    <3>1. count'[i] \in {count[i], count[i] + 1}
      BY <1>0, <2>6 DEF CountIn
    <3> QED BY <1>0, <2>3, <2>6, <3>1
  <2>7. ASSUME NEW c \in Conn, NEW j \in Ip, Start(c, j)
        PROVE  max_per_ip' > 0 /\ count'[i] >= max_per_ip' + Len(queue'[i])
    BY <2>4, <2>5, <2>6, <2>7 DEF Start, Refuse, StartNew, StartFree
  <2>8. ASSUME NEW t \in Thread, tip[t] \in Ip, count[tip[t]] > 0, Leave(tip[t])
        PROVE  max_per_ip' > 0 /\ count'[i] >= max_per_ip' + Len(queue'[i])
    <3>1. CASE tip[t] # i
      BY <1>0, <2>3, <2>8, <3>1 DEF Leave
    <3>2. CASE tip[t] = i
      <4>1. queue[i] # << >> /\ queue'[i] = Tail(queue[i]) /\ count'[i] = count[i] - 1
        BY <1>0, <1>2, <2>8, <3>2 DEF Leave
      <4>2. Len(Tail(queue[i])) = Len(queue[i]) - 1 /\ Len(queue[i]) \in Nat
        BY <1>0, <4>1
      <4> QED BY <1>0, <2>1, <2>2, <4>1, <4>2
    <3> QED BY <3>1, <3>2
  <2>9. ASSUME NEW t \in Thread, Again(t) \/ Done(t)
        PROVE  max_per_ip' > 0 /\ count'[i] >= max_per_ip' + Len(queue'[i])
    <3>1. tip[t] \in Ip
      BY <2>9 DEF Again, Done, IInv, NoticeKept, Owners, Busy
    <3>2. CASE UNCHANGED ipVars
      BY <1>0, <2>3, <3>2 DEF ipVars
    <3>3. CASE ~UNCHANGED ipVars
      <4>1. Leave(tip[t]) /\ count[tip[t]] > 0
        BY <1>0, <2>9, <3>1, <3>3 DEF Again, Done, Counted
      <4> QED BY <2>8, <3>1, <4>1
    <3> QED BY <3>2, <3>3
  <2>10. CASE UNCHANGED <<queue, count>>
    BY <1>0, <2>3, <2>10
  <2>11. CASE ClearQueues
    BY <1>2, <2>11 DEF ClearQueues
  <2>12. ASSUME NEW t \in Thread, run_thread(t) \/ FlushOne(t)
         PROVE  max_per_ip' > 0 /\ count'[i] >= max_per_ip' + Len(queue'[i])
    BY <2>9, <2>10, <2>12 DEF run_thread, Served, Sigwait, AwakeToServe, AwakeToEnd, FlushOne,
      ipVars
  <2>13. CASE (\E n \in Limits : SetLimit(n)) \/ AcceptFails \/ Idle \/ UNCHANGED vars
    BY <2>10, <2>13 DEF SetLimit, AcceptFails, Idle, vars, ipVars
  <2> QED BY <2>7, <2>11, <2>12, <2>13 DEF Next
<1> QED BY <1>1, <1>2 DEF WithinLimits

(* Admission counts as the pool does.                                      *)
LEMMA SameCardinality ==
  ASSUME NEW S
  PROVE  Line!Cardinality(S) = Cardinality(S)
BY DEF Line!Cardinality, Cardinality

(* Every step of the pool is a step of Admission, or a stutter.            *)
LEMMA LineStep ==
  ASSUME IInv, WithinLimits, [Next]_vars
  PROVE  [Line!Next]_(Line!vars)
<1>0. /\ total_thread \in Nat /\ Max \in Nat /\ changes \in Nat /\ max_per_ip \in Nat
      /\ count \in [Ip -> Nat] /\ queue \in [Ip -> Seq(Conn)] /\ total_thread <= Max
  BY PoolAssumption DEF IInv, TypeOK, WithinLimits
<1>a. ASSUME UNCHANGED <<queue, changes, param, tip>> PROVE [Line!Next]_(Line!vars)
  BY <1>a DEF Line!vars, Service, Working
<1>b. ASSUME UNCHANGED <<param, tip>> PROVE Service' = Service
  BY <1>b DEF Service, Working
<1>c. ASSUME NEW c \in Conn, c \notin open PROVE ~Line!Present(c)
  BY <1>c, PresentIsOpen
<1>1. ASSUME NEW c \in Conn, NEW i \in Ip, Enqueue(c, i) PROVE [Line!Next]_(Line!vars)
  <2>1. Line!Wait(c, i)
    BY <1>b, <1>c, <1>1 DEF Enqueue, Line!Wait, threadVars, adminVars
  <2> QED BY <2>1 DEF Line!Next
<1>2. ASSUME NEW c \in Conn, NEW i \in Ip, Ban(c, i) PROVE [Line!Next]_(Line!vars)
  <2>1. queue' = [j \in Ip |-> IF j \in {i} THEN << >> ELSE queue[j]]
    BY <1>0, <1>2 DEF Ban
  <2>2. Line!TurnAway({i})
    BY <1>b, <1>2, <2>1 DEF Ban, Line!TurnAway, threadVars, adminVars
  <2> QED BY <2>2 DEF Line!Next
<1>3. ASSUME NEW c \in Conn, NEW i \in Ip, NEW t \in Thread,
             StartNew(c, i, t) \/ StartFree(c, i, t)
      PROVE  [Line!Next]_(Line!vars)
  <2>1. c \notin open /\ ~Exceeds(i) /\ total_thread < Max /\ UNCHANGED <<queue, changes>>
    BY <1>3 DEF StartNew, StartFree, adminVars
  <2>2. t \notin Working
    BY <1>3, WorkingBusy, BusyStep DEF IInv, ThreadsOK
  <2>3. Service' = Service \cup {<<c, i>>}
    BY <1>3, <2>2, ServiceAdd DEF StartNew, StartFree
  <2>4. Cardinality(Service) < Max
    <3>1. /\ Cardinality(Service) \in Nat /\ Cardinality(Service) <= Cardinality(BusySet)
          /\ Cardinality(BusySet) <= total_thread /\ total_thread = Cardinality(BusySet)
      BY WorkingBusy, ServiceSize DEF IInv, TotalIsBusy, BusySet
    <3> QED BY <1>0, <2>1, <3>1
  <2>5. ASSUME changes = 0, queue[i] # << >> PROVE FALSE
    <3>1. max_per_ip > 0 /\ count[i] >= max_per_ip + Len(queue[i])
      BY <2>5 DEF WithinLimits
    <3>2. Len(queue[i]) \in Nat
      BY <1>0
    <3> QED BY <1>0, <2>1, <3>1, <3>2 DEF Exceeds
  <2>6. ~Line!Present(c)
    BY <1>c, <2>1
  <2>7. (changes' = 0) = (changes = 0)
    BY <2>1
  <2>8. changes = 0 => queue[i] = << >>
    BY <2>5
  <2>9. Line!Serve(c, i)
    BY <2>1, <2>3, <2>4, <2>6, <2>7, <2>8, SameCardinality DEF Line!Serve
  <2> QED BY <2>9 DEF Line!Next
<1>4. ASSUME NEW t \in Thread, Served(t) PROVE [Line!Next]_(Line!vars)
  <2>1. CASE t \in Working
    <3>1. Service' = Service \ {<<param[t], tip[t]>>} /\ <<param[t], tip[t]>> \in Service
      BY <1>4, <2>1, ServiceRemove DEF Served, Service
    <3>2. param[t] \in Conn /\ tip[t] \in Ip
      BY <2>1, WorkingBusy DEF Working, IInv, TypeOK
    <3>3. Line!End(param[t], tip[t])
      BY <1>4, <3>1 DEF Line!End, Served, ipVars, adminVars
    <3> QED BY <3>2, <3>3 DEF Line!Next
  <2>2. CASE t \notin Working
    <3>1. UNCHANGED param
      BY <1>4, <2>2 DEF Served, Working, IInv, TypeOK
    <3> QED BY <1>a, <1>4, <3>1 DEF Served, ipVars, adminVars
  <2> QED BY <2>1, <2>2
<1>5. ASSUME NEW t \in Thread, Again(t) PROVE [Line!Next]_(Line!vars)
  <2>1. t \in BusySet /\ t \notin Working /\ tip[t] \in Ip
    BY <1>5 DEF Again, IInv, NoticeKept, Owners, Busy, BusySet, Working
  <2>2. PICK i \in Ip : i = tip[t]
    BY <2>1
  <2>3. queue[i] # << >> /\ count[i] >= 2
    BY <1>5, <2>2 DEF Again
  <2>4. queue' = [queue EXCEPT ![i] = IF count[i] < 2 \/ @ = << >> THEN << >> ELSE Tail(@)]
    BY <1>5, <2>2 DEF Again, Leave
  <2>5. ~(count[i] < 2) /\ ~(queue[i] = << >>)
    BY <1>0, <2>3
  <2>6. queue' = [queue EXCEPT ![i] = Tail(@)]
    BY <2>4, <2>5
  <2>7. UNCHANGED <<tip, changes>>
    BY <1>5 DEF Again, adminVars
  <2>8. PICK c \in Conn : c = Head(queue[i])
    BY <1>0, <2>3
  <2>9. param' = [param EXCEPT ![t] = c] /\ tip' = [tip EXCEPT ![t] = i]
    BY <1>5, <2>2, <2>7, <2>8 DEF Again, IInv, TypeOK
  <2>10. Service' = Service \cup {<<c, i>>}
    BY <2>1, <2>9, ServiceAdd
  <2>11. Cardinality(Service) < Max
    <3>1. BusySet \ {t} \in SUBSET BusySet /\ Working \subseteq BusySet \ {t}
          /\ BusySet \ {t} # BusySet
      BY <2>1, WorkingBusy
    <3>2. /\ Cardinality(Service) \in Nat
          /\ Cardinality(Service) <= Cardinality(BusySet \ {t})
          /\ Cardinality(BusySet \ {t}) < total_thread
      BY <3>1, ServiceSize
    <3>3. IsFiniteSet(BusySet \ {t})
      BY <3>1, BusyFinite, FS_Subset
    <3>4. Cardinality(BusySet \ {t}) \in Nat
      BY <3>3, FS_CardinalityType
    <3> QED BY <1>0, <3>2, <3>4
  <2>12. (changes' = 0) = (changes = 0)
    BY <2>7
  <2>13. Line!ServeNext(i)
    BY <2>3, <2>6, <2>8, <2>10, <2>11, <2>12, SameCardinality DEF Line!ServeNext
  <2> QED BY <2>13 DEF Line!Next
<1>6. ASSUME NEW t \in Thread, Done(t) PROVE [Line!Next]_(Line!vars)
  <2>1. UNCHANGED queue
    <3>1. CASE UNCHANGED ipVars
      BY <3>1 DEF ipVars
    <3>2. ASSUME Counted(tip[t]), count[tip[t]] < 2 \/ queue[tip[t]] = << >>, Leave(tip[t])
          PROVE  UNCHANGED queue
      <4>1. tip[t] \in Ip /\ count[tip[t]] > 0
        BY <1>6, <3>2 DEF Done, Counted, IInv, NoticeKept, Owners, Busy
      <4>2. PICK i \in Ip : i = tip[t]
        BY <4>1
      <4>3. Len(queue[i]) < count[i] /\ queue[i] \in Seq(Conn)
        BY <1>0, <4>1, <4>2 DEF IInv, CountCovers
      <4>4. queue[i] = << >>
        <5>1. CASE count[i] < 2
          BY <1>0, <4>3, <5>1
        <5> QED BY <3>2, <4>2, <5>1
      <4> QED BY <1>0, <3>2, <4>2, <4>4 DEF Leave
    <3> QED BY <1>6, <3>1, <3>2 DEF Done
  <2> QED BY <1>a, <1>6, <2>1 DEF Done, adminVars
<1>7. ASSUME NEW t \in Thread, Sigwait(t) \/ AwakeToServe(t) \/ FlushOne(t)
      PROVE  [Line!Next]_(Line!vars)
  BY <1>a, <1>7 DEF Sigwait, AwakeToServe, FlushOne, ipVars, adminVars
<1>8. ASSUME NEW t \in Thread, AwakeToEnd(t) PROVE [Line!Next]_(Line!vars)
  <2>1. t \notin Working
    BY <1>8, WorkingBusy DEF AwakeToEnd, BusySet, Busy
  <2>2. Working' = Working /\ \A u \in Working : tip'[u] = tip[u] /\ param'[u] = param[u]
    BY <1>8, <2>1 DEF AwakeToEnd, Working, IInv, TypeOK
  <2>3. Service' = Service
    BY <2>2 DEF Service
  <2> QED BY <1>8, <2>3 DEF AwakeToEnd, ipVars, adminVars, Line!vars
<1>9. CASE ClearQueues
  <2>1. Line!TurnAway(Ip)
    BY <1>b, <1>9 DEF ClearQueues, Line!TurnAway, threadVars
  <2> QED BY <2>1 DEF Line!Next
<1>10. ASSUME NEW n \in Limits, SetLimit(n) PROVE [Line!Next]_(Line!vars)
  <2>1. (changes' = 0) = FALSE
    BY <1>0, <1>10 DEF SetLimit
  <2>2. Line!ChangeLimit
    BY <1>b, <1>10, <2>1 DEF SetLimit, Line!ChangeLimit, ipVars, threadVars
  <2> QED BY <2>2 DEF Line!Next
<1>11. ASSUME NEW c \in Conn, NEW i \in Ip, Refuse(c, i) PROVE [Line!Next]_(Line!vars)
  BY <1>a, <1>11 DEF Refuse, threadVars, adminVars
<1>12. CASE AcceptFails \/ Idle \/ UNCHANGED vars
  BY <1>a, <1>12 DEF AcceptFails, Idle, vars, ipVars, threadVars, adminVars
<1> QED BY <1>1, <1>2, <1>3, <1>4, <1>5, <1>6, <1>7, <1>8, <1>9, <1>10, <1>11, <1>12
        DEF Next, Start, run_thread

(* The pool serves the connections of an address in the order they came,   *)
(* each once, and never more than conf.max at a time.                      *)
THEOREM PoolRefinesAdmission == Spec => PoolIsAdmission
<1>1. Init => Line!Init /\ WithinLimits
  <2>1. SUFFICES ASSUME Init PROVE Line!Init /\ WithinLimits
    OBVIOUS
  <2>2. Service = {}
    BY <2>1 DEF Init, Service, Working
  <2> QED BY <2>1, <2>2, PoolAssumption DEF Init, Line!Init, WithinLimits
<1>2. IInv /\ WithinLimits /\ [Next]_vars => WithinLimits' /\ [Line!Next]_(Line!vars)
  BY WithinStep, LineStep
<1> QED BY <1>1, <1>2, Inductive, PTL DEF Spec, PoolIsAdmission, Line!Spec
=============================================================================
