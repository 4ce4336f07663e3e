----------------------------- MODULE ThreadPool -----------------------------
(***************************************************************************)
(* The worker threads of kingate (src/src/KThreadPool.cpp): the accept     *)
(* loop hands each connection to a thread, or queues it behind the others  *)
(* of its IP; a thread that is done takes the next one of that queue or    *)
(* parks itself for the accept loop to wake it by a signal; the time       *)
(* thread ends threads that have been parked for long; a management page   *)
(* changes the limit per IP.                                               *)
(*                                                                         *)
(* A step is what runs under m_ThreadPoolLock, which reads conf.max_per_ip *)
(* as one value, or what a thread does between two such sections.          *)
(***************************************************************************)
EXTENDS Integers, Sequences, FiniteSets

CONSTANTS
  Conn,        \* descriptors for accepted sockets
  Ip,          \* client addresses
  Thread,      \* slots for threads
  Nil,         \* no connection, no address
  Max,         \* conf.max
  MaxDeny,     \* conf.max_deny_per_ip, 0 for no limit
  MinFree,     \* conf.min_free_thread
  Limits,      \* values of conf.max_per_ip, 0 for no limit
  MaxChanges,  \* bound: how often the management page changes the limit
  CreateFails  \* whether pthread_create may fail

ASSUME PoolAssumption ==
  /\ IsFiniteSet(Thread)
  /\ Nil \notin Conn /\ Nil \notin Ip
  /\ Max \in Nat /\ MaxDeny \in Nat /\ MinFree \in Nat /\ MaxChanges \in Nat
  /\ Limits \subseteq Nat
  /\ CreateFails \in BOOLEAN

VARIABLES
  open,          \* connections whose accept_fd is open
  count,         \* m_ip[i].total_connected, 0 if m_ip has no entry
  queue,         \* m_ip[i].q
  over,          \* history: refused connections that count still holds
  where,         \* what each thread is doing
  cmd,           \* ThreadInfo.cmd
  param,         \* ThreadInfo.param
  tip,           \* ThreadInfo.ip
  notice,        \* whether KINGATE_NOTICE_THREAD is pending for the thread
  FreeThread,    \* the parked threads
  total_thread,
  max_per_ip,    \* conf.max_per_ip
  admin,         \* "idle", or "clear" between the two parts of set_max_per_ip
  changes,       \* number of changes of the limit
  crashed

ipVars     == <<count, queue, over>>
threadVars == <<where, cmd, param, tip, notice, FreeThread, total_thread>>
adminVars  == <<max_per_ip, admin, changes, crashed>>
vars == <<open, ipVars, threadVars, adminVars>>

(* The threads that have a connection, or are about to get or to end one.  *)
Busy(t) == where[t] # "none" /\ cmd[t] = "START"
Serving(i) == {t \in Thread : Busy(t) /\ tip[t] = i}
Elements(q) == {q[k] : k \in DOMAIN q}

-----------------------------------------------------------------------------
(* pthread_kill.  A thread blocks the signal before it parks itself, so    *)
(* the signal waits for the thread if the thread does not wait for it yet. *)

(* Variant: the signal is not blocked, and a thread that is not in sigwait *)
(* yet handles, and so loses it.                                           *)
PendsInSigwait(t) == where[t] = "waiting"

Pends(t) == TRUE

Notify(t, command) ==
  /\ cmd' = [cmd EXCEPT ![t] = command]
  /\ notice' = [notice EXCEPT ![t] = Pends(t)]

-----------------------------------------------------------------------------
(* Start, called by the accept loop for a connection that the access       *)
(* filter lets pass.                                                       *)

(* Variant: the first connection of an IP is tested too, and with >=.      *)
ExceedsOrMeets(i) == max_per_ip > 0 /\ count[i] + 1 >= max_per_ip

Exceeds(i) == max_per_ip > 0 /\ count[i] > 0 /\ count[i] + 1 > max_per_ip

(* The part of Start that counts the connection.                           *)
CountIn(i) ==
  count' = IF max_per_ip > 0 THEN [count EXCEPT ![i] = @ + 1] ELSE count

(* Variant: push_front for push_back.                                      *)
EnqueueFirst(c, i) ==
  /\ ~crashed /\ c \notin open
  /\ Exceeds(i) /\ (MaxDeny > 0 => count[i] + 1 <= MaxDeny)
  /\ open' = open \cup {c}
  /\ count' = [count EXCEPT ![i] = @ + 1]
  /\ queue' = [queue EXCEPT ![i] = <<c>> \o @]
  /\ UNCHANGED <<over, threadVars, adminVars>>

(* max_per_ip: the connection waits for a thread of its IP to end.         *)
Enqueue(c, i) ==
  /\ ~crashed /\ c \notin open
  /\ Exceeds(i) /\ (MaxDeny > 0 => count[i] + 1 <= MaxDeny)
  /\ open' = open \cup {c}
  /\ count' = [count EXCEPT ![i] = @ + 1]
  /\ queue' = [queue EXCEPT ![i] = Append(@, c)]
  /\ UNCHANGED <<over, threadVars, adminVars>>

(* Variant: the waiting connections are not closed.                        *)
BanOnly(c, i) ==
  /\ ~crashed /\ c \notin open
  /\ Exceeds(i) /\ MaxDeny > 0 /\ count[i] + 1 > MaxDeny
  /\ count' = [count EXCEPT ![i] = 0]
  /\ queue' = [queue EXCEPT ![i] = <<>>]
  /\ over' = [over EXCEPT ![i] = 0]
  /\ UNCHANGED <<open, threadVars, adminVars>>

(* An IP that has too many of them is banned: its queue is closed and its  *)
(* entry forgotten, the threads that serve it go on.  (The rule that bans  *)
(* it belongs to the access filter, which need not apply it.)              *)
Ban(c, i) ==
  /\ ~crashed /\ c \notin open
  /\ Exceeds(i) /\ MaxDeny > 0 /\ count[i] + 1 > MaxDeny
  /\ open' = open \ Elements(queue[i])
  /\ count' = [count EXCEPT ![i] = 0]
  /\ queue' = [queue EXCEPT ![i] = <<>>]
  /\ over' = [over EXCEPT ![i] = 0]
  /\ UNCHANGED <<threadVars, adminVars>>

(* err: there are too many threads, or none can be created.  The           *)
(* connection is closed but stays counted.                                 *)
Refuse(c, i) ==
  /\ ~crashed /\ c \notin open
  /\ ~Exceeds(i)
  /\ total_thread >= Max \/ (FreeThread = {} /\ CreateFails)
  /\ CountIn(i)
  /\ over' = IF max_per_ip > 0 THEN [over EXCEPT ![i] = @ + 1] ELSE over
  /\ UNCHANGED <<open, queue, threadVars, adminVars>>

(* A new thread.  (Its cmd is not written here, and not read before        *)
(* run_thread writes it: START stands for having a connection.)            *)
StartNew(c, i, t) ==
  /\ ~crashed /\ c \notin open
  /\ ~Exceeds(i) /\ total_thread < Max
  /\ FreeThread = {} /\ where[t] = "none"
  /\ CountIn(i)
  /\ open' = open \cup {c}
  /\ where' = [where EXCEPT ![t] = "serving"]
  /\ cmd' = [cmd EXCEPT ![t] = "START"]
  /\ param' = [param EXCEPT ![t] = c]
  /\ tip' = [tip EXCEPT ![t] = i]
  /\ total_thread' = total_thread + 1
  /\ UNCHANGED <<queue, over, notice, FreeThread, adminVars>>

StartFree(c, i, t) ==
  /\ ~crashed /\ c \notin open
  /\ ~Exceeds(i) /\ total_thread < Max
  /\ t \in FreeThread
  /\ CountIn(i)
  /\ open' = open \cup {c}
  /\ Notify(t, "START")
  /\ param' = [param EXCEPT ![t] = c]
  /\ tip' = [tip EXCEPT ![t] = i]
  /\ FreeThread' = FreeThread \ {t}
  /\ total_thread' = total_thread + 1
  /\ UNCHANGED <<queue, over, where, adminVars>>

-----------------------------------------------------------------------------
(* run_thread                                                              *)

(* server_thread ends and closes the connection.                           *)
Served(t) ==
  /\ ~crashed /\ where[t] = "serving"
  /\ open' = open \ {param[t]}
  /\ param' = [param EXCEPT ![t] = Nil]
  /\ where' = [where EXCEPT ![t] = "ending"]
  /\ UNCHANGED <<ipVars, cmd, tip, notice, FreeThread, total_thread, adminVars>>

(* dec_per_ip: whether the end of a thread is counted.                     *)
Counted(i) == max_per_ip > 0 /\ count[i] > 0

(* Variant: the count stays when a waiting connection takes over.          *)
LeaveCounted(i) ==
  /\ count' = [count EXCEPT ![i] = IF @ >= 2 /\ queue[i] # <<>> THEN @ ELSE @ - 1]
  /\ queue' = [queue EXCEPT ![i] = IF count[i] < 2 \/ @ = <<>> THEN <<>> ELSE Tail(@)]
  /\ over' = [over EXCEPT ![i] = IF count[i] < 2 THEN 0 ELSE @]

(* The count goes down and the next connection leaves the queue; the last  *)
(* one to be counted takes the entry with it.                              *)
Leave(i) ==
  /\ count' = [count EXCEPT ![i] = @ - 1]
  /\ queue' = [queue EXCEPT ![i] = IF count[i] < 2 \/ @ = <<>> THEN <<>> ELSE Tail(@)]
  /\ over' = [over EXCEPT ![i] = IF count[i] < 2 THEN 0 ELSE @]

(* There is a connection of the same IP waiting: it is served next.        *)
Again(t) ==
  /\ ~crashed /\ where[t] = "ending"
  /\ Counted(tip[t]) /\ count[tip[t]] >= 2 /\ queue[tip[t]] # <<>>
  /\ Leave(tip[t])
  /\ param' = [param EXCEPT ![t] = Head(queue[tip[t]])]
  /\ where' = [where EXCEPT ![t] = "serving"]
  /\ UNCHANGED <<open, cmd, tip, notice, FreeThread, total_thread, adminVars>>

(* Variant: total_thread is not decremented.                               *)
ParkCounted(t) ==
  /\ where' = [where EXCEPT ![t] = "parked"]
  /\ cmd' = [cmd EXCEPT ![t] = "NULL"]
  /\ FreeThread' = FreeThread \cup {t}
  /\ UNCHANGED total_thread

(* There is none: the thread parks itself.                                 *)
Park(t) ==
  /\ where' = [where EXCEPT ![t] = "parked"]
  /\ cmd' = [cmd EXCEPT ![t] = "NULL"]
  /\ FreeThread' = FreeThread \cup {t}
  /\ total_thread' = total_thread - 1

Done(t) ==
  /\ ~crashed /\ where[t] = "ending"
  /\ \/ /\ Counted(tip[t]) /\ (count[tip[t]] < 2 \/ queue[tip[t]] = <<>>)
        /\ Leave(tip[t])
     \/ ~Counted(tip[t]) /\ UNCHANGED ipVars
  /\ Park(t)
  /\ UNCHANGED <<open, param, tip, notice, adminVars>>

(* sigwait: the thread starts to wait, and awakes with its command.        *)
Sigwait(t) ==
  /\ ~crashed /\ where[t] = "parked"
  /\ where' = [where EXCEPT ![t] = "waiting"]
  /\ UNCHANGED <<open, ipVars, cmd, param, tip, notice, FreeThread, total_thread,
                 adminVars>>

AwakeToServe(t) ==
  /\ ~crashed /\ where[t] = "waiting" /\ notice[t] /\ cmd[t] = "START"
  /\ notice' = [notice EXCEPT ![t] = FALSE]
  /\ where' = [where EXCEPT ![t] = "serving"]
  /\ UNCHANGED <<open, ipVars, cmd, param, tip, FreeThread, total_thread, adminVars>>

AwakeToEnd(t) ==
  /\ ~crashed /\ where[t] = "waiting" /\ notice[t] /\ cmd[t] # "START"
  /\ notice' = [notice EXCEPT ![t] = FALSE]
  /\ where' = [where EXCEPT ![t] = "none"]
  /\ cmd' = [cmd EXCEPT ![t] = "NULL"]
  /\ tip' = [tip EXCEPT ![t] = Nil]
  /\ UNCHANGED <<open, ipVars, param, FreeThread, total_thread, adminVars>>

-----------------------------------------------------------------------------
(* Flush, in the time thread, ends the threads that were parked longest,   *)
(* one by one, and leaves min_free_thread of them.                         *)
FlushOne(t) ==
  /\ ~crashed /\ t \in FreeThread
  /\ Cardinality(FreeThread) > MinFree
  /\ Notify(t, "END")
  /\ FreeThread' = FreeThread \ {t}
  /\ UNCHANGED <<open, ipVars, where, param, tip, total_thread, adminVars>>

(* set_max_per_ip, for one management page at a time: the limit is stored  *)
(* without the lock, and if it is 0 the queues are closed under it.        *)
SetLimit(n) ==
  /\ ~crashed /\ admin = "idle" /\ changes < MaxChanges
  /\ n # max_per_ip
  /\ max_per_ip' = n
  /\ admin' = IF n > 0 THEN "idle" ELSE "clear"
  /\ changes' = changes + 1
  /\ UNCHANGED <<open, ipVars, threadVars, crashed>>

(* The loop steps from an entry it has erased: it finds the next one in    *)
(* the freed memory, or crashes.                                           *)
ClearQueues ==
  /\ ~crashed /\ admin = "clear"
  /\ open' = open \ UNION {Elements(queue[i]) : i \in Ip}
  /\ count' = [i \in Ip |-> 0]
  /\ queue' = [i \in Ip |-> <<>>]
  /\ over' = [i \in Ip |-> 0]
  /\ admin' = "idle"
  /\ crashed' \in {FALSE, \E i \in Ip : count[i] > 0}
  /\ UNCHANGED <<threadVars, max_per_ip, changes>>

-----------------------------------------------------------------------------
Init ==
  /\ open = {}
  /\ count = [i \in Ip |-> 0]
  /\ queue = [i \in Ip |-> <<>>]
  /\ over = [i \in Ip |-> 0]
  /\ where = [t \in Thread |-> "none"]
  /\ cmd = [t \in Thread |-> "NULL"]
  /\ param = [t \in Thread |-> Nil]
  /\ tip = [t \in Thread |-> Nil]
  /\ notice = [t \in Thread |-> FALSE]
  /\ FreeThread = {}
  /\ total_thread = 0
  /\ max_per_ip \in Limits
  /\ admin = "idle" /\ changes = 0 /\ crashed = FALSE

Start(c, i) ==
  \/ Enqueue(c, i) \/ Ban(c, i) \/ Refuse(c, i)
  \/ \E t \in Thread : StartNew(c, i, t) \/ StartFree(c, i, t)

run_thread(t) ==
  Served(t) \/ Again(t) \/ Done(t) \/ Sigwait(t) \/ AwakeToServe(t) \/ AwakeToEnd(t)

(* accept fails: the process has no descriptor left.                       *)
AcceptFails == ~crashed /\ open = Conn /\ UNCHANGED vars

Idle == crashed /\ UNCHANGED vars

Next ==
  \/ \E c \in Conn, i \in Ip : Start(c, i)
  \/ \E t \in Thread : run_thread(t) \/ FlushOne(t)
  \/ \E n \in Limits : SetLimit(n)
  \/ ClearQueues
  \/ AcceptFails
  \/ Idle

Spec == Init /\ [][Next]_vars

(* A connection is served in finite time, because each socket operation    *)
(* has a time-out, and a thread that can go on does.                       *)
FairSpec ==
  /\ Spec
  /\ \A t \in Thread : WF_vars(run_thread(t))
  /\ WF_vars(ClearQueues)
=============================================================================
