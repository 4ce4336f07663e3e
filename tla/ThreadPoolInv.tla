--------------------------- MODULE ThreadPoolInv ---------------------------
(***************************************************************************)
(* What the thread pool must guarantee.                                    *)
(***************************************************************************)
EXTENDS ThreadPool

(* Types of the variables.  total_thread never is negative, which the      *)
(* accept loop calls a bug and repairs (utils.cpp:609), and no count of an *)
(* IP is.                                                                  *)
TypeOK ==
  /\ open \subseteq Conn
  /\ count \in [Ip -> Nat] /\ over \in [Ip -> Nat]
  /\ queue \in [Ip -> Seq(Conn)]
  /\ where \in [Thread -> {"none", "serving", "ending", "parked", "waiting"}]
  /\ cmd \in [Thread -> {"NULL", "START", "END"}]
  /\ param \in [Thread -> Conn \cup {Nil}]
  /\ tip \in [Thread -> Ip \cup {Nil}]
  /\ notice \in [Thread -> BOOLEAN]
  /\ FreeThread \subseteq Thread
  /\ total_thread \in Nat
  /\ max_per_ip \in Limits /\ admin \in {"idle", "clear"} /\ changes \in Nat
  /\ crashed \in BOOLEAN

(* total_thread, which limits the connections served at one time, is the   *)
(* number of threads that have one, between any two critical sections.     *)
TotalIsBusy == total_thread = Cardinality({t \in Thread : Busy(t)})

(* A thread in FreeThread has no command and no signal, and one that was   *)
(* taken from it has both until it awakes: no wake-up is lost, none comes  *)
(* twice, and nobody awakes without a command ("kingate closed or bug").   *)
NoticeKept ==
  \A t \in Thread :
    /\ t \in FreeThread <=> where[t] \in {"parked", "waiting"} /\ cmd[t] = "NULL"
    /\ notice[t] <=> where[t] \in {"parked", "waiting"} /\ cmd[t] # "NULL"
    /\ where[t] \in {"serving", "ending"} => cmd[t] = "START"

(* An open connection is waiting in one place of one queue or belongs to   *)
(* one thread, and only open connections do: none is lost, none is served  *)
(* twice or after it was closed, when threads end, queues are closed and   *)
(* entries of m_ip are erased.                                             *)
Queued(i, k, c) == k \in DOMAIN queue[i] /\ queue[i][k] = c
Has(t, c) == param[t] = c

EveryConnOnce ==
  \A c \in Conn :
    /\ c \in open <=> \/ \E i \in Ip : \E k \in DOMAIN queue[i] : Queued(i, k, c)
                      \/ \E t \in Thread : Has(t, c)
    /\ \A i, j \in Ip : \A k \in DOMAIN queue[i], m \in DOMAIN queue[j] :
         Queued(i, k, c) /\ Queued(j, m, c) => i = j /\ k = m
    /\ \A i \in Ip : \A k \in DOMAIN queue[i], t \in Thread :
         ~(Queued(i, k, c) /\ Has(t, c))
    /\ \A t, u \in Thread : Has(t, c) /\ Has(u, c) => t = u

(* Of the connections counted for an IP, those that do not wait are being  *)
(* served, or were refused and never taken back: there are at least one    *)
(* and at most that many, and no count is negative, although threads that  *)
(* were not counted also end.  So an entry with a queue is never erased by     *)
(* dec_per_ip, and where nothing was refused somebody will serve it.       *)
CountCovers ==
  \A i \in Ip :
    /\ count[i] >= 0
    /\ count[i] = 0 => queue[i] = <<>> /\ over[i] = 0
    /\ count[i] > 0 => Len(queue[i]) < count[i]
    /\ max_per_ip > 0 => count[i] - Len(queue[i]) <= Cardinality(Serving(i)) + over[i]
    /\ max_per_ip = 0 /\ admin = "idle" => count[i] = 0

(* A thread that serves, or will, knows for which IP, and a thread has a   *)
(* connection only from the moment it is given one until it closes it.     *)
Owners ==
  \A t \in Thread :
    /\ Busy(t) => tip[t] \in Ip
    /\ param[t] # Nil => Busy(t) /\ where[t] # "ending"

(* The inductive invariant.                                                *)
IInv ==
  TypeOK /\ TotalIsBusy /\ NoticeKept /\ Owners /\ CountCovers /\ EveryConnOnce

(* The threads with a connection, and the connections in service.          *)
Working == {t \in Thread : param[t] # Nil}
Service == {<<param[t], tip[t]>> : t \in Working}

(* The pool keeps the promise of Admission: connections of one address are *)
(* served in the order they came, nobody overtakes the queue of his IP as  *)
(* long as max_per_ip is not changed (raising it lets the next one pass    *)
(* those that wait), and never more than conf.max are served at a time,    *)
(* although dec_per_ip starts one without looking at total_thread.         *)
Line == INSTANCE Admission WITH
          line <- queue, service <- Service, steady <- (changes = 0)

PoolIsAdmission == Line!Spec

(* What this rests on: there are never too many threads, and an IP that    *)
(* has a queue is over the limit under which it was queued.                *)
WithinLimits ==
  /\ total_thread <= Max
  /\ changes = 0 =>
       \A i \in Ip : queue[i] # <<>> =>
         max_per_ip > 0 /\ count[i] >= max_per_ip + Len(queue[i])

(* Every accepted connection is served and closed in the end, also one     *)
(* that waits in a queue, unless refused connections fill up the count of  *)
(* its IP.                                                                 *)
ConnectionsEnd ==
  \A c \in Conn :
    c \in open ~> \/ c \notin open \/ crashed
                  \/ \E i \in Ip : over[i] > 0 /\ c \in Elements(queue[i])

-----------------------------------------------------------------------------
(* KThreadPool.cpp:331: a connection is not served at once only because of *)
(* the limit for its IP, that is, when so many threads serve the IP.       *)
RefusedAtLimit ==
  [][\A i \in Ip : Len(queue'[i]) > Len(queue[i])
                    => Cardinality(Serving(i)) >= max_per_ip]_vars
=============================================================================
