------------------------------ MODULE NameCache ------------------------------
(***************************************************************************)
(* KDnsCache (src/src/KDnsCache.cpp): the addresses of host names, shared  *)
(* by all threads.  The mutex of the cache is held for a look-up in the    *)
(* map, for an insert and for Flush, and not while the resolver is asked,  *)
(* so that other threads run between a miss and its insert.                *)
(***************************************************************************)
EXTENDS Integers

CONSTANTS
  Thread,  \* threads that call GetName
  Name,    \* host names
  Literal, \* those that are written as an address
  Addr,    \* addresses
  MaxAge   \* max_avail_time

NoAddr == 0  \* what GetName returns for a name that cannot be resolved

ASSUME NameAssumption ==
  /\ Literal \subseteq Name /\ Literal \subseteq Addr
  /\ NoAddr \notin Addr /\ MaxAge \in Nat

VARIABLES
  clock, \* time(NULL)
  m_dns, \* the map: a record for each name that is in it
  look   \* the call of GetName of each thread

nameVars == <<m_dns, look>>

Absent == [ip |-> NoAddr, create_time |-> 0]
Cached(n) == m_dns[n].ip # NoAddr
NoCall == [st |-> "none", ip |-> NoAddr, at |-> 0]

NameInit ==
  /\ m_dns = [n \in Name |-> Absent]
  /\ look = [t \in Thread |-> NoCall]

Returned(t) == look[t].st = "done"
Returns(t, ip) == look' = [look EXCEPT ![t] = [NoCall EXCEPT !.st = "done", !.ip = ip]]

(* A name of digits and points is its own address and is never cached.     *)
Find(t, n) ==
  /\ look[t].st = "none"
  /\ IF n \in Literal THEN Returns(t, n)
     ELSE IF Cached(n) THEN Returns(t, m_dns[n].ip)
     ELSE look' = [look EXCEPT ![t].st = "missed"]
  /\ UNCHANGED m_dns

(* gethostbyname: one of the addresses of the host, or a failure.          *)
Resolve(t) ==
  /\ look[t].st = "missed"
  /\ \/ Returns(t, NoAddr)
     \/ \E ip \in Addr :
          look' = [look EXCEPT ![t] = [st |-> "found", ip |-> ip, at |-> clock]]
  /\ UNCHANGED m_dns

(* Variant: a later answer replaces the one that is there.                 *)
MapAssign(n, rec) == [m_dns EXCEPT ![n] = rec]

(* map::insert leaves an entry that is there alone.                        *)
MapInsert(n, rec) == IF Cached(n) THEN m_dns ELSE [m_dns EXCEPT ![n] = rec]

(* The thread that lost the race returns its own answer all the same.      *)
Insert(t, n) ==
  /\ look[t].st = "found"
  /\ m_dns' = MapInsert(n, [ip |-> look[t].ip, create_time |-> look[t].at])
  /\ Returns(t, look[t].ip)

TooOld(n, now_time) == Cached(n) /\ now_time - m_dns[n].create_time > MaxAge

(* The iterator is moved on after its entry is erased, and so is left      *)
(* without a node to move on from: it may pass over any of the others.     *)
Flush ==
  LET old == {n \in Name : TooOld(n, clock)}
  IN /\ old # {}
     /\ \E S \in SUBSET old \ {{}} :
          m_dns' = [n \in Name |-> IF n \in S THEN Absent ELSE m_dns[n]]
     /\ UNCHANGED look
=============================================================================
