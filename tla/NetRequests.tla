----------------------------- MODULE NetRequests -----------------------------
(***************************************************************************)
(* The table of requests that go to the network ("anti fatboy ddos"):      *)
(* net_request_start, net_request_end and flush_net_request of             *)
(* src/src/run_client.cpp, and net_obj of src/src/oops.h.  A tracked URL   *)
(* has an object with the times of its last max_request requests.  Each    *)
(* function holds the lock of a bucket while it uses the list of the       *)
(* bucket, but reads the clock before it takes that lock.                  *)
(***************************************************************************)
EXTENDS Integers, Sequences, FiniteSets

CONSTANTS
  Client,      \* threads that serve a client
  Url,         \* what get_url makes of the tracked URLs
  MaxRequest,  \* conf.max_request
  TotalSeconds \* conf.total_seconds

(* With max_request 0 the list would be emptied and its front read.        *)
ASSUME RequestAssumption ==
  MaxRequest \in Nat \ {0} /\ TotalSeconds \in Nat /\ IsFiniteSet(Client)

VARIABLES
  net_table, \* the object of each URL, or Null
  call,      \* the request of each thread
  taken,     \* history: the times of the last requests of a URL that were let through
  late       \* history: URLs whose list has had a time put behind a later one

netVars == <<net_table, call, taken, late>>

Null == [refs |-> -1, last_access |-> 0, ips |-> <<>>]
Idle == [st |-> "idle", url |-> "", now_time |-> 0]

NetInit ==
  /\ net_table = [u \in Url |-> Null]
  /\ call = [t \in Client |-> Idle]
  /\ taken = [u \in Url |-> <<>>]
  /\ late = {}

(* Variant: nothing is popped.                                             *)
Whole(s, n) == s

(* The last n elements.                                                    *)
Last(s, n) == IF Len(s) > n THEN SubSeq(s, Len(s) - n + 1, Len(s)) ELSE s

(* now_time=time(NULL), before the lock.                                   *)
ReadClock(t, u, clock) ==
  /\ call[t] = Idle
  /\ call' = [call EXCEPT ![t] = [st |-> "asked", url |-> u, now_time |-> clock]]
  /\ UNCHANGED <<net_table, taken, late>>

(* total_time, with this request already at the end of the list.           *)
Since(ips, now_time) ==
  IF Len(ips) > MaxRequest THEN now_time - Head(Last(ips, MaxRequest)) ELSE -1

Fatboy(ips, now_time) ==
  Since(ips, now_time) >= 0 /\ Since(ips, now_time) < TotalSeconds

Start(t) ==
  LET u   == call[t].url
      n   == call[t].now_time
      obj == net_table[u]
      ips == Append(obj.ips, n)
      fat == Fatboy(ips, n)
  IN /\ call[t].st = "asked"
     /\ net_table' = [net_table EXCEPT ![u] =
          IF obj = Null
          THEN [refs |-> 1, last_access |-> n, ips |-> <<n>>]
          ELSE [refs |-> obj.refs + 1, last_access |-> n, ips |-> Last(ips, MaxRequest)]]
     /\ call' = [call EXCEPT ![t].st = IF fat THEN "refused" ELSE "let_through"]
     /\ taken' = IF fat THEN taken
                 ELSE [taken EXCEPT ![u] = Last(Append(@, n), MaxRequest + 1)]
     /\ late' = IF \E i \in DOMAIN obj.ips : obj.ips[i] > n THEN late \cup {u} ELSE late

(* Variant: a refused request is not taken for one that uses the object.   *)
EndLetThrough(t) ==
  [net_table EXCEPT ![call[t].url].refs = IF call[t].st = "refused" THEN @ ELSE @ - 1]

Release(t) == [net_table EXCEPT ![call[t].url].refs = @ - 1]

End(t) ==
  /\ call[t].st \in {"refused", "let_through"}
  /\ net_table' = Release(t)
  /\ call' = [call EXCEPT ![t] = Idle]
  /\ UNCHANGED <<taken, late>>

(* Variant: an object that nobody uses is deleted at once.                 *)
Unused(obj, now_time) == obj.refs = 0

Expired(obj, now_time) == obj.refs = 0 /\ now_time - obj.last_access > TotalSeconds

(* The time thread, with the time that it read before the first bucket.    *)
FlushUrl(u, now_time) ==
  /\ Expired(net_table[u], now_time)
  /\ net_table' = [net_table EXCEPT ![u] = Null]
  /\ late' = IF \E t \in Client : call[t].st = "asked" /\ call[t].url = u
             THEN late \cup {u} ELSE late
  /\ UNCHANGED <<call, taken>>
=============================================================================
