------------------------------- MODULE Requests -------------------------------
(***************************************************************************)
(* What a worker thread does with a request before data flow: it has the   *)
(* rules look at the address of the host (allow_connect2), counts the      *)
(* request in the table of net requests if its URL is tracked, and         *)
(* connects.  HTTP connects to the address that was looked at; the SOCKS,  *)
(* mail, telnet, media and redirect services give connect the name, which  *)
(* asks the cache of names again.                                          *)
(***************************************************************************)
EXTENDS NameCache, NetRequests

CONSTANT MaxTime \* bound: of the clock

(* One tracked URL for each host.                                          *)
ASSUME SameAssumption == Client = Thread /\ Url = Name /\ MaxTime \in Nat

VARIABLES
  pc,    \* where each thread is
  job,   \* its request
  moved  \* history: threads whose host has had another address in the cache,
         \* or none, since the rules looked at it

vars == <<clock, nameVars, netVars, pc, job, moved>>

Kind == {"http", "named"}
NoJob == [kind |-> "http", name |-> "", checked |-> NoAddr, dst |-> NoAddr]
Job == [kind : Kind, name : Name, checked : Addr \cup {NoAddr}, dst : Addr \cup {NoAddr}]

Init ==
  /\ clock = 0
  /\ NameInit /\ NetInit
  /\ pc = [t \in Thread |-> "idle"]
  /\ job = [t \in Thread |-> NoJob]
  /\ moved = {}

Goto(t, at) == pc' = [pc EXCEPT ![t] = at]

Leave(t) ==
  /\ Goto(t, "idle")
  /\ job' = [job EXCEPT ![t] = NoJob]
  /\ moved' = moved \ {t}

Accept(t) ==
  /\ pc[t] = "idle"
  /\ \E kind \in Kind, n \in Name :
       job' = [job EXCEPT ![t] = [NoJob EXCEPT !.kind = kind, !.name = n]]
  /\ Goto(t, "check")
  /\ UNCHANGED <<clock, nameVars, netVars, moved>>

(* GetName, for the check and for mysocket::connect.                       *)
GetName(t) ==
  /\ pc[t] \in {"check", "again"}
  /\ LET n == job[t].name
     IN Find(t, n) \/ Resolve(t) \/ Insert(t, n)
  /\ UNCHANGED <<clock, netVars, pc, job, moved>>

EndLook(t) == look' = [look EXCEPT ![t] = NoCall]

(* A name without address ends the request, and so does a rule.            *)
Check(t) ==
  LET n == job[t].name  ip == look[t].ip
  IN /\ pc[t] = "check" /\ Returned(t)
     /\ EndLook(t)
     /\ \/ Leave(t)
        \/ /\ ip # NoAddr
           /\ job' = [job EXCEPT ![t].checked = ip]
           /\ Goto(t, IF job[t].kind = "http" THEN "ask" ELSE "again")
           /\ moved' = IF n \notin Literal /\ m_dns[n].ip # ip THEN moved \cup {t}
                       ELSE moved
     /\ UNCHANGED <<clock, m_dns, netVars>>

Ask(t) ==
  /\ pc[t] = "ask"
  /\ ReadClock(t, job[t].name, clock)
  /\ Goto(t, "start")
  /\ UNCHANGED <<clock, nameVars, job, moved>>

(* get_url finds that the URL is not tracked, or the object is cached.     *)
NotCounted(t) ==
  /\ pc[t] = "ask"
  /\ Goto(t, "connect")
  /\ UNCHANGED <<clock, nameVars, netVars, job, moved>>

Count(t) ==
  /\ pc[t] = "start"
  /\ Start(t)
  /\ Goto(t, IF call'[t].st = "refused" THEN "end" ELSE "connect")
  /\ UNCHANGED <<clock, nameVars, job, moved>>

(* Variant: an HTTP request is connected by name too.                      *)
DstOfCache(t) == IF Cached(job[t].name) THEN m_dns[job[t].name].ip ELSE job[t].checked

Dst(t) == IF job[t].kind = "named" THEN look[t].ip ELSE job[t].checked

Connect(t) ==
  /\ \/ pc[t] = "connect"
     \/ pc[t] = "again" /\ Returned(t)
  /\ EndLook(t)
  /\ IF Dst(t) = NoAddr
     THEN Leave(t)
     ELSE /\ job' = [job EXCEPT ![t].dst = Dst(t)]
          /\ Goto(t, "busy")
          /\ UNCHANGED moved
  /\ UNCHANGED <<clock, m_dns, netVars>>

(* The request is over, or connect failed.                                 *)
Finish(t) ==
  /\ pc[t] \in {"busy", "connect", "end"}
  /\ IF call[t] = Idle THEN UNCHANGED netVars ELSE End(t)
  /\ Leave(t)
  /\ UNCHANGED <<clock, nameVars>>

(* The time thread.                                                        *)
FlushNames ==
  /\ Flush
  /\ moved' = moved \cup {t \in Thread : /\ pc[t] # "idle" /\ job[t].checked # NoAddr
                                         /\ job[t].name \notin Literal
                                         /\ m_dns'[job[t].name] = Absent}
  /\ UNCHANGED <<clock, netVars, pc, job>>

FlushRequests ==
  /\ \E u \in Url, n \in 0..clock : FlushUrl(u, n)
  /\ UNCHANGED <<clock, nameVars, pc, job, moved>>

Tick ==
  /\ clock < MaxTime
  /\ clock' = clock + 1
  /\ UNCHANGED <<nameVars, netVars, pc, job, moved>>

Next ==
  \/ \E t \in Thread :
       \/ Accept(t) \/ GetName(t) \/ Check(t) \/ Ask(t) \/ NotCounted(t) \/ Count(t)
       \/ Connect(t) \/ Finish(t)
  \/ FlushNames \/ FlushRequests \/ Tick

Spec == Init /\ [][Next]_vars

-----------------------------------------------------------------------------
(* Types; a thread that serves a request knows its host.                   *)
TypeOK ==
  /\ clock \in 0..MaxTime
  /\ m_dns \in [Name -> [ip : Addr \cup {NoAddr}, create_time : Nat]]
  /\ look \in [Thread -> [st : {"none", "missed", "found", "done"},
                          ip : Addr \cup {NoAddr}, at : Nat]]
  /\ net_table \in [Url -> [refs : Int, last_access : Nat, ips : Seq(Nat)]]
  /\ call \in [Client -> [st : {"idle", "asked", "refused", "let_through"},
                          url : Url \cup {""}, now_time : Nat]]
  /\ taken \in [Url -> Seq(Nat)] /\ late \subseteq Url
  /\ pc \in [Thread -> {"idle", "check", "ask", "start", "connect", "again", "busy", "end"}]
  /\ job \in [Thread -> Job \cup {NoJob}]
  /\ moved \subseteq Thread
  /\ \A t \in Thread : pc[t] # "idle" => job[t] \in Job

(* flush_net_request never deletes an object that a request still points   *)
(* to (net_request_end would count down in freed memory), and no request   *)
(* is left in refs, which would keep the object for ever.                  *)
UsersAreCounted ==
  \A u \in Url :
    LET users == {t \in Thread : call[t].st \in {"refused", "let_through"} /\ call[t].url = u}
    IN IF net_table[u] = Null THEN users = {} ELSE net_table[u].refs = Cardinality(users)

(* max_request + 1 requests of one URL that are all let through are spread *)
(* over total_seconds at least, although flush_net_request forgets the     *)
(* object in between, unless a thread was so slow from the clock to the    *)
(* list that another one or the flush came before it with a later time.    *)
BurstIsBounded ==
  \A u \in Url \ late :
    Len(taken[u]) > MaxRequest => taken[u][MaxRequest + 1] - taken[u][1] >= TotalSeconds

(* The address a connection goes to is the one the rules were asked about, *)
(* by the two look-ups of the services that connect by name too, as long   *)
(* as no look-up of another thread won the race to the cache and Flush did *)
(* not drop the name in between.                                           *)
ConnectsToChecked ==
  \A t \in Thread :
    pc[t] = "busy" /\ job[t].dst # job[t].checked => job[t].kind = "named" /\ t \in moved
=============================================================================
