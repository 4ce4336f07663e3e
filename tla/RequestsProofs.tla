---------------------------- MODULE RequestsProofs ----------------------------
(***************************************************************************)
(* Theorems about the requests before data flow, for all sets of threads,  *)
(* names and addresses, all limits and all lengths of the run.             *)
(***************************************************************************)
EXTENDS Requests, FiniteSetTheorems, SequenceTheorems, TLAPS

(* What a thread has, by where it is.                                      *)
Stage(t) ==
  /\ pc[t] \notin {"check", "again"} => look[t] = NoCall
  /\ pc[t] \in {"idle", "check", "ask", "again"} => call[t] = Idle
  /\ pc[t] = "start" => call[t].st = "asked"
  /\ pc[t] \in {"connect", "busy"} => call[t].st \in {"idle", "let_through"}
  /\ pc[t] = "end" => call[t].st = "refused"
  /\ call[t].st # "idle" => call[t].url \in Url
  /\ pc[t] \in {"ask", "start", "connect"} =>
       job[t].kind = "http" /\ job[t].checked # NoAddr
  /\ pc[t] = "again" => job[t].kind = "named" /\ job[t].checked # NoAddr
  /\ pc[t] = "check" /\ job[t].name \in Literal /\ look[t].st # "none" =>
       look[t].st = "done" /\ look[t].ip = job[t].name

Stages == \A t \in Thread : Stage(t)

LEMMA LastType ==
  ASSUME NEW s \in Seq(Nat), NEW n \in Nat
  PROVE  /\ Last(s, n) \in Seq(Nat)
         /\ Len(Last(s, n)) = IF Len(s) > n THEN n ELSE Len(s)
         /\ \A i \in 1..Len(Last(s, n)) :
              Last(s, n)[i] = s[i + Len(s) - Len(Last(s, n))]
<1>1. CASE Len(s) > n
  <2>1. Last(s, n) = SubSeq(s, Len(s) - n + 1, Len(s))
    BY <1>1 DEF Last
  <2>2. Len(s) - n + 1 \in 1..Len(s) + 1 /\ Len(s) \in 0..Len(s) /\ Len(s) \in Nat
    BY <1>1
  <2>3. /\ SubSeq(s, Len(s) - n + 1, Len(s)) \in Seq(Nat)
        /\ Len(SubSeq(s, Len(s) - n + 1, Len(s))) = n
        /\ \A i \in 1..n : SubSeq(s, Len(s) - n + 1, Len(s))[i] = s[i + Len(s) - n]
    BY <1>1, <2>2
  <2> QED BY <1>1, <2>1, <2>3
<1>2. CASE ~(Len(s) > n)
  BY <1>2 DEF Last
<1> QED BY <1>1, <1>2

-----------------------------------------------------------------------------
(* The conjuncts of TypeOK, by the kind of record.                         *)
Entry == [ip : Addr \cup {NoAddr}, create_time : Nat]
Look == [st : {"none", "missed", "found", "done"}, ip : Addr \cup {NoAddr}, at : Nat]
NetObj == [refs : Int, last_access : Nat, ips : Seq(Nat)]
Call == [st : {"idle", "asked", "refused", "let_through"},
         url : Url \cup {""}, now_time : Nat]

NamesOK == m_dns \in [Name -> Entry] /\ look \in [Thread -> Look]
TableOK == net_table \in [Url -> NetObj] /\ call \in [Client -> Call]
HistoryOK == taken \in [Url -> Seq(Nat)] /\ late \subseteq Url
JobsOK ==
  /\ pc \in [Thread -> {"idle", "check", "ask", "start", "connect", "again", "busy", "end"}]
  /\ job \in [Thread -> Job \cup {NoJob}]
  /\ moved \subseteq Thread
  /\ \A t \in Thread : pc[t] # "idle" => job[t] \in Job

LEMMA TypeParts ==
  TypeOK <=> clock \in 0..MaxTime /\ NamesOK /\ TableOK /\ HistoryOK /\ JobsOK
BY DEF TypeOK, NamesOK, TableOK, HistoryOK, JobsOK, Entry, Look, NetObj, Call

LEMMA EmptyRecords == Idle \in Call /\ Null \in NetObj /\ <<>> \in Seq(Nat)
<1>1. <<>> \in Seq(Nat) /\ -1 \in Int
  OBVIOUS
<1>2. Null \in NetObj
  BY <1>1 DEF Null, NetObj
<1>3. Idle \in Call
  BY DEF Idle, Call
<1> QED BY <1>1, <1>2, <1>3

LEMMA RefsType ==
  ASSUME NEW obj \in NetObj
  PROVE  [obj EXCEPT !.refs = @ - 1] \in NetObj
<1>1. obj.refs \in Int /\ obj.refs - 1 \in Int
  BY DEF NetObj
<1> DEFINE r == obj.refs - 1
<1>2. r \in Int
  BY <1>1
<1> HIDE DEF r
<1>3. [obj EXCEPT !.refs = r] \in NetObj
  BY <1>2 DEF NetObj
<1> QED BY <1>3 DEF r

LEMMA InitType == Init => TypeOK /\ Stages
<1> SUFFICES ASSUME Init PROVE TypeOK /\ Stages
  OBVIOUS
<1> USE NameAssumption, RequestAssumption, SameAssumption DEF Init
<1>1. NamesOK
  BY DEF NameInit, NamesOK, Entry, Look, NoCall, Absent
<1>2. TableOK /\ HistoryOK
  BY EmptyRecords DEF NetInit, TableOK, HistoryOK
<1>3. JobsOK
  BY DEF JobsOK
<1>4. Stages
  BY DEF NameInit, NetInit, Stages, Stage, Idle
<1> QED BY <1>1, <1>2, <1>3, <1>4, TypeParts

LEMMA NamesStep ==
  ASSUME clock \in Nat, NamesOK, JobsOK, [Next]_vars
  PROVE  NamesOK'
<1> USE NameAssumption, SameAssumption DEF NamesOK
<1>1. NoCall \in Look /\ Absent \in Entry
  BY DEF NoCall, Look, Absent, Entry
<1>2. ASSUME NEW t \in Thread, NEW ip \in Addr \cup {NoAddr}, Returns(t, ip)
      PROVE  look' \in [Thread -> Look]
  <2>1. [NoCall EXCEPT !.st = "done", !.ip = ip] \in Look
    BY DEF NoCall, Look
  <2> QED BY <1>2, <2>1 DEF Returns
<1>3. ASSUME NEW t \in Thread, GetName(t) PROVE NamesOK'
  <2> DEFINE n == job[t].name
  <2>1. n \in Name
    BY <1>3 DEF GetName, JobsOK, Job
  <2>2. CASE Find(t, n)
    <3>1. CASE n \in Literal
      BY <1>2, <2>1, <2>2, <3>1 DEF Find
    <3>2. CASE n \notin Literal /\ Cached(n)
      BY <1>2, <2>1, <2>2, <3>2 DEF Find, Entry
    <3>3. CASE n \notin Literal /\ ~Cached(n)
      <4>1. look' = [look EXCEPT ![t].st = "missed"] /\ m_dns' = m_dns
        BY <2>2, <3>3 DEF Find
      <4> QED BY <4>1 DEF Look
    <3> QED BY <3>1, <3>2, <3>3
  <2>3. CASE Resolve(t)
    <3>1. CASE Returns(t, NoAddr)
      BY <1>2, <2>3, <3>1 DEF Resolve
    <3>2. ASSUME NEW ip \in Addr,
                 look' = [look EXCEPT ![t] = [st |-> "found", ip |-> ip, at |-> clock]]
          PROVE NamesOK'
      BY <2>3, <3>2 DEF Resolve, Look
    <3> QED BY <2>3, <3>1, <3>2 DEF Resolve
  <2>4. CASE Insert(t, n)
    <3>1. [ip |-> look[t].ip, create_time |-> look[t].at] \in Entry
          /\ look[t].ip \in Addr \cup {NoAddr}
      BY DEF Entry, Look
    <3>2. m_dns' \in [Name -> Entry]
      BY <2>1, <2>4, <3>1 DEF Insert, MapInsert
    <3> QED BY <1>2, <2>4, <3>1, <3>2 DEF Insert
  <2> QED BY <1>3, <2>2, <2>3, <2>4 DEF GetName
<1>4. ASSUME NEW t \in Thread, Check(t) \/ Connect(t) PROVE NamesOK'
  BY <1>1, <1>4 DEF Check, Connect, EndLook
<1>5. CASE FlushNames
  BY <1>1, <1>5 DEF FlushNames, Flush
<1>6. CASE UNCHANGED nameVars
  BY <1>6 DEF nameVars
<1> QED
  BY <1>3, <1>4, <1>5, <1>6
     DEF Next, vars, Accept, Ask, NotCounted, Count, Finish, FlushRequests, Tick, nameVars

LEMMA TableStep ==
  ASSUME clock \in Nat, TableOK, HistoryOK, JobsOK, Stages, [Next]_vars
  PROVE  TableOK' /\ HistoryOK'
<1> USE RequestAssumption, SameAssumption DEF TableOK, HistoryOK
<1>1. Idle \in Call /\ Null \in NetObj
  BY EmptyRecords
<1>2. ASSUME NEW t \in Thread, Ask(t) PROVE TableOK' /\ HistoryOK'
  <2>1. [st |-> "asked", url |-> job[t].name, now_time |-> clock] \in Call
    BY <1>2 DEF Ask, JobsOK, Job, Call
  <2> QED BY <1>2, <2>1 DEF Ask, ReadClock
<1>3. ASSUME NEW t \in Thread, Count(t) PROVE TableOK' /\ HistoryOK'
  <2> DEFINE u == call[t].url
             n == call[t].now_time
             old == net_table[u]
             ips == Append(old.ips, n)
  <2>1. u \in Url /\ n \in Nat
    BY <1>3 DEF Count, Start, Stages, Stage, Call
  <2>2. old.ips \in Seq(Nat) /\ old.refs \in Int
    BY <2>1 DEF NetObj
  <2>3. Last(ips, MaxRequest) \in Seq(Nat) /\ <<n>> \in Seq(Nat)
    <3>1. ips \in Seq(Nat) /\ MaxRequest \in Nat
      BY <2>1, <2>2
    <3>2. Last(ips, MaxRequest) \in Seq(Nat)
      BY <3>1, LastType
    <3>3. <<n>> \in Seq(Nat)
      BY <2>1
    <3> QED BY <3>2, <3>3
  <2>4. Append(taken[u], n) \in Seq(Nat) /\ MaxRequest + 1 \in Nat
    BY <2>1
  <2>5. Last(Append(taken[u], n), MaxRequest + 1) \in Seq(Nat)
    BY <2>4, LastType
  <2>6. /\ [refs |-> 1, last_access |-> n, ips |-> <<n>>] \in NetObj
        /\ [refs |-> old.refs + 1, last_access |-> n, ips |-> Last(ips, MaxRequest)] \in NetObj
    BY <2>1, <2>2, <2>3 DEF NetObj
  <2>7. net_table' \in [Url -> NetObj]
    BY <1>3, <2>1, <2>6 DEF Count, Start
  <2>8. taken' \in [Url -> Seq(Nat)]
    BY <1>3, <2>1, <2>5 DEF Count, Start
  <2>9. late' \subseteq Url
    BY <1>3, <2>1 DEF Count, Start
  <2>10. /\ [call[t] EXCEPT !.st = "refused"] \in Call
         /\ [call[t] EXCEPT !.st = "let_through"] \in Call
    <3>1. call[t] \in Call
      OBVIOUS
    <3> QED BY <3>1 DEF Call
  <2>11. call' \in [Client -> Call]
    BY <1>3, <2>10 DEF Count, Start
  <2> QED BY <2>7, <2>8, <2>9, <2>11
<1>4. ASSUME NEW t \in Thread, Finish(t) PROVE TableOK' /\ HistoryOK'
  <2>1. CASE End(t)
    <3>1. call[t].url \in Url
      BY <2>1 DEF End, Stages, Stage
    <3>2. net_table[call[t].url] \in NetObj
      BY <3>1
    <3>3. [net_table[call[t].url] EXCEPT !.refs = @ - 1] \in NetObj
      BY <3>2, RefsType
    <3> QED BY <1>1, <2>1, <3>1, <3>3 DEF End, Release
  <2>2. CASE UNCHANGED netVars
    BY <2>2 DEF netVars
  <2> QED BY <1>4, <2>1, <2>2 DEF Finish
<1>5. CASE FlushRequests
  BY <1>1, <1>5 DEF FlushRequests, FlushUrl
<1>6. CASE UNCHANGED netVars
  BY <1>6 DEF netVars
<1> QED
  BY <1>2, <1>3, <1>4, <1>5, <1>6
     DEF Next, vars, Accept, GetName, Check, NotCounted, Connect, FlushNames, Tick, netVars

LEMMA JobsStep ==
  ASSUME NamesOK, JobsOK, [Next]_vars
  PROVE  JobsOK'
<1> USE NameAssumption DEF JobsOK
<1>1. ASSUME NEW t \in Thread, Leave(t) PROVE JobsOK'
  BY <1>1 DEF Leave, Goto
<1>2. ASSUME NEW t \in Thread, NEW at, Goto(t, at),
             at \in {"ask", "start", "connect", "again", "end"}, job' = job,
             moved' = moved, pc[t] # "idle"
      PROVE  JobsOK'
  BY <1>2 DEF Goto
<1>3. ASSUME NEW t \in Thread, Accept(t) PROVE JobsOK'
  <2>1. PICK kind \in Kind, n \in Name :
          job' = [job EXCEPT ![t] = [NoJob EXCEPT !.kind = kind, !.name = n]]
    BY <1>3 DEF Accept
  <2>2. [NoJob EXCEPT !.kind = kind, !.name = n] \in Job
    BY DEF NoJob, Job
  <2> QED BY <1>3, <2>1, <2>2 DEF Accept, Goto
<1>4. ASSUME NEW t \in Thread, Check(t) PROVE JobsOK'
  <2>1. CASE Leave(t)
    BY <1>1, <2>1
  <2>2. CASE ~Leave(t)
    <3>1. look[t].ip \in Addr \cup {NoAddr} /\ job[t] \in Job
      BY <1>4 DEF Check, NamesOK, Look
    <3>2. [job[t] EXCEPT !.checked = look[t].ip] \in Job
      BY <3>1 DEF Job
    <3>3. job' = [job EXCEPT ![t] = [job[t] EXCEPT !.checked = look[t].ip]]
      BY <1>4, <2>2 DEF Check
    <3>4. moved' \subseteq Thread
      BY <1>4, <2>2 DEF Check
    <3>5. pc' = [pc EXCEPT ![t] = IF job[t].kind = "http" THEN "ask" ELSE "again"]
      BY <1>4, <2>2 DEF Check, Goto
    <3> QED BY <3>2, <3>3, <3>4, <3>5
  <2> QED BY <2>1, <2>2
<1>5. ASSUME NEW t \in Thread, Connect(t) PROVE JobsOK'
  <2>1. CASE Leave(t)
    BY <1>1, <2>1
  <2>2. CASE ~Leave(t)
    <3>1. Dst(t) \in Addr \cup {NoAddr} /\ job[t] \in Job
      BY <1>5 DEF Connect, Dst, Job, NamesOK, Look
    <3>2. [job[t] EXCEPT !.dst = Dst(t)] \in Job
      BY <3>1 DEF Job
    <3>3. /\ job' = [job EXCEPT ![t] = [job[t] EXCEPT !.dst = Dst(t)]]
          /\ pc' = [pc EXCEPT ![t] = "busy"] /\ moved' = moved
      BY <1>5, <2>2 DEF Connect, Goto
    <3> QED BY <3>2, <3>3
  <2> QED BY <2>1, <2>2
<1>6. ASSUME NEW t \in Thread, Ask(t) \/ NotCounted(t) \/ Count(t) PROVE JobsOK'
  BY <1>2, <1>6 DEF Ask, NotCounted, Count
<1>7. ASSUME NEW t \in Thread, Finish(t) PROVE JobsOK'
  BY <1>1, <1>7 DEF Finish
<1>8. CASE FlushNames
  BY <1>8 DEF FlushNames
<1>9. CASE UNCHANGED <<pc, job, moved>>
  BY <1>9
<1> QED
  BY <1>3, <1>4, <1>5, <1>6, <1>7, <1>8, <1>9
     DEF Next, vars, GetName, FlushRequests, Tick

LEMMA TypeStep ==
  ASSUME TypeOK, Stages, [Next]_vars
  PROVE  TypeOK'
<1>1. clock \in 0..MaxTime /\ NamesOK /\ TableOK /\ HistoryOK /\ JobsOK
  BY TypeParts
<1>2. clock' \in 0..MaxTime
  <2>1. CASE Tick
    BY <1>1, <2>1, SameAssumption DEF Tick
  <2>2. CASE UNCHANGED clock
    BY <1>1, <2>2
  <2> QED
    BY <2>1, <2>2 DEF Next, vars, Accept, GetName, Check, Ask, NotCounted, Count, Connect,
                      Finish, FlushNames, FlushRequests
<1>3. NamesOK' /\ TableOK' /\ HistoryOK' /\ JobsOK'
  BY <1>1, NamesStep, TableStep, JobsStep
<1> QED
  BY <1>2, <1>3 DEF TypeOK, NamesOK, TableOK, HistoryOK, JobsOK, Entry, Look, NetObj, Call

LEMMA StagesStep ==
  ASSUME TypeOK, Stages, [Next]_vars
  PROVE  Stages'
<1> SUFFICES ASSUME NEW t \in Thread PROVE Stage(t)'
  BY DEF Stages, Stage
<1> USE NameAssumption, SameAssumption
<1>0. Idle.st = "idle" /\ NoCall.st = "none"
  BY DEF Idle, NoCall
<1>1. NamesOK /\ TableOK /\ JobsOK /\ Stage(t)
  BY TypeParts DEF Stages, Stage
<1>2. CASE look'[t] = look[t] /\ call'[t] = call[t] /\ pc'[t] = pc[t] /\ job'[t] = job[t]
  BY <1>1, <1>2 DEF Stage
<1>3. ASSUME NEW v \in Thread, v # t,
             \/ Accept(v) \/ GetName(v) \/ Check(v) \/ Ask(v) \/ NotCounted(v)
             \/ Count(v) \/ Connect(v) \/ Finish(v)
      PROVE  look'[t] = look[t] /\ call'[t] = call[t] /\ pc'[t] = pc[t] /\ job'[t] = job[t]
  BY <1>1, <1>3
     DEF NamesOK, TableOK, JobsOK, Accept, GetName, Find, Resolve, Insert, Returns, Check,
         Ask, ReadClock, NotCounted, Count, Start, Connect, Finish, End, Leave, Goto,
         EndLook, nameVars, netVars
<1>4. CASE FlushNames \/ FlushRequests \/ Tick \/ UNCHANGED vars
  BY <1>2, <1>4 DEF FlushNames, Flush, FlushRequests, FlushUrl, Tick, vars, nameVars, netVars
<1>5. CASE Accept(t)
  <2>1. /\ pc'[t] = "check" /\ pc[t] = "idle" /\ look'[t] = look[t] /\ call'[t] = call[t]
    BY <1>1, <1>5 DEF Accept, Goto, JobsOK, nameVars, netVars
  <2> QED BY <1>0, <1>1, <2>1 DEF Stage
<1>6. CASE GetName(t)
  <2>1. /\ pc'[t] = pc[t] /\ pc[t] \in {"check", "again"}
        /\ call'[t] = call[t] /\ job'[t] = job[t]
    BY <1>6 DEF GetName, netVars
  <2>2. job[t].name \in Literal => \/ look'[t].st = "done" /\ look'[t].ip = job[t].name
                                   \/ pc[t] = "again"
    <3>1. CASE Find(t, job[t].name)
      BY <1>1, <3>1 DEF Find, Returns, NamesOK, NoCall
    <3>2. CASE Resolve(t) \/ Insert(t, job[t].name)
      BY <1>1, <2>1, <3>2 DEF Resolve, Insert, Stage
    <3> QED BY <1>6, <3>1, <3>2 DEF GetName
  <2> QED BY <1>1, <2>1, <2>2 DEF Stage
<1>7. CASE Check(t)
  <2>1. look'[t] = NoCall /\ call'[t] = call[t] /\ pc[t] = "check"
    BY <1>1, <1>7 DEF Check, EndLook, NamesOK, netVars
  <2>2. CASE Leave(t)
    <3>1. pc'[t] = "idle"
      BY <1>1, <2>2 DEF Leave, Goto, JobsOK
    <3> QED BY <1>0, <1>1, <2>1, <3>1 DEF Stage
  <2>3. CASE ~Leave(t)
    <3>1. /\ job'[t] = [job[t] EXCEPT !.checked = look[t].ip] /\ look[t].ip # NoAddr
          /\ pc'[t] = IF job[t].kind = "http" THEN "ask" ELSE "again"
          /\ job[t] \in Job
      BY <1>1, <1>7, <2>3 DEF Check, Goto, JobsOK
    <3>2. job'[t].kind = job[t].kind /\ job'[t].checked # NoAddr /\ job[t].kind \in Kind
      BY <3>1 DEF Job
    <3> QED BY <1>0, <1>1, <2>1, <3>1, <3>2 DEF Stage, Kind
  <2> QED BY <2>2, <2>3
<1>8. CASE Ask(t)
  <2>1. /\ call'[t].st = "asked" /\ call'[t].url = job[t].name /\ job[t] \in Job
        /\ pc'[t] = "start" /\ pc[t] = "ask" /\ job'[t] = job[t] /\ look'[t] = look[t]
    BY <1>1, <1>8 DEF Ask, ReadClock, Goto, TableOK, JobsOK, nameVars
  <2> QED BY <1>1, <2>1 DEF Stage, Job
<1>9. CASE NotCounted(t)
  <2>1. /\ pc'[t] = "connect" /\ pc[t] = "ask"
        /\ call'[t] = call[t] /\ job'[t] = job[t] /\ look'[t] = look[t]
    BY <1>1, <1>9 DEF NotCounted, Goto, JobsOK, nameVars, netVars
  <2> QED BY <1>0, <1>1, <2>1 DEF Stage
<1>10. CASE Count(t)
  <2>1. /\ call'[t].st \in {"refused", "let_through"} /\ call'[t].url = call[t].url
        /\ pc'[t] = IF call'[t].st = "refused" THEN "end" ELSE "connect"
        /\ pc[t] = "start" /\ job'[t] = job[t] /\ look'[t] = look[t]
    BY <1>1, <1>10 DEF Count, Start, Goto, JobsOK, TableOK, Call, nameVars
  <2> QED BY <1>1, <2>1 DEF Stage
<1>11. CASE Connect(t)
  <2>1. /\ look'[t] = NoCall /\ call'[t] = call[t] /\ pc[t] \in {"connect", "again"}
        /\ pc'[t] \in {"idle", "busy"}
    BY <1>1, <1>11 DEF Connect, EndLook, Leave, Goto, NamesOK, JobsOK, netVars
  <2>2. CASE pc'[t] = "busy"
    BY <1>0, <1>1, <2>1, <2>2 DEF Stage
  <2>3. CASE pc'[t] = "idle"
    <3>1. Dst(t) = NoAddr
      BY <1>1, <1>11, <2>3 DEF Connect, Goto, JobsOK
    <3>2. pc[t] = "again"
      BY <1>1, <2>1, <3>1 DEF Dst, Stage
    <3> QED BY <1>0, <1>1, <2>1, <2>3, <3>2 DEF Stage
  <2> QED BY <2>1, <2>2, <2>3
<1>12. CASE Finish(t)
  <2>1. /\ pc'[t] = "idle" /\ pc[t] \notin {"check", "again"} /\ look'[t] = look[t]
    BY <1>1, <1>12 DEF Finish, Leave, Goto, JobsOK, nameVars
  <2>2. call'[t] = Idle
    BY <1>1, <1>12 DEF Finish, End, TableOK, netVars
  <2> QED BY <1>0, <1>1, <2>1, <2>2 DEF Stage
<1> QED
  BY <1>2, <1>3, <1>4, <1>5, <1>6, <1>7, <1>8, <1>9, <1>10, <1>11, <1>12 DEF Next

(* The types of everything; a request is counted only where the code has   *)
(* called net_request_start (TypeOK).                                      *)
THEOREM TypeCorrect == Spec => []TypeOK
<1>1. Init => TypeOK /\ Stages
  BY InitType
<1>2. (TypeOK /\ Stages) /\ [Next]_vars => (TypeOK /\ Stages)'
  BY TypeStep, StagesStep
<1> QED BY <1>1, <1>2, PTL DEF Spec

-----------------------------------------------------------------------------
(* The count of an object is the number of requests that point to it.      *)
UsersOf(u) == {t \in Thread : call[t].st \in {"refused", "let_through"} /\ call[t].url = u}

CountedOK(u) ==
  IF net_table[u] = Null THEN UsersOf(u) = {}
  ELSE net_table[u].refs = Cardinality(UsersOf(u))

LEMMA CountedParts == UsersAreCounted <=> \A u \in Url : CountedOK(u)
BY DEF UsersAreCounted, CountedOK, UsersOf

LEMMA UsersFinite == ASSUME NEW u \in Url PROVE IsFiniteSet(UsersOf(u))
BY FS_Subset, RequestAssumption, SameAssumption DEF UsersOf

LEMMA CountUser ==
  ASSUME TypeOK, Stages, UsersAreCounted, NEW t \in Thread, Count(t), NEW u \in Url
  PROVE  CountedOK(u)'
<1> USE SameAssumption
<1>1. TableOK /\ JobsOK /\ CountedOK(u) /\ IsFiniteSet(UsersOf(u))
  BY TypeParts, CountedParts, UsersFinite
<1>2. /\ call[t].st = "asked"
      /\ call'[t].st \in {"refused", "let_through"} /\ call'[t].url = call[t].url
      /\ \A v \in Thread \ {t} : call'[v] = call[v]
  BY <1>1 DEF Count, Start, TableOK, Call
<1>3. CASE call[t].url = u
  <2>1. UsersOf(u)' = UsersOf(u) \cup {t} /\ t \notin UsersOf(u)
    BY <1>2, <1>3 DEF UsersOf
  <2>2. /\ Cardinality(UsersOf(u)') = Cardinality(UsersOf(u)) + 1
        /\ Cardinality(UsersOf(u)) \in Nat
    BY <1>1, <2>1, FS_AddElement, FS_CardinalityType
  <2>3. CASE net_table[u] = Null
    <3>1. net_table'[u].refs = 1 /\ Cardinality(UsersOf(u)) = 0
      BY <1>1, <1>3, <2>3, FS_EmptySet DEF Count, Start, TableOK, CountedOK
    <3> QED BY <2>2, <3>1 DEF CountedOK, Null
  <2>4. CASE net_table[u] # Null
    <3>1. net_table'[u].refs = net_table[u].refs + 1
      BY <1>1, <1>3, <2>4 DEF Count, Start, TableOK
    <3> QED BY <1>1, <2>2, <2>4, <3>1 DEF CountedOK, Null
  <2> QED BY <2>3, <2>4
<1>4. CASE call[t].url # u
  <2>1. UsersOf(u)' = UsersOf(u)
    BY <1>2, <1>4 DEF UsersOf
  <2>2. net_table'[u] = net_table[u]
    BY <1>1, <1>4 DEF Count, Start, TableOK
  <2> QED BY <1>1, <2>1, <2>2 DEF CountedOK
<1> QED BY <1>3, <1>4

LEMMA EndUser ==
  ASSUME TypeOK, Stages, UsersAreCounted, NEW t \in Thread, End(t), NEW u \in Url
  PROVE  CountedOK(u)'
<1> USE SameAssumption
<1>1. TableOK /\ CountedOK(u) /\ IsFiniteSet(UsersOf(u))
  BY TypeParts, CountedParts, UsersFinite
<1>2. /\ call[t].st \in {"refused", "let_through"} /\ call'[t].st = "idle"
      /\ \A v \in Thread \ {t} : call'[v] = call[v]
  BY <1>1 DEF End, TableOK, Idle
<1>3. CASE call[t].url = u
  <2>1. UsersOf(u)' = UsersOf(u) \ {t} /\ t \in UsersOf(u)
    BY <1>2, <1>3 DEF UsersOf
  <2>2. /\ Cardinality(UsersOf(u)') = Cardinality(UsersOf(u)) - 1
        /\ Cardinality(UsersOf(u)') \in Nat
    BY <1>1, <2>1, FS_RemoveElement, FS_CardinalityType
  <2>3. net_table[u].refs = Cardinality(UsersOf(u))
    BY <1>1, <2>1 DEF CountedOK
  <2>4. net_table'[u].refs = net_table[u].refs - 1
    BY <1>1, <1>3 DEF End, Release, TableOK, NetObj
  <2> QED BY <2>2, <2>3, <2>4 DEF CountedOK, Null
<1>4. CASE call[t].url # u
  <2>1. UsersOf(u)' = UsersOf(u)
    BY <1>2, <1>4 DEF UsersOf
  <2>2. net_table'[u] = net_table[u]
    BY <1>1, <1>4 DEF End, Release, TableOK
  <2> QED BY <1>1, <2>1, <2>2 DEF CountedOK
<1> QED BY <1>3, <1>4

LEMMA CountedStep ==
  ASSUME TypeOK, Stages, UsersAreCounted, [Next]_vars
  PROVE  UsersAreCounted'
<1> SUFFICES ASSUME NEW u \in Url PROVE CountedOK(u)'
  BY DEF UsersAreCounted, CountedOK, UsersOf
<1> USE SameAssumption
<1>1. TableOK /\ CountedOK(u) /\ IsFiniteSet(UsersOf(u))
  BY TypeParts, CountedParts, UsersFinite
<1>2. ASSUME NEW t \in Thread, Ask(t) PROVE CountedOK(u)'
  <2>1. /\ call[t].st = "idle" /\ call'[t].st = "asked" /\ net_table' = net_table
        /\ \A v \in Thread \ {t} : call'[v] = call[v]
    <3>0. Idle.st = "idle"
      BY DEF Idle
    <3>1. call[t].st = "idle"
      BY <1>2, <3>0 DEF Ask, ReadClock
    <3> QED BY <1>1, <1>2, <3>1 DEF Ask, ReadClock, TableOK
  <2>2. UsersOf(u)' = UsersOf(u)
    BY <2>1 DEF UsersOf
  <2> QED BY <1>1, <2>1, <2>2 DEF CountedOK
<1>3. CASE FlushRequests
  <2>1. PICK v \in Url, n \in 0..clock : FlushUrl(v, n)
    BY <1>3 DEF FlushRequests
  <2>2. UsersOf(u)' = UsersOf(u)
    BY <2>1 DEF FlushUrl, UsersOf
  <2>3. CASE u = v
    <3>1. net_table[u].refs = 0 /\ net_table'[u] = Null
      BY <1>1, <2>1, <2>3 DEF FlushUrl, Expired, TableOK
    <3>2. UsersOf(u) = {}
      BY <1>1, <3>1, FS_EmptySet DEF CountedOK
    <3> QED BY <2>2, <3>1, <3>2 DEF CountedOK
  <2>4. CASE u # v
    BY <1>1, <2>1, <2>2, <2>4 DEF FlushUrl, TableOK, CountedOK
  <2> QED BY <2>3, <2>4
<1>4. ASSUME NEW t \in Thread, Finish(t) PROVE CountedOK(u)'
  <2>1. CASE UNCHANGED netVars
    BY <1>1, <2>1 DEF netVars, CountedOK, UsersOf
  <2> QED BY <1>4, <2>1, EndUser DEF Finish
<1>5. CASE UNCHANGED netVars
  BY <1>1, <1>5 DEF netVars, CountedOK, UsersOf
<1> QED
  BY <1>2, <1>3, <1>4, <1>5, CountUser
     DEF Next, vars, Accept, GetName, Check, NotCounted, Connect, FlushNames, Tick, netVars

LEMMA InitCounted == Init => UsersAreCounted
<1> SUFFICES ASSUME Init, NEW u \in Url PROVE CountedOK(u)
  BY CountedParts
<1>1. Idle.st = "idle"
  BY DEF Idle
<1>2. UsersOf(u) = {}
  BY <1>1, SameAssumption DEF Init, NetInit, UsersOf
<1> QED BY <1>2 DEF CountedOK, Init, NetInit

(* flush_net_request never deletes an object that a request still points   *)
(* to, and no request is left behind in refs (UsersAreCounted), however    *)
(* many threads and URLs there are.                                        *)
THEOREM RequestsAreCounted == Spec => []UsersAreCounted
<1> DEFINE Inv == TypeOK /\ Stages /\ UsersAreCounted
<1>1. Init => Inv
  BY InitType, InitCounted
<1>2. Inv /\ [Next]_vars => Inv'
  BY TypeStep, StagesStep, CountedStep
<1> QED BY <1>1, <1>2, PTL DEF Spec

-----------------------------------------------------------------------------
(* What a service that connects by name will be told: the address that was *)
(* looked at, because it is still in the cache.                            *)
Again(t) ==
  pc[t] = "again" /\ t \notin moved =>
    /\ job[t].name \in Literal => job[t].checked = job[t].name
    /\ job[t].name \notin Literal => m_dns[job[t].name].ip = job[t].checked
    /\ look[t].st # "none" => look[t].st = "done" /\ look[t].ip = job[t].checked

Busy(t) ==
  pc[t] = "busy" /\ job[t].dst # job[t].checked => job[t].kind = "named" /\ t \in moved

AddressesOK == \A t \in Thread : Again(t) /\ Busy(t)

LEMMA InitAddresses == Init => AddressesOK
BY DEF Init, AddressesOK, Again, Busy

(* No step of another thread, and no flush, takes the address away.        *)
LEMMA OthersKeepAddress ==
  ASSUME NamesOK, JobsOK, Stages, AddressesOK, NEW t \in Thread, NEW v \in Thread, v # t,
         \/ Accept(v) \/ GetName(v) \/ Check(v) \/ Ask(v) \/ NotCounted(v)
         \/ Count(v) \/ Connect(v) \/ Finish(v)
  PROVE  Again(t)' /\ Busy(t)'
<1> USE NameAssumption DEF NamesOK, JobsOK
<1>1. /\ look'[t] = look[t] /\ pc'[t] = pc[t] /\ job'[t] = job[t]
      /\ t \in moved' <=> t \in moved
  BY DEF Accept, GetName, Find, Resolve, Insert, Returns, Check, Ask, NotCounted, Count,
         Connect, Finish, Leave, Goto, EndLook, nameVars
<1>2. \A n \in Name : Cached(n) => m_dns'[n] = m_dns[n]
  <2>1. CASE GetName(v)
    <3>1. job[v].name \in Name
      BY <2>1 DEF GetName, Job
    <3> QED BY <2>1, <3>1 DEF GetName, Find, Resolve, Insert, MapInsert
  <2>2. CASE m_dns' = m_dns
    BY <2>2
  <2> QED
    BY <2>1, <2>2 DEF Accept, Check, Ask, NotCounted, Count, Connect, Finish, nameVars
<1>3. Busy(t)'
  BY <1>1 DEF AddressesOK, Busy
<1>4. ASSUME pc[t] = "again", t \notin moved, job[t].name \notin Literal
      PROVE  m_dns'[job[t].name].ip = job[t].checked
  <2>1. job[t].name \in Name /\ job[t].checked # NoAddr
    BY <1>4 DEF Job, Stages, Stage
  <2> QED BY <1>2, <1>4, <2>1 DEF AddressesOK, Again, Cached
<1> QED BY <1>1, <1>3, <1>4 DEF AddressesOK, Again

LEMMA AddressesStep ==
  ASSUME TypeOK, Stages, AddressesOK, [Next]_vars
  PROVE  AddressesOK'
<1> SUFFICES ASSUME NEW t \in Thread PROVE Again(t)' /\ Busy(t)'
  BY DEF AddressesOK
<1> USE NameAssumption
<1>1. NamesOK /\ JobsOK /\ Again(t) /\ Busy(t) /\ Stage(t)
  BY TypeParts DEF AddressesOK, Stages, Stage
<1>0. NoCall.st = "none"
  BY DEF NoCall
<1>2. CASE pc'[t] \notin {"again", "busy"}
  BY <1>2 DEF Again, Busy
<1>3. CASE UNCHANGED <<m_dns, look, pc, job, moved>>
  BY <1>1, <1>3 DEF Again, Busy
<1>4. CASE GetName(t)
  <2> DEFINE n == job[t].name
  <2>1. /\ pc' = pc /\ job' = job /\ moved' = moved
        /\ n \in Name
    BY <1>1, <1>4 DEF GetName, JobsOK, Job
  <2>2. Busy(t)'
    BY <1>1, <2>1 DEF Busy
  <2>3. ASSUME pc[t] = "again", t \notin moved PROVE Again(t)'
    <3>1. Find(t, n)
      BY <1>1, <1>4, <2>3 DEF GetName, Resolve, Insert, Again
    <3>2. m_dns' = m_dns
      BY <3>1 DEF Find
    <3>3. CASE n \in Literal
      BY <1>1, <2>1, <2>3, <3>1, <3>2, <3>3 DEF Again, Find, Returns, NamesOK, NoCall
    <3>4. CASE n \notin Literal
      <4>1. Cached(n)
        BY <1>1, <2>3, <3>4 DEF Again, Stage, Cached
      <4> QED
        BY <1>1, <2>1, <2>3, <3>1, <3>2, <3>4, <4>1 DEF Again, Find, Returns, NamesOK, NoCall
    <3> QED BY <3>3, <3>4
  <2> QED BY <2>1, <2>2, <2>3 DEF Again
<1>5. CASE Check(t)
  <2>1. CASE Leave(t)
    BY <1>1, <1>2, <2>1 DEF Leave, Goto, JobsOK
  <2>2. CASE ~Leave(t)
    <3>1. /\ job'[t] = [job[t] EXCEPT !.checked = look[t].ip] /\ job[t] \in Job
          /\ pc'[t] = IF job[t].kind = "http" THEN "ask" ELSE "again"
          /\ m_dns' = m_dns /\ look'[t] = NoCall /\ look[t].st = "done"
          /\ pc[t] = "check"
      BY <1>1, <1>5, <2>2 DEF Check, Goto, EndLook, JobsOK, NamesOK, Returned
    <3>2. job'[t].name = job[t].name /\ job'[t].checked = look[t].ip
      BY <3>1 DEF Job
    <3>3. job[t].name \in Literal => look[t].ip = job[t].name
      BY <1>1, <3>1 DEF Stage
    <3>4. t \notin moved' /\ job[t].name \notin Literal => m_dns[job[t].name].ip = look[t].ip
      BY <1>5, <2>2 DEF Check
    <3> QED BY <1>0, <3>1, <3>2, <3>3, <3>4 DEF Again, Busy
  <2> QED BY <2>1, <2>2
<1>6. CASE Connect(t)
  <2>1. CASE Leave(t)
    BY <1>1, <1>2, <2>1 DEF Leave, Goto, JobsOK
  <2>2. CASE ~Leave(t)
    <3>1. /\ job'[t] = [job[t] EXCEPT !.dst = Dst(t)] /\ job[t] \in Job
          /\ pc'[t] = "busy" /\ moved' = moved
      BY <1>1, <1>6, <2>2 DEF Connect, Goto, JobsOK
    <3>2. /\ job'[t].dst = Dst(t) /\ job'[t].checked = job[t].checked
          /\ job'[t].kind = job[t].kind /\ job[t].kind \in {"http", "named"}
      BY <3>1 DEF Job, Kind
    <3>3. CASE job[t].kind = "http"
      BY <3>1, <3>2, <3>3 DEF Dst, Again, Busy
    <3>4. CASE job[t].kind = "named"
      <4>1. pc[t] = "again" /\ look[t].st = "done" /\ Dst(t) = look[t].ip
        BY <1>1, <1>6, <3>4 DEF Connect, Stage, Dst, Returned
      <4>2. t \notin moved => Dst(t) = job[t].checked
        BY <1>1, <4>1 DEF Again
      <4> QED BY <3>1, <3>2, <3>4, <4>2 DEF Again, Busy
    <3> QED BY <3>2, <3>3, <3>4
  <2> QED BY <2>1, <2>2
<1>7. CASE FlushNames
  <2>1. /\ pc' = pc /\ job' = job /\ look' = look
        /\ \A n \in Name : m_dns'[n] = m_dns[n] \/ m_dns'[n] = Absent
    BY <1>1, <1>7 DEF FlushNames, Flush, NamesOK
  <2>2. t \notin moved' => /\ t \notin moved
                           /\ \/ pc[t] = "idle" \/ job[t].checked = NoAddr
                              \/ job[t].name \in Literal
                              \/ m_dns'[job[t].name] # Absent
    BY <1>7 DEF FlushNames
  <2>3. Busy(t)'
    BY <1>1, <1>7, <2>1 DEF Busy, FlushNames
  <2>4. ASSUME pc[t] = "again", t \notin moved' PROVE Again(t)'
    <3>1. job[t].name \in Name /\ job[t].checked # NoAddr
      BY <1>1, <2>4 DEF JobsOK, Job, Stage
    <3> QED BY <1>1, <2>1, <2>2, <2>4, <3>1 DEF Again
  <2> QED BY <2>1, <2>3, <2>4 DEF Again
<1>8. ASSUME NEW v \in Thread, v # t,
             \/ Accept(v) \/ GetName(v) \/ Check(v) \/ Ask(v) \/ NotCounted(v)
             \/ Count(v) \/ Connect(v) \/ Finish(v)
      PROVE  Again(t)' /\ Busy(t)'
  BY <1>1, <1>8, OthersKeepAddress
<1>9. CASE Accept(t) \/ Ask(t) \/ NotCounted(t) \/ Count(t) \/ Finish(t)
  <2>1. pc'[t] \notin {"again", "busy"}
    BY <1>1, <1>9 DEF JobsOK, Accept, Ask, NotCounted, Count, Finish, Leave, Goto
  <2> QED BY <1>2, <2>1
<1>10. CASE FlushRequests \/ Tick \/ UNCHANGED vars
  BY <1>3, <1>10 DEF FlushRequests, Tick, vars, nameVars
<1> QED
  BY <1>4, <1>5, <1>6, <1>7, <1>8, <1>9, <1>10 DEF Next

(* A connection goes to the address the rules were asked about, unless the *)
(* service connects by name and the name had another address in the cache, *)
(* or none, in between (ConnectsToChecked).                                *)
THEOREM CheckedIsConnected == Spec => []ConnectsToChecked
<1> DEFINE Inv == TypeOK /\ Stages /\ AddressesOK
<1>1. Init => Inv
  BY InitType, InitAddresses
<1>2. Inv /\ [Next]_vars => Inv'
  BY TypeStep, StagesStep, AddressesStep
<1>3. Inv => ConnectsToChecked
  BY DEF AddressesOK, Busy, ConnectsToChecked
<1> QED BY <1>1, <1>2, <1>3, PTL DEF Spec

-----------------------------------------------------------------------------
(* Lists of times, counted from their end: j = 0 is the latest.            *)
FromEnd(s, j) == s[Len(s) - j]
Places(s) == 0..Len(s) - 1

InOrder(s) == \A j, k \in Places(s) : j <= k => FromEnd(s, k) <= FromEnd(s, j)

Spread(s) == Len(s) > MaxRequest => FromEnd(s, 0) - FromEnd(s, MaxRequest) >= TotalSeconds

Before(s, n) == \A j \in Places(s) : FromEnd(s, j) <= n

(* total_seconds ago, or longer.                                           *)
Old(s, n) == \A j \in Places(s) : n - FromEnd(s, j) >= TotalSeconds

(* The requests let through, and the list of the object, which has refused *)
(* ones as well, and forgets what is older than its first entry, or was    *)
(* made for an object that has been flushed.                               *)
Matches(s, ips) ==
  /\ \A j \in Places(s) : j < Len(ips) => FromEnd(s, j) <= FromEnd(ips, j)
  /\ ips # <<>> /\ Len(ips) < MaxRequest =>
       \A j \in Places(s) : Len(ips) <= j =>
         FromEnd(ips, Len(ips) - 1) - FromEnd(s, j) >= TotalSeconds

(* One more time at the end, and at most m in all.                         *)
Pushed(p, s, n, m) ==
  /\ p \in Seq(Nat) /\ p # <<>>
  /\ Len(p) = IF Len(s) < m THEN Len(s) + 1 ELSE m
  /\ FromEnd(p, 0) = n
  /\ \A j \in Places(p) \ {0} : j - 1 \in Places(s) /\ FromEnd(p, j) = FromEnd(s, j - 1)

LEMMA Push ==
  ASSUME NEW s \in Seq(Nat), NEW n \in Nat, NEW m \in Nat \ {0}, Len(s) <= m,
         NEW p, p = Last(Append(s, n), m)
  PROVE  Pushed(p, s, n, m)
<1> DEFINE a == Append(s, n)
<1>1. a \in Seq(Nat) /\ Len(a) = Len(s) + 1 /\ a[Len(s) + 1] = n
      /\ \A i \in 1..Len(s) : a[i] = s[i]
  OBVIOUS
<1>0. Len(s) \in Nat
  OBVIOUS
<1> HIDE DEF a
<1>2. /\ p \in Seq(Nat) /\ Len(p) = IF Len(a) > m THEN m ELSE Len(a)
      /\ \A i \in 1..Len(p) : p[i] = a[i + Len(a) - Len(p)]
  BY <1>1, LastType DEF a
<1>3. Len(p) = (IF Len(s) < m THEN Len(s) + 1 ELSE m) /\ Len(p) >= 1
  BY <1>0, <1>1, <1>2
<1>4. p # <<>>
  BY <1>2, <1>3
<1>5. FromEnd(p, 0) = n
  <2>1. /\ Len(p) \in 1..Len(p) /\ Len(p) - 0 = Len(p)
        /\ Len(p) + Len(a) - Len(p) = Len(s) + 1
    BY <1>0, <1>1, <1>3
  <2>2. p[Len(p)] = a[Len(s) + 1]
    BY <1>2, <2>1
  <2> QED BY <1>1, <2>1, <2>2 DEF FromEnd
<1>6. ASSUME NEW j \in Places(p) \ {0}
      PROVE  j - 1 \in Places(s) /\ FromEnd(p, j) = FromEnd(s, j - 1)
  <2>1. j \in 1..Len(p) - 1 /\ j \in Int /\ Len(p) \in Nat
    BY <1>3, <1>0, <1>6 DEF Places
  <2>2. j - 1 \in Places(s)
    BY <1>0, <1>3, <2>1 DEF Places
  <2>3. Len(p) - j \in 1..Len(p) /\ Len(p) - j + Len(a) - Len(p) = Len(s) - (j - 1)
        /\ Len(s) - (j - 1) \in 1..Len(s)
    BY <1>0, <1>1, <1>3, <2>1
  <2>4. p[Len(p) - j] = a[Len(s) - (j - 1)]
    BY <1>2, <2>3
  <2> QED BY <1>1, <2>2, <2>3, <2>4 DEF FromEnd
<1> QED BY <1>2, <1>3, <1>4, <1>5, <1>6 DEF Pushed

LEMMA FromEndType ==
  ASSUME NEW s \in Seq(Nat), NEW j \in Places(s)
  PROVE  FromEnd(s, j) \in Nat /\ j \in Nat /\ Len(s) \in Nat
BY DEF FromEnd, Places

LEMMA PushInOrder ==
  ASSUME NEW s \in Seq(Nat), NEW n \in Nat, NEW m \in Nat \ {0}, Len(s) <= m,
         NEW p, p = Last(Append(s, n), m), InOrder(s), Before(s, n)
  PROVE  InOrder(p) /\ Before(p, n)
<1>1. /\ p \in Seq(Nat) /\ FromEnd(p, 0) = n
      /\ \A j \in Places(p) \ {0} : j - 1 \in Places(s) /\ FromEnd(p, j) = FromEnd(s, j - 1)
  BY Push DEF Pushed
<1>2. \A j \in Places(p) : j \in Nat
  BY <1>1 DEF Places
<1>3. ASSUME NEW j \in Places(p) PROVE FromEnd(p, j) <= n
  BY <1>1, <1>3 DEF Before
<1>4. ASSUME NEW j \in Places(p), NEW k \in Places(p), j <= k
      PROVE  FromEnd(p, k) <= FromEnd(p, j)
  <2>1. CASE j = 0
    BY <1>1, <1>3, <2>1
  <2>2. CASE j # 0
    <3>1. k # 0 /\ j - 1 <= k - 1
      BY <1>2, <1>4, <2>2
    <3> QED BY <1>1, <2>2, <3>1 DEF InOrder
  <2> QED BY <2>1, <2>2
<1> QED BY <1>3, <1>4 DEF InOrder, Before

(* A request of a URL, with the time n: whether it is let through or not,  *)
(* the lists go on matching, and what was let through stays spread.        *)
LEMMA OneMore ==
  ASSUME NEW s \in Seq(Nat), NEW ips \in Seq(Nat), NEW n \in Nat,
         Len(s) <= MaxRequest + 1, Len(ips) <= MaxRequest,
         InOrder(s), InOrder(ips), Spread(s), Matches(s, ips), Before(ips, n),
         ips = <<>> => Old(s, n),
         NEW p, p = Last(Append(s, n), MaxRequest + 1),
         NEW q, q = Last(Append(ips, n), MaxRequest)
  PROVE  /\ Matches(IF Fatboy(Append(ips, n), n) THEN s ELSE p, q)
         /\ ~Fatboy(Append(ips, n), n) => InOrder(p) /\ Before(p, n) /\ Spread(p)
<1> USE RequestAssumption
<1> DEFINE a == Append(ips, n)
<1>0. MaxRequest \in Nat \ {0} /\ MaxRequest + 1 \in Nat \ {0}
  OBVIOUS
<1>13. Pushed(p, s, n, MaxRequest + 1)
  BY <1>0, Push
<1>14. Pushed(q, ips, n, MaxRequest)
  BY <1>0, Push
<1>1. /\ p \in Seq(Nat) /\ FromEnd(p, 0) = n
      /\ Len(p) = (IF Len(s) < MaxRequest + 1 THEN Len(s) + 1 ELSE MaxRequest + 1)
      /\ \A j \in Places(p) \ {0} : j - 1 \in Places(s) /\ FromEnd(p, j) = FromEnd(s, j - 1)
  BY <1>13 DEF Pushed
<1>2. /\ q \in Seq(Nat) /\ q # <<>> /\ FromEnd(q, 0) = n
      /\ Len(q) = (IF Len(ips) < MaxRequest THEN Len(ips) + 1 ELSE MaxRequest)
      /\ \A j \in Places(q) \ {0} : j - 1 \in Places(ips) /\ FromEnd(q, j) = FromEnd(ips, j - 1)
  BY <1>14 DEF Pushed
<1>3. InOrder(q) /\ Before(q, n)
  BY PushInOrder
<1>4. /\ \A j \in Places(s) : FromEnd(s, j) \in Nat /\ j \in Nat
      /\ \A j \in Places(ips) : FromEnd(ips, j) \in Nat /\ j \in Nat
      /\ Len(s) \in Nat /\ Len(ips) \in Nat /\ Len(p) \in Nat /\ Len(q) \in Nat
  BY <1>1, <1>2, FromEndType, SMTT(60)
<1>5. ips = <<>> <=> Len(ips) = 0
  OBVIOUS
<1>6. Before(s, n)
  <2>1. CASE ips = <<>>
    BY <1>4, <2>1 DEF Before, Old
  <2>2. CASE ips # <<>>
    <3>1. 0 \in Places(ips)
      BY <1>4, <1>5, <2>2 DEF Places
    <3>2. ASSUME NEW j \in Places(s) PROVE FromEnd(s, j) <= n
      <4>1. 0 \in Places(s) /\ 0 <= j
        BY <1>4 DEF Places
      <4>2. FromEnd(s, j) <= FromEnd(s, 0) /\ FromEnd(s, 0) <= FromEnd(ips, 0)
        BY <1>4, <1>5, <2>2, <4>1 DEF InOrder, Matches
      <4> QED BY <1>4, <3>1, <4>1, <4>2 DEF Before
    <3> QED BY <3>2 DEF Before
  <2> QED BY <2>1, <2>2
<1>7. InOrder(p) /\ Before(p, n)
  BY <1>0, <1>6, PushInOrder
<1>8. Len(a) = Len(ips) + 1 /\ a \in Seq(Nat)
  BY <1>4
<1>9. Len(ips) = MaxRequest => Since(a, n) = n - FromEnd(q, MaxRequest - 1)
  <2>1. ASSUME Len(ips) = MaxRequest PROVE Since(a, n) = n - FromEnd(q, MaxRequest - 1)
    <3>1. Len(q) = MaxRequest /\ Head(q) = q[1]
      BY <1>2, <1>4, <2>1
    <3>2. Len(q) - (MaxRequest - 1) = 1
      BY <3>1
    <3> QED BY <1>8, <2>1, <3>1, <3>2 DEF Since, FromEnd
  <2> QED BY <2>1
<1>10. Len(ips) < MaxRequest => ~Fatboy(a, n)
  BY <1>4, <1>8 DEF Fatboy, Since
<1> HIDE DEF a
<1>11. CASE Fatboy(a, n)
  <2>1. Len(ips) = MaxRequest /\ Len(q) = MaxRequest
    BY <1>2, <1>4, <1>10, <1>11
  <2>2. ASSUME NEW j \in Places(s), j < Len(q) PROVE FromEnd(s, j) <= FromEnd(q, j)
    <3>1. j \in Places(ips) /\ j \in Places(q)
      BY <1>4, <2>1, <2>2 DEF Places
    <3>2. FromEnd(s, j) <= FromEnd(ips, j)
      BY <2>1, <2>2, <3>1 DEF Matches
    <3>3. CASE j = 0
      BY <1>2, <1>4, <1>6, <3>3 DEF Before
    <3>4. CASE j # 0
      <4>1. j - 1 \in Places(ips) /\ FromEnd(q, j) = FromEnd(ips, j - 1) /\ j - 1 <= j
        BY <1>2, <1>4, <3>1, <3>4
      <4>2. FromEnd(ips, j) <= FromEnd(ips, j - 1)
        BY <3>1, <4>1 DEF InOrder
      <4> QED BY <1>4, <3>1, <3>2, <4>1, <4>2
    <3> QED BY <3>3, <3>4
  <2>3. Matches(s, q)
    BY <1>4, <2>1, <2>2 DEF Matches
  <2> QED BY <1>11, <2>3 DEF a
<1>12. CASE ~Fatboy(a, n)
  <2>1. ASSUME NEW j \in Places(p), j < Len(q) PROVE FromEnd(p, j) <= FromEnd(q, j)
    <3>1. CASE j = 0
      BY <1>1, <1>2, <3>1
    <3>2. CASE j # 0
      <4>1. j \in Places(q) /\ j \in Nat
        BY <1>4, <2>1 DEF Places
      <4>2. j - 1 \in Places(s) /\ FromEnd(p, j) = FromEnd(s, j - 1)
            /\ j - 1 \in Places(ips) /\ FromEnd(q, j) = FromEnd(ips, j - 1)
        BY <1>1, <1>2, <3>2, <4>1
      <4>3. j - 1 < Len(ips)
        BY <1>4, <4>2 DEF Places
      <4> QED BY <4>2, <4>3 DEF Matches
    <3> QED BY <3>1, <3>2
  <2>2. ASSUME Len(q) < MaxRequest, NEW j \in Places(p), Len(q) <= j
        PROVE  FromEnd(q, Len(q) - 1) - FromEnd(p, j) >= TotalSeconds
    <3>1. Len(ips) < MaxRequest /\ Len(q) = Len(ips) + 1 /\ j \in Nat /\ j # 0
      BY <1>2, <1>4, <2>2 DEF Places
    <3>2. j - 1 \in Places(s) /\ FromEnd(p, j) = FromEnd(s, j - 1) /\ Len(ips) <= j - 1
      BY <1>1, <1>4, <2>2, <3>1
    <3>3. CASE ips = <<>>
      <4>1. Len(q) - 1 = 0
        BY <1>5, <3>1, <3>3
      <4> QED BY <1>2, <3>2, <3>3, <4>1 DEF Old
    <3>4. CASE ips # <<>>
      <4>1. Len(q) - 1 \in Places(q) \ {0} /\ (Len(q) - 1) - 1 = Len(ips) - 1
        BY <1>4, <1>5, <3>1, <3>4 DEF Places
      <4>2. FromEnd(q, Len(q) - 1) = FromEnd(ips, Len(ips) - 1)
        BY <1>2, <4>1
      <4> QED BY <3>1, <3>2, <3>4, <4>2 DEF Matches
    <3> QED BY <3>3, <3>4
  <2>3. Matches(p, q)
    BY <2>1, <2>2 DEF Matches
  <2>4. ASSUME Len(p) > MaxRequest
        PROVE  FromEnd(p, 0) - FromEnd(p, MaxRequest) >= TotalSeconds
    <3>1. MaxRequest \in Places(p) \ {0}
      BY <1>4, <2>4 DEF Places
    <3>2. MaxRequest - 1 \in Places(s) /\ FromEnd(p, MaxRequest) = FromEnd(s, MaxRequest - 1)
      BY <1>1, <3>1
    <3>3. CASE ips = <<>>
      BY <1>1, <3>2, <3>3 DEF Old
    <3>4. CASE ips # <<>> /\ Len(ips) < MaxRequest
      <4>1. /\ Len(ips) - 1 \in Places(ips) /\ Len(ips) <= MaxRequest - 1
        BY <1>4, <1>5, <3>4 DEF Places
      <4>2. FromEnd(ips, Len(ips) - 1) - FromEnd(s, MaxRequest - 1) >= TotalSeconds
        BY <3>2, <3>4, <4>1 DEF Matches
      <4>3. FromEnd(ips, Len(ips) - 1) <= n
        BY <4>1 DEF Before
      <4> QED BY <1>1, <1>4, <3>2, <4>1, <4>2, <4>3, SMTT(60)
    <3>5. CASE Len(ips) = MaxRequest
      <4>1. Len(q) = MaxRequest /\ MaxRequest - 1 \in Places(q) /\ MaxRequest - 1 \in Places(p)
            /\ MaxRequest - 1 \in Places(ips) /\ MaxRequest - 1 <= MaxRequest
        BY <1>2, <1>4, <2>4, <3>5 DEF Places
      <4>2. FromEnd(q, MaxRequest - 1) <= n /\ FromEnd(q, MaxRequest - 1) \in Nat
        BY <1>2, <1>3, <4>1, FromEndType DEF Before
      <4>3. n - FromEnd(q, MaxRequest - 1) >= TotalSeconds
        BY <1>9, <1>12, <3>5, <4>2 DEF Fatboy
      <4>4. FromEnd(p, MaxRequest) <= FromEnd(p, MaxRequest - 1)
            /\ FromEnd(p, MaxRequest - 1) <= FromEnd(q, MaxRequest - 1)
        BY <1>7, <2>1, <3>1, <4>1 DEF InOrder
      <4>5. FromEnd(p, MaxRequest) \in Nat /\ FromEnd(p, MaxRequest - 1) \in Nat
        BY <1>1, <3>1, <4>1, FromEndType
      <4> QED BY <1>1, <4>2, <4>3, <4>4, <4>5
    <3> QED BY <1>4, <3>3, <3>4, <3>5
  <2>5. Spread(p)
    BY <2>4 DEF Spread
  <2> QED BY <1>7, <1>12, <2>3, <2>5 DEF a
<1> QED BY <1>11, <1>12

-----------------------------------------------------------------------------
(* What is true of a URL none of whose requests came late.                 *)
Punctual(u) ==
  LET s == taken[u]  ips == net_table[u].ips
  IN /\ InOrder(s) /\ InOrder(ips) /\ Spread(s) /\ Matches(s, ips)
     /\ Before(s, clock)
     /\ ips # <<>> => net_table[u].last_access = FromEnd(ips, 0)
     /\ ips = <<>> =>
          /\ Old(s, clock)
          /\ \A t \in Client :
               call[t].st = "asked" /\ call[t].url = u => Old(s, call[t].now_time)

BurstOK(u) ==
  /\ Len(taken[u]) <= MaxRequest + 1 /\ Len(net_table[u].ips) <= MaxRequest
  /\ net_table[u].ips = <<>> <=> net_table[u] = Null
  /\ u \notin late => Punctual(u)

BurstsOK ==
  /\ \A t \in Client : call[t].now_time <= clock
  /\ \A u \in Url : BurstOK(u)

LEMMA InitBursts == Init => BurstsOK
<1> SUFFICES ASSUME Init PROVE BurstsOK
  OBVIOUS
<1> USE RequestAssumption DEF Init, NetInit
<1>1. Idle.now_time = 0 /\ Idle.st = "idle" /\ Null.ips = <<>>
  BY DEF Idle, Null
<1>2. Places(<<>>) = {} /\ Len(<<>>) = 0
  BY DEF Places
<1>3. ASSUME NEW u \in Url PROVE Punctual(u)
  BY <1>1, <1>2, <1>3 DEF Punctual, InOrder, Spread, Matches, Before, Old
<1>4. ASSUME NEW u \in Url PROVE BurstOK(u)
  BY <1>1, <1>2, <1>3, <1>4 DEF BurstOK
<1> QED BY <1>1, <1>4 DEF BurstsOK

LEMMA CountBurst ==
  ASSUME TypeOK, Stages, UsersAreCounted, BurstsOK, NEW t \in Thread, Count(t), NEW u \in Url
  PROVE  BurstOK(u)'
<1> USE RequestAssumption, SameAssumption
<1> DEFINE n == call[t].now_time
           s == taken[u]
           ips == net_table[u].ips
           p == Last(Append(s, n), MaxRequest + 1)
           q == Last(Append(ips, n), MaxRequest)
<1>1. TableOK /\ HistoryOK /\ clock \in Nat
  BY TypeParts
<1>2. /\ n \in Nat /\ n <= clock /\ s \in Seq(Nat) /\ ips \in Seq(Nat)
      /\ BurstOK(u) /\ call[t].st = "asked" /\ clock' = clock
      /\ call'[t].st \in {"refused", "let_through"}
      /\ \A v \in Client \ {t} : call'[v] = call[v]
  BY <1>1 DEF TableOK, HistoryOK, Call, NetObj, BurstsOK, Count, Start
<1>3. CASE call[t].url # u
  <2>1. net_table'[u] = net_table[u] /\ taken'[u] = taken[u]
        /\ late \subseteq late'
    BY <1>1, <1>3 DEF Count, Start, TableOK, HistoryOK
  <2>2. \A v \in Client : call'[v].st = "asked" /\ call'[v].url = u =>
                            call[v].st = "asked" /\ call[v].url = u /\ call'[v] = call[v]
    BY <1>2
  <2> QED BY <1>2, <2>1, <2>2 DEF BurstOK, Punctual
<1>4. CASE call[t].url = u
  <2>1. /\ q \in Seq(Nat) /\ q # <<>> /\ Len(q) <= MaxRequest /\ FromEnd(q, 0) = n
    <3>1. Len(ips) \in Nat /\ Len(ips) <= MaxRequest
      BY <1>2 DEF BurstOK
    <3>2. Pushed(q, ips, n, MaxRequest)
      BY <1>2, <3>1, Push
    <3> HIDE DEF q
    <3> QED BY <3>1, <3>2 DEF Pushed
  <2>2. /\ p \in Seq(Nat) /\ Len(p) <= MaxRequest + 1 /\ FromEnd(p, 0) = n
    <3>1. Len(s) \in Nat /\ Len(s) <= MaxRequest + 1 /\ MaxRequest + 1 \in Nat \ {0}
      BY <1>2 DEF BurstOK
    <3>2. Pushed(p, s, n, MaxRequest + 1)
      BY <1>2, <3>1, Push
    <3> HIDE DEF p
    <3> QED BY <3>1, <3>2 DEF Pushed
  <2>3. net_table'[u].ips = q /\ net_table'[u].last_access = n
    <3>1. CASE net_table[u] = Null
      <4>1. ips = <<>>
        BY <1>2, <3>1 DEF BurstOK
      <4>2. q = <<n>>
        <5>1. Append(ips, n) = <<n>> /\ Len(<<n>>) = 1
          BY <4>1
        <5> QED BY <5>1 DEF Last
      <4>3. net_table'[u] = [refs |-> 1, last_access |-> n, ips |-> <<n>>]
        BY <1>1, <1>4, <3>1 DEF Count, Start, TableOK
      <4> QED BY <4>2, <4>3
    <3>2. CASE net_table[u] # Null
      <4>1. net_table'[u] = [refs |-> net_table[u].refs + 1, last_access |-> n, ips |-> q]
        BY <1>1, <1>4, <3>2 DEF Count, Start, TableOK
      <4> QED BY <4>1
    <3> QED BY <3>1, <3>2
  <2>4. net_table'[u] # Null
    BY <2>1, <2>3 DEF Null
  <2>5. taken'[u] = IF Fatboy(Append(ips, n), n) THEN s ELSE p
    BY <1>1, <1>4 DEF Count, Start, HistoryOK
  <2> HIDE DEF p, q
  <2>6. Len(taken'[u]) <= MaxRequest + 1
    BY <1>2, <2>2, <2>5 DEF BurstOK
  <2>7. ASSUME u \notin late' PROVE Punctual(u)'
    <3>1. u \notin late /\ \A i \in DOMAIN ips : ~(ips[i] > n)
      BY <1>1, <1>4, <2>7 DEF Count, Start, HistoryOK
    <3>2. Punctual(u)
      BY <1>2, <3>1 DEF BurstOK
    <3>3. Before(ips, n)
      <4>1. ASSUME NEW j \in Places(ips) PROVE FromEnd(ips, j) <= n
        <5>1. Len(ips) - j \in 1..Len(ips) /\ DOMAIN ips = 1..Len(ips)
          BY <1>2, <4>1, SMTT(60) DEF Places
        <5>2. ips[Len(ips) - j] \in Nat
          BY <1>2, <5>1
        <5> QED BY <1>2, <3>1, <5>1, <5>2 DEF FromEnd
      <4> QED BY <4>1 DEF Before
    <3>4. ips = <<>> => Old(s, n)
      BY <1>2, <1>4, <3>2 DEF Punctual
    <3>5. /\ InOrder(s) /\ InOrder(ips) /\ Spread(s) /\ Matches(s, ips) /\ Before(s, clock)
          /\ Len(s) <= MaxRequest + 1 /\ Len(ips) <= MaxRequest
      BY <1>2, <3>2 DEF Punctual, BurstOK
    <3>6. /\ Matches(IF Fatboy(Append(ips, n), n) THEN s ELSE p, q)
          /\ ~Fatboy(Append(ips, n), n) => InOrder(p) /\ Before(p, n) /\ Spread(p)
      BY <1>2, <3>3, <3>4, <3>5, OneMore DEF p, q
    <3>7. InOrder(q)
      BY <1>2, <3>3, <3>5, PushInOrder DEF q
    <3>8. Before(p, n) => Before(p, clock)
      <4>1. \A j \in Places(p) : FromEnd(p, j) \in Nat
        BY <2>2, FromEndType
      <4> QED BY <1>1, <1>2, <4>1 DEF Before
    <3>9. /\ InOrder(taken'[u]) /\ Spread(taken'[u]) /\ Matches(taken'[u], q)
          /\ Before(taken'[u], clock)
      BY <2>5, <3>5, <3>6, <3>8
    <3> QED BY <1>2, <2>1, <2>3, <3>7, <3>9 DEF Punctual
  <2> QED BY <2>1, <2>3, <2>4, <2>6, <2>7 DEF BurstOK
<1> QED BY <1>3, <1>4

(* An object that expires has had no request for total_seconds.            *)
LEMMA FlushBurst ==
  ASSUME TypeOK, BurstsOK, NEW u \in Url, NEW n \in 0..clock, FlushUrl(u, n),
         clock' = clock
  PROVE  BurstOK(u)'
<1> USE RequestAssumption, SameAssumption
<1> DEFINE s == taken[u]
           ips == net_table[u].ips
<1>1. TableOK /\ HistoryOK /\ clock \in Nat
  BY TypeParts
<1>2. /\ s \in Seq(Nat) /\ ips \in Seq(Nat) /\ BurstOK(u) /\ n \in Nat /\ n <= clock
  BY <1>1 DEF TableOK, HistoryOK, NetObj, BurstsOK
<1>3. /\ net_table[u].refs = 0 /\ n - net_table[u].last_access > TotalSeconds
      /\ net_table[u].last_access \in Nat
      /\ net_table'[u] = Null /\ taken' = taken /\ call' = call
  BY <1>1 DEF FlushUrl, Expired, TableOK, NetObj
<1>4. Null.ips = <<>> /\ Len(<<>>) = 0 /\ Null.refs # 0 /\ Places(<<>>) = {}
  BY DEF Null, Places
<1>5. ASSUME u \notin late' PROVE Punctual(u)'
  <2>1. u \notin late /\ \A t \in Client : ~(call[t].st = "asked" /\ call[t].url = u)
    BY <1>5 DEF FlushUrl
  <2>2. Punctual(u) /\ ips # <<>>
    BY <1>2, <1>3, <1>4, <2>1 DEF BurstOK
  <2>3. ASSUME NEW j \in Places(s) PROVE clock - FromEnd(s, j) >= TotalSeconds
    <3>1. FromEnd(s, j) \in Nat /\ j \in Nat /\ Len(ips) \in Nat /\ Len(ips) # 0
      BY <1>2, <2>2, <2>3, FromEndType
    <3>2. 0 \in Places(ips) /\ Len(ips) - 1 \in Places(ips) /\ 0 \in Places(s)
      BY <3>1, <2>3 DEF Places
    <3>3. FromEnd(ips, 0) = net_table[u].last_access
          /\ FromEnd(ips, Len(ips) - 1) <= FromEnd(ips, 0)
      BY <2>2, <3>1, <3>2 DEF Punctual, InOrder
    <3>4. FromEnd(ips, Len(ips) - 1) \in Nat /\ FromEnd(ips, 0) \in Nat /\ FromEnd(s, 0) \in Nat
      BY <1>2, <3>2, FromEndType
    <3>5. FromEnd(s, j) <= FromEnd(s, 0) /\ FromEnd(s, 0) <= FromEnd(ips, 0)
      BY <2>2, <2>3, <3>1, <3>2 DEF Punctual, InOrder, Matches
    <3> QED BY <1>1, <1>2, <1>3, <3>1, <3>3, <3>4, <3>5
  <2>4. Old(s, clock)
    BY <2>3 DEF Old
  <2>5. InOrder(<<>>) /\ Matches(s, <<>>)
    <3>1. \A j \in Places(s) : j \in Nat
      BY <1>2, FromEndType
    <3> QED BY <1>4, <3>1 DEF InOrder, Matches
  <2> QED BY <1>3, <1>4, <1>5, <2>1, <2>2, <2>4, <2>5 DEF Punctual
<1> QED BY <1>2, <1>3, <1>4, <1>5 DEF BurstOK

LEMMA EndBurst ==
  ASSUME TypeOK, UsersAreCounted, BurstsOK, NEW t \in Thread, End(t), clock' = clock,
         NEW u \in Url
  PROVE  BurstOK(u)'
<1> USE SameAssumption
<1>1. TableOK /\ HistoryOK /\ BurstOK(u) /\ CountedOK(u)
  BY TypeParts, CountedParts DEF BurstsOK
<1>2. Idle.st = "idle" /\ Null.ips = <<>>
  BY DEF Idle, Null
<1>3. \A v \in Client : call'[v].st = "asked" => call'[v] = call[v]
  BY <1>1, <1>2 DEF End, TableOK
<1>4. /\ net_table'[u].ips = net_table[u].ips
      /\ net_table'[u].last_access = net_table[u].last_access
      /\ net_table[u] = Null => net_table'[u] = Null
  <2>1. CASE call[t].url = u
    <3>1. t \in UsersOf(u)
      BY <2>1 DEF End, UsersOf
    <3>2. net_table[u] # Null
      BY <1>1, <3>1 DEF CountedOK
    <3> QED BY <1>1, <2>1, <3>2 DEF End, Release, TableOK, NetObj
  <2>2. CASE call[t].url # u
    BY <1>1, <2>2 DEF End, Release, TableOK
  <2> QED BY <2>1, <2>2
<1>5. net_table'[u].ips = <<>> <=> net_table'[u] = Null
  BY <1>1, <1>2, <1>4 DEF BurstOK
<1>6. taken' = taken /\ late' = late
  BY DEF End
<1> QED BY <1>1, <1>3, <1>4, <1>5, <1>6 DEF BurstOK, Punctual

LEMMA BurstsStep ==
  ASSUME TypeOK, Stages, UsersAreCounted, BurstsOK, [Next]_vars
  PROVE  BurstsOK'
<1> USE RequestAssumption, SameAssumption
<1>1. TableOK /\ HistoryOK /\ JobsOK /\ clock \in Nat
  BY TypeParts
<1>2. \A t \in Client : call[t].now_time <= clock /\ call[t].now_time \in Nat
  BY <1>1 DEF BurstsOK, TableOK, Call
<1>3. Idle.st = "idle" /\ Idle.now_time = 0
  BY DEF Idle
<1>4. ASSUME NEW t \in Thread, Ask(t) PROVE BurstsOK'
  <2>1. /\ net_table' = net_table /\ taken' = taken /\ late' = late /\ clock' = clock
        /\ call'[t].now_time = clock /\ \A v \in Client \ {t} : call'[v] = call[v]
    BY <1>1, <1>4 DEF Ask, ReadClock, TableOK
  <2>2. \A v \in Client : call'[v].now_time <= clock'
    BY <1>1, <1>2, <2>1
  <2>3. ASSUME NEW u \in Url PROVE BurstOK(u)'
    <3>1. BurstOK(u)
      BY DEF BurstsOK
    <3> QED BY <2>1, <3>1 DEF BurstOK, Punctual
  <2> QED BY <2>2, <2>3 DEF BurstsOK
<1>5. ASSUME NEW t \in Thread, Count(t) PROVE BurstsOK'
  <2>1. \A v \in Client : call'[v].now_time = call[v].now_time
    BY <1>1, <1>5 DEF Count, Start, TableOK, Call
  <2>2. clock' = clock
    BY <1>5 DEF Count
  <2> QED BY <1>2, <1>5, <2>1, <2>2, CountBurst DEF BurstsOK
<1>6. ASSUME NEW t \in Thread, Finish(t) PROVE BurstsOK'
  <2>1. clock' = clock
    BY <1>6 DEF Finish
  <2>2. CASE End(t)
    <3>1. \A v \in Client : call'[v] = call[v] \/ call'[v] = Idle
      BY <1>1, <2>2 DEF End, TableOK
    <3>2. \A v \in Client : call'[v].now_time <= clock'
      BY <1>1, <1>2, <1>3, <2>1, <3>1
    <3> QED BY <2>1, <2>2, <3>2, EndBurst DEF BurstsOK
  <2>3. CASE UNCHANGED netVars
    BY <2>1, <2>3 DEF BurstsOK, BurstOK, Punctual, netVars
  <2> QED BY <1>6, <2>2, <2>3 DEF Finish
<1>7. CASE FlushRequests
  <2>1. PICK v \in Url, n \in 0..clock : FlushUrl(v, n)
    BY <1>7 DEF FlushRequests
  <2>2. clock' = clock /\ call' = call
    BY <1>7, <2>1 DEF FlushRequests, FlushUrl
  <2>3. BurstOK(v)'
    BY <2>1, <2>2, FlushBurst
  <2>4. ASSUME NEW u \in Url, u # v PROVE BurstOK(u)'
    <3>1. net_table'[u] = net_table[u] /\ taken' = taken /\ late \subseteq late'
      BY <1>1, <2>1, <2>4 DEF FlushUrl, TableOK
    <3>2. BurstOK(u)
      BY DEF BurstsOK
    <3> QED BY <2>2, <3>1, <3>2 DEF BurstOK, Punctual
  <2> QED BY <1>2, <2>2, <2>3, <2>4 DEF BurstsOK
<1>8. CASE Tick
  <2>1. clock' = clock + 1 /\ UNCHANGED netVars
    BY <1>8 DEF Tick
  <2>2. ASSUME NEW u \in Url, u \notin late PROVE Punctual(u)'
    <3>1. Punctual(u) /\ taken[u] \in Seq(Nat)
      BY <1>1, <2>2 DEF BurstsOK, BurstOK, HistoryOK
    <3>2. \A j \in Places(taken[u]) : FromEnd(taken[u], j) \in Nat
      BY <3>1, FromEndType
    <3>3. Before(taken[u], clock')
      BY <1>1, <2>1, <3>1, <3>2 DEF Punctual, Before
    <3>4. net_table[u].ips = <<>> => Old(taken[u], clock')
      BY <1>1, <2>1, <3>1, <3>2 DEF Punctual, Old
    <3> QED BY <2>1, <3>1, <3>3, <3>4 DEF Punctual, netVars
  <2>3. \A t \in Client : call'[t].now_time <= clock'
    BY <1>1, <1>2, <2>1 DEF netVars
  <2> QED BY <2>1, <2>2, <2>3 DEF BurstsOK, BurstOK, netVars
<1>9. CASE UNCHANGED netVars /\ clock' = clock
  BY <1>9 DEF BurstsOK, BurstOK, Punctual, netVars
<1> QED
  BY <1>4, <1>5, <1>6, <1>7, <1>8, <1>9
     DEF Next, vars, Accept, GetName, Check, NotCounted, Connect, FlushNames, netVars

LEMMA BurstsBounded == TypeOK /\ BurstsOK => BurstIsBounded
<1> SUFFICES ASSUME TypeOK, BurstsOK, NEW u \in Url \ late, Len(taken[u]) > MaxRequest
             PROVE  taken[u][MaxRequest + 1] - taken[u][1] >= TotalSeconds
  BY DEF BurstIsBounded
<1>1. /\ taken[u] \in Seq(Nat) /\ Len(taken[u]) <= MaxRequest + 1 /\ Punctual(u)
      /\ Spread(taken[u]) /\ MaxRequest \in Nat
  BY TypeParts, RequestAssumption DEF HistoryOK, BurstsOK, BurstOK, Punctual
<1>2. Len(taken[u]) = MaxRequest + 1
  BY <1>1
<1> QED BY <1>1, <1>2 DEF Spread, FromEnd

(* However many threads there are and however slow they are, at most       *)
(* max_request requests of a URL are let through within total_seconds, as  *)
(* long as none reaches the list after one with a later time               *)
(* (BurstIsBounded).                                                       *)
THEOREM BurstsAreBounded == Spec => []BurstIsBounded
<1> DEFINE Inv == TypeOK /\ Stages /\ UsersAreCounted /\ BurstsOK
<1>1. Init => Inv
  BY InitType, InitCounted, InitBursts
<1>2. Inv /\ [Next]_vars => Inv'
  BY TypeStep, StagesStep, CountedStep, BurstsStep
<1>3. Inv => BurstIsBounded
  BY BurstsBounded
<1> QED BY <1>1, <1>2, <1>3, PTL DEF Spec
=============================================================================
