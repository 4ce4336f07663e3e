------------------------------- MODULE Access -------------------------------
(***************************************************************************)
(* Who may connect where (KFilter.cpp, allow_connect.cpp), and until when  *)
(* (garbage_c.cpp, utils.cpp): the two lists of rules, the worker threads  *)
(* that check and list their connections, the pages that change the rules  *)
(* while others read them, and the time thread, which checks the listed    *)
(* connections again and again and closes those that are not allowed any   *)
(* more, and ends the logins nobody uses.                                  *)
(***************************************************************************)
EXTENDS Users, Sequences, SequencesExt

CONSTANTS
  Dst,        \* destinations (address and port)
  HTTP, SOCKS,\* services
  DELAYUSER,  \* the uid of a SOCKS client that has not said who it is
  ALLIP,      \* in a rule: anyone, anywhere
  Rules,      \* the rules the pages may add
  AccessConf, \* what access.conf may hold: both lists
  BanTime,    \* how long a rule that bans an address lasts
  MaxRules    \* bound: length of each list

DENY  == 0
ALLOW == 1
Model == {DENY, ALLOW}
Service == {HTTP, SOCKS}

(* Rules: the networks are sets of addresses and of destinations.          *)
IPModel == [net : {ALLIP} \cup SUBSET (Addr \cup Dst), revers : BOOLEAN]
Rule ==
  [service : Service \cup {ALLIP}, service_revers : BOOLEAN, src : IPModel, dst : IPModel,
   user_id : Name \cup {ALLUSER, ALLIP}, user_revers : BOOLEAN,
   m_time : SUBSET Nat, expire_time : Nat]

ASSUME AccessAssumption ==
  /\ Rules \subseteq Rule /\ AccessConf \subseteq [Model -> Seq(Rule)]
  /\ \A lists \in AccessConf : \A m \in Model : Len(lists[m]) <= MaxRules
  /\ BanTime \in Nat /\ MaxRules \in Nat
  /\ DELAYUSER \notin Name \cup {Nil} /\ Nil \notin Service

VARIABLES
  m_chains, first,
  conn,             \* the worker threads
  server,           \* the mysocket of each connection
  filter_time_list, \* the listed connections
  walk,             \* the calls of KFilter::Check
  gc,               \* the time thread
  seen, torn,       \* history: what the rules said during each call of Check
  still             \* history: whether they were left alone since check_time began

ruleVars == <<m_chains, first>>
connVars == <<conn, server, filter_time_list>>
history  == <<seen, torn, still>>
vars == <<now, userVars, ruleVars, connVars, walk, gc, history>>

-----------------------------------------------------------------------------
(* CheckChain: when a rule matches.  An address that is not known yet (0)  *)
(* matches every rule.                                                     *)
MatchIPModel(m, ip) == m.net # ALLIP /\ ip # Nil => (ip \in m.net) # m.revers

Applies(r, s) ==
  /\ (r.service \in {ALLIP, s.service}) # r.service_revers
  /\ MatchIPModel(r.src, s.src_ip)
  /\ MatchIPModel(r.dst, s.dst_ip)
  /\ now \in r.m_time

AsksUser(r, s) == r.user_id # ALLIP /\ s.uid = Nil

(* The answers of CheckChain's test of the user.                           *)
UserAnswers(r, s, model) ==
  IF r.user_id = ALLIP THEN {TRUE}
  ELSE IF s.uid = DELAYUSER
       THEN {model = ALLOW \/ (r.user_id = ALLUSER /\ ~r.user_revers)}
  ELSE IF s.uid # Nil THEN {CheckGroup(s.uid, r.user_id) # r.user_revers}
  ELSE {a # r.user_revers : a \in CheckUser(s.src_ip, r.user_id)}

Answers(r, s, model) == IF Applies(r, s) THEN UserAnswers(r, s, model) ELSE {FALSE}

(* What the rules say at one moment, by the order that doc/manual.en gives *)
(* them: the first list that has a rule that matches decides, and the      *)
(* first list if there is none.                                            *)
Hit(model, s) == \E k \in DOMAIN m_chains[model] : TRUE \in Answers(m_chains[model][k], s, model)
Decision(s) ==
  IF Hit(first, s) THEN first ELSE IF Hit(1 - first, s) THEN 1 - first ELSE first

-----------------------------------------------------------------------------
(* Check, step by step.  Each list is read under the read lock, `first' is *)
(* read three times without it.                                            *)
NoWalk == [at |-> "idle", s |-> Nil, model |-> DENY, second |-> DENY, i |-> 0, result |-> DENY]
CallCheck(w, s) == walk' = [walk EXCEPT ![w] = [NoWalk EXCEPT !.at = "call", !.s = s]]
Return(w) == walk' = [walk EXCEPT ![w] = NoWalk]
Returned(w, r) == walk[w].at = "done" /\ walk[w].result = r /\ guest[w] = "out"

Reading(w) == walk[w].at \in {"first", "second"}
NoReader == \A w \in Walker : ~Reading(w)
Step(w, new) == walk' = [walk EXCEPT ![w] = new]

TakeSecond(w) ==
  /\ walk[w].at = "call"
  /\ Step(w, [walk[w] EXCEPT !.at = "enter", !.second = 1 - first])
  /\ UNCHANGED login

EnterFirst(w) ==
  /\ walk[w].at = "enter"
  /\ Step(w, [walk[w] EXCEPT !.at = "first", !.model = first, !.i = 1])
  /\ UNCHANGED login

EnterSecond(w) ==
  /\ walk[w].at = "between"
  /\ Step(w, [walk[w] EXCEPT !.at = "second", !.model = walk[w].second, !.i = 1])
  /\ UNCHANGED login

Finish(w, r) == Step(w, [NoWalk EXCEPT !.at = "done", !.s = walk[w].s, !.result = r])
ToLast(w) == Step(w, [NoWalk EXCEPT !.at = "last", !.s = walk[w].s])

(* Variant: a match in either list returns `first'.                        *)
MatchedFirst(w) == ToLast(w)

(* A match ends the walk: in the first list `first' is what is returned,   *)
(* read once more.                                                         *)
Matched(w) ==
  IF walk[w].at = "first" THEN ToLast(w) ELSE Finish(w, walk[w].second)

(* The end of a list is not where it was, if a rule was deleted while the  *)
(* list was read: whoever stands behind it goes on in freed memory.        *)
List(w) == m_chains[walk[w].model]
AtEnd(w) == walk[w].i = Len(List(w)) + 1
Astray(w) == walk[w].i > Len(List(w)) + 1

NotMatched(w) ==
  IF walk[w].at = "first" THEN Step(w, [walk[w] EXCEPT !.at = "between"]) ELSE ToLast(w)

(* CheckUser asks who is logged in, under m_lock.                          *)
AtRule(w) == Reading(w) /\ walk[w].i \in DOMAIN List(w)
Here(w) == List(w)[walk[w].i]
Asks(w) == AtRule(w) /\ Applies(Here(w), walk[w].s) /\ AsksUser(Here(w), walk[w].s)

LockUsers(w) == Asks(w) /\ Enter(w)

UnlockUsers(w) ==
  /\ walk[w].at # "idle"
  /\ guest[w] = "done" \/ ~Asks(w)
  /\ Exit(w)

TryRule(w) ==
  LET s == walk[w].s
      r == Here(w)
  IN  /\ AtRule(w)
      /\ IF Asks(w) THEN InSection(w) ELSE guest[w] = "out" /\ UNCHANGED guest
      /\ \E a \in Answers(r, s, walk[w].model) :
           /\ IF a THEN Matched(w) ELSE Step(w, [walk[w] EXCEPT !.i = @ + 1])
           /\ IF Asks(w) /\ a # r.user_revers THEN Refresh(s.src_ip) ELSE UNCHANGED login

EndList(w) ==
  /\ Reading(w) /\ (AtEnd(w) \/ Astray(w))
  /\ NotMatched(w)
  /\ UNCHANGED login

MatchAstray(w) ==
  /\ Reading(w) /\ Astray(w)
  /\ Matched(w)
  /\ UNCHANGED login

ReturnFirst(w) ==
  /\ walk[w].at = "last"
  /\ Finish(w, first)
  /\ UNCHANGED login

Check(w) ==
  /\ \/ (LockUsers(w) \/ UnlockUsers(w)) /\ UNCHANGED walk
     \/ TryRule(w) /\ UNCHANGED m_lock
     \/ /\ \/ TakeSecond(w) \/ EnterFirst(w) \/ EnterSecond(w)
           \/ EndList(w) \/ MatchAstray(w) \/ ReturnFirst(w)
        /\ guest[w] = "out" /\ UNCHANGED <<m_lock, guest>>
  /\ UNCHANGED <<now, record, gids, page, pages, ruleVars, connVars, gc>>

-----------------------------------------------------------------------------
(* The pages that change the rules.                                        *)
AppendRule(model, r) ==
  /\ NoReader /\ Len(m_chains[model]) < MaxRules
  /\ m_chains' = [m_chains EXCEPT ![model] = Append(@, r)]

MakeChain(p, model, r) ==
  /\ Begin(p)
  /\ r.user_id \in Name => record[r.user_id] = "live"
  /\ AppendRule(model, r)
  /\ UNCHANGED <<now, record, gids, login, lockVars, first, connVars, walk, gc>>

(* DelChain takes no lock.                                                 *)
DelChain(p, model, k) ==
  /\ Begin(p) /\ k \in DOMAIN m_chains[model]
  /\ m_chains' = [m_chains EXCEPT ![model] = RemoveAt(@, k)]
  /\ UNCHANGED <<now, record, gids, login, lockVars, first, connVars, walk, gc>>

changeFirst(p) ==
  /\ Begin(p)
  /\ first' = 1 - first
  /\ UNCHANGED <<now, record, gids, login, lockVars, m_chains, connVars, walk, gc>>

(* The accept loop bans an address that has too many connections.          *)
BanRule(i) ==
  [service |-> ALLIP, service_revers |-> FALSE,
   src |-> [net |-> {i}, revers |-> FALSE], dst |-> [net |-> ALLIP, revers |-> FALSE],
   user_id |-> ALLIP, user_revers |-> FALSE, m_time |-> 0..MaxTime,
   expire_time |-> now + BanTime]

Ban(i) ==
  /\ pages < MaxPages /\ pages' = pages + 1
  /\ AppendRule(DENY, BanRule(i))
  /\ UNCHANGED <<now, record, gids, login, lockVars, first, connVars, walk, gc>>

-----------------------------------------------------------------------------
(* A connection.  filter_time_lock is held by the time thread while it     *)
(* goes through the list.                                                  *)
NoConn == [pc |-> "idle", src |-> Nil, service |-> Nil]
Goto(c, pc) == conn' = [conn EXCEPT ![c].pc = pc]
InPc(c, pc) == conn[c].pc = pc
ListFree == gc.at \notin {"pick", "check"}
Unlist(c) == filter_time_list' = [filter_time_list EXCEPT ![c] = Nil]

(* The accept loop checks, before a thread has the connection, with what   *)
(* it knows: neither the destination nor who a SOCKS client is.            *)
Accept(c, i, service) ==
  /\ \A d \in Conn : ~InPc(d, "accept")
  /\ InPc(c, "idle")
  /\ conn' = [conn EXCEPT ![c] = [pc |-> "accept", src |-> i, service |-> service]]
  /\ CallCheck(c, [src_ip |-> i, service |-> service, dst_ip |-> Nil,
                   uid |-> IF service = SOCKS THEN DELAYUSER ELSE Nil])
  /\ UNCHANGED <<now, userVars, ruleVars, server, filter_time_list, gc>>

Refuse(c) ==
  /\ InPc(c, "accept") /\ Returned(c, DENY)
  /\ Goto(c, "refused") /\ Return(c)
  /\ UNCHANGED <<now, userVars, ruleVars, server, filter_time_list, gc>>

Forget(c) ==
  /\ InPc(c, "refused")
  /\ conn' = [conn EXCEPT ![c] = NoConn]
  /\ UNCHANGED <<now, userVars, ruleVars, server, filter_time_list, walk, gc>>

(* server_thread                                                           *)
Serve(c) ==
  /\ InPc(c, "accept") /\ Returned(c, ALLOW)
  /\ Goto(c, "wait") /\ Return(c)
  /\ server' = [server EXCEPT ![c] = "open"]
  /\ UNCHANGED <<now, userVars, ruleVars, filter_time_list, gc>>

(* A SOCKS client says once where it wants to go, and may say who it is;   *)
(* an HTTP client says where with each request.                            *)
Request(c, d, u) ==
  /\ \/ InPc(c, "wait")
     \/ InPc(c, "serve") /\ conn[c].service = HTTP
  /\ server[c] = "open"
  /\ u # Nil => conn[c].service = SOCKS /\ record[u] = "live"
  /\ Goto(c, "check")
  /\ CallCheck(c, [src_ip |-> conn[c].src, service |-> conn[c].service,
                   dst_ip |-> d, uid |-> u])
  /\ UNCHANGED <<now, userVars, ruleVars, server, filter_time_list, gc>>

(* allow_connect2 returns: the connection ends,                            *)
Deny(c) ==
  /\ InPc(c, "check") /\ Returned(c, DENY)
  /\ Goto(c, "end") /\ Return(c)
  /\ UNCHANGED <<now, userVars, ruleVars, server, filter_time_list, gc>>

(* or is listed.                                                           *)
add_filter_time(c) ==
  /\ InPc(c, "check") /\ Returned(c, ALLOW) /\ ListFree
  /\ filter_time_list' = [filter_time_list EXCEPT ![c] = walk[c].s]
  /\ Goto(c, "serve") /\ Return(c)
  /\ gc' = [gc EXCEPT !.kept = @ \ {c}]
  /\ UNCHANGED <<now, userVars, ruleVars, server>>

(* Variant: a thread that waits for its socket is not woken when it is     *)
(* closed.                                                                 *)
EndIfOpen(c) ==
  /\ server[c] = "open"
  /\ InPc(c, "wait") \/ InPc(c, "serve")
  /\ Goto(c, "end")
  /\ UNCHANGED <<now, userVars, ruleVars, server, filter_time_list, walk, gc>>

(* A side closes the connection, an operation fails or takes too long, or  *)
(* the name of the destination is unknown.                                 *)
End(c) ==
  /\ InPc(c, "wait") \/ InPc(c, "serve")
  /\ Goto(c, "end")
  /\ UNCHANGED <<now, userVars, ruleVars, server, filter_time_list, walk, gc>>

(* Variant: the server is deleted first.                                   *)
DeletedFirst(c) ==
  /\ InPc(c, "end") /\ server[c] # "none"
  /\ server' = [server EXCEPT ![c] = "none"]
  /\ Goto(c, "deleted")
  /\ UNCHANGED <<now, userVars, ruleVars, filter_time_list, walk, gc>>

del_filter_time(c) ==
  /\ InPc(c, "end") /\ ListFree
  /\ Unlist(c)
  /\ Goto(c, "deleted")
  /\ gc' = [gc EXCEPT !.kept = @ \ {c}]
  /\ UNCHANGED <<now, userVars, ruleVars, server, walk>>

DeleteServer(c) ==
  /\ InPc(c, "deleted")
  /\ server' = [server EXCEPT ![c] = "none"]
  /\ conn' = [conn EXCEPT ![c] = NoConn]
  /\ UNCHANGED <<now, userVars, ruleVars, filter_time_list, walk, gc>>

ServerThread(c) ==
  \/ Refuse(c) \/ Forget(c) \/ Serve(c) \/ Deny(c) \/ add_filter_time(c)
  \/ del_filter_time(c) \/ DeleteServer(c)

-----------------------------------------------------------------------------
(* The time thread: check_time goes through the list,                      *)
Asleep == [at |-> "sleep", todo |-> {}, c |-> Nil, kept |-> {}, since |-> 0]

check_time ==
  /\ gc.at = "sleep"
  /\ gc' = [Asleep EXCEPT !.at = "pick", !.since = now,
                          !.todo = {c \in Conn : filter_time_list[c] # Nil}]
  /\ UNCHANGED <<now, userVars, ruleVars, connVars, walk>>

Pick(c) ==
  /\ gc.at = "pick" /\ c \in gc.todo
  /\ gc' = [gc EXCEPT !.at = "check", !.c = c]
  /\ CallCheck(Collector, filter_time_list[c])
  /\ UNCHANGED <<now, userVars, ruleVars, connVars>>

Keep ==
  /\ gc.at = "check" /\ Returned(Collector, ALLOW)
  /\ gc' = [gc EXCEPT !.at = "pick", !.todo = @ \ {gc.c}, !.kept = @ \cup {gc.c}]
  /\ Return(Collector)
  /\ UNCHANGED <<now, userVars, ruleVars, connVars>>

(* It closes the server of a connection that is not allowed any more, and  *)
(* steps on from the entry it has just erased: to the next, or the end.    *)
Close ==
  /\ gc.at = "check" /\ Returned(Collector, DENY)
  /\ server' = [server EXCEPT ![gc.c] = "closed"]
  /\ Unlist(gc.c)
  /\ \E rest \in {gc.todo \ {gc.c}, {}} : gc' = [gc EXCEPT !.at = "pick", !.todo = rest]
  /\ Return(Collector)
  /\ UNCHANGED <<now, userVars, ruleVars, conn>>

EndCheckTime ==
  /\ gc.at = "pick" /\ gc.todo = {}
  /\ gc' = [gc EXCEPT !.at = "flush"]
  /\ UNCHANGED <<now, userVars, ruleVars, connVars, walk>>

(* then come the logins, under m_lock,                                     *)
LockLogins ==
  /\ gc.at = "flush" /\ Enter(Collector)
  /\ UNCHANGED <<ruleVars, connVars, walk, gc>>

Flush ==
  /\ gc.at = "flush" /\ InSection(Collector)
  /\ FlushLoginUser
  /\ gc' = [gc EXCEPT !.at = "hour"]
  /\ UNCHANGED <<now, record, gids, m_lock, page, pages, ruleVars, connVars, walk>>

UnlockLogins ==
  /\ gc.at = "hour" /\ Exit(Collector)
  /\ UNCHANGED <<ruleVars, connVars, walk, gc>>

(* and, every hour, the rules that have expired.                           *)
InEffect(r) == ~(r.expire_time > 0 /\ r.expire_time < now)

KeptOf(s) ==
  LET kept[i \in 0..Len(s)] ==
        IF i = 0 THEN <<>>
        ELSE IF InEffect(s[i]) THEN Append(kept[i - 1], s[i]) ELSE kept[i - 1]
  IN kept[Len(s)]

checkExpireChain ==
  /\ gc.at = "hour" /\ guest[Collector] = "out" /\ NoReader
  /\ m_chains' = [m \in Model |-> KeptOf(m_chains[m])]
  /\ gc' = Asleep
  /\ UNCHANGED <<now, userVars, first, connVars, walk>>

NotHourly ==
  /\ gc.at = "hour" /\ guest[Collector] = "out"
  /\ gc' = Asleep
  /\ UNCHANGED <<now, userVars, ruleVars, connVars, walk>>

TimeThread ==
  \/ check_time \/ (\E c \in Conn : Pick(c)) \/ Keep \/ Close \/ EndCheckTime
  \/ LockLogins \/ Flush \/ UnlockLogins \/ checkExpireChain \/ NotHourly

(* A pass takes no longer than the time-out of logins.                     *)
Time ==
  /\ Tick
  /\ gc.at = "sleep" \/ now < gc.since + TimeOut
  /\ UNCHANGED <<userVars, ruleVars, connVars, walk, gc>>

-----------------------------------------------------------------------------
(* History, for each call of Check: what the rules said meanwhile, and     *)
(* whether more has changed than one list once, under the write lock,      *)
(* somebody is logged in whose record was freed, or a login that is        *)
(* written late makes one idle for longer than it is.                      *)
LoggedInUsers == [i \in Addr |-> IF LoggedIn(i) THEN login[i].user ELSE Nil]
InForce == [m \in Model |-> {k \in DOMAIN m_chains[m] : now \in m_chains[m][k].m_time}]

Stirred ==
  \/ first' # first \/ gids' # gids \/ record' # record \/ LoggedInUsers' # LoggedInUsers
  \/ now' # now /\ InForce' # InForce
  \/ \E i \in Addr : Freed(i)'
  \/ \E i \in Addr : LoggedIn(i) /\ LoggedIn(i)' /\ login'[i].last_active_time < login[i].last_active_time

Torn(w) ==
  IF Stirred \/ (Reading(w) /\ m_chains' # m_chains) THEN 2
  ELSE IF m_chains' # m_chains /\ torn[w] < 2 THEN torn[w] + 1
  ELSE torn[w]

Idling(w) == walk[w].at = "idle"

Remember ==
  /\ torn' = [w \in Walker |-> IF Idling(w) \/ Idling(w)' THEN 0 ELSE Torn(w)]
  /\ seen' = [w \in Walker |-> IF Idling(w)' \/ torn'[w] = 2 THEN {}
                               ELSE seen[w] \cup {Decision(walk[w].s)'}]
  /\ still' = (gc.at = "sleep" \/ (still /\ ~Stirred /\ m_chains' = m_chains))

-----------------------------------------------------------------------------
(* The start: access.conf has been read, and nobody is connected.          *)
InitAccess ==
  /\ m_chains \in AccessConf
  /\ first \in Model
  /\ conn = [c \in Conn |-> NoConn]
  /\ server = [c \in Conn |-> "none"]
  /\ filter_time_list = [c \in Conn |-> Nil]
  /\ walk = [w \in Walker |-> NoWalk]
  /\ gc = Asleep
  /\ seen = [w \in Walker |-> {}]
  /\ torn = [w \in Walker |-> 0]
  /\ still = TRUE

Init == InitUsers /\ InitAccess

RulePage(p) ==
  \/ \E m \in Model, r \in Rules : MakeChain(p, m, r)
  \/ \E m \in Model, k \in 1..MaxRules : DelChain(p, m, k)
  \/ changeFirst(p)

Client(c) ==
  \/ \E i \in Addr, s \in Service : Accept(c, i, s)
  \/ \E d \in Dst, u \in Name \cup {Nil} : Request(c, d, u)
  \/ End(c)

Next ==
  /\ \/ \E p \in Page : UserPage(p) /\ UNCHANGED <<ruleVars, connVars, walk, gc>>
     \/ \E p \in Page : RulePage(p)
     \/ \E i \in Addr : Ban(i)
     \/ \E c \in Conn : Client(c) \/ ServerThread(c)
     \/ \E w \in Walker : Check(w)
     \/ TimeThread
     \/ Time
  /\ Remember

Spec == Init /\ [][Next]_vars

(* Threads that can go on do, and get the lock of the list, and the one of *)
(* the logins, in the end: sections are short, and the time thread sleeps  *)
(* five seconds between two passes.  A connection that was closed under    *)
(* its thread ends, since the next operation on the socket fails.  Clients *)
(* may do nothing, and pages need not begin anything.                      *)
FairSpec ==
  /\ Spec
  /\ \A c \in Conn : SF_vars(ServerThread(c) /\ Remember)
  /\ \A c \in Conn : WF_vars(server[c] = "closed" /\ End(c) /\ Remember)
  /\ \A w \in Walker : SF_vars(Check(w) /\ Remember)
  /\ SF_vars(TimeThread /\ Remember)
  /\ \A p \in Page :
       WF_vars(PageGoesOn(p) /\ UNCHANGED <<ruleVars, connVars, walk, gc>> /\ Remember)
=============================================================================
