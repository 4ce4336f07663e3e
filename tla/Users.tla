------------------------------- MODULE Users -------------------------------
(***************************************************************************)
(* Who is logged in (KUser.cpp): the table m_user of logins by address,    *)
(* and the records of all users as far as logins and groups depend on      *)
(* them.  A section under m_root_lock is one step.  One under m_lock is    *)
(* several: where ForceLogout ends a former login of a user who logs in    *)
(* again, it unlocks m_lock, Login goes on without it and then unlocks it  *)
(* once more, whoever holds it by then, so that other sections may meet.   *)
(* The pages that only list users or groups are left out.  (GetUserName,   *)
(* KUser.cpp:752, unlocks m_root_lock in their sections, 489 and 538.)     *)
(* A name is created at most once, so it stands for its uid as well.       *)
(***************************************************************************)
EXTENDS Integers, FiniteSets

CONSTANTS
  Name,      \* users, which are groups too
  Addr,      \* addresses of clients
  Page,      \* threads that serve management pages
  Conn,      \* worker threads, which ask who is logged in
  ALLUSER,   \* the group of everyone who is logged in
  Nil,
  TimeOut,   \* conf.user_time_out
  MaxTime,   \* bound: the clock stops there
  MaxPages   \* bound: number of operations of management pages

Collector == "time_thread"
Walker == Conn \cup {Collector}

ASSUME UsersAssumption ==
  /\ TimeOut \in Nat \ {0} /\ MaxTime \in Nat /\ MaxPages \in Nat
  /\ Nil \notin Name \cup Addr /\ ALLUSER \notin Name
  /\ Collector \notin Conn

VARIABLES
  now,
  record,    \* m_all_user: whether there is a UserInfo of the name, or it was freed
  gids,      \* UserInfo.gids
  login,     \* m_user
  m_lock,    \* whether the lock of m_user is taken
  page,      \* what the page threads are at
  pages,     \* operations so far
  guest      \* the others: out of m_lock's sections, in one, or done in it

lockVars == <<m_lock, page, guest>>
userVars == <<record, gids, login, pages, lockVars>>

LoginUserInfo == [user : Name, last_active_time : Nat]
(* What a page thread is at.                                                *)
PageOp ==
  {"idle", "login", "inside", "found", "write", "unlocked", "again", "leave", "logout", "kill",
   "expel", "expelled", "delete"}

IdlePage == [op |-> "idle", ip |-> Nil, user |-> Nil, time |-> 0]

At(p, op) == page[p].op = op
GoOn(p, op) == page' = [page EXCEPT ![p].op = op]
Leave(p) == page' = [page EXCEPT ![p] = IdlePage]

Begin(p) ==
  /\ At(p, "idle") /\ pages < MaxPages
  /\ pages' = pages + 1

LoggedIn(i) == login[i] # Nil
Erase(S) == login' = [i \in Addr |-> IF i \in S THEN Nil ELSE login[i]]

(* tmpuser, with the time at which Login was called.                       *)
Insert(p) ==
  login' = [login EXCEPT ![page[p].ip] =
              [user |-> page[p].user, last_active_time |-> page[p].time]]

-----------------------------------------------------------------------------
(* m_lock.  Unlock frees it for the next, whoever has taken it.            *)
Lock   == ~m_lock /\ m_lock' = TRUE
Unlock == m_lock' = FALSE

(* A page is in a section, or still in what was one when it called         *)
(* ForceLogout.                                                            *)
Inside(p) == page[p].op \in {"inside", "found", "write", "leave", "logout", "kill", "expel", "expelled"}
Stray(p)  == page[p].op \in {"unlocked", "again"}

(* The sections of the worker threads and the time thread.                 *)
Enter(w) ==
  /\ guest[w] = "out" /\ Lock
  /\ guest' = [guest EXCEPT ![w] = "in"]
  /\ UNCHANGED <<now, record, gids, login, page, pages>>

InSection(w) == guest[w] = "in" /\ guest' = [guest EXCEPT ![w] = "done"]

Exit(w) ==
  /\ guest[w] # "out" /\ Unlock
  /\ guest' = [guest EXCEPT ![w] = "out"]
  /\ UNCHANGED <<now, record, gids, login, page, pages>>

-----------------------------------------------------------------------------
(* ForceLogout looks for the name through the pointer of each login, and   *)
(* erases the first it finds.  The order of the addresses is left open.    *)
(* The name in a record that was freed can be anything.                    *)
Freed(i) == LoggedIn(i) /\ record[login[i].user] = "freed"
Of(i, n) == LoggedIn(i) /\ login[i].user = n
MayFind(i, n) == Of(i, n) \/ Freed(i)
MayMiss(n) == \A i \in Addr : Of(i, n) => Freed(i)

ForceLogout(n) ==
  \/ \E i \in Addr : MayFind(i, n) /\ Erase({i})
  \/ MayMiss(n) /\ UNCHANGED login

-----------------------------------------------------------------------------
(* /login, with the right password: the record is looked up and marked     *)
(* under m_root_lock.                                                      *)
LoginStart(p, i, n) ==
  /\ Begin(p) /\ record[n] = "live"
  /\ page' = [page EXCEPT ![p] = [op |-> "login", ip |-> i, user |-> n, time |-> now]]
  /\ UNCHANGED <<now, record, gids, login, m_lock, guest>>

(* Then, under m_lock:                                                     *)
LoginLock(p) ==
  /\ At(p, "login") /\ Lock
  /\ GoOn(p, "inside")
  /\ UNCHANGED <<now, record, gids, login, pages, guest>>

(* the address is taken, or not,                                           *)
LoginTaken(p) ==
  /\ At(p, "inside") /\ LoggedIn(page[p].ip)
  /\ GoOn(p, "leave")
  /\ UNCHANGED <<now, record, gids, login, m_lock, pages, guest>>

(* Variant: that is not asked.                                             *)
LoginAnyway(p) ==
  /\ At(p, "inside")
  /\ GoOn(p, "found")
  /\ UNCHANGED <<now, record, gids, login, m_lock, pages, guest>>

LoginFree(p) ==
  /\ At(p, "inside") /\ ~LoggedIn(page[p].ip)
  /\ GoOn(p, "found")
  /\ UNCHANGED <<now, record, gids, login, m_lock, pages, guest>>

(* Variant: a former login of the user stays.                              *)
LoginBeside(p) ==
  /\ At(p, "found")
  /\ GoOn(p, "write")
  /\ UNCHANGED <<now, record, gids, login, m_lock, pages, guest>>

(* the user is logged in nowhere,                                          *)
LoginNew(p) ==
  /\ At(p, "found") /\ MayMiss(page[p].user)
  /\ GoOn(p, "write")
  /\ UNCHANGED <<now, record, gids, login, m_lock, pages, guest>>

(* or a former login of the user ends first, and m_lock is given away.     *)
LoginAgain(p) ==
  /\ At(p, "found")
  /\ \E i \in Addr : MayFind(i, page[p].user) /\ Erase({i})
  /\ Unlock /\ GoOn(p, "unlocked")
  /\ UNCHANGED <<now, record, gids, pages, guest>>

(* The entry is then written.  If somebody else changes the tree of the    *)
(* map meanwhile, it may get lost.                                         *)
Raced(p) ==
  \/ \E q \in Page \ {p} : Inside(q) \/ At(q, "unlocked")
  \/ \E w \in Walker : guest[w] # "out"

LoginWrite(p) ==
  /\ \/ At(p, "write") /\ GoOn(p, "leave")
     \/ At(p, "unlocked") /\ GoOn(p, "again")
  /\ Insert(p) \/ (Raced(p) /\ UNCHANGED login)
  /\ UNCHANGED <<now, record, gids, m_lock, pages, guest>>

(* The end of a section, and the second Unlock of one that was left.       *)
PageUnlock(p) ==
  /\ Unlock
  /\ \/ page[p].op \in {"leave", "again"} /\ Leave(p)
     \/ At(p, "expelled") /\ GoOn(p, "delete")
  /\ UNCHANGED <<now, record, gids, login, pages, guest>>

-----------------------------------------------------------------------------
(* The other pages lock m_lock for one thing: to end a login.              *)
Work(op, i, n) == [op |-> op, ip |-> i, user |-> n, time |-> 0]

Begins(p, work) ==
  /\ Begin(p) /\ Lock
  /\ page' = [page EXCEPT ![p] = work]
  /\ UNCHANGED <<now, record, gids, login, guest>>

Logout(p, i) == Begins(p, Work("logout", i, Nil))

(* /killloginuser                                                          *)
Kill(p, n) == Begins(p, Work("kill", Nil, n))

(* DelUser has one section for the logins and one for the records.         *)
DelUserLogin(p, n) == record[n] = "live" /\ Begins(p, Work("expel", Nil, n))

EndLogin(p) ==
  /\ \/ At(p, "logout") /\ Erase({page[p].ip}) /\ GoOn(p, "leave")
     \/ At(p, "kill") /\ ForceLogout(page[p].user) /\ GoOn(p, "leave")
     \/ At(p, "expel") /\ ForceLogout(page[p].user) /\ GoOn(p, "expelled")
  /\ UNCHANGED <<now, record, gids, m_lock, pages, guest>>

DelUserRecord(p) ==
  /\ At(p, "delete")
  /\ record' = [record EXCEPT ![page[p].user] = "freed"]
  /\ Leave(p)
  /\ UNCHANGED <<now, gids, login, m_lock, pages, guest>>

NewUser(p, n) ==
  /\ Begin(p) /\ record[n] = "absent"
  /\ record' = [record EXCEPT ![n] = "live"]
  /\ UNCHANGED <<now, gids, login, lockVars>>

AddGroup(p, n, g) ==
  /\ Begin(p) /\ record[n] = "live" /\ record[g] = "live"
  /\ g # n /\ g \notin gids[n]
  /\ gids' = [gids EXCEPT ![n] = @ \cup {g}]
  /\ UNCHANGED <<now, record, login, lockVars>>

DelGroup(p, n, g) ==
  /\ Begin(p) /\ record[n] = "live" /\ g \in gids[n]
  /\ gids' = [gids EXCEPT ![n] = @ \ {g}]
  /\ UNCHANGED <<now, record, login, lockVars>>

-----------------------------------------------------------------------------
(* The answers CheckUser may give about an address and a group; a yes      *)
(* counts as activity.                                                     *)
CheckUser(i, g) ==
  IF ~LoggedIn(i) THEN {FALSE}
  ELSE IF g \in {ALLUSER, login[i].user} THEN {TRUE}
  ELSE IF Freed(i) THEN BOOLEAN
  ELSE {(g \in gids[login[i].user])}

(* Variants: an answer is not activity, and the entry gets the time at     *)
(* which the login will end.                                               *)
StayIdle(i) == UNCHANGED login
RefreshAhead(i) == login' = [login EXCEPT ![i].last_active_time = now + TimeOut]

Refresh(i) == login' = [login EXCEPT ![i].last_active_time = now]

CheckGroup(n, g) ==
  \/ g \in {ALLUSER, n}
  \/ record[n] = "live" /\ g \in gids[n]

(* FlushLoginUser, in the time thread.  It steps from an entry it has just *)
(* erased: it may find the next one, or the end.  Variant: it stops at     *)
(* the first login that is not idle.                                       *)
Idle(i) == LoggedIn(i) /\ now - login[i].last_active_time > TimeOut

FlushUntilActive ==
  LET active == {i \in Addr : LoggedIn(i) /\ ~Idle(i)}
  IN  IF active = {} THEN Erase(Addr) ELSE UNCHANGED login

FlushLoginUser ==
  LET idle == {i \in Addr : Idle(i)}
  IN  \E S \in SUBSET idle : (idle # {} => S # {}) /\ Erase(S)

-----------------------------------------------------------------------------
(* The start: some users are in the file, and LoadLoginUser has logged in  *)
(* who was when it was written, each user at most once.                    *)
InitUsers ==
  /\ now = 0
  /\ record \in [Name -> {"absent", "live"}]
  /\ gids \in [Name -> SUBSET Name]
  /\ \A n \in Name : n \notin gids[n] /\ (record[n] = "absent" => gids[n] = {})
  /\ \A n \in Name : \A g \in gids[n] : record[g] = "live"
  /\ login \in [Addr -> {Nil} \cup [user : Name, last_active_time : {0}]]
  /\ \A i, j \in Addr :
       LoggedIn(i) => /\ record[login[i].user] = "live"
                      /\ Of(j, login[i].user) => i = j
  /\ m_lock = FALSE
  /\ page = [p \in Page |-> IdlePage]
  /\ guest = [w \in Walker |-> "out"]
  /\ pages = 0

(* What the pages do with users.                                           *)
PageGoesOn(p) ==
  \/ LoginLock(p) \/ LoginTaken(p) \/ LoginFree(p) \/ LoginNew(p) \/ LoginAgain(p)
  \/ LoginWrite(p) \/ EndLogin(p) \/ PageUnlock(p) \/ DelUserRecord(p)

UserPage(p) ==
  \/ \E i \in Addr, n \in Name : LoginStart(p, i, n)
  \/ \E i \in Addr : Logout(p, i)
  \/ \E n \in Name : Kill(p, n) \/ DelUserLogin(p, n) \/ NewUser(p, n)
  \/ \E n, g \in Name : AddGroup(p, n, g) \/ DelGroup(p, n, g)
  \/ PageGoesOn(p)

Tick == now < MaxTime /\ now' = now + 1
=============================================================================
