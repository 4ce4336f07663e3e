---------------------------- MODULE AccessProofs ----------------------------
(***************************************************************************)
(* Theorems about the table of logins and the access filter that uses it,  *)
(* for all sets of users, addresses, page threads, connections and rules.  *)
(***************************************************************************)
EXTENDS AccessInv, LoginTable, FiniteSetTheorems, WellFoundedInduction, TLAPS

-----------------------------------------------------------------------------
(* The table of logins by itself.                                          *)

(* What of TableTypeOK a step of a page, the access filter or the time     *)
(* thread can disturb.                                                     *)
LoginsOK ==
  /\ login \in [Addr -> LoginUserInfo \cup {Nil}]
  /\ \A i \in Addr : LoggedIn(i) => login[i].last_active_time <= now

PageType == [op : PageOp, ip : Addr \cup {Nil}, user : Name \cup {Nil}, time : 0..MaxTime]
ExpelOp == {"expel", "expelled", "delete"}

EntryOK(e) ==
  /\ e \in PageType
  /\ e.op \in LoginOp => e.ip # Nil /\ e.user # Nil
  /\ e.op \in ExpelOp => e.user # Nil
  /\ e.time <= now

PagesOK ==
  /\ page \in [Page -> PageType]
  /\ \A p \in Page : EntryOK(page[p])

LockOK == m_lock \in BOOLEAN /\ guest \in [Walker -> {"out", "in", "done"}]

LEMMA TypeParts ==
  TableTypeOK <=> /\ now \in 0..MaxTime /\ pages \in 0..MaxPages
             /\ record \in [Name -> {"absent", "live", "freed"}]
             /\ gids \in [Name -> SUBSET Name]
             /\ LoginsOK /\ PagesOK /\ LockOK
<1>1. PagesOK <=> /\ page \in [Page -> PageType]
                  /\ \A p \in Page :
                       /\ page[p].op \in LoginOp => page[p].ip # Nil /\ page[p].user # Nil
                       /\ page[p].op \in ExpelOp => page[p].user # Nil
                       /\ page[p].time <= now
  BY DEF PagesOK, EntryOK
<1> QED BY <1>1 DEF TableTypeOK, LoginsOK, LockOK, PageType, ExpelOp

-----------------------------------------------------------------------------
(* What the operations leave of the table: Erase and Refresh bring no new  *)
(* login, Insert brings one.                                               *)
NoNewLogin ==
  \A i \in Addr : login'[i] # Nil => login[i] # Nil /\ login'[i].user = login[i].user

OneNewLogin(j, n) ==
  /\ login' \in [Addr -> LoginUserInfo \cup {Nil}]
  /\ login'[j].user = n
  /\ \A i \in Addr \ {j} : login'[i] = login[i]

LEMMA EraseOK ==
  ASSUME LoginsOK, NEW S, Erase(S), now' = now
  PROVE  LoginsOK' /\ NoNewLogin
BY DEF LoginsOK, Erase, NoNewLogin, LoggedIn

LEMMA InsertOK ==
  ASSUME LoginsOK, NEW p \in Page, PagesOK, page[p].op \in LoginOp, Insert(p),
         now \in Nat, now' = now
  PROVE  /\ LoginsOK' /\ OneNewLogin(page[p].ip, page[p].user)
         /\ page[p].ip \in Addr /\ page[p].user \in Name
<1>1. /\ page[p].ip \in Addr /\ page[p].user \in Name
      /\ page[p].time \in Nat /\ page[p].time <= now
  BY UsersAssumption DEF PagesOK, EntryOK, PageType
<1> DEFINE i == page[p].ip
           e == [user |-> page[p].user, last_active_time |-> page[p].time]
<1>2. e \in LoginUserInfo /\ e.last_active_time <= now /\ e.user = page[p].user
  BY <1>1 DEF LoginUserInfo
<1>3. login' = [login EXCEPT ![i] = e] /\ i \in Addr
  BY <1>1 DEF Insert
<1> HIDE DEF i, e
<1>4. LoginsOK' /\ OneNewLogin(i, page[p].user)
  BY <1>2, <1>3 DEF LoginsOK, OneNewLogin, LoggedIn
<1> QED BY <1>1, <1>4 DEF i

LEMMA RefreshOK ==
  ASSUME LoginsOK, NEW i \in Addr, LoggedIn(i), Refresh(i), now \in Nat, now' = now
  PROVE  LoginsOK' /\ NoNewLogin
<1>1. /\ login[i] \in LoginUserInfo
      /\ login' = [login EXCEPT ![i].last_active_time = now]
  BY DEF LoginsOK, LoggedIn, Refresh
<1>2. /\ login'[i] \in LoginUserInfo
      /\ login'[i].user = login[i].user /\ login'[i].last_active_time = now
  BY <1>1 DEF LoginsOK, LoginUserInfo
<1>3. \A j \in Addr \ {i} : login'[j] = login[j]
  BY <1>1 DEF LoginsOK
<1>4. login' \in [Addr -> LoginUserInfo \cup {Nil}]
  BY <1>1, <1>2, <1>3 DEF LoginsOK
<1> QED BY <1>1, <1>2, <1>3, <1>4 DEF LoginsOK, NoNewLogin, LoggedIn

LEMMA ForceLogoutOK ==
  ASSUME LoginsOK, NEW n, ForceLogout(n), now' = now
  PROVE  LoginsOK' /\ NoNewLogin
<1>1. CASE \E i \in Addr : Erase({i})
  BY <1>1, EraseOK
<1>2. CASE UNCHANGED login
  BY <1>2 DEF LoginsOK, NoNewLogin, LoggedIn
<1> QED BY <1>1, <1>2 DEF ForceLogout

-----------------------------------------------------------------------------
(* What a page thread does to its entry; everybody else is where he was.   *)
Turns(p, from, to) ==
  /\ page[p].op = from /\ page'[p].op = to
  /\ \A q \in Page \ {p} : page'[q] = page[q]

SameWork(p) == page'[p].ip = page[p].ip /\ page'[p].user = page[p].user

LEMMA EntryPut ==
  ASSUME PagesOK, NEW p \in Page, NEW e, EntryOK(e), page' = [page EXCEPT ![p] = e], now' = now
  PROVE  PagesOK' /\ Turns(p, page[p].op, e.op) /\ page'[p] = e
<1>1. /\ page' \in [Page -> PageType]
      /\ page'[p] = e /\ \A q \in Page \ {p} : page'[q] = page[q]
  BY DEF PagesOK, EntryOK
<1>2. \A q \in Page : EntryOK(page[q])'
  BY <1>1 DEF PagesOK, EntryOK
<1> QED BY <1>1, <1>2 DEF PagesOK, Turns

LEMMA LeaveOK ==
  ASSUME PagesOK, NEW p \in Page, Leave(p), now \in Nat, now' = now
  PROVE  PagesOK' /\ Turns(p, page[p].op, "idle")
<1>1. EntryOK(IdlePage) /\ IdlePage.op = "idle"
  BY UsersAssumption DEF IdlePage, EntryOK, PageType, PageOp, LoginOp, ExpelOp
<1> QED BY <1>1, EntryPut DEF Leave

LEMMA EnterOK ==
  ASSUME PagesOK, NEW p \in Page, NEW op \in PageOp, NEW i \in Addr \cup {Nil},
         NEW n \in Name \cup {Nil}, NEW t \in 0..MaxTime, t <= now, now' = now,
         op \in LoginOp => i # Nil, op \in LoginOp \cup ExpelOp => n # Nil,
         page' = [page EXCEPT ![p] = [op |-> op, ip |-> i, user |-> n, time |-> t]]
  PROVE  PagesOK' /\ Turns(p, page[p].op, op)
<1> DEFINE e == [op |-> op, ip |-> i, user |-> n, time |-> t]
<1>1. EntryOK(e) /\ e.op = op
  BY DEF EntryOK, PageType
<1> QED BY <1>1, EntryPut

LEMMA GoOnOK ==
  ASSUME PagesOK, NEW p \in Page, NEW op \in PageOp, GoOn(p, op), now' = now,
         op \in LoginOp => page[p].op \in LoginOp, op \in ExpelOp => page[p].op \in ExpelOp
  PROVE  PagesOK' /\ Turns(p, page[p].op, op) /\ SameWork(p)
<1> DEFINE e == [page[p] EXCEPT !.op = op]
<1>1. page[p] \in PageType /\ EntryOK(page[p])
  BY DEF PagesOK
<1>2. e \in PageType /\ e.op = op /\ e.ip = page[p].ip /\ e.user = page[p].user /\ e.time = page[p].time
  BY <1>1 DEF PageType
<1>3. EntryOK(e) /\ page' = [page EXCEPT ![p] = e]
  BY <1>1, <1>2 DEF EntryOK, GoOn
<1> HIDE DEF e
<1> QED BY <1>2, <1>3, EntryPut DEF SameWork

LEMMA BeginOK ==
  ASSUME NEW p \in Page, Begin(p), pages \in 0..MaxPages
  PROVE  pages' \in 0..MaxPages
BY UsersAssumption DEF Begin

-----------------------------------------------------------------------------
(* The steps of a page, by where it comes from and where it goes: only the *)
(* write of Login brings a login, and at most one.                         *)
Writes(p) ==
  \/ NoNewLogin
  \/ /\ LoginWrite(p) /\ page[p].ip \in Addr /\ page[p].user \in Name
     /\ OneNewLogin(page[p].ip, page[p].user)

TurnAside(p) ==
  /\ UNCHANGED <<login, m_lock>>
  /\ page' = page \/ Turns(p, "idle", "login") \/ Turns(p, "inside", "leave") \/ Turns(p, "delete", "idle")

TurnIn(p) ==
  /\ Lock /\ UNCHANGED login
  /\ \/ Turns(p, "login", "inside")
     \/ Turns(p, "idle", "logout") \/ Turns(p, "idle", "kill") \/ Turns(p, "idle", "expel")

TurnLook(p) ==
  /\ UNCHANGED <<login, m_lock>> /\ SameWork(p)
  /\ \/ Turns(p, "inside", "found") /\ LoginFree(p)
     \/ Turns(p, "found", "write") /\ LoginNew(p)

TurnWrite(p) ==
  /\ UNCHANGED m_lock
  /\ \/ (Turns(p, "write", "leave") \/ Turns(p, "unlocked", "again")) /\ Writes(p)
     \/ /\ NoNewLogin
        /\ Turns(p, "logout", "leave") \/ Turns(p, "kill", "leave") \/ Turns(p, "expel", "expelled")

TurnOut(p) ==
  /\ Unlock /\ NoNewLogin
  /\ \/ Turns(p, "found", "unlocked") /\ LoginAgain(p)
     \/ Turns(p, "leave", "idle") \/ Turns(p, "again", "idle") \/ Turns(p, "expelled", "delete")

Turn(p) == TurnAside(p) \/ TurnIn(p) \/ TurnLook(p) \/ TurnWrite(p) \/ TurnOut(p)

Rest == /\ now \in 0..MaxTime /\ pages \in 0..MaxPages
        /\ record \in [Name -> {"absent", "live", "freed"}]
        /\ gids \in [Name -> SUBSET Name]

Freedom == \A n \in Name : record[n] = "freed" => record'[n] = "freed"

AllOK == Rest /\ LoginsOK /\ PagesOK /\ LockOK

LEMMA PageTurn ==
  ASSUME AllOK, NEW p \in Page, UserPage(p)
  PROVE  AllOK' /\ UNCHANGED <<now, guest>> /\ Freedom /\ Turn(p)
<1> DEFINE Goal == AllOK' /\ UNCHANGED <<now, guest>> /\ Freedom /\ Turn(p)
<1>0. Rest /\ LoginsOK /\ PagesOK /\ LockOK /\ now \in Nat
  BY UsersAssumption DEF AllOK, Rest
<1>l. UNCHANGED <<login, now>> => LoginsOK' /\ NoNewLogin
  BY <1>0 DEF LoginsOK, NoNewLogin, LoggedIn
<1>m. UNCHANGED <<m_lock, guest>> \/ (Lock /\ UNCHANGED guest) \/ (Unlock /\ UNCHANGED guest) => LockOK'
  BY <1>0 DEF LockOK, Lock, Unlock
<1>p. UNCHANGED <<page, now>> => PagesOK'
  BY <1>0 DEF PagesOK, EntryOK
<1>r. UNCHANGED <<now, record, gids, pages>> => Rest' /\ Freedom
  BY <1>0 DEF Rest, Freedom
<1>b. UNCHANGED <<now, record, gids>> /\ Begin(p) => Rest' /\ Freedom /\ page[p].op = "idle"
  BY <1>0, BeginOK DEF Rest, Freedom, Begin, At
<1>1. ASSUME NEW i \in Addr, NEW n \in Name, LoginStart(p, i, n)
      PROVE  Goal
  <2>1. i # Nil /\ n # Nil /\ now \in 0..MaxTime /\ now <= now /\ "login" \in PageOp
        /\ now' = now /\ page' = [page EXCEPT ![p] = [op |-> "login", ip |-> i, user |-> n, time |-> now]]
    BY <1>0, <1>1, UsersAssumption DEF Rest, PageOp, LoginStart
  <2>2. PagesOK' /\ Turns(p, page[p].op, "login")
    BY <2>1, <1>0, EnterOK
  <2> QED BY <1>1, <2>2, <1>0, <1>l, <1>m, <1>b DEF LoginStart, AllOK, Turn, TurnAside
<1>2. CASE LoginLock(p)
  <2>1. PagesOK' /\ Turns(p, page[p].op, "inside")
    BY <1>2, <1>0, GoOnOK DEF LoginLock, At, PageOp, LoginOp, ExpelOp
  <2> QED BY <1>2, <2>1, <1>l, <1>m, <1>r DEF LoginLock, At, AllOK, Turn, TurnIn
<1>3. CASE LoginTaken(p)
  <2>1. PagesOK' /\ Turns(p, page[p].op, "leave")
    BY <1>3, <1>0, GoOnOK DEF LoginTaken, At, PageOp, LoginOp, ExpelOp
  <2> QED BY <1>3, <2>1, <1>l, <1>m, <1>r DEF LoginTaken, At, AllOK, Turn, TurnAside
<1>4. CASE LoginFree(p)
  <2>1. PagesOK' /\ Turns(p, page[p].op, "found") /\ SameWork(p)
    BY <1>4, <1>0, GoOnOK DEF LoginFree, At, PageOp, LoginOp, ExpelOp
  <2>2. UNCHANGED <<now, record, gids, login, m_lock, pages, guest>> /\ page[p].op = "inside"
    BY <1>4 DEF LoginFree, At
  <2> QED BY <1>4, <2>1, <2>2, <1>l, <1>m, <1>r DEF AllOK, Turn, TurnLook
<1>5. CASE LoginNew(p)
  <2>1. PagesOK' /\ Turns(p, page[p].op, "write") /\ SameWork(p)
    BY <1>5, <1>0, GoOnOK DEF LoginNew, At, PageOp, LoginOp, ExpelOp
  <2>2. UNCHANGED <<now, record, gids, login, m_lock, pages, guest>> /\ page[p].op = "found"
    BY <1>5 DEF LoginNew, At
  <2> QED BY <1>5, <2>1, <2>2, <1>l, <1>m, <1>r DEF AllOK, Turn, TurnLook
<1>6. CASE LoginAgain(p)
  <2>1. PagesOK' /\ Turns(p, page[p].op, "unlocked")
    BY <1>6, <1>0, GoOnOK DEF LoginAgain, At, PageOp, LoginOp, ExpelOp
  <2>2. LoginsOK' /\ NoNewLogin
    BY <1>6, <1>0, EraseOK DEF LoginAgain
  <2> QED BY <1>6, <2>1, <2>2, <1>m, <1>r DEF LoginAgain, At, AllOK, Turn, TurnOut
<1>7. CASE LoginWrite(p)
  <2>1. /\ PagesOK'
        /\ Turns(p, "write", "leave") \/ Turns(p, "unlocked", "again")
        /\ page[p].op \in LoginOp
    BY <1>7, <1>0, GoOnOK DEF LoginWrite, At, PageOp, LoginOp, ExpelOp
  <2>2. LoginsOK' /\ Writes(p)
    <3>1. UNCHANGED now /\ (Insert(p) \/ UNCHANGED login)
      BY <1>7 DEF LoginWrite
    <3>2. CASE Insert(p)
      BY <1>7, <3>1, <3>2, <2>1, <1>0, InsertOK DEF Writes
    <3>3. CASE UNCHANGED login
      BY <3>1, <3>3, <1>l DEF Writes
    <3> QED BY <3>1, <3>2, <3>3
  <2>3. UNCHANGED <<now, record, gids, m_lock, pages, guest>>
    BY <1>7 DEF LoginWrite
  <2> QED BY <2>1, <2>2, <2>3, <1>m, <1>r DEF AllOK, Turn, TurnWrite
<1>8. CASE PageUnlock(p)
  <2>1. /\ PagesOK'
        /\ Turns(p, "leave", "idle") \/ Turns(p, "again", "idle") \/ Turns(p, "expelled", "delete")
    <3>1. CASE page[p].op \in {"leave", "again"} /\ Leave(p)
      BY <1>8, <3>1, <1>0, LeaveOK DEF PageUnlock
    <3>2. CASE At(p, "expelled") /\ GoOn(p, "delete")
      BY <1>8, <3>2, <1>0, GoOnOK DEF PageUnlock, At, PageOp, LoginOp, ExpelOp
    <3> QED BY <1>8, <3>1, <3>2 DEF PageUnlock
  <2> QED BY <1>8, <2>1, <1>l, <1>m, <1>r DEF PageUnlock, AllOK, Turn, TurnOut
<1>9. ASSUME NEW op \in {"logout", "kill", "expel"}, NEW i \in Addr \cup {Nil}, NEW n \in Name \cup {Nil},
             op = "expel" => n # Nil, Begins(p, Work(op, i, n))
      PROVE  Goal
  <2>1. 0 \in 0..MaxTime /\ 0 <= now /\ op \in PageOp /\ op \notin LoginOp
        /\ (op \in ExpelOp => op = "expel")
    BY <1>0, UsersAssumption DEF PageOp, LoginOp, ExpelOp
  <2>2. PagesOK' /\ Turns(p, page[p].op, op)
    BY <1>9, <2>1, <1>0, EnterOK DEF Begins, Work
  <2> QED BY <1>9, <2>2, <1>l, <1>m, <1>b DEF Begins, AllOK, Turn, TurnIn
<1>10. ASSUME NEW i \in Addr, Logout(p, i) PROVE Goal
  BY <1>9, <1>10 DEF Logout
<1>11. ASSUME NEW n \in Name, Kill(p, n) PROVE Goal
  BY <1>9, <1>11 DEF Kill
<1>12. ASSUME NEW n \in Name, DelUserLogin(p, n) PROVE Goal
  <2>1. n # Nil /\ Begins(p, Work("expel", Nil, n))
    BY <1>12, UsersAssumption DEF DelUserLogin
  <2> QED BY <2>1, <1>9
<1>13. CASE EndLogin(p)
  <2>1. /\ PagesOK'
        /\ Turns(p, "logout", "leave") \/ Turns(p, "kill", "leave") \/ Turns(p, "expel", "expelled")
    BY <1>13, <1>0, GoOnOK DEF EndLogin, At, PageOp, LoginOp, ExpelOp
  <2>2. LoginsOK' /\ NoNewLogin
    BY <1>13, <1>0, EraseOK, ForceLogoutOK DEF EndLogin
  <2> QED BY <1>13, <2>1, <2>2, <1>m, <1>r DEF EndLogin, AllOK, Turn, TurnWrite
<1>14. CASE DelUserRecord(p)
  <2>1. PagesOK' /\ Turns(p, page[p].op, "idle")
    BY <1>14, <1>0, LeaveOK DEF DelUserRecord
  <2>2. Rest' /\ Freedom
    BY <1>14, <1>0 DEF DelUserRecord, Rest, Freedom
  <2> QED BY <1>14, <2>1, <2>2, <1>l, <1>m DEF DelUserRecord, At, AllOK, Turn, TurnAside
<1>15. ASSUME NEW n \in Name, NewUser(p, n) PROVE Goal
  <2>1. Rest' /\ Freedom
    BY <1>15, <1>0, BeginOK DEF NewUser, Rest, Freedom
  <2> QED BY <1>15, <2>1, <1>l, <1>m, <1>p DEF NewUser, lockVars, AllOK, Turn, TurnAside
<1>16. ASSUME NEW n \in Name, NEW g \in Name, AddGroup(p, n, g) \/ DelGroup(p, n, g) PROVE Goal
  <2>1. Rest' /\ Freedom
    BY <1>16, <1>0, BeginOK DEF AddGroup, DelGroup, Rest, Freedom
  <2> QED BY <1>16, <2>1, <1>l, <1>m, <1>p DEF AddGroup, DelGroup, lockVars, AllOK, Turn, TurnAside
<1> QED
  BY <1>1, <1>2, <1>3, <1>4, <1>5, <1>6, <1>7, <1>8, <1>10, <1>11, <1>12, <1>13, <1>14, <1>15, <1>16
  DEF UserPage, PageGoesOn

-----------------------------------------------------------------------------
(* The steps of everybody else, by what they do with m_lock.               *)
GuestWorks ==
  /\ UNCHANGED m_lock
  /\ \E w \in Walker : guest[w] = "in"
  /\ \A w \in Walker : guest'[w] = "out" <=> guest[w] = "out"

GuestEnters == Lock /\ UNCHANGED login /\ \E w \in Walker : guest'[w] # "out"

GuestTurn ==
  UNCHANGED <<login, m_lock, guest>> \/ GuestWorks \/ GuestEnters \/ (Unlock /\ UNCHANGED login)

NoPage ==
  \/ OtherPage
  \/ \E w \in Walker : Visit(w)
  \/ FlushTable
  \/ Tick /\ UNCHANGED userVars
  \/ UNCHANGED tableVars

LEMMA InSectionOK ==
  ASSUME LockOK, NEW w \in Walker, InSection(w), UNCHANGED m_lock
  PROVE  LockOK' /\ GuestWorks
BY DEF LockOK, InSection, GuestWorks

LEMMA NoPageTurn ==
  ASSUME AllOK, NoPage
  PROVE  AllOK' /\ UNCHANGED page /\ Freedom /\ NoNewLogin /\ GuestTurn
<1> DEFINE Goal == AllOK' /\ UNCHANGED page /\ Freedom /\ NoNewLogin /\ GuestTurn
<1>0. Rest /\ LoginsOK /\ PagesOK /\ LockOK /\ now \in Nat /\ Collector \in Walker
  BY UsersAssumption DEF AllOK, Rest, Walker
<1>l. UNCHANGED <<login, now>> => LoginsOK' /\ NoNewLogin
  BY <1>0 DEF LoginsOK, NoNewLogin, LoggedIn
<1>p. UNCHANGED <<page, now>> => PagesOK'
  BY <1>0 DEF PagesOK, EntryOK
<1>r. UNCHANGED <<now, record, gids, pages>> => Rest' /\ Freedom
  BY <1>0 DEF Rest, Freedom
<1>m. UNCHANGED <<m_lock, guest>> => LockOK'
  BY <1>0 DEF LockOK
<1>1. CASE UNCHANGED tableVars
  BY <1>1, <1>l, <1>p, <1>r, <1>m DEF tableVars, userVars, lockVars, AllOK, GuestTurn
<1>2. CASE Tick /\ UNCHANGED userVars
  <2>1. now' \in 0..MaxTime /\ now' >= now /\ UNCHANGED userVars
    BY <1>2, <1>0, UsersAssumption DEF Tick, Rest
  <2>2. LoginsOK' /\ NoNewLogin
    BY <2>1, <1>0 DEF userVars, LoginsOK, LoggedIn, LoginUserInfo, NoNewLogin
  <2>3. PagesOK'
    BY <2>1, <1>0 DEF userVars, lockVars, PagesOK, EntryOK, PageType
  <2>4. Rest' /\ Freedom
    BY <2>1, <1>0 DEF userVars, Rest, Freedom
  <2> QED BY <2>1, <2>2, <2>3, <2>4, <1>m DEF userVars, lockVars, AllOK, GuestTurn
<1>3. CASE OtherPage
  <2>1. Rest' /\ Freedom
    BY <1>3, <1>0, UsersAssumption DEF OtherPage, Rest, Freedom
  <2> QED BY <2>1, <1>3, <1>l, <1>p, <1>m DEF OtherPage, lockVars, AllOK, GuestTurn
<1>4. CASE FlushTable
  <2>1. LoginsOK' /\ NoNewLogin
    BY <1>4, <1>0, EraseOK DEF FlushTable, FlushLoginUser
  <2>2. LockOK' /\ GuestWorks
    BY <1>4, <1>0, InSectionOK DEF FlushTable
  <2> QED BY <2>1, <2>2, <1>4, <1>p, <1>r DEF FlushTable, AllOK, GuestTurn
<1>5. ASSUME NEW w \in Walker, Enter(w) PROVE Goal
  <2>1. LockOK' /\ GuestEnters
    BY <1>5, <1>0 DEF Enter, Lock, LockOK, GuestEnters
  <2> QED BY <2>1, <1>5, <1>l, <1>p, <1>r DEF Enter, AllOK, GuestTurn
<1>6. ASSUME NEW w \in Walker, Exit(w) PROVE Goal
  <2>1. LockOK'
    BY <1>6, <1>0 DEF Exit, Unlock, LockOK
  <2> QED BY <2>1, <1>6, <1>l, <1>p, <1>r DEF Exit, AllOK, GuestTurn
<1>7. ASSUME NEW w \in Walker, Ask(w) PROVE Goal
  <2>1. LockOK' /\ GuestWorks
    BY <1>7, <1>0, InSectionOK DEF Ask
  <2> QED BY <2>1, <1>7, <1>l, <1>p, <1>r DEF Ask, AllOK, GuestTurn
<1>8. ASSUME NEW w \in Walker, NEW i \in Addr, NEW g \in Name \cup {ALLUSER}, Use(w, i, g) PROVE Goal
  <2>1. LockOK' /\ GuestWorks
    BY <1>8, <1>0, InSectionOK DEF Use
  <2>2. LoginsOK' /\ NoNewLogin
    BY <1>8, <1>0, RefreshOK DEF Use
  <2> QED BY <2>1, <2>2, <1>8, <1>p, <1>r DEF Use, AllOK, GuestTurn
<1> QED
  BY <1>1, <1>2, <1>3, <1>4, <1>5, <1>6, <1>7, <1>8 DEF NoPage, Visit

LEMMA TableTurn ==
  ASSUME AllOK, [TableNext]_tableVars
  PROVE  /\ AllOK' /\ Freedom
         /\ \/ UNCHANGED page /\ NoNewLogin /\ GuestTurn
            \/ UNCHANGED guest /\ \E p \in Page : Turn(p)
<1>1. NoPage \/ \E p \in Page : UserPage(p)
  BY DEF TableNext, NoPage
<1> QED BY <1>1, PageTurn, NoPageTurn

LEMMA InitAllOK == InitUsers => AllOK
<1> SUFFICES ASSUME InitUsers PROVE AllOK
  OBVIOUS
<1>1. Rest
  BY UsersAssumption DEF InitUsers, Rest
<1>2. LoginsOK
  BY DEF InitUsers, LoginsOK, LoggedIn, LoginUserInfo
<1>3. EntryOK(IdlePage) /\ IdlePage \in PageType
  BY UsersAssumption DEF InitUsers, EntryOK, IdlePage, PageType, PageOp, LoginOp, ExpelOp
<1>4. PagesOK
  BY <1>3 DEF InitUsers, PagesOK
<1>5. LockOK
  BY DEF InitUsers, LockOK
<1> QED BY <1>1, <1>2, <1>4, <1>5 DEF AllOK

-----------------------------------------------------------------------------
(* Types, through all steps: a page thread is always at an operation of    *)
(* somebody, and no login was used later than now.                         *)
THEOREM TypeCorrect == TableSpec => []TableTypeOK
<1>0. TableTypeOK <=> AllOK
  BY TypeParts DEF AllOK, Rest
<1>1. InitUsers => TableTypeOK
  BY <1>0, InitAllOK
<1>2. TableTypeOK /\ [TableNext]_tableVars => TableTypeOK'
  <2>1. AllOK /\ [TableNext]_tableVars => AllOK'
    BY TableTurn
  <2>2. TableTypeOK' <=> AllOK'
    BY <1>0, PTL
  <2> QED BY <1>0, <2>1, <2>2
<1> QED
  BY <1>1, <1>2, PTL DEF TableSpec

-----------------------------------------------------------------------------
(* Why m_lock protects the table while Guarded: nobody is where m_lock was *)
(* left by another, and this cannot begin again while a page is in its     *)
(* section, since whoever leaves unlocks it, and then that page does not   *)
(* hold it any more.                                                       *)
LockStays ==
  /\ UNCHANGED m_lock
  /\ \A w \in Walker : guest'[w] = "out" <=> guest[w] = "out"
  /\ \A q \in Page : (Inside(q)' <=> Inside(q)) /\ (Stray(q)' <=> Stray(q))

Comes == \E q \in Page : ~Inside(q) /\ Inside(q)'

LEMMA LockMoves ==
  ASSUME AllOK, [TableNext]_tableVars
  PROVE  LockStays \/ ~m_lock' \/ Comes \/ \E w \in Walker : guest'[w] # "out"
<1>1. CASE UNCHANGED page /\ GuestTurn
  BY <1>1 DEF LockStays, GuestTurn, GuestWorks, GuestEnters, Lock, Unlock, Inside, Stray
<1>2. ASSUME NEW p \in Page, Turn(p), UNCHANGED guest
      PROVE  LockStays \/ ~m_lock' \/ Comes
  <2>1. ASSUME NEW from, NEW to, Turns(p, from, to), UNCHANGED m_lock,
               <<from, to>> \in {<<"idle", "login">>, <<"inside", "leave">>, <<"delete", "idle">>,
                 <<"inside", "found">>, <<"found", "write">>, <<"write", "leave">>,
                 <<"unlocked", "again">>, <<"logout", "leave">>, <<"kill", "leave">>,
                 <<"expel", "expelled">>}
        PROVE  LockStays
    <3>1. (Inside(p)' <=> Inside(p)) /\ (Stray(p)' <=> Stray(p))
      BY <2>1 DEF Turns, Inside, Stray
    <3>2. \A q \in Page \ {p} : (Inside(q)' <=> Inside(q)) /\ (Stray(q)' <=> Stray(q))
      BY <2>1 DEF Turns, Inside, Stray
    <3> QED BY <1>2, <2>1, <3>1, <3>2 DEF LockStays
  <2>2. CASE TurnAside(p)
    <3>1. CASE page' = page
      BY <1>2, <2>2, <3>1 DEF TurnAside, LockStays, Inside, Stray
    <3> QED BY <2>1, <2>2, <3>1 DEF TurnAside
  <2>3. CASE TurnLook(p)
    BY <2>1, <2>3 DEF TurnLook
  <2>4. CASE TurnWrite(p)
    BY <2>1, <2>4 DEF TurnWrite
  <2>5. CASE TurnIn(p)
    BY <2>5 DEF TurnIn, Turns, Comes, Inside
  <2>6. CASE TurnOut(p)
    BY <2>6 DEF TurnOut, Unlock
  <2> QED BY <1>2, <2>2, <2>3, <2>4, <2>5, <2>6 DEF Turn
<1> QED BY <1>1, <1>2, TableTurn

LEMMA GuardStays ==
  ASSUME AllOK, [TableNext]_tableVars, NEW p \in Page, Inside(p), Inside(p)', Guarded'
  PROVE  Guarded /\ LockStays
<1>1. /\ m_lock'
      /\ \A q \in Page : ~Stray(q)' /\ (Inside(q)' => q = p)
      /\ \A w \in Walker : guest'[w] = "out"
  BY DEF Guarded
<1>2. LockStays
  BY <1>1, LockMoves DEF Comes
<1> QED BY <1>1, <1>2 DEF Guarded, LockStays

(* Meanwhile the page alone changes the table, and with its last step.     *)
LEMMA GuardedTable ==
  ASSUME AllOK, [TableNext]_tableVars, NEW p \in Page, Inside(p), Guarded,
         page'[p].op \in {"found", "write"}
  PROVE  /\ UNCHANGED login
         /\ page'[p] = page[p] \/ (SameWork(p) /\ At(p, "inside") /\ LoginFree(p) /\ page'[p].op = "found")
                               \/ (SameWork(p) /\ At(p, "found") /\ LoginNew(p) /\ page'[p].op = "write")
<1>1. /\ \A q \in Page : ~Stray(q) /\ (Inside(q) => q = p)
      /\ \A w \in Walker : guest[w] = "out"
      /\ m_lock
  BY DEF Guarded
<1>2. CASE UNCHANGED page /\ GuestTurn
  BY <1>1, <1>2 DEF GuestTurn, GuestWorks, GuestEnters
<1>3. ASSUME NEW q \in Page, Turn(q)
      PROVE  /\ UNCHANGED login
             /\ page'[p] = page[p] \/ (SameWork(p) /\ At(p, "inside") /\ LoginFree(p) /\ page'[p].op = "found")
                                   \/ (SameWork(p) /\ At(p, "found") /\ LoginNew(p) /\ page'[p].op = "write")
  <2>1. CASE TurnAside(q)
    BY <1>3, <2>1 DEF TurnAside, Turns
  <2>2. CASE TurnIn(q)
    BY <1>1, <2>2 DEF TurnIn, Lock
  <2>3. CASE TurnLook(q)
    <3>1. q = p
      BY <1>1, <2>3 DEF TurnLook, Turns, Inside
    <3> QED BY <2>3, <3>1 DEF TurnLook, Turns, At
  <2>4. CASE TurnWrite(q)
    <3>1. q = p
      BY <1>1, <2>4 DEF TurnWrite, Turns, Inside, Stray
    <3> QED BY <2>4, <3>1 DEF TurnWrite, Turns
  <2>5. CASE TurnOut(q)
    <3>1. q = p
      BY <1>1, <2>5 DEF TurnOut, Turns, Inside, Stray
    <3> QED BY <2>5, <3>1 DEF TurnOut, Turns
  <2> QED BY <1>3, <2>1, <2>2, <2>3, <2>4, <2>5 DEF Turn
<1> QED BY <1>2, <1>3, TableTurn

(* What Login has found out holds until it writes, while m_lock protects   *)
(* the table.                                                              *)
FoundOut(p) ==
  Guarded => /\ page[p].op \in {"found", "write"} => ~LoggedIn(page[p].ip)
             /\ At(p, "write") => MayMiss(page[p].user)

GuardInv == AllOK /\ \A p \in Page : FoundOut(p)

LEMMA FoundOutStep ==
  ASSUME GuardInv, [TableNext]_tableVars, NEW p \in Page
  PROVE  FoundOut(p)'
<1> SUFFICES ASSUME Guarded', page'[p].op \in {"found", "write"}
             PROVE  ~LoggedIn(page[p].ip)' /\ (At(p, "write")' => MayMiss(page[p].user)')
  BY DEF FoundOut, At
<1>1. AllOK /\ FoundOut(p) /\ Freedom /\ AllOK'
  BY TableTurn DEF GuardInv
<1>2. page[p].op \in {"inside", "found", "write"}
  <2>1. CASE UNCHANGED page
    BY <2>1
  <2>2. ASSUME NEW q \in Page, Turn(q) PROVE page[p].op \in {"inside", "found", "write"}
    BY <2>2 DEF Turn, TurnAside, TurnIn, TurnLook, TurnWrite, TurnOut, Turns
  <2> QED BY <1>1, <2>1, <2>2, TableTurn
<1>3. Inside(p) /\ Inside(p)'
  BY <1>2 DEF Inside
<1>4. Guarded
  BY <1>1, <1>3, GuardStays
<1>5. /\ UNCHANGED login
      /\ page'[p] = page[p] \/ (SameWork(p) /\ At(p, "inside") /\ LoginFree(p) /\ page'[p].op = "found")
                            \/ (SameWork(p) /\ At(p, "found") /\ LoginNew(p) /\ page'[p].op = "write")
  BY <1>1, <1>3, <1>4, GuardedTable
<1>6. page'[p].ip = page[p].ip /\ page'[p].user = page[p].user
  BY <1>5 DEF SameWork
<1>7. ~LoggedIn(page[p].ip)
  BY <1>1, <1>4, <1>5 DEF FoundOut, LoginFree, At
<1>8. ~LoggedIn(page[p].ip)'
  BY <1>5, <1>6, <1>7 DEF LoggedIn
<1>9. ASSUME At(p, "write")' PROVE MayMiss(page[p].user)'
  <2>1. MayMiss(page[p].user)
    BY <1>1, <1>4, <1>5, <1>9 DEF FoundOut, LoginNew, At
  <2>2. ASSUME NEW i \in Addr, Of(i, page[p].user)' PROVE Freed(i)'
    <3>1. Of(i, page[p].user)
      BY <1>5, <1>6, <2>2 DEF Of, LoggedIn
    <3>2. Freed(i)
      BY <2>1, <3>1 DEF MayMiss
    <3>3. login[i].user \in Name
      BY <1>1, <3>1 DEF AllOK, LoginsOK, Of, LoggedIn, LoginUserInfo
    <3> QED BY <1>1, <1>5, <3>2, <3>3 DEF Freed, LoggedIn, Freedom
  <2> QED BY <2>2 DEF MayMiss
<1> QED BY <1>8, <1>9

THEOREM LoginIsGuarded == TableSpec => []GuardInv
<1>1. InitUsers => \A p \in Page : FoundOut(p)
  BY DEF InitUsers, FoundOut, At, IdlePage
<1>2. GuardInv /\ [TableNext]_tableVars => \A p \in Page : FoundOut(p)'
  BY FoundOutStep
<1>3. GuardInv /\ [TableNext]_tableVars => GuardInv'
  BY <1>2, TableTurn DEF GuardInv
<1> QED BY <1>1, <1>3, InitAllOK, PTL DEF TableSpec, GuardInv

(* The lock is lost in one way.                                            *)
LEMMA PageGuards ==
  ASSUME Guarded, NEW p \in Page, Turn(p), UNCHANGED guest, ~LoginAgain(p)
  PROVE  Guarded'
<1>1. ASSUME \A q \in Page : (Inside(q)' => Inside(q)) /\ (Stray(q)' => Stray(q)), UNCHANGED m_lock
      PROVE  Guarded'
  BY <1>1 DEF Guarded
<1>2. ASSUME NEW from, NEW to, Turns(p, from, to), UNCHANGED m_lock,
             <<from, to>> \in {<<"idle", "login">>, <<"inside", "leave">>, <<"delete", "idle">>,
               <<"inside", "found">>, <<"found", "write">>, <<"write", "leave">>,
               <<"unlocked", "again">>, <<"logout", "leave">>, <<"kill", "leave">>,
               <<"expel", "expelled">>}
      PROVE  Guarded'
  <2>1. (Inside(p)' => Inside(p)) /\ (Stray(p)' => Stray(p))
    BY <1>2 DEF Turns, Inside, Stray
  <2>2. \A q \in Page \ {p} : (Inside(q)' => Inside(q)) /\ (Stray(q)' => Stray(q))
    BY <1>2 DEF Turns, Inside, Stray
  <2> QED BY <1>1, <1>2, <2>1, <2>2
<1>3. CASE TurnAside(p)
  <2>1. CASE page' = page
    BY <1>1, <1>3, <2>1 DEF TurnAside, Inside, Stray
  <2> QED BY <1>2, <1>3, <2>1 DEF TurnAside
<1>4. CASE TurnLook(p)
  BY <1>2, <1>4 DEF TurnLook
<1>5. CASE TurnWrite(p)
  BY <1>2, <1>5 DEF TurnWrite
<1>6. ASSUME NEW from, NEW to, Turns(p, from, to) PROVE
        \A q \in Page \ {p} : (Inside(q)' <=> Inside(q)) /\ (Stray(q)' <=> Stray(q))
  BY <1>6 DEF Turns, Inside, Stray
<1>7. CASE TurnIn(p)
  <2>1. ~m_lock /\ m_lock' /\ ~Stray(p)'
        /\ \A q \in Page \ {p} : (Inside(q)' <=> Inside(q)) /\ (Stray(q)' <=> Stray(q))
    BY <1>6, <1>7 DEF TurnIn, Turns, Lock, Stray
  <2> QED BY <2>1 DEF Guarded
<1>8. CASE TurnOut(p)
  <2>1. /\ ~m_lock'
        /\ \/ Turns(p, "leave", "idle") \/ Turns(p, "again", "idle")
           \/ Turns(p, "expelled", "delete")
    BY <1>8 DEF TurnOut, Unlock
  <2>2. Inside(p) /\ ~Inside(p)' /\ ~Stray(p)'
    BY <2>1 DEF Turns, Inside, Stray, Guarded
  <2>3. \A q \in Page \ {p} : (Inside(q)' <=> Inside(q)) /\ (Stray(q)' <=> Stray(q))
    BY <1>6, <2>1
  <2> QED BY <2>1, <2>2, <2>3 DEF Guarded
<1> QED BY <1>3, <1>4, <1>5, <1>7, <1>8 DEF Turn

LEMMA GuestGuards ==
  ASSUME Guarded, AllOK, UNCHANGED page, NoPage
  PROVE  Guarded'
<1>0. /\ \A q \in Page : (Inside(q)' <=> Inside(q)) /\ (Stray(q)' <=> Stray(q))
      /\ Collector \in Walker /\ guest \in [Walker -> {"out", "in", "done"}]
      /\ m_lock \in BOOLEAN
  BY DEF Inside, Stray, Walker, AllOK, LockOK
<1>1. ASSUME UNCHANGED m_lock, \A w \in Walker : guest'[w] = "out" <=> guest[w] = "out"
      PROVE  Guarded'
  BY <1>0, <1>1 DEF Guarded
<1>2. ASSUME NEW w \in Walker, InSection(w), UNCHANGED m_lock PROVE Guarded'
  BY <1>0, <1>1, <1>2 DEF InSection
<1>3. ASSUME NEW w \in Walker, Enter(w) PROVE Guarded'
  BY <1>0, <1>3 DEF Enter, Lock, Guarded
<1>4. ASSUME NEW w \in Walker, Exit(w) PROVE Guarded'
  BY <1>0, <1>4 DEF Exit, Unlock, Guarded
<1>5. ASSUME NEW w \in Walker, Visit(w) PROVE Guarded'
  BY <1>2, <1>3, <1>4, <1>5 DEF Visit, Ask, Use
<1>6. CASE FlushTable
  BY <1>0, <1>2, <1>6 DEF FlushTable
<1>7. CASE OtherPage \/ (Tick /\ UNCHANGED userVars) \/ UNCHANGED tableVars
  BY <1>1, <1>7 DEF OtherPage, tableVars, userVars, lockVars
<1> QED BY <1>5, <1>6, <1>7 DEF NoPage

(* m_lock stops to protect the table in one way only: ForceLogout, called  *)
(* by Login, unlocks it (KUser.cpp:692).                                   *)
THEOREM OnlyForceLogoutUnguards ==
  TableSpec => [][Guarded /\ ~Guarded' => \E p \in Page : LoginAgain(p)]_tableVars
<1>1. GuardInv /\ [TableNext]_tableVars =>
        [Guarded /\ ~Guarded' => \E p \in Page : LoginAgain(p)]_tableVars
  <2> SUFFICES ASSUME AllOK, [TableNext]_tableVars, Guarded, ~Guarded'
               PROVE  \E p \in Page : LoginAgain(p)
    BY DEF GuardInv
  <2>1. ASSUME NoPage PROVE FALSE
    BY <2>1, NoPageTurn, GuestGuards
  <2>2. ASSUME NEW p \in Page, UserPage(p) PROVE LoginAgain(p)
    BY <2>2, PageTurn, PageGuards
  <2> QED BY <2>1, <2>2 DEF TableNext, NoPage
<1> QED BY <1>1, LoginIsGuarded, PTL DEF TableSpec

-----------------------------------------------------------------------------
(* One login per user.                                                     *)
LEMMA NewLoginIsWritten ==
  ASSUME AllOK, [TableNext]_tableVars, ~NoNewLogin
  PROVE  \E p \in Page : /\ At(p, "write") \/ At(p, "unlocked")
                         /\ page[p].ip \in Addr /\ page[p].user \in Name
                         /\ OneNewLogin(page[p].ip, page[p].user)
<1>1. UNCHANGED login => NoNewLogin
  BY DEF NoNewLogin
<1>2. PICK p \in Page : Turn(p)
  BY TableTurn
<1>3. TurnWrite(p)
  BY <1>1, <1>2 DEF Turn, TurnAside, TurnIn, TurnLook, TurnOut
<1> QED BY <1>3 DEF TurnWrite, Turns, Writes, At

LEMMA SecondLoginStep ==
  ASSUME GuardInv, [TableNext]_tableVars, NEW n \in Name,
         ~TwoLogins(n), record[n] = "live", TwoLogins(n)', Guarded
  PROVE  FALSE
<1>1. PICK i \in Addr, j \in Addr : i # j /\ Of(i, n)' /\ Of(j, n)'
  BY DEF TwoLogins
<1>2. ~NoNewLogin
  BY <1>1 DEF NoNewLogin, TwoLogins, Of, LoggedIn
<1>3. PICK p \in Page : /\ At(p, "write") \/ At(p, "unlocked")
                        /\ page[p].ip \in Addr /\ page[p].user \in Name
                        /\ OneNewLogin(page[p].ip, page[p].user)
  BY <1>2, NewLoginIsWritten DEF GuardInv
<1>4. page[p].user = n /\ (Of(i, n) \/ Of(j, n))
  BY <1>1, <1>3 DEF OneNewLogin, TwoLogins, Of, LoggedIn
<1>5. MayMiss(n)
  BY <1>3, <1>4 DEF GuardInv, FoundOut, Guarded, Stray, At
<1> QED BY <1>4, <1>5 DEF MayMiss, Of, Freed

(* While m_lock protects the table, nobody is logged in from a second      *)
(* address: Login has ended the former login, or found none (KUser.cpp:226)*)
THEOREM OneLogin == TableSpec => SecondLoginUnguarded
<1>1. GuardInv /\ [TableNext]_tableVars =>
        [\A n \in Name : (~TwoLogins(n) /\ record[n] = "live" /\ TwoLogins(n)') => ~Guarded]_tableVars
  BY SecondLoginStep
<1> QED
  BY <1>1, LoginIsGuarded, PTL DEF TableSpec, SecondLoginUnguarded

-----------------------------------------------------------------------------
(* One user per address.                                                   *)
LEMMA TakeoverStep ==
  ASSUME GuardInv, [TableNext]_tableVars, NEW i \in Addr, NEW n \in Name,
         LoggedIn(i), ~Of(i, n), Of(i, n)', Guarded
  PROVE  FALSE
<1>1. ~NoNewLogin
  BY DEF NoNewLogin, Of, LoggedIn
<1>2. PICK p \in Page : /\ At(p, "write") \/ At(p, "unlocked")
                        /\ page[p].ip \in Addr /\ page[p].user \in Name
                        /\ OneNewLogin(page[p].ip, page[p].user)
  BY <1>1, NewLoginIsWritten DEF GuardInv
<1>3. page[p].ip = i
  BY <1>2 DEF OneNewLogin, Of, LoggedIn
<1> QED BY <1>2, <1>3 DEF GuardInv, FoundOut, Guarded, Stray, At

(* While m_lock protects the table, the test that nobody is logged in at   *)
(* the address (KUser.cpp:223) holds when the entry is written.            *)
THEOREM OneUserPerAddress == TableSpec => TakeoverUnguarded
<1>1. GuardInv /\ [TableNext]_tableVars =>
        [\A i \in Addr, n \in Name : (LoggedIn(i) /\ ~Of(i, n) /\ Of(i, n)') => ~Guarded]_tableVars
  BY TakeoverStep
<1> QED
  BY <1>1, LoginIsGuarded, PTL DEF TableSpec, TakeoverUnguarded

-----------------------------------------------------------------------------
(* What the pages and the time thread make of a list of rules.             *)

(* Every set of numbers that is not empty has a least element.             *)
LEMMA LeastNumber ==
  ASSUME NEW D \in SUBSET Nat, D # {}
  PROVE  \E i \in D : \A j \in D : i <= j
<1> DEFINE T == {0..i : i \in D}
<1>1. IsWellFoundedOn(StrictSubsetOrdering(Nat), FiniteSubsetsOf(Nat))
  BY FS_StrictSubsetOrderingWellFounded
<1>2. T \subseteq FiniteSubsetsOf(Nat) /\ T # {}
  <2>1. \A i \in D : 0..i \in SUBSET Nat /\ IsFiniteSet(0..i)
    BY FS_Interval
  <2> QED BY <2>1 DEF FiniteSubsetsOf
<1>3. \E x \in T : \A y \in T : <<y, x>> \notin StrictSubsetOrdering(Nat)
  <2> HIDE DEF T
  <2> QED BY <1>1, <1>2, WFMin
<1>4. PICK i \in D : \A j \in D : <<0..j, 0..i>> \notin StrictSubsetOrdering(Nat)
  BY <1>3
<1>5. ASSUME NEW j \in D, j < i PROVE FALSE
  <2>1. 0..j \in SUBSET Nat /\ 0..i \in SUBSET Nat /\ 0..j \subseteq 0..i
    BY <1>5
  <2>2. i \in 0..i /\ i \notin 0..j
    BY <1>5
  <2>3. <<0..j, 0..i>> \in StrictSubsetOrdering(Nat)
    BY <2>1, <2>2 DEF StrictSubsetOrdering
  <2> QED BY <1>4, <2>3
<1> QED BY <1>5

(* g is what the loop has made of the first n rules of s.                 *)
LoopOf(s, n, g) ==
  g = [i \in 0..n |-> IF i = 0 THEN <<>>
                      ELSE IF InEffect(s[i]) THEN Append(g[i - 1], s[i]) ELSE g[i - 1]]

(* The loop of checkExpireChain is well defined: there is such a g for     *)
(* every number of rounds.                                                 *)
LEMMA LoopExists ==
  ASSUME NEW s, NEW n \in Nat
  PROVE  \E g : LoopOf(s, n, g)
<1> DEFINE D == {i \in Nat : ~ \E g : LoopOf(s, i, g)}
<1> SUFFICES ASSUME D # {} PROVE FALSE
  OBVIOUS
<1>1. PICK m \in D : \A j \in D : m <= j
  <2>1. D \in SUBSET Nat
    OBVIOUS
  <2> HIDE DEF D
  <2> QED BY <2>1, LeastNumber
<1>2. m \in Nat /\ ~ \E g : LoopOf(s, m, g)
  BY <1>1
<1>3. m # 0
  <2> DEFINE g == [i \in 0..0 |-> <<>>]
  <2>1. LoopOf(s, 0, g)
    BY DEF LoopOf
  <2> QED BY <1>2, <2>1
<1>4. PICK l \in Nat : m = l + 1
  <2>1. m - 1 \in Nat /\ m = (m - 1) + 1
    BY <1>2, <1>3
  <2> QED BY <2>1
<1>5. PICK h : LoopOf(s, l, h)
  <2>1. ~(m <= l)
    BY <1>4
  <2>2. l \notin D
    BY <1>1, <2>1
  <2> QED BY <2>2
<1> DEFINE last == IF InEffect(s[m]) THEN Append(h[l], s[m]) ELSE h[l]
           g == [i \in 0..m |-> IF i = m THEN last ELSE h[i]]
<1>6. ASSUME NEW i \in 0..m
      PROVE  g[i] = IF i = 0 THEN <<>>
                    ELSE IF InEffect(s[i]) THEN Append(g[i - 1], s[i]) ELSE g[i - 1]
  <2>1. CASE i = m
    <3>1. m - 1 = l /\ l \in 0..m /\ l # m
      BY <1>4
    <3> QED BY <2>1, <3>1, <1>3
  <2>2. CASE i # m
    <3>1. i \in 0..l /\ (i # 0 => i - 1 \in 0..m /\ i - 1 # m)
      BY <1>4, <2>2
    <3>2. h[i] = IF i = 0 THEN <<>>
                 ELSE IF InEffect(s[i]) THEN Append(h[i - 1], s[i]) ELSE h[i - 1]
      BY <1>5, <3>1 DEF LoopOf
    <3> QED BY <2>2, <3>1, <3>2
  <2> QED BY <2>1, <2>2
<1>7. g = [i \in 0..m |-> IF i = 0 THEN <<>>
                          ELSE IF InEffect(s[i]) THEN Append(g[i - 1], s[i]) ELSE g[i - 1]]
  <2>1. DOMAIN g = 0..m /\ g = [i \in 0..m |-> g[i]]
    OBVIOUS
  <2> HIDE DEF g
  <2> QED BY <2>1, <1>6
<1>8. LoopOf(s, m, g)
  BY <1>7 DEF LoopOf
<1> QED BY <1>2, <1>8

(* The rules that are left were there, and are no more than there were.    *)
PartOf(t, s) ==
  /\ t \in Seq(Rule) /\ Len(t) <= Len(s)
  /\ \A k \in 1..Len(t) : \E j \in 1..Len(s) : t[k] = s[j]

LEMMA KeptPart ==
  ASSUME NEW s \in Seq(Rule)
  PROVE  PartOf(KeptOf(s), s)
<1> DEFINE N == Len(s)
           loop(g) == [i \in 0..N |-> IF i = 0 THEN <<>>
                                      ELSE IF InEffect(s[i]) THEN Append(g[i - 1], s[i])
                                      ELSE g[i - 1]]
           kept == CHOOSE g : g = loop(g)
<1>1. N \in Nat /\ \A i \in 1..N : s[i] \in Rule
  OBVIOUS
<1>2. \E g : g = loop(g)
  BY <1>1, LoopExists, ZenonT(60) DEF LoopOf
<1>3. kept = loop(kept)
  <2> HIDE DEF loop
  <2> QED BY <1>2
<1>4. KeptOf(s) = kept[N]
  BY DEF KeptOf
<1> DEFINE Good(i) == /\ kept[i] \in Seq(Rule) /\ Len(kept[i]) <= i
                      /\ \A k \in 1..Len(kept[i]) : \E j \in 1..N : kept[i][k] = s[j]
           D == {i \in 0..N : ~Good(i)}
<1>5. \A i \in 0..N : kept[i] = IF i = 0 THEN <<>>
                                ELSE IF InEffect(s[i]) THEN Append(kept[i - 1], s[i])
                                ELSE kept[i - 1]
  <2> HIDE DEF kept
  <2> QED BY <1>3
<1> HIDE DEF kept, loop
<1>6. D = {}
  <2> SUFFICES ASSUME D # {} PROVE FALSE
    OBVIOUS
  <2>1. PICK m \in D : \A j \in D : m <= j
    <3>1. D \in SUBSET Nat
      BY <1>1
    <3> HIDE DEF D
    <3> QED BY <3>1, LeastNumber
  <2>2. m \in 0..N /\ ~Good(m)
    BY <2>1
  <2>3. m # 0
    <3>1. kept[0] = <<>>
      BY <1>1, <1>5
    <3>2. kept[0] \in Seq(Rule) /\ Len(kept[0]) = 0
      BY <3>1
    <3> QED BY <2>2, <3>2
  <2>4. PICK l \in 0..N : m = l + 1
    <3>1. m - 1 \in 0..N /\ m = (m - 1) + 1
      BY <1>1, <2>2, <2>3
    <3> QED BY <3>1
  <2>5. Good(l)
    <3>1. ~(m <= l)
      BY <1>1, <2>4
    <3> QED BY <2>1, <3>1
  <2>6. kept[m] = IF InEffect(s[m]) THEN Append(kept[l], s[m]) ELSE kept[l]
    <3>1. m - 1 = l
      BY <1>1, <2>4
    <3> QED BY <1>5, <2>2, <2>3, <3>1
  <2> DEFINE t == kept[l]
  <2>7. t \in Seq(Rule) /\ Len(t) <= l /\ \A k \in 1..Len(t) : \E j \in 1..N : t[k] = s[j]
    BY <2>5
  <2>8. m \in 1..N /\ s[m] \in Rule /\ l <= m
    BY <1>1, <2>2, <2>3, <2>4
  <2> HIDE DEF t
  <2>9. CASE kept[m] = t
    <3>1. Len(t) <= m
      BY <1>1, <2>4, <2>7
    <3> QED BY <2>2, <2>7, <2>9, <3>1
  <2>10. CASE kept[m] = Append(t, s[m])
    <3> DEFINE u == Append(t, s[m])
    <3>1. u \in Seq(Rule) /\ Len(u) = Len(t) + 1 /\ u[Len(u)] = s[m]
      BY <2>7, <2>8
    <3>2. \A k \in 1..Len(t) : u[k] = t[k]
      BY <2>7, <2>8
    <3>3. Len(u) <= m
      BY <1>1, <2>4, <2>7, <3>1
    <3> HIDE DEF u
    <3>4. ASSUME NEW k \in 1..Len(u) PROVE \E j \in 1..N : u[k] = s[j]
      <4>1. CASE k = Len(u)
        BY <2>8, <3>1, <4>1
      <4>2. CASE k # Len(u)
        <5>1. k \in 1..Len(t)
          BY <2>7, <3>1, <4>2
        <5> QED BY <2>7, <3>2, <5>1
      <4> QED BY <4>1, <4>2
    <3>5. kept[m] = u
      BY <2>10 DEF u
    <3> QED BY <2>2, <3>1, <3>3, <3>4, <3>5
  <2> QED BY <2>6, <2>9, <2>10 DEF t
<1>7. Good(N)
  BY <1>1, <1>6
<1> QED BY <1>4, <1>7 DEF PartOf

LEMMA RemovePart ==
  ASSUME NEW s \in Seq(Rule), NEW k \in DOMAIN s
  PROVE  PartOf(RemoveAt(s, k), s)
<1> DEFINE a == SubSeq(s, 1, k - 1)
           b == SubSeq(s, k + 1, Len(s))
<1>1. k \in 1..Len(s) /\ Len(s) \in Nat /\ \A i \in 1..Len(s) : s[i] \in Rule
  OBVIOUS
<1>2. a \in Seq(Rule) /\ Len(a) = k - 1 /\ \A i \in 1..k - 1 : a[i] = s[i]
  BY <1>1
<1>3. b \in Seq(Rule) /\ Len(b) = Len(s) - k /\ \A i \in 1..Len(s) - k : b[i] = s[k + i]
  BY <1>1
<1>4. RemoveAt(s, k) = a \o b
  BY DEF RemoveAt
<1> HIDE DEF a, b
<1>5. a \o b \in Seq(Rule) /\ Len(a \o b) = Len(s) - 1
  BY <1>1, <1>2, <1>3
<1>6. ASSUME NEW i \in 1..Len(s) - 1
      PROVE  \E j \in 1..Len(s) : (a \o b)[i] = s[j]
  <2>1. CASE i <= k - 1
    <3>1. (a \o b)[i] = a[i] /\ i \in 1..k - 1
      BY <1>1, <1>2, <1>3, <2>1
    <3> QED BY <1>1, <1>2, <3>1
  <2>2. CASE i > k - 1
    <3>1. (a \o b)[i] = b[i - (k - 1)] /\ i - (k - 1) \in 1..Len(s) - k
      BY <1>1, <1>2, <1>3, <2>2
    <3>2. b[i - (k - 1)] = s[k + (i - (k - 1))] /\ k + (i - (k - 1)) \in 1..Len(s)
      BY <1>1, <1>3, <3>1, SMTT(60)
    <3> QED BY <3>1, <3>2
  <2>3. i <= k - 1 \/ i > k - 1
    BY <1>1
  <2> QED BY <2>1, <2>2, <2>3
<1>7. Len(s) - 1 <= Len(s)
  BY <1>1
<1> QED BY <1>4, <1>5, <1>6, <1>7 DEF PartOf

-----------------------------------------------------------------------------
(* The list of connections.                                                *)
LEMMA InitList == Init => ListInv
<1> SUFFICES ASSUME Init PROVE ListInv
  OBVIOUS
<1>1. NoConn \in ConnType /\ Asleep \in GcType
  BY DEF NoConn, ConnType, Asleep, GcType
<1> QED BY <1>1 DEF Init, InitAccess, InitUsers, ListInv, Listed, NoConn, Asleep

(* Steps that leave the connections and the time thread alone.             *)
LEMMA QuietStep ==
  ASSUME ListInv, UNCHANGED <<now, connVars, gc>>
  PROVE  ListInv'
BY DEF ListInv, Listed, connVars

-----------------------------------------------------------------------------
(* A step that moves one thread on, and neither its server nor the list.   *)
LEMMA MoveStep ==
  ASSUME ListInv, NEW c \in Conn, NEW new \in ConnType,
         conn' = [conn EXCEPT ![c] = new],
         UNCHANGED <<now, server, filter_time_list, gc>>,
         new.pc \in {"wait", "check", "serve", "end", "deleted"} => server[c] # "none",
         Listed(c) => new.pc \in {"check", "serve", "end"},
         new.pc # "idle" => new.src \in Addr /\ new.service \in Service
  PROVE  ListInv'
BY DEF ListInv, Listed

LEMMA GotoType ==
  ASSUME ListInv, NEW c \in Conn,
         NEW pc \in {"idle", "accept", "refused", "wait", "check", "serve", "end", "deleted"}
  PROVE  /\ [conn[c] EXCEPT !.pc = pc] \in ConnType
         /\ [conn[c] EXCEPT !.pc = pc].pc = pc
         /\ [conn[c] EXCEPT !.pc = pc].src = conn[c].src
         /\ [conn[c] EXCEPT !.pc = pc].service = conn[c].service
         /\ Goto(c, pc) => conn' = [conn EXCEPT ![c] = [conn[c] EXCEPT !.pc = pc]]
BY DEF ListInv, ConnType, Goto

LEMMA GotoStep ==
  ASSUME ListInv, NEW c \in Conn,
         NEW pc \in {"idle", "accept", "refused", "wait", "check", "serve", "end", "deleted"},
         Goto(c, pc), conn[c].pc # "idle",
         UNCHANGED <<now, server, filter_time_list, gc>>,
         pc \in {"wait", "check", "serve", "end", "deleted"} => server[c] # "none",
         Listed(c) => pc \in {"check", "serve", "end"}
  PROVE  ListInv'
<1> DEFINE new == [conn[c] EXCEPT !.pc = pc]
<1>1. /\ new \in ConnType /\ new.pc = pc /\ conn' = [conn EXCEPT ![c] = new]
      /\ new.src = conn[c].src /\ new.service = conn[c].service
  BY GotoType, ZenonT(60)
<1>2. new.src \in Addr /\ new.service \in Service
  BY <1>1 DEF ListInv
<1> HIDE DEF new
<1> QED BY <1>1, <1>2, MoveStep

LEMMA ConnStep ==
  ASSUME ListInv, WalkInv, NEW c \in Conn, Client(c) \/ ServerThread(c)
  PROVE  ListInv'
<1>1. ASSUME NEW i \in Addr, NEW s \in Service, Accept(c, i, s)
      PROVE  ListInv'
  <2>1. [pc |-> "accept", src |-> i, service |-> s] \in ConnType
    BY DEF ConnType
  <2>2. ~Listed(c)
    BY <1>1 DEF Accept, InPc, ListInv
  <2> QED BY <1>1, <2>1, <2>2, MoveStep DEF Accept
<1>2. ASSUME NEW d, NEW u, Request(c, d, u)
      PROVE  ListInv'
  <2>1. server[c] # "none" /\ conn[c].pc # "idle"
    BY <1>2 DEF Request, InPc, ListInv
  <2> QED BY <1>2, <2>1, GotoStep DEF Request
<1>3. CASE End(c)
  <2>1. server[c] # "none" /\ conn[c].pc # "idle"
    BY <1>3 DEF End, InPc, ListInv
  <2> QED BY <1>3, <2>1, GotoStep DEF End
<1>4. CASE Refuse(c)
  <2>1. ~Listed(c) /\ conn[c].pc # "idle"
    BY <1>4 DEF Refuse, InPc, ListInv
  <2> QED BY <1>4, <2>1, GotoStep DEF Refuse
<1>5. CASE Forget(c)
  <2>1. ~Listed(c) /\ NoConn \in ConnType /\ NoConn.pc = "idle"
    BY <1>5 DEF Forget, InPc, ListInv, NoConn, ConnType
  <2> QED BY <1>5, <2>1, MoveStep DEF Forget
<1>6. CASE Serve(c)
  <2>1. ~Listed(c) /\ conn[c].src \in Addr /\ conn[c].service \in Service
    BY <1>6 DEF Serve, InPc, ListInv
  <2> DEFINE new == [conn[c] EXCEPT !.pc = "wait"]
  <2>2. /\ server' = [server EXCEPT ![c] = "open"]
        /\ conn' = [conn EXCEPT ![c] = new]
        /\ UNCHANGED <<now, filter_time_list, gc>>
    BY <1>6 DEF Serve, Goto
  <2>3. new \in ConnType /\ new.pc = "wait" /\ new.src \in Addr /\ new.service \in Service
    BY <2>1, GotoType
  <2> HIDE DEF new
  <2> QED BY <2>1, <2>2, <2>3 DEF ListInv, Listed
<1>7. CASE Deny(c)
  <2>1. server[c] # "none" /\ conn[c].pc # "idle"
    BY <1>7 DEF Deny, InPc, ListInv
  <2> QED BY <1>7, <2>1, GotoStep DEF Deny
<1>8. CASE add_filter_time(c)
  <2> DEFINE new == [conn[c] EXCEPT !.pc = "serve"]
  <2>1. /\ filter_time_list' = [filter_time_list EXCEPT ![c] = walk[c].s]
        /\ conn' = [conn EXCEPT ![c] = new]
        /\ gc.at \notin {"pick", "check"} /\ server[c] # "none"
        /\ UNCHANGED <<now, server>>
    BY <1>8 DEF add_filter_time, Goto, InPc, ListFree, ListInv
  <2>2. gc' \in GcType /\ gc'.at = gc.at /\ gc'.kept = gc.kept \ {c}
    BY <1>8 DEF add_filter_time, ListInv, GcType
  <2>3. /\ new \in ConnType /\ new.pc = "serve" /\ new.src = conn[c].src
        /\ new.service = conn[c].service
    BY GotoType
  <2>4. conn[c].pc = "check" /\ new.src \in Addr /\ new.service \in Service
    BY <1>8, <2>3 DEF add_filter_time, InPc, ListInv
  <2>5. walk[c].s \in State
    BY <1>8 DEF add_filter_time, Returned, WalkInv, Walker
  <2> HIDE DEF new
  <2> QED BY <2>1, <2>2, <2>3, <2>4, <2>5 DEF ListInv, Listed
<1>9. CASE del_filter_time(c)
  <2> DEFINE new == [conn[c] EXCEPT !.pc = "deleted"]
  <2>1. /\ filter_time_list' = [filter_time_list EXCEPT ![c] = Nil]
        /\ conn' = [conn EXCEPT ![c] = new]
        /\ gc.at \notin {"pick", "check"} /\ server[c] # "none"
        /\ UNCHANGED <<now, server>>
    BY <1>9 DEF del_filter_time, Unlist, Goto, InPc, ListFree, ListInv
  <2>2. gc' \in GcType /\ gc'.at = gc.at /\ gc'.kept = gc.kept \ {c}
    BY <1>9 DEF del_filter_time, ListInv, GcType
  <2>3. /\ new \in ConnType /\ new.pc = "deleted" /\ new.src = conn[c].src
        /\ new.service = conn[c].service
    BY GotoType
  <2>4. new.src \in Addr /\ new.service \in Service
    BY <1>9, <2>3 DEF del_filter_time, InPc, ListInv
  <2> HIDE DEF new
  <2> QED BY <2>1, <2>2, <2>3, <2>4 DEF ListInv, Listed
<1>10. CASE DeleteServer(c)
  <2>1. ~Listed(c) /\ NoConn \in ConnType /\ NoConn.pc = "idle"
    BY <1>10 DEF DeleteServer, InPc, ListInv, NoConn, ConnType
  <2> QED BY <1>10, <2>1 DEF DeleteServer, ListInv, Listed
<1> QED
  BY <1>1, <1>2, <1>3, <1>4, <1>5, <1>6, <1>7, <1>8, <1>9, <1>10 DEF Client, ServerThread

-----------------------------------------------------------------------------
(* The time thread.                                                        *)
LEMMA GcStep ==
  ASSUME ListInv, TimeThread
  PROVE  ListInv'
<1>1. CASE check_time
  <2>1. /\ gc' \in GcType /\ gc'.at = "pick" /\ gc'.kept = {}
        /\ gc'.todo = {c \in Conn : Listed(c)}
    BY <1>1 DEF check_time, Asleep, GcType, Listed, ListInv
  <2> QED BY <1>1, <2>1 DEF check_time, connVars, ListInv, Listed
<1>2. ASSUME NEW c \in Conn, Pick(c)
      PROVE  ListInv'
  <2>1. /\ gc' \in GcType /\ gc'.at = "check" /\ gc'.todo = gc.todo /\ gc'.c = c /\ c \in gc.todo
        /\ gc'.kept = gc.kept /\ gc.at = "pick"
    BY <1>2 DEF Pick, GcType, ListInv
  <2> QED BY <1>2, <2>1 DEF Pick, connVars, ListInv, Listed
<1>3. CASE Keep
  <2>1. gc.c \in Conn /\ gc.c \in gc.todo /\ gc.at = "check"
    BY <1>3 DEF Keep, ListInv, GcType
  <2>2. /\ gc' \in GcType /\ gc'.at = "pick" /\ gc'.todo = gc.todo \ {gc.c}
        /\ gc'.kept = gc.kept \cup {gc.c}
    BY <1>3, <2>1 DEF Keep, GcType, ListInv
  <2> QED BY <1>3, <2>1, <2>2 DEF Keep, connVars, ListInv, Listed
<1>4. CASE Close
  <2>1. gc.c \in Conn /\ gc.c \in gc.todo
    BY <1>4 DEF Close, ListInv, GcType
  <2>2. /\ gc' \in GcType /\ gc'.at = "pick" /\ gc'.todo \subseteq gc.todo \ {gc.c}
        /\ gc'.kept = gc.kept
    <3>1. PICK rest \in {gc.todo \ {gc.c}, {}} : gc' = [gc EXCEPT !.at = "pick", !.todo = rest]
      BY <1>4 DEF Close
    <3>2. gc \in GcType /\ rest \in SUBSET Conn /\ rest \subseteq gc.todo \ {gc.c}
      BY <3>1 DEF ListInv, GcType
    <3> QED BY <3>1, <3>2 DEF GcType
  <2>3. /\ server' = [server EXCEPT ![gc.c] = "closed"]
        /\ filter_time_list' = [filter_time_list EXCEPT ![gc.c] = Nil]
        /\ gc.at = "check" /\ UNCHANGED <<now, conn>>
    BY <1>4 DEF Close, Unlist, userVars
  <2> QED BY <2>1, <2>2, <2>3 DEF ListInv, Listed
<1>5. CASE EndCheckTime
  <2>1. gc' \in GcType /\ gc'.at = "flush" /\ gc'.kept = gc.kept /\ gc.at = "pick"
    BY <1>5 DEF EndCheckTime, GcType, ListInv
  <2> QED BY <1>5, <2>1 DEF EndCheckTime, connVars, ListInv, Listed
<1>6. CASE Flush
  <2>1. gc' \in GcType /\ gc'.at = "hour"
    BY <1>6 DEF Flush, GcType, ListInv
  <2> QED BY <1>6, <2>1 DEF Flush, connVars, ListInv, Listed
<1>7. CASE checkExpireChain \/ NotHourly
  <2>1. gc' \in GcType /\ gc'.at = "sleep" /\ UNCHANGED <<now, connVars>>
    BY <1>7 DEF checkExpireChain, NotHourly, Asleep, GcType
  <2> QED BY <2>1 DEF connVars, ListInv, Listed
<1>8. CASE LockLogins \/ UnlockLogins
  BY <1>8, QuietStep DEF LockLogins, UnlockLogins, Enter, Exit
<1> QED
  BY <1>1, <1>2, <1>3, <1>4, <1>5, <1>6, <1>7, <1>8 DEF TimeThread

LEMMA PageTime ==
  ASSUME NEW p \in Page, UserPage(p)
  PROVE  UNCHANGED now
BY DEF UserPage, PageGoesOn, LoginStart, LoginLock, LoginTaken, LoginFree, LoginNew, LoginAgain,
       LoginWrite, PageUnlock, Begins, Logout, Kill, DelUserLogin, EndLogin, DelUserRecord,
       NewUser, AddGroup, DelGroup

LEMMA ListStep ==
  ASSUME ListInv, WalkInv, [Next]_vars
  PROVE  ListInv'
<1>1. CASE UNCHANGED vars
  BY <1>1, QuietStep DEF vars
<1>2. ASSUME NEW p \in Page, UserPage(p), UNCHANGED <<connVars, gc>>
      PROVE  ListInv'
  <2>1. UNCHANGED now
    BY <1>2, PageTime
  <2> QED BY <1>2, <2>1, QuietStep
<1>3. ASSUME NEW p \in Page, RulePage(p)
      PROVE  ListInv'
  BY <1>3, QuietStep DEF RulePage, MakeChain, DelChain, changeFirst
<1>4. ASSUME NEW i \in Addr, Ban(i)
      PROVE  ListInv'
  BY <1>4, QuietStep DEF Ban
<1>5. ASSUME NEW w \in Walker, Check(w)
      PROVE  ListInv'
  BY <1>5, QuietStep DEF Check
<1>6. CASE Time
  <2>1. now' \in Nat /\ UNCHANGED <<connVars, gc>>
    BY <1>6 DEF Time, Tick, ListInv
  <2> QED BY <2>1 DEF ListInv, Listed, connVars
<1> QED
  BY <1>1, <1>2, <1>3, <1>4, <1>5, <1>6, ConnStep, GcStep DEF Next

-----------------------------------------------------------------------------
(* The calls of Check.                                                     *)
LEMMA InitWalk == Init => WalkInv
<1> SUFFICES ASSUME Init PROVE WalkInv
  OBVIOUS
<1>1. NoWalk \in WalkType /\ NoWalk.at = "idle"
  BY DEF NoWalk, WalkType, Model, DENY, ALLOW
<1>2. m_chains \in [Model -> Seq(Rule)] /\ \A m \in Model : Len(m_chains[m]) <= MaxRules
  BY AccessAssumption DEF Init, InitAccess
<1>3. \A c \in Conn : conn[c].pc = "idle"
  BY DEF Init, InitAccess, NoConn
<1> QED
  BY <1>1, <1>2, <1>3 DEF Init, InitAccess, WalkInv, Walker, Asleep

LEMMA ModelFacts ==
  /\ Model = {0, 1} /\ DENY = 0 /\ ALLOW = 1
  /\ \A m \in Model : 1 - m \in Model /\ 1 - (1 - m) = m /\ 1 - m # m
  /\ \A m, n \in Model : n = m \/ n = 1 - m
BY DEF Model, DENY, ALLOW

(* A step of Check moves one walk on, and asks about the same.             *)
Moves(w, new) ==
  /\ walk' = [walk EXCEPT ![w] = new]
  /\ new \in WalkType /\ new.at # "idle" /\ new.s = walk[w].s
  /\ walk[w].at # "idle"

LEMMA FinishMoves ==
  ASSUME WalkInv, NEW w \in Walker, walk[w].at # "idle"
  PROVE  /\ \A r \in Model : Finish(w, r) =>
              \E new : Moves(w, new) /\ new.at = "done" /\ new.result = r
         /\ ToLast(w) => \E new : Moves(w, new) /\ new.at = "last"
<1>1. walk[w] \in WalkType /\ walk[w].s \in State
  BY DEF WalkInv
<1>2. ASSUME NEW r \in Model, Finish(w, r)
      PROVE  \E new : Moves(w, new) /\ new.at = "done" /\ new.result = r
  <2> DEFINE new == [NoWalk EXCEPT !.at = "done", !.s = walk[w].s, !.result = r]
  <2>1. new \in WalkType /\ new.at = "done" /\ new.s = walk[w].s /\ new.result = r
    BY <1>1 DEF NoWalk, WalkType, Model, DENY, ALLOW
  <2>2. walk' = [walk EXCEPT ![w] = new]
    BY <1>2 DEF Finish, Step
  <2> HIDE DEF new
  <2> QED BY <2>1, <2>2 DEF Moves
<1>3. ASSUME ToLast(w)
      PROVE  \E new : Moves(w, new) /\ new.at = "last"
  <2> DEFINE new == [NoWalk EXCEPT !.at = "last", !.s = walk[w].s]
  <2>1. new \in WalkType /\ new.at = "last" /\ new.s = walk[w].s
    BY <1>1 DEF NoWalk, WalkType, Model, DENY, ALLOW
  <2>2. walk' = [walk EXCEPT ![w] = new]
    BY <1>3 DEF ToLast, Step
  <2> HIDE DEF new
  <2> QED BY <2>1, <2>2 DEF Moves
<1> QED BY <1>2, <1>3

(* The moves of Check, by what they need and where they lead.              *)
Takes(w, new) ==
  /\ walk[w].at = "call" /\ new.at = "enter" /\ new.second = 1 - first
Enters(w, new) ==
  /\ walk[w].at = "enter" /\ new.at = "first" /\ new.second = walk[w].second
  /\ new.model = first /\ new.i = 1
EntersSecond(w, new) ==
  /\ walk[w].at = "between" /\ new.at = "second" /\ new.second = walk[w].second
  /\ new.model = walk[w].second /\ new.i = 1
RuleHere(w) == RuleAt(walk[w].model, walk[w].i)
AnswersHere(w, a) ==
  /\ Reading(w) /\ walk[w].i \in 1..Len(List(w))
  /\ a \in Answers(RuleHere(w), walk[w].s, walk[w].model)
MatchesHere(w, new) ==
  \/ walk[w].at = "first" /\ new.at = "last"
  \/ walk[w].at = "second" /\ new.at = "done" /\ new.result = walk[w].second
Goes(w, new) ==
  /\ new.at = walk[w].at /\ new.model = walk[w].model /\ new.second = walk[w].second
  /\ new.i = walk[w].i + 1
Leaves(w, new) ==
  \/ walk[w].at = "first" /\ new.at = "between" /\ new.second = walk[w].second
  \/ walk[w].at = "second" /\ new.at = "last"

(* The login becomes recent if the answer needs it.                        *)
Touches(w, a) ==
  LET r == RuleHere(w)
      s == walk[w].s
  IN  IF Applies(r, s) /\ AsksUser(r, s) /\ a # r.user_revers
      THEN Refresh(s.src_ip) ELSE UNCHANGED login

CheckMove(w, new) ==
  \/ UNCHANGED login /\ (Takes(w, new) \/ Enters(w, new) \/ EntersSecond(w, new))
  \/ /\ AnswersHere(w, TRUE) /\ Touches(w, TRUE)
     /\ MatchesHere(w, new)
  \/ /\ AnswersHere(w, FALSE) /\ Touches(w, FALSE)
     /\ Goes(w, new)
  \/ /\ Reading(w) /\ walk[w].i > Len(List(w)) /\ UNCHANGED login
     /\ Leaves(w, new)
  \/ /\ Reading(w) /\ walk[w].i > Len(List(w)) + 1 /\ UNCHANGED login
     /\ MatchesHere(w, new)
  \/ /\ walk[w].at = "last" /\ UNCHANGED login
     /\ new.at = "done" /\ new.result = first

LEMMA AnswersBoolean ==
  ASSUME NEW r \in Rule, NEW s, NEW m, NEW a \in Answers(r, s, m)
  PROVE  a \in BOOLEAN
<1>1. r.user_revers \in BOOLEAN
  BY DEF Rule
<1>2. \A x \in UserAnswers(r, s, m) : x \in BOOLEAN
  BY <1>1 DEF UserAnswers
<1> QED BY <1>2 DEF Answers

(* It takes m_lock, or gives it back, meanwhile.                           *)
Rests(w) == (LockUsers(w) \/ UnlockUsers(w)) /\ UNCHANGED walk

LEMMA CheckMoves ==
  ASSUME WalkInv, NEW w \in Walker, Check(w)
  PROVE  Rests(w) \/ \E new : Moves(w, new) /\ CheckMove(w, new)
<1> DEFINE old == walk[w]
           Goal == \E new : Moves(w, new) /\ CheckMove(w, new)
<1>1. /\ old \in WalkType /\ walk \in [Walker -> WalkType]
      /\ old.at # "idle" => old.s \in State
      /\ first \in Model /\ old.second \in Model /\ old.model \in Model /\ old.i \in Nat
      /\ 1 - first \in Model
      /\ List(w) \in Seq(Rule)
  BY ModelFacts DEF WalkInv, WalkType, List
<1>2. ASSUME NEW new \in WalkType, walk' = [walk EXCEPT ![w] = new], new.at # "idle",
             new.s = old.s, old.at # "idle"
      PROVE  Moves(w, new)
  BY <1>2 DEF Moves
<1>3. ASSUME Reading(w), Matched(w)
      PROVE  \E new : Moves(w, new) /\ MatchesHere(w, new)
  <2>1. CASE old.at = "first"
    <3>1. ToLast(w)
      BY <1>3, <2>1 DEF Matched
    <3> QED BY <2>1, <3>1, FinishMoves DEF MatchesHere
  <2>2. CASE old.at = "second"
    <3>1. Finish(w, old.second)
      BY <1>3, <2>2 DEF Matched
    <3> QED BY <2>2, <3>1, <1>1, FinishMoves DEF MatchesHere
  <2> QED BY <1>3, <2>1, <2>2 DEF Reading
<1>4. CASE TakeSecond(w)
  <2> DEFINE new == [old EXCEPT !.at = "enter", !.second = 1 - first]
  <2>1. /\ new \in WalkType /\ new.at = "enter" /\ new.s = old.s /\ new.second = 1 - first
        /\ walk' = [walk EXCEPT ![w] = new] /\ old.at = "call" /\ UNCHANGED login
    BY <1>1, <1>4 DEF TakeSecond, Step, WalkType
  <2> HIDE DEF new
  <2> QED BY <2>1, <1>2 DEF CheckMove, Takes
<1>5. CASE EnterFirst(w)
  <2> DEFINE new == [old EXCEPT !.at = "first", !.model = first, !.i = 1]
  <2>1. /\ new \in WalkType /\ new.at = "first" /\ new.s = old.s /\ new.second = old.second
        /\ new.model = first /\ new.i = 1
        /\ walk' = [walk EXCEPT ![w] = new] /\ old.at = "enter" /\ UNCHANGED login
    BY <1>1, <1>5 DEF EnterFirst, Step, WalkType
  <2> HIDE DEF new
  <2> QED BY <2>1, <1>2 DEF CheckMove, Enters
<1>6. CASE EnterSecond(w)
  <2> DEFINE new == [old EXCEPT !.at = "second", !.model = old.second, !.i = 1]
  <2>1. /\ new \in WalkType /\ new.at = "second" /\ new.s = old.s /\ new.second = old.second
        /\ new.model = old.second /\ new.i = 1
        /\ walk' = [walk EXCEPT ![w] = new] /\ old.at = "between" /\ UNCHANGED login
    BY <1>1, <1>6 DEF EnterSecond, Step, WalkType
  <2> HIDE DEF new
  <2> QED BY <2>1, <1>2 DEF CheckMove, EntersSecond
<1>7. CASE TryRule(w)
  <2>1. PICK a \in Answers(RuleHere(w), old.s, old.model) :
          /\ IF a THEN Matched(w) ELSE Step(w, [old EXCEPT !.i = @ + 1])
          /\ Touches(w, a)
    BY <1>7 DEF TryRule, RuleHere, Here, Asks, Touches, RuleAt, List
  <2>2. Reading(w) /\ old.i \in 1..Len(List(w)) /\ RuleHere(w) \in Rule
    BY <1>1, <1>7 DEF TryRule, AtRule, RuleHere, RuleAt, List
  <2>3. a \in BOOLEAN /\ AnswersHere(w, a)
    BY <2>1, <2>2, AnswersBoolean DEF AnswersHere
  <2>4. CASE a = TRUE
    <3>1. Matched(w) /\ Touches(w, TRUE) /\ AnswersHere(w, TRUE)
      BY <2>1, <2>3, <2>4
    <3> QED BY <1>3, <2>2, <3>1 DEF CheckMove
  <2>5. CASE a = FALSE
    <3>1. Step(w, [old EXCEPT !.i = @ + 1]) /\ Touches(w, FALSE) /\ AnswersHere(w, FALSE)
      BY <2>1, <2>3, <2>5
    <3> DEFINE new == [old EXCEPT !.i = @ + 1]
    <3>2. /\ new \in WalkType /\ new.at = old.at /\ new.s = old.s /\ new.second = old.second
          /\ new.model = old.model /\ new.i = old.i + 1
      BY <1>1 DEF WalkType
    <3>3. walk' = [walk EXCEPT ![w] = new] /\ old.at # "idle"
      BY <2>2, <3>1 DEF Step, Reading
    <3> HIDE DEF new
    <3> QED BY <3>1, <3>2, <3>3, <1>2 DEF CheckMove, Goes
  <2> QED BY <2>3, <2>4, <2>5
<1>8. CASE EndList(w)
  <2>1. Reading(w) /\ old.i > Len(List(w)) /\ UNCHANGED login /\ NotMatched(w)
    BY <1>1, <1>8 DEF EndList, AtEnd, Astray
  <2>2. CASE old.at = "first"
    <3> DEFINE new == [old EXCEPT !.at = "between"]
    <3>1. /\ new \in WalkType /\ new.at = "between" /\ new.s = old.s /\ new.second = old.second
          /\ walk' = [walk EXCEPT ![w] = new]
      BY <1>1, <2>1, <2>2 DEF NotMatched, Step, WalkType
    <3> HIDE DEF new
    <3> QED BY <2>1, <2>2, <3>1, <1>2 DEF CheckMove, Leaves
  <2>3. CASE old.at = "second"
    <3>1. ToLast(w)
      BY <2>1, <2>3 DEF NotMatched
    <3>2. PICK new : Moves(w, new) /\ new.at = "last"
      BY <2>3, <3>1, FinishMoves
    <3> QED BY <2>1, <2>3, <3>2 DEF CheckMove, Leaves
  <2> QED BY <2>1, <2>2, <2>3 DEF Reading
<1>9. CASE MatchAstray(w)
  <2>1. Reading(w) /\ old.i > Len(List(w)) + 1 /\ UNCHANGED login /\ Matched(w)
    BY <1>9 DEF MatchAstray, Astray
  <2> QED BY <2>1, <1>3 DEF CheckMove
<1>10. CASE ReturnFirst(w)
  <2>1. old.at = "last" /\ Finish(w, first) /\ UNCHANGED login
    BY <1>10 DEF ReturnFirst
  <2>2. PICK new : Moves(w, new) /\ new.at = "done" /\ new.result = first
    BY <1>1, <2>1, FinishMoves
  <2> QED BY <2>1, <2>2 DEF CheckMove
<1> QED
  BY <1>4, <1>5, <1>6, <1>7, <1>8, <1>9, <1>10 DEF Check, Rests

-----------------------------------------------------------------------------
(* What a step does to the lists of rules: it changes one of them, or      *)
(* takes expired rules from both.                                          *)
OneList == \E m \in Model : m_chains'[1 - m] = m_chains[1 - m]
OnlyFewer == \A m \in Model : PartOf(m_chains'[m], m_chains[m])

ChainsMove ==
  \/ m_chains' = m_chains
  \/ UNCHANGED <<now, walk>> /\ (OneList \/ OnlyFewer)

LEMMA PartIsType ==
  ASSUME NEW t, NEW s \in Seq(Rule), PartOf(t, s), Len(s) <= MaxRules
  PROVE  t \in Seq(Rule) /\ Len(t) <= MaxRules
BY AccessAssumption DEF PartOf

LEMMA AppendIsType ==
  ASSUME NEW s \in Seq(Rule), NEW r \in Rule, Len(s) < MaxRules
  PROVE  Append(s, r) \in Seq(Rule) /\ Len(Append(s, r)) <= MaxRules
BY AccessAssumption

ChainsOK ==
  /\ m_chains \in [Model -> Seq(Rule)]
  /\ \A m \in Model : Len(m_chains[m]) <= MaxRules

LEMMA ListChange ==
  ASSUME ChainsOK, NEW m \in Model, NEW t \in Seq(Rule), Len(t) <= MaxRules,
         m_chains' = [m_chains EXCEPT ![m] = t], UNCHANGED <<now, walk>>
  PROVE  ChainsOK' /\ ChainsMove
<1>1. m_chains'[1 - m] = m_chains[1 - m]
  BY ModelFacts DEF ChainsOK
<1> QED BY <1>1 DEF ChainsOK, ChainsMove, OneList

LEMMA AppendChange ==
  ASSUME ChainsOK, NEW m \in Model, NEW r \in Rule, AppendRule(m, r), UNCHANGED <<now, walk>>
  PROVE  ChainsOK' /\ ChainsMove
<1> DEFINE t == Append(m_chains[m], r)
<1>1. t \in Seq(Rule) /\ Len(t) <= MaxRules /\ m_chains' = [m_chains EXCEPT ![m] = t]
  BY AppendIsType DEF AppendRule, ChainsOK
<1> HIDE DEF t
<1> QED BY <1>1, ListChange

LEMMA BanIsRule ==
  ASSUME NEW i \in Addr, now \in Nat
  PROVE  BanRule(i) \in Rule
<1>1. [net |-> {i}, revers |-> FALSE] \in IPModel /\ [net |-> ALLIP, revers |-> FALSE] \in IPModel
  BY DEF IPModel
<1>2. 0..MaxTime \in SUBSET Nat /\ now + BanTime \in Nat
  BY UsersAssumption, AccessAssumption
<1> QED BY <1>1, <1>2 DEF BanRule, Rule

LEMMA ChainsStep ==
  ASSUME ListInv, WalkInv, [Next]_vars
  PROVE  ChainsOK' /\ ChainsMove /\ first' \in Model
<1>0. ChainsOK /\ first \in Model /\ now \in Nat
  BY DEF ListInv, WalkInv, ChainsOK
<1>q. UNCHANGED m_chains => ChainsOK' /\ ChainsMove
  BY <1>0 DEF ChainsOK, ChainsMove
<1>1. CASE UNCHANGED vars
  BY <1>0, <1>1, <1>q DEF vars, ruleVars
<1>2. ASSUME NEW p \in Page, UNCHANGED <<ruleVars, connVars, walk, gc>>
      PROVE  ChainsOK' /\ ChainsMove /\ first' \in Model
  BY <1>0, <1>2, <1>q DEF ruleVars
<1>3. ASSUME NEW p \in Page, RulePage(p)
      PROVE  ChainsOK' /\ ChainsMove /\ first' \in Model
  <2>1. ASSUME NEW m \in Model, NEW r \in Rules, MakeChain(p, m, r)
        PROVE  ChainsOK' /\ ChainsMove /\ first' \in Model
    <3>1. r \in Rule /\ AppendRule(m, r) /\ UNCHANGED <<now, walk, first>>
      BY <2>1, AccessAssumption DEF MakeChain
    <3> QED BY <3>1, <1>0, AppendChange
  <2>2. ASSUME NEW m \in Model, NEW k \in 1..MaxRules, DelChain(p, m, k)
        PROVE  ChainsOK' /\ ChainsMove /\ first' \in Model
    <3> DEFINE t == RemoveAt(m_chains[m], k)
    <3>1. /\ m_chains[m] \in Seq(Rule) /\ Len(m_chains[m]) <= MaxRules
          /\ k \in DOMAIN m_chains[m]
          /\ m_chains' = [m_chains EXCEPT ![m] = t] /\ UNCHANGED <<now, walk, first>>
      BY <2>2, <1>0 DEF DelChain, ChainsOK
    <3>2. PartOf(t, m_chains[m])
      BY <3>1, RemovePart
    <3> HIDE DEF t
    <3>3. t \in Seq(Rule) /\ Len(t) <= MaxRules
      BY <3>1, <3>2, PartIsType
    <3> QED BY <3>1, <3>3, <1>0, ListChange
  <2>3. CASE changeFirst(p)
    BY <2>3, <1>0, <1>q, ModelFacts DEF changeFirst
  <2> QED BY <1>3, <2>1, <2>2, <2>3 DEF RulePage
<1>4. ASSUME NEW i \in Addr, Ban(i)
      PROVE  ChainsOK' /\ ChainsMove /\ first' \in Model
  <2>1. AppendRule(DENY, BanRule(i)) /\ UNCHANGED <<now, walk, first>> /\ DENY \in Model
    BY <1>4, ModelFacts DEF Ban
  <2> QED BY <2>1, <1>0, AppendChange, BanIsRule
<1>5. ASSUME NEW c \in Conn, Client(c) \/ ServerThread(c)
      PROVE  ChainsOK' /\ ChainsMove /\ first' \in Model
  <2>1. UNCHANGED ruleVars
    BY <1>5 DEF Client, ServerThread, Accept, Request, End, Refuse, Forget, Serve, Deny,
                add_filter_time, del_filter_time, DeleteServer
  <2> QED BY <2>1, <1>0, <1>q DEF ruleVars
<1>6. ASSUME NEW w \in Walker, Check(w)
      PROVE  ChainsOK' /\ ChainsMove /\ first' \in Model
  BY <1>6, <1>0, <1>q DEF Check, ruleVars
<1>7. CASE TimeThread
  <2>1. CASE checkExpireChain
    <3>1. ASSUME NEW m \in Model
          PROVE  /\ PartOf(m_chains'[m], m_chains[m])
                 /\ m_chains'[m] \in Seq(Rule) /\ Len(m_chains'[m]) <= MaxRules
      <4>1. m_chains'[m] = KeptOf(m_chains[m]) /\ m_chains[m] \in Seq(Rule)
            /\ Len(m_chains[m]) <= MaxRules
        BY <2>1, <1>0 DEF checkExpireChain, ChainsOK
      <4>2. PartOf(m_chains'[m], m_chains[m])
        BY <4>1, KeptPart
      <4> QED BY <4>1, <4>2, PartIsType
    <3>2. m_chains' = [m \in Model |-> m_chains'[m]] /\ UNCHANGED <<now, walk, first>>
      BY <2>1 DEF checkExpireChain
    <3>3. m_chains' \in [Model -> Seq(Rule)]
      BY <3>1, <3>2
    <3> QED BY <3>1, <3>2, <3>3, <1>0 DEF ChainsOK, ChainsMove, OnlyFewer
  <2>2. CASE ~checkExpireChain
    <3>1. UNCHANGED ruleVars
      BY <1>7, <2>2 DEF TimeThread, check_time, Pick, Keep, Close, EndCheckTime, LockLogins, Flush,
                        UnlockLogins, NotHourly
    <3> QED BY <3>1, <1>0, <1>q DEF ruleVars
  <2> QED BY <2>1, <2>2
<1>8. CASE Time
  BY <1>8, <1>0, <1>q DEF Time, ruleVars
<1> QED
  BY <1>1, <1>2, <1>3, <1>4, <1>5, <1>6, <1>7, <1>8 DEF Next

-----------------------------------------------------------------------------
(* How the calls of Check begin, go on and end.                            *)
StartsCall(w) ==
  /\ walk[w].at = "idle"
  /\ \E s \in State : walk' = [walk EXCEPT ![w] = [NoWalk EXCEPT !.at = "call", !.s = s]]
Ends(w) == walk[w].at = "done" /\ walk' = [walk EXCEPT ![w] = NoWalk]

LEMMA CallBegins ==
  ASSUME NEW w \in Walker, NEW s \in State, walk[w].at = "idle", CallCheck(w, s)
  PROVE  StartsCall(w)
BY DEF CallCheck, StartsCall

WalkTypes ==
  /\ walk \in [Walker -> WalkType]
  /\ \A w \in Walker : walk[w].at # "idle" => walk[w].s \in State

Others(w) == \A v \in Walker \ {w} : walk'[v] = walk[v]

LEMMA MovesOK ==
  ASSUME WalkTypes, NEW w \in Walker, NEW new, Moves(w, new)
  PROVE  WalkTypes' /\ Others(w) /\ walk'[w] = new /\ walk'[w].at # "idle"
BY DEF WalkTypes, Moves, Others

LEMMA BeginsOK ==
  ASSUME WalkTypes, NEW w \in Walker, StartsCall(w)
  PROVE  WalkTypes' /\ Others(w) /\ walk'[w].at = "call" /\ walk'[w].s \in State
<1>1. PICK s \in State : walk' = [walk EXCEPT ![w] = [NoWalk EXCEPT !.at = "call", !.s = s]]
  BY DEF StartsCall
<1> DEFINE new == [NoWalk EXCEPT !.at = "call", !.s = s]
<1>2. new \in WalkType /\ new.at = "call" /\ new.s = s
  BY DEF NoWalk, WalkType, Model, DENY, ALLOW
<1>3. walk' = [walk EXCEPT ![w] = new]
  BY <1>1
<1> HIDE DEF new
<1>4. walk'[w] = new /\ \A v \in Walker \ {w} : walk'[v] = walk[v]
  BY <1>3 DEF WalkTypes
<1>5. walk' \in [Walker -> WalkType]
  BY <1>2, <1>3 DEF WalkTypes
<1> QED BY <1>2, <1>4, <1>5 DEF WalkTypes, Others

LEMMA EndsOK ==
  ASSUME WalkTypes, NEW w \in Walker, Ends(w)
  PROVE  WalkTypes' /\ Others(w) /\ walk'[w].at = "idle"
<1>1. NoWalk \in WalkType /\ NoWalk.at = "idle"
  BY DEF NoWalk, WalkType, Model, DENY, ALLOW
<1> QED BY <1>1 DEF WalkTypes, Others, Ends

(* A step of thread c, which leaves the time thread at its connection.     *)
LEMMA ThreadStep ==
  ASSUME ListInv, WalkInv, ChainsOK', first' \in Model, WalkTypes',
         NEW c \in Conn, NEW pc,
         Goto(c, pc) \/ \E i, s : conn' = [conn EXCEPT ![c] = [pc |-> pc, src |-> i, service |-> s]],
         Others(c), pc \in {"accept", "check"} <=> walk'[c].at # "idle",
         gc'.at = gc.at, gc'.c = gc.c,
         gc.at = "check" => UNCHANGED filter_time_list
  PROVE  WalkInv'
<1>1. \A d \in Conn : IF d = c THEN conn'[d].pc = pc ELSE conn'[d] = conn[d]
  <2>1. conn \in [Conn -> ConnType]
    BY DEF ListInv
  <2>2. CASE Goto(c, pc)
    BY <2>1, <2>2 DEF Goto, ConnType
  <2>3. ASSUME NEW i, NEW s, conn' = [conn EXCEPT ![c] = [pc |-> pc, src |-> i, service |-> s]]
        PROVE  \A d \in Conn : IF d = c THEN conn'[d].pc = pc ELSE conn'[d] = conn[d]
    BY <2>1, <2>3
  <2> QED BY <2>2, <2>3
<1>2. Collector \in Walker /\ Collector # c /\ walk'[Collector] = walk[Collector]
  BY UsersAssumption DEF Walker, Others
<1>3. \A d \in Conn : d # c => walk'[d] = walk[d]
  BY DEF Others, Walker
<1> QED BY <1>1, <1>2, <1>3 DEF WalkInv, WalkTypes, ChainsOK

LEMMA ConnWalks ==
  ASSUME ListInv, WalkInv, ChainsOK', first' \in Model,
         NEW c \in Conn, Client(c) \/ ServerThread(c)
  PROVE  WalkInv' /\ (StartsCall(c) \/ Ends(c) \/ UNCHANGED walk)
<1> DEFINE Goal == WalkInv' /\ (StartsCall(c) \/ Ends(c) \/ UNCHANGED walk)
<1>0. /\ WalkTypes /\ c \in Walker
      /\ conn[c].pc \in {"accept", "check"} <=> walk[c].at # "idle"
      /\ conn[c].pc # "idle" => conn[c].src \in Addr /\ conn[c].service \in Service
  BY DEF WalkInv, WalkTypes, Walker, ListInv
<1>u. UNCHANGED walk => WalkTypes' /\ Others(c)
  BY <1>0 DEF WalkTypes, Others
<1>r. ASSUME NEW r, Returned(c, r), Return(c)
      PROVE  Ends(c) /\ WalkTypes' /\ Others(c) /\ walk'[c].at = "idle"
  <2>1. Ends(c)
    BY <1>r DEF Returned, Return, Ends
  <2> QED BY <2>1, <1>0, EndsOK
<1>1. ASSUME NEW i \in Addr, NEW s \in Service, Accept(c, i, s)
      PROVE  Goal
  <2> DEFINE q == [src_ip |-> i, service |-> s, dst_ip |-> Nil,
                   uid |-> IF s = SOCKS THEN DELAYUSER ELSE Nil]
  <2>1. q \in State
    BY DEF State
  <2>2. /\ conn[c].pc = "idle" /\ CallCheck(c, q) /\ UNCHANGED <<gc, filter_time_list>>
        /\ conn' = [conn EXCEPT ![c] = [pc |-> "accept", src |-> i, service |-> s]]
    BY <1>1 DEF Accept, InPc
  <2> HIDE DEF q
  <2>3. StartsCall(c)
    BY <2>1, <2>2, <1>0, CallBegins
  <2>4. WalkTypes' /\ Others(c) /\ walk'[c].at = "call"
    BY <2>3, <1>0, BeginsOK
  <2>5. WalkInv'
    BY <2>2, <2>4, ThreadStep
  <2> QED BY <2>3, <2>5
<1>2. ASSUME NEW d \in Dst, NEW u \in Name \cup {Nil}, Request(c, d, u)
      PROVE  Goal
  <2> DEFINE q == [src_ip |-> conn[c].src, service |-> conn[c].service, dst_ip |-> d, uid |-> u]
  <2>1. /\ conn[c].pc \in {"wait", "serve"} /\ CallCheck(c, q)
        /\ UNCHANGED <<gc, filter_time_list>> /\ Goto(c, "check")
    BY <1>2 DEF Request, InPc
  <2>2. q \in State
    BY <2>1, <1>0 DEF State
  <2> HIDE DEF q
  <2>3. StartsCall(c)
    BY <2>1, <2>2, <1>0, CallBegins
  <2>4. WalkTypes' /\ Others(c) /\ walk'[c].at = "call"
    BY <2>3, <1>0, BeginsOK
  <2>5. WalkInv'
    BY <2>1, <2>4, ThreadStep
  <2> QED BY <2>3, <2>5
<1>3. CASE End(c)
  <2>1. /\ conn[c].pc \in {"wait", "serve"} /\ Goto(c, "end")
        /\ UNCHANGED <<gc, filter_time_list, walk>>
    BY <1>3 DEF End, InPc
  <2> QED BY <2>1, <1>0, <1>u, ThreadStep
<1>4. CASE Refuse(c)
  <2>1. Ends(c) /\ WalkTypes' /\ Others(c) /\ walk'[c].at = "idle"
    BY <1>4, <1>r DEF Refuse
  <2>2. Goto(c, "refused") /\ UNCHANGED <<gc, filter_time_list>>
    BY <1>4 DEF Refuse
  <2> QED BY <2>1, <2>2, ThreadStep
<1>5. CASE Forget(c)
  <2>1. /\ conn[c].pc = "refused" /\ UNCHANGED <<gc, filter_time_list, walk>>
        /\ conn' = [conn EXCEPT ![c] = [pc |-> "idle", src |-> Nil, service |-> Nil]]
    BY <1>5 DEF Forget, InPc, NoConn
  <2> QED BY <2>1, <1>0, <1>u, ThreadStep
<1>6. CASE Serve(c)
  <2>1. Ends(c) /\ WalkTypes' /\ Others(c) /\ walk'[c].at = "idle"
    BY <1>6, <1>r DEF Serve
  <2>2. Goto(c, "wait") /\ UNCHANGED <<gc, filter_time_list>>
    BY <1>6 DEF Serve
  <2> QED BY <2>1, <2>2, ThreadStep
<1>7. CASE Deny(c)
  <2>1. Ends(c) /\ WalkTypes' /\ Others(c) /\ walk'[c].at = "idle"
    BY <1>7, <1>r DEF Deny
  <2>2. Goto(c, "end") /\ UNCHANGED <<gc, filter_time_list>>
    BY <1>7 DEF Deny
  <2> QED BY <2>1, <2>2, ThreadStep
<1>g. ASSUME gc' = [gc EXCEPT !.kept = @ \ {c}]
      PROVE  gc'.at = gc.at /\ gc'.c = gc.c
  BY <1>g DEF ListInv, GcType
<1>8. CASE add_filter_time(c)
  <2>1. Ends(c) /\ WalkTypes' /\ Others(c) /\ walk'[c].at = "idle"
    BY <1>8, <1>r DEF add_filter_time
  <2>2. Goto(c, "serve") /\ gc.at # "check" /\ gc'.at = gc.at /\ gc'.c = gc.c
    BY <1>8, <1>g DEF add_filter_time, ListFree
  <2> QED BY <2>1, <2>2, ThreadStep
<1>9. CASE del_filter_time(c)
  <2>1. /\ conn[c].pc = "end" /\ Goto(c, "deleted") /\ UNCHANGED walk
        /\ gc.at # "check" /\ gc'.at = gc.at /\ gc'.c = gc.c
    BY <1>9, <1>g DEF del_filter_time, ListFree, InPc
  <2> QED BY <2>1, <1>0, <1>u, ThreadStep
<1>10. CASE DeleteServer(c)
  <2>1. /\ conn[c].pc = "deleted" /\ UNCHANGED <<gc, filter_time_list, walk>>
        /\ conn' = [conn EXCEPT ![c] = [pc |-> "idle", src |-> Nil, service |-> Nil]]
    BY <1>10 DEF DeleteServer, InPc, NoConn
  <2> QED BY <2>1, <1>0, <1>u, ThreadStep
<1> QED
  BY <1>1, <1>2, <1>3, <1>4, <1>5, <1>6, <1>7, <1>8, <1>9, <1>10 DEF Client, ServerThread

(* Steps that leave the connections and the time thread alone.             *)
LEMMA QuietWalk ==
  ASSUME WalkInv, ChainsOK', first' \in Model, WalkTypes', UNCHANGED <<connVars, gc>>,
         \A w \in Walker : walk'[w].at # "idle" <=> walk[w].at # "idle",
         walk'[Collector].s = walk[Collector].s
  PROVE  WalkInv'
<1>1. \A c \in Conn : c \in Walker
  BY DEF Walker
<1>2. Collector \in Walker
  BY DEF Walker
<1> QED BY <1>1, <1>2 DEF WalkInv, WalkTypes, ChainsOK, connVars

(* The time thread: only Pick and the end of a check disturb its walk.     *)
LEMMA GcWalk ==
  ASSUME WalkInv, ChainsOK', first' \in Model, WalkTypes', Others(Collector), UNCHANGED conn,
         gc'.at = "check" <=> walk'[Collector].at # "idle",
         gc'.at = "check" => walk'[Collector].s = filter_time_list'[gc'.c]
  PROVE  WalkInv'
<1>1. \A c \in Conn : c \in Walker /\ c # Collector /\ walk'[c] = walk[c]
  BY UsersAssumption DEF Walker, Others
<1> QED BY <1>1 DEF WalkInv, WalkTypes, ChainsOK

LEMMA GcWalks ==
  ASSUME ListInv, WalkInv, ChainsOK', first' \in Model, TimeThread
  PROVE  WalkInv' /\ (StartsCall(Collector) \/ Ends(Collector) \/ UNCHANGED walk)
<1> DEFINE Goal == WalkInv' /\ (StartsCall(Collector) \/ Ends(Collector) \/ UNCHANGED walk)
<1>0. /\ WalkTypes /\ Collector \in Walker /\ gc \in GcType
      /\ gc.at = "check" <=> walk[Collector].at # "idle"
      /\ gc.at = "check" => walk[Collector].s = filter_time_list[gc.c]
  BY DEF WalkInv, WalkTypes, Walker, ListInv
<1>u. UNCHANGED walk => WalkTypes' /\ Others(Collector)
  BY <1>0 DEF WalkTypes, Others
<1>1. ASSUME NEW c \in Conn, Pick(c)
      PROVE  Goal
  <2>1. /\ gc.at = "pick" /\ gc'.at = "check" /\ gc'.c = c
        /\ CallCheck(Collector, filter_time_list[c]) /\ UNCHANGED connVars
        /\ filter_time_list[c] \in State
    BY <1>1, <1>0 DEF Pick, GcType, ListInv, Listed
  <2>2. walk' = [walk EXCEPT ![Collector] =
                   [NoWalk EXCEPT !.at = "call", !.s = filter_time_list[c]]]
    BY <2>1 DEF CallCheck
  <2>3. StartsCall(Collector)
    BY <2>1, <1>0, CallBegins
  <2>4. walk'[Collector].s = filter_time_list[c]
    BY <2>2, <1>0 DEF WalkTypes, NoWalk
  <2>5. /\ WalkTypes' /\ Others(Collector) /\ walk'[Collector].at = "call"
        /\ filter_time_list'[gc'.c] = filter_time_list[c] /\ UNCHANGED conn
    BY <2>1, <2>3, <1>0, BeginsOK DEF connVars
  <2>6. WalkInv'
    BY <2>1, <2>4, <2>5, GcWalk
  <2> QED BY <2>3, <2>6
<1>2. CASE Keep \/ Close
  <2>1. walk[Collector].at = "done" /\ Return(Collector) /\ UNCHANGED conn
    BY <1>2 DEF Keep, Close, Returned, connVars
  <2>2. gc'.at = "pick"
    <3>1. CASE Keep
      BY <3>1, <1>0 DEF Keep, GcType
    <3>2. CASE Close
      <4>1. PICK rest \in {gc.todo \ {gc.c}, {}} : gc' = [gc EXCEPT !.at = "pick", !.todo = rest]
        BY <3>2 DEF Close
      <4> QED BY <4>1, <1>0 DEF GcType
    <3> QED BY <1>2, <3>1, <3>2
  <2>3. Ends(Collector)
    BY <2>1 DEF Return, Ends
  <2>4. WalkTypes' /\ Others(Collector) /\ walk'[Collector].at = "idle"
    BY <2>3, <1>0, EndsOK
  <2>5. WalkInv'
    BY <2>1, <2>2, <2>4, GcWalk
  <2> QED BY <2>3, <2>5
<1>3. CASE check_time \/ EndCheckTime \/ Flush \/ checkExpireChain \/ NotHourly
  <2>1. gc.at # "check" /\ UNCHANGED <<walk, conn>>
    BY <1>3 DEF check_time, EndCheckTime, Flush, checkExpireChain, NotHourly, connVars
  <2>3. gc'.at # "check"
    <3>1. CASE EndCheckTime \/ Flush
      BY <3>1, <1>0 DEF EndCheckTime, Flush, GcType
    <3>2. CASE check_time \/ checkExpireChain \/ NotHourly
      <4>1. gc' = Asleep \/ \E todo : gc' = [Asleep EXCEPT !.at = "pick", !.since = now, !.todo = todo]
        BY <3>2 DEF check_time, checkExpireChain, NotHourly
      <4>2. Asleep.at = "sleep"
        BY DEF Asleep
      <4>3. \A todo : [Asleep EXCEPT !.at = "pick", !.since = now, !.todo = todo].at = "pick"
        BY DEF Asleep
      <4> QED BY <4>1, <4>2, <4>3
    <3> QED BY <1>3, <3>1, <3>2
  <2>2. WalkInv'
    BY <2>1, <2>3, <1>0, <1>u, GcWalk
  <2> QED BY <2>1, <2>2
<1>4. CASE LockLogins \/ UnlockLogins
  <2>1. UNCHANGED <<walk, conn, filter_time_list, gc>>
    BY <1>4 DEF LockLogins, UnlockLogins, connVars
  <2>2. WalkInv'
    BY <2>1, <1>0, <1>u, GcWalk
  <2> QED BY <2>1, <2>2
<1> QED BY <1>1, <1>2, <1>3, <1>4 DEF TimeThread

(* Each step begins a call of Check, or ends one, or moves one on, or      *)
(* leaves them all alone.                                                  *)
WalkMove ==
  \/ UNCHANGED walk
  \/ \E w \in Walker : StartsCall(w) \/ Ends(w)
  \/ \E w \in Walker : /\ Check(w)
                       /\ \E new : Moves(w, new) /\ CheckMove(w, new)

LEMMA WalkStep ==
  ASSUME ListInv, WalkInv, [Next]_vars
  PROVE  WalkInv' /\ WalkMove
<1>0. WalkTypes /\ ChainsOK' /\ first' \in Model
  BY ChainsStep DEF WalkInv, WalkTypes
<1>u. UNCHANGED <<connVars, gc, walk>> => WalkInv' /\ WalkMove
  <2> SUFFICES ASSUME UNCHANGED <<connVars, gc, walk>> PROVE WalkInv' /\ WalkMove
    OBVIOUS
  <2>1. WalkTypes'
    BY <1>0 DEF WalkTypes
  <2> QED BY <2>1, <1>0, QuietWalk DEF WalkMove
<1>1. CASE UNCHANGED vars
  BY <1>1, <1>u DEF vars
<1>2. ASSUME NEW p \in Page, UNCHANGED <<ruleVars, connVars, walk, gc>>
      PROVE  WalkInv' /\ WalkMove
  BY <1>2, <1>u
<1>3. ASSUME NEW p \in Page, RulePage(p)
      PROVE  WalkInv' /\ WalkMove
  BY <1>3, <1>u DEF RulePage, MakeChain, DelChain, changeFirst
<1>4. ASSUME NEW i \in Addr, Ban(i)
      PROVE  WalkInv' /\ WalkMove
  BY <1>4, <1>u DEF Ban
<1>5. ASSUME NEW c \in Conn, Client(c) \/ ServerThread(c)
      PROVE  WalkInv' /\ WalkMove
  BY <1>0, <1>5, ConnWalks DEF WalkMove, Walker
<1>6. ASSUME NEW w \in Walker, Check(w)
      PROVE  WalkInv' /\ WalkMove
  <2>r. CASE Rests(w)
    BY <1>6, <2>r, <1>u DEF Rests, Check
  <2> SUFFICES ASSUME ~Rests(w) PROVE WalkInv' /\ WalkMove
    BY <2>r
  <2>1. PICK new : Moves(w, new) /\ CheckMove(w, new)
    BY <1>6, CheckMoves
  <2>2. WalkTypes' /\ Others(w) /\ walk'[w] = new /\ walk'[w].at # "idle"
    BY <2>1, <1>0, MovesOK
  <2>3. walk'[w].s = walk[w].s /\ walk[w].at # "idle"
    BY <2>1, <2>2 DEF Moves
  <2>4. UNCHANGED <<connVars, gc>>
    BY <1>6 DEF Check
  <2>5. /\ \A v \in Walker : walk'[v].at # "idle" <=> walk[v].at # "idle"
        /\ walk'[Collector].s = walk[Collector].s
    BY <2>2, <2>3 DEF Others, Walker
  <2>6. WalkInv'
    BY <2>2, <2>4, <2>5, <1>0, QuietWalk
  <2> QED BY <1>6, <2>1, <2>6 DEF WalkMove
<1>7. CASE TimeThread
  BY <1>0, <1>7, GcWalks DEF WalkMove, Walker
<1>8. CASE Time
  BY <1>8, <1>u DEF Time
<1> QED
  BY <1>1, <1>2, <1>3, <1>4, <1>5, <1>6, <1>7, <1>8 DEF Next

(* The conjunction of the two is inductive.                                *)
THEOREM CallsAreOwned == Spec => [](ListInv /\ WalkInv)
<1>1. ListInv /\ WalkInv /\ [Next]_vars => ListInv' /\ WalkInv'
  BY ListStep, WalkStep
<1> QED
  BY <1>1, InitList, InitWalk, PTL DEF Spec

-----------------------------------------------------------------------------
(* The table of logins.                                                    *)

LEMMA CheckUserBoolean ==
  ASSUME NEW i, NEW g
  PROVE  /\ CheckUser(i, g) \subseteq BOOLEAN
         /\ ~Freed(i) => \E x : CheckUser(i, g) = {x}
<1>1. CASE ~LoggedIn(i)
  BY <1>1 DEF CheckUser
<1>2. CASE LoggedIn(i) /\ g \in {ALLUSER, login[i].user}
  BY <1>2 DEF CheckUser
<1>3. CASE LoggedIn(i) /\ g \notin {ALLUSER, login[i].user}
  <2>1. (g \in gids[login[i].user]) \in BOOLEAN
    OBVIOUS
  <2>2. CheckUser(i, g) = IF Freed(i) THEN BOOLEAN ELSE {(g \in gids[login[i].user])}
    BY <1>3 DEF CheckUser
  <2> QED BY <2>1, <2>2
<1> QED BY <1>1, <1>2, <1>3

(* A step of Check at a rule, as a user of the table: if it asks who is    *)
(* logged in, it is in m_lock's section, and makes a login recent only if  *)
(* it has just found it.  This is what module LoginTable allows.           *)
LEMMA TryIsUse ==
  ASSUME WalkInv, NEW w \in Walker, TryRule(w),
         UNCHANGED <<now, record, gids, m_lock, page, pages>>
  PROVE  [TableNext]_tableVars
<1> DEFINE r == Here(w)
           s == walk[w].s
<1>1. r \in Rule /\ s \in State
  <2>1. walk[w].model \in Model /\ walk[w].at # "idle" /\ walk[w].i \in DOMAIN List(w)
    BY DEF WalkInv, WalkType, TryRule, AtRule, Reading
  <2>2. m_chains[walk[w].model] \in Seq(Rule)
    BY <2>1 DEF WalkInv
  <2> QED BY <2>1, <2>2 DEF WalkInv, Here, List
<1>2. PICK a \in Answers(r, s, walk[w].model) :
        IF Asks(w) /\ a # r.user_revers THEN Refresh(s.src_ip) ELSE UNCHANGED login
  BY DEF TryRule
<1>3. /\ s.src_ip \in Addr /\ r.user_id \in Name \cup {ALLUSER, ALLIP}
      /\ r.user_revers \in BOOLEAN
  BY <1>1 DEF Rule, State
<1>4. /\ Asks(w) <=> Applies(r, s) /\ AsksUser(r, s)
      /\ IF Asks(w) THEN InSection(w) ELSE UNCHANGED guest
  BY DEF TryRule, Asks
<1> HIDE DEF r, s
<1>5. CASE ~Asks(w)
  BY <1>2, <1>4, <1>5 DEF tableVars, userVars, lockVars
<1>6. CASE Asks(w) /\ a = r.user_revers
  <2>1. Ask(w)
    BY <1>2, <1>4, <1>6 DEF Ask
  <2> QED BY <2>1 DEF TableNext, Visit
<1>7. CASE Asks(w) /\ a # r.user_revers
  <2>1. s.uid = Nil /\ r.user_id # ALLIP /\ s.uid # DELAYUSER
    BY <1>4, <1>7, AccessAssumption DEF AsksUser
  <2>2. PICK x \in CheckUser(s.src_ip, r.user_id) : a = (x # r.user_revers)
    BY <1>2, <1>4, <1>7, <2>1 DEF Answers, UserAnswers
  <2>3. x \in BOOLEAN
    BY <2>2, CheckUserBoolean
  <2>4. x = TRUE
    BY <1>3, <1>7, <2>2, <2>3
  <2>5. LoggedIn(s.src_ip)
    BY <2>2, <2>4 DEF CheckUser
  <2>6. InSection(w) /\ Refresh(s.src_ip)
    BY <1>2, <1>4, <1>7
  <2>7. Use(w, s.src_ip, r.user_id)
    BY <2>2, <2>4, <2>5, <2>6 DEF Use
  <2> QED BY <1>3, <2>1, <2>7 DEF TableNext, Visit
<1> QED BY <1>5, <1>6, <1>7

LEMMA TableMove ==
  ASSUME WalkInv, [Next]_vars
  PROVE  [TableNext]_tableVars
<1>1. CASE UNCHANGED vars
  BY <1>1 DEF vars, tableVars
<1>2. ASSUME NEW p \in Page, UserPage(p)
      PROVE  TableNext
  BY <1>2 DEF TableNext
<1>3. ASSUME NEW p \in Page, RulePage(p)
      PROVE  TableNext
  <2>1. OtherPage
    BY <1>3 DEF RulePage, MakeChain, DelChain, changeFirst, Begin, OtherPage
  <2> QED BY <2>1 DEF TableNext
<1>4. ASSUME NEW i \in Addr, Ban(i)
      PROVE  TableNext
  BY <1>4 DEF Ban, OtherPage, TableNext
<1>5. ASSUME NEW c \in Conn, Client(c) \/ ServerThread(c)
      PROVE  UNCHANGED tableVars
  BY <1>5 DEF Client, ServerThread, Accept, Request, End, Refuse, Forget, Serve, Deny,
              add_filter_time, del_filter_time, DeleteServer, tableVars
<1>6. ASSUME NEW w \in Walker, Check(w)
      PROVE  [TableNext]_tableVars
  <2>1. UNCHANGED <<now, record, gids, page, pages>>
    BY <1>6 DEF Check
  <2>2. CASE LockUsers(w) \/ UnlockUsers(w)
    BY <2>2 DEF LockUsers, UnlockUsers, TableNext, Visit
  <2>3. CASE TryRule(w) /\ UNCHANGED m_lock
    BY <2>1, <2>3, TryIsUse
  <2>4. CASE UNCHANGED <<login, m_lock, guest>>
    BY <2>1, <2>4 DEF tableVars, userVars, lockVars
  <2> QED BY <1>6, <2>2, <2>3, <2>4 DEF Check, TakeSecond, EnterFirst, EnterSecond, EndList,
                                        MatchAstray, ReturnFirst
<1>7. CASE TimeThread
  <2>1. CASE Flush
    BY <2>1 DEF Flush, FlushTable, TableNext
  <2>2. CASE LockLogins \/ UnlockLogins
    BY <2>2 DEF LockLogins, UnlockLogins, TableNext, Visit, Walker
  <2>3. CASE ~(Flush \/ LockLogins \/ UnlockLogins)
    BY <1>7, <2>3 DEF TimeThread, check_time, Pick, Keep, Close, EndCheckTime, checkExpireChain,
                      NotHourly, tableVars
  <2> QED BY <2>1, <2>2, <2>3
<1>8. CASE Time
  BY <1>8 DEF Time, TableNext
<1> QED
  BY <1>1, <1>2, <1>3, <1>4, <1>5, <1>6, <1>7, <1>8 DEF Next

(* The access filter, its worker threads and the time thread together use  *)
(* the table of logins only as module LoginTable says a user of it may, so *)
(* that what is proved about the table by itself holds for it in use.      *)
THEOREM UsesLoginTable == Spec => TableSpec
<1>1. Init => InitUsers
  BY DEF Init
<1>2. WalkInv /\ [Next]_vars => [TableNext]_tableVars
  BY TableMove
<1> QED
  BY <1>1, <1>2, CallsAreOwned, PTL DEF Spec, TableSpec

(* Types, through all steps: every call of Check belongs to a thread that  *)
(* waits for it, no list of rules outgrows its bound, and no login was     *)
(* used later than now.                                                    *)
THEOREM AccessTypes == Spec => []TypeOK
<1>1. ListInv /\ WalkInv /\ TableTypeOK => TypeOK
  BY DEF ListInv, WalkInv, TableTypeOK, TypeOK, ConnType
<1> QED
  BY <1>1, CallsAreOwned, UsesLoginTable, TypeCorrect, PTL

-----------------------------------------------------------------------------
(* What the rules say does not change while nothing they depend on does.   *)
Calm == ~Stirred

LEMMA CalmStep ==
  ASSUME TableTypeOK, TableTypeOK', Calm
  PROVE  /\ first' = first /\ gids' = gids /\ record' = record
         /\ now' = now \/ InForce' = InForce
         /\ \A i \in Addr : /\ login[i] = Nil <=> login'[i] = Nil
                            /\ login[i] # Nil => login'[i].user = login[i].user
                            /\ ~Freed(i) /\ ~Freed(i)'
                            /\ login[i] # Nil =>
                                 login'[i].last_active_time >= login[i].last_active_time
<1>1. /\ first' = first /\ gids' = gids /\ record' = record
      /\ now' = now \/ InForce' = InForce
      /\ LoggedInUsers' = LoggedInUsers
      /\ \A i \in Addr : ~Freed(i)'
  BY DEF Calm, Stirred
<1>2. ASSUME NEW i \in Addr
      PROVE  /\ login[i] = Nil <=> login'[i] = Nil
             /\ login[i] # Nil => login'[i].user = login[i].user
  <2>1. (IF login'[i] # Nil THEN login'[i].user ELSE Nil)
          = (IF login[i] # Nil THEN login[i].user ELSE Nil)
    BY <1>1 DEF LoggedInUsers, LoggedIn
  <2>2. /\ login[i] # Nil => login[i].user \in Name
        /\ login'[i] # Nil => login'[i].user \in Name
    BY DEF TableTypeOK, LoginUserInfo
  <2>3. Nil \notin Name
    BY UsersAssumption
  <2> QED BY <2>1, <2>2, <2>3
<1>3. \A i \in Addr : ~Freed(i)
  BY <1>1, <1>2 DEF Freed, LoggedIn
<1>4. ASSUME NEW i \in Addr, login[i] # Nil
      PROVE  login'[i].last_active_time >= login[i].last_active_time
  <2>1. ~(login'[i].last_active_time < login[i].last_active_time)
    BY <1>2, <1>4 DEF Calm, Stirred, LoggedIn
  <2>2. login[i] \in LoginUserInfo /\ login'[i] \in LoginUserInfo
    BY <1>2, <1>4 DEF TableTypeOK
  <2>3. login[i].last_active_time \in Nat /\ login'[i].last_active_time \in Nat
    BY <2>2 DEF LoginUserInfo
  <2> QED BY <2>1, <2>3
<1> QED BY <1>1, <1>2, <1>3, <1>4

LEMMA CheckUserStays ==
  ASSUME TableTypeOK, TableTypeOK', Calm, NEW i \in Addr, NEW g
  PROVE  CheckUser(i, g)' = CheckUser(i, g)
<1>1. /\ login[i] = Nil <=> login'[i] = Nil
      /\ login[i] # Nil => login'[i].user = login[i].user
      /\ ~Freed(i) /\ ~Freed(i)' /\ gids' = gids
  BY CalmStep
<1> QED BY <1>1 DEF CheckUser, LoggedIn

LEMMA AnswersStay ==
  ASSUME TableTypeOK, TableTypeOK', Calm, NEW r \in Rule, NEW s \in State, NEW m,
         now \in r.m_time <=> now' \in r.m_time
  PROVE  /\ Applies(r, s)' <=> Applies(r, s)
         /\ Answers(r, s, m)' = Answers(r, s, m)
<1>1. Applies(r, s)' <=> Applies(r, s)
  BY DEF Applies, MatchIPModel
<1>2. record' = record /\ gids' = gids
  BY CalmStep
<1>3. CheckGroup(s.uid, r.user_id)' <=> CheckGroup(s.uid, r.user_id)
  BY <1>2 DEF CheckGroup
<1>4. CheckUser(s.src_ip, r.user_id)' = CheckUser(s.src_ip, r.user_id)
  BY CheckUserStays DEF State
<1>5. UserAnswers(r, s, m)' = UserAnswers(r, s, m)
  <2>1. (CheckGroup(s.uid, r.user_id) # r.user_revers)'
          = (CheckGroup(s.uid, r.user_id) # r.user_revers)
    BY <1>2 DEF CheckGroup
  <2>2. {a # r.user_revers : a \in CheckUser(s.src_ip, r.user_id)}'
          = {a # r.user_revers : a \in CheckUser(s.src_ip, r.user_id)}
    BY <1>4
  <2>3. CASE r.user_id = ALLIP \/ s.uid = DELAYUSER
    BY <2>3 DEF UserAnswers
  <2>4. CASE r.user_id # ALLIP /\ s.uid # DELAYUSER /\ s.uid # Nil
    BY <2>1, <2>4 DEF UserAnswers
  <2>5. CASE r.user_id # ALLIP /\ s.uid # DELAYUSER /\ s.uid = Nil
    BY <2>2, <2>5 DEF UserAnswers
  <2> QED BY <2>3, <2>4, <2>5
<1> QED BY <1>1, <1>5 DEF Answers

(* Without a freed user there is one answer.                               *)
LEMMA OneAnswer ==
  ASSUME \A i \in Addr : ~Freed(i), NEW r \in Rule, NEW s \in State, NEW m,
         NEW a \in Answers(r, s, m)
  PROVE  Answers(r, s, m) = {a}
<1>1. /\ s.src_ip \in Addr /\ r.user_revers \in BOOLEAN
  BY DEF State, Rule
<1>2. \E x : CheckUser(s.src_ip, r.user_id) = {x}
  BY <1>1, CheckUserBoolean
<1>3. PICK x : CheckUser(s.src_ip, r.user_id) = {x}
  BY <1>2
<1>4. {b # r.user_revers : b \in {x}} = {x # r.user_revers}
  OBVIOUS
<1> QED BY <1>3, <1>4 DEF Answers, UserAnswers

LEMMA RuleType ==
  ASSUME WalkInv, NEW m \in Model, NEW k \in 1..Len(m_chains[m])
  PROVE  RuleAt(m, k) \in Rule
BY DEF WalkInv, RuleAt

LEMMA RuleStays ==
  ASSUME TableTypeOK, TableTypeOK', WalkInv, Calm, ChainsMove,
         NEW m \in Model, m_chains'[m] = m_chains[m],
         NEW k \in 1..Len(m_chains[m]), NEW s \in State
  PROVE  /\ RuleAt(m, k)' = RuleAt(m, k)
         /\ Applies(RuleAt(m, k), s)' <=> Applies(RuleAt(m, k), s)
         /\ Answers(RuleAt(m, k), s, m)' = Answers(RuleAt(m, k), s, m)
<1>1. PICK r \in Rule : r = RuleAt(m, k)
  BY RuleType
<1>2. RuleAt(m, k)' = r
  BY <1>1 DEF RuleAt
<1>3. now \in r.m_time <=> now' \in r.m_time
  <2>1. CASE now' = now
    BY <2>1
  <2>2. CASE now' # now
    <3>1. InForce' = InForce /\ m_chains' = m_chains
      BY <2>2, CalmStep DEF ChainsMove
    <3>2. k \in DOMAIN m_chains[m] /\ m_chains[m][k] = r
      BY <1>1 DEF RuleAt, WalkInv
    <3>3. k \in InForce[m] <=> now \in r.m_time
      BY <3>2 DEF InForce
    <3>4. k \in InForce'[m] <=> now' \in r.m_time
      BY <3>1, <3>2 DEF InForce
    <3> QED BY <3>1, <3>3, <3>4
  <2> QED BY <2>1, <2>2
<1>4. /\ Applies(r, s)' <=> Applies(r, s)
      /\ Answers(r, s, m)' = Answers(r, s, m)
  BY <1>3, AnswersStay
<1>5. /\ Applies(RuleAt(m, k), s)' <=> Applies(r, s)'
      /\ Answers(RuleAt(m, k), s, m)' = Answers(r, s, m)'
  BY <1>2
<1> QED BY <1>1, <1>2, <1>4, <1>5

LEMMA HitStays ==
  ASSUME TableTypeOK, TableTypeOK', WalkInv, Calm, ChainsMove,
         NEW m \in Model, m_chains'[m] = m_chains[m], NEW s \in State
  PROVE  Hit(m, s)' <=> Hit(m, s)
<1>1. m_chains[m] \in Seq(Rule) /\ DOMAIN m_chains[m] = 1..Len(m_chains[m])
  BY DEF WalkInv
<1>2. Hit(m, s) <=> \E k \in 1..Len(m_chains[m]) : TRUE \in Answers(RuleAt(m, k), s, m)
  BY <1>1 DEF Hit, RuleAt
<1>3. Hit(m, s)' <=> \E k \in 1..Len(m_chains[m]) : TRUE \in Answers(RuleAt(m, k), s, m)'
  BY <1>1 DEF Hit, RuleAt
<1> QED BY <1>2, <1>3, RuleStays

LEMMA MissStays ==
  ASSUME TableTypeOK, TableTypeOK', WalkInv, Calm, now' = now,
         NEW m \in Model, PartOf(m_chains'[m], m_chains[m]), NEW s \in State, ~Hit(m, s)
  PROVE  ~Hit(m, s)'
<1> SUFFICES ASSUME Hit(m, s)' PROVE FALSE
  OBVIOUS
<1>1. PICK k \in DOMAIN m_chains'[m] : TRUE \in Answers(m_chains[m][k], s, m)'
  BY DEF Hit
<1>2. k \in 1..Len(m_chains'[m])
  BY <1>1 DEF PartOf
<1>3. PICK j \in 1..Len(m_chains[m]) : m_chains'[m][k] = m_chains[m][j]
  BY <1>2 DEF PartOf
<1>4. PICK r \in Rule : r = m_chains[m][j]
  BY RuleType DEF RuleAt
<1>5. TRUE \in Answers(r, s, m)'
  BY <1>1, <1>3, <1>4
<1>6. TRUE \in Answers(r, s, m)
  BY <1>5, AnswersStay
<1>7. j \in DOMAIN m_chains[m]
  BY DEF WalkInv
<1> QED BY <1>4, <1>6, <1>7 DEF Hit

-----------------------------------------------------------------------------
(* What a call of Check knows stays true while it is not torn.             *)
Ready == ListInv /\ WalkInv /\ TableTypeOK /\ TableTypeOK' /\ PolicyInv

LEMMA DecisionType ==
  ASSUME first \in Model, NEW s
  PROVE  Decision(s) \in Model
BY ModelFacts DEF Decision

LEMMA TornStep ==
  ASSUME PolicyInv, Remember, NEW w \in Walker, walk[w].at # "idle", walk'[w].at # "idle",
         torn'[w] < 2
  PROVE  /\ torn[w] < 2 /\ Calm
         /\ Reading(w) => m_chains' = m_chains
         /\ IF m_chains' = m_chains THEN torn'[w] = torn[w] ELSE torn[w] = 0 /\ torn'[w] = 1
<1>1. torn'[w] = Torn(w)
  BY DEF Remember, Idling
<1>2. torn[w] \in 0..2
  BY DEF PolicyInv
<1> QED BY <1>1, <1>2 DEF Torn, Calm

LEMMA SeenStep ==
  ASSUME PolicyInv, Remember, first' \in Model, NEW w \in Walker
  PROVE  /\ torn'[w] \in 0..2 /\ seen'[w] \in SUBSET Model
         /\ walk'[w].at # "idle" /\ torn'[w] < 2 =>
              seen[w] \subseteq seen'[w] /\ Decision(walk[w].s)' \in seen'[w]
<1>1. torn[w] \in 0..2 /\ seen[w] \in SUBSET Model
  BY DEF PolicyInv
<1>2. torn'[w] \in 0..2
  <2>1. Torn(w) \in 0..2
    BY <1>1 DEF Torn
  <2> QED BY <2>1 DEF Remember
<1>3. Decision(walk[w].s)' \in Model
  BY ModelFacts DEF Decision
<1>4. seen'[w] = IF Idling(w)' \/ torn'[w] = 2 THEN {} ELSE seen[w] \cup {Decision(walk[w].s)'}
  BY DEF Remember
<1> QED BY <1>1, <1>2, <1>3, <1>4 DEF Idling

(* The rules that were passed still do not match.                          *)
LEMMA PassedStays ==
  ASSUME TableTypeOK, TableTypeOK', WalkInv, Calm, m_chains' = m_chains,
         NEW m \in Model, NEW n \in Nat, n <= Len(m_chains[m]), NEW s \in State,
         \A k \in 1..n : ~Matches(RuleAt(m, k), s, m)
  PROVE  \A k \in 1..n : ~Matches(RuleAt(m, k), s, m)'
<1> SUFFICES ASSUME NEW k \in 1..n PROVE ~Matches(RuleAt(m, k), s, m)'
  OBVIOUS
<1>1. k \in 1..Len(m_chains[m])
  BY DEF WalkInv
<1>2. Answers(RuleAt(m, k), s, m)' = Answers(RuleAt(m, k), s, m)
  BY <1>1, RuleStays DEF ChainsMove
<1> QED BY <1>2 DEF Matches

LEMMA KnowsStays ==
  ASSUME Ready, ChainsMove, Remember, first' \in Model, NEW w \in Walker,
         walk'[w] = walk[w], walk[w].at # "idle", torn'[w] < 2
  PROVE  Knows(w)'
<1>1. /\ torn[w] < 2 /\ Calm /\ Knows(w)
      /\ Reading(w) => m_chains' = m_chains
      /\ IF m_chains' = m_chains THEN torn'[w] = torn[w] ELSE torn[w] = 0 /\ torn'[w] = 1
  BY TornStep DEF Ready, PolicyInv
<1>2. PICK s \in State : s = walk[w].s /\ s = walk'[w].s
  BY DEF Ready, WalkInv
<1>3. PICK f \in Model : f = first /\ f = first'
  BY <1>1, CalmStep DEF Ready, WalkInv
<1>4. seen[w] \subseteq seen'[w] /\ Decision(s)' \in seen'[w]
  BY <1>2, SeenStep DEF Ready
<1>h. ASSUME NEW m \in Model, m_chains'[m] = m_chains[m]
      PROVE  Hit(m, s)' <=> Hit(m, s)
  BY <1>1, <1>h, HitStays DEF Ready
<1>s. /\ Second(s) = IF Hit(1 - f, s) THEN 1 - f ELSE f
      /\ Second(s)' = IF Hit(1 - f, s)' THEN 1 - f ELSE f
      /\ Decision(s)' = IF Hit(f, s)' THEN f ELSE Second(s)'
      /\ 1 - f \in Model
  BY <1>3, ModelFacts DEF Second, Decision
<1>p. ASSUME m_chains' = m_chains, Passed(w), walk[w].model \in Model
      PROVE  Passed(w)'
  <2>1. PICK m \in Model : m = walk[w].model /\ m = walk'[w].model
    BY <1>p
  <2>2. PICK i \in Nat : i = walk[w].i /\ i = walk'[w].i /\ i \in 1..Len(m_chains[m]) + 1
    BY <1>p, <2>1 DEF Ready, WalkInv, WalkType, Passed, List
  <2>3. i - 1 \in Nat /\ i - 1 <= Len(m_chains[m])
    BY <2>2 DEF Ready, WalkInv
  <2>4. \A k \in 1..i - 1 : ~Matches(RuleAt(m, k), s, m)
    BY <1>2, <1>p, <2>1, <2>2 DEF Passed
  <2>5. \A k \in 1..i - 1 : ~Matches(RuleAt(m, k), s, m)'
    BY <1>1, <1>p, <2>3, <2>4, PassedStays DEF Ready
  <2> QED BY <1>2, <1>p, <2>1, <2>2, <2>5 DEF Passed, List
<1>5. CASE walk[w].at \in {"call", "enter", "last", "done"}
  BY <1>1, <1>2, <1>3, <1>4, <1>5 DEF Knows
<1>6. CASE Reading(w)
  <2>1. m_chains' = m_chains /\ Hit(1 - f, s)' = Hit(1 - f, s)
    BY <1>1, <1>6, <1>h, <1>s DEF Hit
  <2>2. Passed(w)'
    BY <1>1, <1>3, <1>6, <1>p, <1>s, <2>1 DEF Knows, Reading
  <2>3. walk[w].at = "second" => Second(s)' \in seen'[w]
    BY <1>1, <1>2, <1>4, <1>s, <2>1 DEF Knows
  <2> QED BY <1>1, <1>2, <1>3, <1>4, <1>6, <2>2, <2>3 DEF Knows, Reading
<1>7. CASE walk[w].at = "between"
  <2>1. Second(s) \in seen'[w] /\ (torn[w] = 0 => ~Hit(f, s)) /\ walk[w].second = 1 - f
    BY <1>1, <1>2, <1>3, <1>4, <1>7 DEF Knows
  <2>2. Second(s)' \in seen'[w] /\ (torn'[w] = 0 => ~Hit(f, s)')
    <3>1. CASE m_chains' = m_chains
      BY <1>1, <1>h, <1>s, <2>1, <3>1
    <3>2. CASE m_chains' # m_chains /\ OneList
      <4>1. torn[w] = 0 /\ torn'[w] = 1
        BY <1>1, <3>2
      <4>2. PICK m \in Model : m_chains'[1 - m] = m_chains[1 - m]
        BY <3>2 DEF OneList
      <4>3. 1 - m = f \/ 1 - m = 1 - f
        BY ModelFacts
      <4>4. CASE 1 - m = f
        BY <1>4, <1>h, <1>s, <2>1, <4>1, <4>2, <4>4
      <4>5. CASE 1 - m = 1 - f
        BY <1>4, <1>h, <1>s, <2>1, <4>1, <4>2, <4>5
      <4> QED BY <4>3, <4>4, <4>5
    <3>3. CASE m_chains' # m_chains /\ OnlyFewer
      <4>1. torn[w] = 0 /\ torn'[w] = 1 /\ now' = now
        BY <1>1, <3>3 DEF ChainsMove
      <4>2. ~Hit(f, s)'
        BY <1>1, <2>1, <3>3, <4>1, MissStays DEF Ready, OnlyFewer
      <4> QED BY <1>4, <1>s, <4>1, <4>2
    <3> QED BY <3>1, <3>2, <3>3 DEF ChainsMove
  <2> QED BY <1>2, <1>3, <1>4, <1>7, <2>1, <2>2 DEF Knows
<1>8. walk[w].at \in {"idle", "call", "enter", "first", "between", "second", "last", "done"}
  BY DEF Ready, WalkInv, WalkType
<1> QED BY <1>5, <1>6, <1>7, <1>8 DEF Reading

(* A step of Check: the lists and `first' stay as they are.                *)
LEMMA KnowsMoves ==
  ASSUME Ready, Remember, NEW w \in Walker, Check(w), torn'[w] < 2,
         NEW new, Moves(w, new), CheckMove(w, new)
  PROVE  Knows(w)'
<1>1. UNCHANGED <<now, m_chains, first>> /\ first \in Model /\ ChainsMove
  BY DEF Check, ruleVars, Ready, WalkInv, ChainsMove
<1>2. /\ walk'[w] = new /\ new.at # "idle" /\ walk[w].at # "idle" /\ new.s = walk[w].s
      /\ walk[w] \in WalkType
  BY DEF Ready, WalkInv, Moves
<1>3. torn[w] < 2 /\ Calm /\ Knows(w) /\ torn'[w] = torn[w]
  BY <1>1, <1>2, TornStep DEF Ready, PolicyInv
<1>4. PICK s \in State : s = walk[w].s /\ s = new.s
  BY <1>2 DEF Ready, WalkInv
<1>5. PICK f \in Model : f = first /\ f = first'
  BY <1>1
<1>6. \A m \in Model : Hit(m, s)' <=> Hit(m, s)
  BY <1>1, <1>3, HitStays DEF Ready
<1>7. /\ Second(s) = IF Hit(1 - f, s) THEN 1 - f ELSE f
      /\ Second(s)' = Second(s)
      /\ Decision(s) = IF Hit(f, s) THEN f ELSE Second(s)
      /\ 1 - f \in Model /\ 1 - (1 - f) = f /\ 1 - f # f
  BY <1>5, <1>6, ModelFacts DEF Second, Decision
<1>8. /\ seen[w] \subseteq seen'[w] /\ Decision(s) \in seen[w] /\ Decision(s)' \in seen'[w]
  BY <1>1, <1>2, <1>3, <1>4, SeenStep DEF Ready, Knows
(* The rules passed so far, seen from the state before.                    *)
<1>p. ASSUME Reading(w)
      PROVE  LET m == walk[w].model
                 i == walk[w].i
             IN  /\ m \in Model /\ i \in Nat /\ i \in 1..Len(m_chains[m]) + 1
                 /\ Len(m_chains[m]) \in Nat
                 /\ \A k \in 1..i - 1 : ~Matches(RuleAt(m, k), s, m)
                 /\ m = IF walk[w].at = "first" THEN f ELSE 1 - f
                 /\ walk[w].second = 1 - f
                 /\ walk[w].at = "second" => Second(s) \in seen[w]
  <2>1. walk[w].at \in {"first", "second"} /\ walk[w].i \in Nat
    BY <1>2, <1>p DEF Reading, WalkType
  <2>2. /\ walk[w].model = (IF walk[w].at = "first" THEN f ELSE 1 - f)
        /\ walk[w].second = 1 - f /\ Passed(w)
        /\ walk[w].at = "second" => Second(s) \in seen[w]
    BY <1>3, <1>4, <1>5, <2>1 DEF Knows
  <2>3. PICK m \in Model : m = walk[w].model
    BY <1>7, <2>2
  <2>4. Len(m_chains[m]) \in Nat
    BY DEF Ready, WalkInv
  <2>5. /\ walk[w].i \in 1..Len(m_chains[m]) + 1
        /\ \A k \in 1..walk[w].i - 1 : ~Matches(RuleAt(m, k), s, m)
    BY <1>4, <2>2, <2>3 DEF Passed, List
  <2> QED BY <2>1, <2>2, <2>3, <2>4, <2>5
<1>h. ASSUME Reading(w), AnswersHere(w, TRUE)
      PROVE  Hit(walk[w].model, s)
  <2>1. walk[w].i \in DOMAIN m_chains[walk[w].model]
    BY <1>p, <1>h DEF AnswersHere, List, Ready, WalkInv
  <2> QED BY <1>4, <1>h, <2>1 DEF AnswersHere, RuleHere, RuleAt, Hit
<1>m. ASSUME Reading(w), walk[w].i > Len(List(w))
      PROVE  ~Hit(walk[w].model, s) /\ walk[w].i = Len(List(w)) + 1
  <2>1. PICK m \in Model : m = walk[w].model
    BY <1>p, <1>m
  <2>2. PICK i \in Nat : i = walk[w].i /\ i = Len(m_chains[m]) + 1
    BY <1>p, <1>m, <2>1 DEF List
  <2>3. \A k \in 1..Len(m_chains[m]) : ~Matches(RuleAt(m, k), s, m)
    BY <1>p, <1>m, <2>1, <2>2
  <2>4. DOMAIN m_chains[m] = 1..Len(m_chains[m])
    BY DEF Ready, WalkInv
  <2> QED BY <2>1, <2>2, <2>3, <2>4 DEF Hit, Matches, RuleAt, List
<1> DEFINE Goal ==
             /\ new.at \in {"enter", "first", "between", "second"} => new.second = 1 - f
             /\ new.at = "first" => new.model = f /\ Passed(w)'
             /\ new.at \in {"between", "second"} => Second(s) \in seen[w]
             /\ new.at = "between" => ~Hit(f, s)
             /\ new.at = "second" => new.model = 1 - f /\ Passed(w)'
             /\ new.at = "last" => f \in seen[w]
             /\ new.at = "done" => new.result \in seen[w]
<1>9. SUFFICES Goal
  <2>1. Hit(f, s)' <=> Hit(f, s)
    BY <1>6
  <2>2. walk[w]' = new /\ first' = f /\ Second(s)' = Second(s)
    BY <1>2, <1>5, <1>7
  <2> QED BY <1>4, <1>8, <2>1, <2>2 DEF Knows
<1>10. CASE Takes(w, new)
  BY <1>10, <1>5 DEF Takes
<1>e. ASSUME new.i = 1, new.model \in Model
      PROVE  Passed(w)'
  <2>1. PICK m \in Model : m = new.model
    BY <1>e
  <2>2. Len(m_chains'[m]) \in Nat
    BY <1>1 DEF Ready, WalkInv
  <2>3. walk[w]' = new
    BY <1>2
  <2> QED BY <1>e, <2>1, <2>2, <2>3 DEF Passed, List
<1>11. CASE Enters(w, new)
  BY <1>11, <1>3, <1>5, <1>e DEF Enters, Knows
<1>12. CASE EntersSecond(w, new)
  BY <1>12, <1>3, <1>4, <1>5, <1>7, <1>e DEF EntersSecond, Knows
<1>13. CASE AnswersHere(w, TRUE) /\ MatchesHere(w, new)
  <2>1. Reading(w)
    BY <1>13 DEF AnswersHere
  <2> QED BY <1>13, <1>h, <1>p, <1>7, <1>8, <2>1 DEF MatchesHere
<1>14. CASE AnswersHere(w, FALSE) /\ Goes(w, new)
  <2>1. Reading(w)
    BY <1>14 DEF AnswersHere
  <2>2. PICK m \in Model : m = walk[w].model /\ m = new.model
    BY <1>p, <1>14, <2>1 DEF Goes
  <2>3. PICK i \in Nat : i = walk[w].i /\ new.i = i + 1 /\ i \in 1..Len(m_chains[m])
    BY <1>p, <1>14, <2>1, <2>2 DEF Goes, AnswersHere, List
  <2>4. \A k \in 1..i - 1 : ~Matches(RuleAt(m, k), s, m)
    BY <1>p, <2>1, <2>2, <2>3
  <2>5. ~Matches(RuleAt(m, i), s, m)
    <3>1. RuleAt(m, i) \in Rule /\ \A j \in Addr : ~Freed(j)
      BY <1>3, <2>3, RuleType, CalmStep DEF Ready
    <3>2. FALSE \in Answers(RuleAt(m, i), s, m)
      BY <1>4, <1>14, <2>2, <2>3 DEF AnswersHere, RuleHere
    <3>3. Answers(RuleAt(m, i), s, m) = {FALSE}
      BY <3>1, <3>2, OneAnswer
    <3> QED BY <3>3 DEF Matches
  <2>6. \A k \in 1..i : ~Matches(RuleAt(m, k), s, m)
    BY <2>4, <2>5
  <2>7. \A k \in 1..i : ~Matches(RuleAt(m, k), s, m)'
    <3>1. i <= Len(m_chains[m])
      BY <2>3
    <3> QED BY <1>1, <1>3, <2>6, <3>1, PassedStays DEF Ready
  <2>8. Passed(w)'
    <3>1. walk[w]' = new /\ Len(m_chains'[m]) = Len(m_chains[m]) /\ i + 1 - 1 = i
          /\ Len(m_chains[m]) \in Nat
      BY <1>1, <1>2, <2>3 DEF Ready, WalkInv
    <3>2. i + 1 \in 1..Len(m_chains[m]) + 1
      BY <2>3, <3>1
    <3> QED BY <1>4, <2>2, <2>3, <2>7, <3>1, <3>2 DEF Passed, List
  <2> QED BY <1>14, <1>p, <2>1, <2>8 DEF Goes, Reading
<1>15. CASE Reading(w) /\ walk[w].i > Len(List(w)) /\ Leaves(w, new)
  BY <1>15, <1>m, <1>p, <1>7, <1>8 DEF Leaves
<1>16. CASE Reading(w) /\ walk[w].i > Len(List(w)) + 1
  BY <1>16, <1>p DEF List
<1>17. CASE walk[w].at = "last" /\ new.at = "done" /\ new.result = first
  BY <1>17, <1>3, <1>5 DEF Knows
<1> QED
  BY <1>10, <1>11, <1>12, <1>13, <1>14, <1>15, <1>16, <1>17 DEF CheckMove

LEMMA PolicyStep ==
  ASSUME Ready, [Next]_vars
  PROVE  PolicyInv'
<1>1. CASE UNCHANGED vars
  <2>1. UNCHANGED <<m_chains, first, walk, seen, torn, now, record, gids, login>>
    BY <1>1 DEF vars, history, ruleVars, userVars
  <2>2. \A m, r, s : Answers(r, s, m)' = Answers(r, s, m)
    BY <2>1 DEF Answers, UserAnswers, Applies, MatchIPModel, CheckGroup, CheckUser, LoggedIn, Freed
  <2>3. ASSUME NEW w \in Walker, Knows(w)
        PROVE  Knows(w)'
    BY <2>1, <2>2, <2>3 DEF Knows, Passed, Second, Decision, Hit, Matches, RuleAt, List
  <2> QED BY <2>1, <2>3 DEF Ready, PolicyInv
<1> SUFFICES ASSUME Next PROVE PolicyInv'
  BY <1>1
<1>2. /\ Remember /\ ChainsMove /\ first' \in Model /\ WalkMove /\ WalkTypes /\ WalkInv'
  BY ChainsStep, WalkStep DEF Ready, Next, WalkInv, WalkTypes
<1>3. seen' \in [Walker -> SUBSET Model] /\ torn' \in [Walker -> 0..2]
  <2>1. \A w \in Walker : torn'[w] \in 0..2 /\ seen'[w] \in SUBSET Model
    BY <1>2, SeenStep DEF Ready
  <2>2. seen' = [w \in Walker |-> seen'[w]] /\ torn' = [w \in Walker |-> torn'[w]]
    BY <1>2 DEF Remember
  <2> QED BY <2>1, <2>2
<1>4. ASSUME NEW w \in Walker, walk'[w].at # "idle", torn'[w] < 2
      PROVE  Knows(w)'
  <2>1. CASE walk'[w] = walk[w]
    BY <1>2, <1>4, <2>1, KnowsStays
  <2>2. CASE StartsCall(w)
    <3>1. walk'[w].at = "call" /\ walk[w].at = "idle"
      BY <1>2, <2>2, BeginsOK DEF StartsCall
    <3>2. PICK s \in State : s = walk'[w].s
      BY <1>2, <2>2, BeginsOK
    <3>3. Decision(walk[w].s)' \in seen'[w]
      BY <1>2, <1>4, SeenStep DEF Ready
    <3> QED BY <3>1, <3>3 DEF Knows
  <2>3. CASE Ends(w)
    BY <1>2, <1>4, <2>3, EndsOK
  <2>4. ASSUME NEW new, Check(w), Moves(w, new), CheckMove(w, new)
        PROVE  Knows(w)'
    BY <1>2, <1>4, <2>4, KnowsMoves
  <2>5. ASSUME NEW v \in Walker, v # w, StartsCall(v) \/ Ends(v) \/ \E new : Moves(v, new)
        PROVE  walk'[w] = walk[w]
    BY <1>2, <2>5, BeginsOK, EndsOK, MovesOK DEF Others
  <2> QED BY <1>2, <2>1, <2>2, <2>3, <2>4, <2>5 DEF WalkMove
<1> QED BY <1>3, <1>4 DEF PolicyInv

LEMMA InitPolicy == Init => PolicyInv
<1> SUFFICES ASSUME Init PROVE PolicyInv
  OBVIOUS
<1>1. \A w \in Walker : walk[w].at = "idle"
  BY DEF Init, InitAccess, NoWalk
<1> QED BY <1>1 DEF Init, InitAccess, PolicyInv

(* The whole inductive invariant.                                          *)
LEMMA PolicyInvariant == Spec => []PolicyInv
<1>1. TableTypeOK /\ TableTypeOK' /\ ListInv /\ WalkInv /\ PolicyInv /\ [Next]_vars => PolicyInv'
  BY PolicyStep DEF Ready
<1> QED
  BY <1>1, InitPolicy, CallsAreOwned, UsesLoginTable, TypeCorrect, PTL DEF Spec

(* A call of Check answers what the rules say at one moment of the call    *)
(* (manual.en:45-47), whatever the other threads do meanwhile, unless      *)
(* rules are deleted, `first' is changed, or more than one list changes.   *)
THEOREM CheckFollowsPolicy == Spec => []CheckIsPolicy
<1>1. PolicyInv /\ WalkInv => CheckIsPolicy
  BY DEF PolicyInv, Knows, CheckIsPolicy
<1> QED
  BY <1>1, PolicyInvariant, CallsAreOwned, PTL

-----------------------------------------------------------------------------
(* What check_time finds out lasts until the logins are flushed.           *)

(* Steps of a pass of check_time that leave the rules alone.               *)
Steady ==
  /\ ListInv /\ WalkInv /\ TableTypeOK /\ TableTypeOK' /\ [TableNext]_tableVars
  /\ Calm /\ m_chains' = m_chains
  /\ gc'.since = gc.since /\ gc.since <= now /\ gc.since \in Nat /\ now \in Nat

LEMMA RecentStays ==
  ASSUME Steady, NEW i \in Addr, Recent(i)
  PROVE  Recent(i)'
<1>1. login[i] = Nil <=> login'[i] = Nil
  BY CalmStep DEF Steady
<1>2. SUFFICES ASSUME login[i] # Nil, login'[i] # Nil
               PROVE  login'[i].last_active_time >= gc.since
  BY <1>1 DEF Steady, Recent, LoggedIn
<1>3. login'[i].last_active_time >= login[i].last_active_time
  BY <1>2, CalmStep DEF Steady
<1>4. login[i] \in LoginUserInfo /\ login'[i] \in LoginUserInfo
  BY <1>2 DEF Steady, TableTypeOK
<1>5. /\ login[i].last_active_time \in Nat /\ login'[i].last_active_time \in Nat
      /\ login[i].last_active_time >= gc.since /\ gc.since \in Nat
  BY <1>2, <1>4 DEF LoginUserInfo, Recent, LoggedIn, Steady
<1> QED BY <1>3, <1>5

LEMMA AskedStays ==
  ASSUME Steady, NEW m \in Model, NEW k \in 1..Len(m_chains[m]), NEW s \in State
  PROVE  /\ Asked(RuleAt(m, k), s)' <=> Asked(RuleAt(m, k), s)
         /\ Matches(RuleAt(m, k), s, m)' <=> Matches(RuleAt(m, k), s, m)
<1>1. PICK r \in Rule : r = RuleAt(m, k)
  BY RuleType DEF Steady
<1>2. /\ RuleAt(m, k)' = r
      /\ Applies(RuleAt(m, k), s)' <=> Applies(RuleAt(m, k), s)
      /\ Answers(RuleAt(m, k), s, m)' = Answers(RuleAt(m, k), s, m)
  BY <1>1, RuleStays DEF Steady, ChainsMove
<1>3. CheckUser(s.src_ip, r.user_id)' = CheckUser(s.src_ip, r.user_id)
  BY CheckUserStays DEF Steady, State
<1>4. Asked(r, s)' <=> Asked(r, s)
  <2>1. Applies(r, s)' <=> Applies(r, s)
    BY <1>1, <1>2
  <2> QED BY <1>3, <2>1 DEF Asked, AsksUser
<1> QED BY <1>1, <1>2, <1>4 DEF Matches

LEMMA FirmStays ==
  ASSUME Steady, NEW m \in Model, NEW k \in 1..Len(m_chains[m]), NEW s \in State,
         Firm(RuleAt(m, k), s)
  PROVE  Firm(RuleAt(m, k), s)'
<1>1. s.src_ip \in Addr
  BY DEF State
<1>2. Recent(s.src_ip) => Recent(s.src_ip)'
  BY <1>1, RecentStays
<1> QED BY <1>2, AskedStays DEF Firm

LEMMA FirmMissStays ==
  ASSUME Steady, NEW m \in Model, NEW n \in Nat, n <= Len(m_chains[m]), NEW s \in State,
         FirmMissTo(m, s, n)
  PROVE  FirmMissTo(m, s, n)'
<1> SUFFICES ASSUME NEW k \in 1..n
             PROVE  ~Matches(RuleAt(m, k), s, m)' /\ Firm(RuleAt(m, k), s)'
  BY DEF FirmMissTo
<1>1. Len(m_chains[m]) \in Nat
  BY DEF Steady, WalkInv
<1>2. k \in 1..Len(m_chains[m])
  BY <1>1
<1>3. ~Matches(RuleAt(m, k), s, m) /\ Firm(RuleAt(m, k), s)
  BY DEF FirmMissTo
<1> QED BY <1>2, <1>3, AskedStays, FirmStays

LEMMA FirmDecisionStays ==
  ASSUME Steady, NEW s \in State, NEW d, FirmDecision(s, d)
  PROVE  FirmDecision(s, d)'
<1>1. PICK f \in Model : f = first /\ f = first'
  BY CalmStep DEF Steady, WalkInv
<1>2. ASSUME NEW m \in Model, FirmHit(m, s)
      PROVE  FirmHit(m, s)'
  <2>1. /\ DOMAIN m_chains[m] = 1..Len(m_chains[m])
        /\ DOMAIN m_chains'[m] = 1..Len(m_chains[m])
    BY DEF Steady, WalkInv
  <2>2. PICK k \in 1..Len(m_chains[m]) : Matches(RuleAt(m, k), s, m) /\ Firm(RuleAt(m, k), s)
    BY <1>2, <2>1 DEF FirmHit
  <2>3. Matches(RuleAt(m, k), s, m)' /\ Firm(RuleAt(m, k), s)'
    BY <2>2, AskedStays, FirmStays
  <2> QED BY <2>1, <2>3 DEF FirmHit
<1>3. ASSUME NEW m \in Model, FirmMiss(m, s)
      PROVE  FirmMiss(m, s)'
  <2>1. Len(m_chains[m]) \in Nat /\ Len(m_chains'[m]) = Len(m_chains[m])
    BY DEF Steady, WalkInv
  <2>2. FirmMissTo(m, s, Len(m_chains[m]))'
    BY <1>3, <2>1, FirmMissStays DEF FirmMiss
  <2> QED BY <2>1, <2>2 DEF FirmMiss, FirmMissTo
<1>4. /\ FirmHit(f, s) => FirmHit(f, s)'
      /\ FirmHit(1 - f, s) => FirmHit(1 - f, s)'
      /\ FirmMiss(f, s) => FirmMiss(f, s)'
      /\ FirmMiss(1 - f, s) => FirmMiss(1 - f, s)'
  BY <1>2, <1>3, ModelFacts
<1>5. \/ FirmHit(f, s) /\ d = f
      \/ FirmMiss(f, s) /\ FirmHit(1 - f, s) /\ d = 1 - f
      \/ FirmMiss(f, s) /\ FirmMiss(1 - f, s) /\ d = f
  BY <1>1 DEF FirmDecision
<1>6. \/ FirmHit(f, s)' /\ d = f
      \/ FirmMiss(f, s)' /\ FirmHit(1 - f, s)' /\ d = 1 - f
      \/ FirmMiss(f, s)' /\ FirmMiss(1 - f, s)' /\ d = f
  BY <1>4, <1>5
<1> QED BY <1>1, <1>6 DEF FirmDecision

(* The rule at which the walk is gives an answer that will last: if the    *)
(* client is logged in and that mattered, it has just become recent.       *)
LEMMA HereIsFirm ==
  ASSUME Steady, NEW w \in Walker, NEW a, AnswersHere(w, a), Touches(w, a),
         NEW m \in Model, NEW k, NEW s \in State,
         m = walk[w].model, k = walk[w].i, s = walk[w].s
  PROVE  /\ Firm(RuleAt(m, k), s)'
         /\ Answers(RuleAt(m, k), s, m) = {a}
<1>1. m = walk[w].model /\ s = walk[w].s
  OBVIOUS
<1>2. k \in 1..Len(m_chains[m]) /\ k = walk[w].i
  BY <1>1 DEF AnswersHere, List
<1>3. PICK r \in Rule : r = RuleAt(m, k)
  BY <1>2, RuleType DEF Steady
<1>4. /\ a \in Answers(r, s, m)
      /\ IF Applies(r, s) /\ AsksUser(r, s) /\ a # r.user_revers
         THEN Refresh(s.src_ip) ELSE UNCHANGED login
  BY <1>1, <1>2, <1>3 DEF AnswersHere, Touches, RuleHere
<1>5. \A i \in Addr : ~Freed(i)
  BY CalmStep DEF Steady
<1>6. Answers(r, s, m) = {a}
  BY <1>4, <1>5, OneAnswer
<1>7. ASSUME Asked(r, s)
      PROVE  Recent(s.src_ip)'
  <2>1. /\ s.src_ip \in Addr /\ s.uid = Nil /\ r.user_id # ALLIP /\ s.uid # DELAYUSER
        /\ TRUE \in CheckUser(s.src_ip, r.user_id) /\ Applies(r, s) /\ AsksUser(r, s)
        /\ r.user_revers \in BOOLEAN
    BY <1>7, AccessAssumption DEF Asked, AsksUser, State, Rule
  <2>2. Answers(r, s, m) = {x # r.user_revers : x \in CheckUser(s.src_ip, r.user_id)}
    BY <2>1 DEF Answers, UserAnswers
  <2>3. (TRUE # r.user_revers) \in Answers(r, s, m)
    BY <2>1, <2>2
  <2>4. a = (TRUE # r.user_revers)
    BY <1>6, <2>3
  <2>5. a # r.user_revers
    BY <2>1, <2>4
  <2>6. LoggedIn(s.src_ip)
    BY <2>1 DEF CheckUser
  <2>7. /\ login' = [login EXCEPT ![s.src_ip].last_active_time = now]
        /\ login \in [Addr -> LoginUserInfo \cup {Nil}] /\ login[s.src_ip] # Nil
    BY <1>4, <2>1, <2>5, <2>6 DEF Refresh, Steady, TableTypeOK, LoggedIn
  <2>8. login'[s.src_ip].last_active_time = now
    BY <2>1, <2>7 DEF LoginUserInfo
  <2> QED BY <2>8 DEF Recent, Steady
<1>8. Firm(RuleAt(m, k), s)'
  BY <1>2, <1>3, <1>7, AskedStays DEF Firm
<1> QED BY <1>3, <1>6, <1>8

-----------------------------------------------------------------------------
(* The pass of check_time.                                                 *)
LEMMA FirmMoves ==
  ASSUME Steady, NEW w \in Walker, Check(w), FirmKnows(walk[w]),
         NEW new, Moves(w, new), CheckMove(w, new)
  PROVE  FirmKnows(new)'
<1>1. /\ new.at # "idle" /\ walk[w].at # "idle" /\ new.s = walk[w].s
      /\ walk[w] \in WalkType
  BY DEF Steady, WalkInv, Moves
<1>2. PICK s \in State : s = walk[w].s /\ s = new.s
  BY <1>1 DEF Steady, WalkInv
<1>3. PICK f \in Model : f = first /\ f = first'
  BY CalmStep DEF Steady, WalkInv
<1>4. 1 - f \in Model /\ 1 - (1 - f) = f /\ 1 - f # f
  BY ModelFacts
<1>5. \A m \in Model : /\ Len(m_chains[m]) \in Nat /\ m_chains'[m] = m_chains[m]
                       /\ DOMAIN m_chains[m] = 1..Len(m_chains[m])
  BY DEF Steady, WalkInv
<1>d. \A d : FirmDecision(s, d) => FirmDecision(s, d)'
  BY FirmDecisionStays
<1>s. ASSUME NEW m \in Model, FirmMiss(m, s)
      PROVE  FirmMiss(m, s)'
  <2>1. FirmMissTo(m, s, Len(m_chains[m]))'
    BY <1>5, <1>s, FirmMissStays DEF FirmMiss
  <2> QED BY <1>5, <2>1 DEF FirmMiss, FirmMissTo
(* The rules passed so far.                                                *)
<1>p. ASSUME Reading(w)
      PROVE  \E m \in Model, i \in Nat :
               /\ m = walk[w].model /\ i = walk[w].i /\ i \in 1..Len(m_chains[m]) + 1
               /\ FirmMissTo(m, s, i - 1)
               /\ m = IF walk[w].at = "first" THEN f ELSE 1 - f
               /\ walk[w].second = 1 - f
               /\ walk[w].at = "second" => FirmMiss(f, s)
  <2>1. walk[w].at \in {"first", "second"} /\ walk[w].i \in Nat
    BY <1>1, <1>p DEF Reading, WalkType
  <2>2. PICK m \in Model : m = IF walk[w].at = "first" THEN f ELSE 1 - f
    BY <1>4
  <2>3. /\ walk[w].model = m /\ walk[w].second = 1 - f
        /\ walk[w].i \in 1..Len(m_chains[m]) + 1
        /\ FirmMissTo(m, s, walk[w].i - 1)
        /\ walk[w].at = "second" => FirmMiss(f, s)
    BY <1>2, <1>3, <2>1, <2>2 DEF FirmKnows
  <2> QED BY <2>1, <2>2, <2>3
<1>e. \A m \in Model : FirmMissTo(m, s, 0)'
  BY DEF FirmMissTo
<1> DEFINE Goal ==
             /\ new.at \in {"enter", "first", "between", "second"} => new.second = 1 - f
             /\ new.at = "first" => /\ new.model = f
                                    /\ new.i \in 1..Len(m_chains[f]) + 1
                                    /\ FirmMissTo(f, s, new.i - 1)'
             /\ new.at \in {"between", "second"} => FirmMiss(f, s)'
             /\ new.at = "second" => /\ new.model = 1 - f
                                     /\ new.i \in 1..Len(m_chains[1 - f]) + 1
                                     /\ FirmMissTo(1 - f, s, new.i - 1)'
             /\ new.at = "last" => FirmDecision(s, f)'
             /\ new.at = "done" => FirmDecision(s, new.result)'
<1>6. SUFFICES Goal
  BY <1>2, <1>3, <1>4, <1>5 DEF FirmKnows
<1>7. CASE Takes(w, new)
  BY <1>7, <1>3 DEF Takes
<1>8. CASE Enters(w, new)
  <2>1. new.at = "first" /\ new.second = 1 - f /\ new.model = f /\ new.i = 1
    BY <1>8, <1>3 DEF Enters, FirmKnows
  <2> QED BY <2>1, <1>5, <1>e
<1>9. CASE EntersSecond(w, new)
  <2>1. new.at = "second" /\ new.second = 1 - f /\ new.model = 1 - f /\ new.i = 1
    BY <1>9, <1>3 DEF EntersSecond, FirmKnows
  <2>2. FirmMiss(f, s)'
    BY <1>9, <1>2, <1>3, <1>s DEF EntersSecond, FirmKnows
  <2> QED BY <2>1, <2>2, <1>4, <1>5, <1>e
<1>10. CASE AnswersHere(w, TRUE) /\ Touches(w, TRUE) /\ MatchesHere(w, new)
  <2>1. Reading(w)
    BY <1>10 DEF AnswersHere
  <2>2. PICK m \in Model, i \in Nat :
          /\ m = walk[w].model /\ i = walk[w].i
          /\ m = IF walk[w].at = "first" THEN f ELSE 1 - f
          /\ walk[w].second = 1 - f
          /\ walk[w].at = "second" => FirmMiss(f, s)
    BY <1>p, <2>1
  <2>3. i \in 1..Len(m_chains[m])
    BY <1>10, <2>2 DEF AnswersHere, List
  <2>4. Firm(RuleAt(m, i), s)' /\ Matches(RuleAt(m, i), s, m)
    <3>1. Answers(RuleAt(m, i), s, m) = {TRUE} /\ Firm(RuleAt(m, i), s)'
      <4>1. m = walk[w].model /\ i = walk[w].i /\ s = walk[w].s
        BY <1>2, <2>2
      <4>2. PICK a : a = TRUE
        OBVIOUS
      <4>3. AnswersHere(w, a) /\ Touches(w, a)
        BY <1>10, <4>2
      <4>4. Answers(RuleAt(m, i), s, m) = {a} /\ Firm(RuleAt(m, i), s)'
        BY <4>1, <4>3, HereIsFirm
      <4> QED BY <4>2, <4>4
    <3> QED BY <3>1 DEF Matches
  <2>5. Matches(RuleAt(m, i), s, m)'
    BY <2>3, <2>4, AskedStays
  <2>6. FirmHit(m, s)'
    BY <1>5, <2>3, <2>4, <2>5 DEF FirmHit
  <2>7. CASE walk[w].at = "first"
    <3>1. new.at = "last" /\ FirmHit(f, s)'
      BY <1>10, <2>2, <2>6, <2>7 DEF MatchesHere
    <3>2. FirmDecision(s, f)'
      BY <1>3, <3>1 DEF FirmDecision
    <3> QED BY <3>1, <3>2
  <2>8. CASE walk[w].at = "second"
    <3>1. new.at = "done" /\ new.result = 1 - f /\ FirmHit(1 - f, s)' /\ FirmMiss(f, s)'
      BY <1>10, <1>s, <2>2, <2>6, <2>8 DEF MatchesHere
    <3>2. FirmDecision(s, 1 - f)'
      BY <1>3, <3>1 DEF FirmDecision
    <3> QED BY <3>1, <3>2
  <2> QED BY <2>1, <2>7, <2>8 DEF Reading
<1>11. CASE AnswersHere(w, FALSE) /\ Touches(w, FALSE) /\ Goes(w, new)
  <2>1. Reading(w)
    BY <1>11 DEF AnswersHere
  <2>2. PICK m \in Model, i \in Nat :
          /\ m = walk[w].model /\ i = walk[w].i
          /\ FirmMissTo(m, s, i - 1)
          /\ m = IF walk[w].at = "first" THEN f ELSE 1 - f
          /\ walk[w].second = 1 - f
          /\ walk[w].at = "second" => FirmMiss(f, s)
    BY <1>p, <2>1
  <2>3. /\ i \in 1..Len(m_chains[m])
        /\ new.at = walk[w].at /\ new.model = m /\ new.second = 1 - f /\ new.i = i + 1
    BY <1>11, <2>2 DEF AnswersHere, List, Goes
  <2>4. Firm(RuleAt(m, i), s)' /\ ~Matches(RuleAt(m, i), s, m)
    <3>1. Answers(RuleAt(m, i), s, m) = {FALSE} /\ Firm(RuleAt(m, i), s)'
      BY <1>2, <1>11, <2>2, HereIsFirm, ZenonT(60)
    <3> QED BY <3>1 DEF Matches
  <2>5. ~Matches(RuleAt(m, i), s, m)'
    BY <2>3, <2>4, AskedStays
  <2>6. FirmMissTo(m, s, i - 1)'
    <3>1. i - 1 \in Nat /\ i - 1 <= Len(m_chains[m])
      BY <1>5, <2>3
    <3> QED BY <2>2, <3>1, FirmMissStays
  <2>7. FirmMissTo(m, s, i)'
    <3>1. \A k \in 1..i : k \in 1..i - 1 \/ k = i
      OBVIOUS
    <3> QED BY <2>4, <2>5, <2>6, <3>1 DEF FirmMissTo
  <2>8. new.i - 1 = i /\ new.i \in 1..Len(m_chains[m]) + 1
    BY <1>5, <2>3
  <2>9. FirmMissTo(m, s, new.i - 1)'
    BY <2>7, <2>8
  <2>10. walk[w].at = "second" => FirmMiss(f, s)'
    BY <1>s, <2>2
  <2> QED BY <1>4, <2>1, <2>2, <2>3, <2>8, <2>9, <2>10 DEF Reading
<1>12. CASE Reading(w) /\ walk[w].i > Len(List(w))
  <2>1. PICK m \in Model, i \in Nat :
          /\ m = walk[w].model /\ i = walk[w].i /\ i \in 1..Len(m_chains[m]) + 1
          /\ FirmMissTo(m, s, i - 1)
          /\ m = IF walk[w].at = "first" THEN f ELSE 1 - f
          /\ walk[w].second = 1 - f
          /\ walk[w].at = "second" => FirmMiss(f, s)
    BY <1>p, <1>12
  <2>2. i - 1 = Len(m_chains[m]) /\ List(w) = m_chains[m]
    BY <1>5, <1>12, <2>1 DEF List
  <2>3. FirmMiss(m, s)'
    BY <1>s, <2>1, <2>2 DEF FirmMiss
  <2>4. Leaves(w, new)
    <3>1. ~(walk[w].i > Len(List(w)) + 1)
      BY <1>5, <2>1, <2>2
    <3>2. ~AnswersHere(w, TRUE) /\ ~AnswersHere(w, FALSE)
      <4>1. Len(List(w)) \in Nat /\ walk[w].i = Len(List(w)) + 1
        BY <1>5, <2>1, <2>2
      <4>2. walk[w].i \notin 1..Len(List(w))
        BY <4>1
      <4> QED BY <4>2 DEF AnswersHere
    <3> QED BY <1>12, <3>1, <3>2 DEF CheckMove, Reading, Takes, Enters, EntersSecond
  <2>5. CASE walk[w].at = "first"
    BY <2>1, <2>3, <2>4, <2>5 DEF Leaves
  <2>6. CASE walk[w].at = "second"
    <3>1. new.at = "last" /\ FirmMiss(f, s)' /\ FirmMiss(1 - f, s)'
      BY <1>s, <2>1, <2>3, <2>4, <2>6 DEF Leaves
    <3>2. FirmDecision(s, f)'
      BY <1>3, <3>1 DEF FirmDecision
    <3> QED BY <3>1, <3>2
  <2> QED BY <1>12, <2>5, <2>6 DEF Reading
<1>13. CASE walk[w].at = "last" /\ new.at = "done" /\ new.result = first
  <2>1. FirmDecision(s, f)'
    BY <1>2, <1>3, <1>13, <1>d DEF FirmKnows
  <2> QED BY <1>3, <1>13, <2>1
<1>14. Reading(w) /\ walk[w].i > Len(List(w)) + 1 => walk[w].i > Len(List(w))
  <2> SUFFICES ASSUME Reading(w), walk[w].i > Len(List(w)) + 1
               PROVE  walk[w].i > Len(List(w))
    OBVIOUS
  <2>1. walk[w].i \in Nat /\ Len(List(w)) \in Nat
    BY <1>1, <1>5 DEF WalkType, List
  <2> QED BY <2>1
<1> QED
  BY <1>7, <1>8, <1>9, <1>10, <1>11, <1>12, <1>13, <1>14 DEF CheckMove

LEMMA FirmKnowsStays ==
  ASSUME Steady, NEW u \in WalkType, u.s \in State, FirmKnows(u)
  PROVE  FirmKnows(u)'
<1>1. PICK f \in Model : f = first /\ f = first'
  BY CalmStep DEF Steady, WalkInv
<1>2. 1 - f \in Model
  BY ModelFacts
<1>3. \A m \in Model : Len(m_chains[m]) \in Nat /\ m_chains'[m] = m_chains[m]
  BY DEF Steady, WalkInv
<1>4. PICK s \in State : s = u.s
  OBVIOUS
<1>5. ASSUME NEW m \in Model, u.i \in 1..Len(m_chains[m]) + 1, FirmMissTo(m, s, u.i - 1)
      PROVE  FirmMissTo(m, s, u.i - 1)'
  <2>1. u.i - 1 \in Nat /\ u.i - 1 <= Len(m_chains[m])
    BY <1>3, <1>5
  <2> QED BY <1>5, <2>1, FirmMissStays
<1>6. FirmMiss(f, s) => FirmMiss(f, s)'
  <2> SUFFICES ASSUME FirmMiss(f, s) PROVE FirmMiss(f, s)'
    OBVIOUS
  <2>1. FirmMissTo(f, s, Len(m_chains[f]))'
    BY <1>3, FirmMissStays DEF FirmMiss
  <2> QED BY <1>3, <2>1 DEF FirmMiss, FirmMissTo
<1>7. \A d : FirmDecision(s, d) => FirmDecision(s, d)'
  BY FirmDecisionStays
<1>8. u.at \in {"first", "second", "between"} => FirmKnows(u)'
  BY <1>1, <1>2, <1>3, <1>4, <1>5, <1>6 DEF FirmKnows
<1>9. u.at \notin {"first", "second", "between"} => FirmKnows(u)'
  BY <1>1, <1>4, <1>7 DEF FirmKnows
<1> QED BY <1>8, <1>9

(* What a step does to the time thread and to the connections it has let   *)
(* pass.                                                                   *)
GcMove ==
  \/ gc'.at = "sleep"
  \/ gc.at = "sleep" /\ gc'.at = "pick" /\ gc'.kept = {} /\ gc'.since = now /\ now' = now
  \/ /\ gc.at # "sleep" /\ gc'.since = gc.since
     /\ now' = now \/ (now' = now + 1 /\ now < gc.since + TimeOut)
     /\ gc.at = "hour" => gc'.at = "hour"
     /\ gc'.at = "hour" => gc.at = "hour" \/ (Flush /\ gc.at = "flush")
     /\ gc'.at = "flush" => gc.at \in {"pick", "flush"}
     /\ \A c \in gc'.kept :
          \/ c \in gc.kept /\ (gc.at \in {"pick", "check", "flush"} =>
                                 filter_time_list'[c] = filter_time_list[c])
          \/ /\ c = gc.c /\ gc.at = "check" /\ Returned(Collector, ALLOW)
             /\ filter_time_list'[c] = filter_time_list[c]

LEMMA GcMoves ==
  ASSUME ListInv, WalkInv, [Next]_vars
  PROVE  GcMove
<1>0. gc \in GcType
  BY DEF ListInv
<1>q. UNCHANGED <<now, connVars, gc>> => GcMove
  BY <1>0 DEF GcMove, GcType, connVars
<1>1. CASE UNCHANGED vars
  BY <1>1, <1>q DEF vars
<1>2. ASSUME NEW p \in Page, UserPage(p), UNCHANGED <<connVars, gc>>
      PROVE  GcMove
  <2>1. UNCHANGED now
    BY <1>2, PageTime
  <2> QED BY <1>2, <2>1, <1>q
<1>3. ASSUME NEW p \in Page, RulePage(p)
      PROVE  GcMove
  BY <1>3, <1>q DEF RulePage, MakeChain, DelChain, changeFirst
<1>4. ASSUME NEW i \in Addr, Ban(i)
      PROVE  GcMove
  BY <1>4, <1>q DEF Ban
<1>5. ASSUME NEW w \in Walker, Check(w)
      PROVE  GcMove
  BY <1>5, <1>q DEF Check
<1>6. CASE Time
  BY <1>6, <1>0 DEF Time, Tick, GcMove, GcType, connVars
<1>7. ASSUME NEW c \in Conn, Client(c) \/ ServerThread(c)
      PROVE  GcMove
  <2>1. CASE add_filter_time(c) \/ del_filter_time(c)
    <3>1. /\ gc' = [gc EXCEPT !.kept = @ \ {c}] /\ UNCHANGED now
          /\ \E q : filter_time_list' = [filter_time_list EXCEPT ![c] = q]
      BY <2>1 DEF add_filter_time, del_filter_time, Unlist
    <3>2. /\ gc'.at = gc.at /\ gc'.since = gc.since /\ gc'.kept = gc.kept \ {c}
          /\ gc.kept \subseteq Conn
      BY <3>1, <1>0 DEF GcType
    <3>3. \A d \in gc'.kept : d \in gc.kept /\ filter_time_list'[d] = filter_time_list[d]
      BY <3>1, <3>2 DEF ListInv
    <3>4. gc.at # "check" /\ gc.at # "pick"
      BY <2>1 DEF add_filter_time, del_filter_time, ListFree
    <3> QED BY <3>1, <3>2, <3>3, <3>4, <1>0 DEF GcMove, GcType
  <2>2. CASE ~(add_filter_time(c) \/ del_filter_time(c))
    <3>1. UNCHANGED <<now, filter_time_list, gc>>
      BY <1>7, <2>2 DEF Client, ServerThread, Accept, Request, End, Refuse, Forget, Serve, Deny,
                        DeleteServer
    <3> QED BY <3>1, <1>0 DEF GcMove, GcType
  <2> QED BY <2>1, <2>2
<1>8. CASE TimeThread
  <2>1. CASE check_time
    BY <2>1 DEF check_time, GcMove, Asleep
  <2>2. ASSUME NEW c \in Conn, Pick(c)
        PROVE  GcMove
    <3>1. /\ gc'.at = "check" /\ gc'.kept = gc.kept /\ gc'.since = gc.since /\ gc.at = "pick"
          /\ UNCHANGED <<now, filter_time_list>>
      BY <2>2, <1>0 DEF Pick, GcType, connVars
    <3> QED BY <3>1 DEF GcMove
  <2>3. CASE Keep
    <3>1. /\ gc'.at = "pick" /\ gc'.kept = gc.kept \cup {gc.c} /\ gc'.since = gc.since
          /\ gc.at = "check" /\ Returned(Collector, ALLOW) /\ UNCHANGED <<now, filter_time_list>>
      BY <2>3, <1>0 DEF Keep, GcType, connVars
    <3> QED BY <3>1 DEF GcMove
  <2>4. CASE Close
    <3>1. PICK rest \in {gc.todo \ {gc.c}, {}} : gc' = [gc EXCEPT !.at = "pick", !.todo = rest]
      BY <2>4 DEF Close
    <3>2. /\ gc'.at = "pick" /\ gc'.kept = gc.kept /\ gc'.since = gc.since /\ gc.at = "check"
          /\ filter_time_list' = [filter_time_list EXCEPT ![gc.c] = Nil] /\ UNCHANGED now
      BY <2>4, <3>1, <1>0 DEF Close, Unlist, GcType
    <3>3. gc.kept \subseteq Conn /\ gc.c \notin gc.kept
      BY <3>2, <1>0 DEF ListInv, GcType
    <3> QED BY <3>2, <3>3 DEF GcMove, ListInv
  <2>5. CASE EndCheckTime
    <3>1. /\ gc'.at = "flush" /\ gc'.kept = gc.kept /\ gc'.since = gc.since /\ gc.at = "pick"
          /\ UNCHANGED <<now, filter_time_list>>
      BY <2>5, <1>0 DEF EndCheckTime, GcType, connVars
    <3> QED BY <3>1 DEF GcMove
  <2>6. CASE Flush
    <3>1. /\ gc'.at = "hour" /\ gc'.kept = gc.kept /\ gc'.since = gc.since /\ gc.at = "flush"
          /\ UNCHANGED <<now, filter_time_list>>
      BY <2>6, <1>0 DEF Flush, GcType, connVars
    <3> QED BY <2>6, <3>1 DEF GcMove
  <2>7. CASE checkExpireChain \/ NotHourly
    BY <2>7 DEF checkExpireChain, NotHourly, Asleep, GcMove
  <2>8. CASE LockLogins \/ UnlockLogins
    BY <2>8, <1>q DEF LockLogins, UnlockLogins, Enter, Exit
  <2> QED BY <1>8, <2>1, <2>2, <2>3, <2>4, <2>5, <2>6, <2>7, <2>8 DEF TimeThread
<1> QED
  BY <1>1, <1>2, <1>3, <1>4, <1>5, <1>6, <1>7, <1>8 DEF Next

LEMMA PassStep ==
  ASSUME ListInv, WalkInv, TableTypeOK, TableTypeOK', PassInv, [Next]_vars
  PROVE  PassInv'
<1>1. CASE UNCHANGED vars
  <2>1. UNCHANGED <<m_chains, first, walk, still, now, record, gids, login, gc, filter_time_list>>
    BY <1>1 DEF vars, history, ruleVars, userVars, connVars
  <2>2. /\ \A m, r, s : Answers(r, s, m)' = Answers(r, s, m)
        /\ \A r, s : (Firm(r, s)' <=> Firm(r, s))
        /\ \A i : (Freed(i)' <=> Freed(i))
    BY <2>1 DEF Answers, UserAnswers, Applies, MatchIPModel, CheckGroup, CheckUser, LoggedIn, Freed,
                Firm, Asked, AsksUser, Recent
  <2>3. /\ \A m, s, n : (FirmMissTo(m, s, n)' <=> FirmMissTo(m, s, n))
        /\ \A m, s : (FirmHit(m, s)' <=> FirmHit(m, s))
    BY <2>1, <2>2 DEF FirmMissTo, FirmHit, Matches, RuleAt
  <2>4. \A s, d : (FirmDecision(s, d)' <=> FirmDecision(s, d))
    BY <2>1, <2>3 DEF FirmDecision, FirmMiss
  <2>5. \A w : (FirmKnows(w)' <=> FirmKnows(w))
    BY <2>1, <2>3, <2>4 DEF FirmKnows, FirmMiss
  <2> QED BY <2>1, <2>2, <2>4, <2>5 DEF PassInv
<1> SUFFICES ASSUME Next PROVE PassInv'
  BY <1>1
<1>2. GcMove /\ [TableNext]_tableVars /\ WalkMove /\ WalkTypes /\ Remember /\ ListInv' /\ WalkInv'
  BY GcMoves, TableMove, WalkStep, ListStep DEF Next, WalkInv, WalkTypes
<1>3. gc \in GcType /\ gc' \in GcType /\ now \in Nat /\ now' \in Nat /\ TimeOut \in Nat
  BY <1>2, UsersAssumption DEF ListInv
<1>4. still' \in BOOLEAN
  BY <1>2 DEF Remember
<1>5. gc'.at # "sleep" => gc'.since <= now' /\ now' <= gc'.since + TimeOut
  BY <1>2, <1>3 DEF GcMove, PassInv, GcType
<1>6. CASE gc'.at \in {"sleep", "hour"} \/ ~still'
  BY <1>4, <1>5, <1>6 DEF PassInv
<1>7. CASE gc.at = "sleep" /\ gc'.at # "sleep"
  <2>1. gc'.at = "pick" /\ gc'.kept = {}
    BY <1>2, <1>7 DEF GcMove
  <2> QED BY <1>4, <1>5, <2>1 DEF PassInv
<1>8. CASE gc.at # "sleep" /\ gc'.at \in {"pick", "check", "flush"} /\ still'
  <2>1. still /\ Calm /\ m_chains' = m_chains /\ gc'.since = gc.since
    BY <1>2, <1>8 DEF Remember, Calm, GcMove
  <2>2. Steady
    BY <1>2, <1>3, <1>8, <2>1 DEF Steady, PassInv, GcType
  <2>3. \A i \in Addr : ~Freed(i)'
    BY <2>1, CalmStep
  <2>4. gc.at \in {"pick", "check", "flush"}
    BY <1>2, <1>3, <1>8 DEF GcMove, GcType
  <2>5. ASSUME gc'.at = "check"
        PROVE  FirmKnows(walk[Collector])'
    <3>0. Collector \in Walker
      BY DEF Walker
    <3>1. walk'[Collector].at # "idle"
      BY <1>2, <2>5 DEF WalkInv
    <3>2. CASE StartsCall(Collector)
      <4>1. walk'[Collector].at = "call"
        BY <1>2, <3>0, <3>2, BeginsOK
      <4> QED BY <4>1 DEF FirmKnows
    <3>3. ASSUME walk[Collector].at # "idle"
          PROVE  FirmKnows(walk[Collector])
      BY <2>1, <3>3 DEF WalkInv, PassInv
    <3>4. ASSUME walk'[Collector] = walk[Collector]
          PROVE  FirmKnows(walk[Collector])'
      <4>1. PICK u : u = walk[Collector] /\ u = walk'[Collector]
        BY <3>4
      <4>2. PICK s \in State : s = u.s
        BY <3>1, <4>1 DEF WalkInv, Walker
      <4>3. FirmKnows(u) /\ u.at # "idle"
        BY <3>1, <3>3, <4>1
      <4>4. u \in WalkType
        BY <3>0, <4>1 DEF WalkInv
      <4>5. FirmKnows(u)'
        BY <2>2, <4>2, <4>3, <4>4, FirmKnowsStays
      <4> QED BY <4>1, <4>5
    <3>5. CASE Ends(Collector)
      BY <1>2, <3>0, <3>1, <3>5, EndsOK
    <3>6. ASSUME NEW new, Check(Collector), Moves(Collector, new), CheckMove(Collector, new)
          PROVE  FirmKnows(walk[Collector])'
      <4>1. walk[Collector].at # "idle" /\ walk'[Collector] = new
        BY <1>2, <3>0, <3>6, MovesOK DEF Moves
      <4>2. FirmKnows(new)'
        BY <2>2, <3>0, <3>3, <3>6, <4>1, FirmMoves
      <4> QED BY <4>1, <4>2
    <3>7. ASSUME NEW v \in Walker, v # Collector, StartsCall(v) \/ Ends(v) \/ \E new : Moves(v, new)
          PROVE  walk'[Collector] = walk[Collector]
      BY <1>2, <3>0, <3>7, BeginsOK, EndsOK, MovesOK DEF Others
    <3> QED BY <1>2, <3>0, <3>2, <3>4, <3>5, <3>6, <3>7 DEF WalkMove
  <2>6. ASSUME NEW c \in gc'.kept
        PROVE  FirmDecision(filter_time_list[c], ALLOW)'
    <3>1. c \in Conn /\ filter_time_list'[c] = filter_time_list[c]
      BY <1>2, <1>3, <1>8, <2>4 DEF GcMove, GcType
    <3>2. FirmDecision(filter_time_list[c], ALLOW) /\ filter_time_list[c] \in State
      <4>1. CASE c \in gc.kept
        BY <2>1, <2>4, <3>1, <4>1 DEF PassInv, ListInv, Listed
      <4>2. CASE c \notin gc.kept
        <5>1. c = gc.c /\ gc.at = "check" /\ Returned(Collector, ALLOW)
          BY <1>2, <1>8, <4>2 DEF GcMove
        <5>2. FirmKnows(walk[Collector]) /\ walk[Collector].s = filter_time_list[c]
          BY <2>1, <5>1 DEF PassInv, WalkInv
        <5>3. filter_time_list[c] \in State
          BY <3>1, <5>1 DEF ListInv, Listed
        <5> QED BY <5>1, <5>2, <5>3 DEF FirmKnows, Returned
      <4> QED BY <4>1, <4>2
    <3>3. PICK s \in State : s = filter_time_list[c]
      BY <3>2
    <3>4. FirmDecision(s, ALLOW)'
      <4>1. FirmDecision(s, ALLOW)
        BY <3>2, <3>3
      <4> QED BY <2>2, <4>1, FirmDecisionStays DEF ALLOW
    <3> QED BY <3>1, <3>3, <3>4
  <2> QED BY <1>4, <1>5, <2>3, <2>5, <2>6 DEF PassInv
<1>9. gc'.at \in {"sleep", "pick", "check", "flush", "hour"}
  BY <1>3 DEF GcType
<1> QED BY <1>4, <1>6, <1>7, <1>8, <1>9

LEMMA InitPass == Init => PassInv
BY DEF Init, InitAccess, PassInv, Asleep

LEMMA PassInvariant == Spec => []PassInv
<1>1. ListInv /\ WalkInv /\ TableTypeOK /\ TableTypeOK' /\ PassInv /\ [Next]_vars => PassInv'
  BY PassStep
<1> QED
  BY <1>1, InitPass, CallsAreOwned, UsesLoginTable, TypeCorrect, PTL DEF Spec

(* A firm answer is the same after the logins have been flushed: an idle   *)
(* login was not asked for with success since check_time began.            *)
LEMMA FlushKeepsAnswer ==
  ASSUME ListInv, WalkInv, TableTypeOK, PassInv, still, Flush,
         NEW m \in Model, NEW k \in 1..Len(m_chains[m]), NEW s \in State,
         Firm(RuleAt(m, k), s)
  PROVE  Matches(RuleAt(m, k), s, m)' <=> Matches(RuleAt(m, k), s, m)
<1>1. PICK r \in Rule : r = RuleAt(m, k)
  BY RuleType
<1>2. /\ UNCHANGED <<now, record, gids, m_chains>>
      /\ gc.at = "flush"
      /\ FlushLoginUser
  BY DEF Flush, ruleVars
<1>3. PICK S \in SUBSET {i \in Addr : Idle(i)} : Erase(S)
  BY <1>2 DEF FlushLoginUser
<1>4. PICK i \in Addr : i = s.src_ip
  BY DEF State
<1>5. ~Freed(i)
  BY <1>2 DEF PassInv
<1>6. login'[i] = IF i \in S THEN Nil ELSE login[i]
  BY <1>3 DEF Erase
<1>7. Applies(r, s)' <=> Applies(r, s)
  BY <1>2 DEF Applies, MatchIPModel
<1>8. ASSUME Applies(r, s), AsksUser(r, s)
      PROVE  CheckUser(i, r.user_id)' = CheckUser(i, r.user_id)
  <2>1. CASE i \notin S
    BY <1>2, <1>6, <2>1 DEF CheckUser, LoggedIn, Freed
  <2>2. CASE i \in S
    <3>1. Idle(i)
      BY <1>3, <2>2
    <3>2. /\ login[i] \in LoginUserInfo /\ LoggedIn(i)
          /\ now - login[i].last_active_time > TimeOut
          /\ gc.since <= now /\ now <= gc.since + TimeOut
          /\ now \in Nat /\ gc.since \in Nat /\ TimeOut \in Nat
      BY <1>2, <3>1, UsersAssumption DEF Idle, LoggedIn, TableTypeOK, PassInv, ListInv, GcType
    <3>3. ~Recent(i)
      BY <3>2 DEF Recent, LoginUserInfo
    <3>4. TRUE \notin CheckUser(i, r.user_id)
      BY <1>1, <1>4, <1>8, <3>3 DEF Firm, Asked
    <3>5. CheckUser(i, r.user_id) = {FALSE}
      <4>1. PICK x : CheckUser(i, r.user_id) = {x}
        BY <1>5, CheckUserBoolean
      <4>2. x \in BOOLEAN
        BY <4>1, CheckUserBoolean
      <4>3. x # TRUE
        BY <3>4, <4>1
      <4> QED BY <4>1, <4>2, <4>3
    <3>6. CheckUser(i, r.user_id)' = {FALSE}
      BY <1>6, <2>2 DEF CheckUser, LoggedIn
    <3> QED BY <3>5, <3>6
  <2> QED BY <2>1, <2>2
<1>9. Answers(r, s, m)' = Answers(r, s, m)
  <2>1. CASE ~Applies(r, s)
    BY <1>7, <2>1 DEF Answers
  <2>2. CASE Applies(r, s) /\ AsksUser(r, s)
    <3>1. CheckUser(s.src_ip, r.user_id)' = CheckUser(s.src_ip, r.user_id)
      BY <1>4, <1>8, <2>2
    <3>2. r.user_id # ALLIP /\ s.uid = Nil /\ s.uid # DELAYUSER
      BY <2>2, AccessAssumption DEF AsksUser
    <3>3. {a # r.user_revers : a \in CheckUser(s.src_ip, r.user_id)}'
            = {a # r.user_revers : a \in CheckUser(s.src_ip, r.user_id)}
      BY <3>1
    <3> QED BY <1>7, <3>2, <3>3 DEF Answers, UserAnswers
  <2>3. CASE Applies(r, s) /\ ~AsksUser(r, s)
    <3>1. r.user_id = ALLIP \/ s.uid # Nil
      BY <2>3 DEF AsksUser
    <3>2. CASE r.user_id = ALLIP \/ s.uid = DELAYUSER
      BY <1>7, <3>2 DEF Answers, UserAnswers
    <3>3. CASE r.user_id # ALLIP /\ s.uid # DELAYUSER
      <4>1. (CheckGroup(s.uid, r.user_id) # r.user_revers)'
              = (CheckGroup(s.uid, r.user_id) # r.user_revers)
        BY <1>2 DEF CheckGroup
      <4> QED BY <1>7, <3>1, <3>3, <4>1 DEF Answers, UserAnswers
    <3> QED BY <3>2, <3>3
  <2> QED BY <2>1, <2>2, <2>3
<1>10. RuleAt(m, k)' = r
  BY <1>1, <1>2 DEF RuleAt
<1> QED BY <1>1, <1>9, <1>10 DEF Matches

LEMMA FlushKeepsDecision ==
  ASSUME ListInv, WalkInv, TableTypeOK, PassInv, still, Flush,
         NEW s \in State, NEW d, FirmDecision(s, d)
  PROVE  Decision(s)' = d
<1>1. UNCHANGED <<m_chains, first>>
  BY DEF Flush, ruleVars
<1>2. PICK f \in Model : f = first /\ f = first'
  BY <1>1 DEF WalkInv
<1>3. \A m \in Model : /\ DOMAIN m_chains[m] = 1..Len(m_chains[m])
                       /\ DOMAIN m_chains'[m] = 1..Len(m_chains[m])
  BY <1>1 DEF WalkInv
<1>4. ASSUME NEW m \in Model, FirmHit(m, s)
      PROVE  Hit(m, s)'
  <2>1. PICK k \in 1..Len(m_chains[m]) : Matches(RuleAt(m, k), s, m) /\ Firm(RuleAt(m, k), s)
    BY <1>3, <1>4 DEF FirmHit
  <2>2. Matches(RuleAt(m, k), s, m)'
    BY <2>1, FlushKeepsAnswer
  <2> QED BY <1>3, <2>2 DEF Hit, Matches, RuleAt
<1>5. ASSUME NEW m \in Model, FirmMiss(m, s)
      PROVE  ~Hit(m, s)'
  <2>1. \A k \in 1..Len(m_chains[m]) : ~Matches(RuleAt(m, k), s, m) /\ Firm(RuleAt(m, k), s)
    BY <1>5 DEF FirmMiss, FirmMissTo
  <2>2. \A k \in 1..Len(m_chains[m]) : ~Matches(RuleAt(m, k), s, m)'
    BY <2>1, FlushKeepsAnswer
  <2> QED BY <1>3, <2>2 DEF Hit, Matches, RuleAt
<1>6. 1 - f \in Model
  BY ModelFacts
<1>7. \/ FirmHit(f, s) /\ d = f
      \/ FirmMiss(f, s) /\ FirmHit(1 - f, s) /\ d = 1 - f
      \/ FirmMiss(f, s) /\ FirmMiss(1 - f, s) /\ d = f
  BY <1>2 DEF FirmDecision
<1>8. Decision(s)' = IF Hit(f, s)' THEN f ELSE IF Hit(1 - f, s)' THEN 1 - f ELSE f
  BY <1>2 DEF Decision
<1> QED BY <1>4, <1>5, <1>6, <1>7, <1>8

(* FlushLoginUser (KUser.cpp:605) ends no login that a connection needs    *)
(* which check_time (garbage_c.cpp:75) has just let pass: asking for       *)
(* the login made it recent, and a pass is shorter than the time-out.      *)
THEOREM FlushKeepsUsedLogins == Spec => UsedLoginsStay
<1>1. ListInv /\ WalkInv /\ TableTypeOK /\ PassInv /\ [Next]_vars =>
        [gc.at = "flush" /\ still =>
           \A c \in gc.kept : Decision(filter_time_list[c]) = ALLOW
                               => (gc.at = "hour" => Decision(filter_time_list[c]) = ALLOW)']_vars
  <2> SUFFICES ASSUME ListInv, WalkInv, TableTypeOK, PassInv, Next, gc.at = "flush", still,
                      NEW c \in gc.kept, gc'.at = "hour"
               PROVE  Decision(filter_time_list[c])' = ALLOW
    OBVIOUS
  <2>1. Flush
    BY GcMoves DEF GcMove
  <2>2. filter_time_list[c] \in State /\ filter_time_list'[c] = filter_time_list[c]
    BY <2>1 DEF Flush, connVars, ListInv, GcType, Listed
  <2>3. PICK s \in State : s = filter_time_list[c] /\ s = filter_time_list'[c]
    BY <2>2
  <2>4. FirmDecision(s, ALLOW)
    BY <2>3 DEF PassInv
  <2>5. Decision(s)' = ALLOW
    BY <2>1, <2>4, FlushKeepsDecision DEF ALLOW
  <2> QED BY <2>3, <2>5
<1> QED
  BY <1>1, CallsAreOwned, UsesLoginTable, TypeCorrect, PassInvariant, PTL DEF Spec, UsedLoginsStay

-----------------------------------------------------------------------------
(* No mysocket is deleted while it is in filter_time_list, and the one     *)
(* that check_time asks the rules about is in the list, so server->close   *)
(* (garbage_c.cpp:82) is always called on a live object.                   *)
THEOREM ListedServersLive == Spec => []ListedAreAlive
<1>1. ListInv => ListedAreAlive
  BY DEF ListInv, ListedAreAlive, Listed
<1> QED
  BY <1>1, CallsAreOwned, PTL
=============================================================================
