----------------------------- MODULE LoginTable -----------------------------
(***************************************************************************)
(* The table of logins by itself: several pages that log users in and out, *)
(* the access filter that asks who is logged in, and the time thread that  *)
(* ends idle logins.                                                       *)
(***************************************************************************)
EXTENDS Users

tableVars == <<now, userVars>>

(* CheckUser, as often as CheckChain likes: the login is used, or the      *)
(* answer is no.  Other sections change nothing either.                    *)
Use(w, i, g) ==
  /\ InSection(w)
  /\ LoggedIn(i) /\ TRUE \in CheckUser(i, g)
  /\ Refresh(i)
  /\ UNCHANGED <<now, record, gids, m_lock, page, pages>>

Ask(w) ==
  /\ InSection(w)
  /\ UNCHANGED <<now, record, gids, login, m_lock, page, pages>>

FlushTable ==
  /\ InSection(Collector)
  /\ FlushLoginUser
  /\ UNCHANGED <<now, record, gids, m_lock, page, pages>>

Visit(w) ==
  \/ Enter(w) \/ Ask(w) \/ Exit(w)
  \/ \E i \in Addr, g \in Name \cup {ALLUSER} : Use(w, i, g)

(* A page that does something else counts as well.                         *)
OtherPage ==
  /\ pages < MaxPages
  /\ pages' = pages + 1
  /\ UNCHANGED <<now, record, gids, login, lockVars>>

TableNext ==
  \/ \E p \in Page : UserPage(p)
  \/ OtherPage
  \/ \E w \in Walker : Visit(w)
  \/ FlushTable
  \/ Tick /\ UNCHANGED userVars

TableSpec == InitUsers /\ [][TableNext]_tableVars

(* Whoever is in a section leaves it, and the time thread, which flushes   *)
(* every five seconds, gets the lock in the end.                           *)
FairTableSpec ==
  /\ TableSpec
  /\ \A p \in Page : WF_tableVars(PageGoesOn(p))
  /\ \A w \in Walker : WF_tableVars(Exit(w))
  /\ SF_tableVars(Enter(Collector)) /\ SF_tableVars(FlushTable)

-----------------------------------------------------------------------------
(* Types of the variables; a page thread is at an operation of somebody,   *)
(* and the clock is not behind the last use of a login.                    *)
LoginOp == {"login", "inside", "found", "write", "unlocked"}

TableTypeOK ==
  /\ now \in 0..MaxTime /\ pages \in 0..MaxPages
  /\ record \in [Name -> {"absent", "live", "freed"}]
  /\ gids \in [Name -> SUBSET Name]
  /\ login \in [Addr -> LoginUserInfo \cup {Nil}]
  /\ \A i \in Addr : LoggedIn(i) => login[i].last_active_time <= now
  /\ m_lock \in BOOLEAN
  /\ page \in [Page -> [op : PageOp, ip : Addr \cup {Nil}, user : Name \cup {Nil},
                        time : 0..MaxTime]]
  /\ \A p \in Page :
       /\ page[p].op \in LoginOp => page[p].ip # Nil /\ page[p].user # Nil
       /\ page[p].op \in {"expel", "expelled", "delete"} => page[p].user # Nil
       /\ page[p].time <= now
  /\ guest \in [Walker -> {"out", "in", "done"}]

(* m_lock protects the table: whoever is in a section holds it, and nobody *)
(* goes on in a section that ForceLogout has unlocked.                     *)
Guarded ==
  /\ \A p \in Page : ~Stray(p)
  /\ \A p \in Page : Inside(p) => /\ m_lock
                                  /\ \A q \in Page : Inside(q) => q = p
                                  /\ \A w \in Walker : guest[w] = "out"
  /\ \A w, v \in Walker : guest[w] # "out" => m_lock /\ (guest[v] # "out" => v = w)

(* A user is logged in from two addresses only while m_lock does not       *)
(* protect the table, because somebody who had a former login has logged   *)
(* in again; that is over when all sections that met then have ended.      *)
(* (A name whose record was freed is not a user any more.)                 *)
TwoLogins(n) == \E i, j \in Addr : i # j /\ Of(i, n) /\ Of(j, n)

SecondLoginUnguarded ==
  [][\A n \in Name : (~TwoLogins(n) /\ record[n] = "live" /\ TwoLogins(n)') => ~Guarded]_tableVars

(* KUser.cpp:222: nobody takes over an address at which another user is    *)
(* logged in, but in such a time.                                          *)
TakeoverUnguarded ==
  [][\A i \in Addr, n \in Name : (LoggedIn(i) /\ ~Of(i, n) /\ Of(i, n)') => ~Guarded]_tableVars

(* A login ends unless the access filter asks for it from time to time:    *)
(* none stays idle for ever, whatever the pages do meanwhile.              *)
IdleEnd == \A i \in Addr : []<>~Idle(i)
=============================================================================
