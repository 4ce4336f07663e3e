---------------------------- MODULE AccessProps ----------------------------
(***************************************************************************)
(* What the logins, the rules and the list of connections must guarantee.  *)
(***************************************************************************)
EXTENDS Access

State == [src_ip : Addr, service : Service, dst_ip : Dst \cup {Nil},
          uid : Name \cup {Nil, DELAYUSER}]

(* Types of the variables; within them, every call of Check belongs to a   *)
(* thread that waits for it, and the clock is not behind the last use of a *)
(* login.                                                                  *)
TypeOK ==
  /\ now \in 0..MaxTime /\ pages \in 0..MaxPages
  /\ record \in [Name -> {"absent", "live", "freed"}]
  /\ gids \in [Name -> SUBSET Name]
  /\ login \in [Addr -> LoginUserInfo \cup {Nil}]
  /\ \A i \in Addr : LoggedIn(i) => login[i].last_active_time <= now
  /\ m_lock \in BOOLEAN
  /\ page \in [Page -> [op : PageOp, ip : Addr \cup {Nil}, user : Name \cup {Nil},
                        time : 0..MaxTime]]
  /\ guest \in [Walker -> {"out", "in", "done"}]
  /\ m_chains \in [Model -> Seq(Rule)] /\ \A m \in Model : Len(m_chains[m]) <= MaxRules
  /\ first \in Model
  /\ conn \in [Conn -> [pc : {"idle", "accept", "refused", "wait", "check", "serve",
                              "end", "deleted"},
                        src : Addr \cup {Nil}, service : Service \cup {Nil}]]
  /\ server \in [Conn -> {"none", "open", "closed"}]
  /\ filter_time_list \in [Conn -> State \cup {Nil}]
  /\ \A c \in Conn : conn[c].pc \in {"accept", "check"} <=> walk[c].at # "idle"
  /\ gc.at = "check" <=> walk[Collector].at # "idle"

(* manual.en:45-47: the rules decide about a connection by what they are   *)
(* at one moment of the call of Check, if during the call nothing was      *)
(* changed that they depend on, but one rule added or expired, under the   *)
(* write lock.  (Without that condition it is false: rules are deleted and *)
(* `first' is changed without the lock, the lists are read one after the   *)
(* other, and the groups of a deleted user are read in freed memory.)      *)
CheckIsPolicy ==
  \A w \in Walker : walk[w].at = "done" /\ torn[w] < 2 => walk[w].result \in seen[w]

(* check_time calls close on a mysocket that its thread deletes: whatever  *)
(* is in the list has not been deleted, and the connection check_time is   *)
(* at stays in the list while the rules are asked about it.                *)
ListedAreAlive ==
  /\ \A c \in Conn : filter_time_list[c] # Nil => server[c] # "none"
  /\ gc.at = "check" => filter_time_list[gc.c] # Nil

(* FlushLoginUser does not end a login that a listed connection needs: one *)
(* that check_time has just let pass, and that the rules deny without the  *)
(* login.                                                                  *)
UsedLoginsStay ==
  [][gc.at = "flush" /\ still =>
       \A c \in gc.kept : Decision(filter_time_list[c]) = ALLOW
                           => (gc.at = "hour" => Decision(filter_time_list[c]) = ALLOW)']_vars

(* A connection that the rules do not allow any more, because a rule was   *)
(* added or deleted, a login ended, or the time has come, does not stay:   *)
(* it is closed, and its thread ends.                                      *)
DeniedEnd ==
  \A c \in Conn :
    []<>~ \/ server[c] = "closed"
          \/ filter_time_list[c] # Nil /\ Decision(filter_time_list[c]) = DENY
=============================================================================
