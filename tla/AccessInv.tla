----------------------------- MODULE AccessInv -----------------------------
(***************************************************************************)
(* Why the properties of the access filter hold: the inductive invariants. *)
(***************************************************************************)
EXTENDS AccessProps

GcType ==
  [at : {"sleep", "pick", "check", "flush", "hour"}, todo : SUBSET Conn,
   c : Conn \cup {Nil}, kept : SUBSET Conn, since : Nat]

ConnType == [pc : {"idle", "accept", "refused", "wait", "check", "serve", "end", "deleted"},
             src : Addr \cup {Nil}, service : Service \cup {Nil}]

Listed(c) == filter_time_list[c] # Nil

(* A connection has its server from the start of server_thread to its end, *)
(* and may be listed while the thread is past its first check, until it    *)
(* takes itself off the list; check_time goes through listed ones only,    *)
(* and those it has let pass stay listed until the logins are flushed.     *)
ListInv ==
  /\ now \in Nat
  /\ conn \in [Conn -> ConnType]
  /\ server \in [Conn -> {"none", "open", "closed"}]
  /\ filter_time_list \in [Conn -> State \cup {Nil}]
  /\ gc \in GcType
  /\ \A c \in Conn :
       /\ conn[c].pc \in {"wait", "check", "serve", "end", "deleted"} => server[c] # "none"
       /\ Listed(c) => conn[c].pc \in {"check", "serve", "end"}
       /\ conn[c].pc # "idle" => conn[c].src \in Addr /\ conn[c].service \in Service
  /\ gc.at \in {"pick", "check"} => \A c \in gc.todo : Listed(c) /\ c \notin gc.kept
  /\ gc.at \in {"pick", "check", "flush"} => \A c \in gc.kept : Listed(c)
  /\ gc.at = "check" => gc.c \in gc.todo

-----------------------------------------------------------------------------
(* The calls of Check: each belongs to a thread that waits for it, and is  *)
(* about what the thread asked.                                            *)
WalkType ==
  [at : {"idle", "call", "enter", "first", "between", "second", "last", "done"},
   s : State \cup {Nil}, model : Model, second : Model, i : Nat, result : Model]

WalkInv ==
  /\ walk \in [Walker -> WalkType]
  /\ \A w \in Walker : walk[w].at # "idle" => walk[w].s \in State
  /\ \A c \in Conn : conn[c].pc \in {"accept", "check"} <=> walk[c].at # "idle"
  /\ gc.at = "check" <=> walk[Collector].at # "idle"
  /\ gc.at = "check" => walk[Collector].s = filter_time_list[gc.c]
  /\ first \in Model
  /\ m_chains \in [Model -> Seq(Rule)]
  /\ \A m \in Model : Len(m_chains[m]) <= MaxRules

-----------------------------------------------------------------------------
(* What a call of Check knows, while it is where it is.                    *)
Matches(r, s, model) == TRUE \in Answers(r, s, model)
RuleAt(m, k) == m_chains[m][k]

(* What is returned, if the first list has no rule that matches.           *)
Second(s) == IF Hit(1 - first, s) THEN 1 - first ELSE first

(* The rules a walk has passed did not match.                              *)
Passed(w) ==
  /\ walk[w].i \in 1..Len(List(w)) + 1
  /\ \A k \in 1..walk[w].i - 1 : ~Matches(RuleAt(walk[w].model, k), walk[w].s, walk[w].model)

Knows(w) ==
  LET s  == walk[w].s
      at == walk[w].at
  IN  /\ Decision(s) \in seen[w]
      /\ at \in {"enter", "first", "between", "second"} => walk[w].second = 1 - first
      /\ at = "first" => walk[w].model = first /\ Passed(w)
      /\ at \in {"between", "second"} => Second(s) \in seen[w]
      /\ at = "between" /\ torn[w] = 0 => ~Hit(first, s)
      /\ at = "second" => walk[w].model = 1 - first /\ Passed(w)
      /\ at = "last" => first \in seen[w]
      /\ at = "done" => walk[w].result \in seen[w]

PolicyInv ==
  /\ seen \in [Walker -> SUBSET Model]
  /\ torn \in [Walker -> 0..2]
  /\ \A w \in Walker : walk[w].at # "idle" /\ torn[w] < 2 => Knows(w)

-----------------------------------------------------------------------------
(* What check_time has found out about a connection, and that it will last *)
(* until the logins are flushed: a rule that matched or not because of a   *)
(* login has made it recent.                                               *)
Asked(r, s) == Applies(r, s) /\ AsksUser(r, s) /\ TRUE \in CheckUser(s.src_ip, r.user_id)
Recent(i) == LoggedIn(i) => login[i].last_active_time >= gc.since
Firm(r, s) == Asked(r, s) => Recent(s.src_ip)

FirmHit(m, s) ==
  \E k \in DOMAIN m_chains[m] : Matches(RuleAt(m, k), s, m) /\ Firm(RuleAt(m, k), s)
FirmMissTo(m, s, n) ==
  \A k \in 1..n : ~Matches(RuleAt(m, k), s, m) /\ Firm(RuleAt(m, k), s)
FirmMiss(m, s) == FirmMissTo(m, s, Len(m_chains[m]))

FirmDecision(s, d) ==
  \/ FirmHit(first, s) /\ d = first
  \/ FirmMiss(first, s) /\ FirmHit(1 - first, s) /\ d = 1 - first
  \/ FirmMiss(first, s) /\ FirmMiss(1 - first, s) /\ d = first

FirmKnows(w) ==
  LET s  == w.s
      at == w.at
  IN  /\ at \in {"enter", "first", "between", "second"} => w.second = 1 - first
      /\ at = "first" => /\ w.model = first
                         /\ w.i \in 1..Len(m_chains[first]) + 1
                         /\ FirmMissTo(first, s, w.i - 1)
      /\ at \in {"between", "second"} => FirmMiss(first, s)
      /\ at = "second" => /\ w.model = 1 - first
                          /\ w.i \in 1..Len(m_chains[1 - first]) + 1
                          /\ FirmMissTo(1 - first, s, w.i - 1)
      /\ at = "last" => FirmDecision(s, first)
      /\ at = "done" => FirmDecision(s, w.result)

PassInv ==
  /\ still \in BOOLEAN
  /\ gc.at # "sleep" => gc.since <= now /\ now <= gc.since + TimeOut
  /\ still /\ gc.at \in {"check", "flush"} => \A i \in Addr : ~Freed(i)
  /\ still /\ gc.at = "check" => FirmKnows(walk[Collector])
  /\ still /\ gc.at \in {"pick", "check", "flush"} =>
       \A c \in gc.kept : FirmDecision(filter_time_list[c], ALLOW)
=============================================================================
