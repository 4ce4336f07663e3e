------------------------------- MODULE RelayInv -------------------------------
(***************************************************************************)
(* Why no byte of a connection is lost: the inductive invariant.           *)
(***************************************************************************)
EXTENDS Relay

Streams ==
  /\ sent \in [Side -> Seq(Unit)] /\ in \in [Side -> Seq(Unit)] /\ out \in [Side -> Seq(Unit)]
  /\ asked \in [Side -> Nat] /\ plan \in Nat /\ heard \in Nat
  /\ read \in Seq(Unit) /\ lately \in 0..Len(read)
  /\ pc = "script" => out["user"] = <<>> /\ out["host"] = <<>>
  /\ pc = "pipe" => step = Len(Script) /\ service # "bind"

-----------------------------------------------------------------------------
(* What a side sends: at most n messages, and data behind the last one.    *)

Shaped(s) ==
  /\ 2 * Messages(s) <= Len(sent[s])
  /\ \A j \in 1..Messages(s) : ~IsEnd(sent[s][2 * j - 1]) /\ IsEnd(sent[s][2 * j])
  /\ \A i \in 2 * Messages(s) + 1..Len(sent[s]) : ~IsEnd(sent[s][i])

Spelled(s, n) ==
  /\ Shaped(s) /\ Messages(s) <= n
  /\ Len(sent[s]) > 2 * Messages(s) => Messages(s) = n

-----------------------------------------------------------------------------
(* Where a handshake is.                                                   *)

(* Messages that are read with recv, by lines, or to be sent on.           *)
Spoken == service \in {"socks4", "connect", "login", "telnet", "redirect"}
Lined  == service \in {"smtp", "smtpfree", "pop3"}
Whole  == service \in {"mms", "rtsp"}

Reading == pc = "script" /\ Script[step] \in {"recv", "until"}

(* How many messages of the user are still to be read.                     *)
Left ==
  CASE service = "socks4"     -> IF step <= 1 THEN 1 ELSE 0
    [] service = "connect"    -> IF step <= 1 THEN 2 ELSE IF step <= 4 THEN 1 ELSE 0
    [] service = "login"      -> IF step <= 1 THEN 3 ELSE IF step <= 4 THEN 2
                                 ELSE IF step <= 6 THEN 1 ELSE 0
    [] service = "telnet"     -> IF step <= 3 THEN 1 ELSE 0
    [] OTHER                  -> 0

(* How many of the host have been.                                         *)
HostHeard ==
  CASE service = "smtp"     -> IF step <= 8 THEN 0 ELSE IF step <= 10 THEN 1 ELSE 2
    [] service = "smtpfree" -> IF step <= 10 THEN 0 ELSE 1
    [] service = "pop3"     -> IF step <= 7 THEN 0 ELSE 1
    [] OTHER                -> 0

Counts ==
  /\ Spoken => /\ plan = heard + Left
               /\ asked["user"] = heard + IF Reading THEN 1 ELSE 0
  /\ service = "smtp" => IF step <= 3 THEN heard < plan ELSE heard = plan
  /\ service = "pop3" => IF step <= 2 THEN heard < plan ELSE heard = plan
  /\ service = "smtpfree" => IF step <= 3 THEN heard + 1 < plan
                             ELSE heard = IF step <= 5 THEN plan - 1 ELSE plan
  /\ service = "pop3" /\ pc = "script" => asked["host"] = 1

-----------------------------------------------------------------------------
(* What of it has been passed on, and is to be.                            *)

(* The units of the user in front of what is passed on.                    *)
Heard == 2 * heard + IF service = "telnet" /\ Reading THEN Len(read) ELSE 0

UserCarried ==
  /\ (Spoken /\ patient) \/ Lined =>
       /\ Spelled("user", plan)
       /\ Heard <= Len(sent["user"])
       /\ out["host"] \o in["user"] = After(sent["user"], Heard)
  /\ Spoken /\ patient /\ pc = "script" =>
       /\ Len(sent["user"]) = 2 * Messages("user") /\ Messages("user") <= asked["user"]
       /\ service = "telnet" /\ Reading => \A i \in 1..Len(read) : ~IsEnd(read[i])
  /\ Whole /\ pc = "script" => sent["user"] = read \o in["user"]
  /\ service \in {"mms", "telnet"} /\ pc = "script" /\ step <= 2 => read = <<>>
  /\ Whole /\ pc = "pipe" => sent["user"] = out["host"] \o in["user"]

HostCarried ==
  /\ Spelled("host", HostPlan)
  /\ service = "pop3" /\ pc = "script" => Len(sent["host"]) = 2 * Messages("host")
  /\ 2 * HostHeard <= Len(sent["host"])
  /\ out["user"] \o in["host"] = After(sent["host"], 2 * HostHeard)

Carried  == Streams /\ Counts /\ UserCarried /\ HostCarried
CarryInv == pc \in {"script", "pipe"} /\ ~split => Carried
=============================================================================
