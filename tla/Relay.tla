------------------------------- MODULE Relay -------------------------------
(***************************************************************************)
(* One connection of a protocol that is passed on: server_thread and       *)
(* create_select_pipe (src/src/utils.cpp) with the handshakes of socks.cpp *)
(* and other.cpp over the sockets of mysocket.cpp.                         *)
(*                                                                         *)
(* In the code the user's socket is "server" and the origin's "client";    *)
(* here they are the two sides "user" and "host".  A handshake is a script *)
(* of operations, each of which may end it.  What a side sends are units:  *)
(* a message of a handshake is a "part" and an "end", the rest is "data".  *)
(***************************************************************************)
EXTENDS Integers, Sequences, FiniteSets

CONSTANTS
  Services,  \* the scripts of the instance
  MaxData,   \* bound: units of data of a side
  MaxLines,  \* bound: messages of a user whose protocol does not count them
  MaxGrams   \* bound: datagrams of an association

ASSUME RelayAssumption ==
  /\ Services \subseteq {"socks4", "connect", "login", "associate", "bind", "smtp",
                         "smtpfree", "pop3", "telnet", "mms", "rtsp", "redirect"}
  /\ MaxData \in Nat /\ MaxLines \in Nat \ {0} /\ MaxGrams \in Nat

VARIABLES
  service,  \* the script of the connection
  step,     \* where in it the thread is
  pc,       \* "script", "pipe", "end", "done"
  sent,     \* per side: the units it has sent
  in,       \* per side: those of them that are not read
  out,      \* per side: the units passed on to it
  closed,   \* per side: whether it has closed
  asked,    \* per side: the messages it has been asked for
  plan,     \* the messages the user will send
  patient,  \* whether the user waits for the end of the handshake
  read,     \* the units the handshake has read for its last message
  lately,   \* how many of them came in the last recv
  heard,    \* messages heard from the user
  split,    \* whether a message was taken for whole that was not
  told,     \* what the user was told: "", "no", "ok", "port 0"
  link,     \* the socket to the host: "none", "failed", "up", "udp", "nosocket"
  sock,     \* the mysocket of the host: "none", "live", "freed", "freed twice"
  ext,      \* SERVER.ext: "none", "conf", "stack", "heap", "dangling", "freed",
            \* "freed twice"
  model,    \* SERVER.model: "service" or "udp"
  want,     \* whether a UDP request names the port
  grams,    \* the datagrams that arrived, in order
  taken,    \* how many of them are read
  peer,     \* socks_udp.client_ip and port, "none" at first
  answers   \* where answers of hosts have been sent

streamVars == <<sent, in, out, closed>>
userVars == <<asked, plan, patient>>
readVars == <<read, lately, heard, split>>
ownVars  == <<sock, ext, model>>
udpVars  == <<want, grams, taken, peer, answers>>
vars == <<service, step, pc, streamVars, userVars, readVars, told, link, ownVars,
          udpVars>>

Side == {"user", "host"}
Unit == {"part", "end", "data"} \X Nat
Message(n) == <<<<"part", n + 1>>, <<"end", n + 2>>>>
IsData(u) == u[1] = "data"
IsEnd(u)  == u[1] = "end"

Before(s, k) == SubSeq(s, 1, k)
After(s, k)  == SubSeq(s, k + 1, Len(s))

-----------------------------------------------------------------------------
(* The scripts.  "recv" is one recv of the user, "line" reads up to the    *)
(* end of a line and no further, "lines" until it is the one awaited,      *)
(* "until" collects whole recvs up to the end of a message; "send" is a    *)
(* send to the user that must succeed, "say" one whose result is not       *)
(* looked at, "tell" the one that reports success; "ask" is a send to the  *)
(* host that asks it for a message, "banner" one recv of that.             *)

Socks4 == <<"recv", "new", "check", "connect", "local", "tell">>

Connect5  == <<"recv", "new", "send", "recv", "check", "connect", "local", "tell">>
Login5    == <<"recv", "new", "send", "recv", "send", "recv", "check", "connect", "local",
               "tell">>
Bind5     == <<"recv", "new", "send", "recv", "check", "refuse">>
Associate == <<"recv", "new", "send", "recv", "check", "open", "tell">>

(* connect() < 0 is never true: what fails is the recv that follows.       *)
Smtp     == <<"new", "say", "lines", "check", "try", "local", "ask", "hostlines", "ask",
              "hostlines", "ask">>
SmtpFree == <<"new", "say", "lines", "say", "line", "check", "try", "local", "ask",
              "hostlines", "tell">>

Pop3     == <<"send", "lines", "new", "check", "connect", "local", "banner", "ask">>
Telnet   == <<"new", "say", "until", "check", "connect", "local">>
Mms      == <<"new", "recv", "check", "connect", "local", "forward">>
Rtsp     == <<"new", "until", "check", "connect", "local", "forward">>
Redirect == <<"new", "check", "connect">>

Script ==
  CASE service = "socks4"    -> Socks4
    [] service = "connect"   -> Connect5
    [] service = "login"     -> Login5
    [] service = "bind"      -> Bind5
    [] service = "associate" -> Associate
    [] service = "smtp"      -> Smtp
    [] service = "smtpfree"  -> SmtpFree
    [] service = "pop3"      -> Pop3
    [] service = "telnet"    -> Telnet
    [] service = "mms"       -> Mms
    [] service = "rtsp"      -> Rtsp
    [] service = "redirect"  -> Redirect

SpeaksFirst == {"socks4", "connect", "login", "bind", "associate", "mms", "rtsp"}

(* How many messages a user sends before its data.                         *)
Plans(s) ==
  CASE s = "redirect"                           -> {0}
    [] s \in {"socks4", "mms", "rtsp", "telnet"} -> {1}
    [] s \in {"connect", "bind", "associate"}   -> {2}
    [] s = "login"                              -> {3}
    [] s = "smtpfree"                           -> 2..MaxLines
    [] s \in {"smtp", "pop3"}                   -> 1..MaxLines

(* The message after which the host is looked for.                         *)
Awaited == IF service = "smtpfree" THEN plan - 1 ELSE plan

At(op) == pc = "script" /\ Script[step] = op

Go ==
  IF step < Len(Script)
  THEN step' = step + 1 /\ UNCHANGED pc
  ELSE pc' = "pipe" /\ UNCHANGED step

-----------------------------------------------------------------------------
(* The two sides.                                                          *)

Messages(s) == Cardinality({i \in 1..Len(sent[s]) : IsEnd(sent[s][i])})
HostPlan == CASE service = "smtp" -> 2 [] service \in {"smtpfree", "pop3"} -> 1
              [] OTHER -> 0

Sends(s, units) ==
  /\ sent' = [sent EXCEPT ![s] = @ \o units]
  /\ in' = [in EXCEPT ![s] = @ \o units]
  /\ UNCHANGED <<service, step, pc, out, closed, userVars, readVars, told, link,
                 ownVars, udpVars>>

Speaks(s) ==
  /\ ~closed[s] /\ (s = "host" => link = "up")
  /\ Messages(s) < IF s = "user" THEN plan ELSE HostPlan
  /\ Messages(s) < asked[s]
  /\ Sends(s, Message(Len(sent[s])))

Answered == told \in {"ok", "port 0"} \/ out["user"] # <<>>

Data(s) ==
  /\ ~closed[s] /\ (s = "host" => link = "up")
  /\ Messages(s) = IF s = "user" THEN plan ELSE HostPlan
  /\ s = "user" /\ patient => Answered
  /\ s = "host" /\ service \in {"smtp", "pop3"} => asked[s] > HostPlan
  /\ Cardinality({i \in 1..Len(sent[s]) : IsData(sent[s][i])}) < MaxData
  /\ Sends(s, <<<<"data", Len(sent[s]) + 1>>>>)

Shuts(s) ==
  /\ ~closed[s] /\ (s = "host" => link = "up")
  /\ closed' = [closed EXCEPT ![s] = TRUE]
  /\ UNCHANGED <<service, step, pc, sent, in, out, userVars, readVars, told, link,
                 ownVars, udpVars>>

(* A datagram from the user's address, one of its ports or another, or     *)
(* from a host; ok is what the rules and the DNS cache say of its way.     *)
Gram == [from : {"user", "other", "host"}, rules : BOOLEAN, name : BOOLEAN]

Datagram(g) ==
  /\ link = "udp" /\ pc = "pipe" /\ Len(grams) < MaxGrams
  /\ grams' = Append(grams, g)
  /\ UNCHANGED <<service, step, pc, streamVars, userVars, readVars, told, link,
                 ownVars, want, taken, peer, answers>>

Outside ==
  /\ pc \in {"script", "pipe"}
  /\ \/ \E s \in Side : Speaks(s) \/ Data(s) \/ Shuts(s)
     \/ \E g \in Gram : Datagram(g)

-----------------------------------------------------------------------------
(* The operations of a handshake.  One that fails ends it: the mysocket    *)
(* and a socks_udp are deleted, and the thread goes on to its end.         *)

Deleted(s) == IF s = "live" THEN "freed" ELSE "freed twice"

Fail ==
  /\ pc' = "end"
  /\ link' = "none"
  /\ sock' = IF sock = "none" THEN "none" ELSE Deleted(sock)
  /\ ext' = IF ext = "heap" THEN "dangling" ELSE ext
  /\ UNCHANGED <<service, step, streamVars, userVars, readVars, model, udpVars>>

Prompts(n) == asked' = [asked EXCEPT !["user"] = @ + n] /\ UNCHANGED <<plan, patient>>

NewSocket ==
  /\ At("new") /\ Go
  /\ sock' = "live"
  /\ ext' = IF service = "socks4" THEN "stack" ELSE ext
  /\ UNCHANGED <<service, streamVars, userVars, readVars, told, link, model, udpVars>>

Send ==
  /\ At("send") /\ Go /\ Prompts(1)
  /\ UNCHANGED <<service, streamVars, readVars, told, link, ownVars, udpVars>>

SendFails == At("send") /\ closed["user"] /\ Fail /\ UNCHANGED told

Say ==
  /\ At("say") /\ Go /\ Prompts(1)
  /\ UNCHANGED <<service, streamVars, readVars, told, link, ownVars, udpVars>>

(* One recv, whatever it brings, is taken for the message.                 *)
Recv(k) ==
  /\ At("recv") /\ Go
  /\ k \in 1..Len(in["user"])
  /\ in' = [in EXCEPT !["user"] = After(@, k)]
  /\ read' = Before(in["user"], k) /\ lately' = k
  /\ heard' = heard + 1
  /\ split' = (split \/ ~\E i \in 1..k : IsEnd(in["user"][i]))
  /\ UNCHANGED <<service, sent, out, closed, userVars, told, link, ownVars, udpVars>>

LineEnds(s) == {i \in 1..Len(in[s]) : IsEnd(in[s][i])}
FirstLine(s) == CHOOSE i \in LineEnds(s) : \A j \in LineEnds(s) : i <= j

(* Variant: a line is read with one recv.                                  *)
TakeAll(s) ==
  /\ LineEnds(s) # {}
  /\ in' = [in EXCEPT ![s] = <<>>]

(* mysocket::recv with an end_str reads byte by byte.                      *)
TakeLine(s) ==
  /\ LineEnds(s) # {}
  /\ in' = [in EXCEPT ![s] = After(@, FirstLine(s))]

Line ==
  /\ At("line") /\ Go
  /\ TakeLine("user")
  /\ heard' = heard + 1
  /\ UNCHANGED <<service, sent, out, closed, userVars, read, lately, split, told, link,
                 ownVars, udpVars>>

(* The line awaited; any other is answered, for POP3 only three times.     *)
LastLine ==
  /\ At("lines") /\ heard + 1 = Awaited /\ Go
  /\ TakeLine("user")
  /\ heard' = heard + 1
  /\ UNCHANGED <<service, sent, out, closed, userVars, read, lately, split, told, link,
                 ownVars, udpVars>>

OtherLine ==
  /\ At("lines") /\ heard + 1 # Awaited
  /\ TakeLine("user")
  /\ heard' = heard + 1
  /\ IF service = "pop3" THEN Prompts(1) ELSE \E n \in 0..1 : Prompts(n)
  /\ IF service = "pop3" /\ heard' = 3
     THEN pc' = "end" ELSE UNCHANGED pc
  /\ UNCHANGED <<service, step, sent, out, closed, read, lately, split, told, link,
                 ownVars, udpVars>>

(* Whole recvs until there is an end.  Telnet throws away what is behind.  *)
Until(k) ==
  /\ At("until")
  /\ k \in 1..Len(in["user"])
  /\ in' = [in EXCEPT !["user"] = After(@, k)]
  /\ read' = read \o Before(in["user"], k) /\ lately' = k
  /\ IF \E i \in 1..Len(read') : IsEnd(read'[i])
     THEN Go /\ heard' = heard + 1
     ELSE UNCHANGED <<step, pc, heard>>
  /\ UNCHANGED <<service, sent, out, closed, userVars, split, told, link, ownVars,
                 udpVars>>

Waits == At("recv") \/ At("line") \/ At("lines") \/ At("until")

(* Variant: a read that brings nothing is tried again.                     *)
RecvPolls == Waits /\ in["user"] = <<>> /\ UNCHANGED vars

(* The user has closed, or the time is out.                                *)
RecvFails == Waits /\ in["user"] = <<>> /\ Fail /\ UNCHANGED told

(* The rules let the connection through, and it does not lead back here.   *)
Passes ==
  /\ At("check") \/ At("local")
  /\ Go
  /\ UNCHANGED <<service, streamVars, userVars, readVars, told, link, ownVars, udpVars>>

Refused == (At("check") \/ At("local") \/ At("refuse")) /\ Fail /\ UNCHANGED told

Connect ==
  /\ At("connect") \/ At("try")
  /\ Go
  /\ link' = "up"
  /\ UNCHANGED <<service, streamVars, userVars, readVars, told, ownVars, udpVars>>

(* SMTP goes on with a socket that is not connected.                       *)
TryFails ==
  /\ At("try") /\ Go
  /\ link' = "failed"
  /\ UNCHANGED <<service, streamVars, userVars, readVars, told, ownVars, udpVars>>

(* Variant: SOCKS goes on, as SMTP does.                                   *)
ConnectTried ==
  /\ At("connect") /\ service \notin {"telnet"} /\ Go
  /\ link' = "failed"
  /\ UNCHANGED <<service, streamVars, userVars, readVars, told, ownVars, udpVars>>

ConnectFails ==
  /\ At("connect") /\ service # "telnet"
  /\ told' = IF service \in {"socks4", "connect", "login"} THEN "no" ELSE told
  /\ Fail

(* The telnet user may enter another host.                                 *)
AskAgain ==
  /\ At("connect") /\ service = "telnet" /\ plan < MaxLines
  /\ step' = step - 2
  /\ asked' = [asked EXCEPT !["user"] = @ + 1] /\ plan' = plan + 1
  /\ read' = <<>> /\ lately' = 0
  /\ link' = "failed"
  /\ UNCHANGED <<service, pc, streamVars, patient, heard, split, told, ownVars, udpVars>>

AskHost ==
  /\ At("ask") /\ Go
  /\ asked' = [asked EXCEPT !["host"] = @ + 1]
  /\ UNCHANGED <<service, streamVars, plan, patient, readVars, told, link, ownVars,
                 udpVars>>

AskFails == At("ask") /\ service = "pop3" /\ closed["host"] /\ Fail /\ UNCHANGED told

HostLines ==
  /\ At("hostlines") /\ Go
  /\ TakeLine("host")
  /\ UNCHANGED <<service, sent, out, closed, userVars, readVars, told, link, ownVars,
                 udpVars>>

Banner(k) ==
  /\ At("banner") /\ Go
  /\ k \in 1..Len(in["host"])
  /\ in' = [in EXCEPT !["host"] = After(@, k)]
  /\ split' = (split \/ ~\E i \in 1..k : IsEnd(in["host"][i]))
  /\ UNCHANGED <<service, sent, out, closed, userVars, read, lately, heard, told, link,
                 ownVars, udpVars>>

HostFails ==
  /\ At("hostlines") \/ At("banner")
  /\ in["host"] = <<>>
  /\ Fail /\ UNCHANGED told

(* RTSP sends on as many bytes as the last recv brought.                   *)
Forward ==
  /\ At("forward") /\ Go
  /\ out' = [out EXCEPT !["host"] = Before(read, lately)]
  /\ split' = (split \/ lately < Len(read))
  /\ UNCHANGED <<service, sent, in, closed, userVars, read, lately, heard, told, link,
                 ownVars, udpVars>>

ForwardFails == At("forward") /\ closed["host"] /\ Fail /\ UNCHANGED told

(* A UDP request that names no port is told 0, whatever port was opened.   *)
Tell ==
  /\ At("tell") /\ Go
  /\ told' = IF service = "associate" /\ ~want THEN "port 0" ELSE "ok"
  /\ model' = IF service = "associate" THEN "udp" ELSE model
  /\ UNCHANGED <<service, streamVars, userVars, readVars, link, sock, ext, udpVars>>

(* Only SOCKS 4 looks at the result.                                       *)
TellFails == At("tell") /\ service = "socks4" /\ closed["user"] /\ Fail /\ UNCHANGED told

(* UDP ASSOCIATE opens the port that is asked for, else any; the second    *)
(* way never fails, whether there is a socket or not.                      *)
Open ==
  /\ At("open") /\ Go
  /\ ext' = "heap"
  /\ link' \in {"udp", "nosocket"}
  /\ UNCHANGED <<service, streamVars, userVars, readVars, told, sock, model, udpVars>>

Handshake ==
  \/ NewSocket \/ Send \/ SendFails \/ Say \/ Line \/ LastLine \/ OtherLine
  \/ \E k \in 1..Len(in["user"]) : Recv(k) \/ Until(k)
  \/ RecvFails \/ Passes \/ Refused \/ Connect \/ TryFails \/ ConnectFails \/ AskAgain
  \/ AskHost \/ AskFails \/ HostLines \/ HostFails \/ Forward \/ ForwardFails
  \/ \E k \in 1..Len(in["host"]) : Banner(k)
  \/ Tell \/ TellFails \/ Open

-----------------------------------------------------------------------------
(* create_select_pipe: the user is asked first, and the end of either side *)
(* closes both.                                                            *)

Readable(s) == in[s] # <<>> \/ closed[s]

(* Variant: units are passed on as soon as there is a connection.          *)
Connected == link = "up"

StreamPipe == pc = "pipe" /\ link = "up"

Pass(from, to, k) ==
  /\ k \in 1..Len(in[from])
  /\ in' = [in EXCEPT ![from] = After(@, k)]
  /\ out' = [out EXCEPT ![to] = @ \o Before(in[from], k)]
  /\ UNCHANGED <<service, step, pc, sent, closed, userVars, readVars, told, link, ownVars,
                 udpVars>>

PassUp(k)   == StreamPipe /\ Pass("user", "host", k)
PassDown(k) == StreamPipe /\ ~Readable("user") /\ Pass("host", "user", k)

ClosePipe ==
  /\ pc' = "end" /\ link' = "none"
  /\ UNCHANGED <<service, step, streamVars, userVars, readVars, told, ownVars>>

PipeEnds ==
  /\ StreamPipe
  /\ \/ in["user"] = <<>> /\ closed["user"]
     \/ in["user"] # <<>> /\ closed["host"]              \* cannot be sent
     \/ ~Readable("user") /\ in["host"] = <<>>           \* closed, or time out
  /\ ClosePipe /\ UNCHANGED udpVars

-----------------------------------------------------------------------------
(* The same for an association.  Its datagrams go both ways through one    *)
(* socket; those of the user's address are the user's.                     *)

UdpPipe == pc = "pipe" /\ link \in {"udp", "nosocket"}

NextGram == grams[taken + 1]
Takes ==
  /\ UdpPipe /\ ~Readable("user") /\ taken < Len(grams)
  /\ taken' = taken + 1

Carries ==
  UNCHANGED <<service, step, pc, streamVars, userVars, readVars, told, link, ownVars,
              want, grams>>

(* Variant: the port is learned before the rules are asked.                *)
LearnsFirst ==
  IF peer = "none" THEN NextGram.from ELSE peer

(* client_ip and port are those of the first datagram that is let through. *)
Learns ==
  IF peer = "none" /\ NextGram.rules THEN NextGram.from ELSE peer

(* udp_unencode: one that the rules deny is dropped.                       *)
UdpOut ==
  /\ Takes /\ NextGram.from # "host" /\ (NextGram.rules => NextGram.name)
  /\ peer' = Learns
  /\ UNCHANGED answers
  /\ Carries

(* udp_encode: the answer of a host goes to the port of the user.          *)
UdpBack ==
  /\ Takes /\ NextGram.from = "host" /\ NextGram.rules /\ peer # "none"
  /\ answers' = Append(answers, peer)
  /\ UNCHANGED peer
  /\ Carries

(* An unknown name ends the association; so does the datagram of a host    *)
(* that the rules deny or that comes before the user is known; so does     *)
(* anything on the connection of the user.                                 *)
UdpEnds ==
  \/ /\ Takes
     /\ IF NextGram.from = "host" THEN ~NextGram.rules \/ peer = "none"
        ELSE NextGram.rules /\ ~NextGram.name
     /\ peer' = IF NextGram.from = "host" THEN peer ELSE Learns
     /\ ClosePipe /\ UNCHANGED <<want, grams, answers>>
  \/ /\ UdpPipe /\ (Readable("user") \/ link = "nosocket" \/ taken = Len(grams))
     /\ ClosePipe /\ UNCHANGED udpVars

-----------------------------------------------------------------------------
(* The end of server_thread.                                               *)

(* Variant: what ext points at is deleted whatever the model is.           *)
DeleteExtAlways ==
  CASE ext = "none" -> "none"
    [] ext = "heap" -> "freed"
    [] OTHER        -> "freed twice"

DeleteExt ==
  CASE model # "udp" \/ ext = "none" -> ext
    [] ext = "heap"                  -> "freed"
    [] OTHER                         -> "freed twice"

End ==
  /\ pc = "end"
  /\ pc' = "done"
  /\ ext' = DeleteExt
  /\ sock' = IF sock = "live" THEN "freed" ELSE sock
  /\ UNCHANGED <<service, step, streamVars, userVars, readVars, told, link, model, udpVars>>

-----------------------------------------------------------------------------
Init ==
  /\ service \in Services /\ plan \in Plans(service)
  /\ IF service = "associate" THEN patient = TRUE /\ want \in BOOLEAN
     ELSE patient \in BOOLEAN /\ want = TRUE
  /\ step = 1 /\ pc = "script"
  /\ sent = [s \in Side |-> <<>>] /\ in = sent /\ out = sent
  /\ closed = [s \in Side |-> FALSE]
  /\ asked = [s \in Side |-> IF \/ s = "user" /\ service \in SpeaksFirst
                                \/ s = "host" /\ service = "pop3" THEN 1 ELSE 0]
  /\ read = <<>> /\ lately = 0 /\ heard = 0 /\ split = FALSE
  /\ told = "" /\ link = "none"
  /\ sock = "none" /\ ext = IF service = "redirect" THEN "conf" ELSE "none"
  /\ model = "service"
  /\ grams = <<>> /\ taken = 0 /\ peer = "none" /\ answers = <<>>

Thread ==
  \/ Handshake
  \/ \E k \in 1..Len(in["user"]) : PassUp(k)
  \/ \E k \in 1..Len(in["host"]) : PassDown(k)
  \/ PipeEnds \/ UdpOut \/ UdpBack \/ UdpEnds \/ End

Done == pc = "done" /\ UNCHANGED vars

Next == Outside \/ Thread \/ Done

Spec == Init /\ [][Next]_vars

(* The thread runs, and its waits end: its sockets have a time limit.      *)
FairSpec == Spec /\ WF_vars(Thread)
-----------------------------------------------------------------------------
(* Types; nothing is on its way to a host before the script is over.       *)
TypeOK ==
  /\ service \in Services /\ step \in 1..Len(Script)
  /\ pc \in {"script", "pipe", "end", "done"}
  /\ \A s \in Side : sent[s] \in Seq(Unit) /\ in[s] \in Seq(Unit) /\ out[s] \in Seq(Unit)
  /\ closed \in [Side -> BOOLEAN] /\ asked \in [Side -> Nat]
  /\ link \in {"none", "failed", "up", "udp", "nosocket"}
  /\ told \in {"", "no", "ok", "port 0"} /\ taken \in 0..Len(grams)
  /\ pc = "script" /\ Script[step] # "forward" => out["host"] = <<>>

(* A user that is told that the host was reached, and a user whose bytes   *)
(* are passed on, has a connection to the host, or a UDP socket at the     *)
(* port it was told: the replies of socks.cpp, create_smtp_connect with    *)
(* its test of connect() that is never true, and mysocket::open.  Untrue   *)
(* are port 0, and success when the system has no socket left.             *)
ToldTruth ==
  /\ pc \in {"script", "pipe"} /\ told = "ok" => link \in {"up", "udp", "nosocket"}
  /\ pc = "pipe" => (link = "up") # (service = "associate")
  /\ told = "port 0" => service = "associate" /\ ~want

(* What server_thread deletes at its end: the host's mysocket exactly      *)
(* once, on every way out of a handshake; and ext only if it is the        *)
(* socks_udp of an association, never the stack of create_socks5_connect   *)
(* or a redirect of the configuration.                                     *)
FreedOnce ==
  /\ sock # "freed twice" /\ ext # "freed twice"
  /\ pc = "done" => sock # "live" /\ ext # "heap"

Ends(s)    == {i \in 1..Len(sent[s]) : IsEnd(sent[s][i])}
LastEnd(s) == CHOOSE i \in Ends(s) \cup {0} : \A j \in Ends(s) : j <= i

(* All that was sent, if the handshake is passed on too; else what is      *)
(* behind its last message.                                                *)
Payload(s) ==
  IF s = "user" /\ service \in {"mms", "rtsp"} THEN sent[s] ELSE After(sent[s], LastEnd(s))

ReadsExactly == service \in {"smtp", "smtpfree", "pop3", "mms", "rtsp"}

(* Both directions carry what was sent after the handshake, in order and   *)
(* with nothing lost, added or passed on twice, if every message of the    *)
(* handshake came in one piece and the user waited for its end; where the  *)
(* handshake reads lines, or sends on what it read, the user need not      *)
(* wait.                                                                   *)
NothingLost ==
  pc = "pipe" /\ link = "up" /\ ~split =>
    /\ patient \/ ReadsExactly => out["host"] \o in["user"] = Payload("user")
    /\ out["user"] \o in["host"] = Payload("host")

Let == {i \in 1..taken : grams[i].from # "host" /\ grams[i].rules}

(* The answers of an association go to where the first datagram that the   *)
(* rules let through came from, whatever else arrives from the address of  *)
(* the user, before or after: udp_unencode and udp_encode.                 *)
UdpToPeer ==
  \A n \in 1..Len(answers) :
    \E i \in Let : (\A j \in Let : i <= j) /\ answers[n] = grams[i].from

(* A connection of which either end has closed is given up: server_thread  *)
(* reaches its end, wherever in a handshake it is.                         *)
RelayEnds == (\E s \in Side : closed[s]) ~> (pc = "done")
=============================================================================
