---------------------------- MODULE RelayProofs ----------------------------
(***************************************************************************)
(* Theorems about a connection that is passed on, for any set of services  *)
(* and any number of messages, data and datagrams.                         *)
(***************************************************************************)
EXTENDS RelayInv, FiniteSetTheorems, TLAPS

Service == {"socks4", "connect", "login", "associate", "bind", "smtp", "smtpfree", "pop3",
            "telnet", "mms", "rtsp", "redirect"}

(* What the order of the operations in the scripts is worth.               *)
Ordered(s) ==
  LET n == Len(s) IN
  /\ n \in Nat /\ n >= 1
  /\ \E i \in 1..n : s[i] = "new"
  /\ service \notin {"associate", "bind"} => \E i \in 1..n : s[i] \in {"connect", "hostlines"}
  /\ service = "associate" => s[n] = "tell" /\ \E i \in 1..n : s[i] = "open"
  /\ service = "bind" => s[n] = "refuse"
  /\ \A i \in 1..n :
       /\ s[i] \in {"connect", "try", "hostlines"} => service # "associate"
       /\ s[i] = "open" => service = "associate"
       /\ s[i] \in {"connect", "try"} =>
            \A j \in 1..i - 1 : s[j] \notin {"connect", "try", "hostlines", "open"}
       /\ s[i] = "tell" => i = n /\ service \in {"socks4", "connect", "login", "smtpfree",
                                                "associate"}
       /\ service = "telnet" /\ s[i] = "connect" =>
            /\ i - 2 \in 1..n
            /\ \E j \in 1..i - 3 : s[j] = "new"

LEMMA ScriptOrdered == ASSUME service \in Service PROVE Ordered(Script)
<1>1. CASE service = "socks4"
  BY <1>1 DEF Script, Ordered, Socks4
<1>2. CASE service = "connect"
  BY <1>2 DEF Script, Ordered, Connect5
<1>3. CASE service = "login"
  BY <1>3 DEF Script, Ordered, Login5
<1>4. CASE service = "bind"
  BY <1>4 DEF Script, Ordered, Bind5
<1>5. CASE service = "associate"
  BY <1>5 DEF Script, Ordered, Associate
<1>6. CASE service = "smtp"
  BY <1>6 DEF Script, Ordered, Smtp
<1>7. CASE service = "smtpfree"
  BY <1>7 DEF Script, Ordered, SmtpFree
<1>8. CASE service = "pop3"
  BY <1>8 DEF Script, Ordered, Pop3
<1>9. CASE service = "telnet"
  BY <1>9 DEF Script, Ordered, Telnet
<1>10. CASE service = "mms"
  BY <1>10 DEF Script, Ordered, Mms
<1>11. CASE service = "rtsp"
  BY <1>11 DEF Script, Ordered, Rtsp
<1>12. CASE service = "redirect"
  BY <1>12 DEF Script, Ordered, Redirect
<1> QED
  BY <1>1, <1>2, <1>3, <1>4, <1>5, <1>6, <1>7, <1>8, <1>9, <1>10, <1>11, <1>12 DEF Service

-----------------------------------------------------------------------------
(* An operation that the thread has behind it.                             *)
Behind(op) == \E i \in 1..step - 1 : Script[i] = op

Placed ==
  /\ service \in Service /\ step \in 1..Len(Script)
  /\ pc \in {"script", "pipe", "end", "done"}
  /\ DOMAIN in = Side

Unowned == {"none", "conf", "stack"}

(* Who has the mysocket and what ext points at.                            *)
Owned ==
  /\ pc = "script" => /\ sock = IF Behind("new") THEN "live" ELSE "none"
                      /\ model = "service"
                      /\ IF Behind("open") THEN ext = "heap" ELSE ext \in Unowned
  /\ pc = "pipe" => /\ sock = "live"
                    /\ IF service = "associate" THEN model = "udp" /\ ext = "heap"
                       ELSE model = "service" /\ ext \in Unowned
  /\ pc = "end" => /\ sock \in {"none", "live", "freed"}
                   /\ IF model = "udp" THEN ext = "heap" ELSE ext \in Unowned \cup {"dangling"}
  /\ pc = "done" => sock \in {"none", "freed"} /\ ext \in Unowned \cup {"dangling", "freed"}

(* What the thread knows of the host by where it is in the script.         *)
Linked ==
  /\ pc = "script" => /\ Behind("connect") \/ Behind("hostlines") => link = "up"
                      /\ link = "up" => Behind("connect") \/ Behind("try")
                      /\ link \in IF Behind("open") THEN {"udp", "nosocket"}
                                 ELSE {"none", "failed", "up"}
                      /\ link # "up" => in["host"] = <<>>
                      /\ told = ""
  /\ pc = "pipe" => link \in IF service = "associate" THEN {"udp", "nosocket"} ELSE {"up"}
  /\ told = "port 0" => service = "associate" /\ ~want

LEMMA InitLinked == Init => Placed /\ Owned /\ Linked
<1> SUFFICES ASSUME Init PROVE Placed /\ Owned /\ Linked
  OBVIOUS
<1>1. service \in Service
  BY RelayAssumption DEF Init, Service
<1>2. Ordered(Script)
  BY <1>1, ScriptOrdered
<1>3. step = 1 /\ step \in 1..Len(Script) /\ pc = "script"
  <2>1. Len(Script) \in Nat /\ Len(Script) >= 1
    BY <1>2 DEF Ordered
  <2>2. step = 1 /\ pc = "script"
    BY DEF Init
  <2> QED BY <2>1, <2>2
<1>4. in = [s \in Side |-> <<>>] /\ DOMAIN in = Side /\ in["host"] = <<>>
  BY DEF Init, Side
<1>5. \A op : ~Behind(op)
  BY <1>3 DEF Behind
<1>6. sock = "none" /\ ext \in Unowned /\ model = "service" /\ link = "none" /\ told = ""
  BY DEF Init, Unowned
<1> QED BY <1>1, <1>3, <1>4, <1>5, <1>6 DEF Placed, Owned, Linked

(* The next operation of a script.                                         *)
LEMMA GoBehind ==
  ASSUME Placed, pc = "script", Go, service' = service, NEW op
  PROVE  pc' = "script" => (Behind(op)' <=> Behind(op) \/ Script[step] = op)
<1>1. Ordered(Script)
  BY ScriptOrdered DEF Placed
<1>2. Script' = Script
  BY DEF Script
<1> SUFFICES ASSUME pc' = "script" PROVE Behind(op)' <=> Behind(op) \/ Script[step] = op
  OBVIOUS
<1>3. step' = step + 1 /\ step \in Nat /\ step >= 1
  BY DEF Go, Placed
<1>4. 1..step' - 1 = (1..step - 1) \cup {step}
  BY <1>3
<1> QED BY <1>2, <1>4 DEF Behind

LEMMA GoPlaced ==
  ASSUME Placed, pc = "script", Go, service' = service, DOMAIN in' = Side
  PROVE  Placed' /\ (pc' = "script" \/ (pc' = "pipe" /\ step = Len(Script)))
<1>1. Ordered(Script) /\ Script' = Script
  BY ScriptOrdered DEF Placed, Script
<1> QED BY <1>1 DEF Placed, Go, Ordered

(* Positions of a script up to the one the thread is at.                   *)
LEMMA Positions ==
  ASSUME NEW n \in Nat, NEW k \in 1..n
  PROVE  /\ \A i \in 1..k - 1 : i \in 1..n
         /\ k = n => \A i \in 1..n : i \in 1..k - 1 \/ i = n
         /\ ~(k < n) <=> k = n
  OBVIOUS

(* Whatever the operation is, once the thread is past it.                  *)
LEMMA Advance ==
  ASSUME Placed, Owned, Linked, pc = "script", Go, UNCHANGED <<service, want>>,
         sock' = IF Script[step] = "new" THEN "live" ELSE sock,
         IF Script[step] = "open" THEN ext' = "heap"
         ELSE ext' = ext \/ (ext' = "stack" /\ service = "socks4"),
         model' = IF Script[step] = "tell" /\ service = "associate" THEN "udp" ELSE model,
         Script[step] = "connect" => link' = "up",
         Script[step] = "try" => link' \in {"up", "failed"},
         Script[step] = "open" => link' \in {"udp", "nosocket"},
         Script[step] \notin {"connect", "try", "open"} => link' = link,
         Script[step] = "hostlines" => link = "up",
         Script[step] # "refuse",
         IF Script[step] = "tell"
         THEN told' = "ok" \/ (told' = "port 0" /\ service = "associate" /\ ~want)
         ELSE told' = told,
         DOMAIN in' = Side, in'["host"] = in["host"] \/ (link = "up" /\ link' = "up")
  PROVE  Placed' /\ Owned' /\ Linked'
<1> DEFINE op == Script[step]
           n == Len(Script)
<1>1. Ordered(Script) /\ Script' = Script /\ step \in 1..n /\ n \in Nat
  BY ScriptOrdered DEF Placed, Script, Ordered
<1>2. Placed' /\ (pc' = "script" \/ (pc' = "pipe" /\ step = n))
  BY GoPlaced
<1>0. /\ \A i \in 1..step - 1 : i \in 1..n
      /\ step = n => \A i \in 1..n : i \in 1..step - 1 \/ i = n
      /\ ~(step < n) <=> step = n
  <2> HIDE DEF n
  <2> QED BY <1>1, Positions
<1>3. /\ op \in {"connect", "try", "hostlines"} => service # "associate"
      /\ op = "open" => service = "associate"
      /\ op \in {"connect", "try"} =>
           ~Behind("connect") /\ ~Behind("try") /\ ~Behind("hostlines") /\ ~Behind("open")
      /\ op = "tell" => step = n
  <2>1. op \in {"connect", "try"} =>
          \A j \in 1..step - 1 : Script[j] \notin {"connect", "try", "hostlines", "open"}
    BY <1>1 DEF Ordered
  <2>2. /\ op \in {"connect", "try", "hostlines"} => service # "associate"
        /\ op = "open" => service = "associate"
        /\ op = "tell" => step = n
    BY <1>1 DEF Ordered
  <2> QED BY <2>1, <2>2 DEF Behind
<1>4. /\ Behind("open") => service = "associate"
      /\ Behind("connect") \/ Behind("try") \/ Behind("hostlines") => service # "associate"
  <2>1. ASSUME NEW i \in 1..step - 1
        PROVE  /\ Script[i] = "open" => service = "associate"
               /\ Script[i] \in {"connect", "try", "hostlines"} => service # "associate"
    <3>1. i \in 1..n
      BY <1>0
    <3> QED BY <1>1, <3>1 DEF Ordered
  <2> QED BY <2>1 DEF Behind
<1>5. op = "open" => link # "up"
  BY <1>3, <1>4 DEF Linked
<1>6. op \in {"connect", "try"} => link # "up"
  BY <1>3 DEF Linked
<1>7. CASE pc' = "script"
  <2>1. /\ Behind("new")' <=> Behind("new") \/ op = "new"
        /\ Behind("open")' <=> Behind("open") \/ op = "open"
        /\ Behind("connect")' <=> Behind("connect") \/ op = "connect"
        /\ Behind("try")' <=> Behind("try") \/ op = "try"
        /\ Behind("hostlines")' <=> Behind("hostlines") \/ op = "hostlines"
    BY <1>7, GoBehind
  <2>2. op # "tell"
    <3>1. step < n
      BY <1>7 DEF Go
    <3> QED BY <1>0, <1>3, <3>1
  <2> HIDE DEF op
  <2>3. Owned'
    BY <1>3, <1>4, <1>7, <2>1, <2>2 DEF Owned, Unowned, op
  <2>4. /\ Behind("connect")' \/ Behind("hostlines")' => link' = "up"
        /\ link' = "up" => Behind("connect")' \/ Behind("try")'
        /\ link' \in IF Behind("open")' THEN {"udp", "nosocket"} ELSE {"none", "failed", "up"}
    BY <1>3, <1>4, <2>1 DEF Linked, op
  <2>5. link' # "up" => in'["host"] = <<>>
    BY <1>5, <1>6 DEF Linked, op
  <2>6. told' = ""
    BY <2>2 DEF Linked, op
  <2> QED BY <1>2, <1>7, <2>3, <2>4, <2>5, <2>6 DEF Linked
<1>8. CASE pc' = "pipe" /\ step = n
  <2>1. \A i \in 1..n : i \in 1..step - 1 \/ i = n
    BY <1>0, <1>8
  <2>2. Behind("new") \/ op = "new"
    BY <1>1, <1>8, <2>1 DEF Ordered, Behind
  <2>3. service = "associate" => op = "tell" /\ (Behind("open") \/ op = "open")
    BY <1>1, <1>8, <2>1 DEF Ordered, Behind
  <2>4. service # "associate" =>
          Behind("connect") \/ Behind("hostlines") \/ op = "connect" \/ op = "hostlines"
    BY <1>1, <1>8, <2>1 DEF Ordered, Behind
  <2> HIDE DEF op
  <2>5. Owned'
    BY <1>3, <1>4, <1>8, <2>2, <2>3 DEF Owned, Unowned, op
  <2>6. link' \in IF service = "associate" THEN {"udp", "nosocket"} ELSE {"up"}
    BY <1>3, <1>4, <2>3, <2>4 DEF Linked, op
  <2>7. told' = "port 0" => service = "associate" /\ ~want
    BY DEF Linked, op
  <2> QED BY <1>2, <1>8, <2>5, <2>6, <2>7 DEF Linked
<1> QED BY <1>2, <1>7, <1>8

Handled == Placed /\ Owned /\ Linked

(* Only an association opens a port, only the others have a connection.    *)
LEMMA BehindService ==
  ASSUME Placed
  PROVE  /\ Behind("open") => service = "associate"
         /\ Behind("connect") \/ Behind("try") \/ Behind("hostlines") => service # "associate"
<1> DEFINE n == Len(Script)
<1>1. Ordered(Script) /\ step \in 1..n /\ n \in Nat
  BY ScriptOrdered DEF Placed, Ordered
<1>2. \A i \in 1..step - 1 : i \in 1..n
  <2> HIDE DEF n
  <2> QED BY <1>1, Positions
<1>3. ASSUME NEW i \in 1..step - 1
      PROVE  /\ Script[i] = "open" => service = "associate"
             /\ Script[i] \in {"connect", "try", "hostlines"} => service # "associate"
  BY <1>1, <1>2 DEF Ordered
<1> QED BY <1>3 DEF Behind

(* What neither moves the thread nor touches what it owns.                 *)
LEMMA Stays ==
  ASSUME Handled, UNCHANGED <<service, step, pc, ownVars, told, want, link>>,
         DOMAIN in' = Side, in'["host"] = in["host"] \/ link = "up"
  PROVE  Handled'
<1>1. Script' = Script /\ \A op : Behind(op)' <=> Behind(op)
  BY DEF Script, Behind
<1>2. Placed'
  BY <1>1 DEF Handled, Placed
<1>3. Owned'
  BY <1>1 DEF Handled, Owned, ownVars
<1>4. Linked'
  BY <1>1 DEF Handled, Linked
<1> QED BY <1>2, <1>3, <1>4 DEF Handled

(* An operation that fails.                                                *)
LEMMA Failed ==
  ASSUME Handled, pc = "script", Fail, told' \in {told, "no"}
  PROVE  Handled'
<1>1. Script' = Script
  BY DEF Fail, Script
<1>2. Placed'
  BY <1>1 DEF Handled, Placed, Fail, streamVars
<1>3. Owned'
  BY DEF Handled, Owned, Fail, Deleted, Unowned
<1>4. Linked'
  BY DEF Handled, Linked, Fail, udpVars
<1> QED BY <1>2, <1>3, <1>4 DEF Handled

(* The connection is closed.                                               *)
LEMMA Closed ==
  ASSUME Handled, pc = "pipe", ClosePipe, want' = want
  PROVE  Handled'
<1>1. Script' = Script
  BY DEF ClosePipe, Script
<1>2. Placed'
  BY <1>1 DEF Handled, Placed, ClosePipe, streamVars
<1>3. Owned'
  BY DEF Handled, Owned, ClosePipe, ownVars, Unowned
<1>4. Linked'
  BY DEF Handled, Linked, ClosePipe
<1> QED BY <1>2, <1>3, <1>4 DEF Handled

(* What is read of one side is no longer there.                            *)
LEMMA TakeSides ==
  ASSUME DOMAIN in = Side, NEW s \in Side, NEW x, in' = [in EXCEPT ![s] = x]
  PROVE  DOMAIN in' = Side /\ (s = "user" => in'["host"] = in["host"])
  BY DEF Side

(* Operations that only read, write or ask.                                *)
LEMMA GoQuiet ==
  ASSUME Handled, pc = "script", Go, UNCHANGED <<service, want, ownVars, told, link>>,
         Script[step] \notin {"new", "connect", "try", "open", "refuse", "tell"},
         Script[step] = "hostlines" => link = "up",
         DOMAIN in' = Side, in'["host"] = in["host"] \/ link = "up"
  PROVE  Handled'
<1>1. sock' = sock /\ ext' = ext /\ model' = model
  BY DEF ownVars
<1> QED BY <1>1, Advance DEF Handled
(* The telnet user enters another host: the thread is where it was before  *)
(* the name was read, and has its mysocket.                                *)
LEMMA AsksAgain == ASSUME Handled, AskAgain PROVE Handled'
<1> DEFINE n == Len(Script)
<1>1. Ordered(Script) /\ Script' = Script /\ step \in 1..n /\ n \in Nat
  BY ScriptOrdered DEF Handled, Placed, Ordered, AskAgain, Script
<1>2. Script[step] = "connect" /\ service = "telnet" /\ step' = step - 2 /\ pc = "script"
  BY DEF AskAgain, At
<1>3. step - 2 \in 1..n /\ \E j \in 1..step - 3 : Script[j] = "new"
  BY <1>1, <1>2 DEF Ordered
<1>4. \A j \in 1..step - 1 : Script[j] \notin {"connect", "try", "hostlines", "open"}
  BY <1>1, <1>2 DEF Ordered
<1>5. 1..step' - 1 = 1..step - 3 /\ 1..step - 3 \subseteq 1..step - 1
  <2>1. step \in Int
    <3> HIDE DEF n
    <3> QED BY <1>1
  <2>2. step' = step - 2
    BY <1>2
  <2>3. ASSUME NEW k \in Int, NEW m, m = k - 2
        PROVE  1..m - 1 = 1..k - 3 /\ 1..k - 3 \subseteq 1..k - 1
    BY <2>3
  <2> QED BY <2>1, <2>2, <2>3
<1>6. Behind("new")' /\ Behind("new")
  BY <1>1, <1>3, <1>5 DEF Behind
<1>7. /\ ~Behind("connect") /\ ~Behind("try") /\ ~Behind("hostlines") /\ ~Behind("open")
      /\ ~Behind("connect")' /\ ~Behind("try")' /\ ~Behind("hostlines")' /\ ~Behind("open")'
  BY <1>1, <1>4, <1>5 DEF Behind
<1>8. UNCHANGED <<service, pc, in, sock, ext, model, told, want>> /\ link' = "failed"
  BY DEF AskAgain, streamVars, ownVars, udpVars
<1>9. Placed'
  BY <1>1, <1>2, <1>3, <1>8 DEF Handled, Placed
<1>10. Owned'
  BY <1>2, <1>6, <1>7, <1>8 DEF Handled, Owned
<1>11. Linked'
  BY <1>2, <1>6, <1>7, <1>8 DEF Handled, Linked
<1> QED BY <1>9, <1>10, <1>11 DEF Handled

(* A line is there only if its side could send.                            *)
LEMMA LineThere == ASSUME NEW s \in Side, TakeLine(s) PROVE in[s] # <<>>
<1> SUFFICES ASSUME in[s] = <<>> PROVE FALSE
  OBVIOUS
<1>1. Len(in[s]) = 0
  BY DEF TakeLine
<1>2. LineEnds(s) = {}
  BY <1>1 DEF LineEnds
<1> QED BY <1>2 DEF TakeLine

LEMMA HandshakeHandled == ASSUME Handled, Handshake PROVE Handled'
<1> USE DEF At
<1>0. "user" \in Side /\ "host" \in Side /\ DOMAIN in = Side
  BY DEF Side, Handled, Placed
<1>1. CASE NewSocket
  <2>1. UNCHANGED <<want, told, link, in, model, service>> /\ pc = "script" /\ Go
    BY <1>1 DEF NewSocket, udpVars, streamVars
  <2>2. Script[step] = "new" /\ sock' = "live" /\
        (ext' = ext \/ (ext' = "stack" /\ service = "socks4"))
    BY <1>1 DEF NewSocket
  <2> QED BY <1>0, <2>1, <2>2, Advance DEF Handled
<1>2. CASE Send \/ Say \/ Passes \/ AskHost
  <2>1. UNCHANGED <<service, want, ownVars, told, link, in>> /\ pc = "script" /\ Go
    BY <1>2 DEF Send, Say, Passes, AskHost, udpVars, streamVars
  <2>2. Script[step] \in {"send", "say", "check", "local", "ask"}
    BY <1>2 DEF Send, Say, Passes, AskHost
  <2> QED BY <1>0, <2>1, <2>2, GoQuiet
<1>3. CASE Line \/ LastLine
  <2>1. UNCHANGED <<service, want, ownVars, told, link>> /\ pc = "script" /\ Go
    BY <1>3 DEF Line, LastLine, udpVars
  <2>2. Script[step] \in {"line", "lines"}
    BY <1>3 DEF Line, LastLine
  <2>3. DOMAIN in' = Side /\ in'["host"] = in["host"]
    BY <1>0, <1>3, TakeSides DEF Line, LastLine, TakeLine
  <2> QED BY <2>1, <2>2, <2>3, GoQuiet
<1>4. CASE OtherLine
  <2>1. UNCHANGED <<service, step, want, ownVars, told, link>> /\ pc = "script"
    BY <1>4 DEF OtherLine, udpVars
  <2>2. Script[step] = "lines"
    BY <1>4 DEF OtherLine
  <2>3. DOMAIN in' = Side /\ in'["host"] = in["host"]
    BY <1>0, <1>4, TakeSides DEF OtherLine, TakeLine
  <2>4. pc' = pc \/ (pc' = "end" /\ service = "pop3")
    BY <1>4 DEF OtherLine
  <2>5. CASE pc' = pc
    BY <2>1, <2>3, <2>5, Stays
  <2>6. CASE pc' = "end" /\ service = "pop3"
    <3>1. Script' = Script /\ ~Behind("open")
      BY <2>1, <2>6, BehindService DEF Script, Handled
    <3>2. Placed'
      BY <2>1, <2>3, <2>6, <3>1 DEF Handled, Placed
    <3>3. Owned'
      BY <2>1, <2>6, <3>1 DEF Handled, Owned, ownVars, Unowned
    <3>4. Linked'
      BY <2>1, <2>6 DEF Handled, Linked
    <3> QED BY <3>2, <3>3, <3>4 DEF Handled
  <2> QED BY <2>4, <2>5, <2>6
<1>5. ASSUME NEW k \in 1..Len(in["user"]), Recv(k) PROVE Handled'
  <2>1. UNCHANGED <<service, want, ownVars, told, link>> /\ pc = "script" /\ Go
    BY <1>5 DEF Recv, udpVars
  <2>2. Script[step] = "recv"
    BY <1>5 DEF Recv
  <2>3. DOMAIN in' = Side /\ in'["host"] = in["host"]
    BY <1>0, <1>5, TakeSides DEF Recv
  <2> QED BY <2>1, <2>2, <2>3, GoQuiet
<1>6. ASSUME NEW k \in 1..Len(in["user"]), Until(k) PROVE Handled'
  <2>1. UNCHANGED <<service, want, ownVars, told, link>> /\ pc = "script"
    BY <1>6 DEF Until, udpVars
  <2>2. Script[step] = "until"
    BY <1>6 DEF Until
  <2>3. DOMAIN in' = Side /\ in'["host"] = in["host"]
    BY <1>0, <1>6, TakeSides DEF Until
  <2>4. Go \/ UNCHANGED <<step, pc>>
    BY <1>6 DEF Until
  <2>5. CASE Go
    BY <2>1, <2>2, <2>3, <2>5, GoQuiet
  <2>6. CASE UNCHANGED <<step, pc>>
    BY <2>1, <2>3, <2>6, Stays
  <2> QED BY <2>4, <2>5, <2>6
<1>7. CASE \/ RecvFails \/ Refused \/ ConnectFails \/ AskFails \/ HostFails \/ ForwardFails
           \/ TellFails \/ SendFails
  <2>1. Fail /\ pc = "script" /\ told' \in {told, "no"}
    BY <1>7 DEF RecvFails, Waits, Refused, ConnectFails, AskFails, HostFails, ForwardFails,
                TellFails, SendFails
  <2> QED BY <2>1, Failed
<1>8. CASE Connect \/ TryFails
  <2>1. UNCHANGED <<want, told, sock, ext, model, in, service>> /\ pc = "script" /\ Go
    BY <1>8 DEF Connect, TryFails, udpVars, streamVars, ownVars
  <2>2. \/ Script[step] = "connect" /\ link' = "up"
        \/ Script[step] = "try" /\ link' \in {"up", "failed"}
    BY <1>8 DEF Connect, TryFails
  <2> QED BY <1>0, <2>1, <2>2, Advance DEF Handled
<1>9. CASE AskAgain
  BY <1>9, AsksAgain
<1>10. CASE HostLines
  <2>1. UNCHANGED <<service, want, ownVars, told, link>> /\ pc = "script" /\ Go
    BY <1>10 DEF HostLines, udpVars
  <2>2. Script[step] = "hostlines"
    BY <1>10 DEF HostLines
  <2>3. DOMAIN in' = Side
    BY <1>0, <1>10, TakeSides DEF HostLines, TakeLine
  <2>4. link = "up"
    BY <1>0, <1>10, <2>1, LineThere DEF HostLines, Handled, Linked
  <2> QED BY <2>1, <2>2, <2>3, <2>4, GoQuiet
<1>11. ASSUME NEW k \in 1..Len(in["host"]), Banner(k) PROVE Handled'
  <2>1. UNCHANGED <<service, want, ownVars, told, link>> /\ pc = "script" /\ Go
    BY <1>11 DEF Banner, udpVars
  <2>2. Script[step] = "banner"
    BY <1>11 DEF Banner
  <2>3. DOMAIN in' = Side
    BY <1>0, <1>11, TakeSides DEF Banner
  <2>4. link = "up"
    <3>1. in["host"] # <<>>
      OBVIOUS
    <3> QED BY <2>1, <3>1 DEF Handled, Linked
  <2> QED BY <2>1, <2>2, <2>3, <2>4, GoQuiet
<1>12. CASE Forward
  <2>1. UNCHANGED <<service, want, ownVars, told, link, in>> /\ pc = "script" /\ Go
    BY <1>12 DEF Forward, udpVars
  <2>2. Script[step] = "forward"
    BY <1>12 DEF Forward
  <2> QED BY <1>0, <2>1, <2>2, GoQuiet
<1>13. CASE Tell
  <2>1. UNCHANGED <<want, link, sock, ext, in, service>> /\ pc = "script" /\ Go
    BY <1>13 DEF Tell, udpVars, streamVars
  <2>2. /\ Script[step] = "tell"
        /\ told' = "ok" \/ (told' = "port 0" /\ service = "associate" /\ ~want)
        /\ model' = IF service = "associate" THEN "udp" ELSE model
    BY <1>13 DEF Tell
  <2> QED BY <1>0, <2>1, <2>2, Advance DEF Handled
<1>14. CASE Open
  <2>1. UNCHANGED <<want, told, sock, model, in, service>> /\ pc = "script" /\ Go
    BY <1>14 DEF Open, udpVars, streamVars
  <2>2. Script[step] = "open" /\ ext' = "heap" /\ link' \in {"udp", "nosocket"}
    BY <1>14 DEF Open
  <2> QED BY <1>0, <2>1, <2>2, Advance DEF Handled
<1> QED
  BY <1>1, <1>2, <1>3, <1>4, <1>5, <1>6, <1>7, <1>8, <1>9, <1>10, <1>11, <1>12, <1>13, <1>14
  DEF Handshake
LEMMA OutsideHandled == ASSUME Handled, Outside PROVE Handled'
<1>0. "user" \in Side /\ "host" \in Side /\ DOMAIN in = Side
  BY DEF Side, Handled, Placed
<1>1. ASSUME NEW s \in Side, NEW units, Sends(s, units), s = "host" => link = "up"
      PROVE  Handled'
  <2>1. UNCHANGED <<service, step, pc, ownVars, told, want, link>>
    BY <1>1 DEF Sends, udpVars
  <2>2. DOMAIN in' = Side /\ (s = "user" => in'["host"] = in["host"])
    BY <1>0, <1>1, TakeSides DEF Sends
  <2>3. s = "user" \/ s = "host"
    BY DEF Side
  <2> QED BY <1>1, <2>1, <2>2, <2>3, Stays
<1>2. ASSUME NEW s \in Side, Speaks(s) \/ Data(s) PROVE Handled'
  <2>1. s = "host" => link = "up"
    BY <1>2 DEF Speaks, Data
  <2>2. \/ Sends(s, Message(Len(sent[s])))
        \/ Sends(s, <<<<"data", Len(sent[s]) + 1>>>>)
    BY <1>2 DEF Speaks, Data
  <2> QED BY <1>1, <2>1, <2>2
<1>3. ASSUME NEW s \in Side, Shuts(s) PROVE Handled'
  <2>1. UNCHANGED <<service, step, pc, ownVars, told, want, link, in>>
    BY <1>3 DEF Shuts, udpVars
  <2> QED BY <1>0, <2>1, Stays
<1>4. ASSUME NEW g \in Gram, Datagram(g) PROVE Handled'
  <2>1. UNCHANGED <<service, step, pc, ownVars, told, want, link, in>>
    BY <1>4 DEF Datagram, streamVars
  <2> QED BY <1>0, <2>1, Stays
<1> QED BY <1>2, <1>3, <1>4 DEF Outside

LEMMA PipeHandled ==
  ASSUME Handled,
         \/ \E k \in 1..Len(in["user"]) : PassUp(k)
         \/ \E k \in 1..Len(in["host"]) : PassDown(k)
         \/ PipeEnds \/ UdpOut \/ UdpBack \/ UdpEnds
  PROVE  Handled'
<1>0. "user" \in Side /\ "host" \in Side /\ DOMAIN in = Side
  BY DEF Side, Handled, Placed
<1>1. ASSUME NEW k, PassUp(k) \/ PassDown(k) PROVE Handled'
  <2>1. UNCHANGED <<service, step, pc, ownVars, told, want, link>> /\ link = "up"
    BY <1>1 DEF PassUp, PassDown, Pass, StreamPipe, udpVars
  <2>2. DOMAIN in' = Side
    BY <1>0, <1>1, TakeSides DEF PassUp, PassDown, Pass
  <2> QED BY <2>1, <2>2, Stays
<1>2. CASE UdpOut \/ UdpBack
  <2>1. UNCHANGED <<service, step, pc, ownVars, told, want, link, in>>
    BY <1>2 DEF UdpOut, UdpBack, Carries, streamVars
  <2> QED BY <1>0, <2>1, Stays
<1>3. CASE PipeEnds \/ UdpEnds
  <2>1. ClosePipe /\ pc = "pipe" /\ want' = want
    BY <1>3 DEF PipeEnds, UdpEnds, StreamPipe, UdpPipe, Takes, udpVars
  <2> QED BY <2>1, Closed
<1> QED BY <1>1, <1>2, <1>3

LEMMA EndHandled == ASSUME Handled, End PROVE Handled'
<1>1. Script' = Script
  BY DEF End, Script
<1>2. Placed'
  BY <1>1 DEF Handled, Placed, End, streamVars
<1>3. sock' \in {"none", "freed"}
  BY DEF Handled, Owned, End
<1>4. ext' \in Unowned \cup {"dangling", "freed"}
  <2>1. CASE model # "udp"
    BY <2>1 DEF Handled, Owned, End, DeleteExt, Unowned
  <2>2. CASE model = "udp"
    BY <2>2 DEF Handled, Owned, End, DeleteExt, Unowned
  <2> QED BY <2>1, <2>2
<1>5. Owned'
  BY <1>3, <1>4 DEF Owned, End
<1>6. Linked'
  BY DEF Handled, Linked, End, udpVars
<1> QED BY <1>2, <1>5, <1>6 DEF Handled

LEMMA HandledStep == Handled /\ [Next]_vars => Handled'
<1> SUFFICES ASSUME Handled, [Next]_vars PROVE Handled'
  OBVIOUS
<1>1. CASE UNCHANGED vars
  <2>1. UNCHANGED <<service, step, pc, ownVars, told, want, link, in>> /\ DOMAIN in = Side
    BY <1>1 DEF vars, udpVars, streamVars, Handled, Placed
  <2> QED BY <2>1, Stays
<1>2. CASE Outside
  BY <1>2, OutsideHandled
<1>3. CASE Handshake
  BY <1>3, HandshakeHandled
<1>4. CASE \/ \E k \in 1..Len(in["user"]) : PassUp(k)
           \/ \E k \in 1..Len(in["host"]) : PassDown(k)
           \/ PipeEnds \/ UdpOut \/ UdpBack \/ UdpEnds
  BY <1>4, PipeHandled
<1>5. CASE End
  BY <1>5, EndHandled
<1>6. CASE Done
  BY <1>1, <1>6 DEF Done
<1> QED BY <1>1, <1>2, <1>3, <1>4, <1>5, <1>6 DEF Next, Thread

LEMMA SpecHandled == Spec => []Handled
<1>1. Init => Handled
  BY InitLinked DEF Handled
<1> QED BY <1>1, HandledStep, PTL DEF Spec

(* On every way out of a handshake or a connection, of every service: the  *)
(* host's mysocket is deleted exactly once and ext only when it is the     *)
(* socks_udp of an association (server_thread and the create_*_connect).   *)
THEOREM DeletedOnce == Spec => []FreedOnce
<1>1. Handled => FreedOnce
  <2> SUFFICES ASSUME Handled PROVE FreedOnce
    OBVIOUS
  <2>1. CASE pc = "script"
    BY <2>1 DEF Handled, Owned, FreedOnce, Unowned
  <2>2. CASE pc = "pipe"
    BY <2>2 DEF Handled, Owned, FreedOnce, Unowned
  <2>3. CASE pc = "end"
    BY <2>3 DEF Handled, Owned, FreedOnce, Unowned
  <2>4. CASE pc = "done"
    BY <2>4 DEF Handled, Owned, FreedOnce, Unowned
  <2> QED BY <2>1, <2>2, <2>3, <2>4 DEF Handled, Placed
<1> QED BY <1>1, SpecHandled, PTL

(* The user is told that the host was reached, and its bytes are passed    *)
(* on, only with a connection to it, or with an association's socket: the  *)
(* handshakes of socks.cpp and other.cpp, smtp's untested connect() too.   *)
THEOREM RepliesAreTrue == Spec => []ToldTruth
<1>1. Handled => ToldTruth
  BY DEF Handled, Linked, ToldTruth
<1> QED BY <1>1, SpecHandled, PTL
-----------------------------------------------------------------------------
(* The port that answers go to.                                            *)
Port ==
  /\ grams \in Seq(Gram) /\ taken \in Nat /\ taken <= Len(grams)
  /\ answers \in Seq({"user", "other"})
  /\ IF peer = "none" THEN Let = {} /\ answers = <<>>
     ELSE \E i \in Let : (\A j \in Let : i <= j) /\ peer = grams[i].from
  /\ \A n \in 1..Len(answers) : answers[n] = peer

(* A datagram that is taken: if the rules let it through and it is the     *)
(* user's, it is one more to count, and behind all the others.             *)
LEMMA TakesOne ==
  ASSUME Port, Takes, UNCHANGED grams
  PROVE  /\ NextGram \in Gram /\ taken' \in Nat /\ taken' <= Len(grams)
         /\ Let' = Let \cup (IF NextGram.from # "host" /\ NextGram.rules
                             THEN {taken + 1} ELSE {})
         /\ \A i \in Let : i <= taken
<1>1. taken < Len(grams) /\ taken' = taken + 1 /\ taken \in Nat /\ Len(grams) \in Nat
  BY DEF Takes, Port
<1>2. NextGram \in Gram
  BY <1>1 DEF NextGram, Port
<1>3. 1..taken' = (1..taken) \cup {taken + 1} /\ \A i \in 1..taken : i <= taken
  BY <1>1
<1>4. ASSUME NEW i PROVE i \in Let' <=> i \in Let \/ (i = taken + 1 /\ NextGram.from # "host"
                                                      /\ NextGram.rules)
  <2>1. i \in Let' <=> i \in 1..taken' /\ grams[i].from # "host" /\ grams[i].rules
    BY DEF Let
  <2>2. i \in Let <=> i \in 1..taken /\ grams[i].from # "host" /\ grams[i].rules
    BY DEF Let
  <2> QED BY <1>3, <2>1, <2>2 DEF NextGram
<1>5. \A i \in Let : i <= taken
  BY <1>3 DEF Let
<1> QED BY <1>1, <1>2, <1>4, <1>5

(* The datagram of a user that is let through fixes the port if none is.   *)
LEMMA LearnsPort ==
  ASSUME Port, Takes, UNCHANGED <<grams, answers>>, NextGram.from # "host", peer' = Learns
  PROVE  Port'
<1>1. /\ NextGram \in Gram /\ taken' \in Nat /\ taken' <= Len(grams)
      /\ Let' = Let \cup (IF NextGram.rules THEN {taken + 1} ELSE {})
      /\ \A i \in Let : i <= taken
  BY TakesOne
<1>2. NextGram.from \in {"user", "other"} /\ NextGram = grams[taken + 1] /\ taken \in Nat
  BY <1>1 DEF Gram, NextGram, Port
<1>3. CASE peer = "none" /\ NextGram.rules
  <2>1. Let' = {taken + 1} /\ peer' = NextGram.from /\ peer' # "none"
    BY <1>1, <1>2, <1>3 DEF Port, Learns
  <2>2. \E i \in Let' : (\A j \in Let' : i <= j) /\ peer' = grams'[i].from
    BY <1>2, <2>1
  <2>3. answers' = <<>>
    BY <1>3 DEF Port
  <2> QED BY <1>1, <2>1, <2>2, <2>3 DEF Port
<1>4. CASE peer = "none" /\ ~NextGram.rules
  <2>1. Let' = {} /\ peer' = "none" /\ answers' = <<>>
    BY <1>1, <1>4 DEF Port, Learns
  <2> QED BY <1>1, <2>1 DEF Port
<1>5. CASE peer # "none"
  <2>1. peer' = peer
    BY <1>5 DEF Learns
  <2>2. PICK i \in Let : (\A j \in Let : i <= j) /\ peer = grams[i].from
    BY <1>5 DEF Port
  <2>3. i \in Let' /\ \A j \in Let' : i <= j
    <3>1. i \in Int /\ i <= taken
      BY <1>1 DEF Let
    <3> QED BY <1>1, <1>2, <2>2, <3>1
  <2> QED BY <1>1, <1>5, <2>1, <2>2, <2>3 DEF Port
<1> QED BY <1>3, <1>4, <1>5

(* A datagram of a host leaves the port as it is.                          *)
LEMMA KeepsPort ==
  ASSUME Port, Takes, UNCHANGED <<grams, peer>>, NextGram.from = "host",
         answers' = answers \/ (peer # "none" /\ answers' = Append(answers, peer))
  PROVE  Port'
<1>1. taken' \in Nat /\ taken' <= Len(grams) /\ Let' = Let
  BY TakesOne
<1>2. peer # "none" => peer \in {"user", "other"}
  <2> SUFFICES ASSUME peer # "none" PROVE peer \in {"user", "other"}
    OBVIOUS
  <2>1. PICK i \in Let : peer = grams[i].from
    BY DEF Port
  <2>2. grams[i] \in Gram /\ grams[i].from # "host"
    BY DEF Let, Port
  <2> QED BY <2>1, <2>2 DEF Gram
<1>3. /\ answers' \in Seq({"user", "other"}) /\ (peer = "none" => answers' = <<>>)
      /\ \A n \in 1..Len(answers') : answers'[n] = peer
  <2>1. CASE answers' = answers
    BY <2>1 DEF Port
  <2>2. CASE peer # "none" /\ answers' = Append(answers, peer)
    BY <1>2, <2>2 DEF Port
  <2> QED BY <2>1, <2>2
<1> QED BY <1>1, <1>3 DEF Port

LEMMA PortStep == Port /\ [Next]_vars => Port'
<1> SUFFICES ASSUME Port, [Next]_vars PROVE Port'
  OBVIOUS
<1>1. CASE UNCHANGED <<grams, taken, peer, answers>>
  BY <1>1 DEF Port, Let
<1>2. CASE \E g \in Gram : Datagram(g)
  <2>1. PICK g \in Gram : grams' = Append(grams, g) /\ UNCHANGED <<taken, peer, answers>>
    BY <1>2 DEF Datagram
  <2>2. grams' \in Seq(Gram) /\ taken <= Len(grams') /\ \A i \in 1..taken : grams'[i] = grams[i]
    BY <2>1 DEF Port
  <2>3. Let' = Let
    BY <2>1, <2>2 DEF Let
  <2>4. Let \subseteq 1..taken
    BY DEF Let
  <2> QED BY <2>1, <2>2, <2>3, <2>4 DEF Port
<1>3. CASE UdpOut
  <2>1. /\ Takes /\ UNCHANGED <<grams, answers>> /\ NextGram.from # "host"
        /\ peer' = Learns
    BY <1>3 DEF UdpOut, Carries
  <2> QED BY <2>1, LearnsPort
<1>4. CASE UdpBack
  <2>1. /\ Takes /\ UNCHANGED <<grams, peer>> /\ NextGram.from = "host" /\ peer # "none"
        /\ answers' = Append(answers, peer)
    BY <1>4 DEF UdpBack, Carries
  <2> QED BY <2>1, KeepsPort
<1>5. CASE UdpEnds
  <2>1. \/ UNCHANGED udpVars
        \/ /\ Takes /\ UNCHANGED <<grams, answers>>
           /\ peer' = IF NextGram.from = "host" THEN peer ELSE Learns
    BY <1>5 DEF UdpEnds
  <2>2. CASE UNCHANGED udpVars
    BY <1>1, <2>2 DEF udpVars
  <2>3. CASE /\ Takes /\ UNCHANGED <<grams, answers>>
             /\ peer' = IF NextGram.from = "host" THEN peer ELSE Learns
    BY <2>3, KeepsPort, LearnsPort
  <2> QED BY <2>1, <2>2, <2>3
<1>6. CASE \E s \in Side : Speaks(s) \/ Data(s) \/ Shuts(s)
  <2>1. UNCHANGED udpVars
    BY <1>6 DEF Speaks, Data, Shuts, Sends
  <2> QED BY <1>1, <2>1 DEF udpVars
<1>7. CASE Handshake
  <2>1. UNCHANGED udpVars
    <3>1. CASE NewSocket \/ Send \/ SendFails \/ Say \/ Line \/ LastLine \/ OtherLine
      BY <3>1 DEF NewSocket, Send, SendFails, Say, Line, LastLine, OtherLine, Fail
    <3>2. CASE \E k \in 1..Len(in["user"]) : Recv(k) \/ Until(k)
      BY <3>2 DEF Recv, Until
    <3>3. CASE \/ RecvFails \/ Passes \/ Refused \/ Connect \/ TryFails \/ ConnectFails
               \/ AskAgain
      BY <3>3 DEF RecvFails, Passes, Refused, Connect, TryFails, ConnectFails, AskAgain, Fail
    <3>4. CASE \/ AskHost \/ AskFails \/ HostLines \/ HostFails \/ Forward \/ ForwardFails
               \/ Tell \/ TellFails \/ Open
      BY <3>4 DEF AskHost, AskFails, HostLines, HostFails, Forward, ForwardFails, Tell,
                  TellFails, Open, Fail
    <3>5. CASE \E k \in 1..Len(in["host"]) : Banner(k)
      BY <3>5 DEF Banner
    <3> QED BY <1>7, <3>1, <3>2, <3>3, <3>4, <3>5 DEF Handshake
  <2> QED BY <1>1, <2>1 DEF udpVars
<1>8. CASE \/ \E k \in 1..Len(in["user"]) : PassUp(k)
           \/ \E k \in 1..Len(in["host"]) : PassDown(k)
           \/ PipeEnds \/ End \/ Done \/ UNCHANGED vars
  <2>1. UNCHANGED udpVars
    BY <1>8 DEF PassUp, PassDown, Pass, PipeEnds, End, Done, vars
  <2> QED BY <1>1, <2>1 DEF udpVars
<1> QED
  BY <1>2, <1>3, <1>4, <1>5, <1>6, <1>7, <1>8 DEF Next, Outside, Thread

(* However many datagrams arrive from the address of the user and from the *)
(* hosts, and in whatever order: the answers go to where the first one the *)
(* rules let through came from (udp_unencode, udp_encode).                 *)
THEOREM AnswersToPeer == Spec => []UdpToPeer
<1>1. Init => Port
  <2> SUFFICES ASSUME Init PROVE Port
    OBVIOUS
  <2>1. grams = <<>> /\ taken = 0 /\ peer = "none" /\ answers = <<>>
    BY DEF Init
  <2>2. Let = {}
    <3>1. 1..taken = {}
      BY <2>1
    <3> QED BY <3>1 DEF Let
  <2> QED BY <2>1, <2>2 DEF Port
<1>2. Port => UdpToPeer
  BY DEF Port, UdpToPeer
<1> QED BY <1>1, <1>2, PortStep, PTL DEF Spec

-----------------------------------------------------------------------------
(* Parts of sequences.                                                     *)

LEMMA AfterOK ==
  ASSUME NEW S, NEW q \in Seq(S), NEW n \in 0..Len(q)
  PROVE  /\ After(q, n) \in Seq(S) /\ Len(After(q, n)) = Len(q) - n
         /\ \A i \in 1..Len(q) - n : After(q, n)[i] = q[n + i]
<1>1. Len(q) \in Nat /\ n \in Nat /\ n <= Len(q)
  OBVIOUS
<1> QED BY <1>1 DEF After

LEMMA BeforeOK ==
  ASSUME NEW S, NEW q \in Seq(S), NEW n \in 0..Len(q)
  PROVE  /\ Before(q, n) \in Seq(S) /\ Len(Before(q, n)) = n
         /\ \A i \in 1..n : Before(q, n)[i] = q[i]
<1>1. Len(q) \in Nat /\ n \in Nat /\ n <= Len(q)
  OBVIOUS
<1> QED BY <1>1 DEF Before

LEMMA ConcatOK ==
  ASSUME NEW S, NEW q \in Seq(S), NEW r \in Seq(S)
  PROVE  /\ q \o r \in Seq(S) /\ Len(q \o r) = Len(q) + Len(r)
         /\ \A i \in 1..Len(q) : (q \o r)[i] = q[i]
         /\ \A i \in 1..Len(r) : (q \o r)[Len(q) + i] = r[i]
OBVIOUS

LEMMA ConcatThree ==
  ASSUME NEW S, NEW q \in Seq(S), NEW r \in Seq(S), NEW t \in Seq(S)
  PROVE  (q \o r) \o t = q \o (r \o t)
OBVIOUS

LEMMA ConcatNone ==
  ASSUME NEW S, NEW q \in Seq(S)
  PROVE  <<>> \o q = q /\ q \o <<>> = q
OBVIOUS

LEMMA SameSeq ==
  ASSUME NEW S, NEW q \in Seq(S), NEW r \in Seq(S), Len(q) = Len(r),
         \A i \in 1..Len(q) : q[i] = r[i]
  PROVE  q = r
OBVIOUS

LEMMA AfterConcat ==
  ASSUME NEW S, NEW q \in Seq(S), NEW r \in Seq(S), NEW n \in 0..Len(q)
  PROVE  After(q \o r, n) = After(q, n) \o r
<1> DEFINE a == After(q \o r, n)
           b == After(q, n)
           L == Len(q)
<1>1. L \in Nat /\ n \in Nat /\ n <= L /\ Len(r) \in Nat
  OBVIOUS
<1>2. /\ q \o r \in Seq(S) /\ Len(q \o r) = L + Len(r)
      /\ \A i \in 1..L : (q \o r)[i] = q[i]
      /\ \A i \in 1..Len(r) : (q \o r)[L + i] = r[i]
  BY ConcatOK
<1>3. n \in 0..Len(q \o r)
  BY <1>1, <1>2
<1>4. /\ a \in Seq(S) /\ Len(a) = L + Len(r) - n
      /\ \A i \in 1..L + Len(r) - n : a[i] = (q \o r)[n + i]
  <2> DEFINE qr == q \o r
  <2>1. qr \in Seq(S) /\ n \in 0..Len(qr) /\ Len(qr) = L + Len(r)
    BY <1>2, <1>3
  <2> HIDE DEF qr
  <2>2. /\ After(qr, n) \in Seq(S) /\ Len(After(qr, n)) = Len(qr) - n
        /\ \A i \in 1..Len(qr) - n : After(qr, n)[i] = qr[n + i]
    BY <2>1, AfterOK
  <2> QED BY <2>1, <2>2 DEF qr
<1>5. b \in Seq(S) /\ Len(b) = L - n /\ \A i \in 1..L - n : b[i] = q[n + i]
  BY AfterOK
<1> HIDE DEF a, b, L
<1>6. /\ b \o r \in Seq(S) /\ Len(b \o r) = L - n + Len(r)
      /\ \A i \in 1..L - n : (b \o r)[i] = b[i]
      /\ \A i \in 1..Len(r) : (b \o r)[L - n + i] = r[i]
  <2>0. b \in Seq(S)
    BY <1>5
  <2>1. /\ b \o r \in Seq(S) /\ Len(b \o r) = Len(b) + Len(r)
        /\ \A i \in 1..Len(b) : (b \o r)[i] = b[i]
        /\ \A i \in 1..Len(r) : (b \o r)[Len(b) + i] = r[i]
    BY <2>0, ConcatOK
  <2> QED BY <1>5, <2>1
<1>7. ASSUME NEW i \in 1..L + Len(r) - n PROVE a[i] = (b \o r)[i]
  <2>1. CASE i <= L - n
    <3>1. i \in 1..L - n /\ n + i \in 1..L
      BY <1>1, <2>1
    <3> QED BY <1>2, <1>4, <1>5, <1>6, <3>1
  <2>2. CASE ~(i <= L - n)
    <3>1. PICK j \in 1..Len(r) : i = L - n + j /\ n + i = L + j
      <4>1. i - (L - n) \in 1..Len(r)
        BY <1>1, <2>2
      <4>2. i = L - n + (i - (L - n)) /\ n + i = L + (i - (L - n))
        BY <1>1
      <4> QED BY <4>1, <4>2
    <3>2. a[i] = (q \o r)[L + j]
      BY <1>4, <3>1
    <3> QED BY <1>2, <1>6, <3>1, <3>2
  <2> QED BY <2>1, <2>2
<1>8. Len(a) = Len(b \o r)
  BY <1>1, <1>4, <1>6
<1>9. a = b \o r
  BY <1>4, <1>6, <1>7, <1>8, SameSeq
<1> QED BY <1>9 DEF a, b

LEMMA AfterAfter ==
  ASSUME NEW S, NEW q \in Seq(S), NEW n \in 0..Len(q), NEW k \in 0..Len(q) - n
  PROVE  After(After(q, n), k) = After(q, n + k)
<1> DEFINE a == After(q, n)
           b == After(q, n + k)
           c == After(a, k)
<1>1. Len(q) \in Nat /\ n \in Nat /\ k \in Nat /\ n + k \in 0..Len(q)
  OBVIOUS
<1>2. a \in Seq(S) /\ Len(a) = Len(q) - n /\ \A i \in 1..Len(q) - n : a[i] = q[n + i]
  BY AfterOK
<1>3. b \in Seq(S) /\ Len(b) = Len(q) - (n + k)
      /\ \A i \in 1..Len(q) - (n + k) : b[i] = q[(n + k) + i]
  BY <1>1, AfterOK
<1> HIDE DEF a, b
<1>4. c \in Seq(S) /\ Len(c) = Len(a) - k /\ \A i \in 1..Len(a) - k : c[i] = a[k + i]
  <2>1. a \in Seq(S) /\ k \in 0..Len(a)
    BY <1>2
  <2> QED BY <2>1, AfterOK
<1> HIDE DEF c
<1>5. Len(c) = Len(b)
  BY <1>1, <1>2, <1>3, <1>4
<1>6. ASSUME NEW i \in 1..Len(c) PROVE c[i] = b[i]
  <2>1. i \in 1..Len(a) - k /\ k + i \in 1..Len(q) - n /\ i \in 1..Len(q) - (n + k)
    BY <1>1, <1>2, <1>4
  <2>2. n + (k + i) = (n + k) + i
    BY <1>1
  <2> QED BY <1>2, <1>3, <1>4, <2>1, <2>2
<1>7. c = b
  BY <1>3, <1>4, <1>5, <1>6, SameSeq
<1> QED BY <1>7 DEF a, b, c

LEMMA BeforeAfter ==
  ASSUME NEW S, NEW q \in Seq(S), NEW n \in 0..Len(q)
  PROVE  Before(q, n) \o After(q, n) = q
<1> DEFINE a == Before(q, n)
           b == After(q, n)
<1>1. Len(q) \in Nat /\ n \in Nat /\ n <= Len(q)
  OBVIOUS
<1>2. a \in Seq(S) /\ Len(a) = n /\ \A i \in 1..n : a[i] = q[i]
  BY BeforeOK
<1>3. b \in Seq(S) /\ Len(b) = Len(q) - n /\ \A i \in 1..Len(q) - n : b[i] = q[n + i]
  BY AfterOK
<1> HIDE DEF a, b
<1>4. /\ a \o b \in Seq(S) /\ Len(a \o b) = Len(a) + Len(b)
      /\ \A i \in 1..Len(a) : (a \o b)[i] = a[i]
      /\ \A i \in 1..Len(b) : (a \o b)[Len(a) + i] = b[i]
  BY <1>2, <1>3, ConcatOK
<1>5. ASSUME NEW i \in 1..Len(q) PROVE (a \o b)[i] = q[i]
  <2>1. CASE i <= n
    <3>1. i \in 1..n
      BY <2>1
    <3> QED BY <1>2, <1>4, <3>1
  <2>2. CASE ~(i <= n)
    <3>1. PICK j \in 1..Len(q) - n : i = n + j
      <4>1. i - n \in 1..Len(q) - n /\ i = n + (i - n)
        BY <1>1, <2>2
      <4> QED BY <4>1
    <3> QED BY <1>2, <1>3, <1>4, <3>1
  <2> QED BY <2>1, <2>2
<1>6. Len(a \o b) = Len(q)
  BY <1>1, <1>2, <1>3, <1>4
<1>7. a \o b = q
  BY <1>4, <1>5, <1>6, SameSeq
<1> QED BY <1>7 DEF a, b

LEMMA BeforeAll ==
  ASSUME NEW S, NEW q \in Seq(S)
  PROVE  Before(q, Len(q)) = q
<1>1. Len(q) \in 0..Len(q)
  OBVIOUS
<1>2. /\ Before(q, Len(q)) \in Seq(S) /\ Len(Before(q, Len(q))) = Len(q)
      /\ \A i \in 1..Len(q) : Before(q, Len(q))[i] = q[i]
  BY <1>1, BeforeOK
<1> QED BY <1>2

(* What is taken from one end and put to the other is not lost.            *)
LEMMA PassedOn ==
  ASSUME NEW S, NEW q \in Seq(S), NEW r \in Seq(S), NEW n \in 0..Len(r)
  PROVE  (q \o Before(r, n)) \o After(r, n) = q \o r
<1>1. PICK b \in Seq(S), a \in Seq(S) : b = Before(r, n) /\ a = After(r, n)
  BY BeforeOK, AfterOK
<1>2. b \o a = r
  BY <1>1, BeforeAfter
<1>3. (q \o b) \o a = q \o (b \o a)
  BY ConcatThree
<1> QED BY <1>1, <1>2, <1>3

-----------------------------------------------------------------------------
(* What the script does when an operation is done.                         *)
LEMMA Moves ==
  ASSUME Placed, pc = "script", Go, service' = service, NEW op, op = Script[step]
  PROVE  /\ pc' = "pipe" => step' = Len(Script') /\ (service = "bind" => op = "refuse")
                            /\ (Whole => op = "forward")
         /\ pc' \in {"script", "pipe"}
         /\ Spoken => /\ Left' = Left - IF op \in {"recv", "until"} THEN 1 ELSE 0
                      /\ Reading' <=> op \in {"send", "say"}
                      /\ Reading <=> op \in {"recv", "until"}
         /\ HostHeard' = HostHeard + IF op \in {"hostlines", "banner"} THEN 1 ELSE 0
         /\ service = "smtp" => IF op = "lines" THEN step = 3 /\ step' = 4
                                ELSE step' <= 3 <=> step <= 3
         /\ service = "pop3" => IF op = "lines" THEN step = 2 /\ step' = 3
                                ELSE step' <= 2 <=> step <= 2
         /\ service = "smtpfree" => IF op = "lines" THEN step = 3 /\ step' = 4
                                    ELSE IF op = "line" THEN step = 5 /\ step' = 6
                                    ELSE (step' <= 3 <=> step <= 3) /\ (step' <= 5 <=> step <= 5)
         /\ service = "pop3" /\ pc' = "script" => op # "ask"
         /\ service = "mms" => /\ op = "recv" => step = 2 /\ step' = 3
                               /\ step' <= 2 => step <= 2
         /\ service = "telnet" => /\ op = "until" => step' = 4
                                  /\ op \notin {"send", "say"} => (step' <= 2 => step <= 2)
         /\ op = "forward" => Whole /\ pc' = "pipe"
         /\ op = "recv" => service \in {"socks4", "connect", "login", "bind", "associate", "mms"}
         /\ op = "until" => service \in {"telnet", "rtsp"}
         /\ op \in {"line", "lines"} => Lined
         /\ op = "line" => service = "smtpfree"
         /\ op = "hostlines" => service \in {"smtp", "smtpfree"}
         /\ op = "banner" => service = "pop3" /\ pc' = "script"
<1> USE DEF Placed, Go, Script, Spoken, Lined, Whole, Left, HostHeard, Reading
<1>1. CASE service = "socks4"
  BY <1>1 DEF Socks4
<1>2. CASE service = "connect"
  BY <1>2 DEF Connect5
<1>3. CASE service = "login"
  BY <1>3 DEF Login5
<1>4. CASE service = "bind"
  BY <1>4 DEF Bind5
<1>5. CASE service = "associate"
  BY <1>5 DEF Associate
<1>6. CASE service = "smtp"
  BY <1>6 DEF Smtp
<1>7. CASE service = "smtpfree"
  BY <1>7 DEF SmtpFree
<1>8. CASE service = "pop3"
  BY <1>8 DEF Pop3
<1>9. CASE service = "telnet"
  BY <1>9 DEF Telnet
<1>10. CASE service = "mms"
  BY <1>10 DEF Mms
<1>11. CASE service = "rtsp"
  BY <1>11 DEF Rtsp
<1>12. CASE service = "redirect"
  BY <1>12 DEF Redirect
<1> QED
  BY <1>1, <1>2, <1>3, <1>4, <1>5, <1>6, <1>7, <1>8, <1>9, <1>10, <1>11, <1>12 DEF Service

(* The services that have an operation.                                    *)
LEMMA Operations ==
  ASSUME Placed, NEW op, op = Script[step]
  PROVE  /\ op = "until" => service \in {"telnet", "rtsp"}
         /\ op = "lines" => /\ service = "pop3" => step = 2
                            /\ service \in {"smtp", "smtpfree"} => step = 3
                            /\ Lined
         /\ service = "telnet" /\ op = "connect" => step = 5
         /\ service = "pop3" /\ op = "banner" => step = 7
<1> USE DEF Placed, Script, Lined
<1>1. CASE service = "socks4"
  BY <1>1 DEF Socks4
<1>2. CASE service = "connect"
  BY <1>2 DEF Connect5
<1>3. CASE service = "login"
  BY <1>3 DEF Login5
<1>4. CASE service = "bind"
  BY <1>4 DEF Bind5
<1>5. CASE service = "associate"
  BY <1>5 DEF Associate
<1>6. CASE service = "smtp"
  BY <1>6 DEF Smtp
<1>7. CASE service = "smtpfree"
  BY <1>7 DEF SmtpFree
<1>8. CASE service = "pop3"
  BY <1>8 DEF Pop3
<1>9. CASE service = "telnet"
  BY <1>9 DEF Telnet
<1>10. CASE service = "mms"
  BY <1>10 DEF Mms
<1>11. CASE service = "rtsp"
  BY <1>11 DEF Rtsp
<1>12. CASE service = "redirect"
  BY <1>12 DEF Redirect
<1> QED
  BY <1>1, <1>2, <1>3, <1>4, <1>5, <1>6, <1>7, <1>8, <1>9, <1>10, <1>11, <1>12 DEF Service

-----------------------------------------------------------------------------
(* The messages that a side has sent.                                      *)
LEMMA MessagesOK ==
  ASSUME Streams, NEW s \in Side
  PROVE  /\ sent[s] \in Seq(Unit) /\ in[s] \in Seq(Unit) /\ out[s] \in Seq(Unit)
         /\ Len(sent[s]) \in Nat
         /\ IsFiniteSet(Ends(s)) /\ Messages(s) = Cardinality(Ends(s)) /\ Messages(s) \in Nat
<1>1. sent[s] \in Seq(Unit) /\ in[s] \in Seq(Unit) /\ out[s] \in Seq(Unit)
  BY DEF Streams
<1>2. IsFiniteSet(1..Len(sent[s])) /\ Ends(s) \subseteq 1..Len(sent[s]) /\ Len(sent[s]) \in Nat
  BY <1>1, FS_Interval DEF Ends
<1>3. IsFiniteSet(Ends(s))
  BY <1>2, FS_Subset
<1> QED BY <1>1, <1>2, <1>3, FS_CardinalityType DEF Messages, Ends

LEMMA SpelledStays ==
  ASSUME NEW s, NEW n, sent'[s] = sent[s]
  PROVE  Messages(s)' = Messages(s) /\ (Spelled(s, n) => Spelled(s, n)')
BY DEF Messages, Spelled, Shaped

(* What is sent behind q.                                                  *)
LEMMA SentBehind ==
  ASSUME Streams, NEW s \in Side, NEW u \in Seq(Unit), sent'[s] = sent[s] \o u
  PROVE  /\ Len(sent'[s]) = Len(sent[s]) + Len(u)
         /\ \A i \in 1..Len(sent[s]) : sent'[s][i] = sent[s][i]
         /\ \A i \in 1..Len(u) : sent'[s][Len(sent[s]) + i] = u[i]
BY MessagesOK, ConcatOK

LEMMA MessageSent ==
  ASSUME Streams, NEW s \in Side, NEW n \in Nat, Spelled(s, n), Messages(s) < n,
         sent'[s] = sent[s] \o Message(Len(sent[s]))
  PROVE  /\ Spelled(s, n)' /\ Messages(s)' = Messages(s) + 1
         /\ Len(sent[s]) = 2 * Messages(s) /\ Len(sent'[s]) = 2 * Messages(s) + 2
<1> DEFINE u == Message(Len(sent[s]))
<1>1. PICK m \in Nat, l \in Nat : m = Messages(s) /\ l = Len(sent[s]) /\ l = 2 * m
  BY MessagesOK DEF Spelled, Shaped
<1>2. u \in Seq(Unit) /\ Len(u) = 2 /\ ~IsEnd(u[1]) /\ IsEnd(u[2])
  BY <1>1 DEF Message, Unit, IsEnd
<1> HIDE DEF u
<1>3. /\ Len(sent'[s]) = l + 2
      /\ \A i \in 1..l : sent'[s][i] = sent[s][i]
      /\ ~IsEnd(sent'[s][l + 1]) /\ IsEnd(sent'[s][l + 2])
  <2>1. /\ Len(sent'[s]) = Len(sent[s]) + Len(u)
        /\ \A i \in 1..Len(sent[s]) : sent'[s][i] = sent[s][i]
        /\ \A i \in 1..Len(u) : sent'[s][Len(sent[s]) + i] = u[i]
    <3>1. sent'[s] = sent[s] \o u
      BY DEF u
    <3> QED BY <1>2, <3>1, SentBehind
  <2>2. sent'[s][l + 1] = u[1] /\ sent'[s][l + 2] = u[2]
    <3>1. 1 \in 1..Len(u) /\ 2 \in 1..Len(u)
      BY <1>2
    <3> QED BY <1>1, <2>1, <3>1
  <2>3. Len(sent'[s]) = l + 2 /\ \A i \in 1..l : sent'[s][i] = sent[s][i]
    BY <1>1, <1>2, <2>1
  <2> QED BY <1>2, <2>2, <2>3 DEF IsEnd
<1>4. Ends(s)' = Ends(s) \cup {l + 2}
  <2>1. \A i \in 1..l + 2 : i \in 1..l \/ i = l + 1 \/ i = l + 2
    BY <1>1
  <2>2. Ends(s)' = {i \in 1..l + 2 : IsEnd(sent'[s][i])}
    BY <1>3 DEF Ends
  <2>3. Ends(s) = {i \in 1..l : IsEnd(sent[s][i])}
    BY <1>1 DEF Ends
  <2>4. 1..l \subseteq 1..l + 2 /\ l + 2 \in 1..l + 2
    BY <1>1
  <2> QED BY <1>3, <2>1, <2>2, <2>3, <2>4 DEF IsEnd
<1>5. Messages(s)' = m + 1
  <2>1. l + 2 \notin Ends(s)
    BY <1>1 DEF Ends
  <2>2. Messages(s)' = Cardinality(Ends(s)')
    BY DEF Messages, Ends
  <2>3. IsFiniteSet(Ends(s)) /\ Cardinality(Ends(s)) = m
    BY <1>1, MessagesOK
  <2> QED BY <1>4, <2>1, <2>2, <2>3, FS_AddElement
<1>6. ASSUME NEW j \in 1..m + 1
      PROVE  ~IsEnd(sent'[s][2 * j - 1]) /\ IsEnd(sent'[s][2 * j])
  <2>1. CASE j = m + 1
    <3>1. 2 * j - 1 = l + 1 /\ 2 * j = l + 2
      BY <1>1, <2>1
    <3> QED BY <1>3, <3>1
  <2>2. CASE j # m + 1
    <3>1. j \in 1..m /\ 2 * j - 1 \in 1..l /\ 2 * j \in 1..l
      BY <1>1, <2>2
    <3>2. ~IsEnd(sent[s][2 * j - 1]) /\ IsEnd(sent[s][2 * j])
      BY <1>1, <3>1 DEF Spelled, Shaped
    <3>3. sent'[s][2 * j - 1] = sent[s][2 * j - 1] /\ sent'[s][2 * j] = sent[s][2 * j]
      BY <1>3, <3>1
    <3> QED BY <3>2, <3>3 DEF IsEnd
  <2> QED BY <2>1, <2>2
<1>7. 2 * (m + 1) = l + 2 /\ m + 1 <= n /\ l + 2 + 1 > l + 2
  BY <1>1
<1>8. Shaped(s)'
  <2>1. 2 * Messages(s)' = l + 2
    BY <1>5, <1>7
  <2>0. Len(sent'[s]) = l + 2 /\ l + 2 <= l + 2 /\ l \in Int
    BY <1>3
  <2>2. \A i \in 2 * Messages(s)' + 1..Len(sent'[s]) : FALSE
    BY <2>0, <2>1
  <2>3. 2 * Messages(s)' <= Len(sent'[s])
    BY <2>0, <2>1
  <2>4. \A j \in 1..Messages(s)' : ~IsEnd(sent'[s][2 * j - 1]) /\ IsEnd(sent'[s][2 * j])
    BY <1>5, <1>6
  <2> QED BY <2>2, <2>3, <2>4 DEF Shaped
<1>9. Spelled(s, n)'
  <2>1. Messages(s)' <= n
    BY <1>5, <1>7
  <2>2. 2 * Messages(s)' = l + 2 /\ Len(sent'[s]) = l + 2 /\ ~(l + 2 > l + 2)
    BY <1>3, <1>5, <1>7
  <2>3. ~(Len(sent'[s]) > 2 * Messages(s)')
    BY <2>2
  <2> QED BY <1>8, <2>1, <2>3 DEF Spelled
<1> QED BY <1>1, <1>3, <1>5, <1>9

LEMMA DataSent ==
  ASSUME Streams, NEW s \in Side, NEW n \in Nat, Spelled(s, n), Messages(s) = n,
         sent'[s] = sent[s] \o <<<<"data", Len(sent[s]) + 1>>>>
  PROVE  Spelled(s, n)' /\ Messages(s)' = n
<1> DEFINE u == <<<<"data", Len(sent[s]) + 1>>>>
<1>1. PICK l \in Nat : l = Len(sent[s]) /\ 2 * n <= l
  BY MessagesOK DEF Spelled, Shaped
<1>2. u \in Seq(Unit) /\ Len(u) = 1 /\ ~IsEnd(u[1])
  BY <1>1 DEF Unit, IsEnd
<1> HIDE DEF u
<1>3. /\ Len(sent'[s]) = l + 1 /\ ~IsEnd(sent'[s][l + 1])
      /\ \A i \in 1..l : sent'[s][i] = sent[s][i]
  <2>1. /\ Len(sent'[s]) = Len(sent[s]) + Len(u)
        /\ \A i \in 1..Len(sent[s]) : sent'[s][i] = sent[s][i]
        /\ \A i \in 1..Len(u) : sent'[s][Len(sent[s]) + i] = u[i]
    <3>1. sent'[s] = sent[s] \o u
      BY DEF u
    <3> QED BY <1>2, <3>1, SentBehind
  <2>2. sent'[s][l + 1] = u[1]
    BY <1>1, <1>2, <2>1
  <2>3. Len(sent'[s]) = l + 1 /\ \A i \in 1..l : sent'[s][i] = sent[s][i]
    BY <1>1, <1>2, <2>1
  <2> QED BY <1>2, <2>2, <2>3 DEF IsEnd
<1>4. \A i \in 1..l + 1 : i \in 1..l \/ i = l + 1
  BY <1>1
<1>5. Messages(s)' = n
  <2>1. Ends(s)' = {i \in 1..l + 1 : IsEnd(sent'[s][i])}
    BY <1>3 DEF Ends
  <2>2. Ends(s) = {i \in 1..l : IsEnd(sent[s][i])} /\ 1..l \subseteq 1..l + 1
    BY <1>1 DEF Ends
  <2>3. Ends(s)' = Ends(s)
    BY <1>3, <1>4, <2>1, <2>2 DEF IsEnd
  <2>4. Messages(s)' = Cardinality(Ends(s)') /\ Messages(s) = Cardinality(Ends(s))
    BY DEF Messages, Ends
  <2> QED BY <2>3, <2>4
<1>6. ASSUME NEW j \in 1..n
      PROVE  ~IsEnd(sent'[s][2 * j - 1]) /\ IsEnd(sent'[s][2 * j])
  <2>1. 2 * j - 1 \in 1..l /\ 2 * j \in 1..l
    BY <1>1
  <2>2. ~IsEnd(sent[s][2 * j - 1]) /\ IsEnd(sent[s][2 * j])
    BY DEF Spelled, Shaped
  <2> QED BY <1>3, <2>1, <2>2 DEF IsEnd
<1>7. ASSUME NEW i \in 2 * n + 1..l + 1 PROVE ~IsEnd(sent'[s][i])
  <2>1. i \in 1..l + 1
    BY <1>1
  <2>2. CASE i = l + 1
    BY <1>3, <2>2
  <2>3. CASE i # l + 1
    <3>1. i \in 1..l /\ i \in 2 * Messages(s) + 1..Len(sent[s])
      BY <1>1, <2>1, <2>3
    <3>2. ~IsEnd(sent[s][i])
      BY <3>1 DEF Spelled, Shaped
    <3> QED BY <1>3, <3>1, <3>2 DEF IsEnd
  <2> QED BY <2>2, <2>3
<1>8. Shaped(s)'
  <2>1. 2 * Messages(s)' <= Len(sent'[s])
    BY <1>1, <1>3, <1>5
  <2>2. \A j \in 1..Messages(s)' : ~IsEnd(sent'[s][2 * j - 1]) /\ IsEnd(sent'[s][2 * j])
    BY <1>5, <1>6
  <2>3. \A i \in 2 * Messages(s)' + 1..Len(sent'[s]) : ~IsEnd(sent'[s][i])
    BY <1>3, <1>5, <1>7
  <2> QED BY <2>1, <2>2, <2>3 DEF Shaped
<1> QED BY <1>5, <1>8 DEF Spelled

(* The first end behind h messages is the second unit there.               *)
LEMMA NextEnd ==
  ASSUME Streams, NEW s \in Side, NEW n \in Nat, Spelled(s, n), NEW h \in Nat,
         2 * h <= Len(sent[s]), NEW i \in Nat, 1 <= i, 2 * h + i <= Len(sent[s]),
         IsEnd(sent[s][2 * h + i])
  PROVE  /\ h < Messages(s) /\ 2 * h + 2 <= Len(sent[s]) /\ i >= 2
         /\ IsEnd(sent[s][2 * h + 2])
<1>1. PICK m \in Nat, l \in Nat : m = Messages(s) /\ l = Len(sent[s]) /\ 2 * m <= l
  BY MessagesOK DEF Spelled, Shaped
<1>2. h < m
  <2>1. SUFFICES ASSUME m <= h PROVE FALSE
    BY <1>1
  <2>2. 2 * h + i \in 2 * m + 1..l
    BY <1>1, <2>1
  <2> QED BY <1>1, <2>2 DEF Spelled, Shaped
<1>3. h + 1 \in 1..m /\ 2 * (h + 1) - 1 = 2 * h + 1 /\ 2 * (h + 1) = 2 * h + 2
  BY <1>1, <1>2
<1>4. ~IsEnd(sent[s][2 * h + 1]) /\ IsEnd(sent[s][2 * h + 2])
  <2>1. ~IsEnd(sent[s][2 * (h + 1) - 1]) /\ IsEnd(sent[s][2 * (h + 1)])
    BY <1>1, <1>3 DEF Spelled, Shaped
  <2> QED BY <1>3, <2>1
<1>5. i # 1
  BY <1>4
<1>6. 2 * h + 2 <= l
  BY <1>1, <1>2
<1> QED BY <1>1, <1>2, <1>4, <1>5, <1>6

LEMMA LastEndOK ==
  ASSUME Streams, NEW s \in Side, Shaped(s)
  PROVE  LastEnd(s) = 2 * Messages(s)
<1>1. PICK m \in Nat, l \in Nat : m = Messages(s) /\ l = Len(sent[s]) /\ 2 * m <= l
  BY MessagesOK DEF Shaped
<1>2. Ends(s) \subseteq 1..l /\ \A j \in Ends(s) : j <= 2 * m
  <2>1. ASSUME NEW j \in Ends(s) PROVE j \in 1..l /\ j <= 2 * m
    <3>1. j \in 1..l /\ IsEnd(sent[s][j])
      BY <1>1, <2>1 DEF Ends
    <3>2. ~(j \in 2 * m + 1..l)
      BY <1>1, <3>1 DEF Shaped
    <3> QED BY <1>1, <3>1, <3>2
  <2> QED BY <2>1
<1>3. 2 * m \in Ends(s) \cup {0}
  <2>1. CASE m = 0
    BY <2>1
  <2>2. CASE m # 0
    <3>1. m \in 1..m /\ 2 * m \in 1..l
      BY <1>1, <2>2
    <3>2. IsEnd(sent[s][2 * m])
      BY <1>1, <3>1 DEF Shaped
    <3> QED BY <1>1, <3>1, <3>2 DEF Ends
  <2> QED BY <2>1, <2>2
<1>4. ASSUME NEW i \in Ends(s) \cup {0}, \A j \in Ends(s) : j <= i PROVE i = 2 * m
  <2>1. i \in Nat /\ i <= 2 * m
    BY <1>1, <1>2
  <2>2. 2 * m <= i
    BY <1>1, <1>3, <1>4, <2>1
  <2> QED BY <1>1, <2>1, <2>2
<1>5. LastEnd(s) \in Ends(s) \cup {0} /\ \A j \in Ends(s) : j <= LastEnd(s)
  BY <1>2, <1>3 DEF LastEnd
<1> QED BY <1>1, <1>4, <1>5

-----------------------------------------------------------------------------
(* Steps that leave one direction alone.                                   *)
LEMMA UserStays ==
  ASSUME UserCarried, Streams, UNCHANGED <<service, plan, patient, heard, read>>,
         sent'["user"] = sent["user"], in'["user"] = in["user"], out'["host"] = out["host"],
         asked'["user"] \in Nat, asked'["user"] >= asked["user"],
         pc' = "script" => pc = "script", Whole /\ pc' = "pipe" => pc = "pipe", Heard' = Heard,
         service = "telnet" /\ Reading' => Reading \/ read = <<>>,
         service \in {"mms", "telnet"} /\ pc' = "script" /\ step' <= 2 => step <= 2
  PROVE  UserCarried'
<1>1. /\ Spoken' = Spoken /\ Lined' = Lined /\ Whole' = Whole
      /\ Messages("user")' = Messages("user")
  BY DEF Spoken, Lined, Whole, Messages
<1>2. Spelled("user", plan) => Spelled("user", plan)'
  BY <1>1 DEF Spelled, Shaped
<1>3. (Spoken /\ patient) \/ Lined =>
        /\ Spelled("user", plan)'
        /\ Heard' <= Len(sent'["user"])
        /\ out'["host"] \o in'["user"] = After(sent'["user"], Heard')
  BY <1>2 DEF UserCarried
<1>4. ASSUME Spoken, patient, pc' = "script"
      PROVE  /\ Len(sent'["user"]) = 2 * Messages("user")' /\ Messages("user")' <= asked'["user"]
             /\ service = "telnet" /\ Reading' => \A i \in 1..Len(read) : ~IsEnd(read[i])
  <2>1. Len(sent["user"]) = 2 * Messages("user") /\ Messages("user") <= asked["user"]
    BY <1>4 DEF UserCarried
  <2>2. Messages("user") \in Nat /\ asked["user"] \in Nat
    BY MessagesOK DEF Streams, Side
  <2>3. Messages("user")' <= asked'["user"]
    BY <1>1, <2>1, <2>2
  <2>4. ASSUME service = "telnet", Reading', NEW i \in 1..Len(read) PROVE ~IsEnd(read[i])
    <3>1. CASE Reading
      BY <1>4, <2>4, <3>1 DEF UserCarried
    <3>2. CASE read = <<>>
      BY <2>4, <3>2
    <3> QED BY <2>4, <3>1, <3>2
  <2> QED BY <1>1, <2>1, <2>3, <2>4
<1>5. Whole /\ pc' = "script" => sent'["user"] = read \o in'["user"]
  BY DEF UserCarried
<1>6. service \in {"mms", "telnet"} /\ pc' = "script" /\ step' <= 2 => read = <<>>
  BY DEF UserCarried
<1>7. Whole /\ pc' = "pipe" => sent'["user"] = out'["host"] \o in'["user"]
  BY DEF UserCarried
<1> QED BY <1>1, <1>3, <1>4, <1>5, <1>6, <1>7 DEF UserCarried, IsEnd

LEMMA HostStays ==
  ASSUME HostCarried, service' = service, sent'["host"] = sent["host"],
         in'["host"] = in["host"], out'["user"] = out["user"], HostHeard' = HostHeard,
         pc' = "script" => pc = "script"
  PROVE  HostCarried'
<1>1. HostPlan' = HostPlan /\ Messages("host")' = Messages("host")
  BY DEF HostPlan, Messages
<1>2. Spelled("host", HostPlan)'
  BY <1>1 DEF HostCarried, Spelled, Shaped
<1>3. out'["user"] \o in'["host"] = After(sent'["host"], 2 * HostHeard')
  BY DEF HostCarried
<1> QED BY <1>1, <1>2, <1>3 DEF HostCarried

(* In a handshake, what is not read is what is behind the messages heard.  *)
LEMMA Unread ==
  ASSUME Streams, pc = "script"
  PROVE  /\ UserCarried /\ ((Spoken /\ patient) \/ Lined) =>
              in["user"] = After(sent["user"], Heard)
         /\ HostCarried => in["host"] = After(sent["host"], 2 * HostHeard)
<1>1. /\ in["user"] \in Seq(Unit) /\ in["host"] \in Seq(Unit)
      /\ out["user"] = <<>> /\ out["host"] = <<>>
  BY DEF Streams, Side
<1>2. <<>> \o in["user"] = in["user"] /\ <<>> \o in["host"] = in["host"]
  BY <1>1, ConcatNone
<1> QED BY <1>1, <1>2 DEF UserCarried, HostCarried

(* An operation that neither reads nor passes on.                          *)
LEMMA NeutralStep ==
  ASSUME Placed, Carried, pc = "script", Go,
         UNCHANGED <<service, sent, in, out, plan, patient, read, lately, heard>>,
         NEW op, op = Script[step], asked' \in [Side -> Nat],
         op \notin {"recv", "until", "line", "lines", "hostlines", "banner", "forward", "refuse"},
         asked'["user"] = asked["user"] + IF op \in {"send", "say"} THEN 1 ELSE 0,
         op # "ask" => asked'["host"] = asked["host"]
  PROVE  Carried'
<1>1. Streams /\ Counts /\ UserCarried /\ HostCarried
  BY DEF Carried
<1>2. "user" \in Side /\ "host" \in Side /\ asked["user"] \in Nat /\ heard \in Nat /\ plan \in Nat
  BY <1>1 DEF Streams, Side
<1>3. Streams'
  BY <1>1, Moves DEF Streams
<1>4. Counts'
  <2>1. Spoken' = Spoken
    BY DEF Spoken
  <2>2. Spoken => plan' = heard' + Left' /\ asked'["user"] = heard' + IF Reading' THEN 1 ELSE 0
    <3> SUFFICES ASSUME Spoken
                 PROVE  /\ plan' = heard' + Left'
                        /\ asked'["user"] = heard' + IF Reading' THEN 1 ELSE 0
      OBVIOUS
    <3>1. plan = heard + Left /\ asked["user"] = heard + IF Reading THEN 1 ELSE 0
      BY <1>1 DEF Counts
    <3>2. /\ Left' = Left - IF op \in {"recv", "until"} THEN 1 ELSE 0
          /\ Reading' <=> op \in {"send", "say"}
          /\ Reading <=> op \in {"recv", "until"}
      BY Moves
    <3>3. Left' = Left /\ ~Reading
      <4>1. Left \in Nat
        BY DEF Left
      <4> QED BY <3>2, <4>1
    <3>4. asked["user"] = heard
      BY <1>2, <3>1, <3>3
    <3> QED BY <1>2, <3>1, <3>2, <3>3, <3>4
  <2>3. service = "smtp" => IF step' <= 3 THEN heard < plan ELSE heard = plan
    BY <1>1, Moves DEF Counts
  <2>4. service = "pop3" => IF step' <= 2 THEN heard < plan ELSE heard = plan
    BY <1>1, Moves DEF Counts
  <2>5. service = "smtpfree" => IF step' <= 3 THEN heard + 1 < plan
                                ELSE heard = IF step' <= 5 THEN plan - 1 ELSE plan
    BY <1>1, Moves DEF Counts
  <2>6. service = "pop3" /\ pc' = "script" => asked'["host"] = 1
    BY <1>1, Moves DEF Counts
  <2> QED BY <2>1, <2>2, <2>3, <2>4, <2>5, <2>6 DEF Counts
<1>5. service = "telnet" => (~Reading /\ (Reading' => read = <<>>))
  <2> SUFFICES ASSUME service = "telnet" PROVE ~Reading /\ (Reading' => read = <<>>)
    OBVIOUS
  <2>1. Spoken
    BY DEF Spoken
  <2>2. (Reading' <=> op \in {"send", "say"}) /\ (Reading <=> op \in {"recv", "until"})
    BY <2>1, Moves
  <2>3. op \in {"send", "say"} => step <= 2
    BY DEF Script, Telnet, Placed
  <2> QED BY <1>1, <2>2, <2>3 DEF UserCarried
<1>6. Heard' = Heard
  <2>1. Len(<<>>) = 0
    OBVIOUS
  <2> QED BY <1>5, <2>1 DEF Heard
<1>7. service \in {"mms", "telnet"} /\ pc' = "script" /\ step' <= 2 => step <= 2
  BY DEF Go, Placed
<1>8. asked'["user"] \in Nat /\ asked'["user"] >= asked["user"]
  BY <1>2
<1>9. Whole => pc' # "pipe"
  BY Moves
<1>10. UserCarried'
  BY <1>1, <1>5, <1>6, <1>7, <1>8, <1>9, UserStays
<1>11. HostHeard' = HostHeard
  <2>1. HostHeard \in Nat
    BY DEF HostHeard
  <2>2. HostHeard' = HostHeard + IF op \in {"hostlines", "banner"} THEN 1 ELSE 0
    BY Moves
  <2> QED BY <2>1, <2>2
<1>12. HostCarried'
  BY <1>1, <1>11, HostStays
<1> QED BY <1>3, <1>4, <1>10, <1>12 DEF Carried

LEMMA QuietStep ==
  ASSUME Placed, Carried,
         NewSocket \/ Send \/ Say \/ Passes \/ Connect \/ TryFails \/ AskHost \/ Tell \/ Open
  PROVE  Carried'
<1>1. asked \in [Side -> Nat] /\ "user" \in Side /\ "host" \in Side
  BY DEF Carried, Streams, Side
<1>2. /\ UNCHANGED <<service, sent, in, out, plan, patient, read, lately, heard>>
      /\ pc = "script" /\ Go
  BY DEF NewSocket, Send, Say, Passes, Connect, TryFails, AskHost, Tell, Open, At, Prompts,
         streamVars, userVars, readVars
<1>3. CASE Send \/ Say
  <2>1. Script[step] \in {"send", "say"} /\ asked' = [asked EXCEPT !["user"] = @ + 1]
    BY <1>3 DEF Send, Say, At, Prompts
  <2>2. /\ asked' \in [Side -> Nat] /\ asked'["user"] = asked["user"] + 1
        /\ asked'["host"] = asked["host"]
    BY <1>1, <2>1
  <2> QED BY <1>2, <2>1, <2>2, NeutralStep
<1>4. CASE AskHost
  <2>1. Script[step] = "ask" /\ asked' = [asked EXCEPT !["host"] = @ + 1]
    BY <1>4 DEF AskHost, At
  <2>2. asked' \in [Side -> Nat] /\ asked'["user"] = asked["user"] + 0
    BY <1>1, <2>1
  <2> QED BY <1>2, <2>1, <2>2, NeutralStep
<1>5. CASE NewSocket \/ Passes \/ Connect \/ TryFails \/ Tell \/ Open
  <2>1. /\ asked' = asked
        /\ Script[step] \in {"new", "check", "local", "connect", "try", "tell", "open"}
    BY <1>5 DEF NewSocket, Passes, Connect, TryFails, Tell, Open, At, userVars
  <2>2. asked' \in [Side -> Nat] /\ asked'["user"] = asked["user"] + 0
    BY <1>1, <2>1
  <2> QED BY <1>2, <2>1, <2>2, NeutralStep
<1> QED BY <1>3, <1>4, <1>5

-----------------------------------------------------------------------------
(* Reading the user.                                                       *)

LEMMA AfterBefore ==
  ASSUME NEW S, NEW q \in Seq(S), NEW k \in 0..Len(q)
  PROVE  \E a \in Seq(S), b \in Seq(S) :
           /\ a = After(q, k) /\ b = Before(q, k) /\ Len(b) = k /\ b \o a = q
<1>1. After(q, k) \in Seq(S) /\ Before(q, k) \in Seq(S) /\ Len(Before(q, k)) = k
  BY AfterOK, BeforeOK
<1>2. Before(q, k) \o After(q, k) = q
  BY BeforeAfter
<1> QED BY <1>1, <1>2

(* What is left of the user's bytes behind k of the ones not read.         *)
LEMMA UnreadBehind ==
  ASSUME Streams, NEW s \in Side, NEW h \in Nat, h <= Len(sent[s]),
         in[s] = After(sent[s], h), NEW k \in 1..Len(in[s])
  PROVE  /\ Len(sent[s]) \in Nat /\ Len(in[s]) = Len(sent[s]) - h
         /\ After(in[s], k) = After(sent[s], h + k) /\ h + k <= Len(sent[s])
         /\ \A i \in 1..Len(in[s]) : in[s][i] = sent[s][h + i]
<1>1. sent[s] \in Seq(Unit) /\ Len(sent[s]) \in Nat /\ h \in 0..Len(sent[s])
  BY MessagesOK
<1>2. /\ Len(in[s]) = Len(sent[s]) - h
      /\ \A i \in 1..Len(sent[s]) - h : in[s][i] = sent[s][h + i]
  BY <1>1, AfterOK
<1>3. k \in 0..Len(sent[s]) - h /\ h + k <= Len(sent[s])
  BY <1>1, <1>2
<1>4. After(After(sent[s], h), k) = After(sent[s], h + k)
  BY <1>1, <1>3, AfterAfter
<1> QED BY <1>1, <1>2, <1>3, <1>4

(* A side that has sent no more than the message asked for: what is read   *)
(* with its end is that message, all of it and nothing behind.             *)
LEMMA WholeMessage ==
  ASSUME Streams, NEW s \in Side, NEW n \in Nat, Spelled(s, n), NEW h \in Nat, NEW r \in Nat,
         Len(sent[s]) = 2 * Messages(s), Messages(s) <= h + 1, 2 * h + r <= Len(sent[s]),
         in[s] = After(sent[s], 2 * h + r), NEW k \in 1..Len(in[s]),
         NEW i \in 1..k, IsEnd(in[s][i])
  PROVE  r + k = 2 /\ Messages(s) = h + 1 /\ After(in[s], k) = After(sent[s], 2 * h + 2)
<1>1. PICK m \in Nat, l \in Nat : m = Messages(s) /\ l = Len(sent[s]) /\ l = 2 * m
  BY MessagesOK
<1>2. 2 * h + r \in Nat
  OBVIOUS
<1>3. /\ Len(in[s]) = l - (2 * h + r) /\ 2 * h + r + k <= l
      /\ After(in[s], k) = After(sent[s], 2 * h + r + k)
      /\ \A j \in 1..Len(in[s]) : in[s][j] = sent[s][2 * h + r + j]
  BY <1>1, <1>2, UnreadBehind, ZenonT(60)
<1>4. i \in 1..Len(in[s]) /\ i \in Nat /\ i <= k
  BY <1>1, <1>3
<1>5. PICK j \in Nat : j = r + i /\ 1 <= j /\ 2 * h + j <= l /\ 2 * h + r + i = 2 * h + j
  BY <1>1, <1>3, <1>4
<1>6. IsEnd(sent[s][2 * h + j])
  BY <1>3, <1>4, <1>5
<1>7. h < Messages(s) /\ 2 * h + 2 <= Len(sent[s]) /\ j >= 2
  <2>1. 2 * h <= Len(sent[s]) /\ 2 * h + j <= Len(sent[s])
    BY <1>1, <1>5
  <2> QED BY <1>5, <1>6, <2>1, NextEnd
<1>8. m = h + 1 /\ r + k = 2 /\ 2 * h + r + k = 2 * h + 2
  <2>1. k \in Int /\ m <= h + 1 /\ h < m
    BY <1>1, <1>7
  <2>2. m = h + 1 /\ l = 2 * h + 2
    BY <1>1, <2>1, SMTT(60)
  <2>3. r + k <= 2 /\ r + k >= 2
    BY <1>3, <1>4, <1>5, <1>7, <2>1, <2>2
  <2> QED BY <2>1, <2>2, <2>3
<1> QED BY <1>1, <1>3, <1>8

LEMMA RecvStep ==
  ASSUME Placed, Carried, NEW k \in 1..Len(in["user"]), Recv(k), ~split'
  PROVE  Carried'
<1>1. Streams /\ Counts /\ UserCarried /\ HostCarried
  BY DEF Carried
<1>2. /\ "user" \in Side /\ "host" \in Side /\ heard \in Nat /\ plan \in Nat
      /\ in["user"] \in Seq(Unit) /\ sent["user"] \in Seq(Unit) /\ asked["user"] \in Nat
  BY <1>1 DEF Streams, Side
<1>3. /\ pc = "script" /\ Go /\ Script[step] = "recv"
      /\ UNCHANGED <<service, sent, out, asked, plan, patient>>
      /\ in' = [in EXCEPT !["user"] = After(in["user"], k)]
      /\ read' = Before(in["user"], k) /\ lately' = k /\ heard' = heard + 1
  BY DEF Recv, At, userVars
<1>4. PICK i \in 1..k : IsEnd(in["user"][i])
  BY DEF Recv
<1>5. k \in 0..Len(in["user"]) /\ Len(in["user"]) \in Nat
  BY <1>2
<1>6. PICK a \in Seq(Unit), b \in Seq(Unit) :
        /\ a = After(in["user"], k) /\ b = Before(in["user"], k) /\ Len(b) = k
        /\ b \o a = in["user"]
  BY <1>2, <1>5, AfterBefore
<1>7. in' \in [Side -> Seq(Unit)] /\ in'["user"] = a /\ in'["host"] = in["host"]
  BY <1>1, <1>2, <1>3, <1>6 DEF Streams, Side
<1>8. /\ pc' = "pipe" => step' = Len(Script') /\ service # "bind" /\ ~Whole
      /\ pc' \in {"script", "pipe"}
      /\ Spoken => Left' = Left - 1 /\ ~Reading' /\ Reading
      /\ HostHeard' = HostHeard + 0
      /\ service = "mms" => step = 2 /\ step' = 3
      /\ service \in {"socks4", "connect", "login", "bind", "associate", "mms"}
  BY <1>3, Moves
<1>9. Streams'
  <2>1. lately' \in 0..Len(read') /\ read' \in Seq(Unit)
    BY <1>3, <1>5, <1>6
  <2> QED BY <1>1, <1>2, <1>3, <1>7, <1>8, <2>1, SMTT(60) DEF Streams
<1>10. Counts'
  <2>1. Spoken' = Spoken
    BY <1>3 DEF Spoken
  <2>2. Spoken => plan' = heard' + Left' /\ asked'["user"] = heard' + 0
    <3> SUFFICES ASSUME Spoken PROVE plan' = heard' + Left' /\ asked'["user"] = heard' + 0
      OBVIOUS
    <3>1. plan = heard + Left /\ asked["user"] = heard + 1 /\ Left \in Nat
      BY <1>1, <1>8 DEF Counts, Left
    <3> QED BY <1>2, <1>3, <1>8, <3>1
  <2>3. service \notin {"smtp", "pop3", "smtpfree"} /\ service' = service
    BY <1>3, <1>8
  <2> QED BY <1>2, <1>3, <1>8, <2>1, <2>2, <2>3 DEF Counts
<1>11. UserCarried'
  <2>1. /\ Spoken' = Spoken /\ Lined' = Lined /\ Whole' = Whole
        /\ Messages("user")' = Messages("user")
    BY <1>3 DEF Spoken, Lined, Whole, Messages
  <2>2. /\ (Spoken \/ Lined => service \in {"socks4", "connect", "login"} /\ Spoken)
        /\ (Whole => service = "mms")
    BY <1>8 DEF Spoken, Lined, Whole
  <2>3. ASSUME Spoken, patient
        PROVE  /\ Spelled("user", plan)' /\ Heard' <= Len(sent'["user"])
               /\ out'["host"] \o in'["user"] = After(sent'["user"], Heard')
               /\ Len(sent'["user"]) = 2 * Messages("user")'
               /\ Messages("user")' <= asked'["user"]
    <3>1. Heard = 2 * heard + 0 /\ Heard' = 2 * heard + 2
      <4>1. service # "telnet" /\ service' # "telnet"
        BY <1>3, <2>2, <2>3
      <4>2. Heard = 2 * heard + 0 /\ Heard' = 2 * heard' + 0
        BY <4>1 DEF Heard
      <4> QED BY <1>2, <1>3, <4>2
    <3>2. /\ Spelled("user", plan) /\ Heard <= Len(sent["user"])
          /\ in["user"] = After(sent["user"], 2 * heard + 0)
          /\ Len(sent["user"]) = 2 * Messages("user") /\ Messages("user") <= asked["user"]
      BY <1>1, <1>3, <2>3, <3>1, Unread DEF UserCarried
    <3>3. asked["user"] = heard + 1
      BY <1>1, <1>8, <2>3 DEF Counts
    <3>4. Messages("user") = heard + 1 /\ a = After(sent["user"], 2 * heard + 2)
      BY <1>1, <1>2, <1>4, <1>6, <3>1, <3>2, <3>3, WholeMessage
    <3>5. out["host"] = <<>> /\ <<>> \o a = a
      BY <1>1, <1>3, <1>6, ConcatNone DEF Streams
    <3>6. Spelled("user", plan)'
      BY <1>3, <2>1, <3>2 DEF Spelled, Shaped
    <3>7. 2 * heard + 2 <= Len(sent["user"])
      BY <1>2, <3>2, <3>4
    <3> QED BY <1>3, <1>7, <2>1, <3>1, <3>2, <3>4, <3>5, <3>6, <3>7
  <2>4. Whole => sent'["user"] = read' \o in'["user"]
    <3> SUFFICES ASSUME Whole PROVE sent'["user"] = read' \o in'["user"]
      OBVIOUS
    <3>1. sent["user"] = read \o in["user"] /\ read = <<>>
      BY <1>1, <1>3, <1>8, <2>2 DEF UserCarried
    <3>2. <<>> \o in["user"] = in["user"]
      BY <1>2, ConcatNone
    <3> QED BY <1>3, <1>6, <1>7, <3>1, <3>2
  <2>5. ~(service \in {"mms", "telnet"} /\ step' <= 2) /\ service' # "telnet"
    BY <1>3, <1>8
  <2>6. patient' = patient /\ service' = service /\ plan' = plan /\ ~(Whole /\ pc' = "pipe")
    BY <1>3, <1>8
  <2>7. (Spoken /\ patient) \/ Lined =>
          /\ Spelled("user", plan)'
          /\ Heard' <= Len(sent'["user"])
          /\ out'["host"] \o in'["user"] = After(sent'["user"], Heard')
    BY <1>8, <2>2, <2>3 DEF Spoken, Lined
  <2> QED BY <2>1, <2>3, <2>4, <2>5, <2>6, <2>7 DEF UserCarried
<1>12. HostCarried'
  <2>1. HostHeard' = HostHeard
    BY <1>8 DEF HostHeard
  <2> QED BY <1>1, <1>3, <1>7, <2>1, HostStays
<1> QED BY <1>9, <1>10, <1>11, <1>12 DEF Carried

LEMMA UntilStep ==
  ASSUME Placed, Carried, NEW k \in 1..Len(in["user"]), Until(k)
  PROVE  Carried'
<1>1. Streams /\ Counts /\ UserCarried /\ HostCarried
  BY DEF Carried
<1>2. /\ "user" \in Side /\ "host" \in Side /\ heard \in Nat /\ plan \in Nat /\ read \in Seq(Unit)
      /\ in["user"] \in Seq(Unit) /\ sent["user"] \in Seq(Unit) /\ asked["user"] \in Nat
  BY <1>1 DEF Streams, Side
<1>3. /\ pc = "script" /\ Script[step] = "until"
      /\ UNCHANGED <<service, sent, out, asked, plan, patient>>
      /\ in' = [in EXCEPT !["user"] = After(in["user"], k)]
      /\ read' = read \o Before(in["user"], k) /\ lately' = k
      /\ \/ Go /\ heard' = heard + 1 /\ \E i \in 1..Len(read') : IsEnd(read'[i])
         \/ UNCHANGED <<step, pc, heard>> /\ ~\E i \in 1..Len(read') : IsEnd(read'[i])
  BY DEF Until, At, userVars
<1>4. k \in 0..Len(in["user"]) /\ Len(in["user"]) \in Nat /\ k \in Nat /\ k >= 1
  BY <1>2
<1>5. PICK a \in Seq(Unit), b \in Seq(Unit) :
        /\ a = After(in["user"], k) /\ b = Before(in["user"], k) /\ Len(b) = k
        /\ b \o a = in["user"]
  BY <1>2, <1>4, AfterBefore, ZenonT(60)
<1>6. in' \in [Side -> Seq(Unit)] /\ in'["user"] = a /\ in'["host"] = in["host"]
  BY <1>1, <1>2, <1>3, <1>5 DEF Streams, Side
<1>7. PICK r \in Seq(Unit) :
        /\ r = read' /\ r = read \o b /\ Len(r) = Len(read) + k /\ Len(read) \in Nat
        /\ \A i \in 1..Len(read) : r[i] = read[i]
        /\ \A i \in 1..k : r[Len(read) + i] = in["user"][i]
  <2>1. read \in Seq(Unit) /\ b \in Seq(Unit) /\ Len(b) = k /\ Len(read) \in Nat
    BY <1>2, <1>5
  <2>2. /\ read \o b \in Seq(Unit) /\ Len(read \o b) = Len(read) + Len(b)
        /\ \A i \in 1..Len(read) : (read \o b)[i] = read[i]
        /\ \A i \in 1..Len(b) : (read \o b)[Len(read) + i] = b[i]
    <3>1. PICK q \in Seq(Unit) : q = read
      BY <2>1
    <3>2. /\ q \o b \in Seq(Unit) /\ Len(q \o b) = Len(q) + Len(b)
          /\ \A i \in 1..Len(q) : (q \o b)[i] = q[i]
          /\ \A i \in 1..Len(b) : (q \o b)[Len(q) + i] = b[i]
      <4>1. q \in Seq(Unit) /\ b \in Seq(Unit)
        BY <2>1, <3>1
      <4>2. q \o b \in Seq(Unit) /\ Len(q \o b) = Len(q) + Len(b)
        BY <4>1, ConcatOK
      <4>3. \A i \in 1..Len(q) : (q \o b)[i] = q[i]
        BY <4>1, ConcatOK
      <4>4. \A i \in 1..Len(b) : (q \o b)[Len(q) + i] = b[i]
        BY <4>1, ConcatOK
      <4> QED BY <4>2, <4>3, <4>4
    <3> QED BY <3>1, <3>2
  <2>3. \A i \in 1..k : b[i] = in["user"][i]
    BY <1>2, <1>4, <1>5, BeforeOK
  <2>4. read' = read \o b
    BY <1>3, <1>5
  <2>5. PICK r \in Seq(Unit) : r = read \o b
    BY <2>2
  <2> QED BY <2>1, <2>2, <2>3, <2>4, <2>5, ZenonT(60)
<1>8. CASE service = "rtsp"
  <2>1. ~Spoken /\ ~Lined /\ Whole /\ ~Spoken' /\ ~Lined' /\ Whole'
    BY <1>3, <1>8 DEF Spoken, Lined, Whole
  <2>2. pc' = "script"
    BY <1>3, <2>1, Moves
  <2>3. Streams'
    <3>1. lately' \in 0..Len(read') /\ read' \in Seq(Unit)
      BY <1>3, <1>4, <1>7
    <3>2. heard' \in Nat
      BY <1>2, <1>3
    <3> QED BY <1>1, <1>2, <1>3, <1>6, <2>2, <3>1, <3>2 DEF Streams
  <2>4. Counts'
    BY <1>3, <1>8, <2>1 DEF Counts
  <2>5. UserCarried'
    <3>1. sent["user"] = read \o in["user"]
      BY <1>1, <1>3, <2>1 DEF UserCarried
    <3>2. (read \o b) \o a = read \o (b \o a)
      <4>1. read \in Seq(Unit) /\ b \in Seq(Unit) /\ a \in Seq(Unit)
        BY <1>2, <1>5
      <4> QED BY <4>1, ConcatThree, SMTT(60)
    <3>3. sent'["user"] = read' \o in'["user"]
      BY <1>3, <1>5, <1>6, <1>7, <3>1, <3>2
    <3> QED BY <1>3, <1>8, <2>1, <2>2, <3>3 DEF UserCarried
  <2>6. HostHeard' = HostHeard
    BY <1>3, <1>8 DEF HostHeard
  <2> QED BY <1>1, <1>3, <1>6, <2>3, <2>4, <2>5, <2>6, HostStays DEF Carried
<1>9. CASE service = "telnet"
  <2>1. Spoken /\ ~Lined /\ ~Whole /\ Spoken' /\ ~Lined' /\ ~Whole' /\ service' = "telnet"
    BY <1>3, <1>9 DEF Spoken, Lined, Whole
  <2>2. Reading /\ step = 3
    BY <1>3, <1>9, SMTT(60) DEF Reading, Placed, Script, Telnet
  <2>3. plan = heard + Left /\ asked["user"] = heard + 1 /\ Left = 1
    BY <1>1, <1>9, <2>1, <2>2 DEF Counts, Left
  <2>4. \/ pc' = "script" /\ step' = 4 /\ heard' = heard + 1 /\ ~Reading'
        \/ pc' = "script" /\ step' = 3 /\ heard' = heard /\ Reading'
    <3>1. Len(Script) = 6 /\ Script'[4] = "check" /\ Script'[3] = "until"
      BY <1>9, <2>1 DEF Script, Telnet
    <3>2. CASE Go /\ heard' = heard + 1
      <4>1. step' = 4 /\ pc' = "script"
        BY <1>3, <2>2, <3>1, <3>2 DEF Go
      <4> QED BY <3>1, <3>2, <4>1 DEF Reading
    <3>3. CASE UNCHANGED <<step, pc, heard>>
      BY <1>3, <2>2, <3>1, <3>3 DEF Reading
    <3> QED BY <1>3, <3>2, <3>3
  <2>5. heard' \in Nat
    BY <1>2, <2>4
  <2>6. Streams'
    <3>1. lately' \in 0..Len(read') /\ read' \in Seq(Unit)
      BY <1>3, <1>4, <1>7
    <3> QED BY <1>1, <1>2, <1>3, <1>6, <2>4, <2>5, <3>1 DEF Streams
  <2>7. Counts'
    <3>1. plan' = heard' + Left' /\ asked'["user"] = heard' + IF Reading' THEN 1 ELSE 0
      <4>1. plan' = plan /\ asked' = asked /\ plan = heard + 1 /\ asked["user"] = heard + 1
        BY <1>3, <2>3
      <4>2. Left' = IF step' <= 3 THEN 1 ELSE 0
        BY <2>1 DEF Left
      <4>3. CASE step' = 4 /\ heard' = heard + 1 /\ ~Reading'
        <5>1. Left' = 0
          BY <4>2, <4>3
        <5> QED BY <1>2, <4>1, <4>3, <5>1
      <4>4. CASE step' = 3 /\ heard' = heard /\ Reading'
        <5>1. Left' = 1
          BY <4>2, <4>4
        <5> QED BY <1>2, <4>1, <4>4, <5>1
      <4> QED BY <2>4, <4>3, <4>4
    <3> QED BY <2>1, <3>1 DEF Counts
  <2>8. ASSUME patient
        PROVE  /\ Spelled("user", plan)' /\ Heard' <= Len(sent'["user"])
               /\ out'["host"] \o in'["user"] = After(sent'["user"], Heard')
               /\ Len(sent'["user"]) = 2 * Messages("user")'
               /\ Messages("user")' <= asked'["user"]
               /\ Reading' => \A i \in 1..Len(read') : ~IsEnd(read'[i])
    <3>1. Heard = 2 * heard + Len(read)
      BY <1>9, <2>2 DEF Heard
    <3>2. /\ Spelled("user", plan) /\ Heard <= Len(sent["user"])
          /\ in["user"] = After(sent["user"], 2 * heard + Len(read))
          /\ Len(sent["user"]) = 2 * Messages("user") /\ Messages("user") <= heard + 1
          /\ \A i \in 1..Len(read) : ~IsEnd(read[i])
      BY <1>1, <1>3, <1>9, <2>1, <2>2, <2>3, <2>8, <3>1, Unread DEF UserCarried
    <3>3. PICK h \in Nat : h = 2 * heard + Len(read) /\ h <= Len(sent["user"])
      BY <1>2, <1>7, <3>1, <3>2
    <3>4. a = After(sent["user"], h + k) /\ h + k <= Len(sent["user"])
      BY <1>1, <1>2, <1>5, <3>2, <3>3, UnreadBehind
    <3>5. Heard' = h + k
      <4>1. CASE Reading'
        <5>1. Heard' = 2 * heard' + Len(read') /\ heard' = heard
          BY <2>1, <2>4, <4>1 DEF Heard
        <5>2. Len(read') = Len(read) + k
          BY <1>7
        <5> QED BY <1>2, <1>4, <1>7, <3>3, <5>1, <5>2
      <4>2. CASE ~Reading'
        <5>1. Heard' = 2 * heard' + 0 /\ heard' = heard + 1
          BY <2>4, <4>2 DEF Heard
        <5>2. PICK i \in 1..Len(r) : IsEnd(r[i])
          BY <1>2, <1>3, <1>7, <2>2, <2>4, <5>1
        <5>3. ~(i <= Len(read))
          <6>1. CASE i <= Len(read)
            <7>1. i \in 1..Len(read) /\ r[i] = read[i]
              BY <1>7, <6>1
            <7> QED BY <3>2, <5>2, <7>1 DEF IsEnd
          <6> QED BY <6>1
        <5>4. PICK j \in 1..k : i = Len(read) + j
          <6>1. i - Len(read) \in 1..k /\ i = Len(read) + (i - Len(read))
            BY <1>4, <1>7, <5>3
          <6> QED BY <6>1
        <5>5. IsEnd(in["user"][j])
          BY <1>7, <5>2, <5>4 DEF IsEnd
        <5>6. 2 * heard + Len(read) <= Len(sent["user"])
          BY <3>3
        <5>7. Len(read) + k = 2
          BY <1>1, <1>2, <1>7, <3>2, <5>5, <5>6, WholeMessage
        <5>8. h + k = 2 * heard + (Len(read) + k)
          BY <1>2, <1>4, <1>7, <3>3
        <5> QED BY <1>2, <5>1, <5>7, <5>8
      <4> QED BY <4>1, <4>2
    <3>6. out["host"] = <<>> /\ <<>> \o a = a
      BY <1>1, <1>3, <1>5, ConcatNone DEF Streams
    <3>7. Spelled("user", plan)' /\ Messages("user")' = Messages("user")
      BY <1>3, <3>2 DEF Spelled, Shaped, Messages
    <3>8. Reading' => \A i \in 1..Len(read') : ~IsEnd(read'[i])
      <4>1. heard' # heard + 1 => ~\E i \in 1..Len(read') : IsEnd(read'[i])
        BY <1>3
      <4>2. Reading' => heard' = heard /\ heard # heard + 1
        BY <1>2, <2>4
      <4> QED BY <4>1, <4>2
    <3> QED BY <1>3, <1>6, <2>3, <3>2, <3>4, <3>5, <3>6, <3>7, <3>8
  <2>9. UserCarried'
    <3>1. ~(step' <= 2) /\ patient' = patient
      BY <1>3, <2>4
    <3> QED BY <2>1, <2>8, <3>1 DEF UserCarried
  <2>10. HostHeard' = HostHeard
    BY <1>3, <1>9 DEF HostHeard
  <2> QED BY <1>1, <1>3, <1>6, <2>4, <2>6, <2>7, <2>9, <2>10, HostStays DEF Carried
<1>10. service \in {"telnet", "rtsp"}
  BY <1>3, Operations
<1> QED BY <1>8, <1>9, <1>10

(* The telnet user that enters another host has one more message to send.  *)
LEMMA AgainStep == ASSUME Placed, Carried, AskAgain PROVE Carried'
<1>1. Streams /\ Counts /\ UserCarried /\ HostCarried
  BY DEF Carried
<1>2. /\ "user" \in Side /\ "host" \in Side /\ heard \in Nat /\ plan \in Nat
      /\ asked \in [Side -> Nat] /\ sent["user"] \in Seq(Unit)
  BY <1>1 DEF Streams, Side
<1>3. /\ pc = "script" /\ Script[step] = "connect" /\ service = "telnet"
      /\ UNCHANGED <<service, pc, sent, in, out, patient, heard>>
      /\ asked' = [asked EXCEPT !["user"] = @ + 1] /\ plan' = plan + 1 /\ step' = step - 2
      /\ read' = <<>> /\ lately' = 0
  BY DEF AskAgain, At, streamVars
<1>4. step = 5 /\ step' = 3
  BY <1>3, Operations
<1>5. ~Reading /\ Reading'
  <2>1. Script' = Script /\ Script[3] = "until"
    BY <1>3 DEF Script, Telnet
  <2> QED BY <1>3, <1>4, <2>1 DEF Reading
<1>6. Spoken /\ ~Lined /\ ~Whole /\ Spoken' /\ ~Lined' /\ ~Whole' /\ service' = "telnet"
  BY <1>3 DEF Spoken, Lined, Whole
<1>7. heard = plan /\ asked["user"] = heard
  <2>1. plan = heard + Left /\ asked["user"] = heard + 0 /\ Left = 0
    BY <1>1, <1>3, <1>4, <1>5, <1>6 DEF Counts, Left
  <2> QED BY <1>2, <2>1
<1>8. /\ asked' \in [Side -> Nat] /\ asked'["user"] = heard + 1 /\ plan' = heard + 1
      /\ asked'["user"] \in Nat
  BY <1>2, <1>3, <1>7
<1>9. Streams'
  <2>1. read' \in Seq(Unit) /\ lately' \in 0..Len(read') /\ plan' \in Nat
    BY <1>2, <1>3
  <2> QED BY <1>1, <1>3, <1>8, <2>1 DEF Streams
<1>10. Counts'
  <2>1. Left' = 1
    BY <1>4, <1>6 DEF Left
  <2> QED BY <1>3, <1>5, <1>6, <1>8, <2>1 DEF Counts
<1>11. UserCarried'
  <2>1. Messages("user")' = Messages("user") /\ Messages("user") \in Nat
    BY <1>1, <1>2, <1>3, MessagesOK DEF Messages
  <2>2. Len(<<>>) = 0
    OBVIOUS
  <2>3. Heard' = Heard
    BY <1>2, <1>3, <1>5, <2>2 DEF Heard
  <2>4. ASSUME patient
        PROVE  /\ Spelled("user", plan)' /\ Heard' <= Len(sent'["user"])
               /\ out'["host"] \o in'["user"] = After(sent'["user"], Heard')
               /\ Len(sent'["user"]) = 2 * Messages("user")'
               /\ Messages("user")' <= asked'["user"]
    <3>1. /\ Spelled("user", plan) /\ Heard <= Len(sent["user"])
          /\ out["host"] \o in["user"] = After(sent["user"], Heard)
          /\ Len(sent["user"]) = 2 * Messages("user") /\ Messages("user") <= heard
      BY <1>1, <1>3, <1>6, <1>7, <2>4 DEF UserCarried
    <3>2. Shaped("user")'
      BY <1>3, <2>1, <3>1 DEF Spelled, Shaped
    <3>3. Messages("user") <= heard + 1 /\ ~(Len(sent["user"]) > 2 * Messages("user"))
      BY <1>2, <2>1, <3>1
    <3>4. Spelled("user", plan)'
      BY <1>3, <1>8, <2>1, <3>2, <3>3 DEF Spelled
    <3> QED BY <1>3, <1>8, <2>1, <2>3, <3>1, <3>3, <3>4
  <2>5. \A i \in 1..Len(read') : ~IsEnd(read'[i])
    BY <1>3, <2>2
  <2>6. ~(step' <= 2) /\ patient' = patient
    BY <1>3, <1>4
  <2>7. (Spoken' /\ patient') \/ Lined' =>
          /\ Spelled("user", plan)'
          /\ Heard' <= Len(sent'["user"])
          /\ out'["host"] \o in'["user"] = After(sent'["user"], Heard')
    BY <1>6, <2>4, <2>6
  <2>8. Spoken' /\ patient' /\ pc' = "script" =>
          /\ Len(sent'["user"]) = 2 * Messages("user")'
          /\ Messages("user")' <= asked'["user"]
          /\ \A i \in 1..Len(read') : ~IsEnd(read'[i])
    BY <2>4, <2>5, <2>6
  <2> QED BY <1>6, <2>6, <2>7, <2>8 DEF UserCarried
<1>12. HostHeard' = HostHeard
  BY <1>3 DEF HostHeard
<1> QED BY <1>1, <1>3, <1>9, <1>10, <1>11, <1>12, HostStays DEF Carried

LEMMA ForwardStep == ASSUME Placed, Carried, Forward, ~split' PROVE Carried'
<1>1. Streams /\ Counts /\ UserCarried /\ HostCarried
  BY DEF Carried
<1>2. /\ pc = "script" /\ Go /\ Script[step] = "forward"
      /\ UNCHANGED <<service, sent, in, asked, plan, patient, heard, read, lately>>
      /\ out' = [out EXCEPT !["host"] = Before(read, lately)] /\ ~(lately < Len(read))
  BY DEF Forward, At, userVars
<1>3. Whole /\ pc' = "pipe" /\ step' = Len(Script') /\ service # "bind"
  BY <1>2, Moves
<1>4. Before(read, lately) = read /\ read \in Seq(Unit)
  <2>1. read \in Seq(Unit) /\ lately \in 0..Len(read) /\ Len(read) \in Nat
    BY <1>1 DEF Streams
  <2>2. lately = Len(read)
    BY <1>2, <2>1
  <2> QED BY <2>1, <2>2, BeforeAll
<1>5. out' \in [Side -> Seq(Unit)] /\ out'["host"] = read /\ out'["user"] = out["user"]
  BY <1>1, <1>2, <1>4 DEF Streams, Side
<1>6. Streams'
  BY <1>1, <1>2, <1>3, <1>5 DEF Streams
<1>7. service \in {"mms", "rtsp"} /\ ~Spoken' /\ ~Lined' /\ service' = service
  BY <1>2, <1>3 DEF Spoken, Lined, Whole
<1>8. Counts'
  BY <1>7 DEF Counts
<1>9. UserCarried'
  <2>1. sent["user"] = read \o in["user"]
    BY <1>1, <1>2, <1>3 DEF UserCarried
  <2>2. sent'["user"] = out'["host"] \o in'["user"]
    BY <1>2, <1>5, <2>1
  <2> QED BY <1>3, <1>7, <2>2 DEF UserCarried
<1>10. HostHeard' = HostHeard
  BY <1>7 DEF HostHeard
<1> QED BY <1>1, <1>2, <1>3, <1>5, <1>6, <1>8, <1>9, <1>10, HostStays DEF Carried

-----------------------------------------------------------------------------
(* Reading by lines.                                                       *)

LEMMA LineTaken ==
  ASSUME Streams, NEW s \in Side, NEW n \in Nat, Spelled(s, n), NEW h \in Nat,
         2 * h <= Len(sent[s]), in[s] = After(sent[s], 2 * h), TakeLine(s)
  PROVE  /\ in' \in [Side -> Seq(Unit)] /\ \A t \in Side : t # s => in'[t] = in[t]
         /\ in'[s] = After(sent[s], 2 * (h + 1)) /\ 2 * (h + 1) <= Len(sent[s])
<1>1. PICK m \in Nat, l \in Nat : m = Messages(s) /\ l = Len(sent[s])
  BY MessagesOK
<1>2. 2 * h \in 0..l /\ sent[s] \in Seq(Unit) /\ 2 * h \in Nat /\ 2 * h <= Len(sent[s])
  BY <1>1, MessagesOK
<1>3. /\ Len(in[s]) = l - 2 * h
      /\ \A i \in 1..Len(in[s]) : in[s][i] = sent[s][2 * h + i]
  <2>1. 2 * h \in 0..Len(sent[s])
    BY <1>1, <1>2
  <2>2. /\ Len(After(sent[s], 2 * h)) = Len(sent[s]) - 2 * h
        /\ \A i \in 1..Len(sent[s]) - 2 * h : After(sent[s], 2 * h)[i] = sent[s][2 * h + i]
    BY <1>2, <2>1, AfterOK
  <2> QED BY <1>1, <2>2
<1>4. ASSUME NEW i \in LineEnds(s)
      PROVE  i \in Nat /\ i >= 2 /\ IsEnd(sent[s][2 * h + 2]) /\ 2 * h + 2 <= l
  <2>1. i \in 1..Len(in[s]) /\ IsEnd(in[s][i])
    BY DEF LineEnds
  <2>2. i \in Nat /\ 1 <= i /\ 2 * h + i <= Len(sent[s])
    BY <1>1, <1>3, <2>1
  <2>3. IsEnd(sent[s][2 * h + i])
    BY <1>3, <2>1
  <2> QED BY <1>1, <1>2, <2>2, <2>3, NextEnd
<1>5. PICK e \in LineEnds(s) : TRUE
  BY DEF TakeLine
<1>6. IsEnd(sent[s][2 * h + 2]) /\ 2 * h + 2 <= l
  BY <1>4, <1>5
<1>7. 2 \in LineEnds(s)
  <2>1. 2 \in 1..Len(in[s])
    BY <1>1, <1>3, <1>6
  <2>2. in[s][2] = sent[s][2 * h + 2]
    BY <1>3, <2>1
  <2> QED BY <1>6, <2>1, <2>2 DEF LineEnds
<1>8. FirstLine(s) = 2
  <2>1. \A i \in LineEnds(s) : 2 <= i
    BY <1>4
  <2>2. ASSUME NEW i \in LineEnds(s), \A j \in LineEnds(s) : i <= j PROVE i = 2
    <3>1. i \in Nat /\ i >= 2 /\ i <= 2
      BY <1>4, <1>7, <2>2
    <3> QED BY <3>1
  <2> QED BY <1>7, <2>1, <2>2 DEF FirstLine
<1>9. /\ After(in[s], 2) = After(sent[s], 2 * (h + 1)) /\ 2 * (h + 1) <= Len(sent[s])
      /\ After(sent[s], 2 * (h + 1)) \in Seq(Unit)
  <2>1. 2 \in 1..Len(in[s]) /\ 2 * h + 2 = 2 * (h + 1) /\ 2 * h + 2 \in 0..Len(sent[s])
    BY <1>1, <1>3, <1>6
  <2>2. After(in[s], 2) = After(sent[s], 2 * h + 2)
    BY <1>2, <2>1, UnreadBehind
  <2> QED BY <1>1, <1>2, <1>6, <2>1, <2>2, AfterOK
<1>10. in' = [in EXCEPT ![s] = After(in[s], 2)]
  BY <1>8 DEF TakeLine
<1> QED BY <1>9, <1>10 DEF Streams, Side

(* A line of the user, whichever it is.                                    *)
LEMMA LineHeard ==
  ASSUME Placed, Carried, pc = "script", Lined, TakeLine("user"), heard' = heard + 1,
         UNCHANGED <<service, sent, out, plan, patient, read, lately>>,
         asked' \in [Side -> Nat], HostHeard' = HostHeard, Counts',
         pc' = "script" \/ (Go /\ Script[step] \in {"line", "lines"})
  PROVE  Carried'
<1>1. Streams /\ Counts /\ UserCarried /\ HostCarried
  BY DEF Carried
<1>2. "user" \in Side /\ "host" \in Side /\ heard \in Nat /\ plan \in Nat /\ "user" # "host"
  BY <1>1 DEF Streams, Side
<1>3. /\ Heard = 2 * heard /\ Heard' = 2 * (heard + 1)
      /\ ~Spoken /\ ~Whole /\ ~Spoken' /\ ~Whole' /\ Lined'
  <2>1. service # "telnet" /\ service' # "telnet"
    BY DEF Lined
  <2>2. Heard = 2 * heard + 0 /\ Heard' = 2 * heard' + 0
    BY <2>1 DEF Heard
  <2>3. ~Spoken /\ ~Whole /\ ~Spoken' /\ ~Whole' /\ Lined'
    BY DEF Spoken, Whole, Lined
  <2> QED BY <1>2, <2>2, <2>3
<1>4. /\ Spelled("user", plan) /\ 2 * heard <= Len(sent["user"])
      /\ in["user"] = After(sent["user"], 2 * heard)
  BY <1>1, <1>3, Unread DEF UserCarried
<1>5. /\ in' \in [Side -> Seq(Unit)] /\ in'["host"] = in["host"]
      /\ in'["user"] = After(sent["user"], 2 * (heard + 1))
      /\ 2 * (heard + 1) <= Len(sent["user"])
  BY <1>1, <1>2, <1>4, LineTaken
<1>6. Streams'
  <2>1. pc' = "pipe" => step' = Len(Script') /\ service # "bind"
    <3>1. CASE Go /\ Script[step] \in {"line", "lines"}
      BY <3>1, Moves
    <3> QED BY <3>1
  <2> QED BY <1>1, <1>2, <1>5, <2>1 DEF Streams
<1>7. UserCarried'
  <2>1. in'["user"] \in Seq(Unit) /\ out["host"] = <<>>
    BY <1>1, <1>2, <1>5 DEF Streams
  <2>2. out'["host"] \o in'["user"] = After(sent'["user"], Heard')
    BY <1>3, <1>5, <2>1, ConcatNone
  <2>3. Spelled("user", plan)'
    BY <1>4 DEF Spelled, Shaped, Messages
  <2>4. service' \notin {"mms", "telnet"}
    BY DEF Lined
  <2> QED BY <1>3, <1>5, <2>2, <2>3, <2>4 DEF UserCarried
<1>8. HostCarried'
  BY <1>1, <1>5, HostStays
<1> QED BY <1>6, <1>7, <1>8 DEF Carried

LEMMA LineStep ==
  ASSUME Placed, Carried, Line \/ LastLine \/ OtherLine, pc' # "end"
  PROVE  Carried'
<1>1. Counts /\ plan \in Nat /\ heard \in Nat /\ asked \in [Side -> Nat] /\ "user" \in Side
  BY DEF Carried, Streams, Side
<1>2. /\ pc = "script" /\ Script[step] \in {"line", "lines"}
      /\ TakeLine("user") /\ heard' = heard + 1
      /\ UNCHANGED <<service, sent, out, plan, patient, read, lately>>
  BY DEF Line, LastLine, OtherLine, At, userVars, Prompts
<1>3. CASE Line \/ LastLine
  <2>1. Go /\ asked' = asked
    BY <1>3 DEF Line, LastLine, userVars
  <2>2. /\ Lined /\ HostHeard' = HostHeard + 0
        /\ Script[step] = "line" => service = "smtpfree" /\ step = 5 /\ step' = 6
        /\ Script[step] = "lines" =>
             /\ service = "smtp" => step = 3 /\ step' = 4
             /\ service = "pop3" => step = 2 /\ step' = 3
             /\ service = "smtpfree" => step = 3 /\ step' = 4
    BY <1>2, <2>1, Moves
  <2>3. HostHeard' = HostHeard
    BY <2>2 DEF HostHeard
  <2>4. CASE Script[step] = "line"
    <3>1. heard = plan - 1
      BY <1>1, <2>2, <2>4 DEF Counts
    <3>2. Counts'
      BY <1>1, <1>2, <2>2, <2>4, <3>1 DEF Counts, Spoken
    <3> QED BY <1>1, <1>2, <2>1, <2>2, <2>3, <2>4, <3>2, LineHeard
  <2>5. CASE Script[step] = "lines"
    <3>1. heard + 1 = IF service = "smtpfree" THEN plan - 1 ELSE plan
      BY <1>3, <2>5 DEF Line, LastLine, At, Awaited
    <3>2. ~Spoken' /\ service' = service
      BY <1>2, <2>2 DEF Lined, Spoken
    <3>3. service = "pop3" => asked'["host"] = 1
      BY <1>1, <1>2, <2>1 DEF Counts
    <3>4. service = "smtp" => step' = 4 /\ heard' = plan'
      BY <1>2, <2>2, <2>5, <3>1
    <3>5. service = "pop3" => step' = 3 /\ heard' = plan'
      BY <1>2, <2>2, <2>5, <3>1
    <3>6. service = "smtpfree" => step' = 4 /\ heard' = plan' - 1
      BY <1>2, <2>2, <2>5, <3>1
    <3>7. Counts'
      BY <3>2, <3>3, <3>4, <3>5, <3>6 DEF Counts
    <3> QED BY <1>1, <1>2, <2>1, <2>2, <2>3, <2>5, <3>7, LineHeard
  <2> QED BY <1>2, <2>4, <2>5
<1>4. CASE OtherLine
  <2>1. /\ Script[step] = "lines" /\ heard + 1 # Awaited /\ step' = step /\ pc' = "script"
        /\ \E n \in 0..1 : asked' = [asked EXCEPT !["user"] = @ + n]
    BY <1>2, <1>4 DEF OtherLine, At, Prompts
  <2>2. PICK n \in 0..1 : asked' = [asked EXCEPT !["user"] = @ + n]
    BY <2>1
  <2>3. asked' \in [Side -> Nat] /\ asked'["host"] = asked["host"]
    BY <1>1, <2>2 DEF Side
  <2>4. /\ service = "pop3" => step = 2
        /\ service \in {"smtp", "smtpfree"} => step = 3
        /\ Lined
    BY <2>1, Operations
  <2>5. HostHeard' = HostHeard
    BY <1>2, <2>1 DEF HostHeard
  <2>6. ~Spoken' /\ service' = service
    BY <1>2, <2>4 DEF Lined, Spoken
  <2>7. service = "smtp" => step' = 3 /\ heard' < plan'
    <3> SUFFICES ASSUME service = "smtp" PROVE step' = 3 /\ heard' < plan'
      OBVIOUS
    <3>1. heard < plan /\ heard + 1 # plan
      BY <1>1, <2>1, <2>4 DEF Counts, Awaited
    <3> QED BY <1>1, <1>2, <2>1, <2>4, <3>1
  <2>8. service = "pop3" => step' = 2 /\ heard' < plan' /\ asked'["host"] = 1
    <3> SUFFICES ASSUME service = "pop3"
                 PROVE  step' = 2 /\ heard' < plan' /\ asked'["host"] = 1
      OBVIOUS
    <3>1. heard < plan /\ heard + 1 # plan /\ asked["host"] = 1
      BY <1>1, <1>2, <2>1, <2>4 DEF Counts, Awaited
    <3> QED BY <1>1, <1>2, <2>1, <2>3, <2>4, <3>1
  <2>9. service = "smtpfree" => step' = 3 /\ heard' + 1 < plan'
    <3> SUFFICES ASSUME service = "smtpfree" PROVE step' = 3 /\ heard' + 1 < plan'
      OBVIOUS
    <3>1. heard + 1 < plan /\ heard + 1 # plan - 1
      BY <1>1, <2>1, <2>4 DEF Counts, Awaited
    <3> QED BY <1>1, <1>2, <2>1, <2>4, <3>1
  <2>10. Counts'
    BY <2>6, <2>7, <2>8, <2>9 DEF Counts
  <2> QED BY <1>2, <2>1, <2>3, <2>4, <2>5, <2>10, LineHeard
<1> QED BY <1>3, <1>4

(* One message of the host, by a line or by a recv that brings all of it.  *)
LEMMA HostHeardOne ==
  ASSUME Placed, Carried, pc = "script", Go, NEW op, op = Script[step],
         op \in {"hostlines", "banner"},
         UNCHANGED <<service, sent, out, asked, plan, patient, read, lately, heard>>,
         in' \in [Side -> Seq(Unit)], in'["user"] = in["user"],
         in'["host"] = After(sent["host"], 2 * (HostHeard + 1)),
         2 * (HostHeard + 1) <= Len(sent["host"])
  PROVE  Carried'
<1>1. Streams /\ Counts /\ UserCarried /\ HostCarried
  BY DEF Carried
<1>2. "user" \in Side /\ "host" \in Side /\ asked["user"] \in Nat
  BY <1>1 DEF Streams, Side
<1>3. /\ pc' = "pipe" => step' = Len(Script') /\ service # "bind" /\ ~Whole
      /\ HostHeard' = HostHeard + 1
      /\ service \in {"smtp", "smtpfree", "pop3"}
      /\ service = "smtp" => (step' <= 3 <=> step <= 3)
      /\ service = "pop3" => (step' <= 2 <=> step <= 2)
      /\ service = "smtpfree" => (step' <= 3 <=> step <= 3) /\ (step' <= 5 <=> step <= 5)
  BY Moves
<1>4. Streams'
  BY <1>1, <1>3 DEF Streams
<1>5. Counts'
  <2>1. ~Spoken' /\ service' = service
    BY <1>3 DEF Spoken
  <2> QED BY <1>1, <1>3, <2>1 DEF Counts
<1>6. UserCarried'
  <2>1. service \notin {"mms", "telnet"} /\ ~Whole
    BY <1>3 DEF Whole
  <2>2. Heard' = Heard
    BY <2>1 DEF Heard
  <2>3. asked'["user"] \in Nat /\ asked'["user"] >= asked["user"]
    BY <1>2
  <2> QED BY <1>1, <2>1, <2>2, <2>3, UserStays
<1>7. HostCarried'
  <2>1. HostPlan' = HostPlan /\ Messages("host")' = Messages("host")
    BY DEF HostPlan, Messages
  <2>2. Spelled("host", HostPlan)'
    BY <1>1, <2>1 DEF HostCarried, Spelled, Shaped
  <2>3. in'["host"] \in Seq(Unit) /\ out["user"] = <<>>
    BY <1>1, <1>2 DEF Streams
  <2>4. out'["user"] \o in'["host"] = After(sent'["host"], 2 * HostHeard')
    BY <1>3, <2>3, ConcatNone
  <2> QED BY <1>1, <1>3, <2>1, <2>2, <2>4 DEF HostCarried
<1> QED BY <1>4, <1>5, <1>6, <1>7 DEF Carried

LEMMA HostLineStep == ASSUME Placed, Carried, HostLines PROVE Carried'
<1>1. Streams /\ HostCarried
  BY DEF Carried
<1>2. HostPlan \in Nat /\ HostHeard \in Nat /\ "host" \in Side /\ "user" \in Side /\ "user" # "host"
  BY DEF HostPlan, HostHeard, Side
<1>3. /\ pc = "script" /\ Go /\ Script[step] = "hostlines" /\ TakeLine("host")
      /\ UNCHANGED <<service, sent, out, asked, plan, patient, read, lately, heard>>
  BY DEF HostLines, At, userVars, readVars
<1>4. /\ Spelled("host", HostPlan) /\ 2 * HostHeard <= Len(sent["host"])
      /\ in["host"] = After(sent["host"], 2 * HostHeard)
  BY <1>1, <1>3, Unread DEF HostCarried
<1>5. /\ in' \in [Side -> Seq(Unit)] /\ in'["user"] = in["user"]
      /\ in'["host"] = After(sent["host"], 2 * (HostHeard + 1))
      /\ 2 * (HostHeard + 1) <= Len(sent["host"])
  <2>1. PICK h \in Nat, n \in Nat : h = HostHeard /\ n = HostPlan
    BY <1>2
  <2> QED BY <1>1, <1>2, <1>3, <1>4, <2>1, LineTaken
<1> QED BY <1>3, <1>5, HostHeardOne

LEMMA BannerStep ==
  ASSUME Placed, Carried, NEW k \in 1..Len(in["host"]), Banner(k), ~split'
  PROVE  Carried'
<1>1. Streams /\ HostCarried
  BY DEF Carried
<1>2. "host" \in Side /\ "user" \in Side /\ "user" # "host"
  BY DEF Side
<1>3. /\ pc = "script" /\ Go /\ Script[step] = "banner"
      /\ in' = [in EXCEPT !["host"] = After(in["host"], k)]
      /\ UNCHANGED <<service, sent, out, asked, plan, patient, read, lately, heard>>
  BY DEF Banner, At, userVars
<1>4. PICK i \in 1..k : IsEnd(in["host"][i])
  BY DEF Banner
<1>5. service = "pop3" /\ HostHeard = 0 /\ HostPlan = 1
  BY <1>3, Moves, Operations DEF HostHeard, HostPlan
<1>6. /\ Spelled("host", 1) /\ Len(sent["host"]) = 2 * Messages("host")
      /\ in["host"] = After(sent["host"], 2 * 0 + 0) /\ Messages("host") <= 0 + 1
  BY <1>1, <1>3, <1>5, Unread DEF HostCarried, Spelled
<1>7. /\ Messages("host") = 0 + 1
      /\ After(in["host"], k) = After(sent["host"], 2 * 0 + 2)
  <2>1. Len(sent["host"]) \in Nat
    BY <1>1, <1>2, MessagesOK
  <2>2. 2 * 0 + 0 <= Len(sent["host"])
    BY <2>1
  <2>3. PICK z \in Nat, n \in Nat : z = 0 /\ n = 1
    OBVIOUS
  <2>4. /\ Spelled("host", n) /\ 2 * z + z <= Len(sent["host"]) /\ Messages("host") <= z + 1
        /\ in["host"] = After(sent["host"], 2 * z + z)
    BY <1>6, <2>2, <2>3
  <2>5. /\ Messages("host") = z + 1
        /\ After(in["host"], k) = After(sent["host"], 2 * z + 2)
    BY <1>1, <1>2, <1>4, <1>6, <2>3, <2>4, WholeMessage
  <2> QED BY <2>3, <2>5
<1>8. /\ 2 * (HostHeard + 1) <= Len(sent["host"])
      /\ After(in["host"], k) = After(sent["host"], 2 * (HostHeard + 1))
      /\ After(in["host"], k) \in Seq(Unit)
  <2>1. 2 * (HostHeard + 1) = 2 /\ Len(sent["host"]) = 2
    BY <1>5, <1>6, <1>7
  <2>2. k \in 0..Len(in["host"]) /\ in["host"] \in Seq(Unit)
    BY <1>1, <1>2 DEF Streams
  <2>3. After(in["host"], k) \in Seq(Unit)
    BY <2>2, AfterOK
  <2> QED BY <1>7, <2>1, <2>3
<1>9. /\ in' \in [Side -> Seq(Unit)] /\ in'["user"] = in["user"]
      /\ in'["host"] = After(sent["host"], 2 * (HostHeard + 1))
  BY <1>1, <1>2, <1>3, <1>8 DEF Streams, Side
<1> QED BY <1>3, <1>8, <1>9, HostHeardOne

-----------------------------------------------------------------------------
(* What a side sends.                                                      *)

(* What comes behind all that was sent is still behind it.                 *)
LEMMA SentOn ==
  ASSUME Streams, NEW s \in Side, NEW u \in Seq(Unit), NEW q \in Seq(Unit), NEW h \in Nat,
         h <= Len(sent[s]), q \o in[s] = After(sent[s], h),
         sent'[s] = sent[s] \o u, in'[s] = in[s] \o u
  PROVE  q \o in'[s] = After(sent'[s], h) /\ h <= Len(sent'[s])
<1>1. PICK w \in Seq(Unit), r \in Seq(Unit) : w = sent[s] /\ r = in[s]
  BY MessagesOK
<1>2. h \in 0..Len(w) /\ Len(w) \in Nat
  BY <1>1
<1>3. After(w \o u, h) = After(w, h) \o u
  BY <1>1, <1>2, AfterConcat
<1>4. (q \o r) \o u = q \o (r \o u)
  <2>1. q \in Seq(Unit) /\ r \in Seq(Unit) /\ u \in Seq(Unit)
    BY <1>1
  <2> QED BY <2>1, ConcatThree, SMTT(60)
<1>5. Len(w \o u) = Len(w) + Len(u) /\ Len(u) \in Nat
  BY <1>1, ConcatOK
<1>6. h <= Len(w \o u)
  BY <1>2, <1>5
<1> QED BY <1>1, <1>3, <1>4, <1>6

LEMMA SendsOne ==
  ASSUME Streams, NEW s \in Side, NEW u \in Seq(Unit), Sends(s, u)
  PROVE  /\ Streams' /\ (Counts => Counts')
         /\ sent'[s] = sent[s] \o u /\ in'[s] = in[s] \o u
         /\ \A t \in Side : t # s => sent'[t] = sent[t] /\ in'[t] = in[t]
         /\ UNCHANGED <<service, step, pc, out, asked, plan, patient, read, lately, heard>>
<1>1. /\ UNCHANGED <<service, step, pc, out, asked, plan, patient, read, lately, heard>>
      /\ sent' = [sent EXCEPT ![s] = sent[s] \o u] /\ in' = [in EXCEPT ![s] = in[s] \o u]
  BY DEF Sends, userVars, readVars
<1>2. sent[s] \o u \in Seq(Unit) /\ in[s] \o u \in Seq(Unit)
  <2>1. sent[s] \in Seq(Unit) /\ in[s] \in Seq(Unit)
    BY MessagesOK
  <2> QED BY <2>1, ConcatOK
<1>3. /\ sent' \in [Side -> Seq(Unit)] /\ in' \in [Side -> Seq(Unit)]
      /\ sent'[s] = sent[s] \o u /\ in'[s] = in[s] \o u
      /\ \A t \in Side : t # s => sent'[t] = sent[t] /\ in'[t] = in[t]
  BY <1>1, <1>2 DEF Streams
<1>4. Script' = Script
  BY <1>1 DEF Script
<1>5. Streams'
  BY <1>1, <1>3, <1>4 DEF Streams
<1>6. Counts => Counts'
  BY <1>1, <1>4 DEF Counts, Spoken, Left, Reading
<1> QED BY <1>1, <1>3, <1>5, <1>6

(* The same units, a message or data, for the user and for the host.       *)
LEMMA UserSends ==
  ASSUME Carried, NEW u \in Seq(Unit), Sends("user", u),
         (Spoken /\ patient) \/ Lined =>
           /\ Spelled("user", plan)'
           /\ Spoken /\ pc = "script" => /\ Len(sent'["user"]) = 2 * Messages("user")'
                                         /\ Messages("user")' <= asked["user"]
  PROVE  Carried'
<1>1. Streams /\ Counts /\ UserCarried /\ HostCarried
  BY DEF Carried
<1>2. /\ "user" \in Side /\ "host" \in Side /\ "user" # "host" /\ out["host"] \in Seq(Unit)
      /\ read \in Seq(Unit) /\ in["user"] \in Seq(Unit)
  BY <1>1 DEF Streams, Side
<1>3. /\ Streams' /\ Counts'
      /\ sent'["user"] = sent["user"] \o u /\ in'["user"] = in["user"] \o u
      /\ sent'["host"] = sent["host"] /\ in'["host"] = in["host"]
      /\ UNCHANGED <<service, step, pc, out, asked, plan, patient, read, lately, heard>>
  BY <1>1, <1>2, SendsOne
<1>4. /\ Spoken' = Spoken /\ Lined' = Lined /\ Whole' = Whole /\ Heard' = Heard
      /\ Reading' = Reading /\ HostHeard' = HostHeard
  BY <1>3 DEF Spoken, Lined, Whole, Heard, Reading, Script, HostHeard
<1>5. UserCarried'
  <2>1. ASSUME (Spoken /\ patient) \/ Lined
        PROVE  /\ Heard' <= Len(sent'["user"])
               /\ out'["host"] \o in'["user"] = After(sent'["user"], Heard')
    <3>1. /\ Heard <= Len(sent["user"])
          /\ out["host"] \o in["user"] = After(sent["user"], Heard)
      BY <1>1, <2>1 DEF UserCarried
    <3>2. Heard \in Nat
      <4>1. heard \in Nat /\ Len(read) \in Nat
        BY <1>1, <1>2 DEF Streams
      <4>2. 2 * heard \in Nat /\ 2 * heard + Len(read) \in Nat /\ 2 * heard + 0 \in Nat
        BY <4>1
      <4>3. Heard = 2 * heard + Len(read) \/ Heard = 2 * heard + 0
        BY DEF Heard
      <4> QED BY <4>2, <4>3
    <3>3. PICK h \in Nat : h = Heard
      BY <3>2
    <3>4. /\ out["host"] \o in'["user"] = After(sent'["user"], h)
          /\ h <= Len(sent'["user"])
      BY <1>1, <1>2, <1>3, <3>1, <3>3, SentOn
    <3> QED BY <1>3, <1>4, <3>3, <3>4
  <2>2. ASSUME Spoken, patient, pc = "script", service = "telnet", Reading
        PROVE  \A i \in 1..Len(read) : ~IsEnd(read[i])
    BY <1>1, <2>2 DEF UserCarried
  <2>3. (read \o in["user"]) \o u = read \o in'["user"]
    <3>1. PICK q \in Seq(Unit), r \in Seq(Unit) : q = read /\ r = in["user"]
      BY <1>2
    <3>2. (q \o r) \o u = q \o (r \o u)
      <4>1. q \in Seq(Unit) /\ r \in Seq(Unit) /\ u \in Seq(Unit)
        BY <3>1
      <4> QED BY <4>1, ConcatThree
    <3> QED BY <1>3, <3>1, <3>2
  <2>4. (out["host"] \o in["user"]) \o u = out["host"] \o in'["user"]
    <3>1. PICK q \in Seq(Unit), r \in Seq(Unit) : q = out["host"] /\ r = in["user"]
      BY <1>2
    <3>2. (q \o r) \o u = q \o (r \o u)
      <4>1. q \in Seq(Unit) /\ r \in Seq(Unit) /\ u \in Seq(Unit)
        BY <3>1
      <4> QED BY <4>1, ConcatThree
    <3> QED BY <1>3, <3>1, <3>2
  <2>5. Whole /\ pc' = "script" => sent'["user"] = read' \o in'["user"]
    BY <1>1, <1>3, <2>3 DEF UserCarried
  <2>6. Whole /\ pc' = "pipe" => sent'["user"] = out'["host"] \o in'["user"]
    BY <1>1, <1>3, <2>4 DEF UserCarried
  <2>7. service \in {"mms", "telnet"} /\ pc' = "script" /\ step' <= 2 => read' = <<>>
    BY <1>1, <1>3 DEF UserCarried
  <2>8. ASSUME Spoken, patient, pc = "script"
        PROVE  Len(sent'["user"]) = 2 * Messages("user")' /\ Messages("user")' <= asked'["user"]
    BY <1>3, <2>8
  <2>9. ASSUME (Spoken /\ patient) \/ Lined PROVE Spelled("user", plan)'
    BY <2>9
  <2>10. ASSUME Spoken', patient', pc' = "script", service' = "telnet", Reading'
         PROVE  \A i \in 1..Len(read') : ~IsEnd(read'[i])
    BY <1>3, <1>4, <2>2, <2>10
  <2> QED BY <1>3, <1>4, <2>1, <2>5, <2>6, <2>7, <2>8, <2>9, <2>10 DEF UserCarried
<1> QED BY <1>1, <1>3, <1>4, <1>5, HostStays DEF Carried

LEMMA HostSends ==
  ASSUME Carried, NEW u \in Seq(Unit), Sends("host", u), Spelled("host", HostPlan)',
         service = "pop3" /\ pc = "script" => Len(sent'["host"]) = 2 * Messages("host")'
  PROVE  Carried'
<1>1. Streams /\ Counts /\ UserCarried /\ HostCarried
  BY DEF Carried
<1>2. /\ "user" \in Side /\ "host" \in Side /\ "user" # "host" /\ out["user"] \in Seq(Unit)
      /\ asked["user"] \in Nat
  BY <1>1 DEF Streams, Side
<1>3. /\ Streams' /\ Counts'
      /\ sent'["host"] = sent["host"] \o u /\ in'["host"] = in["host"] \o u
      /\ sent'["user"] = sent["user"] /\ in'["user"] = in["user"]
      /\ UNCHANGED <<service, step, pc, out, asked, plan, patient, read, lately, heard>>
  BY <1>1, <1>2, SendsOne
<1>4. /\ Heard' = Heard /\ Reading' = Reading /\ HostHeard' = HostHeard
  BY <1>3 DEF Heard, Reading, Script, HostHeard
<1>5. UserCarried'
  BY <1>1, <1>2, <1>3, <1>4, UserStays
<1>6. HostCarried'
  <2>1. PICK h \in Nat : h = 2 * HostHeard
    BY DEF HostHeard
  <2>2. h <= Len(sent["host"]) /\ out["user"] \o in["host"] = After(sent["host"], h)
    BY <1>1, <2>1 DEF HostCarried
  <2>3. out["user"] \o in'["host"] = After(sent'["host"], h) /\ h <= Len(sent'["host"])
    BY <1>1, <1>2, <1>3, <2>2, SentOn
  <2> QED BY <1>3, <1>4, <2>1, <2>3 DEF HostCarried
<1> QED BY <1>3, <1>5, <1>6 DEF Carried

LEMMA SpeaksCarried == ASSUME Handled, Carried, NEW s \in Side, Speaks(s) PROVE Carried'
<1>1. Streams /\ UserCarried /\ HostCarried /\ plan \in Nat /\ asked[s] \in Nat
  BY DEF Carried, Streams
<1>2. PICK u \in Seq(Unit) : u = Message(Len(sent[s])) /\ Sends(s, u)
  <2>1. Len(sent[s]) \in Nat
    BY <1>1, MessagesOK
  <2>2. Message(Len(sent[s])) \in Seq(Unit)
    BY <2>1 DEF Message, Unit
  <2> QED BY <2>2 DEF Speaks
<1>3. sent'[s] = sent[s] \o Message(Len(sent[s])) /\ asked' = asked /\ service' = service
  <2>1. Streams /\ Sends(s, u)
    BY <1>1, <1>2
  <2> QED BY <1>2, <2>1, SendsOne
<1>4. Messages(s) \in Nat /\ Messages(s) < asked[s]
  BY <1>1, MessagesOK DEF Speaks
<1>5. CASE s = "user"
  <2>1. Messages("user") < plan
    BY <1>5 DEF Speaks
  <2>2. (Spoken /\ patient) \/ Lined => Spelled("user", plan)
    BY <1>1 DEF UserCarried
  <2>3. (Spoken /\ patient) \/ Lined =>
          /\ Spelled("user", plan)' /\ Messages("user")' = Messages("user") + 1
          /\ Len(sent'["user"]) = 2 * Messages("user") + 2
    <3>1. plan' = plan
      BY <1>2 DEF Sends, userVars
    <3>2. PICK n \in Nat : n = plan
      BY <1>1
    <3>3. Spelled("user", n) =>
            /\ Spelled("user", n)' /\ Messages("user")' = Messages("user") + 1
            /\ Len(sent'["user"]) = 2 * Messages("user") + 2
      BY <1>1, <1>3, <1>5, <2>1, <3>2, MessageSent
    <3>4. Spelled("user", n)' => Spelled("user", plan)'
      BY <3>1, <3>2 DEF Spelled
    <3> QED BY <2>2, <3>2, <3>3, <3>4
  <2>4. (Spoken /\ patient) \/ Lined =>
          /\ Spelled("user", plan)'
          /\ Len(sent'["user"]) = 2 * Messages("user")' /\ Messages("user")' <= asked["user"]
    BY <1>1, <1>4, <1>5, <2>3
  <2> QED BY <1>2, <1>5, <2>4, UserSends
<1>6. CASE s = "host"
  <2>1. Messages("host") < HostPlan
    BY <1>6 DEF Speaks
  <2>2. PICK n \in Nat : n = HostPlan /\ Spelled("host", n) /\ HostPlan' = n
    BY <1>1, <1>3 DEF HostPlan, HostCarried
  <2>3. /\ Spelled("host", n)' /\ Messages("host")' = Messages("host") + 1
        /\ Len(sent'["host"]) = 2 * Messages("host") + 2
    BY <1>1, <1>3, <1>6, <2>1, <2>2, MessageSent
  <2>4. Spelled("host", HostPlan)'
    BY <2>2, <2>3 DEF Spelled
  <2>5. Len(sent'["host"]) = 2 * Messages("host")'
    BY <1>4, <1>6, <2>3
  <2> QED BY <1>2, <1>6, <2>4, <2>5, HostSends
<1> QED BY <1>5, <1>6 DEF Side

(* Data of a user that waits comes when the handshake is over, and so does *)
(* that of the host of a POP3 connection, which waits to be asked.         *)
LEMMA DataCarried == ASSUME Handled, Carried, NEW s \in Side, Data(s) PROVE Carried'
<1>1. Streams /\ Counts /\ UserCarried /\ HostCarried /\ plan \in Nat
  BY DEF Carried, Streams
<1>2. PICK u \in Seq(Unit) : u = <<<<"data", Len(sent[s]) + 1>>>> /\ Sends(s, u)
  <2>1. Len(sent[s]) \in Nat
    BY <1>1, MessagesOK
  <2>2. <<<<"data", Len(sent[s]) + 1>>>> \in Seq(Unit)
    BY <2>1 DEF Unit
  <2> QED BY <2>2 DEF Data
<1>3. sent'[s] = sent[s] \o <<<<"data", Len(sent[s]) + 1>>>> /\ service' = service
  <2>1. Streams /\ Sends(s, u)
    BY <1>1, <1>2
  <2> QED BY <1>2, <2>1, SendsOne
<1>4. CASE s = "user"
  <2>1. Messages("user") = plan
    BY <1>4 DEF Data
  <2>2. patient => pc # "script"
    <3>1. patient => told \in {"ok", "port 0"} \/ out["user"] # <<>>
      BY <1>4 DEF Data, Answered
    <3>2. pc = "script" => told = "" /\ out["user"] = <<>>
      BY <1>1 DEF Handled, Linked, Streams
    <3> QED BY <3>1, <3>2
  <2>3. (Spoken /\ patient) \/ Lined => Spelled("user", plan)'
    <3>1. plan' = plan
      BY <1>2 DEF Sends, userVars
    <3>2. PICK n \in Nat : n = plan
      BY <1>1
    <3>3. Spelled("user", n) => Spelled("user", n)'
      BY <1>1, <1>3, <1>4, <2>1, <3>2, DataSent
    <3>4. Spelled("user", n)' => Spelled("user", plan)'
      BY <3>1, <3>2 DEF Spelled
    <3> QED BY <1>1, <3>2, <3>3, <3>4 DEF UserCarried
  <2>4. Spoken => ~Lined
    BY DEF Spoken, Lined
  <2> QED BY <1>2, <1>4, <2>2, <2>3, <2>4, UserSends
<1>5. CASE s = "host"
  <2>1. Messages("host") = HostPlan
    BY <1>5 DEF Data
  <2>2. PICK n \in Nat : n = HostPlan /\ Spelled("host", n) /\ HostPlan' = n
    BY <1>1, <1>3 DEF HostPlan, HostCarried
  <2>3. Spelled("host", n)'
    BY <1>1, <1>3, <1>5, <2>1, <2>2, DataSent
  <2>4. Spelled("host", HostPlan)'
    BY <2>2, <2>3 DEF Spelled
  <2>5. ~(service = "pop3" /\ pc = "script")
    <3>1. service = "pop3" => asked["host"] > 1
      BY <1>5 DEF Data, HostPlan
    <3>2. service = "pop3" /\ pc = "script" => asked["host"] = 1
      BY <1>1 DEF Counts
    <3> QED BY <3>1, <3>2
  <2> QED BY <1>2, <1>5, <2>4, <2>5, HostSends
<1> QED BY <1>4, <1>5 DEF Side

-----------------------------------------------------------------------------
(* The pipe.                                                               *)

LEMMA PassCarried ==
  ASSUME Carried, NEW k, PassUp(k) \/ PassDown(k)
  PROVE  Carried'
<1>1. Streams /\ Counts /\ UserCarried /\ HostCarried
  BY DEF Carried
<1>2. "user" \in Side /\ "host" \in Side /\ asked["user"] \in Nat
  BY <1>1 DEF Streams, Side
<1>3. PICK f \in Side, t \in Side :
        /\ (f = "user" /\ t = "host") \/ (f = "host" /\ t = "user")
        /\ Pass(f, t, k)
  BY <1>2 DEF PassUp, PassDown
<1>4. /\ UNCHANGED <<service, step, pc, sent, asked, plan, patient, read, lately, heard>>
      /\ pc = "pipe" /\ k \in 1..Len(in[f])
      /\ in' = [in EXCEPT ![f] = After(in[f], k)]
      /\ out' = [out EXCEPT ![t] = out[t] \o Before(in[f], k)]
  BY <1>3 DEF Pass, PassUp, PassDown, StreamPipe, userVars, readVars
<1>5. PICK q \in Seq(Unit), r \in Seq(Unit) : q = out[t] /\ r = in[f]
  BY <1>1, <1>3 DEF Streams
<1>6. k \in 0..Len(r)
  BY <1>4, <1>5
<1>7. /\ Before(r, k) \in Seq(Unit) /\ After(r, k) \in Seq(Unit)
      /\ (q \o Before(r, k)) \o After(r, k) = q \o r
  BY <1>5, <1>6, BeforeOK, AfterOK, PassedOn
<1>8. PICK b \in Seq(Unit) : b = Before(r, k)
  BY <1>7
<1>9. q \o b \in Seq(Unit)
  BY <1>5, <1>8, ConcatOK
<1>10. /\ in' \in [Side -> Seq(Unit)] /\ out' \in [Side -> Seq(Unit)]
       /\ out'[t] \o in'[f] = out[t] \o in[f] /\ in'[t] = in[t] /\ out'[f] = out[f]
  BY <1>1, <1>3, <1>4, <1>5, <1>7, <1>8, <1>9 DEF Streams, Side
<1>11. Script' = Script
  BY <1>4 DEF Script
<1>12. Streams' /\ Counts'
  <2>1. Streams'
    BY <1>1, <1>4, <1>10, <1>11 DEF Streams
  <2>2. Counts'
    BY <1>1, <1>4, <1>11 DEF Counts, Spoken, Left, Reading
  <2> QED BY <2>1, <2>2
<1>13. /\ Spoken' = Spoken /\ Lined' = Lined /\ Whole' = Whole /\ Heard' = Heard
       /\ Reading' = Reading /\ HostHeard' = HostHeard /\ HostPlan' = HostPlan
       /\ Messages("user")' = Messages("user")
       /\ (Spelled("user", plan) => Spelled("user", plan)')
       /\ (Spelled("host", HostPlan) => Spelled("host", HostPlan)')
  BY <1>4, <1>11 DEF Spoken, Lined, Whole, Heard, Reading, HostHeard, HostPlan, Messages,
                     Spelled, Shaped
<1>14. CASE f = "user"
  <2>1. out'["host"] \o in'["user"] = out["host"] \o in["user"]
    BY <1>3, <1>10, <1>14
  <2>2. UserCarried'
    <3>1. (Spoken /\ patient) \/ Lined =>
            /\ Spelled("user", plan)'
            /\ Heard' <= Len(sent'["user"])
            /\ out'["host"] \o in'["user"] = After(sent'["user"], Heard')
      BY <1>1, <1>4, <1>13, <2>1 DEF UserCarried
    <3>2. Whole => sent'["user"] = out'["host"] \o in'["user"]
      BY <1>1, <1>4, <2>1 DEF UserCarried
    <3> QED BY <1>4, <1>13, <3>1, <3>2 DEF UserCarried
  <2>3. HostCarried'
    BY <1>1, <1>3, <1>4, <1>10, <1>13, <1>14, HostStays
  <2> QED BY <1>12, <2>2, <2>3 DEF Carried
<1>15. CASE f = "host"
  <2>1. /\ out'["user"] \o in'["host"] = out["user"] \o in["host"]
        /\ in'["user"] = in["user"] /\ out'["host"] = out["host"]
    BY <1>3, <1>10, <1>15
  <2>2. UserCarried'
    BY <1>1, <1>2, <1>4, <1>13, <2>1, UserStays
  <2>3. HostCarried'
    BY <1>1, <1>4, <1>13, <2>1 DEF HostCarried
  <2> QED BY <1>12, <2>2, <2>3 DEF Carried
<1> QED BY <1>3, <1>14, <1>15

(* What has nothing to do with the streams.                                *)
LEMMA StreamsApart ==
  ASSUME Carried, UNCHANGED <<service, step, pc, sent, in, out, userVars, readVars>>
  PROVE  Carried'
<1>1. /\ UNCHANGED <<asked, plan, patient, read, lately, heard>>
      /\ Script' = Script
  BY DEF userVars, readVars, Script
<1>2. Streams /\ Counts /\ UserCarried /\ HostCarried
  BY DEF Carried
<1>3. Streams'
  BY <1>1, <1>2 DEF Streams
<1>4. Counts'
  BY <1>1, <1>2 DEF Counts, Spoken, Left, Reading
<1>5. /\ Heard' = Heard /\ Reading' = Reading /\ HostHeard' = HostHeard
  BY <1>1 DEF Heard, Reading, HostHeard
<1>6. UserCarried'
  <2>1. asked["user"] \in Nat
    BY <1>2 DEF Streams, Side
  <2> QED BY <1>1, <1>2, <1>5, <2>1, UserStays
<1>7. HostCarried'
  BY <1>1, <1>2, <1>5, HostStays
<1> QED BY <1>3, <1>4, <1>6, <1>7 DEF Carried

LEMMA HandshakeCarried ==
  ASSUME Handled, CarryInv, Handshake, pc' # "end", ~split'
  PROVE  Carried'
<1>0. Placed
  BY DEF Handled
<1>1. CASE SendFails \/ RecvFails \/ Refused \/ ConnectFails \/ AskFails \/ HostFails
           \/ ForwardFails \/ TellFails
  BY <1>1 DEF SendFails, RecvFails, Refused, ConnectFails, AskFails, HostFails, ForwardFails,
              TellFails, Fail
<1>2. CASE NewSocket \/ Send \/ Say \/ Passes \/ Connect \/ TryFails \/ AskHost \/ Tell \/ Open
  <2>1. pc = "script" /\ split' = split
    BY <1>2 DEF NewSocket, Send, Say, Passes, Connect, TryFails, AskHost, Tell, Open, At, readVars
  <2>2. Carried
    BY <2>1 DEF CarryInv
  <2> QED BY <1>0, <1>2, <2>2, QuietStep
<1>3. CASE Line \/ LastLine \/ OtherLine
  <2>1. pc = "script" /\ split' = split
    BY <1>3 DEF Line, LastLine, OtherLine, At
  <2>2. Carried
    BY <2>1 DEF CarryInv
  <2> QED BY <1>0, <1>3, <2>2, LineStep
<1>4. ASSUME NEW k \in 1..Len(in["user"]), Recv(k) PROVE Carried'
  <2>1. pc = "script" /\ ~split
    BY <1>4 DEF Recv, At
  <2>2. Carried
    BY <2>1 DEF CarryInv
  <2> QED BY <1>0, <1>4, <2>2, RecvStep
<1>5. ASSUME NEW k \in 1..Len(in["user"]), Until(k) PROVE Carried'
  <2>1. pc = "script" /\ split' = split
    BY <1>5 DEF Until, At
  <2>2. Carried
    BY <2>1 DEF CarryInv
  <2> QED BY <1>0, <1>5, <2>2, UntilStep
<1>6. CASE AskAgain
  <2>1. pc = "script" /\ split' = split
    BY <1>6 DEF AskAgain, At
  <2>2. Carried
    BY <2>1 DEF CarryInv
  <2> QED BY <1>0, <1>6, <2>2, AgainStep
<1>7. CASE HostLines
  <2>1. pc = "script" /\ split' = split
    BY <1>7 DEF HostLines, At, readVars
  <2>2. Carried
    BY <2>1 DEF CarryInv
  <2> QED BY <1>0, <1>7, <2>2, HostLineStep
<1>8. CASE Forward
  <2>1. pc = "script" /\ ~split
    BY <1>8 DEF Forward, At
  <2>2. Carried
    BY <2>1 DEF CarryInv
  <2> QED BY <1>0, <1>8, <2>2, ForwardStep
<1>9. ASSUME NEW k \in 1..Len(in["host"]), Banner(k) PROVE Carried'
  <2>1. pc = "script" /\ ~split
    BY <1>9 DEF Banner, At
  <2>2. Carried
    BY <2>1 DEF CarryInv
  <2> QED BY <1>0, <1>9, <2>2, BannerStep
<1> QED BY <1>1, <1>2, <1>3, <1>4, <1>5, <1>6, <1>7, <1>8, <1>9 DEF Handshake

LEMMA CarryStep == Handled /\ CarryInv /\ [Next]_vars => CarryInv'
<1> SUFFICES ASSUME Handled, CarryInv, [Next]_vars, pc' \in {"script", "pipe"}, ~split'
             PROVE  Carried'
  BY DEF CarryInv
<1>1. CASE Handshake
  BY <1>1, HandshakeCarried
<1>2. CASE \E s \in Side : Speaks(s) \/ Data(s)
  <2>1. pc' = pc /\ split' = split
    BY <1>2 DEF Speaks, Data, Sends, readVars
  <2>2. Carried
    BY <2>1 DEF CarryInv
  <2> QED BY <1>2, <2>2, SpeaksCarried, DataCarried
<1>3. CASE \/ \E s \in Side : Shuts(s)
           \/ \E g \in Gram : Datagram(g)
           \/ UdpOut \/ UdpBack \/ UNCHANGED vars
  <2>1. UNCHANGED <<service, step, pc, sent, in, out, userVars, readVars>>
    BY <1>3 DEF Shuts, Datagram, UdpOut, UdpBack, Carries, vars, streamVars
  <2>2. Carried
    BY <2>1 DEF CarryInv, readVars
  <2> QED BY <2>1, <2>2, StreamsApart
<1>4. CASE \/ \E k \in 1..Len(in["user"]) : PassUp(k)
           \/ \E k \in 1..Len(in["host"]) : PassDown(k)
  <2>1. pc' = pc /\ split' = split
    BY <1>4 DEF PassUp, PassDown, Pass, readVars
  <2>2. Carried
    BY <2>1 DEF CarryInv
  <2> QED BY <1>4, <2>2, PassCarried
<1>5. CASE PipeEnds \/ UdpEnds \/ End
  BY <1>5 DEF PipeEnds, UdpEnds, ClosePipe, End
<1>6. CASE Done
  BY <1>3, <1>6 DEF Done
<1> QED BY <1>1, <1>2, <1>3, <1>4, <1>5, <1>6 DEF Next, Outside, Thread

LEMMA InitCarried == Init => CarryInv
<1> SUFFICES ASSUME Init PROVE Carried
  BY DEF CarryInv
<1>1. /\ service \in Services /\ plan \in Plans(service) /\ step = 1 /\ pc = "script"
      /\ sent = [s \in Side |-> <<>>] /\ in = sent /\ out = sent
      /\ asked = [s \in Side |-> IF \/ s = "user" /\ service \in SpeaksFirst
                                    \/ s = "host" /\ service = "pop3" THEN 1 ELSE 0]
      /\ read = <<>> /\ lately = 0 /\ heard = 0
  BY DEF Init
<1>2. "user" \in Side /\ "host" \in Side /\ <<>> \in Seq(Unit) /\ Len(<<>>) = 0
  BY DEF Side
<1>3. \A s \in Side : sent[s] = <<>> /\ in[s] = <<>> /\ out[s] = <<>>
  BY <1>1
<1>4. service \in Service /\ MaxLines \in Nat
  BY <1>1, RelayAssumption DEF Service
<1>5. plan \in Nat
  BY <1>1, <1>4 DEF Plans, Service
<1>6. Streams
  <2>1. asked \in [Side -> Nat] /\ lately \in 0..Len(read) /\ read \in Seq(Unit)
    BY <1>1, <1>2
  <2>2. sent \in [Side -> Seq(Unit)]
    BY <1>1, <1>2
  <2> QED BY <1>1, <1>2, <1>3, <1>5, <2>1, <2>2 DEF Streams
<1>7. Counts
  <2>1. Spoken => plan = Left
    BY <1>1 DEF Spoken, Left, Plans
  <2>2. Spoken => asked["user"] = IF Reading THEN 1 ELSE 0
    BY <1>1, <1>2 DEF Spoken, Reading, SpeaksFirst, Script, Socks4, Connect5, Login5, Telnet,
                      Redirect
  <2>3. service \in {"smtp", "pop3"} => 0 < plan
    BY <1>1, <1>4 DEF Plans
  <2>4. service = "smtpfree" => 0 + 1 < plan
    BY <1>1, <1>4 DEF Plans
  <2>5. service = "pop3" => asked["host"] = 1
    BY <1>1, <1>2
  <2>6. 0 + Left = Left
    BY DEF Left
  <2> QED BY <1>1, <2>1, <2>2, <2>3, <2>4, <2>5, <2>6 DEF Counts
<1>8. ASSUME NEW s \in Side, NEW n \in Nat PROVE Messages(s) = 0 /\ Spelled(s, n)
  <2>1. Ends(s) = {}
    BY <1>2, <1>3 DEF Ends
  <2>2. Messages(s) = 0
    BY <1>6, <2>1, MessagesOK, FS_EmptySet
  <2> QED BY <1>2, <1>3, <2>2 DEF Spelled, Shaped
<1>9. After(<<>>, 0) = <<>> /\ <<>> \o <<>> = <<>>
  <2>1. <<>> \in Seq(Unit) /\ 0 \in 0..Len(<<>>)
    BY <1>2
  <2>3. /\ After(<<>>, 0) \in Seq(Unit) /\ Len(After(<<>>, 0)) = Len(<<>>) - 0
    BY <2>1, AfterOK
  <2>4. PICK a \in Seq(Unit) : a = After(<<>>, 0) /\ Len(a) = 0
    BY <1>2, <2>3
  <2>5. a = <<>>
    BY <2>4
  <2> QED BY <2>4, <2>5
<1>10. Heard = 0 /\ HostHeard = 0 /\ HostPlan \in Nat
  BY <1>1, <1>2, <1>4 DEF Heard, HostHeard, HostPlan
<1>11. UserCarried
  <2>1. Spelled("user", plan) /\ Messages("user") = 0
    BY <1>2, <1>5, <1>8
  <2>2. out["host"] \o in["user"] = After(sent["user"], 0)
    BY <1>2, <1>3, <1>9
  <2>3. sent["user"] = read \o in["user"]
    BY <1>1, <1>2, <1>3
  <2>4. asked["user"] \in Nat /\ Len(sent["user"]) = 0
    BY <1>1, <1>2, <1>3
  <2>5. pc # "pipe" /\ read = <<>> /\ \A i \in 1..Len(read) : FALSE
    BY <1>1, <1>2
  <2>6. /\ Heard <= Len(sent["user"]) /\ Len(sent["user"]) = 2 * Messages("user")
        /\ Messages("user") <= asked["user"]
        /\ out["host"] \o in["user"] = After(sent["user"], Heard)
    BY <1>10, <2>1, <2>2, <2>4
  <2> QED BY <2>1, <2>3, <2>5, <2>6 DEF UserCarried
<1>12. HostCarried
  <2>1. Spelled("host", HostPlan) /\ Messages("host") = 0
    BY <1>2, <1>8, <1>10
  <2>2. out["user"] \o in["host"] = After(sent["host"], 0) /\ Len(sent["host"]) = 0
    BY <1>2, <1>3, <1>9
  <2>3. 2 * HostHeard = 0
    BY <1>10
  <2> QED BY <2>1, <2>2, <2>3 DEF HostCarried
<1> QED BY <1>6, <1>7, <1>11, <1>12 DEF Carried

(* What is passed on is the payload once as many messages are read as were *)
(* to come.                                                                *)
LEMMA RestIsPayload ==
  ASSUME Streams, NEW s \in Side, NEW n \in Nat, Spelled(s, n), 2 * n <= Len(sent[s])
  PROVE  LastEnd(s) = 2 * n
<1>1. PICK m \in Nat, l \in Nat : m = Messages(s) /\ l = Len(sent[s])
  BY MessagesOK
<1>2. m <= n /\ (l > 2 * m => m = n) /\ 2 * n <= l
  BY <1>1 DEF Spelled
<1>3. m = n
  BY <1>2
<1> QED BY <1>1, <1>3, LastEndOK DEF Spelled

(* However many messages and data the two sides send, and however they    *)
(* reach the recvs: if every message was whole when it was taken, and the  *)
(* user waited where the handshake does not read exactly, what is behind   *)
(* it is passed on whole, in order and once, in every protocol (the        *)
(* create_*_connect and create_select_pipe).                               *)
THEOREM NothingIsLost == Spec => []NothingLost
<1>1. Handled /\ CarryInv => NothingLost
  <2> SUFFICES ASSUME Handled, CarryInv, pc = "pipe", link = "up", ~split
               PROVE  /\ patient \/ ReadsExactly =>
                           out["host"] \o in["user"] = Payload("user")
                      /\ out["user"] \o in["host"] = Payload("host")
    BY DEF NothingLost
  <2>1. Streams /\ Counts /\ UserCarried /\ HostCarried
    BY DEF CarryInv, Carried
  <2>2. step = Len(Script) /\ service \in Service \ {"bind", "associate"}
    BY <2>1 DEF Handled, Placed, Linked, Streams
  <2>3. "user" \in Side /\ "host" \in Side /\ plan \in Nat /\ heard \in Nat
    BY <2>1 DEF Streams, Side
  <2>4. (Spoken \/ Lined => heard = plan /\ Heard = 2 * plan) /\ HostHeard = HostPlan
    <3>1. Spoken => Left = 0
      BY <2>2 DEF Spoken, Left, Script, Socks4, Connect5, Login5, Telnet, Redirect
    <3>2. Spoken => heard = plan
      BY <2>1, <2>3, <3>1 DEF Counts
    <3>3. Lined => heard = plan
      BY <2>1, <2>2 DEF Lined, Counts, Script, Smtp, SmtpFree, Pop3
    <3>4. Heard = 2 * heard + 0
      BY DEF Heard, Reading
    <3>5. HostHeard = HostPlan
      BY <2>2 DEF HostHeard, HostPlan, Script, Smtp, SmtpFree, Pop3
    <3> QED BY <2>3, <3>2, <3>3, <3>4, <3>5
  <2>5. ASSUME patient \/ ReadsExactly
        PROVE  out["host"] \o in["user"] = Payload("user")
    <3>1. CASE Whole
      BY <2>1, <3>1 DEF UserCarried, Whole, Payload
    <3>2. CASE ~Whole
      <4>1. (Spoken /\ patient) \/ Lined
        BY <2>2, <2>5, <3>2 DEF Service, Spoken, Lined, Whole, ReadsExactly
      <4>2. /\ Spelled("user", plan) /\ 2 * plan <= Len(sent["user"])
            /\ out["host"] \o in["user"] = After(sent["user"], 2 * plan)
        BY <2>1, <2>4, <4>1 DEF UserCarried
      <4>3. LastEnd("user") = 2 * plan
        BY <2>1, <2>3, <4>2, RestIsPayload
      <4> QED BY <3>2, <4>2, <4>3 DEF Payload, Whole
    <3> QED BY <3>1, <3>2
  <2>6. out["user"] \o in["host"] = Payload("host")
    <3>1. /\ Spelled("host", HostPlan) /\ 2 * HostPlan <= Len(sent["host"])
          /\ out["user"] \o in["host"] = After(sent["host"], 2 * HostPlan)
          /\ HostPlan \in Nat
      BY <2>1, <2>4 DEF HostCarried, HostPlan
    <3>2. LastEnd("host") = 2 * HostPlan
      BY <2>1, <2>3, <3>1, RestIsPayload
    <3> QED BY <3>1, <3>2 DEF Payload
  <2> QED BY <2>5, <2>6
<1>2. Spec => []CarryInv
  <2>1. Init => CarryInv
    BY InitCarried
  <2> QED BY <2>1, CarryStep, SpecHandled, PTL DEF Spec
<1> QED BY <1>1, <1>2, SpecHandled, PTL
=============================================================================
