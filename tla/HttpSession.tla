---------------------------- MODULE HttpSession ----------------------------
(***************************************************************************)
(* One client connection of the HTTP proxy: run_client and http_start      *)
(* (src/src/run_client.cpp) with what they call in src/src/http_utils.cpp, *)
(* from the read of a request to the end of its answer, and on to the next *)
(* request of a connection that is kept.                                   *)
(*                                                                         *)
(* Data are units.  A request is a head and some units of body, as they    *)
(* arrive from the client; the answer of an origin is HeadLen units of     *)
(* head and numbered units of body, of which each recv takes some.  A unit *)
(* of a body is <<i, n>>: the n-th of the answer to request i.             *)
(***************************************************************************)
EXTENDS Integers, Sequences

CONSTANTS
  NReq,      \* bound: requests that the client sends
  HeadLen,   \* units of the head of an origin's answer
  BodyLen,   \* bound: units of a body
  AnswSize,  \* ANSW_SIZE: units that load_head reads at most
  Kinds      \* the kinds of request of the instance

ASSUME SessionAssumption ==
  /\ NReq \in Nat /\ HeadLen \in Nat \ {0} /\ BodyLen \in Nat
  /\ AnswSize \in Nat /\ AnswSize >= HeadLen
  /\ Kinds \subseteq {"get", "cond", "form", "cached", "page", "redirect",
                      "refused"}

VARIABLES
  polite,  \* whether the client waits for the end of an answer
  sent,    \* the requests sent so far
  todo,    \* units of body that the client has still to send
  up,      \* units that have arrived from the client and are not read
  gone,    \* whether the client has closed
  pc,      \* where run_client is
  rq,      \* the number of the request, 0 before the first
  data,    \* rq.data
  leave,   \* rq.leave_to_read
  ans,     \* what the client got in answer to rq
  last,    \* the answer after which the connection was kept
  origin,  \* the origin and its answer
  tot,     \* units read from the origin
  got,     \* whether the last recv of load_body got something: its r > 0
  body,    \* obj->container of the object that is filled
  reval,   \* whether it is to replace the cached one
  fwd,     \* units of the client sent on to the origin
  obj      \* the cached object of the one URL

clientVars == <<polite, sent, todo, up, gone>>
fetchVars  == <<origin, tot, got, body, reval, fwd>>
vars == <<clientVars, pc, rq, data, leave, ans, last, fetchVars, obj>>

NoObj    == [len |-> 0, body |-> <<>>, is |-> FALSE]
NoOrigin == [kind |-> "none", len |-> 0, has |-> 0]
Blank(i) == [rq |-> i, head |-> "none", len |-> 0, body |-> <<>>, fault |-> "none"]

Request == [kind : Kinds, keep : BOOLEAN, body : 0..1]

(* A client knows the end of an answer whose length is declared.           *)
Complete(a) == a.head = "sized" /\ Len(a.body) = a.len
Units(i, n) == [k \in 1..n |-> <<i, k>>]
IsWhole(b, n) == \E i \in 1..NReq : b = Units(i, n)

First(s, k) == SubSeq(s, 1, k)
Rest(s, k)  == SubSeq(s, k + 1, Len(s))

-----------------------------------------------------------------------------
(* The client.  A polite one sends a request when the answer to the one    *)
(* before is complete, any other whenever it likes.                        *)

Answered == \/ sent = <<>>
            \/ ans.rq = Len(sent) /\ Complete(ans)
            \/ last.rq = Len(sent) /\ Complete(last)

ClientSend(r) ==
  /\ ~gone /\ todo = 0 /\ Len(sent) < NReq
  /\ polite => Answered
  /\ r.body > 0 => r.kind \in {"get", "form"}
  /\ sent' = Append(sent, r)
  /\ todo' = r.body
  /\ up' = Append(up, <<Len(sent) + 1, "head">>)
  /\ UNCHANGED <<polite, gone>>

ClientBody ==
  /\ ~gone /\ todo > 0
  /\ todo' = todo - 1
  /\ up' = Append(up, <<Len(sent), "body">>)
  /\ UNCHANGED <<polite, sent, gone>>

ClientClose ==
  /\ ~gone
  /\ gone' = TRUE
  /\ UNCHANGED <<polite, sent, todo, up>>

Client ==
  /\ pc # "closed"
  /\ \/ \E r \in Request : ClientSend(r)
     \/ ClientBody
     \/ ClientClose
  /\ UNCHANGED <<pc, rq, data, leave, ans, last, fetchVars, obj>>

ClientReadable == up # <<>> \/ gone

-----------------------------------------------------------------------------
(* The end of a request: run_client closes, or reads the next one.         *)

Close(a) ==
  /\ pc' = "closed"
  /\ ans' = a
  /\ UNCHANGED last

(* result is that of http_start.  Variant: the client alone decides.       *)
KeepAsAsked(a, result) ==
  IF sent[rq].keep
  THEN pc' = "read" /\ last' = a /\ ans' = Blank(0)
  ELSE Close(a)

Keep(a, result) ==
  IF result /\ sent[rq].keep
  THEN pc' = "read" /\ last' = a /\ ans' = Blank(0)
  ELSE Close(a)

-----------------------------------------------------------------------------
(* Reading a request.  What comes with the head in one recv is taken for   *)
(* body if the head declares one, and is dropped with the buffer if not.   *)

(* Variant: the units that came with the head do not count as read.        *)
LeaveAll(r, extra) == r.body

LeaveToRead(r, extra) == IF r.body > 0 THEN r.body - Len(extra) ELSE 0

ReadRequest(k) ==
  LET i     == up[1][1]
      r     == sent[i]
      extra == SubSeq(up, 2, k)
  IN /\ pc = "read"
     /\ k \in 1..Len(up)
     /\ up' = Rest(up, k)
     /\ \/ /\ up[1][2] = "head"
           /\ rq' = i
           /\ data' = IF r.body > 0 THEN extra ELSE <<>>
           /\ leave' = LeaveToRead(r, extra)
           /\ ans' = Blank(i)
           /\ pc' = "route"
           /\ UNCHANGED last
        \/ /\ up[1][2] = "body"          \* "Bad request format."
           /\ Close([Blank(i) EXCEPT !.head = "open"])
           /\ UNCHANGED <<rq, data, leave>>
     /\ UNCHANGED <<polite, sent, todo, gone, fetchVars, obj>>

(* Variant: a recv of nothing is tried again.                              *)
NoRequestPolls == pc = "read" /\ up = <<>> /\ UNCHANGED vars

(* recv2 returns nothing: the client has closed, or says nothing until the *)
(* time is out.                                                            *)
NoRequest ==
  /\ pc = "read" /\ up = <<>>
  /\ Close(ans)
  /\ UNCHANGED <<clientVars, rq, data, leave, fetchVars, obj>>

-----------------------------------------------------------------------------
(* run_client and http_start until the request needs an origin.            *)

(* No rule lets the host through or it has no address; or CONNECT, ftp and *)
(* every other protocol: the connection ends with them.                    *)
Refuse ==
  /\ pc = "route" /\ sent[rq].kind = "refused"
  /\ Close([ans EXCEPT !.head = "open"])
  /\ UNCHANGED <<clientVars, rq, data, leave, fetchVars, obj>>

(* A page has a Content-length; a redirect of the pages has none.          *)
Manage ==
  /\ pc = "route" /\ sent[rq].kind \in {"page", "redirect"}
  /\ IF sent[rq].kind = "page"
     THEN Keep([ans EXCEPT !.head = "sized"], TRUE)
     ELSE Keep([ans EXCEPT !.head = "open", !.fault = "redirect"], TRUE)
  /\ UNCHANGED <<clientVars, rq, data, leave, fetchVars, obj>>

(* Too many requests for the URL: http_start returns without an answer.    *)
Fatboy ==
  /\ pc = "route"
  /\ sent[rq].kind = "form" \/ (sent[rq].kind \in {"get", "cond"} /\ ~obj.is)
  /\ Keep(ans, FALSE)
  /\ UNCHANGED <<clientVars, rq, data, leave, fetchVars, obj>>

FromObject(a) == [a EXCEPT !.head = "sized", !.len = obj.len, !.body = obj.body]

(* send_data_from_obj: the file of an object may be unreadable.  Only the  *)
(* plain path of send_from_mem looks at the result.                        *)
SendObject(checked) ==
  \/ Keep(FromObject(ans), TRUE) /\ UNCHANGED obj
  \/ /\ obj' = NoObj
     /\ IF checked THEN Keep(ans, FALSE)
        ELSE Keep([ans EXCEPT !.fault = "unreadable"], TRUE)
  \/ /\ gone
     /\ IF checked THEN Keep(ans, FALSE) ELSE Keep([ans EXCEPT !.fault = "gone"], TRUE)
     /\ UNCHANGED obj

(* An object that is not there is answered with an empty one.              *)
OnlyIfCached ==
  /\ pc = "route" /\ sent[rq].kind = "cached"
  /\ Keep(IF obj.is THEN FromObject(ans) ELSE [ans EXCEPT !.head = "open"], FALSE)
  /\ UNCHANGED <<clientVars, rq, data, leave, fetchVars, obj>>

(* send_from_mem without the origin: the object is fresh, or was looked at *)
(* less than refresh_time ago.                                             *)
SendFresh ==
  /\ pc = "route" /\ sent[rq].kind = "get" /\ obj.is
  /\ SendObject(TRUE)
  /\ UNCHANGED <<clientVars, rq, data, leave, fetchVars>>

SendRecent ==
  /\ pc = "route" /\ sent[rq].kind \in {"get", "cond"} /\ obj.is
  /\ SendObject(FALSE)
  /\ UNCHANGED <<clientVars, rq, data, leave, fetchVars>>

NotModifiedFromMem ==
  /\ pc = "route" /\ sent[rq].kind = "cond" /\ obj.is
  /\ Keep([ans EXCEPT !.head = "sized"], TRUE)
  /\ UNCHANGED <<clientVars, rq, data, leave, fetchVars, obj>>

-----------------------------------------------------------------------------
(* The request goes to the origin: srv_connect and the send of what        *)
(* build_direct_request made, for send_not_cached and for fill_mem_obj.    *)

(* dead_obj: a revalidation that ends without a new object kills the old.  *)
Bury == obj' = IF reval THEN NoObj ELSE obj

OriginKinds(r) ==
  {"plain", "nolen", "raw"} \cup
  (IF r.kind = "cond" \/ (r.kind = "get" /\ obj.is) THEN {"notmod"} ELSE {})

Connect ==
  /\ pc = "route" /\ sent[rq].kind \in {"get", "cond", "form"}
  /\ \E kind \in OriginKinds(sent[rq]), len \in 0..BodyLen :
       \E has \in 0..len + 1 :
         /\ IF kind = "plain" THEN len > 0 ELSE has = len
         /\ kind = "notmod" => len = 0
         /\ origin' = [kind |-> kind, len |-> len, has |-> has]
  /\ reval' = (obj.is /\ sent[rq].kind # "form")
  /\ pc' = "request"
  /\ tot' = 0 /\ got' = FALSE /\ body' = <<>> /\ fwd' = <<>>
  /\ UNCHANGED <<clientVars, rq, data, leave, ans, last, obj>>

ConnectFails ==
  /\ pc = "route" /\ sent[rq].kind \in {"get", "cond", "form"}
  /\ Keep(ans, FALSE)
  /\ obj' = IF sent[rq].kind = "form" THEN obj ELSE NoObj
  /\ UNCHANGED <<clientVars, rq, data, leave, fetchVars>>

(* Variant: the body that came with the head is not sent on.               *)
HeadOnly == <<<<rq, "head">>>>

RequestUnits == <<<<rq, "head">>>> \o IF sent[rq].kind = "form" THEN data ELSE <<>>

SendRequest ==
  /\ pc = "request"
  /\ fwd' = RequestUnits
  /\ pc' = IF sent[rq].kind = "form" THEN "pipe_form" ELSE "head"
  /\ UNCHANGED <<clientVars, rq, data, leave, ans, last, origin, tot, got,
                 body, reval, obj>>

(* "Can't send": fill_mem_obj returns what send did, which is not          *)
(* CONNECT_ERR, and the connection may be kept.                            *)
SendRequestFails ==
  /\ pc = "request"
  /\ Keep([ans EXCEPT !.head = "open", !.fault = "cannot_send"],
          sent[rq].kind # "form")
  /\ Bury
  /\ UNCHANGED <<clientVars, rq, data, leave, fetchVars>>

-----------------------------------------------------------------------------
(* load_head.                                                              *)

CloseFetch ==
  /\ Keep(ans, FALSE)
  /\ Bury
  /\ UNCHANGED <<clientVars, rq, data, leave, fetchVars>>

(* The client is readable, the time is out, or the origin has closed.      *)
HeadFails == pc = "head" /\ CloseFetch

(* The new header is sent, with the units of body that the parser saw.     *)
HeadOk(seen) ==
  /\ ans' = [ans EXCEPT !.head = IF origin.kind = "plain" THEN "sized" ELSE "open",
                        !.len = origin.len, !.body = Units(rq, seen)]
  /\ body' = Units(rq, seen)
  /\ pc' = IF origin.kind = "plain" THEN "body" ELSE "pipe_nolen"
  /\ UNCHANGED <<last, obj>>

(* The buffer is sent on as it is, and the connection will be closed.      *)
HeadRaw(t) ==
  /\ ans' = [ans EXCEPT !.head = "open",
                        !.body = Units(rq, IF t > HeadLen THEN t - HeadLen ELSE 0)]
  /\ pc' = "pipe_raw"
  /\ UNCHANGED <<last, body, obj>>

NotModified ==
  /\ IF reval /\ sent[rq].kind = "get"
     THEN SendObject(FALSE)
     ELSE Keep([ans EXCEPT !.head = "sized"], TRUE) /\ UNCHANGED obj
  /\ UNCHANGED body

(* check_server_headers is called with the length of the last recv, and so *)
(* sees that many units from the start of the buffer.                      *)
Seen(k) == k

ReadHead(k) ==
  /\ pc = "head" /\ ~ClientReadable
  /\ k \in 1..HeadLen + origin.has - tot
  /\ tot + k <= AnswSize
  /\ tot' = tot + k
  /\ IF Seen(k) < HeadLen
     THEN IF tot + k = AnswSize
          THEN HeadRaw(tot + k)
          ELSE UNCHANGED <<pc, ans, last, body, obj>>
     ELSE CASE origin.kind \in {"plain", "nolen"} -> HeadOk(Seen(k) - HeadLen)
            [] origin.kind = "raw"                -> HeadRaw(tot + k)
            [] origin.kind = "notmod"             -> NotModified
  /\ UNCHANGED <<clientVars, rq, data, leave, origin, got, reval, fwd>>

-----------------------------------------------------------------------------
(* load_body.                                                              *)

(* Units tot + 1 .. tot + k of the answer, those of its head left out.     *)
Arrived(k) == SubSeq(Units(rq, BodyLen + 1),
                     IF tot < HeadLen THEN 1 ELSE tot - HeadLen + 1,
                     tot + k - HeadLen)

(* More than was declared: the rest is piped, and nothing is stored.       *)
ReadBody(k) ==
  /\ pc = "body" /\ ~ClientReadable
  /\ k \in 1..HeadLen + origin.has - tot
  /\ tot' = tot + k /\ got' = TRUE
  /\ ans' = [ans EXCEPT !.body = @ \o Arrived(k)]
  /\ IF Len(body) + k > origin.len
     THEN pc' = "pipe_long" /\ UNCHANGED body
     ELSE body' = body \o Arrived(k) /\ UNCHANGED pc
  /\ UNCHANGED <<clientVars, rq, data, leave, last, origin, reval, fwd, obj>>

(* Variant: what there is when the reading stops is the object.            *)
AnyBody == TRUE

(* body_size == obj->content_length, and not 0.                            *)
BodyIsAll == Len(body) = origin.len /\ origin.len > 0

Store == obj' = [len |-> origin.len, body |-> body, is |-> TRUE]

(* load_body returns 1 for a whole body, and else r of its last recv: what *)
(* stopped in the middle counts as a success, and only FLAG_DEAD keeps the *)
(* object out of the cache.                                                *)
LoadStops(fault) ==
  /\ IF got THEN Keep([ans EXCEPT !.fault = fault], TRUE) ELSE Keep(ans, FALSE)
  /\ Bury
  /\ UNCHANGED <<clientVars, rq, data, leave, fetchVars>>

(* The origin has closed, the time is out, or the client is readable.      *)
BodyDone ==
  /\ pc = "body" /\ BodyIsAll
  /\ Store /\ Keep(ans, TRUE)
  /\ UNCHANGED <<clientVars, rq, data, leave, fetchVars>>

BodyShort == pc = "body" /\ ~BodyIsAll /\ CloseFetch

(* The time is out, or the client is readable, or cannot be sent to.       *)
BodyStops ==
  /\ pc = "body" /\ (~BodyIsAll \/ gone)
  /\ LoadStops(IF ClientReadable THEN "interrupted" ELSE "stalled")

LongEnds == pc = "pipe_long" /\ LoadStops("overlong")

(* send to the client fails.                                               *)
ClientSendFails ==
  /\ pc \in {"pipe_nolen", "pipe_raw", "pipe_form"} /\ gone
  /\ CloseFetch

-----------------------------------------------------------------------------
(* create_select_pipe, after a head without length ("nolen"), behind an    *)
(* answer that is passed on as it is ("raw"), and for a request that is    *)
(* not cached ("form").  The client may send no more than max_server_len:  *)
(* 0, or without limit while the body of the request is not read.          *)

Piping == pc \in {"pipe_nolen", "pipe_raw", "pipe_form", "pipe_long"}

ClientIsShut == pc # "pipe_form" \/ leave = 0

PipeUp(k) ==
  /\ Piping /\ ~ClientIsShut
  /\ k \in 1..Len(up)
  /\ up' = Rest(up, k)
  /\ fwd' = fwd \o First(up, k)
  /\ UNCHANGED <<polite, sent, todo, gone, pc, rq, data, leave, ans, last, origin,
                 tot, got, body, reval, obj>>

(* -2: the client is readable and may send nothing.  After a head without  *)
(* length it counts as the end of the answer.                              *)
PipeInterrupted ==
  /\ Piping /\ pc # "pipe_long" /\ ClientIsShut /\ ClientReadable
  /\ IF pc = "pipe_nolen"
     THEN Keep([ans EXCEPT !.fault = "interrupted"], TRUE)
     ELSE Keep(ans, FALSE)
  /\ Bury
  /\ UNCHANGED <<clientVars, rq, data, leave, fetchVars>>

PipeDown(k) ==
  /\ Piping /\ ~ClientReadable            \* the client is asked first
  /\ k \in 1..HeadLen + origin.has - tot
  /\ tot' = tot + k
  /\ ans' = [ans EXCEPT !.head = IF @ = "none" THEN "open" ELSE @,
                        !.body = @ \o Arrived(k)]
  /\ UNCHANGED <<clientVars, pc, rq, data, leave, last, origin, got, body, reval,
                 fwd, obj>>

(* The origin or the client has closed, or the time is out.                *)
PipeEnds ==
  /\ Piping /\ pc # "pipe_long"
  /\ up = <<>> /\ ~(gone /\ ClientIsShut)
  /\ CloseFetch

-----------------------------------------------------------------------------
Init ==
  /\ polite \in BOOLEAN
  /\ sent = <<>> /\ todo = 0 /\ up = <<>> /\ gone = FALSE
  /\ pc = "read" /\ rq = 0 /\ data = <<>> /\ leave = 0
  /\ ans = Blank(0) /\ last = Blank(0)
  /\ origin = NoOrigin /\ tot = 0 /\ got = FALSE /\ body = <<>> /\ reval = FALSE /\ fwd = <<>>
  /\ obj = NoObj

Worker ==
  \/ \E k \in 1..Len(up) : ReadRequest(k) \/ PipeUp(k)
  \/ NoRequest \/ Refuse \/ Manage \/ Fatboy
  \/ OnlyIfCached \/ SendFresh \/ SendRecent \/ NotModifiedFromMem
  \/ Connect \/ ConnectFails \/ SendRequest \/ SendRequestFails
  \/ HeadFails \/ BodyDone \/ BodyShort \/ BodyStops \/ LongEnds
  \/ ClientSendFails
  \/ \E k \in 1..HeadLen + BodyLen + 1 : ReadHead(k) \/ ReadBody(k) \/ PipeDown(k)
  \/ PipeInterrupted \/ PipeEnds

(* The thread is free for another connection.                              *)
Done == pc = "closed" /\ UNCHANGED vars

Next == Client \/ Worker \/ Done

Spec == Init /\ [][Next]_vars

(* The thread runs, and every wait of it ends: it has a time limit.        *)
FairSpec == Spec /\ WF_vars(Worker)
-----------------------------------------------------------------------------
(* Types; load_head never writes behind its buffer of ANSW_SIZE, and data  *)
(* and leave_to_read together are the body that the request declares.      *)
TypeOK ==
  /\ polite \in BOOLEAN /\ gone \in BOOLEAN /\ got \in BOOLEAN /\ reval \in BOOLEAN
  /\ sent \in Seq(Request) /\ Len(sent) <= NReq /\ todo \in 0..1
  /\ up \in Seq((1..NReq) \X {"head", "body"})
  /\ fwd \in Seq((1..NReq) \X {"head", "body"})
  /\ pc \in {"read", "route", "request", "head", "body", "pipe_nolen", "pipe_raw",
             "pipe_form", "pipe_long", "closed"}
  /\ rq \in 0..Len(sent) /\ leave \in Int
  /\ pc \notin {"read", "closed"} => rq > 0 /\ ans.rq = rq
  /\ pc = "head" => tot < AnswSize
  /\ rq > 0 => leave = IF sent[rq].body > 0 THEN sent[rq].body - Len(data) ELSE 0
  /\ body \in Seq((1..NReq) \X Nat) /\ obj.body \in Seq((1..NReq) \X Nat)

(* After an answer the connection is kept for another request only if the  *)
(* client can tell where the answer ended: run_client, http_start and the  *)
(* results of fill_mem_obj and send_from_mem.  The exceptions of the code  *)
(* carry a fault, and are these seven.                                     *)
KeptIsWhole ==
  last.rq # 0 =>
    \/ Complete(last) /\ last.fault = "none"
    \/ last.fault \in {"cannot_send", "unreadable", "redirect", "stalled",
                       "overlong", "gone"}
    \/ last.fault = "interrupted"
       /\ (~polite \/ gone \/ \E i \in 1..Len(sent) : sent[i].body > 0)

(* Unless the origin sends more than it declares, what enters the cache is *)
(* the whole body of one answer, in order and without a gap: load_body and *)
(* stored_obj, however the reads fall and whatever interrupts them.        *)
StoredIsWhole ==
  [][obj'.is /\ obj' # obj /\ origin.has <= origin.len
       => IsWhole(obj'.body, obj'.len)]_vars

(* The origin of a request that is not cached gets the head and the body   *)
(* of that request, nothing lost and nothing else, whatever part of the    *)
(* body came with the head: check_headers and send_not_cached.             *)
FormForwarded ==
  polite /\ pc = "pipe_form" =>
    fwd \o up = <<<<rq, "head">>>>
                \o [k \in 1..sent[rq].body - todo |-> <<rq, "body">>]

(* The thread of a client that is gone becomes free, wherever it is in a   *)
(* request: every wait of run_client and below ends.                       *)
GoneIsLeft == gone ~> (pc = "closed")
=============================================================================
