---------------------------- MODULE SessionProofs ----------------------------
(***************************************************************************)
(* Theorems about a client connection of the HTTP proxy, for any number of *)
(* requests, any length of heads and bodies and any size of the buffer.    *)
(***************************************************************************)
EXTENDS HttpSession, SequenceTheorems, TLAPS

Busy == {"route", "request", "head", "body", "pipe_nolen", "pipe_raw", "pipe_form", "pipe_long"}

Unit == (1..NReq) \X {"head", "body"}

(* A request is one that the client has sent.                              *)
Numbered ==
  /\ sent \in Seq(Request) /\ Len(sent) <= NReq /\ up \in Seq(Unit)
  /\ pc \in {"read", "closed"} \cup Busy
  /\ pc \in Busy => rq \in 1..NReq
  /\ todo \in Nat /\ (todo > 0 => sent # <<>>)

(* While an object is filled its container has no more than arrived, and   *)
(* what arrived unless something of it was missed.                         *)
Filled ==
  /\ tot \in Nat
  /\ origin.len \in Nat /\ origin.has \in 0..BodyLen + 1
  /\ pc \in {"request", "head"} => origin.kind \in {"plain", "nolen", "raw", "notmod"}
  /\ tot <= HeadLen + origin.has
  /\ body \in Seq((1..NReq) \X Nat)
  /\ pc = "body" =>
       /\ tot >= HeadLen /\ Len(body) <= tot - HeadLen
       /\ Len(body) = tot - HeadLen => body = Units(rq, tot - HeadLen)

LEMMA InitFilled == Init => Numbered /\ Filled
BY SessionAssumption DEF Init, Numbered, Filled, NoOrigin, Busy

LEMMA NumberedStep ==
  ASSUME Numbered, Filled, [Next]_vars
  PROVE  Numbered'
<1> USE SessionAssumption DEF Numbered
<1>1. CASE UNCHANGED <<sent, todo, up>> /\ (pc' = pc \/ pc' \in {"read", "closed"}) /\ rq' = rq
  BY <1>1 DEF Busy
<1>2. CASE UNCHANGED <<sent, todo, up, rq>> /\ pc \in Busy /\ pc' \in Busy
  BY <1>2 DEF Busy
<1>3. CASE Client
  <2>1. ASSUME NEW r \in Request, ClientSend(r) PROVE Numbered'
    <3>1. Len(sent) + 1 \in 1..NReq /\ <<Len(sent) + 1, "head">> \in Unit
      BY <2>1 DEF ClientSend, Unit
    <3> QED BY <1>3, <2>1, <3>1 DEF ClientSend, Client, Request, fetchVars
  <2>2. CASE ClientBody
    <3>1. <<Len(sent), "body">> \in Unit
      BY <2>2 DEF ClientBody, Unit
    <3> QED BY <1>3, <2>2, <3>1 DEF ClientBody, Client
  <2>3. CASE ClientClose
    BY <1>3, <2>3 DEF ClientClose, Client
  <2> QED BY <1>3, <2>1, <2>2, <2>3 DEF Client
<1>4. ASSUME NEW k \in 1..Len(up), ReadRequest(k) PROVE Numbered'
  <2>1. Rest(up, k) \in Seq(Unit)
    BY DEF Rest
  <2>2. up[1] \in Unit /\ up[1][1] \in 1..NReq
    BY DEF Unit
  <2> QED BY <1>4, <2>1, <2>2 DEF ReadRequest, Close, Busy
<1>5. ASSUME NEW k \in 1..Len(up), PipeUp(k) PROVE Numbered'
  <2>1. Rest(up, k) \in Seq(Unit)
    BY DEF Rest
  <2> QED BY <1>5, <2>1 DEF PipeUp, Busy
<1>6. CASE Worker
  <2>1. ASSUME NEW a, NEW res, Keep(a, res) PROVE pc' \in {"read", "closed"}
    BY <2>1 DEF Keep, Close
  <2>2. CASE NoRequest \/ Refuse
    BY <1>1, <2>2 DEF NoRequest, Refuse, Close, clientVars
  <2>3. CASE Manage \/ Fatboy \/ OnlyIfCached \/ NotModifiedFromMem
    BY <1>1, <2>1, <2>3 DEF Manage, Fatboy, OnlyIfCached, NotModifiedFromMem, clientVars
  <2>4. CASE SendFresh \/ SendRecent
    BY <1>1, <2>1, <2>4 DEF SendFresh, SendRecent, SendObject, clientVars
  <2>5. CASE Connect
    BY <1>2, <2>5 DEF Connect, clientVars, Busy
  <2>6. CASE ConnectFails \/ SendRequestFails
    BY <1>1, <2>1, <2>6 DEF ConnectFails, SendRequestFails, clientVars
  <2>7. CASE SendRequest
    BY <1>2, <2>7 DEF SendRequest, clientVars, Busy
  <2>8. CASE HeadFails \/ BodyShort \/ ClientSendFails
    BY <1>1, <2>1, <2>8 DEF HeadFails, BodyShort, ClientSendFails, CloseFetch, clientVars
  <2>9. CASE BodyDone \/ BodyStops \/ LongEnds
    BY <1>1, <2>1, <2>9 DEF BodyDone, BodyStops, LongEnds, LoadStops, clientVars
  <2>10. ASSUME NEW k \in 1..HeadLen + BodyLen + 1, ReadHead(k) PROVE Numbered'
    <3>1. CASE HeadOk(Seen(k) - HeadLen)
      BY <1>2, <2>10, <3>1 DEF ReadHead, HeadOk, clientVars, Busy
    <3>2. CASE HeadRaw(tot + k)
      BY <1>2, <2>10, <3>2 DEF ReadHead, HeadRaw, clientVars, Busy
    <3>3. CASE NotModified
      BY <1>1, <2>1, <2>10, <3>3 DEF ReadHead, NotModified, SendObject, clientVars
    <3>4. CASE pc' = pc
      BY <1>1, <2>10, <3>4 DEF ReadHead, clientVars
    <3>5. pc = "head" /\ origin.kind \in {"plain", "nolen", "raw", "notmod"}
      BY <2>10 DEF ReadHead, Filled
    <3> QED BY <2>10, <3>1, <3>2, <3>3, <3>4, <3>5 DEF ReadHead
  <2>11. ASSUME NEW k \in 1..HeadLen + BodyLen + 1, ReadBody(k) \/ PipeDown(k)
         PROVE  Numbered'
    BY <1>1, <1>2, <2>11 DEF ReadBody, PipeDown, clientVars, Busy
  <2>12. CASE PipeInterrupted \/ PipeEnds
    BY <1>1, <2>1, <2>12 DEF PipeInterrupted, PipeEnds, CloseFetch, clientVars
  <2> QED
    BY <1>4, <1>5, <1>6, <2>2, <2>3, <2>4, <2>5, <2>6, <2>7, <2>8, <2>9, <2>10, <2>11, <2>12
       DEF Worker
<1>7. CASE Done \/ UNCHANGED vars
  BY <1>1, <1>7 DEF Done, vars, clientVars
<1> QED BY <1>3, <1>6, <1>7 DEF Next

-----------------------------------------------------------------------------
(* The part of an answer that a recv brings.                               *)
LEMMA ArrivedUnits ==
  ASSUME Numbered, Filled, pc \in Busy, NEW k \in 1..HeadLen + origin.has - tot,
         tot >= HeadLen
  PROVE  /\ Arrived(k) \in Seq((1..NReq) \X Nat) /\ Len(Arrived(k)) = k
         /\ \A i \in 1..k : Arrived(k)[i] = <<rq, tot - HeadLen + i>>
<1> USE SessionAssumption
<1> DEFINE n == BodyLen + 1
           all == [j \in 1..n |-> <<rq, j>>]
           from == tot - HeadLen + 1
<1>1. rq \in 1..NReq /\ n \in Nat /\ from \in Nat /\ from >= 1 /\ from + k - 1 <= n
  BY DEF Numbered, Filled
<1>2. all \in Seq((1..NReq) \X Nat) /\ Len(all) = n
  BY <1>1
<1>3. Arrived(k) = SubSeq(all, from, from + k - 1)
  <2>1. tot + k - HeadLen = from + k - 1
    BY <1>1 DEF Filled
  <2>2. (IF tot < HeadLen THEN 1 ELSE tot - HeadLen + 1) = from
    BY <1>1 DEF Filled
  <2> QED BY <2>1, <2>2 DEF Arrived, Units
<1> HIDE DEF all, from
<1>4. /\ SubSeq(all, from, from + k - 1) \in Seq((1..NReq) \X Nat)
      /\ Len(SubSeq(all, from, from + k - 1)) = k
      /\ \A i \in 1..k : SubSeq(all, from, from + k - 1)[i] = all[from + i - 1]
  BY <1>1, <1>2
<1>5. \A i \in 1..k : from + i - 1 \in 1..n /\ from + i - 1 = tot - HeadLen + i
  BY <1>1 DEF from, Filled
<1>6. \A j \in 1..n : all[j] = <<rq, j>>
  BY DEF all
<1> QED BY <1>3, <1>4, <1>5, <1>6

LEMMA Behind ==
  ASSUME NEW h \in Nat, NEW n \in Nat, NEW m \in Nat, h <= n, n <= m
  PROVE  n - h \in Nat /\ n - h <= m - h /\ m >= h
OBVIOUS

LEMMA StillAll ==
  ASSUME NEW h \in Nat, NEW n \in Nat, NEW m \in Nat, NEW k \in Nat, n + k = m + k - h
  PROVE  n = m - h
OBVIOUS

LEMMA FilledStep ==
  ASSUME Numbered, Filled, [Next]_vars
  PROVE  Filled'
<1> USE SessionAssumption
<1>1. CASE UNCHANGED <<tot, origin, body>> /\ pc' \notin {"request", "head", "body"}
  BY <1>1 DEF Filled
<1>2. CASE UNCHANGED <<tot, origin, body, rq, pc>>
  BY <1>2 DEF Filled, Units
<1>3. CASE Client \/ Done \/ UNCHANGED vars
  BY <1>2, <1>3 DEF Client, Done, vars, fetchVars
<1>4. ASSUME NEW a, NEW res, Keep(a, res) PROVE pc' \in {"read", "closed"}
  BY <1>4 DEF Keep, Close
<1>5. ASSUME NEW k \in 1..Len(up), ReadRequest(k) \/ PipeUp(k) PROVE Filled'
  BY <1>1, <1>5 DEF ReadRequest, Close, PipeUp, Piping, fetchVars
<1>6. CASE NoRequest \/ Refuse \/ Manage \/ Fatboy \/ OnlyIfCached \/ NotModifiedFromMem
           \/ ConnectFails \/ SendRequestFails
  BY <1>1, <1>4, <1>6
     DEF NoRequest, Refuse, Close, Manage, Fatboy, OnlyIfCached, NotModifiedFromMem,
         ConnectFails, SendRequestFails, fetchVars
<1>7. CASE SendFresh \/ SendRecent
  BY <1>1, <1>4, <1>7 DEF SendFresh, SendRecent, SendObject, fetchVars
<1>8. CASE HeadFails \/ BodyShort \/ ClientSendFails \/ BodyDone \/ BodyStops \/ LongEnds
           \/ PipeInterrupted \/ PipeEnds
  BY <1>1, <1>4, <1>8
     DEF HeadFails, BodyShort, ClientSendFails, CloseFetch, BodyDone, BodyStops, LongEnds,
         LoadStops, PipeInterrupted, PipeEnds, fetchVars
<1>9. CASE SendRequest
  BY <1>9 DEF SendRequest, Filled
<1>10. CASE Connect
  <2>1. PICK kind \in OriginKinds(sent[rq]), len \in 0..BodyLen :
          \E has \in 0..len + 1 : origin' = [kind |-> kind, len |-> len, has |-> has]
    BY <1>10 DEF Connect
  <2>2. /\ origin'.len \in Nat /\ origin'.has \in 0..BodyLen + 1
        /\ origin'.kind \in {"plain", "nolen", "raw", "notmod"}
    BY <2>1 DEF OriginKinds
  <2> QED BY <1>10, <2>2 DEF Connect, Filled
<1>11. ASSUME NEW k \in 1..HeadLen + BodyLen + 1, ReadHead(k) PROVE Filled'
  <2>1. tot' = tot + k /\ k \in 1..HeadLen + origin.has - tot /\ origin' = origin /\ pc = "head"
    BY <1>11 DEF ReadHead
  <2>2. tot' \in Nat /\ tot' <= HeadLen + origin.has /\ k <= tot'
    BY <2>1 DEF Filled
  <2>3. CASE HeadOk(Seen(k) - HeadLen) /\ Seen(k) >= HeadLen
    <3> DEFINE seen == k - HeadLen
    <3>1. seen \in Nat /\ seen <= tot' - HeadLen /\ tot' >= HeadLen
      <4>1. k \in Nat /\ k >= HeadLen /\ HeadLen \in Nat
        BY <2>3 DEF Seen
      <4>2. tot' \in Nat /\ k <= tot'
        BY <2>2
      <4> QED BY <4>1, <4>2, Behind
    <3>2. rq \in 1..NReq /\ rq' = rq
      BY <1>11, <2>1 DEF Numbered, ReadHead, Busy
    <3>3. body' = Units(rq, seen)
      BY <2>3 DEF HeadOk, Seen
    <3> HIDE DEF seen
    <3>4. body' \in Seq((1..NReq) \X Nat) /\ Len(body') = seen
      BY <3>1, <3>2, <3>3 DEF Units
    <3>5. Len(body') = tot' - HeadLen => body' = Units(rq', tot' - HeadLen)
      BY <3>2, <3>3, <3>4
    <3> QED BY <2>1, <2>2, <3>1, <3>4, <3>5 DEF Filled
  <2>4. CASE body' = body /\ pc' # "body"
    BY <1>11, <2>1, <2>2, <2>4 DEF Filled
  <2>5. CASE HeadRaw(tot + k)
    BY <2>4, <2>5 DEF HeadRaw
  <2>6. CASE NotModified
    BY <1>4, <2>4, <2>6 DEF NotModified, SendObject
  <2>7. origin.kind \in {"plain", "nolen", "raw", "notmod"}
    BY <2>1 DEF Filled
  <2> QED
    <3>1. CASE Seen(k) < HeadLen
      BY <1>11, <2>1, <2>4, <2>5, <3>1 DEF ReadHead
    <3>2. CASE ~(Seen(k) < HeadLen)
      <4>1. Seen(k) >= HeadLen
        BY <3>2 DEF Seen
      <4> QED BY <1>11, <2>3, <2>5, <2>6, <2>7, <3>2, <4>1 DEF ReadHead
    <3> QED BY <3>1, <3>2
<1>12. ASSUME NEW k \in 1..HeadLen + BodyLen + 1, ReadBody(k) PROVE Filled'
  <2>1. /\ tot' = tot + k /\ k \in 1..HeadLen + origin.has - tot /\ origin' = origin
        /\ pc = "body" /\ rq' = rq
    BY <1>12 DEF ReadBody
  <2>2. tot' \in Nat /\ tot' <= HeadLen + origin.has /\ tot' >= HeadLen /\ tot >= HeadLen
    BY <2>1 DEF Filled
  <2>3. CASE pc' = "pipe_long" /\ body' = body
    BY <2>1, <2>2, <2>3 DEF Filled
  <2>4. CASE body' = body \o Arrived(k)
    <3>1. /\ Arrived(k) \in Seq((1..NReq) \X Nat) /\ Len(Arrived(k)) = k
          /\ \A i \in 1..k : Arrived(k)[i] = <<rq, tot - HeadLen + i>>
      BY <2>1, <2>2, ArrivedUnits DEF Busy
    <3>2. body' \in Seq((1..NReq) \X Nat) /\ Len(body') = Len(body) + k /\ Len(body) \in Nat
      BY <2>4, <3>1 DEF Filled
    <3>3. Len(body') <= tot' - HeadLen
      BY <2>1, <2>2, <3>2 DEF Filled
    <3>4. ASSUME Len(body') = tot' - HeadLen PROVE body' = Units(rq, tot' - HeadLen)
      <4>0. Len(body) <= tot - HeadLen /\ tot \in Nat /\ HeadLen \in Nat /\ k \in Int
        BY <2>1 DEF Filled
      <4>1. Len(body) = tot - HeadLen /\ body = Units(rq, tot - HeadLen)
        <5>1. Len(body) = tot - HeadLen
          <6>1. tot' = tot + k
            BY <2>1
          <6>2. k \in Nat
            OBVIOUS
          <6>3. Len(body) + k = tot + k - HeadLen /\ Len(body) \in Nat
            <7>1. Len(body') = tot + k - HeadLen
              BY <3>4, <4>0, <6>1
            <7> QED BY <3>2, <7>1
          <6> QED BY <4>0, <6>2, <6>3, StillAll
        <5> QED BY <2>1, <5>1 DEF Filled
      <4>2. ASSUME NEW j \in 1..tot' - HeadLen PROVE body'[j] = <<rq, j>>
        <5>1. CASE j <= Len(body)
          BY <2>4, <3>1, <3>2, <4>1, <4>2, <5>1 DEF Filled, Units
        <5>2. CASE j > Len(body)
          <6>0. j - Len(body) \in 1..k
            BY <2>1, <3>2, <3>4, <4>0, <4>2, <5>2, SMTT(60)
          <6>1. body'[j] = Arrived(k)[j - Len(body)]
            BY <2>4, <3>1, <3>2, <3>4, <4>2, <5>2, SMTT(60) DEF Filled
          <6>2. tot - HeadLen + (j - Len(body)) = j
            BY <2>2, <3>2, <4>1, <4>2
          <6> QED BY <3>1, <6>0, <6>1, <6>2
        <5> QED BY <3>2, <5>1, <5>2, SMTT(60)
      <4>3. Len(body') \in Nat
        BY <3>2
      <4>4. body' = [j \in 1..Len(body') |-> body'[j]]
        BY <3>2, LenProperties
      <4> QED BY <3>4, <4>2, <4>4 DEF Units
    <3> QED BY <1>12, <2>1, <2>2, <3>2, <3>3, <3>4 DEF Filled, ReadBody
  <2> QED BY <1>12, <2>3, <2>4 DEF ReadBody
<1>13. ASSUME NEW k \in 1..HeadLen + BodyLen + 1, PipeDown(k) PROVE Filled'
  <2>1. /\ tot' = tot + k /\ k \in 1..HeadLen + origin.has - tot /\ origin' = origin
        /\ pc' # "body" /\ body' = body
    BY <1>13 DEF PipeDown, Piping
  <2>2. pc' \notin {"request", "head", "body"}
    BY <1>13 DEF PipeDown, Piping
  <2> QED BY <2>1, <2>2 DEF Filled
<1> QED
  BY <1>3, <1>5, <1>6, <1>7, <1>8, <1>9, <1>10, <1>11, <1>12, <1>13 DEF Next, Worker

-----------------------------------------------------------------------------
(* Only Store brings an object, and only when nothing of its answer was    *)
(* missed.                                                                 *)
LEMMA OnlyStore ==
  ASSUME Filled, [Next]_vars, obj'.is, obj' # obj
  PROVE  BodyDone
<1>1. NoObj.is = FALSE
  BY DEF NoObj
<1>2. CASE Client \/ Done \/ UNCHANGED vars
  BY <1>2 DEF Client, Done, vars
<1>3. CASE \E k \in 1..Len(up) : ReadRequest(k) \/ PipeUp(k)
  BY <1>3 DEF ReadRequest, PipeUp
<1>4. CASE NoRequest \/ Refuse \/ Manage \/ Fatboy \/ OnlyIfCached \/ NotModifiedFromMem
           \/ ConnectFails \/ SendRequestFails
  BY <1>1, <1>4
     DEF NoRequest, Refuse, Manage, Fatboy, OnlyIfCached, NotModifiedFromMem,
         ConnectFails, SendRequestFails, Bury
<1>5. CASE SendFresh \/ SendRecent
  BY <1>1, <1>5 DEF SendFresh, SendRecent, SendObject
<1>6. CASE HeadFails \/ BodyShort \/ ClientSendFails \/ BodyStops \/ LongEnds
           \/ PipeInterrupted \/ PipeEnds
  BY <1>1, <1>6
     DEF HeadFails, BodyShort, ClientSendFails, CloseFetch, BodyStops, LongEnds, LoadStops,
         PipeInterrupted, PipeEnds, Bury
<1>7. CASE SendRequest \/ Connect
  BY <1>7 DEF SendRequest, Connect
<1>8. ASSUME NEW k \in 1..HeadLen + BodyLen + 1, ReadHead(k) PROVE FALSE
  <2>1. origin.kind \in {"plain", "nolen", "raw", "notmod"}
    BY <1>8 DEF ReadHead, Filled
  <2>2. obj' = obj \/ NotModified
    BY <1>8, <2>1 DEF ReadHead, HeadOk, HeadRaw
  <2> QED BY <1>1, <2>2 DEF NotModified, SendObject
<1>9. ASSUME NEW k \in 1..HeadLen + BodyLen + 1, ReadBody(k) \/ PipeDown(k) PROVE FALSE
  BY <1>9 DEF ReadBody, PipeDown
<1> QED
  BY <1>2, <1>3, <1>4, <1>5, <1>6, <1>7, <1>8, <1>9 DEF Next, Worker

(* What enters the cache is the whole body of one answer, in order and     *)
(* without a gap, however long heads and bodies are and however the reads  *)
(* fall, unless the origin sends more than it declares (StoredIsWhole).    *)
THEOREM WholeBodiesStored == Spec => StoredIsWhole
<1>1. Init => Numbered /\ Filled
  BY InitFilled
<1>2. Numbered /\ Filled /\ [Next]_vars => Numbered' /\ Filled'
  BY NumberedStep, FilledStep
<1>3. Numbered /\ Filled /\ [Next]_vars =>
        [obj'.is /\ obj' # obj /\ origin.has <= origin.len
           => IsWhole(obj'.body, obj'.len)]_vars
  <2> SUFFICES ASSUME Numbered, Filled, [Next]_vars, obj'.is, obj' # obj,
                      origin.has <= origin.len
               PROVE  IsWhole(obj'.body, obj'.len)
    OBVIOUS
  <2>1. BodyDone
    BY OnlyStore
  <2>2. pc = "body" /\ Len(body) = origin.len /\ obj'.len = origin.len /\ obj'.body = body
    BY <2>1 DEF BodyDone, BodyIsAll, Store
  <2>3. Len(body) = tot - HeadLen
    BY <2>2, SessionAssumption DEF Filled
  <2>4. obj'.body = Units(rq, obj'.len) /\ rq \in 1..NReq
    BY <2>2, <2>3 DEF Filled, Numbered, Busy
  <2> QED BY <2>4 DEF IsWhole
<1> QED BY <1>1, <1>2, <1>3, PTL DEF Spec, StoredIsWhole

-----------------------------------------------------------------------------
(* The answers and the cached object.                                      *)
Piece == (1..NReq) \X Nat
Fault == {"none", "cannot_send", "unreadable", "redirect", "stalled", "overlong", "gone",
          "interrupted"}
Answer == [rq : 0..NReq, head : {"none", "open", "sized"}, len : Nat, body : Seq(Piece),
           fault : Fault]
Object == [len : Nat, body : Seq(Piece), is : BOOLEAN]

(* What the client is told before it gets the rest, by where the thread is. *)
Answering ==
  /\ ans \in Answer
  /\ pc \in Busy => ans.rq = rq
  /\ pc = "read" => ans = Blank(0)
  /\ pc \in {"route", "request", "head"} => ans = Blank(rq)
  /\ pc \in {"request", "head", "body"} /\ origin.kind = "plain" => origin.len > 0
  /\ pc = "body" => /\ ans.head = "sized" /\ ans.fault = "none" /\ ans.len = origin.len
                    /\ Len(ans.body) = Len(body) /\ origin.kind = "plain"
  /\ pc \in {"pipe_nolen", "pipe_raw", "pipe_form"} => ans.head # "sized"
  /\ pc = "pipe_long" => Len(ans.body) > ans.len

Stored == obj \in Object /\ Len(obj.body) = obj.len

(* The exceptions of KeptIsWhole that are the fault of the client.         *)
Excuse == ~polite \/ gone \/ \E i \in 1..Len(sent) : sent[i].body > 0

Good(a) ==
  \/ Complete(a) /\ a.fault = "none"
  \/ a.fault \in {"cannot_send", "unreadable", "redirect", "stalled", "overlong", "gone"}
  \/ a.fault = "interrupted" /\ Excuse

Kept ==
  /\ last \in Answer
  /\ polite => last.rq <= rq
  /\ polite /\ pc \in Busy => last.rq < rq
  /\ last.rq # 0 => Good(last)

LEMMA BlankAnswer == ASSUME NEW i \in 0..NReq
                     PROVE  Blank(i) \in Answer /\ Blank(i).rq = i /\ Blank(i).head = "none"
                            /\ Blank(i).len = 0 /\ Blank(i).body = <<>>
<1>1. <<>> \in Seq(Piece)
  OBVIOUS
<1> QED BY <1>1 DEF Blank, Answer, Fault

LEMMA InitAnswers == Init => Answering /\ Stored /\ Kept
<1> SUFFICES ASSUME Init PROVE Answering /\ Stored /\ Kept
  OBVIOUS
<1>1. Blank(0) \in Answer /\ Blank(0).rq = 0
  BY BlankAnswer, SessionAssumption
<1>2. <<>> \in Seq(Piece) /\ Len(<<>>) = 0
  OBVIOUS
<1>3. Stored
  BY <1>2 DEF Init, Stored, NoObj, Object
<1>4. Answering
  BY <1>1 DEF Init, Answering, Busy
<1> QED BY <1>1, <1>3, <1>4 DEF Init, Kept, Busy

(* The end of a request.                                                   *)
LEMMA KeepAnswers ==
  ASSUME Numbered, Answering, Kept, pc \in Busy,
         NEW a \in Answer, a.rq = rq, NEW res, Keep(a, res), res => Good(a),
         UNCHANGED clientVars, rq' = rq
  PROVE  Answering' /\ Kept'
<1>1. Blank(0) \in Answer
  BY BlankAnswer, SessionAssumption
<1>2. Good(a)' <=> Good(a)
  BY DEF Good, Excuse, clientVars
<1>4. CASE res /\ sent[rq].keep
  <2>1. pc' = "read" /\ last' = a /\ ans' = Blank(0)
    BY <1>4 DEF Keep
  <2>2. Answering'
    BY <1>1, <2>1 DEF Answering, Busy
  <2>3. Good(last)'
    BY <1>2, <1>4, <2>1 DEF Good, Excuse
  <2>4. last' \in Answer /\ last'.rq = rq' /\ rq' \in Nat
    BY <2>1 DEF Numbered
  <2>5. last'.rq <= rq'
    BY <2>4
  <2> QED BY <2>1, <2>2, <2>3, <2>4, <2>5 DEF Kept, Busy
<1>5. CASE ~(res /\ sent[rq].keep)
  <2>1. pc' = "closed" /\ ans' = a /\ last' = last
    BY <1>5 DEF Keep, Close
  <2>2. Answering'
    BY <2>1 DEF Answering, Busy
  <2>3. Good(last) => Good(last)'
    BY <2>1 DEF Good, Excuse, clientVars
  <2> QED BY <2>1, <2>2, <2>3 DEF Kept, Busy, clientVars
<1> QED BY <1>4, <1>5

LEMMA Marked ==
  ASSUME NEW a \in Answer, NEW f \in Fault
  PROVE  [a EXCEPT !.fault = f] \in Answer /\ [a EXCEPT !.fault = f].rq = a.rq
         /\ [a EXCEPT !.fault = f].fault = f
BY DEF Answer

LEMMA Opened ==
  ASSUME NEW i \in 0..NReq
  PROVE  [Blank(i) EXCEPT !.head = "open"] \in Answer
         /\ [Blank(i) EXCEPT !.head = "open"].rq = i
<1>1. Blank(i) \in Answer
  BY BlankAnswer
<1> QED BY <1>1, BlankAnswer DEF Answer

LEMMA Failed ==
  ASSUME NEW i \in 0..NReq, NEW f \in Fault
  PROVE  /\ [Blank(i) EXCEPT !.head = "open", !.fault = f] \in Answer
         /\ [Blank(i) EXCEPT !.head = "open", !.fault = f].rq = i
         /\ [Blank(i) EXCEPT !.head = "open", !.fault = f].fault = f
<1>1. Blank(i) \in Answer
  BY BlankAnswer
<1> QED BY <1>1, BlankAnswer DEF Answer

LEMMA BareHead ==
  ASSUME NEW i \in 0..NReq
  PROVE  /\ [Blank(i) EXCEPT !.head = "sized"] \in Answer
         /\ [Blank(i) EXCEPT !.head = "sized"].rq = i
         /\ Good([Blank(i) EXCEPT !.head = "sized"])
<1>1. Blank(i) \in Answer /\ Blank(i).rq = i /\ Len(Blank(i).body) = Blank(i).len
      /\ Blank(i).fault = "none"
  BY BlankAnswer DEF Blank
<1>2. ASSUME NEW a \in Answer, NEW c, c = [a EXCEPT !.head = "sized"]
      PROVE  /\ c \in Answer /\ c.rq = a.rq /\ c.head = "sized"
             /\ c.len = a.len /\ c.body = a.body /\ c.fault = a.fault
  BY <1>2 DEF Answer
<1> DEFINE c == [Blank(i) EXCEPT !.head = "sized"]
<1>3. /\ c \in Answer /\ c.rq = i /\ c.head = "sized"
      /\ c.len = Len(c.body) /\ c.fault = "none"
  BY <1>1, <1>2
<1> HIDE DEF c
<1>4. Good(c)
  BY <1>3 DEF Good, Complete
<1> QED BY <1>3, <1>4 DEF c

LEMMA WholeObject ==
  ASSUME Stored, NEW i \in 0..NReq
  PROVE  /\ FromObject(Blank(i)) \in Answer /\ FromObject(Blank(i)).rq = i
         /\ Good(FromObject(Blank(i)))
<1>1. obj.len \in Nat /\ obj.body \in Seq(Piece) /\ Len(obj.body) = obj.len
  BY DEF Stored, Object
<1>2. Blank(i) \in Answer /\ Blank(i).rq = i /\ Blank(i).fault = "none"
  BY BlankAnswer DEF Blank
<1> DEFINE c == FromObject(Blank(i))
<1>0. c = [Blank(i) EXCEPT !.head = "sized", !.len = obj.len, !.body = obj.body]
  BY DEF FromObject
<1> HIDE DEF c
<1>3. /\ c \in Answer
      /\ c.rq = i /\ c.head = "sized" /\ c.len = obj.len /\ c.body = obj.body /\ c.fault = "none"
  BY <1>0, <1>1, <1>2 DEF Answer
<1>4. Good(c)
  BY <1>1, <1>3 DEF Good, Complete
<1> QED BY <1>3, <1>4 DEF c

LEMMA NoObjectIsWhole == NoObj \in Object /\ Len(NoObj.body) = NoObj.len
<1>1. <<>> \in Seq(Piece) /\ Len(<<>>) = 0
  OBVIOUS
<1> QED BY <1>1 DEF NoObj, Object

LEMMA SendObjectAnswers ==
  ASSUME Numbered, Answering, Kept, Stored, pc \in {"route", "head"},
         NEW checked \in BOOLEAN, SendObject(checked), UNCHANGED clientVars, rq' = rq
  PROVE  Answering' /\ Kept' /\ Stored'
<1>1. ans = Blank(rq) /\ rq \in 0..NReq /\ pc \in Busy
  BY DEF Answering, Numbered, Busy
<1>2. ans \in Answer /\ ans.rq = rq
  BY <1>1 DEF Answering
<1>3. CASE Keep(FromObject(ans), TRUE) /\ UNCHANGED obj
  <2>1. Answering' /\ Kept'
    BY <1>1, <1>3, WholeObject, KeepAnswers
  <2> QED BY <1>3, <2>1 DEF Stored
<1>4. ASSUME NEW f \in {"unreadable", "gone"}, obj' = obj \/ obj' = NoObj,
             IF checked THEN Keep(ans, FALSE) ELSE Keep([ans EXCEPT !.fault = f], TRUE)
      PROVE  Answering' /\ Kept' /\ Stored'
  <2>0. f \in Fault
    BY <1>4 DEF Fault
  <2>1. /\ [ans EXCEPT !.fault = f] \in Answer /\ [ans EXCEPT !.fault = f].rq = rq
        /\ Good([ans EXCEPT !.fault = f])
    BY <1>2, <1>4, <2>0, Marked DEF Good
  <2>2. Answering' /\ Kept'
    BY <1>1, <1>2, <1>4, <2>1, KeepAnswers
  <2>3. Stored'
    BY <1>4, NoObjectIsWhole DEF Stored
  <2> QED BY <2>2, <2>3
<1> QED BY <1>3, <1>4 DEF SendObject

(* What else may be in up: a client that waits sends no head before the    *)
(* end of an answer, and behind a head comes the body of its request.      *)
Bodies(i, n) == [j \in 1..n |-> <<i, "body">>]

Patient ==
  /\ \A j \in 1..Len(up) : up[j][2] = "head" =>
       /\ up[j][1] = rq + 1 /\ Len(sent) = rq + 1
       /\ Rest(up, j) = Bodies(rq + 1, sent[rq + 1].body - todo)
  /\ Len(sent) > rq => up # <<>>
  /\ pc \in Busy /\ Len(sent) > rq => Complete(ans)

Waiting ==
  /\ rq \in 0..Len(sent)
  /\ sent # <<>> => sent[Len(sent)].body \in Nat /\ todo <= sent[Len(sent)].body
  /\ \A j \in 1..Len(up) : /\ up[j][1] \in 1..Len(sent)
                           /\ up[j][2] = "body" => sent[up[j][1]].body > 0
  /\ polite /\ pc # "closed" => Patient

LEMMA InterruptedHasExcuse ==
  ASSUME Numbered, Waiting, pc \in Busy, ClientReadable, ~Complete(ans)
  PROVE  Excuse
<1>1. CASE ~polite \/ gone
  BY <1>1 DEF Excuse
<1>2. CASE polite /\ ~gone
  <2>1. up # <<>> /\ up \in Seq(Unit)
    BY <1>2 DEF ClientReadable, Numbered
  <2>2. 1 \in 1..Len(up) /\ up[1] \in Unit
    BY <2>1
  <2>3. Patient
    BY <1>2 DEF Waiting, Busy
  <2>4. Len(sent) \in Nat /\ rq \in Nat /\ ~(Len(sent) > rq)
    BY <2>3 DEF Patient, Waiting, Numbered
  <2>5. up[1][2] # "head"
    BY <2>2, <2>3, <2>4 DEF Patient
  <2>6. up[1][2] = "body"
    BY <2>2, <2>5 DEF Unit
  <2> QED BY <2>2, <2>6 DEF Waiting, Excuse
<1> QED BY <1>1, <1>2

(* What is behind the first k of a sequence.                               *)
LEMMA RestElements ==
  ASSUME NEW S, NEW s \in Seq(S), NEW k \in 0..Len(s)
  PROVE  /\ Rest(s, k) \in Seq(S) /\ Len(Rest(s, k)) = Len(s) - k
         /\ \A j \in 1..Len(s) - k : k + j \in 1..Len(s) /\ Rest(s, k)[j] = s[k + j]
BY DEF Rest

LEMMA RestAppend ==
  ASSUME NEW S, NEW s \in Seq(S), NEW e \in S, NEW k \in 0..Len(s)
  PROVE  Rest(Append(s, e), k) = Append(Rest(s, k), e)
<1> DEFINE t == Append(s, e)
           u == Append(Rest(s, k), e)
           n == Len(s) + 1 - k
<1>1. t \in Seq(S) /\ Len(t) = Len(s) + 1 /\ t[Len(s) + 1] = e
      /\ \A j \in 1..Len(s) : t[j] = s[j]
  OBVIOUS
<1>2. Rest(s, k) \in Seq(S) /\ Len(Rest(s, k)) = Len(s) - k
      /\ \A j \in 1..Len(s) - k : k + j \in 1..Len(s) /\ Rest(s, k)[j] = s[k + j]
  BY RestElements
<1>3. u \in Seq(S) /\ Len(u) = n /\ u[n] = e
      /\ \A j \in 1..Len(s) - k : u[j] = Rest(s, k)[j]
  BY <1>2
<1> HIDE DEF t, u
<1>4. k \in 0..Len(t) /\ Len(s) \in Nat /\ n \in Nat
  BY <1>1
<1>5. Rest(t, k) \in Seq(S) /\ Len(Rest(t, k)) = n
      /\ \A j \in 1..n : Rest(t, k)[j] = t[k + j]
  <2>1. Rest(t, k) \in Seq(S) /\ Len(Rest(t, k)) = Len(t) - k
        /\ \A j \in 1..Len(t) - k : Rest(t, k)[j] = t[k + j]
    BY <1>1, <1>4, RestElements
  <2>2. Len(t) - k = n
    BY <1>1
  <2> QED BY <2>1, <2>2
<1>6. ASSUME NEW j \in 1..n PROVE Rest(t, k)[j] = u[j]
  <2>1. CASE j = n
    BY <1>1, <1>3, <1>4, <1>5, <2>1
  <2>2. CASE j # n
    <3>1. j \in 1..Len(s) - k
      BY <1>4, <2>2
    <3> QED BY <1>1, <1>2, <1>3, <1>5, <3>1
  <2> QED BY <2>1, <2>2
<1>7. Rest(t, k) = u
  BY <1>3, <1>4, <1>5, <1>6, SeqEqual
<1> QED BY <1>7 DEF t, u

LEMMA BodiesNext ==
  ASSUME NEW i \in 1..NReq, NEW n \in Nat
  PROVE  /\ Bodies(i, n) \in Seq(Unit) /\ Len(Bodies(i, n)) = n
         /\ \A j \in 1..n : Bodies(i, n)[j] = <<i, "body">>
         /\ Bodies(i, n + 1) = Append(Bodies(i, n), <<i, "body">>)
<1>1. /\ Bodies(i, n) \in Seq(Unit) /\ Len(Bodies(i, n)) = n
      /\ \A j \in 1..n : Bodies(i, n)[j] = <<i, "body">>
  BY DEF Bodies, Unit
<1>2. /\ Bodies(i, n + 1) \in Seq(Unit) /\ Len(Bodies(i, n + 1)) = n + 1
      /\ \A j \in 1..n + 1 : Bodies(i, n + 1)[j] = <<i, "body">>
  BY DEF Bodies, Unit
<1>3. <<i, "body">> \in Unit
  BY DEF Unit
<1> DEFINE u == Append(Bodies(i, n), <<i, "body">>)
<1>4. u \in Seq(Unit) /\ Len(u) = n + 1 /\ \A j \in 1..n + 1 : u[j] = <<i, "body">>
  BY <1>1, <1>3
<1> QED BY <1>1, <1>2, <1>4, SeqEqual

LEMMA Pieces ==
  ASSUME NEW i \in 1..NReq, NEW n \in Nat
  PROVE  Units(i, n) \in Seq(Piece) /\ Len(Units(i, n)) = n
BY DEF Units, Piece

LEMMA ArrivedPieces ==
  ASSUME Filled, rq \in 1..NReq, NEW k \in 1..HeadLen + origin.has - tot
  PROVE  Arrived(k) \in Seq(Piece)
<1> USE SessionAssumption
<1> DEFINE n == BodyLen + 1
           from == IF tot < HeadLen THEN 1 ELSE tot - HeadLen + 1
           upto == tot + k - HeadLen
<1>1. n \in Nat /\ from \in Nat /\ from >= 1 /\ upto \in Int /\ upto <= n
  BY DEF Filled
<1>2. Units(rq, n) \in Seq(Piece) /\ Len(Units(rq, n)) = n
  BY <1>1, Pieces
<1>3. Arrived(k) = SubSeq(Units(rq, n), from, upto)
  BY DEF Arrived
<1> HIDE DEF from, upto, n
<1>4. ASSUME NEW t \in Seq(Piece), Len(t) = n PROVE SubSeq(t, from, upto) \in Seq(Piece)
  BY <1>1, <1>4
<1> QED BY <1>2, <1>3, <1>4

LEMMA AnswersStep ==
  ASSUME Numbered, Filled, Waiting, Answering, Stored, Kept, [Next]_vars
  PROVE  Answering' /\ Stored' /\ Kept'
<1> USE SessionAssumption
<1>0. /\ ans \in Answer /\ ans.fault \in Fault
      /\ pc \in {"route", "request", "head"} => ans = Blank(rq)
      /\ pc \in Busy => ans.rq = rq /\ rq \in 1..NReq /\ rq \in 0..NReq
  BY DEF Answering, Answer, Numbered
<1>1. ASSUME NEW a \in Answer, a.rq = rq, NEW res, Keep(a, res), res => Good(a),
             UNCHANGED clientVars, rq' = rq, pc \in Busy, obj' = obj \/ obj' = NoObj
      PROVE  Answering' /\ Stored' /\ Kept'
  BY <1>1, KeepAnswers, NoObjectIsWhole DEF Stored
<1>2. ASSUME UNCHANGED <<clientVars, rq, last, obj>>, pc \in Busy, Answering'
      PROVE  Answering' /\ Stored' /\ Kept'
  BY <1>2 DEF Stored, Kept, Good, Excuse, clientVars
<1>3. CASE Client
  <2>1. UNCHANGED <<pc, rq, ans, last, origin, body, obj>>
    BY <1>3 DEF Client, fetchVars
  <2>2. Excuse => Excuse'
    <3>1. CASE \E r \in Request : ClientSend(r)
      BY <3>1 DEF ClientSend, Excuse, Numbered
    <3>2. CASE ClientBody \/ ClientClose
      BY <3>2 DEF ClientBody, ClientClose, Excuse
    <3> QED BY <1>3, <3>1, <3>2 DEF Client
  <2>3. polite' = polite
    BY <1>3 DEF Client, ClientSend, ClientBody, ClientClose
  <2>4. Answering' /\ Stored'
    BY <2>1 DEF Answering, Stored
  <2>5. Good(last) => Good(last)'
    BY <2>1, <2>2 DEF Good
  <2> QED BY <2>1, <2>3, <2>4, <2>5 DEF Kept
<1>4. CASE Done \/ UNCHANGED vars
  BY <1>4 DEF Done, vars, clientVars, fetchVars, Answering, Stored, Kept, Good, Excuse
<1>5. ASSUME NEW k \in 1..Len(up), ReadRequest(k) PROVE Answering' /\ Stored' /\ Kept'
  <2>1. 1 \in 1..Len(up) /\ up[1] \in Unit /\ up[1][1] \in 1..NReq
    BY DEF Unit, Numbered
  <2>2. Blank(up[1][1]) \in Answer /\ Blank(up[1][1]).rq = up[1][1]
    BY <2>1, BlankAnswer
  <2>3. UNCHANGED <<polite, sent, gone, origin, body, obj, last>> /\ pc = "read"
    BY <1>5 DEF ReadRequest, Close, fetchVars
  <2>4. Good(last) => Good(last)'
    BY <2>3 DEF Good, Excuse
  <2>5. CASE up[1][2] = "head"
    <3>1. rq' = up[1][1] /\ ans' = Blank(up[1][1]) /\ pc' = "route"
      BY <1>5, <2>5 DEF ReadRequest
    <3>2. Answering' /\ Stored'
      BY <2>2, <2>3, <3>1 DEF Answering, Stored, Busy
    <3>3. polite => last.rq < rq' /\ last.rq <= rq'
      BY <2>1, <2>3, <2>5, <3>1 DEF Kept, Waiting, Patient, Answer
    <3> QED BY <2>3, <2>4, <3>2, <3>3 DEF Kept
  <2>6. CASE up[1][2] = "body"
    <3>1. /\ ans' = [Blank(up[1][1]) EXCEPT !.head = "open"] /\ pc' = "closed"
          /\ rq' = rq
      BY <1>5, <2>6 DEF ReadRequest, Close
    <3>2. ans' \in Answer
      BY <2>1, <3>1, Opened
    <3> QED BY <2>3, <2>4, <3>1, <3>2 DEF Answering, Stored, Kept, Busy
  <2> QED BY <2>1, <2>5, <2>6 DEF Unit
<1>6. CASE NoRequest
  BY <1>6 DEF NoRequest, Close, Answering, Stored, Kept, Good, Excuse, Busy, clientVars, fetchVars
<1>7. CASE Refuse
  <2>1. [ans EXCEPT !.head = "open"] \in Answer
    BY <1>0, <1>7, Opened DEF Refuse, Busy
  <2> QED
    BY <1>7, <2>1
       DEF Refuse, Close, Answering, Stored, Kept, Good, Excuse, Busy, clientVars, fetchVars
<1>8. CASE Manage
  <2> DEFINE page == [ans EXCEPT !.head = "sized"]
             redirect == [ans EXCEPT !.head = "open", !.fault = "redirect"]
  <2>1. page \in Answer /\ page.rq = rq /\ Good(page)
    BY <1>0, <1>8, BareHead DEF Manage, Busy
  <2>2. redirect \in Answer /\ redirect.rq = rq /\ Good(redirect)
    <3>1. "redirect" \in Fault /\ ans = Blank(rq) /\ rq \in 0..NReq
      BY <1>0, <1>8 DEF Fault, Manage, Busy
    <3>2. redirect \in Answer /\ redirect.rq = rq /\ redirect.fault = "redirect"
      BY <3>1, Failed
    <3> HIDE DEF redirect
    <3> QED BY <3>2 DEF Good
  <2>3. (Keep(page, TRUE) \/ Keep(redirect, TRUE)) /\ UNCHANGED <<clientVars, rq, obj>>
        /\ pc \in Busy
    BY <1>8 DEF Manage, Busy
  <2> HIDE DEF page, redirect
  <2> QED BY <1>1, <2>1, <2>2, <2>3
<1>9. CASE Fatboy
  BY <1>0, <1>1, <1>9 DEF Fatboy, Busy
<1>10. CASE OnlyIfCached
  <2>1. FromObject(ans) \in Answer /\ FromObject(ans).rq = rq
    BY <1>0, <1>10, WholeObject DEF OnlyIfCached, Busy
  <2>2. [ans EXCEPT !.head = "open"] \in Answer /\ [ans EXCEPT !.head = "open"].rq = rq
    BY <1>0, <1>10, Opened DEF OnlyIfCached, Busy
  <2> QED BY <1>1, <1>10, <2>1, <2>2 DEF OnlyIfCached, Busy
<1>11. CASE SendFresh
  BY <1>11, SendObjectAnswers DEF SendFresh
<1>12. CASE SendRecent
  BY <1>12, SendObjectAnswers DEF SendRecent
<1>13. CASE NotModifiedFromMem
  <2>1. [ans EXCEPT !.head = "sized"] \in Answer /\ [ans EXCEPT !.head = "sized"].rq = rq
        /\ Good([ans EXCEPT !.head = "sized"])
    BY <1>0, <1>13, BareHead DEF NotModifiedFromMem, Busy
  <2> QED BY <1>1, <1>13, <2>1 DEF NotModifiedFromMem, Busy
<1>14. CASE Connect
  <2>1. PICK kind \in OriginKinds(sent[rq]), len \in 0..BodyLen :
          /\ \E has \in 0..len + 1 : origin' = [kind |-> kind, len |-> len, has |-> has]
          /\ kind = "plain" => len > 0
    BY <1>14 DEF Connect
  <2>2. origin'.kind = "plain" => origin'.len > 0
    BY <2>1
  <2>3. UNCHANGED <<clientVars, rq, last, obj, ans>> /\ pc = "route" /\ pc' = "request"
    BY <1>14 DEF Connect
  <2>4. Answering'
    BY <1>0, <2>2, <2>3 DEF Answering, Busy
  <2> QED BY <1>2, <2>3, <2>4 DEF Busy
<1>15. CASE ConnectFails
  BY <1>0, <1>1, <1>15 DEF ConnectFails, Busy
<1>16. CASE SendRequest
  <2>1. Answering'
    <3>1. Blank(rq).head = "none"
      BY DEF Blank
    <3> QED BY <1>0, <1>16, <3>1 DEF SendRequest, Answering, Busy, clientVars
  <2> QED BY <1>2, <1>16, <2>1 DEF SendRequest, Busy
<1>17. CASE SendRequestFails
  <2> DEFINE a == [ans EXCEPT !.head = "open", !.fault = "cannot_send"]
  <2>1. a \in Answer /\ a.rq = rq /\ a.fault = "cannot_send"
    <3>1. "cannot_send" \in Fault /\ ans = Blank(rq) /\ rq \in 0..NReq
      BY <1>0, <1>17 DEF Fault, SendRequestFails, Busy
    <3> QED BY <3>1, Failed
  <2>2. /\ Keep(a, sent[rq].kind # "form") /\ UNCHANGED <<clientVars, rq>> /\ pc \in Busy
        /\ (obj' = obj \/ obj' = NoObj)
    BY <1>17 DEF SendRequestFails, Busy, Bury
  <2> HIDE DEF a
  <2>3. Good(a)
    BY <2>1 DEF Good
  <2> QED BY <1>1, <2>1, <2>2, <2>3
<1>18. ASSUME CloseFetch, pc \in Busy PROVE Answering' /\ Stored' /\ Kept'
  BY <1>0, <1>1, <1>18 DEF CloseFetch, Bury
<1>19. CASE HeadFails \/ BodyShort \/ ClientSendFails
  BY <1>18, <1>19 DEF HeadFails, BodyShort, ClientSendFails, Busy
<1>20. CASE BodyDone
  <2>1. Good(ans)
    BY <1>20 DEF BodyDone, BodyIsAll, Answering, Good, Complete
  <2>2. Answering' /\ Kept'
    BY <1>0, <1>20, <2>1, KeepAnswers DEF BodyDone, Busy
  <2>3. Stored'
    BY <1>20 DEF BodyDone, BodyIsAll, Store, Stored, Object, Filled, Piece
  <2> QED BY <2>2, <2>3
<1>21. ASSUME NEW f \in Fault, LoadStops(f), pc \in Busy,
              f = "interrupted" => Excuse, f \notin {"none"}
       PROVE  Answering' /\ Stored' /\ Kept'
  <2>1. /\ [ans EXCEPT !.fault = f] \in Answer /\ [ans EXCEPT !.fault = f].rq = rq
        /\ Good([ans EXCEPT !.fault = f])
    <3> DEFINE a == [ans EXCEPT !.fault = f]
    <3>1. a \in Answer /\ a.rq = rq /\ a.fault = f
      BY <1>0, <1>21, Marked
    <3> HIDE DEF a
    <3>2. Good(a)
      BY <1>21, <3>1 DEF Good, Fault
    <3> QED BY <3>1, <3>2 DEF a
  <2> QED BY <1>0, <1>1, <1>21, <2>1 DEF LoadStops, Bury
<1>22. CASE BodyStops
  <2>1. pc \in Busy /\ pc = "body"
    BY <1>22 DEF BodyStops, Busy
  <2>2. ASSUME ClientReadable PROVE Excuse
    <3>1. CASE gone
      BY <3>1 DEF Excuse
    <3>2. CASE ~gone
      <4>1. ~Complete(ans)
        BY <1>22, <2>1, <3>2 DEF BodyStops, BodyIsAll, Complete, Answering
      <4> QED BY <2>1, <2>2, <4>1, InterruptedHasExcuse
    <3> QED BY <3>1, <3>2
  <2> QED BY <1>21, <1>22, <2>1, <2>2 DEF BodyStops, Fault
<1>23. CASE LongEnds
  BY <1>21, <1>23 DEF LongEnds, Busy, Fault
<1>24. ASSUME NEW k \in 1..HeadLen + BodyLen + 1, ReadHead(k)
       PROVE  Answering' /\ Stored' /\ Kept'
  <2>1. UNCHANGED <<clientVars, rq, origin>> /\ pc = "head" /\ pc \in Busy
        /\ k \in 1..HeadLen + origin.has - tot
    BY <1>24 DEF ReadHead, Busy
  <2>2. ans = Blank(rq) /\ Blank(rq).rq = rq /\ rq \in 1..NReq
    BY <1>0, <2>1, BlankAnswer
  <2>3. CASE HeadOk(Seen(k) - HeadLen) /\ Seen(k) >= HeadLen
             /\ origin.kind \in {"plain", "nolen"}
    <3> DEFINE seen == Seen(k) - HeadLen
               a == [ans EXCEPT !.head = IF origin.kind = "plain" THEN "sized" ELSE "open",
                                !.len = origin.len, !.body = Units(rq, seen)]
    <3>1. seen \in Nat
      BY <2>3 DEF Seen
    <3>2. Units(rq, seen) \in Seq(Piece) /\ Len(Units(rq, seen)) = seen
      BY <2>2, <3>1, Pieces
    <3>3. ans' = a /\ body' = Units(rq, seen) /\ last' = last /\ obj' = obj
          /\ pc' = IF origin.kind = "plain" THEN "body" ELSE "pipe_nolen"
      BY <2>3 DEF HeadOk, a, seen
    <3> HIDE DEF seen
    <3>4. ans \in Answer /\ ans.fault = "none" /\ origin.len \in Nat
      BY <1>0, <2>2 DEF Blank, Filled
    <3> DEFINE h == IF origin.kind = "plain" THEN "sized" ELSE "open"
    <3>7. a = [ans EXCEPT !.head = h, !.len = origin.len, !.body = Units(rq, seen)]
      OBVIOUS
    <3>8. h \in {"none", "open", "sized"}
      OBVIOUS
    <3> HIDE DEF a, h
    <3>5. /\ a \in Answer /\ a.rq = rq /\ a.head = (IF origin.kind = "plain" THEN "sized" ELSE "open")
          /\ a.len = origin.len /\ a.body = Units(rq, seen) /\ a.fault = "none"
      <4>1. a \in Answer /\ a.rq = ans.rq /\ a.head = h /\ a.len = origin.len
            /\ a.body = Units(rq, seen) /\ a.fault = ans.fault
        BY <3>2, <3>4, <3>7, <3>8 DEF Answer
      <4> QED BY <2>2, <3>4, <4>1 DEF h
    <3>6. Answering'
      BY <2>1, <3>2, <3>3, <3>4, <3>5 DEF Answering, Busy
    <3> QED BY <1>2, <2>1, <3>3, <3>6
  <2>4. CASE HeadRaw(tot + k)
    <3>1. tot + k \in Nat /\ ans \in Answer
      BY <1>0 DEF Filled
    <3>2. ASSUME NEW t \in Nat, HeadRaw(t)
          PROVE  ans' \in Answer /\ ans'.rq = ans.rq /\ ans'.head = "open"
      <4> DEFINE n == IF t > HeadLen THEN t - HeadLen ELSE 0
                 b == Units(rq, n)
      <4>1. n \in Nat
        OBVIOUS
      <4>2. ans' = [ans EXCEPT !.head = "open", !.body = b]
        BY <3>2 DEF HeadRaw
      <4> HIDE DEF n
      <4>3. b \in Seq(Piece)
        BY <2>2, <4>1, Pieces
      <4> HIDE DEF b
      <4> QED BY <3>1, <4>2, <4>3 DEF Answer
    <3>3. ans' \in Answer /\ ans'.rq = ans.rq /\ ans'.head = "open"
      BY <2>4, <3>1, <3>2
    <3>4. pc' = "pipe_raw" /\ UNCHANGED <<last, body, obj>>
      BY <2>4 DEF HeadRaw
    <3>5. Answering'
      BY <2>1, <2>2, <3>3, <3>4 DEF Answering, Busy
    <3> QED BY <1>2, <2>1, <3>4, <3>5
  <2>5. CASE NotModified
    <3>1. CASE SendObject(FALSE)
      BY <2>1, <3>1, SendObjectAnswers
    <3>2. CASE Keep([ans EXCEPT !.head = "sized"], TRUE) /\ UNCHANGED obj
      <4>1. /\ [ans EXCEPT !.head = "sized"] \in Answer /\ [ans EXCEPT !.head = "sized"].rq = rq
            /\ Good([ans EXCEPT !.head = "sized"])
        BY <1>0, <2>1, <2>2, BareHead
      <4> QED BY <1>1, <2>1, <3>2, <4>1
    <3> QED BY <2>5, <3>1, <3>2 DEF NotModified
  <2>6. CASE UNCHANGED <<pc, ans, last, body, obj>>
    <3>1. Answering'
      BY <2>1, <2>6 DEF Answering, Busy
    <3> QED BY <1>2, <2>1, <2>6, <3>1
  <2>7. origin.kind \in {"plain", "nolen", "raw", "notmod"}
    BY <2>1 DEF Filled
  <2> QED
    <3>1. CASE Seen(k) < HeadLen
      BY <1>24, <2>4, <2>6, <3>1 DEF ReadHead
    <3>2. CASE ~(Seen(k) < HeadLen)
      <4>1. Seen(k) >= HeadLen
        BY <3>2 DEF Seen
      <4> QED BY <1>24, <2>3, <2>4, <2>5, <2>7, <3>2, <4>1 DEF ReadHead
    <3> QED BY <3>1, <3>2
<1>25. ASSUME NEW k \in 1..HeadLen + BodyLen + 1, ReadBody(k) \/ PipeDown(k)
       PROVE  Answering' /\ Stored' /\ Kept'
  <2>1. UNCHANGED <<clientVars, rq, origin, last, obj>> /\ k \in 1..HeadLen + origin.has - tot
    BY <1>25 DEF ReadBody, PipeDown
  <2>2. CASE ReadBody(k)
    <3>1. pc = "body" /\ tot >= HeadLen /\ rq \in 1..NReq
      BY <1>0, <2>2 DEF ReadBody, Filled, Busy
    <3>2. Arrived(k) \in Seq(Piece) /\ Len(Arrived(k)) = k
      BY <2>1, <3>1, ArrivedUnits DEF Busy, Piece
    <3>3. /\ ans.rq = rq /\ ans.head = "sized" /\ ans.fault = "none" /\ ans.len = origin.len
          /\ ans.body \in Seq(Piece) /\ Len(ans.body) = Len(body) /\ origin.kind = "plain"
          /\ body \in Seq(Piece) /\ ans \in Answer
      BY <3>1 DEF Answering, Answer, Filled, Busy, Piece
    <3>4. ans.body \o Arrived(k) \in Seq(Piece) /\ Len(ans.body \o Arrived(k)) = Len(body) + k
          /\ Len(body \o Arrived(k)) = Len(body) + k
      BY <3>2, <3>3
    <3>5. /\ ans' \in Answer /\ ans'.rq = rq /\ ans'.head = "sized" /\ ans'.fault = "none"
          /\ ans'.len = origin.len /\ ans'.body = ans.body \o Arrived(k)
      <4> DEFINE b == ans.body \o Arrived(k)
      <4>1. ans' = [ans EXCEPT !.body = b]
        BY <2>2 DEF ReadBody
      <4> HIDE DEF b
      <4> QED BY <3>3, <3>4, <4>1 DEF Answer, b
    <3>6. CASE pc' = "pipe_long" /\ Len(body) + k > origin.len
      <4>1. Answering'
        BY <2>1, <3>4, <3>5, <3>6 DEF Answering, Busy
      <4> QED BY <1>2, <2>1, <3>1, <4>1 DEF Busy
    <3>7. CASE pc' = pc /\ body' = body \o Arrived(k)
      <4>1. Answering'
        BY <2>1, <3>1, <3>3, <3>4, <3>5, <3>7 DEF Answering, Busy
      <4> QED BY <1>2, <2>1, <3>1, <4>1 DEF Busy
    <3> QED BY <2>2, <3>6, <3>7 DEF ReadBody
  <2>3. CASE PipeDown(k)
    <3> DEFINE b == ans.body \o Arrived(k)
               h == IF ans.head = "none" THEN "open" ELSE ans.head
    <3>1. /\ ans' = [ans EXCEPT !.head = h, !.body = b] /\ UNCHANGED <<pc, body>>
          /\ pc \in {"pipe_nolen", "pipe_raw", "pipe_form", "pipe_long"}
      BY <2>3 DEF PipeDown, Piping
    <3>2. Arrived(k) \in Seq(Piece)
      BY <1>0, <2>1, <3>1, ArrivedPieces DEF Busy
    <3>3. b \in Seq(Piece) /\ Len(b) >= Len(ans.body) /\ h \in {"open", "sized"}
          /\ (ans.head # "sized" => h = "open")
      BY <1>0, <3>2 DEF Answer
    <3> HIDE DEF b, h
    <3>4. /\ ans' \in Answer /\ ans'.rq = ans.rq /\ ans'.head = h /\ ans'.len = ans.len
          /\ ans'.body = b
      BY <1>0, <3>1, <3>3 DEF Answer
    <3>5. pc = "pipe_long" => Len(b) > ans.len
      <4>1. Len(ans.body) \in Nat /\ ans.len \in Nat /\ Len(b) \in Nat
        BY <1>0, <3>3 DEF Answer
      <4> QED BY <3>3, <4>1 DEF Answering
    <3>6. Answering'
      BY <2>1, <3>1, <3>3, <3>4, <3>5 DEF Answering, Busy
    <3> QED BY <1>2, <2>1, <3>1, <3>6 DEF Busy
  <2> QED BY <1>25, <2>2, <2>3
<1>26. ASSUME NEW k \in 1..Len(up), PipeUp(k) PROVE Answering' /\ Stored' /\ Kept'
  BY <1>26 DEF PipeUp, Piping, Answering, Stored, Kept, Good, Excuse, Busy
<1>27. CASE PipeInterrupted
  <2>1. pc \in Busy /\ ClientReadable /\ pc # "pipe_long" /\ UNCHANGED <<clientVars, rq>>
        /\ Piping /\ (obj' = obj \/ obj' = NoObj)
    BY <1>27 DEF PipeInterrupted, Piping, Busy, Bury
  <2>2. CASE pc = "pipe_nolen"
    <3>1. ~Complete(ans)
      BY <2>2 DEF Answering, Complete
    <3>2. Excuse
      BY <2>1, <3>1, InterruptedHasExcuse
    <3>3. /\ [ans EXCEPT !.fault = "interrupted"] \in Answer
          /\ [ans EXCEPT !.fault = "interrupted"].rq = rq
          /\ Good([ans EXCEPT !.fault = "interrupted"])
      BY <1>0, <2>1, <3>2, Marked DEF Fault, Good
    <3> QED BY <1>1, <1>27, <2>1, <2>2, <3>3 DEF PipeInterrupted
  <2>3. CASE pc # "pipe_nolen"
    BY <1>0, <1>1, <1>27, <2>1, <2>3 DEF PipeInterrupted
  <2> QED BY <2>2, <2>3
<1>28. CASE PipeEnds
  BY <1>18, <1>28 DEF PipeEnds, Piping, Busy
<1> QED
  BY <1>3, <1>4, <1>5, <1>6, <1>7, <1>8, <1>9, <1>10, <1>11, <1>12, <1>13, <1>14, <1>15, <1>16,
     <1>17, <1>19, <1>20, <1>22, <1>23, <1>24, <1>25, <1>26, <1>27, <1>28 DEF Next, Worker

-----------------------------------------------------------------------------
(* A client that waits sends its next request after the end of an answer.  *)
LEMMA PoliteSends ==
  ASSUME Numbered, Answering, Waiting, Kept, polite, Answered, pc # "closed"
  PROVE  /\ Len(sent) = rq
         /\ pc \in Busy => Complete(ans)
         /\ \A j \in 1..Len(up) : up[j][2] # "head"
<1> USE SessionAssumption
<1>1. rq \in Nat /\ Len(sent) \in Nat /\ rq <= Len(sent)
  BY DEF Waiting, Numbered
<1>2. last.rq \in Nat /\ last.rq <= rq /\ (pc \in Busy => last.rq < rq)
  BY DEF Kept, Answer
<1>3. ans.rq = rq \/ ans.rq = 0
  BY DEF Answering, Blank, Numbered, Busy
<1>4. Len(sent) = rq
  BY <1>1, <1>2, <1>3 DEF Answered
<1>5. pc \in Busy => Complete(ans)
  BY <1>1, <1>2, <1>4 DEF Answered, Numbered
<1>6. Patient
  BY DEF Waiting
<1> QED BY <1>1, <1>4, <1>5, <1>6 DEF Patient

LEMMA InitWaiting == Init => Waiting
BY DEF Init, Waiting, Patient, Busy

LEMMA WaitingSends ==
  ASSUME Numbered, Answering, Waiting, Kept, NEW r \in Request, ClientSend(r),
         pc # "closed", UNCHANGED <<pc, rq, ans>>
  PROVE  Waiting'
<1> DEFINE n == Len(sent) + 1
           e == <<n, "head">>
<1>1. /\ sent' = Append(sent, r) /\ up' = Append(up, e) /\ todo' = r.body /\ todo = 0
      /\ Len(sent) \in Nat /\ n \in 1..NReq /\ polite' = polite /\ r.body \in Nat
  BY SessionAssumption DEF ClientSend, Numbered, Request
<1>2. /\ Len(sent') = n /\ sent'[n] = r /\ \A i \in 1..Len(sent) : sent'[i] = sent[i]
  BY <1>1 DEF Numbered
<1>3. /\ up \in Seq(Unit) /\ Len(up) \in Nat /\ Len(up') = Len(up) + 1 /\ up'[Len(up) + 1] = e
      /\ \A j \in 1..Len(up) : up'[j] = up[j]
  BY <1>1 DEF Numbered
<1>4. rq' \in 0..Len(sent')
  BY <1>1, <1>2 DEF Waiting
<1>5. sent' # <<>> => sent'[Len(sent')].body \in Nat /\ todo' <= sent'[Len(sent')].body
  BY <1>1, <1>2
<1>6. ASSUME NEW j \in 1..Len(up')
      PROVE  up'[j][1] \in 1..Len(sent') /\ (up'[j][2] = "body" => sent'[up'[j][1]].body > 0)
  <2>1. CASE j = Len(up) + 1
    BY <1>1, <1>2, <1>3, <2>1
  <2>2. CASE j # Len(up) + 1
    <3>1. j \in 1..Len(up)
      BY <1>3, <2>2
    <3> QED BY <1>1, <1>2, <1>3, <3>1 DEF Waiting
  <2> QED BY <2>1, <2>2
<1>7. ASSUME polite PROVE Patient'
  <2>1. /\ Len(sent) = rq /\ (pc \in Busy => Complete(ans))
        /\ \A j \in 1..Len(up) : up[j][2] # "head"
    BY <1>7, PoliteSends DEF ClientSend
  <2>2. up' # <<>>
    BY <1>3
  <2>3. ASSUME NEW j \in 1..Len(up'), up'[j][2] = "head"
        PROVE  up'[j][1] = rq + 1
               /\ Rest(up', j) = Bodies(rq + 1, sent'[rq + 1].body - todo')
    <3>1. j = Len(up) + 1 /\ j = Len(up')
      BY <1>3, <2>1, <2>3
    <3>2. Rest(up', j) = <<>>
      BY <3>1, <1>1, <1>3 DEF Rest
    <3>3. sent'[rq + 1].body - todo' = 0
      BY <1>1, <1>2, <2>1
    <3>4. Bodies(rq + 1, 0) = <<>>
      BY DEF Bodies
    <3> QED BY <1>3, <2>1, <3>1, <3>2, <3>3, <3>4
  <2> QED BY <1>2, <2>1, <2>2, <2>3 DEF Patient, Complete
<1> QED BY <1>1, <1>4, <1>5, <1>6, <1>7 DEF Waiting

LEMMA WaitingBody ==
  ASSUME Numbered, Waiting, ClientBody, pc # "closed", UNCHANGED <<pc, rq, ans>>
  PROVE  Waiting'
<1> DEFINE n == Len(sent)
           e == <<n, "body">>
<1>1. /\ up' = Append(up, e) /\ todo' = todo - 1 /\ todo \in Nat /\ todo > 0
      /\ UNCHANGED <<sent, polite>> /\ n \in 1..NReq /\ sent[n].body \in Nat
      /\ todo <= sent[n].body
  BY SessionAssumption DEF ClientBody, Numbered, Waiting
<1>2. /\ up \in Seq(Unit) /\ Len(up) \in Nat /\ Len(up') = Len(up) + 1 /\ up'[Len(up) + 1] = e
      /\ \A j \in 1..Len(up) : up'[j] = up[j]
  BY <1>1 DEF Numbered
<1>3. e \in Unit
  BY <1>1 DEF Unit
<1>4. ASSUME NEW j \in 1..Len(up')
      PROVE  up'[j][1] \in 1..Len(sent) /\ (up'[j][2] = "body" => sent[up'[j][1]].body > 0)
  <2>1. CASE j = Len(up) + 1
    BY <1>1, <1>2, <2>1
  <2>2. CASE j # Len(up) + 1
    <3>1. j \in 1..Len(up)
      BY <1>2, <2>2
    <3> QED BY <1>2, <3>1 DEF Waiting
  <2> QED BY <2>1, <2>2
<1>5. ASSUME polite PROVE Patient'
  <2>1. Patient
    BY <1>5 DEF Waiting
  <2>2. up' # <<>>
    BY <1>2
  <2>3. ASSUME NEW j \in 1..Len(up'), up'[j][2] = "head"
        PROVE  /\ up'[j][1] = rq + 1 /\ Len(sent) = rq + 1
               /\ Rest(up', j) = Bodies(rq + 1, sent[rq + 1].body - todo')
    <3>1. j \in 1..Len(up) /\ up[j][2] = "head" /\ up'[j] = up[j]
      <4>1. e[2] # "head"
        OBVIOUS
      <4> QED BY <1>2, <2>3, <4>1
    <3>2. /\ up[j][1] = rq + 1 /\ n = rq + 1
          /\ Rest(up, j) = Bodies(n, sent[n].body - todo)
      BY <2>1, <3>1 DEF Patient
    <3>3. Rest(up', j) = Append(Rest(up, j), e)
      <4>1. j \in 0..Len(up)
        BY <3>1
      <4> QED BY <1>1, <1>2, <1>3, <4>1, RestAppend
    <3>4. sent[n].body - todo \in Nat /\ sent[n].body - todo' = (sent[n].body - todo) + 1
      BY <1>1
    <3>5. Bodies(n, sent[n].body - todo') = Append(Bodies(n, sent[n].body - todo), e)
      BY <1>1, <3>4, BodiesNext
    <3> QED BY <3>1, <3>2, <3>3, <3>5
  <2> QED BY <1>1, <2>1, <2>2, <2>3 DEF Patient, Complete
<1>6. todo' <= sent[n].body
  BY <1>1
<1> QED BY <1>1, <1>4, <1>5, <1>6 DEF Waiting

(* A recv takes the first k units of what has arrived.                     *)
LEMMA WaitingReads ==
  ASSUME Numbered, Waiting, NEW k \in 1..Len(up), up' = Rest(up, k),
         UNCHANGED <<polite, sent, todo>>, rq' \in 0..Len(sent),
         polite /\ pc' # "closed" =>
           /\ rq' = Len(sent)
           /\ \A j \in k + 1..Len(up) : up[j][2] # "head"
  PROVE  Waiting'
<1>1. up \in Seq(Unit) /\ k \in 0..Len(up) /\ Len(up) \in Nat
  BY DEF Numbered
<1>2. /\ Len(up') = Len(up) - k
      /\ \A j \in 1..Len(up) - k : k + j \in 1..Len(up) /\ up'[j] = up[k + j]
  BY <1>1, RestElements
<1>3. ASSUME NEW j \in 1..Len(up')
      PROVE  up'[j][1] \in 1..Len(sent) /\ (up'[j][2] = "body" => sent[up'[j][1]].body > 0)
  BY <1>2, <1>3 DEF Waiting
<1>4. ASSUME polite, pc' # "closed" PROVE Patient'
  <2>1. rq' = Len(sent) /\ Len(sent) \in Nat
    BY <1>4 DEF Numbered
  <2>2. ASSUME NEW j \in 1..Len(up') PROVE up'[j][2] # "head"
    <3>1. k + j \in k + 1..Len(up) /\ up'[j] = up[k + j]
      BY <1>1, <1>2
    <3> QED BY <1>4, <3>1
  <2>3. ~(Len(sent') > rq')
    BY <2>1
  <2> QED BY <2>2, <2>3 DEF Patient
<1> QED BY <1>3, <1>4 DEF Waiting

LEMMA WaitingStep ==
  ASSUME Numbered, Filled, Answering, Waiting, Kept, [Next]_vars
  PROVE  Waiting'
<1> USE SessionAssumption
<1>1. ASSUME UNCHANGED <<clientVars, rq>>, pc # "closed", pc' \in {"read", "closed"}
      PROVE  Waiting'
  BY <1>1 DEF Waiting, Patient, clientVars, Busy
<1>2. ASSUME UNCHANGED <<clientVars, rq, ans>>, pc \in Busy, pc' \in Busy
      PROVE  Waiting'
  BY <1>2 DEF Waiting, Patient, clientVars, Busy, Complete
<1>3. ASSUME UNCHANGED <<clientVars, rq>>, pc # "closed", ~ClientReadable
      PROVE  Waiting'
  BY <1>3 DEF Waiting, Patient, clientVars, ClientReadable
<1>4. ASSUME NEW a, NEW res, Keep(a, res) PROVE pc' \in {"read", "closed"}
  BY <1>4 DEF Keep, Close
<1>5. CASE Client
  <2>1. pc # "closed" /\ UNCHANGED <<pc, rq, ans>>
    BY <1>5 DEF Client
  <2>2. CASE \E r \in Request : ClientSend(r)
    BY <2>1, <2>2, WaitingSends
  <2>3. CASE ClientBody
    BY <2>1, <2>3, WaitingBody
  <2>4. CASE ClientClose
    BY <2>1, <2>4 DEF ClientClose, Waiting, Patient, Complete
  <2> QED BY <1>5, <2>2, <2>3, <2>4 DEF Client
<1>6. CASE Done \/ UNCHANGED vars
  BY <1>6 DEF Done, vars, clientVars, Waiting, Patient, Complete
<1>7. ASSUME NEW k \in 1..Len(up), ReadRequest(k) PROVE Waiting'
  <2>1. /\ pc = "read" /\ up' = Rest(up, k) /\ UNCHANGED <<polite, sent, todo>>
        /\ up \in Seq(Unit) /\ Len(up) \in Nat /\ 1 \in 1..Len(up)
    BY <1>7 DEF ReadRequest, Numbered
  <2>2. up[1] \in Unit /\ up[1][1] \in 1..Len(sent) /\ rq \in 0..Len(sent)
    BY <2>1 DEF Waiting
  <2>3. CASE up[1][2] = "head"
    <3>1. rq' = up[1][1]
      BY <1>7, <2>3 DEF ReadRequest
    <3>2. ASSUME polite
          PROVE  rq' = Len(sent) /\ \A j \in k + 1..Len(up) : up[j][2] # "head"
      <4>1. /\ up[1][1] = rq + 1 /\ Len(sent) = rq + 1
            /\ Rest(up, 1) = Bodies(rq + 1, sent[rq + 1].body - todo)
        BY <2>1, <2>3, <3>2 DEF Waiting, Patient
      <4>2. sent[rq + 1].body - todo \in Nat /\ rq + 1 \in 1..NReq
        BY <2>1, <2>2, <4>1 DEF Waiting, Numbered
      <4>3. /\ Len(Rest(up, 1)) = Len(up) - 1
            /\ \A j \in 1..Len(up) - 1 : Rest(up, 1)[j] = up[1 + j]
        BY <2>1, RestElements
      <4>4. \A j \in 1..Len(up) - 1 : Rest(up, 1)[j] = <<rq + 1, "body">>
        <5> DEFINE n == sent[rq + 1].body - todo
        <5>1. n \in Nat
          BY <4>2
        <5> HIDE DEF n
        <5>2. /\ Len(Bodies(rq + 1, n)) = n
              /\ \A j \in 1..n : Bodies(rq + 1, n)[j] = <<rq + 1, "body">>
          BY <4>2, <5>1, BodiesNext
        <5>3. Rest(up, 1) = Bodies(rq + 1, n)
          BY <4>1 DEF n
        <5> QED BY <4>3, <5>2, <5>3
      <4>5. ASSUME NEW j \in k + 1..Len(up) PROVE up[j][2] # "head"
        <5>1. j - 1 \in 1..Len(up) - 1 /\ 1 + (j - 1) = j
          BY <2>1
        <5>2. Rest(up, 1)[j - 1] = up[j] /\ Rest(up, 1)[j - 1] = <<rq + 1, "body">>
          BY <4>3, <4>4, <5>1
        <5> QED BY <5>2
      <4> QED BY <3>1, <4>1, <4>5
    <3> QED BY <2>1, <2>2, <3>1, <3>2, WaitingReads
  <2>4. CASE up[1][2] = "body"
    <3>1. pc' = "closed" /\ rq' = rq
      BY <1>7, <2>4 DEF ReadRequest, Close
    <3> QED BY <2>1, <2>2, <3>1, WaitingReads
  <2> QED BY <2>2, <2>3, <2>4 DEF Unit
<1>8. ASSUME NEW k \in 1..Len(up), PipeUp(k) PROVE Waiting'
  <2>1. /\ pc = "pipe_form" /\ pc \in Busy /\ up' = Rest(up, k)
        /\ UNCHANGED <<polite, sent, todo, pc, rq>>
    BY <1>8 DEF PipeUp, Piping, ClientIsShut, Busy
  <2>2. ~Complete(ans) /\ rq \in 0..Len(sent) /\ Len(sent) \in Nat
    BY <2>1 DEF Answering, Complete, Waiting, Numbered
  <2>3. ASSUME polite
        PROVE  rq' = Len(sent) /\ \A j \in k + 1..Len(up) : up[j][2] # "head"
    <3>1. Patient
      BY <2>1, <2>3 DEF Waiting
    <3>2. ~(Len(sent) > rq)
      BY <2>1, <2>2, <3>1 DEF Patient
    <3>3. rq = Len(sent) /\ Len(sent) # rq + 1
      BY <2>2, <3>2
    <3>4. \A j \in k + 1..Len(up) : j \in 1..Len(up)
      BY DEF Numbered
    <3> QED BY <2>1, <3>1, <3>3, <3>4 DEF Patient
  <2> QED BY <2>1, <2>2, <2>3, WaitingReads
<1>9. CASE NoRequest \/ Refuse
  BY <1>1, <1>9 DEF NoRequest, Refuse, Close
<1>10. CASE Manage \/ Fatboy \/ OnlyIfCached \/ NotModifiedFromMem \/ ConnectFails
            \/ SendRequestFails
  BY <1>1, <1>4, <1>10
     DEF Manage, Fatboy, OnlyIfCached, NotModifiedFromMem, ConnectFails, SendRequestFails
<1>11. CASE SendFresh \/ SendRecent
  BY <1>1, <1>4, <1>11 DEF SendFresh, SendRecent, SendObject
<1>12. CASE Connect \/ SendRequest
  BY <1>2, <1>12 DEF Connect, SendRequest, Busy
<1>13. CASE HeadFails \/ BodyShort \/ ClientSendFails \/ PipeEnds
  BY <1>1, <1>4, <1>13
     DEF HeadFails, BodyShort, ClientSendFails, PipeEnds, Piping, CloseFetch
<1>14. CASE BodyDone \/ BodyStops \/ LongEnds
  BY <1>1, <1>4, <1>14 DEF BodyDone, BodyStops, LongEnds, LoadStops
<1>15. ASSUME NEW k \in 1..HeadLen + BodyLen + 1, ReadHead(k) \/ ReadBody(k) \/ PipeDown(k)
       PROVE  Waiting'
  BY <1>3, <1>15 DEF ReadHead, ReadBody, PipeDown, Piping
<1>16. CASE PipeInterrupted
  BY <1>1, <1>4, <1>16 DEF PipeInterrupted, Piping
<1> QED
  BY <1>5, <1>6, <1>7, <1>8, <1>9, <1>10, <1>11, <1>12, <1>13, <1>14, <1>15, <1>16
     DEF Next, Worker

(* After every answer behind which the connection is kept the client can   *)
(* tell where the answer ended, or the answer is one of the exceptions     *)
(* (KeptIsWhole), whatever arrives from the client and the origin, in      *)
(* whatever pieces.                                                        *)
THEOREM KeptAnswersAreWhole == Spec => []KeptIsWhole
<1> DEFINE IInv == Numbered /\ Filled /\ Answering /\ Stored /\ Kept /\ Waiting
<1>1. Init => IInv
  BY InitFilled, InitAnswers, InitWaiting
<1>2. IInv /\ [Next]_vars => IInv'
  BY NumberedStep, FilledStep, AnswersStep, WaitingStep
<1>3. IInv => KeptIsWhole
  BY DEF Kept, Good, Excuse, KeptIsWhole
<1> QED BY <1>1, <1>2, <1>3, PTL DEF Spec

-----------------------------------------------------------------------------
(* What has come from the client behind the head of its request.           *)
Due == Bodies(rq, sent[rq].body - todo)

Ahead == {"route", "request", "pipe_form"}

(* Of a polite client nothing is lost between recv and the origin.         *)
Forwarding ==
  /\ data \in Seq(Unit) /\ fwd \in Seq(Unit)
  /\ polite /\ pc \in {"route", "request"} => data \o up = Due
  /\ polite /\ pc = "pipe_form" => fwd \o up = <<<<rq, "head">>>> \o Due

LEMMA AtTheLast ==
  ASSUME Numbered, Answering, Waiting, polite, pc \in Ahead
  PROVE  /\ ~Complete(ans) /\ Len(sent) = rq /\ rq \in 1..NReq /\ Len(sent) \in Nat
         /\ pc \in Busy
<1>1. pc \in Busy /\ rq \in 1..NReq /\ rq \in 0..Len(sent) /\ Len(sent) \in Nat
  BY DEF Ahead, Busy, Numbered, Waiting
<1>2. ans.head # "sized"
  BY DEF Ahead, Answering, Blank
<1>3. ~Complete(ans)
  BY <1>2 DEF Complete
<1>4. Patient
  BY DEF Waiting, Ahead
<1>5. ~(Len(sent) > rq)
  BY <1>1, <1>3, <1>4 DEF Patient
<1> QED BY <1>1, <1>3, <1>5

LEMMA ForwardingBody ==
  ASSUME Numbered, Answering, Waiting, Forwarding, ClientBody, polite, pc \in Ahead,
         UNCHANGED <<pc, rq, data, fwd>>
  PROVE  Forwarding'
<1> DEFINE e == <<rq, "body">>
           n == sent[rq].body - todo
<1>1. /\ up' = Append(up, e) /\ todo' = todo - 1 /\ todo \in Nat /\ todo > 0
      /\ UNCHANGED <<sent, polite>> /\ rq \in 1..NReq /\ sent[rq].body \in Nat
      /\ todo <= sent[rq].body /\ up \in Seq(Unit) /\ rq \in Nat
  BY AtTheLast DEF ClientBody, Numbered, Waiting
<1>2. e \in Unit
  BY <1>1 DEF Unit
<1>3. n \in Nat /\ sent[rq].body - todo' = n + 1
  BY <1>1
<1>4. Bodies(rq, n) \in Seq(Unit) /\ Due' = Append(Due, e) /\ Due = Bodies(rq, n)
  BY <1>1, <1>3, BodiesNext DEF Due
<1>6. <<<<rq, "head">>>> \in Seq(Unit)
  BY <1>1 DEF Unit
<1> HIDE DEF e, n
<1>5. ASSUME NEW s \in Seq(Unit), NEW t \in Seq(Unit)
      PROVE  s \o Append(t, e) = Append(s \o t, e)
  <2>1. Append(t, e) = t \o <<e>> /\ <<e>> \in Seq(Unit)
    BY <1>2, AppendIsConcat
  <2>2. s \o t \in Seq(Unit) /\ Append(s \o t, e) = (s \o t) \o <<e>>
    BY <1>2, AppendIsConcat, ConcatProperties
  <2> QED BY <2>1, <2>2, ConcatAssociative
<1>7. data \in Seq(Unit) /\ fwd \in Seq(Unit)
  BY DEF Forwarding
<1>8. CASE pc \in {"route", "request"}
  <2>1. data \o up' = Append(data \o up, e)
    BY <1>1, <1>5, <1>7
  <2>2. data \o up = Due
    BY <1>8 DEF Forwarding
  <2> QED BY <1>4, <1>7, <1>8, <2>1, <2>2 DEF Forwarding
<1>9. CASE pc = "pipe_form"
  <2>1. fwd \o up' = Append(fwd \o up, e)
    BY <1>1, <1>5, <1>7
  <2>2. fwd \o up = <<<<rq, "head">>>> \o Due
    BY <1>9 DEF Forwarding
  <2>3. <<<<rq, "head">>>> \o Append(Due, e) = Append(<<<<rq, "head">>>> \o Due, e)
    BY <1>4, <1>5, <1>6
  <2> QED BY <1>4, <1>7, <1>9, <2>1, <2>2, <2>3 DEF Forwarding
<1> QED BY <1>8, <1>9 DEF Ahead

LEMMA ForwardingRead ==
  ASSUME Numbered, Waiting, Forwarding, NEW k \in 1..Len(up), ReadRequest(k)
  PROVE  Forwarding'
<1>1. /\ pc = "read" /\ up' = Rest(up, k) /\ UNCHANGED <<polite, sent, todo, fwd>>
      /\ up \in Seq(Unit) /\ Len(up) \in Nat /\ todo \in Nat
      /\ data \in Seq(Unit) /\ fwd \in Seq(Unit)
  BY DEF ReadRequest, Numbered, Forwarding, fetchVars
<1>2. up[1] \in Unit
  BY <1>1
<1>3. CASE up[1][2] = "body"
  BY <1>1, <1>3 DEF ReadRequest, Close, Forwarding
<1>4. CASE up[1][2] = "head"
  <2> DEFINE r == sent[up[1][1]]
             extra == SubSeq(up, 2, k)
  <2>1. /\ rq' = up[1][1] /\ pc' = "route"
        /\ data' = IF r.body > 0 THEN extra ELSE <<>>
    BY <1>4 DEF ReadRequest
  <2>2. extra \o Rest(up, k) = Rest(up, 1)
    <3>1. 2 \in 1..Len(up) + 1 /\ k \in 2 - 1..Len(up) /\ Len(up) \in k..Len(up)
      BY <1>1
    <3>2. SubSeq(up, 2, k) \o SubSeq(up, k + 1, Len(up)) = SubSeq(up, 2, Len(up))
      BY <1>1, <3>1, ConcatAdjacentSubSeq
    <3>3. Rest(up, 1) = SubSeq(up, 2, Len(up)) /\ Rest(up, k) = SubSeq(up, k + 1, Len(up))
      BY DEF Rest
    <3> QED BY <3>2, <3>3
  <2>3. extra \in Seq(Unit)
    BY <1>1
  <2> HIDE DEF extra
  <2>4. data' \in Seq(Unit)
    BY <2>1, <2>3
  <2>5. ASSUME polite PROVE data' \o up' = Due'
    <3> DEFINE n == sent[rq + 1].body - todo
    <3>1. /\ up[1][1] = rq + 1 /\ Len(sent) = rq + 1 /\ Rest(up, 1) = Bodies(rq + 1, n)
          /\ sent[rq + 1].body \in Nat /\ n \in Nat /\ rq + 1 \in 1..NReq
      <4>1. /\ up[1][1] = rq + 1 /\ Len(sent) = rq + 1 /\ Rest(up, 1) = Bodies(rq + 1, n)
        BY <1>1, <1>4, <2>5 DEF Waiting, Patient
      <4>2. rq \in Nat /\ sent # <<>> /\ Len(sent) <= NReq
        BY <4>1, <1>1 DEF Waiting, Numbered
      <4>3. sent[rq + 1].body \in Nat /\ todo <= sent[rq + 1].body
        BY <4>1, <4>2 DEF Waiting
      <4>4. n \in Nat
        BY <4>3, <1>1
      <4>5. rq + 1 \in 1..NReq
        BY <4>1, <4>2, SessionAssumption
      <4> QED BY <4>1, <4>3, <4>4, <4>5
    <3>2. Due' = Bodies(rq + 1, n)
      BY <1>1, <2>1, <3>1 DEF Due
    <3>3. CASE r.body > 0
      BY <1>1, <2>1, <2>2, <3>1, <3>2, <3>3
    <3>4. CASE ~(r.body > 0)
      <4>1. n = 0
        BY <1>1, <3>1, <3>4
      <4>2. Len(Rest(up, 1)) = 0
        BY <3>1, <4>1, BodiesNext
      <4>3. Len(Rest(up, 1)) = Len(up) - 1 /\ Rest(up, 1) \in Seq(Unit)
        <5>1. 1 \in 0..Len(up)
          BY <1>1
        <5> QED BY <1>1, <5>1, RestElements
      <4>4. k = Len(up) /\ Rest(up, k) \in Seq(Unit) /\ Len(Rest(up, k)) = Len(up) - k
        <5>1. k \in 0..Len(up)
          BY <1>1
        <5>2. k = Len(up)
          BY <1>1, <4>2, <4>3
        <5> QED BY <1>1, <5>1, <5>2, RestElements
      <4>5. up' = <<>> /\ Rest(up, 1) = <<>>
        <5>1. Len(up') = 0 /\ up' \in Seq(Unit)
          BY <1>1, <4>4
        <5> QED BY <4>2, <4>3, <5>1, EmptySeq
      <4>6. data' = <<>> /\ <<>> \o <<>> = <<>>
        BY <2>1, <3>4
      <4> QED BY <3>1, <3>2, <4>5, <4>6
    <3> QED BY <3>3, <3>4
  <2> QED BY <1>1, <2>1, <2>4, <2>5 DEF Forwarding
<1> QED BY <1>2, <1>3, <1>4 DEF Unit

LEMMA ForwardingRequest ==
  ASSUME Numbered, Forwarding, SendRequest
  PROVE  Forwarding'
<1> DEFINE h == <<<<rq, "head">>>>
<1>1. /\ pc = "request" /\ UNCHANGED <<polite, sent, todo, up, rq, data>>
      /\ fwd' = h \o (IF sent[rq].kind = "form" THEN data ELSE <<>>)
      /\ pc' = IF sent[rq].kind = "form" THEN "pipe_form" ELSE "head"
  BY DEF SendRequest, RequestUnits, clientVars
<1>2. rq \in 1..NReq /\ up \in Seq(Unit) /\ data \in Seq(Unit)
  BY <1>1 DEF Numbered, Busy, Forwarding
<1>3. h \in Seq(Unit) /\ <<>> \in Seq(Unit)
  BY <1>2 DEF Unit
<1> HIDE DEF h
<1>4. CASE sent[rq].kind = "form"
  <2>1. fwd' = h \o data /\ pc' = "pipe_form"
    BY <1>1, <1>4
  <2>2. fwd' \in Seq(Unit)
    BY <1>2, <1>3, <2>1, ConcatProperties
  <2>3. fwd' \o up = h \o (data \o up)
    BY <1>2, <1>3, <2>1, ConcatAssociative
  <2>4. polite => data \o up = Due
    BY <1>1 DEF Forwarding
  <2>5. Due' = Due
    BY <1>1 DEF Due
  <2> QED BY <1>1, <1>2, <2>1, <2>2, <2>3, <2>4, <2>5 DEF Forwarding, h
<1>5. CASE sent[rq].kind # "form"
  <2>1. fwd' = h \o <<>> /\ pc' = "head"
    BY <1>1, <1>5
  <2>2. fwd' \in Seq(Unit)
    BY <1>3, <2>1, ConcatProperties
  <2> QED BY <1>1, <1>2, <2>1, <2>2 DEF Forwarding
<1> QED BY <1>4, <1>5

LEMMA ForwardingPipe ==
  ASSUME Numbered, Forwarding, NEW k \in 1..Len(up), PipeUp(k)
  PROVE  Forwarding'
<1>1. /\ pc = "pipe_form" /\ UNCHANGED <<polite, sent, todo, pc, rq, data>>
      /\ up' = Rest(up, k) /\ fwd' = fwd \o First(up, k)
  BY DEF PipeUp, Piping, ClientIsShut
<1>2. up \in Seq(Unit) /\ fwd \in Seq(Unit) /\ data \in Seq(Unit) /\ Len(up) \in Nat
  BY DEF Numbered, Forwarding
<1>3. First(up, k) \in Seq(Unit) /\ Rest(up, k) \in Seq(Unit)
  BY <1>2 DEF First, Rest
<1>4. First(up, k) \o Rest(up, k) = up
  <2>1. 1 \in 1..Len(up) + 1 /\ k \in 1 - 1..Len(up) /\ Len(up) \in k..Len(up)
    BY <1>2
  <2>2. SubSeq(up, 1, k) \o SubSeq(up, k + 1, Len(up)) = SubSeq(up, 1, Len(up))
    BY <1>2, <2>1, ConcatAdjacentSubSeq
  <2>3. SubSeq(up, 1, Len(up)) = up
    BY <1>2, SubSeqFull
  <2> QED BY <2>2, <2>3 DEF First, Rest
<1>5. fwd' \in Seq(Unit)
  BY <1>1, <1>2, <1>3, ConcatProperties
<1>6. fwd' \o up' = fwd \o up
  <2>1. (fwd \o First(up, k)) \o Rest(up, k) = fwd \o (First(up, k) \o Rest(up, k))
    <3>1. ASSUME NEW s \in Seq(Unit), NEW t \in Seq(Unit), NEW u \in Seq(Unit)
          PROVE  (s \o t) \o u = s \o (t \o u)
      BY ConcatAssociative
    <3> QED BY <1>2, <1>3, <3>1, Zenon
  <2> QED BY <1>1, <1>4, <2>1
<1>7. Due' = Due
  BY <1>1 DEF Due
<1> QED BY <1>1, <1>2, <1>5, <1>6, <1>7 DEF Forwarding

LEMMA ForwardingStep ==
  ASSUME Numbered, Filled, Answering, Waiting, Kept, Forwarding, [Next]_vars
  PROVE  Forwarding'
<1>1. ASSUME UNCHANGED <<data, fwd>>, pc' \notin Ahead
      PROVE  Forwarding'
  BY <1>1 DEF Forwarding, Ahead
<1>2. ASSUME UNCHANGED <<data, fwd, polite, sent, todo, up, rq, pc>>
      PROVE  Forwarding'
  BY <1>2 DEF Forwarding, Due
<1>3. ASSUME NEW a, NEW res, Keep(a, res) PROVE pc' \notin Ahead
  BY <1>3 DEF Keep, Close, Ahead
<1>4. CASE Client
  <2>1. UNCHANGED <<pc, rq, data, fwd, ans>> /\ pc # "closed" /\ polite' = polite
    BY <1>4 DEF Client, fetchVars, ClientSend, ClientBody, ClientClose
  <2>2. CASE pc \notin Ahead
    BY <1>1, <2>1, <2>2
  <2>3. CASE ~polite
    BY <2>1, <2>3 DEF Forwarding
  <2>4. CASE pc \in Ahead /\ polite
    <3>1. ~Complete(ans) /\ pc \in Busy
      BY <2>4, AtTheLast
    <3>2. ASSUME NEW r \in Request, ClientSend(r) PROVE FALSE
      <4>1. Answered
        BY <2>4, <3>2 DEF ClientSend
      <4> QED BY <2>1, <2>4, <3>1, <4>1, PoliteSends
    <3>3. CASE ClientBody
      BY <2>1, <2>4, <3>3, ForwardingBody
    <3>4. CASE ClientClose
      BY <1>2, <2>1, <3>4 DEF ClientClose
    <3> QED BY <1>4, <3>2, <3>3, <3>4 DEF Client
  <2> QED BY <2>2, <2>3, <2>4
<1>5. CASE Done \/ UNCHANGED vars
  BY <1>2, <1>5 DEF Done, vars, clientVars, fetchVars
<1>6. CASE \E k \in 1..Len(up) : ReadRequest(k) \/ PipeUp(k)
  BY <1>6, ForwardingRead, ForwardingPipe
<1>7. CASE NoRequest \/ Refuse
  BY <1>1, <1>7 DEF NoRequest, Refuse, Close, Ahead, fetchVars
<1>8. CASE Manage \/ Fatboy \/ OnlyIfCached \/ NotModifiedFromMem \/ ConnectFails
           \/ SendRequestFails
  BY <1>1, <1>3, <1>8
     DEF Manage, Fatboy, OnlyIfCached, NotModifiedFromMem, ConnectFails, SendRequestFails,
         fetchVars
<1>9. CASE SendFresh \/ SendRecent
  BY <1>1, <1>3, <1>9 DEF SendFresh, SendRecent, SendObject, fetchVars
<1>10. CASE Connect
  <2>1. <<>> \in Seq(Unit)
    OBVIOUS
  <2> QED BY <1>10, <2>1 DEF Connect, Forwarding, Due, clientVars
<1>11. CASE SendRequest
  BY <1>11, ForwardingRequest
<1>12. CASE HeadFails \/ BodyShort \/ ClientSendFails \/ PipeEnds \/ BodyDone \/ BodyStops
            \/ LongEnds
  BY <1>1, <1>3, <1>12
     DEF HeadFails, BodyShort, ClientSendFails, PipeEnds, CloseFetch, BodyDone, BodyStops,
         LongEnds, LoadStops, fetchVars
<1>13. ASSUME NEW k \in 1..HeadLen + BodyLen + 1, ReadHead(k) PROVE Forwarding'
  <2>1. UNCHANGED <<data, fwd>> /\ pc = "head"
    BY <1>13 DEF ReadHead
  <2>2. origin.kind \in {"plain", "nolen", "raw", "notmod"}
    BY <2>1 DEF Filled
  <2>3. pc' \in {"body", "pipe_nolen", "pipe_raw", "head"} \/ NotModified
    BY <1>13, <2>1, <2>2 DEF ReadHead, HeadOk, HeadRaw
  <2>4. pc' \notin Ahead
    BY <1>3, <2>3 DEF NotModified, SendObject, Ahead
  <2> QED BY <1>1, <2>1, <2>4
<1>14. ASSUME NEW k \in 1..HeadLen + BodyLen + 1, ReadBody(k) PROVE Forwarding'
  BY <1>1, <1>14 DEF ReadBody, Ahead
<1>15. ASSUME NEW k \in 1..HeadLen + BodyLen + 1, PipeDown(k) PROVE Forwarding'
  BY <1>2, <1>15 DEF PipeDown, clientVars
<1>16. CASE PipeInterrupted
  BY <1>1, <1>3, <1>16 DEF PipeInterrupted, fetchVars
<1> QED
  BY <1>4, <1>5, <1>6, <1>7, <1>8, <1>9, <1>10, <1>11, <1>12, <1>13, <1>14, <1>15, <1>16
     DEF Next, Worker

(* The origin of a form gets the head and the whole body of its request,   *)
(* nothing lost and nothing else, whatever part of the body came with the  *)
(* head and however the rest arrives (FormForwarded).                      *)
THEOREM FormsForwardedWhole == Spec => []FormForwarded
<1> DEFINE IInv == /\ Numbered /\ Filled /\ Answering /\ Stored /\ Kept /\ Waiting
                   /\ Forwarding
<1>1. Init => IInv
  <2>1. <<>> \in Seq(Unit)
    OBVIOUS
  <2>2. Init => Forwarding
    BY <2>1 DEF Init, Forwarding
  <2> QED BY <2>2, InitFilled, InitAnswers, InitWaiting
<1>2. IInv /\ [Next]_vars => IInv'
  BY NumberedStep, FilledStep, AnswersStep, WaitingStep, ForwardingStep
<1>3. IInv => FormForwarded
  BY DEF Forwarding, FormForwarded, Due, Bodies
<1> QED BY <1>1, <1>2, <1>3, PTL DEF Spec
=============================================================================
