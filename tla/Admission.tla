----------------------------- MODULE Admission -----------------------------
(***************************************************************************)
(* What the thread pool promises to the clients, without threads, signals  *)
(* and counts: a connection is in service once or waits in the line of its *)
(* address, at most Max are in service, the lines are served in the order  *)
(* of arrival, and as long as the limit per address is not changed nobody  *)
(* who arrives overtakes the line of the address.                          *)
(***************************************************************************)
EXTENDS Naturals, Sequences, FiniteSets

CONSTANTS Conn, Ip, Max

VARIABLES line,     \* the connections that wait, for each address
          service,  \* the connections in service, each with its address
          steady    \* whether the limit is what it was at the start

vars == <<line, service, steady>>

Present(c) == \/ \E i \in Ip : <<c, i>> \in service
              \/ \E i \in Ip : \E k \in DOMAIN line[i] : line[i][k] = c

Init ==
  /\ line = [i \in Ip |-> <<>>]
  /\ service = {}
  /\ steady = TRUE

Wait(c, i) ==
  /\ ~Present(c)
  /\ line' = [line EXCEPT ![i] = Append(@, c)]
  /\ UNCHANGED <<service, steady>>

Serve(c, i) ==
  /\ ~Present(c)
  /\ Cardinality(service) < Max
  /\ steady => line[i] = <<>>
  /\ service' = service \cup {<<c, i>>}
  /\ UNCHANGED <<line, steady>>

ServeNext(i) ==
  /\ line[i] # <<>>
  /\ Cardinality(service) < Max
  /\ service' = service \cup {<<Head(line[i]), i>>}
  /\ line' = [line EXCEPT ![i] = Tail(@)]
  /\ UNCHANGED steady

End(c, i) ==
  /\ <<c, i>> \in service
  /\ service' = service \ {<<c, i>>}
  /\ UNCHANGED <<line, steady>>

(* An address is banned, or the limit is given up: its line, or all of     *)
(* them, are turned away.  Who is in service stays.                        *)
TurnAway(S) ==
  /\ line' = [i \in Ip |-> IF i \in S THEN <<>> ELSE line[i]]
  /\ UNCHANGED <<service, steady>>

ChangeLimit == steady' = FALSE /\ UNCHANGED <<line, service>>

Next ==
  \/ \E i \in Ip : ServeNext(i) \/ \E c \in Conn : Wait(c, i) \/ Serve(c, i) \/ End(c, i)
  \/ \E i \in Ip : TurnAway({i})
  \/ TurnAway(Ip)
  \/ ChangeLimit

Spec == Init /\ [][Next]_vars
=============================================================================
