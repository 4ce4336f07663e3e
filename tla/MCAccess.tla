------------------------------ MODULE MCAccess ------------------------------
(***************************************************************************)
(* The rules that the configuration uses, in the notation of access.conf:  *)
(* { http !u1 * d1 } from the start, and { * all * d1 }, at one time only, *)
(* which the pages may add.                                                *)
(***************************************************************************)
EXTENDS AccessProps

CONSTANTS u1, d1

Anywhere == [net |-> ALLIP, revers |-> FALSE]

NotUser ==
  [service |-> HTTP, service_revers |-> FALSE,
   src |-> Anywhere, dst |-> [net |-> {d1}, revers |-> FALSE],
   user_id |-> u1, user_revers |-> TRUE, m_time |-> 0..MaxTime, expire_time |-> 0]

UsersAtOneTime ==
  [service |-> ALLIP, service_revers |-> FALSE,
   src |-> Anywhere, dst |-> [net |-> {d1}, revers |-> FALSE],
   user_id |-> ALLUSER, user_revers |-> FALSE, m_time |-> {1}, expire_time |-> 0]

MCRules == {UsersAtOneTime}

Lists(deny, allow) == [m \in Model |-> IF m = DENY THEN deny ELSE allow]
MCAccessConf == {Lists(<<NotUser>>, <<>>)}
=============================================================================
