------------------------------ MODULE PlayerOpen ------------------------------
(***************************************************************************)
(* The players of module Player among servers that may do anything: open a *)
(* connection, send any event at any time, read what they like and hang up *)
(* when they like.  What holds here does not depend on the stream server.  *)
(***************************************************************************)
EXTENDS Player

CONSTANT MaxQueue  \* bound: events under way in one direction of a connection

ASSUME QueueAssumption == MaxQueue \in Nat

vars == <<linkVars, playerVars>>

AnyConnect(c) ==
  /\ srvEnd[c] = "unused"
  /\ plyUp[Ply(c)]
  /\ ServerConnects(c)

AnySend(c, e) ==
  /\ srvEnd[c] = "open"
  /\ Len(toPlayer[c]) < MaxQueue
  /\ toPlayer' = [toPlayer EXCEPT ![c] =
       IF plyEnd[c] \in {"pending", "open"} THEN Append(@, e) ELSE @]
  /\ UNCHANGED <<toServer, plyEnd, srvEnd>>

\* A read takes all that has arrived.
AnyReceive(c) ==
  /\ srvEnd[c] = "open"
  /\ toServer[c] # <<>>
  /\ toServer' = [toServer EXCEPT ![c] = <<>>]
  /\ UNCHANGED <<toPlayer, plyEnd, srvEnd>>

AnyClose(c) ==
  /\ srvEnd[c] = "open"
  /\ ServerCloses({c})
  /\ UNCHANGED plyEnd

AnyServer ==
  /\ \E c \in Conns :
       \/ AnyConnect(c) \/ AnyReceive(c) \/ AnyClose(c)
       \/ \E e \in ServerEvent : AnySend(c, e)
  /\ UNCHANGED playerVars

Init == LinkInit /\ PlayerInit

Next == PlayerNext \/ AnyServer

Spec == Init /\ [][Next]_vars

-----------------------------------------------------------------------------
\* Every variable keeps to its type.
TypeOK == LinkTypeOK /\ PlayerTypeOK

\* See SessionKeptStep: no server ends the session a player has with another one.
SessionKept == [][SessionKeptStep]_vars
===============================================================================
