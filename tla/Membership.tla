------------------------------ MODULE Membership ------------------------------
(***************************************************************************)
(* What the control protocol promises, without messages and handlers: a    *)
(* player lends itself to one connection at a time, and a server takes a   *)
(* player for a member only after the player has agreed, and for free only *)
(* after the player has let go or the connection has ended.                *)
(*                                                                         *)
(* granted and released are the player's decisions the server has not      *)
(* heard of yet; a server that closes its end never hears of them.         *)
(***************************************************************************)
CONSTANTS
  Links,     \* the connections
  Owner(_),  \* the player a connection leads to
  Parties,   \* the players
  Nobody     \* the holder of a free player

VARIABLES
  holder,    \* [Parties -> Links or Nobody]: whom the player belongs to
  phase,     \* [Links -> Phase]: what the server takes the connection for
  granted,   \* SUBSET Links: agreed to join, the server does not know yet
  released   \* SUBSET Links: let go, the server does not know yet

vars == <<holder, phase, granted, released>>

Phase == {"unused", "idle", "asked", "member", "leaving", "closed"}

Init ==
  /\ holder = [p \in Parties |-> Nobody]
  /\ phase = [c \in Links |-> "unused"]
  /\ granted = {}
  /\ released = {}

Moves(c, from, to) == phase[c] = from /\ phase' = [phase EXCEPT ![c] = to]

Open(c) == Moves(c, "unused", "idle") /\ UNCHANGED <<holder, granted, released>>

Ask(c) == Moves(c, "idle", "asked") /\ UNCHANGED <<holder, granted, released>>

\* The player, free, agrees: to a server that waits, or to one that is gone.
Grant(c) ==
  /\ holder[Owner(c)] = Nobody
  /\ phase[c] \in {"asked", "closed"}
  /\ c \notin granted
  /\ holder' = [holder EXCEPT ![Owner(c)] = c]
  /\ granted' = IF phase[c] = "asked" THEN granted \cup {c} ELSE granted
  /\ UNCHANGED <<phase, released>>

Confirm(c) ==
  /\ c \in granted
  /\ Moves(c, "asked", "member")
  /\ granted' = granted \ {c}
  /\ UNCHANGED <<holder, released>>

\* The server hears that the player does not join.
Refuse(c) ==
  /\ c \notin granted
  /\ Moves(c, "asked", "idle")
  /\ UNCHANGED <<holder, granted, released>>

AskToLeave(c) == Moves(c, "member", "leaving") /\ UNCHANGED <<holder, granted, released>>

\* The player lets go because it is asked to.
Release(c) ==
  /\ holder[Owner(c)] = c
  /\ phase[c] \in {"leaving", "closed"}
  /\ c \notin released
  /\ holder' = [holder EXCEPT ![Owner(c)] = Nobody]
  /\ released' = IF phase[c] = "leaving" THEN released \cup {c} ELSE released
  /\ UNCHANGED <<phase, granted>>

Acknowledge(c) ==
  /\ c \in released
  /\ Moves(c, "leaving", "idle")
  /\ released' = released \ {c}
  /\ UNCHANGED <<holder, granted>>

\* The player loses its connection or its process ends.
Lose(p) ==
  /\ holder[p] # Nobody
  /\ holder' = [holder EXCEPT ![p] = Nobody]
  /\ UNCHANGED <<phase, granted, released>>

\* A server closes connections, for whatever reason.
Close(C) ==
  /\ \A c \in C : phase[c] \notin {"unused", "closed"}
  /\ phase' = [c \in Links |-> IF c \in C THEN "closed" ELSE phase[c]]
  /\ granted' = granted \ C
  /\ released' = released \ C
  /\ UNCHANGED holder

Next ==
  \/ \E c \in Links :
       \/ Open(c) \/ Ask(c) \/ Grant(c) \/ Confirm(c) \/ Refuse(c)
       \/ AskToLeave(c) \/ Release(c) \/ Acknowledge(c)
  \/ \E p \in Parties : Lose(p)
  \/ \E C \in SUBSET Links : Close(C)

Spec == Init /\ [][Next]_vars
===============================================================================
