----------------------------- MODULE CtrlProtocol -----------------------------
(***************************************************************************)
(* The control connection between a stream server (one session, wssrv) and *)
(* a player (one render client, muroad): who the parties are, which events *)
(* travel on a connection, and what closing one end does to the other.     *)
(*                                                                         *)
(* A connection is a TCP socket pair, opened by the server; both ends      *)
(* exchange events (libmstream/cmds/CmdStream.h) that libmstream/ctrlrpcxml*)
(* turns into XML elements and back.  The two directions are FIFO queues.  *)
(***************************************************************************)
EXTENDS Naturals, Sequences

CONSTANTS
  Servers,    \* stream servers; each serves one session, named like itself
  Players,    \* render clients, each known by its service name
  MaxConn,    \* bound: connections a server opens to one player
  NoSession,  \* the empty session name
  NoConn      \* the null connection pointer

\* The n-th connection that server s opens to player p.
Conns == Servers \X Players \X (1 .. MaxConn)

Srv(c) == c[1]
Ply(c) == c[2]

ASSUME NamesAssumption ==
  /\ MaxConn \in Nat
  /\ NoSession \notin Servers
  /\ NoConn \notin Conns

VARIABLES
  toPlayer,  \* [Conns -> Seq]: events under way from the server to the player
  toServer,  \* [Conns -> Seq]: events under way from the player to the server
  plyEnd,    \* [Conns -> EndState]: the player's socket
  srvEnd     \* [Conns -> EndState]: the server's socket

linkVars == <<toPlayer, toServer, plyEnd, srvEnd>>

-----------------------------------------------------------------------------
\* "pending": the kernel has completed the handshake, accept has not run yet.
EndState == {"unused", "pending", "open", "closed"}

\* What one end's kernel knows of the other end: "suspect" when data was sent
\* after the other end was closed, so a reset is on its way or has arrived;
\* "gone" when a read has reported the reset.
PeerState == {"there", "suspect", "gone"}

\* What a read can report at the end of the data: end of file or a reset.
Hangup == {"eof", "rst"}

\* Events with a serializer, by direction.  evRequestClientState and
\* evRequestSessionState have none: sendEvent only logs them.
ServerEvent ==
  {"evRequestJoin", "evRequestLeave", "evSetVolume", "evSyncStream", "evResetStream"}

PlayerEvent ==
  {"evClientState", "evJoinAccepted", "evJoinRejected", "evSessionState",
   "evLeave", "evVolume", "evSessionError"}

\* Only evClientState, evLeave and evJoinRejected name a session; the others
\* carry NoSession here.
PlayerMsg == [ev : PlayerEvent \cup Hangup, session : Servers \cup {NoSession}]

Msg(e, s) == [ev |-> e, session |-> s]

LinkTypeOK ==
  /\ toPlayer \in [Conns -> Seq(ServerEvent \cup Hangup)]
  /\ toServer \in [Conns -> Seq(PlayerMsg)]
  /\ plyEnd \in [Conns -> EndState]
  /\ srvEnd \in [Conns -> EndState]

LinkInit ==
  /\ toPlayer = [c \in Conns |-> <<>>]
  /\ toServer = [c \in Conns |-> <<>>]
  /\ plyEnd = [c \in Conns |-> "unused"]
  /\ srvEnd = [c \in Conns |-> "unused"]

-----------------------------------------------------------------------------
(* Closing a socket.  The kernel sends a FIN, which the other end reads as  *)
(* eof after the data; it sends a reset instead when received data is left  *)
(* unread, which may be so whenever the incoming queue is not empty, and    *)
(* when the connection was never accepted.                                  *)

PlayerCloses(C) ==
  \E R \in SUBSET {c \in C : toPlayer[c] # <<>> \/ plyEnd[c] = "pending"} :
    /\ {c \in C : plyEnd[c] = "pending"} \subseteq R
    /\ plyEnd' = [c \in Conns |-> IF c \in C THEN "closed" ELSE plyEnd[c]]
    /\ toPlayer' = [c \in Conns |-> IF c \in C THEN <<>> ELSE toPlayer[c]]
    /\ toServer' = [c \in Conns |->
         IF c \in C /\ srvEnd[c] = "open"
         THEN Append(toServer[c], Msg(IF c \in R THEN "rst" ELSE "eof", NoSession))
         ELSE toServer[c]]

ServerCloses(C) ==
  \E R \in SUBSET {c \in C : toServer[c] # <<>>} :
    /\ srvEnd' = [c \in Conns |-> IF c \in C THEN "closed" ELSE srvEnd[c]]
    /\ toServer' = [c \in Conns |-> IF c \in C THEN <<>> ELSE toServer[c]]
    /\ toPlayer' = [c \in Conns |->
         IF c \in C /\ plyEnd[c] \in {"pending", "open"}
         THEN Append(toPlayer[c], IF c \in R THEN "rst" ELSE "eof")
         ELSE toPlayer[c]]

\* The server connects; the player's kernel queues the connection for accept.
ServerConnects(c) ==
  /\ srvEnd' = [srvEnd EXCEPT ![c] = "open"]
  /\ plyEnd' = [plyEnd EXCEPT ![c] = "pending"]
  /\ UNCHANGED <<toPlayer, toServer>>
===============================================================================
