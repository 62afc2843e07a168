------------------------------ MODULE SessionCtrl ------------------------------
(***************************************************************************)
(* Stream servers and players together: service discovery reports players, *)
(* servers connect to them, users ask players to join and leave, processes *)
(* end and start at any time.                                              *)
(***************************************************************************)
EXTENDS Player, StreamServer

CONSTANT MaxQueue  \* bound: nobody adds to a queue that is longer than that
                   \* of their own accord (answers are always sent)

ASSUME QueueAssumption == MaxQueue \in Nat

vars == <<linkVars, playerVars, srvVars>>

Init == LinkInit /\ PlayerInit /\ ServerInit

-----------------------------------------------------------------------------
PlayerConnStep(c) == ConnStep(c) /\ UNCHANGED srvVars

\* Nothing is posted for the session while there is no room for what it may send.
PlayerOwnStep(p) ==
  /\ PlayerStep(p)
  /\ volFired'[p] + offsets'[p] > volFired[p] + offsets[p] /\ sessionConn[p] # NoConn =>
       Len(toServer[sessionConn[p]]) < MaxQueue
  /\ UNCHANGED srvVars

ServerHandler(c) ==
  \/ OnClientState(c) \/ OnJoinAccepted(c) \/ OnJoinRejected(c)
  \/ OnSessionState(c) \/ OnLeave(c) \/ OnOtherEvent(c)
  \/ OnEof(c) \/ OnReset(c) \/ DanglingRead(c)

ServerConnStep(c) == (ReadCompletes(c) \/ ServerHandler(c)) /\ UNCHANGED playerVars

PostedStep(s) == (\E p \in Players : RunDisconnect(s, p)) /\ UNCHANGED playerVars

RoomFor(s, p) == \A c \in ConnsTo(s, p) : Len(toPlayer[c]) < MaxQueue

User(s, p) ==
  /\ RoomFor(s, p)
  /\ UserJoins(s, p) \/ UserLeaves(s, p) \/ UserSetsVolume(s, p)
  /\ UNCHANGED playerVars

Discovery(s, p) ==
  /\ OnClientAppeared(s, p, plyUp[p]) \/ OnClientDisappeared(s, p)
  /\ UNCHANGED playerVars

ServerFails(s) ==
  /\ \/ WriteThrows(s) \/ ServerExit(s) \/ ServerStart(s)
     \/ \E p \in Players : ErasedIterator(s, p)
  /\ UNCHANGED playerVars

Next ==
  \/ \E c \in Conns : PlayerConnStep(c) \/ ServerConnStep(c)
  \/ \E p \in Players : PlayerOwnStep(p)
  \/ \E s \in Servers : PostedStep(s) \/ ServerFails(s)
  \/ \E s \in Servers, p \in Players : User(s, p) \/ Discovery(s, p)

Spec == Init /\ [][Next]_vars

-----------------------------------------------------------------------------
(* Safety.                                                                 *)

\* Every variable keeps to its type.
TypeOK == LinkTypeOK /\ PlayerTypeOK /\ ServerTypeOK

Tracked == sessionless \cup joined

\* A connection connectToClient has dropped from its list without closing it.
Leaked(c) == srvEnd[c] = "open" /\ c \notin Tracked

NoneLeaked(s, p) == \A c \in ConnsTo(s, p) : ~Leaked(c)

\* A server keeps at most one connection to a player, so the lookup by name,
\* which requests, disconnects and the reports of discovery all go through,
\* means the connection they are about; and it keeps only open connections.
OneConnection ==
  /\ \A c, d \in Tracked : Srv(c) = Srv(d) /\ Ply(c) = Ply(d) => c = d
  /\ \A c \in Tracked : srvEnd[c] = "open"

\* The two connection lists agree with the state machines: what is joined gets
\* the stream, and only what is joined may send evLeave.
ListsMatchStates ==
  /\ sessionless \cap joined = {}
  /\ \A c \in joined : srvSM[c] \in {"sessionMember", "leaveSession"}
  /\ \A c \in sessionless : srvSM[c] \notin {"none", "sessionMember", "leaveSession"}

\* The member flag shown to the user is the membership in the joined list, as
\* long as no leaked connection of that player still reports to the server.
MemberFlag ==
  \A s \in Servers, p \in Players :
    NoneLeaked(s, p) => (rcs[s][p].member <=> ConnsTo(s, p) \cap joined # {})

\* The events under way on c in one direction, of the given kinds.
ToPlayer(c, Kinds) == {i \in DOMAIN toPlayer[c] : toPlayer[c][i] \in Kinds}
ToServer(c, Kinds) == {i \in DOMAIN toServer[c] : toServer[c][i].ev \in Kinds}

\* While both ends are open exactly one request or answer is under way for a
\* machine that waits for one, and none for any other.
RequestAnswered ==
  \A c \in Conns :
    srvEnd[c] = "open" /\ plyEnd[c] \in {"pending", "open"} =>
      /\ Cardinality(ToPlayer(c, {"evRequestJoin"}))
         + Cardinality(ToServer(c, {"evJoinAccepted", "evJoinRejected"}))
           = IF srvSM[c] = "awaitJoinResponse" THEN 1 ELSE 0
      /\ Cardinality(ToPlayer(c, {"evRequestLeave"})) + Cardinality(ToServer(c, {"evLeave"}))
           = IF srvSM[c] = "leaveSession" THEN 1 ELSE 0

\* An answer never arrives in a state of the server's machine that drops it.
AnswerExpected ==
  \A c \in Conns :
    srvEnd[c] = "open" /\ toServer[c] # <<>> =>
      CASE Head(toServer[c]).ev \in {"evJoinAccepted", "evJoinRejected"} ->
             srvSM[c] = "awaitJoinResponse"
        [] Head(toServer[c]).ev = "evSessionState" -> srvSM[c] = "awaitSessionState"
        [] Head(toServer[c]).ev = "evLeave" -> srvSM[c] = "leaveSession"
        [] OTHER -> TRUE

\* Both sides agree on the membership: a connection that is joined and has no
\* evLeave under way is the one that holds the player's session.
MembersAgree ==
  \A c \in joined :
    plyEnd[c] = "open" /\ ToServer(c, {"evLeave"}) = {} =>
      sessionConn[Ply(c)] = c

\* Once the user has asked a member to leave, it is not selected again before it
\* has left: otherwise the free client's next evClientState would rejoin it.
\* (The late answer on a leaked connection would select it.)
LeaveSticks ==
  \A c \in joined :
    srvSM[c] = "leaveSession" /\ NoneLeaked(Srv(c), Ply(c)) => Ply(c) \notin selected[Srv(c)]

-----------------------------------------------------------------------------
(* The protocol implements module Membership.                              *)

PhaseOf(c) ==
  CASE srvEnd[c] # "open" -> srvEnd[c]
    [] srvSM[c] \in {"awaitJoinResponse", "awaitSessionState"} -> "asked"
    [] srvSM[c] = "sessionMember" -> "member"
    [] srvSM[c] = "leaveSession" -> "leaving"
    [] OTHER -> "idle"

Underway(c, ev) == \E i \in DOMAIN toServer[c] : toServer[c][i].ev = ev

Abstract == INSTANCE Membership WITH
  Links <- Conns, Owner <- Ply, Parties <- Players, Nobody <- NoConn,
  holder <- sessionConn,
  phase <- [c \in Conns |-> PhaseOf(c)],
  granted <- {c \in Conns : Underway(c, "evSessionState")},
  released <- {c \in Conns : Underway(c, "evLeave")}

\* Every behaviour of players and servers is one of Membership: joining and
\* leaving are what the player decided, and nobody else.
ImplementsMembership == Abstract!Spec

-----------------------------------------------------------------------------
(* Liveness.  Both event loops run what is ready, so each handler that stays *)
(* ready is run; nothing is assumed of users, discovery and failures.        *)

FairSpec ==
  /\ Spec
  /\ \A c \in Conns :
       /\ WF_vars(PlayerConnStep(c))
       /\ WF_vars(ReadCompletes(c) /\ UNCHANGED playerVars)
       /\ WF_vars(ServerHandler(c) /\ UNCHANGED playerVars)
  /\ \A s \in Servers : WF_vars(PostedStep(s))

\* A server does not wait forever for a player: whatever fails meanwhile, the
\* machine leaves a state of waiting, unless the connection was reset, which
\* handle_read does not act on.
NoEndlessWait ==
  \A c \in Conns :
    \A w \in {"awaitClientState", "awaitJoinResponse", "awaitSessionState", "leaveSession"} :
      srvSM[c] = w ~> srvSM[c] # w \/ srvPeer[c] = "gone"

\* A player gets free when the server that holds it is gone (same exception).
PlayerGetsFree ==
  \A p \in Players, c \in Conns :
    sessionConn[p] = c /\ srvEnd[c] = "closed" ~> sessionConn[p] # c \/ peer[c] = "gone"

\* A server drops a member whose player is gone (same exception).
MemberDropped ==
  \A c \in Conns :
    c \in joined /\ plyEnd[c] = "closed" ~> c \notin joined \/ srvPeer[c] = "gone"

-----------------------------------------------------------------------------
(* What the code's comments say.                                           *)

\* CStreamCtrlConnection.cpp:215-217 on the posted disconnect, "If it has already
\* been deleted, no pointer will be found": a running server deletes a connection
\* whose player still holds its end only when discovery says the player is gone.
StaleDisconnectHarmless ==
  [][\A c \in Conns :
       srvEnd[c] = "open" /\ srvEnd'[c] = "closed" /\ plyEnd[c] \in {"pending", "open"} =>
         announced' # announced \/ ~srvUp'[Srv(c)]]_vars
===============================================================================
