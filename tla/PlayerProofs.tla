----------------------------- MODULE PlayerProofs -----------------------------
(***************************************************************************)
(* What a player guarantees whatever the servers do, for every number of   *)
(* servers, players and connections and every bound: type correctness, the *)
(* session invariants of module Player, and that a session is never taken  *)
(* over.                                                                   *)
(***************************************************************************)
EXTENDS PlayerOpen, PlayerSteps

-----------------------------------------------------------------------------
(* Type correctness.                                                       *)

\* What the servers of PlayerOpen do.
LEMMA AnyServerType ==
  ASSUME TypeOK, AnyServer
  PROVE  TypeOK'
<1> USE DEF TypeOK, LinkTypeOK, PlayerTypeOK
<1>1. LinkTypeOK'
  <2>1. ASSUME NEW c \in Conns, AnyConnect(c) PROVE LinkTypeOK'
    BY <2>1 DEF AnyConnect, ServerConnects, EndState
  <2>2. ASSUME NEW c \in Conns, AnyReceive(c) PROVE LinkTypeOK'
    BY <2>2 DEF AnyReceive
  <2>3. ASSUME NEW c \in Conns, AnyClose(c) PROVE LinkTypeOK'
    <3>1. PICK R :
            /\ srvEnd' = [d \in Conns |-> IF d \in {c} THEN "closed" ELSE srvEnd[d]]
            /\ toServer' = [d \in Conns |-> IF d \in {c} THEN <<>> ELSE toServer[d]]
            /\ toPlayer' = [d \in Conns |->
                 IF d \in {c} /\ plyEnd[d] \in {"pending", "open"}
                 THEN Append(toPlayer[d], IF d \in R THEN "rst" ELSE "eof")
                 ELSE toPlayer[d]]
            /\ plyEnd' = plyEnd
      BY <2>3 DEF AnyClose, ServerCloses
    <3>2. toPlayer' \in [Conns -> Seq(ServerEvent \cup Hangup)]
      BY <3>1 DEF Hangup
    <3> QED BY <3>1, <3>2 DEF EndState
  <2>4. ASSUME NEW c \in Conns, NEW e \in ServerEvent, AnySend(c, e) PROVE LinkTypeOK'
    BY <2>4 DEF AnySend
  <2> QED BY <2>1, <2>2, <2>3, <2>4 DEF AnyServer
<1> QED BY <1>1 DEF AnyServer, playerVars

LEMMA TypeStep ==
  TypeOK /\ [Next]_vars => TypeOK'
<1> SUFFICES ASSUME TypeOK, [Next]_vars PROVE TypeOK'
  OBVIOUS
<1>1. CASE PlayerNext
  BY <1>1, ConnStepType, PlayerStepType DEF PlayerNext, TypeOK, PartyTypes
<1>2. CASE AnyServer
  BY <1>2, AnyServerType
<1>3. CASE UNCHANGED vars
  BY <1>3 DEF vars, linkVars, playerVars, TypeOK, LinkTypeOK, PlayerTypeOK
<1> QED BY <1>1, <1>2, <1>3 DEF Next

\* Every variable of players and connections keeps to its type, for every
\* number of servers, players and connections.
THEOREM TypeCorrect == Spec => []TypeOK
<1>1. Init => TypeOK
  BY PostsAssumption DEF Init, LinkInit, PlayerInit, TypeOK, LinkTypeOK, PlayerTypeOK,
     EndState, ClntState, PeerState
<1> QED BY <1>1, TypeStep, PTL DEF Spec

-----------------------------------------------------------------------------
(* The session invariants.                                                 *)

\* The servers: only a new connection changes the player's sockets.
LEMMA AnyServerInv ==
  ASSUME PartyInv, AnyServer
  PROVE  SessionInv' /\ Unopened'
<1> USE DEF PartyInv, PartyTypes, LinkTypeOK, PlayerTypeOK, SessionInv
<1>1. UNCHANGED <<clntSM, sessionConn, sessionName, mediaConn>>
  BY DEF AnyServer, playerVars
<1>2. ASSUME NEW c \in Conns, AnyConnect(c) PROVE SessionInv' /\ Unopened'
  <2> USE <1>1, <1>2 DEF AnyConnect, ServerConnects
  <2>1. SessionComplete'
    BY DEF SessionComplete
  <2>2. OneMember'
    BY DEF OneMember
  <2>3. SessionConnOpen'
    BY DEF SessionConnOpen, Unopened, ConnsOf
  <2>4. Unopened'
    BY DEF Unopened
  <2> QED BY <2>1, <2>2, <2>3, <2>4
<1>3. ASSUME NEW c \in Conns, AnyReceive(c) PROVE SessionInv' /\ Unopened'
  BY <1>1, <1>3, InvStable DEF AnyReceive, sessionState
<1>4. ASSUME NEW c \in Conns, AnyClose(c) PROVE SessionInv' /\ Unopened'
  <2>1. plyEnd' = plyEnd /\ srvEnd' = [d \in Conns |-> IF d = c THEN "closed" ELSE srvEnd[d]]
    BY <1>4 DEF AnyClose, ServerCloses
  <2>2. SessionInv'
    BY <1>1, <2>1 DEF SessionComplete, OneMember, SessionConnOpen
  <2>3. Unopened'
    BY <2>1 DEF Unopened
  <2> QED BY <2>2, <2>3
<1>5. ASSUME NEW c \in Conns, NEW e \in ServerEvent, AnySend(c, e) PROVE SessionInv' /\ Unopened'
  BY <1>1, <1>5, InvStable DEF AnySend, sessionState
<1> QED BY <1>2, <1>3, <1>4, <1>5 DEF AnyServer

LEMMA InvStep ==
  PartyInv /\ [Next]_vars => PartyInv'
<1> SUFFICES ASSUME PartyInv, [Next]_vars PROVE PartyInv'
  OBVIOUS
<1>1. PartyTypes'
  BY TypeStep DEF PartyInv, PartyTypes, TypeOK
<1>2. SessionInv' /\ Unopened'
  <2>1. CASE PlayerNext
    BY <2>1, ConnStepInv, PlayerStepInv DEF PlayerNext
  <2>2. CASE AnyServer
    BY <2>2, AnyServerInv
  <2>3. CASE UNCHANGED vars
    BY <2>3, InvStable DEF vars, linkVars, playerVars, sessionState
  <2> QED BY <2>1, <2>2, <2>3 DEF Next
<1> QED BY <1>1, <1>2 DEF PartyInv

LEMMA InvHolds == Spec => []PartyInv
<1>1. Init => PartyInv
  BY PostsAssumption, ConnParties, NamesAssumption
     DEF Init, LinkInit, PlayerInit, PartyInv, PartyTypes, LinkTypeOK, PlayerTypeOK, EndState,
         ClntState, PeerState, SessionInv, SessionComplete, OneMember, SessionConnOpen, Unopened
<1> QED BY <1>1, InvStep, PTL DEF Spec

\* The session's three members always agree.
THEOREM PlayerSessionComplete == Spec => []SessionComplete
<1>1. PartyInv => SessionComplete
  BY DEF PartyInv, SessionInv
<1> QED BY <1>1, InvHolds, PTL

\* At most one connected server has the player as a member.
THEOREM PlayerOneMember == Spec => []OneMember
<1>1. PartyInv => OneMember
  BY DEF PartyInv, SessionInv
<1> QED BY <1>1, InvHolds, PTL

\* A session never outlives the connection that holds it.
THEOREM PlayerSessionConnOpen == Spec => []SessionConnOpen
<1>1. PartyInv => SessionConnOpen
  BY DEF PartyInv, SessionInv
<1> QED BY <1>1, InvHolds, PTL

-----------------------------------------------------------------------------
(* No server ends another one's session.                                   *)

\* Why d may lose the session.
OwnAccount(d) ==
  \/ ~plyUp'[Ply(d)]
  \/ Reads(d, "evRequestLeave") /\ toPlayer'[d] = Tail(toPlayer[d])
  \/ (Reads(d, "eof") \/ txErr[d]) /\ plyEnd'[d] # "open"

\* leaveSession does not look which connection has the session: by OneMember it
\* is the one whose state machine takes the request.
LEMMA LeavesOwn ==
  ASSUME PartyInv, NEW d \in Conns, sessionConn[Ply(d)] = d,
         NEW c \in Conns, LeaveSession(c), sessionConn'[Ply(d)] # d
  PROVE  OwnAccount(d)
<1> USE ConnParties DEF PartyInv, PartyTypes, PlayerTypeOK, LinkTypeOK
<1>1. Ply(c) = Ply(d)
  BY DEF LeaveSession
<1>2. plyEnd[c] = "open" /\ clntSM[c] = "sessionMember"
  BY DEF LeaveSession, Reads
<1>3. c = d
  BY <1>1, <1>2 DEF SessionInv, OneMember
<1> QED BY <1>3 DEF LeaveSession, Consume, OwnAccount

\* onCloseCtrlConn gives up the session only if the connection that ends has it.
LEMMA ClosesOwn ==
  ASSUME PartyInv, NEW d \in Conns, sessionConn[Ply(d)] = d, sessionConn'[Ply(d)] # d,
         NEW c \in Conns, OnCloseCtrlConn(c), Reads(c, "eof") \/ txErr[c]
  PROVE  OwnAccount(d)
<1> USE ConnParties DEF PartyInv, PartyTypes, PlayerTypeOK, LinkTypeOK
<1>1. c = d
  BY DEF OnCloseCtrlConn
<1>2. plyEnd'[c] # "open"
  BY DEF OnCloseCtrlConn, PlayerCloses
<1> QED BY <1>1, <1>2 DEF OwnAccount

\* Whatever servers send and however connections fail, a connection that holds
\* the session loses it on its own account only.
THEOREM PlayerSessionKept == Spec => SessionKept
<1>1. PartyInv /\ [Next]_vars => [SessionKeptStep]_vars
  <2> SUFFICES ASSUME PartyInv, Next, NEW p \in Players, NEW d \in ConnsOf(p),
                      sessionConn[p] = d, sessionConn'[p] # d
               PROVE  OwnAccount(d)
    BY DEF SessionKeptStep, OwnAccount, ConnsOf
  <2>d. d \in Conns /\ Ply(d) = p
    BY DEF ConnsOf
  <2> USE ConnParties DEF PartyInv, PartyTypes, PlayerTypeOK
  <2>p. ASSUME NEW q \in Players, ProcessEnds(q)
        PROVE  OwnAccount(d)
    BY <2>p, <2>d DEF ProcessEnds, OwnAccount
  <2>1. ASSUME NEW c \in Conns, ConnStep(c)
        PROVE  OwnAccount(d)
    <3>1. CASE AcceptJoin(c)
      \* mayJoinSession: nobody has the session.
      <4>1. Ply(c) = p /\ sessionConn[p] = NoConn
        BY <3>1 DEF AcceptJoin, mayJoinSession
      <4> QED BY <4>1, <2>d, NamesAssumption
    <3>2. CASE LeaveSession(c)
      BY <3>2, <2>d, LeavesOwn
    <3>3. CASE ReadEof(c)
      BY <3>3, <2>d, ClosesOwn DEF ReadEof
    <3>4. CASE HandleWriteError(c)
      BY <3>4, <2>d, ClosesOwn DEF HandleWriteError
    <3>5. CASE EndpointThrows(c)
      BY <3>5, <2>p DEF EndpointThrows
    <3>6. CASE \/ Accept(c) \/ RejectJoin(c) \/ SetVolume(c)
               \/ SyncOrReset(c) \/ NoTransition(c) \/ ReadReset(c)
      BY <3>6 DEF Accept, RejectJoin, SetVolume, SyncOrReset, NoTransition, ReadReset,
         sessionVars, playerVars
    <3> QED BY <2>1, <3>1, <3>2, <3>3, <3>4, <3>5, <3>6 DEF ConnStep
  <2>2. ASSUME NEW q \in Players, PlayerStep(q)
        PROVE  OwnAccount(d)
    <3>1. CASE NullSessionConn(q) \/ PlayerExit(q)
      BY <3>1, <2>p DEF NullSessionConn, PlayerExit
    <3>2. CASE ~(NullSessionConn(q) \/ PlayerExit(q))
      BY <2>2, <3>2 DEF PlayerStep, VolumeTimerExpires, ReportVolume, MeasureOffset,
         OnClockOffset, PlayerStart, sessionVars
    <3> QED BY <3>1, <3>2
  <2>3. CASE AnyServer
    BY <2>3 DEF AnyServer, playerVars
  <2> QED BY <2>1, <2>2, <2>3 DEF Next, PlayerNext
<1> QED BY <1>1, InvHolds, PTL DEF SessionKept, Spec
===============================================================================
