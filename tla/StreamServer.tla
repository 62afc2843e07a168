----------------------------- MODULE StreamServer -----------------------------
(***************************************************************************)
(* A stream server (wssrv): its control connections to the players, the    *)
(* server state machine each of them runs, and the list of render clients  *)
(* it shows to the user.  All of it runs in the server's event loop.       *)
(*                                                                         *)
(*   libmstream/CStreamCtrlConnection  reads, writes, hangups: ioQueue     *)
(*   libmstream/CStreamSrvSM           srvSM                               *)
(*   libmstream/CStreamServer          sessionless, joined, rcs            *)
(*   wssrv/CppServer, CWSMsgHandler    selected, the user's requests       *)
(*                                                                         *)
(* The service discovery's and the user's handlers may run between any two *)
(* others.  Only the order of read completions and posted disconnects in   *)
(* the event loop's queue is kept, for only these are caused by handlers.  *)
(***************************************************************************)
EXTENDS CtrlProtocol, SequencesExt

VARIABLES
  srvUp,        \* [Servers -> BOOLEAN]: the process runs
  sessionless,  \* SUBSET Conns: m_sessionless_connections
  joined,       \* SUBSET Conns: m_joined_connections
  srvSM,        \* [Conns -> SrvState]: the connection's server state machine
  ioQueue,      \* [Servers -> Seq(Handler)]: handlers ready to run
  srvPeer,      \* [Conns -> PeerState]: what the server's kernel knows of the peer
  announced,    \* [Servers -> SUBSET Players]: services discovery has reported
  rcs,          \* [Servers -> [Players -> Desc]]: m_rcs
  selected      \* [Servers -> SUBSET Players]: m_selected_clients, persistent

srvVars == <<srvUp, sessionless, joined, srvSM, ioQueue, srvPeer, announced, rcs, selected>>
bookVars == <<sessionless, joined, rcs, selected>>

\* joinedSession is a machine of its own; its three states are listed here.
JoinedState == {"awaitSessionState", "sessionMember", "leaveSession"}
SrvState == {"none", "awaitClientState", "knowingClientState", "awaitJoinResponse"} \cup JoinedState

\* A read of conn that has completed, or disconnectFromClient posted for name.
Read(c) == [op |-> "read", arg |-> c]
Disconnect(p) == [op |-> "disconnect", arg |-> p]
Handler == {Read(c) : c \in Conns} \cup {Disconnect(p) : p \in Players}

\* isOnline, isMember and the session the player said it is a member of.
Desc == [online : BOOLEAN, member : BOOLEAN, owner : Servers \cup {NoSession}]
NewDesc == [online |-> FALSE, member |-> FALSE, owner |-> NoSession]

ConnsTo(s, p) == {c \in Conns : Srv(c) = s /\ Ply(c) = p}

ServerTypeOK ==
  /\ srvUp \in [Servers -> BOOLEAN]
  /\ sessionless \subseteq Conns
  /\ joined \subseteq Conns
  /\ srvSM \in [Conns -> SrvState]
  /\ ioQueue \in [Servers -> Seq(Handler)]
  /\ srvPeer \in [Conns -> PeerState]
  /\ announced \in [Servers -> SUBSET Players]
  /\ rcs \in [Servers -> [Players -> Desc]]
  /\ selected \in [Servers -> SUBSET Players]

ServerInit ==
  /\ srvUp = [s \in Servers |-> TRUE]
  /\ sessionless = {}
  /\ joined = {}
  /\ srvSM = [c \in Conns |-> "none"]
  /\ ioQueue = [s \in Servers |-> <<>>]
  /\ srvPeer = [c \in Conns |-> "there"]
  /\ announced = [s \in Servers |-> {}]
  /\ rcs = [s \in Servers |-> [p \in Players |-> NewDesc]]
  /\ selected \in [Servers -> {{}, Players}]

-----------------------------------------------------------------------------
(* Writing, and finding a connection by name.                              *)

\* remote_endpoint() and a write may fail: the player's end is closed, and the
\* reset that answers data, or left data unread, may have arrived.
SrvMayBeReset(c) ==
  \/ srvPeer[c] # "there"
  \/ \E i \in DOMAIN toServer[c] : toServer[c][i].ev = "rst"

\* A write that succeeds.  After the player closed its end the data is lost.
SendToPlayer(c, e) ==
  \/ /\ plyEnd[c] \in {"pending", "open"}
     /\ toPlayer' = [toPlayer EXCEPT ![c] = Append(@, e)]
     /\ UNCHANGED srvPeer
  \/ /\ plyEnd[c] = "closed"
     /\ srvPeer[c] # "gone"
     /\ srvPeer' = [srvPeer EXCEPT ![c] = "suspect"]
     /\ UNCHANGED toPlayer

\* The connections getCtrlConnByName may return: by name, in pointer order,
\* the sessionless ones first.
CtrlConnByName(s, p) ==
  LET first == ConnsTo(s, p) \cap sessionless
  IN IF first # {} THEN first ELSE ConnsTo(s, p) \cap joined

\* The state machine of d, in the states sm, gets evRequestJoin.
RequestJoin(d, sm) ==
  \/ /\ sm[d] = "knowingClientState"
     /\ srvSM' = [sm EXCEPT ![d] = "awaitJoinResponse"]
     /\ SendToPlayer(d, "evRequestJoin")
  \/ /\ sm[d] # "knowingClientState"
     /\ srvSM' = sm
     /\ UNCHANGED <<toPlayer, srvPeer>>

-----------------------------------------------------------------------------
(* Reading.  handle_read passes on what one read returned, which may be     *)
(* several events, and starts the next read.                                *)

\* The reactor finds c readable and queues the completed read.
ReadCompletes(c) ==
  /\ srvEnd[c] = "open"
  /\ toServer[c] # <<>>
  /\ ~Contains(ioQueue[Srv(c)], Read(c))
  /\ ioQueue' = [ioQueue EXCEPT ![Srv(c)] = Append(@, Read(c))]
  /\ UNCHANGED <<linkVars, srvUp, bookVars, srvSM, srvPeer, announced>>

NextHandler(s, h) == ioQueue[s] # <<>> /\ Head(ioQueue[s]) = h

HandlerDone(s) == ioQueue' = [ioQueue EXCEPT ![s] = Tail(@)]

\* handle_read of c is next and passes on event e.
Handles(c, e) ==
  /\ NextHandler(Srv(c), Read(c))
  /\ srvEnd[c] = "open"
  /\ toServer[c] # <<>>
  /\ Head(toServer[c]).ev = e

\* The event is consumed; the same read may hold the next one as well.
Consumed(c) ==
  /\ toServer' = [toServer EXCEPT ![c] = Tail(@)]
  /\ \/ HandlerDone(Srv(c))
     \/ /\ Len(toServer[c]) > 1
        /\ toServer[c][2].ev \notin Hangup
        /\ UNCHANGED ioQueue
  /\ UNCHANGED <<plyEnd, srvEnd>>

\* awaitClientState or knowingClientState gets evClientState while the client
\* is selected and free: onClientState requests it to join.
JoinsAutomatically(c) ==
  /\ Handles(c, "evClientState")
  /\ srvSM[c] \in {"awaitClientState", "knowingClientState"}
  /\ Ply(c) \in selected[Srv(c)]
  /\ Head(toServer[c]).session = NoSession

\* The request is an event of its own, taken after the transition is complete.
OnClientState(c) ==
  LET s == Srv(c)
      p == Ply(c)
      sm == [srvSM EXCEPT ![c] = "knowingClientState"]
  IN /\ Handles(c, "evClientState")
     /\ srvSM[c] \in {"awaitClientState", "knowingClientState"}
     /\ Consumed(c)
     /\ rcs' = [rcs EXCEPT ![s][p].online = TRUE,
                           ![s][p].owner = Head(toServer[c]).session]
     /\ \/ /\ JoinsAutomatically(c)
           /\ \E d \in CtrlConnByName(s, p) : RequestJoin(d, sm)
        \/ /\ ~JoinsAutomatically(c) \/ CtrlConnByName(s, p) = {}
           /\ srvSM' = sm
           /\ UNCHANGED <<toPlayer, srvPeer>>
     /\ UNCHANGED <<srvUp, sessionless, joined, announced, selected>>

\* A mutant: joinedSession is entered, but its own machine is not started.
OnJoinAccepted_NotStarted(c) ==
  /\ Handles(c, "evJoinAccepted")
  /\ srvSM[c] = "awaitJoinResponse"
  /\ Consumed(c)
  /\ srvSM' = [srvSM EXCEPT ![c] = "joinedSession"]
  /\ UNCHANGED <<toPlayer, srvUp, bookVars, srvPeer, announced>>

OnJoinAccepted(c) ==
  /\ Handles(c, "evJoinAccepted")
  /\ srvSM[c] = "awaitJoinResponse"
  /\ Consumed(c)
  /\ srvSM' = [srvSM EXCEPT ![c] = "awaitSessionState"]
  /\ UNCHANGED <<toPlayer, srvUp, bookVars, srvPeer, announced>>

OnJoinRejected(c) ==
  /\ Handles(c, "evJoinRejected")
  /\ srvSM[c] = "awaitJoinResponse"
  /\ Consumed(c)
  /\ srvSM' = [srvSM EXCEPT ![c] = "knowingClientState"]
  /\ rcs' = [rcs EXCEPT ![Srv(c)][Ply(c)].member = FALSE]
  /\ UNCHANGED <<toPlayer, srvUp, sessionless, joined, selected, srvPeer, announced>>

\* The player has become a member: onBecameSessionMember and
\* onClientBecameSessionMember.
OnSessionState(c) ==
  LET s == Srv(c)
      p == Ply(c)
  IN /\ Handles(c, "evSessionState")
     /\ srvSM[c] = "awaitSessionState"
     /\ Consumed(c)
     /\ srvSM' = [srvSM EXCEPT ![c] = "sessionMember"]
     /\ sessionless' = sessionless \ {c}
     /\ joined' = joined \cup (sessionless \cap {c})
     /\ rcs' = [rcs EXCEPT ![s][p].member = TRUE, ![s][p].owner = s]
     /\ selected' = [selected EXCEPT ![s] = @ \cup {p}]
     /\ UNCHANGED <<toPlayer, srvUp, srvPeer, announced>>

\* A mutant: the connection stays in the list of the joined ones.
OnLeave_StaysJoined(c) ==
  /\ Handles(c, "evLeave")
  /\ srvSM[c] \in JoinedState
  /\ Consumed(c)
  /\ srvSM' = [srvSM EXCEPT ![c] = "knowingClientState"]
  /\ sessionless' = sessionless \cup {c}
  /\ rcs' = [rcs EXCEPT ![Srv(c)][Ply(c)].member = FALSE, ![Srv(c)][Ply(c)].owner = NoSession]
  /\ UNCHANGED <<toPlayer, joined, srvUp, selected, srvPeer, announced>>

\* Leaving joinedSession, in whichever state it is: onLeftSession.
OnLeave(c) ==
  /\ Handles(c, "evLeave")
  /\ srvSM[c] \in JoinedState
  /\ Consumed(c)
  /\ srvSM' = [srvSM EXCEPT ![c] = "knowingClientState"]
  /\ joined' = joined \ {c}
  /\ sessionless' = sessionless \cup {c}
  /\ rcs' = [rcs EXCEPT ![Srv(c)][Ply(c)].member = FALSE, ![Srv(c)][Ply(c)].owner = NoSession]
  /\ UNCHANGED <<toPlayer, srvUp, selected, srvPeer, announced>>

\* Every other event in every other state.  onVolume and onSessionError change
\* only what is displayed; all else has no transition.
OnOtherEvent(c) ==
  \E e \in PlayerEvent :
    /\ Handles(c, e)
    /\ ~ \/ e = "evClientState" /\ srvSM[c] \in {"awaitClientState", "knowingClientState"}
         \/ e \in {"evJoinAccepted", "evJoinRejected"} /\ srvSM[c] = "awaitJoinResponse"
         \/ e = "evSessionState" /\ srvSM[c] = "awaitSessionState"
         \/ e = "evLeave" /\ srvSM[c] \in JoinedState
    /\ Consumed(c)
    /\ srvSM' = IF e = "evSessionError" /\ srvSM[c] = "awaitSessionState"
                THEN [srvSM EXCEPT ![c] = "awaitClientState"]
                ELSE srvSM
    /\ UNCHANGED <<toPlayer, srvUp, bookVars, srvPeer, announced>>

\* A mutant: end of file is only logged, like any other error.
OnEof_OnlyLogged(c) ==
  /\ Handles(c, "eof")
  /\ toServer' = [toServer EXCEPT ![c] = Tail(@)]
  /\ HandlerDone(Srv(c))
  /\ UNCHANGED <<toPlayer, plyEnd, srvEnd, srvUp, bookVars, srvSM, srvPeer, announced>>

\* End of file: the disconnect is posted, by name.
OnEof(c) ==
  /\ Handles(c, "eof")
  /\ toServer' = [toServer EXCEPT ![c] = Tail(@)]
  /\ ioQueue' = [ioQueue EXCEPT ![Srv(c)] = Append(Tail(@), Disconnect(Ply(c)))]
  /\ UNCHANGED <<toPlayer, plyEnd, srvEnd, srvUp, bookVars, srvSM, srvPeer, announced>>

\* Any other error: nothing is done and nothing is read again.
OnReset(c) ==
  /\ Handles(c, "rst")
  /\ toServer' = [toServer EXCEPT ![c] = Tail(@)]
  /\ HandlerDone(Srv(c))
  /\ srvPeer' = [srvPeer EXCEPT ![c] = "gone"]
  /\ UNCHANGED <<toPlayer, plyEnd, srvEnd, srvUp, bookVars, srvSM, announced>>

-----------------------------------------------------------------------------
(* Connections end and begin.                                              *)

\* A mutant: the deleted connection is not erased from the list.
DisconnectFromClient_NotErased(s, p, online) ==
  LET members == ConnsTo(s, p) \cap joined
  IN \E left \in IF members = {} THEN {{}} ELSE {{c} : c \in members} :
       LET named == ConnsTo(s, p) \cap (sessionless \cup left)
       IN \E gone \in IF named = {} THEN {{}} ELSE {{c} : c \in named} :
            /\ joined' = joined \ left
            /\ sessionless' = sessionless \cup left
            /\ rcs' = [rcs EXCEPT ![s][p] =
                 IF left = {} THEN [@ EXCEPT !.online = online]
                 ELSE [NewDesc EXCEPT !.online = online]]
            /\ srvSM' = [c \in Conns |-> IF c \in gone THEN "none" ELSE srvSM[c]]
            /\ ServerCloses(gone)
            /\ UNCHANGED plyEnd

\* A mutant: the connection is moved and deleted, onClientLeftSession not called.
DisconnectFromClient_KeepsFlag(s, p, online) ==
  LET named == ConnsTo(s, p) \cap (sessionless \cup joined)
  IN \E gone \in IF named = {} THEN {{}} ELSE {{c} : c \in named} :
       /\ joined' = joined \ gone
       /\ sessionless' = sessionless \ gone
       /\ rcs' = [rcs EXCEPT ![s][p].online = online]
       /\ srvSM' = [c \in Conns |-> IF c \in gone THEN "none" ELSE srvSM[c]]
       /\ ServerCloses(gone)
       /\ UNCHANGED plyEnd

\* disconnectFromClient and what it calls, the player's descriptor getting the
\* online flag: a joined connection of that name leaves the session, then one
\* connection of that name is deleted.
DisconnectFromClient(s, p, online) ==
  LET members == ConnsTo(s, p) \cap joined
  IN \E left \in IF members = {} THEN {{}} ELSE {{c} : c \in members} :
       LET named == ConnsTo(s, p) \cap (sessionless \cup left)
       IN \E gone \in IF named = {} THEN {{}} ELSE {{c} : c \in named} :
            /\ joined' = joined \ left
            /\ sessionless' = (sessionless \cup left) \ gone
            /\ rcs' = [rcs EXCEPT ![s][p] =
                 IF left = {} THEN [@ EXCEPT !.online = online]
                 ELSE [NewDesc EXCEPT !.online = online]]
            /\ srvSM' = [c \in Conns |-> IF c \in gone THEN "none" ELSE srvSM[c]]
            /\ ServerCloses(gone)
            /\ UNCHANGED plyEnd

\* The posted disconnect runs; it leaves the online flag alone.
RunDisconnect(s, p) ==
  /\ NextHandler(s, Disconnect(p))
  /\ HandlerDone(s)
  /\ DisconnectFromClient(s, p, rcs[s][p].online)
  /\ UNCHANGED <<srvUp, srvPeer, announced, selected>>

\* Service discovery reports that the player is gone.
OnClientDisappeared(s, p) ==
  /\ srvUp[s]
  /\ p \in announced[s]
  /\ announced' = [announced EXCEPT ![s] = @ \ {p}]
  /\ DisconnectFromClient(s, p, FALSE)
  /\ UNCHANGED <<srvUp, ioQueue, srvPeer, selected>>

\* The sessionless connections of s that remote_endpoint() throws on, in the search
\* for one to p: it ends when it meets one, and may leave others that would throw.
ThrowingSets(s, p) ==
  LET mine == {c \in sessionless : Srv(c) = s}
      gone == {c \in mine : srvPeer[c] = "gone"}
  IN {E \in SUBSET {c \in mine : SrvMayBeReset(c)} :
        gone \subseteq E \/ (mine \cap ConnsTo(s, p)) \ (E \cup gone) # {}}

\* Service discovery reports a player, which accepts connections if listening:
\* connectToClient.  It drops (without closing them) sessionless connections
\* that are reset, then keeps to one it has or opens one.
OnClientAppeared(s, p, listening) ==
  /\ srvUp[s]
  /\ p \notin announced[s]
  /\ announced' = [announced EXCEPT ![s] = @ \cup {p}]
  /\ rcs' = [rcs EXCEPT ![s][p].online = FALSE]
  /\ \E E \in ThrowingSets(s, p) :
       LET kept == sessionless \ E
       IN IF listening /\ ConnsTo(s, p) \cap kept = {}
          THEN \E c \in ConnsTo(s, p) :
                 /\ srvEnd[c] = "unused"
                 /\ ServerConnects(c)
                 /\ srvSM' = [srvSM EXCEPT ![c] = "awaitClientState"]
                 /\ sessionless' = kept \cup {c}
          ELSE sessionless' = kept /\ UNCHANGED <<linkVars, srvSM>>
  /\ UNCHANGED <<srvUp, joined, ioQueue, srvPeer, selected>>

-----------------------------------------------------------------------------
(* The user's requests.                                                    *)

UserJoins(s, p) ==
  /\ srvUp[s]
  /\ \E d \in CtrlConnByName(s, p) : RequestJoin(d, srvSM)
  /\ UNCHANGED <<toServer, plyEnd, srvEnd, srvUp, bookVars, ioQueue, announced>>

\* A mutant: the client stays selected.
UserLeaves_StaysSelected(s, p) ==
  /\ srvUp[s]
  /\ \E d \in CtrlConnByName(s, p) :
       /\ srvSM[d] = "sessionMember"
       /\ srvSM' = [srvSM EXCEPT ![d] = "leaveSession"]
       /\ SendToPlayer(d, "evRequestLeave")
  /\ UNCHANGED <<toServer, plyEnd, srvEnd, srvUp, sessionless, joined, rcs, selected,
                 ioQueue, announced>>

\* sessionMember of joinedSession sends the request and the machine is blocked
\* until evLeave comes; elsewhere the request is dropped.  The client is not
\* selected any more in any case.
UserLeaves(s, p) ==
  /\ srvUp[s]
  /\ selected' = [selected EXCEPT ![s] = @ \ {p}]
  /\ \/ \E d \in CtrlConnByName(s, p) :
          /\ srvSM[d] = "sessionMember"
          /\ srvSM' = [srvSM EXCEPT ![d] = "leaveSession"]
          /\ SendToPlayer(d, "evRequestLeave")
     \/ /\ \/ CtrlConnByName(s, p) = {}
           \/ \E d \in CtrlConnByName(s, p) : srvSM[d] # "sessionMember"
        /\ UNCHANGED <<toPlayer, srvSM, srvPeer>>
  /\ UNCHANGED <<toServer, plyEnd, srvEnd, srvUp, sessionless, joined, rcs, ioQueue, announced>>

UserSetsVolume(s, p) ==
  /\ srvUp[s]
  /\ \E d \in CtrlConnByName(s, p) :
       srvSM[d] = "sessionMember" /\ SendToPlayer(d, "evSetVolume")
  /\ UNCHANGED <<toServer, plyEnd, srvEnd, srvUp, bookVars, srvSM, ioQueue, announced>>

-----------------------------------------------------------------------------
(* The process ends and is started again.                                  *)

\* The process is gone; what is persistent is selected.
ServerEnds(s) ==
  LET mine == {c \in Conns : Srv(c) = s}
  IN /\ srvUp' = [srvUp EXCEPT ![s] = FALSE]
     /\ ServerCloses({c \in mine : srvEnd[c] = "open"})
     /\ sessionless' = sessionless \ mine
     /\ joined' = joined \ mine
     /\ srvSM' = [c \in Conns |-> IF c \in mine THEN "none" ELSE srvSM[c]]
     /\ ioQueue' = [ioQueue EXCEPT ![s] = <<>>]
     /\ announced' = [announced EXCEPT ![s] = {}]
     /\ rcs' = [rcs EXCEPT ![s] = [p \in Players |-> NewDesc]]
     /\ UNCHANGED <<plyEnd, srvPeer, selected>>

\* A write throws inside the state machine, whose exception_caught aborts: the
\* user's request or an automatic one goes to a connection that is reset.
WriteThrows(s) ==
  /\ \E d \in Conns :
       /\ Srv(d) = s
       /\ SrvMayBeReset(d)
       /\ \/ /\ srvUp[s] /\ d \in CtrlConnByName(s, Ply(d))
             /\ srvSM[d] \in {"knowingClientState", "sessionMember"}
          \/ \E c \in ConnsTo(s, Ply(d)) :
               /\ JoinsAutomatically(c)
               /\ d \in CtrlConnByName(s, Ply(c))
               /\ d = c \/ srvSM[d] = "knowingClientState"
  /\ ServerEnds(s)

\* handle_read runs on a connection that has been deleted.  The freed memory may
\* still read as before (end of file posts the disconnect), or it may not.
DanglingRead(c) ==
  LET s == Srv(c)
  IN /\ NextHandler(s, Read(c))
     /\ srvEnd[c] = "closed"
     /\ \/ ServerEnds(s)
        \/ /\ \E post \in {<<>>, <<Disconnect(Ply(c))>>} :
                ioQueue' = [ioQueue EXCEPT ![s] = Tail(@) \o post]
           /\ UNCHANGED <<linkVars, srvUp, bookVars, srvSM, srvPeer, announced>>

\* connectToClient goes on from an iterator it has erased, and does not survive.
ErasedIterator(s, p) ==
  /\ srvUp[s]
  /\ p \notin announced[s]
  /\ \E E \in ThrowingSets(s, p) : E # {}
  /\ ServerEnds(s)

ServerExit(s) == srvUp[s] /\ ServerEnds(s)

ServerStart(s) ==
  /\ ~srvUp[s]
  /\ srvUp' = [srvUp EXCEPT ![s] = TRUE]
  /\ UNCHANGED <<linkVars, bookVars, srvSM, ioQueue, srvPeer, announced>>
===============================================================================
