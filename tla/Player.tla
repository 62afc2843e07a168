-------------------------------- MODULE Player --------------------------------
(***************************************************************************)
(* A render client (muroad): the player object, its control connections    *)
(* and the client state machine each of them runs.  Everything below runs  *)
(* in the player's single event loop, one handler at a time.               *)
(*                                                                         *)
(*   muroad/CPlayer            sessionConn, sessionName, mediaConn, timers *)
(*   muroad/CCtrlConnection    the actions of the client state machine     *)
(*   muroad/CCtrlConnectionMgr plyEnd: connections accepted and stopped    *)
(*   libmstream/CStreamClientSM  clntSM                                    *)
(*   libmuroadaemon/CTcpConnection  what a read or a write can report      *)
(***************************************************************************)
EXTENDS CtrlProtocol

CONSTANT MaxPosts  \* bound: handlers of one kind waiting in the event loop

ASSUME PostsAssumption == MaxPosts \in Nat

VARIABLES
  plyUp,        \* [Players -> BOOLEAN]: the process runs
  clntSM,       \* [Conns -> state of the connection's client state machine]
  sessionConn,  \* [Players -> Conns or NoConn]: m_session_ctrl_conn
  sessionName,  \* [Players -> Servers or NoSession]: m_session_name
  mediaConn,    \* [Players -> Conns or NoConn]: the connection to whose peer
                \* m_media_stream_conn was set up, NoConn when it is null
  volTimer,     \* [Players -> BOOLEAN]: m_report_volume_timer is armed
  volFired,     \* [Players -> Nat]: expired timers, reportVolume not yet run
  offsets,      \* [Players -> Nat]: onClockOffset handlers posted, not yet run
  txErr,        \* [Conns -> BOOLEAN]: a send has failed, handle_write not yet run
  peer          \* [Conns -> PeerState]: what the player's kernel knows of the peer

playerVars == <<plyUp, clntSM, sessionConn, sessionName, mediaConn,
                volTimer, volFired, offsets, txErr, peer>>
sessionVars == <<clntSM, sessionConn, sessionName, mediaConn>>
handlerVars == <<volTimer, volFired, offsets>>

ClntState == {"none", "awaitReaction", "sessionMember"}

ConnsOf(p) == {c \in Conns : Ply(c) = p}

PlayerTypeOK ==
  /\ plyUp \in [Players -> BOOLEAN]
  /\ clntSM \in [Conns -> ClntState]
  /\ sessionConn \in [Players -> Conns \cup {NoConn}]
  /\ sessionName \in [Players -> Servers \cup {NoSession}]
  /\ mediaConn \in [Players -> Conns \cup {NoConn}]
  /\ volTimer \in [Players -> BOOLEAN]
  /\ volFired \in [Players -> 0 .. MaxPosts]
  /\ offsets \in [Players -> 0 .. MaxPosts]
  /\ txErr \in [Conns -> BOOLEAN]
  /\ peer \in [Conns -> PeerState]

PlayerInit ==
  /\ plyUp = [p \in Players |-> TRUE]
  /\ clntSM = [c \in Conns |-> "none"]
  /\ sessionConn = [p \in Players |-> NoConn]
  /\ sessionName = [p \in Players |-> NoSession]
  /\ mediaConn = [p \in Players |-> NoConn]
  /\ volTimer = [p \in Players |-> FALSE]
  /\ volFired = [p \in Players |-> 0]
  /\ offsets = [p \in Players |-> 0]
  /\ txErr = [c \in Conns |-> FALSE]
  /\ peer = [c \in Conns |-> "there"]

-----------------------------------------------------------------------------
(* Sending and receiving.                                                  *)

\* The socket of c may have been reset: remoteEndpoint() then throws and a
\* send completes with an error.
MayBeReset(c) ==
  \/ peer[c] # "there"
  \/ \E i \in DOMAIN toPlayer[c] : toPlayer[c][i] = "rst"

\* remoteEndpoint() may succeed on c.
MayBeConnected(c) == peer[c] # "gone"

\* Send msgs on c.  What is sent after the server closed its end is lost and
\* makes the server's kernel answer with a reset.
Send(c, msgs) ==
  \/ /\ srvEnd[c] = "open"
     /\ toServer' = [toServer EXCEPT ![c] = @ \o msgs]
     /\ UNCHANGED <<txErr, peer>>
  \/ /\ srvEnd[c] # "open"
     /\ peer' = [peer EXCEPT ![c] = IF @ = "gone" THEN "gone" ELSE "suspect"]
     /\ \E failed \in BOOLEAN :
          /\ failed => MayBeReset(c) \/ Len(msgs) > 1
          /\ txErr' = [txErr EXCEPT ![c] = @ \/ failed]
     /\ UNCHANGED toServer

\* The next thing the connection's read reports is e.
Reads(c, e) ==
  /\ plyEnd[c] = "open"
  /\ toPlayer[c] # <<>>
  /\ Head(toPlayer[c]) = e

Consume(c) == toPlayer' = [toPlayer EXCEPT ![c] = Tail(@)]

\* A mutant: a request is refused only on the connection that has the session.
mayJoinSession_OtherConn(c) == sessionConn[Ply(c)] # c

mayJoinSession(c) == sessionName[Ply(c)] = NoSession /\ sessionConn[Ply(c)] = NoConn

\* evClientState as sendClientState fills it in when the session name is s.  It
\* also names the session's server, asking that connection's remoteEndpoint().
ClientState(s) == Msg("evClientState", s)

sessionServerKnown(p) == sessionConn[p] # NoConn => MayBeConnected(sessionConn[p])

-----------------------------------------------------------------------------
(* Connections come, and the client state machine handles events.          *)

\* CCtrlConnectionMgr::add and CCtrlConnection::start: the state machine
\* enters awaitReaction, which sends the client state.
Accept(c) ==
  /\ plyUp[Ply(c)]
  /\ plyEnd[c] = "pending"
  /\ sessionServerKnown(Ply(c))
  /\ plyEnd' = [plyEnd EXCEPT ![c] = "open"]
  /\ clntSM' = [clntSM EXCEPT ![c] = "awaitReaction"]
  /\ Send(c, <<ClientState(sessionName[Ply(c)])>>)
  /\ UNCHANGED <<toPlayer, srvEnd, plyUp, sessionConn, sessionName, mediaConn, handlerVars>>

\* A mutant: the entry action of sessionMember comes before the transition's.
AcceptJoin_EntryFirst(c) ==
  /\ Reads(c, "evRequestJoin")
  /\ clntSM[c] = "awaitReaction"
  /\ mayJoinSession(c)
  /\ MayBeConnected(c)
  /\ Consume(c)
  /\ clntSM' = [clntSM EXCEPT ![c] = "sessionMember"]
  /\ sessionName' = [sessionName EXCEPT ![Ply(c)] = Srv(c)]
  /\ sessionConn' = [sessionConn EXCEPT ![Ply(c)] = c]
  /\ mediaConn' = [mediaConn EXCEPT ![Ply(c)] = c]
  /\ Send(c, <<Msg("evSessionState", NoSession), Msg("evJoinAccepted", NoSession)>>)
  /\ UNCHANGED <<plyEnd, srvEnd, plyUp, handlerVars>>

\* awaitReaction, evRequestJoin [mayJoin]: accept, enter sessionMember and
\* become a member (name and connection first, then the media connection).
AcceptJoin(c) ==
  /\ Reads(c, "evRequestJoin")
  /\ clntSM[c] = "awaitReaction"
  /\ mayJoinSession(c)
  /\ MayBeConnected(c)
  /\ Consume(c)
  /\ clntSM' = [clntSM EXCEPT ![c] = "sessionMember"]
  /\ sessionName' = [sessionName EXCEPT ![Ply(c)] = Srv(c)]
  /\ sessionConn' = [sessionConn EXCEPT ![Ply(c)] = c]
  /\ mediaConn' = [mediaConn EXCEPT ![Ply(c)] = c]
  /\ Send(c, <<Msg("evJoinAccepted", NoSession), Msg("evSessionState", NoSession)>>)
  /\ UNCHANGED <<plyEnd, srvEnd, plyUp, handlerVars>>

\* A mutant: the refusal is left to the client state that follows.
RejectJoin_NoReply(c) ==
  /\ Reads(c, "evRequestJoin")
  /\ clntSM[c] = "awaitReaction"
  /\ ~mayJoinSession(c)
  /\ sessionServerKnown(Ply(c))
  /\ Consume(c)
  /\ Send(c, <<ClientState(sessionName[Ply(c)])>>)
  /\ UNCHANGED <<plyEnd, srvEnd, plyUp, sessionVars, handlerVars>>

\* awaitReaction, evRequestJoin [mayNotJoin]: reject, then enter awaitReaction
\* again, which sends the client state once more.
RejectJoin(c) ==
  /\ Reads(c, "evRequestJoin")
  /\ clntSM[c] = "awaitReaction"
  /\ ~mayJoinSession(c)
  /\ sessionServerKnown(Ply(c))
  /\ Consume(c)
  /\ Send(c, <<Msg("evJoinRejected", sessionName[Ply(c)]), ClientState(sessionName[Ply(c)])>>)
  /\ UNCHANGED <<plyEnd, srvEnd, plyUp, sessionVars, handlerVars>>

\* A mutant: the server is not told.
LeaveSession_NoReply(c) ==
  /\ Reads(c, "evRequestLeave")
  /\ clntSM[c] = "sessionMember"
  /\ Consume(c)
  /\ clntSM' = [clntSM EXCEPT ![c] = "awaitReaction"]
  /\ sessionName' = [sessionName EXCEPT ![Ply(c)] = NoSession]
  /\ sessionConn' = [sessionConn EXCEPT ![Ply(c)] = NoConn]
  /\ mediaConn' = [mediaConn EXCEPT ![Ply(c)] = NoConn]
  /\ Send(c, <<ClientState(NoSession)>>)
  /\ UNCHANGED <<plyEnd, srvEnd, plyUp, handlerVars>>

\* sessionMember, evRequestLeave: tell the server, give up the session without
\* looking which connection holds it, and enter awaitReaction.
LeaveSession(c) ==
  /\ Reads(c, "evRequestLeave")
  /\ clntSM[c] = "sessionMember"
  /\ Consume(c)
  /\ clntSM' = [clntSM EXCEPT ![c] = "awaitReaction"]
  /\ sessionName' = [sessionName EXCEPT ![Ply(c)] = NoSession]
  /\ sessionConn' = [sessionConn EXCEPT ![Ply(c)] = NoConn]
  /\ mediaConn' = [mediaConn EXCEPT ![Ply(c)] = NoConn]
  /\ Send(c, <<Msg("evLeave", sessionName[Ply(c)]), ClientState(NoSession)>>)
  /\ UNCHANGED <<plyEnd, srvEnd, plyUp, handlerVars>>

\* sessionMember, evSetVolume: the media connection takes the volume and the
\* report timer is armed anew; a wait that has not expired is cancelled.
SetVolume(c) ==
  /\ Reads(c, "evSetVolume")
  /\ clntSM[c] = "sessionMember"
  /\ Consume(c)
  /\ volTimer' = [volTimer EXCEPT ![Ply(c)] = @ \/ sessionConn[Ply(c)] = c]
  /\ UNCHANGED <<toServer, plyEnd, srvEnd, plyUp, sessionVars, volFired, offsets, txErr, peer>>

\* sessionMember, evSyncStream and evResetStream: passed to the media connection.
SyncOrReset(c) ==
  /\ Reads(c, "evSyncStream") \/ Reads(c, "evResetStream")
  /\ clntSM[c] = "sessionMember"
  /\ Consume(c)
  /\ UNCHANGED <<toServer, plyEnd, srvEnd, playerVars>>

\* An event the state machine has no row for in its state.
NoTransition(c) ==
  /\ \/ /\ clntSM[c] = "awaitReaction"
        /\ \E e \in ServerEvent \ {"evRequestJoin"} : Reads(c, e)
     \/ /\ clntSM[c] = "sessionMember"
        /\ Reads(c, "evRequestJoin")
  /\ Consume(c)
  /\ UNCHANGED <<toServer, plyEnd, srvEnd, playerVars>>

-----------------------------------------------------------------------------
(* Connections end.                                                        *)

\* A mutant: the connection is stopped, the session is kept.
OnCloseCtrlConn_KeepsSession(c) ==
  /\ UNCHANGED <<sessionName, sessionConn, mediaConn>>
  /\ PlayerCloses({c})

\* A mutant: the media stream connection is not shut down.
OnCloseCtrlConn_KeepsMedia(c) ==
  LET p == Ply(c)
      held == sessionConn[p] = c
  IN /\ sessionName' = [sessionName EXCEPT ![p] = IF held THEN NoSession ELSE @]
     /\ sessionConn' = [sessionConn EXCEPT ![p] = IF held THEN NoConn ELSE @]
     /\ UNCHANGED mediaConn
     /\ PlayerCloses({c})

\* A mutant: the session is given up whichever connection ends.
OnCloseCtrlConn_AnyConn(c) ==
  LET p == Ply(c)
  IN /\ sessionName' = [sessionName EXCEPT ![p] = NoSession]
     /\ sessionConn' = [sessionConn EXCEPT ![p] = NoConn]
     /\ mediaConn' = [mediaConn EXCEPT ![p] = NoConn]
     /\ PlayerCloses({c})

\* CPlayer::onCloseCtrlConn, for the members it changes: give up the session
\* if c holds it, and stop c.
OnCloseCtrlConn(c) ==
  LET p == Ply(c)
      held == sessionConn[p] = c
  IN /\ sessionName' = [sessionName EXCEPT ![p] = IF held THEN NoSession ELSE @]
     /\ sessionConn' = [sessionConn EXCEPT ![p] = IF held THEN NoConn ELSE @]
     /\ mediaConn' = [mediaConn EXCEPT ![p] = IF held THEN NoConn ELSE @]
     /\ PlayerCloses({c})

\* handle_read with end of file.
ReadEof(c) ==
  /\ Reads(c, "eof")
  /\ OnCloseCtrlConn(c)
  /\ UNCHANGED <<srvEnd, plyUp, clntSM, handlerVars, txErr, peer>>

\* handle_read with any other error: it is logged and nothing is read again.
ReadReset(c) ==
  /\ Reads(c, "rst")
  /\ Consume(c)
  /\ peer' = [peer EXCEPT ![c] = "gone"]
  /\ UNCHANGED <<toServer, plyEnd, srvEnd, plyUp, sessionVars, handlerVars, txErr>>

\* handle_write with an error.  The connection may have been stopped already;
\* closing it again changes nothing.
HandleWriteError(c) ==
  /\ txErr[c]
  /\ txErr' = [txErr EXCEPT ![c] = FALSE]
  /\ \/ plyEnd[c] = "open" /\ OnCloseCtrlConn(c)
     \/ plyEnd[c] # "open" /\ UNCHANGED <<toPlayer, toServer, plyEnd, sessionConn, sessionName, mediaConn>>
  /\ UNCHANGED <<srvEnd, plyUp, clntSM, handlerVars, peer>>

-----------------------------------------------------------------------------
(* Handlers of the player itself.                                          *)

\* The volume report timer expires; from now on setVolume cannot cancel it.
VolumeTimerExpires(p) ==
  /\ volTimer[p]
  /\ volFired[p] < MaxPosts
  /\ volTimer' = [volTimer EXCEPT ![p] = FALSE]
  /\ volFired' = [volFired EXCEPT ![p] = @ + 1]
  /\ UNCHANGED <<linkVars, plyUp, sessionVars, offsets, txErr, peer>>

\* What CPlayer hands to the session connection's state machine as an event
\* of its own is sent to the server in sessionMember and dropped elsewhere.
Forward(p, e) ==
  LET c == sessionConn[p]
  IN IF clntSM[c] = "sessionMember" THEN Send(c, <<Msg(e, NoSession)>>)
                                    ELSE UNCHANGED <<toServer, txErr, peer>>

\* A mutant: the handler does not look at the error code and runs for a wait
\* that was cancelled as well.
ReportVolume_Aborted(p) ==
  /\ sessionConn[p] # NoConn
  /\ volFired' = [volFired EXCEPT ![p] = @ - 1]
  /\ Forward(p, "evVolume")
  /\ UNCHANGED <<toPlayer, plyEnd, srvEnd, plyUp, sessionVars, volTimer, offsets>>

\* reportVolume, after the timer expired.
ReportVolume(p) ==
  /\ volFired[p] > 0
  /\ sessionConn[p] # NoConn
  /\ volFired' = [volFired EXCEPT ![p] = @ - 1]
  /\ Forward(p, "evVolume")
  /\ UNCHANGED <<toPlayer, plyEnd, srvEnd, plyUp, sessionVars, volTimer, offsets>>

\* The time service's thread measures an offset beyond the tolerable one and
\* posts onClockOffset.  (A smaller offset changes nothing.)
MeasureOffset(p) ==
  /\ mediaConn[p] # NoConn
  /\ offsets[p] < MaxPosts
  /\ offsets' = [offsets EXCEPT ![p] = @ + 1]
  /\ UNCHANGED <<linkVars, plyUp, sessionVars, volTimer, volFired, txErr, peer>>

\* onClockOffset runs in the event loop.
OnClockOffset(p) ==
  /\ offsets[p] > 0
  /\ sessionConn[p] # NoConn
  /\ offsets' = [offsets EXCEPT ![p] = @ - 1]
  /\ Forward(p, "evSessionError")
  /\ UNCHANGED <<toPlayer, plyEnd, srvEnd, plyUp, sessionVars, volTimer, volFired>>

-----------------------------------------------------------------------------
(* The process ends and is started again.                                  *)

\* The process is gone: the kernel closes its sockets, its memory is lost.
ProcessEnds(p) ==
  /\ plyUp' = [plyUp EXCEPT ![p] = FALSE]
  /\ PlayerCloses({c \in ConnsOf(p) : plyEnd[c] \in {"pending", "open"}})
  /\ clntSM' = [c \in Conns |-> IF Ply(c) = p THEN "none" ELSE clntSM[c]]
  /\ txErr' = [c \in Conns |-> IF Ply(c) = p THEN FALSE ELSE txErr[c]]
  /\ sessionConn' = [sessionConn EXCEPT ![p] = NoConn]
  /\ sessionName' = [sessionName EXCEPT ![p] = NoSession]
  /\ mediaConn' = [mediaConn EXCEPT ![p] = NoConn]
  /\ volTimer' = [volTimer EXCEPT ![p] = FALSE]
  /\ volFired' = [volFired EXCEPT ![p] = 0]
  /\ offsets' = [offsets EXCEPT ![p] = 0]
  /\ UNCHANGED <<srvEnd, peer>>

\* A posted handler dereferences the null m_session_ctrl_conn.
NullSessionConn(p) ==
  /\ volFired[p] > 0 \/ offsets[p] > 0
  /\ sessionConn[p] = NoConn
  /\ ProcessEnds(p)

\* remoteEndpoint() throws in a handler; nothing up to main catches it, or
\* the state machine's exception_caught aborts.
EndpointThrows(c) ==
  LET sc == sessionConn[Ply(c)]
      lost == sc # NoConn /\ MayBeReset(sc)
  IN /\ \/ plyUp[Ply(c)] /\ plyEnd[c] = "pending" /\ lost
        \/ /\ Reads(c, "evRequestJoin")
           /\ clntSM[c] = "awaitReaction"
           /\ IF mayJoinSession(c) THEN MayBeReset(c) ELSE lost
     /\ ProcessEnds(Ply(c))

\* The process is stopped by its user or killed.
PlayerExit(p) == plyUp[p] /\ ProcessEnds(p)

PlayerStart(p) ==
  /\ ~plyUp[p]
  /\ plyUp' = [plyUp EXCEPT ![p] = TRUE]
  /\ UNCHANGED <<linkVars, sessionVars, handlerVars, txErr, peer>>

-----------------------------------------------------------------------------
ConnStep(c) ==
  \/ Accept(c) \/ AcceptJoin(c) \/ RejectJoin(c) \/ LeaveSession(c)
  \/ SetVolume(c) \/ SyncOrReset(c) \/ NoTransition(c)
  \/ ReadEof(c) \/ ReadReset(c) \/ HandleWriteError(c) \/ EndpointThrows(c)

PlayerStep(p) ==
  \/ VolumeTimerExpires(p) \/ ReportVolume(p)
  \/ MeasureOffset(p) \/ OnClockOffset(p) \/ NullSessionConn(p)
  \/ PlayerExit(p) \/ PlayerStart(p)

PlayerNext ==
  \/ \E c \in Conns : ConnStep(c)
  \/ \E p \in Players : PlayerStep(p)

-----------------------------------------------------------------------------
(* Safety.                                                                 *)

\* The session's name, its connection and the media stream connection are set
\* and given up together: requestJoinSession and leaveSession write them in
\* different places, setupMediaStreamConn asserts that none is left over, and
\* syncInfo, setVolume and resetStream use the media connection unchecked.
SessionComplete ==
  \A p \in Players :
    /\ mediaConn[p] = sessionConn[p]
    /\ sessionName[p] = IF sessionConn[p] = NoConn THEN NoSession ELSE Srv(sessionConn[p])

\* A state machine is in sessionMember exactly while its connection holds the
\* player's session, so at most one of the connected servers has a member here
\* and leaveSession, which does not look, gives up its own session only.
OneMember ==
  \A c \in Conns :
    plyEnd[c] = "open" => (clntSM[c] = "sessionMember" <=> sessionConn[Ply(c)] = c)

\* The session is held by a connection that is still open, which onCloseCtrlConn
\* must see to on every path a connection ends.
SessionConnOpen ==
  \A p \in Players :
    sessionConn[p] # NoConn => sessionConn[p] \in ConnsOf(p) /\ plyEnd[sessionConn[p]] = "open"

\* A connection that holds the session loses it on its own account only: its server
\* asks it to leave, it ends or a send on it has failed, or the process ends.
\* leaveSession gives up whatever session there is, onCloseCtrlConn runs for each
\* connection that ends: neither may end the session of another server.
SessionKeptStep ==
  \A p \in Players : \A c \in ConnsOf(p) :
    sessionConn[p] = c /\ sessionConn'[p] # c =>
      \/ ~plyUp'[p]
      \/ Reads(c, "evRequestLeave") /\ toPlayer'[c] = Tail(toPlayer[c])
      \/ (Reads(c, "eof") \/ txErr[c]) /\ plyEnd'[c] # "open"
===============================================================================
