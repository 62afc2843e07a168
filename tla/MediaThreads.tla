----------------------------- MODULE MediaThreads -----------------------------
(***************************************************************************)
(* The media stream connection of a player (CMediaStreamConnection): its   *)
(* event loop handles evSyncStream and evResetStream, its receive thread   *)
(* sorts RTP packets into one buffer per source, its play thread plays the *)
(* source of the first sync information in the queue.  The map of buffers  *)
(* has no lock, the queue has one that not every access takes.             *)
(*                                                                         *)
(* The server is StreamSource; control events come in order, packets with  *)
(* any delay.  What a packet contains, the order within a buffer           *)
(* (PacketRing), the samples and the clock are left out.                   *)
(***************************************************************************)
EXTENDS StreamSource, Naturals, Sequences, FiniteSets, SequencesExt

CONSTANTS
  NumSsrc,       \* buffers in the map: 3 in the code
  MaxSyncInfos,  \* length at which the queue drops its front: 10 in the code
  MaxFails,      \* packets missed while discarding: 20 in the code
  MaxBuf,        \* bound: packets in one buffer
  MaxCtrl,       \* bound: control events under way
  MaxNet         \* bound: sources that packets under way belong to

ASSUME ThreadsAssumption ==
  /\ NumSsrc \in Nat \ {0, 1}
  /\ MaxSyncInfos \in Nat \ {0, 1}
  /\ MaxFails \in Nat /\ MaxBuf \in Nat \ {0} /\ MaxCtrl \in Nat \ {0}
  /\ MaxNet \in Nat \ {0}

VARIABLES
  ctrl,      \* control events under way, in order
  net,       \* the sources that packets under way belong to
  up,        \* the media stream connection exists
  queue,     \* m_sync_info_queue
  runRecv,   \* m_run_thread of the receive thread
  runPlay,   \* m_run_thread of the play thread
  loopPc,    \* where the event loop is
  handled,   \* source of the event it handles
  recvPc,    \* where the receive thread is
  received,  \* source of the packet it sorts in, and of the buffer it has found
  playPc,    \* where the play thread is
  phase,     \* which of its loops reads packets
  fails,     \* m_num_discard_fails
  playing,   \* ssrc in its copy of the sync information
  decoded,   \* m_nr_of_last_frame_decoded is not -1
  audio,     \* the sound card is running
  buffers,   \* keys of m_buffer_map, in the order of their first use
  size       \* [Ssrcs -> Nat]: packets in each of these buffers

mapVars == <<buffers, size>>
playVars == <<playPc, phase, fails, playing, decoded, audio>>
recvVars == <<recvPc, received>>
loopVars == <<loopPc, handled>>
runVars == <<runRecv, runPlay>>
envVars == <<sourceVars, ctrl, net>>
vars == <<envVars, up, queue, runVars, loopVars, recvVars, playVars, mapVars>>

Buffered(s) == s \in Range(buffers)
Events == [type : {"evSyncStream", "evResetStream"}, ssrc : Ssrcs]

\* No connection, with the constructor's values in what it will begin with.
Down ==
  /\ up' = FALSE /\ queue' = <<>>
  /\ runRecv' = FALSE /\ runPlay' = FALSE
  /\ loopPc' = "idle" /\ recvPc' = "none" /\ playPc' = "none"
  /\ handled' = NoStream /\ received' = NoStream /\ playing' = NoStream
  /\ phase' = "first" /\ fails' = 0 /\ decoded' = FALSE /\ audio' = FALSE
  /\ buffers' = <<>> /\ size' = [s \in Ssrcs |-> 0]

Init ==
  /\ SourceInit /\ ctrl = <<>> /\ net = {}
  /\ up = FALSE /\ queue = <<>>
  /\ runRecv = FALSE /\ runPlay = FALSE
  /\ loopPc = "idle" /\ recvPc = "none" /\ playPc = "none"
  /\ handled = NoStream /\ received = NoStream /\ playing = NoStream
  /\ phase = "first" /\ fails = 0 /\ decoded = FALSE /\ audio = FALSE
  /\ buffers = <<>> /\ size = [s \in Ssrcs |-> 0]

-----------------------------------------------------------------------------
(* The server and the network.                                             *)

\* A new stream has a source that nothing remembers: it is a random number.
Fresh(s) ==
  /\ s \notin net \cup Range(buffers) \cup Range(queue)
  /\ s \notin {latest, handled, received, playing}
  /\ \A k \in DOMAIN ctrl : ctrl[k].ssrc # s

\* The player is a member of the session, and its server knows.
Member == up /\ loopPc \notin {"joinRecv", "joinBoth", "delete"}

unchangedPlayer == UNCHANGED <<up, queue, runVars, loopVars, recvVars, playVars, mapVars>>

ServerSyncs(s) ==
  /\ Member /\ Fresh(s) /\ Len(ctrl) < MaxCtrl
  /\ Sync(s)
  /\ ctrl' = Append(ctrl, [type |-> "evSyncStream", ssrc |-> s])
  /\ UNCHANGED net /\ unchangedPlayer

\* A member that was told of no stream may see the reset of any.
ServerResets(s) ==
  /\ Member /\ Len(ctrl) < MaxCtrl
  /\ latest # NoStream => s = latest
  /\ Reset
  /\ ctrl' = Append(ctrl, [type |-> "evResetStream", ssrc |-> s])
  /\ UNCHANGED net /\ unchangedPlayer

ServerSends(s) ==
  /\ MayBeSent(s)
  /\ Cardinality(net \cup {s}) <= MaxNet
  /\ net' = net \cup {s}
  /\ UNCHANGED <<sourceVars, ctrl>> /\ unchangedPlayer

Lose(s) ==
  /\ s \in net /\ net' = net \ {s}
  /\ UNCHANGED <<sourceVars, ctrl>> /\ unchangedPlayer

-----------------------------------------------------------------------------
(* The event loop.                                                         *)

\* The player has joined: constructor and start.
Construct ==
  /\ ~up /\ up' = TRUE
  /\ runRecv' = TRUE /\ recvPc' = "main"
  /\ UNCHANGED <<envVars, queue, runPlay, loopVars, received, playVars, mapVars>>

\* The member leaves: events still under way find no session.
LeaveSession ==
  /\ up /\ loopPc = "idle"
  /\ Left /\ ctrl' = <<>>
  /\ runRecv' = FALSE /\ loopPc' = "joinRecv"
  /\ UNCHANGED <<net, up, queue, runPlay, handled, recvVars, playVars, mapVars>>

\* Mutant of RecvJoined: the play thread is told to stop but not waited for.
RecvJoined_NoJoin ==
  /\ loopPc = "joinRecv" /\ recvPc = "none"
  /\ runPlay' = FALSE /\ loopPc' = "delete"
  /\ UNCHANGED <<envVars, up, queue, runRecv, handled, recvVars, playVars, mapVars>>

\* stop: StopThread of the receive thread returns, StopThread of the play thread.
RecvJoined ==
  /\ loopPc = "joinRecv" /\ recvPc = "none"
  /\ runPlay' = FALSE
  /\ loopPc' = IF runPlay THEN "joinBoth" ELSE "delete"
  /\ UNCHANGED <<envVars, up, queue, runRecv, handled, recvVars, playVars, mapVars>>

Delete ==
  /\ loopPc = "delete"
  /\ Down
  /\ UNCHANGED envVars

HandleEvent(type, pc) ==
  /\ up /\ loopPc = "idle"
  /\ ctrl # <<>> /\ Head(ctrl).type = type
  /\ ctrl' = Tail(ctrl) /\ handled' = Head(ctrl).ssrc
  /\ loopPc' = pc
  /\ UNCHANGED <<sourceVars, net, up, queue, runRecv, recvVars, playVars, mapVars>>

ReceiveSync == HandleEvent("evSyncStream", "push") /\ UNCHANGED runPlay

EventDone == loopPc' = "idle" /\ handled' = NoStream

\* The lock of the queue is not taken here.
onSyncInfo ==
  /\ loopPc = "push"
  /\ LET pushed == Append(queue, handled)
     IN  queue' = IF Len(pushed) >= MaxSyncInfos THEN Tail(pushed) ELSE pushed
  /\ runPlay' = TRUE
  /\ playPc' = IF runPlay THEN playPc ELSE "main"
  /\ EventDone
  /\ UNCHANGED <<envVars, up, runRecv, recvVars, phase, fails, playing, decoded, audio, mapVars>>

\* Mutant of onResetStream: the play thread is not stopped first.
onResetStream_NoStop == HandleEvent("evResetStream", "pop") /\ UNCHANGED runPlay

\* StopThread of the play thread: nothing to do if it does not run.
onResetStream ==
  /\ HandleEvent("evResetStream", IF runPlay THEN "joinPlay" ELSE "pop")
  /\ runPlay' = FALSE

\* StopThread returns.
PlayJoined ==
  /\ loopPc \in {"joinPlay", "joinBoth"} /\ playPc = "none"
  /\ loopPc' = IF loopPc = "joinPlay" THEN "pop" ELSE "delete"
  /\ UNCHANGED <<envVars, up, queue, runVars, handled, recvVars, playVars, mapVars>>

\* Mutant of PopSyncInfo: the sync information stays.
PopSyncInfo_Keeps ==
  /\ loopPc = "pop"
  /\ UNCHANGED queue
  /\ IF queue = <<>> THEN EventDone ELSE loopPc' = "clear" /\ UNCHANGED handled
  /\ UNCHANGED <<envVars, up, runVars, recvVars, playVars, mapVars>>

\* Under the lock; with nothing in the queue the event is ignored.
PopSyncInfo ==
  /\ loopPc = "pop"
  /\ queue' = IF queue # <<>> /\ Head(queue) = handled THEN Tail(queue) ELSE queue
  /\ IF queue = <<>> THEN EventDone ELSE loopPc' = "clear" /\ UNCHANGED handled
  /\ UNCHANGED <<envVars, up, runVars, recvVars, playVars, mapVars>>

\* clear deletes the buffer, then takes it out of the map, then the sound card
\* is stopped (resetStream).
ClearDeletes ==
  /\ loopPc = "clear"
  /\ IF Buffered(handled)
       THEN loopPc' = "erase" /\ UNCHANGED <<handled, audio>>
       ELSE EventDone /\ audio' = FALSE
  /\ UNCHANGED <<envVars, up, queue, runVars, recvVars, playPc, phase, fails, playing, decoded, mapVars>>

ClearErases ==
  /\ loopPc = "erase"
  /\ \/ ~Buffered(handled) /\ UNCHANGED buffers
     \/ \E i \in DOMAIN buffers : buffers[i] = handled /\ buffers' = RemoveAt(buffers, i)
  /\ size' = [size EXCEPT ![handled] = 0]
  /\ audio' = FALSE /\ EventDone
  /\ UNCHANGED <<envVars, up, queue, runVars, recvVars, playPc, phase, fails, playing, decoded>>

-----------------------------------------------------------------------------
(* The receive thread.                                                     *)

unchangedByRecv == UNCHANGED <<sourceVars, ctrl, up, queue, runVars, loopVars>>

\* Reads a packet and looks for its buffer.
ReceivePacket(s) ==
  /\ recvPc = "main" /\ runRecv
  /\ s \in net
  /\ net' \in {net, net \ {s}}
  /\ received' = s
  /\ recvPc' = IF Buffered(s) THEN "append" ELSE "insert"
  /\ unchangedByRecv /\ UNCHANGED <<playVars, mapVars>>

\* Mutant of InsertBuffer: the map grows by one too many.
InsertBuffer_OneMore ==
  /\ recvPc = "insert"
  /\ LET full == Len(buffers) > NumSsrc
     IN  /\ buffers' = Append(IF full THEN Tail(buffers) ELSE buffers, received)
         /\ size' = IF full THEN [size EXCEPT ![Head(buffers)] = 0] ELSE size
  /\ recvPc' = "append"
  /\ unchangedByRecv /\ UNCHANGED <<net, received, playVars>>

\* A buffer for a new source; in a full map it takes the place of the oldest
\* one, for m_active_ssrc, which is never set, keeps none.
InsertBuffer ==
  /\ recvPc = "insert"
  /\ LET full == Len(buffers) >= NumSsrc
     IN  /\ buffers' = Append(IF full THEN Tail(buffers) ELSE buffers, received)
         /\ size' = IF full THEN [size EXCEPT ![Head(buffers)] = 0] ELSE size
  /\ recvPc' = "append"
  /\ unchangedByRecv /\ UNCHANGED <<net, received, playVars>>

\* The buffer found has not been deleted meanwhile.
Valid(s) == Buffered(s) /\ ~(loopPc = "erase" /\ handled = s)

\* What is put into a deleted buffer is lost; so is a duplicate or a packet that
\* comes too late.  All of them are signalled.
AppendPacket ==
  /\ recvPc = "append"
  /\ \/ UNCHANGED size
     \/ /\ Valid(received) /\ size[received] < MaxBuf
        /\ size' = [size EXCEPT ![received] = @ + 1]
  /\ recvPc' = "signal"
  /\ unchangedByRecv /\ UNCHANGED <<net, received, playVars, buffers>>

\* The signal finds the play thread waiting, or is lost.
Signal ==
  /\ recvPc = "signal" /\ recvPc' = "main" /\ received' = NoStream
  /\ playPc' = IF playPc = "wait" THEN "woken" ELSE playPc
  /\ unchangedByRecv
  /\ UNCHANGED <<net, phase, fails, playing, decoded, audio, mapVars>>

RecvEnds ==
  /\ recvPc = "main" /\ ~runRecv
  /\ recvPc' = "none"
  /\ unchangedByRecv /\ UNCHANGED <<net, received, playVars, mapVars>>

-----------------------------------------------------------------------------
(* The play thread.  Packets are read in four places: "first" until one was *)
(* decoded, "discard" what should have been played already, "fill" the      *)
(* sound card before it starts, and the next "chunk" while it runs.  Only   *)
(* "discard" does not wait for packets.                                     *)

unchangedByPlay == UNCHANGED <<envVars, up, queue, runVars, loopVars, recvVars>>

\* ThreadMainLoop enters DoLoop once more, or the thread ends.
PlayMain ==
  /\ playPc = "main"
  /\ playPc' = IF runPlay THEN "sync" ELSE "none"
  /\ unchangedByPlay /\ UNCHANGED <<phase, fails, playing, decoded, audio, mapVars>>

\* DoLoop returns or has caught an exception.
EndLoop == playPc' = "main" /\ playing' = NoStream /\ phase' = "first" /\ fails' = 0

\* Goes on in the same loop or in one that may follow it.
ReadIn(loops) == playPc' = "size" /\ phase' \in loops

\* getSyncInfo, under the lock, asserts that there is one.  The sound card may
\* have stopped by itself; startStream starts it again.
getSyncInfo ==
  /\ playPc = "sync" /\ queue # <<>>
  /\ \/ /\ audio /\ ~runPlay /\ EndLoop /\ UNCHANGED audio
     \/ /\ playing' = Head(queue) /\ UNCHANGED fails
        /\ \/ audio /\ runPlay /\ ReadIn({"chunk"}) /\ UNCHANGED audio
           \/ audio' = FALSE /\ ReadIn(IF decoded THEN {"discard", "fill"} ELSE {"first"})
  /\ unchangedByPlay /\ UNCHANGED <<decoded, mapVars>>

\* After a call of addPacket2RingBuffer that brought a frame, or did not: the
\* loop goes on, the next one begins or DoLoop ends.  "first" does not end before
\* it has a frame, "discard" gives up after MaxFails misses (ExSyncFailed).
Continue(got) ==
  \/ /\ phase = "first"
     /\ ReadIn(IF got THEN {"discard", "fill"} ELSE {"first"})
     /\ UNCHANGED <<playing, fails, audio>>
  \/ /\ phase = "discard" /\ got
     /\ ReadIn({"discard", "fill"}) /\ UNCHANGED <<playing, fails, audio>>
  \/ /\ phase = "discard" /\ ~got /\ UNCHANGED audio
     /\ IF fails = MaxFails
          THEN EndLoop
          ELSE ReadIn({"discard"}) /\ fails' = fails + 1 /\ UNCHANGED playing
  \/ /\ phase \in {"fill", "chunk"} /\ runPlay
     /\ ReadIn({phase, "chunk"}) /\ UNCHANGED <<playing, fails>>
     /\ audio' = (phase' = "chunk")
  \/ /\ phase \in {"fill", "chunk"} /\ EndLoop
     /\ audio' \in {audio, audio \/ runPlay}

CheckSize ==
  /\ playPc = "size"
  /\ IF size[playing] = 0 /\ phase = "discard"
       THEN Continue(FALSE)
       ELSE /\ playPc' = IF size[playing] = 0 THEN "wait" ELSE "read"
            /\ UNCHANGED <<phase, fails, playing, audio>>
  /\ unchangedByPlay /\ UNCHANGED <<decoded, mapVars>>

WaitTimesOut ==
  /\ playPc = "wait" /\ playPc' = "timedOut"
  /\ unchangedByPlay /\ UNCHANGED <<phase, fails, playing, decoded, audio, mapVars>>

\* Mutant of WaitEnds: the thread's end is not looked for.
WaitEnds_NotCancelled ==
  /\ playPc \in {"woken", "timedOut"}
  /\ playPc' = IF playPc = "woken" /\ size[playing] > 0 THEN "read" ELSE "wait"
  /\ unchangedByPlay /\ UNCHANGED <<phase, fails, playing, decoded, audio, mapVars>>

\* Mutant of WaitEnds: what the wait returned is taken the wrong way round.
WaitEnds_Inverted ==
  /\ playPc \in {"woken", "timedOut"}
  /\ IF runPlay
       THEN /\ playPc' = IF playPc = "timedOut" /\ size[playing] > 0 THEN "read" ELSE "wait"
            /\ UNCHANGED <<phase, fails, playing>>
       ELSE EndLoop
  /\ unchangedByPlay /\ UNCHANGED <<decoded, audio, mapVars>>

\* A cancelled thread leaves by InterruptedEx.  After a timeout the size is not
\* looked at.
WaitEnds ==
  /\ playPc \in {"woken", "timedOut"}
  /\ IF runPlay
       THEN /\ playPc' = IF playPc = "woken" /\ size[playing] > 0 THEN "read" ELSE "wait"
            /\ UNCHANGED <<phase, fails, playing>>
       ELSE EndLoop
  /\ unchangedByPlay /\ UNCHANGED <<decoded, audio, mapVars>>

\* A cancelled thread throws the packet away.
ReadPacket ==
  /\ playPc = "read"
  /\ ~runPlay \/ size[playing] > 0
  /\ size' = IF size[playing] > 0 THEN [size EXCEPT ![playing] = @ - 1] ELSE size
  /\ decoded' = (decoded \/ runPlay)
  /\ Continue(runPlay)
  /\ unchangedByPlay /\ UNCHANGED buffers

-----------------------------------------------------------------------------
(* The process dies.  The server sees the connection end.                  *)

Dies == Down /\ Left /\ ctrl' = <<>> /\ UNCHANGED net

\* The buffer that held a packet has been evicted: a null pointer.
NullPacket == playPc = "read" /\ runPlay /\ size[playing] = 0 /\ Dies

\* Two threads are in the map and one of them changes it.
MapRace ==
  /\ \/ recvPc = "insert" /\ (playPc \in {"size", "woken", "read"} \/ loopPc \in {"clear", "erase"})
     \/ recvPc = "main" /\ runRecv /\ net # {} /\ loopPc = "erase"
  /\ Dies

\* The receive thread uses a buffer that the event loop has deleted.
DanglingBuffer == recvPc = "append" /\ ~Valid(received) /\ Dies

-----------------------------------------------------------------------------
EventLoop ==
  RecvJoined \/ PlayJoined \/ Delete \/ onSyncInfo \/ PopSyncInfo \/ ClearDeletes \/ ClearErases

Recv == InsertBuffer \/ AppendPacket \/ Signal \/ RecvEnds

Play == PlayMain \/ getSyncInfo \/ CheckSize \/ WaitTimesOut \/ WaitEnds \/ ReadPacket

Next ==
  \/ \E s \in Ssrcs :
       ServerSyncs(s) \/ ServerResets(s) \/ ServerSends(s) \/ Lose(s) \/ ReceivePacket(s)
  \/ Construct \/ LeaveSession \/ ReceiveSync \/ onResetStream
  \/ EventLoop \/ Recv \/ Play
  \/ NullPacket \/ MapRace \/ DanglingBuffer

Spec == Init /\ [][Next]_vars

\* The threads are scheduled, and a wait with timeout ends.
FairSpec ==
  /\ Spec
  /\ WF_vars(EventLoop) /\ WF_vars(Recv) /\ WF_vars(Play)

-----------------------------------------------------------------------------
(* Safety.                                                                 *)

\* Every variable keeps to its type; the map keeps to its size.
TypeOK ==
  /\ latest \in Ssrcs \cup {NoStream} /\ told \in BOOLEAN
  /\ ctrl \in Seq(Events) /\ net \subseteq Ssrcs /\ up \in BOOLEAN
  /\ queue \in Seq(Ssrcs) /\ Len(queue) < MaxSyncInfos
  /\ runRecv \in BOOLEAN /\ runPlay \in BOOLEAN
  /\ loopPc \in {"idle", "push", "joinPlay", "pop", "clear", "erase",
                 "joinRecv", "joinBoth", "delete"}
  /\ recvPc \in {"none", "main", "insert", "append", "signal"}
  /\ playPc \in {"none", "main", "sync", "size", "wait", "timedOut", "woken", "read"}
  /\ {handled, received, playing} \subseteq Ssrcs \cup {NoStream}
  /\ phase \in {"first", "discard", "fill", "chunk"}
  /\ fails \in 0 .. MaxFails /\ decoded \in BOOLEAN /\ audio \in BOOLEAN
  /\ buffers \in Seq(Ssrcs) /\ IsInjective(buffers) /\ Len(buffers) <= NumSsrc
  /\ size \in [Ssrcs -> 0 .. MaxBuf]
  /\ \A s \in Ssrcs : size[s] > 0 => Buffered(s)

\* The play thread never meets getSyncInfo's assertion: what it is told to play
\* stays in the queue until it has ended.
SyncInfoThere == playPc # "none" /\ runPlay => queue # <<>>

\* onSyncInfo writes the queue without its lock, onResetStream reads what the
\* play thread may hold: neither happens while a play thread exists.
QueueUndisturbed == loopPc \in {"push", "pop", "clear", "erase"} => playPc = "none"

\* The stream that is played, from the copy taken at the beginning of DoLoop, is
\* the one the queue names, the only one there: nothing of a stream that was
\* reset is played.
PlaysCurrent ==
  playPc \notin {"none", "main", "sync"} => queue = <<playing>>

\* The destructor deletes what no thread uses any more.
NobodyUsesDeleted == loopPc = "delete" \/ ~up => recvPc = "none" /\ playPc = "none"

-----------------------------------------------------------------------------
(* Liveness.                                                               *)

\* StopThread returns.  Only a thread that has decoded nothing yet and keeps
\* finding packets would keep the event loop waiting: its first loop does not
\* look whether the thread is cancelled.
Draining == playPc = "read" /\ phase = "first" /\ ~runPlay

Stopping == loopPc \in {"joinRecv", "joinPlay", "joinBoth"}

StopReturns == []<>~Stopping \/ []<>Draining

\* A signal may be lost between the look at the buffer and the wait, or after a
\* timeout, when the play thread does not look again; but a packet does not stay
\* unread if signals, for any source, keep finding the thread waiting (it waits a
\* second at a time and is elsewhere for moments): it is read, or the thread told
\* to stop leaves, or the buffer is evicted.
Unread == playPc \in {"wait", "woken", "timedOut"} /\ size[playing] > 0

PacketsRead == []<><<Signal /\ playPc = "wait">>_vars => []<>~Unread
===============================================================================
