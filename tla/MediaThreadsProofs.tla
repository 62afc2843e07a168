-------------------------- MODULE MediaThreadsProofs --------------------------
(***************************************************************************)
(* Proofs about MediaThreads, for any number of sources, buffers, packets  *)
(* and control events under way.                                           *)
(*                                                                         *)
(* The inductive invariant follows the queue of sync information through   *)
(* the event loop and the control events under way: After(k) is what it    *)
(* will hold when the first k of them have been handled.  Since the server *)
(* parts two syncs by a reset, a sync always meets an empty queue, and a   *)
(* reset an empty one or its own stream; therefore a play thread exists    *)
(* exactly while there is something in the queue, but for the moments in   *)
(* which the event loop waits for it.                                      *)
(***************************************************************************)
EXTENDS MediaThreads, SequenceTheorems, TLAPS

Leaving == {"joinRecv", "joinBoth", "delete"}
Handling == {"push", "joinPlay", "pop", "clear", "erase"}

ControlTypes ==
  /\ latest \in Ssrcs \cup {NoStream} /\ told \in BOOLEAN
  /\ ctrl \in Seq(Events) /\ up \in BOOLEAN
  /\ runRecv \in BOOLEAN /\ runPlay \in BOOLEAN
  /\ queue = <<>> \/ \E s \in Ssrcs : queue = <<s>>
  /\ loopPc \in {"idle"} \cup Handling \cup Leaving
  /\ recvPc \in {"none", "main", "insert", "append", "signal"}
  /\ playPc \in {"none", "main", "sync", "size", "wait", "timedOut", "woken", "read"}
  /\ handled \in Ssrcs \cup {NoStream} /\ playing \in Ssrcs \cup {NoStream}

Alive ==
  /\ loopPc # "idle" => up
  /\ loopPc \in Handling => handled \in Ssrcs
  /\ ~up => /\ queue = <<>> /\ ~runPlay /\ ~runRecv
            /\ playPc = "none" /\ recvPc = "none"
  /\ ~up \/ loopPc \in Leaving => ctrl = <<>> /\ ~told /\ ~runRecv
  /\ told => latest \in Ssrcs

RecvThread ==
  /\ recvPc = "none" => ~runRecv
  /\ recvPc # "none" /\ ~runRecv => loopPc = "joinRecv"
  /\ loopPc \in {"joinBoth", "delete"} => recvPc = "none"

PlayThread ==
  /\ loopPc \in {"idle", "joinRecv"} => /\ runPlay <=> playPc # "none"
                                        /\ runPlay <=> queue # <<>>
  /\ loopPc \notin {"idle", "joinRecv"} => ~runPlay
  /\ loopPc \in {"push", "pop", "clear", "erase", "delete"} => playPc = "none"
  /\ loopPc \in {"push", "clear", "erase"} => queue = <<>>
  /\ loopPc = "joinPlay" => queue = <<handled>>
  /\ loopPc = "pop" => queue \in {<<>>, <<handled>>}
  /\ loopPc = "joinBoth" => queue # <<>>
  /\ playPc \notin {"none", "main", "sync"} => queue = <<playing>>

Base ==
  IF loopPc = "push" THEN <<handled>>
  ELSE IF loopPc \in {"joinPlay", "pop"} \cup Leaving THEN <<>>
  ELSE queue

After(k) ==
  IF k = 0 THEN Base
  ELSE IF ctrl[k].type = "evSyncStream" THEN <<ctrl[k].ssrc>> ELSE <<>>

ControlEvents ==
  /\ \A k \in 1 .. Len(ctrl) :
       IF ctrl[k].type = "evSyncStream" THEN After(k - 1) = <<>>
       ELSE After(k - 1) \in {<<>>, <<ctrl[k].ssrc>>}
  /\ After(Len(ctrl)) = IF told THEN <<latest>> ELSE <<>>

Control == ControlTypes /\ Alive /\ RecvThread /\ PlayThread /\ ControlEvents

controlVars == <<sourceVars, ctrl, up, queue, runVars, loopVars, recvPc, playPc, playing>>

-----------------------------------------------------------------------------
(* The server.                                                             *)

LEMMA AppendWhat ==
  ASSUME NEW S, NEW s \in Seq(S), NEW m \in S
  PROVE  /\ Append(s, m) \in Seq(S)
         /\ Len(Append(s, m)) = Len(s) + 1
         /\ \A i \in 1 .. Len(s) : Append(s, m)[i] = s[i]
         /\ Append(s, m)[Len(s) + 1] = m
  OBVIOUS

\* An event behind those under way, that the queue is ready for after them.
LEMMA EventSent ==
  ASSUME Control, NEW e \in Events, ctrl' = Append(ctrl, e),
         UNCHANGED <<queue, loopPc, handled>>,
         IF e.type = "evSyncStream" THEN ~told ELSE told => e.ssrc = latest,
         told' = (e.type = "evSyncStream"), told' => latest' = e.ssrc
  PROVE  ControlEvents'
<1>1. PICK n \in Nat : n = Len(ctrl) /\ ctrl \in Seq(Events)
  BY DEF Control, ControlTypes
<1>2. /\ ctrl' \in Seq(Events) /\ Len(ctrl') = n + 1 /\ ctrl'[n + 1] = e
      /\ \A k \in 1 .. n : ctrl'[k] = ctrl[k]
  BY <1>1, AppendWhat
<1>3. Base' = Base
  BY DEF Base
<1>4. \A k \in 0 .. n : After(k)' = After(k)
  BY <1>2, <1>3 DEF After
<1>5. After(n) = IF told THEN <<latest>> ELSE <<>>
  BY <1>1 DEF Control, ControlEvents
<1>6. ASSUME NEW k \in 1 .. n + 1
      PROVE  IF ctrl'[k].type = "evSyncStream" THEN After(k - 1)' = <<>>
             ELSE After(k - 1)' \in {<<>>, <<ctrl'[k].ssrc>>}
  <2>1. CASE k = n + 1
    BY <1>1, <1>2, <1>4, <1>5, <2>1
  <2>2. CASE k \in 1 .. n
    <3>1. k - 1 \in 0 .. n /\ ctrl'[k] = ctrl[k]
      BY <1>1, <1>2, <2>2
    <3>2. After(k - 1)' = After(k - 1)
      BY <1>4, <3>1
    <3>3. IF ctrl[k].type = "evSyncStream" THEN After(k - 1) = <<>>
          ELSE After(k - 1) \in {<<>>, <<ctrl[k].ssrc>>}
      BY <1>1, <2>2 DEF Control, ControlEvents
    <3> HIDE DEF After
    <3> QED
      BY <3>1, <3>2, <3>3
  <2> QED
    BY <1>1, <2>1, <2>2
<1>7. After(n + 1)' = IF told' THEN <<latest'>> ELSE <<>>
  <2>1. n + 1 # 0 /\ ctrl'[n + 1] = e
    BY <1>1, <1>2
  <2> QED
    BY <2>1 DEF After
<1> QED
  BY <1>2, <1>6, <1>7 DEF ControlEvents

LEMMA ServerStep ==
  ASSUME Control, NEW s \in Ssrcs, ServerSyncs(s) \/ ServerResets(s)
  PROVE  Control'
<1>1. /\ UNCHANGED <<up, queue, runVars, loopVars, recvPc, playPc, playing>>
      /\ up /\ loopPc \notin Leaving
  BY DEF ServerSyncs, ServerResets, unchangedPlayer, recvVars, playVars, Member, Leaving
<1>2. PICK e \in Events :
        /\ ctrl' = Append(ctrl, e)
        /\ IF e.type = "evSyncStream" THEN ~told ELSE told => e.ssrc = latest
        /\ told' = (e.type = "evSyncStream") /\ (told' => latest' = e.ssrc)
        /\ latest' \in Ssrcs \cup {NoStream}
  <2>1. CASE ServerSyncs(s)
    <3> DEFINE e == [type |-> "evSyncStream", ssrc |-> s]
    <3>1. e \in Events
      BY DEF Events
    <3> QED
      BY <2>1, <3>1 DEF ServerSyncs, Sync
  <2>2. CASE ServerResets(s)
    <3> DEFINE e == [type |-> "evResetStream", ssrc |-> s]
    <3>1. e \in Events
      BY DEF Events
    <3> QED
      BY <2>2, <3>1, StreamAssumption DEF ServerResets, Reset, Control, Alive, ControlTypes
  <2> QED
    BY <2>1, <2>2
<1>3. ControlEvents'
  BY <1>1, <1>2, EventSent DEF loopVars
<1>4. ctrl' \in Seq(Events)
  BY <1>2, AppendWhat DEF Control, ControlTypes
<1>5. told' \in BOOLEAN /\ (told' => latest' \in Ssrcs)
  BY <1>2 DEF Events
<1> QED
  BY <1>1, <1>2, <1>3, <1>4, <1>5
  DEF Control, ControlTypes, Alive, RecvThread, PlayThread, runVars, loopVars

-----------------------------------------------------------------------------
(* The event loop.                                                         *)

\* What is under way stays as it was, and the loop leaves the queue as promised.
LEMMA SameEvents ==
  ASSUME Control, UNCHANGED <<sourceVars, ctrl>>, Base' = Base
  PROVE  ControlEvents'
<1>1. \A k : After(k)' = After(k)
  BY DEF After
<1>2. latest' = latest /\ told' = told /\ ctrl' = ctrl
  BY DEF sourceVars
<1>3. ControlEvents
  BY DEF Control
<1> QED
  BY <1>1, <1>2, <1>3 DEF ControlEvents

\* The first event is taken: the loop is about to do what it asks for.
LEMMA EventTaken ==
  ASSUME Control, loopPc = "idle", ctrl # <<>>, ctrl' = Tail(ctrl), UNCHANGED sourceVars,
         Base' = IF Head(ctrl).type = "evSyncStream" THEN <<Head(ctrl).ssrc>> ELSE <<>>
  PROVE  /\ ControlEvents' /\ ctrl' \in Seq(Events) /\ Head(ctrl) \in Events
         /\ IF Head(ctrl).type = "evSyncStream" THEN queue = <<>>
            ELSE queue \in {<<>>, <<Head(ctrl).ssrc>>}
<1>1. PICK n \in Nat : n = Len(ctrl) /\ ctrl \in Seq(Events) /\ n > 0
  BY DEF Control, ControlTypes
<1>2. /\ ctrl' \in Seq(Events) /\ Len(ctrl') = n - 1 /\ Head(ctrl) = ctrl[1]
      /\ \A k \in 1 .. n - 1 : ctrl'[k] = ctrl[k + 1]
      /\ Head(ctrl) \in Events
  BY <1>1
<1>3. ASSUME NEW k \in 0 .. n - 1 PROVE After(k)' = After(k + 1)
  <2>1. CASE k = 0
    BY <1>2, <2>1 DEF After
  <2>2. CASE k # 0
    <3>1. ctrl'[k] = ctrl[k + 1] /\ k + 1 # 0
      BY <1>2, <2>2
    <3> QED
      BY <2>2, <3>1 DEF After
  <2> QED
    BY <2>1, <2>2
<1>4. \A k \in 1 .. n :
        IF ctrl[k].type = "evSyncStream" THEN After(k - 1) = <<>>
        ELSE After(k - 1) \in {<<>>, <<ctrl[k].ssrc>>}
  BY <1>1 DEF Control, ControlEvents
<1>5. ASSUME NEW k \in 1 .. n - 1
      PROVE  IF ctrl'[k].type = "evSyncStream" THEN After(k - 1)' = <<>>
             ELSE After(k - 1)' \in {<<>>, <<ctrl'[k].ssrc>>}
  <2>1. ctrl'[k] = ctrl[k + 1] /\ k - 1 \in 0 .. n - 1 /\ k + 1 \in 1 .. n
    BY <1>1, <1>2
  <2>2. After(k - 1)' = After(k)
    <3>1. After(k - 1)' = After((k - 1) + 1)
      BY <1>3, <2>1
    <3>2. (k - 1) + 1 = k
      OBVIOUS
    <3> QED
      BY <3>1, <3>2
  <2>3. IF ctrl[k + 1].type = "evSyncStream" THEN After(k) = <<>>
        ELSE After(k) \in {<<>>, <<ctrl[k + 1].ssrc>>}
    <3>1. (k + 1) - 1 = k
      OBVIOUS
    <3> QED
      BY <1>4, <2>1, <3>1
  <2> HIDE DEF After
  <2> QED
    BY <2>1, <2>2, <2>3
<1>6. After(n - 1)' = IF told' THEN <<latest'>> ELSE <<>>
  <2>1. After(n - 1)' = After(n)
    <3>1. After(n - 1)' = After((n - 1) + 1)
      BY <1>1, <1>3
    <3>2. (n - 1) + 1 = n
      OBVIOUS
    <3> QED
      BY <3>1, <3>2
  <2> QED
    BY <1>1, <2>1 DEF sourceVars, Control, ControlEvents
<1>7. ControlEvents'
  BY <1>1, <1>2, <1>5, <1>6 DEF ControlEvents
<1>8. After(0) = queue
  BY DEF After, Base, Leaving
<1>9. IF Head(ctrl).type = "evSyncStream" THEN queue = <<>>
      ELSE queue \in {<<>>, <<Head(ctrl).ssrc>>}
  BY <1>1, <1>2, <1>4, <1>8
<1> QED
  BY <1>2, <1>7, <1>9

LEMMA ReceiveSyncStep ==
  ASSUME Control, ReceiveSync
  PROVE  Control'
<1>1. /\ loopPc = "idle" /\ loopPc' = "push" /\ ctrl # <<>> /\ ctrl' = Tail(ctrl)
      /\ Head(ctrl).type = "evSyncStream" /\ handled' = Head(ctrl).ssrc /\ up
      /\ UNCHANGED <<sourceVars, up, queue, runVars, recvPc, playPc, playing>>
  BY DEF ReceiveSync, HandleEvent, recvVars, playVars, runVars
<1>2. /\ ControlEvents' /\ ctrl' \in Seq(Events) /\ Head(ctrl) \in Events /\ queue = <<>>
  BY <1>1, EventTaken DEF Base
<1> QED
  BY <1>1, <1>2
  DEF Control, ControlTypes, Alive, RecvThread, PlayThread, runVars, sourceVars, Events,
      Handling, Leaving

LEMMA onResetStreamStep ==
  ASSUME Control, onResetStream
  PROVE  Control'
<1>1. /\ loopPc = "idle" /\ loopPc' = IF runPlay THEN "joinPlay" ELSE "pop"
      /\ ctrl # <<>> /\ ctrl' = Tail(ctrl) /\ ~runPlay' /\ runPlay' \in BOOLEAN
      /\ Head(ctrl).type = "evResetStream" /\ handled' = Head(ctrl).ssrc /\ up
      /\ UNCHANGED <<sourceVars, up, queue, runRecv, recvPc, playPc, playing>>
  BY DEF onResetStream, HandleEvent, recvVars, playVars
<1>2. /\ ControlEvents' /\ ctrl' \in Seq(Events) /\ Head(ctrl) \in Events
      /\ queue \in {<<>>, <<Head(ctrl).ssrc>>}
  BY <1>1, EventTaken DEF Base
<1> QED
  BY <1>1, <1>2
  DEF Control, ControlTypes, Alive, RecvThread, PlayThread, sourceVars, Events,
      Handling, Leaving

LEMMA LoopStep ==
  ASSUME Control, RecvJoined \/ PlayJoined \/ onSyncInfo \/ PopSyncInfo \/ ClearDeletes \/ ClearErases
  PROVE  Control'
<1>1. CASE RecvJoined
  <2>1. Base' = Base
    BY <1>1 DEF RecvJoined, Base, Leaving
  <2>2. ControlEvents'
    BY <1>1, <2>1, SameEvents DEF RecvJoined, envVars
  <2> QED
    BY <1>1, <2>2 DEF RecvJoined, envVars, sourceVars, recvVars, playVars, Handling, Leaving,
      Control, ControlTypes, Alive, RecvThread, PlayThread
<1>2. CASE PlayJoined
  <2>1. Base' = Base
    BY <1>2 DEF PlayJoined, Base, Leaving
  <2>2. ControlEvents'
    BY <1>2, <2>1, SameEvents DEF PlayJoined, envVars
  <2> QED
    BY <1>2, <2>2 DEF PlayJoined, envVars, sourceVars, runVars, recvVars, playVars, Handling,
      Leaving, Control, ControlTypes, Alive, RecvThread, PlayThread
<1>3. CASE onSyncInfo
  <2>1. queue' = <<handled>> /\ handled \in Ssrcs
    <3>1. queue = <<>> /\ handled \in Ssrcs /\ MaxSyncInfos \in Nat /\ MaxSyncInfos > 1
      BY <1>3, ThreadsAssumption DEF onSyncInfo, Control, PlayThread, Alive, Handling
    <3>2. Append(queue, handled) = <<handled>> /\ Len(Append(queue, handled)) = 1
      BY <3>1
    <3> QED
      BY <1>3, <3>1, <3>2 DEF onSyncInfo
  <2>2. Base' = Base
    BY <1>3, <2>1 DEF onSyncInfo, Base, Leaving, EventDone
  <2>3. ControlEvents'
    BY <1>3, <2>2, SameEvents DEF onSyncInfo, envVars
  <2>4. queue' # <<>>
    BY <2>1
  <2> QED
    BY <1>3, <2>1, <2>3, <2>4 DEF onSyncInfo, EventDone, envVars, sourceVars, recvVars, Handling,
      Leaving, Control, ControlTypes, Alive, RecvThread, PlayThread
<1>4. CASE PopSyncInfo
  <2>1. queue' = <<>> /\ (queue = <<>> => loopPc' = "idle") /\ (queue # <<>> => loopPc' = "clear")
    BY <1>4 DEF PopSyncInfo, EventDone, Control, PlayThread
  <2>2. Base' = Base
    BY <1>4, <2>1 DEF PopSyncInfo, Base, Leaving
  <2>3. ControlEvents'
    BY <1>4, <2>2, SameEvents DEF PopSyncInfo, envVars
  <2> QED
    BY <1>4, <2>1, <2>3 DEF PopSyncInfo, EventDone, envVars, sourceVars, runVars, recvVars,
      playVars, Handling, Leaving, Control, ControlTypes, Alive, RecvThread, PlayThread
<1>5. CASE ClearDeletes
  <2>1. Base' = Base
    BY <1>5 DEF ClearDeletes, EventDone, Base, Leaving
  <2>2. ControlEvents'
    BY <1>5, <2>1, SameEvents DEF ClearDeletes, envVars
  <2> QED
    BY <1>5, <2>2 DEF ClearDeletes, EventDone, envVars, sourceVars, runVars, recvVars,
      Handling, Leaving, Control, ControlTypes, Alive, RecvThread, PlayThread
<1>6. CASE ClearErases
  <2>1. Base' = Base
    BY <1>6 DEF ClearErases, EventDone, Base, Leaving
  <2>2. ControlEvents'
    BY <1>6, <2>1, SameEvents DEF ClearErases, envVars
  <2> QED
    BY <1>6, <2>2 DEF ClearErases, EventDone, envVars, sourceVars, runVars, recvVars,
      Handling, Leaving, Control, ControlTypes, Alive, RecvThread, PlayThread
<1> QED
  BY <1>1, <1>2, <1>3, <1>4, <1>5, <1>6

\* The connection is gone, and with it what the server told the member.
LEMMA DownStep ==
  ASSUME Control, Down, ctrl' = <<>>, ~told', told' \in BOOLEAN,
         latest' \in Ssrcs \cup {NoStream}
  PROVE  Control'
<1>1. ControlEvents'
  <2>1. Len(<<>>) = 0 /\ 1 .. 0 = {}
    OBVIOUS
  <2>2. Base' = <<>>
    BY DEF Down, Base, Leaving
  <2> QED
    BY <2>1, <2>2 DEF ControlEvents, After
<1>2. ControlTypes'
  <2>1. <<>> \in Seq(Events)
    OBVIOUS
  <2> QED
    BY <2>1 DEF Down, Handling, Leaving, ControlTypes
<1>3. Alive' /\ RecvThread' /\ PlayThread'
  BY DEF Down, Handling, Leaving, Alive, RecvThread, PlayThread
<1> QED
  BY <1>1, <1>2, <1>3 DEF Control

LEMMA SessionStep ==
  ASSUME Control, Construct \/ LeaveSession \/ Delete
  PROVE  Control'
<1>1. CASE Construct
  <2>1. Base' = Base
    BY <1>1 DEF Construct, loopVars, Base
  <2>2. ControlEvents'
    BY <1>1, <2>1, SameEvents DEF Construct, envVars
  <2> QED
    BY <1>1, <2>2 DEF Construct, envVars, sourceVars, loopVars, playVars, Handling, Leaving,
      Control, ControlTypes, Alive, RecvThread, PlayThread
<1>2. CASE LeaveSession
  <2>1. ControlEvents'
    <3>1. Len(<<>>) = 0 /\ 1 .. 0 = {}
      OBVIOUS
    <3>2. Base' = <<>> /\ ctrl' = <<>> /\ told' = FALSE
      BY <1>2 DEF LeaveSession, Left, Base, Leaving
    <3> QED
      BY <3>1, <3>2 DEF ControlEvents, After
  <2>2. ControlTypes'
    <3>1. <<>> \in Seq(Events)
      OBVIOUS
    <3> QED
      BY <3>1, <1>2 DEF LeaveSession, Left, recvVars, playVars, Handling, Leaving, Control,
        ControlTypes
  <2>3. Alive' /\ RecvThread' /\ PlayThread'
    BY <1>2 DEF LeaveSession, Left, recvVars, playVars, Handling, Leaving, Control,
      ControlTypes, Alive, RecvThread, PlayThread
  <2> QED
    BY <2>1, <2>2, <2>3 DEF Control
<1>3. CASE Delete
  BY <1>3, DownStep
  DEF Delete, envVars, sourceVars, Control, ControlTypes, Alive, Leaving
<1> QED
  BY <1>1, <1>2, <1>3

-----------------------------------------------------------------------------
(* The threads, the network and the death of the process.                  *)

LEMMA Unmoved ==
  ASSUME Control, UNCHANGED <<sourceVars, ctrl, up, queue, runVars, loopVars, playing>>,
         recvPc' \in {"none", "main", "insert", "append", "signal"},
         recvPc' = "none" => recvPc = "none" \/ ~runRecv, recvPc = "none" => recvPc' = "none",
         playPc' \in {"none", "main", "sync", "size", "wait", "timedOut", "woken", "read"},
         playPc = "none" <=> playPc' = "none",
         playPc' \notin {"none", "main", "sync"} => queue = <<playing>>
  PROVE  Control'
<1>1. Base' = Base
  BY DEF Base, loopVars
<1>2. ControlEvents'
  BY <1>1, SameEvents
<1> QED
  BY <1>2 DEF sourceVars, runVars, loopVars, Control, ControlTypes, Alive, RecvThread, PlayThread

LEMMA RecvStep ==
  ASSUME Control, (\E s \in Ssrcs : ReceivePacket(s)) \/ Recv
  PROVE  Control'
<1>1. UNCHANGED <<sourceVars, ctrl, up, queue, runVars, loopVars, playing>>
  BY DEF ReceivePacket, Recv, InsertBuffer, AppendPacket, Signal, RecvEnds, unchangedByRecv,
         playVars
<1>2. /\ recvPc # "none" /\ recvPc' \in {"none", "main", "insert", "append", "signal"}
      /\ recvPc' = "none" => ~runRecv
  BY DEF ReceivePacket, Recv, InsertBuffer, AppendPacket, Signal, RecvEnds
<1>3. playPc' = playPc \/ (playPc = "wait" /\ playPc' = "woken")
  BY DEF ReceivePacket, Recv, InsertBuffer, AppendPacket, Signal, RecvEnds, playVars
<1> QED
  BY <1>1, <1>2, <1>3, Unmoved DEF Control, ControlTypes, PlayThread

LEMMA StillStep ==
  ASSUME Control, UNCHANGED vars \/ \E s \in Ssrcs : ServerSends(s) \/ Lose(s)
  PROVE  Control'
<1>1. UNCHANGED <<sourceVars, ctrl, up, queue, runVars, loopVars, recvPc, playPc, playing>>
  BY DEF vars, envVars, recvVars, playVars, ServerSends, Lose, unchangedPlayer
<1> QED
  BY <1>1, Unmoved DEF Control, ControlTypes, PlayThread

\* Where the play thread is after it has read, or has not.
LEMMA Continues ==
  ASSUME NEW got \in BOOLEAN, Continue(got)
  PROVE  \/ playPc' = "main" /\ playing' = NoStream
         \/ playPc' = "size" /\ playing' = playing
  BY DEF Continue, ReadIn, EndLoop

LEMMA PlayStep ==
  ASSUME Control, Play
  PROVE  Control'
<1>1. UNCHANGED <<sourceVars, ctrl, up, queue, runVars, loopVars, recvPc>> /\ playPc # "none"
  BY DEF Play, PlayMain, getSyncInfo, CheckSize, WaitTimesOut, WaitEnds, ReadPacket,
         unchangedByPlay, envVars, recvVars
<1>2. ASSUME playPc' \in {"size", "wait", "timedOut", "woken", "read"}, queue = <<playing'>>,
             playing' \in Ssrcs \cup {NoStream}
      PROVE  Control'
  BY <1>1, <1>2, SameEvents
  DEF Base, sourceVars, runVars, loopVars, Control, ControlTypes, Alive, RecvThread, PlayThread
<1>3. ASSUME playPc' \in {"main", "sync"}, playing' \in Ssrcs \cup {NoStream} PROVE Control'
  BY <1>1, <1>3, SameEvents
  DEF Base, sourceVars, runVars, loopVars, Control, ControlTypes, Alive, RecvThread, PlayThread
<1>4. ASSUME playPc' = "none", ~runPlay, playing' = playing PROVE Control'
  BY <1>1, <1>4, SameEvents
  DEF Base, sourceVars, runVars, loopVars, Control, ControlTypes, Alive, RecvThread, PlayThread
<1>5. CASE PlayMain
  BY <1>3, <1>4, <1>5 DEF PlayMain, Control, ControlTypes
<1>6. CASE getSyncInfo
  <2>1. CASE EndLoop
    BY <1>3, <2>1 DEF EndLoop
  <2>2. CASE ~EndLoop
    <3>1. playing' = Head(queue) /\ playPc' = "size" /\ queue # <<>>
      BY <1>6, <2>2 DEF getSyncInfo, ReadIn
    <3>2. PICK s \in Ssrcs : queue = <<s>>
      BY <3>1 DEF Control, ControlTypes
    <3> QED
      BY <1>2, <3>1, <3>2
  <2> QED
    BY <2>1, <2>2
<1>7. CASE CheckSize \/ WaitTimesOut \/ WaitEnds \/ ReadPacket
  <2>1. playPc \notin {"none", "main", "sync"} /\ queue = <<playing>>
    BY <1>7 DEF CheckSize, WaitTimesOut, WaitEnds, ReadPacket, Control, PlayThread
  <2>2. \/ playPc' = "main" /\ playing' = NoStream
        \/ playPc' \in {"size", "wait", "timedOut", "read"} /\ playing' = playing
    <3>1. runPlay \in BOOLEAN
      BY DEF Control, ControlTypes
    <3> QED
      BY <1>7, <3>1, Continues DEF CheckSize, WaitTimesOut, WaitEnds, ReadPacket, EndLoop
  <2>3. playing' \in Ssrcs \cup {NoStream}
    BY <2>2 DEF Control, ControlTypes
  <2> QED
    BY <1>2, <1>3, <2>1, <2>2, <2>3
<1> QED
  BY <1>5, <1>6, <1>7 DEF Play

LEMMA DiesStep ==
  ASSUME Control, NullPacket \/ MapRace \/ DanglingBuffer
  PROVE  Control'
<1>1. Dies
  BY DEF NullPacket, MapRace, DanglingBuffer
<1> QED
  BY <1>1, DownStep DEF Dies, Left

-----------------------------------------------------------------------------
(* The theorems on the threads and the queue.                              *)

LEMMA InitControl == Init => Control
<1> SUFFICES ASSUME Init PROVE Control
  OBVIOUS
<1>1. ControlEvents
  <2>1. Len(<<>>) = 0 /\ 1 .. 0 = {}
    OBVIOUS
  <2>2. Base = <<>> /\ ctrl = <<>> /\ told = FALSE
    BY DEF Init, SourceInit, Base
  <2> QED
    BY <2>1, <2>2 DEF ControlEvents, After
<1>2. ControlTypes
  <2>1. <<>> \in Seq(Events)
    OBVIOUS
  <2> QED
    BY <2>1 DEF Init, SourceInit, Handling, Leaving, ControlTypes
<1>3. Alive /\ RecvThread /\ PlayThread
  BY DEF Init, SourceInit, Handling, Leaving, Alive, RecvThread, PlayThread
<1> QED
  BY <1>1, <1>2, <1>3 DEF Control

LEMMA NextControl == Control /\ [Next]_vars => Control'
<1> SUFFICES ASSUME Control, [Next]_vars PROVE Control'
  OBVIOUS
<1>1. CASE UNCHANGED vars
  BY <1>1, StillStep
<1>2. CASE \E s \in Ssrcs :
             ServerSyncs(s) \/ ServerResets(s) \/ ServerSends(s) \/ Lose(s) \/ ReceivePacket(s)
  BY <1>2, ServerStep, StillStep, RecvStep
<1>3. CASE Construct \/ LeaveSession \/ ReceiveSync \/ onResetStream
  BY <1>3, SessionStep, ReceiveSyncStep, onResetStreamStep
<1>4. CASE EventLoop
  BY <1>4, LoopStep, SessionStep DEF EventLoop
<1>5. CASE Recv \/ Play
  BY <1>5, RecvStep, PlayStep
<1>6. CASE NullPacket \/ MapRace \/ DanglingBuffer
  BY <1>6, DiesStep
<1> QED
  BY <1>1, <1>2, <1>3, <1>4, <1>5, <1>6 DEF Next

LEMMA ControlInvariant == Spec => []Control
  BY InitControl, NextControl, PTL DEF Spec

(***************************************************************************)
(* getSyncInfo's assertion holds: a play thread that has not been told to  *)
(* stop finds a stream in the queue (CMediaStreamConnection::getSyncInfo). *)
(***************************************************************************)
THEOREM SyncInfoFound == Spec => []SyncInfoThere
<1>1. Control => SyncInfoThere
  BY DEF Control, ControlTypes, PlayThread, SyncInfoThere
<1> QED
  BY ControlInvariant, <1>1, PTL

(***************************************************************************)
(* The event loop changes the queue, and what a play thread may hold, only *)
(* while there is no play thread (CMediaStreamConnection::onSyncInfo,      *)
(* onResetStream).                                                         *)
(***************************************************************************)
THEOREM QueueSafe == Spec => []QueueUndisturbed
<1>1. Control => QueueUndisturbed
  BY DEF Control, ControlTypes, PlayThread, QueueUndisturbed
<1> QED
  BY ControlInvariant, <1>1, PTL

(***************************************************************************)
(* What is played is the only stream the queue names: nothing is played of *)
(* a stream that was reset (Cplayloop::DoLoop).                            *)
(***************************************************************************)
THEOREM CurrentPlayed == Spec => []PlaysCurrent
<1>1. Control => PlaysCurrent
  BY DEF Control, PlayThread, PlaysCurrent
<1> QED
  BY ControlInvariant, <1>1, PTL

(***************************************************************************)
(* The destructor deletes the threads after both have ended                *)
(* (CMediaStreamConnection's destructor and stop).                         *)
(***************************************************************************)
THEOREM DeletedUnused == Spec => []NobodyUsesDeleted
<1>1. Control => NobodyUsesDeleted
  BY DEF Control, ControlTypes, Alive, RecvThread, PlayThread, NobodyUsesDeleted
<1> QED
  BY ControlInvariant, <1>1, PTL

-----------------------------------------------------------------------------
(* The map of buffers, and what else the threads keep.                     *)

MapOK ==
  /\ buffers \in Seq(Ssrcs) /\ IsInjective(buffers) /\ Len(buffers) <= NumSsrc
  /\ size \in [Ssrcs -> 0 .. MaxBuf]
  /\ \A s \in Ssrcs : size[s] > 0 => Buffered(s)
  /\ recvPc = "insert" => ~Buffered(received)
  /\ recvPc \in {"insert", "append", "signal"} => received \in Ssrcs

Others ==
  /\ net \subseteq Ssrcs /\ received \in Ssrcs \cup {NoStream}
  /\ phase \in {"first", "discard", "fill", "chunk"}
  /\ fails \in 0 .. MaxFails /\ decoded \in BOOLEAN /\ audio \in BOOLEAN

LEMMA EmptyMap ==
  /\ <<>> \in Seq(Ssrcs) /\ IsInjective(<<>>) /\ Len(<<>>) <= NumSsrc
  /\ [s \in Ssrcs |-> 0] \in [Ssrcs -> 0 .. MaxBuf]
<1>1. MaxBuf \in Nat /\ NumSsrc \in Nat
  BY ThreadsAssumption
<1>2. IsInjective(<<>>)
  BY DEF IsInjective
<1> QED
  BY <1>1, <1>2

LEMMA RemovedOne ==
  ASSUME NEW s \in Seq(Ssrcs), IsInjective(s), NEW i \in DOMAIN s
  PROVE  /\ RemoveAt(s, i) \in Seq(Ssrcs) /\ IsInjective(RemoveAt(s, i))
         /\ Len(RemoveAt(s, i)) = Len(s) - 1
         /\ Range(RemoveAt(s, i)) = Range(s) \ {s[i]}
<1>1. PICK n \in Nat : n = Len(s) /\ i \in 1 .. n /\ DOMAIN s = 1 .. n
  OBVIOUS
<1>2. PICK a : a = SubSeq(s, 1, i - 1)
  OBVIOUS
<1>3. PICK b : b = SubSeq(s, i + 1, n)
  OBVIOUS
<1>4. /\ a \in Seq(Ssrcs) /\ Len(a) = i - 1 /\ \A k \in 1 .. i - 1 : a[k] = s[k]
      /\ b \in Seq(Ssrcs) /\ Len(b) = n - i /\ \A k \in 1 .. n - i : b[k] = s[k + i]
  <2>1. i - 1 \in Int /\ i + 1 \in Int /\ n \in Int
    BY <1>1
  <2>2. /\ \A k \in 1 .. i - 1 : s[k] \in Ssrcs
        /\ \A k \in i + 1 .. n : s[k] \in Ssrcs
    BY <1>1
  <2>3. /\ a \in Seq(Ssrcs) /\ Len(a) = (IF 1 <= i - 1 THEN (i - 1) - 1 + 1 ELSE 0)
        /\ \A k \in 1 .. (i - 1) - 1 + 1 : a[k] = s[1 + k - 1]
    BY <1>2, <2>1, <2>2, SubSeqProperties
  <2>4. /\ b \in Seq(Ssrcs) /\ Len(b) = (IF i + 1 <= n THEN n - (i + 1) + 1 ELSE 0)
        /\ \A k \in 1 .. n - (i + 1) + 1 : b[k] = s[(i + 1) + k - 1]
    BY <1>3, <2>1, <2>2, SubSeqProperties
  <2>5. \A k \in 1 .. i - 1 : a[k] = s[k]
    <3> TAKE k \in 1 .. i - 1
    <3>1. k \in 1 .. (i - 1) - 1 + 1 /\ 1 + k - 1 = k
      BY <1>1
    <3> QED
      BY <2>3, <3>1
  <2>6. \A k \in 1 .. n - i : b[k] = s[k + i]
    <3> TAKE k \in 1 .. n - i
    <3>1. k \in 1 .. n - (i + 1) + 1 /\ (i + 1) + k - 1 = k + i
      BY <1>1
    <3> QED
      BY <2>4, <3>1
  <2>7. Len(a) = i - 1 /\ Len(b) = n - i
    BY <1>1, <2>3, <2>4
  <2> QED
    BY <2>3, <2>4, <2>5, <2>6, <2>7
<1>5. PICK r : r = RemoveAt(s, i)
  OBVIOUS
<1>6. r = a \o b
  BY <1>1, <1>2, <1>3, <1>5 DEF RemoveAt
<1>7. /\ r \in Seq(Ssrcs) /\ Len(r) = n - 1 /\ DOMAIN r = 1 .. n - 1
      /\ \A k \in 1 .. n - 1 : r[k] = IF k < i THEN a[k] ELSE b[k - (i - 1)]
  <2>1. a \in Seq(Ssrcs) /\ b \in Seq(Ssrcs)
    BY <1>4
  <2>2. Len(a) = i - 1 /\ Len(a) + Len(b) = n - 1
    <3>1. i \in Int /\ n \in Int
      BY <1>1
    <3>2. Len(a) = i - 1 /\ Len(b) = n - i
      BY <1>4
    <3> QED
      BY <3>1, <3>2
  <2>3. /\ r \in Seq(Ssrcs) /\ Len(r) = Len(a) + Len(b)
        /\ \A k \in 1 .. Len(a) + Len(b) : r[k] = IF k <= Len(a) THEN a[k] ELSE b[k - Len(a)]
    BY <1>6, <2>1, ConcatProperties
  <2>4. Len(r) = n - 1 /\ DOMAIN r = 1 .. n - 1
    BY <2>2, <2>3
  <2>5. \A k \in 1 .. n - 1 : (k <= i - 1) <=> (k < i)
    BY <1>1
  <2> QED
    BY <1>4, <2>2, <2>3, <2>4, <2>5
<1>8. \A k \in 1 .. n - 1 : r[k] = IF k < i THEN s[k] ELSE s[k + 1]
  <2> TAKE k \in 1 .. n - 1
  <2>1. CASE k < i
    <3>1. k \in 1 .. i - 1
      BY <1>1, <2>1
    <3>2. a[k] = s[k] /\ r[k] = a[k]
      BY <1>4, <1>7, <2>1, <3>1
    <3> QED
      BY <2>1, <3>2
  <2>2. CASE ~(k < i)
    <3>1. k - (i - 1) \in 1 .. n - i /\ (k - (i - 1)) + i = k + 1
      BY <1>1, <2>2
    <3>2. b[k - (i - 1)] = s[k + 1] /\ r[k] = b[k - (i - 1)]
      BY <1>4, <1>7, <2>2, <3>1
    <3> QED
      BY <2>2, <3>2
  <2> QED
    BY <2>1, <2>2
<1> DEFINE at(k) == IF k < i THEN k ELSE k + 1
<1>9. \A k \in 1 .. n - 1 : at(k) \in 1 .. n /\ at(k) # i /\ r[k] = s[at(k)]
  BY <1>1, <1>8
<1>10. \A k, l \in 1 .. n - 1 : at(k) = at(l) => k = l
  BY <1>1
<1>11. \A k \in 1 .. n : k # i => \E l \in 1 .. n - 1 : at(l) = k
  <2> SUFFICES ASSUME NEW k \in 1 .. n, k # i PROVE \E l \in 1 .. n - 1 : at(l) = k
    OBVIOUS
  <2>1. CASE k < i
    <3>1. k \in 1 .. n - 1 /\ at(k) = k
      BY <1>1, <2>1
    <3> QED
      BY <3>1
  <2>2. CASE k > i
    <3>1. k - 1 \in 1 .. n - 1 /\ at(k - 1) = k
      BY <1>1, <2>2
    <3> QED
      BY <3>1
  <2> QED
    BY <1>1, <2>1, <2>2
<1>12. \A x, y \in 1 .. n : s[x] = s[y] => x = y
  BY <1>1 DEF IsInjective
<1> HIDE DEF at
<1>13. IsInjective(r)
  <2> SUFFICES ASSUME NEW k \in 1 .. n - 1, NEW l \in 1 .. n - 1, r[k] = r[l] PROVE k = l
    BY <1>7 DEF IsInjective
  <2> QED
    BY <1>9, <1>10, <1>12
<1>14. Range(r) = {r[k] : k \in 1 .. n - 1} /\ Range(s) = {s[k] : k \in 1 .. n}
  BY <1>1, <1>7 DEF Range
<1>15. Range(r) \subseteq Range(s) \ {s[i]}
  <2> SUFFICES ASSUME NEW k \in 1 .. n - 1 PROVE r[k] \in Range(s) \ {s[i]}
    BY <1>14
  <2> QED
    BY <1>1, <1>9, <1>12, <1>14
<1>16. Range(s) \ {s[i]} \subseteq Range(r)
  <2> SUFFICES ASSUME NEW k \in 1 .. n, k # i PROVE s[k] \in Range(r)
    BY <1>14
  <2>1. PICK l \in 1 .. n - 1 : at(l) = k
    BY <1>11
  <2> QED
    BY <1>9, <1>14, <2>1
<1> QED
  BY <1>1, <1>5, <1>7, <1>13, <1>15, <1>16

LEMMA FirstRemoved ==
  ASSUME NEW s \in Seq(Ssrcs), IsInjective(s), s # <<>>
  PROVE  /\ Tail(s) \in Seq(Ssrcs) /\ IsInjective(Tail(s)) /\ Len(Tail(s)) = Len(s) - 1
         /\ Range(Tail(s)) = Range(s) \ {Head(s)} /\ Head(s) \in Ssrcs
<1>1. PICK n \in Nat : n = Len(s) /\ n > 0 /\ DOMAIN s = 1 .. n
  OBVIOUS
<1>2. PICK r : r = Tail(s)
  OBVIOUS
<1>3. /\ r \in Seq(Ssrcs) /\ DOMAIN r = 1 .. n - 1 /\ Len(r) = n - 1 /\ Head(s) = s[1]
      /\ \A k \in 1 .. n - 1 : r[k] = s[k + 1]
  BY <1>1, <1>2
<1>4. \A x, y \in 1 .. n : s[x] = s[y] => x = y
  BY <1>1 DEF IsInjective
<1>5. IsInjective(r)
  BY <1>1, <1>3, <1>4 DEF IsInjective
<1>6. Range(r) = {r[k] : k \in 1 .. n - 1} /\ Range(s) = {s[k] : k \in 1 .. n}
  BY <1>1, <1>3 DEF Range
<1>7. \A k \in 1 .. n - 1 : k + 1 \in 1 .. n /\ k + 1 # 1
  BY <1>1
<1>8. \A k \in 1 .. n - 1 : r[k] \in Range(s) \ {Head(s)}
  BY <1>1, <1>3, <1>4, <1>6, <1>7
<1>9. ASSUME NEW k \in 1 .. n, k # 1 PROVE s[k] \in Range(r)
  <2>1. k - 1 \in 1 .. n - 1 /\ r[k - 1] = s[k]
    BY <1>1, <1>3, <1>9
  <2> QED
    BY <1>6, <2>1
<1>10. Range(r) = Range(s) \ {Head(s)}
  <2>1. Range(r) \subseteq Range(s) \ {Head(s)}
    BY <1>6, <1>8
  <2>2. ASSUME NEW k \in 1 .. n, s[k] # Head(s) PROVE s[k] \in Range(r)
    BY <1>3, <1>9, <2>2
  <2>3. Range(s) \ {Head(s)} \subseteq Range(r)
    BY <1>6, <2>2
  <2> QED
    BY <2>1, <2>3
<1> QED
  BY <1>1, <1>2, <1>3, <1>5, <1>10

LEMMA NewOneAdded ==
  ASSUME NEW s \in Seq(Ssrcs), IsInjective(s), NEW x \in Ssrcs, x \notin Range(s)
  PROVE  /\ Append(s, x) \in Seq(Ssrcs) /\ IsInjective(Append(s, x))
         /\ Len(Append(s, x)) = Len(s) + 1 /\ Range(Append(s, x)) = Range(s) \cup {x}
<1>1. PICK n \in Nat : n = Len(s) /\ DOMAIN s = 1 .. n
  OBVIOUS
<1>2. PICK r : r = Append(s, x)
  OBVIOUS
<1>3. /\ r \in Seq(Ssrcs) /\ DOMAIN r = 1 .. n + 1 /\ Len(r) = n + 1 /\ r[n + 1] = x
      /\ \A k \in 1 .. n : r[k] = s[k]
  BY <1>1, <1>2, AppendWhat
<1>4. Range(r) = {r[k] : k \in 1 .. n + 1} /\ Range(s) = {s[k] : k \in 1 .. n}
  BY <1>1, <1>3 DEF Range
<1>5. \A i, j \in 1 .. n : s[i] = s[j] => i = j
  BY <1>1 DEF IsInjective
<1>6. \A k \in 1 .. n + 1 : k \in 1 .. n \/ k = n + 1
  BY <1>1
<1>7. IsInjective(r)
  <2> SUFFICES ASSUME NEW i \in 1 .. n + 1, NEW j \in 1 .. n + 1, r[i] = r[j] PROVE i = j
    BY <1>3 DEF IsInjective
  <2>1. \A k \in 1 .. n : r[k] # x
    BY <1>3, <1>4
  <2> QED
    BY <1>3, <1>5, <1>6, <2>1
<1>8. Range(r) = Range(s) \cup {x}
  <2>1. \A k \in 1 .. n : k \in 1 .. n + 1
    BY <1>1
  <2>2. n + 1 \in 1 .. n + 1
    BY <1>1
  <2> QED
    BY <1>3, <1>4, <1>6, <2>1, <2>2
<1> QED
  BY <1>1, <1>2, <1>3, <1>7, <1>8

LEMMA InsertBufferStep ==
  ASSUME Control, MapOK, InsertBuffer
  PROVE  MapOK'
<1>1. received \in Ssrcs /\ ~Buffered(received) /\ recvPc' = "append" /\ received' = received
  BY DEF InsertBuffer, MapOK
<1>2. NumSsrc \in Nat /\ NumSsrc > 1 /\ MaxBuf \in Nat
  BY ThreadsAssumption
<1>3. CASE Len(buffers) >= NumSsrc
  <2>1. buffers # <<>> /\ buffers \in Seq(Ssrcs) /\ IsInjective(buffers)
    BY <1>2, <1>3 DEF MapOK
  <2>2. PICK s : s = Tail(buffers)
    OBVIOUS
  <2>3. /\ s \in Seq(Ssrcs) /\ IsInjective(s) /\ Len(s) = Len(buffers) - 1
        /\ Range(s) = Range(buffers) \ {Head(buffers)} /\ Head(buffers) \in Ssrcs
    BY <2>1, <2>2, FirstRemoved
  <2>4. received \notin Range(s)
    BY <1>1, <2>3 DEF Buffered
  <2>5. buffers' = Append(s, received) /\ size' = [size EXCEPT ![Head(buffers)] = 0]
    BY <1>3, <2>2 DEF InsertBuffer
  <2>6. /\ buffers' \in Seq(Ssrcs) /\ IsInjective(buffers') /\ Len(buffers') = Len(s) + 1
        /\ Range(buffers') = Range(s) \cup {received}
    BY <1>1, <2>3, <2>4, <2>5, NewOneAdded
  <2>7. Len(buffers') <= NumSsrc
    BY <2>1, <2>3, <2>6 DEF MapOK
  <2>8. size' \in [Ssrcs -> 0 .. MaxBuf] /\ \A x \in Ssrcs : size'[x] > 0 => x \in Range(buffers')
    BY <1>2, <2>3, <2>5, <2>6 DEF MapOK, Buffered
  <2> QED
    BY <1>1, <2>6, <2>7, <2>8 DEF MapOK, Buffered
<1>4. CASE ~(Len(buffers) >= NumSsrc)
  <2>1. buffers \in Seq(Ssrcs) /\ IsInjective(buffers) /\ received \notin Range(buffers)
    BY <1>1 DEF MapOK, Buffered
  <2>2. buffers' = Append(buffers, received) /\ size' = size
    BY <1>4 DEF InsertBuffer
  <2>3. /\ buffers' \in Seq(Ssrcs) /\ IsInjective(buffers') /\ Len(buffers') = Len(buffers) + 1
        /\ Range(buffers') = Range(buffers) \cup {received}
    BY <1>1, <2>1, <2>2, NewOneAdded
  <2>4. Len(buffers') <= NumSsrc
    BY <1>2, <1>4, <2>1, <2>3
  <2>5. size' \in [Ssrcs -> 0 .. MaxBuf] /\ \A x \in Ssrcs : size'[x] > 0 => x \in Range(buffers')
    BY <2>2, <2>3 DEF MapOK, Buffered
  <2> QED
    BY <1>1, <2>3, <2>4, <2>5 DEF MapOK, Buffered
<1> QED
  BY <1>3, <1>4

LEMMA ClearErasesStep ==
  ASSUME Control, MapOK, ClearErases
  PROVE  MapOK'
<1>1. /\ handled \in Ssrcs /\ MaxBuf \in Nat /\ recvPc' = recvPc /\ received' = received
      /\ size' = [size EXCEPT ![handled] = 0]
  BY ThreadsAssumption DEF Control, Alive, Handling, ClearErases, recvVars
<1>2. /\ buffers' \in Seq(Ssrcs) /\ IsInjective(buffers') /\ Len(buffers') <= NumSsrc
      /\ Range(buffers') = Range(buffers) \ {handled}
  <2>1. CASE ~Buffered(handled) /\ UNCHANGED buffers
    BY <2>1 DEF MapOK, Buffered
  <2>2. ASSUME NEW i \in DOMAIN buffers, buffers[i] = handled, buffers' = RemoveAt(buffers, i)
        PROVE  /\ buffers' \in Seq(Ssrcs) /\ IsInjective(buffers') /\ Len(buffers') <= NumSsrc
               /\ Range(buffers') = Range(buffers) \ {handled}
    <3>1. buffers \in Seq(Ssrcs) /\ IsInjective(buffers) /\ Len(buffers) \in Nat
      BY DEF MapOK
    <3>2. /\ buffers' \in Seq(Ssrcs) /\ IsInjective(buffers')
          /\ Len(buffers') = Len(buffers) - 1 /\ Range(buffers') = Range(buffers) \ {handled}
      BY <2>2, <3>1, RemovedOne
    <3>3. NumSsrc \in Nat /\ Len(buffers) <= NumSsrc
      BY ThreadsAssumption DEF MapOK
    <3> QED
      BY <3>1, <3>2, <3>3
  <2> QED
    BY <2>1, <2>2 DEF ClearErases
<1> QED
  BY <1>1, <1>2 DEF MapOK, Buffered

LEMMA OthersStep ==
  ASSUME Control, MapOK, Others, [Next]_vars
  PROVE  Others'
<1>1. MaxFails \in Nat
  BY ThreadsAssumption
<1>2. CASE UNCHANGED vars
  BY <1>2 DEF Others, vars, envVars, recvVars, playVars
<1>3. CASE \E s \in Ssrcs :
             ServerSyncs(s) \/ ServerResets(s) \/ ServerSends(s) \/ Lose(s) \/ ReceivePacket(s)
  BY <1>3 DEF Others, ServerSyncs, ServerResets, ServerSends, Lose, ReceivePacket,
    unchangedPlayer, unchangedByRecv, recvVars, playVars
<1>4. CASE Construct \/ LeaveSession \/ ReceiveSync \/ onResetStream
  BY <1>4 DEF Others, Construct, LeaveSession, ReceiveSync, onResetStream, HandleEvent, envVars,
    recvVars, playVars
<1>5. CASE EventLoop
  <2>1. CASE Delete
    <3>1. /\ net' = net /\ received' = NoStream /\ phase' = "first" /\ fails' = 0
          /\ decoded' = FALSE /\ audio' = FALSE
      BY <2>1 DEF Delete, Down, envVars
    <3>2. 0 \in 0 .. MaxFails
      BY <1>1
    <3>3. net' \subseteq Ssrcs /\ received' \in Ssrcs \cup {NoStream}
      BY <3>1 DEF Others
    <3> QED
      BY <3>1, <3>2, <3>3, Zenon DEF Others
  <2>2. CASE RecvJoined \/ PlayJoined \/ onSyncInfo \/ PopSyncInfo \/ ClearDeletes \/ ClearErases
    <3>1. UNCHANGED <<net, received, phase, fails, decoded>> /\ audio' \in {audio, FALSE}
      BY <2>2 DEF RecvJoined, PlayJoined, onSyncInfo, PopSyncInfo, ClearDeletes, ClearErases,
        envVars, recvVars, playVars
    <3>2. audio' \in BOOLEAN
      BY <3>1, Zenon DEF Others
    <3> QED
      BY <3>1, <3>2, Zenon DEF Others
  <2> QED
    BY <1>5, <2>1, <2>2 DEF EventLoop
<1>6. CASE Recv
  <2>1. UNCHANGED <<net, phase, fails, decoded, audio>> /\ received' \in {received, NoStream}
    BY <1>6 DEF Recv, InsertBuffer, AppendPacket, Signal, RecvEnds, unchangedByRecv, playVars
  <2>2. net' \subseteq Ssrcs /\ received' \in Ssrcs \cup {NoStream}
    BY <2>1 DEF Others
  <2> QED
    BY <2>1, <2>2, Zenon DEF Others
<1>7. CASE Play
  <2>1. UNCHANGED <<net, received>>
    BY <1>7 DEF Play, PlayMain, getSyncInfo, CheckSize, WaitTimesOut, WaitEnds, ReadPacket,
      unchangedByPlay, envVars, recvVars
  <2>2. ASSUME NEW got \in BOOLEAN, Continue(got)
        PROVE  /\ phase' \in {"first", "discard", "fill", "chunk"} /\ fails' \in 0 .. MaxFails
               /\ audio' \in BOOLEAN
    <3>1. phase' \in {"first", "discard", "fill", "chunk"}
      BY <2>2 DEF Others, Continue, ReadIn, EndLoop
    <3>2. fails' \in {0, fails} \/ (fails' = fails + 1 /\ fails # MaxFails)
      BY <2>2 DEF Continue, EndLoop
    <3>3. fails' \in 0 .. MaxFails
      BY <1>1, <3>2 DEF Others
    <3>4. audio' = audio \/ audio' \in BOOLEAN
      <4>1. audio \in BOOLEAN /\ runPlay \in BOOLEAN
        BY DEF Others, Control, ControlTypes
      <4>2. CASE phase = "first" \/ phase = "discard"
        BY <2>2, <4>2 DEF Continue
      <4>3. CASE phase \in {"fill", "chunk"}
        <5>1. audio' = (phase' = "chunk") \/ audio' \in {audio, audio \/ runPlay}
          BY <2>2, <4>3 DEF Continue
        <5> QED
          BY <4>1, <5>1
      <4> QED
        BY <4>2, <4>3 DEF Others
    <3>5. audio' \in BOOLEAN
      BY <3>4 DEF Others
    <3> QED
      BY <3>1, <3>3, <3>5
  <2>3. runPlay \in BOOLEAN
    BY DEF Control, ControlTypes
  <2>4. CASE PlayMain \/ WaitTimesOut
    BY <2>1, <2>4 DEF Others, PlayMain, WaitTimesOut
  <2>5. CASE getSyncInfo
    <3>1. phase' \in {"first", "discard", "fill", "chunk"} /\ fails' \in {0, fails}
      BY <2>5 DEF getSyncInfo, EndLoop, ReadIn
    <3>2. fails' \in 0 .. MaxFails
      BY <1>1, <3>1 DEF Others
    <3>3. audio' \in {audio, FALSE} /\ decoded' = decoded
      BY <2>5 DEF getSyncInfo
    <3>4. audio' \in BOOLEAN /\ decoded' \in BOOLEAN
      BY <3>3, Zenon DEF Others
    <3>5. net' \subseteq Ssrcs /\ received' \in Ssrcs \cup {NoStream}
      BY <2>1 DEF Others
    <3> QED
      BY <3>1, <3>2, <3>4, <3>5, Zenon DEF Others
  <2>6. CASE CheckSize
    <3>1. phase' \in {"first", "discard", "fill", "chunk"} /\ fails' \in 0 .. MaxFails
      BY <2>2, <2>6 DEF Others, CheckSize
    <3>2. audio' \in BOOLEAN
      BY <2>2, <2>6 DEF Others, CheckSize
    <3>3. decoded' \in BOOLEAN
      BY <2>6, Zenon DEF Others, CheckSize
    <3>4. net' \subseteq Ssrcs /\ received' \in Ssrcs \cup {NoStream}
      BY <2>1 DEF Others
    <3> QED
      BY <3>1, <3>2, <3>3, <3>4, Zenon DEF Others
  <2>7. CASE WaitEnds
    BY <1>1, <2>1, <2>7 DEF Others, WaitEnds, EndLoop
  <2>8. CASE ReadPacket
    BY <2>1, <2>2, <2>3, <2>8 DEF Others, ReadPacket
  <2> QED
    BY <1>7, <2>4, <2>5, <2>6, <2>7, <2>8 DEF Play
<1>8. CASE NullPacket \/ MapRace \/ DanglingBuffer
  <2>1. /\ net' = net /\ received' = NoStream /\ phase' = "first" /\ fails' = 0
        /\ decoded' = FALSE /\ audio' = FALSE
    BY <1>8 DEF NullPacket, MapRace, DanglingBuffer, Dies, Down
  <2>2. 0 \in 0 .. MaxFails
    BY <1>1
  <2>3. net' \subseteq Ssrcs /\ received' \in Ssrcs \cup {NoStream}
    BY <2>1 DEF Others
  <2> QED
    BY <2>1, <2>2, <2>3, Zenon DEF Others
<1> QED
  BY <1>2, <1>3, <1>4, <1>5, <1>6, <1>7, <1>8 DEF Next

LEMMA MapStep ==
  ASSUME Control, MapOK, Others, [Next]_vars
  PROVE  MapOK'
<1>1. MaxBuf \in Nat /\ NumSsrc \in Nat
  BY ThreadsAssumption
<1>2. ASSUME UNCHANGED <<recvVars, mapVars>> PROVE MapOK'
  BY <1>2 DEF MapOK, recvVars, mapVars, Buffered
<1>3. ASSUME Down PROVE MapOK'
  <2>1. /\ buffers' = <<>> /\ size' = [s \in Ssrcs |-> 0] /\ recvPc' = "none"
    BY <1>3 DEF Down
  <2> QED
    BY <2>1, EmptyMap DEF MapOK
<1>4. CASE UNCHANGED vars
  BY <1>2, <1>4 DEF vars
<1>5. CASE \E s \in Ssrcs : ServerSyncs(s) \/ ServerResets(s) \/ ServerSends(s) \/ Lose(s)
  BY <1>2, <1>5 DEF ServerSyncs, ServerResets, ServerSends, Lose, unchangedPlayer
<1>6. CASE \E s \in Ssrcs : ReceivePacket(s)
  BY <1>6 DEF ReceivePacket, MapOK, mapVars, Buffered
<1>7. CASE Construct \/ LeaveSession \/ ReceiveSync \/ onResetStream
  <2>1. CASE Construct
    BY <2>1 DEF Construct, MapOK, mapVars, Buffered
  <2>2. CASE LeaveSession \/ ReceiveSync \/ onResetStream
    BY <1>2, <2>2 DEF LeaveSession, ReceiveSync, onResetStream, HandleEvent
  <2> QED
    BY <1>7, <2>1, <2>2
<1>8. CASE EventLoop
  BY <1>2, <1>3, <1>8, ClearErasesStep
  DEF EventLoop, RecvJoined, PlayJoined, Delete, onSyncInfo, PopSyncInfo, ClearDeletes
<1>9. CASE Recv
  <2>1. CASE AppendPacket
    <3>1. received \in Ssrcs /\ recvPc' = "signal" /\ UNCHANGED <<received, buffers>>
      BY <2>1 DEF AppendPacket, MapOK
    <3>2. CASE UNCHANGED size
      BY <3>1, <3>2 DEF MapOK, Buffered
    <3>3. CASE ~UNCHANGED size
      <4>1. /\ Buffered(received) /\ size[received] < MaxBuf
            /\ size' = [size EXCEPT ![received] = @ + 1]
        BY <2>1, <3>3 DEF AppendPacket, Valid
      <4> QED
        BY <1>1, <3>1, <4>1 DEF MapOK, Buffered
    <3> QED
      BY <3>2, <3>3
  <2>2. CASE Signal \/ RecvEnds
    BY <2>2 DEF Signal, RecvEnds, MapOK, mapVars, Buffered
  <2> QED
    BY <1>9, <2>1, <2>2, InsertBufferStep DEF Recv
<1>10. CASE Play
  <2>1. CASE ReadPacket
    <3>1. PICK s \in Ssrcs : playing = s
      BY <2>1 DEF ReadPacket, Control, ControlTypes, PlayThread
    <3> QED
      BY <1>1, <2>1, <3>1
      DEF ReadPacket, MapOK, unchangedByPlay, recvVars, Buffered
  <2>2. CASE PlayMain \/ getSyncInfo \/ CheckSize \/ WaitTimesOut \/ WaitEnds
    BY <1>2, <2>2 DEF PlayMain, getSyncInfo, CheckSize, WaitTimesOut, WaitEnds, unchangedByPlay
  <2> QED
    BY <1>10, <2>1, <2>2 DEF Play
<1>11. CASE NullPacket \/ MapRace \/ DanglingBuffer
  BY <1>3, <1>11 DEF NullPacket, MapRace, DanglingBuffer, Dies
<1> QED
  BY <1>4, <1>5, <1>6, <1>7, <1>8, <1>9, <1>10, <1>11 DEF Next

(***************************************************************************)
(* Every variable keeps to its type: the map of buffers has no source      *)
(* twice and no more than NumSsrc, packets are only in buffers of the map  *)
(* (CPacketRingBuffer::appendRTPPacket, eraseOldestInactiveSSRC).          *)
(***************************************************************************)
THEOREM TypeCorrect == Spec => []TypeOK
<1>1. Init => MapOK /\ Others
  <2> SUFFICES ASSUME Init PROVE MapOK /\ Others
    OBVIOUS
  <2>1. MaxFails \in Nat
    BY ThreadsAssumption
  <2>2. MapOK
    BY EmptyMap DEF Init, MapOK
  <2>3. 0 \in 0 .. MaxFails
    BY <2>1
  <2>4. Others
    BY <2>3, Zenon DEF Init, Others
  <2> QED
    BY <2>2, <2>4
<1>2. Control /\ MapOK /\ Others /\ [Next]_vars => MapOK' /\ Others'
  BY MapStep, OthersStep
<1>3. Control /\ MapOK /\ Others => TypeOK
  <2> SUFFICES ASSUME Control, MapOK, Others PROVE TypeOK
    OBVIOUS
  <2>1. queue \in Seq(Ssrcs) /\ Len(queue) < MaxSyncInfos
    <3>1. MaxSyncInfos \in Nat /\ MaxSyncInfos > 1
      BY ThreadsAssumption
    <3>2. CASE queue = <<>>
      BY <3>1, <3>2
    <3>3. ASSUME NEW s \in Ssrcs, queue = <<s>>
          PROVE  queue \in Seq(Ssrcs) /\ Len(queue) < MaxSyncInfos
      BY <3>1, <3>3
    <3> QED
      BY <3>2, <3>3 DEF Control, ControlTypes
  <2> QED
    BY <2>1 DEF Control, ControlTypes, Handling, Leaving, MapOK, Others, TypeOK
<1> QED
  BY ControlInvariant, <1>1, <1>2, <1>3, PTL DEF Spec
=============================================================================
