------------------------- MODULE MediaProviderProofs -------------------------
(***************************************************************************)
(* Proofs about MediaProvider, for any number of members, streams and      *)
(* posted ends: the decoder's thread finds the provider open, its packets  *)
(* follow the syncs, and what each member is told is StreamSource.         *)
(***************************************************************************)
EXTENDS MediaProvider, TLAPS

Types ==
  /\ joined \subseteq Clients /\ streams \subseteq Clients /\ todo \subseteq Clients
  /\ mutex \in {"free", "decoder", "lost"}
  /\ ssrc \in Ssrcs \cup {NoStream}
  /\ dec \in {"null", "failed", "open", "closed"}
  /\ decPc \in {"none", "decode", "write", "send", "use", "report", "ended"}
  /\ using \in Clients \cup {NoClient}
  /\ loopPc \in {"idle", "add", "remove", "flush", "join", "joinEnd", "close", "new", "open"}
  /\ job \in {"play", "stop"} /\ member \in Clients \cup {NoClient}
  /\ latest \in [Clients -> Ssrcs \cup {NoStream}] /\ told \in [Clients -> BOOLEAN]

Flags == valid \in BOOLEAN /\ isOpen \in BOOLEAN /\ cancel \in BOOLEAN

\* While the thread runs there is a decoder, the provider is open, and what the
\* members were told last is the stream that it writes.
Thread ==
  /\ decPc # "none" =>
       /\ dec = "open" /\ isOpen /\ valid
       /\ loopPc \notin {"close", "new", "open"}
       /\ \A c \in joined : latest[c] = ssrc
  /\ valid => ssrc \in Ssrcs

\* The thread has the mutex while it sends, to members on the list.
Sends ==
  /\ mutex = "decoder" <=> decPc \in {"send", "use"}
  /\ decPc \in {"send", "use"} => todo \subseteq joined
  /\ decPc = "use" => using \in joined

\* What the event loop has done of a request.
Stages ==
  /\ loopPc = "add" => member \in Clients \ joined
  /\ loopPc = "remove" => member \in Clients
  /\ loopPc \in {"join", "joinEnd", "open"} => dec = "open"
  /\ loopPc \in {"close", "new"} => dec = "null"
  /\ loopPc \in {"new", "open"} => job = "play"
  /\ dec = "null" /\ valid => loopPc = "close"

\* Who was told of a stream, and was not told of its reset, is a member and has
\* heard of the latest one.
Promise ==
  /\ \A c \in Clients : told[c] => c \in joined /\ latest[c] = ssrc /\ dec # "null"
  /\ loopPc \in {"join", "open"} => \A c \in Clients : ~told[c]

\* A thread that has not ended may post the end of its stream.
Pending == IF decPc \in {"decode", "write", "send", "use", "report"} THEN 1 ELSE 0

Posts ==
  /\ posted \in Nat
  /\ posted + Pending <= MaxPosted + 2
  /\ job = "play" /\ loopPc \in {"flush", "join", "close", "new", "open"} =>
       posted + Pending <= MaxPosted + 1

IInv == Types /\ Thread /\ Sends /\ Stages /\ Promise

LEMMA TypesStep ==
  ASSUME Types, Stages, [Next]_vars
  PROVE  Types'
<1>1. CASE UNCHANGED vars
  BY <1>1 DEF Types, vars, provVars, threadVars, loopVars, history
<1>2. ASSUME NEW c \in Clients, BecomesMember(c) \/ LeavesSession(c) \/ Disconnects(c)
      PROVE  Types'
  BY <1>2 DEF Types, BecomesMember, LeavesSession, Disconnects, provVars, threadVars, history
<1>3. CASE UserPlays \/ UserStops \/ onEndOfStream
  BY <1>3 DEF Types, UserPlays, UserStops, onEndOfStream, provVars, threadVars, history
<1>4. CASE addJoinedConnection
  BY <1>4 DEF Types, Stages, addJoinedConnection, SendSync, Idle, threadVars, history
<1>5. CASE removeJoinedConnection
  BY <1>5 DEF Types, removeJoinedConnection, Idle, threadVars
<1>6. CASE flush
  BY <1>6 DEF Types, flush, SendReset, AfterFlush, provVars
<1>7. CASE DecoderJoined \/ close \/ NewDecoder
  BY <1>7 DEF Types, DecoderJoined, close, NewDecoder, Idle, provVars, threadVars, history
<1>8. CASE open
  BY <1>8 DEF Types, open, SendSync, Idle
<1>9. CASE SendThrows
  BY <1>9 DEF Types, SendThrows, SendReset, SendSync, Idle, threadVars
<1>10. CASE Decoder
  BY <1>10 DEF Types, Decoder, Decode, Write, NextMember, SendPacket, PacketSent,
    reportEndOfStream, unchangedByDecoder, loopVars, history
<1>11. CASE LateEndOfStream \/ AddThrows \/ DanglingStream
  BY <1>11 DEF Types, LateEndOfStream, AddThrows, DanglingStream, Dies
<1> QED
  BY <1>1, <1>2, <1>3, <1>4, <1>5, <1>6, <1>7, <1>8, <1>9, <1>10, <1>11 DEF Next, EventLoop

LEMMA ThreadStep ==
  ASSUME IInv, [Next]_vars
  PROVE  Thread'
<1> USE DEF IInv
<1>1. CASE UNCHANGED vars
  BY <1>1 DEF Thread, vars, provVars, threadVars, loopVars, history
<1>2. ASSUME NEW c \in Clients, BecomesMember(c) \/ LeavesSession(c) \/ Disconnects(c)
      PROVE  Thread'
  BY <1>2 DEF Thread, BecomesMember, LeavesSession, Disconnects, provVars, threadVars, history
<1>3. CASE UserPlays \/ UserStops \/ onEndOfStream
  BY <1>3 DEF Thread, UserPlays, UserStops, onEndOfStream, provVars, threadVars, history
<1>4. CASE addJoinedConnection
  BY <1>4 DEF Types, Thread, Stages, addJoinedConnection, SendSync, Idle, threadVars, history
<1>5. CASE removeJoinedConnection
  BY <1>5 DEF Types, Thread, removeJoinedConnection, Idle, threadVars
<1>6. CASE flush
  BY <1>6 DEF Thread, flush, SendReset, AfterFlush, provVars
<1>7. CASE DecoderJoined \/ close \/ NewDecoder
  BY <1>7 DEF Thread, DecoderJoined, close, NewDecoder, Idle, provVars, threadVars, history
<1>8. CASE open
  BY <1>8 DEF Types, Thread, Stages, open, SendSync, Idle
<1>9. CASE SendThrows
  BY <1>9 DEF Types, Thread, SendThrows, SendReset, SendSync, Idle, threadVars
<1>10. CASE Decoder
  BY <1>10 DEF Thread, Decoder, Decode, Write, NextMember, SendPacket, PacketSent,
    reportEndOfStream, unchangedByDecoder, loopVars, history
<1>11. CASE LateEndOfStream \/ AddThrows \/ DanglingStream
  BY <1>11 DEF Thread, LateEndOfStream, AddThrows, DanglingStream, Dies
<1> QED
  BY <1>1, <1>2, <1>3, <1>4, <1>5, <1>6, <1>7, <1>8, <1>9, <1>10, <1>11 DEF Next, EventLoop

LEMMA SendsStep ==
  ASSUME IInv, [Next]_vars
  PROVE  Sends'
<1> USE DEF IInv
<1>1. CASE UNCHANGED vars
  BY <1>1 DEF Sends, vars, provVars, threadVars, loopVars, history
<1>2. ASSUME NEW c \in Clients, BecomesMember(c) \/ LeavesSession(c) \/ Disconnects(c)
      PROVE  Sends'
  BY <1>2 DEF Sends, BecomesMember, LeavesSession, Disconnects, provVars, threadVars, history
<1>3. CASE UserPlays \/ UserStops \/ onEndOfStream
  BY <1>3 DEF Sends, UserPlays, UserStops, onEndOfStream, provVars, threadVars, history
<1>4. CASE addJoinedConnection \/ removeJoinedConnection
  BY <1>4 DEF Sends, addJoinedConnection, removeJoinedConnection, threadVars
<1>5. CASE flush \/ DecoderJoined \/ close \/ NewDecoder
  BY <1>5 DEF Sends, flush, AfterFlush, DecoderJoined, close, NewDecoder, provVars, threadVars
<1>6. CASE open \/ SendThrows
  BY <1>6 DEF Sends, open, SendThrows, threadVars
<1>7. CASE Decoder
  BY <1>7 DEF Types, Sends, Decoder, Decode, Write, NextMember, SendPacket, PacketSent,
    reportEndOfStream, unchangedByDecoder
<1>8. CASE LateEndOfStream \/ AddThrows \/ DanglingStream
  BY <1>8 DEF Sends, LateEndOfStream, AddThrows, DanglingStream, Dies
<1> QED
  BY <1>1, <1>2, <1>3, <1>4, <1>5, <1>6, <1>7, <1>8 DEF Next, EventLoop

LEMMA StagesStep ==
  ASSUME IInv, [Next]_vars
  PROVE  Stages'
<1> USE DEF IInv
<1>1. CASE UNCHANGED vars
  BY <1>1 DEF Stages, vars, provVars, threadVars, loopVars
<1>2. ASSUME NEW c \in Clients, BecomesMember(c) \/ LeavesSession(c) \/ Disconnects(c)
      PROVE  Stages'
  BY <1>2 DEF Stages, BecomesMember, LeavesSession, Disconnects, provVars, threadVars
<1>3. CASE UserPlays \/ UserStops \/ onEndOfStream
  BY <1>3 DEF Stages, UserPlays, UserStops, onEndOfStream, provVars, threadVars
<1>4. CASE addJoinedConnection \/ removeJoinedConnection
  BY <1>4 DEF Stages, addJoinedConnection, removeJoinedConnection, Idle, threadVars
<1>5. CASE flush \/ DecoderJoined
  BY <1>5 DEF Stages, flush, AfterFlush, DecoderJoined, Idle, provVars, threadVars
<1>6. CASE close \/ NewDecoder
  BY <1>6 DEF Types, Stages, close, NewDecoder, provVars, threadVars
<1>7. CASE open \/ SendThrows
  BY <1>7 DEF Stages, open, SendThrows, Idle, threadVars
<1>8. CASE Decoder
  BY <1>8 DEF Stages, Decoder, Decode, Write, NextMember, SendPacket, PacketSent,
    reportEndOfStream, unchangedByDecoder, loopVars
<1>9. CASE LateEndOfStream \/ AddThrows \/ DanglingStream
  BY <1>9 DEF Stages, LateEndOfStream, AddThrows, DanglingStream, Dies
<1> QED
  BY <1>1, <1>2, <1>3, <1>4, <1>5, <1>6, <1>7, <1>8, <1>9 DEF Next, EventLoop

LEMMA PromiseStep ==
  ASSUME IInv, [Next]_vars
  PROVE  Promise'
<1> USE DEF IInv
<1>1. CASE UNCHANGED vars
  BY <1>1 DEF Promise, vars, provVars, threadVars, loopVars, history
<1>2. ASSUME NEW c \in Clients, BecomesMember(c) \/ LeavesSession(c) \/ Disconnects(c)
      PROVE  Promise'
  BY <1>2 DEF Promise, BecomesMember, LeavesSession, Disconnects, provVars, threadVars, history
<1>3. CASE UserPlays \/ UserStops \/ onEndOfStream
  BY <1>3 DEF Promise, UserPlays, UserStops, onEndOfStream, provVars, threadVars, history
<1>4. CASE addJoinedConnection
  BY <1>4 DEF Types, Stages, Promise, addJoinedConnection, SendSync, Idle, threadVars, history
<1>5. CASE removeJoinedConnection
  BY <1>5 DEF Types, Stages, Promise, removeJoinedConnection, Idle, threadVars
<1>6. CASE flush
  BY <1>6 DEF Types, Promise, flush, SendReset, AfterFlush, provVars
<1>7. CASE DecoderJoined \/ close \/ NewDecoder
  BY <1>7 DEF Stages, Promise, DecoderJoined, close, NewDecoder, Idle, provVars, threadVars, history
<1>8. CASE open
  BY <1>8 DEF Types, Stages, Promise, open, SendSync, Idle
<1>9. CASE SendThrows
  BY <1>9 DEF Types, Stages, Promise, SendThrows, SendReset, SendSync, Idle, threadVars
<1>10. CASE Decoder
  BY <1>10 DEF Promise, Decoder, Decode, Write, NextMember, SendPacket, PacketSent,
    reportEndOfStream, unchangedByDecoder, loopVars, history
<1>11. CASE LateEndOfStream \/ AddThrows \/ DanglingStream
  BY <1>11 DEF Promise, LateEndOfStream, AddThrows, DanglingStream, Dies
<1> QED
  BY <1>1, <1>2, <1>3, <1>4, <1>5, <1>6, <1>7, <1>8, <1>9, <1>10, <1>11 DEF Next, EventLoop

LEMMA InvariantHolds == Spec => []IInv
<1>1. Init => IInv
  BY DEF Init, IInv, Types, Thread, Sends, Stages, Promise
<1>2. IInv /\ [Next]_vars => IInv'
  BY TypesStep, ThreadStep, SendsStep, StagesStep, PromiseStep DEF IInv
<1> QED
  BY <1>1, <1>2, PTL DEF Spec

(***************************************************************************)
(* The assertions of write and sendPacket hold: a thread with audio to     *)
(* write finds the provider open (CppServer::stopStream joins the decoder  *)
(* before it closes the provider).                                         *)
(***************************************************************************)
THEOREM FoundOpen == Spec => []WriterFindsOpen
<1>1. IInv => WriterFindsOpen
  BY DEF IInv, Thread, WriterFindsOpen
<1> QED
  BY InvariantHolds, <1>1, PTL

(***************************************************************************)
(* A packet goes only to members whose last evSyncStream names its source  *)
(* (CMediaStreamProvider::sendPacket, addJoinedConnection).                *)
(***************************************************************************)
THEOREM PacketsFollow == Spec => []PacketsFollowSync
<1>1. IInv => PacketsFollowSync
  BY DEF IInv, Thread, Sends, PacketsFollowSync, Source!MayBeSent
<1> QED
  BY InvariantHolds, <1>1, PTL

LEMMA FlagsStep ==
  ASSUME Flags, [Next]_vars
  PROVE  Flags'
<1>1. CASE UNCHANGED vars
  BY <1>1 DEF Flags, vars, provVars, threadVars
<1>2. ASSUME NEW c \in Clients, BecomesMember(c) \/ LeavesSession(c) \/ Disconnects(c)
      PROVE  Flags'
  BY <1>2 DEF Flags, BecomesMember, LeavesSession, Disconnects, provVars, threadVars
<1>3. CASE UserPlays \/ UserStops \/ onEndOfStream
  BY <1>3 DEF Flags, UserPlays, UserStops, onEndOfStream, provVars, threadVars
<1>4. CASE EventLoop
  BY <1>4 DEF Flags, EventLoop, addJoinedConnection, removeJoinedConnection, flush, AfterFlush,
    DecoderJoined, close, NewDecoder, open, provVars, threadVars
<1>5. CASE SendThrows
  BY <1>5 DEF Flags, SendThrows, threadVars
<1>6. CASE Decoder
  BY <1>6 DEF Flags, Decoder, Decode, Write, NextMember, SendPacket, PacketSent,
    reportEndOfStream, unchangedByDecoder
<1>7. CASE LateEndOfStream \/ AddThrows \/ DanglingStream
  BY <1>7 DEF Flags, LateEndOfStream, AddThrows, DanglingStream, Dies
<1> QED
  BY <1>1, <1>2, <1>3, <1>4, <1>5, <1>6, <1>7 DEF Next

LEMMA PostsStep ==
  ASSUME IInv, Posts, [Next]_vars
  PROVE  Posts'
<1>1. MaxPosted \in Nat /\ posted \in Nat /\ Pending \in 0 .. 1
  BY ProviderAssumption DEF Posts, Pending
<1>2. CASE UNCHANGED vars
  BY <1>2 DEF Posts, Pending, vars, threadVars, loopVars
<1>3. ASSUME NEW c \in Clients, BecomesMember(c) \/ LeavesSession(c) \/ Disconnects(c)
      PROVE  Posts'
  BY <1>1, <1>3 DEF Posts, Pending, BecomesMember, LeavesSession, Disconnects, threadVars
<1>4. CASE UserPlays \/ UserStops \/ onEndOfStream
  BY <1>1, <1>4 DEF Posts, Pending, UserPlays, UserStops, onEndOfStream, threadVars
<1>5. CASE addJoinedConnection \/ removeJoinedConnection
  BY <1>1, <1>5
  DEF Posts, Pending, addJoinedConnection, removeJoinedConnection, Idle, threadVars
<1>6. CASE flush
  BY <1>1, <1>6 DEF Posts, Pending, flush, AfterFlush
<1>7. CASE DecoderJoined
  BY <1>1, <1>7 DEF Posts, Pending, DecoderJoined, Idle
<1>8. CASE close \/ NewDecoder
  BY <1>1, <1>8 DEF Posts, Pending, close, NewDecoder, threadVars
<1>9. CASE open
  <2>1. decPc = "none" /\ job = "play"
    BY <1>9 DEF IInv, Thread, Stages, open
  <2> QED
    BY <1>1, <1>9, <2>1 DEF Posts, Pending, open, Idle
<1>10. CASE SendThrows
  BY <1>1, <1>10 DEF Posts, Pending, SendThrows, Idle, threadVars
<1>11. CASE Decoder
  <2>1. CASE reportEndOfStream
    BY <1>1, <2>1 DEF Posts, Pending, reportEndOfStream, unchangedByDecoder, loopVars
  <2>2. CASE Decode \/ Write \/ (\E c \in Clients : NextMember(c)) \/ SendPacket \/ PacketSent
    <3>1. Pending' \in {0, Pending} /\ UNCHANGED <<posted, job, loopPc>>
      BY <2>2 DEF Pending, Decode, Write, NextMember, SendPacket, PacketSent,
        unchangedByDecoder, loopVars
    <3>2. PICK n \in Nat : n = Pending
      BY <1>1
    <3>3. PICK k \in Nat : k = Pending' /\ k <= n
      BY <1>1, <3>1, <3>2
    <3>4. posted' = posted /\ job' = job /\ loopPc' = loopPc
      BY <3>1
    <3>5. /\ posted + n <= MaxPosted + 2
          /\ job = "play" /\ loopPc \in {"flush", "join", "close", "new", "open"} =>
               posted + n <= MaxPosted + 1
      BY <3>2 DEF Posts
    <3>6. posted \in Nat /\ MaxPosted \in Nat /\ k <= n
      BY <1>1, <3>3
    <3>7. /\ posted + k <= MaxPosted + 2
          /\ job = "play" /\ loopPc \in {"flush", "join", "close", "new", "open"} =>
               posted + k <= MaxPosted + 1
      BY <3>5, <3>6
    <3> QED
      BY <3>4, <3>6, <3>7, <3>3 DEF Posts
  <2> QED
    BY <1>11, <2>1, <2>2 DEF Decoder
<1>12. CASE LateEndOfStream \/ AddThrows \/ DanglingStream
  BY <1>1, <1>12 DEF Posts, Pending, LateEndOfStream, AddThrows, DanglingStream, Dies
<1> QED
  BY <1>2, <1>3, <1>4, <1>5, <1>6, <1>7, <1>8, <1>9, <1>10, <1>11, <1>12 DEF Next, EventLoop

(***************************************************************************)
(* Every variable keeps to its type; a decoder posts the end of its stream *)
(* once, so that the event loop never has more than MaxPosted + 2 of them  *)
(* (CStreamDecoder::decodingLoop, CppServer::reportEndOfStream).           *)
(***************************************************************************)
THEOREM TypeCorrect == Spec => []TypeOK
<1>1. Init => Flags /\ Posts
  <2> SUFFICES ASSUME Init PROVE Flags /\ Posts
    OBVIOUS
  <2>1. Flags
    BY Zenon DEF Init, Flags
  <2>2. Posts
    BY ProviderAssumption DEF Init, Posts, Pending
  <2> QED
    BY <2>1, <2>2
<1>2. IInv /\ Flags /\ Posts /\ [Next]_vars => Flags' /\ Posts'
  BY FlagsStep, PostsStep
<1>3. IInv /\ Flags /\ Posts => TypeOK
  <2> SUFFICES ASSUME IInv, Flags, Posts PROVE TypeOK
    OBVIOUS
  <2>1. posted \in 0 .. MaxPosted + 2
    BY ProviderAssumption DEF Posts, Pending
  <2>2. valid \in BOOLEAN /\ isOpen \in BOOLEAN /\ cancel \in BOOLEAN
    BY DEF Flags
  <2> QED
    BY <2>1, <2>2, Zenon DEF IInv, Types, TypeOK
<1> QED
  BY InvariantHolds, <1>1, <1>2, <1>3, PTL DEF Spec

\* What a step of the server is for one of its clients.
SourceStep(c) == [Source(c)!SourceNext]_<<latest[c], told[c]>>

LEMMA StepIsSourceStep ==
  ASSUME IInv, [Next]_vars, NEW c \in Clients
  PROVE  SourceStep(c)
<1> USE DEF SourceStep, Source!SourceNext
<1>1. ASSUME UNCHANGED history PROVE SourceStep(c)
  BY <1>1 DEF history
<1>2. ASSUME Dies PROVE SourceStep(c)
  BY <1>2 DEF Dies, Source!Left
<1>3. ASSUME NEW cs, SendReset(cs) PROVE SourceStep(c)
  BY <1>3 DEF IInv, Types, SendReset, Source!Reset
<1>4. ASSUME NEW cs, NEW s \in Ssrcs, SendSync(cs, s), c \in cs => ~told[c] PROVE SourceStep(c)
  BY <1>4 DEF IInv, Types, SendSync, Source!Sync
<1>5. CASE addJoinedConnection
  <2>1. CASE valid
    <3>1. SendSync({member}, ssrc) /\ ssrc \in Ssrcs /\ member \in Clients \ joined
      BY <1>5, <2>1 DEF addJoinedConnection, IInv, Thread, Stages
    <3>2. ~told[member]
      BY <3>1 DEF IInv, Promise
    <3> QED
      BY <1>4, <3>1, <3>2
  <2>2. CASE ~valid
    BY <1>1, <1>5, <2>2 DEF addJoinedConnection
  <2> QED
    BY <2>1, <2>2
<1>6. CASE removeJoinedConnection
  BY <1>6 DEF removeJoinedConnection, IInv, Types, Source!Left
<1>7. CASE flush
  BY <1>3, <1>7 DEF flush
<1>8. CASE open
  BY <1>4, <1>8 DEF open, IInv, Promise
<1>9. CASE SendThrows
  BY <1>3, <1>4, <1>9 DEF SendThrows, IInv, Promise
<1>10. CASE LateEndOfStream \/ AddThrows \/ DanglingStream
  BY <1>2, <1>10 DEF LateEndOfStream, AddThrows, DanglingStream
<1>11. CASE UNCHANGED vars
  BY <1>1, <1>11 DEF vars
<1>12. CASE \E b \in Clients : BecomesMember(b) \/ LeavesSession(b) \/ Disconnects(b)
  BY <1>1, <1>12 DEF BecomesMember, LeavesSession, Disconnects
<1>13. CASE UserPlays \/ UserStops \/ onEndOfStream \/ DecoderJoined \/ close \/ NewDecoder
  BY <1>1, <1>13 DEF UserPlays, UserStops, onEndOfStream, DecoderJoined, close, NewDecoder
<1>14. CASE Decoder
  BY <1>1, <1>14 DEF Decoder, Decode, Write, NextMember, SendPacket, PacketSent,
    reportEndOfStream, unchangedByDecoder
<1> QED
  BY <1>5, <1>6, <1>7, <1>8, <1>9, <1>10, <1>11, <1>12, <1>13, <1>14 DEF Next, EventLoop

(***************************************************************************)
(* MediaProvider implements StreamSource for each of its clients: two      *)
(* syncs of a member are parted by a reset, which names the stream of the  *)
(* last sync (CMediaStreamProvider::open, addJoinedConnection, flush,      *)
(* removeJoinedConnection).                                                *)
(***************************************************************************)
THEOREM SourceImplemented == Spec => ImplementsSource
<1>1. Init => \A c \in Clients : Source(c)!SourceInit
  BY DEF Init, Source!SourceInit
<1>2. IInv /\ [Next]_vars => [\A c \in Clients : SourceStep(c)]_history
  BY StepIsSourceStep
<1>3. IInv /\ [Next]_vars =>
        [\A c \in Clients : [Source(c)!SourceNext]_<<latest[c], told[c]>>]_history
  BY <1>2 DEF SourceStep
<1> QED
  BY InvariantHolds, <1>1, <1>3, PTL DEF Spec, ImplementsSource
===============================================================================
