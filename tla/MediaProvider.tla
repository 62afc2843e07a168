---------------------------- MODULE MediaProvider ----------------------------
(***************************************************************************)
(* The stream side of a server: CppServer plays and stops streams in its   *)
(* event loop, the thread of a CStreamDecoder writes the decoded audio,    *)
(* CMediaStreamProvider sends both to the members of the session.  The     *)
(* list of members has a mutex that both threads take; the stream          *)
(* connections of the members have none.                                   *)
(*                                                                         *)
(* Members come and go as StreamServer says; here they just do.  Audio,    *)
(* time stamps, sequence numbers (PacketRing) and progress reports are     *)
(* left out.                                                               *)
(***************************************************************************)
EXTENDS Naturals, FiniteSets

CONSTANTS
  Clients,    \* control connections to players
  Ssrcs,      \* random numbers that become the sources of streams
  NoStream,   \* no source
  NoClient,   \* no control connection
  MaxPosted   \* bound: posted ends of streams when a user plays

ASSUME ProviderAssumption ==
  NoStream \notin Ssrcs /\ NoClient \notin Clients /\ MaxPosted \in Nat

VARIABLES
  joined,    \* m_joined_connections
  mutex,     \* m_connection_list_mutex: free, held by the decoder, or lost
  streams,   \* the members with an m_stream_connection
  ssrc,      \* m_sync_info.m_ssrc
  valid,     \* m_sync_info.isValid()
  isOpen,    \* m_is_open
  dec,       \* m_decoder: a null pointer, or the decoder's state
  cancel,    \* its m_terminate
  decPc,     \* where the decoder's thread is
  todo,      \* members it has still to send the packet to
  using,     \* the member whose stream connection it uses
  posted,    \* calls of onEndOfStream that wait in the event loop
  loopPc,    \* where the event loop is
  job,       \* the request it works on: "play" or "stop"
  member,    \* the member it adds or removes
  latest,    \* history: source of the last sync sent to each member
  told       \* history: no reset has been sent to the member since

threadVars == <<dec, cancel, decPc, todo, using>>
provVars == <<joined, mutex, streams, ssrc, valid, isOpen>>
loopVars == <<loopPc, job, member>>
history == <<latest, told>>
vars == <<provVars, threadVars, posted, loopVars, history>>

Init ==
  /\ joined = {} /\ mutex = "free" /\ streams = {}
  /\ ssrc = NoStream /\ valid = FALSE /\ isOpen = FALSE
  /\ dec = "null" /\ cancel = FALSE /\ decPc = "none"
  /\ todo = {} /\ using = NoClient
  /\ posted = 0
  /\ loopPc = "idle" /\ job = "stop" /\ member = NoClient
  /\ latest = [c \in Clients |-> NoStream] /\ told = [c \in Clients |-> FALSE]

-----------------------------------------------------------------------------
(* Sending control events, by the event loop.                              *)

\* The members cs are sent the sync of stream s.
SendSync(cs, s) ==
  /\ latest' = [c \in Clients |-> IF c \in cs THEN s ELSE latest[c]]
  /\ told' = [c \in Clients |-> c \in cs \/ told[c]]

\* The members cs are sent the reset of the stream of m_sync_info.
SendReset(cs) ==
  /\ told' = [c \in Clients |-> told[c] /\ ~(c \in cs /\ latest[c] = ssrc)]
  /\ UNCHANGED latest

Idle == loopPc' = "idle" /\ member' = NoClient /\ UNCHANGED job

-----------------------------------------------------------------------------
(* Members.                                                                *)

\* onBecameSessionMember opens the stream connection, unless the player has named
\* no port for it and is served by multicast, ...
BecomesMember(c) ==
  /\ loopPc = "idle" /\ c \notin joined
  /\ streams' \in {streams, streams \cup {c}}
  /\ loopPc' = "add" /\ member' = c /\ UNCHANGED job
  /\ UNCHANGED <<joined, mutex, ssrc, valid, isOpen, threadVars, posted, history>>

\* Mutant of addJoinedConnection: the member is not told of the stream that plays.
addJoinedConnection_Silent ==
  /\ loopPc = "add" /\ mutex = "free"
  /\ joined' = joined \cup {member}
  /\ Idle
  /\ UNCHANGED <<mutex, streams, ssrc, valid, isOpen, threadVars, posted, history>>

\* ... and adds it to the list; a stream that is open is announced to it.
addJoinedConnection ==
  /\ loopPc = "add" /\ mutex = "free"
  /\ joined' = joined \cup {member}
  /\ IF valid THEN SendSync({member}, ssrc) ELSE UNCHANGED history
  /\ Idle
  /\ UNCHANGED <<mutex, streams, ssrc, valid, isOpen, threadVars, posted>>

\* onLeftSession closes the stream connection before it takes the mutex.
LeavesSession(c) ==
  /\ loopPc = "idle" /\ c \in joined
  /\ streams' = streams \ {c}
  /\ loopPc' = "remove" /\ member' = c /\ UNCHANGED job
  /\ UNCHANGED <<joined, mutex, ssrc, valid, isOpen, threadVars, posted, history>>

\* disconnectFromClient removes the member from the list, then deletes it.
Disconnects(c) ==
  /\ loopPc = "idle" /\ c \in joined
  /\ loopPc' = "remove" /\ member' = c /\ UNCHANGED job
  /\ UNCHANGED <<provVars, threadVars, posted, history>>

removeJoinedConnection ==
  /\ loopPc = "remove" /\ mutex = "free"
  /\ joined' = joined \ {member} /\ streams' = streams \ {member}
  /\ latest' = [latest EXCEPT ![member] = NoStream]
  /\ told' = [told EXCEPT ![member] = FALSE]
  /\ Idle
  /\ UNCHANGED <<mutex, ssrc, valid, isOpen, threadVars, posted>>

-----------------------------------------------------------------------------
(* Requests of the user.                                                   *)

\* playStream, playFile, playUrl
UserPlays ==
  /\ loopPc = "idle" /\ posted <= MaxPosted
  /\ job' = "play" /\ UNCHANGED member
  /\ loopPc' = IF dec = "null" THEN "new" ELSE "flush"
  /\ UNCHANGED <<provVars, threadVars, posted, history>>

UserStops ==
  /\ loopPc = "idle"
  /\ job' = "stop" /\ loopPc' = "flush" /\ UNCHANGED member
  /\ UNCHANGED <<provVars, threadVars, posted, history>>

\* Mutant of AfterFlush: the decoder's thread is not waited for.
AfterFlush_NoJoin ==
  /\ loopPc' = "close" /\ dec' = "null" /\ cancel' = FALSE
  /\ UNCHANGED <<decPc, todo, using>>

\* The decoder is deleted: its destructor closes it if it is open.
AfterFlush ==
  IF dec = "open"
    THEN loopPc' = "join" /\ cancel' = TRUE /\ UNCHANGED <<dec, decPc, todo, using>>
    ELSE loopPc' = "close" /\ dec' = "null" /\ UNCHANGED <<cancel, decPc, todo, using>>

\* Mutant of flush: the mutex is kept until the decoder is gone.
flush_KeepsMutex ==
  /\ loopPc = "flush" /\ mutex = "free"
  /\ mutex' = "loop"
  /\ SendReset(joined) /\ AfterFlush
  /\ UNCHANGED <<joined, streams, ssrc, valid, isOpen, posted, job, member>>

\* A reset for every member; then the decoder is deleted.
flush ==
  /\ loopPc = "flush" /\ mutex = "free"
  /\ SendReset(joined) /\ AfterFlush
  /\ UNCHANGED <<provVars, posted, job, member>>

\* close, in the decoder's destructor or on the end of its stream, waits for the
\* thread and frees what it has opened.
DecoderJoined ==
  /\ loopPc \in {"join", "joinEnd"} /\ decPc = "ended"
  /\ decPc' = "none" /\ cancel' = FALSE /\ UNCHANGED <<todo, using>>
  /\ IF loopPc = "join"
       THEN loopPc' = "close" /\ dec' = "null" /\ UNCHANGED <<job, member>>
       ELSE Idle /\ dec' = "closed"
  /\ UNCHANGED <<provVars, posted, history>>

\* Mutant of close: the sync information stays valid.
close_StaysValid ==
  /\ loopPc = "close"
  /\ isOpen' = FALSE /\ UNCHANGED valid
  /\ loopPc' = IF job = "play" THEN "new" ELSE "idle"
  /\ UNCHANGED <<joined, mutex, streams, ssrc, threadVars, posted, job, member, history>>

\* CMediaStreamProvider::close
close ==
  /\ loopPc = "close"
  /\ isOpen' = FALSE /\ valid' = FALSE
  /\ loopPc' = IF job = "play" THEN "new" ELSE "idle"
  /\ UNCHANGED <<joined, mutex, streams, ssrc, threadVars, posted, job, member, history>>

\* A new decoder.  The file may be missing, or have no audio.
NewDecoder ==
  /\ loopPc = "new"
  /\ \/ dec' = "failed" /\ loopPc' = "idle"
     \/ dec' = "open" /\ loopPc' = "open"
  /\ cancel' = FALSE
  /\ UNCHANGED <<provVars, decPc, todo, using, posted, job, member, history>>

Fresh(s) == s # ssrc /\ \A c \in Clients : latest[c] # s

\* open announces the stream, then the decoder is started.
open ==
  /\ loopPc = "open" /\ mutex = "free"
  /\ \E s \in Ssrcs :
       /\ Fresh(s)
       /\ ssrc' = s /\ valid' = TRUE /\ isOpen' = TRUE
       /\ SendSync(joined, s)
  /\ decPc' = "decode"
  /\ Idle
  /\ UNCHANGED <<joined, mutex, streams, dec, cancel, todo, using, posted>>

\* A write to a connection that was reset throws, in the middle of the list: the
\* handler ends, the mutex stays locked.  Of open nothing but m_sync_info remains.
SendThrows ==
  /\ loopPc \in {"flush", "open"} /\ mutex = "free" /\ joined # {}
  /\ mutex' = "lost"
  /\ \E cs \in SUBSET joined :
       /\ cs # joined
       /\ IF loopPc = "flush"
            THEN SendReset(cs) /\ UNCHANGED <<ssrc, valid>>
            ELSE \E s \in Ssrcs :
                   Fresh(s) /\ ssrc' = s /\ valid' = TRUE /\ SendSync(cs, s)
  /\ Idle
  /\ UNCHANGED <<joined, streams, isOpen, threadVars, posted>>

\* The posted end of a stream closes whatever decoder there is then.
onEndOfStream ==
  /\ loopPc = "idle" /\ posted > 0
  /\ posted' = posted - 1
  /\ dec = "open" /\ decPc # "none"
  /\ cancel' = TRUE /\ loopPc' = "joinEnd"
  /\ UNCHANGED <<provVars, dec, decPc, todo, using, job, member, history>>

-----------------------------------------------------------------------------
(* The decoder's thread.                                                   *)

\* The decoder's thread changes nothing of the event loop's.
unchangedByDecoder == UNCHANGED <<joined, streams, ssrc, valid, isOpen, dec, cancel, loopVars, history>>

Decode ==
  /\ decPc = "decode"
  /\ decPc' \in (IF cancel THEN {"ended"} ELSE {"write", "report"})
  /\ unchangedByDecoder /\ UNCHANGED <<mutex, todo, using, posted>>

\* write and sendPacket assert that the provider is open, then take the mutex.
Write ==
  /\ decPc = "write" /\ mutex = "free"
  /\ mutex' = "decoder"
  /\ decPc' = "send" /\ todo' = joined
  /\ unchangedByDecoder /\ UNCHANGED <<using, posted>>

\* The next member, and its stream connection if it has one.
NextMember(c) ==
  /\ decPc = "send" /\ c \in todo
  /\ todo' = todo \ {c}
  /\ IF c \in streams
       THEN decPc' = "use" /\ using' = c
       ELSE UNCHANGED <<decPc, using>>
  /\ unchangedByDecoder /\ UNCHANGED <<mutex, posted>>

SendPacket ==
  /\ decPc = "use"
  /\ decPc' = "send" /\ using' = NoClient
  /\ unchangedByDecoder /\ UNCHANGED <<mutex, todo, posted>>

\* The audio may fill several packets.
PacketSent ==
  /\ decPc = "send" /\ todo = {}
  /\ mutex' = "free"
  /\ decPc' \in {"write", "decode"}
  /\ unchangedByDecoder /\ UNCHANGED <<todo, using, posted>>

\* Mutant of reportEndOfStream: the loop is not left.
reportEndOfStream_GoesOn ==
  /\ decPc = "report"
  /\ posted' = posted + 1 /\ decPc' = "decode"
  /\ unchangedByDecoder /\ UNCHANGED <<mutex, todo, using>>

\* decodingLoop ends with the stream and leaves word in the event loop.
reportEndOfStream ==
  /\ decPc = "report"
  /\ posted' = posted + 1 /\ decPc' = "ended"
  /\ unchangedByDecoder /\ UNCHANGED <<mutex, todo, using>>

-----------------------------------------------------------------------------
(* The process dies and is started again.                                  *)

Dies ==
  /\ joined' = {} /\ mutex' = "free" /\ streams' = {}
  /\ ssrc' = NoStream /\ valid' = FALSE /\ isOpen' = FALSE
  /\ dec' = "null" /\ cancel' = FALSE /\ decPc' = "none"
  /\ todo' = {} /\ using' = NoClient /\ posted' = 0
  /\ loopPc' = "idle" /\ job' = "stop" /\ member' = NoClient
  /\ latest' = [c \in Clients |-> NoStream] /\ told' = [c \in Clients |-> FALSE]

\* The end of a stream that was stopped meanwhile finds no decoder, one that was
\* never opened or one that is closed: a null pointer, or a second join.
LateEndOfStream ==
  /\ loopPc = "idle" /\ posted > 0
  /\ dec # "open" \/ decPc = "none"
  /\ Dies

\* The write of a sync to a new member throws inside a state machine.
AddThrows == loopPc = "add" /\ mutex = "free" /\ valid /\ Dies

\* The stream connection in use has been deleted.
DanglingStream == decPc = "use" /\ using \notin streams /\ Dies

-----------------------------------------------------------------------------
EventLoop ==
  addJoinedConnection \/ removeJoinedConnection \/ flush \/ DecoderJoined \/ close
    \/ NewDecoder \/ open

Decoder ==
  Decode \/ Write \/ (\E c \in Clients : NextMember(c)) \/ SendPacket \/ PacketSent
    \/ reportEndOfStream

Next ==
  \/ \E c \in Clients : BecomesMember(c) \/ LeavesSession(c) \/ Disconnects(c)
  \/ UserPlays \/ UserStops \/ onEndOfStream
  \/ EventLoop \/ SendThrows \/ Decoder
  \/ LateEndOfStream \/ AddThrows \/ DanglingStream

Spec == Init /\ [][Next]_vars

\* The packet is the last one of the audio that was decoded.
FrameEnds == PacketSent /\ decPc' = "decode"

\* Both threads are scheduled.  A mutex that is given back again and again reaches
\* the event loop: the decoder sleeps without it between two packets.  Decoded
\* audio fills finitely many packets.
FairSpec == Spec /\ SF_vars(EventLoop) /\ WF_vars(Decoder) /\ SF_vars(FrameEnds)

-----------------------------------------------------------------------------
(* Properties.                                                             *)

\* The values the variables take.  The number of posted ends is part of it: a
\* decoder posts its end once.
TypeOK ==
  /\ joined \subseteq Clients /\ streams \subseteq Clients /\ todo \subseteq Clients
  /\ mutex \in {"free", "decoder", "lost"}
  /\ ssrc \in Ssrcs \cup {NoStream} /\ valid \in BOOLEAN /\ isOpen \in BOOLEAN
  /\ dec \in {"null", "failed", "open", "closed"} /\ cancel \in BOOLEAN
  /\ decPc \in {"none", "decode", "write", "send", "use", "report", "ended"}
  /\ using \in Clients \cup {NoClient}
  /\ posted \in 0 .. MaxPosted + 2
  /\ loopPc \in {"idle", "add", "remove", "flush", "join", "joinEnd", "close", "new", "open"}
  /\ job \in {"play", "stop"} /\ member \in Clients \cup {NoClient}
  /\ latest \in [Clients -> Ssrcs \cup {NoStream}] /\ told \in [Clients -> BOOLEAN]

\* The assertions of write and sendPacket hold: whatever the event loop does
\* meanwhile, a decoder that has audio to write finds the provider open.
WriterFindsOpen == decPc \in {"write", "send", "use"} => isOpen

Source(c) == INSTANCE StreamSource WITH latest <- latest[c], told <- told[c]

\* A packet goes to a member only if the last evSyncStream that it was sent names
\* the packet's source: also to one that joined while the stream plays, and after
\* the reset, while the decoder is still being stopped.
PacketsFollowSync == decPc = "use" => Source(using)!MayBeSent(ssrc)

\* Each member is promised what StreamSource says: two syncs are parted by a reset,
\* and a reset names the stream of the last sync, whenever members come and go and
\* streams end, are stopped or played anew.
ImplementsSource ==
  /\ \A c \in Clients : Source(c)!SourceInit
  /\ [][\A c \in Clients : [Source(c)!SourceNext]_<<latest[c], told[c]>>]_history

\* Every request of a user, a member or the decoder is carried out: the event loop
\* is never stuck waiting for the mutex or for the decoder's thread, unless a
\* failed send has left the mutex locked.
RequestsEnd == loopPc # "idle" /\ mutex # "lost" ~> loopPc = "idle" \/ mutex = "lost"
===============================================================================
