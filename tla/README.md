# Muroa in TLA+

Muroa plays one audio stream in sync on many machines. A *stream server*
(`wssrv`, on `libmstream`) decodes audio and sends it by RTP to *players*
(`muroad`) that have joined its *session*. A *media session daemon*
(`msessiond`) keeps the lists that its clients (`mqtclient`) edit: the media
collection, a playlist, what is played next and who renders it. This directory
holds TLA+ models of the code, the TLC configurations that check them, and TLAPS
proofs.

Contents: [inventory](#inventory), [modules](#modules), [runs](#runs),
[bounds](#bounds), [fairness](#fairness), [proofs](#proofs),
[where code and comments differ](#where-code-and-comments-differ),
[not modelled](#not-modelled), [plan](#plan).

To repeat a check: `tlc -config MCSessionOne.cfg MCSessionCtrl` (the runs' table
names module and configuration); to repeat the proofs: `tlapm PlayerSteps.tla`,
likewise `PlayerProofs`, `SessionCtrlProofs` (six minutes), `RingProofs`,
`MediaThreadsProofs`, `MediaProviderProofs`, `MediaSessionProofs` and
`TimeServiceProofs`.

## Inventory

The default build makes `libmcommons`, `libmuroadaemon`, `libsock++`,
`libmstream`, `wssrv` and `muroad`; `msessiond` (with `mmscanner` and
`libmuroa++`) and `mqtclient` are options that are off. `muroaserver`,
`dsserver`, `ds_plugin`, `muroagui`, `playground`, `testdaemon`, `resamplertest`
and `obsolete` are not built at all.

| component | state | operations | correct when |
|---|---|---|---|
| control protocol (`CmdStream.h`, `ctrlrpcxml`, `CStreamCtrlConnection`, `CTcpConnection`) | two TCP directions per connection, socket state at each end | send an event, read events, end of file, reset, close | answers arrive in an order the other end's machine expects |
| player core (`muroad/CPlayer`, `CCtrlConnection`, `CCtrlConnectionMgr`, `CStreamClientSM`) | session name, session connection, media connection, one state machine per connection, volume timer | accept, join, refuse, leave, lose a connection, report volume and clock offset | one session at a time, complete, given up with its connection |
| stream server core (`CStreamServer`, `CStreamSrvSM`, `wssrv/CppServer`) | sessionless and joined connections, a state machine each, client list, persistent selection | discovery reports, handle events, disconnect, user's join / leave / volume | lists, machines and the client list agree; one connection per player |
| discovery (`CStreamClientDiscovery`, `avahi/`) | known services | report appeared / disappeared | every change is reported |
| media stream provider (`CMediaStreamProvider`, `CStreamConnection`) | joined connections under a mutex, sync information | send RTP and sync events from the decoder thread | no send on a deleted stream connection, no lost mutex |
| stream decoder (`wssrv/CStreamDecoder`, stream part of `CppServer`) | decoder thread, current decoder | play, stop, end of stream | the end of one stream does not touch the next one |
| media stream connection (`muroad/CMediaStreamConnection`, `crecvloop`, `cplayloop`, `CPThread`) | queue of sync information, receive and play threads | start, stop, sync, reset | one play thread, stopped before its data goes |
| packet ring buffers (`CPacketRingBuffer`, `CPerSSRCRingBuffer`) | per source a sorted list, last sequence number read | append, read, clear, evict | in order, once, across the wrap of the sequence number |
| sample ring buffer, resamplers | read and write position | append, read | nothing lost or read twice at full and empty |
| time service (`CTimeService`, `CTimeServiceCtrl`) | request outstanding, worker thread | request, answer, timer, start, stop | measurements go on; the thread ends when asked |
| web front end (`WSSrv`, `CWSMsgHandler`, ...) | web socket clients | requests in JSON | - |
| daemon framework, audio output, sockets | settings, devices | - | - |
| media session daemon (`msessiond`, `libmuroa++`) | per kind of list the revisions, in memory and in a file each; connections | edit commands, requests for what is new, its own edits, save, restore | every client can get from the revision it has to the latest |
| Qt client (`mqtclient`) | a copy of each list and its revision's number; what is dragged | join, take lists and diffs, ask again, drag and drop, save | its copy is the revision it says it is |

How they interact. Everything of a player's control side runs in one
`io_service` loop (`muroad/main.cpp`), everything of a server's in another
(`wssrv/main.cpp`); a handler runs to its end. The two talk over one TCP
connection per pair, opened by the server when avahi reports the player. Server
handlers post further handlers (`handle_read` posts `disconnectFromClient`). The
time service's thread posts `CPlayer::onClockOffset`, the decoder's thread posts
`CppServer::onEndOfStream`. The receive and play threads share the packet ring
buffers; the event loop starts and joins them, and shares with them the queue of
sync information and the map of buffers. On the server the event loop and the
decoder's thread share the list of members, under a mutex, and the members'
stream connections, under none. Daemon and clients of a media session exchange
XML over one TCP connection each; both handle one message at a time.

What is hard: handlers of two processes interleave while messages are under way;
connections end in the middle of every exchange, and only end of file (not a
reset) is acted on; threads are stopped and their data deleted while they wait
for packets; several clients edit by diffs against revisions that may be old; a process dies and comes back to peers that remember it; a
posted handler runs in a state it was not posted in; connections are looked up
by name. `PROJECT.json` lists the hazards at their lines, with the properties
aimed at each.

## Modules

| module | models | used by |
|---|---|---|
| `CtrlProtocol` | parties, events, the two FIFO directions and socket states of each connection, what closing does | the next four |
| `Player` | `muroad`: the event loop's handlers | `PlayerOpen`, `SessionCtrl` |
| `PlayerOpen` | players among servers that may do anything | `MCPlayerOpen`, `PlayerProofs` |
| `StreamServer` | `wssrv`: the event loop's handlers for connections | `SessionCtrl` |
| `SessionCtrl` | players and servers together, users, discovery, failures; the properties | `MCSessionCtrl` |
| `Membership` | abstract specification: who holds a player, and what a server may believe about it | `SessionCtrl` (refinement) |
| `StreamSource` | abstract specification: the syncs, resets and packets a member is sent | `MediaProvider` (refinement), `MediaThreads` (extends it) |
| `MediaProvider` | `wssrv`: playing and stopping, the decoder's thread, the members | `MediaProviderProofs` |
| `MediaThreads` | `muroad`: event loop, receive and play thread of a media stream connection, the map of buffers | `MediaThreadsProofs` |
| `PacketRing` | the packet ring buffer of one source between receive and play thread | `MCPacketRing`, `RingProofs` |
| `ListPatch` | what a diff does to a list, and the diffs code makes | `SessionEdits` |
| `SessionEdits` | the edits of the four kinds of list | `MCMediaSession`, `MediaSessionProofs` |
| `MediaSession` | `msessiond` and its clients: revisions, messages, storage, failures | `MCMediaSession`, `MediaSessionProofs` |
| `TimeService` | the time service of a server and its clients in the players: requests, answers, threads | `TimeServiceProofs` |
| `PlayerSteps` | facts about queues, and theorems about a player's own steps, whatever its servers do | `PlayerProofs`, `SessionCtrlProofs` |
| `PlayerProofs`, `SessionCtrlProofs`, `RingProofs`, `MediaThreadsProofs`, `MediaProviderProofs`, `MediaSessionProofs`, `TimeServiceProofs` | theorems | - |
| `MCPlayerOpen`, `MCSessionCtrl`, `MCPacketRing`, `MCMediaSession` | values, symmetry and a constraint for TLC | the configurations |

### CtrlProtocol

A connection is a triple (server, player, n): the n-th one the server opens to
the player. `toPlayer[c]` and `toServer[c]` are the events under way;
`plyEnd[c]` and `srvEnd[c]` the sockets. A connection whose handshake the
player's kernel has completed and which the player has not accepted is
"pending": the server may already send on it.

`PlayerCloses` and `ServerCloses` are what the kernel does with a closed socket.
The other end reads end of file after the data, or a reset if the closing end
had data it had not read (which *may* be so when events are under way, so it is
a choice) or had not accepted. Data sent to a closed end is lost and makes the
sender's kernel learn of a reset later (`suspect`), at a time that is a choice.
This distinction matters because the code acts on end of file only, and because
`remote_endpoint()` and writes throw on a reset socket.

An event is one element of the XML stream. `evRequestClientState` and
`evRequestSessionState` are not in `ServerEvent`: `CStreamCtrlXml` has no
serializer for them and `sendEvent` only logs that.

### Player

One action per handler. `Accept` is `CCtrlConnectionMgr::add` with the entry of
the initial state; `AcceptJoin`, `RejectJoin` and `LeaveSession` are rows of the
transition table of `CStreamClientSM` with guard, action, exit and entry, in the
order Boost.MSM runs them; `NoTransition` is every event without a row.
`Send` is the asynchronous write: it is appended, or lost with a possible
`txErr` whose handler, `HandleWriteError`, runs later, even on a connection that
has been stopped. `volTimer` is an armed wait, `volFired` an expired one whose
handler can no longer be cancelled. `MeasureOffset` is the time service's
thread.

Failure: `remoteEndpoint()` throws on a reset socket in three places
(`setupMediaStreamConn`, `getSessionServer`, the log lines of
`requestJoinSession`). In the accept handler the exception reaches `main`; in a
transition it reaches Boost.MSM's `exception_caught`, which asserts. Both end
the process (`EndpointThrows`). A posted handler that finds the session gone
dereferences a null pointer (`NullSessionConn`). `PlayerExit` is any other end;
all of them lose the memory and have the kernel close the sockets.

### StreamServer

`ioQueue` is the order of the handlers that are ready: completed reads and
posted disconnects, which are the ones that other handlers cause. Requests of
the user and reports of discovery may run at any time. A read may return several
events (second branch of `Consumed`). `srvSM` joins the states of
`CStreamSrvSM` and of its inner machine; `leaveSession` is a terminate state, so
only `evLeave`, a row of the outer table, gets out of it.
`OnClientAppeared` is `onClientAppeared` with `connectToClient`: it walks over
the sessionless connections, drops the ones `remote_endpoint()` throws on, and
opens a connection unless it finds one. After dropping one the code increments
an erased iterator: it may go on (the model's `E`) or die (`ErasedIterator`).
`DanglingRead` is a completed read of a connection that has been deleted: the
freed memory may still read as before, or it may not, or the process dies.
`WriteThrows` is a blocking write that fails inside the state machine.

`rcs` holds per player the online flag, the member flag and the session the
player named; that an entry exists is left out, since one is made before any
connection is. Volume and error texts are left out. `selected` survives the
process (`CApp::settings`).

### SessionCtrl and Membership

`SessionCtrl` interleaves the steps of all players and servers. `Membership`
says what it amounts to: a player has at most one holder; a server moves a
connection from "asked" to "member" only after the player granted it, and from
"leaving" to "idle" only after the player let go; either end may be lost at any
time. `ImplementsMembership` is the refinement: the holder is
`m_session_ctrl_conn`, the phase is read off the server's state machine, and the
decisions under way are the `evSessionState` and `evLeave` events in the
queue.

### PacketRing

`CPerSSRCRingBuffer`, filled by the receive thread and emptied by the play
thread. A packet is its index in the stream; the code sees `SeqNum`, the index
plus the stream's first number modulo `SeqMod`. A stream may begin with any
number, since the provider's packet object keeps counting over streams while the
source changes. `list` is `m_packet_list`; each entry stands for a packet, and
the comparisons in it are made on sequence numbers as in the code.

`appendRTPPacket` is two steps: `ReceivePacket` computes the shifted number
(`Key`) from `m_seqnum` without the mutex, `appendRTPPacket` sorts in under it,
and `readPacket` may come in between. The loop over the list is `SearchEnds`: it
stops at the first entry from the end that is smaller or equal, in the code's
mixture of shifted and stored numbers. `high` is a history variable, the index
of the last packet read; the properties compare it and the indices in the list,
which the code does not know.

The network may lose any packet, deliver it twice (`MaxDup`) and let up to
`MaxDelay` later ones overtake it. `MaxLag` is the transport buffer: the sender
paces itself by the clock and is about two seconds, some 350 packets, ahead of
the player; in units of the model that is less than `Near`.

### StreamSource, MediaProvider, MediaThreads

A stream crosses three threads on two machines. `StreamSource` is what its two
halves agree on: a member is sent the sync of a new source only after the reset
of the last one, a reset names the last source, and a packet belongs to the last
source the member was told of. `MediaProvider` implements it for every member;
`MediaThreads` extends it as its environment. Neither needs the other's threads.

`MediaProvider` gives the event loop a program counter, `loopPc`, for the points
at which it waits: for the mutex of the member list (`addJoinedConnection`,
`removeJoinedConnection`, `flush`, `open`) and for the decoder's thread
(`DecoderJoined`). Between them a handler runs alone, except for what the decoder
reads without the mutex, and for this `onLeftSession` and the removal are two
steps. The decoder's thread goes through the list member by member (`NextMember`,
`SendPacket`). `posted` counts ends of streams that are posted and not yet run;
`onEndOfStream` closes the decoder there is then, whoever posted it. A send that
throws (`SendThrows`) leaves the mutex locked (`mutex = "lost"`), as
`pthread_mutex_lock` without a guard does. What ends the process is an action of
its own: the late end of a stream that finds no decoder, a throw inside a state
machine, a stream connection deleted while in use. A source is a random number in
the code; the model takes one that nothing remembers.

`MediaThreads` has one program counter per thread. An action is what happens
between two accesses that another thread can come between: the search for a
buffer and its use are two, the deletion of a buffer and its removal from the
map too, and so are the look at the buffer's size, the wait and the read. Which packets are
played when depends on the clock; `Continue` lets each of the four loops that
read packets go on or end in every way the code's conditions admit. Where two
threads are in the unlocked map at the same time and one changes it, the
behaviour is undefined: the step may happen as if it were atomic, or the process dies
(`MapRace`, `DanglingBuffer`). `NullPacket` is the null pointer that the play
thread gets from a buffer evicted under it.

### MediaSession, SessionEdits, ListPatch

The four kinds of list share one protocol, so a behaviour follows one list of
one `kind`; where the kinds differ, the action says so. `revs` is what the
daemon holds in memory and on disk, for each revision is saved when it is made,
before anything is sent. A client that joins asks for the whole list, whatever it
holds from before (`doJoinSession`): the number it knows is passed where the id of
the job goes (`mqtclient/CConnection.cpp:314`), and no number is sent as 0. So the part
of the daemon's handler that answers with a diff (`sendLatestRev`) is in the model
and its proofs, but no step of this client gets there. What matters on joining is
what arrives between the two requests and their answers, while the client still has
a copy of an earlier connection. `onEditMsg` is
`onEditPlaylist` and its siblings: a message that starts at 0 is a list, another
one a diff, and a diff that does not start at the client's revision makes it ask
for the whole list. `astray` marks copies the client itself emptied (a diff
where a list was expected) or changed (`CRenderClientsDiffBuilder` edits its own
list before the daemon has agreed); the properties except these.

`MediaSession` knows of lists and diffs only what `SessionAssumption` says: that
the diff between two lists leads from one to the other, that the daemon's edits
make lists, and that putting ids into a playlist's diff does not change what it
does. `SessionEdits` and `ListPatch` are the code's operators, and TLC evaluates the
assumption for them before each run: so `CRootItem::patch`, xdiff's result, the
edits of the scanner, of the next command and of the render clients, and
`addIdToPlaylistDiff` are checked against each other for all lists in the bounds,
and for all lists by `CodeMeetsAssumption` (see [proofs](#proofs)).
`ListPatch` keeps of a hunk what the code uses: where it starts, by how much it
shifts the following ones, how many lines it removes and which it inserts.

### TimeService

Each media stream connection has a client of its own, the provider has the
server; both are a `CTimeService` with a thread, owned by a `CTimeServiceCtrl`.
A datagram is who sent the request, its number and where it goes now: the server
answers with the packet it was sent, to `m_remote_endpoint`. `receiving` is an
outstanding `async_receive_from`, `held` what it has put into the one buffer until
its handler runs. `send_request` may be called only by the constructor and the
timer, and the timer is started only by an answer, so a lost datagram ends the
measurements; `handle_answer` compares nothing, so after a doubled one each
request is taken for answered by the answer to the one before.

`thread` and `owner` share `m_ts`, which is set while the thread runs.
`stopTimeService` is called by the destructor and again by that of the base class;
without `m_ts` it does nothing. `CTimeService::stop` is cut in two at the point where
the thread, whose `run()` has returned, may have deleted the object. The thread itself deletes
the io_context before `m_ts`, whose destructor then uses it. `ProcessEnds` is what
such a use may come to (`UsesDeleted`); otherwise it goes on in order.

## Runs

| run | configuration | checks | shows |
|---|---|---|---|
| `player_open` | `MCPlayerOpen.cfg`: 2 servers, 1 player | `TypeOK`, `SessionComplete`, `OneMember`, `SessionConnOpen`, `SessionKept` | the player's session is complete, single, held by an open connection and lost on that connection's account only, whatever other servers send and however their connections end |
| `session_one` | `MCSessionOne.cfg`: 1 server, 1 player, 2 connections, fairness | `TypeOK`, `OneConnection`, `ListsMatchStates`, `RequestAnswered`, `AnswerExpected`, `LeaveSticks`, `NoEndlessWait`, `PlayerGetsFree`, `MemberDropped` | the server's books are right through reconnects, stale disconnects and restarts; each request has one answer, in a state that takes it; waits end and a dead partner is let go, unless the connection was reset |
| `session_servers` | `MCSessionServers.cfg`: 2 servers, 1 player | `MembersAgree`, `ImplementsMembership` | two servers after one player: both sides agree on the holder; the refinement |
| `session_players` | `MCSessionPlayers.cfg`: 1 server, 2 players | `MemberFlag` | the flag shown to the user follows the joined list, also when connecting to one player drops another's connection |
| `provider` | `MCProvider.cfg` (`MediaProvider`): 2 members, 3 sources, fairness | `TypeOK`, `WriterFindsOpen`, `PacketsFollowSync`, `ImplementsSource`, `RequestsEnd` | the decoder's thread never writes to a closed provider, a member gets only packets it was told of, each member sees `StreamSource`, and every request ends |
| `media` | `MCMedia.cfg` (`MediaThreads`): 3 sources, a map of 2 buffers, fairness | `TypeOK`, `SyncInfoThere`, `QueueUndisturbed`, `PlaysCurrent`, `NobodyUsesDeleted`, `StopReturns`, `PacketsRead` | the order of the server's events keeps the threads apart where no lock does; stopping returns; a packet whose signal was lost is read if other signals keep coming |
| `ring` | `MCRing.cfg`: streams that are delayed, lost and duplicated between two edges of the sequence numbers, and streams that go over the edges | `TypeOK`, `InOrder`, `NothingNewDropped` | the play thread gets each packet at most once and in order, and nothing is dropped that could still be played |
| `revisions` | `MCMediaSession.cfg`: 2 clients, one that edits, 3 revisions | `TypeOK`, `HoldersAgree`, `Converged` | a client has the revision it says it has, and rests only on the latest one, across crashes, reconnects, stale and simultaneous edits |
| `time` | `MCTime.cfg` (`TimeService`): 2 clients, 2 requests each, fairness | `TypeOK`, `WaitsForOne`, `MeasuresOwnRequest`, `AnswerComes`, `StopReturns` | the server keeps the clients' requests apart; a client waits for an answer or its timer, never for both or neither, and in vain only if a datagram was lost; an owner who has found `m_ts` is not left joining |
| `ring_overtaken` | `MCRingOvertaken.cfg` | `WrapSortedIn` | violated, see below |
| `session_stale` | `MCSessionStale.cfg` | `StaleDisconnectHarmless` | violated, see below |
| `revisions_noexception` | `MCMediaSessionNoException.cfg` | `NoExceptionIsOk` | violated, see below |

The deadlock check is on in all runs of players and servers: a process that has
ended can always be started, so there is always a next step. It is also on in `media`. It is off in the
runs of `PacketRing`, whose stream ends (and whose sender stops if everything
within `MaxLag` was lost), of `MediaSession`, which stops when a cut file keeps
the daemon from opening the session, of `MediaProvider`, where the lost mutex
stops everything once nothing but it is left to wait for, and of `TimeService`, whose
clients send `MaxReq` requests.

The exceptions in the properties are part of what the runs say. `MemberFlag` and
`LeaveSticks` leave out players with a connection that `connectToClient` dropped
without closing (`NoneLeaked`): its machine goes on, sets the flag and selects the
client. The liveness
properties except a connection on which a reset was read: `handle_read` does
nothing with it, the server keeps the member and the player its session. Without
the exception each of them is false. `RequestsEnd` excepts the lost mutex: after
it the next request waits for ever. `StopReturns` excepts a play thread that has
decoded nothing yet and finds packet after packet that gives no frame, for that
loop (`cplayloop.cpp:341`) does not look whether it is cancelled. `AnswerComes` excepts clients of which a datagram was lost,
`MeasuresOwnRequest` those of which one was doubled. `HoldersAgree` excepts copies that a
client emptied or changed by itself; `Converged` does not.

## Bounds

| bound | value | why it is enough |
|---|---|---|
| `Servers`, `Players` | at most 2 of one and 1 of the other | players know nothing of each other, nor do servers; two servers are enough to compete for a player. Two players share only a server's connection list, whose one cross effect, dropping another player's dead connection, needs two |
| `MaxConn` | 1 or 2 | connections of one pair in sequence; stale handlers of one meet the next with two. More would need a third life of a pair with nothing left of the first |
| `MaxPosts` | 0, and 1 in `player_open` | handlers of one kind that wait in the player's loop. A second one does what the first one did. To a server a volume report is one more event without a row; the invariants of `SessionCtrl` are proved for any number of them |
| `MaxQueue` | 1 | users and arbitrary servers send while at most this many events are under way. Answers are never held back, so queues get longer than that |
| `ShortQueues` (constraint of `MCPlayerOpen`) | 2 | the arbitrary server has to read before the player's answers pile up |
| `SeqMod`, `Near` | 16, 4 | the code's 2^16 and 2^14 scaled by 2^12. The proofs are for any values |
| `NumPackets` | 10, 36 | with 36 the numbers wrap twice; 10 packets fill the stretch from 4 to 15 |
| `Starts` | 4 to 6, and 0, 7, 12 | the first stay between two edges. The second leave out starts so close to the overflow that it comes before the first packet is read: then nothing tells the code that the numbers wrapped and the order is wrong |
| `MaxDelay`, `MaxDup`, `MaxLag` | 3, 2, 4 and 0, 0, 3, by the start | lists of four, with places at both ends and in between, and late packets that were overtaken by the reading |
| `Clients`, `Ssrcs` (provider) | 2, 3 | one member is sent to while the other one comes, goes or fails; a source that is played, one a member was told of before, a new one |
| `MaxPosted` | 1 | a user plays while at most one end of a stream waits: the wrong decoder is met with one. Three may be posted with it (`TypeOK`) |
| `Ssrcs` (media) | 3 | one that is played, one whose packets are late, a new one |
| `NumSsrc`, `MaxFails` | 2, 1 | code: 3, 20. A map that is full with the played and a late source already evicts |
| `MaxSyncInfos` | 10 | the code's own; the queue never holds two (proved) |
| `MaxBuf`, `MaxCtrl`, `MaxNet` | 1, 1, 3 | the threads only tell an empty buffer from one that is not; the server may send the next event while one is handled; packets of all sources arrive interleaved: two late ones evict the buffer that is played |
| `Clients`, `MaxReq`, `MaxFaults`, `MaxStops` (time) | 2, 2, 1, 1 | requests of two clients meet at the server; the second request is the one an old answer, or a late timer, could be taken for; one lost and one doubled datagram; owners stop independently of each other, so one at a time |
| `Songs`, `Names`, `MaxSongs` | 2, 1, 2 and, in `revisions_noexception`, 2, 2, 3 | the first tell revisions and what wrong diffs make of them apart; with the second `SessionAssumption` is evaluated, and the violation found, for lists long enough to move two neighbouring rows over a third, equal songs included |
| `Clients`, `Editors`, `MaxRev`, `MaxEdits` (revisions) | 2, 1, 3, 2 | one client misses the revision the other one makes; of two edits of revision 1 the second makes revision 3, and its diff starts at 1 while all clients hold 2, so they have to ask again. Whose edits they are makes no difference to the daemon; one that edits and one that only reads are the two kinds of clients |

States: `media` 1 349 824 (two and a half minutes), `revisions` 2 770 984 (two minutes),
`session_players` 220 231 and `session_servers` 203 953 with symmetry, `ring` 92 785,
`time` 88 575, `session_one` 22 216, `provider` 20 374. Theorems hold for every value
of the bounds; only the properties listed at the end of [proofs](#proofs) rest on
them.

With `MaxConn = 1` a pair that has lost its connection stays apart for the rest
of the behaviour; with 2 it meets again once, and this is the run
(`session_one`) for which the order of stale and new handlers matters.
No wait is ended by the bound: it is ended by an answer, by end of file or by the
process' end.

Symmetry is used for servers or players in runs of safety properties only (and
of `ImplementsMembership`, which has no liveness part).

## Fairness

`FairSpec` adds weak fairness of every handler that is ready: accept, read and
write completions of a player, read completions and handlers of a server's
connections, posted disconnects. An `io_service` runs each handler that is
ready, in the order it became so, and no handler blocks for ever (the server's
blocking write is the exception; it would need a full socket buffer, which the
few bytes of control events do not make). A reset or an end of file stays
readable until it is read. Nothing is assumed of users, discovery, crashes and
restarts, nor of the timers.

`MediaThreads!FairSpec` has weak fairness of each of the three threads: the
operating system schedules them, a timed wait ends. Nothing is assumed of the
server, the network or the user. It is not assumed that a signal finds the play
thread waiting: `PacketsRead` has as its hypothesis that some do, again and again,
and says that the thread then does not leave a packet unread.

`MediaProvider!FairSpec` has weak fairness of the decoder's thread, which never
waits for more than the mutex, and strong fairness of the event loop: the mutex
is free again and again, since the decoder gives it back after each packet and
then paces itself by sleeping, much longer than it holds it, so a waiting event
loop gets it. Strong fairness of `FrameEnds` says that decoded audio fills finitely many
packets. That a decoder reaches the end of its stream is not assumed; that it
looks at `m_terminate` between two frames is in the action `Decode`.

`TimeService!FairSpec` has weak fairness of each thread (a datagram that is not lost
is received, a handler that is ready runs) and of an owner that has found `m_ts`
(it calls `stop` and joins). Nothing is assumed of timers, of the network's losses,
or that anybody stops a service.

## Proofs

`PlayerProofs` proves, for any sets of servers and players, any number of
connections and any bounds, that `PlayerOpen!Spec` implies `[]TypeOK`,
`[]SessionComplete`, `[]OneMember`, `[]SessionConnOpen` and `SessionKept`.
Because the servers of `PlayerOpen` may do anything, these facts do not rest on
the stream server's behaviour.

Assumptions: `NamesAssumption` (`MaxConn` is a natural number, the null session
and the null connection are not real ones), `PostsAssumption`,
`QueueAssumption`. TLC evaluates them in `player_open`.

Argument. None of the properties is inductive by itself. `OneMember` needs to
know that the connection that holds the session is open (`SessionConnOpen`), for
leaving and closing look at the connection only; `SessionComplete` must give
`mayJoinSession` its meaning, for the guard looks at name and connection;
`SessionConnOpen` is kept by `Accept` because a connection that was never opened
has no machine state (`Unopened`: the state machine of an "unused" or "pending"
connection is "none"). The inductive invariant is their conjunction with the
type invariant,

    PartyInv == PartyTypes /\ SessionInv /\ Unopened

`SessionKept` follows step by step: `LeavesOwn` needs `OneMember`, since `leaveSession` does not
look whose session it gives up, and `ClosesOwn` that `onCloseCtrlConn` does look.

Lemmas about `PlayerCloses`, `ServerCloses`, `Send` and `Consume` say which
variables they keep in type and which connections they touch; each action then
has its own lemma or step, and the theorem combines them. What a player's own
steps do to the invariant does not depend on who the servers are, so it is in
`PlayerSteps`, and both `PlayerProofs` and `SessionCtrlProofs` use it.

`SessionCtrlProofs` proves every invariant of `SessionCtrl`: `TypeOK`,
`OneConnection`, `ListsMatchStates`, `RequestAnswered`, `AnswerExpected`,
`MembersAgree`, `MemberFlag` and `LeaveSticks`, for any servers, players, numbers of
connections and lengths of queues, from the same assumptions. The inductive
invariant is

    IInv == TypeOK /\ SessionInv /\ Unopened /\ Books /\ FlowInv

`Books` is about a server alone: a connection is in no list, or in the one its
machine's state says, there is one in the lists for each player, and it is open.
`FlowInv` is about a connection between two open ends: what is under way in the two
directions, together with the state of the two machines, is in one of eight phases
(`Idle`, `Asked`, `Accepted`, `Rejected`, `Agreed`, `Member`, `Leaving`, `Left`), and
each event that is sent or handled leads from a phase to a phase. Exactly one
request or answer is under way in each phase that waits, which is `RequestAnswered`;
the head of the queue is the one the phase expects, which is `AnswerExpected`; and
the phases in which a connection is joined are those in which the player holds it,
which is `MembersAgree`. A mistake in one of the two machines, or in the order of
their answers, has no phase to go to. `MemberFlag` and `LeaveSticks` are then proved
relative to this invariant (`Promises`): a step may change the flag or the selection
of a player only on a connection whose phase says what it must become, or on a
leaked one.

The same module proves `Spec => ImplementsMembership` from this invariant and
`Ended`: a connection that a server has not opened, or has closed, has nothing under
way to it. Each abstract step has a lemma that says what has to become of the
one connection it is about while the server's view of the others stays the same (`SameView`),
and each handler is one such step or none. The phases of `FlowInv` give the steps their
guards: the request finds the server waiting or gone (`Grant`, `Release`), a
refusal has no consent behind it (`Refuse`), and an answer that is handled is the last one
under way (`Confirm`, `Acknowledge`).

`RingProofs` proves `[]TypeOK` of `PacketRing` for all streams, and `[]InOrder` and
`NothingNewDropped` for two kinds of streams (`Streams`): those whose numbers cross
no edge, neither the overflow nor `Near`, whatever the network loses, delays and
doubles (`Stretch`); and those of any length, over any number of overflows, from which
the network only loses packets (`InTurn`), if the sender is at most `Near` ahead of
the reader and the numbers do not start over before the first packet can be read. Both
hypotheses are needed: `ring_overtaken` shows what one overtaken packet does at an
overflow, and a stream whose numbers start over before anything was read is sorted
wrongly even in turn, since the code compares with the number last read. The starts
of `ring` are of these two kinds. Assumptions: `RingAssumption`, evaluated in the
`ring` runs. The inductive invariants are

    StretchInv == Stretch(start) /\ TypeOK /\ InOrder /\ KeyIsSeqNum
    TurnInv    == InTurn(start) /\ TypeOK /\ InOrder /\ Arrival

`KeyIsSeqNum` says that the number computed before the mutex was taken is not a
shifted one; without it the place at which `appendRTPPacket` stops says nothing
about the order of the stream. Over an overflow it is false, and `Arrival` says what
is needed instead: the packet that is appended is the newest one, and its number,
shifted or not, is above all numbers that are in the list or were read while the
receive thread waited for the mutex. That needs the arithmetic of remainders
(`SeqNumAfter`, `KeyAfter`): numbers less than a round apart differ by their
distance, or by it less a round. `AppendFacts` turns the code's comparisons of
sequence numbers into the order of the indices, and `InsertLemma` says what
inserting does to the list; the rest is by cases on where two entries of the new
list come from.

`MediaThreadsProofs` proves `[]TypeOK`, `[]SyncInfoThere`, `[]QueueUndisturbed`,
`[]PlaysCurrent` and `[]NobodyUsesDeleted` of `MediaThreads` for any sources, map
size, lengths of queues and buffers (`ThreadsAssumption`, `StreamAssumption`,
evaluated in `media`). Nothing in the threads' own code keeps `onSyncInfo` from
running while a play thread exists: that it does not is due to the order of the
server's events. So the inductive invariant `Control` has to follow the queue into
the future: `After(k)` is what it will hold when the first k control events under
way have been handled, and each sync among them meets an empty one. The other
conjuncts say which thread exists while the event loop is where. `MapOK`, about
the map of buffers, is proved on its own: `RemovedOne` shows that taking one key out of
a sequence without repetitions removes it, and `FirstRemoved` and `NewOneAdded` do the
same for eviction and for a new key.

`MediaProviderProofs` proves `[]WriterFindsOpen`, `[]PacketsFollowSync`,
`[]TypeOK` and the refinement `Spec => ImplementsSource`, for any members,
sources and `MaxPosted` (`ProviderAssumption`, evaluated in `provider`). The
inductive invariant

    IInv == Types /\ Thread /\ Sends /\ Stages /\ Promise

says what is open while the thread exists and that everybody on the list was
told its source (`Thread`), what the mutex protects (`Sends`), what the
event loop has done of a request (`Stages`), and that a member who was told of a
stream was told of the valid one (`Promise`). `StepIsSourceStep` takes each action to
`Sync`, `Reset`, `Left` or a stutter of each member. `Posts` bounds the posted ends
of streams: a thread that has not ended counts as one.

`TimeServiceProofs` proves `[]TypeOK`, `[]WaitsForOne` and `[]MeasuresOwnRequest` of
`TimeService`, for any clients, requests and faults (`TimeAssumption`, evaluated in
`time`). The inductive invariant

    IInv == TypeOK /\ Waits /\ Answers

has in `Waits` that a client whose thread runs awaits an answer or its timer and
not both, and that it has armed a receive or holds a datagram exactly while it awaits
one. The protocol puts a number in no datagram, so that an answer is the one to the
last request rests on there being one datagram of a client at most, in the network
or with one of the two that handle it (`OneUnderWay`): a request is sent only when
the timer expires, and the timer is armed only by an answer. A doubled datagram
breaks this for its client for good, which is why `MeasuresOwnRequest` excepts it.

`MediaSessionProofs` proves `[]TypeOK`, `[]HoldersAgree` and `[]Converged` of
`MediaSession`, for any clients, revisions and edits, and for all lists, patches and
diffs that satisfy `SessionAssumption` (evaluated in `revisions` for the code's
operators, with its widest bounds in `revisions_noexception`). Its inductive invariant says of every message under way what makes
it harmless: an edit makes a list of the revision it names, a diff leads from
the revision it starts at to the one it ends at; revisions are only added, so
this stays so. `KeptInformed` is the part for `Converged`: a joined client that is not
up to date has a request under way, or a message that brings it to the latest
revision, or one that makes it ask.

`CodeMeetsAssumption` then proves what `SessionAssumption` says of the operators for
those of `ListPatch` and `SessionEdits`, on lists of any length, any songs and any
finite set of names (`EditsAssumption`, evaluated in `revisions`). A hunk inside of the
list does what it says (`HunkApplied`), so the one hunk of `LineDiff` makes the other
list (`DiffLeads`) and those of the daemon's edits the list the daemon keeps;
`RestoredList` shows that a restored session state is still in order. For ids,
`PutInKept`, `MoveUpKept` and `MoveDownKept` find what a client inserted at the lines
`addIdToPlaylistDiff` counts to; the exception, where it looks at line 0, is the crash
of `revisions_noexception`. The library's folds are what needs care: `FoldLeft` is a
function on the sets of indices, chosen by what it satisfies. `FoldExists` shows by
induction (`Induction`, for sets of numbers, from the well-foundedness of `<`) that there is
one, and `FoldRuns` that it goes through the sequence one element at a time, for the three
loops the code has.

Only model-checked: the liveness properties (`NoEndlessWait`, `PlayerGetsFree`,
`MemberDropped`, `RequestsEnd`, both `StopReturns`, `PacketsRead`, `AnswerComes`),
and three claims that are false. Liveness under fairness and `ENABLED` are out of
the reach of the installed provers. Every invariant and action property of a
passing run is a theorem, `InOrder` and `NothingNewDropped` for the streams
above.

## Where code and comments differ

* `session_stale`: the comment at `CStreamCtrlConnection.cpp:215-217` says a
  posted disconnect finds nothing if the connection "has already been deleted".
  If discovery reports the player gone and back in between, it finds the next
  connection of that name and deletes that.
* `ring_overtaken`: `CPerSSRCRingBuffer.cpp:95-97` promises to sort in over an
  overflow. Stored numbers are not shifted, so a last packet of the old round
  goes behind the first one of the new round.
* `revisions_noexception`: "if there was no exception, the diff is ok, send it to
  all clients" (`msessiond/CCmdDispatcher.cpp:106`). Dropping the first row of a
  playlist on itself makes a diff that removes line 1 and inserts at line 0, which
  `patch` takes as appending. The ids are then looked up at the line the header
  names, where there is no item: the daemon has saved the revision and ends.

Seen while modelling, without a run of their own.

Control: the comment at `CStreamServer.cpp:217` says a client "is online if we
have a control connection"; after end of file `disconnectFromClient` (line 174) deletes
the connection and leaves the flag. `CWSMsgHandler.cpp:186-193` says that
activating a client without a control connection opens one
(`requestClientToJoin` only logs) and that deactivating a client that is no
member does nothing (it is removed from the selection all the same). A leave
requested while the answer to a join is awaited is dropped, and joining selects
the client again.

Packet buffer: "insert only, if the sequence number is higher that the last read
packet" (`CPerSSRCRingBuffer.cpp:112`), but line 98 asks whether the last number
is above 2^14, not near 2^16: once 2^14 is passed, a late packet from below it
counts as one from after an overflow and is inserted. "duplicate packet! drop!"
(line 143) does not hold after an overflow, for the comparison in line 138 inserts the
duplicate first (allow duplicates of the long streams in `MCPacketRing` to see
`InOrder` fail). `m_active_ssrc` is shadowed in `CPacketRingBuffer.cpp`, so eviction
does not spare the source that is played.

Streams: the end of a stream that is posted after the user has played the next
one closes that one. A write that throws in `CMediaStreamProvider` leaves the mutex
locked (line 322).

Media session: an edit is applied to the revision it names, so of two edits of the
same revision the first is lost, on the daemon and all clients alike. The rows of a
drag are those of its beginning and the revision that of the drop. `sendCommand` of
`mqtclient` passes the known revision as the id of the job
(`CConnection.cpp:312-331`), so every join fetches the whole lists. `CRenderClientsDiffBuilder.cpp:112` changes the
client's own list before the daemon has agreed, and the confirming diff then meets a changed
line. `CSessionStorage.cpp:314` passes over the client behind a removed one.
`CSession.cpp:385` of `msessiond` takes an item of an empty list for the next
command. `CDiffBuilder.cpp:151` takes any selection of rows for neighbouring ones.
A session whose file has a cut header cannot be opened again.

## Not modelled

* XML: well-formedness, partial elements, character escaping.
* Volume values, error texts, what is displayed.
* Time service: what is measured (arithmetic on clocks), datagrams of another length
  (an exception ends the thread), the search for a free port (`CTimeService.cpp:52`; the
  players are told a constant port, `CppServer.cpp:73`, so they do not reach a server
  that had to take another one), `getCurrentTimeServerPort`, which nobody calls.
* Time stamps, pacing, samples and the adaption of the sample rate; multicast.
* Media session: jobs of the scanner and their progress, playing, several
  sessions, selections of rows that are not neighbours, more than one category of
  a list, the models and views of Qt. `CStateDB` is compiled and its tables are not used
  by what is modelled.
* Time service: a receive that completes with an error (`CTimeService.cpp:132`), which
  starts nothing again; on a UDP socket that is not connected there is none but the
  one of a socket that is closed.
* A client of a media session that crashes while it writes its files starts
  afresh in the model, as one without files does.
* Undefined behaviour is the orderly outcome or the end of the process; what else
  freed memory may do is left out.
* Avahi itself; duplicate reports of one service (one per interface).
* Full socket buffers, failing accepts, lack of memory.
* Resamplers and audio devices: numerical code and I/O.
* The programs that no build file reaches.

Most of the repository's lines are not control: the tables of filter
coefficients alone are a third of it, a copy of them and of a resampler library
lies in `resamplertest`, and `obsolete`, `muroaserver`, `dsserver`, `muroagui`,
`playground` and the vendored `xdiff` are not part of the system as built or are
libraries to it. What remains unmapped in the parts above is parsing and formatting
of XML and JSON, Qt views, device I/O and logging.

## Plan

Done: control protocol, player core, server core, their composition and abstract
membership; packet ring; media threads and provider with the promise between
them; media session; time service; the theorems listed in `PROJECT.json`.

Left, in this order:

1. Volume values in `Player`, for the volume that is stored late.
2. `PacketRing`: which reordering over an overflow the code can take, if any.
3. The lemma behind a liveness property that is a safety property: what stays true
   while a request is waited for.
