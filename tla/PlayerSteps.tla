----------------------------- MODULE PlayerSteps -----------------------------
(***************************************************************************)
(* What the steps of a player keep, whatever is at the other end of its    *)
(* connections, and what becomes of the events in a connection's queues:   *)
(* lemmas for PlayerProofs and SessionCtrlProofs.                          *)
(***************************************************************************)
EXTENDS Player, TLAPS

-----------------------------------------------------------------------------
(* Queues with none, or exactly one, of some elements.                     *)

NoneOf(q, X) == \A i \in DOMAIN q : q[i] \notin X

\* Exactly one element is in X, and it is in Y.
OneOf(q, X, Y) ==
  \E k \in DOMAIN q : q[k] \in Y /\ \A i \in DOMAIN q \ {k} : q[i] \notin X

\* An element of Y and one of Z behind it, and none else in X.
PairOf(q, X, Y, Z) ==
  \E k \in DOMAIN q :
    /\ k + 1 \in DOMAIN q
    /\ q[k] \in Y /\ q[k + 1] \in Z
    /\ \A i \in DOMAIN q \ {k, k + 1} : q[i] \notin X

\* An element outside X is put into the queue.
LEMMA PutOther ==
  ASSUME NEW S, NEW q \in Seq(S), NEW X, NEW Y, NEW Z, NEW e \in S, e \notin X
  PROVE  /\ NoneOf(q, X) => NoneOf(Append(q, e), X)
         /\ OneOf(q, X, Y) => OneOf(Append(q, e), X, Y)
         /\ PairOf(q, X, Y, Z) => PairOf(Append(q, e), X, Y, Z)
<1> DEFINE r == Append(q, e)
<1>1. /\ DOMAIN r = DOMAIN q \cup {Len(q) + 1}
      /\ \A i \in DOMAIN q : r[i] = q[i] /\ i # Len(q) + 1
      /\ r[Len(q) + 1] = e
      /\ DOMAIN q \subseteq Nat
  OBVIOUS
<1> HIDE DEF r
<1>2. NoneOf(q, X) => NoneOf(r, X)
  BY <1>1 DEF NoneOf
<1>3. OneOf(q, X, Y) => OneOf(r, X, Y)
  BY <1>1 DEF OneOf
<1>4. PairOf(q, X, Y, Z) => PairOf(r, X, Y, Z)
  BY <1>1 DEF PairOf
<1> QED BY <1>2, <1>3, <1>4 DEF r

\* One, or a pair, is put into a queue with none.
LEMMA PutOne ==
  ASSUME NEW S, NEW q \in Seq(S), NEW X, NEW Y, NEW e \in S, e \in Y, NoneOf(q, X)
  PROVE  OneOf(Append(q, e), X, Y)
<1> DEFINE r == Append(q, e)
<1>1. /\ DOMAIN r = DOMAIN q \cup {Len(q) + 1}
      /\ \A i \in DOMAIN q : r[i] = q[i] /\ i # Len(q) + 1
      /\ r[Len(q) + 1] = e
  OBVIOUS
<1> HIDE DEF r
<1>2. OneOf(r, X, Y)
  BY <1>1 DEF OneOf, NoneOf
<1> QED BY <1>2 DEF r

LEMMA PutPair ==
  ASSUME NEW S, NEW q \in Seq(S), NEW X, NEW Y, NEW Z, NEW e \in S, NEW f \in S,
         e \in Y, f \in Z, NoneOf(q, X)
  PROVE  PairOf(q \o <<e, f>>, X, Y, Z)
<1> DEFINE r == q \o <<e, f>>
           n == Len(q) + 1
<1>1. /\ DOMAIN r = DOMAIN q \cup {n, n + 1}
      /\ \A i \in DOMAIN q : r[i] = q[i] /\ i # n /\ i # n + 1
      /\ r[n] = e /\ r[n + 1] = f
      /\ n \in Nat
  OBVIOUS
<1> HIDE DEF r, n
<1>2. PairOf(r, X, Y, Z)
  BY <1>1 DEF PairOf, NoneOf
<1> QED BY <1>2 DEF r

\* The two messages of one transition are sent one behind the other.
LEMMA PutTwo ==
  ASSUME NEW S, NEW q \in Seq(S), NEW e \in S, NEW f \in S
  PROVE  q \o <<e, f>> = Append(Append(q, e), f)
OBVIOUS

\* The first element is taken out of the queue.
LEMMA Take ==
  ASSUME NEW S, NEW q \in Seq(S), q # <<>>, NEW X, NEW Y, NEW Z, Y \subseteq X, Z \subseteq X
  PROVE  /\ NoneOf(q, X) => Head(q) \notin X /\ NoneOf(Tail(q), X)
         /\ OneOf(q, X, Y) => \/ Head(q) \in Y /\ NoneOf(Tail(q), X)
                              \/ Head(q) \notin X /\ OneOf(Tail(q), X, Y)
         /\ PairOf(q, X, Y, Z) =>
              \/ Head(q) \in Y /\ Tail(q) # <<>> /\ Head(Tail(q)) \in Z /\ OneOf(Tail(q), X, Z)
              \/ Head(q) \notin X /\ PairOf(Tail(q), X, Y, Z)
<1> DEFINE r == Tail(q)
<1>1. /\ 1 \in DOMAIN q /\ Head(q) = q[1]
      /\ DOMAIN q = 1 .. Len(q) /\ Len(q) \in Nat
      /\ DOMAIN r = 1 .. (Len(q) - 1)
      /\ \A i \in DOMAIN r : r[i] = q[i + 1]
      /\ r # <<>> <=> Len(q) > 1
      /\ r # <<>> => Head(r) = q[2]
  <2>1. r \in Seq(S) /\ Len(r) = Len(q) - 1 /\ \A i \in 1 .. (Len(q) - 1) : r[i] = q[i + 1]
    OBVIOUS
  <2>2. Len(q) \in Nat /\ Len(q) # 0 /\ DOMAIN q = 1 .. Len(q) /\ Head(q) = q[1]
    OBVIOUS
  <2>3. DOMAIN r = 1 .. Len(r)
    BY <2>1
  <2>4. ASSUME r # <<>> PROVE Len(q) > 1 /\ Head(r) = q[2]
    <3>1. Len(r) # 0 /\ Len(r) \in Nat /\ Head(r) = r[1]
      BY <2>1, <2>4
    <3> HIDE DEF r
    <3> QED BY <2>1, <2>2, <3>1
  <2>5. ASSUME Len(q) > 1 PROVE r # <<>>
    <3>1. Len(r) = Len(q) - 1
      BY <2>1
    <3> HIDE DEF r
    <3>2. Len(r) # 0
      <4>1. \A n \in Nat : n > 1 => n - 1 # 0
        OBVIOUS
      <4>2. Len(q) - 1 # 0
        BY <2>2, <2>5, <4>1, Zenon
      <4> QED BY <3>1, <4>2, Zenon
    <3>3. Len(<<>>) = 0
      OBVIOUS
    <3> QED BY <3>2, <3>3, Zenon
  <2> HIDE DEF r
  <2> QED BY <2>1, <2>2, <2>3, <2>4, <2>5
<1> HIDE DEF r
<1>2. ASSUME NoneOf(q, X) PROVE Head(q) \notin X /\ NoneOf(r, X)
  BY <1>1, <1>2 DEF NoneOf
<1>3. ASSUME OneOf(q, X, Y)
      PROVE  \/ Head(q) \in Y /\ NoneOf(r, X)
             \/ Head(q) \notin X /\ OneOf(r, X, Y)
  <2>1. PICK k \in DOMAIN q : q[k] \in Y /\ \A i \in DOMAIN q \ {k} : q[i] \notin X
    BY <1>3 DEF OneOf
  <2>2. CASE k = 1
    BY <1>1, <2>1, <2>2 DEF NoneOf
  <2>3. CASE k # 1
    <3>1. k - 1 \in DOMAIN r /\ r[k - 1] = q[k]
      BY <1>1, <2>3
    <3>2. \A i \in DOMAIN r \ {k - 1} : r[i] \notin X
      BY <1>1, <2>1, <2>3
    <3>3. OneOf(r, X, Y)
      BY <2>1, <3>1, <3>2 DEF OneOf
    <3> QED BY <1>1, <2>1, <2>3, <3>3
  <2> QED BY <2>2, <2>3
<1>4. ASSUME PairOf(q, X, Y, Z)
      PROVE  \/ Head(q) \in Y /\ r # <<>> /\ Head(r) \in Z /\ OneOf(r, X, Z)
             \/ Head(q) \notin X /\ PairOf(r, X, Y, Z)
  <2>1. PICK k \in DOMAIN q :
          /\ k + 1 \in DOMAIN q
          /\ q[k] \in Y /\ q[k + 1] \in Z
          /\ \A i \in DOMAIN q \ {k, k + 1} : q[i] \notin X
    BY <1>4 DEF PairOf
  <2>2. CASE k = 1
    <3>1. r # <<>> /\ Head(r) = q[2] /\ 1 \in DOMAIN r /\ r[1] = q[2]
      BY <1>1, <2>1, <2>2
    <3>2. \A i \in DOMAIN r \ {1} : r[i] \notin X
      BY <1>1, <2>1, <2>2
    <3>3. OneOf(r, X, Z)
      BY <2>1, <2>2, <3>1, <3>2 DEF OneOf
    <3> QED BY <1>1, <2>1, <2>2, <3>1, <3>3
  <2>3. CASE k # 1
    <3>1. /\ k - 1 \in DOMAIN r /\ r[k - 1] = q[k]
          /\ (k - 1) + 1 \in DOMAIN r /\ r[(k - 1) + 1] = q[k + 1]
      BY <1>1, <2>1, <2>3
    <3>2. \A i \in DOMAIN r \ {k - 1, (k - 1) + 1} : r[i] \notin X
      BY <1>1, <2>1, <2>3
    <3>3. PairOf(r, X, Y, Z)
      BY <2>1, <3>1, <3>2 DEF PairOf
    <3> QED BY <1>1, <2>1, <2>3, <3>3
  <2> QED BY <2>2, <2>3
<1> QED BY <1>2, <1>3, <1>4 DEF r

\* The first stays the first when something is put behind it.
LEMMA PutBehind ==
  ASSUME NEW S, NEW q \in Seq(S), q # <<>>, NEW e \in S
  PROVE  Append(q, e) # <<>> /\ Head(Append(q, e)) = Head(q)
OBVIOUS

\* The queue has an event of this kind.
Has(q, ev) == \E i \in DOMAIN q : q[i].ev = ev

LEMMA HasNone ==
  ASSUME NEW ev
  PROVE  ~Has(<<>>, ev)
<1>1. DOMAIN <<>> = {}
  OBVIOUS
<1> QED BY <1>1, Zenon DEF Has

LEMMA HasAppend ==
  ASSUME NEW q \in Seq(PlayerMsg), NEW m \in PlayerMsg, NEW ev
  PROVE  Has(Append(q, m), ev) <=> Has(q, ev) \/ m.ev = ev
<1> DEFINE r == Append(q, m)
<1>1. /\ DOMAIN r = DOMAIN q \cup {Len(q) + 1}
      /\ \A i \in DOMAIN q : r[i] = q[i]
      /\ r[Len(q) + 1] = m
  OBVIOUS
<1> HIDE DEF r
<1>2. Has(r, ev) <=> Has(q, ev) \/ m.ev = ev
  BY <1>1 DEF Has
<1> QED BY <1>2 DEF r

LEMMA HasTwo ==
  ASSUME NEW q \in Seq(PlayerMsg), NEW m \in PlayerMsg, NEW n \in PlayerMsg, NEW ev
  PROVE  Has(q \o <<m, n>>, ev) <=> Has(q, ev) \/ m.ev = ev \/ n.ev = ev
<1>1. q \o <<m, n>> = Append(Append(q, m), n)
  BY PutTwo
<1>2. Append(q, m) \in Seq(PlayerMsg)
  OBVIOUS
<1>3. Has(Append(q, m), ev) <=> Has(q, ev) \/ m.ev = ev
  BY HasAppend
<1>4. Has(Append(Append(q, m), n), ev) <=> Has(Append(q, m), ev) \/ n.ev = ev
  BY <1>2, HasAppend
<1> QED BY <1>1, <1>3, <1>4

LEMMA HasTail ==
  ASSUME NEW q \in Seq(PlayerMsg), q # <<>>, NEW ev
  PROVE  Has(q, ev) <=> Head(q).ev = ev \/ Has(Tail(q), ev)
<1> DEFINE r == Tail(q)
<1>1. /\ r \in Seq(PlayerMsg) /\ Len(r) = Len(q) - 1
      /\ \A i \in 1 .. (Len(q) - 1) : r[i] = q[i + 1]
  OBVIOUS
<1>2. Len(q) \in Nat /\ Len(q) # 0 /\ DOMAIN q = 1 .. Len(q) /\ Head(q) = q[1]
  OBVIOUS
<1>3. DOMAIN r = 1 .. (Len(q) - 1)
  BY <1>1
<1> HIDE DEF r
<1>4. ASSUME Has(q, ev) PROVE Head(q).ev = ev \/ Has(r, ev)
  <2>1. PICK i \in 1 .. Len(q) : q[i].ev = ev
    BY <1>2, <1>4 DEF Has
  <2>2. CASE i = 1
    BY <1>2, <2>1, <2>2
  <2>3. CASE i # 1
    <3>1. i - 1 \in 1 .. (Len(q) - 1) /\ r[i - 1] = q[i]
      BY <1>1, <1>2, <2>3
    <3> QED BY <1>3, <2>1, <3>1 DEF Has
  <2> QED BY <2>2, <2>3
<1>5. ASSUME Head(q).ev = ev \/ Has(r, ev) PROVE Has(q, ev)
  <2>1. CASE Head(q).ev = ev
    <3>1. 1 \in DOMAIN q
      BY <1>2
    <3> QED BY <1>2, <2>1, <3>1 DEF Has
  <2>2. CASE Has(r, ev)
    <3>1. PICK i \in 1 .. (Len(q) - 1) : r[i].ev = ev
      BY <1>3, <2>2 DEF Has
    <3>2. i + 1 \in DOMAIN q /\ q[i + 1] = r[i]
      BY <1>1, <1>2, <3>1
    <3> QED BY <3>1, <3>2 DEF Has
  <2> QED BY <1>5, <2>1, <2>2
<1> QED BY <1>4, <1>5 DEF r

-----------------------------------------------------------------------------
(* Connections and messages.                                               *)

\* Types of connections and players.
PartyTypes == LinkTypeOK /\ PlayerTypeOK

\* A connection has a server and a player (CtrlProtocol's Conns).
LEMMA ConnParties ==
  ASSUME NEW c \in Conns
  PROVE  Srv(c) \in Servers /\ Ply(c) \in Players
BY DEF Conns, Srv, Ply

\* What the player sends is a message of the protocol.
LEMMA MsgType ==
  ASSUME NEW e \in PlayerEvent \cup Hangup, NEW s \in Servers \cup {NoSession}
  PROVE  Msg(e, s) \in PlayerMsg
BY DEF Msg, PlayerMsg

\* Reading the next event leaves a queue of events.
LEMMA ConsumeType ==
  ASSUME LinkTypeOK, NEW c \in Conns, toPlayer[c] # <<>>, Consume(c)
  PROVE  toPlayer' \in [Conns -> Seq(ServerEvent \cup Hangup)]
BY DEF LinkTypeOK, Consume

\* Sending keeps the types, whichever end the server's socket is in.
LEMMA SendType ==
  ASSUME PartyTypes, NEW c \in Conns, NEW msgs \in Seq(PlayerMsg), Send(c, msgs)
  PROVE  /\ toServer' \in [Conns -> Seq(PlayerMsg)]
         /\ txErr' \in [Conns -> BOOLEAN]
         /\ peer' \in [Conns -> PeerState]
<1> USE DEF PartyTypes, LinkTypeOK, PlayerTypeOK
<1>1. CASE srvEnd[c] = "open"
  <2>1. toServer' = [toServer EXCEPT ![c] = @ \o msgs] /\ UNCHANGED <<txErr, peer>>
    BY <1>1 DEF Send
  <2>2. toServer[c] \o msgs \in Seq(PlayerMsg)
    OBVIOUS
  <2> QED BY <2>1, <2>2
<1>2. CASE srvEnd[c] # "open"
  <2>1. UNCHANGED toServer
    BY <1>2 DEF Send
  <2>2. peer' = [peer EXCEPT ![c] = IF @ = "gone" THEN "gone" ELSE "suspect"]
    BY <1>2 DEF Send
  <2>3. PICK failed \in BOOLEAN : txErr' = [txErr EXCEPT ![c] = @ \/ failed]
    BY <1>2 DEF Send
  <2>4. txErr' \in [Conns -> BOOLEAN]
    BY <2>3, Zenon
  <2> QED BY <2>1, <2>2, <2>4 DEF PeerState
<1> QED BY <1>1, <1>2

\* Closing some of the player's sockets keeps the types.
LEMMA PlayerClosesType ==
  ASSUME LinkTypeOK, NEW C, PlayerCloses(C)
  PROVE  /\ toPlayer' \in [Conns -> Seq(ServerEvent \cup Hangup)]
         /\ toServer' \in [Conns -> Seq(PlayerMsg)]
         /\ plyEnd' \in [Conns -> EndState]
<1> USE DEF LinkTypeOK
<1>1. PICK R :
        /\ plyEnd' = [c \in Conns |-> IF c \in C THEN "closed" ELSE plyEnd[c]]
        /\ toPlayer' = [c \in Conns |-> IF c \in C THEN <<>> ELSE toPlayer[c]]
        /\ toServer' = [c \in Conns |->
             IF c \in C /\ srvEnd[c] = "open"
             THEN Append(toServer[c], Msg(IF c \in R THEN "rst" ELSE "eof", NoSession))
             ELSE toServer[c]]
  BY DEF PlayerCloses
<1>2. \A c \in Conns : Msg(IF c \in R THEN "rst" ELSE "eof", NoSession) \in PlayerMsg
  BY MsgType DEF Hangup
<1>3. toServer' \in [Conns -> Seq(PlayerMsg)]
  BY <1>1, <1>2
<1>4. plyEnd' \in [Conns -> EndState]
  BY <1>1 DEF EndState
<1>5. toPlayer' \in [Conns -> Seq(ServerEvent \cup Hangup)]
  BY <1>1
<1> QED BY <1>3, <1>4, <1>5

-----------------------------------------------------------------------------
(* Type correctness.                                                       *)

\* The end of a player's process keeps the types.
LEMMA ProcessEndsType ==
  ASSUME PartyTypes, NEW p \in Players, ProcessEnds(p)
  PROVE  PartyTypes'
<1> USE DEF PartyTypes, LinkTypeOK, PlayerTypeOK
<1>1. PlayerCloses({c \in ConnsOf(p) : plyEnd[c] \in {"pending", "open"}})
  BY DEF ProcessEnds
<1>2. /\ toPlayer' \in [Conns -> Seq(ServerEvent \cup Hangup)]
      /\ toServer' \in [Conns -> Seq(PlayerMsg)]
      /\ plyEnd' \in [Conns -> EndState]
  BY <1>1, PlayerClosesType
<1>3. clntSM' \in [Conns -> ClntState] /\ txErr' \in [Conns -> BOOLEAN]
  BY DEF ProcessEnds, ClntState
<1>4. /\ sessionConn' \in [Players -> Conns \cup {NoConn}]
      /\ sessionName' \in [Players -> Servers \cup {NoSession}]
      /\ mediaConn' \in [Players -> Conns \cup {NoConn}]
      /\ volTimer' \in [Players -> BOOLEAN]
      /\ plyUp' \in [Players -> BOOLEAN]
  BY DEF ProcessEnds
<1>5. volFired' \in [Players -> 0 .. MaxPosts] /\ offsets' \in [Players -> 0 .. MaxPosts]
  BY PostsAssumption DEF ProcessEnds
<1> QED BY <1>2, <1>3, <1>4, <1>5 DEF ProcessEnds

\* The handlers that run for one connection.
LEMMA ConnStepType ==
  ASSUME PartyTypes, NEW c \in Conns, ConnStep(c)
  PROVE  PartyTypes'
<1> USE ConnParties DEF PartyTypes, LinkTypeOK, PlayerTypeOK
<1>r. \A e : Reads(c, e) => plyEnd[c] = "open" /\ toPlayer[c] # <<>>
  BY DEF Reads
<1>s. \A s \in Servers \cup {NoSession} :
        /\ <<ClientState(s)>> \in Seq(PlayerMsg)
        /\ <<Msg("evJoinRejected", s), ClientState(s)>> \in Seq(PlayerMsg)
        /\ <<Msg("evLeave", s), ClientState(NoSession)>> \in Seq(PlayerMsg)
  BY MsgType DEF ClientState, PlayerEvent
<1>j. <<Msg("evJoinAccepted", NoSession), Msg("evSessionState", NoSession)>> \in Seq(PlayerMsg)
  BY MsgType DEF PlayerEvent
<1>1. CASE Accept(c)
  <2>1. Send(c, <<ClientState(sessionName[Ply(c)])>>)
    BY <1>1 DEF Accept
  <2>2. /\ toServer' \in [Conns -> Seq(PlayerMsg)]
        /\ txErr' \in [Conns -> BOOLEAN]
        /\ peer' \in [Conns -> PeerState]
    BY <1>s, <2>1, SendType
  <2> QED BY <1>1, <2>2 DEF Accept, handlerVars, EndState, ClntState
<1>2. CASE AcceptJoin(c)
  <2>1. /\ Send(c, <<Msg("evJoinAccepted", NoSession), Msg("evSessionState", NoSession)>>)
        /\ Consume(c)
    BY <1>2 DEF AcceptJoin
  <2>2. /\ toServer' \in [Conns -> Seq(PlayerMsg)]
        /\ txErr' \in [Conns -> BOOLEAN]
        /\ peer' \in [Conns -> PeerState]
        /\ toPlayer' \in [Conns -> Seq(ServerEvent \cup Hangup)]
    BY <1>2, <1>j, <1>r, <2>1, SendType, ConsumeType DEF AcceptJoin
  <2> QED BY <1>2, <2>2 DEF AcceptJoin, handlerVars, ClntState
<1>3. CASE RejectJoin(c)
  <2>1. /\ Send(c, <<Msg("evJoinRejected", sessionName[Ply(c)]), ClientState(sessionName[Ply(c)])>>)
        /\ Consume(c)
    BY <1>3 DEF RejectJoin
  <2>2. /\ toServer' \in [Conns -> Seq(PlayerMsg)]
        /\ txErr' \in [Conns -> BOOLEAN]
        /\ peer' \in [Conns -> PeerState]
        /\ toPlayer' \in [Conns -> Seq(ServerEvent \cup Hangup)]
    BY <1>3, <1>s, <1>r, <2>1, SendType, ConsumeType DEF RejectJoin
  <2> QED BY <1>3, <2>2 DEF RejectJoin, handlerVars, sessionVars
<1>4. CASE LeaveSession(c)
  <2>1. /\ Send(c, <<Msg("evLeave", sessionName[Ply(c)]), ClientState(NoSession)>>)
        /\ Consume(c)
    BY <1>4 DEF LeaveSession
  <2>2. /\ toServer' \in [Conns -> Seq(PlayerMsg)]
        /\ txErr' \in [Conns -> BOOLEAN]
        /\ peer' \in [Conns -> PeerState]
        /\ toPlayer' \in [Conns -> Seq(ServerEvent \cup Hangup)]
    BY <1>4, <1>s, <1>r, <2>1, SendType, ConsumeType DEF LeaveSession
  <2> QED BY <1>4, <2>2 DEF LeaveSession, handlerVars, ClntState
<1>5. CASE SetVolume(c)
  <2>1. toPlayer' \in [Conns -> Seq(ServerEvent \cup Hangup)]
    BY <1>5, <1>r, ConsumeType DEF SetVolume
  <2>2. volTimer' \in [Players -> BOOLEAN]
    BY <1>5, Zenon DEF SetVolume
  <2> QED BY <1>5, <2>1, <2>2 DEF SetVolume, sessionVars
<1>6. CASE SyncOrReset(c)
  <2>1. toPlayer' \in [Conns -> Seq(ServerEvent \cup Hangup)]
    BY <1>6, <1>r, ConsumeType DEF SyncOrReset
  <2> QED BY <1>6, <2>1 DEF SyncOrReset, playerVars
<1>7. CASE NoTransition(c)
  <2>1. toPlayer' \in [Conns -> Seq(ServerEvent \cup Hangup)]
    BY <1>7, <1>r, ConsumeType DEF NoTransition
  <2> QED BY <1>7, <2>1 DEF NoTransition, playerVars
<1>8. CASE ReadEof(c)
  <2>1. PlayerCloses({c})
    BY <1>8 DEF ReadEof, OnCloseCtrlConn
  <2>2. /\ sessionName' \in [Players -> Servers \cup {NoSession}]
        /\ sessionConn' \in [Players -> Conns \cup {NoConn}]
        /\ mediaConn' \in [Players -> Conns \cup {NoConn}]
    BY <1>8 DEF ReadEof, OnCloseCtrlConn
  <2> QED BY <1>8, <2>1, <2>2, PlayerClosesType DEF ReadEof, handlerVars
<1>9. CASE ReadReset(c)
  <2>1. toPlayer' \in [Conns -> Seq(ServerEvent \cup Hangup)]
    BY <1>9, <1>r, ConsumeType DEF ReadReset
  <2> QED BY <1>9, <2>1 DEF ReadReset, sessionVars, handlerVars, PeerState
<1>10. CASE HandleWriteError(c)
  <2>1. txErr' \in [Conns -> BOOLEAN]
    BY <1>10 DEF HandleWriteError
  <2>2. CASE plyEnd[c] = "open"
    <3>1. OnCloseCtrlConn(c)
      BY <1>10, <2>2 DEF HandleWriteError
    <3>2. /\ sessionName' \in [Players -> Servers \cup {NoSession}]
          /\ sessionConn' \in [Players -> Conns \cup {NoConn}]
          /\ mediaConn' \in [Players -> Conns \cup {NoConn}]
          /\ PlayerCloses({c})
      BY <3>1 DEF OnCloseCtrlConn
    <3> QED BY <1>10, <2>1, <3>2, PlayerClosesType DEF HandleWriteError, handlerVars
  <2>3. CASE plyEnd[c] # "open"
    BY <1>10, <2>1, <2>3 DEF HandleWriteError, handlerVars
  <2> QED BY <2>2, <2>3
<1>11. CASE EndpointThrows(c)
  BY <1>11, ProcessEndsType DEF EndpointThrows
<1> QED BY <1>1, <1>2, <1>3, <1>4, <1>5, <1>6, <1>7, <1>8, <1>9, <1>10, <1>11 DEF ConnStep

\* The handlers that run for the player as a whole.
LEMMA PlayerStepType ==
  ASSUME PartyTypes, NEW p \in Players, PlayerStep(p)
  PROVE  PartyTypes'
<1> USE PostsAssumption DEF PartyTypes, LinkTypeOK, PlayerTypeOK
<1>f. ASSUME NEW e \in PlayerEvent, Forward(p, e), sessionConn[p] # NoConn
      PROVE  /\ toServer' \in [Conns -> Seq(PlayerMsg)]
             /\ txErr' \in [Conns -> BOOLEAN]
             /\ peer' \in [Conns -> PeerState]
  <2>1. <<Msg(e, NoSession)>> \in Seq(PlayerMsg)
    BY MsgType
  <2>2. sessionConn[p] \in Conns
    BY <1>f
  <2>3. CASE clntSM[sessionConn[p]] = "sessionMember"
    BY <1>f, <2>1, <2>2, <2>3, SendType DEF Forward
  <2>4. CASE clntSM[sessionConn[p]] # "sessionMember"
    BY <1>f, <2>4 DEF Forward
  <2> QED BY <2>3, <2>4
<1>1. CASE VolumeTimerExpires(p)
  BY <1>1 DEF VolumeTimerExpires, linkVars, sessionVars
<1>2. CASE ReportVolume(p)
  <2>1. Forward(p, "evVolume") /\ sessionConn[p] # NoConn
    BY <1>2 DEF ReportVolume
  <2>2. /\ toServer' \in [Conns -> Seq(PlayerMsg)]
        /\ txErr' \in [Conns -> BOOLEAN]
        /\ peer' \in [Conns -> PeerState]
    BY <2>1, <1>f DEF PlayerEvent
  <2> QED BY <1>2, <2>2 DEF ReportVolume, sessionVars
<1>3. CASE MeasureOffset(p)
  BY <1>3 DEF MeasureOffset, linkVars, sessionVars
<1>4. CASE OnClockOffset(p)
  <2>1. Forward(p, "evSessionError") /\ sessionConn[p] # NoConn
    BY <1>4 DEF OnClockOffset
  <2>2. /\ toServer' \in [Conns -> Seq(PlayerMsg)]
        /\ txErr' \in [Conns -> BOOLEAN]
        /\ peer' \in [Conns -> PeerState]
    BY <2>1, <1>f DEF PlayerEvent
  <2> QED BY <1>4, <2>2 DEF OnClockOffset, sessionVars
<1>5. CASE NullSessionConn(p)
  BY <1>5, ProcessEndsType DEF NullSessionConn
<1>6. CASE PlayerExit(p)
  BY <1>6, ProcessEndsType DEF PlayerExit
<1>7. CASE PlayerStart(p)
  BY <1>7 DEF PlayerStart, linkVars, sessionVars, handlerVars
<1> QED BY <1>1, <1>2, <1>3, <1>4, <1>5, <1>6, <1>7 DEF PlayerStep

-----------------------------------------------------------------------------
(* The session invariants.  OneMember is not inductive alone: a connection  *)
(* that is accepted must not be the one that holds the session, and one     *)
(* that the server opens must not be open already.                          *)

SessionInv == SessionComplete /\ OneMember /\ SessionConnOpen

\* A connection the server has not opened does not exist for the player.
Unopened == \A c \in Conns : srvEnd[c] = "unused" => plyEnd[c] = "unused"

PartyInv == PartyTypes /\ SessionInv /\ Unopened

\* The variables the session invariants speak of.
sessionState == <<plyEnd, clntSM, sessionConn, sessionName, mediaConn>>

LEMMA InvStable ==
  ASSUME PartyInv, UNCHANGED sessionState, UNCHANGED srvEnd
  PROVE  SessionInv' /\ Unopened'
BY DEF PartyInv, SessionInv, SessionComplete, OneMember, SessionConnOpen, Unopened, sessionState

\* What PlayerCloses does to the player's sockets.
LEMMA ClosesEnds ==
  ASSUME NEW C, PlayerCloses(C)
  PROVE  plyEnd' = [c \in Conns |-> IF c \in C THEN "closed" ELSE plyEnd[c]]
BY DEF PlayerCloses

\* onCloseCtrlConn on a connection that is open.
LEMMA CloseKeepsInv ==
  ASSUME PartyInv, NEW c \in Conns, plyEnd[c] = "open", OnCloseCtrlConn(c),
         UNCHANGED <<srvEnd, clntSM>>
  PROVE  SessionInv' /\ Unopened'
<1> USE ConnParties, NamesAssumption
    DEF PartyInv, PartyTypes, LinkTypeOK, PlayerTypeOK, SessionInv
<1>1. plyEnd' = [d \in Conns |-> IF d = c THEN "closed" ELSE plyEnd[d]]
  <2>1. PlayerCloses({c})
    BY DEF OnCloseCtrlConn
  <2> QED BY <2>1, ClosesEnds
<1>2. SessionComplete'
  BY DEF OnCloseCtrlConn, SessionComplete
<1>3. OneMember'
  BY <1>1 DEF OnCloseCtrlConn, OneMember
<1>4. SessionConnOpen'
  BY <1>1 DEF OnCloseCtrlConn, SessionConnOpen, ConnsOf
<1>5. Unopened'
  BY <1>1 DEF Unopened
<1> QED BY <1>2, <1>3, <1>4, <1>5

\* The end of a process gives up its session and closes its connections.
LEMMA ProcessEndsKeepsInv ==
  ASSUME PartyInv, NEW p \in Players, ProcessEnds(p)
  PROVE  SessionInv' /\ Unopened'
<1> USE ConnParties, NamesAssumption
    DEF PartyInv, PartyTypes, LinkTypeOK, PlayerTypeOK, SessionInv, ProcessEnds
<1>1. plyEnd' = [c \in Conns |->
         IF Ply(c) = p /\ plyEnd[c] \in {"pending", "open"} THEN "closed" ELSE plyEnd[c]]
  BY ClosesEnds DEF ConnsOf
<1>2. SessionComplete'
  BY DEF SessionComplete
<1>3. OneMember'
  <2> SUFFICES ASSUME NEW c \in Conns, plyEnd'[c] = "open"
               PROVE  clntSM'[c] = "sessionMember" <=> sessionConn'[Ply(c)] = c
    BY DEF OneMember
  <2>1. Ply(c) # p /\ plyEnd[c] = "open"
    BY <1>1
  <2> QED BY <2>1 DEF OneMember
<1>4. SessionConnOpen'
  BY <1>1 DEF SessionConnOpen, ConnsOf
<1>5. Unopened'
  BY <1>1 DEF Unopened
<1> QED BY <1>2, <1>3, <1>4, <1>5

\* The handlers of one connection.
LEMMA ConnStepInv ==
  ASSUME PartyInv, NEW c \in Conns, ConnStep(c)
  PROVE  SessionInv' /\ Unopened'
<1> USE ConnParties, NamesAssumption
    DEF PartyInv, PartyTypes, LinkTypeOK, PlayerTypeOK, SessionInv
<1>r. \A e : Reads(c, e) => plyEnd[c] = "open"
  BY DEF Reads
<1>1. CASE Accept(c)
  <2> USE <1>1 DEF Accept
  <2>1. SessionComplete'
    BY DEF SessionComplete
  <2>2. OneMember'
    BY DEF OneMember, SessionConnOpen
  <2>3. SessionConnOpen'
    BY DEF SessionConnOpen
  <2>4. Unopened'
    BY DEF Unopened
  <2> QED BY <2>1, <2>2, <2>3, <2>4
<1>2. CASE AcceptJoin(c)
  <2> USE <1>2 DEF AcceptJoin
  <2>1. SessionComplete'
    BY DEF SessionComplete
  <2>2. OneMember'
    BY DEF OneMember, mayJoinSession
  <2>3. SessionConnOpen'
    BY <1>r DEF SessionConnOpen, ConnsOf
  <2>4. Unopened'
    BY DEF Unopened
  <2> QED BY <2>1, <2>2, <2>3, <2>4
<1>3. CASE RejectJoin(c)
  BY <1>3, InvStable DEF RejectJoin, sessionVars, sessionState
<1>4. CASE LeaveSession(c)
  <2> USE <1>4 DEF LeaveSession
  <2>0. sessionConn[Ply(c)] = c
    BY <1>r DEF OneMember
  <2>1. SessionComplete'
    BY DEF SessionComplete
  <2>2. OneMember'
    BY <2>0 DEF OneMember
  <2>3. SessionConnOpen'
    BY DEF SessionConnOpen
  <2>4. Unopened'
    BY DEF Unopened
  <2> QED BY <2>1, <2>2, <2>3, <2>4
<1>5. CASE SetVolume(c)
  BY <1>5, InvStable DEF SetVolume, sessionVars, sessionState
<1>6. CASE SyncOrReset(c)
  BY <1>6, InvStable DEF SyncOrReset, playerVars, sessionState
<1>7. CASE NoTransition(c)
  BY <1>7, InvStable DEF NoTransition, playerVars, sessionState
<1>8. CASE ReadEof(c)
  BY <1>8, <1>r, CloseKeepsInv DEF ReadEof
<1>9. CASE ReadReset(c)
  BY <1>9, InvStable DEF ReadReset, sessionVars, sessionState
<1>10. CASE HandleWriteError(c)
  <2>1. CASE plyEnd[c] = "open"
    BY <1>10, <2>1, CloseKeepsInv DEF HandleWriteError
  <2>2. CASE plyEnd[c] # "open"
    BY <1>10, <2>2, InvStable DEF HandleWriteError, sessionState
  <2> QED BY <2>1, <2>2
<1>11. CASE EndpointThrows(c)
  BY <1>11, ProcessEndsKeepsInv DEF EndpointThrows
<1> QED BY <1>1, <1>2, <1>3, <1>4, <1>5, <1>6, <1>7, <1>8, <1>9, <1>10, <1>11 DEF ConnStep

\* The handlers of the player.
LEMMA PlayerStepInv ==
  ASSUME PartyInv, NEW p \in Players, PlayerStep(p)
  PROVE  SessionInv' /\ Unopened'
<1>1. CASE VolumeTimerExpires(p)
  BY <1>1, InvStable DEF VolumeTimerExpires, linkVars, sessionVars, sessionState
<1>2. CASE ReportVolume(p)
  BY <1>2, InvStable DEF ReportVolume, sessionVars, sessionState
<1>3. CASE MeasureOffset(p)
  BY <1>3, InvStable DEF MeasureOffset, linkVars, sessionVars, sessionState
<1>4. CASE OnClockOffset(p)
  BY <1>4, InvStable DEF OnClockOffset, sessionVars, sessionState
<1>5. CASE NullSessionConn(p)
  BY <1>5, ProcessEndsKeepsInv DEF NullSessionConn
<1>6. CASE PlayerExit(p)
  BY <1>6, ProcessEndsKeepsInv DEF PlayerExit
<1>7. CASE PlayerStart(p)
  BY <1>7, InvStable DEF PlayerStart, linkVars, sessionVars, sessionState
<1> QED BY <1>1, <1>2, <1>3, <1>4, <1>5, <1>6, <1>7 DEF PlayerStep
===============================================================================
