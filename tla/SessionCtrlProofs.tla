--------------------------- MODULE SessionCtrlProofs ---------------------------
(***************************************************************************)
(* Proofs about SessionCtrl for any servers, players, connections and      *)
(* bounds: the server's books, what its state machines and the player's    *)
(* make of the events under way, that both sides agree, and that players   *)
(* and servers together implement Membership.                              *)
(*                                                                         *)
(* The inductive invariant has three parts.  PartyInv is what a player     *)
(* keeps by itself (PlayerSteps).  Books is about the server's lists.      *)
(* FlowInv says of each connection which requests and answers are under    *)
(* way in each state of the server's machine, and where the player's       *)
(* machine is then: neither machine can be followed without the other.     *)
(***************************************************************************)
EXTENDS SessionCtrl, PlayerSteps, FiniteSetTheorems

-----------------------------------------------------------------------------
(* The events under way and the two machines of one connection: server's   *)
(* state sm, player's end and state cl, queues ts to the server and tp to  *)
(* the player.                                                             *)

Requests == {"evRequestJoin", "evRequestLeave"}
Kind(E) == {m \in PlayerMsg : m.ev \in E}
Replies == Kind({"evJoinAccepted", "evJoinRejected", "evSessionState", "evLeave"})
Acceptance == Kind({"evJoinAccepted"})
Refusal == Kind({"evJoinRejected"})
Confirmation == Kind({"evSessionState"})
Farewell == Kind({"evLeave"})

\* What a player whose end is not closed has: its machine is in the session or
\* not, and exactly one request, which it has yet to read.
Machine(end, cl, member) == end # "closed" => (cl = "sessionMember" <=> member)
Request(end, tp, ev) == end # "closed" => OneOf(tp, Requests, {ev})

Idle(sm, end, cl, ts, tp) ==
  /\ sm \in {"awaitClientState", "knowingClientState"}
  /\ NoneOf(ts, Replies) /\ NoneOf(tp, Requests) /\ Machine(end, cl, FALSE)

Asked(sm, end, cl, ts, tp) ==
  /\ sm = "awaitJoinResponse"
  /\ NoneOf(ts, Replies) /\ Request(end, tp, "evRequestJoin") /\ Machine(end, cl, FALSE)

Accepted(sm, end, cl, ts, tp) ==
  /\ sm = "awaitJoinResponse"
  /\ PairOf(ts, Replies, Acceptance, Confirmation)
  /\ NoneOf(tp, Requests) /\ Machine(end, cl, TRUE)

Rejected(sm, end, cl, ts, tp) ==
  /\ sm = "awaitJoinResponse"
  /\ OneOf(ts, Replies, Refusal) /\ NoneOf(tp, Requests) /\ Machine(end, cl, FALSE)

\* The acceptance has been read; the session state is next.
Agreed(sm, end, cl, ts, tp) ==
  /\ sm = "awaitSessionState"
  /\ ts # <<>> /\ Head(ts) \in Confirmation /\ OneOf(ts, Replies, Confirmation)
  /\ NoneOf(tp, Requests) /\ Machine(end, cl, TRUE)

Member(sm, end, cl, ts, tp) ==
  /\ sm = "sessionMember"
  /\ NoneOf(ts, Replies) /\ NoneOf(tp, Requests) /\ Machine(end, cl, TRUE)

Leaving(sm, end, cl, ts, tp) ==
  /\ sm = "leaveSession"
  /\ NoneOf(ts, Replies) /\ Request(end, tp, "evRequestLeave") /\ Machine(end, cl, TRUE)

Left(sm, end, cl, ts, tp) ==
  /\ sm = "leaveSession"
  /\ OneOf(ts, Replies, Farewell) /\ NoneOf(tp, Requests) /\ Machine(end, cl, FALSE)

Flow(sm, end, cl, ts, tp) ==
  \/ Idle(sm, end, cl, ts, tp) \/ Asked(sm, end, cl, ts, tp)
  \/ Accepted(sm, end, cl, ts, tp) \/ Rejected(sm, end, cl, ts, tp)
  \/ Agreed(sm, end, cl, ts, tp) \/ Member(sm, end, cl, ts, tp)
  \/ Leaving(sm, end, cl, ts, tp) \/ Left(sm, end, cl, ts, tp)

LEMMA KindsAreReplies ==
  /\ Acceptance \subseteq Replies /\ Refusal \subseteq Replies
  /\ Confirmation \subseteq Replies /\ Farewell \subseteq Replies
  /\ \A m \in Acceptance : m \notin Refusal \cup Confirmation \cup Farewell
  /\ \A m \in Refusal : m \notin Confirmation \cup Farewell
  /\ \A m \in Confirmation : m \notin Farewell
BY DEF Acceptance, Refusal, Confirmation, Farewell, Replies, Kind

\* The next message is read.
LEMMA TakeReply ==
  ASSUME NEW ts \in Seq(PlayerMsg), ts # <<>>
  PROVE  /\ NoneOf(ts, Replies) => Head(ts) \notin Replies /\ NoneOf(Tail(ts), Replies)
         /\ \A Y \in {Refusal, Confirmation, Farewell} :
              OneOf(ts, Replies, Y) =>
                \/ Head(ts) \in Y /\ NoneOf(Tail(ts), Replies)
                \/ Head(ts) \notin Replies /\ OneOf(Tail(ts), Replies, Y)
         /\ PairOf(ts, Replies, Acceptance, Confirmation) =>
              \/ /\ Head(ts) \in Acceptance /\ Tail(ts) # <<>>
                 /\ Head(Tail(ts)) \in Confirmation /\ OneOf(Tail(ts), Replies, Confirmation)
              \/ /\ Head(ts) \notin Replies
                 /\ PairOf(Tail(ts), Replies, Acceptance, Confirmation)
<1>1. ASSUME NEW Y \in {Refusal, Confirmation, Farewell}
      PROVE  OneOf(ts, Replies, Y) =>
                \/ Head(ts) \in Y /\ NoneOf(Tail(ts), Replies)
                \/ Head(ts) \notin Replies /\ OneOf(Tail(ts), Replies, Y)
  BY Take, KindsAreReplies
<1>2. NoneOf(ts, Replies) => Head(ts) \notin Replies /\ NoneOf(Tail(ts), Replies)
  BY Take, KindsAreReplies
<1>3. PairOf(ts, Replies, Acceptance, Confirmation) =>
              \/ /\ Head(ts) \in Acceptance /\ Tail(ts) # <<>>
                 /\ Head(Tail(ts)) \in Confirmation /\ OneOf(Tail(ts), Replies, Confirmation)
              \/ /\ Head(ts) \notin Replies
                 /\ PairOf(Tail(ts), Replies, Acceptance, Confirmation)
  BY Take, KindsAreReplies
<1> QED BY <1>1, <1>2, <1>3

LEMMA TakeRequest ==
  ASSUME NEW tp \in Seq(ServerEvent \cup Hangup), tp # <<>>
  PROVE  /\ NoneOf(tp, Requests) => Head(tp) \notin Requests /\ NoneOf(Tail(tp), Requests)
         /\ \A ev \in Requests : OneOf(tp, Requests, {ev}) =>
              \/ Head(tp) = ev /\ NoneOf(Tail(tp), Requests)
              \/ Head(tp) \notin Requests /\ OneOf(Tail(tp), Requests, {ev})
<1>1. ASSUME NEW ev \in Requests
      PROVE  OneOf(tp, Requests, {ev}) =>
              \/ Head(tp) = ev /\ NoneOf(Tail(tp), Requests)
              \/ Head(tp) \notin Requests /\ OneOf(Tail(tp), Requests, {ev})
  BY Take
<1>2. NoneOf(tp, Requests) => Head(tp) \notin Requests /\ NoneOf(Tail(tp), Requests)
  BY Take
<1> QED BY <1>1, <1>2

\* The player sends what answers no request.
LEMMA SendsOther ==
  ASSUME NEW sm, NEW end, NEW cl, NEW ts \in Seq(PlayerMsg), NEW tp,
         NEW m \in PlayerMsg, m \notin Replies, Flow(sm, end, cl, ts, tp)
  PROVE  Flow(sm, end, cl, Append(ts, m), tp)
<1>1. /\ NoneOf(ts, Replies) => NoneOf(Append(ts, m), Replies)
      /\ PairOf(ts, Replies, Acceptance, Confirmation) =>
           PairOf(Append(ts, m), Replies, Acceptance, Confirmation)
  BY PutOther
<1>2. \A Y \in {Refusal, Confirmation, Farewell} :
        OneOf(ts, Replies, Y) => OneOf(Append(ts, m), Replies, Y)
  BY PutOther
<1>3. ts # <<>> => Append(ts, m) # <<>> /\ Head(Append(ts, m)) = Head(ts)
  BY PutBehind
<1> QED BY <1>1, <1>2, <1>3 DEF Flow, Idle, Asked, Accepted, Rejected, Agreed, Member, Leaving, Left

\* The player reads what is no request.
LEMMA ReadsOther ==
  ASSUME NEW sm, NEW end, NEW cl, NEW ts, NEW tp \in Seq(ServerEvent \cup Hangup),
         tp # <<>>, Head(tp) \notin Requests, Flow(sm, end, cl, ts, tp)
  PROVE  Flow(sm, end, cl, ts, Tail(tp))
BY TakeRequest DEF Flow, Idle, Asked, Accepted, Rejected, Agreed, Member, Leaving, Left, Request, Requests

\* A request finds the player's machine in the state it is meant for.
LEMMA RequestFits ==
  ASSUME NEW sm, NEW end, NEW cl, NEW ts, NEW tp \in Seq(ServerEvent \cup Hangup),
         tp # <<>>, end # "closed", Flow(sm, end, cl, ts, tp)
  PROVE  /\ Head(tp) = "evRequestJoin" =>
              Asked(sm, end, cl, ts, tp) /\ NoneOf(Tail(tp), Requests)
         /\ Head(tp) = "evRequestLeave" =>
              Leaving(sm, end, cl, ts, tp) /\ NoneOf(Tail(tp), Requests)
BY TakeRequest DEF Flow, Idle, Asked, Accepted, Rejected, Agreed, Member, Leaving, Left, Request, Requests

\* The player answers a request.
LEMMA AcceptsJoin ==
  ASSUME NEW sm, NEW end, NEW cl, NEW ts \in Seq(PlayerMsg),
         NEW tp \in Seq(ServerEvent \cup Hangup), tp # <<>>, end # "closed",
         Flow(sm, end, cl, ts, tp), Head(tp) = "evRequestJoin",
         NEW a \in Acceptance, NEW b \in Confirmation
  PROVE  Flow(sm, end, "sessionMember", ts \o <<a, b>>, Tail(tp))
<1>1. Asked(sm, end, cl, ts, tp) /\ NoneOf(Tail(tp), Requests)
  BY RequestFits
<1>2. a \in PlayerMsg /\ b \in PlayerMsg
  BY DEF Acceptance, Confirmation, Kind
<1>3. PairOf(ts \o <<a, b>>, Replies, Acceptance, Confirmation)
  BY <1>1, <1>2, PutPair DEF Asked
<1>4. Accepted(sm, end, "sessionMember", ts \o <<a, b>>, Tail(tp))
  BY <1>1, <1>3 DEF Asked, Accepted, Machine
<1> QED BY <1>4 DEF Flow

LEMMA RejectsJoin ==
  ASSUME NEW sm, NEW end, NEW cl, NEW ts \in Seq(PlayerMsg),
         NEW tp \in Seq(ServerEvent \cup Hangup), tp # <<>>, end # "closed",
         Flow(sm, end, cl, ts, tp), Head(tp) = "evRequestJoin",
         NEW a \in Refusal, NEW b \in PlayerMsg, b \notin Replies
  PROVE  Flow(sm, end, cl, ts \o <<a, b>>, Tail(tp))
<1>1. Asked(sm, end, cl, ts, tp) /\ NoneOf(Tail(tp), Requests)
  BY RequestFits
<1>2. a \in PlayerMsg
  BY DEF Refusal, Kind
<1>3. OneOf(Append(ts, a), Replies, Refusal)
  BY <1>1, <1>2, PutOne DEF Asked
<1>4. Rejected(sm, end, cl, Append(ts, a), Tail(tp))
  BY <1>1, <1>3 DEF Asked, Rejected
<1>5. Append(ts, a) \in Seq(PlayerMsg) /\ ts \o <<a, b>> = Append(Append(ts, a), b)
  BY <1>2, PutTwo
<1> QED BY <1>4, <1>5, SendsOther DEF Flow

LEMMA LeavesSession ==
  ASSUME NEW sm, NEW end, NEW cl, NEW cl2, NEW ts \in Seq(PlayerMsg),
         NEW tp \in Seq(ServerEvent \cup Hangup), tp # <<>>, end # "closed",
         Flow(sm, end, cl, ts, tp), Head(tp) = "evRequestLeave", cl2 # "sessionMember",
         NEW a \in Farewell, NEW b \in PlayerMsg, b \notin Replies
  PROVE  Flow(sm, end, cl2, ts \o <<a, b>>, Tail(tp))
<1>1. Leaving(sm, end, cl, ts, tp) /\ NoneOf(Tail(tp), Requests)
  BY RequestFits
<1>2. a \in PlayerMsg
  BY DEF Farewell, Kind
<1>3. OneOf(Append(ts, a), Replies, Farewell)
  BY <1>1, <1>2, PutOne DEF Leaving
<1>4. Left(sm, end, cl2, Append(ts, a), Tail(tp))
  BY <1>1, <1>3 DEF Leaving, Left, Machine
<1>5. Append(ts, a) \in Seq(PlayerMsg) /\ ts \o <<a, b>> = Append(Append(ts, a), b)
  BY <1>2, PutTwo
<1> QED BY <1>4, <1>5, SendsOther DEF Flow

\* The connection is accepted.
LEMMA PlayerAccepts ==
  ASSUME NEW sm, NEW ts, NEW tp, Flow(sm, "pending", "none", ts, tp)
  PROVE  Flow(sm, "open", "awaitReaction", ts, tp)
BY DEF Flow, Idle, Asked, Accepted, Rejected, Agreed, Member, Leaving, Left, Machine, Request

\* The player closes its end; the server hears of it behind all else.
LEMMA PlayerEnds ==
  ASSUME NEW sm, NEW end, NEW cl, NEW cl2, NEW ts \in Seq(PlayerMsg), NEW tp,
         NEW m \in PlayerMsg, m \notin Replies, Flow(sm, end, cl, ts, tp)
  PROVE  Flow(sm, "closed", cl2, Append(ts, m), <<>>)
<1>1. Flow(sm, end, cl, Append(ts, m), tp)
  BY SendsOther
<1>2. NoneOf(<<>>, Requests)
  BY DEF NoneOf
<1> QED BY <1>1, <1>2 DEF Flow, Idle, Asked, Accepted, Rejected, Agreed, Member, Leaving, Left, Machine, Request

\* The server reads what is no answer.
LEMMA SkipsOther ==
  ASSUME NEW sm, NEW end, NEW cl, NEW ts \in Seq(PlayerMsg), NEW tp,
         ts # <<>>, Head(ts) \notin Replies, Flow(sm, end, cl, ts, tp)
  PROVE  Flow(sm, end, cl, Tail(ts), tp) /\ sm # "awaitSessionState"
BY TakeReply, KindsAreReplies DEF Flow, Idle, Asked, Accepted, Rejected, Agreed, Member, Leaving, Left

\* An answer finds the server's machine in the state that waits for it.
LEMMA AnswerFits ==
  ASSUME NEW sm, NEW end, NEW cl, NEW ts \in Seq(PlayerMsg), NEW tp,
         ts # <<>>, Flow(sm, end, cl, ts, tp)
  PROVE  /\ Head(ts) \in Acceptance =>
              sm = "awaitJoinResponse" /\ Flow("awaitSessionState", end, cl, Tail(ts), tp)
         /\ Head(ts) \in Refusal =>
              sm = "awaitJoinResponse" /\ Flow("knowingClientState", end, cl, Tail(ts), tp)
         /\ Head(ts) \in Confirmation =>
              sm = "awaitSessionState" /\ Flow("sessionMember", end, cl, Tail(ts), tp)
         /\ Head(ts) \in Farewell =>
              sm = "leaveSession" /\ Flow("knowingClientState", end, cl, Tail(ts), tp)
BY TakeReply, KindsAreReplies DEF Flow, Idle, Asked, Accepted, Rejected, Agreed, Member, Leaving, Left

\* The client state does not disturb a machine that waits for nothing else.
LEMMA KnowsClient ==
  ASSUME NEW sm, NEW end, NEW cl, NEW ts, NEW tp,
         sm \in {"awaitClientState", "knowingClientState"}, Flow(sm, end, cl, ts, tp)
  PROVE  Flow("knowingClientState", end, cl, ts, tp)
BY DEF Flow, Idle, Asked, Accepted, Rejected, Agreed, Member, Leaving, Left

\* The server sends a request, which is lost when the player's end is closed.
LEMMA AsksToJoin ==
  ASSUME NEW end, NEW cl, NEW ts, NEW tp \in Seq(ServerEvent \cup Hangup),
         Flow("knowingClientState", end, cl, ts, tp)
  PROVE  /\ end = "closed" => Flow("awaitJoinResponse", end, cl, ts, tp)
         /\ Flow("awaitJoinResponse", end, cl, ts, Append(tp, "evRequestJoin"))
<1>1. NoneOf(tp, Requests) => OneOf(Append(tp, "evRequestJoin"), Requests, {"evRequestJoin"})
  BY PutOne DEF ServerEvent
<1> QED BY <1>1 DEF Flow, Idle, Asked, Accepted, Rejected, Agreed, Member, Leaving, Left, Request

LEMMA AsksToLeave ==
  ASSUME NEW end, NEW cl, NEW ts, NEW tp \in Seq(ServerEvent \cup Hangup),
         Flow("sessionMember", end, cl, ts, tp)
  PROVE  /\ end = "closed" => Flow("leaveSession", end, cl, ts, tp)
         /\ Flow("leaveSession", end, cl, ts, Append(tp, "evRequestLeave"))
<1>1. NoneOf(tp, Requests) => OneOf(Append(tp, "evRequestLeave"), Requests, {"evRequestLeave"})
  BY PutOne DEF ServerEvent
<1> QED BY <1>1 DEF Flow, Idle, Asked, Accepted, Rejected, Agreed, Member, Leaving, Left, Request

\* The server sends a volume, which is no request.
LEMMA SendsVolume ==
  ASSUME NEW sm, NEW end, NEW cl, NEW ts, NEW tp \in Seq(ServerEvent \cup Hangup),
         Flow(sm, end, cl, ts, tp)
  PROVE  Flow(sm, end, cl, ts, Append(tp, "evSetVolume"))
<1>1. NoneOf(tp, Requests) => NoneOf(Append(tp, "evSetVolume"), Requests)
  BY PutOther DEF ServerEvent, Requests
<1>2. ASSUME NEW ev
      PROVE  OneOf(tp, Requests, {ev}) => OneOf(Append(tp, "evSetVolume"), Requests, {ev})
  BY PutOther DEF ServerEvent, Requests
<1> QED BY <1>1, <1>2 DEF Flow, Idle, Asked, Accepted, Rejected, Agreed, Member, Leaving, Left, Request

\* A new connection.
LEMMA FlowStarts == Flow("awaitClientState", "pending", "none", <<>>, <<>>)
BY DEF Flow, Idle, NoneOf, Machine

-----------------------------------------------------------------------------
(* The inductive invariant.                                                *)

FlowAt(c) == Flow(srvSM[c], plyEnd[c], clntSM[c], toServer[c], toPlayer[c])

\* What a connection is before it is opened, accepted and after it was closed.
Ends(c) ==
  /\ srvEnd[c] # "open" <=> srvSM[c] = "none"
  /\ srvEnd[c] = "unused" => toServer[c] = <<>> /\ toPlayer[c] = <<>>
  /\ srvEnd[c] = "open" => plyEnd[c] # "unused"
  /\ plyEnd[c] \in {"unused", "pending"} => clntSM[c] = "none"

FlowOK(c) == Ends(c) /\ (srvEnd[c] = "open" => FlowAt(c))

FlowInv == \A c \in Conns : FlowOK(c)

Books ==
  /\ OneConnection /\ ListsMatchStates
  /\ \A c \in Tracked : Ply(c) \in announced[Srv(c)]
  /\ \A c \in Conns : srvSM[c] = "leaveSession" => c \in joined

IInv == TypeOK /\ SessionInv /\ Unopened /\ Books /\ FlowInv

\* Nothing of connection c changes that Flow and Ends speak of.
Same(c) ==
  /\ srvSM'[c] = srvSM[c] /\ srvEnd'[c] = srvEnd[c]
  /\ plyEnd'[c] = plyEnd[c] /\ clntSM'[c] = clntSM[c]
  /\ toServer'[c] = toServer[c] /\ toPlayer'[c] = toPlayer[c]

LEMMA SameKeeps ==
  ASSUME NEW c \in Conns, FlowOK(c), Same(c)
  PROVE  FlowOK(c)'
BY DEF FlowOK, FlowAt, Ends, Same

LEMMA OthersSame ==
  ASSUME FlowInv, NEW c \in Conns, FlowOK(c)', \A d \in Conns \ {c} : Same(d)
  PROVE  FlowInv'
BY SameKeeps DEF FlowInv

-----------------------------------------------------------------------------
(* The player's steps.                                                     *)

\* A message on its way to the server is an answer or it is not.
LEMMA MsgKind ==
  ASSUME NEW e \in PlayerEvent \cup Hangup, NEW s \in Servers \cup {NoSession}
  PROVE  /\ Msg(e, s) \in PlayerMsg
         /\ e = "evJoinAccepted" => Msg(e, s) \in Acceptance
         /\ e = "evJoinRejected" => Msg(e, s) \in Refusal
         /\ e = "evSessionState" => Msg(e, s) \in Confirmation
         /\ e = "evLeave" => Msg(e, s) \in Farewell
         /\ e \in {"evClientState", "evVolume", "evSessionError", "eof", "rst"} =>
              Msg(e, s) \notin Replies
BY MsgType DEF Acceptance, Refusal, Confirmation, Farewell, Replies, Kind, Msg

\* A send reaches the server's queue of that connection, or is lost.
LEMMA SendEffect ==
  ASSUME LinkTypeOK, NEW c \in Conns, NEW msgs, Send(c, msgs)
  PROVE  /\ srvEnd[c] = "open" => toServer'[c] = toServer[c] \o msgs
         /\ srvEnd[c] # "open" => toServer'[c] = toServer[c]
         /\ \A d \in Conns \ {c} : toServer'[d] = toServer[d]
BY DEF Send, LinkTypeOK

\* Closing ends adds a hangup to what is under way.
LEMMA ClosesEffect ==
  ASSUME LinkTypeOK, NEW C, PlayerCloses(C)
  PROVE  /\ \A c \in Conns : c \in C =>
              /\ plyEnd'[c] = "closed" /\ toPlayer'[c] = <<>>
              /\ srvEnd[c] = "open" =>
                   \E m \in PlayerMsg : m \notin Replies /\ toServer'[c] = Append(toServer[c], m)
              /\ srvEnd[c] # "open" => toServer'[c] = toServer[c]
         /\ \A c \in Conns : c \notin C =>
              plyEnd'[c] = plyEnd[c] /\ toPlayer'[c] = toPlayer[c] /\ toServer'[c] = toServer[c]
<1>1. PICK R :
        /\ plyEnd' = [c \in Conns |-> IF c \in C THEN "closed" ELSE plyEnd[c]]
        /\ toPlayer' = [c \in Conns |-> IF c \in C THEN <<>> ELSE toPlayer[c]]
        /\ toServer' = [c \in Conns |->
             IF c \in C /\ srvEnd[c] = "open"
             THEN Append(toServer[c], Msg(IF c \in R THEN "rst" ELSE "eof", NoSession))
             ELSE toServer[c]]
  BY DEF PlayerCloses
<1>2. \A c : LET m == Msg(IF c \in R THEN "rst" ELSE "eof", NoSession)
             IN m \in PlayerMsg /\ m \notin Replies
  BY MsgKind DEF Hangup
<1> QED BY <1>1, <1>2

\* A connection whose end the player closes, whatever its machine becomes.
LEMMA ClosedFlow ==
  ASSUME LinkTypeOK, NEW c \in Conns, FlowOK(c), plyEnd[c] # "unused",
         plyEnd'[c] = "closed", srvSM'[c] = srvSM[c], srvEnd'[c] = srvEnd[c], Unopened,
         \/ /\ toPlayer'[c] = <<>>
            /\ srvEnd[c] = "open" =>
                 \E m \in PlayerMsg : m \notin Replies /\ toServer'[c] = Append(toServer[c], m)
         \/ /\ plyEnd[c] = "closed"
            /\ toPlayer'[c] = toPlayer[c] /\ toServer'[c] = toServer[c]
  PROVE  FlowOK(c)'
<1>1. Ends(c)'
  BY DEF FlowOK, Ends, Unopened
<1>2. ASSUME srvEnd[c] = "open" PROVE FlowAt(c)'
  <2>1. Flow(srvSM[c], plyEnd[c], clntSM[c], toServer[c], toPlayer[c])
    BY <1>2 DEF FlowOK, FlowAt
  <2>2. CASE toPlayer'[c] = <<>> /\ \E m \in PlayerMsg : m \notin Replies /\ toServer'[c] = Append(toServer[c], m)
    <3>1. PICK m \in PlayerMsg : m \notin Replies /\ toServer'[c] = Append(toServer[c], m)
      BY <2>2
    <3>2. toServer[c] \in Seq(PlayerMsg)
      BY DEF LinkTypeOK
    <3>3. Flow(srvSM[c], "closed", clntSM'[c], Append(toServer[c], m), <<>>)
      BY <2>1, <3>1, <3>2, PlayerEnds
    <3> QED BY <2>2, <3>1, <3>3 DEF FlowAt
  <2>3. CASE plyEnd[c] = "closed" /\ toPlayer'[c] = toPlayer[c] /\ toServer'[c] = toServer[c]
    <3>1. Flow(srvSM[c], "closed", clntSM'[c], toServer[c], toPlayer[c])
      BY <2>1, <2>3 DEF Flow, Idle, Asked, Accepted, Rejected, Agreed, Member, Leaving, Left,
                        Machine, Request
    <3> QED BY <2>3, <3>1 DEF FlowAt
  <2> QED BY <1>2, <2>2, <2>3
<1> QED BY <1>1, <1>2 DEF FlowOK

\* The end of a player's process.
LEMMA ProcessEndsFlow ==
  ASSUME LinkTypeOK, PlayerTypeOK, Unopened, FlowInv, NEW p \in Players, ProcessEnds(p),
         UNCHANGED srvSM
  PROVE  FlowInv'
<1> DEFINE C == {c \in ConnsOf(p) : plyEnd[c] \in {"pending", "open"}}
<1>1. PlayerCloses(C) /\ srvEnd' = srvEnd
  BY DEF ProcessEnds
<1>2. \A c \in Conns : clntSM'[c] = IF Ply(c) = p THEN "none" ELSE clntSM[c]
  BY DEF ProcessEnds
<1> SUFFICES ASSUME NEW c \in Conns PROVE FlowOK(c)'
  BY DEF FlowInv
<1>3. FlowOK(c)
  BY DEF FlowInv
<1>4. CASE c \in C
  <2>1. /\ plyEnd'[c] = "closed" /\ toPlayer'[c] = <<>>
        /\ srvEnd[c] = "open" =>
             \E m \in PlayerMsg : m \notin Replies /\ toServer'[c] = Append(toServer[c], m)
    BY <1>1, <1>4, ClosesEffect
  <2> QED BY <1>1, <1>3, <1>4, <2>1, ClosedFlow
<1>5. CASE c \notin C
  <2>1. plyEnd'[c] = plyEnd[c] /\ toPlayer'[c] = toPlayer[c] /\ toServer'[c] = toServer[c]
    BY <1>1, <1>5, ClosesEffect
  <2>2. CASE Ply(c) # p
    <3>1. Same(c)
      BY <1>1, <1>2, <2>1, <2>2 DEF Same
    <3> QED BY <1>3, <3>1, SameKeeps
  <2>3. CASE Ply(c) = p /\ plyEnd[c] = "closed"
    BY <1>1, <1>3, <2>1, <2>3, ClosedFlow
  <2>4. CASE Ply(c) = p /\ plyEnd[c] = "unused"
    <3>1. clntSM'[c] = clntSM[c]
      BY <1>2, <1>3, <2>4 DEF FlowOK, Ends
    <3> QED BY <1>1, <1>3, <2>1, <3>1, SameKeeps DEF Same
  <2> QED BY <1>5, <2>2, <2>3, <2>4 DEF PlayerTypeOK, LinkTypeOK, EndState, ConnsOf
<1> QED BY <1>4, <1>5

\* Closing one connection, which the player's machine does not notice.
LEMMA CloseFlow ==
  ASSUME LinkTypeOK, Unopened, FlowInv, NEW c \in Conns, plyEnd[c] = "open",
         OnCloseCtrlConn(c), UNCHANGED <<srvEnd, srvSM, clntSM>>
  PROVE  FlowInv'
<1>1. PlayerCloses({c})
  BY DEF OnCloseCtrlConn
<1>2. FlowOK(c)'
  <2>1. /\ plyEnd'[c] = "closed" /\ toPlayer'[c] = <<>>
        /\ srvEnd[c] = "open" =>
             \E m \in PlayerMsg : m \notin Replies /\ toServer'[c] = Append(toServer[c], m)
    BY <1>1, ClosesEffect
  <2> QED BY <2>1, ClosedFlow DEF FlowInv
<1>3. \A d \in Conns \ {c} : Same(d)
  BY <1>1, ClosesEffect DEF Same
<1> QED BY <1>2, <1>3, OthersSame

\* What the player reads without an answer, in any state of its machine.
LEMMA ReadsFlow ==
  ASSUME LinkTypeOK, Unopened, FlowInv, NEW c \in Conns, plyEnd[c] = "open", toPlayer[c] # <<>>,
         srvEnd[c] = "open" => Head(toPlayer[c]) \notin Requests,
         Consume(c), UNCHANGED <<toServer, plyEnd, srvEnd, srvSM, clntSM>>
  PROVE  FlowInv'
<1>1. /\ toPlayer'[c] = Tail(toPlayer[c])
      /\ \A d \in Conns \ {c} : Same(d)
  BY DEF Consume, Same, LinkTypeOK
<1>2. FlowOK(c)'
  <2>1. Ends(c)'
    BY DEF FlowInv, FlowOK, Ends, Unopened
  <2>2. ASSUME srvEnd[c] = "open" PROVE FlowAt(c)'
    BY <1>1, <2>2, ReadsOther DEF FlowInv, FlowOK, FlowAt, LinkTypeOK
  <2> QED BY <2>1, <2>2 DEF FlowOK
<1> QED BY <1>1, <1>2, OthersSame

\* The handlers of one connection keep machines and queues in step.
LEMMA ConnStepFlow ==
  ASSUME LinkTypeOK, PlayerTypeOK, Unopened, NamesAssumption, SessionInv, FlowInv,
         NEW c \in Conns, ConnStep(c), UNCHANGED srvSM
  PROVE  FlowInv'
<1> USE DEF LinkTypeOK
<1>r. \A e : Reads(c, e) => plyEnd[c] = "open" /\ toPlayer[c] # <<>> /\ Head(toPlayer[c]) = e
  BY DEF Reads
<1>f. FlowOK(c) /\ Ply(c) \in Players /\ (plyEnd[c] = "open" => srvEnd[c] # "unused")
  BY ConnParties DEF FlowInv, Unopened
<1>s. sessionName[Ply(c)] \in Servers \cup {NoSession}
  BY <1>f DEF PlayerTypeOK
<1>q. toServer[c] \in Seq(PlayerMsg) /\ toPlayer[c] \in Seq(ServerEvent \cup Hangup)
  OBVIOUS
<1>1. CASE Accept(c)
  <2> DEFINE m == ClientState(sessionName[Ply(c)])
  <2>1. m \in PlayerMsg /\ m \notin Replies
    BY <1>s, MsgKind DEF ClientState, PlayerEvent
  <2> HIDE DEF m
  <2>2. /\ Send(c, <<m>>) /\ plyEnd[c] = "pending" /\ plyEnd'[c] = "open"
        /\ clntSM'[c] = "awaitReaction"
        /\ UNCHANGED <<toPlayer, srvEnd>>
        /\ \A d \in Conns \ {c} : plyEnd'[d] = plyEnd[d] /\ clntSM'[d] = clntSM[d]
    BY <1>1 DEF Accept, PlayerTypeOK, m
  <2>3. /\ srvEnd[c] = "open" => toServer'[c] = Append(toServer[c], m)
        /\ \A d \in Conns \ {c} : toServer'[d] = toServer[d]
    <3>1. toServer[c] \o <<m>> = Append(toServer[c], m)
      BY <1>q, <2>1
    <3> QED BY <2>2, <3>1, SendEffect
  <2>4. Ends(c)'
    BY <2>2, <1>f DEF FlowOK, Ends, Unopened
  <2>5. ASSUME srvEnd[c] = "open" PROVE FlowAt(c)'
    <3>1. Flow(srvSM[c], "pending", "none", toServer[c], toPlayer[c])
      BY <1>f, <2>2, <2>5 DEF FlowOK, FlowAt, Ends
    <3>2. Flow(srvSM[c], "open", "awaitReaction", toServer[c], toPlayer[c])
      BY <3>1, PlayerAccepts
    <3>3. Flow(srvSM[c], "open", "awaitReaction", Append(toServer[c], m), toPlayer[c])
      BY <1>q, <2>1, <3>2, SendsOther
    <3> QED BY <2>2, <2>3, <2>5, <3>3 DEF FlowAt
  <2>6. FlowOK(c)'
    BY <2>2, <2>4, <2>5 DEF FlowOK
  <2>7. \A d \in Conns \ {c} : Same(d)
    BY <2>2, <2>3 DEF Same
  <2> QED BY <2>6, <2>7, OthersSame
<1>a. ASSUME NEW a \in PlayerMsg, NEW b \in PlayerMsg, NEW e,
             Reads(c, e), Consume(c), Send(c, <<a, b>>), UNCHANGED <<plyEnd, srvEnd>>,
             clntSM'[c] # "none", \A d \in Conns \ {c} : clntSM'[d] = clntSM[d],
             srvEnd[c] = "open" =>
               Flow(srvSM[c], plyEnd[c], clntSM'[c], toServer[c] \o <<a, b>>, Tail(toPlayer[c]))
      PROVE  FlowInv'
  <2>1. /\ srvEnd[c] = "open" => toServer'[c] = toServer[c] \o <<a, b>>
        /\ toPlayer'[c] = Tail(toPlayer[c])
        /\ \A d \in Conns \ {c} : toServer'[d] = toServer[d] /\ toPlayer'[d] = toPlayer[d]
    BY <1>a, SendEffect DEF Consume
  <2>2. FlowOK(c)'
    BY <1>a, <1>r, <1>f, <2>1 DEF FlowOK, FlowAt, Ends
  <2>3. \A d \in Conns \ {c} : Same(d)
    BY <1>a, <2>1 DEF Same
  <2> QED BY <2>2, <2>3, OthersSame
<1>2. CASE AcceptJoin(c)
  <2> DEFINE a == Msg("evJoinAccepted", NoSession)
             b == Msg("evSessionState", NoSession)
  <2>1. a \in Acceptance /\ b \in Confirmation /\ a \in PlayerMsg /\ b \in PlayerMsg
    BY MsgKind DEF PlayerEvent
  <2> HIDE DEF a, b
  <2>2. /\ Reads(c, "evRequestJoin") /\ Consume(c) /\ Send(c, <<a, b>>)
        /\ UNCHANGED <<plyEnd, srvEnd>>
        /\ clntSM'[c] = "sessionMember" /\ \A d \in Conns \ {c} : clntSM'[d] = clntSM[d]
    BY <1>2 DEF AcceptJoin, PlayerTypeOK, a, b
  <2>3. ASSUME srvEnd[c] = "open"
        PROVE  Flow(srvSM[c], plyEnd[c], "sessionMember", toServer[c] \o <<a, b>>, Tail(toPlayer[c]))
    BY <1>r, <1>f, <1>q, <2>1, <2>2, <2>3, AcceptsJoin DEF FlowOK, FlowAt
  <2> QED BY <1>a, <2>1, <2>2, <2>3
<1>3. CASE RejectJoin(c)
  <2> DEFINE a == Msg("evJoinRejected", sessionName[Ply(c)])
             b == ClientState(sessionName[Ply(c)])
  <2>1. a \in Refusal /\ a \in PlayerMsg /\ b \in PlayerMsg /\ b \notin Replies
    BY <1>s, MsgKind DEF PlayerEvent, ClientState
  <2> HIDE DEF a, b
  <2>2. /\ Reads(c, "evRequestJoin") /\ Consume(c) /\ Send(c, <<a, b>>)
        /\ UNCHANGED <<plyEnd, srvEnd, clntSM>> /\ clntSM[c] = "awaitReaction"
    BY <1>3 DEF RejectJoin, sessionVars, a, b
  <2>3. ASSUME srvEnd[c] = "open"
        PROVE  Flow(srvSM[c], plyEnd[c], clntSM[c], toServer[c] \o <<a, b>>, Tail(toPlayer[c]))
    BY <1>r, <1>f, <1>q, <2>1, <2>2, <2>3, RejectsJoin DEF FlowOK, FlowAt
  <2> QED BY <1>a, <2>1, <2>2, <2>3
<1>4. CASE LeaveSession(c)
  <2> DEFINE a == Msg("evLeave", sessionName[Ply(c)])
             b == ClientState(NoSession)
  <2>1. a \in Farewell /\ a \in PlayerMsg /\ b \in PlayerMsg /\ b \notin Replies
    BY <1>s, MsgKind DEF PlayerEvent, ClientState
  <2> HIDE DEF a, b
  <2>2. /\ Reads(c, "evRequestLeave") /\ Consume(c) /\ Send(c, <<a, b>>)
        /\ UNCHANGED <<plyEnd, srvEnd>>
        /\ clntSM'[c] = "awaitReaction" /\ \A d \in Conns \ {c} : clntSM'[d] = clntSM[d]
    BY <1>4 DEF LeaveSession, PlayerTypeOK, a, b
  <2>3. ASSUME srvEnd[c] = "open"
        PROVE  Flow(srvSM[c], plyEnd[c], "awaitReaction", toServer[c] \o <<a, b>>, Tail(toPlayer[c]))
    BY <1>r, <1>f, <1>q, <2>1, <2>2, <2>3, LeavesSession DEF FlowOK, FlowAt
  <2> QED BY <1>a, <2>1, <2>2, <2>3
<1>5. CASE SetVolume(c)
  <2>1. Head(toPlayer[c]) \notin Requests /\ plyEnd[c] = "open" /\ toPlayer[c] # <<>>
    BY <1>5, <1>r DEF SetVolume, Requests
  <2> QED BY <1>5, <2>1, ReadsFlow DEF SetVolume, sessionVars
<1>6. CASE SyncOrReset(c)
  <2>1. Head(toPlayer[c]) \notin Requests /\ plyEnd[c] = "open" /\ toPlayer[c] # <<>>
    BY <1>6, <1>r DEF SyncOrReset, Requests
  <2> QED BY <1>6, <2>1, ReadsFlow DEF SyncOrReset, playerVars
<1>7. CASE NoTransition(c)
  <2>1. plyEnd[c] = "open" /\ toPlayer[c] # <<>> /\ Consume(c)
        /\ UNCHANGED <<toServer, plyEnd, srvEnd, clntSM>>
    BY <1>7, <1>r DEF NoTransition, playerVars
  <2>2. ASSUME srvEnd[c] = "open" PROVE Head(toPlayer[c]) \notin Requests
    <3>1. Flow(srvSM[c], plyEnd[c], clntSM[c], toServer[c], toPlayer[c])
      BY <1>f, <2>2 DEF FlowOK, FlowAt
    <3>2. /\ Head(toPlayer[c]) = "evRequestJoin" => clntSM[c] # "sessionMember"
          /\ Head(toPlayer[c]) = "evRequestLeave" => clntSM[c] = "sessionMember"
      <4>1. /\ Head(toPlayer[c]) = "evRequestJoin" =>
                 Asked(srvSM[c], plyEnd[c], clntSM[c], toServer[c], toPlayer[c])
            /\ Head(toPlayer[c]) = "evRequestLeave" =>
                 Leaving(srvSM[c], plyEnd[c], clntSM[c], toServer[c], toPlayer[c])
        BY <1>q, <2>1, <3>1, RequestFits
      <4> QED BY <2>1, <4>1 DEF Asked, Leaving, Machine
    <3>3. \/ clntSM[c] = "awaitReaction" /\ Head(toPlayer[c]) # "evRequestJoin"
          \/ clntSM[c] = "sessionMember" /\ Head(toPlayer[c]) = "evRequestJoin"
      BY <1>7, <1>r DEF NoTransition
    <3> QED BY <3>2, <3>3 DEF Requests
  <2> QED BY <2>1, <2>2, ReadsFlow
<1>8. CASE ReadEof(c)
  BY <1>8, <1>r, CloseFlow DEF ReadEof
<1>9. CASE ReadReset(c)
  <2>1. Head(toPlayer[c]) \notin Requests /\ plyEnd[c] = "open" /\ toPlayer[c] # <<>>
    BY <1>9, <1>r DEF ReadReset, Requests
  <2> QED BY <1>9, <2>1, ReadsFlow DEF ReadReset, sessionVars
<1>10. CASE HandleWriteError(c)
  <2>1. CASE plyEnd[c] = "open"
    BY <1>10, <2>1, CloseFlow DEF HandleWriteError
  <2>2. CASE plyEnd[c] # "open"
    <3>1. \A d \in Conns : Same(d)
      BY <1>10, <2>2 DEF HandleWriteError, Same
    <3> QED BY <3>1, SameKeeps DEF FlowInv
  <2> QED BY <2>1, <2>2
<1>11. CASE EndpointThrows(c)
  BY <1>11, <1>f, ProcessEndsFlow DEF EndpointThrows
<1> QED BY <1>1, <1>2, <1>3, <1>4, <1>5, <1>6, <1>7, <1>8, <1>9, <1>10, <1>11 DEF ConnStep

\* So do those of the player as a whole.
LEMMA PlayerStepFlow ==
  ASSUME LinkTypeOK, PlayerTypeOK, Unopened, NamesAssumption, SessionInv, FlowInv,
         NEW p \in Players, PlayerStep(p), UNCHANGED srvSM
  PROVE  FlowInv'
<1>u. ASSUME UNCHANGED <<linkVars, clntSM>> PROVE FlowInv'
  <2>1. \A d \in Conns : Same(d)
    BY <1>u DEF Same, linkVars
  <2> QED BY <2>1, SameKeeps DEF FlowInv
<1>f. ASSUME NEW e \in {"evVolume", "evSessionError"}, Forward(p, e), sessionConn[p] # NoConn,
             UNCHANGED <<toPlayer, plyEnd, srvEnd, clntSM>>
      PROVE  FlowInv'
  <2> DEFINE m == Msg(e, NoSession)
  <2>1. PICK c \in Conns : c = sessionConn[p] /\ plyEnd[c] = "open"
    BY <1>f DEF PlayerTypeOK, SessionInv, SessionConnOpen
  <2>2. m \in PlayerMsg /\ m \notin Replies
    BY MsgKind DEF PlayerEvent
  <2>3. CASE clntSM[c] = "sessionMember"
    <3>1. Send(c, <<m>>)
      BY <1>f, <2>1, <2>3 DEF Forward
    <3> HIDE DEF m
    <3>2. toServer[c] \in Seq(PlayerMsg)
      BY <2>1 DEF LinkTypeOK
    <3>3. /\ srvEnd[c] = "open" => toServer'[c] = Append(toServer[c], m)
          /\ srvEnd[c] # "open" => toServer'[c] = toServer[c]
          /\ \A d \in Conns \ {c} : toServer'[d] = toServer[d]
      <4>1. toServer[c] \o <<m>> = Append(toServer[c], m)
        BY <2>2, <3>2
      <4> QED BY <3>1, <4>1, SendEffect
    <3>4. Ends(c)'
      BY <1>f, <2>1, <3>3 DEF FlowInv, FlowOK, Ends
    <3>5. ASSUME srvEnd[c] = "open" PROVE FlowAt(c)'
      <4>1. Flow(srvSM[c], plyEnd[c], clntSM[c], toServer[c], toPlayer[c])
        BY <2>1, <3>5 DEF FlowInv, FlowOK, FlowAt
      <4>2. Flow(srvSM[c], plyEnd[c], clntSM[c], Append(toServer[c], m), toPlayer[c])
        BY <2>2, <3>2, <4>1, SendsOther
      <4> QED BY <1>f, <3>3, <3>5, <4>2 DEF FlowAt
    <3>6. FlowOK(c)'
      BY <1>f, <3>4, <3>5 DEF FlowOK
    <3> QED BY <1>f, <2>1, <3>3, <3>6, OthersSame DEF Same
  <2>4. CASE clntSM[c] # "sessionMember"
    BY <1>f, <1>u, <2>1, <2>4 DEF Forward, linkVars
  <2> QED BY <2>3, <2>4
<1>1. CASE VolumeTimerExpires(p)
  BY <1>1, <1>u DEF VolumeTimerExpires, sessionVars
<1>2. CASE ReportVolume(p)
  BY <1>2, <1>f DEF ReportVolume, sessionVars
<1>3. CASE MeasureOffset(p)
  BY <1>3, <1>u DEF MeasureOffset, sessionVars
<1>4. CASE OnClockOffset(p)
  BY <1>4, <1>f DEF OnClockOffset, sessionVars
<1>5. CASE NullSessionConn(p)
  BY <1>5, ProcessEndsFlow DEF NullSessionConn
<1>6. CASE PlayerExit(p)
  BY <1>6, ProcessEndsFlow DEF PlayerExit
<1>7. CASE PlayerStart(p)
  BY <1>7, <1>u DEF PlayerStart, sessionVars
<1> QED BY <1>1, <1>2, <1>3, <1>4, <1>5, <1>6, <1>7 DEF PlayerStep

-----------------------------------------------------------------------------
(* The server's steps: types and effects of what they are made of.         *)

Types == LinkTypeOK /\ PlayerTypeOK /\ ServerTypeOK

LEMMA HandlerType ==
  /\ \A c \in Conns : Read(c) \in Handler
  /\ \A p \in Players : Disconnect(p) \in Handler
BY DEF Handler

LEMMA SendsType ==
  ASSUME Types, NEW c \in Conns, NEW e \in ServerEvent, SendToPlayer(c, e)
  PROVE  /\ toPlayer' \in [Conns -> Seq(ServerEvent \cup Hangup)]
         /\ srvPeer' \in [Conns -> PeerState]
         /\ plyEnd[c] # "unused"
         /\ \A d \in Conns \ {c} : toPlayer'[d] = toPlayer[d]
         /\ plyEnd[c] = "closed" => toPlayer'[c] = toPlayer[c]
         /\ plyEnd[c] # "closed" => toPlayer'[c] = Append(toPlayer[c], e)
<1> USE DEF Types, LinkTypeOK, ServerTypeOK
<1>1. CASE /\ plyEnd[c] \in {"pending", "open"}
           /\ toPlayer' = [toPlayer EXCEPT ![c] = Append(@, e)]
           /\ UNCHANGED srvPeer
  <2>1. Append(toPlayer[c], e) \in Seq(ServerEvent \cup Hangup)
    OBVIOUS
  <2> QED BY <1>1, <2>1
<1>2. CASE /\ plyEnd[c] = "closed"
           /\ srvPeer' = [srvPeer EXCEPT ![c] = "suspect"]
           /\ UNCHANGED toPlayer
  BY <1>2 DEF PeerState
<1> QED BY <1>1, <1>2 DEF SendToPlayer

\* The server's machine of d gets evRequestJoin, in the states sm.
LEMMA RequestJoinType ==
  ASSUME Types, NEW d \in Conns, NEW sm \in [Conns -> SrvState], RequestJoin(d, sm)
  PROVE  /\ srvSM' \in [Conns -> SrvState]
         /\ toPlayer' \in [Conns -> Seq(ServerEvent \cup Hangup)]
         /\ srvPeer' \in [Conns -> PeerState]
         /\ \A e \in Conns \ {d} : srvSM'[e] = sm[e] /\ toPlayer'[e] = toPlayer[e]
         /\ \/ srvSM'[d] = sm[d] /\ toPlayer'[d] = toPlayer[d]
            \/ /\ sm[d] = "knowingClientState" /\ srvSM'[d] = "awaitJoinResponse"
               /\ plyEnd[d] = "closed" => toPlayer'[d] = toPlayer[d]
               /\ plyEnd[d] # "closed" => toPlayer'[d] = Append(toPlayer[d], "evRequestJoin")
<1>1. CASE sm[d] = "knowingClientState"
  <2>1. srvSM' = [sm EXCEPT ![d] = "awaitJoinResponse"] /\ SendToPlayer(d, "evRequestJoin")
    BY <1>1 DEF RequestJoin
  <2> QED BY <1>1, <2>1, SendsType DEF ServerEvent, SrvState
<1>2. CASE sm[d] # "knowingClientState"
  BY <1>2 DEF RequestJoin, Types, LinkTypeOK, ServerTypeOK
<1> QED BY <1>1, <1>2

\* Its effect on machines and queues, ts being the queues it finds.
LEMMA RequestJoinFlow ==
  ASSUME Types, NEW d \in Conns, NEW sm \in [Conns -> SrvState], RequestJoin(d, sm),
         NEW ts, Flow(sm[d], plyEnd[d], clntSM[d], ts, toPlayer[d])
  PROVE  Flow(srvSM'[d], plyEnd[d], clntSM[d], ts, toPlayer'[d]) /\ srvSM'[d] # "none"
<1>1. toPlayer[d] \in Seq(ServerEvent \cup Hangup)
  BY DEF Types, LinkTypeOK
<1>2. CASE srvSM'[d] = sm[d] /\ toPlayer'[d] = toPlayer[d]
  BY <1>2 DEF Flow, Idle, Asked, Accepted, Rejected, Agreed, Member, Leaving, Left
<1>3. CASE /\ sm[d] = "knowingClientState" /\ srvSM'[d] = "awaitJoinResponse"
           /\ plyEnd[d] = "closed" => toPlayer'[d] = toPlayer[d]
           /\ plyEnd[d] # "closed" => toPlayer'[d] = Append(toPlayer[d], "evRequestJoin")
  BY <1>1, <1>3, AsksToJoin
<1> QED BY <1>2, <1>3, RequestJoinType

\* Reading takes one message and leaves or takes the handler.
LEMMA ConsumedType ==
  ASSUME Types, NEW c \in Conns, NEW e, Handles(c, e), Consumed(c)
  PROVE  /\ LinkTypeOK' <=> toPlayer' \in [Conns -> Seq(ServerEvent \cup Hangup)]
         /\ ioQueue' \in [Servers -> Seq(Handler)]
         /\ UNCHANGED <<plyEnd, srvEnd>>
         /\ srvEnd[c] = "open" /\ toServer[c] # <<>>
         /\ Head(toServer[c]) \in PlayerMsg /\ Head(toServer[c]).ev = e
         /\ toServer'[c] = Tail(toServer[c])
         /\ \A d \in Conns \ {c} : toServer'[d] = toServer[d]
<1> USE ConnParties DEF Types, LinkTypeOK, ServerTypeOK
<1>1. /\ toServer[c] # <<>> /\ Head(toServer[c]).ev = e /\ srvEnd[c] = "open"
      /\ ioQueue[Srv(c)] # <<>>
  BY DEF Handles, NextHandler
<1>2. toServer' = [toServer EXCEPT ![c] = Tail(@)] /\ UNCHANGED <<plyEnd, srvEnd>>
  BY DEF Consumed
<1>3. toServer' \in [Conns -> Seq(PlayerMsg)] /\ Head(toServer[c]) \in PlayerMsg
  BY <1>1, <1>2
<1>4. ioQueue' \in [Servers -> Seq(Handler)]
  <2>1. CASE HandlerDone(Srv(c))
    BY <1>1, <2>1 DEF HandlerDone
  <2>2. CASE UNCHANGED ioQueue
    BY <2>2
  <2> QED BY <2>1, <2>2 DEF Consumed
<1> QED BY <1>1, <1>2, <1>3, <1>4

\* The server closes its end of connections.
LEMMA ServerClosesEffect ==
  ASSUME LinkTypeOK, NEW C, ServerCloses(C)
  PROVE  /\ toPlayer' \in [Conns -> Seq(ServerEvent \cup Hangup)]
         /\ toServer' \in [Conns -> Seq(PlayerMsg)]
         /\ srvEnd' \in [Conns -> EndState]
         /\ srvEnd' = [c \in Conns |-> IF c \in C THEN "closed" ELSE srvEnd[c]]
         /\ \A c \in Conns : c \notin C =>
              toServer'[c] = toServer[c] /\ toPlayer'[c] = toPlayer[c]
<1> USE DEF LinkTypeOK
<1>1. PICK R :
        /\ srvEnd' = [c \in Conns |-> IF c \in C THEN "closed" ELSE srvEnd[c]]
        /\ toServer' = [c \in Conns |-> IF c \in C THEN <<>> ELSE toServer[c]]
        /\ toPlayer' = [c \in Conns |->
             IF c \in C /\ plyEnd[c] \in {"pending", "open"}
             THEN Append(toPlayer[c], IF c \in R THEN "rst" ELSE "eof")
             ELSE toPlayer[c]]
  BY DEF ServerCloses
<1>2. toPlayer' \in [Conns -> Seq(ServerEvent \cup Hangup)]
  BY <1>1 DEF Hangup
<1>3. toServer' \in [Conns -> Seq(PlayerMsg)] /\ srvEnd' \in [Conns -> EndState]
  BY <1>1 DEF EndState
<1> QED BY <1>1, <1>2, <1>3

LEMMA ServerClosesFlow ==
  ASSUME Types, FlowInv, Unopened, NEW C \in SUBSET Conns, ServerCloses(C),
         \A c \in C : srvEnd[c] = "open",
         \A c \in Conns : srvSM'[c] = IF c \in C THEN "none" ELSE srvSM[c],
         UNCHANGED <<plyEnd, clntSM>>
  PROVE  FlowInv' /\ Unopened'
<1>1. /\ srvEnd' = [c \in Conns |-> IF c \in C THEN "closed" ELSE srvEnd[c]]
      /\ \A c \in Conns : c \notin C =>
           toServer'[c] = toServer[c] /\ toPlayer'[c] = toPlayer[c]
  BY ServerClosesEffect DEF Types
<1>2. ASSUME NEW c \in Conns PROVE FlowOK(c)'
  <2>1. CASE c \in C
    BY <1>1, <2>1 DEF FlowInv, FlowOK, Ends
  <2>2. CASE c \notin C
    BY <1>1, <2>2, SameKeeps DEF FlowInv, Same
  <2> QED BY <2>1, <2>2
<1>3. Unopened'
  BY <1>1 DEF Unopened
<1> QED BY <1>2, <1>3 DEF FlowInv

\* The end of a server's process: it closes what is open.
LEMMA ServerEndsEffect ==
  ASSUME Types, FlowInv, Unopened, NEW s \in Servers, ServerEnds(s), UNCHANGED playerVars
  PROVE  /\ Types' /\ FlowInv' /\ Unopened'
         /\ \A c \in Conns : srvSM'[c] = IF Srv(c) = s THEN "none" ELSE srvSM[c]
<1> DEFINE C == {c \in Conns : Srv(c) = s /\ srvEnd[c] = "open"}
<1>1. ServerCloses(C)
  <2>1. C = {c \in {d \in Conns : Srv(d) = s} : srvEnd[c] = "open"}
    OBVIOUS
  <2> QED BY <2>1 DEF ServerEnds
<1>2. \A c \in Conns : srvSM'[c] = IF Srv(c) = s THEN "none" ELSE srvSM[c]
  BY DEF ServerEnds
<1>3. \A c \in Conns : srvSM'[c] = IF c \in C THEN "none" ELSE srvSM[c]
  BY <1>2 DEF FlowInv, FlowOK, Ends
<1>4. UNCHANGED <<plyEnd, clntSM>>
  BY DEF ServerEnds, playerVars
<1>5. FlowInv' /\ Unopened'
  BY <1>1, <1>3, <1>4, ServerClosesFlow
<1>6. PlayerTypeOK'
  BY DEF Types, PlayerTypeOK, playerVars
<1>7. LinkTypeOK'
  BY <1>1, <1>4, ServerClosesEffect DEF Types, LinkTypeOK
<1>8. ServerTypeOK'
  <2> USE DEF Types, ServerTypeOK, ServerEnds
  <2>1. srvUp' \in [Servers -> BOOLEAN] /\ sessionless' \subseteq Conns /\ joined' \subseteq Conns
    OBVIOUS
  <2>2. srvSM' \in [Conns -> SrvState]
    BY DEF SrvState
  <2>3. ioQueue' \in [Servers -> Seq(Handler)] /\ announced' \in [Servers -> SUBSET Players]
    OBVIOUS
  <2>4. rcs' \in [Servers -> [Players -> Desc]]
    BY DEF Desc, NewDesc
  <2> QED BY <2>1, <2>2, <2>3, <2>4
<1> QED BY <1>2, <1>5, <1>6, <1>7, <1>8 DEF Types

\* The list of render clients keeps its type when descriptors are updated.
Rcs == [Servers -> [Players -> Desc]]

LEMMA DescType ==
  ASSUME NEW d \in Desc, NEW b \in BOOLEAN, NEW o \in Servers \cup {NoSession}
  PROVE  /\ [d EXCEPT !.member = b] \in Desc
         /\ [d EXCEPT !.online = b] \in Desc
         /\ [d EXCEPT !.owner = o] \in Desc
         /\ NewDesc \in Desc
BY DEF Desc, NewDesc

LEMMA RcsType ==
  ASSUME NEW r \in Rcs, NEW s \in Servers, NEW p \in Players, NEW b \in BOOLEAN,
         NEW o \in Servers \cup {NoSession}
  PROVE  /\ [r EXCEPT ![s][p].member = b] \in Rcs
         /\ [r EXCEPT ![s][p].online = b] \in Rcs
         /\ [r EXCEPT ![s][p].owner = o] \in Rcs
<1> DEFINE d == r[s][p]
<1>1. ASSUME NEW e \in Desc PROVE [r EXCEPT ![s] = [r[s] EXCEPT ![p] = e]] \in Rcs
  <2> HIDE DEF Desc
  <2>1. [r[s] EXCEPT ![p] = e] \in [Players -> Desc]
    BY DEF Rcs
  <2> QED BY <2>1 DEF Rcs
<1>2. d \in Desc
  BY DEF Rcs
<1>3. /\ [d EXCEPT !.member = b] \in Desc
      /\ [d EXCEPT !.online = b] \in Desc
      /\ [d EXCEPT !.owner = o] \in Desc
  <2> HIDE DEF d
  <2> QED BY <1>2, DescType
<1> HIDE DEF Desc
<1> QED BY <1>1, <1>3

LEMMA RcsOwnerType ==
  ASSUME NEW r \in Rcs, NEW s \in Servers, NEW p \in Players, NEW b \in BOOLEAN,
         NEW o \in Servers \cup {NoSession}
  PROVE  /\ [r EXCEPT ![s][p].member = b, ![s][p].owner = o] \in Rcs
         /\ [r EXCEPT ![s][p].online = b, ![s][p].owner = o] \in Rcs
<1>1. ASSUME NEW q \in Rcs PROVE [q EXCEPT ![s][p].owner = o] \in Rcs
  BY RcsType
<1>2. /\ [r EXCEPT ![s][p].member = b] \in Rcs
      /\ [r EXCEPT ![s][p].online = b] \in Rcs
  BY RcsType
<1>3. /\ [r EXCEPT ![s][p].member = b, ![s][p].owner = o] =
           [[r EXCEPT ![s][p].member = b] EXCEPT ![s][p].owner = o]
      /\ [r EXCEPT ![s][p].online = b, ![s][p].owner = o] =
           [[r EXCEPT ![s][p].online = b] EXCEPT ![s][p].owner = o]
  OBVIOUS
<1> QED BY <1>1, <1>2, <1>3

-----------------------------------------------------------------------------
(* The server's steps, one lemma for each kind of handler.                 *)

ServerInv == Types /\ Unopened /\ Books /\ FlowInv

\* A state machine's name is not that of a reply.
LEMMA ReplyKinds ==
  ASSUME NEW m \in PlayerMsg
  PROVE  /\ m \in Acceptance <=> m.ev = "evJoinAccepted"
         /\ m \in Refusal <=> m.ev = "evJoinRejected"
         /\ m \in Confirmation <=> m.ev = "evSessionState"
         /\ m \in Farewell <=> m.ev = "evLeave"
         /\ m \notin Replies <=>
              m.ev \notin {"evJoinAccepted", "evJoinRejected", "evSessionState", "evLeave"}
BY DEF Acceptance, Refusal, Confirmation, Farewell, Replies, Kind

\* One connection's message is handled; its machine goes to state to.
LEMMA HandledFlow ==
  ASSUME ServerInv, NEW c \in Conns, NEW e, Handles(c, e), Consumed(c), NEW to,
         srvSM' = [srvSM EXCEPT ![c] = to], to # "none",
         Flow(to, plyEnd[c], clntSM[c], Tail(toServer[c]), toPlayer[c]),
         UNCHANGED <<toPlayer, clntSM>>
  PROVE  FlowInv' /\ Unopened' /\ LinkTypeOK'
<1> USE DEF ServerInv, Types
<1>1. /\ UNCHANGED <<plyEnd, srvEnd>> /\ srvEnd[c] = "open"
      /\ toServer'[c] = Tail(toServer[c])
      /\ \A d \in Conns \ {c} : toServer'[d] = toServer[d]
      /\ LinkTypeOK'
  BY ConsumedType DEF LinkTypeOK
<1>2. FlowOK(c)'
  BY <1>1 DEF FlowInv, FlowOK, FlowAt, Ends, ServerTypeOK
<1>3. \A d \in Conns \ {c} : Same(d)
  BY <1>1 DEF Same, ServerTypeOK
<1>4. Unopened'
  BY <1>1 DEF Unopened
<1> QED BY <1>1, <1>2, <1>3, <1>4, OthersSame

LEMMA StaysTyped ==
  ASSUME PlayerTypeOK, UNCHANGED playerVars
  PROVE  PlayerTypeOK'
BY DEF PlayerTypeOK, playerVars

\* Which state an event finds a machine in, and where its flow goes from there.
LEMMA HandledFits ==
  ASSUME ServerInv, NEW c \in Conns, NEW e, Handles(c, e), Consumed(c)
  PROVE  LET F(to) == Flow(to, plyEnd[c], clntSM[c], Tail(toServer[c]), toPlayer[c])
         IN /\ e = "evJoinAccepted" => srvSM[c] = "awaitJoinResponse" /\ F("awaitSessionState")
            /\ e = "evJoinRejected" => srvSM[c] = "awaitJoinResponse" /\ F("knowingClientState")
            /\ e = "evSessionState" => srvSM[c] = "awaitSessionState" /\ F("sessionMember")
            /\ e = "evLeave" => srvSM[c] = "leaveSession" /\ F("knowingClientState")
            /\ e \notin {"evJoinAccepted", "evJoinRejected", "evSessionState", "evLeave"} =>
                 F(srvSM[c]) /\ srvSM[c] # "awaitSessionState"
<1>1. /\ srvEnd[c] = "open" /\ toServer[c] # <<>> /\ toServer[c] \in Seq(PlayerMsg)
      /\ Head(toServer[c]) \in PlayerMsg /\ Head(toServer[c]).ev = e
  BY ConsumedType DEF ServerInv, Types, LinkTypeOK
<1>2. Flow(srvSM[c], plyEnd[c], clntSM[c], toServer[c], toPlayer[c])
  BY <1>1 DEF ServerInv, FlowInv, FlowOK, FlowAt
<1>3. CASE e \in {"evJoinAccepted", "evJoinRejected", "evSessionState", "evLeave"}
  BY <1>1, <1>2, <1>3, ReplyKinds, AnswerFits
<1>4. CASE e \notin {"evJoinAccepted", "evJoinRejected", "evSessionState", "evLeave"}
  BY <1>1, <1>2, <1>4, ReplyKinds, SkipsOther
<1> QED BY <1>3, <1>4

LEMMA JoinAcceptedInv ==
  ASSUME ServerInv, NEW c \in Conns, OnJoinAccepted(c), UNCHANGED playerVars
  PROVE  ServerInv'
<1> USE DEF OnJoinAccepted
<1>1. UNCHANGED <<toPlayer, clntSM, bookVars, srvPeer, announced, srvUp, srvEnd>>
  BY DEF playerVars, Consumed
<1>2. FlowInv' /\ Unopened' /\ LinkTypeOK'
  BY <1>1, HandledFits, HandledFlow
<1>3. ServerTypeOK'
  BY <1>1, ConsumedType DEF ServerInv, Types, ServerTypeOK, SrvState, JoinedState, bookVars
<1>4. Books'
  BY <1>1 DEF ServerInv, Types, ServerTypeOK, Books, OneConnection, ListsMatchStates, Tracked, bookVars
<1> QED BY <1>2, <1>3, <1>4, StaysTyped DEF ServerInv, Types

LEMMA JoinRejectedInv ==
  ASSUME ServerInv, NEW c \in Conns, OnJoinRejected(c), UNCHANGED playerVars
  PROVE  ServerInv'
<1> USE DEF OnJoinRejected
<1>1. UNCHANGED <<toPlayer, clntSM, sessionless, joined, selected, srvPeer, announced, srvUp, srvEnd>>
  BY DEF playerVars, Consumed
<1>2. FlowInv' /\ Unopened' /\ LinkTypeOK'
  BY <1>1, HandledFits, HandledFlow
<1>3. ServerTypeOK'
  <2>1. rcs' \in [Servers -> [Players -> Desc]]
    BY ConnParties, RcsType DEF ServerInv, Types, ServerTypeOK, Rcs
  <2> QED BY <1>1, <2>1, ConsumedType DEF ServerInv, Types, ServerTypeOK, SrvState
<1>4. Books'
  BY <1>1 DEF ServerInv, Types, ServerTypeOK, Books, OneConnection, ListsMatchStates, Tracked
<1> QED BY <1>2, <1>3, <1>4, StaysTyped DEF ServerInv, Types

LEMMA SessionStateInv ==
  ASSUME ServerInv, NEW c \in Conns, OnSessionState(c), UNCHANGED playerVars
  PROVE  ServerInv'
<1> USE DEF OnSessionState
<1>1. UNCHANGED <<toPlayer, clntSM, srvPeer, announced, srvUp, srvEnd>>
  BY DEF playerVars, Consumed
<1>2. FlowInv' /\ Unopened' /\ LinkTypeOK'
  BY <1>1, HandledFits, HandledFlow
<1>3. ServerTypeOK'
  <2>1. rcs' \in [Servers -> [Players -> Desc]]
    <3>1. rcs' = [rcs EXCEPT ![Srv(c)][Ply(c)].member = TRUE, ![Srv(c)][Ply(c)].owner = Srv(c)]
      OBVIOUS
    <3>2. rcs \in Rcs /\ Srv(c) \in Servers \cup {NoSession} /\ TRUE \in BOOLEAN
      BY ConnParties DEF ServerInv, Types, ServerTypeOK, Rcs
    <3>3. [rcs EXCEPT ![Srv(c)][Ply(c)].member = TRUE, ![Srv(c)][Ply(c)].owner = Srv(c)] \in Rcs
      BY <3>2, ConnParties, RcsOwnerType, Zenon
    <3> QED BY <3>1, <3>3 DEF Rcs
  <2>2. selected' \in [Servers -> SUBSET Players]
    BY ConnParties DEF ServerInv, Types, ServerTypeOK
  <2> QED BY <1>1, <2>1, <2>2, ConsumedType
      DEF ServerInv, Types, ServerTypeOK, SrvState, JoinedState
<1>4. Books'
  BY <1>1 DEF ServerInv, Types, ServerTypeOK, Books, OneConnection, ListsMatchStates, Tracked
<1> QED BY <1>2, <1>3, <1>4, StaysTyped DEF ServerInv, Types

LEMMA LeaveInv ==
  ASSUME ServerInv, NEW c \in Conns, OnLeave(c), UNCHANGED playerVars
  PROVE  ServerInv'
<1> USE DEF OnLeave
<1>1. UNCHANGED <<toPlayer, clntSM, selected, srvPeer, announced, srvUp, srvEnd>>
  BY DEF playerVars, Consumed
<1>2. FlowInv' /\ Unopened' /\ LinkTypeOK'
  BY <1>1, HandledFits, HandledFlow
<1>3. ServerTypeOK'
  <2>1. rcs' \in [Servers -> [Players -> Desc]]
    <3>1. rcs' = [rcs EXCEPT ![Srv(c)][Ply(c)].member = FALSE, ![Srv(c)][Ply(c)].owner = NoSession]
      OBVIOUS
    <3>2. rcs \in Rcs /\ NoSession \in Servers \cup {NoSession} /\ FALSE \in BOOLEAN
      BY DEF ServerInv, Types, ServerTypeOK, Rcs
    <3>3. [rcs EXCEPT ![Srv(c)][Ply(c)].member = FALSE, ![Srv(c)][Ply(c)].owner = NoSession] \in Rcs
      BY <3>2, ConnParties, RcsOwnerType, Zenon
    <3> QED BY <3>1, <3>3 DEF Rcs
  <2> QED BY <1>1, <2>1, ConsumedType DEF ServerInv, Types, ServerTypeOK, SrvState
<1>4. c \in joined
  BY HandledFits DEF ServerInv, Books
<1>5. Books'
  BY <1>1, <1>4 DEF ServerInv, Types, ServerTypeOK, Books, OneConnection, ListsMatchStates, Tracked
<1> QED BY <1>2, <1>3, <1>5, StaysTyped DEF ServerInv, Types

LEMMA OtherEventInv ==
  ASSUME ServerInv, NEW c \in Conns, OnOtherEvent(c), UNCHANGED playerVars
  PROVE  ServerInv'
<1>1. PICK e \in PlayerEvent :
        /\ Handles(c, e) /\ Consumed(c)
        /\ ~ \/ e = "evClientState" /\ srvSM[c] \in {"awaitClientState", "knowingClientState"}
             \/ e \in {"evJoinAccepted", "evJoinRejected"} /\ srvSM[c] = "awaitJoinResponse"
             \/ e = "evSessionState" /\ srvSM[c] = "awaitSessionState"
             \/ e = "evLeave" /\ srvSM[c] \in JoinedState
        /\ srvSM' = IF e = "evSessionError" /\ srvSM[c] = "awaitSessionState"
                    THEN [srvSM EXCEPT ![c] = "awaitClientState"]
                    ELSE srvSM
        /\ UNCHANGED <<toPlayer, srvUp, bookVars, srvPeer, announced>>
  BY DEF OnOtherEvent
<1>2. /\ UNCHANGED <<clntSM, srvEnd>>
      /\ srvEnd[c] = "open"
  BY <1>1 DEF playerVars, Consumed, Handles
<1>3. e \notin {"evJoinAccepted", "evJoinRejected", "evSessionState", "evLeave"}
  BY <1>1, HandledFits DEF JoinedState
<1>4. /\ Flow(srvSM[c], plyEnd[c], clntSM[c], Tail(toServer[c]), toPlayer[c])
      /\ srvSM[c] # "awaitSessionState" /\ UNCHANGED srvSM
  BY <1>1, <1>3, HandledFits
<1>5. srvSM' = [srvSM EXCEPT ![c] = srvSM[c]] /\ srvSM[c] # "none"
  BY <1>2, <1>4 DEF ServerInv, Types, ServerTypeOK, FlowInv, FlowOK, Ends
<1>6. FlowInv' /\ Unopened' /\ LinkTypeOK'
  BY <1>1, <1>2, <1>4, <1>5, HandledFlow
<1>7. ServerTypeOK'
  BY <1>1, <1>4, ConsumedType DEF ServerInv, Types, ServerTypeOK, bookVars
<1>8. Books'
  BY <1>1, <1>2, <1>4 DEF ServerInv, Books, OneConnection, ListsMatchStates, Tracked, bookVars
<1> QED BY <1>6, <1>7, <1>8, StaysTyped DEF ServerInv, Types

\* A connection found by name is in one of the lists, and open.
LEMMA FoundByName ==
  ASSUME ServerInv, NEW s \in Servers, NEW p \in Players, NEW d \in CtrlConnByName(s, p)
  PROVE  /\ d \in Conns /\ Srv(d) = s /\ Ply(d) = p
         /\ d \in Tracked /\ srvEnd[d] = "open" /\ FlowAt(d)
         /\ d \in sessionless \/ (d \in joined /\ ConnsTo(s, p) \cap sessionless = {})
<1>1. d \in ConnsTo(s, p) /\ d \in Tracked
  BY DEF CtrlConnByName, Tracked
<1>2. srvEnd[d] = "open"
  BY <1>1 DEF ServerInv, Books, OneConnection
<1>3. d \in Conns /\ Srv(d) = s /\ Ply(d) = p
  BY <1>1 DEF ConnsTo
<1> QED BY <1>1, <1>2, <1>3 DEF ServerInv, FlowInv, FlowOK, CtrlConnByName

\* The lists agree with machines that move between the states of no membership.
LEMMA BooksStable ==
  ASSUME Types, Books, UNCHANGED <<sessionless, joined, announced, srvEnd>>,
         \A c \in Conns :
           \/ srvSM'[c] = srvSM[c]
           \/ {srvSM[c], srvSM'[c]} \subseteq
                {"awaitClientState", "knowingClientState", "awaitJoinResponse", "awaitSessionState"}
  PROVE  Books'
<1> USE DEF Types, ServerTypeOK
<1>1. OneConnection'
  BY DEF Books, OneConnection, Tracked
<1>2. ListsMatchStates'
  BY DEF Books, ListsMatchStates
<1>3. \A c \in Tracked' : Ply(c) \in announced'[Srv(c)]
  BY DEF Books, Tracked
<1>4. \A c \in Conns : srvSM'[c] = "leaveSession" => c \in joined'
  BY DEF Books
<1> QED BY <1>1, <1>2, <1>3, <1>4 DEF Books

LEMMA ClientStateInv ==
  ASSUME ServerInv, NEW c \in Conns, OnClientState(c), UNCHANGED playerVars
  PROVE  ServerInv'
<1> DEFINE sm == [srvSM EXCEPT ![c] = "knowingClientState"]
<1>1. /\ Handles(c, "evClientState") /\ Consumed(c)
      /\ srvSM[c] \in {"awaitClientState", "knowingClientState"}
      /\ rcs' = [rcs EXCEPT ![Srv(c)][Ply(c)].online = TRUE,
                            ![Srv(c)][Ply(c)].owner = Head(toServer[c]).session]
      /\ \/ \E d \in CtrlConnByName(Srv(c), Ply(c)) : RequestJoin(d, sm)
         \/ srvSM' = sm /\ UNCHANGED <<toPlayer, srvPeer>>
      /\ UNCHANGED <<srvUp, sessionless, joined, announced, selected, clntSM>>
  BY DEF OnClientState, playerVars
<1>2. /\ UNCHANGED <<plyEnd, srvEnd>> /\ srvEnd[c] = "open"
      /\ Head(toServer[c]) \in PlayerMsg
      /\ toServer'[c] = Tail(toServer[c])
      /\ \A d \in Conns \ {c} : toServer'[d] = toServer[d]
      /\ LinkTypeOK' <=> toPlayer' \in [Conns -> Seq(ServerEvent \cup Hangup)]
      /\ ioQueue' \in [Servers -> Seq(Handler)]
  BY <1>1, ConsumedType DEF ServerInv
<1>3. /\ sm \in [Conns -> SrvState] /\ sm[c] = "knowingClientState"
      /\ \A d \in Conns \ {c} : sm[d] = srvSM[d]
  BY DEF ServerInv, Types, ServerTypeOK, SrvState
<1> HIDE DEF sm
<1>4. Flow(sm[c], plyEnd[c], clntSM[c], toServer'[c], toPlayer[c])
  BY <1>1, <1>2, <1>3, HandledFits, KnowsClient
<1>5. rcs' \in [Servers -> [Players -> Desc]]
  <2>1. rcs \in Rcs /\ Head(toServer[c]).session \in Servers \cup {NoSession} /\ TRUE \in BOOLEAN
    BY <1>2 DEF ServerInv, Types, ServerTypeOK, Rcs, PlayerMsg
  <2>2. [rcs EXCEPT ![Srv(c)][Ply(c)].online = TRUE,
                    ![Srv(c)][Ply(c)].owner = Head(toServer[c]).session] \in Rcs
    BY <2>1, ConnParties, RcsOwnerType, Zenon
  <2> QED BY <1>1, <2>2 DEF Rcs
<1>6. Unopened'
  BY <1>2 DEF ServerInv, Unopened
<1>7. CASE srvSM' = sm /\ UNCHANGED <<toPlayer, srvPeer>>
  <2>1. LinkTypeOK' /\ ServerTypeOK'
    BY <1>1, <1>2, <1>3, <1>5, <1>7 DEF ServerInv, Types, LinkTypeOK, ServerTypeOK
  <2>2. FlowOK(c)'
    BY <1>1, <1>2, <1>3, <1>4, <1>7 DEF ServerInv, FlowInv, FlowOK, FlowAt, Ends
  <2>3. \A d \in Conns \ {c} : Same(d)
    BY <1>1, <1>2, <1>3, <1>7 DEF Same
  <2>4. FlowInv'
    BY <2>2, <2>3, OthersSame DEF ServerInv
  <2>5. Books'
    BY <1>1, <1>2, <1>3, <1>7, BooksStable DEF ServerInv
  <2> QED BY <1>6, <2>1, <2>4, <2>5, StaysTyped DEF ServerInv, Types
<1>8. CASE \E d \in CtrlConnByName(Srv(c), Ply(c)) : RequestJoin(d, sm)
  <2>1. PICK d \in CtrlConnByName(Srv(c), Ply(c)) : RequestJoin(d, sm)
    BY <1>8
  <2>2. d \in Conns /\ srvEnd[d] = "open" /\ FlowAt(d)
    BY ConnParties, FoundByName
  <2>3. Flow(sm[d], plyEnd[d], clntSM[d], toServer'[d], toPlayer[d])
    BY <1>2, <1>3, <1>4, <2>2 DEF FlowAt
  <2>4. Flow(srvSM'[d], plyEnd[d], clntSM[d], toServer'[d], toPlayer'[d]) /\ srvSM'[d] # "none"
    BY <1>3, <2>1, <2>2, <2>3, RequestJoinFlow DEF ServerInv
  <2>5. /\ srvSM' \in [Conns -> SrvState]
        /\ toPlayer' \in [Conns -> Seq(ServerEvent \cup Hangup)]
        /\ srvPeer' \in [Conns -> PeerState]
        /\ \A e \in Conns \ {d} : srvSM'[e] = sm[e] /\ toPlayer'[e] = toPlayer[e]
        /\ \/ srvSM'[d] = sm[d]
           \/ sm[d] = "knowingClientState" /\ srvSM'[d] = "awaitJoinResponse"
    BY <1>3, <2>1, <2>2, RequestJoinType DEF ServerInv
  <2>6. LinkTypeOK' /\ ServerTypeOK'
    BY <1>1, <1>2, <1>5, <2>5 DEF ServerInv, Types, LinkTypeOK, ServerTypeOK
  <2>7. FlowOK(d)'
    BY <1>1, <1>2, <2>2, <2>4 DEF ServerInv, FlowInv, FlowOK, FlowAt, Ends
  <2>8. FlowOK(c)'
    <3>1. CASE c # d
      BY <1>1, <1>2, <1>3, <1>4, <2>5, <3>1 DEF ServerInv, FlowInv, FlowOK, FlowAt, Ends
    <3> QED BY <2>7, <3>1
  <2>9. \A e \in Conns \ {c, d} : Same(e)
    BY <1>1, <1>2, <1>3, <2>5 DEF Same
  <2>10. FlowInv'
    BY <2>7, <2>8, <2>9, SameKeeps DEF ServerInv, FlowInv
  <2>11. Books'
    <3>1. \A e \in Conns :
            \/ srvSM'[e] = srvSM[e]
            \/ {srvSM[e], srvSM'[e]} \subseteq
                 {"awaitClientState", "knowingClientState", "awaitJoinResponse", "awaitSessionState"}
      BY <1>1, <1>3, <2>5
    <3> QED BY <1>1, <1>2, <3>1, BooksStable DEF ServerInv
  <2> QED BY <1>6, <2>6, <2>10, <2>11, StaysTyped DEF ServerInv, Types
<1> QED BY <1>1, <1>7, <1>8

\* End of file, and any other error, leave the machines alone.
LEMMA HangupInv ==
  ASSUME ServerInv, NEW c \in Conns, OnEof(c) \/ OnReset(c), UNCHANGED playerVars
  PROVE  ServerInv'
<1>1. PICK e \in Hangup :
        /\ Handles(c, e) /\ toServer' = [toServer EXCEPT ![c] = Tail(@)]
        /\ UNCHANGED <<toPlayer, plyEnd, srvEnd, srvUp, bookVars, srvSM, announced, clntSM>>
  BY DEF OnEof, OnReset, Hangup, playerVars
<1>2. /\ toServer[c] # <<>> /\ srvEnd[c] = "open" /\ ioQueue[Srv(c)] # <<>>
      /\ toServer[c] \in Seq(PlayerMsg) /\ Head(toServer[c]) \in PlayerMsg
      /\ Head(toServer[c]).ev = e
      /\ toServer' \in [Conns -> Seq(PlayerMsg)]
      /\ toServer'[c] = Tail(toServer[c]) /\ \A d \in Conns \ {c} : toServer'[d] = toServer[d]
  BY <1>1 DEF Handles, NextHandler, ServerInv, Types, LinkTypeOK
<1>3. LinkTypeOK'
  BY <1>1, <1>2 DEF ServerInv, Types, LinkTypeOK
<1>4. ServerTypeOK'
  <2>1. ioQueue' \in [Servers -> Seq(Handler)]
    <3>1. ioQueue[Srv(c)] \in Seq(Handler) /\ Disconnect(Ply(c)) \in Handler /\ Srv(c) \in Servers
      BY ConnParties, HandlerType DEF ServerInv, Types, ServerTypeOK
    <3>2. Tail(ioQueue[Srv(c)]) \in Seq(Handler)
      BY <1>2, <3>1
    <3>3. Append(Tail(ioQueue[Srv(c)]), Disconnect(Ply(c))) \in Seq(Handler)
      BY <3>1, <3>2
    <3>4. \/ ioQueue' = [ioQueue EXCEPT ![Srv(c)] = Append(Tail(@), Disconnect(Ply(c)))]
          \/ ioQueue' = [ioQueue EXCEPT ![Srv(c)] = Tail(@)]
      BY DEF OnEof, OnReset, HandlerDone
    <3> QED BY <3>2, <3>3, <3>4 DEF ServerInv, Types, ServerTypeOK
  <2>2. srvPeer' \in [Conns -> PeerState]
    BY DEF OnEof, OnReset, ServerInv, Types, ServerTypeOK, PeerState
  <2> QED BY <1>1, <2>1, <2>2 DEF ServerInv, Types, ServerTypeOK, bookVars
<1>5. FlowOK(c)'
  <2>1. Flow(srvSM[c], plyEnd[c], clntSM[c], toServer[c], toPlayer[c])
    BY <1>2 DEF ServerInv, FlowInv, FlowOK, FlowAt
  <2>2. Flow(srvSM[c], plyEnd[c], clntSM[c], Tail(toServer[c]), toPlayer[c])
    BY <1>2, <2>1, ReplyKinds, SkipsOther DEF Hangup
  <2> QED BY <1>1, <1>2, <2>2 DEF ServerInv, FlowInv, FlowOK, FlowAt, Ends
<1>6. FlowInv'
  BY <1>1, <1>2, <1>5, OthersSame DEF ServerInv, Same
<1>7. Unopened' /\ Books'
  BY <1>1 DEF ServerInv, Unopened, Books, OneConnection, ListsMatchStates, Tracked, bookVars
<1> QED BY <1>3, <1>4, <1>6, <1>7, StaysTyped DEF ServerInv, Types

\* Nothing but the server's own queue and what it knows of its peers changes.
LEMMA QuietInv ==
  ASSUME ServerInv, UNCHANGED <<linkVars, bookVars, srvSM, announced, playerVars>>,
         srvUp' \in [Servers -> BOOLEAN], ioQueue' \in [Servers -> Seq(Handler)],
         srvPeer' \in [Conns -> PeerState]
  PROVE  ServerInv'
<1>1. FlowInv'
  BY SameKeeps DEF ServerInv, FlowInv, Same, linkVars, playerVars
<1>2. LinkTypeOK' /\ ServerTypeOK'
  BY DEF ServerInv, Types, LinkTypeOK, ServerTypeOK, linkVars, bookVars
<1>3. Unopened' /\ Books'
  BY DEF ServerInv, Unopened, Books, OneConnection, ListsMatchStates, Tracked, bookVars, linkVars
<1> QED BY <1>1, <1>2, <1>3, StaysTyped DEF ServerInv, Types

LEMMA ReadCompletesInv ==
  ASSUME ServerInv, NEW c \in Conns, ReadCompletes(c), UNCHANGED playerVars
  PROVE  ServerInv'
<1>1. ioQueue' \in [Servers -> Seq(Handler)]
  BY ConnParties, HandlerType DEF ServerInv, Types, ServerTypeOK, ReadCompletes
<1> QED BY <1>1, QuietInv DEF ReadCompletes, ServerInv, Types, ServerTypeOK

\* The end of the server's process.
LEMMA ServerEndsInv ==
  ASSUME ServerInv, NEW s \in Servers, ServerEnds(s), UNCHANGED playerVars
  PROVE  ServerInv'
<1>1. /\ Types' /\ FlowInv' /\ Unopened'
      /\ \A c \in Conns : srvSM'[c] = IF Srv(c) = s THEN "none" ELSE srvSM[c]
  BY ServerEndsEffect DEF ServerInv
<1>2. /\ sessionless' = {c \in sessionless : Srv(c) # s}
      /\ joined' = {c \in joined : Srv(c) # s}
  BY DEF ServerEnds, ServerInv, Types, ServerTypeOK
<1>3. \A c \in Conns : Srv(c) # s => srvEnd'[c] = srvEnd[c] /\ announced'[Srv(c)] = announced[Srv(c)]
  <2>1. srvEnd' = [c \in Conns |->
          IF c \in {d \in {e \in Conns : Srv(e) = s} : srvEnd[d] = "open"} THEN "closed" ELSE srvEnd[c]]
    BY DEF ServerEnds, ServerCloses
  <2> QED BY <2>1, ConnParties DEF ServerEnds, ServerInv, Types, ServerTypeOK
<1>4. sessionless \subseteq Conns /\ joined \subseteq Conns
  BY DEF ServerInv, Types, ServerTypeOK
<1>5. OneConnection'
  BY <1>2, <1>3, <1>4 DEF ServerInv, Books, OneConnection, Tracked
<1>6. ListsMatchStates'
  BY <1>1, <1>2, <1>4 DEF ServerInv, Books, ListsMatchStates
<1>7. \A c \in Tracked' : Ply(c) \in announced'[Srv(c)]
  BY <1>2, <1>3, <1>4 DEF ServerInv, Books, Tracked
<1>8. \A c \in Conns : srvSM'[c] = "leaveSession" => c \in joined'
  BY <1>1, <1>2 DEF ServerInv, Books
<1> QED BY <1>1, <1>5, <1>6, <1>7, <1>8 DEF ServerInv, Books

LEMMA DanglingReadInv ==
  ASSUME ServerInv, NEW c \in Conns, DanglingRead(c), UNCHANGED playerVars
  PROVE  ServerInv'
<1>1. Srv(c) \in Servers
  BY ConnParties
<1>2. CASE ServerEnds(Srv(c))
  BY <1>1, <1>2, ServerEndsInv
<1>3. CASE /\ \E post \in {<<>>, <<Disconnect(Ply(c))>>} :
                ioQueue' = [ioQueue EXCEPT ![Srv(c)] = Tail(@) \o post]
           /\ UNCHANGED <<linkVars, srvUp, bookVars, srvSM, srvPeer, announced>>
  <2>1. PICK post \in {<<>>, <<Disconnect(Ply(c))>>} :
          ioQueue' = [ioQueue EXCEPT ![Srv(c)] = Tail(@) \o post]
    BY <1>3
  <2>2. post \in Seq(Handler)
    <3>1. Disconnect(Ply(c)) \in Handler
      BY ConnParties, HandlerType
    <3>2. <<Disconnect(Ply(c))>> \in Seq(Handler) /\ <<>> \in Seq(Handler)
      BY <3>1
    <3> QED BY <2>1, <3>2
  <2>3. ioQueue[Srv(c)] # <<>> /\ ioQueue[Srv(c)] \in Seq(Handler)
    BY <1>1 DEF DanglingRead, NextHandler, ServerInv, Types, ServerTypeOK
  <2>4. Tail(ioQueue[Srv(c)]) \o post \in Seq(Handler)
    BY <2>2, <2>3
  <2>5. ioQueue' \in [Servers -> Seq(Handler)]
    BY <2>1, <2>4 DEF ServerInv, Types, ServerTypeOK
  <2> QED BY <1>3, <2>5, QuietInv DEF ServerInv, Types, ServerTypeOK
<1> QED BY <1>2, <1>3 DEF DanglingRead

LEMMA ServerStartInv ==
  ASSUME ServerInv, NEW s \in Servers, ServerStart(s), UNCHANGED playerVars
  PROVE  ServerInv'
<1>1. srvUp' \in [Servers -> BOOLEAN]
  BY DEF ServerStart, ServerInv, Types, ServerTypeOK
<1> QED BY <1>1, QuietInv DEF ServerStart, ServerInv, Types, ServerTypeOK

\* The connection that a server keeps to a player.
Named(s, p) == ConnsTo(s, p) \cap Tracked

\* disconnectFromClient: a server that keeps at most one connection to a player
\* closes that one, whichever list it is in.
LEMMA DisconnectEffect ==
  ASSUME ServerInv, NEW s \in Servers, NEW p \in Players, NEW online \in BOOLEAN,
         DisconnectFromClient(s, p, online)
  PROVE  /\ sessionless' = sessionless \ Named(s, p) /\ joined' = joined \ Named(s, p)
         /\ srvSM' = [c \in Conns |-> IF c \in Named(s, p) THEN "none" ELSE srvSM[c]]
         /\ ServerCloses(Named(s, p)) /\ UNCHANGED plyEnd
         /\ rcs' = [rcs EXCEPT ![s][p] =
              IF ConnsTo(s, p) \cap joined = {} THEN [@ EXCEPT !.online = online]
              ELSE [NewDesc EXCEPT !.online = online]]
<1> DEFINE C == ConnsTo(s, p) \cap Tracked
<1>o. \A c, d \in C : c = d
  BY DEF ServerInv, Books, OneConnection, ConnsTo
<1>1. PICK left \in IF ConnsTo(s, p) \cap joined = {} THEN {{}}
                    ELSE {{c} : c \in ConnsTo(s, p) \cap joined} :
        \E gone \in IF ConnsTo(s, p) \cap (sessionless \cup left) = {} THEN {{}}
                    ELSE {{c} : c \in ConnsTo(s, p) \cap (sessionless \cup left)} :
          /\ joined' = joined \ left
          /\ sessionless' = (sessionless \cup left) \ gone
          /\ rcs' = [rcs EXCEPT ![s][p] =
               IF left = {} THEN [@ EXCEPT !.online = online]
               ELSE [NewDesc EXCEPT !.online = online]]
          /\ srvSM' = [c \in Conns |-> IF c \in gone THEN "none" ELSE srvSM[c]]
          /\ ServerCloses(gone)
          /\ UNCHANGED plyEnd
  BY DEF DisconnectFromClient
<1>2. left = ConnsTo(s, p) \cap joined
  <2>1. CASE ConnsTo(s, p) \cap joined = {}
    BY <1>1, <2>1
  <2>2. CASE ConnsTo(s, p) \cap joined # {}
    <3>1. PICK c \in ConnsTo(s, p) \cap joined : left = {c}
      BY <1>1, <2>2
    <3>2. \A d \in ConnsTo(s, p) \cap joined : d = c
      BY <1>o, <3>1 DEF Tracked
    <3> QED BY <3>1, <3>2
  <2> QED BY <2>1, <2>2
<1>3. PICK gone \in IF ConnsTo(s, p) \cap (sessionless \cup left) = {} THEN {{}}
                    ELSE {{c} : c \in ConnsTo(s, p) \cap (sessionless \cup left)} :
        /\ joined' = joined \ left
        /\ sessionless' = (sessionless \cup left) \ gone
        /\ rcs' = [rcs EXCEPT ![s][p] =
             IF left = {} THEN [@ EXCEPT !.online = online]
             ELSE [NewDesc EXCEPT !.online = online]]
        /\ srvSM' = [c \in Conns |-> IF c \in gone THEN "none" ELSE srvSM[c]]
        /\ ServerCloses(gone)
        /\ UNCHANGED plyEnd
  BY <1>1
<1>4. gone = C
  <2>1. ConnsTo(s, p) \cap (sessionless \cup left) = C
    BY <1>2 DEF Tracked
  <2>2. CASE C = {}
    BY <1>3, <2>1, <2>2
  <2>3. CASE C # {}
    <3>1. PICK c \in C : gone = {c}
      BY <1>3, <2>1, <2>3
    <3> QED BY <1>o, <3>1
  <2> QED BY <2>2, <2>3
<1>5. /\ sessionless' = sessionless \ C /\ joined' = joined \ C
      /\ srvSM' = [c \in Conns |-> IF c \in C THEN "none" ELSE srvSM[c]]
      /\ ServerCloses(C)
  BY <1>2, <1>3, <1>4 DEF Tracked, ServerInv, Books, ListsMatchStates
<1> QED BY <1>2, <1>3, <1>5 DEF Named

LEMMA DisconnectInv ==
  ASSUME ServerInv, NEW s \in Servers, NEW p \in Players, NEW online \in BOOLEAN,
         DisconnectFromClient(s, p, online), UNCHANGED <<srvUp, srvPeer, selected, playerVars>>,
         ioQueue' \in [Servers -> Seq(Handler)],
         announced' \in [Servers -> SUBSET Players],
         announced' = announced \/ announced' = [announced EXCEPT ![s] = @ \ {p}]
  PROVE  ServerInv'
<1> DEFINE C == Named(s, p)
<1>t. /\ sessionless \subseteq Conns /\ joined \subseteq Conns
      /\ rcs \in Rcs /\ srvSM \in [Conns -> SrvState]
  BY DEF ServerInv, Types, ServerTypeOK, Rcs
<1>3. /\ sessionless' = sessionless \ C /\ joined' = joined \ C
      /\ srvSM' = [c \in Conns |-> IF c \in C THEN "none" ELSE srvSM[c]]
      /\ ServerCloses(C) /\ UNCHANGED plyEnd
      /\ rcs' = [rcs EXCEPT ![s][p] =
           IF ConnsTo(s, p) \cap joined = {} THEN [@ EXCEPT !.online = online]
           ELSE [NewDesc EXCEPT !.online = online]]
  BY DisconnectEffect
<1> HIDE DEF C
<1>c. C \subseteq Conns /\ C \subseteq Tracked /\ \A c \in C : Srv(c) = s /\ Ply(c) = p
  BY <1>t DEF C, Named, ConnsTo, Tracked
<1>6. FlowInv' /\ Unopened'
  <2>1. \A c \in C : srvEnd[c] = "open"
    BY <1>c DEF ServerInv, Books, OneConnection
  <2> QED BY <1>3, <1>c, <2>1, ServerClosesFlow DEF ServerInv, playerVars
<1>7. LinkTypeOK'
  BY <1>3, ServerClosesEffect DEF ServerInv, Types, LinkTypeOK
<1>8. ServerTypeOK'
  <2>1. rcs' \in Rcs
    <3>1. rcs[s][p] \in Desc
      BY <1>t DEF Rcs
    <3>2. /\ [rcs[s][p] EXCEPT !.online = online] \in Desc
          /\ [NewDesc EXCEPT !.online = online] \in Desc
      <4>1. NewDesc \in Desc
        BY DEF NewDesc, Desc
      <4> QED BY <3>1, <4>1, DescType
    <3>3. PICK e \in Desc : rcs' = [rcs EXCEPT ![s][p] = e]
      BY <1>3, <3>2
    <3>4. [rcs[s] EXCEPT ![p] = e] \in [Players -> Desc]
      BY <1>t DEF Rcs
    <3> QED BY <1>t, <3>3, <3>4 DEF Rcs
  <2>2. srvSM' \in [Conns -> SrvState]
    BY <1>t, <1>3 DEF SrvState
  <2>3. sessionless' \subseteq Conns /\ joined' \subseteq Conns
    BY <1>t, <1>3
  <2> QED BY <2>1, <2>2, <2>3 DEF ServerInv, Types, ServerTypeOK, Rcs
<1>9. Books'
  <2>1. Tracked' = Tracked \ C
    BY <1>3 DEF Tracked
  <2>2. \A c \in Tracked' : srvEnd'[c] = "open" /\ Ply(c) \in announced'[Srv(c)]
    <3> SUFFICES ASSUME NEW c \in Tracked' PROVE srvEnd'[c] = "open" /\ Ply(c) \in announced'[Srv(c)]
      OBVIOUS
    <3>1. c \in Tracked /\ c \notin C /\ c \in Conns
      BY <1>t, <2>1 DEF Tracked
    <3>2. srvEnd'[c] = srvEnd[c]
      BY <1>3, <3>1 DEF ServerCloses
    <3>3. Srv(c) # s \/ Ply(c) # p
      BY <3>1 DEF C, Named, ConnsTo
    <3>4. Ply(c) \in announced'[Srv(c)]
      BY <3>1, <3>3, ConnParties DEF ServerInv, Books, Types, ServerTypeOK
    <3> QED BY <3>1, <3>2, <3>4 DEF ServerInv, Books, OneConnection
  <2>3. OneConnection'
    BY <2>1, <2>2 DEF ServerInv, Books, OneConnection
  <2>4. ListsMatchStates'
    BY <1>t, <1>3 DEF ServerInv, Books, ListsMatchStates
  <2>5. \A c \in Conns : srvSM'[c] = "leaveSession" => c \in joined'
    BY <1>3 DEF ServerInv, Books
  <2> QED BY <2>2, <2>3, <2>4, <2>5 DEF Books
<1> QED BY <1>6, <1>7, <1>8, <1>9, StaysTyped DEF ServerInv, Types

LEMMA RunDisconnectInv ==
  ASSUME ServerInv, NEW s \in Servers, NEW p \in Players, RunDisconnect(s, p), UNCHANGED playerVars
  PROVE  ServerInv'
<1>1. ioQueue' \in [Servers -> Seq(Handler)]
  BY DEF RunDisconnect, NextHandler, HandlerDone, ServerInv, Types, ServerTypeOK
<1>2. rcs[s][p].online \in BOOLEAN
  BY DEF ServerInv, Types, ServerTypeOK, Desc
<1> QED BY <1>1, <1>2, DisconnectInv DEF RunDisconnect, ServerInv, Types, ServerTypeOK

LEMMA ClientDisappearedInv ==
  ASSUME ServerInv, NEW s \in Servers, NEW p \in Players, OnClientDisappeared(s, p),
         UNCHANGED playerVars
  PROVE  ServerInv'
<1>1. announced' \in [Servers -> SUBSET Players]
  BY DEF OnClientDisappeared, ServerInv, Types, ServerTypeOK
<1> QED BY <1>1, DisconnectInv DEF OnClientDisappeared, ServerInv, Types, ServerTypeOK

\* connectToClient: the player was not announced, so there is no connection of
\* that name in the lists, and what it drops without closing is of other names.
LEMMA ClientAppearedInv ==
  ASSUME ServerInv, NEW s \in Servers, NEW p \in Players, NEW up,
         OnClientAppeared(s, p, up), UNCHANGED playerVars
  PROVE  /\ ServerInv'
         /\ \A c \in Conns : srvEnd[c] = "open" => plyEnd'[c] = plyEnd[c]
         /\ \A c \in Conns : plyEnd[c] # "unused" => plyEnd'[c] = plyEnd[c]
         /\ \A c \in Conns : plyEnd'[c] # plyEnd[c] => plyEnd'[c] = "pending"
<1>t. /\ sessionless \subseteq Conns /\ joined \subseteq Conns /\ rcs \in Rcs
  BY DEF ServerInv, Types, ServerTypeOK, Rcs
<1>1. PICK E \in ThrowingSets(s, p) :
        LET kept == sessionless \ E
        IN \/ \E c \in ConnsTo(s, p) :
                /\ srvEnd[c] = "unused" /\ ServerConnects(c)
                /\ srvSM' = [srvSM EXCEPT ![c] = "awaitClientState"]
                /\ sessionless' = kept \cup {c}
           \/ sessionless' = kept /\ UNCHANGED <<linkVars, srvSM>>
  BY DEF OnClientAppeared
<1>2. /\ announced' = [announced EXCEPT ![s] = @ \cup {p}] /\ p \notin announced[s]
      /\ rcs' = [rcs EXCEPT ![s][p].online = FALSE]
      /\ UNCHANGED <<srvUp, joined, ioQueue, srvPeer, selected, clntSM>>
  BY DEF OnClientAppeared, playerVars
<1>3. rcs' \in [Servers -> [Players -> Desc]]
  BY <1>t, <1>2, RcsType DEF Rcs
<1>4. /\ announced' \in [Servers -> SUBSET Players]
      /\ \A r \in Servers : announced[r] \subseteq announced'[r]
      /\ p \in announced'[s]
  BY <1>2 DEF ServerInv, Types, ServerTypeOK
<1>5. CASE sessionless' = sessionless \ E /\ UNCHANGED <<linkVars, srvSM>>
  <2>1. LinkTypeOK' /\ ServerTypeOK'
    BY <1>t, <1>2, <1>3, <1>4, <1>5 DEF ServerInv, Types, LinkTypeOK, ServerTypeOK, linkVars
  <2>2. FlowInv' /\ Unopened'
    <3>1. \A c \in Conns : Same(c)
      BY <1>2, <1>5 DEF Same, linkVars
    <3>2. Unopened'
      BY <1>5 DEF ServerInv, Unopened, linkVars
    <3> QED BY <3>1, <3>2, SameKeeps DEF ServerInv, FlowInv
  <2>3. Books'
    <3>1. Tracked' \subseteq Tracked
      BY <1>2, <1>5 DEF Tracked
    <3>2. OneConnection' /\ ListsMatchStates'
      BY <1>2, <1>5, <3>1 DEF ServerInv, Books, OneConnection, ListsMatchStates, linkVars
    <3>3. \A c \in Tracked' : Ply(c) \in announced'[Srv(c)]
      BY <1>t, <1>4, <3>1, ConnParties DEF ServerInv, Books, Tracked
    <3> QED BY <1>2, <1>5, <3>2, <3>3 DEF ServerInv, Books
  <2> QED BY <1>5, <2>1, <2>2, <2>3, StaysTyped DEF ServerInv, Types, linkVars
<1>6. CASE \E c \in ConnsTo(s, p) :
             /\ srvEnd[c] = "unused" /\ ServerConnects(c)
             /\ srvSM' = [srvSM EXCEPT ![c] = "awaitClientState"]
             /\ sessionless' = (sessionless \ E) \cup {c}
  <2>1. PICK c \in ConnsTo(s, p) :
          /\ srvEnd[c] = "unused" /\ ServerConnects(c)
          /\ srvSM' = [srvSM EXCEPT ![c] = "awaitClientState"]
          /\ sessionless' = (sessionless \ E) \cup {c}
    BY <1>6
  <2>2. /\ c \in Conns /\ Srv(c) = s /\ Ply(c) = p
        /\ plyEnd[c] = "unused" /\ clntSM[c] = "none"
        /\ toServer[c] = <<>> /\ toPlayer[c] = <<>>
    BY <2>1 DEF ConnsTo, ServerInv, Unopened, FlowInv, FlowOK, Ends
  <2>3. /\ srvEnd' = [srvEnd EXCEPT ![c] = "open"] /\ plyEnd' = [plyEnd EXCEPT ![c] = "pending"]
        /\ UNCHANGED <<toPlayer, toServer>>
    BY <2>1 DEF ServerConnects
  <2>4. /\ srvEnd'[c] = "open" /\ plyEnd'[c] = "pending" /\ srvSM'[c] = "awaitClientState"
        /\ \A d \in Conns \ {c} :
             srvEnd'[d] = srvEnd[d] /\ plyEnd'[d] = plyEnd[d] /\ srvSM'[d] = srvSM[d]
    BY <2>1, <2>2, <2>3 DEF ServerInv, Types, LinkTypeOK, ServerTypeOK
  <2>5. LinkTypeOK' /\ ServerTypeOK'
    BY <1>t, <1>2, <1>3, <1>4, <2>1, <2>2, <2>3
       DEF ServerInv, Types, LinkTypeOK, ServerTypeOK, EndState, SrvState
  <2>6. FlowOK(c)'
    BY <1>2, <2>2, <2>3, <2>4, FlowStarts DEF FlowOK, FlowAt, Ends
  <2>7. \A d \in Conns \ {c} : Same(d)
    BY <1>2, <2>3, <2>4 DEF Same
  <2>8. FlowInv' /\ Unopened'
    <3>1. FlowInv'
      BY <2>2, <2>6, <2>7, OthersSame DEF ServerInv
    <3>2. Unopened'
      BY <2>4 DEF ServerInv, Unopened
    <3> QED BY <3>1, <3>2
  <2>9. Books'
    <3>1. \A d \in Tracked : Srv(d) # s \/ Ply(d) # p
      BY <1>2 DEF ServerInv, Books
    <3>2. Tracked' \subseteq Tracked \cup {c} /\ c \notin Tracked
      BY <1>2, <2>1, <2>2, <3>1 DEF Tracked
    <3>3. OneConnection'
      BY <1>t, <2>2, <2>4, <3>1, <3>2 DEF ServerInv, Books, OneConnection, Tracked
    <3>4. ListsMatchStates'
      BY <1>t, <1>2, <2>1, <2>2, <2>4, <3>2 DEF ServerInv, Books, ListsMatchStates, Tracked
    <3>5. \A d \in Tracked' : Ply(d) \in announced'[Srv(d)]
      BY <1>t, <1>4, <2>2, <3>2, ConnParties DEF ServerInv, Books, Tracked
    <3>6. \A d \in Conns : srvSM'[d] = "leaveSession" => d \in joined'
      BY <1>2, <2>4 DEF ServerInv, Books
    <3> QED BY <3>3, <3>4, <3>5, <3>6 DEF Books
  <2>10. \A d \in Conns :
           /\ srvEnd[d] = "open" => plyEnd'[d] = plyEnd[d]
           /\ plyEnd[d] # "unused" => plyEnd'[d] = plyEnd[d]
           /\ plyEnd'[d] # plyEnd[d] => plyEnd'[d] = "pending"
    BY <2>1, <2>2, <2>4
  <2> QED BY <2>5, <2>8, <2>9, <2>10, StaysTyped DEF ServerInv, Types
<1> QED BY <1>1, <1>5, <1>6

\* The user's requests.
LEMMA UserInv ==
  ASSUME ServerInv, NEW s \in Servers, NEW p \in Players,
         UserJoins(s, p) \/ UserLeaves(s, p) \/ UserSetsVolume(s, p), UNCHANGED playerVars
  PROVE  ServerInv'
<1>1. /\ UNCHANGED <<toServer, plyEnd, srvEnd, srvUp, sessionless, joined, rcs, ioQueue, announced, clntSM>>
  BY DEF UserJoins, UserLeaves, UserSetsVolume, bookVars, playerVars
<1>2. selected' \in [Servers -> SUBSET Players]
  BY DEF UserJoins, UserLeaves, UserSetsVolume, bookVars, ServerInv, Types, ServerTypeOK
<1>a. ASSUME NEW d \in Conns, srvEnd[d] = "open", FlowAt(d)',
             srvSM' \in [Conns -> SrvState], srvSM'[d] # "none", srvPeer' \in [Conns -> PeerState],
             toPlayer' \in [Conns -> Seq(ServerEvent \cup Hangup)],
             \A e \in Conns \ {d} : srvSM'[e] = srvSM[e] /\ toPlayer'[e] = toPlayer[e]
      PROVE  FlowInv' /\ Unopened' /\ LinkTypeOK' /\ ServerTypeOK'
  <2>1. LinkTypeOK' /\ ServerTypeOK'
    BY <1>1, <1>2, <1>a DEF ServerInv, Types, LinkTypeOK, ServerTypeOK
  <2>2. FlowOK(d)'
    BY <1>1, <1>a DEF ServerInv, FlowInv, FlowOK, Ends
  <2>3. \A e \in Conns \ {d} : Same(e)
    BY <1>1, <1>a DEF Same
  <2> QED BY <1>1, <2>1, <2>2, <2>3, OthersSame DEF ServerInv, Unopened
<1>3. CASE UserJoins(s, p)
  <2>1. PICK d \in CtrlConnByName(s, p) : RequestJoin(d, srvSM)
    BY <1>3 DEF UserJoins
  <2>2. d \in Conns /\ srvEnd[d] = "open" /\ FlowAt(d)
    BY FoundByName
  <2>3. /\ srvSM' \in [Conns -> SrvState]
        /\ toPlayer' \in [Conns -> Seq(ServerEvent \cup Hangup)]
        /\ srvPeer' \in [Conns -> PeerState]
        /\ \A e \in Conns \ {d} : srvSM'[e] = srvSM[e] /\ toPlayer'[e] = toPlayer[e]
        /\ \/ srvSM'[d] = srvSM[d]
           \/ srvSM[d] = "knowingClientState" /\ srvSM'[d] = "awaitJoinResponse"
    BY <2>1, <2>2, RequestJoinType DEF ServerInv, Types, ServerTypeOK
  <2>4. FlowAt(d)' /\ srvSM'[d] # "none"
    BY <1>1, <2>1, <2>2, RequestJoinFlow DEF ServerInv, Types, ServerTypeOK, FlowAt
  <2>5. Books'
    BY <1>1, <2>2, <2>3, BooksStable DEF ServerInv
  <2> QED BY <1>a, <2>2, <2>3, <2>4, <2>5, StaysTyped DEF ServerInv, Types
<1>4. CASE UserLeaves(s, p)
  <2>1. CASE UNCHANGED <<toPlayer, srvSM, srvPeer>>
    <3>1. \A e \in Conns : Same(e)
      BY <1>1, <2>1 DEF Same
    <3>2. FlowInv' /\ Unopened'
      BY <1>1, <3>1, SameKeeps DEF ServerInv, FlowInv, Unopened
    <3>3. LinkTypeOK' /\ ServerTypeOK'
      BY <1>1, <1>2, <2>1 DEF ServerInv, Types, LinkTypeOK, ServerTypeOK
    <3>4. Books'
      BY <1>1, <2>1, BooksStable DEF ServerInv
    <3> QED BY <3>2, <3>3, <3>4, StaysTyped DEF ServerInv, Types
  <2>2. CASE \E d \in CtrlConnByName(s, p) :
               /\ srvSM[d] = "sessionMember"
               /\ srvSM' = [srvSM EXCEPT ![d] = "leaveSession"]
               /\ SendToPlayer(d, "evRequestLeave")
    <3>1. PICK d \in CtrlConnByName(s, p) :
            /\ srvSM[d] = "sessionMember"
            /\ srvSM' = [srvSM EXCEPT ![d] = "leaveSession"]
            /\ SendToPlayer(d, "evRequestLeave")
      BY <2>2
    <3>2. d \in Conns /\ srvEnd[d] = "open" /\ FlowAt(d) /\ d \in Tracked
      BY FoundByName
    <3>3. /\ toPlayer' \in [Conns -> Seq(ServerEvent \cup Hangup)]
          /\ srvPeer' \in [Conns -> PeerState]
          /\ \A e \in Conns \ {d} : toPlayer'[e] = toPlayer[e]
          /\ plyEnd[d] = "closed" => toPlayer'[d] = toPlayer[d]
          /\ plyEnd[d] # "closed" => toPlayer'[d] = Append(toPlayer[d], "evRequestLeave")
      BY <3>1, <3>2, SendsType DEF ServerInv, ServerEvent
    <3>4. /\ srvSM' \in [Conns -> SrvState] /\ srvSM'[d] = "leaveSession"
          /\ \A e \in Conns \ {d} : srvSM'[e] = srvSM[e]
      BY <3>1, <3>2 DEF ServerInv, Types, ServerTypeOK, SrvState, JoinedState
    <3>5. FlowAt(d)'
      <4>1. toPlayer[d] \in Seq(ServerEvent \cup Hangup)
        BY <3>2 DEF ServerInv, Types, LinkTypeOK
      <4>2. Flow("sessionMember", plyEnd[d], clntSM[d], toServer[d], toPlayer[d])
        BY <3>1, <3>2 DEF FlowAt
      <4>3. Flow("leaveSession", plyEnd[d], clntSM[d], toServer[d], toPlayer'[d])
        BY <3>3, <4>1, <4>2, AsksToLeave
      <4> QED BY <1>1, <3>4, <4>3 DEF FlowAt
    <3>6. d \in joined
      BY <3>1, <3>2 DEF ServerInv, Books, ListsMatchStates, Tracked
    <3>7. Books'
      <4>1. OneConnection'
        BY <1>1 DEF ServerInv, Books, OneConnection, Tracked
      <4>2. ListsMatchStates'
        BY <1>1, <3>2, <3>4, <3>6 DEF ServerInv, Types, ServerTypeOK, Books, ListsMatchStates
      <4>3. \A e \in Tracked' : Ply(e) \in announced'[Srv(e)]
        BY <1>1 DEF ServerInv, Books, Tracked
      <4>4. \A e \in Conns : srvSM'[e] = "leaveSession" => e \in joined'
        BY <1>1, <3>4, <3>6 DEF ServerInv, Books
      <4> QED BY <4>1, <4>2, <4>3, <4>4 DEF Books
    <3> QED BY <1>a, <3>2, <3>3, <3>4, <3>5, <3>7, StaysTyped DEF ServerInv, Types
  <2> QED BY <1>4, <2>1, <2>2 DEF UserLeaves
<1>5. CASE UserSetsVolume(s, p)
  <2>1. PICK d \in CtrlConnByName(s, p) :
          srvSM[d] = "sessionMember" /\ SendToPlayer(d, "evSetVolume")
    BY <1>5 DEF UserSetsVolume
  <2>2. d \in Conns /\ srvEnd[d] = "open" /\ FlowAt(d)
    BY FoundByName
  <2>3. /\ toPlayer' \in [Conns -> Seq(ServerEvent \cup Hangup)]
        /\ srvPeer' \in [Conns -> PeerState]
        /\ \A e \in Conns \ {d} : toPlayer'[e] = toPlayer[e]
        /\ toPlayer'[d] = toPlayer[d] \/ toPlayer'[d] = Append(toPlayer[d], "evSetVolume")
    BY <2>1, <2>2, SendsType DEF ServerInv, ServerEvent
  <2>4. UNCHANGED srvSM
    BY <1>5 DEF UserSetsVolume
  <2>5. FlowAt(d)'
    <3>1. toPlayer[d] \in Seq(ServerEvent \cup Hangup)
      BY <2>2 DEF ServerInv, Types, LinkTypeOK
    <3>2. Flow(srvSM[d], plyEnd[d], clntSM[d], toServer[d], toPlayer[d])
      BY <2>2 DEF FlowAt
    <3> QED BY <1>1, <2>3, <2>4, <3>1, <3>2, SendsVolume DEF FlowAt
  <2>6. Books'
    BY <1>1, <2>4, BooksStable DEF ServerInv
  <2> QED BY <1>a, <2>1, <2>2, <2>3, <2>4, <2>5, <2>6, StaysTyped
      DEF ServerInv, Types, ServerTypeOK
<1> QED BY <1>3, <1>4, <1>5

-----------------------------------------------------------------------------
(* Every step keeps the invariant.                                         *)

LEMMA InvParts ==
  IInv <=> PartyInv /\ ServerInv
BY DEF IInv, PartyInv, ServerInv, PartyTypes, Types, TypeOK

LEMMA InvOfParts ==
  ASSUME ServerInv', SessionInv'
  PROVE  IInv'
BY DEF IInv, ServerInv, Types, TypeOK

\* The session is the player's own: all a server does to its ends is open them.
LEMMA SessionKept ==
  ASSUME SessionInv, PlayerTypeOK, UNCHANGED playerVars,
         \A c \in Conns :
           plyEnd'[c] = plyEnd[c] \/ (plyEnd[c] = "unused" /\ plyEnd'[c] = "pending")
  PROVE  SessionInv'
<1>1. SessionComplete'
  BY DEF SessionInv, SessionComplete, playerVars
<1>2. OneMember'
  BY DEF SessionInv, OneMember, playerVars
<1>3. SessionConnOpen'
  BY DEF SessionInv, SessionConnOpen, ConnsOf, PlayerTypeOK, playerVars
<1> QED BY <1>1, <1>2, <1>3 DEF SessionInv

\* A player's step does not touch the server's state.
LEMMA PlayerLeavesServer ==
  ASSUME \/ \E c \in Conns : ConnStep(c)
         \/ \E p \in Players : PlayerStep(p)
  PROVE  UNCHANGED srvEnd
<1>1. ASSUME NEW p, ProcessEnds(p) PROVE UNCHANGED srvEnd
  BY <1>1 DEF ProcessEnds
<1>2. ASSUME NEW c \in Conns, ConnStep(c) PROVE UNCHANGED srvEnd
  BY <1>1, <1>2 DEF ConnStep, Accept, AcceptJoin, RejectJoin, LeaveSession, SetVolume, SyncOrReset,
     NoTransition, ReadEof, ReadReset, HandleWriteError, EndpointThrows
<1>3. ASSUME NEW p \in Players, PlayerStep(p) PROVE UNCHANGED srvEnd
  BY <1>1, <1>3 DEF PlayerStep, VolumeTimerExpires, ReportVolume, MeasureOffset, OnClockOffset,
     NullSessionConn, PlayerExit, PlayerStart, linkVars
<1> QED BY <1>2, <1>3

LEMMA PlayerSideInv ==
  ASSUME IInv, UNCHANGED srvVars,
         \/ \E c \in Conns : ConnStep(c)
         \/ \E p \in Players : PlayerStep(p)
  PROVE  IInv'
<1>1. PartyInv'
  <2>1. PartyInv
    BY InvParts
  <2>2. PartyTypes'
    BY <2>1, ConnStepType, PlayerStepType DEF PartyInv
  <2>3. SessionInv' /\ Unopened'
    BY <2>1, ConnStepInv, PlayerStepInv
  <2> QED BY <2>2, <2>3 DEF PartyInv
<1>2. FlowInv'
  BY NamesAssumption, ConnStepFlow, PlayerStepFlow DEF IInv, TypeOK, srvVars
<1>3. ServerTypeOK' /\ Books'
  <2>1. UNCHANGED srvEnd
    BY PlayerLeavesServer
  <2> QED BY <2>1 DEF IInv, TypeOK, ServerTypeOK, Books, OneConnection, ListsMatchStates, Tracked, srvVars
<1> QED BY <1>1, <1>2, <1>3 DEF IInv, TypeOK, PartyInv, PartyTypes

\* The steps of a server, as Next has them.
ServerSide ==
  \/ \E c \in Conns : ServerConnStep(c)
  \/ \E s \in Servers : PostedStep(s) \/ ServerFails(s)
  \/ \E s \in Servers, p \in Players : User(s, p) \/ Discovery(s, p)

LEMMA HandlerInv ==
  ASSUME IInv, NEW c \in Conns, ServerHandler(c), UNCHANGED playerVars
  PROVE  IInv'
<1>1. ServerInv /\ SessionInv /\ PlayerTypeOK
  BY InvParts DEF PartyInv, PartyTypes
<1>2. ServerInv'
  BY <1>1, ClientStateInv, JoinAcceptedInv, JoinRejectedInv, SessionStateInv, LeaveInv,
     OtherEventInv, HangupInv, DanglingReadInv DEF ServerHandler
<1>3. UNCHANGED plyEnd
  BY DEF ServerHandler, OnClientState, OnJoinAccepted, OnJoinRejected, OnSessionState, OnLeave,
     OnOtherEvent, OnEof, OnReset, DanglingRead, Consumed, ServerEnds, linkVars
<1>4. \A d \in Conns :
        plyEnd'[d] = plyEnd[d] \/ (plyEnd[d] = "unused" /\ plyEnd'[d] = "pending")
  BY <1>3
<1>5. SessionInv'
  BY <1>1, <1>4, SessionKept
<1> QED BY <1>2, <1>5, InvOfParts

LEMMA ServerSideInv ==
  ASSUME IInv, ServerSide
  PROVE  IInv'
<1>1. ServerInv /\ SessionInv /\ PlayerTypeOK
  BY InvParts DEF PartyInv, PartyTypes
<1>a. ASSUME ServerInv', UNCHANGED playerVars, UNCHANGED plyEnd PROVE IInv'
  <2>1. \A c \in Conns :
          plyEnd'[c] = plyEnd[c] \/ (plyEnd[c] = "unused" /\ plyEnd'[c] = "pending")
    BY <1>a
  <2>2. SessionInv'
    BY <1>1, <1>a, <2>1, SessionKept
  <2> QED BY <1>a, <2>2, InvOfParts
<1>2. ASSUME NEW c \in Conns, ServerConnStep(c) PROVE IInv'
  <2>1. CASE ReadCompletes(c)
    BY <1>1, <1>2, <1>a, <2>1, ReadCompletesInv DEF ServerConnStep, ReadCompletes, linkVars
  <2>2. CASE ServerHandler(c)
    BY <1>2, <2>2, HandlerInv DEF ServerConnStep
  <2> QED BY <1>2, <2>1, <2>2 DEF ServerConnStep
<1>3. ASSUME NEW s \in Servers, PostedStep(s) PROVE IInv'
  <2>1. PICK p \in Players : RunDisconnect(s, p) /\ UNCHANGED playerVars
    BY <1>3 DEF PostedStep
  <2>2. UNCHANGED plyEnd
    BY <2>1 DEF RunDisconnect, DisconnectFromClient
  <2> QED BY <1>1, <1>a, <2>1, <2>2, RunDisconnectInv
<1>e. ASSUME NEW s \in Servers, ServerEnds(s), UNCHANGED playerVars PROVE IInv'
  <2>1. UNCHANGED plyEnd
    BY <1>e DEF ServerEnds
  <2> QED BY <1>1, <1>a, <1>e, <2>1, ServerEndsInv
<1>4. ASSUME NEW s \in Servers, ServerFails(s) PROVE IInv'
  <2>1. CASE ServerStart(s)
    BY <1>1, <1>4, <1>a, <2>1, ServerStartInv DEF ServerFails, ServerStart, linkVars
  <2>2. CASE ServerEnds(s)
    BY <1>4, <1>e, <2>2 DEF ServerFails
  <2> QED BY <1>4, <2>1, <2>2 DEF ServerFails, WriteThrows, ServerExit, ErasedIterator
<1>5. ASSUME NEW s \in Servers, NEW p \in Players, User(s, p) PROVE IInv'
  <2>1. (UserJoins(s, p) \/ UserLeaves(s, p) \/ UserSetsVolume(s, p)) /\ UNCHANGED playerVars
    BY <1>5 DEF User
  <2>2. UNCHANGED plyEnd
    BY <2>1 DEF UserJoins, UserLeaves, UserSetsVolume
  <2> QED BY <1>1, <1>a, <2>1, <2>2, UserInv
<1>6. ASSUME NEW s \in Servers, NEW p \in Players, Discovery(s, p) PROVE IInv'
  <2>1. CASE OnClientAppeared(s, p, plyUp[p])
    <3>1. /\ ServerInv' /\ UNCHANGED playerVars
          /\ \A c \in Conns : plyEnd[c] # "unused" => plyEnd'[c] = plyEnd[c]
          /\ \A c \in Conns : plyEnd'[c] # plyEnd[c] => plyEnd'[c] = "pending"
      BY <1>1, <1>6, <2>1, ClientAppearedInv DEF Discovery
    <3>2. \A c \in Conns :
            plyEnd'[c] = plyEnd[c] \/ (plyEnd[c] = "unused" /\ plyEnd'[c] = "pending")
      BY <3>1
    <3>3. SessionInv'
      BY <1>1, <3>1, <3>2, SessionKept
    <3> QED BY <3>1, <3>3, InvOfParts
  <2>2. CASE OnClientDisappeared(s, p)
    <3>1. UNCHANGED plyEnd
      BY <2>2 DEF OnClientDisappeared, DisconnectFromClient
    <3> QED BY <1>1, <1>6, <1>a, <2>2, <3>1, ClientDisappearedInv DEF Discovery
  <2> QED BY <1>6, <2>1, <2>2 DEF Discovery
<1> QED BY <1>2, <1>3, <1>4, <1>5, <1>6 DEF ServerSide

LEMMA NextSides ==
  ASSUME [Next]_vars
  PROVE  \/ /\ UNCHANGED srvVars
            /\ (\E c \in Conns : ConnStep(c)) \/ (\E p \in Players : PlayerStep(p))
         \/ ServerSide
         \/ UNCHANGED vars
BY DEF Next, PlayerConnStep, PlayerOwnStep, ServerSide

LEMMA InvStep ==
  IInv /\ [Next]_vars => IInv'
<1> SUFFICES ASSUME IInv, [Next]_vars PROVE IInv'
  OBVIOUS
<1>1. CASE UNCHANGED vars
  <2>1. TypeOK'
    BY <1>1 DEF IInv, TypeOK, LinkTypeOK, PlayerTypeOK, ServerTypeOK, vars, linkVars, playerVars, srvVars
  <2>2. SessionInv' /\ Unopened' /\ Books'
    BY <1>1 DEF IInv, SessionInv, SessionComplete, OneMember, SessionConnOpen, Unopened, Books,
       OneConnection, ListsMatchStates, Tracked, vars, linkVars, playerVars, srvVars
  <2>3. \A c \in Conns : Same(c)
    BY <1>1 DEF Same, vars, linkVars, playerVars, srvVars
  <2>4. FlowInv'
    BY <2>3, SameKeeps DEF IInv, FlowInv
  <2> QED BY <2>1, <2>2, <2>4 DEF IInv
<1> QED BY <1>1, NextSides, PlayerSideInv, ServerSideInv

LEMMA InvInit == Init => IInv
<1> SUFFICES ASSUME Init PROVE IInv
  OBVIOUS
<1> USE DEF Init, LinkInit, PlayerInit, ServerInit
<1>1. LinkTypeOK /\ PlayerTypeOK
  BY PostsAssumption DEF LinkTypeOK, PlayerTypeOK, EndState, ClntState, PeerState
<1>2. ServerTypeOK
  <2>1. NewDesc \in Desc
    BY DEF Desc, NewDesc
  <2>2. [s \in Servers |-> [p \in Players |-> NewDesc]] \in [Servers -> [Players -> Desc]]
    BY <2>1
  <2>3. ioQueue \in [Servers -> Seq(Handler)]
    OBVIOUS
  <2> QED BY <2>2, <2>3 DEF ServerTypeOK, SrvState, PeerState
<1>3. SessionInv /\ Unopened
  BY NamesAssumption DEF SessionInv, SessionComplete, OneMember, SessionConnOpen, Unopened
<1>4. Books
  BY DEF Books, OneConnection, ListsMatchStates, Tracked
<1>5. FlowInv
  BY DEF FlowInv, FlowOK, Ends
<1> QED BY <1>1, <1>2, <1>3, <1>4, <1>5 DEF IInv, TypeOK

LEMMA Inductive == Spec => []IInv
BY InvInit, InvStep, PTL DEF Spec

-----------------------------------------------------------------------------
(* The theorems.                                                           *)

\* Every variable keeps to its type, for any servers, players and bounds.
THEOREM TypeCorrect == Spec => []TypeOK
<1>1. IInv => TypeOK
  BY DEF IInv
<1> QED BY <1>1, Inductive, PTL

\* A server has at most one connection to a player in its lists, and it is open:
\* what is looked up by name is the connection that is meant.
THEOREM OneConnectionKept == Spec => []OneConnection
<1>1. IInv => OneConnection
  BY DEF IInv, Books
<1> QED BY <1>1, Inductive, PTL

\* The lists of CStreamServer and the state machines of its connections agree.
THEOREM ListsAgree == Spec => []ListsMatchStates
<1>1. IInv => ListsMatchStates
  BY DEF IInv, Books
<1> QED BY <1>1, Inductive, PTL

\* An answer never arrives in a state of the server's machine that drops it.
THEOREM AnswersExpected == Spec => []AnswerExpected
<1>1. ASSUME IInv PROVE AnswerExpected
  <2> SUFFICES ASSUME NEW c \in Conns, srvEnd[c] = "open", toServer[c] # <<>>
               PROVE  CASE Head(toServer[c]).ev \in {"evJoinAccepted", "evJoinRejected"} ->
                             srvSM[c] = "awaitJoinResponse"
                        [] Head(toServer[c]).ev = "evSessionState" -> srvSM[c] = "awaitSessionState"
                        [] Head(toServer[c]).ev = "evLeave" -> srvSM[c] = "leaveSession"
                        [] OTHER -> TRUE
    BY DEF AnswerExpected
  <2>1. toServer[c] \in Seq(PlayerMsg) /\ Head(toServer[c]) \in PlayerMsg
    BY <1>1 DEF IInv, TypeOK, LinkTypeOK
  <2>2. Flow(srvSM[c], plyEnd[c], clntSM[c], toServer[c], toPlayer[c])
    BY <1>1 DEF IInv, FlowInv, FlowOK, FlowAt
  <2> QED BY <2>1, <2>2, AnswerFits, ReplyKinds
<1> QED BY <1>1, Inductive, PTL

\* A joined connection without an evLeave under way holds the player's session.
THEOREM BothSidesAgree == Spec => []MembersAgree
<1>1. ASSUME IInv PROVE MembersAgree
  <2> SUFFICES ASSUME NEW c \in joined, plyEnd[c] = "open", ToServer(c, {"evLeave"}) = {}
               PROVE  sessionConn[Ply(c)] = c
    BY DEF MembersAgree
  <2>1. /\ c \in Conns /\ srvEnd[c] = "open"
        /\ srvSM[c] \in {"sessionMember", "leaveSession"}
    BY <1>1 DEF IInv, TypeOK, ServerTypeOK, Books, OneConnection, ListsMatchStates, Tracked
  <2>2. Flow(srvSM[c], plyEnd[c], clntSM[c], toServer[c], toPlayer[c])
    BY <1>1, <2>1 DEF IInv, FlowInv, FlowOK, FlowAt
  <2>3. ~OneOf(toServer[c], Replies, Farewell)
    BY DEF OneOf, ToServer, Farewell, Kind
  <2>4. clntSM[c] = "sessionMember"
    BY <2>1, <2>2, <2>3
       DEF Flow, Idle, Asked, Accepted, Rejected, Agreed, Member, Leaving, Left, Machine
  <2> QED BY <1>1, <2>1, <2>4 DEF IInv, SessionInv, OneMember
<1> QED BY <1>1, Inductive, PTL

\* How many requests, or answers, a queue with none or one of them holds.
LEMMA CountRequests ==
  ASSUME TypeOK, NEW c \in Conns
  PROVE  LET joins == Cardinality(ToPlayer(c, {"evRequestJoin"}))
             leaves == Cardinality(ToPlayer(c, {"evRequestLeave"}))
         IN /\ NoneOf(toPlayer[c], Requests) => joins = 0 /\ leaves = 0
            /\ OneOf(toPlayer[c], Requests, {"evRequestJoin"}) => joins = 1 /\ leaves = 0
            /\ OneOf(toPlayer[c], Requests, {"evRequestLeave"}) => joins = 0 /\ leaves = 1
<1> DEFINE Js == ToPlayer(c, {"evRequestJoin"})
           Ls == ToPlayer(c, {"evRequestLeave"})
<1>1. NoneOf(toPlayer[c], Requests) => Js = {} /\ Ls = {}
  BY DEF NoneOf, Requests, ToPlayer
<1>2. OneOf(toPlayer[c], Requests, {"evRequestJoin"}) => (\E k : Js = {k}) /\ Ls = {}
  BY DEF OneOf, Requests, ToPlayer
<1>3. OneOf(toPlayer[c], Requests, {"evRequestLeave"}) => Js = {} /\ \E k : Ls = {k}
  BY DEF OneOf, Requests, ToPlayer
<1> HIDE DEF Js, Ls
<1>4. (Js = {} => Cardinality(Js) = 0) /\ ((\E k : Js = {k}) => Cardinality(Js) = 1)
  BY FS_EmptySet, FS_Singleton
<1>5. (Ls = {} => Cardinality(Ls) = 0) /\ ((\E k : Ls = {k}) => Cardinality(Ls) = 1)
  BY FS_EmptySet, FS_Singleton
<1> QED BY <1>1, <1>2, <1>3, <1>4, <1>5 DEF Js, Ls

LEMMA CountAnswers ==
  ASSUME TypeOK, NEW c \in Conns
  PROVE  LET joins == Cardinality(ToServer(c, {"evJoinAccepted", "evJoinRejected"}))
             leaves == Cardinality(ToServer(c, {"evLeave"}))
             q == toServer[c]
         IN /\ NoneOf(q, Replies) \/ OneOf(q, Replies, Confirmation) => joins = 0 /\ leaves = 0
            /\ PairOf(q, Replies, Acceptance, Confirmation) => joins = 1 /\ leaves = 0
            /\ OneOf(q, Replies, Refusal) => joins = 1 /\ leaves = 0
            /\ OneOf(q, Replies, Farewell) => joins = 0 /\ leaves = 1
<1> DEFINE Js == ToServer(c, {"evJoinAccepted", "evJoinRejected"})
           Ls == ToServer(c, {"evLeave"})
           q == toServer[c]
<1>q. q \in Seq(PlayerMsg)
  BY DEF TypeOK, LinkTypeOK
<1>k. \A i \in DOMAIN q :
        /\ q[i] \in Acceptance <=> q[i].ev = "evJoinAccepted"
        /\ q[i] \in Refusal <=> q[i].ev = "evJoinRejected"
        /\ q[i] \in Confirmation <=> q[i].ev = "evSessionState"
        /\ q[i] \in Farewell <=> q[i].ev = "evLeave"
        /\ q[i] \notin Replies <=>
             q[i].ev \notin {"evJoinAccepted", "evJoinRejected", "evSessionState", "evLeave"}
  <2> SUFFICES ASSUME NEW i \in DOMAIN q
               PROVE  /\ q[i] \in Acceptance <=> q[i].ev = "evJoinAccepted"
                      /\ q[i] \in Refusal <=> q[i].ev = "evJoinRejected"
                      /\ q[i] \in Confirmation <=> q[i].ev = "evSessionState"
                      /\ q[i] \in Farewell <=> q[i].ev = "evLeave"
                      /\ q[i] \notin Replies <=>
                           q[i].ev \notin {"evJoinAccepted", "evJoinRejected", "evSessionState", "evLeave"}
    OBVIOUS
  <2>1. q[i] \in PlayerMsg
    BY <1>q
  <2> QED BY <2>1, ReplyKinds
<1>s. /\ Js = {i \in DOMAIN q : q[i].ev = "evJoinAccepted" \/ q[i].ev = "evJoinRejected"}
      /\ Ls = {i \in DOMAIN q : q[i].ev = "evLeave"}
  BY DEF ToServer
<1> HIDE DEF Js, Ls, q
<1>1. NoneOf(q, Replies) \/ OneOf(q, Replies, Confirmation) => Js = {} /\ Ls = {}
  BY <1>k, <1>s DEF NoneOf, OneOf
<1>2. PairOf(q, Replies, Acceptance, Confirmation) => (\E k : Js = {k}) /\ Ls = {}
  <2> SUFFICES ASSUME PairOf(q, Replies, Acceptance, Confirmation)
               PROVE  (\E k : Js = {k}) /\ Ls = {}
    OBVIOUS
  <2>1. PICK k \in DOMAIN q :
          /\ k + 1 \in DOMAIN q
          /\ q[k] \in Acceptance /\ q[k + 1] \in Confirmation
          /\ \A i \in DOMAIN q \ {k, k + 1} : q[i] \notin Replies
    BY DEF PairOf
  <2>2. q[k].ev = "evJoinAccepted" /\ q[k + 1].ev = "evSessionState"
    BY <1>k, <2>1
  <2>3. \A i \in DOMAIN q \ {k, k + 1} :
          q[i].ev \notin {"evJoinAccepted", "evJoinRejected", "evSessionState", "evLeave"}
    BY <1>k, <2>1
  <2>4. Js = {k} /\ Ls = {}
    BY <1>s, <2>1, <2>2, <2>3
  <2> QED BY <2>4
<1>3. OneOf(q, Replies, Refusal) => (\E k : Js = {k}) /\ Ls = {}
  BY <1>k, <1>s DEF OneOf
<1>4. OneOf(q, Replies, Farewell) => Js = {} /\ \E k : Ls = {k}
  BY <1>k, <1>s DEF OneOf
<1>5. (Js = {} => Cardinality(Js) = 0) /\ ((\E k : Js = {k}) => Cardinality(Js) = 1)
  BY FS_EmptySet, FS_Singleton
<1>6. (Ls = {} => Cardinality(Ls) = 0) /\ ((\E k : Ls = {k}) => Cardinality(Ls) = 1)
  BY FS_EmptySet, FS_Singleton
<1> QED BY <1>1, <1>2, <1>3, <1>4, <1>5, <1>6 DEF Js, Ls, q

\* While both ends are open exactly one request or answer is under way for a
\* machine that waits for one, and none for any other: nothing is lost, nothing
\* is asked or answered twice.
THEOREM RequestsAnswered == Spec => []RequestAnswered
<1>1. ASSUME IInv PROVE RequestAnswered
  <2> SUFFICES ASSUME NEW c \in Conns, srvEnd[c] = "open", plyEnd[c] \in {"pending", "open"}
               PROVE  /\ Cardinality(ToPlayer(c, {"evRequestJoin"}))
                         + Cardinality(ToServer(c, {"evJoinAccepted", "evJoinRejected"}))
                           = IF srvSM[c] = "awaitJoinResponse" THEN 1 ELSE 0
                      /\ Cardinality(ToPlayer(c, {"evRequestLeave"}))
                         + Cardinality(ToServer(c, {"evLeave"}))
                           = IF srvSM[c] = "leaveSession" THEN 1 ELSE 0
    BY DEF RequestAnswered
  <2>1. Flow(srvSM[c], plyEnd[c], clntSM[c], toServer[c], toPlayer[c]) /\ plyEnd[c] # "closed"
    BY <1>1 DEF IInv, FlowInv, FlowOK, FlowAt
  <2> DEFINE jp == Cardinality(ToPlayer(c, {"evRequestJoin"}))
             lp == Cardinality(ToPlayer(c, {"evRequestLeave"}))
             js == Cardinality(ToServer(c, {"evJoinAccepted", "evJoinRejected"}))
             ls == Cardinality(ToServer(c, {"evLeave"}))
  <2>2. /\ NoneOf(toPlayer[c], Requests) => jp = 0 /\ lp = 0
        /\ OneOf(toPlayer[c], Requests, {"evRequestJoin"}) => jp = 1 /\ lp = 0
        /\ OneOf(toPlayer[c], Requests, {"evRequestLeave"}) => jp = 0 /\ lp = 1
    BY <1>1, CountRequests DEF IInv
  <2>3. /\ NoneOf(toServer[c], Replies) \/ OneOf(toServer[c], Replies, Confirmation) =>
             js = 0 /\ ls = 0
        /\ PairOf(toServer[c], Replies, Acceptance, Confirmation) => js = 1 /\ ls = 0
        /\ OneOf(toServer[c], Replies, Refusal) => js = 1 /\ ls = 0
        /\ OneOf(toServer[c], Replies, Farewell) => js = 0 /\ ls = 1
    BY <1>1, CountAnswers DEF IInv
  <2> HIDE DEF jp, lp, js, ls
  <2>4. /\ jp + js = IF srvSM[c] = "awaitJoinResponse" THEN 1 ELSE 0
        /\ lp + ls = IF srvSM[c] = "leaveSession" THEN 1 ELSE 0
    <3>1. CASE Idle(srvSM[c], plyEnd[c], clntSM[c], toServer[c], toPlayer[c])
      BY <2>1, <2>2, <2>3, <3>1 DEF Idle, Request
    <3>2. CASE Asked(srvSM[c], plyEnd[c], clntSM[c], toServer[c], toPlayer[c])
      BY <2>1, <2>2, <2>3, <3>2 DEF Asked, Request
    <3>3. CASE Accepted(srvSM[c], plyEnd[c], clntSM[c], toServer[c], toPlayer[c])
      BY <2>1, <2>2, <2>3, <3>3 DEF Accepted, Request
    <3>4. CASE Rejected(srvSM[c], plyEnd[c], clntSM[c], toServer[c], toPlayer[c])
      BY <2>1, <2>2, <2>3, <3>4 DEF Rejected, Request
    <3>5. CASE Agreed(srvSM[c], plyEnd[c], clntSM[c], toServer[c], toPlayer[c])
      BY <2>1, <2>2, <2>3, <3>5 DEF Agreed, Request
    <3>6. CASE Member(srvSM[c], plyEnd[c], clntSM[c], toServer[c], toPlayer[c])
      BY <2>1, <2>2, <2>3, <3>6 DEF Member, Request
    <3>7. CASE Leaving(srvSM[c], plyEnd[c], clntSM[c], toServer[c], toPlayer[c])
      BY <2>1, <2>2, <2>3, <3>7 DEF Leaving, Request
    <3>8. CASE Left(srvSM[c], plyEnd[c], clntSM[c], toServer[c], toPlayer[c])
      BY <2>1, <2>2, <2>3, <3>8 DEF Left, Request
    <3> QED BY <2>1, <3>1, <3>2, <3>3, <3>4, <3>5, <3>6, <3>7, <3>8 DEF Flow
  <2> QED BY <2>4 DEF jp, lp, js, ls
<1> QED BY <1>1, Inductive, PTL

-----------------------------------------------------------------------------
(* What the server shows and remembers.  Both hold for a player none of     *)
(* whose connections has leaked; what has leaked stays so until the process *)
(* ends, for only a connection that is joined is ever put back in a list.   *)

Promises == MemberFlag /\ LeaveSticks

LEMMA LeaksStay ==
  ASSUME \A c \in Conns : Leaked(c) => Leaked(c)', NEW s, NEW p, NoneLeaked(s, p)'
  PROVE  NoneLeaked(s, p)
BY DEF NoneLeaked, ConnsTo

\* Steps that neither move connections between the lists nor write the flag.
LEMMA PromisesStable ==
  ASSUME ServerInv, Promises, UNCHANGED joined,
         \A c \in Conns : Leaked(c) => Leaked(c)',
         \A s \in Servers, p \in Players : rcs'[s][p].member = rcs[s][p].member,
         \A s \in Servers : selected'[s] \subseteq selected[s],
         \A c \in joined :
           srvSM'[c] = "leaveSession" =>
             srvSM[c] = "leaveSession" \/ Ply(c) \notin selected'[Srv(c)]
  PROVE  Promises'
<1>1. MemberFlag'
  BY LeaksStay DEF Promises, MemberFlag, ConnsTo
<1>2. LeaveSticks'
  <2> SUFFICES ASSUME NEW c \in joined, srvSM'[c] = "leaveSession", NoneLeaked(Srv(c), Ply(c))'
               PROVE  Ply(c) \notin selected'[Srv(c)]
    BY DEF LeaveSticks
  <2>1. Srv(c) \in Servers
    BY ConnParties DEF ServerInv, Types, ServerTypeOK
  <2>2. NoneLeaked(Srv(c), Ply(c))
    BY LeaksStay
  <2> QED BY <2>1, <2>2 DEF Promises, LeaveSticks
<1> QED BY <1>1, <1>2 DEF Promises

\* What is read from a connection that has not leaked is read from the one
\* connection the server keeps to that player.
LEMMA OnlyOne ==
  ASSUME ServerInv, NEW c \in Conns, srvSM[c] # "none", NoneLeaked(Srv(c), Ply(c))
  PROVE  c \in Tracked /\ \A d \in ConnsTo(Srv(c), Ply(c)) : d \in Tracked => d = c
<1>1. srvEnd[c] = "open"
  BY DEF ServerInv, FlowInv, FlowOK, Ends
<1>2. c \in Tracked
  BY <1>1 DEF NoneLeaked, Leaked, ConnsTo
<1> QED BY <1>2 DEF ServerInv, Books, OneConnection, ConnsTo

\* The flag of the client an event is about after it, and those of all others.
LEMMA RejectedFlag ==
  ASSUME rcs \in Rcs, NEW c \in Conns, Srv(c) \in Servers, Ply(c) \in Players, OnJoinRejected(c)
  PROVE  /\ ~rcs'[Srv(c)][Ply(c)].member
         /\ \A s \in Servers, p \in Players :
              s # Srv(c) \/ p # Ply(c) => rcs'[s][p] = rcs[s][p]
<1>1. rcs[Srv(c)][Ply(c)] \in Desc
  BY DEF Rcs
<1>2. ~[rcs[Srv(c)][Ply(c)] EXCEPT !.member = FALSE].member
  BY <1>1 DEF Desc
<1>3. rcs'[Srv(c)][Ply(c)] = [rcs[Srv(c)][Ply(c)] EXCEPT !.member = FALSE]
  BY DEF Rcs, OnJoinRejected
<1>4. \A s \in Servers, p \in Players :
        s # Srv(c) \/ p # Ply(c) => rcs'[s][p] = rcs[s][p]
  BY DEF Rcs, OnJoinRejected
<1> QED BY <1>2, <1>3, <1>4

LEMMA MemberShown ==
  ASSUME rcs \in Rcs, NEW c \in Conns, Srv(c) \in Servers, Ply(c) \in Players, OnSessionState(c)
  PROVE  /\ rcs'[Srv(c)][Ply(c)].member
         /\ \A s \in Servers, p \in Players :
              s # Srv(c) \/ p # Ply(c) => rcs'[s][p] = rcs[s][p]
<1>1. rcs[Srv(c)][Ply(c)] \in Desc
  BY DEF Rcs
<1>2. [rcs[Srv(c)][Ply(c)] EXCEPT !.member = TRUE, !.owner = Srv(c)].member
  BY <1>1 DEF Desc
<1>3. rcs'[Srv(c)][Ply(c)] = [rcs[Srv(c)][Ply(c)] EXCEPT !.member = TRUE, !.owner = Srv(c)]
  BY DEF Rcs, OnSessionState
<1>4. \A s \in Servers, p \in Players :
        s # Srv(c) \/ p # Ply(c) => rcs'[s][p] = rcs[s][p]
  BY DEF Rcs, OnSessionState
<1> QED BY <1>2, <1>3, <1>4

LEMMA LeftFlag ==
  ASSUME rcs \in Rcs, NEW c \in Conns, Srv(c) \in Servers, Ply(c) \in Players, OnLeave(c)
  PROVE  /\ ~rcs'[Srv(c)][Ply(c)].member
         /\ \A s \in Servers, p \in Players :
              s # Srv(c) \/ p # Ply(c) => rcs'[s][p] = rcs[s][p]
<1>1. rcs[Srv(c)][Ply(c)] \in Desc
  BY DEF Rcs
<1>2. ~[rcs[Srv(c)][Ply(c)] EXCEPT !.member = FALSE, !.owner = NoSession].member
  BY <1>1 DEF Desc
<1>3. rcs'[Srv(c)][Ply(c)] = [rcs[Srv(c)][Ply(c)] EXCEPT !.member = FALSE, !.owner = NoSession]
  BY DEF Rcs, OnLeave
<1>4. \A s \in Servers, p \in Players :
        s # Srv(c) \/ p # Ply(c) => rcs'[s][p] = rcs[s][p]
  BY DEF Rcs, OnLeave
<1> QED BY <1>2, <1>3, <1>4

LEMMA DisconnectedFlag ==
  ASSUME rcs \in Rcs, NEW s \in Servers, NEW p \in Players, NEW online \in BOOLEAN,
         NEW kept \in BOOLEAN,
         rcs' = [rcs EXCEPT ![s][p] = IF kept THEN [@ EXCEPT !.online = online]
                                      ELSE [NewDesc EXCEPT !.online = online]]
  PROVE  /\ rcs'[s][p].member <=> kept /\ rcs[s][p].member
         /\ \A r \in Servers, q \in Players : r # s \/ q # p => rcs'[r][q] = rcs[r][q]
<1>1. rcs[s][p] \in Desc /\ ~NewDesc.member
  BY DEF Rcs, NewDesc
<1>2. [rcs[s][p] EXCEPT !.online = online].member <=> rcs[s][p].member
  BY <1>1 DEF Desc
<1>3. ~[NewDesc EXCEPT !.online = online].member
  BY DEF NewDesc
<1>4. CASE kept
  <2>1. rcs'[s][p] = [rcs[s][p] EXCEPT !.online = online]
    BY <1>4 DEF Rcs
  <2>2. \A r \in Servers, q \in Players : r # s \/ q # p => rcs'[r][q] = rcs[r][q]
    BY <1>4 DEF Rcs
  <2> QED BY <1>2, <1>4, <2>1, <2>2
<1>5. CASE ~kept
  <2>1. rcs'[s][p] = [NewDesc EXCEPT !.online = online]
    BY <1>5 DEF Rcs
  <2>2. \A r \in Servers, q \in Players : r # s \/ q # p => rcs'[r][q] = rcs[r][q]
    BY <1>5 DEF Rcs
  <2> QED BY <1>3, <1>5, <2>1, <2>2
<1> QED BY <1>4, <1>5

LEMMA RejectedPromises ==
  ASSUME ServerInv, Promises, NEW c \in Conns, OnJoinRejected(c), UNCHANGED playerVars
  PROVE  Promises'
<1>3. rcs \in Rcs /\ Srv(c) \in Servers /\ Ply(c) \in Players
  BY ConnParties DEF ServerInv, Types, ServerTypeOK, Rcs
<1>4. /\ ~rcs'[Srv(c)][Ply(c)].member
      /\ \A s \in Servers, p \in Players :
           s # Srv(c) \/ p # Ply(c) => rcs'[s][p] = rcs[s][p]
  BY <1>3, RejectedFlag
<1> USE DEF OnJoinRejected
<1>1. UNCHANGED <<sessionless, joined, selected, srvEnd>>
  BY DEF Consumed
<1>2. \A d \in Conns : Leaked(d) => Leaked(d)'
  BY <1>1 DEF Leaked, Tracked
<1>5. MemberFlag'
  <2> SUFFICES ASSUME NEW s \in Servers, NEW p \in Players, NoneLeaked(s, p)'
               PROVE  rcs'[s][p].member <=> ConnsTo(s, p) \cap joined # {}
    BY <1>1 DEF MemberFlag, ConnsTo
  <2>1. NoneLeaked(s, p)
    BY <1>2, LeaksStay
  <2>2. CASE s = Srv(c) /\ p = Ply(c)
    <3>1. c \notin joined
      BY DEF ServerInv, Books, ListsMatchStates
    <3>2. ConnsTo(s, p) \cap joined = {}
      BY <2>1, <2>2, <3>1, OnlyOne DEF Tracked
    <3> QED BY <1>4, <2>2, <3>2
  <2>3. CASE s # Srv(c) \/ p # Ply(c)
    BY <1>4, <2>1, <2>3 DEF Promises, MemberFlag
  <2> QED BY <2>2, <2>3
<1>6. LeaveSticks'
  <2> SUFFICES ASSUME NEW d \in joined, srvSM'[d] = "leaveSession", NoneLeaked(Srv(d), Ply(d))'
               PROVE  Ply(d) \notin selected[Srv(d)]
    BY <1>1 DEF LeaveSticks
  <2>1. NoneLeaked(Srv(d), Ply(d)) /\ srvSM[d] = "leaveSession"
    BY <1>2, LeaksStay DEF ServerInv, Types, ServerTypeOK
  <2> QED BY <2>1 DEF Promises, LeaveSticks
<1> QED BY <1>5, <1>6 DEF Promises

LEMMA SessionStatePromises ==
  ASSUME ServerInv, Promises, NEW c \in Conns, OnSessionState(c), UNCHANGED playerVars
  PROVE  Promises'
<1>3. rcs \in Rcs /\ Srv(c) \in Servers /\ Ply(c) \in Players
  BY ConnParties DEF ServerInv, Types, ServerTypeOK, Rcs
<1>4. /\ rcs'[Srv(c)][Ply(c)].member
      /\ \A s \in Servers, p \in Players :
           s # Srv(c) \/ p # Ply(c) => rcs'[s][p] = rcs[s][p]
  BY <1>3, MemberShown
<1> USE DEF OnSessionState
<1>1. UNCHANGED srvEnd
  BY DEF Consumed
<1>t. sessionless \subseteq Conns /\ joined \subseteq Conns
  BY DEF ServerInv, Types, ServerTypeOK
<1>2. \A d \in Conns : Leaked(d) => Leaked(d)'
  BY <1>1 DEF Leaked, Tracked
<1>5. MemberFlag'
  <2> SUFFICES ASSUME NEW s \in Servers, NEW p \in Players, NoneLeaked(s, p)'
               PROVE  rcs'[s][p].member <=> ConnsTo(s, p) \cap joined' # {}
    BY DEF MemberFlag, ConnsTo
  <2>1. NoneLeaked(s, p)
    BY <1>2, LeaksStay
  <2>2. CASE s = Srv(c) /\ p = Ply(c)
    <3>1. c \notin joined
      BY DEF ServerInv, Books, ListsMatchStates
    <3>2. c \in sessionless /\ c \in ConnsTo(s, p)
      BY <2>1, <2>2, <3>1, OnlyOne DEF Tracked, ConnsTo
    <3> QED BY <1>4, <2>2, <3>2
  <2>3. CASE s # Srv(c) \/ p # Ply(c)
    <3>1. ConnsTo(s, p) \cap joined' = ConnsTo(s, p) \cap joined
      BY <2>3 DEF ConnsTo
    <3> QED BY <1>4, <2>1, <2>3, <3>1 DEF Promises, MemberFlag
  <2> QED BY <2>2, <2>3
<1>6. LeaveSticks'
  <2> SUFFICES ASSUME NEW d \in joined', srvSM'[d] = "leaveSession", NoneLeaked(Srv(d), Ply(d))'
               PROVE  Ply(d) \notin selected'[Srv(d)]
    BY DEF LeaveSticks
  <2>1. d \in joined /\ d # c /\ srvSM[d] = "leaveSession" /\ d \in Conns /\ Srv(d) \in Servers
    BY <1>t, ConnParties DEF ServerInv, Types, ServerTypeOK
  <2>2. NoneLeaked(Srv(d), Ply(d))
    BY <1>2, LeaksStay
  <2>3. Srv(d) # Srv(c) \/ Ply(d) # Ply(c)
    BY <2>1, <2>2, OnlyOne DEF Tracked, ConnsTo
  <2>4. Ply(d) \notin selected[Srv(d)]
    BY <2>1, <2>2 DEF Promises, LeaveSticks
  <2> QED BY <1>3, <2>1, <2>3, <2>4 DEF ServerInv, Types, ServerTypeOK
<1> QED BY <1>5, <1>6 DEF Promises

LEMMA LeavePromises ==
  ASSUME ServerInv, Promises, NEW c \in Conns, OnLeave(c), UNCHANGED playerVars
  PROVE  Promises'
<1>3. rcs \in Rcs /\ Srv(c) \in Servers /\ Ply(c) \in Players
  BY ConnParties DEF ServerInv, Types, ServerTypeOK, Rcs
<1>4. /\ ~rcs'[Srv(c)][Ply(c)].member
      /\ \A s \in Servers, p \in Players :
           s # Srv(c) \/ p # Ply(c) => rcs'[s][p] = rcs[s][p]
  BY <1>3, LeftFlag
<1> USE DEF OnLeave
<1>1. UNCHANGED <<srvEnd, selected>>
  BY DEF Consumed
<1>j. c \in joined /\ srvSM[c] = "leaveSession"
  BY HandledFits DEF ServerInv, Books
<1>2. \A d \in Conns : Leaked(d) => Leaked(d)'
  BY <1>1, <1>j DEF Leaked, Tracked
<1>5. MemberFlag'
  <2> SUFFICES ASSUME NEW s \in Servers, NEW p \in Players, NoneLeaked(s, p)'
               PROVE  rcs'[s][p].member <=> ConnsTo(s, p) \cap joined' # {}
    BY DEF MemberFlag, ConnsTo
  <2>1. NoneLeaked(s, p)
    BY <1>2, LeaksStay
  <2>2. CASE s = Srv(c) /\ p = Ply(c)
    <3>1. ConnsTo(s, p) \cap joined' = {}
      BY <1>j, <2>1, <2>2, OnlyOne DEF Tracked
    <3> QED BY <1>4, <2>2, <3>1
  <2>3. CASE s # Srv(c) \/ p # Ply(c)
    <3>1. ConnsTo(s, p) \cap joined' = ConnsTo(s, p) \cap joined
      BY <2>3 DEF ConnsTo
    <3> QED BY <1>4, <2>1, <2>3, <3>1 DEF Promises, MemberFlag
  <2> QED BY <2>2, <2>3
<1>6. LeaveSticks'
  <2> SUFFICES ASSUME NEW d \in joined', srvSM'[d] = "leaveSession", NoneLeaked(Srv(d), Ply(d))'
               PROVE  Ply(d) \notin selected[Srv(d)]
    BY <1>1 DEF LeaveSticks
  <2>1. d \in joined /\ srvSM[d] = "leaveSession"
    BY DEF ServerInv, Types, ServerTypeOK
  <2>2. NoneLeaked(Srv(d), Ply(d))
    BY <1>2, LeaksStay
  <2> QED BY <2>1, <2>2 DEF Promises, LeaveSticks
<1> QED BY <1>5, <1>6 DEF Promises

LEMMA DisconnectPromises ==
  ASSUME ServerInv, Promises, NEW s \in Servers, NEW p \in Players, NEW online \in BOOLEAN,
         DisconnectFromClient(s, p, online), UNCHANGED selected
  PROVE  Promises'
<1> DEFINE C == Named(s, p)
<1>1. /\ sessionless' = sessionless \ C /\ joined' = joined \ C
      /\ srvSM' = [c \in Conns |-> IF c \in C THEN "none" ELSE srvSM[c]]
      /\ ServerCloses(C)
      /\ rcs' = [rcs EXCEPT ![s][p] =
           IF ConnsTo(s, p) \cap joined = {} THEN [@ EXCEPT !.online = online]
           ELSE [NewDesc EXCEPT !.online = online]]
  BY DisconnectEffect
<1> HIDE DEF C
<1>c. /\ C \subseteq ConnsTo(s, p)
      /\ ConnsTo(s, p) \cap joined \subseteq C
      /\ \A c \in Conns : c \in Tracked' <=> c \in Tracked /\ c \notin C
  BY <1>1 DEF C, Named, Tracked
<1>2. \A c \in Conns : Leaked(c) => Leaked(c)'
  <2> SUFFICES ASSUME NEW c \in Conns, Leaked(c) PROVE Leaked(c)'
    OBVIOUS
  <2>1. c \notin C
    BY DEF Leaked, C, Named
  <2>2. srvEnd'[c] = srvEnd[c]
    BY <1>1, <2>1 DEF ServerCloses
  <2> QED BY <1>c, <2>2 DEF Leaked
<1>3. rcs \in Rcs
  BY DEF ServerInv, Types, ServerTypeOK, Rcs
<1>4. /\ rcs'[s][p].member <=> ConnsTo(s, p) \cap joined = {} /\ rcs[s][p].member
      /\ \A r \in Servers, q \in Players : r # s \/ q # p => rcs'[r][q] = rcs[r][q]
  <2> DEFINE kept == ConnsTo(s, p) \cap joined = {}
  <2>1. kept \in BOOLEAN
    OBVIOUS
  <2>2. rcs' = [rcs EXCEPT ![s][p] = IF kept THEN [@ EXCEPT !.online = online]
                                     ELSE [NewDesc EXCEPT !.online = online]]
    BY <1>1
  <2> HIDE DEF kept
  <2>3. /\ rcs'[s][p].member <=> kept /\ rcs[s][p].member
        /\ \A r \in Servers, q \in Players : r # s \/ q # p => rcs'[r][q] = rcs[r][q]
    BY <1>3, <2>1, <2>2, DisconnectedFlag
  <2> QED BY <2>3 DEF kept
<1>5. MemberFlag'
  <2> SUFFICES ASSUME NEW r \in Servers, NEW q \in Players, NoneLeaked(r, q)'
               PROVE  rcs'[r][q].member <=> ConnsTo(r, q) \cap joined' # {}
    BY DEF MemberFlag, ConnsTo
  <2>1. NoneLeaked(r, q)
    BY <1>2, LeaksStay
  <2>2. CASE r = s /\ q = p
    <3>1. ConnsTo(r, q) \cap joined' = {}
      BY <1>1, <1>c, <2>2
    <3>2. CASE ConnsTo(s, p) \cap joined = {}
      <4>1. ~rcs[s][p].member
        BY <2>1, <2>2, <3>2 DEF Promises, MemberFlag
      <4> QED BY <1>4, <2>2, <3>1, <3>2, <4>1
    <3>3. CASE ConnsTo(s, p) \cap joined # {}
      BY <1>4, <2>2, <3>1, <3>3
    <3> QED BY <3>2, <3>3
  <2>3. CASE r # s \/ q # p
    <3>1. ConnsTo(r, q) \cap joined' = ConnsTo(r, q) \cap joined
      BY <1>1, <1>c, <2>3 DEF ConnsTo
    <3> QED BY <1>4, <2>1, <2>3, <3>1 DEF Promises, MemberFlag
  <2> QED BY <2>2, <2>3
<1>6. LeaveSticks'
  <2> SUFFICES ASSUME NEW d \in joined', srvSM'[d] = "leaveSession", NoneLeaked(Srv(d), Ply(d))'
               PROVE  Ply(d) \notin selected[Srv(d)]
    BY DEF LeaveSticks
  <2>1. d \in joined /\ srvSM[d] = "leaveSession"
    BY <1>1 DEF ServerInv, Types, ServerTypeOK
  <2>2. NoneLeaked(Srv(d), Ply(d))
    BY <1>2, LeaksStay
  <2> QED BY <2>1, <2>2 DEF Promises, LeaveSticks
<1> QED BY <1>5, <1>6 DEF Promises

\* The end of the process: what it has shown is gone with it.
LEMMA EndsPromises ==
  ASSUME ServerInv, Promises, NEW s \in Servers, ServerEnds(s)
  PROVE  Promises'
<1>1. /\ joined' = joined \ {c \in Conns : Srv(c) = s}
      /\ sessionless' = sessionless \ {c \in Conns : Srv(c) = s}
      /\ UNCHANGED selected
      /\ srvEnd' = [c \in Conns |->
           IF c \in {d \in {e \in Conns : Srv(e) = s} : srvEnd[d] = "open"} THEN "closed" ELSE srvEnd[c]]
      /\ srvSM' = [c \in Conns |-> IF Srv(c) = s THEN "none" ELSE srvSM[c]]
  BY DEF ServerEnds, ServerCloses
<1>t. joined \subseteq Conns /\ sessionless \subseteq Conns /\ rcs \in Rcs
  BY DEF ServerInv, Types, ServerTypeOK, Rcs
<1>2. \A c \in Conns : Srv(c) # s /\ Leaked(c) => Leaked(c)'
  BY <1>1 DEF Leaked, Tracked
<1>3. \A r \in Servers, p \in Players : r # s /\ NoneLeaked(r, p)' => NoneLeaked(r, p)
  BY <1>2 DEF NoneLeaked, ConnsTo
<1>4. MemberFlag'
  <2> SUFFICES ASSUME NEW r \in Servers, NEW p \in Players, NoneLeaked(r, p)'
               PROVE  rcs'[r][p].member <=> ConnsTo(r, p) \cap joined' # {}
    BY DEF MemberFlag, ConnsTo
  <2>1. CASE r = s
    <3>1. ConnsTo(r, p) \cap joined' = {}
      BY <1>1, <2>1 DEF ConnsTo
    <3>2. rcs'[s] = [q \in Players |-> NewDesc]
      BY <1>t DEF ServerEnds, Rcs
    <3>3. ~rcs'[s][p].member
      BY <3>2 DEF NewDesc
    <3> QED BY <2>1, <3>1, <3>3
  <2>2. CASE r # s
    <3>1. ConnsTo(r, p) \cap joined' = ConnsTo(r, p) \cap joined
      BY <1>1, <2>2 DEF ConnsTo
    <3>2. rcs'[r] = rcs[r]
      BY <1>t, <2>2 DEF ServerEnds, Rcs
    <3>3. NoneLeaked(r, p)
      BY <1>3, <2>2
    <3>4. rcs[r][p].member <=> ConnsTo(r, p) \cap joined # {}
      BY <3>3 DEF Promises, MemberFlag
    <3> QED BY <3>1, <3>2, <3>4
  <2> QED BY <2>1, <2>2
<1>5. LeaveSticks'
  <2> SUFFICES ASSUME NEW d \in joined', srvSM'[d] = "leaveSession", NoneLeaked(Srv(d), Ply(d))'
               PROVE  Ply(d) \notin selected[Srv(d)]
    BY <1>1 DEF LeaveSticks
  <2>1. d \in joined /\ d \in Conns /\ Srv(d) # s /\ srvSM[d] = "leaveSession"
    BY <1>1, <1>t
  <2>2. NoneLeaked(Srv(d), Ply(d))
    BY <1>3, <2>1, ConnParties
  <2> QED BY <2>1, <2>2 DEF Promises, LeaveSticks
<1> QED BY <1>4, <1>5 DEF Promises

\* Steps that change no list, no descriptor and no selection.
LEMMA QuietPromises ==
  ASSUME ServerInv, Promises, UNCHANGED <<sessionless, joined, srvEnd, rcs, selected>>,
         \A c \in Conns : srvSM'[c] = "leaveSession" => srvSM[c] = "leaveSession"
  PROVE  Promises'
<1>1. \A c \in Conns : Leaked(c) => Leaked(c)'
  BY DEF Leaked, Tracked
<1>2. \A c \in joined : srvSM'[c] = "leaveSession" => srvSM[c] = "leaveSession"
  BY DEF ServerInv, Types, ServerTypeOK
<1> QED BY <1>1, <1>2, PromisesStable

\* The online flag and the owner are written beside the member flag.
LEMMA FlagBeside ==
  ASSUME rcs \in Rcs, NEW s \in Servers, NEW p \in Players, NEW b, NEW o,
         \/ rcs' = [rcs EXCEPT ![s][p].online = b, ![s][p].owner = o]
         \/ rcs' = [rcs EXCEPT ![s][p].online = b]
  PROVE  \A r \in Servers, q \in Players : rcs'[r][q].member = rcs[r][q].member
<1>1. rcs[s][p] \in Desc
  BY DEF Rcs
<1>2. /\ [rcs[s][p] EXCEPT !.online = b, !.owner = o].member = rcs[s][p].member
      /\ [rcs[s][p] EXCEPT !.online = b].member = rcs[s][p].member
  BY <1>1 DEF Desc
<1>3. CASE rcs' = [rcs EXCEPT ![s][p].online = b, ![s][p].owner = o]
  <2>1. rcs'[s][p] = [rcs[s][p] EXCEPT !.online = b, !.owner = o]
    BY <1>3 DEF Rcs
  <2>2. \A r \in Servers, q \in Players : r # s \/ q # p => rcs'[r][q] = rcs[r][q]
    BY <1>3 DEF Rcs
  <2> QED BY <1>2, <2>1, <2>2
<1>4. CASE rcs' = [rcs EXCEPT ![s][p].online = b]
  <2>1. rcs'[s][p] = [rcs[s][p] EXCEPT !.online = b]
    BY <1>4 DEF Rcs
  <2>2. \A r \in Servers, q \in Players : r # s \/ q # p => rcs'[r][q] = rcs[r][q]
    BY <1>4 DEF Rcs
  <2> QED BY <1>2, <2>1, <2>2
<1> QED BY <1>3, <1>4

LEMMA ClientStatePromises ==
  ASSUME ServerInv, Promises, NEW c \in Conns, OnClientState(c)
  PROVE  Promises'
<1>1. UNCHANGED <<sessionless, joined, selected, srvEnd>>
  BY DEF OnClientState, Consumed
<1>2. \A d \in Conns : Leaked(d) => Leaked(d)'
  BY <1>1 DEF Leaked, Tracked
<1>3. rcs \in Rcs /\ Srv(c) \in Servers /\ Ply(c) \in Players
  BY ConnParties DEF ServerInv, Types, ServerTypeOK, Rcs
<1>4. \A s \in Servers, p \in Players : rcs'[s][p].member = rcs[s][p].member
  <2>1. PICK b, o : rcs' = [rcs EXCEPT ![Srv(c)][Ply(c)].online = b, ![Srv(c)][Ply(c)].owner = o]
    BY DEF OnClientState
  <2> QED BY <1>3, <2>1, FlagBeside
<1>5. \A d \in Conns : srvSM'[d] = "leaveSession" => srvSM[d] = "leaveSession"
  <2> DEFINE sm == [srvSM EXCEPT ![c] = "knowingClientState"]
  <2>1. \/ srvSM' = sm
        \/ \E d : srvSM' = [sm EXCEPT ![d] = "awaitJoinResponse"]
    BY DEF OnClientState, RequestJoin
  <2> QED BY <2>1 DEF ServerInv, Types, ServerTypeOK
<1>6. \A d \in joined : srvSM'[d] = "leaveSession" => srvSM[d] = "leaveSession"
  BY <1>5 DEF ServerInv, Types, ServerTypeOK
<1> QED BY <1>1, <1>2, <1>4, <1>6, PromisesStable

LEMMA HandlerPromises ==
  ASSUME ServerInv, Promises, NEW c \in Conns, ServerHandler(c), UNCHANGED playerVars
  PROVE  Promises'
<1>t. srvSM \in [Conns -> SrvState]
  BY DEF ServerInv, Types, ServerTypeOK
<1>1. CASE OnJoinAccepted(c)
  BY <1>1, <1>t, QuietPromises DEF OnJoinAccepted, Consumed, bookVars
<1>2. CASE OnOtherEvent(c)
  BY <1>2, <1>t, QuietPromises DEF OnOtherEvent, Consumed, bookVars
<1>3. CASE OnEof(c) \/ OnReset(c)
  BY <1>3, QuietPromises DEF OnEof, OnReset, bookVars
<1>4. CASE DanglingRead(c)
  <2>1. CASE ServerEnds(Srv(c))
    BY <2>1, EndsPromises, ConnParties
  <2>2. CASE UNCHANGED <<linkVars, srvUp, bookVars, srvSM, srvPeer, announced>>
    BY <2>2, QuietPromises DEF bookVars, linkVars
  <2> QED BY <1>4, <2>1, <2>2 DEF DanglingRead
<1> QED BY <1>1, <1>2, <1>3, <1>4, ClientStatePromises, RejectedPromises, SessionStatePromises,
        LeavePromises DEF ServerHandler

LEMMA AppearedPromises ==
  ASSUME ServerInv, Promises, NEW s \in Servers, NEW p \in Players, NEW up,
         OnClientAppeared(s, p, up)
  PROVE  Promises'
<1>t. /\ joined \subseteq Conns /\ rcs \in Rcs /\ srvSM \in [Conns -> SrvState]
      /\ srvEnd \in [Conns -> EndState]
  BY DEF ServerInv, Types, LinkTypeOK, ServerTypeOK, Rcs
<1>1. /\ rcs' = [rcs EXCEPT ![s][p].online = FALSE]
      /\ UNCHANGED <<joined, selected>>
  BY DEF OnClientAppeared
<1>2. PICK E :
        \/ \E c \in Conns :
             /\ srvEnd[c] = "unused" /\ ServerConnects(c)
             /\ srvSM' = [srvSM EXCEPT ![c] = "awaitClientState"]
             /\ sessionless' = (sessionless \ E) \cup {c}
        \/ sessionless' = sessionless \ E /\ UNCHANGED <<linkVars, srvSM>>
  BY DEF OnClientAppeared, ConnsTo
<1>3. /\ \A c \in Conns : Leaked(c) => Leaked(c)'
      /\ \A c \in Conns : srvSM'[c] = "leaveSession" => srvSM[c] = "leaveSession"
  <2>1. CASE sessionless' = sessionless \ E /\ UNCHANGED <<linkVars, srvSM>>
    BY <1>1, <2>1 DEF Leaked, Tracked, linkVars
  <2>2. CASE \E c \in Conns :
               /\ srvEnd[c] = "unused" /\ ServerConnects(c)
               /\ srvSM' = [srvSM EXCEPT ![c] = "awaitClientState"]
               /\ sessionless' = (sessionless \ E) \cup {c}
    <3>1. PICK c \in Conns :
            /\ srvEnd[c] = "unused" /\ srvEnd' = [srvEnd EXCEPT ![c] = "open"]
            /\ srvSM' = [srvSM EXCEPT ![c] = "awaitClientState"]
            /\ sessionless' = (sessionless \ E) \cup {c}
      BY <2>2 DEF ServerConnects
    <3> QED BY <1>t, <1>1, <3>1 DEF Leaked, Tracked
  <2> QED BY <1>2, <2>1, <2>2
<1>4. \A r \in Servers, q \in Players : rcs'[r][q].member = rcs[r][q].member
  BY <1>t, <1>1, FlagBeside
<1> QED BY <1>t, <1>1, <1>3, <1>4, PromisesStable

LEMMA UserPromises ==
  ASSUME ServerInv, Promises, NEW s \in Servers, NEW p \in Players,
         UserJoins(s, p) \/ UserLeaves(s, p) \/ UserSetsVolume(s, p)
  PROVE  Promises'
<1>t. joined \subseteq Conns /\ srvSM \in [Conns -> SrvState]
  BY DEF ServerInv, Types, ServerTypeOK
<1>1. UNCHANGED <<sessionless, joined, srvEnd, rcs>>
  BY DEF UserJoins, UserLeaves, UserSetsVolume, bookVars
<1>2. CASE UserJoins(s, p)
  <2>1. UNCHANGED selected /\ (UNCHANGED srvSM \/ \E d : srvSM' = [srvSM EXCEPT ![d] = "awaitJoinResponse"])
    BY <1>2 DEF UserJoins, RequestJoin, bookVars
  <2>2. \A c \in Conns : srvSM'[c] = "leaveSession" => srvSM[c] = "leaveSession"
    BY <1>t, <2>1
  <2> QED BY <1>1, <2>1, <2>2, QuietPromises
<1>3. CASE UserSetsVolume(s, p)
  BY <1>1, <1>3, QuietPromises DEF UserSetsVolume, bookVars
<1>4. CASE UserLeaves(s, p)
  <2>1. selected' = [selected EXCEPT ![s] = @ \ {p}]
    BY <1>4 DEF UserLeaves
  <2>2. \A r \in Servers : selected'[r] \subseteq selected[r]
    BY <2>1 DEF ServerInv, Types, ServerTypeOK
  <2>3. p \notin selected'[s]
    BY <2>1 DEF ServerInv, Types, ServerTypeOK
  <2>4. UNCHANGED srvSM \/ \E d \in ConnsTo(s, p) : srvSM' = [srvSM EXCEPT ![d] = "leaveSession"]
    BY <1>4 DEF UserLeaves, CtrlConnByName
  <2>5. \A c \in joined :
          srvSM'[c] = "leaveSession" => srvSM[c] = "leaveSession" \/ Ply(c) \notin selected'[Srv(c)]
    BY <1>t, <2>3, <2>4 DEF ConnsTo
  <2>6. \A c \in Conns : Leaked(c) => Leaked(c)'
    BY <1>1 DEF Leaked, Tracked
  <2> QED BY <1>1, <2>2, <2>5, <2>6, PromisesStable
<1> QED BY <1>2, <1>3, <1>4

LEMMA PromisesStep ==
  ASSUME IInv, Promises, [Next]_vars
  PROVE  Promises'
<1>1. ServerInv
  BY InvParts
<1>2. CASE UNCHANGED vars
  BY <1>1, <1>2, QuietPromises DEF vars, srvVars, linkVars
<1>3. CASE /\ UNCHANGED srvVars
           /\ (\E c \in Conns : ConnStep(c)) \/ (\E p \in Players : PlayerStep(p))
  <2>1. UNCHANGED srvEnd
    BY <1>3, PlayerLeavesServer
  <2> QED BY <1>1, <1>3, <2>1, QuietPromises DEF srvVars
<1>4. CASE ServerSide
  <2>1. ASSUME NEW c \in Conns, ServerConnStep(c) PROVE Promises'
    <3>1. CASE ReadCompletes(c)
      BY <1>1, <3>1, QuietPromises DEF ReadCompletes, linkVars, bookVars
    <3> QED BY <1>1, <2>1, <3>1, HandlerPromises DEF ServerConnStep
  <2>2. ASSUME NEW s \in Servers, NEW p \in Players, RunDisconnect(s, p) PROVE Promises'
    <3>1. rcs[s][p].online \in BOOLEAN
      BY <1>1 DEF ServerInv, Types, ServerTypeOK, Desc
    <3> QED BY <1>1, <2>2, <3>1, DisconnectPromises DEF RunDisconnect
  <2>3. ASSUME NEW s \in Servers, ServerFails(s) PROVE Promises'
    <3>1. CASE ServerStart(s)
      BY <1>1, <3>1, QuietPromises DEF ServerStart, linkVars, bookVars
    <3>2. CASE ServerEnds(s)
      BY <1>1, <3>2, EndsPromises
    <3> QED BY <2>3, <3>1, <3>2 DEF ServerFails, WriteThrows, ServerExit, ErasedIterator
  <2>4. ASSUME NEW s \in Servers, NEW p \in Players, User(s, p) PROVE Promises'
    BY <1>1, <2>4, UserPromises DEF User
  <2>5. ASSUME NEW s \in Servers, NEW p \in Players, Discovery(s, p) PROVE Promises'
    <3>1. CASE OnClientAppeared(s, p, plyUp[p])
      BY <1>1, <3>1, AppearedPromises
    <3>2. CASE OnClientDisappeared(s, p)
      BY <1>1, <3>2, DisconnectPromises DEF OnClientDisappeared
    <3> QED BY <2>5, <3>1, <3>2 DEF Discovery
  <2> QED BY <1>4, <2>1, <2>2, <2>3, <2>4, <2>5 DEF ServerSide, PostedStep
<1> QED BY <1>2, <1>3, <1>4, NextSides

LEMMA PromisesInit == Init => Promises
<1> SUFFICES ASSUME Init PROVE Promises
  OBVIOUS
<1>1. LeaveSticks
  BY DEF Init, ServerInit, LeaveSticks
<1>2. joined = {} /\ \A s \in Servers, p \in Players : ~rcs[s][p].member
  BY DEF Init, ServerInit, NewDesc
<1> QED BY <1>1, <1>2 DEF Promises, MemberFlag

LEMMA PromisesKept == Spec => []Promises
<1>1. IInv /\ Promises /\ [Next]_vars => (IInv /\ Promises)'
  BY InvStep, PromisesStep
<1>2. Init => IInv /\ Promises
  BY InvInit, PromisesInit
<1> QED BY <1>1, <1>2, PTL DEF Spec

\* The member flag shown to the user is the membership in the joined list, in
\* whatever order answers, hangups, discovery and failures come.
THEOREM MemberFlagTrue == Spec => []MemberFlag
<1>1. Promises => MemberFlag
  BY DEF Promises
<1> QED BY <1>1, PromisesKept, PTL

\* A member that was asked to leave is not selected again before it has left.
THEOREM LeaveHolds == Spec => []LeaveSticks
<1>1. Promises => LeaveSticks
  BY DEF Promises
<1> QED BY <1>1, PromisesKept, PTL

-----------------------------------------------------------------------------
(* SessionCtrl implements Membership.  Each handler is one step of the      *)
(* abstract specification for the connection it is about, or changes        *)
(* nothing that Membership speaks of; which of the two follows from Flow.   *)

LEMMA UnderwayHas ==
  ASSUME NEW c, NEW ev
  PROVE  Underway(c, ev) <=> Has(toServer[c], ev)
BY DEF Underway, Has

\* Without a reply under way there is none of its kinds.
LEMMA NoReplyNone ==
  ASSUME NEW q \in Seq(PlayerMsg), NoneOf(q, Replies)
  PROVE  ~Has(q, "evSessionState") /\ ~Has(q, "evLeave")
<1>1. \A i \in DOMAIN q : q[i] \in PlayerMsg
  OBVIOUS
<1> QED BY <1>1, ReplyKinds DEF NoneOf, Has

\* The only reply under way is of one kind.
LEMMA OneReplyNone ==
  ASSUME NEW q \in Seq(PlayerMsg)
  PROVE  /\ OneOf(q, Replies, Refusal) => ~Has(q, "evSessionState")
         /\ OneOf(q, Replies, Confirmation) => ~Has(q, "evLeave")
         /\ OneOf(q, Replies, Farewell) => ~Has(q, "evSessionState")
<1>1. \A i \in DOMAIN q : q[i] \in PlayerMsg
  OBVIOUS
<1>2. ASSUME NEW k \in DOMAIN q, NEW ev \in {"evSessionState", "evLeave"},
             \A i \in DOMAIN q \ {k} : q[i] \notin Replies, q[k].ev # ev
      PROVE  ~Has(q, ev)
  BY <1>1, <1>2, ReplyKinds DEF Has
<1>3. ASSUME OneOf(q, Replies, Refusal) PROVE ~Has(q, "evSessionState")
  BY <1>1, <1>2, <1>3, ReplyKinds DEF OneOf
<1>4. ASSUME OneOf(q, Replies, Confirmation) PROVE ~Has(q, "evLeave")
  BY <1>1, <1>2, <1>4, ReplyKinds DEF OneOf
<1>5. ASSUME OneOf(q, Replies, Farewell) PROVE ~Has(q, "evSessionState")
  BY <1>1, <1>2, <1>5, ReplyKinds DEF OneOf
<1> QED BY <1>3, <1>4, <1>5

-----------------------------------------------------------------------------
(* The abstract steps, connection by connection.                           *)

\* What Membership knows of connection c does not change.
SameView(c) ==
  /\ PhaseOf(c)' = PhaseOf(c)
  /\ Underway(c, "evSessionState")' <=> Underway(c, "evSessionState")
  /\ Underway(c, "evLeave")' <=> Underway(c, "evLeave")

OthersView(c) == \A d \in Conns \ {c} : SameView(d)

AbstractStep == [Abstract!Next]_(Abstract!vars)

LEMMA StutterStep ==
  ASSUME sessionConn' = sessionConn, \A c \in Conns : SameView(c)
  PROVE  AbstractStep
BY DEF AbstractStep, Abstract!vars, SameView

LEMMA OpenStep ==
  ASSUME NEW c \in Conns, OthersView(c), sessionConn' = sessionConn,
         PhaseOf(c) = "unused", PhaseOf(c)' = "idle",
         Underway(c, "evSessionState")' <=> Underway(c, "evSessionState"),
         Underway(c, "evLeave")' <=> Underway(c, "evLeave")
  PROVE  AbstractStep
<1>1. Abstract!Open(c)
  BY DEF Abstract!Open, Abstract!Moves, OthersView, SameView
<1> QED BY <1>1 DEF AbstractStep, Abstract!Next

LEMMA AskStep ==
  ASSUME NEW c \in Conns, OthersView(c), sessionConn' = sessionConn,
         PhaseOf(c) = "idle", PhaseOf(c)' = "asked",
         Underway(c, "evSessionState")' <=> Underway(c, "evSessionState"),
         Underway(c, "evLeave")' <=> Underway(c, "evLeave")
  PROVE  AbstractStep
<1>1. Abstract!Ask(c)
  BY DEF Abstract!Ask, Abstract!Moves, OthersView, SameView
<1> QED BY <1>1 DEF AbstractStep, Abstract!Next

LEMMA AskToLeaveStep ==
  ASSUME NEW c \in Conns, OthersView(c), sessionConn' = sessionConn,
         PhaseOf(c) = "member", PhaseOf(c)' = "leaving",
         Underway(c, "evSessionState")' <=> Underway(c, "evSessionState"),
         Underway(c, "evLeave")' <=> Underway(c, "evLeave")
  PROVE  AbstractStep
<1>1. Abstract!AskToLeave(c)
  BY DEF Abstract!AskToLeave, Abstract!Moves, OthersView, SameView
<1> QED BY <1>1 DEF AbstractStep, Abstract!Next

LEMMA RefuseStep ==
  ASSUME NEW c \in Conns, OthersView(c), sessionConn' = sessionConn,
         PhaseOf(c) = "asked", PhaseOf(c)' = "idle", ~Underway(c, "evSessionState"),
         Underway(c, "evSessionState")' <=> Underway(c, "evSessionState"),
         Underway(c, "evLeave")' <=> Underway(c, "evLeave")
  PROVE  AbstractStep
<1>1. Abstract!Refuse(c)
  BY DEF Abstract!Refuse, Abstract!Moves, OthersView, SameView
<1> QED BY <1>1 DEF AbstractStep, Abstract!Next

LEMMA ConfirmStep ==
  ASSUME NEW c \in Conns, OthersView(c), sessionConn' = sessionConn,
         PhaseOf(c) = "asked", PhaseOf(c)' = "member",
         Underway(c, "evSessionState"), ~Underway(c, "evSessionState")',
         Underway(c, "evLeave")' <=> Underway(c, "evLeave")
  PROVE  AbstractStep
<1>1. Abstract!Confirm(c)
  BY DEF Abstract!Confirm, Abstract!Moves, OthersView, SameView
<1> QED BY <1>1 DEF AbstractStep, Abstract!Next

LEMMA AcknowledgeStep ==
  ASSUME NEW c \in Conns, OthersView(c), sessionConn' = sessionConn,
         PhaseOf(c) = "leaving", PhaseOf(c)' = "idle",
         Underway(c, "evSessionState")' <=> Underway(c, "evSessionState"),
         Underway(c, "evLeave"), ~Underway(c, "evLeave")'
  PROVE  AbstractStep
<1>1. Abstract!Acknowledge(c)
  BY DEF Abstract!Acknowledge, Abstract!Moves, OthersView, SameView
<1> QED BY <1>1 DEF AbstractStep, Abstract!Next

LEMMA GrantStep ==
  ASSUME NEW c \in Conns, OthersView(c), sessionConn[Ply(c)] = NoConn,
         sessionConn' = [sessionConn EXCEPT ![Ply(c)] = c],
         PhaseOf(c) \in {"asked", "closed"}, PhaseOf(c)' = PhaseOf(c),
         ~Underway(c, "evSessionState"),
         Underway(c, "evSessionState")' <=> PhaseOf(c) = "asked",
         Underway(c, "evLeave")' <=> Underway(c, "evLeave")
  PROVE  AbstractStep
<1>1. Abstract!Grant(c)
  BY DEF Abstract!Grant, OthersView, SameView
<1> QED BY <1>1 DEF AbstractStep, Abstract!Next

LEMMA ReleaseStep ==
  ASSUME NEW c \in Conns, OthersView(c), sessionConn[Ply(c)] = c,
         sessionConn' = [sessionConn EXCEPT ![Ply(c)] = NoConn],
         PhaseOf(c) \in {"leaving", "closed"}, PhaseOf(c)' = PhaseOf(c),
         ~Underway(c, "evLeave"),
         Underway(c, "evLeave")' <=> PhaseOf(c) = "leaving",
         Underway(c, "evSessionState")' <=> Underway(c, "evSessionState")
  PROVE  AbstractStep
<1>1. Abstract!Release(c)
  BY DEF Abstract!Release, OthersView, SameView
<1> QED BY <1>1 DEF AbstractStep, Abstract!Next

LEMMA LoseStep ==
  ASSUME NEW p \in Players, \A c \in Conns : SameView(c),
         sessionConn' = [sessionConn EXCEPT ![p] = NoConn],
         sessionConn \in [Players -> Conns \cup {NoConn}]
  PROVE  AbstractStep
<1>1. CASE sessionConn[p] = NoConn
  <2>1. sessionConn' = sessionConn
    BY <1>1
  <2> QED BY <2>1, StutterStep
<1>2. CASE sessionConn[p] # NoConn
  <2>1. Abstract!Lose(p)
    BY <1>2 DEF Abstract!Lose, SameView
  <2> QED BY <2>1 DEF AbstractStep, Abstract!Next
<1> QED BY <1>1, <1>2

LEMMA CloseStep ==
  ASSUME NEW C \in SUBSET Conns, \A c \in Conns \ C : SameView(c), sessionConn' = sessionConn,
         \A c \in C : /\ PhaseOf(c) \notin {"unused", "closed"} /\ PhaseOf(c)' = "closed"
                      /\ ~Underway(c, "evSessionState")' /\ ~Underway(c, "evLeave")'
  PROVE  AbstractStep
<1>1. Abstract!Close(C)
  BY DEF Abstract!Close, SameView
<1> QED BY <1>1 DEF AbstractStep, Abstract!Next

-----------------------------------------------------------------------------
(* The player's steps.                                                     *)

\* A connection the server has not opened, or has closed, has nothing under way.
Ended ==
  \A c \in Conns :
    /\ srvEnd[c] \in {"unused", "open", "closed"}
    /\ srvEnd[c] # "open" => toServer[c] = <<>>

LEMMA PhaseKept ==
  ASSUME NEW c \in Conns, srvSM'[c] = srvSM[c], srvEnd'[c] = srvEnd[c]
  PROVE  PhaseOf(c)' = PhaseOf(c)
BY DEF PhaseOf

LEMMA QueueKept ==
  ASSUME NEW c \in Conns, NEW ev, toServer'[c] = toServer[c]
  PROVE  Underway(c, ev)' <=> Underway(c, ev)
BY DEF Underway

LEMMA ViewKept ==
  ASSUME NEW c \in Conns, srvSM'[c] = srvSM[c], srvEnd'[c] = srvEnd[c],
         toServer'[c] = toServer[c]
  PROVE  SameView(c)
BY PhaseKept, QueueKept DEF SameView

LEMMA UnderwayAppend ==
  ASSUME LinkTypeOK, NEW c \in Conns, NEW m \in PlayerMsg, NEW ev,
         toServer'[c] = Append(toServer[c], m)
  PROVE  Underway(c, ev)' <=> Underway(c, ev) \/ m.ev = ev
<1>1. toServer[c] \in Seq(PlayerMsg)
  BY DEF LinkTypeOK
<1>2. Has(Append(toServer[c], m), ev) <=> Has(toServer[c], ev) \/ m.ev = ev
  BY <1>1, HasAppend
<1>3. Underway(c, ev)' <=> Has(toServer'[c], ev)
  BY DEF Underway, Has
<1> QED BY <1>2, <1>3, UnderwayHas

LEMMA UnderwayTwo ==
  ASSUME LinkTypeOK, NEW c \in Conns, NEW m \in PlayerMsg, NEW n \in PlayerMsg, NEW ev,
         toServer'[c] = toServer[c] \o <<m, n>>
  PROVE  Underway(c, ev)' <=> Underway(c, ev) \/ m.ev = ev \/ n.ev = ev
<1>1. toServer[c] \in Seq(PlayerMsg)
  BY DEF LinkTypeOK
<1>2. Has(toServer[c] \o <<m, n>>, ev) <=> Has(toServer[c], ev) \/ m.ev = ev \/ n.ev = ev
  BY <1>1, HasTwo
<1>3. Underway(c, ev)' <=> Has(toServer'[c], ev)
  BY DEF Underway, Has
<1> QED BY <1>2, <1>3, UnderwayHas

LEMMA UnderwayTail ==
  ASSUME LinkTypeOK, NEW c \in Conns, NEW ev, toServer[c] # <<>>,
         toServer'[c] = Tail(toServer[c])
  PROVE  Underway(c, ev) <=> Head(toServer[c]).ev = ev \/ Underway(c, ev)'
<1>1. toServer[c] \in Seq(PlayerMsg)
  BY DEF LinkTypeOK
<1>2. Has(toServer[c], ev) <=> Head(toServer[c]).ev = ev \/ Has(Tail(toServer[c]), ev)
  BY <1>1, HasTail
<1>3. Underway(c, ev)' <=> Has(toServer'[c], ev)
  BY DEF Underway, Has
<1> QED BY <1>2, <1>3, UnderwayHas

\* Neither of the two events that Membership speaks of.
Silent(m) == m \in PlayerMsg /\ m.ev \notin {"evSessionState", "evLeave"}

LEMMA SilentMsg ==
  ASSUME NEW e \in PlayerEvent \cup Hangup, e \notin {"evSessionState", "evLeave"},
         NEW s \in Servers \cup {NoSession}
  PROVE  Silent(Msg(e, s))
BY DEF Silent, PlayerMsg, Msg

LEMMA SendsOne ==
  ASSUME LinkTypeOK, NEW c \in Conns, NEW m, Silent(m), Send(c, <<m>>),
         UNCHANGED <<srvEnd, srvSM>>
  PROVE  /\ \A d \in Conns : SameView(d)
         /\ \A d \in Conns : srvEnd[d] # "open" => toServer'[d] = toServer[d]
<1>1. /\ srvEnd[c] = "open" => toServer'[c] = Append(toServer[c], m)
      /\ srvEnd[c] # "open" => toServer'[c] = toServer[c]
      /\ \A d \in Conns \ {c} : toServer'[d] = toServer[d]
  <2>1. toServer[c] \in Seq(PlayerMsg) /\ m \in PlayerMsg
    BY DEF LinkTypeOK, Silent
  <2>2. toServer[c] \o <<m>> = Append(toServer[c], m)
    BY <2>1
  <2> QED BY <2>2, SendEffect
<1>2. SameView(c)
  <2>1. CASE srvEnd[c] = "open"
    BY <1>1, <2>1, PhaseKept, UnderwayAppend DEF SameView, Silent
  <2>2. CASE srvEnd[c] # "open"
    BY <1>1, <2>2, ViewKept
  <2> QED BY <2>1, <2>2
<1> QED BY <1>1, <1>2, ViewKept

LEMMA ClosesView ==
  ASSUME LinkTypeOK, NEW C, PlayerCloses(C), UNCHANGED <<srvEnd, srvSM>>
  PROVE  /\ \A d \in Conns : SameView(d)
         /\ \A d \in Conns : srvEnd[d] # "open" => toServer'[d] = toServer[d]
<1>1. ASSUME NEW d \in Conns, d \in C, srvEnd[d] = "open" PROVE SameView(d)
  <2>1. PICK m \in PlayerMsg : m \notin Replies /\ toServer'[d] = Append(toServer[d], m)
    BY <1>1, ClosesEffect
  <2>2. m.ev \notin {"evSessionState", "evLeave"}
    BY <2>1, ReplyKinds
  <2> QED BY <2>1, <2>2, PhaseKept, UnderwayAppend DEF SameView
<1>2. ASSUME NEW d \in Conns, d \notin C \/ srvEnd[d] # "open"
      PROVE  toServer'[d] = toServer[d]
  BY <1>2, ClosesEffect
<1> QED BY <1>1, <1>2, ViewKept

\* The player gives up what it holds, or nothing.
LEMMA CloseConnStep ==
  ASSUME IInv, NEW c \in Conns, OnCloseCtrlConn(c), UNCHANGED <<srvEnd, srvSM>>
  PROVE  AbstractStep
<1>1. LinkTypeOK /\ PlayerTypeOK /\ PlayerCloses({c}) /\ Ply(c) \in Players
  BY ConnParties DEF IInv, TypeOK, OnCloseCtrlConn
<1>2. \A d \in Conns : SameView(d)
  BY <1>1, ClosesView
<1>3. CASE sessionConn[Ply(c)] = c
  <2>1. sessionConn' = [sessionConn EXCEPT ![Ply(c)] = NoConn]
    BY <1>3 DEF OnCloseCtrlConn
  <2> QED BY <1>1, <1>2, <2>1, LoseStep DEF PlayerTypeOK
<1>4. CASE sessionConn[Ply(c)] # c
  <2>1. sessionConn' = [sessionConn EXCEPT ![Ply(c)] = sessionConn[Ply(c)]]
    BY <1>4 DEF OnCloseCtrlConn
  <2>2. sessionConn' = sessionConn
    BY <1>1, <2>1 DEF PlayerTypeOK
  <2> QED BY <1>2, <2>2, StutterStep
<1> QED BY <1>3, <1>4

LEMMA ProcessEndsStep ==
  ASSUME IInv, NEW p \in Players, ProcessEnds(p), UNCHANGED srvSM
  PROVE  AbstractStep
<1>1. LinkTypeOK /\ PlayerTypeOK
  BY DEF IInv, TypeOK
<1>2. \A d \in Conns : SameView(d)
  BY <1>1, ClosesView DEF ProcessEnds
<1>3. sessionConn' = [sessionConn EXCEPT ![p] = NoConn]
  BY DEF ProcessEnds
<1> QED BY <1>1, <1>2, <1>3, LoseStep DEF PlayerTypeOK

\* The request finds the machines waiting for the answer; a server that closed
\* its end has been asked by nobody else.
LEMMA AcceptJoinStep ==
  ASSUME IInv, Ended, NEW c \in Conns, AcceptJoin(c), UNCHANGED srvSM
  PROVE  AbstractStep
<1>1. /\ LinkTypeOK /\ PlayerTypeOK /\ Ends(c)
      /\ plyEnd[c] = "open" /\ toPlayer[c] # <<>> /\ Head(toPlayer[c]) = "evRequestJoin"
      /\ toServer[c] \in Seq(PlayerMsg) /\ toPlayer[c] \in Seq(ServerEvent \cup Hangup)
  BY DEF IInv, TypeOK, FlowInv, FlowOK, AcceptJoin, Reads, LinkTypeOK
<1>2. /\ sessionConn[Ply(c)] = NoConn
      /\ sessionConn' = [sessionConn EXCEPT ![Ply(c)] = c]
      /\ UNCHANGED <<srvEnd, srvSM>>
      /\ Send(c, <<Msg("evJoinAccepted", NoSession), Msg("evSessionState", NoSession)>>)
  BY DEF AcceptJoin, mayJoinSession
<1>3. /\ srvEnd[c] = "open" =>
           toServer'[c] = toServer[c] \o <<Msg("evJoinAccepted", NoSession), Msg("evSessionState", NoSession)>>
      /\ srvEnd[c] # "open" => toServer'[c] = toServer[c]
      /\ \A d \in Conns \ {c} : toServer'[d] = toServer[d]
  BY <1>1, <1>2, SendEffect
<1>4. OthersView(c)
  BY <1>2, <1>3, ViewKept DEF OthersView
<1>5. PhaseOf(c)' = PhaseOf(c)
  BY <1>2, PhaseKept
<1>6. CASE srvEnd[c] = "open"
  <2>1. FlowAt(c)
    BY <1>6 DEF IInv, FlowInv, FlowOK
  <2>2. Asked(srvSM[c], plyEnd[c], clntSM[c], toServer[c], toPlayer[c])
    BY <1>1, <2>1, RequestFits DEF FlowAt
  <2>3. PhaseOf(c) = "asked" /\ ~Underway(c, "evSessionState")
    BY <1>1, <1>6, <2>2, NoReplyNone, UnderwayHas DEF Asked, PhaseOf
  <2>4. /\ Msg("evJoinAccepted", NoSession) \in PlayerMsg
        /\ Msg("evSessionState", NoSession) \in PlayerMsg
        /\ Msg("evJoinAccepted", NoSession).ev = "evJoinAccepted"
        /\ Msg("evSessionState", NoSession).ev = "evSessionState"
    BY DEF Msg, PlayerMsg, PlayerEvent
  <2>5. /\ Underway(c, "evSessionState")'
        /\ Underway(c, "evLeave")' <=> Underway(c, "evLeave")
    BY <1>1, <1>3, <1>6, <2>4, UnderwayTwo
  <2> QED BY <1>2, <1>4, <1>5, <2>3, <2>5, GrantStep
<1>7. CASE srvEnd[c] # "open"
  <2>1. srvEnd[c] = "closed" /\ toServer[c] = <<>> /\ srvSM[c] = "none"
    BY <1>1, <1>7 DEF Ended, Ends
  <2>2. PhaseOf(c) = "closed" /\ ~Underway(c, "evSessionState")
    <3>1. PhaseOf(c) = "closed"
      BY <2>1 DEF PhaseOf
    <3>2. ~Has(toServer[c], "evSessionState")
      BY <2>1, HasNone
    <3> QED BY <3>1, <3>2, UnderwayHas
  <2>3. \A ev : Underway(c, ev)' <=> Underway(c, ev)
    BY <1>3, <1>7, QueueKept
  <2> QED BY <1>2, <1>4, <1>5, <2>2, <2>3, GrantStep
<1> QED BY <1>6, <1>7

LEMMA LeaveSessionStep ==
  ASSUME IInv, Ended, NEW c \in Conns, LeaveSession(c), UNCHANGED srvSM
  PROVE  AbstractStep
<1> DEFINE bye == Msg("evLeave", sessionName[Ply(c)])
           free == ClientState(NoSession)
<1>1. /\ LinkTypeOK /\ PlayerTypeOK /\ Ends(c) /\ Ply(c) \in Players
      /\ plyEnd[c] = "open" /\ toPlayer[c] # <<>> /\ Head(toPlayer[c]) = "evRequestLeave"
      /\ toServer[c] \in Seq(PlayerMsg) /\ toPlayer[c] \in Seq(ServerEvent \cup Hangup)
  BY ConnParties DEF IInv, TypeOK, FlowInv, FlowOK, LeaveSession, Reads, LinkTypeOK
<1>2. /\ sessionConn[Ply(c)] = c
      /\ sessionConn' = [sessionConn EXCEPT ![Ply(c)] = NoConn]
      /\ UNCHANGED <<srvEnd, srvSM>>
      /\ Send(c, <<bye, free>>)
  BY <1>1 DEF LeaveSession, IInv, SessionInv, OneMember
<1>3. /\ srvEnd[c] = "open" => toServer'[c] = toServer[c] \o <<bye, free>>
      /\ srvEnd[c] # "open" => toServer'[c] = toServer[c]
      /\ \A d \in Conns \ {c} : toServer'[d] = toServer[d]
  BY <1>1, <1>2, SendEffect
<1>4. OthersView(c)
  BY <1>2, <1>3, ViewKept DEF OthersView
<1>5. PhaseOf(c)' = PhaseOf(c)
  BY <1>2, PhaseKept
<1>6. CASE srvEnd[c] = "open"
  <2>1. FlowAt(c)
    BY <1>6 DEF IInv, FlowInv, FlowOK
  <2>2. Leaving(srvSM[c], plyEnd[c], clntSM[c], toServer[c], toPlayer[c])
    BY <1>1, <2>1, RequestFits DEF FlowAt
  <2>3. PhaseOf(c) = "leaving" /\ ~Underway(c, "evLeave")
    BY <1>1, <1>6, <2>2, NoReplyNone, UnderwayHas DEF Leaving, PhaseOf
  <2>4. /\ bye \in PlayerMsg /\ free \in PlayerMsg
        /\ bye.ev = "evLeave" /\ free.ev = "evClientState"
    BY <1>1 DEF Msg, PlayerMsg, PlayerEvent, ClientState, PlayerTypeOK
  <2>5. /\ Underway(c, "evLeave")'
        /\ Underway(c, "evSessionState")' <=> Underway(c, "evSessionState")
    <3> HIDE DEF bye, free
    <3> QED BY <1>1, <1>3, <1>6, <2>4, UnderwayTwo
  <2> QED BY <1>2, <1>4, <1>5, <2>3, <2>5, ReleaseStep
<1>7. CASE srvEnd[c] # "open"
  <2>1. srvEnd[c] = "closed" /\ toServer[c] = <<>> /\ srvSM[c] = "none"
    BY <1>1, <1>7 DEF Ended, Ends
  <2>2. PhaseOf(c) = "closed" /\ ~Underway(c, "evLeave")
    <3>1. PhaseOf(c) = "closed"
      BY <2>1 DEF PhaseOf
    <3>2. ~Has(toServer[c], "evLeave")
      BY <2>1, HasNone
    <3> QED BY <3>1, <3>2, UnderwayHas
  <2>3. \A ev : Underway(c, ev)' <=> Underway(c, ev)
    BY <1>3, <1>7, QueueKept
  <2> QED BY <1>2, <1>4, <1>5, <2>2, <2>3, ReleaseStep
<1> QED BY <1>6, <1>7

\* What the player sends of its own accord is none of Membership's business.
LEMMA ForwardStep ==
  ASSUME IInv, NEW p \in Players, sessionConn[p] # NoConn,
         NEW e \in {"evVolume", "evSessionError"}, Forward(p, e),
         UNCHANGED <<srvEnd, srvSM, sessionConn>>
  PROVE  AbstractStep
<1>1. LinkTypeOK /\ sessionConn[p] \in Conns
  BY DEF IInv, TypeOK, PlayerTypeOK
<1>2. CASE clntSM[sessionConn[p]] = "sessionMember"
  <2>1. Send(sessionConn[p], <<Msg(e, NoSession)>>)
    BY <1>2 DEF Forward
  <2>2. Silent(Msg(e, NoSession))
    BY SilentMsg DEF PlayerEvent
  <2>3. \A d \in Conns : SameView(d)
    BY <1>1, <2>1, <2>2, SendsOne
  <2> QED BY <2>3, StutterStep
<1>3. CASE clntSM[sessionConn[p]] # "sessionMember"
  BY <1>3, ViewKept, StutterStep DEF Forward
<1> QED BY <1>2, <1>3

LEMMA RejectJoinStep ==
  ASSUME IInv, NEW c \in Conns, RejectJoin(c), UNCHANGED srvSM
  PROVE  AbstractStep
<1> DEFINE name == sessionName[Ply(c)]
           m == Msg("evJoinRejected", name)
           n == ClientState(name)
<1>1. /\ LinkTypeOK /\ name \in Servers \cup {NoSession} /\ toServer[c] \in Seq(PlayerMsg)
  BY ConnParties DEF IInv, TypeOK, LinkTypeOK, PlayerTypeOK
<1>2. Send(c, <<m, n>>) /\ UNCHANGED <<srvEnd, sessionConn>>
  BY DEF RejectJoin, sessionVars
<1>3. m \in PlayerMsg /\ n \in PlayerMsg /\ m.ev = "evJoinRejected" /\ n.ev = "evClientState"
  BY <1>1 DEF Msg, PlayerMsg, PlayerEvent, ClientState
<1> HIDE DEF m, n, name
<1>4. /\ srvEnd[c] = "open" => toServer'[c] = toServer[c] \o <<m, n>>
      /\ srvEnd[c] # "open" => toServer'[c] = toServer[c]
      /\ \A d \in Conns \ {c} : toServer'[d] = toServer[d]
  BY <1>1, <1>2, SendEffect
<1>5. SameView(c)
  <2>1. CASE srvEnd[c] = "open"
    BY <1>1, <1>2, <1>3, <1>4, <2>1, PhaseKept, UnderwayTwo DEF SameView
  <2>2. CASE srvEnd[c] # "open"
    BY <1>2, <1>4, <2>2, ViewKept
  <2> QED BY <2>1, <2>2
<1>6. \A d \in Conns : SameView(d)
  BY <1>2, <1>4, <1>5, ViewKept
<1> QED BY <1>2, <1>6, StutterStep

LEMMA ConnStepImplements ==
  ASSUME IInv, Ended, NEW c \in Conns, ConnStep(c), UNCHANGED srvSM
  PROVE  AbstractStep
<1>1. CASE Accept(c)
  <2>1. ClientState(sessionName[Ply(c)]) = Msg("evClientState", sessionName[Ply(c)])
    BY DEF ClientState
  <2>2. Silent(ClientState(sessionName[Ply(c)])) /\ LinkTypeOK
    BY <2>1, ConnParties, SilentMsg DEF IInv, TypeOK, PlayerTypeOK, PlayerEvent
  <2>3. Send(c, <<ClientState(sessionName[Ply(c)])>>) /\ UNCHANGED <<srvEnd, sessionConn>>
    BY <1>1 DEF Accept
  <2>4. \A d \in Conns : SameView(d)
    BY <2>2, <2>3, SendsOne
  <2> QED BY <2>3, <2>4, StutterStep
<1>2. CASE AcceptJoin(c)
  BY <1>2, AcceptJoinStep
<1>3. CASE RejectJoin(c)
  BY <1>3, RejectJoinStep
<1>4. CASE LeaveSession(c)
  BY <1>4, LeaveSessionStep
<1>5. CASE SetVolume(c) \/ SyncOrReset(c) \/ NoTransition(c) \/ ReadReset(c)
  <2>1. UNCHANGED <<toServer, srvEnd, sessionConn>>
    BY <1>5 DEF SetVolume, SyncOrReset, NoTransition, ReadReset, sessionVars, playerVars
  <2> QED BY <2>1, ViewKept, StutterStep
<1>6. CASE ReadEof(c)
  BY <1>6, CloseConnStep DEF ReadEof
<1>7. CASE HandleWriteError(c)
  <2>1. CASE OnCloseCtrlConn(c)
    BY <1>7, <2>1, CloseConnStep DEF HandleWriteError
  <2>2. CASE UNCHANGED <<toPlayer, toServer, plyEnd, sessionConn, sessionName, mediaConn>>
    <3>1. UNCHANGED <<toServer, srvEnd, sessionConn>>
      BY <1>7, <2>2 DEF HandleWriteError
    <3> QED BY <3>1, ViewKept, StutterStep
  <2> QED BY <1>7, <2>1, <2>2 DEF HandleWriteError
<1>8. CASE EndpointThrows(c)
  BY <1>8, ConnParties, ProcessEndsStep DEF EndpointThrows
<1> QED BY <1>1, <1>2, <1>3, <1>4, <1>5, <1>6, <1>7, <1>8 DEF ConnStep

LEMMA PlayerStepImplements ==
  ASSUME IInv, NEW p \in Players, PlayerStep(p), UNCHANGED srvSM
  PROVE  AbstractStep
<1>1. CASE VolumeTimerExpires(p) \/ MeasureOffset(p) \/ PlayerStart(p)
  <2>1. UNCHANGED <<toServer, srvEnd, sessionConn>>
    BY <1>1 DEF VolumeTimerExpires, MeasureOffset, PlayerStart, linkVars, sessionVars
  <2> QED BY <2>1, ViewKept, StutterStep
<1>2. CASE ReportVolume(p)
  BY <1>2, ForwardStep DEF ReportVolume, sessionVars
<1>3. CASE OnClockOffset(p)
  BY <1>3, ForwardStep DEF OnClockOffset, sessionVars
<1>4. CASE NullSessionConn(p) \/ PlayerExit(p)
  BY <1>4, ProcessEndsStep DEF NullSessionConn, PlayerExit
<1> QED BY <1>1, <1>2, <1>3, <1>4 DEF PlayerStep

\* A player's step puts nothing into the queue of a connection that has ended.
LEMMA EndedKept ==
  ASSUME Ended, UNCHANGED srvEnd,
         \A d \in Conns : srvEnd[d] # "open" => toServer'[d] = toServer[d]
  PROVE  Ended'
BY DEF Ended

LEMMA PlayerKeepsEnded ==
  ASSUME IInv, Ended,
         \/ \E c \in Conns : ConnStep(c)
         \/ \E p \in Players : PlayerStep(p)
  PROVE  Ended'
<1>1. LinkTypeOK /\ PlayerTypeOK /\ UNCHANGED srvEnd
  BY PlayerLeavesServer DEF IInv, TypeOK
<1>a. ASSUME UNCHANGED toServer PROVE Ended'
  BY <1>1, <1>a, EndedKept
<1>b. ASSUME NEW c \in Conns, NEW msgs, Send(c, msgs) PROVE Ended'
  <2>1. \A d \in Conns : srvEnd[d] # "open" => toServer'[d] = toServer[d]
    BY <1>1, <1>b, SendEffect
  <2> QED BY <1>1, <2>1, EndedKept
<1>c. ASSUME NEW C, PlayerCloses(C) PROVE Ended'
  <2>1. \A d \in Conns : srvEnd[d] # "open" => toServer'[d] = toServer[d]
    BY <1>1, <1>c, ClosesEffect
  <2> QED BY <1>1, <2>1, EndedKept
<1>d. ASSUME NEW p, ProcessEnds(p) PROVE Ended'
  BY <1>c, <1>d DEF ProcessEnds
<1>2. ASSUME NEW c \in Conns, ConnStep(c) PROVE Ended'
  <2>1. CASE Accept(c) \/ AcceptJoin(c) \/ RejectJoin(c) \/ LeaveSession(c)
    BY <1>b, <2>1 DEF Accept, AcceptJoin, RejectJoin, LeaveSession
  <2>2. CASE SetVolume(c) \/ SyncOrReset(c) \/ NoTransition(c) \/ ReadReset(c)
    BY <1>a, <2>2 DEF SetVolume, SyncOrReset, NoTransition, ReadReset
  <2>3. CASE ReadEof(c)
    BY <1>c, <2>3 DEF ReadEof, OnCloseCtrlConn
  <2>4. CASE HandleWriteError(c)
    BY <1>a, <1>c, <2>4 DEF HandleWriteError, OnCloseCtrlConn
  <2>5. CASE EndpointThrows(c)
    BY <1>d, <2>5 DEF EndpointThrows
  <2> QED BY <1>2, <2>1, <2>2, <2>3, <2>4, <2>5 DEF ConnStep
<1>3. ASSUME NEW p \in Players, PlayerStep(p) PROVE Ended'
  <2>1. CASE VolumeTimerExpires(p) \/ MeasureOffset(p) \/ PlayerStart(p)
    BY <1>a, <2>1 DEF VolumeTimerExpires, MeasureOffset, PlayerStart, linkVars
  <2>2. CASE ReportVolume(p) \/ OnClockOffset(p)
    <3>1. PICK e : Forward(p, e)
      BY <2>2 DEF ReportVolume, OnClockOffset
    <3>2. sessionConn[p] \in Conns
      BY <1>1, <2>2 DEF ReportVolume, OnClockOffset, PlayerTypeOK
    <3>3. CASE Send(sessionConn[p], <<Msg(e, NoSession)>>)
      BY <1>b, <3>2, <3>3
    <3>4. CASE UNCHANGED toServer
      BY <1>a, <3>4
    <3> QED BY <3>1, <3>3, <3>4 DEF Forward
  <2>3. CASE NullSessionConn(p) \/ PlayerExit(p)
    BY <1>d, <2>3 DEF NullSessionConn, PlayerExit
  <2> QED BY <1>3, <2>1, <2>2, <2>3 DEF PlayerStep
<1> QED BY <1>2, <1>3

-----------------------------------------------------------------------------
(* The server's steps.                                                     *)

\* The machine's state gives the phase of an open connection.
LEMMA PhaseOpen ==
  ASSUME NEW c \in Conns, srvEnd[c] = "open"
  PROVE  /\ srvSM[c] \in {"awaitJoinResponse", "awaitSessionState"} => PhaseOf(c) = "asked"
         /\ srvSM[c] = "sessionMember" => PhaseOf(c) = "member"
         /\ srvSM[c] = "leaveSession" => PhaseOf(c) = "leaving"
         /\ srvSM[c] \in {"awaitClientState", "knowingClientState"} => PhaseOf(c) = "idle"
BY DEF PhaseOf

LEMMA PhaseOpenNext ==
  ASSUME NEW c \in Conns, srvEnd'[c] = "open"
  PROVE  /\ srvSM'[c] \in {"awaitJoinResponse", "awaitSessionState"} => PhaseOf(c)' = "asked"
         /\ srvSM'[c] = "sessionMember" => PhaseOf(c)' = "member"
         /\ srvSM'[c] = "leaveSession" => PhaseOf(c)' = "leaving"
         /\ srvSM'[c] \in {"awaitClientState", "knowingClientState"} => PhaseOf(c)' = "idle"
BY DEF PhaseOf

\* What taking one message does to what is under way.
LEMMA TakenView ==
  ASSUME LinkTypeOK, NEW c \in Conns, NEW e, toServer[c] # <<>>, Head(toServer[c]).ev = e,
         toServer'[c] = Tail(toServer[c]), \A d \in Conns \ {c} : toServer'[d] = toServer[d]
  PROVE  /\ Underway(c, e)
         /\ \A ev : ev # e => (Underway(c, ev)' <=> Underway(c, ev))
         /\ \A ev : Underway(c, ev)' <=> Has(Tail(toServer[c]), ev)
         /\ \A d \in Conns \ {c} : \A ev : Underway(d, ev)' <=> Underway(d, ev)
<1>1. \A ev : Underway(c, ev) <=> Head(toServer[c]).ev = ev \/ Underway(c, ev)'
  BY UnderwayTail
<1>2. ASSUME NEW ev PROVE Underway(c, ev)' <=> Has(Tail(toServer[c]), ev)
  BY DEF Underway, Has
<1>3. \A d \in Conns \ {c} : \A ev : Underway(d, ev)' <=> Underway(d, ev)
  BY QueueKept
<1> QED BY <1>1, <1>2, <1>3

LEMMA HandledView ==
  ASSUME ServerInv, NEW c \in Conns, NEW e, Handles(c, e), Consumed(c)
  PROVE  /\ UNCHANGED srvEnd /\ srvEnd[c] = "open" /\ toServer[c] \in Seq(PlayerMsg)
         /\ toServer[c] # <<>> /\ Head(toServer[c]).ev = e /\ Head(toServer[c]) \in PlayerMsg
         /\ Flow(srvSM[c], plyEnd[c], clntSM[c], toServer[c], toPlayer[c])
         /\ Underway(c, e)
         /\ \A ev : ev # e => (Underway(c, ev)' <=> Underway(c, ev))
         /\ \A ev : Underway(c, ev)' <=> Has(Tail(toServer[c]), ev)
         /\ \A d \in Conns \ {c} : \A ev : Underway(d, ev)' <=> Underway(d, ev)
<1>1. /\ UNCHANGED srvEnd /\ srvEnd[c] = "open" /\ toServer[c] \in Seq(PlayerMsg)
      /\ toServer[c] # <<>> /\ Head(toServer[c]).ev = e /\ Head(toServer[c]) \in PlayerMsg
      /\ toServer'[c] = Tail(toServer[c]) /\ \A d \in Conns \ {c} : toServer'[d] = toServer[d]
      /\ LinkTypeOK
  BY ConsumedType DEF ServerInv, Types, LinkTypeOK
<1>2. Flow(srvSM[c], plyEnd[c], clntSM[c], toServer[c], toPlayer[c])
  BY <1>1 DEF ServerInv, FlowInv, FlowOK, FlowAt
<1> QED BY <1>1, <1>2, TakenView

\* Neither phase nor events: a handler Membership does not see.
LEMMA UnseenStep ==
  ASSUME UNCHANGED sessionConn,
         \A d \in Conns : PhaseOf(d)' = PhaseOf(d),
         \A d \in Conns : \A ev \in {"evSessionState", "evLeave"} :
           Underway(d, ev)' <=> Underway(d, ev)
  PROVE  AbstractStep
BY StutterStep DEF SameView

\* A server's machine may be asked to request the player to join.
LEMMA RequestJoinStep ==
  ASSUME ServerInv, NEW d \in Conns, srvEnd[d] = "open", NEW sm \in [Conns -> SrvState],
         RequestJoin(d, sm), UNCHANGED <<srvEnd, sessionConn>>,
         \A e \in Conns :
           \/ sm[e] = srvSM[e]
           \/ /\ srvEnd[e] = "open"
              /\ {sm[e], srvSM[e]} \subseteq {"awaitClientState", "knowingClientState"},
         \A e \in Conns : \A ev \in {"evSessionState", "evLeave"} :
           Underway(e, ev)' <=> Underway(e, ev)
  PROVE  AbstractStep
<1>1. /\ \A e \in Conns \ {d} : srvSM'[e] = sm[e]
      /\ \/ srvSM'[d] = sm[d]
         \/ sm[d] = "knowingClientState" /\ srvSM'[d] = "awaitJoinResponse"
  BY RequestJoinType DEF ServerInv
<1>2. ASSUME NEW e \in Conns, srvSM'[e] = sm[e] PROVE PhaseOf(e)' = PhaseOf(e)
  <2>1. CASE sm[e] = srvSM[e]
    BY <1>2, <2>1, PhaseKept
  <2>2. CASE /\ srvEnd[e] = "open"
             /\ {sm[e], srvSM[e]} \subseteq {"awaitClientState", "knowingClientState"}
    <3>1. PhaseOf(e) = "idle"
      BY <2>2, PhaseOpen
    <3>2. srvEnd'[e] = "open" /\ srvSM'[e] \in {"awaitClientState", "knowingClientState"}
      BY <1>2, <2>2
    <3>3. PhaseOf(e)' = "idle"
      BY <3>2, PhaseOpenNext
    <3> QED BY <3>1, <3>3
  <2> QED BY <2>1, <2>2
<1>3. CASE srvSM'[d] = sm[d]
  <2>1. \A e \in Conns : PhaseOf(e)' = PhaseOf(e)
    BY <1>1, <1>2, <1>3
  <2> QED BY <2>1, UnseenStep
<1>4. CASE sm[d] = "knowingClientState" /\ srvSM'[d] = "awaitJoinResponse"
  <2>1. PhaseOf(d) = "idle"
    BY <1>4, PhaseOpen
  <2>2. srvEnd'[d] = "open"
    OBVIOUS
  <2>3. PhaseOf(d)' = "asked"
    BY <1>4, <2>2, PhaseOpenNext
  <2>4. OthersView(d)
    BY <1>1, <1>2 DEF OthersView, SameView
  <2> QED BY <2>1, <2>3, <2>4, AskStep
<1> QED BY <1>1, <1>3, <1>4

LEMMA ClientStateStep ==
  ASSUME ServerInv, NEW c \in Conns, OnClientState(c), UNCHANGED playerVars
  PROVE  AbstractStep
<1> DEFINE sm == [srvSM EXCEPT ![c] = "knowingClientState"]
<1>1. /\ Handles(c, "evClientState") /\ Consumed(c)
      /\ srvSM[c] \in {"awaitClientState", "knowingClientState"}
      /\ \/ \E d \in CtrlConnByName(Srv(c), Ply(c)) : RequestJoin(d, sm)
         \/ srvSM' = sm
      /\ UNCHANGED sessionConn
  BY DEF OnClientState, playerVars
<1>2. /\ sm \in [Conns -> SrvState] /\ sm[c] = "knowingClientState"
      /\ \A d \in Conns \ {c} : sm[d] = srvSM[d]
  BY DEF ServerInv, Types, ServerTypeOK, SrvState
<1> HIDE DEF sm
<1>3. /\ UNCHANGED srvEnd /\ srvEnd[c] = "open"
      /\ \A e \in Conns : \A ev \in {"evSessionState", "evLeave"} :
           Underway(e, ev)' <=> Underway(e, ev)
  BY <1>1, HandledView
<1>4. \A e \in Conns :
        \/ sm[e] = srvSM[e]
        \/ /\ srvEnd[e] = "open"
           /\ {sm[e], srvSM[e]} \subseteq {"awaitClientState", "knowingClientState"}
  BY <1>1, <1>2, <1>3
<1>5. CASE \E d \in CtrlConnByName(Srv(c), Ply(c)) : RequestJoin(d, sm)
  <2>1. PICK d \in CtrlConnByName(Srv(c), Ply(c)) : RequestJoin(d, sm)
    BY <1>5
  <2>2. d \in Conns /\ srvEnd[d] = "open"
    BY ConnParties, FoundByName
  <2> QED BY <1>1, <1>2, <1>3, <1>4, <2>1, <2>2, RequestJoinStep
<1>6. CASE srvSM' = sm
  <2>1. \A e \in Conns \ {c} : PhaseOf(e)' = PhaseOf(e)
    BY <1>2, <1>3, <1>6, PhaseKept
  <2>2. srvEnd'[c] = "open" /\ srvSM'[c] = "knowingClientState"
    BY <1>2, <1>3, <1>6
  <2>3. PhaseOf(c) = "idle" /\ PhaseOf(c)' = "idle"
    BY <1>1, <1>3, <2>2, PhaseOpen, PhaseOpenNext
  <2> QED BY <1>1, <1>3, <2>1, <2>3, UnseenStep
<1> QED BY <1>1, <1>5, <1>6

\* An event changes the machine of the connection it came on.
LEMMA HandledOthers ==
  ASSUME ServerInv, NEW c \in Conns, NEW e, Handles(c, e), Consumed(c), NEW to,
         srvSM' = [srvSM EXCEPT ![c] = to]
  PROVE  /\ OthersView(c)
         /\ srvSM'[c] = to /\ srvEnd'[c] = "open"
<1>1. /\ UNCHANGED srvEnd /\ srvEnd[c] = "open"
      /\ \A d \in Conns \ {c} : \A ev : Underway(d, ev)' <=> Underway(d, ev)
  BY HandledView
<1>2. srvSM'[c] = to /\ \A d \in Conns \ {c} : srvSM'[d] = srvSM[d]
  BY DEF ServerInv, Types, ServerTypeOK
<1>3. \A d \in Conns \ {c} : PhaseOf(d)' = PhaseOf(d)
  BY <1>1, <1>2, PhaseKept
<1> QED BY <1>1, <1>2, <1>3 DEF OthersView, SameView

LEMMA JoinAcceptedStep ==
  ASSUME ServerInv, NEW c \in Conns, OnJoinAccepted(c), UNCHANGED playerVars
  PROVE  AbstractStep
<1>1. /\ Handles(c, "evJoinAccepted") /\ Consumed(c) /\ srvSM[c] = "awaitJoinResponse"
      /\ srvSM' = [srvSM EXCEPT ![c] = "awaitSessionState"] /\ UNCHANGED sessionConn
  BY DEF OnJoinAccepted, playerVars
<1>2. /\ srvEnd[c] = "open"
      /\ \A ev \in {"evSessionState", "evLeave"} : Underway(c, ev)' <=> Underway(c, ev)
  BY <1>1, HandledView
<1>3. OthersView(c) /\ srvSM'[c] = "awaitSessionState" /\ srvEnd'[c] = "open"
  BY <1>1, HandledOthers
<1>4. PhaseOf(c) = "asked" /\ PhaseOf(c)' = "asked"
  BY <1>1, <1>2, <1>3, PhaseOpen, PhaseOpenNext
<1>5. \A d \in Conns : SameView(d)
  BY <1>2, <1>3, <1>4 DEF SameView, OthersView
<1> QED BY <1>1, <1>5, StutterStep

\* A refusal is the only answer there is: no consent is behind it.
LEMMA JoinRejectedStep ==
  ASSUME ServerInv, NEW c \in Conns, OnJoinRejected(c), UNCHANGED playerVars
  PROVE  AbstractStep
<1>1. /\ Handles(c, "evJoinRejected") /\ Consumed(c) /\ srvSM[c] = "awaitJoinResponse"
      /\ srvSM' = [srvSM EXCEPT ![c] = "knowingClientState"] /\ UNCHANGED sessionConn
  BY DEF OnJoinRejected, playerVars
<1>2. /\ srvEnd[c] = "open" /\ toServer[c] \in Seq(PlayerMsg) /\ toServer[c] # <<>>
      /\ Head(toServer[c]) \in PlayerMsg /\ Head(toServer[c]).ev = "evJoinRejected"
      /\ Flow(srvSM[c], plyEnd[c], clntSM[c], toServer[c], toPlayer[c])
      /\ \A ev \in {"evSessionState", "evLeave"} : Underway(c, ev)' <=> Underway(c, ev)
  BY <1>1, HandledView
<1>3. OneOf(toServer[c], Replies, Refusal)
  <2>1. Head(toServer[c]) \in Replies /\ Head(toServer[c]) \notin Acceptance
    BY <1>2, ReplyKinds
  <2> QED BY <1>1, <1>2, <2>1, TakeReply
          DEF Flow, Idle, Asked, Accepted, Rejected, Agreed, Member, Leaving, Left
<1>4. ~Underway(c, "evSessionState")
  BY <1>2, <1>3, OneReplyNone, UnderwayHas
<1>5. OthersView(c) /\ srvSM'[c] = "knowingClientState" /\ srvEnd'[c] = "open"
  BY <1>1, HandledOthers
<1>6. PhaseOf(c) = "asked" /\ PhaseOf(c)' = "idle"
  BY <1>1, <1>2, <1>5, PhaseOpen, PhaseOpenNext
<1> QED BY <1>1, <1>2, <1>4, <1>5, <1>6, RefuseStep

LEMMA SessionStateStep ==
  ASSUME ServerInv, NEW c \in Conns, OnSessionState(c), UNCHANGED playerVars
  PROVE  AbstractStep
<1>1. /\ Handles(c, "evSessionState") /\ Consumed(c) /\ srvSM[c] = "awaitSessionState"
      /\ srvSM' = [srvSM EXCEPT ![c] = "sessionMember"] /\ UNCHANGED sessionConn
  BY DEF OnSessionState, playerVars
<1>2. /\ srvEnd[c] = "open" /\ toServer[c] \in Seq(PlayerMsg) /\ toServer[c] # <<>>
      /\ Head(toServer[c]) \in PlayerMsg /\ Head(toServer[c]).ev = "evSessionState"
      /\ Flow(srvSM[c], plyEnd[c], clntSM[c], toServer[c], toPlayer[c])
      /\ Underway(c, "evSessionState")
      /\ Underway(c, "evLeave")' <=> Underway(c, "evLeave")
      /\ Underway(c, "evSessionState")' <=> Has(Tail(toServer[c]), "evSessionState")
  BY <1>1, HandledView
<1>3. NoneOf(Tail(toServer[c]), Replies)
  <2>1. Head(toServer[c]) \in Replies
    BY <1>2, ReplyKinds
  <2> QED BY <1>1, <1>2, <2>1, TakeReply
          DEF Flow, Idle, Asked, Accepted, Rejected, Agreed, Member, Leaving, Left
<1>4. Tail(toServer[c]) \in Seq(PlayerMsg)
  BY <1>2
<1>5. ~Underway(c, "evSessionState")'
  BY <1>2, <1>3, <1>4, NoReplyNone
<1>6. OthersView(c) /\ srvSM'[c] = "sessionMember" /\ srvEnd'[c] = "open"
  BY <1>1, HandledOthers
<1>7. PhaseOf(c) = "asked" /\ PhaseOf(c)' = "member"
  BY <1>1, <1>2, <1>6, PhaseOpen, PhaseOpenNext
<1> QED BY <1>1, <1>2, <1>5, <1>6, <1>7, ConfirmStep

\* A farewell answers the request to leave and is the last answer there is.
LEMMA LeaveStep ==
  ASSUME ServerInv, NEW c \in Conns, OnLeave(c), UNCHANGED playerVars
  PROVE  AbstractStep
<1>1. /\ Handles(c, "evLeave") /\ Consumed(c)
      /\ srvSM' = [srvSM EXCEPT ![c] = "knowingClientState"] /\ UNCHANGED sessionConn
  BY DEF OnLeave, playerVars
<1>2. srvSM[c] = "leaveSession"
  BY <1>1, HandledFits
<1>3. /\ srvEnd[c] = "open" /\ toServer[c] \in Seq(PlayerMsg) /\ toServer[c] # <<>>
      /\ Head(toServer[c]) \in PlayerMsg /\ Head(toServer[c]).ev = "evLeave"
      /\ Flow(srvSM[c], plyEnd[c], clntSM[c], toServer[c], toPlayer[c])
      /\ Underway(c, "evLeave")
      /\ Underway(c, "evSessionState")' <=> Underway(c, "evSessionState")
      /\ Underway(c, "evLeave")' <=> Has(Tail(toServer[c]), "evLeave")
  BY <1>1, HandledView
<1>4. NoneOf(Tail(toServer[c]), Replies)
  <2>1. Head(toServer[c]) \in Replies
    BY <1>3, ReplyKinds
  <2> QED BY <1>2, <1>3, <2>1, TakeReply
          DEF Flow, Idle, Asked, Accepted, Rejected, Agreed, Member, Leaving, Left
<1>5. Tail(toServer[c]) \in Seq(PlayerMsg)
  BY <1>3
<1>6. ~Underway(c, "evLeave")'
  BY <1>3, <1>4, <1>5, NoReplyNone
<1>7. OthersView(c) /\ srvSM'[c] = "knowingClientState" /\ srvEnd'[c] = "open"
  BY <1>1, HandledOthers
<1>8. PhaseOf(c) = "leaving" /\ PhaseOf(c)' = "idle"
  BY <1>2, <1>3, <1>7, PhaseOpen, PhaseOpenNext
<1> QED BY <1>1, <1>3, <1>6, <1>7, <1>8, AcknowledgeStep

\* No answer is dropped, so what is dropped is none of Membership's business.
LEMMA OtherEventStep ==
  ASSUME ServerInv, NEW c \in Conns, OnOtherEvent(c), UNCHANGED playerVars
  PROVE  AbstractStep
<1>1. PICK e \in PlayerEvent :
        /\ Handles(c, e) /\ Consumed(c)
        /\ ~ \/ e = "evClientState" /\ srvSM[c] \in {"awaitClientState", "knowingClientState"}
             \/ e \in {"evJoinAccepted", "evJoinRejected"} /\ srvSM[c] = "awaitJoinResponse"
             \/ e = "evSessionState" /\ srvSM[c] = "awaitSessionState"
             \/ e = "evLeave" /\ srvSM[c] \in JoinedState
        /\ srvSM' = IF e = "evSessionError" /\ srvSM[c] = "awaitSessionState"
                    THEN [srvSM EXCEPT ![c] = "awaitClientState"]
                    ELSE srvSM
  BY DEF OnOtherEvent
<1>2. e \notin {"evJoinAccepted", "evJoinRejected", "evSessionState", "evLeave"}
  BY <1>1, HandledFits DEF JoinedState
<1>3. UNCHANGED <<srvSM, sessionConn>>
  BY <1>1, <1>2, HandledFits DEF playerVars
<1>4. /\ UNCHANGED srvEnd
      /\ \A d \in Conns : \A ev \in {"evSessionState", "evLeave"} :
           Underway(d, ev)' <=> Underway(d, ev)
  BY <1>1, <1>2, HandledView
<1>5. \A d \in Conns : PhaseOf(d)' = PhaseOf(d)
  BY <1>3, <1>4, PhaseKept
<1> QED BY <1>3, <1>4, <1>5, UnseenStep

LEMMA HangupStep ==
  ASSUME ServerInv, NEW c \in Conns, OnEof(c) \/ OnReset(c), UNCHANGED playerVars
  PROVE  AbstractStep
<1>1. PICK e \in Hangup :
        /\ Handles(c, e) /\ toServer' = [toServer EXCEPT ![c] = Tail(@)]
        /\ UNCHANGED <<srvEnd, srvSM, sessionConn>>
  BY DEF OnEof, OnReset, Hangup, playerVars
<1>2. /\ LinkTypeOK /\ toServer[c] # <<>> /\ Head(toServer[c]).ev = e
      /\ toServer'[c] = Tail(toServer[c]) /\ \A d \in Conns \ {c} : toServer'[d] = toServer[d]
  BY <1>1 DEF Handles, ServerInv, Types, LinkTypeOK
<1>3. /\ \A ev : ev # e => (Underway(c, ev)' <=> Underway(c, ev))
      /\ \A d \in Conns \ {c} : \A ev : Underway(d, ev)' <=> Underway(d, ev)
  BY <1>2, TakenView
<1>4. \A d \in Conns : \A ev \in {"evSessionState", "evLeave"} :
        Underway(d, ev)' <=> Underway(d, ev)
  BY <1>3 DEF Hangup
<1>5. \A d \in Conns : PhaseOf(d)' = PhaseOf(d)
  BY <1>1, PhaseKept
<1> QED BY <1>1, <1>4, <1>5, UnseenStep

\* A server closes its end of some open connections.
LEMMA ServerClosesStep ==
  ASSUME Types, NEW C \in SUBSET Conns, ServerCloses(C), UNCHANGED sessionConn,
         \A c \in C : srvEnd[c] = "open",
         \A c \in Conns : srvSM'[c] = IF c \in C THEN "none" ELSE srvSM[c]
  PROVE  AbstractStep
<1>1. /\ srvEnd' = [c \in Conns |-> IF c \in C THEN "closed" ELSE srvEnd[c]]
      /\ \A c \in Conns : c \notin C => toServer'[c] = toServer[c]
      /\ \A c \in C : toServer'[c] = <<>>
  BY DEF ServerCloses
<1>2. \A c \in Conns \ C : SameView(c)
  BY <1>1, ViewKept
<1>3. ASSUME NEW c \in C
      PROVE  /\ PhaseOf(c) \notin {"unused", "closed"} /\ PhaseOf(c)' = "closed"
             /\ ~Underway(c, "evSessionState")' /\ ~Underway(c, "evLeave")'
  <2>1. srvEnd[c] = "open" /\ srvEnd'[c] = "closed" /\ srvSM'[c] = "none" /\ toServer'[c] = <<>>
    BY <1>1, <1>3
  <2>2. PhaseOf(c) \notin {"unused", "closed"}
    BY <2>1 DEF PhaseOf
  <2>3. PhaseOf(c)' = "closed"
    BY <2>1 DEF PhaseOf
  <2>4. \A ev : Underway(c, ev)' <=> Has(<<>>, ev)
    BY <2>1 DEF Underway, Has
  <2> QED BY <2>2, <2>3, <2>4, HasNone
<1> QED BY <1>2, <1>3, CloseStep

LEMMA ServerEndsStep ==
  ASSUME ServerInv, NEW s \in Servers, ServerEnds(s), UNCHANGED playerVars
  PROVE  AbstractStep
<1> DEFINE C == {c \in Conns : Srv(c) = s /\ srvEnd[c] = "open"}
<1>1. ServerCloses(C)
  <2>1. C = {c \in {d \in Conns : Srv(d) = s} : srvEnd[c] = "open"}
    OBVIOUS
  <2> QED BY <2>1 DEF ServerEnds
<1>2. \A c \in Conns : srvSM'[c] = IF c \in C THEN "none" ELSE srvSM[c]
  BY DEF ServerEnds, ServerInv, FlowInv, FlowOK, Ends
<1>3. UNCHANGED sessionConn
  BY DEF playerVars
<1> QED BY <1>1, <1>2, <1>3, ServerClosesStep DEF ServerInv

LEMMA DisconnectStep ==
  ASSUME ServerInv, NEW s \in Servers, NEW p \in Players, NEW online \in BOOLEAN,
         DisconnectFromClient(s, p, online), UNCHANGED playerVars
  PROVE  AbstractStep
<1> DEFINE C == Named(s, p)
<1>1. /\ srvSM' = [c \in Conns |-> IF c \in C THEN "none" ELSE srvSM[c]]
      /\ ServerCloses(C)
  BY DisconnectEffect
<1>2. C \subseteq Conns /\ \A c \in C : srvEnd[c] = "open"
  BY DEF Named, ConnsTo, ServerInv, Books, OneConnection
<1>3. UNCHANGED sessionConn
  BY DEF playerVars
<1> HIDE DEF C
<1> QED BY <1>1, <1>2, <1>3, ServerClosesStep DEF ServerInv

LEMMA ClientAppearedStep ==
  ASSUME ServerInv, NEW s \in Servers, NEW p \in Players, NEW up,
         OnClientAppeared(s, p, up), UNCHANGED playerVars
  PROVE  AbstractStep
<1>1. UNCHANGED sessionConn
  BY DEF playerVars
<1>2. CASE UNCHANGED <<linkVars, srvSM>>
  BY <1>1, <1>2, ViewKept, StutterStep DEF linkVars
<1>3. CASE \E c \in ConnsTo(s, p) :
             /\ srvEnd[c] = "unused" /\ ServerConnects(c)
             /\ srvSM' = [srvSM EXCEPT ![c] = "awaitClientState"]
  <2>1. PICK c \in ConnsTo(s, p) :
          /\ srvEnd[c] = "unused" /\ ServerConnects(c)
          /\ srvSM' = [srvSM EXCEPT ![c] = "awaitClientState"]
    BY <1>3
  <2>2. /\ c \in Conns /\ srvSM[c] = "none" /\ UNCHANGED toServer
        /\ srvEnd'[c] = "open" /\ srvSM'[c] = "awaitClientState"
        /\ \A d \in Conns \ {c} : srvEnd'[d] = srvEnd[d] /\ srvSM'[d] = srvSM[d]
    BY <2>1 DEF ConnsTo, ServerConnects, ServerInv, Types, LinkTypeOK, ServerTypeOK,
       FlowInv, FlowOK, Ends
  <2>3. PhaseOf(c) = "unused"
    BY <2>1, <2>2 DEF PhaseOf
  <2>4. PhaseOf(c)' = "idle"
    BY <2>2, PhaseOpenNext
  <2>5. \A ev : Underway(c, ev)' <=> Underway(c, ev)
    BY <2>2, QueueKept
  <2>6. OthersView(c)
    BY <2>2, ViewKept DEF OthersView
  <2> QED BY <1>1, <2>2, <2>3, <2>4, <2>5, <2>6, OpenStep
<1> QED BY <1>2, <1>3 DEF OnClientAppeared

LEMMA UserStep ==
  ASSUME ServerInv, NEW s \in Servers, NEW p \in Players,
         UserJoins(s, p) \/ UserLeaves(s, p) \/ UserSetsVolume(s, p), UNCHANGED playerVars
  PROVE  AbstractStep
<1>1. UNCHANGED <<toServer, srvEnd, sessionConn>>
  BY DEF UserJoins, UserLeaves, UserSetsVolume, playerVars
<1>2. \A e \in Conns : \A ev : Underway(e, ev)' <=> Underway(e, ev)
  BY <1>1, QueueKept
<1>3. CASE UNCHANGED srvSM
  BY <1>1, <1>3, ViewKept, StutterStep
<1>4. CASE UserJoins(s, p)
  <2>1. PICK d \in CtrlConnByName(s, p) : RequestJoin(d, srvSM)
    BY <1>4 DEF UserJoins
  <2>2. d \in Conns /\ srvEnd[d] = "open"
    BY FoundByName
  <2>3. srvSM \in [Conns -> SrvState]
    BY DEF ServerInv, Types, ServerTypeOK
  <2> QED BY <1>1, <1>2, <2>1, <2>2, <2>3, RequestJoinStep
<1>5. CASE \E d \in CtrlConnByName(s, p) :
             /\ srvSM[d] = "sessionMember"
             /\ srvSM' = [srvSM EXCEPT ![d] = "leaveSession"]
  <2>1. PICK d \in CtrlConnByName(s, p) :
          /\ srvSM[d] = "sessionMember"
          /\ srvSM' = [srvSM EXCEPT ![d] = "leaveSession"]
    BY <1>5
  <2>2. d \in Conns /\ srvEnd[d] = "open"
    BY FoundByName
  <2>3. /\ srvEnd'[d] = "open" /\ srvSM'[d] = "leaveSession"
        /\ \A e \in Conns \ {d} : srvSM'[e] = srvSM[e]
    BY <1>1, <2>1, <2>2 DEF ServerInv, Types, ServerTypeOK
  <2>4. PhaseOf(d) = "member" /\ PhaseOf(d)' = "leaving"
    BY <2>1, <2>2, <2>3, PhaseOpen, PhaseOpenNext
  <2>5. OthersView(d)
    BY <1>1, <2>3, ViewKept DEF OthersView
  <2> QED BY <1>1, <1>2, <2>2, <2>4, <2>5, AskToLeaveStep
<1> QED BY <1>3, <1>4, <1>5 DEF UserLeaves, UserSetsVolume

LEMMA HandlerStep ==
  ASSUME ServerInv, NEW c \in Conns, ServerHandler(c), UNCHANGED playerVars
  PROVE  AbstractStep
<1>1. CASE DanglingRead(c)
  <2>1. CASE ServerEnds(Srv(c))
    BY <2>1, ConnParties, ServerEndsStep
  <2>2. CASE UNCHANGED <<linkVars, srvSM>>
    BY <2>2, ViewKept, StutterStep DEF linkVars, playerVars
  <2> QED BY <1>1, <2>1, <2>2 DEF DanglingRead
<1> QED BY <1>1, ClientStateStep, JoinAcceptedStep, JoinRejectedStep, SessionStateStep,
       LeaveStep, OtherEventStep, HangupStep DEF ServerHandler

LEMMA ServerSideStep ==
  ASSUME ServerInv, ServerSide
  PROVE  AbstractStep
<1>1. ASSUME NEW c \in Conns, ServerConnStep(c) PROVE AbstractStep
  <2>1. CASE ReadCompletes(c)
    BY <1>1, <2>1, ViewKept, StutterStep DEF ServerConnStep, ReadCompletes, linkVars, playerVars
  <2> QED BY <1>1, <2>1, HandlerStep DEF ServerConnStep
<1>2. ASSUME NEW s \in Servers, PostedStep(s) PROVE AbstractStep
  <2>1. PICK p \in Players : RunDisconnect(s, p) /\ UNCHANGED playerVars
    BY <1>2 DEF PostedStep
  <2>2. rcs[s][p].online \in BOOLEAN
    BY DEF ServerInv, Types, ServerTypeOK, Desc
  <2> QED BY <2>1, <2>2, DisconnectStep DEF RunDisconnect
<1>3. ASSUME NEW s \in Servers, ServerFails(s) PROVE AbstractStep
  <2>1. CASE ServerStart(s)
    BY <1>3, <2>1, ViewKept, StutterStep DEF ServerFails, ServerStart, linkVars, playerVars
  <2>2. CASE ServerEnds(s)
    BY <1>3, <2>2, ServerEndsStep DEF ServerFails
  <2> QED BY <1>3, <2>1, <2>2 DEF ServerFails, WriteThrows, ServerExit, ErasedIterator
<1>4. ASSUME NEW s \in Servers, NEW p \in Players, User(s, p) PROVE AbstractStep
  BY <1>4, UserStep DEF User
<1>5. ASSUME NEW s \in Servers, NEW p \in Players, Discovery(s, p) PROVE AbstractStep
  <2>1. CASE OnClientAppeared(s, p, plyUp[p])
    BY <1>5, <2>1, ClientAppearedStep DEF Discovery
  <2>2. CASE OnClientDisappeared(s, p)
    <3>1. DisconnectFromClient(s, p, FALSE) /\ FALSE \in BOOLEAN
      BY <2>2 DEF OnClientDisappeared
    <3> QED BY <1>5, <3>1, DisconnectStep DEF Discovery
  <2> QED BY <1>5, <2>1, <2>2 DEF Discovery
<1> QED BY <1>1, <1>2, <1>3, <1>4, <1>5 DEF ServerSide

\* A server that closes its end never hears what was under way.
LEMMA ServerKeepsEnded ==
  ASSUME ServerInv, Ended, ServerSide
  PROVE  Ended'
<1>a. ASSUME UNCHANGED <<srvEnd, toServer>> PROVE Ended'
  BY <1>a DEF Ended
<1>b. ASSUME NEW c \in Conns, NEW e, Handles(c, e), UNCHANGED srvEnd,
             toServer' = [toServer EXCEPT ![c] = Tail(@)]
      PROVE  Ended'
  BY <1>b DEF Handles, Ended, ServerInv, Types, LinkTypeOK
<1>c. ASSUME NEW C, ServerCloses(C) PROVE Ended'
  <2>1. /\ srvEnd' = [c \in Conns |-> IF c \in C THEN "closed" ELSE srvEnd[c]]
        /\ toServer' = [c \in Conns |-> IF c \in C THEN <<>> ELSE toServer[c]]
    BY <1>c DEF ServerCloses
  <2> QED BY <2>1 DEF Ended
<1>d. ASSUME NEW c \in Conns, ServerConnects(c) PROVE Ended'
  <2>1. /\ srvEnd' = [srvEnd EXCEPT ![c] = "open"] /\ UNCHANGED toServer
    BY <1>d DEF ServerConnects
  <2> QED BY <2>1 DEF Ended, ServerInv, Types, LinkTypeOK
<1>1. ASSUME NEW c \in Conns, ServerConnStep(c) PROVE Ended'
  <2>1. CASE ReadCompletes(c)
    BY <1>a, <2>1 DEF ReadCompletes, linkVars
  <2>2. CASE OnClientState(c) \/ OnJoinAccepted(c) \/ OnJoinRejected(c) \/ OnSessionState(c)
             \/ OnLeave(c) \/ OnOtherEvent(c)
    <3>1. PICK e : Handles(c, e) /\ Consumed(c)
      BY <2>2 DEF OnClientState, OnJoinAccepted, OnJoinRejected, OnSessionState, OnLeave, OnOtherEvent
    <3> QED BY <1>b, <3>1 DEF Consumed
  <2>3. CASE OnEof(c) \/ OnReset(c)
    BY <1>b, <2>3 DEF OnEof, OnReset
  <2>4. CASE DanglingRead(c)
    BY <1>a, <1>c, <2>4 DEF DanglingRead, ServerEnds, linkVars
  <2> QED BY <1>1, <2>1, <2>2, <2>3, <2>4 DEF ServerConnStep, ServerHandler
<1>2. ASSUME NEW s \in Servers, NEW p \in Players, NEW online, DisconnectFromClient(s, p, online)
      PROVE  Ended'
  BY <1>2, <1>c DEF DisconnectFromClient
<1>3. ASSUME NEW s \in Servers, PostedStep(s) PROVE Ended'
  BY <1>2, <1>3 DEF PostedStep, RunDisconnect
<1>4. ASSUME NEW s \in Servers, ServerFails(s) PROVE Ended'
  BY <1>a, <1>c, <1>4 DEF ServerFails, WriteThrows, ServerExit, ErasedIterator, ServerStart,
     ServerEnds, linkVars
<1>5. ASSUME NEW s \in Servers, NEW p \in Players, User(s, p) PROVE Ended'
  BY <1>a, <1>5 DEF User, UserJoins, UserLeaves, UserSetsVolume
<1>6. ASSUME NEW s \in Servers, NEW p \in Players, Discovery(s, p) PROVE Ended'
  <2>1. CASE OnClientAppeared(s, p, plyUp[p])
    BY <1>a, <1>d, <2>1 DEF OnClientAppeared, ConnsTo, linkVars
  <2>2. CASE OnClientDisappeared(s, p)
    BY <1>2, <2>2 DEF OnClientDisappeared
  <2> QED BY <1>6, <2>1, <2>2 DEF Discovery
<1> QED BY <1>1, <1>3, <1>4, <1>5, <1>6 DEF ServerSide

-----------------------------------------------------------------------------
(* The refinement.                                                         *)

LEMMA EndedStep ==
  IInv /\ Ended /\ [Next]_vars => Ended'
<1> SUFFICES ASSUME IInv, Ended, [Next]_vars PROVE Ended'
  OBVIOUS
<1>1. CASE UNCHANGED vars
  BY <1>1 DEF Ended, vars, linkVars
<1> QED BY <1>1, NextSides, PlayerKeepsEnded, ServerKeepsEnded, InvParts

LEMMA StepImplements ==
  IInv /\ Ended /\ [Next]_vars => [Abstract!Next]_(Abstract!vars)
<1> SUFFICES ASSUME IInv, Ended, [Next]_vars PROVE AbstractStep
  BY DEF AbstractStep
<1>1. CASE UNCHANGED vars
  BY <1>1, ViewKept, StutterStep DEF vars, linkVars, playerVars, srvVars
<1>2. CASE UNCHANGED srvVars /\ ((\E c \in Conns : ConnStep(c)) \/ (\E p \in Players : PlayerStep(p)))
  BY <1>2, ConnStepImplements, PlayerStepImplements DEF srvVars
<1>3. CASE ServerSide
  BY <1>3, ServerSideStep, InvParts
<1> QED BY <1>1, <1>2, <1>3, NextSides

LEMMA InitImplements == Init => Abstract!Init /\ Ended
<1> SUFFICES ASSUME Init PROVE Abstract!Init /\ Ended
  OBVIOUS
<1>1. \A c \in Conns : srvEnd[c] = "unused" /\ srvSM[c] = "none" /\ toServer[c] = <<>>
  BY DEF Init, LinkInit, ServerInit
<1>2. sessionConn = [p \in Players |-> NoConn]
  BY DEF Init, PlayerInit
<1>3. \A c \in Conns : PhaseOf(c) = "unused"
  BY <1>1 DEF PhaseOf
<1>4. \A c \in Conns : ~Underway(c, "evSessionState") /\ ~Underway(c, "evLeave")
  BY <1>1, HasNone, UnderwayHas
<1> QED BY <1>1, <1>2, <1>3, <1>4 DEF Abstract!Init, Ended

\* For any servers, players, connections and bounds, every behaviour of players
\* and servers is one of Membership: a player lends itself to one connection at
\* a time, and a server takes it for a member only after it has agreed and for
\* free only after it has let go or the connection has ended.
THEOREM MembershipImplemented == Spec => ImplementsMembership
<1>1. Spec => [](IInv /\ Ended)
  BY InvInit, InvStep, InitImplements, EndedStep, PTL DEF Spec
<1> QED BY <1>1, InitImplements, StepImplements, PTL DEF Spec, ImplementsMembership, Abstract!Spec
=============================================================================
