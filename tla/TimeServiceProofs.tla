--------------------------- MODULE TimeServiceProofs ---------------------------
(***************************************************************************)
(* Proofs about TimeService for any number of clients and any bounds: the  *)
(* types, that a client waits for exactly one thing, and that it measures  *)
(* with the answer to its own last request unless a datagram was doubled.  *)
(*                                                                         *)
(* The protocol compares nothing, so the last one rests on there being no  *)
(* second datagram of the client anywhere: a request is sent only when the *)
(* timer expires, the timer is armed only by an answer, and the answer is  *)
(* what became of the one request (OneUnderWay).                           *)
(***************************************************************************)
EXTENDS TimeService, TLAPS

-----------------------------------------------------------------------------
(* Types.                                                                  *)

\* An answer is a datagram, like the request it is made of.
LEMMA AnswerType ==
  ASSUME NEW d \in Datagram, NEW t \in Nodes
  PROVE  /\ [d EXCEPT !.to = t] \in Datagram
         /\ [d EXCEPT !.to = t].to = t /\ [d EXCEPT !.to = t].of = d.of
         /\ [d EXCEPT !.to = t].n = d.n /\ [d EXCEPT !.to = t].copy = d.copy
BY DEF Datagram

\* A request is a datagram.
LEMMA RequestType ==
  ASSUME TypeOK, NEW c \in Clients, req[c] < MaxReq
  PROVE  /\ [to |-> Server, of |-> c, n |-> req[c] + 1, copy |-> 0] \in Datagram
         /\ req[c] + 1 \in 0 .. MaxReq
<1>1. req[c] \in 0 .. MaxReq
  BY DEF TypeOK
<1>2. req[c] + 1 \in 1 .. MaxReq
  BY <1>1, TimeAssumption
<1> QED BY <1>2, TimeAssumption DEF Datagram, Nodes

LEMMA SendType ==
  ASSUME TypeOK, NEW c \in Clients, send_request(c)
  PROVE  /\ receiving' \subseteq Nodes /\ net' \subseteq Datagram
         /\ awaiting' \subseteq Clients /\ req' \in [Clients -> 0 .. MaxReq]
<1>1. req[c] < MaxReq
  BY DEF send_request
<1> QED BY <1>1, RequestType DEF send_request, start_receive, TypeOK, Nodes

LEMMA TypeInit == Init => TypeOK
<1>1. 0 \in 0 .. MaxReq
  BY TimeAssumption
<1> QED BY <1>1 DEF Init, TypeOK, Owner, Thread

\* The steps of a thread.
LEMMA ThreadType ==
  ASSUME TypeOK, NEW n \in Nodes, ThreadStep(n)
  PROVE  TypeOK'
<1> USE DEF TypeOK
<1>1. CASE ThreadBegins(n)
  <2>1. thread' \in [Nodes -> Thread]
    BY <1>1 DEF ThreadBegins, Thread
  <2>2. /\ receiving' \subseteq Nodes /\ net' \subseteq Datagram
        /\ awaiting' \subseteq Clients /\ req' \in [Clients -> 0 .. MaxReq]
    BY <1>1, SendType DEF ThreadBegins, start_receive
  <2> QED BY <1>1, <2>1, <2>2 DEF ThreadBegins, history
<1>2. CASE Received(n)
  BY <1>2 DEF Received, ctrlVars, history
<1>3. CASE n \in Clients /\ handle_answer(n)
  BY <1>3 DEF handle_answer, ctrlVars
<1>4. CASE n = Server /\ handle_request
  <2>1. PICK d \in held[Server] : net' = net \cup {[d EXCEPT !.to = d.of]}
    BY <1>4 DEF handle_request
  <2>2. d \in Datagram /\ d.of \in Nodes
    BY <1>4, <2>1 DEF Datagram, Nodes
  <2>3. net' \subseteq Datagram
    BY <2>1, <2>2, AnswerType
  <2> QED BY <1>4, <2>3 DEF handle_request, start_receive, ctrlVars, history
<1>5. CASE RunReturns(n)
  BY <1>5 DEF RunReturns, Thread, history
<1>6. CASE ThreadEnds(n)
  BY <1>6 DEF ThreadEnds, Thread, history
<1> QED BY <1>1, <1>2, <1>3, <1>4, <1>5, <1>6 DEF ThreadStep

\* The steps of an owner, and what may end the process.
LEMMA OwnerType ==
  ASSUME TypeOK, NEW n \in Nodes, OwnerStep(n) \/ stopTimeService(n) \/ ProcessEnds(n)
  PROVE  TypeOK'
<1> USE DEF TypeOK
<1>1. CASE stop(n)
  BY <1>1 DEF stop, Steps, Owner, history
<1>2. CASE Joins(n)
  BY <1>2 DEF Joins, Steps, Owner, history
<1>3. CASE stopTimeService(n)
  BY <1>3 DEF stopTimeService, Steps, Owner, history
<1>4. CASE ProcessEnds(n)
  BY <1>4 DEF ProcessEnds, Owner, Thread, history
<1> QED BY <1>1, <1>2, <1>3, <1>4 DEF OwnerStep

LEMMA TypeStep == TypeOK /\ [Next]_vars => TypeOK'
<1> SUFFICES ASSUME TypeOK, [Next]_vars PROVE TypeOK'
  OBVIOUS
<1>1. ASSUME NEW n \in Nodes, ThreadStep(n) PROVE TypeOK'
  BY <1>1, ThreadType
<1>2. ASSUME NEW n \in Nodes, OwnerStep(n) \/ stopTimeService(n) \/ ProcessEnds(n) PROVE TypeOK'
  BY <1>2, OwnerType
<1>3. ASSUME NEW c \in Clients, TimerExpires(c) PROVE TypeOK'
  BY <1>3, SendType DEF TimerExpires, TypeOK, ctrlVars, history
<1>4. ASSUME NEW d \in net, Lose(d) PROVE TypeOK'
  BY <1>4 DEF Lose, TypeOK, ctrlVars, Datagram
<1>5. ASSUME NEW d \in net, Double(d) PROVE TypeOK'
  <2>1. d \in Datagram
    BY DEF TypeOK
  <2>2. [d EXCEPT !.copy = 1] \in Datagram /\ d.of \in Clients
    BY <2>1 DEF Datagram
  <2> QED BY <1>5, <2>2 DEF Double, TypeOK, ctrlVars
<1>6. CASE UNCHANGED vars
  BY <1>6 DEF vars, ctrlVars, history, TypeOK
<1> QED BY <1>1, <1>2, <1>3, <1>4, <1>5, <1>6 DEF Next

\* Every variable of the two threads, their owners and the network keeps to its
\* type, for every number of clients.
THEOREM TimeTypeCorrect == Spec => []TypeOK
BY TypeInit, TypeStep, PTL DEF Spec

-----------------------------------------------------------------------------
(* The inductive invariant.                                                *)

\* What c waits for: nothing before its thread has made the CTimeService, and
\* one thing in the event loop.
WaitsOf(c) ==
  /\ thread[c] = "created" =>
       c \notin awaiting /\ c \notin timer /\ c \notin receiving /\ held[c] = {}
  /\ thread[c] = "runs" =>
       /\ c \in awaiting <=> c \notin timer
       /\ c \in awaiting <=> c \in receiving \/ held[c] # {}
       /\ c \in receiving => held[c] = {}

\* A datagram is a request on its way to the server or the answer to it on its
\* way back, and has been received by the one it was sent to.
Addressed ==
  /\ \A d \in net : d.to \in {Server, d.of}
  /\ \A n \in Nodes : \A d \in held[n] : d.to = n /\ d.to \in {Server, d.of}

\* The datagrams of c in S.
Of(c, S) == {d \in S : d.of = c}

\* The client waits for this datagram, or for the answer to it.
Current(d) == d.of \in awaiting /\ d.n = req[d.of]

\* There is at most one datagram of c: in the network or with one of the two
\* that handle it.
OneOf(c) ==
  /\ \A d \in Of(c, net) : Current(d)
  /\ \A n \in Nodes : \A d \in Of(c, held[n]) : Current(d)
  /\ \A d, e \in Of(c, net) : d = e
  /\ \A n \in Nodes : Of(c, net) # {} => Of(c, held[n]) = {}
  /\ \A m, n \in Nodes : m # n /\ Of(c, held[m]) # {} => Of(c, held[n]) = {}

OneUnderWay == \A c \in Clients \ twice : OneOf(c)

Waits == \A c \in Clients : WaitsOf(c)

Answers == Addressed /\ OneUnderWay /\ MeasuresOwnRequest

IInv == TypeOK /\ Waits /\ Answers

-----------------------------------------------------------------------------
(* What a client waits for.                                                *)

LEMMA WaitsStep ==
  ASSUME TypeOK, Waits, [Next]_vars
  PROVE  Waits'
<1> SUFFICES ASSUME NEW c \in Clients PROVE WaitsOf(c)'
  BY DEF Waits
<1> USE DEF TypeOK, WaitsOf
<1>s. c # Server /\ c \in Nodes /\ Server \in Nodes /\ WaitsOf(c)
  BY TimeAssumption DEF Nodes, Waits
<1>1. ASSUME NEW n \in Nodes, ThreadStep(n) PROVE WaitsOf(c)'
  <2>1. CASE ThreadBegins(n)
    BY <1>s, <2>1 DEF ThreadBegins, send_request, start_receive
  <2>2. CASE Received(n)
    BY <1>s, <2>2 DEF Received, ctrlVars, Runs
  <2>3. CASE n \in Clients /\ handle_answer(n)
    BY <1>s, <2>3 DEF handle_answer, ctrlVars, Runs
  <2>4. CASE n = Server /\ handle_request
    BY <1>s, <2>4 DEF handle_request, start_receive, ctrlVars
  <2>5. CASE RunReturns(n)
    BY <1>s, <2>5 DEF RunReturns
  <2>6. CASE ThreadEnds(n)
    BY <1>s, <2>6 DEF ThreadEnds
  <2> QED BY <1>1, <2>1, <2>2, <2>3, <2>4, <2>5, <2>6 DEF ThreadStep
<1>2. ASSUME NEW n \in Nodes, OwnerStep(n) \/ stopTimeService(n) PROVE WaitsOf(c)'
  BY <1>s, <1>2 DEF OwnerStep, stop, Joins, stopTimeService
<1>3. ASSUME NEW n \in Nodes, ProcessEnds(n) PROVE WaitsOf(c)'
  BY <1>s, <1>3 DEF ProcessEnds
<1>4. ASSUME NEW e \in Clients, TimerExpires(e) PROVE WaitsOf(c)'
  BY <1>s, <1>4 DEF TimerExpires, Runs, send_request, start_receive, ctrlVars
<1>5. ASSUME NEW d \in net, Lose(d) \/ Double(d) PROVE WaitsOf(c)'
  BY <1>s, <1>5 DEF Lose, Double, ctrlVars
<1>6. CASE UNCHANGED vars
  BY <1>s, <1>6 DEF vars, ctrlVars
<1> QED BY <1>1, <1>2, <1>3, <1>4, <1>5, <1>6 DEF Next

-----------------------------------------------------------------------------
(* Whose answer it is.                                                     *)

LEMMA AddressedStep ==
  ASSUME TypeOK, Addressed, [Next]_vars
  PROVE  Addressed'
<1> USE DEF TypeOK, Addressed
<1>s. Server \in Nodes /\ Clients \subseteq Nodes
  BY DEF Nodes
<1>1. ASSUME NEW n \in Nodes, ThreadStep(n) PROVE Addressed'
  <2>1. CASE ThreadBegins(n)
    BY <1>s, <2>1 DEF ThreadBegins, send_request
  <2>2. CASE Received(n)
    BY <1>s, <2>2 DEF Received
  <2>3. CASE n \in Clients /\ handle_answer(n)
    BY <1>s, <2>3 DEF handle_answer
  <2>4. CASE n = Server /\ handle_request
    <3>1. PICK d \in held[Server] : net' = net \cup {[d EXCEPT !.to = d.of]}
      BY <2>4 DEF handle_request
    <3>2. d \in Datagram /\ d.of \in Nodes
      BY <1>s, <3>1 DEF Datagram
    <3>3. [d EXCEPT !.to = d.of].to = d.of /\ [d EXCEPT !.to = d.of].of = d.of
      BY <3>2, AnswerType
    <3> QED BY <1>s, <2>4, <3>1, <3>3 DEF handle_request
  <2>5. CASE RunReturns(n) \/ ThreadEnds(n)
    BY <1>s, <2>5 DEF RunReturns, ThreadEnds
  <2> QED BY <1>1, <2>1, <2>2, <2>3, <2>4, <2>5 DEF ThreadStep
<1>2. ASSUME NEW n \in Nodes, OwnerStep(n) \/ stopTimeService(n) \/ ProcessEnds(n) PROVE Addressed'
  BY <1>s, <1>2 DEF OwnerStep, stop, Joins, stopTimeService, ProcessEnds
<1>3. ASSUME NEW c \in Clients, TimerExpires(c) PROVE Addressed'
  BY <1>s, <1>3 DEF TimerExpires, send_request
<1>4. ASSUME NEW d \in net, Lose(d) PROVE Addressed'
  BY <1>s, <1>4 DEF Lose
<1>5. ASSUME NEW d \in net, Double(d) PROVE Addressed'
  <2>1. d \in Datagram
    OBVIOUS
  <2>2. [d EXCEPT !.copy = 1].to = d.to /\ [d EXCEPT !.copy = 1].of = d.of
    BY <2>1 DEF Datagram
  <2> QED BY <1>5, <2>2 DEF Double
<1>6. CASE UNCHANGED vars
  BY <1>6 DEF vars
<1> QED BY <1>1, <1>2, <1>3, <1>4, <1>5, <1>6 DEF Next

\* No datagram of c is added, and c still waits for the same one.
LEMMA OneStable ==
  ASSUME NEW c \in Clients, OneOf(c),
         \A d \in net' : d.of = c => d \in net,
         \A n \in Nodes : \A d \in held'[n] : d.of = c => d \in held[n],
         c \in awaiting => c \in awaiting', req'[c] = req[c]
  PROVE  OneOf(c)'
BY DEF OneOf, Of, Current

\* The same, and nothing is measured.
LEMMA OneAddedNothing ==
  ASSUME OneUnderWay, twice \subseteq twice',
         \A d \in net' : d \in net,
         \A n \in Nodes : held'[n] \subseteq held[n],
         awaiting' = awaiting, req' = req
  PROVE  OneUnderWay'
<1> SUFFICES ASSUME NEW c \in Clients \ twice' PROVE OneOf(c)'
  BY DEF OneUnderWay
<1> QED BY OneStable DEF OneUnderWay

\* A client sends when it has nothing under way.
LEMMA OneSent ==
  ASSUME TypeOK, OneUnderWay, NEW e \in Clients, send_request(e), e \notin awaiting,
         UNCHANGED <<held, twice>>
  PROVE  OneUnderWay'
<1> SUFFICES ASSUME NEW c \in Clients \ twice PROVE OneOf(c)'
  BY DEF OneUnderWay
<1> USE DEF TypeOK
<1>1. OneOf(c)
  BY DEF OneUnderWay
<1>2. CASE c # e
  BY <1>1, <1>2, OneStable DEF send_request
<1>3. CASE c = e
  <2>1. Of(c, net) = {} /\ \A n \in Nodes : Of(c, held[n]) = {}
    BY <1>1, <1>3 DEF OneOf, Of, Current
  <2> DEFINE r == [to |-> Server, of |-> c, n |-> req[c] + 1, copy |-> 0]
  <2>2. net' = net \cup {r} /\ awaiting' = awaiting \cup {c} /\ req'[c] = req[c] + 1
    BY <1>3 DEF send_request
  <2>3. r.of = c /\ r.n = req[c] + 1
    OBVIOUS
  <2> HIDE DEF r
  <2>4. Of(c, net') = {r}
    BY <2>1, <2>2, <2>3 DEF Of
  <2>5. \A n \in Nodes : Of(c, held'[n]) = {}
    BY <2>1
  <2> QED BY <2>2, <2>3, <2>4, <2>5 DEF OneOf, Current
<1> QED BY <1>2, <1>3

\* A datagram goes from the network to the one that receives it.
LEMMA OneReceived ==
  ASSUME TypeOK, OneUnderWay, NEW n \in Nodes, Received(n)
  PROVE  OneUnderWay'
<1> USE DEF TypeOK
<1> SUFFICES ASSUME NEW c \in Clients \ twice PROVE OneOf(c)'
  BY DEF OneUnderWay, Received, history
<1>1. PICK d \in net : d.to = n /\ net' = net \ {d} /\ held' = [held EXCEPT ![n] = {d}]
  BY DEF Received
<1>2. OneOf(c) /\ awaiting' = awaiting /\ req' = req
  BY DEF OneUnderWay, Received
<1>3. CASE d.of # c
  BY <1>1, <1>2, <1>3, OneStable
<1>4. CASE d.of = c
  <2>1. d \in Of(c, net) /\ Current(d)
    BY <1>2, <1>4 DEF OneOf, Of
  <2>2. Of(c, net') = {} /\ \A m \in Nodes : m # n => Of(c, held'[m]) = {}
    BY <1>1, <1>2, <2>1 DEF OneOf, Of
  <2>3. Of(c, held'[n]) = {d}
    BY <1>1, <1>4 DEF Of
  <2> QED BY <1>2, <2>1, <2>2, <2>3 DEF OneOf, Current
<1> QED BY <1>3, <1>4

\* The server turns the request it holds into the answer.
LEMMA OneAnswered ==
  ASSUME TypeOK, OneUnderWay, handle_request
  PROVE  OneUnderWay'
<1> USE DEF TypeOK
<1> SUFFICES ASSUME NEW c \in Clients \ twice PROVE OneOf(c)'
  BY DEF OneUnderWay, handle_request, history
<1>s. Server \in Nodes
  BY DEF Nodes
<1>1. PICK d \in held[Server] : net' = net \cup {[d EXCEPT !.to = d.of]}
  BY DEF handle_request
<1>2. OneOf(c) /\ awaiting' = awaiting /\ req' = req /\ held' = [held EXCEPT ![Server] = {}]
  BY DEF OneUnderWay, handle_request
<1> DEFINE a == [d EXCEPT !.to = d.of]
<1>3. a.of = d.of /\ a.n = d.n
  BY <1>s, <1>1, AnswerType DEF Datagram, Nodes
<1> HIDE DEF a
<1>4. net' = net \cup {a}
  BY <1>1 DEF a
<1>5. CASE d.of # c
  BY <1>2, <1>3, <1>4, <1>5, OneStable
<1>6. CASE d.of = c
  <2>1. d \in Of(c, held[Server]) /\ Current(d)
    BY <1>s, <1>2, <1>6 DEF OneOf, Of
  <2>2. Of(c, net) = {} /\ \A n \in Nodes : Of(c, held'[n]) = {}
    BY <1>s, <1>2, <2>1 DEF OneOf, Of
  <2>3. Of(c, net') = {a}
    BY <1>3, <1>4, <1>6, <2>2 DEF Of
  <2> QED BY <1>2, <1>3, <2>1, <2>2, <2>3 DEF OneOf, Current
<1> QED BY <1>5, <1>6

\* The client takes the answer it holds, and has nothing under way after that.
LEMMA OneHandled ==
  ASSUME TypeOK, Addressed, OneUnderWay, NEW e \in Clients, handle_answer(e)
  PROVE  OneUnderWay'
<1> USE DEF TypeOK
<1> SUFFICES ASSUME NEW c \in Clients \ twice PROVE OneOf(c)'
  BY DEF OneUnderWay, handle_answer
<1>s. e \in Nodes /\ e # Server
  BY TimeAssumption DEF Nodes
<1>1. /\ OneOf(c) /\ net' = net /\ req' = req /\ awaiting' = awaiting \ {e}
      /\ held[e] # {} /\ held' = [held EXCEPT ![e] = {}]
  BY DEF OneUnderWay, handle_answer
<1>2. CASE c # e
  BY <1>1, <1>2, OneStable
<1>3. CASE c = e
  <2>1. Of(c, held[e]) # {}
    BY <1>s, <1>1, <1>3 DEF Addressed, Of
  <2>2. Of(c, net) = {} /\ \A n \in Nodes : Of(c, held'[n]) = {}
    BY <1>s, <1>1, <2>1 DEF OneOf, Of
  <2> QED BY <1>1, <2>2 DEF OneOf
<1> QED BY <1>2, <1>3

LEMMA OneStep ==
  ASSUME TypeOK, Waits, Addressed, OneUnderWay, [Next]_vars
  PROVE  OneUnderWay'
<1> USE DEF TypeOK
<1>1. ASSUME NEW n \in Nodes, ThreadStep(n) PROVE OneUnderWay'
  <2>1. CASE ThreadBegins(n)
    <3>1. CASE n \in Clients /\ send_request(n)
      BY <2>1, <3>1, OneSent DEF ThreadBegins, Waits, WaitsOf, history
    <3>2. CASE UNCHANGED <<net, req, awaiting>>
      BY <2>1, <3>2, OneAddedNothing DEF ThreadBegins, history
    <3> QED BY <2>1, <3>1, <3>2 DEF ThreadBegins
  <2>2. CASE Received(n)
    BY <2>2, OneReceived
  <2>3. CASE n \in Clients /\ handle_answer(n)
    BY <2>3, OneHandled
  <2>4. CASE n = Server /\ handle_request
    BY <2>4, OneAnswered
  <2>5. CASE RunReturns(n) \/ ThreadEnds(n)
    BY <2>5, OneAddedNothing DEF RunReturns, ThreadEnds, history
  <2> QED BY <1>1, <2>1, <2>2, <2>3, <2>4, <2>5 DEF ThreadStep
<1>2. ASSUME NEW n \in Nodes, OwnerStep(n) \/ stopTimeService(n) \/ ProcessEnds(n)
      PROVE  OneUnderWay'
  BY <1>2, OneAddedNothing DEF OwnerStep, stop, Joins, stopTimeService, ProcessEnds, history
<1>3. ASSUME NEW c \in Clients, TimerExpires(c) PROVE OneUnderWay'
  BY <1>3, OneSent DEF TimerExpires, Runs, Waits, WaitsOf, history
<1>4. ASSUME NEW d \in net, Lose(d) PROVE OneUnderWay'
  BY <1>4, OneAddedNothing DEF Lose
<1>5. ASSUME NEW d \in net, Double(d) PROVE OneUnderWay'
  <2> SUFFICES ASSUME NEW c \in Clients \ twice' PROVE OneOf(c)'
    BY DEF OneUnderWay
  <2>1. d \in Datagram
    OBVIOUS
  <2>2. [d EXCEPT !.copy = 1].of = d.of
    BY <2>1 DEF Datagram
  <2>3. c # d.of /\ c \notin twice /\ OneOf(c)
    BY <1>5 DEF Double, OneUnderWay
  <2> QED BY <1>5, <2>2, <2>3, OneStable DEF Double
<1>6. CASE UNCHANGED vars
  BY <1>6, OneAddedNothing DEF vars, history
<1> QED BY <1>1, <1>2, <1>3, <1>4, <1>5, <1>6 DEF Next

\* The last answer stays the one to the last request until the next one is sent.
LEMMA MeasuresStep ==
  ASSUME TypeOK, Addressed, OneUnderWay, MeasuresOwnRequest, [Next]_vars
  PROVE  MeasuresOwnRequest'
<1> USE DEF TypeOK
<1> SUFFICES ASSUME NEW c \in Clients \ twice', NEW d \in measured'[c]
             PROVE  d.of = c /\ (c \notin awaiting' => d.n = req'[c])
  BY DEF MeasuresOwnRequest
<1>1. /\ c \in Clients /\ c \notin twice /\ c \in Nodes
      /\ \A e \in measured[c] : e.of = c /\ (c \notin awaiting => e.n = req[c])
  <2>1. twice \subseteq twice'
    BY DEF Next, ThreadStep, ThreadBegins, Received, handle_answer, handle_request, RunReturns,
       ThreadEnds, OwnerStep, stop, Joins, stopTimeService, ProcessEnds, TimerExpires, Lose,
       Double, history, vars
  <2> QED BY <2>1 DEF MeasuresOwnRequest, Nodes
<1>2. ASSUME NEW e \in Clients, handle_answer(e)
      PROVE  d.of = c /\ (c \notin awaiting' => d.n = req'[c])
  <2>1. /\ measured' = [measured EXCEPT ![e] = held[e]] /\ awaiting' = awaiting \ {e}
        /\ req' = req
    BY <1>2 DEF handle_answer
  <2>2. CASE e = c
    <3>1. d \in held[c] /\ c # Server
      BY <1>1, <2>1, <2>2, TimeAssumption
    <3>2. d.of = c
      BY <1>1, <3>1 DEF Addressed
    <3>3. Current(d)
      BY <1>1, <3>1, <3>2 DEF OneUnderWay, OneOf, Of
    <3> QED BY <2>1, <3>2, <3>3 DEF Current
  <2>3. CASE e # c
    BY <1>1, <2>1, <2>3
  <2> QED BY <2>2, <2>3
<1>3. ASSUME NEW e \in Clients, send_request(e), measured' = measured
      PROVE  d.of = c /\ (c \notin awaiting' => d.n = req'[c])
  BY <1>1, <1>3 DEF send_request
<1>4. ASSUME measured' = measured, awaiting' = awaiting, req' = req
      PROVE  d.of = c /\ (c \notin awaiting' => d.n = req'[c])
  BY <1>1, <1>4
<1>5. ASSUME NEW n \in Nodes, ThreadStep(n)
      PROVE  d.of = c /\ (c \notin awaiting' => d.n = req'[c])
  <2>1. CASE ThreadBegins(n)
    BY <1>3, <1>4, <2>1 DEF ThreadBegins, history
  <2>2. CASE n \in Clients /\ handle_answer(n)
    BY <1>2, <2>2
  <2>3. CASE Received(n) \/ handle_request \/ RunReturns(n) \/ ThreadEnds(n)
    BY <1>4, <2>3 DEF Received, handle_request, RunReturns, ThreadEnds, history
  <2> QED BY <1>5, <2>1, <2>2, <2>3 DEF ThreadStep
<1>6. ASSUME NEW n \in Nodes, OwnerStep(n) \/ stopTimeService(n) \/ ProcessEnds(n)
      PROVE  d.of = c /\ (c \notin awaiting' => d.n = req'[c])
  BY <1>4, <1>6 DEF OwnerStep, stop, Joins, stopTimeService, ProcessEnds, history
<1>7. ASSUME NEW e \in Clients, TimerExpires(e)
      PROVE  d.of = c /\ (c \notin awaiting' => d.n = req'[c])
  BY <1>3, <1>7 DEF TimerExpires, history
<1>8. ASSUME NEW e \in net, Lose(e) \/ Double(e)
      PROVE  d.of = c /\ (c \notin awaiting' => d.n = req'[c])
  BY <1>4, <1>8 DEF Lose, Double
<1>9. CASE UNCHANGED vars
  BY <1>4, <1>9 DEF vars, history
<1> QED BY <1>5, <1>6, <1>7, <1>8, <1>9 DEF Next

-----------------------------------------------------------------------------
(* The theorems.                                                           *)

LEMMA IInvHolds == Spec => []IInv
<1>1. Init => IInv
  BY TypeInit DEF Init, IInv, Waits, WaitsOf, Answers, Addressed, OneUnderWay, OneOf, Of,
     MeasuresOwnRequest, Nodes
<1>2. IInv /\ [Next]_vars => IInv'
  <2>1. IInv /\ [Next]_vars => TypeOK' /\ Waits'
    BY TypeStep, WaitsStep DEF IInv
  <2>2. IInv /\ [Next]_vars => Answers'
    BY AddressedStep, OneStep, MeasuresStep DEF IInv, Answers
  <2> QED BY <2>1, <2>2 DEF IInv
<1> QED BY <1>1, <1>2, PTL DEF Spec

\* A client in its event loop waits for an answer or for its timer, and for one
\* of them only: the measurements never end by themselves, whatever is lost,
\* doubled and reordered.
THEOREM TimeWaitsForOne == Spec => []WaitsForOne
<1>1. IInv => WaitsForOne
  BY DEF IInv, Waits, WaitsOf, WaitsForOne
<1> QED BY <1>1, IInvHolds, PTL

\* A clock offset is measured with the answer to the client's own last request,
\* unless the network doubles a datagram.
THEOREM TimeMeasuresOwnRequest == Spec => []MeasuresOwnRequest
<1>1. IInv => MeasuresOwnRequest
  BY DEF IInv, Answers
<1> QED BY <1>1, IInvHolds, PTL
===============================================================================
