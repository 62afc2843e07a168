------------------------------ MODULE TimeService ------------------------------
(***************************************************************************)
(* The time service of a stream server and the clients in its players that *)
(* measure the offset of their clock: datagrams that may be lost, doubled  *)
(* and reordered, and on each side a thread that is started and stopped by *)
(* the one that owns its CTimeServiceCtrl, over a pointer without a lock.  *)
(*                                                                         *)
(*   libmstream/CTimeService      awaiting, receiving, timer, held         *)
(*   libmstream/CTimeServiceCtrl  owner, thread, stopped                   *)
(*                                                                         *)
(* Times are left out: an answer is the request it belongs to.  The server *)
(* has got the port that its players are told, which is a constant.        *)
(***************************************************************************)
EXTENDS Naturals, FiniteSets

CONSTANTS
  Clients,   \* the media stream connections, each with a client of its own
  Server,    \* the provider's time service
  MaxReq,    \* bound: requests a client sends
  MaxFaults, \* bound: clients of which a datagram is lost, and doubled
  MaxStops   \* bound: owners that stop their service

ASSUME TimeAssumption ==
  Server \notin Clients /\ MaxReq \in Nat /\ MaxFaults \in Nat /\ MaxStops \in Nat

VARIABLES
  owner,      \* [Nodes -> Owner]: how far the owner is with stopTimeService
  thread,     \* [Nodes -> Thread]: where m_thread is; it has set m_ts while
              \* it runs and until it has ended
  stopped,    \* SUBSET Nodes: the io_context was stopped
  receiving,  \* SUBSET Nodes: an async_receive_from is outstanding
  held,       \* [Nodes -> SUBSET Datagram]: m_buffer, to be handled
  timer,      \* SUBSET Clients: the timer for the next request is armed
  awaiting,   \* SUBSET Clients: m_awaiting_response
  net,        \* SUBSET Datagram: under way, or in the socket's buffer
  req,        \* [Clients -> Nat]: requests sent (history)
  measured,   \* [Clients -> SUBSET Datagram]: the last answer (history)
  twice,      \* SUBSET Clients: a datagram of theirs was doubled (history)
  missed      \* SUBSET Clients: a datagram of theirs was lost (history)

ctrlVars == <<owner, thread, stopped>>
history == <<measured, twice, missed>>
vars == <<ctrlVars, receiving, held, timer, awaiting, net, req, history>>

Nodes == Clients \cup {Server}

\* Not stopped, m_ts found, io_context stopped, in the destructor of the base
\* class after a first attempt that found no m_ts, gone.
Owner == {"up", "found", "joins", "again", "gone"}

\* Created, in run(), back from it with m_ts still set, ended.
Thread == {"created", "runs", "returned", "ended"}

\* The request n of a client, or the answer to it, and copies of either.
Datagram == [to : Nodes, of : Clients, n : 1..MaxReq, copy : {0, 1}]

TypeOK ==
  /\ owner \in [Nodes -> Owner]
  /\ thread \in [Nodes -> Thread]
  /\ stopped \subseteq Nodes
  /\ receiving \subseteq Nodes
  /\ held \in [Nodes -> SUBSET Datagram]
  /\ timer \subseteq Clients
  /\ awaiting \subseteq Clients
  /\ net \subseteq Datagram
  /\ req \in [Clients -> 0..MaxReq]
  /\ measured \in [Clients -> SUBSET Datagram]
  /\ twice \subseteq Clients
  /\ missed \subseteq Clients

Init ==
  /\ owner = [n \in Nodes |-> "up"]
  /\ thread = [n \in Nodes |-> "created"]
  /\ stopped = {}
  /\ receiving = {}
  /\ held = [n \in Nodes |-> {}]
  /\ timer = {}
  /\ awaiting = {}
  /\ net = {}
  /\ req = [c \in Clients |-> 0]
  /\ measured = [c \in Clients |-> {}]
  /\ twice = {}
  /\ missed = {}

-----------------------------------------------------------------------------
(* The threads' event loops.                                               *)

Runs(n) == thread[n] = "runs" /\ n \notin stopped

\* async_receive_from: the socket waits for the next datagram.
start_receive(n) == receiving' = receiving \cup {n}

\* A request goes out, and its answer is waited for without a time limit.
send_request(c) ==
  /\ req[c] < MaxReq
  /\ req' = [req EXCEPT ![c] = @ + 1]
  /\ net' = net \cup {[to |-> Server, of |-> c, n |-> req[c] + 1, copy |-> 0]}
  /\ awaiting' = awaiting \cup {c}
  /\ start_receive(c)

\* The thread makes its CTimeService, which opens its socket; a socket that
\* cannot be opened leaves run() without work.
ThreadBegins(n) ==
  /\ thread[n] = "created"
  /\ \/ /\ thread' = [thread EXCEPT ![n] = "runs"]
        /\ \/ n \in Clients /\ send_request(n)
           \/ n = Server /\ start_receive(n) /\ UNCHANGED <<net, req, awaiting>>
     \/ /\ thread' = [thread EXCEPT ![n] = "returned"]
        /\ UNCHANGED <<receiving, net, req, awaiting>>
  /\ UNCHANGED <<owner, stopped, held, timer, history>>

TimerExpires(c) ==
  /\ Runs(c)
  /\ c \in timer
  /\ send_request(c)
  /\ timer' = timer \ {c}
  /\ UNCHANGED <<ctrlVars, held, history>>

\* A datagram has been received into m_buffer and m_remote_endpoint.
Received(n) ==
  /\ Runs(n)
  /\ n \in receiving
  /\ \E d \in net :
       /\ d.to = n
       /\ net' = net \ {d}
       /\ held' = [held EXCEPT ![n] = {d}]
  /\ receiving' = receiving \ {n}
  /\ UNCHANGED <<ctrlVars, timer, awaiting, req, history>>

\* A mutant: the next receive is started before the answer is sent, and finds a
\* datagram there already.
handle_request_ReceivesFirst ==
  /\ Runs(Server)
  /\ \E e \in held[Server] :
       \/ /\ \E d \in net :
               /\ d.to = Server
               /\ net' = (net \ {d}) \cup {[e EXCEPT !.to = d.of]}
               /\ held' = [held EXCEPT ![Server] = {d}]
          /\ UNCHANGED receiving
       \/ /\ net' = net \cup {[e EXCEPT !.to = e.of]}
          /\ held' = [held EXCEPT ![Server] = {}]
          /\ start_receive(Server)
  /\ UNCHANGED <<ctrlVars, timer, awaiting, req, history>>

\* A mutant: the timer is started in either role.
handle_request_Timer ==
  /\ Runs(Server)
  /\ \E d \in held[Server] : net' = net \cup {[d EXCEPT !.to = d.of]}
  /\ held' = [held EXCEPT ![Server] = {}]
  /\ start_receive(Server)
  /\ timer' = timer \cup {Server}
  /\ UNCHANGED <<ctrlVars, awaiting, req, history>>

\* handle_receive of the server: the answer goes where the request came from.
handle_request ==
  /\ Runs(Server)
  /\ \E d \in held[Server] : net' = net \cup {[d EXCEPT !.to = d.of]}
  /\ held' = [held EXCEPT ![Server] = {}]
  /\ start_receive(Server)
  /\ UNCHANGED <<ctrlVars, timer, awaiting, req, history>>

\* A mutant: the next receive is started with the timer.
handle_answer_Receives(c) ==
  /\ Runs(c)
  /\ held[c] # {}
  /\ measured' = [measured EXCEPT ![c] = held[c]]
  /\ held' = [held EXCEPT ![c] = {}]
  /\ awaiting' = awaiting \ {c}
  /\ timer' = timer \cup {c}
  /\ start_receive(c)
  /\ UNCHANGED <<ctrlVars, net, req, twice, missed>>

\* handle_receive of a client: the offset is passed on, whatever it answers.
handle_answer(c) ==
  /\ Runs(c)
  /\ held[c] # {}
  /\ measured' = [measured EXCEPT ![c] = held[c]]
  /\ held' = [held EXCEPT ![c] = {}]
  /\ awaiting' = awaiting \ {c}
  /\ timer' = timer \cup {c}
  /\ UNCHANGED <<ctrlVars, receiving, net, req, twice, missed>>

\* run() returns when it is stopped, or for want of work.
RunReturns(n) ==
  /\ thread[n] = "runs"
  /\ n \in stopped \/ (n \notin receiving \cup timer /\ held[n] = {})
  /\ thread' = [thread EXCEPT ![n] = "returned"]
  /\ UNCHANGED <<owner, stopped, receiving, held, timer, awaiting, net, req, history>>

\* The io_context and, after it, m_ts are deleted.
ThreadEnds(n) ==
  /\ thread[n] = "returned"
  /\ thread' = [thread EXCEPT ![n] = "ended"]
  /\ receiving' = receiving \ {n}
  /\ timer' = timer \ {n}
  /\ held' = [held EXCEPT ![n] = {}]
  /\ UNCHANGED <<owner, stopped, awaiting, net, req, history>>

-----------------------------------------------------------------------------
(* The owner stops the service in its destructor, and once more in that of  *)
(* the base class.                                                          *)

Steps(n, from, to) == owner[n] = from /\ owner' = [owner EXCEPT ![n] = to]

\* Without m_ts, because the thread has not made it yet or has ended, nothing
\* is stopped.
stopTimeService(n) ==
  /\ Cardinality({n} \cup {m \in Nodes : owner[m] # "up"}) <= MaxStops
  /\ \/ /\ thread[n] \in {"runs", "returned"}
        /\ Steps(n, "up", "found") \/ Steps(n, "again", "found")
     \/ /\ thread[n] \in {"created", "ended"}
        /\ Steps(n, "up", "again") \/ Steps(n, "again", "gone")
  /\ UNCHANGED <<thread, stopped, receiving, held, timer, awaiting, net, req, history>>

\* A mutant: m_shutting_down is set, which nobody looks at.
stop_OnlyMarks(n) ==
  /\ Steps(n, "found", "joins")
  /\ UNCHANGED <<thread, stopped, receiving, held, timer, awaiting, net, req, history>>

\* CTimeService::stop, its first half: the io_context.
stop(n) ==
  /\ Steps(n, "found", "joins")
  /\ stopped' = stopped \cup {n}
  /\ UNCHANGED <<thread, receiving, held, timer, awaiting, net, req, history>>

\* Its second half, for which m_ts may already be deleted, and the join.
Joins(n) ==
  /\ thread[n] = "ended"
  /\ Steps(n, "joins", "gone")
  /\ UNCHANGED <<thread, stopped, receiving, held, timer, awaiting, net, req, history>>

\* What is used after it was deleted may end the process: m_ts by its owner, the
\* io_context by m_ts, the owner by a thread that began after the last attempt.
UsesDeleted(n) ==
  \/ owner[n] \in {"found", "joins"} /\ thread[n] = "ended"
  \/ thread[n] = "returned"
  \/ owner[n] = "gone" /\ thread[n] = "runs"

ProcessEnds(n) ==
  /\ UsesDeleted(n)
  /\ owner' = [owner EXCEPT ![n] = "gone"]
  /\ thread' = [thread EXCEPT ![n] = "ended"]
  /\ receiving' = receiving \ {n}
  /\ timer' = timer \ {n}
  /\ held' = [held EXCEPT ![n] = {}]
  /\ UNCHANGED <<stopped, awaiting, net, req, history>>

-----------------------------------------------------------------------------
(* The network.                                                            *)

Lose(d) ==
  /\ Cardinality(missed \cup {d.of}) <= MaxFaults
  /\ net' = net \ {d}
  /\ missed' = missed \cup {d.of}
  /\ UNCHANGED <<ctrlVars, receiving, held, timer, awaiting, req, measured, twice>>

\* Bound: once for a client.
Double(d) ==
  /\ d.of \notin twice
  /\ Cardinality(twice) < MaxFaults
  /\ net' = net \cup {[d EXCEPT !.copy = 1]}
  /\ twice' = twice \cup {d.of}
  /\ UNCHANGED <<ctrlVars, receiving, held, timer, awaiting, req, measured, missed>>

ThreadStep(n) ==
  \/ ThreadBegins(n)
  \/ Received(n)
  \/ n \in Clients /\ handle_answer(n)
  \/ n = Server /\ handle_request
  \/ RunReturns(n) \/ ThreadEnds(n)

OwnerStep(n) == stop(n) \/ Joins(n)

Next ==
  \/ \E n \in Nodes : ThreadStep(n) \/ OwnerStep(n) \/ stopTimeService(n) \/ ProcessEnds(n)
  \/ \E c \in Clients : TimerExpires(c)
  \/ \E d \in net : Lose(d) \/ Double(d)

Spec == Init /\ [][Next]_vars

-----------------------------------------------------------------------------
(* Properties.                                                             *)

\* A client in its event loop waits for exactly one thing, an answer or its
\* timer: with none run() would return and the measurements silently end, with
\* both two would be under way, the cases CTimeService.cpp marks as errors.
WaitsForOne ==
  \A c \in Clients :
    thread[c] = "runs" =>
      /\ c \in awaiting <=> c \notin timer
      /\ c \in awaiting <=> c \in receiving \/ held[c] # {}
      /\ c \in receiving => held[c] = {}

\* An offset is measured with the answer to the client's own last request, as
\* long as none of its datagrams is doubled: nothing is compared, so after that
\* each request would be taken for answered by the answer to an earlier one.
MeasuresOwnRequest ==
  \A c \in Clients \ twice :
    \A d \in measured[c] : d.of = c /\ (c \notin awaiting => d.n = req[c])

\* Fairness: the threads run, and so does an owner that has found m_ts.
FairSpec ==
  Spec /\ \A n \in Nodes : WF_vars(ThreadStep(n)) /\ WF_vars(OwnerStep(n))

\* What a client waits for comes, unless a datagram of it was lost or one of the
\* two threads has left its loop.
AnswerComes ==
  \A c \in Clients :
    c \in awaiting ~>
      \/ c \notin awaiting \/ c \in missed
      \/ \E n \in {c, Server} : thread[n] \in {"returned", "ended"} \/ owner[n] # "up"

\* The destructor returns, wherever the thread is.
StopReturns == \A n \in Nodes : owner[n] = "found" ~> owner[n] = "gone"
===============================================================================
