-------------------------- MODULE MediaSessionProofs --------------------------
(***************************************************************************)
(* Proofs about MediaSession for every number of clients, revisions and    *)
(* edits, and every kind of list and edit that SessionAssumption admits.   *)
(*                                                                         *)
(* The inductive invariant says of every queued message what makes it      *)
(* harmless: an edit makes a list of its revision, a diff sent to a client *)
(* leads from the revision it starts at to the one it ends at.  Revisions  *)
(* are only ever added, so this stays true of a message however long it is *)
(* under way.  The rest is about one client at a time.                     *)
(***************************************************************************)
EXTENDS MediaSession, SessionEdits, SequenceTheorems, WellFoundedInduction, FiniteSetTheorems, TLAPS

\* What is queued for the daemon, and for a client.
EditOK(from, diff) ==
  /\ from \in 0 .. Latest
  /\ LET new == Patch(Rev(from), diff)
     IN new.how = "ok" =>
          /\ new.list \in Lists(kind)
          /\ kind = "playlist" /\ ~AddIds(diff, new.list).crash
               => Leads(Rev(from), AddIds(diff, new.list).diff, new.list)

RequestOK(m) ==
  \/ m = Join
  \/ \E n \in Nat : m = Get(n)
  \/ \E n \in Nat : \E d : m = EditCmd(n, d) /\ EditOK(n, d)

MessageOK(m) ==
  /\ m.from \in Nat /\ m.to \in 0 .. Latest /\ m.full \in BOOLEAN
  /\ m.full => m.list = Rev(m.to)
  /\ ~m.full => /\ m.from <= Latest
                /\ m.from > 0 => Leads(Rev(m.from), m.diff, Rev(m.to))

Requests(s) == \E S : s \in Seq(S) /\ \A m \in S : RequestOK(m)
Messages(s) == \E S : s \in Seq(S) /\ \A m \in S : MessageOK(m)

Asks(s) == \E i \in 1 .. Len(s) : s[i].type = "get"

\* A client that is not up to date has asked, or is told.
KeptInformed(c) ==
  /\ conn[c] = "off" => toSrv[c] = <<>>
  /\ conn[c] # "joined" => toClnt[c] = <<>>
  /\ conn[c] = "on" => toSrv[c] # <<>> /\ Head(toSrv[c]) = Join /\ Asks(toSrv[c])
  /\ conn[c] = "joined" => IF toClnt[c] = <<>> THEN Asks(toSrv[c]) \/ rev[c] = Latest
                           ELSE toClnt[c][Len(toClnt[c])].to = Latest

CopyOK(c) ==
  /\ rev[c] \in 0 .. Latest /\ astray[c] \in BOOLEAN
  /\ drag[c] = NoDrag \/ \E l \in Lists(kind) : drag[c] \in Drags(kind, l)
  /\ astray[c] \/ list[c] = Rev(rev[c])

ClientOK(c) ==
  /\ conn[c] \in {"off", "on", "joined"}
  /\ Requests(toSrv[c]) /\ Messages(toClnt[c])
  /\ CopyOK(c) /\ KeptInformed(c)

Daemon ==
  /\ kind \in Kinds /\ up \in {"up", "down", "stuck"}
  /\ revs \in Seq(Lists(kind))
  /\ up # "up" => \A c \in Clients : conn[c] = "off"
  /\ DOMAIN conn = Clients /\ DOMAIN toSrv = Clients /\ DOMAIN toClnt = Clients
  /\ DOMAIN rev = Clients /\ DOMAIN list = Clients /\ DOMAIN drag = Clients
  /\ DOMAIN astray = Clients

IInv == Daemon /\ \A c \in Clients : ClientOK(c)

-----------------------------------------------------------------------------
(* Queues.                                                                 *)

LEMMA AppendWhat ==
  ASSUME NEW S, NEW s \in Seq(S), NEW m
  PROVE  /\ Append(s, m) \in Seq(S \cup {m})
         /\ Len(Append(s, m)) = Len(s) + 1 /\ Append(s, m) # <<>>
         /\ \A i \in 1 .. Len(s) : Append(s, m)[i] = s[i]
         /\ Append(s, m)[Len(s) + 1] = m
         /\ s # <<>> => Head(Append(s, m)) = Head(s)
<1>1. s \in Seq(S \cup {m}) /\ m \in S \cup {m} /\ Len(s) \in Nat
  OBVIOUS
<1>2. Append(s, m) \in Seq(S \cup {m})
  BY <1>1
<1>3. Len(Append(s, m)) = Len(s) + 1 /\ Append(s, m)[Len(s) + 1] = m
  BY <1>1
<1>4. \A i \in 1 .. Len(s) : Append(s, m)[i] = s[i]
  BY <1>1
<1>5. Append(s, m) # <<>>
  BY <1>1, <1>3
<1>6. s # <<>> => Head(Append(s, m)) = Head(s)
  <2> HAVE s # <<>>
  <2>1. Len(s) > 0
    BY <1>1
  <2>2. Head(s) = s[1] /\ Head(Append(s, m)) = Append(s, m)[1]
    BY <1>2, <1>5
  <2> QED
    BY <2>1, <2>2, <1>4
<1> QED
  BY <1>2, <1>3, <1>4, <1>5, <1>6

LEMMA TailWhat ==
  ASSUME NEW S, NEW s \in Seq(S), s # <<>>
  PROVE  /\ Tail(s) \in Seq(S) /\ Head(s) \in S /\ Head(s) = s[1]
         /\ Len(s) \in Nat /\ Len(s) > 0 /\ Len(Tail(s)) = Len(s) - 1
         /\ \A i \in 1 .. Len(Tail(s)) : Tail(s)[i] = s[i + 1]
  OBVIOUS

LEMMA RequestsFrom ==
  ASSUME NEW S, NEW s \in Seq(S), \A m \in S : RequestOK(m)
  PROVE  Requests(s)
  BY Zenon DEF Requests

LEMMA MessagesFrom ==
  ASSUME NEW S, NEW s \in Seq(S), \A m \in S : MessageOK(m)
  PROVE  Messages(s)
  BY Zenon DEF Messages

LEMMA EmptyQueues == Requests(<<>>) /\ Messages(<<>>)
<1> DEFINE None == {}
<1>1. <<>> \in Seq(None)
  OBVIOUS
<1>2. \A m \in None : RequestOK(m)
  OBVIOUS
<1>3. \A m \in None : MessageOK(m)
  OBVIOUS
<1> HIDE DEF None
<1>4. Requests(<<>>)
  BY <1>1, <1>2, RequestsFrom
<1>5. Messages(<<>>)
  BY <1>1, <1>3, MessagesFrom
<1> QED
  BY <1>4, <1>5

LEMMA RequestQueued ==
  ASSUME NEW s, NEW m, Requests(s), RequestOK(m)
  PROVE  /\ Requests(Append(s, m)) /\ Append(s, m) # <<>>
         /\ Asks(s) \/ m.type = "get" => Asks(Append(s, m))
         /\ s # <<>> => Head(Append(s, m)) = Head(s)
<1> PICK S : s \in Seq(S) /\ \A x \in S : RequestOK(x)
  BY DEF Requests
<1>1. Requests(Append(s, m))
  <2>1. Append(s, m) \in Seq(S \cup {m}) /\ \A x \in S \cup {m} : RequestOK(x)
    BY AppendWhat
  <2> QED
    BY <2>1, RequestsFrom
<1>2. Asks(s) \/ m.type = "get" => Asks(Append(s, m))
  <2>1. Len(s) \in Nat
    OBVIOUS
  <2> QED
    BY <2>1, AppendWhat DEF Asks
<1> QED
  BY <1>1, <1>2, AppendWhat

LEMMA MessageQueued ==
  ASSUME NEW s, NEW m, Messages(s), MessageOK(m)
  PROVE  /\ Messages(Append(s, m)) /\ Append(s, m) # <<>>
         /\ Append(s, m)[Len(Append(s, m))] = m
<1>1. PICK S : s \in Seq(S) /\ \A x \in S : MessageOK(x)
  BY DEF Messages
<1>2. /\ Append(s, m) \in Seq(S \cup {m}) /\ Append(s, m) # <<>>
      /\ Len(Append(s, m)) = Len(s) + 1 /\ Append(s, m)[Len(s) + 1] = m
  <2>1. s \in Seq(S)
    BY <1>1
  <2>2. Append(s, m) \in Seq(S \cup {m}) /\ Append(s, m) # <<>>
    BY <2>1, AppendWhat
  <2>3. Len(Append(s, m)) = Len(s) + 1 /\ Append(s, m)[Len(s) + 1] = m
    BY <2>1, AppendWhat
  <2> QED
    BY <2>2, <2>3
<1>3. Messages(Append(s, m))
  BY <1>1, <1>2, MessagesFrom
<1> QED
  BY <1>2, <1>3

\* Taking the first request keeps the others; if it was none that asks, so does the rest.
LEMMA RequestTaken ==
  ASSUME NEW s, Requests(s), s # <<>>
  PROVE  /\ Requests(Tail(s)) /\ RequestOK(Head(s))
         /\ Asks(s) /\ Head(s).type # "get" => Asks(Tail(s))
<1> PICK S : s \in Seq(S) /\ \A x \in S : RequestOK(x)
  BY DEF Requests
<1>1. Requests(Tail(s)) /\ RequestOK(Head(s))
  <2>1. Tail(s) \in Seq(S) /\ Head(s) \in S
    BY TailWhat
  <2> QED
    BY <2>1, RequestsFrom
<1>2. ASSUME Asks(s), Head(s).type # "get" PROVE Asks(Tail(s))
  <2> PICK i \in 1 .. Len(s) : s[i].type = "get"
    BY <1>2 DEF Asks
  <2>1. i - 1 \in 1 .. Len(Tail(s)) /\ Tail(s)[i - 1] = s[i]
    BY TailWhat, <1>2
  <2> QED
    BY <2>1 DEF Asks
<1> QED
  BY <1>1, <1>2

LEMMA MessageTaken ==
  ASSUME NEW s, Messages(s), s # <<>>
  PROVE  /\ Messages(Tail(s)) /\ MessageOK(Head(s))
         /\ Tail(s) = <<>> => Head(s) = s[Len(s)]
         /\ Tail(s) # <<>> => Tail(s)[Len(Tail(s))] = s[Len(s)]
<1> PICK S : s \in Seq(S) /\ \A x \in S : MessageOK(x)
  BY DEF Messages
<1>1. Tail(s) \in Seq(S) /\ Head(s) \in S
  BY TailWhat
<1>2. Messages(Tail(s)) /\ MessageOK(Head(s))
  BY <1>1, MessagesFrom
<1>3. Tail(s) = <<>> => Head(s) = s[Len(s)]
  <2> HAVE Tail(s) = <<>>
  <2>1. Len(Tail(s)) = Len(s) - 1 /\ Len(s) \in Nat /\ Head(s) = s[1]
    BY TailWhat
  <2>2. Len(<<>>) = 0
    OBVIOUS
  <2>3. Len(s) = 1
    BY <2>1, <2>2
  <2> QED
    BY <2>1, <2>3
<1>4. Tail(s) # <<>> => Tail(s)[Len(Tail(s))] = s[Len(s)]
  <2> HAVE Tail(s) # <<>>
  <2>1. Len(Tail(s)) \in Nat /\ Len(Tail(s)) > 0
    BY <1>1
  <2> QED
    BY <2>1, TailWhat
<1> QED
  BY <1>2, <1>3, <1>4

-----------------------------------------------------------------------------
(* Revisions are only added.                                               *)

Grows == kind' = kind /\ (revs' = revs \/ \E l \in Lists(kind) : revs' = Append(revs, l))

LEMMA RevIsList ==
  ASSUME Daemon, NEW n \in 0 .. Latest
  PROVE  Rev(n) \in Lists(kind)
<1>1. <<>> \in Lists(kind)
  BY SessionAssumption DEF Daemon, StayLists
<1>2. n # 0 => revs[n] \in Lists(kind)
  BY DEF Daemon, Latest
<1> QED
  BY <1>1, <1>2 DEF Rev

LEMMA OldRevsStay ==
  ASSUME Daemon, Grows
  PROVE  /\ Latest \in Nat /\ Latest' \in Nat /\ Latest <= Latest'
         /\ \A n \in 0 .. Latest : Rev(n)' = Rev(n)
         /\ revs' \in Seq(Lists(kind))
<1>1. CASE revs' = revs
  BY <1>1 DEF Latest, Rev, Daemon
<1>2. ASSUME NEW l \in Lists(kind), revs' = Append(revs, l)
      PROVE  /\ Latest' = Latest + 1 /\ \A n \in 0 .. Latest : Rev(n)' = Rev(n)
             /\ revs' \in Seq(Lists(kind))
  BY <1>2 DEF Latest, Rev, Daemon
<1>3. Latest \in Nat
  BY DEF Latest, Daemon
<1> QED
  BY <1>1, <1>2, <1>3 DEF Grows

\* What was harmless when it was sent still is.
LEMMA RequestsStayOK ==
  ASSUME Daemon, Grows, NEW s, Requests(s)
  PROVE  Requests(s)'
<1>1. PICK S : s \in Seq(S) /\ \A m \in S : RequestOK(m)
  BY DEF Requests
<1>2. ASSUME NEW n \in Nat, NEW d, EditOK(n, d) PROVE EditOK(n, d)'
  <2>1. n \in 0 .. Latest /\ n \in (0 .. Latest)' /\ Rev(n)' = Rev(n) /\ kind' = kind
    BY <1>2, OldRevsStay DEF EditOK, Grows
  <2> QED
    BY <1>2, <2>1 DEF EditOK, Leads
<1>3. ASSUME NEW m, RequestOK(m) PROVE RequestOK(m)'
  BY <1>2, <1>3 DEF RequestOK, Join, Get, EditCmd
<1>4. \A m \in S : RequestOK(m)'
  BY <1>1, <1>3
<1> QED
  BY Zenon, <1>1, <1>4 DEF Requests

LEMMA MessagesStayOK ==
  ASSUME Daemon, Grows, NEW s, Messages(s)
  PROVE  Messages(s)'
<1>1. PICK S : s \in Seq(S) /\ \A m \in S : MessageOK(m)
  BY DEF Messages
<1>2. ASSUME NEW m, MessageOK(m) PROVE MessageOK(m)'
  <2>1. m.from \in Nat /\ m.to \in 0 .. Latest /\ m.to \in (0 .. Latest)'
        /\ Rev(m.to)' = Rev(m.to)
    BY <1>2, OldRevsStay DEF MessageOK
  <2>2. m.from <= Latest => m.from <= Latest' /\ Rev(m.from)' = Rev(m.from)
    BY <2>1, OldRevsStay
  <2> QED
    BY <1>2, <2>1, <2>2 DEF MessageOK, Leads
<1>3. \A m \in S : MessageOK(m)'
  BY <1>1, <1>2
<1> QED
  BY Zenon, <1>1, <1>3 DEF Messages

Copy(c) == <<rev[c], list[c], drag[c], astray[c]>>

LEMMA CopyStaysOK ==
  ASSUME Daemon, Grows, NEW c, CopyOK(c), Copy(c)' = Copy(c)
  PROVE  CopyOK(c)'
<1>1. /\ rev[c]' = rev[c] /\ list[c]' = list[c] /\ drag[c]' = drag[c]
      /\ astray[c]' = astray[c] /\ kind' = kind
  BY DEF Copy, Grows
<1>2. rev[c] \in (0 .. Latest)' /\ Rev(rev[c])' = Rev(rev[c])
  BY <1>1, OldRevsStay DEF CopyOK, Rev
<1> QED
  BY <1>1, <1>2 DEF CopyOK, Rev

-----------------------------------------------------------------------------
(* What a step can do to a client: nothing, close its connection, or tell  *)
(* it of a new revision.                                                   *)

Queues(c) == <<conn[c], toSrv[c], toClnt[c]>>

LEMMA Untouched ==
  ASSUME Daemon, NEW c, ClientOK(c), kind' = kind, revs' = revs,
         Copy(c)' = Copy(c), Queues(c)' = Queues(c)
  PROVE  ClientOK(c)'
<1>1. Grows
  BY DEF Grows
<1>2. CopyOK(c)'
  BY <1>1, CopyStaysOK DEF ClientOK
<1>3. conn[c]' = conn[c] /\ toSrv[c]' = toSrv[c] /\ toClnt[c]' = toClnt[c] /\ rev[c]' = rev[c]
  BY DEF Queues, Copy
<1>4. Requests(toSrv[c])'
  <2>1. Requests(toSrv[c]) /\ (\E S : toSrv[c] \in Seq(S) /\ \A m \in S : RequestOK(m)')
    BY <1>1, RequestsStayOK DEF ClientOK, Requests
  <2> QED
    BY <2>1, <1>3 DEF Requests
<1>5. Messages(toClnt[c])'
  <2>1. \E S : toClnt[c] \in Seq(S) /\ \A m \in S : MessageOK(m)'
    BY <1>1, MessagesStayOK DEF ClientOK, Messages
  <2> QED
    BY <2>1, <1>3 DEF Messages
<1>6. KeptInformed(c)'
  BY <1>3 DEF ClientOK, KeptInformed, Asks, Latest
<1> QED
  BY <1>2, <1>3, <1>4, <1>5, <1>6 DEF ClientOK

LEMMA RequestsThen ==
  ASSUME Daemon, Grows, NEW c, Requests(toSrv[c]')
  PROVE  Requests(toSrv[c])'
<1>1. \E S : toSrv[c]' \in Seq(S) /\ \A m \in S : RequestOK(m)'
  BY RequestsStayOK DEF Requests
<1> QED
  BY <1>1 DEF Requests

LEMMA MessagesThen ==
  ASSUME Daemon, Grows, NEW c, Messages(toClnt[c]')
  PROVE  Messages(toClnt[c])'
<1>1. \E S : toClnt[c]' \in Seq(S) /\ \A m \in S : MessageOK(m)'
  BY MessagesStayOK DEF Messages
<1> QED
  BY <1>1 DEF Messages

\* The connection of c ends, with what was queued.
Cut(c) == conn[c]' = "off" /\ toSrv[c]' = <<>> /\ toClnt[c]' = <<>>

LEMMA CutOff ==
  ASSUME Daemon, Grows, NEW c, CopyOK(c)', Cut(c)
  PROVE  ClientOK(c)'
<1>1. Requests(<<>>)' /\ Messages(<<>>)'
  <2>1. Requests(<<>>) /\ Messages(<<>>)
    BY EmptyQueues
  <2> QED
    BY <2>1, RequestsStayOK, MessagesStayOK
<1>2. Requests(toSrv[c])' /\ Messages(toClnt[c])'
  BY <1>1 DEF Cut, Requests, Messages
<1>3. KeptInformed(c)'
  BY DEF Cut, KeptInformed
<1> QED
  BY <1>2, <1>3 DEF Cut, ClientOK

\* The daemon adds a revision, of which every joined client is told; it may have
\* taken an edit from the queue of c.
LEMMA Told ==
  ASSUME Daemon, Grows, NEW c \in Clients, ClientOK(c), Copy(c)' = Copy(c), conn' = conn,
         NEW m, MessageOK(m)', m.to = Latest', toAll(m),
         \/ toSrv[c]' = toSrv[c]
         \/ /\ toSrv[c] # <<>> /\ Head(toSrv[c]).type = "edit"
            /\ toSrv[c]' = Tail(toSrv[c])
  PROVE  ClientOK(c)'
<1>1. CopyOK(c)'
  BY CopyStaysOK DEF ClientOK
<1>2. Requests(toSrv[c]') /\ (Asks(toSrv[c]) => Asks(toSrv[c]'))
  BY RequestTaken DEF ClientOK
<1>3. Requests(toSrv[c])'
  <2>1. \E S : toSrv[c]' \in Seq(S) /\ \A x \in S : RequestOK(x)'
    BY <1>2, RequestsStayOK DEF Requests
  <2> QED
    BY <2>1 DEF Requests
<1>4. CASE c \in Joined
  <2>1. toClnt[c]' = Append(toClnt[c], m) /\ conn[c] = "joined" /\ conn[c]' = "joined"
    BY <1>4 DEF toAll, Joined
  <2>2. PICK S : toClnt[c] \in Seq(S) /\ \A x \in S : MessageOK(x)'
    <3>1. Messages(toClnt[c])
      BY DEF ClientOK
    <3> QED
      BY <3>1, MessagesStayOK DEF Messages
  <2>3. toClnt[c]' \in Seq(S \cup {m}) /\ toClnt[c]' # <<>>
    BY <2>1, <2>2, AppendWhat
  <2>4. Len(toClnt[c]') = Len(toClnt[c]) + 1 /\ toClnt[c]'[Len(toClnt[c]) + 1] = m
    BY <2>1, <2>2, AppendWhat
  <2>5. \A x \in S \cup {m} : MessageOK(x)'
    BY <2>2
  <2>6. Messages(toClnt[c])'
    BY Zenon, <2>3, <2>5 DEF Messages
  <2>7. KeptInformed(c)'
    BY <2>1, <2>3, <2>4 DEF KeptInformed
  <2> QED
    BY <1>1, <1>3, <2>1, <2>6, <2>7 DEF ClientOK
<1>5. CASE c \notin Joined
  <2>1. toClnt[c]' = toClnt[c] /\ conn[c] # "joined" /\ conn[c]' = conn[c]
    BY <1>5 DEF toAll, Joined
  <2>2. toClnt[c]' = <<>>
    BY <2>1 DEF ClientOK, KeptInformed
  <2>3. Messages(toClnt[c])'
    <3>1. Messages(<<>>)'
      BY EmptyQueues, MessagesStayOK
    <3> QED
      BY <2>2, <3>1 DEF Messages
  <2>4. KeptInformed(c)'
    <3>1. conn[c] = "off" => toSrv[c] = <<>>
      BY DEF ClientOK, KeptInformed
    <3>2. conn[c] = "on" => Head(toSrv[c]).type # "edit"
      BY DEF ClientOK, KeptInformed, Join
    <3>3. conn[c] = "on" => toSrv[c] # <<>> /\ Head(toSrv[c]) = Join /\ Asks(toSrv[c])
      BY DEF ClientOK, KeptInformed
    <3>4. toSrv[c]' = toSrv[c]
      BY <2>1, <3>1, <3>2 DEF ClientOK
    <3> QED
      BY <2>1, <2>2, <3>1, <3>3, <3>4 DEF KeptInformed, Asks
  <2> QED
    BY <1>1, <1>3, <2>1, <2>3, <2>4 DEF ClientOK
<1> QED
  BY <1>4, <1>5

LEMMA WhatRequest ==
  ASSUME NEW m, RequestOK(m)
  PROVE  /\ m.type = "get" => m.known \in Nat
         /\ m.type = "edit" => m = EditCmd(m.from, m.diff) /\ EditOK(m.from, m.diff)
<1>1. CASE m = Join
  BY <1>1 DEF Join
<1>2. ASSUME NEW n \in Nat, m = Get(n) PROVE m.type = "get" /\ m.known = n
  BY <1>2 DEF Get
<1>3. ASSUME NEW n \in Nat, NEW d, m = EditCmd(n, d), EditOK(n, d)
      PROVE  m.type = "edit" /\ m.from = n /\ m.diff = d
  BY <1>3 DEF EditCmd
<1> QED
  BY <1>1, <1>2, <1>3 DEF RequestOK

-----------------------------------------------------------------------------
(* The steps.                                                              *)

\* A step of one client that adds no revision.
Only(c) ==
  /\ kind' = kind /\ revs' = revs /\ up' = up
  /\ \A d \in Clients \ {c} : Copy(d)' = Copy(d) /\ Queues(d)' = Queues(d)
  /\ DOMAIN conn' = Clients /\ DOMAIN toSrv' = Clients /\ DOMAIN toClnt' = Clients
  /\ DOMAIN rev' = Clients /\ DOMAIN list' = Clients /\ DOMAIN drag' = Clients
  /\ DOMAIN astray' = Clients

LEMMA OnlyOne ==
  ASSUME IInv, NEW c \in Clients, Only(c), ClientOK(c)', up = "up" \/ conn[c]' = "off"
  PROVE  IInv'
<1>1. \A d \in Clients : ClientOK(d)'
  BY Untouched DEF IInv, Only
<1>2. Daemon'
  <2>1. up # "up" => \A d \in Clients : conn[d]' = "off"
    BY DEF IInv, Daemon, Only, Queues
  <2> QED
    BY <2>1 DEF IInv, Daemon, Only
<1> QED
  BY <1>1, <1>2 DEF IInv

LEMMA ConnectedMeansUp ==
  ASSUME IInv, NEW c \in Clients, conn[c] # "off" \/ toSrv[c] # <<>> \/ toClnt[c] # <<>>
  PROVE  up = "up" /\ conn[c] # "off"
  BY DEF IInv, Daemon, ClientOK, KeptInformed

LEMMA JoinStep ==
  ASSUME IInv, NEW c \in Clients, onJoinSession(c)
  PROVE  IInv'
<1>1. Only(c)
  BY DEF onJoinSession, Received, serverVars, clientVars, Only, Copy, Queues, IInv, Daemon
<1>2. /\ conn[c]' = "joined" /\ toSrv[c]' = Tail(toSrv[c]) /\ toClnt[c]' = toClnt[c]
      /\ Copy(c)' = Copy(c) /\ toSrv[c] # <<>> /\ Head(toSrv[c]) = Join
      /\ kind' = kind /\ revs' = revs
  BY DEF onJoinSession, Received, serverVars, clientVars, Copy, IInv, Daemon
<1>3. Daemon /\ Grows /\ ClientOK(c)
  BY <1>2 DEF IInv, Grows
<1>4. Requests(toSrv[c]') /\ (Asks(toSrv[c]) => Asks(toSrv[c]'))
  BY <1>2, <1>3, RequestTaken DEF ClientOK, Join
<1>5. Requests(toSrv[c])' /\ Messages(toClnt[c])'
  BY <1>2, <1>3, <1>4, RequestsThen, MessagesThen DEF ClientOK
<1>6. CopyOK(c)'
  BY <1>2, <1>3, CopyStaysOK DEF ClientOK
<1>7. KeptInformed(c)'
  <2>1. CASE conn[c] = "joined"
    BY <2>1, <1>2, <1>3, <1>4 DEF ClientOK, KeptInformed, Copy, Latest, Asks
  <2>2. CASE conn[c] = "on"
    <3>1. Asks(toSrv[c]') /\ toClnt[c] = <<>>
      BY <2>2, <1>3, <1>4 DEF ClientOK, KeptInformed
    <3> QED
      BY <3>1, <1>2 DEF KeptInformed, Asks
  <2> QED
    BY <2>1, <2>2, <1>2, <1>3 DEF ClientOK, KeptInformed
<1> QED
  BY <1>1, <1>2, <1>5, <1>6, <1>7, OnlyOne, ConnectedMeansUp DEF ClientOK

LEMMA GetStep ==
  ASSUME IInv, NEW c \in Clients, onGet(c)
  PROVE  IInv'
<1> DEFINE known == Head(toSrv[c]).known
           m == sendLatestRev(known)
<1>1. Only(c)
  BY DEF onGet, Received, serverVars, clientVars, Only, Copy, Queues, IInv, Daemon
<1>2. /\ conn[c]' = conn[c] /\ toSrv[c]' = Tail(toSrv[c]) /\ toClnt[c]' = Append(toClnt[c], m)
      /\ Copy(c)' = Copy(c) /\ toSrv[c] # <<>> /\ Head(toSrv[c]).type = "get"
      /\ kind' = kind /\ revs' = revs
  BY DEF onGet, Received, serverVars, clientVars, Copy, IInv, Daemon
<1>3. Daemon /\ Grows /\ ClientOK(c)
  BY <1>2 DEF IInv, Grows
<1>4. Requests(toSrv[c]') /\ RequestOK(Head(toSrv[c]))
  BY <1>2, <1>3, RequestTaken DEF ClientOK
<1>5. known \in Nat
  BY <1>2, <1>4, WhatRequest
<1>6. MessageOK(m) /\ m.to = Latest
  <2>1. Latest \in Nat /\ Rev(Latest) \in Lists(kind)
    BY <1>3, OldRevsStay, RevIsList
  <2>2. ASSUME known > 0, known <= Latest
        PROVE  Leads(Rev(known), Diff(Rev(known), Rev(Latest)), Rev(Latest))
    <3>1. Rev(known) \in Lists(kind)
      BY <2>1, <2>2, <1>3, <1>5, RevIsList
    <3>2. DiffWorks(kind)
      BY <1>3, SessionAssumption DEF Daemon
    <3> QED
      BY <2>1, <3>1, <3>2 DEF DiffWorks, Leads
  <2> HIDE DEF known
  <2> QED
    BY <2>1, <2>2, <1>5 DEF m, sendLatestRev, MessageOK, Full, DiffMsg
<1> HIDE DEF m
<1>7. /\ Messages(toClnt[c]') /\ toClnt[c]' # <<>> /\ toClnt[c]'[Len(toClnt[c]')] = m
  BY <1>2, <1>3, <1>6, MessageQueued DEF ClientOK
<1>8. Requests(toSrv[c])' /\ Messages(toClnt[c])'
  BY <1>3, <1>4, <1>7, RequestsThen, MessagesThen
<1>9. CopyOK(c)'
  BY <1>2, <1>3, CopyStaysOK DEF ClientOK
<1>10. conn[c] = "joined"
  BY <1>2, <1>3 DEF ClientOK, KeptInformed, Join
<1>11. KeptInformed(c)'
  BY <1>2, <1>6, <1>7, <1>10 DEF KeptInformed, Latest
<1> QED
  BY <1>1, <1>2, <1>8, <1>9, <1>10, <1>11, OnlyOne, ConnectedMeansUp DEF ClientOK

LEMMA RefusedStep ==
  ASSUME IInv, NEW c \in Clients, toSrv[c] # <<>>, Head(toSrv[c]).type = "edit",
         Received(c), UNCHANGED <<kind, serverVars, conn, toClnt, clientVars>>
  PROVE  IInv'
<1>1. Only(c)
  BY DEF Received, serverVars, clientVars, Only, Copy, Queues, IInv, Daemon
<1>2. /\ conn[c]' = conn[c] /\ toSrv[c]' = Tail(toSrv[c]) /\ toClnt[c]' = toClnt[c]
      /\ Copy(c)' = Copy(c) /\ kind' = kind /\ revs' = revs
  BY DEF Received, serverVars, clientVars, Copy, IInv, Daemon
<1>3. Daemon /\ Grows /\ ClientOK(c)
  BY <1>2 DEF IInv, Grows
<1>4. Requests(toSrv[c]') /\ (Asks(toSrv[c]) => Asks(toSrv[c]'))
  BY <1>2, <1>3, RequestTaken DEF ClientOK
<1>5. Requests(toSrv[c])' /\ Messages(toClnt[c])'
  BY <1>2, <1>3, <1>4, RequestsThen, MessagesThen DEF ClientOK
<1>6. CopyOK(c)'
  BY <1>2, <1>3, CopyStaysOK DEF ClientOK
<1>7. conn[c] = "joined"
  BY <1>3 DEF ClientOK, KeptInformed, Join
<1>8. KeptInformed(c)'
  BY <1>2, <1>3, <1>4, <1>7 DEF ClientOK, KeptInformed, Copy, Latest, Asks
<1> QED
  BY <1>1, <1>2, <1>5, <1>6, <1>7, <1>8, OnlyOne, ConnectedMeansUp DEF ClientOK

\* A new revision of which all joined clients are told.
LEMMA NewRevision ==
  ASSUME IInv, NEW l \in Lists(kind), revs' = Append(revs, l), kind' = kind, up' = up, up = "up",
         conn' = conn, UNCHANGED clientVars, NEW m, MessageOK(m)', m.to = Latest', toAll(m),
         \/ toSrv' = toSrv
         \/ \E c \in Clients : /\ toSrv[c] # <<>> /\ Head(toSrv[c]).type = "edit"
                             /\ Received(c)
  PROVE  IInv'
<1>1. Daemon /\ Grows
  BY DEF IInv, Grows
<1>2. ASSUME NEW c \in Clients PROVE ClientOK(c)'
  <2>1. Copy(c)' = Copy(c)
    BY DEF Copy, clientVars
  <2>2. \/ toSrv[c]' = toSrv[c]
        \/ /\ toSrv[c] # <<>> /\ Head(toSrv[c]).type = "edit"
           /\ toSrv[c]' = Tail(toSrv[c])
    BY <1>1 DEF Received, Daemon
  <2> QED
    BY <1>1, <2>1, <2>2, Told DEF IInv
<1>3. Daemon'
  BY <1>1, OldRevsStay DEF Daemon, toAll, Received, clientVars
<1> QED
  BY <1>2, <1>3 DEF IInv

LEMMA EditTakesStep ==
  ASSUME IInv, NEW c \in Clients, toSrv[c] # <<>>, Head(toSrv[c]).type = "edit",
         EditTakes(c, Head(toSrv[c])), UNCHANGED <<kind, clientVars>>
  PROVE  IInv'
<1>1. Daemon /\ ClientOK(c) /\ conn[c] # "off" /\ up = "up"
  BY ConnectedMeansUp DEF IInv
<1>2. RequestOK(Head(toSrv[c]))
  BY <1>1, RequestTaken DEF ClientOK
<1>3. PICK from, diff : Head(toSrv[c]) = EditCmd(from, diff) /\ EditOK(from, diff)
  BY <1>2, WhatRequest
<1>4. PICK l : l = Patch(Rev(from), diff).list
  OBVIOUS
<1>5. PICK m : m = EditMsg(from, diff, l)
  OBVIOUS
<1>6. /\ Patch(Rev(from), diff).how = "ok" /\ ~IdsCrash(diff, l) /\ revs' = Append(revs, l)
      /\ toAll(m) /\ Received(c) /\ up' = up /\ conn' = conn /\ kind' = kind
  BY <1>3, <1>4, <1>5 DEF EditTakes, EditCmd
<1>7. l \in Lists(kind) /\ from \in 0 .. Latest
  BY <1>3, <1>4, <1>6 DEF EditOK
<1>8. Leads(Rev(from), diff, l)
  BY <1>4 DEF Leads
<1>9. ASSUME kind = "playlist", Latest > 0 PROVE Leads(Rev(from), AddIds(diff, l).diff, l)
  BY <1>3, <1>4, <1>6, <1>9 DEF EditOK, IdsCrash
<1>10. Grows
  BY <1>6, <1>7 DEF Grows
<1>11. Latest \in Nat /\ \A n \in 0 .. Latest : Rev(n)' = Rev(n)
  BY <1>1, <1>10, OldRevsStay
<1>12. Latest' = Latest + 1 /\ revs'[Latest + 1] = l
  BY <1>1, <1>6, <1>7 DEF Latest, Daemon
<1>13. MessageOK(m)' /\ m.to = Latest'
  <2>1. CASE Latest = 0
    BY <2>1, <1>5, <1>7, <1>11, <1>12 DEF EditMsg, Full, MessageOK, Rev
  <2>2. CASE Latest > 0
    <3>1. PICK d : m = DiffMsg(from, Latest + 1, d) /\ Leads(Rev(from), d, l)
      BY <2>2, <1>5, <1>8, <1>9 DEF EditMsg
    <3>2. /\ m.from = from /\ m.to = Latest + 1 /\ m.full = FALSE /\ m.diff = d
      BY <3>1 DEF DiffMsg
    <3>3. Rev(m.from)' = Rev(from) /\ Rev(m.to)' = l
      BY <3>2, <1>7, <1>11, <1>12 DEF Rev
    <3>4. Leads(Rev(m.from), m.diff, Rev(m.to))'
      BY <3>1, <3>2, <3>3 DEF Leads
    <3>5. /\ m.from \in Nat /\ m.to \in (0 .. Latest)' /\ m.full = FALSE /\ m.from <= Latest'
          /\ m.to = Latest'
      BY <3>2, <1>7, <1>11, <1>12
    <3>6. MessageOK(m)'
      BY <3>4, <3>5 DEF MessageOK
    <3> QED
      BY <3>5, <3>6
  <2> QED
    BY <2>1, <2>2, <1>11
<1> QED
  BY <1>1, <1>6, <1>7, <1>13, NewRevision

LEMMA ServerEditStep ==
  ASSUME IInv, up = "up", NEW e \in ServerEdits(kind, Rev(Latest)), ~e.crash,
         revs' = Append(revs, e.list),
         toAll(IF Latest = 0 THEN Full(0, 1, e.list) ELSE DiffMsg(Latest, Latest + 1, e.diff)),
         UNCHANGED <<up, conn, toSrv, kind, clientVars>>
  PROVE  IInv'
<1>1. PICK m : m = IF Latest = 0 THEN Full(0, 1, e.list)
                   ELSE DiffMsg(Latest, Latest + 1, e.diff)
  OBVIOUS
<1>2. Daemon /\ Latest \in Nat
  BY DEF IInv, Daemon, Latest
<1>3. Rev(Latest) \in Lists(kind)
  BY <1>2, RevIsList
<1>4. e.list \in Lists(kind) /\ Leads(Rev(Latest), e.diff, e.list)
  BY <1>2, <1>3, SessionAssumption DEF Daemon, ServerEditsWork
<1>5. Grows
  BY <1>4 DEF Grows
<1>6. Latest' = Latest + 1 /\ revs'[Latest + 1] = e.list /\ kind' = kind
      /\ \A n \in 0 .. Latest : Rev(n)' = Rev(n)
  BY <1>2, <1>4, <1>5, OldRevsStay DEF Latest, Daemon
<1>7. MessageOK(m)' /\ m.to = Latest'
  <2>1. CASE Latest = 0
    BY <2>1, <1>1, <1>6 DEF Full, MessageOK, Rev
  <2>2. CASE Latest # 0
    <3>1. m.from = Latest /\ m.to = Latest + 1 /\ m.full = FALSE /\ m.diff = e.diff
      BY <1>1, <2>2 DEF DiffMsg
    <3>2. Rev(m.from)' = Rev(Latest) /\ Rev(m.to)' = e.list
      <4>1. Rev(m.from)' = Rev(m.from) /\ Rev(m.from) = Rev(Latest)
        BY <3>1, <1>2, <1>6
      <4>2. m.to # 0
        BY <3>1, <1>2
      <4>3. Rev(m.to)' = revs'[m.to]
        BY <4>2 DEF Rev
      <4> QED
        BY <4>1, <4>3, <3>1, <1>6
    <3>3. Leads(Rev(m.from), m.diff, Rev(m.to))'
      BY <3>1, <3>2, <1>4 DEF Leads
    <3>4. m.from \in Nat /\ m.to \in (0 .. Latest)' /\ m.from <= Latest' /\ m.to = Latest'
      BY <3>1, <1>2, <1>6
    <3>5. MessageOK(m)'
      BY <3>1, <3>3, <3>4 DEF MessageOK
    <3> QED
      BY <3>4, <3>5
  <2> QED
    BY <2>1, <2>2
<1>8. toAll(m)
  BY <1>1
<1> QED
  BY <1>4, <1>7, <1>8, NewRevision

\* The daemon dies, having perhaps added a revision.
LEMMA DiesStep ==
  ASSUME IInv, Grows, Dies, up' \in {"down", "stuck"}, UNCHANGED clientVars
  PROVE  IInv'
<1>1. ASSUME NEW c \in Clients PROVE ClientOK(c)'
  <2>1. Copy(c)' = Copy(c) /\ Cut(c)
    BY <1>1 DEF Copy, clientVars, Cut, Dies
  <2> QED
    BY <2>1, <1>1, CopyStaysOK, CutOff DEF IInv, ClientOK
<1>2. Daemon'
  BY OldRevsStay DEF IInv, Daemon, Dies, clientVars, Grows
<1> QED
  BY <1>1, <1>2 DEF IInv

LEMMA EditKillsStep ==
  ASSUME IInv, NEW c \in Clients, toSrv[c] # <<>>, Head(toSrv[c]).type = "edit",
         EditKills(Head(toSrv[c])), UNCHANGED <<kind, clientVars>>
  PROVE  IInv'
<1> DEFINE m == Head(toSrv[c])
<1>1. EditOK(m.from, m.diff)
  BY RequestTaken, WhatRequest DEF IInv, ClientOK
<1>2. Grows
  BY <1>1 DEF EditKills, EditOK, Grows
<1> QED
  BY <1>2, DiesStep DEF EditKills

LEMMA DieSavingStep ==
  ASSUME IInv, DieSaving
  PROVE  IInv'
<1>1. Daemon /\ StayLists(kind)
  BY SessionAssumption DEF IInv, Daemon
<1>2. NewLists \subseteq Lists(kind)
  <2>1. ASSUME NEW e \in ServerEdits(kind, Rev(Latest)), ~e.crash PROVE e.list \in Lists(kind)
    <3>1. Rev(Latest) \in Lists(kind)
      BY <1>1, RevIsList DEF Daemon, Latest
    <3> QED
      BY <2>1, <3>1, <1>1, SessionAssumption DEF Daemon, ServerEditsWork
  <2>2. ASSUME NEW c \in Clients, toSrv[c] # <<>>, Head(toSrv[c]).type = "edit",
               Patch(Rev(Head(toSrv[c]).from), Head(toSrv[c]).diff).how = "ok"
        PROVE  Patch(Rev(Head(toSrv[c]).from), Head(toSrv[c]).diff).list \in Lists(kind)
    <3>1. EditOK(Head(toSrv[c]).from, Head(toSrv[c]).diff)
      BY <2>2, RequestTaken, WhatRequest DEF IInv, ClientOK
    <3> QED
      BY <2>2, <3>1 DEF EditOK
  <2> QED
    BY <2>1, <2>2 DEF NewLists
<1>3. Grows
  BY <1>1, <1>2 DEF DieSaving, StayLists, Grows
<1> QED
  BY <1>3, DiesStep DEF DieSaving

LEMMA RestartStep ==
  ASSUME IInv, Restart
  PROVE  IInv'
<1>1. Daemon /\ StayLists(kind) /\ Rev(Latest) \in Lists(kind)
  BY RevIsList, SessionAssumption DEF IInv, Daemon, Latest
<1>2. Grows
  BY <1>1 DEF Restart, StayLists, Grows
<1>3. ASSUME NEW c \in Clients PROVE ClientOK(c)'
  <2>1. Copy(c)' = Copy(c) /\ conn[c] = "off" /\ UNCHANGED <<conn, toSrv, toClnt>>
    BY <1>1 DEF Restart, Copy, clientVars, Daemon
  <2>2. Cut(c)
    BY <2>1, <1>3 DEF Cut, IInv, ClientOK, KeptInformed
  <2> QED
    BY <2>1, <2>2, <1>2, <1>3, CopyStaysOK, CutOff DEF IInv, ClientOK
<1>4. Daemon'
  BY <1>1, <1>2, OldRevsStay DEF Restart, Daemon, clientVars
<1> QED
  BY <1>3, <1>4 DEF IInv

LEMMA doJoinStep ==
  ASSUME IInv, NEW c \in Clients, doJoinSession(c)
  PROVE  IInv'
<1>1. PICK known \in Nat : toSrv' = [toSrv EXCEPT ![c] = <<Join, Get(known)>>]
  <2>1. 0 \in Nat
    OBVIOUS
  <2> QED
    BY <2>1 DEF doJoinSession
<1>2. Only(c)
  BY <1>1 DEF doJoinSession, serverVars, clientVars, Only, Copy, Queues, IInv, Daemon
<1>3. /\ conn[c]' = "on" /\ toSrv[c]' = <<Join, Get(known)>> /\ toClnt[c]' = toClnt[c]
      /\ Copy(c)' = Copy(c) /\ conn[c] = "off" /\ kind' = kind /\ revs' = revs /\ up = "up"
  BY <1>1 DEF doJoinSession, serverVars, clientVars, Copy, IInv, Daemon
<1>4. Daemon /\ Grows /\ ClientOK(c)
  BY <1>3 DEF IInv, Grows
<1>5. Requests(toSrv[c]')
  <2>1. RequestOK(Join) /\ RequestOK(Get(known))
    BY DEF RequestOK
  <2>2. PICK S : S = {Join, Get(known)}
    OBVIOUS
  <2>3. <<Join, Get(known)>> \in Seq(S) /\ \A m \in S : RequestOK(m)
    BY <2>1, <2>2
  <2>4. Requests(<<Join, Get(known)>>)
    BY <2>3, RequestsFrom
  <2> QED
    BY <1>3, <2>4
<1>6. Requests(toSrv[c])' /\ Messages(toClnt[c])'
  BY <1>3, <1>4, <1>5, RequestsThen, MessagesThen DEF ClientOK
<1>7. CopyOK(c)'
  BY <1>3, <1>4, CopyStaysOK DEF ClientOK
<1>8. KeptInformed(c)'
  <2>1. toClnt[c]' = <<>>
    BY <1>3, <1>4 DEF ClientOK, KeptInformed
  <2>2. Asks(toSrv[c])'
    BY <1>3 DEF Asks, Get
  <2> QED
    BY <1>3, <2>1, <2>2 DEF KeptInformed
<1> QED
  BY <1>2, <1>3, <1>6, <1>7, <1>8, OnlyOne DEF ClientOK

LEMMA DisconnectStep ==
  ASSUME IInv, NEW c \in Clients, Disconnect(c)
  PROVE  IInv'
<1>1. Only(c) /\ Cut(c)
  BY DEF Disconnect, serverVars, Only, Copy, Queues, Cut, IInv, Daemon
<1>2. Daemon /\ Grows /\ CopyOK(c)
  BY DEF IInv, ClientOK, Disconnect, serverVars, Grows
<1>3. CopyOK(c)'
  BY <1>2 DEF Disconnect, serverVars, CopyOK, Rev, Latest, Daemon
<1> QED
  BY <1>1, <1>2, <1>3, CutOff, OnlyOne DEF Cut

LEMMA AfreshStep ==
  ASSUME IInv, NEW c \in Clients, StartsAfresh(c), UNCHANGED <<kind, serverVars>>
  PROVE  IInv'
<1>1. Only(c) /\ Cut(c)
  BY DEF StartsAfresh, serverVars, Only, Copy, Queues, Cut, IInv, Daemon
<1>2. Daemon /\ Grows /\ Latest' = Latest /\ Latest \in Nat
  BY DEF IInv, serverVars, Grows, Latest, Daemon
<1>3. CopyOK(c)'
  BY <1>2 DEF StartsAfresh, CopyOK, Rev, Daemon
<1> QED
  BY <1>1, <1>2, <1>3, CutOff, OnlyOne DEF Cut

LEMMA BeginDragStep ==
  ASSUME IInv, NEW c \in Clients, BeginDrag(c)
  PROVE  IInv'
<1>1. Only(c)
  BY DEF BeginDrag, serverVars, Only, Copy, Queues, IInv, Daemon
<1>2. /\ Queues(c)' = Queues(c) /\ rev' = rev /\ list' = list /\ astray' = astray
      /\ conn[c] # "off" /\ list[c] \in Lists(kind) /\ drag[c]' \in Drags(kind, list[c])
      /\ kind' = kind /\ revs' = revs /\ toSrv' = toSrv /\ toClnt' = toClnt /\ conn' = conn
  BY DEF BeginDrag, Queues, serverVars, IInv, Daemon
<1>3. Daemon /\ Grows /\ ClientOK(c)
  BY <1>2 DEF IInv, Grows
<1>4. CopyOK(c)'
  BY <1>2, <1>3 DEF ClientOK, CopyOK, Rev, Latest
<1>5. Requests(toSrv[c])' /\ Messages(toClnt[c])'
  BY <1>2, <1>3, RequestsThen, MessagesThen DEF ClientOK
<1>6. KeptInformed(c)'
  BY <1>2, <1>3 DEF ClientOK, KeptInformed, Asks, Latest
<1> QED
  BY <1>1, <1>2, <1>3, <1>4, <1>5, <1>6, OnlyOne, ConnectedMeansUp DEF ClientOK

LEMMA DropStep ==
  ASSUME IInv, NEW c \in Clients, Drop(c)
  PROVE  IInv'
<1>1. PICK e \in Edits(kind, drag[c], list[c]) :
        /\ InBounds(c, e)
        /\ toSrv' = [toSrv EXCEPT ![c] = Append(@, EditCmd(rev[c], e.diff))]
        /\ list' = [list EXCEPT ![c] = e.local]
        /\ astray' = [astray EXCEPT ![c] = @ \/ e.local # list[c]]
  BY DEF Drop
<1>2. Only(c)
  BY <1>1 DEF Drop, serverVars, Only, Copy, Queues, IInv, Daemon
<1>3. /\ conn' = conn /\ toClnt' = toClnt /\ rev' = rev /\ kind' = kind /\ revs' = revs
      /\ conn[c] # "off" /\ list[c] \in Lists(kind) /\ drag[c]' = NoDrag
      /\ toSrv[c]' = Append(toSrv[c], EditCmd(rev[c], e.diff)) /\ list[c]' = e.local
      /\ astray[c]' = (astray[c] \/ e.local # list[c])
  BY <1>1 DEF Drop, serverVars, IInv, Daemon
<1>4. Daemon /\ Grows /\ ClientOK(c)
  BY <1>3 DEF IInv, Grows
<1>5. rev[c] \in Nat /\ rev[c] \in 0 .. Latest /\ Rev(rev[c]) \in Lists(kind)
  BY <1>4, RevIsList DEF ClientOK, CopyOK
<1>6. EditOK(rev[c], e.diff)
  <2>1. PICK seen \in Lists(kind) : drag[c] \in Drags(kind, seen) \cup {NoDrag}
    BY <1>4, <1>5 DEF ClientOK, CopyOK
  <2>2. kind = "playlist" => IdsWork(kind)
    BY <1>4, SessionAssumption DEF Daemon
  <2>3. ASSUME Patch(Rev(rev[c]), e.diff).how = "ok"
        PROVE  Patch(Rev(rev[c]), e.diff).list \in Lists(kind)
    BY <1>1, <2>3 DEF InBounds
  <2>4. ASSUME kind = "playlist", Patch(Rev(rev[c]), e.diff).how = "ok",
               ~AddIds(e.diff, Patch(Rev(rev[c]), e.diff).list).crash
        PROVE  Leads(Rev(rev[c]), AddIds(e.diff, Patch(Rev(rev[c]), e.diff).list).diff,
                     Patch(Rev(rev[c]), e.diff).list)
    BY <1>1, <1>3, <1>5, <2>1, <2>2, <2>4 DEF IdsWork
  <2> QED
    BY <1>5, <2>3, <2>4 DEF EditOK
<1>7. RequestOK(EditCmd(rev[c], e.diff))
  BY <1>5, <1>6 DEF RequestOK
<1>8. /\ Requests(toSrv[c]') /\ toSrv[c]' # <<>> /\ (Asks(toSrv[c]) => Asks(toSrv[c]'))
      /\ toSrv[c] # <<>> => Head(toSrv[c]') = Head(toSrv[c])
  BY <1>3, <1>4, <1>7, RequestQueued DEF ClientOK
<1>9. Requests(toSrv[c])' /\ Messages(toClnt[c])'
  BY <1>3, <1>4, <1>8, RequestsThen, MessagesThen DEF ClientOK
<1>10. CopyOK(c)'
  BY <1>3, <1>4, <1>5 DEF ClientOK, CopyOK, Rev, Latest
<1>11. KeptInformed(c)'
  BY <1>3, <1>4, <1>8 DEF ClientOK, KeptInformed, Asks, Latest
<1> QED
  BY <1>2, <1>3, <1>4, <1>9, <1>10, <1>11, OnlyOne, ConnectedMeansUp DEF ClientOK

\* What a client makes of a message.
Result(m, l, n, astr) == IF m.from = 0 THEN Deserialized(m, n) ELSE Patched(m, l, n, astr)

ResultOK(r, m) ==
  /\ r.rev \in 0 .. Latest /\ r.astray \in BOOLEAN /\ r.refetch \in BOOLEAN
  /\ r.astray \/ r.list = Rev(r.rev)
  /\ r.refetch \/ r.rev = m.to

LEMMA MessageProcessed ==
  ASSUME NEW m, MessageOK(m), NEW l, NEW n \in 0 .. Latest, NEW astr \in BOOLEAN,
         astr \/ l = Rev(n), Latest \in Nat,
         NEW r, r = Result(m, l, n, astr), ~r.crash
  PROVE  ResultOK(r, m)
<1>1. m.to \in 0 .. Latest /\ m.full \in BOOLEAN /\ m.from \in Nat
  BY DEF MessageOK
<1>2. CASE m.from = 0
  <2>1. CASE m.full
    <3>1. r = Keeps(m.list, m.to, FALSE) /\ m.list = Rev(m.to)
      BY <1>2, <2>1 DEF Result, Deserialized, MessageOK
    <3>2. r.rev = m.to /\ r.list = Rev(m.to) /\ r.astray = FALSE /\ r.refetch = FALSE
      BY <3>1 DEF Keeps
    <3> QED
      BY <1>1, <3>2 DEF Rev, ResultOK
  <2>2. CASE ~m.full /\ kind = "mediacol"
    <3>1. r = Keeps(<<>>, m.to, TRUE)
      BY <1>2, <2>2 DEF Result, Deserialized
    <3>2. r.rev = m.to /\ r.astray = TRUE /\ r.refetch = FALSE
      BY <3>1 DEF Keeps
    <3> QED
      BY <1>1, <3>2 DEF ResultOK
  <2>3. CASE ~m.full /\ kind # "mediacol"
    <3>1. r = Refetches(<<>>, n, TRUE)
      BY <1>2, <2>3 DEF Result, Deserialized
    <3> QED
      BY <3>1 DEF Keeps, Refetches, ResultOK
  <2> QED
    BY <2>1, <2>2, <2>3
<1>3. CASE m.from # 0 /\ n # m.from
  <2>1. r = Refetches(l, n, astr)
    BY <1>3 DEF Result, Patched
  <2> QED
    BY <2>1 DEF Keeps, Refetches, ResultOK
<1>4. CASE m.from # 0 /\ n = m.from
  <2>1. ~m.full
    BY <1>1, <1>4 DEF Result, Patched, Crashes, Keeps
  <2>2. PICK new : new = Patch(l, m.diff)
    OBVIOUS
  <2>3. CASE new.how = "ok"
    <3>1. r = Keeps(new.list, m.to, astr)
      BY <1>4, <2>1, <2>2, <2>3 DEF Result, Patched
    <3>2. astr \/ new.list = Rev(m.to)
      BY <1>1, <1>4, <2>1, <2>2, <2>3 DEF MessageOK, Leads
    <3>3. r.rev = m.to /\ r.list = new.list /\ r.astray = astr /\ r.refetch = FALSE
      BY <3>1 DEF Keeps
    <3> QED
      BY <1>1, <3>2, <3>3 DEF Rev, ResultOK
  <2>4. CASE new.how = "malformed"
    <3>1. r = Refetches(new.list, n, TRUE)
      BY <1>4, <2>1, <2>2, <2>4 DEF Result, Patched
    <3> QED
      BY <3>1 DEF Keeps, Refetches, ResultOK
  <2>5. CASE new.how \notin {"ok", "malformed"}
    <3>1. r = Crashes
      BY <1>4, <2>1, <2>2, <2>5 DEF Result, Patched
    <3> QED
      BY <3>1 DEF Crashes, Keeps, ResultOK
  <2> QED
    BY <2>3, <2>4, <2>5
<1> QED
  BY <1>2, <1>3, <1>4

LEMMA EditMsgStep ==
  ASSUME IInv, NEW c \in Clients, onEditMsg(c)
  PROVE  IInv'
<1>1. PICK m : m = Head(toClnt[c])
  OBVIOUS
<1>2. PICK r : r = Result(m, list[c], rev[c], astray[c])
  OBVIOUS
<1>3. toClnt[c] # <<>> /\ UNCHANGED <<kind, serverVars>>
  BY DEF onEditMsg
<1>4. CASE r.crash
  BY <1>1, <1>2, <1>4, AfreshStep DEF onEditMsg, Result
<1>5. CASE ~r.crash
  <2>1. /\ list' = [list EXCEPT ![c] = r.list] /\ rev' = [rev EXCEPT ![c] = r.rev]
        /\ astray' = [astray EXCEPT ![c] = r.astray]
        /\ toSrv' = [toSrv EXCEPT ![c] = IF r.refetch THEN Append(@, Get(0)) ELSE @]
        /\ toClnt' = [toClnt EXCEPT ![c] = Tail(@)]
        /\ UNCHANGED <<conn, drag>>
    BY <1>1, <1>2, <1>5 DEF onEditMsg, Result
  <2>2. Only(c)
    BY <1>3, <2>1 DEF serverVars, Only, Copy, Queues, IInv, Daemon
  <2>3. /\ list[c]' = r.list /\ rev[c]' = r.rev /\ astray[c]' = r.astray /\ drag[c]' = drag[c]
        /\ toSrv[c]' = IF r.refetch THEN Append(toSrv[c], Get(0)) ELSE toSrv[c]
        /\ toClnt[c]' = Tail(toClnt[c]) /\ conn[c]' = conn[c] /\ kind' = kind /\ revs' = revs
    BY <1>3, <2>1 DEF serverVars, IInv, Daemon
  <2>4. Daemon /\ Grows /\ ClientOK(c) /\ Latest \in Nat /\ Latest' = Latest
    BY <2>3 DEF IInv, Grows, Daemon, Latest
  <2>5. conn[c] = "joined" /\ up = "up"
    BY <1>3, <2>4, ConnectedMeansUp DEF ClientOK, KeptInformed
  <2>6. /\ Messages(toClnt[c]') /\ MessageOK(m)
        /\ toClnt[c]' = <<>> => m.to = Latest
        /\ toClnt[c]' # <<>> => toClnt[c]'[Len(toClnt[c]')].to = Latest
    <3>1. Messages(toClnt[c]) /\ toClnt[c][Len(toClnt[c])].to = Latest
      BY <1>3, <2>4, <2>5 DEF ClientOK, KeptInformed
    <3> QED
      BY <1>1, <1>3, <2>3, <3>1, MessageTaken
  <2>7. /\ r.rev \in 0 .. Latest /\ r.astray \in BOOLEAN /\ r.refetch \in BOOLEAN
        /\ r.astray \/ r.list = Rev(r.rev)
        /\ r.refetch \/ r.rev = m.to
    <3>1. /\ rev[c] \in 0 .. Latest /\ astray[c] \in BOOLEAN
          /\ astray[c] \/ list[c] = Rev(rev[c])
      BY <2>4 DEF ClientOK, CopyOK
    <3>2. ResultOK(r, m)
      BY <1>2, <1>5, <2>4, <2>6, <3>1, MessageProcessed
    <3> QED
      BY <3>2 DEF ResultOK
  <2>8. Requests(toSrv[c]') /\ (r.refetch => Asks(toSrv[c]'))
    <3>1. RequestOK(Get(0)) /\ Get(0).type = "get"
      BY DEF RequestOK, Get
    <3>2. Requests(Append(toSrv[c], Get(0))) /\ Asks(Append(toSrv[c], Get(0)))
      BY <3>1, <2>4, RequestQueued DEF ClientOK
    <3> QED
      BY <2>3, <2>4, <3>2 DEF ClientOK
  <2>9. Requests(toSrv[c])' /\ Messages(toClnt[c])'
    BY <2>4, <2>6, <2>8, RequestsThen, MessagesThen
  <2>10. CopyOK(c)'
    <3>1. r.astray \/ r.list = Rev(r.rev)
      BY <2>7
    <3>2. astray[c]' \/ list[c]' = Rev(rev[c])'
      BY <2>3, <3>1 DEF Rev
    <3>3. rev[c]' \in (0 .. Latest)' /\ astray[c]' \in BOOLEAN
      BY <2>3, <2>4, <2>7
    <3>4. (drag[c] = NoDrag \/ \E l \in Lists(kind) : drag[c] \in Drags(kind, l))'
      BY <2>3, <2>4 DEF ClientOK, CopyOK
    <3> QED
      BY <3>2, <3>3, <3>4 DEF CopyOK
  <2>11. KeptInformed(c)'
    <3>1. Asks(toSrv[c]') => Asks(toSrv[c])'
      BY DEF Asks
    <3>2. toClnt[c]' = <<>> => Asks(toSrv[c])' \/ rev[c]' = Latest'
      BY <2>3, <2>4, <2>6, <2>7, <2>8, <3>1
    <3>3. toClnt[c]' # <<>> => toClnt[c]'[Len(toClnt[c]')].to = Latest'
      BY <2>4, <2>6
    <3>4. conn[c]' = "joined"
      BY <2>3, <2>5
    <3> QED
      BY <3>2, <3>3, <3>4 DEF KeptInformed
  <2> QED
    BY <2>2, <2>4, <2>5, <2>9, <2>10, <2>11, <2>3, OnlyOne DEF ClientOK
<1> QED
  BY <1>4, <1>5

-----------------------------------------------------------------------------
(* The theorems.                                                           *)

LEMMA InitIInv == Init => IInv
<1> SUFFICES ASSUME Init PROVE IInv
  OBVIOUS
<1>1. Daemon
  BY DEF Init, Daemon
<1>2. ASSUME NEW c \in Clients PROVE ClientOK(c)
  <2>1. CopyOK(c)
    BY <1>2 DEF Init, CopyOK, Rev, Latest
  <2>2. KeptInformed(c)
    BY <1>2 DEF Init, KeptInformed
  <2> QED
    BY <1>2, <2>1, <2>2, EmptyQueues DEF Init, ClientOK
<1> QED
  BY <1>1, <1>2 DEF IInv

LEMMA NextIInv == IInv /\ [Next]_vars => IInv'
<1> SUFFICES ASSUME IInv, [Next]_vars PROVE IInv'
  OBVIOUS
<1>1. CASE UNCHANGED vars
  <2>1. \A c \in Clients : ClientOK(c)'
    BY <1>1, Untouched DEF vars, serverVars, clientVars, IInv, Copy, Queues
  <2> QED
    BY <1>1, <2>1 DEF vars, serverVars, clientVars, IInv, Daemon
<1>2. ASSUME NEW c \in Clients, onEdit(c) PROVE IInv'
  <2>1. /\ toSrv[c] # <<>> /\ Head(toSrv[c]).type = "edit" /\ UNCHANGED <<kind, clientVars>>
    BY <1>2 DEF onEdit
  <2>2. CASE EditTakes(c, Head(toSrv[c]))
    BY <2>1, <2>2, EditTakesStep
  <2>3. CASE EditRefused(c, Head(toSrv[c]))
    BY <2>1, <2>3, RefusedStep DEF EditRefused
  <2>4. CASE EditKills(Head(toSrv[c]))
    BY <2>1, <2>4, EditKillsStep
  <2> QED
    BY <1>2, <2>2, <2>3, <2>4 DEF onEdit
<1>3. ASSUME ServerEdit PROVE IInv'
  <2>1. PICK e \in ServerEdits(kind, Rev(Latest)) :
          IF e.crash THEN up' = "down" /\ Dies /\ UNCHANGED revs
          ELSE /\ revs' = Append(revs, e.list)
               /\ toAll(IF Latest = 0 THEN Full(0, 1, e.list)
                        ELSE DiffMsg(Latest, Latest + 1, e.diff))
               /\ UNCHANGED <<up, conn, toSrv>>
    BY <1>3 DEF ServerEdit
  <2>2. CASE e.crash
    BY <1>3, <2>1, <2>2, DiesStep DEF ServerEdit, Grows
  <2>3. CASE ~e.crash
    BY <1>3, <2>1, <2>3, ServerEditStep DEF ServerEdit
  <2> QED
    BY <2>2, <2>3
<1>4. ASSUME Die PROVE IInv'
  BY <1>4, DiesStep DEF Die, Grows
<1>5. ASSUME NEW c \in Clients, ClientDies(c) PROVE IInv'
  BY <1>5, AfreshStep DEF ClientDies
<1> QED
  BY <1>1, <1>2, <1>3, <1>4, <1>5, JoinStep, GetStep, doJoinStep, DisconnectStep,
     BeginDragStep, DropStep, EditMsgStep, DieSavingStep, RestartStep DEF Next

LEMMA Invariant == Spec => []IInv
  BY InitIInv, NextIInv, PTL DEF Spec

(***************************************************************************)
(* Variables have their types, no client has a number the daemon does not  *)
(* know, and nobody is connected to a daemon that is down.                 *)
(***************************************************************************)
THEOREM TypeCorrect == Spec => []TypeOK
<1>1. IInv => TypeOK
  <2> SUFFICES ASSUME IInv PROVE TypeOK
    OBVIOUS
  <2>1. Latest \in Nat
    BY DEF IInv, Daemon, Latest
  <2> QED
    BY <2>1 DEF IInv, Daemon, ClientOK, CopyOK, KeptInformed, TypeOK
<1> QED
  BY Invariant, <1>1, PTL

(***************************************************************************)
(* What a client calls revision n is the daemon's revision n, whatever was *)
(* edited against older revisions, lost with a connection or restored      *)
(* after a crash, unless the client emptied or changed its copy itself     *)
(* (CConnection::onEditPlaylist, CCmdDispatcher::incomingCmd).             *)
(***************************************************************************)
THEOREM CopiesAgree == Spec => []HoldersAgree
<1>1. IInv => HoldersAgree
  BY DEF IInv, ClientOK, CopyOK, HoldersAgree
<1> QED
  BY Invariant, <1>1, PTL

(***************************************************************************)
(* A client rests only on the latest revision: if its copy is old, a       *)
(* message or a request of its own is still under way                      *)
(* (CConnection::onEditPlaylist, CClientSM's doJoinSession).               *)
(***************************************************************************)
THEOREM RestsOnLatest == Spec => []Converged
<1>1. IInv => Converged
  <2> SUFFICES ASSUME IInv, NEW c \in Clients, Resting(c) PROVE rev[c] = Latest
    BY DEF Converged
  <2>1. ~Asks(<<>>)
    BY DEF Asks
  <2> QED
    BY <2>1 DEF IInv, ClientOK, KeptInformed, Resting
<1> QED
  BY Invariant, <1>1, PTL

-----------------------------------------------------------------------------
(* Sets of numbers, bounded sequences, and folds.                          *)

\* Induction, as a fact about a set of numbers.
LEMMA Induction ==
  ASSUME NEW S \in SUBSET Nat, 0 \in S, \A n \in S : n + 1 \in S
  PROVE  S = Nat
<1>1. SUFFICES ASSUME Nat \ S # {} PROVE FALSE
  OBVIOUS
<1>2. PICK x \in Nat \ S : \A y \in Nat \ S : ~ (<<y, x>> \in OpToRel(<, Nat))
  BY <1>1, WFMin, NatLessThanWellFounded
<1>3. x # 0 /\ x - 1 \in Nat /\ x - 1 \in Nat \ S /\ x - 1 < x
  <2>1. x \in Nat /\ x \notin S /\ x # 0
    BY <1>2
  <2>2. x - 1 \in Nat /\ x = (x - 1) + 1 /\ x - 1 < x
    BY <2>1
  <2> QED BY <2>1, <2>2
<1>4. <<x - 1, x>> \in OpToRel(<, Nat)
  BY <1>2, <1>3 DEF OpToRel
<1> QED BY <1>2, <1>3, <1>4

\* The largest number of a bounded set.
LEMMA MaxExists ==
  ASSUME NEW S \in SUBSET Nat, S # {}, NEW n \in Nat, \A i \in S : i <= n
  PROVE  Max(S) \in S /\ \A i \in S : i <= Max(S)
<1> DEFINE T == {m \in Nat : \A U \in SUBSET Nat :
                   U # {} /\ (\A i \in U : i <= m) => \E x \in U : \A y \in U : x >= y}
<1>1. 0 \in T
  <2>1. ASSUME NEW U \in SUBSET Nat, U # {}, \A i \in U : i <= 0
        PROVE  \E x \in U : \A y \in U : x >= y
    <3>1. PICK x \in U : TRUE
      BY <2>1
    <3>2. \A y \in U : y = 0
      BY <2>1
    <3> QED BY <3>1, <3>2
  <2> QED BY <2>1
<1>2. \A m \in T : m + 1 \in T
  <2> SUFFICES ASSUME NEW m \in Nat, m \in T,
                      NEW U \in SUBSET Nat, U # {}, \A i \in U : i <= m + 1
               PROVE  \E x \in U : \A y \in U : x >= y
    OBVIOUS
  <2>1. CASE m + 1 \in U
    BY <2>1
  <2>2. CASE m + 1 \notin U
    <3>1. \A i \in U : i <= m
      BY <2>2
    <3> QED BY <3>1
  <2> QED BY <2>1, <2>2
<1>3. T = Nat
  <2> HIDE DEF T
  <2>1. T \subseteq Nat
    BY DEF T
  <2> QED BY <1>1, <1>2, <2>1, Induction
<1>4. n \in T
  BY <1>3
<1>5. \E x \in S : \A y \in S : x >= y
  BY <1>4
<1>6. Max(S) \in S /\ \A y \in S : Max(S) >= y
  BY <1>5 DEF Max
<1> QED BY <1>6

\* The fold takes its elements from the largest index on.
LEMMA MaxOfPrefix ==
  ASSUME NEW n \in Nat, NEW s \in SUBSET (1 .. n + 1), n + 1 \in s
  PROVE  Max(s) = n + 1
<1>1. \E x \in s : \A y \in s : x >= y
  OBVIOUS
<1>2. Max(s) \in s /\ \A y \in s : Max(s) >= y
  BY <1>1 DEF Max
<1>3. Max(s) \in 1 .. n + 1 /\ Max(s) >= n + 1
  BY <1>2
<1> QED BY <1>3

\* The sequences TLC enumerates are those of bounded length.
LEMMA BoundedLists ==
  ASSUME NEW S, NEW n \in Nat, NEW l
  PROVE  l \in BoundedSeq(S, n) <=> l \in Seq(S) /\ Len(l) <= n
<1>1. ASSUME l \in BoundedSeq(S, n)
      PROVE  l \in Seq(S) /\ Len(l) <= n
  <2>1. PICK m \in 0 .. n : l \in [1 .. m -> S]
    BY <1>1 DEF BoundedSeq, SeqOf
  <2>2. l = [i \in 1 .. m |-> l[i]] /\ \A i \in 1 .. m : l[i] \in S
    BY <2>1
  <2>3. l \in Seq(S)
    BY <2>1 
  <2> QED BY <2>1, <2>3, LenProperties
<1>2. ASSUME l \in Seq(S), Len(l) <= n
      PROVE  l \in BoundedSeq(S, n)
  <2>1. Len(l) \in 0 .. n /\ l \in [1 .. Len(l) -> S]
    BY <1>2, LenProperties
  <2> QED BY <2>1 DEF BoundedSeq, SeqOf
<1> QED BY <1>1, <1>2

(***************************************************************************)
(* The three folds over a diff or a list: FoldLeft is a function on the    *)
(* sets of indices, and what it does at index i is a step from what it did *)
(* before.                                                                 *)
(***************************************************************************)
FoldStep(op, there, sofar, x) ==
  IF op = "patch" THEN ApplyHunk(sofar, x)
  ELSE IF op = "ids" THEN WithItems(sofar, x)
  ELSE RestoreClient(there, sofar, x)

Folded(it, op, there, base, q, n) ==
  it = [s \in SUBSET (1 .. n) |->
          IF s = {} THEN base ELSE FoldStep(op, there, it[s \ {Max(s)}], q[Max(s)])]

FoldRun(f, op, there, base, q, n) ==
  f[0] = base /\ \A i \in 1 .. n : f[i] = FoldStep(op, there, f[i - 1], q[i])

\* There is such a function: with each index it is extended by one step.
LEMMA FoldExists ==
  ASSUME NEW op, NEW there, NEW base, NEW q, NEW n \in Nat
  PROVE  \E it : Folded(it, op, there, base, q, n)
<1> DEFINE R(m, it) == [s \in SUBSET (1 .. m) |->
                          IF s = {} THEN base ELSE FoldStep(op, there, it[s \ {Max(s)}], q[Max(s)])]
           T == {m \in Nat : \E w : w = R(m, w)}
<1>1. 0 \in T
  <2> DEFINE w == [s \in SUBSET (1 .. 0) |-> base]
  <2>1. \A s \in SUBSET (1 .. 0) : s = {}
    OBVIOUS
  <2>2. w = R(0, w)
    BY <2>1
  <2> QED BY <2>2
<1>2. \A m \in T : m + 1 \in T
  <2> SUFFICES ASSUME NEW m \in T PROVE m + 1 \in T
    OBVIOUS
  <2>1. PICK v : v = R(m, v)
    OBVIOUS
  <2> DEFINE w == [s \in SUBSET (1 .. m + 1) |->
                     IF m + 1 \in s THEN FoldStep(op, there, v[s \ {m + 1}], q[m + 1]) ELSE v[s]]
  <2>2. ASSUME NEW s \in SUBSET (1 .. m + 1) PROVE w[s] = R(m + 1, w)[s]
    <3>1. CASE m + 1 \in s
      <4>1. Max(s) = m + 1
        BY <3>1, MaxOfPrefix
      <4>2. w[s] = FoldStep(op, there, v[s \ {m + 1}], q[m + 1])
        BY <3>1
      <4>3. s \ {m + 1} \in SUBSET (1 .. m + 1) /\ m + 1 \notin s \ {m + 1}
        OBVIOUS
      <4>4. w[s \ {m + 1}] = v[s \ {m + 1}]
        BY <4>3
      <4>5. R(m + 1, w)[s] = FoldStep(op, there, w[s \ {m + 1}], q[m + 1])
        <5> HIDE DEF w
        <5> QED BY <3>1, <4>1
      <4> HIDE DEF w, R
      <4> QED BY <4>2, <4>4, <4>5
    <3>2. CASE m + 1 \notin s
      <4>1. s \in SUBSET (1 .. m)
        BY <3>2
      <4>2. w[s] = R(m, v)[s]
        <5> HIDE DEF R
        <5> QED BY <3>2, <2>1
      <4>3. CASE s = {}
        <5>1. R(m, v)[s] = base
          BY <4>1, <4>3
        <5>2. R(m + 1, w)[s] = base
          <6> HIDE DEF w
          <6> QED BY <4>3
        <5> HIDE DEF R, w
        <5> QED BY <4>2, <5>1, <5>2
      <4>4. CASE s # {}
        <5> DEFINE r == s \ {Max(s)}
        <5>1. r \in SUBSET (1 .. m) /\ r \in SUBSET (1 .. m + 1) /\ m + 1 \notin r
          <6>1. \A x \in 1 .. m : x \in 1 .. m + 1 /\ x # m + 1
            OBVIOUS
          <6>2. r \subseteq s
            OBVIOUS
          <6> HIDE DEF r
          <6> QED BY <4>1, <6>1, <6>2
        <5>2. w[r] = v[r]
          BY <5>1
        <5>3. R(m, v)[s] = FoldStep(op, there, v[r], q[Max(s)])
          BY <4>1, <4>4
        <5>4. R(m + 1, w)[s] = FoldStep(op, there, w[r], q[Max(s)])
          <6> HIDE DEF w
          <6> QED BY <4>4
        <5> HIDE DEF R, w
        <5> QED BY <4>2, <5>2, <5>3, <5>4
      <4> QED BY <4>3, <4>4
    <3> QED BY <3>1, <3>2
  <2>3. w = R(m + 1, w)
    <3>1. \A s \in SUBSET (1 .. m + 1) : w[s] = R(m + 1, w)[s]
      BY <2>2
    <3>2. DOMAIN w = SUBSET (1 .. m + 1) /\ DOMAIN R(m + 1, w) = SUBSET (1 .. m + 1)
      OBVIOUS
    <3>3. w = [s \in SUBSET (1 .. m + 1) |-> w[s]]
      OBVIOUS
    <3> QED BY <3>1, <3>3
  <2>4. m + 1 \in Nat
    OBVIOUS
  <2> HIDE DEF w, R
  <2> QED BY <2>3, <2>4
<1>3. T = Nat
  <2> HIDE DEF T, R
  <2>1. T \in SUBSET Nat
    BY DEF T
  <2> QED BY <1>1, <1>2, <2>1, Induction
<1> QED BY <1>3 DEF Folded

\* On the first i indices it goes one step at a time.
LEMMA FoldRuns ==
  ASSUME NEW op, NEW there, NEW base, NEW q, NEW n \in Nat, NEW it,
         Folded(it, op, there, base, q, n)
  PROVE  FoldRun([i \in 0 .. n |-> it[1 .. i]], op, there, base, q, n)
<1> DEFINE f == [i \in 0 .. n |-> it[1 .. i]]
<1>1. it = [s \in SUBSET (1 .. n) |->
              IF s = {} THEN base ELSE FoldStep(op, there, it[s \ {Max(s)}], q[Max(s)])]
  BY DEF Folded
<1>2. f[0] = base
  <2>1. 1 .. 0 = {} /\ {} \in SUBSET (1 .. n)
    OBVIOUS
  <2> QED BY <1>1, <2>1
<1>3. ASSUME NEW i \in 1 .. n PROVE f[i] = FoldStep(op, there, f[i - 1], q[i])
  <2>1. 1 .. i \in SUBSET (1 .. n) /\ 1 .. i # {} /\ i - 1 \in 0 .. n
    <3>1. \A x \in 1 .. i : x \in 1 .. n
      OBVIOUS
    <3>2. i \in 1 .. i /\ i - 1 \in 0 .. n
      OBVIOUS
    <3> QED BY <3>1, <3>2
  <2>2. Max(1 .. i) = i
    <3>1. i - 1 \in Nat /\ (i - 1) + 1 = i
      OBVIOUS
    <3>2. (i - 1) + 1 \in 1 .. (i - 1) + 1
      OBVIOUS
    <3> QED BY <3>1, <3>2, MaxOfPrefix
  <2>3. (1 .. i) \ {i} = 1 .. i - 1
    OBVIOUS
  <2>4. it[1 .. i] = FoldStep(op, there, it[1 .. i - 1], q[i])
    BY <1>1, <2>1, <2>2, <2>3
  <2>5. f[i] = it[1 .. i] /\ f[i - 1] = it[1 .. i - 1]
    BY <2>1
  <2> QED BY <2>4, <2>5
<1> HIDE DEF f
<1>4. FoldRun(f, op, there, base, q, n)
  BY <1>2, <1>3 DEF FoldRun
<1> QED BY <1>4 DEF f

\* CRootItem::patch after some hunks, with what they count to the next.
PatchedSoFar(shift, l) == [shift |-> shift, res |-> Done(l)]

Start(l) == PatchedSoFar(0, l)

\* What CRootItem::patch loops over, hunk by hunk.
LEMMA PatchFold ==
  ASSUME NEW l, NEW q, NEW n \in Nat, DOMAIN q = 1 .. n
  PROVE  \E f : FoldRun(f, "patch", {}, Start(l), q, n) /\ patch(l, q) = f[n].res
<1> DEFINE R(it) == [s \in SUBSET DOMAIN q |->
                       IF s = {} THEN Start(l) ELSE ApplyHunk(it[s \ {Max(s)}], q[Max(s)])]
           it == CHOOSE w : w = R(w)
<1>1. PICK w : Folded(w, "patch", {}, Start(l), q, n)
  BY FoldExists
<1>2. w = R(w)
  BY <1>1 DEF Folded, FoldStep
<1>3. it = R(it)
  <2> HIDE DEF R
  <2> QED BY <1>2
<1>4. patch(l, q) = it[1 .. n].res
  BY DEF patch, FoldLeft, MapThenFoldSet, Start, PatchedSoFar
<1> HIDE DEF it
<1>5. Folded(it, "patch", {}, Start(l), q, n)
  BY <1>3 DEF Folded, FoldStep
<1>6. FoldRun([i \in 0 .. n |-> it[1 .. i]], "patch", {}, Start(l), q, n)
  BY <1>5, FoldRuns
<1> QED BY <1>4, <1>6

IdsStart(new) == [shift |-> 0, new |-> new, diff |-> <<>>, crash |-> FALSE]

\* What addIdToPlaylistDiff loops over.
LEMMA IdsFold ==
  ASSUME NEW q, NEW new, NEW n \in Nat, DOMAIN q = 1 .. n
  PROVE  \E f : /\ FoldRun(f, "ids", {}, IdsStart(new), q, n)
                /\ addIdToPlaylistDiff(q, new) = [crash |-> f[n].crash, diff |-> f[n].diff]
<1> DEFINE R(it) == [s \in SUBSET DOMAIN q |->
                       IF s = {} THEN IdsStart(new) ELSE WithItems(it[s \ {Max(s)}], q[Max(s)])]
           it == CHOOSE w : w = R(w)
<1>1. PICK w : Folded(w, "ids", {}, IdsStart(new), q, n)
  BY FoldExists
<1>2. w = R(w)
  BY <1>1 DEF Folded, FoldStep
<1>3. it = R(it)
  <2> HIDE DEF R
  <2> QED BY <1>2
<1>4. addIdToPlaylistDiff(q, new) = [crash |-> it[1 .. n].crash, diff |-> it[1 .. n].diff]
  BY DEF addIdToPlaylistDiff, FoldLeft, MapThenFoldSet, IdsStart
<1> HIDE DEF it
<1>5. Folded(it, "ids", {}, IdsStart(new), q, n)
  BY <1>3 DEF Folded, FoldStep
<1> DEFINE f == [i \in 0 .. n |-> it[1 .. i]]
<1>6. FoldRun(f, "ids", {}, IdsStart(new), q, n)
  BY <1>5, FoldRuns
<1>7. f[n] = it[1 .. n]
  OBVIOUS
<1> HIDE DEF f
<1> QED BY <1>4, <1>6, <1>7

NoneRestored == [pass |-> FALSE, list |-> <<>>]

\* What restoreSessionStateRevs loops over.
LEMMA RestoreFold ==
  ASSUME NEW l, NEW there, NEW n \in Nat, DOMAIN l = 1 .. n
  PROVE  \E f : /\ FoldRun(f, "restore", there, NoneRestored, l, n)
                /\ restoreSessionStateRevs(l, there) = f[n].list
<1> DEFINE R(it) == [s \in SUBSET DOMAIN l |->
                       IF s = {} THEN NoneRestored
                       ELSE RestoreClient(there, it[s \ {Max(s)}], l[Max(s)])]
           it == CHOOSE w : w = R(w)
<1>1. PICK w : Folded(w, "restore", there, NoneRestored, l, n)
  BY FoldExists
<1>2. w = R(w)
  BY <1>1 DEF Folded, FoldStep
<1>3. it = R(it)
  <2> HIDE DEF R
  <2> QED BY <1>2
<1>4. restoreSessionStateRevs(l, there) = it[1 .. n].list
  BY DEF restoreSessionStateRevs, FoldLeft, MapThenFoldSet, NoneRestored
<1> HIDE DEF it
<1>5. Folded(it, "restore", there, NoneRestored, l, n)
  BY <1>3 DEF Folded, FoldStep
<1>6. FoldRun([i \in 0 .. n |-> it[1 .. i]], "restore", there, NoneRestored, l, n)
  BY <1>5, FoldRuns
<1> QED BY <1>4, <1>6

-----------------------------------------------------------------------------
(* Hunks.                                                                  *)

\* A list after rm of its lines behind the line pos are replaced.
Replaced(l, pos, rm, ins) == SubSeq(l, 1, pos) \o ins \o SubSeq(l, pos + rm + 1, Len(l))

IsReplaced(r, l, pos, rm, ins) ==
  /\ Len(r) = Len(l) - rm + Len(ins)
  /\ \A i \in 1 .. Len(l) - rm + Len(ins) :
       r[i] = IF i <= pos THEN l[i]
              ELSE IF i <= pos + Len(ins) THEN ins[i - pos] ELSE l[i - Len(ins) + rm]

IsConcat(S, a, b) ==
  /\ a \o b \in Seq(S) /\ Len(a \o b) = Len(a) + Len(b)
  /\ \A i \in 1 .. Len(a) + Len(b) : (a \o b)[i] = IF i <= Len(a) THEN a[i] ELSE b[i - Len(a)]

LEMMA Concatenated ==
  ASSUME NEW S, NEW a \in Seq(S), NEW b \in Seq(S)
  PROVE  IsConcat(S, a, b)
<1>1. /\ a \o b \in Seq(S)
      /\ Len(a \o b) = Len(a) + Len(b)
      /\ \A i \in 1 .. Len(a) + Len(b) :
           (a \o b)[i] = IF i <= Len(a) THEN a[i] ELSE b[i - Len(a)]
  BY ConcatProperties
<1> QED BY <1>1 DEF IsConcat

LEMMA ReplacedList ==
  ASSUME NEW S, NEW l \in Seq(S), NEW ins \in Seq(S),
         NEW pos \in Nat, NEW rm \in Nat, pos + rm <= Len(l)
  PROVE  /\ Replaced(l, pos, rm, ins) \in Seq(S)
         /\ IsReplaced(Replaced(l, pos, rm, ins), l, pos, rm, ins)
<1> DEFINE a == SubSeq(l, 1, pos)
           b == SubSeq(l, pos + rm + 1, Len(l))
<1>1. Len(l) \in Nat /\ Len(ins) \in Nat /\ \A i \in 1 .. Len(l) : l[i] \in S
  BY LenProperties, ElementOfSeq
<1>2. a \in Seq(S) /\ Len(a) = pos /\ \A i \in 1 .. pos : a[i] = l[i]
  <2>1. \A i \in 1 .. pos : l[i] \in S
    BY <1>1
  <2> QED BY <2>1, SubSeqProperties
<1>3. b \in Seq(S) /\ Len(b) = Len(l) - pos - rm
      /\ \A i \in 1 .. Len(l) - pos - rm : b[i] = l[pos + rm + i]
  <2>1. \A i \in pos + rm + 1 .. Len(l) : l[i] \in S
    BY <1>1
  <2>2. pos + rm + 1 \in Int /\ Len(l) \in Int
    BY <1>1
  <2>3. /\ b \in Seq(S)
        /\ Len(b) = IF pos + rm + 1 <= Len(l) THEN Len(l) - (pos + rm + 1) + 1 ELSE 0
        /\ \A i \in 1 .. Len(l) - (pos + rm + 1) + 1 : b[i] = l[pos + rm + 1 + i - 1]
    BY <2>1, <2>2, SubSeqProperties
  <2> HIDE DEF b
  <2> QED BY <1>1, <2>3
<1> HIDE DEF a, b
<1>4. /\ a \o ins \in Seq(S) /\ Len(a \o ins) = pos + Len(ins)
      /\ \A i \in 1 .. pos + Len(ins) : (a \o ins)[i] = IF i <= pos THEN l[i] ELSE ins[i - pos]
  <2>1. /\ a \o ins \in Seq(S) /\ Len(a \o ins) = Len(a) + Len(ins)
        /\ \A i \in 1 .. Len(a) + Len(ins) :
             (a \o ins)[i] = IF i <= Len(a) THEN a[i] ELSE ins[i - Len(a)]
    <3>1. IsConcat(S, a, ins)
      BY <1>2, Concatenated
    <3> QED BY <3>1 DEF IsConcat
  <2> QED BY <1>1, <1>2, <2>1
<1>5. /\ (a \o ins) \o b \in Seq(S)
      /\ Len((a \o ins) \o b) = pos + Len(ins) + (Len(l) - pos - rm)
      /\ \A i \in 1 .. pos + Len(ins) + (Len(l) - pos - rm) :
           ((a \o ins) \o b)[i] = IF i <= pos + Len(ins) THEN (a \o ins)[i]
                                  ELSE b[i - (pos + Len(ins))]
  <2> DEFINE c == a \o ins
  <2> HIDE DEF c
  <2>1. c \in Seq(S)
    BY <1>4 DEF c
  <2>2. /\ c \o b \in Seq(S) /\ Len(c \o b) = Len(c) + Len(b)
        /\ \A i \in 1 .. Len(c) + Len(b) :
             (c \o b)[i] = IF i <= Len(c) THEN c[i] ELSE b[i - Len(c)]
    <3>1. IsConcat(S, c, b)
      BY <1>3, <2>1, Concatenated
    <3> QED BY <3>1 DEF IsConcat
  <2>3. Len(c) = pos + Len(ins)
    BY <1>4 DEF c
  <2>4. /\ c \o b \in Seq(S)
        /\ Len(c \o b) = pos + Len(ins) + (Len(l) - pos - rm)
        /\ \A i \in 1 .. pos + Len(ins) + (Len(l) - pos - rm) :
             (c \o b)[i] = IF i <= pos + Len(ins) THEN c[i] ELSE b[i - (pos + Len(ins))]
    BY <1>3, <2>2, <2>3
  <2> QED BY <2>4 DEF c
<1>6. Replaced(l, pos, rm, ins) = (a \o ins) \o b
  BY DEF Replaced, a, b
<1>7. ASSUME NEW i \in 1 .. Len(l) - rm + Len(ins)
      PROVE  ((a \o ins) \o b)[i] =
                IF i <= pos THEN l[i]
                ELSE IF i <= pos + Len(ins) THEN ins[i - pos] ELSE l[i - Len(ins) + rm]
  <2>1. i \in 1 .. pos + Len(ins) + (Len(l) - pos - rm)
    BY <1>1
  <2>2. CASE i <= pos + Len(ins)
    BY <1>1, <1>4, <1>5, <2>1, <2>2
  <2>3. CASE ~ i <= pos + Len(ins)
    <3>1. i - (pos + Len(ins)) \in 1 .. Len(l) - pos - rm
      BY <1>1, <2>1, <2>3
    <3>2. b[i - (pos + Len(ins))] = l[pos + rm + (i - (pos + Len(ins)))]
      BY <1>3, <3>1
    <3>3. pos + rm + (i - (pos + Len(ins))) = i - Len(ins) + rm /\ ~ i <= pos
      BY <1>1, <2>3
    <3> QED BY <1>5, <2>1, <2>3, <3>2, <3>3
  <2> QED BY <2>2, <2>3
<1>8. pos + Len(ins) + (Len(l) - pos - rm) = Len(l) - rm + Len(ins)
  BY <1>1
<1> QED BY <1>5, <1>6, <1>7, <1>8 DEF IsReplaced

\* CRootItem::patch does with a hunk inside of the list what it says.
LEMMA HunkApplied ==
  ASSUME NEW S, NEW l \in Seq(S), NEW ins \in Seq(S), NEW shift \in Int,
         NEW at \in Int, NEW by \in Int, NEW rm \in Nat,
         at + shift >= 1, at + shift - 1 + rm <= Len(l), Hunk(at, by, rm, ins) # BadHunk
  PROVE  ApplyHunk(PatchedSoFar(shift, l), Hunk(at, by, rm, ins)) =
           PatchedSoFar(shift + by, Replaced(l, at + shift - 1, rm, ins))
<1> DEFINE pos == at + shift - 1
           m == Replaced(l, pos, rm, <<>>)
           r == Replaced(l, pos, rm, ins)
<1>1. pos \in Nat /\ Len(l) \in Nat /\ Len(ins) \in Nat /\ pos + rm <= Len(l) /\ <<>> \in Seq(S)
      /\ Len(<<>>) = 0
  BY LenProperties, EmptySeq
<1>2. /\ m \in Seq(S) /\ Len(m) = Len(l) - rm
      /\ \A i \in 1 .. Len(l) - rm : m[i] = IF i <= pos THEN l[i] ELSE l[i + rm]
  <2> HIDE DEF pos
  <2>1. m \in Seq(S) /\ IsReplaced(m, l, pos, rm, <<>>)
    BY <1>1, ReplacedList
  <2> HIDE DEF m
  <2>2. Len(m) = Len(l) - rm
    BY <1>1, <2>1 DEF IsReplaced
  <2>3. ASSUME NEW i \in 1 .. Len(l) - rm PROVE m[i] = IF i <= pos THEN l[i] ELSE l[i + rm]
    <3>1. i \in 1 .. Len(l) - rm + Len(<<>>) /\ (i <= pos + Len(<<>>) <=> i <= pos)
          /\ i - Len(<<>>) + rm = i + rm
      BY <1>1
    <3> QED BY <2>1, <3>1 DEF IsReplaced
  <2> QED BY <2>1, <2>2, <2>3
<1>3. /\ r \in Seq(S) /\ Len(r) = Len(l) - rm + Len(ins)
      /\ \A i \in 1 .. Len(l) - rm + Len(ins) :
           r[i] = IF i <= pos THEN l[i]
                  ELSE IF i <= pos + Len(ins) THEN ins[i - pos] ELSE l[i - Len(ins) + rm]
  <2> HIDE DEF pos
  <2>1. r \in Seq(S) /\ IsReplaced(r, l, pos, rm, ins)
    BY <1>1, ReplacedList
  <2> QED BY <2>1 DEF IsReplaced
<1> HIDE DEF pos
<1>4. RemoveLines(l, pos, rm) = Done(m)
  <2>1. CASE rm = 0
    <3>1. m = l
      <4> HIDE DEF m
      <4> QED BY <1>1, <1>2, <2>1, SeqEqual
    <3> QED BY <2>1, <3>1 DEF RemoveLines
  <2>2. CASE rm # 0
    <3>1. SubSeq(l, 1, pos) \o <<>> = SubSeq(l, 1, pos)
      <4>1. \A i \in 1 .. pos : l[i] \in S
        BY <1>1, ElementOfSeq
      <4>2. SubSeq(l, 1, pos) \in Seq(S)
        BY <1>1, <4>1, SubSeqProperties
      <4> QED BY <4>2, ConcatEmptySeq
    <3>2. RemoveLines(l, pos, rm) = Done(SubSeq(l, 1, pos) \o SubSeq(l, pos + rm + 1, Len(l)))
      BY <1>1, <2>2 DEF RemoveLines
    <3> QED BY <3>1, <3>2 DEF Replaced
  <2> QED BY <2>1, <2>2
<1>5. InsertLines(m, pos, ins) = Done(r)
  <2>1. CASE ins = <<>>
    BY <2>1 DEF InsertLines
  <2>2. CASE ins # <<>>
    <3> DEFINE k == Replaced(m, pos, 0, ins)
    <3> HIDE DEF m
    <3>1. InsertLines(m, pos, ins) = Done(k)
      <4>1. pos + 0 + 1 = pos + 1
        BY <1>1
      <4> QED BY <1>1, <1>2, <2>2, <4>1 DEF InsertLines, Replaced
    <3>2. /\ k \in Seq(S) /\ Len(k) = Len(m) - 0 + Len(ins)
          /\ \A i \in 1 .. Len(m) - 0 + Len(ins) :
               k[i] = IF i <= pos THEN m[i]
                      ELSE IF i <= pos + Len(ins) THEN ins[i - pos] ELSE m[i - Len(ins) + 0]
      <4>1. pos \in Nat /\ pos + 0 <= Len(m) /\ m \in Seq(S) /\ 0 \in Nat
        BY <1>1, <1>2
      <4>2. k \in Seq(S) /\ IsReplaced(k, m, pos, 0, ins)
        BY <4>1, ReplacedList
      <4> QED BY <4>2 DEF IsReplaced
    <3> HIDE DEF k, r
    <3>3. Len(k) = Len(r)
      BY <1>1, <1>2, <1>3, <3>2
    <3>4. ASSUME NEW i \in 1 .. Len(k) PROVE k[i] = r[i]
      <4>1. i \in 1 .. Len(l) - rm + Len(ins) /\ i \in 1 .. Len(m) - 0 + Len(ins)
        BY <1>1, <1>2, <3>2
      <4>2. CASE i <= pos
        <5>1. k[i] = m[i] /\ r[i] = l[i]
          BY <1>3, <3>2, <4>1, <4>2
        <5>2. i \in 1 .. Len(l) - rm
          BY <1>1, <4>1, <4>2
        <5> QED BY <1>2, <4>2, <5>1, <5>2
      <4>3. CASE i > pos /\ i <= pos + Len(ins)
        <5>1. ~ i <= pos
          BY <1>1, <4>1, <4>3
        <5> QED BY <1>3, <3>2, <4>1, <4>3, <5>1
      <4>4. CASE i > pos + Len(ins)
        <5>1. ~ i <= pos /\ ~ i <= pos + Len(ins)
          BY <1>1, <4>1, <4>4
        <5>2. k[i] = m[i - Len(ins) + 0] /\ r[i] = l[i - Len(ins) + rm]
          BY <1>3, <3>2, <4>1, <5>1
        <5>3. i - Len(ins) + 0 \in 1 .. Len(l) - rm /\ ~ i - Len(ins) + 0 <= pos
              /\ i - Len(ins) + 0 + rm = i - Len(ins) + rm
          BY <1>1, <1>2, <4>1, <4>4
        <5> QED BY <1>2, <5>2, <5>3
      <4> QED BY <1>1, <4>1, <4>2, <4>3, <4>4
    <3>5. k = r
      BY <1>3, <3>2, <3>3, <3>4, SeqEqual
    <3> QED BY <3>1, <3>5
  <2> QED BY <2>1, <2>2
<1> HIDE DEF m, r
<1>6. at + shift - 1 = pos
  BY DEF pos
<1>7. /\ Hunk(at, by, rm, ins).at = at /\ Hunk(at, by, rm, ins).by = by
      /\ Hunk(at, by, rm, ins).rm = rm /\ Hunk(at, by, rm, ins).ins = ins
  BY DEF Hunk
<1>8. \A x : Done(x).how = "ok" /\ Done(x).list = x
  BY DEF Done
<1> QED BY <1>4, <1>5, <1>6, <1>7, <1>8 DEF ApplyHunk, PatchedSoFar, r

\* Diffs of no, one and two hunks are all there are.
LEMMA PatchNone ==
  ASSUME NEW l
  PROVE  patch(l, <<>>) = Done(l)
<1>1. DOMAIN <<>> = 1 .. 0
  OBVIOUS
<1>2. PICK f : FoldRun(f, "patch", {}, Start(l), <<>>, 0) /\ patch(l, <<>>) = f[0].res
  BY <1>1, PatchFold
<1> QED BY <1>2 DEF Start, PatchedSoFar, FoldRun, FoldStep

LEMMA PatchOne ==
  ASSUME NEW l, NEW h
  PROVE  patch(l, <<h>>) = ApplyHunk(Start(l), h).res
<1> DEFINE q == <<h>>
<1>1. 1 \in Nat /\ DOMAIN q = 1 .. 1 /\ q[1] = h
  OBVIOUS
<1> HIDE DEF q
<1>2. PICK f : FoldRun(f, "patch", {}, Start(l), q, 1) /\ patch(l, q) = f[1].res
  BY <1>1, PatchFold
<1>3. f[1] = ApplyHunk(f[1 - 1], q[1])
  BY <1>2 DEF FoldRun, FoldStep
<1> QED BY <1>1, <1>2, <1>3 DEF q, FoldRun, FoldStep

LEMMA PatchTwo ==
  ASSUME NEW l, NEW g, NEW h
  PROVE  patch(l, <<g, h>>) = ApplyHunk(ApplyHunk(Start(l), g), h).res
<1> DEFINE q == <<g, h>>
<1>1. 2 \in Nat /\ DOMAIN q = 1 .. 2 /\ q[1] = g /\ q[2] = h
  OBVIOUS
<1> HIDE DEF q
<1>2. PICK f : FoldRun(f, "patch", {}, Start(l), q, 2) /\ patch(l, q) = f[2].res
  BY <1>1, PatchFold
<1>3. f[1] = ApplyHunk(f[1 - 1], q[1]) /\ f[2] = ApplyHunk(f[2 - 1], q[2])
  BY <1>2 DEF FoldRun, FoldStep
<1>4. 1 - 1 = 0 /\ 2 - 1 = 1
  OBVIOUS
<1> QED BY <1>1, <1>2, <1>3, <1>4 DEF q, FoldRun, FoldStep

\* A diff of one hunk inside of the list.
LEMMA PatchReplaces ==
  ASSUME NEW S, NEW l \in Seq(S), NEW ins \in Seq(S), NEW pos \in Nat,
         NEW by \in Int, NEW rm \in Nat, pos + rm <= Len(l)
  PROVE  patch(l, <<Hunk(pos + 1, by, rm, ins)>>) = Done(Replaced(l, pos, rm, ins))
<1>1. Hunk(pos + 1, by, rm, ins) # BadHunk
  BY DEF Hunk, BadHunk
<1>2. pos + 1 \in Int /\ 0 \in Int /\ (pos + 1) + 0 >= 1 /\ (pos + 1) + 0 - 1 + rm <= Len(l)
      /\ (pos + 1) + 0 - 1 = pos
  BY LenProperties
<1>3. ApplyHunk(PatchedSoFar(0, l), Hunk(pos + 1, by, rm, ins)) =
        PatchedSoFar(0 + by, Replaced(l, (pos + 1) + 0 - 1, rm, ins))
  BY <1>1, <1>2, HunkApplied
<1> QED BY <1>2, <1>3, PatchOne DEF Start, PatchedSoFar

\* CCategoryItem::diff and CRootItem::patch are inverse to each other.
LEMMA DiffLeads ==
  ASSUME NEW S, NEW a \in Seq(S), NEW b \in Seq(S)
  PROVE  patch(a, LineDiff(a, b)) = Done(b)
<1> DEFINE P == {i \in 0 .. Len(a) : SameEnds(a, b, i, 0)}
           p == Max(P)
           E == {i \in 0 .. Len(a) - p : SameEnds(a, b, p, i)}
           e == Max(E)
           rm == Len(a) - p - e
           ins == SubSeq(b, p + 1, Len(b) - e)
<1>1. CASE a = b
  BY <1>1, PatchNone DEF LineDiff
<1>2. CASE a # b
  <2>1. Len(a) \in Nat /\ Len(b) \in Nat
    BY LenProperties
  <2>2. p \in P
    <3>1. 0 \in P
      BY <2>1 DEF SameEnds
    <3>2. P \in SUBSET Nat /\ \A i \in P : i <= Len(a)
      BY <2>1
    <3> HIDE DEF P
    <3> QED BY <2>1, <3>1, <3>2, MaxExists
  <2>3. p \in 0 .. Len(a) /\ SameEnds(a, b, p, 0)
    BY <2>2
  <2> HIDE DEF p
  <2>4. e \in E
    <3>1. 0 \in E
      BY <2>1, <2>3
    <3>2. E \in SUBSET Nat /\ \A i \in E : i <= Len(a)
      BY <2>1, <2>3
    <3> HIDE DEF E
    <3> QED BY <2>1, <3>1, <3>2, MaxExists
  <2>5. e \in 0 .. Len(a) - p /\ SameEnds(a, b, p, e)
    BY <2>4
  <2> HIDE DEF e
  <2>6. /\ p \in Nat /\ e \in Nat /\ rm \in Nat /\ p + rm = Len(a) - e
        /\ p + e <= Len(a) /\ p + e <= Len(b)
        /\ \A i \in 1 .. p : a[i] = b[i]
        /\ \A i \in 0 .. e - 1 : a[Len(a) - i] = b[Len(b) - i]
    BY <2>1, <2>3, <2>5 DEF SameEnds
  <2>7. /\ ins \in Seq(S) /\ Len(ins) = Len(b) - e - p
        /\ \A i \in 1 .. Len(b) - e - p : ins[i] = b[p + i]
    <3>1. \A i \in p + 1 .. Len(b) - e : b[i] \in S
      BY <2>1, <2>6, ElementOfSeq
    <3>2. p + 1 \in Int /\ Len(b) - e \in Int
      BY <2>1, <2>6
    <3>3. /\ ins \in Seq(S)
          /\ Len(ins) = IF p + 1 <= Len(b) - e THEN (Len(b) - e) - (p + 1) + 1 ELSE 0
          /\ \A i \in 1 .. (Len(b) - e) - (p + 1) + 1 : ins[i] = b[p + 1 + i - 1]
      BY <3>1, <3>2, SubSeqProperties
    <3> HIDE DEF ins
    <3> QED BY <2>1, <2>6, <3>3
  <2>8. LineDiff(a, b) = <<Hunk(p + 1, Len(b) - Len(a), rm, ins)>>
    BY <1>2 DEF LineDiff, p, e
  <2> HIDE DEF ins, rm
  <2> DEFINE r == Replaced(a, p, rm, ins)
  <2>9. patch(a, LineDiff(a, b)) = Done(r)
    <3>1. Len(b) - Len(a) \in Int /\ p + rm <= Len(a)
      BY <2>1, <2>6
    <3> QED BY <2>6, <2>7, <2>8, <3>1, PatchReplaces
  <2>10. r \in Seq(S) /\ IsReplaced(r, a, p, rm, ins)
    <3>1. p + rm <= Len(a)
      BY <2>1, <2>6
    <3> QED BY <2>6, <2>7, <3>1, ReplacedList
  <2> HIDE DEF r
  <2>11. Len(r) = Len(b) /\ Len(a) - rm + Len(ins) = Len(b)
    <3>1. Len(r) = Len(a) - rm + Len(ins)
      BY <2>10 DEF IsReplaced
    <3>2. Len(ins) = Len(b) - e - p /\ p + rm = Len(a) - e
      BY <2>6, <2>7
    <3>3. Len(a) - rm + (Len(b) - e - p) = Len(b)
      BY <2>1, <2>6
    <3> QED BY <3>1, <3>2, <3>3
  <2>12. ASSUME NEW i \in 1 .. Len(b) PROVE r[i] = b[i]
    <3>1. r[i] = IF i <= p THEN a[i]
                 ELSE IF i <= p + Len(ins) THEN ins[i - p] ELSE a[i - Len(ins) + rm]
      BY <2>10, <2>11 DEF IsReplaced
    <3>2. CASE i <= p
      BY <2>1, <2>6, <3>1, <3>2
    <3>3. CASE i > p /\ i <= p + Len(ins)
      <4>1. i - p \in 1 .. Len(b) - e - p /\ p + (i - p) = i /\ ~ i <= p
        BY <2>1, <2>6, <2>7, <3>3
      <4> QED BY <2>7, <3>1, <3>3, <4>1
    <3>4. CASE i > p + Len(ins)
      <4> DEFINE j == Len(b) - i
      <4>1. j \in 0 .. e - 1 /\ Len(a) - j = i - Len(ins) + rm /\ Len(b) - j = i
            /\ ~ i <= p /\ ~ i <= p + Len(ins)
        <5>1. i \in Nat /\ i <= Len(b)
          BY <2>1
        <5>2. Len(ins) = Len(b) - e - p /\ p + rm = Len(a) - e /\ p \in Nat /\ e \in Nat
              /\ rm \in Nat
          BY <2>6, <2>7
        <5> QED BY <2>1, <3>4, <5>1, <5>2
      <4> HIDE DEF j
      <4>2. a[Len(a) - j] = b[Len(b) - j]
        BY <2>6, <4>1
      <4> QED BY <3>1, <4>1, <4>2
    <3> QED BY <2>1, <2>6, <2>7, <3>2, <3>3, <3>4
  <2>13. r = b
    BY <2>10, <2>11, <2>12, SeqEqual
  <2> QED BY <2>9, <2>13
<1> QED BY <1>1, <1>2

\* One item replaced, or removed.
LEMMA ItemReplaced ==
  ASSUME NEW S, NEW l \in Seq(S), NEW i \in DOMAIN l, NEW x \in S
  PROVE  /\ [l EXCEPT ![i] = x] \in Seq(S) /\ DOMAIN [l EXCEPT ![i] = x] = DOMAIN l
         /\ patch(l, <<Hunk(i, 0, 1, <<x>>)>>) = Done([l EXCEPT ![i] = x])
<1> DEFINE m == [l EXCEPT ![i] = x]
           r == Replaced(l, i - 1, 1, <<x>>)
<1>1. /\ Len(l) \in Nat /\ DOMAIN l = 1 .. Len(l) /\ i \in 1 .. Len(l)
      /\ <<x>> \in Seq(S) /\ Len(<<x>>) = 1 /\ <<x>>[1] = x
  BY LenProperties
<1>2. /\ m \in Seq(S) /\ Len(m) = Len(l)
      /\ \A j \in 1 .. Len(l) : m[j] = IF j = i THEN x ELSE l[j]
  BY <1>1, ExceptSeq
<1>3. DOMAIN m = DOMAIN l
  OBVIOUS
<1> HIDE DEF m
<1>4. i - 1 \in Nat /\ (i - 1) + 1 <= Len(l) /\ (i - 1) + 1 = i /\ 0 \in Int /\ 1 \in Nat
  BY <1>1
<1>5. r \in Seq(S) /\ IsReplaced(r, l, i - 1, 1, <<x>>)
  BY <1>1, <1>4, ReplacedList
<1>6. patch(l, <<Hunk((i - 1) + 1, 0, 1, <<x>>)>>) = Done(r)
  BY <1>1, <1>4, PatchReplaces
<1> HIDE DEF r
<1>7. Len(r) = Len(m)
  BY <1>1, <1>2, <1>5 DEF IsReplaced
<1>8. ASSUME NEW j \in 1 .. Len(r) PROVE r[j] = m[j]
  <2>1. j \in 1 .. Len(l) /\ j \in 1 .. Len(l) - 1 + Len(<<x>>)
    BY <1>1, <1>2, <1>7
  <2>2. r[j] = IF j <= i - 1 THEN l[j]
               ELSE IF j <= i - 1 + 1 THEN <<x>>[j - (i - 1)] ELSE l[j - 1 + 1]
    BY <1>1, <1>5, <2>1 DEF IsReplaced
  <2>3. CASE j = i
    <3>1. j - (i - 1) = 1 /\ ~ j <= i - 1 /\ j <= i - 1 + 1
      BY <1>1, <2>3
    <3> QED BY <1>1, <1>2, <2>1, <2>2, <2>3, <3>1
  <2>4. CASE j < i
    <3>1. j <= i - 1 /\ j # i
      BY <1>1, <2>4
    <3> QED BY <1>2, <2>1, <2>2, <3>1
  <2>5. CASE j > i
    <3>1. ~ j <= i - 1 /\ ~ j <= i - 1 + 1 /\ j # i /\ j - 1 + 1 = j
      BY <1>1, <2>1, <2>5
    <3> QED BY <1>2, <2>1, <2>2, <3>1
  <2> QED BY <1>1, <2>1, <2>3, <2>4, <2>5
<1>9. r = m
  BY <1>2, <1>5, <1>7, <1>8, SeqEqual
<1> QED BY <1>2, <1>3, <1>4, <1>6, <1>9 DEF m

Without(l, i) == SubSeq(l, 1, i - 1) \o SubSeq(l, i + 1, Len(l))

LEMMA ItemRemoved ==
  ASSUME NEW S, NEW l \in Seq(S), NEW i \in DOMAIN l
  PROVE  /\ Without(l, i) \in Seq(S) /\ Len(Without(l, i)) = Len(l) - 1
         /\ \A j \in 1 .. Len(l) - 1 : Without(l, i)[j] = IF j < i THEN l[j] ELSE l[j + 1]
         /\ patch(l, <<Hunk(i, -1, 1, <<>>)>>) = Done(Without(l, i))
<1> DEFINE r == Replaced(l, i - 1, 1, <<>>)
<1>1. /\ Len(l) \in Nat /\ DOMAIN l = 1 .. Len(l) /\ i \in 1 .. Len(l)
      /\ <<>> \in Seq(S) /\ Len(<<>>) = 0
  BY LenProperties, EmptySeq
<1>2. i - 1 \in Nat /\ (i - 1) + 1 <= Len(l) /\ (i - 1) + 1 = i /\ -1 \in Int /\ 1 \in Nat
      /\ (i - 1) + 1 + 1 = i + 1
  BY <1>1
<1>3. r \in Seq(S) /\ IsReplaced(r, l, i - 1, 1, <<>>)
  BY <1>1, <1>2, ReplacedList
<1>4. patch(l, <<Hunk((i - 1) + 1, -1, 1, <<>>)>>) = Done(r)
  BY <1>1, <1>2, PatchReplaces
<1>5. r = Without(l, i)
  <2>1. \A j \in 1 .. i - 1 : l[j] \in S
    BY <1>1, ElementOfSeq
  <2>2. SubSeq(l, 1, i - 1) \in Seq(S)
    BY <1>2, <2>1, SubSeqProperties
  <2>3. SubSeq(l, 1, i - 1) \o <<>> = SubSeq(l, 1, i - 1)
    BY <2>2, ConcatEmptySeq
  <2> QED BY <1>2, <2>3 DEF Replaced, Without
<1> HIDE DEF r
<1>6. Len(r) = Len(l) - 1
  BY <1>1, <1>3 DEF IsReplaced
<1>7. ASSUME NEW j \in 1 .. Len(l) - 1 PROVE r[j] = IF j < i THEN l[j] ELSE l[j + 1]
  <2>1. /\ j \in 1 .. Len(l) - 1 + Len(<<>>) /\ (j <= i - 1 <=> j < i)
        /\ i - 1 + Len(<<>>) = i - 1 /\ j - Len(<<>>) + 1 = j + 1
    BY <1>1
  <2> QED BY <1>3, <2>1 DEF IsReplaced
<1> QED BY <1>2, <1>3, <1>4, <1>5, <1>6, <1>7

\* The lists of render clients are the sorted ones.
LEMMA StateLists ==
  ASSUME NEW l
  PROVE  l \in ListsOf("state") <=> l \in Seq(Render) /\ Sorted(l)
<1>1. Cardinality(Names) \in Nat
  BY EditsAssumption, FS_CardinalityType
<1>2. l \in ListsOf("state") <=> l \in BoundedSeq(Render, Cardinality(Names)) /\ Sorted(l)
  BY DEF ListsOf
<1>3. l \in ListsOf("state") <=> l \in Seq(Render) /\ Len(l) <= Cardinality(Names) /\ Sorted(l)
  BY <1>1, <1>2, BoundedLists
<1>4. ASSUME l \in Seq(Render), Sorted(l)
      PROVE  Len(l) <= Cardinality(Names)
  <2> DEFINE f == [i \in 1 .. Len(l) |-> l[i].name]
  <2>1. Len(l) \in Nat /\ DOMAIN l = 1 .. Len(l) /\ \A i \in 1 .. Len(l) : l[i] \in Render
    BY <1>4, LenProperties, ElementOfSeq
  <2>2. \A i \in 1 .. Len(l) : l[i].name \in Names
    BY <2>1 DEF Render
  <2>3. \A i, j \in 1 .. Len(l) : i < j => l[i].name < l[j].name
    BY <1>4, <2>1 DEF Sorted
  <2>4. \A i, j \in 1 .. Len(l) : f[i] = f[j] => i = j
    <3> SUFFICES ASSUME NEW i \in 1 .. Len(l), NEW j \in 1 .. Len(l), l[i].name = l[j].name, i # j
                 PROVE  FALSE
      OBVIOUS
    <3>1. l[i].name \in Nat /\ l[j].name \in Nat
      BY <2>2, EditsAssumption
    <3>2. i < j \/ j < i
      BY <2>1
    <3> QED BY <2>3, <3>1, <3>2
  <2>5. f \in Injection(1 .. Len(l), Names)
    BY <2>2, <2>4 DEF Injection, IsInjective
  <2>6. Cardinality(1 .. Len(l)) <= Cardinality(Names)
    BY <2>5, EditsAssumption, FS_Injection
  <2>7. Cardinality(1 .. Len(l)) = IF 1 > Len(l) THEN 0 ELSE Len(l) - 1 + 1
    BY <2>1, FS_Interval
  <2> QED BY <2>1, <2>6, <2>7
<1> QED BY <1>3, <1>4

\* The others are bounded by the number of songs.
LEMMA SongLists ==
  ASSUME NEW l, NEW k, k # "state"
  PROVE  l \in ListsOf(k) <=> l \in Seq(Songs) /\ Len(l) <= MaxSongs
BY EditsAssumption, BoundedLists DEF ListsOf

\* Where a new client is put: behind those with smaller names.
Before(l, name) == Cardinality({i \in DOMAIN l : l[i].name < name})

LEMMA Place ==
  ASSUME NEW l \in ListsOf("state"), NEW name \in Names
  PROVE  /\ Before(l, name) \in Nat /\ Before(l, name) <= Len(l)
         /\ \A i \in DOMAIN l : l[i].name < name <=> i <= Before(l, name)
<1> DEFINE C == {i \in DOMAIN l : l[i].name < name}
<1>1. l \in Seq(Render) /\ Sorted(l)
  BY StateLists
<1>2. Len(l) \in Nat /\ DOMAIN l = 1 .. Len(l)
  BY <1>1, LenProperties
<1>3. \A i \in 1 .. Len(l) : l[i].name \in Nat
  <2>1. \A i \in 1 .. Len(l) : l[i] \in Render
    BY <1>1, ElementOfSeq
  <2> QED BY <2>1, EditsAssumption DEF Render
<1>4. name \in Nat
  BY EditsAssumption
<1>5. CASE C = {}
  <2>1. Cardinality(C) = 0
    BY <1>5, FS_EmptySet
  <2>2. \A i \in DOMAIN l : ~ l[i].name < name /\ ~ i <= 0
    BY <1>2, <1>5
  <2>3. Before(l, name) = 0
    BY <2>1 DEF Before
  <2> QED BY <1>2, <2>2, <2>3
<1>6. CASE C # {}
  <2> DEFINE m == Max(C)
  <2>1. C \in SUBSET Nat /\ \A i \in C : i <= Len(l)
    BY <1>2
  <2>2. m \in C /\ \A i \in C : i <= m
    <3> HIDE DEF C
    <3> QED BY <1>2, <1>6, <2>1, MaxExists
  <2> HIDE DEF m
  <2>3. m \in 1 .. Len(l) /\ l[m].name < name
    BY <1>2, <2>2
  <2>4. ASSUME NEW i \in 1 .. Len(l) PROVE l[i].name < name <=> i <= m
    <3>1. CASE i < m
      <4>1. l[i].name < l[m].name
        BY <1>1, <1>2, <2>3, <3>1 DEF Sorted
      <4>2. l[i].name \in Nat /\ l[m].name \in Nat
        BY <1>3, <2>3
      <4> QED BY <1>4, <2>3, <3>1, <4>1, <4>2
    <3>2. CASE i = m
      BY <2>3, <3>2
    <3>3. CASE i > m
      <4>1. i \notin C /\ ~ i <= m
        BY <2>2, <2>3, <3>3
      <4> QED BY <1>2, <4>1
    <3> QED BY <2>3, <3>1, <3>2, <3>3
  <2>5. C = 1 .. m
    <3>1. \A i \in C : i \in 1 .. m
      BY <1>2, <2>2, <2>3
    <3>2. \A i \in 1 .. m : i \in C
      <4> SUFFICES ASSUME NEW i \in 1 .. m PROVE i \in C
        OBVIOUS
      <4>1. i \in 1 .. Len(l) /\ i <= m
        BY <2>3
      <4> QED BY <1>2, <2>4, <4>1
    <3> HIDE DEF C
    <3> QED BY <3>1, <3>2
  <2>6. Cardinality(C) = m
    <3>1. Cardinality(1 .. m) = IF 1 > m THEN 0 ELSE m - 1 + 1
      BY <2>3, FS_Interval
    <3> HIDE DEF C
    <3> QED BY <2>3, <2>5, <3>1
  <2>7. Before(l, name) = m
    BY <2>6 DEF Before
  <2> QED BY <1>2, <2>3, <2>4, <2>7
<1> QED BY <1>5, <1>6

-----------------------------------------------------------------------------
(* The daemon's edits.                                                     *)

\* An edit of the daemon makes a list, and its diff leads there.
EditWorks(k, l, e) ==
  e.list \in ListsOf(k) /\ (patch(l, e.diff).how = "ok" => patch(l, e.diff).list = e.list)

LEMMA DoneWorks ==
  ASSUME NEW k, NEW l, NEW m \in ListsOf(k), NEW d, patch(l, d) = Done(m), NEW e \in Made(m, d)
  PROVE  EditWorks(k, l, e)
BY DEF EditWorks, Made, Done

\* A client that is enabled, disabled or owned keeps its place.
LEMMA RenderKept ==
  ASSUME NEW l \in ListsOf("state"), NEW i \in DOMAIN l, NEW x \in Render, x.name = l[i].name
  PROVE  [l EXCEPT ![i] = x] \in ListsOf("state")
<1> DEFINE m == [l EXCEPT ![i] = x]
<1>1. l \in Seq(Render) /\ Sorted(l)
  BY StateLists
<1>2. m \in Seq(Render) /\ DOMAIN m = DOMAIN l
  BY <1>1, ItemReplaced
<1>3. \A j \in DOMAIN l : m[j].name = l[j].name
  OBVIOUS
<1> HIDE DEF m
<1>4. Sorted(m)
  BY <1>1, <1>2, <1>3 DEF Sorted
<1>5. m \in ListsOf("state")
  BY <1>2, <1>4, StateLists
<1> QED BY <1>5 DEF m

\* CStreamClientHdl::addClientStateDiff.
LEMMA AddWorks ==
  ASSUME NEW l \in ListsOf("state"), NEW name \in Names, NEW e \in addClientStateDiff(l, name)
  PROVE  EditWorks("state", l, e)
<1> DEFINE known == {i \in DOMAIN l : l[i].name = name}
           before == Before(l, name)
           new == [name |-> name, on |-> TRUE, own |-> \E i \in known : l[i].own]
           r == Replaced(l, before, 0, <<new>>)
<1>1. l \in Seq(Render) /\ Sorted(l)
  BY StateLists
<1>2. Len(l) \in Nat /\ DOMAIN l = 1 .. Len(l) /\ \A i \in 1 .. Len(l) : l[i] \in Render
  BY <1>1, LenProperties, ElementOfSeq
<1>3. new \in Render /\ new.name = name
  BY DEF Render
<1>4. <<new>> \in Seq(Render) /\ Len(<<new>>) = 1 /\ <<new>>[1] = new
  BY <1>3
<1>5. CASE known = {}
  <2>1. e \in Made(SubSeq(l, 1, before) \o <<new>> \o SubSeq(l, before + 1, Len(l)),
                   <<Hunk(before + 1, 1, 0, <<new>>)>>)
        \/ (l = <<>> /\ e \in Made(<<new>>, <<BadHunk>>))
    <3>1. addClientStateDiff(l, name) =
            IF known = {}
            THEN Made(SubSeq(l, 1, before) \o <<new>> \o SubSeq(l, before + 1, Len(l)),
                      <<Hunk(before + 1, 1, 0, <<new>>)>>)
                 \cup (IF l = <<>> THEN Made(<<new>>, <<BadHunk>>) ELSE {})
            ELSE UNION {IF l[i] = new THEN {}
                        ELSE Made([l EXCEPT ![i] = new], <<Hunk(i, 0, 1, <<new>>)>>) : i \in known}
      BY DEF addClientStateDiff, Before
    <3> HIDE DEF known, new, before
    <3> QED BY <1>5, <3>1
  <2> HIDE DEF new
  <2>2. /\ before \in Nat /\ before <= Len(l)
        /\ \A i \in DOMAIN l : l[i].name < name <=> i <= before
    BY Place
  <2>3. CASE e \in Made(SubSeq(l, 1, before) \o <<new>> \o SubSeq(l, before + 1, Len(l)),
                        <<Hunk(before + 1, 1, 0, <<new>>)>>)
    <3> HIDE DEF before
    <3>1. SubSeq(l, 1, before) \o <<new>> \o SubSeq(l, before + 1, Len(l)) = r
      <4>1. before + 0 + 1 = before + 1
        BY <2>2
      <4> QED BY <4>1 DEF Replaced
    <3>2. before + 0 <= Len(l) /\ 0 \in Nat /\ 1 \in Int
      BY <1>2, <2>2
    <3>3. patch(l, <<Hunk(before + 1, 1, 0, <<new>>)>>) = Done(r)
      BY <1>1, <1>4, <2>2, <3>2, PatchReplaces
    <3>4. r \in Seq(Render) /\ IsReplaced(r, l, before, 0, <<new>>)
      BY <1>1, <1>4, <2>2, <3>2, ReplacedList
    <3> HIDE DEF r
    <3>5. DOMAIN r = 1 .. Len(l) + 1
      <4>1. Len(r) = Len(l) - 0 + Len(<<new>>)
        BY <3>4 DEF IsReplaced
      <4>2. Len(r) = Len(l) + 1
        BY <1>2, <1>4, <4>1
      <4> QED BY <3>4, <4>2, LenProperties
    <3>6. ASSUME NEW i \in 1 .. Len(l) + 1
          PROVE  /\ i <= before => i \in 1 .. Len(l) /\ r[i] = l[i]
                 /\ i = before + 1 => r[i] = new
                 /\ i > before + 1 => i - 1 \in 1 .. Len(l) /\ r[i] = l[i - 1]
      <4>1. i \in 1 .. Len(l) - 0 + Len(<<new>>)
        BY <1>2, <1>4
      <4>2. r[i] = IF i <= before THEN l[i]
                   ELSE IF i <= before + 1 THEN <<new>>[i - before] ELSE l[i - 1 + 0]
        BY <1>4, <3>4, <4>1 DEF IsReplaced
      <4>3. CASE i <= before
        BY <1>2, <2>2, <4>2, <4>3
      <4>4. CASE i = before + 1
        <5>1. i - before = 1 /\ ~ i <= before /\ i <= before + 1 /\ ~ i > before + 1
          BY <2>2, <4>4
        <5> QED BY <1>4, <4>2, <4>4, <5>1
      <4>5. CASE i > before + 1
        <5>1. ~ i <= before /\ ~ i <= before + 1 /\ i - 1 + 0 = i - 1 /\ i # before + 1
              /\ i - 1 \in 1 .. Len(l)
          BY <1>2, <2>2, <4>5
        <5> QED BY <4>2, <4>5, <5>1
      <4> QED BY <1>2, <2>2, <4>3, <4>4, <4>5
    <3>7. ASSUME NEW i \in 1 .. Len(l) PROVE l[i].name \in Nat /\ name \in Nat /\ l[i].name # name
      <4>1. l[i] \in Render
        BY <1>2
      <4> QED BY <1>2, <1>5, <4>1, EditsAssumption DEF Render
    <3>8. Sorted(r)
      <4> SUFFICES ASSUME NEW i \in 1 .. Len(l) + 1, NEW j \in 1 .. Len(l) + 1, i < j
                   PROVE  r[i].name < r[j].name
        BY <3>5 DEF Sorted
      <4>1. \A x, y \in 1 .. Len(l) : x < y => l[x].name < l[y].name
        BY <1>1, <1>2 DEF Sorted
      <4>2. \A x \in 1 .. Len(l) : (x <= before => l[x].name < name)
                                   /\ (x > before => name < l[x].name)
        <5> SUFFICES ASSUME NEW x \in 1 .. Len(l)
                     PROVE  (x <= before => l[x].name < name) /\ (x > before => name < l[x].name)
          OBVIOUS
        <5>1. l[x].name < name <=> x <= before
          BY <1>2, <2>2
        <5>2. l[x].name \in Nat /\ name \in Nat /\ l[x].name # name
          BY <3>7
        <5>3. x > before => ~ x <= before
          BY <2>2
        <5> QED BY <5>1, <5>2, <5>3
      <4>3. CASE j <= before
        <5>1. i <= before
          BY <2>2, <4>3
        <5> QED BY <3>6, <4>1, <4>3, <5>1
      <4>4. CASE j = before + 1
        <5>1. i <= before
          BY <2>2, <4>4
        <5>2. r[i] = l[i] /\ i \in 1 .. Len(l) /\ r[j].name = name
          BY <1>3, <3>6, <4>4, <5>1
        <5> QED BY <4>2, <5>1, <5>2
      <4>5. CASE j > before + 1
        <5>1. j - 1 \in 1 .. Len(l) /\ r[j] = l[j - 1]
          BY <3>6, <4>5
        <5>2. CASE i <= before
          <6>1. i \in 1 .. Len(l) /\ r[i] = l[i]
            BY <3>6, <5>2
          <6>2. i < j - 1
            BY <2>2, <4>5, <5>2
          <6> QED BY <4>1, <5>1, <6>1, <6>2
        <5>3. CASE i = before + 1
          <6>1. r[i].name = name
            BY <1>3, <3>6, <5>3
          <6>2. j - 1 > before
            BY <2>2, <4>5
          <6> QED BY <4>2, <5>1, <6>1, <6>2
        <5>4. CASE i > before + 1
          <6>1. i - 1 \in 1 .. Len(l) /\ r[i] = l[i - 1]
            BY <3>6, <5>4
          <6>2. i - 1 < j - 1
            OBVIOUS
          <6> QED BY <4>1, <5>1, <6>1, <6>2
        <5> QED BY <2>2, <5>2, <5>3, <5>4
      <4> QED BY <2>2, <4>3, <4>4, <4>5
    <3>9. r \in ListsOf("state")
      BY <3>4, <3>8, StateLists
    <3> QED BY <2>3, <3>1, <3>3, <3>9, DoneWorks
  <2>4. CASE l = <<>> /\ e \in Made(<<new>>, <<BadHunk>>)
    <3>1. e.list = <<new>> /\ e.diff = <<BadHunk>>
      BY <2>4 DEF Made
    <3>2. patch(l, <<BadHunk>>).how # "ok"
      <4>1. Start(l).res.how = "ok" /\ Start(l).res.list = l
        BY DEF Start, PatchedSoFar, Done
      <4>2. ApplyHunk(Start(l), BadHunk).res = Thrown(l)
        BY <4>1 DEF ApplyHunk
      <4> QED BY <4>2, PatchOne DEF Thrown
    <3>3. Sorted(<<new>>)
      <4>1. DOMAIN <<new>> = {1}
        OBVIOUS
      <4> QED BY <4>1 DEF Sorted
    <3>4. <<new>> \in ListsOf("state")
      BY <1>4, <3>3, StateLists
    <3> QED BY <3>1, <3>2, <3>4 DEF EditWorks
  <2> QED BY <2>1, <2>3, <2>4
<1>6. CASE known # {}
  <2>1. PICK i \in known : e \in IF l[i] = new THEN {}
                                 ELSE Made([l EXCEPT ![i] = new], <<Hunk(i, 0, 1, <<new>>)>>)
    BY <1>6 DEF addClientStateDiff
  <2> HIDE DEF new
  <2>2. i \in DOMAIN l /\ new.name = l[i].name
        /\ e \in Made([l EXCEPT ![i] = new], <<Hunk(i, 0, 1, <<new>>)>>)
    BY <1>3, <2>1
  <2>3. [l EXCEPT ![i] = new] \in ListsOf("state")
    BY <1>3, <2>2, RenderKept
  <2>4. patch(l, <<Hunk(i, 0, 1, <<new>>)>>) = Done([l EXCEPT ![i] = new])
    BY <1>1, <1>3, <2>2, ItemReplaced
  <2> QED BY <2>2, <2>3, <2>4, DoneWorks
<1> QED BY <1>5, <1>6

\* CStreamClientHdl::rmClientStateDiff.
LEMMA RemoveWorks ==
  ASSUME NEW l \in ListsOf("state"), NEW name \in Names, NEW e \in rmClientStateDiff(l, name)
  PROVE  EditWorks("state", l, e)
<1>1. l \in Seq(Render) /\ Sorted(l)
  BY StateLists
<1>2. Len(l) \in Nat /\ DOMAIN l = 1 .. Len(l) /\ \A i \in 1 .. Len(l) : l[i] \in Render
  BY <1>1, LenProperties, ElementOfSeq
<1>3. PICK i \in DOMAIN l :
        \/ \E off : /\ off = [l[i] EXCEPT !.on = FALSE]
                    /\ e \in Made([l EXCEPT ![i] = off], <<Hunk(i, 0, 1, <<off>>)>>)
        \/ e \in Made(Without(l, i), <<Hunk(i, -1, 1, <<>>)>>)
  <2>1. PICK i \in {j \in DOMAIN l : l[j].name = name} :
          e \in IF l[i].own /\ ~l[i].on THEN {}
                ELSE IF l[i].own
                THEN LET off == [l[i] EXCEPT !.on = FALSE]
                     IN Made([l EXCEPT ![i] = off], <<Hunk(i, 0, 1, <<off>>)>>)
                ELSE Made(SubSeq(l, 1, i - 1) \o SubSeq(l, i + 1, Len(l)), <<Hunk(i, -1, 1, <<>>)>>)
    BY DEF rmClientStateDiff
  <2>2. \/ LET off == [l[i] EXCEPT !.on = FALSE]
           IN e \in Made([l EXCEPT ![i] = off], <<Hunk(i, 0, 1, <<off>>)>>)
        \/ e \in Made(Without(l, i), <<Hunk(i, -1, 1, <<>>)>>)
    BY <2>1 DEF Without
  <2> QED BY <2>1, <2>2
<1>4. ASSUME NEW off, off = [l[i] EXCEPT !.on = FALSE],
             e \in Made([l EXCEPT ![i] = off], <<Hunk(i, 0, 1, <<off>>)>>)
      PROVE  EditWorks("state", l, e)
  <2>1. l[i] \in Render
    BY <1>2
  <2>2. off \in Render /\ off.name = l[i].name
    BY <1>4, <2>1 DEF Render
  <2>3. [l EXCEPT ![i] = off] \in ListsOf("state")
    BY <2>2, RenderKept
  <2>4. patch(l, <<Hunk(i, 0, 1, <<off>>)>>) = Done([l EXCEPT ![i] = off])
    BY <1>1, <2>2, ItemReplaced
  <2> QED BY <1>4, <2>3, <2>4, DoneWorks
<1>5. CASE e \in Made(Without(l, i), <<Hunk(i, -1, 1, <<>>)>>)
  <2> DEFINE r == Without(l, i)
  <2>1. /\ r \in Seq(Render) /\ Len(r) = Len(l) - 1
        /\ \A j \in 1 .. Len(l) - 1 : r[j] = IF j < i THEN l[j] ELSE l[j + 1]
        /\ patch(l, <<Hunk(i, -1, 1, <<>>)>>) = Done(r)
    BY <1>1, ItemRemoved
  <2> HIDE DEF r
  <2>2. DOMAIN r = 1 .. Len(l) - 1
    BY <2>1, LenProperties
  <2>3. Sorted(r)
    <3> SUFFICES ASSUME NEW j \in 1 .. Len(l) - 1, NEW k \in 1 .. Len(l) - 1, j < k
                 PROVE  r[j].name < r[k].name
      BY <2>2 DEF Sorted
    <3>1. \A x, y \in 1 .. Len(l) : x < y => l[x].name < l[y].name
      BY <1>1, <1>2 DEF Sorted
    <3>2. /\ j \in 1 .. Len(l) /\ j + 1 \in 1 .. Len(l) /\ k \in 1 .. Len(l) /\ k + 1 \in 1 .. Len(l)
          /\ j < k + 1 /\ j + 1 < k + 1
      BY <1>2
    <3>3. r[j] = (IF j < i THEN l[j] ELSE l[j + 1]) /\ r[k] = (IF k < i THEN l[k] ELSE l[k + 1])
      BY <2>1
    <3>4. k < i => j < i
      BY <1>2
    <3> QED BY <3>1, <3>2, <3>3, <3>4
  <2>4. r \in ListsOf("state")
    BY <2>1, <2>3, StateLists
  <2> QED BY <1>5, <2>1, <2>4, DoneWorks DEF r
<1> QED BY <1>3, <1>4, <1>5

\* CSession::addNextlistRevFromNextCmd.
LEMMA NextWorks ==
  ASSUME NEW l \in ListsOf("nextlist"), NEW e \in nextCmd(l), ~e.crash
  PROVE  EditWorks("nextlist", l, e)
<1>1. l \in Seq(Songs) /\ Len(l) <= MaxSongs
  BY SongLists
<1>2. Len(l) \in Nat /\ DOMAIN l = 1 .. Len(l)
  BY <1>1, LenProperties
<1>3. l # <<>> /\ e \notin NullItem
  BY DEF nextCmd, NullItem
<1>4. CASE Len(l) = 1
  <2>1. PICK s \in Songs : e \in Made(<<s>>, <<Hunk(1, 0, 1, <<s>>)>>)
    BY <1>3, <1>4 DEF nextCmd
  <2> DEFINE m == [l EXCEPT ![1] = s]
  <2>2. 1 \in DOMAIN l
    BY <1>2, <1>4
  <2>3. m \in Seq(Songs) /\ DOMAIN m = DOMAIN l /\ patch(l, <<Hunk(1, 0, 1, <<s>>)>>) = Done(m)
    BY <1>1, <2>2, ItemReplaced
  <2>4. m = <<s>>
    <3>1. m[1] = s
      BY <2>2
    <3> HIDE DEF m
    <3>2. Len(m) = 1
      BY <1>2, <1>4, <2>3, LenProperties
    <3>3. <<s>> \in Seq(Songs) /\ Len(<<s>>) = 1 /\ <<s>>[1] = s
      OBVIOUS
    <3>4. \A i \in 1 .. Len(m) : m[i] = <<s>>[i]
      BY <3>1, <3>2, <3>3
    <3> QED BY <2>3, <3>2, <3>3, <3>4, SeqEqual
  <2>5. <<s>> \in ListsOf("nextlist")
    <3>1. Len(<<s>>) = 1 /\ <<s>> \in Seq(Songs)
      OBVIOUS
    <3> QED BY <1>1, <1>4, <3>1, SongLists
  <2> HIDE DEF m
  <2> QED BY <2>1, <2>3, <2>4, <2>5, DoneWorks
<1>5. CASE Len(l) # 1
  <2>1. e \in Made(Tail(l), <<Hunk(1, -1, 1, <<>>)>>)
    BY <1>3, <1>5 DEF nextCmd
  <2>2. /\ Tail(l) \in Seq(Songs) /\ Len(Tail(l)) = Len(l) - 1 /\ Len(l) # 0
        /\ Tail(l) = SubSeq(l, 2, Len(l))
    BY <1>1, <1>2, <1>3, HeadTailProperties, EmptySeq, TailIsSubSeq
  <2>3. 1 \in DOMAIN l
    BY <1>2, <2>2
  <2>4. patch(l, <<Hunk(1, -1, 1, <<>>)>>) = Done(Without(l, 1))
    BY <1>1, <2>3, ItemRemoved
  <2>5. Without(l, 1) = Tail(l)
    <3>1. 1 - 1 = 0 /\ 1 + 1 = 2
      OBVIOUS
    <3>2. SubSeq(l, 1, 0) = <<>>
      BY SubSeqEmpty
    <3>3. <<>> \o Tail(l) = Tail(l)
      BY <2>2, ConcatEmptySeq
    <3> QED BY <2>2, <3>1, <3>2, <3>3 DEF Without
  <2>6. Tail(l) \in ListsOf("nextlist")
    <3>1. Len(Tail(l)) <= MaxSongs
      BY <1>1, <1>2, <2>2, EditsAssumption
    <3> QED BY <2>2, <3>1, SongLists
  <2> QED BY <2>1, <2>4, <2>5, <2>6, DoneWorks
<1> QED BY <1>4, <1>5

LEMMA ListsAreSeqs ==
  ASSUME NEW k
  PROVE  \E S : ListsOf(k) \subseteq Seq(S)
<1>1. CASE k = "state"
  BY <1>1, StateLists
<1>2. CASE k # "state"
  BY <1>2, SongLists
<1> QED BY <1>1, <1>2

\* CSession::collectionChanged.
LEMMA CollectionWorks ==
  ASSUME NEW l \in ListsOf("mediacol"), NEW e \in collectionChanged(l)
  PROVE  EditWorks("mediacol", l, e)
<1>1. PICK new \in ListsOf("mediacol") : e \in Made(new, LineDiff(l, new))
  BY DEF collectionChanged
<1>2. l \in Seq(Songs) /\ new \in Seq(Songs)
  BY SongLists
<1> QED BY <1>1, <1>2, DiffLeads, DoneWorks

\* A list that was cut off while it was written is still one.
LEMMA FirstPart ==
  ASSUME NEW k, NEW l \in ListsOf(k), NEW n \in 0 .. Len(l)
  PROVE  SubSeq(l, 1, n) \in ListsOf(k)
<1>1. PICK S : ListsOf(k) \subseteq Seq(S)
  BY ListsAreSeqs
<1>2. l \in Seq(S) /\ Len(l) \in Nat /\ DOMAIN l = 1 .. Len(l)
  BY <1>1, LenProperties
<1> DEFINE m == SubSeq(l, 1, n)
<1>3. ASSUME NEW T, l \in Seq(T)
      PROVE  /\ m \in Seq(T) /\ Len(m) = n /\ DOMAIN m = 1 .. n
             /\ \A i \in 1 .. n : m[i] = l[i]
  <2>1. \A i \in 1 .. n : l[i] \in T
    BY <1>2, <1>3, ElementOfSeq
  <2>2. /\ m \in Seq(T) /\ Len(m) = (IF 1 <= n THEN n - 1 + 1 ELSE 0)
        /\ \A i \in 1 .. n - 1 + 1 : m[i] = l[1 + i - 1]
    BY <1>2, <2>1, SubSeqProperties
  <2> HIDE DEF m
  <2>3. Len(m) = n /\ \A i \in 1 .. n : m[i] = l[i]
    BY <2>2
  <2> QED BY <2>2, <2>3, LenProperties
<1>4. CASE k = "state"
  <2>1. l \in Seq(Render) /\ Sorted(l)
    BY <1>4, StateLists
  <2>2. m \in Seq(Render) /\ DOMAIN m = 1 .. n /\ \A i \in 1 .. n : m[i] = l[i]
    BY <1>3, <2>1
  <2> HIDE DEF m
  <2>3. \A i \in 1 .. n : i \in DOMAIN l
    BY <1>2
  <2>4. Sorted(m)
    BY <2>1, <2>2, <2>3 DEF Sorted
  <2> QED BY <1>4, <2>2, <2>4, StateLists DEF m
<1>5. CASE k # "state"
  <2>1. l \in Seq(Songs) /\ Len(l) <= MaxSongs
    BY <1>5, SongLists
  <2>2. m \in Seq(Songs) /\ Len(m) = n
    BY <1>3, <2>1
  <2> HIDE DEF m
  <2>3. Len(m) <= MaxSongs
    BY <1>2, <2>1, <2>2, EditsAssumption
  <2> QED BY <1>5, <2>2, <2>3, SongLists DEF m
<1> QED BY <1>4, <1>5

LEMMA AppendedTo ==
  ASSUME NEW p, NEW s, NEW x, NEW g, g = [pass |-> p, list |-> s]
  PROVE  [g EXCEPT !.list = Append(@, x)] = [pass |-> p, list |-> Append(s, x)]
OBVIOUS

\* What is left of the render clients keeps their order.
LEMMA RestoredList ==
  ASSUME NEW l \in ListsOf("state"), NEW there
  PROVE  restoreSessionStateRevs(l, there) \in ListsOf("state")
<1>1. l \in Seq(Render) /\ Sorted(l)
  BY StateLists
<1> DEFINE n == Len(l)
<1>2. n \in Nat /\ DOMAIN l = 1 .. n /\ \A i \in 1 .. n : l[i] \in Render
  BY <1>1, LenProperties, ElementOfSeq
<1>3. PICK f : /\ FoldRun(f, "restore", there, NoneRestored, l, n)
               /\ restoreSessionStateRevs(l, there) = f[n].list
  BY <1>2, RestoreFold
<1> HIDE DEF n
<1> DEFINE Ok(m) ==
             \E pass \in BOOLEAN, s \in Seq(Render) :
               /\ f[m] = [pass |-> pass, list |-> s]
               /\ Sorted(s)
               /\ \A i \in 1 .. Len(s) : \E j \in 1 .. m : s[i].name = l[j].name
           T == {m \in Nat : m <= n => Ok(m)}
<1>4. 0 \in T
  <2>1. f[0] = [pass |-> FALSE, list |-> <<>>]
    BY <1>3 DEF FoldRun, NoneRestored
  <2>2. <<>> \in Seq(Render) /\ Sorted(<<>>) /\ Len(<<>>) = 0
    <3>1. DOMAIN <<>> = {}
      OBVIOUS
    <3> QED BY <3>1, EmptySeq DEF Sorted
  <2>3. Ok(0)
    <3>1. FALSE \in BOOLEAN /\ \A i \in 1 .. Len(<<>>) : \E j \in 1 .. 0 : <<>>[i].name = l[j].name
      BY <2>2
    <3> QED BY <2>1, <2>2, <3>1
  <2> HIDE DEF Ok
  <2> QED BY <2>3
<1> HIDE DEF Ok
<1>5. \A m \in T : m + 1 \in T
  <2> SUFFICES ASSUME NEW m \in Nat, m + 1 <= n, Ok(m) PROVE Ok(m + 1)
    BY <1>2
  <2>1. m \in Nat /\ m + 1 \in 1 .. n /\ (m + 1) - 1 = m
    BY <1>2
  <2>2. PICK pass \in BOOLEAN, s \in Seq(Render) :
               /\ f[m] = [pass |-> pass, list |-> s]
               /\ Sorted(s)
               /\ \A i \in 1 .. Len(s) : \E j \in 1 .. m : s[i].name = l[j].name
    BY DEF Ok
  <2> DEFINE r == l[m + 1]
  <2>3. f[m + 1] = RestoreClient(there, f[m], r)
    <3>1. f[m + 1] = FoldStep("restore", there, f[(m + 1) - 1], l[m + 1])
      BY <1>3, <2>1 DEF FoldRun
    <3> QED BY <2>1, <3>1 DEF FoldStep
  <2>4. r \in Render
    BY <1>2, <2>1
  <2> HIDE DEF r, T
  <2>5. ASSUME NEW p \in BOOLEAN, NEW x \in Render, x.name = r.name,
               f[m + 1] = [pass |-> p, list |-> Append(s, x)]
        PROVE  Ok(m + 1)
    <3> DEFINE a == Append(s, x)
    <3>1. /\ a \in Seq(Render) /\ Len(a) = Len(s) + 1 /\ a[Len(s) + 1] = x
          /\ \A i \in 1 .. Len(s) : a[i] = s[i]
      BY <2>5, AppendProperties
    <3> HIDE DEF a
    <3>2. Len(s) \in Nat /\ DOMAIN s = 1 .. Len(s) /\ DOMAIN a = 1 .. Len(s) + 1
      BY <3>1, LenProperties
    <3>3. ASSUME NEW i \in 1 .. Len(s) PROVE s[i].name < r.name
      <4>1. PICK j \in 1 .. m : s[i].name = l[j].name
        BY <2>2
      <4>2. j \in 1 .. n /\ j < m + 1
        BY <1>2, <2>1
      <4>3. l[j].name < l[m + 1].name
        BY <1>1, <1>2, <2>1, <4>2 DEF Sorted
      <4> QED BY <4>1, <4>3 DEF r
    <3>4. Sorted(a)
      <4> SUFFICES ASSUME NEW i \in 1 .. Len(s) + 1, NEW j \in 1 .. Len(s) + 1, i < j
                   PROVE  a[i].name < a[j].name
        BY <3>2 DEF Sorted
      <4>1. i \in 1 .. Len(s) /\ a[i] = s[i]
        BY <3>1, <3>2
      <4>2. CASE j = Len(s) + 1
        BY <2>5, <3>1, <3>3, <4>1, <4>2
      <4>3. CASE j # Len(s) + 1
        <5>1. j \in 1 .. Len(s) /\ a[j] = s[j]
          BY <3>1, <3>2, <4>3
        <5> QED BY <2>2, <3>2, <4>1, <5>1 DEF Sorted
      <4> QED BY <4>2, <4>3
    <3>5. ASSUME NEW i \in 1 .. Len(a) PROVE \E j \in 1 .. m + 1 : a[i].name = l[j].name
      <4>1. CASE i = Len(s) + 1
        <5>1. a[i].name = l[m + 1].name /\ m + 1 \in 1 .. m + 1
          BY <2>1, <2>5, <3>1, <4>1 DEF r
        <5> QED BY <5>1
      <4>2. CASE i # Len(s) + 1
        <5>1. i \in 1 .. Len(s) /\ a[i] = s[i]
          BY <3>1, <3>2, <4>2
        <5>2. PICK j \in 1 .. m : s[i].name = l[j].name
          BY <2>2, <5>1
        <5>3. j \in 1 .. m + 1
          BY <2>1
        <5> QED BY <5>1, <5>2, <5>3
      <4> QED BY <4>1, <4>2
    <3> QED BY <2>5, <3>1, <3>4, <3>5 DEF Ok, a
  <2>6. f[m].pass = pass /\ f[m].list = s
    BY <2>2
  <2>7. CASE pass
    <3>1. f[m + 1] = [pass |-> FALSE, list |-> Append(s, r)]
      BY <2>3, <2>6, <2>7 DEF RestoreClient
    <3> QED BY <2>4, <2>5, <3>1
  <2>8. CASE ~pass /\ (~r.own /\ r.name \notin there)
    <3>1. f[m + 1] = [pass |-> TRUE, list |-> s]
      BY <2>2, <2>3, <2>6, <2>8 DEF RestoreClient
    <3>2. \A i \in 1 .. Len(s) : \E j \in 1 .. m + 1 : s[i].name = l[j].name
      <4> SUFFICES ASSUME NEW i \in 1 .. Len(s) PROVE \E j \in 1 .. m + 1 : s[i].name = l[j].name
        OBVIOUS
      <4>1. PICK j \in 1 .. m : s[i].name = l[j].name
        BY <2>2
      <4>2. j \in 1 .. m + 1
        BY <2>1
      <4> QED BY <4>1, <4>2
    <3> QED BY <2>2, <3>1, <3>2 DEF Ok
  <2>9. CASE ~pass /\ ~(~r.own /\ r.name \notin there)
    <3> DEFINE x == [r EXCEPT !.on = IF r.own THEN r.name \in there ELSE @]
    <3>1. x \in Render /\ x.name = r.name
      <4> DEFINE on == IF r.own THEN r.name \in there ELSE r.on
      <4>1. on \in BOOLEAN
        <5>1. r.on \in BOOLEAN
          BY <2>4 DEF Render
        <5>2. (r.name \in there) \in BOOLEAN
          OBVIOUS
        <5> QED BY <5>1, <5>2
      <4>2. x = [r EXCEPT !.on = on]
        OBVIOUS
      <4> HIDE DEF on, x
      <4> QED BY <2>4, <4>1, <4>2 DEF Render
    <3>2. f[m + 1] = [f[m] EXCEPT !.list = Append(@, x)]
      BY <2>3, <2>6, <2>9 DEF RestoreClient
    <3> HIDE DEF x
    <3>3. f[m + 1] = [pass |-> pass, list |-> Append(s, x)]
      <4> DEFINE g == f[m]
      <4>1. g = [pass |-> pass, list |-> s]
        BY <2>2
      <4>2. f[m + 1] = [g EXCEPT !.list = Append(@, x)]
        BY <3>2
      <4> HIDE DEF g
      <4> QED BY <4>1, <4>2, AppendedTo
    <3> QED BY <2>5, <3>1, <3>3
  <2> QED BY <2>7, <2>8, <2>9
<1>6. Ok(n)
  <2> HIDE DEF T
  <2>1. T \in SUBSET Nat
    BY DEF T
  <2>2. T = Nat
    BY <1>4, <1>5, <2>1, Induction
  <2> QED BY <1>2, <2>2 DEF T
<1> QED BY <1>3, <1>6, StateLists DEF Ok

-----------------------------------------------------------------------------
(* Ids in a diff of the playlist.                                          *)

IdsAfter(new, shift, d) == [shift |-> shift, new |-> new, diff |-> d, crash |-> FALSE]

LEMMA IdsOfOne ==
  ASSUME NEW g, NEW new
  PROVE  /\ addIdToPlaylistDiff(<<g>>, new).crash = WithItems(IdsStart(new), g).crash
         /\ addIdToPlaylistDiff(<<g>>, new).diff = WithItems(IdsStart(new), g).diff
<1> DEFINE q == <<g>>
<1>1. 1 \in Nat /\ DOMAIN q = 1 .. 1 /\ q[1] = g
  OBVIOUS
<1> HIDE DEF q
<1>2. PICK f : /\ FoldRun(f, "ids", {}, IdsStart(new), q, 1)
               /\ addIdToPlaylistDiff(q, new) = [crash |-> f[1].crash, diff |-> f[1].diff]
  BY <1>1, IdsFold
<1>3. f[0] = IdsStart(new) /\ f[1] = WithItems(f[1 - 1], q[1])
  BY <1>2 DEF FoldRun, FoldStep
<1>4. f[1] = WithItems(IdsStart(new), g)
  BY <1>1, <1>3
<1>5. addIdToPlaylistDiff(q, new).crash = f[1].crash /\ addIdToPlaylistDiff(q, new).diff = f[1].diff
  BY <1>2
<1> QED BY <1>4, <1>5 DEF q

LEMMA IdsOfTwo ==
  ASSUME NEW g, NEW h, NEW new
  PROVE  /\ addIdToPlaylistDiff(<<g, h>>, new).crash
              = WithItems(WithItems(IdsStart(new), g), h).crash
         /\ addIdToPlaylistDiff(<<g, h>>, new).diff
              = WithItems(WithItems(IdsStart(new), g), h).diff
<1> DEFINE q == <<g, h>>
<1>1. 2 \in Nat /\ DOMAIN q = 1 .. 2 /\ q[1] = g /\ q[2] = h
  OBVIOUS
<1> HIDE DEF q
<1>2. PICK f : /\ FoldRun(f, "ids", {}, IdsStart(new), q, 2)
               /\ addIdToPlaylistDiff(q, new) = [crash |-> f[2].crash, diff |-> f[2].diff]
  BY <1>1, IdsFold
<1>3. f[0] = IdsStart(new) /\ f[1] = WithItems(f[1 - 1], q[1]) /\ f[2] = WithItems(f[2 - 1], q[2])
  BY <1>2 DEF FoldRun, FoldStep
<1>4. f[2] = WithItems(WithItems(IdsStart(new), g), h)
  BY <1>1, <1>3
<1>5. addIdToPlaylistDiff(q, new).crash = f[2].crash /\ addIdToPlaylistDiff(q, new).diff = f[2].diff
  BY <1>2
<1> QED BY <1>4, <1>5 DEF q

Counted(sofar, by, h) == [sofar EXCEPT !.shift = @ + by, !.diff = Append(@, h)]

LEMMA CountedOn ==
  ASSUME NEW new, NEW d, NEW shift, NEW by, NEW h
  PROVE  Counted(IdsAfter(new, shift, d), by, h) = IdsAfter(new, shift + by, Append(d, h))
<1> DEFINE g == IdsAfter(new, shift, d)
           a == Append(d, h)
           b == shift + by
           f == [g EXCEPT !.shift = b]
           e == [f EXCEPT !.diff = a]
           no == FALSE
<1>1. g = [shift |-> shift, new |-> new, diff |-> d, crash |-> no]
  BY DEF IdsAfter
<1>2. e = [g EXCEPT !.shift = @ + by, !.diff = Append(@, h)]
  BY <1>1
<1> HIDE DEF g, a, b, no
<1>3. f = [shift |-> b, new |-> new, diff |-> d, crash |-> no]
  BY <1>1
<1> HIDE DEF f
<1>4. e = [shift |-> b, new |-> new, diff |-> a, crash |-> no]
  BY <1>3
<1> HIDE DEF e
<1>5. IdsAfter(new, b, a) = [shift |-> b, new |-> new, diff |-> a, crash |-> no]
  BY DEF IdsAfter, no
<1> QED BY <1>2, <1>4, <1>5 DEF a, b, g, Counted

Items(new, first, ins) == \A i \in 1 .. Len(ins) : new[first + i - 1] = ins[i]

\* addIdToPlaylistDiff leaves a hunk as it is, if it gets behind it.
LeftAlone(h, new, shift, d) ==
  \/ WithItems(IdsAfter(new, shift, d), h).crash
  \/ WithItems(IdsAfter(new, shift, d), h) = IdsAfter(new, shift + h.by, Append(d, h))

\* A hunk keeps its lines if they are the items the header counts to.
LEMMA SameItems ==
  ASSUME NEW S, NEW h, NEW ins \in Seq(S), h.ins = ins, NEW new, NEW d, NEW shift,
         [h EXCEPT !.ins = ins] = h,
         Items(new, h.at + shift + h.rm, ins)
  PROVE  LeftAlone(h, new, shift, d)
<1> DEFINE g == IdsAfter(new, shift, d)
           first == h.at + shift + h.rm
           same == [i \in 1 .. Len(ins) |-> new[first + i - 1]]
<1>2. g.shift = shift /\ g.new = new /\ g.diff = d /\ g.crash = FALSE
  BY DEF IdsAfter
<1>3. same = ins
  <2>1. DOMAIN ins = 1 .. Len(ins)
    BY LenProperties
  <2>2. ins = [i \in 1 .. Len(ins) |-> ins[i]]
    BY <2>1
  <2>3. \A i \in 1 .. Len(ins) : new[first + i - 1] = ins[i]
    BY DEF Items
  <2> HIDE DEF first
  <2> QED BY <2>2, <2>3
<1>4. [h EXCEPT !.ins = same] = h
  <2> HIDE DEF same
  <2> QED BY <1>3
<1>5. WithItems(g, h) = IF ~ Lines(h, shift) \subseteq DOMAIN new
                        THEN [g EXCEPT !.crash = TRUE]
                        ELSE Counted(g, h.by, h)
  <2> HIDE DEF g
  <2> QED BY <1>2, <1>4 DEF WithItems, Counted
<1>6. [g EXCEPT !.crash = TRUE].crash
  BY DEF IdsAfter
<1>7. Counted(g, h.by, h) = IdsAfter(new, shift + h.by, Append(d, h))
  BY CountedOn
<1> HIDE DEF g
<1>8. WithItems(g, h).crash \/ WithItems(g, h) = IdsAfter(new, shift + h.by, Append(d, h))
  BY <1>5, <1>6, <1>7
<1> QED BY <1>8 DEF g, LeftAlone

\* What follows a missing item is not looked at.
LEMMA CrashStays ==
  ASSUME NEW g, NEW h, g.crash, "crash" \in DOMAIN g
  PROVE  WithItems(g, h).crash
BY DEF WithItems

LEMMA RemovalOk ==
  ASSUME NEW S, NEW l \in Seq(S), NEW shift \in Int, NEW row \in Nat, NEW n \in Nat, n > 0,
         ApplyHunk(PatchedSoFar(shift, l), Removal(row, n)).res.how = "ok"
  PROVE  /\ row + shift \in Nat /\ row + shift + n <= Len(l)
         /\ ApplyHunk(PatchedSoFar(shift, l), Removal(row, n)) =
              PatchedSoFar(shift - n, Replaced(l, row + shift, n, <<>>))
<1> DEFINE pos == row + 1 + shift - 1
           g == PatchedSoFar(shift, l)
<1>1. Len(l) \in Nat /\ <<>> \in Seq(S)
  BY LenProperties, EmptySeq
<1>2. Hunk(row + 1, -n, n, <<>>) # BadHunk
  BY DEF Hunk, BadHunk
<1>3. pos >= 0 /\ pos + n <= Len(l)
  <2>1. g.res.how = "ok" /\ g.res.list = l /\ g.shift = shift
    BY DEF Done, PatchedSoFar
  <2>2. /\ Removal(row, n).at = row + 1 /\ Removal(row, n).rm = n /\ Removal(row, n).by = -n
        /\ Removal(row, n) # BadHunk
    BY <1>2 DEF Removal, Hunk
  <2> HIDE DEF g
  <2>3. RemoveLines(l, pos, n).how # "ok" => ApplyHunk(g, Removal(row, n)).res.how # "ok"
    BY <2>1, <2>2 DEF ApplyHunk
  <2>4. RemoveLines(l, pos, n).how = "ok"
    BY <2>3 DEF g
  <2> QED BY <1>1, <2>4 DEF RemoveLines, Thrown, Crash
<1>4. /\ (row + 1) + shift >= 1 /\ (row + 1) + shift - 1 + n <= Len(l) /\ row + 1 \in Int
      /\ -n \in Int /\ (row + 1) + shift - 1 = row + shift /\ shift + (-n) = shift - n
      /\ row + shift \in Nat /\ row + shift + n <= Len(l)
  BY <1>1, <1>3
<1>5. ApplyHunk(PatchedSoFar(shift, l), Hunk(row + 1, -n, n, <<>>)) =
        PatchedSoFar(shift + (-n), Replaced(l, (row + 1) + shift - 1, n, <<>>))
  <2> DEFINE by == -n
             at == row + 1
             none == <<>>
  <2>1. by \in Int /\ at \in Int /\ at + shift >= 1 /\ at + shift - 1 + n <= Len(l)
        /\ Hunk(at, by, n, none) # BadHunk /\ none \in Seq(S)
    BY <1>1, <1>2, <1>4
  <2> HIDE DEF by, at, none
  <2>2. ApplyHunk(PatchedSoFar(shift, l), Hunk(at, by, n, none)) =
          PatchedSoFar(shift + by, Replaced(l, at + shift - 1, n, none))
    BY <2>1, HunkApplied
  <2> QED BY <2>2 DEF by, at, none
<1> QED BY <1>4, <1>5 DEF Removal

LEMMA InsertionOk ==
  ASSUME NEW S, NEW l \in Seq(S), NEW items \in Seq(S), items # <<>>,
         NEW shift \in Int, NEW insTo \in Nat,
         ApplyHunk(PatchedSoFar(shift, l), Insertion(insTo, items)).res.how = "ok"
  PROVE  \/ /\ insTo + shift = -1
            /\ ApplyHunk(PatchedSoFar(shift, l), Insertion(insTo, items)).res.list =
                 Tail(items) \o l \o <<Head(items)>>
         \/ /\ insTo + shift \in Nat /\ insTo + shift <= Len(l)
            /\ ApplyHunk(PatchedSoFar(shift, l), Insertion(insTo, items)) =
                 PatchedSoFar(shift + Len(items), Replaced(l, insTo + shift, 0, items))
<1> DEFINE pos == insTo + 1 + shift - 1
           g == PatchedSoFar(shift, l)
<1>1. Len(l) \in Nat /\ Len(items) \in Nat
  BY LenProperties
<1>2. Hunk(insTo + 1, Len(items), 0, items) # BadHunk
  BY DEF Hunk, BadHunk
<1>3. ApplyHunk(g, Insertion(insTo, items)).res = InsertLines(l, pos, items)
  <2>1. g.res.how = "ok" /\ g.res.list = l /\ g.shift = shift
    BY DEF Done, PatchedSoFar
  <2>2. /\ Insertion(insTo, items).at = insTo + 1 /\ Insertion(insTo, items).rm = 0
        /\ Insertion(insTo, items).ins = items /\ Insertion(insTo, items) # BadHunk
    BY <1>2 DEF Insertion, Hunk
  <2>3. RemoveLines(l, pos, 0) = Done(l) /\ Done(l).how = "ok" /\ Done(l).list = l
    BY DEF RemoveLines, Done
  <2> HIDE DEF g
  <2> QED BY <2>1, <2>2, <2>3 DEF ApplyHunk
<1>4. pos = insTo + shift /\ pos \in Int
  OBVIOUS
<1>5. InsertLines(l, pos, items).how = "ok"
  BY <1>3
<1>6. CASE pos = -1
  <2>1. InsertLines(l, pos, items) = Done(Tail(items) \o l \o <<Head(items)>>)
    BY <1>6 DEF InsertLines
  <2>2. InsertLines(l, pos, items).list = Tail(items) \o l \o <<Head(items)>>
    BY <2>1 DEF Done
  <2> QED BY <1>3, <1>4, <1>6, <2>2
<1>7. CASE pos # -1
  <2>1. pos >= 0 /\ pos <= Len(l)
    BY <1>1, <1>4, <1>5, <1>7 DEF InsertLines, Crash
  <2>2. /\ (insTo + 1) + shift >= 1 /\ (insTo + 1) + shift - 1 + 0 <= Len(l) /\ insTo + 1 \in Int
        /\ (insTo + 1) + shift - 1 = insTo + shift /\ Len(items) \in Int /\ 0 \in Nat
        /\ insTo + shift \in Nat /\ insTo + shift <= Len(l)
    BY <1>1, <2>1
  <2>3. ApplyHunk(PatchedSoFar(shift, l), Hunk(insTo + 1, Len(items), 0, items)) =
          PatchedSoFar(shift + Len(items), Replaced(l, (insTo + 1) + shift - 1, 0, items))
    BY <1>2, <2>2, HunkApplied
  <2> QED BY <2>2, <2>3 DEF Insertion
<1> QED BY <1>6, <1>7

HasInserted(S, r, l, pos, items) ==
  /\ r \in Seq(S) /\ Len(r) = Len(l) + Len(items)
  /\ \A i \in 1 .. Len(items) : r[pos + i] = items[i]

LEMMA Inserted ==
  ASSUME NEW S, NEW l \in Seq(S), NEW items \in Seq(S), NEW pos \in Nat, pos <= Len(l)
  PROVE  HasInserted(S, Replaced(l, pos, 0, items), l, pos, items)
<1> DEFINE r == Replaced(l, pos, 0, items)
<1>1. Len(l) \in Nat /\ Len(items) \in Nat /\ pos + 0 <= Len(l) /\ 0 \in Nat
  BY LenProperties
<1>2. r \in Seq(S) /\ IsReplaced(r, l, pos, 0, items)
  BY <1>1, ReplacedList
<1> HIDE DEF r
<1>3. Len(r) = Len(l) + Len(items)
  BY <1>1, <1>2 DEF IsReplaced
<1>4. ASSUME NEW i \in 1 .. Len(items) PROVE r[pos + i] = items[i]
  <2>1. /\ pos + i \in 1 .. Len(l) - 0 + Len(items) /\ ~ pos + i <= pos
        /\ pos + i <= pos + Len(items) /\ pos + i - pos = i
    BY <1>1
  <2> QED BY <1>2, <2>1 DEF IsReplaced
<1>5. HasInserted(S, r, l, pos, items)
  BY <1>2, <1>3, <1>4 DEF HasInserted
<1> QED BY <1>5 DEF r

\* What addIdToPlaylistDiff makes of a diff whose patch gave new is that diff.
IdsKept(d, new) ==
  addIdToPlaylistDiff(d, new).crash \/ addIdToPlaylistDiff(d, new).diff = d

LEMMA StartIs ==
  ASSUME NEW l, NEW new
  PROVE  Start(l) = PatchedSoFar(0, l) /\ IdsStart(new) = IdsAfter(new, 0, <<>>)
BY DEF Start, IdsStart, IdsAfter

LEMMA AppendTwo ==
  ASSUME NEW g, NEW h
  PROVE  Append(<<>>, g) = <<g>> /\ Append(<<g>>, h) = <<g, h>>
<1> DEFINE S == {g, h}
           none == <<>>
           one == <<g>>
           two == <<g, h>>
<1>1. /\ none \in Seq(S) /\ one \in Seq(S) /\ two \in Seq(S)
      /\ Len(none) = 0 /\ Len(one) = 1 /\ Len(two) = 2
      /\ one[1] = g /\ two[1] = g /\ two[2] = h
      /\ g \in S /\ h \in S
  OBVIOUS
<1> HIDE DEF none, one, two, S
<1>2. Append(none, g) \in Seq(S) /\ Len(Append(none, g)) = 1 /\ Append(none, g)[1] = g
  BY <1>1, AppendProperties
<1>3. /\ Append(one, h) \in Seq(S) /\ Len(Append(one, h)) = 2 /\ Append(one, h)[2] = h
      /\ Append(one, h)[1] = g
  <2>1. 1 + 1 = 2 /\ 1 \in 1 .. Len(one)
    BY <1>1
  <2>2. /\ Append(one, h) \in Seq(S) /\ Len(Append(one, h)) = Len(one) + 1
        /\ \A i \in 1 .. Len(one) : Append(one, h)[i] = one[i]
        /\ Append(one, h)[Len(one) + 1] = h
    <3>1. one \in Seq(S) /\ h \in S
      BY <1>1
    <3> QED BY <3>1, AppendProperties
  <2> QED BY <1>1, <2>1, <2>2
<1>4. Append(none, g) = one
  BY <1>1, <1>2, SeqEqual
<1>5. Append(one, h) = two
  BY <1>1, <1>3, SeqEqual
<1> QED BY <1>4, <1>5 DEF none, one, two

LEMMA IdsOfDiff ==
  ASSUME NEW new, NEW shift, NEW d, NEW how, how = IdsAfter(new, shift, d)
  PROVE  how.diff = d
BY DEF IdsAfter

\* The hunks of a client's edit, for what looks into them.
LEMMA InsertionParts ==
  ASSUME NEW insTo, NEW items
  PROVE  /\ Insertion(insTo, items).at = insTo + 1 /\ Insertion(insTo, items).rm = 0
         /\ Insertion(insTo, items).ins = items /\ Insertion(insTo, items).by = Len(items)
         /\ [Insertion(insTo, items) EXCEPT !.ins = items] = Insertion(insTo, items)
BY DEF Insertion, Hunk

LEMMA RemovalParts ==
  ASSUME NEW from, NEW n
  PROVE  /\ Removal(from, n).at = from + 1 /\ Removal(from, n).rm = n
         /\ Removal(from, n).ins = <<>> /\ Removal(from, n).by = -n
         /\ [Removal(from, n) EXCEPT !.ins = <<>>] = Removal(from, n)
BY DEF Removal, Hunk

\* A hunk that only removes has no items to replace.
LEMMA RemovalLeft ==
  ASSUME NEW from, NEW n, NEW new, NEW d, NEW shift
  PROVE  LeftAlone(Removal(from, n), new, shift, d)
<1> DEFINE h == Removal(from, n)
           none == <<>>
           S == {h}
<1>1. none \in Seq(S) /\ Len(none) = 0
  BY EmptySeq
<1>2. h.ins = none /\ [h EXCEPT !.ins = none] = h
  BY RemovalParts
<1> HIDE DEF h, none, S
<1>3. Items(new, h.at + shift + h.rm, none)
  BY <1>1 DEF Items
<1>4. LeftAlone(h, new, shift, d)
  BY <1>1, <1>2, <1>3, SameItems
<1> QED BY <1>4 DEF h

LEMMA InsertionLeft ==
  ASSUME NEW S, NEW items \in Seq(S), NEW insTo \in Int, NEW shift \in Int, NEW new, NEW d,
         \A i \in 1 .. Len(items) : new[insTo + shift + i] = items[i]
  PROVE  LeftAlone(Insertion(insTo, items), new, shift, d)
<1> DEFINE h == Insertion(insTo, items)
<1>1. h.ins = items /\ [h EXCEPT !.ins = items] = h /\ h.at = insTo + 1 /\ h.rm = 0
  BY InsertionParts
<1> HIDE DEF h
<1>2. Items(new, h.at + shift + h.rm, items)
  <2>1. Len(items) \in Nat
    BY LenProperties
  <2> SUFFICES ASSUME NEW i \in 1 .. Len(items)
               PROVE  new[h.at + shift + h.rm + i - 1] = items[i]
    BY DEF Items
  <2>2. h.at + shift + h.rm + i - 1 = insTo + shift + i
    BY <1>1, <2>1
  <2> QED BY <2>2
<1>3. LeftAlone(h, new, shift, d)
  BY <1>1, <1>2, SameItems
<1> QED BY <1>3 DEF h

LEMMA OneLeft ==
  ASSUME NEW g, NEW new, LeftAlone(g, new, 0, <<>>)
  PROVE  IdsKept(<<g>>, new)
<1>1. \/ WithItems(IdsStart(new), g).crash
      \/ WithItems(IdsStart(new), g).diff = <<g>>
  BY StartIs, AppendTwo, IdsOfDiff DEF LeftAlone
<1> QED BY <1>1, IdsOfOne DEF IdsKept

LEMMA TwoLeft ==
  ASSUME NEW g, NEW h, NEW new, NEW shift, shift = 0 + g.by,
         LeftAlone(g, new, 0, <<>>), LeftAlone(h, new, shift, <<g>>)
  PROVE  IdsKept(<<g, h>>, new)
<1> DEFINE c == WithItems(IdsStart(new), g)
<1>1. c.crash \/ c = IdsAfter(new, shift, <<g>>)
  BY StartIs, AppendTwo DEF LeftAlone
<1>2. "crash" \in DOMAIN c
  <2>1. "crash" \in DOMAIN IdsStart(new)
    BY DEF IdsStart
  <2> QED BY <2>1 DEF WithItems
<1>3. addIdToPlaylistDiff(<<g, h>>, new).crash = WithItems(c, h).crash
      /\ addIdToPlaylistDiff(<<g, h>>, new).diff = WithItems(c, h).diff
  BY IdsOfTwo
<1> HIDE DEF c
<1>4. CASE c.crash
  BY <1>2, <1>3, <1>4, CrashStays DEF IdsKept
<1>5. CASE c = IdsAfter(new, shift, <<g>>)
  <2>1. WithItems(c, h).crash \/ WithItems(c, h).diff = <<g, h>>
    <3>1. WithItems(c, h).crash \/ WithItems(c, h) = IdsAfter(new, shift + h.by, Append(<<g>>, h))
      BY <1>5 DEF LeftAlone
    <3>2. IdsAfter(new, shift + h.by, Append(<<g>>, h)).diff = <<g, h>>
      BY AppendTwo DEF IdsAfter
    <3> QED BY <3>1, <3>2
  <2> QED BY <1>3, <2>1 DEF IdsKept
<1> QED BY <1>1, <1>4, <1>5

\* What the two kinds of hunks do, if patch goes on behind them.
Removes(l, shift, row, n) ==
  ApplyHunk(PatchedSoFar(shift, l), Removal(row, n)).res.how = "ok" =>
    /\ row + shift \in Nat /\ row + shift + n <= Len(l)
    /\ ApplyHunk(PatchedSoFar(shift, l), Removal(row, n)) =
         PatchedSoFar(shift - n, Replaced(l, row + shift, n, <<>>))

Inserts(l, shift, insTo, items) ==
  ApplyHunk(PatchedSoFar(shift, l), Insertion(insTo, items)).res.how = "ok" =>
    \/ /\ insTo + shift = -1
       /\ ApplyHunk(PatchedSoFar(shift, l), Insertion(insTo, items)).res.list =
            Tail(items) \o l \o <<Head(items)>>
    \/ /\ insTo + shift \in Nat /\ insTo + shift <= Len(l)
       /\ ApplyHunk(PatchedSoFar(shift, l), Insertion(insTo, items)) =
            PatchedSoFar(shift + Len(items), Replaced(l, insTo + shift, 0, items))

LEMMA RemovalRemoves ==
  ASSUME NEW S, NEW l \in Seq(S), NEW shift \in Int, NEW row \in Nat, NEW n \in Nat, n > 0
  PROVE  Removes(l, shift, row, n)
<1>1. ASSUME ApplyHunk(PatchedSoFar(shift, l), Removal(row, n)).res.how = "ok"
      PROVE  /\ row + shift \in Nat /\ row + shift + n <= Len(l)
             /\ ApplyHunk(PatchedSoFar(shift, l), Removal(row, n)) =
                  PatchedSoFar(shift - n, Replaced(l, row + shift, n, <<>>))
  BY <1>1, RemovalOk
<1> QED BY <1>1 DEF Removes

LEMMA InsertionInserts ==
  ASSUME NEW S, NEW l \in Seq(S), NEW items \in Seq(S), items # <<>>,
         NEW shift \in Int, NEW insTo \in Nat
  PROVE  Inserts(l, shift, insTo, items)
<1>1. ASSUME ApplyHunk(PatchedSoFar(shift, l), Insertion(insTo, items)).res.how = "ok"
      PROVE  \/ /\ insTo + shift = -1
                /\ ApplyHunk(PatchedSoFar(shift, l), Insertion(insTo, items)).res.list =
                     Tail(items) \o l \o <<Head(items)>>
             \/ /\ insTo + shift \in Nat /\ insTo + shift <= Len(l)
                /\ ApplyHunk(PatchedSoFar(shift, l), Insertion(insTo, items)) =
                     PatchedSoFar(shift + Len(items), Replaced(l, insTo + shift, 0, items))
  BY <1>1, InsertionOk
<1> QED BY <1>1 DEF Inserts

\* A song of another list is put in.
LEMMA PutInKept ==
  ASSUME NEW S, NEW l \in Seq(S), NEW items \in Seq(S), items # <<>>, NEW insTo \in Nat,
         patch(l, <<Insertion(insTo, items)>>).how = "ok"
  PROVE  IdsKept(<<Insertion(insTo, items)>>, patch(l, <<Insertion(insTo, items)>>).list)
<1> DEFINE r == Replaced(l, insTo, 0, items)
           zero == 0
<1>1. zero \in Int /\ insTo + zero = insTo /\ insTo + zero # -1 /\ insTo \in Int
  OBVIOUS
<1>2. patch(l, <<Insertion(insTo, items)>>)
        = ApplyHunk(PatchedSoFar(zero, l), Insertion(insTo, items)).res
  BY PatchOne, StartIs
<1> HIDE DEF r, zero
<1>3. ApplyHunk(PatchedSoFar(zero, l), Insertion(insTo, items)).res.how = "ok"
  BY <1>2
<1>4. /\ insTo <= Len(l)
      /\ ApplyHunk(PatchedSoFar(zero, l), Insertion(insTo, items))
           = PatchedSoFar(zero + Len(items), r)
  <2>1. Inserts(l, zero, insTo, items)
    BY <1>1, InsertionInserts
  <2> QED BY <1>1, <1>3, <2>1 DEF Inserts, r
<1>5. patch(l, <<Insertion(insTo, items)>>).list = r
  BY <1>2, <1>4 DEF Done, PatchedSoFar
<1>6. \A i \in 1 .. Len(items) : r[insTo + i] = items[i]
  <2>1. HasInserted(S, r, l, insTo, items)
    BY <1>4, Inserted DEF r
  <2> QED BY <2>1 DEF HasInserted
<1>7. LeftAlone(Insertion(insTo, items), r, zero, <<>>)
  <2>1. \A i \in 1 .. Len(items) : r[insTo + zero + i] = items[i]
    BY <1>1, <1>6
  <2> QED BY <1>1, <2>1, InsertionLeft
<1> QED BY <1>5, <1>7, OneLeft DEF zero

LEMMA FirstOk ==
  ASSUME NEW l, NEW g, NEW h, patch(l, <<g, h>>).how = "ok"
  PROVE  /\ patch(l, <<g, h>>) = ApplyHunk(ApplyHunk(PatchedSoFar(0, l), g), h).res
         /\ ApplyHunk(PatchedSoFar(0, l), g).res.how = "ok"
<1> DEFINE a == ApplyHunk(PatchedSoFar(0, l), g)
<1>1. patch(l, <<g, h>>) = ApplyHunk(a, h).res
  BY PatchTwo, StartIs
<1> HIDE DEF a
<1>2. a.res.how # "ok" => ApplyHunk(a, h).res = a.res
  BY DEF ApplyHunk
<1>3. a.res.how = "ok"
  BY <1>1, <1>2
<1> QED BY <1>1, <1>3 DEF a

\* A move up: the rows move, the items before them stay.
LEMMA MoveUpKept ==
  ASSUME NEW S, NEW l \in Seq(S), NEW items \in Seq(S), items # <<>>, NEW insTo \in Nat,
         NEW from \in Nat, NEW n \in Nat, n = Len(items), n > 0, from > insTo,
         patch(l, <<Insertion(insTo, items), Removal(from, n)>>).how = "ok"
  PROVE  IdsKept(<<Insertion(insTo, items), Removal(from, n)>>,
                 patch(l, <<Insertion(insTo, items), Removal(from, n)>>).list)
<1> DEFINE r == Replaced(l, insTo, 0, items)
           q == Replaced(r, from + n, n, <<>>)
           zero == 0
           d == <<Insertion(insTo, items), Removal(from, n)>>
<1>1. /\ Len(l) \in Nat /\ zero \in Int /\ insTo + zero = insTo /\ insTo + zero # -1
      /\ insTo \in Int /\ n \in Int /\ zero + n = n /\ from + n \in Nat
  BY LenProperties
<1>2. /\ patch(l, d) = ApplyHunk(ApplyHunk(PatchedSoFar(zero, l), Insertion(insTo, items)),
                                 Removal(from, n)).res
      /\ ApplyHunk(PatchedSoFar(zero, l), Insertion(insTo, items)).res.how = "ok"
  BY FirstOk
<1>3. patch(l, d).how = "ok"
  OBVIOUS
<1> HIDE DEF r, q, zero, d
<1>4. /\ insTo <= Len(l)
      /\ ApplyHunk(PatchedSoFar(zero, l), Insertion(insTo, items))
           = PatchedSoFar(zero + Len(items), r)
  <2>1. Inserts(l, zero, insTo, items)
    BY <1>1, InsertionInserts
  <2> QED BY <1>1, <1>2, <2>1 DEF Inserts, r
<1>5. /\ r \in Seq(S) /\ Len(r) = Len(l) + Len(items)
      /\ \A i \in 1 .. Len(items) : r[insTo + i] = items[i]
  <2>1. HasInserted(S, r, l, insTo, items)
    BY <1>4, Inserted DEF r
  <2> QED BY <2>1 DEF HasInserted
<1>6. patch(l, d) = ApplyHunk(PatchedSoFar(n, r), Removal(from, n)).res
  BY <1>1, <1>2, <1>4
<1>7. /\ from + n + n <= Len(r)
      /\ ApplyHunk(PatchedSoFar(n, r), Removal(from, n)) = PatchedSoFar(n - n, q)
  <2>1. ApplyHunk(PatchedSoFar(n, r), Removal(from, n)).res.how = "ok"
    BY <1>3, <1>6
  <2>2. Removes(r, n, from, n)
    BY <1>1, <1>5, RemovalRemoves
  <2> QED BY <2>1, <2>2 DEF Removes, q
<1>8. patch(l, d).list = q
  BY <1>6, <1>7 DEF Done, PatchedSoFar
<1>9. \A i \in 1 .. Len(items) : q[insTo + i] = items[i]
  <2> DEFINE none == <<>>
  <2>1. none \in Seq(S) /\ Len(none) = 0
    BY EmptySeq
  <2>2. q = Replaced(r, from + n, n, none)
    BY DEF q
  <2> HIDE DEF none
  <2>3. IsReplaced(q, r, from + n, n, none)
    BY <1>1, <1>5, <1>7, <2>1, <2>2, ReplacedList
  <2> SUFFICES ASSUME NEW i \in 1 .. Len(items) PROVE q[insTo + i] = items[i]
    OBVIOUS
  <2>4. insTo + i \in 1 .. Len(r) - n + Len(none) /\ insTo + i <= from + n
    BY <1>1, <1>5, <1>7, <2>1
  <2>5. q[insTo + i] = r[insTo + i]
    BY <2>3, <2>4 DEF IsReplaced
  <2> QED BY <1>5, <2>5
<1>10. LeftAlone(Insertion(insTo, items), q, zero, <<>>)
  <2>1. \A i \in 1 .. Len(items) : q[insTo + zero + i] = items[i]
    BY <1>1, <1>9
  <2> QED BY <1>1, <2>1, InsertionLeft
<1>11. LeftAlone(Removal(from, n), q, n, <<Insertion(insTo, items)>>)
  BY RemovalLeft
<1>12. IdsKept(d, q)
  <2>1. n = 0 + Insertion(insTo, items).by
    BY InsertionParts
  <2> QED BY <1>10, <1>11, <2>1, TwoLeft DEF zero, d
<1> QED BY <1>8, <1>12 DEF d

\* A move down: the rows behind them have moved up.
LEMMA MoveDownKept ==
  ASSUME NEW S, NEW l \in Seq(S), NEW items \in Seq(S), items # <<>>, NEW insTo \in Nat,
         NEW from \in Nat, NEW n \in Nat, n = Len(items), n > 0,
         patch(l, <<Removal(from, n), Insertion(insTo, items)>>).how = "ok"
  PROVE  IdsKept(<<Removal(from, n), Insertion(insTo, items)>>,
                 patch(l, <<Removal(from, n), Insertion(insTo, items)>>).list)
<1> DEFINE r == Replaced(l, from, n, <<>>)
           q == Replaced(r, insTo - n, 0, items)
           zero == 0
           by == -n
           d == <<Removal(from, n), Insertion(insTo, items)>>
<1>1. /\ Len(l) \in Nat /\ zero \in Int /\ from + zero = from /\ zero - n = by
      /\ insTo \in Int /\ by \in Int /\ insTo + by = insTo - n /\ <<>> \in Seq(S)
  BY LenProperties, EmptySeq
<1>2. /\ patch(l, d) = ApplyHunk(ApplyHunk(PatchedSoFar(zero, l), Removal(from, n)),
                                 Insertion(insTo, items)).res
      /\ ApplyHunk(PatchedSoFar(zero, l), Removal(from, n)).res.how = "ok"
  BY FirstOk
<1>3. patch(l, d).how = "ok"
  OBVIOUS
<1> HIDE DEF r, q, zero, by, d
<1>4. /\ from + n <= Len(l)
      /\ ApplyHunk(PatchedSoFar(zero, l), Removal(from, n)) = PatchedSoFar(by, r)
  <2>1. Removes(l, zero, from, n)
    BY <1>1, RemovalRemoves
  <2> QED BY <1>1, <1>2, <2>1 DEF Removes, r
<1>5. r \in Seq(S)
  BY <1>1, <1>4, ReplacedList DEF r
<1>6. patch(l, d) = ApplyHunk(PatchedSoFar(by, r), Insertion(insTo, items)).res
  BY <1>2, <1>4
<1>7. ApplyHunk(PatchedSoFar(by, r), Insertion(insTo, items)).res.how = "ok"
  BY <1>3, <1>6
<1>8. LeftAlone(Removal(from, n), patch(l, d).list, zero, <<>>)
  BY RemovalLeft
<1>9. by = 0 + Removal(from, n).by
  BY <1>1, RemovalParts DEF by
<1>10. CASE insTo + by = -1
  \* The insertion appends, and its first line is line 0.
  <2> DEFINE m == patch(l, d).list
  <2>1. m = Tail(items) \o r \o <<Head(items)>>
    <3>1. Inserts(r, by, insTo, items)
      BY <1>1, <1>5, InsertionInserts
    <3>2. ApplyHunk(PatchedSoFar(by, r), Insertion(insTo, items)).res.list
            = Tail(items) \o r \o <<Head(items)>>
      BY <1>7, <1>10, <3>1 DEF Inserts
    <3> QED BY <1>6, <3>2
  <2>2. m \in Seq(S)
    <3>1. Tail(items) \in Seq(S) /\ Head(items) \in S
      BY HeadTailProperties
    <3>2. <<Head(items)>> \in Seq(S)
      BY <3>1
    <3>3. Tail(items) \o r \in Seq(S)
      BY <1>5, <3>1, ConcatProperties
    <3>4. (Tail(items) \o r) \o <<Head(items)>> \in Seq(S)
      BY <3>2, <3>3, ConcatProperties
    <3> QED BY <2>1, <3>4
  <2> HIDE DEF m
  <2>3. LeftAlone(Insertion(insTo, items), m, by, <<Removal(from, n)>>)
    <3> DEFINE h == Insertion(insTo, items)
               g == IdsAfter(m, by, <<Removal(from, n)>>)
    <3>1. h.at = insTo + 1 /\ h.rm = 0 /\ h.ins = items
      BY InsertionParts
    <3>2. g.shift = by /\ g.new = m
      BY DEF IdsAfter
    <3>3. "crash" \in DOMAIN g
      BY DEF IdsAfter
    <3> HIDE DEF h, g
    <3>4. h.at + by + h.rm + 0 = 0 /\ 0 \in 0 .. Len(h.ins) - 1
      BY <1>1, <1>10, <3>1
    <3>5. 0 \in Lines(h, g.shift)
      BY <3>2, <3>4 DEF Lines
    <3>6. 0 \notin DOMAIN g.new
      <4>1. DOMAIN m = 1 .. Len(m) /\ Len(m) \in Nat
        BY <2>2, LenProperties
      <4> QED BY <3>2, <4>1
    <3>7. WithItems(g, h) = [g EXCEPT !.crash = TRUE]
      BY <3>5, <3>6 DEF WithItems
    <3>8. WithItems(g, h).crash
      BY <3>3, <3>7
    <3> QED BY <3>8 DEF LeftAlone, g, h
  <2> QED BY <1>8, <1>9, <2>3, TwoLeft DEF zero, d, m
<1>11. CASE insTo + by # -1
  <2>1. /\ insTo - n \in Nat /\ insTo - n <= Len(r)
        /\ ApplyHunk(PatchedSoFar(by, r), Insertion(insTo, items))
             = PatchedSoFar(by + Len(items), q)
    <3>1. Inserts(r, by, insTo, items)
      BY <1>1, <1>5, InsertionInserts
    <3> QED BY <1>1, <1>7, <1>11, <3>1 DEF Inserts, q
  <2>2. patch(l, d).list = q
    BY <1>6, <2>1 DEF Done, PatchedSoFar
  <2>3. \A i \in 1 .. Len(items) : q[insTo - n + i] = items[i]
    <3> DEFINE pos == insTo - n
    <3>1. pos \in Nat /\ pos <= Len(r) /\ q = Replaced(r, pos, 0, items)
      BY <2>1 DEF q
    <3> HIDE DEF pos
    <3>2. HasInserted(S, q, r, pos, items)
      BY <1>5, <3>1, Inserted
    <3>3. \A i \in 1 .. Len(items) : q[pos + i] = items[i]
      BY <3>2 DEF HasInserted
    <3> QED BY <3>3 DEF pos
  <2>4. LeftAlone(Insertion(insTo, items), q, by, <<Removal(from, n)>>)
    <3>1. \A i \in 1 .. Len(items) : q[insTo + by + i] = items[i]
      BY <1>1, <2>3
    <3> QED BY <1>1, <3>1, InsertionLeft
  <2> QED BY <1>8, <1>9, <2>2, <2>4, TwoLeft DEF zero, d
<1> QED BY <1>10, <1>11

\* What is dragged is a row of songs, from where the first of them was.
LEMMA Dragged ==
  ASSUME NEW seen \in ListsOf("playlist"), NEW d \in Draggable("playlist", seen)
  PROVE  /\ Len(d) \in Nat /\ Len(d) > 0 /\ d # <<>> /\ d[1].row \in Nat
         /\ [i \in 1 .. Len(d) |-> d[i].item] \in Seq(Songs)
         /\ Len([i \in 1 .. Len(d) |-> d[i].item]) = Len(d)
<1>1. seen \in Seq(Songs)
  BY SongLists
<1>2. Len(seen) \in Nat /\ DOMAIN seen = 1 .. Len(seen) /\ \A i \in 1 .. Len(seen) : seen[i] \in Songs
  BY <1>1, LenProperties, ElementOfSeq
<1>3. d # <<>> /\ \E i, j \in DOMAIN seen : d = [n \in 1 .. j - i + 1 |-> Row(seen, i + n - 1)]
  BY DEF Draggable
<1>4. PICK i \in 1 .. Len(seen), j \in 1 .. Len(seen) :
         d = [n \in 1 .. j - i + 1 |-> Row(seen, i + n - 1)]
  BY <1>2, <1>3
<1> DEFINE k == j - i + 1
<1>5. k \in Int /\ d = [n \in 1 .. k |-> Row(seen, i + n - 1)]
  BY <1>2, <1>4
<1>6. k > 0
  <2> SUFFICES ASSUME ~ k > 0 PROVE FALSE
    OBVIOUS
  <2>1. 1 .. k = {}
    BY <1>5
  <2>2. DOMAIN d = {}
    BY <1>5, <2>1
  <2>3. d = <<>>
    <3>1. d \in Seq(Songs)
      <4>1. 1 .. 0 = {} /\ 0 \in Nat
        OBVIOUS
      <4>2. d = [n \in {} |-> Row(seen, i + n - 1)]
        BY <1>5, <2>1
      <4>3. d \in [1 .. 0 -> Songs]
        BY <4>1, <4>2
      <4> QED BY <4>1, <4>3, SeqDef
    <3>2. Len(d) \in Nat /\ DOMAIN d = 1 .. Len(d)
      BY <3>1, LenProperties
    <3>3. Len(d) = 0
      BY <2>2, <3>2
    <3> QED BY <3>1, <3>3, EmptySeq
  <2> QED BY <1>3, <2>3
<1>7. \A n \in 1 .. k : i + n - 1 \in 1 .. Len(seen)
  BY <1>2, <1>4, <1>6
<1>8. k \in Nat
  BY <1>5, <1>6
<1> HIDE DEF k
<1>9. \A n \in 1 .. k : d[n].row = i + n - 1 - 1 /\ d[n].item = seen[i + n - 1]
  BY <1>5 DEF Row
<1>10. Len(d) = k
  <2> DEFINE T == {Row(seen, i + n - 1) : n \in 1 .. k}
  <2>1. d \in [1 .. k -> T]
    BY <1>5
  <2> HIDE DEF T
  <2>2. d \in Seq(T)
    BY <1>8, <2>1, SeqDef
  <2>3. Len(d) \in Nat /\ DOMAIN d = 1 .. Len(d)
    BY <2>2, LenProperties
  <2>4. DOMAIN d = 1 .. k
    BY <2>1
  <2> DEFINE m == Len(d)
  <2>5. m \in Nat /\ 1 .. m = 1 .. k
    BY <2>3, <2>4
  <2> HIDE DEF m
  <2>6. m = k
    BY <1>8, <2>5
  <2> QED BY <2>6 DEF m
<1>11. d[1].row \in Nat
  <2>1. 1 \in 1 .. k /\ i + 1 - 1 - 1 \in Nat
    BY <1>4, <1>6, <1>8
  <2>2. d[1].row = i + 1 - 1 - 1
    BY <1>9, <2>1
  <2> QED BY <2>1, <2>2
<1> DEFINE items == [m \in 1 .. Len(d) |-> d[m].item]
<1>12. items \in [1 .. k -> Songs]
  <2>1. \A n \in 1 .. k : d[n].item \in Songs
    BY <1>2, <1>7, <1>9
  <2> QED BY <1>10, <2>1
<1> HIDE DEF items
<1>13. items \in Seq(Songs) /\ DOMAIN items = 1 .. k
  BY <1>8, <1>12, SeqDef
<1>14. Len(items) = k
  <2>1. Len(items) \in Nat /\ DOMAIN items = 1 .. Len(items)
    BY <1>13, LenProperties
  <2> QED BY <1>8, <1>13, <2>1
<1> QED BY <1>3, <1>6, <1>8, <1>10, <1>11, <1>13, <1>14 DEF items

\* Ids do not change what an edit of the playlist does.
LEMMA EditKept ==
  ASSUME NEW l \in ListsOf("playlist"), NEW seen \in ListsOf("playlist"),
         NEW now \in ListsOf("playlist"),
         NEW d \in Draggable("playlist", seen) \cup {<<>>}, NEW e \in DropsOn("playlist", d, now),
         patch(l, e.diff).how = "ok"
  PROVE  IdsKept(e.diff, patch(l, e.diff).list)
<1>1. l \in Seq(Songs) /\ Len(now) \in Nat
  BY SongLists, LenProperties
<1>2. e.diff \in IF d = <<>> THEN InsertEdits(now) ELSE DropEdits(d, now)
  BY DEF DropsOn
<1>3. CASE d = <<>>
  <2>1. PICK s \in Songs, insTo \in 0 .. Len(now) : e.diff = <<Insertion(insTo, <<s>>)>>
    <3>1. e.diff \in InsertEdits(now)
      BY <1>2, <1>3
    <3>2. PICK s \in Songs, insTo \in 0 .. Len(now) : e.diff \in PutIn(s, insTo)
      BY <3>1 DEF InsertEdits
    <3> QED BY <3>2 DEF PutIn
  <2>2. <<s>> \in Seq(Songs) /\ <<s>> # <<>> /\ insTo \in Nat
    BY <1>1
  <2> QED BY <1>1, <2>1, <2>2, PutInKept
<1>4. CASE d # <<>>
  <2> DEFINE n == Len(d)
             from == d[1].row
             items == [i \in 1 .. n |-> d[i].item]
  <2>1. n \in Nat /\ n > 0 /\ from \in Nat /\ items \in Seq(Songs) /\ Len(items) = n
    BY <1>4, Dragged
  <2>2. items # <<>>
    <3> HIDE DEF items, n
    <3> QED BY <2>1, EmptySeq
  <2>3. e.diff \in TakeOut(d) \/ \E insTo \in 0 .. Len(now) : e.diff \in Move(d, insTo)
    BY <1>2, <1>4 DEF DropEdits
  <2>4. CASE e.diff \in TakeOut(d)
    <3>1. e.diff = <<Removal(from, n)>>
      BY <2>4 DEF TakeOut
    <3> QED BY <3>1, RemovalLeft, OneLeft
  <2>5. ASSUME NEW insTo \in 0 .. Len(now), e.diff \in Move(d, insTo)
        PROVE  IdsKept(e.diff, patch(l, e.diff).list)
    <3>1. \/ from > insTo /\ e.diff = <<Insertion(insTo, items), Removal(from, n)>>
          \/ e.diff = <<Removal(from, n), Insertion(insTo, items)>>
      BY <2>5 DEF Move
    <3>2. insTo \in Nat
      BY <1>1
    <3> HIDE DEF n, from, items
    <3>3. CASE from > insTo /\ e.diff = <<Insertion(insTo, items), Removal(from, n)>>
      BY <1>1, <2>1, <2>2, <3>2, <3>3, MoveUpKept
    <3>4. CASE e.diff = <<Removal(from, n), Insertion(insTo, items)>>
      BY <1>1, <2>1, <2>2, <3>2, <3>4, MoveDownKept
    <3> QED BY <3>1, <3>3, <3>4
  <2> QED BY <2>3, <2>4, <2>5
<1> QED BY <1>3, <1>4

-----------------------------------------------------------------------------
(* What the protocol needs holds of the code's own operators.              *)

\* The operators of MediaSession are those of SessionEdits and ListPatch.
CodesOperators ==
  /\ Kinds \subseteq ListKinds /\ NoDrag = <<>>
  /\ \A k : Lists(k) = ListsOf(k)
  /\ \A l, d : Patch(l, d) = patch(l, d)
  /\ \A l, new : Diff(l, new) = LineDiff(l, new)
  /\ \A d, new : AddIds(d, new) = addIdToPlaylistDiff(d, new)
  /\ \A k, l : ServerEdits(k, l) = DaemonEdits(k, l)
  /\ \A k, l : RestoreEdits(k, l) = restore(k, l)
  /\ \A k, l : Drags(k, l) = Draggable(k, l)
  /\ \A k, d, l : Edits(k, d, l) = DropsOn(k, d, l)

LEMMA DaemonEditWorks ==
  ASSUME NEW k, NEW l \in ListsOf(k), NEW e \in DaemonEdits(k, l), ~e.crash, k \in ListKinds
  PROVE  EditWorks(k, l, e)
<1>1. CASE k = "mediacol"
  BY <1>1, CollectionWorks DEF DaemonEdits
<1>2. CASE k = "playlist"
  BY <1>2 DEF DaemonEdits
<1>3. CASE k = "nextlist"
  BY <1>3, NextWorks DEF DaemonEdits
<1>4. CASE k = "state"
  <2>1. e \in UNION {addClientStateDiff(l, n) \cup rmClientStateDiff(l, n) : n \in Names}
    BY <1>4 DEF DaemonEdits
  <2>2. PICK n \in Names : e \in addClientStateDiff(l, n) \/ e \in rmClientStateDiff(l, n)
    BY <2>1
  <2> QED BY <1>4, <2>2, AddWorks, RemoveWorks
<1> QED BY <1>1, <1>2, <1>3, <1>4 DEF ListKinds

(***************************************************************************)
(* SessionAssumption is true of CRootItem::patch, CCategoryItem::diff,     *)
(* addIdToPlaylistDiff and the edits of daemon and clients, for lists of   *)
(* any length and any set of songs and names: a diff leads from the one    *)
(* list to the other, an edit of the daemon to the list the daemon keeps   *)
(* (or its patch throws), what clients insert is what the daemon finds at  *)
(* the lines it counts to, and restoring keeps the order of clients.       *)
(***************************************************************************)
THEOREM CodeMeetsAssumption ==
  ASSUME CodesOperators
  PROVE  /\ \A k \in Kinds : DiffWorks(k) /\ ServerEditsWork(k) /\ StayLists(k)
         /\ IdsWork("playlist")
<1>1. ASSUME NEW k \in Kinds PROVE DiffWorks(k)
  <2> SUFFICES ASSUME NEW l \in Lists(k), NEW new \in Lists(k)
               PROVE  Patch(l, Diff(l, new)) = [how |-> "ok", list |-> new]
    BY DEF DiffWorks
  <2>1. l \in ListsOf(k) /\ new \in ListsOf(k)
    BY CodesOperators DEF CodesOperators
  <2>2. PICK S : ListsOf(k) \subseteq Seq(S)
    BY ListsAreSeqs
  <2>3. patch(l, LineDiff(l, new)) = Done(new)
    BY <2>1, <2>2, DiffLeads
  <2> QED BY <2>3 DEF CodesOperators, Done
<1>2. ASSUME NEW k \in Kinds PROVE ServerEditsWork(k)
  <2> SUFFICES ASSUME NEW l \in Lists(k), NEW e \in ServerEdits(k, l), ~e.crash
               PROVE  e.list \in Lists(k) /\ Leads(l, e.diff, e.list)
    BY DEF ServerEditsWork
  <2>1. l \in ListsOf(k) /\ e \in DaemonEdits(k, l) /\ k \in ListKinds
    BY DEF CodesOperators
  <2>2. EditWorks(k, l, e)
    BY <2>1, DaemonEditWorks
  <2> QED BY <2>2 DEF CodesOperators, EditWorks, Leads
<1>3. ASSUME NEW k \in Kinds PROVE StayLists(k)
  <2>1. <<>> \in ListsOf(k)
    <3>1. <<>> \in Seq(Render) /\ <<>> \in Seq(Songs) /\ Len(<<>>) = 0 /\ DOMAIN <<>> = {}
      OBVIOUS
    <3>2. Sorted(<<>>) /\ Len(<<>>) <= MaxSongs
      BY <3>1, EditsAssumption DEF Sorted
    <3>3. CASE k = "state"
      BY <3>1, <3>2, <3>3, StateLists
    <3>4. CASE k # "state"
      BY <3>1, <3>2, <3>4, SongLists
    <3> QED BY <3>3, <3>4
  <2>2. ASSUME NEW l \in ListsOf(k)
        PROVE  restore(k, l) \subseteq ListsOf(k)
    BY RestoredList DEF restore
  <2>3. ASSUME NEW l \in ListsOf(k), NEW i \in 0 .. Len(l)
        PROVE  SubSeq(l, 1, i) \in ListsOf(k)
    BY FirstPart
  <2>4. Lists(k) = ListsOf(k) /\ \A l : RestoreEdits(k, l) = restore(k, l)
    BY DEF CodesOperators
  <2> QED BY <2>1, <2>2, <2>3, <2>4 DEF StayLists
<1>4. IdsWork("playlist")
  <2> DEFINE k == "playlist"
  <2> SUFFICES ASSUME NEW l \in Lists(k), NEW seen \in Lists(k), NEW now \in Lists(k),
                      NEW d \in Drags(k, seen) \cup {NoDrag}, NEW e \in Edits(k, d, now),
                      Patch(l, e.diff).how = "ok",
                      ~AddIds(e.diff, Patch(l, e.diff).list).crash
               PROVE  Leads(l, AddIds(e.diff, Patch(l, e.diff).list).diff, Patch(l, e.diff).list)
    BY DEF IdsWork
  <2>1. /\ l \in ListsOf(k) /\ seen \in ListsOf(k) /\ now \in ListsOf(k)
        /\ d \in Draggable(k, seen) \cup {<<>>} /\ e \in DropsOn(k, d, now)
    BY DEF CodesOperators
  <2> DEFINE new == Patch(l, e.diff)
  <2>2. new = patch(l, e.diff) /\ AddIds(e.diff, new.list) = addIdToPlaylistDiff(e.diff, new.list)
    BY DEF CodesOperators
  <2>3. IdsKept(e.diff, patch(l, e.diff).list)
    BY <2>1, <2>2, EditKept
  <2>4. AddIds(e.diff, new.list).diff = e.diff
    BY <2>2, <2>3 DEF IdsKept
  <2>5. Leads(l, e.diff, new.list)
    BY DEF Leads
  <2> QED BY <2>4, <2>5
<1> QED BY <1>1, <1>2, <1>3, <1>4
=============================================================================
