----------------------------- MODULE MediaSession -----------------------------
(***************************************************************************)
(* One list of a media session: the daemon (msessiond) keeps its numbered  *)
(* revisions and saves each, clients (mqtclient) hold a copy of one of     *)
(* them and edit it by diffs against its number.  The kinds of list (media *)
(* collection, playlist, nextlist, session state) share the protocol, with *)
(* the differences the actions name; one behaviour follows one of them.    *)
(*                                                                         *)
(* What the edits are and what a diff does to a list are operators, see    *)
(* SessionEdits and ListPatch.  Revision 0 is the empty list.              *)
(***************************************************************************)
EXTENDS Naturals, Sequences, FiniteSets

CONSTANTS
  Clients,
  Editors,            \* the clients whose users edit
  Kinds,
  Lists(_),           \* the lists of a kind
  Patch(_, _),        \* CRootItem::patch, as [how, list]
  Diff(_, _),         \* CCategoryItem::diff
  AddIds(_, _),       \* addIdToPlaylistDiff, as [crash, diff]
  ServerEdits(_, _),  \* edits the daemon makes, as [crash, list, diff]
  RestoreEdits(_, _), \* what restoring makes of the last session state
  Drags(_, _),        \* what a user can drag from a list
  Edits(_, _, _),     \* edits by dropping a drag on a list, as [diff, local]
  NoDrag,
  MaxRev,             \* bound: revisions
  MaxEdits            \* bound: edits under way from one client

(***************************************************************************)
(* What the protocol needs of the operators, on lists of one kind: the     *)
(* diff between two lists leads from one to the other; so does the diff of *)
(* an edit the daemon makes, unless its patch throws; ids do not change    *)
(* what an edit does; edits and restoring make lists, and the first part   *)
(* of a list is one.                                                       *)
(***************************************************************************)
Leads(l, d, new) == Patch(l, d).how = "ok" => Patch(l, d).list = new

DiffWorks(k) == \A l, new \in Lists(k) : Patch(l, Diff(l, new)) = [how |-> "ok", list |-> new]

ServerEditsWork(k) ==
  \A l \in Lists(k) : \A e \in ServerEdits(k, l) :
    ~e.crash => e.list \in Lists(k) /\ Leads(l, e.diff, e.list)

IdsWork(k) ==
  \A l, seen, now \in Lists(k) : \A d \in Drags(k, seen) \cup {NoDrag} : \A e \in Edits(k, d, now) :
    LET new == Patch(l, e.diff)
    IN new.how = "ok" /\ ~AddIds(e.diff, new.list).crash
         => Leads(l, AddIds(e.diff, new.list).diff, new.list)

StayLists(k) ==
  /\ <<>> \in Lists(k)
  /\ \A l \in Lists(k) : /\ RestoreEdits(k, l) \subseteq Lists(k)
                         /\ \A i \in 0 .. Len(l) : SubSeq(l, 1, i) \in Lists(k)

ASSUME SessionAssumption ==
  /\ MaxRev \in Nat /\ MaxEdits \in Nat /\ Editors \subseteq Clients
  /\ \A k \in Kinds : DiffWorks(k) /\ ServerEditsWork(k) /\ StayLists(k)
  /\ "playlist" \in Kinds => IdsWork("playlist")

VARIABLES
  kind,     \* of the list
  up,       \* the daemon: up, down, or unable to restore the session
  revs,     \* m_...Revs from 1 on, as they are in the storage too
  conn,     \* connections: off, on (join under way), joined
  toSrv,    \* client to daemon, in order
  toClnt,   \* daemon to client, in order
  rev,      \* m_revision of the client's copy
  list,     \* its content
  drag,     \* rows a user drags, as they were when it began
  astray    \* history: the copy was emptied or changed by the client itself

serverVars == <<up, revs>>
clientVars == <<rev, list, drag, astray>>
vars == <<kind, serverVars, conn, toSrv, toClnt, clientVars>>

Latest == Len(revs)
Rev(n) == IF n = 0 THEN <<>> ELSE revs[n]

Join == [type |-> "join"]
Get(known) == [type |-> "get", known |-> known]
EditCmd(from, diff) == [type |-> "edit", from |-> from, diff |-> diff]
Full(from, to, l) == [from |-> from, to |-> to, full |-> TRUE, list |-> l, diff |-> <<>>]
DiffMsg(from, to, d) == [from |-> from, to |-> to, full |-> FALSE, list |-> <<>>, diff |-> d]

Init ==
  /\ kind \in Kinds
  /\ up = "up" /\ revs = <<>>
  /\ conn = [c \in Clients |-> "off"]
  /\ toSrv = [c \in Clients |-> <<>>] /\ toClnt = [c \in Clients |-> <<>>]
  /\ rev = [c \in Clients |-> 0] /\ list = [c \in Clients |-> <<>>]
  /\ drag = [c \in Clients |-> NoDrag] /\ astray = [c \in Clients |-> FALSE]

-----------------------------------------------------------------------------
(* The daemon.                                                             *)

EditsUnderWay(c) == {i \in DOMAIN toSrv[c] : toSrv[c][i].type = "edit"}

\* Bound: an edit is only made if there is a revision left for it.
RoomForEdit ==
  Latest + Cardinality(UNION {{c} \X EditsUnderWay(c) : c \in Clients}) < MaxRev

Joined == {c \in Clients : conn[c] = "joined"}

toAll(m) ==
  toClnt' = [c \in Clients |-> IF c \in Joined THEN Append(toClnt[c], m) ELSE toClnt[c]]

Received(c) == toSrv' = [toSrv EXCEPT ![c] = Tail(@)]

\* Every connection ends with the daemon.
Dies ==
  /\ conn' = [c \in Clients |-> "off"]
  /\ toSrv' = [c \in Clients |-> <<>>] /\ toClnt' = [c \in Clients |-> <<>>]

onJoinSession(c) ==
  /\ toSrv[c] # <<>> /\ Head(toSrv[c]) = Join
  /\ conn' = [conn EXCEPT ![c] = "joined"]
  /\ Received(c)
  /\ UNCHANGED <<kind, serverVars, toClnt, clientVars>>

(***************************************************************************)
(* sendLatest...Rev: a diff from the revision the client says it knows, or *)
(* the whole list; the message starts at that number in both cases.  Only  *)
(* another client than mqtclient could ask for a diff: it says 0.          *)
(***************************************************************************)
sendLatestRev(known) ==
  IF known > 0 /\ known <= Latest
  THEN DiffMsg(known, Latest, Diff(Rev(known), Rev(Latest)))
  ELSE Full(known, Latest, Rev(Latest))

onGet(c) ==
  /\ toSrv[c] # <<>> /\ Head(toSrv[c]).type = "get"
  /\ toClnt' = [toClnt EXCEPT ![c] = Append(@, sendLatestRev(Head(toSrv[c]).known))]
  /\ Received(c)
  /\ UNCHANGED <<kind, serverVars, conn, clientVars>>

(***************************************************************************)
(* What CCmdDispatcher sends of an edit: the list if it is the first       *)
(* revision, else the client's diff, with ids in a playlist.               *)
(***************************************************************************)
EditMsg(from, diff, new) ==
  IF Latest = 0 THEN Full(from, Latest + 1, new)
  ELSE DiffMsg(from, Latest + 1, IF kind = "playlist" THEN AddIds(diff, new).diff ELSE diff)

\* The revision is saved before anything is sent.
IdsCrash(diff, new) == kind = "playlist" /\ Latest > 0 /\ AddIds(diff, new).crash

(***************************************************************************)
(* EDIT_PLAYLIST, EDIT_NEXTLIST, EDIT_SESSION_STATE: the diff is applied   *)
(* to the revision it names, which need not be the latest, and makes a new *)
(* one.  An unknown revision or a bad patch is reported to the client,     *)
(* which does nothing with the report.                                     *)
(***************************************************************************)
EditTakes(c, m) ==
  LET new == Patch(Rev(m.from), m.diff)
  IN /\ m.from <= Latest /\ new.how = "ok" /\ ~IdsCrash(m.diff, new.list)
     /\ revs' = Append(revs, new.list)
     /\ toAll(EditMsg(m.from, m.diff, new.list))
     /\ Received(c)
     /\ UNCHANGED <<up, conn>>

EditRefused(c, m) ==
  /\ IF m.from > Latest THEN TRUE ELSE Patch(Rev(m.from), m.diff).how = "malformed"
  /\ Received(c)
  /\ UNCHANGED <<serverVars, conn, toClnt>>

EditKills(m) ==
  /\ m.from <= Latest
  /\ LET new == Patch(Rev(m.from), m.diff)
     IN \/ new.how = "crash" /\ UNCHANGED revs
        \/ /\ new.how = "ok" /\ IdsCrash(m.diff, new.list)
           /\ revs' = Append(revs, new.list)
  /\ up' = "down" /\ Dies

onEdit(c) ==
  /\ toSrv[c] # <<>> /\ Head(toSrv[c]).type = "edit"
  /\ LET m == Head(toSrv[c])
     IN EditTakes(c, m) \/ EditRefused(c, m) \/ EditKills(m)
  /\ UNCHANGED <<kind, clientVars>>

\* The daemon's own edits: the list if it is the first revision, else the diff.
ServerEdit ==
  /\ up = "up" /\ RoomForEdit
  /\ \E e \in ServerEdits(kind, Rev(Latest)) :
       IF e.crash THEN up' = "down" /\ Dies /\ UNCHANGED revs
       ELSE /\ revs' = Append(revs, e.list)
            /\ toAll(IF Latest = 0 THEN Full(0, 1, e.list)
                     ELSE DiffMsg(Latest, Latest + 1, e.diff))
            /\ UNCHANGED <<up, conn, toSrv>>
  /\ UNCHANGED <<kind, clientVars>>

Die ==
  /\ up = "up" /\ up' = "down" /\ Dies
  /\ UNCHANGED <<kind, revs, clientVars>>

(***************************************************************************)
(* It dies while it writes the file of a new revision.  If the header is   *)
(* cut, restoring throws and the session cannot be opened again; if the    *)
(* list is, it is restored as far as it goes.                              *)
(***************************************************************************)
NewLists ==
  {e.list : e \in {f \in ServerEdits(kind, Rev(Latest)) : ~f.crash}}
  \cup {Patch(Rev(Head(toSrv[c]).from), Head(toSrv[c]).diff).list :
          c \in {d \in Clients : /\ toSrv[d] # <<>> /\ Head(toSrv[d]).type = "edit"
                                /\ Head(toSrv[d]).from <= Latest
                                /\ Patch(Rev(Head(toSrv[d]).from), Head(toSrv[d]).diff).how = "ok"}}

DieSaving ==
  /\ up = "up" /\ Latest < MaxRev
  /\ \E new \in NewLists :
       \/ up' = "stuck" /\ UNCHANGED revs
       \/ /\ up' = "down"
          /\ \E i \in 0 .. Len(new) : revs' = Append(revs, SubSeq(new, 1, i))
  /\ Dies /\ UNCHANGED <<kind, clientVars>>

\* Mutant of Restart: the loop over the files stops one short.
Restart_OneShort ==
  /\ up = "down" /\ up' = "up"
  /\ revs' = SubSeq(revs, 1, Latest - 1)
  /\ UNCHANGED <<kind, conn, toSrv, toClnt, clientVars>>

\* CSessionStorage::restore: the state may get a revision more, also an empty one
\* that only has the category of clients the restored one was without.
Restart ==
  /\ up = "down" /\ up' = "up"
  /\ \E l \in RestoreEdits(kind, Rev(Latest)) :
       \/ l = Rev(Latest) /\ UNCHANGED revs
       \/ /\ l # Rev(Latest) \/ (kind = "state" /\ l = <<>>)
          /\ Latest < MaxRev /\ revs' = Append(revs, l)
  /\ UNCHANGED <<kind, conn, toSrv, toClnt, clientVars>>

-----------------------------------------------------------------------------
(* The clients.                                                            *)

\* doJoinSession: CConnection::sendCommand passes the number the client knows as
\* the id of the job, so every join asks for the whole list.
doJoinSession(c) ==
  /\ up = "up" /\ conn[c] = "off"
  /\ conn' = [conn EXCEPT ![c] = "on"]
  /\ toSrv' = [toSrv EXCEPT ![c] = <<Join, Get(0)>>]
  /\ UNCHANGED <<kind, serverVars, toClnt, clientVars>>

\* The connection closes, or the client ends; lists but the state are saved.
Disconnect(c) ==
  /\ conn[c] # "off"
  /\ conn' = [conn EXCEPT ![c] = "off"]
  /\ toSrv' = [toSrv EXCEPT ![c] = <<>>] /\ toClnt' = [toClnt EXCEPT ![c] = <<>>]
  /\ drag' = [drag EXCEPT ![c] = NoDrag]
  /\ UNCHANGED <<kind, serverVars, rev, list, astray>>

\* A client that crashes, or starts without its files, has revision 0.
StartsAfresh(c) ==
  /\ conn' = [conn EXCEPT ![c] = "off"]
  /\ toSrv' = [toSrv EXCEPT ![c] = <<>>] /\ toClnt' = [toClnt EXCEPT ![c] = <<>>]
  /\ rev' = [rev EXCEPT ![c] = 0] /\ list' = [list EXCEPT ![c] = <<>>]
  /\ drag' = [drag EXCEPT ![c] = NoDrag] /\ astray' = [astray EXCEPT ![c] = FALSE]

ClientDies(c) == StartsAfresh(c) /\ UNCHANGED <<kind, serverVars>>

BeginDrag(c) ==
  /\ c \in Editors /\ conn[c] # "off" /\ drag[c] = NoDrag /\ list[c] \in Lists(kind)
  /\ \E d \in Drags(kind, list[c]) : drag' = [drag EXCEPT ![c] = d]
  /\ UNCHANGED <<kind, serverVars, conn, toSrv, toClnt, rev, list, astray>>

\* Bound: what edits are made from and what they make are lists.
InBounds(c, e) ==
  LET new == Patch(Rev(rev[c]), e.diff)
  IN new.how = "ok" => new.list \in Lists(kind)

\* The number sent with an edit is read when the user drops, the rows are not.
Drop(c) ==
  /\ c \in Editors /\ conn[c] # "off" /\ list[c] \in Lists(kind)
  /\ RoomForEdit /\ Cardinality(EditsUnderWay(c)) < MaxEdits
  /\ \E e \in Edits(kind, drag[c], list[c]) :
       /\ InBounds(c, e)
       /\ toSrv' = [toSrv EXCEPT ![c] = Append(@, EditCmd(rev[c], e.diff))]
       /\ list' = [list EXCEPT ![c] = e.local]
       /\ astray' = [astray EXCEPT ![c] = @ \/ e.local # list[c]]
  /\ drag' = [drag EXCEPT ![c] = NoDrag]
  /\ UNCHANGED <<kind, serverVars, conn, toClnt, rev>>

\* Processing a message leaves the list, its number and a request for a full copy.
Keeps(l, n, astr) == [list |-> l, rev |-> n, refetch |-> FALSE, crash |-> FALSE, astray |-> astr]
Refetches(l, n, astr) == [Keeps(l, n, astr) EXCEPT !.refetch = TRUE]
Crashes == [Keeps(<<>>, 0, FALSE) EXCEPT !.crash = TRUE]

\* Mutant of Patched: a diff from another revision is applied.
Patched_Any(m, l, n, astr) ==
  IF m.full THEN Crashes
  ELSE LET new == Patch(l, m.diff)
       IN CASE new.how = "ok" -> Keeps(new.list, m.to, astr)
            [] new.how = "malformed" -> Refetches(new.list, n, TRUE)
            [] OTHER -> Crashes

\* Mutant of Patched: a diff from another revision is only dropped.
Patched_Dropped(m, l, n, astr) ==
  IF n # m.from THEN Keeps(l, n, astr)
  ELSE LET new == Patch(l, m.diff)
       IN CASE new.how = "ok" -> Keeps(new.list, m.to, astr)
            [] new.how = "malformed" -> Refetches(new.list, n, TRUE)
            [] OTHER -> Crashes

\* A list where a diff is expected fails an assertion in patch.
Patched(m, l, n, astr) ==
  IF n # m.from THEN Refetches(l, n, astr)
  ELSE IF m.full THEN Crashes
  ELSE LET new == Patch(l, m.diff)
       IN CASE new.how = "ok" -> Keeps(new.list, m.to, astr)
            [] new.how = "malformed" -> Refetches(new.list, n, TRUE)
            [] OTHER -> Crashes

\* A diff where a list is expected throws when the list is already emptied; the
\* media collection's handler takes the new number all the same.
Deserialized(m, n) ==
  IF m.full THEN Keeps(m.list, m.to, FALSE)
  ELSE IF kind = "mediacol" THEN Keeps(<<>>, m.to, TRUE)
  ELSE Refetches(<<>>, n, TRUE)

(***************************************************************************)
(* onEditPlaylist and its siblings.                                        *)
(***************************************************************************)
onEditMsg(c) ==
  /\ toClnt[c] # <<>>
  /\ LET m == Head(toClnt[c])
         r == IF m.from = 0 THEN Deserialized(m, rev[c])
              ELSE Patched(m, list[c], rev[c], astray[c])
     IN IF r.crash THEN StartsAfresh(c)
        ELSE /\ list' = [list EXCEPT ![c] = r.list] /\ rev' = [rev EXCEPT ![c] = r.rev]
             /\ astray' = [astray EXCEPT ![c] = r.astray]
             /\ toSrv' = [toSrv EXCEPT ![c] = IF r.refetch THEN Append(@, Get(0)) ELSE @]
             /\ toClnt' = [toClnt EXCEPT ![c] = Tail(@)]
             /\ UNCHANGED <<conn, drag>>
  /\ UNCHANGED <<kind, serverVars>>

Next ==
  \/ \E c \in Clients :
       \/ onJoinSession(c) \/ onGet(c) \/ onEdit(c)
       \/ doJoinSession(c) \/ Disconnect(c) \/ ClientDies(c)
       \/ BeginDrag(c) \/ Drop(c) \/ onEditMsg(c)
  \/ ServerEdit \/ Die \/ DieSaving \/ Restart

Spec == Init /\ [][Next]_vars

-----------------------------------------------------------------------------
(* Properties.                                                             *)

\* Variables have their types.
TypeOK ==
  /\ kind \in Kinds /\ up \in {"up", "down", "stuck"}
  /\ revs \in Seq(Lists(kind))
  /\ \A c \in Clients :
       /\ drag[c] = NoDrag \/ \E l \in Lists(kind) : drag[c] \in Drags(kind, l)
       /\ rev[c] \in 0 .. Latest /\ astray[c] \in BOOLEAN
       /\ conn[c] \in {"off", "on", "joined"}
       /\ conn[c] = "off" => toSrv[c] = <<>>
       /\ conn[c] # "joined" => toClnt[c] = <<>>
  /\ up # "up" => \A c \in Clients : conn[c] = "off"

(***************************************************************************)
(* A client that says it has revision n has what the daemon calls revision *)
(* n (CConnection::onEditPlaylist takes a diff only for its own revision,  *)
(* CCmdDispatcher::incomingCmd and sendLatestPlaylistRev send diffs that   *)
(* lead from revision to revision), across crashes of the daemon and new   *)
(* connections, unless it emptied or changed its copy itself.              *)
(***************************************************************************)
HoldersAgree == \A c \in Clients : astray[c] \/ list[c] = Rev(rev[c])

(***************************************************************************)
(* A joined client that has read all it was sent, and whose requests have  *)
(* been answered, holds the latest revision: a client that missed one, or  *)
(* whose diff did not fit, or whose copy is of an earlier connection,      *)
(* never rests on a stale copy (CConnection::onEditPlaylist asks for a     *)
(* full copy; doJoinSession asks for one after the request that makes the  *)
(* daemon send it everything, and changes may be sent before the answer).  *)
(***************************************************************************)
Resting(c) == conn[c] = "joined" /\ toSrv[c] = <<>> /\ toClnt[c] = <<>>

Converged == \A c \in Clients : Resting(c) => rev[c] = Latest

(***************************************************************************)
(* An edit whose patch succeeded is sent: "if there was no exception, the  *)
(* diff is ok, send it to all clients" (CCmdDispatcher::incomingCmd).      *)
(***************************************************************************)
NoExceptionIsOk ==
  \A c \in Clients :
    toSrv[c] # <<>> /\ Head(toSrv[c]).type = "edit" =>
      LET m == Head(toSrv[c])
      IN m.from <= Latest /\ Patch(Rev(m.from), m.diff).how = "ok"
           => ~IdsCrash(m.diff, Patch(Rev(m.from), m.diff).list)
=============================================================================
