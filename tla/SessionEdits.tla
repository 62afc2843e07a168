----------------------------- MODULE SessionEdits -----------------------------
(***************************************************************************)
(* The edits of a media session's four kinds of lists: those the daemon    *)
(* makes (a rescan of the media collection, the next song, a render client *)
(* that appears or disappears) with the list it keeps and the diff it      *)
(* sends, and those a client builds from what its user drags.  Songs are   *)
(* numbers.  A render client is a record of a name (a number, the daemon   *)
(* keeps them in order), whether it is enabled, and whether this session   *)
(* owns it.                                                                *)
(***************************************************************************)
EXTENDS ListPatch

CONSTANTS
  Songs,    \* media items
  Names,    \* of render clients
  MaxSongs  \* bound: songs in a list

ASSUME EditsAssumption == Names \subseteq Nat /\ IsFiniteSet(Names) /\ MaxSongs \in Nat

ListKinds == {"mediacol", "playlist", "nextlist", "state"}

Render == [name : Names, on : BOOLEAN, own : BOOLEAN]
Sorted(l) == \A i, j \in DOMAIN l : i < j => l[i].name < l[j].name

ListsOf(k) ==
  IF k = "state" THEN {l \in BoundedSeq(Render, Cardinality(Names)) : Sorted(l)}
  ELSE BoundedSeq(Songs, MaxSongs)

-----------------------------------------------------------------------------
(* Edits the daemon makes.                                                 *)

Made(l, diff) == {[crash |-> FALSE, list |-> l, diff |-> diff]}
NullItem == {[crash |-> TRUE, list |-> <<>>, diff |-> <<>>]}

\* CSession::collectionChanged: the scanner's new collection.
collectionChanged(l) == UNION {Made(new, LineDiff(l, new)) : new \in ListsOf("mediacol") \ {l}}

(***************************************************************************)
(* CSession::addNextlistRevFromNextCmd.  The last song is replaced by the  *)
(* one after it in the playlist; there is none in an empty playlist, and   *)
(* no song to leave in an empty nextlist.                                  *)
(***************************************************************************)
nextCmd(l) ==
  IF l = <<>> THEN NullItem
  ELSE IF Len(l) = 1
       THEN NullItem \cup UNION {Made(<<s>>, <<Hunk(1, 0, 1, <<s>>)>>) : s \in Songs}
  ELSE Made(Tail(l), <<Hunk(1, -1, 1, <<>>)>>)

(***************************************************************************)
(* CStreamClientHdl::addClientStateDiff: a new client is put in at its     *)
(* place in the order of names, a known one is enabled.  If the list was   *)
(* never there (not even empty), the place is -1 and the header has no     *)
(* number.                                                                 *)
(***************************************************************************)
addClientStateDiff(l, name) ==
  LET known == {i \in DOMAIN l : l[i].name = name}
      before == Cardinality({i \in DOMAIN l : l[i].name < name})
      new == [name |-> name, on |-> TRUE, own |-> \E i \in known : l[i].own]
  IN IF known = {}
     THEN Made(SubSeq(l, 1, before) \o <<new>> \o SubSeq(l, before + 1, Len(l)),
               <<Hunk(before + 1, 1, 0, <<new>>)>>)
          \cup (IF l = <<>> THEN Made(<<new>>, <<BadHunk>>) ELSE {})
     ELSE UNION {IF l[i] = new THEN {} ELSE Made([l EXCEPT ![i] = new], <<Hunk(i, 0, 1, <<new>>)>>)
                 : i \in known}

\* CStreamClientHdl::rmClientStateDiff: an own client is disabled, another removed.
rmClientStateDiff(l, name) ==
  UNION {IF l[i].own /\ ~l[i].on THEN {}
         ELSE IF l[i].own
         THEN LET off == [l[i] EXCEPT !.on = FALSE]
              IN Made([l EXCEPT ![i] = off], <<Hunk(i, 0, 1, <<off>>)>>)
         ELSE Made(SubSeq(l, 1, i - 1) \o SubSeq(l, i + 1, Len(l)), <<Hunk(i, -1, 1, <<>>)>>)
         : i \in {j \in DOMAIN l : l[j].name = name}}

DaemonEdits(k, l) ==
  CASE k = "mediacol" -> collectionChanged(l)
    [] k = "playlist" -> {}
    [] k = "nextlist" -> nextCmd(l)
    [] k = "state" -> UNION {addClientStateDiff(l, n) \cup rmClientStateDiff(l, n) : n \in Names}

(***************************************************************************)
(* CSessionStorage::restoreSessionStateRevs: which of its clients a        *)
(* restarted daemon finds on the network decides which are enabled; one    *)
(* that is another session's and is not there is removed, and the loop     *)
(* then passes over the client behind it.                                  *)
(***************************************************************************)
RestoreClient(there, sofar, r) ==
  IF sofar.pass THEN [pass |-> FALSE, list |-> Append(sofar.list, r)]
  ELSE IF ~r.own /\ r.name \notin there THEN [sofar EXCEPT !.pass = TRUE]
  ELSE [sofar EXCEPT !.list =
          Append(@, [r EXCEPT !.on = IF r.own THEN r.name \in there ELSE @])]

restoreSessionStateRevs(l, there) ==
  FoldLeft(LAMBDA sofar, r : RestoreClient(there, sofar, r),
           [pass |-> FALSE, list |-> <<>>], l).list

restore(k, l) ==
  IF k = "state" THEN {restoreSessionStateRevs(l, there) : there \in SUBSET Names} ELSE {l}

-----------------------------------------------------------------------------
(* Edits clients make.                                                     *)

Row(l, i) == [row |-> i - 1, item |-> l[i]]

\* What can be dragged from a list: neighbouring rows.
Draggable(k, l) ==
  IF k = "mediacol" THEN {}
  ELSE {[n \in 1 .. j - i + 1 |-> Row(l, i + n - 1)] : i, j \in DOMAIN l} \ {<<>>}

\* CRenderClientsDiffBuilder::diff, which also changes the client's own list.
Owned(l, i) ==
  LET new == [l[i] EXCEPT !.own = ~@]
  IN [diff |-> <<Hunk(i, 0, 1, <<new>>)>>, local |-> [l EXCEPT ![i] = new]]

DropEdits(drag, l) ==
  TakeOut(drag) \cup UNION {Move(drag, insTo) : insTo \in 0 .. Len(l)}

InsertEdits(l) == UNION {PutIn(s, insTo) : s \in Songs, insTo \in 0 .. Len(l)}

\* The edits of a client with list l: dropping what was dragged, or a song of
\* another list.
DropsOn(k, drag, l) ==
  CASE k = "mediacol" -> {}
    [] k = "state" -> {Owned(l, d.row + 1) : d \in {d \in Range(drag) : d.row < Len(l)}}
    [] OTHER -> {[diff |-> d, local |-> l] :
                   d \in IF drag = <<>> THEN InsertEdits(l) ELSE DropEdits(drag, l)}
=============================================================================
