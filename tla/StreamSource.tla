----------------------------- MODULE StreamSource -----------------------------
(***************************************************************************)
(* What the stream server promises to one member of its session: the order *)
(* of the control events evSyncStream and evResetStream, and which RTP     *)
(* packets go with them.  MediaProvider implements it for each of its      *)
(* clients; MediaThreads, the player's side, relies on it.                 *)
(***************************************************************************)
CONSTANTS
  Ssrcs,     \* the sources, one per stream the server opens
  NoStream   \* no source

ASSUME StreamAssumption == NoStream \notin Ssrcs

VARIABLES
  latest,   \* the source of the last evSyncStream sent to the member
  told      \* no evResetStream for it has been sent since

sourceVars == <<latest, told>>

SourceInit == latest = NoStream /\ told = FALSE

\* A stream begins, or the member joins while one is open.  Two streams are
\* always parted by a reset.
Sync(s) ==
  /\ ~told
  /\ latest' = s /\ told' = TRUE

\* The reset names the source of the last sync.  It is sent once more when the
\* server stops, or plays again, after the stream was reset.
Reset == told' = FALSE /\ UNCHANGED latest

\* Packets follow the sync of their stream; they go on after the reset, since
\* the decoder is stopped after it, but not beyond the next sync.
MayBeSent(s) == s = latest

\* The member leaves: what it was told is forgotten.
Left == latest' = NoStream /\ told' = FALSE

SourceNext == (\E s \in Ssrcs : Sync(s)) \/ Reset \/ Left

SourceSpec == SourceInit /\ [][SourceNext]_sourceVars
===============================================================================
