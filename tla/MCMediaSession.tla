---------------------------- MODULE MCMediaSession ----------------------------
(***************************************************************************)
(* MediaSession with the edits of SessionEdits, for TLC.                   *)
(***************************************************************************)
EXTENDS MediaSession, SessionEdits, TLC

Symmetry == Permutations(Clients)

MCNoDrag == <<>>
=============================================================================
