----------------------------- MODULE MCPlayerOpen -----------------------------
(* A small instance of PlayerOpen: two servers that may do anything, one      *)
(* player, one connection each, short queues.                                 *)
EXTENDS PlayerOpen, TLC

\* The player's answers are bounded by reading them before sending more.
ShortQueues ==
  \A c \in Conns : Len(toServer[c]) <= MaxQueue + 1

ServerSymmetry == Permutations(Servers)
===============================================================================
