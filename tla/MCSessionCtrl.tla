---------------------------- MODULE MCSessionCtrl ----------------------------
(* Small instances of SessionCtrl.                                            *)
EXTENDS SessionCtrl

ServerSymmetry == Permutations(Servers)
PlayerSymmetry == Permutations(Players)
===============================================================================
