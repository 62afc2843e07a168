---------------------------- MODULE MCPacketRing ----------------------------
(***************************************************************************)
(* Streams for TLC: three whose packets the network reorders and doubles,  *)
(* and three that go round the sequence numbers more than twice.           *)
(***************************************************************************)
EXTENDS PacketRing

MCReordered == {4, 5, 6}
MCLong == {0, 7, 12}
MCStarts == MCReordered \cup MCLong

MCNumPackets == [s \in MCStarts |-> IF s \in MCLong THEN 36 ELSE 10]
MCMaxDelay == [s \in MCStarts |-> IF s \in MCLong THEN 0 ELSE 3]
MCMaxDup == [s \in MCStarts |-> IF s \in MCLong THEN 0 ELSE 2]
MCMaxLag == [s \in MCStarts |-> IF s \in MCLong THEN 3 ELSE 4]

\* One stream that wraps while a packet is overtaken by the next.
MCOverStarts == {12}
MCOverNumPackets == [s \in MCOverStarts |-> 8]
MCOverMaxDelay == [s \in MCOverStarts |-> 1]
MCOverMaxDup == [s \in MCOverStarts |-> 0]
MCOverMaxLag == [s \in MCOverStarts |-> 4]
=============================================================================
