------------------------------ MODULE PacketRing ------------------------------
(***************************************************************************)
(* muroad's packet ring buffer for one source (CPerSSRCRingBuffer) between *)
(* the receive thread, which sorts arriving packets in, and the play       *)
(* thread, which takes the first one out.  The network may lose, delay and *)
(* duplicate packets.                                                      *)
(*                                                                         *)
(* A packet is identified by its index in the stream; what the code sees   *)
(* of it is the index modulo the range of the sequence numbers.            *)
(***************************************************************************)
EXTENDS Integers, Sequences

CONSTANTS
  SeqMod,      \* number of sequence numbers: 2^16 in the code
  Near,        \* a sequence number below it is "near 0": 2^14 in the code
  Starts,      \* the sequence numbers a stream may begin with
  (* For the stream with each of the Starts:                               *)
  NumPackets,  \* bound: its length
  MaxDelay,    \* bound of the network: later packets that overtake one
  MaxDup,      \* bound of the network: duplicates
  MaxLag,      \* the transport buffer: how far the sender is ahead
  NoPacket     \* the receive thread is not sorting in any packet

ASSUME RingAssumption ==
  /\ SeqMod \in Nat \ {0}
  /\ Near \in 0 .. SeqMod
  /\ Starts \subseteq 0 .. SeqMod - 1
  /\ NumPackets \in [Starts -> Nat] /\ MaxDelay \in [Starts -> Nat]
  /\ MaxDup \in [Starts -> Nat] /\ MaxLag \in [Starts -> Nat]

ASSUME NoPacketAssumption == NoPacket \notin [pkt : Nat, key : 0 .. 2 * SeqMod]

VARIABLES
  start,      \* sequence number of the stream's first packet
  sent,       \* number of packets sent
  net,        \* packets under way
  dups,       \* number of duplicates so far
  list,       \* m_packet_list
  m_seqnum,   \* sequence number of the last packet read, -1 before
  appending,  \* what the receive thread holds in appendRTPPacket: the packet
              \* and the local seqnum, read before the mutex is taken
  high        \* history: index of the last packet read, -1 before

vars == <<start, sent, net, dups, list, m_seqnum, appending, high>>

Init ==
  /\ start \in Starts
  /\ sent = 0 /\ net = {} /\ dups = 0
  /\ list = <<>> /\ m_seqnum = -1
  /\ appending = NoPacket
  /\ high = -1

SeqNum(i) == (start + i) % SeqMod

-----------------------------------------------------------------------------
(* The sender and the network.                                             *)

Send ==
  /\ sent < NumPackets[start]
  /\ sent - high <= MaxLag[start]
  /\ \A i \in net : sent - i <= MaxDelay[start]
  /\ net' = net \cup {sent}
  /\ sent' = sent + 1
  /\ UNCHANGED <<start, dups, list, m_seqnum, appending, high>>

Lose(i) ==
  /\ i \in net
  /\ net' = net \ {i}
  /\ UNCHANGED <<start, sent, dups, list, m_seqnum, appending, high>>

Deliver(i) ==
  /\ i \in net
  /\ \/ net' = net \ {i} /\ UNCHANGED dups
     \/ dups < MaxDup[start] /\ dups' = dups + 1 /\ UNCHANGED net

-----------------------------------------------------------------------------
(* The receive thread.                                                     *)

\* Mutants of Key: the overflow is forgotten; 65535 is added, as the comment has it.
Key_NoWrap(i) == SeqNum(i)
Key_OneShort(i) ==
  IF SeqNum(i) < Near /\ m_seqnum > Near THEN SeqNum(i) + SeqMod - 1 ELSE SeqNum(i)

\* The place of packet i in the order of sequence numbers, taking into account
\* that they wrap: after a high number a low one counts as the next round's.
Key(i) ==
  IF SeqNum(i) < Near /\ m_seqnum > Near THEN SeqNum(i) + SeqMod ELSE SeqNum(i)

\* The search goes from the end to the first packet that comes before packet i,
\* or that has its sequence number; it ends at 0 if there is none.
Meets(j, i, key) == SeqNum(list[j]) < key \/ SeqNum(list[j]) = SeqNum(i)

SearchEnds(j, i, key) ==
  /\ j > 0 => Meets(j, i, key)
  /\ \A k \in j + 1 .. Len(list) : ~Meets(k, i, key)

\* What was read is not taken again, nor is a duplicate.
Accepted(i, key, j) == IF j = 0 THEN m_seqnum < key ELSE SeqNum(list[j]) < key

InsertAfter(j, i) == SubSeq(list, 1, j) \o <<i>> \o SubSeq(list, j + 1, Len(list))

ReceivePacket(i) ==
  /\ appending = NoPacket
  /\ Deliver(i)
  /\ appending' = [pkt |-> i, key |-> Key(i)]
  /\ UNCHANGED <<start, sent, list, m_seqnum, high>>

appendRTPPacket ==
  /\ appending # NoPacket
  /\ \E j \in 0 .. Len(list) :
       /\ SearchEnds(j, appending.pkt, appending.key)
       /\ list' = IF Accepted(appending.pkt, appending.key, j)
                    THEN InsertAfter(j, appending.pkt)
                    ELSE list
  /\ appending' = NoPacket
  /\ UNCHANGED <<start, sent, net, dups, m_seqnum, high>>

-----------------------------------------------------------------------------
(* The play thread.                                                        *)

\* Mutant of readPacket: the sequence number is not remembered.
readPacket_Forgets ==
  /\ list # <<>>
  /\ list' = Tail(list)
  /\ high' = Head(list)
  /\ UNCHANGED <<start, sent, net, dups, m_seqnum, appending>>

readPacket ==
  /\ list # <<>>
  /\ list' = Tail(list)
  /\ m_seqnum' = SeqNum(Head(list))
  /\ high' = Head(list)
  /\ UNCHANGED <<start, sent, net, dups, appending>>

Next ==
  \/ Send
  \/ \E i \in net : Lose(i) \/ ReceivePacket(i)
  \/ appendRTPPacket
  \/ readPacket

Spec == Init /\ [][Next]_vars

-----------------------------------------------------------------------------
(* Safety.                                                                 *)

\* Every variable keeps to its type.
TypeOK ==
  /\ start \in Starts
  /\ sent \in 0 .. NumPackets[start]
  /\ net \subseteq 0 .. sent - 1
  /\ dups \in 0 .. MaxDup[start]
  /\ list \in Seq(0 .. sent - 1)
  /\ high \in -1 .. sent - 1
  /\ m_seqnum = (IF high = -1 THEN -1 ELSE SeqNum(high))
  /\ appending = NoPacket
       \/ appending \in [pkt : 0 .. sent - 1, key : 0 .. 2 * SeqMod - 1]

\* The list is in the order of the stream, without duplicates, and all of it
\* comes after what has been read: the play thread gets every packet at most
\* once and in order.
InOrder ==
  /\ \A j \in DOMAIN list : list[j] > high
  /\ \A j, k \in DOMAIN list : j < k => list[j] < list[k]

Listed == {list[j] : j \in DOMAIN list}

\* A packet is dropped only if it, or one after it, has been read, or if it is
\* in the list already; and sorting in loses no other packet.
NothingNewDropped ==
  [][appending # NoPacket /\ appending' = NoPacket =>
       Listed' = Listed \cup (IF appending.pkt > high THEN {appending.pkt} ELSE {})]_vars

-----------------------------------------------------------------------------
(* What the code's comments say, for every order of arrival.               *)

\* CPerSSRCRingBuffer.cpp:95-97: after an overflow of the sequence number, "seqnum
\* 0 is one after 65335" (the highest one), and is sorted in there.
WrapSortedIn ==
  \A j, k \in DOMAIN list : j < k /\ high >= 0 => list[j] <= list[k]
===============================================================================
