------------------------------ MODULE RingProofs ------------------------------
(***************************************************************************)
(* Theorems about PacketRing.                                              *)
(*                                                                         *)
(* For any stream the variables keep to their types.  The list is in order *)
(* and nothing new is dropped for streams that do not cross an edge of the *)
(* sequence numbers (Stretch), whatever the network loses, delays and      *)
(* duplicates, and for streams of any length from which the network only   *)
(* loses packets (InTurn).  For others both can be false; see the run      *)
(* ring_overtaken.                                                         *)
(***************************************************************************)
EXTENDS PacketRing, TLAPS

-----------------------------------------------------------------------------
(* Sorting a packet in.                                                    *)

\* The list new is list with i after its j-th packet.
IsInsertion(new, j, i) ==
  /\ Len(new) = Len(list) + 1
  /\ \A k \in 1 .. Len(list) + 1 :
       new[k] = IF k <= j THEN list[k] ELSE IF k = j + 1 THEN i ELSE list[k - 1]

\* What std::list::insert does.
LEMMA InsertLemma ==
  ASSUME NEW S, list \in Seq(S), NEW j \in 0 .. Len(list), NEW i \in S
  PROVE  InsertAfter(j, i) \in Seq(S) /\ IsInsertion(InsertAfter(j, i), j, i)
<1> DEFINE A == SubSeq(list, 1, j)
           C == SubSeq(list, j + 1, Len(list))
<1>1. A \in Seq(S) /\ Len(A) = j /\ \A k \in 1 .. j : A[k] = list[k]
  BY SMT
<1>2. C \in Seq(S) /\ Len(C) = Len(list) - j /\ \A k \in 1 .. Len(list) - j : C[k] = list[j + k]
  BY SMT
<1>3. <<i>> \in Seq(S) /\ Len(<<i>>) = 1 /\ <<i>>[1] = i
  BY SMT
<1>4. A \o <<i>> \in Seq(S) /\ Len(A \o <<i>>) = j + 1
      /\ \A k \in 1 .. j + 1 : (A \o <<i>>)[k] = IF k <= j THEN list[k] ELSE i
  <2> HIDE DEF A
  <2> QED BY <1>1, <1>3, SMT
<1> DEFINE B == A \o <<i>>
<1> HIDE DEF B, C
<1>5. B \o C \in Seq(S) /\ Len(B \o C) = Len(list) + 1
  BY <1>2, <1>4, SMT DEF B
<1>6. ASSUME NEW k \in 1 .. Len(list) + 1
      PROVE  (B \o C)[k] = IF k <= j THEN list[k] ELSE IF k = j + 1 THEN i ELSE list[k - 1]
  <2>1. CASE k <= j + 1
    BY <2>1, <1>2, <1>4, SMT DEF B
  <2>2. CASE k > j + 1
    BY <2>2, <1>2, <1>4, SMT DEF B
  <2>3. k <= j + 1 \/ k > j + 1
    BY SMT
  <2> QED BY <2>1, <2>2, <2>3
<1> QED BY <1>5, <1>6 DEF InsertAfter, IsInsertion, B, C

-----------------------------------------------------------------------------
(* Types, for every stream.                                                *)

\* A sequence number is in range.
LEMMA SeqNumRange ==
  ASSUME start \in Starts, NEW i \in Nat
  PROVE  SeqNum(i) \in 0 .. SeqMod - 1
BY RingAssumption, SMT DEF SeqNum

\* A new buffer is of the right type.
LEMMA TypeInit == Init => TypeOK
BY RingAssumption, SMT DEF Init, TypeOK

\* Every step of the two threads and the network keeps the types.
LEMMA TypeStep == TypeOK /\ [Next]_vars => TypeOK'
<1> SUFFICES ASSUME TypeOK, [Next]_vars PROVE TypeOK'
  OBVIOUS
<1> USE RingAssumption
<1>1. CASE Send
  <2>1. sent \in Nat /\ sent' = sent + 1 /\ sent + 1 <= NumPackets[start]
    BY <1>1, SMT DEF Send, TypeOK
  <2>2. list' \in Seq(0 .. sent' - 1)
    BY <1>1, <2>1, SMT DEF Send, TypeOK
  <2>3. appending' = NoPacket \/ appending' \in [pkt : 0 .. sent' - 1, key : 0 .. 2 * SeqMod - 1]
    BY <1>1, <2>1, SMT DEF Send, TypeOK
  <2>4. m_seqnum' = (IF high' = -1 THEN -1 ELSE SeqNum(high)')
    BY <1>1, SMT DEF Send, TypeOK, SeqNum
  <2> QED BY <1>1, <2>1, <2>2, <2>3, <2>4, SMT DEF Send, TypeOK
<1>2. ASSUME NEW i \in net, Lose(i) PROVE TypeOK'
  BY <1>2, SMT DEF Lose, TypeOK, SeqNum
<1>3. ASSUME NEW i \in net, ReceivePacket(i) PROVE TypeOK'
  <2>1. i \in 0 .. sent - 1
    BY <1>3, SMT DEF TypeOK
  <2>2. Key(i) \in 0 .. 2 * SeqMod - 1
    <3>1. SeqNum(i) \in 0 .. SeqMod - 1
      <4>1. start \in Starts /\ i \in Nat
        BY <2>1, SMT DEF TypeOK
      <4> QED BY <4>1, SeqNumRange
    <3>2. Key(i) = SeqNum(i) \/ Key(i) = SeqNum(i) + SeqMod
      BY DEF Key
    <3> QED BY <3>1, <3>2, SMT
  <2>3. appending' \in [pkt : 0 .. sent - 1, key : 0 .. 2 * SeqMod - 1]
    BY <1>3, <2>1, <2>2, SMT DEF ReceivePacket
  <2>4. net' \subseteq 0 .. sent - 1 /\ dups' \in 0 .. MaxDup[start]
    <3>1. net' = net \ {i} \/ net' = net
      BY <1>3 DEF ReceivePacket, Deliver
    <3>2. dups' = dups \/ (dups < MaxDup[start] /\ dups' = dups + 1)
      BY <1>3 DEF ReceivePacket, Deliver
    <3>3. net' \subseteq 0 .. sent - 1
      BY <3>1 DEF TypeOK
    <3>4. dups' \in 0 .. MaxDup[start]
      BY <3>2, SMT DEF TypeOK
    <3> QED BY <3>3, <3>4
  <2> QED BY <1>3, <2>3, <2>4, SMT DEF ReceivePacket, TypeOK, SeqNum
<1>4. CASE appendRTPPacket
  <2>1. list' \in Seq(0 .. sent - 1)
    <3>1. PICK j \in 0 .. Len(list) :
            list' = IF Accepted(appending.pkt, appending.key, j)
                    THEN InsertAfter(j, appending.pkt)
                    ELSE list
      BY <1>4 DEF appendRTPPacket
    <3>2. appending.pkt \in 0 .. sent - 1
      BY <1>4, SMT DEF appendRTPPacket, TypeOK
    <3>3. InsertAfter(j, appending.pkt) \in Seq(0 .. sent - 1)
      BY <3>2, InsertLemma DEF TypeOK
    <3> QED BY <3>1, <3>3 DEF TypeOK
  <2> QED BY <1>4, <2>1, SMT DEF appendRTPPacket, TypeOK, SeqNum
<1>5. CASE readPacket
  <2>1. Head(list) \in 0 .. sent - 1 /\ Tail(list) \in Seq(0 .. sent - 1)
    BY <1>5, SMT DEF readPacket, TypeOK
  <2>2. sent' \in 0 .. NumPackets[start'] /\ dups' \in 0 .. MaxDup[start']
    BY <1>5 DEF readPacket, TypeOK
  <2>3. m_seqnum' = (IF high' = -1 THEN -1 ELSE SeqNum(high)')
    BY <1>5, <2>1, SMT DEF readPacket, SeqNum, TypeOK
  <2>4. /\ start' \in Starts /\ net' \subseteq 0 .. sent' - 1
        /\ list' \in Seq(0 .. sent' - 1) /\ high' \in -1 .. sent' - 1
    BY <1>5, <2>1, SMT DEF readPacket, TypeOK
  <2>5. appending' = NoPacket
          \/ appending' \in [pkt : 0 .. sent' - 1, key : 0 .. 2 * SeqMod - 1]
    BY <1>5 DEF readPacket, TypeOK
  <2> QED BY <2>2, <2>3, <2>4, <2>5 DEF TypeOK
<1>6. CASE UNCHANGED vars
  BY <1>6, SMT DEF vars, TypeOK, SeqNum
<1> QED BY <1>1, <1>2, <1>3, <1>4, <1>5, <1>6 DEF Next

\* The variables of the ring buffer keep to their types, whatever arrives.
THEOREM RingTypeCorrect == Spec => []TypeOK
BY TypeInit, TypeStep, PTL DEF Spec

-----------------------------------------------------------------------------
(* Order.  Two kinds of streams keep it: those that do not cross an edge of *)
(* the sequence numbers, and those whose packets arrive in turn.            *)

\* The stream does not reach the end of the sequence numbers, nor has numbers on
\* both sides of Near.
Stretch(s) ==
  /\ s + NumPackets[s] <= SeqMod
  /\ Near <= s \/ s + NumPackets[s] <= Near + 1

\* The network keeps the order and doubles nothing, the sender is less than a
\* Near ahead, and the sequence numbers do not start over before the first
\* packet can be read; how long the stream is does not matter.
InTurn(s) ==
  /\ MaxDelay[s] = 0 /\ MaxDup[s] = 0
  /\ MaxLag[s] <= Near /\ MaxLag[s] + Near < SeqMod
  /\ s + MaxLag[s] <= SeqMod

Streams == \A s \in Starts : Stretch(s) \/ InTurn(s)

\* The stream stays the same.
LEMMA StartKept == [Next]_vars => start' = start
<1> SUFFICES ASSUME [Next]_vars PROVE start' = start
  OBVIOUS
<1>1. CASE Send \/ appendRTPPacket \/ readPacket
  BY <1>1 DEF Send, appendRTPPacket, readPacket
<1>2. ASSUME NEW i \in net, Lose(i) \/ ReceivePacket(i) PROVE start' = start
  BY <1>2 DEF Lose, ReceivePacket
<1>3. CASE UNCHANGED vars
  BY <1>3 DEF vars
<1> QED BY <1>1, <1>2, <1>3 DEF Next

\* readPacket takes the first packet out: what is left is in order behind it.
LEMMA ReadOrder ==
  ASSUME TypeOK, InOrder, readPacket
  PROVE  InOrder'
<1>1. list \in Seq(0 .. sent - 1) /\ list # <<>> /\ list' = Tail(list) /\ high' = list[1]
  BY SMT DEF readPacket, TypeOK
<1>2. Len(list) \in Nat /\ Len(list) > 0 /\ DOMAIN list' = 1 .. Len(list) - 1
      /\ \A k \in 1 .. Len(list) - 1 : list'[k] = list[k + 1]
  BY <1>1, SMT
<1>3. \A a, b \in 1 .. Len(list) : a < b => list[a] < list[b]
  BY <1>1, SMT DEF InOrder
<1>4. \A k \in 1 .. Len(list) : list[k] \in Int
  <2>1. sent \in Nat
    BY RingAssumption, SMT DEF TypeOK
  <2> QED BY <1>1, <2>1, SMT
<1>5. ASSUME NEW k \in DOMAIN list' PROVE list'[k] > high'
  <2>1. 1 \in 1 .. Len(list) /\ k + 1 \in 1 .. Len(list) /\ 1 < k + 1 /\ list'[k] = list[k + 1]
    BY <1>2, SMT
  <2>2. list[1] < list[k + 1] /\ list[1] \in Int /\ list[k + 1] \in Int
    BY <1>3, <1>4, <2>1
  <2> QED BY <1>1, <2>1, <2>2, SMT
<1>6. ASSUME NEW k \in DOMAIN list', NEW m \in DOMAIN list', k < m PROVE list'[k] < list'[m]
  <2>1. /\ k + 1 \in 1 .. Len(list) /\ m + 1 \in 1 .. Len(list) /\ k + 1 < m + 1
        /\ list'[k] = list[k + 1] /\ list'[m] = list[m + 1]
    BY <1>2, <1>6, SMT
  <2> QED BY <1>3, <2>1
<1> QED BY <1>5, <1>6 DEF InOrder

-----------------------------------------------------------------------------
(* Streams that do not cross an edge.                                      *)

\* The local seqnum of appendRTPPacket, although read before the mutex is taken,
\* is the packet's sequence number.
KeyIsSeqNum == appending # NoPacket => appending.key = SeqNum(appending.pkt)

\* The inductive invariant.
StretchInv == Stretch(start) /\ TypeOK /\ InOrder /\ KeyIsSeqNum

\* Sequence numbers are in the order of the stream.
LEMMA SeqNumIs ==
  ASSUME Stretch(start), start \in Starts, NEW i \in 0 .. NumPackets[start] - 1
  PROVE  SeqNum(i) = start + i
<1>1. start \in Nat /\ start + i \in Nat /\ start + i < SeqMod
  BY RingAssumption, SMT DEF Stretch
<1> QED BY <1>1, RingAssumption, SMT DEF SeqNum

\* Nothing is taken for a packet of the next round.
LEMMA KeyIs ==
  ASSUME Stretch(start), TypeOK, NEW i \in 0 .. sent - 1
  PROVE  Key(i) = SeqNum(i)
<1>1. start \in Starts /\ i \in 0 .. NumPackets[start] - 1 /\ high \in -1 .. NumPackets[start] - 1
  BY RingAssumption, SMT DEF TypeOK
<1>2. start \in Nat /\ Near \in Nat /\ NumPackets[start] \in Nat
      /\ (Near <= start \/ start + NumPackets[start] <= Near + 1)
  BY <1>1, RingAssumption, SMT DEF Stretch
<1>3. SeqNum(i) = start + i
  BY <1>1, SeqNumIs
<1>4. m_seqnum = -1 \/ (high \in 0 .. NumPackets[start] - 1 /\ m_seqnum = start + high)
  <2>1. CASE high = -1
    BY <2>1 DEF TypeOK
  <2>2. CASE high # -1
    <3>1. high \in 0 .. NumPackets[start] - 1
      BY <1>1, <2>2, SMT
    <3>2. SeqNum(high) = start + high
      BY <1>1, <3>1, SeqNumIs
    <3> QED BY <2>2, <3>1, <3>2 DEF TypeOK
  <2> QED BY <2>1, <2>2
<1>5. ~(SeqNum(i) < Near /\ m_seqnum > Near)
  BY <1>1, <1>2, <1>3, <1>4, SMT
<1> QED BY <1>5 DEF Key

\* What appendRTPPacket finds and does, in terms of the stream's order.
LEMMA AppendFacts ==
  ASSUME StretchInv, appending # NoPacket, NEW j \in 0 .. Len(list),
         SearchEnds(j, appending.pkt, appending.key)
  PROVE  LET i == appending.pkt
         IN  /\ i \in 0 .. sent - 1
             /\ \A k \in j + 1 .. Len(list) : i < list[k]
             /\ Accepted(i, appending.key, j) =>
                  /\ high < i
                  /\ \A k \in 1 .. j : list[k] < i
             /\ ~Accepted(i, appending.key, j) =>
                  i <= high \/ (j > 0 /\ i = list[j])
<1> DEFINE i == appending.pkt
<1> USE DEF StretchInv
<1>1. i \in 0 .. sent - 1 /\ list \in Seq(0 .. sent - 1) /\ Len(list) \in Nat
      /\ start \in Starts /\ high \in -1 .. sent - 1 /\ sent \in 0 .. NumPackets[start]
  BY SMT DEF TypeOK
<1>2. start \in Nat /\ NumPackets[start] \in Nat
  BY <1>1, RingAssumption, SMT
<1>3. \A n \in 0 .. sent - 1 : SeqNum(n) = start + n
  <2>1. 0 .. sent - 1 \subseteq 0 .. NumPackets[start] - 1
    BY <1>1, <1>2, SMT
  <2> QED BY <1>1, <2>1, SeqNumIs
<1>4. appending.key = start + i
  BY <1>1, <1>3 DEF KeyIsSeqNum
<1>5. \A k \in 1 .. Len(list) : list[k] \in 0 .. sent - 1 /\ list[k] > high
                                 /\ SeqNum(list[k]) = start + list[k]
  BY <1>1, <1>3, SMT DEF InOrder
<1>6. m_seqnum = IF high = -1 THEN -1 ELSE start + high
  <2>1. high = -1 \/ high \in 0 .. sent - 1
    BY <1>1, <1>2, SMT
  <2> QED BY <1>3, <2>1 DEF TypeOK
<1>7. ASSUME NEW k \in j + 1 .. Len(list) PROVE i < list[k]
  <2>1. k \in 1 .. Len(list)
    BY <1>1, SMT
  <2>2. ~(start + list[k] < start + i \/ start + list[k] = start + i)
    BY <1>1, <1>3, <1>4, <1>5, <2>1 DEF SearchEnds, Meets
  <2> QED BY <1>1, <1>2, <1>5, <2>1, <2>2, SMT
<1>8. ASSUME Accepted(i, appending.key, j)
      PROVE  high < i /\ \A k \in 1 .. j : list[k] < i
  <2>1. CASE j = 0
    BY <1>1, <1>2, <1>4, <1>6, <1>8, <2>1, SMT DEF Accepted
  <2>2. CASE j # 0
    <3>1. j \in 1 .. Len(list)
      BY <1>1, <2>2, SMT
    <3>2. list[j] < i
      BY <1>1, <1>2, <1>4, <1>5, <1>8, <2>2, <3>1, SMT DEF Accepted
    <3>3. \A k \in 1 .. j : k \in 1 .. Len(list) /\ (k < j => list[k] < list[j])
      BY <1>1, <3>1, SMT DEF InOrder
    <3>4. \A k \in 1 .. j : list[k] < i
      BY <1>1, <1>5, <3>1, <3>2, <3>3, SMT
    <3> QED BY <1>1, <1>5, <3>1, <3>2, <3>4, SMT
  <2> QED BY <2>1, <2>2
<1>9. ASSUME ~Accepted(i, appending.key, j)
      PROVE  i <= high \/ (j > 0 /\ i = list[j])
  <2>1. CASE j = 0
    BY <1>1, <1>2, <1>4, <1>6, <1>9, <2>1, SMT DEF Accepted
  <2>2. CASE j # 0
    <3>1. j \in 1 .. Len(list) /\ j > 0
      BY <1>1, <2>2, SMT
    <3>2. start + list[j] < start + i \/ start + list[j] = start + i
      BY <1>1, <1>3, <1>4, <1>5, <3>1 DEF SearchEnds, Meets
    <3>3. ~(start + list[j] < start + i)
      BY <1>4, <1>5, <1>9, <2>2, <3>1 DEF Accepted
    <3> QED BY <1>1, <1>2, <1>5, <3>1, <3>2, <3>3, SMT
  <2> QED BY <2>1, <2>2
<1> QED BY <1>1, <1>7, <1>8, <1>9

\* An empty list is in order.
LEMMA OrderInit == Init /\ Stretch(start) => StretchInv
BY TypeInit DEF Init, StretchInv, InOrder, KeyIsSeqNum

\* appendRTPPacket sorts in at the right place, readPacket takes the first one
\* out, and nothing else touches the order.
LEMMA OrderStep == StretchInv /\ [Next]_vars => StretchInv'
<1> SUFFICES ASSUME StretchInv, [Next]_vars PROVE InOrder' /\ KeyIsSeqNum'
  BY StartKept, TypeStep DEF StretchInv, Stretch
<1>1. CASE Send
  BY <1>1 DEF Send, StretchInv, InOrder, KeyIsSeqNum, SeqNum
<1>2. ASSUME NEW i \in net, Lose(i) PROVE InOrder' /\ KeyIsSeqNum'
  BY <1>2 DEF Lose, StretchInv, InOrder, KeyIsSeqNum, SeqNum
<1>3. ASSUME NEW i \in net, ReceivePacket(i) PROVE InOrder' /\ KeyIsSeqNum'
  <2>1. i \in 0 .. sent - 1
    BY DEF StretchInv, TypeOK
  <2>2. Key(i) = SeqNum(i)
    BY <2>1, KeyIs DEF StretchInv
  <2>3. KeyIsSeqNum'
    BY <1>3, <2>2 DEF ReceivePacket, KeyIsSeqNum, SeqNum
  <2> QED BY <1>3, <2>3 DEF ReceivePacket, StretchInv, InOrder
<1>4. CASE appendRTPPacket
  <2> DEFINE i == appending.pkt
  <2>1. appending # NoPacket /\ appending' = NoPacket /\ high' = high
    BY <1>4 DEF appendRTPPacket
  <2>2. PICK j \in 0 .. Len(list) :
          /\ SearchEnds(j, i, appending.key)
          /\ list' = IF Accepted(i, appending.key, j) THEN InsertAfter(j, i) ELSE list
    BY <1>4 DEF appendRTPPacket
  <2>3. CASE ~Accepted(i, appending.key, j)
    BY <2>1, <2>2, <2>3 DEF StretchInv, InOrder, KeyIsSeqNum
  <2>4. CASE Accepted(i, appending.key, j)
    <3>1. /\ i \in 0 .. sent - 1
          /\ \A k \in j + 1 .. Len(list) : i < list[k]
          /\ high < i
          /\ \A k \in 1 .. j : list[k] < i
      BY <2>1, <2>2, <2>4, AppendFacts
    <3>2. list' \in Seq(0 .. sent - 1) /\ list \in Seq(0 .. sent - 1)
          /\ Len(list') = Len(list) + 1
          /\ \A k \in 1 .. Len(list) + 1 :
               list'[k] = IF k <= j THEN list[k] ELSE IF k = j + 1 THEN i ELSE list[k - 1]
      <4>1. list' = InsertAfter(j, i)
        BY <2>2, <2>4
      <4>2. list \in Seq(0 .. sent - 1)
        BY DEF StretchInv, TypeOK
      <4>3. i \in 0 .. sent - 1
        BY <3>1
      <4> HIDE DEF i
      <4>4. InsertAfter(j, i) \in Seq(0 .. sent - 1) /\ IsInsertion(InsertAfter(j, i), j, i)
        BY <4>2, <4>3, InsertLemma
      <4> QED BY <4>1, <4>2, <4>4 DEF IsInsertion
    <3>5. /\ Len(list) \in Nat /\ DOMAIN list = 1 .. Len(list) /\ DOMAIN list' = 1 .. Len(list) + 1
          /\ j \in 0 .. Len(list) /\ i \in Int /\ high \in Int
          /\ \A a \in 1 .. Len(list) : list[a] \in Int /\ list[a] > high
          /\ \A a, b \in 1 .. Len(list) : a < b => list[a] < list[b]
      <4>1. Len(list) \in Nat /\ DOMAIN list = 1 .. Len(list) /\ DOMAIN list' = 1 .. Len(list) + 1
        BY <3>2, SMT
      <4>2. sent \in Nat /\ high \in Int /\ i \in Int
        BY <3>1, RingAssumption, SMT DEF StretchInv, TypeOK
      <4>3. \A a \in 1 .. Len(list) : list[a] \in 0 .. sent - 1
        <5>1. list \in Seq(0 .. sent - 1)
          BY <3>2
        <5> QED BY <4>2, <5>1, SMT
      <4>4. \A a \in 1 .. Len(list) : list[a] \in Int
        BY <4>2, <4>3, SMT
      <4> QED BY <4>1, <4>2, <4>4 DEF StretchInv, InOrder
    <3> HIDE DEF i
    <3>3. ASSUME NEW k \in DOMAIN list' PROVE list'[k] > high'
      <4>1. k \in 1 .. Len(list) + 1
        BY <3>5
      <4>2. list'[k] = IF k <= j THEN list[k] ELSE IF k = j + 1 THEN i ELSE list[k - 1]
        BY <3>2, <4>1
      <4>3. CASE k <= j
        BY <2>1, <3>5, <4>1, <4>2, <4>3, SMT
      <4>4. CASE k = j + 1
        BY <2>1, <3>1, <3>5, <4>1, <4>2, <4>4, SMT
      <4>5. CASE k > j + 1
        BY <2>1, <3>5, <4>1, <4>2, <4>5, SMT
      <4> QED BY <3>5, <4>1, <4>3, <4>4, <4>5, SMT
    <3>4. ASSUME NEW k \in DOMAIN list', NEW m \in DOMAIN list', k < m
          PROVE  list'[k] < list'[m]
      <4>1. k \in 1 .. Len(list) + 1 /\ m \in 1 .. Len(list) + 1
        BY <3>5
      <4>2. /\ list'[k] = IF k <= j THEN list[k] ELSE IF k = j + 1 THEN i ELSE list[k - 1]
            /\ list'[m] = IF m <= j THEN list[m] ELSE IF m = j + 1 THEN i ELSE list[m - 1]
        BY <3>2, <4>1
      <4>3. CASE m <= j
        <5>1. k <= j /\ k \in 1 .. Len(list) /\ m \in 1 .. Len(list)
          BY <3>4, <3>5, <4>1, <4>3, SMT
        <5> QED BY <3>4, <3>5, <4>2, <4>3, <5>1
      <4>4. CASE m = j + 1
        <5>1. k <= j /\ k \in 1 .. j /\ ~(m <= j)
          BY <3>4, <3>5, <4>1, <4>4, SMT
        <5> QED BY <3>1, <4>2, <4>4, <5>1
      <4>5. CASE m > j + 1 /\ k = j + 1
        <5>1. ~(m <= j) /\ m # j + 1 /\ m - 1 \in j + 1 .. Len(list) /\ ~(k <= j)
          BY <3>5, <4>1, <4>5, SMT
        <5> QED BY <3>1, <4>2, <4>5, <5>1
      <4>6. CASE m > j + 1 /\ k <= j
        <5>1. ~(m <= j) /\ m # j + 1 /\ m - 1 \in 1 .. Len(list) /\ k \in 1 .. Len(list) /\ k < m - 1
          BY <3>5, <4>1, <4>6, SMT
        <5> QED BY <3>5, <4>2, <4>6, <5>1
      <4>7. CASE m > j + 1 /\ k > j + 1
        <5>1. /\ ~(m <= j) /\ m # j + 1 /\ m - 1 \in 1 .. Len(list)
              /\ ~(k <= j) /\ k # j + 1 /\ k - 1 \in 1 .. Len(list) /\ k - 1 < m - 1
          BY <3>4, <3>5, <4>1, <4>7, SMT
        <5> QED BY <3>5, <4>2, <5>1
      <4> QED BY <3>5, <4>1, <4>3, <4>4, <4>5, <4>6, <4>7, SMT
    <3> QED BY <2>1, <3>3, <3>4 DEF InOrder, KeyIsSeqNum
  <2> QED BY <2>3, <2>4
<1>5. CASE readPacket
  BY <1>5, ReadOrder DEF readPacket, StretchInv, KeyIsSeqNum, SeqNum
<1>6. CASE UNCHANGED vars
  BY <1>6 DEF vars, StretchInv, InOrder, KeyIsSeqNum, SeqNum
<1> QED BY <1>1, <1>2, <1>3, <1>4, <1>5, <1>6 DEF Next

\* A step that ends appendRTPPacket drops only what was read or is in the list.
LEMMA NothingNewDroppedStep ==
  ASSUME StretchInv, [Next]_vars, appending # NoPacket, appending' = NoPacket
  PROVE  Listed' = Listed \cup (IF appending.pkt > high THEN {appending.pkt} ELSE {})
<1> DEFINE i == appending.pkt
<1>1. appendRTPPacket
  BY DEF Next, Send, Lose, ReceivePacket, readPacket, vars
<1>2. PICK j \in 0 .. Len(list) :
        /\ SearchEnds(j, i, appending.key)
        /\ list' = IF Accepted(i, appending.key, j) THEN InsertAfter(j, i) ELSE list
  BY <1>1 DEF appendRTPPacket
<1>3. list \in Seq(0 .. sent - 1) /\ Len(list) \in Nat /\ DOMAIN list = 1 .. Len(list)
      /\ sent \in Nat /\ high \in -1 .. sent - 1
  BY RingAssumption, SMT DEF StretchInv, TypeOK
<1>4. i \in 0 .. sent - 1
  BY <1>2, AppendFacts
<1>5. CASE Accepted(i, appending.key, j)
  <2>1. high < i
    BY <1>2, <1>5, AppendFacts
  <2>2. DOMAIN list' = 1 .. Len(list) + 1
        /\ \A k \in 1 .. Len(list) + 1 :
             list'[k] = IF k <= j THEN list[k] ELSE IF k = j + 1 THEN i ELSE list[k - 1]
    <3>1. list' = InsertAfter(j, i)
      BY <1>2, <1>5
    <3> HIDE DEF i
    <3>2. list' \in Seq(0 .. sent - 1) /\ Len(list') = Len(list) + 1
          /\ \A k \in 1 .. Len(list) + 1 :
               list'[k] = IF k <= j THEN list[k] ELSE IF k = j + 1 THEN i ELSE list[k - 1]
      <4>1. InsertAfter(j, i) \in Seq(0 .. sent - 1) /\ IsInsertion(InsertAfter(j, i), j, i)
        BY <1>3, <1>4, InsertLemma
      <4> QED BY <3>1, <4>1 DEF IsInsertion
    <3>3. DOMAIN list' = 1 .. Len(list')
      BY <3>2, SMT
    <3> QED BY <3>2, <3>3
  <2> HIDE DEF i
  <2>3. Listed' \subseteq Listed \cup {i}
    <3>1. ASSUME NEW k \in DOMAIN list' PROVE list'[k] \in Listed \cup {i}
      <4>1. list'[k] = IF k <= j THEN list[k] ELSE IF k = j + 1 THEN i ELSE list[k - 1]
        BY <2>2
      <4>2. (k <= j /\ k \in DOMAIN list) \/ (~(k <= j) /\ (k = j + 1 \/ k - 1 \in DOMAIN list))
        <5>1. k \in 1 .. Len(list) + 1 /\ j \in 0 .. Len(list) /\ Len(list) \in Nat
          BY <1>3, <2>2
        <5>2. (k <= j /\ k \in 1 .. Len(list)) \/ (~(k <= j) /\ (k = j + 1 \/ k - 1 \in 1 .. Len(list)))
          BY <5>1, SMT
        <5> QED BY <1>3, <5>2
      <4> QED BY <4>1, <4>2 DEF Listed
    <3> QED BY <3>1 DEF Listed
  <2>4. ASSUME NEW k \in DOMAIN list PROVE list[k] \in Listed'
    <3>1. CASE k <= j
      BY <1>3, <2>2, <3>1, SMT DEF Listed
    <3>2. CASE k > j
      <4>1. k + 1 \in DOMAIN list' /\ list'[k + 1] = list[k]
        BY <1>3, <2>2, <3>2, SMT
      <4> QED BY <4>1 DEF Listed
    <3> QED BY <1>3, <3>1, <3>2, SMT
  <2>5. i \in Listed'
    <3>1. j + 1 \in DOMAIN list' /\ list'[j + 1] = i
      BY <1>3, <2>2, SMT
    <3> QED BY <3>1 DEF Listed
  <2>6. Listed \subseteq Listed'
    BY <2>4 DEF Listed
  <2>7. i > high
    BY <1>3, <1>4, <2>1, SMT
  <2> QED BY <2>3, <2>5, <2>6, <2>7 DEF i
<1>6. CASE ~Accepted(i, appending.key, j)
  <2>1. i <= high \/ (j > 0 /\ i = list[j])
    BY <1>2, <1>6, AppendFacts
  <2>2. Listed' = Listed
    BY <1>2, <1>6 DEF Listed
  <2>3. CASE i <= high
    BY <1>3, <1>4, <2>2, <2>3, SMT
  <2>4. CASE j > 0 /\ i = list[j]
    <3>1. i \in Listed /\ i > high
      BY <1>3, <2>4, SMT DEF Listed, StretchInv, InOrder
    <3> QED BY <2>2, <3>1
  <2> QED BY <2>1, <2>3, <2>4
<1> QED BY <1>5, <1>6


-----------------------------------------------------------------------------
(* Sequence numbers that start over.                                       *)

LEMMA QuotRem ==
  ASSUME NEW m \in Nat \ {0}, NEW a \in Nat
  PROVE  a % m \in 0 .. m - 1 /\ a \div m \in Nat /\ a = (m * (a \div m)) + (a % m)
OBVIOUS

\* The remainder d numbers later: over the edge at most once.
LEMMA RemAfter ==
  ASSUME NEW m \in Nat \ {0}, NEW a \in Nat, NEW d \in 0 .. m - 1
  PROVE  (a + d) % m = IF (a % m) + d < m THEN (a % m) + d ELSE (a % m) + d - m
<1> DEFINE r == a % m
           s == (a + d) % m
           q == a \div m
           p == (a + d) \div m
<1>1. /\ r \in 0 .. m - 1 /\ q \in Nat /\ a = (m * q) + r
      /\ s \in 0 .. m - 1 /\ p \in Nat /\ a + d = (m * p) + s
  <2>1. a + d \in Nat
    OBVIOUS
  <2> QED BY <2>1, QuotRem
<1> HIDE DEF r, s, q, p
<1>2. m * (p - q) = (r + d) - s
  BY <1>1
<1>3. ~(p - q <= -1)
  <2> SUFFICES ASSUME p - q <= -1 PROVE FALSE
    OBVIOUS
  <2>1. m * (p - q) <= -m
    BY <1>1
  <2> QED BY <1>1, <1>2, <2>1
<1>4. ~(p - q >= 2)
  <2> SUFFICES ASSUME p - q >= 2 PROVE FALSE
    OBVIOUS
  <2>1. m * (p - q) >= 2 * m
    BY <1>1
  <2> QED BY <1>1, <1>2, <2>1
<1>5. p - q = 0 \/ p - q = 1
  BY <1>1, <1>3, <1>4
<1>6. s = r + d \/ s = r + d - m
  <2>1. m * (p - q) = 0 \/ m * (p - q) = m
    BY <1>5
  <2> QED BY <1>1, <1>2, <2>1
<1>7. s = IF r + d < m THEN r + d ELSE r + d - m
  BY <1>1, <1>6
<1> QED BY <1>7 DEF r, s

\* The sequence number of a packet, from that of an earlier one.
LEMMA SeqNumAfter ==
  ASSUME start \in Starts, NEW h \in Nat, NEW i \in Nat, h <= i, i - h < SeqMod
  PROVE  /\ SeqNum(h) \in 0 .. SeqMod - 1 /\ SeqNum(i) \in 0 .. SeqMod - 1
         /\ SeqNum(i) = IF SeqNum(h) + (i - h) < SeqMod
                          THEN SeqNum(h) + (i - h)
                          ELSE SeqNum(h) + (i - h) - SeqMod
<1>1. SeqMod \in Nat \ {0} /\ start + h \in Nat /\ i - h \in 0 .. SeqMod - 1
      /\ (start + h) + (i - h) = start + i
  BY RingAssumption
<1>2. (start + i) % SeqMod = IF ((start + h) % SeqMod) + (i - h) < SeqMod
                               THEN ((start + h) % SeqMod) + (i - h)
                               ELSE ((start + h) % SeqMod) + (i - h) - SeqMod
  BY <1>1, RemAfter
<1> QED BY <1>2, SeqNumRange DEF SeqNum

-----------------------------------------------------------------------------
(* Streams whose packets arrive in turn.                                   *)

\* Packet i is behind all that was read and all that is in the list.
Newest(i) == i > high /\ \A j \in DOMAIN list : list[j] < i

\* One packet is in the network, a newer one than the receive thread holds; and
\* the local seqnum it holds is higher than the sequence number of anything that
\* may still be in the list, or have been read, when it takes the mutex.
Arrival ==
  /\ sent - high <= MaxLag[start] + 1
  /\ \A i \in net : i = sent - 1 /\ Newest(i)
  /\ appending # NoPacket =>
       /\ appending.pkt \notin net
       /\ Newest(appending.pkt)
       /\ \A h \in 0 .. appending.pkt - 1 : high <= h => SeqNum(h) < appending.key

\* The inductive invariant.
TurnInv == InTurn(start) /\ TypeOK /\ InOrder /\ Arrival

LEMMA TurnTypes ==
  ASSUME TurnInv
  PROVE  /\ start \in Nat /\ sent \in Nat /\ high \in Int /\ high >= -1 /\ high < sent
         /\ SeqMod \in Nat /\ Near \in Nat /\ MaxLag[start] \in Nat
         /\ list \in Seq(Nat) /\ Len(list) \in Nat /\ DOMAIN list = 1 .. Len(list)
         /\ \A j \in DOMAIN list : list[j] \in Nat /\ list[j] < sent
         /\ \A i \in net : i \in Nat /\ i < sent
         /\ appending # NoPacket => appending.pkt \in Nat /\ appending.pkt < sent
<1>1. /\ start \in Starts /\ sent \in 0 .. NumPackets[start] /\ net \subseteq 0 .. sent - 1
      /\ list \in Seq(0 .. sent - 1) /\ high \in -1 .. sent - 1
      /\ appending # NoPacket => appending.pkt \in 0 .. sent - 1
  BY DEF TurnInv, TypeOK
<1>2. start \in Nat /\ sent \in Nat /\ SeqMod \in Nat /\ Near \in Nat /\ MaxLag[start] \in Nat
  BY <1>1, RingAssumption
<1>3. list \in Seq(Nat) /\ Len(list) \in Nat /\ DOMAIN list = 1 .. Len(list)
      /\ \A j \in DOMAIN list : list[j] \in 0 .. sent - 1
  BY <1>1, <1>2
<1> QED BY <1>1, <1>2, <1>3

\* What Key tells of a packet that has just arrived, however often the sequence
\* numbers have started over.
LEMMA KeyAfter ==
  ASSUME TurnInv, NEW i \in net, NEW h \in 0 .. i - 1, high <= h
  PROVE  SeqNum(h) < Key(i)
<1>t. start \in Starts /\ InTurn(start) /\ Arrival
      /\ m_seqnum = (IF high = -1 THEN -1 ELSE SeqNum(high))
  BY DEF TurnInv, TypeOK
<1>y. /\ start \in Nat /\ sent \in Nat /\ high \in Int /\ high >= -1 /\ high < sent
      /\ SeqMod \in Nat /\ Near \in Nat /\ MaxLag[start] \in Nat
  BY TurnTypes
<1>z. /\ MaxLag[start] <= Near /\ MaxLag[start] + Near < SeqMod
      /\ start + MaxLag[start] <= SeqMod
      /\ sent - high <= MaxLag[start] + 1
  BY <1>t DEF Arrival, InTurn
<1>1. i \in Nat /\ i = sent - 1 /\ i > high
  BY <1>t, TurnTypes DEF Arrival, Newest
<1>2. h \in Nat /\ h < i
  BY <1>1
<1>3. SeqNum(h) \in 0 .. SeqMod - 1 /\ SeqNum(i) \in 0 .. SeqMod - 1
  BY <1>t, <1>1, <1>2, SeqNumRange
<1>4. CASE high = -1
  <2>1. start + i < SeqMod /\ start + h < start + i /\ start + h \in Nat
    BY <1>y, <1>z, <1>1, <1>2, <1>4
  <2>2. SeqNum(i) = start + i /\ SeqNum(h) = start + h
    <3>1. \A a \in Nat : a < SeqMod => a % SeqMod = a
      BY <1>y
    <3>2. start + i \in Nat /\ start + i < SeqMod /\ start + h \in Nat /\ start + h < SeqMod
      BY <1>y, <1>1, <2>1
    <3> QED BY <3>1, <3>2 DEF SeqNum
  <2>3. Key(i) = SeqNum(i)
    BY <1>t, <1>4, TurnTypes DEF Key
  <2> QED BY <2>1, <2>2, <2>3
<1>5. CASE high # -1
  <2>1. high \in Nat /\ i - high < SeqMod /\ i - high <= MaxLag[start]
    BY <1>y, <1>z, <1>1, <1>5
  <2>2. i - h < SeqMod /\ h - high < SeqMod
    BY <1>1, <1>2, <2>1, TurnTypes
  <2>3. SeqNum(high) \in 0 .. SeqMod - 1
        /\ SeqNum(i) = IF SeqNum(high) + (i - high) < SeqMod
                         THEN SeqNum(high) + (i - high) ELSE SeqNum(high) + (i - high) - SeqMod
    BY <1>t, <1>1, <2>1, SeqNumAfter
  <2>4. SeqNum(i) = IF SeqNum(h) + (i - h) < SeqMod
                      THEN SeqNum(h) + (i - h) ELSE SeqNum(h) + (i - h) - SeqMod
    BY <1>t, <1>1, <1>2, <2>2, SeqNumAfter
  <2>5. SeqNum(h) = IF SeqNum(high) + (h - high) < SeqMod
                      THEN SeqNum(high) + (h - high) ELSE SeqNum(high) + (h - high) - SeqMod
    BY <1>t, <1>2, <2>1, <2>2, SeqNumAfter
  <2>6. m_seqnum = SeqNum(high)
    BY <1>t, <1>5
  <2>7. CASE SeqNum(high) + (i - high) < SeqMod
    <3>1. SeqNum(h) < SeqNum(i)
      BY <1>y, <1>1, <1>2, <1>3, <2>1, <2>3, <2>5, <2>7
    <3>2. Key(i) = SeqNum(i) \/ Key(i) = SeqNum(i) + SeqMod
      BY DEF Key
    <3> QED BY <1>3, <3>1, <3>2, TurnTypes
  <2>8. CASE SeqNum(high) + (i - high) >= SeqMod
    <3>1. SeqNum(i) < Near /\ SeqNum(high) > Near
      BY <1>y, <1>z, <1>1, <1>3, <2>1, <2>3, <2>8
    <3>2. Key(i) = SeqNum(i) + SeqMod
      BY <2>6, <3>1 DEF Key
    <3> QED BY <1>3, <3>2, TurnTypes
  <2> QED BY <1>1, <2>1, <2>3, <2>7, <2>8, TurnTypes
<1> QED BY <1>4, <1>5

\* appendRTPPacket puts the packet at the end.
LEMMA TurnAppends ==
  ASSUME TurnInv, appendRTPPacket
  PROVE  /\ list' \in Seq(Nat) /\ Len(list') = Len(list) + 1
         /\ \A k \in 1 .. Len(list) : list'[k] = list[k]
         /\ list'[Len(list) + 1] = appending.pkt
<1> DEFINE i == appending.pkt
<1>1. PICK j \in 0 .. Len(list) :
        /\ SearchEnds(j, i, appending.key)
        /\ list' = IF Accepted(i, appending.key, j) THEN InsertAfter(j, i) ELSE list
  BY DEF appendRTPPacket
<1>2. /\ i \in Nat /\ Newest(i) /\ appending.key \in Nat
      /\ \A h \in 0 .. i - 1 : high <= h => SeqNum(h) < appending.key
  <2>1. appending # NoPacket /\ appending.key \in Nat
    BY DEF appendRTPPacket, TurnInv, TypeOK
  <2> QED BY <2>1, TurnTypes DEF TurnInv, Arrival
<1>3. ASSUME NEW k \in DOMAIN list PROVE SeqNum(list[k]) < appending.key
  <2>1. list[k] \in Nat /\ list[k] < i /\ high < list[k] /\ high \in Int
    BY <1>2, TurnTypes DEF Newest, TurnInv, InOrder
  <2>2. list[k] \in 0 .. i - 1 /\ high <= list[k]
    BY <1>2, <2>1
  <2> QED BY <1>2, <2>2
<1>4. j = Len(list)
  <2>0. Len(list) \in Nat
    BY TurnTypes
  <2> SUFFICES ASSUME j < Len(list) PROVE FALSE
    BY <2>0
  <2>1. Len(list) \in j + 1 .. Len(list) /\ Len(list) \in DOMAIN list
    BY TurnTypes
  <2> QED BY <1>1, <1>3, <2>1 DEF SearchEnds, Meets
<1>5. Accepted(i, appending.key, j)
  <2>1. CASE j = 0
    <3>1. m_seqnum = (IF high = -1 THEN -1 ELSE SeqNum(high))
      BY DEF TurnInv, TypeOK
    <3>2. high # -1 => high \in 0 .. i - 1
      BY <1>2, TurnTypes DEF Newest
    <3>3. m_seqnum < appending.key
      BY <1>2, <3>1, <3>2, TurnTypes
    <3> QED BY <2>1, <3>3 DEF Accepted
  <2>2. CASE j # 0
    <3>1. j \in DOMAIN list
      BY <1>4, <2>2, TurnTypes
    <3> QED BY <1>3, <2>2, <3>1 DEF Accepted
  <2> QED BY <2>1, <2>2
<1> HIDE DEF i
<1>6. list \in Seq(Nat) /\ Len(list) \in Nat
  BY TurnTypes
<1>7. InsertAfter(j, i) \in Seq(Nat) /\ IsInsertion(InsertAfter(j, i), j, i)
  BY <1>2, <1>6, InsertLemma
<1>8. list' = InsertAfter(Len(list), i)
  BY <1>1, <1>4, <1>5
<1>9. list' \in Seq(Nat) /\ IsInsertion(list', Len(list), i)
  BY <1>4, <1>7, <1>8
<1>10. \A k \in 1 .. Len(list) : k \in 1 .. Len(list) + 1 /\ k <= Len(list)
  BY <1>6
<1>11. Len(list) + 1 \in 1 .. Len(list) + 1 /\ ~(Len(list) + 1 <= Len(list))
  BY <1>6
<1> QED BY <1>9, <1>10, <1>11 DEF IsInsertion, i

LEMMA TurnInit == Init /\ InTurn(start) => TurnInv
<1> SUFFICES ASSUME Init, InTurn(start) PROVE TurnInv
  OBVIOUS
<1>1. TypeOK
  BY TypeInit
<1>2. MaxLag[start] \in Nat
  BY RingAssumption DEF Init
<1>3. InOrder /\ Arrival
  BY <1>2 DEF Init, InOrder, Arrival
<1> QED BY <1>1, <1>3 DEF TurnInv

\* Every step keeps the packets in turn.
LEMMA TurnStep == TurnInv /\ [Next]_vars => TurnInv'
<1> SUFFICES ASSUME TurnInv, [Next]_vars PROVE InOrder' /\ Arrival'
  BY StartKept, TypeStep DEF TurnInv, InTurn
<1>y. /\ sent \in Nat /\ high \in Int /\ high < sent /\ MaxLag[start] \in Nat
      /\ Len(list) \in Nat /\ DOMAIN list = 1 .. Len(list)
      /\ \A j \in DOMAIN list : list[j] \in Nat /\ list[j] < sent /\ list[j] > high
      /\ \A i \in net : i \in Nat /\ i < sent
      /\ appending # NoPacket => appending.pkt \in Nat /\ appending.pkt < sent
      /\ InOrder /\ Arrival /\ MaxDelay[start] = 0 /\ MaxDup[start] = 0
  BY TurnTypes DEF TurnInv, InOrder, InTurn
<1>1. CASE Send
  <2>1. /\ UNCHANGED <<start, list, appending, high>> /\ sent' = sent + 1 /\ net' = net \cup {sent}
        /\ sent - high <= MaxLag[start] /\ \A i \in net : sent - i <= 0
    BY <1>y, <1>1 DEF Send
  <2>2. net = {}
    BY <1>y, <2>1
  <2>3. InOrder'
    BY <1>y, <2>1 DEF InOrder
  <2>4. sent' - high' <= MaxLag[start'] + 1
    BY <1>y, <2>1
  <2>5. \A i \in net' : i = sent' - 1 /\ i > high' /\ \A j \in DOMAIN list' : list'[j] < i
    BY <1>y, <2>1, <2>2
  <2>6. appending' # NoPacket => appending'.pkt \notin net'
    BY <1>y, <2>1, <2>2
  <2>7. appending' # NoPacket =>
          /\ Newest(appending.pkt)'
          /\ \A h \in 0 .. appending'.pkt - 1 : high' <= h => SeqNum(h)' < appending'.key
    BY <1>y, <2>1 DEF Arrival, Newest, SeqNum
  <2> QED BY <2>1, <2>3, <2>4, <2>5, <2>6, <2>7 DEF Arrival, Newest
<1>2. ASSUME NEW i \in net, Lose(i) PROVE InOrder' /\ Arrival'
  BY <1>y, <1>2 DEF Lose, InOrder, Arrival, Newest, SeqNum
<1>3. ASSUME NEW i \in net, ReceivePacket(i) PROVE InOrder' /\ Arrival'
  <2>1. dups \in 0 .. 0
    BY <1>y DEF TurnInv, TypeOK
  <2>2. /\ UNCHANGED <<start, sent, list, high>> /\ net' = net \ {i}
        /\ appending' = [pkt |-> i, key |-> Key(i)]
    BY <1>y, <1>3, <2>1 DEF ReceivePacket, Deliver
  <2>3. \A h \in 0 .. i - 1 : high <= h => SeqNum(h) < Key(i)
    BY KeyAfter
  <2>4. Newest(i)
    BY <1>y DEF Arrival
  <2> QED BY <1>y, <2>2, <2>3, <2>4 DEF InOrder, Arrival, Newest, SeqNum
<1>4. CASE appendRTPPacket
  <2> DEFINE i == appending.pkt
  <2>1. /\ UNCHANGED <<start, sent, net, high>> /\ appending # NoPacket /\ appending' = NoPacket
    BY <1>4 DEF appendRTPPacket
  <2>2. /\ Newest(i) /\ i \notin net /\ i \in Nat /\ i < sent
    BY <1>y, <2>1 DEF Arrival
  <2>3. /\ DOMAIN list' = 1 .. Len(list) + 1
        /\ \A k \in 1 .. Len(list) : list'[k] = list[k]
        /\ list'[Len(list) + 1] = i
    BY <1>4, TurnAppends
  <2> HIDE DEF i
  <2>4. InOrder'
    <3>1. ASSUME NEW k \in DOMAIN list' PROVE list'[k] > high'
      BY <1>y, <2>1, <2>2, <2>3 DEF Newest
    <3>2. ASSUME NEW k \in DOMAIN list', NEW m \in DOMAIN list', k < m PROVE list'[k] < list'[m]
      <4>1. k \in DOMAIN list /\ (m \in DOMAIN list \/ m = Len(list) + 1)
        BY <1>y, <2>3, <3>2
      <4> QED BY <1>y, <2>2, <2>3, <3>2, <4>1 DEF Newest, InOrder
    <3> QED BY <3>1, <3>2 DEF InOrder
  <2>5. ASSUME NEW n \in net' PROVE n = sent' - 1 /\ Newest(n)'
    <3>1. n \in net /\ n = sent - 1 /\ n > high /\ \A j \in DOMAIN list : list[j] < n
      BY <1>y, <2>1, <2>5 DEF Arrival, Newest
    <3>2. i < n
      BY <1>y, <2>2, <3>1
    <3>3. \A j \in DOMAIN list' : list'[j] < n
      BY <1>y, <2>3, <3>1, <3>2
    <3> QED BY <2>1, <3>1, <3>3 DEF Newest
  <2> QED BY <1>y, <2>1, <2>4, <2>5 DEF Arrival
<1>5. CASE readPacket
  <2>1. /\ list # <<>> /\ UNCHANGED <<start, sent, net, appending>>
        /\ list' = Tail(list) /\ high' = Head(list)
    BY <1>5 DEF readPacket
  <2>2. list \in Seq(Nat)
    BY TurnTypes
  <2>3. /\ Len(list) > 0 /\ DOMAIN list' = 1 .. Len(list) - 1 /\ high' = list[1]
        /\ \A k \in 1 .. Len(list) - 1 : list'[k] = list[k + 1]
    BY <2>1, <2>2
  <2>4. InOrder'
    BY <1>5, ReadOrder DEF TurnInv
  <2>5. 1 \in DOMAIN list /\ high' > high /\ high' \in Int
    BY <1>y, <2>3
  <2>6. ASSUME NEW i, Newest(i) PROVE Newest(i)'
    <3>1. \A k \in DOMAIN list' : k + 1 \in DOMAIN list
      BY <1>y, <2>3
    <3> QED BY <2>3, <2>5, <2>6, <3>1 DEF Newest
  <2>7. sent' - high' <= MaxLag[start'] + 1
    BY <1>y, <2>1, <2>5 DEF Arrival
  <2>8. \A i \in net' : i = sent' - 1 /\ Newest(i)'
    BY <1>y, <2>1, <2>6 DEF Arrival
  <2>9. appending' # NoPacket =>
          /\ appending'.pkt \notin net'
          /\ Newest(appending.pkt)'
          /\ \A h \in 0 .. appending'.pkt - 1 : high' <= h => SeqNum(h)' < appending'.key
    <3> SUFFICES ASSUME appending # NoPacket
                 PROVE  /\ appending.pkt \notin net /\ Newest(appending.pkt)'
                        /\ \A h \in 0 .. appending.pkt - 1 :
                             high' <= h => SeqNum(h)' < appending.key
      BY <2>1
    <3>1. /\ appending.pkt \notin net /\ Newest(appending.pkt) /\ appending.pkt \in Nat
          /\ \A h \in 0 .. appending.pkt - 1 : high <= h => SeqNum(h) < appending.key
      BY <1>y DEF Arrival
    <3>2. \A h \in 0 .. appending.pkt - 1 : high' <= h => high <= h
      BY <1>y, <2>5, <3>1
    <3> QED BY <2>1, <2>6, <3>1, <3>2 DEF SeqNum
  <2> QED BY <2>1, <2>4, <2>7, <2>8, <2>9 DEF Arrival
<1>6. CASE UNCHANGED vars
  BY <1>y, <1>6 DEF vars, InOrder, Arrival, Newest, SeqNum
<1> QED BY <1>1, <1>2, <1>3, <1>4, <1>5, <1>6 DEF Next

\* A packet is put behind the others, whatever has been read meanwhile.
LEMMA TurnDropsNothing ==
  ASSUME TurnInv, [Next]_vars, appending # NoPacket, appending' = NoPacket
  PROVE  Listed' = Listed \cup (IF appending.pkt > high THEN {appending.pkt} ELSE {})
<1> DEFINE i == appending.pkt
<1>1. appendRTPPacket
  BY DEF Next, Send, Lose, ReceivePacket, readPacket, vars
<1>2. i > high
  BY DEF TurnInv, Arrival, Newest
<1>3. /\ DOMAIN list' = 1 .. Len(list) + 1 /\ DOMAIN list = 1 .. Len(list) /\ Len(list) \in Nat
      /\ \A k \in 1 .. Len(list) : list'[k] = list[k]
      /\ list'[Len(list) + 1] = i
  BY <1>1, TurnAppends, TurnTypes
<1> HIDE DEF i
<1>4. \A k \in DOMAIN list' : k \in DOMAIN list \/ k = Len(list) + 1
  BY <1>3
<1>5. Listed' \subseteq Listed \cup {i}
  BY <1>3, <1>4 DEF Listed
<1>6. DOMAIN list \subseteq DOMAIN list' /\ Len(list) + 1 \in DOMAIN list'
  BY <1>3
<1>7. Listed \cup {i} \subseteq Listed'
  BY <1>3, <1>6 DEF Listed
<1> QED BY <1>2, <1>5, <1>7 DEF i

-----------------------------------------------------------------------------
(* The theorems.                                                           *)

LEMMA StreamsKept == ASSUME Streams PROVE Spec => [](StretchInv \/ TurnInv)
<1>1. Init => StretchInv \/ TurnInv
  <2> SUFFICES ASSUME Init PROVE StretchInv \/ TurnInv
    OBVIOUS
  <2>1. Stretch(start) \/ InTurn(start)
    BY DEF Init, Streams
  <2> QED BY <2>1, OrderInit, TurnInit
<1>2. (StretchInv \/ TurnInv) /\ [Next]_vars => (StretchInv \/ TurnInv)'
  BY OrderStep, TurnStep
<1> QED BY <1>1, <1>2, PTL DEF Spec

\* The play thread gets every packet at most once and in the order of the stream:
\* of a stream that stays within a stretch of the sequence numbers, whatever the
\* network does, and of one whose packets arrive in turn however often the
\* sequence numbers start over.
THEOREM RingInOrder == ASSUME Streams PROVE Spec => []InOrder
<1>1. StretchInv \/ TurnInv => InOrder
  BY DEF StretchInv, TurnInv
<1> QED BY <1>1, StreamsKept, PTL

\* No packet of such a stream that could still be played is dropped.
THEOREM RingNothingNewDropped == ASSUME Streams PROVE Spec => NothingNewDropped
<1>1. (StretchInv \/ TurnInv) /\ [Next]_vars =>
        [appending # NoPacket /\ appending' = NoPacket =>
           Listed' = Listed \cup (IF appending.pkt > high THEN {appending.pkt} ELSE {})]_vars
  BY NothingNewDroppedStep, TurnDropsNothing
<1> QED BY <1>1, StreamsKept, PTL DEF Spec, NothingNewDropped
===============================================================================
