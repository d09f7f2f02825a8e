--------------------------- MODULE TransferProofs ---------------------------
(***************************************************************************)
(* What holds of a transfer over any network, one that reorders included,  *)
(* and also when writes fail: the type invariant, and that the stack of    *)
(* the sender is an end of the file.                                       *)
(***************************************************************************)
EXTENDS Transfer, StackProofs

\* The nodes of the sender's stack.
Nodes == [seqnum : SeqNums, payload : 0 .. Blocks, sent : BOOLEAN]

\* How many packets of the file are no longer on a stack.
Gone(stack) == Blocks + 1 - Len(stack)

\* The r-th packet of the file, the terminating packet being the last one.
IsPacket(r, pkt) ==
  /\ pkt.seqnum = (r - 1) % SeqSpace
  /\ pkt.payload = IF r <= Blocks THEN r ELSE NoPayload

RestOfFile(stack) ==
  /\ stack \in Seq(Nodes)
  /\ Len(stack) <= Blocks + 1
  /\ \A k \in 1 .. Len(stack) : IsPacket(Gone(stack) + k, stack[k])

\* The packets that have been transmitted, or are acknowledged: by rank.
Ranks == 1 .. Blocks + 1
SentRanks(stack) ==
  {r \in Ranks : r > Gone(stack) => stack[r - Gone(stack)].sent}

-----------------------------------------------------------------------------
LEMMA RestIs ==
  ASSUME NEW stack, RestOfFile(stack)
  PROVE  /\ Len(stack) \in Nat /\ Gone(stack) \in Nat
         /\ Gone(stack) <= Blocks + 1 /\ Len(stack) = Blocks + 1 - Gone(stack)
         /\ \A k \in 1 .. Len(stack) :
              stack[k] \in Nodes /\ IsPacket(Gone(stack) + k, stack[k])
<1>1. Len(stack) \in Nat /\ \A k \in 1 .. Len(stack) : stack[k] \in Nodes
  BY LenProperties, ElementOfSeq DEF RestOfFile
<1> QED BY <1>1, SenderAssumption DEF RestOfFile, Gone

\* A packet of the file is a packet, whatever its rank.
LEMMA PacketType ==
  ASSUME NEW r \in Ranks
  PROVE  /\ (r - 1) % SeqSpace \in SeqNums
         /\ (IF r <= Blocks THEN r ELSE NoPayload) \in 0 .. Blocks
<1>1. r - 1 \in Nat
  BY SenderAssumption DEF Ranks
<1>2. (r - 1) % SeqSpace \in SeqNums
  BY <1>1, Remainder
<1> QED BY <1>2, SenderAssumption DEF Ranks, NoPayload

\* read_file leaves the whole file, none of it transmitted.
LEMMA WholeFile ==
  RestOfFile(FilePackets) /\ Gone(FilePackets) = 0 /\ SentRanks(FilePackets) = {}
<1>0. Blocks + 1 \in Nat
  BY SenderAssumption
<1>1. \A k \in 1 .. Blocks + 1 : FilePacket(k) \in Nodes
  BY PacketType DEF Ranks, FilePacket, Nodes
<1>2. FilePackets \in Seq(Nodes) /\ Len(FilePackets) = Blocks + 1
      /\ \A k \in 1 .. Blocks + 1 : FilePackets[k] = FilePacket(k)
  <2> DEFINE n == Blocks + 1
  <2>1. n \in Nat /\ \A k \in 1 .. n : FilePacket(k) \in Nodes
    BY <1>0, <1>1
  <2>2. FilePackets = [k \in 1 .. n |-> FilePacket(k)]
    BY DEF FilePackets
  <2> HIDE DEF n
  <2>3. FilePackets \in Seq(Nodes)
    BY <2>1, <2>2
  <2>4. Len(FilePackets) = n
    BY <2>1, <2>2
  <2>5. \A k \in 1 .. n : FilePackets[k] = FilePacket(k)
    BY <2>2
  <2> QED BY <2>3, <2>4, <2>5 DEF n
<1>3. Gone(FilePackets) = 0
  <2>1. Len(FilePackets) = Blocks + 1
    BY <1>2
  <2>2. Blocks + 1 - (Blocks + 1) = 0
    BY SenderAssumption
  <2> QED BY <2>1, <2>2 DEF Gone
<1>4. ASSUME NEW k \in 1 .. Blocks + 1
      PROVE  IsPacket(k, FilePackets[k]) /\ ~FilePackets[k].sent
  <2>1. FilePackets[k] = FilePacket(k)
    BY <1>2
  <2>2. IsPacket(k, FilePacket(k))
    BY DEF IsPacket, FilePacket
  <2>3. ~FilePacket(k).sent
    BY DEF FilePacket
  <2> QED BY <2>1, <2>2, <2>3
<1>5. RestOfFile(FilePackets)
  BY <1>0, <1>2, <1>3, <1>4 DEF RestOfFile
<1>6. \A r \in Ranks : r > 0 /\ r - 0 = r
  BY DEF Ranks
<1>7. SentRanks(FilePackets) = {}
  BY <1>3, <1>4, <1>6 DEF SentRanks, Ranks
<1> QED BY <1>3, <1>5, <1>7

\* An acknowledgment leaves an end of the file; what is gone counts as sent.
LEMMA RestShrinks ==
  ASSUME NEW stack, RestOfFile(stack), NEW s
  PROVE  /\ RestOfFile(stack_remove_acked(stack, s))
         /\ Gone(stack) <= Gone(stack_remove_acked(stack, s))
         /\ SentRanks(stack_remove_acked(stack, s)) =
              SentRanks(stack) \cup 1 .. Gone(stack_remove_acked(stack, s))
         /\ is_in_stack(stack, s) =>
              Gone(stack_remove_acked(stack, s)) = Gone(stack) + FirstPosition(stack, s) - 1
<1> DEFINE new == stack_remove_acked(stack, s)
           g == Gone(stack)
<1>0. /\ Len(stack) \in Nat /\ g \in Nat
      /\ g <= Blocks + 1 /\ Len(stack) = Blocks + 1 - g
      /\ \A k \in 1 .. Len(stack) : stack[k] \in Nodes /\ IsPacket(g + k, stack[k])
  BY RestIs
<1>1. PICK p \in 1 .. Len(stack) + 1 :
        /\ new \in Seq(Nodes)
        /\ Len(new) = Len(stack) - p + 1
        /\ \A i \in 1 .. Len(stack) - p + 1 : new[i] = stack[p + i - 1]
        /\ is_in_stack(stack, s) => p = FirstPosition(stack, s)
  BY RemoveAckedIs DEF RestOfFile
<1> HIDE DEF new, g
<1>2. Gone(new) = g + p - 1
  BY <1>0, <1>1, SenderAssumption DEF Gone
<1>3. ASSUME NEW k \in 1 .. Len(new)
      PROVE  IsPacket(Gone(new) + k, new[k])
  <2>1. p + k - 1 \in 1 .. Len(stack) /\ new[k] = stack[p + k - 1]
    BY <1>0, <1>1
  <2>2. Gone(new) + k = g + (p + k - 1)
    BY <1>0, <1>2
  <2>3. IsPacket(g + (p + k - 1), stack[p + k - 1])
    BY <1>0, <2>1
  <2> QED BY <2>1, <2>2, <2>3
<1>4. RestOfFile(new)
  BY <1>0, <1>1, <1>3, SenderAssumption DEF RestOfFile
<1>5. ASSUME NEW r \in Ranks
      PROVE  r \in SentRanks(new) <=> r \in SentRanks(stack) \cup 1 .. Gone(new)
  <2>1. CASE r > Gone(new)
    <3>1. /\ r - Gone(new) \in 1 .. Len(stack) - p + 1
          /\ p + (r - Gone(new)) - 1 = r - g /\ r > g /\ r \notin 1 .. Gone(new)
      BY <2>1, <1>0, <1>1, <1>2, SenderAssumption DEF Ranks
    <3>2. new[r - Gone(new)] = stack[r - g]
      BY <1>1, <3>1
    <3> QED BY <2>1, <3>1, <3>2 DEF SentRanks, g
  <2>2. CASE ~(r > Gone(new))
    <3>1. r \in 1 .. Gone(new)
      BY <2>2, <1>0, <1>1, <1>2, SenderAssumption DEF Ranks
    <3> QED BY <2>2, <3>1 DEF SentRanks
  <2> QED BY <2>1, <2>2
<1>6. SentRanks(new) = SentRanks(stack) \cup 1 .. Gone(new)
  <2>1. 1 .. Gone(new) \subseteq Ranks
    BY <1>0, <1>1, <1>2, SenderAssumption DEF Ranks
  <2>2. SentRanks(new) \subseteq Ranks /\ SentRanks(stack) \subseteq Ranks
    BY DEF SentRanks
  <2> QED BY <1>5, <2>1, <2>2
<1>7. g <= Gone(new)
  BY <1>0, <1>1, <1>2
<1> QED BY <1>1, <1>2, <1>4, <1>6, <1>7 DEF new, g

\* A transmission sets the timestamp of one packet.
LEMMA RestMarked ==
  ASSUME NEW stack, RestOfFile(stack), NEW p \in 1 .. Len(stack)
  PROVE  /\ RestOfFile([stack EXCEPT ![p].sent = TRUE])
         /\ Gone([stack EXCEPT ![p].sent = TRUE]) = Gone(stack)
         /\ Len([stack EXCEPT ![p].sent = TRUE]) = Len(stack)
         /\ SentRanks([stack EXCEPT ![p].sent = TRUE])
              = SentRanks(stack) \cup {Gone(stack) + p}
         /\ Gone(stack) + p \in Ranks
         /\ Gone(stack) + p \in SentRanks(stack) <=> stack[p].sent
<1> DEFINE node == [stack[p] EXCEPT !.sent = TRUE]
           new == [stack EXCEPT ![p] = node]
           g == Gone(stack)
<1>0. /\ Len(stack) \in Nat /\ g \in Nat /\ stack \in Seq(Nodes)
      /\ g <= Blocks + 1 /\ Len(stack) = Blocks + 1 - g
      /\ \A k \in 1 .. Len(stack) : stack[k] \in Nodes /\ IsPacket(g + k, stack[k])
  BY RestIs DEF RestOfFile
<1>1. /\ node \in Nodes /\ node.sent = TRUE
      /\ node.seqnum = stack[p].seqnum /\ node.payload = stack[p].payload
  BY <1>0 DEF Nodes
<1>2. new = [stack EXCEPT ![p].sent = TRUE]
  OBVIOUS
<1> HIDE DEF node
<1>3. /\ new \in Seq(Nodes) /\ Len(new) = Len(stack)
      /\ \A k \in 1 .. Len(stack) : new[k] = IF k = p THEN node ELSE stack[k]
  BY <1>0, <1>1, ExceptSeq
<1> HIDE DEF new, g
<1>4. Gone(new) = g
  BY <1>3 DEF Gone, g
<1>5. RestOfFile(new)
  <2>1. \A k \in 1 .. Len(new) : IsPacket(g + k, new[k])
    BY <1>0, <1>1, <1>3 DEF IsPacket
  <2> QED BY <2>1, <1>0, <1>3, <1>4, SenderAssumption DEF RestOfFile
<1>6. g + p \in Ranks /\ g + p > g /\ (g + p) - g = p
  BY <1>0, SenderAssumption DEF Ranks
<1>7. g + p \in SentRanks(stack) <=> stack[p].sent
  BY <1>6 DEF SentRanks, g
<1>8. ASSUME NEW r \in Ranks
      PROVE  r \in SentRanks(new) <=> r \in SentRanks(stack) \cup {g + p}
  <2>1. CASE r = g + p
    <3>1. new[r - g].sent
      BY <1>0, <1>1, <1>3, <1>6, <2>1
    <3> QED BY <2>1, <3>1, <1>4 DEF SentRanks
  <2>2. CASE r # g + p
    <3>1. r > g => r - g \in 1 .. Len(stack) /\ r - g # p
      BY <2>2, <1>0, SenderAssumption DEF Ranks
    <3>2. r > g => new[r - g] = stack[r - g]
      BY <3>1, <1>3
    <3> QED BY <2>2, <3>2, <1>4 DEF SentRanks, g
  <2> QED BY <2>1, <2>2
<1>9. SentRanks(new) = SentRanks(stack) \cup {g + p}
  <2>1. SentRanks(new) \subseteq Ranks /\ SentRanks(stack) \subseteq Ranks
    BY DEF SentRanks
  <2> QED BY <2>1, <1>6, <1>8
<1> QED BY <1>2, <1>3, <1>4, <1>5, <1>6, <1>7, <1>9 DEF g

LEMMA RanksFinite == IsFiniteSet(Ranks) /\ Cardinality(Ranks) = Blocks + 1
<1> DEFINE n == Blocks + 1
<1>1. n \in Int /\ ~(1 > n)
  BY SenderAssumption
<1> HIDE DEF n
<1>2. IsFiniteSet(1 .. n) /\ Cardinality(1 .. n) = IF 1 > n THEN 0 ELSE n - 1 + 1
  BY <1>1, FS_Interval
<1> QED BY <1>1, <1>2 DEF Ranks, n

LEMMA SentRanksFinite ==
  ASSUME NEW stack
  PROVE  /\ IsFiniteSet(SentRanks(stack))
         /\ Cardinality(SentRanks(stack)) \in 0 .. Blocks + 1
<1>1. SentRanks(stack) \in SUBSET Ranks
  BY DEF SentRanks
<1>2. IsFiniteSet(SentRanks(stack)) /\ Cardinality(SentRanks(stack)) <= Blocks + 1
  BY RanksFinite, <1>1, FS_Subset
<1>3. Cardinality(SentRanks(stack)) \in Nat
  BY <1>2, FS_CardinalityType
<1> QED BY <1>2, <1>3, SenderAssumption

-----------------------------------------------------------------------------
(***************************************************************************)
(* The type invariant, with what makes it inductive.  A packet is counted  *)
(* as sent once, so totalPacketsSent stays within the packets marked; what *)
(* is buffered is distinct and ahead of the awaited packet, so the buffer  *)
(* has room and the window is a number.                                    *)
(***************************************************************************)
SenderInv ==
  /\ senderPc \in SenderPcs
  /\ RestOfFile(sendingStack)
  /\ seqnumToSend \in SeqNums /\ lastEncodedSeqnum \in SeqNums
  /\ lastSeqnumAcked \in SeqNums
  /\ lastSeqnumAckedCounter \in 0 .. 3
  /\ receiverWindowSize \in 0 .. MAX_WINDOW_SIZE
  /\ totalPacketsToSend \in 0 .. Blocks + 1
  /\ totalPacketsSent \in Nat
  /\ totalPacketsSent <= Cardinality(SentRanks(sendingStack))
  /\ resending \in BOOLEAN
  /\ lastpacketsSentCount \in 0 .. LastTimeouts + 1
  /\ senderPc # "done" => lastpacketsSentCount <= LastTimeouts

ReceiverInv ==
  /\ receiverPc \in ReceiverPcs \ {"aborted"}
  /\ expectedSeqnum \in SeqNums
  /\ receivingStack \in Seq(Data)
  /\ Distinct(receivingStack)
  /\ Ahead(receivingStack, expectedSeqnum, IF receiverPc = "select" THEN 1 ELSE 0)
  /\ Len(receivingStack) < MAX_WINDOW_SIZE
  /\ window = MAX_WINDOW_SIZE - Len(receivingStack)
  /\ receiverPc = "down" => receivingStack = <<>>
  /\ output \in Seq(1 .. Blocks)

ToReceiverInv == toReceiver \in Seq(Data \cup {Damaged}) /\ refused \in BOOLEAN
ToSenderInv == toSender \in Seq(Replies \cup {Damaged}) /\ receiverRefused \in BOOLEAN

TypeInv ==
  /\ SenderInv
  /\ ReceiverInv
  /\ ToReceiverInv
  /\ ToSenderInv
  /\ faults \in 0 .. MaxFaults

LEMMA TypesOfInit == Init => TypeInv
<1> SUFFICES ASSUME Init PROVE TypeInv
  OBVIOUS
<1> USE DEF Init, SenderInit, ReceiverInit, NetworkInit
<1>1. RestOfFile(sendingStack) /\ Len(sendingStack) \in 0 .. Blocks + 1
  BY WholeFile, RestIs DEF RestOfFile
<1>2. SenderInv
  <2>1. 0 <= Cardinality(SentRanks(sendingStack))
    BY SentRanksFinite, SenderAssumption
  <2>2. /\ senderPc = "send" /\ seqnumToSend = 0 /\ lastEncodedSeqnum = 0
        /\ lastSeqnumAcked = 0 /\ lastSeqnumAckedCounter = 0 /\ receiverWindowSize = 1
        /\ totalPacketsToSend \in 0 .. Blocks + 1 /\ totalPacketsSent = 0
        /\ resending = FALSE /\ lastpacketsSentCount = 0
    BY <1>1
  <2>3. 0 \in SeqNums /\ 1 \in 0 .. MAX_WINDOW_SIZE /\ 0 \in 0 .. LastTimeouts + 1
        /\ 0 <= LastTimeouts
    BY SeqNumAssumption, SenderAssumption DEF SeqNums
  <2>4. resending \in BOOLEAN
    BY <2>2
  <2>5. 0 \in Nat /\ 0 \in 0 .. 3
    OBVIOUS
  <2> QED BY ONLY <1>1, <2>1, <2>2, <2>3, <2>4, <2>5 DEF SenderInv, SenderPcs
<1>3. ReceiverInv
  <2>1. <<>> \in Seq(Data) /\ <<>> \in Seq(1 .. Blocks) /\ Len(<<>>) = 0
    BY EmptySeq
  <2> QED BY <2>1, SeqNumAssumption DEF ReceiverInv, ReceiverPcs, SeqNums, Distinct, Ahead
<1>4. ToReceiverInv /\ ToSenderInv
  BY EmptySeq DEF ToReceiverInv, ToSenderInv
<1> QED BY <1>2, <1>3, <1>4, NetworkAssumption DEF TypeInv

-----------------------------------------------------------------------------
\* The end of an iteration of the sender.
LEMMA EndOfIterationIs ==
  ASSUME NEW mainBreak, EndOfIteration(mainBreak),
         lastpacketsSentCount' \in 0 .. LastTimeouts + 1
  PROVE  /\ senderPc' \in {"send", "done"}
         /\ senderPc' # "done" => lastpacketsSentCount' <= LastTimeouts
  BY SenderAssumption DEF EndOfIteration

\* The packet that MaySend asks for is one of the stack.
LEMMA ToSendIs ==
  ASSUME SenderInv, MaySend
  PROVE  /\ FirstPosition(sendingStack, seqnumToSend) \in 1 .. Len(sendingStack)
         /\ sendingStack[FirstPosition(sendingStack, seqnumToSend)].seqnum = seqnumToSend
  BY RestIs, FirstPositionIs DEF SenderInv, MaySend

\* A segment of a packet of the stack is one of the file.
LEMMA SegmentType ==
  ASSUME NEW node \in Nodes
  PROVE  Segment(node) \in Data
  BY DEF Segment, Nodes, Data

\* What a transmission does to the stack, to its count and to the link.
LEMMA TransmitTypes ==
  ASSUME SenderInv, ToReceiverInv, MaySend, Transmit
  PROVE  /\ RestOfFile(sendingStack')
         /\ totalPacketsSent' \in Nat
         /\ totalPacketsSent' <= Cardinality(SentRanks(sendingStack'))
         /\ ToReceiverInv'
         /\ UNCHANGED <<toSender, receiverRefused, faults>>
<1> DEFINE p == FirstPosition(sendingStack, seqnumToSend)
           was == SentRanks(sendingStack)
           r == Gone(sendingStack) + p
<1>1. p \in 1 .. Len(sendingStack)
  BY ToSendIs
<1>2. /\ sendingStack' = [sendingStack EXCEPT ![p].sent = TRUE]
      /\ totalPacketsSent' = totalPacketsSent + (IF sendingStack[p].sent THEN 0 ELSE 1)
      /\ Write(Segment(sendingStack[p]))
  BY DEF Transmit
<1>3. /\ RestOfFile(sendingStack) /\ totalPacketsSent \in Nat
      /\ totalPacketsSent <= Cardinality(was)
      /\ sendingStack[p] \in Nodes
  BY <1>1, RestIs DEF SenderInv
<1>4. /\ RestOfFile(sendingStack')
      /\ SentRanks(sendingStack') = was \cup {r}
      /\ r \in was <=> sendingStack[p].sent
  BY <1>1, <1>2, <1>3, RestMarked
<1>5. ToReceiverInv' /\ UNCHANGED <<toSender, receiverRefused, faults>>
  <2>1. <<Segment(sendingStack[p])>> \in Seq(Data \cup {Damaged})
    BY <1>3, SegmentType
  <2>2. Put(toReceiver, <<Segment(sendingStack[p])>>) \in Seq(Data \cup {Damaged})
    BY <2>1, PutType DEF ToReceiverInv
  <2> QED BY <1>2, <2>2 DEF Write, ToReceiverInv
<1> HIDE DEF p, was, r
<1>6. /\ IsFiniteSet(was) /\ Cardinality(was) \in Nat
      /\ Cardinality(was \cup {r}) = IF r \in was THEN Cardinality(was) ELSE Cardinality(was) + 1
  BY SentRanksFinite, FS_AddElement, FS_CardinalityType DEF was
<1>7. /\ totalPacketsSent' \in Nat
      /\ totalPacketsSent' <= Cardinality(SentRanks(sendingStack'))
  <2>1. CASE sendingStack[p].sent
    <3>1. totalPacketsSent' = totalPacketsSent + 0 /\ r \in was
      BY <2>1, <1>2, <1>4
    <3> QED BY <3>1, <1>3, <1>4, <1>6
  <2>2. CASE ~sendingStack[p].sent
    <3>1. totalPacketsSent' = totalPacketsSent + 1 /\ r \notin was
      BY <2>2, <1>2, <1>4
    <3> QED BY <3>1, <1>3, <1>4, <1>6
  <2> QED BY <2>1, <2>2
<1> QED BY <1>4, <1>5, <1>7

\* Removing acknowledged packets keeps the count within its bound.
LEMMA RemovalTypes ==
  ASSUME SenderInv, NEW s
  PROVE  /\ RestOfFile(stack_remove_acked(sendingStack, s))
         /\ totalPacketsSent <=
              Cardinality(SentRanks(stack_remove_acked(sendingStack, s)))
<1> DEFINE new == SentRanks(stack_remove_acked(sendingStack, s))
           old == SentRanks(sendingStack)
<1>1. /\ RestOfFile(stack_remove_acked(sendingStack, s))
      /\ old \subseteq new
  BY RestShrinks DEF SenderInv
<1>2. IsFiniteSet(new) /\ IsFiniteSet(old)
  BY SentRanksFinite
<1>3. Cardinality(old) \in Nat /\ Cardinality(new) \in Nat /\ totalPacketsSent <= Cardinality(old)
  BY <1>2, FS_CardinalityType DEF SenderInv
<1>4. totalPacketsSent \in Nat
  BY DEF SenderInv
<1> HIDE DEF new, old
<1>5. Cardinality(old) <= Cardinality(new)
  BY <1>1, <1>2, FS_Subset
<1>6. totalPacketsSent <= Cardinality(new)
  BY <1>3, <1>4, <1>5
<1> QED BY <1>1, <1>6 DEF new

\* A reply that is read, and what stays on its way.
LEMMA RespondsIs ==
  ASSUME ToSenderInv, NEW i \in 1 .. Len(toSender), Responds(i)
  PROVE  /\ senderPc = "wait" /\ ~refused
         /\ toSender[i] \in Replies \cup {Damaged}
         /\ toSender' \in Seq(Replies \cup {Damaged})
         /\ toSender[i].code = "PKT_OK" => toSender[i] \in Replies
         /\ UNCHANGED <<toReceiver, refused, receiverRefused, faults>>
<1>1. /\ toSender[i] \in Replies \cup {Damaged}
      /\ RemoveAt(toSender, i) \in Seq(Replies \cup {Damaged})
  BY ElementOfSeq, RemoveAtIs DEF ToSenderInv
<1> QED BY <1>1 DEF Responds, Take, Damaged

LEMMA CountAckTypes ==
  ASSUME SenderInv, NEW s \in SeqNums, CountAck(s)
  PROVE  /\ seqnumToSend' \in SeqNums /\ lastSeqnumAcked' \in SeqNums
         /\ lastSeqnumAckedCounter' \in 0 .. 3 /\ resending' \in BOOLEAN
<1>1. CASE s = lastSeqnumAcked
  <2>1. lastSeqnumAckedCounter' =
          IF lastSeqnumAckedCounter < 3 THEN lastSeqnumAckedCounter + 1 ELSE 3
    BY <1>1 DEF CountAck
  <2>2. /\ \/ seqnumToSend' = lastSeqnumAcked /\ resending' = TRUE
           \/ UNCHANGED <<seqnumToSend, resending>>
        /\ UNCHANGED lastSeqnumAcked
    BY <1>1 DEF CountAck
  <2>3. resending' \in BOOLEAN
    BY <2>2 DEF SenderInv
  <2>4. lastSeqnumAckedCounter' \in 0 .. 3
    BY <2>1 DEF SenderInv
  <2>5. seqnumToSend' \in SeqNums /\ lastSeqnumAcked' \in SeqNums
    BY <2>2 DEF SenderInv
  <2> QED BY <2>3, <2>4, <2>5
<1>2. CASE s # lastSeqnumAcked
  BY <1>2 DEF CountAck, SenderInv
<1> QED BY <1>1, <1>2

LEMMA TypesOfResponse ==
  ASSUME TypeInv, NEW i \in 1 .. Len(toSender), process_response(i)
  PROVE  SenderInv' /\ ToReceiverInv' /\ ToSenderInv' /\ faults' = faults
<1>0. /\ senderPc = "wait"
      /\ toSender[i].code = "PKT_OK" => toSender[i] \in Replies
      /\ ToReceiverInv' /\ ToSenderInv' /\ faults' = faults
  BY RespondsIs
  DEF process_response, ReceiveAck, ReceiveNack, ReceiveGarbage, TypeInv,
      ToReceiverInv, ToSenderInv
<1> USE DEF TypeInv
<1>1. CASE ReceiveAck(i)
  <2> DEFINE ack == toSender[i]
  <2>1. /\ ack.seqnum \in SeqNums /\ ack.window \in 0 .. MAX_WINDOW_SIZE
        /\ receiverWindowSize' = ack.window /\ CountAck(ack.seqnum)
        /\ \/ sendingStack' = stack_remove_acked(sendingStack, ack.seqnum)
           \/ sendingStack' = sendingStack
        /\ UNCHANGED <<lastEncodedSeqnum, totalPacketsToSend, totalPacketsSent,
                       lastpacketsSentCount>>
        /\ EndOfIteration(ack.seqnum = LastAck /\ Len(sendingStack') = 1)
    BY <1>0, <1>1 DEF ReceiveAck, Replies
  <2> HIDE DEF ack
  <2>2. /\ seqnumToSend' \in SeqNums /\ lastSeqnumAcked' \in SeqNums
        /\ lastSeqnumAckedCounter' \in 0 .. 3 /\ resending' \in BOOLEAN
    BY <2>1, CountAckTypes
  <2>3. /\ RestOfFile(sendingStack')
        /\ totalPacketsSent <= Cardinality(SentRanks(sendingStack'))
    BY <2>1, RemovalTypes DEF SenderInv
  <2>4. /\ lastpacketsSentCount' \in 0 .. LastTimeouts + 1 /\ senderPc' \in {"send", "done"}
        /\ senderPc' # "done" => lastpacketsSentCount' <= LastTimeouts
    BY <2>1, EndOfIterationIs DEF SenderInv
  <2>5. SenderInv'
    BY <2>1, <2>2, <2>3, <2>4 DEF SenderInv, SenderPcs
  <2> QED BY <1>0, <2>5
<1>2. CASE ReceiveNack(i)
  <2>1. /\ toSender[i].seqnum \in SeqNums /\ toSender[i].window \in 0 .. MAX_WINDOW_SIZE
        /\ receiverWindowSize' = toSender[i].window /\ seqnumToSend' = toSender[i].seqnum
        /\ resending' = TRUE
        /\ UNCHANGED <<sendingStack, lastEncodedSeqnum, lastSeqnumAcked,
                       lastSeqnumAckedCounter, totalPacketsToSend,
                       totalPacketsSent, lastpacketsSentCount>>
        /\ EndOfIteration(toSender[i].seqnum = LastAck /\ Len(sendingStack) = 1)
    BY <1>0, <1>2 DEF ReceiveNack, Replies
  <2>2. /\ lastpacketsSentCount' \in 0 .. LastTimeouts + 1 /\ senderPc' \in {"send", "done"}
        /\ senderPc' # "done" => lastpacketsSentCount' <= LastTimeouts
    BY <2>1, EndOfIterationIs DEF SenderInv
  <2>3. SenderInv'
    BY <2>1, <2>2 DEF SenderInv, SenderPcs
  <2> QED BY <1>0, <2>3
<1>3. CASE ReceiveGarbage(i)
  <2>1. /\ UNCHANGED <<sendingStack, seqnumToSend, lastEncodedSeqnum, lastSeqnumAcked,
                       lastSeqnumAckedCounter, receiverWindowSize, totalPacketsToSend,
                       totalPacketsSent, resending, lastpacketsSentCount>>
        /\ EndOfIteration(FALSE)
    BY <1>3 DEF ReceiveGarbage
  <2>2. /\ lastpacketsSentCount' \in 0 .. LastTimeouts + 1 /\ senderPc' \in {"send", "done"}
        /\ senderPc' # "done" => lastpacketsSentCount' <= LastTimeouts
    BY <2>1, EndOfIterationIs DEF SenderInv
  <2>3. SenderInv'
    BY <2>1, <2>2 DEF SenderInv, SenderPcs
  <2> QED BY <1>0, <2>3
<1> QED BY <1>1, <1>2, <1>3 DEF process_response

\* The steps of the sender that read no response.
LEMMA TypesOfSender ==
  ASSUME TypeInv,
         \/ SkipSend \/ SendNext \/ SendAgain \/ ReceiverGone \/ TryAgain \/ Idle
         \/ \E k \in Timed : Expire(k)
  PROVE  SenderInv' /\ ToReceiverInv' /\ ToSenderInv' /\ faults' = faults
<1> USE DEF TypeInv
<1>1. CASE SkipSend
  BY <1>1 DEF SkipSend, SenderInv, SenderPcs, networkVars, ToReceiverInv, ToSenderInv
<1>2. CASE SendNext
  <2>1. MaySend /\ Transmit /\ resending = FALSE
    BY <1>2 DEF SendNext, SenderInv
  <2>2. /\ RestOfFile(sendingStack') /\ totalPacketsSent' \in Nat
        /\ totalPacketsSent' <= Cardinality(SentRanks(sendingStack'))
        /\ ToReceiverInv' /\ UNCHANGED <<toSender, receiverRefused, faults>>
    BY <2>1, TransmitTypes
  <2>3. receiverWindowSize > 0
    BY <2>1 DEF MaySend
  <2>4. /\ lastEncodedSeqnum' = seqnumToSend /\ seqnumToSend' = Incr(seqnumToSend)
        /\ receiverWindowSize' = receiverWindowSize - 1 /\ senderPc' = "wait"
        /\ senderPc = "send"
        /\ UNCHANGED <<lastSeqnumAcked, lastSeqnumAckedCounter, totalPacketsToSend,
                       resending, lastpacketsSentCount>>
    BY <1>2 DEF SendNext
  <2>5. receiverWindowSize' \in 0 .. MAX_WINDOW_SIZE /\ seqnumToSend' \in SeqNums
    BY <2>3, <2>4, IncrType, SeqNumAssumption DEF SenderInv
  <2>6. SenderInv'
    BY <2>2, <2>4, <2>5 DEF SenderInv, SenderPcs
  <2> QED BY <2>2, <2>6 DEF ToSenderInv
<1>3. CASE SendAgain
  <2>1. MaySend /\ Transmit
    BY <1>3 DEF SendAgain
  <2>2. /\ RestOfFile(sendingStack') /\ totalPacketsSent' \in Nat
        /\ totalPacketsSent' <= Cardinality(SentRanks(sendingStack'))
        /\ ToReceiverInv' /\ UNCHANGED <<toSender, receiverRefused, faults>>
    BY <2>1, TransmitTypes
  <2>3. /\ seqnumToSend' = Incr(lastEncodedSeqnum) /\ resending' = FALSE
        /\ senderPc' = "wait" /\ senderPc = "send"
        /\ UNCHANGED <<lastEncodedSeqnum, lastSeqnumAcked, lastSeqnumAckedCounter,
                       receiverWindowSize, totalPacketsToSend, lastpacketsSentCount>>
    BY <1>3 DEF SendAgain
  <2>4. seqnumToSend' \in SeqNums
    BY <2>3, IncrType DEF SenderInv
  <2>5. SenderInv'
    BY <2>2, <2>3, <2>4 DEF SenderInv, SenderPcs
  <2> QED BY <2>2, <2>5 DEF ToSenderInv
<1>4. CASE ReceiverGone
  <2>1. /\ UNCHANGED <<sendingStack, seqnumToSend, lastEncodedSeqnum, lastSeqnumAcked,
                       lastSeqnumAckedCounter, receiverWindowSize, totalPacketsToSend,
                       totalPacketsSent, resending, lastpacketsSentCount>>
        /\ EndOfIteration(TRUE)
        /\ refused' = FALSE /\ UNCHANGED <<toReceiver, toSender, receiverRefused, faults>>
    BY <1>4 DEF ReceiverGone, ReadFails
  <2>2. /\ lastpacketsSentCount' \in 0 .. LastTimeouts + 1 /\ senderPc' \in {"send", "done"}
        /\ senderPc' # "done" => lastpacketsSentCount' <= LastTimeouts
    BY <2>1, EndOfIterationIs DEF SenderInv
  <2>3. SenderInv'
    BY <2>1, <2>2 DEF SenderInv, SenderPcs
  <2> QED BY <2>1, <2>3 DEF ToReceiverInv, ToSenderInv
<1>5. CASE TryAgain
  <2>1. /\ senderPc = "wait" /\ senderPc' = "send" /\ seqnumToSend' = 0
        /\ lastEncodedSeqnum' = 0 /\ lastSeqnumAcked' = 0 /\ lastSeqnumAckedCounter' = 0
        /\ receiverWindowSize' = 1 /\ totalPacketsToSend' = Len(sendingStack)
        /\ totalPacketsSent' = 0
        /\ UNCHANGED <<sendingStack, resending, lastpacketsSentCount>>
        /\ refused' = FALSE /\ UNCHANGED <<toReceiver, toSender, receiverRefused, faults>>
    BY <1>5 DEF TryAgain, ReadFails
  <2>2. /\ Len(sendingStack) \in 0 .. Blocks + 1
        /\ 0 <= Cardinality(SentRanks(sendingStack))
        /\ 0 \in SeqNums /\ 1 \in 0 .. MAX_WINDOW_SIZE
    BY RestIs, SentRanksFinite, SenderAssumption, SeqNumAssumption
    DEF SenderInv, RestOfFile, SeqNums
  <2>3. SenderInv'
    BY <2>1, <2>2 DEF SenderInv, SenderPcs
  <2> QED BY <2>1, <2>3 DEF ToReceiverInv, ToSenderInv
<1>6. CASE Idle
  <2>1. /\ UNCHANGED <<sendingStack, seqnumToSend, lastEncodedSeqnum, lastSeqnumAcked,
                       lastSeqnumAckedCounter, receiverWindowSize, totalPacketsToSend,
                       totalPacketsSent, resending, lastpacketsSentCount, networkVars>>
        /\ EndOfIteration(FALSE)
    BY <1>6 DEF Idle
  <2>2. /\ lastpacketsSentCount' \in 0 .. LastTimeouts + 1 /\ senderPc' \in {"send", "done"}
        /\ senderPc' # "done" => lastpacketsSentCount' <= LastTimeouts
    BY <2>1, EndOfIterationIs DEF SenderInv
  <2>3. SenderInv'
    BY <2>1, <2>2 DEF SenderInv, SenderPcs
  <2> QED BY <2>1, <2>3 DEF ToReceiverInv, ToSenderInv, networkVars
<1>7. ASSUME NEW k \in Timed, Expire(k)
      PROVE  SenderInv' /\ ToReceiverInv' /\ ToSenderInv' /\ faults' = faults
  <2>1. /\ senderPc = "wait" /\ k \in 1 .. Len(sendingStack)
        /\ seqnumToSend' = sendingStack[k].seqnum /\ resending' = TRUE
        /\ lastpacketsSentCount' =
             lastpacketsSentCount + (IF Len(sendingStack) = 1 THEN 1 ELSE 0)
        /\ UNCHANGED <<sendingStack, lastEncodedSeqnum, lastSeqnumAcked,
                       lastSeqnumAckedCounter, receiverWindowSize, totalPacketsToSend,
                       totalPacketsSent, networkVars>>
        /\ EndOfIteration(FALSE)
    BY <1>7 DEF Expire, Timed
  <2>2. seqnumToSend' \in SeqNums
    BY <2>1, RestIs DEF SenderInv, Nodes
  <2>3. lastpacketsSentCount' \in 0 .. LastTimeouts + 1
    BY <2>1, SenderAssumption DEF SenderInv
  <2>4. /\ senderPc' \in {"send", "done"}
        /\ senderPc' # "done" => lastpacketsSentCount' <= LastTimeouts
    BY <2>1, <2>3, EndOfIterationIs
  <2>5. SenderInv'
    BY <2>1, <2>2, <2>3, <2>4 DEF SenderInv, SenderPcs
  <2> QED BY <2>1, <2>5 DEF ToReceiverInv, ToSenderInv, networkVars
<1> QED BY <1>1, <1>2, <1>3, <1>4, <1>5, <1>6, <1>7

-----------------------------------------------------------------------------
\* A reply of the receiver is one of those the sender understands.
LEMMA ReplyType ==
  ASSUME NEW type \in {"ACK", "NACK"}, NEW s \in SeqNums, NEW w \in 0 .. MAX_WINDOW_SIZE
  PROVE  Reply(type, s, w) \in Replies
  BY DEF Reply, Replies

LEMMA SendRepliesTypes ==
  ASSUME ToSenderInv, NEW replies \in Seq(Replies), SendReplies(replies)
  PROVE  ToSenderInv'
<1>1. replies \in Seq(Replies \cup {Damaged}) /\ toSender \in Seq(Replies \cup {Damaged})
  BY SeqMonotonic DEF ToSenderInv
<1>2. replies # <<>> => Tail(replies) \in Seq(Replies \cup {Damaged})
  BY <1>1, HeadTailProperties
<1>3. CASE receiverRefused /\ replies # <<>>
  BY <1>1, <1>2, <1>3, PutType DEF SendReplies, ToSenderInv
<1>4. CASE ~(receiverRefused /\ replies # <<>>)
  BY <1>1, <1>4, PutType DEF SendReplies, ToSenderInv
<1> QED BY <1>3, <1>4

\* What the lemmas about the buffer ask for.
LEMMA ReceivingIs ==
  ASSUME ReceiverInv
  PROVE  /\ receivingStack \in Seq(Data) /\ Len(receivingStack) \in Nat
         /\ expectedSeqnum \in SeqNums /\ Incr(expectedSeqnum) \in SeqNums
         /\ \A pkt \in Data : pkt.seqnum \in SeqNums
         /\ window \in 0 .. MAX_WINDOW_SIZE
<1>1. Len(receivingStack) \in Nat
  BY LenProperties DEF ReceiverInv
<1>2. expectedSeqnum \in SeqNums /\ Incr(expectedSeqnum) \in SeqNums
  BY IncrType DEF ReceiverInv
<1>3. window \in 0 .. MAX_WINDOW_SIZE
  BY <1>1, SeqNumAssumption DEF ReceiverInv
<1> QED BY <1>1, <1>2, <1>3 DEF ReceiverInv, Data

LEMMA WriteOutTypes ==
  ASSUME ReceiverInv, NEW pkt \in Data, WriteOut(pkt)
  PROVE  output' \in Seq(1 .. Blocks)
<1>1. pkt.payload # NoPayload => pkt.payload \in 1 .. Blocks
  BY SenderAssumption DEF Data, NoPayload
<1>2. pkt.payload # NoPayload => Append(output, pkt.payload) \in Seq(1 .. Blocks)
  BY <1>1, AppendProperties DEF ReceiverInv
<1> QED BY <1>2 DEF WriteOut, Written, ReceiverInv

\* The datagram that is read, and what stays on its way.
LEMMA ReadsTypes ==
  ASSUME ToReceiverInv, NEW i \in 1 .. Len(toReceiver), Reads(i)
  PROVE  /\ receiverPc = "select"
         /\ toReceiver[i] \in Data \cup {Damaged}
         /\ toReceiver[i].code = "PKT_OK" => toReceiver[i] \in Data
         /\ ToReceiverInv' /\ faults' = faults
<1>1. /\ toReceiver[i] \in Data \cup {Damaged}
      /\ RemoveAt(toReceiver, i) \in Seq(Data \cup {Damaged})
  BY ElementOfSeq, RemoveAtIs DEF ToReceiverInv
<1> QED BY <1>1 DEF Reads, Take, Damaged, ToReceiverInv

\* The awaited packet comes: everything buffered is one step nearer.
LEMMA AdvanceTypes ==
  ASSUME ReceiverInv, receiverPc = "select", receiverPc' \in {"drain", "closed"},
         expectedSeqnum' = Incr(expectedSeqnum), output' \in Seq(1 .. Blocks),
         UNCHANGED <<window, receivingStack>>
  PROVE  ReceiverInv'
<1>1. Ahead(receivingStack, expectedSeqnum', 0)
  BY ReceivingIs, AdvanceAhead DEF ReceiverInv
<1> QED BY <1>1, ReceivingIs DEF ReceiverInv, ReceiverPcs

\* A packet goes into the buffer.
LEMMA AheadTypes ==
  ASSUME ReceiverInv, ToSenderInv, NEW pkt \in Data, receiverPc = "select",
         AcceptAhead(pkt, <<>>)
  PROVE  ReceiverInv' /\ ToSenderInv'
<1> DEFINE new == receivingStack'
           e == expectedSeqnum
<1>1. /\ pkt.seqnum # e /\ InWindow(e, pkt.seqnum)
      /\ ~is_in_stack(receivingStack, pkt.seqnum)
      /\ new = stack_enqueue(receivingStack, pkt)
      /\ window' = MAX_WINDOW_SIZE - Len(new)
      /\ SendReplies(<<>> \o <<Reply("ACK", e, window')>>)
      /\ UNCHANGED <<receiverPc, expectedSeqnum, output>>
  BY DEF AcceptAhead
<1>2. /\ new \in Seq(Data) /\ Distinct(new) /\ Ahead(new, e, 1)
      /\ Len(new) < MAX_WINDOW_SIZE /\ e \in SeqNums
  BY <1>1, ReceivingIs, EnqueueAhead DEF ReceiverInv
<1>3. Len(new) \in Nat
  BY <1>2, LenProperties
<1> HIDE DEF new
<1>4. window' \in 0 .. MAX_WINDOW_SIZE
  BY <1>1, <1>2, <1>3, SeqNumAssumption
<1>5. ToSenderInv'
  <2>1. <<>> \o <<Reply("ACK", e, window')>> \in Seq(Replies)
    BY <1>2, <1>4, ReplyType, ConcatProperties
  <2> QED BY <1>1, <2>1, SendRepliesTypes
<1>6. ReceiverInv'
  BY <1>1, <1>2 DEF ReceiverInv, new
<1> QED BY <1>5, <1>6

LEMMA AcceptTypes ==
  ASSUME ReceiverInv, ToSenderInv, NEW pkt \in Data, receiverPc = "select",
         Accept(pkt, <<>>)
  PROVE  ReceiverInv' /\ ToSenderInv'
<1>0. <<>> \in Seq(Replies)
  BY EmptySeq
<1>1. CASE AcceptExpected(pkt, <<>>)
  <2>1. /\ WriteOut(pkt) /\ receiverPc' = "drain" /\ expectedSeqnum' = Incr(expectedSeqnum)
        /\ SendReplies(<<>>) /\ UNCHANGED <<window, receivingStack>>
    BY <1>1 DEF AcceptExpected
  <2> QED BY <1>0, <2>1, WriteOutTypes, AdvanceTypes, SendRepliesTypes
<1>2. CASE AcceptAhead(pkt, <<>>)
  BY <1>2, AheadTypes
<1>3. CASE AcceptAgain(pkt, <<>>)
  <2>1. SendReplies(<<>>) /\ UNCHANGED receiverVars
    BY <1>3 DEF AcceptAgain
  <2> QED BY <1>0, <2>1, SendRepliesTypes DEF ReceiverInv, receiverVars
<1>4. CASE AcceptOutside(pkt, <<>>)
  <2>1. /\ SendReplies(<<>> \o <<Reply("ACK", expectedSeqnum, window)>>)
        /\ UNCHANGED receiverVars
    BY <1>4 DEF AcceptOutside
  <2>2. <<>> \o <<Reply("ACK", expectedSeqnum, window)>> \in Seq(Replies)
    BY ReceivingIs, ReplyType, ConcatProperties
  <2> QED BY <2>1, <2>2, SendRepliesTypes DEF ReceiverInv, receiverVars
<1> QED BY <1>1, <1>2, <1>3, <1>4 DEF Accept

\* The receiver reads a datagram: the sender marks none of them truncated.
LEMMA TypesOfReceive ==
  ASSUME TypeInv, NEW i \in 1 .. Len(toReceiver),
         \/ ReceiveLast(i) \/ ReceiveData(i)
         \/ ReceiveTruncated(i) \/ ReceiveDamaged(i)
  PROVE  ReceiverInv' /\ ToReceiverInv' /\ ToSenderInv' /\ faults' = faults
<1> USE DEF TypeInv
<1>0. /\ receiverPc = "select"
      /\ toReceiver[i].code = "PKT_OK" => toReceiver[i] \in Data
      /\ ToReceiverInv' /\ faults' = faults
  BY ReadsTypes DEF ReceiveLast, ReceiveData, ReceiveTruncated, ReceiveDamaged
<1>1. CASE ReceiveLast(i)
  <2> DEFINE acks == [n \in 1 .. LastAcks |-> Reply("ACK", expectedSeqnum', window)]
  <2>1. /\ expectedSeqnum' = Incr(expectedSeqnum) /\ receiverPc' = "closed"
        /\ SendReplies(acks) /\ UNCHANGED <<window, receivingStack, output>>
    BY <1>1 DEF ReceiveLast
  <2>2. Reply("ACK", expectedSeqnum', window) \in Replies
    BY <2>1, ReceivingIs, ReplyType
  <2>3. acks \in Seq(Replies)
    BY <2>2 DEF LastAcks
  <2>4. output' \in Seq(1 .. Blocks)
    BY <2>1 DEF ReceiverInv
  <2> QED BY <1>0, <2>1, <2>3, <2>4, AdvanceTypes, SendRepliesTypes
<1>2. CASE ReceiveData(i)
  <2>1. toReceiver[i] \in Data /\ Accept(toReceiver[i], <<>>)
    BY <1>0, <1>2 DEF ReceiveData
  <2> QED BY <1>0, <2>1, AcceptTypes
<1>3. CASE ReceiveTruncated(i)
  <2>1. toReceiver[i] \in Data /\ toReceiver[i].tr = 1
    BY <1>0, <1>3 DEF ReceiveTruncated
  <2>2. \A pkt \in Data : pkt.tr = 0
    BY DEF Data
  <2> QED BY <2>1, <2>2
<1>4. CASE ReceiveDamaged(i)
  <2>1. /\ SendReplies(<<Reply("NACK", expectedSeqnum, window)>>)
        /\ UNCHANGED receiverVars
    BY <1>4 DEF ReceiveDamaged
  <2>2. <<Reply("NACK", expectedSeqnum, window)>> \in Seq(Replies)
    BY ReceivingIs, ReplyType
  <2> QED BY <1>0, <2>1, <2>2, SendRepliesTypes DEF ReceiverInv, receiverVars
<1> QED BY <1>1, <1>2, <1>3, <1>4

LEMMA TypesOfReceiver ==
  ASSUME TypeInv, ReceiverStep
  PROVE  ReceiverInv' /\ ToReceiverInv' /\ ToSenderInv' /\ faults' = faults
<1> USE DEF TypeInv
<1>1. CASE Launch
  <2>1. /\ receivingStack = <<>> /\ receiverPc' = "select"
        /\ UNCHANGED <<expectedSeqnum, window, receivingStack, output, networkVars>>
    BY <1>1 DEF Launch, ReceiverInv
  <2>2. Ahead(receivingStack, expectedSeqnum, 1)
    BY <2>1 DEF Ahead
  <2>3. ReceiverInv'
    BY <2>1, <2>2 DEF ReceiverInv, ReceiverPcs
  <2> QED BY <2>1, <2>3 DEF ToReceiverInv, ToSenderInv, networkVars
<1>2. CASE \E i \in 1 .. Len(toReceiver) :
             \/ ReceiveLast(i) \/ ReceiveData(i)
             \/ ReceiveTruncated(i) \/ ReceiveDamaged(i)
  BY <1>2, TypesOfReceive
<1>3. CASE ReceiveFails
  <2>1. /\ toSender' = Put(toSender, <<Reply("NACK", expectedSeqnum, window)>>)
        /\ receiverRefused' = FALSE
        /\ UNCHANGED <<receiverVars, toReceiver, refused, faults>>
    BY <1>3 DEF ReceiveFails
  <2>2. <<Reply("NACK", expectedSeqnum, window)>> \in Seq(Replies \cup {Damaged})
    BY ReceivingIs, ReplyType
  <2>3. ToSenderInv'
    BY <2>1, <2>2, PutType DEF ToSenderInv
  <2> QED BY <2>1, <2>3 DEF ReceiverInv, receiverVars, ToReceiverInv
<1>4. CASE Drain
  <2> DEFINE new == receivingStack'
             e == expectedSeqnum
  <2>1. /\ receiverPc = "drain" /\ is_in_stack(receivingStack, e)
        /\ new = stack_remove(receivingStack, e)
        /\ expectedSeqnum' = Incr(e) /\ window' = MAX_WINDOW_SIZE - Len(new)
        /\ WriteOut(stack_get_pkt(receivingStack, e))
        /\ UNCHANGED <<receiverPc, toReceiver, toSender, refused, receiverRefused, faults>>
    BY <1>4 DEF Drain, networkVars
  <2>2. /\ new \in Seq(Data) /\ Distinct(new) /\ Ahead(new, Incr(e), 0)
        /\ Len(new) = Len(receivingStack) - 1
    BY <2>1, ReceivingIs, RemoveAhead DEF ReceiverInv
  <2>3. stack_get_pkt(receivingStack, e) \in Data
    <3>1. \E p \in 1 .. Len(receivingStack) :
            stack_get_pkt(receivingStack, e) = receivingStack[p]
      BY <2>1, ReceivingIs, RemoveIs
    <3> QED BY <3>1, ReceivingIs, ElementOfSeq
  <2>4. output' \in Seq(1 .. Blocks)
    BY <2>1, <2>3, WriteOutTypes
  <2>5. Len(new) < MAX_WINDOW_SIZE
    BY <2>2, ReceivingIs, SeqNumAssumption DEF ReceiverInv
  <2> HIDE DEF new
  <2>6. ReceiverInv'
    BY <2>1, <2>2, <2>4, <2>5, ReceivingIs DEF ReceiverInv, new
  <2> QED BY <2>1, <2>6 DEF ToReceiverInv, ToSenderInv
<1>5. CASE Drained
  <2>1. /\ receiverPc' = "select" /\ receiverPc = "drain"
        /\ ~is_in_stack(receivingStack, expectedSeqnum)
        /\ SendReplies(<<Reply("ACK", expectedSeqnum, window)>>)
        /\ UNCHANGED <<expectedSeqnum, window, receivingStack, output,
                       toReceiver, refused, faults>>
    BY <1>5 DEF Drained
  <2>2. <<Reply("ACK", expectedSeqnum, window)>> \in Seq(Replies)
    BY ReceivingIs, ReplyType
  <2>3. Ahead(receivingStack, expectedSeqnum, 1)
    BY <2>1, ReceivingIs, AbsentAhead DEF ReceiverInv
  <2>4. ReceiverInv'
    BY <2>1, <2>3 DEF ReceiverInv, ReceiverPcs
  <2> QED BY <2>1, <2>2, <2>4, SendRepliesTypes DEF ToReceiverInv
<1> QED BY <1>1, <1>2, <1>3, <1>4, <1>5 DEF ReceiverStep

-----------------------------------------------------------------------------
LEMMA TypesOfNetwork ==
  ASSUME TypeInv, NetworkFault
  PROVE  ToReceiverInv' /\ ToSenderInv' /\ faults' \in 0 .. MaxFaults
<1> USE DEF TypeInv, ToReceiverInv, ToSenderInv
<1>1. faults > 0 /\ faults' = faults - 1 /\ receiverRefused' = receiverRefused
  BY DEF NetworkFault
<1>2. faults' \in 0 .. MaxFaults
  BY <1>1, NetworkAssumption
<1>3. CASE Faulty(toReceiver, toReceiver') /\ UNCHANGED <<toSender, refused>>
  <2>1. Damaged \in Data \cup {Damaged}
    OBVIOUS
  <2>2. toReceiver' \in Seq(Data \cup {Damaged})
    BY <1>3, <2>1, FaultyIs
  <2> QED BY <1>1, <1>2, <1>3, <2>2
<1>4. CASE Faulty(toSender, toSender') /\ UNCHANGED <<toReceiver, refused>>
  <2>1. Damaged \in Replies \cup {Damaged}
    OBVIOUS
  <2>2. toSender' \in Seq(Replies \cup {Damaged})
    BY <1>4, <2>1, FaultyIs
  <2> QED BY <1>1, <1>2, <1>4, <2>2
<1>5. CASE refused' = FALSE /\ UNCHANGED <<toReceiver, toSender>>
  BY <1>1, <1>2, <1>5
<1> QED BY <1>3, <1>4, <1>5 DEF NetworkFault

\* A datagram for a port nobody listens on disappears, and the host answers.
LEMMA TypesOfRefusal ==
  ASSUME TypeInv, Refuse \/ RefuseReply
  PROVE  /\ ToReceiverInv' /\ ToSenderInv'
         /\ UNCHANGED <<senderVars, receiverVars, faults>>
<1> USE DEF TypeInv, ToReceiverInv, ToSenderInv
<1>1. CASE Refuse
  <2>1. /\ toReceiver # <<>> /\ toReceiver' = Tail(toReceiver)
        /\ refused' = (senderPc # "done")
        /\ UNCHANGED <<senderVars, receiverVars, toSender, receiverRefused, faults>>
    BY <1>1 DEF Refuse
  <2>2. toReceiver' \in Seq(Data \cup {Damaged})
    BY <2>1, HeadTailProperties
  <2> QED BY <2>1, <2>2
<1>2. CASE RefuseReply
  <2>1. /\ toSender # <<>> /\ toSender' = Tail(toSender) /\ receiverRefused' = TRUE
        /\ UNCHANGED <<senderVars, receiverVars, toReceiver, refused, faults>>
    BY <1>2 DEF RefuseReply
  <2>2. toSender' \in Seq(Replies \cup {Damaged})
    BY <2>1, HeadTailProperties
  <2> QED BY <2>1, <2>2
<1> QED BY <1>1, <1>2

LEMMA SenderSame == SenderInv /\ UNCHANGED senderVars => SenderInv'
  BY DEF SenderInv, senderVars

LEMMA ReceiverSame == ReceiverInv /\ UNCHANGED receiverVars => ReceiverInv'
  BY DEF ReceiverInv, receiverVars

LEMMA TypesInductive == TypeInv /\ [Next]_vars => TypeInv'
<1> SUFFICES ASSUME TypeInv, [Next]_vars PROVE TypeInv'
  OBVIOUS
<1> USE DEF TypeInv
<1>1. CASE SenderMoves
  <2>1. SenderInv' /\ ToReceiverInv' /\ ToSenderInv' /\ faults' = faults
    BY <1>1, TypesOfSender, TypesOfResponse DEF SenderMoves, SenderStep
  <2> QED BY <1>1, <2>1, ReceiverSame DEF SenderMoves
<1>2. CASE \E k \in Timed : TimerExpires(k)
  <2>1. SenderInv' /\ ToReceiverInv' /\ ToSenderInv' /\ faults' = faults
    BY <1>2, TypesOfSender DEF TimerExpires
  <2> QED BY <1>2, <2>1, ReceiverSame DEF TimerExpires
<1>3. CASE ReceiverMoves
  <2>1. ReceiverInv' /\ ToReceiverInv' /\ ToSenderInv' /\ faults' = faults
    BY <1>3, TypesOfReceiver DEF ReceiverMoves
  <2> QED BY <1>3, <2>1, SenderSame DEF ReceiverMoves
<1>4. CASE Refuse \/ RefuseReply
  BY <1>4, TypesOfRefusal, SenderSame, ReceiverSame
<1>5. CASE NetworkMoves
  BY <1>5, TypesOfNetwork, SenderSame, ReceiverSame DEF NetworkMoves
<1>6. CASE UNCHANGED vars
  <2>1. UNCHANGED <<senderVars, receiverVars, networkVars>>
    BY <1>6 DEF vars
  <2> QED BY <2>1, SenderSame, ReceiverSame DEF networkVars, ToReceiverInv, ToSenderInv
<1> QED BY <1>1, <1>2, <1>3, <1>4, <1>5, <1>6 DEF Next, Finished

\* The type invariant holds of a transfer over any network.
THEOREM TypesHold == Spec => []TypeInv
<1> QED BY TypesOfInit, TypesInductive, PTL DEF Spec

-----------------------------------------------------------------------------
\* Every variable of the two programs and of the link keeps its type, for any
\* length of the file, any window and any network, reordering included, and
\* when writes fail: the counters of read_write_loop_sender.c stay within what
\* was to be sent, and no window is sent that its field cannot hold.
THEOREM TransferTypes == Spec => []TypeOK
<1>1. TypeInv => TypeOK
  <2> SUFFICES ASSUME TypeInv PROVE TypeOK
    OBVIOUS
  <2>1. totalPacketsSent \in 0 .. Blocks + 1
    BY SentRanksFinite, SenderAssumption DEF TypeInv, SenderInv
  <2>2. sendingStack \in Seq([seqnum : SeqNums, payload : 0 .. Blocks, sent : BOOLEAN])
    BY DEF TypeInv, SenderInv, RestOfFile, Nodes
  <2>3. /\ {seqnumToSend, lastEncodedSeqnum, lastSeqnumAcked} \subseteq SeqNums
        /\ {totalPacketsToSend, totalPacketsSent} \subseteq 0 .. Blocks + 1
        /\ {refused, receiverRefused} \subseteq BOOLEAN
    BY <2>1 DEF TypeInv, SenderInv, ToReceiverInv, ToSenderInv
  <2> QED BY <2>2, <2>3, ReceivingIs
      DEF TypeOK, TypeInv, SenderInv, ReceiverInv, ToReceiverInv, ToSenderInv
<1> QED BY <1>1, TypesHold, PTL

\* The stack of the sender is an end of the file at every step, whatever the
\* receiver answers and the network does with it: stack_remove_acked
\* (stack.c:138-165) takes only a beginning, also for a number that is absent,
\* and what is left carries the numbers read_file gave it.
THEOREM RestIsKept == Spec => []KeepsTheRest
<1>1. TypeInv => KeepsTheRest
  <2> SUFFICES ASSUME TypeInv, NEW k \in 1 .. Len(sendingStack)
               PROVE  Rank(sendingStack[k]) = Acknowledged + k
    BY DEF KeepsTheRest
  <2> DEFINE g == Gone(sendingStack)
  <2>1. /\ g \in Nat /\ Len(sendingStack) = Blocks + 1 - g
        /\ IsPacket(g + k, sendingStack[k])
    BY RestIs DEF TypeInv, SenderInv
  <2>2. Acknowledged = g
    BY DEF Acknowledged, Gone
  <2> HIDE DEF g
  <2>3. g + k \in 1 .. Blocks + 1
    BY <2>1, SenderAssumption
  <2>4. sendingStack[k].payload = IF g + k <= Blocks THEN g + k ELSE NoPayload
    BY <2>1 DEF IsPacket
  <2> QED BY <2>2, <2>3, <2>4, SenderAssumption DEF Rank, NoPayload
<1> QED BY <1>1, TypesHold, PTL

=============================================================================
