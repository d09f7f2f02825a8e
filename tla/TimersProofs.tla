---------------------------- MODULE TimersProofs ----------------------------
(***************************************************************************)
(* The sender is never left waiting for nothing: over a link that loses    *)
(* and duplicates datagrams, keeps their order and damages none, a packet  *)
(* transmitted always has its timer looked at, and with no timer running   *)
(* the next packet may be sent.                                            *)
(***************************************************************************)
EXTENDS DeliveryProofs

\* What is asked of the link besides Orderly.  Run damage_stops_sender shows
\* what two damaged datagrams do to the sender.
Unharmed == "damage" \notin FaultKinds

\* The replies a receiver sends while it can read every datagram.
Acks == {reply \in Replies : IsAck(reply) /\ reply.window > 0}

\* Nothing damaged is on its way, nor anything that was answered to it.
Clean ==
  /\ toReceiver \in Seq(Data)
  /\ senderPc # "done" => toSender \in Seq(Acks) /\ ~receiverRefused
  /\ receiverPc = "down" => toSender = <<>>

(***************************************************************************)
(* The parts of the invariant, when the first m packets of the file have   *)
(* been transmitted and no other.                                          *)
(***************************************************************************)
\* The next transmission is the packet after them; if they are all
\* acknowledged nothing keeps it back.
Onward(m) ==
  /\ ~resending
  /\ seqnumToSend = m % SeqSpace
  /\ Gone(sendingStack) = m => receiverWindowSize > 0

\* The next transmission is one of them again: a repetition, or the first
\* packet when main() has started the loop again.
Back(m) ==
  \E q \in Gone(sendingStack) + 1 .. m :
    /\ seqnumToSend = (q - 1) % SeqSpace
    /\ resending \/ (q = m /\ receiverWindowSize > 0)

\* Before a receiver listens the window of 1 lets one packet out.
Unheard(m) ==
  \/ m = 0 /\ receiverWindowSize = 1
  \/ m = 1 /\ receiverWindowSize = 0
  \/ /\ m = 1 /\ receiverWindowSize = 1
     /\ senderPc = "send" /\ ~resending /\ seqnumToSend = 0

Follows(m) ==
  /\ receiverPc # "closed"
  /\ m > 0 => lastEncodedSeqnum = (m - 1) % SeqSpace
  /\ receiverPc = "down" => Unheard(m)
  /\ refused => m <= 1
  /\ senderPc = "send" => Onward(m) \/ Back(m)
  /\ senderPc = "wait" =>
       ~resending /\ seqnumToSend = m % SeqSpace /\ Gone(sendingStack) < m

\* The last conjunct asks nothing of a sender that has transmitted all.
FirstSent(m) ==
  /\ SentRanks(sendingStack) = 1 .. m
  /\ senderPc # "done" /\ m <= Blocks => Follows(m)

TimersInv ==
  /\ DeliveryInv
  /\ Unharmed
  /\ Clean
  /\ sendingStack = <<>> => senderPc = "done"
  /\ \E m \in 0 .. Blocks + 1 : FirstSent(m)

-----------------------------------------------------------------------------
LEMMA TimersOfInit == Init /\ Orderly /\ Unharmed => TimersInv
<1> SUFFICES ASSUME Init, Orderly, Unharmed PROVE TimersInv
  OBVIOUS
<1> USE DEF Init, SenderInit, ReceiverInit, NetworkInit
<1>1. DeliveryInv
  BY DeliveryOfInit
<1>2. Clean
  BY EmptySeq DEF Clean
<1>3. sendingStack # <<>>
  <2>1. Len(sendingStack) = Blocks + 1 - 0
    BY WholeFile, RestIs
  <2> QED BY <2>1, SenderAssumption
<1>4. SentRanks(sendingStack) = 1 .. 0 /\ Gone(sendingStack) = 0
  BY WholeFile
<1>5. 0 % SeqSpace = 0
  BY SeqNumAssumption
<1>6. Follows(0)
  BY <1>4, <1>5 DEF Follows, Unheard, Onward
<1>7. 0 \in 0 .. Blocks + 1
  BY SenderAssumption
<1> QED BY <1>1, <1>2, <1>3, <1>4, <1>6, <1>7 DEF TimersInv, FirstSent

-----------------------------------------------------------------------------
(***************************************************************************)
(* The link stays clean.                                                   *)
(***************************************************************************)
LEMMA FaultySame ==
  ASSUME Unharmed, NEW S, NEW old \in Seq(S), NEW new, Faulty(old, new)
  PROVE  new \in Seq(S) /\ old # <<>>
<1>1. old # <<>> /\ Tail(old) \in Seq(S) /\ Head(old) \in S
  BY HeadTailProperties DEF Faulty
<1>2. new = Tail(old) \/ new = <<Head(old)>> \o old
  BY DEF Faulty, Unharmed
<1>3. <<Head(old)>> \o old \in Seq(S)
  BY <1>1, ConcatProperties
<1> QED BY <1>1, <1>2, <1>3

LEMMA CleanOfNetwork ==
  ASSUME TimersInv, Refuse \/ RefuseReply \/ NetworkMoves \/ UNCHANGED vars
  PROVE  Clean'
<1>0. /\ toReceiver \in Seq(Data)
      /\ senderPc # "done" => toSender \in Seq(Acks) /\ ~receiverRefused
      /\ receiverPc = "down" => toSender = <<>>
      /\ Unharmed
  BY DEF TimersInv, Clean
<1>1. UNCHANGED <<senderPc, receiverPc>>
  BY DEF Refuse, RefuseReply, NetworkMoves, vars, senderVars, receiverVars
<1>2. CASE Refuse
  <2>1. /\ toReceiver # <<>> /\ toReceiver' = Tail(toReceiver)
        /\ UNCHANGED <<toSender, receiverRefused>>
    BY <1>2 DEF Refuse
  <2>2. toReceiver' \in Seq(Data)
    BY <1>0, <2>1, HeadTailProperties
  <2> QED BY <1>0, <1>1, <2>1, <2>2 DEF Clean
<1>3. CASE RefuseReply
  <2>1. senderPc = "done" /\ receiverPc # "down" /\ toReceiver' = toReceiver
    BY <1>3 DEF RefuseReply
  <2> QED BY <1>0, <1>1, <2>1 DEF Clean
<1>4. CASE NetworkMoves
  <2>1. receiverRefused' = receiverRefused
    BY <1>4 DEF NetworkMoves, NetworkFault
  <2>2. CASE Faulty(toReceiver, toReceiver') /\ UNCHANGED <<toSender, refused>>
    <3>1. toReceiver' \in Seq(Data)
      BY <1>0, <2>2, FaultySame
    <3> QED BY <1>0, <1>1, <2>1, <2>2, <3>1 DEF Clean
  <2>3. CASE Faulty(toSender, toSender') /\ UNCHANGED <<toReceiver, refused>>
    <3>1. senderPc # "done" => toSender' \in Seq(Acks)
      BY <1>0, <2>3, FaultySame
    <3>2. toSender # <<>>
      BY <2>3 DEF Faulty
    <3> QED BY <1>0, <1>1, <2>1, <2>3, <3>1, <3>2 DEF Clean
  <2>4. CASE UNCHANGED <<toReceiver, toSender>>
    BY <1>0, <1>1, <2>1, <2>4 DEF Clean
  <2> QED BY <1>4, <2>2, <2>3, <2>4 DEF NetworkMoves, NetworkFault
<1>5. CASE UNCHANGED vars
  BY <1>0, <1>1, <1>5 DEF Clean, vars, networkVars
<1> QED BY <1>2, <1>3, <1>4, <1>5

\* The sender sends packets of the file, and takes replies out.
LEMMA CleanOfSender ==
  ASSUME TimersInv, UNCHANGED receiverVars,
         SenderStep \/ (\E k \in Timed : Expire(k))
  PROVE  Clean'
<1>0. /\ toReceiver \in Seq(Data)
      /\ senderPc # "done" => toSender \in Seq(Acks) /\ ~receiverRefused
      /\ receiverPc = "down" => toSender = <<>>
      /\ receiverPc' = receiverPc
      /\ SenderInv
  BY DEF TimersInv, Clean, receiverVars, DeliveryInv, TypeInv
<1>1. CASE SendNext \/ SendAgain
  <2> DEFINE p == FirstPosition(sendingStack, seqnumToSend)
  <2>1. Write(Segment(sendingStack[p])) /\ MaySend /\ senderPc # "done"
    BY <1>1 DEF SendNext, SendAgain, Transmit
  <2>2. Segment(sendingStack[p]) \in Data
    BY <1>0, <2>1, ToSendIs, RestIs, SegmentType DEF SenderInv
  <2> DEFINE d == Segment(sendingStack[p])
  <2> HIDE DEF d
  <2>3. Put(toReceiver, <<d>>) \in Seq(Data)
    <3>1. <<d>> \in Seq(Data)
      BY <2>2 DEF d
    <3> QED BY <1>0, <3>1, PutType
  <2>4. toReceiver' \in Seq(Data) /\ UNCHANGED <<toSender, receiverRefused>>
    BY <1>0, <2>1, <2>3 DEF Write, d
  <2> QED BY <1>0, <2>1, <2>4 DEF Clean
<1>2. CASE \E i \in 1 .. Len(toSender) : process_response(i)
  <2>1. PICK i \in 1 .. Len(toSender) : Responds(i)
    BY <1>2 DEF process_response, ReceiveAck, ReceiveNack, ReceiveGarbage
  <2>2. /\ senderPc = "wait" /\ toSender' = RemoveAt(toSender, i)
        /\ UNCHANGED <<toReceiver, receiverRefused>>
    BY <2>1 DEF Responds, Take
  <2>3. toSender' \in Seq(Acks)
    BY <1>0, <2>2, RemoveAtIs
  <2>4. receiverPc # "down"
    BY <1>0, <2>1
  <2> QED BY <1>0, <2>2, <2>3, <2>4 DEF Clean
<1>3. CASE SkipSend \/ ReceiverGone \/ TryAgain \/ Idle \/ (\E k \in Timed : Expire(k))
  <2>1. senderPc # "done" /\ UNCHANGED <<toReceiver, toSender, receiverRefused>>
    BY <1>3 DEF SkipSend, ReceiverGone, TryAgain, Idle, Expire, ReadFails, networkVars
  <2> QED BY <1>0, <2>1 DEF Clean
<1> QED BY <1>1, <1>2, <1>3 DEF SenderStep

\* The receiver answers what it reads with an ACK, and its window is open.
LEMMA AckType ==
  ASSUME NEW s \in SeqNums, NEW w \in 1 .. MAX_WINDOW_SIZE
  PROVE  Reply("ACK", s, w) \in Acks
<1>1. w \in 0 .. MAX_WINDOW_SIZE /\ w > 0
  BY SeqNumAssumption
<1>2. Reply("ACK", s, w) \in Replies
  BY <1>1, ReplyType
<1> QED BY <1>1, <1>2 DEF Acks, IsAck, Reply

LEMMA WindowOpen ==
  ASSUME ReceiverInv
  PROVE  window \in 1 .. MAX_WINDOW_SIZE /\ expectedSeqnum \in SeqNums
<1>1. /\ Len(receivingStack) \in Nat /\ Len(receivingStack) < MAX_WINDOW_SIZE
      /\ window = MAX_WINDOW_SIZE - Len(receivingStack)
  BY ReceivingIs DEF ReceiverInv
<1> QED BY <1>1, SeqNumAssumption DEF ReceiverInv

LEMMA RepliesClean ==
  ASSUME senderPc # "done" => toSender \in Seq(Acks) /\ ~receiverRefused,
         NEW replies \in Seq(Acks), SendReplies(replies), senderPc' = senderPc
  PROVE  senderPc' # "done" => toSender' \in Seq(Acks) /\ ~receiverRefused'
<1> SUFFICES ASSUME senderPc # "done"
             PROVE  toSender' \in Seq(Acks) /\ ~receiverRefused'
  OBVIOUS
<1>1. toSender' = Put(toSender, replies) /\ ~receiverRefused'
  BY DEF SendReplies
<1> QED BY <1>1, PutType

LEMMA AcceptClean ==
  ASSUME senderPc # "done" => toSender \in Seq(Acks) /\ ~receiverRefused,
         ReceiverInv, ReceiverInv', senderPc' = senderPc, NEW pkt, Accept(pkt, <<>>)
  PROVE  senderPc' # "done" => toSender' \in Seq(Acks) /\ ~receiverRefused'
<1>1. window \in 1 .. MAX_WINDOW_SIZE /\ expectedSeqnum \in SeqNums
      /\ window' \in 1 .. MAX_WINDOW_SIZE
  <2>1. window' \in 1 .. MAX_WINDOW_SIZE
    <3>1. /\ Len(receivingStack') \in Nat /\ Len(receivingStack') < MAX_WINDOW_SIZE
          /\ window' = MAX_WINDOW_SIZE - Len(receivingStack')
      BY LenProperties DEF ReceiverInv
    <3> QED BY <3>1, SeqNumAssumption
  <2> QED BY <2>1, WindowOpen
<1>2. Reply("ACK", expectedSeqnum, window) \in Acks
      /\ Reply("ACK", expectedSeqnum, window') \in Acks
  BY <1>1, AckType
<1>3. /\ <<>> \in Seq(Acks)
      /\ <<>> \o <<Reply("ACK", expectedSeqnum, window)>> \in Seq(Acks)
      /\ <<>> \o <<Reply("ACK", expectedSeqnum, window')>> \in Seq(Acks)
  <2> DEFINE one == Reply("ACK", expectedSeqnum, window)
             two == Reply("ACK", expectedSeqnum, window')
  <2>1. one \in Acks /\ two \in Acks
    BY <1>2
  <2> HIDE DEF one, two
  <2>2. <<>> \in Seq(Acks) /\ <<one>> \in Seq(Acks) /\ <<two>> \in Seq(Acks)
    BY <2>1, EmptySeq
  <2>3. <<>> \o <<one>> \in Seq(Acks) /\ <<>> \o <<two>> \in Seq(Acks)
    BY <2>2, ConcatProperties
  <2> QED BY <2>2, <2>3 DEF one, two
<1>4. PICK replies \in Seq(Acks) : SendReplies(replies)
  BY <1>3 DEF Accept, AcceptExpected, AcceptAhead, AcceptAgain, AcceptOutside
<1> QED BY <1>4, RepliesClean

LEMMA CleanOfReceiver ==
  ASSUME TimersInv, ReceiverStep, TypeInv', senderPc' = senderPc
  PROVE  Clean'
<1>0. /\ toReceiver \in Seq(Data)
      /\ senderPc # "done" => toSender \in Seq(Acks) /\ ~receiverRefused
      /\ receiverPc = "down" => toSender = <<>>
      /\ ReceiverInv /\ ReceiverInv'
  BY DEF TimersInv, Clean, DeliveryInv, TypeInv
<1>1. CASE Launch
  <2>1. receiverPc' = "select" /\ UNCHANGED <<toReceiver, toSender, receiverRefused>>
    BY <1>1 DEF Launch, networkVars
  <2> QED BY <1>0, <2>1 DEF Clean
<1>2. CASE \E i \in 1 .. Len(toReceiver) :
             \/ ReceiveLast(i) \/ ReceiveData(i)
             \/ ReceiveTruncated(i) \/ ReceiveDamaged(i)
  <2>1. PICK i \in 1 .. Len(toReceiver) :
             \/ ReceiveLast(i) \/ ReceiveData(i)
             \/ ReceiveTruncated(i) \/ ReceiveDamaged(i)
    BY <1>2
  <2>2. toReceiver[i] \in Data
    BY <1>0, ElementOfSeq
  <2>3. toReceiver[i].code = "PKT_OK" /\ toReceiver[i].tr = 0
    BY <2>2 DEF Data
  <2>4. Reads(i) /\ (ReceiveLast(i) \/ ReceiveData(i))
    BY <2>1, <2>3 DEF ReceiveLast, ReceiveData, ReceiveTruncated, ReceiveDamaged
  <2>5. toReceiver' \in Seq(Data) /\ receiverPc = "select"
    <3>1. toReceiver' = RemoveAt(toReceiver, i) /\ receiverPc = "select"
      BY <2>4 DEF Reads, Take
    <3> QED BY <1>0, <3>1, RemoveAtIs
  <2>6. CASE ReceiveLast(i)
    <3> DEFINE acks == [n \in 1 .. LastAcks |-> Reply("ACK", expectedSeqnum', window)]
    <3>1. /\ SendReplies(acks) /\ receiverPc' = "closed"
      BY <2>6 DEF ReceiveLast
    <3>2. Reply("ACK", expectedSeqnum', window) \in Acks
      BY <1>0, WindowOpen, AckType DEF ReceiverInv
    <3>3. acks \in Seq(Acks)
      BY <3>2 DEF LastAcks
    <3> HIDE DEF acks
    <3>4. senderPc' # "done" => toSender' \in Seq(Acks) /\ ~receiverRefused'
      BY <1>0, <3>1, <3>3, RepliesClean
    <3> QED BY <2>5, <3>1, <3>4 DEF Clean
  <2>7. CASE ReceiveData(i)
    <3>1. Accept(toReceiver[i], <<>>)
      BY <2>7 DEF ReceiveData
    <3>2. senderPc' # "done" => toSender' \in Seq(Acks) /\ ~receiverRefused'
      BY <1>0, <3>1, AcceptClean
    <3>3. receiverPc' \in {"select", "drain"}
      BY <2>5, <3>1
      DEF Accept, AcceptExpected, AcceptAhead, AcceptAgain, AcceptOutside, receiverVars
    <3> QED BY <2>5, <3>2, <3>3 DEF Clean
  <2> QED BY <2>4, <2>6, <2>7
<1>3. CASE ReceiveFails
  <2>1. /\ receiverRefused /\ receiverPc = "select"
        /\ UNCHANGED <<receiverPc, toReceiver>>
    BY <1>3 DEF ReceiveFails, receiverVars
  <2> QED BY <1>0, <2>1 DEF Clean
<1>4. CASE Drain
  <2>1. /\ receiverPc = "drain"
        /\ UNCHANGED <<receiverPc, toReceiver, toSender, receiverRefused>>
    BY <1>4 DEF Drain, networkVars
  <2> QED BY <1>0, <2>1 DEF Clean
<1>5. CASE Drained
  <2> DEFINE ack == Reply("ACK", expectedSeqnum, window)
  <2>1. SendReplies(<<ack>>) /\ receiverPc' = "select" /\ toReceiver' = toReceiver
    BY <1>5 DEF Drained
  <2>2. ack \in Acks
    BY <1>0, WindowOpen, AckType
  <2> HIDE DEF ack
  <2>3. <<ack>> \in Seq(Acks)
    BY <2>2
  <2>4. senderPc' # "done" => toSender' \in Seq(Acks) /\ ~receiverRefused'
    BY <1>0, <2>1, <2>3, RepliesClean
  <2> QED BY <1>0, <2>1, <2>4 DEF Clean
<1> QED BY <1>1, <1>2, <1>3, <1>4, <1>5 DEF ReceiverStep

-----------------------------------------------------------------------------
(***************************************************************************)
(* The sender, until it has transmitted everything.                        *)
(***************************************************************************)
\* Where it stands: a packets are gone from its stack, m are transmitted.
LEMMA Stands ==
  ASSUME DeliveryInv, receiverPc # "closed",
         NEW m \in 0 .. Blocks, SentRanks(sendingStack) = 1 .. m
  PROVE  /\ Gone(sendingStack) \in Nat /\ Len(output) \in Nat
         /\ Gone(sendingStack) <= Len(output) /\ Len(output) <= m
         /\ m \in Nat /\ m <= Blocks /\ m <= Gone(sendingStack) + MAX_WINDOW_SIZE
         /\ RestOfFile(sendingStack)
         /\ Len(sendingStack) = Blocks + 1 - Gone(sendingStack)
         /\ lastSeqnumAcked = Gone(sendingStack) % SeqSpace
         /\ refused => Gone(sendingStack) = 0
<1> DEFINE a == Gone(sendingStack)
           r == Len(output)
<1>1. /\ a \in Nat /\ r \in Nat /\ a <= r /\ RestOfFile(sendingStack)
      /\ Len(sendingStack) = Blocks + 1 - a
      /\ lastSeqnumAcked = a % SeqSpace /\ (refused => a = 0)
      /\ SentIn(1 .. m, a, r)
  BY Bounds DEF Live
<1>2. m \in Nat /\ m <= Blocks
  BY SenderAssumption
<1> HIDE DEF a, r
<1>3. r <= m
  <2>1. CASE r = 0
    BY <1>2, <2>1
  <2>2. CASE r # 0
    <3>1. r \in 1 .. r
      BY <1>1, <2>2
    <3>2. r \in 1 .. m
      BY <1>1, <3>1 DEF SentIn
    <3> QED BY <1>2, <3>2
  <2> QED BY <2>1, <2>2
<1>4. m <= a + MAX_WINDOW_SIZE
  <2>1. CASE m = 0
    BY <1>1, <2>1, SeqNumAssumption
  <2>2. CASE m # 0
    <3>1. m \in 1 .. m
      BY <1>2, <2>2
    <3> QED BY <1>1, <3>1 DEF SentIn
  <2> QED BY <2>1, <2>2
<1> QED BY <1>1, <1>2, <1>3, <1>4 DEF a, r

\* Its number finds any packet up to the one after those.
LEMMA Found ==
  ASSUME DeliveryInv, receiverPc # "closed",
         NEW m \in 0 .. Blocks, SentRanks(sendingStack) = 1 .. m,
         NEW q \in Gone(sendingStack) + 1 .. m + 1, NEW s, s = (q - 1) % SeqSpace
  PROVE  /\ is_in_stack(sendingStack, s)
         /\ FirstPosition(sendingStack, s) = q - Gone(sendingStack)
         /\ q - Gone(sendingStack) \in 1 .. Len(sendingStack)
         /\ Offset(lastSeqnumAcked, s) = q - 1 - Gone(sendingStack)
         /\ q = Gone(sendingStack) + 1 => s = lastSeqnumAcked
<1> DEFINE a == Gone(sendingStack)
           k == q - a
<1>1. /\ a \in Nat /\ m \in Nat /\ m <= Blocks /\ m <= a + MAX_WINDOW_SIZE
      /\ RestOfFile(sendingStack) /\ Len(sendingStack) = Blocks + 1 - a
      /\ lastSeqnumAcked = a % SeqSpace
  BY Stands
<1>0. q \in a + 1 .. m + 1
  OBVIOUS
<1> HIDE DEF a
<1>2. /\ q - a \in 1 .. Len(sendingStack) /\ q - a <= SeqSpace
      /\ q - 1 = a + (q - a) - 1
      /\ q - 1 \in Nat /\ a <= q - 1 /\ q - 1 < a + SeqSpace
      /\ q - 1 - a \in Nat
  BY <1>0, <1>1, SeqNumAssumption, SenderAssumption
<1>3. is_in_stack(sendingStack, s) /\ FirstPosition(sendingStack, s) = q - a
  <2>1. s = (a + k - 1) % SeqSpace /\ k \in 1 .. Len(sendingStack) /\ k <= SeqSpace
    BY <1>2
  <2> HIDE DEF k
  <2>2. is_in_stack(sendingStack, s) /\ FirstPosition(sendingStack, s) = k
    BY <1>1, <2>1, PositionIs DEF a
  <2> QED BY <2>2 DEF k
<1>4. Offset(a % SeqSpace, (q - 1) % SeqSpace) = q - 1 - a
  BY <1>1, <1>2, OffsetOfPositions
<1>5. q = a + 1 => s = lastSeqnumAcked
  <2>1. q = a + 1 => q - 1 = a
    BY <1>1
  <2> QED BY <1>1, <2>1
<1> QED BY <1>1, <1>2, <1>3, <1>4, <1>5 DEF a

\* Nothing keeps back a packet in the window but the end of the file, which is
\* held until it comes first.
LEMMA MayGoOn ==
  ASSUME DeliveryInv, receiverPc # "closed",
         NEW m \in 0 .. Blocks, SentRanks(sendingStack) = 1 .. m,
         NEW q \in Gone(sendingStack) + 1 .. m + 1,
         q <= m \/ q = Gone(sendingStack) + 1,
         seqnumToSend = (q - 1) % SeqSpace
  PROVE  /\ ~HoldLast
         /\ InWindow(lastSeqnumAcked, seqnumToSend)
         /\ is_in_stack(sendingStack, seqnumToSend)
<1> DEFINE a == Gone(sendingStack)
           s == seqnumToSend
<1>1. /\ a \in Nat /\ m \in Nat /\ m <= Blocks /\ m <= a + MAX_WINDOW_SIZE
      /\ RestOfFile(sendingStack) /\ Len(sendingStack) = Blocks + 1 - a
  BY Stands
<1>2. /\ is_in_stack(sendingStack, s) /\ FirstPosition(sendingStack, s) = q - a
      /\ q - a \in 1 .. Len(sendingStack) /\ Offset(lastSeqnumAcked, s) = q - 1 - a
      /\ q = a + 1 => s = lastSeqnumAcked
  BY Found
<1>3. \A k \in 1 .. Len(sendingStack) : IsPacket(a + k, sendingStack[k])
  BY <1>1, RestIs
<1>0. q \in a + 1 .. m + 1 /\ (q <= m \/ q = a + 1)
  OBVIOUS
<1> HIDE DEF a
<1>4. InWindow(lastSeqnumAcked, s)
  <2>1. q - 1 - a < MAX_WINDOW_SIZE
    BY <1>0, <1>1, SeqNumAssumption
  <2> QED BY <1>2, <2>1 DEF InWindow
<1>5. ~HoldLast
  <2> SUFFICES ASSUME HoldLast PROVE FALSE
    OBVIOUS
  <2>1. q <= m
    BY <1>0, <1>2 DEF HoldLast
  <2>2. stack_get_pkt(sendingStack, s) = sendingStack[q - a]
    BY <1>2 DEF stack_get_pkt
  <2>3. a + (q - a) = q /\ q \in 1 .. Blocks
    BY <1>0, <1>1, <2>1, SenderAssumption
  <2>4. IsPacket(q, sendingStack[q - a])
    BY <1>2, <1>3, <2>3
  <2>5. sendingStack[q - a].payload = q
    BY <2>3, <2>4 DEF IsPacket
  <2> QED BY <2>2, <2>3, <2>5 DEF HoldLast, NoPayload
<1> QED BY <1>2, <1>4, <1>5

\* A transmission marks the packet of its number, and clears an error.
LEMMA Marks ==
  ASSUME DeliveryInv, receiverPc # "closed",
         NEW m \in 0 .. Blocks, SentRanks(sendingStack) = 1 .. m,
         NEW q \in Gone(sendingStack) + 1 .. m + 1,
         seqnumToSend = (q - 1) % SeqSpace, Transmit
  PROVE  /\ SentRanks(sendingStack') = IF q <= m THEN 1 .. m ELSE 1 .. m + 1
         /\ Gone(sendingStack') = Gone(sendingStack)
         /\ Len(sendingStack') = Len(sendingStack)
         /\ ~refused'
<1> DEFINE a == Gone(sendingStack)
           p == FirstPosition(sendingStack, seqnumToSend)
<1>1. a \in Nat /\ m \in Nat /\ RestOfFile(sendingStack)
  BY Stands
<1>2. p = q - a /\ p \in 1 .. Len(sendingStack)
  BY Found
<1>3. /\ sendingStack' = [sendingStack EXCEPT ![p].sent = TRUE]
      /\ Write(Segment(sendingStack[p]))
  BY DEF Transmit
<1>4. ~refused'
  BY <1>3 DEF Write
<1> HIDE DEF p
<1>5. /\ Gone(sendingStack') = a /\ Len(sendingStack') = Len(sendingStack)
      /\ SentRanks(sendingStack') = SentRanks(sendingStack) \cup {a + p}
  BY <1>1, <1>2, <1>3, RestMarked
<1>6. a + p = q
  BY <1>1, <1>2
<1>7. 1 .. m \cup {q} = IF q <= m THEN 1 .. m ELSE 1 .. m + 1
  BY <1>1
<1> QED BY <1>4, <1>5, <1>6, <1>7

-----------------------------------------------------------------------------
\* What a step of the sender that transmits nothing has to show.
LEMMA FirstSentKept ==
  ASSUME NEW m \in 0 .. Blocks, SentRanks(sendingStack') = 1 .. m,
         senderPc' # "done" => Follows(m)'
  PROVE  \E n \in 0 .. Blocks + 1 : FirstSent(n)'
<1>1. m \in 0 .. Blocks + 1
  BY SenderAssumption
<1> QED BY <1>1 DEF FirstSent

\* A transmission is possible whenever the sender has come to it with nothing
\* to wait for: it never goes on to wait then.
LEMMA SkipFollows ==
  ASSUME DeliveryInv, NEW m \in 0 .. Blocks,
         SentRanks(sendingStack) = 1 .. m, Follows(m), SkipSend,
         UNCHANGED receiverVars
  PROVE  SentRanks(sendingStack') = 1 .. m /\ Follows(m)'
<1> DEFINE a == Gone(sendingStack)
<1>1. /\ receiverPc # "closed" /\ senderPc = "send" /\ ~MaySend
      /\ Onward(m) \/ Back(m)
      /\ m > 0 => lastEncodedSeqnum = (m - 1) % SeqSpace
      /\ receiverPc = "down" => Unheard(m)
      /\ refused => m <= 1
  BY DEF Follows, SkipSend
<1>2. /\ senderPc' = "wait"
      /\ UNCHANGED <<sendingStack, seqnumToSend, lastEncodedSeqnum,
                     receiverWindowSize, resending, refused, receiverPc>>
  BY DEF SkipSend, networkVars, receiverVars
<1>3. a \in Nat /\ m \in Nat /\ a <= m
  BY <1>1, Stands
<1>4. ~Back(m)
  <2> SUFFICES ASSUME Back(m) PROVE FALSE
    OBVIOUS
  <2>1. PICK q \in a + 1 .. m :
          /\ seqnumToSend = (q - 1) % SeqSpace
          /\ resending \/ (q = m /\ receiverWindowSize > 0)
    BY DEF Back
  <2>2. q \in a + 1 .. m + 1 /\ q <= m
    BY <1>3
  <2>3. MaySend
    BY <1>1, <2>1, <2>2, MayGoOn DEF MaySend
  <2> QED BY <1>1, <2>3
<1>5. ~resending /\ seqnumToSend = m % SeqSpace
  BY <1>1, <1>4 DEF Onward
<1>6. a < m
  <2> SUFFICES ASSUME a = m PROVE FALSE
    BY <1>3
  <2>1. receiverWindowSize > 0
    BY <1>1, <1>4 DEF Onward
  <2>2. m + 1 \in a + 1 .. m + 1 /\ m + 1 = a + 1 /\ (m + 1) - 1 = m
    BY <1>3
  <2>3. seqnumToSend = ((m + 1) - 1) % SeqSpace
    BY <1>5, <2>2
  <2>4. MaySend
    BY <1>1, <2>1, <2>2, <2>3, MayGoOn DEF MaySend
  <2> QED BY <1>1, <2>4
<1>7. Unheard(m) => Unheard(m)'
  <2> SUFFICES ASSUME Unheard(m) PROVE Unheard(m)'
    OBVIOUS
  <2>1. ~(m = 1 /\ seqnumToSend = 0)
    <3>1. m = 1 => m % SeqSpace = 1
      BY SeqNumAssumption
    <3> QED BY <1>5, <3>1
  <2> QED BY <1>2, <2>1 DEF Unheard
<1> QED BY <1>1, <1>2, <1>5, <1>6, <1>7 DEF Follows

\* A packet is transmitted for the first time, or again.
LEMMA SendFollows ==
  ASSUME DeliveryInv, NEW m \in 0 .. Blocks,
         SentRanks(sendingStack) = 1 .. m, Follows(m), SendNext \/ SendAgain,
         UNCHANGED receiverVars
  PROVE  \E n \in 0 .. Blocks + 1 : FirstSent(n)'
<1> DEFINE a == Gone(sendingStack)
<1>1. /\ receiverPc # "closed" /\ senderPc = "send" /\ MaySend /\ Transmit
      /\ Onward(m) \/ Back(m)
      /\ m > 0 => lastEncodedSeqnum = (m - 1) % SeqSpace
      /\ receiverPc = "down" => Unheard(m)
      /\ refused => m <= 1
  BY DEF Follows, SendNext, SendAgain
<1>2. senderPc' = "wait" /\ receiverPc' = receiverPc /\ ~resending'
  BY DEF SendNext, SendAgain, receiverVars
<1>3. /\ a \in Nat /\ m \in Nat /\ m <= Blocks /\ a <= m /\ m <= a + MAX_WINDOW_SIZE
      /\ Len(sendingStack) = Blocks + 1 - a
  BY <1>1, Stands
<1>4. MAX_WINDOW_SIZE \in Nat /\ SeqSpace \in Nat
  BY SeqNumAssumption
<1>5. CASE Back(m)
  <2>1. PICK q \in a + 1 .. m :
          /\ seqnumToSend = (q - 1) % SeqSpace
          /\ resending \/ (q = m /\ receiverWindowSize > 0)
    BY <1>5 DEF Back
  <2>2. q \in a + 1 .. m + 1 /\ q <= m /\ q \in Nat /\ m > 0
    BY <1>3
  <2>3. /\ SentRanks(sendingStack') = 1 .. m /\ Gone(sendingStack') = a /\ ~refused'
    BY <1>1, <2>1, <2>2, Marks
  <2>4. lastEncodedSeqnum' = (m - 1) % SeqSpace /\ seqnumToSend' = m % SeqSpace
    <3>1. lastEncodedSeqnum' = (m - 1) % SeqSpace
      BY <1>1, <2>1, <2>2 DEF SendNext, SendAgain
    <3>2. seqnumToSend' = Incr(lastEncodedSeqnum')
      BY DEF SendNext, SendAgain
    <3>3. m - 1 \in Nat /\ (m - 1) + 1 = m
      BY <1>3, <2>2
    <3>4. Incr((m - 1) % SeqSpace) = ((m - 1) + 1) % SeqSpace
      BY <3>3, IncrOfPosition
    <3> QED BY <3>1, <3>2, <3>3, <3>4
  <2>5. receiverPc = "down" => Unheard(m)'
    <3> SUFFICES ASSUME receiverPc = "down" PROVE Unheard(m)'
      OBVIOUS
    <3>1. m = 1
      BY <1>1, <2>2 DEF Unheard
    <3>2. receiverWindowSize' = 0
      <4>1. CASE resending
        BY <1>1, <2>2, <3>1, <4>1 DEF Unheard, SendNext, SendAgain
      <4>2. CASE ~resending
        <5>1. receiverWindowSize = 1
          BY <1>1, <2>1, <3>1, <4>2 DEF Unheard
        <5>2. receiverWindowSize' = receiverWindowSize - 1
          BY <4>2 DEF SendNext, SendAgain
        <5> QED BY <5>1, <5>2
      <4> QED BY <4>1, <4>2
    <3> QED BY <3>1, <3>2 DEF Unheard
  <2>6. a < m
    BY <1>3, <2>1
  <2>7. Follows(m)'
    BY <1>1, <1>2, <2>3, <2>4, <2>5, <2>6 DEF Follows
  <2> QED BY <2>3, <2>7, FirstSentKept
<1>6. CASE Onward(m)
  <2> DEFINE q == m + 1
  <2>1. /\ q \in a + 1 .. m + 1 /\ ~(q <= m) /\ q - 1 = m /\ q \in 0 .. Blocks + 1
        /\ q > 0 /\ a < q
    BY <1>3, SenderAssumption
  <2>2. ~resending /\ seqnumToSend = (q - 1) % SeqSpace
    BY <1>6, <2>1 DEF Onward
  <2> HIDE DEF q
  <2>3. /\ SentRanks(sendingStack') = 1 .. m + 1 /\ Gone(sendingStack') = a /\ ~refused'
    BY <1>1, <2>1, <2>2, Marks
  <2>4. /\ lastEncodedSeqnum' = seqnumToSend /\ seqnumToSend' = Incr(seqnumToSend)
        /\ receiverWindowSize' = receiverWindowSize - 1
        /\ receiverWindowSize > 0
    BY <1>1, <2>2 DEF SendNext, SendAgain, MaySend
  <2>5. seqnumToSend' = q % SeqSpace
    BY <1>3, <2>1, <2>2, <2>4, IncrOfPosition DEF q
  <2>6. receiverPc = "down" => Unheard(q)'
    <3> SUFFICES ASSUME receiverPc = "down" PROVE Unheard(q)'
      OBVIOUS
    <3>1. m = 0 /\ receiverWindowSize = 1
      <4>1. m = 1 => seqnumToSend = 1
        <5>1. m = 1 => m % SeqSpace = 1
          BY SeqNumAssumption
        <5> QED BY <1>6, <5>1 DEF Onward
      <4> QED BY <1>1, <2>4, <4>1 DEF Unheard
    <3> QED BY <2>4, <3>1 DEF Unheard, q
  <2>7. Follows(q)'
    BY <1>1, <1>2, <2>1, <2>2, <2>3, <2>4, <2>5, <2>6 DEF Follows
  <2>8. SentRanks(sendingStack') = 1 .. q
    BY <2>3 DEF q
  <2> QED BY <2>1, <2>7, <2>8 DEF FirstSent
<1> QED BY <1>1, <1>5, <1>6

-----------------------------------------------------------------------------
\* A wait ends; what the sender means to send next, it may send.
LEMMA IdleFollows ==
  ASSUME DeliveryInv, NEW m \in 0 .. Blocks,
         SentRanks(sendingStack) = 1 .. m, Follows(m), Idle \/ ReceiverGone,
         UNCHANGED receiverVars
  PROVE  /\ SentRanks(sendingStack') = 1 .. m
         /\ senderPc' # "done" => Follows(m)'
<1> DEFINE a == Gone(sendingStack)
<1>1. /\ receiverPc # "closed" /\ senderPc = "wait"
      /\ ~resending /\ seqnumToSend = m % SeqSpace /\ a < m
      /\ m > 0 => lastEncodedSeqnum = (m - 1) % SeqSpace
      /\ receiverPc = "down" => Unheard(m)
      /\ refused => m <= 1
  BY DEF Follows, Idle, ReceiverGone, ReadFails
<1>2. /\ UNCHANGED <<sendingStack, seqnumToSend, lastEncodedSeqnum,
                     receiverWindowSize, resending, receiverPc>>
      /\ refused' => refused
      /\ senderPc' \in {"send", "done"}
  <2>1. Idle => UNCHANGED networkVars /\ EndOfIteration(FALSE)
    BY DEF Idle
  <2>2. ReceiverGone => refused' = FALSE /\ EndOfIteration(TRUE)
    BY DEF ReceiverGone, ReadFails
  <2>3. senderPc' \in {"send", "done"}
    BY <2>1, <2>2 DEF EndOfIteration
  <2>4. refused' => refused
    <3>1. Idle => refused' = refused
      BY <2>1 DEF networkVars
    <3> QED BY <2>2, <3>1
  <2>5. UNCHANGED <<sendingStack, seqnumToSend, lastEncodedSeqnum,
                    receiverWindowSize, resending>>
    BY DEF Idle, ReceiverGone
  <2>6. UNCHANGED receiverPc
    BY DEF receiverVars
  <2> QED BY <2>3, <2>4, <2>5, <2>6
<1>3. a \in Nat /\ m \in Nat
  BY <1>1, Stands
<1>4. Onward(m)'
  <2>1. Gone(sendingStack') = a
    BY <1>2
  <2> QED BY <1>1, <1>2, <1>3, <2>1 DEF Onward
<1>5. Unheard(m) => Unheard(m)'
  BY <1>1, <1>2 DEF Unheard
<1>6. senderPc' # "done" => Follows(m)'
  BY <1>1, <1>2, <1>4, <1>5 DEF Follows
<1> QED BY <1>2, <1>6

\* main() starts the loop again: the one packet sent is sent again.
LEMMA AgainFollows ==
  ASSUME DeliveryInv, NEW m \in 0 .. Blocks,
         SentRanks(sendingStack) = 1 .. m, Follows(m), TryAgain,
         UNCHANGED receiverVars
  PROVE  SentRanks(sendingStack') = 1 .. m /\ Follows(m)'
<1> DEFINE a == Gone(sendingStack)
<1>1. /\ receiverPc # "closed" /\ senderPc = "wait" /\ refused /\ ~resending
      /\ a < m /\ m <= 1
  BY DEF Follows, TryAgain, ReadFails
<1>2. /\ senderPc' = "send" /\ seqnumToSend' = 0 /\ lastEncodedSeqnum' = 0
      /\ receiverWindowSize' = 1 /\ refused' = FALSE
      /\ UNCHANGED <<sendingStack, resending, receiverPc>>
  BY DEF TryAgain, ReadFails, receiverVars
<1>3. a = 0 /\ m = 1
  <2>1. a = 0 /\ m \in Nat
    BY <1>1, Stands
  <2> QED BY <1>1, <2>1
<1>4. (1 - 1) % SeqSpace = 0
  <2>1. 1 - 1 = 0
    OBVIOUS
  <2>2. 0 % SeqSpace = 0
    BY SeqNumAssumption
  <2> QED BY <2>1, <2>2
<1>5. Back(m)'
  <2>1. 1 \in Gone(sendingStack') + 1 .. m
    BY <1>2, <1>3
  <2> QED BY <1>2, <1>3, <1>4, <2>1 DEF Back
<1>6. Unheard(m)'
  BY <1>1, <1>2, <1>3 DEF Unheard
<1> QED BY <1>1, <1>2, <1>3, <1>4, <1>5, <1>6 DEF Follows

\* A timer expires: its packet is one of those transmitted.
LEMMA ExpireFollows ==
  ASSUME DeliveryInv, NEW m \in 0 .. Blocks,
         SentRanks(sendingStack) = 1 .. m, Follows(m),
         NEW k \in Timed, Expire(k), UNCHANGED receiverVars
  PROVE  /\ SentRanks(sendingStack') = 1 .. m
         /\ senderPc' # "done" => Follows(m)'
<1> DEFINE a == Gone(sendingStack)
           q == a + k
<1>1. /\ receiverPc # "closed" /\ senderPc = "wait" /\ ~refused
      /\ ~resending /\ seqnumToSend = m % SeqSpace /\ a < m
      /\ m > 0 => lastEncodedSeqnum = (m - 1) % SeqSpace
      /\ receiverPc = "down" => Unheard(m)
  BY DEF Follows, Expire
<1>2. /\ UNCHANGED <<sendingStack, lastEncodedSeqnum, receiverWindowSize, receiverPc>>
      /\ seqnumToSend' = sendingStack[k].seqnum /\ resending' = TRUE
      /\ refused' = refused
      /\ senderPc' \in {"send", "done"}
  BY DEF Expire, EndOfIteration, receiverVars, networkVars
<1>3. /\ a \in Nat /\ m \in Nat /\ m <= Blocks /\ RestOfFile(sendingStack)
      /\ Len(sendingStack) = Blocks + 1 - a
  BY <1>1, Stands
<1>4. k \in 1 .. Len(sendingStack) /\ sendingStack[k].sent
  BY DEF Timed
<1>5. IsPacket(q, sendingStack[k])
  BY <1>3, <1>4, RestIs
<1>6. q \in a + 1 .. m
  <2>1. q \in Ranks /\ q > a /\ q - a = k
    BY <1>3, <1>4, SenderAssumption DEF Ranks
  <2>2. q \in SentRanks(sendingStack)
    BY <1>4, <2>1 DEF SentRanks
  <2>3. q \in 1 .. m
    BY <2>2
  <2> HIDE DEF q
  <2> QED BY <1>3, <2>1, <2>3
<1> HIDE DEF q
<1>7. Back(m)'
  <2>1. q \in Gone(sendingStack') + 1 .. m
    BY <1>2, <1>6
  <2>2. seqnumToSend' = (q - 1) % SeqSpace
    BY <1>2, <1>5 DEF IsPacket
  <2> QED BY <1>2, <2>1, <2>2 DEF Back
<1>8. receiverPc = "down" => Unheard(m)'
  <2>1. Unheard(m) => m = 1 /\ receiverWindowSize = 0
    BY <1>1, <1>3 DEF Unheard
  <2> QED BY <1>1, <1>2, <2>1 DEF Unheard
<1>9. senderPc' # "done" => Follows(m)'
  BY <1>1, <1>2, <1>7, <1>8 DEF Follows
<1> QED BY <1>2, <1>9

\* An ACK is read: it is not ahead of what is transmitted, and it opens the
\* window.  The third of a number asks for a packet that was transmitted.
LEMMA AckFollows ==
  ASSUME TimersInv, NEW m \in 0 .. Blocks,
         SentRanks(sendingStack) = 1 .. m, Follows(m),
         NEW i \in 1 .. Len(toSender), process_response(i), UNCHANGED receiverVars
  PROVE  /\ SentRanks(sendingStack') = 1 .. m
         /\ senderPc' # "done" => Follows(m)'
<1> DEFINE a == Gone(sendingStack)
           ack == toSender[i]
<1>0. DeliveryInv /\ Clean
  BY DEF TimersInv
<1>1. /\ Responds(i) /\ senderPc = "wait" /\ ~refused /\ refused' = refused
      /\ receiverPc' = receiverPc
  BY DEF process_response, ReceiveAck, ReceiveNack, ReceiveGarbage, Responds, receiverVars
<1>2. IsAck(ack) /\ ack.window > 0 /\ receiverPc # "down"
  <2>1. toSender \in Seq(Acks) /\ toSender # <<>>
    BY <1>0, <1>1 DEF Clean
  <2>2. ack \in Acks
    BY <2>1, ElementOfSeq
  <2>3. receiverPc # "down"
    BY <1>0, <2>1 DEF Clean
  <2> QED BY <2>2, <2>3 DEF Acks
<1>3. ReceiveAck(i)
  BY <1>2 DEF process_response, ReceiveNack, ReceiveGarbage, IsAck
<1>4. /\ receiverPc # "closed" /\ ~resending /\ seqnumToSend = m % SeqSpace /\ a < m
      /\ m > 0 => lastEncodedSeqnum = (m - 1) % SeqSpace
  BY <1>1 DEF Follows
<1>5. /\ a \in Nat /\ m \in Nat /\ Len(output) <= m /\ Len(output) \in Nat
      /\ lastSeqnumAcked = a % SeqSpace
  BY <1>0, <1>4, Stands
<1>6. /\ lastSeqnumAcked' = ack.seqnum
      /\ Gone(sendingStack') = a + Offset(lastSeqnumAcked, ack.seqnum)
      /\ Gone(sendingStack') <= Len(output)
      /\ SentRanks(sendingStack') = 1 .. m
      /\ Gone(sendingStack') \in Nat
  <2>1. /\ i = 1 /\ lastSeqnumAcked' = toSender[1].seqnum
        /\ RestOfFile(sendingStack')
        /\ Gone(sendingStack') = a + Offset(lastSeqnumAcked, lastSeqnumAcked')
        /\ Gone(sendingStack') <= Len(output)
        /\ SentRanks(sendingStack') = SentRanks(sendingStack)
    BY <1>0, <1>3, <1>4, AckAdvances
  <2> QED BY <2>1, RestIs
<1>7. /\ receiverWindowSize' = ack.window /\ CountAck(ack.seqnum)
      /\ lastEncodedSeqnum' = lastEncodedSeqnum
      /\ senderPc' \in {"send", "done"}
  BY <1>3 DEF ReceiveAck, EndOfIteration
<1> HIDE DEF ack
<1>8. Onward(m)' \/ Back(m)'
  <2>1. CASE UNCHANGED <<seqnumToSend, resending>>
    <3>1. receiverWindowSize' > 0
      BY <1>2, <1>7
    <3> QED BY <1>4, <2>1, <3>1 DEF Onward
  <2>2. CASE ~ UNCHANGED <<seqnumToSend, resending>>
    <3>1. ack.seqnum = lastSeqnumAcked /\ seqnumToSend' = lastSeqnumAcked /\ resending' = TRUE
      BY <1>7, <2>2 DEF CountAck
    <3>2. lastSeqnumAcked \in SeqNums
      BY <1>0 DEF DeliveryInv, TypeInv, SenderInv
    <3>3. Offset(lastSeqnumAcked, ack.seqnum) = 0
      BY <3>1, <3>2, OffsetZero
    <3>4. Gone(sendingStack') = a
      BY <1>5, <1>6, <3>3
    <3>5. a + 1 \in Gone(sendingStack') + 1 .. m /\ (a + 1) - 1 = a
      BY <1>4, <1>5, <3>4
    <3> QED BY <1>5, <3>1, <3>5 DEF Back
  <2> QED BY <2>1, <2>2
<1>9. senderPc' # "done" => Follows(m)'
  BY <1>1, <1>2, <1>4, <1>7, <1>8 DEF Follows
<1> QED BY <1>6, <1>9
-----------------------------------------------------------------------------
\* The loop ends when its stack is empty.
LEMMA EndsWhenEmpty ==
  ASSUME TimersInv, SenderStep \/ (\E k \in Timed : Expire(k))
  PROVE  sendingStack' = <<>> => senderPc' = "done"
<1>0. sendingStack = <<>> => senderPc = "done"
  BY DEF TimersInv
<1>1. CASE SendNext \/ SendAgain
  <2> DEFINE p == FirstPosition(sendingStack, seqnumToSend)
  <2>1. senderPc = "send" /\ MaySend /\ sendingStack' = [sendingStack EXCEPT ![p].sent = TRUE]
    BY <1>1 DEF SendNext, SendAgain, Transmit
  <2>2. RestOfFile(sendingStack) /\ p \in 1 .. Len(sendingStack)
    BY <2>1, ToSendIs DEF TimersInv, DeliveryInv, TypeInv, SenderInv
  <2> HIDE DEF p
  <2>3. Len(sendingStack') = Len(sendingStack)
    BY <2>1, <2>2, RestMarked
  <2>4. Len(sendingStack') # 0
    BY <2>2, <2>3
  <2> QED BY <2>4, EmptySeq
<1>2. CASE SkipSend \/ TryAgain
  <2>1. senderPc # "done" /\ sendingStack' = sendingStack
    BY <1>2 DEF SkipSend, TryAgain, ReadFails
  <2> QED BY <1>0, <2>1
<1>3. CASE \E mainBreak \in BOOLEAN : EndOfIteration(mainBreak)
  BY <1>3 DEF EndOfIteration
<1>4. ASSUME ReceiverGone \/ Idle \/ (\E k \in Timed : Expire(k))
             \/ (\E i \in 1 .. Len(toSender) : process_response(i))
      PROVE  \E mainBreak \in BOOLEAN : EndOfIteration(mainBreak)
  BY <1>4 DEF ReceiverGone, Idle, Expire, process_response, ReceiveAck, ReceiveNack,
              ReceiveGarbage
<1> QED BY <1>1, <1>2, <1>3, <1>4 DEF SenderStep

\* Once everything is transmitted it stays so.
LEMMA AllSent ==
  ASSUME SenderInv, SentRanks(sendingStack) = Ranks,
         SenderStep \/ (\E k \in Timed : Expire(k))
  PROVE  SentRanks(sendingStack') = Ranks
<1>0. RestOfFile(sendingStack)
  BY DEF SenderInv
<1>1. CASE SendNext \/ SendAgain
  <2> DEFINE p == FirstPosition(sendingStack, seqnumToSend)
  <2>1. MaySend /\ sendingStack' = [sendingStack EXCEPT ![p].sent = TRUE]
    BY <1>1 DEF SendNext, SendAgain, Transmit
  <2>2. p \in 1 .. Len(sendingStack)
    BY <2>1, ToSendIs
  <2> HIDE DEF p
  <2>3. /\ SentRanks(sendingStack') = SentRanks(sendingStack) \cup {Gone(sendingStack) + p}
        /\ Gone(sendingStack) + p \in Ranks
    BY <1>0, <2>1, <2>2, RestMarked
  <2> QED BY <2>3
<1>2. CASE sendingStack' = sendingStack
  BY <1>2
<1>3. CASE \E s : sendingStack' = stack_remove_acked(sendingStack, s)
  <2>1. PICK s : sendingStack' = stack_remove_acked(sendingStack, s)
    BY <1>3
  <2>2. SentRanks(sendingStack) \subseteq SentRanks(sendingStack')
    BY <1>0, <2>1, RestShrinks
  <2> QED BY <2>2 DEF SentRanks
<1>4. CASE \E i \in 1 .. Len(toSender) : process_response(i)
  BY <1>2, <1>3, <1>4 DEF process_response, ReceiveAck, ReceiveNack, ReceiveGarbage
<1>5. CASE SkipSend \/ ReceiverGone \/ TryAgain \/ Idle \/ (\E k \in Timed : Expire(k))
  BY <1>2, <1>5 DEF SkipSend, ReceiverGone, TryAgain, Idle, Expire
<1> QED BY <1>1, <1>4, <1>5 DEF SenderStep

LEMMA TimersOfSender ==
  ASSUME TimersInv, DeliveryInv', UNCHANGED receiverVars,
         SenderStep \/ (\E k \in Timed : Expire(k))
  PROVE  TimersInv'
<1>1. Clean' /\ (sendingStack' = <<>> => senderPc' = "done")
  BY CleanOfSender, EndsWhenEmpty
<1>2. senderPc # "done"
  BY DEF SenderStep, SkipSend, SendNext, SendAgain, ReceiverGone, TryAgain, Idle, Expire,
         ReadFails, process_response, ReceiveAck, ReceiveNack, ReceiveGarbage, Responds
<1>3. PICK m \in 0 .. Blocks + 1 : FirstSent(m)
  BY DEF TimersInv
<1>4. DeliveryInv /\ SenderInv
  BY DEF TimersInv, DeliveryInv, TypeInv
<1>5. CASE m = Blocks + 1
  <2>1. SentRanks(sendingStack') = Ranks
    BY <1>3, <1>4, <1>5, AllSent DEF FirstSent, Ranks
  <2>2. ~(Blocks + 1 <= Blocks) /\ Blocks + 1 \in 0 .. Blocks + 1
    BY SenderAssumption
  <2>3. FirstSent(Blocks + 1)'
    BY <2>1, <2>2 DEF FirstSent, Ranks
  <2> QED BY <1>1, <2>2, <2>3 DEF TimersInv, Unharmed
<1>6. CASE m # Blocks + 1
  <2>1. m \in 0 .. Blocks /\ m <= Blocks
    BY <1>3, <1>6, SenderAssumption
  <2>2. SentRanks(sendingStack) = 1 .. m /\ Follows(m)
    BY <1>2, <1>3, <2>1 DEF FirstSent
  <2>3. \E n \in 0 .. Blocks + 1 : FirstSent(n)'
    <3>1. CASE SendNext \/ SendAgain
      BY <1>4, <2>1, <2>2, <3>1, SendFollows
    <3>2. CASE SkipSend
      BY <1>4, <2>1, <2>2, <3>2, SkipFollows, FirstSentKept
    <3>3. CASE Idle \/ ReceiverGone
      BY <1>4, <2>1, <2>2, <3>3, IdleFollows, FirstSentKept
    <3>4. CASE TryAgain
      BY <1>4, <2>1, <2>2, <3>4, AgainFollows, FirstSentKept
    <3>5. CASE \E k \in Timed : Expire(k)
      BY <1>4, <2>1, <2>2, <3>5, ExpireFollows, FirstSentKept
    <3>6. CASE \E i \in 1 .. Len(toSender) : process_response(i)
      BY <2>1, <2>2, <3>6, AckFollows, FirstSentKept
    <3> QED BY <3>1, <3>2, <3>3, <3>4, <3>5, <3>6 DEF SenderStep
  <2> QED BY <1>1, <2>3 DEF TimersInv, Unharmed
<1> QED BY <1>5, <1>6
-----------------------------------------------------------------------------
(***************************************************************************)
(* The receiver and the network.                                           *)
(***************************************************************************)
\* The terminating packet is read only once everything has been transmitted,
\* and a receiver that runs stays bound to its port until then.
LEMMA Listens ==
  ASSUME DeliveryInv, receiverPc # "closed", NEW m \in 0 .. Blocks,
         SentRanks(sendingStack) = 1 .. m, ReceiverStep
  PROVE  receiverPc' \in {"select", "drain"} /\ refused' = refused
<1>1. CASE \E i \in 1 .. Len(toReceiver) : ReceiveLast(i)
  <2>1. PICK i \in 1 .. Len(toReceiver) : ReceiveLast(i)
    BY <1>1
  <2>2. Reads(i) /\ toReceiver[i].code = "PKT_OK" /\ IsLast(toReceiver[i])
    BY <2>1 DEF ReceiveLast
  <2>3. Rank(toReceiver[i]) = Blocks + 1
    BY <2>2 DEF IsLast, Rank
  <2>4. Rank(toReceiver[i]) \in SentRanks(sendingStack)
    BY <2>2, ReadingIs
  <2> QED BY <2>3, <2>4, SenderAssumption
<1>2. CASE Launch
  BY <1>2 DEF Launch, networkVars
<1>3. CASE Drain \/ Drained
  BY <1>3 DEF Drain, Drained, networkVars
<1>4. CASE ReceiveFails
  BY <1>4 DEF ReceiveFails, receiverVars
<1>5. CASE \E i \in 1 .. Len(toReceiver) : ReceiveDamaged(i)
  BY <1>5 DEF ReceiveDamaged, Reads, receiverVars
<1>6. ASSUME NEW i \in 1 .. Len(toReceiver), ReceiveData(i) \/ ReceiveTruncated(i)
      PROVE  receiverPc' \in {"select", "drain"} /\ refused' = refused
  <2>1. Reads(i) /\ toReceiver[i].code = "PKT_OK"
    BY <1>6 DEF ReceiveData, ReceiveTruncated
  <2>2. toReceiver[i].tr = 0
    BY <2>1, ReadingIs DEF Data
  <2>3. receiverPc = "select" /\ refused' = refused /\ Accept(toReceiver[i], <<>>)
    BY <1>6, <2>1, <2>2 DEF ReceiveData, ReceiveTruncated, Reads
  <2> QED BY <2>3 DEF Accept, AcceptExpected, AcceptAhead, AcceptAgain, AcceptOutside,
                      receiverVars
<1> QED BY <1>1, <1>2, <1>3, <1>4, <1>5, <1>6 DEF ReceiverStep

\* What is left to show when the sender does not move.
LEMMA TimersOfOthers ==
  ASSUME TimersInv, DeliveryInv', Clean', UNCHANGED senderVars,
         \A m \in 0 .. Blocks :
           SentRanks(sendingStack) = 1 .. m /\ receiverPc # "closed" /\ Follows(m)
           => /\ receiverPc' # "closed"
              /\ receiverPc' = "down" => receiverPc = "down"
              /\ refused' => m <= 1
  PROVE  TimersInv'
<1>1. /\ UNCHANGED <<senderPc, sendingStack, seqnumToSend, lastEncodedSeqnum,
                     receiverWindowSize, resending>>
  BY DEF senderVars
<1>2. PICK m \in 0 .. Blocks + 1 : FirstSent(m)
  BY DEF TimersInv
<1>3. FirstSent(m)'
  <2> SUFFICES ASSUME senderPc # "done", m <= Blocks PROVE Follows(m)'
    BY <1>1, <1>2 DEF FirstSent
  <2>1. m \in 0 .. Blocks
    BY SenderAssumption
  <2>2. SentRanks(sendingStack) = 1 .. m /\ Follows(m)
    BY <1>2 DEF FirstSent
  <2>3. /\ receiverPc' # "closed"
        /\ receiverPc' = "down" => receiverPc = "down"
        /\ refused' => m <= 1
    BY <2>1, <2>2 DEF Follows
  <2>4. /\ Unheard(m) => Unheard(m)'
        /\ Onward(m) => Onward(m)'
        /\ Back(m) => Back(m)'
    BY <1>1 DEF Unheard, Onward, Back
  <2> QED BY <1>1, <2>2, <2>3, <2>4 DEF Follows
<1>4. sendingStack' = <<>> => senderPc' = "done"
  BY <1>1 DEF TimersInv
<1> QED BY <1>2, <1>3, <1>4 DEF TimersInv, Unharmed

LEMMA TimersOfReceiver ==
  ASSUME TimersInv, DeliveryInv', ReceiverMoves
  PROVE  TimersInv'
<1>1. ReceiverStep /\ UNCHANGED senderVars
  BY DEF ReceiverMoves
<1>2. Clean'
  <2>1. senderPc' = senderPc /\ TypeInv'
    BY <1>1 DEF senderVars, DeliveryInv
  <2> QED BY <1>1, <2>1, CleanOfReceiver
<1>3. ASSUME NEW m \in 0 .. Blocks, SentRanks(sendingStack) = 1 .. m,
             receiverPc # "closed", Follows(m)
      PROVE  /\ receiverPc' # "closed"
             /\ receiverPc' = "down" => receiverPc = "down"
             /\ refused' => m <= 1
  <2>1. receiverPc' \in {"select", "drain"} /\ refused' = refused
    BY <1>1, <1>3, Listens DEF TimersInv
  <2> QED BY <1>3, <2>1 DEF Follows
<1> QED BY <1>1, <1>2, <1>3, TimersOfOthers

\* A datagram is refused: the receiver is not launched, and at most one packet
\* has been transmitted.
LEMMA TimersOfNetwork ==
  ASSUME TimersInv, DeliveryInv', Refuse \/ RefuseReply \/ NetworkMoves \/ UNCHANGED vars
  PROVE  TimersInv'
<1>1. UNCHANGED senderVars /\ receiverPc' = receiverPc
  BY DEF Refuse, RefuseReply, NetworkMoves, vars, receiverVars
<1>2. Clean'
  BY CleanOfNetwork
<1>3. ASSUME NEW m \in 0 .. Blocks, receiverPc # "closed", Follows(m), refused'
      PROVE  m <= 1
  <2>1. CASE refused
    BY <1>3, <2>1 DEF Follows
  <2>2. CASE ~refused
    <3>1. Refuse
      BY <1>3, <2>2 DEF RefuseReply, NetworkMoves, NetworkFault, vars, networkVars
    <3>2. receiverPc = "down"
      BY <1>3, <3>1 DEF Refuse, TimersInv, DeliveryInv, TypeInv, ReceiverInv, ReceiverPcs
    <3> QED BY <1>3, <3>2 DEF Follows, Unheard
  <2> QED BY <2>1, <2>2
<1> QED BY <1>1, <1>2, <1>3, TimersOfOthers

LEMMA TimersInductive == TimersInv /\ [Next]_vars => TimersInv'
<1> SUFFICES ASSUME TimersInv, [Next]_vars PROVE TimersInv'
  OBVIOUS
<1>1. DeliveryInv'
  BY DeliveryInductive DEF TimersInv
<1>2. CASE SenderMoves
  BY <1>1, <1>2, TimersOfSender DEF SenderMoves
<1>3. CASE \E k \in Timed : TimerExpires(k)
  BY <1>1, <1>3, TimersOfSender DEF TimerExpires
<1>4. CASE ReceiverMoves
  BY <1>1, <1>4, TimersOfReceiver
<1>5. CASE Refuse \/ RefuseReply \/ NetworkMoves \/ UNCHANGED vars
  BY <1>1, <1>5, TimersOfNetwork
<1> QED BY <1>2, <1>3, <1>4, <1>5 DEF Next, Finished

\* Through every loss and repetition, and every restart of the sender's loop,
\* the packets transmitted are a beginning of the file, and what the sender
\* transmits next is the packet after them or one of them.
THEOREM TimersHold == Orderly /\ Unharmed /\ Spec => []TimersInv
<1>1. Orderly /\ Unharmed /\ Init => TimersInv
  BY TimersOfInit
<1>2. TimersInv /\ [Next]_vars => TimersInv'
  BY TimersInductive
<1> QED BY <1>1, <1>2, PTL DEF Spec

-----------------------------------------------------------------------------
\* Each packet transmitted and not acknowledged has its timer looked at.
THEOREM TimersAreLookedAt == Orderly /\ Unharmed /\ Spec => []TimersCoverSent
<1>1. ASSUME TimersInv PROVE TimersCoverSent
  <2> DEFINE a == Gone(sendingStack)
  <2>1. PICK m \in 0 .. Blocks + 1 : SentRanks(sendingStack) = 1 .. m
    BY <1>1 DEF TimersInv, FirstSent
  <2>2. /\ a \in Nat /\ Len(sendingStack) = Blocks + 1 - a
        /\ Len(sendingStack) \in Nat /\ m \in Nat
    BY <1>1, RestIs, SenderAssumption DEF TimersInv, DeliveryInv, TypeInv, SenderInv
  <2>3. ASSUME NEW k \in 1 .. Len(sendingStack)
        PROVE  a + k \in SentRanks(sendingStack) <=> sendingStack[k].sent
    <3>1. a + k \in Ranks /\ a + k > a /\ (a + k) - a = k
      BY <2>2, SenderAssumption DEF Ranks
    <3> QED BY <3>1 DEF SentRanks
  <2> HIDE DEF a
  <2> SUFFICES ASSUME NEW k \in 1 .. Len(sendingStack), sendingStack[k].sent,
                      NEW j \in 1 .. k
               PROVE  sendingStack[j].sent
    BY DEF TimersCoverSent, Timed
  <2>4. a + k \in 1 .. m
    BY <2>1, <2>3
  <2>5. j \in 1 .. Len(sendingStack) /\ a + j \in 1 .. m
    BY <2>2, <2>4
  <2> QED BY <2>1, <2>3, <2>5
<1> QED BY <1>1, TimersHold, PTL

\* With no timer running the sender is at the top of its loop, the packet it means
\* to send is the first of its stack, and nothing keeps it back: neither HoldLast,
\* nor the range, nor a window of 0 (read_write_loop_sender.c:90-114).
THEOREM SenderNeverStuck == Orderly /\ Unharmed /\ Spec => []NeverStuck
<1>1. ASSUME TimersInv PROVE NeverStuck
  <2> DEFINE a == Gone(sendingStack)
  <2> SUFFICES ASSUME senderPc # "done", Timed = {}
               PROVE  senderPc = "send" /\ MaySend
    BY DEF NeverStuck
  <2>1. DeliveryInv /\ sendingStack # <<>>
    BY <1>1 DEF TimersInv
  <2>2. RestOfFile(sendingStack)
    BY <2>1 DEF DeliveryInv, TypeInv, SenderInv
  <2>3. PICK m \in 0 .. Blocks + 1 : FirstSent(m)
    BY <1>1 DEF TimersInv
  <2>4. /\ a \in Nat /\ Len(sendingStack) = Blocks + 1 - a /\ m \in Nat
        /\ Len(sendingStack) \in Nat /\ m <= Blocks + 1
    BY <2>2, RestIs, SenderAssumption
  <2>5. 1 \in 1 .. Len(sendingStack)
    <3>1. Len(sendingStack) # 0
      BY <2>1, <2>2, EmptySeq DEF RestOfFile
    <3> QED BY <2>4, <3>1
  <2>6. ~sendingStack[1].sent
    BY <2>5 DEF Timed
  <2>7. ~(a + 1 \in 1 .. m)
    <3>1. a + 1 > a /\ (a + 1) - a = 1
      BY <2>4
    <3>2. ~(a + 1 \in SentRanks(sendingStack))
      BY <2>6, <3>1 DEF SentRanks
    <3> QED BY <2>3, <3>2 DEF FirstSent
  <2>8. m <= a /\ m <= Blocks /\ m \in 0 .. Blocks
    BY <2>4, <2>5, <2>7, SenderAssumption
  <2>9. SentRanks(sendingStack) = 1 .. m /\ Follows(m) /\ receiverPc # "closed"
    BY <2>3, <2>8 DEF FirstSent, Follows
  <2>10. a = m
    <3>1. a <= Len(output) /\ Len(output) <= m /\ Len(output) \in Nat
      BY <2>1, <2>8, <2>9, Stands
    <3> QED BY <2>4, <2>8, <3>1
  <2>11. senderPc = "send"
    <3>1. senderPc \in {"send", "wait"}
      BY <2>1 DEF DeliveryInv, TypeInv, SenderInv, SenderPcs
    <3> QED BY <2>4, <2>9, <2>10, <3>1 DEF Follows
  <2>12. seqnumToSend = m % SeqSpace /\ receiverWindowSize > 0
    <3>1. ~Back(m)
      BY <2>4, <2>10 DEF Back
    <3> QED BY <2>9, <2>10, <2>11, <3>1 DEF Follows, Onward
  <2>13. /\ m + 1 \in a + 1 .. m + 1 /\ m + 1 = a + 1 /\ (m + 1) - 1 = m
    BY <2>4, <2>10
  <2>14. /\ is_in_stack(sendingStack, seqnumToSend)
         /\ InWindow(lastSeqnumAcked, seqnumToSend)
         /\ ~HoldLast
    BY <2>1, <2>8, <2>9, <2>12, <2>13, MayGoOn
  <2> QED BY <2>11, <2>12, <2>14 DEF MaySend
<1> QED BY <1>1, TimersHold, PTL


=============================================================================
