------------------------- MODULE OpenReceiverProofs -------------------------
(***************************************************************************)
(* The invariants of OpenReceiver hold for every size of the sequence      *)
(* number space and of the window, every payload and every behaviour of    *)
(* the peer.                                                               *)
(***************************************************************************)
EXTENDS OpenReceiver, StackProofs

\* The replies that leave the sender something to send.
OpenReplies == {r \in Replies : r.window > 0}

\* The inductive invariant.  NeverZeroWindow needs that the buffer is never
\* full, which needs that the buffered packets are distinct and less than a
\* window ahead: none of the three is inductive without the others.
IInv ==
  /\ TypeOK
  /\ NoDuplicateBuffered
  /\ BufferedAhead
  /\ WindowAccurate
  /\ Len(receivingStack) < MAX_WINDOW_SIZE
  /\ toSender \in Seq(OpenReplies)
  /\ receiverPc = "down" => receivingStack = <<>>

-----------------------------------------------------------------------------
\* A reply of the receiver is one, and offers the window it is given.
LEMMA ReplyIs ==
  ASSUME NEW type \in {"ACK", "NACK"}, NEW s \in SeqNums,
         NEW w \in 1 .. MAX_WINDOW_SIZE
  PROVE  Reply(type, s, w) \in OpenReplies
  BY SeqNumAssumption DEF Reply, OpenReplies, Replies

\* What read() and pkt_decode give the loop when they give it a packet.
LEMMA DatagramIs ==
  ASSUME NEW d \in Datagrams
  PROVE  d.code = "PKT_OK" => d \in Packets /\ Decoded(d)
  BY DEF Datagrams, Damaged

LEMMA WriteOutType ==
  ASSUME output \in Seq(Payloads \cup {Garbage}), NEW pkt \in Packets, WriteOut(pkt)
  PROVE  output' \in Seq(Payloads \cup {Garbage})
  BY AppendProperties DEF WriteOut, Written, Packets

\* What send() leaves on its way, with or without an error on the socket.
LEMMA SendRepliesType ==
  ASSUME toSender \in Seq(OpenReplies), receiverRefused \in BOOLEAN,
         NEW replies \in Seq(OpenReplies), SendReplies(replies)
  PROVE  toSender' \in Seq(OpenReplies) /\ receiverRefused' \in BOOLEAN
<1>1. replies # <<>> => Tail(replies) \in Seq(OpenReplies)
  BY HeadTailProperties
<1>2. CASE receiverRefused /\ replies # <<>>
  BY <1>1, <1>2, PutType DEF SendReplies
<1>3. CASE ~(receiverRefused /\ replies # <<>>)
  BY <1>3, PutType DEF SendReplies
<1> QED BY <1>2, <1>3

-----------------------------------------------------------------------------
LEMMA InitInductive == Init => IInv
<1> SUFFICES ASSUME Init PROVE IInv
  OBVIOUS
<1> USE DEF Init, ReceiverInit, NetworkInit
<1>1. TypeOK
  <2>1. expectedSeqnum \in SeqNums /\ window \in 0 .. MAX_WINDOW_SIZE /\ faults \in Nat
    BY SeqNumAssumption, NetworkAssumption DEF SeqNums
  <2>2. <<>> \in Seq(Packets) /\ <<>> \in Seq(Payloads \cup {Garbage})
        /\ <<>> \in Seq(Datagrams) /\ <<>> \in Seq(Replies)
    BY EmptySeq
  <2> QED BY <2>1, <2>2 DEF TypeOK, ReceiverPcs
<1>2. Len(receivingStack) = 0 /\ toSender \in Seq(OpenReplies)
  BY EmptySeq
<1> QED
  BY <1>1, <1>2, SeqNumAssumption
  DEF IInv, NoDuplicateBuffered, BufferedAhead, WindowAccurate

\* The reply that carries the window of a state of the invariant.
LEMMA OpenWindow ==
  ASSUME IInv
  PROVE  window \in 1 .. MAX_WINDOW_SIZE
<1>1. Len(receivingStack) \in Nat
  BY LenProperties DEF IInv, TypeOK
<1> QED BY <1>1, SeqNumAssumption DEF IInv, WindowAccurate

\* What the lemmas about the buffer ask for.
LEMMA BufferIs ==
  ASSUME IInv
  PROVE  /\ receivingStack \in Seq(Packets) /\ Len(receivingStack) \in Nat
         /\ expectedSeqnum \in SeqNums
         /\ \A p \in Packets : p.seqnum \in SeqNums
         /\ Distinct(receivingStack)
         /\ Ahead(receivingStack, expectedSeqnum, IF receiverPc = "select" THEN 1 ELSE 0)
<1>1. receivingStack \in Seq(Packets) /\ expectedSeqnum \in SeqNums
  BY DEF IInv, TypeOK
<1>2. \A p \in Packets : p.seqnum \in SeqNums
  BY DEF Packets
<1>3. \A i \in 1 .. Len(receivingStack) : receivingStack[i].seqnum \in SeqNums
  BY <1>1, <1>2, ElementOfSeq
<1>4. ASSUME NEW i \in 1 .. Len(receivingStack)
      PROVE  Offset(expectedSeqnum, receivingStack[i].seqnum) \in
               (IF receiverPc = "select" THEN 1 ELSE 0) .. MAX_WINDOW_SIZE - 1
  <2>1. Offset(expectedSeqnum, receivingStack[i].seqnum) \in SeqNums
    BY <1>1, <1>3, OffsetType
  <2>2. /\ Offset(expectedSeqnum, receivingStack[i].seqnum) < MAX_WINDOW_SIZE
        /\ receiverPc = "select" => Offset(expectedSeqnum, receivingStack[i].seqnum) > 0
    BY DEF IInv, BufferedAhead
  <2> QED BY <2>1, <2>2, SeqNumAssumption DEF SeqNums
<1>5. Distinct(receivingStack)
  BY DEF IInv, NoDuplicateBuffered, Distinct
<1>6. Len(receivingStack) \in Nat
  BY <1>1, LenProperties
<1> QED BY <1>1, <1>2, <1>4, <1>5, <1>6 DEF Ahead

\* And what they give back.
LEMMA BufferInductive ==
  ASSUME Distinct(receivingStack'),
         Ahead(receivingStack', expectedSeqnum', IF receiverPc' = "select" THEN 1 ELSE 0)
  PROVE  NoDuplicateBuffered' /\ BufferedAhead'
<1>1. NoDuplicateBuffered'
  BY DEF Distinct, NoDuplicateBuffered
<1>2. BufferedAhead'
  BY SeqNumAssumption DEF Ahead, BufferedAhead
<1> QED BY <1>1, <1>2

\* The packet that goes into the buffer leaves it distinct, ahead and not full.
LEMMA AheadInductive ==
  ASSUME IInv, NEW pkt \in Packets, NEW replies \in Seq(OpenReplies),
         receiverPc = "select",
         AcceptAhead(pkt, replies),
         toReceiver' \in Seq(Datagrams), UNCHANGED <<refused, faults>>
  PROVE  IInv'
<1> DEFINE new == receivingStack'
           e == expectedSeqnum
<1>1. /\ pkt.seqnum # e /\ InWindow(e, pkt.seqnum)
      /\ ~is_in_stack(receivingStack, pkt.seqnum)
      /\ new = stack_enqueue(receivingStack, pkt)
      /\ window' = MAX_WINDOW_SIZE - Len(new)
  BY DEF AcceptAhead
<1>2. /\ new \in Seq(Packets) /\ Distinct(new) /\ Ahead(new, e, 1)
      /\ Len(new) < MAX_WINDOW_SIZE /\ e \in SeqNums
  BY <1>1, BufferIs, EnqueueAhead
<1>3. Len(new) \in Nat
  BY <1>2, LenProperties
<1> HIDE DEF new, e
<1>8. window' \in 1 .. MAX_WINDOW_SIZE
  BY <1>1, <1>2, <1>3, SeqNumAssumption
<1>9. toSender' \in Seq(OpenReplies) /\ receiverRefused' \in BOOLEAN
  <2>1. Reply("ACK", e, window') \in OpenReplies
    BY <1>2, <1>8, ReplyIs
  <2>2. replies \o <<Reply("ACK", e, window')>> \in Seq(OpenReplies)
    BY <2>1, ConcatProperties
  <2>3. SendReplies(replies \o <<Reply("ACK", e, window')>>)
    BY DEF AcceptAhead, e
  <2>4. toSender \in Seq(OpenReplies) /\ receiverRefused \in BOOLEAN
    BY DEF IInv, TypeOK
  <2> QED BY <2>2, <2>3, <2>4, SendRepliesType
<1>10. UNCHANGED <<receiverPc, expectedSeqnum, output, refused, faults>>
  BY DEF AcceptAhead
<1>11. TypeOK'
  <2>1. toSender' \in Seq(Replies)
    BY <1>9, SeqMonotonic DEF OpenReplies
  <2>2. window' \in 0 .. MAX_WINDOW_SIZE
    BY <1>8, SeqNumAssumption
  <2> QED BY <2>1, <2>2, <1>2, <1>9, <1>10 DEF IInv, TypeOK, new
<1>12. NoDuplicateBuffered' /\ BufferedAhead'
  BY <1>2, <1>10, BufferInductive DEF new, e
<1> QED BY <1>1, <1>2, <1>9, <1>10, <1>11, <1>12 DEF IInv, WindowAccurate, new

\* A step that answers and changes nothing else.
LEMMA AnswerInductive ==
  ASSUME IInv, NEW replies \in Seq(OpenReplies),
         SendReplies(replies), toReceiver' \in Seq(Datagrams),
         UNCHANGED <<receiverVars, refused, faults>>
  PROVE  IInv'
<1>1. toSender' \in Seq(OpenReplies) /\ receiverRefused' \in BOOLEAN
  BY SendRepliesType DEF IInv, TypeOK
<1>2. toSender' \in Seq(Replies)
  BY <1>1, SeqMonotonic DEF OpenReplies
<1>3. TypeOK'
  BY <1>1, <1>2 DEF IInv, TypeOK, receiverVars
<1> QED
  BY <1>1, <1>3
  DEF IInv, NoDuplicateBuffered, BufferedAhead, WindowAccurate, receiverVars

\* The awaited packet comes: everything buffered is one step nearer.
LEMMA AdvanceInductive ==
  ASSUME IInv, receiverPc = "select", receiverPc' \in {"drain", "closed"},
         expectedSeqnum' = Incr(expectedSeqnum),
         output' \in Seq(Payloads \cup {Garbage}),
         toSender' \in Seq(OpenReplies), receiverRefused' \in BOOLEAN,
         toReceiver' \in Seq(Datagrams),
         UNCHANGED <<window, receivingStack, refused, faults>>
  PROVE  IInv'
<1>1. toSender' \in Seq(Replies)
  BY SeqMonotonic DEF OpenReplies
<1>2. expectedSeqnum \in SeqNums /\ expectedSeqnum' \in SeqNums
  BY IncrType DEF IInv, TypeOK
<1>3. TypeOK'
  BY <1>1, <1>2 DEF IInv, TypeOK, ReceiverPcs
<1>4. Ahead(receivingStack, expectedSeqnum', 0) /\ Distinct(receivingStack)
  BY BufferIs, AdvanceAhead
<1>5. NoDuplicateBuffered' /\ BufferedAhead'
  BY <1>4, BufferInductive
<1> QED BY <1>3, <1>5 DEF IInv, WindowAccurate

\* Whatever an iteration does with a packet.
LEMMA AcceptInductive ==
  ASSUME IInv, NEW pkt \in Packets, NEW replies \in Seq(OpenReplies),
         receiverPc = "select",
         Accept(pkt, replies),
         toReceiver' \in Seq(Datagrams), UNCHANGED <<refused, faults>>
  PROVE  IInv'
<1>1. CASE AcceptExpected(pkt, replies)
  <2>1. output' \in Seq(Payloads \cup {Garbage})
    BY <1>1, WriteOutType DEF AcceptExpected, IInv, TypeOK
  <2>2. toSender' \in Seq(OpenReplies) /\ receiverRefused' \in BOOLEAN
    BY <1>1, SendRepliesType DEF AcceptExpected, IInv, TypeOK
  <2>3. /\ receiverPc' \in {"drain", "closed"} /\ expectedSeqnum' = Incr(expectedSeqnum)
        /\ UNCHANGED <<window, receivingStack>>
    BY <1>1 DEF AcceptExpected
  <2> QED BY <2>1, <2>2, <2>3, AdvanceInductive
<1>2. CASE AcceptAhead(pkt, replies)
  BY <1>2, AheadInductive
<1>3. CASE AcceptAgain(pkt, replies)
  BY <1>3, AnswerInductive DEF AcceptAgain
<1>4. CASE AcceptOutside(pkt, replies)
  <2>1. Reply("ACK", expectedSeqnum, window) \in OpenReplies
    BY OpenWindow, ReplyIs DEF IInv, TypeOK
  <2>2. replies \o <<Reply("ACK", expectedSeqnum, window)>> \in Seq(OpenReplies)
    BY <2>1, ConcatProperties
  <2>3. /\ SendReplies(replies \o <<Reply("ACK", expectedSeqnum, window)>>)
        /\ UNCHANGED receiverVars
    BY <1>4 DEF AcceptOutside
  <2> QED BY <2>2, <2>3, AnswerInductive
<1> QED BY <1>1, <1>2, <1>3, <1>4 DEF Accept

\* What is left on the way once a datagram is read.
LEMMA ReadsIs ==
  ASSUME IInv, NEW i \in 1 .. Len(toReceiver), Reads(i)
  PROVE  /\ receiverPc = "select"
         /\ toReceiver[i] \in Datagrams
         /\ toReceiver' \in Seq(Datagrams)
         /\ UNCHANGED <<refused, faults>>
<1>1. toReceiver \in Seq(Datagrams)
  BY DEF IInv, TypeOK
<1>2. toReceiver[i] \in Datagrams /\ RemoveAt(toReceiver, i) \in Seq(Datagrams)
  BY <1>1, ElementOfSeq, RemoveAtIs
<1> QED BY <1>2 DEF Reads, Take

LEMMA ReceiveInductive ==
  ASSUME IInv, NEW i \in 1 .. Len(toReceiver),
         \/ ReceiveLast(i) \/ ReceiveData(i)
         \/ ReceiveTruncated(i) \/ ReceiveDamaged(i)
  PROVE  IInv'
<1>0. /\ receiverPc = "select" /\ toReceiver[i] \in Datagrams
      /\ toReceiver' \in Seq(Datagrams) /\ UNCHANGED <<refused, faults>>
  BY ReadsIs DEF ReceiveLast, ReceiveData, ReceiveTruncated, ReceiveDamaged
<1>1. toReceiver[i].code = "PKT_OK" => toReceiver[i] \in Packets
  BY <1>0, DatagramIs
<1>2. expectedSeqnum \in SeqNums /\ Incr(expectedSeqnum) \in SeqNums
  BY IncrType DEF IInv, TypeOK
<1>3. CASE ReceiveLast(i)
  <2> DEFINE acks == [n \in 1 .. LastAcks |-> Reply("ACK", expectedSeqnum', window)]
  <2>1. expectedSeqnum' = Incr(expectedSeqnum)
    BY <1>3 DEF ReceiveLast
  <2>2. Reply("ACK", expectedSeqnum', window) \in OpenReplies
    BY <1>2, <2>1, OpenWindow, ReplyIs
  <2>3. acks \in Seq(OpenReplies)
    BY <2>2 DEF LastAcks
  <2>4. SendReplies(acks)
    BY <1>3 DEF ReceiveLast
  <2>5. toSender' \in Seq(OpenReplies) /\ receiverRefused' \in BOOLEAN
    BY <2>3, <2>4, SendRepliesType DEF IInv, TypeOK
  <2>6. /\ receiverPc' \in {"drain", "closed"} /\ UNCHANGED <<window, receivingStack, output>>
    BY <1>3 DEF ReceiveLast
  <2>7. output' \in Seq(Payloads \cup {Garbage})
    BY <2>6 DEF IInv, TypeOK
  <2> QED BY <1>0, <2>1, <2>5, <2>6, <2>7, AdvanceInductive
<1>4. CASE ReceiveData(i)
  <2>1. <<>> \in Seq(OpenReplies)
    OBVIOUS
  <2>2. toReceiver[i] \in Packets /\ Accept(toReceiver[i], <<>>)
    BY <1>1, <1>4 DEF ReceiveData
  <2> QED BY <1>0, <2>1, <2>2, AcceptInductive
<1>5. CASE ReceiveTruncated(i)
  <2> DEFINE nack == Reply("NACK", toReceiver[i].seqnum, window)
  <2>1. toReceiver[i] \in Packets
    BY <1>1, <1>5 DEF ReceiveTruncated
  <2>2. toReceiver[i].seqnum \in SeqNums
    BY <2>1 DEF Packets
  <2>3. <<nack>> \in Seq(OpenReplies)
    BY <2>2, OpenWindow, ReplyIs
  <2>4. CASE \E s \in SeqNums, p \in {NoPayload, Garbage} :
               Accept([toReceiver[i] EXCEPT !.seqnum = s, !.payload = p], <<nack>>)
    <3>1. PICK s \in SeqNums, p \in {NoPayload, Garbage} :
            Accept([toReceiver[i] EXCEPT !.seqnum = s, !.payload = p], <<nack>>)
      BY <2>4
    <3>2. [toReceiver[i] EXCEPT !.seqnum = s, !.payload = p] \in Packets
      BY <2>1, OpenReceiverAssumption DEF Packets
    <3> QED BY <1>0, <2>3, <3>1, <3>2, AcceptInductive
  <2>5. CASE /\ receiverPc' = "aborted"
             /\ \E p \in {NoPayload, Garbage} :
                  WriteOut([toReceiver[i] EXCEPT !.payload = p])
             /\ SendReplies(<<nack>>)
             /\ UNCHANGED <<expectedSeqnum, window, receivingStack>>
    <3>1. toSender' \in Seq(OpenReplies) /\ receiverRefused' \in BOOLEAN
      BY <2>3, <2>5, SendRepliesType DEF IInv, TypeOK
    <3>2. toSender' \in Seq(Replies)
      BY <3>1, SeqMonotonic DEF OpenReplies
    <3>3. PICK p \in {NoPayload, Garbage} :
            WriteOut([toReceiver[i] EXCEPT !.payload = p])
      BY <2>5
    <3>4. [toReceiver[i] EXCEPT !.payload = p] \in Packets
      BY <2>1, OpenReceiverAssumption DEF Packets
    <3>5. output' \in Seq(Payloads \cup {Garbage})
      BY <3>3, <3>4, WriteOutType DEF IInv, TypeOK
    <3>6. TypeOK'
      BY <1>0, <2>5, <3>1, <3>2, <3>5 DEF IInv, TypeOK, ReceiverPcs
    <3> QED
      BY <2>5, <3>1, <3>6
      DEF IInv, NoDuplicateBuffered, BufferedAhead, WindowAccurate
  <2> QED BY <1>5, <2>4, <2>5 DEF ReceiveTruncated
<1>6. CASE ReceiveDamaged(i)
  <2>1. <<Reply("NACK", expectedSeqnum, window)>> \in Seq(OpenReplies)
    BY <1>2, OpenWindow, ReplyIs
  <2>2. /\ SendReplies(<<Reply("NACK", expectedSeqnum, window)>>)
        /\ UNCHANGED receiverVars
    BY <1>6 DEF ReceiveDamaged
  <2> QED BY <1>0, <2>1, <2>2, AnswerInductive
<1> QED BY <1>3, <1>4, <1>5, <1>6

\* A failed read is answered, and changes nothing else.
LEMMA ReceiveFailsInductive == IInv /\ ReceiveFails => IInv'
<1> SUFFICES ASSUME IInv, ReceiveFails PROVE IInv'
  OBVIOUS
<1>1. /\ toSender' = Put(toSender, <<Reply("NACK", expectedSeqnum, window)>>)
      /\ receiverRefused' = FALSE
      /\ UNCHANGED <<receiverVars, toReceiver, refused, faults>>
  BY DEF ReceiveFails
<1>2. toSender' \in Seq(OpenReplies)
  <2>1. <<Reply("NACK", expectedSeqnum, window)>> \in Seq(OpenReplies)
    BY OpenWindow, ReplyIs DEF IInv, TypeOK
  <2> QED BY <1>1, <2>1, PutType DEF IInv
<1>3. toSender' \in Seq(Replies)
  BY <1>2, SeqMonotonic DEF OpenReplies
<1>4. TypeOK'
  BY <1>1, <1>3 DEF IInv, TypeOK, receiverVars
<1> QED
  BY <1>1, <1>2, <1>4
  DEF IInv, NoDuplicateBuffered, BufferedAhead, WindowAccurate, receiverVars

\* One packet leaves the buffer and is written.
LEMMA DrainInductive == IInv /\ Drain => IInv'
<1> SUFFICES ASSUME IInv, Drain PROVE IInv'
  OBVIOUS
<1> DEFINE new == receivingStack'
           e == expectedSeqnum
<1>1. /\ receiverPc = "drain" /\ is_in_stack(receivingStack, e)
      /\ new = stack_remove(receivingStack, e)
      /\ expectedSeqnum' = Incr(e)
      /\ window' = MAX_WINDOW_SIZE - Len(new)
      /\ WriteOut(stack_get_pkt(receivingStack, e))
      /\ UNCHANGED <<receiverPc, toReceiver, toSender, refused, receiverRefused, faults>>
  BY DEF Drain, networkVars
<1>2. /\ new \in Seq(Packets) /\ Distinct(new) /\ Ahead(new, Incr(e), 0)
      /\ Len(new) = Len(receivingStack) - 1 /\ expectedSeqnum' \in SeqNums
  BY <1>1, BufferIs, RemoveAhead, IncrType
<1>3. stack_get_pkt(receivingStack, e) \in Packets
  <2>1. \E p \in 1 .. Len(receivingStack) :
          stack_get_pkt(receivingStack, e) = receivingStack[p]
    BY <1>1, BufferIs, RemoveIs
  <2> QED BY <2>1, BufferIs, ElementOfSeq
<1>4. output' \in Seq(Payloads \cup {Garbage})
  BY <1>1, <1>3, WriteOutType DEF IInv, TypeOK
<1>5. Len(new) \in Nat /\ Len(receivingStack) \in Nat
  BY <1>2, BufferIs, LenProperties
<1> HIDE DEF new, e
<1>6. Len(new) < MAX_WINDOW_SIZE /\ window' \in 0 .. MAX_WINDOW_SIZE
  BY <1>1, <1>2, <1>5, SeqNumAssumption DEF IInv
<1>7. TypeOK'
  BY <1>1, <1>2, <1>4, <1>6 DEF IInv, TypeOK, new
<1>8. NoDuplicateBuffered' /\ BufferedAhead'
  BY <1>1, <1>2, BufferInductive DEF new, e
<1> QED BY <1>1, <1>6, <1>7, <1>8 DEF IInv, WindowAccurate, new

\* The buffer no longer holds the awaited packet.
LEMMA DrainedInductive == IInv /\ Drained => IInv'
<1> SUFFICES ASSUME IInv, Drained PROVE IInv'
  OBVIOUS
<1>1. /\ receiverPc' = "select" /\ ~is_in_stack(receivingStack, expectedSeqnum)
      /\ SendReplies(<<Reply("ACK", expectedSeqnum, window)>>)
      /\ UNCHANGED <<expectedSeqnum, window, receivingStack, output,
                     toReceiver, refused, faults>>
  BY DEF Drained
<1>2. /\ expectedSeqnum \in SeqNums /\ toSender \in Seq(OpenReplies)
      /\ receiverRefused \in BOOLEAN
  BY DEF IInv, TypeOK
<1>3. toSender' \in Seq(OpenReplies) /\ receiverRefused' \in BOOLEAN
  <2>1. <<Reply("ACK", expectedSeqnum, window)>> \in Seq(OpenReplies)
    BY <1>2, OpenWindow, ReplyIs
  <2> QED BY <1>1, <1>2, <2>1, SendRepliesType
<1>4. toSender' \in Seq(Replies)
  BY <1>3, SeqMonotonic DEF OpenReplies
<1>5. TypeOK'
  BY <1>1, <1>3, <1>4 DEF IInv, TypeOK, ReceiverPcs
<1>6. Ahead(receivingStack, expectedSeqnum, 1) /\ Distinct(receivingStack)
  BY <1>1, BufferIs, AbsentAhead DEF Ahead
<1>7. NoDuplicateBuffered' /\ BufferedAhead'
  BY <1>1, <1>6, BufferInductive
<1> QED BY <1>1, <1>3, <1>5, <1>7 DEF IInv, WindowAccurate

LEMMA PeerSendsInductive == IInv /\ PeerSends => IInv'
<1> SUFFICES ASSUME IInv, PeerSends PROVE IInv'
  OBVIOUS
<1>1. PICK d \in Datagrams : toReceiver' = Put(toReceiver, <<d>>)
  BY DEF PeerSends
<1>2. toReceiver' \in Seq(Datagrams)
  <2>1. <<d>> \in Seq(Datagrams) /\ toReceiver \in Seq(Datagrams)
    BY DEF IInv, TypeOK
  <2> QED BY <1>1, <2>1, PutType
<1>3. toSender' = <<>> /\ UNCHANGED <<receiverVars, refused, receiverRefused, faults>>
  BY DEF PeerSends
<1>4. toSender' \in Seq(OpenReplies) /\ toSender' \in Seq(Replies)
  BY <1>3, EmptySeq
<1>5. TypeOK'
  BY <1>2, <1>3, <1>4 DEF IInv, TypeOK, receiverVars
<1> QED
  BY <1>3, <1>4, <1>5
  DEF IInv, NoDuplicateBuffered, BufferedAhead, WindowAccurate, receiverVars

LEMMA PeerRefusesInductive == IInv /\ PeerRefuses => IInv'
<1> SUFFICES ASSUME IInv, PeerRefuses PROVE IInv'
  OBVIOUS
<1>1. /\ toSender' = <<>> /\ receiverRefused' = TRUE
      /\ UNCHANGED <<receiverVars, toReceiver, refused, faults>>
  BY DEF PeerRefuses
<1>2. toSender' \in Seq(OpenReplies) /\ toSender' \in Seq(Replies)
  BY <1>1, EmptySeq
<1>3. TypeOK'
  BY <1>1, <1>2 DEF IInv, TypeOK, receiverVars
<1> QED
  BY <1>1, <1>2, <1>3
  DEF IInv, NoDuplicateBuffered, BufferedAhead, WindowAccurate, receiverVars

LEMMA LaunchInductive == IInv /\ Launch => IInv'
<1> SUFFICES ASSUME IInv, Launch PROVE IInv'
  OBVIOUS
<1>1. /\ receiverPc' = "select" /\ receivingStack = <<>>
      /\ UNCHANGED <<expectedSeqnum, window, receivingStack, output,
                     toReceiver, toSender, refused, receiverRefused, faults>>
  BY DEF IInv, Launch, networkVars
<1>2. TypeOK'
  BY <1>1 DEF IInv, TypeOK, ReceiverPcs
<1>3. BufferedAhead'
  BY <1>1 DEF BufferedAhead
<1> QED BY <1>1, <1>2, <1>3 DEF IInv, NoDuplicateBuffered, WindowAccurate

LEMMA NextInductive == IInv /\ [Next]_vars => IInv'
<1> SUFFICES ASSUME IInv, [Next]_vars PROVE IInv'
  OBVIOUS
<1>1. CASE Launch
  BY <1>1, LaunchInductive
<1>2. CASE \E i \in 1 .. Len(toReceiver) :
             \/ ReceiveLast(i) \/ ReceiveData(i)
             \/ ReceiveTruncated(i) \/ ReceiveDamaged(i)
  BY <1>2, ReceiveInductive
<1>3. CASE Drain
  BY <1>3, DrainInductive
<1>4. CASE Drained
  BY <1>4, DrainedInductive
<1>5. CASE PeerSends
  BY <1>5, PeerSendsInductive
<1>6. CASE ReceiveFails
  BY <1>6, ReceiveFailsInductive
<1>7. CASE PeerRefuses
  BY <1>7, PeerRefusesInductive
<1>8. CASE UNCHANGED vars
  BY <1>8
  DEF IInv, TypeOK, NoDuplicateBuffered, BufferedAhead, WindowAccurate,
      vars, receiverVars, networkVars
<1> QED BY <1>1, <1>2, <1>3, <1>4, <1>5, <1>6, <1>7, <1>8 DEF Next, ReceiverStep

\* The inductive invariant holds in every state of the receiver, whatever its
\* peer sends.
THEOREM Inductive == Spec => []IInv
<1> QED BY InitInductive, NextInductive, PTL DEF Spec

-----------------------------------------------------------------------------
\* Every variable keeps its type, whatever the peer sends and whatever is read
\* of a freed packet (read_write_loop_receiver.c:146-196): in particular every
\* reply the receiver sends can be encoded, its window fits its field.
THEOREM TypeCorrect == Spec => []TypeOK
<1>1. IInv => TypeOK
  BY DEF IInv
<1> QED BY <1>1, Inductive, PTL

\* A sequence number is at most once in the buffer: the look-ups of stack.c by
\* number (lines 53-136) are unambiguous for the receiver.
THEOREM BufferIsDistinct == Spec => []NoDuplicateBuffered
<1>1. IInv => NoDuplicateBuffered
  BY DEF IInv
<1> QED BY <1>1, Inductive, PTL

\* What is buffered is ahead of the awaited packet by less than a window, for
\* every size of the window up to half the sequence number space: emptying the
\* buffer (lines 159-173) forgets nothing that could be written, and nothing
\* left in it is taken for a packet of the next lap.
THEOREM BufferIsAhead == Spec => []BufferedAhead
<1>1. IInv => BufferedAhead
  BY DEF IInv
<1> QED BY <1>1, Inductive, PTL

\* The window advertised is the room left in the buffer (lines 172 and 187).
THEOREM WindowIsAccurate == Spec => []WindowAccurate
<1>1. IInv => WindowAccurate
  BY DEF IInv
<1> QED BY <1>1, Inductive, PTL

\* The receiver never tells its peer to stop: the buffer is never full, since
\* the packets in it are distinct and the awaited one is not among them when a
\* packet is put there (pigeonhole).
THEOREM WindowNeverZero == Spec => []NeverZeroWindow
<1>1. IInv => NeverZeroWindow
  <2> SUFFICES ASSUME IInv, NEW i \in 1 .. Len(toSender)
               PROVE  toSender[i].window > 0
    BY DEF NeverZeroWindow
  <2>1. toSender[i] \in OpenReplies
    BY ElementOfSeq DEF IInv
  <2> QED BY <2>1 DEF OpenReplies
<1> QED BY <1>1, Inductive, PTL

=============================================================================
