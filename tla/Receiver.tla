------------------------------ MODULE Receiver ------------------------------
(***************************************************************************)
(* The receiver: receiver.c and read_write_loop_receiver.c.                *)
(*                                                                         *)
(* One action per outcome of one iteration of the loop.  The iteration     *)
(* that receives the awaited packet goes on to empty the buffer of what    *)
(* follows it, one write() per packet, before it answers: receiverPc is    *)
(* "drain" while it does.                                                  *)
(***************************************************************************)
EXTENDS Stack, Network

CONSTANT
  WritesMayFail  \* TRUE when a write() of the output may fail: the disk is full,
                 \* or main() has not looked at what open() gave

ASSUME ReceiverAssumption == WritesMayFail \in BOOLEAN

VARIABLES
  receiverPc,      \* where the program stands, see ReceiverPcs
  expectedSeqnum,  \* the sequence number awaited
  window,          \* the window the next reply advertises
  receivingStack,  \* packets received ahead of the awaited one
  output           \* the payloads written to outputFileDescriptor

receiverVars == <<receiverPc, expectedSeqnum, window, receivingStack, output>>

\* down: not launched; select: waiting for a datagram; drain: emptying the
\* buffer; closed: past the loop, socket closed; aborted: killed by the C
\* library on a double free.
ReceiverPcs == {"down", "select", "drain", "closed", "aborted"}

ReceiverInit ==
  /\ receiverPc = "down"
  /\ expectedSeqnum = 0
  /\ window = MAX_WINDOW_SIZE
  /\ receivingStack = <<>>
  /\ output = <<>>

\* create_socket binds the port, from then on datagrams are queued, and
\* wait_for_client takes the source of the first one without consuming it.
Launch ==
  /\ receiverPc = "down"
  /\ receiverPc' = "select"
  /\ UNCHANGED <<expectedSeqnum, window, receivingStack, output, networkVars>>

-----------------------------------------------------------------------------
\* send_reply: the reply carries the window as it is when the reply is sent.
Reply(type, s, w) == [code |-> "PKT_OK", type |-> type, seqnum |-> s, window |-> w]

\* send() of the replies of one iteration.  When an error waits on the socket
\* the first one is not sent: send() reports the error, and the loop goes on.
SendReplies(replies) ==
  IF receiverRefused /\ replies # <<>>
    THEN toSender' = Put(toSender, Tail(replies)) /\ receiverRefused' = FALSE
    ELSE toSender' = Put(toSender, replies) /\ UNCHANGED receiverRefused

\* The terminating packet is acknowledged this many times.
LastAcks == 5

Written(pkt) ==
  IF pkt.payload = NoPayload THEN output ELSE Append(output, pkt.payload)

\* write() of a payload: a failure is printed, and the packet counts as written.
WriteOut(pkt) ==
  \/ output' = Written(pkt)
  \/ WritesMayFail /\ UNCHANGED output

\* The datagram select() and read() hand to this iteration.  An error that is
\* pending here has come after the read(), which would have reported it: see
\* ReceiveFails.
Reads(i) ==
  /\ receiverPc = "select"
  /\ i \in Arriving(toReceiver)
  /\ toReceiver' = Take(toReceiver, i)
  /\ UNCHANGED <<refused, faults>>

\* Faulty: does not compare the packet with the awaited one.
AcceptExpectedUnchecked(pkt, replies) ==
  /\ WriteOut(pkt)
  /\ expectedSeqnum' = Incr(expectedSeqnum)
  /\ receiverPc' = "drain"
  /\ SendReplies(replies)
  /\ UNCHANGED <<window, receivingStack>>

\* Lines 150-196 for a packet pkt, after the iteration has sent replies.
AcceptExpected(pkt, replies) ==
  /\ pkt.seqnum = expectedSeqnum
  /\ WriteOut(pkt)
  /\ expectedSeqnum' = Incr(expectedSeqnum)
  /\ receiverPc' = "drain"
  /\ SendReplies(replies)
  /\ UNCHANGED <<window, receivingStack>>

\* Faulty: does not look whether the packet is already buffered.
AcceptAheadUnchecked(pkt, replies) ==
  /\ pkt.seqnum # expectedSeqnum
  /\ InWindow(expectedSeqnum, pkt.seqnum)
  /\ receivingStack' = stack_enqueue(receivingStack, pkt)
  /\ window' = MAX_WINDOW_SIZE - Len(receivingStack')
  /\ SendReplies(replies \o <<Reply("ACK", expectedSeqnum, window')>>)
  /\ UNCHANGED <<receiverPc, expectedSeqnum, output>>

\* Faulty: acknowledges the packet received, not what is written.
AcceptAheadEcho(pkt, replies) ==
  /\ pkt.seqnum # expectedSeqnum
  /\ InWindow(expectedSeqnum, pkt.seqnum)
  /\ ~is_in_stack(receivingStack, pkt.seqnum)
  /\ receivingStack' = stack_enqueue(receivingStack, pkt)
  /\ window' = MAX_WINDOW_SIZE - Len(receivingStack')
  /\ SendReplies(replies \o <<Reply("ACK", Incr(pkt.seqnum), window')>>)
  /\ UNCHANGED <<receiverPc, expectedSeqnum, output>>

AcceptAhead(pkt, replies) ==
  /\ pkt.seqnum # expectedSeqnum
  /\ InWindow(expectedSeqnum, pkt.seqnum)
  /\ ~is_in_stack(receivingStack, pkt.seqnum)
  /\ receivingStack' = stack_enqueue(receivingStack, pkt)
  /\ window' = MAX_WINDOW_SIZE - Len(receivingStack')
  /\ SendReplies(replies \o <<Reply("ACK", expectedSeqnum, window')>>)
  /\ UNCHANGED <<receiverPc, expectedSeqnum, output>>

\* Already buffered: the packet is dropped and nothing is answered.
AcceptAgain(pkt, replies) ==
  /\ pkt.seqnum # expectedSeqnum
  /\ InWindow(expectedSeqnum, pkt.seqnum)
  /\ is_in_stack(receivingStack, pkt.seqnum)
  /\ SendReplies(replies)
  /\ UNCHANGED receiverVars

\* Faulty: acknowledges the packet received, not what is written.
AcceptOutsideEcho(pkt, replies) ==
  /\ ~InWindow(expectedSeqnum, pkt.seqnum)
  /\ SendReplies(replies \o <<Reply("ACK", Incr(pkt.seqnum), window)>>)
  /\ UNCHANGED receiverVars

AcceptOutside(pkt, replies) ==
  /\ ~InWindow(expectedSeqnum, pkt.seqnum)
  /\ SendReplies(replies \o <<Reply("ACK", expectedSeqnum, window)>>)
  /\ UNCHANGED receiverVars

Accept(pkt, replies) ==
  \/ AcceptExpected(pkt, replies)
  \/ AcceptAhead(pkt, replies)
  \/ AcceptAgain(pkt, replies)
  \/ AcceptOutside(pkt, replies)

-----------------------------------------------------------------------------
\* The terminating packet: no payload, and everything before it is written.
IsLast(pkt) ==
  /\ pkt.type = "DATA"
  /\ pkt.payload = NoPayload
  /\ pkt.tr = 0
  /\ pkt.seqnum = expectedSeqnum

ReceiveLast(i) ==
  /\ Reads(i)
  /\ toReceiver[i].code = "PKT_OK"
  /\ IsLast(toReceiver[i])
  /\ expectedSeqnum' = Incr(expectedSeqnum)
  /\ SendReplies([n \in 1 .. LastAcks |-> Reply("ACK", expectedSeqnum', window)])
  /\ receiverPc' = "closed"
  /\ UNCHANGED <<window, receivingStack, output>>

ReceiveData(i) ==
  /\ Reads(i)
  /\ toReceiver[i].code = "PKT_OK"
  /\ ~IsLast(toReceiver[i])
  /\ toReceiver[i].tr = 0
  /\ Accept(toReceiver[i], <<>>)

\* What a read of freed memory may yield for a payload.
Garbage == -1

\* A header marked truncated that pkt_decode accepts: the iteration refuses
\* it, frees it, and goes on with the freed packet.  What it then reads is
\* undefined: any sequence number, some bytes or none; freeing it a second
\* time, after the write, may abort the program.
ReceiveTruncated(i) ==
  LET nack == Reply("NACK", toReceiver[i].seqnum, window)
  IN  /\ Reads(i)
      /\ toReceiver[i].code = "PKT_OK"
      /\ toReceiver[i].tr = 1
      /\ \/ \E s \in SeqNums, p \in {NoPayload, Garbage} :
              Accept([toReceiver[i] EXCEPT !.seqnum = s, !.payload = p], <<nack>>)
         \/ /\ receiverPc' = "aborted"
            /\ \E p \in {NoPayload, Garbage} :
                 WriteOut([toReceiver[i] EXCEPT !.payload = p])
            /\ SendReplies(<<nack>>)
            /\ UNCHANGED <<expectedSeqnum, window, receivingStack>>

ReceiveDamaged(i) ==
  /\ Reads(i)
  /\ toReceiver[i].code # "PKT_OK"
  /\ SendReplies(<<Reply("NACK", expectedSeqnum, window)>>)
  /\ UNCHANGED receiverVars

\* read() reports an error that waits on the socket, and gives nothing.  The
\* zeroed buffer is decoded all the same, which fails, and is answered; if the
\* sender is gone that reply is refused too.
ReceiveFails ==
  /\ receiverPc = "select"
  /\ receiverRefused
  /\ receiverRefused' = FALSE
  /\ toSender' = Put(toSender, <<Reply("NACK", expectedSeqnum, window)>>)
  /\ UNCHANGED <<receiverVars, toReceiver, refused, faults>>

\* Faulty: does not give back the room of the packet written.
DrainStaleWindow ==
  /\ receiverPc = "drain"
  /\ is_in_stack(receivingStack, expectedSeqnum)
  /\ WriteOut(stack_get_pkt(receivingStack, expectedSeqnum))
  /\ receivingStack' = stack_remove(receivingStack, expectedSeqnum)
  /\ expectedSeqnum' = Incr(expectedSeqnum)
  /\ UNCHANGED <<receiverPc, window, networkVars>>

\* One turn of the loop that writes the buffered packets that now follow.
Drain ==
  /\ receiverPc = "drain"
  /\ is_in_stack(receivingStack, expectedSeqnum)
  /\ WriteOut(stack_get_pkt(receivingStack, expectedSeqnum))
  /\ receivingStack' = stack_remove(receivingStack, expectedSeqnum)
  /\ expectedSeqnum' = Incr(expectedSeqnum)
  /\ window' = MAX_WINDOW_SIZE - Len(receivingStack')
  /\ UNCHANGED <<receiverPc, networkVars>>

\* Its end: the cumulative acknowledgment of everything written.
Drained ==
  /\ receiverPc = "drain"
  /\ ~is_in_stack(receivingStack, expectedSeqnum)
  /\ SendReplies(<<Reply("ACK", expectedSeqnum, window)>>)
  /\ receiverPc' = "select"
  /\ UNCHANGED <<expectedSeqnum, window, receivingStack, output,
                 toReceiver, refused, faults>>

ReceiverStep ==
  \/ Launch
  \/ \E i \in 1 .. Len(toReceiver) :
       \/ ReceiveLast(i)
       \/ ReceiveData(i)
       \/ ReceiveTruncated(i)
       \/ ReceiveDamaged(i)
  \/ ReceiveFails
  \/ Drain
  \/ Drained

=============================================================================
