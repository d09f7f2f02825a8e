------------------------------- MODULE Sender -------------------------------
(***************************************************************************)
(* The sender: main() and read_file() of sender.c, and the loop of         *)
(* read_write_loop_sender.c.                                               *)
(*                                                                         *)
(* One iteration of the loop is two steps: the transmission it may make,   *)
(* then the wait, which ends when a response is read, when the timer of a  *)
(* packet has expired, or at once if the receiver's window is open.        *)
(***************************************************************************)
EXTENDS Stack, Network

CONSTANTS
  Blocks,       \* number of blocks of MAX_PAYLOAD_SIZE bytes in the file
  LastTimeouts  \* 5 in the code: timeouts of the terminating packet accepted

ASSUME SenderAssumption == Blocks \in Nat /\ LastTimeouts \in Nat

VARIABLES
  senderPc,                \* where the program stands, see SenderPcs
  sendingStack,            \* packets not acknowledged; sent: timestamp # 0
  seqnumToSend,            \* the next transmission
  lastEncodedSeqnum,       \* the last transmission that was not a repetition
  lastSeqnumAcked,         \* the sequence number of the last ACK read
  lastSeqnumAckedCounter,  \* how many times it came again; stays at 3
  receiverWindowSize,      \* what is left of the window advertised
  totalPacketsToSend,      \* packets on the stack when the loop was entered
  totalPacketsSent,        \* of these, how many have been transmitted
  resending,               \* hasRTed || hasNACKed || hasFastRetransmitted
  lastpacketsSentCount     \* timeouts of the terminating packet

senderVars ==
  <<senderPc, sendingStack, seqnumToSend, lastEncodedSeqnum, lastSeqnumAcked,
    lastSeqnumAckedCounter, receiverWindowSize, totalPacketsToSend,
    totalPacketsSent, resending, lastpacketsSentCount>>

\* send: top of the loop; wait: in select() or about to be; done: past the loop.
SenderPcs == {"send", "wait", "done"}

\* read_file: one packet per block, then the terminating packet.
FilePacket(k) ==
  [seqnum |-> (k - 1) % SeqSpace,
   payload |-> IF k <= Blocks THEN k ELSE NoPayload,
   sent |-> FALSE]

FilePackets == [k \in 1 .. Blocks + 1 |-> FilePacket(k)]

\* What the beginning of read_write_loop_sender sets. The flags and
\* lastpacketsSentCount are initialised once, with the program.
SenderInit ==
  /\ senderPc = "send"
  /\ sendingStack = FilePackets
  /\ seqnumToSend = 0
  /\ lastEncodedSeqnum = 0
  /\ lastSeqnumAcked = 0
  /\ lastSeqnumAckedCounter = 0
  /\ receiverWindowSize = 1
  /\ totalPacketsToSend = Len(sendingStack)
  /\ totalPacketsSent = 0
  /\ resending = FALSE
  /\ lastpacketsSentCount = 0

-----------------------------------------------------------------------------
\* Faulty: never waits.
HoldLastNever == FALSE

\* Faulty: waits even when nothing else is left to acknowledge.
HoldLastAlways ==
  /\ Len(sendingStack) < SeqSpace
  /\ is_in_stack(sendingStack, seqnumToSend)
  /\ stack_get_pkt(sendingStack, seqnumToSend).payload = NoPayload

\* The terminating packet waits until everything before it is acknowledged.
HoldLast ==
  /\ Len(sendingStack) < SeqSpace
  /\ seqnumToSend # lastSeqnumAcked
  /\ is_in_stack(sendingStack, seqnumToSend)
  /\ stack_get_pkt(sendingStack, seqnumToSend).payload = NoPayload

MaySend ==
  /\ ~HoldLast
  /\ InWindow(lastSeqnumAcked, seqnumToSend)
  /\ receiverWindowSize > 0 \/ resending
  /\ is_in_stack(sendingStack, seqnumToSend)

SkipSend ==
  /\ senderPc = "send"
  /\ ~MaySend
  /\ senderPc' = "wait"
  /\ UNCHANGED <<sendingStack, seqnumToSend, lastEncodedSeqnum, lastSeqnumAcked,
                 lastSeqnumAckedCounter, receiverWindowSize, totalPacketsToSend,
                 totalPacketsSent, resending, lastpacketsSentCount, networkVars>>

Segment(pkt) ==
  [code |-> "PKT_OK", type |-> "DATA", seqnum |-> pkt.seqnum,
   payload |-> pkt.payload, tr |-> 0]

\* write() on the socket. It fails, and sends nothing, when an error waits
\* there; the loop prints "Write failed" and goes on as if it had been sent.
Write(msg) ==
  \/ refused /\ refused' = FALSE /\ UNCHANGED <<toReceiver, toSender, receiverRefused, faults>>
  \/ ~refused /\ toReceiver' = Put(toReceiver, <<msg>>)
     /\ UNCHANGED <<toSender, refused, receiverRefused, faults>>

\* Lines 116-139: the first transmission of a packet is counted.
Transmit ==
  LET p == FirstPosition(sendingStack, seqnumToSend)
  IN  /\ sendingStack' = [sendingStack EXCEPT ![p].sent = TRUE]
      /\ totalPacketsSent' = totalPacketsSent + (IF sendingStack[p].sent THEN 0 ELSE 1)
      /\ Write(Segment(sendingStack[p]))

SendNext ==
  /\ senderPc = "send"
  /\ MaySend
  /\ ~resending
  /\ Transmit
  /\ lastEncodedSeqnum' = seqnumToSend
  /\ seqnumToSend' = Incr(seqnumToSend)
  /\ receiverWindowSize' = receiverWindowSize - 1
  /\ senderPc' = "wait"
  /\ UNCHANGED <<lastSeqnumAcked, lastSeqnumAckedCounter, totalPacketsToSend,
                 resending, lastpacketsSentCount>>

\* Faulty: skips a packet when it goes on after a repetition.
SendAgainSkips ==
  /\ senderPc = "send"
  /\ MaySend
  /\ resending
  /\ Transmit
  /\ seqnumToSend' = Incr(Incr(lastEncodedSeqnum))
  /\ resending' = FALSE
  /\ senderPc' = "wait"
  /\ UNCHANGED <<lastEncodedSeqnum, lastSeqnumAcked, lastSeqnumAckedCounter,
                 receiverWindowSize, totalPacketsToSend, lastpacketsSentCount>>

\* A repetition does not use the window, and the loop restarts where it left.
SendAgain ==
  /\ senderPc = "send"
  /\ MaySend
  /\ resending
  /\ Transmit
  /\ seqnumToSend' = Incr(lastEncodedSeqnum)
  /\ resending' = FALSE
  /\ senderPc' = "wait"
  /\ UNCHANGED <<lastEncodedSeqnum, lastSeqnumAcked, lastSeqnumAckedCounter,
                 receiverWindowSize, totalPacketsToSend, lastpacketsSentCount>>

-----------------------------------------------------------------------------
\* The sequence number of the ACK of the terminating packet.
LastAck == totalPacketsToSend % SeqSpace

\* Lines 185-190 and the condition of the loop; mainBreak: the wait asks to
\* leave the loop.
EndOfIteration(mainBreak) ==
  LET leaves ==
        \/ lastpacketsSentCount' > LastTimeouts
        \/ sendingStack' = <<>>
        \/ mainBreak /\ ~(lastSeqnumAcked' # LastAck /\ Len(sendingStack') < SeqSpace)
  IN  senderPc' = IF leaves THEN "done" ELSE "send"

\* read() answers a pending error before the datagrams that have arrived.
ReadFails ==
  /\ senderPc = "wait"
  /\ refused
  /\ refused' = FALSE
  /\ UNCHANGED <<toReceiver, toSender, receiverRefused, faults>>

\* The receiver is supposed to have closed: everything has been transmitted.
ReceiverGone ==
  /\ ReadFails
  /\ totalPacketsToSend = totalPacketsSent
  /\ UNCHANGED <<sendingStack, seqnumToSend, lastEncodedSeqnum, lastSeqnumAcked,
                 lastSeqnumAckedCounter, receiverWindowSize, totalPacketsToSend,
                 totalPacketsSent, resending, lastpacketsSentCount>>
  /\ EndOfIteration(TRUE)

\* The receiver is supposed not to be launched: main() calls the loop again,
\* on what is left of the stack. It never gives up: its counter stays at 9.
TryAgain ==
  /\ ReadFails
  /\ totalPacketsToSend # totalPacketsSent
  /\ senderPc' = "send"
  /\ seqnumToSend' = 0
  /\ lastEncodedSeqnum' = 0
  /\ lastSeqnumAcked' = 0
  /\ lastSeqnumAckedCounter' = 0
  /\ receiverWindowSize' = 1
  /\ totalPacketsToSend' = Len(sendingStack)
  /\ totalPacketsSent' = 0
  /\ UNCHANGED <<sendingStack, resending, lastpacketsSentCount>>

\* The response select() and read() hand to this iteration.
Responds(i) ==
  /\ senderPc = "wait"
  /\ ~refused
  /\ i \in Arriving(toSender)
  /\ toSender' = Take(toSender, i)
  /\ UNCHANGED <<toReceiver, refused, receiverRefused, faults>>

\* Lines 252-262: the third copy of an ACK asks for a fast retransmission.
CountAck(s) ==
  \/ /\ s = lastSeqnumAcked
     /\ lastSeqnumAckedCounter' =
          IF lastSeqnumAckedCounter < 3 THEN lastSeqnumAckedCounter + 1 ELSE 3
     /\ IF lastSeqnumAckedCounter + 1 = 2
        THEN seqnumToSend' = lastSeqnumAcked /\ resending' = TRUE
        ELSE UNCHANGED <<seqnumToSend, resending>>
     /\ UNCHANGED lastSeqnumAcked
  \/ /\ s # lastSeqnumAcked
     /\ lastSeqnumAckedCounter' = 0
     /\ lastSeqnumAcked' = s
     /\ UNCHANGED <<seqnumToSend, resending>>

\* Line 266: the ACK of the terminating packet, or of a packet transmitted.
Acknowledges(s) ==
  \/ s = LastAck
  \/ /\ is_in_stack(sendingStack, Decr(s))
     /\ stack_get_pkt(sendingStack, Decr(s)).sent

ReceiveAck(i) ==
  LET ack == toSender[i]
  IN  /\ Responds(i)
      /\ ack.code = "PKT_OK"
      /\ ack.type = "ACK"
      /\ receiverWindowSize' = ack.window
      /\ CountAck(ack.seqnum)
      /\ sendingStack' = IF Acknowledges(ack.seqnum)
                         THEN stack_remove_acked(sendingStack, ack.seqnum)
                         ELSE sendingStack
      /\ UNCHANGED <<lastEncodedSeqnum, totalPacketsToSend, totalPacketsSent,
                     lastpacketsSentCount>>
      /\ EndOfIteration(ack.seqnum = LastAck /\ Len(sendingStack') = 1)

ReceiveNack(i) ==
  LET nack == toSender[i]
  IN  /\ Responds(i)
      /\ nack.code = "PKT_OK"
      /\ nack.type = "NACK"
      /\ receiverWindowSize' = nack.window
      /\ seqnumToSend' = nack.seqnum
      /\ resending' = TRUE
      /\ UNCHANGED <<sendingStack, lastEncodedSeqnum, lastSeqnumAcked,
                     lastSeqnumAckedCounter, totalPacketsToSend,
                     totalPacketsSent, lastpacketsSentCount>>
      /\ EndOfIteration(nack.seqnum = LastAck /\ Len(sendingStack) = 1)

ReceiveGarbage(i) ==
  /\ Responds(i)
  /\ toSender[i].code # "PKT_OK"
  /\ UNCHANGED <<sendingStack, seqnumToSend, lastEncodedSeqnum, lastSeqnumAcked,
                 lastSeqnumAckedCounter, receiverWindowSize, totalPacketsToSend,
                 totalPacketsSent, resending, lastpacketsSentCount>>
  /\ EndOfIteration(FALSE)

-----------------------------------------------------------------------------
\* Faulty: stops before the last packet.
TimedButLast ==
  {k \in 1 .. Len(sendingStack) - 1 : \A j \in 1 .. k : sendingStack[j].sent}

\* check_for_RT walks over the packets from the first one on, and stops at one
\* that has not been transmitted.
Timed == {k \in 1 .. Len(sendingStack) : \A j \in 1 .. k : sendingStack[j].sent}

\* Nothing has arrived, and the first expired timer is that of the k-th packet.
\* The packets before it may have been repeated since, so it can be any.
Expire(k) ==
  /\ senderPc = "wait"
  /\ ~refused
  /\ k \in Timed
  /\ seqnumToSend' = sendingStack[k].seqnum
  /\ resending' = TRUE
  /\ lastpacketsSentCount' =
       lastpacketsSentCount + (IF Len(sendingStack) = 1 THEN 1 ELSE 0)
  /\ UNCHANGED <<sendingStack, lastEncodedSeqnum, lastSeqnumAcked,
                 lastSeqnumAckedCounter, receiverWindowSize, totalPacketsToSend,
                 totalPacketsSent, networkVars>>
  /\ EndOfIteration(FALSE)

\* Nothing has arrived and no timer has expired: the wait ends if the window
\* is open. A datagram on its way need not have arrived.
Idle ==
  /\ senderPc = "wait"
  /\ ~refused
  /\ receiverWindowSize > 0
  /\ UNCHANGED <<sendingStack, seqnumToSend, lastEncodedSeqnum, lastSeqnumAcked,
                 lastSeqnumAckedCounter, receiverWindowSize, totalPacketsToSend,
                 totalPacketsSent, resending, lastpacketsSentCount, networkVars>>
  /\ EndOfIteration(FALSE)

process_response(i) == ReceiveAck(i) \/ ReceiveNack(i) \/ ReceiveGarbage(i)

SenderStep ==
  \/ SkipSend
  \/ SendNext
  \/ SendAgain
  \/ ReceiverGone
  \/ TryAgain
  \/ \E i \in 1 .. Len(toSender) : process_response(i)
  \/ Idle

=============================================================================
