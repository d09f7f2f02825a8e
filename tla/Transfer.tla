------------------------------ MODULE Transfer ------------------------------
(***************************************************************************)
(* A sender and a receiver over the network: the whole system.             *)
(***************************************************************************)
EXTENDS Sender, Receiver

CONSTANT
  TimelyNetwork  \* TRUE when RTlength is longer than a round trip, as the
                 \* comment beside it says (max(RTT) * 2)

ASSUME TransferAssumption == TimelyNetwork \in BOOLEAN

vars == <<senderVars, receiverVars, networkVars>>

Init == SenderInit /\ ReceiverInit /\ NetworkInit

-----------------------------------------------------------------------------
SenderMoves == SenderStep /\ UNCHANGED receiverVars

\* With a timely network a timer expires only when nothing is on its way and
\* the receiver is not about to answer.
NothingOnItsWay ==
  /\ toReceiver = <<>>
  /\ toSender = <<>>
  /\ receiverPc # "drain"

TimerExpires(k) ==
  /\ TimelyNetwork => NothingOnItsWay
  /\ Expire(k)
  /\ UNCHANGED receiverVars

ReceiverMoves == ReceiverStep /\ UNCHANGED senderVars

\* No socket is bound to the port: the host answers an ICMP error, which comes
\* to wait on the sender's connected socket.
Refuse ==
  /\ receiverPc \notin {"select", "drain"}
  /\ toReceiver # <<>>
  /\ toReceiver' = Tail(toReceiver)
  /\ refused' = (senderPc # "done")
  /\ UNCHANGED <<senderVars, receiverVars, toSender, receiverRefused, faults>>

\* The sender has ended: a reply is answered so by its host.
RefuseReply ==
  /\ senderPc = "done"
  /\ receiverPc \in {"select", "drain"}
  /\ toSender # <<>>
  /\ toSender' = Tail(toSender)
  /\ receiverRefused' = TRUE
  /\ UNCHANGED <<senderVars, receiverVars, toReceiver, refused, faults>>

NetworkMoves == NetworkFault /\ UNCHANGED <<senderVars, receiverVars>>

\* The sender has returned from main().
Finished == senderPc = "done" /\ UNCHANGED vars

Next ==
  \/ SenderMoves
  \/ \E k \in Timed : TimerExpires(k)
  \/ ReceiverMoves
  \/ Refuse
  \/ RefuseReply
  \/ NetworkMoves
  \/ Finished

\* Both loops are scheduled as long as the process lives, and the receiver is
\* launched some day.  A response on its way arrives unless the link loses it.
\* The timer of the first packet is reset only when that packet is repeated:
\* otherwise it expires, and check_for_RT meets it before any other.  Response
\* and timer then stay so until the sender looks, which it does each time it
\* waits, between two transmissions: strong fairness.
Fairness ==
  /\ WF_vars(SenderMoves)
  /\ WF_vars(ReceiverMoves)
  /\ WF_vars(Refuse)
  /\ SF_vars(\E i \in 1 .. Len(toSender) : process_response(i) /\ UNCHANGED receiverVars)
  /\ SF_vars(TimerExpires(1))

Spec == Init /\ [][Next]_vars

FairSpec == Spec /\ Fairness

-----------------------------------------------------------------------------
File == [k \in 1 .. Blocks |-> k]

Data == [code : {"PKT_OK"}, type : {"DATA"}, seqnum : SeqNums,
         payload : 0 .. Blocks, tr : {0}]
Replies == [code : {"PKT_OK"}, type : {"ACK", "NACK"}, seqnum : SeqNums,
            window : 0 .. MAX_WINDOW_SIZE]

\* Every variable keeps its type; the stacks hold packets of the file.
TypeOK ==
  /\ senderPc \in SenderPcs
  /\ sendingStack \in
       Seq([seqnum : SeqNums, payload : 0 .. Blocks, sent : BOOLEAN])
  /\ {seqnumToSend, lastEncodedSeqnum, lastSeqnumAcked} \subseteq SeqNums
  /\ lastSeqnumAckedCounter \in 0 .. 3
  /\ receiverWindowSize \in 0 .. MAX_WINDOW_SIZE
  /\ {totalPacketsToSend, totalPacketsSent} \subseteq 0 .. Blocks + 1
  /\ resending \in BOOLEAN
  /\ lastpacketsSentCount \in 0 .. LastTimeouts + 1
  /\ receiverPc \in ReceiverPcs \ {"aborted"}
  /\ expectedSeqnum \in SeqNums
  /\ window \in 0 .. MAX_WINDOW_SIZE
  /\ receivingStack \in Seq(Data)
  /\ output \in Seq(1 .. Blocks)
  /\ toReceiver \in Seq(Data \cup {Damaged})
  /\ toSender \in Seq(Replies \cup {Damaged})
  /\ {refused, receiverRefused} \subseteq BOOLEAN
  /\ faults \in 0 .. MaxFaults

\* The two programs implement a reliable transfer.
Promise == INSTANCE ReliableTransfer WITH
  written <- output,
  receiverClosed <- receiverPc = "closed",
  senderDone <- senderPc = "done"

ImplementsReliableTransfer == Promise!Spec

\* The number, from 1 on, of a packet of the file.
Rank(pkt) == IF pkt.payload = NoPayload THEN Blocks + 1 ELSE pkt.payload

\* How many packets are no longer on the sender's stack.
Acknowledged == Blocks + 1 - Len(sendingStack)

\* What the sender keeps is the end of the file, in order: stack_remove_acked
\* has taken a beginning of it, and the stack never has a gap.
KeepsTheRest ==
  \A k \in 1 .. Len(sendingStack) : Rank(sendingStack[k]) = Acknowledged + k

\* A packet leaves the sender's stack only once the receiver has written it,
\* whatever was lost, damaged, repeated or late.
AcknowledgedIsWritten ==
  Acknowledged <= Len(output) + (IF receiverPc = "closed" THEN 1 ELSE 0)

\* check_for_RT stops at the first packet without a timestamp.  While no datagram
\* is damaged, the packets transmitted are the first of the stack, so each one
\* has its timer looked at.
TimersCoverSent ==
  \A k \in 1 .. Len(sendingStack) : sendingStack[k].sent => k \in Timed

\* The terminating packet is on its way only once everything before it is
\* written, so the receiver never buffers it.
LastComesLast ==
  \A i \in 1 .. Len(toReceiver) :
    /\ toReceiver[i] # Damaged
    /\ toReceiver[i].payload = NoPayload
    => Len(output) = Blocks

\* A datagram on its way or buffered that the receiver would accept is the one
\* it takes it for: sequence numbers of two laps are never mistaken.
NoLapMistaken ==
  \A pkt \in Range(toReceiver) \cup Range(receivingStack) :
    /\ pkt # Damaged
    /\ InWindow(expectedSeqnum, pkt.seqnum)
    /\ receiverPc \in {"select", "drain"}
    => Rank(pkt) = Len(output) + 1 + Offset(expectedSeqnum, pkt.seqnum)

\* Until the receiver has closed an ACK that the sender takes for a new one is
\* one: it advances by a window at most, also when main() starts again, and as
\* many packets as it says leave the stack, whether or not line 266 finds the
\* packet before it.
AcksAdvance ==
  [][receiverPc # "closed" =>
       /\ Offset(lastSeqnumAcked, lastSeqnumAcked') <= MAX_WINDOW_SIZE
       /\ Acknowledged' = Acknowledged + Offset(lastSeqnumAcked, lastSeqnumAcked')]_vars

\* The sender is never left waiting for nothing: with no timer running it is at
\* the top of its loop, and what it means to send next is a packet that nothing
\* keeps back (read_write_loop_sender.c:90-114), the receiver's window included.
NeverStuck ==
  senderPc # "done" /\ Timed = {} => senderPc = "send" /\ MaySend

\* sender.c:67 promises a reliable transfer, and sender.c:145 prints "Packets
\* sent successfully" when the loop returns: the whole file is written then.
SuccessIsDelivery == senderPc = "done" => output = File

\* read_write_loop_receiver.c:220 prints "Packets received successfully" when
\* the receiver leaves its loop, and receiver.c:67 says that the data are
\* printed to the file: all of them are there by then.
ReceivedSuccessfully == receiverPc = "closed" => output = File

\* read_write_loop_sender.c:40, "-2 if read failed (no connection yet) ; -3 if
\* read failed (connection closed already)".
FailureIsUnderstood == [][TryAgain => receiverPc # "closed"]_vars

\* The sender ends, although the acknowledgments of its terminating packet may
\* all be lost.
SenderEnds == <>(senderPc = "done")

\* After LastTimeouts + 1 timeouts of the terminating packet the sender leaves
\* its loop (read_write_loop_sender.c:185).
GaveUp == senderPc = "done" /\ lastpacketsSentCount > LastTimeouts

\* The receiver, which has no timeout (read_write_loop_receiver.c:107), ends
\* unless the sender has given up the terminating packet: then it may wait for
\* one for ever.  No other loss, repetition or late reply leaves it waiting.
ReceiverEnds == <>(receiverPc = "closed" \/ GaveUp)

=============================================================================
