---------------------------- MODULE OpenReceiver ----------------------------
(***************************************************************************)
(* The receiver alone, under a peer that may send anything: any sequence   *)
(* number, in any order, any number of times, damaged or not, truncated or *)
(* not, and that may refuse the replies.  What holds here holds whatever   *)
(* the sender and the network do.                                          *)
(***************************************************************************)
EXTENDS Receiver

CONSTANTS
  Payloads,  \* payloads the peer may send
  MaxOutput  \* the peer falls silent once so many payloads are written

ASSUME OpenReceiverAssumption ==
  Payloads \subseteq Nat /\ NoPayload \in Payloads /\ MaxOutput \in Nat

\* ACK stands for every type that is not DATA: the loop only compares with DATA.
Types == {"DATA", "ACK"}

Packets ==
  [code : {"PKT_OK"}, type : Types, seqnum : SeqNums,
   payload : Payloads \cup {Garbage}, tr : {0, 1}]

\* pkt_decode accepts a packet marked truncated only if it is DATA without a
\* payload (module Packet).
Decoded(pkt) ==
  /\ pkt.payload # Garbage
  /\ pkt.tr = 1 => pkt.type = "DATA" /\ pkt.payload = NoPayload

Datagrams == {pkt \in Packets : Decoded(pkt)} \cup {Damaged}

Replies ==
  [code : {"PKT_OK"}, type : {"ACK", "NACK"}, seqnum : SeqNums,
   window : 0 .. MAX_WINDOW_SIZE]

vars == <<receiverVars, networkVars>>

Init == ReceiverInit /\ NetworkInit

\* The peer has read the replies by the time it sends: the receiver never
\* looks at what it sent, so nothing depends on when they are read.
PeerSends ==
  /\ Len(output) < MaxOutput
  /\ \E d \in Datagrams : toReceiver' = Put(toReceiver, <<d>>)
  /\ toSender' = <<>>
  /\ UNCHANGED <<receiverVars, refused, receiverRefused, faults>>

\* The peer has closed its socket, for now: its host refuses the replies.
PeerRefuses ==
  /\ toSender # <<>>
  /\ toSender' = <<>>
  /\ receiverRefused' = TRUE
  /\ UNCHANGED <<receiverVars, toReceiver, refused, faults>>

Next == ReceiverStep \/ PeerSends \/ PeerRefuses

Spec == Init /\ [][Next]_vars

-----------------------------------------------------------------------------
\* Every variable keeps its type; in particular the window sent in a reply
\* fits the five bits of its field.
TypeOK ==
  /\ receiverPc \in ReceiverPcs
  /\ expectedSeqnum \in SeqNums
  /\ window \in 0 .. MAX_WINDOW_SIZE
  /\ receivingStack \in Seq(Packets)
  /\ output \in Seq(Payloads \cup {Garbage})
  /\ toReceiver \in Seq(Datagrams)
  /\ toSender \in Seq(Replies)
  /\ {refused, receiverRefused} \subseteq BOOLEAN
  /\ faults \in Nat

\* No two nodes of the buffer carry the same sequence number, so every look-up
\* by number (stack_remove, is_in_stack) has one answer, across the wrap too.
NoDuplicateBuffered ==
  \A i, j \in 1 .. Len(receivingStack) :
    receivingStack[i].seqnum = receivingStack[j].seqnum => i = j

\* Every buffered packet is ahead of the awaited one, by less than a window:
\* when the receiver waits for a datagram nothing it could have written is
\* left in the buffer, and nothing left there can be taken for a packet of
\* the next lap of sequence numbers.
BufferedAhead ==
  \A i \in 1 .. Len(receivingStack) :
    LET ahead == Offset(expectedSeqnum, receivingStack[i].seqnum)
    IN  /\ ahead < MAX_WINDOW_SIZE
        /\ receiverPc = "select" => ahead > 0

\* The advertised window is the room left in the buffer, at every step of the
\* loop that empties it.
WindowAccurate == window = MAX_WINDOW_SIZE - Len(receivingStack)

\* The receiver never advertises a window of zero: a sender whose window is
\* zero has used it up itself and has packets on their way.
NeverZeroWindow ==
  \A i \in 1 .. Len(toSender) : toSender[i].window > 0

=============================================================================
