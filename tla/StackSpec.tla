----------------------------- MODULE StackSpec ------------------------------
(***************************************************************************)
(* What the two programs may count on when they call stack.c: a sequence   *)
(* of packets.  Where a packet is put is said by what comes of it and not  *)
(* by a walk: this module does not use stack_enqueue.  It says less than   *)
(* stack.h:41, "keeps the stack sorted (first < last)", for which stack.c  *)
(* does too little: first is never compared (stack.c:31-36), so that 0     *)
(* comes behind a 1 that is alone; and 255 comes behind 1 in 254, 1.       *)
(* The linked nodes of LinkedStack implement this specification.           *)
(***************************************************************************)
EXTENDS Stack

CONSTANTS
  Tags,     \* tells apart packets that carry the same sequence number
  MaxNodes  \* nodes that malloc can give, at least one

VARIABLES
  stack,    \* the packets held
  returned  \* the packets the last call gave back to its caller, or deleted

Packets == [seqnum : SeqNums, tag : Tags]

Init ==
  /\ stack = <<>>
  /\ returned = <<>>

\* pkt is ahead of the last packet by less than a window, the wrap included:
\* how the sender fills its stack (read_file), and how packets come in order.
FollowsLast(pkt) ==
  /\ stack # <<>>
  /\ Offset(Last(stack).seqnum, pkt.seqnum) < MAX_WINDOW_SIZE

Ascending(packets) ==
  \A i, j \in 1 .. Len(packets) : i < j => packets[i].seqnum <= packets[j].seqnum

\* pkt is not before the first packet, and no number of the end of a lap is
\* together with one of the beginning of a lap.
WithinLap(pkt) ==
  /\ stack # <<>>
  /\ stack[1].seqnum <= pkt.seqnum
  /\ ~\E i \in 1 .. Len(stack) : stack[i].seqnum > WrapHigh /\ pkt.seqnum < WrapLow

\* The packets held keep their order, and pkt comes among them: last if it
\* follows the last one, and where it is sorted if they are and it can be.
\* A packet that finds no memory stays with the caller.
CallEnqueue(pkt) ==
  \/ /\ Len(stack) < MaxNodes
     /\ \E place \in 1 .. Len(stack) + 1 : stack' = InsertAt(stack, place, pkt)
     /\ FollowsLast(pkt) => Last(stack') = pkt
     /\ Ascending(stack) /\ WithinLap(pkt) => Ascending(stack')
     /\ returned' = <<>>
  \/ /\ Len(stack) = MaxNodes
     /\ returned' = <<pkt>>
     /\ UNCHANGED stack

CallRemove(s) ==
  /\ stack' = stack_remove(stack, s)
  /\ returned' = IF is_in_stack(stack, s) THEN <<stack_get_pkt(stack, s)>> ELSE <<>>

CallRemoveAcked(s) ==
  /\ stack' = stack_remove_acked(stack, s)
  /\ returned' = SubSeq(stack, 1, Len(stack) - Len(stack'))

CallFree ==
  /\ stack' = <<>>
  /\ returned' = stack

Next ==
  \/ \E pkt \in Packets : CallEnqueue(pkt)
  \/ \E s \in SeqNums : CallRemove(s) \/ CallRemoveAcked(s)
  \/ CallFree

Spec == Init /\ [][Next]_<<stack, returned>>

=============================================================================
