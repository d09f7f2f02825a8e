------------------------------- MODULE Stack --------------------------------
(***************************************************************************)
(* The packet buffer of stack.c as a sequence: position 1 is stack->first  *)
(* and the last position is stack->last.  Both programs use it: the sender *)
(* for the packets not yet acknowledged, the receiver for the packets that *)
(* came ahead of the awaited one.  The operators need of a packet only its *)
(* field seqnum.  LinkedStack has the same operations on the linked nodes  *)
(* of the code, and is checked to implement these.                         *)
(***************************************************************************)
EXTENDS SeqNum, Sequences, SequencesExt

CONSTANTS
  WrapHigh,  \* 200 in the code: above it a number belongs to an ending lap
  WrapLow    \* 100 in the code: below it a number belongs to a new lap

\* The code has 100 <= 200 and leaves a window on each side of the wrap:
\* 31 <= 100 and 200 + 31 <= 256.
ASSUME WrapAssumption ==
  /\ WrapHigh \in SeqNums
  /\ WrapLow \in MAX_WINDOW_SIZE .. WrapHigh
  /\ WrapHigh + MAX_WINDOW_SIZE <= SeqSpace

\* The positions of the nodes that carry sequence number s.
Positions(stack, s) == {i \in 1 .. Len(stack) : stack[i].seqnum = s}

is_in_stack(stack, s) == Positions(stack, s) # {}

\* Where a walk from stack->first meets s for the first time.
FirstPosition(stack, s) ==
  CHOOSE i \in Positions(stack, s) : \A j \in Positions(stack, s) : i <= j

\* Only meant where is_in_stack(stack, s): the code answers NULL elsewhere.
stack_get_pkt(stack, s) == stack[FirstPosition(stack, s)]

stack_remove(stack, s) ==
  IF is_in_stack(stack, s) THEN RemoveAt(stack, FirstPosition(stack, s)) ELSE stack

\* Faulty: removes from s on, instead of up to s.
stack_remove_from(stack, s) ==
  IF is_in_stack(stack, s) THEN SubSeq(stack, 1, FirstPosition(stack, s)) ELSE <<>>

\* Removes from the front up to s excluded; everything when s is absent.
stack_remove_acked(stack, s) ==
  IF is_in_stack(stack, s)
  THEN SubSeq(stack, FirstPosition(stack, s), Len(stack))
  ELSE <<>>

\* Faulty: without the condition that separates two laps.
PassesNoWrap(s, node) ==
  s < node.seqnum

\* The walk of stack_enqueue passes node over when it looks for the place of
\* s: node is larger, and the two are not on either side of a wrap.
Passes(s, node) ==
  s < node.seqnum /\ ~(node.seqnum > WrapHigh /\ s < WrapLow)

\* The walk goes backwards from stack->last and ends at the first node it
\* does not pass over, or when it reaches stack->first, which is not compared.
EnqueueAfter(stack, s) ==
  CHOOSE i \in 1 .. Len(stack) :
    /\ i = 1 \/ ~Passes(s, stack[i])
    /\ \A j \in i + 1 .. Len(stack) : Passes(s, stack[j])

stack_enqueue(stack, pkt) ==
  IF stack = <<>>
  THEN <<pkt>>
  ELSE InsertAt(stack, EnqueueAfter(stack, pkt.seqnum) + 1, pkt)

=============================================================================
