------------------------------- MODULE SeqNum -------------------------------
(***************************************************************************)
(* Sequence numbers of TRTP: one byte on the wire, so they wrap, and every *)
(* comparison of two of them is a distance modulo SeqSpace.                *)
(***************************************************************************)
EXTENDS Integers

CONSTANTS
  SeqSpace,        \* number of sequence numbers, 256 in the code (uint8_t)
  MAX_WINDOW_SIZE  \* packet.h, 31 in the code

\* The code has 2 * 31 <= 256; the window has room for the awaited packet.
ASSUME SeqNumAssumption ==
  /\ SeqSpace \in Nat \ {0}
  /\ MAX_WINDOW_SIZE \in Nat \ {0}
  /\ 2 * MAX_WINDOW_SIZE <= SeqSpace

SeqNums == 0 .. SeqSpace - 1

\* Faulty: without the % 256.
IncrNoWrap(s) == s + 1

\* incrementSeqnum() and every "(x + 1) % 256" of the two loops.
Incr(s) == (s + 1) % SeqSpace

\* (uint8_t) (s - 1), the argument of stack_get_pkt in process_response.
Decr(s) == (s - 1) % SeqSpace

\* How far s is ahead of from; the body of isExpected and isInRange.
Offset(from, s) ==
  LET diff == s - from
  IN  IF diff < 0 THEN diff + SeqSpace ELSE diff

\* Faulty: without the correction of a negative distance.
InWindowNoWrap(from, s) ==
  s - from < MAX_WINDOW_SIZE

\* Faulty: <= for <.
InWindowOneMore(from, s) ==
  Offset(from, s) <= MAX_WINDOW_SIZE

\* isExpected(s), with from = expectedSeqnum in the receiver, and
\* isInRange(s), with from = lastSeqnumAcked in the sender.
InWindow(from, s) ==
  Offset(from, s) < MAX_WINDOW_SIZE

=============================================================================
