-------------------------- MODULE ReliableTransfer --------------------------
(***************************************************************************)
(* What the two programs promise together: "un transfert de donnees        *)
(* unidirectionnel et fiable" (sender.c:67, receiver.c:63).  The blocks of *)
(* the file are written once each and in order; the receiver ends only     *)
(* when all of them are written, and so does the sender.                   *)
(***************************************************************************)
EXTENDS Naturals, Sequences

CONSTANT File  \* the sequence of the blocks of the file

VARIABLES
  written,         \* the blocks written, in the order they were
  receiverClosed,  \* the receiver has left its loop
  senderDone       \* the sender has left its loop with EXIT_SUCCESS

Init ==
  /\ written = <<>>
  /\ receiverClosed = FALSE
  /\ senderDone = FALSE

WriteNext ==
  /\ Len(written) < Len(File)
  /\ written' = Append(written, File[Len(written) + 1])
  /\ UNCHANGED <<receiverClosed, senderDone>>

Close ==
  /\ written = File
  /\ receiverClosed' = TRUE
  /\ UNCHANGED <<written, senderDone>>

Succeed ==
  /\ written = File
  /\ senderDone' = TRUE
  /\ UNCHANGED <<written, receiverClosed>>

Next == WriteNext \/ Close \/ Succeed

Spec == Init /\ [][Next]_<<written, receiverClosed, senderDone>>

=============================================================================
