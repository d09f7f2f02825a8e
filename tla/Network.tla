------------------------------ MODULE Network -------------------------------
(***************************************************************************)
(* The UDP sockets of the two programs and the link between them, modelled *)
(* from how src/socket uses them.  Each direction is the sequence of the   *)
(* datagrams on their way, the oldest first.                               *)
(***************************************************************************)
EXTENDS Naturals, Sequences, SequencesExt

CONSTANTS
  Capacity,    \* datagrams one direction holds; a datagram sent beyond it is dropped
  Reordering,  \* TRUE when the delay of the link varies, so a datagram may overtake
  FaultKinds,  \* what the link may do: "lose", "damage", "duplicate" a datagram
  MaxFaults    \* how many times it may

ASSUME NetworkAssumption ==
  /\ Capacity \in Nat \ {0}
  /\ Reordering \in BOOLEAN
  /\ FaultKinds \subseteq {"lose", "damage", "duplicate"}
  /\ MaxFaults \in Nat

\* A payload is the number of its block in the file; NoPayload is a length of 0.
NoPayload == 0

VARIABLES
  toReceiver,       \* datagrams sent by the sender and not yet read
  toSender,         \* datagrams sent by the receiver and not yet read
  refused,          \* a port-unreachable error waits on the sender's socket
  receiverRefused,  \* one waits on the receiver's
  faults            \* faults the link may still commit

networkVars == <<toReceiver, toSender, refused, receiverRefused, faults>>

NetworkInit ==
  /\ toReceiver = <<>>
  /\ toSender = <<>>
  /\ refused = FALSE
  /\ receiverRefused = FALSE
  /\ faults = MaxFaults

\* The direction once msgs are sent on it: what does not fit is dropped.
Put(channel, msgs) ==
  LET all == channel \o msgs
  IN  IF Len(all) <= Capacity THEN all ELSE SubSeq(all, 1, Capacity)

\* The datagrams that may be the next one read.
Arriving(channel) ==
  {i \in 1 .. Len(channel) : Reordering \/ i = 1}

Take(channel, i) == RemoveAt(channel, i)

\* Damage: a flipped bit, or a payload cut off with the TR bit set.  pkt_decode
\* answers E_CRC to both (module Packet), since it computes the CRC of the
\* header over the received bytes, TR bit included.
Damaged == [code |-> "E_CRC"]

-----------------------------------------------------------------------------
\* One fault on a direction: its oldest datagram is lost, damaged or doubled.
Faulty(channel, after) ==
  /\ channel # <<>>
  /\ \/ /\ "lose" \in FaultKinds
        /\ after = Tail(channel)
     \/ /\ "damage" \in FaultKinds
        /\ Head(channel) # Damaged
        /\ after = <<Damaged>> \o Tail(channel)
     \/ /\ "duplicate" \in FaultKinds
        /\ Len(channel) < Capacity
        /\ after = <<Head(channel)>> \o channel

NetworkFault ==
  /\ faults > 0
  /\ faults' = faults - 1
  /\ UNCHANGED receiverRefused
  /\ \/ Faulty(toReceiver, toReceiver') /\ UNCHANGED <<toSender, refused>>
     \/ Faulty(toSender, toSender') /\ UNCHANGED <<toReceiver, refused>>
     \/ "lose" \in FaultKinds /\ refused /\ refused' = FALSE
        /\ UNCHANGED <<toReceiver, toSender>>

=============================================================================
