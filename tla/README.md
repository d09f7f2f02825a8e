# TRTP: models, model checking and proofs

TRTP is a reliable, one-way file transfer over UDP: a *sender* cuts a file into
blocks of 512 bytes and sends one datagram per block, a *receiver* writes the
blocks in order and answers with cumulative acknowledgments. This directory
holds TLA+ models of both programs and of their parts, the TLC configurations
that check them, and proofs for TLAPS.

Paths below are relative to the repository's `src/` directory: `stack/stack.c`
is the file that `PROJECT.json` calls `src/src/stack/stack.c`.

## 1. The system

| Component | Code | State it keeps | Operations |
|---|---|---|---|
| packet buffer | `stack/stack.c` | a doubly linked ring of nodes, roughly in the order of their sequence numbers; `first`, `last`, `size` | enqueue, remove, remove_acked, get_pkt, is_in_stack, free |
| packet format | `packet/packet.c` | the fields of one packet | `pkt_encode`, `pkt_decode`, setters and getters |
| receiver loop | `receiver.c`, `socket/read_write_loop_receiver.c`, `socket/wait_for_client.c` | `expectedSeqnum`, `window`, `receivingStack`, the output | one iteration per datagram, `send_reply` |
| sender loop | `sender.c` (`main`), `socket/read_write_loop_sender.c` | `sendingStack`, `seqnumToSend`, `lastEncodedSeqnum`, `lastSeqnumAcked` and its counter, `receiverWindowSize`, two packet counters, three "repeat" flags, `lastpacketsSentCount` | transmit, wait, `process_response`, `check_for_RT` |
| file segmentation | `sender.c` (`read_file`) | `nextSeqnum`, the stack it fills; in the current directory, `stdin.txt` | copy of standard input, one packet per block, the terminating packet |
| network | outside the repository | datagrams on their way, errors pending on a socket | lose, damage, duplicate, overtake, refuse |
| options | `process_options` of both programs | `hostname`, `port`, `fileToRead` / `fileToWrite` | `getopt()`, then a second pass over `argv` |
| connection set-up | `init_connection` of both programs, `create_socket.c`, `real_address.c`, `wait_for_client.c` | the socket: bound, connected, what is queued on it | resolve, bind or connect, wait for the first datagram |

A sender and a receiver share nothing: they interact through datagrams (DATA one
way, ACK and NACK the other) and through the ICMP error that a host sends back
when no socket is bound to the port, which either meets as a failing `read()` or
`write()`. Senders started in one directory share the file `stdin.txt`, and the
programs of a machine its ports. Each program is one thread, so the
interleavings are those of the two loops with the network: which of a response,
a timer and an open window a sender sees first, which datagram is read next,
whether the receiver is already or still there.

What is hard in it:

- sequence numbers are one byte and wrap; every comparison of two of them
  (`isExpected`, `isInRange`, the 200/100 rule of `stack_enqueue`,
  `totalPacketsToSend % 256`) relies on an argument about distances;
- acknowledgments are lost, repeated and late, and the sender removes packets
  from its stack by what they say;
- a repetition restarts the loop "where it left" from a variable that
  repetitions do not advance;
- the end of a transfer is guessed on both sides: five acknowledgments that may
  all be lost, six timeouts, a refused read;
- a packet marked as truncated is freed by the receiver and used afterwards;
- results of calls are not looked at: a reply that is not sent because an earlier
  error is reported in its place, a block that is not written to the output;
- several senders in one directory open, write and remove one `stdin.txt`;
- a receiver connects its socket to the first sender that it hears, when others
  may already have been heard.

What makes each part correct: the ring is well formed, and a packet that follows
the last one is put last; encoding and decoding are inverse and damage is refused; the
receiver's buffer holds distinct packets ahead of the awaited one and its window
is the room left; a packet leaves the sender only once it is written; the whole
is the file, in order, once; the sender ends, and the receiver with it.
`PROJECT.json` lists the hazards one by one at their lines, with the property that
covers each, or why none does.

## 2. The modules

```
SeqNum                sequence numbers modulo SeqSpace
  Stack               the packet buffer as a sequence
    StackSpec         its operations as a state machine       (abstract)
    LinkedStack       the ring of nodes of stack.c            (implements StackSpec)
    ReadFile          read_file in the senders of one directory
    Receiver          receiver loop            \  both extend Network
    Sender            sender loop              /
      OpenReceiver    Receiver under a peer that sends anything
      Transfer        Sender + Receiver + Network (implements ReliableTransfer)
Network               the two directions between the sockets
ReliableTransfer      what the two programs promise           (abstract)
Options               process_options of both programs
StartUp               Options + ReadFile + sockets: both programs up to their loops
Packet                pkt_encode, a link that tampers, pkt_decode
StackProofs           lemmas about SeqNum, Stack and Network, proved
  LinkedStackProofs   the ring, and that it implements StackSpec, proved
OpenReceiverProofs    the inductive invariant of OpenReceiver, proved
TransferProofs        types and the sender's stack, over any network, proved
  DeliveryProofs      delivery over a link in order, and of a short file over any,
                      and the refinement, proved
    TimersProofs      timers and what the sender sends next, nothing damaged, proved
StartUpProofs         options, the stack and the input of a sender, a receiver's
                      first packet, proved
PacketProofs          what pkt_decode accepts, proved
MC*                   the modules the .cfg files are for
```

How state and actions correspond to the code:

- **Stack**: the sequence is the ring read from `first`; `stack_remove_acked`
  removes everything when the number is absent, as the loop at `stack.c:112`
  does; `EnqueueAfter` is the backward walk, including that it stops *at* the
  first node without comparing it.
- **StackSpec**: what the callers may count on, said by what comes of a call. An
  enqueued packet comes last when it is ahead of the last one by less than a window,
  the wrap included (`FollowsLast`); it leaves an ascending stack ascending when it is
  not before the first packet and not of the next lap (`WithinLap`); the others keep
  their order. `stack.h:41` promises more, that the stack is kept sorted, and
  `stack.c` does not keep that: 0 enqueued on a stack of 1 alone comes behind it, and
  255 on 254, 1 comes behind the 1. It also promises 1 when it fails, where the code
  answers −1; the sender only asks whether it is 0, the receiver does not look.
- **LinkedStack**: `list` is `stack_t` with the heap of nodes; each operation is
  an operator from the list before the call to the list after it. `Forward` and
  `Backward` are the runners of its loops, as functions of the steps they have
  taken; `Find` and `Place` are the nodes where they stop, and `RemoveFront` is the
  loop of `stack_remove_acked` and of `stack_free`.
- **Receiver**: one action per outcome of an iteration (`ReceiveLast`,
  `ReceiveData`, `ReceiveTruncated`, `ReceiveDamaged`, `ReceiveFails`); the loop
  that empties the buffer is `Drain`, one `write()` per step, and `Drained`, which
  answers. `ReceiveFails` is a `read()` that reports an error: its −1 goes to
  `pkt_decode`, with a buffer of zeroes. `SendReplies` is the `send()` of the
  replies: one that reports a waiting error sends nothing. `WriteOut` is the
  `write()` of a payload, which may fail where `WritesMayFail` says so.
  `ReceiveTruncated` follows the code: it frees the packet and goes on with it,
  so the sequence number and the payload it reads then are any, and the second
  `free` may abort the program.
- **Sender**: an iteration is two steps: the transmission it may make
  (`SkipSend`, `SendNext`, `SendAgain`), then what ends its wait (`ReceiveAck`,
  `ReceiveNack`, `ReceiveGarbage`, `Expire`, `Idle`, or the two outcomes of a
  failed read, `ReceiverGone` and `TryAgain`). `EndOfIteration` is the end of
  the loop, part of each of the latter. `resending` is the disjunction of the
  three flags, which are always reset together. A timestamp is abstracted to
  "transmitted or not" (`sent`): a timer of a transmitted packet may expire.
- **Network**: each direction is a sequence with a capacity; what does not fit is
  dropped. `Reordering` lets a later datagram be read first.
- **Transfer**: adds the port-unreachable errors (`Refuse` towards the sender,
  `RefuseReply` towards the receiver once the sender has closed), the timers with or
  without the assumption that they are longer than a round trip
  (`TimelyNetwork`), and the properties of the whole.
- **ReadFile**: `reader[s]` has the variables of `read_file` in sender `s`;
  `stdinTxt` is the file that has the name `stdin.txt`, if one has, and
  `content` its bytes. A file that lost its name is still there for those who
  have it open. `OpenCopy`, `CopyChunk` and `CopyEnd` copy standard input, one
  `read`/`write` pair per step; `ReadBlock` is one packet, `ReadEnd` the end of the
  file with the removal of `stdin.txt`. A call may fail (`MaxFailures`), and a
  sender may be killed (`Kill`). Two fields of `reader` are for the properties
  only: `leftover` and `disturbed`.
- **Options**: `Getopt` is what `getopt()` does to `argv` (options first),
  `PlaceAll` the loop that reads it again by position, `Placed` one step of it.
- **StartUp**: `main[p]` says where the `main()` of program `p` stands and holds its
  globals, its socket and its peer. `Options`, `Connect` and `Bind` are
  `process_options` and `init_connection`; `wait_for_client` leaves the datagram it
  sees on the socket, and `connect()` leaves those that came before it. `SendFirst`
  and `ReadFirst` are the first packet only: what follows is `Transfer`.
- **Packet**: a CRC *is* the data it was computed over, so it is injective.
  Bounds, codes and their order are those of the two functions.

Plain data are abstracted: a payload in `Transfer` is the number of its block,
0 for none; a damaged datagram is one value, because `Packet` shows that every
kind of damage leads to a refusal by `pkt_decode`.

## 3. The runs

The sequence number space is 4 or 6 instead of 256 and the window 2 or 3
instead of 31, with 2 × window ≤ space as in the code. That is small enough for
the numbers to wrap once or more in every run where the wrap matters, and large
enough for a window that lies across the wrap, for a gap in the receiver's
buffer, and for a number that is in neither window. The 200/100 rule becomes
`WrapHigh` = `WrapLow` = half the space, which meets the assumption
`WrapAssumption` that the code's values meet.

| Run | Shows | Bounds |
|---|---|---|
| `open_receiver` | under any peer the buffer holds distinct packets ahead of the awaited one, the window is the room left and is never 0 | space 6, window 3, one datagram waiting; the peer falls silent once 2 payloads are written, which the emptying of a buffer exceeds |
| `linked_stack` | the ring stays well formed, the three look-ups agree, every call does what `StackSpec` promises, which says nothing of the walk: the 200/100 rule is what puts a packet last at the wrap | 3 nodes (all the shapes: empty, one, first, middle, last), 4 numbers, two packets per number |
| `transfer` | the two programs implement `ReliableTransfer`; nothing leaves the sender before it is written; laps are never mistaken; an ACK advances by a window at most and takes as many packets off; the terminating packet goes last | in order, window 2, 6 packets on 4 numbers, timers that may expire at any moment, 3 faults of any kind, two datagrams each way |
| `short_file_reordered` | with reordering, a file that does not wrap is delivered whole, and both programs report success only then | 3 blocks on 6 numbers, any order, one fault, early timers |
| `transfer_ends` | the sender ends, and so does the receiver unless the sender gave up its terminating packet; every transmitted packet has its timer looked at; a sender with no timer running is about to send, and none of the conditions of the loop keeps the packet back | in order, window 3, 8 packets on 6 numbers, 4 losses or duplicates, three datagrams each way; 2 timeouts of the terminating packet end the sender |
| `packet` | decode inverts encode; what is accepted is intact, though nothing compares the bytes received with the length in the header | payloads of up to 2 bytes of 2 values, one act of tampering |
| `start_up` | every accepted command line is one the usage allows, and the socket and the file are those it names; the stack is numbered in order and carries the input unless another sender interfered; a sender gives up its standard input only then; a receiver accepts the packet of the sender it is connected to | every command line of up to 4 words out of 9, for either program; two senders that read at once from inputs of up to 5 bytes in blocks of 2, one by each kind of `-f`; inputs of up to 12 bytes, 7 packets on 4 numbers; one failing call, each sender killed at any point; two senders to one receiver and two receivers on one port or two, 4 ports, two datagrams per socket, one damaged |

A bound on faults is not one on incidents: every premature expiry of a timer
adds a copy without using a fault up, a datagram sent into a full direction is
dropped, a datagram sent before the receiver is launched is refused, and so is
each reply to a sender that has closed.

`LastTimeouts`, 5 in the code, is 1 in the runs that pass: the sender leaves its
loop when its terminating packet has timed out `LastTimeouts` + 1 times (line 185),
and a bound below the number of faults is what makes that happen while the receiver
still waits.
In `transfer_ends` two of the four faults lose the terminating packet twice; the
sender then ends and the receiver, which has no timeout, waits for ever
(`Transfer!GaveUp`; with the 5 of the code it takes six losses). `ReceiverEnds` says
that this is the only way, and TLC refutes it without that exception.

`WritesMayFail` is TRUE in `open_receiver`, whose properties do not depend on the
output, and FALSE elsewhere. When a `write()` of a payload fails, or the `open()` at
`receiver.c:99` whose −1 is not looked at, the packet is acknowledged all the same
(`read_write_loop_receiver.c:152`): both programs then report success for a file that
is not there, and `ReceivedSuccessfully` does not hold.

Deadlock is checked in every run of the transfer (a sender that has returned
stutters) and of the linked stack. It is not in `open_receiver` (the peer falls
silent, the receiver waits), `packet` (one call, then the end) and `start_up` (it
ends where the loops begin, and a program may have failed before).

### Runs that find a disagreement

Each of these checks one sentence of the repository, and TLC finds what the code
does instead. `PROJECT.json` quotes the lines.

| Run | The repository says | The code |
|---|---|---|
| `success_is_delivery` | a reliable transfer (`sender.c:67`) | when an old ACK overtaken by a newer one equals the number of the terminating packet modulo 256, `process_response` (line 266) drops packets that are not written and the sender reports success. Needs reordering and a file that wraps |
| `damage_stops_sender` | a reliable transfer | two damaged datagrams can leave the sender with a number to send that is out of range for ever, and no timer running (`read_write_loop_sender.c:143`) |
| `failure_is_understood` | −3 is "connection closed already" (`read_write_loop_sender.c:40`) | after a restart by `main` the counters disagree, and a closed receiver is taken for one not launched |
| `truncated_is_recognised` | the CRC of the header is checked "en considerant le champ TR a 0" (`packet.h:68`) | it is computed over the bytes received (`packet.c:139`); clearing TR in the structure before it (line 135) does not change them, so a data packet that a router truncated is `E_CRC`, answered with a NACK of the awaited number, and the branch of the receiver for truncated packets (lines 146–149) is not taken for it |
| `carries_stdin` | the data are those of standard input (`sender.c:71`) | `stdin.txt` is one name for all the senders of a directory, and opened without truncation: what another sender copies, or what an interrupted one left beyond the new input, is sent instead |

These show how far the positive results reach. `ImplementsReliableTransfer` is
checked over a link that keeps the order, `SuccessIsDelivery` over one that does
not but for files that do not wrap; termination is checked for losses and
duplicates, not for damage. Nor does `TimersCoverSent` hold when datagrams are
damaged and duplicated (TLC refutes it with 6 blocks and 6 faults): the
repetition that does not advance `lastEncodedSeqnum` then leaves a packet that
was transmitted behind one that was not, and `check_for_RT` never comes to it.
The cause is that of `damage_stops_sender`, so it has no run of its own.

Smaller disagreements are part of the models and have no run of their own:

- `stack.h:41` says that `stack_enqueue` "keeps the stack sorted"; a packet
  smaller than the first is put second, because the walk stops at the first node
  without comparing it (`stack.c:33`; `Stack!EnqueueAfter`). Neither program
  depends on it: the sender enqueues in order, the receiver looks up by number.
- `read_write_loop_sender.c:54` says `EXIT_SUCCESS` "as soon as connection was
  terminated with success"; six timeouts of the terminating packet also end the
  loop (line 185), for an empty file without any receiver.
- `receiver.c:67` says that the data go to the file, and
  `read_write_loop_receiver.c:220` prints "Packets received successfully", also when a
  `write()` failed (see `WritesMayFail` above).
- `packet.h:95` says `E_NOMEM` if the buffer is too small; the four bytes of the
  payload's CRC are asked for when they are not written, and not when they are
  (`packet.c:177`; `Packet!SizeRequired` and `SizeWritten`). Both programs pass
  sizes that are large enough for what they encode.
- `sender.c:73` and `receiver.c:69` say "3 < argc < 5"; both take 3 arguments
  (program, host, port) and 5 (with `-f X`), and refuse 4: `-fX` in one word is an
  option to `getopt()` and the host name to the loop after it (`Options!Placed`).
  Several `-f` are taken, and the last one counts.
- `read_write_loop_sender.c:51` wants a socket "both bound and connected"; a port
  that is 0, or no number, leaves it neither (`StartUp!Connect`), and the receiver
  with such a port waits on a socket nothing can reach (`StartUp!Bind`).
- `sender.c:71` offers any file X; `stdin` and `stdin.txt` have a meaning of their
  own, and the latter is removed once sent (`ReadFile!OpenFile`, `ReadEnd`).

### Fairness

Only `transfer_ends` and `damage_stops_sender` use it (`Transfer!FairSpec`):

- weak fairness of the sender's loop and of the receiver's loop: both processes
  are scheduled, and the receiver is launched some day;
- weak fairness of the port-unreachable answer;
- strong fairness of reading a response: a response that is neither lost nor
  overtaken arrives, and `select` reports it each time the sender waits;
- strong fairness of the expiry of the *first* packet's timer: its timestamp
  changes only when that very packet is sent again, and `check_for_RT` starts
  with it. Nothing is assumed of the other timers, which may never be reached.

Losses are bounded (`MaxFaults`): with unbounded losses nothing could end. The
two properties assume that timers are longer than a round trip
(`TimelyNetwork`), as the comment at `read_write_loop_sender.c:25` says of
`RTlength`.

## 4. The proofs

`StackProofs` proves, for every space and window that meet `SeqNumAssumption`
(2 × window ≤ space) and every `WrapHigh`, `WrapLow` of `WrapAssumption`, what the
operators of `SeqNum` and `Stack` do: distances are injective and shrink by one
when the base advances; `FirstPosition` and `EnqueueAfter` exist (both are
`CHOOSE`s, so this is where the loops of the code are shown to find a place);
`stack_enqueue` adds exactly one packet and keeps numbers distinct
(`EnqueueKeeps`), puts a packet that follows the last one last (`EnqueueFollowing`,
where the constants 200 and 100 and the window matter) and keeps an ascending stack
ascending (`EnqueueSorts`); `stack_remove` takes exactly one out (`RemoveKeeps`).

`LinkedStackProofs` proves that the pointers of `stack.c` do what `Stack` says of a
sequence, for any number of nodes, tags and sequence numbers:

| Theorem | Property |
|---|---|
| `RingIsWellFormed` | `RingWellFormed` |
| `LookupsAlwaysAgree` | `LookupsAgree` |
| `LinkedStackIsStack` | `ImplementsStack` |

The invariant, `LinkedInv`, is that the list is the ring of *some* distinct nodes and
*some* packets (`Ring(list, nodes, pkts)`): the heap has exactly these nodes in use,
each linked to the one after it and the one before it, the last to the first. The
rest is one lemma per piece of the code:

- a runner comes to the nodes in order and then to the first again (`ForwardIs`,
  `BackwardIs`), so the loops stop where the operators of `Stack` say: `FindIs`,
  `IsInStackIs`, and `PlaceIs` for the backward walk of `stack_enqueue`, which stops
  at `first` without comparing it;
- the assignments of an insertion turn the ring of `nodes` into that of
  `InsertAt(nodes, ...)` (`InsertedIs`), those of a removal into that of
  `RemoveAt(nodes, ...)` (`UnlinkedIs`), for the first, a middle, the last and the
  only node alike;
- `malloc` finds a place as long as there is one: *n* distinct nodes leave one of
  `MaxNodes` free if and only if *n* < `MaxNodes` (`RoomIs`, by the pigeonhole
  principle), which is when `StackSpec` lets an insertion happen;
- the loops that remove from the front leave an end of the ring and give back the
  packets before it (`RemovalsAre`, `RemoveFrontIs`).

Each call then takes a ring to a ring, and the packets of the one to those of the
other as `Stack` does (`EnqueueStep`, `RemoveStep`, `RemoveAckedStep`,
`FreeStep`), and `EnqueueKeepsPromise` shows that this is what `StackSpec` promises:
together they are the refinement. Assumptions used: `SeqNumAssumption`,
`WrapAssumption`, `LinkedStackAssumption`, which TLC evaluates in `linked_stack`.

`OpenReceiverProofs` proves five invariants of the receiver for every value of
the constants and every behaviour of the peer:

| Theorem | Invariant |
|---|---|
| `TypeCorrect` | `TypeOK` |
| `BufferIsDistinct` | `NoDuplicateBuffered` |
| `BufferIsAhead` | `BufferedAhead` |
| `WindowIsAccurate` | `WindowAccurate` |
| `WindowNeverZero` | `NeverZeroWindow` |

None of them is inductive alone. That the advertised window is never 0 needs
that the buffer never fills; that needs that buffered packets have distinct
numbers at a distance between 1 and window − 1 from the awaited one, when the
pigeonhole principle (`RoomLeft`) leaves a place; and that distances survive the
advance of `expectedSeqnum` needs the emptying loop to remove the packet at
distance 0 before it goes on. `IInv` joins them with two facts that are not
invariants of a run: replies on their way carry a positive window, and nothing
is buffered before the launch. The proof has one lemma per action of the
receiver (`NextInductive` collects them), and the theorems follow from
`Inductive`. Assumptions used: `SeqNumAssumption`, `WrapAssumption`,
`NetworkAssumption`, `OpenReceiverAssumption`. TLC evaluates all of them in
`open_receiver`.

`OpenReceiver` lets the peer send anything, so these theorems hold whatever
sender and network there are, for the receiver's 256 numbers and its window of 31
in particular.

`StartUpProofs` proves two invariants of `StartUp`, for any number of senders,
files of any length and any interference between the senders:
`ReaderTypeCorrect` (`ReaderTypeOK`) and `StackNumbered` (`NumberedInOrder`): the
stack that the sender loop starts with is numbered 0, 1, 2, ... without a gap. The
argument is `EnqueueNext`: the number after the last one never passes that one in
the walk of `stack_enqueue`. Where the numbers wrap this rests on the 200/100
rule, and on 200 < 255 (`ReadFileAssumption`; `WrapAssumption` alone does not give
it for a window of 1). `ReaderInv` adds that `nextSeqnum` is the number after the
last one until the terminating packet is on the stack, and that a copy is written
at a place that `stdin.txt` has reached, which is why what is read of it are bytes.

It also proves `CarriesInput` (`InputCarried`) and `GivesUpOnlyWhenDisturbed`
(`GivenUpOnlyWhenDisturbed`), for every input and every size of a block. Neither
is inductive. `InputInv` follows an undisturbed sender through its three stages,
and uses `ReaderInv`:

- while it copies, the name `stdin.txt` is that of the file it writes to, the
  first `copied` bytes of that file are those of its input, and the file is as
  long as what is copied or what was there before, whichever is longer
  (`CopyOK`). The end of another sender's file takes the name away, and disturbs
  whoever is copying;
- while it reads, the file is its input, if what was there before was no longer,
  and the packets on the stack are its first blocks up to the offset of the
  descriptor (`CutOK`). `CutGrows` shows it of one more block; a short block can
  only be the last one because an offset before the end of the file is a whole
  number of blocks;
- at the end `CutEnds` makes `Segmented` of it: `CountIs` shows that the number of
  blocks read is the quotient that the definition asks for.

`StartUpProofs` also proves `AcceptsItsPeer` (`PeerAccepted`), for any number of senders,
receivers and datagrams: as `wait_for_client` leaves the datagram it looked at on
the socket, the head of the queue comes from the peer until the loop has read it,
and if nothing is damaged it is accepted (`PeerOK`).

Last, it proves `StartedAsAsked` (`StartedAsAskedAlways`), for a command line of any
length with any options. `process_options` reads `argv` twice, and `GetoptOK` says
what the two readings make of the first *n* arguments, for each *n* (`UpTo`, the
induction along a number that the proofs use):

- they are refused (an unknown option); or
- the second loop has taken an option for the name of a host: it skips only `-f` and
  the word after it, so `--` and `-fX` become the host, which no later argument
  changes (`NoHostStays`) and which `real_address` does not resolve; or
- the options are all `-f`, the second loop has placed nothing (`NothingPlaced`), and
  the words are the arguments at the positions that no `-f` takes (`OnlyFiles`).

Only the last can come past `init_connection`, and then `TwoWordsPlaced` shows that
there are two words: a third is refused, and with fewer the port is not set.
`StartedInv` carries the result from `process_options` to the socket; `PortKept` is
that `htons()` leaves 16 bits as they are. That host names do not begin with a dash
is in `StartUpAssumption`: a host called `-fX` would make a sender read its data
from `X` and connect to `-fX`.

Assumptions used: `SeqNumAssumption`, `WrapAssumption`, `ReadFileAssumption`,
`NoFileAssumption`, `OptionsAssumption`, `StartUpAssumption`, `NullAssumption`, which
TLC evaluates in `start_up`.

`TransferProofs` proves two invariants of `Transfer` over *any* network, one that
reorders, damages and duplicates, and with writes that fail: `TypeOK`
(`TransferTypes`) and `KeepsTheRest` (`RestIsKept`). Two types need an argument,
and `TypeInv` carries it: `totalPacketsSent` stays within the file because it is
at most the number of packets marked as transmitted or acknowledged, each counted
once (`SentRanks`), and `window` stays positive because the receiver's buffer is
distinct and ahead, as in `OpenReceiver`. `RemoveAckedIs` (what
`stack_remove_acked` leaves is an end of the stack) gives `RestShrinks`, that the
stack stays an end of the file whatever number an acknowledgment has.

`DeliveryProofs` proves the rest, and the refinement, for a link that keeps the
order and an output that takes every write:

| Theorem | Property |
|---|---|
| `LapsAreTold` | `NoLapMistaken` |
| `AcknowledgedFirstWritten` | `AcknowledgedIsWritten` |
| `LastIsLast` | `LastComesLast` |
| `SuccessMeansDelivery` | `SuccessIsDelivery` |
| `ReceptionIsComplete` | `ReceivedSuccessfully` |
| `AcksOnlyAdvance` | `AcksAdvance` |
| `TransferIsReliable` | `ImplementsReliableTransfer` |

They hold for every length of the file, every number of losses, duplicates and
damaged datagrams, early timers, any capacity of the link, and every window of at
most half of the numbers. Each has the hypothesis `Orderly`, which says
`Reordering = FALSE` and `WritesMayFail = FALSE`: run `success_is_delivery` refutes
`SuccessMeansDelivery` without the first, and without the second a block whose
`write()` fails is acknowledged as written. The inductive invariant,
`DeliveryInv`, relates the two programs through what is on its way between them,
for *a* packets gone from the sender's stack and *r* packets written:

- the acknowledgments on their way never go back, and none is ahead of *r*
  (`AcksIn`), so the sender's *a* stays behind *r* (this is what a link that
  reorders takes away);
- what was transmitted is less than a window ahead of the first packet not
  acknowledged, and the terminating packet comes after all the others are
  (`SentIn`); so what is buffered or on its way is less than a window ahead too;
- a datagram on its way is less than a window behind what is written, what is
  buffered and what travels in front of it (`DataIn`), however old a copy it is;
- a buffered packet is the one its number says, at its distance from the awaited
  one (`BufferIn`);
- while a refusal is pending nothing has been acknowledged, so the restart of the
  loop by `main` with `lastSeqnumAcked` 0 restarts where the file begins.

The two bounds together put every packet that can reach the receiver less than a
window from the awaited one, on either side: `Placed` concludes from
2 × window ≤ space that `isInRange` tells the two sides apart. Once the receiver
has closed the file is whole, and nothing is asked of the sender any more. Each
part has a lemma for each thing that can happen to it (kept in order, sent, read,
written, marked), and each action of `Transfer` cites the ones it needs.
`TransferIsReliable` then takes each step to `WriteNext`, `Close`, `Succeed` or a
stutter of `ReliableTransfer`.

Its second part is about a link that reorders too, `Reordering` TRUE or FALSE, and
about files shorter than the sequence numbers, for which alone the delivery holds
there: run `success_is_delivery` refutes it for one that wraps. The hypothesis is
`Brief`: writes that succeed, and a file of at most `SeqSpace - MAX_WINDOW_SIZE`
blocks, and of two fewer than the numbers (225 blocks with the values of the code;
`short_file_reordered` has a file of exactly that bound).

| Theorem | Property |
|---|---|
| `ShortFileTold` | `NoLapMistaken` |
| `ShortFileAcknowledged` | `AcknowledgedIsWritten` |
| `ShortFileLast` | `LastComesLast` |
| `ShortFileSuccess` | `SuccessIsDelivery` |
| `ShortFileReceived` | `ReceivedSuccessfully` |
| `ShortFileIsReliable` | `ImplementsReliableTransfer` |

`AcksAdvance` is not among them: a late ACK takes `lastSeqnumAcked` back. The
inductive invariant, `BriefInv`, therefore speaks of no order. Whatever is on its
way is of the file (`DataOfFile`) or acknowledges what is written (`AcksBehind`),
so it does not matter which datagram is read or lost: `Within` says that what is
left was there before. Three facts make that enough:

- a number that does not wrap is the packet (`NumberIs`), and the window above the
  awaited number ends before the numbers start again (`BriefPlaced`);
- a late ACK is for a packet that has left the stack, whose predecessor has left it
  too, and it is not the number of the ACK of the terminating packet: line 266 of
  `process_response` ignores it (`BriefAck`). `stack_remove_acked` would otherwise
  empty the stack in search of it, which is what happens to a file that wraps;
- the terminating packet is transmitted only as the packet that the last ACK asks
  for, and no ACK asks for it before the rest is written (`BriefOfSend`).

`SafeInv`, which both invariants imply, is what the refinement needs; the lemmas on
the receiver's buffer (`BufferAdvances`, `BufferJoined`, `BufferDrained`) and
`StepImplements` serve both parts.

`TimersProofs` proves `TimersAreLookedAt` (`TimersCoverSent`) and
`SenderNeverStuck` (`NeverStuck`), for every file, window, capacity and number of
losses and duplicates, early timers included (`NeverStuck` is checked with
`TimelyNetwork`, and holds without it). `NeverStuck` is that a sender with no timer
running satisfies `MaySend`, the four conditions of lines 90 to 112 together. To `Orderly` they add `Unharmed`:
the link damages nothing. A damaged datagram is answered by a NACK of the packet
awaited, transmitted or not, and run `damage_stops_sender` shows what can follow.
`TimersInv` adds to `DeliveryInv`, until everything is transmitted:

- nothing but packets of the file and ACKs with an open window is on its way, and
  no ACK before the receiver is launched (`Clean`; that the window is open is the
  argument of `OpenReceiver`);
- the packets transmitted or acknowledged are the first *m* of the file
  (`FirstSent`), for some *m*;
- what the sender transmits next is the packet after them (`Onward`), or one of
  them again (`Back`): an expired timer, a third copy of an ACK, or the restart of
  the loop by `main`. After a repetition `lastEncodedSeqnum` is the *m*-th packet,
  so the sender goes on where it was;
- while it waits something transmitted is not acknowledged, so that it never comes
  to wait with no timer running: `MayGoOn` shows that none of the conditions of
  `MaySend` keeps back a packet that follows, the terminating one included, which
  `HoldLast` holds only while something before it is not acknowledged;
- before the receiver listens the window of 1 has let out one packet at most
  (`Unheard`), so a refusal that is pending finds the sender with one packet out,
  and the restart, which sends the first packet again, leaves no gap.

Assumptions used: `SeqNumAssumption`, `WrapAssumption`, `NetworkAssumption`,
`SenderAssumption`, `ReceiverAssumption`, `TransferAssumption`, which TLC
evaluates in the runs of `Transfer`.

`PacketProofs` proves the two properties of run `packet`, and what the code does where
run `truncated_is_recognised` refutes the header file, for payloads of any bytes and
any length up to `MAX_PAYLOAD_SIZE`:

| Theorem | Statement |
|---|---|
| `RoundTrips` | `RoundTrip` |
| `RefusesTruncated` | `TruncatedIsRefused` |
| `AcceptsOnlyIntact` | `AcceptedIsIntact` |

The invariant, `PacketInv`, says what the link can have made of the datagram
(`Carried`). Nothing on the link touches the CRC of the header, so a header that
is accepted is the packet's, TR bit included: this refuses every truncated packet,
truncated again or not. Below it, one change leaves the payload or its CRC
as written, and `ReadsPayload` shows that two that agree, one of which is the
packet's, are the packet's payload. The first two theorems hold for any
number of changes; `AcceptsOnlyIntact` has the hypothesis `TamperedOnce`
(`MaxTampering <= 1`, the bound of the run), for changing the payload and then its
CRC to match is a forgery that no checksum detects. Assumption used:
`PacketAssumption`, which TLC evaluates in `packet`.

Every safety property that a passing run checks is stated by a theorem. Only
model-checked: `SenderEnds` and `ReceiverEnds` (`transfer_ends`), for liveness under
fairness is out of the prover's reach, and the counterexamples of the runs that
expect one.

## 5. Not modelled, and why

- Messages on `stderr`, `stack_print`, the measured duration: output only.
- Failures of `malloc` in the two loops: the programs go on with a null pointer or
  give up; memory running out is modelled in `LinkedStack` and, in effect, by
  `ReadFile!ReadFails`.
- Standard input whose `read()` fails: `sender.c:236` then never leaves its loop.
- Memory behind a buffer (`send_reply` allocates the size of a pointer for twelve
  bytes): `Packet` knows only the size that `pkt_encode` is told.
- The exact time: `select` and `RTlength` are the nondeterminism of `Idle` and
  `Expire`.
- The count of `main` (`sender.c:138`), which stops at 9: the loop has no end that
  depends on it.
- A third program on the link once the receiver is connected: its socket filters
  what comes later, and `StartUp` has what came before.

## 6. Plan

Done: the modules of section 2, the runs of section 3, the proofs of section 4,
in the order SeqNum, Stack, Receiver, OpenReceiver, LinkedStack, Sender,
Transfer, Packet, ReadFile, Options, StartUp.

Next, the model: larger instances of `Transfer` (a window of 4 across two wraps,
in order).

Next, the proofs: `TimersProofs` for a link that damages datagrams, once the
sender has been changed so that a refusal of what it never sent does not stop it
(run `damage_stops_sender`); whether the bound of `Brief` is the longest file that
a link that reorders delivers.

## 7. Running

```
tlc -config Transfer.cfg MCTransfer.tla
tlapm OpenReceiverProofs.tla
```
