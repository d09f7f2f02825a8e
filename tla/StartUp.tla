------------------------------ MODULE StartUp -------------------------------
(***************************************************************************)
(* main() of sender.c and of receiver.c up to their loops, for programs    *)
(* that run on one machine: the options, init_connection with real_address *)
(* and create_socket, then read_file in a sender and wait_for_client in a  *)
(* receiver, and the first packet from the one to the other.               *)
(***************************************************************************)
EXTENDS Options, ReadFile

CONSTANTS
  Receivers,
  Starts,     \* how programs may be started: program -> [argv, stdin]
  Hosts,      \* the names real_address() resolves: name -> address
  PortSpace,  \* 65536 in the code: htons() keeps 16 bits
  QueueSize,  \* datagrams a socket holds
  MaxDamages  \* datagrams the link may damage

Programs == Senders \cup Receivers

\* No word of argv is a null pointer, and no name of a host begins with a dash.
ASSUME StartUpAssumption ==
  /\ Senders \cap Receivers = {}
  /\ \A s \in Starts :
       /\ DOMAIN s \subseteq Programs
       /\ \A p \in DOMAIN s : /\ s[p].argv \in Seq(STRING \ {NULL})
                             /\ s[p].stdin \in Seq(Bytes)
  /\ \A h \in DOMAIN Hosts : ~IsOption(h)
  /\ {PortSpace, QueueSize} \subseteq Nat \ {0}
  /\ MaxDamages \in Nat

\* A peer, or the sender of a packet, can be none.
ASSUME NullAssumption == NULL \notin Senders

AnyAddress == "::"
NoAddress == [address |-> NULL, port |-> 0]

VARIABLES
  start,     \* the programs that are started, and how
  main,      \* where main() stands and its globals, see Init
  queue,     \* the datagrams on each receiver's socket: [from, intact]
  accepted,  \* whose first packet a receiver has accepted, or NULL
  damages    \* datagrams that may still be damaged

linkVars == <<queue, accepted, damages>>
vars == <<readVars, start, main, linkVars>>

\* socket: where a receiver's socket is bound, or a sender's is connected.
\* peer: the sender a receiver's socket is connected to.
Init ==
  /\ start \in Starts
  /\ main = [p \in Programs |->
       [pc |-> IF p \in DOMAIN start THEN "options" ELSE "none",
        hostname |-> NULL, port |-> -1, file |-> NULL, socket |-> NoAddress, peer |-> NULL]]
  /\ ReadInit([s \in Senders |-> IF s \in DOMAIN start THEN start[s].stdin ELSE <<>>])
  /\ queue = [r \in Receivers |-> <<>>]
  /\ accepted = [r \in Receivers |-> NULL]
  /\ damages = MaxDamages

-----------------------------------------------------------------------------
Options(p) ==
  LET o == process_options(start[p].argv)
  IN  /\ main[p].pc = "options"
      /\ main' = [main EXCEPT
           ![p].pc = IF o.status = "EXIT_SUCCESS" THEN "connect" ELSE "failed",
           ![p].hostname = o.hostname, ![p].port = o.port, ![p].file = o.file]
      /\ UNCHANGED <<readVars, start, linkVars>>

\* init_connection refuses the port, or real_address() the name.
Refused(p) == main[p].port < 0 \/ main[p].hostname \notin DOMAIN Hosts

RefuseConnection(p) ==
  /\ main[p].pc = "connect"
  /\ Refused(p)
  /\ main' = [main EXCEPT ![p].pc = "failed"]
  /\ UNCHANGED <<readVars, start, linkVars>>

\* What create_socket() is given: the port goes through htons().
Address(p) ==
  [address |-> Hosts[main[p].hostname], port |-> main[p].port % PortSpace]

\* The sender: its socket is connected, but for port 0; connect() may fail.
Connect(s) ==
  /\ main[s].pc = "connect"
  /\ ~Refused(s)
  /\ \/ main' = [main EXCEPT ![s].pc = "read",
                   ![s].socket = IF main[s].port > 0 THEN Address(s) ELSE NoAddress]
     \/ main[s].port > 0 /\ main' = [main EXCEPT ![s].pc = "failed"]
  /\ UNCHANGED <<readVars, start, linkVars>>

\* Two addresses of a receiver that one datagram may reach.
Overlap(a, b) ==
  a.port = b.port /\ (a.address = b.address \/ AnyAddress \in {a.address, b.address})

Free(a) == \A r \in Receivers : ~Overlap(a, main[r].socket)

\* The receiver: its socket is bound, but for port 0.  bind() chooses a port
\* when htons() made it 0; it fails when the port is taken, and may otherwise.
Bind(r) ==
  /\ main[r].pc = "connect"
  /\ ~Refused(r)
  /\ \/ /\ main[r].port = 0
        /\ main' = [main EXCEPT ![r].pc = "wait"]
     \/ /\ main[r].port > 0
        /\ \E port \in 1 .. PortSpace - 1 :
             LET a == [Address(r) EXCEPT !.port = port]
             IN  /\ Address(r).port \in {0, port}
                 /\ Free(a)
                 /\ main' = [main EXCEPT ![r].pc = "wait", ![r].socket = a]
     \/ main[r].port > 0 /\ main' = [main EXCEPT ![r].pc = "failed"]
  /\ UNCHANGED <<readVars, start, linkVars>>

\* Faulty: without MSG_PEEK.
wait_for_client_consumes(r) ==
  /\ main[r].pc = "wait"
  /\ queue[r] # <<>>
  /\ main' = [main EXCEPT ![r].pc = "loop", ![r].peer = Head(queue[r]).from]
  /\ queue' = [queue EXCEPT ![r] = Tail(@)]
  /\ UNCHANGED <<readVars, start, accepted, damages>>

\* The first datagram is left on the socket (MSG_PEEK); connect() filters what
\* comes later, and leaves what came before.
wait_for_client(r) ==
  /\ main[r].pc = "wait"
  /\ queue[r] # <<>>
  /\ main' = [main EXCEPT ![r].pc = "loop", ![r].peer = Head(queue[r]).from]
  /\ UNCHANGED <<readVars, start, linkVars>>

-----------------------------------------------------------------------------
Read(s) ==
  /\ main[s].pc = "read"
  /\ read_file(s, IF main[s].file = NULL THEN "stdin" ELSE main[s].file)
  /\ UNCHANGED <<start, main, linkVars>>

Killed(s) ==
  /\ Kill(s)
  /\ UNCHANGED <<start, main, linkVars>>

\* The receiver whose socket takes what s sends: :: stands for the machine
\* itself, and a connected socket takes only what its peer sends.
Takes(r, s) ==
  /\ main[r].socket.port = main[s].socket.port
  /\ main[r].socket.port # 0
  /\ \/ main[r].socket.address = main[s].socket.address
     \/ AnyAddress \in {main[r].socket.address, main[s].socket.address}
  /\ main[r].peer \in {NULL, s}

\* The first packet, or a repetition of it.
SendFirst(s, r, intact) ==
  /\ reader[s].pc = "loaded"
  /\ Takes(r, s)
  /\ Len(queue[r]) < QueueSize
  /\ damages' = damages - (IF intact THEN 0 ELSE 1)
  /\ damages' >= 0
  /\ queue' = [queue EXCEPT ![r] = Append(@, [from |-> s, intact |-> intact])]
  /\ UNCHANGED <<readVars, start, main, accepted>>

\* The loop of the receiver reads it: accepted when it is the packet awaited.
ReadFirst(r) ==
  /\ main[r].pc = "loop"
  /\ queue[r] # <<>>
  /\ queue' = [queue EXCEPT ![r] = Tail(@)]
  /\ accepted' = [accepted EXCEPT ![r] =
       IF @ = NULL /\ Head(queue[r]).intact THEN Head(queue[r]).from ELSE @]
  /\ UNCHANGED <<readVars, start, main, damages>>

Next ==
  \/ \E p \in Programs : Options(p) \/ RefuseConnection(p)
  \/ \E s \in Senders : Connect(s) \/ Read(s) \/ Killed(s)
  \/ \E r \in Receivers : Bind(r) \/ wait_for_client(r) \/ ReadFirst(r)
  \/ \E s \in Senders, r \in Receivers, intact \in BOOLEAN : SendFirst(s, r, intact)

Spec == Init /\ [][Next]_vars

-----------------------------------------------------------------------------
\* The options of argv begin at the positions of os, and take these ones.
OptionsAt(argv, os) ==
  /\ \A k \in os : argv[k] = "-f" \/ argv[k] \in DOMAIN Attached
  /\ \A k \in os : argv[k] = "-f" => k < Len(argv) /\ k + 1 \notin os

Taken(argv, os) == os \cup {k + 1 : k \in {o \in os : argv[o] = "-f"}}

\* The file that the option at position k names.
FileAt(argv, k) == IF argv[k] = "-f" THEN argv[k + 1] ELSE Attached[argv[k]]

\* "[-f X] hostname port" (sender.c:69, receiver.c:65): a program that comes
\* past init_connection was given two words beside its options, resolved the
\* first and, if the second is a port of 16 bits other than 0, has its socket
\* there; its file is that of the last option, if there is one.
StartedAsAsked ==
  \A p \in DOMAIN start :
    main[p].pc \notin {"options", "connect", "failed"} =>
      LET argv == start[p].argv
      IN  \E i, j \in 1 .. Len(argv), os \in SUBSET (1 .. Len(argv)) :
            /\ i < j
            /\ OptionsAt(argv, os)
            /\ Taken(argv, os) = 1 .. Len(argv) \ {i, j}
            /\ main[p].hostname = argv[i]
            /\ Atoi(argv[j]) \in 1 .. PortSpace - 1 =>
                 main[p].socket = [address |-> Hosts[argv[i]], port |-> Atoi(argv[j])]
            /\ main[p].file = IF os = {} THEN NULL
                              ELSE FileAt(argv, CHOOSE k \in os : \A o \in os : o <= k)

\* wait_for_client.c:32, waiting "does not 'consume' the data of the message":
\* unless a datagram was damaged, the first packet a receiver accepts comes
\* from the sender it is connected to, also when others had sent to it before.
AcceptsItsPeer ==
  \A r \in Receivers :
    damages = MaxDamages /\ accepted[r] # NULL => accepted[r] = main[r].peer

\* A sender gives up its standard input only when a call failed or another
\* sender has removed stdin.txt.
GivesUpOnlyWhenDisturbed ==
  \A s \in Senders :
    reader[s].pc = "failed" /\ main[s].file \in {NULL, "stdin"} => reader[s].disturbed

\* sender.c:71, without -f the data are those of standard input ("elles le
\* seront depuis stdin").
CarriesStdin ==
  \A s \in Senders :
    reader[s].pc = "loaded" /\ main[s].file = NULL
      => Payloads(reader[s].sendingStack) = Segmented(start[s].stdin)

=============================================================================
