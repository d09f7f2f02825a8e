------------------------------ MODULE ReadFile ------------------------------
(***************************************************************************)
(* read_file of sender.c, for senders that run in one directory: how the   *)
(* file, or what comes on standard input, becomes the stack of packets a   *)
(* sender starts with.  Standard input is first copied to stdin.txt, which *)
(* is opened again by its name and removed once it is read.  Another       *)
(* sender may open, write or remove a file of that name meanwhile, and one *)
(* that is killed leaves it behind.                                        *)
(***************************************************************************)
EXTENDS Stack

CONSTANTS
  MAX_PAYLOAD_SIZE,  \* bytes of a block, 512 in the code
  Bytes,             \* what files are made of
  Senders,           \* the senders started in the directory
  Files,             \* the other files of the directory: name -> bytes
  MaxFailures        \* how many calls of open(), read() and write() may fail

\* In the code 200 < 255: the last number of a lap is above WrapHigh.
ASSUME ReadFileAssumption ==
  /\ WrapHigh < SeqSpace - 1
  /\ MAX_PAYLOAD_SIZE \in Nat \ {0}
  /\ \A f \in DOMAIN Files : Files[f] \in Seq(Bytes)
  /\ "stdin.txt" \notin DOMAIN Files
  /\ DOMAIN Files \cap Senders = {}
  /\ MaxFailures \in Nat

\* No descriptor, and no file of that name.
NoFile == "none"

ASSUME NoFileAssumption == NoFile \notin Senders \cup DOMAIN Files

VARIABLES
  reader,    \* the variables of read_file in each sender, see ReadInit
  stdinTxt,  \* the sender that created the file named stdin.txt, or NoFile
  content,   \* the bytes of the file each sender has created under that name
  failures   \* calls that may still fail

readVars == <<reader, stdinTxt, content, failures>>

\* at: the offset of the descriptor fd.  input: what the sender is asked to
\* send.  Two are kept for the properties only: leftover, the length of
\* stdin.txt when it was opened; disturbed, whether a call failed or another
\* sender wrote to the file in use or removed its name before the second open.
ReadInit(stdin) ==
  /\ reader = [s \in Senders |->
       [pc |-> "none", input |-> stdin[s], copied |-> 0, fd |-> NoFile, at |-> 0,
        sendingStack |-> <<>>, nextSeqnum |-> 0,
        leftover |-> 0, disturbed |-> FALSE]]
  /\ stdinTxt = NoFile
  /\ content = [s \in Senders |-> <<>>]
  /\ failures = MaxFailures

\* The bytes of an open file.
Content(fd) == IF fd \in Senders THEN content[fd] ELSE Files[fd]

Fail == failures > 0 /\ failures' = failures - 1

Min2(a, b) == IF a < b THEN a ELSE b

-----------------------------------------------------------------------------
\* The descriptor is used unchecked when the open() failed.
OpenCopyFails(s) ==
  /\ reader[s].pc = "none"
  /\ Fail
  /\ reader' = [reader EXCEPT ![s].pc = "copy", ![s].disturbed = TRUE]
  /\ UNCHANGED <<stdinTxt, content>>

\* Faulty: without O_CREAT.
OpenCopyIfThere(s) ==
  /\ reader[s].pc = "none"
  /\ reader' = [reader EXCEPT ![s].pc = "copy", ![s].fd = stdinTxt,
                  ![s].leftover = IF stdinTxt = NoFile THEN 0 ELSE Len(Content(stdinTxt))]
  /\ UNCHANGED <<stdinTxt, content, failures>>

\* O_CREAT, and no O_TRUNC.
OpenCopy(s) ==
  /\ reader[s].pc = "none"
  /\ stdinTxt' = IF stdinTxt = NoFile THEN s ELSE stdinTxt
  /\ reader' = [reader EXCEPT ![s].pc = "copy", ![s].fd = stdinTxt',
                              ![s].leftover = Len(content[stdinTxt'])]
  /\ UNCHANGED <<content, failures>>

\* Faulty: at the end of the file, as with O_APPEND.
WrittenAtEnd(bytes, at, chunk) == bytes \o chunk

\* What write() at an offset makes of the bytes of a file.
Written(bytes, at, chunk) ==
  SubSeq(bytes, 1, at) \o chunk \o SubSeq(bytes, at + Len(chunk) + 1, Len(bytes))

\* A read() of standard input gives n bytes, at most a block, and the write()
\* after it takes the first m of them: all, unless it fails.  What it did not
\* take is dropped.
CopyChunk(s, n, m) ==
  LET r  == reader[s]
      fd == r.fd
  IN  /\ r.pc = "copy"
      /\ r.copied + n <= Len(r.input)
      /\ \/ fd # NoFile /\ m = n /\ UNCHANGED failures
         \/ fd = NoFile /\ m = 0 /\ UNCHANGED failures
         \/ fd # NoFile /\ m < n /\ Fail
      /\ content' = IF fd = NoFile THEN content ELSE
           [content EXCEPT ![fd] =
              Written(@, r.at, SubSeq(r.input, r.copied + 1, r.copied + m))]
      /\ reader' = [t \in Senders |->
           IF t = s
           THEN [r EXCEPT !.copied = r.copied + n, !.at = r.at + m,
                          !.disturbed = @ \/ m < n]
           ELSE [reader[t] EXCEPT !.disturbed =
                  @ \/ (m > 0 /\ reader[t].pc \in {"copy", "segment"} /\ reader[t].fd = fd)]]
      /\ UNCHANGED stdinTxt

\* Standard input has ended: stdin.txt is closed and opened again.
CopyEnd(s) ==
  /\ reader[s].pc = "copy"
  /\ reader[s].copied = Len(reader[s].input)
  /\ reader' = [reader EXCEPT ![s].pc = IF stdinTxt = NoFile THEN "failed" ELSE "segment",
                              ![s].fd = stdinTxt, ![s].at = 0]
  /\ UNCHANGED <<stdinTxt, content, failures>>

\* Which file a name stands for.
Named(file) ==
  CASE file = "stdin.txt" -> stdinTxt
    [] file \in DOMAIN Files -> file
    [] OTHER -> NoFile

OpenFile(s, file) ==
  LET fd == Named(file)
  IN  /\ reader[s].pc = "none"
      /\ reader' = [reader EXCEPT
           ![s].pc = IF fd = NoFile THEN "failed" ELSE "segment",
           ![s].fd = fd,
           ![s].input = IF fd = NoFile THEN <<>> ELSE Content(fd)]
      /\ UNCHANGED <<stdinTxt, content, failures>>

-----------------------------------------------------------------------------
\* A file gives whole blocks but for the last one.
Block(s) ==
  LET bytes == Content(reader[s].fd)
      at    == reader[s].at
  IN  SubSeq(bytes, at + 1, Min2(at + MAX_PAYLOAD_SIZE, Len(bytes)))

ReadBlock(s) ==
  /\ reader[s].pc = "segment"
  /\ Block(s) # <<>>
  /\ reader' = [reader EXCEPT
       ![s].at = @ + Len(Block(s)),
       ![s].sendingStack = stack_enqueue(@,
          [seqnum |-> reader[s].nextSeqnum, payload |-> Block(s)]),
       ![s].nextSeqnum = Incr(@)]
  /\ UNCHANGED <<stdinTxt, content, failures>>

\* The end of the file: stdin.txt is removed, whatever was read and whoever
\* made it, and the terminating packet is put on the stack.
ReadEnd(s) ==
  /\ reader[s].pc = "segment"
  /\ Block(s) = <<>>
  /\ stdinTxt' = NoFile
  /\ reader' = [t \in Senders |->
       IF t = s
       THEN [reader[s] EXCEPT
               !.pc = "loaded",
               !.sendingStack = stack_enqueue(@,
                  [seqnum |-> reader[s].nextSeqnum, payload |-> <<>>])]
       ELSE [reader[t] EXCEPT !.disturbed = @ \/ reader[t].pc = "copy"]]
  /\ UNCHANGED <<content, failures>>

\* The open() of the copy fails, a read() of the file, or there is no memory for
\* the packet: main() returns, and stdin.txt stays.
ReadFails(s) ==
  /\ \/ reader[s].pc = "copy" /\ reader[s].copied = Len(reader[s].input)
     \/ reader[s].pc = "segment"
  /\ Fail
  /\ reader' = [reader EXCEPT ![s].pc = "failed", ![s].disturbed = TRUE]
  /\ UNCHANGED <<stdinTxt, content>>

\* The sender is interrupted; stdin.txt stays.
Kill(s) ==
  /\ reader[s].pc \in {"copy", "segment"}
  /\ reader' = [reader EXCEPT ![s].pc = "killed"]
  /\ UNCHANGED <<stdinTxt, content, failures>>

\* A sender whose options give it this file.
read_file(s, file) ==
  \/ file = "stdin" /\ (OpenCopy(s) \/ OpenCopyFails(s))
  \/ file # "stdin" /\ OpenFile(s, file)
  \/ \E n \in 1 .. MAX_PAYLOAD_SIZE : \E m \in 0 .. n : CopyChunk(s, n, m)
  \/ CopyEnd(s)
  \/ ReadBlock(s)
  \/ ReadEnd(s)
  \/ ReadFails(s)

-----------------------------------------------------------------------------
Packets == [seqnum : SeqNums, payload : Seq(Bytes)]

Readers ==
  [pc : {"none", "copy", "segment", "loaded", "failed", "killed"},
   input : Seq(Bytes), copied : Nat,
   fd : Senders \cup DOMAIN Files \cup {NoFile}, at : Nat,
   sendingStack : Seq(Packets), nextSeqnum : SeqNums,
   leftover : Nat, disturbed : BOOLEAN]

\* The file named stdin.txt is one that a sender has created, and what is
\* read of it are bytes, whoever writes there at the same time.
ReaderTypeOK ==
  /\ reader \in [Senders -> Readers]
  /\ stdinTxt \in Senders \cup {NoFile}
  /\ content \in [Senders -> Seq(Bytes)]
  /\ failures \in Nat

\* The packets of a file: whole blocks but the last one, which is not empty,
\* then the terminating packet.
Segmented(bytes) ==
  LET count == (Len(bytes) + MAX_PAYLOAD_SIZE - 1) \div MAX_PAYLOAD_SIZE
  IN  [k \in 1 .. count + 1 |->
         SubSeq(bytes, (k - 1) * MAX_PAYLOAD_SIZE + 1,
                Min2(k * MAX_PAYLOAD_SIZE, Len(bytes)))]

Payloads(stack) == [k \in 1 .. Len(stack) |-> stack[k].payload]

\* From 0 on, each number is the one after that of the packet below it.
Numbered(stack) ==
  \A k \in 1 .. Len(stack) :
    stack[k].seqnum = IF k = 1 THEN 0 ELSE Incr(stack[k - 1].seqnum)

\* sender.c:59, packets are stacked "with increasing seqnum": at every wrap,
\* and whatever happens to the file meanwhile.
NumberedInOrder == \A s \in Senders : Numbered(reader[s].sendingStack)

\* A sender that nothing disturbed carries what it was asked to send, cut as
\* the sender loop assumes it, unless it found a stdin.txt longer than that.
CarriesInput ==
  \A s \in Senders :
    LET r == reader[s]
    IN  r.pc = "loaded" /\ ~r.disturbed /\ r.leftover <= Len(r.input)
          => Payloads(r.sendingStack) = Segmented(r.input)

=============================================================================
