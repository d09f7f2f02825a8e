--------------------------- MODULE StartUpProofs ----------------------------
(***************************************************************************)
(* The stack a sender starts with is numbered without a gap, for every     *)
(* file, every number of senders in its directory, every size of the       *)
(* sequence number space and every failure; the first packet that a        *)
(* receiver accepts is that of the sender it connects to; an undisturbed   *)
(* sender carries its whole input; and every program that comes past       *)
(* init_connection was started as its command line asks.                   *)
(***************************************************************************)
EXTENDS StartUp, StackProofs

\* The number read_file gives to the next packet.
AfterLast(stack) == IF stack = <<>> THEN 0 ELSE Incr(stack[Len(stack)].seqnum)

\* A copy is written at a place where the file has bytes before it, and a
\* packet is put on the stack with the number after the last one.
ReaderOK(r, c) ==
  /\ r.pc = "copy" /\ r.fd # NoFile => r.fd \in Senders /\ r.at <= Len(c[r.fd])
  /\ r.pc = "segment" => r.fd # NoFile
  /\ r.pc = "none" => r.fd = NoFile /\ r.at = 0
  /\ Numbered(r.sendingStack)
  /\ r.pc # "loaded" => r.nextSeqnum = AfterLast(r.sendingStack)

\* The inductive invariant.
ReaderInv ==
  /\ ReaderTypeOK
  /\ \A s \in Senders : ReaderOK(reader[s], content)

-----------------------------------------------------------------------------
\* The number after the last one never passes that one in the walk of
\* stack_enqueue, also where the numbers wrap: the packet is put last.
LEMMA EnqueueNext ==
  ASSUME NEW stack \in Seq(Packets), NEW pkt \in Packets,
         Numbered(stack), pkt.seqnum = AfterLast(stack)
  PROVE  LET new == stack_enqueue(stack, pkt)
         IN  /\ new \in Seq(Packets)
             /\ Len(new) = Len(stack) + 1
             /\ \A i \in 1 .. Len(stack) : new[i] = stack[i]
             /\ new[Len(stack) + 1] = pkt
             /\ Numbered(new)
             /\ AfterLast(new) = Incr(pkt.seqnum)
<1> DEFINE n == Len(stack)
           new == stack_enqueue(stack, pkt)
<1>0. n \in Nat /\ \A i \in 1 .. n : stack[i] \in Packets /\ stack[i].seqnum \in SeqNums
  <2>1. n \in Nat /\ \A i \in 1 .. n : stack[i] \in Packets
    BY LenProperties, ElementOfSeq
  <2> QED BY <2>1 DEF Packets
<1>1. /\ new \in Seq(Packets) /\ Len(new) = n + 1
      /\ \A i \in 1 .. n : new[i] = stack[i]
      /\ new[n + 1] = pkt
  <2>1. CASE stack = <<>>
    <3>1. new = <<pkt>> /\ n = 0
      BY <2>1 DEF stack_enqueue
    <3> QED BY <3>1
  <2>2. CASE stack # <<>>
    <3>1. n > 0
      BY <2>2, <1>0, EmptySeq
    <3>2. ~Passes(pkt.seqnum, stack[n])
      <4>1. stack[n].seqnum \in SeqNums /\ pkt.seqnum = Incr(stack[n].seqnum)
        BY <1>0, <2>2, <3>1 DEF AfterLast
      <4>2. pkt.seqnum = IF stack[n].seqnum + 1 = SeqSpace THEN 0 ELSE stack[n].seqnum + 1
        BY <4>1, IncrIs
      <4>3. 0 < WrapLow /\ WrapLow \in Nat /\ WrapHigh \in Nat
        BY WrapAssumption, SeqNumAssumption DEF SeqNums
      <4> QED BY <4>1, <4>2, <4>3, ReadFileAssumption, SeqNumAssumption DEF Passes, SeqNums
    <3>3. EnqueueAfter(stack, pkt.seqnum) = n
      <4> DEFINE P(i) == /\ i = 1 \/ ~Passes(pkt.seqnum, stack[i])
                         /\ \A j \in i + 1 .. n : Passes(pkt.seqnum, stack[j])
      <4>1. P(n)
        BY <3>2, <1>0
      <4>2. \A i \in 1 .. n : P(i) => i = n
        <5>1. ASSUME NEW i \in 1 .. n, P(i), i # n
              PROVE  FALSE
          <6>1. n \in i + 1 .. n
            BY <5>1, <1>0
          <6> QED BY <6>1, <5>1, <3>2
        <5> QED BY <5>1
      <4>3. n \in 1 .. n
        BY <1>0, <3>1
      <4> HIDE DEF P
      <4>4. (CHOOSE i \in 1 .. n : P(i)) = n
        BY <4>1, <4>2, <4>3
      <4> QED BY <4>4 DEF EnqueueAfter, P
    <3>4. new = InsertAt(stack, n + 1, pkt)
      BY <2>2, <3>3 DEF stack_enqueue
    <3> QED BY <3>4, <1>0, InsertAtIs
  <2> QED BY <2>1, <2>2
<1> HIDE DEF new
<1>2. ASSUME NEW k \in 1 .. n + 1
      PROVE  new[k].seqnum = IF k = 1 THEN 0 ELSE Incr(new[k - 1].seqnum)
  <2>1. CASE k <= n
    <3>1. k = 1 \/ k - 1 \in 1 .. n
      BY <1>0
    <3> QED BY <2>1, <3>1, <1>0, <1>1 DEF Numbered
  <2>2. CASE k = n + 1
    <3>1. CASE n = 0
      <4>1. stack = <<>>
        BY <3>1, EmptySeq
      <4> QED BY <4>1, <3>1, <2>2, <1>1 DEF AfterLast
    <3>2. CASE n > 0
      <4>1. stack # <<>> /\ n \in 1 .. n /\ k # 1 /\ k - 1 = n
        BY <3>2, <2>2, <1>0, EmptySeq
      <4> QED BY <4>1, <2>2, <1>1 DEF AfterLast
    <3> QED BY <3>1, <3>2, <1>0
  <2> QED BY <2>1, <2>2, <1>0
<1>3. Numbered(new)
  BY <1>1, <1>2 DEF Numbered
<1>4. new # <<>>
  BY <1>1, <1>0, EmptySeq
<1>5. AfterLast(new) = Incr(pkt.seqnum)
  BY <1>1, <1>4 DEF AfterLast
<1> QED BY <1>1, <1>3, <1>5 DEF new

\* A write keeps the bytes around its place and puts its own there; the file
\* never gets shorter, and longer only by what passes its end.
LEMMA WrittenIs ==
  ASSUME NEW bytes \in Seq(Bytes), NEW at \in Nat, at <= Len(bytes),
         NEW chunk \in Seq(Bytes)
  PROVE  LET all == Written(bytes, at, chunk)
             end == at + Len(chunk)
         IN  /\ all \in Seq(Bytes)
             /\ Len(all) = IF end < Len(bytes) THEN Len(bytes) ELSE end
             /\ \A i \in 1 .. at : all[i] = bytes[i]
             /\ \A i \in 1 .. Len(chunk) : all[at + i] = chunk[i]
             /\ \A i \in end + 1 .. Len(bytes) : all[i] = bytes[i]
<1> DEFINE n == Len(bytes)
           c == Len(chunk)
           before == SubSeq(bytes, 1, at)
           after == SubSeq(bytes, at + c + 1, n)
<1>0. n \in Nat /\ c \in Nat /\ \A i \in 1 .. n : bytes[i] \in Bytes
  BY LenProperties, ElementOfSeq
<1>1. /\ before \in Seq(Bytes) /\ Len(before) = at
      /\ \A i \in 1 .. at : before[i] = bytes[i]
  <2>1. \A i \in 1 .. at : bytes[i] \in Bytes
    BY <1>0
  <2>2. /\ SubSeq(bytes, 1, at) \in Seq(Bytes)
        /\ Len(SubSeq(bytes, 1, at)) = IF 1 <= at THEN at - 1 + 1 ELSE 0
        /\ \A i \in 1 .. at - 1 + 1 : SubSeq(bytes, 1, at)[i] = bytes[1 + i - 1]
    BY <2>1, SubSeqProperties
  <2> QED BY <2>2
<1>2. /\ after \in Seq(Bytes) /\ Len(after) = IF at + c + 1 <= n THEN n - (at + c) ELSE 0
      /\ \A i \in 1 .. n - (at + c) : after[i] = bytes[at + c + i]
  <2>1. \A i \in at + c + 1 .. n : bytes[i] \in Bytes
    BY <1>0
  <2>2. /\ SubSeq(bytes, at + c + 1, n) \in Seq(Bytes)
        /\ Len(SubSeq(bytes, at + c + 1, n))
             = IF at + c + 1 <= n THEN n - (at + c + 1) + 1 ELSE 0
        /\ \A i \in 1 .. n - (at + c + 1) + 1 :
             SubSeq(bytes, at + c + 1, n)[i] = bytes[at + c + 1 + i - 1]
    BY <2>1, <1>0, SubSeqProperties
  <2> HIDE DEF n, c
  <2>3. \A i \in 1 .. n - (at + c) : after[i] = bytes[at + c + i]
    <3>1. n - (at + c) = n - (at + c + 1) + 1
      BY <1>0
    <3>2. \A i \in 1 .. n - (at + c) : at + c + 1 + i - 1 = at + c + i
      BY <1>0
    <3> QED BY <2>2, <3>1, <3>2
  <2> QED BY <2>2, <2>3, <1>0
<1> HIDE DEF before, after
<1> DEFINE upTo == before \o chunk
           all == upTo \o after
<1>3. /\ upTo \in Seq(Bytes) /\ Len(upTo) = at + c
      /\ \A i \in 1 .. at + c :
           upTo[i] = IF i <= at THEN before[i] ELSE chunk[i - at]
  BY <1>1, ConcatProperties
<1>4. Written(bytes, at, chunk) = all
  BY DEF Written, before, after
<1> HIDE DEF upTo
<1>5. /\ all \in Seq(Bytes) /\ Len(all) = Len(upTo) + Len(after)
      /\ \A i \in 1 .. Len(upTo) : all[i] = upTo[i]
      /\ \A i \in 1 .. Len(after) : all[Len(upTo) + i] = after[i]
  <2>1. upTo \in Seq(Bytes) /\ after \in Seq(Bytes)
    BY <1>2, <1>3
  <2>2. Len(after) \in Nat /\ Len(upTo) \in Nat
    BY <2>1, LenProperties
  <2>3. /\ all \in Seq(Bytes) /\ Len(all) = Len(upTo) + Len(after)
        /\ \A i \in 1 .. Len(upTo) + Len(after) :
             all[i] = IF i <= Len(upTo) THEN upTo[i] ELSE after[i - Len(upTo)]
    BY <2>1, ConcatProperties
  <2> HIDE DEF all
  <2>4. ASSUME NEW i \in 1 .. Len(upTo)
        PROVE  all[i] = upTo[i]
    BY <2>2, <2>3
  <2>5. ASSUME NEW i \in 1 .. Len(after)
        PROVE  all[Len(upTo) + i] = after[i]
    <3>1. /\ Len(upTo) + i \in 1 .. Len(upTo) + Len(after)
          /\ ~(Len(upTo) + i <= Len(upTo)) /\ (Len(upTo) + i) - Len(upTo) = i
      BY <2>2
    <3> QED BY <2>3, <3>1
  <2> QED BY <2>3, <2>4, <2>5
<1> HIDE DEF all, before, after, upTo, n, c
<1>6. Len(all) = IF at + c < n THEN n ELSE at + c
  BY <1>0, <1>2, <1>3, <1>5
<1>7. ASSUME NEW i \in 1 .. at
      PROVE  all[i] = bytes[i]
  <2>1. i \in 1 .. at + c /\ i <= at
    BY <1>0
  <2>2. all[i] = upTo[i]
    BY <2>1, <1>3, <1>5
  <2> QED BY <2>1, <2>2, <1>1, <1>3
<1>8. ASSUME NEW i \in 1 .. c
      PROVE  all[at + i] = chunk[i]
  <2>1. at + i \in 1 .. at + c /\ ~(at + i <= at) /\ (at + i) - at = i
    BY <1>0
  <2> QED BY <2>1, <1>3, <1>5
<1>9. ASSUME NEW i \in at + c + 1 .. n
      PROVE  all[i] = bytes[i]
  <2> DEFINE k == i - (at + c)
  <2>1. k \in 1 .. n - (at + c) /\ at + c + k = i /\ k \in 1 .. Len(after)
    BY <1>0, <1>2
  <2> HIDE DEF k
  <2>2. all[Len(upTo) + k] = after[k] /\ after[k] = bytes[at + c + k]
    BY <2>1, <1>2, <1>5
  <2> QED BY <2>1, <2>2, <1>3
<1> QED BY <1>4, <1>5, <1>6, <1>7, <1>8, <1>9 DEF n, c

-----------------------------------------------------------------------------
\* What the invariant says of one sender depends on its own variables and, if
\* it is copying, on the length of the file it copies to.
LEMMA OneReader ==
  ASSUME ReaderInv, NEW s \in Senders
  PROVE  /\ reader[s] \in Readers
         /\ Numbered(reader[s].sendingStack)
         /\ reader[s].pc = "copy" /\ reader[s].fd # NoFile =>
              reader[s].fd \in Senders /\ reader[s].at <= Len(content[reader[s].fd])
         /\ reader[s].pc = "segment" => reader[s].fd # NoFile
         /\ reader[s].pc = "none" => reader[s].fd = NoFile /\ reader[s].at = 0
         /\ reader[s].pc # "loaded" =>
              reader[s].nextSeqnum = AfterLast(reader[s].sendingStack)
  BY DEF ReaderInv, ReaderTypeOK, ReaderOK

LEMMA InitInv == Init => ReaderInv
<1> SUFFICES ASSUME Init
             PROVE  ReaderInv
  OBVIOUS
<1> DEFINE stdin == [s \in Senders |-> IF s \in DOMAIN start THEN start[s].stdin ELSE <<>>]
<1>1. \A s \in Senders : stdin[s] \in Seq(Bytes)
  <2>1. start \in Starts
    BY DEF Init
  <2>2. <<>> \in Seq(Bytes)
    BY EmptySeq
  <2> QED BY <2>1, <2>2, StartUpAssumption
<1>2. ReadInit(stdin)
  BY DEF Init
<1> HIDE DEF stdin
<1>3. <<>> \in Seq(Bytes) /\ <<>> \in Seq(Packets) /\ 0 \in SeqNums
  BY EmptySeq, SeqNumAssumption DEF SeqNums
<1>4. \A s \in Senders : reader[s] \in Readers
  BY <1>1, <1>2, <1>3 DEF ReadInit, Readers
<1>5. ReaderTypeOK
  <2>1. reader \in [Senders -> Readers]
    BY <1>2, <1>4 DEF ReadInit
  <2> QED BY <2>1, <1>2, <1>3, ReadFileAssumption DEF ReadInit, ReaderTypeOK
<1>6. \A s \in Senders : ReaderOK(reader[s], content)
  <2>1. Numbered(<<>>) /\ AfterLast(<<>>) = 0
    BY DEF Numbered, AfterLast
  <2> QED BY <2>1, <1>2 DEF ReadInit, ReaderOK
<1> QED BY <1>5, <1>6 DEF ReaderInv

\* The actions that change one sender's variables only, and no file's bytes.
LEMMA OwnStep ==
  ASSUME ReaderInv, NEW s \in Senders, NEW r \in Readers,
         reader' = [reader EXCEPT ![s] = r], ReaderOK(r, content),
         UNCHANGED content, stdinTxt' \in Senders \cup {NoFile}, failures' \in Nat
  PROVE  ReaderInv'
<1>1. reader' \in [Senders -> Readers]
  BY DEF ReaderInv, ReaderTypeOK
<1>2. ReaderTypeOK'
  BY <1>1 DEF ReaderInv, ReaderTypeOK
<1>3. ASSUME NEW t \in Senders
      PROVE  ReaderOK(reader[t], content)'
  <2>1. CASE t = s
    BY <2>1, <1>1 DEF ReaderInv, ReaderTypeOK
  <2>2. CASE t # s
    <3>1. reader'[t] = reader[t]
      BY <2>2 DEF ReaderInv, ReaderTypeOK
    <3> QED BY <3>1 DEF ReaderInv
  <2> QED BY <2>1, <2>2
<1> QED BY <1>2, <1>3 DEF ReaderInv

LEMMA FailType ==
  ASSUME ReaderInv, Fail
  PROVE  failures' \in Nat
  BY DEF ReaderInv, ReaderTypeOK, Fail

LEMMA OpenCopyInv ==
  ASSUME ReaderInv, NEW s \in Senders, OpenCopy(s) \/ OpenCopyFails(s)
  PROVE  ReaderInv'
<1>1. CASE OpenCopy(s)
  <2> DEFINE r == [reader[s] EXCEPT !.pc = "copy", !.fd = stdinTxt',
                                    !.leftover = Len(content[stdinTxt'])]
  <2>1. stdinTxt' \in Senders
    BY <1>1 DEF OpenCopy, ReaderInv, ReaderTypeOK
  <2>2. Len(content[stdinTxt']) \in Nat
    BY <2>1, LenProperties DEF ReaderInv, ReaderTypeOK
  <2>3. reader' = [reader EXCEPT ![s] = r]
    BY <1>1 DEF OpenCopy
  <2>4. r \in Readers
    BY <2>1, <2>2, OneReader DEF Readers
  <2>5. reader[s].at = 0
    BY <1>1 DEF OpenCopy, ReaderInv, ReaderOK
  <2>6. ReaderOK(r, content)
    BY <1>1, <2>1, <2>2, <2>5, OneReader DEF OpenCopy, ReaderOK, Readers
  <2> QED BY <1>1, <2>1, <2>3, <2>4, <2>6, OwnStep DEF OpenCopy, ReaderInv, ReaderTypeOK
<1>2. CASE OpenCopyFails(s)
  <2> DEFINE r == [reader[s] EXCEPT !.pc = "copy", !.disturbed = TRUE]
  <2>1. reader' = [reader EXCEPT ![s] = r]
    BY <1>2 DEF OpenCopyFails
  <2>2. r \in Readers
    BY OneReader DEF Readers
  <2>3. reader[s].fd = NoFile
    BY <1>2 DEF OpenCopyFails, ReaderInv, ReaderOK
  <2>4. ReaderOK(r, content)
    BY <1>2, <2>3, OneReader DEF OpenCopyFails, ReaderOK, Readers
  <2> QED BY <1>2, <2>1, <2>2, <2>4, OwnStep, FailType
          DEF OpenCopyFails, ReaderInv, ReaderTypeOK
<1> QED BY <1>1, <1>2

LEMMA ContentType ==
  ASSUME ReaderInv, NEW fd \in Senders \cup DOMAIN Files
  PROVE  Content(fd) \in Seq(Bytes)
  BY ReadFileAssumption DEF Content, ReaderInv, ReaderTypeOK

LEMMA BlockType ==
  ASSUME ReaderInv, NEW s \in Senders, reader[s].pc = "segment"
  PROVE  Block(s) \in Seq(Bytes)
<1> DEFINE bytes == Content(reader[s].fd)
           at == reader[s].at
           end == Min2(at + MAX_PAYLOAD_SIZE, Len(bytes))
<1>1. bytes \in Seq(Bytes) /\ at \in Nat
  <2>1. reader[s].fd \in Senders \cup DOMAIN Files /\ at \in Nat
    BY OneReader DEF Readers
  <2> QED BY <2>1, ContentType
<1> HIDE DEF bytes, at
<1>2. Len(bytes) \in Nat /\ \A i \in 1 .. Len(bytes) : bytes[i] \in Bytes
  BY <1>1, LenProperties, ElementOfSeq
<1>3. end \in Int /\ end <= Len(bytes)
  BY <1>1, <1>2, ReadFileAssumption DEF Min2
<1> HIDE DEF end
<1>4. \A i \in at + 1 .. end : bytes[i] \in Bytes
  BY <1>1, <1>2, <1>3
<1>5. SubSeq(bytes, at + 1, end) \in Seq(Bytes)
  BY <1>1, <1>3, <1>4, SubSeqProperties
<1> QED BY <1>5 DEF Block, bytes, at, end

LEMMA CopyEndInv ==
  ASSUME ReaderInv, NEW s \in Senders, CopyEnd(s)
  PROVE  ReaderInv'
<1> DEFINE r == [reader[s] EXCEPT
                   !.pc = IF stdinTxt = NoFile THEN "failed" ELSE "segment",
                   !.fd = stdinTxt, !.at = 0]
<1>1. stdinTxt \in Senders \cup {NoFile} /\ failures \in Nat
  BY DEF ReaderInv, ReaderTypeOK
<1>2. reader' = [reader EXCEPT ![s] = r]
  BY DEF CopyEnd
<1>3. r \in Readers
  BY <1>1, OneReader DEF Readers
<1>4. ReaderOK(r, content)
  BY OneReader DEF CopyEnd, ReaderOK, Readers
<1> QED BY <1>1, <1>2, <1>3, <1>4, OwnStep DEF CopyEnd

LEMMA OpenFileInv ==
  ASSUME ReaderInv, NEW s \in Senders, NEW file, OpenFile(s, file)
  PROVE  ReaderInv'
<1> DEFINE fd == Named(file)
           r == [reader[s] EXCEPT
                   !.pc = IF fd = NoFile THEN "failed" ELSE "segment",
                   !.fd = fd,
                   !.input = IF fd = NoFile THEN <<>> ELSE Content(fd)]
<1>1. stdinTxt \in Senders \cup {NoFile} /\ failures \in Nat
  BY DEF ReaderInv, ReaderTypeOK
<1>2. reader' = [reader EXCEPT ![s] = r]
  BY DEF OpenFile
<1>3. fd \in Senders \cup DOMAIN Files \cup {NoFile}
  BY <1>1 DEF Named
<1> HIDE DEF fd
<1>4. (IF fd = NoFile THEN <<>> ELSE Content(fd)) \in Seq(Bytes)
  BY <1>3, ContentType, EmptySeq
<1>5. r \in Readers
  BY <1>3, <1>4, OneReader DEF Readers
<1>6. ReaderOK(r, content)
  BY OneReader DEF OpenFile, ReaderOK, Readers
<1> QED BY <1>1, <1>2, <1>5, <1>6, OwnStep DEF OpenFile

LEMMA ReadBlockInv ==
  ASSUME ReaderInv, NEW s \in Senders, ReadBlock(s)
  PROVE  ReaderInv'
<1> DEFINE pkt == [seqnum |-> reader[s].nextSeqnum, payload |-> Block(s)]
           stack == stack_enqueue(reader[s].sendingStack, pkt)
           r == [reader[s] EXCEPT
                   !.at = reader[s].at + Len(Block(s)),
                   !.sendingStack = stack,
                   !.nextSeqnum = Incr(reader[s].nextSeqnum)]
<1>1. stdinTxt \in Senders \cup {NoFile} /\ failures \in Nat
  BY DEF ReaderInv, ReaderTypeOK
<1>2. reader' = [reader EXCEPT ![s] = r]
  BY DEF ReadBlock
<1>3. Block(s) \in Seq(Bytes) /\ Len(Block(s)) \in Nat
  BY BlockType, LenProperties DEF ReadBlock
<1>4. pkt \in Packets /\ reader[s].sendingStack \in Seq(Packets)
  BY <1>3, OneReader DEF Packets, Readers
<1>5. /\ stack \in Seq(Packets)
      /\ Numbered(stack)
      /\ AfterLast(stack) = Incr(reader[s].nextSeqnum)
  <2>1. Numbered(reader[s].sendingStack) /\ pkt.seqnum = AfterLast(reader[s].sendingStack)
    BY OneReader DEF ReadBlock
  <2> QED BY <2>1, <1>4, EnqueueNext
<1> HIDE DEF stack
<1>6. r \in Readers
  <2>1. reader[s] \in Readers
    BY OneReader
  <2>2. reader[s].at + Len(Block(s)) \in Nat
    BY <2>1, <1>3 DEF Readers
  <2>3. Incr(reader[s].nextSeqnum) \in SeqNums
    BY <2>1, IncrType DEF Readers
  <2> HIDE DEF pkt
  <2> QED BY <2>1, <2>2, <2>3, <1>5 DEF Readers
<1>7. ReaderOK(r, content)
  BY <1>5, OneReader DEF ReadBlock, ReaderOK, Readers
<1> QED BY <1>1, <1>2, <1>6, <1>7, OwnStep DEF ReadBlock

LEMMA ReadFailsInv ==
  ASSUME ReaderInv, NEW s \in Senders, ReadFails(s)
  PROVE  ReaderInv'
<1> DEFINE r == [reader[s] EXCEPT !.pc = "failed", !.disturbed = TRUE]
<1>1. reader' = [reader EXCEPT ![s] = r]
  BY DEF ReadFails
<1>2. r \in Readers
  BY OneReader DEF Readers
<1>3. ReaderOK(r, content)
  BY OneReader DEF ReadFails, ReaderOK, Readers
<1> QED BY <1>1, <1>2, <1>3, OwnStep, FailType DEF ReadFails, ReaderInv, ReaderTypeOK

LEMMA KillInv ==
  ASSUME ReaderInv, NEW s \in Senders, Kill(s)
  PROVE  ReaderInv'
<1> DEFINE r == [reader[s] EXCEPT !.pc = "killed"]
<1>1. reader' = [reader EXCEPT ![s] = r]
  BY DEF Kill
<1>2. r \in Readers
  BY OneReader DEF Readers
<1>3. ReaderOK(r, content)
  BY OneReader DEF Kill, ReaderOK, Readers
<1> QED BY <1>1, <1>2, <1>3, OwnStep DEF Kill, ReaderInv, ReaderTypeOK

-----------------------------------------------------------------------------
\* The end of a file disturbs the senders that are copying.
LEMMA ReadEndInv ==
  ASSUME ReaderInv, NEW s \in Senders, ReadEnd(s)
  PROVE  ReaderInv'
<1> DEFINE pkt == [seqnum |-> reader[s].nextSeqnum, payload |-> <<>>]
           stack == stack_enqueue(reader[s].sendingStack, pkt)
           r == [reader[s] EXCEPT !.pc = "loaded", !.sendingStack = stack]
           R(t) == IF t = s THEN r
                   ELSE [reader[t] EXCEPT !.disturbed = @ \/ reader[t].pc = "copy"]
<1>1. reader' = [t \in Senders |-> R(t)]
  BY DEF ReadEnd
<1>2. pkt \in Packets /\ reader[s].sendingStack \in Seq(Packets)
  <2>1. <<>> \in Seq(Bytes)
    BY EmptySeq
  <2> QED BY <2>1, OneReader DEF Packets, Readers
<1>3. stack \in Seq(Packets) /\ Numbered(stack)
  <2>1. Numbered(reader[s].sendingStack) /\ pkt.seqnum = AfterLast(reader[s].sendingStack)
    BY OneReader DEF ReadEnd
  <2> QED BY <2>1, <1>2, EnqueueNext
<1> HIDE DEF stack
<1>4. r \in Readers /\ ReaderOK(r, content)
  BY <1>3, OneReader DEF ReaderOK, Readers
<1>5. ASSUME NEW t \in Senders, t # s
      PROVE  R(t) \in Readers /\ ReaderOK(R(t), content)
  BY <1>5, OneReader DEF ReaderOK, Readers
<1>6. ReaderTypeOK'
  BY <1>1, <1>4, <1>5 DEF ReadEnd, ReaderInv, ReaderTypeOK
<1>7. \A t \in Senders : ReaderOK(reader[t], content)'
  BY <1>1, <1>4, <1>5 DEF ReadEnd
<1> QED BY <1>6, <1>7 DEF ReaderInv

\* A write to a file disturbs the senders that use it, and shortens it for none.
LEMMA CopyChunkInv ==
  ASSUME ReaderInv, NEW s \in Senders, NEW n \in 1 .. MAX_PAYLOAD_SIZE,
         NEW m \in 0 .. n, CopyChunk(s, n, m)
  PROVE  ReaderInv'
<1> DEFINE fd == reader[s].fd
           copied == reader[s].copied
           chunk == SubSeq(reader[s].input, copied + 1, copied + m)
           r == [reader[s] EXCEPT !.copied = copied + n, !.at = reader[s].at + m,
                                  !.disturbed = @ \/ m < n]
           R(t) == IF t = s THEN r
                   ELSE [reader[t] EXCEPT !.disturbed =
                           @ \/ (m > 0 /\ reader[t].pc \in {"copy", "segment"}
                                        /\ reader[t].fd = fd)]
<1>1. reader' = [t \in Senders |-> R(t)]
  BY DEF CopyChunk
<1>2. /\ m \in Nat /\ n \in Nat /\ copied \in Nat /\ reader[s].at \in Nat
      /\ reader[s].input \in Seq(Bytes) /\ Len(reader[s].input) \in Nat
      /\ copied + m <= Len(reader[s].input)
  <2>1. /\ copied \in Nat /\ reader[s].at \in Nat
        /\ reader[s].input \in Seq(Bytes)
    BY OneReader DEF Readers
  <2>2. copied + n <= Len(reader[s].input) /\ Len(reader[s].input) \in Nat
    BY <2>1, LenProperties DEF CopyChunk
  <2> QED BY <2>1, <2>2, ReadFileAssumption
<1>3. chunk \in Seq(Bytes) /\ Len(chunk) = m
  <2> DEFINE input == reader[s].input
             to == copied + m
  <2>1. /\ input \in Seq(Bytes) /\ copied \in Nat
        /\ to \in Nat /\ to <= Len(input) /\ Len(input) \in Nat
    BY <1>2
  <2>2. (IF copied + 1 <= to THEN to - (copied + 1) + 1 ELSE 0) = m
    BY <1>2
  <2>3. chunk = SubSeq(input, copied + 1, to)
    OBVIOUS
  <2> HIDE DEF input, to, chunk, copied
  <2>4. \A i \in copied + 1 .. to : input[i] \in Bytes
    BY <2>1, ElementOfSeq
  <2>5. /\ SubSeq(input, copied + 1, to) \in Seq(Bytes)
        /\ Len(SubSeq(input, copied + 1, to))
             = IF copied + 1 <= to THEN to - (copied + 1) + 1 ELSE 0
    BY <2>1, <2>4, SubSeqProperties
  <2> QED BY <2>2, <2>3, <2>5
<1> HIDE DEF chunk
<1>4. /\ content' \in [Senders -> Seq(Bytes)]
      /\ \A t \in Senders : Len(content'[t]) >= Len(content[t])
      /\ fd # NoFile => fd \in Senders /\ Len(content'[fd]) >= reader[s].at + m
  <2>1. \A t \in Senders : content[t] \in Seq(Bytes) /\ Len(content[t]) \in Nat
    BY LenProperties DEF ReaderInv, ReaderTypeOK
  <2>2. CASE fd = NoFile
    BY <2>1, <2>2 DEF CopyChunk, ReaderInv, ReaderTypeOK
  <2>3. CASE fd # NoFile
    <3> DEFINE w == Written(content[fd], reader[s].at, chunk)
    <3>1. fd \in Senders /\ reader[s].at <= Len(content[fd])
      BY <2>3, OneReader DEF CopyChunk
    <3>2. content' = [content EXCEPT ![fd] = w]
      BY <2>3 DEF CopyChunk, chunk
    <3>3. /\ w \in Seq(Bytes)
          /\ Len(w) >= Len(content[fd])
          /\ Len(w) >= reader[s].at + m
      <4>1. /\ content[fd] \in Seq(Bytes) /\ reader[s].at \in Nat
            /\ reader[s].at <= Len(content[fd]) /\ chunk \in Seq(Bytes)
        BY <3>1, <2>1, <1>2, <1>3
      <4> HIDE DEF fd
      <4>2. /\ w \in Seq(Bytes)
            /\ Len(w) = IF reader[s].at + Len(chunk) < Len(content[fd])
                       THEN Len(content[fd]) ELSE reader[s].at + Len(chunk)
        BY <4>1, WrittenIs
      <4> HIDE DEF w
      <4> QED BY <4>2, <3>1, <2>1, <1>2, <1>3
    <3> HIDE DEF w
    <3>4. content \in [Senders -> Seq(Bytes)]
      BY DEF ReaderInv, ReaderTypeOK
    <3>5. content'[fd] = w /\ \A t \in Senders : t # fd => content'[t] = content[t]
      BY <3>1, <3>2, <3>4
    <3>6. \A t \in Senders : Len(content'[t]) >= Len(content[t])
      BY <3>3, <3>5, <2>1
    <3> QED BY <3>1, <3>2, <3>3, <3>4, <3>5, <3>6
  <2> QED BY <2>2, <2>3
<1>5. r \in Readers /\ ReaderOK(r, content')
  <2>1. r \in Readers
    <3>1. copied + n \in Nat /\ reader[s].at + m \in Nat
      BY <1>2
    <3>2. (reader[s].disturbed \/ m < n) \in BOOLEAN
      OBVIOUS
    <3>3. reader[s] \in Readers
      BY OneReader
    <3> HIDE DEF copied
    <3> QED BY <3>1, <3>2, <3>3 DEF Readers
  <2>2. /\ r.pc = "copy" /\ r.fd = fd /\ r.at = reader[s].at + m
        /\ r.sendingStack = reader[s].sendingStack
        /\ r.nextSeqnum = reader[s].nextSeqnum
    BY OneReader DEF CopyChunk, Readers
  <2>3. fd # NoFile => fd \in Senders /\ r.at <= Len(content'[fd])
    <3>1. SUFFICES ASSUME fd # NoFile
                   PROVE  fd \in Senders /\ r.at <= Len(content'[fd])
      OBVIOUS
    <3>2. fd \in Senders /\ Len(content'[fd]) >= reader[s].at + m
      BY <3>1, <1>4
    <3>3. Len(content'[fd]) \in Nat
      BY <3>2, <1>4, LenProperties
    <3> QED BY <3>2, <3>3, <2>2, <1>2
  <2>4. Numbered(r.sendingStack) /\ r.nextSeqnum = AfterLast(r.sendingStack)
    BY <2>2, OneReader DEF CopyChunk
  <2> QED BY <2>1, <2>2, <2>3, <2>4 DEF ReaderOK
<1>6. ASSUME NEW t \in Senders, t # s
      PROVE  R(t) \in Readers /\ ReaderOK(R(t), content')
  <2> DEFINE d == reader[t].disturbed \/ (m > 0 /\ reader[t].pc \in {"copy", "segment"}
                                                /\ reader[t].fd = fd)
  <2>0. R(t) = [reader[t] EXCEPT !.disturbed = d]
    BY <1>6
  <2>1. R(t) \in Readers
    <3>1. d \in BOOLEAN
      OBVIOUS
    <3>2. reader[t] \in Readers
      BY OneReader
    <3> HIDE DEF d, R
    <3> QED BY <2>0, <3>1, <3>2 DEF Readers
  <2>2. reader[t].pc = "copy" /\ reader[t].fd # NoFile =>
          reader[t].fd \in Senders /\ reader[t].at <= Len(content'[reader[t].fd])
    <3>1. SUFFICES ASSUME reader[t].pc = "copy", reader[t].fd # NoFile
                   PROVE  reader[t].fd \in Senders
                          /\ reader[t].at <= Len(content'[reader[t].fd])
      OBVIOUS
    <3>2. reader[t].fd \in Senders /\ reader[t].at <= Len(content[reader[t].fd])
      BY <3>1, OneReader
    <3>3. reader[t].at \in Nat
      BY OneReader DEF Readers
    <3>4. /\ Len(content[reader[t].fd]) \in Nat
          /\ Len(content'[reader[t].fd]) \in Nat
      BY <3>2, <1>4, LenProperties DEF ReaderInv, ReaderTypeOK
    <3> QED BY <3>2, <3>3, <3>4, <1>4
  <2> QED BY <1>6, <2>1, <2>2, OneReader DEF ReaderOK, Readers
<1>7. ReaderTypeOK'
  <2>1. failures' \in Nat
    BY FailType DEF CopyChunk, ReaderInv, ReaderTypeOK
  <2>2. reader' \in [Senders -> Readers]
    BY <1>1, <1>5, <1>6
  <2> QED BY <2>1, <2>2, <1>4 DEF CopyChunk, ReaderInv, ReaderTypeOK
<1>8. \A t \in Senders : ReaderOK(reader[t], content)'
  BY <1>1, <1>5, <1>6
<1> QED BY <1>7, <1>8 DEF ReaderInv

-----------------------------------------------------------------------------
\* Every step of the programs keeps it: the others leave read_file alone.
THEOREM ReaderInductive == ReaderInv /\ [Next]_vars => ReaderInv'
<1> SUFFICES ASSUME ReaderInv, [Next]_vars
             PROVE  ReaderInv'
  OBVIOUS
<1>1. ASSUME NEW s \in Senders, Read(s)
      PROVE  ReaderInv'
  <2> DEFINE file == IF main[s].file = NULL THEN "stdin" ELSE main[s].file
  <2>1. read_file(s, file)
    BY <1>1 DEF Read
  <2> HIDE DEF file
  <2>2. CASE OpenCopy(s) \/ OpenCopyFails(s)
    BY <2>2, OpenCopyInv
  <2>3. CASE OpenFile(s, file)
    BY <2>3, OpenFileInv
  <2>4. CASE \E n \in 1 .. MAX_PAYLOAD_SIZE : \E m \in 0 .. n : CopyChunk(s, n, m)
    BY <2>4, CopyChunkInv
  <2>5. CASE CopyEnd(s)
    BY <2>5, CopyEndInv
  <2>6. CASE ReadBlock(s)
    BY <2>6, ReadBlockInv
  <2>7. CASE ReadEnd(s)
    BY <2>7, ReadEndInv
  <2>8. CASE ReadFails(s)
    BY <2>8, ReadFailsInv
  <2> QED BY <2>1, <2>2, <2>3, <2>4, <2>5, <2>6, <2>7, <2>8 DEF read_file
<1>2. ASSUME NEW s \in Senders, Killed(s)
      PROVE  ReaderInv'
  BY <1>2, KillInv DEF Killed
<1>3. CASE UNCHANGED readVars
  BY <1>3 DEF readVars, ReaderInv, ReaderTypeOK
<1>4. ASSUME NEW p \in Programs, Options(p) \/ RefuseConnection(p)
      PROVE  UNCHANGED readVars
  BY <1>4 DEF Options, RefuseConnection
<1>5. ASSUME NEW s \in Senders, Connect(s)
      PROVE  UNCHANGED readVars
  BY <1>5 DEF Connect
<1>6. ASSUME NEW r \in Receivers, Bind(r) \/ wait_for_client(r) \/ ReadFirst(r)
      PROVE  UNCHANGED readVars
  BY <1>6 DEF Bind, wait_for_client, ReadFirst
<1>7. ASSUME NEW s \in Senders, NEW r \in Receivers, NEW intact \in BOOLEAN,
             SendFirst(s, r, intact)
      PROVE  UNCHANGED readVars
  BY <1>7 DEF SendFirst
<1>8. CASE UNCHANGED vars
  BY <1>8, <1>3 DEF vars
<1> QED BY <1>1, <1>2, <1>3, <1>4, <1>5, <1>6, <1>7, <1>8 DEF Next

LEMMA ReaderInvHolds == Spec => []ReaderInv
  BY InitInv, ReaderInductive, PTL DEF Spec

\* What read_file keeps of a file, and reads of it, are bytes, whatever the
\* other senders of the directory do to stdin.txt and whichever call fails.
THEOREM ReaderTypeCorrect == Spec => []ReaderTypeOK
<1>1. ReaderInv => ReaderTypeOK
  BY DEF ReaderInv
<1> QED BY <1>1, ReaderInvHolds, PTL

\* The stack that the sender loop is given carries the numbers 0, 1, 2, ...
\* without a gap and across every wrap, for a file of any length.
THEOREM StackNumbered == Spec => []NumberedInOrder
<1>1. ReaderInv => NumberedInOrder
  BY DEF ReaderInv, ReaderOK, NumberedInOrder
<1> QED BY <1>1, ReaderInvHolds, PTL

-----------------------------------------------------------------------------
\* What is sent to a receiver before wait_for_client has connected its socket,
\* for any number of senders, of receivers and of datagrams.

Datagrams == [from : Senders, intact : BOOLEAN]

\* A variable of main() is set in the record of its program.
MainFields ==
  /\ DOMAIN main = Programs
  /\ \A p \in Programs :
       DOMAIN main[p] = {"pc", "hostname", "port", "file", "socket", "peer"}

\* The first datagram stays at the head of the queue of a receiver until its
\* loop, which wait_for_client has connected to where it came from, reads it.
PeerOK(r) ==
  /\ accepted[r] # NULL => main[r].pc = "loop" /\ accepted[r] = main[r].peer
  /\ main[r].pc = "loop" /\ accepted[r] = NULL =>
       queue[r] # <<>> /\ Head(queue[r]).from = main[r].peer
  /\ \A i \in 1 .. Len(queue[r]) : queue[r][i].intact

PeerInv ==
  /\ MainFields
  /\ queue \in [Receivers -> Seq(Datagrams)]
  /\ accepted \in [Receivers -> Senders \cup {NULL}]
  /\ damages \in Int /\ damages <= MaxDamages
  /\ damages = MaxDamages => \A r \in Receivers : PeerOK(r)

LEMMA PeerInvInit == Init => PeerInv
<1> SUFFICES ASSUME Init
             PROVE  PeerInv
  OBVIOUS
<1>1. MainFields
  BY DEF Init, MainFields
<1>2. <<>> \in Seq(Datagrams) /\ Len(<<>>) = 0
  BY EmptySeq
<1>3. \A r \in Receivers : r \in Programs /\ main[r].pc \in {"options", "none"}
  BY DEF Init, Programs
<1>4. queue \in [Receivers -> Seq(Datagrams)] /\ \A r \in Receivers : queue[r] = <<>>
  BY <1>2 DEF Init
<1>5. accepted \in [Receivers -> {NULL}]
  BY DEF Init
<1>6. \A r \in Receivers : PeerOK(r)
  BY <1>2, <1>3, <1>4, <1>5 DEF PeerOK
<1> QED BY <1>1, <1>4, <1>5, <1>6, StartUpAssumption DEF Init, PeerInv

\* A step of main() of one program p that is not in its loop and does not
\* come to it.
LEMMA PeerInvMain ==
  ASSUME PeerInv, NEW p \in Programs, UNCHANGED linkVars,
         DOMAIN main' = Programs, DOMAIN main'[p] = DOMAIN main[p],
         \A q \in Programs : q # p => main'[q] = main[q],
         main[p].pc # "loop", main'[p].pc # "loop"
  PROVE  PeerInv'
<1>1. MainFields'
  BY DEF PeerInv, MainFields
<1>2. ASSUME NEW r \in Receivers, PeerOK(r)
      PROVE  PeerOK(r)'
  <2>1. r \in Programs
    BY DEF Programs
  <2>2. CASE r = p
    BY <1>2, <2>2 DEF PeerOK, linkVars
  <2>3. CASE r # p
    BY <1>2, <2>1, <2>3 DEF PeerOK, linkVars
  <2> QED BY <2>2, <2>3
<1> QED BY <1>1, <1>2 DEF PeerInv, linkVars

LEMMA PeerInvOptions ==
  ASSUME PeerInv, NEW p \in Programs, Options(p) \/ RefuseConnection(p)
  PROVE  PeerInv'
<1>1. CASE Options(p)
  <2>1. /\ UNCHANGED linkVars /\ DOMAIN main' = Programs
        /\ \A q \in Programs : q # p => main'[q] = main[q]
    BY <1>1 DEF Options, PeerInv, MainFields
  <2>2. /\ DOMAIN main'[p] = DOMAIN main[p]
        /\ main[p].pc # "loop" /\ main'[p].pc # "loop"
    BY <1>1 DEF Options, PeerInv, MainFields
  <2> QED BY <2>1, <2>2, PeerInvMain
<1>2. CASE RefuseConnection(p)
  <2>1. /\ UNCHANGED linkVars /\ DOMAIN main' = Programs
        /\ \A q \in Programs : q # p => main'[q] = main[q]
    BY <1>2 DEF RefuseConnection, PeerInv, MainFields
  <2>2. /\ DOMAIN main'[p] = DOMAIN main[p]
        /\ main[p].pc # "loop" /\ main'[p].pc # "loop"
    BY <1>2 DEF RefuseConnection, PeerInv, MainFields
  <2> QED BY <2>1, <2>2, PeerInvMain
<1> QED BY <1>1, <1>2

LEMMA PeerInvConnection ==
  ASSUME PeerInv, NEW p \in Programs, Connect(p) \/ Bind(p)
  PROVE  PeerInv'
<1>1. CASE Connect(p)
  <2>1. /\ UNCHANGED linkVars /\ DOMAIN main' = Programs
        /\ \A q \in Programs : q # p => main'[q] = main[q]
    BY <1>1 DEF Connect, PeerInv, MainFields
  <2>2. /\ DOMAIN main'[p] = DOMAIN main[p]
        /\ main[p].pc # "loop" /\ main'[p].pc # "loop"
    BY <1>1 DEF Connect, PeerInv, MainFields
  <2> QED BY <2>1, <2>2, PeerInvMain
<1>2. CASE Bind(p)
  <2>1. /\ UNCHANGED linkVars /\ main[p].pc = "connect"
        /\ DOMAIN main' = Programs /\ DOMAIN main'[p] = DOMAIN main[p]
        /\ \A q \in Programs : q # p => main'[q] = main[q]
        /\ main'[p].pc \in {"wait", "failed"}
    BY <1>2 DEF Bind, PeerInv, MainFields
  <2> QED BY <2>1, PeerInvMain
<1> QED BY <1>1, <1>2

LEMMA PeerInvWait ==
  ASSUME PeerInv, NEW r \in Receivers, wait_for_client(r)
  PROVE  PeerInv'
<1>0. r \in Programs /\ UNCHANGED linkVars
  BY DEF Programs, wait_for_client
<1>1. MainFields'
  BY <1>0 DEF wait_for_client, PeerInv, MainFields
<1>2. main'[r].pc = "loop" /\ main'[r].peer = Head(queue[r]).from
  BY <1>0 DEF wait_for_client, PeerInv, MainFields
<1>3. ASSUME NEW t \in Receivers, PeerOK(t)
      PROVE  PeerOK(t)'
  <2>1. CASE t = r
    BY <1>0, <1>2, <1>3, <2>1 DEF PeerOK, linkVars, wait_for_client
  <2>2. CASE t # r
    <3>1. main'[t] = main[t]
      BY <1>0, <2>2 DEF wait_for_client, PeerInv, MainFields, Programs
    <3> QED BY <1>0, <1>3, <3>1 DEF PeerOK, linkVars
  <2> QED BY <2>1, <2>2
<1> QED BY <1>0, <1>1, <1>3 DEF PeerInv, linkVars

LEMMA PeerInvSend ==
  ASSUME PeerInv, NEW s \in Senders, NEW r \in Receivers, NEW intact \in BOOLEAN,
         SendFirst(s, r, intact)
  PROVE  PeerInv'
<1> DEFINE d == [from |-> s, intact |-> intact]
           q == Append(queue[r], d)
<1>1. d \in Datagrams /\ queue[r] \in Seq(Datagrams)
  BY DEF PeerInv, Datagrams
<1>2. d.intact = intact
  OBVIOUS
<1>3. main' = main /\ accepted' = accepted /\ queue' = [queue EXCEPT ![r] = q]
  BY DEF SendFirst
<1>4. damages' \in Int /\ damages' <= damages /\ (damages' = damages => intact)
  BY DEF SendFirst, PeerInv
<1> HIDE DEF d
<1>5. /\ q \in Seq(Datagrams) /\ Len(q) = Len(queue[r]) + 1
      /\ \A i \in 1 .. Len(queue[r]) : q[i] = queue[r][i]
      /\ q[Len(queue[r]) + 1] = d
  BY <1>1, AppendProperties
<1> HIDE DEF q
<1>6. Len(queue[r]) \in Nat /\ (queue[r] # <<>> => Head(q) = Head(queue[r]))
  <2>1. Len(queue[r]) \in Nat /\ (queue[r] # <<>> => Len(queue[r]) > 0)
    BY <1>1, LenProperties, EmptySeq
  <2>2. q # <<>>
    BY <2>1, <1>5, EmptySeq
  <2>3. Head(q) = q[1]
    BY <1>5, <2>2, HeadTailProperties
  <2>4. ASSUME queue[r] # <<>>
        PROVE  Head(q) = Head(queue[r])
    <3>1. Head(queue[r]) = queue[r][1]
      BY <1>1, <2>4, HeadTailProperties
    <3>2. q[1] = queue[r][1]
      BY <1>5, <2>1, <2>4
    <3> QED BY <2>3, <3>1, <3>2
  <2> QED BY <2>1, <2>4
<1>7. q # <<>>
  BY <1>5, <1>6, EmptySeq
<1>8. ASSUME NEW t \in Receivers, PeerOK(t), intact
      PROVE  PeerOK(t)'
  <2>1. CASE t = r
    <3>1. queue'[t] = q
      BY <1>3, <2>1 DEF PeerInv
    <3>2. ASSUME NEW i \in 1 .. Len(q)
          PROVE  q[i].intact
      <4>1. CASE i <= Len(queue[r])
        BY <1>5, <1>6, <1>8, <2>1, <4>1 DEF PeerOK
      <4>2. CASE i = Len(queue[r]) + 1
        BY <1>2, <1>5, <1>8, <4>2
      <4> QED BY <1>5, <1>6, <4>1, <4>2
    <3> QED BY <1>3, <1>6, <1>7, <1>8, <2>1, <3>1, <3>2 DEF PeerOK
  <2>2. CASE t # r
    <3>1. queue'[t] = queue[t]
      BY <1>3, <2>2 DEF PeerInv
    <3> QED BY <1>3, <1>8, <3>1 DEF PeerOK
  <2> QED BY <2>1, <2>2
<1>9. damages' = MaxDamages => damages = MaxDamages /\ intact
  BY <1>4, StartUpAssumption DEF PeerInv
<1>10. MainFields'
  BY <1>3 DEF PeerInv, MainFields
<1> QED BY <1>3, <1>4, <1>5, <1>8, <1>9, <1>10, StartUpAssumption DEF PeerInv

LEMMA PeerInvRead ==
  ASSUME PeerInv, NEW r \in Receivers, ReadFirst(r)
  PROVE  PeerInv'
<1>1. /\ main' = main /\ damages' = damages
      /\ queue' = [queue EXCEPT ![r] = Tail(queue[r])]
      /\ queue[r] # <<>> /\ main[r].pc = "loop"
  BY DEF ReadFirst
<1>2. /\ queue[r] \in Seq(Datagrams) /\ Len(queue[r]) \in Nat /\ Len(queue[r]) > 0
  BY <1>1, LenProperties, EmptySeq DEF PeerInv
<1>3. /\ Tail(queue[r]) \in Seq(Datagrams)
      /\ Len(Tail(queue[r])) = Len(queue[r]) - 1
      /\ \A i \in 1 .. Len(queue[r]) - 1 : Tail(queue[r])[i] = queue[r][i + 1]
      /\ Head(queue[r]) = queue[r][1]
      /\ queue[r][1] \in Datagrams
  BY <1>1, <1>2, HeadTailProperties, ElementOfSeq
<1>4. accepted' = [accepted EXCEPT ![r] =
         IF accepted[r] = NULL /\ queue[r][1].intact THEN queue[r][1].from
         ELSE accepted[r]]
  BY <1>3 DEF ReadFirst
<1>5. accepted' \in [Receivers -> Senders \cup {NULL}]
  BY <1>3, <1>4 DEF PeerInv, Datagrams
<1>6. ASSUME NEW t \in Receivers, PeerOK(t)
      PROVE  PeerOK(t)'
  <2>1. CASE t = r
    <3>1. queue'[r] = Tail(queue[r])
      BY <1>1 DEF PeerInv
    <3>2. queue[r][1].intact /\ queue[r][1].from \in Senders
      BY <1>2, <1>3, <1>6, <2>1 DEF PeerOK, Datagrams
    <3>3. accepted'[r] = main[r].peer /\ accepted'[r] # NULL
      <4>1. accepted'[r] = IF accepted[r] = NULL THEN queue[r][1].from ELSE accepted[r]
        BY <1>4, <3>2 DEF PeerInv
      <4> QED BY <4>1, <1>1, <1>3, <1>6, <2>1, <3>2, NullAssumption DEF PeerOK
    <3>4. \A i \in 1 .. Len(Tail(queue[r])) : Tail(queue[r])[i].intact
      BY <1>2, <1>3, <1>6, <2>1 DEF PeerOK
    <3> QED BY <1>1, <2>1, <3>1, <3>3, <3>4 DEF PeerOK
  <2>2. CASE t # r
    <3>1. queue'[t] = queue[t] /\ accepted'[t] = accepted[t]
      BY <1>1, <1>4, <2>2 DEF PeerInv
    <3> QED BY <1>1, <1>6, <3>1 DEF PeerOK
  <2> QED BY <2>1, <2>2
<1>7. queue' \in [Receivers -> Seq(Datagrams)] /\ MainFields'
  BY <1>1, <1>3 DEF PeerInv, MainFields
<1> QED BY <1>1, <1>5, <1>6, <1>7 DEF PeerInv

THEOREM PeerInductive == PeerInv /\ [Next]_vars => PeerInv'
<1> SUFFICES ASSUME PeerInv, [Next]_vars
             PROVE  PeerInv'
  OBVIOUS
<1>1. ASSUME NEW p \in Programs, Options(p) \/ RefuseConnection(p)
      PROVE  PeerInv'
  BY <1>1, PeerInvOptions
<1>2. ASSUME NEW s \in Senders, Connect(s)
      PROVE  PeerInv'
  BY <1>2, PeerInvConnection DEF Programs
<1>3. CASE UNCHANGED <<main, linkVars>>
  BY <1>3 DEF linkVars, PeerInv, MainFields, PeerOK
<1>4. ASSUME NEW s \in Senders, Read(s) \/ Killed(s)
      PROVE  PeerInv'
  BY <1>3, <1>4 DEF Read, Killed
<1>5. ASSUME NEW r \in Receivers, Bind(r)
      PROVE  PeerInv'
  BY <1>5, PeerInvConnection DEF Programs
<1>6. ASSUME NEW r \in Receivers, wait_for_client(r)
      PROVE  PeerInv'
  BY <1>6, PeerInvWait
<1>7. ASSUME NEW r \in Receivers, ReadFirst(r)
      PROVE  PeerInv'
  BY <1>7, PeerInvRead
<1>8. ASSUME NEW s \in Senders, NEW r \in Receivers, NEW intact \in BOOLEAN,
             SendFirst(s, r, intact)
      PROVE  PeerInv'
  BY <1>8, PeerInvSend
<1>9. CASE UNCHANGED vars
  BY <1>3, <1>9 DEF vars
<1> QED BY <1>1, <1>2, <1>4, <1>5, <1>6, <1>7, <1>8, <1>9 DEF Next

\* Whatever number of senders has sent to a receiver before it is connected,
\* and however the loop of the others interleaves, the first packet it accepts
\* is its peer's, as long as no datagram is damaged.
THEOREM PeerAccepted == Spec => []AcceptsItsPeer
<1>1. PeerInv => AcceptsItsPeer
  BY DEF PeerInv, PeerOK, AcceptsItsPeer
<1>2. PeerInv /\ [Next]_vars => PeerInv'
  BY PeerInductive
<1> QED BY <1>1, <1>2, PeerInvInit, PTL DEF Spec

-----------------------------------------------------------------------------
(***************************************************************************)
(* The input.  A sender that nothing disturbed carries its whole input,    *)
(* cut into blocks, for every input, every size of a block, every number   *)
(* of senders in its directory and everything they leave or do there.      *)
(***************************************************************************)
\* The bytes of an open file, of those the senders have created with bytes c.
BytesOf(fd, c) == IF fd \in Senders THEN c[fd] ELSE Files[fd]

\* A copy that nothing disturbed has gone to the file that still has the name
\* stdin.txt, after nothing and before what that file held beyond it.
CopyOK(r, c, name) ==
  /\ r.fd \in Senders /\ name = r.fd
  /\ r.at = r.copied /\ r.copied <= Len(r.input)
  /\ Len(c[r.fd]) = IF r.copied < r.leftover THEN r.leftover ELSE r.copied
  /\ \A i \in 1 .. r.copied : c[r.fd][i] = r.input[i]

\* Where the k-th block of a file ends.
BlockEnd(bytes, k) == Min2(k * MAX_PAYLOAD_SIZE, Len(bytes))

\* The packets of a stack are the first blocks of a file, up to offset at.
CutOK(bytes, at, stack) ==
  LET k == Len(stack)
  IN  /\ at = BlockEnd(bytes, k)
      /\ k # 0 => (k - 1) * MAX_PAYLOAD_SIZE < Len(bytes)
      /\ \A j \in 1 .. k :
           stack[j].payload =
             SubSeq(bytes, (j - 1) * MAX_PAYLOAD_SIZE + 1, BlockEnd(bytes, j))

CarryOK(r, c, name) ==
  /\ r.pc = "none" => r.copied = 0 /\ r.leftover = 0
  /\ r.pc \in {"none", "copy"} => r.sendingStack = <<>>
  /\ r.pc = "copy" /\ ~r.disturbed => CopyOK(r, c, name)
  /\ ~r.disturbed /\ r.leftover <= Len(r.input) =>
       /\ r.pc = "segment" => 
            /\ BytesOf(r.fd, c) = r.input
            /\ CutOK(r.input, r.at, r.sendingStack)
       /\ r.pc = "loaded" => Payloads(r.sendingStack) = Segmented(r.input)

\* A sender reads with the options it was given, and fails undisturbed only
\* where they name a file.
AskedOK(s) ==
  /\ reader[s].pc # "none" => main[s].pc = "read"
  /\ reader[s].pc = "failed" /\ ~reader[s].disturbed => main[s].file \notin {NULL, "stdin"}

\* The inductive invariant, with ReaderInv.
InputInv ==
  /\ DOMAIN main = Programs
  /\ \A s \in Senders : CarryOK(reader[s], content, stdinTxt) /\ AskedOK(s)

-----------------------------------------------------------------------------
\* Multiples of the size of a block are a block apart.
LEMMA BlocksApart ==
  ASSUME NEW a \in Int, NEW b \in Int, a < b
  PROVE  a * MAX_PAYLOAD_SIZE + MAX_PAYLOAD_SIZE <= b * MAX_PAYLOAD_SIZE
<1> DEFINE m == MAX_PAYLOAD_SIZE
           d == b - a - 1
<1>1. m \in Nat /\ d \in Nat /\ b = a + 1 + d
  BY ReadFileAssumption
<1> HIDE DEF m, d
<1>2. d * m >= 0
  BY <1>1
<1>3. b * m = a * m + m + d * m
  BY <1>1
<1>4. a * m \in Int /\ d * m \in Int
  BY <1>1
<1>5. a * m + m <= b * m
  BY <1>1, <1>2, <1>3, <1>4
<1> QED BY <1>5 DEF m

LEMMA NextBlock ==
  ASSUME NEW k \in Nat
  PROVE  /\ k * MAX_PAYLOAD_SIZE \in Nat
         /\ (k + 1) * MAX_PAYLOAD_SIZE = k * MAX_PAYLOAD_SIZE + MAX_PAYLOAD_SIZE
<1> DEFINE m == MAX_PAYLOAD_SIZE
<1>1. m \in Nat
  BY ReadFileAssumption
<1> HIDE DEF m
<1>2. k * m \in Nat /\ (k + 1) * m = k * m + m
  BY <1>1
<1> QED BY <1>2 DEF m

\* The number of blocks of a file.
LEMMA CountIs ==
  ASSUME NEW n \in Nat, NEW k \in Nat, n <= k * MAX_PAYLOAD_SIZE,
         k # 0 => (k - 1) * MAX_PAYLOAD_SIZE < n
  PROVE  (n + MAX_PAYLOAD_SIZE - 1) \div MAX_PAYLOAD_SIZE = k
<1> DEFINE m == MAX_PAYLOAD_SIZE
           q == (n + m - 1) \div m
<1>1. m \in Nat \ {0}
  BY ReadFileAssumption
<1>2. q \in Int /\ q * m <= n + m - 1 /\ n + m - 1 < q * m + m
  BY <1>1
<1>3. (k - 1) * m = k * m - m /\ k * m \in Int /\ q * m \in Int /\ 0 * m = 0
  BY <1>1, <1>2
<1>4. (k - 1) * m < n
  BY <1>1, <1>3
<1> HIDE DEF q
<1>5. ~(q < k)
  <2>1. SUFFICES ASSUME q < k PROVE FALSE
    OBVIOUS
  <2>2. q * m + m <= k * m
    BY <1>2, <2>1, BlocksApart
  <2> HIDE DEF m
  <2> QED BY <1>1, <1>2, <1>3, <1>4, <2>2
<1>6. ~(k < q)
  <2>1. SUFFICES ASSUME k < q PROVE FALSE
    OBVIOUS
  <2>2. k * m + m <= q * m
    BY <1>2, <2>1, BlocksApart
  <2>3. n <= k * m
    OBVIOUS
  <2> HIDE DEF m
  <2> QED BY <1>1, <1>2, <1>3, <2>2, <2>3
<1>7. q = k
  BY <1>2, <1>5, <1>6
<1> QED BY <1>7 DEF q

\* What a read() at an offset gives.
BlockAt(bytes, at) == SubSeq(bytes, at + 1, Min2(at + MAX_PAYLOAD_SIZE, Len(bytes)))

LEMMA BlockAtIs ==
  ASSUME NEW bytes \in Seq(Bytes), NEW at \in Nat, at <= Len(bytes)
  PROVE  /\ at + Len(BlockAt(bytes, at)) = Min2(at + MAX_PAYLOAD_SIZE, Len(bytes))
         /\ BlockAt(bytes, at) = <<>> <=> at = Len(bytes)
<1> DEFINE n == Len(bytes)
           end == Min2(at + MAX_PAYLOAD_SIZE, n)
           b == SubSeq(bytes, at + 1, end)
<1>1. n \in Nat /\ \A i \in 1 .. n : bytes[i] \in Bytes
  BY LenProperties, ElementOfSeq
<1>2. end \in Nat /\ at <= end /\ end <= n /\ (at = end <=> at = n)
  BY <1>1, ReadFileAssumption DEF Min2
<1> HIDE DEF end
<1>3. \A i \in at + 1 .. end : bytes[i] \in Bytes
  BY <1>1, <1>2
<1>4. b \in Seq(Bytes) /\ Len(b) = IF at + 1 <= end THEN end - (at + 1) + 1 ELSE 0
  BY <1>2, <1>3, SubSeqProperties
<1> HIDE DEF b
<1>5. at + Len(b) = end
  BY <1>2, <1>4
<1>6. b = <<>> <=> Len(b) = 0
  BY <1>4, EmptySeq
<1>7. b = <<>> <=> at = n
  BY <1>2, <1>5, <1>6
<1> QED BY <1>5, <1>7 DEF BlockAt, b, end

\* One more block on the stack.
LEMMA CutGrows ==
  ASSUME NEW bytes \in Seq(Bytes), NEW at \in Nat, NEW stack, Len(stack) \in Nat,
         CutOK(bytes, at, stack), BlockAt(bytes, at) # <<>>,
         NEW new, Len(new) = Len(stack) + 1,
         \A i \in 1 .. Len(stack) : new[i] = stack[i],
         new[Len(stack) + 1].payload = BlockAt(bytes, at)
  PROVE  CutOK(bytes, at + Len(BlockAt(bytes, at)), new)
<1> DEFINE n == Len(bytes)
           k == Len(stack)
           m == MAX_PAYLOAD_SIZE
<1>1. n \in Nat /\ k \in Nat /\ m \in Nat \ {0}
  BY LenProperties, ReadFileAssumption
<1>2. k * m \in Nat /\ (k + 1) * m = k * m + m /\ (k + 1) - 1 = k
  BY <1>1, NextBlock
<1>3. at = Min2(k * m, n)
  BY DEF CutOK, BlockEnd
<1>4. at <= n
  BY <1>1, <1>2, <1>3 DEF Min2
<1>5. /\ at + Len(BlockAt(bytes, at)) = Min2(at + m, n)
      /\ at # n
  BY <1>4, BlockAtIs
<1>6. at = k * m /\ k * m < n
  BY <1>1, <1>2, <1>3, <1>4, <1>5 DEF Min2
<1>7. at + Len(BlockAt(bytes, at)) = BlockEnd(bytes, k + 1)
  BY <1>2, <1>5, <1>6 DEF BlockEnd
<1>8. ASSUME NEW j \in 1 .. k + 1
      PROVE  new[j].payload = SubSeq(bytes, (j - 1) * m + 1, BlockEnd(bytes, j))
  <2>1. CASE j <= k
    <3>1. j \in 1 .. Len(stack)
      BY <1>1, <2>1
    <3> QED BY <3>1 DEF CutOK
  <2>2. CASE j = k + 1
    <3>1. BlockAt(bytes, at) = SubSeq(bytes, (j - 1) * m + 1, BlockEnd(bytes, j))
      BY <1>2, <1>6, <2>2 DEF BlockAt, BlockEnd
    <3> QED BY <2>2, <3>1
  <2> QED BY <1>1, <2>1, <2>2
<1> HIDE DEF n, m, k
<1>9. /\ Len(new) = k + 1
      /\ (Len(new) - 1) * m < n
  <2>1. Len(new) = k + 1
    BY DEF k
  <2> QED BY <2>1, <1>2, <1>6
<1> QED BY <1>7, <1>8, <1>9 DEF CutOK, n, m

\* The terminating packet on the stack.
LEMMA CutEnds ==
  ASSUME NEW bytes \in Seq(Bytes), NEW at \in Nat, NEW stack, Len(stack) \in Nat,
         CutOK(bytes, at, stack), BlockAt(bytes, at) = <<>>,
         NEW new, Len(new) = Len(stack) + 1,
         \A i \in 1 .. Len(stack) : new[i] = stack[i],
         new[Len(stack) + 1].payload = <<>>
  PROVE  Payloads(new) = Segmented(bytes)
<1> DEFINE n == Len(bytes)
           k == Len(stack)
           m == MAX_PAYLOAD_SIZE
           count == (n + m - 1) \div m
<1>1. n \in Nat /\ k \in Nat /\ m \in Nat \ {0}
  BY LenProperties, ReadFileAssumption
<1>2. k * m \in Nat /\ (k + 1) * m = k * m + m /\ (k + 1) - 1 = k
  BY <1>1, NextBlock
<1>3. at = Min2(k * m, n)
  BY DEF CutOK, BlockEnd
<1>4. at <= n
  BY <1>1, <1>2, <1>3 DEF Min2
<1>5. at = n
  BY <1>4, BlockAtIs
<1>6. n <= k * m
  BY <1>1, <1>2, <1>3, <1>5 DEF Min2
<1>7. count = k
  <2>1. k # 0 => (k - 1) * m < n
    BY DEF CutOK
  <2> QED BY <1>1, <1>6, <2>1, CountIs
<1>8. ASSUME NEW j \in 1 .. k + 1
      PROVE  new[j].payload = SubSeq(bytes, (j - 1) * m + 1, Min2(j * m, n))
  <2>1. CASE j <= k
    <3>1. j \in 1 .. Len(stack)
      BY <1>1, <2>1
    <3>2. new[j].payload = stack[j].payload
      BY <3>1
    <3> QED BY <3>1, <3>2 DEF CutOK, BlockEnd
  <2>2. CASE j = k + 1
    <3>1. (j - 1) * m + 1 = k * m + 1 /\ Min2(j * m, n) = n
      BY <1>1, <1>2, <1>6, <2>2 DEF Min2
    <3>2. SubSeq(bytes, k * m + 1, n) = <<>>
      <4>1. k * m + 1 \in Int /\ n \in Int /\ n < k * m + 1
        BY <1>1, <1>2, <1>6
      <4> HIDE DEF n, k, m
      <4> QED BY <4>1, SubSeqEmpty
    <3> QED BY <2>2, <3>1, <3>2
  <2> QED BY <1>1, <2>1, <2>2
<1> HIDE DEF count
<1>9. Segmented(bytes) =
        [j \in 1 .. count + 1 |-> SubSeq(bytes, (j - 1) * m + 1, Min2(j * m, n))]
  BY DEF Segmented, count
<1>10. Payloads(new) = [j \in 1 .. k + 1 |-> new[j].payload]
  BY DEF Payloads
<1> QED BY <1>7, <1>8, <1>9, <1>10

-----------------------------------------------------------------------------
LEMMA InputInit == Init => InputInv
<1> SUFFICES ASSUME Init
             PROVE  InputInv
  OBVIOUS
<1>1. /\ DOMAIN main = Programs
      /\ \A s \in Senders :
           /\ reader[s].pc = "none" /\ reader[s].sendingStack = <<>>
           /\ reader[s].copied = 0 /\ reader[s].leftover = 0
  BY DEF Init, ReadInit
<1> QED BY <1>1 DEF InputInv, CarryOK, AskedOK

\* A step of another sender either leaves the file and the name that a sender
\* uses as they are, or disturbs it.
LEMMA OthersKeep ==
  ASSUME ReaderInv, NEW t \in Senders, CarryOK(reader[t], content, stdinTxt), AskedOK(t),
         NEW d \in BOOLEAN, reader'[t] = [reader[t] EXCEPT !.disturbed = @ \/ d],
         UNCHANGED main,
         ~d /\ ~reader[t].disturbed /\ reader[t].pc = "copy" => stdinTxt' = stdinTxt,
         ~d /\ reader[t].pc \in {"copy", "segment"} /\ reader[t].fd \in Senders =>
           content'[reader[t].fd] = content[reader[t].fd]
  PROVE  CarryOK(reader'[t], content', stdinTxt') /\ AskedOK(t)'
<1> DEFINE q == reader[t]
           r == [q EXCEPT !.disturbed = @ \/ d]
<1>1. q \in Readers
  BY OneReader
<1> HIDE DEF q
<1>2. /\ r.pc = q.pc /\ r.input = q.input /\ r.copied = q.copied /\ r.fd = q.fd
      /\ r.at = q.at /\ r.sendingStack = q.sendingStack /\ r.leftover = q.leftover
      /\ ~r.disturbed => ~q.disturbed /\ ~d
  BY <1>1 DEF Readers
<1>3. reader'[t] = r
  BY DEF q
<1> HIDE DEF r
<1>4. CarryOK(r, content', stdinTxt')
  <2>1. CarryOK(q, content, stdinTxt)
    BY DEF q
  <2>2. /\ ~d /\ ~q.disturbed /\ q.pc = "copy" => stdinTxt' = stdinTxt
        /\ ~d /\ q.pc \in {"copy", "segment"} /\ q.fd \in Senders =>
             content'[q.fd] = content[q.fd]
    BY DEF q
  <2>3. r.pc = "copy" /\ ~r.disturbed => CopyOK(r, content', stdinTxt')
    BY <1>2, <2>1, <2>2 DEF CarryOK, CopyOK
  <2>4. r.pc = "segment" /\ ~r.disturbed =>
          BytesOf(r.fd, content') = BytesOf(q.fd, content)
    BY <1>2, <2>2 DEF BytesOf
  <2> QED BY <1>2, <2>1, <2>3, <2>4 DEF CarryOK
<1>5. AskedOK(t)'
  BY <1>2, <1>3 DEF AskedOK, q
<1> QED BY <1>3, <1>4, <1>5

\* The steps that change one sender's variables only, and no file's bytes; the
\* name stdin.txt they leave, or give to a new file.
LEMMA OwnInput ==
  ASSUME ReaderInv, InputInv, NEW s \in Senders, NEW r \in Readers,
         reader' = [reader EXCEPT ![s] = r], UNCHANGED <<main, content>>,
         stdinTxt' = stdinTxt \/ stdinTxt = NoFile,
         CarryOK(r, content, stdinTxt'),
         main[s].pc = "read",
         r.pc = "failed" /\ ~r.disturbed => main[s].file \notin {NULL, "stdin"}
  PROVE  InputInv'
<1>1. ASSUME NEW t \in Senders
      PROVE  CarryOK(reader'[t], content', stdinTxt') /\ AskedOK(t)'
  <2>1. CASE t = s
    <3>1. reader'[t] = r
      BY <2>1 DEF ReaderInv, ReaderTypeOK
    <3> QED BY <2>1, <3>1 DEF AskedOK
  <2>2. CASE t # s
    <3>1. reader[t] \in Readers
      BY OneReader
    <3>2. reader'[t] = [reader[t] EXCEPT !.disturbed = @ \/ FALSE]
      <4> DEFINE q == reader[t]
      <4>1. reader'[t] = q
        BY <2>2 DEF ReaderInv, ReaderTypeOK
      <4>2. q \in Readers
        BY <3>1
      <4> HIDE DEF q
      <4>3. (q.disturbed \/ FALSE) = q.disturbed
        BY <4>2 DEF Readers
      <4>4. q = [q EXCEPT !.disturbed = q.disturbed]
        BY <4>2 DEF Readers
      <4>5. q = [q EXCEPT !.disturbed = @ \/ FALSE]
        BY <4>3, <4>4
      <4> QED BY <4>1, <4>5 DEF q
    <3>3. reader[t].pc = "copy" /\ ~reader[t].disturbed => stdinTxt' = stdinTxt
      BY NoFileAssumption DEF InputInv, CarryOK, CopyOK
    <3> QED BY <3>2, <3>3, OthersKeep DEF InputInv
  <2> QED BY <2>1, <2>2
<1> QED BY <1>1 DEF InputInv

\* The bytes of the input or of a file, and what read_file keeps of a sender.
LEMMA OneInput ==
  ASSUME ReaderInv, InputInv, NEW s \in Senders
  PROVE  /\ reader[s].input \in Seq(Bytes) /\ Len(reader[s].input) \in Nat
         /\ reader[s].at \in Nat /\ reader[s].copied \in Nat /\ reader[s].leftover \in Nat
         /\ reader[s].sendingStack \in Seq(Packets) /\ Len(reader[s].sendingStack) \in Nat
         /\ reader[s].fd \in Senders \cup DOMAIN Files \cup {NoFile}
         /\ CarryOK(reader[s], content, stdinTxt)
         /\ AskedOK(s)
<1>1. reader[s] \in Readers
  BY OneReader
<1> QED BY <1>1, LenProperties DEF Readers, InputInv

LEMMA InputOpenCopy ==
  ASSUME ReaderInv, InputInv, NEW s \in Senders, OpenCopy(s), UNCHANGED main,
         main[s].pc = "read"
  PROVE  InputInv'
<1> DEFINE q == reader[s]
           r == [q EXCEPT !.pc = "copy", !.fd = stdinTxt',
                          !.leftover = Len(content[stdinTxt'])]
<1>1. /\ stdinTxt' \in Senders /\ q.pc = "none"
      /\ stdinTxt' = stdinTxt \/ stdinTxt = NoFile
  BY DEF OpenCopy, ReaderInv, ReaderTypeOK
<1>2. content[stdinTxt'] \in Seq(Bytes) /\ Len(content[stdinTxt']) \in Nat
  BY <1>1, LenProperties DEF ReaderInv, ReaderTypeOK
<1>3. reader' = [reader EXCEPT ![s] = r] /\ content' = content
  BY DEF OpenCopy
<1>4. q \in Readers /\ q.at = 0 /\ q.copied = 0 /\ q.sendingStack = <<>>
  BY <1>1, OneReader, OneInput DEF CarryOK
<1> HIDE DEF q
<1>5. r \in Readers
  BY <1>1, <1>2, <1>4 DEF Readers
<1>6. /\ r.pc = "copy" /\ r.fd = stdinTxt' /\ r.at = 0 /\ r.copied = 0
      /\ r.sendingStack = <<>> /\ r.leftover = Len(content[stdinTxt'])
      /\ r.input = q.input
  BY <1>4 DEF Readers
<1>7. Len(r.input) \in Nat
  BY <1>5, LenProperties DEF Readers
<1> HIDE DEF r
<1>8. CopyOK(r, content, stdinTxt')
  BY <1>1, <1>2, <1>6, <1>7 DEF CopyOK
<1>9. CarryOK(r, content, stdinTxt')
  BY <1>6, <1>8 DEF CarryOK
<1> QED BY <1>1, <1>3, <1>5, <1>6, <1>9, OwnInput

LEMMA InputOpenCopyFails ==
  ASSUME ReaderInv, InputInv, NEW s \in Senders, OpenCopyFails(s), UNCHANGED main,
         main[s].pc = "read"
  PROVE  InputInv'
<1> DEFINE r == [reader[s] EXCEPT !.pc = "copy", !.disturbed = TRUE]
<1>1. reader' = [reader EXCEPT ![s] = r] /\ UNCHANGED <<content, stdinTxt>>
  BY DEF OpenCopyFails
<1>2. reader[s] \in Readers /\ reader[s].sendingStack = <<>>
  BY OneReader, OneInput DEF OpenCopyFails, CarryOK
<1>3. r \in Readers
  BY <1>2 DEF Readers
<1>4. r.pc = "copy" /\ r.disturbed = TRUE /\ r.sendingStack = <<>>
  BY <1>2 DEF Readers
<1> HIDE DEF r
<1>5. CarryOK(r, content, stdinTxt')
  BY <1>4 DEF CarryOK
<1> QED BY <1>1, <1>3, <1>4, <1>5, OwnInput

\* An empty stack is cut from a file of which nothing has been read.
LEMMA CutStarts ==
  ASSUME NEW bytes \in Seq(Bytes)
  PROVE  CutOK(bytes, 0, <<>>)
<1>1. Len(<<>>) = 0 /\ 0 * MAX_PAYLOAD_SIZE = 0 /\ Len(bytes) \in Nat
  BY EmptySeq, LenProperties, ReadFileAssumption
<1> QED BY <1>1 DEF CutOK, BlockEnd, Min2

\* A file that begins with the whole input, and that held nothing beyond it,
\* is the input.
LEMMA InputCopyEnd ==
  ASSUME ReaderInv, InputInv, NEW s \in Senders, CopyEnd(s), UNCHANGED main,
         main[s].pc = "read"
  PROVE  InputInv'
<1> DEFINE q == reader[s]
           r == [q EXCEPT
                   !.pc = IF stdinTxt = NoFile THEN "failed" ELSE "segment",
                   !.fd = stdinTxt, !.at = 0]
<1>1. /\ reader' = [reader EXCEPT ![s] = r] /\ UNCHANGED <<content, stdinTxt>>
      /\ q.pc = "copy" /\ q.copied = Len(q.input)
      /\ stdinTxt \in Senders \cup {NoFile}
  BY DEF CopyEnd, ReaderInv, ReaderTypeOK
<1>2. q \in Readers /\ CarryOK(q, content, stdinTxt) /\ q.sendingStack = <<>>
  BY <1>1, OneReader, OneInput DEF CarryOK
<1>3. /\ q.input \in Seq(Bytes) /\ Len(q.input) \in Nat /\ q.leftover \in Nat
  BY OneInput
<1> HIDE DEF q
<1>4. r \in Readers
  BY <1>1, <1>2 DEF Readers
<1>5. /\ r.pc = IF stdinTxt = NoFile THEN "failed" ELSE "segment"
      /\ r.fd = stdinTxt /\ r.at = 0 /\ r.input = q.input /\ r.leftover = q.leftover
      /\ r.sendingStack = <<>> /\ r.disturbed = q.disturbed
  BY <1>2 DEF Readers
<1> HIDE DEF r
<1>6. ASSUME ~r.disturbed
      PROVE  stdinTxt \in Senders /\ CopyOK(q, content, stdinTxt)
  BY <1>1, <1>2, <1>5, <1>6 DEF CarryOK, CopyOK
<1>7. ASSUME ~r.disturbed, r.leftover <= Len(r.input)
      PROVE  BytesOf(r.fd, content) = r.input /\ CutOK(r.input, r.at, r.sendingStack)
  <2> DEFINE c == content[stdinTxt]
  <2>1. stdinTxt \in Senders /\ c \in Seq(Bytes)
    BY <1>6, <1>7 DEF ReaderInv, ReaderTypeOK
  <2>2. stdinTxt = q.fd /\ Len(c) = Len(q.input) /\ \A i \in 1 .. Len(c) : c[i] = q.input[i]
    BY <1>1, <1>3, <1>5, <1>6, <1>7 DEF CopyOK
  <2> HIDE DEF c
  <2>3. c = q.input
    BY <2>1, <2>2, <1>3, SeqEqual
  <2>4. BytesOf(r.fd, content) = c
    BY <2>1, <1>5 DEF BytesOf, c
  <2> QED BY <2>3, <2>4, <1>3, <1>5, CutStarts
<1>8. CarryOK(r, content, stdinTxt')
  BY <1>1, <1>5, <1>7 DEF CarryOK
<1>9. r.pc = "failed" => r.disturbed
  BY <1>5, <1>6, NoFileAssumption
<1> QED BY <1>1, <1>4, <1>8, <1>9, OwnInput

LEMMA InputOpenFile ==
  ASSUME ReaderInv, InputInv, NEW s \in Senders, NEW file, OpenFile(s, file),
         UNCHANGED main, main[s].pc = "read", main[s].file \notin {NULL, "stdin"}
  PROVE  InputInv'
<1> DEFINE q == reader[s]
           fd == Named(file)
           bytes == IF fd = NoFile THEN <<>> ELSE Content(fd)
           r == [q EXCEPT !.pc = IF fd = NoFile THEN "failed" ELSE "segment",
                          !.fd = fd, !.input = bytes]
<1>1. /\ reader' = [reader EXCEPT ![s] = r] /\ UNCHANGED <<content, stdinTxt>>
      /\ q.pc = "none" /\ stdinTxt \in Senders \cup {NoFile}
  BY DEF OpenFile, ReaderInv, ReaderTypeOK
<1>2. fd \in Senders \cup DOMAIN Files \cup {NoFile}
  BY <1>1 DEF Named
<1>3. q \in Readers /\ q.at = 0 /\ q.sendingStack = <<>> /\ q.leftover = 0
  BY <1>1, OneReader, OneInput DEF CarryOK
<1> HIDE DEF q, fd
<1>4. bytes \in Seq(Bytes) /\ (fd # NoFile => bytes = BytesOf(fd, content))
  BY <1>2, ContentType, EmptySeq DEF BytesOf, Content
<1> HIDE DEF bytes
<1>5. r \in Readers
  BY <1>2, <1>3, <1>4 DEF Readers
<1>6. /\ r.pc = IF fd = NoFile THEN "failed" ELSE "segment"
      /\ r.fd = fd /\ r.at = 0 /\ r.input = bytes /\ r.sendingStack = <<>>
  BY <1>3 DEF Readers
<1> HIDE DEF r
<1>7. CutOK(r.input, r.at, r.sendingStack)
  BY <1>4, <1>6, CutStarts
<1>8. CarryOK(r, content, stdinTxt')
  BY <1>4, <1>6, <1>7 DEF CarryOK
<1> QED BY <1>1, <1>5, <1>8, OwnInput

\* A block is read where the last one ended, of a file that is the input.
LEMMA BlockOfInput ==
  ASSUME ReaderInv, InputInv, NEW s \in Senders, reader[s].pc = "segment",
         ~reader[s].disturbed, reader[s].leftover <= Len(reader[s].input)
  PROVE  /\ BytesOf(reader[s].fd, content) = reader[s].input
         /\ CutOK(reader[s].input, reader[s].at, reader[s].sendingStack)
         /\ Block(s) = BlockAt(reader[s].input, reader[s].at)
<1>1. /\ BytesOf(reader[s].fd, content) = reader[s].input
      /\ CutOK(reader[s].input, reader[s].at, reader[s].sendingStack)
  BY OneInput DEF CarryOK
<1>2. Content(reader[s].fd) = BytesOf(reader[s].fd, content)
  BY DEF Content, BytesOf
<1>3. Block(s) = BlockAt(reader[s].input, reader[s].at)
  BY <1>1, <1>2 DEF Block, BlockAt
<1> QED BY <1>1, <1>3

LEMMA InputReadBlock ==
  ASSUME ReaderInv, InputInv, NEW s \in Senders, ReadBlock(s), UNCHANGED main,
         main[s].pc = "read"
  PROVE  InputInv'
<1> DEFINE q == reader[s]
           block == Block(s)
           pkt == [seqnum |-> q.nextSeqnum, payload |-> block]
           new == stack_enqueue(q.sendingStack, pkt)
           r == [q EXCEPT !.at = q.at + Len(block), !.sendingStack = new,
                          !.nextSeqnum = Incr(q.nextSeqnum)]
<1>1. /\ reader' = [reader EXCEPT ![s] = r] /\ UNCHANGED <<content, stdinTxt>>
      /\ q.pc = "segment" /\ block # <<>>
  BY DEF ReadBlock
<1>2. block \in Seq(Bytes) /\ Len(block) \in Nat
  BY <1>1, BlockType, LenProperties
<1>3. /\ q \in Readers /\ Numbered(q.sendingStack)
      /\ q.nextSeqnum = AfterLast(q.sendingStack) /\ Incr(q.nextSeqnum) \in SeqNums
      /\ q.nextSeqnum \in SeqNums
  BY <1>1, OneReader, IncrType DEF Readers
<1>4. /\ q.input \in Seq(Bytes) /\ q.at \in Nat
      /\ q.sendingStack \in Seq(Packets) /\ Len(q.sendingStack) \in Nat
  BY OneInput
<1>5. ~q.disturbed /\ q.leftover <= Len(q.input) =>
        /\ BytesOf(q.fd, content) = q.input
        /\ CutOK(q.input, q.at, q.sendingStack)
        /\ block = BlockAt(q.input, q.at)
  BY <1>1, BlockOfInput
<1> HIDE DEF q, block
<1>6. pkt \in Packets /\ pkt.payload = block /\ pkt.seqnum = q.nextSeqnum
  BY <1>2, <1>3 DEF Packets
<1> HIDE DEF pkt
<1>7. /\ new \in Seq(Packets) /\ Len(new) = Len(q.sendingStack) + 1
      /\ \A i \in 1 .. Len(q.sendingStack) : new[i] = q.sendingStack[i]
      /\ new[Len(q.sendingStack) + 1] = pkt
  <2> DEFINE stack == q.sendingStack
  <2>1. stack \in Seq(Packets) /\ Numbered(stack) /\ pkt.seqnum = AfterLast(stack)
    BY <1>3, <1>4, <1>6
  <2> HIDE DEF stack
  <2>2. LET n == stack_enqueue(stack, pkt)
        IN  /\ n \in Seq(Packets) /\ Len(n) = Len(stack) + 1
            /\ \A i \in 1 .. Len(stack) : n[i] = stack[i]
            /\ n[Len(stack) + 1] = pkt
    BY <2>1, <1>6, EnqueueNext
  <2> QED BY <2>2 DEF stack
<1> HIDE DEF new
<1>8. r \in Readers
  <2>1. q.at + Len(block) \in Nat
    BY <1>2, <1>4
  <2> QED BY <2>1, <1>3, <1>7 DEF Readers
<1>9. /\ r.pc = "segment" /\ r.fd = q.fd /\ r.input = q.input /\ r.leftover = q.leftover
      /\ r.at = q.at + Len(block) /\ r.sendingStack = new /\ r.disturbed = q.disturbed
  BY <1>1, <1>3 DEF Readers
<1> HIDE DEF r
<1>10. ASSUME ~q.disturbed, q.leftover <= Len(q.input)
       PROVE  CutOK(q.input, q.at + Len(block), new)
  <2>1. CutOK(q.input, q.at, q.sendingStack) /\ block = BlockAt(q.input, q.at)
    BY <1>5, <1>10
  <2> QED BY <2>1, <1>1, <1>4, <1>6, <1>7, CutGrows
<1>11. CarryOK(r, content, stdinTxt')
  BY <1>5, <1>9, <1>10 DEF CarryOK
<1> QED BY <1>1, <1>8, <1>9, <1>11, OwnInput

LEMMA InputStops ==
  ASSUME ReaderInv, InputInv, NEW s \in Senders, ReadFails(s) \/ Kill(s), UNCHANGED main
  PROVE  InputInv'
<1>0. reader[s] \in Readers /\ AskedOK(s)
  BY OneReader, OneInput
<1>1. main[s].pc = "read"
  BY <1>0 DEF ReadFails, Kill, AskedOK
<1>2. CASE ReadFails(s)
  <2> DEFINE r == [reader[s] EXCEPT !.pc = "failed", !.disturbed = TRUE]
  <2>1. reader' = [reader EXCEPT ![s] = r] /\ UNCHANGED <<content, stdinTxt>>
    BY <1>2 DEF ReadFails
  <2>2. r \in Readers /\ r.pc = "failed" /\ r.disturbed = TRUE
    BY <1>0 DEF Readers
  <2> HIDE DEF r
  <2>3. CarryOK(r, content, stdinTxt')
    BY <2>2 DEF CarryOK
  <2> QED BY <1>1, <2>1, <2>2, <2>3, OwnInput
<1>3. CASE Kill(s)
  <2> DEFINE r == [reader[s] EXCEPT !.pc = "killed"]
  <2>1. reader' = [reader EXCEPT ![s] = r] /\ UNCHANGED <<content, stdinTxt>>
    BY <1>3 DEF Kill
  <2>2. r \in Readers /\ r.pc = "killed"
    BY <1>0 DEF Readers
  <2> HIDE DEF r
  <2>3. CarryOK(r, content, stdinTxt')
    BY <2>2 DEF CarryOK
  <2> QED BY <1>1, <2>1, <2>2, <2>3, OwnInput
<1> QED BY <1>2, <1>3

-----------------------------------------------------------------------------
\* The end of a file takes the name away from the senders that are copying,
\* and disturbs them.
LEMMA InputReadEnd ==
  ASSUME ReaderInv, InputInv, NEW s \in Senders, ReadEnd(s), UNCHANGED main,
         main[s].pc = "read"
  PROVE  InputInv'
<1> DEFINE q == reader[s]
           pkt == [seqnum |-> q.nextSeqnum, payload |-> <<>>]
           new == stack_enqueue(q.sendingStack, pkt)
           r == [q EXCEPT !.pc = "loaded", !.sendingStack = new]
<1>1. /\ reader'[s] = r /\ content' = content /\ q.pc = "segment" /\ Block(s) = <<>>
      /\ \A t \in Senders : t # s =>
           reader'[t] = [reader[t] EXCEPT !.disturbed = @ \/ reader[t].pc = "copy"]
  BY DEF ReadEnd
<1>2. /\ q \in Readers /\ Numbered(q.sendingStack)
      /\ q.nextSeqnum = AfterLast(q.sendingStack) /\ q.nextSeqnum \in SeqNums
  BY <1>1, OneReader DEF Readers
<1>3. /\ q.input \in Seq(Bytes) /\ q.at \in Nat
      /\ q.sendingStack \in Seq(Packets) /\ Len(q.sendingStack) \in Nat
  BY OneInput
<1>4. ~q.disturbed /\ q.leftover <= Len(q.input) =>
        CutOK(q.input, q.at, q.sendingStack) /\ BlockAt(q.input, q.at) = <<>>
  BY <1>1, BlockOfInput
<1> HIDE DEF q
<1>5. pkt \in Packets /\ pkt.payload = <<>> /\ pkt.seqnum = q.nextSeqnum
  <2>1. <<>> \in Seq(Bytes)
    BY EmptySeq
  <2> QED BY <2>1, <1>2 DEF Packets
<1> HIDE DEF pkt
<1>6. /\ Len(new) = Len(q.sendingStack) + 1
      /\ \A i \in 1 .. Len(q.sendingStack) : new[i] = q.sendingStack[i]
      /\ new[Len(q.sendingStack) + 1] = pkt
  <2> DEFINE stack == q.sendingStack
  <2>1. stack \in Seq(Packets) /\ Numbered(stack) /\ pkt.seqnum = AfterLast(stack)
    BY <1>2, <1>3, <1>5
  <2> HIDE DEF stack
  <2>2. LET n == stack_enqueue(stack, pkt)
        IN  /\ Len(n) = Len(stack) + 1
            /\ \A i \in 1 .. Len(stack) : n[i] = stack[i]
            /\ n[Len(stack) + 1] = pkt
    BY <2>1, <1>5, EnqueueNext
  <2> QED BY <2>2 DEF stack
<1> HIDE DEF new
<1>7. /\ r.pc = "loaded" /\ r.input = q.input /\ r.leftover = q.leftover
      /\ r.sendingStack = new /\ r.disturbed = q.disturbed
  BY <1>2 DEF Readers
<1> HIDE DEF r
<1>8. ASSUME ~q.disturbed, q.leftover <= Len(q.input)
      PROVE  Payloads(new) = Segmented(q.input)
  BY <1>3, <1>4, <1>5, <1>6, <1>8, CutEnds
<1>9. CarryOK(r, content', stdinTxt') /\ AskedOK(s)'
  BY <1>1, <1>7, <1>8 DEF CarryOK, AskedOK
<1>10. ASSUME NEW t \in Senders, t # s
       PROVE  CarryOK(reader'[t], content', stdinTxt') /\ AskedOK(t)'
  <2> DEFINE d == reader[t].pc = "copy"
  <2>1. d \in BOOLEAN /\ reader'[t] = [reader[t] EXCEPT !.disturbed = @ \/ d]
    BY <1>1, <1>10
  <2>2. /\ ~d /\ ~reader[t].disturbed /\ reader[t].pc = "copy" => stdinTxt' = stdinTxt
        /\ ~d /\ reader[t].pc \in {"copy", "segment"} /\ reader[t].fd \in Senders =>
             content'[reader[t].fd] = content[reader[t].fd]
    BY <1>1
  <2> HIDE DEF d
  <2> QED BY <2>1, <2>2, OneInput, OthersKeep
<1> QED BY <1>1, <1>9, <1>10 DEF InputInv

\* A write puts the next bytes of the input behind those that are there, and
\* disturbs whoever else uses the file.
LEMMA InputCopyChunk ==
  ASSUME ReaderInv, InputInv, NEW s \in Senders, NEW n \in 1 .. MAX_PAYLOAD_SIZE,
         NEW m \in 0 .. n, CopyChunk(s, n, m), UNCHANGED main, main[s].pc = "read"
  PROVE  InputInv'
<1> DEFINE q == reader[s]
           chunk == SubSeq(q.input, q.copied + 1, q.copied + m)
           r == [q EXCEPT !.copied = q.copied + n, !.at = q.at + m,
                          !.disturbed = @ \/ m < n]
<1>0. m \in Nat /\ n \in Nat /\ n > 0 /\ m <= n
  BY ReadFileAssumption
<1>1. /\ reader'[s] = r /\ stdinTxt' = stdinTxt /\ q.pc = "copy"
      /\ q.copied + n <= Len(q.input)
      /\ q.fd = NoFile => m = 0 /\ content' = content
      /\ q.fd # NoFile =>
           content' = [content EXCEPT ![q.fd] = Written(content[q.fd], q.at, chunk)]
      /\ \A t \in Senders : t # s =>
           reader'[t] = [reader[t] EXCEPT !.disturbed =
              @ \/ (m > 0 /\ reader[t].pc \in {"copy", "segment"} /\ reader[t].fd = q.fd)]
  BY DEF CopyChunk
<1>2. /\ q \in Readers /\ CarryOK(q, content, stdinTxt) /\ AskedOK(s)
      /\ q.fd # NoFile => q.fd \in Senders /\ q.at <= Len(content[q.fd])
  BY <1>1, OneReader, OneInput
<1>3. /\ q.input \in Seq(Bytes) /\ Len(q.input) \in Nat
      /\ q.at \in Nat /\ q.copied \in Nat /\ q.leftover \in Nat
  BY OneInput
<1> HIDE DEF q
<1>4. /\ chunk \in Seq(Bytes) /\ Len(chunk) = m
      /\ \A i \in 1 .. m : chunk[i] = q.input[q.copied + i]
  <2> DEFINE from == q.copied + 1
             to == q.copied + m
  <2>1. from \in Int /\ to \in Int /\ to - from + 1 = m /\ (from > to => m = 0)
    BY <1>0, <1>3
  <2>2. \A i \in from .. to : q.input[i] \in Bytes
    BY <1>0, <1>1, <1>3, ElementOfSeq
  <2>3. \A i \in 1 .. m : from + i - 1 = q.copied + i
    BY <1>0, <1>3
  <2> HIDE DEF from, to
  <2>4. /\ SubSeq(q.input, from, to) \in Seq(Bytes)
        /\ Len(SubSeq(q.input, from, to)) = IF from <= to THEN to - from + 1 ELSE 0
        /\ \A i \in 1 .. to - from + 1 : SubSeq(q.input, from, to)[i] = q.input[from + i - 1]
    BY <2>1, <2>2, SubSeqProperties
  <2>5. chunk = SubSeq(q.input, from, to)
    BY DEF from, to
  <2> HIDE DEF chunk
  <2> QED BY <2>1, <2>3, <2>4, <2>5
<1> HIDE DEF chunk
<1>5. \A f \in Senders : f # q.fd => content'[f] = content[f]
  BY <1>1 DEF ReaderInv, ReaderTypeOK
<1>6. ASSUME q.fd # NoFile
      PROVE  /\ content[q.fd] \in Seq(Bytes) /\ Len(content[q.fd]) \in Nat
             /\ content'[q.fd] \in Seq(Bytes)
             /\ Len(content'[q.fd]) = IF q.at + m < Len(content[q.fd])
                                      THEN Len(content[q.fd]) ELSE q.at + m
             /\ \A i \in 1 .. q.at : content'[q.fd][i] = content[q.fd][i]
             /\ \A i \in 1 .. m : content'[q.fd][q.at + i] = chunk[i]
             /\ \A i \in q.at + m + 1 .. Len(content[q.fd]) :
                  content'[q.fd][i] = content[q.fd][i]
  <2> DEFINE old == content[q.fd]
             all == Written(old, q.at, chunk)
  <2>1. q.fd \in Senders /\ old \in Seq(Bytes) /\ Len(old) \in Nat /\ q.at <= Len(old)
    BY <1>2, <1>6, LenProperties DEF ReaderInv, ReaderTypeOK
  <2>2. content'[q.fd] = all
    BY <1>1, <1>6, <2>1 DEF ReaderInv, ReaderTypeOK
  <2> HIDE DEF old
  <2>3. /\ all \in Seq(Bytes)
        /\ Len(all) = IF q.at + Len(chunk) < Len(old) THEN Len(old) ELSE q.at + Len(chunk)
        /\ \A i \in 1 .. q.at : all[i] = old[i]
        /\ \A i \in 1 .. Len(chunk) : all[q.at + i] = chunk[i]
        /\ \A i \in q.at + Len(chunk) + 1 .. Len(old) : all[i] = old[i]
    BY <2>1, <1>3, <1>4, WrittenIs
  <2> HIDE DEF all
  <2> QED BY <2>1, <2>2, <2>3, <1>4 DEF old
<1>7. /\ r.pc = "copy" /\ r.fd = q.fd /\ r.input = q.input /\ r.leftover = q.leftover
      /\ r.copied = q.copied + n /\ r.at = q.at + m
      /\ r.sendingStack = q.sendingStack
      /\ ~r.disturbed => ~q.disturbed /\ ~(m < n)
  BY <1>1, <1>2 DEF Readers
<1> HIDE DEF r
<1>8. ASSUME ~r.disturbed
      PROVE  CopyOK(r, content', stdinTxt)
  <2>1. CopyOK(q, content, stdinTxt) /\ m = n
    BY <1>0, <1>1, <1>2, <1>7, <1>8 DEF CarryOK
  <2>2. q.fd # NoFile /\ q.fd \in Senders /\ q.at = q.copied
    BY <2>1, NoFileAssumption DEF CopyOK
  <2>3. Len(content'[q.fd]) =
          IF q.copied + n < q.leftover THEN q.leftover ELSE q.copied + n
    BY <1>0, <1>3, <1>6, <2>1, <2>2 DEF CopyOK
  <2>4. ASSUME NEW i \in 1 .. q.copied + n
        PROVE  content'[q.fd][i] = q.input[i]
    <3>1. CASE i <= q.copied
      <4>1. i \in 1 .. q.copied
        BY <1>0, <1>3, <3>1
      <4> QED BY <4>1, <1>6, <2>1, <2>2 DEF CopyOK
    <3>2. CASE i > q.copied
      <4>1. i - q.copied \in 1 .. m /\ q.copied + (i - q.copied) = i
        BY <1>0, <1>3, <2>1, <3>2
      <4> QED BY <4>1, <1>4, <1>6, <2>2
    <3> QED BY <1>3, <3>1, <3>2
  <2> QED BY <1>1, <1>7, <2>1, <2>2, <2>3, <2>4 DEF CopyOK
<1>9. CarryOK(r, content', stdinTxt')
  BY <1>1, <1>2, <1>7, <1>8 DEF CarryOK
<1>10. AskedOK(s)'
  BY <1>1, <1>7 DEF AskedOK
<1>11. m = 0 /\ q.fd # NoFile => content'[q.fd] = content[q.fd]
  <2> SUFFICES ASSUME m = 0, q.fd # NoFile
               PROVE  content'[q.fd] = content[q.fd]
    OBVIOUS
  <2>1. q.at <= Len(content[q.fd])
    BY <1>2
  <2>2. Len(content'[q.fd]) = Len(content[q.fd])
    BY <1>3, <1>6, <2>1
  <2>3. ASSUME NEW i \in 1 .. Len(content'[q.fd])
        PROVE  content'[q.fd][i] = content[q.fd][i]
    <3>1. i \in 1 .. q.at \/ i \in q.at + m + 1 .. Len(content[q.fd])
      BY <1>3, <1>6, <2>2
    <3> QED BY <3>1, <1>6
  <2> QED BY <1>6, <2>2, <2>3, SeqEqual
<1>12. ASSUME NEW t \in Senders, t # s
       PROVE  CarryOK(reader'[t], content', stdinTxt') /\ AskedOK(t)'
  <2> DEFINE d == m > 0 /\ reader[t].pc \in {"copy", "segment"} /\ reader[t].fd = q.fd
  <2>1. d \in BOOLEAN /\ reader'[t] = [reader[t] EXCEPT !.disturbed = @ \/ d]
    BY <1>1, <1>12
  <2>2. ~d /\ reader[t].pc \in {"copy", "segment"} /\ reader[t].fd \in Senders =>
          content'[reader[t].fd] = content[reader[t].fd]
    <3> SUFFICES ASSUME ~d, reader[t].pc \in {"copy", "segment"}, reader[t].fd \in Senders
                 PROVE  content'[reader[t].fd] = content[reader[t].fd]
      OBVIOUS
    <3>1. CASE reader[t].fd # q.fd
      BY <3>1, <1>5
    <3>2. CASE reader[t].fd = q.fd
      <4>1. m = 0
        BY <3>2, <1>0
      <4> QED BY <4>1, <3>2, <1>11, NoFileAssumption
    <3> QED BY <3>1, <3>2
  <2> HIDE DEF d
  <2> QED BY <1>1, <2>1, <2>2, OneInput, OthersKeep
<1>13. DOMAIN main' = Programs
  BY DEF InputInv
<1>14. ASSUME NEW t \in Senders
       PROVE  CarryOK(reader'[t], content', stdinTxt') /\ AskedOK(t)'
  BY <1>1, <1>9, <1>10, <1>12
<1> QED BY <1>13, <1>14 DEF InputInv

-----------------------------------------------------------------------------
\* The steps of main() before read_file, and those of the receivers.
LEMMA InputMain ==
  ASSUME ReaderInv, InputInv, UNCHANGED readVars, NEW p \in Programs,
         DOMAIN main' = Programs, \A q \in Programs : q # p => main'[q] = main[q],
         main[p].pc # "read"
  PROVE  InputInv'
<1>1. ASSUME NEW s \in Senders
      PROVE  AskedOK(s)'
  <2>1. AskedOK(s) /\ s \in Programs
    BY DEF InputInv, Programs
  <2> QED BY <2>1 DEF AskedOK, readVars
<1> QED BY <1>1 DEF InputInv, readVars

THEOREM InputInductive == ReaderInv /\ InputInv /\ [Next]_vars => InputInv'
<1> SUFFICES ASSUME ReaderInv, InputInv, [Next]_vars
             PROVE  InputInv'
  OBVIOUS
<1>0. DOMAIN main = Programs
  BY DEF InputInv
<1>1. ASSUME NEW s \in Senders, Read(s)
      PROVE  InputInv'
  <2> DEFINE file == IF main[s].file = NULL THEN "stdin" ELSE main[s].file
  <2>1. read_file(s, file) /\ main[s].pc = "read" /\ UNCHANGED main
    BY <1>1 DEF Read
  <2>2. file # "stdin" => main[s].file \notin {NULL, "stdin"}
    OBVIOUS
  <2> HIDE DEF file
  <2>3. CASE OpenCopy(s)
    BY <2>1, <2>3, InputOpenCopy
  <2>4. CASE OpenCopyFails(s)
    BY <2>1, <2>4, InputOpenCopyFails
  <2>5. CASE file # "stdin" /\ OpenFile(s, file)
    BY <2>1, <2>2, <2>5, InputOpenFile
  <2>6. CASE \E n \in 1 .. MAX_PAYLOAD_SIZE : \E m \in 0 .. n : CopyChunk(s, n, m)
    BY <2>1, <2>6, InputCopyChunk
  <2>7. CASE CopyEnd(s)
    BY <2>1, <2>7, InputCopyEnd
  <2>8. CASE ReadBlock(s)
    BY <2>1, <2>8, InputReadBlock
  <2>9. CASE ReadEnd(s)
    BY <2>1, <2>9, InputReadEnd
  <2>10. CASE ReadFails(s)
    BY <2>1, <2>10, InputStops
  <2> QED BY <2>1, <2>3, <2>4, <2>5, <2>6, <2>7, <2>8, <2>9, <2>10 DEF read_file
<1>2. ASSUME NEW s \in Senders, Killed(s)
      PROVE  InputInv'
  BY <1>2, InputStops DEF Killed
<1>3. ASSUME NEW p \in Programs, Options(p) \/ RefuseConnection(p)
      PROVE  InputInv'
  BY <1>0, <1>3, InputMain DEF Options, RefuseConnection
<1>4. ASSUME NEW s \in Senders, Connect(s)
      PROVE  InputInv'
  BY <1>0, <1>4, InputMain DEF Connect, Programs
<1>5. ASSUME NEW r \in Receivers, Bind(r)
      PROVE  InputInv'
  <2>1. /\ UNCHANGED readVars /\ r \in Programs /\ main[r].pc = "connect"
        /\ DOMAIN main' = Programs /\ \A q \in Programs : q # r => main'[q] = main[q]
    BY <1>0, <1>5 DEF Bind, Programs
  <2> QED BY <2>1, InputMain
<1>6. ASSUME NEW r \in Receivers, wait_for_client(r)
      PROVE  InputInv'
  BY <1>0, <1>6, InputMain DEF wait_for_client, Programs
<1>7. CASE UNCHANGED <<readVars, main>>
  BY <1>7 DEF readVars, InputInv, AskedOK
<1>8. ASSUME NEW r \in Receivers, ReadFirst(r)
      PROVE  InputInv'
  BY <1>7, <1>8 DEF ReadFirst
<1>9. ASSUME NEW s \in Senders, NEW r \in Receivers, NEW intact \in BOOLEAN,
             SendFirst(s, r, intact)
      PROVE  InputInv'
  BY <1>7, <1>9 DEF SendFirst
<1>10. CASE UNCHANGED vars
  BY <1>7, <1>10 DEF vars
<1> QED BY <1>1, <1>2, <1>3, <1>4, <1>5, <1>6, <1>8, <1>9, <1>10 DEF Next

LEMMA InputInvHolds == Spec => []InputInv
<1>1. ReaderInv /\ InputInv /\ [Next]_vars => InputInv'
  BY InputInductive
<1> QED BY <1>1, InputInit, ReaderInvHolds, PTL DEF Spec

\* The packets of an undisturbed sender are its whole input, in blocks that
\* are full but for the last one, then the terminating packet; also when it
\* wrote over what another sender had left in stdin.txt, if that was no longer.
THEOREM InputCarried == Spec => []CarriesInput
<1>1. InputInv => CarriesInput
  BY DEF InputInv, CarryOK, CarriesInput
<1> QED BY <1>1, InputInvHolds, PTL

\* Between the copy of standard input and the second open() of stdin.txt,
\* nothing but a failed call or another sender's unlink() stops a sender.
THEOREM GivenUpOnlyWhenDisturbed == Spec => []GivesUpOnlyWhenDisturbed
<1>1. InputInv => GivesUpOnlyWhenDisturbed
  BY DEF InputInv, AskedOK, GivesUpOnlyWhenDisturbed
<1> QED BY <1>1, InputInvHolds, PTL

-----------------------------------------------------------------------------
(***************************************************************************)
(* The options.  A program past init_connection was given two words beside *)
(* its options, for every command line: however long, with whichever       *)
(* options in whichever order, and whatever their arguments look like.     *)
(***************************************************************************)
Words == STRING \ {NULL}

\* What getopt() has done after each number of arguments, and what the second
\* loop has.
Scans(argv, k, f) ==
  f = [n \in 0 .. k |->
         IF n = 0 THEN Unread ELSE Scanned(f[n - 1], argv[n])]

Places(argv, k, f) ==
  f = [n \in 0 .. k |->
         IF n = 0 THEN Unset ELSE Placed(f[n - 1], argv[n])]

\* Both are defined for every number of arguments.
LEMMA GetoptIs ==
  ASSUME NEW argv, Len(argv) \in Nat
  PROVE  \E f : Scans(argv, Len(argv), f) /\ Getopt(argv) = f[Len(argv)]
<1> DEFINE T == {k \in 0 .. Len(argv) : \E f : Scans(argv, k, f)}
<1>1. 0 \in T
  <2> DEFINE f == [n \in 0 .. 0 |-> Unread]
  <2>1. f = [n \in 0 .. 0 |-> IF n = 0 THEN Unread ELSE Scanned(f[n - 1], argv[n])]
    OBVIOUS
  <2>2. Scans(argv, 0, f)
    BY <2>1 DEF Scans
  <2> QED BY <2>2
<1>2. ASSUME NEW k \in 1 .. Len(argv), k - 1 \in T PROVE k \in T
  <2>1. PICK j : j = k - 1 /\ j \in Nat /\ k = j + 1
    OBVIOUS
  <2>2. PICK f : Scans(argv, j, f)
    BY <1>2, <2>1
  <2> DEFINE g == [n \in 0 .. k |-> IF n = k THEN Scanned(f[j], argv[k]) ELSE f[n]]
  <2>3. \A n \in 0 .. j : f[n] = IF n = 0 THEN Unread ELSE Scanned(f[n - 1], argv[n])
    BY <2>2 DEF Scans
  <2>4. \A n \in 0 .. k : g[n] = IF n = k THEN Scanned(f[j], argv[k]) ELSE f[n]
    OBVIOUS
  <2>5. g = [n \in 0 .. k |-> g[n]]
    OBVIOUS
  <2> HIDE DEF g, T
  <2>6. ASSUME NEW n \in 0 .. k
        PROVE  g[n] = IF n = 0 THEN Unread ELSE Scanned(g[n - 1], argv[n])
    <3>1. CASE n = k
      <4>1. n # 0 /\ n - 1 = j /\ n - 1 \in 0 .. k /\ n - 1 # k
        BY <2>1, <3>1
      <4>2. g[n - 1] = f[j]
        BY <2>4, <4>1
      <4> QED BY <2>4, <3>1, <4>1, <4>2
    <3>2. CASE n # k /\ n # 0
      <4>1. n \in 0 .. j /\ n - 1 \in 0 .. k /\ n - 1 # k
        BY <2>1, <3>2
      <4>2. g[n] = f[n] /\ g[n - 1] = f[n - 1]
        BY <2>4, <3>2, <4>1
      <4> QED BY <2>3, <3>2, <4>1, <4>2
    <3>3. CASE n = 0
      <4>1. n # k /\ n \in 0 .. j
        BY <2>1, <3>3
      <4> QED BY <2>3, <2>4, <3>3, <4>1
    <3> QED BY <3>1, <3>2, <3>3
  <2>7. g = [n \in 0 .. k |-> IF n = 0 THEN Unread ELSE Scanned(g[n - 1], argv[n])]
    BY <2>5, <2>6
  <2>8. Scans(argv, k, g)
    BY <2>7 DEF Scans
  <2> QED BY <2>8 DEF T
<1>3. Len(argv) \in T
  <2> HIDE DEF T
  <2>1. 0 .. Len(argv) \subseteq T
    BY <1>1, <1>2, UpTo
  <2> QED BY <2>1
<1> DEFINE done == CHOOSE f : Scans(argv, Len(argv), f)
<1>4. Scans(argv, Len(argv), done)
  BY <1>3
<1>5. Getopt(argv) = done[Len(argv)]
  BY DEF Getopt, Scans
<1> QED BY <1>4, <1>5

LEMMA PlaceAllIs ==
  ASSUME NEW argv, Len(argv) \in Nat
  PROVE  \E f : Places(argv, Len(argv), f) /\ PlaceAll(argv) = f[Len(argv)]
<1> DEFINE T == {k \in 0 .. Len(argv) : \E f : Places(argv, k, f)}
<1>1. 0 \in T
  <2> DEFINE f == [n \in 0 .. 0 |-> Unset]
  <2>1. f = [n \in 0 .. 0 |-> IF n = 0 THEN Unset ELSE Placed(f[n - 1], argv[n])]
    OBVIOUS
  <2>2. Places(argv, 0, f)
    BY <2>1 DEF Places
  <2> QED BY <2>2
<1>2. ASSUME NEW k \in 1 .. Len(argv), k - 1 \in T PROVE k \in T
  <2>1. PICK j : j = k - 1 /\ j \in Nat /\ k = j + 1
    OBVIOUS
  <2>2. PICK f : Places(argv, j, f)
    BY <1>2, <2>1
  <2> DEFINE g == [n \in 0 .. k |-> IF n = k THEN Placed(f[j], argv[k]) ELSE f[n]]
  <2>3. \A n \in 0 .. j : f[n] = IF n = 0 THEN Unset ELSE Placed(f[n - 1], argv[n])
    BY <2>2 DEF Places
  <2>4. \A n \in 0 .. k : g[n] = IF n = k THEN Placed(f[j], argv[k]) ELSE f[n]
    OBVIOUS
  <2>5. g = [n \in 0 .. k |-> g[n]]
    OBVIOUS
  <2> HIDE DEF g, T
  <2>6. ASSUME NEW n \in 0 .. k
        PROVE  g[n] = IF n = 0 THEN Unset ELSE Placed(g[n - 1], argv[n])
    <3>1. CASE n = k
      <4>1. n # 0 /\ n - 1 = j /\ n - 1 \in 0 .. k /\ n - 1 # k
        BY <2>1, <3>1
      <4>2. g[n - 1] = f[j]
        BY <2>4, <4>1
      <4> QED BY <2>4, <3>1, <4>1, <4>2
    <3>2. CASE n # k /\ n # 0
      <4>1. n \in 0 .. j /\ n - 1 \in 0 .. k /\ n - 1 # k
        BY <2>1, <3>2
      <4>2. g[n] = f[n] /\ g[n - 1] = f[n - 1]
        BY <2>4, <3>2, <4>1
      <4> QED BY <2>3, <3>2, <4>1, <4>2
    <3>3. CASE n = 0
      <4>1. n # k /\ n \in 0 .. j
        BY <2>1, <3>3
      <4> QED BY <2>3, <2>4, <3>3, <4>1
    <3> QED BY <3>1, <3>2, <3>3
  <2>7. g = [n \in 0 .. k |-> IF n = 0 THEN Unset ELSE Placed(g[n - 1], argv[n])]
    BY <2>5, <2>6
  <2>8. Places(argv, k, g)
    BY <2>7 DEF Places
  <2> QED BY <2>8 DEF T
<1>3. Len(argv) \in T
  <2> HIDE DEF T
  <2>1. 0 .. Len(argv) \subseteq T
    BY <1>1, <1>2, UpTo
  <2> QED BY <2>1
<1> DEFINE done == CHOOSE f : Places(argv, Len(argv), f)
<1>4. Places(argv, Len(argv), done)
  BY <1>3
<1>5. PlaceAll(argv) = done[Len(argv)]
  BY DEF PlaceAll, Places
<1> QED BY <1>4, <1>5

\* What the second loop has done with some arguments depends on those alone.
LEMMA PlacesAgree ==
  ASSUME NEW p, NEW q, Len(p) \in Nat, Len(q) \in Nat, NEW f, NEW g,
         Places(p, Len(p), f), Places(q, Len(q), g),
         NEW n \in Nat, n <= Len(p), n <= Len(q), \A i \in 1 .. n : p[i] = q[i]
  PROVE  f[n] = g[n]
<1> DEFINE T == {k \in 0 .. n : f[k] = g[k]}
<1>1. /\ \A k \in 0 .. n : f[k] = IF k = 0 THEN Unset ELSE Placed(f[k - 1], p[k])
      /\ \A k \in 0 .. n : g[k] = IF k = 0 THEN Unset ELSE Placed(g[k - 1], q[k])
  <2>1. \A k \in 0 .. n : k \in 0 .. Len(p) /\ k \in 0 .. Len(q)
    OBVIOUS
  <2>2. \A k \in 0 .. Len(p) : f[k] = IF k = 0 THEN Unset ELSE Placed(f[k - 1], p[k])
    BY DEF Places
  <2>3. \A k \in 0 .. Len(q) : g[k] = IF k = 0 THEN Unset ELSE Placed(g[k - 1], q[k])
    BY DEF Places
  <2> QED BY <2>1, <2>2, <2>3
<1>2. 0 \in T
  BY <1>1
<1>3. ASSUME NEW k \in 1 .. n, k - 1 \in T PROVE k \in T
  <2>1. k \in 0 .. n /\ k # 0 /\ p[k] = q[k] /\ f[k - 1] = g[k - 1]
    BY <1>3
  <2> QED BY <1>1, <2>1
<1> HIDE DEF T
<1>4. n \in T
  <2>1. 0 .. n \subseteq T
    BY <1>2, <1>3, UpTo
  <2> QED BY <2>1
<1> QED BY <1>4 DEF T

\* One argument more.
LEMMA PlaceAllNext ==
  ASSUME NEW S, NEW argv \in Seq(S), NEW a \in S
  PROVE  PlaceAll(Append(argv, a)) = Placed(PlaceAll(argv), a)
<1> DEFINE n == Len(argv)
           q == Append(argv, a)
<1>1. /\ n \in Nat /\ Len(q) = n + 1 /\ q[n + 1] = a
      /\ \A i \in 1 .. n : q[i] = argv[i]
  BY AppendProperties, LenProperties
<1> HIDE DEF q
<1>2. PICK f : Places(argv, n, f) /\ PlaceAll(argv) = f[n]
  BY <1>1, PlaceAllIs
<1>3. PICK g : Places(q, n + 1, g) /\ PlaceAll(q) = g[n + 1]
  <2>1. Len(q) \in Nat
    BY <1>1
  <2>2. \E g : Places(q, Len(q), g) /\ PlaceAll(q) = g[Len(q)]
    BY <2>1, PlaceAllIs
  <2> QED BY <1>1, <2>2
<1>4. f[n] = g[n]
  <2>1. Len(q) \in Nat /\ n <= Len(q) /\ Places(q, Len(q), g)
    BY <1>1, <1>3
  <2> QED BY <1>1, <1>2, <2>1, PlacesAgree
<1>5. g[n + 1] = Placed(g[n], q[n + 1])
  <2>1. \A k \in 0 .. n + 1 : g[k] = IF k = 0 THEN Unset ELSE Placed(g[k - 1], q[k])
    BY <1>1, <1>3 DEF Places
  <2>2. PICK m : m = n + 1 /\ m \in 0 .. n + 1 /\ m # 0 /\ m - 1 = n
    BY <1>1
  <2>3. g[m] = Placed(g[m - 1], q[m])
    BY <2>1, <2>2
  <2> QED BY <2>2, <2>3
<1> QED BY <1>1, <1>2, <1>3, <1>4, <1>5 DEF q

LEMMA PlaceAllNone == PlaceAll(<<>>) = Unset
<1>1. Len(<<>>) = 0 /\ Len(<<>>) \in Nat
  BY EmptySeq
<1>2. PICK f : Places(<<>>, 0, f) /\ PlaceAll(<<>>) = f[0]
  BY <1>1, PlaceAllIs
<1> QED BY <1>2 DEF Places

-----------------------------------------------------------------------------
\* Option arguments and words are told apart as getopt() reads on.

\* The positions among the first n that no option -f, at those of os, takes.
Left(n, os) == {i \in 1 .. n : i \notin os /\ i - 1 \notin os}

\* The first two words, and where they were.
WordsAt(words, argv, left) ==
  \/ Len(words) = 0 /\ left = {}
  \/ Len(words) = 1 /\ \E i \in left : left = {i} /\ words[1] = argv[i]
  \/ /\ Len(words) = 2
     /\ \E i, j \in left : /\ i < j /\ left = {i, j}
                           /\ words[1] = argv[i] /\ words[2] = argv[j]
  \/ Len(words) > 2

\* The file is that of the last option.
LastNames(argv, os, file) ==
  \/ os = {} /\ file = NULL
  \/ \E last \in os : (\A o \in os : o <= last) /\ file = argv[last + 1]

\* The first n arguments are words, and options -f at the positions of os.
OnlyFiles(argv, n, st, os) ==
  /\ os \in SUBSET (1 .. n)
  /\ \A k \in os : argv[k] = "-f" /\ k + 1 \notin os
  /\ st.takes <=> n \in os
  /\ LastNames(argv, os \ {n}, st.file)
  /\ WordsAt(st.words, argv, Left(n, os))

\* The second loop takes no option for a name.
NothingPlaced(placed, takes) ==
  /\ placed.hostname = NULL /\ placed.port = NULL /\ ~placed.refuses
  /\ placed.skips <=> takes

AsAsked(argv, n, st) ==
  /\ ~st.ended
  /\ NothingPlaced(PlaceAll(st.options), st.takes)
  /\ \A i \in 1 .. Len(st.words) : ~IsOption(st.words[i])
  /\ \E os : OnlyFiles(argv, n, st, os)

\* The second loop takes an option for the name of a host, which no host has.
NoHost(placed) == placed.hostname \notin {NULL} \cup DOMAIN Hosts

ReadFields == {"options", "words", "file", "takes", "ended", "refuses"}
PlacedFields == {"hostname", "port", "skips", "refuses"}

\* What getopt() has done with the first n arguments.
ReadOK(argv, n, st) ==
  /\ DOMAIN st = ReadFields
  /\ st.options \in Seq(Words) /\ st.words \in Seq(Words)
  /\ DOMAIN PlaceAll(st.options) = PlacedFields
  /\ st.refuses \/ NoHost(PlaceAll(st.options)) \/ AsAsked(argv, n, st)

LEMMA PlacedIs ==
  ASSUME NEW placed, NEW a, DOMAIN placed = PlacedFields
  PROVE  /\ DOMAIN Placed(placed, a) = PlacedFields
         /\ placed.hostname # NULL => Placed(placed, a).hostname = placed.hostname
         /\ placed.skips => Placed(placed, a) = [placed EXCEPT !.skips = FALSE]
         /\ ~placed.skips /\ a = "-f" => Placed(placed, a) = [placed EXCEPT !.skips = TRUE]
         /\ ~placed.skips /\ a # "-f" /\ placed.hostname = NULL =>
              Placed(placed, a) = [placed EXCEPT !.hostname = a]
         /\ ~placed.skips /\ a # "-f" /\ placed.hostname # NULL /\ placed.port = NULL =>
              Placed(placed, a) = [placed EXCEPT !.port = a]
         /\ ~placed.skips /\ a # "-f" /\ placed.hostname # NULL /\ placed.port # NULL =>
              Placed(placed, a) = [placed EXCEPT !.refuses = TRUE]
<1>1. CASE placed.skips
  BY <1>1 DEF Placed, PlacedFields
<1>2. CASE ~placed.skips /\ a = "-f"
  BY <1>2 DEF Placed, PlacedFields
<1>3. CASE ~placed.skips /\ a # "-f" /\ placed.hostname = NULL
  BY <1>3 DEF Placed, PlacedFields
<1>4. CASE ~placed.skips /\ a # "-f" /\ placed.hostname # NULL /\ placed.port = NULL
  BY <1>4 DEF Placed, PlacedFields
<1>5. CASE ~placed.skips /\ a # "-f" /\ placed.hostname # NULL /\ placed.port # NULL
  BY <1>5 DEF Placed, PlacedFields
<1> QED BY <1>1, <1>2, <1>3, <1>4, <1>5

\* What an argument of an option adds to those, and what a word adds.
LEMMA ScanOption ==
  ASSUME NEW argv, NEW n, NEW st, NEW a \in Words, NEW new, ReadOK(argv, n, st),
         DOMAIN new = ReadFields, new.words = st.words,
         new.options = Append(st.options, a), new.refuses = st.refuses
  PROVE  /\ PlaceAll(new.options) = Placed(PlaceAll(st.options), a)
         /\ new.options \in Seq(Words) /\ new.words \in Seq(Words)
         /\ DOMAIN PlaceAll(new.options) = PlacedFields
         /\ NoHost(PlaceAll(st.options)) => NoHost(PlaceAll(new.options))
<1>1. st.options \in Seq(Words) /\ st.words \in Seq(Words)
  BY DEF ReadOK
<1>2. PlaceAll(new.options) = Placed(PlaceAll(st.options), a)
  BY <1>1, PlaceAllNext
<1>3. new.options \in Seq(Words)
  BY <1>1, AppendProperties
<1>4. DOMAIN PlaceAll(st.options) = PlacedFields
  BY DEF ReadOK
<1>5. DOMAIN PlaceAll(new.options) = PlacedFields
  BY <1>2, <1>4, PlacedIs
<1>6. NoHost(PlaceAll(st.options)) => NoHost(PlaceAll(new.options))
  BY <1>2, <1>4, PlacedIs DEF NoHost
<1> QED BY <1>1, <1>2, <1>3, <1>5, <1>6

\* The positions that are left after one argument more.
LEMMA LeftNext ==
  ASSUME NEW n \in Nat, NEW os \in SUBSET (1 .. n)
  PROVE  /\ n \in os => Left(n + 1, os) = Left(n, os)
         /\ n \notin os => Left(n + 1, os) = Left(n, os) \cup {n + 1}
         /\ n \notin os => Left(n + 1, os \cup {n + 1}) = Left(n, os)
<1>1. n \in os => Left(n + 1, os) = Left(n, os)
  BY DEF Left
<1>2. n \notin os => Left(n + 1, os) = Left(n, os) \cup {n + 1}
  BY DEF Left
<1>3. n \notin os => Left(n + 1, os \cup {n + 1}) = Left(n, os)
  BY DEF Left
<1> QED BY <1>1, <1>2, <1>3

LEMMA OneWordMore ==
  ASSUME NEW S, NEW words \in Seq(S), NEW a \in S, NEW argv, NEW n \in Nat,
         NEW left \in SUBSET (1 .. n), WordsAt(words, argv, left), a = argv[n + 1]
  PROVE  WordsAt(Append(words, a), argv, left \cup {n + 1})
<1> DEFINE m == Len(words)
           new == Append(words, a)
<1>1. /\ m \in Nat /\ Len(new) = m + 1 /\ new[m + 1] = a
      /\ \A i \in 1 .. m : new[i] = words[i]
  BY AppendProperties, LenProperties
<1> HIDE DEF m, new
<1>2. CASE m = 0
  <2>0. Len(words) = 0 /\ Len(words) # 1 /\ Len(words) # 2 /\ ~(Len(words) > 2)
    BY <1>2 DEF m
  <2>1. left \cup {n + 1} = {n + 1}
    <3>1. left = {}
      BY ONLY <2>0, WordsAt(words, argv, left) DEF WordsAt
    <3> QED BY <3>1
  <2>2. Len(new) = 1 /\ new[1] = argv[n + 1]
    BY <1>1, <1>2
  <2> QED BY <2>1, <2>2 DEF WordsAt, new
<1>3. CASE m = 1
  <2>1. PICK i \in left : left = {i} /\ words[1] = argv[i]
    BY <1>3 DEF WordsAt, m
  <2>2. PICK j : j = n + 1
    OBVIOUS
  <2>3. i < j /\ left \cup {j} = {i, j}
    BY <2>1, <2>2
  <2>4. Len(new) = 2 /\ new[1] = argv[i] /\ new[2] = argv[j]
    BY <1>1, <1>3, <2>1, <2>2
  <2>5. WordsAt(new, argv, left \cup {j})
    <3>1. i \in left \cup {j} /\ j \in left \cup {j}
      OBVIOUS
    <3>2. \E x, y \in left \cup {j} :
            /\ x < y /\ left \cup {j} = {x, y}
            /\ new[1] = argv[x] /\ new[2] = argv[y]
      BY <2>3, <2>4, <3>1, Zenon
    <3> QED BY <2>4, <3>2 DEF WordsAt
  <2> QED BY <2>2, <2>5 DEF new
<1>4. CASE m > 1
  <2>1. Len(new) > 2
    BY <1>1, <1>4
  <2> QED BY <2>1 DEF WordsAt, new
<1> QED BY <1>1, <1>2, <1>3, <1>4

-----------------------------------------------------------------------------
\* One argument, by what it is.
LEMMA ScannedIs ==
  ASSUME NEW st, NEW a, DOMAIN st = ReadFields, NEW new, new = Scanned(st, a)
  PROVE  /\ DOMAIN new = ReadFields
         /\ st.takes =>
              /\ new.options = Append(st.options, a) /\ new.words = st.words
              /\ new.file = a /\ ~new.takes
              /\ new.ended = st.ended /\ new.refuses = st.refuses
         /\ ~st.takes /\ (st.ended \/ ~IsOption(a)) =>
              /\ new.options = st.options /\ new.words = Append(st.words, a)
              /\ new.file = st.file /\ new.takes = st.takes
              /\ new.ended = st.ended /\ new.refuses = st.refuses
         /\ ~st.takes /\ ~st.ended /\ a = "--" =>
              /\ new.options = Append(st.options, a) /\ new.words = st.words
              /\ new.refuses = st.refuses
         /\ ~st.takes /\ ~st.ended /\ a = "-f" =>
              /\ new.options = Append(st.options, a) /\ new.words = st.words
              /\ new.file = st.file /\ new.takes
              /\ new.ended = st.ended /\ new.refuses = st.refuses
         /\ ~st.takes /\ ~st.ended /\ a \in DOMAIN Attached =>
              /\ new.options = Append(st.options, a) /\ new.words = st.words
              /\ new.refuses = st.refuses
         /\ ~st.takes /\ ~st.ended /\ a \in Unknown =>
              /\ new.options = st.options /\ new.words = st.words /\ new.refuses
<1>0. /\ "-f" # "--" /\ "-f" \notin DOMAIN Attached /\ "--" \notin DOMAIN Attached
      /\ a \in Unknown => a # "-f" /\ a # "--" /\ a \notin DOMAIN Attached
  BY OptionsAssumption
<1>1. CASE st.takes
  <2>1. new = [st EXCEPT !.options = Append(@, a), !.file = a, !.takes = FALSE]
    BY <1>1 DEF Scanned
  <2> QED BY <1>1, <2>1 DEF ReadFields
<1>2. CASE ~st.takes /\ (st.ended \/ ~IsOption(a))
  <2>1. new = [st EXCEPT !.words = Append(@, a)]
    BY <1>2 DEF Scanned, IsOption
  <2>2. ~IsOption(a) => a # "-f" /\ a # "--" /\ a \notin DOMAIN Attached /\ a \notin Unknown
    BY DEF IsOption
  <2> QED BY <1>2, <2>1, <2>2 DEF ReadFields
<1>3. CASE ~st.takes /\ ~st.ended /\ a = "--"
  <2>1. new = [st EXCEPT !.options = Append(@, a), !.ended = TRUE]
    BY <1>0, <1>3 DEF Scanned, IsOption
  <2> QED BY <1>0, <1>3, <2>1 DEF ReadFields, IsOption
<1>4. CASE ~st.takes /\ ~st.ended /\ a = "-f"
  <2>1. new = [st EXCEPT !.options = Append(@, a), !.takes = TRUE]
    BY <1>0, <1>4 DEF Scanned, IsOption
  <2> QED BY <1>0, <1>4, <2>1 DEF ReadFields, IsOption
<1>5. CASE ~st.takes /\ ~st.ended /\ a \in DOMAIN Attached
  <2>1. new = [st EXCEPT !.options = Append(@, a), !.file = Attached[a]]
    BY <1>0, <1>5 DEF Scanned, IsOption
  <2> QED BY <1>0, <1>5, <2>1 DEF ReadFields, IsOption
<1>6. CASE ~st.takes /\ ~st.ended /\ a \in Unknown
  <2>1. /\ a # "-f" /\ a # "--" /\ a \notin DOMAIN Attached /\ a \in Unknown
        /\ IsOption(a)
    BY <1>0, <1>6 DEF IsOption
  <2>2. new = [st EXCEPT !.refuses = TRUE]
    BY <1>6, <2>1 DEF Scanned
  <2>3. new.refuses /\ DOMAIN new = ReadFields
    BY <2>2 DEF ReadFields
  <2> QED BY <1>6, <2>1, <2>2, <2>3 DEF ReadFields
<1> QED BY <1>1, <1>2, <1>3, <1>4, <1>5, <1>6 DEF IsOption

\* The argument of an option -f.
LEMMA ScanArgument ==
  ASSUME NEW argv \in Seq(Words), NEW n \in Nat, n < Len(argv),
         NEW st, ReadOK(argv, n, st), st.takes
  PROVE  ReadOK(argv, n + 1, Scanned(st, argv[n + 1]))
<1>1. PICK a : a = argv[n + 1] /\ a \in Words
  BY LenProperties, ElementOfSeq
<1>2. PICK new : new = Scanned(st, a)
  OBVIOUS
<1>3. DOMAIN st = ReadFields
  BY DEF ReadOK
<1>4. /\ DOMAIN new = ReadFields
      /\ new.options = Append(st.options, a) /\ new.words = st.words
      /\ new.file = a /\ ~new.takes
      /\ new.ended = st.ended /\ new.refuses = st.refuses
  BY <1>2, <1>3, ScannedIs
<1>5. /\ PlaceAll(new.options) = Placed(PlaceAll(st.options), a)
      /\ new.options \in Seq(Words) /\ new.words \in Seq(Words)
      /\ DOMAIN PlaceAll(new.options) = PlacedFields
      /\ NoHost(PlaceAll(st.options)) => NoHost(PlaceAll(new.options))
  BY <1>1, <1>4, ScanOption
<1>6. ASSUME AsAsked(argv, n, st)
      PROVE  AsAsked(argv, n + 1, new)
  <2>1. PICK os : OnlyFiles(argv, n, st, os)
    BY <1>6 DEF AsAsked
  <2>2. /\ os \in SUBSET (1 .. n) /\ n \in os
        /\ \A k \in os : argv[k] = "-f" /\ k + 1 \notin os
        /\ WordsAt(st.words, argv, Left(n, os))
    BY <2>1 DEF OnlyFiles
  <2>3. OnlyFiles(argv, n + 1, new, os)
    <3>1. os \in SUBSET (1 .. n + 1) /\ n + 1 \notin os /\ os \ {n + 1} = os
      BY <2>2
    <3>2. LastNames(argv, os \ {n + 1}, new.file)
      <4>1. \A o \in os : o <= n
        BY <2>2
      <4> QED BY <1>1, <1>4, <2>2, <3>1, <4>1 DEF LastNames
    <3>3. WordsAt(new.words, argv, Left(n + 1, os))
      BY <1>4, <2>2, LeftNext
    <3> QED BY <1>4, <2>2, <3>1, <3>2, <3>3 DEF OnlyFiles
  <2>4. NothingPlaced(PlaceAll(new.options), new.takes)
    <3>1. PICK placed : placed = PlaceAll(st.options) /\ DOMAIN placed = PlacedFields
      BY DEF ReadOK
    <3>2. NothingPlaced(placed, st.takes)
      BY <1>6, <3>1 DEF AsAsked
    <3>3. Placed(placed, a) = [placed EXCEPT !.skips = FALSE]
      BY <3>1, <3>2, PlacedIs DEF NothingPlaced
    <3>4. NothingPlaced(Placed(placed, a), FALSE)
      BY <3>1, <3>2, <3>3 DEF NothingPlaced, PlacedFields
    <3> QED BY <1>4, <1>5, <3>1, <3>4 DEF NothingPlaced
  <2> QED BY <1>4, <1>6, <2>3, <2>4 DEF AsAsked
<1>7. ReadOK(argv, n + 1, new)
  BY <1>4, <1>5, <1>6 DEF ReadOK
<1> QED BY <1>1, <1>2, <1>7

\* A word.
LEMMA ScanWord ==
  ASSUME NEW argv \in Seq(Words), NEW n \in Nat, n < Len(argv),
         NEW st, ReadOK(argv, n, st), ~st.takes, st.ended \/ ~IsOption(argv[n + 1])
  PROVE  ReadOK(argv, n + 1, Scanned(st, argv[n + 1]))
<1>1. PICK a : a = argv[n + 1] /\ a \in Words
  BY LenProperties, ElementOfSeq
<1>2. PICK new : new = Scanned(st, a)
  OBVIOUS
<1>3. DOMAIN st = ReadFields /\ st.options \in Seq(Words) /\ st.words \in Seq(Words)
  BY DEF ReadOK
<1>4. /\ DOMAIN new = ReadFields
      /\ new.options = st.options /\ new.words = Append(st.words, a)
      /\ new.file = st.file /\ new.takes = st.takes
      /\ new.ended = st.ended /\ new.refuses = st.refuses
  BY <1>1, <1>2, <1>3, ScannedIs
<1>5. /\ new.words \in Seq(Words) /\ Len(st.words) \in Nat
      /\ Len(new.words) = Len(st.words) + 1 /\ new.words[Len(st.words) + 1] = a
      /\ \A i \in 1 .. Len(st.words) : new.words[i] = st.words[i]
  BY <1>1, <1>3, <1>4, AppendProperties, LenProperties
<1>6. ASSUME AsAsked(argv, n, st)
      PROVE  AsAsked(argv, n + 1, new)
  <2>1. PICK os : OnlyFiles(argv, n, st, os)
    BY <1>6 DEF AsAsked
  <2>2. /\ os \in SUBSET (1 .. n) /\ n \notin os
        /\ \A k \in os : argv[k] = "-f" /\ k + 1 \notin os
        /\ LastNames(argv, os \ {n}, st.file)
        /\ WordsAt(st.words, argv, Left(n, os))
    BY <2>1 DEF OnlyFiles
  <2>3. OnlyFiles(argv, n + 1, new, os)
    <3>1. /\ os \in SUBSET (1 .. n + 1) /\ n + 1 \notin os
          /\ os \ {n + 1} = os /\ os \ {n} = os
      BY <2>2
    <3>2. PICK left : left = Left(n, os) /\ left \in SUBSET (1 .. n)
      BY DEF Left
    <3>3. WordsAt(Append(st.words, a), argv, left \cup {n + 1})
      <4>1. WordsAt(st.words, argv, left)
        BY <2>2, <3>2
      <4>2. PICK words : words = st.words /\ words \in Seq(Words)
        BY <1>3
      <4> QED BY <1>1, <3>2, <4>1, <4>2, OneWordMore
    <3>4. WordsAt(new.words, argv, Left(n + 1, os))
      BY <1>4, <2>2, <3>2, <3>3, LeftNext
    <3> QED BY <1>4, <2>2, <3>1, <3>4 DEF OnlyFiles
  <2>4. /\ ~new.ended /\ ~IsOption(a)
        /\ NothingPlaced(PlaceAll(new.options), new.takes)
    BY <1>1, <1>4, <1>6 DEF AsAsked
  <2>5. ASSUME NEW i \in 1 .. Len(new.words)
        PROVE  ~IsOption(new.words[i])
    <3>1. CASE i = Len(st.words) + 1
      BY <1>5, <2>4, <3>1
    <3>2. CASE i # Len(st.words) + 1
      <4>1. i \in 1 .. Len(st.words)
        BY <1>5, <3>2
      <4>2. ~IsOption(st.words[i])
        BY <1>6, <4>1 DEF AsAsked
      <4> QED BY <1>5, <4>1, <4>2
    <3> QED BY <3>1, <3>2
  <2> QED BY <2>3, <2>4, <2>5 DEF AsAsked
<1>7. ReadOK(argv, n + 1, new)
  BY <1>3, <1>4, <1>5, <1>6 DEF ReadOK
<1> QED BY <1>1, <1>2, <1>7

\* An option -f.
LEMMA ScanFile ==
  ASSUME NEW argv \in Seq(Words), NEW n \in Nat, n < Len(argv),
         NEW st, ReadOK(argv, n, st), ~st.takes, ~st.ended, argv[n + 1] = "-f"
  PROVE  ReadOK(argv, n + 1, Scanned(st, argv[n + 1]))
<1>1. PICK a : a = argv[n + 1] /\ a \in Words /\ a = "-f"
  BY LenProperties, ElementOfSeq
<1>2. PICK new : new = Scanned(st, a)
  OBVIOUS
<1>3. DOMAIN st = ReadFields
  BY DEF ReadOK
<1>4. /\ DOMAIN new = ReadFields
      /\ new.options = Append(st.options, a) /\ new.words = st.words
      /\ new.file = st.file /\ new.takes
      /\ new.ended = st.ended /\ new.refuses = st.refuses
  BY <1>1, <1>2, <1>3, ScannedIs
<1>5. /\ PlaceAll(new.options) = Placed(PlaceAll(st.options), a)
      /\ new.options \in Seq(Words) /\ new.words \in Seq(Words)
      /\ DOMAIN PlaceAll(new.options) = PlacedFields
      /\ NoHost(PlaceAll(st.options)) => NoHost(PlaceAll(new.options))
  BY <1>1, <1>4, ScanOption
<1>6. ASSUME AsAsked(argv, n, st)
      PROVE  AsAsked(argv, n + 1, new)
  <2>1. PICK os : OnlyFiles(argv, n, st, os)
    BY <1>6 DEF AsAsked
  <2>2. /\ os \in SUBSET (1 .. n) /\ n \notin os
        /\ \A k \in os : argv[k] = "-f" /\ k + 1 \notin os
        /\ LastNames(argv, os \ {n}, st.file)
        /\ WordsAt(st.words, argv, Left(n, os))
    BY <2>1 DEF OnlyFiles
  <2>3. PICK more : more = os \cup {n + 1}
    OBVIOUS
  <2>4. OnlyFiles(argv, n + 1, new, more)
    <3>1. /\ more \in SUBSET (1 .. n + 1) /\ n + 1 \in more
          /\ more \ {n + 1} = os \ {n}
      BY <2>2, <2>3
    <3>2. \A k \in more : argv[k] = "-f" /\ k + 1 \notin more
      <4> SUFFICES ASSUME NEW k \in more
                   PROVE  argv[k] = "-f" /\ k + 1 \notin more
        OBVIOUS
      <4>1. CASE k \in os
        <5>1. k # n /\ k \in Int /\ k + 1 # n + 1
          BY <2>2, <4>1
        <5> QED BY <2>2, <2>3, <4>1, <5>1
      <4>2. CASE k = n + 1
        <5>1. k + 1 \notin 1 .. n /\ k + 1 # n + 1
          BY <4>2
        <5> QED BY <1>1, <2>2, <2>3, <4>2, <5>1
      <4> QED BY <2>3, <4>1, <4>2
    <3>3. WordsAt(new.words, argv, Left(n + 1, more))
      BY <1>4, <2>2, <2>3, LeftNext
    <3> QED BY <1>4, <2>2, <3>1, <3>2, <3>3 DEF OnlyFiles
  <2>5. NothingPlaced(PlaceAll(new.options), new.takes)
    <3>1. PICK placed : placed = PlaceAll(st.options) /\ DOMAIN placed = PlacedFields
      BY DEF ReadOK
    <3>2. NothingPlaced(placed, st.takes)
      BY <1>6, <3>1 DEF AsAsked
    <3>3. Placed(placed, a) = [placed EXCEPT !.skips = TRUE]
      BY <1>1, <3>1, <3>2, PlacedIs DEF NothingPlaced
    <3>4. NothingPlaced(Placed(placed, a), TRUE)
      BY <3>1, <3>2, <3>3 DEF NothingPlaced, PlacedFields
    <3> QED BY <1>4, <1>5, <3>1, <3>4 DEF NothingPlaced
  <2> QED BY <1>4, <1>6, <2>4, <2>5 DEF AsAsked
<1>7. ReadOK(argv, n + 1, new)
  BY <1>4, <1>5, <1>6 DEF ReadOK
<1> QED BY <1>1, <1>2, <1>7

\* Any other option is refused, or taken for the name of a host.
LEMMA ScanOther ==
  ASSUME NEW argv \in Seq(Words), NEW n \in Nat, n < Len(argv),
         NEW st, ReadOK(argv, n, st), ~st.takes, ~st.ended,
         argv[n + 1] \in {"--"} \cup DOMAIN Attached \cup Unknown
  PROVE  ReadOK(argv, n + 1, Scanned(st, argv[n + 1]))
<1>1. PICK a : a = argv[n + 1] /\ a \in Words
  BY LenProperties, ElementOfSeq
<1>2. PICK new : new = Scanned(st, a)
  OBVIOUS
<1>3. /\ DOMAIN st = ReadFields /\ DOMAIN PlaceAll(st.options) = PlacedFields
      /\ st.options \in Seq(Words) /\ st.words \in Seq(Words)
  BY DEF ReadOK
<1>4. CASE a \in Unknown
  <2>1. /\ DOMAIN new = ReadFields
        /\ new.options = st.options /\ new.words = st.words /\ new.refuses
    BY <1>2, <1>3, <1>4, ScannedIs
  <2>2. ReadOK(argv, n + 1, new)
    BY <1>3, <2>1 DEF ReadOK
  <2> QED BY <1>1, <1>2, <2>2
<1>5. CASE a \in {"--"} \cup DOMAIN Attached
  <2>1. /\ DOMAIN new = ReadFields
        /\ new.options = Append(st.options, a) /\ new.words = st.words
        /\ new.refuses = st.refuses
    BY <1>2, <1>3, <1>5, ScannedIs
  <2>2. /\ PlaceAll(new.options) = Placed(PlaceAll(st.options), a)
        /\ new.options \in Seq(Words) /\ new.words \in Seq(Words)
        /\ DOMAIN PlaceAll(new.options) = PlacedFields
        /\ NoHost(PlaceAll(st.options)) => NoHost(PlaceAll(new.options))
    <3>1. /\ a \in Words /\ ReadOK(argv, n, st)
          /\ DOMAIN new = ReadFields /\ new.words = st.words
          /\ new.options = Append(st.options, a) /\ new.refuses = st.refuses
      BY <1>1, <2>1
    <3> QED BY ONLY <3>1, ScanOption
  <2>3. ASSUME AsAsked(argv, n, st)
        PROVE  NoHost(PlaceAll(new.options))
    <3>1. PICK placed : placed = PlaceAll(st.options) /\ DOMAIN placed = PlacedFields
      BY <1>3
    <3>2. NothingPlaced(placed, st.takes)
      BY <2>3, <3>1 DEF AsAsked
    <3>3. a # "-f" /\ a # NULL /\ a \notin DOMAIN Hosts
      BY <1>1, <1>5, OptionsAssumption, StartUpAssumption DEF Words, IsOption
    <3>4. Placed(placed, a) = [placed EXCEPT !.hostname = a]
      BY <3>1, <3>2, <3>3, PlacedIs DEF NothingPlaced
    <3>5. Placed(placed, a).hostname = a
      BY <3>1, <3>4 DEF PlacedFields
    <3> QED BY <2>2, <3>1, <3>3, <3>5 DEF NoHost
  <2>4. ReadOK(argv, n + 1, new)
    BY <2>1, <2>2, <2>3 DEF ReadOK
  <2> QED BY <1>1, <1>2, <2>4
<1> QED BY <1>1, <1>4, <1>5

\* All arguments.
LEMMA GetoptOK ==
  ASSUME NEW argv \in Seq(Words)
  PROVE  ReadOK(argv, Len(argv), Getopt(argv))
<1>1. Len(argv) \in Nat
  BY LenProperties
<1>2. PICK f : Scans(argv, Len(argv), f) /\ Getopt(argv) = f[Len(argv)]
  BY <1>1, GetoptIs
<1>3. \A k \in 0 .. Len(argv) :
        f[k] = IF k = 0 THEN Unread ELSE Scanned(f[k - 1], argv[k])
  BY <1>2 DEF Scans
<1> DEFINE T == {k \in 0 .. Len(argv) : ReadOK(argv, k, f[k])}
<1>4. 0 \in T
  <2>1. ReadOK(argv, 0, Unread)
    <3>1. <<>> \in Seq(Words) /\ Len(<<>>) = 0
      BY EmptySeq
    <3>2. DOMAIN Unset = PlacedFields /\ NothingPlaced(Unset, FALSE)
      BY DEF Unset, PlacedFields, NothingPlaced
    <3>3. /\ DOMAIN Unread = ReadFields
          /\ Unread.options = <<>> /\ Unread.words = <<>> /\ Unread.file = NULL
          /\ ~Unread.takes /\ ~Unread.ended
      BY DEF Unread, ReadFields
    <3>4. PICK st : st = Unread
      OBVIOUS
    <3>5. OnlyFiles(argv, 0, st, {})
      <4>1. Left(0, {}) = {}
        BY DEF Left
      <4> QED BY <3>1, <3>3, <3>4, <4>1 DEF OnlyFiles, LastNames, WordsAt
    <3>6. AsAsked(argv, 0, st)
      BY <3>1, <3>2, <3>3, <3>4, <3>5, PlaceAllNone DEF AsAsked, NothingPlaced
    <3> QED BY <3>1, <3>2, <3>3, <3>4, <3>6, PlaceAllNone DEF ReadOK
  <2> QED BY <1>1, <1>3, <2>1
<1>5. ASSUME NEW k \in 1 .. Len(argv), k - 1 \in T PROVE k \in T
  <2>1. PICK n : n = k - 1 /\ n \in Nat /\ n < Len(argv) /\ k = n + 1 /\ k # 0
    BY <1>1
  <2>2. PICK st : st = f[n] /\ ReadOK(argv, n, st)
    BY <1>5, <2>1
  <2>3. f[k] = Scanned(st, argv[n + 1])
    BY <1>3, <2>1, <2>2
  <2>4. ReadOK(argv, n + 1, Scanned(st, argv[n + 1]))
    <3>1. CASE st.takes
      BY <2>1, <2>2, <3>1, ScanArgument
    <3>2. CASE ~st.takes /\ (st.ended \/ ~IsOption(argv[n + 1]))
      BY <2>1, <2>2, <3>2, ScanWord
    <3>3. CASE ~st.takes /\ ~st.ended /\ argv[n + 1] = "-f"
      BY <2>1, <2>2, <3>3, ScanFile
    <3>4. CASE /\ ~st.takes /\ ~st.ended
               /\ argv[n + 1] \in {"--"} \cup DOMAIN Attached \cup Unknown
      BY <2>1, <2>2, <3>4, ScanOther
    <3> QED BY <3>1, <3>2, <3>3, <3>4 DEF IsOption
  <2> QED BY <2>1, <2>3, <2>4
<1> HIDE DEF T
<1>6. Len(argv) \in T
  <2>1. 0 .. Len(argv) \subseteq T
    BY <1>1, <1>4, <1>5, UpTo
  <2> QED BY <1>1, <2>1
<1> QED BY <1>2, <1>6 DEF T

-----------------------------------------------------------------------------
\* The words come after the options.
LEMMA WordsAfter ==
  ASSUME NEW options \in Seq(Words), NEW words \in Seq(Words)
  PROVE  \E h : /\ h[0] = PlaceAll(options)
                /\ \A k \in 1 .. Len(words) : h[k] = Placed(h[k - 1], words[k])
                /\ PlaceAll(options \o words) = h[Len(words)]
<1> DEFINE m == Len(options)
           n == Len(words)
           q == options \o words
<1>1. /\ m \in Nat /\ n \in Nat /\ Len(q) = m + n
      /\ \A i \in 1 .. m + n : q[i] = IF i <= m THEN options[i] ELSE words[i - m]
  BY LenProperties, ConcatProperties
<1> HIDE DEF m, n, q
<1>2. PICK f : Places(options, m, f) /\ PlaceAll(options) = f[m]
  BY <1>1, PlaceAllIs DEF m
<1>3. PICK g : Places(q, m + n, g) /\ PlaceAll(q) = g[m + n]
  <2>1. Len(q) \in Nat
    BY <1>1
  <2>2. \E g : Places(q, Len(q), g) /\ PlaceAll(q) = g[Len(q)]
    BY <2>1, PlaceAllIs
  <2> QED BY <1>1, <2>2
<1>4. f[m] = g[m]
  <2>1. /\ Len(options) \in Nat /\ m <= Len(options) /\ Places(options, Len(options), f)
    BY <1>1, <1>2 DEF m
  <2>2. Len(q) \in Nat /\ m <= Len(q) /\ Places(q, Len(q), g) /\ m \in Nat
    BY <1>1, <1>3
  <2>3. \A i \in 1 .. m : options[i] = q[i]
    BY <1>1
  <2> QED BY ONLY <2>1, <2>2, <2>3, PlacesAgree
<1> DEFINE h == [k \in 0 .. n |-> g[m + k]]
<1>5. h[0] = PlaceAll(options) /\ h[n] = PlaceAll(q)
  BY <1>1, <1>2, <1>3, <1>4
<1>6. ASSUME NEW k \in 1 .. n
      PROVE  h[k] = Placed(h[k - 1], words[k])
  <2>1. PICK i : i = m + k
    OBVIOUS
  <2>2. i \in 0 .. m + n /\ i # 0 /\ i - 1 = m + (k - 1) /\ i \in 1 .. m + n
        /\ ~(i <= m) /\ i - m = k /\ k - 1 \in 0 .. n /\ k \in 0 .. n
    BY <1>1, <2>1
  <2>3. \A x \in 0 .. m + n : g[x] = IF x = 0 THEN Unset ELSE Placed(g[x - 1], q[x])
    BY <1>3 DEF Places
  <2>4. g[i] = Placed(g[i - 1], q[i]) /\ q[i] = words[k]
    BY <1>1, <2>2, <2>3
  <2>5. h[k] = g[i] /\ h[k - 1] = g[i - 1]
    BY <2>1, <2>2
  <2> QED BY <2>4, <2>5
<1> HIDE DEF h
<1> QED BY <1>5, <1>6 DEF n, q

\* The name of a host that is there stays.
LEMMA NoHostStays ==
  ASSUME NEW options \in Seq(Words), NEW words \in Seq(Words),
         DOMAIN PlaceAll(options) = PlacedFields, NoHost(PlaceAll(options))
  PROVE  NoHost(PlaceAll(options \o words))
<1>0. Len(words) \in Nat
  BY LenProperties
<1>1. PICK h : /\ h[0] = PlaceAll(options)
               /\ \A k \in 1 .. Len(words) : h[k] = Placed(h[k - 1], words[k])
               /\ PlaceAll(options \o words) = h[Len(words)]
  BY WordsAfter
<1> DEFINE T == {k \in 0 .. Len(words) : DOMAIN h[k] = PlacedFields /\ NoHost(h[k])}
<1>2. 0 \in T
  BY <1>0, <1>1
<1>3. ASSUME NEW k \in 1 .. Len(words), k - 1 \in T PROVE k \in T
  <2>1. PICK before : before = h[k - 1] /\ DOMAIN before = PlacedFields /\ NoHost(before)
    BY <1>3
  <2>2. h[k] = Placed(before, words[k])
    BY <1>1, <2>1
  <2>3. DOMAIN h[k] = PlacedFields /\ NoHost(h[k])
    BY <2>1, <2>2, PlacedIs DEF NoHost
  <2>4. k \in 0 .. Len(words)
    BY <1>0
  <2> QED BY <2>3, <2>4
<1> HIDE DEF T
<1>4. Len(words) \in T
  <2>1. 0 .. Len(words) \subseteq T
    BY <1>0, <1>2, <1>3, UpTo
  <2> QED BY <1>0, <2>1
<1> QED BY <1>1, <1>4 DEF T

\* The second loop takes two words, and refuses a third.
TwoPlaced(words, k, placed) ==
  /\ DOMAIN placed = PlacedFields
  /\ ~placed.skips
  /\ placed.hostname = IF k = 0 THEN NULL ELSE words[1]
  /\ placed.port = IF k <= 1 THEN NULL ELSE words[2]
  /\ k > 2 => placed.refuses

LEMMA TwoWordsPlaced ==
  ASSUME NEW options \in Seq(Words), NEW words \in Seq(Words),
         DOMAIN PlaceAll(options) = PlacedFields,
         NothingPlaced(PlaceAll(options), FALSE),
         \A i \in 1 .. Len(words) : ~IsOption(words[i])
  PROVE  TwoPlaced(words, Len(words), PlaceAll(options \o words))
<1>0. Len(words) \in Nat
  BY LenProperties
<1>1. PICK h : /\ h[0] = PlaceAll(options)
               /\ \A k \in 1 .. Len(words) : h[k] = Placed(h[k - 1], words[k])
               /\ PlaceAll(options \o words) = h[Len(words)]
  BY WordsAfter
<1> DEFINE T == {k \in 0 .. Len(words) : TwoPlaced(words, k, h[k])}
<1>2. 0 \in T
  BY <1>0, <1>1 DEF TwoPlaced, NothingPlaced
<1>3. ASSUME NEW k \in 1 .. Len(words), k - 1 \in T PROVE k \in T
  <2>1. PICK j : j = k - 1 /\ j \in Nat /\ k = j + 1
    OBVIOUS
  <2>2. PICK before : before = h[j] /\ TwoPlaced(words, j, before)
    BY <1>3, <2>1
  <2>3. h[k] = Placed(before, words[k])
    BY <1>1, <2>1, <2>2
  <2>4. \A i \in 1 .. Len(words) : words[i] # NULL /\ words[i] # "-f"
    <3>1. \A i \in 1 .. Len(words) : words[i] \in Words
      BY ElementOfSeq
    <3> QED BY <3>1 DEF Words, IsOption
  <2>5. DOMAIN before = PlacedFields /\ ~before.skips
    BY <2>2 DEF TwoPlaced
  <2>6. CASE j = 0
    <3>1. before.hostname = NULL /\ before.port = NULL /\ k = 1
      BY <2>1, <2>2, <2>6 DEF TwoPlaced
    <3>2. h[k] = [before EXCEPT !.hostname = words[k]]
      BY <2>3, <2>4, <2>5, <3>1, PlacedIs
    <3> QED BY <2>5, <3>1, <3>2 DEF TwoPlaced, PlacedFields
  <2>7. CASE j = 1
    <3>1. before.hostname = words[1] /\ before.port = NULL /\ k = 2
      BY <2>1, <2>2, <2>7 DEF TwoPlaced
    <3>2. words[1] # NULL
      BY <2>4, <3>1
    <3>3. h[k] = [before EXCEPT !.port = words[k]]
      BY <2>3, <2>4, <2>5, <3>1, <3>2, PlacedIs
    <3> QED BY <2>5, <3>1, <3>3 DEF TwoPlaced, PlacedFields
  <2>8. CASE j > 1
    <3>1. before.hostname = words[1] /\ before.port = words[2]
      BY <2>1, <2>2, <2>8 DEF TwoPlaced
    <3>2. words[1] # NULL /\ words[2] # NULL /\ k > 2
      BY <1>0, <2>1, <2>4, <2>8
    <3>3. h[k] = [before EXCEPT !.refuses = TRUE]
      BY <2>3, <2>4, <2>5, <3>1, <3>2, PlacedIs
    <3> QED BY <2>5, <3>1, <3>2, <3>3 DEF TwoPlaced, PlacedFields
  <2> QED BY <2>1, <2>6, <2>7, <2>8
<1> HIDE DEF T
<1>4. Len(words) \in T
  <2>1. 0 .. Len(words) \subseteq T
    BY <1>0, <1>2, <1>3, UpTo
  <2> QED BY <1>0, <2>1
<1> QED BY <1>1, <1>4 DEF T

-----------------------------------------------------------------------------
\* What the usage says that a command line asks for.
Asks(argv, hostname, port, file) ==
  \E i, j \in 1 .. Len(argv), os \in SUBSET (1 .. Len(argv)) :
    /\ i < j
    /\ OptionsAt(argv, os)
    /\ Taken(argv, os) = 1 .. Len(argv) \ {i, j}
    /\ hostname = argv[i]
    /\ port = Atoi(argv[j])
    /\ file = IF os = {} THEN NULL
              ELSE FileAt(argv, CHOOSE k \in os : \A o \in os : o <= k)

\* The two readings of argv agree whenever process_options() accepts it and the
\* first of the two words is the name of a host.
LEMMA OptionsAsked ==
  ASSUME NEW argv \in Seq(Words), NEW o, o = process_options(argv),
         o.status = "EXIT_SUCCESS", o.hostname \in DOMAIN Hosts
  PROVE  Asks(argv, o.hostname, o.port, o.file)
<1> DEFINE n == Len(argv)
           read == Getopt(argv)
           placed == PlaceAll(read.options \o read.words)
<1>1. ReadOK(argv, n, read) /\ n \in Nat
  BY GetoptOK, LenProperties
<1>2. /\ ~read.refuses /\ ~read.takes /\ ~placed.refuses /\ placed.port # NULL
      /\ o.hostname = placed.hostname /\ o.port = Atoi(placed.port) /\ o.file = read.file
  BY DEF process_options
<1> HIDE DEF n, read
<1>3. ~NoHost(placed)
  BY <1>2 DEF NoHost
<1>4. PICK options \in Seq(Words), words \in Seq(Words) :
        options = read.options /\ words = read.words
  BY <1>1 DEF ReadOK
<1>5. DOMAIN PlaceAll(options) = PlacedFields /\ placed = PlaceAll(options \o words)
  BY <1>1, <1>4 DEF ReadOK
<1> HIDE DEF placed
<1>6. ~NoHost(PlaceAll(options))
  BY <1>3, <1>5, NoHostStays
<1>7. AsAsked(argv, n, read)
  BY <1>1, <1>2, <1>4, <1>6 DEF ReadOK
<1>8. TwoPlaced(words, Len(words), placed)
  <2>1. NothingPlaced(PlaceAll(options), FALSE)
    BY <1>2, <1>4, <1>7 DEF AsAsked, NothingPlaced
  <2>2. \A i \in 1 .. Len(words) : ~IsOption(words[i])
    BY <1>4, <1>7 DEF AsAsked
  <2> QED BY <1>5, <2>1, <2>2, TwoWordsPlaced
<1>9. Len(words) = 2 /\ placed.hostname = words[1] /\ placed.port = words[2]
  <2>1. Len(words) \in Nat
    BY LenProperties
  <2>2. PICK k : k = Len(words) /\ k \in Nat
    BY <2>1
  <2>3. /\ placed.hostname = IF k = 0 THEN NULL ELSE words[1]
        /\ placed.port = IF k <= 1 THEN NULL ELSE words[2]
        /\ ~(k > 2)
    BY <1>2, <1>8, <2>2 DEF TwoPlaced
  <2>4. placed.port # NULL
    BY <1>2
  <2> QED BY ONLY <2>2, <2>3, <2>4
<1>10. PICK os : OnlyFiles(argv, n, read, os)
  BY <1>7 DEF AsAsked
<1>11. /\ os \in SUBSET (1 .. n) /\ n \notin os /\ os \ {n} = os
       /\ \A k \in os : argv[k] = "-f" /\ k + 1 \notin os
       /\ LastNames(argv, os, read.file)
       /\ WordsAt(words, argv, Left(n, os))
  BY <1>2, <1>4, <1>10 DEF OnlyFiles
<1>12. PICK i, j \in Left(n, os) :
         i < j /\ Left(n, os) = {i, j} /\ words[1] = argv[i] /\ words[2] = argv[j]
  BY <1>9, <1>11 DEF WordsAt
<1>13. i \in 1 .. n /\ j \in 1 .. n
  BY <1>12 DEF Left
<1>14. OptionsAt(argv, os)
  <2>1. \A k \in os : k < n
    BY <1>1, <1>11
  <2> QED BY <1>11, <2>1 DEF OptionsAt, n
<1>15. Taken(argv, os) = 1 .. n \ {i, j}
  <2>1. Taken(argv, os) = os \cup {k + 1 : k \in os}
    BY <1>11 DEF Taken
  <2>2. {k + 1 : k \in os} = {x \in 1 .. n : x - 1 \in os}
    <3>1. \A k \in os : k + 1 \in 1 .. n /\ (k + 1) - 1 = k
      BY <1>1, <1>11
    <3>2. \A x \in 1 .. n : x = (x - 1) + 1
      OBVIOUS
    <3> QED BY <3>1, <3>2
  <2>3. \A x \in 1 .. n : x \in {i, j} <=> x \notin os /\ x - 1 \notin os
    BY <1>12 DEF Left
  <2> QED BY <1>11, <2>1, <2>2, <2>3
<1>16. read.file = IF os = {} THEN NULL
                   ELSE FileAt(argv, CHOOSE k \in os : \A x \in os : x <= k)
  <2>1. CASE os = {}
    BY <1>11, <2>1 DEF LastNames
  <2>2. CASE os # {}
    <3>1. PICK last \in os : (\A x \in os : x <= last) /\ read.file = argv[last + 1]
      BY <1>11, <2>2 DEF LastNames
    <3>2. \A k \in os : (\A x \in os : x <= k) => k = last
      BY <1>11, <3>1
    <3>3. PICK most : most = CHOOSE k \in os : \A x \in os : x <= k
      OBVIOUS
    <3>4. most = last
      BY <3>1, <3>2, <3>3
    <3>5. FileAt(argv, most) = argv[last + 1]
      BY <1>11, <3>4 DEF FileAt
    <3> QED BY <2>2, <3>1, <3>3, <3>5
  <2> QED BY <2>1, <2>2
<1> QED BY <1>2, <1>9, <1>11, <1>12, <1>13, <1>14, <1>15, <1>16 DEF Asks, n

-----------------------------------------------------------------------------
\* A program that is past process_options() has its globals from there; past
\* init_connection, its host has an address and its socket is as asked for.
ConnectedAsAsked(p) ==
  /\ main[p].hostname \in DOMAIN Hosts
  /\ main[p].port \in 1 .. PortSpace - 1 =>
       main[p].socket = [address |-> Hosts[main[p].hostname], port |-> main[p].port]

StartedOK(p) ==
  /\ start[p].argv \in Seq(Words)
  /\ main[p].pc \notin {"options", "failed"} =>
       LET o == process_options(start[p].argv)
       IN  /\ o.status = "EXIT_SUCCESS"
           /\ main[p].hostname = o.hostname /\ main[p].port = o.port
           /\ main[p].file = o.file
  /\ main[p].pc \notin {"options", "connect", "failed"} => ConnectedAsAsked(p)

\* The inductive invariant.
StartedInv ==
  /\ DOMAIN start \subseteq Programs
  /\ MainFields
  /\ \A p \in DOMAIN start : StartedOK(p)

LEMMA StartedInit == Init => StartedInv
<1> SUFFICES ASSUME Init PROVE StartedInv
  OBVIOUS
<1>1. /\ start \in Starts /\ DOMAIN start \subseteq Programs
      /\ \A p \in DOMAIN start : start[p].argv \in Seq(Words)
  BY StartUpAssumption DEF Init, Words
<1>2. MainFields
  BY DEF Init, MainFields
<1>3. \A p \in DOMAIN start : main[p].pc = "options"
  BY <1>1 DEF Init
<1> QED BY <1>1, <1>2, <1>3 DEF StartedInv, StartedOK

\* The programs that a step leaves where they are.
LEMMA StartedStays ==
  ASSUME StartedInv, start' = start, MainFields', NEW S,
         \A q \in Programs : q \notin S => main'[q] = main[q],
         \A q \in S \cap DOMAIN start : StartedOK(q)'
  PROVE  StartedInv'
<1>1. ASSUME NEW q \in DOMAIN start, q \notin S
      PROVE  StartedOK(q)'
  <2>1. main'[q] = main[q] /\ StartedOK(q)
    BY <1>1 DEF StartedInv
  <2> QED BY <2>1 DEF StartedOK, ConnectedAsAsked
<1> QED BY <1>1 DEF StartedInv

\* A step of main() of a program that has read its options.
LEMMA StartedStep ==
  ASSUME StartedInv, start' = start, NEW p \in Programs,
         DOMAIN main' = Programs, DOMAIN main'[p] = DOMAIN main[p],
         \A q \in Programs : q # p => main'[q] = main[q],
         main[p].pc \notin {"options", "failed"},
         main'[p].hostname = main[p].hostname, main'[p].port = main[p].port,
         main'[p].file = main[p].file,
         p \in DOMAIN start /\ main'[p].pc \notin {"options", "connect", "failed"} =>
           ConnectedAsAsked(p)'
  PROVE  StartedInv'
<1>1. MainFields'
  BY DEF StartedInv, MainFields
<1>2. ASSUME p \in DOMAIN start
      PROVE  StartedOK(p)'
  <2>1. StartedOK(p)
    BY <1>2 DEF StartedInv
  <2> QED BY <1>2, <2>1 DEF StartedOK
<1>3. \A q \in Programs : q \notin {p} => main'[q] = main[q]
  OBVIOUS
<1>4. \A q \in {p} \cap DOMAIN start : StartedOK(q)'
  BY <1>2
<1> QED BY <1>1, <1>3, <1>4, StartedStays

LEMMA StartedOptions ==
  ASSUME StartedInv, NEW p \in Programs, Options(p)
  PROVE  StartedInv'
<1> DEFINE o == process_options(start[p].argv)
<1>0. DOMAIN main = Programs /\ start' = start
      /\ DOMAIN main[p] = {"pc", "hostname", "port", "file", "socket", "peer"}
  BY DEF StartedInv, MainFields, Options
<1>1. main' = [main EXCEPT
         ![p].pc = IF o.status = "EXIT_SUCCESS" THEN "connect" ELSE "failed",
         ![p].hostname = o.hostname, ![p].port = o.port, ![p].file = o.file]
  BY DEF Options
<1> HIDE DEF o
<1>2. MainFields' /\ \A q \in Programs : q \notin {p} => main'[q] = main[q]
  BY <1>0, <1>1 DEF StartedInv, MainFields
<1>3. ASSUME p \in DOMAIN start
      PROVE  StartedOK(p)'
  <2>1. /\ main'[p].pc = IF o.status = "EXIT_SUCCESS" THEN "connect" ELSE "failed"
        /\ main'[p].hostname = o.hostname /\ main'[p].port = o.port
        /\ main'[p].file = o.file
    BY <1>0, <1>1
  <2>2. start[p].argv \in Seq(Words)
    BY <1>3 DEF StartedInv, StartedOK
  <2> QED BY <1>0, <2>1, <2>2 DEF StartedOK, o
<1>4. \A q \in {p} \cap DOMAIN start : StartedOK(q)'
  BY <1>3
<1> QED BY <1>0, <1>2, <1>4, StartedStays

LEMMA StartedRefused ==
  ASSUME StartedInv, NEW p \in Programs, RefuseConnection(p)
  PROVE  StartedInv'
<1>1. DOMAIN main = Programs
      /\ DOMAIN main[p] = {"pc", "hostname", "port", "file", "socket", "peer"}
  BY DEF StartedInv, MainFields
<1>2. /\ start' = start /\ main[p].pc = "connect"
      /\ main' = [main EXCEPT ![p].pc = "failed"]
  BY DEF RefuseConnection
<1>3. /\ DOMAIN main' = Programs /\ DOMAIN main'[p] = DOMAIN main[p]
      /\ \A q \in Programs : q # p => main'[q] = main[q]
      /\ main'[p].hostname = main[p].hostname /\ main'[p].port = main[p].port
      /\ main'[p].file = main[p].file /\ main'[p].pc = "failed"
  BY <1>1, <1>2
<1> QED BY <1>2, <1>3, StartedStep

\* htons() leaves a port of 16 bits as it is.
LEMMA PortKept ==
  ASSUME NEW port \in 1 .. PortSpace - 1
  PROVE  port % PortSpace = port /\ port # 0 /\ port > 0
<1>1. PortSpace \in Nat \ {0}
  BY StartUpAssumption
<1> QED BY <1>1

LEMMA StartedConnect ==
  ASSUME StartedInv, NEW s \in Programs, Connect(s)
  PROVE  StartedInv'
<1>0. /\ DOMAIN main = Programs
      /\ DOMAIN main[s] = {"pc", "hostname", "port", "file", "socket", "peer"}
  BY DEF StartedInv, MainFields
<1>1. start' = start /\ main[s].pc = "connect" /\ ~Refused(s)
  BY DEF Connect
<1>2. CASE main' = [main EXCEPT ![s].pc = "failed"]
  <2>1. /\ DOMAIN main' = Programs /\ DOMAIN main'[s] = DOMAIN main[s]
        /\ \A q \in Programs : q # s => main'[q] = main[q]
        /\ main'[s].hostname = main[s].hostname /\ main'[s].port = main[s].port
        /\ main'[s].file = main[s].file /\ main'[s].pc = "failed"
    BY <1>0, <1>2
  <2> QED BY <1>1, <2>1, StartedStep
<1>3. CASE main' = [main EXCEPT ![s].pc = "read",
                      ![s].socket = IF main[s].port > 0 THEN Address(s) ELSE NoAddress]
  <2>1. /\ DOMAIN main' = Programs /\ DOMAIN main'[s] = DOMAIN main[s]
        /\ \A q \in Programs : q # s => main'[q] = main[q]
        /\ main'[s].hostname = main[s].hostname /\ main'[s].port = main[s].port
        /\ main'[s].file = main[s].file
        /\ main'[s].socket = IF main[s].port > 0 THEN Address(s) ELSE NoAddress
    BY <1>0, <1>3
  <2>2. main[s].hostname \in DOMAIN Hosts
    BY <1>1 DEF Refused
  <2>3. main[s].port \in 1 .. PortSpace - 1 =>
          main'[s].socket = [address |-> Hosts[main[s].hostname], port |-> main[s].port]
    BY <2>1, PortKept DEF Address
  <2>4. ConnectedAsAsked(s)'
    BY <2>1, <2>2, <2>3 DEF ConnectedAsAsked
  <2> QED BY <1>1, <2>1, <2>4, StartedStep
<1> QED BY <1>2, <1>3 DEF Connect

LEMMA StartedBind ==
  ASSUME StartedInv, NEW r \in Programs, Bind(r)
  PROVE  StartedInv'
<1>0. /\ DOMAIN main = Programs
      /\ DOMAIN main[r] = {"pc", "hostname", "port", "file", "socket", "peer"}
  BY DEF StartedInv, MainFields
<1>1. start' = start /\ main[r].pc = "connect" /\ main[r].hostname \in DOMAIN Hosts
  BY DEF Bind, Refused
<1>2. CASE main' = [main EXCEPT ![r].pc = "failed"]
  <2>1. /\ DOMAIN main' = Programs /\ DOMAIN main'[r] = DOMAIN main[r]
        /\ \A q \in Programs : q # r => main'[q] = main[q]
        /\ main'[r].hostname = main[r].hostname /\ main'[r].port = main[r].port
        /\ main'[r].file = main[r].file /\ main'[r].pc = "failed"
    BY <1>0, <1>2
  <2> QED BY <1>1, <2>1, StartedStep
<1>3. CASE main[r].port = 0 /\ main' = [main EXCEPT ![r].pc = "wait"]
  <2>1. /\ DOMAIN main' = Programs /\ DOMAIN main'[r] = DOMAIN main[r]
        /\ \A q \in Programs : q # r => main'[q] = main[q]
        /\ main'[r].hostname = main[r].hostname /\ main'[r].port = main[r].port
        /\ main'[r].file = main[r].file
    BY <1>0, <1>3
  <2>2. ConnectedAsAsked(r)'
    BY <1>1, <1>3, <2>1 DEF ConnectedAsAsked
  <2> QED BY <1>1, <2>1, <2>2, StartedStep
<1>4. ASSUME NEW port \in 1 .. PortSpace - 1, Address(r).port \in {0, port},
             NEW a, a = [Address(r) EXCEPT !.port = port],
             main' = [main EXCEPT ![r].pc = "wait", ![r].socket = a]
      PROVE  StartedInv'
  <2>1. /\ DOMAIN main' = Programs /\ DOMAIN main'[r] = DOMAIN main[r]
        /\ \A q \in Programs : q # r => main'[q] = main[q]
        /\ main'[r].hostname = main[r].hostname /\ main'[r].port = main[r].port
        /\ main'[r].file = main[r].file /\ main'[r].socket = a
    BY <1>0, <1>4
  <2>2. ASSUME main[r].port \in 1 .. PortSpace - 1
        PROVE  a = [address |-> Hosts[main[r].hostname], port |-> main[r].port]
    <3>1. main[r].port % PortSpace = main[r].port /\ main[r].port # 0
      BY <2>2, PortKept
    <3>2. port = main[r].port
      BY <1>4, <3>1 DEF Address
    <3> QED BY <1>4, <3>2 DEF Address
  <2>3. ConnectedAsAsked(r)'
    BY <1>1, <2>1, <2>2 DEF ConnectedAsAsked
  <2> QED BY <1>1, <2>1, <2>3, StartedStep
<1> QED BY <1>2, <1>3, <1>4 DEF Bind

LEMMA StartedWait ==
  ASSUME StartedInv, NEW r \in Programs, wait_for_client(r)
  PROVE  StartedInv'
<1>0. /\ DOMAIN main = Programs
      /\ DOMAIN main[r] = {"pc", "hostname", "port", "file", "socket", "peer"}
  BY DEF StartedInv, MainFields
<1>1. /\ start' = start /\ main[r].pc = "wait"
      /\ main' = [main EXCEPT ![r].pc = "loop", ![r].peer = Head(queue[r]).from]
  BY DEF wait_for_client, linkVars
<1>2. /\ DOMAIN main' = Programs /\ DOMAIN main'[r] = DOMAIN main[r]
      /\ \A q \in Programs : q # r => main'[q] = main[q]
      /\ main'[r].hostname = main[r].hostname /\ main'[r].port = main[r].port
      /\ main'[r].file = main[r].file /\ main'[r].socket = main[r].socket
  BY <1>0, <1>1
<1>3. r \in DOMAIN start => ConnectedAsAsked(r)
  BY <1>1 DEF StartedInv, StartedOK
<1>4. r \in DOMAIN start => ConnectedAsAsked(r)'
  BY <1>2, <1>3 DEF ConnectedAsAsked
<1> QED BY <1>1, <1>2, <1>4, StartedStep

THEOREM StartedInductive == StartedInv /\ [Next]_vars => StartedInv'
<1> SUFFICES ASSUME StartedInv, [Next]_vars
             PROVE  StartedInv'
  OBVIOUS
<1>1. ASSUME NEW p \in Programs, Options(p)
      PROVE  StartedInv'
  BY <1>1, StartedOptions
<1>2. ASSUME NEW p \in Programs, RefuseConnection(p)
      PROVE  StartedInv'
  BY <1>2, StartedRefused
<1>3. ASSUME NEW s \in Senders, Connect(s)
      PROVE  StartedInv'
  BY <1>3, StartedConnect DEF Programs
<1>4. ASSUME NEW r \in Receivers, Bind(r)
      PROVE  StartedInv'
  BY <1>4, StartedBind DEF Programs
<1>5. ASSUME NEW r \in Receivers, wait_for_client(r)
      PROVE  StartedInv'
  BY <1>5, StartedWait DEF Programs
<1>6. CASE UNCHANGED <<main, start>>
  BY <1>6 DEF StartedInv, MainFields, StartedOK, ConnectedAsAsked
<1>7. ASSUME NEW s \in Senders, Read(s) \/ Killed(s)
      PROVE  StartedInv'
  BY <1>6, <1>7 DEF Read, Killed
<1>8. ASSUME NEW r \in Receivers, ReadFirst(r)
      PROVE  StartedInv'
  BY <1>6, <1>8 DEF ReadFirst
<1>9. ASSUME NEW s \in Senders, NEW r \in Receivers, NEW intact \in BOOLEAN,
             SendFirst(s, r, intact)
      PROVE  StartedInv'
  BY <1>6, <1>9 DEF SendFirst
<1>10. CASE UNCHANGED vars
  BY <1>6, <1>10 DEF vars
<1> QED BY <1>1, <1>2, <1>3, <1>4, <1>5, <1>7, <1>8, <1>9, <1>10 DEF Next

\* A program past init_connection was given two words beside its options, the
\* first the name of its host; its socket is there, at the port that the second
\* names; and its file is that of the last -f: for every command line.
THEOREM StartedAsAskedAlways == Spec => []StartedAsAsked
<1>1. StartedInv => StartedAsAsked
  <2> SUFFICES ASSUME StartedInv, NEW p \in DOMAIN start,
                      main[p].pc \notin {"options", "connect", "failed"}
               PROVE  LET argv == start[p].argv
                      IN  \E i, j \in 1 .. Len(argv), os \in SUBSET (1 .. Len(argv)) :
                            /\ i < j
                            /\ OptionsAt(argv, os)
                            /\ Taken(argv, os) = 1 .. Len(argv) \ {i, j}
                            /\ main[p].hostname = argv[i]
                            /\ Atoi(argv[j]) \in 1 .. PortSpace - 1 =>
                                 main[p].socket =
                                   [address |-> Hosts[argv[i]], port |-> Atoi(argv[j])]
                            /\ main[p].file =
                                 IF os = {} THEN NULL
                                 ELSE FileAt(argv, CHOOSE k \in os : \A o \in os : o <= k)
    BY DEF StartedAsAsked
  <2>1. PICK argv, o : argv = start[p].argv /\ o = process_options(argv)
    OBVIOUS
  <2>2. StartedOK(p)
    BY DEF StartedInv
  <2>3. /\ argv \in Seq(Words) /\ o.status = "EXIT_SUCCESS"
        /\ main[p].hostname = o.hostname /\ main[p].port = o.port
        /\ main[p].file = o.file /\ ConnectedAsAsked(p)
    BY <2>1, <2>2 DEF StartedOK
  <2>4. Asks(argv, main[p].hostname, main[p].port, main[p].file)
    <3>1. o.hostname \in DOMAIN Hosts
      BY <2>3 DEF ConnectedAsAsked
    <3>2. Asks(argv, o.hostname, o.port, o.file)
      BY ONLY <2>1, <2>3, <3>1, OptionsAsked
    <3> QED BY <2>3, <3>2
  <2>5. PICK i, j \in 1 .. Len(argv), os \in SUBSET (1 .. Len(argv)) :
          /\ i < j
          /\ OptionsAt(argv, os)
          /\ Taken(argv, os) = 1 .. Len(argv) \ {i, j}
          /\ main[p].hostname = argv[i]
          /\ main[p].port = Atoi(argv[j])
          /\ main[p].file = IF os = {} THEN NULL
                            ELSE FileAt(argv, CHOOSE k \in os : \A x \in os : x <= k)
    BY <2>4 DEF Asks
  <2>6. Atoi(argv[j]) \in 1 .. PortSpace - 1 =>
          main[p].socket = [address |-> Hosts[argv[i]], port |-> Atoi(argv[j])]
    BY <2>3, <2>5 DEF ConnectedAsAsked
  <2> QED BY <2>1, <2>5, <2>6
<1>2. StartedInv /\ [Next]_vars => StartedInv'
  BY StartedInductive
<1> QED BY <1>1, <1>2, StartedInit, PTL DEF Spec

=============================================================================
