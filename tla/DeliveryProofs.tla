--------------------------- MODULE DeliveryProofs ---------------------------
(***************************************************************************)
(* A transfer over a link that loses, damages and duplicates datagrams but *)
(* keeps their order, with an output that takes every write: the file is   *)
(* delivered, for every length of it, every window and every number of     *)
(* faults.  Then one over any such link, ordered or not: a file shorter    *)
(* than the sequence numbers is delivered.                                 *)
(***************************************************************************)
EXTENDS TransferProofs

\* What the module assumes of the surroundings.  Without the first conjunct
\* run success_is_delivery refutes the result.  Without the second one a block
\* whose write() fails is acknowledged all the same
\* (read_write_loop_receiver.c:152).
Orderly == Reordering = FALSE /\ WritesMayFail = FALSE

\* The packet carries the sequence number of its rank.
Genuine(pkt) == pkt.seqnum = (Rank(pkt) - 1) % SeqSpace

IsAck(reply) == reply.code = "PKT_OK" /\ reply.type = "ACK"

(***************************************************************************)
(* The parts of the invariant, for a packets gone from the sender's stack, *)
(* l the number of the last ACK it read, sent the packets transmitted, r   *)
(* the packets written and e the number awaited.                           *)
(***************************************************************************)
\* The acknowledgments on their way never go back, and stay behind r.
AcksIn(channel, l, a, r) ==
  \A i, j \in 1 .. Len(channel) :
    i <= j /\ IsAck(channel[i]) /\ IsAck(channel[j])
    => /\ Offset(l, channel[i].seqnum) <= Offset(l, channel[j].seqnum)
       /\ a + Offset(l, channel[j].seqnum) <= r

\* The packets transmitted are the ones written, and others within a window of
\* the first packet that is not acknowledged; the terminating one is the last.
SentIn(sent, a, r) ==
  /\ 1 .. r \subseteq sent
  /\ \A k \in sent : k <= a + MAX_WINDOW_SIZE /\ (k = Blocks + 1 => Blocks <= a)

\* A datagram on its way was transmitted, and is less than a window behind
\* whatever was written, is buffered, or travels in front of it.
DataIn(channel, buffer, sent, r) ==
  \A i, j \in 1 .. Len(channel) :
    i <= j /\ channel[i] # Damaged /\ channel[j] # Damaged
    => /\ Genuine(channel[j]) /\ Rank(channel[j]) \in sent
       /\ r < Rank(channel[j]) + MAX_WINDOW_SIZE
       /\ Rank(channel[i]) < Rank(channel[j]) + MAX_WINDOW_SIZE
       /\ \A n \in 1 .. Len(buffer) : Rank(buffer[n]) < Rank(channel[j]) + MAX_WINDOW_SIZE

\* A buffered packet is the one the receiver takes it for.
BufferIn(buffer, sent, r, e) ==
  \A n \in 1 .. Len(buffer) :
    /\ buffer[n].payload # NoPayload
    /\ Genuine(buffer[n]) /\ Rank(buffer[n]) \in sent
    /\ Rank(buffer[n]) = r + 1 + Offset(e, buffer[n].seqnum)

-----------------------------------------------------------------------------
\* Packets of the file have ranks.
LEMMA RankType ==
  ASSUME NEW pkt \in Data
  PROVE  Rank(pkt) \in Ranks
  BY SenderAssumption DEF Data, Rank, Ranks, NoPayload

LEMMA DataIs ==
  ASSUME NEW d \in Data \cup {Damaged}, d # Damaged
  PROVE  d \in Data /\ Rank(d) \in Ranks
  BY RankType

LEMMA AckIs ==
  ASSUME NEW d \in Replies \cup {Damaged}, IsAck(d)
  PROVE  d \in Replies /\ d.seqnum \in SeqNums
  BY DEF Replies, Damaged, IsAck

LEMMA GainType ==
  ASSUME NEW channel \in Seq(Replies \cup {Damaged}), NEW i \in 1 .. Len(channel),
         IsAck(channel[i]), NEW l \in SeqNums
  PROVE  channel[i].seqnum \in SeqNums /\ Offset(l, channel[i].seqnum) \in 0 .. SeqSpace - 1
<1>1. channel[i] \in Replies \cup {Damaged}
  BY ElementOfSeq
<1>2. channel[i].seqnum \in SeqNums
  BY <1>1, AckIs
<1> QED BY <1>2, OffsetType DEF SeqNums

\* What keeps the order keeps the acknowledgments in order.
LEMMA AcksKept ==
  ASSUME NEW old \in Seq(Replies \cup {Damaged}), NEW new, InOrder(new, old),
         NEW l, NEW a, NEW r, AcksIn(old, l, a, r)
  PROVE  AcksIn(new, l, a, r)
<1> SUFFICES ASSUME NEW i \in 1 .. Len(new), NEW j \in 1 .. Len(new),
                    i <= j, IsAck(new[i]), IsAck(new[j])
             PROVE  /\ Offset(l, new[i].seqnum) <= Offset(l, new[j].seqnum)
                    /\ a + Offset(l, new[j].seqnum) <= r
  BY DEF AcksIn
<1>1. PICK m \in 1 .. Len(old), n \in 1 .. Len(old) :
        /\ m <= n
        /\ new[i] = old[m] \/ new[i] = Damaged
        /\ new[j] = old[n] \/ new[j] = Damaged
  BY DEF InOrder
<1>2. ~IsAck(Damaged)
  BY DEF IsAck, Damaged
<1>3. new[i] = old[m] /\ new[j] = old[n]
  BY <1>1, <1>2
<1> QED BY <1>1, <1>3 DEF AcksIn

\* The packets written only grow in number.
LEMMA AcksWritten ==
  ASSUME NEW channel \in Seq(Replies \cup {Damaged}), NEW l \in SeqNums,
         NEW a \in Nat, NEW r \in Nat, NEW more \in Nat, r <= more,
         AcksIn(channel, l, a, r)
  PROVE  AcksIn(channel, l, a, more)
<1> SUFFICES ASSUME NEW i \in 1 .. Len(channel), NEW j \in 1 .. Len(channel),
                    i <= j, IsAck(channel[i]), IsAck(channel[j])
             PROVE  /\ Offset(l, channel[i].seqnum) <= Offset(l, channel[j].seqnum)
                    /\ a + Offset(l, channel[j].seqnum) <= more
  BY DEF AcksIn
<1>1. /\ Offset(l, channel[i].seqnum) <= Offset(l, channel[j].seqnum)
      /\ a + Offset(l, channel[j].seqnum) <= r
  BY DEF AcksIn
<1>2. Offset(l, channel[j].seqnum) \in Nat
  BY GainType, SeqNumAssumption
<1> QED BY <1>1, <1>2

\* A reply sent acknowledges all that is written, which is r - a from l on.
LEMMA AcksPut ==
  ASSUME NEW channel \in Seq(Replies \cup {Damaged}), NEW l \in SeqNums,
         NEW a \in Nat, NEW r \in Nat, AcksIn(channel, l, a, r),
         NEW msgs \in Seq(Replies \cup {Damaged}), a <= r,
         \A n \in 1 .. Len(msgs) : IsAck(msgs[n]) => Offset(l, msgs[n].seqnum) = r - a
  PROVE  AcksIn(Put(channel, msgs), l, a, r)
<1> DEFINE new == Put(channel, msgs)
<1>0. Len(channel) \in Nat /\ Len(msgs) \in Nat
  BY LenProperties
<1>1. /\ new \in Seq(Replies \cup {Damaged})
      /\ Len(new) <= Len(channel) + Len(msgs)
      /\ \A i \in 1 .. Len(new) :
           new[i] = IF i <= Len(channel) THEN channel[i] ELSE msgs[i - Len(channel)]
  BY PutIs
<1>2. Len(new) \in Nat
  BY <1>1, LenProperties
<1> HIDE DEF new
<1>3. ASSUME NEW i \in 1 .. Len(new), IsAck(new[i])
      PROVE  /\ Offset(l, new[i].seqnum) \in Nat
             /\ a + Offset(l, new[i].seqnum) <= r
             /\ ~(i <= Len(channel)) => Offset(l, new[i].seqnum) = r - a
  <2>1. Offset(l, new[i].seqnum) \in Nat
    <3>1. new \in Seq(Replies \cup {Damaged}) /\ IsAck(new[i])
      BY <1>1, <1>3
    <3>2. Offset(l, new[i].seqnum) \in 0 .. SeqSpace - 1
      BY <3>1, GainType
    <3> QED BY <3>2, SeqNumAssumption
  <2>2. CASE i <= Len(channel)
    <3>1. i \in 1 .. Len(channel) /\ new[i] = channel[i] /\ i <= i
      BY <2>2, <1>0, <1>1
    <3> QED BY <3>1, <2>1, <2>2, <1>3 DEF AcksIn
  <2>3. CASE ~(i <= Len(channel))
    <3>1. i - Len(channel) \in 1 .. Len(msgs)
      BY <2>3, <1>0, <1>1, <1>2
    <3>2. new[i] = msgs[i - Len(channel)]
      BY <2>3, <1>1
    <3>3. Offset(l, new[i].seqnum) = r - a
      BY <3>1, <3>2, <1>3
    <3> QED BY <3>3, <2>1
  <2> QED BY <2>2, <2>3
<1>4. ASSUME NEW i \in 1 .. Len(new), NEW j \in 1 .. Len(new),
             i <= j, IsAck(new[i]), IsAck(new[j])
      PROVE  Offset(l, new[i].seqnum) <= Offset(l, new[j].seqnum)
  <2>1. CASE j <= Len(channel)
    <3>1. /\ i \in 1 .. Len(channel) /\ j \in 1 .. Len(channel)
          /\ new[i] = channel[i] /\ new[j] = channel[j]
      BY <2>1, <1>0, <1>1, <1>2, <1>4
    <3> QED BY <3>1, <1>4 DEF AcksIn
  <2>2. CASE ~(j <= Len(channel))
    <3>1. Offset(l, new[j].seqnum) = r - a
      BY <2>2, <1>3, <1>4
    <3>2. Offset(l, new[i].seqnum) \in Nat /\ a + Offset(l, new[i].seqnum) <= r
      BY <1>3, <1>4
    <3> QED BY <3>1, <3>2
  <2> QED BY <2>1, <2>2
<1> QED BY <1>3, <1>4 DEF AcksIn, new

\* An ACK is read: from its number on, the ones behind it keep their distances.
LEMMA AcksRead ==
  ASSUME NEW channel \in Seq(Replies \cup {Damaged}), NEW l \in SeqNums,
         NEW a \in Nat, NEW r \in Nat, AcksIn(channel, l, a, r),
         1 \in 1 .. Len(channel), IsAck(channel[1]),
         NEW new, new = Take(channel, 1), Reordering = FALSE
  PROVE  AcksIn(new, channel[1].seqnum, a + Offset(l, channel[1].seqnum), r)
<1> DEFINE s == channel[1].seqnum
           o == Offset(l, s)
<1>1. Len(channel) \in Nat
  BY LenProperties
<1>2. s \in SeqNums /\ o \in Nat
  BY GainType, SeqNumAssumption
<1>3. /\ Len(new) = Len(channel) - 1
      /\ \A i \in 1 .. Len(channel) - 1 :
           new[i] = IF i < 1 THEN channel[i] ELSE channel[i + 1]
  BY RemoveAtIs DEF Take
<1> HIDE DEF s, o
<1>4. ASSUME NEW i \in 1 .. Len(new), IsAck(new[i])
      PROVE  /\ Offset(l, new[i].seqnum) \in Nat
             /\ Offset(s, new[i].seqnum) = Offset(l, new[i].seqnum) - o
             /\ i + 1 \in 1 .. Len(channel) /\ new[i] = channel[i + 1]
  <2>1. i + 1 \in 1 .. Len(channel) /\ new[i] = channel[i + 1] /\ 1 <= i + 1
    BY <1>1, <1>3
  <2>2. new[i].seqnum \in SeqNums /\ Offset(l, new[i].seqnum) \in Nat
    BY <2>1, <1>4, GainType, SeqNumAssumption
  <2>3. o <= Offset(l, new[i].seqnum)
    BY <2>1, <1>4 DEF AcksIn, s, o
  <2>4. Offset(s, new[i].seqnum) = Offset(l, new[i].seqnum) - o
    BY <2>2, <2>3, <1>2, OffsetBetween DEF o
  <2> QED BY <2>1, <2>2, <2>4
<1>5. ASSUME NEW i \in 1 .. Len(new), NEW j \in 1 .. Len(new),
             i <= j, IsAck(new[i]), IsAck(new[j])
      PROVE  /\ Offset(s, new[i].seqnum) <= Offset(s, new[j].seqnum)
             /\ (a + o) + Offset(s, new[j].seqnum) <= r
  <2>1. i + 1 <= j + 1
    BY <1>5
  <2>2. /\ Offset(l, new[i].seqnum) <= Offset(l, new[j].seqnum)
        /\ a + Offset(l, new[j].seqnum) <= r
    BY <2>1, <1>4, <1>5 DEF AcksIn
  <2>3. /\ Offset(l, new[i].seqnum) \in Nat /\ Offset(l, new[j].seqnum) \in Nat
        /\ Offset(s, new[i].seqnum) = Offset(l, new[i].seqnum) - o
        /\ Offset(s, new[j].seqnum) = Offset(l, new[j].seqnum) - o
    BY <1>4, <1>5
  <2> QED BY <2>2, <2>3, <1>2
<1> QED BY <1>5 DEF AcksIn, s, o

-----------------------------------------------------------------------------
\* So it is for the data, whatever else has been transmitted since, when the
\* buffer holds no packet that was not in front of what is left.
LEMMA DataKept ==
  ASSUME NEW old, NEW new, InOrder(new, old), NEW buffer, NEW r,
         NEW sent, NEW more, sent \subseteq more, DataIn(old, buffer, sent, r)
  PROVE  DataIn(new, buffer, more, r)
<1> SUFFICES ASSUME NEW i \in 1 .. Len(new), NEW j \in 1 .. Len(new),
                    i <= j, new[i] # Damaged, new[j] # Damaged
             PROVE  /\ Genuine(new[j]) /\ Rank(new[j]) \in more
                    /\ r < Rank(new[j]) + MAX_WINDOW_SIZE
                    /\ Rank(new[i]) < Rank(new[j]) + MAX_WINDOW_SIZE
                    /\ \A n \in 1 .. Len(buffer) :
                         Rank(buffer[n]) < Rank(new[j]) + MAX_WINDOW_SIZE
  BY DEF DataIn
<1>1. PICK m \in 1 .. Len(old), n \in 1 .. Len(old) :
        m <= n /\ new[i] = old[m] /\ new[j] = old[n]
  BY DEF InOrder
<1> QED BY <1>1 DEF DataIn

\* A packet is transmitted.
LEMMA DataPut ==
  ASSUME NEW channel \in Seq(Data \cup {Damaged}), NEW buffer, NEW r, NEW sent,
         NEW more, sent \subseteq more, DataIn(channel, buffer, sent, r),
         NEW d \in Data, Genuine(d), Rank(d) \in more,
         r < Rank(d) + MAX_WINDOW_SIZE,
         \A k \in sent : k < Rank(d) + MAX_WINDOW_SIZE,
         \A n \in 1 .. Len(buffer) : Rank(buffer[n]) \in sent
  PROVE  DataIn(Put(channel, <<d>>), buffer, more, r)
<1> DEFINE new == Put(channel, <<d>>)
<1>0. Len(channel) \in Nat /\ Rank(d) < Rank(d) + MAX_WINDOW_SIZE
  BY LenProperties, RankType, SenderAssumption, SeqNumAssumption DEF Ranks
<1>1. <<d>> \in Seq(Data \cup {Damaged}) /\ Len(<<d>>) = 1 /\ <<d>>[1] = d
  OBVIOUS
<1>2. /\ new \in Seq(Data \cup {Damaged})
      /\ Len(new) <= Len(channel) + Len(<<d>>)
      /\ \A i \in 1 .. Len(new) :
           new[i] = IF i <= Len(channel) THEN channel[i] ELSE <<d>>[i - Len(channel)]
  BY <1>1, PutIs
<1>3. Len(new) \in Nat /\ Len(new) <= Len(channel) + 1
  BY <1>1, <1>2, LenProperties
<1> HIDE DEF new
<1>4. \A i \in 1 .. Len(new) :
        \/ i \in 1 .. Len(channel) /\ new[i] = channel[i]
        \/ i = Len(channel) + 1 /\ new[i] = d
  BY <1>0, <1>1, <1>2, <1>3
<1>5. ASSUME NEW i \in 1 .. Len(channel), channel[i] # Damaged
      PROVE  /\ Genuine(channel[i]) /\ Rank(channel[i]) \in sent
             /\ Rank(channel[i]) < Rank(d) + MAX_WINDOW_SIZE
             /\ r < Rank(channel[i]) + MAX_WINDOW_SIZE
             /\ \A n \in 1 .. Len(buffer) :
                  Rank(buffer[n]) < Rank(channel[i]) + MAX_WINDOW_SIZE
  <2>1. i <= i
    OBVIOUS
  <2> QED BY <2>1, <1>5 DEF DataIn
<1>6. ASSUME NEW i \in 1 .. Len(new), NEW j \in 1 .. Len(new),
             i <= j, new[i] # Damaged, new[j] # Damaged
      PROVE  /\ Genuine(new[j]) /\ Rank(new[j]) \in more
             /\ r < Rank(new[j]) + MAX_WINDOW_SIZE
             /\ Rank(new[i]) < Rank(new[j]) + MAX_WINDOW_SIZE
             /\ \A n \in 1 .. Len(buffer) :
                  Rank(buffer[n]) < Rank(new[j]) + MAX_WINDOW_SIZE
  <2>1. CASE j \in 1 .. Len(channel) /\ new[j] = channel[j]
    <3>1. i \in 1 .. Len(channel) /\ new[i] = channel[i]
      BY <2>1, <1>0, <1>4, <1>6
    <3>2. Rank(channel[i]) < Rank(channel[j]) + MAX_WINDOW_SIZE
      BY <2>1, <3>1, <1>6 DEF DataIn
    <3> QED BY <2>1, <3>1, <3>2, <1>5, <1>6
  <2>2. CASE j = Len(channel) + 1 /\ new[j] = d
    <3>1. Rank(new[i]) < Rank(d) + MAX_WINDOW_SIZE
      BY <1>0, <1>4, <1>5, <1>6
    <3> QED BY <2>2, <3>1
  <2> QED BY <2>1, <2>2, <1>4
<1> QED BY <1>6 DEF DataIn, new

\* The oldest datagram is read: it was in front of all the others.
LEMMA FirstRead ==
  ASSUME NEW channel \in Seq(Data \cup {Damaged}), NEW buffer, NEW r, NEW sent,
         DataIn(channel, buffer, sent, r),
         1 \in 1 .. Len(channel), channel[1] # Damaged,
         NEW new, new = Take(channel, 1), Reordering = FALSE,
         NEW i \in 1 .. Len(new), NEW j \in 1 .. Len(new),
         i <= j, new[i] # Damaged, new[j] # Damaged
  PROVE  /\ Genuine(new[j]) /\ Rank(new[j]) \in sent
         /\ r < Rank(new[j]) + MAX_WINDOW_SIZE
         /\ Rank(new[i]) < Rank(new[j]) + MAX_WINDOW_SIZE
         /\ Rank(channel[1]) < Rank(new[j]) + MAX_WINDOW_SIZE
         /\ \A n \in 1 .. Len(buffer) :
              Rank(buffer[n]) < Rank(new[j]) + MAX_WINDOW_SIZE
<1>0. Len(channel) \in Nat
  BY LenProperties
<1>1. /\ Len(new) = Len(channel) - 1
      /\ \A n \in 1 .. Len(channel) - 1 :
           new[n] = IF n < 1 THEN channel[n] ELSE channel[n + 1]
  BY RemoveAtIs DEF Take
<1>2. /\ i + 1 \in 1 .. Len(channel) /\ new[i] = channel[i + 1]
      /\ j + 1 \in 1 .. Len(channel) /\ new[j] = channel[j + 1]
      /\ i + 1 <= j + 1 /\ 1 <= j + 1
  BY <1>0, <1>1
<1>3. /\ Genuine(channel[j + 1]) /\ Rank(channel[j + 1]) \in sent
      /\ r < Rank(channel[j + 1]) + MAX_WINDOW_SIZE
      /\ Rank(channel[i + 1]) < Rank(channel[j + 1]) + MAX_WINDOW_SIZE
      /\ \A n \in 1 .. Len(buffer) :
           Rank(buffer[n]) < Rank(channel[j + 1]) + MAX_WINDOW_SIZE
  BY <1>2 DEF DataIn
<1>4. Rank(channel[1]) < Rank(channel[j + 1]) + MAX_WINDOW_SIZE
  BY <1>2 DEF DataIn
<1> QED BY <1>2, <1>3, <1>4

\* So it may be written,
LEMMA DataRead ==
  ASSUME NEW channel \in Seq(Data \cup {Damaged}), NEW buffer, NEW r, NEW sent,
         DataIn(channel, buffer, sent, r),
         1 \in 1 .. Len(channel), channel[1] # Damaged,
         NEW new, new = Take(channel, 1), Reordering = FALSE
  PROVE  DataIn(new, buffer, sent, Rank(channel[1]))
<1> SUFFICES ASSUME NEW i \in 1 .. Len(new), NEW j \in 1 .. Len(new),
                    i <= j, new[i] # Damaged, new[j] # Damaged
             PROVE  /\ Genuine(new[j]) /\ Rank(new[j]) \in sent
                    /\ Rank(channel[1]) < Rank(new[j]) + MAX_WINDOW_SIZE
                    /\ Rank(new[i]) < Rank(new[j]) + MAX_WINDOW_SIZE
                    /\ \A n \in 1 .. Len(buffer) :
                         Rank(buffer[n]) < Rank(new[j]) + MAX_WINDOW_SIZE
  BY DEF DataIn
<1>1. /\ Genuine(new[j]) /\ Rank(new[j]) \in sent
      /\ r < Rank(new[j]) + MAX_WINDOW_SIZE
      /\ Rank(new[i]) < Rank(new[j]) + MAX_WINDOW_SIZE
      /\ Rank(channel[1]) < Rank(new[j]) + MAX_WINDOW_SIZE
      /\ \A n \in 1 .. Len(buffer) :
           Rank(buffer[n]) < Rank(new[j]) + MAX_WINDOW_SIZE
  BY FirstRead
<1> QED BY <1>1

\* or go into the buffer, where nothing else goes.
Joins(pkt, buffer, more) ==
  \A n \in 1 .. Len(more) :
    more[n] = pkt \/ \E m \in 1 .. Len(buffer) : more[n] = buffer[m]

LEMMA DataBuffered ==
  ASSUME NEW channel \in Seq(Data \cup {Damaged}), NEW buffer, NEW r, NEW sent,
         DataIn(channel, buffer, sent, r),
         1 \in 1 .. Len(channel), channel[1] # Damaged,
         NEW new, new = Take(channel, 1), Reordering = FALSE,
         NEW more, Joins(channel[1], buffer, more)
  PROVE  DataIn(new, more, sent, r)
<1> SUFFICES ASSUME NEW i \in 1 .. Len(new), NEW j \in 1 .. Len(new),
                    i <= j, new[i] # Damaged, new[j] # Damaged
             PROVE  /\ Genuine(new[j]) /\ Rank(new[j]) \in sent
                    /\ r < Rank(new[j]) + MAX_WINDOW_SIZE
                    /\ Rank(new[i]) < Rank(new[j]) + MAX_WINDOW_SIZE
                    /\ \A n \in 1 .. Len(more) :
                         Rank(more[n]) < Rank(new[j]) + MAX_WINDOW_SIZE
  BY DEF DataIn
<1>1. /\ Genuine(new[j]) /\ Rank(new[j]) \in sent
      /\ r < Rank(new[j]) + MAX_WINDOW_SIZE
      /\ Rank(new[i]) < Rank(new[j]) + MAX_WINDOW_SIZE
      /\ Rank(channel[1]) < Rank(new[j]) + MAX_WINDOW_SIZE
      /\ \A n \in 1 .. Len(buffer) :
           Rank(buffer[n]) < Rank(new[j]) + MAX_WINDOW_SIZE
  BY FirstRead
<1> QED BY <1>1 DEF Joins

\* A packet of the buffer is written.
LEMMA DataDrained ==
  ASSUME NEW channel, NEW buffer, NEW r, NEW sent, DataIn(channel, buffer, sent, r),
         NEW p \in 1 .. Len(buffer), NEW less,
         \A n \in 1 .. Len(less) : \E m \in 1 .. Len(buffer) : less[n] = buffer[m]
  PROVE  DataIn(channel, less, sent, Rank(buffer[p]))
  BY DEF DataIn

-----------------------------------------------------------------------------
\* A packet transmitted less than a window ago is accepted by its number only
\* when it is not written yet, and then at its rank.
LEMMA Placed ==
  ASSUME NEW pkt \in Data, Genuine(pkt), NEW r \in Nat,
         r < Rank(pkt) + MAX_WINDOW_SIZE, Rank(pkt) <= r + MAX_WINDOW_SIZE,
         InWindow(r % SeqSpace, pkt.seqnum)
  PROVE  Rank(pkt) = r + 1 + Offset(r % SeqSpace, pkt.seqnum)
<1> DEFINE k == Rank(pkt)
           n == k - 1
           e == r % SeqSpace
<1>1. k \in Nat /\ k >= 1 /\ n \in Nat /\ k = n + 1
  BY RankType, SenderAssumption DEF Ranks
<1>2. pkt.seqnum = n % SeqSpace
  BY DEF Genuine
<1>3. MAX_WINDOW_SIZE \in Nat \ {0} /\ SeqSpace \in Nat /\ 2 * MAX_WINDOW_SIZE <= SeqSpace
  BY SeqNumAssumption
<1>4. r < k + MAX_WINDOW_SIZE /\ k <= r + MAX_WINDOW_SIZE
  OBVIOUS
<1>5. Offset(e, n % SeqSpace) < MAX_WINDOW_SIZE
  BY <1>2 DEF InWindow
<1> HIDE DEF k, n
<1>6. CASE r < k
  <2>1. r <= n /\ n < r + SeqSpace
    BY <1>6, <1>1, <1>3, <1>4
  <2>2. Offset(e, n % SeqSpace) = n - r
    BY <1>1, <2>1, OffsetOfPositions
  <2>3. Rank(pkt) = r + 1 + (n - r)
    BY <1>1 DEF k
  <2> QED BY <1>2, <2>2, <2>3
<1>7. CASE ~(r < k)
  <2>1. n < r /\ r < n + SeqSpace /\ r - n <= MAX_WINDOW_SIZE
    BY <1>7, <1>1, <1>3, <1>4
  <2>2. Offset(n % SeqSpace, e) = r - n
    BY <1>1, <2>1, OffsetOfPositions
  <2>3. n % SeqSpace \in SeqNums /\ e \in SeqNums
    BY <1>1, Remainder
  <2> HIDE DEF e
  <2>4. Offset(e, n % SeqSpace) = SeqSpace - (r - n)
    <3>1. n % SeqSpace # e
      BY <2>1, <2>2, <2>3, <1>1, OffsetZero
    <3> QED BY <3>1, <2>2, <2>3, OffsetBack
  <2> QED BY <2>1, <2>4, <1>1, <1>3, <1>5
<1> QED BY <1>6, <1>7

\* Of the first lap of the stack every number is found where it is.
LEMMA PositionIs ==
  ASSUME NEW stack, RestOfFile(stack), NEW k \in 1 .. Len(stack), k <= SeqSpace,
         NEW s, s = (Gone(stack) + k - 1) % SeqSpace
  PROVE  is_in_stack(stack, s) /\ FirstPosition(stack, s) = k
<1> DEFINE g == Gone(stack)
           p == FirstPosition(stack, s)
<1>1. /\ Len(stack) \in Nat /\ g \in Nat
      /\ \A i \in 1 .. Len(stack) : stack[i].seqnum = (g + i - 1) % SeqSpace
  BY RestIs DEF IsPacket
<1>2. is_in_stack(stack, s)
  BY <1>1 DEF is_in_stack, Positions
<1>3. p \in 1 .. Len(stack) /\ stack[p].seqnum = s /\ p <= k
  BY <1>1, <1>2, FirstPositionIs
<1> HIDE DEF g, p
<1>4. ASSUME NEW i \in 1 .. Len(stack), i <= k
      PROVE  Offset(g % SeqSpace, (g + i - 1) % SeqSpace) = i - 1
  <2>1. g + i - 1 \in Nat /\ g <= g + i - 1 /\ g + i - 1 < g + SeqSpace
    BY <1>1, <1>4, SeqNumAssumption
  <2>2. (g + i - 1) - g = i - 1
    BY <1>1
  <2> QED BY <1>1, <2>1, <2>2, OffsetOfPositions
<1>5. (g + p - 1) % SeqSpace = (g + k - 1) % SeqSpace
  BY <1>1, <1>3 DEF g
<1>6. p - 1 = k - 1
  BY <1>3, <1>4, <1>5
<1> QED BY <1>2, <1>3, <1>6 DEF p

\* Whatever is found is found in the first lap.
LEMMA FirstLap ==
  ASSUME NEW stack, RestOfFile(stack), NEW s, is_in_stack(stack, s)
  PROVE  FirstPosition(stack, s) <= SeqSpace
<1> DEFINE g == Gone(stack)
           p == FirstPosition(stack, s)
<1>1. /\ Len(stack) \in Nat /\ g \in Nat
      /\ \A i \in 1 .. Len(stack) : stack[i].seqnum = (g + i - 1) % SeqSpace
  BY RestIs DEF IsPacket
<1>2. /\ p \in 1 .. Len(stack) /\ stack[p].seqnum = s
      /\ \A j \in 1 .. Len(stack) : stack[j].seqnum = s => p <= j
  BY <1>1, FirstPositionIs
<1> HIDE DEF g, p
<1> SUFFICES ASSUME p > SeqSpace PROVE FALSE
  BY <1>2, SeqNumAssumption DEF p
<1> DEFINE j == p - SeqSpace
           n == g + j - 1
<1>3. j \in 1 .. Len(stack) /\ n \in Nat /\ j < p /\ g + p - 1 = n + SeqSpace
  BY <1>1, <1>2, SeqNumAssumption
<1> HIDE DEF n
<1>4. (n + SeqSpace) % SeqSpace = n % SeqSpace
  BY <1>3, NextLap
<1>5. stack[j].seqnum = n % SeqSpace /\ stack[p].seqnum = (n + SeqSpace) % SeqSpace
  BY <1>1, <1>2, <1>3 DEF n
<1>6. p <= j
  BY <1>2, <1>3, <1>4, <1>5
<1> QED BY <1>2, <1>3, <1>6, SeqNumAssumption

-----------------------------------------------------------------------------
\* The output is the beginning of the file, and the awaited number follows it.
OutputInv ==
  /\ expectedSeqnum =
       (Len(output) + (IF receiverPc = "closed" THEN 1 ELSE 0)) % SeqSpace
  /\ output = [k \in 1 .. Len(output) |-> k]
  /\ Len(output) <= Blocks
  /\ receiverPc = "closed" => Len(output) = Blocks
  /\ receiverPc = "down" => output = <<>>

\* The next block of the file is written.
LEMMA OutputGrows ==
  ASSUME TypeInv, OutputInv, TypeInv', receiverPc # "closed", receiverPc' = "drain",
         expectedSeqnum' = Incr(expectedSeqnum), output' = Append(output, Len(output) + 1),
         Len(output) + 1 <= Blocks
  PROVE  OutputInv' /\ Len(output') = Len(output) + 1
<1> DEFINE r == Len(output)
<1>1. r \in Nat /\ r + 0 = r
  BY LenProperties DEF TypeInv, ReceiverInv
<1>2. expectedSeqnum = r % SeqSpace
  BY <1>1 DEF OutputInv
<1>3. output \in Seq(1 .. Blocks) /\ output = [k \in 1 .. r |-> k]
  BY DEF TypeInv, ReceiverInv, OutputInv
<1>4. r + 1 \in 1 .. Blocks
  BY <1>1
<1>5. /\ Len(output') = r + 1 /\ DOMAIN output' = 1 .. r + 1
      /\ \A k \in 1 .. r + 1 : output'[k] = IF k <= r THEN output[k] ELSE r + 1
  BY <1>1, <1>3, <1>4
<1> HIDE DEF r
<1>6. output' = [k \in 1 .. r + 1 |-> k]
  <2>1. \A k \in 1 .. r + 1 : output'[k] = k
    BY <1>1, <1>3, <1>5
  <2>2. output' = [k \in DOMAIN output' |-> output'[k]]
    <3>1. output' \in Seq(1 .. Blocks)
      BY DEF TypeInv, ReceiverInv
    <3> QED BY <3>1
  <2> QED BY <2>1, <2>2, <1>5
<1>7. expectedSeqnum' = (r + 1) % SeqSpace
  BY <1>1, <1>2, IncrOfPosition
<1>8. (r + 1) + 0 = r + 1
  BY <1>1
<1> QED BY <1>1, <1>4, <1>5, <1>6, <1>7, <1>8 DEF OutputInv, r

\* The awaited packet is written: what is buffered is where it was.
LEMMA BufferAdvances ==
  ASSUME ReceiverInv, receiverPc = "select", NEW sent, NEW r \in Nat,
         BufferIn(receivingStack, sent, r, expectedSeqnum)
  PROVE  BufferIn(receivingStack, sent, r + 1, Incr(expectedSeqnum))
<1> DEFINE e == expectedSeqnum
<1> SUFFICES ASSUME NEW n \in 1 .. Len(receivingStack)
             PROVE  /\ receivingStack[n].payload # NoPayload
                    /\ Genuine(receivingStack[n]) /\ Rank(receivingStack[n]) \in sent
                    /\ Rank(receivingStack[n]) =
                         (r + 1) + 1 + Offset(Incr(e), receivingStack[n].seqnum)
  BY DEF BufferIn
<1> DEFINE pkt == receivingStack[n]
<1>1. /\ pkt.payload # NoPayload /\ Genuine(pkt) /\ Rank(pkt) \in sent
      /\ Rank(pkt) = r + 1 + Offset(e, pkt.seqnum)
  BY DEF BufferIn
<1>2. /\ e \in SeqNums /\ pkt.seqnum \in SeqNums
      /\ Offset(e, pkt.seqnum) \in 1 .. MAX_WINDOW_SIZE - 1
  <2>1. pkt \in Data
    BY ElementOfSeq DEF ReceiverInv
  <2>2. Ahead(receivingStack, e, 1)
    BY DEF ReceiverInv
  <2> QED BY <2>1, <2>2 DEF Data, Ahead, ReceiverInv
<1>3. pkt.seqnum # e
  BY <1>2, OffsetZero
<1>4. Offset(Incr(e), pkt.seqnum) = Offset(e, pkt.seqnum) - 1
  BY <1>2, <1>3, OffsetOfIncr
<1> HIDE DEF pkt, e
<1>5. Rank(pkt) = (r + 1) + 1 + Offset(Incr(e), pkt.seqnum)
  BY <1>1, <1>2, <1>4, SeqNumAssumption
<1> QED BY <1>1, <1>5 DEF pkt

\* A packet goes into the buffer.
LEMMA BufferJoined ==
  ASSUME NEW buffer, NEW sent, NEW r, NEW e, BufferIn(buffer, sent, r, e),
         NEW d, d.payload # NoPayload, Genuine(d), Rank(d) \in sent,
         Rank(d) = r + 1 + Offset(e, d.seqnum), NEW more, Joins(d, buffer, more)
  PROVE  BufferIn(more, sent, r, e)
<1> DEFINE InPlace(pkt) == /\ pkt.payload # NoPayload
                          /\ Genuine(pkt) /\ Rank(pkt) \in sent
                          /\ Rank(pkt) = r + 1 + Offset(e, pkt.seqnum)
<1>1. InPlace(d)
  OBVIOUS
<1>2. \A m \in 1 .. Len(buffer) : InPlace(buffer[m])
  BY DEF BufferIn
<1>3. BufferIn(more, sent, r, e) <=> \A n \in 1 .. Len(more) : InPlace(more[n])
  BY DEF BufferIn
<1> HIDE DEF InPlace
<1> QED BY <1>1, <1>2, <1>3 DEF Joins

\* stack_enqueue puts nothing else there.
LEMMA EnqueueJoins ==
  ASSUME NEW buffer \in Seq(Data), Distinct(buffer), NEW d \in Data,
         ~is_in_stack(buffer, d.seqnum)
  PROVE  Joins(d, buffer, stack_enqueue(buffer, d))
<1>1. Len(stack_enqueue(buffer, d)) = Len(buffer) + 1
  BY EnqueueIs
<1>2. \A n \in 1 .. Len(buffer) + 1 :
        \/ stack_enqueue(buffer, d)[n] = d
        \/ \E m \in 1 .. Len(buffer) : stack_enqueue(buffer, d)[n] = buffer[m]
  BY EnqueueKeeps
<1> QED BY <1>1, <1>2 DEF Joins

\* A buffered packet that is now awaited is the next one of the file,
LEMMA BufferedIsNext ==
  ASSUME ReceiverInv, is_in_stack(receivingStack, expectedSeqnum), NEW sent,
         NEW r \in Nat, BufferIn(receivingStack, sent, r, expectedSeqnum),
         NEW p, p = FirstPosition(receivingStack, expectedSeqnum)
  PROVE  /\ p \in 1 .. Len(receivingStack)
         /\ receivingStack[p].payload # NoPayload
         /\ receivingStack[p].payload = r + 1
         /\ Rank(receivingStack[p]) = r + 1 /\ r + 1 \in sent /\ r + 1 <= Blocks
<1> DEFINE e == expectedSeqnum
           pkt == receivingStack[p]
<1>1. receivingStack \in Seq(Data) /\ Len(receivingStack) \in Nat /\ e \in SeqNums
  BY LenProperties DEF ReceiverInv
<1>2. p \in 1 .. Len(receivingStack) /\ pkt.seqnum = e
  BY <1>1, FirstPositionIs
<1>3. pkt \in Data
  BY <1>1, <1>2, ElementOfSeq
<1>4. Offset(e, pkt.seqnum) = 0
  BY <1>1, <1>2, OffsetZero
<1>5. /\ Rank(pkt) = r + 1 + Offset(e, pkt.seqnum)
      /\ Rank(pkt) \in sent /\ pkt.payload # NoPayload
  BY <1>2 DEF BufferIn
<1>6. Rank(pkt) = r + 1
  BY <1>4, <1>5
<1>7. pkt.payload = r + 1 /\ pkt.payload \in 0 .. Blocks
  BY <1>3, <1>5, <1>6 DEF Rank, Data
<1> QED BY <1>2, <1>5, <1>6, <1>7, SenderAssumption

\* and what it leaves in the buffer is where it was.
LEMMA BufferDrained ==
  ASSUME ReceiverInv, is_in_stack(receivingStack, expectedSeqnum), NEW sent,
         NEW r \in Nat, BufferIn(receivingStack, sent, r, expectedSeqnum),
         NEW less, less = stack_remove(receivingStack, expectedSeqnum)
  PROVE  /\ BufferIn(less, sent, r + 1, Incr(expectedSeqnum))
         /\ \A n \in 1 .. Len(less) :
              \E m \in 1 .. Len(receivingStack) : less[n] = receivingStack[m]
<1> DEFINE e == expectedSeqnum
<1>1. /\ receivingStack \in Seq(Data) /\ Distinct(receivingStack) /\ e \in SeqNums
      /\ \A m \in 1 .. Len(receivingStack) : receivingStack[m] \in Data
  BY ElementOfSeq DEF ReceiverInv
<1>2. \A n \in 1 .. Len(less) :
        less[n].seqnum # e /\ \E m \in 1 .. Len(receivingStack) : less[n] = receivingStack[m]
  <2>1. Len(less) = Len(receivingStack) - 1
    BY <1>1, RemoveIs
  <2>2. \A n \in 1 .. Len(receivingStack) - 1 :
          less[n].seqnum # e /\ \E m \in 1 .. Len(receivingStack) : less[n] = receivingStack[m]
    BY <1>1, RemoveKeeps
  <2> QED BY <2>1, <2>2
<1>3. ASSUME NEW n \in 1 .. Len(less)
      PROVE  /\ less[n].payload # NoPayload
             /\ Genuine(less[n]) /\ Rank(less[n]) \in sent
             /\ Rank(less[n]) = (r + 1) + 1 + Offset(Incr(e), less[n].seqnum)
  <2>1. PICK m \in 1 .. Len(receivingStack) : less[n] = receivingStack[m]
    BY <1>2
  <2>2. /\ less[n].payload # NoPayload /\ Genuine(less[n]) /\ Rank(less[n]) \in sent
        /\ Rank(less[n]) = r + 1 + Offset(e, less[n].seqnum)
    BY <2>1 DEF BufferIn
  <2>3. less[n].seqnum \in SeqNums /\ less[n].seqnum # e
    <3>1. less[n] \in Data
      BY <1>1, <2>1
    <3>2. less[n].seqnum # e
      BY <1>2
    <3> QED BY <3>1, <3>2 DEF Data
  <2>4. Offset(e, less[n].seqnum) \in Int
    <3>1. Offset(e, less[n].seqnum) \in SeqNums
      BY <1>1, <2>3, OffsetType
    <3> QED BY <3>1, SeqNumAssumption DEF SeqNums
  <2>5. Offset(Incr(e), less[n].seqnum) = Offset(e, less[n].seqnum) - 1
    BY <1>1, <2>3, OffsetOfIncr
  <2> HIDE DEF e
  <2> QED BY <2>2, <2>4, <2>5
<1> QED BY <1>2, <1>3 DEF BufferIn

-----------------------------------------------------------------------------
(***************************************************************************)
(* The inductive invariant.  Until the receiver has closed, the sender and *)
(* the link are as far behind it as a window allows; after that nothing of *)
(* them matters, the file being written.                                   *)
(***************************************************************************)
Live ==
  /\ lastSeqnumAcked = Gone(sendingStack) % SeqSpace
  /\ Gone(sendingStack) <= Len(output)
  /\ totalPacketsToSend = Blocks + 1
  /\ refused => Gone(sendingStack) = 0
  /\ AcksIn(toSender, lastSeqnumAcked, Gone(sendingStack), Len(output))
  /\ SentIn(SentRanks(sendingStack), Gone(sendingStack), Len(output))
  /\ DataIn(toReceiver, receivingStack, SentRanks(sendingStack), Len(output))
  /\ BufferIn(receivingStack, SentRanks(sendingStack), Len(output), expectedSeqnum)

\* The part that does not depend on the link.
SafeInv ==
  /\ TypeInv
  /\ OutputInv
  /\ senderPc = "done" => Len(output) = Blocks

DeliveryInv ==
  /\ Orderly
  /\ TypeInv
  /\ OutputInv
  /\ senderPc = "done" => Len(output) = Blocks
  /\ receiverPc # "closed" => Live

\* Where the two programs stand as long as the receiver has not closed.
LEMMA Bounds ==
  ASSUME DeliveryInv, receiverPc # "closed"
  PROVE  /\ Live
         /\ RestOfFile(sendingStack)
         /\ Gone(sendingStack) \in Nat /\ Len(output) \in Nat
         /\ Gone(sendingStack) <= Len(output) /\ Len(output) <= Blocks
         /\ Len(output) <= Gone(sendingStack) + MAX_WINDOW_SIZE
         /\ Len(sendingStack) = Blocks + 1 - Gone(sendingStack)
         /\ lastSeqnumAcked \in SeqNums /\ expectedSeqnum \in SeqNums
         /\ expectedSeqnum = Len(output) % SeqSpace
         /\ Offset(lastSeqnumAcked, expectedSeqnum) = Len(output) - Gone(sendingStack)
<1> DEFINE a == Gone(sendingStack)
           r == Len(output)
<1>1. Live /\ RestOfFile(sendingStack) /\ r <= Blocks /\ a <= r
  BY DEF DeliveryInv, Live, TypeInv, SenderInv, OutputInv
<1>2. a \in Nat /\ Len(sendingStack) = Blocks + 1 - a
  BY <1>1, RestIs
<1>3. r \in Nat
  BY LenProperties DEF DeliveryInv, TypeInv, ReceiverInv
<1>4. expectedSeqnum = r % SeqSpace
  <2>1. expectedSeqnum = (r + 0) % SeqSpace
    BY DEF DeliveryInv, OutputInv
  <2>2. r + 0 = r
    BY <1>3
  <2> QED BY <2>1, <2>2
<1>5. lastSeqnumAcked \in SeqNums /\ expectedSeqnum \in SeqNums
  BY DEF DeliveryInv, TypeInv, SenderInv, ReceiverInv
<1> HIDE DEF a, r
<1>6. r <= a + MAX_WINDOW_SIZE
  <2>1. CASE r = 0
    BY <2>1, <1>2, SeqNumAssumption
  <2>2. CASE r # 0
    <3>1. r \in 1 .. r
      BY <2>2, <1>3
    <3>2. SentIn(SentRanks(sendingStack), a, r)
      BY <1>1 DEF Live, a, r
    <3> QED BY <3>1, <3>2 DEF SentIn
  <2> QED BY <2>1, <2>2
<1>7. Offset(lastSeqnumAcked, expectedSeqnum) = r - a
  <2>1. r < a + SeqSpace
    BY <1>2, <1>3, <1>6, SeqNumAssumption
  <2>2. lastSeqnumAcked = a % SeqSpace
    BY <1>1 DEF Live, a
  <2> QED BY <1>1, <1>2, <1>3, <1>4, <2>1, <2>2, OffsetOfPositions
<1> QED BY <1>1, <1>2, <1>3, <1>4, <1>5, <1>6, <1>7 DEF a, r

LEMMA DeliveryOfInit == Init /\ Orderly => DeliveryInv
<1> SUFFICES ASSUME Init, Orderly PROVE DeliveryInv
  OBVIOUS
<1>1. TypeInv
  BY TypesOfInit
<1>2. /\ output = <<>> /\ Len(output) = 0 /\ toSender = <<>> /\ Len(toSender) = 0
      /\ toReceiver = <<>> /\ Len(toReceiver) = 0
      /\ receivingStack = <<>> /\ Len(receivingStack) = 0
      /\ expectedSeqnum = 0 /\ lastSeqnumAcked = 0
      /\ receiverPc = "down" /\ senderPc = "send" /\ refused = FALSE
      /\ sendingStack = FilePackets /\ totalPacketsToSend = Len(FilePackets)
  BY DEF Init, SenderInit, ReceiverInit, NetworkInit
<1>3. /\ Gone(sendingStack) = 0 /\ SentRanks(sendingStack) = {}
      /\ totalPacketsToSend = Blocks + 1
  BY <1>2, WholeFile, RestIs, SenderAssumption
<1>4. 0 % SeqSpace = 0
  BY SeqNumAssumption
<1>5. Live
  <2>1. SentIn({}, 0, 0)
    BY DEF SentIn
  <2>2. AcksIn(toSender, 0, 0, 0) /\ DataIn(toReceiver, receivingStack, {}, 0)
        /\ BufferIn(receivingStack, {}, 0, 0)
    BY <1>2 DEF AcksIn, DataIn, BufferIn
  <2> QED BY <1>2, <1>3, <1>4, <2>1, <2>2 DEF Live
<1>6. OutputInv
  <2>1. <<>> = [k \in 1 .. 0 |-> k]
    OBVIOUS
  <2> QED BY <1>2, <1>4, <2>1, SenderAssumption DEF OutputInv
<1> QED BY <1>1, <1>2, <1>5, <1>6 DEF DeliveryInv

-----------------------------------------------------------------------------
LEMMA InOrderSame ==
  ASSUME NEW channel
  PROVE  InOrder(channel, channel)
  BY DEF InOrder

LEMMA InOrderTail ==
  ASSUME NEW S, NEW channel \in Seq(S), channel # <<>>
  PROVE  InOrder(Tail(channel), channel)
<1>1. /\ Len(channel) \in Nat /\ Len(Tail(channel)) = Len(channel) - 1
      /\ \A i \in 1 .. Len(channel) - 1 : Tail(channel)[i] = channel[i + 1]
  BY LenProperties, HeadTailProperties
<1>2. \A i \in 1 .. Len(Tail(channel)) :
        i + 1 \in 1 .. Len(channel) /\ Tail(channel)[i] = channel[i + 1]
  BY <1>1
<1>3. \A i, j \in 1 .. Len(Tail(channel)) : i <= j => i + 1 <= j + 1
  OBVIOUS
<1> QED BY <1>2, <1>3 DEF InOrder

\* A step that acknowledges, transmits and writes nothing.
LEMMA LiveKept ==
  ASSUME DeliveryInv, receiverPc # "closed",
         UNCHANGED <<output, expectedSeqnum, receivingStack>>,
         UNCHANGED <<sendingStack, lastSeqnumAcked, totalPacketsToSend>>,
         InOrder(toSender', toSender), InOrder(toReceiver', toReceiver),
         refused' => Gone(sendingStack) = 0
  PROVE  Live'
<1>1. Live
  BY Bounds
<1>2. AcksIn(toSender', lastSeqnumAcked, Gone(sendingStack), Len(output))
  BY <1>1, AcksKept DEF Live, DeliveryInv, TypeInv, ToSenderInv
<1>3. DataIn(toReceiver', receivingStack, SentRanks(sendingStack), Len(output))
  BY <1>1, DataKept DEF Live
<1>4. Gone(sendingStack') = Gone(sendingStack) /\ SentRanks(sendingStack') = SentRanks(sendingStack)
  OBVIOUS
<1> QED BY <1>1, <1>2, <1>3, <1>4 DEF Live

\* What a step of the sender has to show.
LEMMA SenderDelivers ==
  ASSUME DeliveryInv, receiverPc # "closed", TypeInv', UNCHANGED receiverVars, Live',
         senderPc' = "done" => senderPc = "done" \/ Blocks <= Gone(sendingStack')
  PROVE  DeliveryInv'
<1>1. OutputInv'
  BY DEF DeliveryInv, OutputInv, receiverVars
<1>2. Len(output') \in Nat /\ Len(output') <= Blocks /\ output' = output
  BY Bounds DEF receiverVars
<1>3. Gone(sendingStack') \in Nat
  BY RestIs DEF TypeInv, SenderInv
<1>4. Gone(sendingStack') <= Len(output')
  BY DEF Live
<1>5. senderPc' = "done" => Len(output') = Blocks
  BY <1>2, <1>3, <1>4, SenderAssumption DEF DeliveryInv
<1> QED BY <1>1, <1>5 DEF DeliveryInv, Orderly

\* One packet left is the terminating one.
LEMMA OneLeft ==
  ASSUME NEW stack, RestOfFile(stack), Len(stack) = 1
  PROVE  Blocks <= Gone(stack)
<1>1. Gone(stack) \in Nat /\ 1 = Blocks + 1 - Gone(stack)
  BY RestIs
<1> QED BY <1>1, SenderAssumption

\* The loop is left because of the terminating packet, or of mainBreak.
LEMMA Leaves ==
  ASSUME RestOfFile(sendingStack'), Gone(sendingStack') <= Blocks,
         NEW mainBreak, EndOfIteration(mainBreak),
         lastpacketsSentCount' > LastTimeouts \/ mainBreak =>
           Blocks <= Gone(sendingStack')
  PROVE  senderPc' = "done" => Blocks <= Gone(sendingStack')
<1>1. sendingStack' # <<>>
  <2>1. Len(sendingStack') = Blocks + 1 - Gone(sendingStack') /\ Gone(sendingStack') \in Nat
    BY RestIs
  <2>2. Len(sendingStack') > 0
    BY <2>1, SenderAssumption
  <2> QED BY <2>2, EmptySeq
<1> QED BY <1>1 DEF EndOfIteration

\* The count of timeouts lets the loop be left only when the last one is counted.
LEMMA CountIs ==
  ASSUME SenderInv, senderPc # "done", lastpacketsSentCount' = lastpacketsSentCount
  PROVE  ~(lastpacketsSentCount' > LastTimeouts)
  BY SenderAssumption DEF SenderInv

-----------------------------------------------------------------------------
\* The packet transmitted is in the window of the last ACK, and it is the
\* terminating one only when nothing is left before it.
LEMMA MaySendIs ==
  ASSUME DeliveryInv, receiverPc # "closed", MaySend
  PROVE  /\ FirstPosition(sendingStack, seqnumToSend) \in 1 .. MAX_WINDOW_SIZE
         /\ Gone(sendingStack) + FirstPosition(sendingStack, seqnumToSend) = Blocks + 1
              => Blocks <= Gone(sendingStack)
<1> DEFINE p == FirstPosition(sendingStack, seqnumToSend)
           a == Gone(sendingStack)
           s == seqnumToSend
<1>1. /\ RestOfFile(sendingStack) /\ a \in Nat /\ a <= Blocks
      /\ Len(sendingStack) = Blocks + 1 - a
      /\ lastSeqnumAcked = a % SeqSpace
  BY Bounds, SenderAssumption DEF Live
<1>2. p \in 1 .. Len(sendingStack) /\ sendingStack[p].seqnum = s
  BY ToSendIs DEF DeliveryInv, TypeInv
<1>3. IsPacket(a + p, sendingStack[p])
  BY <1>1, <1>2, RestIs
<1>4. p <= SeqSpace
  BY <1>1, FirstLap DEF MaySend
<1> HIDE DEF p, a
<1>5. Offset(lastSeqnumAcked, s) = p - 1
  <2>1. /\ (a + p) - 1 \in Nat /\ a <= (a + p) - 1 /\ (a + p) - 1 < a + SeqSpace
        /\ ((a + p) - 1) - a = p - 1
    BY <1>1, <1>2, <1>4, SeqNumAssumption
  <2>2. s = ((a + p) - 1) % SeqSpace
    BY <1>2, <1>3 DEF IsPacket
  <2>3. Offset(a % SeqSpace, ((a + p) - 1) % SeqSpace) = p - 1
    BY <1>1, <2>1, OffsetOfPositions
  <2> QED BY <1>1, <2>2, <2>3
<1>6. p <= MAX_WINDOW_SIZE
  <2>1. Offset(lastSeqnumAcked, s) < MAX_WINDOW_SIZE
    BY DEF MaySend, InWindow
  <2> QED BY <2>1, <1>2, <1>5, SeqNumAssumption
<1>7. ASSUME a + p = Blocks + 1, ~(Blocks <= a)
      PROVE  FALSE
  <2>1. Len(sendingStack) = p /\ p > 1
    BY <1>1, <1>2, <1>7, SenderAssumption
  <2>2. Len(sendingStack) < SeqSpace
    BY <2>1, <1>2, <1>6, SeqNumAssumption
  <2>3. s # lastSeqnumAcked
    BY <2>1, <1>2, <1>5, OffsetZero DEF DeliveryInv, TypeInv, SenderInv
  <2>4. sendingStack[p].payload = NoPayload
    BY <1>3, <1>7, SenderAssumption DEF IsPacket
  <2>5. stack_get_pkt(sendingStack, s) = sendingStack[p]
    BY DEF stack_get_pkt, p
  <2>6. HoldLast
    BY <2>2, <2>3, <2>4, <2>5 DEF HoldLast, MaySend
  <2> QED BY <2>6 DEF MaySend
<1> QED BY <1>2, <1>6, <1>7 DEF p, a

LEMMA TransmitDelivers ==
  ASSUME DeliveryInv, receiverPc # "closed", MaySend, Transmit,
         UNCHANGED <<receiverVars, lastSeqnumAcked, totalPacketsToSend>>
  PROVE  Live' /\ Gone(sendingStack') = Gone(sendingStack)
<1> DEFINE p == FirstPosition(sendingStack, seqnumToSend)
           a == Gone(sendingStack)
           sent == SentRanks(sendingStack)
           d == Segment(sendingStack[p])
           r == Len(output)
<1>1. /\ RestOfFile(sendingStack) /\ a \in Nat /\ a <= r /\ r <= Blocks
      /\ r <= a + MAX_WINDOW_SIZE /\ r \in Nat /\ Live
      /\ Len(sendingStack) = Blocks + 1 - a
  BY Bounds
<1>2. p \in 1 .. Len(sendingStack) /\ p \in 1 .. MAX_WINDOW_SIZE
      /\ (a + p = Blocks + 1 => Blocks <= a)
  BY MaySendIs, ToSendIs DEF DeliveryInv, TypeInv
<1>3. /\ sendingStack' = [sendingStack EXCEPT ![p].sent = TRUE]
      /\ Write(d)
  BY DEF Transmit
<1>4. /\ Gone(sendingStack') = a
      /\ SentRanks(sendingStack') = sent \cup {a + p}
      /\ a + p \in Ranks
  BY <1>1, <1>2, <1>3, RestMarked
<1>5. d \in Data /\ Rank(d) = a + p /\ Genuine(d)
  <2>1. sendingStack[p] \in Nodes /\ IsPacket(a + p, sendingStack[p])
    BY <1>1, <1>2, RestIs
  <2>2. d \in Data
    BY <2>1, SegmentType
  <2>3. d.payload = sendingStack[p].payload /\ d.seqnum = sendingStack[p].seqnum
    BY DEF Segment
  <2>4. Rank(d) = a + p
    <3>1. a + p \in 1 .. Blocks + 1
      BY <1>4 DEF Ranks
    <3>2. d.payload = IF a + p <= Blocks THEN a + p ELSE NoPayload
      BY <2>1, <2>3 DEF IsPacket
    <3> QED BY <3>1, <3>2, SenderAssumption DEF Rank, NoPayload
  <2>5. d.seqnum = ((a + p) - 1) % SeqSpace
    BY <2>1, <2>3 DEF IsPacket
  <2> QED BY <2>2, <2>4, <2>5 DEF Genuine
<1>6. /\ SentIn(sent, a, r) /\ sent \subseteq Ranks
      /\ AcksIn(toSender, lastSeqnumAcked, a, r)
      /\ DataIn(toReceiver, receivingStack, sent, r)
      /\ BufferIn(receivingStack, sent, r, expectedSeqnum)
  BY <1>1 DEF Live, SentRanks
<1> HIDE DEF p, a, sent, d, r
<1>7. SentIn(sent \cup {a + p}, a, r)
  <2>1. 1 .. r \subseteq sent \cup {a + p}
    BY <1>6 DEF SentIn
  <2>2. ASSUME NEW k \in sent \cup {a + p}
        PROVE  k <= a + MAX_WINDOW_SIZE /\ (k = Blocks + 1 => Blocks <= a)
    <3>1. CASE k \in sent
      BY <3>1, <1>6 DEF SentIn
    <3>2. CASE k = a + p
      BY <3>2, <1>1, <1>2, SeqNumAssumption
    <3> QED BY <3>1, <3>2
  <2> QED BY <2>1, <2>2 DEF SentIn
<1>8. DataIn(Put(toReceiver, <<d>>), receivingStack, sent \cup {a + p}, r)
  <2>1. r < Rank(d) + MAX_WINDOW_SIZE
    BY <1>1, <1>2, <1>5, SeqNumAssumption
  <2>2. \A k \in sent : k < Rank(d) + MAX_WINDOW_SIZE
    <3> TAKE k \in sent
    <3>1. k <= a + MAX_WINDOW_SIZE /\ k \in Nat
      BY <1>6, SenderAssumption DEF SentIn, Ranks
    <3> QED BY <3>1, <1>1, <1>2, <1>5, SeqNumAssumption
  <2>3. \A n \in 1 .. Len(receivingStack) : Rank(receivingStack[n]) \in sent
    BY <1>6 DEF BufferIn
  <2>4. toReceiver \in Seq(Data \cup {Damaged})
    BY DEF DeliveryInv, TypeInv, ToReceiverInv
  <2>5. sent \subseteq sent \cup {a + p} /\ Rank(d) \in sent \cup {a + p}
    BY <1>5
  <2> QED BY <2>1, <2>2, <2>3, <2>4, <2>5, <1>5, <1>6, DataPut
<1>9. DataIn(toReceiver, receivingStack, sent \cup {a + p}, r)
  BY <1>6, InOrderSame, DataKept
<1>10. BufferIn(receivingStack, sent \cup {a + p}, r, expectedSeqnum)
  BY <1>6 DEF BufferIn
<1>11. /\ toReceiver' = toReceiver \/ toReceiver' = Put(toReceiver, <<d>>)
       /\ toSender' = toSender /\ ~refused'
  BY <1>3 DEF Write
<1>12. DataIn(toReceiver', receivingStack, sent \cup {a + p}, r)
  BY <1>8, <1>9, <1>11
<1> QED
  BY <1>1, <1>4, <1>6, <1>7, <1>10, <1>11, <1>12 DEF Live, receiverVars, a, sent, r

-----------------------------------------------------------------------------
\* The ACK that is read takes from the stack what it says, and no more.
LEMMA AckAdvances ==
  ASSUME DeliveryInv, receiverPc # "closed", NEW i \in 1 .. Len(toSender), ReceiveAck(i)
  PROVE  /\ i = 1 /\ IsAck(toSender[1]) /\ lastSeqnumAcked' = toSender[1].seqnum
         /\ RestOfFile(sendingStack')
         /\ Gone(sendingStack') =
              Gone(sendingStack) + Offset(lastSeqnumAcked, lastSeqnumAcked')
         /\ Gone(sendingStack') <= Len(output)
         /\ lastSeqnumAcked' = Gone(sendingStack') % SeqSpace
         /\ SentRanks(sendingStack') = SentRanks(sendingStack)
<1> DEFINE a == Gone(sendingStack)
           l == lastSeqnumAcked
           s == toSender[1].seqnum
           o == Offset(l, s)
           sent == SentRanks(sendingStack)
           r == Len(output)
           first(t) == FirstPosition(sendingStack, t)
<1>1. i = 1 /\ IsAck(toSender[1]) /\ 1 \in 1 .. Len(toSender)
  BY DEF ReceiveAck, Responds, Arriving, IsAck, DeliveryInv, Orderly
<1>2. /\ CountAck(s)
      /\ sendingStack' = IF Acknowledges(s)
                         THEN stack_remove_acked(sendingStack, s)
                         ELSE sendingStack
  BY <1>1 DEF ReceiveAck
<1>3. /\ RestOfFile(sendingStack) /\ a \in Nat /\ r \in Nat /\ a <= r /\ r <= Blocks
      /\ r <= a + MAX_WINDOW_SIZE
      /\ Len(sendingStack) = Blocks + 1 - a
      /\ l = a % SeqSpace /\ l \in SeqNums
      /\ AcksIn(toSender, l, a, r) /\ SentIn(sent, a, r)
  BY Bounds DEF Live
<1>4. s \in SeqNums /\ o \in 0 .. SeqSpace - 1
  BY <1>1, <1>3, GainType DEF DeliveryInv, TypeInv, ToSenderInv
<1>5. a + o <= r
  BY <1>1, <1>3 DEF AcksIn
<1>6. lastSeqnumAcked' = s
  BY <1>2 DEF CountAck
<1> HIDE DEF a, l, s, o, sent, r
<1>7. o \in Nat /\ o <= MAX_WINDOW_SIZE /\ o < SeqSpace /\ o + 1 \in 1 .. Len(sendingStack)
  BY <1>3, <1>4, <1>5, SeqNumAssumption, SenderAssumption
<1>8. s = (a + o) % SeqSpace
  <2>1. a + o \in Nat /\ a <= a + o /\ a + o < a + SeqSpace /\ (a + o) - a = o
    BY <1>3, <1>7, SeqNumAssumption
  <2>2. Offset(l, (a + o) % SeqSpace) = o
    BY <1>3, <2>1, OffsetOfPositions
  <2>3. (a + o) % SeqSpace \in SeqNums
    BY <2>1, Remainder
  <2> QED BY <1>3, <1>4, <2>2, <2>3, OffsetInjective DEF o
<1>9. is_in_stack(sendingStack, s) /\ first(s) = o + 1
  <2>1. o + 1 <= SeqSpace /\ a + (o + 1) - 1 = a + o
    BY <1>3, <1>7, SeqNumAssumption
  <2> QED BY <1>3, <1>7, <1>8, <2>1, PositionIs DEF a
<1>10. Acknowledges(s) \/ o = 0
  <2> SUFFICES ASSUME o # 0 PROVE Acknowledges(s)
    OBVIOUS
  <2>1. o \in 1 .. Len(sendingStack) /\ o <= SeqSpace /\ a + o - 1 \in Nat
    <3>1. a \in Nat /\ Len(sendingStack) = Blocks + 1 - a
      BY <1>3
    <3> QED BY <3>1, <1>7, SenderAssumption, SeqNumAssumption
  <2>2. Decr(s) = (a + o - 1) % SeqSpace
    <3>1. s # l
      BY <1>3, <1>4, OffsetZero DEF o
    <3>2. Decr(s) \in SeqNums /\ Offset(l, Decr(s)) = o - 1
      BY <3>1, <1>3, <1>4, OffsetOfDecr DEF o
    <3>3. a <= a + o - 1 /\ a + o - 1 < a + SeqSpace /\ (a + o - 1) - a = o - 1
      BY <1>3, <1>7, <2>1, SeqNumAssumption
    <3>4. Offset(l, (a + o - 1) % SeqSpace) = o - 1
      BY <1>3, <2>1, <3>3, OffsetOfPositions
    <3>5. (a + o - 1) % SeqSpace \in SeqNums
      BY <2>1, Remainder
    <3> QED BY <1>3, <3>2, <3>4, <3>5, OffsetInjective
  <2>3. is_in_stack(sendingStack, Decr(s)) /\ first(Decr(s)) = o
    BY <1>3, <2>1, <2>2, PositionIs DEF a
  <2>4. stack_get_pkt(sendingStack, Decr(s)) = sendingStack[o]
    BY <2>3 DEF stack_get_pkt
  <2>5. sendingStack[o].sent
    <3>1. a + o \in 1 .. r
      BY <1>3, <1>5, <1>7, <2>1
    <3>2. a + o \in sent
      BY <1>3, <3>1 DEF SentIn
    <3>3. a + o > a /\ (a + o) - a = o
      BY <1>3, <2>1
    <3> QED BY <3>2, <3>3 DEF SentRanks, sent, a
  <2> QED BY <2>3, <2>4, <2>5 DEF Acknowledges
<1>11. CASE Acknowledges(s)
  <2>1. sendingStack' = stack_remove_acked(sendingStack, s)
    BY <1>2, <1>11
  <2>2. /\ RestOfFile(sendingStack')
        /\ SentRanks(sendingStack') = sent \cup 1 .. Gone(sendingStack')
        /\ Gone(sendingStack') = a + first(s) - 1
    BY <1>3, <1>9, <2>1, RestShrinks DEF a, sent
  <2>3. Gone(sendingStack') = a + o
    BY <2>2, <1>3, <1>7, <1>9
  <2>4. 1 .. a + o \subseteq 1 .. r
    BY <1>3, <1>5, <1>7
  <2>5. SentRanks(sendingStack') = sent
    BY <1>3, <2>2, <2>3, <2>4 DEF SentIn
  <2> QED BY <1>1, <1>5, <1>6, <1>8, <2>2, <2>3, <2>5 DEF a, l, s, o, sent, r
<1>12. CASE ~Acknowledges(s)
  <2>1. o = 0 /\ sendingStack' = sendingStack
    BY <1>2, <1>10, <1>12
  <2>2. a + o = a
    BY <2>1, <1>3
  <2> QED BY <1>1, <1>3, <1>6, <1>8, <2>1, <2>2 DEF a, l, s, o, sent, r
<1> QED BY <1>11, <1>12

-----------------------------------------------------------------------------
\* By how much the last ACK advances, and the stack with it.
Advance ==
  /\ Offset(lastSeqnumAcked, lastSeqnumAcked') <= MAX_WINDOW_SIZE
  /\ Gone(sendingStack') =
       Gone(sendingStack) + Offset(lastSeqnumAcked, lastSeqnumAcked')

LEMMA AdvanceSame ==
  ASSUME DeliveryInv, receiverPc # "closed", lastSeqnumAcked' = lastSeqnumAcked,
         Gone(sendingStack') = Gone(sendingStack)
  PROVE  Advance
<1>1. lastSeqnumAcked \in SeqNums /\ Gone(sendingStack) \in Nat
  BY Bounds
<1>2. Offset(lastSeqnumAcked, lastSeqnumAcked') = 0
  BY <1>1, OffsetZero
<1> QED BY <1>1, <1>2, SeqNumAssumption DEF Advance

\* A step of the sender that leaves the stack and the last ACK alone.
LEMMA KeepsDelivering ==
  ASSUME DeliveryInv, receiverPc # "closed", TypeInv', UNCHANGED receiverVars,
         UNCHANGED <<sendingStack, lastSeqnumAcked, totalPacketsToSend, toReceiver>>,
         InOrder(toSender', toSender), refused' => refused,
         senderPc' = "done" => senderPc = "done" \/ Blocks <= Gone(sendingStack')
  PROVE  DeliveryInv' /\ Advance
<1>1. InOrder(toReceiver', toReceiver)
  BY InOrderSame
<1>2. refused' => Gone(sendingStack) = 0
  BY Bounds DEF Live
<1>3. UNCHANGED <<output, expectedSeqnum, receivingStack>>
  BY DEF receiverVars
<1>4. Live'
  BY <1>1, <1>2, <1>3, LiveKept
<1>5. DeliveryInv'
  BY <1>4, SenderDelivers
<1>6. Gone(sendingStack') = Gone(sendingStack)
  OBVIOUS
<1> QED BY <1>5, <1>6, AdvanceSame

LEMMA DeliveryOfSkip ==
  ASSUME DeliveryInv, receiverPc # "closed", TypeInv', SkipSend \/ Idle,
         UNCHANGED receiverVars
  PROVE  DeliveryInv' /\ Advance
<1>1. /\ UNCHANGED <<sendingStack, lastSeqnumAcked, totalPacketsToSend,
                     lastpacketsSentCount, toReceiver, toSender, refused>>
      /\ senderPc # "done"
      /\ senderPc' = "wait" \/ EndOfIteration(FALSE)
  BY DEF SkipSend, Idle, networkVars
<1>2. RestOfFile(sendingStack') /\ Gone(sendingStack') <= Blocks
  <2>1. Gone(sendingStack) <= Blocks
    BY Bounds, SenderAssumption
  <2> QED BY <1>1, <2>1, Bounds
<1>3. ~(lastpacketsSentCount' > LastTimeouts)
  BY <1>1, CountIs DEF DeliveryInv, TypeInv, SkipSend, Idle
<1>4. senderPc' = "done" => Blocks <= Gone(sendingStack')
  BY <1>1, <1>2, <1>3, Leaves
<1>5. InOrder(toSender', toSender)
  BY <1>1, InOrderSame
<1> QED BY <1>1, <1>4, <1>5, KeepsDelivering

LEMMA DeliveryOfExpire ==
  ASSUME DeliveryInv, receiverPc # "closed", TypeInv', NEW k \in Timed, Expire(k),
         UNCHANGED receiverVars
  PROVE  DeliveryInv' /\ Advance
<1>1. /\ UNCHANGED <<sendingStack, lastSeqnumAcked, totalPacketsToSend,
                     toReceiver, toSender, refused>>
      /\ lastpacketsSentCount' =
           lastpacketsSentCount + (IF Len(sendingStack) = 1 THEN 1 ELSE 0)
      /\ senderPc = "wait" /\ EndOfIteration(FALSE)
  BY DEF Expire, networkVars
<1>2. /\ RestOfFile(sendingStack') /\ Gone(sendingStack') <= Blocks
      /\ Len(sendingStack) = Blocks + 1 - Gone(sendingStack)
      /\ Gone(sendingStack') = Gone(sendingStack) /\ Gone(sendingStack) \in Nat
  <2>1. Gone(sendingStack) <= Blocks
    BY Bounds, SenderAssumption
  <2> QED BY <1>1, <2>1, Bounds
<1>3. lastpacketsSentCount' > LastTimeouts => Blocks <= Gone(sendingStack')
  <2>1. lastpacketsSentCount \in Nat /\ lastpacketsSentCount <= LastTimeouts
    BY <1>1, SenderAssumption DEF DeliveryInv, TypeInv, SenderInv
  <2> QED BY <1>1, <1>2, <2>1, SenderAssumption
<1>4. senderPc' = "done" => Blocks <= Gone(sendingStack')
  BY <1>1, <1>2, <1>3, Leaves
<1>5. InOrder(toSender', toSender)
  BY <1>1, InOrderSame
<1> QED BY <1>1, <1>4, <1>5, KeepsDelivering

LEMMA DeliveryOfSend ==
  ASSUME DeliveryInv, receiverPc # "closed", TypeInv', SendNext \/ SendAgain,
         UNCHANGED receiverVars
  PROVE  DeliveryInv' /\ Advance
<1>1. /\ MaySend /\ Transmit /\ senderPc' = "wait"
      /\ UNCHANGED <<lastSeqnumAcked, totalPacketsToSend>>
  BY DEF SendNext, SendAgain
<1>2. Live' /\ Gone(sendingStack') = Gone(sendingStack)
  BY <1>1, TransmitDelivers
<1>3. DeliveryInv'
  BY <1>1, <1>2, SenderDelivers
<1> QED BY <1>1, <1>2, <1>3, AdvanceSame

\* An error that waits on the socket of the sender means that the receiver was
\* not listening: nothing is acknowledged, and the sender stops only if there
\* was nothing but the terminating packet.
LEMMA DeliveryOfFailure ==
  ASSUME DeliveryInv, receiverPc # "closed", TypeInv', ReceiverGone \/ TryAgain,
         UNCHANGED receiverVars
  PROVE  DeliveryInv' /\ Advance
<1> DEFINE a == Gone(sendingStack)
<1>0. /\ senderPc = "wait" /\ refused /\ refused' = FALSE
      /\ UNCHANGED <<toReceiver, toSender, sendingStack, lastpacketsSentCount>>
  BY DEF ReceiverGone, TryAgain, ReadFails
<1>1. /\ a = 0 /\ RestOfFile(sendingStack) /\ Len(sendingStack) = Blocks + 1
      /\ lastSeqnumAcked = a % SeqSpace /\ totalPacketsToSend = Blocks + 1
      /\ SentIn(SentRanks(sendingStack), a, Len(output))
  BY <1>0, Bounds, SenderAssumption DEF Live
<1>2. InOrder(toSender', toSender)
  BY <1>0, InOrderSame
<1>3. CASE ReceiverGone
  <2>1. /\ totalPacketsToSend = totalPacketsSent /\ EndOfIteration(TRUE)
        /\ UNCHANGED <<lastSeqnumAcked, totalPacketsToSend>>
    BY <1>3 DEF ReceiverGone
  <2>2. Blocks + 1 <= Cardinality(SentRanks(sendingStack))
    BY <1>1, <2>1 DEF DeliveryInv, TypeInv, SenderInv
  <2>3. Blocks + 1 \in SentRanks(sendingStack)
    <3>1. IsFiniteSet(Ranks) /\ Cardinality(Ranks) = Blocks + 1
      BY RanksFinite
    <3>2. SentRanks(sendingStack) \subseteq Ranks
      BY DEF SentRanks
    <3>3. Cardinality(SentRanks(sendingStack)) = Cardinality(Ranks)
      BY <2>2, <3>1, SentRanksFinite, SenderAssumption
    <3>4. SentRanks(sendingStack) = Ranks
      BY <3>1, <3>2, <3>3, FS_Subset
    <3> QED BY <3>4, SenderAssumption DEF Ranks
  <2>4. Blocks <= a
    BY <1>1, <2>3 DEF SentIn
  <2>5. senderPc' = "done" => senderPc = "done" \/ Blocks <= Gone(sendingStack')
    BY <1>0, <2>4
  <2> QED BY <1>0, <1>2, <2>1, <2>5, KeepsDelivering
<1>4. CASE TryAgain
  <2>1. /\ senderPc' = "send" /\ lastSeqnumAcked' = 0
        /\ totalPacketsToSend' = Len(sendingStack)
    BY <1>4 DEF TryAgain
  <2>2. lastSeqnumAcked' = lastSeqnumAcked
    <3>1. 0 % SeqSpace = 0
      BY SeqNumAssumption
    <3> QED BY <1>1, <2>1, <3>1
  <2>3. totalPacketsToSend' = totalPacketsToSend
    BY <1>1, <2>1
  <2> QED BY <1>0, <1>2, <2>1, <2>2, <2>3, KeepsDelivering
<1> QED BY <1>3, <1>4

\* A response is read.
LEMMA DeliveryOfResponse ==
  ASSUME DeliveryInv, receiverPc # "closed", TypeInv',
         NEW i \in 1 .. Len(toSender), process_response(i), UNCHANGED receiverVars
  PROVE  DeliveryInv' /\ Advance
<1> DEFINE a == Gone(sendingStack)
           r == Len(output)
<1>0. /\ Responds(i) /\ senderPc = "wait" /\ ~refused
      /\ toSender' = Take(toSender, i) /\ i \in Arriving(toSender)
      /\ UNCHANGED <<toReceiver, refused, receiverRefused, faults>>
      /\ UNCHANGED <<totalPacketsToSend, lastpacketsSentCount>>
  BY DEF process_response, ReceiveAck, ReceiveNack, ReceiveGarbage, Responds
<1>1. /\ RestOfFile(sendingStack) /\ a \in Nat /\ r \in Nat /\ a <= r /\ r <= Blocks
      /\ Len(sendingStack) = Blocks + 1 - a /\ Live
  BY Bounds
<1>2. ~(lastpacketsSentCount' > LastTimeouts)
  BY <1>0, CountIs DEF DeliveryInv, TypeInv
<1>3. /\ i = 1 /\ InOrder(toSender', toSender)
      /\ toSender \in Seq(Replies \cup {Damaged}) /\ Reordering = FALSE
  <2>1. toSender \in Seq(Replies \cup {Damaged}) /\ Reordering = FALSE
    BY DEF DeliveryInv, TypeInv, ToSenderInv, Orderly
  <2>2. i \in Arriving(toSender) /\ toSender' = Take(toSender, i)
    BY <1>0
  <2>3. i = 1
    BY <2>1, <2>2 DEF Arriving
  <2>4. InOrder(Take(toSender, i), toSender)
    <3> DEFINE S == Replies \cup {Damaged}
    <3>1. toSender \in Seq(S) /\ Reordering = FALSE
      BY <2>1
    <3> HIDE DEF S
    <3> QED BY <3>1, <2>2, TakeFirst
  <2> QED BY <2>1, <2>2, <2>3, <2>4
<1> HIDE DEF a, r
<1>4. a <= Blocks
  BY <1>1, SenderAssumption
<1>5. CASE ReceiveAck(i)
  <2> DEFINE s == toSender[1].seqnum
  <2>1. /\ IsAck(toSender[1]) /\ lastSeqnumAcked' = s
        /\ RestOfFile(sendingStack')
        /\ Gone(sendingStack') = a + Offset(lastSeqnumAcked, s)
        /\ Gone(sendingStack') <= r
        /\ lastSeqnumAcked' = Gone(sendingStack') % SeqSpace
        /\ SentRanks(sendingStack') = SentRanks(sendingStack)
    BY <1>5, AckAdvances DEF a, r
  <2>2. /\ EndOfIteration(s = LastAck /\ Len(sendingStack') = 1)
    BY <1>3, <1>5 DEF ReceiveAck
  <2> HIDE DEF s
  <2>3. Gone(sendingStack') \in Nat /\ Len(sendingStack') = Blocks + 1 - Gone(sendingStack')
    BY <2>1, RestIs
  <2>4. senderPc' = "done" => Blocks <= Gone(sendingStack')
    <3>1. Gone(sendingStack') <= Blocks
      BY <1>1, <2>1, <2>3, SenderAssumption
    <3>2. Len(sendingStack') = 1 => Blocks <= Gone(sendingStack')
      BY <2>1, OneLeft
    <3> QED BY <1>2, <2>1, <2>2, <3>1, <3>2, Leaves
  <2>5. AcksIn(toSender', lastSeqnumAcked', Gone(sendingStack'), r)
    <3>1. /\ AcksIn(toSender, lastSeqnumAcked, a, r) /\ lastSeqnumAcked \in SeqNums
          /\ toSender' = Take(toSender, 1) /\ 1 \in 1 .. Len(toSender)
      BY <1>0, <1>1, <1>3, Bounds DEF Live, a, r
    <3>2. AcksIn(toSender', s, a + Offset(lastSeqnumAcked, s), r)
      BY <1>1, <1>3, <2>1, <3>1, AcksRead DEF s
    <3> QED BY <2>1, <3>2
  <2>6. Offset(lastSeqnumAcked, s) <= MAX_WINDOW_SIZE /\ a <= Gone(sendingStack')
    <3>1. Offset(lastSeqnumAcked, s) \in 0 .. SeqSpace - 1
      BY <1>0, <1>3, <2>1, GainType, Bounds DEF s, Arriving
    <3>2. r <= a + MAX_WINDOW_SIZE
      BY Bounds DEF a, r
    <3>3. /\ a \in Nat /\ r \in Nat
          /\ Gone(sendingStack') = a + Offset(lastSeqnumAcked, s)
          /\ Gone(sendingStack') <= r
      BY <1>1, <2>1
    <3> QED BY <3>1, <3>2, <3>3, SeqNumAssumption
  <2>7. SentIn(SentRanks(sendingStack), Gone(sendingStack'), r)
    <3>1. SentIn(SentRanks(sendingStack), a, r)
      BY <1>1 DEF Live, a, r
    <3>2. \A k \in SentRanks(sendingStack) : k \in Nat
      BY SenderAssumption DEF SentRanks, Ranks
    <3> QED BY <3>1, <3>2, <1>1, <2>3, <2>6, SenderAssumption, SeqNumAssumption DEF SentIn
  <2>8. Live'
    BY <1>0, <1>1, <2>1, <2>5, <2>7 DEF Live, receiverVars, a, r
  <2>9. Advance
    BY <2>1, <2>6 DEF Advance, a
  <2> QED BY <2>4, <2>8, <2>9, SenderDelivers
<1>6. CASE ReceiveNack(i)
  <2>1. /\ UNCHANGED <<sendingStack, lastSeqnumAcked>>
        /\ EndOfIteration(toSender[i].seqnum = LastAck /\ Len(sendingStack) = 1)
    BY <1>6 DEF ReceiveNack
  <2>2. Len(sendingStack) = 1 => Blocks <= a
    BY <1>1, OneLeft DEF a
  <2>3. senderPc' = "done" => Blocks <= Gone(sendingStack')
    BY <1>1, <1>2, <1>4, <2>1, <2>2, Leaves DEF a
  <2> QED BY <1>0, <1>3, <2>1, <2>3, KeepsDelivering
<1>7. CASE ReceiveGarbage(i)
  <2>1. UNCHANGED <<sendingStack, lastSeqnumAcked>> /\ EndOfIteration(FALSE)
    BY <1>7 DEF ReceiveGarbage
  <2>2. senderPc' = "done" => Blocks <= Gone(sendingStack')
    BY <1>1, <1>2, <1>4, <2>1, Leaves DEF a
  <2> QED BY <1>0, <1>3, <2>1, <2>2, KeepsDelivering
<1> QED BY <1>5, <1>6, <1>7 DEF process_response
-----------------------------------------------------------------------------
\* A step of the receiver, which leaves it running.
LEMMA ReceiverDelivers ==
  ASSUME DeliveryInv, receiverPc # "closed", TypeInv', UNCHANGED senderVars,
         refused' = refused, receiverPc' \in {"select", "drain"}, OutputInv',
         Len(output) <= Len(output'), 1 .. Len(output') \subseteq SentRanks(sendingStack),
         AcksIn(toSender', lastSeqnumAcked, Gone(sendingStack), Len(output)),
         DataIn(toReceiver', receivingStack', SentRanks(sendingStack), Len(output')),
         BufferIn(receivingStack', SentRanks(sendingStack), Len(output'), expectedSeqnum')
  PROVE  DeliveryInv' /\ Advance
<1>1. /\ Live /\ Gone(sendingStack) \in Nat /\ Len(output) \in Nat
      /\ Gone(sendingStack) <= Len(output) /\ Len(output) <= Blocks
      /\ lastSeqnumAcked \in SeqNums
  BY Bounds
<1>2. /\ sendingStack' = sendingStack /\ lastSeqnumAcked' = lastSeqnumAcked
      /\ totalPacketsToSend' = totalPacketsToSend /\ senderPc' = senderPc
      /\ Gone(sendingStack') = Gone(sendingStack)
      /\ SentRanks(sendingStack') = SentRanks(sendingStack)
  BY DEF senderVars
<1>3. Len(output') \in Nat /\ Len(output') <= Blocks
  BY LenProperties DEF TypeInv, ReceiverInv, OutputInv
<1>4. AcksIn(toSender', lastSeqnumAcked, Gone(sendingStack), Len(output'))
  <2>1. toSender' \in Seq(Replies \cup {Damaged})
    BY DEF TypeInv, ToSenderInv
  <2> QED BY <2>1, <1>1, <1>3, AcksWritten
<1>5. SentIn(SentRanks(sendingStack), Gone(sendingStack), Len(output'))
  BY <1>1 DEF Live, SentIn
<1>6. Gone(sendingStack) <= Len(output')
  BY <1>1, <1>3
<1>7. Live'
  BY <1>1, <1>2, <1>4, <1>5, <1>6 DEF Live
<1>8. senderPc' = "done" => Len(output') = Blocks
  BY <1>1, <1>2, <1>3, SenderAssumption DEF DeliveryInv
<1>9. DeliveryInv'
  BY <1>7, <1>8 DEF DeliveryInv, Orderly
<1> QED BY <1>2, <1>9, AdvanceSame

\* It writes nothing.
LEMMA WaitsDelivers ==
  ASSUME DeliveryInv, receiverPc # "closed", TypeInv', UNCHANGED senderVars,
         refused' = refused, receiverPc' \in {"select", "drain"},
         UNCHANGED <<expectedSeqnum, output>>,
         AcksIn(toSender', lastSeqnumAcked, Gone(sendingStack), Len(output)),
         DataIn(toReceiver', receivingStack', SentRanks(sendingStack), Len(output)),
         BufferIn(receivingStack', SentRanks(sendingStack), Len(output), expectedSeqnum)
  PROVE  DeliveryInv' /\ Advance
<1>1. OutputInv'
  BY DEF DeliveryInv, OutputInv
<1>2. Len(output) \in Nat /\ 1 .. Len(output) \subseteq SentRanks(sendingStack)
  BY Bounds DEF Live, SentIn
<1>3. Len(output) <= Len(output')
  BY <1>2
<1> QED BY <1>1, <1>2, <1>3, ReceiverDelivers

\* It writes the next packet of the file.
LEMMA WriteDelivers ==
  ASSUME DeliveryInv, receiverPc # "closed", TypeInv', UNCHANGED senderVars,
         refused' = refused, receiverPc' = "drain",
         expectedSeqnum' = Incr(expectedSeqnum), output' = Append(output, Len(output) + 1),
         Len(output) + 1 \in SentRanks(sendingStack), Len(output) + 1 <= Blocks,
         AcksIn(toSender', lastSeqnumAcked, Gone(sendingStack), Len(output)),
         DataIn(toReceiver', receivingStack', SentRanks(sendingStack), Len(output) + 1),
         BufferIn(receivingStack', SentRanks(sendingStack), Len(output) + 1, expectedSeqnum')
  PROVE  DeliveryInv' /\ Advance
<1>1. OutputInv' /\ Len(output') = Len(output) + 1
  BY OutputGrows DEF DeliveryInv
<1>2. Len(output) \in Nat /\ 1 .. Len(output) \subseteq SentRanks(sendingStack)
  BY Bounds DEF Live, SentIn
<1>3. 1 .. Len(output') \subseteq SentRanks(sendingStack) /\ Len(output) <= Len(output')
  BY <1>1, <1>2
<1> QED BY <1>1, <1>3, ReceiverDelivers

\* What it sends acknowledges everything written before, or nothing.
LEMMA RepliesDeliver ==
  ASSUME DeliveryInv, receiverPc # "closed", NEW replies \in Seq(Replies),
         \A n \in 1 .. Len(replies) :
           IsAck(replies[n]) => replies[n].seqnum = expectedSeqnum,
         SendReplies(replies)
  PROVE  AcksIn(toSender', lastSeqnumAcked, Gone(sendingStack), Len(output))
<1> DEFINE a == Gone(sendingStack)
           l == lastSeqnumAcked
           r == Len(output)
<1>1. /\ a \in Nat /\ r \in Nat /\ a <= r /\ l \in SeqNums
      /\ AcksIn(toSender, l, a, r) /\ Offset(l, expectedSeqnum) = r - a
  BY Bounds DEF Live
<1>2. toSender \in Seq(Replies \cup {Damaged})
  BY DEF DeliveryInv, TypeInv, ToSenderInv
<1>3. replies \in Seq(Replies \cup {Damaged})
  BY SeqMonotonic
<1> HIDE DEF a, l, r
<1>4. CASE receiverRefused /\ replies # <<>>
  <2>1. /\ Tail(replies) \in Seq(Replies \cup {Damaged})
        /\ Len(replies) \in Nat /\ Len(Tail(replies)) = Len(replies) - 1
        /\ \A n \in 1 .. Len(replies) - 1 : Tail(replies)[n] = replies[n + 1]
    BY <1>3, <1>4, LenProperties, HeadTailProperties
  <2>2. \A n \in 1 .. Len(Tail(replies)) :
          n + 1 \in 1 .. Len(replies) /\ Tail(replies)[n] = replies[n + 1]
    BY <2>1
  <2>3. \A n \in 1 .. Len(Tail(replies)) :
          IsAck(Tail(replies)[n]) => Offset(l, Tail(replies)[n].seqnum) = r - a
    BY <2>2, <1>1
  <2>4. AcksIn(Put(toSender, Tail(replies)), l, a, r)
    BY <2>1, <2>3, <1>1, <1>2, AcksPut
  <2> QED BY <2>4, <1>4 DEF SendReplies, a, l, r
<1>5. CASE ~(receiverRefused /\ replies # <<>>)
  <2>1. \A n \in 1 .. Len(replies) : IsAck(replies[n]) => Offset(l, replies[n].seqnum) = r - a
    BY <1>1
  <2>2. AcksIn(Put(toSender, replies), l, a, r)
    BY <2>1, <1>1, <1>2, <1>3, AcksPut
  <2> QED BY <2>2, <1>5 DEF SendReplies, a, l, r
<1> QED BY <1>4, <1>5
-----------------------------------------------------------------------------
\* The datagram that is read is the oldest one, and a packet of the file that
\* is at most a window away from what is written.
LEMMA ReadingIs ==
  ASSUME DeliveryInv, receiverPc # "closed", NEW i \in 1 .. Len(toReceiver), Reads(i)
  PROVE  /\ i = 1 /\ 1 \in 1 .. Len(toReceiver)
         /\ toReceiver \in Seq(Data \cup {Damaged})
         /\ toReceiver' = Take(toReceiver, 1) /\ Reordering = FALSE
         /\ InOrder(toReceiver', toReceiver)
         /\ receiverPc = "select" /\ refused' = refused
         /\ toReceiver[1].code = "PKT_OK" =>
              /\ toReceiver[1] # Damaged /\ toReceiver[1] \in Data
              /\ Genuine(toReceiver[1]) /\ Rank(toReceiver[1]) \in SentRanks(sendingStack)
              /\ Rank(toReceiver[1]) \in Nat
              /\ Len(output) < Rank(toReceiver[1]) + MAX_WINDOW_SIZE
              /\ Rank(toReceiver[1]) <= Len(output) + MAX_WINDOW_SIZE
              /\ Rank(toReceiver[1]) = Blocks + 1 => Len(output) = Blocks
<1>1. toReceiver \in Seq(Data \cup {Damaged}) /\ Reordering = FALSE
  BY DEF DeliveryInv, TypeInv, ToReceiverInv, Orderly
<1>2. /\ receiverPc = "select" /\ refused' = refused
      /\ i \in Arriving(toReceiver) /\ toReceiver' = Take(toReceiver, i)
  BY DEF Reads
<1>3. i = 1
  BY <1>1, <1>2 DEF Arriving
<1>4. InOrder(toReceiver', toReceiver)
  <2> DEFINE S == Data \cup {Damaged}
  <2>1. toReceiver \in Seq(S)
    BY <1>1
  <2> HIDE DEF S
  <2> QED BY <2>1, <1>1, <1>2, TakeFirst
<1>5. ASSUME toReceiver[1].code = "PKT_OK"
      PROVE  /\ toReceiver[1] # Damaged /\ toReceiver[1] \in Data
             /\ Genuine(toReceiver[1]) /\ Rank(toReceiver[1]) \in SentRanks(sendingStack)
             /\ Rank(toReceiver[1]) \in Nat
             /\ Len(output) < Rank(toReceiver[1]) + MAX_WINDOW_SIZE
             /\ Rank(toReceiver[1]) <= Len(output) + MAX_WINDOW_SIZE
             /\ Rank(toReceiver[1]) = Blocks + 1 => Len(output) = Blocks
  <2> DEFINE d == toReceiver[1]
  <2>1. d # Damaged
    BY <1>5 DEF Damaged
  <2>2. d \in Data
    BY <1>1, <1>3, <2>1, ElementOfSeq
  <2>3. /\ DataIn(toReceiver, receivingStack, SentRanks(sendingStack), Len(output))
        /\ SentIn(SentRanks(sendingStack), Gone(sendingStack), Len(output))
        /\ Gone(sendingStack) \in Nat /\ Len(output) \in Nat
        /\ Gone(sendingStack) <= Len(output) /\ Len(output) <= Blocks
    BY Bounds DEF Live
  <2>4. 1 \in 1 .. Len(toReceiver) /\ 1 <= 1
    BY <1>3
  <2>5. /\ Genuine(d) /\ Rank(d) \in SentRanks(sendingStack)
        /\ Len(output) < Rank(d) + MAX_WINDOW_SIZE
    BY <2>1, <2>3, <2>4 DEF DataIn
  <2>6. Rank(d) \in Nat
    BY <2>2, RankType, SenderAssumption DEF Ranks
  <2>7. /\ Rank(d) <= Gone(sendingStack) + MAX_WINDOW_SIZE
        /\ Rank(d) = Blocks + 1 => Blocks <= Gone(sendingStack)
    BY <2>3, <2>5 DEF SentIn
  <2> HIDE DEF d
  <2>8. Rank(d) <= Len(output) + MAX_WINDOW_SIZE /\ (Rank(d) = Blocks + 1 => Len(output) = Blocks)
    BY <2>3, <2>6, <2>7, SenderAssumption, SeqNumAssumption
  <2> QED BY <2>1, <2>2, <2>5, <2>6, <2>8 DEF d
<1> QED BY <1>1, <1>2, <1>3, <1>4, <1>5

\* The datagram is answered, or not, and goes nowhere.
LEMMA DeliveryOfAnswer ==
  ASSUME DeliveryInv, receiverPc # "closed", TypeInv', UNCHANGED senderVars,
         UNCHANGED receiverVars, refused' = refused,
         InOrder(toReceiver', toReceiver), receiverPc \in {"select", "drain"},
         AcksIn(toSender', lastSeqnumAcked, Gone(sendingStack), Len(output))
  PROVE  DeliveryInv' /\ Advance
<1>1. /\ UNCHANGED <<expectedSeqnum, output>> /\ receivingStack' = receivingStack
      /\ receiverPc' = receiverPc
  BY DEF receiverVars
<1>2. /\ DataIn(toReceiver', receivingStack, SentRanks(sendingStack), Len(output))
      /\ BufferIn(receivingStack, SentRanks(sendingStack), Len(output), expectedSeqnum)
  BY Bounds, DataKept DEF Live
<1> QED BY <1>1, <1>2, WaitsDelivers

\* The awaited packet is the next one of the file, and it is not the last one.
LEMMA DeliveryOfExpected ==
  ASSUME DeliveryInv, receiverPc # "closed", TypeInv', UNCHANGED senderVars,
         NEW i \in 1 .. Len(toReceiver), Reads(i), toReceiver[i].code = "PKT_OK",
         ~IsLast(toReceiver[i]), AcceptExpected(toReceiver[i], <<>>)
  PROVE  DeliveryInv' /\ Advance
<1> DEFINE d == toReceiver[1]
           r == Len(output)
           e == expectedSeqnum
           sent == SentRanks(sendingStack)
<1>1. /\ i = 1 /\ 1 \in 1 .. Len(toReceiver)
      /\ toReceiver \in Seq(Data \cup {Damaged})
      /\ toReceiver' = Take(toReceiver, 1) /\ Reordering = FALSE
      /\ receiverPc = "select" /\ refused' = refused
      /\ d # Damaged /\ d \in Data
      /\ Genuine(d) /\ Rank(d) \in sent
      /\ r < Rank(d) + MAX_WINDOW_SIZE /\ Rank(d) <= r + MAX_WINDOW_SIZE
  BY ReadingIs
<1>2. /\ d.seqnum = e /\ WriteOut(d) /\ expectedSeqnum' = Incr(e)
      /\ receiverPc' = "drain" /\ SendReplies(<<>>) /\ receivingStack' = receivingStack
      /\ ~IsLast(d)
  BY <1>1 DEF AcceptExpected
<1>3. /\ r \in Nat /\ e = r % SeqSpace /\ e \in SeqNums
      /\ DataIn(toReceiver, receivingStack, sent, r)
      /\ BufferIn(receivingStack, sent, r, e)
  BY Bounds DEF Live
<1>4. Rank(d) = r + 1
  <2>1. Offset(e, d.seqnum) = 0
    BY <1>2, <1>3, OffsetZero
  <2>2. InWindow(r % SeqSpace, d.seqnum)
    BY <1>3, <2>1, SeqNumAssumption DEF InWindow
  <2>3. Rank(d) = r + 1 + Offset(r % SeqSpace, d.seqnum)
    BY <1>1, <1>3, <2>2, Placed
  <2> QED BY <1>3, <2>1, <2>3
<1>5. d.payload # NoPayload
  BY <1>1, <1>2 DEF IsLast, Data
<1>6. output' = Append(output, r + 1) /\ r + 1 <= Blocks
  <2>1. output' = Append(output, d.payload)
    BY <1>2, <1>5 DEF WriteOut, Written, DeliveryInv, Orderly
  <2>2. d.payload = r + 1 /\ d.payload \in 0 .. Blocks
    BY <1>1, <1>4, <1>5 DEF Rank, Data
  <2> QED BY <2>1, <2>2, SenderAssumption
<1>7. DataIn(toReceiver', receivingStack', sent, r + 1)
  <2>1. DataIn(toReceiver', receivingStack, sent, Rank(d))
    BY <1>1, <1>3, DataRead
  <2> QED BY <2>1, <1>2, <1>4
<1>8. BufferIn(receivingStack', sent, r + 1, expectedSeqnum')
  BY <1>1, <1>2, <1>3, BufferAdvances DEF DeliveryInv, TypeInv
<1>9. AcksIn(toSender', lastSeqnumAcked, Gone(sendingStack), r)
  <2>1. <<>> \in Seq(Replies) /\ \A n \in 1 .. Len(<<>>) :
          IsAck(<<>>[n]) => <<>>[n].seqnum = expectedSeqnum
    BY EmptySeq
  <2> QED BY <1>2, <2>1, RepliesDeliver
<1>10. r + 1 \in sent
  BY <1>1, <1>4
<1> QED BY <1>1, <1>2, <1>6, <1>7, <1>8, <1>9, <1>10, WriteDelivers
\* An acknowledgment of what is written may always be sent.
LEMMA AckDelivers ==
  ASSUME DeliveryInv, receiverPc # "closed", NEW w \in 0 .. MAX_WINDOW_SIZE,
         SendReplies(<<>> \o <<Reply("ACK", expectedSeqnum, w)>>)
  PROVE  AcksIn(toSender', lastSeqnumAcked, Gone(sendingStack), Len(output))
<1> DEFINE ack == Reply("ACK", expectedSeqnum, w)
           replies == <<>> \o <<ack>>
<1>1. expectedSeqnum \in SeqNums
  BY Bounds
<1>2. ack \in Replies /\ ack.seqnum = expectedSeqnum
  BY <1>1, ReplyType DEF Reply
<1> HIDE DEF ack
<1>3. replies = <<ack>>
  OBVIOUS
<1>4. /\ replies \in Seq(Replies)
      /\ \A n \in 1 .. Len(replies) : replies[n] = ack
  BY <1>2, <1>3
<1> HIDE DEF replies
<1>5. SendReplies(replies)
  BY DEF replies, ack
<1> QED BY <1>2, <1>4, <1>5, RepliesDeliver

\* A refusal acknowledges nothing.
LEMMA NackDelivers ==
  ASSUME DeliveryInv, receiverPc # "closed",
         SendReplies(<<Reply("NACK", expectedSeqnum, window)>>)
  PROVE  AcksIn(toSender', lastSeqnumAcked, Gone(sendingStack), Len(output))
<1> DEFINE nack == Reply("NACK", expectedSeqnum, window)
<1>1. expectedSeqnum \in SeqNums /\ window \in 0 .. MAX_WINDOW_SIZE
  BY ReceivingIs DEF DeliveryInv, TypeInv
<1>2. nack \in Replies /\ ~IsAck(nack)
  BY <1>1, ReplyType DEF Reply, IsAck
<1> HIDE DEF nack
<1>3. <<nack>> \in Seq(Replies) /\ \A n \in 1 .. Len(<<nack>>) : <<nack>>[n] = nack
  BY <1>2
<1>4. SendReplies(<<nack>>)
  BY DEF nack
<1> QED BY <1>2, <1>3, <1>4, RepliesDeliver

\* A packet accepted ahead of the awaited one is the one it is taken for, and
\* the terminating one is never ahead.
LEMMA DeliveryOfAhead ==
  ASSUME DeliveryInv, receiverPc # "closed", TypeInv', UNCHANGED senderVars,
         NEW i \in 1 .. Len(toReceiver), Reads(i), toReceiver[i].code = "PKT_OK",
         AcceptAhead(toReceiver[i], <<>>)
  PROVE  DeliveryInv' /\ Advance
<1> DEFINE d == toReceiver[1]
           r == Len(output)
           e == expectedSeqnum
           sent == SentRanks(sendingStack)
           new == receivingStack'
<1>1. /\ i = 1 /\ 1 \in 1 .. Len(toReceiver)
      /\ toReceiver \in Seq(Data \cup {Damaged})
      /\ toReceiver' = Take(toReceiver, 1) /\ Reordering = FALSE
      /\ receiverPc = "select" /\ refused' = refused
      /\ d # Damaged /\ d \in Data
      /\ Genuine(d) /\ Rank(d) \in sent
      /\ r < Rank(d) + MAX_WINDOW_SIZE /\ Rank(d) <= r + MAX_WINDOW_SIZE
      /\ Rank(d) = Blocks + 1 => r = Blocks
  BY ReadingIs
<1>2. /\ d.seqnum # e /\ InWindow(e, d.seqnum)
      /\ ~is_in_stack(receivingStack, d.seqnum)
      /\ new = stack_enqueue(receivingStack, d)
      /\ SendReplies(<<>> \o <<Reply("ACK", e, window')>>)
      /\ UNCHANGED <<receiverPc, expectedSeqnum, output>>
  BY <1>1 DEF AcceptAhead
<1>3. /\ r \in Nat /\ e = r % SeqSpace /\ e \in SeqNums
      /\ DataIn(toReceiver, receivingStack, sent, r)
      /\ BufferIn(receivingStack, sent, r, e)
  BY Bounds DEF Live
<1>4. receivingStack \in Seq(Data) /\ Distinct(receivingStack)
  BY DEF DeliveryInv, TypeInv, ReceiverInv
<1>5. Rank(d) = r + 1 + Offset(e, d.seqnum) /\ Offset(e, d.seqnum) \in Nat \ {0}
  <2>1. d.seqnum \in SeqNums
    BY <1>1 DEF Data
  <2>2. Offset(e, d.seqnum) \in SeqNums /\ Offset(e, d.seqnum) # 0
    BY <1>2, <1>3, <2>1, OffsetType, OffsetZero
  <2>3. InWindow(r % SeqSpace, d.seqnum)
    BY <1>2, <1>3
  <2>4. Rank(d) = r + 1 + Offset(r % SeqSpace, d.seqnum)
    BY <1>1, <1>3, <2>3, Placed
  <2> QED BY <1>3, <2>2, <2>4, SeqNumAssumption DEF SeqNums
<1>6. d.payload # NoPayload
  <2>1. Rank(d) # Blocks + 1
    BY <1>1, <1>3, <1>5, SenderAssumption
  <2> QED BY <2>1 DEF Rank
<1>7. Joins(d, receivingStack, new)
  BY <1>1, <1>2, <1>4, EnqueueJoins
<1> HIDE DEF new
<1>8. DataIn(toReceiver', new, sent, r)
  <2>1. /\ 1 \in 1 .. Len(toReceiver) /\ toReceiver[1] # Damaged
        /\ toReceiver \in Seq(Data \cup {Damaged})
        /\ toReceiver' = Take(toReceiver, 1) /\ Reordering = FALSE
    BY <1>1
  <2>2. Joins(toReceiver[1], receivingStack, new)
    BY <1>7
  <2>3. DataIn(toReceiver, receivingStack, sent, r)
    BY <1>3
  <2> QED BY <2>1, <2>2, <2>3, DataBuffered
<1>9. BufferIn(new, sent, r, e)
  BY <1>1, <1>3, <1>5, <1>6, <1>7, BufferJoined
<1>10. AcksIn(toSender', lastSeqnumAcked, Gone(sendingStack), r)
  <2>1. window' \in 0 .. MAX_WINDOW_SIZE
    <3>1. ReceiverInv'
      BY DEF TypeInv
    <3>2. Len(receivingStack') \in Nat
      BY <3>1, LenProperties DEF ReceiverInv
    <3> QED BY <3>1, <3>2, SeqNumAssumption DEF ReceiverInv
  <2> QED BY <1>2, <2>1, AckDelivers
<1> QED BY <1>1, <1>2, <1>8, <1>9, <1>10, WaitsDelivers DEF new

LEMMA DeliveryOfData ==
  ASSUME DeliveryInv, receiverPc # "closed", TypeInv', UNCHANGED senderVars,
         NEW i \in 1 .. Len(toReceiver), ReceiveData(i)
  PROVE  DeliveryInv' /\ Advance
<1>1. /\ Reads(i) /\ toReceiver[i].code = "PKT_OK" /\ ~IsLast(toReceiver[i])
      /\ Accept(toReceiver[i], <<>>)
  BY DEF ReceiveData
<1>2. /\ InOrder(toReceiver', toReceiver) /\ receiverPc = "select" /\ refused' = refused
  BY <1>1, ReadingIs
<1>3. CASE AcceptExpected(toReceiver[i], <<>>)
  BY <1>1, <1>3, DeliveryOfExpected
<1>4. CASE AcceptAhead(toReceiver[i], <<>>)
  BY <1>1, <1>4, DeliveryOfAhead
<1>5. CASE AcceptAgain(toReceiver[i], <<>>)
  <2>1. SendReplies(<<>>) /\ UNCHANGED receiverVars
    BY <1>5 DEF AcceptAgain
  <2>2. <<>> \in Seq(Replies) /\ \A n \in 1 .. Len(<<>>) :
          IsAck(<<>>[n]) => <<>>[n].seqnum = expectedSeqnum
    BY EmptySeq
  <2>3. AcksIn(toSender', lastSeqnumAcked, Gone(sendingStack), Len(output))
    BY <2>1, <2>2, RepliesDeliver
  <2> QED BY <1>2, <2>1, <2>3, DeliveryOfAnswer
<1>6. CASE AcceptOutside(toReceiver[i], <<>>)
  <2>1. /\ SendReplies(<<>> \o <<Reply("ACK", expectedSeqnum, window)>>)
        /\ UNCHANGED receiverVars
    BY <1>6 DEF AcceptOutside
  <2>2. window \in 0 .. MAX_WINDOW_SIZE
    BY ReceivingIs DEF DeliveryInv, TypeInv
  <2>3. AcksIn(toSender', lastSeqnumAcked, Gone(sendingStack), Len(output))
    BY <2>1, <2>2, AckDelivers
  <2> QED BY <1>2, <2>1, <2>3, DeliveryOfAnswer
<1> QED BY <1>1, <1>3, <1>4, <1>5, <1>6 DEF Accept

\* The terminating packet comes once everything before it is written.
LEMMA DeliveryOfLast ==
  ASSUME DeliveryInv, receiverPc # "closed", TypeInv', UNCHANGED senderVars,
         NEW i \in 1 .. Len(toReceiver), ReceiveLast(i)
  PROVE  DeliveryInv' /\ Advance
<1> DEFINE r == Len(output)
<1>1. /\ Reads(i) /\ toReceiver[i].code = "PKT_OK" /\ IsLast(toReceiver[i])
      /\ expectedSeqnum' = Incr(expectedSeqnum) /\ receiverPc' = "closed"
      /\ output' = output
  BY DEF ReceiveLast
<1>2. r = Blocks
  <2>1. /\ i = 1 /\ toReceiver[1].code = "PKT_OK"
        /\ Rank(toReceiver[1]) = Blocks + 1 => Len(output) = Blocks
    BY <1>1, ReadingIs
  <2> QED BY <1>1, <2>1 DEF IsLast, Rank
<1>3. r \in Nat /\ expectedSeqnum = r % SeqSpace
  BY Bounds
<1>4. expectedSeqnum' = (r + 1) % SeqSpace
  BY <1>1, <1>3, IncrOfPosition
<1>5. OutputInv'
  BY <1>1, <1>2, <1>3, <1>4 DEF OutputInv, DeliveryInv
<1>6. DeliveryInv'
  BY <1>1, <1>2, <1>5 DEF DeliveryInv, Orderly
<1>7. lastSeqnumAcked' = lastSeqnumAcked /\ Gone(sendingStack') = Gone(sendingStack)
  BY DEF senderVars
<1> QED BY <1>6, <1>7, AdvanceSame

\* A buffered packet that now follows is written.
LEMMA DeliveryOfDrain ==
  ASSUME DeliveryInv, receiverPc # "closed", TypeInv', UNCHANGED senderVars, Drain
  PROVE  DeliveryInv' /\ Advance
<1> DEFINE r == Len(output)
           e == expectedSeqnum
           sent == SentRanks(sendingStack)
           p == FirstPosition(receivingStack, e)
           pkt == receivingStack[p]
           new == receivingStack'
<1>1. /\ receiverPc = "drain" /\ is_in_stack(receivingStack, e)
      /\ new = stack_remove(receivingStack, e)
      /\ expectedSeqnum' = Incr(e) /\ WriteOut(pkt)
      /\ UNCHANGED <<receiverPc, toReceiver, toSender, refused>>
  BY DEF Drain, networkVars, stack_get_pkt
<1>2. /\ r \in Nat /\ e = r % SeqSpace /\ e \in SeqNums
      /\ DataIn(toReceiver, receivingStack, sent, r)
      /\ BufferIn(receivingStack, sent, r, e)
      /\ AcksIn(toSender, lastSeqnumAcked, Gone(sendingStack), r)
  BY Bounds DEF Live
<1>3. ReceiverInv
  BY DEF DeliveryInv, TypeInv
<1>4. /\ p \in 1 .. Len(receivingStack) /\ pkt.payload # NoPayload /\ pkt.payload = r + 1
      /\ Rank(pkt) = r + 1 /\ r + 1 \in sent /\ r + 1 <= Blocks
  BY <1>1, <1>2, <1>3, BufferedIsNext
<1>5. output' = Append(output, r + 1)
  BY <1>1, <1>4 DEF WriteOut, Written, DeliveryInv, Orderly
<1>6. /\ BufferIn(new, sent, r + 1, Incr(e))
      /\ \A n \in 1 .. Len(new) :
           \E m \in 1 .. Len(receivingStack) : new[n] = receivingStack[m]
  BY <1>1, <1>2, <1>3, BufferDrained
<1> HIDE DEF new, p
<1>7. DataIn(toReceiver', new, sent, r + 1)
  <2>1. DataIn(toReceiver, new, sent, Rank(pkt))
    BY <1>2, <1>4, <1>6, DataDrained
  <2> QED BY <2>1, <1>1, <1>4
<1>8. AcksIn(toSender', lastSeqnumAcked, Gone(sendingStack), r)
  BY <1>1, <1>2
<1> QED BY <1>1, <1>4, <1>5, <1>6, <1>7, <1>8, WriteDelivers DEF new

LEMMA DeliveryOfReceive ==
  ASSUME DeliveryInv, receiverPc # "closed", TypeInv', UNCHANGED senderVars,
         NEW i \in 1 .. Len(toReceiver),
         \/ ReceiveLast(i) \/ ReceiveData(i)
         \/ ReceiveTruncated(i) \/ ReceiveDamaged(i)
  PROVE  DeliveryInv' /\ Advance
<1>1. CASE ReceiveTruncated(i)
  <2>1. toReceiver[i] \in Data /\ toReceiver[i].tr = 1
    BY <1>1, ReadsTypes DEF ReceiveTruncated, DeliveryInv, TypeInv
  <2>2. \A pkt \in Data : pkt.tr = 0
    BY DEF Data
  <2> QED BY <2>1, <2>2
<1>2. CASE ReceiveDamaged(i)
  <2>1. /\ Reads(i) /\ UNCHANGED receiverVars
        /\ SendReplies(<<Reply("NACK", expectedSeqnum, window)>>)
    BY <1>2 DEF ReceiveDamaged
  <2>2. InOrder(toReceiver', toReceiver) /\ receiverPc = "select" /\ refused' = refused
    BY <2>1, ReadingIs
  <2>3. AcksIn(toSender', lastSeqnumAcked, Gone(sendingStack), Len(output))
    BY <2>1, NackDelivers
  <2> QED BY <2>1, <2>2, <2>3, DeliveryOfAnswer
<1> QED BY <1>1, <1>2, DeliveryOfLast, DeliveryOfData

LEMMA DeliveryOfReceiver ==
  ASSUME DeliveryInv, receiverPc # "closed", TypeInv', UNCHANGED senderVars, ReceiverStep
  PROVE  DeliveryInv' /\ Advance
<1>1. /\ DataIn(toReceiver, receivingStack, SentRanks(sendingStack), Len(output))
      /\ BufferIn(receivingStack, SentRanks(sendingStack), Len(output), expectedSeqnum)
      /\ AcksIn(toSender, lastSeqnumAcked, Gone(sendingStack), Len(output))
  BY Bounds DEF Live
<1>2. CASE Launch
  <2>1. /\ receiverPc' = "select" /\ refused' = refused /\ toSender' = toSender
        /\ toReceiver' = toReceiver /\ receivingStack' = receivingStack
        /\ UNCHANGED <<expectedSeqnum, output>>
    BY <1>2 DEF Launch, networkVars
  <2> QED BY <1>1, <2>1, WaitsDelivers
<1>3. CASE \E i \in 1 .. Len(toReceiver) :
             \/ ReceiveLast(i) \/ ReceiveData(i)
             \/ ReceiveTruncated(i) \/ ReceiveDamaged(i)
  BY <1>3, DeliveryOfReceive
<1>4. CASE ReceiveFails
  <2>1. /\ toSender' = Put(toSender, <<Reply("NACK", expectedSeqnum, window)>>)
        /\ receiverPc = "select" /\ refused' = refused
        /\ toReceiver' = toReceiver /\ UNCHANGED receiverVars
    BY <1>4 DEF ReceiveFails
  <2>2. AcksIn(toSender', lastSeqnumAcked, Gone(sendingStack), Len(output))
    <3> DEFINE nack == Reply("NACK", expectedSeqnum, window)
    <3>1. expectedSeqnum \in SeqNums /\ window \in 0 .. MAX_WINDOW_SIZE
      BY ReceivingIs DEF DeliveryInv, TypeInv
    <3>2. nack \in Replies \cup {Damaged} /\ ~IsAck(nack)
      BY <3>1, ReplyType DEF Reply, IsAck
    <3>3. toSender' = Put(toSender, <<nack>>)
      BY <2>1
    <3>4. toSender \in Seq(Replies \cup {Damaged})
      BY DEF DeliveryInv, TypeInv, ToSenderInv
    <3>5. /\ lastSeqnumAcked \in SeqNums /\ Gone(sendingStack) \in Nat
          /\ Len(output) \in Nat /\ Gone(sendingStack) <= Len(output)
      BY Bounds
    <3> HIDE DEF nack
    <3>6. /\ <<nack>> \in Seq(Replies \cup {Damaged})
          /\ \A n \in 1 .. Len(<<nack>>) : ~IsAck(<<nack>>[n])
      BY <3>2
    <3> QED BY <1>1, <3>3, <3>4, <3>5, <3>6, AcksPut
  <2> QED BY <2>1, <2>2, InOrderSame, DeliveryOfAnswer
<1>5. CASE Drain
  BY <1>5, DeliveryOfDrain
<1>6. CASE Drained
  <2>1. /\ SendReplies(<<Reply("ACK", expectedSeqnum, window)>>) /\ receiverPc' = "select"
        /\ receivingStack' = receivingStack /\ toReceiver' = toReceiver
        /\ refused' = refused /\ UNCHANGED <<expectedSeqnum, output>>
    BY <1>6 DEF Drained
  <2>2. <<Reply("ACK", expectedSeqnum, window)>> = <<>> \o <<Reply("ACK", expectedSeqnum, window)>>
    OBVIOUS
  <2>3. window \in 0 .. MAX_WINDOW_SIZE
    BY ReceivingIs DEF DeliveryInv, TypeInv
  <2>4. AcksIn(toSender', lastSeqnumAcked, Gone(sendingStack), Len(output))
    BY <2>1, <2>2, <2>3, AckDelivers
  <2> QED BY <1>1, <2>1, <2>4, WaitsDelivers
<1> QED BY <1>2, <1>3, <1>4, <1>5, <1>6 DEF ReceiverStep

-----------------------------------------------------------------------------
LEMMA DeliveryOfSender ==
  ASSUME DeliveryInv, receiverPc # "closed", TypeInv', SenderStep, UNCHANGED receiverVars
  PROVE  DeliveryInv' /\ Advance
  BY DeliveryOfSkip, DeliveryOfSend, DeliveryOfFailure, DeliveryOfResponse
  DEF SenderStep

\* A step of the network moves no program.
LEMMA ChannelsDeliver ==
  ASSUME DeliveryInv, receiverPc # "closed", TypeInv', UNCHANGED senderVars,
         UNCHANGED receiverVars,
         InOrder(toSender', toSender), InOrder(toReceiver', toReceiver),
         refused' => Gone(sendingStack) = 0
  PROVE  DeliveryInv' /\ Advance
<1>1. /\ UNCHANGED <<output, expectedSeqnum, receivingStack>>
      /\ UNCHANGED <<sendingStack, lastSeqnumAcked, totalPacketsToSend>>
      /\ senderPc' = senderPc
  BY DEF senderVars, receiverVars
<1>2. Live'
  BY <1>1, LiveKept
<1>3. DeliveryInv'
  BY <1>1, <1>2, SenderDelivers
<1>4. Gone(sendingStack') = Gone(sendingStack)
  BY <1>1
<1> QED BY <1>1, <1>3, <1>4, AdvanceSame

LEMMA DeliveryOfFault ==
  ASSUME DeliveryInv, receiverPc # "closed", TypeInv', NetworkMoves
  PROVE  DeliveryInv' /\ Advance
<1>0. /\ toReceiver \in Seq(Data \cup {Damaged}) /\ toSender \in Seq(Replies \cup {Damaged})
      /\ refused => Gone(sendingStack) = 0
  BY Bounds DEF DeliveryInv, TypeInv, ToReceiverInv, ToSenderInv, Live
<1>1. UNCHANGED senderVars /\ UNCHANGED receiverVars
  BY DEF NetworkMoves
<1>2. CASE Faulty(toReceiver, toReceiver') /\ UNCHANGED <<toSender, refused>>
  <2>1. Damaged \in Data \cup {Damaged}
    OBVIOUS
  <2>2. InOrder(toReceiver', toReceiver)
    BY <1>0, <1>2, <2>1, FaultyIs
  <2> QED BY <1>0, <1>1, <1>2, <2>2, InOrderSame, ChannelsDeliver
<1>3. CASE Faulty(toSender, toSender') /\ UNCHANGED <<toReceiver, refused>>
  <2>1. Damaged \in Replies \cup {Damaged}
    OBVIOUS
  <2>2. InOrder(toSender', toSender)
    BY <1>0, <1>3, <2>1, FaultyIs
  <2> QED BY <1>0, <1>1, <1>3, <2>2, InOrderSame, ChannelsDeliver
<1>4. CASE refused' = FALSE /\ UNCHANGED <<toReceiver, toSender>>
  BY <1>1, <1>4, InOrderSame, ChannelsDeliver
<1> QED BY <1>2, <1>3, <1>4 DEF NetworkMoves, NetworkFault

\* A host refuses a datagram: until the receiver has closed, that of a receiver
\* not launched, and then nothing is acknowledged.
LEMMA DeliveryOfRefusal ==
  ASSUME DeliveryInv, receiverPc # "closed", TypeInv', Refuse \/ RefuseReply
  PROVE  DeliveryInv' /\ Advance
<1>0. /\ toReceiver \in Seq(Data \cup {Damaged}) /\ toSender \in Seq(Replies \cup {Damaged})
      /\ refused => Gone(sendingStack) = 0
      /\ Gone(sendingStack) \in Nat /\ Gone(sendingStack) <= Len(output)
  BY Bounds DEF DeliveryInv, TypeInv, ToReceiverInv, ToSenderInv, Live
<1>1. UNCHANGED senderVars /\ UNCHANGED receiverVars
  BY DEF Refuse, RefuseReply
<1>2. CASE Refuse
  <2>1. /\ receiverPc \notin {"select", "drain"} /\ toReceiver # <<>>
        /\ toReceiver' = Tail(toReceiver) /\ toSender' = toSender
    BY <1>2 DEF Refuse
  <2>2. receiverPc = "down"
    BY <2>1 DEF DeliveryInv, TypeInv, ReceiverInv, ReceiverPcs
  <2>3. Len(output) = 0
    <3>1. output = <<>>
      BY <2>2 DEF DeliveryInv, OutputInv
    <3> QED BY <3>1
  <2>4. Gone(sendingStack) = 0
    BY <1>0, <2>3
  <2>5. InOrder(toReceiver', toReceiver)
    BY <1>0, <2>1, InOrderTail
  <2> QED BY <1>1, <2>1, <2>4, <2>5, InOrderSame, ChannelsDeliver
<1>3. CASE RefuseReply
  <2>1. /\ toSender # <<>> /\ toSender' = Tail(toSender)
        /\ toReceiver' = toReceiver /\ refused' = refused
    BY <1>3 DEF RefuseReply
  <2>2. InOrder(toSender', toSender)
    BY <1>0, <2>1, InOrderTail
  <2> QED BY <1>0, <1>1, <2>1, <2>2, InOrderSame, ChannelsDeliver
<1> QED BY <1>2, <1>3
\* The receiver has closed: no step of it is left, and the file stays written.
LEMMA DeliveryWhenClosed ==
  ASSUME DeliveryInv, receiverPc = "closed", TypeInv', [Next]_vars
  PROVE  DeliveryInv' /\ UNCHANGED receiverVars
<1>1. UNCHANGED receiverVars
  <2>1. ~ReceiverStep
    BY DEF ReceiverStep, Launch, ReceiveLast, ReceiveData, ReceiveTruncated,
           ReceiveDamaged, Reads, ReceiveFails, Drain, Drained
  <2> QED
    BY <2>1 DEF Next, SenderMoves, TimerExpires, ReceiverMoves, Refuse, RefuseReply,
                NetworkMoves, Finished, vars
<1>2. receiverPc' = receiverPc /\ output' = output /\ OutputInv'
  BY <1>1 DEF DeliveryInv, OutputInv, receiverVars
<1>3. Len(output') = Blocks
  BY <1>2 DEF OutputInv
<1> QED BY <1>1, <1>2, <1>3 DEF DeliveryInv, Orderly

LEMMA DeliveryInductive ==
  ASSUME DeliveryInv, [Next]_vars
  PROVE  DeliveryInv' /\ (receiverPc # "closed" => Advance)
<1>0. TypeInv'
  BY TypesInductive DEF DeliveryInv
<1>1. CASE receiverPc = "closed"
  BY <1>0, <1>1, DeliveryWhenClosed
<1>2. CASE receiverPc # "closed"
  <2>1. CASE SenderMoves
    BY <1>0, <1>2, <2>1, DeliveryOfSender DEF SenderMoves
  <2>2. CASE \E k \in Timed : TimerExpires(k)
    BY <1>0, <1>2, <2>2, DeliveryOfExpire DEF TimerExpires
  <2>3. CASE ReceiverMoves
    BY <1>0, <1>2, <2>3, DeliveryOfReceiver DEF ReceiverMoves
  <2>4. CASE Refuse \/ RefuseReply
    BY <1>0, <1>2, <2>4, DeliveryOfRefusal
  <2>5. CASE NetworkMoves
    BY <1>0, <1>2, <2>5, DeliveryOfFault
  <2>6. CASE UNCHANGED vars
    <3>1. /\ UNCHANGED senderVars /\ UNCHANGED receiverVars
          /\ toSender' = toSender /\ toReceiver' = toReceiver /\ refused' = refused
      BY <2>6 DEF vars, networkVars
    <3>2. refused => Gone(sendingStack) = 0
      BY <1>2, Bounds DEF Live
    <3> QED BY <1>0, <1>2, <3>1, <3>2, InOrderSame, ChannelsDeliver
  <2> QED BY <2>1, <2>2, <2>3, <2>4, <2>5, <2>6 DEF Next, Finished
<1> QED BY <1>1, <1>2

\* Through every fault of the link and every restart of the sender's loop the
\* two programs stay within a window of each other until the file is written.
THEOREM DeliveryHolds == Orderly /\ Spec => []DeliveryInv
<1>1. Orderly /\ Init => DeliveryInv
  BY DeliveryOfInit
<1>2. DeliveryInv /\ [Next]_vars => DeliveryInv'
  BY DeliveryInductive
<1> QED BY <1>1, <1>2, PTL DEF Spec

-----------------------------------------------------------------------------
\* The whole file is in the output once as many packets are as it has blocks.
LEMMA WholeOutput ==
  ASSUME SafeInv, Len(output) = Blocks
  PROVE  output = File
  BY DEF SafeInv, OutputInv, File

LEMMA DeliveryIsSafe == DeliveryInv => SafeInv
  BY DEF DeliveryInv, SafeInv

\* No sequence number of another lap is taken for one of this lap, in the link
\* or in the buffer, however often it wraps: isInRange and the buffer of the
\* receiver (read_write_loop_receiver.c:150-196) tell the packets of the file
\* apart by eight bits, because a window is at most half of the numbers.
THEOREM LapsAreTold == Orderly /\ Spec => []NoLapMistaken
<1>1. DeliveryInv => NoLapMistaken
  <2> SUFFICES ASSUME DeliveryInv, receiverPc \in {"select", "drain"},
                      NEW pkt \in Range(toReceiver) \cup Range(receivingStack),
                      pkt # Damaged, InWindow(expectedSeqnum, pkt.seqnum)
               PROVE  Rank(pkt) = Len(output) + 1 + Offset(expectedSeqnum, pkt.seqnum)
    BY DEF NoLapMistaken
  <2> DEFINE r == Len(output)
             sent == SentRanks(sendingStack)
             a == Gone(sendingStack)
  <2>1. /\ r \in Nat /\ a \in Nat /\ a <= r /\ expectedSeqnum = r % SeqSpace
        /\ DataIn(toReceiver, receivingStack, sent, r) /\ SentIn(sent, a, r)
        /\ BufferIn(receivingStack, sent, r, expectedSeqnum)
    BY Bounds DEF Live
  <2>2. /\ toReceiver \in Seq(Data \cup {Damaged}) /\ receivingStack \in Seq(Data)
        /\ DOMAIN toReceiver = 1 .. Len(toReceiver)
        /\ DOMAIN receivingStack = 1 .. Len(receivingStack)
    BY LenProperties DEF DeliveryInv, TypeInv, ToReceiverInv, ReceiverInv
  <2>3. CASE pkt \in Range(toReceiver)
    <3>1. PICK i \in 1 .. Len(toReceiver) : pkt = toReceiver[i]
      BY <2>2, <2>3 DEF Range
    <3>2. pkt \in Data
      BY <2>2, <3>1, ElementOfSeq
    <3>3. Genuine(pkt) /\ Rank(pkt) \in sent /\ r < Rank(pkt) + MAX_WINDOW_SIZE
      <4>1. i <= i
        OBVIOUS
      <4> QED BY <2>1, <3>1, <4>1 DEF DataIn
    <3>4. Rank(pkt) <= r + MAX_WINDOW_SIZE
      <4>1. Rank(pkt) <= a + MAX_WINDOW_SIZE
        BY <2>1, <3>3 DEF SentIn
      <4>2. Rank(pkt) \in Nat
        BY <3>2, RankType, SenderAssumption DEF Ranks
      <4> QED BY <2>1, <4>1, <4>2, SeqNumAssumption
    <3>5. InWindow(r % SeqSpace, pkt.seqnum)
      BY <2>1
    <3> QED BY <2>1, <3>2, <3>3, <3>4, <3>5, Placed
  <2>4. CASE pkt \in Range(receivingStack)
    <3>1. PICK n \in 1 .. Len(receivingStack) : pkt = receivingStack[n]
      BY <2>2, <2>4 DEF Range
    <3> QED BY <2>1, <3>1 DEF BufferIn
  <2> QED BY <2>3, <2>4
<1> QED BY <1>1, DeliveryHolds, PTL

\* What stack_remove_acked takes from the sender's stack is written by the
\* receiver: nothing can be lost for good, since the rest is still to be sent.
THEOREM AcknowledgedFirstWritten == Orderly /\ Spec => []AcknowledgedIsWritten
<1>1. DeliveryInv => AcknowledgedIsWritten
  <2> SUFFICES ASSUME DeliveryInv PROVE AcknowledgedIsWritten
    OBVIOUS
  <2>1. CASE receiverPc = "closed"
    <3>1. Gone(sendingStack) \in Nat /\ Gone(sendingStack) <= Blocks + 1
      BY RestIs DEF DeliveryInv, TypeInv, SenderInv
    <3>2. Len(output) = Blocks
      BY <2>1 DEF DeliveryInv, OutputInv
    <3>3. Acknowledged = Gone(sendingStack)
      BY DEF Acknowledged, Gone
    <3> HIDE DEF Gone
    <3> QED BY <2>1, <3>1, <3>2, <3>3 DEF AcknowledgedIsWritten
  <2>2. CASE receiverPc # "closed"
    <3>1. Gone(sendingStack) <= Len(output) /\ Len(output) \in Nat
      BY <2>2, Bounds
    <3>2. Acknowledged = Gone(sendingStack) /\ Len(output) + 0 = Len(output)
      BY <3>1 DEF Acknowledged, Gone
    <3> QED BY <2>2, <3>1, <3>2 DEF AcknowledgedIsWritten
  <2> QED BY <2>1, <2>2
<1> QED BY <1>1, DeliveryHolds, PTL

\* The terminating packet never overtakes what it terminates, since the sender
\* holds it back until everything before it is acknowledged
\* (read_write_loop_sender.c:105-113).
THEOREM LastIsLast == Orderly /\ Spec => []LastComesLast
<1>1. DeliveryInv => LastComesLast
  <2> SUFFICES ASSUME DeliveryInv, NEW i \in 1 .. Len(toReceiver),
                      toReceiver[i] # Damaged, toReceiver[i].payload = NoPayload
               PROVE  Len(output) = Blocks
    BY DEF LastComesLast
  <2>1. CASE receiverPc = "closed"
    BY <2>1 DEF DeliveryInv, OutputInv
  <2>2. CASE receiverPc # "closed"
    <3>1. /\ DataIn(toReceiver, receivingStack, SentRanks(sendingStack), Len(output))
          /\ SentIn(SentRanks(sendingStack), Gone(sendingStack), Len(output))
          /\ Gone(sendingStack) \in Nat /\ Len(output) \in Nat
          /\ Gone(sendingStack) <= Len(output) /\ Len(output) <= Blocks
      BY <2>2, Bounds DEF Live
    <3>2. Rank(toReceiver[i]) \in SentRanks(sendingStack) /\ i <= i
      BY <3>1 DEF DataIn
    <3>3. Rank(toReceiver[i]) = Blocks + 1
      BY DEF Rank
    <3>4. Blocks <= Gone(sendingStack)
      BY <3>1, <3>2, <3>3 DEF SentIn
    <3> QED BY <3>1, <3>4, SenderAssumption
  <2> QED BY <2>1, <2>2
<1> QED BY <1>1, DeliveryHolds, PTL

\* When the sender prints that the packets were sent successfully
\* (sender.c:145) the whole file is in the output, also when it stopped because
\* of the timeouts of the terminating packet or of a refused datagram.
THEOREM SuccessMeansDelivery == Orderly /\ Spec => []SuccessIsDelivery
<1>1. SafeInv => SuccessIsDelivery
  BY WholeOutput DEF SafeInv, SuccessIsDelivery
<1> QED BY <1>1, DeliveryIsSafe, DeliveryHolds, PTL

\* When the receiver prints that the packets were received successfully
\* (read_write_loop_receiver.c:220) the whole file is in the output.
THEOREM ReceptionIsComplete == Orderly /\ Spec => []ReceivedSuccessfully
<1>1. SafeInv => ReceivedSuccessfully
  BY WholeOutput DEF SafeInv, OutputInv, ReceivedSuccessfully
<1> QED BY <1>1, DeliveryIsSafe, DeliveryHolds, PTL

\* Until the receiver has closed lastSeqnumAcked never goes back and never
\* jumps over more than a window, and each ACK takes from the stack as many
\* packets as it says, when main() starts the loop again too.
THEOREM AcksOnlyAdvance == Orderly /\ Spec => AcksAdvance
<1>1. DeliveryInv /\ [Next]_vars =>
        [receiverPc # "closed" =>
           /\ Offset(lastSeqnumAcked, lastSeqnumAcked') <= MAX_WINDOW_SIZE
           /\ Acknowledged' = Acknowledged + Offset(lastSeqnumAcked, lastSeqnumAcked')]_vars
  <2> SUFFICES ASSUME DeliveryInv, [Next]_vars, receiverPc # "closed"
               PROVE  /\ Offset(lastSeqnumAcked, lastSeqnumAcked') <= MAX_WINDOW_SIZE
                      /\ Acknowledged' = Acknowledged + Offset(lastSeqnumAcked, lastSeqnumAcked')
    OBVIOUS
  <2>1. Advance
    BY DeliveryInductive
  <2>2. Acknowledged = Gone(sendingStack) /\ Acknowledged' = Gone(sendingStack')
    BY DEF Acknowledged, Gone
  <2> QED BY <2>1, <2>2 DEF Advance
<1> QED BY <1>1, DeliveryHolds, PTL DEF Spec, AcksAdvance
-----------------------------------------------------------------------------
\* One step of the receiver writes one payload at most, and not when it closes.
LEMMA OneWrite ==
  ASSUME ReceiverStep
  PROVE  /\ receiverPc # "closed"
         /\ \/ output' = output
            \/ /\ receiverPc' # "closed"
               /\ \E payload : output' = Append(output, payload)
<1>1. ASSUME NEW pkt, WriteOut(pkt)
      PROVE  output' = output \/ \E payload : output' = Append(output, payload)
  BY <1>1 DEF WriteOut, Written
<1>2. ASSUME NEW pkt, NEW replies, Accept(pkt, replies), receiverPc = "select"
      PROVE  \/ output' = output
             \/ receiverPc' # "closed" /\ \E payload : output' = Append(output, payload)
  BY <1>1, <1>2 DEF Accept, AcceptExpected, AcceptAhead, AcceptAgain, AcceptOutside,
                    receiverVars
<1>3. CASE Launch
  BY <1>3 DEF Launch
<1>4. ASSUME NEW i \in 1 .. Len(toReceiver), ReceiveLast(i) \/ ReceiveDamaged(i)
      PROVE  receiverPc = "select" /\ output' = output
  BY <1>4 DEF ReceiveLast, ReceiveDamaged, Reads, receiverVars
<1>5. ASSUME NEW i \in 1 .. Len(toReceiver), ReceiveData(i)
      PROVE  /\ receiverPc = "select"
             /\ \/ output' = output
                \/ receiverPc' # "closed" /\ \E payload : output' = Append(output, payload)
  BY <1>2, <1>5 DEF ReceiveData, Reads
<1>6. ASSUME NEW i \in 1 .. Len(toReceiver), ReceiveTruncated(i)
      PROVE  /\ receiverPc = "select"
             /\ \/ output' = output
                \/ receiverPc' # "closed" /\ \E payload : output' = Append(output, payload)
  BY <1>1, <1>2, <1>6 DEF ReceiveTruncated, Reads
<1>7. CASE ReceiveFails \/ Drained
  BY <1>7 DEF ReceiveFails, Drained, receiverVars
<1>8. CASE Drain
  BY <1>1, <1>8 DEF Drain
<1> QED BY <1>3, <1>4, <1>5, <1>6, <1>7, <1>8 DEF ReceiverStep

\* A step of the receiver writes the next block of the file, or closes when
\* all of them are written, or does nothing that is promised.
LEMMA ReceiverImplements ==
  ASSUME SafeInv, SafeInv', ReceiverStep, UNCHANGED senderVars
  PROVE  [Promise!Next]_<<output, receiverPc = "closed", senderPc = "done">>
<1>1. receiverPc # "closed" /\ senderPc' = senderPc
  BY OneWrite DEF senderVars
<1>2. CASE output' = output
  <2>1. CASE receiverPc' = "closed"
    <3>1. output' = File
      BY <2>1 DEF SafeInv, OutputInv, File
    <3> QED BY <1>1, <1>2, <2>1, <3>1 DEF Promise!Next, Promise!Close
  <2>2. CASE receiverPc' # "closed"
    BY <1>1, <1>2, <2>2
  <2> QED BY <2>1, <2>2
<1>3. CASE receiverPc' # "closed" /\ \E payload : output' = Append(output, payload)
  <2>1. PICK payload : output' = Append(output, payload)
    BY <1>3
  <2> DEFINE r == Len(output)
  <2>2. output \in Seq(1 .. Blocks) /\ output' \in Seq(1 .. Blocks) /\ r \in Nat
    BY LenProperties DEF SafeInv, TypeInv, ReceiverInv
  <2>3. Len(output') = r + 1 /\ output'[r + 1] = payload
    BY <2>1, <2>2
  <2>4. Len(output') <= Blocks /\ output' = [k \in 1 .. Len(output') |-> k]
    BY DEF SafeInv, OutputInv
  <2> HIDE DEF r
  <2>5. r + 1 \in 1 .. Blocks /\ payload = r + 1
    <3>1. r + 1 \in 1 .. Len(output')
      BY <2>2, <2>3
    <3>2. output'[r + 1] = r + 1
      BY <2>4, <3>1
    <3> QED BY <2>2, <2>3, <2>4, <3>2, SenderAssumption
  <2>6. File[r + 1] = payload /\ Len(File) = Blocks
    <3>1. Len(File) = Blocks
      BY SenderAssumption DEF File
    <3> QED BY <2>5, <3>1 DEF File
  <2>7. r < Len(File)
    BY <2>2, <2>5, <2>6, SenderAssumption
  <2> QED BY <1>1, <1>3, <2>1, <2>6, <2>7 DEF Promise!Next, Promise!WriteNext, r
<1> QED BY <1>2, <1>3, OneWrite

\* A step of the sender ends it, when all the blocks are written, or does
\* nothing that is promised.
LEMMA SenderImplements ==
  ASSUME SafeInv', UNCHANGED receiverVars,
         SenderStep \/ \E k \in Timed : Expire(k)
  PROVE  [Promise!Next]_<<output, receiverPc = "closed", senderPc = "done">>
<1>1. output' = output /\ receiverPc' = receiverPc
  BY DEF receiverVars
<1>2. senderPc # "done"
  BY DEF SenderStep, SkipSend, SendNext, SendAgain, ReceiverGone, TryAgain, ReadFails,
         process_response, ReceiveAck, ReceiveNack, ReceiveGarbage, Responds, Idle, Expire
<1>3. CASE senderPc' = "done"
  <2>1. output' = File
    BY <1>3 DEF SafeInv, OutputInv, File
  <2> QED BY <1>1, <1>2, <1>3, <2>1 DEF Promise!Next, Promise!Succeed
<1>4. CASE senderPc' # "done"
  BY <1>1, <1>2, <1>4
<1> QED BY <1>3, <1>4

LEMMA StepImplements ==
  ASSUME SafeInv, SafeInv', [Next]_vars
  PROVE  [Promise!Next]_<<output, receiverPc = "closed", senderPc = "done">>
<1>1. CASE SenderMoves
  BY <1>1, SenderImplements DEF SenderMoves
<1>2. CASE \E k \in Timed : TimerExpires(k)
  BY <1>2, SenderImplements DEF TimerExpires
<1>3. CASE ReceiverMoves
  BY <1>3, ReceiverImplements DEF ReceiverMoves
<1>4. CASE Refuse \/ RefuseReply \/ NetworkMoves \/ UNCHANGED vars
  BY <1>4 DEF Refuse, RefuseReply, NetworkMoves, vars, senderVars, receiverVars
<1> QED BY <1>1, <1>2, <1>3, <1>4 DEF Next, Finished

LEMMA InitImplements == Init => Promise!Init
  BY DEF Init, SenderInit, ReceiverInit, Promise!Init

\* The two programs together implement a reliable transfer (sender.c:67 and
\* receiver.c:63): the output grows by the next block of the file and by
\* nothing else, and neither program ends successfully before it is whole.
THEOREM TransferIsReliable == Orderly /\ Spec => ImplementsReliableTransfer
<1>1. SafeInv /\ SafeInv' /\ [Next]_vars =>
        [Promise!Next]_<<output, receiverPc = "closed", senderPc = "done">>
  BY StepImplements
<1> QED
  BY <1>1, InitImplements, DeliveryIsSafe, DeliveryHolds, PTL
  DEF Spec, ImplementsReliableTransfer, Promise!Spec

-----------------------------------------------------------------------------
(***************************************************************************)
(* A file shorter than the sequence numbers.  No number is used twice, so  *)
(* the order of the datagrams does not matter: such a file is delivered    *)
(* over a link that lets them overtake each other too.  With the 256       *)
(* numbers and the window of 31 of the code that is a file of 225 blocks.  *)
(***************************************************************************)
\* The numbers of the packets, that of the last ACK, and a window beyond the
\* last packet are all different.
Brief ==
  /\ WritesMayFail = FALSE
  /\ Blocks + MAX_WINDOW_SIZE <= SeqSpace
  /\ Blocks + 2 <= SeqSpace

\* The acknowledgments on their way are of packets that are written.
AcksBehind(channel, r) ==
  \A i \in 1 .. Len(channel) : IsAck(channel[i]) => channel[i].seqnum <= r

\* The datagrams on their way are packets of the file, and the terminating one
\* comes when all the others are written.
DataOfFile(channel, r) ==
  \A i \in 1 .. Len(channel) :
    channel[i] # Damaged
    => /\ Genuine(channel[i])
       /\ channel[i].payload = NoPayload => r = Blocks

\* Nothing here says that lastSeqnumAcked is what is gone from the stack: an
\* ACK that comes late takes it back.
BriefLive ==
  /\ Gone(sendingStack) <= Len(output)
  /\ lastSeqnumAcked <= Len(output)
  /\ totalPacketsToSend = Blocks + 1
  /\ refused => Gone(sendingStack) = 0
  /\ AcksBehind(toSender, Len(output))
  /\ DataOfFile(toReceiver, Len(output))
  /\ BufferIn(receivingStack, Ranks, Len(output), expectedSeqnum)

BriefInv ==
  /\ Brief
  /\ SafeInv
  /\ receiverPc # "closed" => BriefLive

\* What is on its way in new comes from old, unless it was damaged.
Within(new, old) ==
  \A i \in 1 .. Len(new) :
    new[i] = Damaged \/ \E j \in 1 .. Len(old) : new[i] = old[j]

LEMMA InOrderWithin ==
  ASSUME NEW new, NEW old, InOrder(new, old)
  PROVE  Within(new, old)
<1> SUFFICES ASSUME NEW i \in 1 .. Len(new)
             PROVE  new[i] = Damaged \/ \E j \in 1 .. Len(old) : new[i] = old[j]
  BY DEF Within
<1>1. i <= i
  OBVIOUS
<1> QED BY <1>1 DEF InOrder

LEMMA WithinSame ==
  ASSUME NEW channel
  PROVE  Within(channel, channel)
  BY DEF Within

\* Whichever datagram is read, the others stay.
LEMMA TakeWithin ==
  ASSUME NEW S, NEW old \in Seq(S), NEW i \in 1 .. Len(old)
  PROVE  Within(Take(old, i), old)
<1>1. /\ Len(old) \in Nat /\ Len(RemoveAt(old, i)) = Len(old) - 1
      /\ \A n \in 1 .. Len(old) - 1 :
           RemoveAt(old, i)[n] = IF n < i THEN old[n] ELSE old[n + 1]
  BY LenProperties, RemoveAtIs
<1>2. \A n \in 1 .. Len(old) - 1 : n \in 1 .. Len(old) /\ n + 1 \in 1 .. Len(old)
  BY <1>1
<1> QED BY <1>1, <1>2 DEF Within, Take

LEMMA AcksWithin ==
  ASSUME NEW old, NEW new, Within(new, old), NEW r, AcksBehind(old, r)
  PROVE  AcksBehind(new, r)
<1>1. ~IsAck(Damaged)
  BY DEF IsAck, Damaged
<1> QED BY <1>1 DEF Within, AcksBehind

LEMMA DataWithin ==
  ASSUME NEW old, NEW new, Within(new, old), NEW r, DataOfFile(old, r)
  PROVE  DataOfFile(new, r)
  BY DEF Within, DataOfFile

LEMMA AcksMore ==
  ASSUME NEW channel \in Seq(Replies \cup {Damaged}), NEW r \in Nat, NEW more \in Nat,
         r <= more, AcksBehind(channel, r)
  PROVE  AcksBehind(channel, more)
<1> SUFFICES ASSUME NEW i \in 1 .. Len(channel), IsAck(channel[i])
             PROVE  channel[i].seqnum <= more
  BY DEF AcksBehind
<1>1. channel[i] \in Replies \cup {Damaged}
  BY ElementOfSeq
<1>2. channel[i].seqnum \in Nat
  BY <1>1, AckIs, SeqNumAssumption DEF SeqNums
<1>3. channel[i].seqnum <= r
  BY DEF AcksBehind
<1> QED BY <1>2, <1>3

LEMMA AcksSent ==
  ASSUME NEW channel \in Seq(Replies \cup {Damaged}), NEW r, AcksBehind(channel, r),
         NEW msgs \in Seq(Replies \cup {Damaged}), AcksBehind(msgs, r)
  PROVE  AcksBehind(Put(channel, msgs), r)
<1> DEFINE new == Put(channel, msgs)
<1>1. /\ Len(channel) \in Nat /\ Len(msgs) \in Nat /\ Len(new) \in Nat
      /\ Len(new) <= Len(channel) + Len(msgs)
      /\ \A i \in 1 .. Len(new) :
           new[i] = IF i <= Len(channel) THEN channel[i] ELSE msgs[i - Len(channel)]
  BY PutIs, LenProperties
<1> HIDE DEF new
<1>2. ASSUME NEW i \in 1 .. Len(new), IsAck(new[i])
      PROVE  new[i].seqnum <= r
  <2>1. CASE i <= Len(channel)
    <3>1. i \in 1 .. Len(channel) /\ new[i] = channel[i]
      BY <1>1, <2>1
    <3> QED BY <1>2, <3>1 DEF AcksBehind
  <2>2. CASE ~(i <= Len(channel))
    <3>1. i - Len(channel) \in 1 .. Len(msgs) /\ new[i] = msgs[i - Len(channel)]
      BY <1>1, <2>2
    <3> QED BY <1>2, <3>1 DEF AcksBehind
  <2> QED BY <2>1, <2>2
<1> QED BY <1>2 DEF AcksBehind, new

LEMMA DataSent ==
  ASSUME NEW channel \in Seq(Data \cup {Damaged}), NEW r, DataOfFile(channel, r),
         NEW d \in Data, Genuine(d), d.payload = NoPayload => r = Blocks
  PROVE  DataOfFile(Put(channel, <<d>>), r)
<1> DEFINE new == Put(channel, <<d>>)
<1>1. <<d>> \in Seq(Data \cup {Damaged}) /\ Len(<<d>>) = 1 /\ <<d>>[1] = d
  OBVIOUS
<1>2. /\ Len(channel) \in Nat /\ Len(new) \in Nat /\ Len(new) <= Len(channel) + 1
      /\ \A i \in 1 .. Len(new) :
           new[i] = IF i <= Len(channel) THEN channel[i] ELSE <<d>>[i - Len(channel)]
  BY <1>1, PutIs, LenProperties
<1> HIDE DEF new
<1>3. \A i \in 1 .. Len(new) :
        new[i] = d \/ \E j \in 1 .. Len(channel) : new[i] = channel[j]
  <2> TAKE i \in 1 .. Len(new)
  <2>1. CASE i <= Len(channel)
    <3>1. i \in 1 .. Len(channel) /\ new[i] = channel[i]
      BY <1>2, <2>1
    <3> QED BY <3>1
  <2>2. CASE ~(i <= Len(channel))
    <3>1. i - Len(channel) = 1 /\ new[i] = <<d>>[i - Len(channel)]
      BY <1>2, <2>2
    <3> QED BY <1>1, <3>1
  <2> QED BY <2>1, <2>2
<1> QED BY <1>3 DEF DataOfFile, new

-----------------------------------------------------------------------------
\* The sequence numbers of a short file do not wrap.
LEMMA Itself ==
  ASSUME NEW n \in Nat, n < SeqSpace
  PROVE  n % SeqSpace = n
<1>1. /\ 0 \in Nat /\ 0 <= n /\ n < 0 + SeqSpace /\ n - 0 = n
      /\ 0 % SeqSpace = 0
  BY SeqNumAssumption
<1>2. Offset(0, n % SeqSpace) = n
  BY <1>1, OffsetOfPositions
<1>3. n % SeqSpace \in SeqNums
  BY Remainder
<1> QED BY <1>2, <1>3, SeqNumAssumption DEF Offset, SeqNums

LEMMA NumberIs ==
  ASSUME Brief, NEW pkt \in Data, Genuine(pkt)
  PROVE  pkt.seqnum = Rank(pkt) - 1 /\ Rank(pkt) \in 1 .. Blocks + 1
<1>1. Rank(pkt) \in Nat /\ 1 <= Rank(pkt) /\ Rank(pkt) <= Blocks + 1
  BY RankType, SenderAssumption DEF Ranks
<1>2. Rank(pkt) - 1 \in Nat /\ Rank(pkt) - 1 < SeqSpace
  BY <1>1, SenderAssumption, SeqNumAssumption DEF Brief
<1>3. (Rank(pkt) - 1) % SeqSpace = Rank(pkt) - 1
  BY <1>2, Itself
<1> QED BY <1>1, <1>3, SenderAssumption DEF Genuine

\* The receiver takes every packet for what it is.
LEMMA BriefPlaced ==
  ASSUME Brief, NEW pkt \in Data, Genuine(pkt), NEW r \in Nat, r <= Blocks,
         InWindow(r, pkt.seqnum)
  PROVE  Rank(pkt) = r + 1 + Offset(r, pkt.seqnum) /\ Offset(r, pkt.seqnum) \in Nat
<1>1. pkt.seqnum = Rank(pkt) - 1 /\ Rank(pkt) \in 1 .. Blocks + 1
  BY NumberIs
<1> DEFINE k == Rank(pkt)
           s == pkt.seqnum
<1>2. k \in Nat /\ k >= 1 /\ s = k - 1
  BY <1>1, SenderAssumption
<1>3. Offset(r, s) < MAX_WINDOW_SIZE
  BY DEF InWindow
<1> HIDE DEF k, s
<1>4. ~(s - r < 0)
  BY <1>2, <1>3, SenderAssumption, SeqNumAssumption DEF Offset, Brief
<1>5. Offset(r, s) = s - r
  BY <1>4 DEF Offset
<1>6. Offset(r, s) \in Nat /\ k = r + 1 + Offset(r, s)
  BY <1>2, <1>4, <1>5
<1> QED BY <1>6 DEF k, s

\* Where a number is in the sender's stack, and which ones are there.
LEMMA BriefPosition ==
  ASSUME Brief, NEW stack, RestOfFile(stack), NEW s
  PROVE  /\ is_in_stack(stack, s) =>
              /\ s \in Nat /\ Gone(stack) <= s /\ s <= Blocks
              /\ FirstPosition(stack, s) \in Nat
              /\ Gone(stack) + FirstPosition(stack, s) = s + 1
         /\ s \in Nat /\ Gone(stack) <= s /\ s <= Blocks => is_in_stack(stack, s)
<1> DEFINE g == Gone(stack)
<1>1. /\ g \in Nat /\ Len(stack) \in Nat /\ Len(stack) = Blocks + 1 - g
      /\ \A k \in 1 .. Len(stack) : stack[k].seqnum = (g + k - 1) % SeqSpace
  BY RestIs DEF IsPacket
<1> HIDE DEF g
<1>2. \A k \in 1 .. Len(stack) : stack[k].seqnum = g + k - 1
  <2> TAKE k \in 1 .. Len(stack)
  <2>1. g + k - 1 \in Nat /\ g + k - 1 < SeqSpace
    BY <1>1, SenderAssumption, SeqNumAssumption DEF Brief
  <2> QED BY <1>1, <2>1, Itself
<1>3. ASSUME is_in_stack(stack, s)
      PROVE  /\ s \in Nat /\ g <= s /\ s <= Blocks
             /\ FirstPosition(stack, s) \in Nat /\ g + FirstPosition(stack, s) = s + 1
  <2> DEFINE p == FirstPosition(stack, s)
  <2>1. p \in 1 .. Len(stack) /\ stack[p].seqnum = s
    BY <1>1, <1>3, FirstPositionIs
  <2> HIDE DEF p
  <2>2. s = g + p - 1
    BY <1>2, <2>1
  <2> QED BY <1>1, <2>1, <2>2, SenderAssumption DEF p
<1>4. ASSUME s \in Nat, g <= s, s <= Blocks
      PROVE  is_in_stack(stack, s)
  <2>1. s - g + 1 \in 1 .. Len(stack) /\ g + (s - g + 1) - 1 = s
    BY <1>1, <1>4, SenderAssumption
  <2>2. stack[s - g + 1].seqnum = s
    BY <1>2, <2>1
  <2> QED BY <2>1, <2>2 DEF is_in_stack, Positions
<1> QED BY <1>3, <1>4 DEF g

\* Where the two programs stand until the receiver has closed.
LEMMA BriefBounds ==
  ASSUME BriefInv, receiverPc # "closed"
  PROVE  /\ BriefLive /\ TypeInv /\ OutputInv
         /\ RestOfFile(sendingStack)
         /\ Gone(sendingStack) \in Nat /\ Len(output) \in Nat
         /\ Gone(sendingStack) <= Len(output) /\ Len(output) <= Blocks
         /\ Len(sendingStack) = Blocks + 1 - Gone(sendingStack)
         /\ expectedSeqnum = Len(output) /\ expectedSeqnum \in SeqNums
         /\ LastAck = Blocks + 1
<1>1. /\ BriefLive /\ TypeInv /\ OutputInv /\ RestOfFile(sendingStack)
      /\ Gone(sendingStack) <= Len(output) /\ Len(output) <= Blocks
      /\ expectedSeqnum \in SeqNums /\ totalPacketsToSend = Blocks + 1
  BY DEF BriefInv, BriefLive, SafeInv, TypeInv, SenderInv, ReceiverInv, OutputInv
<1>2. Gone(sendingStack) \in Nat /\ Len(sendingStack) = Blocks + 1 - Gone(sendingStack)
  BY <1>1, RestIs
<1>3. Len(output) \in Nat /\ Len(output) + 0 = Len(output)
  BY LenProperties DEF BriefInv, SafeInv, TypeInv, ReceiverInv
<1>4. Len(output) < SeqSpace /\ Blocks + 1 \in Nat /\ Blocks + 1 < SeqSpace
  BY <1>1, <1>3, SenderAssumption, SeqNumAssumption DEF BriefInv, Brief
<1>5. expectedSeqnum = Len(output)
  BY <1>1, <1>3, <1>4, Itself DEF OutputInv
<1>6. LastAck = Blocks + 1
  BY <1>1, <1>4, Itself DEF LastAck
<1> QED BY <1>1, <1>2, <1>3, <1>5, <1>6

LEMMA BriefOfInit == Init /\ Brief => BriefInv
<1> SUFFICES ASSUME Init, Brief PROVE BriefInv
  OBVIOUS
<1>1. TypeInv
  BY TypesOfInit
<1>2. /\ output = <<>> /\ Len(output) = 0 /\ Len(toSender) = 0 /\ Len(toReceiver) = 0
      /\ Len(receivingStack) = 0 /\ expectedSeqnum = 0 /\ lastSeqnumAcked = 0
      /\ receiverPc = "down" /\ senderPc = "send" /\ refused = FALSE
      /\ sendingStack = FilePackets /\ totalPacketsToSend = Len(FilePackets)
  BY DEF Init, SenderInit, ReceiverInit, NetworkInit
<1>3. Gone(sendingStack) = 0 /\ totalPacketsToSend = Blocks + 1
  BY <1>2, WholeFile, RestIs, SenderAssumption
<1>4. OutputInv
  <2>1. <<>> = [k \in 1 .. 0 |-> k] /\ 0 % SeqSpace = 0
    BY SeqNumAssumption
  <2> QED BY <1>2, <2>1, SenderAssumption DEF OutputInv
<1>5. BriefLive
  BY <1>2, <1>3 DEF BriefLive, AcksBehind, DataOfFile, BufferIn
<1> QED BY <1>1, <1>2, <1>4, <1>5 DEF BriefInv, SafeInv

-----------------------------------------------------------------------------
\* What a step of the sender, or of the link, has to show.
LEMMA BriefSender ==
  ASSUME BriefInv, receiverPc # "closed", TypeInv', UNCHANGED receiverVars,
         Gone(sendingStack') <= Len(output), lastSeqnumAcked' <= Len(output),
         totalPacketsToSend' = Blocks + 1, refused' => Gone(sendingStack') = 0,
         AcksBehind(toSender', Len(output)), DataOfFile(toReceiver', Len(output)),
         senderPc' = "done" => senderPc = "done" \/ Blocks <= Gone(sendingStack')
  PROVE  BriefInv'
<1>1. /\ output' = output /\ receiverPc' = receiverPc
      /\ expectedSeqnum' = expectedSeqnum /\ receivingStack' = receivingStack
  BY DEF receiverVars
<1>2. OutputInv'
  BY <1>1, BriefBounds DEF OutputInv
<1>3. BriefLive'
  BY <1>1, BriefBounds DEF BriefLive
<1>4. senderPc' = "done" => Len(output') = Blocks
  <2>1. senderPc = "done" => Len(output) = Blocks
    BY DEF BriefInv, SafeInv
  <2>2. Gone(sendingStack') \in Nat
    BY RestIs DEF TypeInv, SenderInv
  <2>3. Len(output) \in Nat /\ Len(output) <= Blocks
    BY BriefBounds
  <2> QED BY <1>1, <2>1, <2>2, <2>3, SenderAssumption
<1> QED BY <1>2, <1>3, <1>4 DEF BriefInv, Brief, SafeInv

\* One that leaves the stack and the last ACK alone, and sends nothing.
LEMMA BriefKept ==
  ASSUME BriefInv, receiverPc # "closed", TypeInv', UNCHANGED receiverVars,
         UNCHANGED <<sendingStack, lastSeqnumAcked, totalPacketsToSend>>,
         Within(toSender', toSender), Within(toReceiver', toReceiver),
         refused' => Gone(sendingStack) = 0,
         senderPc' = "done" => senderPc = "done" \/ Blocks <= Gone(sendingStack')
  PROVE  BriefInv'
<1>1. BriefLive
  BY BriefBounds
<1>2. AcksBehind(toSender', Len(output)) /\ DataOfFile(toReceiver', Len(output))
  BY <1>1, AcksWithin, DataWithin DEF BriefLive
<1>3. Gone(sendingStack') = Gone(sendingStack)
  OBVIOUS
<1> QED BY <1>1, <1>2, <1>3, BriefSender DEF BriefLive

\* What makes the sender leave its loop.
LEMMA BriefLeaves ==
  ASSUME BriefInv, receiverPc # "closed", TypeInv', senderPc = "wait",
         Gone(sendingStack') <= Len(output), NEW mainBreak, EndOfIteration(mainBreak),
         mainBreak => Len(sendingStack') = 1,
         \/ lastpacketsSentCount' = lastpacketsSentCount
         \/ Len(sendingStack') = 1
  PROVE  senderPc' = "done" => Blocks <= Gone(sendingStack')
<1>1. RestOfFile(sendingStack') /\ SenderInv
  BY DEF TypeInv, SenderInv, BriefInv, SafeInv
<1>2. Gone(sendingStack') <= Blocks
  <2>1. Gone(sendingStack') \in Nat
    BY <1>1, RestIs
  <2> QED BY <2>1, BriefBounds, SenderAssumption
<1>3. Len(sendingStack') = 1 => Blocks <= Gone(sendingStack')
  BY <1>1, OneLeft
<1>4. lastpacketsSentCount' = lastpacketsSentCount => ~(lastpacketsSentCount' > LastTimeouts)
  BY <1>1, CountIs
<1> QED BY <1>1, <1>2, <1>3, <1>4, Leaves

LEMMA BriefOfSkip ==
  ASSUME BriefInv, receiverPc # "closed", TypeInv', UNCHANGED receiverVars,
         SkipSend \/ Idle
  PROVE  BriefInv'
<1>1. /\ UNCHANGED <<sendingStack, lastSeqnumAcked, totalPacketsToSend,
                     lastpacketsSentCount, toReceiver, toSender, refused>>
      /\ \/ senderPc' = "wait"
         \/ senderPc = "wait" /\ EndOfIteration(FALSE)
  BY DEF SkipSend, Idle, networkVars
<1>2. Gone(sendingStack') <= Len(output) /\ (refused' => Gone(sendingStack) = 0)
  BY <1>1, BriefBounds DEF BriefLive
<1>3. senderPc' = "done" => Blocks <= Gone(sendingStack')
  BY <1>1, <1>2, BriefLeaves
<1> QED BY <1>1, <1>2, <1>3, WithinSame, BriefKept

LEMMA BriefOfExpire ==
  ASSUME BriefInv, receiverPc # "closed", TypeInv', UNCHANGED receiverVars,
         NEW k \in Timed, Expire(k)
  PROVE  BriefInv'
<1>1. /\ UNCHANGED <<sendingStack, lastSeqnumAcked, totalPacketsToSend,
                     toReceiver, toSender, refused>>
      /\ lastpacketsSentCount' =
           lastpacketsSentCount + (IF Len(sendingStack) = 1 THEN 1 ELSE 0)
      /\ senderPc = "wait" /\ EndOfIteration(FALSE)
  BY DEF Expire, networkVars
<1>2. Gone(sendingStack') <= Len(output) /\ (refused' => Gone(sendingStack) = 0)
  BY <1>1, BriefBounds DEF BriefLive
<1>3. lastpacketsSentCount' = lastpacketsSentCount \/ Len(sendingStack') = 1
  <2>1. lastpacketsSentCount + 0 = lastpacketsSentCount
    BY SenderAssumption DEF BriefInv, SafeInv, TypeInv, SenderInv
  <2> QED BY <1>1, <2>1
<1>4. senderPc' = "done" => Blocks <= Gone(sendingStack')
  BY <1>1, <1>2, <1>3, BriefLeaves
<1> QED BY <1>1, <1>2, <1>4, WithinSame, BriefKept

\* The packet transmitted is of the file; it is the terminating one only when
\* its number is that of the last ACK, and then everything is written.
LEMMA BriefOfSend ==
  ASSUME BriefInv, receiverPc # "closed", TypeInv', UNCHANGED receiverVars,
         SendNext \/ SendAgain
  PROVE  BriefInv'
<1> DEFINE p == FirstPosition(sendingStack, seqnumToSend)
           a == Gone(sendingStack)
           d == Segment(sendingStack[p])
           r == Len(output)
<1>1. /\ MaySend /\ Transmit /\ senderPc' = "wait"
      /\ UNCHANGED <<lastSeqnumAcked, totalPacketsToSend>>
  BY DEF SendNext, SendAgain
<1>2. /\ BriefLive /\ RestOfFile(sendingStack) /\ a \in Nat /\ r \in Nat
      /\ a <= r /\ r <= Blocks /\ Len(sendingStack) = Blocks + 1 - a
      /\ Brief /\ toReceiver \in Seq(Data \cup {Damaged})
  BY BriefBounds DEF BriefInv, TypeInv, ToReceiverInv
<1>3. /\ is_in_stack(sendingStack, seqnumToSend) /\ ~HoldLast
      /\ sendingStack' = [sendingStack EXCEPT ![p].sent = TRUE] /\ Write(d)
  BY <1>1 DEF MaySend, Transmit
<1>4. p \in 1 .. Len(sendingStack)
  BY <1>1, ToSendIs DEF BriefInv, SafeInv, TypeInv
<1>5. Gone(sendingStack') = a /\ a + p \in Ranks
  BY <1>2, <1>3, <1>4, RestMarked
<1>6. /\ sendingStack[p] \in Nodes /\ IsPacket(a + p, sendingStack[p])
  BY <1>2, <1>4, RestIs
<1>7. /\ d \in Data /\ d.payload = sendingStack[p].payload
      /\ d.seqnum = sendingStack[p].seqnum
  BY <1>6, SegmentType DEF Segment
<1>8. Genuine(d)
  <2>1. a + p \in 1 .. Blocks + 1
    BY <1>5 DEF Ranks
  <2>2. d.payload = IF a + p <= Blocks THEN a + p ELSE NoPayload
    BY <1>6, <1>7 DEF IsPacket
  <2>3. Rank(d) = a + p
    BY <2>1, <2>2, SenderAssumption DEF Rank, NoPayload
  <2>4. d.seqnum = ((a + p) - 1) % SeqSpace
    BY <1>6, <1>7 DEF IsPacket
  <2> QED BY <2>3, <2>4 DEF Genuine
<1>9. d.payload = NoPayload => r = Blocks
  <2> SUFFICES ASSUME d.payload = NoPayload PROVE r = Blocks
    OBVIOUS
  <2>1. Len(sendingStack) < SeqSpace
    BY <1>2, SenderAssumption, SeqNumAssumption DEF Brief
  <2>2. stack_get_pkt(sendingStack, seqnumToSend).payload = NoPayload
    BY <1>7 DEF stack_get_pkt
  <2>3. seqnumToSend = lastSeqnumAcked
    BY <1>3, <2>1, <2>2 DEF HoldLast
  <2>4. a + p = Blocks + 1
    <3>1. a + p \in 1 .. Blocks + 1
      BY <1>5 DEF Ranks
    <3>2. NoPayload = IF a + p <= Blocks THEN a + p ELSE NoPayload
      BY <1>6, <1>7 DEF IsPacket
    <3> QED BY <3>1, <3>2, SenderAssumption DEF NoPayload
  <2>5. a + p = seqnumToSend + 1 /\ seqnumToSend \in Nat
    BY <1>2, <1>3, BriefPosition
  <2>6. lastSeqnumAcked <= r
    BY <1>2 DEF BriefLive
  <2> QED BY <1>2, <2>3, <2>4, <2>5, <2>6, SenderAssumption
<1> HIDE DEF p, a, d, r
<1>10. DataOfFile(toReceiver, r) /\ AcksBehind(toSender, r)
  BY <1>2 DEF BriefLive, r
<1>11. DataOfFile(Put(toReceiver, <<d>>), r)
  BY <1>2, <1>7, <1>8, <1>9, <1>10, DataSent
<1>12. /\ toReceiver' = toReceiver \/ toReceiver' = Put(toReceiver, <<d>>)
       /\ toSender' = toSender /\ ~refused'
  BY <1>3 DEF Write
<1>13. DataOfFile(toReceiver', r) /\ AcksBehind(toSender', r)
  BY <1>10, <1>11, <1>12
<1>14. /\ Gone(sendingStack') <= r /\ lastSeqnumAcked' <= r
       /\ totalPacketsToSend' = Blocks + 1
  BY <1>1, <1>2, <1>5 DEF BriefLive, r
<1> QED BY <1>1, <1>12, <1>13, <1>14, BriefSender DEF r

\* An error on the socket of the sender means that the receiver was not
\* listening: nothing is written, and the terminating packet not transmitted
\* unless there is nothing else.
LEMMA BriefOfFailure ==
  ASSUME BriefInv, receiverPc # "closed", TypeInv', UNCHANGED receiverVars,
         ReceiverGone \/ TryAgain
  PROVE  BriefInv'
<1> DEFINE a == Gone(sendingStack)
<1>1. /\ senderPc = "wait" /\ refused /\ refused' = FALSE
      /\ UNCHANGED <<toReceiver, toSender, sendingStack, lastpacketsSentCount>>
  BY DEF ReceiverGone, TryAgain, ReadFails
<1>2. /\ BriefLive /\ a = 0 /\ Len(output) \in Nat
      /\ Len(sendingStack) = Blocks + 1 - a /\ totalPacketsToSend = Blocks + 1
      /\ Gone(sendingStack') = a /\ a <= Len(output) /\ lastSeqnumAcked <= Len(output)
      /\ AcksBehind(toSender', Len(output)) /\ DataOfFile(toReceiver', Len(output))
  BY <1>1, BriefBounds DEF BriefLive
<1>3. Len(sendingStack) = Blocks + 1
  BY <1>2, SenderAssumption
<1>4. CASE ReceiverGone
  <2>1. /\ EndOfIteration(TRUE) /\ UNCHANGED <<lastSeqnumAcked, totalPacketsToSend>>
    BY <1>4 DEF ReceiverGone
  <2>2. ~(lastpacketsSentCount' > LastTimeouts)
    BY <1>1, CountIs DEF BriefInv, SafeInv, TypeInv
  <2>3. lastSeqnumAcked' # LastAck
    <3>1. LastAck = Blocks + 1 /\ Len(output) <= Blocks
      BY BriefBounds
    <3>2. lastSeqnumAcked' <= Len(output)
      BY <1>2, <2>1
    <3>3. lastSeqnumAcked' \in Nat
      BY SeqNumAssumption DEF TypeInv, SenderInv, SeqNums
    <3> QED BY <1>2, <3>1, <3>2, <3>3, SenderAssumption
  <2>4. Len(sendingStack') < SeqSpace
    BY <1>1, <1>3, SenderAssumption, SeqNumAssumption DEF BriefInv, Brief
  <2>5. sendingStack' # <<>>
    BY <1>1, <1>3, EmptySeq, SenderAssumption
  <2>6. senderPc' # "done"
    BY <2>1, <2>2, <2>3, <2>4, <2>5 DEF EndOfIteration
  <2> QED BY <1>1, <1>2, <2>1, <2>6, BriefSender
<1>5. CASE TryAgain
  <2>1. /\ senderPc' = "send" /\ lastSeqnumAcked' = 0
        /\ totalPacketsToSend' = Len(sendingStack)
    BY <1>5 DEF TryAgain
  <2> QED BY <1>1, <1>2, <1>3, <2>1, BriefSender
<1> QED BY <1>4, <1>5

\* An ACK takes from the stack nothing that is not written, however late it is:
\* one that is behind the stack is ignored, since the packet before it is not
\* there and its number is not that of the ACK of the terminating packet.
LEMMA BriefAck ==
  ASSUME BriefInv, receiverPc # "closed", NEW i \in 1 .. Len(toSender), ReceiveAck(i)
  PROVE  /\ RestOfFile(sendingStack') /\ Gone(sendingStack') <= Len(output)
         /\ lastSeqnumAcked' <= Len(output)
<1> DEFINE s == toSender[i].seqnum
           a == Gone(sendingStack)
           r == Len(output)
<1>1. /\ BriefLive /\ RestOfFile(sendingStack) /\ a \in Nat /\ r \in Nat
      /\ a <= r /\ r <= Blocks /\ LastAck = Blocks + 1 /\ Brief
      /\ toSender \in Seq(Replies \cup {Damaged})
  BY BriefBounds DEF BriefInv, TypeInv, ToSenderInv
<1>2. /\ IsAck(toSender[i]) /\ CountAck(s)
      /\ sendingStack' = IF Acknowledges(s)
                         THEN stack_remove_acked(sendingStack, s)
                         ELSE sendingStack
  BY DEF ReceiveAck, IsAck
<1>3. s <= r
  BY <1>1, <1>2 DEF BriefLive, AcksBehind
<1>4. s \in SeqNums /\ s \in Nat
  <2>1. toSender[i] \in Replies \cup {Damaged}
    BY <1>1, ElementOfSeq
  <2> QED BY <2>1, <1>2, AckIs, SeqNumAssumption DEF SeqNums
<1>5. lastSeqnumAcked' = s
  BY <1>2 DEF CountAck
<1> HIDE DEF s, a, r
<1>6. CASE is_in_stack(sendingStack, s)
  <2>1. FirstPosition(sendingStack, s) \in Nat /\ a + FirstPosition(sendingStack, s) = s + 1
    BY <1>1, <1>6, BriefPosition DEF a
  <2>2. /\ RestOfFile(stack_remove_acked(sendingStack, s))
        /\ Gone(stack_remove_acked(sendingStack, s)) = a + FirstPosition(sendingStack, s) - 1
    BY <1>1, <1>6, RestShrinks DEF a
  <2>3. Gone(stack_remove_acked(sendingStack, s)) = s
    BY <1>1, <1>4, <2>1, <2>2
  <2> QED BY <1>1, <1>2, <1>3, <1>5, <2>2, <2>3 DEF a, r
<1>7. CASE ~is_in_stack(sendingStack, s)
  <2>1. s < a
    <3>1. s <= Blocks
      BY <1>1, <1>3, <1>4, SenderAssumption
    <3> QED BY <1>1, <1>4, <1>7, <3>1, BriefPosition DEF a
  <2>2. s # LastAck
    BY <1>1, <1>3, <1>4, SenderAssumption
  <2>3. ~is_in_stack(sendingStack, Decr(s))
    <3>1. Decr(s) = IF s = 0 THEN SeqSpace - 1 ELSE s - 1
      BY <1>4, DecrIs
    <3>2. is_in_stack(sendingStack, Decr(s)) => a <= Decr(s) /\ Decr(s) <= Blocks
      BY <1>1, BriefPosition DEF a
    <3> QED BY <1>1, <1>4, <2>1, <3>1, <3>2, SenderAssumption, SeqNumAssumption DEF Brief
  <2>4. sendingStack' = sendingStack
    BY <1>2, <2>2, <2>3 DEF Acknowledges
  <2> QED BY <1>1, <1>3, <1>5, <2>4 DEF a, r
<1> QED BY <1>6, <1>7

LEMMA BriefOfResponse ==
  ASSUME BriefInv, receiverPc # "closed", TypeInv', UNCHANGED receiverVars,
         NEW i \in 1 .. Len(toSender), process_response(i)
  PROVE  BriefInv'
<1>1. /\ senderPc = "wait" /\ ~refused /\ toSender' = Take(toSender, i)
      /\ UNCHANGED <<toReceiver, refused>>
      /\ UNCHANGED <<totalPacketsToSend, lastpacketsSentCount>>
  BY DEF process_response, ReceiveAck, ReceiveNack, ReceiveGarbage, Responds
<1>2. Within(toSender', toSender) /\ Within(toReceiver', toReceiver)
  <2>1. toSender \in Seq(Replies \cup {Damaged})
    BY BriefBounds DEF TypeInv, ToSenderInv
  <2>2. Within(Take(toSender, i), toSender)
    <3> DEFINE S == Replies \cup {Damaged}
    <3>1. toSender \in Seq(S)
      BY <2>1
    <3> HIDE DEF S
    <3> QED BY <3>1, TakeWithin
  <2> QED BY <2>2, <1>1, WithinSame
<1>3. /\ BriefLive /\ totalPacketsToSend' = Blocks + 1
      /\ AcksBehind(toSender', Len(output)) /\ DataOfFile(toReceiver', Len(output))
  BY <1>1, <1>2, BriefBounds, AcksWithin, DataWithin DEF BriefLive
<1>4. CASE ReceiveAck(i)
  <2>1. Gone(sendingStack') <= Len(output) /\ lastSeqnumAcked' <= Len(output)
    BY <1>4, BriefAck
  <2>2. EndOfIteration(toSender[i].seqnum = LastAck /\ Len(sendingStack') = 1)
    BY <1>4 DEF ReceiveAck
  <2>3. senderPc' = "done" => Blocks <= Gone(sendingStack')
    BY <1>1, <2>1, <2>2, BriefLeaves
  <2> QED BY <1>1, <1>3, <2>1, <2>3, BriefSender
<1>5. CASE ReceiveNack(i) \/ ReceiveGarbage(i)
  <2>1. UNCHANGED <<sendingStack, lastSeqnumAcked>>
    BY <1>5 DEF ReceiveNack, ReceiveGarbage
  <2>2. Gone(sendingStack') <= Len(output)
    BY <1>3, <2>1 DEF BriefLive
  <2>3. \/ EndOfIteration(toSender[i].seqnum = LastAck /\ Len(sendingStack) = 1)
        \/ EndOfIteration(FALSE)
    BY <1>5 DEF ReceiveNack, ReceiveGarbage
  <2>4. Len(sendingStack') = Len(sendingStack)
    BY <2>1
  <2>5. senderPc' = "done" => Blocks <= Gone(sendingStack')
    BY <1>1, <2>2, <2>3, <2>4, BriefLeaves
  <2> QED BY <1>1, <1>2, <2>1, <2>5, BriefKept
<1> QED BY <1>4, <1>5 DEF process_response

-----------------------------------------------------------------------------
\* A step of the receiver, which leaves it running.
LEMMA BriefReceiver ==
  ASSUME BriefInv, receiverPc # "closed", TypeInv', UNCHANGED senderVars,
         refused' = refused, receiverPc' \in {"select", "drain"}, OutputInv',
         Len(output) <= Len(output'), AcksBehind(toSender', Len(output)),
         Within(toReceiver', toReceiver),
         BufferIn(receivingStack', Ranks, Len(output'), expectedSeqnum')
  PROVE  BriefInv'
<1>1. /\ BriefLive /\ Gone(sendingStack) \in Nat /\ Len(output) \in Nat
      /\ Gone(sendingStack) <= Len(output) /\ Len(output) <= Blocks
      /\ lastSeqnumAcked \in Nat
  BY BriefBounds, SeqNumAssumption DEF TypeInv, SenderInv, SeqNums
<1>2. /\ sendingStack' = sendingStack /\ lastSeqnumAcked' = lastSeqnumAcked
      /\ totalPacketsToSend' = totalPacketsToSend /\ senderPc' = senderPc
      /\ Gone(sendingStack') = Gone(sendingStack)
  BY DEF senderVars
<1>3. Len(output') \in Nat /\ Len(output') <= Blocks
  BY LenProperties DEF TypeInv, ReceiverInv, OutputInv
<1>4. AcksBehind(toSender', Len(output'))
  BY <1>1, <1>3, AcksMore DEF TypeInv, ToSenderInv
<1>5. DataOfFile(toReceiver', Len(output'))
  <2>1. DataOfFile(toReceiver', Len(output))
    BY <1>1, DataWithin DEF BriefLive
  <2>2. Len(output) = Blocks => Len(output') = Blocks
    BY <1>1, <1>3, SenderAssumption
  <2> QED BY <2>1, <2>2 DEF DataOfFile
<1>6. Gone(sendingStack) <= Len(output') /\ lastSeqnumAcked <= Len(output')
  BY <1>1, <1>3 DEF BriefLive
<1>7. BriefLive'
  BY <1>1, <1>2, <1>4, <1>5, <1>6 DEF BriefLive
<1>8. senderPc' = "done" => Len(output') = Blocks
  BY <1>1, <1>2, <1>3, SenderAssumption DEF BriefInv, SafeInv
<1> QED BY <1>7, <1>8 DEF BriefInv, Brief, SafeInv

\* It writes nothing.
LEMMA BriefWaits ==
  ASSUME BriefInv, receiverPc # "closed", TypeInv', UNCHANGED senderVars,
         refused' = refused, receiverPc' \in {"select", "drain"},
         UNCHANGED <<expectedSeqnum, output>>, AcksBehind(toSender', Len(output)),
         Within(toReceiver', toReceiver),
         BufferIn(receivingStack', Ranks, Len(output), expectedSeqnum)
  PROVE  BriefInv'
<1>1. OutputInv' /\ Len(output) <= Len(output')
  BY BriefBounds DEF OutputInv
<1> QED BY <1>1, BriefReceiver

\* It writes the next packet of the file.
LEMMA BriefWrites ==
  ASSUME BriefInv, receiverPc # "closed", TypeInv', UNCHANGED senderVars,
         refused' = refused, receiverPc' = "drain",
         expectedSeqnum' = Incr(expectedSeqnum), output' = Append(output, Len(output) + 1),
         Len(output) + 1 <= Blocks, AcksBehind(toSender', Len(output)),
         Within(toReceiver', toReceiver),
         BufferIn(receivingStack', Ranks, Len(output) + 1, expectedSeqnum')
  PROVE  BriefInv'
<1>1. OutputInv' /\ Len(output') = Len(output) + 1
  BY BriefBounds, OutputGrows
<1>2. Len(output) <= Len(output')
  BY <1>1, BriefBounds
<1> QED BY <1>1, <1>2, BriefReceiver

\* What it sends acknowledges what is written, or nothing.
LEMMA BriefReplies ==
  ASSUME BriefInv, receiverPc # "closed", NEW type \in {"ACK", "NACK"},
         NEW w \in 0 .. MAX_WINDOW_SIZE,
         \/ SendReplies(<<>>)
         \/ SendReplies(<<>> \o <<Reply(type, expectedSeqnum, w)>>)
         \/ SendReplies(<<Reply(type, expectedSeqnum, w)>>)
         \/ toSender' = Put(toSender, <<Reply(type, expectedSeqnum, w)>>)
  PROVE  AcksBehind(toSender', Len(output))
<1> DEFINE ack == Reply(type, expectedSeqnum, w)
           r == Len(output)
<1>1. /\ AcksBehind(toSender, r) /\ expectedSeqnum = r /\ r \in Nat
      /\ toSender \in Seq(Replies \cup {Damaged}) /\ expectedSeqnum \in SeqNums
  BY BriefBounds DEF BriefLive, TypeInv, ToSenderInv
<1>2. ack \in Replies \cup {Damaged} /\ ack.seqnum = r
  BY <1>1, ReplyType DEF Reply
<1>3. \/ SendReplies(<<>>) \/ SendReplies(<<ack>>)
      \/ toSender' = Put(toSender, <<ack>>)
  <2>1. <<>> \o <<ack>> = <<ack>>
    OBVIOUS
  <2> QED BY <2>1
<1> HIDE DEF ack, r
<1>4. Tail(<<ack>>) = <<>> /\ <<ack>> # <<>>
  OBVIOUS
<1>5. toSender' = Put(toSender, <<>>) \/ toSender' = Put(toSender, <<ack>>)
  BY <1>3, <1>4 DEF SendReplies
<1>6. AcksBehind(Put(toSender, <<>>), r)
  <2>1. <<>> \in Seq(Replies \cup {Damaged}) /\ AcksBehind(<<>>, r)
    BY EmptySeq DEF AcksBehind
  <2> QED BY <1>1, <2>1, AcksSent
<1>7. AcksBehind(Put(toSender, <<ack>>), r)
  <2>1. <<ack>> \in Seq(Replies \cup {Damaged}) /\ Len(<<ack>>) = 1 /\ <<ack>>[1] = ack
    BY <1>2
  <2>2. AcksBehind(<<ack>>, r)
    BY <1>1, <1>2, <2>1 DEF AcksBehind
  <2> QED BY <1>1, <2>1, <2>2, AcksSent
<1> QED BY <1>5, <1>6, <1>7 DEF r

LEMMA BriefSilence ==
  ASSUME BriefInv, receiverPc # "closed", SendReplies(<<>>)
  PROVE  AcksBehind(toSender', Len(output))
<1>1. \A w \in 0 .. MAX_WINDOW_SIZE : AcksBehind(toSender', Len(output))
  <2> SUFFICES ASSUME NEW w \in 0 .. MAX_WINDOW_SIZE
               PROVE  AcksBehind(toSender', Len(output))
    OBVIOUS
  <2>1. "ACK" \in {"ACK", "NACK"}
    OBVIOUS
  <2> QED BY <2>1, BriefReplies
<1>2. 0 \in 0 .. MAX_WINDOW_SIZE
  BY SeqNumAssumption
<1> QED BY <1>1, <1>2

\* The datagram that is read, whichever it is, is a packet of the file.
LEMMA BriefReads ==
  ASSUME BriefInv, receiverPc # "closed", NEW i \in 1 .. Len(toReceiver), Reads(i)
  PROVE  /\ Within(toReceiver', toReceiver) /\ receiverPc = "select"
         /\ refused' = refused
         /\ toReceiver[i].code = "PKT_OK" =>
              /\ toReceiver[i] \in Data /\ Genuine(toReceiver[i])
              /\ toReceiver[i].payload = NoPayload => Len(output) = Blocks
<1>1. toReceiver \in Seq(Data \cup {Damaged}) /\ DataOfFile(toReceiver, Len(output))
  BY BriefBounds DEF TypeInv, ToReceiverInv, BriefLive
<1>2. Within(Take(toReceiver, i), toReceiver)
  <2> DEFINE S == Data \cup {Damaged}
  <2>1. toReceiver \in Seq(S)
    BY <1>1
  <2> HIDE DEF S
  <2> QED BY <2>1, TakeWithin
<1>3. toReceiver[i].code = "PKT_OK" => toReceiver[i] # Damaged
  BY DEF Damaged
<1>4. toReceiver[i] \in Data \cup {Damaged}
  BY <1>1, ElementOfSeq
<1> QED BY <1>1, <1>2, <1>3, <1>4 DEF Reads, DataOfFile

\* The datagram is answered, or not, and goes nowhere.
LEMMA BriefAnswers ==
  ASSUME BriefInv, receiverPc # "closed", TypeInv', UNCHANGED senderVars,
         UNCHANGED receiverVars, refused' = refused,
         Within(toReceiver', toReceiver), receiverPc \in {"select", "drain"},
         AcksBehind(toSender', Len(output))
  PROVE  BriefInv'
<1>1. /\ UNCHANGED <<expectedSeqnum, output>> /\ receivingStack' = receivingStack
      /\ receiverPc' = receiverPc
  BY DEF receiverVars
<1>2. BufferIn(receivingStack, Ranks, Len(output), expectedSeqnum)
  BY BriefBounds DEF BriefLive
<1> QED BY <1>1, <1>2, BriefWaits

\* The awaited packet is the next one of the file.
LEMMA BriefOfExpected ==
  ASSUME BriefInv, receiverPc # "closed", TypeInv', UNCHANGED senderVars,
         NEW i \in 1 .. Len(toReceiver), Reads(i), toReceiver[i].code = "PKT_OK",
         ~IsLast(toReceiver[i]), AcceptExpected(toReceiver[i], <<>>)
  PROVE  BriefInv'
<1> DEFINE d == toReceiver[i]
           r == Len(output)
<1>1. /\ Within(toReceiver', toReceiver) /\ receiverPc = "select" /\ refused' = refused
      /\ d \in Data /\ Genuine(d)
  BY BriefReads
<1>2. /\ d.seqnum = expectedSeqnum /\ WriteOut(d) /\ expectedSeqnum' = Incr(expectedSeqnum)
      /\ receiverPc' = "drain" /\ SendReplies(<<>>) /\ receivingStack' = receivingStack
  BY DEF AcceptExpected
<1>3. /\ r \in Nat /\ expectedSeqnum = r /\ Brief
      /\ BufferIn(receivingStack, Ranks, r, expectedSeqnum)
  BY BriefBounds DEF BriefInv, BriefLive
<1>4. d.payload # NoPayload
  BY <1>1, <1>2 DEF IsLast, Data
<1>5. d.payload = r + 1 /\ r + 1 <= Blocks
  <2>1. d.seqnum = Rank(d) - 1 /\ Rank(d) = d.payload /\ d.payload \in 0 .. Blocks
    BY <1>1, <1>3, <1>4, NumberIs DEF Rank, Data
  <2> QED BY <1>2, <1>3, <2>1, SenderAssumption
<1>6. output' = Append(output, r + 1)
  BY <1>2, <1>3, <1>4, <1>5 DEF WriteOut, Written, Brief
<1>7. BufferIn(receivingStack', Ranks, r + 1, expectedSeqnum')
  BY <1>1, <1>2, <1>3, BufferAdvances DEF BriefInv, SafeInv, TypeInv
<1>8. AcksBehind(toSender', r)
  BY <1>2, BriefSilence
<1> QED BY <1>1, <1>2, <1>5, <1>6, <1>7, <1>8, BriefWrites

\* A packet accepted ahead of the awaited one is the one it is taken for, and
\* never the terminating one.
LEMMA BriefOfAhead ==
  ASSUME BriefInv, receiverPc # "closed", TypeInv', UNCHANGED senderVars,
         NEW i \in 1 .. Len(toReceiver), Reads(i), toReceiver[i].code = "PKT_OK",
         AcceptAhead(toReceiver[i], <<>>)
  PROVE  BriefInv'
<1> DEFINE d == toReceiver[i]
           r == Len(output)
           e == expectedSeqnum
<1>1. /\ Within(toReceiver', toReceiver) /\ receiverPc = "select" /\ refused' = refused
      /\ d \in Data /\ Genuine(d) /\ (d.payload = NoPayload => r = Blocks)
  BY BriefReads
<1>2. /\ d.seqnum # e /\ InWindow(e, d.seqnum)
      /\ ~is_in_stack(receivingStack, d.seqnum)
      /\ receivingStack' = stack_enqueue(receivingStack, d)
      /\ SendReplies(<<>> \o <<Reply("ACK", e, window')>>)
      /\ UNCHANGED <<receiverPc, expectedSeqnum, output>>
  BY DEF AcceptAhead
<1>3. /\ r \in Nat /\ r <= Blocks /\ e = r /\ e \in SeqNums /\ Brief
      /\ BufferIn(receivingStack, Ranks, r, e)
      /\ receivingStack \in Seq(Data) /\ Distinct(receivingStack)
  BY BriefBounds DEF BriefInv, BriefLive, TypeInv, ReceiverInv
<1>4. Rank(d) = r + 1 + Offset(e, d.seqnum) /\ Offset(e, d.seqnum) \in Nat \ {0}
  <2>1. Rank(d) = r + 1 + Offset(r, d.seqnum) /\ Offset(r, d.seqnum) \in Nat
    BY <1>1, <1>2, <1>3, BriefPlaced
  <2>2. Offset(e, d.seqnum) # 0
    BY <1>1, <1>2, <1>3, OffsetZero DEF Data
  <2> QED BY <1>3, <2>1, <2>2
<1>5. d.payload # NoPayload /\ Rank(d) \in Ranks
  <2>1. Rank(d) \in Ranks /\ Rank(d) \in Nat /\ Rank(d) <= Blocks + 1
    BY <1>1, RankType, SenderAssumption DEF Ranks
  <2>2. r # Blocks
    BY <1>3, <1>4, <2>1, SenderAssumption
  <2> QED BY <1>1, <2>1, <2>2
<1>6. Joins(d, receivingStack, receivingStack')
  BY <1>1, <1>2, <1>3, EnqueueJoins
<1>7. BufferIn(receivingStack', Ranks, r, e)
  BY <1>1, <1>3, <1>4, <1>5, <1>6, BufferJoined
<1>8. AcksBehind(toSender', r)
  <2>1. window' \in 0 .. MAX_WINDOW_SIZE
    BY LenProperties, SeqNumAssumption DEF TypeInv, ReceiverInv
  <2> QED BY <1>2, <2>1, BriefReplies
<1> QED BY <1>1, <1>2, <1>7, <1>8, BriefWaits

\* The terminating packet comes once everything before it is written.
LEMMA BriefOfLast ==
  ASSUME BriefInv, receiverPc # "closed", TypeInv', UNCHANGED senderVars,
         NEW i \in 1 .. Len(toReceiver), ReceiveLast(i)
  PROVE  BriefInv'
<1> DEFINE r == Len(output)
<1>1. /\ Reads(i) /\ toReceiver[i].code = "PKT_OK" /\ IsLast(toReceiver[i])
      /\ expectedSeqnum' = Incr(expectedSeqnum) /\ receiverPc' = "closed"
      /\ output' = output
  BY DEF ReceiveLast
<1>2. r = Blocks
  BY <1>1, BriefReads DEF IsLast
<1>3. r \in Nat /\ OutputInv /\ expectedSeqnum = r % SeqSpace
  <2>1. r \in Nat /\ OutputInv /\ r + 0 = r
    BY BriefBounds
  <2> QED BY <2>1 DEF OutputInv
<1>4. expectedSeqnum' = (r + 1) % SeqSpace
  BY <1>1, <1>3, IncrOfPosition
<1>5. OutputInv'
  BY <1>1, <1>2, <1>3, <1>4 DEF OutputInv
<1> QED BY <1>1, <1>2, <1>5 DEF BriefInv, Brief, SafeInv

\* A buffered packet that now follows is written.
LEMMA BriefOfDrain ==
  ASSUME BriefInv, receiverPc # "closed", TypeInv', UNCHANGED senderVars, Drain
  PROVE  BriefInv'
<1> DEFINE r == Len(output)
           e == expectedSeqnum
           p == FirstPosition(receivingStack, e)
           pkt == receivingStack[p]
<1>1. /\ receiverPc = "drain" /\ is_in_stack(receivingStack, e)
      /\ receivingStack' = stack_remove(receivingStack, e)
      /\ expectedSeqnum' = Incr(e) /\ WriteOut(pkt)
      /\ UNCHANGED <<receiverPc, toReceiver, toSender, refused>>
  BY DEF Drain, networkVars, stack_get_pkt
<1>2. /\ r \in Nat /\ BufferIn(receivingStack, Ranks, r, e) /\ ReceiverInv
      /\ AcksBehind(toSender, r) /\ Brief
  BY BriefBounds DEF BriefInv, BriefLive, TypeInv
<1>3. pkt.payload # NoPayload /\ pkt.payload = r + 1 /\ r + 1 <= Blocks
  BY <1>1, <1>2, BufferedIsNext
<1>4. output' = Append(output, r + 1)
  BY <1>1, <1>2, <1>3 DEF WriteOut, Written, Brief
<1>5. BufferIn(receivingStack', Ranks, r + 1, expectedSeqnum')
  BY <1>1, <1>2, BufferDrained
<1>6. AcksBehind(toSender', r) /\ Within(toReceiver', toReceiver)
  BY <1>1, <1>2, WithinSame
<1> QED BY <1>1, <1>3, <1>4, <1>5, <1>6, BriefWrites

LEMMA BriefOfData ==
  ASSUME BriefInv, receiverPc # "closed", TypeInv', UNCHANGED senderVars,
         NEW i \in 1 .. Len(toReceiver), ReceiveData(i)
  PROVE  BriefInv'
<1>1. /\ Reads(i) /\ toReceiver[i].code = "PKT_OK" /\ ~IsLast(toReceiver[i])
      /\ Accept(toReceiver[i], <<>>)
  BY DEF ReceiveData
<1>2. Within(toReceiver', toReceiver) /\ receiverPc = "select" /\ refused' = refused
  BY <1>1, BriefReads
<1>3. CASE AcceptExpected(toReceiver[i], <<>>)
  BY <1>1, <1>3, BriefOfExpected
<1>4. CASE AcceptAhead(toReceiver[i], <<>>)
  BY <1>1, <1>4, BriefOfAhead
<1>5. CASE AcceptAgain(toReceiver[i], <<>>)
  <2>1. SendReplies(<<>>) /\ UNCHANGED receiverVars
    BY <1>5 DEF AcceptAgain
  <2>2. AcksBehind(toSender', Len(output))
    BY <2>1, BriefSilence
  <2> QED BY <1>2, <2>1, <2>2, BriefAnswers
<1>6. CASE AcceptOutside(toReceiver[i], <<>>)
  <2>1. /\ SendReplies(<<>> \o <<Reply("ACK", expectedSeqnum, window)>>)
        /\ UNCHANGED receiverVars
    BY <1>6 DEF AcceptOutside
  <2>2. window \in 0 .. MAX_WINDOW_SIZE
    BY ReceivingIs DEF BriefInv, SafeInv, TypeInv
  <2>3. AcksBehind(toSender', Len(output))
    BY <2>1, <2>2, BriefReplies
  <2> QED BY <1>2, <2>1, <2>3, BriefAnswers
<1> QED BY <1>1, <1>3, <1>4, <1>5, <1>6 DEF Accept

LEMMA BriefOfReceive ==
  ASSUME BriefInv, receiverPc # "closed", TypeInv', UNCHANGED senderVars,
         NEW i \in 1 .. Len(toReceiver),
         \/ ReceiveLast(i) \/ ReceiveData(i)
         \/ ReceiveTruncated(i) \/ ReceiveDamaged(i)
  PROVE  BriefInv'
<1>1. CASE ReceiveTruncated(i)
  <2>1. toReceiver[i] \in Data /\ toReceiver[i].tr = 1
    BY <1>1, ReadsTypes DEF ReceiveTruncated, BriefInv, SafeInv, TypeInv
  <2>2. \A pkt \in Data : pkt.tr = 0
    BY DEF Data
  <2> QED BY <2>1, <2>2
<1>2. CASE ReceiveDamaged(i)
  <2>1. /\ Reads(i) /\ UNCHANGED receiverVars
        /\ SendReplies(<<Reply("NACK", expectedSeqnum, window)>>)
    BY <1>2 DEF ReceiveDamaged
  <2>2. Within(toReceiver', toReceiver) /\ receiverPc = "select" /\ refused' = refused
    BY <2>1, BriefReads
  <2>3. window \in 0 .. MAX_WINDOW_SIZE
    BY ReceivingIs DEF BriefInv, SafeInv, TypeInv
  <2>4. AcksBehind(toSender', Len(output))
    BY <2>1, <2>3, BriefReplies
  <2> QED BY <2>1, <2>2, <2>4, BriefAnswers
<1> QED BY <1>1, <1>2, BriefOfLast, BriefOfData

LEMMA BriefOfReceiver ==
  ASSUME BriefInv, receiverPc # "closed", TypeInv', UNCHANGED senderVars, ReceiverStep
  PROVE  BriefInv'
<1>1. /\ BufferIn(receivingStack, Ranks, Len(output), expectedSeqnum)
      /\ AcksBehind(toSender, Len(output)) /\ window \in 0 .. MAX_WINDOW_SIZE
  BY BriefBounds, ReceivingIs DEF BriefLive, TypeInv
<1>2. CASE Launch
  <2>1. /\ receiverPc' = "select" /\ refused' = refused /\ toSender' = toSender
        /\ toReceiver' = toReceiver /\ receivingStack' = receivingStack
        /\ UNCHANGED <<expectedSeqnum, output>>
    BY <1>2 DEF Launch, networkVars
  <2> QED BY <1>1, <2>1, WithinSame, BriefWaits
<1>3. CASE \E i \in 1 .. Len(toReceiver) :
             \/ ReceiveLast(i) \/ ReceiveData(i)
             \/ ReceiveTruncated(i) \/ ReceiveDamaged(i)
  BY <1>3, BriefOfReceive
<1>4. CASE ReceiveFails
  <2>1. /\ toSender' = Put(toSender, <<Reply("NACK", expectedSeqnum, window)>>)
        /\ receiverPc = "select" /\ refused' = refused
        /\ toReceiver' = toReceiver /\ UNCHANGED receiverVars
    BY <1>4 DEF ReceiveFails
  <2>2. AcksBehind(toSender', Len(output))
    BY <1>1, <2>1, BriefReplies
  <2> QED BY <2>1, <2>2, WithinSame, BriefAnswers
<1>5. CASE Drain
  BY <1>5, BriefOfDrain
<1>6. CASE Drained
  <2>1. /\ SendReplies(<<Reply("ACK", expectedSeqnum, window)>>) /\ receiverPc' = "select"
        /\ receivingStack' = receivingStack /\ toReceiver' = toReceiver
        /\ refused' = refused /\ UNCHANGED <<expectedSeqnum, output>>
    BY <1>6 DEF Drained
  <2>2. AcksBehind(toSender', Len(output))
    BY <1>1, <2>1, BriefReplies
  <2> QED BY <1>1, <2>1, <2>2, WithinSame, BriefWaits
<1> QED BY <1>2, <1>3, <1>4, <1>5, <1>6 DEF ReceiverStep

-----------------------------------------------------------------------------
LEMMA BriefOfSender ==
  ASSUME BriefInv, receiverPc # "closed", TypeInv', SenderStep, UNCHANGED receiverVars
  PROVE  BriefInv'
  BY BriefOfSkip, BriefOfSend, BriefOfFailure, BriefOfResponse DEF SenderStep

\* A step of the link, or of the host of a program that does not listen.
LEMMA BriefOfNetwork ==
  ASSUME BriefInv, receiverPc # "closed", TypeInv',
         NetworkMoves \/ Refuse \/ RefuseReply
  PROVE  BriefInv'
<1>0. /\ toReceiver \in Seq(Data \cup {Damaged}) /\ toSender \in Seq(Replies \cup {Damaged})
      /\ refused => Gone(sendingStack) = 0
      /\ Gone(sendingStack) \in Nat /\ Gone(sendingStack) <= Len(output)
      /\ TypeInv /\ OutputInv
  BY BriefBounds DEF TypeInv, ToReceiverInv, ToSenderInv, BriefLive
<1>1. /\ UNCHANGED receiverVars /\ senderPc' = senderPc
      /\ UNCHANGED <<sendingStack, lastSeqnumAcked, totalPacketsToSend>>
  BY DEF Refuse, RefuseReply, NetworkMoves, senderVars
<1>2. CASE Faulty(toReceiver, toReceiver') /\ UNCHANGED <<toSender, refused>>
  <2>1. Damaged \in Data \cup {Damaged}
    OBVIOUS
  <2>2. InOrder(toReceiver', toReceiver)
    BY <1>0, <1>2, <2>1, FaultyIs
  <2> QED BY <1>0, <1>1, <1>2, <2>2, InOrderWithin, WithinSame, BriefKept
<1>3. CASE Faulty(toSender, toSender') /\ UNCHANGED <<toReceiver, refused>>
  <2>1. Damaged \in Replies \cup {Damaged}
    OBVIOUS
  <2>2. InOrder(toSender', toSender)
    BY <1>0, <1>3, <2>1, FaultyIs
  <2> QED BY <1>0, <1>1, <1>3, <2>2, InOrderWithin, WithinSame, BriefKept
<1>4. CASE refused' = FALSE /\ UNCHANGED <<toReceiver, toSender>>
  BY <1>1, <1>4, WithinSame, BriefKept
<1>5. CASE Refuse
  <2>1. /\ receiverPc \notin {"select", "drain"} /\ toReceiver # <<>>
        /\ toReceiver' = Tail(toReceiver) /\ toSender' = toSender
    BY <1>5 DEF Refuse
  <2>2. receiverPc = "down"
    BY <1>0, <2>1 DEF TypeInv, ReceiverInv, ReceiverPcs
  <2>3. Len(output) = 0
    <3>1. output = <<>>
      BY <1>0, <2>2 DEF OutputInv
    <3> QED BY <3>1
  <2>4. Gone(sendingStack) = 0
    BY <1>0, <2>3
  <2>5. InOrder(toReceiver', toReceiver)
    BY <1>0, <2>1, InOrderTail
  <2> QED BY <1>1, <2>1, <2>4, <2>5, InOrderWithin, WithinSame, BriefKept
<1>6. CASE RefuseReply
  <2>1. /\ toSender # <<>> /\ toSender' = Tail(toSender)
        /\ toReceiver' = toReceiver /\ refused' = refused
    BY <1>6 DEF RefuseReply
  <2>2. InOrder(toSender', toSender)
    BY <1>0, <2>1, InOrderTail
  <2> QED BY <1>0, <1>1, <2>1, <2>2, InOrderWithin, WithinSame, BriefKept
<1> QED BY <1>2, <1>3, <1>4, <1>5, <1>6 DEF NetworkMoves, NetworkFault

\* The receiver has closed: the file stays written.
LEMMA BriefWhenClosed ==
  ASSUME BriefInv, receiverPc = "closed", TypeInv', [Next]_vars
  PROVE  BriefInv'
<1>1. UNCHANGED receiverVars
  <2>1. ~ReceiverStep
    BY DEF ReceiverStep, Launch, ReceiveLast, ReceiveData, ReceiveTruncated,
           ReceiveDamaged, Reads, ReceiveFails, Drain, Drained
  <2> QED
    BY <2>1 DEF Next, SenderMoves, TimerExpires, ReceiverMoves, Refuse, RefuseReply,
                NetworkMoves, Finished, vars
<1>2. receiverPc' = receiverPc /\ output' = output /\ OutputInv'
  BY <1>1 DEF BriefInv, SafeInv, OutputInv, receiverVars
<1>3. Len(output') = Blocks
  BY <1>2 DEF OutputInv
<1> QED BY <1>1, <1>2, <1>3 DEF BriefInv, SafeInv, Brief

LEMMA BriefInductive ==
  ASSUME BriefInv, [Next]_vars
  PROVE  BriefInv'
<1>0. TypeInv'
  BY TypesInductive DEF BriefInv, SafeInv
<1>1. CASE receiverPc = "closed"
  BY <1>0, <1>1, BriefWhenClosed
<1>2. CASE receiverPc # "closed"
  <2>1. CASE SenderMoves
    BY <1>0, <1>2, <2>1, BriefOfSender DEF SenderMoves
  <2>2. CASE \E k \in Timed : TimerExpires(k)
    BY <1>0, <1>2, <2>2, BriefOfExpire DEF TimerExpires
  <2>3. CASE ReceiverMoves
    BY <1>0, <1>2, <2>3, BriefOfReceiver DEF ReceiverMoves
  <2>4. CASE Refuse \/ RefuseReply \/ NetworkMoves
    BY <1>0, <1>2, <2>4, BriefOfNetwork
  <2>5. CASE UNCHANGED vars
    <3>1. /\ UNCHANGED receiverVars /\ senderPc' = senderPc
          /\ UNCHANGED <<sendingStack, lastSeqnumAcked, totalPacketsToSend>>
          /\ toSender' = toSender /\ toReceiver' = toReceiver /\ refused' = refused
      BY <2>5 DEF vars, networkVars, senderVars
    <3>2. refused => Gone(sendingStack) = 0
      BY <1>2, BriefBounds DEF BriefLive
    <3> QED BY <1>0, <1>2, <3>1, <3>2, WithinSame, BriefKept
  <2> QED BY <2>1, <2>2, <2>3, <2>4, <2>5 DEF Next, Finished
<1> QED BY <1>1, <1>2

\* A short file stays a beginning of itself in the output, and nothing leaves
\* the sender's stack that is not there, whatever overtakes what.
THEOREM BriefHolds == Brief /\ Spec => []BriefInv
<1>1. Brief /\ Init => BriefInv
  BY BriefOfInit
<1>2. BriefInv /\ [Next]_vars => BriefInv'
  BY BriefInductive
<1> QED BY <1>1, <1>2, PTL DEF Spec

-----------------------------------------------------------------------------
\* The sender of a short file (sender.c:145) ends successfully only when the
\* whole file is in the output, also when datagrams overtake each other.
THEOREM ShortFileSuccess == Brief /\ Spec => []SuccessIsDelivery
<1>1. BriefInv => SuccessIsDelivery
  BY WholeOutput DEF BriefInv, SafeInv, SuccessIsDelivery
<1> QED BY <1>1, BriefHolds, PTL

\* So does its receiver (read_write_loop_receiver.c:220).
THEOREM ShortFileReceived == Brief /\ Spec => []ReceivedSuccessfully
<1>1. BriefInv => ReceivedSuccessfully
  BY WholeOutput DEF BriefInv, SafeInv, OutputInv, ReceivedSuccessfully
<1> QED BY <1>1, BriefHolds, PTL

\* No ACK of a short file, however late, makes stack_remove_acked
\* (read_write_loop_sender.c:265-268) take a packet that is not written.
THEOREM ShortFileAcknowledged == Brief /\ Spec => []AcknowledgedIsWritten
<1>1. BriefInv => AcknowledgedIsWritten
  <2> SUFFICES ASSUME BriefInv PROVE AcknowledgedIsWritten
    OBVIOUS
  <2>1. CASE receiverPc = "closed"
    <3>1. Gone(sendingStack) \in Nat /\ Gone(sendingStack) <= Blocks + 1
      BY RestIs DEF BriefInv, SafeInv, TypeInv, SenderInv
    <3>2. Len(output) = Blocks
      BY <2>1 DEF BriefInv, SafeInv, OutputInv
    <3>3. Acknowledged = Gone(sendingStack)
      BY DEF Acknowledged, Gone
    <3> HIDE DEF Gone
    <3> QED BY <2>1, <3>1, <3>2, <3>3 DEF AcknowledgedIsWritten
  <2>2. CASE receiverPc # "closed"
    <3>1. Gone(sendingStack) <= Len(output) /\ Len(output) \in Nat
      BY <2>2, BriefBounds
    <3>2. Acknowledged = Gone(sendingStack) /\ Len(output) + 0 = Len(output)
      BY <3>1 DEF Acknowledged, Gone
    <3> QED BY <2>2, <3>1, <3>2 DEF AcknowledgedIsWritten
  <2> QED BY <2>1, <2>2
<1> QED BY <1>1, BriefHolds, PTL

\* The terminating packet of a short file never overtakes what it terminates,
\* though the link lets it overtake: it is transmitted after all the rest is
\* acknowledged (read_write_loop_sender.c:105-113).
THEOREM ShortFileLast == Brief /\ Spec => []LastComesLast
<1>1. BriefInv => LastComesLast
  <2> SUFFICES ASSUME BriefInv, NEW i \in 1 .. Len(toReceiver),
                      toReceiver[i] # Damaged, toReceiver[i].payload = NoPayload
               PROVE  Len(output) = Blocks
    BY DEF LastComesLast
  <2>1. CASE receiverPc = "closed"
    BY <2>1 DEF BriefInv, SafeInv, OutputInv
  <2>2. CASE receiverPc # "closed"
    BY <2>2, BriefBounds DEF BriefLive, DataOfFile
  <2> QED BY <2>1, <2>2
<1> QED BY <1>1, BriefHolds, PTL

\* The numbers of a short file are not mistaken either, however late a
\* datagram is (isInRange, read_write_loop_receiver.c:150-196).
THEOREM ShortFileTold == Brief /\ Spec => []NoLapMistaken
<1>1. BriefInv => NoLapMistaken
  <2> SUFFICES ASSUME BriefInv, receiverPc \in {"select", "drain"},
                      NEW pkt \in Range(toReceiver) \cup Range(receivingStack),
                      pkt # Damaged, InWindow(expectedSeqnum, pkt.seqnum)
               PROVE  Rank(pkt) = Len(output) + 1 + Offset(expectedSeqnum, pkt.seqnum)
    BY DEF NoLapMistaken
  <2>1. /\ Len(output) \in Nat /\ Len(output) <= Blocks /\ expectedSeqnum = Len(output)
        /\ DataOfFile(toReceiver, Len(output)) /\ Brief
        /\ BufferIn(receivingStack, Ranks, Len(output), expectedSeqnum)
        /\ toReceiver \in Seq(Data \cup {Damaged}) /\ receivingStack \in Seq(Data)
    BY BriefBounds DEF BriefInv, BriefLive, TypeInv, ToReceiverInv, ReceiverInv
  <2>2. /\ DOMAIN toReceiver = 1 .. Len(toReceiver)
        /\ DOMAIN receivingStack = 1 .. Len(receivingStack)
    BY <2>1, LenProperties
  <2>3. CASE pkt \in Range(toReceiver)
    <3>1. PICK i \in 1 .. Len(toReceiver) : pkt = toReceiver[i]
      BY <2>2, <2>3 DEF Range
    <3>2. pkt \in Data /\ Genuine(pkt)
      BY <2>1, <3>1, ElementOfSeq DEF DataOfFile
    <3> QED BY <2>1, <3>2, BriefPlaced
  <2>4. CASE pkt \in Range(receivingStack)
    <3>1. PICK n \in 1 .. Len(receivingStack) : pkt = receivingStack[n]
      BY <2>2, <2>4 DEF Range
    <3> QED BY <2>1, <3>1 DEF BufferIn
  <2> QED BY <2>3, <2>4
<1> QED BY <1>1, BriefHolds, PTL

\* Over a link that lets datagrams overtake each other the two programs
\* implement a reliable transfer of a short file.
THEOREM ShortFileIsReliable == Brief /\ Spec => ImplementsReliableTransfer
<1>1. SafeInv /\ SafeInv' /\ [Next]_vars =>
        [Promise!Next]_<<output, receiverPc = "closed", senderPc = "done">>
  BY StepImplements
<1>2. BriefInv => SafeInv
  BY DEF BriefInv
<1> QED
  BY <1>1, <1>2, InitImplements, BriefHolds, PTL
  DEF Spec, ImplementsReliableTransfer, Promise!Spec

=============================================================================
