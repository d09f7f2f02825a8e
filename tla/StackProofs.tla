---------------------------- MODULE StackProofs -----------------------------
(***************************************************************************)
(* Facts about the operators of SeqNum, Stack and Network, for every size  *)
(* of the sequence number space, every content of a buffer and every       *)
(* capacity of the link.                                                   *)
(***************************************************************************)
EXTENDS Stack, Network, TLAPS, SequenceTheorems, NaturalsInduction, WellFoundedInduction,
        FiniteSetTheorems

\* The increment wraps exactly at the last sequence number.
LEMMA IncrIs ==
  ASSUME NEW s \in SeqNums
  PROVE  Incr(s) = IF s + 1 = SeqSpace THEN 0 ELSE s + 1
<1>1. CASE s + 1 = SeqSpace
  <2>1. (s + 1) % SeqSpace = 0
    BY <1>1, SeqNumAssumption DEF SeqNums
  <2> QED BY <2>1, <1>1 DEF Incr
<1>2. CASE s + 1 < SeqSpace
  <2>1. (s + 1) % SeqSpace = s + 1
    BY <1>2, SeqNumAssumption DEF SeqNums
  <2> QED BY <2>1, <1>2, SeqNumAssumption DEF Incr, SeqNums
<1> QED BY <1>1, <1>2, SeqNumAssumption DEF SeqNums

LEMMA IncrType == \A s \in SeqNums : Incr(s) \in SeqNums
  BY IncrIs, SeqNumAssumption DEF SeqNums

LEMMA OffsetType ==
  ASSUME NEW from \in SeqNums, NEW s \in SeqNums
  PROVE  Offset(from, s) \in SeqNums
  BY SeqNumAssumption DEF SeqNums, Offset

\* Two numbers at the same distance are the same number.
LEMMA OffsetInjective ==
  ASSUME NEW from \in SeqNums, NEW s \in SeqNums, NEW t \in SeqNums,
         Offset(from, s) = Offset(from, t)
  PROVE  s = t
  BY SeqNumAssumption DEF SeqNums, Offset

LEMMA OffsetZero ==
  ASSUME NEW from \in SeqNums, NEW s \in SeqNums
  PROVE  Offset(from, s) = 0 <=> s = from
  BY SeqNumAssumption DEF SeqNums, Offset

\* When the awaited number advances, what was ahead of it is one step nearer.
LEMMA OffsetOfIncr ==
  ASSUME NEW from \in SeqNums, NEW s \in SeqNums, s # from
  PROVE  Offset(Incr(from), s) = Offset(from, s) - 1
  BY IncrIs, SeqNumAssumption DEF SeqNums, Offset

LEMMA DecrIs ==
  ASSUME NEW s \in SeqNums
  PROVE  Decr(s) = IF s = 0 THEN SeqSpace - 1 ELSE s - 1
<1>1. CASE s = 0
  <2>1. (-1) % SeqSpace = SeqSpace - 1
    BY SeqNumAssumption
  <2> QED BY <2>1, <1>1 DEF Decr
<1>2. CASE s # 0
  <2>1. (s - 1) % SeqSpace = s - 1
    BY <1>2, SeqNumAssumption DEF SeqNums
  <2> QED BY <2>1, <1>2 DEF Decr
<1> QED BY <1>1, <1>2

\* The number before s is one step nearer; before the base it is the farthest.
LEMMA OffsetOfDecr ==
  ASSUME NEW from \in SeqNums, NEW s \in SeqNums
  PROVE  /\ Decr(s) \in SeqNums
         /\ Offset(from, Decr(s)) = IF s = from THEN SeqSpace - 1 ELSE Offset(from, s) - 1
  BY DecrIs, SeqNumAssumption DEF SeqNums, Offset

\* The distance the other way round.
LEMMA OffsetBack ==
  ASSUME NEW s \in SeqNums, NEW t \in SeqNums, s # t
  PROVE  Offset(t, s) = SeqSpace - Offset(s, t)
  BY SeqNumAssumption DEF SeqNums, Offset

\* From a number on the way the distance is shorter by what is done of it.
LEMMA OffsetBetween ==
  ASSUME NEW from \in SeqNums, NEW s \in SeqNums, NEW t \in SeqNums,
         Offset(from, s) <= Offset(from, t)
  PROVE  Offset(s, t) = Offset(from, t) - Offset(from, s)
  BY SeqNumAssumption DEF SeqNums, Offset

-----------------------------------------------------------------------------
\* The remainder of a position in the file by the number of sequence numbers.
LEMMA Remainder ==
  ASSUME NEW n \in Nat
  PROVE  \E q \in Nat : n = SeqSpace * q + (n % SeqSpace) /\ n % SeqSpace \in SeqNums
<1> DEFINE q == n \div SeqSpace
           r == n - q * SeqSpace
<1>1. SeqSpace \in Nat \ {0}
  BY SeqNumAssumption
<1>2. q \in Int /\ q * SeqSpace <= n /\ n < q * SeqSpace + SeqSpace
  BY <1>1
<1>3. q * SeqSpace \in Int /\ q * SeqSpace = SeqSpace * q
  BY <1>1, <1>2
<1> HIDE DEF q
<1>4. r \in 0 .. SeqSpace - 1 /\ n = SeqSpace * q + r
  BY <1>1, <1>2, <1>3
<1>5. q \in Nat
  <2>1. SUFFICES ASSUME q <= -1 PROVE FALSE
    BY <1>2
  <2> DEFINE t == -q - 1
  <2>2. t \in Nat /\ q = -t - 1
    BY <2>1, <1>2
  <2> HIDE DEF t
  <2>3. t * SeqSpace \in Nat /\ (-t - 1) * SeqSpace = -(t * SeqSpace) - SeqSpace
    BY <2>2, <1>1
  <2> QED BY <2>2, <2>3, <1>1, <1>2, <1>3
<1> HIDE DEF r
<1>6. (SeqSpace * q + r) % SeqSpace = r
  BY <1>1, <1>4, <1>5
<1>7. n % SeqSpace = r
  BY <1>4, <1>6
<1>8. n = SeqSpace * q + (n % SeqSpace) /\ n % SeqSpace \in SeqNums
  BY <1>4, <1>7 DEF SeqNums
<1> QED BY <1>5, <1>8

\* Multiples of the number of sequence numbers are that far apart.
LEMMA LapsApart ==
  ASSUME NEW q \in Nat, NEW p \in Nat, q < p
  PROVE  SeqSpace * q + SeqSpace <= SeqSpace * p
<1>1. SeqSpace \in Nat \ {0}
  BY SeqNumAssumption
<1>2. q + 1 <= p
  OBVIOUS
<1>3. SeqSpace * (q + 1) <= SeqSpace * p
  BY <1>1, <1>2
<1>4. SeqSpace * (q + 1) = SeqSpace * q + SeqSpace
  BY <1>1
<1> QED BY <1>3, <1>4

\* The distance of the numbers of two positions less than a lap apart is that
\* of the positions.
LEMMA OffsetOfPositions ==
  ASSUME NEW a \in Nat, NEW b \in Nat, a <= b, b < a + SeqSpace
  PROVE  Offset(a % SeqSpace, b % SeqSpace) = b - a
<1>1. PICK p \in Nat : a = SeqSpace * p + (a % SeqSpace) /\ a % SeqSpace \in SeqNums
  BY Remainder
<1>2. PICK q \in Nat : b = SeqSpace * q + (b % SeqSpace) /\ b % SeqSpace \in SeqNums
  BY Remainder
<1> DEFINE x == SeqSpace * p
           y == SeqSpace * q
           r == a % SeqSpace
           s == b % SeqSpace
<1>3. x \in Int /\ y \in Int /\ SeqSpace \in Nat \ {0}
  BY SeqNumAssumption
<1>5. q < p => y + SeqSpace <= x
  BY LapsApart
<1>6. p < q => x + SeqSpace <= y
  BY LapsApart
<1>7. p + 1 < q => x + SeqSpace + SeqSpace <= y
  <2>1. SUFFICES ASSUME p + 1 < q PROVE x + SeqSpace + SeqSpace <= y
    OBVIOUS
  <2>2. SeqSpace * (p + 1) + SeqSpace <= y
    BY <2>1, LapsApart
  <2>3. SeqSpace * (p + 1) = x + SeqSpace
    BY <1>3
  <2> QED BY <2>2, <2>3
<1>8. q = p => x = y
  OBVIOUS
<1>9. q = p + 1 => y = x + SeqSpace
  BY <1>3
<1> HIDE DEF x, y, r, s
<1>4. a = x + r /\ b = y + s /\ r \in SeqNums /\ s \in SeqNums
  BY <1>1, <1>2 DEF x, y, r, s
<1>10. q = p \/ q = p + 1
  BY <1>3, <1>4, <1>5, <1>7 DEF SeqNums
<1>11. Offset(r, s) = b - a
  BY <1>3, <1>4, <1>8, <1>9, <1>10 DEF SeqNums, Offset
<1> QED BY <1>11 DEF r, s

\* The number after that of a position is that of the next position.
LEMMA IncrOfPosition ==
  ASSUME NEW n \in Nat
  PROVE  Incr(n % SeqSpace) = (n + 1) % SeqSpace
<1>1. n % SeqSpace \in SeqNums /\ (n + 1) % SeqSpace \in SeqNums
  BY Remainder
<1>2. SeqSpace \in Nat \ {0}
  BY SeqNumAssumption
<1>3. CASE SeqSpace = 1
  BY <1>1, <1>3, IncrType DEF SeqNums
<1>4. CASE SeqSpace > 1
  <2>1. Offset(n % SeqSpace, (n + 1) % SeqSpace) = 1
    <3>1. n + 1 \in Nat /\ n <= n + 1 /\ n + 1 < n + SeqSpace /\ n + 1 - n = 1
      BY <1>2, <1>4
    <3>2. Offset(n % SeqSpace, (n + 1) % SeqSpace) = n + 1 - n
      BY <3>1, OffsetOfPositions
    <3> QED BY <3>1, <3>2
  <2> DEFINE r == n % SeqSpace
             s == (n + 1) % SeqSpace
  <2> HIDE DEF r, s
  <2>2. Offset(r, s) = 1 /\ r \in SeqNums /\ s \in SeqNums
    BY <1>1, <2>1 DEF r, s
  <2>3. Incr(r) = s
    BY <1>2, <1>4, <2>2, IncrIs DEF Offset, SeqNums
  <2> QED BY <2>3 DEF r, s
<1> QED BY <1>2, <1>3, <1>4

\* A lap further the number is the same.
LEMMA NextLap ==
  ASSUME NEW n \in Nat
  PROVE  (n + SeqSpace) % SeqSpace = n % SeqSpace
<1> DEFINE r == n % SeqSpace
<1>1. PICK q \in Nat : n = SeqSpace * q + r /\ r \in SeqNums
  BY Remainder
<1> HIDE DEF r
<1>2. r \in Nat /\ r < SeqSpace /\ SeqSpace \in Nat \ {0}
  BY <1>1, SeqNumAssumption DEF SeqNums
<1>3. PICK m \in Nat : m = q + 1
  BY <1>1
<1>4. n + SeqSpace = SeqSpace * m + r
  BY <1>1, <1>2, <1>3
<1>5. (SeqSpace * m + r) % SeqSpace = r
  BY <1>2, <1>3
<1> QED BY <1>4, <1>5 DEF r

-----------------------------------------------------------------------------
\* A non-empty set of naturals has a least element.
LEMMA Least ==
  ASSUME NEW T \in SUBSET Nat, T # {}
  PROVE  \E x \in T : \A y \in T : x <= y
<1>1. IsWellFoundedOn(OpToRel(<, Nat), Nat)
  BY NatLessThanWellFounded
<1>2. PICK x \in T : \A y \in T : ~(<<y, x>> \in OpToRel(<, Nat))
  BY <1>1, WFMin
<1>3. \A y \in T : ~(y < x)
  BY <1>2 DEF OpToRel
<1> QED BY <1>3

\* So has a non-empty set of naturals that has a bound a greatest one.
LEMMA Greatest ==
  ASSUME NEW T \in SUBSET Nat, T # {}, NEW n \in Nat, \A x \in T : x <= n
  PROVE  \E x \in T : \A y \in T : y <= x
<1> DEFINE D == {d \in Nat : n - d \in T}
<1>1. PICK z \in T : TRUE
  OBVIOUS
<1>2. n - z \in D
  BY <1>1
<1>3. PICK d \in D : \A e \in D : d <= e
  BY <1>2, Least
<1>4. ASSUME NEW y \in T
      PROVE  y <= n - d
  <2>1. n - y \in Nat /\ n - (n - y) = y
    OBVIOUS
  <2>2. n - y \in D
    BY <2>1
  <2>3. d <= n - y
    BY <1>3, <2>2
  <2> QED BY <2>1, <2>3
<1> QED BY <1>4

\* Induction: what holds of 0, and of a number as soon as it holds of the one
\* before, holds up to n.
LEMMA UpTo ==
  ASSUME NEW n \in Nat, NEW T, 0 \in T, \A k \in 1 .. n : k - 1 \in T => k \in T
  PROVE  0 .. n \subseteq T
<1> DEFINE bad == {k \in 0 .. n : k \notin T}
<1>1. SUFFICES ASSUME bad # {} PROVE FALSE
  OBVIOUS
<1>2. bad \in SUBSET Nat
  OBVIOUS
<1>3. PICK k \in bad : \A j \in bad : k <= j
  BY <1>1, <1>2, Least
<1>4. k \in 1 .. n /\ k - 1 \in 0 .. n
  BY <1>3
<1>5. k - 1 \in T
  BY <1>3, <1>4
<1> QED BY <1>3, <1>4, <1>5

-----------------------------------------------------------------------------
\* Every look-up by number finds the first packet that carries it.
LEMMA FirstPositionIs ==
  ASSUME NEW stack, Len(stack) \in Nat, NEW s, is_in_stack(stack, s)
  PROVE  /\ FirstPosition(stack, s) \in 1 .. Len(stack)
         /\ stack[FirstPosition(stack, s)].seqnum = s
         /\ \A j \in 1 .. Len(stack) : stack[j].seqnum = s => FirstPosition(stack, s) <= j
<1>1. Positions(stack, s) \in SUBSET Nat /\ Positions(stack, s) # {}
  BY DEF Positions, is_in_stack
<1>2. \E i \in Positions(stack, s) : \A j \in Positions(stack, s) : i <= j
  BY <1>1, Least
<1>3. /\ FirstPosition(stack, s) \in Positions(stack, s)
      /\ \A j \in Positions(stack, s) : FirstPosition(stack, s) <= j
  BY <1>2 DEF FirstPosition
<1> QED BY <1>3 DEF Positions

\* The walk of stack_enqueue always ends on a node of the stack.
LEMMA EnqueueAfterIs ==
  ASSUME NEW stack, Len(stack) \in Nat \ {0}, NEW s
  PROVE  /\ EnqueueAfter(stack, s) \in 1 .. Len(stack)
         /\ EnqueueAfter(stack, s) = 1 \/ ~Passes(s, stack[EnqueueAfter(stack, s)])
         /\ \A j \in EnqueueAfter(stack, s) + 1 .. Len(stack) : Passes(s, stack[j])
<1> DEFINE Stops == {i \in 1 .. Len(stack) : i = 1 \/ ~Passes(s, stack[i])}
<1>1. 1 \in Stops /\ Stops \in SUBSET Nat /\ \A i \in Stops : i <= Len(stack)
  OBVIOUS
<1>2. PICK i \in Stops : \A j \in Stops : j <= i
  BY <1>1, Greatest
<1>3. \A j \in i + 1 .. Len(stack) : Passes(s, stack[j])
  BY <1>1, <1>2
<1>4. \E k \in 1 .. Len(stack) :
        /\ k = 1 \/ ~Passes(s, stack[k])
        /\ \A j \in k + 1 .. Len(stack) : Passes(s, stack[j])
  BY <1>2, <1>3
<1> QED BY <1>4 DEF EnqueueAfter

LEMMA RemoveAtIs ==
  ASSUME NEW S, NEW seq \in Seq(S), NEW p \in 1 .. Len(seq)
  PROVE  /\ RemoveAt(seq, p) \in Seq(S)
         /\ Len(RemoveAt(seq, p)) = Len(seq) - 1
         /\ \A i \in 1 .. Len(seq) - 1 :
              RemoveAt(seq, p)[i] = IF i < p THEN seq[i] ELSE seq[i + 1]
<1> DEFINE before == SubSeq(seq, 1, p - 1)
           after == SubSeq(seq, p + 1, Len(seq))
<1>0. Len(seq) \in Nat /\ \A i \in 1 .. Len(seq) : seq[i] \in S
  BY LenProperties, ElementOfSeq
<1>1. /\ before \in Seq(S) /\ Len(before) = p - 1
      /\ \A i \in 1 .. p - 1 : before[i] = seq[i]
  <2>1. \A i \in 1 .. p - 1 : seq[i] \in S
    BY <1>0
  <2>2. /\ SubSeq(seq, 1, p - 1) \in Seq(S)
        /\ Len(SubSeq(seq, 1, p - 1)) = IF 1 <= p - 1 THEN (p - 1) - 1 + 1 ELSE 0
        /\ \A i \in 1 .. (p - 1) - 1 + 1 : SubSeq(seq, 1, p - 1)[i] = seq[1 + i - 1]
    BY <2>1, <1>0, SubSeqProperties
  <2> QED BY <2>2, <1>0
<1>2. /\ after \in Seq(S) /\ Len(after) = Len(seq) - p
      /\ \A i \in 1 .. Len(seq) - p : after[i] = seq[p + i]
  <2>1. \A i \in p + 1 .. Len(seq) : seq[i] \in S
    BY <1>0
  <2>2. /\ SubSeq(seq, p + 1, Len(seq)) \in Seq(S)
        /\ Len(SubSeq(seq, p + 1, Len(seq)))
             = IF p + 1 <= Len(seq) THEN Len(seq) - (p + 1) + 1 ELSE 0
        /\ \A i \in 1 .. Len(seq) - (p + 1) + 1 :
             SubSeq(seq, p + 1, Len(seq))[i] = seq[(p + 1) + i - 1]
    BY <2>1, <1>0, SubSeqProperties
  <2> QED BY <2>2, <1>0
<1> HIDE DEF before, after
<1>3. /\ before \o after \in Seq(S)
      /\ Len(before \o after) = Len(before) + Len(after)
      /\ \A i \in 1 .. Len(before) + Len(after) :
           (before \o after)[i] =
             IF i <= Len(before) THEN before[i] ELSE after[i - Len(before)]
  BY <1>1, <1>2, ConcatProperties
<1>4. RemoveAt(seq, p) = before \o after
  BY DEF RemoveAt, before, after
<1>5. ASSUME NEW i \in 1 .. Len(seq) - 1
      PROVE  (before \o after)[i] = IF i < p THEN seq[i] ELSE seq[i + 1]
  <2>1. CASE i < p
    BY <2>1, <1>0, <1>1, <1>2, <1>3
  <2>2. CASE ~(i < p)
    <3>1. (before \o after)[i] = after[i - (p - 1)]
      BY <2>2, <1>0, <1>1, <1>2, <1>3
    <3>2. i - (p - 1) \in 1 .. Len(seq) - p /\ p + (i - (p - 1)) = i + 1
      BY <2>2, <1>0
    <3> QED BY <3>1, <3>2, <2>2, <1>2
  <2> QED BY <2>1, <2>2
<1>6. Len(before \o after) = Len(seq) - 1
  BY <1>0, <1>1, <1>2, <1>3
<1> QED BY <1>3, <1>4, <1>5, <1>6

LEMMA InsertAtIs ==
  ASSUME NEW S, NEW seq \in Seq(S), NEW p \in 1 .. Len(seq) + 1, NEW e \in S
  PROVE  /\ InsertAt(seq, p, e) \in Seq(S)
         /\ Len(InsertAt(seq, p, e)) = Len(seq) + 1
         /\ \A i \in 1 .. Len(seq) + 1 :
              InsertAt(seq, p, e)[i] =
                IF i < p THEN seq[i] ELSE IF i = p THEN e ELSE seq[i - 1]
<1> DEFINE before == SubSeq(seq, 1, p - 1)
           after == SubSeq(seq, p, Len(seq))
           upto == before \o <<e>>
<1>0. Len(seq) \in Nat /\ \A i \in 1 .. Len(seq) : seq[i] \in S
  BY LenProperties, ElementOfSeq
<1>1. /\ before \in Seq(S) /\ Len(before) = p - 1
      /\ \A i \in 1 .. p - 1 : before[i] = seq[i]
  <2>1. \A i \in 1 .. p - 1 : seq[i] \in S
    BY <1>0
  <2>2. /\ SubSeq(seq, 1, p - 1) \in Seq(S)
        /\ Len(SubSeq(seq, 1, p - 1)) = IF 1 <= p - 1 THEN (p - 1) - 1 + 1 ELSE 0
        /\ \A i \in 1 .. (p - 1) - 1 + 1 : SubSeq(seq, 1, p - 1)[i] = seq[1 + i - 1]
    BY <2>1, <1>0, SubSeqProperties
  <2> QED BY <2>2, <1>0
<1>2. /\ after \in Seq(S) /\ Len(after) = Len(seq) - p + 1
      /\ \A i \in 1 .. Len(seq) - p + 1 : after[i] = seq[p + i - 1]
  <2>1. \A i \in p .. Len(seq) : seq[i] \in S
    BY <1>0
  <2>2. /\ SubSeq(seq, p, Len(seq)) \in Seq(S)
        /\ Len(SubSeq(seq, p, Len(seq)))
             = IF p <= Len(seq) THEN Len(seq) - p + 1 ELSE 0
        /\ \A i \in 1 .. Len(seq) - p + 1 :
             SubSeq(seq, p, Len(seq))[i] = seq[p + i - 1]
    BY <2>1, <1>0, SubSeqProperties
  <2> QED BY <2>2, <1>0
<1> HIDE DEF before, after
<1>3. /\ upto \in Seq(S) /\ Len(upto) = p
      /\ \A i \in 1 .. p - 1 : upto[i] = seq[i]
      /\ upto[p] = e
  <2>1. <<e>> \in Seq(S) /\ Len(<<e>>) = 1 /\ <<e>>[1] = e
    OBVIOUS
  <2>2. /\ upto \in Seq(S)
        /\ Len(upto) = Len(before) + Len(<<e>>)
        /\ \A i \in 1 .. Len(before) + Len(<<e>>) :
             upto[i] = IF i <= Len(before) THEN before[i] ELSE <<e>>[i - Len(before)]
    BY <1>1, <2>1, ConcatProperties
  <2> QED BY <1>0, <1>1, <2>1, <2>2
<1> HIDE DEF upto
<1> DEFINE all == upto \o after
<1>4. /\ all \in Seq(S)
      /\ Len(all) = Len(upto) + Len(after)
      /\ \A i \in 1 .. Len(upto) + Len(after) :
           all[i] = IF i <= Len(upto) THEN upto[i] ELSE after[i - Len(upto)]
  BY <1>2, <1>3, ConcatProperties
<1>5. InsertAt(seq, p, e) = all
  BY DEF InsertAt, before, after, upto
<1> HIDE DEF all
<1>6. ASSUME NEW i \in 1 .. Len(seq) + 1
      PROVE  all[i] = IF i < p THEN seq[i] ELSE IF i = p THEN e ELSE seq[i - 1]
  <2>1. all[i] = IF i <= p THEN upto[i] ELSE after[i - p]
    BY <1>0, <1>2, <1>3, <1>4
  <2>2. CASE i < p
    BY <2>1, <2>2, <1>0, <1>3
  <2>3. CASE i = p
    BY <2>1, <2>3, <1>0, <1>3
  <2>4. CASE i > p
    <3>1. i - p \in 1 .. Len(seq) - p + 1 /\ p + (i - p) - 1 = i - 1
      BY <2>4, <1>0
    <3> QED BY <3>1, <2>1, <2>4, <1>0, <1>2
  <2> QED BY <1>0, <2>2, <2>3, <2>4
<1>7. Len(all) = Len(seq) + 1
  BY <1>0, <1>2, <1>3, <1>4
<1> QED BY <1>4, <1>5, <1>6, <1>7

-----------------------------------------------------------------------------
\* stack_enqueue puts the packet somewhere and moves those behind it.
LEMMA EnqueueIs ==
  ASSUME NEW S, NEW stack \in Seq(S), NEW pkt \in S
  PROVE  /\ stack_enqueue(stack, pkt) \in Seq(S)
         /\ Len(stack_enqueue(stack, pkt)) = Len(stack) + 1
         /\ \E p \in 1 .. Len(stack) + 1 :
              \A i \in 1 .. Len(stack) + 1 :
                stack_enqueue(stack, pkt)[i] =
                  IF i < p THEN stack[i] ELSE IF i = p THEN pkt ELSE stack[i - 1]
<1>0. Len(stack) \in Nat
  BY LenProperties
<1>1. CASE stack = <<>>
  <2>1. stack_enqueue(stack, pkt) = <<pkt>> /\ Len(stack) = 0
    BY <1>1 DEF stack_enqueue
  <2> QED BY <2>1
<1>2. CASE stack # <<>>
  <2>1. Len(stack) \in Nat \ {0}
    BY <1>2, EmptySeq
  <2>2. PICK p \in 1 .. Len(stack) + 1 : p = EnqueueAfter(stack, pkt.seqnum) + 1
    BY <2>1, EnqueueAfterIs
  <2>3. stack_enqueue(stack, pkt) = InsertAt(stack, p, pkt)
    BY <1>2, <2>2 DEF stack_enqueue
  <2>4. /\ InsertAt(stack, p, pkt) \in Seq(S)
        /\ Len(InsertAt(stack, p, pkt)) = Len(stack) + 1
        /\ \A i \in 1 .. Len(stack) + 1 :
             InsertAt(stack, p, pkt)[i] =
               IF i < p THEN stack[i] ELSE IF i = p THEN pkt ELSE stack[i - 1]
    BY <2>2, InsertAtIs
  <2>5. \A i \in 1 .. Len(stack) + 1 :
          stack_enqueue(stack, pkt)[i] =
            IF i < p THEN stack[i] ELSE IF i = p THEN pkt ELSE stack[i - 1]
    BY <2>3, <2>4
  <2>6. /\ stack_enqueue(stack, pkt) \in Seq(S)
        /\ Len(stack_enqueue(stack, pkt)) = Len(stack) + 1
    BY <2>3, <2>4
  <2> QED BY <2>5, <2>6
<1> QED BY <1>1, <1>2

\* stack_remove takes one packet out, of the number asked for.
LEMMA RemoveIs ==
  ASSUME NEW S, NEW stack \in Seq(S), NEW s, is_in_stack(stack, s)
  PROVE  /\ stack_remove(stack, s) \in Seq(S)
         /\ Len(stack_remove(stack, s)) = Len(stack) - 1
         /\ \E p \in 1 .. Len(stack) :
              /\ stack[p].seqnum = s
              /\ stack_get_pkt(stack, s) = stack[p]
              /\ \A i \in 1 .. Len(stack) - 1 :
                   stack_remove(stack, s)[i] = IF i < p THEN stack[i] ELSE stack[i + 1]
<1>0. Len(stack) \in Nat
  BY LenProperties
<1>1. /\ FirstPosition(stack, s) \in 1 .. Len(stack)
      /\ stack[FirstPosition(stack, s)].seqnum = s
  BY <1>0, FirstPositionIs
<1>2. stack_remove(stack, s) = RemoveAt(stack, FirstPosition(stack, s))
  BY DEF stack_remove
<1>3. stack_get_pkt(stack, s) = stack[FirstPosition(stack, s)]
  BY DEF stack_get_pkt
<1> QED BY <1>1, <1>2, <1>3, RemoveAtIs

-----------------------------------------------------------------------------
\* No number twice in the stack.
Distinct(stack) ==
  \A i, j \in 1 .. Len(stack) : stack[i].seqnum = stack[j].seqnum => i = j

\* A number that was not in the stack leaves it without a number twice, and
\* nothing else gets in.
THEOREM EnqueueKeeps ==
  ASSUME NEW S, NEW stack \in Seq(S), NEW pkt \in S,
         ~is_in_stack(stack, pkt.seqnum), Distinct(stack)
  PROVE  /\ Distinct(stack_enqueue(stack, pkt))
         /\ \A i \in 1 .. Len(stack) + 1 :
              \/ stack_enqueue(stack, pkt)[i] = pkt
              \/ \E j \in 1 .. Len(stack) : stack_enqueue(stack, pkt)[i] = stack[j]
<1> DEFINE new == stack_enqueue(stack, pkt)
<1>0. Len(stack) \in Nat
  BY LenProperties
<1>1. Len(new) = Len(stack) + 1
  BY EnqueueIs
<1>2. \E p \in 1 .. Len(stack) + 1 :
        \A i \in 1 .. Len(stack) + 1 :
          new[i] = IF i < p THEN stack[i] ELSE IF i = p THEN pkt ELSE stack[i - 1]
  BY EnqueueIs
<1> HIDE DEF new
<1>3. PICK p \in 1 .. Len(stack) + 1 :
        \A i \in 1 .. Len(stack) + 1 :
          new[i] = IF i < p THEN stack[i] ELSE IF i = p THEN pkt ELSE stack[i - 1]
  BY <1>2
<1> DEFINE from(i) == IF i < p THEN i ELSE i - 1
<1>4. ASSUME NEW i \in 1 .. Len(stack) + 1, i # p
      PROVE  from(i) \in 1 .. Len(stack) /\ new[i] = stack[from(i)]
  <2>1. from(i) \in 1 .. Len(stack)
    BY <1>0, <1>3, <1>4
  <2>2. new[i] = IF i < p THEN stack[i] ELSE IF i = p THEN pkt ELSE stack[i - 1]
    BY <1>3
  <2>3. CASE i < p
    BY <2>1, <2>2, <2>3
  <2>4. CASE ~(i < p)
    BY <1>4, <2>1, <2>2, <2>4
  <2> QED BY <2>3, <2>4
<1>5. new[p] = pkt
  BY <1>0, <1>3
<1>6. \A j \in 1 .. Len(stack) : stack[j].seqnum # pkt.seqnum
  BY DEF is_in_stack, Positions
<1>7. ASSUME NEW i \in 1 .. Len(stack) + 1, NEW j \in 1 .. Len(stack) + 1,
             new[i].seqnum = new[j].seqnum
      PROVE  i = j
  <2>1. CASE i = p /\ j = p
    BY <2>1
  <2>2. CASE i = p /\ j # p
    BY <2>2, <1>4, <1>5, <1>6, <1>7
  <2>3. CASE i # p /\ j = p
    BY <2>3, <1>4, <1>5, <1>6, <1>7
  <2>4. CASE i # p /\ j # p
    <3>1. from(i) \in 1 .. Len(stack) /\ new[i] = stack[from(i)]
      BY <2>4, <1>4
    <3>2. from(j) \in 1 .. Len(stack) /\ new[j] = stack[from(j)]
      BY <2>4, <1>4
    <3>3. from(i) = from(j)
      <4> HIDE DEF from
      <4>1. stack[from(i)].seqnum = stack[from(j)].seqnum
        BY <3>1, <3>2, <1>7
      <4> QED BY <3>1, <3>2, <4>1 DEF Distinct
    <3> QED BY <3>3, <2>4, <1>0, <1>3
  <2> QED BY <2>1, <2>2, <2>3, <2>4
<1>8. Distinct(new)
  BY <1>1, <1>7 DEF Distinct
<1>9. \A i \in 1 .. Len(stack) + 1 : new[i] = pkt \/ \E j \in 1 .. Len(stack) : new[i] = stack[j]
  BY <1>4, <1>5
<1> QED BY <1>8, <1>9 DEF new

\* Taking a number out of a stack without a number twice leaves the others,
\* and that number is no longer there.
THEOREM RemoveKeeps ==
  ASSUME NEW S, NEW stack \in Seq(S), NEW s, is_in_stack(stack, s), Distinct(stack)
  PROVE  /\ Distinct(stack_remove(stack, s))
         /\ \A i \in 1 .. Len(stack) - 1 :
              /\ stack_remove(stack, s)[i].seqnum # s
              /\ \E j \in 1 .. Len(stack) : stack_remove(stack, s)[i] = stack[j]
<1> DEFINE new == stack_remove(stack, s)
<1>0. Len(stack) \in Nat
  BY LenProperties
<1>1. Len(new) = Len(stack) - 1
  BY RemoveIs
<1>2. /\ FirstPosition(stack, s) \in 1 .. Len(stack)
      /\ stack[FirstPosition(stack, s)].seqnum = s
  BY <1>0, FirstPositionIs
<1>3. PICK p \in 1 .. Len(stack) :
        /\ stack[p].seqnum = s
        /\ \A i \in 1 .. Len(stack) - 1 : new[i] = IF i < p THEN stack[i] ELSE stack[i + 1]
  <2> DEFINE p == FirstPosition(stack, s)
  <2>1. new = RemoveAt(stack, p)
    BY DEF stack_remove
  <2> HIDE DEF p, new
  <2>2. p \in 1 .. Len(stack) /\ stack[p].seqnum = s
    BY <1>2 DEF p
  <2>3. \A i \in 1 .. Len(stack) - 1 : new[i] = IF i < p THEN stack[i] ELSE stack[i + 1]
    BY <2>1, <2>2, RemoveAtIs
  <2> QED BY <2>2, <2>3
<1> HIDE DEF new
<1> DEFINE from(i) == IF i < p THEN i ELSE i + 1
<1>4. ASSUME NEW i \in 1 .. Len(stack) - 1
      PROVE  from(i) \in 1 .. Len(stack) /\ from(i) # p /\ new[i] = stack[from(i)]
  <2>1. from(i) \in 1 .. Len(stack) /\ from(i) # p
    BY <1>0, <1>3
  <2>2. new[i] = IF i < p THEN stack[i] ELSE stack[i + 1]
    BY <1>3
  <2>3. CASE i < p
    BY <2>1, <2>2, <2>3
  <2>4. CASE ~(i < p)
    BY <2>1, <2>2, <2>4
  <2> QED BY <2>3, <2>4
<1>5. ASSUME NEW i \in 1 .. Len(stack) - 1
      PROVE  new[i].seqnum # s
  BY <1>3, <1>4 DEF Distinct
<1>6. ASSUME NEW i \in 1 .. Len(stack) - 1, NEW j \in 1 .. Len(stack) - 1,
             new[i].seqnum = new[j].seqnum
      PROVE  i = j
  <2>1. from(i) = from(j)
    BY <1>4, <1>6 DEF Distinct
  <2> QED BY <2>1, <1>0, <1>3
<1>7. Distinct(new)
  BY <1>1, <1>6 DEF Distinct
<1> QED BY <1>4, <1>5, <1>7 DEF new

\* A packet ahead of the last one by less than a window never passes it in the
\* walk of stack_enqueue, also where the numbers wrap (stack.c:31): it is put last.
THEOREM EnqueueFollowing ==
  ASSUME NEW S, \A p \in S : p.seqnum \in SeqNums,
         NEW stack \in Seq(S), stack # <<>>, NEW pkt \in S,
         Offset(stack[Len(stack)].seqnum, pkt.seqnum) < MAX_WINDOW_SIZE
  PROVE  EnqueueAfter(stack, pkt.seqnum) = Len(stack)
<1> DEFINE n == Len(stack)
           e == EnqueueAfter(stack, pkt.seqnum)
<1>1. n \in Nat \ {0} /\ stack[n] \in S
  BY LenProperties, ElementOfSeq, EmptySeq
<1>2. ~Passes(pkt.seqnum, stack[n])
  <2>1. stack[n].seqnum \in SeqNums /\ pkt.seqnum \in SeqNums
    BY <1>1
  <2> QED BY <2>1, SeqNumAssumption, WrapAssumption DEF Passes, Offset, SeqNums
<1>3. e \in 1 .. n /\ \A j \in e + 1 .. n : Passes(pkt.seqnum, stack[j])
  BY <1>1, EnqueueAfterIs
<1> HIDE DEF e
<1>4. e = n
  BY <1>1, <1>2, <1>3
<1> QED BY <1>4 DEF e

\* Where no wrap separates the packet from another one (stack.c:31) and the first
\* one, which is never compared, is not after it, the walk keeps the stack sorted.
THEOREM EnqueueSorts ==
  ASSUME NEW S, \A p \in S : p.seqnum \in SeqNums,
         NEW stack \in Seq(S), stack # <<>>, NEW pkt \in S,
         \A i, j \in 1 .. Len(stack) : i < j => stack[i].seqnum <= stack[j].seqnum,
         stack[1].seqnum <= pkt.seqnum,
         \A i \in 1 .. Len(stack) : ~(stack[i].seqnum > WrapHigh /\ pkt.seqnum < WrapLow)
  PROVE  LET new == stack_enqueue(stack, pkt)
         IN  \A i, j \in 1 .. Len(new) : i < j => new[i].seqnum <= new[j].seqnum
<1> DEFINE n == Len(stack)
           e == EnqueueAfter(stack, pkt.seqnum)
           new == stack_enqueue(stack, pkt)
<1>1. n \in Nat \ {0} /\ \A i \in 1 .. n : stack[i].seqnum \in SeqNums
  BY LenProperties, ElementOfSeq, EmptySeq
<1>2. /\ e \in 1 .. n
      /\ e = 1 \/ ~Passes(pkt.seqnum, stack[e])
      /\ \A j \in e + 1 .. n : Passes(pkt.seqnum, stack[j])
  BY <1>1, EnqueueAfterIs
<1> HIDE DEF e
<1>3. PICK p \in 1 .. Len(stack) + 1 : p = e + 1
  BY <1>1, <1>2
<1>4. /\ Len(InsertAt(stack, p, pkt)) = n + 1
      /\ \A i \in 1 .. n + 1 :
           InsertAt(stack, p, pkt)[i] =
             IF i < p THEN stack[i] ELSE IF i = p THEN pkt ELSE stack[i - 1]
  <2>1. stack \in Seq(S) /\ pkt \in S /\ p \in 1 .. Len(stack) + 1
    OBVIOUS
  <2>2. /\ InsertAt(stack, p, pkt) \in Seq(S)
        /\ Len(InsertAt(stack, p, pkt)) = Len(stack) + 1
        /\ \A i \in 1 .. Len(stack) + 1 :
             InsertAt(stack, p, pkt)[i] =
               IF i < p THEN stack[i] ELSE IF i = p THEN pkt ELSE stack[i - 1]
    BY ONLY <2>1, InsertAtIs
  <2> QED BY <2>2
<1>5. new = InsertAt(stack, p, pkt)
  BY <1>3 DEF stack_enqueue, e
<1> HIDE DEF new
<1>6. pkt.seqnum \in SeqNums /\ \A i \in 1 .. n : Passes(pkt.seqnum, stack[i]) <=>
                                                    pkt.seqnum < stack[i].seqnum
  BY <1>1 DEF Passes
<1>7. stack[e].seqnum <= pkt.seqnum
  BY <1>1, <1>2, <1>6 DEF SeqNums
<1>8. \A i \in 1 .. e : stack[i].seqnum <= pkt.seqnum
  BY <1>1, <1>2, <1>6, <1>7 DEF SeqNums
<1>9. \A j \in e + 1 .. n : pkt.seqnum <= stack[j].seqnum
  BY <1>1, <1>2, <1>6 DEF SeqNums
<1>10. ASSUME NEW i \in 1 .. n + 1, NEW j \in 1 .. n + 1, i < j
       PROVE  new[i].seqnum <= new[j].seqnum
  <2>1. CASE j <= e
    <3>1. i \in 1 .. n /\ j \in 1 .. n /\ new[i] = stack[i] /\ new[j] = stack[j]
      BY <2>1, <1>1, <1>2, <1>3, <1>4, <1>5, <1>10
    <3> QED BY <3>1, <1>10
  <2>2. CASE j = e + 1
    <3>1. i \in 1 .. e /\ new[i] = stack[i] /\ new[j] = pkt
      BY <2>2, <1>1, <1>2, <1>3, <1>4, <1>5, <1>10
    <3> QED BY <3>1, <1>8
  <2>3. CASE j > e + 1 /\ i = e + 1
    <3>1. j - 1 \in e + 1 .. n /\ new[i] = pkt /\ new[j] = stack[j - 1]
      BY <2>3, <1>1, <1>2, <1>3, <1>4, <1>5, <1>10
    <3> QED BY <3>1, <1>9
  <2>4. CASE j > e + 1 /\ i < e + 1
    <3>1. /\ i \in 1 .. n /\ j - 1 \in 1 .. n /\ i < j - 1
          /\ new[i] = stack[i] /\ new[j] = stack[j - 1]
      BY <2>4, <1>1, <1>2, <1>3, <1>4, <1>5, <1>10
    <3>2. PICK k \in 1 .. n : k = j - 1
      BY <3>1
    <3> QED BY <3>1, <3>2
  <2>5. CASE i > e + 1
    <3>1. /\ i - 1 \in 1 .. n /\ j - 1 \in 1 .. n /\ i - 1 < j - 1
          /\ new[i] = stack[i - 1] /\ new[j] = stack[j - 1]
      BY <2>5, <1>1, <1>2, <1>3, <1>4, <1>5, <1>10
    <3>2. PICK k, m \in 1 .. n : k = i - 1 /\ m = j - 1
      BY <3>1
    <3> QED BY <3>1, <3>2
  <2> QED BY <2>1, <2>2, <2>3, <2>4, <2>5, <1>1, <1>2
<1>11. Len(new) = n + 1
  BY <1>4, <1>5
<1> QED BY <1>10, <1>11 DEF new

-----------------------------------------------------------------------------
\* stack_remove_acked takes a beginning of the stack and leaves the rest, from
\* the number given on; all of it is the beginning when the number is absent.
LEMMA RemoveAckedIs ==
  ASSUME NEW S, NEW stack \in Seq(S), NEW s
  PROVE  \E p \in 1 .. Len(stack) + 1 :
           /\ stack_remove_acked(stack, s) \in Seq(S)
           /\ Len(stack_remove_acked(stack, s)) = Len(stack) - p + 1
           /\ \A i \in 1 .. Len(stack) - p + 1 :
                stack_remove_acked(stack, s)[i] = stack[p + i - 1]
           /\ is_in_stack(stack, s) => p = FirstPosition(stack, s)
<1>0. Len(stack) \in Nat /\ \A i \in 1 .. Len(stack) : stack[i] \in S
  BY LenProperties, ElementOfSeq
<1>1. CASE is_in_stack(stack, s)
  <2>1. PICK p \in 1 .. Len(stack) : p = FirstPosition(stack, s)
    BY <1>0, <1>1, FirstPositionIs
  <2>2. stack_remove_acked(stack, s) = SubSeq(stack, p, Len(stack))
    BY <1>1, <2>1 DEF stack_remove_acked
  <2>3. \A i \in p .. Len(stack) : stack[i] \in S
    BY <1>0
  <2>4. /\ SubSeq(stack, p, Len(stack)) \in Seq(S)
        /\ Len(SubSeq(stack, p, Len(stack)))
             = IF p <= Len(stack) THEN Len(stack) - p + 1 ELSE 0
        /\ \A i \in 1 .. Len(stack) - p + 1 :
             SubSeq(stack, p, Len(stack))[i] = stack[p + i - 1]
    BY <1>0, <2>3, SubSeqProperties
  <2>5. /\ stack_remove_acked(stack, s) \in Seq(S)
        /\ Len(stack_remove_acked(stack, s)) = Len(stack) - p + 1
    BY <2>2, <2>4
  <2>6. \A i \in 1 .. Len(stack) - p + 1 :
          stack_remove_acked(stack, s)[i] = stack[p + i - 1]
    BY <2>2, <2>4
  <2>7. p \in 1 .. Len(stack) + 1
    BY <1>0
  <2> QED BY <2>1, <2>5, <2>6, <2>7
<1>2. CASE ~is_in_stack(stack, s)
  <2>1. stack_remove_acked(stack, s) = <<>>
    BY <1>2 DEF stack_remove_acked
  <2>2. <<>> \in Seq(S) /\ Len(<<>>) = 0
    BY EmptySeq
  <2>3. Len(stack) + 1 \in 1 .. Len(stack) + 1 /\ Len(stack) - (Len(stack) + 1) + 1 = 0
    BY <1>0
  <2> QED BY <1>2, <2>1, <2>2, <2>3
<1> QED BY <1>1, <1>2

-----------------------------------------------------------------------------
\* Every packet of the stack is ahead of from, by less than a window.
Ahead(stack, from, least) ==
  \A i \in 1 .. Len(stack) :
    Offset(from, stack[i].seqnum) \in least .. MAX_WINDOW_SIZE - 1

\* Packets at distinct distances between 1 and MAX_WINDOW_SIZE - 1 are fewer
\* than MAX_WINDOW_SIZE.
LEMMA RoomLeft ==
  ASSUME NEW S, \A pkt \in S : pkt.seqnum \in SeqNums,
         NEW from \in SeqNums, NEW stack \in Seq(S),
         Distinct(stack), Ahead(stack, from, 1)
  PROVE  Len(stack) < MAX_WINDOW_SIZE
<1> DEFINE f == [i \in 1 .. Len(stack) |-> Offset(from, stack[i].seqnum)]
           T == 1 .. MAX_WINDOW_SIZE - 1
<1>0. Len(stack) \in Nat /\ \A i \in 1 .. Len(stack) : stack[i].seqnum \in SeqNums
  <2>1. Len(stack) \in Nat /\ \A i \in 1 .. Len(stack) : stack[i] \in S
    BY LenProperties, ElementOfSeq
  <2> QED BY <2>1
<1>1. f \in [1 .. Len(stack) -> T]
  BY DEF Ahead
<1>2. \A i, j \in 1 .. Len(stack) : f[i] = f[j] => i = j
  BY <1>0, OffsetInjective DEF Distinct
<1>3. /\ IsFiniteSet(T) /\ Cardinality(T) = MAX_WINDOW_SIZE - 1
      /\ IsFiniteSet(1 .. Len(stack)) /\ Cardinality(1 .. Len(stack)) = Len(stack)
  <2>1. MAX_WINDOW_SIZE - 1 \in Nat
    BY SeqNumAssumption
  <2>2. \A n \in Nat : IsFiniteSet(1 .. n) /\ Cardinality(1 .. n) = n
    <3> TAKE n \in Nat
    <3>1. IsFiniteSet(1 .. n) /\ Cardinality(1 .. n) = IF 1 > n THEN 0 ELSE n - 1 + 1
      BY FS_Interval
    <3> QED BY <3>1
  <2> QED BY <1>0, <2>1, <2>2
<1> HIDE DEF f, T
<1>4. ~(Cardinality(T) < Cardinality(1 .. Len(stack)))
  <2>1. SUFFICES ASSUME Cardinality(T) < Cardinality(1 .. Len(stack))
                 PROVE  FALSE
    OBVIOUS
  <2>2. \E x, y \in 1 .. Len(stack) : x # y /\ f[x] = f[y]
    <3> DEFINE D == 1 .. Len(stack)
    <3> HIDE DEF D
    <3>1. /\ IsFiniteSet(D) /\ IsFiniteSet(T)
          /\ Cardinality(T) < Cardinality(D) /\ f \in [D -> T]
      BY <1>1, <1>3, <2>1 DEF D
    <3>2. \E x, y \in D : x # y /\ f[x] = f[y]
      BY <3>1, FS_PigeonHole
    <3> QED BY <3>2 DEF D
  <2> QED BY <1>2, <2>2
<1> QED BY <1>0, <1>3, <1>4, SeqNumAssumption

\* A packet ahead of the awaited one goes into the buffer.
LEMMA EnqueueAhead ==
  ASSUME NEW S, \A p \in S : p.seqnum \in SeqNums,
         NEW from \in SeqNums, NEW stack \in Seq(S), NEW pkt \in S,
         Distinct(stack), Ahead(stack, from, 1),
         pkt.seqnum # from, InWindow(from, pkt.seqnum),
         ~is_in_stack(stack, pkt.seqnum)
  PROVE  /\ stack_enqueue(stack, pkt) \in Seq(S)
         /\ Distinct(stack_enqueue(stack, pkt))
         /\ Ahead(stack_enqueue(stack, pkt), from, 1)
         /\ Len(stack_enqueue(stack, pkt)) < MAX_WINDOW_SIZE
<1> DEFINE new == stack_enqueue(stack, pkt)
<1>0. Len(stack) \in Nat /\ pkt.seqnum \in SeqNums
  BY LenProperties
<1>1. new \in Seq(S) /\ Len(new) = Len(stack) + 1
  BY EnqueueIs
<1>2. /\ Distinct(new)
      /\ \A i \in 1 .. Len(stack) + 1 :
           new[i] = pkt \/ \E j \in 1 .. Len(stack) : new[i] = stack[j]
  BY EnqueueKeeps
<1>3. Offset(from, pkt.seqnum) \in 1 .. MAX_WINDOW_SIZE - 1
  <2>1. Offset(from, pkt.seqnum) \in SeqNums /\ Offset(from, pkt.seqnum) # 0
    BY <1>0, OffsetType, OffsetZero
  <2> QED BY <2>1, SeqNumAssumption DEF SeqNums, InWindow
<1> HIDE DEF new
<1>4. Ahead(new, from, 1)
  BY <1>1, <1>2, <1>3 DEF Ahead
<1>5. Len(new) < MAX_WINDOW_SIZE
  BY <1>1, <1>2, <1>4, RoomLeft
<1> QED BY <1>1, <1>2, <1>4, <1>5 DEF new

\* The awaited packet has come: what is buffered is one step nearer.
LEMMA AdvanceAhead ==
  ASSUME NEW S, \A p \in S : p.seqnum \in SeqNums,
         NEW from \in SeqNums, NEW stack \in Seq(S), Ahead(stack, from, 1)
  PROVE  Ahead(stack, Incr(from), 0)
<1> SUFFICES ASSUME NEW i \in 1 .. Len(stack)
             PROVE  Offset(Incr(from), stack[i].seqnum) \in 0 .. MAX_WINDOW_SIZE - 1
  BY DEF Ahead
<1>1. stack[i].seqnum \in SeqNums
  BY ElementOfSeq
<1>2. Offset(from, stack[i].seqnum) \in 1 .. MAX_WINDOW_SIZE - 1
  BY DEF Ahead
<1>3. stack[i].seqnum # from
  BY <1>1, <1>2, OffsetZero
<1>4. Offset(Incr(from), stack[i].seqnum) = Offset(from, stack[i].seqnum) - 1
  BY <1>1, <1>3, OffsetOfIncr
<1> QED BY <1>2, <1>4, SeqNumAssumption

\* The awaited number is not buffered: all that is lies ahead of it.
LEMMA AbsentAhead ==
  ASSUME NEW S, \A p \in S : p.seqnum \in SeqNums,
         NEW from \in SeqNums, NEW stack \in Seq(S), Ahead(stack, from, 0),
         ~is_in_stack(stack, from)
  PROVE  Ahead(stack, from, 1)
<1> SUFFICES ASSUME NEW i \in 1 .. Len(stack)
             PROVE  Offset(from, stack[i].seqnum) \in 1 .. MAX_WINDOW_SIZE - 1
  BY DEF Ahead
<1>1. stack[i].seqnum \in SeqNums
  BY ElementOfSeq
<1>2. stack[i].seqnum # from
  BY DEF is_in_stack, Positions
<1>3. Offset(from, stack[i].seqnum) \in 0 .. MAX_WINDOW_SIZE - 1
  BY DEF Ahead
<1>4. Offset(from, stack[i].seqnum) # 0
  BY <1>1, <1>2, OffsetZero
<1> QED BY <1>3, <1>4, SeqNumAssumption

\* The awaited packet is taken out of the buffer.
LEMMA RemoveAhead ==
  ASSUME NEW S, \A p \in S : p.seqnum \in SeqNums,
         NEW from \in SeqNums, NEW stack \in Seq(S),
         Distinct(stack), Ahead(stack, from, 0), is_in_stack(stack, from)
  PROVE  /\ stack_remove(stack, from) \in Seq(S)
         /\ Len(stack_remove(stack, from)) = Len(stack) - 1
         /\ Distinct(stack_remove(stack, from))
         /\ Ahead(stack_remove(stack, from), Incr(from), 0)
<1> DEFINE new == stack_remove(stack, from)
<1>0. Len(stack) \in Nat
  BY LenProperties
<1>1. new \in Seq(S) /\ Len(new) = Len(stack) - 1
  BY RemoveIs
<1>2. /\ Distinct(new)
      /\ \A i \in 1 .. Len(stack) - 1 :
           /\ new[i].seqnum # from
           /\ \E j \in 1 .. Len(stack) : new[i] = stack[j]
  BY RemoveKeeps
<1> HIDE DEF new
<1>3. \A i \in 1 .. Len(new) :
        /\ new[i].seqnum # from
        /\ Offset(from, new[i].seqnum) \in 0 .. MAX_WINDOW_SIZE - 1
  BY <1>0, <1>1, <1>2 DEF Ahead
<1>4. ~is_in_stack(new, from)
  BY <1>3 DEF is_in_stack, Positions
<1>5. Ahead(new, from, 0)
  BY <1>3 DEF Ahead
<1>6. Ahead(new, Incr(from), 0)
  BY <1>1, <1>4, <1>5, AbsentAhead, AdvanceAhead
<1> QED BY <1>1, <1>2, <1>6 DEF new

-----------------------------------------------------------------------------
\* What a direction holds after datagrams are sent on it is what it held, and
\* then a beginning of what was sent.
LEMMA PutIs ==
  ASSUME NEW S, NEW channel \in Seq(S), NEW msgs \in Seq(S)
  PROVE  /\ Put(channel, msgs) \in Seq(S)
         /\ Len(Put(channel, msgs)) <= Len(channel) + Len(msgs)
         /\ \A i \in 1 .. Len(Put(channel, msgs)) :
              Put(channel, msgs)[i] =
                IF i <= Len(channel) THEN channel[i] ELSE msgs[i - Len(channel)]
<1> DEFINE all == channel \o msgs
<1>0. Len(channel) \in Nat /\ Len(msgs) \in Nat
  BY LenProperties
<1>1. /\ all \in Seq(S) /\ Len(all) = Len(channel) + Len(msgs)
      /\ \A i \in 1 .. Len(channel) + Len(msgs) :
           all[i] = IF i <= Len(channel) THEN channel[i] ELSE msgs[i - Len(channel)]
  BY ConcatProperties
<1> HIDE DEF all
<1>2. \A i \in 1 .. Len(all) : all[i] \in S
  BY <1>1, ElementOfSeq
<1>3. CASE Len(all) <= Capacity
  <2>1. Put(channel, msgs) = all
    BY <1>3 DEF Put, all
  <2> QED BY <2>1, <1>0, <1>1
<1>4. CASE ~(Len(all) <= Capacity)
  <2>1. Put(channel, msgs) = SubSeq(all, 1, Capacity)
    BY <1>4 DEF Put, all
  <2>2. Capacity \in Nat /\ 1 <= Capacity /\ Capacity < Len(all)
    BY <1>0, <1>1, <1>4, NetworkAssumption
  <2>3. \A i \in 1 .. Capacity : all[i] \in S
    BY <1>0, <1>1, <1>2, <2>2
  <2>4. /\ SubSeq(all, 1, Capacity) \in Seq(S)
        /\ Len(SubSeq(all, 1, Capacity)) = Capacity
        /\ \A i \in 1 .. Capacity : SubSeq(all, 1, Capacity)[i] = all[i]
    <3>1. /\ SubSeq(all, 1, Capacity) \in Seq(S)
          /\ Len(SubSeq(all, 1, Capacity)) =
               IF 1 <= Capacity THEN Capacity - 1 + 1 ELSE 0
          /\ \A i \in 1 .. Capacity - 1 + 1 :
               SubSeq(all, 1, Capacity)[i] = all[1 + i - 1]
      BY <2>2, <2>3, SubSeqProperties
    <3> QED BY <3>1, <2>2
  <2> QED BY <2>1, <2>2, <2>4, <1>0, <1>1
<1> QED BY <1>3, <1>4

LEMMA PutType ==
  ASSUME NEW S, NEW channel \in Seq(S), NEW msgs \in Seq(S)
  PROVE  Put(channel, msgs) \in Seq(S)
  BY PutIs

\* What is on its way in new comes from old, in the order it had there,
\* unless it was damaged.
InOrder(new, old) ==
  \A i, j \in 1 .. Len(new) :
    i <= j => \E k, l \in 1 .. Len(old) :
                /\ k <= l
                /\ new[i] = old[k] \/ new[i] = Damaged
                /\ new[j] = old[l] \/ new[j] = Damaged

\* A fault of the link keeps the order of the datagrams.
LEMMA FaultyIs ==
  ASSUME NEW S, Damaged \in S, NEW old \in Seq(S), NEW new, Faulty(old, new)
  PROVE  new \in Seq(S) /\ InOrder(new, old)
<1>0. /\ old # <<>> /\ Len(old) \in Nat \ {0}
      /\ Tail(old) \in Seq(S) /\ Len(Tail(old)) = Len(old) - 1
      /\ \A i \in 1 .. Len(old) - 1 : Tail(old)[i] = old[i + 1]
      /\ Head(old) \in S /\ Head(old) = old[1]
  BY LenProperties, HeadTailProperties, EmptySeq DEF Faulty
<1>1. CASE new = Tail(old)
  <2>1. \A i \in 1 .. Len(new) : i + 1 \in 1 .. Len(old) /\ new[i] = old[i + 1]
    BY <1>0, <1>1
  <2>2. \A i, j \in 1 .. Len(new) : i <= j => i + 1 <= j + 1
    OBVIOUS
  <2>3. InOrder(new, old)
    BY <2>1, <2>2 DEF InOrder
  <2> QED BY <2>3, <1>0, <1>1
<1>2. ASSUME NEW e \in S, e = Damaged, new = <<e>> \o Tail(old)
      PROVE  new \in Seq(S) /\ InOrder(new, old)
  <2>1. /\ new \in Seq(S) /\ Len(new) = Len(old)
        /\ \A i \in 1 .. Len(old) : new[i] = IF i <= 1 THEN e ELSE Tail(old)[i - 1]
    <3>1. <<e>> \in Seq(S) /\ Len(<<e>>) = 1 /\ <<e>>[1] = e
      OBVIOUS
    <3>2. /\ new \in Seq(S) /\ Len(new) = Len(<<e>>) + Len(Tail(old))
          /\ \A i \in 1 .. Len(<<e>>) + Len(Tail(old)) :
               new[i] = IF i <= Len(<<e>>) THEN <<e>>[i] ELSE Tail(old)[i - Len(<<e>>)]
      BY <3>1, <1>0, <1>2, ConcatProperties
    <3> QED BY <3>1, <3>2, <1>0
  <2>2. \A i \in 1 .. Len(old) : new[i] = old[i] \/ new[i] = Damaged
    BY <2>1, <1>0, <1>2
  <2>3. InOrder(new, old)
    BY <2>1, <2>2 DEF InOrder
  <2> QED BY <2>1, <2>3
<1>3. ASSUME NEW e \in S, e = Head(old), new = <<e>> \o old
      PROVE  new \in Seq(S) /\ InOrder(new, old)
  <2>1. /\ new \in Seq(S) /\ Len(new) = Len(old) + 1
        /\ \A i \in 1 .. Len(old) + 1 : new[i] = IF i <= 1 THEN e ELSE old[i - 1]
    <3>1. <<e>> \in Seq(S) /\ Len(<<e>>) = 1 /\ <<e>>[1] = e
      OBVIOUS
    <3>2. /\ new \in Seq(S) /\ Len(new) = Len(<<e>>) + Len(old)
          /\ \A i \in 1 .. Len(<<e>>) + Len(old) :
               new[i] = IF i <= Len(<<e>>) THEN <<e>>[i] ELSE old[i - Len(<<e>>)]
      BY <3>1, <1>3, ConcatProperties
    <3> QED BY <3>1, <3>2, <1>0
  <2> DEFINE from(i) == IF i <= 1 THEN 1 ELSE i - 1
  <2>2. \A i \in 1 .. Len(new) : from(i) \in 1 .. Len(old) /\ new[i] = old[from(i)]
    BY <2>1, <1>0, <1>3
  <2>3. \A i, j \in 1 .. Len(new) : i <= j => from(i) <= from(j)
    OBVIOUS
  <2> HIDE DEF from
  <2>4. InOrder(new, old)
    BY <2>2, <2>3 DEF InOrder
  <2> QED BY <2>1, <2>4
<1>4. \/ new = Tail(old)
      \/ new = <<Damaged>> \o Tail(old)
      \/ new = <<Head(old)>> \o old
  BY DEF Faulty
<1> QED BY <1>0, <1>1, <1>2, <1>3, <1>4

\* Reading the oldest datagram keeps the order of the others.
LEMMA TakeFirst ==
  ASSUME NEW S, NEW old \in Seq(S), NEW i \in Arriving(old), Reordering = FALSE
  PROVE  /\ i = 1 /\ old[1] \in S
         /\ Take(old, i) \in Seq(S) /\ InOrder(Take(old, i), old)
<1>1. i = 1 /\ 1 \in 1 .. Len(old) /\ Len(old) \in Nat
  BY LenProperties DEF Arriving
<1> DEFINE new == Take(old, 1)
<1>2. /\ new \in Seq(S) /\ Len(new) = Len(old) - 1
      /\ \A n \in 1 .. Len(old) - 1 : new[n] = IF n < 1 THEN old[n] ELSE old[n + 1]
  BY <1>1, RemoveAtIs DEF Take
<1> HIDE DEF new
<1>3. \A n \in 1 .. Len(new) : n + 1 \in 1 .. Len(old) /\ new[n] = old[n + 1]
  BY <1>1, <1>2
<1>4. \A m, n \in 1 .. Len(new) : m <= n => m + 1 <= n + 1
  OBVIOUS
<1>5. InOrder(new, old)
  BY <1>3, <1>4 DEF InOrder
<1>6. old[1] \in S
  BY <1>1, ElementOfSeq
<1> QED BY <1>1, <1>2, <1>5, <1>6 DEF new

=============================================================================
