------------------------- MODULE LinkedStackProofs --------------------------
(***************************************************************************)
(* The linked nodes of stack.c are always one closed ring, and implement   *)
(* the sequence of module Stack: for any number of nodes, of packets with  *)
(* the same number, and every size of the sequence number space.           *)
(***************************************************************************)
EXTENDS LinkedStack, StackProofs

\* The neighbours of position i in a ring of n nodes.
After(i, n) == IF i = n THEN 1 ELSE i + 1
Before(i, n) == IF i = 1 THEN n ELSE i - 1

IsHeap(h) == h = [a \in Addresses |-> h[a]]

\* The list is the ring of these nodes, in this order, for these packets: every
\* pointer of it is known, and no other node is allocated.
Ring(l, nodes, pkts) ==
  /\ nodes \in Seq(Addresses) /\ pkts \in Seq(Packets) /\ Len(pkts) = Len(nodes)
  /\ \A i, j \in 1 .. Len(nodes) : nodes[i] = nodes[j] => i = j
  /\ l = [first |-> IF Len(nodes) = 0 THEN NULL ELSE nodes[1],
          last |-> IF Len(nodes) = 0 THEN NULL ELSE nodes[Len(nodes)],
          size |-> Len(nodes), heap |-> l.heap]
  /\ IsHeap(l.heap)
  /\ \A i \in 1 .. Len(nodes) :
       l.heap[nodes[i]] = Node(nodes[After(i, Len(nodes))],
                               nodes[Before(i, Len(nodes))], pkts[i])
  /\ \A a \in Addresses :
       (\A i \in 1 .. Len(nodes) : nodes[i] # a) => l.heap[a] = Unallocated

LinkedInv == \E nodes, pkts : Ring(list, nodes, pkts)

-----------------------------------------------------------------------------
\* What a ring says of each of its fields.
LEMMA RingIs ==
  ASSUME NEW l, NEW nodes, NEW pkts, Ring(l, nodes, pkts)
  PROVE  /\ Len(nodes) \in Nat /\ Len(pkts) = Len(nodes) /\ l.size = Len(nodes)
         /\ \A i \in 1 .. Len(nodes) :
              /\ nodes[i] \in Addresses /\ nodes[i] # NULL /\ pkts[i] \in Packets
              /\ After(i, Len(nodes)) \in 1 .. Len(nodes)
              /\ Before(i, Len(nodes)) \in 1 .. Len(nodes)
              /\ l.heap[nodes[i]].next = nodes[After(i, Len(nodes))]
              /\ l.heap[nodes[i]].prev = nodes[Before(i, Len(nodes))]
              /\ l.heap[nodes[i]].pkt = pkts[i]
              /\ l.heap[nodes[i]].seqnum = pkts[i].seqnum
              /\ ~l.heap[nodes[i]].free
         /\ Len(nodes) = 0 => l.first = NULL /\ l.last = NULL
         /\ Len(nodes) # 0 => l.first = nodes[1] /\ l.last = nodes[Len(nodes)]
<1>1. /\ Len(nodes) \in Nat /\ Len(pkts) = Len(nodes)
      /\ \A i \in 1 .. Len(nodes) : nodes[i] \in Addresses /\ pkts[i] \in Packets
  BY LenProperties, ElementOfSeq DEF Ring
<1>2. /\ l.size = Len(nodes)
      /\ Len(nodes) = 0 => l.first = NULL /\ l.last = NULL
      /\ Len(nodes) # 0 => l.first = nodes[1] /\ l.last = nodes[Len(nodes)]
  BY DEF Ring
<1>3. ASSUME NEW i \in 1 .. Len(nodes)
      PROVE  /\ nodes[i] # NULL
             /\ After(i, Len(nodes)) \in 1 .. Len(nodes)
             /\ Before(i, Len(nodes)) \in 1 .. Len(nodes)
  BY <1>1 DEF After, Before, Addresses, NULL
<1>4. ASSUME NEW i \in 1 .. Len(nodes)
      PROVE  /\ l.heap[nodes[i]].next = nodes[After(i, Len(nodes))]
             /\ l.heap[nodes[i]].prev = nodes[Before(i, Len(nodes))]
             /\ l.heap[nodes[i]].pkt = pkts[i]
             /\ l.heap[nodes[i]].seqnum = pkts[i].seqnum
             /\ ~l.heap[nodes[i]].free
  <2>1. l.heap[nodes[i]] = Node(nodes[After(i, Len(nodes))],
                                nodes[Before(i, Len(nodes))], pkts[i])
    BY DEF Ring
  <2> QED BY <2>1 DEF Node
<1>5. ASSUME NEW i \in 1 .. Len(nodes)
      PROVE  /\ nodes[i] \in Addresses /\ nodes[i] # NULL /\ pkts[i] \in Packets
             /\ After(i, Len(nodes)) \in 1 .. Len(nodes)
             /\ Before(i, Len(nodes)) \in 1 .. Len(nodes)
             /\ l.heap[nodes[i]].next = nodes[After(i, Len(nodes))]
             /\ l.heap[nodes[i]].prev = nodes[Before(i, Len(nodes))]
             /\ l.heap[nodes[i]].pkt = pkts[i]
             /\ l.heap[nodes[i]].seqnum = pkts[i].seqnum
             /\ ~l.heap[nodes[i]].free
  BY <1>1, <1>3, <1>4
<1> QED BY <1>1, <1>2, <1>5

\* A runner from first meets the nodes in order, and then first again.
LEMMA ForwardIs ==
  ASSUME NEW l, NEW nodes, NEW pkts, Ring(l, nodes, pkts), Len(nodes) # 0
  PROVE  \A k \in 0 .. Len(nodes) :
           Forward(l)[k] = nodes[IF k = Len(nodes) THEN 1 ELSE k + 1]
<1> DEFINE n == Len(nodes)
           w == [k \in 0 .. n |-> nodes[IF k = n THEN 1 ELSE k + 1]]
           f == Forward(l)
<1>0. /\ n \in Nat /\ n # 0 /\ l.size = n /\ l.first = nodes[1]
      /\ \A i \in 1 .. n : l.heap[nodes[i]].next = nodes[After(i, n)]
  BY RingIs
<1> HIDE DEF n
<1>1. w = [k \in 0 .. l.size |-> IF k = 0 THEN l.first ELSE l.heap[w[k - 1]].next]
  <2>1. w[0] = l.first
    BY <1>0
  <2>2. ASSUME NEW k \in 1 .. n
        PROVE  w[k] = l.heap[w[k - 1]].next
    <3>1. w[k - 1] = nodes[k]
      BY <1>0
    <3>2. w[k] = nodes[After(k, n)]
      BY <1>0 DEF After
    <3> QED BY <1>0, <3>1, <3>2
  <2>3. w = [k \in 0 .. n |-> w[k]]
    OBVIOUS
  <2> HIDE DEF w
  <2>4. \A k \in 0 .. n : w[k] = IF k = 0 THEN l.first ELSE l.heap[w[k - 1]].next
    BY <1>0, <2>1, <2>2
  <2> QED BY <1>0, <2>3, <2>4
<1> HIDE DEF w
<1>2. f = [k \in 0 .. l.size |-> IF k = 0 THEN l.first ELSE l.heap[f[k - 1]].next]
  BY <1>1 DEF Forward
<1> HIDE DEF f
<1>3. 0 .. n \subseteq {k \in 0 .. n : f[k] = w[k]}
  <2> DEFINE T == {k \in 0 .. n : f[k] = w[k]}
  <2>1. 0 \in T
    BY <1>0, <1>1, <1>2
  <2>2. ASSUME NEW k \in 1 .. n, k - 1 \in T PROVE k \in T
    BY <1>0, <1>1, <1>2, <2>2
  <2> HIDE DEF T
  <2> QED BY <1>0, <2>1, <2>2, UpTo DEF T
<1> QED BY <1>3 DEF f, w, n

\* A runner from last meets them in the opposite order, and then last again.
LEMMA BackwardIs ==
  ASSUME NEW l, NEW nodes, NEW pkts, Ring(l, nodes, pkts), Len(nodes) # 0
  PROVE  \A k \in 0 .. Len(nodes) :
           Backward(l)[k] = nodes[IF k = Len(nodes) THEN Len(nodes) ELSE Len(nodes) - k]
<1> DEFINE n == Len(nodes)
           w == [k \in 0 .. n |-> nodes[IF k = n THEN n ELSE n - k]]
           f == Backward(l)
<1>0. /\ n \in Nat /\ n # 0 /\ l.size = n /\ l.last = nodes[n]
      /\ \A i \in 1 .. n : l.heap[nodes[i]].prev = nodes[Before(i, n)]
  BY RingIs
<1> HIDE DEF n
<1>1. w = [k \in 0 .. l.size |-> IF k = 0 THEN l.last ELSE l.heap[w[k - 1]].prev]
  <2>1. w[0] = l.last
    BY <1>0
  <2>2. ASSUME NEW k \in 1 .. n
        PROVE  w[k] = l.heap[w[k - 1]].prev
    <3>1. k - 1 # n /\ n - (k - 1) \in 1 .. n /\ k - 1 \in 0 .. n
      BY <1>0
    <3>2. w[k - 1] = nodes[n - (k - 1)]
      BY <3>1
    <3>3. w[k] = nodes[Before(n - (k - 1), n)]
      BY <1>0 DEF Before
    <3> QED BY <1>0, <3>1, <3>2, <3>3
  <2> QED BY <1>0, <2>1, <2>2
<1> HIDE DEF w
<1>2. f = [k \in 0 .. l.size |-> IF k = 0 THEN l.last ELSE l.heap[f[k - 1]].prev]
  BY <1>1 DEF Backward
<1> HIDE DEF f
<1>3. 0 .. n \subseteq {k \in 0 .. n : f[k] = w[k]}
  <2> DEFINE T == {k \in 0 .. n : f[k] = w[k]}
  <2>1. 0 \in T
    BY <1>0, <1>1, <1>2
  <2>2. ASSUME NEW k \in 1 .. n, k - 1 \in T PROVE k \in T
    BY <1>0, <1>1, <1>2, <2>2
  <2> HIDE DEF T
  <2> QED BY <1>0, <2>1, <2>2, UpTo DEF T
<1> QED BY <1>3 DEF f, w, n

-----------------------------------------------------------------------------
LEMMA MinIs ==
  ASSUME NEW S \in SUBSET Int, NEW m \in S, \A k \in S : m <= k
  PROVE  Min(S) = m
<1>1. Min(S) \in S /\ \A k \in S : Min(S) <= k
  BY DEF Min
<1>2. Min(S) <= m /\ m <= Min(S) /\ Min(S) \in Int /\ m \in Int
  BY <1>1
<1> QED BY <1>2

\* What a runner that meets the nodes in order finds: the first packet with the
\* number, or first again.
LEMMA FindIs ==
  ASSUME NEW l, NEW nodes, NEW pkts, Ring(l, nodes, pkts), NEW s
  PROVE  Find(l, s) = IF is_in_stack(pkts, s) THEN nodes[FirstPosition(pkts, s)] ELSE NULL
<1> DEFINE n == Len(nodes)
           runner == Forward(l)
           stops == {k \in 0 .. l.size : \/ k > 0 /\ runner[k] = l.first
                                         \/ l.heap[runner[k]].seqnum = s}
<1>0. n \in Nat /\ Len(pkts) = n /\ l.size = n
  BY RingIs
<1>1. CASE n = 0
  <2>1. ~is_in_stack(pkts, s)
    BY <1>0, <1>1 DEF is_in_stack, Positions
  <2>2. l.first = NULL
    BY <1>1, RingIs
  <2> QED BY <2>1, <2>2 DEF Find
<1>2. CASE n # 0
  <2>1. /\ l.first = nodes[1] /\ l.first # NULL
        /\ \A i \in 1 .. n : nodes[i] = l.first => i = 1
    <3>1. 1 \in 1 .. n
      BY <1>0, <1>2
    <3>2. l.first = nodes[1] /\ nodes[1] # NULL
      BY <1>2, <3>1, RingIs
    <3> QED BY <3>1, <3>2 DEF Ring
  <2>2. \A k \in 0 .. n : runner[k] = nodes[IF k = n THEN 1 ELSE k + 1]
    BY <1>2, ForwardIs
  <2>3. \A i \in 1 .. n : l.heap[nodes[i]].seqnum = pkts[i].seqnum
    BY RingIs
  <2> HIDE DEF runner
  <2>4. n \in stops /\ runner[n] = l.first
    BY <1>0, <1>2, <2>1, <2>2
  <2>5. ASSUME NEW k \in 0 .. n - 1
        PROVE  /\ runner[k] = nodes[k + 1]
               /\ k + 1 \in 1 .. n
               /\ k > 0 => runner[k] # l.first
               /\ k \in stops <=> pkts[k + 1].seqnum = s
    <3>1. k # n /\ k \in 0 .. n /\ k + 1 \in 1 .. n
      BY <1>0
    <3>2. runner[k] = nodes[k + 1]
      BY <2>2, <3>1
    <3>3. k > 0 => runner[k] # l.first
      BY <2>1, <3>1, <3>2
    <3>4. l.heap[runner[k]].seqnum = pkts[k + 1].seqnum
      BY <2>3, <3>1, <3>2
    <3> QED BY <1>0, <3>1, <3>2, <3>3, <3>4
  <2>6. stops \in SUBSET (0 .. n)
    BY <1>0
  <2>7. Find(l, s) = IF l.first = NULL \/ (Min(stops) > 0 /\ runner[Min(stops)] = l.first)
                     THEN NULL ELSE runner[Min(stops)]
    BY DEF Find, runner
  <2> HIDE DEF stops, n
  <2>8. CASE is_in_stack(pkts, s)
    <3> DEFINE p == FirstPosition(pkts, s)
    <3>1. /\ p \in 1 .. n /\ pkts[p].seqnum = s
          /\ \A j \in 1 .. n : pkts[j].seqnum = s => p <= j
      BY <1>0, <2>8, FirstPositionIs
    <3> HIDE DEF p
    <3>2. p - 1 \in stops /\ p - 1 \in 0 .. n - 1 /\ p - 1 + 1 = p
      BY <1>0, <2>5, <3>1
    <3>3. ASSUME NEW k \in stops PROVE p - 1 <= k
      BY <1>0, <2>5, <2>6, <3>1
    <3>4. Min(stops) = p - 1
      BY <1>0, <2>6, <3>2, <3>3, MinIs
    <3>5. runner[p - 1] = nodes[p] /\ (p - 1 > 0 => runner[p - 1] # l.first)
      BY <2>5, <3>2
    <3>6. Find(l, s) = nodes[p]
      BY <2>1, <2>7, <3>4, <3>5
    <3> QED BY <2>8, <3>6 DEF p
  <2>9. CASE ~is_in_stack(pkts, s)
    <3>1. \A j \in 1 .. n : pkts[j].seqnum # s
      BY <1>0, <2>9 DEF is_in_stack, Positions
    <3>2. ASSUME NEW k \in stops PROVE n <= k
      BY <1>0, <2>5, <2>6, <3>1
    <3>3. Min(stops) = n
      BY <1>0, <2>4, <2>6, <3>2, MinIs
    <3> QED BY <1>0, <1>2, <2>4, <2>7, <2>9, <3>3
  <2> QED BY <2>8, <2>9
<1> QED BY <1>1, <1>2

\* What a runner that counts the nodes finds.
LEMMA IsInStackIs ==
  ASSUME NEW l, NEW nodes, NEW pkts, Ring(l, nodes, pkts), NEW s
  PROVE  LinkedIsInStack(l, s) <=> is_in_stack(pkts, s)
<1> DEFINE n == Len(nodes)
<1>0. /\ n \in Nat /\ Len(pkts) = n /\ l.size = n
      /\ \A i \in 1 .. n : l.heap[nodes[i]].seqnum = pkts[i].seqnum
  BY RingIs
<1>1. ASSUME NEW k \in 0 .. n - 1
      PROVE  k + 1 \in 1 .. n /\ l.heap[Forward(l)[k]].seqnum = pkts[k + 1].seqnum
  <2>1. k # n /\ k \in 0 .. n /\ k + 1 \in 1 .. n /\ n # 0
    BY <1>0
  <2>2. Forward(l)[k] = nodes[k + 1]
    BY <2>1, ForwardIs
  <2> QED BY <1>0, <2>1, <2>2
<1>2. ASSUME NEW i \in 1 .. n
      PROVE  i - 1 \in 0 .. n - 1 /\ i - 1 + 1 = i
  BY <1>0
<1>3. LinkedIsInStack(l, s) <=> \E k \in 0 .. n - 1 : l.heap[Forward(l)[k]].seqnum = s
  BY <1>0 DEF LinkedIsInStack
<1>4. is_in_stack(pkts, s) <=> \E i \in 1 .. n : pkts[i].seqnum = s
  BY <1>0 DEF is_in_stack, Positions
<1> HIDE DEF n
<1> QED BY <1>1, <1>2, <1>3, <1>4

\* Where a runner that goes back from last stops.
LEMMA PlaceIs ==
  ASSUME NEW l, NEW nodes, NEW pkts, Ring(l, nodes, pkts), Len(nodes) # 0, NEW s
  PROVE  /\ EnqueueAfter(pkts, s) \in 1 .. Len(nodes)
         /\ Place(l, s) = nodes[EnqueueAfter(pkts, s)]
<1> DEFINE n == Len(nodes)
           runner == Backward(l)
           stops == {k \in 0 .. l.size : \/ k > 0 /\ runner[k] = l.first
                                         \/ ~Passes(s, l.heap[runner[k]])}
           ends(i) == i = 1 \/ ~Passes(s, pkts[i])
<1>0. n \in Nat /\ n # 0 /\ Len(pkts) = n /\ l.size = n
  BY RingIs
<1>1. /\ l.first = nodes[1]
      /\ \A i \in 1 .. n : nodes[i] = l.first => i = 1
  <2>1. 1 \in 1 .. n
    BY <1>0
  <2>2. l.first = nodes[1]
    BY <1>0, RingIs
  <2> QED BY <2>1, <2>2 DEF Ring
<1>2. \A k \in 0 .. n : runner[k] = nodes[IF k = n THEN n ELSE n - k]
  BY BackwardIs
<1>3. \A i \in 1 .. n : l.heap[nodes[i]].seqnum = pkts[i].seqnum
  BY RingIs
<1>4. \A i \in 1 .. n : Passes(s, l.heap[nodes[i]]) <=> Passes(s, pkts[i])
  BY <1>3 DEF Passes
<1> HIDE DEF runner
<1>5. ASSUME NEW k \in 0 .. n - 1
      PROVE  /\ runner[k] = nodes[n - k] /\ n - k \in 1 .. n
             /\ k \in stops <=> (ends(n - k) /\ (k > 0 \/ ~Passes(s, pkts[n - k])))
  <2>1. k # n /\ k \in 0 .. n /\ n - k \in 1 .. n
    BY <1>0
  <2>2. runner[k] = nodes[n - k]
    BY <1>2, <2>1
  <2>3. runner[k] = l.first <=> n - k = 1
    BY <1>1, <2>1, <2>2
  <2>4. Passes(s, l.heap[runner[k]]) <=> Passes(s, pkts[n - k])
    BY <1>4, <2>1, <2>2
  <2> HIDE DEF n
  <2>5. k \in stops <=> (k > 0 /\ n - k = 1) \/ ~Passes(s, pkts[n - k])
    BY <1>0, <2>1, <2>3, <2>4
  <2> QED BY <1>0, <2>1, <2>2, <2>5
<1> DEFINE p == EnqueueAfter(pkts, s)
<1>6. /\ p \in 1 .. n /\ ends(p)
      /\ \A j \in p + 1 .. n : Passes(s, pkts[j])
  BY <1>0, EnqueueAfterIs
<1>7. stops \in SUBSET (0 .. n) /\ (n > 0 /\ runner[n] = l.first => n \in stops)
  BY <1>0
<1>8. Place(l, s) = runner[Min(stops)]
  BY DEF Place, runner
<1>9. runner[n] = nodes[n]
  BY <1>0, <1>2
<1> HIDE DEF p, n, stops
<1>10. CASE p = n /\ Passes(s, pkts[n])
  <2>1. n = 1
    BY <1>6, <1>10
  <2>2. 0 \notin stops
    BY <1>5, <1>10, <2>1
  <2>3. 1 \in stops /\ runner[1] = nodes[1]
    BY <1>1, <1>7, <1>9, <2>1
  <2>4. Min(stops) = 1
    BY <1>7, <2>1, <2>2, <2>3, MinIs
  <2> QED BY <1>6, <1>8, <1>10, <2>1, <2>3, <2>4 DEF p, n
<1>11. CASE ~(p = n /\ Passes(s, pkts[n]))
  <2>1. n - p \in 0 .. n - 1 /\ n - (n - p) = p
    BY <1>0, <1>6
  <2>2. n - p > 0 \/ ~Passes(s, pkts[p])
    BY <1>0, <1>6, <1>11
  <2>3. n - p \in stops /\ runner[n - p] = nodes[p]
    BY <1>5, <1>6, <2>1, <2>2
  <2>4. ASSUME NEW k \in stops, k < n - p PROVE FALSE
    <3>1. k \in 0 .. n - 1 /\ n - k \in p + 1 .. n /\ n - k # 1
      BY <1>0, <1>6, <1>7, <2>4
    <3>2. ends(n - k)
      BY <1>5, <2>4, <3>1
    <3> QED BY <1>6, <3>1, <3>2
  <2>5. \A k \in stops : n - p <= k
    BY <1>0, <1>6, <1>7, <2>4
  <2>6. Min(stops) = n - p
    BY <1>0, <1>7, <2>3, <2>5, MinIs
  <2> QED BY <1>6, <1>8, <2>3, <2>6 DEF p, n
<1> QED BY <1>10, <1>11

-----------------------------------------------------------------------------
\* The addresses that are free are those of no node of the ring.
LEMMA FreeIs ==
  ASSUME NEW l, NEW nodes, NEW pkts, Ring(l, nodes, pkts), NEW a \in Addresses
  PROVE  a \in FreeAddresses(l) <=> \A i \in 1 .. Len(nodes) : nodes[i] # a
<1>1. (\A i \in 1 .. Len(nodes) : nodes[i] # a) => a \in FreeAddresses(l)
  BY DEF Ring, FreeAddresses, Unallocated
<1>2. ASSUME NEW i \in 1 .. Len(nodes), nodes[i] = a
      PROVE  a \notin FreeAddresses(l)
  BY <1>2, RingIs DEF FreeAddresses
<1> QED BY <1>1, <1>2

\* There is no free address when the ring has all the nodes there are.
LEMMA RoomIs ==
  ASSUME NEW l, NEW nodes, NEW pkts, Ring(l, nodes, pkts)
  PROVE  /\ Len(nodes) <= MaxNodes
         /\ FreeAddresses(l) = {} <=> Len(nodes) = MaxNodes
         /\ Cardinality({nodes[i] : i \in 1 .. Len(nodes)}) = Len(nodes)
<1> DEFINE n == Len(nodes)
           R == {nodes[i] : i \in 1 .. n}
           f == [i \in 1 .. n |-> nodes[i]]
<1>0. n \in Nat /\ R \subseteq Addresses
  <2>1. n \in Nat /\ \A i \in 1 .. n : nodes[i] \in Addresses
    BY RingIs
  <2> QED BY <2>1
<1>1. /\ IsFiniteSet(Addresses) /\ Cardinality(Addresses) = MaxNodes
      /\ IsFiniteSet(1 .. n) /\ Cardinality(1 .. n) = n
  <2>1. /\ IsFiniteSet(1 .. MaxNodes)
        /\ Cardinality(1 .. MaxNodes) = IF 1 > MaxNodes THEN 0 ELSE MaxNodes - 1 + 1
    BY LinkedStackAssumption, FS_Interval
  <2>2. /\ IsFiniteSet(1 .. n)
        /\ Cardinality(1 .. n) = IF 1 > n THEN 0 ELSE n - 1 + 1
    BY <1>0, FS_Interval
  <2> QED BY <1>0, <2>1, <2>2, LinkedStackAssumption DEF Addresses
<1>2. f \in Bijection(1 .. n, R)
  <2>1. f \in [1 .. n -> R] /\ \A i, j \in 1 .. n : f[i] = f[j] => i = j
    BY DEF Ring
  <2>2. \A a \in R : \E i \in 1 .. n : f[i] = a
    OBVIOUS
  <2> QED BY <2>1, <2>2 DEF Bijection, Injection, Surjection, IsInjective
<1>3. Cardinality(R) = n
  <2>1. ExistsBijection(1 .. n, R)
    BY <1>2 DEF ExistsBijection
  <2> QED BY <1>1, <2>1, FS_Bijection
<1>4. /\ Cardinality(R) <= Cardinality(Addresses)
      /\ Cardinality(R) = Cardinality(Addresses) => R = Addresses
  BY <1>0, <1>1, FS_Subset
<1>5. FreeAddresses(l) = {} <=> R = Addresses
  <2>1. FreeAddresses(l) \subseteq Addresses
    BY DEF FreeAddresses
  <2>2. \A a \in Addresses : a \in FreeAddresses(l) <=> a \notin R
    BY FreeIs
  <2> QED BY <1>0, <2>1, <2>2
<1> QED BY <1>1, <1>3, <1>4, <1>5

LEMMA MallocIs ==
  ASSUME NEW l, FreeAddresses(l) # {}
  PROVE  Malloc(l) \in FreeAddresses(l)
<1>1. FreeAddresses(l) \in SUBSET Nat
  BY DEF FreeAddresses, Addresses
<1>2. \E a \in FreeAddresses(l) : \A b \in FreeAddresses(l) : a <= b
  BY <1>1, Least
<1> QED BY <1>2 DEF Malloc

\* newNode alone.
LEMMA OnlyNodeIs ==
  ASSUME NEW l, NEW nodes, NEW pkts, Ring(l, nodes, pkts), Len(nodes) = 0,
         FreeAddresses(l) # {}, NEW pkt \in Packets
  PROVE  Ring(InsertOnlyNode(l, pkt), <<Malloc(l)>>, <<pkt>>)
<1> DEFINE new == Malloc(l)
           after == InsertOnlyNode(l, pkt)
<1>1. new \in Addresses
  BY MallocIs DEF FreeAddresses
<1>2. /\ <<new>> \in Seq(Addresses) /\ Len(<<new>>) = 1 /\ <<new>>[1] = new
      /\ <<pkt>> \in Seq(Packets) /\ Len(<<pkt>>) = 1 /\ <<pkt>>[1] = pkt
  BY <1>1
<1>3. /\ l.heap = [a \in Addresses |-> l.heap[a]]
      /\ \A a \in Addresses : l.heap[a] = Unallocated
  BY DEF Ring, IsHeap
<1> HIDE DEF new
<1>4. after = [first |-> new, last |-> new, size |-> 1,
               heap |-> [l.heap EXCEPT ![new] = Node(new, new, pkt)]]
  BY DEF InsertOnlyNode, new
<1> DEFINE heap == after.heap
<1>5. /\ after = [first |-> new, last |-> new, size |-> 1, heap |-> heap]
      /\ heap = [l.heap EXCEPT ![new] = Node(new, new, pkt)]
  BY <1>4
<1> HIDE DEF after, heap
<1>6. /\ heap = [a \in Addresses |-> heap[a]]
      /\ heap[new] = Node(new, new, pkt)
      /\ \A a \in Addresses : a # new => heap[a] = Unallocated
  BY <1>1, <1>3, <1>5
<1>7. after.heap = heap
  BY <1>5
<1>8. \A i \in 1 .. 1 : i = 1 /\ After(i, 1) = 1 /\ Before(i, 1) = 1
  BY DEF After, Before
<1> QED BY <1>2, <1>5, <1>6, <1>7, <1>8 DEF Ring, IsHeap, new, after

\* A node put in after position p moves those behind it one place.
Moved(p, j) == IF j <= p THEN j ELSE j + 1

LEMMA MovedIs ==
  ASSUME NEW n \in Nat, NEW p \in 1 .. n, NEW j \in 1 .. n
  PROVE  /\ Moved(p, j) \in 1 .. n + 1 /\ Moved(p, j) # p + 1
         /\ After(Moved(p, j), n + 1) = IF j = p THEN p + 1 ELSE Moved(p, After(j, n))
         /\ Before(Moved(p, j), n + 1) =
              IF j = After(p, n) THEN p + 1 ELSE Moved(p, Before(j, n))
  BY DEF Moved, After, Before

LEMMA MovedOnto ==
  ASSUME NEW n \in Nat, NEW p \in 1 .. n, NEW i \in 1 .. n + 1, i # p + 1
  PROVE  \E j \in 1 .. n : i = Moved(p, j)
<1>1. CASE i <= p
  BY <1>1 DEF Moved
<1>2. CASE i > p + 1
  <2>1. i - 1 \in 1 .. n /\ ~(i - 1 <= p) /\ i = i - 1 + 1
    BY <1>2
  <2> QED BY <2>1 DEF Moved
<1> QED BY <1>1, <1>2

SetPrev(node, a) == [node EXCEPT !.prev = a]
SetNext(node, a) == [node EXCEPT !.next = a]

LEMMA NodeSet ==
  ASSUME NEW next, NEW prev, NEW pkt, NEW a
  PROVE  /\ SetPrev(Node(next, prev, pkt), a) = Node(next, a, pkt)
         /\ SetNext(Node(next, prev, pkt), a) = Node(a, prev, pkt)
<1> DEFINE r(n, p, x, y) == [next |-> n, prev |-> p, pkt |-> pkt, seqnum |-> x, free |-> y]
<1>1. ASSUME NEW x, NEW y
      PROVE  /\ SetPrev(r(next, prev, x, y), a) = r(next, a, x, y)
             /\ SetNext(r(next, prev, x, y), a) = r(a, prev, x, y)
  BY DEF SetPrev, SetNext
<1>2. ASSUME NEW n, NEW p PROVE Node(n, p, pkt) = r(n, p, pkt.seqnum, FALSE)
  BY DEF Node
<1>3. PICK x, y : x = pkt.seqnum /\ y = FALSE
  OBVIOUS
<1> HIDE DEF r
<1>4. Node(next, prev, pkt) = r(next, prev, x, y)
  BY <1>2, <1>3
<1>5. Node(a, prev, pkt) = r(a, prev, x, y)
  BY <1>2, <1>3
<1>6. Node(next, a, pkt) = r(next, a, x, y)
  BY <1>2, <1>3
<1> QED BY <1>1, <1>4, <1>5, <1>6

\* The heap once a node is put in between c and b.
Spliced(h, new, node, b, c) ==
  [h EXCEPT ![new] = node, ![b].prev = new, ![c].next = new]

\* The nodes that the three assignments change, and the others.
LEMMA SplicedIs ==
  ASSUME NEW h, IsHeap(h), NEW new \in Addresses, NEW node,
         NEW b \in Addresses \ {new}, NEW c \in Addresses \ {new}, NEW g,
         g = Spliced(h, new, node, b, c)
  PROVE  /\ IsHeap(g)
         /\ g[new] = node
         /\ \A a \in Addresses : a # new /\ a # b /\ a # c => g[a] = h[a]
         /\ b # c => /\ g[b] = SetPrev(h[b], new)
                     /\ g[c] = SetNext(h[c], new)
         /\ b = c => g[b] = SetNext(SetPrev(h[b], new), new)
<1> DEFINE h1 == [h EXCEPT ![new] = node]
           h2 == [h1 EXCEPT ![b] = SetPrev(h1[b], new)]
           h3 == [h2 EXCEPT ![c] = SetNext(h2[c], new)]
<1>1. g = h3
  BY DEF Spliced, SetPrev, SetNext
<1>2. /\ h1 = [a \in Addresses |-> h1[a]]
      /\ h1[new] = node /\ \A a \in Addresses : a # new => h1[a] = h[a]
  BY DEF IsHeap
<1> HIDE DEF h1
<1>3. /\ h2 = [a \in Addresses |-> h2[a]]
      /\ h2[b] = SetPrev(h1[b], new)
      /\ \A a \in Addresses : a # b => h2[a] = h1[a]
  BY <1>2
<1> HIDE DEF h2
<1>4. /\ h3 = [a \in Addresses |-> h3[a]]
      /\ h3[c] = SetNext(h2[c], new)
      /\ \A a \in Addresses : a # c => h3[a] = h2[a]
  BY <1>3
<1> HIDE DEF h3
<1>5. b # c => /\ g[b] = SetPrev(h[b], new)
               /\ g[c] = SetNext(h[c], new)
  BY <1>1, <1>2, <1>3, <1>4
<1>6. b = c => g[b] = SetNext(SetPrev(h[b], new), new)
  BY <1>1, <1>2, <1>3, <1>4
<1> QED BY <1>1, <1>2, <1>3, <1>4, <1>5, <1>6 DEF IsHeap

\* The packets once one is put in at q.
LEMMA PacketPutIn ==
  ASSUME NEW pkts \in Seq(Packets), NEW pkt \in Packets, NEW q \in 1 .. Len(pkts) + 1
  PROVE  /\ InsertAt(pkts, q, pkt) \in Seq(Packets)
         /\ Len(InsertAt(pkts, q, pkt)) = Len(pkts) + 1
         /\ \A i \in 1 .. Len(pkts) + 1 :
              InsertAt(pkts, q, pkt)[i] =
                IF i < q THEN pkts[i] ELSE IF i = q THEN pkt ELSE pkts[i - 1]
<1>1. PICK S : S = Packets
  OBVIOUS
<1>2. pkts \in Seq(S) /\ pkt \in S /\ q \in 1 .. Len(pkts) + 1
  BY <1>1
<1>3. /\ InsertAt(pkts, q, pkt) \in Seq(S)
      /\ Len(InsertAt(pkts, q, pkt)) = Len(pkts) + 1
      /\ \A i \in 1 .. Len(pkts) + 1 :
           InsertAt(pkts, q, pkt)[i] =
             IF i < q THEN pkts[i] ELSE IF i = q THEN pkt ELSE pkts[i - 1]
  BY ONLY <1>2, InsertAtIs
<1> QED BY <1>1, <1>3

\* newNode after the node at p: every pointer to and from it is set.
LEMMA InsertedIs ==
  ASSUME NEW l, NEW nodes, NEW pkts, Ring(l, nodes, pkts), FreeAddresses(l) # {},
         NEW p \in 1 .. Len(nodes), NEW pkt \in Packets
  PROVE  Ring(InsertAfter(l, nodes[p], pkt),
              InsertAt(nodes, p + 1, Malloc(l)), InsertAt(pkts, p + 1, pkt))
<1> DEFINE n == Len(nodes)
           new == Malloc(l)
           follower == nodes[After(p, n)]
           all == InsertAt(nodes, p + 1, new)
           packets == InsertAt(pkts, p + 1, pkt)
           after == InsertAfter(l, nodes[p], pkt)
           heap == after.heap
<1> HIDE DEF all, packets, after, heap
<1>0. /\ n \in Nat /\ n # 0 /\ Len(pkts) = n /\ l.size = n
      /\ l.first = nodes[1] /\ l.last = nodes[n]
      /\ l.heap[nodes[p]].next = follower
  BY RingIs
<1>1. new \in Addresses /\ \A i \in 1 .. n : nodes[i] # new
  <2>1. new \in FreeAddresses(l) /\ new \in Addresses
    BY MallocIs DEF FreeAddresses
  <2> QED BY <2>1, FreeIs
<1>2. /\ nodes \in Seq(Addresses) /\ pkts \in Seq(Packets)
      /\ \A i, j \in 1 .. n : nodes[i] = nodes[j] => i = j
      /\ IsHeap(l.heap)
      /\ \A a \in Addresses :
           (\A i \in 1 .. n : nodes[i] # a) => l.heap[a] = Unallocated
      /\ \A i \in 1 .. n :
           l.heap[nodes[i]] = Node(nodes[After(i, n)], nodes[Before(i, n)], pkts[i])
  BY DEF Ring
<1>3. \A i \in 1 .. n :
        /\ nodes[i] \in Addresses
        /\ After(i, n) \in 1 .. n /\ Before(i, n) \in 1 .. n
  BY RingIs
<1>4. p \in 1 .. n /\ p + 1 \in 1 .. Len(nodes) + 1 /\ p + 1 \in 1 .. Len(pkts) + 1
  BY <1>0
<1>5. /\ all \in Seq(Addresses) /\ Len(all) = n + 1
      /\ \A i \in 1 .. n + 1 :
           all[i] = IF i < p + 1 THEN nodes[i] ELSE IF i = p + 1 THEN new ELSE nodes[i - 1]
  <2>1. PICK q : q = p + 1
    OBVIOUS
  <2> HIDE DEF new, n
  <2>2. all = InsertAt(nodes, q, new) /\ q \in 1 .. Len(nodes) + 1
    BY <1>4, <2>1 DEF all
  <2>3. nodes \in Seq(Addresses) /\ new \in Addresses
    BY <1>1, <1>2
  <2>4. /\ InsertAt(nodes, q, new) \in Seq(Addresses)
        /\ Len(InsertAt(nodes, q, new)) = Len(nodes) + 1
        /\ \A i \in 1 .. Len(nodes) + 1 :
             InsertAt(nodes, q, new)[i] =
               IF i < q THEN nodes[i] ELSE IF i = q THEN new ELSE nodes[i - 1]
    BY <2>2, <2>3, InsertAtIs, LenProperties
  <2> QED BY <2>1, <2>2, <2>4 DEF n
<1>6. /\ packets \in Seq(Packets) /\ Len(packets) = Len(pkts) + 1
      /\ \A i \in 1 .. Len(pkts) + 1 :
           packets[i] = IF i < p + 1 THEN pkts[i] ELSE IF i = p + 1 THEN pkt ELSE pkts[i - 1]
  <2>1. PICK q : q = p + 1
    OBVIOUS
  <2>2. packets = InsertAt(pkts, q, pkt) /\ q \in 1 .. Len(pkts) + 1
    BY <1>4, <2>1 DEF packets
  <2>3. pkts \in Seq(Packets)
    BY <1>2
  <2>4. /\ InsertAt(pkts, q, pkt) \in Seq(Packets)
        /\ Len(InsertAt(pkts, q, pkt)) = Len(pkts) + 1
        /\ \A i \in 1 .. Len(pkts) + 1 :
             InsertAt(pkts, q, pkt)[i] =
               IF i < q THEN pkts[i] ELSE IF i = q THEN pkt ELSE pkts[i - 1]
    BY <2>2, <2>3, PacketPutIn
  <2> QED BY <2>1, <2>2, <2>4
<1>7. /\ after = [first |-> IF nodes[p] # l.last /\ follower = l.first THEN new ELSE l.first,
                  last |-> IF nodes[p] = l.last THEN new ELSE l.last,
                  size |-> n + 1, heap |-> heap]
      /\ heap = Spliced(l.heap, new, Node(follower, nodes[p], pkt), follower, nodes[p])
  BY <1>0 DEF InsertAfter, Spliced, after, heap
<1> HIDE DEF n, new
<1>8. p \in 1 .. n /\ p + 1 \in 1 .. n + 1 /\ After(p, n) \in 1 .. n
  BY <1>0, <1>3, <1>4 DEF n
<1>9. /\ all[p + 1] = new /\ packets[p + 1] = pkt
      /\ \A j \in 1 .. n : all[Moved(p, j)] = nodes[j] /\ packets[Moved(p, j)] = pkts[j]
  <2>1. all[p + 1] = new /\ packets[p + 1] = pkt
    BY <1>0, <1>5, <1>6, <1>8
  <2>2. ASSUME NEW j \in 1 .. n
        PROVE  all[Moved(p, j)] = nodes[j] /\ packets[Moved(p, j)] = pkts[j]
    <3>1. CASE j <= p
      <4>1. Moved(p, j) = j /\ j \in 1 .. n + 1 /\ j < p + 1
        BY <1>0, <1>8, <3>1 DEF Moved
      <4> QED BY <1>0, <1>5, <1>6, <4>1
    <3>2. CASE ~(j <= p)
      <4>1. PICK i \in 1 .. n + 1 : i = j + 1
        BY <1>0
      <4>2. Moved(p, j) = i /\ ~(i < p + 1) /\ i # p + 1 /\ i - 1 = j
        BY <1>0, <1>8, <3>2, <4>1 DEF Moved
      <4> QED BY <1>0, <1>5, <1>6, <4>2
    <3> QED BY <3>1, <3>2
  <2> QED BY <2>1, <2>2
<1>10. after = [first |-> all[1], last |-> all[n + 1], size |-> n + 1, heap |-> heap]
  <2>1. all[1] = nodes[1] /\ 1 \in 1 .. n /\ n \in 1 .. n
    BY <1>0, <1>5, <1>8
  <2>2. nodes[p] = l.last <=> p = n
    BY <1>0, <1>2, <1>8, <2>1
  <2>3. follower = l.first => p = n
    BY <1>0, <1>2, <1>8, <2>1 DEF After
  <2>4. all[n + 1] = IF p = n THEN new ELSE nodes[n]
    BY <1>0, <1>5, <1>8
  <2> QED BY <1>0, <1>7, <2>1, <2>2, <2>3, <2>4
<1>11. /\ nodes[p] \in Addresses \ {new} /\ follower \in Addresses \ {new}
  BY <1>1, <1>3, <1>8
<1>12. /\ IsHeap(heap)
       /\ heap[new] = Node(follower, nodes[p], pkt)
       /\ \A a \in Addresses : a # new /\ a # follower /\ a # nodes[p] => heap[a] = l.heap[a]
       /\ follower # nodes[p] =>
            /\ heap[follower] = SetPrev(l.heap[follower], new)
            /\ heap[nodes[p]] = SetNext(l.heap[nodes[p]], new)
       /\ follower = nodes[p] =>
            heap[follower] = SetNext(SetPrev(l.heap[follower], new), new)
  <2>1. PICK b, c, node : b = follower /\ c = nodes[p] /\ node = Node(follower, nodes[p], pkt)
    OBVIOUS
  <2>2. /\ b \in Addresses \ {new} /\ c \in Addresses \ {new}
        /\ new \in Addresses /\ IsHeap(l.heap)
        /\ heap = Spliced(l.heap, new, node, b, c)
    BY <1>1, <1>2, <1>7, <1>11, <2>1
  <2> HIDE DEF follower
  <2>3. PICK h : h = l.heap
    OBVIOUS
  <2>4. /\ IsHeap(heap)
        /\ heap[new] = node
        /\ \A a \in Addresses : a # new /\ a # b /\ a # c => heap[a] = h[a]
        /\ b # c => /\ heap[b] = SetPrev(h[b], new)
                    /\ heap[c] = SetNext(h[c], new)
        /\ b = c => heap[b] = SetNext(SetPrev(h[b], new), new)
    BY <2>2, <2>3, SplicedIs
  <2> QED BY <2>1, <2>3, <2>4
<1>13. ASSUME NEW j \in 1 .. n
       PROVE  heap[nodes[j]] = Node(IF j = p THEN new ELSE nodes[After(j, n)],
                                    IF j = After(p, n) THEN new ELSE nodes[Before(j, n)],
                                    pkts[j])
  <2>1. /\ nodes[j] \in Addresses /\ nodes[j] # new
        /\ nodes[j] = follower <=> j = After(p, n)
        /\ nodes[j] = nodes[p] <=> j = p
    BY <1>1, <1>2, <1>3, <1>8
  <2>2. PICK x, y, r : /\ x = nodes[After(j, n)] /\ y = nodes[Before(j, n)]
                       /\ r = l.heap[nodes[j]] /\ r = Node(x, y, pkts[j])
    BY <1>2
  <2>3. CASE j = After(p, n) /\ j = p
    <3>1. heap[nodes[j]] = SetNext(SetPrev(r, new), new)
      BY <1>12, <2>1, <2>2, <2>3
    <3>2. SetPrev(r, new) = Node(x, new, pkts[j])
      BY <2>2, NodeSet
    <3>3. SetNext(Node(x, new, pkts[j]), new) = Node(new, new, pkts[j])
      BY NodeSet
    <3> QED BY <2>3, <3>1, <3>2, <3>3
  <2>4. CASE j = After(p, n) /\ j # p
    <3>1. heap[nodes[j]] = SetPrev(r, new)
      BY <1>12, <2>1, <2>2, <2>4
    <3>2. SetPrev(r, new) = Node(x, new, pkts[j])
      BY <2>2, NodeSet
    <3> QED BY <2>2, <2>4, <3>1, <3>2
  <2>5. CASE j # After(p, n) /\ j = p
    <3>1. heap[nodes[j]] = SetNext(r, new)
      BY <1>12, <2>1, <2>2, <2>5
    <3>2. SetNext(r, new) = Node(new, y, pkts[j])
      BY <2>2, NodeSet
    <3> QED BY <2>2, <2>5, <3>1, <3>2
  <2>6. CASE j # After(p, n) /\ j # p
    BY <1>12, <2>1, <2>2, <2>6
  <2> QED BY <2>3, <2>4, <2>5, <2>6
<1>14. ASSUME NEW i \in 1 .. n + 1
       PROVE  heap[all[i]] = Node(all[After(i, n + 1)], all[Before(i, n + 1)], packets[i])
  <2>1. CASE i = p + 1
    <3>1. all[Before(i, n + 1)] = nodes[p]
      BY <1>0, <1>5, <1>8, <2>1 DEF Before
    <3>2. all[After(i, n + 1)] = follower
      BY <1>0, <1>5, <1>8, <2>1 DEF After
    <3> QED BY <1>9, <1>12, <2>1, <3>1, <3>2
  <2>2. ASSUME NEW j \in 1 .. n, i = Moved(p, j)
        PROVE  heap[all[i]] = Node(all[After(i, n + 1)], all[Before(i, n + 1)], packets[i])
    <3>0. /\ After(i, n + 1) = IF j = p THEN p + 1 ELSE Moved(p, After(j, n))
          /\ Before(i, n + 1) = IF j = After(p, n) THEN p + 1 ELSE Moved(p, Before(j, n))
      BY <1>0, <1>8, <2>2, MovedIs
    <3>1. all[After(i, n + 1)] = IF j = p THEN new ELSE nodes[After(j, n)]
      BY <1>3, <1>9, <3>0
    <3>2. all[Before(i, n + 1)] = IF j = After(p, n) THEN new ELSE nodes[Before(j, n)]
      BY <1>3, <1>9, <3>0
    <3> QED BY <1>9, <1>13, <2>2, <3>1, <3>2
  <2> QED BY <1>0, <1>8, <2>1, <2>2, MovedOnto
<1>15. \A j \in 1 .. n : Moved(p, j) \in 1 .. n + 1
  BY <1>0, <1>8, MovedIs
<1>16. ASSUME NEW i \in 1 .. n + 1, NEW k \in 1 .. n + 1, all[i] = all[k]
       PROVE  i = k
  <2>1. i = p + 1 \/ \E j \in 1 .. n : i = Moved(p, j)
    BY <1>0, <1>8, MovedOnto
  <2>2. k = p + 1 \/ \E j \in 1 .. n : k = Moved(p, j)
    BY <1>0, <1>8, MovedOnto
  <2>3. \A j \in 1 .. n : nodes[j] # new
    BY <1>1
  <2>4. \A j, m \in 1 .. n : nodes[j] = nodes[m] => j = m
    BY <1>2
  <2> QED BY <1>9, <1>16, <2>1, <2>2, <2>3, <2>4
<1>17. ASSUME NEW a \in Addresses, \A i \in 1 .. n + 1 : all[i] # a
       PROVE  heap[a] = Unallocated
  <2>1. ASSUME NEW j \in 1 .. n PROVE nodes[j] # a
    BY <1>9, <1>17, <1>15
  <2>2. a # new
    BY <1>8, <1>9, <1>17
  <2>3. heap[a] = l.heap[a]
    BY <1>8, <1>12, <2>1, <2>2
  <2> QED BY <1>2, <2>1, <2>3
<1>18. after.heap = heap
  BY <1>10
<1>19. n + 1 # 0 /\ Len(all) = n + 1 /\ Len(packets) = n + 1
  BY <1>0, <1>5, <1>6
<1>20. Ring(after, all, packets)
  BY <1>5, <1>6, <1>10, <1>12, <1>14, <1>16, <1>17, <1>18, <1>19 DEF Ring
<1> QED BY <1>20 DEF after, all, packets, new

\* stack_enqueue does to the nodes what it does to the sequence.
LEMMA EnqueuedIs ==
  ASSUME NEW l, NEW nodes, NEW pkts, Ring(l, nodes, pkts), FreeAddresses(l) # {},
         NEW pkt \in Packets
  PROVE  \E all : Ring(Enqueued(l, pkt), all, stack_enqueue(pkts, pkt))
<1>0. /\ Len(nodes) \in Nat /\ Len(pkts) = Len(nodes) /\ l.size = Len(nodes)
      /\ pkts \in Seq(Packets)
  BY RingIs DEF Ring
<1>1. CASE Len(nodes) = 0
  <2>1. Enqueued(l, pkt) = InsertOnlyNode(l, pkt)
    BY <1>0, <1>1 DEF Enqueued
  <2>2. stack_enqueue(pkts, pkt) = <<pkt>>
    BY <1>0, <1>1, EmptySeq DEF stack_enqueue
  <2> QED BY <1>1, <2>1, <2>2, OnlyNodeIs
<1>2. CASE Len(nodes) # 0
  <2> DEFINE p == EnqueueAfter(pkts, pkt.seqnum)
  <2>1. p \in 1 .. Len(nodes) /\ Place(l, pkt.seqnum) = nodes[p]
    BY <1>2, PlaceIs
  <2>2. stack_enqueue(pkts, pkt) = InsertAt(pkts, p + 1, pkt)
    BY <1>0, <1>2, EmptySeq DEF stack_enqueue
  <2>3. Enqueued(l, pkt) = InsertAfter(l, nodes[p], pkt)
    BY <1>0, <1>2, <2>1 DEF Enqueued
  <2> HIDE DEF p
  <2>4. Ring(InsertAfter(l, nodes[p], pkt),
             InsertAt(nodes, p + 1, Malloc(l)), InsertAt(pkts, p + 1, pkt))
    BY <2>1, InsertedIs
  <2> QED BY <2>2, <2>3, <2>4
<1> QED BY <1>1, <1>2

-----------------------------------------------------------------------------
\* The node at position k taken out brings those behind it one place nearer.
Kept(k, j) == IF j < k THEN j ELSE j + 1

LEMMA KeptIs ==
  ASSUME NEW n \in Nat, NEW k \in 1 .. n, NEW j \in 1 .. n - 1
  PROVE  /\ Kept(k, j) \in 1 .. n /\ Kept(k, j) # k
         /\ After(j, n - 1) \in 1 .. n - 1 /\ Before(j, n - 1) \in 1 .. n - 1
         /\ Kept(k, After(j, n - 1)) =
              IF Kept(k, j) = Before(k, n) THEN After(k, n) ELSE After(Kept(k, j), n)
         /\ Kept(k, Before(j, n - 1)) =
              IF Kept(k, j) = After(k, n) THEN Before(k, n) ELSE Before(Kept(k, j), n)
  BY DEF Kept, After, Before

LEMMA KeptOnto ==
  ASSUME NEW n \in Nat, NEW k \in 1 .. n, NEW i \in 1 .. n, i # k
  PROVE  \E j \in 1 .. n - 1 : i = Kept(k, j)
<1>1. CASE i < k
  BY <1>1 DEF Kept
<1>2. CASE i > k
  <2>1. i - 1 \in 1 .. n - 1 /\ ~(i - 1 < k) /\ i = i - 1 + 1
    BY <1>2
  <2> QED BY <2>1 DEF Kept
<1> QED BY <1>1, <1>2

\* The elements once the one at k is taken out.
LEMMA TakenOut ==
  ASSUME NEW S, NEW seq \in Seq(S), NEW k \in 1 .. Len(seq)
  PROVE  /\ RemoveAt(seq, k) \in Seq(S) /\ Len(RemoveAt(seq, k)) = Len(seq) - 1
         /\ \A j \in 1 .. Len(seq) - 1 : RemoveAt(seq, k)[j] = seq[Kept(k, j)]
<1>1. Len(seq) \in Nat
  BY LenProperties
<1>2. /\ RemoveAt(seq, k) \in Seq(S) /\ Len(RemoveAt(seq, k)) = Len(seq) - 1
      /\ \A j \in 1 .. Len(seq) - 1 :
           RemoveAt(seq, k)[j] = IF j < k THEN seq[j] ELSE seq[j + 1]
  BY RemoveAtIs
<1> HIDE DEF RemoveAt
<1> QED BY <1>1, <1>2 DEF Kept

\* The heap once the node at a is taken out from between b and c.
Unspliced(h, a, b, c) ==
  [h EXCEPT ![b].next = c, ![c].prev = b, ![a] = Unallocated]

LEMMA UnsplicedIs ==
  ASSUME NEW h, IsHeap(h), NEW a \in Addresses,
         NEW b \in Addresses, NEW c \in Addresses, b # a, c # a, NEW g,
         g = Unspliced(h, a, b, c)
  PROVE  /\ IsHeap(g)
         /\ g[a] = Unallocated
         /\ \A e \in Addresses : e # a /\ e # b /\ e # c => g[e] = h[e]
         /\ b # c => g[b] = SetNext(h[b], c) /\ g[c] = SetPrev(h[c], b)
         /\ b = c => g[b] = SetPrev(SetNext(h[b], c), b)
<1> DEFINE h1 == [h EXCEPT ![b] = SetNext(h[b], c)]
           h2 == [h1 EXCEPT ![c] = SetPrev(h1[c], b)]
           h3 == [h2 EXCEPT ![a] = Unallocated]
<1>1. g = h3
  BY DEF Unspliced, SetPrev, SetNext
<1>2. /\ h1 = [e \in Addresses |-> h1[e]]
      /\ h1[b] = SetNext(h[b], c) /\ \A e \in Addresses : e # b => h1[e] = h[e]
  BY DEF IsHeap
<1> HIDE DEF h1
<1>3. /\ h2 = [e \in Addresses |-> h2[e]]
      /\ h2[c] = SetPrev(h1[c], b)
      /\ \A e \in Addresses : e # c => h2[e] = h1[e]
  BY <1>2
<1> HIDE DEF h2
<1>4. /\ h3 = [e \in Addresses |-> h3[e]]
      /\ h3[a] = Unallocated
      /\ \A e \in Addresses : e # a => h3[e] = h2[e]
  BY <1>3
<1> HIDE DEF h3
<1>5. b # c => g[b] = SetNext(h[b], c) /\ g[c] = SetPrev(h[c], b)
  BY <1>1, <1>2, <1>3, <1>4
<1>6. b = c => g[b] = SetPrev(SetNext(h[b], c), b)
  BY <1>1, <1>2, <1>3, <1>4
<1> QED BY <1>1, <1>2, <1>3, <1>4, <1>5, <1>6 DEF IsHeap

\* The only node goes.
LEMMA LastNodeIs ==
  ASSUME NEW l, NEW nodes, NEW pkts, Ring(l, nodes, pkts), NEW n, n = Len(nodes),
         NEW k \in 1 .. n
  PROVE  n = 1 => Ring(RemoveNode(l, nodes[k]), RemoveAt(nodes, k), RemoveAt(pkts, k))
<1> DEFINE after == RemoveNode(l, nodes[k])
           heap == after.heap
           all == RemoveAt(nodes, k)
           packets == RemoveAt(pkts, k)
<1> HIDE DEF all, packets
<1>1. n \in Nat /\ k \in 1 .. Len(nodes)
  BY RingIs
<1>2. /\ nodes[k] \in Addresses /\ l.size = n /\ (n # 0 => l.first = nodes[1])
  BY <1>1, RingIs
<1>3. /\ nodes \in Seq(Addresses) /\ pkts \in Seq(Packets) /\ Len(pkts) = n
  BY DEF Ring
<1>4. /\ all \in Seq(Addresses) /\ Len(all) = Len(nodes) - 1
  BY <1>1, <1>3, TakenOut DEF all
<1>5. k \in 1 .. Len(pkts)
  BY <1>3
<1>6. /\ packets \in Seq(Packets) /\ Len(packets) = Len(pkts) - 1
  BY <1>5, <1>3, TakenOut DEF packets
<1> SUFFICES ASSUME n = 1
             PROVE  Ring(after, all, packets)
  BY DEF all, packets
<1>7. \A i \in 1 .. n : i = k
  OBVIOUS
<1>8. after = [first |-> NULL, last |-> NULL, size |-> 0,
               heap |-> [l.heap EXCEPT ![nodes[k]] = Unallocated]]
  BY <1>7, <1>2 DEF RemoveNode
<1> HIDE DEF after
<1>9. /\ after = [first |-> NULL, last |-> NULL, size |-> 0, heap |-> heap]
      /\ heap = [l.heap EXCEPT ![nodes[k]] = Unallocated]
  BY <1>8
<1> HIDE DEF heap
<1>10. /\ IsHeap(l.heap) /\ nodes \in Seq(Addresses) /\ pkts \in Seq(Packets)
       /\ Len(nodes) = n /\ Len(pkts) = n
       /\ \A a \in Addresses : nodes[k] # a => l.heap[a] = Unallocated
  BY <1>7 DEF Ring
<1>11. IsHeap(heap) /\ \A a \in Addresses : heap[a] = Unallocated
  BY <1>2, <1>9, <1>10 DEF IsHeap
<1>12. after.heap = heap
  BY <1>9
<1>13. Len(nodes) = 1 /\ Len(pkts) = 1
  BY <1>3
<1>14. Len(all) = 0 /\ Len(packets) = 0
  BY ONLY <1>4, <1>6, <1>13
<1>15. after = [first |-> NULL, last |-> NULL, size |-> 0, heap |-> after.heap]
  BY <1>9, <1>12
<1>16. \A i \in 1 .. 0 : FALSE
  OBVIOUS
<1>17. IsHeap(after.heap) /\ \A a \in Addresses : after.heap[a] = Unallocated
  BY <1>11, <1>12
<1> QED BY <1>4, <1>6, <1>14, <1>15, <1>16, <1>17 DEF Ring

\* The node at k of two or more: its neighbours become each other's.
LEMMA UnlinkedIs ==
  ASSUME NEW l, NEW nodes, NEW pkts, Ring(l, nodes, pkts), NEW k \in 1 .. Len(nodes),
         Len(nodes) > 1
  PROVE  Ring(Unlink(l, nodes[k]), RemoveAt(nodes, k), RemoveAt(pkts, k))
<1> DEFINE n == Len(nodes)
           a == nodes[k]
           b == nodes[Before(k, n)]
           c == nodes[After(k, n)]
           all == RemoveAt(nodes, k)
           packets == RemoveAt(pkts, k)
           after == Unlink(l, nodes[k])
           heap == after.heap
<1> HIDE DEF all, packets, after, heap
<1>0. /\ n \in Nat /\ n > 1 /\ Len(pkts) = n /\ l.size = n
      /\ l.first = nodes[1] /\ l.last = nodes[n]
      /\ l.heap[a].next = c /\ l.heap[a].prev = b
  BY RingIs
<1>1. /\ nodes \in Seq(Addresses) /\ pkts \in Seq(Packets)
      /\ \A i, j \in 1 .. n : nodes[i] = nodes[j] => i = j
      /\ IsHeap(l.heap)
      /\ \A e \in Addresses :
           (\A i \in 1 .. n : nodes[i] # e) => l.heap[e] = Unallocated
      /\ \A i \in 1 .. n :
           l.heap[nodes[i]] = Node(nodes[After(i, n)], nodes[Before(i, n)], pkts[i])
  BY DEF Ring
<1>2. \A i \in 1 .. n :
        /\ nodes[i] \in Addresses
        /\ After(i, n) \in 1 .. n /\ Before(i, n) \in 1 .. n
  BY RingIs
<1>3. /\ all \in Seq(Addresses) /\ Len(all) = n - 1
      /\ \A j \in 1 .. n - 1 : all[j] = nodes[Kept(k, j)]
  BY <1>1, TakenOut DEF all
<1>4. /\ packets \in Seq(Packets) /\ Len(packets) = Len(pkts) - 1
      /\ \A j \in 1 .. Len(pkts) - 1 : packets[j] = pkts[Kept(k, j)]
  <2>1. k \in 1 .. Len(pkts) /\ pkts \in Seq(Packets)
    BY <1>0, <1>1
  <2> QED BY ONLY <2>1, TakenOut DEF packets
<1>5. /\ after = [first |-> IF a = l.first THEN c ELSE l.first,
                  last |-> IF a # l.first /\ a = l.last THEN b ELSE l.last,
                  size |-> n - 1, heap |-> heap]
      /\ heap = Unspliced(l.heap, a, b, c)
  BY <1>0 DEF Unlink, Unspliced, after, heap
<1> HIDE DEF n
<1>6. /\ k \in 1 .. n /\ After(k, n) \in 1 .. n /\ Before(k, n) \in 1 .. n
      /\ After(k, n) # k /\ Before(k, n) # k /\ 1 \in 1 .. n /\ n \in 1 .. n
  BY <1>0, <1>2 DEF n, After, Before
<1>7. \A j \in 1 .. n - 1 :
        /\ Kept(k, j) \in 1 .. n /\ Kept(k, j) # k
        /\ After(j, n - 1) \in 1 .. n - 1 /\ Before(j, n - 1) \in 1 .. n - 1
        /\ Kept(k, After(j, n - 1)) =
             IF Kept(k, j) = Before(k, n) THEN After(k, n) ELSE After(Kept(k, j), n)
        /\ Kept(k, Before(j, n - 1)) =
             IF Kept(k, j) = After(k, n) THEN Before(k, n) ELSE Before(Kept(k, j), n)
  BY <1>0, <1>6, KeptIs
<1>8. a \in Addresses /\ b \in Addresses /\ c \in Addresses /\ b # a /\ c # a
  BY <1>1, <1>2, <1>6
<1>9. /\ IsHeap(heap)
      /\ heap[a] = Unallocated
      /\ \A e \in Addresses : e # a /\ e # b /\ e # c => heap[e] = l.heap[e]
      /\ b # c => heap[b] = SetNext(l.heap[b], c) /\ heap[c] = SetPrev(l.heap[c], b)
      /\ b = c => heap[b] = SetPrev(SetNext(l.heap[b], c), b)
  <2>1. PICK h, x, y, z : h = l.heap /\ x = a /\ y = b /\ z = c
    OBVIOUS
  <2>2. /\ IsHeap(h) /\ heap = Unspliced(h, x, y, z)
        /\ x \in Addresses /\ y \in Addresses /\ z \in Addresses /\ y # x /\ z # x
    BY <1>1, <1>5, <1>8, <2>1
  <2>3. /\ IsHeap(heap)
        /\ heap[x] = Unallocated
        /\ \A e \in Addresses : e # x /\ e # y /\ e # z => heap[e] = h[e]
        /\ y # z => heap[y] = SetNext(h[y], z) /\ heap[z] = SetPrev(h[z], y)
        /\ y = z => heap[y] = SetPrev(SetNext(h[y], z), y)
    <3>1. IsHeap(heap)
      BY ONLY <2>2, UnsplicedIs
    <3>2. heap[x] = Unallocated
      BY ONLY <2>2, UnsplicedIs
    <3>3. ASSUME NEW e \in Addresses, e # x, e # y, e # z PROVE heap[e] = h[e]
      BY <2>2, <3>3 DEF Unspliced, IsHeap
    <3>4. y # z => heap[y] = SetNext(h[y], z) /\ heap[z] = SetPrev(h[z], y)
      BY ONLY <2>2, UnsplicedIs
    <3>5. y = z => heap[y] = SetPrev(SetNext(h[y], z), y)
      BY ONLY <2>2, UnsplicedIs
    <3> QED BY ONLY <3>1, <3>2, <3>3, <3>4, <3>5
  <2> QED BY <2>1, <2>3
<1>10. ASSUME NEW i \in 1 .. n, i # k
       PROVE  heap[nodes[i]] = Node(IF i = Before(k, n) THEN c ELSE nodes[After(i, n)],
                                    IF i = After(k, n) THEN b ELSE nodes[Before(i, n)],
                                    pkts[i])
  <2>1. /\ nodes[i] \in Addresses /\ nodes[i] # a
        /\ nodes[i] = c <=> i = After(k, n)
        /\ nodes[i] = b <=> i = Before(k, n)
    BY <1>1, <1>2, <1>6, <1>10
  <2>2. PICK x, y, r : /\ x = nodes[After(i, n)] /\ y = nodes[Before(i, n)]
                       /\ r = l.heap[nodes[i]] /\ r = Node(x, y, pkts[i])
    BY <1>1
  <2> HIDE DEF b, c
  <2>3. CASE i = After(k, n) /\ i = Before(k, n)
    <3>1. heap[nodes[i]] = SetPrev(SetNext(r, c), b)
      BY <1>9, <2>1, <2>2, <2>3
    <3>2. SetNext(r, c) = Node(c, y, pkts[i])
      BY <2>2, NodeSet
    <3>3. SetPrev(Node(c, y, pkts[i]), b) = Node(c, b, pkts[i])
      BY NodeSet
    <3> QED BY <2>3, <3>1, <3>2, <3>3
  <2>4. CASE i = After(k, n) /\ i # Before(k, n)
    <3>1. heap[nodes[i]] = SetPrev(r, b)
      BY <1>9, <2>1, <2>2, <2>4
    <3>2. SetPrev(r, b) = Node(x, b, pkts[i])
      BY <2>2, NodeSet
    <3> QED BY <2>2, <2>4, <3>1, <3>2
  <2>5. CASE i # After(k, n) /\ i = Before(k, n)
    <3>1. heap[nodes[i]] = SetNext(r, c)
      BY <1>9, <2>1, <2>2, <2>5
    <3>2. SetNext(r, c) = Node(c, y, pkts[i])
      BY <2>2, NodeSet
    <3> QED BY <2>2, <2>5, <3>1, <3>2
  <2>6. CASE i # After(k, n) /\ i # Before(k, n)
    BY <1>9, <2>1, <2>2, <2>6
  <2> QED BY <2>3, <2>4, <2>5, <2>6
<1>11. ASSUME NEW j \in 1 .. n - 1
       PROVE  heap[all[j]] = Node(all[After(j, n - 1)], all[Before(j, n - 1)], packets[j])
  <2>1. PICK i \in 1 .. n : i = Kept(k, j) /\ i # k
    BY <1>7
  <2>2. all[j] = nodes[i] /\ packets[j] = pkts[i]
    BY <1>0, <1>3, <1>4, <2>1
  <2>3. all[After(j, n - 1)] = IF i = Before(k, n) THEN c ELSE nodes[After(i, n)]
    BY <1>3, <1>7, <2>1
  <2>4. all[Before(j, n - 1)] = IF i = After(k, n) THEN b ELSE nodes[Before(i, n)]
    BY <1>3, <1>7, <2>1
  <2> QED BY <1>10, <2>1, <2>2, <2>3, <2>4
<1>12. ASSUME NEW i \in 1 .. n - 1, NEW j \in 1 .. n - 1, all[i] = all[j]
       PROVE  i = j
  <2>1. Kept(k, i) = Kept(k, j)
    <3>1. nodes[Kept(k, i)] = nodes[Kept(k, j)]
      BY <1>3, <1>12
    <3>2. Kept(k, i) \in 1 .. n /\ Kept(k, j) \in 1 .. n
      BY <1>7
    <3> QED BY <1>1, <3>1, <3>2
  <2> QED BY <1>0, <1>6, <2>1 DEF Kept
<1>13. ASSUME NEW e \in Addresses, \A j \in 1 .. n - 1 : all[j] # e
       PROVE  heap[e] = Unallocated
  <2>1. CASE e = a
    BY <1>9, <2>1
  <2>2. CASE e # a
    <3>1. ASSUME NEW i \in 1 .. n PROVE nodes[i] # e
      <4>1. CASE i = k
        BY <2>2, <4>1
      <4>2. CASE i # k
        <5>1. PICK j \in 1 .. n - 1 : i = Kept(k, j)
          BY <1>0, <1>6, <4>2, KeptOnto
        <5> QED BY <1>3, <1>13, <5>1
      <4> QED BY <4>1, <4>2
    <3>2. heap[e] = l.heap[e]
      BY <1>6, <1>9, <2>2, <3>1
    <3> QED BY <1>1, <3>1, <3>2
  <2> QED BY <2>1, <2>2
<1>14. after = [first |-> all[1], last |-> all[n - 1], size |-> n - 1, heap |-> heap]
  <2>1. a = l.first <=> k = 1
    BY <1>0, <1>1, <1>6
  <2>2. a = l.last <=> k = n
    BY <1>0, <1>1, <1>6
  <2>3. all[1] = IF k = 1 THEN c ELSE nodes[1]
    BY <1>0, <1>3, <1>6 DEF Kept, After
  <2>4. all[n - 1] = IF k = n THEN b ELSE nodes[n]
    BY <1>0, <1>3, <1>6 DEF Kept, Before
  <2>5. k = 1 => k # n
    BY <1>0
  <2> QED BY <1>0, <1>5, <2>1, <2>2, <2>3, <2>4, <2>5
<1>15. after.heap = heap
  BY <1>14
<1>16. n - 1 # 0 /\ Len(all) = n - 1 /\ Len(packets) = n - 1
  BY <1>0, <1>3, <1>4
<1>17. Ring(after, all, packets)
  BY <1>3, <1>4, <1>9, <1>11, <1>12, <1>13, <1>14, <1>15, <1>16 DEF Ring
<1> QED BY <1>17 DEF after, all, packets

\* Taking the node at k out of the list is taking its packet out of the sequence.
LEMMA NodeRemovedIs ==
  ASSUME NEW l, NEW nodes, NEW pkts, Ring(l, nodes, pkts), NEW k \in 1 .. Len(nodes)
  PROVE  Ring(RemoveNode(l, nodes[k]), RemoveAt(nodes, k), RemoveAt(pkts, k))
<1>0. Len(nodes) \in Nat /\ l.size = Len(nodes)
  BY RingIs
<1>1. Len(nodes) = 1 =>
        Ring(RemoveNode(l, nodes[k]), RemoveAt(nodes, k), RemoveAt(pkts, k))
  BY LastNodeIs
<1>2. CASE Len(nodes) > 1
  <2>1. RemoveNode(l, nodes[k]) = Unlink(l, nodes[k])
    BY <1>0, <1>2 DEF RemoveNode
  <2>2. Ring(Unlink(l, nodes[k]), RemoveAt(nodes, k), RemoveAt(pkts, k))
    BY <1>2, UnlinkedIs
  <2> QED BY <2>1, <2>2
<1>3. Len(nodes) = 1 \/ Len(nodes) > 1
  <2>1. k \in 1 .. Len(nodes)
    OBVIOUS
  <2>2. PICK n : n = Len(nodes)
    OBVIOUS
  <2> QED BY ONLY <1>0, <2>1, <2>2
<1> QED BY <1>1, <1>2, <1>3

\* stack_remove takes out the node that the runner finds, the first of them.
LEMMA RemoveOneIs ==
  ASSUME NEW l, NEW nodes, NEW pkts, Ring(l, nodes, pkts), NEW s
  PROVE  /\ \E all : Ring(RemoveOne(l, s).list, all, stack_remove(pkts, s))
         /\ RemoveOne(l, s).pkts =
              IF is_in_stack(pkts, s) THEN <<stack_get_pkt(pkts, s)>> ELSE <<>>
<1> DEFINE p == FirstPosition(pkts, s)
<1>0. Len(pkts) \in Nat /\ Len(pkts) = Len(nodes)
  BY RingIs
<1>1. CASE is_in_stack(pkts, s)
  <2>1. p \in 1 .. Len(nodes)
    BY <1>0, <1>1, FirstPositionIs
  <2>2. Find(l, s) = nodes[p]
    BY <1>1, FindIs
  <2> HIDE DEF p
  <2>3. nodes[p] # NULL /\ l.heap[nodes[p]].pkt = pkts[p]
    BY <2>1, RingIs
  <2>4. RemoveOne(l, s) = Removal(RemoveNode(l, nodes[p]), <<pkts[p]>>)
    BY <2>2, <2>3 DEF RemoveOne
  <2>5. /\ RemoveOne(l, s).list = RemoveNode(l, nodes[p])
        /\ RemoveOne(l, s).pkts = <<pkts[p]>>
    BY <2>4 DEF Removal
  <2>6. Ring(RemoveNode(l, nodes[p]), RemoveAt(nodes, p), RemoveAt(pkts, p))
    BY <2>1, NodeRemovedIs
  <2>7. stack_remove(pkts, s) = RemoveAt(pkts, p)
    BY <1>1 DEF stack_remove, p
  <2>8. stack_get_pkt(pkts, s) = pkts[p]
    BY DEF stack_get_pkt, p
  <2> QED BY <1>1, <2>5, <2>6, <2>7, <2>8
<1>2. CASE ~is_in_stack(pkts, s)
  <2>1. Find(l, s) = NULL
    BY <1>2, FindIs
  <2>2. RemoveOne(l, s) = Removal(l, <<>>)
    BY <2>1 DEF RemoveOne
  <2>3. RemoveOne(l, s).list = l /\ RemoveOne(l, s).pkts = <<>>
    BY <2>2 DEF Removal
  <2>4. stack_remove(pkts, s) = pkts
    BY <1>2 DEF stack_remove
  <2> QED BY <1>2, <2>3, <2>4
<1> QED BY <1>1, <1>2

-----------------------------------------------------------------------------
\* The first e elements, and the others.
Leading(seq, e) == SubSeq(seq, 1, e)
Rest(seq, e) == SubSeq(seq, e + 1, Len(seq))

LEMMA LeadingIs ==
  ASSUME NEW S, NEW seq \in Seq(S), NEW e \in 0 .. Len(seq)
  PROVE  /\ Leading(seq, e) \in Seq(S) /\ Len(Leading(seq, e)) = e
         /\ \A i \in 1 .. e : Leading(seq, e)[i] = seq[i]
<1>0. /\ Len(seq) \in Nat /\ e \in Nat
      /\ \A i \in 1 .. e : seq[i] \in S
  BY LenProperties, ElementOfSeq
<1>1. /\ SubSeq(seq, 1, e) \in Seq(S)
      /\ Len(SubSeq(seq, 1, e)) = IF 1 <= e THEN e - 1 + 1 ELSE 0
      /\ \A i \in 1 .. e - 1 + 1 : SubSeq(seq, 1, e)[i] = seq[1 + i - 1]
  BY <1>0, SubSeqProperties
<1> QED BY <1>0, <1>1 DEF Leading

LEMMA RestIs ==
  ASSUME NEW S, NEW seq \in Seq(S), NEW e \in 0 .. Len(seq)
  PROVE  /\ Rest(seq, e) \in Seq(S) /\ Len(Rest(seq, e)) = Len(seq) - e
         /\ \A i \in 1 .. Len(seq) - e : Rest(seq, e)[i] = seq[e + i]
<1>0. Len(seq) \in Nat /\ e \in Nat
  BY LenProperties
<1>1. PICK m \in Int : m = e + 1
  BY <1>0
<1>2. \A i \in m .. Len(seq) : seq[i] \in S
  BY <1>0, <1>1, ElementOfSeq
<1>3. /\ SubSeq(seq, m, Len(seq)) \in Seq(S)
      /\ Len(SubSeq(seq, m, Len(seq))) = IF m <= Len(seq) THEN Len(seq) - m + 1 ELSE 0
      /\ \A i \in 1 .. Len(seq) - m + 1 :
           SubSeq(seq, m, Len(seq))[i] = seq[m + i - 1]
  BY <1>0, <1>2, SubSeqProperties
<1>4. Rest(seq, e) = SubSeq(seq, m, Len(seq))
  BY <1>1 DEF Rest
<1>5. Len(Rest(seq, e)) = Len(seq) - e
  BY <1>0, <1>1, <1>3, <1>4
<1>6. ASSUME NEW i \in 1 .. Len(seq) - e
      PROVE  Rest(seq, e)[i] = seq[e + i]
  <2>1. i \in 1 .. Len(seq) - m + 1 /\ m + i - 1 = e + i
    BY <1>0, <1>1
  <2> QED BY <1>3, <1>4, <2>1
<1> QED BY <1>3, <1>4, <1>5, <1>6

LEMMA LeadingAndRest ==
  ASSUME NEW S, NEW seq \in Seq(S)
  PROVE  /\ Leading(seq, 0) = <<>> /\ Rest(seq, 0) = seq
         /\ Leading(seq, Len(seq)) = seq /\ Rest(seq, Len(seq)) = <<>>
<1>0. Len(seq) \in Nat /\ 0 \in 0 .. Len(seq) /\ Len(seq) \in 0 .. Len(seq)
  BY LenProperties
<1>1. Leading(seq, 0) = <<>>
  BY SubSeqEmpty DEF Leading
<1>2. Rest(seq, Len(seq)) = <<>>
  BY <1>0, SubSeqEmpty DEF Rest
<1>3. Rest(seq, 0) = seq
  <2>1. /\ Rest(seq, 0) \in Seq(S) /\ Len(Rest(seq, 0)) = Len(seq)
        /\ \A i \in 1 .. Len(seq) : Rest(seq, 0)[i] = seq[i]
    BY <1>0, RestIs
  <2> QED BY <2>1, SeqEqual
<1>4. Leading(seq, Len(seq)) = seq
  <2>1. /\ Leading(seq, Len(seq)) \in Seq(S) /\ Len(Leading(seq, Len(seq))) = Len(seq)
        /\ \A i \in 1 .. Len(seq) : Leading(seq, Len(seq))[i] = seq[i]
    BY <1>0, LeadingIs
  <2> QED BY <2>1, SeqEqual
<1> QED BY <1>1, <1>2, <1>3, <1>4

\* One more element goes from the others to the first.
LEMMA OneMore ==
  ASSUME NEW S, NEW seq \in Seq(S), NEW e \in 1 .. Len(seq)
  PROVE  /\ Rest(seq, e - 1)[1] = seq[e]
         /\ RemoveAt(Rest(seq, e - 1), 1) = Rest(seq, e)
         /\ Leading(seq, e - 1) \o <<seq[e]>> = Leading(seq, e)
<1>0. /\ Len(seq) \in Nat /\ e - 1 \in 0 .. Len(seq) /\ e \in 0 .. Len(seq)
      /\ seq[e] \in S
  BY LenProperties, ElementOfSeq
<1>1. PICK d \in 0 .. Len(seq) : d = e - 1 /\ e = d + 1
  BY <1>0
<1>2. /\ Rest(seq, d) \in Seq(S) /\ Len(Rest(seq, d)) = Len(seq) - d
      /\ \A i \in 1 .. Len(seq) - d : Rest(seq, d)[i] = seq[d + i]
  BY RestIs
<1>3. /\ Rest(seq, e) \in Seq(S) /\ Len(Rest(seq, e)) = Len(seq) - e
      /\ \A i \in 1 .. Len(seq) - e : Rest(seq, e)[i] = seq[e + i]
  BY <1>0, RestIs
<1>4. /\ Leading(seq, d) \in Seq(S) /\ Len(Leading(seq, d)) = d
      /\ \A i \in 1 .. d : Leading(seq, d)[i] = seq[i]
  BY LeadingIs
<1>5. /\ Leading(seq, e) \in Seq(S) /\ Len(Leading(seq, e)) = e
      /\ \A i \in 1 .. e : Leading(seq, e)[i] = seq[i]
  BY <1>0, LeadingIs
<1>6. Rest(seq, d)[1] = seq[e]
  BY <1>0, <1>1, <1>2
<1>7. RemoveAt(Rest(seq, d), 1) = Rest(seq, e)
  <2>1. 1 \in 1 .. Len(Rest(seq, d))
    BY <1>0, <1>1, <1>2
  <2>2. PICK r, k : r = Rest(seq, d) /\ k = 1
    OBVIOUS
  <2>3. r \in Seq(S) /\ k \in 1 .. Len(r)
    BY <1>2, <2>1, <2>2
  <2>4. /\ RemoveAt(r, k) \in Seq(S) /\ Len(RemoveAt(r, k)) = Len(r) - 1
        /\ \A i \in 1 .. Len(r) - 1 :
             RemoveAt(r, k)[i] = IF i < k THEN r[i] ELSE r[i + 1]
    BY <2>3, RemoveAtIs
  <2>5. Len(r) = Len(seq) - d /\ Len(RemoveAt(r, k)) = Len(Rest(seq, e))
    BY <1>0, <1>1, <1>2, <1>3, <2>2, <2>4
  <2>6. ASSUME NEW i \in 1 .. Len(RemoveAt(r, k))
        PROVE  RemoveAt(r, k)[i] = Rest(seq, e)[i]
    <3>1. /\ i \in 1 .. Len(r) - 1 /\ ~(i < k) /\ i + 1 \in 1 .. Len(seq) - d
          /\ i \in 1 .. Len(seq) - e /\ d + (i + 1) = e + i
      BY <1>0, <1>1, <1>2, <2>2, <2>4, <2>5
    <3>2. RemoveAt(r, k)[i] = r[i + 1]
      BY <2>4, <3>1
    <3>3. r[i + 1] = seq[d + (i + 1)]
      BY <1>2, <2>2, <3>1
    <3>4. Rest(seq, e)[i] = seq[e + i]
      BY <1>3, <3>1
    <3> QED BY <3>1, <3>2, <3>3, <3>4
  <2>7. RemoveAt(r, k) = Rest(seq, e)
    BY <1>3, <2>4, <2>5, <2>6, SeqEqual
  <2> QED BY <2>2, <2>7
<1>8. Leading(seq, d) \o <<seq[e]>> = Leading(seq, e)
  <2>1. PICK f, g : f = Leading(seq, d) /\ g = <<seq[e]>>
    OBVIOUS
  <2>2. /\ f \in Seq(S) /\ Len(f) = d /\ g \in Seq(S) /\ Len(g) = 1 /\ g[1] = seq[e]
    BY <1>0, <1>4, <2>1
  <2>3. /\ f \o g \in Seq(S) /\ Len(f \o g) = Len(f) + Len(g)
        /\ \A i \in 1 .. Len(f) + Len(g) :
             (f \o g)[i] = IF i <= Len(f) THEN f[i] ELSE g[i - Len(f)]
    BY <2>2, ConcatProperties
  <2>4. Len(f \o g) = e
    BY <1>1, <2>2, <2>3
  <2>5. ASSUME NEW i \in 1 .. e PROVE (f \o g)[i] = Leading(seq, e)[i]
    <3>1. CASE i = e
      BY <1>1, <1>5, <2>2, <2>3, <3>1
    <3>2. CASE i # e
      <4>0. d \in Int /\ e = d + 1 /\ i \in Int /\ 1 <= i /\ i <= e
        BY <1>1
      <4>1. i \in 1 .. d /\ i \in 1 .. Len(f) + Len(g) /\ i <= Len(f)
        <5>1. i \in 1 .. d /\ i \in 1 .. d + 1 /\ i <= d
          BY ONLY <4>0, <3>2
        <5> QED BY <5>1, <2>2
      <4>2. (f \o g)[i] = f[i]
        BY <2>3, <4>1
      <4>3. f[i] = seq[i]
        BY <1>4, <2>1, <4>1
      <4> QED BY <1>5, <4>2, <4>3
    <3> QED BY <3>1, <3>2
  <2>6. f \o g = Leading(seq, e)
    BY <1>5, <2>3, <2>4, <2>5, SeqEqual
  <2> QED BY <2>1, <2>6
<1> QED BY <1>1, <1>6, <1>7, <1>8

\* The first node goes, and its packet is given back.
LEMMA RemoveFirstIs ==
  ASSUME NEW l, NEW nodes, NEW pkts, Ring(l, nodes, pkts), Len(nodes) # 0
  PROVE  /\ l.heap[l.first].seqnum = pkts[1].seqnum
         /\ \E all : Ring(RemoveOne(l, l.heap[l.first].seqnum).list, all,
                          RemoveAt(pkts, 1))
         /\ RemoveOne(l, l.heap[l.first].seqnum).pkts = <<pkts[1]>>
<1> DEFINE s == l.heap[l.first].seqnum
<1>0. Len(pkts) \in Nat /\ Len(pkts) = Len(nodes) /\ 1 \in 1 .. Len(pkts)
  BY RingIs
<1>1. s = pkts[1].seqnum
  <2>1. 1 \in 1 .. Len(nodes) /\ l.first = nodes[1]
    BY <1>0, RingIs
  <2> QED BY <2>1, RingIs
<1> HIDE DEF s
<1>2. is_in_stack(pkts, s)
  BY <1>0, <1>1 DEF is_in_stack, Positions
<1>3. FirstPosition(pkts, s) = 1
  <2>1. FirstPosition(pkts, s) <= 1 /\ FirstPosition(pkts, s) \in 1 .. Len(pkts)
    BY <1>0, <1>1, <1>2, FirstPositionIs
  <2> QED BY <1>0, <2>1
<1>4. stack_remove(pkts, s) = RemoveAt(pkts, 1) /\ stack_get_pkt(pkts, s) = pkts[1]
  BY <1>2, <1>3 DEF stack_remove, stack_get_pkt
<1>5. /\ \E all : Ring(RemoveOne(l, s).list, all, stack_remove(pkts, s))
      /\ RemoveOne(l, s).pkts = <<stack_get_pkt(pkts, s)>>
  BY <1>2, RemoveOneIs
<1> QED BY <1>1, <1>4, <1>5 DEF s

\* The removals of the loop, one after another.
Removals(l, m, f) ==
  f = [n \in 0 .. m |->
         IF n = 0 THEN Removal(l, <<>>) ELSE RemoveFirstNode(f[n - 1])]

LEMMA RemovalsExist ==
  ASSUME NEW l, NEW m \in Nat
  PROVE  \E f : Removals(l, m, f)
<1> DEFINE T == {k \in 0 .. m : \E f : Removals(l, k, f)}
<1>1. 0 \in T
  <2> DEFINE f == [n \in 0 .. 0 |-> Removal(l, <<>>)]
  <2>1. f = [n \in 0 .. 0 |->
               IF n = 0 THEN Removal(l, <<>>) ELSE RemoveFirstNode(f[n - 1])]
    OBVIOUS
  <2>2. Removals(l, 0, f)
    BY <2>1 DEF Removals
  <2> QED BY <2>2
<1>2. ASSUME NEW k \in 1 .. m, k - 1 \in T PROVE k \in T
  <2>1. PICK j : j = k - 1 /\ j \in Nat /\ k = j + 1
    OBVIOUS
  <2>2. PICK f : Removals(l, j, f)
    BY <1>2, <2>1
  <2> DEFINE g == [n \in 0 .. k |-> IF n = k THEN RemoveFirstNode(f[j]) ELSE f[n]]
  <2>3. \A n \in 0 .. j :
          f[n] = IF n = 0 THEN Removal(l, <<>>) ELSE RemoveFirstNode(f[n - 1])
    BY <2>2 DEF Removals
  <2>4. \A n \in 0 .. k : g[n] = IF n = k THEN RemoveFirstNode(f[j]) ELSE f[n]
    OBVIOUS
  <2>5. g = [n \in 0 .. k |-> g[n]]
    OBVIOUS
  <2> HIDE DEF g
  <2>6. ASSUME NEW n \in 0 .. k
        PROVE  g[n] = IF n = 0 THEN Removal(l, <<>>) ELSE RemoveFirstNode(g[n - 1])
    <3>1. CASE n = k
      <4>1. n # 0 /\ n - 1 = j /\ n - 1 \in 0 .. k /\ n - 1 # k
        BY <2>1, <3>1
      <4>2. g[n - 1] = f[j]
        BY <2>4, <4>1
      <4> QED BY <2>4, <3>1, <4>1, <4>2
    <3>2. CASE n # k /\ n # 0
      <4>1. n \in 0 .. j /\ n - 1 \in 0 .. k /\ n - 1 # k
        BY <2>1, <3>2
      <4>2. g[n] = f[n] /\ g[n - 1] = f[n - 1]
        BY <2>4, <3>2, <4>1
      <4> QED BY <2>3, <3>2, <4>1, <4>2
    <3>3. CASE n = 0
      <4>1. n # k /\ n \in 0 .. j
        BY <2>1, <3>3
      <4> QED BY <2>3, <2>4, <3>3, <4>1
    <3> QED BY <3>1, <3>2, <3>3
  <2>7. Removals(l, k, g)
    BY <2>5, <2>6 DEF Removals
  <2> QED BY <2>7
<1> HIDE DEF T
<1>3. m \in T
  BY <1>1, <1>2, UpTo
<1> QED BY <1>3 DEF T

\* What n removals leave, and give back.
LEMMA RemovalsAre ==
  ASSUME NEW l, NEW nodes, NEW pkts, Ring(l, nodes, pkts), NEW f,
         Removals(l, Len(pkts), f)
  PROVE  \A k \in 0 .. Len(pkts) :
           /\ \E all : Ring(f[k].list, all, Rest(pkts, k))
           /\ f[k].pkts = Leading(pkts, k)
<1> DEFINE m == Len(pkts)
           T == {k \in 0 .. m : /\ \E all : Ring(f[k].list, all, Rest(pkts, k))
                                /\ f[k].pkts = Leading(pkts, k)}
<1>0. m \in Nat /\ pkts \in Seq(Packets)
  BY RingIs DEF Ring
<1>1. \A n \in 0 .. m :
        f[n] = IF n = 0 THEN Removal(l, <<>>) ELSE RemoveFirstNode(f[n - 1])
  BY DEF Removals
<1>2. 0 \in T
  <2>1. f[0] = Removal(l, <<>>)
    BY <1>0, <1>1
  <2>2. f[0].list = l /\ f[0].pkts = <<>>
    BY <2>1 DEF Removal
  <2>3. Rest(pkts, 0) = pkts /\ Leading(pkts, 0) = <<>>
    BY <1>0, LeadingAndRest
  <2> QED BY <1>0, <2>2, <2>3
<1>3. ASSUME NEW k \in 1 .. m, k - 1 \in T PROVE k \in T
  <2>1. PICK j : j = k - 1 /\ j \in 0 .. m /\ j < m
    BY <1>0
  <2>2. PICK all : Ring(f[j].list, all, Rest(pkts, j))
    BY <1>3, <2>1
  <2>3. f[j].pkts = Leading(pkts, j)
    BY <1>3, <2>1
  <2>4. /\ Rest(pkts, j)[1] = pkts[k]
        /\ RemoveAt(Rest(pkts, j), 1) = Rest(pkts, k)
        /\ Leading(pkts, j) \o <<pkts[k]>> = Leading(pkts, k)
    BY <1>0, <2>1, OneMore
  <2>5. Len(Rest(pkts, j)) = m - j
    BY <1>0, <2>1, RestIs
  <2> DEFINE before == f[j].list
             one == RemoveOne(before, before.heap[before.first].seqnum)
  <2>6. Len(all) # 0
    BY <1>0, <2>1, <2>2, <2>5, RingIs
  <2>7. /\ \E left : Ring(one.list, left, Rest(pkts, k))
        /\ one.pkts = <<pkts[k]>>
    <3>1. PICK q, b : q = Rest(pkts, j) /\ b = before
      OBVIOUS
    <3>2. Ring(b, all, q) /\ Len(all) # 0
      BY <2>2, <2>6, <3>1
    <3>3. /\ \E left : Ring(RemoveOne(b, b.heap[b.first].seqnum).list, left, RemoveAt(q, 1))
          /\ RemoveOne(b, b.heap[b.first].seqnum).pkts = <<q[1]>>
      BY <3>2, RemoveFirstIs
    <3> QED BY <2>4, <3>1, <3>3
  <2> HIDE DEF m
  <2>8. f[k] = RemoveFirstNode(f[j])
    BY <1>0, <1>1, <2>1
  <2>9. RemoveFirstNode(f[j]) = Removal(one.list, f[j].pkts \o one.pkts)
    BY DEF RemoveFirstNode
  <2> HIDE DEF one
  <2>10. f[k].list = one.list /\ f[k].pkts = f[j].pkts \o one.pkts
    <3>1. \A x, y : Removal(x, y).list = x /\ Removal(x, y).pkts = y
      BY DEF Removal
    <3>2. PICK x : x = one.list
      OBVIOUS
    <3>3. PICK y : y = f[j].pkts \o one.pkts
      OBVIOUS
    <3>4. f[k] = Removal(x, y)
      BY <2>8, <2>9, <3>2, <3>3
    <3>5. f[k].list = x /\ f[k].pkts = y
      BY <3>1, <3>4
    <3> QED BY ONLY <3>2, <3>3, <3>5
  <2>11. f[k].pkts = Leading(pkts, k)
    BY <2>3, <2>4, <2>7, <2>10
  <2> QED BY <1>0, <2>7, <2>10, <2>11
<1> HIDE DEF T
<1>4. 0 .. m \subseteq T
  BY <1>0, <1>2, <1>3, UpTo
<1> QED BY <1>4 DEF T

\* The loop takes the beginning of the sequence up to the first of its stops.
LEMMA RemoveFrontIs ==
  ASSUME NEW l, NEW nodes, NEW pkts, Ring(l, nodes, pkts), NEW stops
  PROVE  \E e \in 0 .. Len(pkts) :
           /\ \E all : Ring(RemoveFront(l, stops).list, all, Rest(pkts, e))
           /\ RemoveFront(l, stops).pkts = Leading(pkts, e)
           /\ e = Len(pkts) \/ pkts[e + 1].seqnum \in stops
           /\ \A i \in 1 .. e : pkts[i].seqnum \notin stops
<1> DEFINE m == Len(pkts)
           after == CHOOSE f : Removals(l, m, f)
           ends == {n \in 0 .. l.size :
                      LET left == after[n].list
                      IN  left.size = 0 \/ left.heap[left.first].seqnum \in stops}
<1>0. m \in Nat /\ pkts \in Seq(Packets) /\ l.size = m
  BY RingIs DEF Ring
<1>1. Removals(l, m, after)
  BY <1>0, RemovalsExist
<1>2. RemoveFront(l, stops) = after[Min(ends)]
  BY <1>0 DEF RemoveFront, Removals
<1> HIDE DEF after
<1>3. \A k \in 0 .. m : /\ \E all : Ring(after[k].list, all, Rest(pkts, k))
                        /\ after[k].pkts = Leading(pkts, k)
  BY <1>1, RemovalsAre
<1>4. ASSUME NEW k \in 0 .. m
      PROVE  k \in ends <=> k = m \/ pkts[k + 1].seqnum \in stops
  <2> DEFINE left == after[k].list
  <2>1. PICK all : Ring(left, all, Rest(pkts, k))
    BY <1>3
  <2>2. /\ Len(Rest(pkts, k)) = m - k
        /\ \A i \in 1 .. m - k : Rest(pkts, k)[i] = pkts[k + i]
    BY <1>0, RestIs
  <2> HIDE DEF left
  <2>3. left.size = m - k /\ Len(all) = m - k
    <3>1. left.size = Len(all) /\ Len(Rest(pkts, k)) = Len(all)
      BY <2>1, RingIs
    <3> QED BY <2>2, <3>1
  <2>4. k # m => left.heap[left.first].seqnum = pkts[k + 1].seqnum
    <3>1. SUFFICES ASSUME k # m PROVE left.heap[left.first].seqnum = pkts[k + 1].seqnum
      OBVIOUS
    <3>2. Len(all) # 0 /\ 1 \in 1 .. m - k
      BY <1>0, <2>3, <3>1
    <3>3. left.heap[left.first].seqnum = Rest(pkts, k)[1].seqnum
      BY <2>1, <3>2, RemoveFirstIs
    <3> QED BY <2>2, <3>2, <3>3
  <2>5. k \in ends <=> left.size = 0 \/ left.heap[left.first].seqnum \in stops
    BY <1>0 DEF left
  <2> HIDE DEF ends, m
  <2>6. left.size = 0 <=> k = m
    BY <1>0, <2>3
  <2> QED BY <2>4, <2>5, <2>6
<1>5. ends \in SUBSET (0 .. m) /\ m \in ends
  BY <1>0, <1>4
<1> HIDE DEF ends
<1>6. PICK e \in ends : \A k \in ends : e <= k
  <2>1. ends \in SUBSET Nat /\ ends # {}
    BY <1>0, <1>5
  <2> QED BY <2>1, Least
<1>7. Min(ends) = e
  BY <1>5, <1>6, MinIs
<1>8. e \in 0 .. m
  BY <1>5
<1>9. e = m \/ pkts[e + 1].seqnum \in stops
  BY <1>4, <1>8
<1>10. ASSUME NEW i \in 1 .. e PROVE pkts[i].seqnum \notin stops
  <2>1. PICK k \in 0 .. m : k = i - 1 /\ i = k + 1 /\ k < e
    BY <1>0, <1>8
  <2>2. k \notin ends
    BY <1>6, <1>8, <2>1
  <2> QED BY <1>4, <2>1, <2>2
<1> QED BY <1>2, <1>3, <1>7, <1>8, <1>9, <1>10

-----------------------------------------------------------------------------
\* What each call does to the nodes, and to the sequence of their packets.
LEMMA EnqueueStep ==
  ASSUME NEW nodes, NEW pkts, Ring(list, nodes, pkts), NEW pkt \in Packets, CallEnqueue(pkt)
  PROVE  \E all, q :
           /\ Ring(list', all, q)
           /\ \/ /\ Len(pkts) < MaxNodes
                 /\ q = stack_enqueue(pkts, pkt) /\ returned' = <<>>
              \/ /\ Len(pkts) = MaxNodes
                 /\ q = pkts /\ returned' = <<pkt>>
<1>1. /\ Len(pkts) \in Nat /\ Len(pkts) <= MaxNodes
      /\ FreeAddresses(list) = {} <=> Len(pkts) = MaxNodes
  <2>1. Len(nodes) \in Nat /\ Len(pkts) = Len(nodes)
    BY RingIs
  <2>2. Len(nodes) <= MaxNodes /\ (FreeAddresses(list) = {} <=> Len(nodes) = MaxNodes)
    BY RoomIs
  <2> QED BY <2>1, <2>2
<1>2. CASE FreeAddresses(list) # {} /\ list' = Enqueued(list, pkt) /\ returned' = <<>>
  <2>1. \E all : Ring(Enqueued(list, pkt), all, stack_enqueue(pkts, pkt))
    BY <1>2, EnqueuedIs
  <2>2. Len(pkts) < MaxNodes
    BY <1>1, <1>2, LinkedStackAssumption
  <2> QED BY <1>2, <2>1, <2>2
<1>3. CASE FreeAddresses(list) = {} /\ returned' = <<pkt>> /\ UNCHANGED list
  <2>1. Len(pkts) = MaxNodes
    BY <1>1, <1>3
  <2> QED BY <1>3, <2>1
<1> QED BY <1>2, <1>3 DEF CallEnqueue

LEMMA RemoveStep ==
  ASSUME NEW nodes, NEW pkts, Ring(list, nodes, pkts), NEW s, CallRemove(s)
  PROVE  /\ \E all : Ring(list', all, stack_remove(pkts, s))
         /\ returned' = IF is_in_stack(pkts, s) THEN <<stack_get_pkt(pkts, s)>> ELSE <<>>
<1>1. list' = RemoveOne(list, s).list /\ returned' = RemoveOne(list, s).pkts
  BY DEF CallRemove, Done
<1> QED BY <1>1, RemoveOneIs

LEMMA RemoveAckedStep ==
  ASSUME NEW nodes, NEW pkts, Ring(list, nodes, pkts), NEW s, CallRemoveAcked(s)
  PROVE  \E all, q :
           /\ Ring(list', all, q)
           /\ q = stack_remove_acked(pkts, s)
           /\ returned' = SubSeq(pkts, 1, Len(pkts) - Len(q))
<1>0. Len(pkts) \in Nat /\ pkts \in Seq(Packets)
  BY RingIs DEF Ring
<1>1. /\ list' = RemoveFront(list, {s}).list
      /\ returned' = RemoveFront(list, {s}).pkts
  BY DEF CallRemoveAcked, Done
<1>2. PICK e \in 0 .. Len(pkts) :
        /\ \E all : Ring(list', all, Rest(pkts, e))
        /\ returned' = Leading(pkts, e)
        /\ e = Len(pkts) \/ pkts[e + 1].seqnum \in {s}
        /\ \A i \in 1 .. e : pkts[i].seqnum \notin {s}
  BY <1>1, RemoveFrontIs
<1>3. Len(Rest(pkts, e)) = Len(pkts) - e
  BY <1>0, RestIs
<1>4. Len(pkts) - Len(Rest(pkts, e)) = e
  BY <1>0, <1>3
<1>5. Rest(pkts, e) = stack_remove_acked(pkts, s)
  <2>1. CASE is_in_stack(pkts, s)
    <3> DEFINE p == FirstPosition(pkts, s)
    <3>1. /\ p \in 1 .. Len(pkts) /\ pkts[p].seqnum = s
          /\ \A j \in 1 .. Len(pkts) : pkts[j].seqnum = s => p <= j
      BY <1>0, <2>1, FirstPositionIs
    <3> HIDE DEF p
    <3>2. p > e
      BY <1>0, <1>2, <3>1
    <3>3. e + 1 \in 1 .. Len(pkts) /\ pkts[e + 1].seqnum = s
      BY <1>0, <1>2, <3>1, <3>2
    <3>4. p = e + 1
      BY <1>0, <3>1, <3>2, <3>3
    <3> QED BY <2>1, <3>4 DEF stack_remove_acked, Rest, p
  <2>2. CASE ~is_in_stack(pkts, s)
    <3>1. \A j \in 1 .. Len(pkts) : pkts[j].seqnum # s
      BY <2>2 DEF is_in_stack, Positions
    <3>2. e = Len(pkts)
      <4>1. e # Len(pkts) => e + 1 \in 1 .. Len(pkts)
        BY <1>0
      <4> QED BY <1>2, <3>1, <4>1
    <3>3. Rest(pkts, e) = <<>>
      BY <1>0, <3>2, LeadingAndRest
    <3> QED BY <2>2, <3>3 DEF stack_remove_acked
  <2> QED BY <2>1, <2>2
<1>6. returned' = SubSeq(pkts, 1, Len(pkts) - Len(Rest(pkts, e)))
  BY <1>2, <1>4 DEF Leading
<1> QED BY <1>2, <1>5, <1>6

LEMMA FreeStep ==
  ASSUME NEW nodes, NEW pkts, Ring(list, nodes, pkts), CallFree
  PROVE  (\E all : Ring(list', all, <<>>)) /\ returned' = pkts
<1>0. Len(pkts) \in Nat /\ pkts \in Seq(Packets)
  BY RingIs DEF Ring
<1>1. list' = RemoveFront(list, {}).list /\ returned' = RemoveFront(list, {}).pkts
  BY DEF CallFree, Done
<1>2. PICK e \in 0 .. Len(pkts) :
        /\ \E all : Ring(list', all, Rest(pkts, e))
        /\ returned' = Leading(pkts, e)
        /\ e = Len(pkts) \/ pkts[e + 1].seqnum \in {}
  BY <1>1, RemoveFrontIs
<1>3. e = Len(pkts)
  BY <1>2
<1>4. Rest(pkts, e) = <<>> /\ Leading(pkts, e) = pkts
  BY <1>0, <1>3, LeadingAndRest
<1> QED BY <1>2, <1>4

-----------------------------------------------------------------------------
LEMMA FirstRing == Init => Ring(list, <<>>, <<>>)
<1>1. /\ <<>> \in Seq(Addresses) /\ <<>> \in Seq(Packets) /\ Len(<<>>) = 0
  BY EmptySeq
<1>2. ASSUME Init PROVE Ring(list, <<>>, <<>>)
  <2>1. list = [first |-> NULL, last |-> NULL, size |-> 0,
                heap |-> [a \in Addresses |-> Unallocated]]
    BY <1>2 DEF Init, stack_init
  <2>2. /\ list = [first |-> NULL, last |-> NULL, size |-> 0, heap |-> list.heap]
        /\ list.heap = [a \in Addresses |-> Unallocated]
    BY <2>1
  <2>3. IsHeap(list.heap) /\ \A a \in Addresses : list.heap[a] = Unallocated
    BY <2>2 DEF IsHeap
  <2> QED BY <1>1, <2>2, <2>3 DEF Ring
<1> QED BY <1>2

\* After every call the list is the ring of some nodes and packets.
THEOREM ListIsARing == Spec => []LinkedInv
<1>1. Init => LinkedInv
  BY FirstRing DEF LinkedInv
<1>2. LinkedInv /\ [Next]_<<list, returned>> => LinkedInv'
  <2> SUFFICES ASSUME LinkedInv, [Next]_<<list, returned>> PROVE LinkedInv'
    OBVIOUS
  <2>1. PICK nodes, pkts : Ring(list, nodes, pkts)
    BY DEF LinkedInv
  <2>2. ASSUME NEW pkt \in Packets, CallEnqueue(pkt) PROVE LinkedInv'
    BY <2>1, <2>2, EnqueueStep DEF LinkedInv
  <2>3. ASSUME NEW s, CallRemove(s) PROVE LinkedInv'
    BY <2>1, <2>3, RemoveStep DEF LinkedInv
  <2>4. ASSUME NEW s, CallRemoveAcked(s) PROVE LinkedInv'
    BY <2>1, <2>4, RemoveAckedStep DEF LinkedInv
  <2>5. ASSUME CallFree PROVE LinkedInv'
    BY <2>1, <2>5, FreeStep DEF LinkedInv
  <2>6. CASE UNCHANGED <<list, returned>>
    BY <2>1, <2>6 DEF LinkedInv
  <2> QED BY <2>2, <2>3, <2>4, <2>5, <2>6 DEF Next
<1> QED BY <1>1, <1>2, PTL DEF Spec

-----------------------------------------------------------------------------
\* The walk along next from first meets the packets in order.
LEMMA ContentsAre ==
  ASSUME NEW l, NEW nodes, NEW pkts, Ring(l, nodes, pkts)
  PROVE  [i \in 1 .. l.size |-> l.heap[Forward(l)[i - 1]].pkt] = pkts
<1>0. /\ Len(nodes) \in Nat /\ l.size = Len(nodes) /\ Len(pkts) = Len(nodes)
      /\ pkts \in Seq(Packets)
  BY RingIs DEF Ring
<1>1. ASSUME NEW i \in 1 .. Len(nodes)
      PROVE  l.heap[Forward(l)[i - 1]].pkt = pkts[i]
  <2>1. PICK k \in 0 .. Len(nodes) : k = i - 1 /\ k + 1 = i /\ k # Len(nodes)
    BY <1>0
  <2>2. Forward(l)[k] = nodes[i]
    BY <1>0, <2>1, ForwardIs
  <2>3. l.heap[nodes[i]].pkt = pkts[i]
    BY RingIs
  <2> QED BY <2>1, <2>2, <2>3
<1>2. pkts = [i \in 1 .. Len(pkts) |-> pkts[i]]
  BY <1>0
<1> QED BY <1>0, <1>1, <1>2

\* The addresses that the walk meets are the nodes of the ring.
LEMMA RingAddressesAre ==
  ASSUME NEW nodes, NEW pkts, Ring(list, nodes, pkts)
  PROVE  RingAddresses = {nodes[i] : i \in 1 .. Len(nodes)}
<1>0. Len(nodes) \in Nat /\ list.size = Len(nodes)
  BY RingIs
<1>1. ASSUME NEW k \in 0 .. Len(nodes) - 1
      PROVE  k + 1 \in 1 .. Len(nodes) /\ Forward(list)[k] = nodes[k + 1]
  <2>1. k # Len(nodes) /\ k \in 0 .. Len(nodes) /\ Len(nodes) # 0
    BY <1>0
  <2> QED BY <1>0, <2>1, ForwardIs
<1>2. ASSUME NEW i \in 1 .. Len(nodes)
      PROVE  \E k \in 0 .. Len(nodes) - 1 : Forward(list)[k] = nodes[i]
  <2>1. PICK k \in 0 .. Len(nodes) - 1 : k + 1 = i
    BY <1>0
  <2> QED BY <1>1, <2>1
<1>3. RingAddresses = {Forward(list)[k] : k \in 0 .. Len(nodes) - 1}
  BY <1>0 DEF RingAddresses
<1>4. RingAddresses \subseteq {nodes[i] : i \in 1 .. Len(nodes)}
  BY <1>1, <1>3
<1>5. {nodes[i] : i \in 1 .. Len(nodes)} \subseteq RingAddresses
  BY <1>2, <1>3
<1> QED BY <1>4, <1>5

\* The nodes of stack.c are at all times one ring closed in both directions
\* (stack.c:29-206): no call leaks a node, leaves a pointer to a node it freed,
\* or breaks one of the two directions.
THEOREM RingIsWellFormed == Spec => []RingWellFormed
<1>1. LinkedInv => RingWellFormed
  <2> SUFFICES ASSUME LinkedInv PROVE RingWellFormed
    OBVIOUS
  <2>1. PICK nodes, pkts : Ring(list, nodes, pkts)
    BY DEF LinkedInv
  <2> DEFINE n == Len(nodes)
  <2>2. RingAddresses = {nodes[i] : i \in 1 .. n}
    BY <2>1, RingAddressesAre
  <2>3. n \in Nat /\ list.size = n
    BY <2>1, RingIs
  <2>4. RingAddresses = Addresses \ FreeAddresses(list)
    <3>1. \A i \in 1 .. n : nodes[i] \in Addresses
      BY <2>1, RingIs
    <3>2. \A a \in Addresses : a \in FreeAddresses(list) <=> \A i \in 1 .. n : nodes[i] # a
      BY <2>1, FreeIs
    <3> QED BY <2>2, <3>1, <3>2
  <2>5. Cardinality(RingAddresses) = list.size
    <3>1. Cardinality({nodes[i] : i \in 1 .. n}) = n
      BY <2>1, RoomIs
    <3> QED BY <2>2, <2>3, <3>1
  <2>6. list.size = 0 => list.first = NULL /\ list.last = NULL
    BY <2>1, <2>3, RingIs
  <2>7. list.size > 0 => list.heap[list.first].prev = list.last
    <3>1. SUFFICES ASSUME list.size > 0
                   PROVE  list.heap[list.first].prev = list.last
      OBVIOUS
    <3>2. n # 0 /\ 1 \in 1 .. n
      BY <2>3, <3>1
    <3>3. list.first = nodes[1] /\ list.last = nodes[n]
      BY <2>1, <3>2, RingIs
    <3>4. list.heap[nodes[1]].prev = nodes[Before(1, n)]
      BY <2>1, <3>2, RingIs
    <3> QED BY <3>3, <3>4 DEF Before
  <2>8. ASSUME NEW a \in RingAddresses
        PROVE  /\ list.heap[list.heap[a].next].prev = a
               /\ list.heap[list.heap[a].prev].next = a
               /\ list.heap[a].seqnum = list.heap[a].pkt.seqnum
    <3>1. PICK i \in 1 .. n : a = nodes[i]
      BY <2>2
    <3>2. /\ list.heap[a].next = nodes[After(i, n)] /\ list.heap[a].prev = nodes[Before(i, n)]
          /\ list.heap[a].seqnum = pkts[i].seqnum /\ list.heap[a].pkt = pkts[i]
          /\ After(i, n) \in 1 .. n /\ Before(i, n) \in 1 .. n
      BY <2>1, <3>1, RingIs
    <3>3. list.heap[nodes[After(i, n)]].prev = nodes[Before(After(i, n), n)]
      <4>1. PICK j \in 1 .. n : j = After(i, n)
        BY <3>2
      <4>2. list.heap[nodes[j]].prev = nodes[Before(j, n)]
        BY <2>1, RingIs
      <4> QED BY <4>1, <4>2
    <3>4. list.heap[nodes[Before(i, n)]].next = nodes[After(Before(i, n), n)]
      <4>1. PICK j \in 1 .. n : j = Before(i, n)
        BY <3>2
      <4>2. list.heap[nodes[j]].next = nodes[After(j, n)]
        BY <2>1, RingIs
      <4> QED BY <4>1, <4>2
    <3>5. Before(After(i, n), n) = i /\ After(Before(i, n), n) = i
      BY <2>3 DEF After, Before
    <3> QED BY <3>1, <3>2, <3>3, <3>4, <3>5
  <2> QED BY <2>4, <2>5, <2>6, <2>7, <2>8 DEF RingWellFormed
<1> QED BY <1>1, ListIsARing, PTL

\* The three look-ups of stack.c (stack.c:105, :166, :184) agree with each other
\* and with the sequence, also when a number is there twice.
THEOREM LookupsAlwaysAgree == Spec => []LookupsAgree
<1>1. LinkedInv => LookupsAgree
  <2> SUFFICES ASSUME LinkedInv, NEW s \in SeqNums
               PROVE  /\ (Find(list, s) # NULL) = LinkedIsInStack(list, s)
                      /\ LinkedIsInStack(list, s) = is_in_stack(Contents, s)
                      /\ Find(list, s) # NULL =>
                           list.heap[Find(list, s)].pkt = stack_get_pkt(Contents, s)
    BY DEF LookupsAgree
  <2>1. PICK nodes, pkts : Ring(list, nodes, pkts)
    BY DEF LinkedInv
  <2>2. Contents = pkts
    BY <2>1, ContentsAre DEF Contents
  <2>3. LinkedIsInStack(list, s) <=> is_in_stack(pkts, s)
    BY <2>1, IsInStackIs
  <2>4. LinkedIsInStack(list, s) \in BOOLEAN /\ is_in_stack(pkts, s) \in BOOLEAN
    BY DEF LinkedIsInStack, is_in_stack
  <2>5. Find(list, s) =
          IF is_in_stack(pkts, s) THEN nodes[FirstPosition(pkts, s)] ELSE NULL
    BY <2>1, FindIs
  <2>6. Len(pkts) \in Nat /\ Len(pkts) = Len(nodes)
    BY <2>1, RingIs
  <2>7. ASSUME is_in_stack(pkts, s)
        PROVE  /\ Find(list, s) # NULL
               /\ list.heap[Find(list, s)].pkt = stack_get_pkt(pkts, s)
    <3>1. PICK p \in 1 .. Len(nodes) : p = FirstPosition(pkts, s)
      BY <2>6, <2>7, FirstPositionIs
    <3>2. nodes[p] # NULL /\ list.heap[nodes[p]].pkt = pkts[p]
      BY <2>1, RingIs
    <3> QED BY <2>5, <2>7, <3>1, <3>2 DEF stack_get_pkt
  <2>8. Find(list, s) # NULL <=> is_in_stack(pkts, s)
    BY <2>5, <2>7
  <2>9. (Find(list, s) # NULL) = LinkedIsInStack(list, s)
    BY <2>3, <2>4, <2>8
  <2>10. LinkedIsInStack(list, s) = is_in_stack(Contents, s)
    BY <2>2, <2>3, <2>4
  <2> QED BY <2>2, <2>7, <2>8, <2>9, <2>10
<1> QED BY <1>1, ListIsARing, PTL

\* The operators of StackSpec are those of this module.
LEMMA AbstractOperators ==
  /\ Abstract!Packets = Packets /\ Abstract!SeqNums = SeqNums
  /\ \A seq, s : /\ Abstract!is_in_stack(seq, s) = is_in_stack(seq, s)
                 /\ Abstract!stack_get_pkt(seq, s) = stack_get_pkt(seq, s)
                 /\ Abstract!stack_remove(seq, s) = stack_remove(seq, s)
                 /\ Abstract!stack_remove_acked(seq, s) = stack_remove_acked(seq, s)
  /\ \A seq, i, pkt : Abstract!InsertAt(seq, i, pkt) = InsertAt(seq, i, pkt)
  /\ \A seq : Abstract!Last(seq) = seq[Len(seq)]
  /\ \A s, t : Abstract!Offset(s, t) = Offset(s, t)
<1>1. Abstract!SeqNums = SeqNums
  BY DEF Abstract!SeqNums, SeqNums
<1>2. Abstract!Packets = Packets
  BY <1>1 DEF Abstract!Packets, Packets
<1>3. \A seq, s : Abstract!Positions(seq, s) = Positions(seq, s)
  BY DEF Abstract!Positions, Positions
<1>4. \A seq, s : Abstract!is_in_stack(seq, s) = is_in_stack(seq, s)
  BY <1>3 DEF Abstract!is_in_stack, is_in_stack
<1>5. \A seq, s : Abstract!FirstPosition(seq, s) = FirstPosition(seq, s)
  BY <1>3 DEF Abstract!FirstPosition, FirstPosition
<1>6. \A seq, s : Abstract!stack_get_pkt(seq, s) = stack_get_pkt(seq, s)
  BY <1>5 DEF Abstract!stack_get_pkt, stack_get_pkt
<1>7. \A seq, i : Abstract!RemoveAt(seq, i) = RemoveAt(seq, i)
  BY DEF Abstract!RemoveAt, RemoveAt
<1>8. \A seq, s : Abstract!stack_remove(seq, s) = stack_remove(seq, s)
  BY <1>4, <1>5, <1>7 DEF Abstract!stack_remove, stack_remove
<1>9. \A seq, s : Abstract!stack_remove_acked(seq, s) = stack_remove_acked(seq, s)
  BY <1>4, <1>5 DEF Abstract!stack_remove_acked, stack_remove_acked
<1>10. \A seq, i, e : Abstract!InsertAt(seq, i, e) = InsertAt(seq, i, e)
  BY DEF Abstract!InsertAt, InsertAt
<1>11. \A seq : Abstract!Last(seq) = seq[Len(seq)]
  BY DEF Abstract!Last
<1>12. \A s, t : Abstract!Offset(s, t) = Offset(s, t)
  BY DEF Abstract!Offset, Offset
<1> QED BY <1>1, <1>2, <1>4, <1>6, <1>8, <1>9, <1>10, <1>11, <1>12

\* stack_enqueue puts a packet where StackSpec says, and the others keep order.
LEMMA EnqueueKeepsPromise ==
  ASSUME NEW pkts \in Seq(Packets), NEW pkt \in Packets, Contents = pkts,
         Contents' = stack_enqueue(pkts, pkt)
  PROVE  /\ \E place \in 1 .. Len(pkts) + 1 : Contents' = InsertAt(pkts, place, pkt)
         /\ Abstract!FollowsLast(pkt) => Contents'[Len(Contents')] = pkt
         /\ Abstract!Ascending(Contents) /\ Abstract!WithinLap(pkt) =>
              Abstract!Ascending(Contents')
<1>0. \A p \in Packets : p.seqnum \in SeqNums
  BY DEF Packets
<1>1. CASE pkts = <<>>
  <2>1. InsertAt(pkts, 1, pkt) = <<pkt>> /\ Len(pkts) = 0
    <3>1. PICK place \in 1 .. Len(pkts) + 1 : place = 1 /\ Len(pkts) = 0
      BY <1>1
    <3>2. /\ InsertAt(pkts, place, pkt) \in Seq(Packets)
          /\ Len(InsertAt(pkts, place, pkt)) = Len(pkts) + 1
          /\ \A i \in 1 .. Len(pkts) + 1 :
               InsertAt(pkts, place, pkt)[i] =
                 IF i < place THEN pkts[i] ELSE IF i = place THEN pkt ELSE pkts[i - 1]
      BY PacketPutIn
    <3>3. /\ InsertAt(pkts, 1, pkt) \in Seq(Packets)
          /\ Len(InsertAt(pkts, 1, pkt)) = 1
          /\ InsertAt(pkts, 1, pkt)[1] = pkt
      BY <3>1, <3>2
    <3> QED BY <3>1, <3>3
  <2>2. ~Abstract!FollowsLast(pkt) /\ ~Abstract!WithinLap(pkt)
    BY <1>1 DEF Abstract!FollowsLast, Abstract!WithinLap
  <2>3. Contents' = <<pkt>>
    BY <1>1 DEF stack_enqueue
  <2>4. 1 \in 1 .. Len(pkts) + 1
    BY <2>1
  <2> QED BY <2>1, <2>2, <2>3, <2>4
<1>2. CASE pkts # <<>>
  <2> DEFINE e == EnqueueAfter(pkts, pkt.seqnum)
  <2>1. Len(pkts) \in Nat \ {0}
    BY <1>2, EmptySeq, LenProperties
  <2>2. PICK place \in 1 .. Len(pkts) + 1 : place = e + 1
    BY <2>1, EnqueueAfterIs
  <2>3. Contents' = InsertAt(pkts, place, pkt)
    BY <1>2, <2>2 DEF stack_enqueue
  <2> HIDE DEF e
  <2>4. ASSUME Abstract!FollowsLast(pkt)
        PROVE  Contents'[Len(Contents')] = pkt
    <3>1. Offset(pkts[Len(pkts)].seqnum, pkt.seqnum) < MAX_WINDOW_SIZE
      BY <2>4, AbstractOperators DEF Abstract!FollowsLast
    <3>2. place = Len(pkts) + 1
      BY <1>0, <1>2, <2>2, <3>1, EnqueueFollowing DEF e
    <3>3. /\ Len(InsertAt(pkts, place, pkt)) = Len(pkts) + 1
          /\ \A i \in 1 .. Len(pkts) + 1 :
               InsertAt(pkts, place, pkt)[i] =
                 IF i < place THEN pkts[i] ELSE IF i = place THEN pkt ELSE pkts[i - 1]
      BY PacketPutIn
    <3> QED BY <2>1, <2>3, <3>2, <3>3
  <2>5. ASSUME Abstract!Ascending(Contents), Abstract!WithinLap(pkt)
        PROVE  Abstract!Ascending(Contents')
    <3>1. /\ \A i, j \in 1 .. Len(pkts) : i < j => pkts[i].seqnum <= pkts[j].seqnum
          /\ pkts[1].seqnum <= pkt.seqnum
          /\ \A i \in 1 .. Len(pkts) :
               ~(pkts[i].seqnum > WrapHigh /\ pkt.seqnum < WrapLow)
      BY <2>5 DEF Abstract!Ascending, Abstract!WithinLap
    <3> QED BY <1>0, <1>2, <3>1, EnqueueSorts DEF Abstract!Ascending
  <2> QED BY <2>3, <2>4, <2>5
<1> QED BY <1>1, <1>2

\* stack.c implements StackSpec: a packet is put last if it follows the last one
\* and sorted where it can be (stack.c:29-36), and every removal does to the nodes
\* what it does to the sequence, and gives back the same packets.
THEOREM LinkedStackIsStack == Spec => ImplementsStack
<1>1. Init => Abstract!Init
  <2> SUFFICES ASSUME Init PROVE Abstract!Init
    OBVIOUS
  <2>1. Contents = <<>>
    BY FirstRing, ContentsAre DEF Contents
  <2> QED BY <2>1 DEF Init, Abstract!Init
<1>2. LinkedInv /\ [Next]_<<list, returned>> => [Abstract!Next]_<<Contents, returned>>
  <2> SUFFICES ASSUME LinkedInv, [Next]_<<list, returned>>
               PROVE  [Abstract!Next]_<<Contents, returned>>
    OBVIOUS
  <2>1. PICK nodes, pkts : Ring(list, nodes, pkts)
    BY DEF LinkedInv
  <2>2. Contents = pkts
    BY <2>1, ContentsAre DEF Contents
  <2>3. ASSUME NEW all, NEW q, Ring(list', all, q) PROVE Contents' = q
    BY <2>3, ContentsAre DEF Contents
  <2>4. ASSUME NEW pkt \in Packets, CallEnqueue(pkt)
        PROVE  Abstract!CallEnqueue(pkt)
    <3>1. PICK all, q :
            /\ Ring(list', all, q)
            /\ \/ /\ Len(pkts) < MaxNodes
                  /\ q = stack_enqueue(pkts, pkt) /\ returned' = <<>>
               \/ /\ Len(pkts) = MaxNodes
                  /\ q = pkts /\ returned' = <<pkt>>
      BY <2>1, <2>4, EnqueueStep
    <3>2. Contents' = q
      BY <2>3, <3>1
    <3>3. pkts \in Seq(Packets) /\ Len(pkts) = Len(nodes) /\ Len(nodes) \in Nat
      BY <2>1, RingIs DEF Ring
    <3>4. CASE Len(pkts) < MaxNodes /\ q = stack_enqueue(pkts, pkt) /\ returned' = <<>>
      <4>1. /\ \E place \in 1 .. Len(pkts) + 1 : Contents' = InsertAt(pkts, place, pkt)
            /\ Abstract!FollowsLast(pkt) => Contents'[Len(Contents')] = pkt
            /\ Abstract!Ascending(Contents) /\ Abstract!WithinLap(pkt) =>
                 Abstract!Ascending(Contents')
        BY <2>2, <2>4, <3>2, <3>3, <3>4, EnqueueKeepsPromise
      <4>2. \E place \in 1 .. Len(Contents) + 1 :
              Contents' = Abstract!InsertAt(Contents, place, pkt)
        BY <2>2, <4>1, AbstractOperators
      <4>3. Abstract!FollowsLast(pkt) => Abstract!Last(Contents') = pkt
        BY <4>1, AbstractOperators
      <4> QED BY <2>2, <3>4, <4>1, <4>2, <4>3 DEF Abstract!CallEnqueue
    <3>5. CASE Len(pkts) = MaxNodes /\ q = pkts /\ returned' = <<pkt>>
      BY <2>2, <3>2, <3>5 DEF Abstract!CallEnqueue
    <3> QED BY <3>1, <3>4, <3>5
  <2>5. ASSUME NEW s \in SeqNums, CallRemove(s) PROVE Abstract!CallRemove(s)
    <3>1. /\ \E all : Ring(list', all, stack_remove(pkts, s))
          /\ returned' =
               IF is_in_stack(pkts, s) THEN <<stack_get_pkt(pkts, s)>> ELSE <<>>
      BY <2>1, <2>5, RemoveStep
    <3>2. Contents' = stack_remove(pkts, s)
      BY <2>3, <3>1
    <3> QED BY <2>2, <3>1, <3>2, AbstractOperators DEF Abstract!CallRemove
  <2>6. ASSUME NEW s \in SeqNums, CallRemoveAcked(s) PROVE Abstract!CallRemoveAcked(s)
    <3>1. PICK all, q :
            /\ Ring(list', all, q)
            /\ q = stack_remove_acked(pkts, s)
            /\ returned' = SubSeq(pkts, 1, Len(pkts) - Len(q))
      BY <2>1, <2>6, RemoveAckedStep
    <3>2. Contents' = q
      BY <2>3, <3>1
    <3> QED BY <2>2, <3>1, <3>2, AbstractOperators DEF Abstract!CallRemoveAcked
  <2>7. ASSUME CallFree PROVE Abstract!CallFree
    <3>1. (\E all : Ring(list', all, <<>>)) /\ returned' = pkts
      BY <2>1, <2>7, FreeStep
    <3>2. Contents' = <<>>
      BY <2>3, <3>1
    <3> QED BY <2>2, <3>1, <3>2 DEF Abstract!CallFree
  <2>8. CASE UNCHANGED <<list, returned>>
    BY <2>8 DEF Contents
  <2> QED BY <2>4, <2>5, <2>6, <2>7, <2>8, AbstractOperators DEF Next, Abstract!Next
<1> QED BY <1>1, <1>2, ListIsARing, PTL DEF Spec, ImplementsStack, Abstract!Spec

=============================================================================
