---------------------------- MODULE LinkedStack -----------------------------
(***************************************************************************)
(* stack.c as it is written: nodes in a doubly linked ring, a pointer to   *)
(* the first, one to the last, and a size.  An operation is an operator    *)
(* from the list before the call to the list after it; its assignments are *)
(* made in the order of the code, so that a node that is at once runner    *)
(* and runner->next is updated as the code updates it.                     *)
(***************************************************************************)
EXTENDS Stack

CONSTANTS Tags, MaxNodes  \* as in StackSpec

ASSUME LinkedStackAssumption == MaxNodes \in Nat \ {0}

VARIABLES
  list,     \* stack_t: the fields first, last and size, and the heap of nodes
  returned  \* the packets the last call gave back to its caller, or deleted

Packets == [seqnum : SeqNums, tag : Tags]

\* An address is a number; NULL is none of those malloc gives.
NULL == 0
Addresses == 1 .. MaxNodes
Unallocated == [next |-> NULL, prev |-> NULL, free |-> TRUE]

stack_init ==
  [first |-> NULL, last |-> NULL, size |-> 0,
   heap |-> [a \in Addresses |-> Unallocated]]

-----------------------------------------------------------------------------
FreeAddresses(l) == {a \in Addresses : l.heap[a].free}

\* malloc gives the lowest free address: no operation compares addresses
\* otherwise than for equality, so which one it gives does not matter.
Malloc(l) == CHOOSE a \in FreeAddresses(l) : \A b \in FreeAddresses(l) : a <= b

Node(next, prev, pkt) ==
  [next |-> next, prev |-> prev, pkt |-> pkt, seqnum |-> pkt.seqnum, free |-> FALSE]

\* Where a runner is after n steps, from first along next, from last along prev.
Forward(l) ==
  LET runner[n \in 0 .. l.size] ==
        IF n = 0 THEN l.first ELSE l.heap[runner[n - 1]].next
  IN  runner

Backward(l) ==
  LET runner[n \in 0 .. l.size] ==
        IF n = 0 THEN l.last ELSE l.heap[runner[n - 1]].prev
  IN  runner

\* The runner of stack_enqueue stops at the first node that it does not pass,
\* or when it comes to first.
Place(l, s) ==
  LET runner == Backward(l)
      stops == {n \in 0 .. l.size : \/ n > 0 /\ runner[n] = l.first
                                   \/ ~Passes(s, l.heap[runner[n]])}
  IN  runner[Min(stops)]

InsertOnlyNode(l, pkt) ==
  LET new == Malloc(l)
  IN  [first |-> new, last |-> new, size |-> 1,
       heap |-> [l.heap EXCEPT ![new] = Node(new, new, pkt)]]

\* Faulty: leaves out runner->next->prev = newNode.
InsertAfterNoBackLink(l, runner, pkt) ==
  LET new == Malloc(l)
      follower == l.heap[runner].next
  IN  [first |-> IF runner # l.last /\ follower = l.first THEN new ELSE l.first,
       last |-> IF runner = l.last THEN new ELSE l.last,
       size |-> l.size + 1,
       heap |-> [l.heap EXCEPT ![new] = Node(follower, runner, pkt),
                               ![runner].next = new]]

InsertAfter(l, runner, pkt) ==
  LET new == Malloc(l)
      follower == l.heap[runner].next
  IN  [first |-> IF runner # l.last /\ follower = l.first THEN new ELSE l.first,
       last |-> IF runner = l.last THEN new ELSE l.last,
       size |-> l.size + 1,
       heap |-> [l.heap EXCEPT ![new] = Node(follower, runner, pkt),
                               ![follower].prev = new,
                               ![runner].next = new]]

Enqueued(l, pkt) ==
  IF l.size = 0 THEN InsertOnlyNode(l, pkt)
  ELSE InsertAfter(l, Place(l, pkt.seqnum), pkt)

-----------------------------------------------------------------------------
\* The runner of stack_remove and stack_get_pkt stops at a node with the number,
\* or when it is back at first; NULL for the latter.
Find(l, s) ==
  LET runner == Forward(l)
      stops == {n \in 0 .. l.size : \/ n > 0 /\ runner[n] = l.first
                                   \/ l.heap[runner[n]].seqnum = s}
      end == Min(stops)
  IN  IF l.first = NULL \/ (end > 0 /\ runner[end] = l.first) THEN NULL ELSE runner[end]

\* Takes the node out of the ring of two nodes or more, and frees it.
Unlink(l, a) ==
  LET node == l.heap[a]
  IN  [first |-> IF a = l.first THEN node.next ELSE l.first,
       last |-> IF a # l.first /\ a = l.last THEN node.prev ELSE l.last,
       size |-> l.size - 1,
       heap |-> [l.heap EXCEPT ![node.prev].next = node.next,
                               ![node.next].prev = node.prev,
                               ![a] = Unallocated]]

RemoveNode(l, a) ==
  IF a = l.first /\ l.size <= 1
  THEN [first |-> NULL, last |-> NULL, size |-> 0,
        heap |-> [l.heap EXCEPT ![a] = Unallocated]]
  ELSE Unlink(l, a)

\* What a sequence of removals leaves, and the packets it took out.
Removal(l, pkts) == [list |-> l, pkts |-> pkts]

RemoveOne(l, s) ==
  LET a == Find(l, s)
  IN  IF a = NULL THEN Removal(l, <<>>)
      ELSE Removal(RemoveNode(l, a), <<l.heap[a].pkt>>)

\* The first node is removed, by its sequence number.
RemoveFirstNode(removal) ==
  LET l == removal.list
      first == RemoveOne(l, l.heap[l.first].seqnum)
  IN  Removal(first.list, removal.pkts \o first.pkts)

\* The loops of stack_remove_acked and stack_free: they remove the first node
\* until the list is empty or its sequence number is in stops.
RemoveFront(l, stops) ==
  LET after[n \in 0 .. l.size] ==
        IF n = 0 THEN Removal(l, <<>>) ELSE RemoveFirstNode(after[n - 1])
      ends == {n \in 0 .. l.size :
                 LET left == after[n].list
                 IN  left.size = 0 \/ left.heap[left.first].seqnum \in stops}
  IN  after[Min(ends)]

\* Faulty: never looks at the last node.
LinkedIsInStackShort(l, s) ==
  \E n \in 0 .. l.size - 2 : l.heap[Forward(l)[n]].seqnum = s

\* The loop of is_in_stack counts up to size instead of looking for first.
LinkedIsInStack(l, s) ==
  \E n \in 0 .. l.size - 1 : l.heap[Forward(l)[n]].seqnum = s

-----------------------------------------------------------------------------
Init ==
  /\ list = stack_init
  /\ returned = <<>>

CallEnqueue(pkt) ==
  \/ /\ FreeAddresses(list) # {}
     /\ list' = Enqueued(list, pkt)
     /\ returned' = <<>>
  \/ /\ FreeAddresses(list) = {}
     /\ returned' = <<pkt>>
     /\ UNCHANGED list

Done(removal) ==
  /\ list' = removal.list
  /\ returned' = removal.pkts

CallRemove(s) == Done(RemoveOne(list, s))

CallRemoveAcked(s) == Done(RemoveFront(list, {s}))

CallFree == Done(RemoveFront(list, {}))

Next ==
  \/ \E pkt \in Packets : CallEnqueue(pkt)
  \/ \E s \in SeqNums : CallRemove(s) \/ CallRemoveAcked(s)
  \/ CallFree

Spec == Init /\ [][Next]_<<list, returned>>

-----------------------------------------------------------------------------
\* The refinement mapping: the packets met by a walk along next from first.
Contents == [i \in 1 .. list.size |-> list.heap[Forward(list)[i - 1]].pkt]

Abstract == INSTANCE StackSpec WITH stack <- Contents

\* stack.c implements StackSpec: a packet that follows the last one is put last,
\* at every wrap (stack.c:31), one within a lap is put where it is sorted, and a
\* removal does to the nodes what it does to the sequence; the packets come back
\* in their order.
ImplementsStack == Abstract!Spec

RingAddresses == {Forward(list)[n] : n \in 0 .. list.size - 1}

\* The ring is closed in both directions, first and last are neighbours, the
\* node's own copy of the sequence number is the packet's, and the allocated
\* nodes are exactly those of the ring: nothing leaks, nothing dangles.
RingWellFormed ==
  /\ RingAddresses = Addresses \ FreeAddresses(list)
  /\ Cardinality(RingAddresses) = list.size
  /\ list.size = 0 => list.first = NULL /\ list.last = NULL
  /\ list.size > 0 => list.heap[list.first].prev = list.last
  /\ \A a \in RingAddresses :
       /\ list.heap[list.heap[a].next].prev = a
       /\ list.heap[list.heap[a].prev].next = a
       /\ list.heap[a].seqnum = list.heap[a].pkt.seqnum

\* The three look-ups of stack.c end differently (back at first, or after size
\* steps) and agree: on whether the number is there, and on the node, the one
\* the sequence calls first, also when the same number is there twice.
LookupsAgree ==
  \A s \in SeqNums :
    /\ (Find(list, s) # NULL) = LinkedIsInStack(list, s)
    /\ LinkedIsInStack(list, s) = is_in_stack(Contents, s)
    /\ Find(list, s) # NULL =>
         list.heap[Find(list, s)].pkt = stack_get_pkt(Contents, s)

=============================================================================
