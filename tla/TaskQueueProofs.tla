--------------------------- MODULE TaskQueueProofs ---------------------------
(* Proofs about taskqueue.c for every capacity, heap and set of descriptors. *)
EXTENDS TaskQueue, SequenceTheorems, TLAPS

(* The three invariants together are inductive: a step keeps the pointers    *)
(* in order only because every queued node is allocated exactly once.        *)
IInv == TypeOK /\ ListShape /\ NodesAccounted

(* Appending a fresh element keeps a sequence's elements and adds that one.  *)
LEMMA AppendElems ==
  ASSUME NEW S, NEW s \in Seq(S), NEW e \in S
  PROVE  /\ Append(s, e) \in Seq(S)
         /\ Append(s, e) # <<>>
         /\ Len(Append(s, e)) = Len(s) + 1
         /\ \A i \in 1..Len(s) : Append(s, e)[i] = s[i]
         /\ Append(s, e)[Len(s) + 1] = e
         /\ Elems(Append(s, e)) = Elems(s) \cup {e}
  <1>1. /\ Append(s, e) \in Seq(S)
        /\ Append(s, e) # <<>>
        /\ Len(Append(s, e)) = Len(s) + 1
        /\ \A i \in 1..Len(s) : Append(s, e)[i] = s[i]
        /\ Append(s, e)[Len(s) + 1] = e
    OBVIOUS
  <1>2. Len(s) \in Nat
    OBVIOUS
  <1>3. \A x : x \in Elems(Append(s, e)) <=> x \in Elems(s) \cup {e}
    BY <1>1, <1>2 DEF Elems
  <1> QED BY <1>1, <1>3

(* Taking the tail shifts the elements by one and gives up only the first.   *)
LEMMA TailElems ==
  ASSUME NEW S, NEW s \in Seq(S), s # <<>>,
         \A i, j \in 1..Len(s) : s[i] = s[j] => i = j
  PROVE  /\ Tail(s) \in Seq(S)
         /\ Len(Tail(s)) = Len(s) - 1
         /\ \A i \in 1..(Len(s) - 1) : Tail(s)[i] = s[i + 1]
         /\ Tail(s) = <<>> <=> Len(s) = 1
         /\ Elems(Tail(s)) = Elems(s) \ {s[1]}
  <1>1. /\ Tail(s) \in Seq(S)
        /\ Len(Tail(s)) = Len(s) - 1
        /\ \A i \in 1..(Len(s) - 1) : Tail(s)[i] = s[i + 1]
        /\ Tail(s) = <<>> <=> Len(s) = 1
    <2>1. /\ Tail(s) \in Seq(S) /\ Len(Tail(s)) = Len(s) - 1
          /\ \A i \in 1..Len(Tail(s)) : Tail(s)[i] = s[i + 1]
      BY HeadTailProperties
    <2>2. Tail(s) = <<>> => Len(Tail(s)) = 0
      BY EmptySeq
    <2>3. Tail(s) # <<>> => Len(Tail(s)) \in Nat \ {0}
      BY <2>1, EmptySeq
    <2>4. Len(s) \in Nat
      BY LenProperties
    <2> QED BY <2>1, <2>2, <2>3, <2>4
  <1>2. \A x : x \in Elems(Tail(s)) <=> x \in Elems(s) \ {s[1]}
    <2>1. SUFFICES ASSUME NEW x
          PROVE  x \in Elems(Tail(s)) <=> x \in Elems(s) \ {s[1]}
      OBVIOUS
    <2>2. ASSUME x \in Elems(Tail(s)) PROVE x \in Elems(s) \ {s[1]}
      <3>1. PICK i \in 1..(Len(s) - 1) : x = s[i + 1]
        BY <1>1, <2>2 DEF Elems
      <3> QED BY <3>1 DEF Elems
    <2>3. ASSUME x \in Elems(s) \ {s[1]} PROVE x \in Elems(Tail(s))
      <3>1. PICK j \in 1..Len(s) : x = s[j] /\ j # 1
        BY <2>3 DEF Elems
      <3>2. j - 1 \in 1..(Len(s) - 1) /\ Tail(s)[j - 1] = x
        BY <1>1, <3>1
      <3> QED BY <1>1, <3>2 DEF Elems
    <2> QED BY <2>2, <2>3
  <1> QED BY <1>1, <1>2

(* Index arithmetic: the next place of a sequence one element shorter.       *)
LEMMA NextIndex ==
  ASSUME NEW n \in Nat, NEW i \in 1..(n - 1)
  PROVE  /\ i + 1 \in 1..n
         /\ i + 1 = n <=> i = n - 1
         /\ i # n - 1 => i + 1 \in 1..(n - 1)
  OBVIOUS

(* Links along a sequence are links along its tail.                          *)
LEMMA TailLinks ==
  ASSUME NEW S, NEW s \in Seq(S), s # <<>>, NEW f, NEW z,
         \A i \in 1..Len(s) : f[s[i]] = IF i = Len(s) THEN z ELSE s[i + 1]
  PROVE  \A i \in 1..Len(Tail(s)) :
            f[Tail(s)[i]] = IF i = Len(Tail(s)) THEN z ELSE Tail(s)[i + 1]
  <1> DEFINE t == Tail(s)
             n == Len(s)
  <1>1. n \in Nat /\ Len(t) = n - 1 /\ \A i \in 1..(n - 1) : t[i] = s[i + 1]
    BY HeadTailProperties, LenProperties
  <1> HIDE DEF t, n
  <1>2. ASSUME NEW i \in 1..(n - 1)
        PROVE  f[t[i]] = IF i = n - 1 THEN z ELSE t[i + 1]
    <2>1. f[t[i]] = IF i + 1 = n THEN z ELSE s[(i + 1) + 1]
      BY <1>1, NextIndex DEF n
    <2>2. i # n - 1 => t[i + 1] = s[(i + 1) + 1]
      BY <1>1, NextIndex
    <2> QED BY <1>1, <2>1, <2>2, NextIndex
  <1> QED BY <1>1, <1>2 DEF t

LEMMA InitInv == Init => IInv
  BY QueueAssumption
  DEF Init, task_queue_init, IInv, TypeOK, ListShape, Linked, NodesAccounted,
      Elems, Answer, Codes

LEMMA CreateInv ==
  ASSUME IInv, NEW fd \in Fds, queue_node_create(fd)
  PROVE  IInv'
  <1> USE QueueAssumption
  <1>1. PICK n \in Nodes \ heap :
          /\ heap' = heap \cup {n} /\ new' = n
          /\ confd' = [confd EXCEPT ![n] = fd]
          /\ next' = [next EXCEPT ![n] = NULL]
    BY DEF queue_node_create
  <1>2. /\ UNCHANGED <<head, tail, size, pc, answer, order, lost>>
        /\ new = NULL /\ pc = "open"
    BY DEF queue_node_create, queueVars
  <1>3. n \notin Elems(order) /\ n \notin lost
    BY <1>1 DEF IInv, NodesAccounted
  <1>4. TypeOK'
    BY <1>1, <1>2 DEF IInv, TypeOK
  <1>5. ListShape'
    <2>1. \A i \in 1..Len(order) : order[i] # n
      BY <1>3 DEF Elems
    <2>2. \A i \in 1..Len(order) : next'[order[i]] = next[order[i]]
      BY <1>1, <2>1 DEF IInv, TypeOK
    <2> QED BY <1>1, <1>2, <2>2 DEF IInv, ListShape, Linked, TypeOK
  <1>6. NodesAccounted'
    BY <1>1, <1>2, <1>3 DEF IInv, NodesAccounted, Elems
  <1> QED BY <1>4, <1>5, <1>6 DEF IInv

LEMMA EnqueueInv == ASSUME IInv, task_enqueue PROVE IInv'
  <1> USE QueueAssumption
  <1>0. NULL \notin Elems(order) \cup lost
    BY ElementOfSeq DEF IInv, TypeOK, Elems
  <1>1. /\ UNCHANGED <<confd, heap, pc>> /\ new' = NULL
        /\ new \in Nodes /\ pc = "open"
    BY DEF task_enqueue, IInv, TypeOK
  <1>2. CASE EnqueueFull
    <2>1. UNCHANGED <<head, tail, size, next, order>> /\ lost' = lost \cup {new}
      BY <1>2 DEF EnqueueFull, queueVars
    <2>2. TypeOK'
      BY <1>1, <1>2, <2>1 DEF EnqueueFull, IInv, TypeOK, Answer, Codes
    <2>3. ListShape'
      BY <1>1, <2>1 DEF IInv, ListShape, Linked
    <2>4. NodesAccounted'
      BY <1>0, <1>1, <2>1 DEF IInv, NodesAccounted
    <2> QED BY <2>2, <2>3, <2>4 DEF IInv
  <1>3. CASE EnqueueOk
    <2>1. /\ tail' = new /\ size' = size + 1 /\ order' = Append(order, new)
          /\ answer' = Answer("OK", NoFd) /\ UNCHANGED lost
          /\ size < MaxCapacity
      BY <1>3 DEF EnqueueOk, task_queue_isfull, IInv, TypeOK
    <2>2. /\ order' \in Seq(Nodes) /\ order' # <<>>
          /\ Len(order') = Len(order) + 1
          /\ \A i \in 1..Len(order) : order'[i] = order[i]
          /\ order'[Len(order) + 1] = new
          /\ Elems(order') = Elems(order) \cup {new}
      BY <1>1, <2>1, AppendElems DEF IInv, TypeOK
    <2>3. size = Len(order) /\ order \in Seq(Nodes)
      BY <1>1 DEF IInv, ListShape, TypeOK
    <2>4. /\ \A i \in 1..Len(order) : order[i] # new
          /\ new \notin lost
      BY DEF IInv, NodesAccounted, Elems
    <2>5. next[new] = NULL
      BY <1>1, QueueAssumption DEF IInv, ListShape, Linked
    <2>6. TypeOK'
      BY <1>1, <1>3, <2>1, <2>2 DEF EnqueueOk, IInv, TypeOK, Answer, Codes
    <2>7. Linked'
      <3>1. CASE task_queue_isempty
        <4>1. order = <<>> /\ head' = new /\ next' = next
          BY <1>3, <2>3, <3>1, EmptySeq DEF EnqueueOk, task_queue_isempty
        <4>2. Len(order') = 1 /\ order'[1] = new
          BY <2>2, <4>1
        <4> QED BY <1>1, <2>2, <2>5, <4>1, <4>2 DEF Linked
      <3>2. CASE ~task_queue_isempty
        <4>1. /\ next' = [next EXCEPT ![tail] = new] /\ head' = head
              /\ Len(order) \in Nat \ {0} /\ tail = order[Len(order)]
              /\ head = order[1] /\ order # <<>>
          BY <1>1, <1>3, <2>3, <3>2, EmptySeq
          DEF EnqueueOk, task_queue_isempty, IInv, ListShape, Linked
        <4>2. ASSUME NEW i \in 1..Len(order')
              PROVE  next'[order'[i]] =
                       IF i = Len(order') THEN NULL ELSE order'[i + 1]
          <5>1. CASE i = Len(order) + 1
            BY <2>2, <2>4, <2>5, <4>1, <5>1 DEF IInv, TypeOK
          <5>2. CASE i = Len(order)
            BY <2>2, <4>1, <5>2 DEF IInv, TypeOK
          <5>3. CASE i < Len(order)
            <6>1. i \in 1..Len(order) /\ Len(order) \in 1..Len(order)
              BY <4>1, <5>3
            <6>2. order[i] # tail /\ next[order[i]] = order[i + 1]
              BY <4>1, <5>3, <6>1 DEF IInv, ListShape, Linked
            <6>3. order'[i] = order[i] /\ order'[i + 1] = order[i + 1]
              BY <2>2, <4>1, <5>3
            <6> QED BY <2>2, <4>1, <5>3, <6>2, <6>3 DEF IInv, TypeOK
          <5> QED BY <2>2, <4>1, <5>1, <5>2, <5>3
        <4>3. \A i, j \in 1..Len(order') : order'[i] = order'[j] => i = j
          BY <2>2, <2>4, <4>1 DEF IInv, ListShape, Linked
        <4>4. head' = order'[1]
          BY <2>2, <4>1
        <4> QED BY <1>1, <2>2, <4>2, <4>3, <4>4 DEF Linked
      <3> QED BY <3>1, <3>2
    <2>8. NodesAccounted'
      BY <1>0, <1>1, <2>1, <2>2 DEF IInv, NodesAccounted
    <2> QED BY <1>1, <2>1, <2>2, <2>3, <2>6, <2>7, <2>8 DEF IInv, ListShape
  <1> QED BY <1>2, <1>3 DEF task_enqueue

(* What freeing the first of the queued nodes leaves, for task_dequeue and   *)
(* for every turn of task_queue_destroy's loop.                              *)
LEMMA FreeFirst ==
  ASSUME IInv, order # <<>>,
         order' = Tail(order), heap' = heap \ {head},
         head' = IF Len(order) = 1 THEN NULL ELSE next[head],
         UNCHANGED <<next, new, lost>>
  PROVE  /\ head \in Nodes
         /\ order' \in Seq(Nodes) /\ Len(order') = Len(order) - 1
         /\ Len(order) \in Nat \ {0}
         /\ order' = <<>> <=> Len(order) = 1
         /\ order' # <<>> => order'[Len(order')] = order[Len(order)]
         /\ Linked'
         /\ heap' = Elems(order') \cup lost' \cup ({new'} \ {NULL})
         /\ Elems(order') \cap lost' = {}
         /\ new' \notin Elems(order') \cup lost'
  <1>1. /\ order' \in Seq(Nodes) /\ Len(order') = Len(order) - 1
        /\ \A i \in 1..(Len(order) - 1) : order'[i] = order[i + 1]
        /\ order' = <<>> <=> Len(order) = 1
        /\ Elems(order') = Elems(order) \ {order[1]}
    BY TailElems DEF IInv, TypeOK, ListShape, Linked
  <1>2. /\ Len(order) \in Nat \ {0} /\ head = order[1]
        /\ order[1] \in Nodes /\ order[1] \in Elems(order)
    BY EmptySeq, ElementOfSeq DEF IInv, TypeOK, ListShape, Linked, Elems
  <1>3. \A i \in 1..Len(order) :
          next[order[i]] = IF i = Len(order) THEN NULL ELSE order[i + 1]
    BY DEF IInv, ListShape, Linked
  <1>4. \A i, j \in 1..Len(order) : order[i] = order[j] => i = j
    BY DEF IInv, ListShape, Linked
  <1>5. /\ head' = IF order' = <<>> THEN NULL ELSE order'[1]
        /\ \A i \in 1..Len(order') :
             next'[order'[i]] = IF i = Len(order') THEN NULL ELSE order'[i + 1]
        /\ \A i, j \in 1..Len(order') : order'[i] = order'[j] => i = j
    <2>1. 1 \in 1..Len(order)
      BY <1>2
    <2>2. next[head] = IF Len(order) = 1 THEN NULL ELSE order[2]
      <3>1. next[order[1]] = IF 1 = Len(order) THEN NULL ELSE order[1 + 1]
        BY <1>3, <2>1
      <3>2. 1 + 1 = 2
        OBVIOUS
      <3> QED BY <1>2, <3>1, <3>2
    <2>3. order' # <<>> => order'[1] = order[2]
      BY <1>1, <1>2
    <2>4. head' = IF order' = <<>> THEN NULL ELSE order'[1]
      BY <1>1, <2>2, <2>3
    <2>5. ASSUME NEW i \in 1..Len(order')
          PROVE  next'[order'[i]] =
                   IF i = Len(order') THEN NULL ELSE order'[i + 1]
      BY <1>3, TailLinks DEF IInv, TypeOK
    <2>6. ASSUME NEW i \in 1..Len(order'), NEW j \in 1..Len(order'),
                 order'[i] = order'[j]
          PROVE  i = j
      <3>1. /\ i \in 1..(Len(order) - 1) /\ i + 1 \in 1..Len(order)
            /\ j \in 1..(Len(order) - 1) /\ j + 1 \in 1..Len(order)
        BY <1>1, <1>2
      <3> QED BY <1>1, <1>4, <2>6, <3>1
    <2> QED BY <2>4, <2>5, <2>6
  <1>6. Linked'
    BY <1>5 DEF Linked, IInv, ListShape
  <1>7. order' # <<>> => order'[Len(order')] = order[Len(order)]
    BY <1>1, <1>2
  <1> QED BY <1>1, <1>2, <1>6, <1>7 DEF IInv, NodesAccounted

LEMMA DequeueInv == ASSUME IInv, task_dequeue PROVE IInv'
  <1>1. pc = "open" /\ UNCHANGED <<next, confd, new, pc, lost>>
    BY DEF task_dequeue
  <1>2. CASE DequeueEmpty
    <2>1. UNCHANGED <<head, tail, size, heap, order>>
      BY <1>2 DEF DequeueEmpty, queueVars
    <2>2. TypeOK'
      BY <1>1, <1>2, <2>1 DEF DequeueEmpty, IInv, TypeOK, Answer, Codes
    <2>3. ListShape' /\ NodesAccounted'
      BY <1>1, <2>1 DEF IInv, ListShape, Linked, NodesAccounted, Elems
    <2> QED BY <2>2, <2>3 DEF IInv
  <1>3. CASE DequeueOk
    <2>1. size = Len(order) /\ size > 0 /\ order # <<>>
      BY <1>1, <1>3, EmptySeq
      DEF DequeueOk, task_queue_isempty, IInv, ListShape, TypeOK
    <2>2. /\ order' = Tail(order) /\ heap' = heap \ {head}
          /\ size' = size - 1
          /\ head' = IF Len(order) = 1 THEN NULL ELSE next[head]
          /\ tail' = IF Len(order) = 1 THEN NULL ELSE tail
      BY <1>3, <2>1 DEF DequeueOk, IInv, TypeOK
    <2>3. /\ head \in Nodes
          /\ order' \in Seq(Nodes) /\ Len(order') = Len(order) - 1
          /\ Len(order) \in Nat \ {0}
          /\ order' = <<>> <=> Len(order) = 1
          /\ order' # <<>> => order'[Len(order')] = order[Len(order)]
          /\ Linked'
          /\ heap' = Elems(order') \cup lost' \cup ({new'} \ {NULL})
          /\ Elems(order') \cap lost' = {}
          /\ new' \notin Elems(order') \cup lost'
      BY <1>1, <2>1, <2>2, FreeFirst
    <2>4. head' \in Nodes \cup {NULL} /\ answer' \in [code : Codes, fd : Fds \cup {NoFd}]
      BY <1>3, <2>2, <2>3 DEF DequeueOk, IInv, TypeOK, Answer, Codes
    <2>5. TypeOK'
      BY <1>1, <2>1, <2>2, <2>3, <2>4, QueueAssumption DEF IInv, TypeOK
    <2>6. ListShape'
      BY <1>1, <2>1, <2>2, <2>3 DEF IInv, ListShape
    <2>7. NodesAccounted'
      BY <1>1, <2>3 DEF NodesAccounted
    <2> QED BY <2>5, <2>6, <2>7 DEF IInv
  <1> QED BY <1>2, <1>3 DEF task_dequeue

LEMMA DestroyInv == ASSUME IInv, task_queue_destroy PROVE IInv'
  <1>1. /\ UNCHANGED <<head, tail, size, next, confd, heap, new, order, lost>>
        /\ pc = "open"
    BY DEF task_queue_destroy, queueVars, nodeVars
  <1>2. /\ pc' \in {"closing", "closed"}
        /\ answer' \in [code : Codes, fd : Fds \cup {NoFd}]
        /\ pc' = "closed" => size = 0
    BY DEF task_queue_destroy, task_queue_isempty, IInv, TypeOK, Answer, Codes
  <1>3. pc' = "closed" => Elems(order) = {}
    BY <1>1, <1>2 DEF IInv, ListShape, TypeOK, Elems
  <1>4. TypeOK' /\ ListShape'
    BY <1>1, <1>2 DEF IInv, TypeOK, ListShape, Linked
  <1>5. NodesAccounted'
    BY <1>1, <1>3 DEF IInv, NodesAccounted, Elems
  <1> QED BY <1>4, <1>5 DEF IInv

LEMMA FreeHeadInv == ASSUME IInv, FreeHead PROVE IInv'
  <1>1. pc = "closing" /\ UNCHANGED <<tail, size, next, confd, new, lost>>
    BY DEF FreeHead
  <1>2. CASE head # NULL
    <2>1. /\ head' = next[head] /\ heap' = heap \ {head}
          /\ order' = Tail(order) /\ UNCHANGED <<pc, answer>>
      BY <1>2 DEF FreeHead
    <2>2. order # <<>>
      BY <1>2 DEF IInv, ListShape, Linked
    <2>3. next[head] = IF Len(order) = 1 THEN NULL ELSE next[head]
      BY <2>2, EmptySeq DEF IInv, TypeOK, ListShape, Linked
    <2>4. /\ head \in Nodes
          /\ order' \in Seq(Nodes) /\ Linked'
          /\ heap' = Elems(order') \cup lost' \cup ({new'} \ {NULL})
          /\ Elems(order') \cap lost' = {}
          /\ new' \notin Elems(order') \cup lost'
      BY <1>1, <2>1, <2>2, <2>3, FreeFirst
    <2>5. TypeOK'
      BY <1>1, <2>1, <2>4 DEF IInv, TypeOK
    <2> QED BY <1>1, <2>1, <2>4, <2>5 DEF IInv, ListShape, NodesAccounted
  <1>3. CASE head = NULL
    <2>1. UNCHANGED <<head, heap, order>> /\ pc' = "closed"
          /\ answer' = Answer("OK", NoFd)
      BY <1>3 DEF FreeHead
    <2>2. Elems(order) = {}
      <3>1. order # <<>> => order[1] \in Nodes
        BY EmptySeq, ElementOfSeq DEF IInv, TypeOK
      <3>2. order = <<>>
        BY <1>3, <3>1, QueueAssumption DEF IInv, ListShape, Linked
      <3> QED BY <3>2 DEF Elems
    <2>3. TypeOK'
      BY <1>1, <2>1 DEF IInv, TypeOK, Answer, Codes
    <2>4. ListShape'
      BY <1>1, <2>1 DEF IInv, ListShape, Linked
    <2>5. NodesAccounted'
      BY <1>1, <2>1, <2>2 DEF IInv, NodesAccounted
    <2> QED BY <2>3, <2>4, <2>5 DEF IInv
  <1> QED BY <1>2, <1>3

LEMMA StutterInv == ASSUME IInv, UNCHANGED vars PROVE IInv'
  BY DEF vars, queueVars, nodeVars, IInv, TypeOK, ListShape, Linked,
         NodesAccounted, Elems

(* The three invariants hold in every reachable state of taskqueue.c.        *)
THEOREM Inductive == Spec => []IInv
  <1>1. IInv /\ [Next]_vars => IInv'
    BY CreateInv, EnqueueInv, DequeueInv, DestroyInv, FreeHeadInv, StutterInv
    DEF Next
  <1> QED BY InitInv, <1>1, PTL DEF Spec

(* Every field keeps its type, and the queue never exceeds its capacity.     *)
THEOREM TypeCorrect == Spec => []TypeOK
  BY Inductive, PTL DEF IInv

(* The pointers always spell out the queue, whatever the heap hands out.     *)
THEOREM PointersSpellQueue == Spec => []ListShape
  BY Inductive, PTL DEF IInv

(* No node is freed twice, used after free, or forgotten by taskqueue.c.     *)
THEOREM EveryNodeAccounted == Spec => []NodesAccounted
  BY Inductive, PTL DEF IInv

-----------------------------------------------------------------------------
(* The refinement.  A caller creates its node with the descriptor it         *)
(* accepted and queues nothing else, so that the descriptors of the linked   *)
(* nodes are what it put.                                                    *)
Filled == /\ \A i \in 1..Len(order) : confd[order[i]] \in Fds
          /\ new # NULL => confd[new] \in Fds

FifoInv == IInv /\ Filled

(* What a node may hold.                                                     *)
Contents == Fds \cup {NoFd}

(* fifo, as an operator of the nodes and of what they hold.                  *)
Image(s, f) == [i \in 1..Len(s) |-> f[s[i]]]

LEMMA FunctionIsSeq ==
  ASSUME NEW T, NEW n \in Nat, NEW a \in [1..n -> T]
  PROVE  a \in Seq(T) /\ Len(a) = n
  <1>1. a \in Seq(T)
    BY SeqDef
  <1> QED BY <1>1

LEMMA ImageIsSeq ==
  ASSUME NEW s \in Seq(Nodes), NEW f \in [Nodes -> Contents]
  PROVE  /\ Image(s, f) \in Seq(Contents)
         /\ Len(Image(s, f)) = Len(s)
         /\ \A i \in 1..Len(s) : Image(s, f)[i] = f[s[i]]
         /\ Image(s, f) = <<>> <=> s = <<>>
  <1>1. Len(s) \in Nat /\ \A i \in 1..Len(s) : s[i] \in Nodes
    BY ElementOfSeq, LenProperties
  <1>2. Image(s, f) \in [1..Len(s) -> Contents]
    BY <1>1 DEF Image
  <1>3. Image(s, f) \in Seq(Contents) /\ Len(Image(s, f)) = Len(s)
    BY <1>1, <1>2, FunctionIsSeq
  <1>4. \A i \in 1..Len(s) : Image(s, f)[i] = f[s[i]]
    BY DEF Image
  <1>5. Image(s, f) = <<>> <=> s = <<>>
    BY <1>3, EmptySeq
  <1> QED BY <1>3, <1>4, <1>5

(* A longer queue is a longer image.                                         *)
LEMMA ImageAppend ==
  ASSUME NEW s \in Seq(Nodes), NEW e \in Nodes, NEW f \in [Nodes -> Contents]
  PROVE  Image(Append(s, e), f) = Append(Image(s, f), f[e])
  <1> DEFINE l == Image(Append(s, e), f)
             r == Append(Image(s, f), f[e])
  <1>1. Len(s) \in Nat /\ f[e] \in Contents
    BY LenProperties
  <1>2. /\ Append(s, e) \in Seq(Nodes)
        /\ Len(Append(s, e)) = Len(s) + 1
        /\ \A i \in 1..(Len(s) + 1) :
             Append(s, e)[i] = IF i = Len(s) + 1 THEN e ELSE s[i]
    BY <1>1
  <1>3. /\ l \in Seq(Contents) /\ Len(l) = Len(s) + 1
        /\ \A i \in 1..(Len(s) + 1) : l[i] = f[Append(s, e)[i]]
    <2> DEFINE t == Append(s, e)
    <2>1. t \in Seq(Nodes) /\ Len(t) = Len(s) + 1
      BY <1>2
    <2> HIDE DEF t
    <2>2. /\ Image(t, f) \in Seq(Contents) /\ Len(Image(t, f)) = Len(t)
          /\ \A i \in 1..Len(t) : Image(t, f)[i] = f[t[i]]
      BY <2>1, ImageIsSeq
    <2> QED BY <2>1, <2>2 DEF t
  <1>4. /\ Image(s, f) \in Seq(Contents) /\ Len(Image(s, f)) = Len(s)
        /\ \A i \in 1..Len(s) : Image(s, f)[i] = f[s[i]]
    BY ImageIsSeq
  <1>5. /\ r \in Seq(Contents) /\ Len(r) = Len(s) + 1
        /\ \A i \in 1..(Len(s) + 1) :
             r[i] = IF i = Len(s) + 1 THEN f[e] ELSE Image(s, f)[i]
    BY <1>1, <1>4
  <1>6. ASSUME NEW i \in 1..(Len(s) + 1) PROVE l[i] = r[i]
    BY <1>1, <1>2, <1>3, <1>4, <1>5
  <1> HIDE DEF l, r
  <1>7. l = r
    BY <1>3, <1>5, <1>6, SeqEqual
  <1> QED BY <1>7 DEF l, r

(* The first node gives the first element, the others its tail.              *)
LEMMA ImageTail ==
  ASSUME NEW s \in Seq(Nodes), s # <<>>, NEW f \in [Nodes -> Contents]
  PROVE  /\ Head(Image(s, f)) = f[s[1]]
         /\ Image(Tail(s), f) = Tail(Image(s, f))
  <1> DEFINE l == Image(Tail(s), f)
             r == Tail(Image(s, f))
  <1>1. /\ Tail(s) \in Seq(Nodes) /\ Len(Tail(s)) = Len(s) - 1
        /\ \A i \in 1..(Len(s) - 1) : Tail(s)[i] = s[i + 1]
        /\ Len(s) \in Nat \ {0}
    BY HeadTailProperties, EmptySeq
  <1>2. /\ Image(s, f) \in Seq(Contents) /\ Len(Image(s, f)) = Len(s)
        /\ \A i \in 1..Len(s) : Image(s, f)[i] = f[s[i]]
        /\ Image(s, f) # <<>>
    BY ImageIsSeq
  <1>3. /\ r \in Seq(Contents) /\ Len(r) = Len(s) - 1
        /\ \A i \in 1..(Len(s) - 1) : r[i] = Image(s, f)[i + 1]
    BY <1>2, HeadTailProperties
  <1>4. /\ l \in Seq(Contents) /\ Len(l) = Len(s) - 1
        /\ \A i \in 1..(Len(s) - 1) : l[i] = f[Tail(s)[i]]
    BY <1>1, ImageIsSeq, ZenonT(40)
  <1>5. ASSUME NEW i \in 1..(Len(s) - 1) PROVE l[i] = r[i]
    BY <1>1, <1>2, <1>3, <1>4
  <1>6. Head(Image(s, f)) = f[s[1]]
    BY <1>1, <1>2
  <1> HIDE DEF l, r
  <1>7. l = r
    BY <1>3, <1>4, <1>5, SeqEqual
  <1> QED BY <1>6, <1>7 DEF l, r

(* Only what the nodes of the queue hold shows.                              *)
LEMMA ImageSame ==
  ASSUME NEW s, NEW f, NEW g, \A i \in 1..Len(s) : f[s[i]] = g[s[i]]
  PROVE  Image(s, f) = Image(s, g)
  BY DEF Image

LEMMA InitFifo == Init => Filled /\ Fifo!Init
  BY QueueAssumption
  DEF Init, task_queue_init, Filled, Fifo!Init, fifo, Answer, Fifo!Answer

(* Creating a node changes nothing a caller of the queue sees.               *)
LEMMA CreateFifo ==
  ASSUME FifoInv, NEW fd \in Fds, queue_node_create(fd)
  PROVE  Filled' /\ UNCHANGED Fifo!vars
  <1> USE QueueAssumption
  <1>1. PICK n \in Nodes \ heap :
          /\ new' = n
          /\ confd' = [confd EXCEPT ![n] = fd]
    BY DEF queue_node_create
  <1>2. UNCHANGED <<pc, answer, order>>
    BY DEF queue_node_create
  <1>3. n \notin Elems(order)
    BY <1>1 DEF FifoInv, IInv, NodesAccounted
  <1>4. \A i \in 1..Len(order) : confd'[order[i]] = confd[order[i]]
    BY <1>1, <1>3 DEF FifoInv, IInv, TypeOK, Elems
  <1>5. Filled'
    BY <1>1, <1>2, <1>4 DEF FifoInv, IInv, TypeOK, Filled
  <1>6. Image(order, confd) = Image(order', confd')
    BY <1>2, <1>4, ImageSame
  <1>7. fifo' = fifo
    BY <1>6 DEF fifo, Image
  <1> QED BY <1>2, <1>5, <1>7 DEF Fifo!vars

LEMMA EnqueueFifo ==
  ASSUME FifoInv, task_enqueue
  PROVE  Filled' /\ \E fd \in Fds : Fifo!Put(fd)
  <1> USE QueueAssumption
  <1>1. /\ UNCHANGED <<confd, pc>> /\ new' = NULL
        /\ new \in Nodes /\ pc = "open" /\ confd[new] \in Fds
    BY DEF task_enqueue, FifoInv, Filled, IInv, TypeOK
  <1>2. /\ size = Len(order) /\ order \in Seq(Nodes)
        /\ confd \in [Nodes -> Contents]
    BY <1>1 DEF FifoInv, IInv, ListShape, TypeOK, Contents
  <1>3. fifo = Image(order, confd) /\ fifo' = Image(order', confd)
    BY <1>1 DEF fifo, Image
  <1>4. Len(fifo) = size
    BY <1>2, <1>3, ImageIsSeq
  <1>5. CASE EnqueueFull
    <2>1. fifo' = fifo /\ Len(fifo) = MaxCapacity /\ answer' = Answer("FULL", NoFd)
      BY <1>3, <1>4, <1>5 DEF EnqueueFull, task_queue_isfull
    <2>2. Fifo!Put(confd[new])
      BY <1>1, <2>1 DEF Fifo!Put, Answer, Fifo!Answer
    <2>3. Filled'
      BY <1>1, <1>5 DEF EnqueueFull, FifoInv, Filled
    <2> QED BY <1>1, <2>2, <2>3
  <1>6. CASE EnqueueOk
    <2>1. /\ order' = Append(order, new) /\ answer' = Answer("OK", NoFd)
          /\ size < MaxCapacity
      BY <1>6 DEF EnqueueOk, task_queue_isfull, FifoInv, IInv, TypeOK
    <2>2. fifo' = Append(fifo, confd[new])
      BY <1>1, <1>2, <1>3, <2>1, ImageAppend
    <2>3. Fifo!Put(confd[new])
      BY <1>1, <1>4, <2>1, <2>2 DEF Fifo!Put, Answer, Fifo!Answer
    <2>4. /\ Len(order') = Len(order) + 1
          /\ \A i \in 1..Len(order) : order'[i] = order[i]
          /\ order'[Len(order) + 1] = new
      BY <1>1, <1>2, <2>1, AppendElems
    <2>5. Filled'
      BY <1>1, <1>2, <2>4, LenProperties DEF FifoInv, Filled
    <2> QED BY <1>1, <2>3, <2>5
  <1> QED BY <1>5, <1>6 DEF task_enqueue

(* The first node leaves, for task_dequeue and for every turn of the loop in *)
(* task_queue_destroy.                                                       *)
LEMMA FirstLeaves ==
  ASSUME FifoInv, order # <<>>, order' = Tail(order), UNCHANGED <<confd, new>>
  PROVE  /\ Filled'
         /\ fifo # <<>> /\ fifo' = Tail(fifo) /\ Head(fifo) = confd[head]
  <1>1. order \in Seq(Nodes) /\ confd \in [Nodes -> Contents] /\ head = order[1]
    BY DEF FifoInv, IInv, TypeOK, ListShape, Linked, Contents
  <1>2. fifo = Image(order, confd) /\ fifo' = Image(Tail(order), confd)
    BY DEF fifo, Image
  <1>3. fifo # <<>> /\ fifo' = Tail(fifo) /\ Head(fifo) = confd[head]
    BY <1>1, <1>2, ImageIsSeq, ImageTail
  <1>4. /\ Len(order') = Len(order) - 1
        /\ \A i \in 1..(Len(order) - 1) : order'[i] = order[i + 1]
        /\ Len(order) \in Nat
    BY <1>1, HeadTailProperties, LenProperties
  <1>5. Filled'
    BY <1>4 DEF FifoInv, Filled
  <1> QED BY <1>3, <1>5

(* Nothing is queued exactly when no descriptor is.                          *)
LEMMA FifoEmpty ==
  ASSUME FifoInv
  PROVE  fifo = <<>> <=> order = <<>>
  <1>1. order \in Seq(Nodes) /\ confd \in [Nodes -> Contents]
    BY DEF FifoInv, IInv, TypeOK, Contents
  <1> QED BY <1>1, ImageIsSeq DEF fifo, Image

LEMMA DequeueFifo ==
  ASSUME FifoInv, task_dequeue
  PROVE  Filled' /\ Fifo!Get
  <1>1. /\ UNCHANGED <<confd, new, pc>> /\ pc = "open"
        /\ size = Len(order) /\ order \in Seq(Nodes)
    BY DEF task_dequeue, FifoInv, IInv, ListShape, TypeOK
  <1>2. CASE DequeueEmpty
    <2>1. /\ UNCHANGED order /\ answer' = Answer("EMPTY", NoFd)
          /\ order = <<>>
      BY <1>1, <1>2, EmptySeq DEF DequeueEmpty, task_queue_isempty
    <2>2. fifo = <<>> /\ fifo' = fifo
      BY <1>1, <2>1, FifoEmpty DEF fifo
    <2> QED BY <1>1, <2>1, <2>2
            DEF FifoInv, Filled, Fifo!Get, Answer, Fifo!Answer
  <1>3. CASE DequeueOk
    <2>1. /\ order' = Tail(order) /\ answer' = Answer("OK", confd[head])
          /\ order # <<>>
      BY <1>1, <1>3, EmptySeq DEF DequeueOk, task_queue_isempty
    <2>2. /\ Filled'
          /\ fifo # <<>> /\ fifo' = Tail(fifo) /\ Head(fifo) = confd[head]
      BY <1>1, <2>1, FirstLeaves
    <2> QED BY <1>1, <2>1, <2>2 DEF Fifo!Get, Answer, Fifo!Answer
  <1> QED BY <1>2, <1>3 DEF task_dequeue

LEMMA DestroyFifo ==
  ASSUME FifoInv, task_queue_destroy
  PROVE  Filled' /\ Fifo!Close
  <1>1. /\ UNCHANGED <<confd, new, order>> /\ pc = "open"
        /\ size = Len(order) /\ order \in Seq(Nodes)
    BY DEF task_queue_destroy, nodeVars, FifoInv, IInv, ListShape, TypeOK
  <1>2. fifo' = fifo /\ Filled'
    BY <1>1 DEF fifo, FifoInv, Filled
  <1>3. task_queue_isempty <=> fifo = <<>>
    BY <1>1, FifoEmpty, EmptySeq DEF task_queue_isempty
  <1> QED BY <1>1, <1>2, <1>3
          DEF task_queue_destroy, Fifo!Close, Answer, Fifo!Answer

LEMMA FreeHeadFifo ==
  ASSUME FifoInv, FreeHead
  PROVE  Filled' /\ Fifo!Discard
  <1>1. pc = "closing" /\ UNCHANGED <<confd, new>>
    BY DEF FreeHead
  <1>2. head = NULL <=> order = <<>>
    <2>1. order # <<>> => order[1] \in Nodes
      BY EmptySeq, ElementOfSeq DEF FifoInv, IInv, TypeOK
    <2> QED BY <2>1, QueueAssumption DEF FifoInv, IInv, ListShape, Linked
  <1>3. CASE head # NULL
    <2>1. order' = Tail(order) /\ UNCHANGED <<pc, answer>> /\ order # <<>>
      BY <1>2, <1>3 DEF FreeHead
    <2>2. Filled' /\ fifo # <<>> /\ fifo' = Tail(fifo)
      BY <1>1, <2>1, FirstLeaves
    <2> QED BY <1>1, <2>1, <2>2 DEF Fifo!Discard
  <1>4. CASE head = NULL
    <2>1. /\ UNCHANGED order /\ pc' = "closed" /\ answer' = Answer("OK", NoFd)
          /\ order = <<>>
      BY <1>2, <1>4 DEF FreeHead
    <2>2. fifo = <<>> /\ fifo' = fifo /\ Filled'
      BY <1>1, <2>1, FifoEmpty DEF fifo, FifoInv, Filled
    <2> QED BY <1>1, <2>1, <2>2 DEF Fifo!Discard, Answer, Fifo!Answer
  <1> QED BY <1>3, <1>4

LEMMA StutterFifo ==
  ASSUME FifoInv, UNCHANGED vars
  PROVE  Filled' /\ UNCHANGED Fifo!vars
  BY DEF vars, queueVars, nodeVars, FifoInv, Filled, Fifo!vars, fifo

(* taskqueue.c keeps the promise of BoundedFifo: it starts as an empty queue *)
(* and each of its steps is a step of the bounded queue, or one its callers  *)
(* cannot see.  (That a destroyed queue is emptied in the end, the fairness  *)
(* of ImplementsFifo, is left to the run.)                                   *)
THEOREM StepsOfFifo == Spec => Fifo!Init /\ [][Fifo!Next]_(Fifo!vars)
  <1>1. Init => FifoInv /\ Fifo!Init
    BY InitInv, InitFifo DEF FifoInv
  <1>2. FifoInv /\ [Next]_vars => FifoInv' /\ [Fifo!Next]_(Fifo!vars)
    <2>1. ASSUME FifoInv, NEW fd \in Fds, queue_node_create(fd)
          PROVE  Filled' /\ [Fifo!Next]_(Fifo!vars)
      BY <2>1, CreateFifo
    <2>2. ASSUME FifoInv, task_enqueue
          PROVE  Filled' /\ [Fifo!Next]_(Fifo!vars)
      BY <2>2, EnqueueFifo DEF Fifo!Next
    <2>3. ASSUME FifoInv, task_dequeue
          PROVE  Filled' /\ [Fifo!Next]_(Fifo!vars)
      BY <2>3, DequeueFifo DEF Fifo!Next
    <2>4. ASSUME FifoInv, task_queue_destroy
          PROVE  Filled' /\ [Fifo!Next]_(Fifo!vars)
      BY <2>4, DestroyFifo DEF Fifo!Next
    <2>5. ASSUME FifoInv, FreeHead
          PROVE  Filled' /\ [Fifo!Next]_(Fifo!vars)
      BY <2>5, FreeHeadFifo DEF Fifo!Next
    <2>6. ASSUME FifoInv, UNCHANGED vars
          PROVE  Filled' /\ [Fifo!Next]_(Fifo!vars)
      BY <2>6, StutterFifo
    <2>7. FifoInv /\ [Next]_vars => IInv'
      BY CreateInv, EnqueueInv, DequeueInv, DestroyInv, FreeHeadInv, StutterInv
      DEF Next, FifoInv
    <2> QED BY <2>1, <2>2, <2>3, <2>4, <2>5, <2>6, <2>7 DEF Next, FifoInv
  <1> QED BY <1>1, <1>2, PTL DEF Spec
=============================================================================
