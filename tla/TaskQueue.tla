------------------------------ MODULE TaskQueue ------------------------------
(***************************************************************************)
(* threadpool/src/taskqueue.c: the singly linked list in which the server  *)
(* leaves accepted descriptors for its workers.  Every call is made under  *)
(* taskQueue.mutex (or after all workers were joined), so each is one      *)
(* action; only task_queue_destroy, a loop of free(), takes several.       *)
(*                                                                         *)
(* The heap is explicit: a freed node keeps its old contents and may be    *)
(* handed out again by malloc, so a pointer that outlives its node shows.  *)
(***************************************************************************)
EXTENDS Integers, Sequences

CONSTANTS Nodes,        \* the heap cells malloc may return
          NULL,
          Fds, NoFd,
          MaxCapacity

ASSUME QueueAssumption == /\ NULL \notin Nodes
                          /\ MaxCapacity \in Nat \ {0}

VARIABLES head, tail, size,   \* Task_queue_t
          next, confd,        \* Queue_node_t, for every cell of the heap
          heap,               \* the cells malloc handed out and nobody freed
          new,                \* the node the caller created and not yet queued
          pc,                 \* "open", or where task_queue_destroy is
          answer,             \* what the last call returned
          order, lost         \* history: the queued nodes, and those a caller
                              \* dropped after TASK_QUEUE_FULL

queueVars == <<head, tail, size>>
nodeVars == <<next, confd, heap>>
vars == <<queueVars, nodeVars, new, pc, answer, order, lost>>

Answer(code, fd) == [code |-> code, fd |-> fd]
Codes == {"OK", "EMPTY", "FULL"}
Elems(s) == {s[i] : i \in 1..Len(s)}

-----------------------------------------------------------------------------
task_queue_isempty == size = 0
\* mutant: the limit is noticed one element late
isfull_late == size = MaxCapacity + 1
task_queue_isfull == size = MaxCapacity

task_queue_init ==
  /\ head = NULL /\ tail = NULL /\ size = 0
  /\ next \in [Nodes -> {NULL}]
  /\ confd \in [Nodes -> {NoFd}]
  /\ heap = {} /\ new = NULL
  /\ pc = "open"
  /\ answer = Answer("OK", NoFd)
  /\ order = <<>> /\ lost = {}

Init == task_queue_init

queue_node_create(fd) ==
  /\ pc = "open"
  /\ new = NULL
  /\ \E n \in Nodes \ heap :
       /\ heap' = heap \cup {n}
       /\ new' = n
       /\ confd' = [confd EXCEPT ![n] = fd]
       /\ next' = [next EXCEPT ![n] = NULL]
  /\ UNCHANGED <<queueVars, pc, answer, order, lost>>

\* The caller keeps no pointer to a node the full queue turned away.
EnqueueFull ==
  /\ task_queue_isfull
  /\ answer' = Answer("FULL", NoFd)
  /\ lost' = lost \cup {new}
  /\ UNCHANGED <<queueVars, next, order>>

\* mutant: the new node is linked in front of the others
EnqueueFront ==
  /\ ~task_queue_isfull
  /\ head' = new
  /\ next' = [next EXCEPT ![new] = head]
  /\ tail' = IF task_queue_isempty THEN new ELSE tail
  /\ size' = size + 1
  /\ answer' = Answer("OK", NoFd)
  /\ order' = <<new>> \o order
  /\ UNCHANGED lost

EnqueueOk ==
  /\ ~task_queue_isfull
  /\ \/ /\ task_queue_isempty
        /\ head' = new
        /\ UNCHANGED next
     \/ /\ ~task_queue_isempty
        /\ next' = [next EXCEPT ![tail] = new]
        /\ UNCHANGED head
  /\ tail' = new
  /\ size' = size + 1
  /\ answer' = Answer("OK", NoFd)
  /\ order' = Append(order, new)
  /\ UNCHANGED lost

task_enqueue ==
  /\ pc = "open"
  /\ new # NULL
  /\ EnqueueFull \/ EnqueueOk
  /\ new' = NULL
  /\ UNCHANGED <<confd, heap, pc>>

DequeueEmpty ==
  /\ task_queue_isempty
  /\ answer' = Answer("EMPTY", NoFd)
  /\ UNCHANGED <<queueVars, heap, order>>

\* mutant: the tail of an emptied queue still points at the freed node
DequeueStaleTail ==
  /\ ~task_queue_isempty
  /\ answer' = Answer("OK", confd[head])
  /\ size' = size - 1
  /\ head' = next[head]
  /\ UNCHANGED tail
  /\ heap' = heap \ {head}
  /\ order' = Tail(order)

\* mutant: the node is unlinked and not freed
DequeueLeaks ==
  /\ ~task_queue_isempty
  /\ answer' = Answer("OK", confd[head])
  /\ size' = size - 1
  /\ head' = IF size' = 0 THEN NULL ELSE next[head]
  /\ tail' = IF size' = 0 THEN NULL ELSE tail
  /\ UNCHANGED heap
  /\ order' = Tail(order)

DequeueOk ==
  /\ ~task_queue_isempty
  /\ answer' = Answer("OK", confd[head])
  /\ size' = size - 1
  /\ head' = IF size' = 0 THEN NULL ELSE next[head]
  /\ tail' = IF size' = 0 THEN NULL ELSE tail
  /\ heap' = heap \ {head}
  /\ order' = Tail(order)

task_dequeue ==
  /\ pc = "open"
  /\ DequeueEmpty \/ DequeueOk
  /\ UNCHANGED <<next, confd, new, pc, lost>>

task_queue_destroy ==
  /\ pc = "open"
  /\ \/ /\ task_queue_isempty
        /\ pc' = "closed"
        /\ answer' = Answer("EMPTY", NoFd)
     \/ /\ ~task_queue_isempty
        /\ pc' = "closing"
        /\ UNCHANGED answer
  /\ UNCHANGED <<queueVars, nodeVars, new, order, lost>>

\* One turn of the loop at the end of task_queue_destroy; size and tail stay.
FreeHead ==
  /\ pc = "closing"
  /\ \/ /\ head # NULL
        /\ head' = next[head]
        /\ heap' = heap \ {head}
        /\ order' = Tail(order)
        /\ UNCHANGED <<pc, answer>>
     \/ /\ head = NULL
        /\ pc' = "closed"
        /\ answer' = Answer("OK", NoFd)
        /\ UNCHANGED <<head, heap, order>>
  /\ UNCHANGED <<tail, size, next, confd, new, lost>>

Next == \/ \E fd \in Fds : queue_node_create(fd)
        \/ task_enqueue
        \/ task_dequeue
        \/ task_queue_destroy
        \/ FreeHead

Spec == Init /\ [][Next]_vars /\ WF_vars(FreeHead)

-----------------------------------------------------------------------------
(* Type invariant: the fields hold what their C types and the capacity allow. *)
TypeOK ==
  /\ head \in Nodes \cup {NULL} /\ tail \in Nodes \cup {NULL}
  /\ size \in 0..MaxCapacity
  /\ next \in [Nodes -> Nodes \cup {NULL}]
  /\ confd \in [Nodes -> Fds \cup {NoFd}]
  /\ heap \in SUBSET Nodes
  /\ new \in Nodes \cup {NULL}
  /\ pc \in {"open", "closing", "closed"}
  /\ answer \in [code : Codes, fd : Fds \cup {NoFd}]
  /\ order \in Seq(Nodes)
  /\ lost \in SUBSET Nodes

(***************************************************************************)
(* ListShape: the pointers spell out the queue.  head is its first node,   *)
(* each next leads to the following node and the last one to NULL, tail    *)
(* is the last node and size their number, so no operation of taskqueue.c  *)
(* reaches a node that is not queued.  task_queue_destroy alone lets size  *)
(* and tail go stale.                                                      *)
(***************************************************************************)
Linked ==
  /\ head = IF order = <<>> THEN NULL ELSE order[1]
  /\ \A i \in 1..Len(order) :
       next[order[i]] = IF i = Len(order) THEN NULL ELSE order[i + 1]
  /\ \A i, j \in 1..Len(order) : order[i] = order[j] => i = j
  /\ new # NULL => next[new] = NULL

ListShape ==
  /\ Linked
  /\ pc = "open" => /\ size = Len(order)
                    /\ tail = IF order = <<>> THEN NULL ELSE order[Len(order)]

(***************************************************************************)
(* NodesAccounted: a node between malloc and free is in exactly one place: *)
(* in the queue, in the hands of the caller who created it, or dropped by  *)
(* a caller whose task_enqueue said FULL.  Hence nothing is freed twice or *)
(* used after free, and a destroyed queue leaves only those last two.      *)
(***************************************************************************)
NodesAccounted ==
  /\ heap = Elems(order) \cup lost \cup ({new} \ {NULL})
  /\ Elems(order) \cap lost = {}
  /\ new \notin Elems(order) \cup lost
  /\ pc = "closed" => heap = lost \cup ({new} \ {NULL})

(***************************************************************************)
(* ImplementsFifo: seen through the descriptors of the linked nodes, every *)
(* operation is the operation of the bounded queue, and destroying it      *)
(* comes to an end.                                                        *)
(***************************************************************************)
fifo == [i \in 1..Len(order) |-> confd[order[i]]]

Fifo == INSTANCE BoundedFifo WITH phase <- pc
ImplementsFifo == Fifo!Spec
=============================================================================
