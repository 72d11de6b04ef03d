# A verification development for MyCS_Notes

The repository is a collection of Unix system programs in C: servers that hand
a file to whoever connects, chats over every kind of IPC, and exercises on
threads, semaphores and signals.  There is no shared library; each directory
under `src/unix` is a program, or a few that talk to each other.  What they
have in common is what makes them hard: threads, processes, signals and sockets
that interleave, and resources (descriptors, queue slots, semaphores, buffers)
that run out.

This directory holds TLA+ models of those programs, the TLC configurations that
check them on small instances, and proofs, checked by TLAPS, of the invariants
that the runs check, for every size.

Contents: [Inventory](#inventory) · [Modules and code](#modules-and-code) ·
[Runs](#runs) · [Fairness](#fairness) · [Proofs](#proofs) ·
[What the runs found](#what-the-runs-found) ·
[What is abstracted](#what-is-abstracted) ·
[What is not modelled](#what-is-not-modelled) · [Plan](#plan)

To check a run: `tlc -config MCThreadPool.cfg MCThreadPool`.  To check the
proofs of a module: `tlapm ThreadPoolProofs.tla`.

## Inventory

Paths are below `src/unix`.  "Hard" names what a test would hardly reach.

| component | state it keeps | operations | interacts through |
|---|---|---|---|
| `threadpool`: task queue (`src/taskqueue.c`) | linked list with head, tail, size, capacity | init, create node, enqueue, dequeue, destroy | called by main and the workers under `mutex` |
| `threadpool`: server (`server.c`, `src/threadpool.c`, `src/sendfile.c`) | `startFlag`, mutex, condition, queue, descriptors | accept and enqueue; wait, dequeue, `send_file`; shutdown | condition variable, mutex, a pipe from the process that takes SIGUSR1, clients |
| `processpool/server_exit`: server | `childArr[].isBusy`, one socket pair per child | accept and hand over, note "finished", tell all to exit, wait | descriptors over socket pairs, one byte back, SIGUSR1 over a pipe |
| `processpool/server_exit`: transfer (`src/sendfile.c`, `src/clientsrc/recvfile.c`) | position in the file, position in the buffer | `sendpac`, `recvbuf`, `recvpac` | length-prefixed packets over TCP |
| `tcp/chatroom` | linked list of members, fd sets | accept, read, forward to all others, remove | TCP with any number of clients |
| `ipc/chat` | two fifos, shared memory, two semaphores, message queue, pid files | start, type, relay, show, handle SIGINT, SIGQUIT and SIGUSR1 | four processes that use all of these |
| `tcp/chat`, `epoll/chat`, their `*_reconnect`, `epoll/edge_triggered` | the one connection `confd`, interest list | accept, read, write, hang up | one client at a time over TCP |
| `udp/chat` | the address to answer, its length | receive, send | datagrams |
| `ipc/pipe/chat`, `ipc/pipe/fullduplex` | two open fifos, whose turn | open, read, write | two processes |
| clients that download (`processpool/sendfile/client`, `threadpool/client`, and two ways `processpool/zero_copy` has in comments) | name, size, bytes so far | four ways to receive | their server over TCP |
| `thread/saletickets.c`, `saletickets2.c` | count of tickets, mutex, condition | sell, set | threads |
| `ipc/add.c`, `thread/lock.c` | one number | add, take | two processes over shared memory; two threads |
| `ipc/produce.c` | two semaphores and their undo adjustments | produce, consume, end | two processes |
| `filesys/read.c` | linked list and array of students | read, sort, print | a file |
| `processpool`'s earlier stages (`sendfile`, `sendbigfile`, `progress_bar`, `timeout`, `zero_copy`) | the pool's, and the descriptors a child has taken | the pool's, without a way out | as the pool |
| `sendfd` | one open file with one offset, a socket pair | write, set back, pass on; receive, read | two processes that share an open file |
| `thread/pthread.c` | mutex, cleanup handler | lock, push, print, unlock, exit; cancel, join | two threads |
| `ipc/pipe/{halfduplex,writeset}` | a fifo | open, write, read, select | two processes; one with itself |
| `ipc/signal/{sigaction,signal}.c` | blocked, pending and caught signals | block, run the key code, unblock, sleep | SIGINT from the terminal |
| `ipc/msqsnd.c`, `msqrsv.c` | a message queue the kernel keeps | send by type, receive by type | any number of runs |
| `ipc/semctl.c` | a set of three semaphores | make, set, read, remove | runs at once on one key |
| `threadpool/test.c`, `ipc/{timer,while}.c`, `tcp/socket`, `filesys/*` but `read.c` | none of their own | one system call or two | nobody, see [What is not modelled](#what-is-not-modelled) |

What is hard in each, and the properties that make it correct:

* **Task queue.**  A long sequence of legal calls in which the list empties and
  fills again while the allocator hands freed nodes out again.  Correct: a
  bounded FIFO, whose pointers spell the queue and whose nodes are freed once.
* **Thread pool.**  The wait stands behind `if`, not `while`; the signal is sent
  even when the queue was full; main clears `startFlag` without the mutex;
  threads leave by `pthread_exit` from inside the lock; `confd` is never closed.
  Correct: a connection is in one place at a time, no queued connection waits
  while everyone who could take it sleeps, nothing is freed before all threads
  are joined, and a shutdown ends.
* **Process pool.**  `isBusy` is the parent's belief about a process that runs
  by itself; the exit message can queue behind work; children inherit each
  other's pair ends and so notice a dead parent only in turn; the first stage
  never closes the file it sends.  Correct: the belief is true of the living,
  work handed over is answered, shutdown drains the pool, and nobody is left
  behind.
* **Transfer.**  TCP may cut the stream anywhere, and the next piece's place is
  computed from a running total.  Correct: what is written is what was sent.
* **Chat room.**  Nodes are freed in the walk that holds pointers to them; a
  member may close between the `select` that did not see it and the send to it;
  a blocking send waits for a member whose own blocking send waits for the server.
  Correct: list and fd set agree, each member gets what the others said once
  and in order, and one who leaves is forgotten.
* **ipc/chat.**  Four kinds of IPC object, handlers that signal each other and
  remove objects in an order of their own, and a `memcpy` into shared memory before
  the wait for room, with nothing that keeps it and the other side's `printf` apart;
  a read that fills its buffer leaves no NUL in it; two of the processes can leave
  by `return` and tell nobody.  Correct: windows do not go back and end with what
  was said last; ending one ends all and leaves no object behind.
* **Chats between two.**  One `epoll_wait` may report the end of one client, a
  line of another and a newcomer, in any order; an edge is reported once; a
  datagram may be lost or come first.  Correct: what is sent is read, an end is
  noticed, a newcomer is welcomed.
* **The rest.**  Signals before waits and spurious wakeups (tickets), a load and
  a store apart (counters), undo that runs out or undoes what others have moved
  on from (producer), a short recv taken for the whole (downloads), an index
  that leaves the array (sort), an offset that two processes share (`sendfd`), a
  mutex unlocked by the thread and again by its handler (`pthread.c`), a fifo
  whose writer is its only reader (`writeset`), a set of semaphores that one run
  removes under another (`semctl`).

`PROJECT.json` lists 40 hazards at their lines, each with the properties that
would show it going wrong.

## Modules and code

Actions carry the names of the C functions they stand for, variables those of
the C variables.  `PROJECT.json` ("map") gives the lines of every definition.
A step is the code between two points at which another thread or process can
see a difference; where the code takes a lock, waits, or makes a system call
that another side can answer, the step ends.

**`BoundedFifo`** is what `taskqueue.c` promises: put, take, FULL, EMPTY, close.
**`TaskQueue`** is `taskqueue.c` on a heap of nodes that `free` gives back and
`malloc` may give out again: `queue_node_create`, `task_enqueue`, `task_dequeue`,
and `task_queue_destroy` with its loop `FreeHead`.  `order` is a history
variable: the nodes in the order they were linked, which the invariants compare
with the pointers.  `TaskQueue` implements `BoundedFifo` under the mapping
`fifo`, the descriptors of the linked nodes.

**`ThreadPool`** composes main (`server.c`: create threads, `epoll_wait`, accept,
lock, enqueue, signal, and on the exit byte broadcast, join, destroy, close)
with `threadCnt` workers (`threadfunc`: lock, test the flag, test for empty,
wait, dequeue, unlock, `send_file`) and an environment: clients that connect and
leave, SIGUSR1 through `exitpipe`, an `open` of `FILENAME` that may fail.  It uses
the queue as the FIFO that `TaskQueue` implements.

**`ProcessPool`** composes the parent (`parent_epoll.c`: `dispatch`, `childEvent`,
`exitEvent`, `sendExit`, `wait`) with its children (`create_child_process.c`:
`child_handle`, step by step), the two directions of each socket pair (`down`,
`up`), and an environment of clients and signals.  What `pass_fd.c` sends is one
message.  That children inherit earlier pair ends is in the condition under
which a child reads end of file.

**`PoolStages`** extends it with the stages before: `sendbigfile`,
`progress_bar`, `timeout` and `zero_copy` have the same parent and children
without the exit event (`early_parent_epoll`); the child of `sendfile`
(`send_child`) sends one packet, looks neither at `open` nor at `read`, and leaves
the file open: its transfers are modelled call by call (`openFile`, `sendPackets`,
`closeConn`), with the descriptors its table holds (`used`).  `stage` says which one runs.

**`FileTransfer`** is one `sendbigfile` and one `recvfile` and the bytes between
them, of the stages that send the size of the file and of those that do not
(`sized`); the receive buffer is an array of cells, so that a piece written to the
wrong place is written there.

**`ChatRoom`** has the server's `select`, `accept`, `scan` and `forward` (one send
per step) over an explicit list (`next`, `tempClient`, `tempfront`), and the
clients' loops.

**`IpcChat`** has the four processes: `savepid`, registration, the opening of the
fifos, the attaching of objects, the loops of `a.c`, `a1.c`, `b.c`, `b1.c`, the
functions of `header/func.c` cut at each system call, and the handlers step by
step.  The shared `msgbuf_t` is an array of cells (`Cells`: `mtype` and `TextCells`
parts of `mtext`), each holding the number of the message it is from.  `Copy` is one
cell of the `memcpy`, in any order, and `printmsg` one cell of what `printf` reads, in
any order after `mtype`; a's and a1's steps mix freely, so that a1 may show a text
torn between two copies.  A message knows whether `strcpy` and `strlen` would run
past it (`over`: a read that filled `str`, and no NUL behind it): then the peer is sent
`Junk` behind the text, the function's return may end the process (`Return`), and b1's
`msgrcv` refuses the message for ever.

**`TcpChat`** has five servers that differ in three ways: whether they end with
their client (`Once`), whether `select` or epoll drives them (`Select`), and
whether events are edges (`Edge`).  `program` says which one
runs.  **`UdpChat`**, **`PipeChat`**, **`Download`**, **`Tickets`**,
**`Counters`**, **`Produce`** and **`StudentList`** are one module per family;
each says in its header which programs it holds.  So do the six that show one
system call or a few: **`SendFd`** (parent and child, the open file and its one
offset), **`Cancel`** (`thread/pthread.c`: the cancellation point, the handler,
the join), **`Fifos`** (`halfduplex`; `writeset` against a fifo of pages, as
`select` and `write` differ in what they call room), **`Signals`** (what is
blocked, pending and caught), **`Messages`** (`msqsnd.c` and `msqrsv.c` run any
number of times, `msgrcv` by type) and **`Semctl`** (several runs on one key).
**`Programs`** composes all of these: a behaviour runs one program, and the
variables of the others rest.  It states their invariants together, by what they
are about: `TypeOK`, `Conserved`, `Result`, `OnlyThen`.

**`MC*`** give values to the constants (`MCPrograms` also puts the liveness of the
small programs together).  **`*Proofs`** hold the theorems.

## Runs

Counts are distinct states.  Unless said otherwise a run explores every
interleaving within its bounds.

| run | result | states | instance |
|---|---|---|---|
| `task_queue` | holds | 184 509 | 4 heap cells, 2 descriptors, capacity 2 |
| `thread_pool` | holds | 119 384 | 2 workers, 2 clients, 1 queue slot, 2 or 3 descriptors, 1 signal |
| `thread_pool_exit` | violated | | the same |
| `process_pool` | holds | 183 435 | 2 children, 3 clients, 1 signal; stages `sendfile`, `timeout` and `server_exit`; room for 1 file |
| `process_pool_finish` | violated | | 2 children, 2 clients, 1 signal |
| `chat_room` | holds | 499 059 | 3 clients saying 1, 1, 0 units, with `buf` of 2 units and socket buffers of 3; or 2 saying 2 and 3, with 1 and 2 |
| `chat_room_pipe` | violated | | 3 clients, 1 unit each |
| `file_transfer` | holds | 21 326 | files of 0, 2 and 4 bytes, with the size and without, length words of 3 bytes, buffer of 6 |
| `file_transfer_split` | violated | | the same, with a server that does not die |
| `ipc_chat` | holds | 457 877 | 4 processes, a text of 2 cells; per behaviour 3 lines at b, or 2 at a, or 1 at each, or 1 and a kill, or ends: a kill and an interrupt, two interrupts, one in mid-talk |
| `ipc_chat_twice` | violated | | 2 lines at a |
| `programs` | holds | 157 996 | twenty-six programs, see below |

**`task_queue`** checks the list on an explicit heap.  `ListShape`: the pointers
spell the queue, at every moment between `queue_node_create` and the end of
`task_queue_destroy`.  `NodesAccounted`: a node is freed once, and the ones lost
are exactly those dropped after FULL.  `ImplementsFifo`: the list is the bounded
FIFO.  With a capacity of two and four cells the queue fills, turns nodes away,
empties, and is built again from cells it has freed; the proofs below say the
same for any size, `ImplementsFifo` apart.

**`thread_pool`** checks locking (`MutexSound`), hand-over (`HandedOnce`: from
accept to the end of `send_file` a connection is in one place), wakeups
(`NoLostWakeup`: while a worker sleeps, as many are awake as there are
descriptors queued) and the order of shutdown (`FreedAfterJoin`); under
fairness, that queued connections are taken (`EveryTaskTaken`), that established
ones are accepted while descriptors last (`EveryoneAccepted`), and that a
shutdown that meets no worker between its test of the flag and its wait comes to
an end (`CleanShutdown`).  Two workers are the least that can steal from one another,
one slot with two clients fills the queue.  With three descriptors both clients
can be served at once; with two (one left open by whoever started the server)
`accept` fails while one is served, its -1 goes through queue and worker, and
the other client waits in the backlog.

**`process_pool`** checks the parent's picture of its children (`BusyConserved`),
that connections are not lost or served twice (`HeldOnce`), what has become of
everyone when "server exit" is printed (`GracefulExit`); under fairness, that a
connection handed out is served or closed (`Answered`), and that once SIGUSR1
was sent, or the parent has gone however it ended, parent and children all end
(`PoolEnds`).  Two children are the least for the order in which pair ends close
to matter; a third client finds both busy and is refused.  Each property is said
of the stages before `server_exit` too, where it applies; `Delivered` says how
far the first of them goes: a child loses one descriptor for each client it gives
the file to and no other, over transfers that interleave call by call, so each
connection it is handed finds a place in its table; and three bytes instead of
the file come only once the file is gone, or from a child that has given away
all it could open.  With room for one file and three clients both children
reach that point.

**`chat_room`** checks the list (`ListSound`), delivery (`Relayed`: back at
`select`, each member there has been sent what each other said since it joined,
once, in order, and nothing of its own), and under fairness that what is said is
heard (`Heard`) and who leaves is removed (`Forgotten`).  Three clients are the
least for a member to be removed between two others, or to join while one talks
to another; two that say more than `buf` and socket buffers hold make a `recv`
that joins sends or cuts them, and fill a buffer.  Nothing is non-blocking: when
the server waits in `send` for a member whose own `send` waits for the server,
neither moves again.  `Heard` and `Forgotten` name that state (`Standstill`) as the
one exception, so that the run shows there is no other.

**`file_transfer`** checks `IntactUnlessSplit` over every cut of the stream, with
a server that may die at any byte: the client stays in its buffer, acts on the
name and size sent, has written a beginning of the file, and the whole of it
when it ends, unless some buffer came in three or more pieces.  `Finishes`: the
client reaches the end, again unless split, while the server lives.  A length of
three bytes is the least that can arrive in three pieces.

**`ipc_chat`** checks that windows never go back (`ShownInOrder`).  b1 shows a line
at most once and each person's lines in the order they were typed, and so does what
a stores.  a1's texts are another matter: nobody may have stored them, since a can
copy its next message while a1 prints.  What holds of them is about cells.  Those of
a1's i-th text are of the messages i to i + 2: a1 waits for the i-th to be announced;
a, which waits for room after it has copied, can meanwhile have announced the next
and be copying the one after.  And no cell of a text is of an earlier message than
in a text before.  Both parts of `mtext` and the `mtype` are needed to see a text torn
and a type that is another message's; three lines at b reach i + 2.  What was stored
last is shown, and whole (`LastShown`).  SIGINT to any process, from the
terminal or from another's handler, ends all four and leaves no IPC object
(`ChatCloses`; the windows whose a or b left by `return` are closed by SIGINT
only, and the property says what each combination leaves); and a and b, opening
two fifos each, do not wait for each other (`EveryoneStarts`).  One line at b is
refused by the queue (`Wide`), one at a fills `str` by itself (`Long`), and two lines do
together (`BufLines`).  The behaviours are of two sorts: some talk (with or without a
process killed), some end (one interrupted after another was killed, two
interrupted at once, one interrupted in mid-talk).

**`programs`** runs the twenty-six programs (bounds in `MCPrograms.tla`): two clients
typing two lines in all, two lines typed at the server, three events per wait
(TCP); a line at each client and two at the server, all
datagrams lost or reordered at will (UDP); two lines each (fifos); files of 0, 1
and 3 buffers' bytes against a buffer of 2 (downloads); two tickets, two
windows, one spurious wakeup; three additions; room for two and an undo limit of
four; files of up to four students with three marks; a file that is missing,
empty, or longer than both the word and the child's buffer (`sendfd`); a fifo of three pages of
two writes each, of which one round reads a half (`writeset`); three ^C (signals);
three messages of four kinds of type, empty, short, or longer than a receiver
takes, on a queue with room for two (so that a sender waits, an empty text is
taken unseen, and a long one stays before what is behind it); three runs on one
key (`semctl`).  Its properties gather one statement of each program under a
common question:

* `Conserved`, nothing lost or made: `LinesKept` (TCP), `Accounted` (UDP),
  `NothingInvented` (downloads), `EachOnce` (`lock.c`), `Stored` (`produce.c`),
  `OnceOnly` (messages), `NoneLeft` (`semctl.c`).
* `Result`, what it comes to: `LastWords` (`pipe/chat`), `WholeFile` (downloads),
  `SumBounds` (`add.c`: between 2 and 2N, whatever the interleaving of loads and
  stores), `Undone` (`produce.c`), `Placed` and `Ranked` (`read.c`), `FileIsRead`
  (`sendfd`), `InOrder` (messages of one type), `LeftUnlocked` (`pthread.c`).
* `OnlyThen`, what is odd has one cause: `NoLeak` (TCP), `Answerable` and
  `SaidToOne` (UDP), `TurnsGoOn` (`fullduplex`), `SetWhenSold` (tickets),
  `WorkStops` (`produce.c`), `OwnInput` (`sendfd`), `UnlockedAgain` (`pthread.c`),
  `WordOrDeath` (`halfduplex`), `NeverWaits` (`writeset`), `KeyCodeWhole`
  (`sigaction.c`), `PrintedRight` (`semctl.c`).
* `SentIsHeard`, `GoneIsNoticed`, `WaitIsOver`, `GoesOn`: what must come in time.
  Of clients, windows or persons who are alike it is said of one.

Every property has at least one mutant in `PROJECT.json`: a change to a modelled
definition of the kind a plausible bug makes (a dropped reset, an off-by-one, a
missing unlock, a swapped order) under which the same run reports it violated.
The four invariants of `programs` have one for nearly each conjunct.

Deadlock is not checked: in every one of these programs the clients, or the
lines to type, are bounded in the model, and servers end or wait.  The liveness
properties take its place: a standstill that is none of the intended ends
violates one of them.

## Fairness

* `ThreadPool`: weak fairness of each worker's steps and of main's; strong
  fairness of each thread's `pthread_mutex_lock`, as others may take the mutex in
  between again and again.  POSIX leaves the order of waiters open, and an idle
  worker waits on the condition rather than poll, so the mutex is not kept busy
  by threads that do nothing else.  The environment
  (clients that come and go, signals) is never forced, nor are spurious wakeups.
* `ProcessPool`: weak fairness of each child and of the parent's answer to each
  ready descriptor.  `evs` holds one event fewer than there are descriptors, but
  epoll is level-triggered here and the kernel puts a descriptor it has reported
  behind the others, so none that stays ready is passed over for ever.
  `PoolStages` takes the parent's as it is (`ParentFairness`) and has weak fairness
  of the children of the stage that runs.
* `ChatRoom`: weak fairness of the server, and of "some client sends or
  receives"; a client may come or leave, but need not.
* `FileTransfer`, `Download`: weak fairness of both ends; the killing of the server is not
  forced.
* `IpcChat`: weak fairness of "some process that can take a step does": none of
  them has a step it could take for ever without new lines (the two windows that
  would print for ever have none), so none could be chosen instead of the others.
* `MCPrograms`: weak fairness of each process of the program that runs, each with
  that program's variables as its subscript; of `add.c` and `lock.c`, `read.c` and
  `semctl.c`, whose every step leads to the end, of some step.  Strong fairness of
  the setter's lock in the ticket sales, whose windows lock in a loop.  None of
  msqsnd and msqrsv, which users run or not.  Losing
  datagrams, spurious wakeups, interrupts and clients that leave are not forced.

## Proofs

Each theorem is of the form `Spec => []P` and holds for all values of the
constants that satisfy the module's named assumption: any number of nodes,
threads, children, clients, queue slots, descriptors, lines, bytes and signals.
None needs fairness.  Each module proves an inductive invariant action by action
(one lemma per action or group of actions, one for a step that stutters) and
takes the theorems from it.  Where an invariant is long it is proved in layers,
each of which may use those below it at both ends of the step.  Every safety invariant
that a passing run checks is proved.

**`Counting`** holds what the proofs share: how many times a value occurs in a
sequence before and after an `Append` or a `Tail` (`OccursAppend`, `OccursTail`), how
many members of a finite set are at a place when one moves (`AtMove`), and, in
place of the library's induction theorems, which take an operator, induction as a
statement about a set of numbers (`SetInduction`) and about iterating a function
(`Iterates`).

**`TaskQueueProofs`**, from `QueueAssumption` (NULL is not a node, the capacity is
positive).  `IInv` is the type invariant with `ListShape` and `NodesAccounted`: the
three need each other, as that `task_enqueue` writes through `tail` into a live
node follows from `ListShape`, and that `malloc`'s next node is in no list
follows from `NodesAccounted`.  The lemmas `AppendElems`, `TailElems`, `NextIndex`
and `TailLinks` say what appending and dropping a node do to the set of nodes
and to their links.  Theorems: `TypeCorrect`, `PointersSpellQueue`,
`EveryNodeAccounted`, and `StepsOfFifo`: the initial states are the bounded fifo's and
every step of the list is a step of it or none, which is the refinement
`ImplementsFifo` without its fairness.

**`ThreadPoolProofs`**, from `PoolAssumption`.  `MutexSound` and `FreedAfterJoin`
are not inductive alone.  `IInv` adds `Created` and `Joined` (threads are created,
and joined, in the order of `i`: without it a thread could be thought to start
with the mutex held, or to outlive its join), `EventsSound` (a socket event
dispatched still has a connection behind it, so that what main queues is the
result of an accept), and `FdsCoverSends` (as many descriptors are in use as
threads are in `send_file`, so that closing one never goes below zero; this
needs the cardinality lemmas `CountMove` and `SendingMove`).  Theorems: `TypeCorrect`,
`MutexCorrect`, `FreedLast`.  `WakeupNeverLost` is a second invariant on top of
`IInv`: `BalanceKept` shows that a step which adds a descriptor, wakes a thread or
lets one dequeue changes both sides of the inequality in `NoLostWakeup` alike.
`Handed` is a third: `HandedOnce` counts a connection in the backlog, the queue and
the workers, and each step moves it from one of them to the next.

**`ProcessPoolProofs`**, from `PoolAssumption`.  `BusyConserved` counts what a child
has before it, in hand and behind it; it is not inductive, because nothing in it
says that no request is sent after the exit message, nor that a dead child is
owed nothing.  `IInv` is `TypeOK` with, for each child, `ChildInv`: what waits in
its pair is at most a request and an exit message behind it (`Shape`), a child
not yet told to exit has no exit message before it (`NotTold`), the count of
`BusyConserved` in the form `Asked + Working + up`, nothing asked of a dead child,
and a connection in hand only while it is sent.  The children are independent:
`Untouched` carries `ChildInv` over for all but the one that moved.  Theorems:
`Inductive`, `TypeCorrect` (with the bounds on each pair), `BusyTellsTheTruth`.
`HeldInv` is the layer above: for each client, the places it is in, over the
backlog, all pairs and all children, and that one answered is in none.
`HeldByOne` and `ExitIsGraceful` follow: the second also from `Shape`, as a request
is before the exit message, never behind it.  All of it is proved of every stage of the pool as
well (`StagesSpec`, what the run checks): the earlier parent takes some of the same
steps, and a child of the first stage opens and sends without touching what
`IInv` speaks of, until its last call ends a transfer as the others do
(`Transferred`).  `DeliverInv` adds, for each child, how far its transfer has come
and that its client has not been given anything before: the descriptors taken
are then the clients given the file, with the connection and the file in hand.  Theorems: `StagesInductive`, `StagesTypeCorrect`,
`StagesBusyTellsTheTruth`, `StagesHeldByOne`, `StagesExitIsGraceful`, `FilesDelivered`.

**`FileTransferProofs`**, from `TransferAssumption`: files and name of bytes, a name
that fits the buffer, and lengths that fit `SizeT` bytes (`Fits`).  `TransferTypes` is direct.
`TransferIntact` says that a transfer is in order or was split.  In order (`Good`) is: the bytes
on the wire, with those the server will still send, are exactly those
the client still has to receive (`Stream`); what the buffer holds of the packet
under way is where it belongs, for the first two pieces (`Pieces`, `Buffered`); and name, size and
what was written are the file's (`Known`).  What either side still sends or
receives is given by one function over the positions of the file, from its end to its
beginning (`Packets`), so that a step of the server and a step of the client
each cut a prefix off the same sequence (`RestAlike`).  That the client reads the
length the server wrote, whatever the width, is a lemma about the two loops,
`Bytes` and `Value`, proved by `SetInduction`.

**`ChatRoomProofs`**, from `ChatAssumption`.  The list is a chain: there is an order
`r` of the members, from `clientList` to `Null`, that `next` spells out (`Chain`); a
node is put in at the front or taken out of the middle.  `ListSound` speaks of the
set that walking `next` reaches; the lemmas about chains show that it is the
members of `r`.  The scan is somewhere in it (`ScanAt`), with those not yet asked
behind (`Waiting`).  For `Relayed`, `Forwarding` says in the middle of a forward who has
been sent the text in the buffer already, those before `temp` in `r`, and who has
not.  Theorems: `RoomTypes`, `RoomListSound`, `RoomRelays`.

**`IpcChatProofs`**, from `IpcAssumption`.  `ChatTypes` needs one fact beyond the types,
that a line announced as ready may still be typed.  For `ShownInOrder`, each of a and b is a
`Side`: what is in its fifo comes after what it has in hand and after all that it has
handed on (`Past`), and what it has in hand after what it has handed on, as long as it is
still to be (`Handing`).  b's side counts its queue with its window, so that b1
taking a message changes nothing.  That is `Sides`; signals,
deaths and objects that are removed are steps that say nothing (`Calm`).  For a1,
`Paced`: a has begun to copy what it has announced, or one more while it copies and
waits for room (`Announced`, `Stores`); what a1 has taken is at most one behind what is
announced (`Takes`); so each cell of the memory, of what `printf` has read so far and of
what was shown lies between the two, and grows (`Reading`, `Walks`).  It has to hold
through a memory that is made anew, which only happens before anything is stored
or once a or a1 is on its way out (`Attached`).  A step that neither copies nor announces
nor shows is `Still`.  Theorems: `ChatTypes`, `ChatShownInOrder`.

**`ProgramsProofs`**, from `ProgramsAssumption` (what is a bound or a size is a natural
number, a buffer or fifo is not empty, clients and windows are not taken for descriptors).
Each small program has an inductive invariant of its own with three lemmas:
it holds at first (`TcpInit`, ...), steps keep it (`TcpNext`), and what the run checks
follows (`TcpHas`).  `OneRuns` takes a step of `Programs` apart: it is a step of the program that
runs and a stutter of every other, so that `ProgramsInv`, their conjunction, is
inductive and `ProgramsTypes`, `ProgramsConserve`, `ProgramsResult` and `OddOnlyThen`
follow.  What the invariants add to the properties:

* `TcpInv`: a client is at most once in the backlog, then at most once among the
  connections and the clients that overlapped, so that each connection left
  behind has a client of its own that came too early (`TcpPlaces`); and a
  connection that is closed has ended with all its lines printed (`TcpLines`).
* `UdpInv`: every datagram that was sent is in one place (`UdpApart`); the address
  is that of a client who was heard (`AddressKnown`), and each line of the server
  has one addressee (`ToOne`).
* `PipeInv`: what one has typed the other was shown or can read, but for the line
  whose SIGPIPE ended its writer (`Spoken`).
* `DownloadInv`: the client is behind the server; what is on disk and what is on
  its way is what was sent; and what was padded was cut.
* `TicketsInv`: while the setter is between its wakeup and its setting, the tickets
  there are count as spared already.
* `PairInv`: what `thread/lock.c`'s two took and what is left are all there was, and
  who is to take one has seen the number as it is (`LockInv`); `ipc/add.c`'s number is
  at most what was added and not 0 after the first addition, so that the last
  addition of either, unless its first, is to 1 or more: hence 2 (`AddInv`).
* `ProduceInv`: the kernel's adjustments are what the living have done, and what
  the warehouse will be given back makes up for what is missing.
* `StudentsInv`: the array is a permutation of the list, whose first places are
  sorted as far as the loops have come; exchanging two keeps it one (`Exchanged`).
* `SendInv`: the descriptor is sent only of a file, whose offset is 0 until the
  child has read, as the parent waits.  `ThreadInv`: at each place, whether the
  mutex is locked and the handler pushed.  `SignalInv`: each ^C is pending, was
  caught, or came to nothing.
* `FifoInv`: `halfduplex`'s fifo holds the word or nothing; what `writeset`'s `select`
  saw is still so, for nobody else has the fifo.
* `MsqInv`: the five places part the runs (`MsqApart`); the queue is what entered and
  was not taken, in its order (`MsqOrder`); `msgrcv` takes the first of its type
  whatever it was asked for (`FirstMeant`).
* `SemInv`: a set that exists is still to be removed by a run that has it, and what a
  run that is alone finds is as it left it (`RunFits`).

**Model-checked only.**  Liveness, for which the proof system has no rule under
fairness: all properties named under "under fairness" above, `SentIsHeard`,
`GoneIsNoticed`, `WaitIsOver`, `GoesOn`, and of `ImplementsFifo` the fairness.

## What the runs found

Five runs end in a violation.  Each checks one statement of the repository
against what its code does.

* **A shutdown that hangs** (`thread_pool_exit`).  `server.c:63` clears the flag
  and `:65` broadcasts without the mutex.  A worker that has tested the flag
  (`threadpool.c:36`) and not yet begun to wait (`:43`) misses both, sleeps for
  ever, and `pthread_join` with it.  Holding the mutex at `:63` removes it;
  `CleanShutdown` shows that this window is the only cause.
* **A dead child is offered work** (`process_pool_finish`).  `parent_epoll.c:94`
  takes the end of file of a child that has ended for "child finish task".  The next
  connection goes to it and SIGPIPE ends the parent.
* **A leaving member ends the room** (`chat_room_pipe`).  `server.c:98` of the chat
  room sends to a connection that was reset; SIGPIPE is not handled.
* **A file put together wrongly** (`file_transfer_split`).  `recvfile.c:11` moves
  `p` on by the total received instead of the last piece.  `IntactUnlessSplit`
  shows that three pieces are needed.
* **A message hidden by the next** (`ipc_chat_twice`).  `func.c:63` copies before
  `:64` waits for room; the window prints one message twice and another never, or a
  text made of two.

Others are visible in the models without a run of their own; the properties
that hold name them as exceptions:

* `threadpool/server.c:52`: accept's -1 is queued like a descriptor; with no
  descriptors left the server goes round this loop for as long as a client waits.
* `tcp/chatroom/server/server.c:98`: `strlen(buf)` of a full buffer reads past it
  (the unit `Junk`); two sides that send with full buffers stand still.
* `processpool/sendfile/src/create_child_process.c:12`: a child of the first stage
  opens the file for each client and never closes it; when it can open no more,
  `read` fails unseen and the client is sent three bytes for the file.
* `sendfd/sendfd.c`: without the file, the parent returns before it sends, the
  child's `recvmsg` meets the end of the socket, and it reads descriptor 0.
* `thread/pthread.c:22`: the handler that `pthread_exit` runs unlocks a mutex the
  thread has unlocked itself, unless it was cancelled before.
* `ipc/semctl.c`: a run whose set another has removed prints and sets nothing,
  and says nothing.
* `ipc/msqrsv.c`: a message with an empty text is taken from the queue and not
  printed.
* `recvfile.c`: an empty file ends the client with SIGFPE (the progress bar
  divides by the size); the end of the stream in mid-packet makes `recvbuf` spin.
* `threadpool/client/recvfile.c:43`: four of the eight bytes of the size are
  copied; a garbage upper half makes the size too large or negative.
* `processpool/sendfile/client/client.c:32`: one `recv` is taken for the file.
* `zero_copy`'s `recvfilesplice`, which only a commented-out line calls (`:210`),
  would not end when the stream does.
* `ipc/add.c:9`: `semctl`'s arguments are in the wrong order and remove the set.
* `ipc/produce.c`: after `SEMAEM` rounds `semop` fails unseen, and no more is
  produced.
* `ipc/chat`: a's return at end of file leaves a1 and b1 running (a TODO in the
  source says so); pid files of an earlier chat name processes of this one's.
  A read that fills `str` leaves no NUL: `strcpy` (`func.c:44`, `:62`) writes past
  `mtext`, and `strlen` (`a.c:65`, `b.c:58`, `func.c:45`) sends what it finds there; a message
  longer than `mtext` stays in the queue, and b1 prints blanks for ever.  An a1 that is
  signalled before it has saved its pid, and then finds its semaphores removed, prints
  what is in the memory for ever.
* `*_reconnect`: a client that comes while there is another replaces it and the
  first is never read again; `tcp/chat_reconnect` tests `FD_ISSET(-1, ...)`.
* `epoll/edge_triggered`: a reset is taken for "nothing more to read"; `buf` of
  five bytes is printed without a terminator.
* `udp/chat/server/server.c:25`: `cliAddr_len` is not initialised; one of three to
  seven cuts the address off and leaves the port, so that the next line goes to
  that port of the server's own host.
* `ipc/msqsnd.c:18`: a text of 64 bytes or more overruns `mtext`; `msqrsv` refuses
  one of more than 64 for ever, and with it all of its type that are behind it.
* `ipc/pipe/fullduplex`: an empty line stops both.
* `thread/saletickets.c:59`: `if` before the wait.
* `processpool/*/src/pass_fd.c:22` and `:41` move one byte of the descriptor's
  number through `CMSG_DATA`: one above 255 is passed on as another.

## What is abstracted

* **Data.**  A connection is its client; its descriptor is the same value.  Text
  is counted in units or lines, which keep their order in TCP, fifos and queues.
  File contents are bytes in `FileTransfer` and counts elsewhere.  Printing is
  the record of what was printed.
* **TCP, sockets, signals**, external to the repository, are modelled as Linux
  has them: any split of what was sent; end of file after a close; a reset after
  a close with unread data or a send to a closed socket; one ECONNRESET, then
  SIGPIPE.  In the servers' models a send to a client that is gone either fails
  or raises SIGPIPE, as both can be.  The backlog of `listen` is not limited.
* **Data race.**  Main writes `startFlag` while workers read it; the model has
  reads and writes of one word as atomic, which they are in the builds at hand.
  In `ipc/chat` `memcpy` and `printf` race on shared memory, cell by cell.
* **malloc** does not fail; where the code leaves memory uninitialised, the model
  has every value that makes a difference (`Garbage` in `FileTransfer`: all cells
  alike; the size in `Download`; the length in `UdpChat`).
* **Transfers** are one step in `ThreadPool` and `ProcessPool` and byte by byte in
  `FileTransfer`; there a length is written as `SizeT` bytes and has to fit them.  In `Download` a name or a size comes whole; what happens to those that
  do not is `FileTransfer`'s question.
* **IPC objects.**  In `IpcChat` the shared memory and its semaphores come and go
  together, a signal is taken before the next step of its process, and fifos and
  queue do not fill.  The four start with no pid files left over.  A read returns
  whole lines: which bytes there are is modelled, not how many.  `printf` reads each
  cell once; that it may look for the NUL before it copies is left out.  What `strcpy`
  writes past `mtext` reaches its own function's frame, which shows, if at all, when that
  function returns.  The four bytes by which `msgsnd` reads past a text of more than
  60 land in padding.
* **SIGPIPE and clients.**  In `ChatRoom` and `TcpChat` a client's own standard
  input does not end, and what it does once the server is gone is left out.
* **Bounds** on otherwise endless behaviour are constants: `MaxSignals`,
  `Evenings`, `Limits`, `MaxSent`, `MaxSaid`, `MaxTyped`, `MaxSpurious`, `MaxIdle`, `MaxInts`,
  `MaxLines`.  `TASKQUECAPACITY`, `BufLen`, `BufSize`, `Full`, `Room`, `N` and
  `SEMAEM` are the code's constants, with small values.

## What is not modelled

* `processpool`'s `timeout`: the clock behind `TIMEOUT`, which is commented out.
  `zero_copy`'s `mmap` and `splice` pairs are in `Download`, with name and size
  taken to come whole: that component stays "partly".  Only commented-out lines
  call them (`zero_copy/src/sendfile.c:164`, `:170`, `:207`, `:210`): the program as it
  is built takes `sendfilepac` and `recvfilepac`, which are `FileTransfer`'s, and
  what is said of the other two is what they would do if those lines came back.
* `threadpool/test.c` makes a fixed sequence of calls, all of which `TaskQueue`
  explores, and then starts a pool that it never gives work.
* `ipc/timer.c`, a timer of processor time whose handler prints, and
  `ipc/while.c`, an empty loop: nothing in them could come in two orders.
* `filesys/*` but `read.c`, `tcp/socket`: wrappers of one system call, listings,
  conversions; input and output only.

## Plan

Done: the order was by what matters most in the repository, each step with its
runs before the next.

1. `BoundedFifo`, `TaskQueue`, with the refinement and the proofs.
2. `ThreadPool`, which uses the queue, and its proofs.
3. `ProcessPool` and its proofs; `FileTransfer`.
4. `ChatRoom`, `IpcChat`.
5. The small programs and `MCPrograms`.
6. `PoolStages` and its proofs; the full buffers of the chat room; `a` and `b` that leave alone.
7. `SendFd`, `Cancel`, `Fifos`, `Signals`, `Messages`, `Semctl`.
8. The proofs of `HandedOnce`, `HeldOnce`, `GracefulExit` and `Delivered`; `FileTransferProofs`,
   `ChatRoomProofs`, `IpcChatProofs`; the refinement's steps; `Programs` and `ProgramsProofs`.

To do, models:

9. A corrected variant beside each violation (the mutex around `startFlag`,
   `MSG_NOSIGNAL`, `p += ret`), to show that the repair restores the property.
