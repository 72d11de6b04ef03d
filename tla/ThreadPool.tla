----------------------------- MODULE ThreadPool ------------------------------
(***************************************************************************)
(* The file server of unix/threadpool: server.c accepts connections and    *)
(* queues their descriptors, the threads of threadpool.c take them from    *)
(* the queue and send the file, and SIGUSR1, forwarded through exitpipe,   *)
(* asks for shutdown.                                                      *)
(*                                                                         *)
(* The queue is the bounded FIFO that TaskQueue.tla refines.  Steps are    *)
(* the code's between two points where another thread can be seen: what    *)
(* happens under taskQueue.mutex is split only where startFlag, which main *)
(* writes without the mutex, is read, and around a wait or a signal.       *)
(*                                                                         *)
(* A connection is named by its client, and so is its descriptor.          *)
(***************************************************************************)
EXTENDS Integers, Sequences, FiniteSets

CONSTANTS Clients,
          threadCnt,        \* argv[3]
          TASKQUECAPACITY,
          FdLimit,          \* descriptors the process may open after start-up
          Inherited,        \* how many of them whoever starts it may leave open
          MaxSignals,       \* bound: SIGUSR1 signals sent
          BadFd,            \* the -1 of a failed accept()
          NoTask

ASSUME PoolAssumption ==
  /\ threadCnt \in Nat \ {0}
  /\ TASKQUECAPACITY \in Nat \ {0}
  /\ FdLimit \in Nat
  /\ Inherited \subseteq 0..FdLimit
  /\ MaxSignals \in Nat
  /\ BadFd \notin Clients
  /\ NoTask \notin Clients \cup {BadFd}

Workers == 1..threadCnt
Main == 0
Free == -1
Confds == Clients \cup {BadFd}

VARIABLES
  startFlag,    \* tp.startFlag
  mutex,        \* who holds tp.taskQueue.mutex
  queue,        \* tp.taskQueue, as its descriptors
  wpc, task,    \* each worker's place in threadfunc, and its local confd
  mpc, mconfd,  \* main's place in server.c, and its local confd
  evs, i,       \* what epoll_wait returned and is left, and the loop index
  exitpipe,     \* bytes in the pipe
  backlog,      \* connections the kernel has established, not yet accepted
  cstate,       \* what became of each client
  gone,         \* clients that closed their side
  fds           \* descriptors in use beyond those of start-up

poolVars == <<startFlag, mutex, queue>>
workerVars == <<wpc, task>>
mainVars == <<mpc, mconfd, evs, i>>
envVars == <<exitpipe, backlog, gone>>
vars == <<poolVars, workerVars, mainVars, envVars, cstate, fds>>

Stopped == mpc \in {"exited", "killed"}
Running == ~Stopped
ShuttingDown == mpc \in {"broadcast", "join", "destroy", "close", "exited"}

Init ==
  /\ startFlag = 0 /\ mutex = Free /\ queue = <<>>
  /\ wpc = [w \in Workers |-> "new"]
  /\ task = [w \in Workers |-> NoTask]
  /\ mpc = "start" /\ mconfd = NoTask /\ evs = <<>> /\ i = 0
  /\ exitpipe = 0 /\ backlog = <<>>
  /\ cstate = [c \in Clients |-> "idle"]
  /\ gone = {} /\ fds \in Inherited

-----------------------------------------------------------------------------
(* The worker thread: threadfunc.                                          *)

W(w, from, to) ==
  /\ Running
  /\ wpc[w] = from
  /\ wpc' = [wpc EXCEPT ![w] = to]

Lock(w) ==
  /\ W(w, "lock", "flag")
  /\ mutex = Free
  /\ mutex' = w
  /\ UNCHANGED <<startFlag, queue, task, mainVars, envVars, cstate, fds>>

\* mutant: the thread exits without its cleanup handler
CheckFlagNoCleanup(w) ==
  /\ W(w, "flag", IF startFlag # 0 THEN "empty" ELSE "exited")
  /\ UNCHANGED <<poolVars, task, mainVars, envVars, cstate, fds>>

\* pthread_exit runs pthread_cleanup_func, which unlocks the mutex.
CheckFlag(w) ==
  /\ \/ /\ startFlag # 0
        /\ W(w, "flag", "empty")
        /\ UNCHANGED mutex
     \/ /\ startFlag = 0
        /\ W(w, "flag", "exited")
        /\ mutex' = Free
  /\ UNCHANGED <<startFlag, queue, task, mainVars, envVars, cstate, fds>>

\* pthread_cond_wait gives up the mutex and blocks in one step.
WaitIfEmpty(w) ==
  /\ \/ /\ queue = <<>>
        /\ W(w, "empty", "blocked")
        /\ mutex' = Free
     \/ /\ queue # <<>>
        /\ W(w, "empty", "dequeue")
        /\ UNCHANGED mutex
  /\ UNCHANGED <<startFlag, queue, task, mainVars, envVars, cstate, fds>>

\* POSIX lets pthread_cond_wait return without a signal.
SpuriousWakeup(w) ==
  /\ W(w, "blocked", "relock")
  /\ UNCHANGED <<poolVars, task, mainVars, envVars, cstate, fds>>

Relock(w) ==
  /\ W(w, "relock", "dequeue")
  /\ mutex = Free
  /\ mutex' = w
  /\ UNCHANGED <<startFlag, queue, task, mainVars, envVars, cstate, fds>>

\* mutant: the descriptor is read and left in the queue
DequeuePeek(w) ==
  /\ \/ /\ queue # <<>>
        /\ W(w, "dequeue", "open")
        /\ task' = [task EXCEPT ![w] = Head(queue)]
     \/ /\ queue = <<>>
        /\ W(w, "dequeue", "lock")
        /\ UNCHANGED task
  /\ mutex' = Free
  /\ UNCHANGED <<startFlag, queue, mainVars, envVars, cstate, fds>>

\* mutant: a thread that finds the queue empty again keeps the mutex
DequeueKeepsMutex(w) ==
  /\ \/ /\ queue # <<>>
        /\ W(w, "dequeue", "open")
        /\ task' = [task EXCEPT ![w] = Head(queue)]
        /\ queue' = Tail(queue)
        /\ mutex' = Free
     \/ /\ queue = <<>>
        /\ W(w, "dequeue", "lock")
        /\ UNCHANGED <<queue, task, mutex>>
  /\ UNCHANGED <<startFlag, mainVars, envVars, cstate, fds>>

\* The `if' around the wait does not look at the queue, or the flag, again.
Dequeue(w) ==
  /\ \/ /\ queue # <<>>
        /\ W(w, "dequeue", "open")
        /\ task' = [task EXCEPT ![w] = Head(queue)]
        /\ queue' = Tail(queue)
     \/ /\ queue = <<>>
        /\ W(w, "dequeue", "lock")
        /\ UNCHANGED <<queue, task>>
  /\ mutex' = Free
  /\ UNCHANGED <<startFlag, mainVars, envVars, cstate, fds>>

Outcome(w, result) ==
  cstate' = IF task[w] \in Clients THEN [cstate EXCEPT ![task[w]] = result]
                                   ELSE cstate

\* send_file, its open(): a failure, for want of the file or of a descriptor,
\* returns to threadfunc's loop.
OpenFile(w) ==
  /\ \/ /\ fds < FdLimit
        /\ W(w, "open", "send")
        /\ fds' = fds + 1
        /\ UNCHANGED <<task, cstate>>
     \/ /\ W(w, "open", "lock")
        /\ task' = [task EXCEPT ![w] = NoTask]
        /\ Outcome(w, "failed")
        /\ UNCHANGED fds
  /\ UNCHANGED <<poolVars, mainVars, envVars>>

\* send_file, from sendpac to close(fd).  confd itself is never closed.
SendDone(w) ==
  /\ task[w] \in Clients
  /\ W(w, "send", "lock")
  /\ Outcome(w, "served")
  /\ task' = [task EXCEPT ![w] = NoTask]
  /\ fds' = fds - 1
  /\ UNCHANGED <<poolVars, mainVars, envVars>>

\* A failed send returns early and leaves the file open.
SendError(w) ==
  /\ task[w] = BadFd \/ task[w] \in gone
  /\ W(w, "send", "lock")
  /\ Outcome(w, "failed")
  /\ task' = [task EXCEPT ![w] = NoTask]
  /\ UNCHANGED <<poolVars, mainVars, envVars, fds>>

\* A send to a client that reset the connection raises SIGPIPE, which the
\* server does not handle.
SendKilled(w) ==
  /\ Running
  /\ wpc[w] = "send"
  /\ task[w] \in gone
  /\ mpc' = "killed"
  /\ UNCHANGED <<poolVars, workerVars, mconfd, evs, i, envVars, cstate, fds>>

Worker(w) ==
  \/ Lock(w) \/ CheckFlag(w) \/ WaitIfEmpty(w) \/ SpuriousWakeup(w)
  \/ Relock(w) \/ Dequeue(w) \/ OpenFile(w)
  \/ SendDone(w) \/ SendError(w) \/ SendKilled(w)

-----------------------------------------------------------------------------
(* The main thread: server.c.                                              *)

M(from, to) == mpc = from /\ mpc' = to

StartPool ==
  /\ M("start", "create")
  /\ startFlag' = 1
  /\ i' = 1
  /\ UNCHANGED <<mutex, queue, workerVars, mconfd, evs, envVars, cstate, fds>>

CreateThread ==
  /\ \/ /\ i \in Workers
        /\ M("create", "create")
        /\ wpc' = [wpc EXCEPT ![i] = "lock"]
        /\ i' = i + 1
     \/ /\ i = threadCnt + 1
        /\ M("create", "wait")
        /\ i' = 0
        /\ UNCHANGED wpc
  /\ UNCHANGED <<poolVars, task, mconfd, evs, envVars, cstate, fds>>

\* sockfd and exitpipe[0] are level-triggered, reported in any order.
EpollWait ==
  /\ M("wait", "dispatch")
  /\ \/ /\ backlog # <<>> /\ exitpipe > 0
        /\ evs' \in {<<"sock", "exit">>, <<"exit", "sock">>}
     \/ backlog # <<>> /\ exitpipe = 0 /\ evs' = <<"sock">>
     \/ backlog = <<>> /\ exitpipe > 0 /\ evs' = <<"exit">>
  /\ UNCHANGED <<poolVars, workerVars, mconfd, i, envVars, cstate, fds>>

DispatchEnd ==
  /\ M("dispatch", "wait")
  /\ evs = <<>>
  /\ UNCHANGED <<poolVars, workerVars, mconfd, evs, i, envVars, cstate, fds>>

\* accept()'s result is not tested; out of descriptors, the connection stays.
Accept ==
  /\ M("dispatch", "mlock")
  /\ evs # <<>> /\ Head(evs) = "sock"
  /\ evs' = Tail(evs)
  /\ \/ /\ fds < FdLimit
        /\ mconfd' = Head(backlog)
        /\ backlog' = Tail(backlog)
        /\ fds' = fds + 1
     \/ /\ fds >= FdLimit
        /\ mconfd' = BadFd
        /\ UNCHANGED <<backlog, fds>>
  /\ UNCHANGED <<poolVars, workerVars, i, exitpipe, gone, cstate>>

MainLock ==
  /\ M("mlock", "enqueue")
  /\ mutex = Free
  /\ mutex' = Main
  /\ UNCHANGED <<startFlag, queue, workerVars, mconfd, evs, i, envVars, cstate, fds>>

\* mutant: TASKQUECAPACITY is not respected
EnqueueAlways ==
  /\ M("enqueue", "signal")
  /\ mconfd' = NoTask
  /\ queue' = Append(queue, mconfd)
  /\ UNCHANGED <<startFlag, mutex, workerVars, evs, i, envVars, cstate, fds>>

\* task_enqueue's answer is not looked at: a full queue drops the connection.
Enqueue ==
  /\ M("enqueue", "signal")
  /\ mconfd' = NoTask
  /\ \/ /\ Len(queue) < TASKQUECAPACITY
        /\ queue' = Append(queue, mconfd)
        /\ UNCHANGED cstate
     \/ /\ Len(queue) = TASKQUECAPACITY
        /\ cstate' = IF mconfd \in Clients
                       THEN [cstate EXCEPT ![mconfd] = "dropped"] ELSE cstate
        /\ UNCHANGED queue
  /\ UNCHANGED <<startFlag, mutex, workerVars, evs, i, envVars, fds>>

Blocked == {w \in Workers : wpc[w] = "blocked"}

\* mutant: nobody is signalled
UnlockOnly ==
  /\ M("signal", "dispatch")
  /\ mutex' = Free
  /\ UNCHANGED <<startFlag, queue, workerVars, mconfd, evs, i, envVars, cstate, fds>>

\* pthread_cond_signal wakes one of the blocked threads, if there is one.
SignalAndUnlock ==
  /\ M("signal", "dispatch")
  /\ mutex' = Free
  /\ \/ \E w \in Blocked : wpc' = [wpc EXCEPT ![w] = "relock"]
     \/ Blocked = {} /\ UNCHANGED wpc
  /\ UNCHANGED <<startFlag, queue, task, mconfd, evs, i, envVars, cstate, fds>>

\* The flag is cleared without the mutex, in whatever state the workers are.
ExitFlag ==
  /\ M("dispatch", "broadcast")
  /\ evs # <<>> /\ Head(evs) = "exit"
  /\ startFlag' = 0
  /\ UNCHANGED <<mutex, queue, workerVars, mconfd, evs, i, envVars, cstate, fds>>

\* mutant: the shutdown wakes one thread instead of all
BroadcastOne ==
  /\ M("broadcast", "join")
  /\ \/ \E w \in Blocked : wpc' = [wpc EXCEPT ![w] = "relock"]
     \/ Blocked = {} /\ UNCHANGED wpc
  /\ i' = 1
  /\ UNCHANGED <<poolVars, task, mconfd, evs, envVars, cstate, fds>>

Broadcast ==
  /\ M("broadcast", "join")
  /\ wpc' = [w \in Workers |-> IF w \in Blocked THEN "relock" ELSE wpc[w]]
  /\ i' = 1
  /\ UNCHANGED <<poolVars, task, mconfd, evs, envVars, cstate, fds>>

\* mutant: the last thread is not joined
JoinShort ==
  /\ \/ /\ i \in Workers /\ wpc[i] = "exited"
        /\ M("join", "join")
        /\ i' = i + 1
     \/ /\ i >= threadCnt
        /\ M("join", "destroy")
        /\ UNCHANGED i
  /\ UNCHANGED <<poolVars, workerVars, mconfd, evs, envVars, cstate, fds>>

Join ==
  /\ \/ /\ i \in Workers /\ wpc[i] = "exited"
        /\ M("join", "join")
        /\ i' = i + 1
     \/ /\ i = threadCnt + 1
        /\ M("join", "destroy")
        /\ UNCHANGED i
  /\ UNCHANGED <<poolVars, workerVars, mconfd, evs, envVars, cstate, fds>>

\* thread_pool_destory frees what the queue still holds.
Destroy ==
  /\ M("destroy", "close")
  /\ queue' = <<>>
  /\ UNCHANGED <<startFlag, mutex, workerVars, mconfd, evs, i, envVars, cstate, fds>>

\* The close()s and exit(0).
Exit ==
  /\ M("close", "exited")
  /\ UNCHANGED <<poolVars, workerVars, mconfd, evs, i, envVars, cstate, fds>>

MainThread ==
  \/ StartPool \/ CreateThread \/ EpollWait \/ DispatchEnd \/ Accept
  \/ MainLock \/ Enqueue \/ SignalAndUnlock
  \/ ExitFlag \/ Broadcast \/ Join \/ Destroy \/ Exit

-----------------------------------------------------------------------------
(* Clients and the operator.                                               *)

Connect(c) ==
  /\ mpc \notin {"start", "create", "exited", "killed"}
  /\ cstate[c] = "idle"
  /\ cstate' = [cstate EXCEPT ![c] = "pending"]
  /\ backlog' = Append(backlog, c)
  /\ UNCHANGED <<poolVars, workerVars, mainVars, exitpipe, gone, fds>>

Leave(c) ==
  /\ Running
  /\ cstate[c] = "pending" /\ c \notin gone
  /\ gone' = gone \cup {c}
  /\ UNCHANGED <<poolVars, workerVars, mainVars, exitpipe, backlog, cstate, fds>>

\* sigfunc, in the parent process.
sigfunc ==
  /\ Running
  /\ exitpipe < MaxSignals
  /\ exitpipe' = exitpipe + 1
  /\ UNCHANGED <<poolVars, workerVars, mainVars, backlog, gone, cstate, fds>>

Environment == \/ \E c \in Clients : Connect(c) \/ Leave(c)
               \/ sigfunc

Next == \/ \E w \in Workers : Worker(w)
        \/ MainThread
        \/ Environment

(***************************************************************************)
(* The scheduler runs every thread that can run; a thread that keeps       *)
(* finding the mutex free at times gets it (SF); a client that stays reads *)
(* its file.  Nothing is asked of spurious wakeups or of the environment.  *)
(***************************************************************************)
WorkerFairness(w) ==
  /\ SF_vars(Lock(w) \/ Relock(w))
  /\ WF_vars(\/ CheckFlag(w) \/ WaitIfEmpty(w) \/ Dequeue(w) \/ OpenFile(w)
             \/ SendDone(w) \/ SendError(w) \/ SendKilled(w))

Fairness == /\ \A w \in Workers : WorkerFairness(w)
            /\ SF_vars(MainLock)
            /\ WF_vars(MainThread)

Spec == Init /\ [][Next]_vars
FairSpec == Spec /\ Fairness

-----------------------------------------------------------------------------
WorkerPlaces == {"new", "lock", "flag", "empty", "blocked", "relock",
                 "dequeue", "open", "send", "exited"}
MainPlaces == {"start", "create", "wait", "dispatch", "mlock", "enqueue",
               "signal", "broadcast", "join", "destroy", "close",
               "exited", "killed"}

(* Type invariant: the queue is never longer than TASKQUECAPACITY, and     *)
(* send_file closes a descriptor only after it opened one.                 *)
TypeOK ==
  /\ startFlag \in {0, 1}
  /\ mutex \in Workers \cup {Main, Free}
  /\ queue \in Seq(Confds) /\ Len(queue) <= TASKQUECAPACITY
  /\ wpc \in [Workers -> WorkerPlaces]
  /\ task \in [Workers -> Confds \cup {NoTask}]
  /\ mpc \in MainPlaces
  /\ mconfd \in Confds \cup {NoTask}
  /\ evs \in Seq({"sock", "exit"})
  /\ i \in 0..(threadCnt + 1)
  /\ exitpipe \in 0..MaxSignals
  /\ backlog \in Seq(Clients)
  /\ cstate \in [Clients -> {"idle", "pending", "served", "failed", "dropped"}]
  /\ gone \in SUBSET Clients
  /\ fds \in 0..FdLimit

(***************************************************************************)
(* MutexSound: whoever is between a lock and its unlock holds the mutex,   *)
(* and nobody else does: the queue is only touched by its holder, and no   *)
(* thread leaves, by pthread_exit either, with the mutex locked.           *)
(***************************************************************************)
WorkerHolds(w) == wpc[w] \in {"flag", "empty", "dequeue"}
MainHolds == mpc \in {"enqueue", "signal"}

MutexSound ==
  /\ \A w \in Workers : mutex = w <=> WorkerHolds(w)
  /\ Running => (mutex = Main <=> MainHolds)

(***************************************************************************)
(* HandedOnce: from accept to the end of send_file a connection is in one  *)
(* place: the backlog, main's confd, one slot of the queue or one worker's *)
(* confd.  No connection is sent to by two threads, and one that was       *)
(* answered or dropped is held by nobody.                                  *)
(***************************************************************************)
InQueue(c) == {k \in DOMAIN queue : queue[k] = c}
InBacklog(c) == {k \in DOMAIN backlog : backlog[k] = c}
Holders(c) == {w \in Workers : task[w] = c}
Places(c) == Cardinality(InBacklog(c)) + Cardinality(InQueue(c))
               + Cardinality(Holders(c)) + (IF mconfd = c THEN 1 ELSE 0)

HandedOnce ==
  mpc \notin {"close", "exited"} =>
    \A c \in Clients : Places(c) = IF cstate[c] = "pending" THEN 1 ELSE 0

(***************************************************************************)
(* NoLostWakeup: while a thread sleeps on the condition, every queued      *)
(* descriptor has a thread that is awake and on its way to dequeue it, or  *)
(* main is about to signal.  The `if' before the wait, signals consumed by *)
(* a thread that finds the queue empty, and the signal sent even when the  *)
(* queue was full must not break this.                                     *)
(***************************************************************************)
Awake == {w \in Workers : wpc[w] \in {"relock", "dequeue"}}

NoLostWakeup ==
  Running /\ Blocked # {} =>
    Len(queue) <= Cardinality(Awake) + (IF mpc = "signal" THEN 1 ELSE 0)

(***************************************************************************)
(* FreedAfterJoin: when thread_pool_destory frees the queue and the thread *)
(* ids, every worker has left threadfunc.                                  *)
(***************************************************************************)
FreedAfterJoin ==
  mpc \in {"destroy", "close", "exited"} =>
    \A w \in Workers : wpc[w] = "exited"

(***************************************************************************)
(* EveryTaskTaken: a queued connection does not stay in the queue for      *)
(* ever: a worker takes it or the shutdown frees it.                       *)
(***************************************************************************)
EveryTaskTaken ==
  \A c \in Clients : InQueue(c) # {} ~> InQueue(c) = {} \/ mpc = "killed"

(***************************************************************************)
(* EveryoneAccepted: an established connection is accepted, unless the     *)
(* server shuts down, dies, or has run out of descriptors.                 *)
(***************************************************************************)
EveryoneAccepted ==
  \A c \in Clients :
    InBacklog(c) # {} ~>
      InBacklog(c) = {} \/ ShuttingDown \/ Stopped \/ fds >= FdLimit

(***************************************************************************)
(* CleanShutdown: a shutdown whose flag is cleared while no worker is      *)
(* between its test of the flag and its wait ends: all workers are woken,  *)
(* see the flag, and are joined.                                           *)
(***************************************************************************)
CleanShutdown ==
  (mpc = "broadcast" /\ \A w \in Workers : wpc[w] # "empty") ~> Stopped

(***************************************************************************)
(* ExitReached: after server.c prints "exit" the server exits.             *)
(***************************************************************************)
ExitReached == (mpc = "broadcast") ~> Stopped
=============================================================================
