-------------------------- MODULE ThreadPoolProofs ---------------------------
(* Proofs about the thread pool for any number of threads, clients, queue    *)
(* slots, descriptors and signals.                                           *)
EXTENDS ThreadPool, Counting

Sending == At(Workers, wpc, {"send"})

(* What MutexSound and FreedAfterJoin need: threads are created, and joined, *)
(* in order; an event is still true when it is dispatched, and main has a    *)
(* result of accept() in its hands until it is queued; and every thread      *)
(* in send_file has a descriptor to close.                                   *)
Created == /\ mpc = "start" => \A w \in Workers : wpc[w] = "new"
           /\ mpc = "create" => /\ i \in 1..(threadCnt + 1)
                                /\ \A w \in Workers : w >= i => wpc[w] = "new"
Joined == mpc = "join" => /\ i \in 1..(threadCnt + 1)
                          /\ \A w \in Workers : w < i => wpc[w] = "exited"
EventsSound == /\ \A k \in 1..Len(evs) : evs[k] = "sock" => backlog # <<>>
               /\ \A j, k \in 1..Len(evs) : evs[j] = evs[k] => j = k
               /\ mpc \in {"mlock", "enqueue"} => mconfd \in Confds
FdsCoverSends == fds >= Cardinality(Sending)

IInv == /\ TypeOK
        /\ MutexSound
        /\ Created
        /\ Joined
        /\ FreedAfterJoin
        /\ EventsSound
        /\ FdsCoverSends

LEMMA WorkersFinite == IsFiniteSet(Workers)
  BY FS_Interval, PoolAssumption DEF Workers

(* One thread moving from one place to another changes the number of threads *)
(* at the places G by at most one.                                           *)
LEMMA CountMove ==
  ASSUME NEW f, NEW g, NEW w \in Workers, NEW p, NEW G,
         \A x \in Workers : g[x] = IF x = w THEN p ELSE f[x]
  PROVE  /\ Cardinality(At(Workers, f, G)) \in Nat
         /\ Cardinality(At(Workers, g, G)) =
              Cardinality(At(Workers, f, G))
                - (IF f[w] \in G THEN 1 ELSE 0) + (IF p \in G THEN 1 ELSE 0)
  BY WorkersFinite, AtFinite, AtMove

LEMMA ConstantTypes == /\ threadCnt \in Nat \ {0} /\ Main \notin Workers
                       /\ Free \notin Workers /\ Free # Main
                       /\ \A w \in Workers : w \in Int
                       /\ BadFd \notin Clients /\ NoTask \notin Confds
  BY PoolAssumption DEF Workers, Main, Free, Confds

LEMMA InitInv == Init => IInv
  <1> SUFFICES ASSUME Init PROVE IInv
    OBVIOUS
  <1>1. Sending = {}
    BY DEF Init, Sending, At
  <1>2. FdsCoverSends
    BY <1>1, FS_EmptySet, PoolAssumption DEF FdsCoverSends, Init
  <1>3. TypeOK
    BY ConstantTypes, PoolAssumption
    DEF Init, TypeOK, WorkerPlaces, MainPlaces, Confds
  <1>4. MutexSound
    BY ConstantTypes
    DEF Init, MutexSound, WorkerHolds, MainHolds, Running, Stopped
  <1> QED BY <1>2, <1>3, <1>4
          DEF Init, IInv, Created, Joined, FreedAfterJoin, EventsSound

(* The parts of IInv that the steps of a worker can disturb.                 *)
LEMMA WorkerMove ==
  ASSUME IInv, NEW w \in Workers, NEW from, NEW to \in WorkerPlaces,
         W(w, from, to), from \notin {"new", "exited"},
         UNCHANGED <<mpc, mconfd, i, evs, backlog>>
  PROVE  Created' /\ Joined' /\ FreedAfterJoin' /\ EventsSound'
  <1>1. /\ wpc[w] = from /\ wpc' = [wpc EXCEPT ![w] = to]
        /\ wpc \in [Workers -> WorkerPlaces]
    BY DEF W, IInv, TypeOK
  <1>2. \A x \in Workers : wpc[x] \in {"new", "exited"} => wpc'[x] = wpc[x]
    BY <1>1
  <1>3. Created'
    BY <1>2 DEF IInv, Created
  <1>4. Joined'
    BY <1>2 DEF IInv, Joined
  <1>5. FreedAfterJoin'
    <2>1. mpc \in {"destroy", "close", "exited"} => wpc[w] = "exited"
      BY DEF IInv, FreedAfterJoin
    <2>2. wpc[w] # "exited"
      BY <1>1
    <2> QED BY <2>1, <2>2 DEF FreedAfterJoin
  <1>6. EventsSound'
    BY DEF IInv, EventsSound
  <1> QED BY <1>3, <1>4, <1>5, <1>6

LEMMA SendingMove ==
  ASSUME IInv, NEW w \in Workers, NEW from, NEW to, W(w, from, to)
  PROVE  /\ Cardinality(Sending) \in Nat
         /\ Cardinality(Sending)' = Cardinality(Sending)
              - (IF from \in {"send"} THEN 1 ELSE 0)
              + (IF to \in {"send"} THEN 1 ELSE 0)
  <1>1. /\ wpc[w] = from /\ wpc' = [wpc EXCEPT ![w] = to]
        /\ wpc \in [Workers -> WorkerPlaces]
    BY DEF W, IInv, TypeOK
  <1> DEFINE G == {"send"}
  <1>2. /\ Sending = At(Workers, wpc, G)
        /\ Sending' = At(Workers, wpc', G)
        /\ wpc[w] \in G <=> from \in {"send"}
        /\ to \in G <=> to \in {"send"}
    BY <1>1 DEF Sending
  <1> HIDE DEF G
  <1>3. \A x \in Workers : wpc'[x] = IF x = w THEN to ELSE wpc[x]
    BY <1>1
  <1>4. /\ Cardinality(At(Workers, wpc, G)) \in Nat
        /\ Cardinality(At(Workers, wpc', G)) =
             Cardinality(At(Workers, wpc, G))
               - (IF wpc[w] \in G THEN 1 ELSE 0) + (IF to \in G THEN 1 ELSE 0)
    BY <1>3, CountMove
  <1> QED BY <1>2, <1>4

(* The mutex changes hands only between a lock and its unlock.               *)
LEMMA MutexMove ==
  ASSUME IInv, NEW w \in Workers, NEW from, NEW to, W(w, from, to),
         UNCHANGED mpc,
         \/ /\ mutex' = mutex
            /\ from \in {"flag", "empty", "dequeue"} <=>
                 to \in {"flag", "empty", "dequeue"}
         \/ /\ mutex = Free /\ mutex' = w
            /\ to \in {"flag", "empty", "dequeue"}
         \/ /\ from \in {"flag", "empty", "dequeue"} /\ mutex' = Free
            /\ to \notin {"flag", "empty", "dequeue"}
  PROVE  MutexSound'
  <1>1. /\ wpc[w] = from /\ wpc' = [wpc EXCEPT ![w] = to]
        /\ wpc \in [Workers -> WorkerPlaces] /\ Running
    BY DEF W, IInv, TypeOK
  <1>2. \A x \in Workers : wpc'[x] = IF x = w THEN to ELSE wpc[x]
    BY <1>1
  <1>3. \A x \in Workers : mutex = x <=> WorkerHolds(x)
    BY DEF IInv, MutexSound
  <1>4. mutex = Main <=> MainHolds
    BY <1>1 DEF IInv, MutexSound
  <1>5. (\A x \in Workers : mutex = x <=> WorkerHolds(x))'
    BY <1>1, <1>2, <1>3, ConstantTypes DEF WorkerHolds
  <1>6. (mutex = Main <=> MainHolds)'
    BY <1>1, <1>3, <1>4, ConstantTypes DEF WorkerHolds, MainHolds
  <1> QED BY <1>5, <1>6 DEF MutexSound

LEMMA WorkerInv == ASSUME IInv, NEW w \in Workers, Worker(w) PROVE IInv'
  <1> USE DEF poolVars, workerVars, mainVars, envVars
  <1>1. CASE Lock(w)
    <2>1. W(w, "lock", "flag") /\ UNCHANGED <<mpc, mconfd, i, evs, backlog, fds>>
      BY <1>1 DEF Lock
    <2>2. TypeOK'
      BY <1>1 DEF Lock, W, IInv, TypeOK, WorkerPlaces
    <2>3. MutexSound'
      BY <1>1, <2>1, MutexMove DEF Lock
    <2>4. FdsCoverSends'
      BY <2>1, SendingMove DEF IInv, FdsCoverSends
    <2> QED BY <2>1, <2>2, <2>3, <2>4, WorkerMove DEF IInv, WorkerPlaces
  <1>2. CASE CheckFlag(w)
    <2>1. PICK to \in {"empty", "exited"} :
            /\ W(w, "flag", to) /\ UNCHANGED <<mpc, mconfd, i, evs, backlog, fds>>
            /\ mutex' = IF to = "empty" THEN mutex ELSE Free
      BY <1>2 DEF CheckFlag
    <2>2. TypeOK'
      BY <1>2, <2>1 DEF CheckFlag, W, IInv, TypeOK, WorkerPlaces
    <2>3. MutexSound'
      BY <1>2, <2>1, MutexMove
    <2>4. FdsCoverSends'
      BY <2>1, SendingMove DEF IInv, FdsCoverSends
    <2> QED BY <2>1, <2>2, <2>3, <2>4, WorkerMove DEF IInv, WorkerPlaces
  <1>3. CASE WaitIfEmpty(w)
    <2>1. PICK to \in {"blocked", "dequeue"} :
            /\ W(w, "empty", to) /\ UNCHANGED <<mpc, mconfd, i, evs, backlog, fds>>
            /\ mutex' = IF to = "dequeue" THEN mutex ELSE Free
      BY <1>3 DEF WaitIfEmpty
    <2>2. TypeOK'
      BY <1>3, <2>1 DEF WaitIfEmpty, W, IInv, TypeOK, WorkerPlaces
    <2>3. MutexSound'
      BY <1>3, <2>1, MutexMove
    <2>4. FdsCoverSends'
      BY <2>1, SendingMove DEF IInv, FdsCoverSends
    <2> QED BY <2>1, <2>2, <2>3, <2>4, WorkerMove DEF IInv, WorkerPlaces
  <1>4. CASE SpuriousWakeup(w)
    <2>1. /\ W(w, "blocked", "relock")
          /\ UNCHANGED <<mpc, mconfd, i, evs, backlog, fds, mutex>>
      BY <1>4 DEF SpuriousWakeup
    <2>2. TypeOK'
      BY <1>4 DEF SpuriousWakeup, W, IInv, TypeOK, WorkerPlaces
    <2>3. MutexSound'
      BY <2>1, MutexMove
    <2>4. FdsCoverSends'
      BY <2>1, SendingMove DEF IInv, FdsCoverSends
    <2> QED BY <2>1, <2>2, <2>3, <2>4, WorkerMove DEF IInv, WorkerPlaces
  <1>5. CASE Relock(w)
    <2>1. W(w, "relock", "dequeue") /\ UNCHANGED <<mpc, mconfd, i, evs, backlog, fds>>
      BY <1>5 DEF Relock
    <2>2. TypeOK'
      BY <1>5 DEF Relock, W, IInv, TypeOK, WorkerPlaces
    <2>3. MutexSound'
      BY <1>5, <2>1, MutexMove DEF Relock
    <2>4. FdsCoverSends'
      BY <2>1, SendingMove DEF IInv, FdsCoverSends
    <2> QED BY <2>1, <2>2, <2>3, <2>4, WorkerMove DEF IInv, WorkerPlaces
  <1>6. CASE Dequeue(w)
    <2>1. PICK to \in {"open", "lock"} :
            /\ W(w, "dequeue", to) /\ UNCHANGED <<mpc, mconfd, i, evs, backlog, fds>>
            /\ mutex' = Free
      BY <1>6 DEF Dequeue
    <2>2. TypeOK'
      <3>1. queue # <<>> => /\ Head(queue) \in Confds
                            /\ Tail(queue) \in Seq(Confds)
                            /\ Len(Tail(queue)) <= Len(queue)
        BY HeadTailProperties, LenProperties DEF IInv, TypeOK
      <3>2. Len(queue) \in Nat /\ TASKQUECAPACITY \in Nat
        BY LenProperties, PoolAssumption DEF IInv, TypeOK
      <3>3. /\ queue' \in Seq(Confds) /\ Len(queue') <= TASKQUECAPACITY
            /\ task' \in [Workers -> Confds \cup {NoTask}]
        <4>1. CASE queue # <<>>
          <5>1. /\ queue' = Tail(queue)
                /\ task' = [task EXCEPT ![w] = Head(queue)]
            BY <1>6, <4>1 DEF Dequeue
          <5>2. Len(Tail(queue)) \in Nat
            BY <3>1, <4>1, LenProperties
          <5> QED BY <3>1, <3>2, <4>1, <5>1, <5>2 DEF IInv, TypeOK
        <4>2. CASE queue = <<>>
          BY <1>6, <4>2 DEF Dequeue, IInv, TypeOK
        <4> QED BY <4>1, <4>2
      <3> QED BY <1>6, <2>1, <3>3 DEF Dequeue, W, IInv, TypeOK, WorkerPlaces
    <2>3. MutexSound'
      BY <2>1, MutexMove
    <2>4. FdsCoverSends'
      BY <2>1, SendingMove DEF IInv, FdsCoverSends
    <2> QED BY <2>1, <2>2, <2>3, <2>4, WorkerMove DEF IInv, WorkerPlaces
  <1>7. CASE OpenFile(w)
    <2>1. PICK to \in {"send", "lock"} :
            /\ W(w, "open", to) /\ UNCHANGED <<mpc, mconfd, i, evs, backlog, mutex>>
            /\ fds' = IF to = "send" THEN fds + 1 ELSE fds
            /\ to = "send" => fds < FdLimit
      BY <1>7 DEF OpenFile
    <2>2. TypeOK'
      <3>1. cstate' \in [Clients -> {"idle", "pending", "served", "failed", "dropped"}]
        BY <1>7 DEF OpenFile, Outcome, IInv, TypeOK
      <3>2. fds' \in 0..FdLimit
        BY <2>1, PoolAssumption DEF IInv, TypeOK
      <3>3. task' \in [Workers -> Confds \cup {NoTask}]
        BY <1>7 DEF OpenFile, IInv, TypeOK
      <3> QED BY <1>7, <2>1, <3>1, <3>2, <3>3
              DEF OpenFile, W, IInv, TypeOK, WorkerPlaces
    <2>3. MutexSound'
      BY <2>1, MutexMove
    <2>4. FdsCoverSends'
      BY <2>1, SendingMove DEF IInv, FdsCoverSends, TypeOK
    <2> QED BY <2>1, <2>2, <2>3, <2>4, WorkerMove DEF IInv, WorkerPlaces
  <1>8. CASE SendDone(w)
    <2>1. /\ W(w, "send", "lock") /\ UNCHANGED <<mpc, mconfd, i, evs, backlog, mutex>>
          /\ fds' = fds - 1
      BY <1>8 DEF SendDone
    <2>2. Sending # {} /\ Cardinality(Sending) # 0
      <3>1. w \in Sending
        BY <2>1 DEF W, Sending, At
      <3>2. IsFiniteSet(Sending)
        <4>1. IsFiniteSet(Workers)
          BY FS_Interval, PoolAssumption DEF Workers
        <4> QED BY <4>1, FS_Subset DEF Sending, At
      <3> QED BY <3>1, <3>2, FS_EmptySet
    <2>3. TypeOK'
      <3>1. cstate' \in [Clients -> {"idle", "pending", "served", "failed", "dropped"}]
        BY <1>8 DEF SendDone, Outcome, IInv, TypeOK
      <3>2. fds' \in 0..FdLimit
        BY <2>1, <2>2, SendingMove, PoolAssumption DEF IInv, TypeOK, FdsCoverSends
      <3> QED BY <1>8, <3>1, <3>2 DEF SendDone, W, IInv, TypeOK, WorkerPlaces
    <2>4. MutexSound'
      BY <2>1, MutexMove
    <2>5. FdsCoverSends'
      BY <2>1, SendingMove DEF IInv, FdsCoverSends, TypeOK
    <2> QED BY <2>1, <2>3, <2>4, <2>5, WorkerMove DEF IInv, WorkerPlaces
  <1>9. CASE SendError(w)
    <2>1. W(w, "send", "lock") /\ UNCHANGED <<mpc, mconfd, i, evs, backlog, mutex, fds>>
      BY <1>9 DEF SendError
    <2>2. TypeOK'
      <3>1. cstate' \in [Clients -> {"idle", "pending", "served", "failed", "dropped"}]
        BY <1>9 DEF SendError, Outcome, IInv, TypeOK
      <3> QED BY <1>9, <3>1 DEF SendError, W, IInv, TypeOK, WorkerPlaces
    <2>3. MutexSound'
      BY <2>1, MutexMove
    <2>4. FdsCoverSends'
      BY <2>1, SendingMove DEF IInv, FdsCoverSends, TypeOK
    <2> QED BY <2>1, <2>2, <2>3, <2>4, WorkerMove DEF IInv, WorkerPlaces
  <1>10. CASE SendKilled(w)
    <2>1. /\ UNCHANGED <<poolVars, workerVars, mconfd, evs, i, envVars, cstate, fds>>
          /\ mpc' = "killed"
      BY <1>10 DEF SendKilled
    <2>2. TypeOK'
      BY <2>1 DEF IInv, TypeOK, MainPlaces
    <2>3. MutexSound'
      BY <2>1 DEF IInv, MutexSound, WorkerHolds, Running, Stopped
    <2> QED BY <2>1, <2>2, <2>3
            DEF IInv, Created, Joined, FreedAfterJoin, EventsSound,
                FdsCoverSends, Sending
  <1> QED BY <1>1, <1>2, <1>3, <1>4, <1>5, <1>6, <1>7, <1>8, <1>9, <1>10
          DEF Worker

(* A step of main that moves no thread in or out of send_file.               *)
LEMMA SendingSame ==
  ASSUME IInv, UNCHANGED fds,
         \A w \in Workers : wpc'[w] = "send" <=> wpc[w] = "send"
  PROVE  FdsCoverSends'
  <1>1. Sending' = Sending
    BY DEF Sending, At
  <1> QED BY <1>1 DEF IInv, FdsCoverSends

LEMMA MainInv == ASSUME IInv, MainThread PROVE IInv'
  <1> USE DEF poolVars, workerVars, mainVars, envVars, M
  <1> USE ConstantTypes
  <1>1. CASE StartPool
    <2>1. TypeOK'
      BY <1>1 DEF StartPool, IInv, TypeOK, MainPlaces
    <2>2. MutexSound'
      BY <1>1
      DEF StartPool, IInv, MutexSound, WorkerHolds, MainHolds, Running, Stopped
    <2>3. Created' /\ Joined' /\ FreedAfterJoin' /\ EventsSound'
      BY <1>1 DEF StartPool, IInv, Created, Joined, FreedAfterJoin, EventsSound, Workers
    <2>4. FdsCoverSends'
      BY <1>1, SendingSame DEF StartPool
    <2> QED BY <2>1, <2>2, <2>3, <2>4 DEF IInv
  <1>2. CASE CreateThread
    <2>1. CASE i = threadCnt + 1 /\ UNCHANGED wpc /\ mpc' = "wait" /\ i' = 0
      <3>1. TypeOK'
        BY <1>2, <2>1 DEF CreateThread, IInv, TypeOK, MainPlaces
      <3>2. MutexSound'
        BY <1>2, <2>1
        DEF CreateThread, IInv, MutexSound, WorkerHolds, MainHolds, Running, Stopped
      <3>3. Created' /\ Joined' /\ FreedAfterJoin' /\ EventsSound'
        BY <1>2, <2>1
        DEF CreateThread, IInv, Created, Joined, FreedAfterJoin, EventsSound
      <3>4. FdsCoverSends'
        BY <1>2, <2>1, SendingSame DEF CreateThread
      <3> QED BY <3>1, <3>2, <3>3, <3>4 DEF IInv
    <2>2. CASE /\ i \in Workers /\ i' = i + 1 /\ mpc' = "create"
               /\ wpc' = [wpc EXCEPT ![i] = "lock"]
      <3>1. /\ \A w \in Workers : wpc'[w] = IF w = i THEN "lock" ELSE wpc[w]
            /\ wpc[i] = "new" /\ mpc = "create"
            /\ UNCHANGED <<poolVars, task, mconfd, evs, envVars, cstate, fds>>
        BY <1>2, <2>2 DEF CreateThread, IInv, Created, TypeOK, Workers
      <3>2. TypeOK'
        BY <2>2, <3>1 DEF IInv, TypeOK, MainPlaces, WorkerPlaces, Workers
      <3>3. MutexSound'
        BY <2>2, <3>1
        DEF IInv, MutexSound, WorkerHolds, MainHolds, Running, Stopped
      <3>4. Created'
        BY <2>2, <3>1 DEF IInv, Created, Workers
      <3>5. Joined' /\ FreedAfterJoin' /\ EventsSound'
        BY <2>2, <3>1 DEF IInv, Joined, FreedAfterJoin, EventsSound
      <3>6. FdsCoverSends'
        BY <3>1, SendingSame
      <3> QED BY <3>2, <3>3, <3>4, <3>5, <3>6 DEF IInv
    <2> QED BY <1>2, <2>1, <2>2 DEF CreateThread
  <1>3. CASE EpollWait
    <2>1. /\ evs' \in Seq({"sock", "exit"})
          /\ \A k \in 1..Len(evs') : evs'[k] = "sock" => backlog # <<>>
          /\ \A j, k \in 1..Len(evs') : evs'[j] = evs'[k] => j = k
      <3>1. \/ evs' = <<"sock", "exit">> \/ evs' = <<"exit", "sock">>
            \/ evs' = <<"sock">> \/ evs' = <<"exit">>
        BY <1>3 DEF EpollWait
      <3>2. /\ evs' \in Seq({"sock", "exit"})
            /\ \A j, k \in 1..Len(evs') : evs'[j] = evs'[k] => j = k
        <4>1. CASE evs' = <<"sock", "exit">>
          BY <4>1
        <4>2. CASE evs' = <<"exit", "sock">>
          BY <4>2
        <4>3. CASE evs' = <<"sock">>
          BY <4>3
        <4>4. CASE evs' = <<"exit">>
          BY <4>4
        <4> QED BY <3>1, <4>1, <4>2, <4>3, <4>4
      <3>3. evs' # <<"exit">> => backlog # <<>>
        BY <1>3 DEF EpollWait
      <3>4. evs' = <<"exit">> => \A k \in 1..Len(evs') : evs'[k] # "sock"
        OBVIOUS
      <3> QED BY <3>2, <3>3, <3>4
    <2>2. TypeOK'
      BY <1>3, <2>1 DEF EpollWait, IInv, TypeOK, MainPlaces
    <2>3. MutexSound'
      BY <1>3
      DEF EpollWait, IInv, MutexSound, WorkerHolds, MainHolds, Running, Stopped
    <2>4. Created' /\ Joined' /\ FreedAfterJoin' /\ EventsSound'
      BY <1>3, <2>1
      DEF EpollWait, IInv, Created, Joined, FreedAfterJoin, EventsSound
    <2>5. FdsCoverSends'
      BY <1>3, SendingSame DEF EpollWait
    <2> QED BY <2>2, <2>3, <2>4, <2>5 DEF IInv
  <1>4. CASE DispatchEnd
    <2>1. TypeOK'
      BY <1>4 DEF DispatchEnd, IInv, TypeOK, MainPlaces
    <2>2. MutexSound'
      BY <1>4
      DEF DispatchEnd, IInv, MutexSound, WorkerHolds, MainHolds, Running, Stopped
    <2>3. Created' /\ Joined' /\ FreedAfterJoin' /\ EventsSound'
      BY <1>4 DEF DispatchEnd, IInv, Created, Joined, FreedAfterJoin, EventsSound
    <2>4. FdsCoverSends'
      BY <1>4, SendingSame DEF DispatchEnd
    <2> QED BY <2>1, <2>2, <2>3, <2>4 DEF IInv
  <1>5. CASE Accept
    <2>1. /\ evs # <<>> /\ Head(evs) = "sock" /\ evs' = Tail(evs)
          /\ mpc = "dispatch" /\ mpc' = "mlock"
          /\ UNCHANGED <<poolVars, workerVars, i, exitpipe, gone, cstate>>
      BY <1>5 DEF Accept
    <2>2. /\ evs' \in Seq({"sock", "exit"}) /\ Len(evs') = Len(evs) - 1
          /\ \A k \in 1..Len(evs') : evs'[k] = evs[k + 1] /\ k + 1 \in 1..Len(evs)
          /\ evs[1] = "sock" /\ 1 \in 1..Len(evs) /\ Len(evs') \in Nat
      BY <2>1, HeadTailProperties, LenProperties, EmptySeq DEF IInv, TypeOK
    <2>3. backlog # <<>>
      BY <2>2 DEF IInv, EventsSound
    <2>4. Head(backlog) \in Clients /\ Tail(backlog) \in Seq(Clients)
      BY <2>3, HeadTailProperties DEF IInv, TypeOK
    <2>5. /\ backlog' \in Seq(Clients) /\ mconfd' \in Confds /\ fds' \in 0..FdLimit
          /\ fds' = fds \/ fds' = fds + 1
      <3>1. CASE fds < FdLimit /\ mconfd' = Head(backlog)
                 /\ backlog' = Tail(backlog) /\ fds' = fds + 1
        BY <2>4, <3>1, PoolAssumption DEF IInv, TypeOK, Confds
      <3>2. CASE mconfd' = BadFd /\ UNCHANGED <<backlog, fds>>
        BY <3>2 DEF IInv, TypeOK, Confds
      <3> QED BY <1>5, <3>1, <3>2 DEF Accept
    <2>6. TypeOK'
      BY <2>1, <2>2, <2>5 DEF IInv, TypeOK, MainPlaces
    <2>7. MutexSound'
      BY <2>1 DEF IInv, MutexSound, WorkerHolds, MainHolds, Running, Stopped
    <2>8. EventsSound'
      <3>1. \A k \in 1..Len(evs') : evs'[k] # "sock"
        <4>1. SUFFICES ASSUME NEW k \in 1..Len(evs'), evs'[k] = "sock"
              PROVE  FALSE
          OBVIOUS
        <4>2. k + 1 \in 1..Len(evs) /\ evs[k + 1] = evs[1] /\ k + 1 # 1
          BY <2>2, <4>1
        <4> QED BY <2>2, <4>2 DEF IInv, EventsSound
      <3>2. ASSUME NEW j \in 1..Len(evs'), NEW k \in 1..Len(evs'),
                   evs'[j] = evs'[k]
            PROVE  j = k
        <4>1. /\ j + 1 \in 1..Len(evs) /\ k + 1 \in 1..Len(evs)
              /\ evs[j + 1] = evs[k + 1]
          BY <2>2, <3>2
        <4>2. j + 1 = k + 1
          BY <4>1 DEF IInv, EventsSound
        <4> QED BY <4>2
      <3> QED BY <2>1, <2>5, <3>1, <3>2 DEF EventsSound
    <2>9. Created' /\ Joined' /\ FreedAfterJoin'
      BY <2>1 DEF IInv, Created, Joined, FreedAfterJoin
    <2>10. FdsCoverSends'
      <3>1. Sending' = Sending /\ IsFiniteSet(Sending)
        <4>1. IsFiniteSet(Workers)
          BY FS_Interval, PoolAssumption DEF Workers
        <4> QED BY <2>1, <4>1, FS_Subset DEF Sending, At
      <3>2. Cardinality(Sending) \in Nat
        BY <3>1, FS_CardinalityType
      <3> QED BY <2>5, <3>1, <3>2 DEF IInv, FdsCoverSends, TypeOK
    <2> QED BY <2>6, <2>7, <2>8, <2>9, <2>10 DEF IInv
  <1>6. CASE MainLock
    <2>1. TypeOK'
      BY <1>6 DEF MainLock, IInv, TypeOK, MainPlaces
    <2>2. MutexSound'
      <3>1. /\ mpc = "mlock" /\ mpc' = "enqueue" /\ wpc' = wpc
            /\ mutex = Free /\ mutex' = Main
        BY <1>6 DEF MainLock
      <3>2. \A w \in Workers : mutex # w /\ mutex' # w
        BY <3>1
      <3>3. \A w \in Workers : ~WorkerHolds(w) /\ ~WorkerHolds(w)'
        BY <3>1, <3>2 DEF IInv, MutexSound, WorkerHolds
      <3> QED BY <3>1, <3>2, <3>3 DEF MutexSound, MainHolds
    <2>3. Created' /\ Joined' /\ FreedAfterJoin' /\ EventsSound'
      BY <1>6 DEF MainLock, IInv, Created, Joined, FreedAfterJoin, EventsSound
    <2>4. FdsCoverSends'
      BY <1>6, SendingSame DEF MainLock
    <2> QED BY <2>1, <2>2, <2>3, <2>4 DEF IInv
  <1>7. CASE Enqueue
    <2>1. /\ queue' \in Seq(Confds) /\ Len(queue') <= TASKQUECAPACITY
          /\ cstate' \in [Clients -> {"idle", "pending", "served", "failed", "dropped"}]
      <3>1. mconfd \in Confds
        BY <1>7 DEF Enqueue, IInv, EventsSound
      <3>2. Len(Append(queue, mconfd)) = Len(queue) + 1
        BY <3>1 DEF IInv, TypeOK
      <3>3. Append(queue, mconfd) \in Seq(Confds)
        BY <3>1 DEF IInv, TypeOK
      <3>4. Len(queue) \in Nat /\ TASKQUECAPACITY \in Nat
        BY LenProperties, PoolAssumption DEF IInv, TypeOK
      <3>5. CASE Len(queue) < TASKQUECAPACITY /\ queue' = Append(queue, mconfd)
                 /\ UNCHANGED cstate
        BY <3>2, <3>3, <3>4, <3>5 DEF IInv, TypeOK
      <3>6. CASE /\ queue' = queue
                 /\ cstate' = IF mconfd \in Clients
                                THEN [cstate EXCEPT ![mconfd] = "dropped"] ELSE cstate
        BY <3>6 DEF IInv, TypeOK
      <3> QED BY <1>7, <3>5, <3>6 DEF Enqueue
    <2>2. TypeOK'
      BY <1>7, <2>1 DEF Enqueue, IInv, TypeOK, MainPlaces
    <2>3. MutexSound'
      BY <1>7
      DEF Enqueue, IInv, MutexSound, WorkerHolds, MainHolds, Running, Stopped
    <2>4. Created' /\ Joined' /\ FreedAfterJoin' /\ EventsSound'
      BY <1>7 DEF Enqueue, IInv, Created, Joined, FreedAfterJoin, EventsSound
    <2>5. FdsCoverSends'
      BY <1>7, SendingSame DEF Enqueue
    <2> QED BY <2>2, <2>3, <2>4, <2>5 DEF IInv
  <1>8. CASE SignalAndUnlock
    <2>1. /\ \A w \in Workers :
               \/ wpc'[w] = wpc[w]
               \/ wpc[w] = "blocked" /\ wpc'[w] = "relock"
          /\ wpc' \in [Workers -> WorkerPlaces]
      BY <1>8 DEF SignalAndUnlock, Blocked, IInv, TypeOK, WorkerPlaces
    <2>2. TypeOK'
      BY <1>8, <2>1 DEF SignalAndUnlock, IInv, TypeOK, MainPlaces
    <2>3. MutexSound'
      BY <1>8, <2>1
      DEF SignalAndUnlock, IInv, MutexSound, WorkerHolds, MainHolds, Running, Stopped
    <2>4. Created' /\ Joined' /\ FreedAfterJoin' /\ EventsSound'
      BY <1>8
      DEF SignalAndUnlock, IInv, Created, Joined, FreedAfterJoin, EventsSound
    <2>5. FdsCoverSends'
      BY <1>8, <2>1, SendingSame DEF SignalAndUnlock
    <2> QED BY <2>2, <2>3, <2>4, <2>5 DEF IInv
  <1>9. CASE ExitFlag
    <2>1. TypeOK'
      BY <1>9 DEF ExitFlag, IInv, TypeOK, MainPlaces
    <2>2. MutexSound'
      BY <1>9
      DEF ExitFlag, IInv, MutexSound, WorkerHolds, MainHolds, Running, Stopped
    <2>3. Created' /\ Joined' /\ FreedAfterJoin' /\ EventsSound'
      BY <1>9 DEF ExitFlag, IInv, Created, Joined, FreedAfterJoin, EventsSound
    <2>4. FdsCoverSends'
      BY <1>9, SendingSame DEF ExitFlag
    <2> QED BY <2>1, <2>2, <2>3, <2>4 DEF IInv
  <1>10. CASE Broadcast
    <2>1. /\ \A w \in Workers :
               \/ wpc'[w] = wpc[w]
               \/ wpc[w] = "blocked" /\ wpc'[w] = "relock"
          /\ wpc' \in [Workers -> WorkerPlaces]
      BY <1>10 DEF Broadcast, Blocked, IInv, TypeOK, WorkerPlaces
    <2>2. TypeOK'
      BY <1>10, <2>1 DEF Broadcast, IInv, TypeOK, MainPlaces
    <2>3. MutexSound'
      BY <1>10, <2>1
      DEF Broadcast, IInv, MutexSound, WorkerHolds, MainHolds, Running, Stopped
    <2>4. Created' /\ Joined' /\ FreedAfterJoin' /\ EventsSound'
      BY <1>10
      DEF Broadcast, IInv, Created, Joined, FreedAfterJoin, EventsSound, Workers
    <2>5. FdsCoverSends'
      BY <1>10, <2>1, SendingSame DEF Broadcast
    <2> QED BY <2>2, <2>3, <2>4, <2>5 DEF IInv
  <1>11. CASE Join
    <2>1. TypeOK'
      BY <1>11 DEF Join, IInv, TypeOK, MainPlaces, Workers
    <2>2. MutexSound'
      BY <1>11
      DEF Join, IInv, MutexSound, WorkerHolds, MainHolds, Running, Stopped
    <2>3. Created' /\ EventsSound'
      BY <1>11 DEF Join, IInv, Created, EventsSound
    <2>4. Joined' /\ FreedAfterJoin'
      BY <1>11 DEF Join, IInv, Joined, FreedAfterJoin, Workers
    <2>5. FdsCoverSends'
      BY <1>11, SendingSame DEF Join
    <2> QED BY <2>1, <2>2, <2>3, <2>4, <2>5 DEF IInv
  <1>12. CASE Destroy
    <2>1. TypeOK'
      BY <1>12, PoolAssumption DEF Destroy, IInv, TypeOK, MainPlaces
    <2>2. MutexSound'
      BY <1>12
      DEF Destroy, IInv, MutexSound, WorkerHolds, MainHolds, Running, Stopped
    <2>3. Created' /\ Joined' /\ FreedAfterJoin' /\ EventsSound'
      BY <1>12 DEF Destroy, IInv, Created, Joined, FreedAfterJoin, EventsSound
    <2>4. FdsCoverSends'
      BY <1>12, SendingSame DEF Destroy
    <2> QED BY <2>1, <2>2, <2>3, <2>4 DEF IInv
  <1>13. CASE Exit
    <2>1. TypeOK'
      BY <1>13 DEF Exit, IInv, TypeOK, MainPlaces
    <2>2. MutexSound'
      BY <1>13 DEF Exit, IInv, MutexSound, WorkerHolds, MainHolds, Running, Stopped
    <2>3. Created' /\ Joined' /\ FreedAfterJoin' /\ EventsSound'
      BY <1>13 DEF Exit, IInv, Created, Joined, FreedAfterJoin, EventsSound
    <2>4. FdsCoverSends'
      BY <1>13, SendingSame DEF Exit
    <2> QED BY <2>1, <2>2, <2>3, <2>4 DEF IInv
  <1> QED BY <1>1, <1>2, <1>3, <1>4, <1>5, <1>6, <1>7, <1>8, <1>9, <1>10,
             <1>11, <1>12, <1>13 DEF MainThread

LEMMA AppendSeq ==
  ASSUME NEW S, NEW s \in Seq(S), NEW e \in S
  PROVE  Append(s, e) \in Seq(S) /\ Append(s, e) # <<>>
  <1>1. Append(s, e) \in Seq(S)
    OBVIOUS
  <1>2. Len(Append(s, e)) = Len(s) + 1 /\ Len(s) \in Nat
    BY LenProperties
  <1>3. Len(Append(s, e)) # 0
    BY <1>2
  <1> QED BY <1>1, <1>3, EmptySeq

LEMMA EnvironmentInv == ASSUME IInv, Environment PROVE IInv'
  <1> USE DEF poolVars, workerVars, mainVars, envVars
  <1>1. ASSUME NEW c \in Clients, Connect(c) PROVE IInv'
    <2>0. backlog \in Seq(Clients)
      BY DEF IInv, TypeOK
    <2>1. Append(backlog, c) \in Seq(Clients) /\ Append(backlog, c) # <<>>
      BY <2>0, AppendSeq
    <2>2. TypeOK'
      BY <1>1, <2>1 DEF Connect, IInv, TypeOK
    <2>3. EventsSound'
      BY <1>1, <2>1 DEF Connect, IInv, EventsSound
    <2> QED BY <1>1, <2>2, <2>3
            DEF Connect, IInv, MutexSound, WorkerHolds, MainHolds, Running, Stopped,
                Created, Joined, FreedAfterJoin, FdsCoverSends, Sending, At
  <1>2. ASSUME \/ \E c \in Clients : Leave(c)
               \/ sigfunc
        PROVE  IInv'
    <2>1. UNCHANGED <<poolVars, workerVars, mainVars, backlog, cstate, fds>>
      BY <1>2 DEF Leave, sigfunc
    <2>2. /\ gone' \in SUBSET Clients /\ exitpipe' \in 0..MaxSignals
      <3>1. CASE \E c \in Clients : Leave(c)
        BY <3>1 DEF Leave, IInv, TypeOK
      <3>2. CASE sigfunc
        BY <3>2, PoolAssumption DEF sigfunc, IInv, TypeOK
      <3> QED BY <1>2, <3>1, <3>2
    <2>3. TypeOK'
      BY <2>1, <2>2 DEF IInv, TypeOK
    <2> QED BY <2>1, <2>3
            DEF IInv, MutexSound, WorkerHolds, MainHolds, Running, Stopped,
                Created, Joined, FreedAfterJoin, EventsSound, FdsCoverSends,
                Sending, At
  <1> QED BY <1>1, <1>2 DEF Environment

LEMMA StutterInv == ASSUME IInv, UNCHANGED vars PROVE IInv'
  BY DEF vars, poolVars, workerVars, mainVars, envVars, IInv, TypeOK, MutexSound,
         WorkerHolds, MainHolds, Running, Stopped, Created, Joined,
         FreedAfterJoin, EventsSound, FdsCoverSends, Sending, At

THEOREM Inductive == Spec => []IInv
  <1>1. IInv /\ [Next]_vars => IInv'
    BY WorkerInv, MainInv, EnvironmentInv, StutterInv DEF Next
  <1> QED BY InitInv, <1>1, PTL DEF Spec

(* Every variable keeps its type: the queue respects TASKQUECAPACITY and the *)
(* process its limit of descriptors.                                         *)
THEOREM TypeCorrect == Spec => []TypeOK
  BY Inductive, PTL DEF IInv

(* The mutex is held exactly by the thread in its critical section, and no   *)
(* thread exits with it.                                                     *)
THEOREM MutexCorrect == Spec => []MutexSound
  BY Inductive, PTL DEF IInv

(* The pool is freed only after all its threads have ended.                  *)
THEOREM FreedLast == Spec => []FreedAfterJoin
  BY Inductive, PTL DEF IInv

-----------------------------------------------------------------------------
(* NoLostWakeup is inductive beside IInv.                                    *)

(* The lengths and counts that NoLostWakeup compares are numbers.            *)
LEMMA CountTypes ==
  ASSUME IInv
  PROVE  Len(queue) \in Nat /\ Cardinality(Awake) \in Nat
  <1>1. Len(queue) \in Nat
    BY LenProperties DEF IInv, TypeOK
  <1>2. IsFiniteSet(Workers)
    BY FS_Interval, PoolAssumption DEF Workers
  <1>3. Awake \in SUBSET Workers
    BY DEF Awake
  <1> QED BY <1>1, <1>2, <1>3, FS_Subset, FS_CardinalityType

Goes(w, from, to) == wpc[w] = from /\ wpc' = [wpc EXCEPT ![w] = to]

LEMMA AwakeMove ==
  ASSUME IInv, NEW w \in Workers, NEW from, NEW to, Goes(w, from, to)
  PROVE  Cardinality(Awake') = Cardinality(Awake)
              - (IF from \in {"relock", "dequeue"} THEN 1 ELSE 0)
              + (IF to \in {"relock", "dequeue"} THEN 1 ELSE 0)
  <1> DEFINE G == {"relock", "dequeue"}
  <1>1. \A x \in Workers : wpc'[x] = IF x = w THEN to ELSE wpc[x]
    BY DEF Goes, IInv, TypeOK
  <1>2. /\ Awake = At(Workers, wpc, G)
        /\ Awake' = At(Workers, wpc', G)
        /\ wpc[w] \in G <=> from \in {"relock", "dequeue"}
        /\ to \in G <=> to \in {"relock", "dequeue"}
    BY DEF Goes, Awake, At
  <1> HIDE DEF G
  <1>3. /\ Cardinality(At(Workers, wpc, G)) \in Nat
        /\ Cardinality(At(Workers, wpc', G)) =
             Cardinality(At(Workers, wpc, G))
               - (IF wpc[w] \in G THEN 1 ELSE 0) + (IF to \in G THEN 1 ELSE 0)
    BY <1>1, CountMove
  <1> QED BY <1>2, <1>3

(* A worker that moves between places where it is neither asleep nor awake   *)
(* for a signal leaves the balance as it is; so does waking one more.        *)
LEMMA BalanceKept ==
  ASSUME IInv, NoLostWakeup, NEW w \in Workers, NEW from, NEW to,
         W(w, from, to), UNCHANGED <<queue, mpc>>, to # "blocked",
         from \in {"relock", "dequeue"} => to \in {"relock", "dequeue"}
  PROVE  NoLostWakeup'
  <1>1. /\ wpc[w] = from /\ wpc' = [wpc EXCEPT ![w] = to] /\ Running
        /\ wpc \in [Workers -> WorkerPlaces]
    BY DEF W, IInv, TypeOK
  <1>2. Goes(w, from, to)
    BY <1>1 DEF Goes
  <1>3. Cardinality(Awake') >= Cardinality(Awake) /\ Cardinality(Awake') \in Int
    BY <1>2, AwakeMove, CountTypes
  <1>4. Blocked' # {} => Blocked # {}
    BY <1>1 DEF Blocked
  <1> QED BY <1>1, <1>3, <1>4, CountTypes DEF NoLostWakeup

LEMMA WorkerWakeup ==
  ASSUME IInv, NoLostWakeup, NEW w \in Workers, Worker(w)
  PROVE  NoLostWakeup'
  <1> USE DEF poolVars, workerVars, mainVars, envVars
  <1>1. CASE Lock(w)
    BY <1>1, BalanceKept DEF Lock
  <1>2. CASE CheckFlag(w)
    BY <1>2, BalanceKept DEF CheckFlag
  <1>3. CASE WaitIfEmpty(w)
    <2>1. CASE W(w, "empty", "dequeue")
      BY <1>3, <2>1, BalanceKept DEF WaitIfEmpty
    <2>2. CASE W(w, "empty", "blocked") /\ queue = <<>>
      <3>1. queue' = <<>> /\ wpc' = [wpc EXCEPT ![w] = "blocked"] /\ wpc[w] = "empty"
        BY <1>3, <2>2 DEF WaitIfEmpty, W
      <3>2. Cardinality(Awake') = Cardinality(Awake)
        <4>1. Goes(w, "empty", "blocked")
          BY <3>1 DEF Goes
        <4> QED BY <4>1, AwakeMove, CountTypes
      <3> QED BY <3>1, <3>2, CountTypes DEF NoLostWakeup
    <2> QED BY <1>3, <2>1, <2>2 DEF WaitIfEmpty
  <1>4. CASE SpuriousWakeup(w)
    BY <1>4, BalanceKept DEF SpuriousWakeup
  <1>5. CASE Relock(w)
    BY <1>5, BalanceKept DEF Relock
  <1>6. CASE Dequeue(w)
    <2>1. PICK to \in {"open", "lock"} :
            /\ wpc[w] = "dequeue" /\ wpc' = [wpc EXCEPT ![w] = to] /\ Running
            /\ UNCHANGED mpc
      BY <1>6 DEF Dequeue, W
    <2>2. Cardinality(Awake') = Cardinality(Awake) - 1
      <3>1. Goes(w, "dequeue", to)
        BY <2>1 DEF Goes
      <3> QED BY <3>1, AwakeMove, CountTypes
    <2>3. w \in Awake /\ Cardinality(Awake) >= 1
      <3>1. w \in Awake
        BY <2>1 DEF Awake
      <3>2. IsFiniteSet(Awake)
        <4>1. IsFiniteSet(Workers)
          BY FS_Interval, PoolAssumption DEF Workers
        <4> QED BY <4>1, FS_Subset DEF Awake
      <3>3. Cardinality(Awake) # 0
        BY <3>1, <3>2, FS_EmptySet
      <3> QED BY <3>1, <3>3, CountTypes
    <2>4. Blocked' # {} => Blocked # {}
      BY <2>1 DEF Blocked, IInv, TypeOK
    <2>5. CASE queue # <<>>
      <3>1. Len(queue') = Len(queue) - 1
        BY <1>6, <2>5, HeadTailProperties DEF Dequeue, IInv, TypeOK
      <3> QED BY <2>1, <2>2, <2>4, <3>1, CountTypes DEF NoLostWakeup
    <2>6. CASE queue = <<>>
      <3>1. Len(queue') = 0
        BY <1>6, <2>6, EmptySeq DEF Dequeue
      <3> QED BY <2>1, <2>2, <2>3, <3>1, CountTypes DEF NoLostWakeup
    <2> QED BY <2>5, <2>6
  <1>7. CASE OpenFile(w)
    BY <1>7, BalanceKept DEF OpenFile
  <1>8. CASE SendDone(w)
    BY <1>8, BalanceKept DEF SendDone
  <1>9. CASE SendError(w)
    BY <1>9, BalanceKept DEF SendError
  <1>10. CASE SendKilled(w)
    BY <1>10 DEF SendKilled, NoLostWakeup, Running, Stopped
  <1> QED BY <1>1, <1>2, <1>3, <1>4, <1>5, <1>6, <1>7, <1>8, <1>9, <1>10
          DEF Worker

LEMMA MainWakeup ==
  ASSUME IInv, NoLostWakeup, MainThread
  PROVE  NoLostWakeup'
  <1> USE DEF poolVars, workerVars, mainVars, envVars, M
  <1>1. CASE CreateThread
    <2>1. CASE UNCHANGED wpc
      BY <1>1, <2>1 DEF CreateThread, NoLostWakeup, Blocked, Awake, Running, Stopped
    <2>2. CASE i \in Workers /\ wpc' = [wpc EXCEPT ![i] = "lock"]
      <3>1. /\ wpc[i] = "new" /\ wpc' = [wpc EXCEPT ![i] = "lock"]
            /\ mpc = "create" /\ mpc' # "signal" /\ UNCHANGED queue
            /\ wpc \in [Workers -> WorkerPlaces]
        BY <1>1, <2>2 DEF CreateThread, IInv, Created, TypeOK, Workers
      <3>2. Cardinality(Awake') = Cardinality(Awake)
        <4>1. Goes(i, "new", "lock")
          BY <3>1 DEF Goes
        <4> QED BY <2>2, <4>1, AwakeMove, CountTypes
      <3>3. Blocked' # {} => Blocked # {}
        BY <3>1 DEF Blocked
      <3> QED BY <3>1, <3>2, <3>3 DEF NoLostWakeup, Running, Stopped
    <2> QED BY <1>1, <2>1, <2>2 DEF CreateThread
  <1>2. CASE Enqueue
    <2>1. Len(queue') <= Len(queue) + 1 /\ Len(queue') \in Nat
      <3>1. mconfd \in Confds
        BY <1>2 DEF Enqueue, IInv, EventsSound
      <3>2. Len(Append(queue, mconfd)) = Len(queue) + 1
        BY <3>1 DEF IInv, TypeOK
      <3> QED BY <1>2, <3>2, CountTypes DEF Enqueue
    <2>2. /\ mpc = "enqueue" /\ mpc' = "signal" /\ UNCHANGED wpc
          /\ Awake' = Awake /\ Blocked' = Blocked
      BY <1>2 DEF Enqueue, Awake, Blocked
    <2> QED BY <2>1, <2>2, CountTypes DEF NoLostWakeup, Running, Stopped
  <1>3. CASE SignalAndUnlock
    <2>1. mpc = "signal" /\ mpc' = "dispatch" /\ UNCHANGED queue
      BY <1>3 DEF SignalAndUnlock
    <2>2. CASE Blocked = {} /\ UNCHANGED wpc
      BY <2>2 DEF NoLostWakeup, Blocked
    <2>3. ASSUME NEW w \in Blocked, wpc' = [wpc EXCEPT ![w] = "relock"]
          PROVE  NoLostWakeup'
      <3>1. w \in Workers /\ wpc[w] = "blocked"
        BY DEF Blocked
      <3>2. Cardinality(Awake') = Cardinality(Awake) + 1
        <4>1. Goes(w, "blocked", "relock")
          BY <2>3, <3>1 DEF Goes
        <4> QED BY <3>1, <4>1, AwakeMove, CountTypes
      <3> QED BY <2>1, <3>1, <3>2, CountTypes DEF NoLostWakeup, Running, Stopped
    <2> QED BY <1>3, <2>2, <2>3 DEF SignalAndUnlock
  <1>4. CASE Broadcast
    <2>1. Blocked' = {}
      BY <1>4 DEF Broadcast, Blocked, IInv, TypeOK
    <2> QED BY <2>1 DEF NoLostWakeup
  <1>5. CASE Destroy \/ Exit
    <2>1. \/ queue' = <<>> /\ UNCHANGED wpc /\ mpc' = "close"
          \/ mpc' = "exited"
      BY <1>5 DEF Destroy, Exit
    <2>2. Awake' = Awake \/ mpc' = "exited"
      BY <2>1 DEF Awake
    <2> QED BY <2>1, <2>2, CountTypes DEF NoLostWakeup, Running, Stopped
  <1>6. ASSUME \/ StartPool \/ EpollWait \/ DispatchEnd \/ Accept \/ MainLock
               \/ ExitFlag \/ Join
        PROVE  NoLostWakeup'
    <2>1. UNCHANGED <<queue, wpc>> /\ mpc # "signal" /\ mpc' # "signal" /\ Running
      BY <1>6
      DEF StartPool, EpollWait, DispatchEnd, Accept, MainLock, ExitFlag, Join,
          Running, Stopped
    <2>2. Awake' = Awake /\ Blocked' = Blocked
      BY <2>1 DEF Awake, Blocked
    <2> QED BY <2>1, <2>2 DEF NoLostWakeup
  <1> QED BY <1>1, <1>2, <1>3, <1>4, <1>5, <1>6 DEF MainThread

LEMMA OtherWakeup ==
  ASSUME NoLostWakeup, Environment \/ UNCHANGED vars
  PROVE  NoLostWakeup'
  <1>1. UNCHANGED <<queue, wpc, mpc>>
    BY DEF Environment, Connect, Leave, sigfunc,
           vars, poolVars, workerVars, mainVars
  <1>2. Awake' = Awake /\ Blocked' = Blocked
    BY <1>1 DEF Awake, Blocked
  <1> QED BY <1>1, <1>2 DEF NoLostWakeup, Running, Stopped

(* No signal is lost: while a worker sleeps, as many are awake as there are  *)
(* descriptors in the queue, whatever the number of threads and clients.     *)
THEOREM WakeupNeverLost == Spec => []NoLostWakeup
  <1>1. Init => NoLostWakeup
    BY DEF Init, NoLostWakeup, Blocked
  <1>2. IInv /\ NoLostWakeup /\ [Next]_vars => NoLostWakeup'
    BY WorkerWakeup, MainWakeup, OtherWakeup DEF Next
  <1> QED BY <1>1, <1>2, Inductive, PTL DEF Spec

-----------------------------------------------------------------------------
(* HandedOnce is inductive beside IInv once it is known that a worker has a  *)
(* descriptor only while it sends, and main only until it has queued it.     *)
TasksSent == \A w \in Workers : task[w] # NoTask => wpc[w] \in {"open", "send"}
Accepted == mconfd # NoTask => mpc \in {"mlock", "enqueue", "killed"}
Handing == TasksSent /\ Accepted /\ HandedOnce

LEMMA PlaceTypes ==
  ASSUME IInv, NEW c
  PROVE  /\ Cardinality(InBacklog(c)) \in Nat
         /\ Cardinality(InQueue(c)) \in Nat
         /\ Cardinality(Holders(c)) \in Nat
  <1>1. /\ InBacklog(c) = Occurrences(backlog, c)
        /\ InQueue(c) = Occurrences(queue, c)
        /\ Holders(c) = At(Workers, task, {c})
    BY DEF InBacklog, InQueue, Holders, Occurrences, At
  <1>2. backlog \in Seq(Clients) /\ queue \in Seq(Confds)
    BY DEF IInv, TypeOK
  <1> QED BY <1>1, <1>2, OccursFinite, WorkersFinite, AtFinite

(* How each part of Places changes with the variable that it counts in.      *)
LEMMA QueueMove ==
  ASSUME IInv, NEW c
  PROVE  /\ \A e \in Confds : queue' = Append(queue, e) =>
              Cardinality(InQueue(c)') =
                Cardinality(InQueue(c)) + (IF e = c THEN 1 ELSE 0)
         /\ queue # <<>> /\ queue' = Tail(queue) =>
              Cardinality(InQueue(c)') =
                Cardinality(InQueue(c)) - (IF Head(queue) = c THEN 1 ELSE 0)
  <1>1. InQueue(c) = Occurrences(queue, c) /\ InQueue(c)' = Occurrences(queue', c)
    BY DEF InQueue, Occurrences
  <1>2. queue \in Seq(Confds)
    BY DEF IInv, TypeOK
  <1>3. \A e \in Confds :
          Cardinality(Occurrences(Append(queue, e), c)) =
            Cardinality(Occurrences(queue, c)) + (IF e = c THEN 1 ELSE 0)
    BY <1>2, OccursAppend
  <1>4. queue # <<>> =>
          Cardinality(Occurrences(Tail(queue), c)) =
            Cardinality(Occurrences(queue, c)) - (IF Head(queue) = c THEN 1 ELSE 0)
    BY <1>2, OccursTail
  <1> QED BY <1>1, <1>3, <1>4

LEMMA BacklogMove ==
  ASSUME IInv, NEW c
  PROVE  /\ \A e \in Clients : backlog' = Append(backlog, e) =>
              Cardinality(InBacklog(c)') =
                Cardinality(InBacklog(c)) + (IF e = c THEN 1 ELSE 0)
         /\ backlog # <<>> /\ backlog' = Tail(backlog) =>
              Cardinality(InBacklog(c)') =
                Cardinality(InBacklog(c)) - (IF Head(backlog) = c THEN 1 ELSE 0)
  <1>1. /\ InBacklog(c) = Occurrences(backlog, c)
        /\ InBacklog(c)' = Occurrences(backlog', c)
    BY DEF InBacklog, Occurrences
  <1>2. backlog \in Seq(Clients)
    BY DEF IInv, TypeOK
  <1>3. \A e \in Clients :
          Cardinality(Occurrences(Append(backlog, e), c)) =
            Cardinality(Occurrences(backlog, c)) + (IF e = c THEN 1 ELSE 0)
    BY <1>2, OccursAppend
  <1>4. backlog # <<>> =>
          Cardinality(Occurrences(Tail(backlog), c)) =
            Cardinality(Occurrences(backlog, c)) - (IF Head(backlog) = c THEN 1 ELSE 0)
    BY <1>2, OccursTail
  <1> QED BY <1>1, <1>3, <1>4

Takes(w, t) == task' = [task EXCEPT ![w] = t]

LEMMA HoldersMove ==
  ASSUME IInv, NEW c, NEW w \in Workers, NEW t, Takes(w, t)
  PROVE  Cardinality(Holders(c)') =
           Cardinality(Holders(c)) - (IF task[w] = c THEN 1 ELSE 0)
                                   + (IF t = c THEN 1 ELSE 0)
  <1>1. /\ Holders(c) = At(Workers, task, {c})
        /\ Holders(c)' = At(Workers, task', {c})
    BY DEF Holders, At
  <1>2. \A x \in Workers : task'[x] = IF x = w THEN t ELSE task[x]
    BY DEF Takes, IInv, TypeOK
  <1> DEFINE G == {c}
  <1>3. /\ Holders(c) = At(Workers, task, G)
        /\ Holders(c)' = At(Workers, task', G)
        /\ task[w] \in G <=> task[w] = c
        /\ t \in G <=> t = c
    BY <1>1
  <1> HIDE DEF G
  <1>4. Cardinality(At(Workers, task', G)) =
          Cardinality(At(Workers, task, G))
            - (IF task[w] \in G THEN 1 ELSE 0) + (IF t \in G THEN 1 ELSE 0)
    BY <1>2, CountMove
  <1> QED BY <1>3, <1>4

(* A step that leaves every descriptor where it is.                          *)
LEMMA NothingHanded ==
  ASSUME Handing, UNCHANGED <<queue, backlog, task, mconfd, cstate>>,
         mpc \in {"close", "exited"} => mpc' \in {"close", "exited"}
  PROVE  HandedOnce'
  <1>1. \A c \in Clients : Places(c)' = Places(c)
    BY DEF Places, InBacklog, InQueue, Holders
  <1> QED BY <1>1 DEF Handing, HandedOnce

LEMMA TasksMove ==
  ASSUME IInv, Handing, NEW w \in Workers, NEW from, NEW to, W(w, from, to),
         UNCHANGED <<mpc, mconfd>>,
         \/ UNCHANGED task /\ (from \in {"open", "send"} => to \in {"open", "send"})
         \/ \E t : Takes(w, t)
                   /\ (t # NoTask => to \in {"open", "send"})
  PROVE  TasksSent' /\ Accepted'
  BY DEF W, Takes, Handing, TasksSent, Accepted, IInv, TypeOK

(* A worker that lets go of its descriptor ends that client's waiting.       *)
LEMMA TaskEnds ==
  ASSUME IInv, Handing, NEW w \in Workers, NEW from, NEW result,
         from \in {"open", "send"}, result \in {"served", "failed"},
         W(w, from, "lock"), Takes(w, NoTask),
         Outcome(w, result), UNCHANGED <<queue, backlog, mconfd, mpc>>
  PROVE  HandedOnce'
  <1> SUFFICES ASSUME mpc \notin {"close", "exited"}, NEW c \in Clients
               PROVE  Places(c)' = IF cstate'[c] = "pending" THEN 1 ELSE 0
    BY DEF HandedOnce
  <1>1. Places(c) = IF cstate[c] = "pending" THEN 1 ELSE 0
    BY DEF Handing, HandedOnce
  <1>2. /\ InBacklog(c)' = InBacklog(c) /\ InQueue(c)' = InQueue(c)
        /\ c # NoTask
    BY PoolAssumption DEF InBacklog, InQueue
  <1>3. Cardinality(Holders(c)') =
          Cardinality(Holders(c)) - (IF task[w] = c THEN 1 ELSE 0)
    BY <1>2, HoldersMove, PlaceTypes
  <1>4. cstate'[c] = IF task[w] = c THEN result ELSE cstate[c]
    BY DEF Outcome, IInv, TypeOK
  <1>5. Places(c)' = Places(c) - (IF task[w] = c THEN 1 ELSE 0)
    BY <1>2, <1>3, PlaceTypes DEF Places
  <1>6. task[w] = c => Cardinality(Holders(c)) # 0
    <2>1. IsFiniteSet(Holders(c))
      BY WorkersFinite, FS_Subset DEF Holders
    <2> QED BY <2>1, FS_EmptySet DEF Holders
  <1>7. task[w] = c => Places(c) = 1
    BY <1>1, <1>6, PlaceTypes DEF Places
  <1> QED BY <1>1, <1>4, <1>5, <1>7

LEMMA WorkerHands == ASSUME IInv, Handing, NEW w \in Workers, Worker(w)
                     PROVE  Handing'
  <1> USE DEF poolVars, workerVars, mainVars, envVars
  <1>1. CASE \/ Lock(w) \/ CheckFlag(w) \/ WaitIfEmpty(w) \/ SpuriousWakeup(w)
             \/ Relock(w)
    <2>1. PICK from, to : /\ W(w, from, to) /\ from \notin {"open", "send"}
      BY <1>1 DEF Lock, CheckFlag, WaitIfEmpty, SpuriousWakeup, Relock
    <2>2. UNCHANGED <<queue, backlog, task, mconfd, cstate, mpc>>
      BY <1>1 DEF Lock, CheckFlag, WaitIfEmpty, SpuriousWakeup, Relock
    <2>3. TasksSent' /\ Accepted'
      BY <2>1, <2>2, TasksMove
    <2> QED BY <2>2, <2>3, NothingHanded DEF Handing
  <1>2. CASE Dequeue(w) /\ queue = <<>>
    <2>1. /\ W(w, "dequeue", "lock")
          /\ UNCHANGED <<queue, backlog, task, mconfd, cstate, mpc>>
      BY <1>2 DEF Dequeue
    <2>2. TasksSent' /\ Accepted'
      BY <2>1, TasksMove
    <2> QED BY <2>1, <2>2, NothingHanded DEF Handing
  <1>3. CASE Dequeue(w) /\ queue # <<>>
    <2>1. /\ W(w, "dequeue", "open") /\ queue' = Tail(queue)
          /\ Takes(w, Head(queue))
          /\ UNCHANGED <<backlog, mconfd, cstate, mpc>>
      BY <1>3 DEF Dequeue, Takes
    <2>2. task[w] = NoTask
      BY <2>1 DEF W, Handing, TasksSent
    <2>3. TasksSent' /\ Accepted'
      BY <2>1, TasksMove
    <2>4. ASSUME NEW c \in Clients PROVE Places(c)' = Places(c)
      <3>1. InBacklog(c)' = InBacklog(c) /\ c # NoTask
        BY <2>1, PoolAssumption DEF InBacklog
      <3>2. Cardinality(Holders(c)') =
              Cardinality(Holders(c)) + (IF Head(queue) = c THEN 1 ELSE 0)
        BY <2>1, <2>2, <3>1, HoldersMove, PlaceTypes
      <3>3. Cardinality(InQueue(c)') =
              Cardinality(InQueue(c)) - (IF Head(queue) = c THEN 1 ELSE 0)
        BY <1>3, <2>1, QueueMove
      <3> QED BY <2>1, <3>1, <3>2, <3>3, PlaceTypes DEF Places
    <2> QED BY <2>1, <2>3, <2>4 DEF Handing, HandedOnce
  <1>4. CASE OpenFile(w)
    <2>1. CASE /\ W(w, "open", "send")
               /\ UNCHANGED <<queue, backlog, task, mconfd, cstate, mpc>>
      <3>1. TasksSent' /\ Accepted'
        BY <2>1, TasksMove
      <3> QED BY <2>1, <3>1, NothingHanded DEF Handing
    <2>2. CASE /\ W(w, "open", "lock") /\ Outcome(w, "failed")
               /\ Takes(w, NoTask)
               /\ UNCHANGED <<queue, backlog, mconfd, mpc>>
      <3>1. TasksSent' /\ Accepted'
        BY <2>2, TasksMove
      <3> QED BY <2>2, <3>1, TaskEnds DEF Handing
    <2> QED BY <1>4, <2>1, <2>2 DEF OpenFile, Takes
  <1>5. CASE SendDone(w) \/ SendError(w)
    <2>1. PICK result \in {"served", "failed"} :
            /\ W(w, "send", "lock") /\ Outcome(w, result)
            /\ Takes(w, NoTask)
            /\ UNCHANGED <<queue, backlog, mconfd, mpc>>
      BY <1>5 DEF SendDone, SendError, Takes
    <2>2. TasksSent' /\ Accepted'
      BY <2>1, TasksMove
    <2> QED BY <2>1, <2>2, TaskEnds DEF Handing
  <1>6. CASE SendKilled(w)
    <2>1. /\ UNCHANGED <<queue, backlog, task, mconfd, cstate, wpc>>
          /\ mpc' = "killed" /\ wpc[w] = "send"
      BY <1>6 DEF SendKilled
    <2>2. mpc \notin {"close", "exited"}
      BY <2>1 DEF IInv, FreedAfterJoin
    <2>3. TasksSent' /\ Accepted'
      BY <2>1 DEF Handing, TasksSent, Accepted
    <2> QED BY <2>1, <2>2, <2>3, NothingHanded DEF Handing
  <1> QED BY <1>1, <1>2, <1>3, <1>4, <1>5, <1>6 DEF Worker

LEMMA MainHands == ASSUME IInv, Handing, MainThread PROVE Handing'
  <1> USE DEF poolVars, workerVars, mainVars, envVars, M
  <1>1. TasksSent'
    <2>1. UNCHANGED task
      BY DEF MainThread, StartPool, CreateThread, EpollWait, DispatchEnd, Accept,
             MainLock, Enqueue, SignalAndUnlock, ExitFlag, Broadcast, Join,
             Destroy, Exit
    <2>2. \A w \in Workers : wpc[w] \in {"open", "send"} => wpc'[w] = wpc[w]
      <3>1. CASE CreateThread
        BY <3>1 DEF CreateThread, IInv, TypeOK, Created
      <3>2. CASE SignalAndUnlock \/ Broadcast
        BY <3>2 DEF SignalAndUnlock, Broadcast, Blocked, IInv, TypeOK
      <3>3. ASSUME ~CreateThread, ~(SignalAndUnlock \/ Broadcast)
            PROVE  UNCHANGED wpc
        BY <3>3
        DEF MainThread, StartPool, EpollWait, DispatchEnd, Accept, MainLock,
            Enqueue, ExitFlag, Join, Destroy, Exit
      <3> QED BY <3>1, <3>2, <3>3
    <2> QED BY <2>1, <2>2 DEF Handing, TasksSent
  <1>2. CASE Accept
    <2>1. mpc = "dispatch" /\ mpc' = "mlock" /\ UNCHANGED <<queue, task, cstate>>
      BY <1>2 DEF Accept
    <2>2. mconfd = NoTask
      BY <2>1 DEF Handing, Accepted
    <2>3. ASSUME NEW c \in Clients PROVE Places(c)' = Places(c)
      <3>1. InQueue(c)' = InQueue(c) /\ Holders(c)' = Holders(c)
        BY <2>1 DEF InQueue, Holders
      <3>2. c # NoTask /\ c # BadFd
        BY PoolAssumption
      <3>3. CASE backlog' = Tail(backlog) /\ mconfd' = Head(backlog)
        <4>1. backlog # <<>>
          BY <1>2 DEF Accept, IInv, TypeOK, EventsSound
        <4>2. Cardinality(InBacklog(c)') =
                Cardinality(InBacklog(c)) - (IF Head(backlog) = c THEN 1 ELSE 0)
          BY <3>3, <4>1, BacklogMove
        <4> QED BY <2>2, <3>1, <3>2, <3>3, <4>2, PlaceTypes DEF Places
      <3>4. CASE UNCHANGED backlog /\ mconfd' = BadFd
        <4>1. InBacklog(c)' = InBacklog(c)
          BY <3>4 DEF InBacklog
        <4> QED BY <2>2, <3>1, <3>2, <3>4, <4>1 DEF Places
      <3> QED BY <1>2, <3>3, <3>4 DEF Accept
    <2> QED BY <1>1, <2>1, <2>3 DEF Handing, HandedOnce, Accepted
  <1>3. CASE Enqueue
    <2>1. /\ mpc = "enqueue" /\ mpc' = "signal" /\ mconfd' = NoTask
          /\ UNCHANGED <<task, backlog>> /\ mconfd \in Confds
      BY <1>3 DEF Enqueue, IInv, EventsSound
    <2>2. ASSUME NEW c \in Clients
          PROVE  Places(c)' = IF cstate'[c] = "pending" THEN 1 ELSE 0
      <3>1. InBacklog(c)' = InBacklog(c) /\ Holders(c)' = Holders(c)
        BY <2>1 DEF InBacklog, Holders
      <3>2. c # NoTask
        BY PoolAssumption
      <3>3. Places(c) = IF cstate[c] = "pending" THEN 1 ELSE 0
        BY <2>1 DEF Handing, HandedOnce
      <3>4. CASE queue' = Append(queue, mconfd) /\ UNCHANGED cstate
        <4>1. Cardinality(InQueue(c)') =
                Cardinality(InQueue(c)) + (IF mconfd = c THEN 1 ELSE 0)
          BY <2>1, <3>4, QueueMove
        <4>2. Places(c)' = Places(c)
          BY <2>1, <3>1, <3>2, <4>1, PlaceTypes DEF Places
        <4> QED BY <3>3, <3>4, <4>2
      <3>5. CASE /\ UNCHANGED queue
                 /\ cstate' = IF mconfd \in Clients
                                THEN [cstate EXCEPT ![mconfd] = "dropped"] ELSE cstate
        <4>1. InQueue(c)' = InQueue(c)
          BY <3>5 DEF InQueue
        <4>2. cstate'[c] = IF mconfd = c THEN "dropped" ELSE cstate[c]
          BY <3>5 DEF IInv, TypeOK
        <4>3. Places(c)' = Places(c) - (IF mconfd = c THEN 1 ELSE 0)
          BY <2>1, <3>1, <3>2, <4>1, PlaceTypes DEF Places
        <4>4. mconfd = c => Places(c) = 1
          BY <3>3, PlaceTypes DEF Places
        <4> QED BY <3>3, <4>2, <4>3, <4>4
      <3> QED BY <1>3, <3>4, <3>5 DEF Enqueue
    <2> QED BY <1>1, <2>1, <2>2 DEF Handing, HandedOnce, Accepted
  <1>4. CASE Destroy \/ Exit
    <2>1. mpc' \in {"close", "exited"} /\ UNCHANGED mconfd
          /\ mpc \in {"destroy", "close"}
      BY <1>4 DEF Destroy, Exit
    <2>2. Accepted'
      BY <2>1 DEF Handing, Accepted
    <2> QED BY <1>1, <2>1, <2>2 DEF Handing, HandedOnce
  <1>5. ASSUME \/ StartPool \/ CreateThread \/ EpollWait \/ DispatchEnd
               \/ MainLock \/ SignalAndUnlock \/ ExitFlag \/ Broadcast \/ Join
        PROVE  Handing'
    <2>1. /\ UNCHANGED <<queue, backlog, task, mconfd, cstate>>
          /\ mpc \notin {"close", "exited"}
          /\ mpc \in {"mlock", "enqueue", "killed"} =>
               mpc' \in {"mlock", "enqueue", "killed"}
      BY <1>5
      DEF StartPool, CreateThread, EpollWait, DispatchEnd, MainLock,
          SignalAndUnlock, ExitFlag, Broadcast, Join
    <2>2. Accepted'
      BY <2>1 DEF Handing, Accepted
    <2> QED BY <1>1, <2>1, <2>2, NothingHanded DEF Handing
  <1> QED BY <1>2, <1>3, <1>4, <1>5 DEF MainThread

LEMMA OtherHands == ASSUME IInv, Handing, Environment \/ UNCHANGED vars
                    PROVE  Handing'
  <1> USE DEF poolVars, workerVars, mainVars, envVars
  <1>1. UNCHANGED <<queue, task, wpc, mconfd, mpc>>
    BY DEF Environment, Connect, Leave, sigfunc, vars
  <1>2. TasksSent' /\ Accepted'
    BY <1>1 DEF Handing, TasksSent, Accepted
  <1>3. ASSUME NEW e \in Clients, Connect(e) PROVE HandedOnce'
    <2> SUFFICES ASSUME mpc \notin {"close", "exited"}, NEW c \in Clients
                 PROVE  Places(c)' = IF cstate'[c] = "pending" THEN 1 ELSE 0
      BY <1>1 DEF HandedOnce
    <2>1. Places(c) = IF cstate[c] = "pending" THEN 1 ELSE 0
      BY DEF Handing, HandedOnce
    <2>2. InQueue(c)' = InQueue(c) /\ Holders(c)' = Holders(c)
      BY <1>1 DEF InQueue, Holders
    <2>3. Cardinality(InBacklog(c)') =
            Cardinality(InBacklog(c)) + (IF e = c THEN 1 ELSE 0)
      BY <1>3, BacklogMove DEF Connect
    <2>4. Places(c)' = Places(c) + (IF e = c THEN 1 ELSE 0)
      BY <1>1, <2>2, <2>3, PlaceTypes DEF Places
    <2>5. cstate[e] = "idle" /\ cstate'[c] = IF e = c THEN "pending" ELSE cstate[c]
      BY <1>3 DEF Connect, IInv, TypeOK
    <2> QED BY <2>1, <2>4, <2>5
  <1>4. ASSUME ~\E e \in Clients : Connect(e) PROVE HandedOnce'
    <2>1. UNCHANGED <<backlog, cstate>>
      BY <1>4 DEF Environment, Leave, sigfunc, vars
    <2> QED BY <1>1, <2>1, NothingHanded
  <1> QED BY <1>2, <1>3, <1>4 DEF Handing

(* From accept() to the end of send_file every connection is in exactly one  *)
(* place, whatever the number of threads, clients and queue slots: no two    *)
(* threads send to it, and none is forgotten by an unlucky interleaving.     *)
THEOREM Handed == Spec => []HandedOnce
  <1>1. Init => Handing
    <2> SUFFICES ASSUME Init PROVE Handing
      OBVIOUS
    <2>1. TasksSent /\ Accepted
      BY DEF Init, TasksSent, Accepted
    <2>2. ASSUME NEW c \in Clients PROVE Places(c) = 0 /\ cstate[c] # "pending"
      <3>1. InBacklog(c) = {} /\ InQueue(c) = {} /\ Holders(c) = {} /\ mconfd # c
        BY PoolAssumption DEF Init, InBacklog, InQueue, Holders
      <3> QED BY <3>1, FS_EmptySet DEF Places, Init
    <2> QED BY <2>1, <2>2 DEF Handing, HandedOnce
  <1>2. IInv /\ Handing /\ [Next]_vars => Handing'
    BY WorkerHands, MainHands, OtherHands DEF Next
  <1>3. Handing => HandedOnce
    BY DEF Handing
  <1> QED BY <1>1, <1>2, <1>3, Inductive, PTL DEF Spec
=============================================================================
