---------------------------- MODULE ProgramsProofs ----------------------------
(* Of each of the small programs, the inductive invariant from which its     *)
(* type invariant and its safety properties follow; and from all of them     *)
(* together the invariants of Programs.                                      *)
EXTENDS Programs, Counting

(* A step of Programs is a step of each program, or leaves its variables. *)
LEMMA OneRuns ==
  ASSUME [Next]_vars
  PROVE  /\ [Tcp!Next]_<<program, tcpVars>>
         /\ [Udp!Next]_udpVars
         /\ [Pipe!Next]_<<program, pipeVars>>
         /\ [Download!Next]_<<program, dlVars>>
         /\ [Tickets!Next]_<<program, tkVars>>
         /\ [Pair!Next /\ program \in Pairs]_<<program, pairVars>>
         /\ [Produce!Next]_prVars
         /\ [Students!Next]_stVars
         /\ [Send!Next]_sfVars
         /\ [Thread!Next]_ptVars
         /\ [Fifo!Next]_<<program, fifoVars>>
         /\ [Signal!Next]_<<program, sigVars>>
         /\ [Msq!Next]_msqVars
         /\ [Sem!Next]_semVars
  <1>1. CASE UNCHANGED vars
    BY <1>1 DEF vars, chatVars, workVars, smallVars
  <1>2. CASE Next
    BY <1>2 DEF Next, TcpRuns, UdpRuns, PipeRuns, DownloadRuns, TicketsRun, PairRuns, ProduceRuns,
      StudentsRun, SendRuns, ThreadRuns, FifoRuns, SignalRuns, MsqRuns, SemRuns,
      chatVars, workVars, smallVars
  <1> QED BY <1>1, <1>2

-----------------------------------------------------------------------------
(* thread/saletickets.c and saletickets2.c.                                  *)

(* No more was spared than spurious wakeups allow, with what is spared when  *)
(* the setter is woken and there are tickets.                                *)
TicketsInv ==
  /\ Tickets!TypeOK
  /\ tkSpared \in Nat
  /\ tkSpared + (IF tkPc["setter"] \in {"woken", "after"} THEN tkCnt ELSE 0) <= tkSpurious * Full

LEMMA TicketsInit ==
  ASSUME Tickets!Init
  PROVE  TicketsInv
  <1>0. Full \in Nat /\ MaxSpurious \in Nat
    BY ProgramsAssumption
  <1>1. /\ Full \in Nat /\ MaxSpurious \in Nat /\ 0 * Full = 0
        /\ "setter" \in Tickets!Threads /\ "none" \notin Tickets!Threads
    <2>1. "none" \notin Windows \cup {"setter"}
      BY ProgramsAssumption
    <2>2. 0 * Full = 0
      BY <1>0
    <2> QED BY <1>0, <2>1, <2>2 DEF Tickets!Threads
  <1>2. /\ tkPc = [t \in Tickets!Threads |-> "lock"] /\ tkCnt = Full /\ tkMutex = "none"
        /\ tkSpurious = 0 /\ tkSpared = 0 /\ program \in AllPrograms
    BY DEF Tickets!Init
  <1>3. Tickets!TypeOK
    BY <1>1, <1>2 DEF Tickets!TypeOK
  <1>4. tkSpurious * Full = 0 /\ tkPc["setter"] = "lock"
    BY <1>1, <1>2
  <1> QED BY <1>2, <1>3, <1>4 DEF TicketsInv

TicketPlaces == {"lock", "body", "wait", "woken", "after", "unlock", "sleep"}

LEMMA TicketsNext ==
  ASSUME TicketsInv, [Tickets!Next]_<<program, tkVars>>
  PROVE  TicketsInv'
  <1> DEFINE Th == Windows \cup {"setter"}
             Up == {"woken", "after"}
             In == {"body", "after", "unlock"}
             L(n) == n * Full
  <1>0. /\ "none" \notin Th /\ "setter" \in Th /\ "setter" \notin Windows
        /\ Full \in Nat /\ MaxSpurious \in Nat /\ Tickets!Threads = Th
    BY ProgramsAssumption DEF Tickets!Threads
  <1>L. ASSUME NEW n \in Nat PROVE L(n) \in Nat /\ L(n + 1) = L(n) + Full
    BY <1>0
  <1>i. /\ program \in AllPrograms
        /\ tkCnt \in 0..Full /\ tkMutex \in Th \cup {"none"}
        /\ tkPc \in [Th -> TicketPlaces]
        /\ \A t \in Th : tkPc[t] \in In <=> tkMutex = t
        /\ tkSpurious \in 0..MaxSpurious /\ tkSpared \in Nat
        /\ tkSpared + (IF tkPc["setter"] \in Up THEN tkCnt ELSE 0) <= L(tkSpurious)
    BY <1>0 DEF TicketsInv, Tickets!TypeOK, TicketPlaces
  <1> DEFINE Goal ==
        /\ program' \in AllPrograms
        /\ tkCnt' \in 0..Full /\ tkMutex' \in Th \cup {"none"}
        /\ tkPc' \in [Th -> TicketPlaces]
        /\ \A t \in Th : tkPc'[t] \in In <=> tkMutex' = t
        /\ tkSpurious' \in 0..MaxSpurious /\ tkSpared' \in Nat
        /\ tkSpared' + (IF tkPc'["setter"] \in Up THEN tkCnt' ELSE 0) <= L(tkSpurious')
  <1>g. Goal => TicketsInv'
    BY <1>0 DEF TicketsInv, Tickets!TypeOK, TicketPlaces
  <1>s. /\ L(tkSpurious) \in Nat
        /\ L(tkSpurious + 1) = L(tkSpurious) + Full
    BY <1>i, <1>L
  <1> USE <1>0, <1>i, <1>s
  <1> HIDE DEF L
  <1>1. CASE UNCHANGED <<program, tkVars>>
    BY <1>1, <1>g DEF tkVars
  <1>2. ASSUME NEW t \in Th, Tickets!Lock(t) PROVE Goal
    BY <1>2 DEF Tickets!Lock, Tickets!Go, TicketPlaces
  <1>3. ASSUME NEW t \in Th, Tickets!Unlock(t) PROVE Goal
    BY <1>3 DEF Tickets!Unlock, Tickets!Go, TicketPlaces
  <1>4. ASSUME NEW t \in Th, Tickets!Sleep(t) PROVE Goal
    BY <1>4 DEF Tickets!Sleep, Tickets!Go, TicketPlaces
  <1>5. ASSUME NEW t \in Th, Tickets!SpuriousWakeup(t) PROVE Goal
    <2>1. L(tkSpurious') = L(tkSpurious) + Full
      BY <1>5 DEF Tickets!SpuriousWakeup
    <2> QED BY <1>5, <2>1 DEF Tickets!SpuriousWakeup, Tickets!Go, TicketPlaces
  <1>6. ASSUME NEW t \in Th, Tickets!Sell(t), tkCnt # 0,
               UNCHANGED <<program, tkSpurious, tkSpared>>
        PROVE  Goal
    BY <1>6 DEF Tickets!Sell, Tickets!Go, TicketPlaces
  <1>7. ASSUME NEW t \in Th, tkPc[t] = "body", Tickets!Wait(t),
               UNCHANGED <<program, tkCnt, tkSpurious, tkSpared>>
        PROVE  Goal
    BY <1>7 DEF Tickets!Wait, TicketPlaces
  <1>8. ASSUME NEW t \in Th, tkPc[t] = "body", Tickets!Wake(t, Tickets!Waiting), tkCnt = 0,
               UNCHANGED <<program, tkMutex, tkSpurious>>,
               UNCHANGED <<tkCnt, tkSpared>> \/ (t = "setter" /\ Tickets!Set)
        PROVE  Goal
    <2>1. tkPc' = [u \in Th |-> IF u = t THEN "unlock"
                                ELSE IF tkPc[u] = "wait" THEN "woken" ELSE tkPc[u]]
      BY <1>8 DEF Tickets!Wake, Tickets!Waiting
    <2>2. /\ tkPc' \in [Th -> TicketPlaces]
          /\ \A u \in Th : tkPc'[u] \in In <=> tkMutex' = u
      BY <1>8, <2>1 DEF TicketPlaces
    <2> QED BY <1>8, <2>1, <2>2 DEF Tickets!Set
  <1>9. ASSUME NEW t \in Th, Tickets!salewindow(t) PROVE Goal
    BY <1>9, <1>6, <1>8 DEF Tickets!salewindow, Tickets!Signal, Tickets!Go
  <1>10. ASSUME NEW t \in Th, Tickets!salewindow2(t) PROVE Goal
    <2>1. CASE tkPc[t] = "body" /\ tkCnt = 0 /\ Tickets!Wait(t) /\ UNCHANGED tkCnt
      BY <1>7, <1>10, <2>1 DEF Tickets!salewindow2
    <2>2. CASE tkCnt # 0 /\ Tickets!Sell(t)
      BY <1>6, <1>10, <2>2 DEF Tickets!salewindow2
    <2>3. CASE Tickets!Go(t, "after", "unlock") /\ UNCHANGED <<tkCnt, tkMutex>>
      BY <1>10, <2>3 DEF Tickets!salewindow2, Tickets!Go, TicketPlaces
    <2> QED BY <1>10, <2>1, <2>2, <2>3 DEF Tickets!salewindow2
  <1>11. ASSUME Tickets!setticket PROVE Goal
    <2>1. CASE tkPc["setter"] = "body" /\ Tickets!Wait("setter") /\ UNCHANGED <<tkCnt, tkSpared>>
      BY <1>7, <1>11, <2>1 DEF Tickets!setticket
    <2>2. CASE /\ \/ tkCnt = 0 /\ Tickets!Go("setter", "body", "unlock")
                  \/ Tickets!Go("setter", "after", "unlock")
               /\ Tickets!Set /\ UNCHANGED tkMutex
      BY <1>11, <2>2 DEF Tickets!setticket, Tickets!Go, Tickets!Set, TicketPlaces
    <2> QED BY <1>11, <2>1, <2>2 DEF Tickets!setticket, Tickets!Available
  <1>12. ASSUME Tickets!setticket2 PROVE Goal
    <2>1. CASE tkCnt = 0 /\ Tickets!Set /\ Tickets!Wake("setter", Tickets!Waiting)
      BY <1>8, <1>12, <2>1 DEF Tickets!setticket2
    <2>2. CASE Tickets!Go("setter", "body", "unlock") /\ UNCHANGED <<tkCnt, tkSpared>>
      BY <1>12, <2>2 DEF Tickets!setticket2, Tickets!Go, TicketPlaces
    <2> QED BY <1>12, <2>1, <2>2 DEF Tickets!setticket2, Tickets!Broadcast
  <1>13. CASE Tickets!Next
    <2> HIDE DEF Goal
    <2> QED BY <1>13, <1>g, <1>2, <1>3, <1>4, <1>5, <1>9, <1>10, <1>11, <1>12
          DEF Tickets!Next, Tickets!Body
  <1> QED BY <1>1, <1>13

-----------------------------------------------------------------------------
(* ipc/produce.c.                                                            *)

Adjusting(dp, dc) == [w \in {"producer", "comsumer"} |->
  IF w = "producer" THEN IF "producer" \in prAlive THEN 0 - dp ELSE 0
                    ELSE IF "comsumer" \in prAlive THEN dc ELSE 0]

(* The adjustments are what the living have done; while one or none lives,   *)
(* what the warehouse will be given back makes up for what is missing.       *)
ProduceInv ==
  /\ prProduct \in Nat /\ prWarehouse \in Nat /\ prIdle \in 0..MaxIdle
  /\ prAlive \in SUBSET {"producer", "comsumer"}
  /\ prDone \in [{"producer", "comsumer"} -> 0..SEMAEM]
  /\ prSemadj = Adjusting(prDone["producer"], prDone["comsumer"])
  /\ prAlive = {"producer", "comsumer"} =>
       /\ prProduct = prDone["producer"] - prDone["comsumer"]
       /\ prProduct + prWarehouse = Room
  /\ prAlive = {"producer"} => prWarehouse + prDone["producer"] >= Room
  /\ prAlive = {"comsumer"} => prWarehouse >= Room + prDone["comsumer"]
  /\ prAlive = {} => prWarehouse >= Room

LEMMA ProduceHas ==
  ASSUME ProduceInv
  PROVE  Produce!TypeOK /\ Produce!Stored /\ Produce!Undone /\ Produce!WorkStops
  <1>1. SEMAEM \in Nat /\ MaxIdle \in Nat /\ Room \in Nat
    BY ProgramsAssumption
  <1>2. \A w \in {"producer", "comsumer"} : prSemadj[w] \in -SEMAEM..SEMAEM
    BY <1>1 DEF ProduceInv, Adjusting
  <1> QED BY <1>1, <1>2 DEF ProduceInv, Produce!TypeOK, Produce!Stored, Produce!Undone,
            Produce!WorkStops, Produce!Workers, Produce!producer, Produce!comsumer,
            Produce!Adjustable

LEMMA ProduceInit ==
  ASSUME Produce!Init
  PROVE  ProduceInv
  <1>1. SEMAEM \in Nat /\ MaxIdle \in Nat /\ Room \in Nat
    BY ProgramsAssumption
  <1>2. /\ prProduct = 0 /\ prWarehouse = Room /\ prIdle = 0 /\ prAlive = {"producer", "comsumer"}
        /\ prSemadj = [w \in {"producer", "comsumer"} |-> 0]
        /\ prDone = [w \in {"producer", "comsumer"} |-> 0]
    BY DEF Produce!Init, Produce!Workers, Produce!producer, Produce!comsumer
  <1>3. prSemadj = Adjusting(0, 0)
    <2>1. 0 - 0 = 0
      OBVIOUS
    <2> QED BY <1>2, <2>1, Zenon DEF Adjusting
  <1>4. prDone \in [{"producer", "comsumer"} -> 0..SEMAEM]
    BY <1>1, <1>2
  <1>5. prDone["producer"] = 0 /\ prDone["comsumer"] = 0
    BY <1>2
  <1> QED BY <1>1, <1>2, <1>3, <1>4, <1>5 DEF ProduceInv

LEMMA ProduceNext ==
  ASSUME ProduceInv, [Produce!Next]_prVars
  PROVE  ProduceInv'
  <1> USE DEF Produce!Workers, Produce!producer, Produce!comsumer
  <1> DEFINE Both == {"producer", "comsumer"}
  <1>0. SEMAEM \in Nat /\ MaxIdle \in Nat /\ Room \in Nat
    BY ProgramsAssumption
  <1>1. CASE UNCHANGED prVars
    BY <1>1 DEF ProduceInv, Adjusting, prVars
  <1>2. ASSUME NEW w \in Both, NEW n, n = IF w = "producer" THEN 1 ELSE -1,
               Produce!semop(w, n)
        PROVE  ProduceInv'
    <2>1. CASE prIdle < MaxIdle /\ prIdle' = prIdle + 1
               /\ UNCHANGED <<prProduct, prWarehouse, prSemadj, prDone>>
      BY <1>0, <1>2, <2>1 DEF ProduceInv, Adjusting, Produce!semop
    <2>2. CASE /\ Produce!Adjustable(Produce!Adjusted(w, n))
               /\ prProduct' = prProduct + n /\ prWarehouse' = prWarehouse - n
               /\ prSemadj' = [prSemadj EXCEPT ![w] = Produce!Adjusted(w, n)]
               /\ prDone' = [prDone EXCEPT ![w] = @ + 1]
               /\ UNCHANGED prIdle
      <3>1. prAlive' = prAlive /\ w \in prAlive /\ prProduct + n >= 0 /\ prWarehouse - n >= 0
        BY <1>2 DEF Produce!semop, Produce!Fits
      <3>2. prDone[w] + 1 \in 0..SEMAEM
        BY <1>0, <1>2, <2>2, <3>1 DEF ProduceInv, Adjusting, Produce!Adjustable, Produce!Adjusted
      <3>3. /\ prDone' \in [Both -> 0..SEMAEM]
            /\ \A v \in Both : prDone'[v] = IF v = w THEN prDone[v] + 1 ELSE prDone[v]
        BY <1>2, <2>2, <3>2 DEF ProduceInv
      <3>4. prSemadj' = Adjusting(prDone["producer"], prDone["comsumer"])'
        <4>1. /\ DOMAIN prSemadj' = Both
              /\ \A v \in Both : prSemadj'[v] = IF v = w THEN prSemadj[v] - n ELSE prSemadj[v]
          BY <1>2, <2>2 DEF ProduceInv, Adjusting, Produce!Adjusted
        <4>2. \A v \in Both : prSemadj'[v] = Adjusting(prDone["producer"], prDone["comsumer"])'[v]
          BY <1>0, <1>2, <3>1, <3>3, <4>1 DEF ProduceInv, Adjusting
        <4>3. prSemadj' = [v \in Both |-> prSemadj'[v]]
          BY <1>2, <2>2 DEF ProduceInv, Adjusting
        <4> QED BY <4>2, <4>3 DEF Adjusting
      <3>5. prProduct' \in Nat /\ prWarehouse' \in Nat
        BY <1>2, <2>2, <3>1 DEF ProduceInv
      <3> QED BY <1>0, <1>2, <2>2, <3>1, <3>3, <3>4, <3>5 DEF ProduceInv
    <2> QED BY <1>2, <2>1, <2>2 DEF Produce!semop
  <1>3. ASSUME NEW w \in Both, Produce!end(w) PROVE ProduceInv'
    <2>1. /\ w \in prAlive /\ prAlive' = prAlive \ {w}
          /\ prSemadj' = [prSemadj EXCEPT ![w] = 0]
          /\ prDone' = prDone /\ prIdle' = prIdle
      BY <1>3 DEF Produce!end
    <2>2. prSemadj[w] = IF w = "producer" THEN 0 - prDone[w] ELSE prDone[w]
      BY <2>1, <1>3 DEF ProduceInv, Adjusting
    <2>3. /\ prProduct' \in Nat /\ prWarehouse' \in Nat
          /\ prWarehouse' >= prWarehouse - prSemadj[w]
      BY <1>0, <1>3, <2>1, <2>2 DEF ProduceInv, Produce!end, Produce!NotNegative, Produce!Adjustment
    <2>4. prSemadj' = Adjusting(prDone["producer"], prDone["comsumer"])'
      BY <2>1 DEF ProduceInv, Adjusting
    <2> DEFINE put == prDone["producer"]
               got == prDone["comsumer"]
    <2>a. put \in Nat /\ got \in Nat /\ prWarehouse \in Nat
      BY <1>0 DEF ProduceInv
    <2>b. prAlive = Both => prProduct = put - got /\ prProduct + prWarehouse = Room
      BY DEF ProduceInv
    <2>c. prAlive = Both => prWarehouse + put = Room + got
      BY <1>0, <2>a, <2>b DEF ProduceInv
    <2>d. "producer" \in prAlive /\ "comsumer" \in prAlive => prAlive = Both
      BY DEF ProduceInv
    <2> HIDE DEF put, got
    <2>5. w = "producer" /\ "comsumer" \in prAlive => prWarehouse - prSemadj[w] >= Room + got
      <3>1. w = "producer" => prSemadj[w] = 0 - put
        BY <2>2 DEF put
      <3> QED BY <1>0, <2>1, <2>a, <2>c, <2>d, <3>1
    <2>6. w = "comsumer" /\ "producer" \in prAlive => prWarehouse - prSemadj[w] >= Room - put
      <3>1. w = "comsumer" => prSemadj[w] = got
        BY <1>3, <2>2 DEF got
      <3> QED BY <1>0, <2>1, <2>a, <2>c, <2>d, <3>1
    <2>7. prAlive = {w} => prWarehouse - prSemadj[w] >= Room
      BY <1>0, <2>1, <2>2 DEF ProduceInv
    <2>8. /\ prAlive' # Both
          /\ prAlive' = {"producer"} => w = "comsumer" /\ "producer" \in prAlive
          /\ prAlive' = {"comsumer"} => w = "producer" /\ "comsumer" \in prAlive
          /\ prAlive' = {} => prAlive = {w}
          /\ prAlive' \in SUBSET Both
      BY <1>3, <2>1 DEF ProduceInv
    <2>9. /\ prDone \in [Both -> 0..SEMAEM] /\ prWarehouse - prSemadj[w] \in Int
          /\ prIdle \in 0..MaxIdle
      BY <1>0, <1>3, <2>2 DEF ProduceInv
    <2>10. /\ prAlive' = {"producer"} => prWarehouse' + put >= Room
           /\ prAlive' = {"comsumer"} => prWarehouse' >= Room + got
           /\ prAlive' = {} => prWarehouse' >= Room
      <3>1. PICK given \in Int : given = prWarehouse - prSemadj[w]
        BY <2>9
      <3>2. /\ prAlive' = {"producer"} => given >= Room - put
            /\ prAlive' = {"comsumer"} => given >= Room + got
            /\ prAlive' = {} => given >= Room
        BY <2>5, <2>6, <2>7, <2>8, <3>1, Zenon
      <3>3. prWarehouse' \in Nat /\ prWarehouse' >= given
        BY <2>3, <3>1, Zenon
      <3>4. given >= Room - put => prWarehouse' + put >= Room
        <4>1. \A a, r, d \in Nat, g \in Int : a >= g /\ g >= r - d => a + d >= r
          OBVIOUS
        <4> QED BY <1>0, <2>a, <3>3, <4>1, Zenon
      <3>5. prWarehouse' >= Room + got \/ ~(given >= Room + got)
        BY <1>0, <2>a, <3>3
      <3>6. prWarehouse' >= Room \/ ~(given >= Room)
        BY <1>0, <2>a, <3>3
      <3> QED BY <3>2, <3>4, <3>5, <3>6, Zenon
    <2> QED BY <2>1, <2>3, <2>4, <2>8, <2>9, <2>10 DEF ProduceInv, put, got
  <1>4. CASE Produce!Next
    BY <1>2, <1>3, <1>4 DEF Produce!Next, Produce!produce, Produce!comsume
  <1> QED BY <1>1, <1>4

-----------------------------------------------------------------------------
(* thread/pthread.c.                                                         *)

(* At each place of the thread: is the mutex locked, what was unlocked once  *)
(* too often, and will the handler run?                                      *)
ThreadInv ==
  /\ ptThread \in {"lock", "printf", "unlock", "exit", "handler", "ended"}
  /\ ptMutex \in BOOLEAN /\ ptPushed \in BOOLEAN /\ ptCancelled \in BOOLEAN
  /\ ptMain \in {"cancel", "join", "ended"}
  /\ ptRet \in {"none", "0", "canceled"}
  /\ ptMutex <=> ptThread \in {"printf", "unlock"} \/ (ptThread = "handler" /\ ptRet = "canceled")
  /\ ptPushed <=> ptThread \in {"printf", "unlock", "exit"}
  /\ ptRet = "none" <=> ptThread \notin {"handler", "ended"}
  /\ ptAstray = IF ptThread = "ended" /\ ptRet = "0" THEN 1 ELSE 0
  /\ ptMain = "ended" => ptThread = "ended"

LEMMA ThreadHas ==
  ASSUME ThreadInv
  PROVE  Thread!TypeOK /\ Thread!LeftUnlocked /\ Thread!UnlockedAgain
  BY DEF ThreadInv, Thread!TypeOK, Thread!LeftUnlocked, Thread!UnlockedAgain

LEMMA ThreadInit ==
  ASSUME Thread!Init
  PROVE  ThreadInv
  BY DEF ThreadInv, Thread!Init

LEMMA ThreadNext ==
  ASSUME ThreadInv, [Thread!Next]_ptVars
  PROVE  ThreadInv'
  <1>1. CASE UNCHANGED ptVars
    BY <1>1 DEF ThreadInv, ptVars
  <1>2. CASE Thread!lock
    BY <1>2 DEF ThreadInv, Thread!lock
  <1>3. CASE Thread!printf
    BY <1>3 DEF ThreadInv, Thread!printf, Thread!Exit
  <1>4. CASE Thread!unlock
    BY <1>4 DEF ThreadInv, Thread!unlock, Thread!Unlock
  <1>5. CASE Thread!pthread_exit
    BY <1>5 DEF ThreadInv, Thread!pthread_exit, Thread!Exit
  <1>6. CASE Thread!clean_func
    <2>1. /\ ptThread = "handler" /\ ptThread' = "ended" /\ ptMutex' = FALSE
          /\ UNCHANGED <<ptPushed, ptCancelled, ptMain, ptRet>>
      BY <1>6 DEF Thread!clean_func, Thread!Unlock
    <2>2. ptAstray' = IF ptRet = "canceled" THEN ptAstray ELSE ptAstray + 1
      BY <1>6, <2>1, Zenon DEF ThreadInv, Thread!clean_func, Thread!Unlock
    <2>3. ptAstray = 0 /\ ptRet \in {"0", "canceled"}
      BY <2>1 DEF ThreadInv
    <2>4. ptAstray' = IF ptRet = "0" THEN 1 ELSE 0
      BY <2>2, <2>3
    <2>5. /\ ptMutex' \in BOOLEAN /\ ptPushed' \in BOOLEAN /\ ptCancelled' \in BOOLEAN
          /\ ~ptMutex' /\ ~ptPushed'
      BY <2>1, Zenon DEF ThreadInv
    <2> QED BY <2>1, <2>3, <2>4, <2>5, Zenon DEF ThreadInv
  <1>7. CASE Thread!cancel
    BY <1>7 DEF ThreadInv, Thread!cancel
  <1>8. CASE Thread!join
    BY <1>8 DEF ThreadInv, Thread!join
  <1> QED BY <1>1, <1>2, <1>3, <1>4, <1>5, <1>6, <1>7, <1>8
        DEF Thread!Next, Thread!Thread, Thread!Main

-----------------------------------------------------------------------------
(* ipc/signal/sigaction.c and signal.c.                                      *)

(* Each ^C is pending, or was caught, or has come to nothing.                *)
SignalInv ==
  /\ program \in AllPrograms
  /\ sigPc \in {"start", "key", "keyend", "sleep", "loop"}
  /\ sigPending \in BOOLEAN /\ sigHandling \in BOOLEAN /\ sigDead \in BOOLEAN
  /\ sigInts \in 0..MaxInts /\ sigCaught \in Nat
  /\ sigCaught + (IF sigPending THEN 1 ELSE 0) <= sigInts
  /\ sigDead => sigPc \in {"start", "loop"}

LEMMA SignalHas ==
  ASSUME SignalInv
  PROVE  Signal!TypeOK /\ Signal!KeyCodeWhole
  <1>1. MaxInts \in Nat
    BY ProgramsAssumption
  <1> QED BY <1>1 DEF SignalInv, Signal!TypeOK, Signal!KeyCodeWhole

LEMMA SignalInit ==
  ASSUME Signal!Init
  PROVE  SignalInv
  <1>1. MaxInts \in Nat
    BY ProgramsAssumption
  <1>2. (IF sigPending THEN 1 ELSE 0) = 0 /\ sigPending \in BOOLEAN
    BY Zenon DEF Signal!Init
  <1>3. /\ program \in AllPrograms /\ sigPc = "start" /\ sigInts = 0 /\ sigCaught = 0
        /\ sigHandling \in BOOLEAN /\ sigDead \in BOOLEAN /\ ~sigDead
    BY Zenon DEF Signal!Init
  <1>4. sigInts \in 0..MaxInts /\ sigCaught \in Nat /\ sigCaught + 0 <= sigInts
    BY <1>1, <1>3
  <1> QED BY <1>2, <1>3, <1>4, Zenon DEF SignalInv

LEMMA SignalNext ==
  ASSUME SignalInv, [Signal!Next]_<<program, sigVars>>
  PROVE  SignalInv'
  <1>0. MaxInts \in Nat
    BY ProgramsAssumption
  <1>1. CASE UNCHANGED <<program, sigVars>>
    BY <1>1 DEF SignalInv, sigVars
  <1>2. CASE Signal!Interrupt
    BY <1>0, <1>2 DEF SignalInv, Signal!Interrupt
  <1>3. CASE Signal!deliver
    <2>1. /\ (IF sigPending THEN 1 ELSE 0) = 1 /\ (IF sigPending' THEN 1 ELSE 0) = 0
          /\ sigPending' \in BOOLEAN
      BY <1>3, Zenon DEF Signal!deliver
    <2>2. /\ sigPc \notin {"key", "keyend"}
          /\ \/ sigPc = "sleep" /\ sigHandling' = TRUE /\ sigCaught' = sigCaught + 1 /\ sigDead' = sigDead
             \/ sigPc # "sleep" /\ sigDead' = TRUE /\ sigHandling' = sigHandling /\ sigCaught' = sigCaught
          /\ program' = program /\ sigPc' = sigPc /\ sigInts' = sigInts
      BY <1>3, Zenon DEF Signal!deliver, Signal!Blocked, Signal!Caught
    <2>a. sigPc # "sleep" => sigPc \in {"start", "loop"}
      BY <2>2 DEF SignalInv
    <2>b. sigDead' = sigDead => (sigDead' => sigPc \in {"start", "loop"})
      BY Zenon DEF SignalInv
    <2>3. /\ sigHandling' \in BOOLEAN /\ sigDead' \in BOOLEAN
          /\ sigDead' => sigPc \in {"start", "loop"}
      BY <2>2, <2>a, <2>b, Zenon DEF SignalInv
    <2>4. sigCaught \in Nat /\ sigInts \in Nat /\ sigCaught + 1 <= sigInts
      BY <1>0, <2>1 DEF SignalInv
    <2>5. sigCaught' \in Nat /\ sigCaught' + 0 <= sigInts
      <3>1. sigCaught' = sigCaught + 1 \/ sigCaught' = sigCaught
        BY <2>2, Zenon
      <3> QED BY <2>4, <3>1
    <2> QED BY <2>1, <2>2, <2>3, <2>5, Zenon DEF SignalInv
  <1>4. CASE Signal!handler
    BY <1>0, <1>4 DEF SignalInv, Signal!handler
  <1>5. CASE Signal!main
    BY <1>0, <1>5 DEF SignalInv, Signal!main, Signal!Follows
  <1> QED BY <1>1, <1>2, <1>3, <1>4, <1>5 DEF Signal!Next, Signal!Process

-----------------------------------------------------------------------------
(* ipc/pipe/halfduplex and writeset.                                         *)

PageOf == [begin : 0..Page - 1, end : 1..Page]

(* halfduplex's fifo holds the word or nothing; what writeset's select saw   *)
(* is still so, for nobody else has the fifo.                                *)
FifoInv ==
  /\ program \in AllPrograms
  /\ fifoPages \in Seq(PageOf) /\ Len(fifoPages) <= Slots
  /\ \A k \in 1..Len(fifoPages) : fifoPages[k].begin < fifoPages[k].end
  /\ fifoPc \in {"open", "select", "write", "read", "ended"}
  /\ fifoReader \in {"open", "read", "ended"}
  /\ fifoRset \in BOOLEAN /\ fifoWset \in BOOLEAN /\ fifoShown \in {"none", "word", "nothing"}
  /\ program # "writeset" =>
       /\ fifoPc = "ended" \/ (fifoPc \in {"open", "write"} /\ fifoPages = <<>>)
       /\ fifoPages = <<>> \/ (Len(fifoPages) = 1 /\ fifoPages[1].begin + 1 = fifoPages[1].end)
       /\ fifoReader = "ended" =>
            fifoPc = "ended" /\ fifoPages = <<>> /\ fifoShown \in {"word", "nothing"}
  /\ program = "writeset" =>
       /\ fifoReader = "open"
       /\ fifoPc = "write" /\ fifoWset => Len(fifoPages) < Slots
       /\ fifoPc \in {"write", "read"} /\ fifoRset => fifoPages # <<>>

LEMMA FifoHas ==
  ASSUME FifoInv
  PROVE  Fifo!TypeOK /\ Fifo!NeverWaits /\ Fifo!WordOrDeath
  <1>1. Fifo!TypeOK
    BY DEF FifoInv, Fifo!TypeOK, PageOf
  <1>2. Fifo!NeverWaits
    BY DEF FifoInv, Fifo!NeverWaits, Fifo!Writes, Fifo!Fits, Fifo!Free
  <1>3. Fifo!WordOrDeath
    BY DEF FifoInv, Fifo!WordOrDeath
  <1> QED BY <1>1, <1>2, <1>3

LEMMA FifoInit ==
  ASSUME Fifo!Init
  PROVE  FifoInv
  <1>1. Slots \in Nat /\ Page \in Nat
    BY ProgramsAssumption
  <1>2. fifoPages = <<>> /\ fifoPages \in Seq(PageOf) /\ Len(fifoPages) = 0 /\ 1..0 = {}
    BY DEF Fifo!Init
  <1>3. /\ program \in AllPrograms /\ fifoRset = FALSE /\ fifoWset = FALSE /\ fifoShown = "none"
        /\ fifoPc = (IF program = "writeset" THEN "select" ELSE "open") /\ fifoReader = "open"
    BY DEF Fifo!Init
  <1>4. /\ fifoRset \in BOOLEAN /\ fifoWset \in BOOLEAN
    BY <1>3, Zenon
  <1>5. /\ Len(fifoPages) <= Slots /\ 1..Len(fifoPages) = {}
        /\ fifoPc \in {"open", "select"} /\ (program = "writeset" => fifoPc = "select")
        /\ (program # "writeset" => fifoPc = "open")
    BY <1>1, <1>2, <1>3
  <1> QED BY <1>2, <1>3, <1>4, <1>5 DEF FifoInv

(* Putting and taking leave a row of pages, of which none is empty.          *)
Pages(p) == p \in Seq(PageOf) /\ \A k \in 1..Len(p) : p[k].begin < p[k].end

LEMMA PutPages ==
  ASSUME Pages(fifoPages), NEW n \in 1..Page, Fifo!Put(n)
  PROVE  /\ Pages(fifoPages') /\ fifoPages' # <<>>
         /\ Fifo!LastFits(n) => Len(fifoPages') = Len(fifoPages)
         /\ Len(fifoPages') <= Len(fifoPages) + 1
         /\ fifoPages = <<>> =>
              Len(fifoPages') = 1 /\ fifoPages'[1] = [begin |-> 0, end |-> n]
  <1>0. Page \in Nat \ {0}
    BY ProgramsAssumption
  <1> DEFINE m == Len(fifoPages)
  <1>1. m \in Nat /\ fifoPages \in Seq(PageOf) /\ \A k \in 1..m : fifoPages[k] \in PageOf
    BY DEF Pages
  <1>2. CASE Fifo!LastFits(n)
    <2>1. fifoPages' = [fifoPages EXCEPT ![m].end = @ + n] /\ fifoPages # <<>> /\ m \in 1..m
      BY <1>1, <1>2 DEF Fifo!Put, Fifo!LastFits
    <2> DEFINE e == [fifoPages[m] EXCEPT !.end = @ + n]
    <2>0. fifoPages[m] \in PageOf /\ fifoPages[m].end + n <= Page
      BY <1>1, <1>2, <2>1 DEF Fifo!LastFits
    <2>a. ASSUME NEW b \in PageOf, b.end + n <= Page
          PROVE  [b EXCEPT !.end = @ + n] \in PageOf /\ b.begin \in Int /\ b.end \in Int
      BY <1>0, <2>a DEF PageOf
    <2>2. e \in PageOf /\ e.begin = fifoPages[m].begin /\ e.end = fifoPages[m].end + n
      BY <2>0, <2>a DEF PageOf
    <2>3. fifoPages' = [fifoPages EXCEPT ![m] = e]
      BY <2>1
    <2> HIDE DEF e
    <2>4. /\ fifoPages' \in Seq(PageOf) /\ Len(fifoPages') = m
          /\ \A k \in 1..m : fifoPages'[k] = IF k = m THEN e ELSE fifoPages[k]
      BY <1>1, <2>1, <2>2, <2>3
    <2>5. fifoPages[m].begin \in Int /\ fifoPages[m].end \in Int
      BY <2>0, <2>a
    <2>6. \A k \in 1..m : fifoPages'[k].begin < fifoPages'[k].end
      BY <2>1, <2>2, <2>4, <2>5 DEF Pages
    <2>7. fifoPages' # <<>>
      BY <1>1, <2>1, <2>4
    <2> QED BY <1>1, <2>1, <2>4, <2>6, <2>7 DEF Pages
  <1>3. CASE ~Fifo!LastFits(n)
    <2> DEFINE e == [begin |-> 0, end |-> n]
    <2>1. fifoPages' = Append(fifoPages, e)
      BY <1>3 DEF Fifo!Put
    <2>2. e \in PageOf /\ e.begin < e.end
      BY <1>0 DEF PageOf
    <2> HIDE DEF e
    <2>3. /\ fifoPages' \in Seq(PageOf) /\ Len(fifoPages') = m + 1
          /\ \A k \in 1..m : fifoPages'[k] = fifoPages[k]
          /\ fifoPages'[m + 1] = e
      BY <1>1, <2>1, <2>2
    <2>4. \A k \in 1..(m + 1) : fifoPages'[k].begin < fifoPages'[k].end
      BY <1>1, <2>2, <2>3 DEF Pages
    <2>5. fifoPages' # <<>> /\ (fifoPages = <<>> => m = 0)
      BY <1>1, <2>3
    <2> QED BY <1>1, <1>3, <2>3, <2>4, <2>5 DEF Pages, e
  <1> QED BY <1>2, <1>3

LEMMA TakePages ==
  ASSUME Pages(fifoPages), fifoPages # <<>>, Fifo!Take
  PROVE  /\ Pages(fifoPages') /\ Len(fifoPages') <= Len(fifoPages)
         /\ Len(fifoPages) = 1 /\ fifoPages[1].begin + 1 = fifoPages[1].end => fifoPages' = <<>>
  <1>0. Page \in Nat \ {0}
    BY ProgramsAssumption
  <1> DEFINE m == Len(fifoPages)
             b == fifoPages[1]
  <1>1. /\ m \in Nat /\ m >= 1 /\ fifoPages \in Seq(PageOf)
        /\ \A k \in 1..m : fifoPages[k] \in PageOf
        /\ Head(fifoPages) = b
    BY DEF Pages
  <1>2. b \in PageOf /\ b.begin \in 0..Page - 1 /\ b.end \in 1..Page /\ b.begin < b.end
    BY <1>1 DEF Pages, PageOf
  <1>3. CASE b.begin + 1 = b.end
    <2>1. fifoPages' = Tail(fifoPages)
      BY <1>1, <1>3 DEF Fifo!Take
    <2>2. /\ fifoPages' \in Seq(PageOf) /\ Len(fifoPages') = m - 1
          /\ \A k \in 1..m - 1 : fifoPages'[k] = fifoPages[k + 1]
      BY <1>1, <2>1
    <2>3. \A k \in 1..m - 1 : fifoPages'[k].begin < fifoPages'[k].end
      <3> TAKE k \in 1..m - 1
      <3>1. k + 1 \in 1..m
        BY <1>1
      <3> QED BY <2>2, <3>1 DEF Pages
    <2>4. m = 1 => fifoPages' = <<>>
      BY <2>2
    <2> QED BY <1>1, <2>2, <2>3, <2>4 DEF Pages
  <1>4. CASE b.begin + 1 # b.end
    <2> DEFINE e == [b EXCEPT !.begin = @ + 1]
    <2>1. fifoPages' = [fifoPages EXCEPT ![1] = e]
      BY <1>1, <1>4 DEF Fifo!Take
    <2>2. e \in PageOf /\ e.begin < e.end
      BY <1>0, <1>2, <1>4 DEF PageOf
    <2> HIDE DEF e
    <2>3. /\ fifoPages' \in Seq(PageOf) /\ Len(fifoPages') = m
          /\ \A k \in 1..m : fifoPages'[k] = IF k = 1 THEN e ELSE fifoPages[k]
      BY <1>1, <2>1, <2>2
    <2>4. \A k \in 1..m : fifoPages'[k].begin < fifoPages'[k].end
      BY <2>2, <2>3 DEF Pages
    <2> QED BY <1>1, <1>4, <2>3, <2>4 DEF Pages
  <1> QED BY <1>3, <1>4

LEMMA FifoNext ==
  ASSUME FifoInv, [Fifo!Next]_<<program, fifoVars>>
  PROVE  FifoInv'
  <1>a. Slots \in Nat \ {0} /\ Page \in Nat \ {0} /\ Much \in 1..Page
    BY ProgramsAssumption
  <1>0. Slots \in Nat \ {0} /\ Page \in Nat \ {0} /\ Much \in 1..Page /\ 1 \in 1..Page
    BY <1>a
  <1>p. Pages(fifoPages) /\ Len(fifoPages) \in Nat /\ (fifoPages = <<>> <=> Len(fifoPages) = 0)
    BY DEF FifoInv, Pages
  <1>1. CASE UNCHANGED <<program, fifoVars>>
    BY <1>1 DEF FifoInv, fifoVars
  <1>2. CASE Fifo!open
    BY <1>2 DEF FifoInv, Fifo!open
  <1>3. CASE Fifo!write
    <2>1. /\ Pages(fifoPages') /\ Len(fifoPages') \in Nat
          /\ fifoPages = <<>> => Len(fifoPages') = 1 /\ fifoPages'[1] = [begin |-> 0, end |-> 1]
      BY <1>0, <1>p, <1>3, PutPages DEF Fifo!write, Pages
    <2>2. fifoPages = <<>> /\ program' = "halfduplex" /\ fifoReader # "ended"
      BY <1>3 DEF Fifo!write, FifoInv
    <2>3. /\ fifoPc' = "ended" /\ Len(fifoPages') = 1 /\ fifoPages'[1].begin + 1 = fifoPages'[1].end
          /\ UNCHANGED <<program, fifoReader, fifoRset, fifoWset, fifoShown>>
      BY <1>3, <2>1, <2>2 DEF Fifo!write
    <2> QED BY <1>0, <2>1, <2>2, <2>3 DEF FifoInv, Pages
  <1>4. CASE Fifo!kill
    BY <1>4 DEF FifoInv, Fifo!kill
  <1>5. CASE Fifo!read
    <2>1. CASE fifoPages # <<>> /\ Fifo!Take /\ fifoShown' = "word"
      <3>1. Pages(fifoPages') /\ fifoPages' = <<>>
        BY <1>5, <1>p, <2>1, TakePages DEF FifoInv, Fifo!read
      <3>4. /\ program' = "halfduplex" /\ fifoReader' = "ended" /\ fifoShown' = "word"
            /\ UNCHANGED <<program, fifoPc, fifoRset, fifoWset>>
        BY <1>5, <2>1 DEF Fifo!read
      <3>5. Len(fifoPages') = 0
        BY <3>1
      <3>6. fifoRset' \in BOOLEAN /\ fifoWset' \in BOOLEAN /\ Len(fifoPages') <= Slots /\ 1..0 = {}
        BY <1>0, <3>4, <3>5 DEF FifoInv
      <3>7. /\ fifoPages' \in Seq(PageOf) /\ 1..Len(fifoPages') = {}
            /\ fifoPc' \in {"open", "select", "write", "read", "ended"} /\ program' \in AllPrograms
            /\ program' # "writeset"
        BY <3>1, <3>4, <3>5 DEF Pages, FifoInv
      <3>8. fifoPc' = "ended"
        BY <1>5, <2>1, <3>4 DEF FifoInv, Fifo!read
      <3> QED BY <3>1, <3>4, <3>6, <3>7, <3>8, Zenon DEF FifoInv
    <2>2. CASE fifoPages = <<>> /\ fifoShown' = "nothing" /\ UNCHANGED fifoPages
      BY <1>5, <2>2 DEF FifoInv, Fifo!read, Fifo!Ready
    <2> QED BY <1>5, <2>1, <2>2 DEF Fifo!read
  <1>6. CASE Fifo!select
    <2>1. /\ program = "writeset" /\ fifoPc' = "write"
          /\ UNCHANGED <<program, fifoPages, fifoReader, fifoShown>>
          /\ fifoRset' = (fifoPages # <<>>) /\ fifoWset' = (Len(fifoPages) < Slots)
      BY <1>6 DEF Fifo!select, Fifo!Free
    <2>a. (fifoPages # <<>>) \in BOOLEAN /\ (Len(fifoPages) < Slots) \in BOOLEAN
      OBVIOUS
    <2>2. /\ fifoRset' \in BOOLEAN /\ fifoWset' \in BOOLEAN
          /\ fifoRset' => fifoPages # <<>>
          /\ fifoWset' => Len(fifoPages) < Slots
      BY <2>1, <2>a, Zenon
    <2> QED BY <2>1, <2>2 DEF FifoInv
  <1>7. CASE Fifo!writeMuch
    <2>1. CASE Fifo!Writes /\ Fifo!Fits /\ Fifo!Put(Much)
      <3>1. /\ Pages(fifoPages') /\ fifoPages' # <<>>
            /\ Len(fifoPages') <= Slots
        <4>1. /\ Pages(fifoPages') /\ fifoPages' # <<>>
              /\ Fifo!LastFits(Much) => Len(fifoPages') = Len(fifoPages)
              /\ Len(fifoPages') <= Len(fifoPages) + 1
          BY <1>0, <1>p, <2>1, PutPages
        <4>2. Len(fifoPages') \in Nat /\ Len(fifoPages) <= Slots
          BY <4>1 DEF Pages, FifoInv
        <4> QED BY <1>0, <1>p, <2>1, <4>1, <4>2 DEF Fifo!Fits, Fifo!Free
      <3> QED BY <1>7, <3>1 DEF FifoInv, Fifo!writeMuch, Pages
    <2>2. CASE UNCHANGED fifoPages
      BY <1>7, <2>2 DEF FifoInv, Fifo!writeMuch
    <2> QED BY <1>7, <2>1, <2>2 DEF Fifo!writeMuch
  <1>8. CASE Fifo!readLittle
    <2>1. CASE fifoRset /\ Fifo!Take
      <3>1. Pages(fifoPages') /\ Len(fifoPages') <= Slots
        <4>1. fifoPages # <<>>
          BY <1>8, <2>1 DEF FifoInv, Fifo!readLittle
        <4>2. Pages(fifoPages') /\ Len(fifoPages') <= Len(fifoPages)
          BY <1>p, <2>1, <4>1, TakePages
        <4>3. Len(fifoPages') \in Nat
          BY <4>2 DEF Pages
        <4> QED BY <1>0, <1>p, <4>2, <4>3 DEF FifoInv
      <3> QED BY <1>8, <3>1 DEF FifoInv, Fifo!readLittle, Pages
    <2>2. CASE UNCHANGED fifoPages
      BY <1>8, <2>2 DEF FifoInv, Fifo!readLittle
    <2> QED BY <1>8, <2>1, <2>2 DEF Fifo!readLittle
  <1> QED BY <1>1, <1>2, <1>3, <1>4, <1>5, <1>6, <1>7, <1>8 DEF Fifo!Next, Fifo!Writer

-----------------------------------------------------------------------------
(* ipc/semctl.c.                                                             *)

Alone(r) == \A q \in SemctlRuns \ {r} : semSemid[q] # semSemid[r]

RunFits(r) ==
  /\ semPc[r] = 1 <=> semSemid[r] = 0
  /\ semPc[r] \in 1..3 => semPrinted[r] = <<>>
  /\ semPc[r] \in 3..9 /\ semSemid[r] = semCurrent => semValue \in {2, 5}
  /\ semPc[r] \in 2..8 /\ Alone(r) =>
       /\ semSemid[r] = semCurrent
       /\ semPc[r] \in {3, 4, 7, 8} => semValue = 5
  /\ Alone(r) => \A k \in 1..Len(semPrinted[r]) : semPrinted[r][k] = 5
  /\ semPrinted[r] # <<>> /\ semPrinted[r][1] = -1 =>
       /\ semSemid[r] # semCurrent
       /\ \A k \in 1..Len(semPrinted[r]) : semPrinted[r][k] = -1

(* A set that is there is still to be removed by a run that has it; what a   *)
(* run that is alone has is as it left it; and a set that is gone is gone.   *)
SemInv ==
  /\ semPc \in [SemctlRuns -> 1..9] /\ semMade \in Nat /\ semSemid \in [SemctlRuns -> 0..semMade]
  /\ semCurrent \in 0..semMade /\ semValue \in {0, 2, 5}
  /\ semPrinted \in [SemctlRuns -> Seq({-1, 2, 5})]
  /\ semCurrent # 0 => \E r \in SemctlRuns : semSemid[r] = semCurrent /\ semPc[r] # 9
  /\ \A r \in SemctlRuns : RunFits(r)

LEMMA SemHas ==
  ASSUME SemInv
  PROVE  Sem!TypeOK /\ Sem!NoneLeft /\ Sem!PrintedRight
  <1>1. Sem!TypeOK
    BY DEF SemInv, RunFits, Sem!TypeOK, Sem!Calls
  <1>2. Sem!NoneLeft
    BY DEF SemInv, RunFits, Sem!NoneLeft, Sem!AllEnded, Sem!Calls
  <1>3. Sem!PrintedRight
    <2> SUFFICES ASSUME NEW r \in SemctlRuns, NEW k \in DOMAIN semPrinted[r]
                 PROVE  /\ ~Sem!Shared(r) => semPrinted[r][k] = 5
                        /\ semPrinted[r][1] = -1 => semPrinted[r][k] = -1
      BY DEF Sem!PrintedRight
    <2>1. semPrinted[r] \in Seq({-1, 2, 5}) /\ DOMAIN semPrinted[r] = 1..Len(semPrinted[r])
      BY DEF SemInv, RunFits
    <2>2. semPrinted[r] # <<>>
      BY <2>1
    <2> QED BY <2>1, <2>2 DEF SemInv, RunFits, Sem!Shared, Alone
  <1> QED BY <1>1, <1>2, <1>3

LEMMA SemInit ==
  ASSUME Sem!Init
  PROVE  SemInv
  <1>1. /\ semPc = [r \in SemctlRuns |-> 1] /\ semSemid = [r \in SemctlRuns |-> 0] /\ semCurrent = 0
        /\ semMade = 0 /\ semValue = 0 /\ semPrinted = [r \in SemctlRuns |-> <<>>]
    BY DEF Sem!Init
  <1>2. \A r \in SemctlRuns : semPc[r] = 1 /\ semSemid[r] = 0 /\ semPrinted[r] = <<>>
    BY <1>1
  <1>3. 1..Len(<<>>) = {} /\ <<>> \in Seq({-1, 2, 5})
    OBVIOUS
  <1>4. /\ semPc \in [SemctlRuns -> 1..9] /\ semSemid \in [SemctlRuns -> 0..semMade]
        /\ semPrinted \in [SemctlRuns -> Seq({-1, 2, 5})]
    BY <1>1, <1>3
  <1> QED BY <1>1, <1>2, <1>3, <1>4 DEF SemInv, RunFits

LEMMA SemNext ==
  ASSUME SemInv, [Sem!Next]_semVars
  PROVE  SemInv'
  <1>1. CASE UNCHANGED semVars
    BY <1>1 DEF SemInv, RunFits, semVars, Alone
  <1>2. ASSUME NEW r \in SemctlRuns, Sem!Step(r) PROVE SemInv'
    <2>i. /\ semPc \in [SemctlRuns -> 1..9] /\ semMade \in Nat /\ semSemid \in [SemctlRuns -> 0..semMade]
          /\ semCurrent \in 0..semMade /\ semValue \in {0, 2, 5}
          /\ semPrinted \in [SemctlRuns -> Seq({-1, 2, 5})]
      BY DEF SemInv, RunFits
    <2>c. /\ Sem!Calls[1] = "semget" /\ Sem!Calls[2] = "setval" /\ Sem!Calls[3] = "getval"
          /\ Sem!Calls[4] = "setall" /\ Sem!Calls[5] = "getall" /\ Sem!Calls[6] = "setval"
          /\ Sem!Calls[7] = "getval" /\ Sem!Calls[8] = "rmid" /\ Sem!Calls[9] = "ended"
      BY DEF Sem!Calls
    <2>k. semPc[r] \in {1, 2, 3, 4, 5, 6, 7, 8, 9}
      BY <2>i
    <2>p. ASSUME NEW call, Sem!At(r, call)
          PROVE  /\ Sem!Calls[semPc[r]] = call
                 /\ \A q \in SemctlRuns : semPc'[q] = IF q = r THEN semPc[r] + 1 ELSE semPc[q]
                 /\ call # "ended" => semPc' \in [SemctlRuns -> 1..9]
      <3>1. Sem!Calls[semPc[r]] = call /\ semPc' = [semPc EXCEPT ![r] = @ + 1]
        BY <2>p DEF Sem!At
      <3>2. call # "ended" => semPc[r] # 9
        BY <2>c, <3>1
      <3>3. call # "ended" => semPc[r] + 1 \in 1..9
        BY <2>k, <3>2
      <3> QED BY <2>i, <3>1, <3>3
    <2>1. CASE Sem!semget(r)
      <3>1. /\ semPc[r] = 1 /\ semPc' \in [SemctlRuns -> 1..9]
            /\ \A q \in SemctlRuns : semPc'[q] = IF q = r THEN 2 ELSE semPc[q]
        BY <2>1, <2>c, <2>p, <2>k DEF Sem!semget
      <3>2. /\ semPrinted' = semPrinted /\ semSemid' = [semSemid EXCEPT ![r] = semCurrent']
            /\ \/ semCurrent # 0 /\ UNCHANGED <<semCurrent, semMade, semValue>>
               \/ semCurrent = 0 /\ semMade' = semMade + 1 /\ semCurrent' = semMade' /\ semValue' = 0
        BY <2>1 DEF Sem!semget
      <3>3. /\ semMade' \in Nat /\ semCurrent' \in 1..semMade' /\ semMade <= semMade'
            /\ semValue' \in {0, 2, 5}
        BY <2>i, <3>2
      <3>4. /\ semSemid' \in [SemctlRuns -> 0..semMade']
            /\ \A q \in SemctlRuns : semSemid'[q] = IF q = r THEN semCurrent' ELSE semSemid[q]
        BY <2>i, <3>2, <3>3
      <3>5. semSemid[r] = 0 /\ semPrinted[r] = <<>> /\ 1..Len(<<>>) = {}
        BY <3>1 DEF SemInv, RunFits
      <3>6. semCurrent # 0 => \E q \in SemctlRuns \ {r} : semSemid[q] = semCurrent /\ semPc[q] # 9
        BY <3>5 DEF SemInv, RunFits
      <3>7. ASSUME NEW q \in SemctlRuns \ {r}, Alone(q)' PROVE Alone(q) \/ semPc[q] = 1
        <4>1. semPc[q] # 1 => semSemid[q] # 0
          BY DEF SemInv, RunFits
        <4>2. \A p \in SemctlRuns \ {q} : semSemid'[p] # semSemid'[q]
          BY <3>7 DEF Alone
        <4>3. \A p \in SemctlRuns \ {q} : p = r \/ semSemid[p] # semSemid[q]
          BY <3>4, <4>2
        <4> QED BY <3>5, <4>1, <4>3 DEF Alone
      <3>8. ASSUME NEW q \in SemctlRuns \ {r}, semSemid[q] # 0 PROVE
              /\ semCurrent' = semSemid[q] <=> semCurrent = semSemid[q]
              /\ semCurrent = semSemid[q] => semValue' = semValue
        BY <2>i, <3>2, <3>8
      <3>9. ASSUME NEW q \in SemctlRuns \ {r}, semSemid[q] # 0, Alone(q)' PROVE semCurrent # semSemid[q]
        BY <3>2, <3>4, <3>9 DEF Alone
      <3>10. ASSUME NEW q \in SemctlRuns \ {r}
             PROVE  RunFits(q)'
        <4>1. semPc'[q] = semPc[q] /\ semSemid'[q] = semSemid[q] /\ semPrinted'[q] = semPrinted[q]
          BY <3>1, <3>2, <3>4
        <4>2. semPc[q] # 1 => semSemid[q] # 0
          BY DEF SemInv, RunFits
        <4>3. semPc[q] = 1 => semPrinted[q] = <<>>
          BY DEF SemInv, RunFits
        <4>4. semPc[q] \in 2..8 => ~(Alone(q)')
          BY <3>7, <3>9, <4>2 DEF SemInv, RunFits
        <4> QED BY <3>5, <3>7, <3>8, <4>1, <4>2, <4>3, <4>4 DEF SemInv, RunFits
      <3>11. /\ semPc'[r] = 2 /\ semSemid'[r] = semCurrent' /\ semCurrent' # 0
             /\ semPrinted'[r] = <<>>
        BY <3>1, <3>2, <3>3, <3>4, <3>5
      <3>12. RunFits(r)'
        BY <3>5, <3>11 DEF RunFits
      <3>13. semCurrent' # 0 => \E q \in SemctlRuns : semSemid'[q] = semCurrent' /\ semPc'[q] # 9
        BY <3>11
      <3>14. \A q \in SemctlRuns : RunFits(q)'
        BY <3>10, <3>12
      <3> QED BY <2>i, <3>1, <3>2, <3>3, <3>4, <3>13, <3>14 DEF SemInv
    <2> DEFINE Mine == semSemid[r] = semCurrent
    <2>2. ASSUME semPc[r] # 1, semPc' \in [SemctlRuns -> 1..9],
                 \A q \in SemctlRuns : semPc'[q] = IF q = r THEN semPc[r] + 1 ELSE semPc[q],
                 semPc[r] # 8, UNCHANGED <<semSemid, semCurrent, semMade, semPrinted>>,
                 semValue' = semValue \/ (Mine /\ semValue' \in {2, 5}),
                 semPc[r] \in {2, 6} /\ Mine => semValue' = 5,
                 semPc[r] # 3, semPc[r] # 7
          PROVE  SemInv'
      <3>1. semValue' \in {0, 2, 5}
        BY <2>2, <2>i
      <3>2. \A q \in SemctlRuns : semSemid'[q] = semSemid[q] /\ semPrinted'[q] = semPrinted[q]
              /\ (Alone(q)' <=> Alone(q))
        BY <2>2 DEF Alone
      <3>3. \A q \in SemctlRuns \ {r} : Alone(q) /\ semPc[q] \in 2..8 => ~Mine
        BY DEF SemInv, RunFits, Alone
      <3>4. \A q \in SemctlRuns \ {r} : semPc'[q] = semPc[q]
        BY <2>2
      <3>5. semPc'[r] = semPc[r] + 1 /\ semPc[r] \in {2, 4, 5, 6, 9}
        BY <2>2, <2>k
      <3>6. semPc[r] # 9
        <4>1. semPc'[r] \in 1..9
          BY <2>2
        <4> QED BY <3>5, <4>1
      <3>7. ASSUME NEW q \in SemctlRuns \ {r}
            PROVE  RunFits(q)'
        BY <2>2, <3>2, <3>3, <3>4, SMTT(30) DEF SemInv, RunFits
      <3>8. RunFits(r)'
        BY <2>2, <3>2, <3>5, <3>6, SMTT(30) DEF SemInv, RunFits
      <3>9. semCurrent' # 0 => \E q \in SemctlRuns : semSemid'[q] = semCurrent' /\ semPc'[q] # 9
        BY <2>2, <3>2, <3>5, <3>6, SMTT(30) DEF SemInv, RunFits
      <3> QED BY <2>2, <2>i, <3>1, <3>7, <3>8, <3>9 DEF SemInv
    <2>3. CASE Sem!setval(r)
      <3>1. /\ semPc[r] \in {2, 6} /\ semPc' \in [SemctlRuns -> 1..9]
            /\ \A q \in SemctlRuns : semPc'[q] = IF q = r THEN semPc[r] + 1 ELSE semPc[q]
        BY <2>3, <2>c, <2>p, <2>k DEF Sem!setval
      <3>2. /\ UNCHANGED <<semSemid, semCurrent, semMade, semPrinted>>
            /\ semValue' = IF Mine THEN 5 ELSE semValue
        BY <2>3 DEF Sem!setval, Sem!Give, Sem!Works
      <3>3. /\ semPc[r] # 1 /\ semPc[r] # 8 /\ semPc[r] # 3 /\ semPc[r] # 7
            /\ semValue' = semValue \/ (Mine /\ semValue' \in {2, 5})
            /\ semPc[r] \in {2, 6} /\ Mine => semValue' = 5
        BY <3>1, <3>2
      <3> HIDE DEF Mine
      <3> QED BY <2>2, <3>1, <3>2, <3>3, Zenon
    <2>4. CASE Sem!setall(r)
      <3>1. /\ semPc[r] = 4 /\ semPc' \in [SemctlRuns -> 1..9]
            /\ \A q \in SemctlRuns : semPc'[q] = IF q = r THEN semPc[r] + 1 ELSE semPc[q]
        BY <2>4, <2>c, <2>p, <2>k DEF Sem!setall
      <3>2. /\ UNCHANGED <<semSemid, semCurrent, semMade, semPrinted>>
            /\ semValue' = IF Mine THEN 2 ELSE semValue
        BY <2>4 DEF Sem!setall, Sem!Give, Sem!Works
      <3>3. /\ semPc[r] # 1 /\ semPc[r] # 8 /\ semPc[r] # 3 /\ semPc[r] # 7
            /\ semValue' = semValue \/ (Mine /\ semValue' \in {2, 5})
            /\ semPc[r] \in {2, 6} /\ Mine => semValue' = 5
        BY <3>1, <3>2
      <3> HIDE DEF Mine
      <3> QED BY <2>2, <3>1, <3>2, <3>3, Zenon
    <2>5. CASE Sem!getall(r)
      <3>1. /\ semPc[r] = 5 /\ semPc' \in [SemctlRuns -> 1..9]
            /\ \A q \in SemctlRuns : semPc'[q] = IF q = r THEN semPc[r] + 1 ELSE semPc[q]
        BY <2>5, <2>c, <2>p, <2>k DEF Sem!getall
      <3>2. UNCHANGED <<semSemid, semCurrent, semMade, semPrinted, semValue>>
        BY <2>5 DEF Sem!getall
      <3>3. /\ semPc[r] # 1 /\ semPc[r] # 8 /\ semPc[r] # 3 /\ semPc[r] # 7
            /\ semValue' = semValue \/ (Mine /\ semValue' \in {2, 5})
            /\ semPc[r] \in {2, 6} /\ Mine => semValue' = 5
        BY <3>1, <3>2
      <3> HIDE DEF Mine
      <3> QED BY <2>2, <3>1, <3>2, <3>3, Zenon
    <2>6. CASE Sem!getval(r)
      <3>1. /\ semPc[r] \in {3, 7} /\ semPc' \in [SemctlRuns -> 1..9]
            /\ \A q \in SemctlRuns : semPc'[q] = IF q = r THEN semPc[r] + 1 ELSE semPc[q]
        BY <2>6, <2>c, <2>p, <2>k DEF Sem!getval
      <3> DEFINE n == IF Mine THEN semValue ELSE -1
                 s == semPrinted[r]
      <3>2. /\ UNCHANGED <<semSemid, semCurrent, semMade, semValue>>
            /\ semPrinted' = [semPrinted EXCEPT ![r] = Append(s, n)]
        BY <2>6 DEF Sem!getval, Sem!Works
      <3>3. n \in {-1, 2, 5} /\ s \in Seq({-1, 2, 5})
        BY <2>i, <3>1 DEF SemInv, RunFits
      <3>4. Alone(r) => n = 5
        BY <3>1 DEF SemInv, RunFits
      <3>5. s # <<>> /\ s[1] = -1 => n = -1
        BY DEF SemInv, RunFits
      <3>6. n = -1 => ~Mine
        BY <2>i
      <3> HIDE DEF n
      <3>7. /\ Append(s, n) \in Seq({-1, 2, 5}) /\ Append(s, n) # <<>>
            /\ Len(Append(s, n)) = Len(s) + 1 /\ Len(s) \in Nat
            /\ \A k \in 1..Len(s) : Append(s, n)[k] = s[k]
            /\ Append(s, n)[Len(s) + 1] = n
            /\ s = <<>> => Append(s, n)[1] = n
            /\ s # <<>> => Append(s, n)[1] = s[1]
        BY <3>3
      <3> DEFINE t == Append(s, n)
      <3>8. /\ Alone(r) => \A k \in 1..Len(t) : t[k] = 5
            /\ t[1] = -1 => semSemid[r] # semCurrent /\ \A k \in 1..Len(t) : t[k] = -1
        <4>1. \A k \in 1..Len(t) : k = Len(s) + 1 \/ k \in 1..Len(s)
          BY <3>7
        <4>2. Alone(r) => \A k \in 1..Len(s) : s[k] = 5
          BY DEF SemInv, RunFits
        <4>3. s # <<>> /\ s[1] = -1 =>
                 semSemid[r] # semCurrent /\ \A k \in 1..Len(s) : s[k] = -1
          BY DEF SemInv, RunFits
        <4>4. s = <<>> => 1..Len(s) = {}
          OBVIOUS
        <4> HIDE DEF s
        <4> QED BY <3>4, <3>5, <3>6, <3>7, <4>1, <4>2, <4>3, <4>4
      <3> HIDE DEF s, t
      <3>9. /\ semPrinted' \in [SemctlRuns -> Seq({-1, 2, 5})]
            /\ semPrinted'[r] = t /\ t # <<>>
            /\ \A q \in SemctlRuns \ {r} : semPrinted'[q] = semPrinted[q]
        BY <2>i, <3>2, <3>7 DEF t
      <3>10. \A q \in SemctlRuns : semSemid'[q] = semSemid[q] /\ (Alone(q)' <=> Alone(q))
        BY <3>2 DEF Alone
      <3>11. semPc'[r] \in {4, 8} /\ semPc'[r] = semPc[r] + 1
        BY <3>1
      <3>12. \A q \in SemctlRuns \ {r} : semPc'[q] = semPc[q]
        BY <3>1
      <3>13. ASSUME NEW q \in SemctlRuns \ {r}
             PROVE  RunFits(q)'
        <4>1. semPc'[q] = semPc[q] /\ semSemid'[q] = semSemid[q] /\ semPrinted'[q] = semPrinted[q]
          BY <3>9, <3>10, <3>12
        <4> QED BY <3>2, <3>10, <4>1 DEF SemInv, RunFits
      <3>14. /\ Alone(r)' => \A k \in 1..Len(semPrinted'[r]) : semPrinted'[r][k] = 5
             /\ semPrinted'[r] # <<>> /\ semPrinted'[r][1] = -1 =>
                  /\ semSemid'[r] # semCurrent'
                  /\ \A k \in 1..Len(semPrinted'[r]) : semPrinted'[r][k] = -1
        BY <3>2, <3>8, <3>9, <3>10
      <3>15. RunFits(r)'
        <4>1. /\ semPc[r] # 1 /\ semSemid[r] # 0 /\ semSemid'[r] = semSemid[r]
              /\ Mine => semValue \in {2, 5}
              /\ Alone(r) => Mine /\ semValue = 5
          BY <3>1, <3>10 DEF SemInv, RunFits
        <4> QED BY <3>1, <3>2, <3>10, <3>11, <3>14, <4>1 DEF RunFits
      <3>16. semCurrent' # 0 => \E q \in SemctlRuns : semSemid'[q] = semCurrent' /\ semPc'[q] # 9
        BY <3>1, <3>2, <3>11, <3>12 DEF SemInv, RunFits
      <3> QED BY <2>i, <3>1, <3>2, <3>9, <3>13, <3>14, <3>15, <3>16 DEF SemInv
    <2>7. CASE Sem!rmid(r)
      <3>1. /\ semPc[r] = 8 /\ semPc' \in [SemctlRuns -> 1..9] /\ semPc'[r] = 9
            /\ \A q \in SemctlRuns \ {r} : semPc'[q] = semPc[q]
        BY <2>7, <2>c, <2>p, <2>k DEF Sem!rmid
      <3>2. /\ UNCHANGED <<semSemid, semMade, semValue, semPrinted>>
            /\ semCurrent' = IF Mine THEN 0 ELSE semCurrent
        BY <2>7 DEF Sem!rmid, Sem!Left, Sem!Works
      <3>3. \A q \in SemctlRuns : semSemid'[q] = semSemid[q] /\ semPrinted'[q] = semPrinted[q]
              /\ (Alone(q)' <=> Alone(q))
        BY <3>2 DEF Alone
      <3>4. \A q \in SemctlRuns \ {r} : Alone(q) /\ semPc[q] \in 2..8 => ~Mine
        BY DEF SemInv, RunFits, Alone
      <3>5. semCurrent' \in 0..semMade /\ (semCurrent' # 0 => semCurrent' = semCurrent /\ ~Mine)
        BY <2>i, <3>2
      <3>6. ASSUME NEW q \in SemctlRuns \ {r}
            PROVE  RunFits(q)'
        <4>1. semPrinted[q] # <<>> => semSemid[q] # 0
          BY DEF SemInv, RunFits
        <4>2. semPc[q] \in 3..9 => semSemid[q] # 0
          BY DEF SemInv, RunFits
        <4> QED BY <3>1, <3>2, <3>3, <3>4, <3>5, <4>1, <4>2, SMTT(30) DEF SemInv, RunFits
      <3>7. RunFits(r)'
        <4>1. semSemid[r] # 0
          BY <3>1 DEF SemInv, RunFits
        <4> QED BY <3>1, <3>2, <3>3, <3>5, <4>1 DEF SemInv, RunFits
      <3>8. semCurrent' # 0 => \E q \in SemctlRuns : semSemid'[q] = semCurrent' /\ semPc'[q] # 9
        BY <3>1, <3>2, <3>3, <3>5 DEF SemInv, RunFits
      <3> QED BY <2>i, <3>1, <3>2, <3>5, <3>6, <3>7, <3>8 DEF SemInv
    <2> QED BY <1>2, <2>1, <2>3, <2>4, <2>5, <2>6, <2>7 DEF Sem!Step
  <1> QED BY <1>1, <1>2 DEF Sem!Next

-----------------------------------------------------------------------------
(* sendfd/sendfd.c.                                                          *)

(* The descriptor is sent only of a file, whose offset is then 0 until the   *)
(* child, for whose end the parent waits, has read.                          *)
SendInv ==
  /\ sfExists \in BOOLEAN
  /\ sfFile \in Seq({"old", "parent"}) /\ sfOffset \in Nat
  /\ sfParent \in {"write", "lseek", "sendmsg", "wait", "ended"}
  /\ sfChild \in {"recvmsg", "read", "ended"}
  /\ sfSocket \in {<<>>, <<"file">>} /\ sfFd \in {"none", "file", "stdin"}
  /\ sfBuf \in Seq({"old", "parent", "typed"})
  /\ sfFd = "none" <=> sfChild = "recvmsg"
  /\ sfSocket # <<>> \/ sfFd = "file" => sfExists /\ sfParent \in {"wait", "ended"}
  /\ sfFd = "stdin" => ~sfExists /\ sfParent = "ended"
  /\ sfExists /\ sfParent = "ended" => sfChild = "ended"
  /\ sfExists /\ sfParent = "write" => sfOffset = 0
  /\ sfExists /\ sfParent # "write" =>
       Len(sfFile) >= Word /\ \A k \in 1..Word : sfFile[k] = "parent"
  /\ sfExists /\ sfParent \in {"sendmsg", "wait"} /\ sfChild # "ended" => sfOffset = 0
  /\ Send!FileIsRead

LEMMA SendHas ==
  ASSUME SendInv
  PROVE  Send!TypeOK /\ Send!FileIsRead /\ Send!OwnInput
  BY DEF SendInv, Send!TypeOK, Send!OwnInput

LEMMA SendInit ==
  ASSUME Send!Init
  PROVE  SendInv
  <1>1. sfFile \in Seq({"old"})
    BY ProgramsAssumption DEF Send!Init
  <1>2. sfFile \in Seq({"old", "parent"})
    BY <1>1
  <1>3. <<>> \in Seq({"old", "parent", "typed"})
    OBVIOUS
  <1> QED BY <1>2, <1>3 DEF SendInv, Send!Init, Send!FileIsRead

LEMMA WordWritten ==
  ASSUME sfFile \in Seq({"old", "parent"}), sfOffset = 0
  PROVE  /\ Send!Written \in Seq({"old", "parent"}) /\ Len(Send!Written) >= Word
         /\ \A k \in 1..Word : Send!Written[k] = "parent"
  <1> DEFINE n == Send!Longer(Len(sfFile), Word)
  <1>1. Word \in Nat
    BY ProgramsAssumption
  <1>2. Len(sfFile) \in Nat
    OBVIOUS
  <1>3. n \in Nat /\ n >= Word /\ n >= Len(sfFile) /\ n \in {Len(sfFile), Word}
    BY <1>1, <1>2 DEF Send!Longer
  <1>4. sfOffset + Word = Word /\ sfOffset + 1 = 1
    BY <1>1
  <1>5. Send!Written = [k \in 1..n |-> IF k \in 1..Word THEN "parent" ELSE sfFile[k]]
    BY <1>4 DEF Send!Written
  <1> HIDE DEF n
  <1>6. \A k \in 1..n : k \in 1..Word \/ k \in 1..Len(sfFile)
    BY <1>1, <1>2, <1>3
  <1>7. \A k \in 1..Len(sfFile) : sfFile[k] \in {"old", "parent"}
    OBVIOUS
  <1>8. Send!Written \in [1..n -> {"old", "parent"}]
    BY <1>5, <1>6, <1>7
  <1>9. Send!Written \in Seq({"old", "parent"}) /\ Len(Send!Written) = n
    BY <1>3, <1>5, <1>8, IsASeq, LenProperties
  <1>10. \A k \in 1..Word : Send!Written[k] = "parent"
    BY <1>1, <1>3, <1>5
  <1> QED BY <1>3, <1>9, <1>10

LEMMA SendNext ==
  ASSUME SendInv, [Send!Next]_sfVars
  PROVE  SendInv'
  <1>0. Word \in Nat /\ SendBufLen \in Nat /\ Word <= SendBufLen
    BY ProgramsAssumption
  <1>1. CASE UNCHANGED sfVars
    BY <1>1 DEF SendInv, sfVars, Send!FileIsRead, Send!Shorter
  <1>2. CASE Send!write
    <2>1. sfExists => /\ sfFile' \in Seq({"old", "parent"}) /\ Len(sfFile') >= Word
                      /\ \A k \in 1..Word : sfFile'[k] = "parent"
                      /\ sfOffset' \in Nat
      BY <1>0, <1>2, WordWritten DEF SendInv, Send!write
    <2>2. ~sfExists => UNCHANGED <<sfFile, sfOffset>>
      BY <1>2 DEF Send!write
    <2>3. sfExists => sfChild = "recvmsg"
      BY <1>2 DEF SendInv, Send!write
    <2>4. /\ sfParent' = "lseek" /\ UNCHANGED <<sfExists, sfChild, sfSocket, sfFd, sfBuf>>
          /\ sfParent = "write"
      BY <1>2 DEF Send!write
    <2> QED BY <2>1, <2>2, <2>3, <2>4 DEF SendInv, Send!FileIsRead
  <1>3. CASE Send!lseek
    BY <1>3 DEF SendInv, Send!lseek, Send!FileIsRead
  <1>4. CASE Send!sendfd
    BY <1>4 DEF SendInv, Send!sendfd, Send!FileIsRead
  <1>5. CASE Send!wait
    BY <1>5 DEF SendInv, Send!wait, Send!FileIsRead
  <1>6. CASE Send!recvfd
    <2>1. Head(<<"file">>) = "file"
      OBVIOUS
    <2>2. /\ sfChild = "recvmsg" /\ sfChild' = "read" /\ sfSocket' = <<>>
          /\ sfSocket # <<>> \/ sfParent = "ended"
          /\ sfFd' = (IF sfSocket = <<>> THEN "stdin" ELSE Head(sfSocket))
          /\ UNCHANGED <<sfExists, sfFile, sfOffset, sfParent, sfBuf>>
      BY <1>6 DEF Send!recvfd, Send!Readable
    <2>3. sfFd' = IF sfSocket = <<>> THEN "stdin" ELSE "file"
      BY <2>1, <2>2 DEF SendInv
    <2> QED BY <2>2, <2>3 DEF SendInv, Send!FileIsRead
  <1>7. CASE Send!read
    <2> DEFINE m == Send!Shorter(Len(sfFile), SendBufLen)
    <2>1. /\ sfChild = "read" /\ sfFd = "file" /\ sfChild' = "ended"
          /\ UNCHANGED <<sfExists, sfFile, sfParent, sfSocket, sfFd>>
          /\ sfOffset' = sfOffset + Len(sfBuf')
      BY <1>7 DEF Send!read
    <2>2. sfExists /\ sfParent = "wait" /\ sfOffset = 0
      BY <2>1 DEF SendInv
    <2>3. Len(sfFile) \in Nat /\ sfFile \in Seq({"old", "parent"})
      BY DEF SendInv
    <2>4. sfBuf' = SubSeq(sfFile, 1, m)
      BY <1>0, <1>7, <2>2, <2>3 DEF Send!read, Send!Shorter
    <2>5. m \in Nat /\ m <= Len(sfFile) /\ Word <= m
      BY <1>0, <2>2, <2>3 DEF SendInv, Send!Shorter
    <2> HIDE DEF m
    <2>6. /\ sfBuf' \in Seq({"old", "parent"}) /\ Len(sfBuf') = m
          /\ \A k \in 1..m : sfBuf'[k] = sfFile[k]
      <3>1. \A k \in 1..m : sfFile[k] \in {"old", "parent"}
        BY <2>3, <2>5
      <3>2. m - 1 + 1 = m /\ (IF 1 <= m THEN m - 1 + 1 ELSE 0) = m /\ \A k \in 1..m : 1 + k - 1 = k
        BY <2>5
      <3>3. /\ SubSeq(sfFile, 1, m) \in Seq({"old", "parent"})
            /\ Len(SubSeq(sfFile, 1, m)) = IF 1 <= m THEN m - 1 + 1 ELSE 0
            /\ \A k \in 1..m - 1 + 1 : SubSeq(sfFile, 1, m)[k] = sfFile[1 + k - 1]
        BY <2>5, <3>1, SubSeqProperties
      <3> QED BY <2>4, <3>2, <3>3
    <2>7. \A k \in 1..Word : sfBuf'[k] = "parent"
      BY <1>0, <2>2, <2>5, <2>6 DEF SendInv
    <2>8. sfBuf' \in Seq({"old", "parent", "typed"}) /\ sfOffset' \in Nat
      BY <2>1, <2>2, <2>5, <2>6
    <2>9. sfBuf' = SubSeq(sfFile', 1, Send!Shorter(Len(sfFile'), SendBufLen))
      BY <2>1, <2>4 DEF m
    <2>10. Send!FileIsRead'
      BY <2>7, <2>9 DEF Send!FileIsRead, Send!Shorter
    <2> QED BY <2>1, <2>2, <2>8, <2>10 DEF SendInv
  <1>8. CASE Send!readInput
    <2>1. <<"typed">> \in Seq({"old", "parent", "typed"})
      OBVIOUS
    <2> QED BY <1>8, <2>1 DEF SendInv, Send!readInput, Send!FileIsRead
  <1> QED BY <1>1, <1>2, <1>3, <1>4, <1>5, <1>6, <1>7, <1>8
        DEF Send!Next, Send!Parent, Send!Child

-----------------------------------------------------------------------------
(* ipc/add.c and thread/lock.c.                                              *)

PairPlaces == {"semctl", "none", "fork", "sopp", "sopp*", "store", "sopv", "sopv*", "wait", "done",
               "lock", "load", "take", "leave", "unlock"}
InRound == {"sopp", "sopp*", "store", "sopv", "sopv*"}

(* Additions stored by one of add.c's two. *)
Stores(t) == pairI[t] + (IF pairPc[t] \in {"sopv", "sopv*"} THEN 1 ELSE 0)

AddPlace(t) ==
  /\ pairPc[t] \in {"semctl", "fork", "none", "wait", "done"} \cup InRound
  /\ pairPc[t] \in InRound => pairI[t] < N
  /\ pairPc[t] \in {"wait", "done"} => pairI[t] = N
  /\ pairPc[t] \in {"semctl", "fork", "none"} => pairI[t] = 0
  /\ pairPc[t] = "store" =>
       /\ pairReg[t] <= Stores("one") + Stores("two")
       /\ pairI[t] >= 1 => pairReg[t] >= 1

(* The number is at most what was added, and not 0 after the first addition; *)
(* so the last that each adds, if not its first, is added to 1 or more.      *)
AddInv ==
  /\ AddPlace("one") /\ AddPlace("two")
  /\ pairPc["one"] \notin {"none"} /\ pairPc["two"] \notin {"semctl", "fork", "wait"}
  /\ pairPc["two"] = "none" <=> pairPc["one"] \in {"semctl", "fork"}
  /\ pairSems = {} \/ pairPc["one"] = "semctl"
  /\ pairValue <= Stores("one") + Stores("two")
  /\ Stores("one") + Stores("two") >= 1 => pairValue >= 1
  /\ N >= 2 /\ Stores("one") = N /\ Stores("two") = N => pairValue >= 2

(* What was taken and what is left are all there was; who is to take one     *)
(* has the mutex, and has seen the number as it is.                          *)
LockInv ==
  /\ pairValue + pairI["one"] + pairI["two"] = N
  /\ pairPc \in [{"one", "two"} -> {"lock", "load", "take", "leave", "unlock", "done"}]
  /\ \A t \in {"one", "two"} :
       /\ pairPc[t] \in {"load", "take", "leave", "unlock"} <=> pairMutex = t
       /\ pairPc[t] = "take" => pairReg[t] = pairValue /\ pairValue > 0
       /\ pairPc[t] \in {"leave", "done"} => pairValue = 0

PairTypes ==
  /\ program \in AllPrograms
  /\ pairValue \in Nat /\ pairMutex \in {"one", "two", "none"}
  /\ pairPc \in [{"one", "two"} -> PairPlaces]
  /\ pairI \in [{"one", "two"} -> 0..N] /\ pairReg \in [{"one", "two"} -> 0..(2 * N)]
  /\ pairSems \in {{}, {0}}
  /\ pairSum = {} \/ \E s \in 0..(2 * N) : pairSum = {s} /\ (N >= 2 => 2 <= s)

PairInv ==
  /\ PairTypes
  /\ pairValue <= 2 * N
  /\ program = "lock" => LockInv
  /\ program = "add" => AddInv

LEMMA PairHas ==
  ASSUME PairInv
  PROVE  Pair!TypeOK /\ Pair!SumBounds /\ Pair!EachOnce
  <1>0. N \in Nat
    BY ProgramsAssumption
  <1>1. Cardinality(pairSems) <= 1 /\ Cardinality(pairSum) <= 1
    <2>1. Cardinality({0}) = 1 /\ Cardinality({}) = 0
      BY FS_Singleton, FS_EmptySet, Zenon
    <2>2. Cardinality(pairSems) = 0 \/ Cardinality(pairSems) = 1
      BY <2>1 DEF PairInv, PairTypes
    <2>3. CASE pairSum = {}
      BY <2>1, <2>2, <2>3
    <2>4. CASE \E s : pairSum = {s}
      <3>1. PICK s : pairSum = {s}
        BY <2>4
      <3>2. Cardinality({s}) = 1
        BY FS_Singleton, Zenon
      <3>3. Cardinality(pairSum) = 1
        BY <3>1, <3>2, Zenon
      <3> QED BY <2>2, <3>3
    <2> QED BY <2>3, <2>4 DEF PairInv, PairTypes
  <1>2. Pair!TypeOK
    <2>1. pairValue \in 0..(2 * N)
      BY <1>0 DEF PairInv, PairTypes
    <2>2. \A t \in {"one", "two"} : pairReg[t] \in 0..(2 * N) /\ pairI[t] \in 0..N
      BY DEF PairInv, PairTypes
    <2>3. pairMutex \in {"one", "two"} \cup {"none"} /\ program \in AllPrograms
      BY DEF PairInv, PairTypes
    <2>4. pairMutex \in Pair!One \cup {"none"}
      BY <2>3 DEF Pair!One
    <2>5. \A t \in Pair!One : pairReg[t] \in 0..(2 * N) /\ pairI[t] \in 0..N
      BY <2>2 DEF Pair!One
    <2>6. Pair!Cardinality(pairSems) <= 1 /\ Pair!Cardinality(pairSum) <= 1
      BY <1>1, Zenon DEF Pair!Cardinality, Cardinality
    <2> QED BY <2>1, <2>3, <2>4, <2>5, <2>6, Zenon DEF Pair!TypeOK
  <1>3. Pair!SumBounds
    BY <1>0 DEF PairInv, PairTypes, Pair!SumBounds
  <1>4. Pair!EachOnce
    BY DEF PairInv, LockInv, Pair!EachOnce, Pair!One
  <1> QED BY <1>2, <1>3, <1>4

LEMMA PairInit ==
  ASSUME Pair!Init
  PROVE  PairInv
  <1>0. N \in Nat \ {0}
    BY ProgramsAssumption
  <1>1. /\ program \in AllPrograms
        /\ pairValue = (IF program = "add" THEN 0 ELSE N)
        /\ pairPc = [t \in {"one", "two"} |-> IF program = "lock" THEN "lock"
                                              ELSE IF t = "one" THEN "semctl" ELSE "none"]
        /\ pairReg = [t \in {"one", "two"} |-> 0] /\ pairI = [t \in {"one", "two"} |-> 0]
        /\ pairSems = {0} /\ pairMutex = "none" /\ pairSum = {}
    BY DEF Pair!Init, Pair!One, Pair!Parent
  <1>2. PairTypes /\ pairValue <= 2 * N
    BY <1>0, <1>1 DEF PairTypes, PairPlaces
  <1>3. ASSUME program = "lock" PROVE LockInv
    BY <1>0, <1>1, <1>3 DEF LockInv
  <1>4. ASSUME program = "add" PROVE AddInv
    BY <1>0, <1>1, <1>4 DEF AddInv, AddPlace, Stores, InRound
  <1> QED BY <1>2, <1>3, <1>4 DEF PairInv

LEMMA LockNext ==
  ASSUME PairInv, program = "lock", NEW t \in {"one", "two"}, Pair!getrsc(t)
  PROVE  PairInv'
  <1>0. N \in Nat \ {0}
    BY ProgramsAssumption
  <1> DEFINE o == IF t = "one" THEN "two" ELSE "one"
  <1>1. PairTypes /\ LockInv
    BY DEF PairInv
  <1>2. SUFFICES PairTypes' /\ LockInv' /\ program' = program /\ pairValue' <= 2 * N
    BY DEF PairInv
  <1>3. /\ pairI["one"] \in Nat /\ pairI["two"] \in Nat /\ pairValue \in Nat
        /\ pairI["one"] <= N /\ pairI["two"] <= N
        /\ pairReg[t] \in Nat
    BY <1>0, <1>1 DEF PairTypes
  <1>4. program' = program /\ UNCHANGED <<pairSems, pairSum>>
    BY DEF Pair!getrsc, Pair!lock, Pair!test, Pair!take, Pair!unlock
  <1>5. CASE Pair!lock(t)
    BY <1>0, <1>1, <1>3, <1>4, <1>5 DEF Pair!lock, Pair!Unlocked, Pair!Go, PairTypes, LockInv, PairPlaces
  <1>6. CASE Pair!test(t)
    <2>1. pairReg' \in [{"one", "two"} -> 0..(2 * N)]
      BY <1>0, <1>1, <1>3, <1>6 DEF Pair!test, PairTypes, LockInv
    <2> QED BY <1>0, <1>1, <1>3, <1>4, <1>6, <2>1 DEF Pair!test, Pair!Go, PairTypes, LockInv, PairPlaces
  <1>7. CASE Pair!take(t)
    <2>1. /\ pairPc[t] = "take" /\ pairPc' = [pairPc EXCEPT ![t] = "unlock"]
          /\ pairI' = [pairI EXCEPT ![t] = @ + 1] /\ pairValue' = pairReg[t] - 1
          /\ UNCHANGED <<pairReg, pairMutex>>
      BY <1>7 DEF Pair!take, Pair!Go
    <2>2. pairReg[t] = pairValue /\ pairValue > 0 /\ pairMutex = t
      BY <1>1, <2>1 DEF LockInv
    <2>3. pairI[t] + 1 <= N
      BY <1>1, <1>3, <2>2 DEF LockInv
    <2>4. pairI' \in [{"one", "two"} -> 0..N]
      BY <1>0, <1>1, <1>3, <2>1, <2>3 DEF PairTypes
    <2>5. pairValue' + pairI'["one"] + pairI'["two"] = N /\ pairValue' \in Nat
      BY <1>1, <1>3, <2>1, <2>2 DEF LockInv, PairTypes
    <2>6. pairPc[o] \notin {"load", "take", "leave", "unlock"} /\ pairPc[o] # "done"
      BY <1>1, <2>1, <2>2 DEF LockInv
    <2> QED BY <1>0, <1>1, <1>3, <1>4, <2>1, <2>2, <2>4, <2>5, <2>6 DEF PairTypes, LockInv, PairPlaces
  <1>8. CASE Pair!unlock(t)
    BY <1>0, <1>1, <1>3, <1>4, <1>8 DEF Pair!unlock, Pair!Go, PairTypes, LockInv, PairPlaces
  <1> QED BY <1>5, <1>6, <1>7, <1>8 DEF Pair!getrsc

LEMMA AddNext ==
  ASSUME PairInv, program = "add", NEW t \in {"one", "two"}, Pair!add(t)
  PROVE  PairInv'
  <1> DEFINE o == IF t = "one" THEN "two" ELSE "one"
             S(x) == pairI[x] + (IF pairPc[x] \in {"sopv", "sopv*"} THEN 1 ELSE 0)
  <1>0. N \in Nat \ {0}
    BY ProgramsAssumption
  <1>1. PairTypes /\ AddInv /\ pairValue <= 2 * N
    BY DEF PairInv
  <1>2. /\ pairI[t] \in Nat /\ pairI[o] \in Nat /\ pairI[t] <= N /\ pairI[o] <= N
        /\ pairValue \in Nat /\ pairReg[t] \in Nat /\ pairReg[o] \in Nat
        /\ Stores(t) \in Nat /\ Stores(o) \in Nat
        /\ Stores(t) <= N /\ Stores(o) <= N
        /\ Stores("one") + Stores("two") = Stores(t) + Stores(o)
        /\ AddPlace(t) /\ AddPlace(o)
    <2>1. pairPc[t] \in {"sopv", "sopv*"} => pairI[t] < N
      BY <1>1 DEF AddInv, AddPlace, InRound
    <2>2. pairPc[o] \in {"sopv", "sopv*"} => pairI[o] < N
      BY <1>1 DEF AddInv, AddPlace, InRound
    <2>3. /\ pairI[t] \in 0..N /\ pairI[o] \in 0..N
          /\ pairValue \in Nat /\ pairReg[t] \in 0..(2 * N) /\ pairReg[o] \in 0..(2 * N)
      BY <1>1 DEF PairTypes
    <2>4. /\ Stores(t) \in Nat /\ Stores(o) \in Nat /\ Stores(t) <= N /\ Stores(o) <= N
      BY <1>0, <2>1, <2>2, <2>3 DEF Stores
    <2>5. Stores("one") + Stores("two") = Stores(t) + Stores(o)
      BY <2>4
    <2>6. AddPlace(t) /\ AddPlace(o)
      BY <1>1 DEF AddInv
    <2> QED BY <1>0, <2>3, <2>4, <2>5, <2>6
  <1>3. program' = program /\ UNCHANGED <<pairMutex, pairSum>> /\ pairPc[t] \in InRound
        /\ pairPc[t] # "none" /\ pairPc["one"] \notin {"semctl", "fork"} /\ pairSems = {}
    <2>1. program' = program /\ UNCHANGED <<pairMutex, pairSum>> /\ pairPc[t] \in InRound
      BY DEF Pair!add, Pair!semop, Pair!Go, Pair!Load, Pair!Store, Pair!Round, InRound
    <2>2. pairPc["one"] \notin {"semctl", "fork"}
      BY <1>1, <2>1 DEF AddInv, InRound
    <2> QED BY <1>1, <2>1, <2>2 DEF AddInv, InRound
  <1> DEFINE Frame(there) ==
        /\ pairPc' = [pairPc EXCEPT ![t] = there]
        /\ program' = program /\ UNCHANGED <<pairMutex, pairSum>> /\ pairSems' = {}
  <1>4. CASE \E here \in {"sopp", "sopv"} :
               /\ pairPc[t] = here
               /\ Frame(IF here = "sopp" THEN "sopp*" ELSE "sopv*")
               /\ UNCHANGED <<pairValue, pairReg, pairI>>
    <2>1. /\ pairPc' \in [{"one", "two"} -> PairPlaces] /\ pairPc'[o] = pairPc[o]
          /\ pairPc'[t] \in {"sopp*", "sopv*"}
          /\ pairPc'[t] = "sopv*" <=> pairPc[t] \in {"sopv", "sopv*"}
      BY <1>1, <1>4 DEF PairTypes, PairPlaces
    <2>2. Stores(t)' = Stores(t) /\ Stores(o)' = Stores(o)
      BY <1>4, <2>1 DEF Stores
    <2>3. AddPlace(t)' /\ AddPlace(o)'
      BY <1>1, <1>2, <1>3, <1>4, <2>1, <2>2 DEF AddPlace, InRound
    <2> QED BY <1>1, <1>2, <1>3, <1>4, <2>1, <2>2, <2>3 DEF PairInv, PairTypes, AddInv, InRound
  <1>5. CASE Pair!Load(t)
    <2>1. /\ pairPc[t] = "sopp*" /\ Frame("store") /\ pairReg' = [pairReg EXCEPT ![t] = pairValue]
          /\ UNCHANGED <<pairValue, pairI>>
      BY <1>3, <1>5 DEF Pair!Load, Pair!Go
    <2>2. /\ pairPc' \in [{"one", "two"} -> PairPlaces] /\ pairPc'[o] = pairPc[o]
          /\ pairPc'[t] = "store"
          /\ pairReg' \in [{"one", "two"} -> 0..(2 * N)]
          /\ pairReg'[t] = pairValue /\ pairReg'[o] = pairReg[o]
      BY <1>0, <1>1, <1>2, <2>1 DEF PairTypes, PairPlaces
    <2>3. Stores(t)' = Stores(t) /\ Stores(o)' = Stores(o) /\ Stores(t) = pairI[t]
      BY <1>2, <2>1, <2>2 DEF Stores
    <2>4. AddPlace(t)'
      <3>1. pairReg'[t] <= Stores("one")' + Stores("two")'
        BY <1>1, <1>2, <2>2, <2>3 DEF AddInv
      <3>2. pairI'[t] >= 1 => pairReg'[t] >= 1
        BY <1>1, <1>2, <2>1, <2>2, <2>3 DEF AddInv
      <3>3. pairI'[t] < N
        BY <1>2, <1>3, <2>1 DEF AddPlace, InRound
      <3> QED BY <2>2, <3>1, <3>2, <3>3 DEF AddPlace, InRound
    <2>5. AddPlace(o)'
      BY <1>2, <2>1, <2>2, <2>3 DEF AddPlace, InRound
    <2> QED BY <1>1, <1>2, <1>3, <2>1, <2>2, <2>3, <2>4, <2>5 DEF PairInv, PairTypes, AddInv, InRound
  <1>6. CASE Pair!Store(t)
    <2>1. /\ pairPc[t] = "store" /\ Frame("sopv") /\ pairValue' = pairReg[t] + 1
          /\ UNCHANGED <<pairReg, pairI>>
      BY <1>3, <1>6 DEF Pair!Store, Pair!Go
    <2>2. /\ pairPc' \in [{"one", "two"} -> PairPlaces] /\ pairPc'[o] = pairPc[o]
          /\ pairPc'[t] = "sopv"
      BY <1>1, <2>1 DEF PairTypes, PairPlaces
    <2>3. Stores(t)' = Stores(t) + 1 /\ Stores(o)' = Stores(o) /\ Stores(t) = pairI[t]
      BY <1>2, <2>1, <2>2 DEF Stores
    <2>4. Stores("one")' + Stores("two")' = Stores(t) + Stores(o) + 1
      BY <1>2, <2>3
    <2>5. /\ pairI[t] < N /\ pairReg[t] <= Stores(t) + Stores(o)
          /\ pairI[t] >= 1 => pairReg[t] >= 1
      BY <1>2, <2>1 DEF AddPlace, InRound
    <2>6. pairValue' \in Nat /\ pairValue' >= 1 /\ pairValue' <= Stores(t) + Stores(o) + 1
          /\ pairValue' <= 2 * N
      BY <1>0, <1>2, <2>1, <2>3, <2>5
    <2>7. AddPlace(t)' /\ AddPlace(o)'
      <3>1. pairPc[o] = "store" => pairReg[o] <= Stores(t) + Stores(o) + 1
        BY <1>2 DEF AddPlace
      <3>2. AddPlace(o)'
        BY <1>2, <2>1, <2>2, <2>4, <3>1 DEF AddPlace, InRound
      <3>3. AddPlace(t)'
        BY <1>2, <2>1, <2>2, <2>5 DEF AddPlace, InRound
      <3> QED BY <3>2, <3>3
    <2>8. N >= 2 /\ Stores(t)' = N => pairValue' >= 2
      BY <1>0, <1>2, <2>1, <2>3, <2>5
    <2>9. N >= 2 /\ Stores("one")' = N /\ Stores("two")' = N => pairValue' >= 2
      BY <2>8
    <2> QED BY <1>1, <1>2, <1>3, <2>1, <2>2, <2>4, <2>6, <2>7, <2>9
          DEF PairInv, PairTypes, AddInv, InRound
  <1>7. CASE Pair!Round(t)
    <2>1. /\ pairPc[t] = "sopv*" /\ pairI' = [pairI EXCEPT ![t] = @ + 1]
          /\ Frame(IF pairI'[t] < N THEN "sopp" ELSE IF t = "one" THEN "wait" ELSE "done")
          /\ UNCHANGED <<pairReg, pairValue>>
      BY <1>3, <1>7 DEF Pair!Round, Pair!Parent
    <2>2. pairI[t] < N
      BY <1>2, <2>1 DEF AddPlace, InRound
    <2>3. /\ pairI' \in [{"one", "two"} -> 0..N] /\ pairI'[t] = pairI[t] + 1
          /\ pairI'[o] = pairI[o] /\ pairI'[t] <= N
      BY <1>0, <1>1, <1>2, <2>1, <2>2 DEF PairTypes
    <2>4. /\ pairPc' \in [{"one", "two"} -> PairPlaces] /\ pairPc'[o] = pairPc[o]
          /\ pairPc'[t] = IF pairI'[t] < N THEN "sopp" ELSE IF t = "one" THEN "wait" ELSE "done"
      BY <1>1, <2>1 DEF PairTypes, PairPlaces
    <2>5. Stores(t)' = Stores(t) /\ Stores(o)' = Stores(o)
      BY <1>2, <2>1, <2>3, <2>4 DEF Stores
    <2>6. AddPlace(t)'
      BY <1>0, <1>2, <2>3, <2>4 DEF AddPlace, InRound
    <2>7. AddPlace(o)'
      BY <1>2, <2>1, <2>3, <2>4, <2>5 DEF AddPlace, InRound
    <2> QED BY <1>1, <1>2, <1>3, <2>1, <2>3, <2>4, <2>5, <2>6, <2>7
          DEF PairInv, PairTypes, AddInv, InRound
  <1>8. CASE Pair!semop(t, "sopp", "sopp*", -1) \/ Pair!semop(t, "sopv", "sopv*", 1)
    BY <1>3, <1>4, <1>8 DEF Pair!semop, Pair!Go
  <1> QED BY <1>5, <1>6, <1>7, <1>8 DEF Pair!add

LEMMA PairNext ==
  ASSUME PairInv, [Pair!Next /\ program \in Pairs]_<<program, pairVars>>
  PROVE  PairInv'
  <1>0. N \in Nat \ {0}
    BY ProgramsAssumption
  <1>1. CASE UNCHANGED <<program, pairVars>>
    BY <1>1 DEF pairVars, PairInv, PairTypes, LockInv, AddInv, AddPlace, Stores
  <1>2. CASE Pair!Setval /\ program \in Pairs
    <2>1. /\ pairPc["one"] = "semctl" /\ pairPc' = [pairPc EXCEPT !["one"] = "fork"]
          /\ UNCHANGED <<program, pairValue, pairReg, pairI, pairMutex, pairSum>>
          /\ pairSems' = {}
      BY <1>2 DEF Pair!Setval, Pair!semctl, Pair!Go, Pair!Parent, Pair!IPC_RMID, Pair!SETVAL
    <2>2. program = "add"
      BY <1>2, <2>1 DEF PairInv, LockInv, Pairs
    <2>3. /\ pairPc' \in [{"one", "two"} -> PairPlaces] /\ pairPc'["two"] = pairPc["two"]
          /\ pairPc'["one"] = "fork"
      BY <2>1 DEF PairInv, PairTypes, PairPlaces
    <2>4. Stores("one")' = Stores("one") /\ Stores("two")' = Stores("two")
      BY <2>1, <2>3 DEF Stores
    <2> QED BY <2>1, <2>2, <2>3, <2>4 DEF PairInv, PairTypes, AddInv, AddPlace, InRound
  <1>3. CASE Pair!fork /\ program \in Pairs
    <2>1. /\ pairPc["one"] = "fork" /\ pairPc' = [t \in {"one", "two"} |-> "sopp"]
          /\ UNCHANGED <<program, pairValue, pairReg, pairI, pairSems, pairMutex, pairSum>>
      BY <1>3 DEF Pair!fork, Pair!Parent, Pair!One
    <2>2. program = "add"
      BY <1>3, <2>1 DEF PairInv, LockInv, Pairs
    <2>3. /\ pairPc' \in [{"one", "two"} -> PairPlaces]
          /\ pairPc["two"] = "none" /\ pairI["one"] = 0 /\ pairI["two"] = 0
      BY <2>1, <2>2 DEF PairInv, AddInv, AddPlace, PairPlaces
    <2>4. Stores("one")' = Stores("one") /\ Stores("two")' = Stores("two")
      BY <2>1, <2>3 DEF Stores
    <2>5. AddPlace("one")' /\ AddPlace("two")'
      BY <1>0, <2>1, <2>3 DEF AddPlace, InRound
    <2> QED BY <2>1, <2>2, <2>3, <2>4, <2>5 DEF PairInv, PairTypes, AddInv
  <1>4. CASE Pair!print /\ program \in Pairs
    <2>1. /\ pairPc["two"] = "done" /\ pairPc["one"] = "wait"
          /\ pairPc' = [pairPc EXCEPT !["one"] = "done"] /\ pairSum' = {pairValue}
          /\ UNCHANGED <<program, pairValue, pairReg, pairI, pairSems, pairMutex>>
      BY <1>4 DEF Pair!print, Pair!Waited, Pair!Parent, Pair!Child, Pair!Go
    <2>2. program = "add"
      BY <1>4, <2>1 DEF PairInv, LockInv, Pairs
    <2>3. /\ pairPc' \in [{"one", "two"} -> PairPlaces] /\ pairPc'["two"] = "done"
          /\ pairPc'["one"] = "done"
      BY <2>1 DEF PairInv, PairTypes, PairPlaces
    <2>4. /\ Stores("one")' = Stores("one") /\ Stores("two")' = Stores("two")
          /\ Stores("one") = N /\ Stores("two") = N
      BY <1>0, <2>1, <2>2, <2>3 DEF Stores, PairInv, AddInv, AddPlace
    <2>5. pairValue \in 0..(2 * N) /\ (N >= 2 => 2 <= pairValue)
      BY <1>0, <2>2, <2>4 DEF PairInv, PairTypes, AddInv
    <2> QED BY <1>0, <2>1, <2>2, <2>3, <2>4, <2>5 DEF PairInv, PairTypes, AddInv, AddPlace, InRound
  <1>5. ASSUME NEW t \in {"one", "two"}, Pair!Step(t)
        PROVE  PairInv'
    BY <1>5, AddNext, LockNext DEF Pair!Step
  <1> QED BY <1>1, <1>2, <1>3, <1>4, <1>5 DEF Pair!Next, Pair!One

-----------------------------------------------------------------------------
(* The downloads.                                                            *)

(* The client is behind the server: no byte comes before the two headers,    *)
(* and a client that asks once has stored nothing until it ends.             *)
DownloadInv ==
  /\ program \in AllPrograms /\ dlFile \in Nat /\ dlFile \in DownloadFiles
  /\ dlServer \in {"name", "size", "data", "idle", "closed", "killed"}
  /\ DOMAIN dlLink = {"headers", "bytes"}
  /\ dlLink = [headers |-> dlLink.headers, bytes |-> dlLink.bytes]
  /\ dlLink.headers \in 0..2 /\ dlLink.bytes \in Nat /\ dlDisk \in Nat
  /\ dlSent \in Nat /\ dlSent <= Download!Length
  /\ dlClient \in {"name", "size", "data", "spliced", "done", "failed", "SIGFPE", "spins"}
  /\ dlFilesize \in {0} \cup Download!TakenSize /\ dlStale \in Nat /\ dlCut \in BOOLEAN
  /\ dlServer = "name" => dlLink.headers = 0
  /\ dlServer = "size" => dlLink.headers <= 1
  /\ dlServer \in {"name", "size"} => dlSent = 0
  /\ dlClient \in {"name", "size"} => dlDisk = 0 /\ dlFilesize = 0
  /\ program \in {"packet", "mmap"} /\ dlClient = "data" => dlDisk = 0
  /\ dlClient = "data" => dlFilesize \in Download!TakenSize
  /\ dlDisk + dlLink.bytes = dlSent
  /\ dlStale > 0 => program \in {"packet", "mmap"} /\ dlCut
  /\ dlClient = "done" => dlCut \/ dlFilesize # Download!Length \/ dlDisk = Download!Length

LEMMA DownloadLength ==
  ASSUME program \in AllPrograms, dlFile \in Nat
  PROVE  Download!Length \in Nat /\ Download!Length <= dlFile
         /\ Download!Smaller(dlFile, Download!Length) = Download!Length
  <1>1. DownloadBufLen \in Nat \ {0}
    BY ProgramsAssumption
  <1> QED BY <1>1 DEF Download!Length, Download!Smaller

LEMMA DownloadHas ==
  ASSUME DownloadInv
  PROVE  Download!TypeOK /\ Download!NothingInvented /\ Download!WholeFile
  <1>1. Download!Length \in Nat /\ Download!Length <= dlFile
        /\ Download!Smaller(dlFile, Download!Length) = Download!Length
    BY DownloadLength DEF DownloadInv
  <1>2. dlFilesize \in -1..(dlFile + 1)
    BY <1>1 DEF DownloadInv, Download!TakenSize
  <1>3. dlSent \in 0..dlFile /\ dlLink.bytes \in 0..dlFile /\ dlDisk \in 0..dlFile
    BY <1>1 DEF DownloadInv
  <1>4. Download!TypeOK
    BY <1>2, <1>3 DEF DownloadInv, Download!TypeOK
  <1>5. Download!NothingInvented
    BY DEF DownloadInv, Download!NothingInvented
  <1>6. Download!WholeFile
    BY <1>1 DEF DownloadInv, Download!WholeFile
  <1> QED BY <1>4, <1>5, <1>6

LEMMA DownloadInit ==
  ASSUME Download!Init
  PROVE  DownloadInv
  <1>1. dlFile \in Nat /\ dlFile \in DownloadFiles
    BY ProgramsAssumption DEF Download!Init
  <1>2. Download!Length \in Nat
    BY <1>1, DownloadLength DEF Download!Init
  <1>3. /\ program \in AllPrograms
        /\ dlServer = "name" /\ dlSent = 0 /\ dlLink.headers = 0 /\ dlLink.bytes = 0
        /\ dlLink = [headers |-> 0, bytes |-> 0]
        /\ dlClient = "name" /\ dlFilesize = 0 /\ dlDisk = 0 /\ dlStale = 0
    BY DEF Download!Init
  <1>4. dlCut \in BOOLEAN
    BY DEF Download!Init
  <1> QED BY <1>1, <1>2, <1>3, <1>4 DEF DownloadInv

LEMMA DownloadNext ==
  ASSUME DownloadInv, [Download!Next]_<<program, dlVars>>
  PROVE  DownloadInv'
  <1>0. DownloadBufLen \in Nat \ {0}
    BY ProgramsAssumption
  <1>1. /\ Download!Length \in Nat /\ Download!Length <= dlFile /\ dlFile \in Nat
    BY DownloadLength DEF DownloadInv
  <1>2. program' = program /\ dlFile' = dlFile
    BY DEF Download!Next, Download!Server, Download!Client, Download!sendName, Download!sendSize,
       Download!SendHeader, Download!sendData, Download!sendEnd, Download!Kill,
       Download!recvName, Download!recvSize, Download!recvOnce, Download!recvLoop,
       Download!splice, Download!recvEnd, dlVars
  <1>3. Download!Length' = Download!Length /\ Download!TakenSize' = Download!TakenSize
    BY <1>2 DEF Download!Length, Download!TakenSize
  <1>4. CASE UNCHANGED <<program, dlVars>>
    BY <1>3, <1>4 DEF dlVars, DownloadInv
  <1>5. CASE Download!sendName \/ Download!sendSize
    <2>1. dlLink' = [headers |-> dlLink.headers + 1, bytes |-> dlLink.bytes]
      BY <1>5 DEF DownloadInv, Download!sendName, Download!sendSize, Download!SendHeader
    <2> QED BY <1>2, <1>3, <1>5, <2>1 DEF DownloadInv, Download!sendName, Download!sendSize,
            Download!SendHeader
  <1>6. CASE Download!sendData
    <2>1. dlLink' = [headers |-> dlLink.headers, bytes |-> dlLink.bytes + 1]
      BY <1>6 DEF DownloadInv, Download!sendData
    <2> QED BY <1>1, <1>2, <1>3, <1>6, <2>1 DEF DownloadInv, Download!sendData
  <1>7. CASE Download!sendEnd \/ Download!Kill
    BY <1>2, <1>3, <1>7 DEF DownloadInv, Download!sendEnd, Download!Kill
  <1>8. CASE Download!recvName
    <2>1. dlLink' = dlLink \/ (dlLink.headers > 0
            /\ dlLink' = [headers |-> dlLink.headers - 1, bytes |-> dlLink.bytes])
      BY <1>8 DEF DownloadInv, Download!recvName
    <2> QED BY <1>2, <1>3, <1>8, <2>1 DEF DownloadInv, Download!recvName
  <1>9. CASE Download!recvSize
    <2>1. \/ /\ dlLink.headers > 0
             /\ dlLink' = [headers |-> dlLink.headers - 1, bytes |-> dlLink.bytes]
             /\ dlFilesize' \in Download!TakenSize /\ dlClient' = "data"
             /\ UNCHANGED <<dlStale, dlCut>>
          \/ /\ dlLink' = dlLink /\ dlFilesize' = dlFilesize
             /\ \/ program = "packet" /\ dlClient' = "done" /\ dlStale' = 1 /\ dlCut' = TRUE
                \/ dlClient' = "spins" /\ UNCHANGED <<dlStale, dlCut>>
      BY <1>9 DEF DownloadInv, Download!recvSize
    <2>2. dlClient = "size" /\ UNCHANGED <<dlServer, dlSent, dlDisk>>
      BY <1>9 DEF Download!recvSize
    <2>3. CASE dlClient' = "done"
      <3>1. /\ dlLink' = dlLink /\ dlFilesize' = dlFilesize /\ program = "packet" /\ dlStale' = 1
        BY <2>1, <2>3
      <3>2. dlCut' /\ dlCut' \in BOOLEAN
        BY <2>1, <2>3
      <3> QED BY <1>2, <1>3, <2>2, <2>3, <3>1, <3>2 DEF DownloadInv
    <2>4. CASE dlClient' # "done"
      <3>1. dlStale' = dlStale /\ dlCut' = dlCut /\ dlCut' \in BOOLEAN
        BY <2>1, <2>4 DEF DownloadInv
      <3> QED BY <1>2, <1>3, <2>1, <2>2, <2>4, <3>1 DEF DownloadInv
    <2> QED BY <2>3, <2>4
  <1>10. CASE Download!recvOnce
    <2>1. PICK k \in Download!Recv(dlFilesize) :
            /\ Download!Take(k) /\ dlDisk' = k /\ dlStale' = dlFilesize - k
            /\ dlCut' = (k < dlFilesize)
      BY <1>10 DEF Download!recvOnce
    <2>2. /\ dlClient = "data" /\ dlClient' = "done" /\ program \in {"packet", "mmap"}
          /\ UNCHANGED <<dlServer, dlSent, dlFilesize>>
      BY <1>10 DEF Download!recvOnce
    <2>3. dlFilesize = Download!Length /\ dlDisk = 0
      BY <2>2 DEF DownloadInv, Download!TakenSize
    <2>4. k \in Nat /\ k <= dlFilesize /\ k <= dlLink.bytes
      BY <1>1, <2>1, <2>3 DEF Download!Recv
    <2>5. dlLink' = [headers |-> dlLink.headers, bytes |-> dlLink.bytes - k]
      BY <2>1 DEF DownloadInv, Download!Take
    <2>6. dlStale' \in Nat /\ (dlStale' > 0 => dlCut') /\ (dlCut' \/ k = dlFilesize) /\ dlCut' \in BOOLEAN
      <3>1. dlFilesize \in Nat
        BY <1>1, <2>3
      <3>2. dlStale' = dlFilesize - k /\ dlCut' = (k < dlFilesize)
        BY <2>1
      <3>3. CASE k < dlFilesize
        <4>1. dlStale' \in Nat
          BY <2>4, <3>1, <3>2, <3>3
        <4>2. dlCut' /\ dlCut' \in BOOLEAN
          BY <3>2, <3>3
        <4> QED BY <4>1, <4>2
      <3>4. CASE k = dlFilesize
        <4>1. dlStale' = 0 /\ ~(k < dlFilesize)
          BY <3>1, <3>2, <3>4
        <4>2. dlCut' \in BOOLEAN
          BY <3>2
        <4> QED BY <3>4, <4>1, <4>2
      <3> QED BY <2>4, <3>1, <3>3, <3>4
    <2> QED BY <1>1, <1>2, <1>3, <2>1, <2>2, <2>3, <2>4, <2>5, <2>6 DEF DownloadInv
  <1> DEFINE Got(k) == /\ k \in Nat /\ k <= dlLink.bytes
                       /\ dlLink' = [headers |-> dlLink.headers, bytes |-> dlLink.bytes - k]
                       /\ dlDisk' = dlDisk + k
  <1>11. CASE Download!recvLoop
    <2>1. PICK k \in Download!Recv(DownloadBufLen) :
            /\ Download!Take(k) /\ dlDisk' = Download!Stored(k)
            /\ dlClient' = IF k = 0 THEN "done" ELSE dlClient
            /\ dlCut' = (k = 0)
      BY <1>11 DEF Download!recvLoop
    <2>2. /\ dlClient = "data" /\ program = "stream"
          /\ UNCHANGED <<dlServer, dlSent, dlFilesize, dlStale>>
      BY <1>11 DEF Download!recvLoop
    <2>3. Got(k)
      BY <1>0, <2>1 DEF DownloadInv, Download!Recv, Download!Take, Download!Stored
    <2>4. dlClient' \in {"done", "data"} /\ (dlClient' = "done" => dlCut') /\ dlCut' \in BOOLEAN
      BY <2>1, <2>2
    <2> QED BY <1>1, <1>2, <1>3, <2>2, <2>3, <2>4 DEF DownloadInv
  <1>12. CASE Download!splice
    <2>1. PICK k \in Download!Recv(dlFilesize) :
            /\ Download!Take(k) /\ dlDisk' = Download!Stored(k)
            /\ dlClient' = IF k = 0 THEN "spliced" ELSE dlClient
      BY <1>12 DEF Download!splice
    <2>2. /\ dlClient = "data" /\ program = "splice"
          /\ UNCHANGED <<dlServer, dlSent, dlFilesize, dlStale, dlCut>>
      BY <1>12 DEF Download!splice
    <2>3. Got(k)
      <3>1. dlFilesize \in Nat
        BY <1>1, <2>2 DEF DownloadInv, Download!TakenSize
      <3> QED BY <3>1, <2>1 DEF DownloadInv, Download!Recv, Download!Take, Download!Stored
    <2>4. dlClient' \in {"spliced", "data"}
      BY <2>1, <2>2
    <2> QED BY <1>1, <1>2, <1>3, <2>2, <2>3, <2>4 DEF DownloadInv
  <1>13. CASE Download!recvEnd
    <2>1. /\ dlClient = "data" /\ dlDisk >= dlFilesize
          /\ UNCHANGED <<dlServer, dlSent, dlLink, dlFilesize, dlDisk, dlStale, dlCut>>
          /\ dlClient' \in {"SIGFPE", "done"}
      BY <1>13 DEF Download!recvEnd, Download!Reached
    <2>2. dlFilesize = Download!Length => dlDisk = Download!Length
      BY <1>1, <2>1 DEF DownloadInv
    <2> QED BY <1>1, <1>2, <1>3, <2>1, <2>2 DEF DownloadInv
  <1> QED BY <1>4, <1>5, <1>6, <1>7, <1>8, <1>9, <1>10, <1>11, <1>12, <1>13
          DEF Download!Next, Download!Server, Download!Client

-----------------------------------------------------------------------------
(* ipc/pipe/chat and ipc/pipe/fullduplex.                                    *)

PipePlaces == {"open", "select", "stdin", "fdr", "closed", "chat end", "killed", "interrupted"}
PipeGone == {"closed", "chat end", "killed", "interrupted"}
Other(p) == IF p = "chat1" THEN "chat2" ELSE "chat1"

(* What one has typed the other was shown or can read, but for the line that *)
(* killed its writer, when the other was gone; and who has seen the end has  *)
(* been shown all of it.                                                     *)
Spoken(p, o) ==
  /\ pipePipe[p] + pipeShown[p] <= pipeTyped[o]
  /\ pipePlace[o] # "killed" => pipePipe[p] + pipeShown[p] = pipeTyped[o]
  /\ pipePlace[o] = "killed" => pipePlace[p] \in PipeGone
  /\ pipePlace[p] = "chat end" => pipePlace[o] \in PipeGone /\ pipeShown[p] = pipeTyped[o]

PipeInv ==
  /\ program \in AllPrograms
  /\ pipeOpened \in [{"chat1", "chat2"} -> 0..2]
  /\ pipePlace \in [{"chat1", "chat2"} -> PipePlaces]
  /\ pipeSet \in [{"chat1", "chat2"} -> SUBSET {"stdin", "fdr"}]
  /\ pipePipe \in [{"chat1", "chat2"} -> Nat] /\ pipeShown \in [{"chat1", "chat2"} -> Nat]
  /\ pipeTyped \in [{"chat1", "chat2"} -> 0..MaxTyped]
  /\ pipeEmpty \subseteq {"chat1", "chat2"}
  /\ \A p \in {"chat1", "chat2"} : pipePlace[p] = "open" => pipeOpened[p] < 2
  /\ Spoken("chat1", "chat2") /\ Spoken("chat2", "chat1")
  /\ Pipe!TurnsGoOn

LEMMA PipeHas ==
  ASSUME PipeInv
  PROVE  Pipe!TypeOK /\ Pipe!LastWords /\ Pipe!TurnsGoOn
  <1> DEFINE P == {"chat1", "chat2"}
  <1>1. MaxTyped \in Nat
    BY ProgramsAssumption
  <1>2. Pipe!Persons = P
    BY DEF Pipe!Persons, Pipe!chat1, Pipe!chat2
  <1>3. \A p \in P : Pipe!Peer(p) = Other(p)
    BY DEF Pipe!Peer, Other, Pipe!chat1, Pipe!chat2
  <1>4. \A p \in P : Other(p) \in P /\ Spoken(p, Other(p))
    BY DEF PipeInv, Other
  <1>5. \A p \in P : pipePipe[p] \in 0..MaxTyped /\ pipeShown[p] \in 0..MaxTyped
    <2>1. \A p \in P : /\ pipeTyped[Other(p)] \in 0..MaxTyped
                      /\ pipePipe[p] \in Nat /\ pipeShown[p] \in Nat
      BY <1>4 DEF PipeInv
    <2>2. \A p \in P : pipePipe[p] + pipeShown[p] <= pipeTyped[Other(p)]
      BY <1>4 DEF Spoken
    <2> QED BY <1>1, <2>1, <2>2
  <1>6. pipePipe \in [P -> 0..MaxTyped] /\ pipeShown \in [P -> 0..MaxTyped]
    BY <1>5 DEF PipeInv
  <1>7. \A p \in P : Pipe!Gone(p) \/ pipePlace[p] \in {"open", "select", "stdin", "fdr"}
    BY DEF PipeInv, PipePlaces, Pipe!Gone
  <1>8. Pipe!TypeOK
    BY <1>2, <1>6, <1>7 DEF PipeInv, Pipe!TypeOK
  <1>9. Pipe!LastWords
    BY <1>2, <1>3, <1>4 DEF Spoken, Pipe!LastWords
  <1> QED BY <1>8, <1>9 DEF PipeInv

LEMMA PipeInit ==
  ASSUME Pipe!Init
  PROVE  PipeInv
  <1>1. MaxTyped \in Nat
    BY ProgramsAssumption
  <1>2. /\ program \in AllPrograms /\ pipeEmpty = {}
        /\ pipeOpened = [p \in {"chat1", "chat2"} |-> 0]
        /\ pipePlace = [p \in {"chat1", "chat2"} |-> "open"]
        /\ pipeSet = [p \in {"chat1", "chat2"} |-> {}]
        /\ pipePipe = [p \in {"chat1", "chat2"} |-> 0]
        /\ pipeTyped = [p \in {"chat1", "chat2"} |-> 0]
        /\ pipeShown = [p \in {"chat1", "chat2"} |-> 0]
    BY DEF Pipe!Init, Pipe!Persons, Pipe!chat1, Pipe!chat2
  <1>3. Pipe!TurnsGoOn
    BY <1>2 DEF Pipe!TurnsGoOn, Pipe!Persons, Pipe!chat1, Pipe!chat2
  <1> QED BY <1>1, <1>2, <1>3 DEF PipeInv, PipePlaces, Spoken, Other

LEMMA PipeNext ==
  ASSUME PipeInv, [Pipe!Next]_<<program, pipeVars>>
  PROVE  PipeInv'
  <1> DEFINE P == {"chat1", "chat2"}
  <1>0. MaxTyped \in Nat /\ PipeBufLines \in Nat \ {0}
    BY ProgramsAssumption
  <1>1. /\ Pipe!Persons = P
        /\ \A p, o \in P : o # p => Pipe!Peer(p) = o
    BY DEF Pipe!Persons, Pipe!Peer, Pipe!chat1, Pipe!chat2
  <1>2. CASE UNCHANGED <<program, pipeVars>>
    BY <1>2 DEF pipeVars, PipeInv, Spoken, Pipe!TurnsGoOn
  <1>3. ASSUME NEW p \in P, NEW o \in P, o # p, NEW there \in PipePlaces,
               pipePlace[p] \notin PipeGone, Pipe!Go(p, there), UNCHANGED program,
               pipeOpened' \in [P -> 0..2], pipeSet' \in [P -> SUBSET {"stdin", "fdr"}],
               \A q \in P : pipePlace'[q] = "open" => pipeOpened'[q] < 2,
               pipePipe' \in [P -> Nat], pipeShown' \in [P -> Nat], pipeTyped' \in [P -> 0..MaxTyped],
               pipeEmpty' \subseteq P,
               Spoken(p, o)', Spoken(o, p)',
               there = "fdr" => pipePlace[p] = "fdr" \/ program = "pipe/chat"
                                \/ pipeEmpty' # {} \/ pipePipe'[o] > 0
                                \/ pipePlace'[o] \in PipeGone,
               pipePlace[p] = "fdr" => there # "fdr"
        PROVE  PipeInv'
    <2>1. pipePlace' \in [P -> PipePlaces] /\ pipePlace'[p] = there
      BY <1>3 DEF Pipe!Go, PipeInv
    <2>2. Spoken("chat1", "chat2")' /\ Spoken("chat2", "chat1")'
      BY <1>3
    <2>3. Pipe!TurnsGoOn'
      <3>1. ASSUME program' = "pipe/fullduplex", \A q \in P : pipePlace'[q] = "fdr" /\ pipePipe'[q] = 0
            PROVE  pipeEmpty' # {}
        <4>1. there = "fdr" /\ pipePlace[p] # "fdr" /\ program # "pipe/chat"
          BY <1>3, <2>1, <3>1
        <4>2. pipePlace'[o] = "fdr" /\ pipePipe'[o] = 0
          BY <1>1, <1>3, <3>1, Zenon
        <4>3. \/ pipeEmpty' # {}
              \/ pipePipe'[o] > 0
              \/ pipePlace'[o] \in PipeGone
          BY <1>3, <4>1, Zenon
        <4>4. ~(pipePipe'[o] > 0) /\ pipePlace'[o] \notin PipeGone
          BY <4>2 DEF PipeGone
        <4> QED BY <4>3, <4>4, Zenon
      <3> QED BY <1>1, <3>1 DEF Pipe!TurnsGoOn
    <2> QED BY <1>3, <2>1, <2>2, <2>3 DEF PipeInv
  <1>4. ASSUME NEW p \in P, NEW o \in P, o # p
        PROVE  /\ Spoken(p, o) /\ Spoken(o, p)
               /\ pipePlace[p] \in PipePlaces /\ pipePlace[o] \in PipePlaces
               /\ pipePipe[p] \in Nat /\ pipeShown[p] \in Nat /\ pipeTyped[p] \in 0..MaxTyped
               /\ pipePipe[o] \in Nat /\ pipeShown[o] \in Nat
               /\ pipeTyped[o] \in 0..MaxTyped
    BY <1>4 DEF PipeInv
  \* Lines stay where they are, and p does not end by their end.
  <1>5. ASSUME NEW p \in P, NEW o \in P, o # p, NEW there \in PipePlaces \ {"killed", "chat end"},
               pipePlace[p] \notin PipeGone, Pipe!Go(p, there),
               UNCHANGED <<pipePipe, pipeShown, pipeTyped>>
        PROVE  Spoken(p, o)' /\ Spoken(o, p)'
    <2>1. pipePlace'[p] = there /\ pipePlace'[o] = pipePlace[o]
      BY <1>4, <1>5 DEF Pipe!Go, PipeInv
    <2> QED BY <1>4, <1>5, <2>1 DEF Spoken, PipeGone
  <1>6. ASSUME NEW p \in P, NEW o \in P, o # p, Pipe!open(p)
        PROVE  PipeInv'
    <2> DEFINE there == IF pipeOpened[p] = 0 THEN "open"
                        ELSE IF program = "pipe/chat" THEN "select" ELSE "stdin"
    <2>1. /\ pipePlace[p] = "open" /\ Pipe!Go(p, there)
          /\ pipeOpened' = [pipeOpened EXCEPT ![p] = @ + 1]
          /\ UNCHANGED <<program, pipeSet, pipePipe, pipeTyped, pipeShown, pipeEmpty>>
      BY <1>6 DEF Pipe!open
    <2>2. pipeOpened' \in [P -> 0..2]
      BY <2>1 DEF PipeInv
    <2>3. \A q \in P : pipePlace'[q] = "open" => pipeOpened'[q] < 2
      BY <2>1 DEF PipeInv, Pipe!Go
    <2>4. there \in {"open", "select", "stdin"}
      OBVIOUS
    <2> HIDE DEF there
    <2>5. Spoken(p, o)' /\ Spoken(o, p)'
      BY <1>6, <1>5, <2>1, <2>4 DEF PipePlaces, PipeGone
    <2>6. there \in PipePlaces /\ there # "fdr" /\ pipePlace[p] \notin PipeGone
      BY <2>1, <2>4 DEF PipePlaces, PipeGone
    <2>7. /\ pipeSet' \in [P -> SUBSET {"stdin", "fdr"}] /\ pipeEmpty' \subseteq P
          /\ pipePipe' \in [P -> Nat] /\ pipeShown' \in [P -> Nat] /\ pipeTyped' \in [P -> 0..MaxTyped]
      BY <2>1 DEF PipeInv
    <2> QED BY <1>6, <1>3, <2>1, <2>2, <2>3, <2>5, <2>6, <2>7
  <1>7. ASSUME NEW p \in P, NEW o \in P, o # p, NEW there \in PipePlaces \ {"killed", "chat end", "open"},
               pipePlace[p] \notin PipeGone, Pipe!Go(p, there),
               UNCHANGED <<program, pipeOpened, pipePipe, pipeTyped, pipeShown>>,
               pipeSet' \in [P -> SUBSET {"stdin", "fdr"}],
               pipeEmpty' \subseteq P,
               there = "fdr" => pipePlace[p] # "fdr" /\ (program = "pipe/chat" \/ pipeEmpty' # {})
        PROVE  PipeInv'
    <2>1. \A q \in P : pipePlace'[q] = "open" => pipeOpened'[q] < 2
      BY <1>7 DEF Pipe!Go, PipeInv
    <2>2. Spoken(p, o)' /\ Spoken(o, p)'
      BY <1>5, <1>7
    <2>3. /\ pipePipe' \in [P -> Nat] /\ pipeShown' \in [P -> Nat] /\ pipeTyped' \in [P -> 0..MaxTyped]
          /\ pipeOpened' \in [P -> 0..2]
      BY <1>7 DEF PipeInv
    <2>4. there \in PipePlaces
      BY <1>7
    <2> QED BY <1>3, <1>7, <2>1, <2>2, <2>3, <2>4
  <1>8. ASSUME NEW p \in P, NEW o \in P, o # p, Pipe!select(p)
        PROVE  PipeInv'
    <2>1. pipeSet' \in [P -> SUBSET {"stdin", "fdr"}]
      BY <1>8 DEF Pipe!select, PipeInv
    <2>2. /\ pipePlace[p] = "select" /\ Pipe!Go(p, "stdin")
          /\ UNCHANGED <<program, pipeOpened, pipePipe, pipeTyped, pipeShown, pipeEmpty>>
      BY <1>8 DEF Pipe!select
    <2>3. pipeEmpty' \subseteq P
      BY <2>2 DEF PipeInv
    <2> QED BY <1>8, <1>7, <2>1, <2>2, <2>3 DEF PipePlaces, PipeGone
  <1>9. ASSUME NEW p \in P, NEW o \in P, o # p, Pipe!NoLine(p) \/ Pipe!NoNews(p) \/ Pipe!Interrupt(p)
        PROVE  PipeInv'
    <2>1. /\ pipePlace[p] \notin PipeGone
          /\ UNCHANGED <<program, pipeOpened, pipeSet, pipePipe, pipeTyped, pipeShown, pipeEmpty>>
      BY <1>9 DEF Pipe!NoLine, Pipe!NoNews, Pipe!Interrupt, Pipe!Gone, PipeGone
    <2>2. pipeEmpty' \subseteq P /\ pipeSet' \in [P -> SUBSET {"stdin", "fdr"}]
      BY <2>1 DEF PipeInv
    <2>3. \E there \in {"fdr", "select", "interrupted"} :
            /\ Pipe!Go(p, there)
            /\ there = "fdr" => pipePlace[p] # "fdr" /\ program = "pipe/chat"
      BY <1>9 DEF Pipe!NoLine, Pipe!NoNews, Pipe!Interrupt
    <2> QED BY <1>9, <1>7, <2>1, <2>2, <2>3 DEF PipePlaces
  <1>10. ASSUME NEW p \in P, NEW o \in P, o # p, Pipe!stdin(p)
         PROVE  PipeInv'
    <2>1. /\ pipePlace[p] = "stdin" /\ UNCHANGED <<program, pipeOpened, pipeSet, pipeShown>>
          /\ pipeSet' \in [P -> SUBSET {"stdin", "fdr"}]
      BY <1>10 DEF Pipe!stdin, PipeInv
    <2>2. CASE /\ pipeTyped[p] < MaxTyped /\ pipeTyped' = [pipeTyped EXCEPT ![p] = @ + 1]
               /\ pipePlace[o] \notin PipeGone
               /\ pipePipe' = [pipePipe EXCEPT ![o] = @ + 1] /\ Pipe!Go(p, "fdr")
               /\ UNCHANGED pipeEmpty
      <3>1. /\ pipeTyped' \in [P -> 0..MaxTyped] /\ pipeTyped'[p] = pipeTyped[p] + 1
            /\ pipeTyped'[o] = pipeTyped[o]
        BY <1>10, <1>0, <1>4, <2>2 DEF PipeInv
      <3>2. /\ pipePipe' \in [P -> Nat] /\ pipePipe'[o] = pipePipe[o] + 1
            /\ pipePipe'[p] = pipePipe[p]
        BY <1>10, <1>4, <2>2 DEF PipeInv
      <3>3. pipePlace'[p] = "fdr" /\ pipePlace'[o] = pipePlace[o]
        BY <1>10, <1>4, <2>2 DEF PipeInv, Pipe!Go
      <3>4. Spoken(p, o)'
        BY <1>10, <1>4, <2>1, <2>2, <3>1, <3>2, <3>3 DEF Spoken, PipeGone
      <3>5. Spoken(o, p)'
        <4>1. pipePipe'[o] + pipeShown'[o] = pipeTyped'[p]
          <5>1. pipePipe[o] + pipeShown[o] = pipeTyped[p]
            BY <1>10, <1>4, <2>1 DEF Spoken
          <5>2. pipeShown'[o] = pipeShown[o]
            BY <2>1
          <5>3. \A a, b, c \in Nat : a + b = c => (a + 1) + b = c + 1
            OBVIOUS
          <5>4. pipeTyped[p] \in Nat
            BY <1>10, <1>0, <1>4
          <5>5. (pipePipe[o] + 1) + pipeShown[o] = pipeTyped[p] + 1
            <6>1. pipePipe[o] \in Nat /\ pipeShown[o] \in Nat
              BY <1>10, <1>4
            <6> QED BY <5>1, <5>3, <5>4, <6>1, Zenon
          <5>6. pipePipe'[o] = pipePipe[o] + 1 /\ pipeTyped'[p] = pipeTyped[p] + 1
            BY <3>1, <3>2
          <5> QED BY <5>2, <5>5, <5>6
        <4>2. pipePlace'[o] \notin PipeGone /\ pipePlace'[p] = "fdr"
          BY <2>2, <3>3
        <4>3. pipePipe'[o] \in Nat /\ pipeShown'[o] \in Nat /\ pipeTyped'[p] \in Nat
          BY <1>10, <1>0, <1>4, <2>1, <3>1, <3>2
        <4>4. pipePipe'[o] + pipeShown'[o] <= pipeTyped'[p]
          BY <4>1, <4>3
        <4>5. pipePlace'[p] # "killed" /\ pipePlace'[o] # "chat end"
          BY <4>2 DEF PipeGone
        <4> QED BY <4>1, <4>4, <4>5, Zenon DEF Spoken
      <3>6. /\ \A q \in P : pipePlace'[q] = "open" => pipeOpened'[q] < 2
            /\ pipeOpened' \in [P -> 0..2] /\ pipeShown' \in [P -> Nat] /\ pipeEmpty' \subseteq P
        BY <2>1, <2>2 DEF PipeInv, Pipe!Go
      <3>7. pipePipe'[o] > 0
        BY <1>10, <1>4, <3>2
      <3>8. "fdr" \in PipePlaces /\ pipePlace[p] \notin PipeGone /\ pipePlace[p] # "fdr"
        BY <2>1 DEF PipePlaces, PipeGone
      <3>9. Pipe!Go(p, "fdr")
        BY <2>2
      <3> QED BY <1>10, <1>3, <2>1, <3>1, <3>2, <3>4, <3>5, <3>6, <3>7, <3>8, <3>9
    <2>3. CASE /\ pipeTyped[p] < MaxTyped /\ pipeTyped' = [pipeTyped EXCEPT ![p] = @ + 1]
               /\ pipePlace[o] \in PipeGone /\ Pipe!Go(p, "killed") /\ UNCHANGED pipePipe
               /\ UNCHANGED pipeEmpty
      <3>1. /\ pipeTyped' \in [P -> 0..MaxTyped] /\ pipeTyped'[p] = pipeTyped[p] + 1
            /\ pipeTyped'[o] = pipeTyped[o]
        BY <1>10, <1>0, <1>4, <2>3 DEF PipeInv
      <3>2. pipePlace'[p] = "killed" /\ pipePlace'[o] = pipePlace[o]
        BY <1>10, <1>4, <2>3 DEF PipeInv, Pipe!Go
      <3>3. Spoken(p, o)'
        BY <1>10, <1>4, <2>1, <2>3, <3>1, <3>2 DEF Spoken, PipeGone
      <3>4. Spoken(o, p)'
        <4>1. pipePipe'[o] = pipePipe[o] /\ pipeShown'[o] = pipeShown[o]
          BY <2>1, <2>3
        <4>2. pipePipe[o] + pipeShown[o] <= pipeTyped[p]
          BY <1>10, <1>4 DEF Spoken
        <4>3. pipePipe'[o] + pipeShown'[o] <= pipeTyped'[p]
          BY <1>10, <1>0, <1>4, <3>1, <4>1, <4>2
        <4>4. pipePlace'[p] = "killed" /\ pipePlace'[o] \in PipeGone
          BY <2>3, <3>2
        <4>5. pipePlace[o] # "chat end"
          BY <1>10, <1>4, <2>1 DEF Spoken, PipeGone
        <4> QED BY <3>2, <4>3, <4>4, <4>5 DEF Spoken
      <3>5. /\ \A q \in P : pipePlace'[q] = "open" => pipeOpened'[q] < 2
            /\ pipeOpened' \in [P -> 0..2] /\ pipeShown' \in [P -> Nat] /\ pipeEmpty' \subseteq P
            /\ pipePipe' \in [P -> Nat]
        BY <2>1, <2>3 DEF PipeInv, Pipe!Go
      <3>6. "killed" \in PipePlaces /\ pipePlace[p] \notin PipeGone
        BY <2>1 DEF PipePlaces, PipeGone
      <3>7. Pipe!Go(p, "killed")
        BY <2>3
      <3> QED BY <1>10, <1>3, <2>1, <3>1, <3>3, <3>4, <3>5, <3>6, <3>7
    <2>4. CASE /\ UNCHANGED <<pipeTyped, pipePipe>>
               /\ \/ Pipe!Go(p, "fdr") /\ pipeEmpty' = pipeEmpty \cup {p}
                  \/ Pipe!Go(p, "closed") /\ UNCHANGED pipeEmpty
      <3>1. pipePlace[p] \notin PipeGone /\ {"fdr", "closed"} \subseteq PipePlaces
        BY <2>1 DEF PipePlaces, PipeGone
      <3>2. pipeEmpty' \subseteq P
        BY <2>4 DEF PipeInv
      <3>3. Pipe!Go(p, "fdr") => pipeEmpty' # {}
        BY <2>4 DEF Pipe!Go, PipeInv
      <3>4. CASE Pipe!Go(p, "fdr")
        BY <1>10, <1>7, <2>1, <2>4, <3>1, <3>2, <3>3, <3>4
      <3>5. CASE Pipe!Go(p, "closed")
        BY <1>10, <1>7, <2>1, <2>4, <3>1, <3>2, <3>5
      <3> QED BY <2>4, <3>4, <3>5
    <2> QED BY <1>1, <1>10, <2>2, <2>3, <2>4 DEF Pipe!stdin, Pipe!write, Pipe!Gone, PipeGone
  <1>11. ASSUME NEW p \in P, NEW o \in P, o # p, Pipe!fdr(p)
         PROVE  PipeInv'
    <2>1. /\ pipePlace[p] = "fdr" /\ UNCHANGED <<program, pipeOpened, pipeSet, pipeTyped, pipeEmpty>>
          /\ pipeSet' \in [P -> SUBSET {"stdin", "fdr"}] /\ pipeOpened' \in [P -> 0..2]
          /\ pipeTyped' \in [P -> 0..MaxTyped] /\ pipeEmpty' \subseteq P
      BY <1>11 DEF Pipe!fdr, PipeInv
    <2> DEFINE n == Pipe!Taken(p)
    <2>2. n \in Nat /\ n <= pipePipe[p]
      BY <1>11, <1>0, <1>4 DEF Pipe!Taken
    <2> HIDE DEF n
    <2>3. pipePlace[p] \notin PipeGone /\ {"select", "stdin", "chat end"} \subseteq PipePlaces
      BY <2>1 DEF PipePlaces, PipeGone
    <2>4. CASE /\ pipeShown' = [pipeShown EXCEPT ![p] = @ + n]
               /\ pipePipe' = [pipePipe EXCEPT ![p] = @ - n]
               /\ Pipe!Go(p, Pipe!Again)
      <3>1. /\ pipeShown' \in [P -> Nat] /\ pipeShown'[p] = pipeShown[p] + n
            /\ pipeShown'[o] = pipeShown[o]
        BY <1>11, <1>4, <2>2, <2>4 DEF PipeInv
      <3>2. /\ pipePipe' \in [P -> Nat] /\ pipePipe'[p] = pipePipe[p] - n
            /\ pipePipe'[o] = pipePipe[o]
        <4>1. pipePipe[p] - n \in Nat
          BY <1>11, <1>4, <2>2
        <4> QED BY <1>11, <1>4, <2>4, <4>1 DEF PipeInv
      <3>3. pipePipe'[p] + pipeShown'[p] = pipePipe[p] + pipeShown[p]
        BY <1>11, <1>4, <2>2, <3>1, <3>2
      <3>4. Pipe!Again \in {"select", "stdin"}
        BY DEF Pipe!Again
      <3>5. pipePlace'[p] \in {"select", "stdin"} /\ pipePlace'[o] = pipePlace[o]
        BY <1>11, <1>4, <2>4, <3>4 DEF PipeInv, Pipe!Go
      <3>6. Spoken(p, o)'
        BY <1>11, <1>4, <2>1, <3>3, <3>5 DEF Spoken, PipeGone
      <3>7. Spoken(o, p)'
        BY <1>11, <1>4, <2>1, <3>1, <3>2, <3>5 DEF Spoken, PipeGone
      <3>8. \A q \in P : pipePlace'[q] = "open" => pipeOpened'[q] < 2
        BY <2>1, <2>4, <3>4 DEF PipeInv, Pipe!Go
      <3>9. Pipe!Again \in PipePlaces /\ Pipe!Again # "fdr" /\ Pipe!Go(p, Pipe!Again)
        BY <2>3, <2>4, <3>4
      <3> QED BY <1>11, <1>3, <2>1, <2>3, <3>1, <3>2, <3>6, <3>7, <3>8, <3>9
    <2>5. CASE /\ pipePipe[p] = 0 /\ pipePlace[o] \in PipeGone /\ Pipe!Go(p, "chat end")
               /\ UNCHANGED <<pipeShown, pipePipe>>
      <3>1. pipePlace'[p] = "chat end" /\ pipePlace'[o] = pipePlace[o]
        BY <1>11, <1>4, <2>5 DEF PipeInv, Pipe!Go
      <3>2. pipePlace[o] # "killed"
        BY <1>11, <1>4, <2>1 DEF Spoken, PipeGone
      <3>3. Spoken(p, o)'
        <4>1. pipePipe[p] + pipeShown[p] = pipeTyped[o]
          BY <1>11, <1>4, <3>2 DEF Spoken
        <4>2. pipeShown'[p] = pipeTyped'[o] /\ pipePipe'[p] = 0
          <5>1. pipeShown[p] \in Nat /\ pipePipe[p] = 0
            BY <1>11, <1>4, <2>5
          <5>2. pipeShown[p] = pipeTyped[o]
            BY <4>1, <5>1
          <5>3. pipeShown' = pipeShown /\ pipeTyped' = pipeTyped /\ pipePipe' = pipePipe
            BY <2>1, <2>5
          <5> QED BY <5>1, <5>2, <5>3
        <4>3. pipeShown'[p] \in Nat
          BY <1>11, <1>4, <2>5
        <4>4. pipePipe'[p] + pipeShown'[p] = pipeTyped'[o]
          BY <4>2, <4>3
        <4>5. pipePipe'[p] + pipeShown'[p] <= pipeTyped'[o]
          BY <4>2, <4>3
        <4>6. pipePlace'[o] # "killed" /\ pipePlace'[o] \in PipeGone
          BY <2>5, <3>1, <3>2
        <4> QED BY <4>2, <4>4, <4>5, <4>6, Zenon DEF Spoken
      <3>4. Spoken(o, p)'
        BY <1>11, <1>4, <2>1, <2>5, <3>1, <3>2 DEF Spoken, PipeGone
      <3>5. \A q \in P : pipePlace'[q] = "open" => pipeOpened'[q] < 2
        BY <2>1, <2>5 DEF PipeInv, Pipe!Go
      <3>6. pipePipe' \in [P -> Nat] /\ pipeShown' \in [P -> Nat]
        BY <2>5 DEF PipeInv
      <3>7. Pipe!Go(p, "chat end")
        BY <2>5
      <3> QED BY <1>11, <1>3, <2>1, <2>3, <3>3, <3>4, <3>5, <3>6, <3>7
    <2> QED BY <1>1, <1>11, <2>4, <2>5 DEF Pipe!fdr, Pipe!Eof, Pipe!Gone, PipeGone, n
  <1>12. \A p \in P : \E o \in P : o # p
    <2>1. "chat1" # "chat2"
      OBVIOUS
    <2> QED BY <2>1
  <1> QED BY <1>1, <1>2, <1>12, <1>6, <1>8, <1>9, <1>10, <1>11 DEF Pipe!Next

-----------------------------------------------------------------------------
(* filesys/read.c.                                                           *)

(* The students whose line ends with a newline. *)
Count == IF stWhole \/ Len(stMark) = 0 THEN Len(stMark) ELSE Len(stMark) - 1
Kept == IF stLine <= Count THEN stLine ELSE Count

Permutes(s, n) ==
  /\ s \in [1..n -> 1..n]
  /\ \A a, b \in 1..n : s[a] = s[b] => a = b
  /\ \A c \in 1..n : \E a \in 1..n : s[a] = c

MarkAt(k) == stMark[stArr[k]]

(* The list is as the file, the array a permutation of it, whose first       *)
(* places are sorted as far as the loops have come.                          *)
StudentsInv ==
  /\ stMark \in Seq(Nat) /\ stWhole \in BOOLEAN
  /\ stPc \in {"read", "sort", "print", "done"}
  /\ stLine \in 0..Len(stMark)
  /\ stList \in Seq(1..Count)
  /\ stPc = "read" => stList = [k \in 1..Kept |-> k] /\ stI = 1 /\ stJ = 2
  /\ stPc \in {"read", "done"} => stArr = <<>>
  /\ stPc \in {"sort", "print"} => Permutes(stArr, Count)
  /\ stI \in Nat /\ stJ \in Nat /\ 1 <= stI /\ stI < stJ
  /\ (stI = 1 /\ stJ = 2) \/ (stI <= Count /\ stJ <= Count + 1)
  /\ stPc = "sort" =>
       /\ \A a, b \in 1..Count : a < stI /\ a < b => MarkAt(b) <= MarkAt(a)
       /\ \A b \in 1..Count : stI < b /\ b < stJ => MarkAt(b) <= MarkAt(stI)
  /\ stPc = "print" => \A a, b \in 1..Count : a < b => MarkAt(b) <= MarkAt(a)
  /\ Students!Ranked

LEMMA CountIs ==
  ASSUME stMark \in Seq(Nat), stWhole \in BOOLEAN
  PROVE  /\ Count \in Nat /\ Len(stMark) \in Nat /\ Count <= Len(stMark) /\ Len(stMark) <= Count + 1
         /\ Students!Lines = 1..Count
         /\ stWhole => Count = Len(stMark)
         /\ ~stWhole /\ Len(stMark) > 0 => Count = Len(stMark) - 1
  <1>1. Len(stMark) \in Nat
    OBVIOUS
  <1>2. CASE stWhole
    <2>1. Count = Len(stMark) /\ Students!Lines = 1..Len(stMark)
      BY <1>2 DEF Count, Students!Lines
    <2> QED BY <1>1, <1>2, <2>1
  <1>3. CASE ~stWhole
    <2>1. Count = (IF Len(stMark) = 0 THEN Len(stMark) ELSE Len(stMark) - 1)
      BY <1>3 DEF Count
    <2>2. Students!Lines = 1..(Len(stMark) - 1)
      BY <1>3 DEF Students!Lines
    <2>3. 1..(Len(stMark) - 1) = 1..Count
      BY <1>1, <2>1
    <2> QED BY <1>1, <1>3, <2>1, <2>2, <2>3
  <1> QED BY <1>2, <1>3

LEMMA PermutesLen ==
  ASSUME NEW n \in Nat, NEW s, Permutes(s, n)
  PROVE  s \in Seq(1..n) /\ Len(s) = n
  BY IsASeq, LenProperties DEF Permutes

LEMMA MarksAre ==
  ASSUME stMark \in Seq(Nat), stWhole \in BOOLEAN, Permutes(stArr, Count)
  PROVE  \A k \in 1..Count : stMark[stArr[k]] \in Nat
  <1>1. Count \in Nat /\ Len(stMark) \in Nat /\ Count <= Len(stMark)
    BY CountIs
  <1>2. \A m \in 1..Len(stMark) : stMark[m] \in Nat
    OBVIOUS
  <1>3. \A k \in 1..Count : stArr[k] \in 1..Len(stMark)
    BY <1>1 DEF Permutes
  <1> QED BY <1>2, <1>3

LEMMA Exchanged ==
  ASSUME NEW n \in Nat, NEW s, Permutes(s, n), NEW a \in 1..n, NEW b \in 1..n, a # b,
         NEW t, t = [s EXCEPT ![a] = s[b], ![b] = s[a]]
  PROVE  /\ Permutes(t, n) /\ t[a] = s[b] /\ t[b] = s[a]
         /\ \A k \in 1..n : k # a /\ k # b => t[k] = s[k]
  <1>1. /\ t \in [1..n -> 1..n] /\ t[a] = s[b] /\ t[b] = s[a]
        /\ \A k \in 1..n : k # a /\ k # b => t[k] = s[k]
    BY DEF Permutes
  <1>2. /\ \A x, y \in 1..n : s[x] = s[y] => x = y
        /\ \A c \in 1..n : \E x \in 1..n : s[x] = c
    BY DEF Permutes
  <1>3. \A x, y \in 1..n : t[x] = t[y] => x = y
    BY <1>1, <1>2
  <1>4. \A c \in 1..n : \E x \in 1..n : t[x] = c
    BY <1>1, <1>2
  <1> QED BY <1>1, <1>3, <1>4 DEF Permutes

LEMMA StudentsHas ==
  ASSUME StudentsInv
  PROVE  Students!TypeOK /\ Students!Placed /\ Students!Ranked
  <1>1. /\ Count \in Nat /\ Len(stMark) \in Nat /\ Count <= Len(stMark)
        /\ Students!Lines = 1..Count
    BY CountIs DEF StudentsInv
  <1>2. stPc \in {"sort", "print"} => stArr \in Seq(1..Count) /\ Len(stArr) = Count
    BY <1>1, PermutesLen DEF StudentsInv
  <1>3. stPc \in {"read", "done"} => stArr \in Seq(1..Count) /\ Len(stArr) = 0
    <2>1. <<>> \in Seq(1..Count) /\ Len(<<>>) = 0
      OBVIOUS
    <2>2. stPc \in {"read", "done"} => stArr = <<>>
      BY DEF StudentsInv
    <2> QED BY <2>1, <2>2
  <1>4. \A a, b \in 1..Len(stArr) : stArr[a] = stArr[b] => a = b
    <2>1. CASE stPc \in {"sort", "print"}
      <3>1. Len(stArr) = Count /\ Permutes(stArr, Count)
        BY <1>2, <2>1 DEF StudentsInv
      <3> QED BY <3>1, Zenon DEF Permutes
    <2>2. CASE stPc \in {"read", "done"}
      <3>1. Len(stArr) = 0
        BY <1>3, <2>2
      <3> QED BY <3>1
    <2> QED BY <2>1, <2>2 DEF StudentsInv
  <1>5. stI \in 1..Len(stMark) + 1 /\ stJ \in 2..(Len(stMark) + 2)
    BY <1>1 DEF StudentsInv
  <1>6. Students!TypeOK
    BY <1>1, <1>2, <1>3, <1>4, <1>5 DEF StudentsInv, Students!TypeOK, Students!size
  <1>7. Students!Placed
    <2>1. SUFFICES ASSUME stPc = "sort"
                   PROVE  /\ \A a \in 1..(stI - 1) : \A b \in (a + 1)..Count : ~Students!Higher(b, a)
                          /\ \A b \in (stI + 1)..(stJ - 1) : b <= Count => ~Students!Higher(b, stI)
      BY <1>2 DEF Students!Placed, Students!size
    <2>2. \A k \in 1..Count : MarkAt(k) \in Nat
      BY <2>1, MarksAre DEF StudentsInv, MarkAt
    <2>3. stI \in Nat /\ stJ \in Nat /\ 1 <= stI
      BY DEF StudentsInv
    <2>4. ASSUME NEW a \in 1..(stI - 1), NEW b \in (a + 1)..Count
          PROVE  ~Students!Higher(b, a)
      <3>1. a \in 1..Count /\ b \in 1..Count /\ a < stI /\ a < b
        BY <1>1, <2>3
      <3>2. MarkAt(b) <= MarkAt(a)
        BY <2>1, <3>1 DEF StudentsInv
      <3>3. ~(MarkAt(b) > MarkAt(a))
        BY <2>2, <3>1, <3>2
      <3> QED BY <3>3 DEF Students!Higher, MarkAt
    <2>5. ASSUME NEW b \in (stI + 1)..(stJ - 1), b <= Count
          PROVE  ~Students!Higher(b, stI)
      <3>1. stI \in 1..Count /\ b \in 1..Count /\ stI < b /\ b < stJ
        BY <1>1, <2>3, <2>5
      <3>2. MarkAt(b) <= MarkAt(stI)
        BY <2>1, <3>1 DEF StudentsInv
      <3>3. ~(MarkAt(b) > MarkAt(stI))
        BY <2>2, <3>1, <3>2
      <3> QED BY <3>3 DEF Students!Higher, MarkAt
    <2> QED BY <2>4, <2>5
  <1> QED BY <1>6, <1>7 DEF StudentsInv

LEMMA StudentsInit ==
  ASSUME Students!Init
  PROVE  StudentsInv
  <1>1. PICK n \in 0..MaxLines : stMark \in [1..n -> Marks]
    BY DEF Students!Init
  <1>2. n \in Nat /\ Marks \subseteq Nat
    BY ProgramsAssumption
  <1>3. stMark \in Seq(Nat)
    <2>1. stMark \in [1..n -> Nat]
      BY <1>1, <1>2
    <2> QED BY <1>2, <2>1, IsASeq
  <1>4. /\ stPc = "read" /\ stLine = 0 /\ stList = <<>> /\ stArr = <<>>
        /\ stI = 1 /\ stJ = 2
    BY DEF Students!Init
  <1>5. stWhole \in BOOLEAN
    BY DEF Students!Init
  <1>6. Count \in Nat /\ Len(stMark) \in Nat
    BY <1>3, <1>5, CountIs
  <1>7. Kept = 0 /\ stList = [k \in 1..Kept |-> k]
    BY <1>4, <1>6 DEF Kept
  <1>8. Students!Ranked
    BY <1>4 DEF Students!Ranked
  <1> QED BY <1>3, <1>4, <1>5, <1>6, <1>7, <1>8 DEF StudentsInv

LEMMA StudentsNext ==
  ASSUME StudentsInv, [Students!Next]_stVars
  PROVE  StudentsInv'
  <1> DEFINE Old(k) == stMark[stArr[k]]
             New(k) == stMark[stArr'[k]]
  <1>0. stMark' = stMark /\ stWhole' = stWhole
    BY DEF stVars, Students!Next, Students!readInfo, Students!fill, Students!compare,
       Students!nextI, Students!print
  <1>1. /\ Count \in Nat /\ Len(stMark) \in Nat /\ Count <= Len(stMark) /\ Len(stMark) <= Count + 1
        /\ Students!Lines = 1..Count
        /\ stWhole => Count = Len(stMark)
        /\ ~stWhole /\ Len(stMark) > 0 => Count = Len(stMark) - 1
    BY CountIs DEF StudentsInv
  <1>2. Count' = Count /\ Students!Lines' = Students!Lines
    BY <1>0 DEF Count, Students!Lines
  <1>3. CASE UNCHANGED stVars
    BY <1>2, <1>3 DEF stVars, StudentsInv, Kept, MarkAt, Students!Ranked
  <1>4. CASE Students!readInfo
    <2>1. /\ stPc = "read" /\ stLine < Len(stMark) /\ stLine' = stLine + 1
          /\ UNCHANGED <<stPc, stArr, stI, stJ, stPrinted>>
          /\ stList' = IF stLine + 1 < Len(stMark) \/ stWhole THEN Append(stList, stLine + 1) ELSE stList
      BY <1>4 DEF Students!readInfo, Students!Linked
    <2>2. stLine \in Nat /\ stLine' \in 0..Len(stMark)
      BY <1>1, <2>1 DEF StudentsInv
    <2>3. stList' = [k \in 1..Kept' |-> k]
      <3>1. CASE stLine + 1 < Len(stMark) \/ stWhole
        <4>1. stLine + 1 <= Count
          BY <1>1, <2>1, <2>2, <3>1
        <4>2. Kept = stLine /\ Kept' = stLine + 1
          BY <1>1, <1>2, <2>1, <2>2, <4>1 DEF Kept
        <4>3. stList = [k \in 1..stLine |-> k]
          BY <2>1, <4>2 DEF StudentsInv
        <4>4. Append([k \in 1..stLine |-> k], stLine + 1) = [k \in 1..stLine + 1 |-> k]
          <5>1. [k \in 1..stLine |-> k] \in Seq(Nat) /\ Len([k \in 1..stLine |-> k]) = stLine
            BY <2>2, IsASeq, LenProperties
          <5> QED BY <2>2, <5>1, AppendProperties
        <4> QED BY <2>1, <3>1, <4>2, <4>3, <4>4
      <3>2. CASE ~(stLine + 1 < Len(stMark)) /\ ~stWhole
        <4>1. Count = stLine /\ Kept = stLine /\ Kept' = stLine
          BY <1>1, <1>2, <2>1, <2>2, <3>2 DEF Kept
        <4> QED BY <2>1, <3>2, <4>1 DEF StudentsInv
      <3> QED BY <3>1, <3>2
    <2>4. Kept' \in Nat /\ Kept' <= Count
      BY <1>1, <1>2, <2>2 DEF Kept
    <2>5. stList' \in Seq(1..Count)
      BY <1>1, <2>3, <2>4, IsASeq
    <2> QED BY <1>0, <1>2, <2>1, <2>2, <2>3, <2>5 DEF StudentsInv, Students!Ranked
  <1>5. CASE Students!fill
    <2>1. /\ stPc = "read" /\ stLine = Len(stMark) /\ stArr' = stList /\ stPc' = "sort"
          /\ UNCHANGED <<stLine, stList, stI, stJ, stPrinted>>
      BY <1>5 DEF Students!fill
    <2>2. Kept = Count
      BY <1>1, <2>1 DEF Kept
    <2>3. stArr' = [k \in 1..Count |-> k] /\ stI = 1 /\ stJ = 2
      BY <2>1, <2>2 DEF StudentsInv
    <2>4. Permutes(stArr, Count)'
      BY <1>1, <1>2, <2>3 DEF Permutes
    <2>5. Students!Ranked'
      BY <2>1 DEF Students!Ranked
    <2>6. /\ \A a, b \in 1..Count : ~(a < stI' /\ a < b)
          /\ \A b \in 1..Count : ~(stI' < b /\ b < stJ')
      BY <1>1, <2>1, <2>3
    <2> QED BY <1>0, <1>2, <2>1, <2>3, <2>4, <2>5, <2>6 DEF StudentsInv, MarkAt
  <1>6. ASSUME stPc = "sort"
        PROVE  /\ Permutes(stArr, Count) /\ Students!size = Count
               /\ \A k \in 1..Count : Old(k) \in Nat
               /\ \A a, b \in 1..Count : a < stI /\ a < b => Old(b) <= Old(a)
               /\ \A b \in 1..Count : stI < b /\ b < stJ => Old(b) <= Old(stI)
               /\ stI \in Nat /\ stJ \in Nat /\ 1 <= stI /\ stI < stJ
    <2>1. Permutes(stArr, Count)
      BY <1>6 DEF StudentsInv
    <2>2. Students!size = Count
      BY <1>1, <2>1, PermutesLen DEF Students!size
    <2>3. \A k \in 1..Count : Old(k) \in Nat
      BY <2>1, MarksAre DEF StudentsInv
    <2> QED BY <1>6, <2>1, <2>2, <2>3 DEF StudentsInv, MarkAt
  <1>7. CASE Students!compare
    <2>1. /\ stPc = "sort" /\ stI < Count /\ stJ <= Count /\ stJ' = stJ + 1
          /\ UNCHANGED <<stPc, stLine, stList, stI, stPrinted>>
          /\ stArr' = IF Students!Higher(stJ, stI) THEN Students!exchange(stI, stJ) ELSE stArr
      BY <1>6, <1>7 DEF Students!compare, Students!Inner
    <2>2. stI \in 1..Count /\ stJ \in 1..Count /\ stI < stJ
      BY <1>1, <1>6, <2>1
    <2>3. Students!Ranked'
      BY <2>1 DEF Students!Ranked
    <2> SUFFICES /\ Permutes(stArr, Count)'
                 /\ \A a, b \in 1..Count : a < stI /\ a < b => New(b) <= New(a)
                 /\ \A b \in 1..Count : stI < b /\ b < stJ + 1 => New(b) <= New(stI)
      <3>1. stJ' \in Nat /\ stJ' <= Count + 1 /\ stI < stJ' /\ stI <= Count
        BY <1>1, <2>1, <2>2
      <3> QED BY <1>0, <1>2, <1>6, <2>1, <2>3, <3>1 DEF StudentsInv, MarkAt
    <2>4. CASE Students!Higher(stJ, stI)
      <3>1. stArr' = [stArr EXCEPT ![stI] = stArr[stJ], ![stJ] = stArr[stI]]
        BY <2>1, <2>4 DEF Students!exchange
      <3>2. /\ Permutes(stArr', Count) /\ stArr'[stI] = stArr[stJ] /\ stArr'[stJ] = stArr[stI]
            /\ \A k \in 1..Count : k # stI /\ k # stJ => stArr'[k] = stArr[k]
        <4>1. stI # stJ
          BY <1>6, <2>1, <2>2
        <4> QED BY <1>1, <1>6, <2>1, <2>2, <3>1, <4>1, Exchanged
      <3>5. Permutes(stArr, Count)'
        BY <1>2, <3>2 DEF Permutes
      <3>6. /\ New(stI) = Old(stJ) /\ New(stJ) = Old(stI)
            /\ \A k \in 1..Count : k # stI /\ k # stJ => New(k) = Old(k)
        BY <3>2
      <3>7. Old(stI) < Old(stJ)
        <4>1. Old(stJ) > Old(stI)
          BY <2>4 DEF Students!Higher
        <4> QED BY <1>6, <2>1, <2>2, <4>1
      <3> HIDE DEF Old, New
      <3>8. ASSUME NEW a \in 1..Count, NEW b \in 1..Count, a < stI, a < b
            PROVE  New(b) <= New(a)
        <4>1. a # stI /\ a # stJ /\ New(a) = Old(a)
          BY <2>2, <3>6, <3>8
        <4>2. Old(stI) <= Old(a) /\ Old(stJ) <= Old(a) /\ Old(b) <= Old(a)
          BY <1>6, <2>1, <2>2, <3>8
        <4>3. New(b) \in {Old(b), Old(stI), Old(stJ)}
          BY <3>6
        <4> QED BY <4>1, <4>2, <4>3
      <3>9. ASSUME NEW b \in 1..Count, stI < b, b < stJ + 1
            PROVE  New(b) <= New(stI)
        <4>1. CASE b = stJ
          <5>1. New(b) = Old(stI) /\ New(stI) = Old(stJ)
            BY <3>6, <4>1
          <5>2. Old(stI) \in Nat /\ Old(stJ) \in Nat
            BY <1>6, <2>1, <2>2
          <5> QED BY <3>7, <5>1, <5>2
        <4>2. CASE b # stJ
          <5>1. b < stJ /\ New(b) = Old(b) /\ New(stI) = Old(stJ)
            BY <2>2, <3>6, <3>9, <4>2
          <5>2. Old(b) <= Old(stI)
            BY <1>6, <2>1, <3>9, <5>1
          <5>3. Old(stI) \in Nat /\ Old(stJ) \in Nat /\ Old(b) \in Nat
            BY <1>6, <2>1, <2>2
          <5> QED BY <3>7, <5>1, <5>2, <5>3
        <4> QED BY <4>1, <4>2
      <3> QED BY <3>5, <3>8, <3>9
    <2>5. CASE ~Students!Higher(stJ, stI)
      <3>1. stArr' = stArr
        BY <2>1, <2>5
      <3>2. Permutes(stArr, Count)'
        BY <1>2, <1>6, <2>1, <3>1
      <3>3. \A k : New(k) = Old(k)
        BY <3>1
      <3>4. ~(Old(stJ) > Old(stI))
        BY <2>5 DEF Students!Higher
      <3>5. Old(stJ) <= Old(stI)
        BY <1>6, <2>1, <2>2, <3>4
      <3> HIDE DEF Old, New
      <3>6. \A b \in 1..Count : stI < b /\ b < stJ + 1 => Old(b) <= Old(stI)
        BY <1>6, <2>1, <2>2, <3>5
      <3>7. New(stI) = Old(stI)
        BY <3>3
      <3> QED BY <1>6, <2>1, <3>2, <3>3, <3>6
    <2> QED BY <2>4, <2>5
  <1>8. CASE Students!nextI
    <2>1. /\ stPc = "sort" /\ ~(stI < Count /\ stJ <= Count)
          /\ UNCHANGED <<stLine, stList, stArr, stPrinted>>
          /\ IF stI < Count THEN stI' = stI + 1 /\ stJ' = stI + 2 /\ stPc' = stPc
                            ELSE stPc' = "print" /\ UNCHANGED <<stI, stJ>>
      <3>1. /\ stPc = "sort" /\ ~(stI < Count /\ stJ <= Count)
            /\ UNCHANGED <<stLine, stList, stArr, stPrinted>>
        BY <1>6, <1>8 DEF Students!nextI, Students!Inner
      <3>2. IF stI < Count THEN stI' = stI + 1 /\ stJ' = stI' + 1 /\ stPc' = stPc
                           ELSE stPc' = "print" /\ UNCHANGED <<stI, stJ>>
        BY <1>6, <1>8, <3>1 DEF Students!nextI, Students!Advanced
      <3> QED BY <1>6, <3>1, <3>2
    <2>2. /\ Permutes(stArr, Count)' /\ \A k : New(k) = Old(k)
      BY <1>0, <1>2, <1>6, <2>1
    <2>3. Students!Ranked'
      BY <2>1 DEF Students!Ranked
    <2>4. CASE stI < Count
      <3>1. stI' = stI + 1 /\ stJ' = stI + 2 /\ stPc' = "sort"
        BY <2>1, <2>4
      <3>2. Count < stJ
        BY <1>1, <1>6, <2>1, <2>4
      <3>3. \A a, b \in 1..Count : a < stI + 1 /\ a < b => Old(b) <= Old(a)
        <4>1. ASSUME NEW a \in 1..Count, NEW b \in 1..Count, a < stI + 1, a < b
              PROVE  Old(b) <= Old(a)
          <5>1. a < stI \/ a = stI
            BY <1>6, <2>1, <4>1
          <5>2. CASE a < stI
            BY <1>6, <2>1, <4>1, <5>2
          <5>3. CASE a = stI
            <6>1. b < stJ
              BY <1>1, <1>6, <2>1, <3>2
            <6> QED BY <1>6, <2>1, <4>1, <5>3, <6>1
          <5> QED BY <5>1, <5>2, <5>3
        <4> QED BY <4>1
      <3>4. \A b \in 1..Count : ~(stI + 1 < b /\ b < stI + 2)
        BY <1>6, <2>1
      <3>5. stI + 1 \in Nat /\ stI + 2 \in Nat /\ 1 <= stI + 1 /\ stI + 1 < stI + 2
            /\ stI + 1 <= Count /\ stI + 2 <= Count + 1
        BY <1>1, <1>6, <2>1, <2>4
      <3> QED BY <1>0, <1>2, <2>1, <2>2, <2>3, <3>1, <3>3, <3>4, <3>5 DEF StudentsInv, MarkAt
    <2>5. CASE ~(stI < Count)
      <3>1. stI' = stI /\ stJ' = stJ /\ stPc' = "print"
        BY <2>1, <2>5
      <3>2. \A a, b \in 1..Count : a < b => a < stI
        BY <1>1, <1>6, <2>1, <2>5
      <3>3. \A a, b \in 1..Count : a < b => Old(b) <= Old(a)
        BY <1>6, <2>1, <3>2
      <3> QED BY <1>0, <1>2, <2>1, <2>2, <2>3, <3>1, <3>3 DEF StudentsInv, MarkAt
    <2> QED BY <2>4, <2>5
  <1>9. CASE Students!print
    <2>1. /\ stPc = "print" /\ stPc' = "done" /\ stPrinted' = stArr
          /\ stArr' = <<>> /\ stList' = <<>> /\ UNCHANGED <<stLine, stI, stJ>>
      BY <1>9 DEF Students!print
    <2>2. Permutes(stArr, Count) /\ Len(stArr) = Count
      BY <1>1, <2>1, PermutesLen DEF StudentsInv
    <2>3. \A a, b \in 1..Count : a < b => stMark[stArr[b]] <= stMark[stArr[a]]
      BY <2>1 DEF StudentsInv, MarkAt
    <2>4. \A k \in 1..Count : stMark[stArr[k]] \in Nat
      BY <2>2, MarksAre DEF StudentsInv
    <2>5. {stArr[k] : k \in 1..Count} = 1..Count
      BY <2>2 DEF Permutes
    <2>6. \A a, b \in 1..Count : a < b =>
            stArr[a] # stArr[b] /\ stMark[stArr[a]] >= stMark[stArr[b]]
      <3>1. ASSUME NEW a \in 1..Count, NEW b \in 1..Count, a < b
            PROVE  stArr[a] # stArr[b] /\ stMark[stArr[a]] >= stMark[stArr[b]]
        <4>1. stArr[a] # stArr[b]
          BY <1>1, <2>2, <3>1 DEF Permutes
        <4>2. /\ stMark[stArr[b]] <= stMark[stArr[a]]
              /\ stMark[stArr[a]] \in Nat /\ stMark[stArr[b]] \in Nat
          BY <2>3, <2>4, <3>1
        <4>3. \A x, y \in Nat : y <= x => x >= y
          OBVIOUS
        <4> QED BY <4>1, <4>2, <4>3, Zenon
      <3> QED BY <3>1
    <2>7. Students!Ranked'
      BY <1>0, <1>1, <1>2, <2>1, <2>2, <2>5, <2>6 DEF Students!Ranked
    <2>8. <<>> \in Seq(1..Count)
      OBVIOUS
    <2> QED BY <1>0, <1>2, <2>1, <2>7, <2>8 DEF StudentsInv
  <1> QED BY <1>3, <1>4, <1>5, <1>7, <1>8, <1>9 DEF Students!Next

-----------------------------------------------------------------------------
(* udp/chat.                                                                 *)

UdpAll == udpNetwork \cup udpLost \cup udpSwallowed \cup udpPrinted
Packet == [from : Clients \cup {"server"}, to : Clients \cup {"server"}, line : Nat]

UdpTypes ==
  /\ udpMain \in {"first", "select", "stdin", "sockfd"}
  /\ udpReadfds \in SUBSET {"stdin", "sockfd"}
  /\ udpAddr \in Clients \cup {"none"} /\ udpLen \in {"negative", "short", "cut", "whole"}
  /\ udpGreeted \subseteq Clients
  /\ udpSent \in [Clients -> 0..UdpMaxSent] /\ udpSaid \in 0..UdpMaxSaid
  /\ UdpAll \subseteq Packet
  /\ udpShown \in [Clients -> SUBSET (0..udpSaid)]
  /\ udpMain = "stdin" /\ "stdin" \in udpReadfds => udpSaid < UdpMaxSaid

(* Every datagram is one that was sent, and no place has another's. *)
SentToServer ==
  /\ \A c \in Clients \ udpGreeted : udpSent[c] = 0
  /\ \A d \in UdpAll : d.to = "server" => d.from \in udpGreeted /\ d.line <= udpSent[d.from]
  /\ \A c \in udpGreeted : \A n \in 0..udpSent[c] : Udp!Datagram(c, "server", n) \in UdpAll
  /\ \A d \in udpPrinted \cup udpSwallowed : d.to = "server"

UdpApart ==
  /\ udpNetwork \cap (udpLost \cup udpSwallowed \cup udpPrinted) = {}
  /\ udpPrinted \cap (udpLost \cup udpSwallowed) = {}
  /\ udpSwallowed = {} \/ \E d : udpSwallowed = {d}

(* The address is that of one who was heard, and known once one is printed.  *)
UdpHeard(c) == \E d \in udpPrinted \cup udpSwallowed : d.from = c

AddressKnown ==
  /\ udpMain = "first" => udpPrinted = {} /\ udpSwallowed = {}
  /\ udpMain # "first" => udpLen \notin {"short", "cut"}
  /\ udpPrinted # {} /\ udpLen # "negative" => udpAddr # "none"
  /\ udpAddr # "none" => UdpHeard(udpAddr)

(* The server's lines have one addressee each. *)
ToOne ==
  /\ \A d \in UdpAll : d.to # "server" =>
       d.from = "server" /\ d.line <= udpSaid /\ UdpHeard(d.to)
  /\ \A c \in Clients : udpShown[c] # {} => UdpHeard(c)
  /\ \A d, e \in udpNetwork :
       d.to # "server" /\ e.to # "server" /\ d.line = e.line => d.to = e.to
  /\ \A d \in udpNetwork : \A c \in Clients : d.to # "server" /\ d.line \in udpShown[c] => d.to = c
  /\ \A b, c \in Clients : \A n \in udpShown[b] : n \in udpShown[c] => b = c

UdpInv == UdpTypes /\ SentToServer /\ UdpApart /\ AddressKnown /\ ToOne

LEMMA UdpHas ==
  ASSUME UdpInv
  PROVE  Udp!TypeOK /\ Udp!Accounted /\ Udp!Answerable /\ Udp!SaidToOne
  <1>0. UdpMaxSent \in Nat /\ UdpMaxSaid \in Nat /\ "server" \notin Clients
    BY ProgramsAssumption
  <1> DEFINE top == IF UdpMaxSent > UdpMaxSaid THEN UdpMaxSent ELSE UdpMaxSaid
  <1>1. top \in Nat /\ UdpMaxSent <= top /\ UdpMaxSaid <= top /\ Udp!Numbers = 0..top
    BY <1>0 DEF Udp!Numbers
  <1> HIDE DEF top
  <1>2. UdpAll \subseteq Udp!Datagrams
    <2>1. ASSUME NEW d \in UdpAll
          PROVE  d \in Udp!Datagrams
      <3>1. d \in Packet
        BY DEF UdpInv, UdpTypes
      <3>2. d.line <= top
        <4>1. CASE d.to = "server"
          <5>1. d.from \in Clients /\ d.line <= udpSent[d.from]
            BY <4>1 DEF UdpInv, UdpTypes, SentToServer
          <5>2. udpSent[d.from] \in 0..UdpMaxSent
            BY <5>1 DEF UdpInv, UdpTypes
          <5>3. d.line \in Nat
            BY <3>1 DEF Packet
          <5> QED BY <1>0, <1>1, <5>1, <5>2, <5>3
        <4>2. CASE d.to # "server"
          <5>1. d.line <= udpSaid /\ udpSaid \in 0..UdpMaxSaid
            BY <4>2 DEF UdpInv, UdpTypes, ToOne
          <5>2. d.line \in Nat
            BY <3>1 DEF Packet
          <5> QED BY <1>0, <1>1, <5>1, <5>2
        <4> QED BY <4>1, <4>2
      <3> QED BY <1>1, <3>1, <3>2 DEF Packet, Udp!Datagrams, Udp!Server
    <2> QED BY <2>1
  <1>3. udpShown \in [Clients -> SUBSET Udp!Numbers]
    <2>1. 0..udpSaid \subseteq Udp!Numbers
      BY <1>0, <1>1 DEF UdpInv, UdpTypes
    <2> QED BY <2>1 DEF UdpInv, UdpTypes
  <1>4. Udp!TypeOK
    <2>1. \A s \in {udpNetwork, udpLost, udpSwallowed, udpPrinted} : s \in SUBSET Udp!Datagrams
      BY <1>2 DEF UdpAll
    <2> QED BY <1>3, <2>1 DEF UdpInv, UdpTypes, Udp!TypeOK
  <1>5. Udp!Accounted
    <2> DEFINE S == UNION {{Udp!Datagram(c, "server", n) : n \in 0..udpSent[c]} : c \in udpGreeted}
               T == {d \in UdpAll : d.to = "server"}
    <2>1. S \subseteq T
      <3>1. ASSUME NEW c \in udpGreeted, NEW n \in 0..udpSent[c]
            PROVE  Udp!Datagram(c, "server", n) \in T
        <4>1. Udp!Datagram(c, "server", n) \in UdpAll
          BY DEF UdpInv, SentToServer
        <4>2. Udp!Datagram(c, "server", n).to = "server"
          BY DEF Udp!Datagram
        <4> QED BY <4>1, <4>2
      <3> QED BY <3>1
    <2>2. T \subseteq S
      <3>1. ASSUME NEW d \in UdpAll, d.to = "server"
            PROVE  d \in S
        <4>1. d.from \in udpGreeted /\ d.line <= udpSent[d.from] /\ d \in Packet
          BY <3>1 DEF UdpInv, UdpTypes, SentToServer
        <4>2. udpSent[d.from] \in Nat /\ d.line \in Nat
          BY <1>0, <4>1 DEF UdpInv, UdpTypes, Packet
        <4>3. d.line \in 0..udpSent[d.from]
          BY <4>1, <4>2
        <4>4. d = Udp!Datagram(d.from, "server", d.line)
          BY <3>1, <4>1 DEF Packet, Udp!Datagram
        <4> QED BY <4>1, <4>3, <4>4
      <3> QED BY <3>1
    <2>3. S = T
      BY <2>1, <2>2
    <2>4. Udp!Cardinality(udpSwallowed) <= 1
      <3>1. Cardinality(udpSwallowed) <= 1
        <4>1. CASE udpSwallowed = {}
          BY <4>1, FS_EmptySet
        <4>2. CASE \E d : udpSwallowed = {d}
          <5>1. PICK d : udpSwallowed = {d}
            BY <4>2
          <5>2. Cardinality({d}) = 1
            BY FS_Singleton, Zenon
          <5>3. Cardinality(udpSwallowed) = 1
            BY <5>1, <5>2, Zenon
          <5> QED BY <5>3
        <4> QED BY <4>1, <4>2 DEF UdpInv, UdpApart
      <3> QED BY <3>1, Zenon DEF Udp!Cardinality, Cardinality
    <2>5. udpPrinted \cap (udpNetwork \cup udpLost \cup udpSwallowed) = {}
      BY DEF UdpInv, UdpApart
    <2> QED BY <2>3, <2>4, <2>5 DEF Udp!Accounted, UdpAll, Udp!Server
  <1>6. Udp!Answerable
    BY DEF UdpInv, AddressKnown, Udp!Answerable
  <1>7. Udp!SaidToOne
    BY DEF UdpInv, ToOne, UdpHeard, Udp!SaidToOne
  <1> QED BY <1>4, <1>5, <1>6, <1>7

LEMMA UdpInit ==
  ASSUME Udp!Init
  PROVE  UdpInv
  <1>0. UdpMaxSent \in Nat /\ UdpMaxSaid \in Nat
    BY ProgramsAssumption
  <1>1. /\ udpMain = "first" /\ udpReadfds = {} /\ udpAddr = "none"
        /\ udpLen \in {"negative", "short", "cut", "whole"}
        /\ udpGreeted = {} /\ udpSent = [c \in Clients |-> 0] /\ udpSaid = 0
        /\ udpNetwork = {} /\ udpLost = {} /\ udpSwallowed = {} /\ udpPrinted = {}
        /\ udpShown = [c \in Clients |-> {}]
    BY DEF Udp!Init
  <1>2. UdpTypes
    BY <1>0, <1>1 DEF UdpTypes, UdpAll
  <1>3. SentToServer /\ UdpApart /\ AddressKnown
    BY <1>1 DEF SentToServer, UdpAll, UdpApart, AddressKnown
  <1>4. ToOne
    BY <1>1 DEF ToOne, UdpAll
  <1> QED BY <1>2, <1>3, <1>4 DEF UdpInv

(* A datagram for the server leaves the network, lost, swallowed or printed; *)
(* or one for a client is lost.                                              *)
LEMMA UdpMoved ==
  ASSUME UdpInv, NEW d \in udpNetwork, udpNetwork' = udpNetwork \ {d},
         \/ udpLost' = udpLost \cup {d} /\ UNCHANGED <<udpSwallowed, udpPrinted>>
         \/ /\ d.to = "server" /\ udpMain = "first" /\ udpSwallowed' = {d}
            /\ UNCHANGED <<udpLost, udpPrinted>>
         \/ /\ d.to = "server" /\ udpPrinted' = udpPrinted \cup {d}
            /\ UNCHANGED <<udpLost, udpSwallowed>>,
         UNCHANGED <<udpGreeted, udpSent, udpSaid, udpShown>>
  PROVE  /\ UdpAll' = UdpAll /\ SentToServer' /\ UdpApart' /\ ToOne'
         /\ \A c : UdpHeard(c) => UdpHeard(c)'
  <1>1. d \notin udpLost /\ d \notin udpSwallowed /\ d \notin udpPrinted
    BY DEF UdpInv, UdpApart
  <1>2. udpMain = "first" => udpSwallowed = {}
    BY DEF UdpInv, AddressKnown
  <1>3. UdpAll' = UdpAll
    BY <1>2 DEF UdpAll
  <1>4. /\ udpPrinted \cup udpSwallowed \subseteq udpPrinted' \cup udpSwallowed'
        /\ \A e \in udpPrinted' \cup udpSwallowed' :
             e \in udpPrinted \cup udpSwallowed \/ (e = d /\ d.to = "server")
        /\ udpNetwork' \subseteq udpNetwork
    BY <1>2
  <1>5. \A c : UdpHeard(c) => UdpHeard(c)'
    BY <1>4 DEF UdpHeard
  <1>6. SentToServer'
    BY <1>3, <1>4 DEF UdpInv, SentToServer
  <1>7. UdpApart'
    <2>1. udpSwallowed' = {} \/ \E e : udpSwallowed' = {e}
      BY DEF UdpInv, UdpApart
    <2>2. udpNetwork' \cap (udpLost' \cup udpSwallowed' \cup udpPrinted') = {}
      BY <1>2 DEF UdpInv, UdpApart
    <2>3. udpPrinted' \cap (udpLost' \cup udpSwallowed') = {}
      BY <1>1, <1>2 DEF UdpInv, UdpApart
    <2> QED BY <2>1, <2>2, <2>3 DEF UdpApart
  <1>8. ToOne'
    <2>1. /\ \A e \in UdpAll' : e.to # "server" =>
               e.from = "server" /\ e.line <= udpSaid' /\ UdpHeard(e.to)'
          /\ \A c \in Clients : udpShown'[c] # {} => UdpHeard(c)'
      BY <1>3, <1>5 DEF UdpInv, ToOne
    <2>2. /\ \A e, f \in udpNetwork' :
               e.to # "server" /\ f.to # "server" /\ e.line = f.line => e.to = f.to
          /\ \A e \in udpNetwork' : \A c \in Clients :
               e.to # "server" /\ e.line \in udpShown'[c] => e.to = c
          /\ \A b, c \in Clients : \A n \in udpShown'[b] : n \in udpShown'[c] => b = c
      BY <1>4 DEF UdpInv, ToOne
    <2> QED BY <2>1, <2>2 DEF ToOne
  <1> QED BY <1>3, <1>5, <1>6, <1>7, <1>8

(* What a client sends is new. *)
LEMMA UdpNew ==
  ASSUME UdpInv, NEW c \in Clients, NEW m \in 0..UdpMaxSent,
         \/ c \notin udpGreeted /\ m = 0 /\ udpGreeted' = udpGreeted \cup {c} /\ UNCHANGED udpSent
         \/ /\ c \in udpGreeted /\ m = udpSent[c] + 1 /\ UNCHANGED udpGreeted
            /\ udpSent' = [udpSent EXCEPT ![c] = m],
         udpNetwork' = udpNetwork \cup {Udp!Datagram(c, "server", m)},
         UNCHANGED <<udpMain, udpReadfds, udpAddr, udpLen, udpSaid, udpLost, udpSwallowed,
                     udpPrinted, udpShown>>
  PROVE  UdpInv'
  <1> DEFINE d == Udp!Datagram(c, "server", m)
  <1>0. UdpMaxSent \in Nat /\ UdpMaxSaid \in Nat /\ "server" \notin Clients
    BY ProgramsAssumption
  <1>1. d \in Packet /\ d.from = c /\ d.to = "server" /\ d.line = m
    BY <1>0 DEF Packet, Udp!Datagram
  <1>2. UdpAll' = UdpAll \cup {d}
    BY DEF UdpAll
  <1>3. /\ udpSent \in [Clients -> 0..UdpMaxSent] /\ udpGreeted \subseteq Clients
        /\ udpSent' \in [Clients -> 0..UdpMaxSent] /\ udpGreeted' \subseteq Clients
    BY DEF UdpInv, UdpTypes
  <1>4. udpSent'[c] = m /\ \A b \in Clients \ {c} : udpSent'[b] = udpSent[b]
    BY <1>3 DEF UdpInv, SentToServer
  <1>5. udpGreeted' = udpGreeted \cup {c} /\ m >= udpSent[c]
    BY <1>0, <1>3 DEF UdpInv, SentToServer
  <1>6. d \notin UdpAll
    <2>1. c \in udpGreeted => ~(m <= udpSent[c])
      BY <1>0, <1>3
    <2> QED BY <1>1, <2>1 DEF UdpInv, SentToServer
  <1> HIDE DEF d
  <1>7. UdpTypes'
    BY <1>1, <1>2, <1>3 DEF UdpInv, UdpTypes
  <1>8. SentToServer'
    <2>1. \A b \in Clients \ udpGreeted' : udpSent'[b] = 0
      BY <1>4, <1>5 DEF UdpInv, SentToServer
    <2>2. ASSUME NEW e \in UdpAll', e.to = "server"
          PROVE  e.from \in udpGreeted' /\ e.line <= udpSent'[e.from]
      <3>1. CASE e = d
        BY <1>0, <1>1, <1>4, <1>5, <3>1
      <3>2. CASE e \in UdpAll
        <4>1. e.from \in udpGreeted /\ e.line <= udpSent[e.from] /\ e.line \in Nat /\ e.from \in Clients
          BY <1>3, <2>2, <3>2 DEF UdpInv, UdpTypes, SentToServer, Packet
        <4>2. udpSent[e.from] <= udpSent'[e.from]
          BY <1>0, <1>3, <1>4, <1>5, <4>1
        <4>3. udpSent[e.from] \in Nat /\ udpSent'[e.from] \in Nat
          BY <1>0, <1>3, <4>1
        <4> QED BY <1>5, <4>1, <4>2, <4>3
      <3> QED BY <1>2, <3>1, <3>2
    <2>3. ASSUME NEW b \in udpGreeted', NEW n \in 0..udpSent'[b]
          PROVE  Udp!Datagram(b, "server", n) \in UdpAll'
      <3>1. CASE b = c /\ n = m
        BY <1>2, <3>1 DEF d
      <3>2. CASE ~(b = c /\ n = m)
        <4>1. b \in udpGreeted /\ n \in 0..udpSent[b]
          BY <1>0, <1>3, <1>4, <1>5, <2>3, <3>2
        <4> QED BY <1>2, <4>1 DEF UdpInv, SentToServer
      <3> QED BY <3>1, <3>2
    <2>4. \A e \in udpPrinted' \cup udpSwallowed' : e.to = "server"
      BY DEF UdpInv, SentToServer
    <2> QED BY <2>1, <2>2, <2>3, <2>4 DEF SentToServer
  <1>9. UdpApart'
    BY <1>6 DEF UdpInv, UdpApart, UdpAll, d
  <1>10. AddressKnown'
    BY DEF UdpInv, AddressKnown, UdpHeard
  <1>11. ToOne'
    <2>1. \A b : UdpHeard(b)' <=> UdpHeard(b)
      BY DEF UdpHeard
    <2>2. \A e \in UdpAll' : e.to # "server" => e \in UdpAll
      BY <1>1, <1>2
    <2>3. \A e \in udpNetwork' : e.to # "server" => e \in udpNetwork
      BY <1>1 DEF d
    <2>4. /\ \A e \in UdpAll' : e.to # "server" =>
               e.from = "server" /\ e.line <= udpSaid' /\ UdpHeard(e.to)'
          /\ \A b \in Clients : udpShown'[b] # {} => UdpHeard(b)'
      BY <2>1, <2>2 DEF UdpInv, ToOne
    <2>5. /\ \A e, f \in udpNetwork' :
               e.to # "server" /\ f.to # "server" /\ e.line = f.line => e.to = f.to
          /\ \A e \in udpNetwork' : \A b \in Clients :
               e.to # "server" /\ e.line \in udpShown'[b] => e.to = b
          /\ \A a, b \in Clients : \A n \in udpShown'[a] : n \in udpShown'[b] => a = b
      BY <2>3 DEF UdpInv, ToOne
    <2> QED BY <2>4, <2>5 DEF ToOne
  <1> QED BY <1>7, <1>8, <1>9, <1>10, <1>11 DEF UdpInv

LEMMA UdpNext ==
  ASSUME UdpInv, [Udp!Next]_udpVars
  PROVE  UdpInv'
  <1>0. UdpMaxSent \in Nat /\ UdpMaxSaid \in Nat /\ Clients \cap {"none", "server"} = {}
    BY ProgramsAssumption
  <1>1. CASE UNCHANGED udpVars
    BY <1>1 DEF udpVars, UdpInv, UdpTypes, SentToServer, UdpApart, AddressKnown, UdpHeard, ToOne, UdpAll
  <1>2. CASE Udp!recvFirst
    <2>1. PICK d \in Udp!ForServer : /\ udpNetwork' = udpNetwork \ {d} /\ udpSwallowed' = {d}
                                     /\ Udp!Learn(d)
      BY <1>2 DEF Udp!recvFirst
    <2>2. d \in udpNetwork /\ d.to = "server"
      BY DEF Udp!ForServer, Udp!Server
    <2>3. /\ udpMain = "first" /\ udpMain' = "select"
          /\ UNCHANGED <<udpReadfds, udpGreeted, udpSent, udpSaid, udpLost, udpPrinted, udpShown>>
      BY <1>2 DEF Udp!recvFirst, Udp!clientVars
    <2>4. UdpAll' = UdpAll /\ SentToServer' /\ UdpApart' /\ ToOne'
      BY <2>1, <2>2, <2>3, UdpMoved
    <2>5. d.from \in Clients /\ d.from # "none"
      BY <1>0, <2>2 DEF UdpInv, UdpTypes, SentToServer, UdpAll
    <2>6. /\ udpAddr' \in {d.from, udpAddr, "none"}
          /\ udpLen' = IF udpLen \in {"short", "cut"} THEN "whole" ELSE udpLen
      BY <2>1 DEF Udp!Learn, Udp!LearnAddr
    <2>7. udpPrinted = {} /\ udpSwallowed = {} /\ (udpAddr # "none" => UdpHeard(udpAddr))
      BY <2>3 DEF UdpInv, AddressKnown
    <2>8. UdpTypes'
      BY <2>3, <2>4, <2>5, <2>6 DEF UdpInv, UdpTypes
    <2>9. AddressKnown'
      BY <2>1, <2>3, <2>6, <2>7 DEF UdpInv, UdpTypes, AddressKnown, UdpHeard
    <2> QED BY <2>4, <2>8, <2>9 DEF UdpInv
  <1>3. CASE Udp!select
    <2>1. PICK some \in SUBSET {"stdin", "sockfd"} :
            ("stdin" \in some => udpSaid < UdpMaxSaid) /\ udpReadfds' = some
      BY <1>3 DEF Udp!select
    <2>2. /\ udpMain = "select" /\ udpMain' = "stdin"
          /\ UNCHANGED <<udpAddr, udpLen, udpGreeted, udpSent, udpSaid, udpNetwork, udpLost,
                         udpSwallowed, udpPrinted, udpShown>>
      BY <1>3 DEF Udp!select, Udp!clientVars
    <2> QED BY <2>1, <2>2 DEF UdpInv, UdpTypes, SentToServer, UdpApart, AddressKnown, UdpHeard, ToOne, UdpAll
  <1>4. CASE Udp!sendto
    <2>1. /\ udpMain = "stdin" /\ udpMain' = "sockfd"
          /\ UNCHANGED <<udpReadfds, udpAddr, udpLen, udpGreeted, udpSent, udpLost, udpSwallowed,
                         udpPrinted, udpShown>>
      BY <1>4 DEF Udp!sendto, Udp!clientVars
    <2>2. \A b : UdpHeard(b)' <=> UdpHeard(b)
      BY <2>1 DEF UdpHeard
    <2>3. CASE UNCHANGED <<udpSaid, udpNetwork>>
      BY <2>1, <2>2, <2>3 DEF UdpInv, UdpTypes, SentToServer, UdpApart, AddressKnown, ToOne, UdpAll
    <2>4. CASE /\ "stdin" \in udpReadfds /\ udpSaid' = udpSaid + 1
               /\ udpNetwork' = udpNetwork \cup {Udp!Datagram("server", c, udpSaid + 1) : c \in Udp!Addressee}
      <3>1. udpSaid \in Nat /\ udpSaid' \in 0..UdpMaxSaid /\ ~(udpSaid + 1 <= udpSaid)
            /\ \A n \in Nat : n <= udpSaid => n <= udpSaid + 1 /\ n # udpSaid + 1
        BY <1>0, <2>1, <2>4 DEF UdpInv, UdpTypes
      <3>2. udpShown' \in [Clients -> SUBSET (0..udpSaid')]
        <4>1. 0..udpSaid \subseteq 0..udpSaid'
          BY <2>4, <3>1
        <4> QED BY <2>1, <4>1 DEF UdpInv, UdpTypes
      <3>3. CASE udpAddr = "none"
        <4>1. udpNetwork' = udpNetwork /\ UdpAll' = UdpAll
          BY <2>1, <2>4, <3>3 DEF Udp!Addressee, UdpAll
        <4>2. UdpTypes' /\ SentToServer' /\ UdpApart' /\ AddressKnown'
          BY <2>1, <2>2, <3>1, <3>2, <4>1 DEF UdpInv, UdpTypes, SentToServer, UdpApart, AddressKnown
        <4>3. ToOne'
          <5>1. \A e \in UdpAll : e.line \in Nat
            BY DEF UdpInv, UdpTypes, Packet
          <5> QED BY <2>1, <2>2, <2>4, <3>1, <4>1, <5>1 DEF UdpInv, ToOne
        <4> QED BY <4>2, <4>3 DEF UdpInv
      <3>4. CASE udpAddr # "none"
        <4> DEFINE d == Udp!Datagram("server", udpAddr, udpSaid + 1)
        <4>1. udpNetwork' = udpNetwork \cup {d}
          BY <2>4, <3>4 DEF Udp!Addressee
        <4>2. udpAddr \in Clients /\ UdpHeard(udpAddr)
          BY <3>4 DEF UdpInv, UdpTypes, AddressKnown
        <4>3. d \in Packet /\ d.from = "server" /\ d.to = udpAddr /\ d.to # "server" /\ d.line = udpSaid + 1
          BY <1>0, <3>1, <4>2 DEF Udp!Datagram, Packet
        <4> HIDE DEF d
        <4>4. UdpAll' = UdpAll \cup {d}
          BY <2>1, <4>1 DEF UdpAll
        <4>5. \A e \in UdpAll : e.line \in Nat
          BY DEF UdpInv, UdpTypes, Packet
        <4>6. \A e \in UdpAll : e.to # "server" => e.line <= udpSaid + 1 /\ e.line # udpSaid + 1
          BY <3>1, <4>5 DEF UdpInv, ToOne
        <4>7. d \notin UdpAll
          BY <4>3, <4>6
        <4>8. UdpTypes'
          BY <2>1, <3>1, <3>2, <4>3, <4>4 DEF UdpInv, UdpTypes
        <4>9. SentToServer'
          BY <2>1, <4>3, <4>4 DEF UdpInv, SentToServer
        <4>10. UdpApart'
          BY <2>1, <4>1, <4>7 DEF UdpInv, UdpApart, UdpAll
        <4>11. AddressKnown'
          BY <2>1, <2>2 DEF UdpInv, AddressKnown
        <4>12. ToOne'
          <5>1. \A e \in UdpAll' : e.to # "server" =>
                  e.from = "server" /\ e.line <= udpSaid' /\ UdpHeard(e.to)'
            <6>1. udpSaid + 1 <= udpSaid'
              BY <2>4, <3>1
            <6>2. ASSUME NEW e \in UdpAll', e.to # "server"
                  PROVE  e.from = "server" /\ e.line <= udpSaid' /\ UdpHeard(e.to)'
              <7>1. CASE e = d
                BY <2>2, <4>2, <4>3, <6>1, <7>1
              <7>2. CASE e \in UdpAll
                <8>1. e.line <= udpSaid'
                  BY <2>4, <4>6, <6>2, <7>2
                <8>2. e.from = "server" /\ UdpHeard(e.to)'
                  BY <2>2, <6>2, <7>2 DEF UdpInv, ToOne
                <8> QED BY <8>1, <8>2
              <7> QED BY <4>4, <7>1, <7>2
            <6> QED BY <6>2
          <5>2. \A b \in Clients : udpShown'[b] # {} => UdpHeard(b)'
            BY <2>1, <2>2 DEF UdpInv, ToOne
          <5>3. \A e \in udpNetwork : e \in UdpAll
            BY DEF UdpAll
          <5>4. \A e, f \in udpNetwork' :
                   e.to # "server" /\ f.to # "server" /\ e.line = f.line => e.to = f.to
            BY <4>1, <4>3, <4>6, <5>3 DEF UdpInv, ToOne
          <5>5. \A b \in Clients : udpSaid + 1 \notin udpShown[b]
            BY <3>1 DEF UdpInv, UdpTypes
          <5>6. \A e \in udpNetwork' : \A b \in Clients :
                   e.to # "server" /\ e.line \in udpShown'[b] => e.to = b
            BY <2>1, <4>1, <4>3, <5>5 DEF UdpInv, ToOne
          <5>7. \A a, b \in Clients : \A n \in udpShown'[a] : n \in udpShown'[b] => a = b
            BY <2>1 DEF UdpInv, ToOne
          <5> QED BY <5>1, <5>2, <5>4, <5>6, <5>7 DEF ToOne
        <4> QED BY <4>8, <4>9, <4>10, <4>11, <4>12 DEF UdpInv
      <3> QED BY <3>3, <3>4
    <2> QED BY <1>4, <2>3, <2>4 DEF Udp!sendto, Udp!Server
  <1>5. CASE Udp!recvfrom
    <2>1. /\ udpMain = "sockfd" /\ udpMain' = "select"
          /\ UNCHANGED <<udpReadfds, udpGreeted, udpSent, udpSaid, udpLost, udpSwallowed, udpShown>>
      BY <1>5 DEF Udp!recvfrom, Udp!clientVars
    <2>2. CASE UNCHANGED <<udpNetwork, udpPrinted, udpAddr, udpLen>>
      BY <2>1, <2>2 DEF UdpInv, UdpTypes, SentToServer, UdpApart, AddressKnown, UdpHeard, ToOne, UdpAll
    <2>3. CASE \E d \in Udp!ForServer : udpNetwork' = udpNetwork \ {d} /\ Udp!Puts(d) /\ Udp!Learn(d)
      <3>1. PICK d \in Udp!ForServer : udpNetwork' = udpNetwork \ {d} /\ Udp!Puts(d) /\ Udp!Learn(d)
        BY <2>3
      <3>2. d \in udpNetwork /\ d.to = "server" /\ udpPrinted' = udpPrinted \cup {d}
        BY <3>1 DEF Udp!ForServer, Udp!Server, Udp!Puts
      <3>3. /\ UdpAll' = UdpAll /\ SentToServer' /\ UdpApart' /\ ToOne'
            /\ \A c : UdpHeard(c) => UdpHeard(c)'
        BY <2>1, <3>1, <3>2, UdpMoved
      <3>4. d.from \in Clients /\ d.from # "none"
        BY <1>0, <3>2 DEF UdpInv, UdpTypes, SentToServer, UdpAll
      <3>5. udpLen \notin {"short", "cut"}
        BY <2>1 DEF UdpInv, AddressKnown
      <3>6. /\ udpAddr' = IF udpLen = "whole" THEN d.from ELSE udpAddr
            /\ udpLen' = udpLen
        BY <3>1, <3>5 DEF Udp!Learn, Udp!LearnAddr, UdpInv, UdpTypes
      <3>7. UdpTypes'
        BY <2>1, <3>3, <3>4, <3>6 DEF UdpInv, UdpTypes
      <3>8. AddressKnown'
        <4>1. UdpHeard(d.from)'
          BY <3>2 DEF UdpHeard
        <4>2. udpAddr' # "none" => UdpHeard(udpAddr)'
          <5>1. CASE udpLen = "whole"
            BY <3>2, <3>6, <5>1 DEF UdpHeard
          <5>2. CASE udpLen # "whole"
            <6>1. udpAddr' = udpAddr
              BY <3>6, <5>2
            <6>2. udpAddr # "none" => \E e \in udpPrinted \cup udpSwallowed : e.from = udpAddr
              BY DEF UdpInv, AddressKnown, UdpHeard
            <6> QED BY <2>1, <3>2, <6>1, <6>2 DEF UdpHeard
          <5> QED BY <5>1, <5>2
        <4>3. udpLen' # "negative" => udpAddr' # "none"
          BY <3>4, <3>5, <3>6 DEF UdpInv, UdpTypes
        <4> QED BY <2>1, <3>5, <3>6, <4>2, <4>3 DEF AddressKnown
      <3> QED BY <3>3, <3>7, <3>8 DEF UdpInv
    <2> QED BY <1>5, <2>2, <2>3 DEF Udp!recvfrom
  <1>6. ASSUME NEW c \in Clients, Udp!Greet(c)
        PROVE  UdpInv'
    <2>1. 0 \in 0..UdpMaxSent
      BY <1>0
    <2>2. /\ c \notin udpGreeted /\ udpGreeted' = udpGreeted \cup {c}
          /\ udpNetwork' = udpNetwork \cup {Udp!Datagram(c, "server", 0)}
          /\ UNCHANGED <<udpSent, udpMain, udpReadfds, udpAddr, udpLen, udpSaid, udpLost,
                         udpSwallowed, udpPrinted, udpShown>>
      BY <1>6 DEF Udp!Greet, Udp!serverVars, Udp!Server
    <2> QED BY <2>1, <2>2, UdpNew
  <1>7. ASSUME NEW c \in Clients, Udp!ClientSend(c)
        PROVE  UdpInv'
    <2>1. PICK m : m = udpSent[c] + 1
      OBVIOUS
    <2>2. m \in 0..UdpMaxSent
      BY <1>0, <1>7, <2>1 DEF Udp!ClientSend, UdpInv, UdpTypes
    <2>3. /\ c \in udpGreeted /\ udpSent' = [udpSent EXCEPT ![c] = m]
          /\ UNCHANGED <<udpGreeted, udpMain, udpReadfds, udpAddr, udpLen, udpSaid, udpLost,
                         udpSwallowed, udpPrinted, udpShown>>
          /\ udpNetwork' = udpNetwork \cup {Udp!Datagram(c, "server", udpSent'[c])}
      BY <1>7, <2>1 DEF Udp!ClientSend, Udp!serverVars, Udp!Server
    <2>4. udpSent'[c] = m
      BY <2>3 DEF UdpInv, UdpTypes
    <2> QED BY <2>1, <2>2, <2>3, <2>4, UdpNew
  <1>8. ASSUME NEW c \in Clients, Udp!ClientRecv(c)
        PROVE  UdpInv'
    <2>1. PICK d \in udpNetwork : /\ d.to = c /\ udpNetwork' = udpNetwork \ {d}
                                  /\ udpShown' = [udpShown EXCEPT ![c] = @ \cup {d.line}]
      BY <1>8 DEF Udp!ClientRecv
    <2>2. UNCHANGED <<udpMain, udpReadfds, udpAddr, udpLen, udpGreeted, udpSent, udpSaid, udpLost,
                      udpSwallowed, udpPrinted>>
      BY <1>8 DEF Udp!ClientRecv, Udp!serverVars, Udp!clientVars
    <2>3. d.to # "server" /\ d \in UdpAll
      BY <1>0, <2>1 DEF UdpAll
    <2>4. d.from = "server" /\ d.line <= udpSaid /\ UdpHeard(c) /\ d.line \in Nat
      BY <2>1, <2>3 DEF UdpInv, UdpTypes, ToOne, Packet
    <2>5. d.line \in 0..udpSaid
      BY <1>0, <2>4 DEF UdpInv, UdpTypes
    <2>6. /\ udpShown' \in [Clients -> SUBSET (0..udpSaid)]
          /\ udpShown'[c] = udpShown[c] \cup {d.line}
          /\ \A b \in Clients \ {c} : udpShown'[b] = udpShown[b]
      BY <2>1, <2>5 DEF UdpInv, UdpTypes
    <2>7. UdpAll' \subseteq UdpAll /\ \A e \in UdpAll : e \in UdpAll' \/ e = d
      BY <2>1, <2>2 DEF UdpAll
    <2>8. UdpTypes'
      BY <2>2, <2>6, <2>7 DEF UdpInv, UdpTypes
    <2>9. SentToServer'
      <3>1. \A b, n : Udp!Datagram(b, "server", n).to = "server"
        BY DEF Udp!Datagram
      <3>2. \A b \in udpGreeted : \A n \in 0..udpSent[b] : Udp!Datagram(b, "server", n) \in UdpAll'
        BY <2>3, <2>7, <3>1 DEF UdpInv, SentToServer
      <3> QED BY <2>2, <2>7, <3>2 DEF UdpInv, SentToServer
    <2>10. UdpApart'
      BY <2>1, <2>2 DEF UdpInv, UdpApart
    <2>11. \A b : UdpHeard(b)' <=> UdpHeard(b)
      BY <2>2 DEF UdpHeard
    <2>12. AddressKnown'
      BY <2>2, <2>11 DEF UdpInv, AddressKnown
    <2>13. ToOne'
      <3>1. \A e \in UdpAll' : e.to # "server" =>
               e.from = "server" /\ e.line <= udpSaid' /\ UdpHeard(e.to)'
        BY <2>2, <2>7, <2>11 DEF UdpInv, ToOne
      <3>2. \A b \in Clients : udpShown'[b] # {} => UdpHeard(b)'
        BY <2>4, <2>6, <2>11 DEF UdpInv, ToOne
      <3>3. \A e, f \in udpNetwork' :
               e.to # "server" /\ f.to # "server" /\ e.line = f.line => e.to = f.to
        BY <2>1 DEF UdpInv, ToOne
      <3>4. \A e \in udpNetwork' : \A b \in Clients :
               e.to # "server" /\ e.line \in udpShown'[b] => e.to = b
        BY <2>1, <2>3, <2>6 DEF UdpInv, ToOne
      <3>5. \A b \in Clients : d.line \in udpShown[b] => b = c
        BY <2>1, <2>3 DEF UdpInv, ToOne
      <3>6. \A a, b \in Clients : \A n \in udpShown'[a] : n \in udpShown'[b] => a = b
        <4>1. ASSUME NEW a \in Clients, NEW b \in Clients, NEW n, n \in udpShown'[a], n \in udpShown'[b]
              PROVE  a = b
          <5>1. CASE n = d.line
            <6>1. a = c
              BY <2>6, <3>5, <4>1, <5>1
            <6>2. b = c
              BY <2>6, <3>5, <4>1, <5>1
            <6> QED BY <6>1, <6>2
          <5>2. CASE n # d.line
            <6>1. n \in udpShown[a] /\ n \in udpShown[b]
              BY <2>6, <4>1, <5>2
            <6> QED BY <6>1 DEF UdpInv, ToOne
          <5> QED BY <5>1, <5>2
        <4> QED BY <4>1
      <3> QED BY <3>1, <3>2, <3>3, <3>4, <3>6 DEF ToOne
    <2> QED BY <2>8, <2>9, <2>10, <2>12, <2>13 DEF UdpInv
  <1>9. CASE Udp!Lose
    <2>1. PICK d \in udpNetwork : udpNetwork' = udpNetwork \ {d} /\ udpLost' = udpLost \cup {d}
      BY <1>9 DEF Udp!Lose
    <2>2. UNCHANGED <<udpMain, udpReadfds, udpAddr, udpLen, udpGreeted, udpSent, udpSaid,
                      udpSwallowed, udpPrinted, udpShown>>
      BY <1>9 DEF Udp!Lose, Udp!serverVars, Udp!clientVars
    <2>3. UdpAll' = UdpAll /\ SentToServer' /\ UdpApart' /\ ToOne'
      BY <2>1, <2>2, UdpMoved
    <2>4. UdpTypes'
      BY <2>2, <2>3 DEF UdpInv, UdpTypes
    <2>5. AddressKnown'
      BY <2>2 DEF UdpInv, AddressKnown, UdpHeard
    <2> QED BY <2>3, <2>4, <2>5 DEF UdpInv
  <1> QED BY <1>1, <1>2, <1>3, <1>4, <1>5, <1>6, <1>7, <1>8, <1>9 DEF Udp!Next, Udp!Main

-----------------------------------------------------------------------------
(* ipc/msqsnd.c and ipc/msqrsv.c.                                            *)

Sends == 1..Len(msqMsgs)
Queued == {msqQueue[j] : j \in 1..Len(msqQueue)}
Out == msqPrinted \cup msqUnseen
BytesOf == UNION {{k} \X (1..msqMsgs[k].size) : k \in Queued}

MsqTypes ==
  /\ msqMsgs \in Seq([mtype : Types, size : Sizes]) /\ Len(msqMsgs) <= MaxMessages
  /\ msqQueue \in Seq(Sends) /\ msqEntered \in Seq(Sends)
  /\ Len(msqQueue) <= QueueRoom
  /\ IsFiniteSet(BytesOf) /\ Cardinality(BytesOf) <= QueueRoom

(* The five places part the runs, and no run is queued twice. *)
MsqApart ==
  /\ msqWaiting \cap (msqRefused \cup Queued \cup Out) = {}
  /\ msqRefused \cap (Queued \cup Out) = {}
  /\ Queued \cap Out = {}
  /\ msqPrinted \cap msqUnseen = {}
  /\ msqWaiting \cup msqRefused \cup Queued \cup Out = Sends

(* The queue is what entered and was not taken, in its order. *)
MsqOrder ==
  /\ \A a, b \in 1..Len(msqEntered) : msqEntered[a] = msqEntered[b] => a = b
  /\ {msqEntered[a] : a \in 1..Len(msqEntered)} = Queued \cup Out
  /\ \A i, j \in 1..Len(msqQueue) : \A a, b \in 1..Len(msqEntered) :
       msqEntered[a] = msqQueue[i] /\ msqEntered[b] = msqQueue[j] /\ i < j => a < b

MsqTaken ==
  \A a, b \in 1..Len(msqEntered) :
    /\ a < b /\ msqMsgs[msqEntered[a]].mtype = msqMsgs[msqEntered[b]].mtype
    /\ msqEntered[b] \in Out
    => msqEntered[a] \in Out

MsqInv == MsqTypes /\ MsqApart /\ MsqOrder /\ MsqTaken

LEMMA Removed ==
  ASSUME NEW S, NEW s \in Seq(S), NEW i \in 1..Len(s)
  PROVE  /\ Msq!RemoveAt(s, i) \in Seq(S)
         /\ Len(Msq!RemoveAt(s, i)) = Len(s) - 1
         /\ \A k \in 1..Len(s) - 1 :
              Msq!RemoveAt(s, i)[k] = IF k < i THEN s[k] ELSE s[k + 1]
  <1> DEFINE n == Len(s)
             p == SubSeq(s, 1, i - 1)
             q == SubSeq(s, i + 1, n)
  <1>1. n \in Nat /\ i \in Nat /\ 1 <= i /\ i <= n /\ \A k \in 1..n : s[k] \in S
    BY LenProperties
  <1>2. p \in Seq(S) /\ Len(p) = i - 1 /\ \A k \in 1..i - 1 : p[k] = s[k]
    <2>1. \A k \in 1..i - 1 : s[k] \in S
      BY <1>1
    <2>2. /\ SubSeq(s, 1, i - 1) \in Seq(S)
          /\ Len(SubSeq(s, 1, i - 1)) = IF 1 <= i - 1 THEN (i - 1) - 1 + 1 ELSE 0
          /\ \A k \in 1..(i - 1) - 1 + 1 : SubSeq(s, 1, i - 1)[k] = s[1 + k - 1]
      BY <1>1, <2>1, SubSeqProperties
    <2>3. /\ (IF 1 <= i - 1 THEN (i - 1) - 1 + 1 ELSE 0) = i - 1 /\ (i - 1) - 1 + 1 = i - 1
          /\ \A k \in 1..i - 1 : 1 + k - 1 = k
      BY <1>1
    <2> QED BY <2>2, <2>3
  <1>3. q \in Seq(S) /\ Len(q) = n - i /\ \A k \in 1..n - i : q[k] = s[i + k]
    <2>1. \A k \in i + 1..n : s[k] \in S
      BY <1>1
    <2>2. /\ SubSeq(s, i + 1, n) \in Seq(S)
          /\ Len(SubSeq(s, i + 1, n)) = IF i + 1 <= n THEN n - (i + 1) + 1 ELSE 0
          /\ \A k \in 1..n - (i + 1) + 1 : SubSeq(s, i + 1, n)[k] = s[(i + 1) + k - 1]
      BY <1>1, <2>1, SubSeqProperties
    <2>3. /\ (IF i + 1 <= n THEN n - (i + 1) + 1 ELSE 0) = n - i /\ n - (i + 1) + 1 = n - i
          /\ \A k \in 1..n - i : (i + 1) + k - 1 = i + k
      BY <1>1
    <2> QED BY <2>2, <2>3
  <1>4. Msq!RemoveAt(s, i) = p \o q
    BY DEF Msq!RemoveAt
  <1> HIDE DEF n, p, q
  <1>5. /\ p \o q \in Seq(S) /\ Len(p \o q) = Len(p) + Len(q)
        /\ \A k \in 1..Len(p) + Len(q) : (p \o q)[k] = IF k <= Len(p) THEN p[k] ELSE q[k - Len(p)]
    BY <1>2, <1>3, ConcatProperties
  <1>6. Len(p) + Len(q) = n - 1
    BY <1>1, <1>2, <1>3
  <1>7. ASSUME NEW k \in 1..n - 1
        PROVE  (p \o q)[k] = IF k < i THEN s[k] ELSE s[k + 1]
    <2>1. (p \o q)[k] = IF k <= i - 1 THEN p[k] ELSE q[k - (i - 1)]
      BY <1>2, <1>5, <1>6
    <2>2. CASE k < i
      <3>1. k <= i - 1 /\ k \in 1..i - 1
        BY <1>1, <2>2
      <3> QED BY <1>2, <2>1, <2>2, <3>1
    <2>3. CASE ~(k < i)
      <3>1. ~(k <= i - 1) /\ k - (i - 1) \in 1..n - i /\ i + (k - (i - 1)) = k + 1
        BY <1>1, <2>3
      <3>2. q[k - (i - 1)] = s[k + 1]
        BY <1>3, <3>1
      <3> QED BY <2>1, <2>3, <3>1, <3>2
    <2> QED BY <2>2, <2>3
  <1> QED BY <1>4, <1>5, <1>6, <1>7 DEF n

LEMMA MsqBytesAre ==
  ASSUME MsqTypes
  PROVE  Msq!Bytes = Cardinality(BytesOf)
  <1>1. DOMAIN msqQueue = 1..Len(msqQueue)
    BY LenProperties DEF MsqTypes
  <1>2. Msq!ToSet(msqQueue) = Queued
    BY <1>1 DEF Msq!ToSet, Queued
  <1>3. Msq!Bytes = Msq!Cardinality(BytesOf)
    BY <1>2 DEF Msq!Bytes, BytesOf
  <1>4. Msq!Cardinality(BytesOf) = Cardinality(BytesOf)
    BY Zenon DEF Msq!Cardinality, Cardinality
  <1> QED BY <1>3, <1>4

LEMMA MsqHas ==
  ASSUME MsqInv
  PROVE  Msq!TypeOK /\ Msq!OnceOnly /\ Msq!InOrder
  <1>1. /\ DOMAIN msqMsgs = Sends /\ DOMAIN msqQueue = 1..Len(msqQueue)
        /\ DOMAIN msqEntered = 1..Len(msqEntered)
    BY LenProperties DEF MsqInv, MsqTypes, Sends
  <1>2. Msq!TypeOK
    <2>1. Msq!Bytes <= QueueRoom
      BY MsqBytesAre DEF MsqInv, MsqTypes
    <2>2. {msqWaiting, msqRefused, msqPrinted, msqUnseen} \subseteq SUBSET DOMAIN msqMsgs
      BY <1>1 DEF MsqInv, MsqApart, Out
    <2> QED BY <2>1, <2>2 DEF MsqInv, MsqTypes, Msq!TypeOK
  <1>3. Msq!OnceOnly
    <2>1. Msq!ToSet(msqQueue) = Queued
      BY <1>1 DEF Msq!ToSet, Queued
    <2> DEFINE P == <<msqWaiting, msqRefused, Queued, msqPrinted, msqUnseen>>
    <2>2. Msq!Places = P
      BY <2>1 DEF Msq!Places
    <2>3. ASSUME NEW k \in Sends
          PROVE  \E one \in 1..5 : \A p \in 1..5 : k \in P[p] <=> p = one
      <3>1. \A p \in 1..5 : p = 1 \/ p = 2 \/ p = 3 \/ p = 4 \/ p = 5
        OBVIOUS
      <3>2. /\ k \in msqWaiting =>
                 k \notin msqRefused /\ k \notin Queued /\ k \notin msqPrinted /\ k \notin msqUnseen
            /\ k \in msqRefused => k \notin Queued /\ k \notin msqPrinted /\ k \notin msqUnseen
            /\ k \in Queued => k \notin msqPrinted /\ k \notin msqUnseen
            /\ k \in msqPrinted => k \notin msqUnseen
            /\ k \in msqWaiting \/ k \in msqRefused \/ k \in Queued \/ k \in msqPrinted \/ k \in msqUnseen
        BY DEF MsqInv, MsqApart, Out
      <3>3. /\ P[1] = msqWaiting /\ P[2] = msqRefused /\ P[3] = Queued /\ P[4] = msqPrinted
            /\ P[5] = msqUnseen
        OBVIOUS
      <3>4. 1 \in 1..5 /\ 2 \in 1..5 /\ 3 \in 1..5 /\ 4 \in 1..5 /\ 5 \in 1..5
        OBVIOUS
      <3> HIDE DEF P
      <3>5. \A one \in 1..5 : (\A p \in 1..5 : k \in P[p] <=> p = one)
              <=> /\ (k \in P[1] <=> one = 1) /\ (k \in P[2] <=> one = 2) /\ (k \in P[3] <=> one = 3)
                  /\ (k \in P[4] <=> one = 4) /\ (k \in P[5] <=> one = 5)
        BY <3>1, <3>4
      <3>6. \E one \in 1..5 :
               /\ (k \in P[1] <=> one = 1) /\ (k \in P[2] <=> one = 2) /\ (k \in P[3] <=> one = 3)
               /\ (k \in P[4] <=> one = 4) /\ (k \in P[5] <=> one = 5)
        BY <3>2, <3>3, <3>4
      <3> QED BY <3>5, <3>6
    <2> QED BY <1>1, <2>2, <2>3 DEF Msq!OnceOnly
  <1>4. Msq!InOrder
    BY <1>1 DEF MsqInv, MsqTaken, Msq!InOrder, Out
  <1> QED BY <1>2, <1>3, <1>4

LEMMA MsqInit ==
  ASSUME Msq!Init
  PROVE  MsqInv
  <1>0. QueueRoom \in Nat /\ MaxMessages \in Nat
    BY ProgramsAssumption
  <1>1. /\ msqMsgs = <<>> /\ msqWaiting = {} /\ msqRefused = {} /\ msqQueue = <<>>
        /\ msqEntered = <<>> /\ msqPrinted = {} /\ msqUnseen = {}
    BY DEF Msq!Init
  <1>2. Queued = {} /\ Sends = {} /\ Len(msqMsgs) = 0 /\ Len(msqQueue) = 0 /\ Len(msqEntered) = 0
    BY <1>1 DEF Queued, Sends
  <1>3. BytesOf = {}
    BY <1>2 DEF BytesOf
  <1>4. IsFiniteSet(BytesOf) /\ Cardinality(BytesOf) = 0
    BY <1>3, FS_EmptySet
  <1>5. MsqTypes
    <2>1. /\ msqMsgs \in Seq([mtype : Types, size : Sizes]) /\ msqQueue \in Seq(Sends)
          /\ msqEntered \in Seq(Sends)
      BY <1>1
    <2> QED BY <1>0, <1>2, <1>4, <2>1 DEF MsqTypes
  <1>6. MsqApart /\ MsqOrder /\ MsqTaken
    BY <1>1, <1>2 DEF MsqApart, MsqOrder, MsqTaken, Out
  <1> QED BY <1>5, <1>6 DEF MsqInv

LEMMA MsqSent ==
  ASSUME MsqInv, NEW t \in Types, NEW n \in Sizes, Msq!msqsnd(t, n)
  PROVE  MsqInv'
  <1> DEFINE R == [mtype : Types, size : Sizes]
             e == [mtype |-> t, size |-> n]
  <1>1. PICK l : l = Len(msqMsgs)
    OBVIOUS
  <1>2. l \in Nat /\ l < MaxMessages /\ e \in R /\ MaxMessages \in Nat
    BY <1>1, ProgramsAssumption DEF MsqInv, MsqTypes, Msq!msqsnd
  <1>3. /\ msqMsgs' \in Seq(R) /\ Len(msqMsgs') = l + 1
        /\ \A k \in 1..l : msqMsgs'[k] = msqMsgs[k]
    <2>1. msqMsgs \in Seq(R)
      BY DEF MsqInv, MsqTypes
    <2>2. /\ Append(msqMsgs, e) \in Seq(R) /\ Len(Append(msqMsgs, e)) = l + 1
          /\ \A k \in 1..l : Append(msqMsgs, e)[k] = msqMsgs[k]
      BY <1>1, <1>2, <2>1, AppendProperties
    <2>3. msqMsgs' = Append(msqMsgs, e)
      BY DEF Msq!msqsnd
    <2> HIDE DEF e, R
    <2> QED BY <2>2, <2>3
  <1>4. /\ UNCHANGED <<msqQueue, msqEntered, msqPrinted, msqUnseen>>
        /\ \/ msqRefused' = msqRefused \cup {l + 1} /\ UNCHANGED msqWaiting
           \/ msqWaiting' = msqWaiting \cup {l + 1} /\ UNCHANGED msqRefused
    BY <1>3 DEF Msq!msqsnd
  <1>5. Sends = 1..l /\ Sends' = 1..l + 1 /\ l + 1 \notin 1..l /\ Queued' = Queued /\ Out' = Out
        /\ 1..l + 1 = (1..l) \cup {l + 1}
    BY <1>1, <1>2, <1>3, <1>4 DEF Sends, Queued, Out
  <1>6. Queued \subseteq 1..l /\ {msqEntered[a] : a \in 1..Len(msqEntered)} \subseteq 1..l
    BY <1>5 DEF MsqInv, MsqApart, MsqOrder
  <1>7. BytesOf' = BytesOf
    <2>1. \A k \in Queued : msqMsgs'[k] = msqMsgs[k]
      BY <1>3, <1>6
    <2>2. \A k \in Queued : {k} \X (1..msqMsgs'[k].size) = {k} \X (1..msqMsgs[k].size)
      BY <2>1, Zenon
    <2>3. {{k} \X (1..msqMsgs'[k].size) : k \in Queued} = {{k} \X (1..msqMsgs[k].size) : k \in Queued}
      BY <2>2
    <2> QED BY <1>5, <2>3, Zenon DEF BytesOf
  <1>8. MsqTypes'
    <2>1. Seq(1..l) \subseteq Seq(1..l + 1)
      BY <1>5, SeqMonotonic
    <2>2. msqQueue' \in Seq(Sends') /\ msqEntered' \in Seq(Sends')
      BY <1>4, <1>5, <2>1 DEF MsqInv, MsqTypes
    <2>3. Len(msqMsgs') <= MaxMessages
      BY <1>2, <1>3
    <2> HIDE DEF R
    <2> QED BY <1>3, <1>4, <1>7, <2>2, <2>3 DEF MsqInv, MsqTypes, R
  <1>9. MsqApart'
    <2>1. l + 1 \notin Sends /\ Sends' = Sends \cup {l + 1}
      BY <1>5
    <2> QED BY <1>4, <1>5, <2>1 DEF MsqInv, MsqApart, Out
  <1>10. MsqOrder'
    BY <1>4, <1>5 DEF MsqInv, MsqOrder
  <1>11. MsqTaken'
    <2>1. \A a \in 1..Len(msqEntered) : msqMsgs'[msqEntered[a]] = msqMsgs[msqEntered[a]]
      BY <1>3, <1>6
    <2> QED BY <1>4, <1>5, <2>1 DEF MsqInv, MsqTaken
  <1> QED BY <1>8, <1>9, <1>10, <1>11 DEF MsqInv

LEMMA MsqEnters ==
  ASSUME MsqInv, NEW k \in msqWaiting, Msq!enter(k)
  PROVE  MsqInv'
  <1>1. PICK l : l = Len(msqQueue)
    OBVIOUS
  <1>2. PICK m : m = Len(msqEntered)
    OBVIOUS
  <1>3. /\ msqQueue \in Seq(Sends) /\ msqEntered \in Seq(Sends) /\ k \in Sends
        /\ l \in Nat /\ m \in Nat
    BY <1>1, <1>2 DEF MsqInv, MsqTypes, MsqApart
  <1>4. /\ msqQueue' \in Seq(Sends) /\ Len(msqQueue') = l + 1 /\ msqQueue'[l + 1] = k
        /\ \A j \in 1..l : msqQueue'[j] = msqQueue[j]
    <2>1. /\ Append(msqQueue, k) \in Seq(Sends) /\ Len(Append(msqQueue, k)) = l + 1
          /\ Append(msqQueue, k)[l + 1] = k
          /\ \A j \in 1..l : Append(msqQueue, k)[j] = msqQueue[j]
      BY <1>1, <1>3, AppendProperties
    <2>2. msqQueue' = Append(msqQueue, k)
      BY DEF Msq!enter
    <2> QED BY <2>1, <2>2
  <1>5. /\ msqEntered' \in Seq(Sends) /\ Len(msqEntered') = m + 1 /\ msqEntered'[m + 1] = k
        /\ \A j \in 1..m : msqEntered'[j] = msqEntered[j]
    <2>1. /\ Append(msqEntered, k) \in Seq(Sends) /\ Len(Append(msqEntered, k)) = m + 1
          /\ Append(msqEntered, k)[m + 1] = k
          /\ \A j \in 1..m : Append(msqEntered, k)[j] = msqEntered[j]
      BY <1>2, <1>3, AppendProperties
    <2>2. msqEntered' = Append(msqEntered, k)
      BY DEF Msq!enter
    <2> QED BY <2>1, <2>2
  <1>6. /\ UNCHANGED <<msqMsgs, msqRefused, msqPrinted, msqUnseen>> /\ msqWaiting' = msqWaiting \ {k}
        /\ Msq!Bytes + msqMsgs[k].size <= QueueRoom /\ l < QueueRoom
    BY <1>1 DEF Msq!enter
  <1>7. Sends' = Sends /\ Out' = Out
    BY <1>6 DEF Sends, Out
  <1>8. 1..l + 1 = (1..l) \cup {l + 1} /\ 1..m + 1 = (1..m) \cup {m + 1}
        /\ l + 1 \notin 1..l /\ m + 1 \notin 1..m
    BY <1>3
  <1>9. Queued' = Queued \cup {k} /\ {msqEntered'[a] : a \in 1..m + 1}
          = {msqEntered[a] : a \in 1..m} \cup {k}
    <2>1. Queued' = {msqQueue'[j] : j \in 1..l + 1}
      BY <1>4 DEF Queued
    <2>2. Queued = {msqQueue[j] : j \in 1..l}
      BY <1>1 DEF Queued
    <2>3. {msqQueue'[j] : j \in 1..l + 1} = {msqQueue[j] : j \in 1..l} \cup {k}
      BY <1>4, <1>8
    <2>4. {msqEntered'[a] : a \in 1..m + 1} = {msqEntered[a] : a \in 1..m} \cup {k}
      BY <1>5, <1>8
    <2> QED BY <2>1, <2>2, <2>3, <2>4
  <1>10. k \notin Queued /\ k \notin Out /\ k \notin msqRefused
    BY DEF MsqInv, MsqApart
  <1>11. MsqTypes'
    <2> DEFINE size == msqMsgs[k].size
               new == {k} \X (1..size)
    <2>1. size \in Nat
      <3>1. Sizes \subseteq Nat /\ msqMsgs \in Seq([mtype : Types, size : Sizes])
        BY ProgramsAssumption DEF MsqInv, MsqTypes
      <3>2. \A q \in 1..Len(msqMsgs) : msqMsgs[q] \in [mtype : Types, size : Sizes]
        BY <3>1, LenProperties
      <3>3. msqMsgs[k] \in [mtype : Types, size : Sizes]
        BY <1>3, <3>2, Zenon DEF Sends
      <3> QED BY <3>1, <3>3
    <2>2. BytesOf' = BytesOf \cup new
      <3>1. BytesOf' = UNION {{q} \X (1..msqMsgs[q].size) : q \in Queued \cup {k}}
        BY <1>6, <1>9 DEF BytesOf
      <3> QED BY <3>1 DEF BytesOf
    <2>3. IsFiniteSet(new) /\ Cardinality(new) = size
      <3>1. IsFiniteSet({k}) /\ Cardinality({k}) = 1
        BY FS_Singleton, Zenon
      <3>2. IsFiniteSet(1..size) /\ Cardinality(1..size) = size
        BY <2>1, FS_Interval
      <3> HIDE DEF size
      <3>3. IsFiniteSet({k} \X (1..size))
            /\ Cardinality({k} \X (1..size)) = Cardinality({k}) * Cardinality(1..size)
        BY <3>1, <3>2, FS_Product
      <3>4. Cardinality({k}) * Cardinality(1..size) = size
        BY <2>1, <3>1, <3>2
      <3> QED BY <3>3, <3>4
    <2>4. Cardinality(BytesOf) + size <= QueueRoom /\ IsFiniteSet(BytesOf)
      BY <1>6, MsqBytesAre DEF MsqInv, MsqTypes
    <2> HIDE DEF size, new
    <2>5. /\ IsFiniteSet(BytesOf \cup new)
          /\ Cardinality(BytesOf \cup new)
               = Cardinality(BytesOf) + Cardinality(new) - Cardinality(BytesOf \cap new)
      BY <2>3, <2>4, FS_Union
    <2>6. Cardinality(BytesOf) \in Nat /\ Cardinality(BytesOf \cap new) \in Nat
      <3>1. IsFiniteSet(BytesOf \cap new)
        BY <2>3, FS_Subset
      <3> QED BY <2>4, <3>1, FS_CardinalityType
    <2>7. QueueRoom \in Nat
      BY ProgramsAssumption
    <2>8. Cardinality(BytesOf \cup new) <= QueueRoom
      BY <2>1, <2>3, <2>4, <2>5, <2>6, <2>7
    <2>9. Len(msqQueue') <= QueueRoom
      BY <1>3, <1>4, <1>6, <2>7
    <2> QED BY <1>4, <1>5, <1>6, <1>7, <2>2, <2>5, <2>8, <2>9 DEF MsqInv, MsqTypes
  <1>12. MsqApart'
    BY <1>6, <1>7, <1>9, <1>10 DEF MsqInv, MsqApart
  <1>13. MsqOrder'
    <2>1. /\ \A a, b \in 1..m : msqEntered[a] = msqEntered[b] => a = b
          /\ {msqEntered[a] : a \in 1..m} = Queued \cup Out
          /\ \A i, j \in 1..l : \A a, b \in 1..m :
               msqEntered[a] = msqQueue[i] /\ msqEntered[b] = msqQueue[j] /\ i < j => a < b
      BY <1>1, <1>2 DEF MsqInv, MsqOrder
    <2>2. \A a \in 1..m : msqEntered[a] # k
      BY <1>10, <2>1
    <2>3. \A a, b \in 1..m + 1 : msqEntered'[a] = msqEntered'[b] => a = b
      BY <1>5, <1>8, <2>1, <2>2
    <2>4. {msqEntered'[a] : a \in 1..m + 1} = Queued' \cup Out'
      BY <1>7, <1>9, <2>1
    <2>5. ASSUME NEW i \in 1..l + 1, NEW j \in 1..l + 1, NEW a \in 1..m + 1, NEW b \in 1..m + 1,
                 msqEntered'[a] = msqQueue'[i], msqEntered'[b] = msqQueue'[j], i < j
          PROVE  a < b
      <3>1. i \in 1..l
        BY <1>3, <2>5
      <3>2. msqEntered'[a] = msqQueue[i] /\ msqQueue[i] # k
        BY <1>1, <1>4, <1>10, <2>5, <3>1 DEF Queued
      <3>3. a \in 1..m
        BY <1>5, <1>8, <3>2
      <3>4. CASE j \in 1..l
        <4>1. msqEntered'[b] = msqQueue[j] /\ msqQueue[j] # k
          BY <1>1, <1>4, <1>10, <2>5, <3>4 DEF Queued
        <4>2. b \in 1..m
          BY <1>5, <1>8, <4>1
        <4>3. msqEntered[a] = msqQueue[i] /\ msqEntered[b] = msqQueue[j]
          BY <1>5, <3>2, <3>3, <4>1, <4>2
        <4> QED BY <2>1, <2>5, <3>1, <3>3, <3>4, <4>2, <4>3
      <3>5. CASE j = l + 1
        <4>1. msqEntered'[b] = k
          BY <1>4, <2>5, <3>5
        <4>2. b \notin 1..m
          BY <1>5, <2>2, <4>1
        <4> QED BY <1>3, <3>3, <4>2
      <3> QED BY <1>8, <3>4, <3>5
    <2> QED BY <1>4, <1>5, <2>3, <2>4, <2>5 DEF MsqOrder
  <1>14. MsqTaken'
    <2>1. ASSUME NEW a \in 1..m + 1, NEW b \in 1..m + 1, a < b,
                 msqMsgs[msqEntered'[a]].mtype = msqMsgs[msqEntered'[b]].mtype,
                 msqEntered'[b] \in Out
          PROVE  msqEntered'[a] \in Out
      <3>1. b \in 1..m
        BY <1>5, <1>8, <1>10, <2>1
      <3>2. a \in 1..m
        BY <1>3, <2>1, <3>1
      <3>3. msqEntered'[a] = msqEntered[a] /\ msqEntered'[b] = msqEntered[b]
        BY <1>5, <3>1, <3>2
      <3>4. msqMsgs[msqEntered[a]].mtype = msqMsgs[msqEntered[b]].mtype /\ msqEntered[b] \in Out
        BY <2>1, <3>3
      <3>5. msqEntered[a] \in Out
        BY <1>2, <2>1, <3>1, <3>2, <3>4 DEF MsqInv, MsqTaken
      <3> QED BY <3>3, <3>5
    <2> QED BY <1>5, <1>6, <1>7, <2>1 DEF MsqTaken
  <1> QED BY <1>11, <1>12, <1>13, <1>14 DEF MsqInv


(* No run is queued twice. *)
LEMMA QueuedOnce ==
  ASSUME MsqInv, NEW i \in 1..Len(msqQueue), NEW j \in 1..Len(msqQueue), msqQueue[i] = msqQueue[j]
  PROVE  i = j
  <1>1. Len(msqQueue) \in Nat /\ Len(msqEntered) \in Nat
    BY LenProperties DEF MsqInv, MsqTypes
  <1>2. PICK a \in 1..Len(msqEntered) : msqEntered[a] = msqQueue[i]
    BY DEF MsqInv, MsqOrder, Queued
  <1>3. (i < j => a < a) /\ (j < i => a < a)
    BY <1>2 DEF MsqInv, MsqOrder
  <1> QED BY <1>1, <1>3

(* What msqrcv takes is the first of its type. *)
LEMMA FirstMeant ==
  ASSUME NEW t \in Types, NEW j \in Msq!Meant(t), \A i \in Msq!Meant(t) : j <= i,
         NEW i \in DOMAIN msqQueue, Msq!TypeAt(i) = Msq!TypeAt(j)
  PROVE  j \in DOMAIN msqQueue /\ j <= i
  <1>1. j \in DOMAIN msqQueue
    BY Zenon DEF Msq!Meant, Msq!Lowest
  <1>2. i \in Msq!Meant(t)
    BY Zenon DEF Msq!Meant, Msq!Lowest
  <1> QED BY <1>1, <1>2

LEMMA MsqTakes ==
  ASSUME MsqInv, NEW t \in Types, Msq!msqrsv(t)
  PROVE  MsqInv'
  <1>1. PICK l : l = Len(msqQueue)
    OBVIOUS
  <1>2. PICK m : m = Len(msqEntered)
    OBVIOUS
  <1>3. /\ msqQueue \in Seq(Sends) /\ l \in Nat /\ m \in Nat /\ DOMAIN msqQueue = 1..l
    BY <1>1, <1>2, LenProperties DEF MsqInv, MsqTypes
  <1>4. PICK j \in Msq!Meant(t) :
          /\ \A i \in Msq!Meant(t) : j <= i
          /\ msqQueue' = Msq!Taken(j)
          /\ \/ msqPrinted' = msqPrinted \cup {msqQueue[j]} /\ UNCHANGED msqUnseen
             \/ msqUnseen' = msqUnseen \cup {msqQueue[j]} /\ UNCHANGED msqPrinted
          /\ UNCHANGED <<msqMsgs, msqWaiting, msqRefused, msqEntered>>
    BY Zenon DEF Msq!msqrsv
  <1>5. j \in DOMAIN msqQueue
    BY Zenon DEF Msq!Meant, Msq!Lowest
  <1>6. j \in 1..l
    BY <1>3, <1>5
  <1>7. \A i \in 1..l : msqMsgs[msqQueue[i]].mtype = msqMsgs[msqQueue[j]].mtype => j <= i
    <2>1. \A i \in DOMAIN msqQueue : Msq!TypeAt(i) = Msq!TypeAt(j) => j <= i
      BY <1>4, FirstMeant, Zenon
    <2> QED BY <1>3, <2>1 DEF Msq!TypeAt
  <1>8. PICK x : x = msqQueue[j]
    OBVIOUS
  <1>9. /\ msqQueue' \in Seq(Sends) /\ Len(msqQueue') = l - 1
        /\ \A i \in 1..l - 1 : msqQueue'[i] = IF i < j THEN msqQueue[i] ELSE msqQueue[i + 1]
    <2>1. msqQueue' = Msq!RemoveAt(msqQueue, j)
      BY <1>4 DEF Msq!Taken
    <2>2. /\ Msq!RemoveAt(msqQueue, j) \in Seq(Sends) /\ Len(Msq!RemoveAt(msqQueue, j)) = l - 1
          /\ \A i \in 1..l - 1 :
               Msq!RemoveAt(msqQueue, j)[i] = IF i < j THEN msqQueue[i] ELSE msqQueue[i + 1]
      BY <1>1, <1>3, <1>6, Removed
    <2> QED BY <2>1, <2>2
  <1>10. /\ \/ msqPrinted' = msqPrinted \cup {x} /\ UNCHANGED msqUnseen
            \/ msqUnseen' = msqUnseen \cup {x} /\ UNCHANGED msqPrinted
         /\ UNCHANGED <<msqMsgs, msqWaiting, msqRefused, msqEntered>>
    BY <1>4, <1>8
  <1>11. Sends' = Sends /\ Out' = Out \cup {x}
    BY <1>10 DEF Sends, Out
  <1>12. Queued = {msqQueue[i] : i \in 1..l} /\ x \in Queued
    BY <1>1, <1>6, <1>8 DEF Queued
  <1>13. \A i \in 1..l : msqQueue[i] = x => i = j
    BY <1>1, <1>6, <1>8, QueuedOnce
  <1>14. Queued' = Queued \ {x}
    <2>1. Queued' = {msqQueue'[i] : i \in 1..l - 1}
      BY <1>9 DEF Queued
    <2>2. ASSUME NEW i \in 1..l - 1
          PROVE  msqQueue'[i] \in Queued \ {x}
      <3>1. CASE i < j
        <4>1. i \in 1..l /\ i # j
          BY <1>3, <1>6, <3>1
        <4> QED BY <1>9, <1>12, <1>13, <3>1, <4>1
      <3>2. CASE ~(i < j)
        <4>1. i + 1 \in 1..l /\ i + 1 # j
          BY <1>3, <1>6, <3>2
        <4> QED BY <1>9, <1>12, <1>13, <3>2, <4>1
      <3> QED BY <3>1, <3>2
    <2>3. ASSUME NEW y \in Queued \ {x}
          PROVE  \E i \in 1..l - 1 : msqQueue'[i] = y
      <3>1. PICK i \in 1..l : msqQueue[i] = y
        BY <1>12
      <3>2. i # j
        BY <1>8, <3>1
      <3>3. CASE i < j
        <4>1. i \in 1..l - 1
          BY <1>3, <1>6, <3>3
        <4> QED BY <1>9, <3>1, <3>3, <4>1
      <3>4. CASE j < i
        <4>1. i - 1 \in 1..l - 1 /\ ~(i - 1 < j) /\ (i - 1) + 1 = i
          BY <1>3, <1>6, <3>4
        <4>2. msqQueue'[i - 1] = msqQueue[(i - 1) + 1]
          BY <1>9, <4>1
        <4> QED BY <3>1, <4>1, <4>2
      <3> QED BY <1>3, <1>6, <3>2, <3>3, <3>4
    <2> QED BY <2>1, <2>2, <2>3
  <1>15. x \notin Out /\ x \notin msqWaiting /\ x \notin msqRefused
    BY <1>12 DEF MsqInv, MsqApart
  <1>16. MsqTypes'
    <2>1. BytesOf' \subseteq BytesOf
      <3>1. BytesOf' = UNION {{q} \X (1..msqMsgs[q].size) : q \in Queued \ {x}}
        BY <1>10, <1>14 DEF BytesOf
      <3> QED BY <3>1 DEF BytesOf
    <2>2. IsFiniteSet(BytesOf) /\ Cardinality(BytesOf) <= QueueRoom
      BY DEF MsqInv, MsqTypes
    <2>3. IsFiniteSet(BytesOf') /\ Cardinality(BytesOf') <= Cardinality(BytesOf)
      BY <2>1, <2>2, FS_Subset
    <2>4. Cardinality(BytesOf) \in Nat /\ Cardinality(BytesOf') \in Nat /\ QueueRoom \in Nat
      BY <2>2, <2>3, FS_CardinalityType, ProgramsAssumption
    <2>5. Cardinality(BytesOf') <= QueueRoom
      BY <2>2, <2>3, <2>4
    <2>6. Len(msqQueue') <= QueueRoom
      BY <1>1, <1>3, <1>9, <2>4 DEF MsqInv, MsqTypes
    <2> QED BY <1>9, <1>10, <1>11, <2>3, <2>5, <2>6 DEF MsqInv, MsqTypes
  <1>17. MsqApart'
    <2>1. msqPrinted' \cap msqUnseen' = {}
      BY <1>10, <1>15 DEF MsqInv, MsqApart, Out
    <2> QED BY <1>10, <1>11, <1>12, <1>14, <1>15, <2>1 DEF MsqInv, MsqApart
  <1>18. MsqOrder'
    <2>1. /\ \A a, b \in 1..m : msqEntered[a] = msqEntered[b] => a = b
          /\ {msqEntered[a] : a \in 1..m} = Queued \cup Out
          /\ \A i, k \in 1..l : \A a, b \in 1..m :
               msqEntered[a] = msqQueue[i] /\ msqEntered[b] = msqQueue[k] /\ i < k => a < b
      BY <1>1, <1>2 DEF MsqInv, MsqOrder
    <2>2. {msqEntered[a] : a \in 1..m} = Queued' \cup Out'
      BY <1>11, <1>12, <1>14, <2>1
    <2>3. ASSUME NEW i \in 1..l - 1
          PROVE  \E o \in 1..l : /\ msqQueue'[i] = msqQueue[o]
                                 /\ o = IF i < j THEN i ELSE i + 1
      BY <1>3, <1>9
    <2>4. ASSUME NEW i \in 1..l - 1, NEW k \in 1..l - 1, NEW a \in 1..m, NEW b \in 1..m,
                 msqEntered[a] = msqQueue'[i], msqEntered[b] = msqQueue'[k], i < k
          PROVE  a < b
      <3>1. PICK o \in 1..l : /\ msqQueue'[i] = msqQueue[o]
                              /\ o = IF i < j THEN i ELSE i + 1
        BY <2>3
      <3>2. PICK p \in 1..l : /\ msqQueue'[k] = msqQueue[p]
                              /\ p = IF k < j THEN k ELSE k + 1
        BY <2>3
      <3>3. o < p
        BY <1>3, <1>6, <2>4, <3>1, <3>2
      <3>4. msqEntered[a] = msqQueue[o] /\ msqEntered[b] = msqQueue[p]
        BY <2>4, <3>1, <3>2
      <3> QED BY <2>1, <3>3, <3>4
    <2> QED BY <1>2, <1>9, <1>10, <2>1, <2>2, <2>4 DEF MsqOrder
  <1>19. MsqTaken'
    <2>1. ASSUME NEW a \in 1..m, NEW b \in 1..m, a < b,
                 msqMsgs[msqEntered[a]].mtype = msqMsgs[msqEntered[b]].mtype,
                 msqEntered[b] \in Out \cup {x}
          PROVE  msqEntered[a] \in Out \cup {x}
      <3>1. CASE msqEntered[b] \in Out
        BY <1>2, <2>1, <3>1 DEF MsqInv, MsqTaken
      <3>2. CASE msqEntered[b] = x
        <4>1. msqEntered[a] \in Queued \cup Out
          BY <1>2 DEF MsqInv, MsqOrder
        <4>2. CASE msqEntered[a] \in Queued
          <5>1. PICK i \in 1..l : msqQueue[i] = msqEntered[a]
            BY <1>12, <4>2
          <5>2. j <= i
            BY <1>7, <1>8, <2>1, <3>2, <5>1
          <5>3. j < i => b < a
            BY <1>1, <1>2, <1>6, <1>8, <3>2, <5>1 DEF MsqInv, MsqOrder
          <5>4. i = j
            BY <1>3, <1>6, <2>1, <5>2, <5>3
          <5> QED BY <1>8, <5>1, <5>4
        <4> QED BY <4>1, <4>2
      <3> QED BY <2>1, <3>1, <3>2
    <2> QED BY <1>2, <1>10, <1>11, <2>1 DEF MsqTaken
  <1> QED BY <1>16, <1>17, <1>18, <1>19 DEF MsqInv

LEMMA MsqNext ==
  ASSUME MsqInv, [Msq!Next]_msqVars
  PROVE  MsqInv'
  <1>1. CASE UNCHANGED msqVars
    BY <1>1 DEF msqVars, MsqInv, MsqTypes, MsqApart, MsqOrder, MsqTaken, Sends, Queued, Out, BytesOf
  <1>2. CASE Msq!Next
    BY <1>2, MsqSent, MsqEnters, MsqTakes, Zenon DEF Msq!Next
  <1> QED BY <1>1, <1>2

-----------------------------------------------------------------------------
(* The chats between two over TCP.                                           *)

Knocked == {tcpBacklog[k] : k \in 1..Len(tcpBacklog)}

TcpTypes ==
  /\ program \in AllPrograms
  /\ tcpServer \in {"accept", "wait", "handle", "ended", "killed"}
  /\ tcpTodo \subseteq Clients \cup {"stdin", "sockfd"}
  /\ tcpConfd \in tcpOpen \cup {"none"}
  /\ tcpEdge \subseteq tcpOpen /\ tcpOpen \subseteq Clients
  /\ tcpBacklog \in Seq(Clients)
  /\ tcpClient \in [Clients -> {"new", "on", "gone"}]
  /\ tcpLink \in [Clients -> {"up", "fin", "rst", "broken"}]
  /\ tcpSent \in [Clients -> Nat] /\ tcpInbound \in [Clients -> Nat]
  /\ tcpPrinted \in [Clients -> Nat] /\ tcpOutbound \in [Clients -> Nat]
  /\ tcpSaid \in 0..TcpMaxSaid
  /\ tcpOverlapped \subseteq Clients

(* What is reported is still so when it is handled. *)
TcpRound ==
  /\ tcpServer = "accept" => tcpTodo = {}
  /\ "sockfd" \in tcpTodo => tcpBacklog # <<>>
  /\ "stdin" \in tcpTodo => tcpSaid < TcpMaxSaid
  /\ program \in Tcp!Once => tcpEdge = {}

(* A connection that is neither open nor waited for has ended, all its lines *)
(* printed.                                                                  *)
TcpLines ==
  /\ \A c \in Clients : tcpPrinted[c] + tcpInbound[c] = tcpSent[c] /\ tcpSent[c] <= TcpMaxSent
  /\ \A c \in Clients : tcpOutbound[c] <= tcpSaid
  /\ \A c \in Clients : tcpLink[c] # "up" => tcpClient[c] = "gone"
  /\ tcpServer \notin {"ended", "killed"} =>
       \A c \in Clients : tcpClient[c] # "new" /\ c \notin tcpOpen \cup Knocked =>
         tcpClient[c] = "gone" /\ tcpInbound[c] = 0

(* A client knocks once, is accepted once, and overlaps another once. *)
TcpPlaces ==
  /\ \A i, j \in 1..Len(tcpBacklog) : tcpBacklog[i] = tcpBacklog[j] => i = j
  /\ Knocked \cap (tcpOpen \cup tcpOverlapped) = {}
  /\ \A c \in Clients : tcpClient[c] = "new" => c \notin tcpOpen \cup Knocked \cup tcpOverlapped
  /\ Cardinality(tcpOpen \ {tcpConfd}) <= Cardinality(tcpOverlapped)

TcpInv == TcpTypes /\ TcpRound /\ TcpLines /\ TcpPlaces

LEMMA TcpHas ==
  ASSUME TcpInv
  PROVE  Tcp!TypeOK /\ Tcp!LinesKept /\ Tcp!NoLeak
  <1>0. TcpMaxSent \in Nat /\ TcpMaxSaid \in Nat
    BY ProgramsAssumption
  <1>1. Tcp!TypeOK
    <2>1. /\ tcpSent \in [Clients -> 0..TcpMaxSent] /\ tcpInbound \in [Clients -> 0..TcpMaxSent]
          /\ tcpPrinted \in [Clients -> 0..TcpMaxSent]
      <3>1. ASSUME NEW c \in Clients
            PROVE  /\ tcpSent[c] \in 0..TcpMaxSent /\ tcpInbound[c] \in 0..TcpMaxSent
                   /\ tcpPrinted[c] \in 0..TcpMaxSent
        BY <1>0 DEF TcpInv, TcpTypes, TcpLines
      <3> QED BY <3>1 DEF TcpInv, TcpTypes
    <2>2. tcpOutbound \in [Clients -> 0..TcpMaxSaid]
      BY <1>0 DEF TcpInv, TcpTypes, TcpLines
    <2> QED BY <2>1, <2>2 DEF TcpInv, TcpTypes, Tcp!TypeOK
  <1>2. Tcp!LinesKept
    <2>1. ASSUME NEW c \in Clients, Tcp!Running, tcpClient[c] # "new", tcpInbound[c] > 0
          PROVE  c \in tcpOpen \cup Knocked
      BY <2>1 DEF TcpInv, TcpLines, TcpTypes, Tcp!Running
    <2> QED BY <2>1 DEF TcpInv, TcpLines, Tcp!LinesKept, Knocked
  <1>3. Tcp!NoLeak
    <2>1. /\ Tcp!Cardinality(tcpOpen \ {tcpConfd}) = Cardinality(tcpOpen \ {tcpConfd})
          /\ Tcp!Cardinality(tcpOverlapped) = Cardinality(tcpOverlapped)
      BY Zenon DEF Tcp!Cardinality, Cardinality
    <2> QED BY <2>1 DEF TcpInv, TcpPlaces, Tcp!NoLeak
  <1> QED BY <1>1, <1>2, <1>3

LEMMA TcpInit ==
  ASSUME Tcp!Init
  PROVE  TcpInv
  <1>0. TcpMaxSent \in Nat /\ TcpMaxSaid \in Nat
    BY ProgramsAssumption
  <1>1. /\ program \in AllPrograms /\ tcpTodo = {} /\ tcpConfd = "none" /\ tcpOpen = {} /\ tcpEdge = {}
        /\ tcpServer = (IF program \in Tcp!Once THEN "accept" ELSE "wait")
        /\ tcpBacklog = <<>> /\ tcpSaid = 0 /\ tcpOverlapped = {}
        /\ tcpClient = [c \in Clients |-> "new"] /\ tcpLink = [c \in Clients |-> "up"]
        /\ tcpSent = [c \in Clients |-> 0] /\ tcpInbound = [c \in Clients |-> 0]
        /\ tcpPrinted = [c \in Clients |-> 0] /\ tcpOutbound = [c \in Clients |-> 0]
    BY DEF Tcp!Init
  <1>2. Len(tcpBacklog) = 0 /\ Knocked = {}
    BY <1>1 DEF Knocked
  <1>3. TcpTypes
    BY <1>0, <1>1 DEF TcpTypes
  <1>4. TcpRound /\ TcpLines
    BY <1>0, <1>1 DEF TcpRound, TcpLines
  <1>5. TcpPlaces
    <2>1. tcpOpen \ {tcpConfd} = {} /\ Cardinality({}) = 0
      BY <1>1, FS_EmptySet
    <2>2. Cardinality(tcpOpen \ {tcpConfd}) <= Cardinality(tcpOverlapped)
      BY <1>1, <2>1
    <2> QED BY <1>1, <1>2, <2>2 DEF TcpPlaces
  <1> QED BY <1>3, <1>4, <1>5 DEF TcpInv

(* Who is first in the backlog leaves it. *)
LEMMA HeadLeaves ==
  ASSUME NEW S, NEW s \in Seq(S), s # <<>>,
         \A i, j \in 1..Len(s) : s[i] = s[j] => i = j
  PROVE  /\ Head(s) \in {s[k] : k \in 1..Len(s)} /\ Tail(s) \in Seq(S)
         /\ {Tail(s)[k] : k \in 1..Len(Tail(s))} = {s[k] : k \in 1..Len(s)} \ {Head(s)}
         /\ \A i, j \in 1..Len(Tail(s)) : Tail(s)[i] = Tail(s)[j] => i = j
  <1>1. PICK n : n = Len(s)
    OBVIOUS
  <1>2. /\ n \in Nat /\ n >= 1 /\ Head(s) = s[1] /\ Tail(s) \in Seq(S) /\ Len(Tail(s)) = n - 1
        /\ \A k \in 1..n - 1 : Tail(s)[k] = s[k + 1]
    <2>1. n \in Nat /\ n # 0
      BY <1>1, EmptySeq, LenProperties
    <2> QED BY <1>1, <2>1, HeadTailProperties
  <1>3. PICK t : t = Tail(s)
    OBVIOUS
  <1>4. \A k \in 1..n - 1 : t[k] = s[k + 1] /\ k + 1 \in 1..n /\ k + 1 # 1
    BY <1>2, <1>3
  <1>5. \A k \in 1..n : k # 1 => k - 1 \in 1..n - 1 /\ t[k - 1] = s[k]
    <2>1. ASSUME NEW k \in 1..n, k # 1
          PROVE  k - 1 \in 1..n - 1 /\ (k - 1) + 1 = k
      BY <1>2, <2>1
    <2> QED BY <1>4, <2>1
  <1>6. 1 \in 1..n
    BY <1>2
  <1>7. \A k \in 1..n - 1 : t[k] # s[1]
    BY <1>1, <1>4, <1>6
  <1>8. {t[k] : k \in 1..n - 1} = {s[k] : k \in 1..n} \ {s[1]}
    BY <1>4, <1>5, <1>6, <1>7
  <1>9. \A i, j \in 1..n - 1 : t[i] = t[j] => i = j
    <2>1. ASSUME NEW i \in 1..n - 1, NEW j \in 1..n - 1, t[i] = t[j]
          PROVE  i = j
      <3>1. i + 1 = j + 1
        BY <1>1, <1>4, <2>1
      <3> QED BY <3>1
    <2> QED BY <2>1
  <1>10. Len(t) = n - 1 /\ t \in Seq(S)
    BY <1>2, <1>3
  <1>11. {t[k] : k \in 1..Len(t)} = {s[k] : k \in 1..Len(s)} \ {Head(s)}
    BY <1>1, <1>2, <1>8, <1>10, Zenon
  <1>12. \A i, j \in 1..Len(t) : t[i] = t[j] => i = j
    BY <1>9, <1>10, Zenon
  <1>13. Head(s) \in {s[k] : k \in 1..Len(s)}
    BY <1>1, <1>2, <1>6
  <1>14. {Tail(s)[k] : k \in 1..Len(Tail(s))} = {s[k] : k \in 1..Len(s)} \ {Head(s)}
    BY <1>3, <1>11
  <1>15. \A i, j \in 1..Len(Tail(s)) : Tail(s)[i] = Tail(s)[j] => i = j
    BY <1>3, <1>12
  <1> QED BY <1>2, <1>13, <1>14, <1>15, Zenon

(* A server that accepts: one more is open, and overlaps if there was one. *)
LEMMA TcpAccepts ==
  ASSUME TcpInv, Tcp!Accept, tcpBacklog # <<>>,
         UNCHANGED <<program, tcpClient, tcpLink, tcpSent, tcpInbound, tcpPrinted, tcpSaid, tcpOutbound>>,
         tcpTodo' \subseteq tcpTodo, "sockfd" \notin tcpTodo', tcpEdge' \subseteq tcpEdge \cup {tcpConfd'},
         program \in Tcp!Once => tcpEdge' = tcpEdge,
         tcpServer' \in {"wait", "handle"}, tcpServer \notin {"ended", "killed"}
  PROVE  TcpInv'
  <1>1. PICK c : c = Head(tcpBacklog)
    OBVIOUS
  <1>2. /\ c \in Knocked /\ tcpBacklog' \in Seq(Clients) /\ Knocked' = Knocked \ {c}
        /\ \A i, j \in 1..Len(tcpBacklog') : tcpBacklog'[i] = tcpBacklog'[j] => i = j
    <2>1. tcpBacklog \in Seq(Clients)
      BY DEF TcpInv, TcpTypes
    <2>2. /\ Head(tcpBacklog) \in Knocked /\ Tail(tcpBacklog) \in Seq(Clients)
          /\ {Tail(tcpBacklog)[k] : k \in 1..Len(Tail(tcpBacklog))} = Knocked \ {Head(tcpBacklog)}
          /\ \A i, j \in 1..Len(Tail(tcpBacklog)) : Tail(tcpBacklog)[i] = Tail(tcpBacklog)[j] => i = j
      BY <2>1, HeadLeaves DEF TcpInv, TcpPlaces, Knocked
    <2>3. tcpBacklog' = Tail(tcpBacklog)
      BY DEF Tcp!Accept
    <2>4. Knocked' = Knocked \ {Head(tcpBacklog)}
      BY <2>2, <2>3, Zenon DEF Knocked
    <2> QED BY <1>1, <2>2, <2>3, <2>4, Zenon
  <1>3. /\ tcpConfd' = c /\ tcpOpen' = tcpOpen \cup {c}
        /\ tcpOverlapped' = IF tcpConfd = "none" THEN tcpOverlapped ELSE tcpOverlapped \cup {c}
    BY <1>1 DEF Tcp!Accept
  <1>4. c \in Clients /\ c # "none" /\ c \notin tcpOpen /\ c \notin tcpOverlapped /\ tcpClient[c] # "new"
    <2>1. Knocked \subseteq Clients
      <3>1. tcpBacklog \in Seq(Clients)
        BY DEF TcpInv, TcpTypes
      <3>2. \A k \in 1..Len(tcpBacklog) : tcpBacklog[k] \in Clients
        BY <3>1, ElementOfSeq, Zenon
      <3> QED BY <3>2 DEF Knocked
    <2> QED BY <1>2, <2>1, ProgramsAssumption DEF TcpInv, TcpPlaces
  <1>5. TcpTypes'
    BY <1>2, <1>3, <1>4 DEF TcpInv, TcpTypes
  <1>6. TcpRound'
    BY DEF TcpInv, TcpRound
  <1>7. TcpLines'
    <2>1. tcpOpen' \cup Knocked' = tcpOpen \cup Knocked
      BY <1>2, <1>3
    <2> QED BY <2>1 DEF TcpInv, TcpLines
  <1>8. Cardinality((tcpOpen \ {tcpConfd})') <= Cardinality(tcpOverlapped')
    <2>1. IsFiniteSet(tcpOpen) /\ IsFiniteSet(tcpOverlapped)
      BY FS_Subset, ProgramsAssumption DEF TcpInv, TcpTypes
    <2>2. IsFiniteSet(tcpOpen \ {tcpConfd})
      BY <2>1, FS_Subset
    <2>3. Cardinality(tcpOpen \ {tcpConfd}) \in Nat /\ Cardinality(tcpOverlapped) \in Nat
      BY <2>1, <2>2, FS_CardinalityType
    <2>4. Cardinality(tcpOpen \ {tcpConfd}) <= Cardinality(tcpOverlapped)
      BY DEF TcpInv, TcpPlaces
    <2>5. (tcpOpen \ {tcpConfd})' = tcpOpen
      BY <1>3, <1>4
    <2>6. CASE tcpConfd = "none"
      <3>1. tcpOpen \ {tcpConfd} = tcpOpen
        BY <2>6, ProgramsAssumption DEF TcpInv, TcpTypes
      <3> QED BY <1>3, <2>4, <2>5, <2>6, <3>1
    <2>7. CASE tcpConfd # "none"
      <3>1. tcpOverlapped' = tcpOverlapped \cup {c}
        BY <1>3, <2>7
      <3>2. Cardinality(tcpOverlapped \cup {c}) = Cardinality(tcpOverlapped) + 1
        BY <1>4, <2>1, FS_AddElement
      <3>3. tcpConfd \in tcpOpen
        BY <2>7 DEF TcpInv, TcpTypes
      <3>4. Cardinality(tcpOpen \ {tcpConfd}) = Cardinality(tcpOpen) - 1
        BY <2>1, <3>3, FS_RemoveElement
      <3>5. Cardinality(tcpOpen) \in Nat
        BY <2>1, FS_CardinalityType
      <3>6. Cardinality(tcpOpen) <= Cardinality(tcpOverlapped) + 1
        BY <2>3, <2>4, <3>4, <3>5
      <3> QED BY <2>5, <3>1, <3>2, <3>6
    <2> QED BY <2>6, <2>7
  <1>9. TcpPlaces'
    <2>1. Knocked' \cap (tcpOpen' \cup tcpOverlapped') = {}
      BY <1>2, <1>3 DEF TcpInv, TcpPlaces
    <2>2. \A d \in Clients : tcpClient'[d] = "new" => d \notin tcpOpen' \cup Knocked' \cup tcpOverlapped'
      BY <1>2, <1>3, <1>4 DEF TcpInv, TcpPlaces
    <2> QED BY <1>2, <1>8, <2>1, <2>2 DEF TcpPlaces
  <1> QED BY <1>5, <1>6, <1>7, <1>9 DEF TcpInv

LEMMA PlacesStay ==
  ASSUME TcpPlaces, UNCHANGED <<tcpBacklog, tcpOpen, tcpConfd, tcpOverlapped>>,
         \A c \in Clients : tcpClient'[c] = "new" => tcpClient[c] = "new"
  PROVE  TcpPlaces'
  BY DEF TcpPlaces, Knocked

(* Lines are read off a connection and printed. *)
LEMMA TcpShows ==
  ASSUME TcpTypes, TcpLines, NEW c \in Clients, tcpInbound[c] > 0, Tcp!Show(c),
         UNCHANGED <<tcpServer, tcpOpen, tcpBacklog, tcpClient, tcpLink, tcpSent, tcpSaid, tcpOutbound>>
  PROVE  /\ tcpInbound' \in [Clients -> Nat] /\ tcpPrinted' \in [Clients -> Nat]
         /\ TcpLines'
  <1>1. PICK n : n = Tcp!Taken(c)
    OBVIOUS
  <1>2. n \in Nat /\ n <= tcpInbound[c]
    <2>1. TcpBufLines \in Nat /\ tcpInbound[c] \in Nat
      BY ProgramsAssumption DEF TcpTypes
    <2> QED BY <1>1, <2>1 DEF Tcp!Taken
  <1>t. tcpInbound \in [Clients -> Nat] /\ tcpPrinted \in [Clients -> Nat]
    BY DEF TcpTypes
  <1>3. /\ tcpInbound' = [tcpInbound EXCEPT ![c] = tcpInbound[c] - n]
        /\ tcpPrinted' = [tcpPrinted EXCEPT ![c] = tcpPrinted[c] + n]
    BY <1>1 DEF Tcp!Show
  <1>4. tcpInbound' \in [Clients -> Nat] /\ tcpPrinted' \in [Clients -> Nat]
    BY <1>2, <1>3, <1>t
  <1>5. \A d \in Clients : /\ tcpPrinted'[d] + tcpInbound'[d] = tcpPrinted[d] + tcpInbound[d]
                           /\ tcpInbound[d] = 0 => tcpInbound'[d] = 0
    <2>1. /\ tcpInbound'[c] = tcpInbound[c] - n /\ tcpPrinted'[c] = tcpPrinted[c] + n
          /\ \A d \in Clients : d # c => tcpInbound'[d] = tcpInbound[d] /\ tcpPrinted'[d] = tcpPrinted[d]
      BY <1>3, <1>t
    <2>2. tcpPrinted'[c] + tcpInbound'[c] = tcpPrinted[c] + tcpInbound[c]
      BY <1>2, <1>t, <2>1
    <2>3. tcpInbound[c] = 0 => tcpInbound'[c] = 0
      BY <1>2, <2>1
    <2> QED BY <2>1, <2>2, <2>3
  <1>6. Knocked' = Knocked
    BY DEF Knocked
  <1> QED BY <1>4, <1>5, <1>6 DEF TcpLines

(* A client of which recv failed, or to which a line was sent in vain. *)
LEMMA TcpBreaks ==
  ASSUME TcpTypes, TcpLines, NEW c \in Clients, tcpLink[c] # "up",
         tcpLink' = [tcpLink EXCEPT ![c] = "broken"],
         UNCHANGED <<tcpServer, tcpOpen, tcpBacklog, tcpClient, tcpSent, tcpInbound, tcpPrinted, tcpOutbound>>,
         tcpSaid' \in {tcpSaid, tcpSaid + 1}
  PROVE  tcpLink' \in [Clients -> {"up", "fin", "rst", "broken"}] /\ TcpLines'
  <1>1. tcpLink' \in [Clients -> {"up", "fin", "rst", "broken"}]
    BY DEF TcpTypes
  <1>2. \A d \in Clients : tcpLink'[d] # "up" => tcpLink[d] # "up"
    BY DEF TcpTypes
  <1>3. Knocked' = Knocked
    BY DEF Knocked
  <1>4. tcpSaid' \in Nat /\ tcpSaid \in Nat /\ tcpSaid <= tcpSaid'
    <2>1. TcpMaxSaid \in Nat /\ tcpSaid \in 0..TcpMaxSaid
      BY ProgramsAssumption DEF TcpTypes
    <2> QED BY <2>1
  <1>5. \A d \in Clients : tcpOutbound'[d] <= tcpSaid'
    BY <1>4 DEF TcpLines, TcpTypes
  <1> QED BY <1>1, <1>2, <1>3, <1>5 DEF TcpLines

LEMMA TcpNext ==
  ASSUME TcpInv, [Tcp!Next]_<<program, tcpVars>>
  PROVE  TcpInv'
  <1>0. /\ TcpMaxSent \in Nat /\ TcpMaxSaid \in Nat /\ IsFiniteSet(Clients)
        /\ "none" \notin Clients /\ "stdin" \notin Clients /\ "sockfd" \notin Clients
    BY ProgramsAssumption
  <1>i. TcpTypes /\ TcpRound /\ TcpLines /\ TcpPlaces
    BY DEF TcpInv
  <1>1. CASE UNCHANGED <<program, tcpVars>>
    <2>1. TcpTypes' /\ TcpRound'
      BY <1>1, <1>i DEF tcpVars, TcpTypes, TcpRound
    <2>2. TcpLines'
      BY <1>1, <1>i DEF tcpVars, TcpLines, Knocked
    <2>3. TcpPlaces'
      BY <1>1, <1>i, PlacesStay DEF tcpVars
    <2> QED BY <2>1, <2>2, <2>3 DEF TcpInv
  <1>2. CASE Tcp!Wait
    <2>1. PICK some : tcpTodo' = some /\ tcpEdge' = tcpEdge \ some /\ some \subseteq Tcp!Ready
      BY <1>2 DEF Tcp!Wait, Tcp!Reports
    <2>2. /\ tcpServer = "wait" /\ tcpServer' = "handle"
          /\ UNCHANGED <<program, tcpConfd, tcpOpen, tcpBacklog, tcpClient, tcpLink, tcpSent, tcpInbound,
                         tcpPrinted, tcpSaid, tcpOutbound, tcpOverlapped>>
      BY <1>2 DEF Tcp!Wait, Tcp!linkVars, Tcp!dataVars
    <2>3. /\ some \subseteq Clients \cup {"stdin", "sockfd"}
          /\ "sockfd" \in some => tcpBacklog # <<>>
          /\ "stdin" \in some => tcpSaid < TcpMaxSaid
      BY <1>0, <1>i, <2>1 DEF Tcp!Ready, Tcp!Knocks, TcpTypes
    <2>4. TcpTypes' /\ TcpRound'
      BY <1>i, <2>1, <2>2, <2>3 DEF TcpTypes, TcpRound
    <2>5. TcpLines' /\ TcpPlaces'
      BY <1>i, <2>2, PlacesStay DEF TcpLines, Knocked
    <2> QED BY <2>4, <2>5 DEF TcpInv
  <1>3. CASE Tcp!RoundEnd
    <2>1. TcpTypes' /\ TcpRound' /\ TcpLines'
      BY <1>i, <1>3 DEF Tcp!RoundEnd, Tcp!linkVars, Tcp!dataVars, TcpTypes, TcpRound, TcpLines, Knocked
    <2>2. TcpPlaces'
      BY <1>i, <1>3, PlacesStay DEF Tcp!RoundEnd, Tcp!linkVars
    <2> QED BY <2>1, <2>2 DEF TcpInv
  <1>4. CASE Tcp!accept
    <2>1. "sockfd" \notin tcpTodo
      BY <1>4, <1>i DEF Tcp!accept, TcpRound
    <2> QED BY <1>4, <2>1, TcpAccepts DEF Tcp!accept, Tcp!linkVars, Tcp!dataVars
  <1>5. CASE Tcp!acceptAgain
    <2>1. tcpBacklog # <<>> /\ tcpServer = "handle"
      BY <1>5, <1>i DEF Tcp!acceptAgain, Tcp!Handle, TcpRound
    <2> QED BY <1>5, <2>1, TcpAccepts DEF Tcp!acceptAgain, Tcp!linkVars, Tcp!dataVars
  <1>6. CASE Tcp!acceptEdge
    <2>1. tcpBacklog # <<>> /\ tcpServer = "handle" /\ program \notin Tcp!Once
      BY <1>6, <1>i DEF Tcp!acceptEdge, Tcp!Handle, TcpRound, Tcp!Edge, Tcp!Once
    <2>2. tcpEdge' \subseteq tcpEdge \cup {tcpConfd'}
      BY <1>6 DEF Tcp!acceptEdge
    <2> QED BY <1>6, <2>1, <2>2, TcpAccepts DEF Tcp!acceptEdge, Tcp!linkVars, Tcp!dataVars
  <1>7. CASE Tcp!stdin
    <2>1. /\ tcpServer = "handle" /\ "stdin" \in tcpTodo /\ tcpTodo' = tcpTodo \ {"stdin"}
          /\ tcpSaid' = tcpSaid + 1 /\ Tcp!send
          /\ UNCHANGED <<program, tcpConfd, tcpOpen, tcpBacklog, tcpClient, tcpSent, tcpInbound, tcpPrinted,
                         tcpOverlapped>>
      BY <1>7 DEF Tcp!stdin, Tcp!Handle
    <2>2. tcpSaid \in Nat /\ tcpSaid' \in 0..TcpMaxSaid
      BY <1>0, <1>i, <2>1 DEF TcpTypes, TcpRound
    <2>3. TcpPlaces'
      BY <1>i, <2>1, PlacesStay
    <2>4. tcpConfd # "none" => tcpConfd \in tcpOpen /\ tcpConfd \in Clients
      BY <1>i DEF TcpTypes
    <2>5. CASE UNCHANGED <<tcpLink, tcpEdge, tcpOutbound>> /\ tcpServer' \in {tcpServer, "killed"}
      <3>1. \A d \in Clients : tcpOutbound'[d] <= tcpSaid'
        BY <1>i, <2>1, <2>2, <2>5 DEF TcpLines, TcpTypes
      <3>2. TcpTypes' /\ TcpRound'
        BY <1>i, <2>1, <2>2, <2>5 DEF TcpTypes, TcpRound
      <3>3. TcpLines'
        BY <1>i, <2>1, <2>5, <3>1 DEF TcpLines, Knocked
      <3> QED BY <2>3, <3>2, <3>3 DEF TcpInv
    <2>6. CASE /\ tcpConfd # "none" /\ tcpOutbound' = [tcpOutbound EXCEPT ![tcpConfd] = @ + 1]
               /\ UNCHANGED <<tcpServer, tcpLink, tcpEdge>>
      <3>1. tcpOutbound' \in [Clients -> Nat] /\ \A d \in Clients : tcpOutbound'[d] <= tcpSaid'
        <4>1. tcpOutbound \in [Clients -> Nat] /\ \A d \in Clients : tcpOutbound[d] <= tcpSaid
          BY <1>i DEF TcpLines, TcpTypes
        <4>2. PICK c \in Clients : c = tcpConfd
          BY <2>4, <2>6
        <4>3. /\ tcpOutbound' \in [Clients -> Nat] /\ tcpOutbound'[c] = tcpOutbound[c] + 1
              /\ \A d \in Clients : d # c => tcpOutbound'[d] = tcpOutbound[d]
          BY <2>6, <4>1, <4>2
        <4> QED BY <2>1, <2>2, <4>1, <4>3
      <3>2. TcpTypes' /\ TcpRound'
        BY <1>i, <2>1, <2>2, <2>6, <3>1 DEF TcpTypes, TcpRound
      <3>3. TcpLines'
        BY <1>i, <2>1, <2>6, <3>1 DEF TcpLines, Knocked
      <3> QED BY <2>3, <3>2, <3>3 DEF TcpInv
    <2>7. CASE /\ tcpConfd # "none" /\ tcpLink[tcpConfd] \in {"fin", "rst"}
               /\ tcpLink' = [tcpLink EXCEPT ![tcpConfd] = "broken"]
               /\ Tcp!News(tcpConfd) /\ UNCHANGED <<tcpServer, tcpOutbound>>
      <3>1. tcpLink' \in [Clients -> {"up", "fin", "rst", "broken"}] /\ TcpLines'
        BY <1>i, <2>1, <2>4, <2>7, TcpBreaks
      <3>2. tcpEdge' \subseteq tcpOpen /\ (program \in Tcp!Once => tcpEdge' = {})
        BY <1>i, <2>4, <2>7 DEF Tcp!News, TcpTypes, TcpRound, Tcp!Once, Tcp!Edge
      <3>3. TcpTypes' /\ TcpRound'
        BY <1>i, <2>1, <2>2, <2>7, <3>1, <3>2 DEF TcpTypes, TcpRound
      <3> QED BY <2>3, <3>1, <3>3 DEF TcpInv
    <2> QED BY <2>1, <2>5, <2>6, <2>7 DEF Tcp!send
  <1>8. ASSUME NEW c \in Clients, Tcp!ignore(c)
        PROVE  TcpInv'
    <2>1. TcpTypes' /\ TcpRound' /\ TcpLines'
      BY <1>i, <1>8 DEF Tcp!ignore, Tcp!linkVars, Tcp!dataVars, TcpTypes, TcpRound, TcpLines, Knocked
    <2>2. TcpPlaces'
      BY <1>i, <1>8, PlacesStay DEF Tcp!ignore, Tcp!linkVars
    <2> QED BY <2>1, <2>2 DEF TcpInv
  \* A report of a client is handled, and the connection stays.
  <1>9. ASSUME NEW c \in Clients, tcpTodo' \subseteq tcpTodo, tcpServer = "handle",
               UNCHANGED <<program, tcpServer, tcpConfd, tcpOpen, tcpEdge, tcpBacklog, tcpClient, tcpSent,
                           tcpSaid, tcpOutbound, tcpOverlapped>>,
               \/ tcpInbound[c] > 0 /\ Tcp!Show(c) /\ UNCHANGED tcpLink
               \/ Tcp!ReadError(c) /\ UNCHANGED <<tcpInbound, tcpPrinted>>
               \/ UNCHANGED <<tcpLink, tcpInbound, tcpPrinted>>
        PROVE  TcpInv'
    <2>1. TcpRound'
      BY <1>i, <1>9 DEF TcpRound
    <2>2. TcpPlaces'
      BY <1>i, <1>9, PlacesStay
    <2>3. CASE tcpInbound[c] > 0 /\ Tcp!Show(c) /\ UNCHANGED tcpLink
      <3>1. /\ tcpInbound' \in [Clients -> Nat] /\ tcpPrinted' \in [Clients -> Nat]
            /\ TcpLines'
        BY <1>i, <1>9, <2>3, TcpShows
      <3>2. TcpTypes'
        BY <1>i, <1>9, <2>3, <3>1 DEF TcpTypes
      <3> QED BY <2>1, <2>2, <3>1, <3>2 DEF TcpInv
    <2>4. CASE Tcp!ReadError(c) /\ UNCHANGED <<tcpInbound, tcpPrinted>>
      <3>1. tcpLink' \in [Clients -> {"up", "fin", "rst", "broken"}] /\ TcpLines'
        BY <1>i, <1>9, <2>4, TcpBreaks DEF Tcp!ReadError
      <3>2. TcpTypes'
        BY <1>i, <1>9, <2>4, <3>1 DEF TcpTypes
      <3> QED BY <2>1, <2>2, <3>1, <3>2 DEF TcpInv
    <2>5. CASE UNCHANGED <<tcpLink, tcpInbound, tcpPrinted>>
      <3>1. TcpTypes' /\ TcpLines'
        BY <1>i, <1>9, <2>5 DEF TcpTypes, TcpLines, Knocked
      <3> QED BY <2>1, <2>2, <3>1 DEF TcpInv
    <2> QED BY <1>9, <2>3, <2>4, <2>5
  <1>10. ASSUME NEW c \in Clients, Tcp!recvOnce(c)
         PROVE  TcpInv'
    <2>1. /\ program \in Tcp!Once /\ tcpServer = "handle"
          /\ UNCHANGED <<program, tcpEdge, tcpBacklog, tcpClient, tcpSent, tcpSaid, tcpOutbound, tcpOverlapped>>
      BY <1>10 DEF Tcp!recvOnce, Tcp!Handle
    <2>2. CASE /\ \/ tcpInbound[c] > 0 /\ Tcp!Show(c) /\ UNCHANGED tcpLink
                  \/ Tcp!ReadError(c) /\ UNCHANGED <<tcpInbound, tcpPrinted>>
               /\ tcpTodo' = tcpTodo \ {c} /\ UNCHANGED <<tcpServer, tcpConfd, tcpOpen>>
      BY <1>9, <2>1, <2>2
    <2>3. CASE /\ tcpServer' = "ended" /\ tcpOpen' = {} /\ tcpConfd' = "none" /\ tcpTodo' = {}
               /\ UNCHANGED <<tcpLink, tcpInbound, tcpPrinted>>
      <3>1. TcpTypes' /\ TcpRound' /\ TcpLines'
        BY <1>i, <2>1, <2>3 DEF TcpTypes, TcpRound, TcpLines
      <3>2. Cardinality((tcpOpen \ {tcpConfd})') <= Cardinality(tcpOverlapped')
        <4>1. IsFiniteSet(tcpOverlapped)
          BY <1>0, <1>i, FS_Subset DEF TcpTypes
        <4>2. Cardinality(tcpOverlapped) \in Nat
          BY <4>1, FS_CardinalityType
        <4>3. (tcpOpen \ {tcpConfd})' = {} /\ Cardinality({}) = 0
          BY <2>3, FS_EmptySet
        <4>4. Cardinality((tcpOpen \ {tcpConfd})') = 0
          BY <4>3
        <4> QED BY <2>1, <4>2, <4>4
      <3>3. TcpPlaces'
        BY <1>i, <2>1, <2>3, <3>2 DEF TcpPlaces, Knocked
      <3> QED BY <3>1, <3>3 DEF TcpInv
    <2> QED BY <1>10, <2>2, <2>3 DEF Tcp!recvOnce
  <1>11. ASSUME NEW c \in Clients, Tcp!recv(c)
         PROVE  TcpInv'
    <2>1. /\ c = tcpConfd /\ tcpServer = "handle" /\ program \notin Tcp!Once
          /\ UNCHANGED <<program, tcpServer, tcpBacklog, tcpClient, tcpSent, tcpSaid, tcpOutbound, tcpOverlapped>>
      BY <1>11 DEF Tcp!recv, Tcp!Handle
    <2>2. CASE /\ \/ tcpInbound[c] > 0 /\ Tcp!Show(c) /\ UNCHANGED tcpLink
                  \/ Tcp!ReadError(c) /\ UNCHANGED <<tcpInbound, tcpPrinted>>
                  \/ UNCHANGED <<tcpLink, tcpInbound, tcpPrinted>>
               /\ tcpTodo' \subseteq tcpTodo /\ UNCHANGED <<tcpConfd, tcpOpen, tcpEdge>>
      BY <1>9, <2>1, <2>2
    <2>3. CASE /\ Tcp!AtEnd(c) /\ Tcp!HangUp(c) /\ tcpTodo' = tcpTodo \ {c}
               /\ UNCHANGED <<tcpLink, tcpInbound, tcpPrinted>>
      <3>1. tcpConfd' = "none" /\ tcpOpen' = tcpOpen \ {c} /\ tcpEdge' = tcpEdge \ {c}
        BY <2>3 DEF Tcp!HangUp
      <3>2. tcpInbound[c] = 0 /\ tcpClient[c] = "gone"
        BY <1>i, <2>3 DEF Tcp!AtEnd, TcpLines
      <3>3. TcpTypes' /\ TcpRound'
        BY <1>i, <2>1, <2>3, <3>1 DEF TcpTypes, TcpRound
      <3>4. TcpLines'
        <4>1. Knocked' = Knocked /\ \A d \in Clients : d \notin tcpOpen' => d = c \/ d \notin tcpOpen
          BY <2>1, <3>1 DEF Knocked
        <4> QED BY <1>i, <2>1, <2>3, <3>2, <4>1 DEF TcpLines
      <3>5. (tcpOpen \ {tcpConfd})' = tcpOpen \ {tcpConfd}
        BY <1>0, <1>i, <2>1, <3>1 DEF TcpTypes
      <3>6. TcpPlaces'
        <4>1. Knocked' = Knocked /\ tcpOpen' \subseteq tcpOpen
          BY <2>1, <3>1 DEF Knocked
        <4>2. Cardinality((tcpOpen \ {tcpConfd})') <= Cardinality(tcpOverlapped')
          BY <1>i, <2>1, <3>5 DEF TcpPlaces
        <4>3. Knocked' \cap (tcpOpen' \cup tcpOverlapped') = {}
          BY <1>i, <2>1, <4>1 DEF TcpPlaces
        <4>4. \A d \in Clients : tcpClient'[d] = "new" => d \notin tcpOpen' \cup Knocked' \cup tcpOverlapped'
          BY <1>i, <2>1, <4>1 DEF TcpPlaces
        <4> QED BY <1>i, <2>1, <4>2, <4>3, <4>4 DEF TcpPlaces
      <3> QED BY <3>3, <3>4, <3>6 DEF TcpInv
    <2>4. Tcp!Left(c) \subseteq tcpTodo /\ tcpTodo \ {c} \subseteq tcpTodo
      BY DEF Tcp!Left
    <2> QED BY <1>11, <2>2, <2>3, <2>4 DEF Tcp!recv
  <1>12. ASSUME NEW c \in Clients, Tcp!Connect(c)
         PROVE  TcpInv'
    <2>1. /\ tcpClient[c] = "new" /\ tcpClient' = [tcpClient EXCEPT ![c] = "on"]
          /\ tcpServer \notin {"ended", "killed"}
          /\ UNCHANGED <<program, tcpServer, tcpTodo, tcpConfd, tcpOpen, tcpEdge, tcpLink, tcpSent, tcpInbound,
                         tcpPrinted, tcpSaid, tcpOutbound, tcpOverlapped>>
      BY <1>12 DEF Tcp!Connect, Tcp!Running, Tcp!dataVars
    <2>2. PICK n : n = Len(tcpBacklog)
      OBVIOUS
    <2>3. /\ n \in Nat /\ tcpBacklog' \in Seq(Clients) /\ Len(tcpBacklog') = n + 1
          /\ tcpBacklog'[n + 1] = c /\ \A k \in 1..n : tcpBacklog'[k] = tcpBacklog[k]
      <3>1. tcpBacklog \in Seq(Clients) /\ n \in Nat
        BY <1>i, <2>2, LenProperties DEF TcpTypes
      <3>2. /\ Append(tcpBacklog, c) \in Seq(Clients) /\ Len(Append(tcpBacklog, c)) = n + 1
            /\ Append(tcpBacklog, c)[n + 1] = c
            /\ \A k \in 1..n : Append(tcpBacklog, c)[k] = tcpBacklog[k]
        BY <2>2, <3>1, AppendProperties
      <3>3. tcpBacklog' = Append(tcpBacklog, c)
        BY <1>12 DEF Tcp!Connect
      <3> QED BY <3>1, <3>2, <3>3
    <2>4. 1..n + 1 = (1..n) \cup {n + 1} /\ n + 1 \notin 1..n
      BY <2>3
    <2>5. Knocked = {tcpBacklog[k] : k \in 1..n} /\ Knocked' = {tcpBacklog'[k] : k \in 1..n + 1}
      BY <2>2, <2>3 DEF Knocked
    <2>6. Knocked' = Knocked \cup {c}
      BY <2>3, <2>4, <2>5
    <2>7. tcpClient' \in [Clients -> {"new", "on", "gone"}] /\ tcpBacklog' # <<>>
      BY <1>i, <2>1, <2>3, EmptySeq DEF TcpTypes
    <2>8. TcpTypes' /\ TcpRound'
      BY <1>i, <2>1, <2>3, <2>7 DEF TcpTypes, TcpRound
    <2>9. \A d \in Clients : d # c => tcpClient'[d] = tcpClient[d]
      BY <1>i, <2>1 DEF TcpTypes
    <2>10. tcpClient'[c] = "on" /\ tcpLink[c] = "up"
      BY <1>i, <2>1 DEF TcpTypes, TcpLines
    <2>11. TcpLines'
      BY <1>i, <2>1, <2>6, <2>9, <2>10 DEF TcpLines
    <2>12. c \notin tcpOpen /\ c \notin Knocked /\ c \notin tcpOverlapped
      BY <1>i, <2>1 DEF TcpPlaces
    <2>13. \A i, j \in 1..n + 1 : tcpBacklog'[i] = tcpBacklog'[j] => i = j
      <3>1. \A k \in 1..n : tcpBacklog'[k] # c
        BY <2>3, <2>5, <2>12
      <3>2. \A i, j \in 1..n : tcpBacklog'[i] = tcpBacklog'[j] => i = j
        BY <1>i, <2>2, <2>3 DEF TcpPlaces
      <3> QED BY <2>3, <2>4, <3>1, <3>2
    <2>14. TcpPlaces'
      <3>1. Knocked' \cap (tcpOpen' \cup tcpOverlapped') = {}
        BY <1>i, <2>1, <2>6, <2>12 DEF TcpPlaces
      <3>2. \A d \in Clients : tcpClient'[d] = "new" => d \notin tcpOpen' \cup Knocked' \cup tcpOverlapped'
        BY <1>i, <2>1, <2>6, <2>9, <2>10 DEF TcpPlaces
      <3>3. Cardinality((tcpOpen \ {tcpConfd})') <= Cardinality(tcpOverlapped')
        BY <1>i, <2>1 DEF TcpPlaces
      <3> QED BY <2>3, <2>13, <3>1, <3>2, <3>3 DEF TcpPlaces
    <2> QED BY <2>8, <2>11, <2>14 DEF TcpInv
  <1>13. ASSUME NEW c \in Clients, Tcp!ClientSend(c)
         PROVE  TcpInv'
    <2>1. /\ tcpClient[c] = "on" /\ tcpSent' = [tcpSent EXCEPT ![c] = @ + 1]
          /\ tcpInbound' = [tcpInbound EXCEPT ![c] = @ + 1] /\ Tcp!News(c)
          /\ UNCHANGED <<program, tcpServer, tcpTodo, tcpConfd, tcpOpen, tcpBacklog, tcpClient, tcpLink,
                         tcpPrinted, tcpSaid, tcpOutbound, tcpOverlapped>>
      BY <1>13 DEF Tcp!ClientSend, Tcp!linkVars
    <2>2. tcpSent[c] \in Nat /\ tcpSent[c] <= TcpMaxSent
      BY <1>i DEF TcpTypes, TcpLines
    <2>3. tcpSent[c] < TcpMaxSent
      <3> DEFINE Own == {c} \X (1..tcpSent[c])
                 All == Clients \X (1..TcpMaxSent)
      <3>1. Own \subseteq Tcp!Typed /\ Tcp!Typed \subseteq All
        BY <1>0, <2>2 DEF Tcp!Typed
      <3>2. IsFiniteSet(All)
        <4>1. IsFiniteSet(1..TcpMaxSent)
          BY <1>0, FS_Interval
        <4> QED BY <1>0, <4>1, FS_Product
      <3>3. IsFiniteSet({c}) /\ Cardinality({c}) = 1
        BY FS_Singleton, Zenon
      <3>4. IsFiniteSet(1..tcpSent[c]) /\ Cardinality(1..tcpSent[c]) = tcpSent[c]
        <4>1. 1 \in Int /\ tcpSent[c] \in Int
          BY <2>2
        <4>2. /\ IsFiniteSet(1..tcpSent[c])
              /\ Cardinality(1..tcpSent[c]) = IF 1 > tcpSent[c] THEN 0 ELSE tcpSent[c] - 1 + 1
          BY <4>1, FS_Interval, Zenon
        <4> QED BY <2>2, <4>2
      <3>5. Cardinality(Own) = Cardinality({c}) * Cardinality(1..tcpSent[c])
        BY <3>3, <3>4, FS_Product
      <3> HIDE DEF Own, All
      <3>6. IsFiniteSet(Tcp!Typed)
        BY <3>1, <3>2, FS_Subset
      <3>7. IsFiniteSet(Own) /\ Cardinality(Own) <= Cardinality(Tcp!Typed)
        BY <3>1, <3>6, FS_Subset
      <3>8. Cardinality(Tcp!Typed) < TcpMaxSent
        <4>1. Tcp!Cardinality(Tcp!Typed) = Cardinality(Tcp!Typed)
          BY Zenon DEF Tcp!Cardinality, Cardinality
        <4> QED BY <1>13, <4>1 DEF Tcp!ClientSend
      <3>9. Cardinality(Tcp!Typed) \in Nat
        BY <3>6, FS_CardinalityType
      <3>10. Cardinality(Own) = tcpSent[c]
        BY <2>2, <3>3, <3>4, <3>5
      <3> QED BY <1>0, <2>2, <3>7, <3>8, <3>9, <3>10
    <2>4. /\ tcpSent' \in [Clients -> Nat] /\ tcpInbound' \in [Clients -> Nat]
          /\ \A d \in Clients : /\ tcpPrinted[d] + tcpInbound'[d] = tcpSent'[d] /\ tcpSent'[d] <= TcpMaxSent
                                /\ d # c => tcpInbound'[d] = tcpInbound[d]
      <3>0. tcpSent \in [Clients -> Nat] /\ tcpInbound \in [Clients -> Nat]
        BY <1>i DEF TcpTypes
      <3>1. tcpSent' \in [Clients -> Nat] /\ tcpInbound' \in [Clients -> Nat]
        BY <2>1, <3>0
      <3>2. /\ tcpSent'[c] = tcpSent[c] + 1 /\ tcpInbound'[c] = tcpInbound[c] + 1
            /\ \A d \in Clients : d # c => tcpSent'[d] = tcpSent[d] /\ tcpInbound'[d] = tcpInbound[d]
        BY <2>1, <3>0
      <3>3. /\ tcpSent \in [Clients -> Nat] /\ tcpInbound \in [Clients -> Nat]
            /\ tcpPrinted \in [Clients -> Nat]
            /\ \A d \in Clients : tcpPrinted[d] + tcpInbound[d] = tcpSent[d] /\ tcpSent[d] <= TcpMaxSent
        BY <1>i DEF TcpTypes, TcpLines
      <3>4. tcpPrinted[c] + tcpInbound'[c] = tcpSent'[c] /\ tcpSent'[c] <= TcpMaxSent
        BY <1>0, <2>3, <3>2, <3>3
      <3> QED BY <3>1, <3>2, <3>3, <3>4
    <2>5. tcpEdge' \subseteq tcpOpen /\ (program \in Tcp!Once => tcpEdge' = {})
      BY <1>i, <2>1 DEF Tcp!News, TcpTypes, TcpRound, Tcp!Once, Tcp!Edge
    <2>6. TcpTypes' /\ TcpRound'
      BY <1>i, <2>1, <2>4, <2>5 DEF TcpTypes, TcpRound
    <2>7. TcpLines'
      BY <1>i, <2>1, <2>4 DEF TcpLines, Knocked
    <2>8. TcpPlaces'
      BY <1>i, <2>1, PlacesStay
    <2> QED BY <2>6, <2>7, <2>8 DEF TcpInv
  <1>14. ASSUME NEW c \in Clients, Tcp!ClientRecv(c)
         PROVE  TcpInv'
    <2>1. /\ tcpOutbound' = [tcpOutbound EXCEPT ![c] = 0]
          /\ UNCHANGED <<program, tcpServer, tcpTodo, tcpConfd, tcpOpen, tcpEdge, tcpBacklog, tcpClient, tcpLink,
                         tcpSent, tcpInbound, tcpPrinted, tcpSaid, tcpOverlapped>>
      BY <1>14 DEF Tcp!ClientRecv, Tcp!linkVars
    <2>2. tcpOutbound' \in [Clients -> Nat] /\ \A d \in Clients : tcpOutbound'[d] <= tcpSaid
      BY <1>i, <2>1 DEF TcpTypes, TcpLines
    <2>3. TcpTypes' /\ TcpRound'
      BY <1>i, <2>1, <2>2 DEF TcpTypes, TcpRound
    <2>4. TcpLines' /\ TcpPlaces'
      BY <1>i, <2>1, <2>2, PlacesStay DEF TcpLines, Knocked
    <2> QED BY <2>3, <2>4 DEF TcpInv
  <1>15. ASSUME NEW c \in Clients, Tcp!ClientEnd(c) \/ Tcp!Leave(c)
         PROVE  TcpInv'
    <2>1. /\ tcpClient[c] = "on" /\ tcpClient' = [tcpClient EXCEPT ![c] = "gone"]
          /\ \/ UNCHANGED <<tcpLink, tcpEdge>>
             \/ /\ tcpLink' = [tcpLink EXCEPT ![c] = IF tcpOutbound[c] > 0 THEN "rst" ELSE "fin"]
                /\ Tcp!News(c)
          /\ UNCHANGED <<program, tcpServer, tcpTodo, tcpConfd, tcpOpen, tcpBacklog, tcpSent, tcpInbound,
                         tcpPrinted, tcpSaid, tcpOutbound, tcpOverlapped>>
      BY <1>15 DEF Tcp!ClientEnd, Tcp!Leave, Tcp!dataVars
    <2>2. tcpEdge' \subseteq tcpOpen /\ (program \in Tcp!Once => tcpEdge' = {})
      BY <1>i, <2>1 DEF Tcp!News, TcpTypes, TcpRound, Tcp!Once, Tcp!Edge
    <2>3. /\ tcpClient' \in [Clients -> {"new", "on", "gone"}]
          /\ tcpLink' \in [Clients -> {"up", "fin", "rst", "broken"}]
      BY <1>i, <2>1 DEF TcpTypes
    <2>4. TcpTypes' /\ TcpRound'
      BY <1>i, <2>1, <2>2, <2>3 DEF TcpTypes, TcpRound
    <2>5. /\ tcpClient'[c] = "gone"
          /\ \A d \in Clients : d # c => tcpClient'[d] = tcpClient[d] /\ tcpLink'[d] = tcpLink[d]
      BY <1>i, <2>1 DEF TcpTypes
    <2>6. TcpLines'
      BY <1>i, <2>1, <2>5 DEF TcpLines, Knocked
    <2>7. TcpPlaces'
      BY <1>i, <2>1, <2>5, PlacesStay
    <2> QED BY <2>4, <2>6, <2>7 DEF TcpInv
  <1> QED BY <1>1, <1>2, <1>3, <1>4, <1>5, <1>6, <1>7, <1>8, <1>10, <1>11, <1>12, <1>13, <1>14, <1>15
          DEF Tcp!Next, Tcp!Server

-----------------------------------------------------------------------------
(* All of them together.                                                     *)

LEMMA TicketsHas ==
  ASSUME TicketsInv
  PROVE  Tickets!TypeOK /\ Tickets!SetWhenSold
  <1>1. Full \in Nat /\ tkCnt \in Nat /\ tkSpared \in Nat /\ tkSpurious \in Nat
    BY ProgramsAssumption DEF TicketsInv, Tickets!TypeOK
  <1>2. PICK bound : bound = tkSpurious * Full
    OBVIOUS
  <1>3. bound \in Nat
    BY <1>1, <1>2
  <1>4. tkSpared + (IF tkPc["setter"] \in {"woken", "after"} THEN tkCnt ELSE 0) <= bound
    BY <1>2 DEF TicketsInv
  <1>5. tkSpared <= bound
    BY <1>1, <1>3, <1>4
  <1> QED BY <1>2, <1>5 DEF TicketsInv, Tickets!SetWhenSold

ProgramsInv ==
  /\ TcpInv /\ UdpInv /\ PipeInv /\ DownloadInv /\ TicketsInv /\ PairInv /\ ProduceInv
  /\ StudentsInv /\ SendInv /\ ThreadInv /\ FifoInv /\ SignalInv /\ MsqInv /\ SemInv

LEMMA ProgramsHave ==
  ASSUME ProgramsInv
  PROVE  TypeOK /\ Conserved /\ Result /\ OnlyThen
  <1>1. /\ TcpInv /\ UdpInv /\ PipeInv /\ DownloadInv /\ TicketsInv /\ PairInv /\ ProduceInv
        /\ StudentsInv /\ SendInv /\ ThreadInv /\ FifoInv /\ SignalInv /\ MsqInv /\ SemInv
    BY DEF ProgramsInv
  <1>2. /\ Tcp!TypeOK /\ Tcp!LinesKept /\ Tcp!NoLeak
        /\ Udp!TypeOK /\ Udp!Accounted /\ Udp!Answerable /\ Udp!SaidToOne
        /\ Pipe!TypeOK /\ Pipe!LastWords /\ Pipe!TurnsGoOn
        /\ Download!TypeOK /\ Download!NothingInvented /\ Download!WholeFile
    BY <1>1, TcpHas, UdpHas, PipeHas, DownloadHas, Zenon
  <1>3. /\ Tickets!TypeOK /\ Tickets!SetWhenSold
        /\ Pair!TypeOK /\ Pair!SumBounds /\ Pair!EachOnce
        /\ Produce!TypeOK /\ Produce!Stored /\ Produce!Undone /\ Produce!WorkStops
        /\ Students!TypeOK /\ Students!Placed /\ Students!Ranked
    BY <1>1, TicketsHas, PairHas, ProduceHas, StudentsHas, Zenon
  <1>4. /\ Send!TypeOK /\ Send!FileIsRead /\ Send!OwnInput
        /\ Thread!TypeOK /\ Thread!LeftUnlocked /\ Thread!UnlockedAgain
        /\ Fifo!TypeOK /\ Fifo!NeverWaits /\ Fifo!WordOrDeath
    BY <1>1, SendHas, ThreadHas, FifoHas, Zenon
  <1>5. /\ Signal!TypeOK /\ Signal!KeyCodeWhole
        /\ Msq!TypeOK /\ Msq!OnceOnly /\ Msq!InOrder
        /\ Sem!TypeOK /\ Sem!NoneLeft /\ Sem!PrintedRight
    BY <1>1, SignalHas, MsqHas, SemHas, Zenon
  <1> QED BY <1>2, <1>3, <1>4, <1>5, Zenon DEF TypeOK, Conserved, Result, OnlyThen

LEMMA ProgramsInit ==
  ASSUME Init
  PROVE  ProgramsInv
  <1>1. /\ Tcp!Init /\ Udp!Init /\ Pipe!Init /\ Download!Init /\ Tickets!Init /\ Pair!Init
        /\ Produce!Init /\ Students!Init /\ Send!Init /\ Thread!Init /\ Fifo!Init /\ Signal!Init
        /\ Msq!Init /\ Sem!Init
    BY DEF Init
  <1>2. TcpInv /\ UdpInv /\ PipeInv /\ DownloadInv /\ TicketsInv /\ PairInv /\ ProduceInv
    BY <1>1, TcpInit, UdpInit, PipeInit, DownloadInit, TicketsInit, PairInit, ProduceInit, Zenon
  <1>3. StudentsInv /\ SendInv /\ ThreadInv /\ FifoInv /\ SignalInv /\ MsqInv /\ SemInv
    BY <1>1, StudentsInit, SendInit, ThreadInit, FifoInit, SignalInit, MsqInit, SemInit, Zenon
  <1> QED BY <1>2, <1>3, Zenon DEF ProgramsInv

LEMMA ProgramsNext ==
  ASSUME ProgramsInv, [Next]_vars
  PROVE  ProgramsInv'
  <1>1. /\ TcpInv /\ UdpInv /\ PipeInv /\ DownloadInv /\ TicketsInv /\ PairInv /\ ProduceInv
        /\ StudentsInv /\ SendInv /\ ThreadInv /\ FifoInv /\ SignalInv /\ MsqInv /\ SemInv
    BY DEF ProgramsInv
  <1>2. TcpInv'
    BY <1>1, OneRuns, TcpNext, Zenon
  <1>3. UdpInv'
    BY <1>1, OneRuns, UdpNext, Zenon
  <1>4. PipeInv'
    BY <1>1, OneRuns, PipeNext, Zenon
  <1>5. DownloadInv'
    BY <1>1, OneRuns, DownloadNext, Zenon
  <1>6. TicketsInv'
    BY <1>1, OneRuns, TicketsNext, Zenon
  <1>7. PairInv'
    BY <1>1, OneRuns, PairNext, Zenon
  <1>8. ProduceInv'
    BY <1>1, OneRuns, ProduceNext, Zenon
  <1>9. StudentsInv'
    BY <1>1, OneRuns, StudentsNext, Zenon
  <1>10. SendInv'
    BY <1>1, OneRuns, SendNext, Zenon
  <1>11. ThreadInv'
    BY <1>1, OneRuns, ThreadNext, Zenon
  <1>12. FifoInv'
    BY <1>1, OneRuns, FifoNext, Zenon
  <1>13. SignalInv'
    BY <1>1, OneRuns, SignalNext, Zenon
  <1>14. MsqInv'
    BY <1>1, OneRuns, MsqNext, Zenon
  <1>15. SemInv'
    BY <1>1, OneRuns, SemNext, Zenon
  <1> QED BY <1>2, <1>3, <1>4, <1>5, <1>6, <1>7, <1>8, <1>9, <1>10, <1>11, <1>12, <1>13, <1>14,
             <1>15 DEF ProgramsInv

(* The inductive invariant of every small program, whichever of them runs. *)
THEOREM ProgramsInvariant == Spec => []ProgramsInv
  <1>1. Init => ProgramsInv
    BY ProgramsInit
  <1>2. ProgramsInv /\ [Next]_vars => ProgramsInv'
    BY ProgramsNext
  <1> QED BY <1>1, <1>2, PTL DEF Spec

(* Each small program's variables keep to their types and to what the type   *)
(* invariant relates: a mutex and who is in its section, a queue and its     *)
(* bytes, a connection and what is watched.                                  *)
THEOREM ProgramsTypes == Spec => []TypeOK
  <1>1. ProgramsInv => TypeOK
    BY ProgramsHave
  <1> QED BY <1>1, ProgramsInvariant, PTL

(* Nothing is lost and nothing made: for any number of clients, lines,       *)
(* units, semaphores, messages and runs.                                     *)
THEOREM ProgramsConserve == Spec => []Conserved
  <1>1. ProgramsInv => Conserved
    BY ProgramsHave
  <1> QED BY <1>1, ProgramsInvariant, PTL

(* What a program comes to, whatever the order of its steps: the last words  *)
(* of ipc/pipe/chat, the file downloaded, the sum of ipc/add.c, the list of  *)
(* filesys/read.c printed by rank, the order of ipc/msqrsv.c's messages.     *)
THEOREM ProgramsResult == Spec => []Result
  <1>1. ProgramsInv => Result
    BY ProgramsHave
  <1> QED BY <1>1, ProgramsInvariant, PTL

(* What is odd happens for its one reason only: a connection leaks when      *)
(* another client came, tickets are set too early after a spurious wakeup,   *)
(* a sum is wrong when two runs overlap.                                     *)
THEOREM OddOnlyThen == Spec => []OnlyThen
  <1>1. ProgramsInv => OnlyThen
    BY ProgramsHave
  <1> QED BY <1>1, ProgramsInvariant, PTL
===============================================================================
