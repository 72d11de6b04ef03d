------------------------------- MODULE Produce -------------------------------
(***************************************************************************)
(* The producer and the consumer of ipc/produce.c: two semaphores, product *)
(* and warehouse, moved together by one semop with SEM_UNDO.  The kernel   *)
(* keeps, for each process, the adjustment that undoes its operations; a   *)
(* semop that would take an adjustment past SEMAEM fails, which nobody     *)
(* looks at, and a process that ends has its adjustments applied, stopping *)
(* at 0.                                                                   *)
(***************************************************************************)
EXTENDS Integers

CONSTANTS Room,     \* what the warehouse holds, 10
          SEMAEM,   \* the largest adjustment; 32767 in Linux
          MaxIdle   \* bound: rounds in which a semop failed

producer == "producer"
comsumer == "comsumer"
Workers == {producer, comsumer}

VARIABLES
  product, warehouse,
  semadj,     \* each process's adjustment of product, and minus that of warehouse
  alive,
  done,       \* history: semops of each that succeeded
  idle        \* history: semops that failed

vars == <<product, warehouse, semadj, alive, done, idle>>

Init ==
  /\ product = 0 /\ warehouse = Room
  /\ semadj = [w \in Workers |-> 0]
  /\ alive = Workers
  /\ done = [w \in Workers |-> 0] /\ idle = 0

\* Mutant: the last product stays.
FitsButOne(n) == product + n >= 1 /\ warehouse - n >= 0

\* semop waits until neither semaphore would be less than 0.
Fits(n) == product + n >= 0 /\ warehouse - n >= 0

\* Both adjustments, of opposite signs, are within -SEMAEM - 1 and SEMAEM.
Adjustable(a) == a \in -SEMAEM..SEMAEM

\* Mutant: without SEM_UNDO.
AdjustedNot(w, n) == semadj[w]

Adjusted(w, n) == semadj[w] - n

semop(w, n) ==
  /\ w \in alive /\ Fits(n)
  /\ \/ /\ Adjustable(Adjusted(w, n))
        /\ product' = product + n /\ warehouse' = warehouse - n
        /\ semadj' = [semadj EXCEPT ![w] = Adjusted(w, n)]
        /\ done' = [done EXCEPT ![w] = @ + 1]
        /\ UNCHANGED idle
     \/ /\ ~Adjustable(Adjusted(w, n))
        /\ idle < MaxIdle /\ idle' = idle + 1
        /\ UNCHANGED <<product, warehouse, semadj, done>>
  /\ UNCHANGED alive

\* Mutant: two are produced.
produceTwo == semop(producer, 2)

produce == semop(producer, 1)
comsume == semop(comsumer, -1)

NotNegative(n) == IF n < 0 THEN 0 ELSE n

\* Mutant: an end undoes nothing.
UndoneNot(w) == 0

Adjustment(w) == semadj[w]

\* SIGINT ends a process, and the kernel undoes its operations.
end(w) ==
  /\ w \in alive /\ alive' = alive \ {w}
  /\ product' = NotNegative(product + Adjustment(w))
  /\ warehouse' = NotNegative(warehouse - Adjustment(w))
  /\ semadj' = [semadj EXCEPT ![w] = 0]
  /\ UNCHANGED <<done, idle>>

Next == produce \/ comsume \/ \E w \in Workers : end(w)
Spec == Init /\ [][Next]_vars
FairSpec == Spec /\ WF_vars(produce) /\ WF_vars(comsume)

-----------------------------------------------------------------------------
(* Type invariant.                                                         *)
TypeOK ==
  /\ product \in Nat /\ warehouse \in Nat
  /\ \A w \in Workers : Adjustable(semadj[w])
  /\ alive \in SUBSET Workers
  /\ done \in [Workers -> Nat] /\ idle \in 0..MaxIdle

(***************************************************************************)
(* Stored: while both work, what was produced and not consumed is in the   *)
(* warehouse, and no more than it holds.                                   *)
(***************************************************************************)
Stored ==
  alive = Workers =>
    /\ product = done[producer] - done[comsumer]
    /\ product + warehouse = Room

(***************************************************************************)
(* Undone: when both have ended, their undos, one after the other and each *)
(* stopping at 0, leave the warehouse no emptier than it was.              *)
(***************************************************************************)
Undone == alive = {} => warehouse >= Room

(***************************************************************************)
(* WorkStops: after SEMAEM rounds, some 32767, a process does nothing more *)
(* but print: its adjustment has reached the limit, and semop fails.       *)
(***************************************************************************)
WorkStops == \A w \in Workers : done[w] <= SEMAEM

(***************************************************************************)
(* WorkGoesOn: until then, and with both alive, the two never wait for     *)
(* each other for good.                                                    *)
(***************************************************************************)
Worked == alive # Workers \/ \A w \in Workers : done[w] = SEMAEM
WorkGoesOn == <>Worked
=============================================================================
