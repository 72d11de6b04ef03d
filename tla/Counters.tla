------------------------------ MODULE Counters -------------------------------
(***************************************************************************)
(* Two pairs on one number.  In ipc/add.c a parent and its child each add  *)
(* one N times to a number in shared memory, between the two semops of a   *)
(* semaphore; but semctl's arguments at add.c:9 are in the wrong order:    *)
(* the command it gives is 0, IPC_RMID, so the set is removed, every semop *)
(* fails, unseen, and nothing separates the additions.  In thread/lock.c   *)
(* two threads take from a number one at a time, under a mutex.            *)
(*                                                                         *)
(* ++*p is a load and a store.                                             *)
(***************************************************************************)
EXTENDS Integers, FiniteSets

CONSTANTS Programs,   \* of {"add", "lock"}
          N, Nobody

One == {"one", "two"}       \* parent and child, or the two threads
Parent == "one"
Child == "two"
IPC_RMID == 0
SETVAL == 16

VARIABLES
  program,
  value,        \* *p, or rsc
  pc, reg, i,   \* per actor: place, what it loaded, rounds or units taken
  sems,         \* the semaphore set: its value, or none
  mutex,
  sum           \* what the parent prints

vars == <<program, value, pc, reg, i, sems, mutex, sum>>

Init ==
  /\ program \in Programs
  /\ value = IF program = "add" THEN 0 ELSE N
  /\ pc = [t \in One |-> IF program = "lock" THEN "lock" ELSE IF t = Parent THEN "semctl" ELSE "none"]
  /\ reg = [t \in One |-> 0] /\ i = [t \in One |-> 0]
  /\ sems = {0}                    \* semget has made it
  /\ mutex = Nobody /\ sum = {}

Go(t, from, to) == pc[t] = from /\ pc' = [pc EXCEPT ![t] = to]

-----------------------------------------------------------------------------
(* ipc/add.c                                                               *)

semctl(semnum, cmd, val) ==
  CASE cmd = IPC_RMID -> sems' = {}
    [] cmd = SETVAL   -> sems' = {val}

\* Mutant: the semaphore is there, and set to 0.
SetvalZero ==
  /\ Go(Parent, "semctl", "fork")
  /\ semctl(0, SETVAL, 0)
  /\ UNCHANGED <<program, value, reg, i, mutex, sum>>

Setval ==
  /\ Go(Parent, "semctl", "fork")
  /\ semctl(SETVAL, 0, 1)
  /\ UNCHANGED <<program, value, reg, i, mutex, sum>>

fork ==
  /\ pc[Parent] = "fork"
  /\ pc' = [t \in One |-> "sopp"]
  /\ UNCHANGED <<program, value, reg, i, sems, mutex, sum>>

\* semop of -1 or 1: it fails without a set.
semop(t, here, there, n) ==
  /\ Go(t, here, there)
  /\ \/ sems = {} /\ UNCHANGED sems
     \/ \E v \in sems : v + n >= 0 /\ sems' = {v + n}
  /\ UNCHANGED <<program, value, reg, i, mutex, sum>>

Load(t) ==
  /\ Go(t, "sopp*", "store")
  /\ reg' = [reg EXCEPT ![t] = value]
  /\ UNCHANGED <<program, value, i, sems, mutex, sum>>

Store(t) ==
  /\ Go(t, "store", "sopv")
  /\ value' = reg[t] + 1
  /\ UNCHANGED <<program, reg, i, sems, mutex, sum>>

Round(t) ==
  /\ pc[t] = "sopv*"
  /\ i' = [i EXCEPT ![t] = @ + 1]
  /\ pc' = [pc EXCEPT ![t] = IF i'[t] < N THEN "sopp" ELSE IF t = Parent THEN "wait" ELSE "done"]
  /\ UNCHANGED <<program, value, reg, sems, mutex, sum>>

\* Mutant: the parent does not wait for its child.
WaitedNot == TRUE

Waited == pc[Child] = "done"

\* wait and the printf; the shared memory goes when both have left it.
print ==
  /\ Waited
  /\ Go(Parent, "wait", "done")
  /\ sum' = {value}
  /\ UNCHANGED <<program, value, reg, i, sems, mutex>>

add(t) == \/ semop(t, "sopp", "sopp*", -1) \/ Load(t) \/ Store(t)
          \/ semop(t, "sopv", "sopv*", 1) \/ Round(t)

-----------------------------------------------------------------------------
(* thread/lock.c                                                           *)

\* Mutant: the mutex is not looked at.
UnlockedAlways == TRUE

Unlocked == mutex = Nobody

lock(t) ==
  /\ Go(t, "lock", "load")
  /\ Unlocked /\ mutex' = t
  /\ UNCHANGED <<program, value, reg, i, sems, sum>>

test(t) ==
  /\ Go(t, "load", IF value = 0 THEN "leave" ELSE "take")
  /\ reg' = [reg EXCEPT ![t] = value]
  /\ UNCHANGED <<program, value, i, sems, mutex, sum>>

take(t) ==
  /\ Go(t, "take", "unlock")
  /\ i' = [i EXCEPT ![t] = @ + 1]
  /\ value' = reg[t] - 1
  /\ UNCHANGED <<program, reg, sems, mutex, sum>>

unlock(t) ==
  /\ \/ Go(t, "unlock", "lock")
     \/ Go(t, "leave", "done")
  /\ mutex' = Nobody
  /\ UNCHANGED <<program, value, reg, i, sems, sum>>

getrsc(t) == lock(t) \/ test(t) \/ take(t) \/ unlock(t)

-----------------------------------------------------------------------------
Step(t) == (program = "add" /\ add(t)) \/ (program = "lock" /\ getrsc(t))
Next == Setval \/ fork \/ print \/ \E t \in One : Step(t)
Spec == Init /\ [][Next]_vars
FairSpec == Spec /\ WF_vars(Next)

-----------------------------------------------------------------------------
(* Type invariant.                                                         *)
TypeOK ==
  /\ program \in Programs
  /\ value \in 0..(2 * N)
  /\ \A t \in One : reg[t] \in 0..(2 * N) /\ i[t] \in 0..N
  /\ Cardinality(sems) <= 1 /\ Cardinality(sum) <= 1
  /\ mutex \in One \cup {Nobody}

(***************************************************************************)
(* SumBounds: what add.c prints can be as little as 2 and is never less:   *)
(* the first to store takes nothing from a whole run of the other but its  *)
(* last addition.                                                          *)
(***************************************************************************)
SumBounds == N >= 2 => \A s \in sum : 2 <= s /\ s <= 2 * N

(***************************************************************************)
(* EachOnce: in lock.c no unit is taken twice, and all are.                *)
(***************************************************************************)
EachOnce ==
  program = "lock" =>
    /\ (\A t \in One : pc[t] # "take") => value + i["one"] + i["two"] = N
    /\ \A t \in One : pc[t] = "done" => value = 0

(***************************************************************************)
(* BothEnd: both programs end.                                             *)
(***************************************************************************)
Ended == \A t \in One : pc[t] = "done"
BothEnd == <>Ended
=============================================================================
