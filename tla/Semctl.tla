------------------------------- MODULE Semctl --------------------------------
(***************************************************************************)
(* ipc/semctl.c, run by several at once on one key: each gets the set of   *)
(* three semaphores or makes it, gives number 1 the value 5, then all of   *)
(* them 1, 2, 5, then number 1 the value 5 again, prints each time, and    *)
(* removes the set.  A call on a set that another has removed fails, and   *)
(* only semget's failure is looked at.  Of the set, number 1 is kept.      *)
(***************************************************************************)
EXTENDS Integers, Sequences

CONSTANTS Runs

VARIABLES
  pc,        \* each run's next call
  semid,     \* the set each has
  current,   \* the set there is, 0 for none
  made,      \* sets made so far
  value,     \* of semaphore 1 of it
  printed    \* what getval gave each of them, -1 for a failure

vars == <<pc, semid, current, made, value, printed>>

Calls == <<"semget", "setval", "getval", "setall", "getall", "setval", "getval", "rmid", "ended">>

Init ==
  /\ pc = [r \in Runs |-> 1] /\ semid = [r \in Runs |-> 0]
  /\ current = 0 /\ made = 0 /\ value = 0
  /\ printed = [r \in Runs |-> <<>>]

At(r, call) == Calls[pc[r]] = call /\ pc' = [pc EXCEPT ![r] = @ + 1]
Works(r) == semid[r] = current

semget(r) ==
  /\ At(r, "semget")
  /\ \/ current # 0 /\ UNCHANGED <<current, made, value>>
     \/ current = 0 /\ made' = made + 1 /\ current' = made' /\ value' = 0
  /\ semid' = [semid EXCEPT ![r] = current']
  /\ UNCHANGED printed

Give(r, n) ==
  /\ value' = IF Works(r) THEN n ELSE value
  /\ UNCHANGED <<semid, current, made, printed>>

setval(r) == At(r, "setval") /\ Give(r, 5)
setall(r) == At(r, "setall") /\ Give(r, 2)

getval(r) ==
  /\ At(r, "getval")
  /\ printed' = [printed EXCEPT ![r] = Append(@, IF Works(r) THEN value ELSE -1)]
  /\ UNCHANGED <<semid, current, made, value>>

getall(r) == At(r, "getall") /\ UNCHANGED <<semid, current, made, value, printed>>

\* Mutant: another's set is removed as well.
LeftNone(r) == 0

\* Mutant: the set is not removed.
LeftAll(r) == current

Left(r) == IF Works(r) THEN 0 ELSE current

rmid(r) ==
  /\ At(r, "rmid") /\ current' = Left(r)
  /\ UNCHANGED <<semid, made, value, printed>>

Step(r) == semget(r) \/ setval(r) \/ setall(r) \/ getval(r) \/ getall(r) \/ rmid(r)
Next == \E r \in Runs : Step(r)
Spec == Init /\ [][Next]_vars
FairSpec == Spec /\ WF_vars(Next)

-----------------------------------------------------------------------------
(* Type invariant.                                                         *)
TypeOK ==
  /\ pc \in [Runs -> 1..Len(Calls)] /\ semid \in [Runs -> 0..made]
  /\ current \in 0..made /\ value \in {0, 2, 5}
  /\ printed \in [Runs -> Seq({-1, 2, 5})]

(***************************************************************************)
(* PrintedRight: both times it asks for the one semaphore a run prints 5,  *)
(* unless another runs on the same set: then a 5 may be a 2, and a failure *)
(* is not followed by anything else.                                       *)
(***************************************************************************)
Shared(r) == \E q \in Runs \ {r} : semid[q] = semid[r]
PrintedRight ==
  \A r \in Runs : \A k \in DOMAIN printed[r] :
    /\ ~Shared(r) => printed[r][k] = 5
    /\ printed[r][1] = -1 => printed[r][k] = -1

(***************************************************************************)
(* NoneLeft: when all have ended no set of semaphores is left, though      *)
(* most of the removals fail.                                              *)
(***************************************************************************)
AllEnded == \A r \in Runs : pc[r] = Len(Calls)
NoneLeft == AllEnded => current = 0
=============================================================================
