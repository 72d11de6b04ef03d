------------------------------- MODULE Tickets -------------------------------
(***************************************************************************)
(* The ticket sales of unix/thread.  In saletickets.c two windows sell and *)
(* signal when there are none, and a setter waits for that on a condition  *)
(* variable, behind an `if'; in saletickets2.c the windows wait and the    *)
(* setter looks again and again.                                           *)
(*                                                                         *)
(* A thread is waiting, or woken and to lock the mutex again.  A waiter    *)
(* may wake without a signal, but at most MaxSpurious times.               *)
(***************************************************************************)
EXTENDS Integers, FiniteSets

CONSTANTS Windows, Setter, Nobody,
          Programs,     \* of {"saletickets", "saletickets2"}
          Full,         \* tickets that are set, 10
          MaxSpurious   \* bound: spurious wakeups

Threads == Windows \cup {Setter}

VARIABLES
  program,     \* the one that runs
  ticket_cnt,
  mutex,       \* the thread that has it, or Nobody
  pc,          \* each thread: "lock", "body", "wait", "woken", "after", "unlock", "sleep"
  spurious,    \* history: spurious wakeups so far
  spared       \* history: tickets there were when they were set

vars == <<program, ticket_cnt, mutex, pc, spurious, spared>>

Init ==
  /\ program \in Programs
  /\ ticket_cnt = Full /\ mutex = Nobody
  /\ pc = [t \in Threads |-> "lock"]
  /\ spurious = 0 /\ spared = 0

Go(t, from, to) == pc[t] = from /\ pc' = [pc EXCEPT ![t] = to]

Lock(t) ==
  /\ mutex = Nobody /\ mutex' = t
  /\ \/ Go(t, "lock", "body")
     \/ Go(t, "woken", "after")
  /\ UNCHANGED <<program, ticket_cnt, spurious, spared>>

Unlock(t) ==
  /\ Go(t, "unlock", IF t \in Windows THEN "sleep" ELSE "lock")
  /\ mutex' = Nobody
  /\ UNCHANGED <<program, ticket_cnt, spurious, spared>>

Sleep(t) ==
  /\ Go(t, "sleep", "lock")
  /\ UNCHANGED <<program, ticket_cnt, mutex, spurious, spared>>

Wait(t) == pc' = [pc EXCEPT ![t] = "wait"] /\ mutex' = Nobody

Waiting == {t \in Threads : pc[t] = "wait"}

SpuriousWakeup(t) ==
  /\ spurious < MaxSpurious
  /\ Go(t, "wait", "woken")
  /\ spurious' = spurious + 1
  /\ UNCHANGED <<program, ticket_cnt, mutex, spared>>

Set == ticket_cnt' = Full /\ spared' = spared + ticket_cnt

-----------------------------------------------------------------------------
Sell(t) == ticket_cnt' = ticket_cnt - 1 /\ Go(t, "body", "unlock") /\ UNCHANGED mutex

\* The mutex is to be left, and some are woken.
Wake(t, some) == pc' = [u \in Threads |-> IF u = t THEN "unlock" ELSE IF u \in some THEN "woken" ELSE pc[u]]

\* Mutants: no signal; one window is woken, not all; no wait.
SignalNot == {}
BroadcastOne == IF Waiting = {} THEN {{}} ELSE {{w} : w \in Waiting}
AvailableNever == FALSE

\* Whom pthread_cond_signal wakes: only the setter waits; whom
\* pthread_cond_broadcast wakes; whether there are tickets.
Signal == Waiting
Broadcast == {Waiting}
Available == ticket_cnt # 0

\* saletickets.c: signal the setter; only it waits.
salewindow(t) ==
  /\ program = "saletickets" /\ t \in Windows /\ pc[t] = "body"
  /\ \/ /\ ticket_cnt = 0
        /\ Wake(t, Signal)
        /\ UNCHANGED <<ticket_cnt, mutex>>
     \/ ticket_cnt # 0 /\ Sell(t)
  /\ UNCHANGED <<program, spurious, spared>>

setticket ==
  /\ program = "saletickets"
  /\ \/ /\ pc[Setter] = "body" /\ Available
        /\ Wait(Setter)
        /\ UNCHANGED <<ticket_cnt, spared>>
     \/ /\ \/ ~Available /\ Go(Setter, "body", "unlock")
           \/ Go(Setter, "after", "unlock")
        /\ Set
        /\ UNCHANGED mutex
  /\ UNCHANGED <<program, spurious>>

\* saletickets2.c: a window waits, and after that sells nothing this time.
salewindow2(t) ==
  /\ program = "saletickets2" /\ t \in Windows
  /\ \/ /\ pc[t] = "body" /\ ticket_cnt = 0
        /\ Wait(t)
        /\ UNCHANGED ticket_cnt
     \/ /\ ticket_cnt # 0 /\ Sell(t)
     \/ /\ Go(t, "after", "unlock")
        /\ UNCHANGED <<ticket_cnt, mutex>>
  /\ UNCHANGED <<program, spurious, spared>>

setticket2 ==
  /\ program = "saletickets2" /\ pc[Setter] = "body"
  /\ \/ /\ ticket_cnt = 0 /\ Set
        /\ \E some \in Broadcast : Wake(Setter, some)
     \/ /\ ticket_cnt # 0 /\ Go(Setter, "body", "unlock")
        /\ UNCHANGED <<ticket_cnt, spared>>
  /\ UNCHANGED <<program, mutex, spurious>>

Body(t) == salewindow(t) \/ salewindow2(t) \/ (t = Setter /\ (setticket \/ setticket2))

Next == \E t \in Threads : Lock(t) \/ Body(t) \/ Unlock(t) \/ Sleep(t) \/ SpuriousWakeup(t)

Spec == Init /\ [][Next]_vars

Runs(t) == Lock(t) \/ Body(t) \/ Unlock(t) \/ Sleep(t)

\* A thread that can run does, and the setter, which never sleeps, is not
\* passed over for ever by windows that do.
FairSpec ==
  /\ Spec
  /\ \A t \in Threads : WF_vars(Runs(t))
  /\ SF_vars(Lock(Setter))

-----------------------------------------------------------------------------
(* Type invariant: the tickets are never more than Full nor less than 0,   *)
(* and who is inside has the mutex.                                        *)
TypeOK ==
  /\ program \in Programs
  /\ ticket_cnt \in 0..Full
  /\ mutex \in Threads \cup {Nobody}
  /\ pc \in [Threads -> {"lock", "body", "wait", "woken", "after", "unlock", "sleep"}]
  /\ \A t \in Threads : pc[t] \in {"body", "after", "unlock"} <=> mutex = t
  /\ spurious \in 0..MaxSpurious

(***************************************************************************)
(* SetWhenSold: tickets are set only when all are sold.  The `if' before   *)
(* the setter's wait leaves one exception, a spurious wakeup.              *)
(***************************************************************************)
SetWhenSold == spared <= spurious * Full

(***************************************************************************)
(* SalesGoOn: whenever there are no tickets they are set again: a signal   *)
(* that comes before the setter waits is not missed.                       *)
(***************************************************************************)
SoldOut == ticket_cnt = 0
SetAgain == ticket_cnt = Full
SalesGoOn == SoldOut ~> SetAgain

(***************************************************************************)
(* WindowsWake: a window that waits for tickets is woken, each of them.    *)
(***************************************************************************)
Waits(t) == pc[t] = "wait"
WindowsWake == \A w \in Windows : Waits(w) ~> ~Waits(w)
=============================================================================
