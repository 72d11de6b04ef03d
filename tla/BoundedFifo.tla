----------------------------- MODULE BoundedFifo -----------------------------
(***************************************************************************)
(* What taskqueue.c promises its callers: a first-in first-out queue of    *)
(* descriptors that never holds more than MaxCapacity of them, says FULL   *)
(* or EMPTY instead of blocking, and, once destroyed, gives back every     *)
(* element it still holds.                                                 *)
(***************************************************************************)
EXTENDS Integers, Sequences

CONSTANTS Fds,          \* the descriptors that are queued
          NoFd,         \* what *confd holds when no descriptor was delivered
          MaxCapacity   \* maxcapacity of task_queue_init

VARIABLES fifo,         \* the queued descriptors, oldest first
          answer,       \* what the last call returned
          phase         \* "open", then "closing" while it empties, then "closed"

vars == <<fifo, answer, phase>>

Codes == {"OK", "EMPTY", "FULL"}
Answer(code, fd) == [code |-> code, fd |-> fd]

Init == /\ fifo = <<>>
        /\ answer = Answer("OK", NoFd)
        /\ phase = "open"

Put(fd) ==
  /\ phase = "open"
  /\ \/ /\ Len(fifo) < MaxCapacity
        /\ fifo' = Append(fifo, fd)
        /\ answer' = Answer("OK", NoFd)
     \/ /\ Len(fifo) = MaxCapacity
        /\ answer' = Answer("FULL", NoFd)
        /\ UNCHANGED fifo
  /\ UNCHANGED phase

Get ==
  /\ phase = "open"
  /\ \/ /\ fifo # <<>>
        /\ answer' = Answer("OK", Head(fifo))
        /\ fifo' = Tail(fifo)
     \/ /\ fifo = <<>>
        /\ answer' = Answer("EMPTY", NoFd)
        /\ UNCHANGED fifo
  /\ UNCHANGED phase

Close ==
  /\ phase = "open"
  /\ \/ /\ fifo # <<>>
        /\ phase' = "closing"
        /\ UNCHANGED answer
     \/ /\ fifo = <<>>
        /\ phase' = "closed"
        /\ answer' = Answer("EMPTY", NoFd)
  /\ UNCHANGED fifo

Discard ==
  /\ phase = "closing"
  /\ \/ /\ fifo # <<>>
        /\ fifo' = Tail(fifo)
        /\ UNCHANGED <<answer, phase>>
     \/ /\ fifo = <<>>
        /\ phase' = "closed"
        /\ answer' = Answer("OK", NoFd)
        /\ UNCHANGED fifo

Next == \/ \E fd \in Fds : Put(fd)
        \/ Get
        \/ Close
        \/ Discard

Spec == Init /\ [][Next]_vars /\ WF_vars(Discard)
=============================================================================
