------------------------------ MODULE Messages -------------------------------
(***************************************************************************)
(* ipc/msqsnd.c and ipc/msqrsv.c, each run any number of times on one      *)
(* message queue, which the kernel keeps between the runs.  A sender whose *)
(* text does not fit waits in msgsnd; a type less than 1 is refused, which *)
(* nobody looks at.  A receiver asks for a type and does not wait; it      *)
(* prints nothing for an empty text, which it has taken nevertheless; a    *)
(* text longer than mtext, which overruns the sender's own mtext on the    *)
(* way, it refuses and leaves in the queue, in the way of what is behind   *)
(* it.  A run is known by its number.                                      *)
(***************************************************************************)
EXTENDS Integers, FiniteSets, Sequences, SequencesExt

CONSTANTS Types,     \* that users give: 0 and less too
          Sizes,     \* of texts
          TextLen,   \* bytes of mtext
          Room,      \* bytes the queue holds, and messages
          MaxSent    \* bound: runs of msqsnd

VARIABLES
  msgs,      \* of each run of msqsnd so far: [mtype, size]
  waiting,   \* runs that wait in msgsnd
  refused,
  queue,     \* of runs' numbers
  entered,   \* history: numbers in the order they entered the queue
  printed,   \* numbers whose text was printed
  unseen     \* numbers taken and not printed

vars == <<msgs, waiting, refused, queue, entered, printed, unseen>>

Init ==
  /\ msgs = <<>> /\ waiting = {} /\ refused = {}
  /\ queue = <<>> /\ entered = <<>> /\ printed = {} /\ unseen = {}

msqsnd(mtype, size) ==
  /\ Len(msgs) < MaxSent
  /\ msgs' = Append(msgs, [mtype |-> mtype, size |-> size])
  /\ \/ mtype < 1 /\ refused' = refused \cup {Len(msgs')} /\ UNCHANGED waiting
     \/ mtype >= 1 /\ waiting' = waiting \cup {Len(msgs')} /\ UNCHANGED refused
  /\ UNCHANGED <<queue, entered, printed, unseen>>

\* Each byte is known by its message and its place.
Bytes == Cardinality(UNION {{k} \X (1..msgs[k].size) : k \in ToSet(queue)})

enter(k) ==
  /\ k \in waiting /\ Bytes + msgs[k].size <= Room /\ Len(queue) < Room
  /\ waiting' = waiting \ {k}
  /\ queue' = Append(queue, k) /\ entered' = Append(entered, k)
  /\ UNCHANGED <<msgs, refused, printed, unseen>>

TypeAt(j) == msgs[queue[j]].mtype
Lowest(J) == {j \in J : \A i \in J : TypeAt(j) <= TypeAt(i)}

\* What msgrcv chooses from: one type; any, for 0; for less, the lowest type
\* up to its absolute value.
Meant(mtype) ==
  IF mtype >= 0 THEN {j \in DOMAIN queue : mtype \in {0, TypeAt(j)}}
    ELSE Lowest({j \in DOMAIN queue : TypeAt(j) <= -mtype})

\* Mutant: one that has no text stays in the queue.
TakenTexts(j) == IF msgs[queue[j]].size > 0 THEN RemoveAt(queue, j) ELSE queue

Taken(j) == RemoveAt(queue, j)

msqrsv(mtype) ==
  \E j \in Meant(mtype) :
    /\ \A i \in Meant(mtype) : j <= i
    /\ msgs[queue[j]].size <= TextLen
    /\ queue' = Taken(j)
    /\ \/ msgs[queue[j]].size > 0 /\ printed' = printed \cup {queue[j]} /\ UNCHANGED unseen
       \/ msgs[queue[j]].size = 0 /\ unseen' = unseen \cup {queue[j]} /\ UNCHANGED printed
    /\ UNCHANGED <<msgs, waiting, refused, entered>>

Next == \/ \E t \in Types : msqrsv(t) \/ \E n \in Sizes : msqsnd(t, n)
        \/ \E k \in waiting : enter(k)
Spec == Init /\ [][Next]_vars

-----------------------------------------------------------------------------
(* Type invariant.                                                         *)
TypeOK ==
  /\ msgs \in Seq([mtype : Types, size : Sizes]) /\ Len(msgs) <= MaxSent
  /\ Bytes <= Room /\ Len(queue) <= Room
  /\ {waiting, refused, printed, unseen} \subseteq SUBSET DOMAIN msgs

(***************************************************************************)
(* OnceOnly: a message waits, or is refused, queued, printed or thrown     *)
(* away, and only one of these, whoever runs in between.                   *)
(***************************************************************************)
Places == <<waiting, refused, ToSet(queue), printed, unseen>>
OnceOnly == \A k \in DOMAIN msgs : \E one \in 1..5 : \A p \in 1..5 : k \in Places[p] <=> p = one

(***************************************************************************)
(* InOrder: of one type, what came into the queue first is taken first,    *)
(* also by receivers that ask for any type or for a range.                 *)
(***************************************************************************)
InOrder ==
  \A i, j \in DOMAIN entered :
    /\ i < j /\ msgs[entered[i]].mtype = msgs[entered[j]].mtype
    /\ entered[j] \in printed \cup unseen
    => entered[i] \in printed \cup unseen
=============================================================================
