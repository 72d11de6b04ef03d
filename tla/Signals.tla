------------------------------- MODULE Signals -------------------------------
(***************************************************************************)
(* ipc/signal/sigaction.c blocks every signal around its key code, and     *)
(* ipc/signal/signal.c catches SIGINT while it sleeps; both then loop with *)
(* SIGINT's default action, which ends a process.  ^C comes at any time.   *)
(* A caught signal cuts the sleep short, and one that comes while the      *)
(* handler runs waits for its end, before the sleep returns.               *)
(***************************************************************************)
EXTENDS Naturals

CONSTANTS Programs,   \* of {"sigaction", "signal"}
          MaxInts     \* bound: how often ^C is pressed

VARIABLES
  program,
  pc,        \* "start", "key", "keyend", "sleep", "loop"
  pending,   \* is a SIGINT?
  handling,  \* does the handler run?
  dead,
  ints,      \* history: ^C pressed
  caught     \* history: SIGINTs handled

vars == <<program, pc, pending, handling, dead, ints, caught>>

Init ==
  /\ program \in Programs
  /\ pc = "start" /\ pending = FALSE /\ handling = FALSE /\ dead = FALSE
  /\ ints = 0 /\ caught = 0

\* Mutant: nothing is blocked.
BlockedNot == handling

\* Mutant: nothing is unblocked.
BlockedStill == handling \/ (program = "sigaction" /\ pc # "start")

Blocked == handling \/ pc \in {"key", "keyend"}

Caught == pc = "sleep"

Interrupt ==
  /\ ~dead /\ ints < MaxInts /\ ints' = ints + 1 /\ pending' = TRUE
  /\ UNCHANGED <<program, pc, handling, dead, caught>>

\* The kernel delivers what is pending and not blocked before the program
\* goes on.
deliver ==
  /\ ~dead /\ pending /\ ~Blocked /\ pending' = FALSE
  /\ \/ Caught /\ handling' = TRUE /\ caught' = caught + 1 /\ UNCHANGED dead
     \/ ~Caught /\ dead' = TRUE /\ UNCHANGED <<handling, caught>>
  /\ UNCHANGED <<program, pc, ints>>

handler == handling /\ handling' = FALSE /\ UNCHANGED <<program, pc, pending, dead, ints, caught>>

Follows(p, from, to) == program = p /\ pc = from /\ pc' = to

main ==
  /\ ~dead /\ ~handling /\ (pending => Blocked)
  /\ \/ Follows("sigaction", "start", "key")
     \/ Follows("sigaction", "key", "keyend")
     \/ Follows("sigaction", "keyend", "loop")
     \/ Follows("signal", "start", "sleep")
     \/ Follows("signal", "sleep", "loop")
  /\ UNCHANGED <<program, pending, handling, dead, ints, caught>>

Process == main \/ deliver \/ handler
Next == Process \/ Interrupt
Spec == Init /\ [][Next]_vars
FairSpec == Spec /\ WF_vars(Process)

-----------------------------------------------------------------------------
(* Type invariant.                                                         *)
TypeOK ==
  /\ program \in Programs
  /\ pc \in {"start", "key", "keyend", "sleep", "loop"}
  /\ {pending, handling, dead} \subseteq BOOLEAN
  /\ ints \in 0..MaxInts /\ caught \in 0..MaxInts

(***************************************************************************)
(* KeyCodeWhole: no ^C ends a process in its key code.                     *)
(***************************************************************************)
KeyCodeWhole == dead => pc \in {"start", "loop"}

(***************************************************************************)
(* Heeded: a ^C is not forgotten: one that was blocked ends the process    *)
(* after the key code, one that was caught has run the handler.            *)
(***************************************************************************)
Pressed == ints > 0
HeededNow == dead \/ caught > 0
Heeded == Pressed ~> HeededNow
=============================================================================
