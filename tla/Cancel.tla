------------------------------- MODULE Cancel --------------------------------
(***************************************************************************)
(* thread/pthread.c: a thread locks a mutex, pushes a handler that unlocks *)
(* it, prints, unlocks it and exits, while main cancels and joins it.  A   *)
(* cancellation takes effect at a cancellation point, and printf is one    *)
(* only when it writes.  pthread_exit runs the handler too.                *)
(***************************************************************************)
EXTENDS Naturals

VARIABLES
  thread,     \* "lock", "printf", "unlock", "exit", "handler", "ended"
  mutex,      \* is it locked?
  pushed,     \* is clean_func pushed?
  cancelled,  \* has main asked for it?
  main,       \* "cancel", "join", "ended"
  ret,        \* what the thread returns: "none", "0", "canceled"
  astray      \* history: unlocks of the mutex when it was not locked

vars == <<thread, mutex, pushed, cancelled, main, ret, astray>>

Init ==
  /\ thread = "lock" /\ mutex = FALSE /\ pushed = FALSE
  /\ cancelled = FALSE /\ main = "cancel" /\ ret = "none" /\ astray = 0

lock ==
  /\ thread = "lock" /\ thread' = "printf"
  /\ mutex' = TRUE /\ pushed' = TRUE
  /\ UNCHANGED <<cancelled, main, ret, astray>>

\* The end of a thread: its handlers run first.
Exit(value) == ret' = value /\ pushed' = FALSE /\ thread' = IF pushed THEN "handler" ELSE "ended"

printf ==
  /\ thread = "printf"
  /\ \/ thread' = "unlock" /\ UNCHANGED <<pushed, ret>>
     \/ cancelled /\ Exit("canceled")
  /\ UNCHANGED <<mutex, cancelled, main, astray>>

\* Mutant: the mutex stays as it is.
UnlockNot == UNCHANGED <<mutex, astray>>

Unlock == mutex' = FALSE /\ astray' = IF mutex THEN astray ELSE astray + 1

unlock ==
  /\ thread = "unlock" /\ thread' = "exit" /\ Unlock
  /\ UNCHANGED <<pushed, cancelled, main, ret>>

pthread_exit == thread = "exit" /\ Exit("0") /\ UNCHANGED <<mutex, cancelled, main, astray>>

clean_func ==
  /\ thread = "handler" /\ thread' = "ended" /\ Unlock
  /\ UNCHANGED <<pushed, cancelled, main, ret>>

cancel ==
  /\ main = "cancel" /\ main' = "join" /\ cancelled' = TRUE
  /\ UNCHANGED <<thread, mutex, pushed, ret, astray>>

join ==
  /\ main = "join" /\ thread = "ended" /\ main' = "ended"
  /\ UNCHANGED <<thread, mutex, pushed, cancelled, ret, astray>>

Thread == lock \/ printf \/ unlock \/ pthread_exit \/ clean_func
Main == cancel \/ join
Next == Thread \/ Main
Spec == Init /\ [][Next]_vars
FairSpec == Spec /\ WF_vars(Thread) /\ WF_vars(Main)

-----------------------------------------------------------------------------
(* Type invariant.                                                         *)
TypeOK ==
  /\ thread \in {"lock", "printf", "unlock", "exit", "handler", "ended"}
  /\ {mutex, pushed, cancelled} \subseteq BOOLEAN
  /\ main \in {"cancel", "join", "ended"}
  /\ ret \in {"none", "0", "canceled"} /\ astray \in 0..2

(***************************************************************************)
(* LeftUnlocked: wherever the cancellation meets the thread, the mutex is  *)
(* not locked once the thread has been joined.                             *)
(***************************************************************************)
LeftUnlocked == main = "ended" => ~mutex

(***************************************************************************)
(* UnlockedAgain: the handler unlocks a mutex that is not locked, which    *)
(* POSIX leaves undefined, exactly when the thread was not cancelled.      *)
(***************************************************************************)
UnlockedAgain == thread = "ended" => (astray > 0 <=> ret = "0")

(* Joined: main ends, whether or not the cancellation took effect.         *)
Ended == main = "ended"
Joined == <>Ended
=============================================================================
