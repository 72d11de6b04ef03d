------------------------------ MODULE IpcChat --------------------------------
(***************************************************************************)
(* The four-process chat of unix/ipc/chat.  a and b talk over two fifos;   *)
(* what is said is shown in windows of their own: a hands each message to  *)
(* a1 through shared memory and two semaphores, b to b1 through a message  *)
(* queue.  SIGINT or SIGQUIT ends a process; its handler sends SIGUSR1 to  *)
(* the others, by the pids they left in files, and removes IPC objects.    *)
(*                                                                         *)
(* A line is a pair of who typed it and its number; a message is the lines *)
(* one read returned, which cuts none.  The shared memory is copied and    *)
(* printed cell by cell; a cell holds the number of the message it is      *)
(* from.  A read that fills str leaves no NUL in it, and what comes after  *)
(* it on the stack may be NUL or not.  Fifos and queue are never full.  A  *)
(* signal is taken before the process's next step.                         *)
(***************************************************************************)
EXTENDS Integers, SequencesExt

CONSTANTS BufLines,     \* lines that fill the 64 bytes of str
          Long,         \* lines that do so alone
          Wide,         \* lines whose fourth byte is not ASCII
          TextCells,    \* cells of mtext
          Limits        \* bounds of a behaviour, to choose from: how many lines
                        \* are typed at a and at b, how many processes SIGKILL
                        \* ends, and which may be sent SIGINT

Proc == {"a", "a1", "b", "b1"}
Talkers == {"a", "b"}

ASSUME IpcAssumption ==
  /\ BufLines \in Nat \ {0}
  /\ TextCells \in Nat \ {0}
  /\ Limits \subseteq [lines : [Talkers -> Nat], crashes : Nat, interrupts : SUBSET Proc]

SND == 0
RCV == 1

Cells == 0..TextCells    \* of the shared msgbuf_t: 0 is mtype
Junk == <<"junk", 0>>    \* what strlen finds beyond str

VARIABLES
  pc,                    \* where each process is
  handling, hstep,       \* the signal handled; the handler's step
  id,                    \* what each process's ids of its objects are worth
  exists,                \* the objects there are: "shm", with "sem", and "msq"
  fifo,                  \* bytes for a ("1.fifo") and for b ("2.fifo")
  ready, hand,           \* the readset of select, and the message in hand
  typed,                 \* lines typed so far
  shm, room, message,    \* the shared memory; the semaphores
  left,                  \* cells a has yet to copy
  seen, unread,          \* cells a1 has read for printf, and has yet to read
  msq,                   \* the message queue
  stored,                \* history: the messages a has begun to copy
  shownA1, shownB1,      \* history: what a1 and b1 have shown
  fallen,                \* history: ended, but not by its handler
  limits                 \* the bounds of this behaviour

sigVars == <<handling, hstep>>
objVars == <<id, exists>>
talkVars == <<fifo, ready, typed>>
shmVars == <<shm, room, message, left, stored>>
showVars == <<seen, unread, shownA1, shownB1>>
env == <<fallen, limits>>
vars == <<pc, sigVars, objVars, talkVars, hand, shmVars, showVars, msq, env>>

\* over: strcpy and strlen run on past the text.
NoMsg == [mtype |-> RCV, mtext |-> <<>>, over |-> FALSE]

Zeros == [k \in Cells |-> 0]

Init ==
  /\ pc = [p \in Proc |-> "savepid"]
  /\ handling = [p \in Proc |-> "none"]
  /\ hstep = [p \in Proc |-> 1]
  /\ id = [p \in Proc |-> "none"]
  /\ exists = {}
  /\ fifo = [p \in Talkers |-> <<>>]
  /\ ready = [p \in Talkers |-> {}]
  /\ hand = [p \in Talkers |-> NoMsg]
  /\ typed = [p \in Talkers |-> 0]
  /\ shm = Zeros /\ room = 0 /\ message = 0 /\ left = Cells
  /\ seen = Zeros /\ unread = {} /\ msq = <<>>
  /\ stored = <<>> /\ shownA1 = <<>> /\ shownB1 = <<>>
  /\ fallen = {}
  /\ limits \in Limits

Alive(p) == pc[p] # "dead"
Peer(p) == IF p = "a" THEN "b" ELSE "a"

Go(p, from, to) ==
  /\ pc[p] = from
  /\ pc' = [pc EXCEPT ![p] = to]

-----------------------------------------------------------------------------
(* Start-up.                                                               *)

savepid(p) ==
  /\ Go(p, "savepid", "register")
  /\ UNCHANGED <<sigVars, objVars, talkVars, hand, shmVars, showVars, msq, env>>

sigfunc_register(p) ==
  /\ Go(p, "register", IF p \in Talkers THEN "open1" ELSE "get")
  /\ UNCHANGED <<sigVars, objVars, talkVars, hand, shmVars, showVars, msq, env>>

\* Mutant: b opens the fifos in the other order.
OpensSwapped(p, k) == IF p = "a" THEN k ELSE 3 - k

\* The fifo, 1 or 2, of the k-th open of a or b.
Opens(p, k) == k

\* A fifo opens when both its ends are being opened.
Place(k) == IF k = 1 THEN "open1" ELSE "open2"
AfterOpen(k) == IF k = 1 THEN "open2" ELSE "get"

OpenFifo ==
  /\ \E k, l \in 1..2 :
       /\ pc["a"] = Place(k) /\ pc["b"] = Place(l)
       /\ Opens("a", k) = Opens("b", l)
       /\ pc' = [pc EXCEPT !["a"] = AfterOpen(k), !["b"] = AfterOpen(l)]
  /\ UNCHANGED <<sigVars, objVars, talkVars, hand, shmVars, showVars, msq, env>>

\* What a and a1 share, and b and b1.
Object(p) == IF p \in {"a", "a1"} THEN "shm" ELSE "msq"

\* shmget and semget, or msgget, with IPC_CREAT.  A new object is empty;
\* only one who is ending still has the old one.
Get(p) ==
  /\ Go(p, "get", CASE p = "a" -> "setall" [] p = "a1" -> "take" [] p = "b" -> "select" [] p = "b1" -> "rcv")
  /\ id' = [id EXCEPT ![p] = "live"]
  /\ exists' = exists \cup {Object(p)}
  /\ IF Object(p) = "shm" /\ "shm" \notin exists
       THEN shm' = Zeros /\ room' = 0 /\ message' = 0
       ELSE UNCHANGED <<shm, room, message>>
  /\ msq' = IF Object(p) = "msq" /\ "msq" \notin exists THEN <<>> ELSE msq
  /\ UNCHANGED <<sigVars, talkVars, hand, left, stored, showVars, env>>

SetAll ==
  /\ Go("a", "setall", "select")
  /\ IF id["a"] = "live" THEN room' = 1 /\ message' = 0 ELSE UNCHANGED <<room, message>>
  /\ UNCHANGED <<sigVars, objVars, talkVars, hand, shm, left, stored, showVars, msq, env>>

-----------------------------------------------------------------------------
(* The loops of a and b.                                                   *)

\* A fifo is readable also at end of file.
Readable(p) == (IF fifo[p] # <<>> \/ ~Alive(Peer(p)) THEN {"fdr"} ELSE {})
                 \cup (IF typed[p] < limits.lines[p] THEN {"stdin"} ELSE {})

select(p) ==
  /\ Go(p, "select", "fdr")
  /\ \E some \in SUBSET Readable(p) :    \* a line may be typed later
       /\ some # {}
       /\ some \cup {"stdin"} = Readable(p) \cup {"stdin"}
       /\ ready' = [ready EXCEPT ![p] = some]
  /\ UNCHANGED <<sigVars, objVars, fifo, typed, hand, shmVars, showVars, msq, env>>

\* Where a message in hand goes to.
Deliver(p) == IF p = "a" THEN "copy" ELSE "msgsnd"

\* Which lines one read returns, and which of them leave no NUL in str.
Fits(lines) ==
  Len(lines) = 1 \/ (Len(lines) <= BufLines /\ \A k \in DOMAIN lines : lines[k] \notin Long)
Fills(lines) == Len(lines) >= BufLines \/ lines[1] \in Long

\* What str holds after a read of lines.
Str(type, lines) == {[mtype |-> type, mtext |-> lines, over |-> o] : o \in {FALSE, Fills(lines)}}

\* Mutant: the bytes stay in the fifo.
KeepAll(p, n) == fifo[p]

\* What a read of n lines leaves in the fifo.
Rest(p, n) == SubSeq(fifo[p], n + 1, Len(fifo[p]))

\* read(fdr); at end of file a and b return from main and clean up nothing.
read(p) ==
  /\ \/ /\ "fdr" \in ready[p]
        /\ Go(p, "fdr", Deliver(p))
        /\ \E n \in 1..Len(fifo[p]) :
             /\ Fits(SubSeq(fifo[p], 1, n))
             /\ n < Len(fifo[p]) => ~Fits(SubSeq(fifo[p], 1, n + 1))
             /\ \E str \in Str(RCV, SubSeq(fifo[p], 1, n)) : hand' = [hand EXCEPT ![p] = str]
             /\ fifo' = [fifo EXCEPT ![p] = Rest(p, n)]
        /\ ready' = [ready EXCEPT ![p] = @ \ {"fdr"}]
        /\ UNCHANGED fallen
     \/ /\ "fdr" \in ready[p] /\ fifo[p] = <<>>
        /\ Go(p, "fdr", "dead")
        /\ fallen' = fallen \cup {p}
        /\ UNCHANGED <<hand, fifo, ready>>
     \/ /\ "fdr" \notin ready[p]
        /\ Go(p, "fdr", "stdin")
        /\ UNCHANGED <<hand, fifo, ready, fallen>>
  /\ UNCHANGED <<sigVars, objVars, typed, shmVars, showVars, msq, limits>>

\* read(STDIN_FILENO) and write(fdw), which raises SIGPIPE if the peer is gone.
write(p) ==
  LET line == <<p, typed[p] + 1>> IN
  /\ \/ /\ "stdin" \in ready[p]
        /\ typed' = [typed EXCEPT ![p] = @ + 1]
        /\ ready' = [ready EXCEPT ![p] = {}]
        /\ \/ /\ Alive(Peer(p))
              /\ Go(p, "stdin", Deliver(p))
              /\ \E str \in Str(SND, <<line>>) :
                   /\ fifo' = [fifo EXCEPT ![Peer(p)] =
                                 IF str.over THEN Append(Append(@, line), Junk) ELSE Append(@, line)]
                   /\ hand' = [hand EXCEPT ![p] = str]
              /\ UNCHANGED fallen
           \/ /\ ~Alive(Peer(p))
              /\ Go(p, "stdin", "dead")
              /\ fallen' = fallen \cup {p}
              /\ UNCHANGED <<fifo, hand>>
     \/ /\ "stdin" \notin ready[p]
        /\ Go(p, "stdin", "select")
        /\ UNCHANGED <<typed, ready, fifo, hand, fallen>>
  /\ UNCHANGED <<sigVars, objVars, shmVars, showVars, msq, limits>>

Continue(p) == IF hand[p].mtype = RCV THEN "stdin" ELSE "select"

\* snd_msg_to_shm and snd_msg_to_msq return, over a frame that strcpy may have
\* overwritten.
Return(p, from) ==
  \/ Go(p, from, Continue(p)) /\ UNCHANGED fallen
  \/ hand[p].over /\ Go(p, from, "dead") /\ fallen' = fallen \cup {p}

-----------------------------------------------------------------------------
(* a to a1: snd_msg_to_shm copies the message before it waits for room,    *)
(* and print_msg_from_shm gives the room back before it reads: nothing     *)
(* keeps memcpy and printf apart.                                          *)

\* memcpy, which has no order.
Copy ==
  /\ pc["a"] = "copy"
  /\ stored' = IF left = Cells THEN Append(stored, hand["a"]) ELSE stored
  /\ \E k \in left :
       /\ shm' = [shm EXCEPT ![k] = Len(stored')]
       /\ IF left = {k} THEN Go("a", "copy", "room") /\ left' = Cells
                        ELSE left' = left \ {k} /\ UNCHANGED pc
  /\ UNCHANGED <<sigVars, objVars, talkVars, hand, room, message, showVars, msq, env>>

\* Mutants: a full room is not waited for; the message is not announced.
RoomAlways == TRUE
AnnounceNot == message

HasRoom == room >= 1
Announce == message + 1

\* A semop on a set that was removed fails at once, and is not looked at.
WaitRoom ==
  /\ Return("a", "room")
  /\ \/ /\ id["a"] = "live" /\ HasRoom
        /\ room' = room - 1 /\ message' = Announce
     \/ id["a"] = "dead" /\ UNCHANGED <<room, message>>
  /\ UNCHANGED <<sigVars, objVars, talkVars, hand, shm, left, stored, showVars, msq, limits>>

snd_msg_to_shm == Copy \/ WaitRoom

\* Who removes the set has sent a1 its signal first; if that was before
\* a1 saved its pid, a1's semop fails, and it prints what is there for ever.
TakeMessage ==
  /\ \/ /\ id["a1"] = "live" /\ message >= 1
        /\ Go("a1", "take", "print")
        /\ room' = room + 1 /\ message' = message - 1
        /\ unread' = Cells
     \/ /\ id["a1"] = "dead"
        /\ Go("a1", "take", "spin")
        /\ UNCHANGED <<room, message, unread>>
  /\ UNCHANGED <<sigVars, objVars, talkVars, hand, shm, left, stored, seen, shownA1, shownB1, msq, env>>

\* mtype is an argument of printmsg; printf reads mtext in any order.
printmsg ==
  /\ pc["a1"] = "print"
  /\ \E k \in unread :
       /\ 0 \in unread => k = 0
       /\ seen' = [seen EXCEPT ![k] = shm[k]]
       /\ unread' = unread \ {k}
  /\ IF unread' = {} THEN Go("a1", "print", "take") /\ shownA1' = Append(shownA1, seen')
                     ELSE UNCHANGED <<pc, shownA1>>
  /\ UNCHANGED <<sigVars, objVars, talkVars, hand, shmVars, shownB1, msq, env>>

print_msg_from_shm == TakeMessage \/ printmsg

-----------------------------------------------------------------------------
(* b to b1: struct msgbuf begins with an int where msgsnd wants a long, so *)
(* the kernel takes the first four bytes of the text into the type, and    *)
(* refuses one that is not positive.                                       *)

Refusals(line) == IF line = Junk THEN BOOLEAN ELSE {line \in Wide}

snd_msg_to_msq ==
  /\ Return("b", "msgsnd")
  /\ \E refused \in Refusals(hand["b"].mtext[1]) :
       msq' = IF id["b"] = "live" /\ ~refused THEN Append(msq, hand["b"]) ELSE msq
  /\ UNCHANGED <<sigVars, objVars, talkVars, hand, shmVars, showVars, limits>>

\* A message longer than mtext is not received: it stays where it is, and b1
\* prints blanks for ever.
print_msg_from_msq ==
  /\ Go("b1", "rcv", "rcv")
  /\ id["b1"] = "live" /\ msq # <<>> /\ ~Head(msq).over
  /\ msq' = Tail(msq)
  /\ shownB1' = Append(shownB1, Head(msq))
  /\ UNCHANGED <<sigVars, objVars, talkVars, hand, shmVars, seen, unread, shownA1, env>>

-----------------------------------------------------------------------------
(* Signals.                                                                *)

Kill(who) == [kill |-> who, remove |-> FALSE]
RemoveIPC == [kill |-> {}, remove |-> TRUE]

\* Mutant: b1 leaves the queue to b, whose msqid is the -1 of the file scope.
HandlerLeavesQueue(p) ==
  CASE p = "a"  -> <<Kill({"a1", "b1"}), RemoveIPC, Kill({"b"})>>
    [] p = "a1" -> <<Kill({"b1"}), RemoveIPC, Kill({"a", "b"})>>
    [] p = "b"  -> <<Kill({"b1", "a1", "a"})>>
    [] p = "b1" -> <<Kill({"a1", "b", "a"})>>

\* What each handler does, in its order.  b's closes and msgctl use the
\* statics that main's locals shadow: they are -1.
Handler(p) ==
  CASE p = "a"  -> <<Kill({"a1", "b1"}), RemoveIPC, Kill({"b"})>>
    [] p = "a1" -> <<Kill({"b1"}), RemoveIPC, Kill({"a", "b"})>>
    [] p = "b"  -> <<Kill({"b1", "a1", "a"})>>
    [] p = "b1" -> <<Kill({"a1"}), RemoveIPC, Kill({"b", "a"})>>

Registered(p) == Alive(p) /\ pc[p] \notin {"savepid", "register"}

\* Each process of who is at its handler's beginning, or, if it has not
\* registered one, dead.  SIGUSR1 is blocked while it is handled.
Signal(who, sig) ==
  LET taken == {q \in who : Registered(q) /\ handling[q] # "USR1"}
      dies == {q \in who : Alive(q) /\ ~Registered(q)}
  IN  /\ pc' = [q \in Proc |-> IF q \in taken THEN "handler" ELSE IF q \in dies THEN "dead" ELSE pc[q]]
      /\ handling' = [q \in Proc |-> IF q \in taken THEN sig ELSE handling[q]]

\* killpid reaches a process that has saved its pid; a stale pid nobody here.
killpid(p, who) ==
  /\ Signal({q \in who : pc[q] # "savepid"}, "USR1")
  /\ hstep' = [q \in Proc |-> IF q = p THEN hstep[p] + 1 ELSE IF handling'[q] # handling[q] THEN 1 ELSE hstep[q]]
  /\ UNCHANGED objVars

\* shmctl and semctl, or msgctl, with IPC_RMID.
remove(p) ==
  /\ hstep' = [hstep EXCEPT ![p] = @ + 1]
  /\ IF id[p] = "live"
       THEN /\ exists' = exists \ {Object(p)}
            /\ id' = [q \in Proc |-> IF Object(q) = Object(p) /\ id[q] = "live" THEN "dead" ELSE id[q]]
       ELSE UNCHANGED objVars
  /\ UNCHANGED <<pc, handling>>

Dies(p) ==
  /\ pc' = [pc EXCEPT ![p] = "dead"]
  /\ hstep' = [hstep EXCEPT ![p] = 1]
  /\ id' = [id EXCEPT ![p] = "none"]
  /\ UNCHANGED exists

sigfunc(p) ==
  /\ pc[p] = "handler"
  /\ \/ /\ hstep[p] <= Len(Handler(p))
        /\ LET op == Handler(p)[hstep[p]] IN
             IF op.remove THEN remove(p) ELSE killpid(p, op.kill)
     \/ /\ hstep[p] > Len(Handler(p))
        /\ Dies(p)
        /\ handling' = [handling EXCEPT ![p] = "none"]
  /\ UNCHANGED <<talkVars, hand, shmVars, showVars, msq, env>>

\* SIGINT from the terminal, and SIGKILL.
Interrupt(p) ==
  /\ p \in limits.interrupts /\ Alive(p) /\ handling[p] = "none"
  /\ Signal({p}, "INT")
  /\ UNCHANGED <<hstep, objVars, talkVars, hand, shmVars, showVars, msq, env>>

Crash(p) ==
  /\ Alive(p) /\ Cardinality(fallen) < limits.crashes
  /\ fallen' = fallen \cup {p}
  /\ Dies(p)
  /\ UNCHANGED <<handling, talkVars, hand, shmVars, showVars, msq, limits>>

Step(p) == \/ savepid(p) \/ sigfunc_register(p)
           \/ Get(p)
           \/ p = "a" /\ (SetAll \/ snd_msg_to_shm)
           \/ p = "b" /\ snd_msg_to_msq
           \/ p \in Talkers /\ (select(p) \/ read(p) \/ write(p))
           \/ p = "a1" /\ print_msg_from_shm
           \/ p = "b1" /\ print_msg_from_msq
           \/ sigfunc(p)

Run == OpenFifo \/ \E p \in Proc : Step(p)

Next == \/ Run
        \/ \E p \in Proc : Interrupt(p) \/ Crash(p)

\* Some process that can run does: enough here, as no process goes on for
\* ever without new lines.  Users need not type, nor end the chat.
Fairness == WF_vars(Run)

Spec == Init /\ [][Next]_vars
FairSpec == Spec /\ Fairness

-----------------------------------------------------------------------------
AllLines == {Junk} \cup UNION {{<<p, k>> : k \in 1..l.lines[p]} : p \in Talkers, l \in Limits}
Messages == [mtype : {SND, RCV}, mtext : Seq(AllLines), over : BOOLEAN]
Places == {"savepid", "register", "open1", "open2", "get", "setall",
           "select", "fdr", "stdin", "copy", "room", "msgsnd",
           "take", "print", "spin", "rcv", "handler", "dead"}

(* Type invariant: a semaphore is 0 or 1, and after SETALL one of them is. *)
TypeOK ==
  /\ pc \in [Proc -> Places]
  /\ handling \in [Proc -> {"none", "INT", "USR1"}]
  /\ hstep \in [Proc -> 1..4]
  /\ id \in [Proc -> {"none", "live", "dead"}]
  /\ exists \in SUBSET {"shm", "msq"}
  /\ fifo \in [Talkers -> Seq(AllLines)]
  /\ ready \in [Talkers -> SUBSET {"fdr", "stdin"}]
  /\ hand \in [Talkers -> Messages]
  /\ \A p \in Talkers : typed[p] \in 0..limits.lines[p]
  /\ shm \in [Cells -> Nat] /\ left \in SUBSET Cells
  /\ room \in {0, 1} /\ message \in {0, 1} /\ room + message <= 1
  /\ seen \in [Cells -> Nat] /\ unread \in SUBSET Cells
  /\ msq \in Seq(Messages)
  /\ stored \in Seq(Messages)
  /\ shownA1 \in Seq([Cells -> Nat])
  /\ shownB1 \in Seq(Messages)
  /\ fallen \in SUBSET Proc

(***************************************************************************)
(* ShownInOrder: neither window goes back.  b1 shows no line twice and no  *)
(* line before an earlier one of the same person; nor does a store one.    *)
(* a1, whose message may be overwritten before and while it is printed,    *)
(* shows a text whose cells come from different messages: but in its i-th  *)
(* text they are of the i-th message stored or one of the two after it,    *)
(* and no cell goes back from one text to the next.                        *)
(***************************************************************************)
SamePerson(x, y) == x[1] = y[1] /\ x[1] \in Talkers

Before(m, n) ==
  \A k \in DOMAIN m.mtext, l \in DOMAIN n.mtext :
    SamePerson(m.mtext[k], n.mtext[l]) => m.mtext[k][2] < n.mtext[l][2]

InLine(m) ==
  \A k, l \in DOMAIN m.mtext :
    k < l /\ SamePerson(m.mtext[k], m.mtext[l]) => m.mtext[k][2] < m.mtext[l][2]

InOrder(messages) ==
  /\ \A i \in DOMAIN messages : InLine(messages[i])
  /\ \A i, j \in DOMAIN messages : i < j => Before(messages[i], messages[j])

ShownInOrder ==
  /\ InOrder(shownB1) /\ InOrder(stored)
  /\ \A i \in DOMAIN shownA1, k \in Cells :
       /\ shownA1[i][k] \in DOMAIN stored /\ shownA1[i][k] \in i..(i + 2)
       /\ \A j \in DOMAIN shownA1 : i < j => shownA1[i][k] <= shownA1[j][k]

(***************************************************************************)
(* LastShown: what a stored last is shown by a1, whole, unless the chat is *)
(* being closed or a process has died.                                     *)
(***************************************************************************)
Closing == \E p \in Proc : pc[p] \in {"handler", "dead"}

LastShown ==
  pc["a"] = "room" ~>
    \/ Closing
    \/ shownA1 # <<>> /\ \A k \in Cells : Last(shownA1)[k] = Len(stored)

(***************************************************************************)
(* ChatCloses: when every process is up or has fallen, by SIGKILL or, as a *)
(* and b do when the other is gone, by leaving main without a word to its  *)
(* window, then SIGINT to any that is left ends all and leaves no IPC      *)
(* object; unless b1 fell before, as b's handler removes nothing, or a and *)
(* a1 both did.                                                            *)
(***************************************************************************)
Up(p) == p \in fallen \/ (Alive(p) /\ id[p] = "live")
Left == (IF "b1" \in fallen THEN {"msq"} ELSE {})
          \cup (IF {"a", "a1"} \subseteq fallen THEN {"shm"} ELSE {})

ChatCloses ==
  (\A p \in Proc : Up(p) /\ hstep[p] = 1) /\ (\E p \in Proc : handling[p] = "INT")
    ~> \/ \E p \in fallen : handling[p] = "INT"
       \/ exists \subseteq Left /\ \A q \in Proc : ~Alive(q)

(***************************************************************************)
(* EveryoneStarts: a and b get past the opening of the fifos.              *)
(***************************************************************************)
EveryoneStarts == <>((pc["a"] = "select" /\ id["b"] = "live") \/ Closing)

(***************************************************************************)
(* ShownOnce: a1 shows every message a has announced, once and whole.      *)
(***************************************************************************)
ShownOnce ==
  pc["a1"] = "take" /\ pc["a"] = "select" /\ message = 0 /\ ~Closing
    => shownA1 = [i \in DOMAIN stored |-> [k \in Cells |-> i]]
=============================================================================
