------------------------------ MODULE PipeChat -------------------------------
(***************************************************************************)
(* The two chats over two fifos: ipc/pipe/chat, where each process selects *)
(* over its standard input and the fifo it reads, and ipc/pipe/fullduplex, *)
(* where the two take turns, each reading a line from its user and then    *)
(* one from the other.                                                     *)
(*                                                                         *)
(* Lines are counted, not spelt; an empty one is not sent, for it has      *)
(* strlen(str) - 1 = 0 bytes.  A process that is gone has closed its fifos.*)
(***************************************************************************)
EXTENDS Integers

CONSTANTS Programs,
          MaxTyped,  \* bound: lines typed at each
          BufLines   \* lines that fit str

chat1 == "chat1"
chat2 == "chat2"
Persons == {chat1, chat2}
Peer(p) == IF p = chat1 THEN chat2 ELSE chat1

VARIABLES
  program,
  opened,    \* fifos each has opened
  place,     \* "open", "select", "stdin", "fdr", or how it ended
  set,       \* what select reported
  pipe,      \* lines on their way to each
  typed, shown,
  empty      \* history: who has typed an empty line

vars == <<program, opened, place, set, pipe, typed, shown, empty>>

Init ==
  /\ program \in Programs
  /\ opened = [p \in Persons |-> 0]
  /\ place = [p \in Persons |-> "open"]
  /\ set = [p \in Persons |-> {}]
  /\ pipe = [p \in Persons |-> 0]
  /\ typed = [p \in Persons |-> 0] /\ shown = [p \in Persons |-> 0]
  /\ empty = {}

Gone(p) == place[p] \in {"closed", "chat end", "killed", "interrupted"}
Go(p, there) == place' = [place EXCEPT ![p] = there]

-----------------------------------------------------------------------------
\* Mutant: chat2 opens the other fifo first.
OrderSwapped(p) == IF p = chat1 THEN <<"first", "second">> ELSE <<"second", "first">>

\* argv[1] and argv[2] name the fifos in the same order for both.
Order(p) == IF p = chat1 THEN <<"first", "second">> ELSE <<"first", "second">>

\* Each open waits until the other end is opened.
open(p) ==
  /\ place[p] = "open"
  /\ LET fifo == Order(p)[opened[p] + 1]
         q == Peer(p)
         tried == IF place[q] = "open" THEN 1..(opened[q] + 1) ELSE 1..opened[q]
     IN \E k \in tried : Order(q)[k] = fifo
  /\ opened' = [opened EXCEPT ![p] = @ + 1]
  /\ Go(p, IF opened[p] = 0 THEN "open" ELSE IF program = "pipe/chat" THEN "select" ELSE "stdin")
  /\ UNCHANGED <<program, set, pipe, typed, shown, empty>>

Readable(p) == pipe[p] > 0 \/ Gone(Peer(p))

\* chat1's select also returns after 2.5 s, with nothing set.
select(p) ==
  /\ place[p] = "select"
  /\ \E some \in SUBSET {"stdin", "fdr"} :
       /\ some # {} /\ ("fdr" \in some <=> Readable(p))
       /\ set' = [set EXCEPT ![p] = some]
  /\ Go(p, "stdin")
  /\ UNCHANGED <<program, opened, pipe, typed, shown, empty>>

write(p) ==
  \/ ~Gone(Peer(p)) /\ pipe' = [pipe EXCEPT ![Peer(p)] = @ + 1] /\ Go(p, "fdr")
  \/ Gone(Peer(p)) /\ Go(p, "killed") /\ UNCHANGED pipe        \* SIGPIPE

\* The end of the input ends the chat; in fullduplex it is as an empty line:
\* strlen(str) - 1 wraps round, and the write fails.
stdin(p) ==
  /\ place[p] = "stdin"
  /\ program = "pipe/chat" => "stdin" \in set[p]
  /\ \/ /\ typed[p] < MaxTyped /\ typed' = [typed EXCEPT ![p] = @ + 1]
        /\ write(p)
        /\ UNCHANGED empty
     \/ /\ typed[p] < MaxTyped
        /\ empty' = empty \cup {p} /\ Go(p, "fdr")
        /\ UNCHANGED <<typed, pipe>>
     \/ /\ program = "pipe/chat" /\ Go(p, "closed")
        /\ UNCHANGED <<typed, pipe, empty>>
  /\ UNCHANGED <<program, opened, set, shown>>

NoLine(p) ==
  /\ program = "pipe/chat" /\ place[p] = "stdin" /\ "stdin" \notin set[p]
  /\ Go(p, "fdr")
  /\ UNCHANGED <<program, opened, set, pipe, typed, shown, empty>>

Taken(p) == IF pipe[p] < BufLines THEN pipe[p] ELSE BufLines

\* Mutant: fullduplex reads again before its user may answer.
AgainReads == IF program = "pipe/chat" THEN "select" ELSE "fdr"

Again == IF program = "pipe/chat" THEN "select" ELSE "stdin"

\* Mutant: the other's end is taken for the end of what it said.
EofEarly(p) == Gone(Peer(p))

Eof(p) == pipe[p] = 0 /\ Gone(Peer(p))

\* read and puts.  fullduplex takes no notice of an end of file.
fdr(p) ==
  /\ place[p] = "fdr"
  /\ program = "pipe/chat" => "fdr" \in set[p]
  /\ Readable(p)
  /\ \/ /\ ~Eof(p) \/ program # "pipe/chat"
        /\ shown' = [shown EXCEPT ![p] = @ + Taken(p)]
        /\ pipe' = [pipe EXCEPT ![p] = @ - Taken(p)]
        /\ Go(p, Again)
     \/ /\ Eof(p) /\ program = "pipe/chat"
        /\ Go(p, "chat end")
        /\ UNCHANGED <<shown, pipe>>
  /\ UNCHANGED <<program, opened, set, typed, empty>>

NoNews(p) ==
  /\ program = "pipe/chat" /\ place[p] = "fdr" /\ "fdr" \notin set[p]
  /\ Go(p, "select")
  /\ UNCHANGED <<program, opened, set, pipe, typed, shown, empty>>

Interrupt(p) ==
  /\ ~Gone(p) /\ Go(p, "interrupted")
  /\ UNCHANGED <<program, opened, set, pipe, typed, shown, empty>>

-----------------------------------------------------------------------------
Next == \E p \in Persons : \/ open(p) \/ select(p) \/ stdin(p) \/ NoLine(p)
                           \/ fdr(p) \/ NoNews(p) \/ Interrupt(p)
Spec == Init /\ [][Next]_vars

\* A process goes on when it can without its user.
Runs(p) == \/ open(p) \/ NoLine(p) \/ fdr(p) \/ NoNews(p)
           \/ Readable(p) /\ select(p)
           \/ program = "pipe/chat" /\ stdin(p)
FairSpec == Spec /\ \A p \in Persons : WF_vars(Runs(p))

-----------------------------------------------------------------------------
(* Type invariant.                                                         *)
TypeOK ==
  /\ program \in Programs
  /\ opened \in [Persons -> 0..2]
  /\ \A p \in Persons : Gone(p) \/ place[p] \in {"open", "select", "stdin", "fdr"}
  /\ set \in [Persons -> SUBSET {"stdin", "fdr"}]
  /\ pipe \in [Persons -> 0..MaxTyped]
  /\ typed \in [Persons -> 0..MaxTyped] /\ shown \in [Persons -> 0..MaxTyped]
  /\ empty \subseteq Persons

(***************************************************************************)
(* LastWords: who sees the chat end has seen everything the other said,    *)
(* although the line and the end of the other come in the same select.     *)
(***************************************************************************)
LastWords ==
  \A p \in Persons : place[p] = "chat end" => shown[p] = typed[Peer(p)]

(***************************************************************************)
(* TurnsGoOn: the two of fullduplex wait for each other for good only when *)
(* one has typed an empty line: that is not sent, and was its answer.      *)
(***************************************************************************)
TurnsGoOn ==
  program = "pipe/fullduplex" /\ (\A p \in Persons : place[p] = "fdr" /\ pipe[p] = 0)
    => empty # {}

(***************************************************************************)
(* PartTogether: when one of chat's two goes, so does the other, by the    *)
(* end of file or by SIGPIPE, unless it never got its fifos open.          *)
(***************************************************************************)
Left(p) == Gone(p) /\ opened[Peer(p)] = 2
PartTogether ==
  \A p \in Persons : program = "pipe/chat" /\ Left(p) ~> Gone(Peer(p))

(***************************************************************************)
(* BothOpen: two processes that start get both fifos open, each waiting    *)
(* for the other, whoever is first, if no one is interrupted.              *)
(***************************************************************************)
Opened == (\A p \in Persons : opened[p] = 2) \/ (\E p \in Persons : Gone(p))
BothOpen == <>Opened
=============================================================================
