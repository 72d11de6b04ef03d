-------------------------------- MODULE Fifos --------------------------------
(***************************************************************************)
(* ipc/pipe/halfduplex: write.c puts one word into a fifo, which read.c    *)
(* reads and shows.  ipc/pipe/writeset: one process has a fifo open for    *)
(* both, selects it for both, writes much and reads little in each round;  *)
(* should it ever wait, nobody is there to wake it.                        *)
(*                                                                         *)
(* A fifo is a row of Slots pages.  It is writable for select while a slot *)
(* is free; a write goes into the last page if it fits there and needs a   *)
(* free slot else.  Sizes are counted in reads of 128 bytes.               *)
(***************************************************************************)
EXTENDS Naturals, Sequences

CONSTANTS Programs,   \* of {"halfduplex", "writeset"}
          Slots,      \* pages of a fifo, 16
          Page,       \* of 4096 bytes, 32
          Much        \* what is written at once, 1024 bytes, 8

VARIABLES
  program,
  pages,    \* of the fifo: each [begin, end]
  pc,       \* where the writer, or writeset.c, is: its next call
  reader,   \* "open", "read", "ended"
  rset, wset,   \* what select returned, writeset.c
  shown     \* by read.c: "none", "word", "nothing"

vars == <<program, pages, pc, reader, rset, wset, shown>>

Init ==
  /\ program \in Programs
  /\ pages = <<>> /\ rset = FALSE /\ wset = FALSE /\ shown = "none"
  /\ pc = IF program = "writeset" THEN "select" ELSE "open"
  /\ reader = "open"

\* The opens of the two ends wait for each other.
open ==
  /\ program = "halfduplex" /\ pc = "open" /\ reader = "open"
  /\ pc' = "write" /\ reader' = "read"
  /\ UNCHANGED <<program, pages, rset, wset, shown>>

\* There is room for n more in the last page.
LastFits(n) == pages # <<>> /\ pages[Len(pages)].end + n <= Page

Put(n) ==
  pages' = IF LastFits(n)
             THEN [pages EXCEPT ![Len(pages)].end = @ + n]
             ELSE Append(pages, [begin |-> 0, end |-> n])

\* One read takes one.
Take ==
  pages' = IF Head(pages).begin + 1 = Head(pages).end THEN Tail(pages)
             ELSE [pages EXCEPT ![1].begin = @ + 1]

\* write.c: the word, then the end.
write ==
  /\ program = "halfduplex" /\ pc = "write" /\ pc' = "ended" /\ Put(1)
  /\ UNCHANGED <<program, reader, rset, wset, shown>>

\* SIGINT: write.c ends before it has written.
kill ==
  /\ program = "halfduplex" /\ pc = "write" /\ pc' = "ended"
  /\ UNCHANGED <<program, pages, reader, rset, wset, shown>>

\* Mutant: the end of the file is not waited for, nor a word.
ReadyAlways == TRUE

\* There is something to read, or nobody left who could write.
Ready == pages # <<>> \/ pc = "ended"

read ==
  /\ program = "halfduplex" /\ reader = "read" /\ Ready /\ reader' = "ended"
  /\ \/ pages # <<>> /\ Take /\ shown' = "word"
     \/ pages = <<>> /\ shown' = "nothing" /\ UNCHANGED pages
  /\ UNCHANGED <<program, pc, rset, wset>>

Free == Len(pages) < Slots

\* rset is not initialised: bits of other descriptors may make select return
\* sooner, but it never waits anyway.
select ==
  /\ program = "writeset" /\ pc = "select" /\ pc' = "write"
  /\ pages # <<>> \/ Free
  /\ rset' = (pages # <<>>) /\ wset' = Free
  /\ UNCHANGED <<program, pages, reader, shown>>

\* Does write return at once?
Fits == Free \/ LastFits(Much)

\* Mutant: written without FD_ISSET.
WriteAlways == pc = "write"

Writes == pc = "write" /\ wset

writeMuch ==
  /\ program = "writeset" /\ pc = "write" /\ pc' = "read"
  /\ \/ Writes /\ Fits /\ Put(Much)
     \/ ~Writes /\ UNCHANGED pages
  /\ UNCHANGED <<program, reader, rset, wset, shown>>

readLittle ==
  /\ program = "writeset" /\ pc = "read" /\ pc' = "select"
  /\ \/ rset /\ Take
     \/ ~rset /\ UNCHANGED pages
  /\ UNCHANGED <<program, reader, rset, wset, shown>>

Writer == open \/ write \/ select \/ writeMuch \/ readLittle
Next == Writer \/ kill \/ read
Spec == Init /\ [][Next]_vars
FairSpec == Spec /\ WF_vars(Writer) /\ WF_vars(read)

-----------------------------------------------------------------------------
(* Type invariant.                                                         *)
TypeOK ==
  /\ program \in Programs
  /\ pages \in Seq([begin : 0..Page - 1, end : 1..Page]) /\ Len(pages) <= Slots
  /\ pc \in {"open", "select", "write", "read", "ended"}
  /\ reader \in {"open", "read", "ended"}
  /\ {rset, wset} \subseteq BOOLEAN /\ shown \in {"none", "word", "nothing"}

(***************************************************************************)
(* NeverWaits: writeset.c's write never has to wait, for it would do so    *)
(* for ever: what select promises is enough for all it writes, and the     *)
(* read after the write finds something.                                   *)
(***************************************************************************)
NeverWaits ==
  program = "writeset" =>
    /\ pc = "write" /\ Writes => Fits
    /\ pc = "read" /\ rset => pages # <<>>

(***************************************************************************)
(* WordOrDeath: read.c shows the word, unless write.c was killed; it never *)
(* ends with a word still in the fifo.                                     *)
(***************************************************************************)
WordOrDeath == reader = "ended" => pages = <<>> /\ (shown = "word" \/ pc = "ended")

(***************************************************************************)
(* Filled: writeset.c, which writes more than it reads, comes to a fifo it *)
(* cannot write to, and goes on; the two of halfduplex end.                *)
(***************************************************************************)
Filled == pc = "write" /\ ~wset
Done == IF program = "writeset" THEN Filled ELSE reader = "ended"
Works == []<>Done
=============================================================================
