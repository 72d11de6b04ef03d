----------------------------- MODULE StudentList -----------------------------
(***************************************************************************)
(* filesys/read.c: students are read line by line into a linked list,      *)
(* sorted by their marks through an array of pointers, and printed.        *)
(*                                                                         *)
(* A student is the number of its line.  The memory malloc returns is new, *)
(* so the next that readInfo does not set is NULL and the list ends there. *)
(***************************************************************************)
EXTENDS Integers, Sequences

CONSTANTS Marks,
          MaxLines  \* bound: lines of the file

VARIABLES
  mark,       \* the file: the mark of each line
  whole,      \* whether the last line ends with a newline
  pc,         \* "read", "sort", "print" or "done"
  line,       \* lines readInfo has read
  list,       \* the nodes after the first, in order
  listarr,
  i, j,       \* of sortList's loops, from 1
  printed

vars == <<mark, whole, pc, line, list, listarr, i, j, printed>>

Init ==
  /\ mark \in UNION {[1..n -> Marks] : n \in 0..MaxLines}
  /\ whole \in BOOLEAN
  /\ pc = "read" /\ line = 0
  /\ list = <<>> /\ listarr = <<>>
  /\ i = 1 /\ j = 2
  /\ printed = <<>>

-----------------------------------------------------------------------------
\* Mutant: the last node is not linked to the new one.
LinkedNot(n) == <<n>>

Linked(n) == Append(list, n)

\* A line becomes a node at its newline.
readInfo ==
  /\ pc = "read" /\ line < Len(mark)
  /\ line' = line + 1
  /\ list' = IF line' < Len(mark) \/ whole THEN Linked(line') ELSE list
  /\ UNCHANGED <<mark, whole, pc, listarr, i, j, printed>>

\* The end of the file; sortList fills its array.
fill ==
  /\ pc = "read" /\ line = Len(mark)
  /\ listarr' = list
  /\ pc' = "sort"
  /\ UNCHANGED <<mark, whole, line, list, i, j, printed>>

size == Len(listarr)

\* Mutant: the inner loop's bound is size - 1.
InnerShort == i < size /\ j < size

Inner == i < size /\ j <= size

exchange(a, b) == [listarr EXCEPT ![a] = listarr[b], ![b] = listarr[a]]

Higher(a, b) == mark[listarr[a]] > mark[listarr[b]]

compare ==
  /\ pc = "sort" /\ Inner
  /\ listarr' = IF Higher(j, i) THEN exchange(i, j) ELSE listarr
  /\ j' = j + 1
  /\ UNCHANGED <<mark, whole, pc, line, list, i, printed>>

\* Mutant: i is not advanced.
AdvancedNot == i

Advanced == i + 1

nextI ==
  /\ pc = "sort" /\ ~Inner
  /\ IF i < size THEN i' = Advanced /\ j' = i' + 1 /\ UNCHANGED pc
                 ELSE pc' = "print" /\ UNCHANGED <<i, j>>
  /\ UNCHANGED <<mark, whole, line, list, listarr, printed>>

\* The array is printed and freed, then the list.
print ==
  /\ pc = "print" /\ pc' = "done"
  /\ printed' = listarr
  /\ listarr' = <<>> /\ list' = <<>>
  /\ UNCHANGED <<mark, whole, line, i, j>>

-----------------------------------------------------------------------------
Next == readInfo \/ fill \/ compare \/ nextI \/ print
Spec == Init /\ [][Next]_vars
FairSpec == Spec /\ WF_vars(Next)

-----------------------------------------------------------------------------
Lines == 1..(IF whole THEN Len(mark) ELSE Len(mark) - 1)

(* Type invariant: the indices stay inside the array, and no student is in *)
(* it twice.                                                               *)
TypeOK ==
  /\ pc \in {"read", "sort", "print", "done"}
  /\ line \in 0..Len(mark)
  /\ list \in Seq(Lines)
  /\ listarr \in Seq(Lines)
  /\ \A a, b \in 1..size : listarr[a] = listarr[b] => a = b
  /\ i \in 1..Len(mark) + 1 /\ j \in 2..(Len(mark) + 2)

(***************************************************************************)
(* Placed: after the rounds of the outer loop so far, the first places     *)
(* hold the highest marks in order, and in this round place i holds the    *)
(* highest of those it was compared with.                                  *)
(***************************************************************************)
Placed ==
  pc = "sort" =>
    /\ \A a \in 1..(i - 1) : \A b \in (a + 1)..size : ~Higher(b, a)
    /\ \A b \in (i + 1)..(j - 1) : b <= size => ~Higher(b, i)

(***************************************************************************)
(* Ranked: all students whose line ends with a newline are printed, each   *)
(* once, the higher mark before the lower.                                 *)
(***************************************************************************)
Ranked ==
  pc = "done" =>
    /\ {printed[k] : k \in 1..Len(printed)} = Lines
    /\ \A a, b \in 1..Len(printed) : a < b =>
         printed[a] # printed[b] /\ mark[printed[a]] >= mark[printed[b]]

(***************************************************************************)
(* Ends: for every file the program ends.                                  *)
(***************************************************************************)
Finished == pc = "done"
Ends == <>Finished
=============================================================================
