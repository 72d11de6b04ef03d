------------------------------- MODULE SendFd --------------------------------
(***************************************************************************)
(* sendfd/sendfd.c: a parent opens a file, writes a word into it, goes     *)
(* back to its beginning and sends the descriptor to its child, which      *)
(* reads the file.  The descriptor the child gets is of the same open      *)
(* file: one offset serves both.  If there is no file, write, lseek and    *)
(* sendmsg fail with the descriptor -1; the parent returns, and the child, *)
(* whose recvmsg finds the socket at its end, takes the zeroes of calloc   *)
(* for a descriptor: that of its own standard input.                       *)
(***************************************************************************)
EXTENDS Naturals, Sequences

CONSTANTS Files,   \* what may be in the file before: sequences of "old"
          Word,    \* length of the word, 10
          BufLen   \* of the child's buf, 64

VARIABLES
  exists,   \* is there a file?
  file,     \* what is in it: who wrote each byte, "old" or "parent"
  offset,   \* of the open file
  parent,   \* the call it is at, or "ended"
  child,
  socket,   \* descriptors on their way
  fd,       \* what the child has for the file
  buf

vars == <<exists, file, offset, parent, child, socket, fd, buf>>

Init ==
  /\ exists \in BOOLEAN /\ file \in Files
  /\ offset = 0 /\ parent = "write" /\ child = "recvmsg"
  /\ socket = <<>> /\ fd = "none" /\ buf = <<>>

Longer(m, n) == IF m > n THEN m ELSE n
Shorter(m, n) == IF m < n THEN m ELSE n
Written == [k \in 1..Longer(Len(file), offset + Word) |->
              IF k \in offset + 1..offset + Word THEN "parent" ELSE file[k]]

write ==
  /\ parent = "write" /\ parent' = "lseek"
  /\ \/ exists /\ file' = Written /\ offset' = offset + Word
     \/ ~exists /\ UNCHANGED <<file, offset>>
  /\ UNCHANGED <<exists, child, socket, fd, buf>>

\* Mutant: the offset stays behind the word.
lseekNot == parent = "lseek" /\ parent' = "sendmsg" /\ UNCHANGED <<exists, file, offset, child, socket, fd, buf>>

lseek ==
  /\ parent = "lseek" /\ parent' = "sendmsg" /\ offset' = 0
  /\ UNCHANGED <<exists, file, child, socket, fd, buf>>

sendfd ==
  /\ parent = "sendmsg"
  /\ \/ exists /\ parent' = "wait" /\ socket' = <<"file">>
     \/ ~exists /\ parent' = "ended" /\ UNCHANGED socket
  /\ UNCHANGED <<exists, file, offset, child, fd, buf>>

wait ==
  /\ parent = "wait" /\ child = "ended" /\ parent' = "ended"
  /\ UNCHANGED <<exists, file, offset, child, socket, fd, buf>>

\* Mutant: the child does not wait for the message.
AnyTime == TRUE

\* A message has come, or the parent's end is closed.
Readable == socket # <<>> \/ parent = "ended"

recvfd ==
  /\ child = "recvmsg" /\ child' = "read" /\ Readable
  /\ fd' = IF socket = <<>> THEN "stdin" ELSE Head(socket)
  /\ socket' = <<>>
  /\ UNCHANGED <<exists, file, offset, parent, buf>>

read ==
  /\ child = "read" /\ fd = "file" /\ child' = "ended"
  /\ buf' = SubSeq(file, offset + 1, Shorter(Len(file), offset + BufLen))
  /\ offset' = offset + Len(buf')
  /\ UNCHANGED <<exists, file, parent, socket, fd>>

\* Who sits there types a line; nobody must.
readInput ==
  /\ child = "read" /\ fd = "stdin" /\ child' = "ended" /\ buf' = <<"typed">>
  /\ UNCHANGED <<exists, file, offset, parent, socket, fd>>

Parent == write \/ lseek \/ sendfd \/ wait
Child == recvfd \/ read
Next == Parent \/ Child \/ readInput
Spec == Init /\ [][Next]_vars
FairSpec == Spec /\ WF_vars(Parent) /\ WF_vars(Child)

-----------------------------------------------------------------------------
(* Type invariant.                                                         *)
TypeOK ==
  /\ exists \in BOOLEAN
  /\ file \in Seq({"old", "parent"}) /\ offset \in Nat
  /\ parent \in {"write", "lseek", "sendmsg", "wait", "ended"}
  /\ child \in {"recvmsg", "read", "ended"}
  /\ socket \in {<<>>, <<"file">>} /\ fd \in {"none", "file", "stdin"}
  /\ buf \in Seq({"old", "parent", "typed"})

(***************************************************************************)
(* FileIsRead: a child that ends has read the parent's word, from the      *)
(* beginning, although the parent's own write moved the offset of the file *)
(* both have open; and what was behind the word.                           *)
(***************************************************************************)
FileIsRead ==
  child = "ended" /\ exists =>
    /\ buf = SubSeq(file, 1, Shorter(Len(file), BufLen))
    /\ \A k \in 1..Word : buf[k] = "parent"

(***************************************************************************)
(* OwnInput: only when there was no file does the child read its standard  *)
(* input for it, and then its parent did not wait for it.                  *)
(***************************************************************************)
OwnInput == fd = "stdin" => ~exists /\ parent = "ended"

(* Both end, unless the child waits for its user.                          *)
Over == parent = "ended" /\ (child = "ended" \/ fd = "stdin")
BothEnd == <>Over
=============================================================================
