------------------------------ MODULE Download -------------------------------
(***************************************************************************)
(* Four ways to fetch the file from a server, each by the code of the      *)
(* client that fetches it:                                                 *)
(*   packet  processpool/sendfile: the first BufLen bytes, by one recv     *)
(*   stream  threadpool/client: as many recvs as the file's size takes     *)
(*   mmap    zero_copy's recvfilemmap: one recv into a mapped file         *)
(*   splice  zero_copy's recvfilesplice: socket to pipe, pipe to file      *)
(* The server sends the file's name, then its size (in packet the length   *)
(* of what follows), then its bytes, of which any number may come at once; *)
(* name and size are taken to come whole.  It may be killed at any time.   *)
(* mmap and splice are what the lines that sendbigfile and recvfile have   *)
(* in comments would do: the running stages take recvfilepac's way, which  *)
(* is FileTransfer's.                                                      *)
(*                                                                         *)
(* threadpool's client copies 4 of the 8 bytes of the size into a variable *)
(* that is not initialised: it may take the size for more, or for negative.*)
(***************************************************************************)
EXTENDS Integers

CONSTANTS Programs, Files, \* the sizes of file to try
          BufLen           \* sizeof(data.buf)

VARIABLES
  program,
  file,        \* its size
  server,      \* "name", "size", "data", "idle", "closed" or "killed"
  sent,        \* bytes of the file it has sent
  link,        \* what the client has not received: headers and bytes
  client,      \* "name", "size", "data", "spliced", "done", "failed", "SIGFPE", "spins"
  filesize,    \* what the client takes for the size
  disk,        \* bytes of the file the client has stored
  stale,       \* bytes it has stored that are not the file's
  cut          \* history: a recv gave less than was asked for and no other follows

vars == <<program, file, server, sent, link, client, filesize, disk, stale, cut>>

Smaller(a, b) == IF a < b THEN a ELSE b
Length == IF program = "packet" THEN Smaller(file, BufLen) ELSE file

Init ==
  /\ program \in Programs /\ file \in Files
  /\ server = "name" /\ sent = 0
  /\ link = [headers |-> 0, bytes |-> 0]
  /\ client = "name" /\ filesize = 0
  /\ disk = 0 /\ stale = 0 /\ cut = FALSE

-----------------------------------------------------------------------------
(* The server.                                                             *)

SendHeader(here, there) ==
  /\ server = here /\ server' = there
  /\ link' = [link EXCEPT !.headers = @ + 1]
  /\ UNCHANGED <<program, file, sent, client, filesize, disk, stale, cut>>

sendName == SendHeader("name", "size")
sendSize == SendHeader("size", "data")

sendData ==
  /\ server = "data" /\ sent < Length
  /\ sent' = sent + 1
  /\ link' = [link EXCEPT !.bytes = @ + 1]
  /\ UNCHANGED <<program, file, server, client, filesize, disk, stale, cut>>

\* A worker of the thread pool keeps the connection: it goes with the server.
sendEnd ==
  /\ server = "data" /\ sent = Length
  /\ server' = IF program = "stream" THEN "idle" ELSE "closed"
  /\ UNCHANGED <<program, file, sent, link, client, filesize, disk, stale, cut>>

Kill ==
  /\ server \notin {"closed", "killed"} /\ server' = "killed"
  /\ UNCHANGED <<program, file, sent, link, client, filesize, disk, stale, cut>>

-----------------------------------------------------------------------------
(* The client.                                                             *)

Eof == link.headers = 0 /\ link.bytes = 0 /\ server \in {"closed", "killed"}

\* recvbuf knows no end of file and asks for ever; packet's open has no name.
recvName ==
  /\ client = "name"
  /\ \/ link.headers > 0 /\ link' = [link EXCEPT !.headers = @ - 1] /\ client' = "size"
     \/ Eof /\ client' = (IF program = "packet" THEN "failed" ELSE "spins") /\ UNCHANGED link
  /\ UNCHANGED <<program, file, server, sent, filesize, disk, stale, cut>>

\* What the client takes for the size; a larger one stands for all.
TakenSize == {Length} \cup IF program = "stream" THEN {Length + 1, -1} ELSE {}

\* At the end of file packet keeps the length of the name, and writes that.
recvSize ==
  /\ client = "size"
  /\ \/ /\ link.headers > 0 /\ link' = [link EXCEPT !.headers = @ - 1]
        /\ filesize' \in TakenSize
        /\ client' = "data"
        /\ UNCHANGED <<stale, cut>>
     \/ /\ Eof /\ program = "packet"
        /\ client' = "done" /\ stale' = 1 /\ cut' = TRUE
        /\ UNCHANGED <<link, filesize>>
     \/ /\ Eof /\ program # "packet"
        /\ client' = "spins"
        /\ UNCHANGED <<link, filesize, stale, cut>>
  /\ UNCHANGED <<program, file, server, sent, disk>>

\* What a recv of at most n bytes may give; 0 at the end of file.
Recv(n) == {k \in 0..n : k <= link.bytes /\ (k = 0 <=> n = 0 \/ Eof)}
Take(k) == link' = [link EXCEPT !.bytes = @ - k]

\* One recv, and all that was asked for is stored, or mapped.
recvOnce ==
  /\ client = "data" /\ program \in {"packet", "mmap"}
  /\ link.headers = 0
  /\ \E k \in Recv(filesize) :
       /\ Take(k) /\ disk' = k /\ stale' = filesize - k
       /\ cut' = (k < filesize)
  /\ client' = "done"
  /\ UNCHANGED <<program, file, server, sent, filesize>>

\* Mutant: the buffer is stored whole.
StoredWhole(k) == disk + BufLen

Stored(k) == disk + k

recvLoop ==
  /\ client = "data" /\ program = "stream" /\ disk < filesize
  /\ \E k \in Recv(BufLen) :
       /\ Take(k) /\ disk' = Stored(k)
       /\ client' = IF k = 0 THEN "done" ELSE client
       /\ cut' = (k = 0)
  /\ UNCHANGED <<program, file, server, sent, filesize, stale>>

\* From the socket to the pipe.  At the end of file the splice from the pipe,
\* which is empty and whose other end this process has open, waits for ever.
splice ==
  /\ client = "data" /\ program = "splice" /\ disk < filesize
  /\ \E k \in Recv(filesize) :
       /\ Take(k) /\ disk' = Stored(k)
       /\ client' = IF k = 0 THEN "spliced" ELSE client
  /\ UNCHANGED <<program, file, server, sent, filesize, stale, cut>>

\* Mutants: one byte early, one late.
ReachedEarly == disk >= filesize - 1
ReachedLate == disk > filesize

Reached == disk >= filesize

\* stream's progress bar divides by the size.
recvEnd ==
  /\ client = "data" /\ program \in {"stream", "splice"} /\ Reached
  /\ client' = IF program = "stream" /\ filesize = 0 THEN "SIGFPE" ELSE "done"
  /\ UNCHANGED <<program, file, server, sent, link, filesize, disk, stale, cut>>

-----------------------------------------------------------------------------
Server == sendName \/ sendSize \/ sendData \/ sendEnd
Client == recvName \/ recvSize \/ recvOnce \/ recvLoop \/ splice \/ recvEnd
Next == Server \/ Client \/ Kill

Spec == Init /\ [][Next]_vars

\* Both run; nothing need be killed.
FairSpec == Spec /\ WF_vars(Server) /\ WF_vars(Client)

-----------------------------------------------------------------------------
(* Type invariant.                                                         *)
TypeOK ==
  /\ program \in Programs /\ file \in Files
  /\ server \in {"name", "size", "data", "idle", "closed", "killed"}
  /\ link.headers \in 0..2 /\ link.bytes \in 0..file /\ sent \in 0..file
  /\ client \in {"name", "size", "data", "spliced", "done", "failed", "SIGFPE", "spins"}
  /\ filesize \in -1..(file + 1) /\ disk \in 0..file /\ stale \in Nat
  /\ cut \in BOOLEAN

(***************************************************************************)
(* NothingInvented: what the clients that ask again store is what was sent,*)
(* in any pieces; those that ask once pad it with what was in the buffer.  *)
(***************************************************************************)
NothingInvented ==
  /\ disk + link.bytes = sent
  /\ stale > 0 => program \in {"packet", "mmap"} /\ cut

(***************************************************************************)
(* WholeFile: a client that has finished has the file, but for what packet *)
(* never sends, unless a recv was cut or the size was taken for another.   *)
(***************************************************************************)
WholeFile ==
  client = "done" => cut \/ filesize # Length \/ disk = Smaller(file, Length)

(***************************************************************************)
(* Finishes: the client finishes unless the server is killed or the size   *)
(* was taken for more, when it waits for as long as the server runs; an    *)
(* empty file ends it by a division by zero.                               *)
(***************************************************************************)
Finished == \/ client = "done"
            \/ client = "SIGFPE" /\ file = 0
            \/ server = "killed"
            \/ filesize > file
Finishes == <>Finished
=============================================================================
