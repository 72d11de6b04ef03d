---------------------------- MODULE FileTransfer -----------------------------
(***************************************************************************)
(* One transfer of the process pool: sendbigfile in a child of the server, *)
(* recvfile in the client, and the TCP stream between them, which may      *)
(* deliver what was sent in pieces of any size.  A packet is a length,     *)
(* SizeT bytes long, and that many bytes: the name of the file, its size,  *)
(* the file in chunks, and an empty packet.  The stages sendbigfile and    *)
(* timeout send no size; from progress_bar on it is sent, and drawn.       *)
(*                                                                         *)
(* The client receives into a struct train, the bytes of data_len followed *)
(* by those of buf, modelled as mem.  What the code does not initialise    *)
(* starts as zeros or as Garbage.                                          *)
(***************************************************************************)
EXTENDS Integers, Sequences

CONSTANTS Files,     \* what the file may hold when it is sent
          FILENAME,
          SizeT,     \* sizeof(size_t), sizeof(off_t)
          BufSize,   \* sizeof(train.buf)
          Garbage,   \* a byte
          MayDie     \* whether the server may be killed

Byte == 0..255

\* A size_t as its bytes, least significant byte first: those left after k.
Shifted(n) ==
  LET rest[k \in 0..SizeT] == IF k = 0 THEN n ELSE rest[k - 1] \div 256
  IN rest

Bytes(n) == [k \in 1..SizeT |-> Shifted(n)[k - 1] % 256]

Fits(n) == Shifted(n)[SizeT] = 0

ASSUME TransferAssumption ==
  /\ SizeT \in Nat \ {0}
  /\ BufSize \in Nat /\ BufSize >= SizeT
  /\ Files \subseteq Seq(Byte)
  /\ FILENAME \in Seq(Byte \ {0}) /\ Len(FILENAME) \in 1..(BufSize - 1)
  /\ \A n \in 0..BufSize \cup {Len(f) : f \in Files} : Fits(n)
  /\ Garbage \in Byte /\ MayDie \in BOOLEAN

VARIABLES
  sized,            \* whether this stage sends the size
  file, fpos,       \* the file, and how much of it was read
  sstage, spart,    \* which packet the server sends, and which half of it
  spac,             \* its bytes
  wire,             \* sent and not received
  rpc,              \* how the client ended, or "run"
  rstage, rpart,    \* which packet the client expects, and which half of it
  len, totalrecv, p,   \* recvbuf
  mem,              \* the train being received
  filename, filesize, out,  \* what the client has made of it
  pieces, split     \* history: recvs in this recvbuf; whether any had more than two

sendVars == <<sized, file, fpos, sstage, spart, spac>>
bufVars == <<len, totalrecv, p, pieces>>
resultVars == <<filename, filesize, out>>
vars == <<sendVars, wire, rpc, rstage, rpart, bufVars, mem, resultVars, split>>

\* The size_t whose bytes are at a place of the train.
Value(at) ==
  LET v[k \in 0..SizeT] == IF k = SizeT THEN 0 ELSE mem[at + k] + 256 * v[k + 1]
  IN v[0]

Cells == 0..(SizeT + BufSize - 1)
Fresh(g, h) == [k \in Cells |-> IF k < SizeT THEN g ELSE h]

Init ==
  /\ sized \in BOOLEAN
  /\ file \in Files /\ fpos = 0
  /\ sstage = "name" /\ spart = "len" /\ spac = FILENAME
  /\ wire = <<>>
  /\ rpc = "run" /\ rstage = "name" /\ rpart = "len"
  /\ len = SizeT /\ totalrecv = 0 /\ p = 0 /\ pieces = 0
  /\ \E g \in {0, Garbage} : mem = Fresh(g, 0)
  /\ filename = <<>> /\ filesize = 0 /\ out = <<>>
  /\ split = FALSE

-----------------------------------------------------------------------------
(* The server's child.                                                     *)

Sending == sstage \in {"name", "size", "file"}

\* read(fd, data.buf, sizeof(data.data_len)) from position at
Chunk(at) == SubSeq(file, at + 1, IF at + SizeT < Len(file) THEN at + SizeT ELSE Len(file))

sendLen ==
  /\ Sending /\ spart = "len"
  /\ wire' = wire \o Bytes(Len(spac))
  /\ spart' = "buf"
  /\ UNCHANGED <<sized, file, fpos, sstage, spac, rpc, rstage, rpart, bufVars, mem, resultVars, split>>

\* The second send of sendpac, and what sendbigfile goes on to.
sendBuf ==
  /\ Sending /\ spart = "buf"
  /\ wire' = wire \o spac
  /\ spart' = "len"
  /\ \/ /\ sstage = "name" /\ sized
        /\ sstage' = "size" /\ spac' = Bytes(Len(file))
        /\ UNCHANGED fpos
     \/ /\ \/ sstage = "size"
           \/ sstage = "name" /\ ~sized
           \/ sstage = "file" /\ spac # <<>>
        /\ sstage' = "file" /\ spac' = Chunk(fpos)
        /\ fpos' = fpos + Len(Chunk(fpos))
     \/ /\ sstage = "file" /\ spac = <<>>
        /\ sstage' = "done"
        /\ UNCHANGED <<fpos, spac>>
  /\ UNCHANGED <<sized, file, rpc, rstage, rpart, bufVars, mem, resultVars, split>>

Die ==
  /\ MayDie /\ Sending
  /\ sstage' = "dead"
  /\ UNCHANGED <<sized, file, fpos, spart, spac, wire, rpc, rstage, rpart, bufVars, mem, resultVars, split>>

-----------------------------------------------------------------------------
(* The client.                                                             *)

base == IF rpart = "len" THEN 0 ELSE SizeT

Store(at, s) == [k \in Cells |-> IF k \in at..(at + Len(s) - 1) THEN s[k - at + 1] ELSE mem[k]]

\* Mutants: recv is asked for len bytes again; p stays where it is.
AskedAgain == len
AdvanceNot(total) == 0

Asked == len - totalrecv
Advance(total) == total

\* One recv of recvbuf.  Note p += totalrecv.
recv ==
  /\ rpc = "run"
  /\ totalrecv < len
  /\ \E n \in 1..Len(wire) :
       /\ n <= Asked
       /\ wire' = SubSeq(wire, n + 1, Len(wire))
       /\ totalrecv' = totalrecv + n
       /\ p' = p + Advance(totalrecv')
       /\ \/ /\ base + p + n <= SizeT + BufSize
             /\ mem' = Store(base + p, SubSeq(wire, 1, n))
             /\ UNCHANGED rpc
          \/ /\ base + p + n > SizeT + BufSize
             /\ rpc' = "undefined"
             /\ UNCHANGED mem
  /\ pieces' = pieces + 1
  /\ split' = (split \/ pieces = 2)
  /\ UNCHANGED <<sendVars, rstage, rpart, len, resultVars>>

\* recv returns 0 once the server has closed, and recvbuf asks again for ever.
recvEof ==
  /\ rpc = "run"
  /\ totalrecv < len
  /\ wire = <<>> /\ ~Sending
  /\ rpc' = "spin"
  /\ UNCHANGED <<sendVars, wire, rstage, rpart, bufVars, mem, resultVars, split>>

\* recvbuf is done: the next one receives n bytes.
NextBuf(part, n) ==
  /\ rpart' = part
  /\ len' = n /\ totalrecv' = 0 /\ p' = 0 /\ pieces' = 0

Received(stage, part) ==
  /\ rpc = "run" /\ rstage = stage /\ rpart = part
  /\ totalrecv >= len

recvpac ==
  /\ \E stage \in {"name", "size", "file"} : Received(stage, "len")
  /\ NextBuf("buf", Value(0))
  /\ UNCHANGED <<sendVars, wire, rpc, rstage, mem, resultVars, split>>

\* open(filename.buf): the bytes up to the first zero.
openFile ==
  /\ Received("name", "buf")
  /\ \E n \in 0..BufSize :
       /\ \A k \in 0..(n - 1) : mem[SizeT + k] # 0
       /\ n = BufSize \/ mem[SizeT + n] = 0
       /\ filename' = [k \in 1..n |-> mem[SizeT + k - 1]]
  /\ rstage' = IF sized THEN "size" ELSE "file"
  /\ \E g \in {0, Garbage} : mem' = Fresh(g, 0)
  /\ NextBuf("len", SizeT)
  /\ UNCHANGED <<sendVars, wire, rpc, filesize, out, split>>

\* progress_bar receives the chunks into the same train, zero_copy and
\* server_exit into another.
takeSize ==
  /\ Received("size", "buf")
  /\ filesize' = Value(SizeT)
  /\ rstage' = "file"
  /\ mem' = mem \/ \E g, h \in {0, Garbage} : mem' = Fresh(g, h)
  /\ NextBuf("len", SizeT)
  /\ UNCHANGED <<sendVars, wire, rpc, filename, out, split>>

\* Mutant: the empty packet is not looked for.
EndNever == FALSE

End == Value(0) = 0

\* The progress bar, in the loop and after it, divides by the size of the file.
Draw(done) == IF sized /\ filesize = 0 THEN "sigfpe" ELSE done

writeChunk ==
  /\ Received("file", "buf")
  /\ ~End
  /\ out' = out \o [k \in 1..Value(0) |-> IF k <= BufSize THEN mem[SizeT + k - 1] ELSE Garbage]
  /\ rpc' = Draw("run")
  /\ NextBuf("len", SizeT)
  /\ UNCHANGED <<sendVars, wire, rstage, mem, filename, filesize, split>>

endFile ==
  /\ Received("file", "buf")
  /\ End
  /\ rpc' = Draw("done")
  /\ UNCHANGED <<sendVars, wire, rstage, rpart, bufVars, mem, resultVars, split>>

Server == sendLen \/ sendBuf
Client == recv \/ recvEof \/ recvpac \/ openFile \/ takeSize \/ writeChunk \/ endFile

Next == Server \/ Die \/ Client

\* Both processes run.
Fairness == WF_vars(Server) /\ WF_vars(Client)

Spec == Init /\ [][Next]_vars
FairSpec == Spec /\ Fairness

-----------------------------------------------------------------------------
(* Type invariant.                                                         *)
TypeOK ==
  /\ sized \in BOOLEAN
  /\ file \in Files /\ fpos \in 0..Len(file)
  /\ sstage \in {"name", "size", "file", "done", "dead"}
  /\ spart \in {"len", "buf"} /\ rpart \in {"len", "buf"}
  /\ spac \in Seq(Byte) /\ Len(spac) < BufSize + 1
  /\ wire \in Seq(Byte)
  /\ rpc \in {"run", "spin", "done", "sigfpe", "undefined"}
  /\ rstage \in {"name", "size", "file"}
  /\ len \in Nat /\ totalrecv \in 0..len /\ p \in Nat /\ pieces \in Nat
  /\ mem \in [Cells -> Byte]
  /\ filename \in Seq(Byte) /\ filesize \in Nat /\ out \in Seq(Byte)
  /\ split \in BOOLEAN

(***************************************************************************)
(* IntactUnlessSplit: unless some recvbuf got its bytes in more than two   *)
(* pieces, whatever the pieces were and whatever the uninitialised memory  *)
(* held, the client stays within its buffer, the name and size it acts on  *)
(* are those sent, what it has written is the beginning of the file, and   *)
(* when it ends it has all of it.  It asks a closed connection for more    *)
(* only if the server died in the middle.                                  *)
(***************************************************************************)
IntactUnlessSplit ==
  ~split =>
    /\ rpc # "undefined"
    /\ rstage # "name" => filename = FILENAME
    /\ rstage = "file" /\ sized => filesize = Len(file)
    /\ out = SubSeq(file, 1, Len(out))
    /\ rpc \in {"done", "sigfpe"} => out = file
    /\ rpc = "spin" => sstage = "dead"

(***************************************************************************)
(* Finishes: while the server lives the client gets to the end of the      *)
(* file, unless split; when it is empty the progress bar ends it, SIGFPE.  *)
(***************************************************************************)
Finishes == <>(rpc \in {"done", "sigfpe"} \/ sstage = "dead" \/ split)

(***************************************************************************)
(* FileIntact: the file received is the file sent (recvfile.c, "recv       *)
(* file"), however TCP cuts the stream.                                    *)
(***************************************************************************)
FileIntact == rpc = "done" => out = file
=============================================================================
