------------------------------ MODULE PoolStages ------------------------------
(***************************************************************************)
(* The stages in which unix/processpool grew: sendfile, then sendbigfile,  *)
(* progress_bar, timeout and zero_copy, then server_exit, the one module   *)
(* ProcessPool models.  The earlier ones have the same parent, but for the *)
(* way out.  From sendbigfile on the children are the same too; the child  *)
(* of sendfile sends one packet, looks neither at open nor at read, and    *)
(* never closes the file: its transfers are modelled call by call, with    *)
(* the child's table of descriptors, which the other stages leave alone.   *)
(***************************************************************************)
EXTENDS ProcessPool

CONSTANTS Stages,
          Room      \* descriptors a child can open besides the connection

ASSUME StagesAssumption ==
  /\ Stages \subseteq {"sendfile", "timeout", "server_exit"}
  /\ Room \in Nat

VARIABLES stage,
          call,  \* the call a child's transfer has come to
          fd,    \* whether open gave the child a descriptor
          used,  \* descriptors of its table a child has taken
          got    \* history: what each child has sent each client

fileVars == <<call, fd, used, got>>
allVars == <<vars, fileVars, stage>>

StagesInit ==
  /\ Init
  /\ stage \in Stages
  /\ call = [j \in Children |-> "open"]
  /\ fd = [j \in Children |-> FALSE]
  /\ used = [j \in Children |-> 0]
  /\ got = [j \in Children |-> [c \in Clients |-> "nothing"]]

\* recvmsg puts the connection into the child's table.
recvConn(j) ==
  /\ recvfd(j)
  /\ used' = [used EXCEPT ![j] = IF Head(down[j]) = ExitMsg THEN @ ELSE @ + 1]
  /\ UNCHANGED <<call, fd, got>>

\* fd is -1 when the file is missing or the table is full; no one looks.
openFile(j) ==
  /\ cpc[j] = "send" /\ call[j] = "open"
  /\ call' = [call EXCEPT ![j] = "packets"]
  /\ LET opens == fileOk /\ used[j] <= Room IN
       /\ fd' = [fd EXCEPT ![j] = opens]
       /\ used' = [used EXCEPT ![j] = IF opens THEN @ + 1 ELSE @]
  /\ UNCHANGED <<vars, got>>

\* Name and one packet: read of -1 returns -1, which makes a stub of three bytes.
sendPackets(j) ==
  /\ cpc[j] = "send" /\ call[j] = "packets"
  /\ call' = [call EXCEPT ![j] = "close"]
  /\ got' = [got EXCEPT ![j][confd[j]] = IF fd[j] THEN "file" ELSE "stub"]
  /\ UNCHANGED <<vars, fd, used>>

\* Only a client that is gone makes a send fail, or raise SIGPIPE.
packetsFail(j) ==
  /\ call[j] = "packets" /\ confd[j] \in gone
  /\ sendFails(j)
  /\ UNCHANGED fileVars

closed(j) ==
  /\ call[j] = "close"
  /\ C(j, "send", "report")
  /\ cstate' = [cstate EXCEPT ![confd[j]] = "served"]
  /\ confd' = [confd EXCEPT ![j] = NoClient]
  /\ UNCHANGED <<parentVars, pairVars, envVars>>
  /\ call' = [call EXCEPT ![j] = "open"]
  /\ fd' = [fd EXCEPT ![j] = FALSE]
  /\ UNCHANGED got

\* Mutant: close(confd) is left out, as close(fd) is.
NeitherClosed(j) == closed(j) /\ UNCHANGED used

\* close(confd); fd goes out of scope, still open.
closeConn(j) == closed(j) /\ used' = [used EXCEPT ![j] = @ - 1]

\* child_handle of stage sendfile.
send_child(j) == \/ recvConn(j)
                 \/ recvEof(j) /\ UNCHANGED fileVars
                 \/ openFile(j) \/ sendPackets(j) \/ packetsFail(j) \/ closeConn(j)
                 \/ report(j) /\ UNCHANGED fileVars

\* child_handle of the stages from sendbigfile to timeout.
bigfile_child(j) == child_handle(j) /\ UNCHANGED fileVars

Child(j) == \/ stage = "sendfile" /\ send_child(j)
            \/ stage # "sendfile" /\ bigfile_child(j)

\* parent_epoll without an exit pipe; its timeout is not compiled in.
early_parent_epoll == dispatch \/ \E j \in Children : childEvent(j)

Users == \/ \E c \in Clients : Connect(c) \/ Leave(c)
         \/ RemoveFile

StagesNext ==
  /\ \/ stage = "server_exit" /\ Next /\ UNCHANGED fileVars
     \/ stage # "server_exit" /\ \E j \in Children : Child(j)
     \/ stage # "server_exit" /\ (early_parent_epoll \/ Users) /\ UNCHANGED fileVars
  /\ UNCHANGED stage

StagesSpec == StagesInit /\ [][StagesNext]_allVars

\* As in ProcessPool.
FairStagesSpec == StagesSpec /\ ParentFairness /\ \A j \in Children : WF_<<vars, fileVars>>(Child(j))

-----------------------------------------------------------------------------
(***************************************************************************)
(* Delivered: a child of stage sendfile loses one descriptor for each      *)
(* client it gives the file to, and nothing else.  So every connection it  *)
(* is handed finds a place in its table, however many it has served and    *)
(* whatever interrupts the others; and a client is sent three bytes for    *)
(* the file only when the file is gone, or by a child that has itself      *)
(* given away as many as it could open.                                    *)
(***************************************************************************)
Given(j) == {c \in Clients : got[j][c] = "file"}
Serves(j) == IF cpc[j] = "send" THEN 1 ELSE 0
Opened(j) == IF fd[j] /\ call[j] = "packets" THEN 1 ELSE 0

Delivered ==
  stage = "sendfile" =>
    \A j \in Children :
      /\ used[j] <= Room + 1
      /\ Alive(j) => used[j] = Cardinality(Given(j)) + Serves(j) + Opened(j)
      /\ \A c \in Clients :
           got[j][c] = "stub" => ~fileOk \/ Cardinality(Given(j)) = Room
=============================================================================
