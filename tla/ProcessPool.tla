---------------------------- MODULE ProcessPool ------------------------------
(***************************************************************************)
(* The file server of unix/processpool/server_exit: the parent accepts     *)
(* connections and passes each to the first child it believes idle, over   *)
(* the child's socket pair; the child sends the file and reports back with *)
(* one byte; SIGUSR1, through exitpipe, makes the parent send every child  *)
(* an exit message and wait for them.  A send to a peer that is gone       *)
(* raises SIGPIPE, which neither parent nor children handle.               *)
(*                                                                         *)
(* epoll reports ready descriptors in turns, and only the parent consumes  *)
(* them, so what was ready when epoll_wait returned still is when its turn *)
(* comes: the parent is modelled as handling any ready descriptor next.    *)
(***************************************************************************)
EXTENDS Integers, Sequences, FiniteSets

CONSTANTS Clients,
          childProcessCount,  \* argv[3]
          MaxSignals,         \* bound: SIGUSR1 signals sent
          NoClient,
          ExitMsg             \* sendfd(pipefd, 0, 1)

ASSUME PoolAssumption ==
  /\ childProcessCount \in Nat \ {0}
  /\ MaxSignals \in Nat
  /\ NoClient \notin Clients
  /\ ExitMsg \notin Clients \cup {NoClient}

Children == 1..childProcessCount

VARIABLES
  ppc,          \* where the parent is in parent_epoll
  isBusy,       \* childArr[j].isBusy
  i,            \* index of the loops of the exit path
  down, up,     \* each socket pair: messages to the child, bytes to the parent
  cpc, confd,   \* each child's place in child_handle, and its connection
  backlog,      \* established connections, not yet accepted
  cstate, gone, \* what became of each client, and who closed its side
  exitpipe,     \* bytes in the pipe
  fileOk        \* FILENAME can be opened

parentVars == <<ppc, isBusy, i>>
pairVars == <<down, up>>
childVars == <<cpc, confd>>
envVars == <<backlog, gone, exitpipe, fileOk>>
vars == <<parentVars, pairVars, childVars, envVars, cstate>>

ParentStopped == ppc \in {"exited", "killed"}
Alive(j) == cpc[j] # "dead"

\* Mutant: the child does not close its copy of the parent's end.
EndKept(j) == ~ParentStopped \/ \E k \in Children : k >= j /\ Alive(k)

\* The parent's end of pair j is also held by the children forked after j.
ParentEndOpen(j) == ~ParentStopped \/ \E k \in Children : k > j /\ Alive(k)

Init ==
  /\ ppc = "loop" /\ i = 1
  /\ isBusy = [j \in Children |-> FALSE]
  /\ down = [j \in Children |-> <<>>]
  /\ up = [j \in Children |-> 0]
  /\ cpc = [j \in Children |-> "recv"]
  /\ confd = [j \in Children |-> NoClient]
  /\ backlog = <<>>
  /\ cstate = [c \in Clients |-> "idle"]
  /\ gone = {} /\ exitpipe = 0 /\ fileOk = TRUE

-----------------------------------------------------------------------------
(* A child: child_handle.                                                  *)

C(j, from, to) ==
  /\ cpc[j] = from
  /\ cpc' = [cpc EXCEPT ![j] = to]

recvfd(j) ==
  /\ down[j] # <<>>
  /\ down' = [down EXCEPT ![j] = Tail(@)]
  /\ \/ /\ Head(down[j]) = ExitMsg
        /\ C(j, "recv", "dead")
        /\ UNCHANGED confd
     \/ /\ Head(down[j]) # ExitMsg
        /\ C(j, "recv", "send")
        /\ confd' = [confd EXCEPT ![j] = Head(down[j])]
  /\ UNCHANGED <<parentVars, up, envVars, cstate>>

\* At end of file recvmsg returns 0 and leaves isexit and the descriptor 0:
\* the child "serves" descriptor 0, which is no socket, and returns.
recvEof(j) ==
  /\ C(j, "recv", "dead")
  /\ down[j] = <<>>
  /\ ~ParentEndOpen(j)
  /\ UNCHANGED <<parentVars, pairVars, confd, envVars, cstate>>

sendbigfile(j) ==
  /\ C(j, "send", "report")
  /\ fileOk
  /\ cstate' = [cstate EXCEPT ![confd[j]] = "served"]
  /\ confd' = [confd EXCEPT ![j] = NoClient]
  /\ UNCHANGED <<parentVars, pairVars, envVars>>

\* Mutant: a failed transfer goes on with the next request, confd not closed.
FailLeaksConnection(j) ==
  /\ C(j, "send", "report")
  /\ ~fileOk \/ confd[j] \in gone
  /\ confd' = [confd EXCEPT ![j] = NoClient]
  /\ UNCHANGED <<parentVars, pairVars, envVars, cstate>>

\* A missing file or a failed send returns from child_handle and main; a
\* send to a client that is gone may also kill the child.
sendFails(j) ==
  /\ C(j, "send", "dead")
  /\ ~fileOk \/ confd[j] \in gone
  /\ cstate' = [cstate EXCEPT ![confd[j]] = "broken"]
  /\ confd' = [confd EXCEPT ![j] = NoClient]
  /\ UNCHANGED <<parentVars, pairVars, envVars>>

report(j) ==
  /\ \/ /\ ParentEndOpen(j)
        /\ C(j, "report", "recv")
        /\ up' = [up EXCEPT ![j] = @ + 1]
     \/ /\ ~ParentEndOpen(j)
        /\ C(j, "report", "dead")
        /\ UNCHANGED up
  /\ UNCHANGED <<parentVars, down, confd, envVars, cstate>>

child_handle(j) ==
  recvfd(j) \/ recvEof(j) \/ sendbigfile(j) \/ sendFails(j) \/ report(j)

-----------------------------------------------------------------------------
(* The parent: parent_epoll.                                               *)

\* Mutant: isBusy is not looked at.
IdleAll == Children

Idle == {j \in Children : ~isBusy[j]}
FirstIdle(j) == j \in Idle /\ \A k \in Idle : j <= k

\* Mutant: no break after the hand-over.
DispatchNoBreak ==
  /\ ppc = "loop"
  /\ backlog # <<>>
  /\ backlog' = Tail(backlog)
  /\ \A j \in Idle : Alive(j)
  /\ Idle # {}
  /\ down' = [j \in Children |-> IF j \in Idle THEN Append(down[j], Head(backlog)) ELSE down[j]]
  /\ isBusy' = [j \in Children |-> TRUE]
  /\ UNCHANGED <<ppc, i, up, childVars, cstate, gone, exitpipe, fileOk>>

\* accept, hand over, close.  With all children busy the connection is closed.
dispatch ==
  /\ ppc = "loop"
  /\ backlog # <<>>
  /\ backlog' = Tail(backlog)
  /\ LET c == Head(backlog) IN
       \/ \E j \in Children :
            /\ FirstIdle(j) /\ Alive(j)
            /\ down' = [down EXCEPT ![j] = Append(@, c)]
            /\ isBusy' = [isBusy EXCEPT ![j] = TRUE]
            /\ UNCHANGED <<ppc, cstate>>
       \/ \E j \in Children :
            /\ FirstIdle(j) /\ ~Alive(j)
            /\ ppc' = "killed"
            /\ cstate' = [cstate EXCEPT ![c] = "broken"]
            /\ UNCHANGED <<down, isBusy>>
       \/ /\ Idle = {}
          /\ cstate' = [cstate EXCEPT ![c] = "refused"]
          /\ UNCHANGED <<ppc, down, isBusy>>
  /\ UNCHANGED <<i, up, childVars, gone, exitpipe, fileOk>>

\* A readable pair is taken for a finished task: the byte of report, or the
\* end of file a dead child leaves.
childEvent(j) ==
  /\ ppc = "loop"
  /\ \/ up[j] > 0 /\ up' = [up EXCEPT ![j] = @ - 1]
     \/ up[j] = 0 /\ ~Alive(j) /\ UNCHANGED up
  /\ isBusy' = [isBusy EXCEPT ![j] = FALSE]
  /\ UNCHANGED <<ppc, i, down, childVars, envVars, cstate>>

exitEvent ==
  /\ ppc = "loop"
  /\ exitpipe > 0
  /\ ppc' = "bye"
  /\ i' = 1
  /\ UNCHANGED <<isBusy, pairVars, childVars, envVars, cstate>>

sendExit ==
  /\ ppc = "bye"
  /\ \/ /\ i \in Children /\ Alive(i)
        /\ down' = [down EXCEPT ![i] = Append(@, ExitMsg)]
        /\ i' = i + 1
        /\ UNCHANGED ppc
     \/ /\ i \in Children /\ ~Alive(i)
        /\ ppc' = "killed"
        /\ UNCHANGED <<down, i>>
     \/ /\ i = childProcessCount + 1
        /\ ppc' = "wait"
        /\ i' = 1
        /\ UNCHANGED down
  /\ UNCHANGED <<isBusy, up, childVars, envVars, cstate>>

\* Mutant: wait does not wait.
Reapable == childProcessCount

Ended == Cardinality({j \in Children : ~Alive(j)})

\* The i-th wait(NULL) returns once i children have ended.
wait ==
  /\ ppc = "wait"
  /\ \/ /\ i \in Children
        /\ i <= Ended
        /\ i' = i + 1
        /\ UNCHANGED ppc
     \/ /\ i = childProcessCount + 1
        /\ ppc' = "exited"
        /\ UNCHANGED i
  /\ UNCHANGED <<isBusy, pairVars, childVars, envVars, cstate>>

parent_epoll ==
  dispatch \/ (\E j \in Children : childEvent(j)) \/ exitEvent \/ sendExit \/ wait

-----------------------------------------------------------------------------
Connect(c) ==
  /\ ~ParentStopped
  /\ cstate[c] = "idle"
  /\ cstate' = [cstate EXCEPT ![c] = "pending"]
  /\ backlog' = Append(backlog, c)
  /\ UNCHANGED <<parentVars, pairVars, childVars, gone, exitpipe, fileOk>>

Leave(c) ==
  /\ cstate[c] = "pending" /\ c \notin gone
  /\ gone' = gone \cup {c}
  /\ UNCHANGED <<parentVars, pairVars, childVars, backlog, exitpipe, fileOk, cstate>>

sigfunc ==
  /\ ~ParentStopped
  /\ exitpipe < MaxSignals
  /\ exitpipe' = exitpipe + 1
  /\ UNCHANGED <<parentVars, pairVars, childVars, backlog, gone, fileOk, cstate>>

RemoveFile ==
  /\ fileOk
  /\ fileOk' = FALSE
  /\ UNCHANGED <<parentVars, pairVars, childVars, backlog, gone, exitpipe, cstate>>

Environment == \/ \E c \in Clients : Connect(c) \/ Leave(c)
               \/ sigfunc
               \/ RemoveFile

Next == \/ \E j \in Children : child_handle(j)
        \/ parent_epoll
        \/ Environment

(***************************************************************************)
(* Every process that can run does, and epoll, level-triggered, turns to   *)
(* every descriptor that stays ready.                                      *)
(***************************************************************************)
ParentFairness == /\ WF_vars(dispatch)
                  /\ \A j \in Children : WF_vars(childEvent(j))
                  /\ WF_vars(exitEvent)
                  /\ WF_vars(sendExit \/ wait)

Spec == Init /\ [][Next]_vars
FairSpec == Spec /\ ParentFairness /\ \A j \in Children : WF_vars(child_handle(j))

-----------------------------------------------------------------------------
Requests(j) == {k \in DOMAIN down[j] : down[j][k] # ExitMsg}

(* Type invariant: at most a request and an exit message wait for a child, *)
(* and one byte for the parent.                                            *)
TypeOK ==
  /\ ppc \in {"loop", "bye", "wait", "exited", "killed"}
  /\ isBusy \in [Children -> BOOLEAN]
  /\ i \in 1..(childProcessCount + 1)
  /\ down \in [Children -> Seq(Clients \cup {ExitMsg})]
  /\ \A j \in Children : Len(down[j]) <= 2
  /\ up \in [Children -> 0..1]
  /\ cpc \in [Children -> {"recv", "send", "report", "dead"}]
  /\ confd \in [Children -> Clients \cup {NoClient}]
  /\ backlog \in Seq(Clients)
  /\ cstate \in [Clients -> {"idle", "pending", "served", "refused", "broken"}]
  /\ gone \in SUBSET Clients
  /\ exitpipe \in 0..MaxSignals
  /\ fileOk \in BOOLEAN

(***************************************************************************)
(* BusyConserved: the parent's isBusy of a living child tells exactly      *)
(* whether a task is on its way there, being served, or on its way back:   *)
(* never two at once, so no child has a connection waiting behind another, *)
(* and no child that is free is taken for busy for ever.                   *)
(***************************************************************************)
Load(j) == Cardinality(Requests(j))
             + (IF cpc[j] \in {"send", "report"} THEN 1 ELSE 0) + up[j]

BusyConserved ==
  \A j \in Children : Alive(j) => Load(j) = IF isBusy[j] THEN 1 ELSE 0

(***************************************************************************)
(* HeldOnce: a connection that is not answered yet is in one place, the    *)
(* backlog, one pair or one child; no two children serve the same client.  *)
(***************************************************************************)
Places(c) ==
  Cardinality({k \in DOMAIN backlog : backlog[k] = c})
    + Cardinality({at \in Children \X (1..2) :
                     at[2] \in DOMAIN down[at[1]] /\ down[at[1]][at[2]] = c})
    + Cardinality({j \in Children : confd[j] = c})

HeldOnce ==
  \A c \in Clients : Places(c) = IF cstate[c] = "pending" THEN 1 ELSE 0

(***************************************************************************)
(* GracefulExit: when the parent has printed "server exit" no child is     *)
(* left, every connection it handed out was answered before its child read *)
(* the exit message, and only a client that left, or a missing file, made  *)
(* a transfer fail.                                                        *)
(***************************************************************************)
GracefulExit ==
  ppc = "exited" =>
    /\ \A j \in Children : ~Alive(j) /\ confd[j] = NoClient
    /\ \A c \in Clients :
         /\ cstate[c] = "pending" => \E k \in DOMAIN backlog : backlog[k] = c
         /\ cstate[c] = "broken" => c \in gone \/ ~fileOk

(***************************************************************************)
(* Answered: a connection that was handed to a child is eventually served  *)
(* or closed, whatever happens to the parent meanwhile.                    *)
(***************************************************************************)
InPair(c) == \E j \in Children : \E k \in DOMAIN down[j] : down[j][k] = c
Answered == \A c \in Clients : InPair(c) ~> cstate[c] # "pending"

(***************************************************************************)
(* PoolEnds: once SIGUSR1 was sent, or the parent is gone however it ended,*)
(* the parent and every child end, from the last one forked to the first,  *)
(* as the ends of their pairs close.                                       *)
(***************************************************************************)
PoolEnds == (exitpipe > 0 \/ ParentStopped) ~> (ParentStopped /\ \A j \in Children : ~Alive(j))

(***************************************************************************)
(* IdleIsAlive: what parent_epoll.c calls "child finish task" leaves a     *)
(* child that can be given the next connection.                            *)
(***************************************************************************)
IdleIsAlive ==
  ppc = "loop" => \A j \in Children : isBusy[j] \/ Alive(j)
=============================================================================
