------------------------------ MODULE TcpChat --------------------------------
(***************************************************************************)
(* The chats between two people over TCP: tcp/chat and epoll/chat, whose   *)
(* server takes one client and ends with it; and tcp/chat_reconnect,       *)
(* epoll/chat_reconnect and epoll/edge_triggered, whose server takes the   *)
(* next client.  confd is the one connection it talks to: a client that    *)
(* comes while there is one takes its place.                               *)
(*                                                                         *)
(* Lines are counted, not spelt: TCP keeps their order.  A client that     *)
(* goes closes its socket: the server reads the end of file, or, if the    *)
(* client left lines unread, one error first; a line sent to a client that *)
(* is gone is answered by a reset, after which a send raises SIGPIPE.      *)
(***************************************************************************)
EXTENDS Integers, Sequences, FiniteSets

CONSTANTS Clients, NoFd,
          Programs,  \* the programs, of which one runs
          MaxSent,   \* bound: lines typed at all clients
          MaxSaid,   \* bound: lines typed at the server
          BufLines,  \* lines that fit the server's buf
          MaxEvents  \* MAXEVENTS

Once == {"tcp/chat", "epoll/chat"}
Select == {"tcp/chat", "tcp/chat_reconnect"}
Edge == {"epoll/edge_triggered"}

VARIABLES
  program,       \* the program that runs
  server,        \* where its main is, or how it ended
  todo,          \* descriptors reported ready and not yet handled
  confd,
  open,          \* connections the server has open, all of them watched
  edge,          \* of those, the ones with news since they were last reported
  backlog,       \* connections not yet accepted
  client,        \* what each client does: "new", "on", "gone"
  link,          \* each connection: "up", "fin", "rst" or "broken"
  sent, inbound, printed,    \* lines typed at a client, on their way, printed
  said,                      \* lines typed at the server
  outbound,                  \* lines sent to a client that it has not read
  overlapped     \* history: clients that came while there was another

dataVars == <<sent, inbound, printed, said, outbound>>
linkVars == <<client, link>>
vars == <<program, server, todo, confd, open, edge, backlog, linkVars, dataVars, overlapped>>

Init ==
  /\ program \in Programs
  /\ server = IF program \in Once THEN "accept" ELSE "wait"
  /\ todo = {} /\ confd = NoFd /\ open = {} /\ edge = {} /\ backlog = <<>>
  /\ client = [c \in Clients |-> "new"] /\ link = [c \in Clients |-> "up"]
  /\ sent = [c \in Clients |-> 0]
  /\ inbound = [c \in Clients |-> 0] /\ printed = [c \in Clients |-> 0]
  /\ said = 0 /\ outbound = [c \in Clients |-> 0]
  /\ overlapped = {}

-----------------------------------------------------------------------------
(* The server waits.                                                       *)

Readable(c) == inbound[c] > 0 \/ link[c] # "up"

\* Mutant: a client is not accepted while there is another.
KnocksAlone == backlog # <<>> /\ program \notin Once /\ confd = NoFd

Knocks == backlog # <<>> /\ program \notin Once

\* What epoll_wait or select may report.  An edge-triggered descriptor is
\* reported once for each piece of news.
Ready == (IF said < MaxSaid THEN {"stdin"} ELSE {})
           \cup (IF Knocks THEN {"sockfd"} ELSE {})
           \cup {c \in open : Readable(c) /\ (program \in Edge => c \in edge)}

\* A line may be typed later; no more than MAXEVENTS are reported at once.
Reports == {some \in SUBSET Ready : some # {} /\ Cardinality(some) <= MaxEvents
              /\ (Ready \subseteq some \cup {"stdin"} \/ Cardinality(some) = MaxEvents)}

Wait ==
  /\ server = "wait"
  /\ \E some \in Reports : todo' = some /\ edge' = edge \ some
  /\ server' = "handle"
  /\ UNCHANGED <<program, confd, open, backlog, linkVars, dataVars, overlapped>>

\* select's descriptors are looked at in this order, epoll's in any.
First(d) == program \in Select =>
  /\ d = "sockfd" => "stdin" \notin todo
  /\ d \in Clients => todo \cap {"stdin", "sockfd"} = {}

Handle(d) == server = "handle" /\ d \in todo /\ First(d)

RoundEnd ==
  /\ server = "handle" /\ todo = {}
  /\ server' = "wait"
  /\ UNCHANGED <<program, todo, confd, open, edge, backlog, linkVars, dataVars, overlapped>>

-----------------------------------------------------------------------------
(* A client comes.                                                         *)

Accept ==
  /\ confd' = Head(backlog) /\ backlog' = Tail(backlog)
  /\ open' = open \cup {confd'}
  /\ overlapped' = IF confd = NoFd THEN overlapped ELSE overlapped \cup {confd'}

accept ==
  /\ server = "accept" /\ backlog # <<>>
  /\ Accept
  /\ server' = "wait"
  /\ UNCHANGED <<program, todo, edge, linkVars, dataVars>>

acceptAgain ==
  /\ program \notin Edge
  /\ Handle("sockfd") /\ Accept
  /\ todo' = todo \ {"sockfd"}
  /\ UNCHANGED <<program, server, edge, linkVars, dataVars>>

\* epoll_ctl reports what has come before it.
acceptEdge ==
  /\ program \in Edge
  /\ Handle("sockfd") /\ Accept
  /\ edge' = IF Readable(confd') THEN edge \cup {confd'} ELSE edge
  /\ todo' = todo \ {"sockfd"}
  /\ UNCHANGED <<program, server, linkVars, dataVars>>

-----------------------------------------------------------------------------
(* A line is typed at the server.                                          *)

News(c) == edge' = IF c \in open /\ program \in Edge THEN edge \cup {c} ELSE edge

\* Nobody to send to: epoll's servers send to -1, which fails and no more.
send ==
  \/ confd = NoFd /\ UNCHANGED <<server, link, edge, outbound>>
  \/ confd # NoFd /\
       \/ /\ link[confd] = "up"
          /\ outbound' = [outbound EXCEPT ![confd] = @ + 1]
          /\ UNCHANGED <<server, link, edge>>
       \/ /\ link[confd] \in {"fin", "rst"}    \* the reset may be on its way
          /\ link' = [link EXCEPT ![confd] = "broken"]
          /\ News(confd)
          /\ UNCHANGED <<server, outbound>>
       \/ /\ link[confd] = "fin"
          /\ UNCHANGED <<server, link, edge, outbound>>
       \/ /\ link[confd] = "broken"
          /\ server' = "killed"
          /\ UNCHANGED <<link, edge, outbound>>

stdin ==
  /\ Handle("stdin")
  /\ todo' = todo \ {"stdin"} /\ said' = said + 1
  /\ send
  /\ UNCHANGED <<program, confd, open, backlog, client, sent, inbound, printed, overlapped>>

-----------------------------------------------------------------------------
(* Something came from a client.  Only confd is read.                      *)

Taken(c) == IF inbound[c] < BufLines THEN inbound[c] ELSE BufLines

\* Mutant: lines are read and not printed.
ShowNot(c) == inbound' = [inbound EXCEPT ![c] = 0] /\ UNCHANGED printed

Show(c) ==
  /\ inbound' = [inbound EXCEPT ![c] = @ - Taken(c)]
  /\ printed' = [printed EXCEPT ![c] = @ + Taken(c)]

\* After a reset recv fails once; what the printf then shows is empty.
ReadError(c) ==
  /\ inbound[c] = 0 /\ link[c] = "rst"
  /\ link' = [link EXCEPT ![c] = "broken"]

AtEnd(c) == inbound[c] = 0 /\ link[c] \in {"fin", "broken"}

\* Mutants: the connection is not closed; confd keeps it; nothing is done.
HangUpNoClose(c) == confd' = NoFd /\ UNCHANGED <<open, edge>>
HangUpKeeps(c) == UNCHANGED confd /\ open' = open \ {c} /\ edge' = edge \ {c}
HangUpNot(c) == UNCHANGED <<confd, open, edge>>

HangUp(c) == confd' = NoFd /\ open' = open \ {c} /\ edge' = edge \ {c}

ignore(c) ==
  /\ Handle(c) /\ c # confd
  /\ todo' = todo \ {c}
  /\ UNCHANGED <<program, server, confd, open, edge, backlog, linkVars, dataVars, overlapped>>

recvOnce(c) ==
  /\ program \in Once /\ Handle(c)
  /\ \/ /\ inbound[c] > 0 /\ Show(c)
        /\ todo' = todo \ {c}
        /\ UNCHANGED <<server, link, confd, open>>
     \/ /\ ReadError(c)
        /\ todo' = todo \ {c}
        /\ UNCHANGED <<server, inbound, printed, confd, open>>
     \/ /\ AtEnd(c)
        /\ server' = "ended" /\ open' = {} /\ confd' = NoFd /\ todo' = {}
        /\ UNCHANGED <<link, inbound, printed>>
  /\ UNCHANGED <<program, edge, backlog, client, sent, said, outbound, overlapped>>

\* Mutant: one recv for each report, as without EPOLLET.
LeftOnce(c) == todo \ {c}

\* The edge-triggered server reads until it fails.
Left(c) == IF program \in Edge THEN todo ELSE todo \ {c}

\* That the last recv failed with a reset is not looked at.
recv(c) ==
  /\ program \notin Once /\ c = confd /\ Handle(c)
  /\ \/ /\ inbound[c] > 0 /\ Show(c)
        /\ todo' = Left(c)
        /\ UNCHANGED <<link, confd, open, edge>>
     \/ /\ program \in Edge /\ inbound[c] = 0 /\ link[c] = "up"
        /\ todo' = todo \ {c}
        /\ UNCHANGED <<inbound, printed, link, confd, open, edge>>
     \/ /\ ReadError(c)
        /\ todo' = todo \ {c}
        /\ UNCHANGED <<inbound, printed, confd, open, edge>>
     \/ /\ AtEnd(c) /\ HangUp(c)
        /\ todo' = todo \ {c}
        /\ UNCHANGED <<link, inbound, printed>>
  /\ UNCHANGED <<program, server, backlog, client, sent, said, outbound, overlapped>>

-----------------------------------------------------------------------------
(* The clients.  Each has one connection, and ends when the server closes  *)
(* it, or is gone, or when its user ends it.                               *)

Running == server \notin {"ended", "killed"}

Connect(c) ==
  /\ client[c] = "new" /\ Running
  /\ client' = [client EXCEPT ![c] = "on"]
  /\ backlog' = Append(backlog, c)
  /\ UNCHANGED <<program, server, todo, confd, open, edge, link, dataVars, overlapped>>

Typed == {line \in Clients \X (1..MaxSent) : line[2] <= sent[line[1]]}

ClientSend(c) ==
  /\ client[c] = "on" /\ Cardinality(Typed) < MaxSent /\ Running
  /\ sent' = [sent EXCEPT ![c] = @ + 1] /\ inbound' = [inbound EXCEPT ![c] = @ + 1]
  /\ News(c)
  /\ UNCHANGED <<program, server, todo, confd, open, backlog, linkVars, printed, said, outbound, overlapped>>

ClientRecv(c) ==
  /\ client[c] = "on" /\ outbound[c] > 0
  /\ outbound' = [outbound EXCEPT ![c] = 0]
  /\ UNCHANGED <<program, server, todo, confd, open, edge, backlog, linkVars, sent, inbound, printed, said, overlapped>>

ClientEnd(c) ==
  /\ client[c] = "on" /\ outbound[c] = 0 /\ ~Running
  /\ client' = [client EXCEPT ![c] = "gone"]
  /\ UNCHANGED <<program, server, todo, confd, open, edge, backlog, link, dataVars, overlapped>>

Leave(c) ==
  /\ client[c] = "on"
  /\ client' = [client EXCEPT ![c] = "gone"]
  /\ link' = [link EXCEPT ![c] = IF outbound[c] > 0 THEN "rst" ELSE "fin"]
  /\ News(c)
  /\ UNCHANGED <<program, server, todo, confd, open, backlog, dataVars, overlapped>>

-----------------------------------------------------------------------------
Server == \/ Wait \/ RoundEnd \/ accept \/ acceptAgain \/ acceptEdge \/ stdin
          \/ \E c \in Clients : ignore(c) \/ recvOnce(c) \/ recv(c)

Next == \/ Server
        \/ \E c \in Clients : Connect(c) \/ ClientSend(c) \/ ClientRecv(c) \/ ClientEnd(c) \/ Leave(c)

Spec == Init /\ [][Next]_vars

\* The server runs; people need not type, come or go.
FairSpec == Spec /\ WF_vars(Server)

-----------------------------------------------------------------------------
(* Type invariant: the news is of open connections, and confd is one.      *)
TypeOK ==
  /\ program \in Programs
  /\ server \in {"accept", "wait", "handle", "ended", "killed"}
  /\ todo \in SUBSET (Clients \cup {"stdin", "sockfd"})
  /\ confd \in open \cup {NoFd}
  /\ edge \subseteq open /\ open \subseteq Clients
  /\ backlog \in Seq(Clients)
  /\ client \in [Clients -> {"new", "on", "gone"}]
  /\ link \in [Clients -> {"up", "fin", "rst", "broken"}]
  /\ \A f \in {sent, inbound, printed} : f \in [Clients -> 0..MaxSent]
  /\ outbound \in [Clients -> 0..MaxSaid] /\ said \in 0..MaxSaid

(***************************************************************************)
(* LinesKept: what a client sent has been printed or can still be read:    *)
(* a connection is closed only after its last line was printed, although   *)
(* the client may go in the middle of a round.                             *)
(***************************************************************************)
LinesKept ==
  \A c \in Clients :
    /\ printed[c] + inbound[c] = sent[c]
    /\ Running /\ client[c] # "new" /\ inbound[c] > 0 => c \in open \cup {backlog[k] : k \in 1..Len(backlog)}

(***************************************************************************)
(* NoLeak: the connections the server has open and does not talk to are    *)
(* those whose place a client took that came before they ended: the server *)
(* never closes those again.                                               *)
(***************************************************************************)
NoLeak == Cardinality(open \ {confd}) <= Cardinality(overlapped)

(***************************************************************************)
(* Heard: what the client in conversation says is printed, unless another  *)
(* takes its place or a SIGPIPE ends the server.                           *)
(***************************************************************************)
Unheard(c) == confd = c /\ inbound[c] > 0
HeardNow(c) == inbound[c] = 0 \/ confd # c \/ server = "killed"
Heard == \A c \in Clients : Unheard(c) ~> HeardNow(c)

(***************************************************************************)
(* Noticed: that the client in conversation has gone is seen; but the      *)
(* edge-triggered server takes a reset for the end of what there is to     *)
(* read, and keeps a connection that is broken.                            *)
(***************************************************************************)
Unnoticed(c) == confd = c /\ client[c] = "gone"
NoticedNow(c) == confd # c \/ server = "killed" \/ (program \in Edge /\ link[c] = "broken")
Noticed == \A c \in Clients : Unnoticed(c) ~> NoticedNow(c)

(***************************************************************************)
(* Welcomed: who connects is accepted, if the server takes more than one.  *)
(***************************************************************************)
Knocking == backlog # <<>>
WelcomedNow == backlog = <<>> \/ ~Running \/ program \in Once
Welcomed == Knocking ~> WelcomedNow
=============================================================================
