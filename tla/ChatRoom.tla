------------------------------ MODULE ChatRoom -------------------------------
(***************************************************************************)
(* The chat room of unix/tcp/chatroom: one server process that selects     *)
(* over its listening socket and its members, kept in a linked list, and   *)
(* forwards whatever a member says to all the others; clients that come,   *)
(* talk, and go at any moment.                                             *)
(*                                                                         *)
(* Text is a sequence of units <<c, k>>, the k-th unit client c sends;     *)
(* TCP does not keep the boundaries of what was sent, so a recv takes any  *)
(* number of units up to the size of the buffer.  Connections are modelled *)
(* as Linux treats them: a client that goes is seen as an end of file, or, *)
(* when it left something unread, as a reset; a send to a client that is   *)
(* gone is answered by a reset; a send to a connection known to be broken  *)
(* raises SIGPIPE, which the server does not handle.                       *)
(***************************************************************************)
EXTENDS Integers, Sequences, SequencesExt, FiniteSets

CONSTANTS Clients,
          Evenings,  \* to choose from: how much each client that comes says, and the sizes
          clientList, Null, Sock, Junk

ASSUME ChatAssumption ==
  /\ \A e \in Evenings : /\ DOMAIN e.says \subseteq Clients
                         /\ \A c \in DOMAIN e.says : e.says[c] \in Nat
                         /\ e.bufLen \in Nat \ {0}
                         /\ e.sockBuf \in Nat /\ e.sockBuf > e.bufLen
  /\ IsFiniteSet(Clients)
  /\ {clientList, Null, Sock} \cap Clients = {}
  /\ clientList # Null /\ Null # Sock
  /\ Junk \notin Clients \X Nat

VARIABLES
  evening,     \* the bounds and sizes of this behaviour
  pc,          \* place in main's loop, or how the server ended
  next,        \* the list: node to node, from clientList
  tempClient, tempfront,  \* the scan, and the node before it
  temp, buf,   \* the forwarding loop and what it sends
  basefds, readfds,
  backlog,     \* connections not yet accepted
  conn,        \* state of each connection, seen from the server
  cpc,         \* place of each client in its loop
  said,        \* units each client has sent
  flight,      \* how many of them the server has not read
  got,         \* what of the clients' text the server has sent to each member
  unread,      \* how much it has sent that the member has not read
  joined       \* history: units read from each client before a member joined

listVars == <<next, tempClient, tempfront>>
fdVars == <<basefds, readfds>>
clientVars == <<cpc, said, unread>>
vars == <<evening, pc, listVars, temp, buf, fdVars, backlog, conn, clientVars, flight, got, joined>>

BufLen == evening.bufLen    \* sizeof(buf)
SockBuf == evening.sockBuf  \* what a socket buffer holds

read(c) == said[c] - flight[c]

Init ==
  /\ evening \in Evenings
  /\ pc = "select"
  /\ next = [n \in Clients \cup {clientList} |-> Null]
  /\ tempClient = Null /\ tempfront = clientList /\ temp = Null /\ buf = <<>>
  /\ basefds = {Sock} /\ readfds = {Sock}
  /\ backlog = <<>>
  /\ conn = [c \in Clients |-> "none"]
  /\ cpc = [c \in Clients |-> "out"]
  /\ said = [c \in Clients |-> 0] /\ flight = [c \in Clients |-> 0]
  /\ got = [c \in Clients |-> <<>>] /\ unread = [c \in Clients |-> 0]
  /\ joined = [c \in Clients |-> [s \in Clients |-> 0]]

-----------------------------------------------------------------------------
(* The server.                                                             *)

Readable == {c \in basefds \ {Sock} : flight[c] > 0 \/ conn[c] # "up"}
              \cup {s \in {Sock} : backlog # <<>>}

select ==
  /\ pc = "select"
  /\ Readable # {}
  /\ readfds' = Readable
  /\ pc' = "accept"
  /\ UNCHANGED <<listVars, temp, buf, basefds, backlog, conn, clientVars, flight, got, joined, evening>>

\* Mutants: FD_SET is missing; FD_CLR is missing; forwarding starts behind
\* the sender; after a close the scan goes on from the node before.
WatchNot(c) == basefds
UnwatchNot(c) == basefds
FirstFromSender == next[tempClient]
AfterCloseBack == tempfront

Watch(c) == basefds \cup {c}
Unwatch(c) == basefds \ {c}
FirstTemp == next[clientList]
AfterClose == next[tempClient]

\* A new member goes to the front of the list; then the scan begins.
accept ==
  /\ pc = "accept"
  /\ \/ /\ Sock \in readfds
        /\ LET c == Head(backlog) IN
             /\ next' = [next EXCEPT ![c] = next[clientList], ![clientList] = c]
             /\ basefds' = Watch(c)
             /\ joined' = [joined EXCEPT ![c] = [s \in Clients |-> read(s)]]
        /\ backlog' = Tail(backlog)
     \/ /\ Sock \notin readfds
        /\ UNCHANGED <<next, basefds, joined, backlog>>
  /\ tempClient' = next'[clientList]
  /\ tempfront' = clientList
  /\ pc' = "scan"
  /\ UNCHANGED <<temp, buf, readfds, conn, clientVars, flight, got, evening>>

\* The scan is over: tempfront goes out of scope, basefds is copied again.
ScanEnd ==
  /\ pc = "scan"
  /\ tempClient = Null
  /\ pc' = "select"
  /\ tempfront' = clientList
  /\ readfds' = basefds
  /\ UNCHANGED <<next, tempClient, temp, buf, basefds, backlog, conn, clientVars, flight, got, joined, evening>>

Advance ==
  /\ tempClient' = next[tempClient]
  /\ tempfront' = next[tempfront]

ScanSkip ==
  /\ pc = "scan"
  /\ tempClient \in Clients \ readfds
  /\ Advance
  /\ UNCHANGED <<pc, next, temp, buf, fdVars, backlog, conn, clientVars, flight, got, joined, evening>>

\* strlen(buf) stops at the zeros memset left behind the text; text that
\* fills the buffer has none, and some of what follows it may be sent too.
recv ==
  /\ pc = "scan"
  /\ tempClient \in readfds
  /\ \/ \E n \in 1..BufLen :
          /\ n <= flight[tempClient]
          /\ flight' = [flight EXCEPT ![tempClient] = @ - n]
          /\ LET text == [k \in 1..n |-> <<tempClient, read(tempClient) + k>>] IN
               \/ buf' = text
               \/ n = BufLen /\ buf' = Append(text, Junk)
          /\ UNCHANGED conn
     \/ /\ flight[tempClient] = 0 /\ conn[tempClient] = "reset"
        /\ conn' = [conn EXCEPT ![tempClient] = "broken"]
        /\ buf' = <<>>
        /\ UNCHANGED flight
  /\ temp' = FirstTemp
  /\ pc' = "forward"
  /\ UNCHANGED <<listVars, fdVars, backlog, clientVars, got, joined, evening>>

Eof ==
  /\ pc = "scan"
  /\ tempClient \in readfds
  /\ flight[tempClient] = 0 /\ conn[tempClient] \in {"fin", "broken"}

\* recv returned 0: close, take out of basefds and of the list, free.
clientClose ==
  /\ Eof
  /\ basefds' = Unwatch(tempClient)
  /\ next' = [next EXCEPT ![tempfront] = next[tempClient], ![tempClient] = Null]
  /\ tempClient' = AfterClose
  /\ conn' = [conn EXCEPT ![tempClient] = "closed"]
  /\ UNCHANGED <<pc, tempfront, temp, buf, readfds, backlog, clientVars, flight, got, joined, evening>>

\* What was said, of what is sent.
Text == IF buf # <<>> /\ Last(buf) = Junk THEN Front(buf) ELSE buf

\* send to temp.  It waits while the client's buffer is full.
send ==
  /\ pc = "forward"
  /\ temp \in Clients \ {tempClient}
  /\ \/ /\ conn[temp] = "up"
        /\ unread[temp] + Len(buf) <= SockBuf
        /\ got' = [got EXCEPT ![temp] = @ \o Text]
        /\ unread' = [unread EXCEPT ![temp] = @ + Len(buf)]
        /\ UNCHANGED <<pc, conn>>
     \/ /\ conn[temp] = "fin"
        /\ \/ UNCHANGED conn
           \/ buf # <<>> /\ conn' = [conn EXCEPT ![temp] = "broken"]
        /\ UNCHANGED <<pc, got, unread>>
     \/ /\ conn[temp] = "reset"
        /\ conn' = [conn EXCEPT ![temp] = "broken"]
        /\ UNCHANGED <<pc, got, unread>>
     \/ /\ conn[temp] = "broken"
        /\ pc' = "killed"
        /\ UNCHANGED <<conn, got, unread>>
  /\ temp' = next[temp]
  /\ UNCHANGED <<listVars, buf, fdVars, backlog, cpc, said, flight, joined, evening>>

SkipSender ==
  /\ pc = "forward"
  /\ temp = tempClient
  /\ temp' = next[temp]
  /\ UNCHANGED <<pc, listVars, buf, fdVars, backlog, conn, clientVars, flight, got, joined, evening>>

ForwardEnd ==
  /\ pc = "forward"
  /\ temp = Null
  /\ Advance
  /\ pc' = "scan"
  /\ buf' = <<>>
  /\ UNCHANGED <<next, temp, fdVars, backlog, conn, clientVars, flight, got, joined, evening>>

Server == \/ select \/ accept
          \/ ScanEnd \/ ScanSkip \/ recv \/ clientClose
          \/ send \/ SkipSender \/ ForwardEnd

-----------------------------------------------------------------------------
(* The clients.                                                            *)

Connect(c) ==
  /\ pc # "killed"
  /\ c \in DOMAIN evening.says /\ cpc[c] = "out"
  /\ cpc' = [cpc EXCEPT ![c] = "select"]
  /\ conn' = [conn EXCEPT ![c] = "up"]
  /\ backlog' = Append(backlog, c)
  /\ UNCHANGED <<pc, listVars, temp, buf, fdVars, said, unread, flight, got, joined, evening>>

\* A line was typed.  The client does nothing else until it is sent.
Type(c) ==
  /\ pc # "killed"
  /\ cpc[c] = "select"
  /\ said[c] < evening.says[c]
  /\ cpc' = [cpc EXCEPT ![c] = "send"]
  /\ UNCHANGED <<pc, listVars, temp, buf, fdVars, backlog, conn, said, unread, flight, got, joined, evening>>

ClientSend(c) ==
  /\ pc # "killed"
  /\ cpc[c] = "send"
  /\ flight[c] < SockBuf
  /\ said' = [said EXCEPT ![c] = @ + 1]
  /\ flight' = [flight EXCEPT ![c] = @ + 1]
  /\ cpc' = [cpc EXCEPT ![c] = "select"]
  /\ UNCHANGED <<pc, listVars, temp, buf, fdVars, backlog, conn, unread, got, joined, evening>>

ClientRecv(c) ==
  /\ cpc[c] = "select"
  /\ unread[c] > 0
  /\ unread' = [unread EXCEPT ![c] = IF @ > BufLen THEN @ - BufLen ELSE 0]
  /\ UNCHANGED <<pc, listVars, temp, buf, fdVars, backlog, conn, cpc, said, flight, got, joined, evening>>

\* The client is interrupted.
Leave(c) ==
  /\ pc # "killed"
  /\ cpc[c] \in {"select", "send"}
  /\ cpc' = [cpc EXCEPT ![c] = "gone"]
  /\ conn' = [conn EXCEPT ![c] = IF unread[c] > 0 THEN "reset" ELSE "fin"]
  /\ UNCHANGED <<pc, listVars, temp, buf, fdVars, backlog, said, unread, flight, got, joined, evening>>

Client(c) == Connect(c) \/ Type(c) \/ ClientSend(c) \/ ClientRecv(c) \/ Leave(c)

Next == Server \/ \E c \in Clients : Client(c)

\* The server runs; a client that is there sends what was typed and reads.
Fairness == WF_vars(Server) /\ WF_vars(\E c \in Clients : ClientSend(c) \/ ClientRecv(c))

Spec == Init /\ [][Next]_vars
FairSpec == Spec /\ Fairness

-----------------------------------------------------------------------------
Places == {"select", "accept", "scan", "forward", "killed"}
Units == (Clients \X Nat) \cup {Junk}

(* Type invariant, with the bounds of the buffers.                         *)
TypeOK ==
  /\ pc \in Places
  /\ next \in [Clients \cup {clientList} -> Clients \cup {Null}]
  /\ tempClient \in Clients \cup {Null} /\ temp \in Clients \cup {Null}
  /\ tempfront \in Clients \cup {clientList}
  /\ buf \in Seq(Units) /\ Len(buf) <= BufLen + 1
  /\ basefds \subseteq Clients \cup {Sock} /\ readfds \subseteq Clients \cup {Sock}
  /\ backlog \in Seq(Clients)
  /\ conn \in [Clients -> {"none", "up", "fin", "reset", "broken", "closed"}]
  /\ cpc \in [Clients -> {"out", "select", "send", "gone"}]
  /\ said \in [Clients -> Nat]
  /\ \A c \in Clients : flight[c] \in 0..said[c] /\ flight[c] <= SockBuf
  /\ got \in [Clients -> Seq(Clients \X Nat)]
  /\ unread \in [Clients -> 0..SockBuf]
  /\ joined \in [Clients -> [Clients -> Nat]]

(***************************************************************************)
(* ListSound: while members come in at the front and are taken out in the  *)
(* middle of the scan, the list holds exactly the members select watches,  *)
(* without a cycle, and tempfront is the node before tempClient.           *)
(***************************************************************************)
Size == Cardinality(Clients)
nth[k \in 0..(Size + 1)] ==
  IF k = 0 THEN clientList
  ELSE IF nth[k - 1] = Null THEN Null ELSE next[nth[k - 1]]

ListSound ==
  /\ {nth[k] : k \in 1..Size} \ {Null} = basefds \ {Sock}
  /\ nth[Size + 1] = Null
  /\ pc \in {"scan", "forward"} => next[tempfront] = tempClient

(***************************************************************************)
(* Relayed: whenever the server is back at select, every member that is    *)
(* there has been sent all that each other client said and the server read *)
(* since the member joined, once and in order, and nothing of its own.     *)
(***************************************************************************)
Holds(text, s, from, to) ==  \* of what s says, what comes after from, up to to
  /\ {u \in Range(text) : u[1] = s} = {<<s, k>> : k \in (from + 1)..to}
  /\ \A i, j \in DOMAIN text :
       i < j /\ text[i][1] = s /\ text[j][1] = s => text[i][2] < text[j][2]

Relayed ==
  pc = "select" =>
    \A r \in basefds \ {Sock} : conn[r] = "up" =>
      \A s \in Clients :
        Holds(got[r], s, joined[r][s], IF s = r THEN joined[r][s] ELSE read(s))

(***************************************************************************)
(* Heard: what a member says while the server runs is eventually read and  *)
(* sent to the members there.  The one thing that keeps it from being read *)
(* is a standstill: the server waits in send for room at a member that     *)
(* does not read, because it waits in its own send for room at the server. *)
(***************************************************************************)
Standstill ==
  /\ pc = "forward" /\ temp \in Clients \ {tempClient}
  /\ conn[temp] = "up" /\ unread[temp] + Len(buf) > SockBuf
  /\ cpc[temp] = "send" /\ flight[temp] = SockBuf

Heard ==
  \A c \in Clients :
    (flight[c] > 0 /\ conn[c] # "none") ~> (pc = "killed" \/ flight[c] = 0 \/ Standstill)

(***************************************************************************)
(* Forgotten: a client that went is eventually closed and taken out of the *)
(* list, unless the server is gone too or stands still before that.        *)
(***************************************************************************)
Forgotten ==
  \A c \in Clients :
    (cpc[c] = "gone") ~> (conn[c] = "closed" \/ pc = "killed" \/ Standstill)

(***************************************************************************)
(* ServerSurvives: that a client closes is an event the server handles     *)
(* (server.c, "client close"), not one that ends it.                       *)
(***************************************************************************)
ServerSurvives == pc # "killed"
=============================================================================
