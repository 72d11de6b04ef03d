------------------------------ MODULE UdpChat --------------------------------
(***************************************************************************)
(* The chat over UDP of unix/udp/chat.  The server takes the first         *)
(* datagram for a greeting and answers whoever it heard last; a client     *)
(* greets when it starts.  Datagrams may be lost or overtake each other.   *)
(*                                                                         *)
(* The length the server passes to its first recvfrom is not initialised:  *)
(* a negative one makes every recvfrom fail to give an address; one that   *)
(* cuts the address off leaves the sender's port on the server's own host, *)
(* which is the sender only if it runs there; a shorter one leaves nothing *)
(* one can send to.  Either leaves the length of an address behind.        *)
(***************************************************************************)
EXTENDS Integers, FiniteSets

CONSTANTS Clients, NoAddr,
          MaxSent, MaxSaid  \* bounds: lines typed at a client and at the server

VARIABLES
  main,              \* "first" recvfrom, "select", "stdin" or "sockfd"
  readfds,           \* what select reported
  cliAddr, cliAddr_len,
  greeted, sent,     \* per client: whether it has started; lines typed
  said,              \* lines typed at the server
  network,           \* datagrams on their way
  lost,              \* history: datagrams that never arrived
  swallowed,         \* history: the datagram read before the loop
  printed,           \* history: what the server has printed
  shown              \* history: what each client has shown

clientVars == <<greeted, sent>>
serverVars == <<main, readfds, cliAddr, cliAddr_len>>
vars == <<serverVars, clientVars, said, network, lost, swallowed, printed, shown>>

Server == "server"
Datagram(from, to, n) == [from |-> from, to |-> to, line |-> n]
ForServer == {d \in network : d.to = Server}

Init ==
  /\ main = "first" /\ readfds = {}
  /\ cliAddr = NoAddr /\ cliAddr_len \in {"negative", "short", "cut", "whole"}
  /\ greeted = {} /\ sent = [c \in Clients |-> 0] /\ said = 0
  /\ network = {} /\ lost = {} /\ swallowed = {} /\ printed = {}
  /\ shown = [c \in Clients |-> {}]

\* What recvfrom does to cliAddr.  NoAddr is the address of no client.
LearnAddr(d) ==
  \/ cliAddr_len = "whole" /\ cliAddr' = d.from
  \/ cliAddr_len = "cut" /\ cliAddr' \in {d.from, NoAddr}
  \/ cliAddr_len \in {"negative", "short"} /\ UNCHANGED cliAddr

\* Mutant: a recvfrom into a short length leaves it short.
LearnShort(d) == LearnAddr(d) /\ UNCHANGED cliAddr_len

Learn(d) ==
  /\ LearnAddr(d)
  /\ cliAddr_len' = IF cliAddr_len \in {"short", "cut"} THEN "whole" ELSE cliAddr_len

recvFirst ==
  /\ main = "first" /\ \E d \in ForServer :
       /\ network' = network \ {d} /\ swallowed' = {d}
       /\ Learn(d)
  /\ main' = "select"
  /\ UNCHANGED <<readfds, clientVars, said, lost, printed, shown>>

select ==
  /\ main = "select"
  /\ \E some \in SUBSET {"stdin", "sockfd"} :
       /\ some # {}
       /\ "stdin" \in some => said < MaxSaid
       /\ "sockfd" \in some <=> ForServer # {}
       /\ readfds' = some
  /\ main' = "stdin"
  /\ UNCHANGED <<cliAddr, cliAddr_len, clientVars, said, network, lost, swallowed, printed, shown>>

\* Mutant: the line goes to every client.
AddresseeAll == greeted

Addressee == {cliAddr} \ {NoAddr}

\* sendto to NoAddr fails or reaches no client, and the line is gone.
sendto ==
  /\ main = "stdin" /\ main' = "sockfd"
  /\ IF "stdin" \in readfds
       THEN /\ said' = said + 1
            /\ network' = network \cup {Datagram(Server, c, said') : c \in Addressee}
       ELSE UNCHANGED <<said, network>>
  /\ UNCHANGED <<readfds, cliAddr, cliAddr_len, clientVars, lost, swallowed, printed, shown>>

\* Mutant: what was read is printed only if it is from the client last heard.
PutsKnown(d) == printed' = IF d.from = cliAddr THEN printed \cup {d} ELSE printed

Puts(d) == printed' = printed \cup {d}

\* Only the server reads its socket: what select saw is still there, unless
\* it was lost, when a blocking recvfrom waits for the next.
recvfrom ==
  /\ main = "sockfd" /\ main' = "select"
  /\ \/ /\ "sockfd" \in readfds
        /\ \E d \in ForServer :
             /\ network' = network \ {d} /\ Puts(d)
             /\ Learn(d)
     \/ /\ "sockfd" \notin readfds
        /\ UNCHANGED <<network, printed, cliAddr, cliAddr_len>>
  /\ UNCHANGED <<readfds, clientVars, said, lost, swallowed, shown>>

-----------------------------------------------------------------------------
Greet(c) ==
  /\ c \notin greeted
  /\ greeted' = greeted \cup {c}
  /\ network' = network \cup {Datagram(c, Server, 0)}
  /\ UNCHANGED <<serverVars, sent, said, lost, swallowed, printed, shown>>

ClientSend(c) ==
  /\ c \in greeted /\ sent[c] < MaxSent
  /\ sent' = [sent EXCEPT ![c] = @ + 1]
  /\ network' = network \cup {Datagram(c, Server, sent'[c])}
  /\ UNCHANGED <<serverVars, greeted, said, lost, swallowed, printed, shown>>

ClientRecv(c) ==
  /\ c \in greeted
  /\ \E d \in network :
       /\ d.to = c
       /\ network' = network \ {d}
       /\ shown' = [shown EXCEPT ![c] = @ \cup {d.line}]
  /\ UNCHANGED <<serverVars, clientVars, said, lost, swallowed, printed>>

\* Not of a datagram that select has reported: that one has arrived.
Lose ==
  /\ \E d \in network :
       /\ ~(d.to = Server /\ main \in {"stdin", "sockfd"} /\ "sockfd" \in readfds)
       /\ network' = network \ {d} /\ lost' = lost \cup {d}
  /\ UNCHANGED <<serverVars, clientVars, said, swallowed, printed, shown>>

Main == recvFirst \/ select \/ sendto \/ recvfrom
Next == Main \/ Lose \/ \E c \in Clients : Greet(c) \/ ClientSend(c) \/ ClientRecv(c)

Spec == Init /\ [][Next]_vars

\* The server runs; nobody need type, and no client need read.
FairSpec == Spec /\ WF_vars(Main)

-----------------------------------------------------------------------------
Numbers == 0..(IF MaxSent > MaxSaid THEN MaxSent ELSE MaxSaid)
Datagrams == [from : Clients \cup {Server}, to : Clients \cup {Server}, line : Numbers]

(* Type invariant.                                                         *)
TypeOK ==
  /\ main \in {"first", "select", "stdin", "sockfd"}
  /\ readfds \in SUBSET {"stdin", "sockfd"}
  /\ cliAddr \in Clients \cup {NoAddr}
  /\ cliAddr_len \in {"negative", "short", "cut", "whole"}
  /\ greeted \in SUBSET Clients /\ sent \in [Clients -> 0..MaxSent] /\ said \in 0..MaxSaid
  /\ \A s \in {network, lost, swallowed, printed} : s \in SUBSET Datagrams
  /\ shown \in [Clients -> SUBSET Numbers]

(***************************************************************************)
(* Accounted: whatever order datagrams come in, each is on its way, lost,  *)
(* printed, or the one that was swallowed before the loop, be it a greeting*)
(* or, when that was lost or overtaken, a line.                            *)
(***************************************************************************)
Accounted ==
  /\ UNION {{Datagram(c, Server, n) : n \in 0..sent[c]} : c \in greeted}
       = {d \in network \cup lost \cup swallowed \cup printed : d.to = Server}
  /\ Cardinality(swallowed) <= 1
  /\ printed \cap (network \cup lost \cup swallowed) = {}

(***************************************************************************)
(* Answerable: the uninitialised length can cost no more than the first    *)
(* address, unless it is negative: who is printed can be answered.         *)
(***************************************************************************)
Answerable == printed # {} /\ cliAddr_len # "negative" => cliAddr # NoAddr

(***************************************************************************)
(* SaidToOne: a line typed at the server is shown by at most one client,   *)
(* and by one that it has heard.                                           *)
(***************************************************************************)
SaidToOne ==
  \A c \in Clients : \A n \in shown[c] :
    /\ \A d \in Clients \ {c} : n \notin shown[d]
    /\ \E d \in printed \cup swallowed : d.from = c

(***************************************************************************)
(* Delivered: a line sent to the server is read, unless it is lost,        *)
(* however much is typed at the server meanwhile.                          *)
(***************************************************************************)
Delivered ==
  \A c \in Clients : \A n \in 1..MaxSent :
    Datagram(c, Server, n) \in network ~> Datagram(c, Server, n) \notin network
=============================================================================
