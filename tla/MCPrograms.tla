------------------------------ MODULE MCPrograms -----------------------------
(* Values for Programs, and what must come in time, said of the clients and *)
(* windows that there are.                                                  *)
EXTENDS Programs

SomeTypes == {-2, 0, 1, 2}
EmptyOrLong == {<<>>, <<"old", "old", "old", "old">>}

-----------------------------------------------------------------------------
(* What must come in time.  One program runs, so that one formula can say  *)
(* it of several; and of several clients, windows or persons, who are all  *)
(* alike, it is said of one.                                               *)

(* Heard and Delivered: what is sent to a server over TCP or UDP is read,  *)
(* unless it is lost or another client comes between.                      *)
SentIsHeard ==
  \/ program \in TcpPrograms /\ Tcp!Unheard("c1")
  \/ program = "udp/chat" /\ Udp!Datagram("c1", "server", 1) \in udpNetwork
  ~>
  \/ program \in TcpPrograms /\ Tcp!HeardNow("c1")
  \/ program = "udp/chat" /\ Udp!Datagram("c1", "server", 1) \notin udpNetwork

(* Noticed and PartTogether: that one of two over TCP or fifos has gone    *)
(* does not escape the other.                                              *)
GoneIsNoticed ==
  \/ program \in TcpPrograms /\ Tcp!Unnoticed("c1")
  \/ program = "pipe/chat" /\ Pipe!Left("chat1")
  ~>
  \/ program \in TcpPrograms /\ Tcp!NoticedNow("c1")
  \/ program = "pipe/chat" /\ Pipe!Gone("chat2")

(* Welcomed, SalesGoOn: a client that comes is accepted; tickets that are  *)
(* sold out are set again, although the signal may precede the wait.       *)
WaitIsOver ==
  \/ program \in TcpPrograms /\ Tcp!Knocking
  \/ program \in TicketSales /\ Tickets!SoldOut
  ~>
  \/ program \in TcpPrograms /\ Tcp!WelcomedNow
  \/ program \in TicketSales /\ Tickets!SetAgain

(* BothOpen, Finishes, BothEnd, WorkGoesOn, Ends, Works and Joined: fifos  *)
(* that two open get open, downloads and the programs that end do, both    *)
(* workers work until the limit, a fifo that fills is read on; WindowsWake *)
(* and Heeded: a window that waits is woken, and no ^C is forgotten.       *)
GoesOn ==
  /\ program \notin TcpPrograms \cup {"udp/chat", "msq"}
  /\ program \in TicketSales => Tickets!Waits("w1")
  /\ program \in SignalPrograms => Signal!Pressed
  ~>
  \/ program \in PipePrograms /\ Pipe!Opened
  \/ program \in Downloads /\ Download!Finished
  \/ program \in Pairs /\ Pair!Ended
  \/ program = "produce" /\ Produce!Worked
  \/ program = "read" /\ Students!Finished
  \/ program \in TicketSales /\ ~Tickets!Waits("w1")
  \/ program = "sendfd" /\ Send!Over
  \/ program = "pthread" /\ Thread!Ended
  \/ program \in Fifos /\ Fifo!Done
  \/ program \in SignalPrograms /\ Signal!HeededNow
  \/ program = "semctl" /\ Sem!AllEnded
=============================================================================
