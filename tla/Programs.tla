------------------------------ MODULE Programs ------------------------------
(***************************************************************************)
(* The repository's small programs, of which each behaviour runs one: the  *)
(* chats over TCP, over UDP and over two fifos, the downloads, the ticket  *)
(* sales, the pairs on one number, the producer and the consumer, the list *)
(* of students, and those that show one system call or a few.  Each has    *)
(* variables of its own, which stay as they began while another runs.      *)
(***************************************************************************)
EXTENDS Integers, Sequences, FiniteSets

CONSTANTS
  Clients,                 \* of the chats over TCP and over UDP
  MaxEvents, TcpBufLines, TcpMaxSent, TcpMaxSaid,        \* of TcpChat
  UdpMaxSent, UdpMaxSaid,                                \* of UdpChat
  PipeBufLines, MaxTyped,                                \* of PipeChat
  DownloadFiles, DownloadBufLen,                         \* of Download
  Windows, Full, MaxSpurious,                            \* of Tickets
  N,                                                     \* of Counters
  Room, SEMAEM, MaxIdle,                                 \* of Produce
  Marks, MaxLines,                                       \* of StudentList
  SendFiles, Word, SendBufLen,                           \* of SendFd
  Slots, Page, Much,                                     \* of Fifos
  MaxInts,                                               \* of Signals
  Types, Sizes, TextLen, QueueRoom, MaxMessages,         \* of Messages
  SemctlRuns                                                   \* of Semctl

\* Buffers and fifos hold something and add.c adds something; what sendfd.c
\* writes fits the buffer it is read into; and clients, windows and
\* descriptors are not taken for one another.
ASSUME ProgramsAssumption ==
  /\ IsFiniteSet(Clients) /\ Clients \cap {"none", "server", "stdin", "sockfd"} = {}
  /\ Windows \cap {"none", "setter"} = {}
  /\ {TcpBufLines, PipeBufLines, DownloadBufLen, N, Slots, Page} \subseteq Nat \ {0}
  /\ {TcpMaxSent, TcpMaxSaid, UdpMaxSent, UdpMaxSaid, MaxTyped, Full, MaxSpurious, Room,
      SEMAEM, MaxIdle, MaxLines, MaxInts, TextLen, QueueRoom, MaxMessages} \subseteq Nat
  /\ DownloadFiles \subseteq Nat /\ Marks \subseteq Nat
  /\ SendFiles \subseteq Seq({"old"}) /\ Word \in Nat /\ SendBufLen \in Nat /\ Word <= SendBufLen
  /\ Much \in 1..Page
  /\ Types \subseteq Int /\ Sizes \subseteq Nat

TcpPrograms == {"tcp/chat", "epoll/chat", "tcp/chat_reconnect", "epoll/chat_reconnect",
                "epoll/edge_triggered"}
PipePrograms == {"pipe/chat", "pipe/fullduplex"}
Downloads == {"packet", "stream", "mmap", "splice"}
TicketSales == {"saletickets", "saletickets2"}
Pairs == {"add", "lock"}
Fifos == {"halfduplex", "writeset"}
SignalPrograms == {"sigaction", "signal"}

AllPrograms == TcpPrograms \cup PipePrograms \cup Downloads \cup TicketSales \cup Pairs
                 \cup Fifos \cup SignalPrograms
                 \cup {"udp/chat", "produce", "read", "sendfd", "pthread", "msq", "semctl"}

VARIABLES
  program,
  tcpServer, tcpTodo, tcpConfd, tcpOpen, tcpEdge, tcpBacklog, tcpClient, tcpLink,
  tcpSent, tcpInbound, tcpPrinted, tcpSaid, tcpOutbound, tcpOverlapped,
  udpMain, udpReadfds, udpAddr, udpLen, udpGreeted, udpSent, udpSaid,
  udpNetwork, udpLost, udpSwallowed, udpPrinted, udpShown,
  pipeOpened, pipePlace, pipeSet, pipePipe, pipeTyped, pipeShown, pipeEmpty,
  dlFile, dlServer, dlSent, dlLink, dlClient, dlFilesize, dlDisk, dlStale, dlCut,
  tkCnt, tkMutex, tkPc, tkSpurious, tkSpared,
  pairValue, pairPc, pairReg, pairI, pairSems, pairMutex, pairSum,
  prProduct, prWarehouse, prSemadj, prAlive, prDone, prIdle,
  stMark, stWhole, stPc, stLine, stList, stArr, stI, stJ, stPrinted,
  sfExists, sfFile, sfOffset, sfParent, sfChild, sfSocket, sfFd, sfBuf,
  ptThread, ptMutex, ptPushed, ptCancelled, ptMain, ptRet, ptAstray,
  fifoPages, fifoPc, fifoReader, fifoRset, fifoWset, fifoShown,
  sigPc, sigPending, sigHandling, sigDead, sigInts, sigCaught,
  msqMsgs, msqWaiting, msqRefused, msqQueue, msqEntered, msqPrinted, msqUnseen,
  semPc, semSemid, semCurrent, semMade, semValue, semPrinted

tcpVars == <<tcpServer, tcpTodo, tcpConfd, tcpOpen, tcpEdge, tcpBacklog, tcpClient,
  tcpLink, tcpSent, tcpInbound, tcpPrinted, tcpSaid, tcpOutbound, tcpOverlapped>>
udpVars == <<udpMain, udpReadfds, udpAddr, udpLen, udpGreeted, udpSent, udpSaid,
  udpNetwork, udpLost, udpSwallowed, udpPrinted, udpShown>>
pipeVars == <<pipeOpened, pipePlace, pipeSet, pipePipe, pipeTyped, pipeShown,
  pipeEmpty>>
dlVars == <<dlFile, dlServer, dlSent, dlLink, dlClient, dlFilesize, dlDisk, dlStale,
  dlCut>>
tkVars == <<tkCnt, tkMutex, tkPc, tkSpurious, tkSpared>>
pairVars == <<pairValue, pairPc, pairReg, pairI, pairSems, pairMutex, pairSum>>
prVars == <<prProduct, prWarehouse, prSemadj, prAlive, prDone, prIdle>>
stVars == <<stMark, stWhole, stPc, stLine, stList, stArr, stI, stJ, stPrinted>>
sfVars == <<sfExists, sfFile, sfOffset, sfParent, sfChild, sfSocket, sfFd, sfBuf>>
ptVars == <<ptThread, ptMutex, ptPushed, ptCancelled, ptMain, ptRet, ptAstray>>
fifoVars == <<fifoPages, fifoPc, fifoReader, fifoRset, fifoWset, fifoShown>>
sigVars == <<sigPc, sigPending, sigHandling, sigDead, sigInts, sigCaught>>
msqVars == <<msqMsgs, msqWaiting, msqRefused, msqQueue, msqEntered, msqPrinted, msqUnseen>>
semVars == <<semPc, semSemid, semCurrent, semMade, semValue, semPrinted>>

\* The smallest programs, and the others.
smallVars == <<sfVars, ptVars, fifoVars, sigVars, msqVars, semVars>>
chatVars == <<tcpVars, udpVars, pipeVars, dlVars>>
workVars == <<tkVars, pairVars, prVars, stVars>>

Tcp == INSTANCE TcpChat WITH
  NoFd <- "none", Programs <- AllPrograms, MaxSent <- TcpMaxSent, MaxSaid <- TcpMaxSaid,
  BufLines <- TcpBufLines,
  server <- tcpServer, todo <- tcpTodo, confd <- tcpConfd, open <- tcpOpen, edge <- tcpEdge,
  backlog <- tcpBacklog, client <- tcpClient, link <- tcpLink, sent <- tcpSent,
  inbound <- tcpInbound, printed <- tcpPrinted, said <- tcpSaid, outbound <- tcpOutbound,
  overlapped <- tcpOverlapped

Udp == INSTANCE UdpChat WITH
  NoAddr <- "none", MaxSent <- UdpMaxSent, MaxSaid <- UdpMaxSaid,
  main <- udpMain, readfds <- udpReadfds, cliAddr <- udpAddr, cliAddr_len <- udpLen,
  greeted <- udpGreeted, sent <- udpSent, said <- udpSaid, network <- udpNetwork,
  lost <- udpLost, swallowed <- udpSwallowed, printed <- udpPrinted, shown <- udpShown

Pipe == INSTANCE PipeChat WITH
  Programs <- AllPrograms, BufLines <- PipeBufLines,
  opened <- pipeOpened, place <- pipePlace, set <- pipeSet, pipe <- pipePipe,
  typed <- pipeTyped, shown <- pipeShown, empty <- pipeEmpty

Download == INSTANCE Download WITH
  Programs <- AllPrograms, Files <- DownloadFiles, BufLen <- DownloadBufLen,
  file <- dlFile, server <- dlServer, sent <- dlSent, link <- dlLink, client <- dlClient,
  filesize <- dlFilesize, disk <- dlDisk, stale <- dlStale, cut <- dlCut

Tickets == INSTANCE Tickets WITH
  Programs <- AllPrograms, Setter <- "setter", Nobody <- "none",
  ticket_cnt <- tkCnt, mutex <- tkMutex, pc <- tkPc, spurious <- tkSpurious, spared <- tkSpared

Pair == INSTANCE Counters WITH
  Programs <- AllPrograms, Nobody <- "none",
  value <- pairValue, pc <- pairPc, reg <- pairReg, i <- pairI, sems <- pairSems,
  mutex <- pairMutex, sum <- pairSum

Produce == INSTANCE Produce WITH
  product <- prProduct, warehouse <- prWarehouse, semadj <- prSemadj, alive <- prAlive,
  done <- prDone, idle <- prIdle

Students == INSTANCE StudentList WITH
  mark <- stMark, whole <- stWhole, pc <- stPc, line <- stLine, list <- stList,
  listarr <- stArr, i <- stI, j <- stJ, printed <- stPrinted

Send == INSTANCE SendFd WITH
  Files <- SendFiles, BufLen <- SendBufLen,
  exists <- sfExists, file <- sfFile, offset <- sfOffset, parent <- sfParent,
  child <- sfChild, socket <- sfSocket, fd <- sfFd, buf <- sfBuf

Thread == INSTANCE Cancel WITH
  thread <- ptThread, mutex <- ptMutex, pushed <- ptPushed, cancelled <- ptCancelled,
  main <- ptMain, ret <- ptRet, astray <- ptAstray

Fifo == INSTANCE Fifos WITH
  Programs <- AllPrograms, 
  pages <- fifoPages, pc <- fifoPc, reader <- fifoReader, rset <- fifoRset,
  wset <- fifoWset, shown <- fifoShown

Signal == INSTANCE Signals WITH
  Programs <- AllPrograms,
  pc <- sigPc, pending <- sigPending, handling <- sigHandling, dead <- sigDead,
  ints <- sigInts, caught <- sigCaught

Msq == INSTANCE Messages WITH
  Room <- QueueRoom, MaxSent <- MaxMessages,
  msgs <- msqMsgs, waiting <- msqWaiting, refused <- msqRefused, queue <- msqQueue,
  entered <- msqEntered, printed <- msqPrinted, unseen <- msqUnseen

Sem == INSTANCE Semctl WITH
  Runs <- SemctlRuns,
  pc <- semPc, semid <- semSemid, current <- semCurrent, made <- semMade,
  value <- semValue, printed <- semPrinted

-----------------------------------------------------------------------------
\* Choices that a program makes when it starts are made only if it runs.
Init ==
  /\ Tcp!Init /\ Pipe!Init /\ Tickets!Init /\ Pair!Init /\ Produce!Init
  /\ Udp!Init /\ (program # "udp/chat" => udpLen = "whole")
  /\ Download!Init /\ (program \notin Downloads => dlFile = 0)
  /\ Students!Init /\ (program # "read" => stMark = <<>> /\ stWhole)
  /\ Send!Init /\ (program # "sendfd" => sfExists /\ sfFile = <<>>)
  /\ Thread!Init /\ Fifo!Init /\ Signal!Init /\ Msq!Init /\ Sem!Init

TcpRuns(A) ==
  /\ program \in TcpPrograms /\ A
  /\ UNCHANGED <<program, workVars, smallVars, udpVars, pipeVars, dlVars>>
UdpRuns(A) ==
  /\ program = "udp/chat" /\ A
  /\ UNCHANGED <<program, workVars, smallVars, tcpVars, pipeVars, dlVars>>
PipeRuns(A) ==
  /\ program \in PipePrograms /\ A
  /\ UNCHANGED <<program, workVars, smallVars, tcpVars, udpVars, dlVars>>
DownloadRuns(A) ==
  /\ program \in Downloads /\ A
  /\ UNCHANGED <<program, workVars, smallVars, tcpVars, udpVars, pipeVars>>
TicketsRun(A) ==
  /\ program \in TicketSales /\ A
  /\ UNCHANGED <<program, chatVars, smallVars, pairVars, prVars, stVars>>
PairRuns(A) ==
  /\ program \in Pairs /\ A
  /\ UNCHANGED <<program, chatVars, smallVars, tkVars, prVars, stVars>>
ProduceRuns(A) ==
  /\ program = "produce" /\ A
  /\ UNCHANGED <<program, chatVars, smallVars, tkVars, pairVars, stVars>>
StudentsRun(A) ==
  /\ program = "read" /\ A
  /\ UNCHANGED <<program, chatVars, smallVars, tkVars, pairVars, prVars>>
SendRuns(A) ==
  /\ program = "sendfd" /\ A
  /\ UNCHANGED <<program, chatVars, workVars, ptVars, fifoVars, sigVars, msqVars, semVars>>
ThreadRuns(A) ==
  /\ program = "pthread" /\ A
  /\ UNCHANGED <<program, chatVars, workVars, sfVars, fifoVars, sigVars, msqVars, semVars>>
FifoRuns(A) ==
  /\ program \in Fifos /\ A
  /\ UNCHANGED <<program, chatVars, workVars, sfVars, ptVars, sigVars, msqVars, semVars>>
SignalRuns(A) ==
  /\ program \in SignalPrograms /\ A
  /\ UNCHANGED <<program, chatVars, workVars, sfVars, ptVars, fifoVars, msqVars, semVars>>
MsqRuns(A) ==
  /\ program = "msq" /\ A
  /\ UNCHANGED <<program, chatVars, workVars, sfVars, ptVars, fifoVars, sigVars, semVars>>
SemRuns(A) ==
  /\ program = "semctl" /\ A
  /\ UNCHANGED <<program, chatVars, workVars, sfVars, ptVars, fifoVars, sigVars, msqVars>>

Next ==
  \/ TcpRuns(Tcp!Next) \/ UdpRuns(Udp!Next) \/ PipeRuns(Pipe!Next)
  \/ DownloadRuns(Download!Next) \/ TicketsRun(Tickets!Next) \/ PairRuns(Pair!Next)
  \/ ProduceRuns(Produce!Next) \/ StudentsRun(Students!Next) \/ SendRuns(Send!Next)
  \/ ThreadRuns(Thread!Next) \/ FifoRuns(Fifo!Next) \/ SignalRuns(Signal!Next)
  \/ MsqRuns(Msq!Next) \/ SemRuns(Sem!Next)

vars == <<program, chatVars, workVars, smallVars>>

\* The fairness of the program that runs.
Fairness ==
  /\ WF_tcpVars(program \in TcpPrograms /\ Tcp!Server)
  /\ WF_udpVars(program = "udp/chat" /\ Udp!Main)
  /\ WF_pipeVars(program \in PipePrograms /\ Pipe!Runs("chat1"))
  /\ WF_pipeVars(program \in PipePrograms /\ Pipe!Runs("chat2"))
  /\ WF_dlVars(program \in Downloads /\ Download!Server)
  /\ WF_dlVars(program \in Downloads /\ Download!Client)
  /\ \A t \in Windows \cup {"setter"} : WF_tkVars(program \in TicketSales /\ Tickets!Runs(t))
  /\ SF_tkVars(program \in TicketSales /\ Tickets!Lock("setter"))
  /\ WF_pairVars(program \in Pairs /\ Pair!Next)
  /\ WF_prVars(program = "produce" /\ Produce!produce)
  /\ WF_prVars(program = "produce" /\ Produce!comsume)
  /\ WF_stVars(program = "read" /\ Students!Next)
  /\ WF_sfVars(program = "sendfd" /\ Send!Parent)
  /\ WF_sfVars(program = "sendfd" /\ Send!Child)
  /\ WF_ptVars(program = "pthread" /\ Thread!Thread)
  /\ WF_ptVars(program = "pthread" /\ Thread!Main)
  /\ WF_fifoVars(program \in Fifos /\ Fifo!Writer)
  /\ WF_fifoVars(program \in Fifos /\ Fifo!read)
  /\ WF_sigVars(program \in SignalPrograms /\ Signal!Process)
  /\ WF_semVars(program = "semctl" /\ Sem!Next)

Spec == Init /\ [][Next]_vars /\ Fairness
-----------------------------------------------------------------------------
(* Type invariant: each program's, which holds of one at rest too.         *)
TypeOK == /\ Tcp!TypeOK /\ Udp!TypeOK /\ Pipe!TypeOK /\ Download!TypeOK
          /\ Tickets!TypeOK /\ Pair!TypeOK /\ Produce!TypeOK /\ Students!TypeOK
          /\ Send!TypeOK /\ Thread!TypeOK /\ Fifo!TypeOK /\ Signal!TypeOK
          /\ Msq!TypeOK /\ Sem!TypeOK

(***************************************************************************)
(* Conserved: nothing is lost and nothing made.  A line sent over TCP is   *)
(* printed or can be read, also when its client is hung up on              *)
(* (epoll/chat_reconnect/server/server.c:69) or replaced; a datagram is on *)
(* its way, lost, printed or swallowed before udp/chat's loop; a download  *)
(* stores what was sent, padded only where one recv was cut; thread/lock.c *)
(* takes each unit once; what ipc/produce.c produced is in its warehouse;  *)
(* a message of ipc/msqsnd.c is printed once or is somewhere else; and     *)
(* ipc/semctl.c leaves no semaphores behind.                               *)
(***************************************************************************)
Conserved == Tcp!LinesKept /\ Udp!Accounted /\ Download!NothingInvented
               /\ Pair!EachOnce /\ Produce!Stored /\ Msq!OnceOnly /\ Sem!NoneLeft

(***************************************************************************)
(* Result: what a program comes to, whatever the order of its steps.       *)
(* ipc/pipe/chat ends after the last words; a download that finishes has   *)
(* the file, unless a recv was cut or the size taken for another           *)
(* (threadpool/client/recvfile.c:43); ipc/add.c, whose semaphore is gone   *)
(* before it is used, prints from 2 to 2 * N; the undos of ipc/produce.c   *)
(* leave the warehouse no emptier than it was; filesys/read.c prints every *)
(* student once, higher marks first, by the loop invariant Placed; the     *)
(* child of sendfd/sendfd.c reads its parent's file from the beginning;    *)
(* ipc/msqrsv.c takes messages of one type in their order; and             *)
(* thread/pthread.c does not leave its mutex locked.                       *)
(***************************************************************************)
Result == Pipe!LastWords /\ Download!WholeFile /\ Pair!SumBounds /\ Produce!Undone
            /\ Students!Placed /\ Students!Ranked /\ Send!FileIsRead /\ Msq!InOrder
            /\ Thread!LeftUnlocked

(***************************************************************************)
(* OnlyThen: what is odd happens for one reason only.  A connection leaks  *)
(* when another client came before it ended                                *)
(* (tcp/chat_reconnect/server/server.c:50); who udp/chat's server heard    *)
(* cannot be answered when the length it never set is negative, and a line *)
(* of its own goes to one client; ipc/pipe/fullduplex stands still after   *)
(* an empty line; thread/saletickets sets tickets that are not sold out    *)
(* after a spurious wakeup past the `if' of saletickets.c:59;              *)
(* ipc/produce.c's processes do no more than SEM_UNDO's limit lets them;   *)
(* the child of sendfd/sendfd.c reads its standard input for the file when *)
(* there is none; thread/pthread.c unlocks an unlocked mutex when it was   *)
(* not cancelled; ipc/pipe/halfduplex/read.c shows nothing when write.c    *)
(* was killed; a ^C ends ipc/signal/sigaction.c before or after its key    *)
(* code; ipc/semctl.c prints other values when it runs twice at once; and  *)
(* ipc/pipe/writeset never waits for itself.                               *)
(***************************************************************************)
OnlyThen == Tcp!NoLeak /\ Udp!Answerable /\ Udp!SaidToOne /\ Pipe!TurnsGoOn
              /\ Tickets!SetWhenSold /\ Produce!WorkStops /\ Send!OwnInput
              /\ Thread!UnlockedAgain /\ Fifo!WordOrDeath /\ Fifo!NeverWaits
              /\ Signal!KeyCodeWhole /\ Sem!PrintedRight
=============================================================================
