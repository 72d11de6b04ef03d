--------------------------- MODULE IpcChatProofs ------------------------------
(* Proofs about the chat of four processes, for any number of lines typed,   *)
(* of processes killed and of lines that fit one read, and whoever is sent   *)
(* SIGINT.                                                                   *)
EXTENDS IpcChat, Counting

-----------------------------------------------------------------------------
(* Types, with what the steps need to keep them.                             *)

Typed ==
  /\ TypeOK
  /\ limits \in Limits
  /\ typed \in [Talkers -> Nat]
  /\ \A p \in Talkers : "stdin" \in ready[p] => typed[p] < limits.lines[p]

LEMMA Bounds ==
  ASSUME Typed
  PROVE  /\ BufLines \in Nat \ {0}
         /\ \A p \in Talkers : limits.lines[p] \in Nat /\ typed[p] \in Nat
                               /\ typed[p] <= limits.lines[p]
  <1>1. limits \in [lines : [Talkers -> Nat], crashes : Nat, interrupts : SUBSET Proc]
    BY IpcAssumption DEF Typed
  <1> QED BY <1>1, IpcAssumption DEF Typed, TypeOK

LEMMA LineTyped ==
  ASSUME Typed, NEW p \in Talkers, NEW k \in 1..limits.lines[p]
  PROVE  <<p, k>> \in AllLines
  <1> DEFINE Lines(q, l) == {<<q, j>> : j \in 1..l.lines[q]}
  <1>1. <<p, k>> \in Lines(p, limits)
    OBVIOUS
  <1>2. AllLines = {Junk} \cup UNION {Lines(q, l) : q \in Talkers, l \in Limits}
    BY DEF AllLines
  <1> HIDE DEF Lines
  <1>3. Lines(p, limits) \in {Lines(q, l) : q \in Talkers, l \in Limits}
    BY DEF Typed
  <1> QED BY <1>1, <1>2, <1>3

LEMMA JunkLine == Junk \in AllLines
  BY DEF AllLines

LEMMA NothingTyped == NoMsg \in Messages /\ NoMsg.mtext = <<>>
  <1>1. <<>> \in Seq(AllLines)
    OBVIOUS
  <1> QED BY <1>1 DEF NoMsg, Messages

LEMMA InitTyped == Init => Typed
  <1> SUFFICES ASSUME Init PROVE Typed
    OBVIOUS
  <1>1. limits \in [lines : [Talkers -> Nat], crashes : Nat, interrupts : SUBSET Proc]
    BY IpcAssumption DEF Init
  <1>2. TypeOK
    <2>1. \A p \in Talkers : typed[p] \in 0..limits.lines[p]
      BY <1>1 DEF Init
    <2>2. /\ hand \in [Talkers -> Messages]
          /\ fifo \in [Talkers -> Seq(AllLines)]
          /\ msq \in Seq(Messages) /\ stored \in Seq(Messages)
          /\ shownA1 \in Seq([Cells -> Nat]) /\ shownB1 \in Seq(Messages)
      BY NothingTyped DEF Init
    <2>3. /\ pc \in [Proc -> Places] /\ handling \in [Proc -> {"none", "INT", "USR1"}]
          /\ hstep \in [Proc -> 1..4] /\ id \in [Proc -> {"none", "live", "dead"}]
          /\ exists \in SUBSET {"shm", "msq"}
          /\ ready \in [Talkers -> SUBSET {"fdr", "stdin"}]
          /\ room \in {0, 1} /\ message \in {0, 1} /\ room + message <= 1
          /\ shm \in [Cells -> Nat] /\ left \in SUBSET Cells
          /\ seen \in [Cells -> Nat] /\ unread \in SUBSET Cells
          /\ fallen \in SUBSET Proc
      BY DEF Init, Places, Zeros
    <2> QED BY <2>1, <2>2, <2>3 DEF TypeOK
  <1> QED BY <1>2 DEF Init, Typed

(* Steps of the start-up, and one that only moves on.                        *)
Moves == /\ \E p \in Proc, w \in Places : pc' = [pc EXCEPT ![p] = w]
         /\ UNCHANGED <<handling, hstep, fifo, ready, hand, typed, left, seen, unread,
                        stored, shownA1, shownB1, fallen, limits>>

LEMMA MovesTyped ==
  ASSUME Typed, Moves, id' \in [Proc -> {"none", "live", "dead"}],
         exists' \in SUBSET {"shm", "msq"}, msq' \in Seq(Messages), shm' \in [Cells -> Nat],
         UNCHANGED <<room, message>> \/ (room' = 0 /\ message' = 0)
  PROVE  Typed'
  <1>1. pc' \in [Proc -> Places]
    BY DEF Moves, Typed, TypeOK
  <1>2. UNCHANGED <<handling, hstep, fifo, ready, hand, typed, left, seen, unread,
                    stored, shownA1, shownB1, fallen, limits>>
    BY DEF Moves
  <1>3. room' \in {0, 1} /\ message' \in {0, 1} /\ room' + message' <= 1
    BY DEF Typed, TypeOK
  <1>4. TypeOK'
    BY <1>1, <1>2, <1>3 DEF Typed, TypeOK
  <1> QED BY <1>2, <1>4 DEF Typed

LEMMA StartTyped ==
  ASSUME Typed, NEW p \in Proc, savepid(p) \/ sigfunc_register(p) \/ Get(p)
  PROVE  Typed'
  <1>1. Moves
    BY Zenon DEF savepid, sigfunc_register, Get, Go, Moves, Places, sigVars, objVars, talkVars,
           shmVars, showVars, env, Proc
  <1>2. id' \in [Proc -> {"none", "live", "dead"}] /\ exists' \in SUBSET {"shm", "msq"}
    BY DEF savepid, sigfunc_register, Get, objVars, Object, Typed, TypeOK
  <1>3. \/ UNCHANGED <<shm, room, message>>
        \/ shm' = Zeros /\ room' = 0 /\ message' = 0
    BY DEF savepid, sigfunc_register, Get, shmVars
  <1>4. msq' = msq \/ msq' = <<>>
    BY DEF savepid, sigfunc_register, Get
  <1>5. Zeros \in [Cells -> Nat] /\ <<>> \in Seq(Messages)
    BY DEF Zeros
  <1>6. shm' \in [Cells -> Nat] /\ msq' \in Seq(Messages)
    BY <1>3, <1>4, <1>5 DEF Typed, TypeOK
  <1>7. UNCHANGED <<room, message>> \/ (room' = 0 /\ message' = 0)
    BY <1>3
  <1> QED BY <1>1, <1>2, <1>6, <1>7, MovesTyped

LEMMA OpenFifoTyped == ASSUME Typed, OpenFifo PROVE Typed'
  <1>1. /\ UNCHANGED <<handling, hstep, id, exists, fifo, ready, hand, typed, shm, room, message,
                       left, seen, unread, msq, stored, shownA1, shownB1, fallen, limits>>
        /\ \E v, w \in Places : pc' = [pc EXCEPT !["a"] = v, !["b"] = w]
    BY DEF OpenFifo, AfterOpen, Places, sigVars, objVars, talkVars, shmVars, showVars, env
  <1>2. pc' \in [Proc -> Places]
    <2>1. PICK v, w \in Places : pc' = [pc EXCEPT !["a"] = v, !["b"] = w]
      BY <1>1
    <2>2. pc \in [Proc -> Places]
      BY DEF Typed, TypeOK
    <2> QED BY <2>1, <2>2
  <1>3. TypeOK'
    BY <1>1, <1>2 DEF Typed, TypeOK
  <1> QED BY <1>1, <1>3 DEF Typed

LEMMA SelectTyped == ASSUME Typed, NEW p \in Talkers, select(p) PROVE Typed'
  <1>1. /\ UNCHANGED <<handling, hstep, id, exists, fifo, hand, typed, shm, room, message,
                       left, seen, unread, msq, stored, shownA1, shownB1, fallen, limits>>
        /\ pc' = [pc EXCEPT ![p] = "fdr"]
    BY DEF select, Go, sigVars, objVars, shmVars, showVars, env
  <1>2. PICK some \in SUBSET Readable(p) : ready' = [ready EXCEPT ![p] = some]
    BY DEF select
  <1>3. some \subseteq {"fdr", "stdin"} /\ ("stdin" \in some => typed[p] < limits.lines[p])
    BY DEF Readable
  <1>4. ready' \in [Talkers -> SUBSET {"fdr", "stdin"}]
    BY <1>2, <1>3 DEF Typed, TypeOK
  <1>5. \A q \in Talkers : "stdin" \in ready'[q] => typed[q] < limits.lines[q]
    BY <1>2, <1>3 DEF Typed, TypeOK
  <1>6. pc' \in [Proc -> Places]
    BY <1>1 DEF Typed, TypeOK, Places, Proc, Talkers
  <1>7. TypeOK'
    BY <1>1, <1>4, <1>6 DEF Typed, TypeOK
  <1> QED BY <1>1, <1>5, <1>7 DEF Typed

(* The first n of a sequence, and what is left.                              *)
LEMMA Cut ==
  ASSUME NEW S, NEW s \in Seq(S), NEW n \in 0..Len(s)
  PROVE  /\ SubSeq(s, 1, n) \in Seq(S) /\ SubSeq(s, n + 1, Len(s)) \in Seq(S)
         /\ Len(SubSeq(s, 1, n)) = n /\ Len(SubSeq(s, n + 1, Len(s))) = Len(s) - n
         /\ \A i \in 1..n : SubSeq(s, 1, n)[i] = s[i]
         /\ \A i \in 1..(Len(s) - n) : SubSeq(s, n + 1, Len(s))[i] = s[n + i]
  <1>1. Len(s) \in Nat /\ n \in Int /\ n + 1 \in Int /\ Len(s) \in Int /\ n <= Len(s)
    BY LenProperties
  <1>2. \A i \in 1..Len(s) : s[i] \in S
    BY ElementOfSeq
  <1>3. (\A i \in 1..n : s[i] \in S) /\ (\A i \in (n + 1)..Len(s) : s[i] \in S)
    BY <1>1, <1>2
  <1>4. /\ SubSeq(s, 1, n) \in Seq(S)
        /\ Len(SubSeq(s, 1, n)) = IF 1 <= n THEN n - 1 + 1 ELSE 0
        /\ \A i \in 1..(n - 1 + 1) : SubSeq(s, 1, n)[i] = s[1 + i - 1]
    BY <1>1, <1>3, SubSeqProperties
  <1>5. /\ SubSeq(s, n + 1, Len(s)) \in Seq(S)
        /\ Len(SubSeq(s, n + 1, Len(s))) =
             IF n + 1 <= Len(s) THEN Len(s) - (n + 1) + 1 ELSE 0
        /\ \A i \in 1..(Len(s) - (n + 1) + 1) :
             SubSeq(s, n + 1, Len(s))[i] = s[(n + 1) + i - 1]
    BY <1>1, <1>3, SubSeqProperties
  <1> QED BY <1>1, <1>4, <1>5

(* What read does, as far as what is said goes.                              *)
Reads(p, n, o) ==
  /\ n \in 1..Len(fifo[p])
  /\ hand' = [hand EXCEPT ![p] = [mtype |-> RCV, mtext |-> SubSeq(fifo[p], 1, n), over |-> o]]
  /\ fifo' = [fifo EXCEPT ![p] = Rest(p, n)]
  /\ pc' = [pc EXCEPT ![p] = Deliver(p)]

LEMMA ReadCases ==
  ASSUME Typed, NEW p \in Talkers, read(p)
  PROVE  /\ UNCHANGED <<handling, hstep, id, exists, typed, shm, room, message, left, seen,
                        unread, msq, stored, shownA1, shownB1, limits>>
         /\ pc[p] = "fdr"
         /\ ready' = [ready EXCEPT ![p] = @ \ {"fdr"}] \/ UNCHANGED ready
         /\ fallen' = fallen \cup {p} \/ UNCHANGED fallen
         /\ \/ \E n \in Nat, o \in BOOLEAN : Reads(p, n, o)
            \/ /\ UNCHANGED <<hand, fifo>>
               /\ \E w \in {"dead", "stdin"} : pc' = [pc EXCEPT ![p] = w]
  <1>1. /\ UNCHANGED <<handling, hstep, id, exists, typed, shm, room, message, left, seen,
                       unread, msq, stored, shownA1, shownB1, limits>>
        /\ pc[p] = "fdr"
        /\ ready' = [ready EXCEPT ![p] = @ \ {"fdr"}] \/ UNCHANGED ready
        /\ fallen' = fallen \cup {p} \/ UNCHANGED fallen
    BY DEF read, Go, sigVars, objVars, shmVars, showVars
  <1> DEFINE Taken(n) ==
               /\ \E str \in Str(RCV, SubSeq(fifo[p], 1, n)) : hand' = [hand EXCEPT ![p] = str]
               /\ fifo' = [fifo EXCEPT ![p] = Rest(p, n)]
  <1>2. CASE pc' = [pc EXCEPT ![p] = Deliver(p)] /\ \E n \in 1..Len(fifo[p]) : Taken(n)
    <2>1. PICK n \in 1..Len(fifo[p]) : Taken(n)
      BY <1>2
    <2>2. PICK o \in BOOLEAN :
            hand' = [hand EXCEPT ![p] = [mtype |-> RCV, mtext |-> SubSeq(fifo[p], 1, n),
                                         over |-> o]]
      BY <2>1 DEF Str, Fills
    <2>3. n \in Nat
      <3>1. Len(fifo[p]) \in Nat
        BY LenProperties DEF Typed, TypeOK
      <3> QED BY <3>1
    <2> QED BY <1>1, <1>2, <2>1, <2>2, <2>3 DEF Reads
  <1>3. CASE ~(pc' = [pc EXCEPT ![p] = Deliver(p)] /\ \E n \in 1..Len(fifo[p]) : Taken(n))
    <2>1. /\ UNCHANGED <<hand, fifo>>
          /\ \E w \in {"dead", "stdin"} : pc' = [pc EXCEPT ![p] = w]
      BY <1>3 DEF read, Go
    <2> QED BY <1>1, <2>1
  <1> QED BY <1>2, <1>3

LEMMA ReadTyped == ASSUME Typed, NEW p \in Talkers, read(p) PROVE Typed'
  <1>1. /\ UNCHANGED <<handling, hstep, id, exists, typed, shm, room, message, left, seen,
                       unread, msq, stored, shownA1, shownB1, limits>>
        /\ ready' = [ready EXCEPT ![p] = @ \ {"fdr"}] \/ UNCHANGED ready
        /\ fallen' = fallen \cup {p} \/ UNCHANGED fallen
    BY ReadCases
  <1>2. /\ hand' \in [Talkers -> Messages] /\ fifo' \in [Talkers -> Seq(AllLines)]
        /\ pc' \in [Proc -> Places]
    <2>1. ASSUME NEW n \in Nat, NEW o \in BOOLEAN, Reads(p, n, o)
          PROVE  /\ hand' \in [Talkers -> Messages] /\ fifo' \in [Talkers -> Seq(AllLines)]
                 /\ pc' \in [Proc -> Places]
      <3>1. fifo[p] \in Seq(AllLines) /\ n \in 0..Len(fifo[p])
        BY <2>1 DEF Reads, Typed, TypeOK
      <3>2. SubSeq(fifo[p], 1, n) \in Seq(AllLines) /\ Rest(p, n) \in Seq(AllLines)
        BY <3>1, Cut DEF Rest
      <3>3. [mtype |-> RCV, mtext |-> SubSeq(fifo[p], 1, n), over |-> o] \in Messages
        BY <3>2 DEF Messages
      <3>4. Deliver(p) \in Places
        BY DEF Deliver, Places
      <3> QED BY <2>1, <3>2, <3>3, <3>4 DEF Reads, Typed, TypeOK
    <2>2. ASSUME UNCHANGED <<hand, fifo>>,
                 \E w \in {"dead", "stdin"} : pc' = [pc EXCEPT ![p] = w]
          PROVE  /\ hand' \in [Talkers -> Messages] /\ fifo' \in [Talkers -> Seq(AllLines)]
                 /\ pc' \in [Proc -> Places]
      BY <2>2, ZenonT(40) DEF Typed, TypeOK, Places
    <2> QED BY <2>1, <2>2, ReadCases
  <1>3. /\ ready' \in [Talkers -> SUBSET {"fdr", "stdin"}] /\ fallen' \in SUBSET Proc
        /\ \A q \in Talkers : "stdin" \in ready'[q] => "stdin" \in ready[q]
    <2>1. fallen' \in SUBSET Proc
      BY <1>1 DEF Typed, TypeOK, Talkers, Proc
    <2>2. ready \in [Talkers -> SUBSET {"fdr", "stdin"}]
      BY DEF Typed, TypeOK
    <2>3. CASE ready' = [ready EXCEPT ![p] = @ \ {"fdr"}]
      BY <2>1, <2>2, <2>3
    <2>4. CASE UNCHANGED ready
      BY <2>1, <2>2, <2>4
    <2> QED BY <1>1, <2>3, <2>4
  <1>4. TypeOK'
    BY <1>1, <1>2, <1>3 DEF Typed, TypeOK
  <1> QED BY <1>1, <1>3, <1>4 DEF Typed

(* What write does.                                                          *)
Told(f, line, o) == IF o THEN Append(Append(f, line), Junk) ELSE Append(f, line)

Says(p, o) ==
  /\ hand' = [hand EXCEPT ![p] = [mtype |-> SND, mtext |-> <<<<p, typed[p] + 1>>>>, over |-> o]]
  /\ fifo' = [fifo EXCEPT ![Peer(p)] = Told(fifo[Peer(p)], <<p, typed[p] + 1>>, o)]
  /\ pc' = [pc EXCEPT ![p] = Deliver(p)]

LEMMA WriteCases ==
  ASSUME Typed, NEW p \in Talkers, write(p)
  PROVE  /\ UNCHANGED <<handling, hstep, id, exists, shm, room, message, left, seen, unread,
                        msq, stored, shownA1, shownB1, limits>>
         /\ pc[p] = "stdin"
         /\ fallen' = fallen \cup {p} \/ UNCHANGED fallen
         /\ \/ /\ typed[p] < limits.lines[p]
               /\ typed' = [typed EXCEPT ![p] = typed[p] + 1]
               /\ ready' = [ready EXCEPT ![p] = {}]
            \/ UNCHANGED <<typed, ready>>
         /\ \/ /\ \E o \in BOOLEAN : Says(p, o)
               /\ typed' = [typed EXCEPT ![p] = typed[p] + 1]
            \/ /\ UNCHANGED <<hand, fifo>>
               /\ \E w \in {"dead", "select"} : pc' = [pc EXCEPT ![p] = w]
  <1>1. /\ UNCHANGED <<handling, hstep, id, exists, shm, room, message, left, seen, unread,
                       msq, stored, shownA1, shownB1, limits>>
        /\ pc[p] = "stdin"
        /\ fallen' = fallen \cup {p} \/ UNCHANGED fallen
        /\ \/ /\ typed[p] < limits.lines[p]
              /\ typed' = [typed EXCEPT ![p] = typed[p] + 1]
              /\ ready' = [ready EXCEPT ![p] = {}]
           \/ UNCHANGED <<typed, ready>>
    BY DEF write, Go, Typed, sigVars, objVars, shmVars, showVars
  <1> DEFINE line == <<p, typed[p] + 1>>
             talk(str) ==
               /\ fifo' = [fifo EXCEPT ![Peer(p)] =
                              IF str.over THEN Append(Append(@, line), Junk) ELSE Append(@, line)]
               /\ hand' = [hand EXCEPT ![p] = str]
  <1>2. \/ /\ \E str \in Str(SND, <<line>>) : talk(str)
           /\ pc' = [pc EXCEPT ![p] = Deliver(p)]
           /\ typed' = [typed EXCEPT ![p] = typed[p] + 1]
        \/ /\ UNCHANGED <<hand, fifo>>
           /\ \E w \in {"dead", "select"} : pc' = [pc EXCEPT ![p] = w]
    BY DEF write, Go
  <1>3. ASSUME NEW str \in Str(SND, <<line>>), talk(str), pc' = [pc EXCEPT ![p] = Deliver(p)]
        PROVE  \E o \in BOOLEAN : Says(p, o)
    <2>1. PICK o \in BOOLEAN : str = [mtype |-> SND, mtext |-> <<line>>, over |-> o]
      BY <1>3 DEF Str, Fills
    <2>2. Says(p, o)
      <3>1. str.over = o
        BY <2>1
      <3> QED BY <1>3, <2>1, <3>1 DEF Says, Told
    <2> QED BY <2>2
  <1> HIDE DEF talk
  <1>4. \/ /\ \E o \in BOOLEAN : Says(p, o)
           /\ typed' = [typed EXCEPT ![p] = typed[p] + 1]
        \/ /\ UNCHANGED <<hand, fifo>>
           /\ \E w \in {"dead", "select"} : pc' = [pc EXCEPT ![p] = w]
    BY <1>2, <1>3
  <1> QED BY <1>1, <1>4

LEMMA WriteTyped == ASSUME Typed, NEW p \in Talkers, write(p) PROVE Typed'
  <1>1. /\ UNCHANGED <<handling, hstep, id, exists, shm, room, message, left, seen, unread,
                       msq, stored, shownA1, shownB1, limits>>
        /\ fallen' = fallen \cup {p} \/ UNCHANGED fallen
    BY WriteCases
  <1>2. /\ \A q \in Talkers : typed'[q] \in 0..limits.lines[q]
        /\ typed' \in [Talkers -> Nat]
        /\ ready' \in [Talkers -> SUBSET {"fdr", "stdin"}]
        /\ \A q \in Talkers : "stdin" \in ready'[q] => typed'[q] < limits.lines[q]
    <2>1. CASE /\ typed[p] < limits.lines[p]
               /\ typed' = [typed EXCEPT ![p] = typed[p] + 1]
               /\ ready' = [ready EXCEPT ![p] = {}]
      <3>1. \A q \in Talkers : limits.lines[q] \in Nat /\ typed[q] \in Nat
                               /\ typed[q] <= limits.lines[q]
        BY Bounds
      <3>2. /\ typed' \in [Talkers -> Nat] /\ ready' \in [Talkers -> SUBSET {"fdr", "stdin"}]
            /\ \A q \in Talkers : /\ typed'[q] = IF q = p THEN typed[p] + 1 ELSE typed[q]
                                  /\ ready'[q] = IF q = p THEN {} ELSE ready[q]
        BY <2>1 DEF Typed, TypeOK
      <3> HIDE <2>1
      <3>3. \A q \in Talkers : typed'[q] \in 0..limits.lines[q]
        <4> TAKE q \in Talkers
        <4>1. CASE q = p
          BY <2>1, <3>1, <3>2, <4>1
        <4>2. CASE q # p
          BY <3>1, <3>2, <4>2
        <4> QED BY <4>1, <4>2
      <3>4. \A q \in Talkers : "stdin" \in ready'[q] => typed'[q] < limits.lines[q]
        BY <3>2 DEF Typed
      <3> QED BY <3>2, <3>3, <3>4
    <2>2. CASE UNCHANGED <<typed, ready>>
      BY <2>2 DEF Typed, TypeOK
    <2> QED BY <2>1, <2>2, WriteCases
  <1>3. /\ hand' \in [Talkers -> Messages] /\ fifo' \in [Talkers -> Seq(AllLines)]
        /\ pc' \in [Proc -> Places]
    <2>1. ASSUME NEW o \in BOOLEAN, Says(p, o), typed' = [typed EXCEPT ![p] = typed[p] + 1]
          PROVE  /\ hand' \in [Talkers -> Messages] /\ fifo' \in [Talkers -> Seq(AllLines)]
                 /\ pc' \in [Proc -> Places]
      <3> DEFINE line == <<p, typed[p] + 1>>
      <3>1. typed[p] + 1 \in 1..limits.lines[p]
        <4>1. typed'[p] = typed[p] + 1
          BY <2>1 DEF Typed
        <4> QED BY <1>2, <4>1, Bounds
      <3>2. line \in AllLines
        BY <3>1, LineTyped
      <3> HIDE DEF line
      <3>3. Peer(p) \in Talkers
        BY DEF Peer, Talkers
      <3>4. /\ <<line>> \in Seq(AllLines)
            /\ Told(fifo[Peer(p)], line, o) \in Seq(AllLines)
        BY <3>2, <3>3, JunkLine DEF Typed, TypeOK, Told
      <3>5. [mtype |-> SND, mtext |-> <<line>>, over |-> o] \in Messages
        BY <3>4 DEF Messages
      <3>6. Deliver(p) \in Places
        BY DEF Deliver, Places
      <3> QED BY <2>1, <3>3, <3>4, <3>5, <3>6 DEF Says, Typed, TypeOK, line
    <2>2. CASE /\ UNCHANGED <<hand, fifo>>
               /\ \E w \in {"dead", "select"} : pc' = [pc EXCEPT ![p] = w]
      BY <2>2, ZenonT(40) DEF Typed, TypeOK, Places
    <2> QED BY <2>1, <2>2, WriteCases
  <1>4. fallen' \in SUBSET Proc
    BY <1>1 DEF Typed, TypeOK, Talkers, Proc
  <1>5. TypeOK'
    BY <1>1, <1>2, <1>3, <1>4 DEF Typed, TypeOK
  <1> QED BY <1>1, <1>2, <1>5 DEF Typed

LEMMA ReturnCases ==
  ASSUME Typed, NEW p \in Talkers, NEW from, Return(p, from)
  PROVE  /\ pc[p] = from /\ \E w \in {"stdin", "select", "dead"} : pc' = [pc EXCEPT ![p] = w]
         /\ fallen' \in SUBSET Proc
  BY DEF Return, Go, Continue, Typed, TypeOK, Proc, Talkers

LEMMA SetAllTyped == ASSUME Typed, SetAll PROVE Typed'
  <1>1. UNCHANGED <<handling, hstep, id, exists, fifo, ready, hand, typed, shm, left, seen, unread,
                    msq, stored, shownA1, shownB1, fallen, limits>>
    BY Zenon DEF SetAll, sigVars, objVars, talkVars, showVars, env
  <1>2. pc' \in [Proc -> Places]
    BY DEF SetAll, Go, Typed, TypeOK, Places
  <1>3. room' \in {0, 1} /\ message' \in {0, 1} /\ room' + message' <= 1
    BY DEF SetAll, Typed, TypeOK
  <1>4. TypeOK'
    BY <1>1, <1>2, <1>3 DEF Typed, TypeOK
  <1> QED BY <1>1, <1>4 DEF Typed

LEMMA CopyTyped == ASSUME Typed, Copy PROVE Typed'
  <1>1. UNCHANGED <<handling, hstep, id, exists, fifo, ready, hand, typed, room, message, seen,
                    unread, msq, shownA1, shownB1, fallen, limits>>
    BY Zenon DEF Copy, sigVars, objVars, talkVars, showVars, env
  <1>2. stored' \in Seq(Messages)
    <2>1. hand["a"] \in Messages /\ stored \in Seq(Messages)
      BY DEF Typed, TypeOK, Talkers
    <2>2. Append(stored, hand["a"]) \in Seq(Messages)
      BY <2>1
    <2> QED BY <2>1, <2>2 DEF Copy
  <1>3. Len(stored') \in Nat
    BY <1>2, LenProperties
  <1>4. PICK k \in left :
          /\ shm' = [shm EXCEPT ![k] = Len(stored')]
          /\ IF left = {k} THEN Go("a", "copy", "room") /\ left' = Cells
                           ELSE left' = left \ {k} /\ UNCHANGED pc
    BY DEF Copy
  <1>5. shm' \in [Cells -> Nat] /\ left' \in SUBSET Cells
    <2> DEFINE n == Len(stored')
    <2>1. n \in Nat /\ shm' = [shm EXCEPT ![k] = n]
      BY <1>3, <1>4
    <2> HIDE DEF n
    <2> QED BY <1>4, <2>1 DEF Typed, TypeOK
  <1>6. pc' \in [Proc -> Places]
    <2>1. pc' = pc \/ pc' = [pc EXCEPT !["a"] = "room"]
      BY <1>4 DEF Go
    <2> QED BY <2>1 DEF Typed, TypeOK, Places
  <1>7. TypeOK'
    BY <1>1, <1>2, <1>5, <1>6 DEF Typed, TypeOK
  <1> QED BY <1>1, <1>7 DEF Typed

LEMMA WaitRoomTyped == ASSUME Typed, WaitRoom PROVE Typed'
  <1>1. UNCHANGED <<handling, hstep, id, exists, fifo, ready, hand, typed, shm, left, seen, unread,
                    msq, stored, shownA1, shownB1, limits>>
    BY Zenon DEF WaitRoom, sigVars, objVars, talkVars, showVars
  <1>2. fallen' \in SUBSET Proc /\ \E w \in {"stdin", "select", "dead"} : pc' = [pc EXCEPT !["a"] = w]
    BY ReturnCases DEF WaitRoom, Talkers
  <1>3. pc' \in [Proc -> Places]
    BY <1>2 DEF Typed, TypeOK, Places
  <1>4. room' \in {0, 1} /\ message' \in {0, 1} /\ room' + message' <= 1
    <2>1. room \in {0, 1} /\ message \in {0, 1} /\ room + message <= 1
      BY DEF Typed, TypeOK
    <2>2. \/ UNCHANGED <<room, message>>
          \/ room >= 1 /\ room' = room - 1 /\ message' = message + 1
      BY DEF WaitRoom, HasRoom, Announce
    <2> QED BY <2>1, <2>2
  <1>5. TypeOK'
    BY <1>1, <1>2, <1>3, <1>4 DEF Typed, TypeOK
  <1> QED BY <1>1, <1>5 DEF Typed

LEMMA TakeTyped == ASSUME Typed, TakeMessage PROVE Typed'
  <1>1. UNCHANGED <<handling, hstep, id, exists, fifo, ready, hand, typed, shm, left, seen,
                    msq, stored, shownA1, shownB1, fallen, limits>>
    BY Zenon DEF TakeMessage, sigVars, objVars, talkVars, env
  <1>2. pc' \in [Proc -> Places]
    BY DEF TakeMessage, Go, Typed, TypeOK, Places
  <1>3. room' \in {0, 1} /\ message' \in {0, 1} /\ room' + message' <= 1
    <2>1. room \in {0, 1} /\ message \in {0, 1} /\ room + message <= 1
      BY DEF Typed, TypeOK
    <2>2. \/ UNCHANGED <<room, message>>
          \/ message >= 1 /\ room' = room + 1 /\ message' = message - 1
      BY DEF TakeMessage
    <2> QED BY <2>1, <2>2
  <1>4. unread' \in SUBSET Cells
    BY DEF TakeMessage, Typed, TypeOK
  <1>5. TypeOK'
    BY <1>1, <1>2, <1>3, <1>4 DEF Typed, TypeOK
  <1> QED BY <1>1, <1>5 DEF Typed

LEMMA PrintTyped == ASSUME Typed, printmsg PROVE Typed'
  <1>1. UNCHANGED <<handling, hstep, id, exists, fifo, ready, hand, typed, shm, room, message, left,
                    msq, stored, shownB1, fallen, limits>>
    BY Zenon DEF printmsg, sigVars, objVars, talkVars, shmVars, env
  <1>2. pc' \in [Proc -> Places]
    <2>1. pc' = pc \/ pc' = [pc EXCEPT !["a1"] = "take"]
      BY DEF printmsg, Go
    <2> QED BY <2>1 DEF Typed, TypeOK, Places
  <1>3. seen' \in [Cells -> Nat] /\ unread' \in SUBSET Cells
    BY DEF printmsg, Typed, TypeOK
  <1>4. shownA1' \in Seq([Cells -> Nat])
    <2>1. shownA1 \in Seq([Cells -> Nat])
      BY DEF Typed, TypeOK
    <2>2. Append(shownA1, seen') \in Seq([Cells -> Nat])
      BY <1>3, <2>1
    <2> QED BY <2>1, <2>2 DEF printmsg
  <1>5. TypeOK'
    BY <1>1, <1>2, <1>3, <1>4 DEF Typed, TypeOK
  <1> QED BY <1>1, <1>5 DEF Typed

LEMMA ShmTyped ==
  ASSUME Typed, SetAll \/ snd_msg_to_shm \/ print_msg_from_shm PROVE Typed'
  BY SetAllTyped, CopyTyped, WaitRoomTyped, TakeTyped, PrintTyped
     DEF snd_msg_to_shm, print_msg_from_shm

LEMMA MsqTyped ==
  ASSUME Typed, snd_msg_to_msq \/ print_msg_from_msq PROVE Typed'
  <1>1. UNCHANGED <<handling, hstep, id, exists, fifo, ready, hand, typed, shm, room, message,
                    left, stored, seen, unread, shownA1, limits>>
    BY Zenon DEF snd_msg_to_msq, print_msg_from_msq, sigVars, objVars, talkVars, shmVars,
       showVars, env
  <1>2. pc' \in [Proc -> Places] /\ fallen' \in SUBSET Proc
    <2>1. CASE snd_msg_to_msq
      <3>1. /\ fallen' \in SUBSET Proc
            /\ \E w \in {"stdin", "select", "dead"} : pc' = [pc EXCEPT !["b"] = w]
        BY <2>1, ReturnCases DEF snd_msg_to_msq, Talkers
      <3>2. PICK w \in Places : pc' = [pc EXCEPT !["b"] = w]
        BY <3>1 DEF Places
      <3>3. pc \in [Proc -> Places]
        BY DEF Typed, TypeOK
      <3> QED BY <3>1, <3>2, <3>3
    <2>2. CASE print_msg_from_msq
      BY <2>2 DEF print_msg_from_msq, Go, env, Typed, TypeOK, Places
    <2> QED BY <2>1, <2>2
  <1>3. msq' \in Seq(Messages) /\ shownB1' \in Seq(Messages)
    <2>1. msq \in Seq(Messages) /\ hand["b"] \in Messages /\ shownB1 \in Seq(Messages)
      BY DEF Typed, TypeOK, Talkers
    <2>2. \/ UNCHANGED <<msq, shownB1>>
          \/ msq' = Append(msq, hand["b"]) /\ UNCHANGED shownB1
          \/ msq # <<>> /\ msq' = Tail(msq) /\ shownB1' = Append(shownB1, Head(msq))
      BY DEF snd_msg_to_msq, print_msg_from_msq, showVars
    <2>3. CASE msq # <<>> /\ msq' = Tail(msq) /\ shownB1' = Append(shownB1, Head(msq))
      <3>1. Head(msq) \in Messages /\ Tail(msq) \in Seq(Messages)
        BY <2>1, <2>3, HeadTailProperties
      <3>2. Append(shownB1, Head(msq)) \in Seq(Messages)
        BY <2>1, <3>1
      <3> QED BY <2>3, <3>1, <3>2
    <2>4. CASE msq' = Append(msq, hand["b"]) /\ UNCHANGED shownB1
      BY <2>1, <2>4
    <2>5. CASE UNCHANGED <<msq, shownB1>>
      BY <2>1, <2>5
    <2> QED BY <2>2, <2>3, <2>4, <2>5
  <1>4. TypeOK'
    BY <1>1, <1>2, <1>3 DEF Typed, TypeOK
  <1> QED BY <1>1, <1>4 DEF Typed

(* A signal, and the end of a process.                                       *)
Interrupts ==
  /\ UNCHANGED <<fifo, ready, hand, typed, shm, room, message, left, seen, unread, msq, stored,
                 shownA1, shownB1, limits>>
  /\ pc' \in [Proc -> Places]
  /\ \A q \in Proc : pc'[q] \in {pc[q], "handler", "dead"}

LEMMA SignalPlaces ==
  ASSUME Typed, NEW who, NEW sig \in {"INT", "USR1"}, Signal(who, sig)
  PROVE  /\ pc' \in [Proc -> Places]
         /\ \A q \in Proc : pc'[q] \in {pc[q], "handler", "dead"}
         /\ handling' \in [Proc -> {"none", "INT", "USR1"}]
  BY DEF Signal, Typed, TypeOK, Places

LEMMA HandlerLength ==
  ASSUME NEW p \in Proc PROVE Len(Handler(p)) \in 1..3
  BY DEF Handler, Proc

LEMMA Onward ==
  ASSUME Typed, NEW p \in Proc, hstep[p] <= Len(Handler(p))
  PROVE  hstep[p] + 1 \in 1..4
  <1>1. hstep[p] \in 1..4
    BY DEF Typed, TypeOK
  <1>2. Len(Handler(p)) \in 1..3
    BY HandlerLength
  <1> DEFINE n == Len(Handler(p))
  <1>3. n \in 1..3 /\ hstep[p] <= n
    BY <1>2
  <1> HIDE DEF n
  <1> QED BY <1>1, <1>3

LEMMA SignalTyped ==
  ASSUME Typed, NEW p \in Proc, sigfunc(p) \/ Interrupt(p) \/ Crash(p)
  PROVE  Interrupts /\ Typed'
  <1>1. UNCHANGED <<fifo, ready, hand, typed, shm, room, message, left, seen, unread, msq, stored,
                    shownA1, shownB1, limits>>
    BY Zenon DEF sigfunc, Interrupt, Crash, talkVars, shmVars, showVars, env
  <1>2. pc \in [Proc -> Places] /\ handling \in [Proc -> {"none", "INT", "USR1"}]
        /\ hstep \in [Proc -> 1..4] /\ id \in [Proc -> {"none", "live", "dead"}]
        /\ exists \in SUBSET {"shm", "msq"} /\ fallen \in SUBSET Proc
    BY DEF Typed, TypeOK
  <1> DEFINE Good == /\ pc' \in [Proc -> Places]
                     /\ \A q \in Proc : pc'[q] \in {pc[q], "handler", "dead"}
                     /\ handling' \in [Proc -> {"none", "INT", "USR1"}]
                     /\ hstep' \in [Proc -> 1..4]
                     /\ id' \in [Proc -> {"none", "live", "dead"}]
                     /\ exists' \in SUBSET {"shm", "msq"} /\ fallen' \in SUBSET Proc
  <1>3. ASSUME Dies(p), fallen' \in SUBSET Proc,
               handling' \in [Proc -> {"none", "INT", "USR1"}]
        PROVE  Good
    BY <1>2, <1>3 DEF Dies, Places
  <1>4. ASSUME sigfunc(p) PROVE Good
    <2>1. UNCHANGED fallen
      BY <1>4 DEF sigfunc, env
    <2>2. ASSUME hstep[p] <= Len(Handler(p)), remove(p) PROVE Good
      <3>1. hstep[p] + 1 \in 1..4
        BY <2>2, Onward
      <3>2. hstep' = [hstep EXCEPT ![p] = hstep[p] + 1] /\ UNCHANGED <<pc, handling>>
        BY <2>2 DEF remove
      <3>3. id' \in [Proc -> {"none", "live", "dead"}] /\ exists' \in SUBSET {"shm", "msq"}
        BY <1>2, <2>2 DEF remove, objVars
      <3> QED BY <1>2, <2>1, <3>1, <3>2, <3>3
    <2>3. ASSUME hstep[p] <= Len(Handler(p)), NEW who, killpid(p, who) PROVE Good
      <3>1. hstep[p] + 1 \in 1..4
        BY <2>3, Onward
      <3>2. Signal({q \in who : pc[q] # "savepid"}, "USR1") /\ UNCHANGED <<id, exists>>
        BY <2>3 DEF killpid, objVars
      <3>3. /\ pc' \in [Proc -> Places]
            /\ \A q \in Proc : pc'[q] \in {pc[q], "handler", "dead"}
            /\ handling' \in [Proc -> {"none", "INT", "USR1"}]
        BY <3>2, SignalPlaces
      <3>4. hstep' \in [Proc -> 1..4]
        BY <1>2, <2>3, <3>1 DEF killpid
      <3> QED BY <1>2, <2>1, <3>2, <3>3, <3>4
    <2>4. ASSUME Dies(p), handling' = [handling EXCEPT ![p] = "none"] PROVE Good
      <3>1. fallen' \in SUBSET Proc /\ handling' \in [Proc -> {"none", "INT", "USR1"}]
        BY <1>2, <2>1, <2>4
      <3> HIDE DEF Good
      <3> QED BY <1>3, <2>4, <3>1
    <2> HIDE DEF Good
    <2> QED BY <1>4, <2>2, <2>3, <2>4 DEF sigfunc
  <1>5. ASSUME Interrupt(p) PROVE Good
    <2>1. Signal({p}, "INT") /\ UNCHANGED <<hstep, id, exists, fallen>>
      BY <1>5 DEF Interrupt, objVars, env
    <2>2. /\ pc' \in [Proc -> Places]
          /\ \A q \in Proc : pc'[q] \in {pc[q], "handler", "dead"}
          /\ handling' \in [Proc -> {"none", "INT", "USR1"}]
      BY <2>1, SignalPlaces
    <2> QED BY <1>2, <2>1, <2>2
  <1>6. ASSUME Crash(p) PROVE Good
    <2>1. Dies(p) /\ UNCHANGED handling /\ fallen' = fallen \cup {p}
      BY <1>6 DEF Crash
    <2>2. fallen' \in SUBSET Proc
      BY <1>2, <2>1
    <2>3. handling' \in [Proc -> {"none", "INT", "USR1"}]
      BY <1>2, <2>1
    <2> HIDE DEF Good
    <2> QED BY <1>3, <2>1, <2>2, <2>3
  <1>7. Good
    <2> HIDE DEF Good
    <2> QED BY <1>4, <1>5, <1>6
  <1>8. TypeOK'
    BY <1>1, <1>7 DEF Typed, TypeOK
  <1>9. Interrupts
    BY <1>1, <1>7 DEF Interrupts
  <1> QED BY <1>1, <1>8, <1>9 DEF Typed

LEMMA NextTyped == Typed /\ [Next]_vars => Typed'
  <1> SUFFICES ASSUME Typed, [Next]_vars PROVE Typed'
    OBVIOUS
  <1>1. CASE OpenFifo
    BY <1>1, OpenFifoTyped
  <1>2. ASSUME NEW p \in Proc, Step(p) PROVE Typed'
    <2>1. CASE savepid(p) \/ sigfunc_register(p) \/ Get(p)
      BY <2>1, StartTyped
    <2>2. CASE SetAll \/ snd_msg_to_shm \/ print_msg_from_shm
      BY <2>2, ShmTyped
    <2>3. CASE snd_msg_to_msq \/ print_msg_from_msq
      BY <2>3, MsqTyped
    <2>4. CASE p \in Talkers /\ (select(p) \/ read(p) \/ write(p))
      BY <2>4, SelectTyped, ReadTyped, WriteTyped
    <2>5. CASE sigfunc(p)
      BY <2>5, SignalTyped
    <2> QED BY <1>2, <2>1, <2>2, <2>3, <2>4, <2>5 DEF Step
  <1>3. ASSUME NEW p \in Proc, Interrupt(p) \/ Crash(p) PROVE Typed'
    BY <1>3, SignalTyped
  <1>4. CASE UNCHANGED vars
    <2>1. UNCHANGED <<pc, handling, hstep, id, exists, fifo, ready, typed, hand, shm, room,
                      message, left, stored, seen, unread, shownA1, shownB1, msq, fallen, limits>>
      BY <1>4 DEF vars, sigVars, objVars, talkVars, shmVars, showVars, env
    <2>2. TypeOK'
      BY <2>1 DEF Typed, TypeOK
    <2> QED BY <2>1, <2>2 DEF Typed
  <1> QED BY <1>1, <1>2, <1>3, <1>4 DEF Next, Run

(* Every variable of the chat keeps its type, and of the two semaphores at   *)
(* most one is 1: whoever is signalled or killed, at any step.               *)
THEOREM ChatTypes == Spec => []TypeOK
  <1>1. Typed => TypeOK
    BY DEF Typed
  <1> QED BY <1>1, InitTyped, NextTyped, PTL DEF Spec

-----------------------------------------------------------------------------
(* Orders of lines and of messages.                                          *)

(* A fifo holds what q said last, and junk, and m was said before what is in *)
(* fifo f.                                                                   *)
FifoOk(f, q, t) ==
  /\ \A i \in 1..Len(f) : f[i][1] \in {q, "junk"} /\ f[i][2] <= t[q]
  /\ \A i, j \in 1..Len(f) : i < j /\ f[i][1] = q /\ f[j][1] = q => f[i][2] < f[j][2]

Past(m, f, q, t) ==
  \A k \in 1..Len(m.mtext) :
    /\ m.mtext[k][1] \in Talkers => m.mtext[k][2] <= t[m.mtext[k][1]]
    /\ m.mtext[k][1] = q => \A i \in 1..Len(f) : f[i][1] = q => m.mtext[k][2] < f[i][2]

LEMMA LineIs ==
  ASSUME NEW line \in AllLines
  PROVE  line[1] \in Talkers \cup {"junk"} /\ line[2] \in Nat
  <1> DEFINE Lines(q, l) == {<<q, j>> : j \in 1..l.lines[q]}
  <1>1. AllLines = {Junk} \cup UNION {Lines(q, l) : q \in Talkers, l \in Limits}
    BY DEF AllLines
  <1> HIDE DEF Lines
  <1>2. CASE line = Junk
    BY <1>2 DEF Junk
  <1>3. CASE line # Junk
    <2>1. PICK q \in Talkers, l \in Limits : line \in Lines(q, l)
      BY <1>1, <1>3
    <2>2. l.lines[q] \in Nat
      BY IpcAssumption
    <2>3. PICK j \in 1..l.lines[q] : line = <<q, j>>
      BY <2>1 DEF Lines
    <2> QED BY <2>2, <2>3
  <1> QED BY <1>2, <1>3

LEMMA MessageIs ==
  ASSUME NEW m \in Messages
  PROVE  /\ Len(m.mtext) \in Nat /\ DOMAIN m.mtext = 1..Len(m.mtext)
         /\ \A k \in 1..Len(m.mtext) : m.mtext[k][2] \in Nat
  <1>1. m.mtext \in Seq(AllLines)
    BY DEF Messages
  <1> QED BY <1>1, LenProperties, ElementOfSeq, LineIs

LEMMA FifoIs ==
  ASSUME NEW f \in Seq(AllLines)
  PROVE  /\ Len(f) \in Nat
         /\ \A i \in 1..Len(f) : f[i] \in AllLines /\ f[i][2] \in Nat
  BY LenProperties, ElementOfSeq, LineIs

(* The first n lines of a fifo become a message.                             *)
TakenFrom(m, g, f, n) ==
  /\ m.mtext = SubSeq(f, 1, n)
  /\ g = SubSeq(f, n + 1, Len(f))

LEMMA TakenOrder ==
  ASSUME NEW q \in Talkers, NEW t \in [Talkers -> Nat], NEW f \in Seq(AllLines),
         FifoOk(f, q, t), NEW n \in 1..Len(f), NEW m \in Messages, NEW g,
         TakenFrom(m, g, f, n)
  PROVE  /\ FifoOk(g, q, t) /\ InLine(m) /\ Past(m, g, q, t)
         /\ \A o \in Messages : Past(o, f, q, t) => Past(o, g, q, t) /\ Before(o, m)
  <1>1. /\ Len(f) \in Nat
        /\ \A i \in 1..Len(f) : f[i][1] \in {q, "junk"} /\ f[i][2] \in Nat /\ f[i][2] <= t[q]
    BY FifoIs DEF FifoOk
  <1>2. n \in Nat /\ n \in 0..Len(f)
    BY <1>1
  <1>3. /\ Len(m.mtext) = n /\ Len(g) = Len(f) - n
        /\ \A k \in 1..n : m.mtext[k] = f[k]
        /\ \A i \in 1..(Len(f) - n) : g[i] = f[n + i]
    BY <1>2, Cut DEF TakenFrom
  <1>4. \A i \in 1..Len(g) : n + i \in 1..Len(f) /\ g[i] = f[n + i]
    BY <1>1, <1>2, <1>3
  <1>5. \A k \in 1..n : k \in 1..Len(f) /\ m.mtext[k] = f[k]
    BY <1>1, <1>2, <1>3
  <1>6. \A i, j \in 1..Len(f) : i < j /\ f[i][1] = q /\ f[j][1] = q => f[i][2] < f[j][2]
    BY DEF FifoOk
  <1>7. FifoOk(g, q, t)
    <2>1. ASSUME NEW i \in 1..Len(g), NEW j \in 1..Len(g), i < j, g[i][1] = q, g[j][1] = q
          PROVE  g[i][2] < g[j][2]
      <3>1. n + i < n + j
        BY <1>2, <2>1
      <3> QED BY <1>4, <1>6, <2>1, <3>1
    <2> QED BY <1>1, <1>4, <2>1 DEF FifoOk
  <1>8. InLine(m)
    <2>1. \A k \in 1..n : m.mtext[k][1] \in Talkers => m.mtext[k][1] = q
      BY <1>1, <1>5 DEF Talkers
    <2> QED BY <1>3, <1>5, <1>6, <2>1, MessageIs DEF InLine, SamePerson
  <1>9. Past(m, g, q, t)
    <2>1. ASSUME NEW k \in 1..n, m.mtext[k][1] = q, NEW i \in 1..Len(g), g[i][1] = q
          PROVE  m.mtext[k][2] < g[i][2]
      <3>1. k \in Nat /\ k <= n /\ i \in Nat /\ i >= 1
        BY <1>1, <1>2, <1>3
      <3>2. k < n + i
        BY <1>2, <3>1
      <3>3. k \in 1..Len(f) /\ f[k] = m.mtext[k] /\ n + i \in 1..Len(f) /\ f[n + i] = g[i]
        BY <1>4, <1>5
      <3>4. f[k][2] < f[n + i][2]
        BY <1>6, <2>1, <3>2, <3>3
      <3> QED BY <3>3, <3>4
    <2>2. \A k \in 1..n : m.mtext[k][1] \in Talkers => m.mtext[k][1] = q
      BY <1>1, <1>5 DEF Talkers
    <2>3. \A k \in 1..n : m.mtext[k][2] <= t[q]
      BY <1>1, <1>5
    <2> QED BY <1>3, <2>1, <2>2, <2>3 DEF Past
  <1>10. ASSUME NEW o \in Messages, Past(o, f, q, t) PROVE Past(o, g, q, t) /\ Before(o, m)
    <2>1. Past(o, g, q, t)
      BY <1>4, <1>10 DEF Past
    <2>2. Before(o, m)
      <3>1. DOMAIN o.mtext = 1..Len(o.mtext) /\ DOMAIN m.mtext = 1..n
        BY <1>3, MessageIs
      <3>2. \A l \in 1..n : m.mtext[l][1] \in Talkers => m.mtext[l][1] = q
        BY <1>1, <1>5 DEF Talkers
      <3>3. ASSUME NEW k \in 1..Len(o.mtext), NEW l \in 1..n, SamePerson(o.mtext[k], m.mtext[l])
            PROVE  o.mtext[k][2] < m.mtext[l][2]
        <4>1. o.mtext[k][1] = q /\ m.mtext[l][1] = q
          BY <3>2, <3>3 DEF SamePerson
        <4> QED BY <1>5, <1>10, <4>1 DEF Past
      <3> QED BY <3>1, <3>3 DEF Before
    <2> QED BY <2>1, <2>2
  <1> QED BY <1>7, <1>8, <1>9, <1>10

(* p says its next line: to itself it is a message in hand, to q, its peer,  *)
(* the last in the fifo.                                                     *)
NextSaid(p, t, u) == u = [t EXCEPT ![p] = t[p] + 1]

LEMMA SaidMore ==
  ASSUME NEW p \in Talkers, NEW t \in [Talkers -> Nat], NEW u, NextSaid(p, t, u)
  PROVE  /\ u \in [Talkers -> Nat] /\ u[p] = t[p] + 1 /\ t[p] \in Nat
         /\ \A x \in Talkers : t[x] \in Nat /\ u[x] \in Nat /\ t[x] <= u[x]
  BY DEF NextSaid

LEMMA PastMore ==
  ASSUME NEW p \in Talkers, NEW t \in [Talkers -> Nat], NEW u, NextSaid(p, t, u),
         NEW q, NEW f, NEW m \in Messages, Past(m, f, q, t)
  PROVE  Past(m, f, q, u)
  <1>1. /\ \A x \in Talkers : t[x] \in Nat /\ u[x] \in Nat /\ t[x] <= u[x]
        /\ \A k \in 1..Len(m.mtext) : m.mtext[k][2] \in Nat
    BY SaidMore, MessageIs
  <1>2. ASSUME NEW k \in 1..Len(m.mtext), m.mtext[k][1] \in Talkers
        PROVE  m.mtext[k][2] <= u[m.mtext[k][1]]
    <2> DEFINE x == m.mtext[k][1]
    <2>1. m.mtext[k][2] <= t[x] /\ x \in Talkers
      BY <1>1, <1>2 DEF Past
    <2> HIDE DEF x
    <2>2. m.mtext[k][2] <= u[x]
      BY <1>1, <2>1
    <2> QED BY <2>2 DEF x
  <1> QED BY <1>2 DEF Past

LEMMA SaidOrder ==
  ASSUME NEW p \in Talkers, NEW q \in Talkers, q # p, NEW t \in [Talkers -> Nat], NEW u,
         NextSaid(p, t, u), NEW m \in Messages, m.mtext = <<<<p, t[p] + 1>>>>, NEW f
  PROVE  /\ InLine(m) /\ Past(m, f, q, u)
         /\ \A o \in Messages : Past(o, f, q, t) => Before(o, m)
  <1>1. Len(m.mtext) = 1 /\ m.mtext[1] = <<p, t[p] + 1>> /\ DOMAIN m.mtext = 1..1
    BY MessageIs
  <1>2. u[p] = t[p] + 1 /\ t[p] \in Nat
    BY SaidMore
  <1>3. InLine(m)
    BY <1>1 DEF InLine, SamePerson
  <1>4. Past(m, f, q, u)
    BY <1>1, <1>2 DEF Past
  <1>5. ASSUME NEW o \in Messages, Past(o, f, q, t) PROVE Before(o, m)
    <2>1. \A k \in 1..Len(o.mtext) : o.mtext[k][1] = p => o.mtext[k][2] <= t[p]
      BY <1>5 DEF Past, Talkers
    <2>2. \A k \in 1..Len(o.mtext) : o.mtext[k][2] \in Nat
      BY MessageIs
    <2>3. \A k \in 1..Len(o.mtext) : o.mtext[k][1] = p => o.mtext[k][2] < t[p] + 1
      BY <1>2, <2>1, <2>2
    <2>4. DOMAIN o.mtext = 1..Len(o.mtext)
      BY MessageIs
    <2>5. m.mtext[1][1] = p /\ m.mtext[1][2] = t[p] + 1 /\ \A l \in DOMAIN m.mtext : l = 1
      BY <1>1
    <2> QED BY <2>3, <2>4, <2>5 DEF Before, SamePerson
  <1> QED BY <1>3, <1>4, <1>5

LEMMA HeardOrder ==
  ASSUME NEW p \in Talkers, NEW t \in [Talkers -> Nat], NEW u, NextSaid(p, t, u),
         NEW f \in Seq(AllLines), NEW g, FifoOk(f, p, t), NEW line \in AllLines,
         line = <<p, t[p] + 1>>, g = Append(f, line)
  PROVE  /\ FifoOk(g, p, u)
         /\ \A o \in Messages : Past(o, f, p, t) => Past(o, g, p, u)
  <1>1. /\ Len(f) \in Nat /\ Len(g) = Len(f) + 1 /\ g[Len(f) + 1] = line
        /\ \A i \in 1..Len(f) : g[i] = f[i]
    BY AppendProperties, FifoIs
  <1>2. u[p] = t[p] + 1 /\ t[p] \in Nat /\ line[1] = p /\ line[2] = t[p] + 1
    BY SaidMore
  <1>3. \A i \in 1..Len(g) : i \in 1..Len(f) \/ i = Len(f) + 1
    BY <1>1
  <1>4. \A i \in 1..Len(f) : f[i][1] \in {p, "junk"} /\ f[i][2] \in Nat /\ f[i][2] <= t[p]
    BY FifoIs DEF FifoOk
  <1>5. FifoOk(g, p, u)
    <2>1. ASSUME NEW i \in 1..Len(g) PROVE g[i][1] \in {p, "junk"} /\ g[i][2] <= u[p]
      BY <1>1, <1>2, <1>3, <1>4
    <2>2. ASSUME NEW i \in 1..Len(g), NEW j \in 1..Len(g), i < j, g[i][1] = p, g[j][1] = p
          PROVE  g[i][2] < g[j][2]
      <3>1. i \in 1..Len(f)
        BY <1>1, <2>2
      <3>2. CASE j \in 1..Len(f)
        BY <1>1, <2>2, <3>1, <3>2 DEF FifoOk
      <3>3. CASE j = Len(f) + 1
        BY <1>1, <1>2, <1>4, <3>1, <3>3
      <3> QED BY <1>3, <3>2, <3>3
    <2> QED BY <2>1, <2>2 DEF FifoOk
  <1>6. ASSUME NEW o \in Messages, Past(o, f, p, t) PROVE Past(o, g, p, u)
    <2>1. Past(o, f, p, u)
      BY <1>6, PastMore
    <2>2. ASSUME NEW k \in 1..Len(o.mtext), o.mtext[k][1] = p, NEW i \in 1..Len(g), g[i][1] = p
          PROVE  o.mtext[k][2] < g[i][2]
      <3>1. o.mtext[k][2] \in Nat /\ o.mtext[k][2] <= t[p]
        BY <1>6, <2>2, MessageIs DEF Past
      <3>2. CASE i \in 1..Len(f)
        BY <1>1, <2>1, <2>2, <3>2 DEF Past
      <3>3. CASE i = Len(f) + 1
        BY <1>1, <1>2, <3>1, <3>3
      <3> QED BY <1>3, <3>2, <3>3
    <2> QED BY <2>1, <2>2 DEF Past
  <1> QED BY <1>5, <1>6

LEMMA JunkHeard ==
  ASSUME NEW q \in Talkers, NEW t \in [Talkers -> Nat], NEW f \in Seq(AllLines), FifoOk(f, q, t)
  PROVE  /\ Append(f, Junk) \in Seq(AllLines) /\ FifoOk(Append(f, Junk), q, t)
         /\ \A o \in Messages : Past(o, f, q, t) => Past(o, Append(f, Junk), q, t)
  <1> DEFINE g == Append(f, Junk)
  <1>1. /\ Len(f) \in Nat /\ g \in Seq(AllLines) /\ Len(g) = Len(f) + 1 /\ g[Len(f) + 1] = Junk
        /\ \A i \in 1..Len(f) : g[i] = f[i]
    BY AppendProperties, FifoIs, JunkLine
  <1>2. Junk[1] = "junk" /\ Junk[2] = 0 /\ q # "junk"
    BY DEF Junk, Talkers
  <1> HIDE DEF g
  <1>3. \A i \in 1..Len(g) : i \in 1..Len(f) \/ i = Len(f) + 1
    BY <1>1
  <1>4. \A i \in 1..Len(g) : g[i][1] = q => i \in 1..Len(f) /\ g[i] = f[i]
    BY <1>1, <1>2, <1>3
  <1>5. FifoOk(g, q, t)
    <2>1. ASSUME NEW i \in 1..Len(g) PROVE g[i][1] \in {q, "junk"} /\ g[i][2] <= t[q]
      <3>1. CASE i \in 1..Len(f)
        BY <1>1, <3>1 DEF FifoOk
      <3>2. CASE i = Len(f) + 1
        BY <1>1, <1>2, <3>2
      <3> QED BY <1>3, <3>1, <3>2
    <2> QED BY <1>4, <2>1 DEF FifoOk
  <1>6. \A o \in Messages : Past(o, f, q, t) => Past(o, g, q, t)
    BY <1>4 DEF Past
  <1> QED BY <1>1, <1>5, <1>6 DEF g

(* A message after all that are in order.                                    *)
LEMMA OrderAppend ==
  ASSUME NEW s \in Seq(Messages), InOrder(s), NEW m \in Messages, InLine(m),
         \A i \in 1..Len(s) : Before(s[i], m)
  PROVE  InOrder(Append(s, m))
  <1> DEFINE r == Append(s, m)
  <1>1. /\ Len(s) \in Nat /\ Len(r) = Len(s) + 1 /\ r \in Seq(Messages)
        /\ r[Len(s) + 1] = m /\ \A i \in 1..Len(s) : r[i] = s[i]
    BY AppendProperties, LenProperties
  <1> HIDE DEF r
  <1>2. DOMAIN s = 1..Len(s) /\ DOMAIN r = 1..Len(r)
    BY <1>1, LenProperties
  <1>3. \A i \in 1..Len(r) : i \in 1..Len(s) \/ i = Len(s) + 1
    BY <1>1
  <1>4. \A i, j \in 1..Len(r) : i < j => i \in 1..Len(s)
    BY <1>1
  <1>5. InOrder(r)
    BY <1>1, <1>2, <1>3, <1>4 DEF InOrder
  <1> QED BY <1>5 DEF r

LEMMA OrderFirst ==
  ASSUME NEW s \in Seq(Messages), NEW t \in Seq(Messages), InOrder(s \o t)
  PROVE  InOrder(s)
  <1> DEFINE r == s \o t
  <1>1. /\ Len(s) \in Nat /\ Len(t) \in Nat /\ Len(r) = Len(s) + Len(t)
        /\ r \in Seq(Messages)
        /\ \A i \in 1..(Len(s) + Len(t)) : r[i] = IF i <= Len(s) THEN s[i] ELSE t[i - Len(s)]
    BY ConcatProperties, LenProperties
  <1> HIDE DEF r
  <1>2. DOMAIN s = 1..Len(s) /\ DOMAIN r = 1..Len(r)
    BY <1>1, LenProperties
  <1>3. \A i \in 1..Len(s) : i \in 1..Len(r) /\ r[i] = s[i]
    BY <1>1
  <1>4. InOrder(r)
    BY DEF r
  <1> QED BY <1>2, <1>3, <1>4 DEF InOrder

(* One side of the chat, a's or b's: fifo f with what q has said, message h  *)
(* in hand, the place w of the talker, and s, what it has handed on.         *)
Handing == {"copy", "msgsnd"}

SideOk(f, q, t, h, w, s) ==
  /\ FifoOk(f, q, t)
  /\ InLine(h) /\ Past(h, f, q, t)
  /\ InOrder(s)
  /\ \A i \in 1..Len(s) : /\ Past(s[i], f, q, t)
                          /\ w \in Handing => Before(s[i], h)

LEMMA SideTaken ==
  ASSUME NEW q \in Talkers, NEW t \in [Talkers -> Nat], NEW f \in Seq(AllLines), NEW h, NEW w,
         NEW s \in Seq(Messages), SideOk(f, q, t, h, w, s), NEW n \in 1..Len(f),
         NEW m \in Messages, NEW g, TakenFrom(m, g, f, n), NEW v
  PROVE  SideOk(g, q, t, m, v, s)
  <1>1. FifoOk(f, q, t) /\ InOrder(s) /\ \A i \in 1..Len(s) : Past(s[i], f, q, t)
    BY DEF SideOk
  <1>2. \A i \in 1..Len(s) : s[i] \in Messages
    BY ElementOfSeq
  <1>3. /\ FifoOk(g, q, t) /\ InLine(m) /\ Past(m, g, q, t)
        /\ \A o \in Messages : Past(o, f, q, t) => Past(o, g, q, t) /\ Before(o, m)
    BY <1>1, TakenOrder
  <1> QED BY <1>1, <1>2, <1>3 DEF SideOk

(* A fifo in which nothing was put.                                          *)
LEMMA FifoMore ==
  ASSUME NEW p \in Talkers, NEW q \in Talkers, NEW t \in [Talkers -> Nat], NEW u,
         NextSaid(p, t, u), NEW f \in Seq(AllLines), FifoOk(f, q, t)
  PROVE  FifoOk(f, q, u)
  <1>1. t[q] \in Nat /\ u[q] \in Nat /\ t[q] <= u[q]
    BY SaidMore
  <1>2. \A i \in 1..Len(f) : f[i][2] \in Nat /\ f[i][2] <= t[q]
    BY FifoIs DEF FifoOk
  <1>3. \A i \in 1..Len(f) : f[i][2] <= u[q]
    BY <1>1, <1>2
  <1> QED BY <1>3 DEF FifoOk

LEMMA SideSaid ==
  ASSUME NEW p \in Talkers, NEW q \in Talkers, q # p, NEW t \in [Talkers -> Nat], NEW u,
         NextSaid(p, t, u), NEW f \in Seq(AllLines), NEW h, NEW w, NEW s \in Seq(Messages),
         SideOk(f, q, t, h, w, s), NEW m \in Messages, m.mtext = <<<<p, t[p] + 1>>>>, NEW v
  PROVE  SideOk(f, q, u, m, v, s)
  <1>1. FifoOk(f, q, t) /\ InOrder(s) /\ \A i \in 1..Len(s) : Past(s[i], f, q, t)
    BY DEF SideOk
  <1>2. \A i \in 1..Len(s) : s[i] \in Messages
    BY ElementOfSeq
  <1>3. /\ InLine(m) /\ Past(m, f, q, u)
        /\ \A o \in Messages : Past(o, f, q, t) => Before(o, m)
    BY SaidOrder
  <1>4. FifoOk(f, q, u)
    BY <1>1, FifoMore
  <1>5. \A i \in 1..Len(s) : Past(s[i], f, q, u)
    BY <1>1, <1>2, PastMore
  <1> QED BY <1>1, <1>2, <1>3, <1>4, <1>5 DEF SideOk

LEMMA SideHeard ==
  ASSUME NEW p \in Talkers, NEW t \in [Talkers -> Nat], NEW u, NextSaid(p, t, u),
         NEW f \in Seq(AllLines), NEW h \in Messages, NEW w, NEW s \in Seq(Messages),
         SideOk(f, p, t, h, w, s), NEW line \in AllLines, line = <<p, t[p] + 1>>,
         NEW o \in BOOLEAN, NEW g, g = Told(f, line, o)
  PROVE  SideOk(g, p, u, h, w, s)
  <1>1. /\ FifoOk(f, p, t) /\ InLine(h) /\ Past(h, f, p, t) /\ InOrder(s)
        /\ \A i \in 1..Len(s) : Past(s[i], f, p, t) /\ (w \in Handing => Before(s[i], h))
    BY DEF SideOk
  <1>2. \A i \in 1..Len(s) : s[i] \in Messages
    BY ElementOfSeq
  <1> DEFINE e == Append(f, line)
  <1>3. e = Append(f, line) /\ e \in Seq(AllLines)
    BY AppendProperties
  <1>4. g = e \/ g = Append(e, Junk)
    BY DEF Told
  <1> HIDE DEF e
  <1>5. FifoOk(e, p, u) /\ \A m \in Messages : Past(m, f, p, t) => Past(m, e, p, u)
    BY <1>1, <1>3, HeardOrder
  <1>6. u \in [Talkers -> Nat]
    BY SaidMore
  <1>7. FifoOk(g, p, u) /\ \A m \in Messages : Past(m, f, p, t) => Past(m, g, p, u)
    BY <1>5, <1>6, <1>4, <1>3, JunkHeard
  <1> QED BY <1>1, <1>2, <1>7 DEF SideOk

(* A line that nobody was left to read.                                      *)
LEMMA SideMore ==
  ASSUME NEW p \in Talkers, NEW q \in Talkers, NEW t \in [Talkers -> Nat], NEW u,
         NextSaid(p, t, u), NEW f \in Seq(AllLines), NEW h \in Messages, NEW w,
         NEW s \in Seq(Messages), SideOk(f, q, t, h, w, s)
  PROVE  SideOk(f, q, u, h, w, s)
  <1>1. /\ FifoOk(f, q, t) /\ InLine(h) /\ Past(h, f, q, t) /\ InOrder(s)
        /\ \A i \in 1..Len(s) : Past(s[i], f, q, t) /\ (w \in Handing => Before(s[i], h))
    BY DEF SideOk
  <1>2. \A i \in 1..Len(s) : s[i] \in Messages
    BY ElementOfSeq
  <1>3. FifoOk(f, q, u) /\ Past(h, f, q, u)
    BY <1>1, FifoMore, PastMore
  <1>4. \A i \in 1..Len(s) : Past(s[i], f, q, u)
    BY <1>1, <1>2, PastMore
  <1> QED BY <1>1, <1>3, <1>4 DEF SideOk

LEMMA SideHanded ==
  ASSUME NEW q, NEW t, NEW f, NEW h \in Messages, NEW w \in Handing,
         NEW s \in Seq(Messages), SideOk(f, q, t, h, w, s), NEW v, v \notin Handing
  PROVE  SideOk(f, q, t, h, v, Append(s, h))
  <1> DEFINE r == Append(s, h)
  <1>1. /\ FifoOk(f, q, t) /\ InLine(h) /\ Past(h, f, q, t) /\ InOrder(s)
        /\ \A i \in 1..Len(s) : Past(s[i], f, q, t) /\ Before(s[i], h)
    BY DEF SideOk
  <1>2. InOrder(r)
    BY <1>1, OrderAppend
  <1>3. /\ Len(s) \in Nat /\ Len(r) = Len(s) + 1
        /\ r[Len(s) + 1] = h /\ \A i \in 1..Len(s) : r[i] = s[i]
    BY AppendProperties, LenProperties
  <1> HIDE DEF r
  <1>4. \A i \in 1..Len(r) : i \in 1..Len(s) \/ i = Len(s) + 1
    BY <1>3
  <1>5. \A i \in 1..Len(r) : Past(r[i], f, q, t)
    BY <1>1, <1>3, <1>4
  <1>6. SideOk(f, q, t, h, v, r)
    BY <1>1, <1>2, <1>5 DEF SideOk
  <1> QED BY <1>6 DEF r

(* b hands a message to the queue, and b1 takes one from it.                 *)
LEMMA QueuePut ==
  ASSUME NEW s \in Seq(Messages), NEW t \in Seq(Messages), NEW h \in Messages
  PROVE  s \o Append(t, h) = Append(s \o t, h)
  <1>1. <<h>> \in Seq(Messages) /\ s \o t \in Seq(Messages)
    BY ConcatProperties
  <1>2. s \o (t \o <<h>>) = (s \o t) \o <<h>>
    BY <1>1, ConcatAssociative
  <1> QED BY <1>1, <1>2, AppendIsConcat

LEMMA QueueGot ==
  ASSUME NEW s \in Seq(Messages), NEW t \in Seq(Messages), t # <<>>
  PROVE  Append(s, Head(t)) \o Tail(t) = s \o t
  <1> DEFINE a == Append(s, Head(t))
             b == Tail(t)
             joined == a \o b
             whole == s \o t
  <1>1. /\ Head(t) = t[1] /\ Head(t) \in Messages /\ b \in Seq(Messages)
        /\ Len(b) = Len(t) - 1 /\ \A i \in 1..Len(b) : b[i] = t[i + 1]
    BY HeadTailProperties
  <1>2. /\ a \in Seq(Messages) /\ Len(a) = Len(s) + 1
        /\ a[Len(s) + 1] = t[1] /\ \A i \in 1..Len(s) : a[i] = s[i]
    BY <1>1, AppendProperties
  <1> HIDE DEF a, b
  <1>3. /\ joined \in Seq(Messages) /\ Len(joined) = Len(a) + Len(b)
        /\ \A i \in 1..(Len(a) + Len(b)) :
             joined[i] = IF i <= Len(a) THEN a[i] ELSE b[i - Len(a)]
    BY <1>1, <1>2, ConcatProperties
  <1>4. /\ whole \in Seq(Messages) /\ Len(whole) = Len(s) + Len(t)
        /\ \A i \in 1..(Len(s) + Len(t)) :
             whole[i] = IF i <= Len(s) THEN s[i] ELSE t[i - Len(s)]
    BY ConcatProperties
  <1>5. Len(s) \in Nat /\ Len(t) \in Nat \ {0}
    BY LenProperties, EmptySeq
  <1> HIDE DEF joined, whole
  <1>6. Len(joined) = Len(whole)
    BY <1>1, <1>2, <1>3, <1>4, <1>5
  <1>7. ASSUME NEW i \in 1..Len(joined) PROVE joined[i] = whole[i]
    <2>1. i \in 1..(Len(a) + Len(b)) /\ i \in 1..(Len(s) + Len(t)) /\ i \in Nat
      BY <1>3, <1>4, <1>5, <1>6, <1>7
    <2>2. CASE i <= Len(s)
      <3>1. joined[i] = a[i] /\ whole[i] = s[i] /\ i \in 1..Len(s)
        BY <1>2, <1>3, <1>4, <1>5, <2>1, <2>2
      <3> QED BY <1>2, <3>1
    <2>3. CASE i = Len(s) + 1
      <3>1. joined[i] = a[i] /\ whole[i] = t[i - Len(s)]
        <4>1. i <= Len(a) /\ ~(i <= Len(s))
          BY <1>2, <1>5, <2>3
        <4> QED BY <1>3, <1>4, <2>1, <4>1
      <3>2. i - Len(s) = 1
        BY <1>5, <2>3
      <3> QED BY <1>2, <2>3, <3>1, <3>2
    <2>4. CASE i > Len(s) + 1
      <3>1. joined[i] = b[i - Len(a)] /\ whole[i] = t[i - Len(s)]
        BY <1>2, <1>3, <1>4, <1>5, <2>1, <2>4
      <3>2. i - Len(a) \in 1..Len(b) /\ (i - Len(a)) + 1 = i - Len(s)
        BY <1>1, <1>2, <1>5, <2>1, <2>4
      <3> QED BY <1>1, <3>1, <3>2
    <2> QED BY <1>5, <2>1, <2>2, <2>3, <2>4
  <1>8. joined = whole
    BY <1>3, <1>4, <1>6, <1>7, SeqEqual
  <1> QED BY <1>8 DEF joined, whole, a, b

-----------------------------------------------------------------------------
(* What each side has handed on, in order: b's window counts with what is    *)
(* still in its queue.                                                       *)

Handed(p) == IF p = "a" THEN stored ELSE shownB1 \o msq

(* Where p is: a, once it has begun to copy, is as good as at its semop.     *)
Stands(p) == IF p = "a" /\ pc["a"] = "copy" /\ left # Cells THEN "room" ELSE pc[p]

Side(p) == SideOk(fifo[p], Peer(p), typed, hand[p], Stands(p), Handed(p))

Sides == Side("a") /\ Side("b")

LEMMA HandedIs ==
  ASSUME Typed, NEW p \in Talkers
  PROVE  /\ Peer(p) \in Talkers /\ Peer(p) # p
         /\ fifo[p] \in Seq(AllLines) /\ hand[p] \in Messages /\ Handed(p) \in Seq(Messages)
         /\ typed \in [Talkers -> Nat]
  <1>1. stored \in Seq(Messages) /\ shownB1 \in Seq(Messages) /\ msq \in Seq(Messages)
    BY DEF Typed, TypeOK
  <1>2. Handed(p) \in Seq(Messages)
    BY <1>1, ConcatProperties DEF Handed
  <1> QED BY <1>2 DEF Typed, TypeOK, Peer, Talkers

LEMMA EmptyOrder ==
  /\ InLine(NoMsg) /\ InOrder(<<>>)
  /\ \A f, q, t : Past(NoMsg, f, q, t)
  /\ \A q, t : FifoOk(<<>>, q, t)
  BY DEF InLine, InOrder, Past, FifoOk, NoMsg, Before

LEMMA InitSides == Init => Sides
  <1> SUFFICES ASSUME Init PROVE Sides
    OBVIOUS
  <1>1. ASSUME NEW p \in Talkers PROVE Side(p)
    <2>1. fifo[p] = <<>> /\ hand[p] = NoMsg
      BY <1>1 DEF Init
    <2>2. Handed(p) = <<>>
      <3>1. stored = <<>> /\ shownB1 = <<>> /\ msq = <<>>
        BY DEF Init
      <3>2. <<>> \in Seq(Messages)
        OBVIOUS
      <3>3. <<>> \o <<>> = <<>>
        BY <3>2, ConcatEmptySeq
      <3> QED BY <3>1, <3>3 DEF Handed
    <2>3. SideOk(<<>>, Peer(p), typed, NoMsg, Stands(p), <<>>)
      BY EmptyOrder DEF SideOk
    <2> QED BY <2>1, <2>2, <2>3 DEF Side
  <1> QED BY <1>1 DEF Sides, Talkers

(* A step that says and hands on nothing.                                    *)
Calm ==
  /\ UNCHANGED <<fifo, hand, typed, stored, msq, shownB1>>
  /\ \A p \in Talkers : Stands(p)' \in Handing => Stands(p) \in Handing

LEMMA CalmSides == ASSUME Typed, Sides, Calm PROVE Sides'
  <1>1. ASSUME NEW p \in Talkers, Side(p) PROVE Side(p)'
    <2>1. Handed(p)' = Handed(p) /\ fifo'[p] = fifo[p] /\ hand'[p] = hand[p] /\ typed' = typed
          /\ (Stands(p)' \in Handing => Stands(p) \in Handing)
      BY DEF Calm, Handed
    <2> DEFINE v == Stands(p)'
    <2>2. SideOk(fifo[p], Peer(p), typed, hand[p], v, Handed(p))
      BY <1>1, <2>1 DEF Side, SideOk
    <2>3. Side(p)' = SideOk(fifo'[p], Peer(p), typed', hand'[p], v, Handed(p)')
      BY DEF Side, Peer
    <2> QED BY <2>1, <2>2, <2>3
  <1> QED BY <1>1 DEF Sides, Talkers

(* How the places of a step move.                                            *)
LEMMA MovedPlaces ==
  ASSUME Typed, NEW p \in Proc, NEW w, pc' = [pc EXCEPT ![p] = w]
  PROVE  pc'[p] = w /\ \A q \in Proc : q # p => pc'[q] = pc[q]
  BY DEF Typed, TypeOK

LEMMA StartCalm ==
  ASSUME Typed, NEW p \in Proc, savepid(p) \/ sigfunc_register(p) \/ Get(p), UNCHANGED msq
  PROVE  Calm
  <1>1. UNCHANGED <<fifo, hand, typed, stored, shownB1, left>>
    BY Zenon DEF savepid, sigfunc_register, Get, talkVars, shmVars, showVars
  <1>2. \E w \in {"register", "open1", "get", "setall", "take", "select", "rcv"} :
          pc' = [pc EXCEPT ![p] = w]
    BY DEF savepid, sigfunc_register, Get, Go, Proc
  <1>3. PICK w \in {"register", "open1", "get", "setall", "take", "select", "rcv"} :
          pc'[p] = w /\ \A q \in Proc : q # p => pc'[q] = pc[q]
    BY <1>2, MovedPlaces
  <1> QED BY <1>1, <1>3 DEF Calm, Stands, Handing, Talkers, Proc

LEMMA OpenCalm == ASSUME Typed, OpenFifo PROVE Calm
  <1>1. UNCHANGED <<fifo, hand, typed, stored, msq, shownB1, left>>
    BY Zenon DEF OpenFifo, talkVars, shmVars, showVars
  <1>2. PICK v, w \in {"open2", "get"} : pc' = [pc EXCEPT !["a"] = v, !["b"] = w]
    BY DEF OpenFifo, AfterOpen
  <1>3. pc'["a"] = v /\ pc'["b"] = w
    BY <1>2 DEF Typed, TypeOK, Proc
  <1> QED BY <1>1, <1>3 DEF Calm, Stands, Handing, Talkers

LEMMA SelectCalm == ASSUME Typed, NEW p \in Talkers, select(p) PROVE Calm
  <1>1. /\ UNCHANGED <<fifo, hand, typed, stored, msq, shownB1, left>>
        /\ pc' = [pc EXCEPT ![p] = "fdr"]
    BY DEF select, Go, shmVars, showVars
  <1>2. p \in Proc
    BY DEF Talkers, Proc
  <1>3. pc'[p] = "fdr" /\ \A q \in Proc : q # p => pc'[q] = pc[q]
    BY <1>1, <1>2, MovedPlaces
  <1> QED BY <1>1, <1>3 DEF Calm, Stands, Handing, Talkers, Proc

LEMMA SignalCalm ==
  ASSUME Typed, NEW p \in Proc, sigfunc(p) \/ Interrupt(p) \/ Crash(p)
  PROVE  Calm
  <1>1. Interrupts
    BY SignalTyped
  <1> QED BY <1>1 DEF Interrupts, Calm, Stands, Handing, Talkers, Proc

LEMMA ShmCalm ==
  ASSUME Typed, SetAll \/ WaitRoom \/ print_msg_from_shm
  PROVE  Calm
  <1>1. UNCHANGED <<fifo, hand, typed, stored, msq, shownB1, left>>
    BY DEF SetAll, WaitRoom, print_msg_from_shm, TakeMessage, printmsg, talkVars, shmVars, showVars
  <1>2. /\ pc'["a"] = pc["a"] \/ pc'["a"] \in {"select", "stdin", "dead"}
        /\ pc'["b"] = pc["b"]
    <2>1. CASE SetAll
      BY <2>1 DEF SetAll, Go, Typed, TypeOK, Proc
    <2>2. CASE WaitRoom
      <3>1. \E w \in {"stdin", "select", "dead"} : pc' = [pc EXCEPT !["a"] = w]
        BY <2>2, ReturnCases DEF WaitRoom, Talkers
      <3> QED BY <3>1 DEF Typed, TypeOK, Proc
    <2>3. CASE print_msg_from_shm
      <3>1. pc' = pc \/ \E w \in {"print", "spin", "take"} : pc' = [pc EXCEPT !["a1"] = w]
        BY <2>3 DEF print_msg_from_shm, TakeMessage, printmsg, Go
      <3> QED BY <3>1 DEF Typed, TypeOK, Proc
    <2> QED BY <2>1, <2>2, <2>3
  <1> QED BY <1>1, <1>2 DEF Calm, Stands, Handing, Talkers

-----------------------------------------------------------------------------
(* What a step leaves as it was.                                             *)

LEMMA SideKept ==
  ASSUME NEW q \in Talkers, Side(q), fifo'[q] = fifo[q], hand'[q] = hand[q],
         UNCHANGED <<typed, stored, shownB1, msq, left>>, pc'[q] = pc[q]
  PROVE  Side(q)'
  <1>1. Handed(q)' = Handed(q)
    BY DEF Handed
  <1>2. Stands(q)' = Stands(q)
    BY DEF Stands
  <1> QED BY <1>1, <1>2 DEF Side, Peer

(* A queue made anew: what the old one held is not shown.                    *)
LEMMA GetSides == ASSUME Typed, Sides, NEW p \in Proc, Get(p) PROVE Sides'
  <1>1. CASE UNCHANGED msq
    BY <1>1, StartCalm, CalmSides
  <1>2. CASE ~(UNCHANGED msq)
    <2>1. /\ p \in {"b", "b1"} /\ msq' = <<>>
          /\ pc' = [pc EXCEPT ![p] = IF p = "b" THEN "select" ELSE "rcv"]
      BY <1>2 DEF Get, Go, Object, Proc
    <2>2. UNCHANGED <<fifo, hand, typed, stored, shownB1, left>>
      BY Zenon DEF Get, talkVars, showVars
    <2>3. pc'["a"] = pc["a"] /\ (pc'["b"] = pc["b"] \/ pc'["b"] = "select")
      BY <2>1 DEF Typed, TypeOK, Proc
    <2>4. Side("a")'
      <3>1. Handed("a")' = Handed("a") /\ Stands("a")' = Stands("a")
        BY <2>2, <2>3 DEF Handed, Stands
      <3> QED BY <2>2, <3>1 DEF Sides, Side, Peer
    <2>5. Side("b")'
      <3> DEFINE r == shownB1 \o msq
                 v == Stands("b")'
      <3>1. shownB1 \in Seq(Messages) /\ msq \in Seq(Messages)
        BY DEF Typed, TypeOK
      <3>2. SideOk(fifo["b"], "a", typed, hand["b"], Stands("b"), r)
        BY DEF Sides, Side, Peer, Handed
      <3>3. InOrder(shownB1)
        BY <3>1, <3>2, OrderFirst DEF SideOk
      <3>4. \A i \in 1..Len(shownB1) : i \in 1..Len(r) /\ r[i] = shownB1[i]
        BY <3>1, ConcatProperties, LenProperties
      <3>5. v \in Handing => Stands("b") \in Handing
        BY <2>2, <2>3 DEF Stands, Handing
      <3> HIDE DEF r, v
      <3>6. SideOk(fifo["b"], "a", typed, hand["b"], v, shownB1)
        BY <3>2, <3>3, <3>4, <3>5 DEF SideOk
      <3>7. Handed("b")' = shownB1
        BY <2>1, <2>2, <3>1, ConcatEmptySeq DEF Handed
      <3> QED BY <2>2, <3>6, <3>7 DEF Side, Peer, v
    <2> QED BY <2>4, <2>5 DEF Sides
  <1> QED BY <1>1, <1>2

LEMMA ReadSides == ASSUME Typed, Sides, NEW p \in Talkers, read(p) PROVE Sides'
  <1>1. /\ UNCHANGED <<typed, left, stored, msq, shownB1>> /\ p \in Proc
        /\ Peer(p) \in Talkers /\ Peer(p) # p /\ Peer(p) \in Proc
    BY ReadCases, HandedIs DEF Talkers, Proc
  <1>2. Side(p) /\ Side(Peer(p))
    BY DEF Sides, Talkers, Peer
  <1>3. ASSUME NEW n \in Nat, NEW o \in BOOLEAN, Reads(p, n, o) PROVE Sides'
    <2> DEFINE m == [mtype |-> RCV, mtext |-> SubSeq(fifo[p], 1, n), over |-> o]
               g == Rest(p, n)
               f == fifo[p]
               s == Handed(p)
               v == Stands(p)'
    <2>1. /\ hand' = [hand EXCEPT ![p] = m] /\ fifo' = [fifo EXCEPT ![p] = g]
          /\ pc' = [pc EXCEPT ![p] = Deliver(p)] /\ n \in 1..Len(f)
      BY <1>3 DEF Reads
    <2>2. f \in Seq(AllLines) /\ s \in Seq(Messages) /\ typed \in [Talkers -> Nat]
      BY HandedIs
    <2>3. m \in Messages
      <3>1. Len(f) \in Nat /\ n \in 0..Len(f)
        BY <2>1, <2>2, LenProperties
      <3>2. SubSeq(f, 1, n) \in Seq(AllLines)
        BY <2>2, <3>1, Cut
      <3> QED BY <3>2 DEF Messages
    <2>4. TakenFrom(m, g, f, n)
      BY DEF TakenFrom, Rest
    <2>5. SideOk(f, Peer(p), typed, hand[p], Stands(p), s)
      BY <1>2 DEF Side
    <2>6. /\ hand'[p] = m /\ fifo'[p] = g
          /\ hand'[Peer(p)] = hand[Peer(p)] /\ fifo'[Peer(p)] = fifo[Peer(p)]
          /\ \A q \in Proc : q # p => pc'[q] = pc[q]
      BY <1>1, <2>1 DEF Typed, TypeOK
    <2>7. s' = s
      BY <1>1 DEF Handed
    <2> HIDE DEF m, g, f, s, v
    <2>8. SideOk(g, Peer(p), typed, m, v, s)
      BY <1>1, <2>1, <2>2, <2>3, <2>4, <2>5, SideTaken
    <2>9. Side(p)'
      BY <1>1, <2>6, <2>7, <2>8 DEF Side, Peer, s, v
    <2>10. Side(Peer(p))'
      BY <1>1, <1>2, <2>6, SideKept
    <2> QED BY <2>9, <2>10 DEF Sides, Talkers, Peer
  <1>4. ASSUME UNCHANGED <<hand, fifo>>,
               \E w \in {"dead", "stdin"} : pc' = [pc EXCEPT ![p] = w]
        PROVE  Sides'
    <2>1. PICK w \in {"dead", "stdin"} : pc'[p] = w /\ \A q \in Proc : q # p => pc'[q] = pc[q]
      BY <1>1, <1>4, MovedPlaces
    <2>2. Calm
      BY <1>1, <1>4, <2>1 DEF Calm, Stands, Handing, Talkers, Proc
    <2> QED BY <2>2, CalmSides
  <1> QED BY <1>3, <1>4, ReadCases

LEMMA WriteSides == ASSUME Typed, Sides, NEW p \in Talkers, write(p) PROVE Sides'
  <1> DEFINE q == Peer(p)
  <1>1. /\ UNCHANGED <<left, stored, msq, shownB1>> /\ p \in Proc
        /\ q \in Talkers /\ q # p /\ q \in Proc /\ Peer(q) = p
    BY WriteCases, HandedIs DEF Talkers, Proc, Peer
  <1>2. Side(p) /\ Side(q)
    BY DEF Sides, Talkers, Peer
  <1>3. /\ fifo[p] \in Seq(AllLines) /\ hand[p] \in Messages /\ Handed(p) \in Seq(Messages)
        /\ fifo[q] \in Seq(AllLines) /\ hand[q] \in Messages /\ Handed(q) \in Seq(Messages)
        /\ typed \in [Talkers -> Nat]
    BY <1>1, HandedIs
  <1>4. Handed(p)' = Handed(p) /\ Handed(q)' = Handed(q)
    BY <1>1 DEF Handed
  <1>5. /\ SideOk(fifo[p], q, typed, hand[p], Stands(p), Handed(p))
        /\ SideOk(fifo[q], p, typed, hand[q], Stands(q), Handed(q))
    BY <1>1, <1>2 DEF Side
  <1> HIDE DEF q
  <1>6. ASSUME SideOk(fifo'[p], q, typed', hand'[p], Stands(p)', Handed(p)),
               SideOk(fifo'[q], p, typed', hand'[q], Stands(q)', Handed(q))
        PROVE  Sides'
    <2>1. Side(p)' /\ Side(q)'
      BY <1>1, <1>4, <1>6 DEF Side, Peer, Talkers, q
    <2> QED BY <2>1 DEF Sides, Talkers, Peer, q
  <1>7. ASSUME typed' = [typed EXCEPT ![p] = typed[p] + 1] PROVE NextSaid(p, typed, typed')
    BY <1>7 DEF NextSaid
  <1>8. ASSUME NEW o \in BOOLEAN, Says(p, o), typed' = [typed EXCEPT ![p] = typed[p] + 1]
        PROVE  Sides'
    <2> DEFINE line == <<p, typed[p] + 1>>
               m == [mtype |-> SND, mtext |-> <<line>>, over |-> o]
               g == Told(fifo[q], line, o)
               u == typed'
               v == Stands(p)'
               w == Stands(q)'
    <2>1. /\ hand' = [hand EXCEPT ![p] = m] /\ fifo' = [fifo EXCEPT ![q] = g]
          /\ pc' = [pc EXCEPT ![p] = Deliver(p)] /\ NextSaid(p, typed, u)
      BY <1>7, <1>8 DEF Says, q
    <2>2. line \in AllLines /\ m \in Messages /\ m.mtext = <<<<p, typed[p] + 1>>>>
      <3>1. u[p] = typed[p] + 1 /\ u[p] \in Nat /\ typed[p] \in Nat
        BY <1>3, <1>8
      <3>2. Typed'
        BY WriteTyped
      <3>3. u[p] \in 1..limits.lines[p]
        <4>1. typed'[p] \in 0..limits'.lines[p]
          BY <3>2 DEF Typed, TypeOK
        <4>2. limits' = limits /\ limits.lines[p] \in Nat
          BY WriteCases, Bounds
        <4> QED BY <3>1, <4>1, <4>2
      <3>4. line \in AllLines
        BY <3>1, <3>3, LineTyped
      <3> HIDE DEF line
      <3>5. m \in Messages
        BY <3>4 DEF Messages
      <3> QED BY <3>4, <3>5 DEF line
    <2>3. /\ hand'[p] = m /\ fifo'[q] = g
          /\ hand'[q] = hand[q] /\ fifo'[p] = fifo[p]
          /\ \A r \in Proc : r # p => pc'[r] = pc[r]
      BY <1>1, <2>1 DEF Typed, TypeOK
    <2>4. line = <<p, typed[p] + 1>> /\ g = Told(fifo[q], line, o)
      OBVIOUS
    <2>7. w = Stands(q)
      BY <1>1, <2>3 DEF Stands
    <2> HIDE DEF line, m, g, u, v, w
    <2>5. SideOk(fifo[p], q, u, m, v, Handed(p))
      BY <1>1, <1>3, <1>5, <2>1, <2>2, SideSaid
    <2>6. SideOk(g, p, u, hand[q], w, Handed(q))
      BY <1>1, <1>3, <1>5, <2>1, <2>2, <2>4, <2>7, SideHeard
    <2> QED BY <1>1, <1>6, <2>3, <2>5, <2>6 DEF u, v, w
  <1>9. ASSUME UNCHANGED <<hand, fifo>>,
               \E w \in {"dead", "select"} : pc' = [pc EXCEPT ![p] = w]
        PROVE  Sides'
    <2>1. PICK w \in {"dead", "select"} : pc'[p] = w /\ \A r \in Proc : r # p => pc'[r] = pc[r]
      BY <1>1, <1>9, MovedPlaces
    <2>2. CASE UNCHANGED typed
      <3>1. Calm
        BY <1>1, <1>9, <2>1, <2>2 DEF Calm, Stands, Handing, Talkers, Proc
      <3> QED BY <3>1, CalmSides
    <2>3. CASE typed' = [typed EXCEPT ![p] = typed[p] + 1]
      <3> DEFINE u == typed'
      <3>1. NextSaid(p, typed, u)
        BY <1>7, <2>3
      <3> HIDE DEF u
      <3>2. /\ SideOk(fifo[p], q, u, hand[p], Stands(p), Handed(p))
            /\ SideOk(fifo[q], p, u, hand[q], Stands(q), Handed(q))
        BY <1>1, <1>3, <1>5, <3>1, SideMore
      <3> DEFINE v == Stands(p)'
                 x == Stands(q)'
      <3>3. v \notin Handing /\ x = Stands(q)
        BY <1>1, <2>1 DEF Stands, Handing
      <3> HIDE DEF v, x
      <3>4. SideOk(fifo[p], q, u, hand[p], v, Handed(p)) /\ SideOk(fifo[q], p, u, hand[q], x, Handed(q))
        BY <3>2, <3>3 DEF SideOk
      <3> QED BY <1>1, <1>6, <1>9, <3>4 DEF u, v, x
    <2> QED BY <2>2, <2>3, WriteCases
  <1> QED BY <1>8, <1>9, WriteCases

LEMMA CopySides == ASSUME Typed, Sides, Copy PROVE Sides'
  <1> DEFINE h == hand["a"]
             v == Stands("a")'
  <1>1. /\ UNCHANGED <<fifo, hand, typed, msq, shownB1>> /\ pc["a"] = "copy"
        /\ stored' = IF left = Cells THEN Append(stored, h) ELSE stored
    BY DEF Copy, talkVars, showVars
  <1>2. PICK k \in left :
          IF left = {k} THEN Go("a", "copy", "room") /\ left' = Cells
                        ELSE left' = left \ {k} /\ UNCHANGED pc
    BY DEF Copy
  <1>3. left \subseteq Cells
    BY DEF Typed, TypeOK
  <1>4. v = "room" /\ pc'["b"] = pc["b"]
    <2>1. CASE left = {k}
      <3>1. pc' = [pc EXCEPT !["a"] = "room"]
        BY <1>2, <2>1 DEF Go
      <3> QED BY <3>1 DEF Stands, Typed, TypeOK, Proc
    <2>2. CASE left # {k}
      BY <1>1, <1>2, <1>3, <2>2 DEF Stands
    <2> QED BY <2>1, <2>2
  <1>5. h \in Messages /\ stored \in Seq(Messages)
    BY DEF Typed, TypeOK, Talkers
  <1>6. Side("a")'
    <2>1. SideOk(fifo["a"], "b", typed, h, Stands("a"), stored)
      BY DEF Sides, Side, Peer, Handed
    <2>2. SideOk(fifo["a"], "b", typed, h, "room", stored')
      <3>1. CASE left = Cells
        <4>1. Stands("a") = "copy"
          BY <1>1, <3>1 DEF Stands
        <4>2. SideOk(fifo["a"], "b", typed, h, "room", Append(stored, h))
          <5> HIDE DEF h
          <5> QED BY <1>5, <2>1, <4>1, SideHanded DEF Handing
        <4> QED BY <1>1, <3>1, <4>2
      <3>2. CASE left # Cells
        BY <1>1, <2>1, <3>2 DEF SideOk, Handing
      <3> QED BY <3>1, <3>2
    <2>3. Handed("a")' = stored'
      BY DEF Handed
    <2> QED BY <1>1, <1>4, <2>2, <2>3 DEF Side, Peer
  <1>7. Side("b")'
    <2>1. Handed("b")' = Handed("b")
      BY <1>1 DEF Handed
    <2> DEFINE x == Stands("b")'
    <2>2. x \in Handing => Stands("b") \in Handing
      BY <1>4 DEF Stands, Handing
    <2>3. SideOk(fifo["b"], "a", typed, hand["b"], Stands("b"), Handed("b"))
      BY DEF Sides, Side, Peer
    <2> HIDE DEF x
    <2>4. SideOk(fifo["b"], "a", typed, hand["b"], x, Handed("b"))
      BY <2>2, <2>3 DEF SideOk
    <2> QED BY <1>1, <2>1, <2>4 DEF Side, Peer, x
  <1> QED BY <1>6, <1>7 DEF Sides

LEMMA MsqSides ==
  ASSUME Typed, Sides, snd_msg_to_msq \/ print_msg_from_msq PROVE Sides'
  <1> DEFINE h == hand["b"]
             v == Stands("b")'
  <1>1. /\ UNCHANGED <<fifo, hand, typed, stored, left>>
        /\ Side("a") /\ Side("b")
    BY DEF Sides, snd_msg_to_msq, print_msg_from_msq, talkVars, shmVars
  <1>2. h \in Messages /\ shownB1 \in Seq(Messages) /\ msq \in Seq(Messages)
    BY DEF Typed, TypeOK, Talkers
  <1>3. shownB1 \o Append(msq, h) = Append(shownB1 \o msq, h)
    <2> HIDE DEF h
    <2> QED BY <1>2, QueuePut
  <1>4. CASE snd_msg_to_msq
    <2>1. pc["b"] = "msgsnd" /\ \E w \in {"stdin", "select", "dead"} : pc' = [pc EXCEPT !["b"] = w]
      BY <1>4, ReturnCases DEF snd_msg_to_msq, Talkers
    <2>2. UNCHANGED shownB1 /\ (msq' = Append(msq, h) \/ UNCHANGED msq)
      BY <1>4 DEF snd_msg_to_msq, showVars
    <2>3. pc'["b"] \in {"stdin", "select", "dead"} /\ pc'["a"] = pc["a"]
      BY <2>1 DEF Typed, TypeOK, Proc
    <2>4. v \notin Handing /\ Stands("b") = "msgsnd" /\ Stands("a")' = Stands("a")
      BY <1>1, <2>1, <2>3 DEF Stands, Handing
    <2>5. CASE UNCHANGED msq
      <3>1. Calm
        BY <1>1, <2>2, <2>4, <2>5 DEF Calm, Talkers
      <3> QED BY <3>1, CalmSides
    <2>6. CASE msq' = Append(msq, h)
      <3>1. Handed("b")' = shownB1 \o Append(msq, h) /\ Handed("b") = shownB1 \o msq
        BY <2>2, <2>6 DEF Handed
      <3>2. Handed("b")' = Append(Handed("b"), h)
        BY <1>3, <3>1
      <3>3. SideOk(fifo["b"], "a", typed, h, "msgsnd", Handed("b"))
        BY <1>1, <2>4 DEF Side, Peer
      <3>4. Handed("b") \in Seq(Messages)
        BY HandedIs DEF Talkers
      <3>5. "msgsnd" \in Handing
        BY DEF Handing
      <3> HIDE DEF h, v
      <3>6. SideOk(fifo["b"], "a", typed, h, v, Append(Handed("b"), h))
        BY <1>2, <2>4, <3>3, <3>4, <3>5, SideHanded
      <3>7. Side("b")'
        BY <1>1, <3>2, <3>6 DEF Side, Peer, h, v
      <3>8. Side("a")'
        <4>1. Handed("a")' = Handed("a")
          BY <1>1 DEF Handed
        <4> QED BY <1>1, <2>4, <4>1 DEF Side, Peer
      <3> QED BY <3>7, <3>8 DEF Sides
    <2> QED BY <2>2, <2>5, <2>6
  <1>5. CASE print_msg_from_msq
    <2>1. /\ shownB1' = Append(shownB1, Head(msq)) /\ msq # <<>> /\ msq' = Tail(msq)
          /\ pc' = [pc EXCEPT !["b1"] = "rcv"]
      BY <1>5 DEF print_msg_from_msq, Go
    <2>2. pc'["a"] = pc["a"] /\ pc'["b"] = pc["b"]
      BY <2>1 DEF Typed, TypeOK, Proc
    <2>3. Stands("a")' = Stands("a") /\ Stands("b")' = Stands("b")
      BY <1>1, <2>2 DEF Stands
    <2>4. Handed("b")' = Handed("b") /\ Handed("a")' = Handed("a")
      BY <1>1, <1>2, <2>1, QueueGot DEF Handed
    <2> QED BY <1>1, <2>3, <2>4 DEF Sides, Side, Peer
  <1> QED BY <1>4, <1>5

LEMMA NextSides == Typed /\ Sides /\ [Next]_vars => Sides'
  <1> SUFFICES ASSUME Typed, Sides, [Next]_vars PROVE Sides'
    OBVIOUS
  <1>1. CASE OpenFifo
    BY <1>1, OpenCalm, CalmSides
  <1>2. ASSUME NEW p \in Proc, Step(p) PROVE Sides'
    <2>1. CASE savepid(p) \/ sigfunc_register(p)
      <3>1. UNCHANGED msq
        BY <2>1 DEF savepid, sigfunc_register
      <3> QED BY <2>1, <3>1, StartCalm, CalmSides
    <2>2. CASE Get(p)
      BY <2>2, GetSides
    <2>3. CASE SetAll \/ WaitRoom \/ print_msg_from_shm
      BY <2>3, ShmCalm, CalmSides
    <2>4. CASE Copy
      BY <2>4, CopySides
    <2>5. CASE snd_msg_to_msq \/ print_msg_from_msq
      BY <2>5, MsqSides
    <2>6. CASE p \in Talkers /\ select(p)
      BY <2>6, SelectCalm, CalmSides
    <2>7. CASE p \in Talkers /\ read(p)
      BY <2>7, ReadSides
    <2>8. CASE p \in Talkers /\ write(p)
      BY <2>8, WriteSides
    <2>9. CASE sigfunc(p)
      BY <2>9, SignalCalm, CalmSides
    <2> QED BY <1>2, <2>1, <2>2, <2>3, <2>4, <2>5, <2>6, <2>7, <2>8, <2>9
            DEF Step, snd_msg_to_shm
  <1>3. ASSUME NEW p \in Proc, Interrupt(p) \/ Crash(p) PROVE Sides'
    BY <1>3, SignalCalm, CalmSides
  <1>4. CASE UNCHANGED vars
    <2>1. UNCHANGED <<pc, left, fifo, typed, hand, stored, shownB1, msq>>
      BY <1>4 DEF vars, sigVars, objVars, talkVars, shmVars, showVars, env
    <2>2. Calm
      BY <2>1 DEF Calm, Stands
    <2> QED BY <2>2, CalmSides
  <1> QED BY <1>1, <1>2, <1>3, <1>4 DEF Next, Run

-----------------------------------------------------------------------------
(* How far a1 is behind a.                                                   *)

Gone(p) == pc[p] \in {"handler", "dead"}
Early == {"savepid", "register", "open1", "open2", "get"}

(* How many messages a1 has taken, and a has announced.                      *)
Takes == IF pc["a1"] = "print" THEN Len(shownA1) + 1 ELSE Len(shownA1)
Announced == Takes + message

(* Nothing is stored before there is a semaphore; it is there until a or a1, *)
(* on its way out, removes it.                                               *)
Attached ==
  /\ pc["a"] \in Early \cup {"setall"} => stored = <<>>
  /\ pc["a"] \in Early \/ "shm" \in exists \/ Gone("a") \/ Gone("a1")
  /\ id["a"] = "dead" => Gone("a") \/ Gone("a1")

(* What a1 has shown.                                                        *)
Walks ==
  \A i \in 1..Len(shownA1), k \in Cells :
    /\ shownA1[i][k] \in 1..Len(stored) /\ shownA1[i][k] \in i..(i + 2)
    /\ \A j \in 1..Len(shownA1) : i < j => shownA1[i][k] <= shownA1[j][k]

(* What a stores is one more than what it has announced, while it copies and *)
(* waits for room; else it has announced all.                                *)
Stores ==
  /\ Len(stored) \in Announced..(Announced + 1)
  /\ \A k \in Cells : shm[k] \in Announced..Len(stored)
  /\ Stands("a") = "room" => Len(stored) = Announced + 1
  /\ Stands("a") \notin {"room", "handler", "dead"} => Len(stored) = Announced
  /\ Stands("a") = "room" => \A k \in Cells : (pc["a"] = "copy" /\ k \in left) \/ shm[k] = Len(stored)
  /\ pc["a"] \in {"copy", "handler", "dead"} \/ left = Cells

(* What a1 has read, and has shown, is not ahead of the shared memory.       *)
Reading ==
  /\ pc["a1"] = "print" =>
       \A k \in Cells \ unread : seen[k] \in Takes..(Takes + 2) /\ seen[k] <= shm[k]
  /\ \A i \in 1..Len(shownA1), k \in Cells :
       /\ shownA1[i][k] <= shm[k]
       /\ pc["a1"] = "print" /\ k \notin unread => shownA1[i][k] <= seen[k]

Paced ==
  /\ Attached /\ Walks
  /\ \/ Gone("a1")
     \/ Gone("a") /\ message = 0 /\ pc["a1"] # "print"
     \/ Stores /\ Reading

LEMMA Numbers ==
  ASSUME Typed
  PROVE  /\ Len(stored) \in Nat /\ Len(shownA1) \in Nat /\ message \in {0, 1}
         /\ Takes \in Nat /\ Announced \in Nat
         /\ shm \in [Cells -> Nat] /\ seen \in [Cells -> Nat]
         /\ left \subseteq Cells /\ unread \subseteq Cells
         /\ \A i \in 1..Len(shownA1) : shownA1[i] \in [Cells -> Nat]
  <1>1. stored \in Seq(Messages) /\ shownA1 \in Seq([Cells -> Nat]) /\ message \in {0, 1}
    BY DEF Typed, TypeOK
  <1>2. Len(stored) \in Nat /\ Len(shownA1) \in Nat
    BY <1>1, LenProperties
  <1>3. Takes \in Nat
    BY <1>2 DEF Takes
  <1>4. Announced \in Nat
    BY <1>1, <1>3 DEF Announced
  <1> QED BY <1>1, <1>2, <1>3, <1>4, ElementOfSeq DEF Typed, TypeOK

LEMMA InitPaced == Init => Paced
  <1> SUFFICES ASSUME Init PROVE Paced
    OBVIOUS
  <1>1. /\ stored = <<>> /\ shownA1 = <<>> /\ message = 0 /\ shm = Zeros /\ left = Cells
        /\ pc = [p \in Proc |-> "savepid"] /\ id = [p \in Proc |-> "none"]
    BY DEF Init
  <1>2. pc["a"] = "savepid" /\ pc["a1"] = "savepid" /\ id["a"] = "none"
    BY <1>1 DEF Proc
  <1>3. Len(stored) = 0 /\ Len(shownA1) = 0 /\ 1..Len(shownA1) = {}
    BY <1>1
  <1>4. Attached /\ Walks
    BY <1>1, <1>2, <1>3 DEF Attached, Walks, Early
  <1>5. Takes = 0 /\ Announced = 0
    BY <1>1, <1>2, <1>3 DEF Takes, Announced
  <1>6. Stores
    BY <1>1, <1>2, <1>3, <1>5 DEF Stores, Stands, Zeros
  <1>7. Reading
    BY <1>2, <1>3 DEF Reading
  <1> QED BY <1>4, <1>6, <1>7 DEF Paced

(* A step that neither copies nor announces nor shows.                       *)
Unset == Early \cup {"setall"}

Still ==
  /\ UNCHANGED <<shm, message, left, stored, seen, unread, shownA1>>
  /\ \A p \in {"a", "a1"} : Gone(p) => Gone(p)'
  /\ Gone("a1")' \/ (pc'["a1"] = "print" <=> pc["a1"] = "print")
  /\ \/ Gone("a")' \/ pc'["a"] = pc["a"]
     \/ /\ pc["a"] \notin {"copy", "room", "handler", "dead"} /\ pc'["a"] # "room"
        /\ pc'["a"] \in Unset => pc["a"] \in Unset
  /\ pc'["a"] \in Early \/ pc["a"] \notin Early \/ Gone("a")' \/ "shm" \in exists'
  /\ "shm" \in exists => "shm" \in exists' \/ Gone("a")' \/ Gone("a1")'
  /\ id'["a"] = "dead" => id["a"] = "dead" \/ Gone("a")' \/ Gone("a1")'

LEMMA StillPaced == ASSUME Typed, Paced, Still PROVE Paced'
  <1>1. /\ UNCHANGED <<shm, message, left, stored, seen, unread, shownA1>>
        /\ Gone("a") => Gone("a")'
        /\ Gone("a1") => Gone("a1")'
    BY DEF Still
  <1>2. Attached'
    BY DEF Still, Attached, Paced, Unset, Gone, Early
  <1>3. Walks'
    BY <1>1 DEF Walks, Paced
  <1>4. CASE Gone("a1")'
    BY <1>2, <1>3, <1>4 DEF Paced
  <1>5. CASE ~Gone("a1")' /\ Gone("a") /\ message = 0 /\ pc["a1"] # "print"
    <2>1. Gone("a")' /\ message' = 0 /\ pc'["a1"] # "print"
      BY <1>1, <1>5 DEF Still
    <2> QED BY <1>2, <1>3, <2>1 DEF Paced
  <1>6. CASE ~Gone("a1")' /\ Stores /\ Reading
    <2>1. pc'["a1"] = "print" <=> pc["a1"] = "print"
      BY <1>6 DEF Still
    <2>2. Takes' = Takes /\ Announced' = Announced
      BY <1>1, <2>1 DEF Takes, Announced
    <2>3. Reading'
      BY <1>1, <1>6, <2>1, <2>2 DEF Reading
    <2>4. /\ Stands("a")' = "room" => Stands("a") = "room" /\ pc'["a"] = pc["a"]
          /\ Stands("a")' \notin {"room", "handler", "dead"} => Stands("a") \notin {"room", "handler", "dead"}
          /\ pc'["a"] \in {"copy", "handler", "dead"} \/ left = Cells
      BY <1>1, <1>6 DEF Still, Stores, Stands, Gone
    <2>5. Stores'
      BY <1>1, <1>6, <2>2, <2>4 DEF Stores
    <2> QED BY <1>2, <1>3, <2>3, <2>5 DEF Paced
  <1> QED BY <1>1, <1>4, <1>5, <1>6 DEF Paced

LEMMA StartStill ==
  ASSUME Typed, NEW p \in Proc, savepid(p) \/ sigfunc_register(p) \/ Get(p),
         UNCHANGED <<shm, message>>
  PROVE  Still
  <1>1. UNCHANGED <<left, stored, seen, unread, shownA1>>
    BY Zenon DEF savepid, sigfunc_register, Get, shmVars, showVars
  <1>2. CASE savepid(p) \/ sigfunc_register(p)
    <2>1. /\ UNCHANGED <<id, exists>> /\ pc[p] \in {"savepid", "register"}
          /\ \E w \in {"register", "open1", "get"} : pc' = [pc EXCEPT ![p] = w]
      BY <1>2 DEF savepid, sigfunc_register, Go, objVars
    <2>2. PICK w \in {"register", "open1", "get"} :
            pc'[p] = w /\ \A q \in Proc : q # p => pc'[q] = pc[q]
      BY <2>1, MovedPlaces
    <2> QED BY <1>1, <2>1, <2>2 DEF Still, Gone, Early, Unset, Proc
  <1>3. CASE Get(p)
    <2>1. /\ pc[p] = "get" /\ \E w \in {"setall", "take", "select", "rcv"} :
               (p = "a" => w = "setall") /\ pc' = [pc EXCEPT ![p] = w]
          /\ exists' = exists \cup {Object(p)} /\ id' = [id EXCEPT ![p] = "live"]
      BY <1>3 DEF Get, Go, Proc
    <2>2. PICK w \in {"setall", "take", "select", "rcv"} :
            (p = "a" => w = "setall") /\ pc'[p] = w /\ \A q \in Proc : q # p => pc'[q] = pc[q]
      BY <2>1, MovedPlaces
    <2>3. id'["a"] = "dead" => id["a"] = "dead"
      BY <2>1 DEF Typed, TypeOK, Proc
    <2>4. p = "a" => "shm" \in exists'
      BY <2>1 DEF Object
    <2>5. exists \subseteq exists'
      BY <2>1
    <2>6. /\ \A q \in {"a", "a1"} : Gone(q) => Gone(q)'
          /\ pc'["a1"] = "print" <=> pc["a1"] = "print"
          /\ pc'["a"] = pc["a"] \/ (p = "a" /\ pc["a"] = "get" /\ pc'["a"] = "setall")
      BY <2>1, <2>2 DEF Gone, Proc
    <2>7. "setall" \in Unset /\ "get" \in Unset
      BY DEF Unset, Early
    <2> QED BY <1>1, <2>3, <2>4, <2>5, <2>6, <2>7 DEF Still
  <1> QED BY <1>2, <1>3

LEMMA OpenStill == ASSUME Typed, OpenFifo PROVE Still
  <1>1. UNCHANGED <<shm, message, left, stored, seen, unread, shownA1, id, exists>>
    BY Zenon DEF OpenFifo, shmVars, showVars, objVars
  <1>2. PICK v, w \in {"open2", "get"} :
          pc["a"] \in {"open1", "open2"} /\ pc' = [pc EXCEPT !["a"] = v, !["b"] = w]
    BY DEF OpenFifo, AfterOpen, Place
  <1>3. pc'["a"] = v /\ pc'["a1"] = pc["a1"]
    BY <1>2 DEF Typed, TypeOK, Proc
  <1> QED BY <1>1, <1>2, <1>3 DEF Still, Gone, Early, Unset

LEMMA TalkStill ==
  ASSUME Typed, NEW p \in Talkers, select(p) \/ read(p) \/ write(p) PROVE Still
  <1>1. UNCHANGED <<shm, message, left, stored, seen, unread, shownA1, id, exists>>
    BY Zenon DEF select, read, write, shmVars, showVars, objVars
  <1>2. /\ pc[p] \in {"select", "fdr", "stdin"}
        /\ \E w \in {"select", "fdr", "stdin", "copy", "msgsnd", "dead"} : pc' = [pc EXCEPT ![p] = w]
    BY DEF select, read, write, Go, Deliver
  <1>3. /\ pc'["a1"] = pc["a1"]
        /\ pc'["a"] = pc["a"] \/ /\ pc["a"] \in {"select", "fdr", "stdin"}
                                 /\ pc'["a"] \in {"select", "fdr", "stdin", "copy", "msgsnd", "dead"}
    BY <1>2 DEF Typed, TypeOK, Proc, Talkers
  <1> QED BY <1>1, <1>3 DEF Still, Gone, Early, Unset

LEMMA MsqStill == ASSUME Typed, snd_msg_to_msq \/ print_msg_from_msq PROVE Still
  <1>1. UNCHANGED <<shm, message, left, stored, seen, unread, shownA1, id, exists>>
    BY Zenon DEF snd_msg_to_msq, print_msg_from_msq, shmVars, showVars, objVars
  <1>2. pc'["a"] = pc["a"] /\ pc'["a1"] = pc["a1"]
    BY DEF snd_msg_to_msq, print_msg_from_msq, Return, Go, Typed, TypeOK, Proc
  <1> QED BY <1>1, <1>2 DEF Still, Gone

LEMMA SignalStill ==
  ASSUME Typed, NEW p \in Proc, sigfunc(p) \/ Interrupt(p) \/ Crash(p)
  PROVE  Still
  <1>1. Interrupts
    BY SignalTyped
  <1>2. /\ UNCHANGED <<shm, message, left, stored, seen, unread, shownA1>>
        /\ \A q \in Proc : pc'[q] \in {pc[q], "handler", "dead"}
        /\ \A q \in {"a", "a1"} : q \in Proc
    BY <1>1 DEF Interrupts, Proc
  <1>3. \A q \in {"a", "a1"} : (Gone(q) => Gone(q)') /\ (Gone(q)' \/ pc'[q] = pc[q])
    BY <1>2 DEF Gone
  <1>4. /\ "shm" \in exists => "shm" \in exists' \/ Gone("a")' \/ Gone("a1")'
        /\ id'["a"] = "dead" => id["a"] = "dead" \/ Gone("a")' \/ Gone("a1")'
    <2>1. CASE UNCHANGED <<id, exists>>
      BY <2>1
    <2>2. CASE Dies(p)
      BY <2>2 DEF Dies, Typed, TypeOK, Proc
    <2>3. CASE remove(p) /\ pc[p] = "handler"
      <3>1. CASE p \in {"a", "a1"}
        BY <1>3, <2>3, <3>1 DEF Gone
      <3>2. CASE p \notin {"a", "a1"}
        <4>1. Object(p) = "msq" /\ Object("a") = "shm"
          BY <3>2 DEF Object
        <4>2. "shm" \in exists => "shm" \in exists'
          BY <2>3, <4>1 DEF remove, objVars
        <4>3. id'["a"] = id["a"]
          BY <2>3, <4>1 DEF remove, objVars, Proc
        <4> QED BY <4>2, <4>3
      <3> QED BY <3>1, <3>2
    <2>4. UNCHANGED <<id, exists>> \/ Dies(p) \/ (remove(p) /\ pc[p] = "handler")
      BY DEF sigfunc, killpid, Interrupt, Crash, objVars
    <2> QED BY <2>1, <2>2, <2>3, <2>4
  <1> QED BY <1>2, <1>3, <1>4 DEF Still


(* Before anything is stored, memory and semaphore are as when they are new. *)
LEMMA NothingStored ==
  ASSUME Typed, Paced, stored = <<>>, ~Gone("a"), ~Gone("a1")
  PROVE  shm = Zeros /\ message = 0
  <1>1. Stores
    BY DEF Paced
  <1>2. Takes \in Nat /\ message \in {0, 1} /\ shm \in [Cells -> Nat]
    BY Numbers
  <1>3. Announced \in Nat
    BY Numbers
  <1>4. Len(stored) = 0
    OBVIOUS
  <1>5. Announced = 0
    BY <1>1, <1>3, <1>4 DEF Stores
  <1>6. message = 0
    BY <1>2, <1>5 DEF Announced
  <1>7. \A k \in Cells : shm[k] = 0
    BY <1>1, <1>2, <1>4, <1>5 DEF Stores
  <1> QED BY <1>2, <1>6, <1>7 DEF Zeros

LEMMA GetPaced == ASSUME Typed, Paced, NEW p \in Proc, Get(p) PROVE Paced'
  <1>1. CASE UNCHANGED <<shm, message>>
    BY <1>1, StartStill, StillPaced
  <1>2. CASE ~UNCHANGED <<shm, message>>
    <2>1. /\ "shm" \notin exists /\ exists' = exists \cup {"shm"} /\ p \in {"a", "a1"}
          /\ shm' = Zeros /\ message' = 0
          /\ pc[p] = "get" /\ pc' = [pc EXCEPT ![p] = IF p = "a" THEN "setall" ELSE "take"]
          /\ id' = [id EXCEPT ![p] = "live"] /\ UNCHANGED <<stored, shownA1>>
      BY <1>2 DEF Get, Go, Object, Proc, showVars
    <2>2. /\ pc'[p] = IF p = "a" THEN "setall" ELSE "take"
          /\ \A q \in Proc : q # p => pc'[q] = pc[q]
      BY <2>1 DEF Typed, TypeOK
    <2>3. id'["a"] = "dead" => id["a"] = "dead" /\ p # "a"
      BY <2>1 DEF Typed, TypeOK, Proc
    <2>4. "shm" \in exists'
      BY <2>1
    <2>5. Attached'
      BY <2>1, <2>2, <2>3, <2>4 DEF Paced, Attached, Gone, Early, Proc
    <2>6. Walks'
      BY <2>1 DEF Paced, Walks
    <2>7. CASE Gone("a1")
      <3>1. Gone("a1")'
        BY <2>1, <2>2, <2>7 DEF Gone, Proc
      <3> QED BY <2>5, <2>6, <3>1 DEF Paced
    <2>8. CASE Gone("a")
      <3>1. p = "a1"
        BY <2>1, <2>8 DEF Gone
      <3>2. Gone("a")' /\ message' = 0 /\ pc'["a1"] # "print"
        BY <2>1, <2>2, <2>8, <3>1 DEF Gone, Proc
      <3> QED BY <2>5, <2>6, <3>2 DEF Paced
    <2>9. CASE ~Gone("a") /\ ~Gone("a1")
      <3>1. stored = <<>>
        BY <2>1, <2>9 DEF Paced, Attached
      <3>2. shm = Zeros /\ message = 0
        BY <2>9, <3>1, NothingStored
      <3> QED BY <1>2, <2>1, <3>2
    <2> QED BY <2>7, <2>8, <2>9
  <1> QED BY <1>1, <1>2

LEMMA SetAllPaced == ASSUME Typed, Paced, SetAll PROVE Paced'
  <1>1. /\ pc["a"] = "setall" /\ pc' = [pc EXCEPT !["a"] = "select"]
        /\ UNCHANGED <<shm, left, stored, seen, unread, shownA1, id, exists>>
        /\ message' = 0 \/ UNCHANGED message
    BY DEF SetAll, Go, showVars, objVars
  <1>2. pc'["a"] = "select" /\ pc'["a1"] = pc["a1"]
    BY <1>1 DEF Typed, TypeOK, Proc
  <1>3. CASE Gone("a1")
    <2>1. Gone("a1")' /\ Walks'
      BY <1>1, <1>2, <1>3 DEF Gone, Paced, Walks
    <2>2. Attached'
      BY <1>1, <1>2, <2>1 DEF Attached, Paced, Early
    <2> QED BY <2>1, <2>2 DEF Paced
  <1>4. CASE ~Gone("a1")
    <2>1. ~Gone("a") /\ stored = <<>>
      BY <1>1 DEF Gone, Paced, Attached
    <2>2. message = 0
      BY <1>4, <2>1, NothingStored
    <2>3. Still
      BY <1>1, <1>2, <2>2 DEF Still, Gone, Unset, Early
    <2> QED BY <2>3, StillPaced
  <1> QED BY <1>3, <1>4

LEMMA CopyPaced == ASSUME Typed, Paced, Copy PROVE Paced'
  <1>1. /\ pc["a"] = "copy"
        /\ stored' = IF left = Cells THEN Append(stored, hand["a"]) ELSE stored
        /\ UNCHANGED <<message, seen, unread, shownA1, id, exists>>
    BY DEF Copy, showVars, objVars
  <1>2. PICK k \in left :
          /\ shm' = [shm EXCEPT ![k] = Len(stored')]
          /\ \/ left = {k} /\ pc' = [pc EXCEPT !["a"] = "room"] /\ left' = Cells
             \/ left # {k} /\ left' = left \ {k} /\ pc' = pc
    BY DEF Copy, Go
  <1>3. /\ Len(stored) \in Nat /\ Takes \in Nat /\ Announced \in Nat
        /\ shm \in [Cells -> Nat] /\ seen \in [Cells -> Nat] /\ left \subseteq Cells
        /\ \A i \in 1..Len(shownA1) : shownA1[i] \in [Cells -> Nat]
    BY Numbers
  <1>4. Len(stored') = IF left = Cells THEN Len(stored) + 1 ELSE Len(stored)
    <2>1. stored \in Seq(Messages)
      BY DEF Typed, TypeOK
    <2> QED BY <1>1, <2>1
  <1>5. pc'["a1"] = pc["a1"] /\ pc'["a"] = IF left = {k} THEN "room" ELSE "copy"
    BY <1>1, <1>2 DEF Typed, TypeOK, Proc
  <1>6. Attached'
    BY <1>1, <1>5 DEF Attached, Paced, Gone, Early
  <1>7. Walks'
    <2>1. 1..Len(stored) \subseteq 1..Len(stored')
      BY <1>3, <1>4
    <2> QED BY <1>1, <2>1 DEF Walks, Paced
  <1>8. CASE Gone("a1")
    BY <1>5, <1>6, <1>7, <1>8 DEF Paced, Gone
  <1>9. CASE Stores /\ Reading
    <2>1. Takes' = Takes /\ Announced' = Announced
      BY <1>1, <1>5 DEF Takes, Announced
    <2>2. Stands("a") = IF left # Cells THEN "room" ELSE "copy"
      BY <1>1 DEF Stands
    <2>3. Len(stored) = IF left # Cells THEN Announced + 1 ELSE Announced
      BY <1>9, <2>2 DEF Stores
    <2>4. Len(stored') = Announced + 1 /\ Len(stored) <= Len(stored')
      BY <1>3, <1>4, <2>3
    <2>5. k \in Cells
      BY <1>3
    <2>6. Cells # {k}
      BY IpcAssumption DEF Cells
    <2>7. \A j \in Cells : shm'[j] = IF j = k THEN Len(stored') ELSE shm[j]
      BY <1>2, <1>3, <2>5
    <2>8. \A j \in Cells : shm[j] \in Announced..Len(stored) /\ shm[j] \in Nat
      BY <1>3, <1>9 DEF Stores
    <2>9. \A j \in Cells : shm'[j] \in Announced..Len(stored') /\ shm[j] <= shm'[j]
      BY <1>3, <2>4, <2>7, <2>8
    <2>10. Stands("a")' = "room"
      BY <1>2, <1>5, <2>5 DEF Stands
    <2>11. \A j \in Cells : (pc'["a"] = "copy" /\ j \in left') \/ shm'[j] = Len(stored')
      <3>1. CASE left = Cells
        BY <1>2, <1>5, <2>6, <2>7, <3>1
      <3>2. CASE left # Cells
        <4>1. Len(stored') = Len(stored)
          BY <1>4, <3>2
        <4>2. \A j \in Cells : j \in left \/ shm[j] = Len(stored)
          BY <1>9, <2>2, <3>2 DEF Stores
        <4> QED BY <1>2, <1>5, <2>7, <4>1, <4>2
      <3> QED BY <3>1, <3>2
    <2>12. pc'["a"] = "copy" \/ left' = Cells
      BY <1>2, <1>5
    <2>13. Stores'
      <3>1. Len(stored') \in Announced..(Announced + 1)
        BY <1>3, <2>4
      <3> QED BY <2>1, <2>4, <2>9, <2>10, <2>11, <2>12, <3>1 DEF Stores
    <2>14. Reading'
      <3>1. /\ pc["a1"] = "print" =>
                 \A j \in Cells \ unread : seen[j] \in Takes..(Takes + 2) /\ seen[j] <= shm[j]
            /\ \A i \in 1..Len(shownA1), j \in Cells :
                 /\ shownA1[i][j] <= shm[j]
                 /\ pc["a1"] = "print" /\ j \notin unread => shownA1[i][j] <= seen[j]
        BY <1>9 DEF Reading
      <3>2. \A j \in Cells : shm'[j] \in Nat
        BY <1>3, <2>9
      <3>3. \A i \in 1..Len(shownA1), j \in Cells : shownA1[i][j] <= shm'[j]
        BY <1>3, <2>8, <2>9, <3>1, <3>2
      <3>4. pc["a1"] = "print" => \A j \in Cells \ unread : seen[j] <= shm'[j]
        BY <1>3, <2>8, <2>9, <3>1, <3>2
      <3> QED BY <1>1, <1>5, <2>1, <3>1, <3>3, <3>4 DEF Reading
    <2> QED BY <1>6, <1>7, <2>13, <2>14 DEF Paced
  <1>10. ~Gone("a")
    BY <1>1 DEF Gone
  <1> QED BY <1>8, <1>9, <1>10 DEF Paced

LEMMA WaitRoomPaced == ASSUME Typed, Paced, WaitRoom PROVE Paced'
  <1>1. /\ pc["a"] = "room" /\ \E w \in {"stdin", "select", "dead"} : pc' = [pc EXCEPT !["a"] = w]
        /\ UNCHANGED <<shm, left, stored, seen, unread, shownA1, id, exists>>
        /\ id["a"] = "dead" \/ message' = message + 1
    BY ReturnCases DEF WaitRoom, Talkers, Announce, showVars, objVars
  <1>2. pc'["a"] \in {"stdin", "select", "dead"} /\ pc'["a1"] = pc["a1"]
    BY <1>1 DEF Typed, TypeOK, Proc
  <1>3. Attached' /\ Walks'
    BY <1>1, <1>2 DEF Attached, Walks, Paced, Gone, Early
  <1>4. CASE Gone("a1")
    BY <1>2, <1>3, <1>4 DEF Paced, Gone
  <1>5. CASE ~Gone("a1")
    <2>1. ~Gone("a")
      BY <1>1 DEF Gone
    <2>2. Stores /\ Reading /\ id["a"] # "dead"
      BY <1>5, <2>1 DEF Paced, Attached
    <2>3. Takes' = Takes /\ message' = message + 1
      BY <1>1, <1>2, <2>2 DEF Takes
    <2>4. Len(stored) = Announced + 1 /\ left = Cells /\ \A k \in Cells : shm[k] = Len(stored)
      BY <1>1, <2>2 DEF Stores, Stands
    <2>5. Announced' = Len(stored) /\ Len(stored) \in Nat
      <3>1. Takes \in Nat /\ message \in {0, 1} /\ Len(stored) \in Nat
        BY Numbers
      <3> QED BY <2>3, <2>4, <3>1 DEF Announced
    <2>6. Stands("a")' \notin {"room", "copy"}
      BY <1>2 DEF Stands
    <2>7. Stores'
      BY <1>1, <1>2, <2>4, <2>5, <2>6 DEF Stores
    <2>8. Reading'
      BY <1>1, <1>2, <2>2, <2>3 DEF Reading
    <2> QED BY <1>3, <2>7, <2>8 DEF Paced
  <1> QED BY <1>4, <1>5

LEMMA TakePaced == ASSUME Typed, Paced, TakeMessage PROVE Paced'
  <1>1. /\ pc["a1"] = "take" /\ UNCHANGED <<shm, left, stored, seen, shownA1, id, exists>>
        /\ \/ /\ message >= 1 /\ message' = message - 1 /\ unread' = Cells
              /\ pc' = [pc EXCEPT !["a1"] = "print"]
           \/ UNCHANGED <<message, unread>> /\ pc' = [pc EXCEPT !["a1"] = "spin"]
    BY DEF TakeMessage, Go, shmVars, objVars
  <1>2. CASE UNCHANGED <<message, unread>> /\ pc' = [pc EXCEPT !["a1"] = "spin"]
    <2>1. pc'["a1"] = "spin" /\ pc'["a"] = pc["a"]
      BY <1>2 DEF Typed, TypeOK, Proc
    <2>2. Still
      BY <1>1, <1>2, <2>1 DEF Still, Gone
    <2> QED BY <2>2, StillPaced
  <1>3. CASE /\ message >= 1 /\ message' = message - 1 /\ unread' = Cells
             /\ pc' = [pc EXCEPT !["a1"] = "print"]
    <2>1. pc'["a1"] = "print" /\ pc'["a"] = pc["a"]
      BY <1>3 DEF Typed, TypeOK, Proc
    <2>2. Attached' /\ Walks'
      BY <1>1, <2>1 DEF Attached, Walks, Paced, Gone, Early
    <2>3. Stores /\ Reading
      <3>1. ~Gone("a1") /\ message # 0
        BY <1>1, <1>3 DEF Gone
      <3> QED BY <3>1 DEF Paced
    <2>4. Announced' = Announced
      <3>1. Len(shownA1) \in Nat /\ message \in {0, 1}
        BY Numbers
      <3>2. Takes = Len(shownA1) /\ Takes' = Len(shownA1) + 1
        BY <1>1, <2>1 DEF Takes
      <3> QED BY <1>3, <3>1, <3>2 DEF Announced
    <2>5. Stands("a")' = Stands("a")
      BY <1>1, <2>1 DEF Stands
    <2>6. Stores'
      BY <1>1, <2>1, <2>3, <2>4, <2>5 DEF Stores
    <2>7. Reading'
      BY <1>1, <1>3, <2>3 DEF Reading
    <2> QED BY <2>2, <2>6, <2>7 DEF Paced
  <1> QED BY <1>1, <1>2, <1>3

LEMMA PrintPaced == ASSUME Typed, Paced, printmsg PROVE Paced'
  <1>1. /\ pc["a1"] = "print"
        /\ UNCHANGED <<shm, message, left, stored, id, exists>>
    BY DEF printmsg, shmVars, objVars
  <1>2. PICK k \in unread : seen' = [seen EXCEPT ![k] = shm[k]] /\ unread' = unread \ {k}
    BY DEF printmsg
  <1>3. \/ unread' = {} /\ pc' = [pc EXCEPT !["a1"] = "take"] /\ shownA1' = Append(shownA1, seen')
        \/ unread' # {} /\ pc' = pc /\ shownA1' = shownA1
    BY DEF printmsg, Go
  <1>4. /\ Len(stored) \in Nat /\ Len(shownA1) \in Nat /\ message \in {0, 1}
        /\ shm \in [Cells -> Nat] /\ seen \in [Cells -> Nat] /\ unread \subseteq Cells
        /\ \A i \in 1..Len(shownA1) : shownA1[i] \in [Cells -> Nat]
    BY Numbers
  <1>5. pc'["a"] = pc["a"] /\ pc'["a1"] = IF unread' = {} THEN "take" ELSE "print"
    BY <1>1, <1>3 DEF Typed, TypeOK, Proc
  <1>6. Attached'
    BY <1>1, <1>5 DEF Attached, Paced, Gone, Early
  <1>7. Stores /\ Reading
    BY <1>1 DEF Paced, Gone
  <1>8. Takes = Len(shownA1) + 1 /\ Announced = Takes + message
    BY <1>1 DEF Takes, Announced
  <1>9. \A j \in Cells : shm[j] \in Takes..(Takes + 2) /\ shm[j] \in 1..Len(stored)
    <2>1. Len(stored) \in Announced..(Announced + 1)
      BY <1>7 DEF Stores
    <2>2. \A j \in Cells : shm[j] \in Announced..Len(stored)
      BY <1>7 DEF Stores
    <2> QED BY <1>4, <1>8, <2>1, <2>2
  <1>10. \A j \in Cells : seen'[j] = IF j = k THEN shm[j] ELSE seen[j]
    BY <1>2, <1>4
  <1>11. seen' \in [Cells -> Nat]
    <2>1. shm[k] \in Nat
      BY <1>2, <1>4
    <2> QED BY <1>2, <1>4, <2>1
  <1>12. \A j \in Cells \ unread : seen[j] \in Takes..(Takes + 2) /\ seen[j] <= shm[j]
    BY <1>1, <1>7 DEF Reading
  <1>13. \A i \in 1..Len(shownA1), j \in Cells :
           /\ shownA1[i][j] <= shm[j]
           /\ j \notin unread => shownA1[i][j] <= seen[j]
    BY <1>1, <1>7 DEF Reading
  <1>14. \A j \in Cells \ unread' : seen'[j] \in Takes..(Takes + 2) /\ seen'[j] <= shm[j]
    <2>1. \A j \in Cells \ unread' : j = k \/ j \in Cells \ unread
      BY <1>2
    <2>2. k \in Cells
      BY <1>4
    <2>3. shm[k] \in Takes..(Takes + 2) /\ shm[k] <= shm[k]
      BY <1>4, <1>9, <2>2
    <2>4. seen'[k] = shm[k]
      BY <1>10, <2>2
    <2>5. \A j \in Cells \ unread : j # k => seen'[j] = seen[j]
      BY <1>10
    <2> QED BY <1>12, <2>1, <2>3, <2>4, <2>5
  <1>15. \A i \in 1..Len(shownA1), j \in Cells \ unread' : shownA1[i][j] <= seen'[j]
    <2>1. \A j \in Cells \ unread' : j = k \/ j \notin unread
      BY <1>2
    <2> QED BY <1>10, <1>13, <2>1
  <1>16. CASE unread' # {}
    <2>1. pc'["a1"] = "print" /\ shownA1' = shownA1
      BY <1>3, <1>5, <1>16
    <2>2. Takes' = Takes /\ Announced' = Announced /\ Stands("a")' = Stands("a")
      BY <1>1, <1>5, <2>1 DEF Takes, Announced, Stands
    <2>3. Walks'
      BY <1>1, <2>1 DEF Walks, Paced
    <2>4. Stores'
      BY <1>1, <1>5, <1>7, <2>2 DEF Stores
    <2>5. Reading'
      BY <1>1, <1>13, <1>14, <1>15, <2>1, <2>2 DEF Reading
    <2> QED BY <1>6, <2>3, <2>4, <2>5 DEF Paced
  <1>17. CASE unread' = {}
    <2> DEFINE n == Len(shownA1)
    <2>1. pc'["a1"] = "take" /\ shownA1' = Append(shownA1, seen')
      BY <1>3, <1>5, <1>17
    <2>2. /\ Len(shownA1') = n + 1 /\ shownA1'[n + 1] = seen'
          /\ \A i \in 1..n : shownA1'[i] = shownA1[i]
      <3>1. shownA1 \in Seq([Cells -> Nat])
        BY DEF Typed, TypeOK
      <3> QED BY <1>11, <2>1, <3>1, AppendProperties
    <2>3. Takes' = Takes /\ Announced' = Announced /\ Stands("a")' = Stands("a")
      BY <1>1, <1>5, <1>8, <2>1, <2>2 DEF Takes, Announced, Stands
    <2>4. Stores'
      BY <1>1, <1>5, <1>7, <2>3 DEF Stores
    <2>5. 1..(n + 1) = 1..n \cup {n + 1}
      BY <1>4
    <2>6. \A j \in Cells : /\ seen'[j] \in (n + 1)..(n + 1 + 2) /\ seen'[j] \in 1..Len(stored)
                           /\ seen'[j] <= shm[j]
      <3>1. \A j \in Cells : seen'[j] \in Nat
        BY <1>11
      <3>2. \A j \in Cells : seen'[j] \in Takes..(Takes + 2) /\ seen'[j] <= shm[j]
        BY <1>14, <1>17
      <3> QED BY <1>4, <1>8, <1>9, <3>1, <3>2
    <2>7. \A i \in 1..n, j \in Cells : shownA1[i][j] <= seen'[j]
      BY <1>15, <1>17
    <2>8. Walks'
      <3>1. \A i \in 1..n, j \in Cells :
              /\ shownA1[i][j] \in 1..Len(stored) /\ shownA1[i][j] \in i..(i + 2)
              /\ \A l \in 1..n : i < l => shownA1[i][j] <= shownA1[l][j]
        BY DEF Paced, Walks
      <3>2. ~(n + 1 < n + 1) /\ \A l \in 1..n : ~(n + 1 < l)
        BY <1>4
      <3> HIDE DEF n
      <3>3. \A i \in 1..(n + 1), j \in Cells :
              shownA1'[i][j] \in 1..Len(stored) /\ shownA1'[i][j] \in i..(i + 2)
        BY <2>2, <2>5, <2>6, <3>1
      <3>4. \A i, l \in 1..(n + 1), j \in Cells : i < l => shownA1'[i][j] <= shownA1'[l][j]
        BY <2>2, <2>5, <2>7, <3>1, <3>2
      <3> QED BY <1>1, <2>2, <3>3, <3>4 DEF Walks
    <2>9. Reading'
      <3> HIDE DEF n
      <3>1. \A i \in 1..(n + 1), j \in Cells : shownA1'[i][j] <= shm[j]
        <4>1. \A i \in 1..n, j \in Cells : shownA1[i][j] <= shm[j]
          BY <1>13 DEF n
        <4> QED BY <2>2, <2>5, <2>6, <4>1
      <3> QED BY <1>1, <2>1, <2>2, <3>1 DEF Reading
    <2> QED BY <1>6, <2>4, <2>8, <2>9 DEF Paced
  <1> QED BY <1>16, <1>17

LEMMA NextPaced == Typed /\ Paced /\ [Next]_vars => Paced'
  <1> SUFFICES ASSUME Typed, Paced, [Next]_vars PROVE Paced'
    OBVIOUS
  <1>1. CASE OpenFifo
    BY <1>1, OpenStill, StillPaced
  <1>2. ASSUME NEW p \in Proc, Step(p) PROVE Paced'
    <2>1. CASE savepid(p) \/ sigfunc_register(p)
      <3>1. UNCHANGED <<shm, message>>
        BY <2>1 DEF savepid, sigfunc_register, shmVars
      <3> QED BY <2>1, <3>1, StartStill, StillPaced
    <2>2. CASE Get(p)
      BY <2>2, GetPaced
    <2>3. CASE SetAll
      BY <2>3, SetAllPaced
    <2>4. CASE snd_msg_to_shm
      BY <2>4, CopyPaced, WaitRoomPaced DEF snd_msg_to_shm
    <2>5. CASE print_msg_from_shm
      BY <2>5, TakePaced, PrintPaced DEF print_msg_from_shm
    <2>6. CASE snd_msg_to_msq \/ print_msg_from_msq
      BY <2>6, MsqStill, StillPaced
    <2>7. CASE p \in Talkers /\ (select(p) \/ read(p) \/ write(p))
      BY <2>7, TalkStill, StillPaced
    <2>8. CASE sigfunc(p)
      BY <2>8, SignalStill, StillPaced
    <2> QED BY <1>2, <2>1, <2>2, <2>3, <2>4, <2>5, <2>6, <2>7, <2>8 DEF Step
  <1>3. ASSUME NEW p \in Proc, Interrupt(p) \/ Crash(p) PROVE Paced'
    BY <1>3, SignalStill, StillPaced
  <1>4. CASE UNCHANGED vars
    <2>1. UNCHANGED <<pc, id, exists, shm, message, left, stored, seen, unread, shownA1>>
      BY <1>4 DEF vars, objVars, shmVars, showVars
    <2>2. Still
      BY <2>1 DEF Still, Gone
    <2> QED BY <2>2, StillPaced
  <1> QED BY <1>1, <1>2, <1>3, <1>4 DEF Next, Run

LEMMA PacedShown == Typed /\ Sides /\ Paced => ShownInOrder
  <1> SUFFICES ASSUME Typed, Sides, Paced PROVE ShownInOrder
    OBVIOUS
  <1>1. /\ stored \in Seq(Messages) /\ msq \in Seq(Messages)
        /\ shownA1 \in Seq([Cells -> Nat]) /\ shownB1 \in Seq(Messages)
    BY DEF Typed, TypeOK
  <1>2. InOrder(stored)
    BY DEF Sides, Side, SideOk, Handed
  <1>3. InOrder(shownB1)
    <2>1. InOrder(shownB1 \o msq)
      BY DEF Sides, Side, SideOk, Handed
    <2> QED BY <1>1, <2>1, OrderFirst
  <1>4. DOMAIN shownA1 = 1..Len(shownA1) /\ DOMAIN stored = 1..Len(stored)
    BY <1>1, LenProperties
  <1> QED BY <1>2, <1>3, <1>4 DEF ShownInOrder, Paced, Walks

(* Neither window goes back, through any number of lines, of signals at any  *)
(* step, and of processes killed.  b1 shows every line at most once and the  *)
(* lines of a person in the order they were typed, and a stores them so.     *)
(* a1's text may be torn, since a may copy its next message into the shared  *)
(* memory cell by cell while a1 prints it: but whatever their steps, the     *)
(* cells of a1's i-th text are of the messages i to i + 2, and none is of an *)
(* earlier message than in a text before.                                    *)
THEOREM ChatShownInOrder == Spec => []ShownInOrder
  <1> DEFINE IInv == Typed /\ Sides /\ Paced
  <1>1. Init => IInv
    BY InitTyped, InitSides, InitPaced
  <1>2. IInv /\ [Next]_vars => IInv'
    BY NextTyped, NextSides, NextPaced
  <1>3. IInv => ShownInOrder
    BY PacedShown
  <1> QED BY <1>1, <1>2, <1>3, PTL DEF Spec
=============================================================================
