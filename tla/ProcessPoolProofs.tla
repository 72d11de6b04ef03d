-------------------------- MODULE ProcessPoolProofs --------------------------
(* Proofs about the process pool, its last stage and the ones before it, for *)
(* any number of children and clients.                                       *)
EXTENDS PoolStages, Counting

(* What can be on its way to a child: at most one request, and behind it at  *)
(* most one exit message.                                                    *)
NoExit(s) == s = <<>> \/ \E c \in Clients : s = <<c>>
Shape(s) == \/ NoExit(s)
            \/ s = <<ExitMsg>>
            \/ \E c \in Clients : s = <<c, ExitMsg>>
HasRequest(s) == s # <<>> /\ s[1] # ExitMsg
Asked(s) == IF HasRequest(s) THEN 1 ELSE 0
Working(place) == IF place \in {"send", "report"} THEN 1 ELSE 0

(* The parent has not sent child j an exit message.                          *)
NotTold(j) == ppc = "loop" \/ (ppc = "bye" /\ j >= i)

(* What BusyConserved needs of each child.                                   *)
ChildInv(j) ==
  /\ Shape(down[j])
  /\ NotTold(j) => NoExit(down[j])
  /\ Alive(j) => Asked(down[j]) + Working(cpc[j]) + up[j] = IF isBusy[j] THEN 1 ELSE 0
  /\ ~Alive(j) => ~HasRequest(down[j])
  /\ cpc[j] # "send" => confd[j] = NoClient

IInv == TypeOK /\ \A j \in Children : ChildInv(j)

LEMMA Constants == /\ childProcessCount \in Nat \ {0}
                   /\ \A j \in Children : j \in Int
                   /\ ExitMsg \notin Clients /\ NoClient \notin Clients
                   /\ ExitMsg # NoClient /\ MaxSignals \in Nat
  BY PoolAssumption DEF Children

LEMMA Tuples ==
  ASSUME NEW x \in Clients \cup {ExitMsg}, NEW y \in Clients \cup {ExitMsg}
  PROVE  /\ <<>> # <<x>> /\ <<>> # <<x, y>>
         /\ Head(<<x>>) = x /\ Tail(<<x>>) = <<>>
         /\ Head(<<x, y>>) = x /\ Tail(<<x, y>>) = <<y>>
         /\ Append(<<>>, x) = <<x>> /\ Append(<<x>>, y) = <<x, y>>
         /\ <<x>>[1] = x /\ <<x, y>>[1] = x /\ <<x, y>>[2] = y
         /\ Len(<<>>) = 0 /\ Len(<<x>>) = 1 /\ Len(<<x, y>>) = 2
         /\ <<x>> \in Seq(Clients \cup {ExitMsg})
         /\ <<x, y>> \in Seq(Clients \cup {ExitMsg})
  <1> DEFINE S == Clients \cup {ExitMsg}
  <1>1. /\ Len(<<>>) = 0 /\ Len(<<x>>) = 1 /\ Len(<<x, y>>) = 2
        /\ <<x>>[1] = x /\ <<x, y>>[1] = x /\ <<x, y>>[2] = y
    OBVIOUS
  <1>2. <<>> \in Seq(S) /\ <<x>> \in Seq(S) /\ <<x, y>> \in Seq(S)
    OBVIOUS
  <1>3. <<>> # <<x>> /\ <<>> # <<x, y>>
    BY <1>1
  <1>4. Head(<<x>>) = x /\ Head(<<x, y>>) = x
    OBVIOUS
  <1>5. Tail(<<x>>) = <<>>
    <2>1. Tail(<<x>>) \in Seq(S) /\ Len(Tail(<<x>>)) = 0
      BY <1>1, <1>2, <1>3, HeadTailProperties
    <2> QED BY <2>1, EmptySeq
  <1>6. Tail(<<x, y>>) = <<y>>
    OBVIOUS
  <1>7. Append(<<>>, x) = <<x>>
    OBVIOUS
  <1>8. Append(<<x>>, y) = <<x, y>>
    <2> DEFINE a == Append(<<x>>, y)
               b == <<x, y>>
    <2>1. a \in Seq(S) /\ Len(a) = 2 /\ a[1] = x /\ a[2] = y
      BY <1>1, <1>2, AppendProperties
    <2>2. b \in Seq(S) /\ Len(b) = 2 /\ b[1] = x /\ b[2] = y
      BY <1>1, <1>2
    <2> HIDE DEF a, b
    <2>3. \A k \in 1..Len(a) : a[k] = b[k]
      BY <2>1, <2>2
    <2> QED BY <2>1, <2>2, <2>3, SeqEqual DEF a, b
  <1> QED BY <1>1, <1>2, <1>3, <1>4, <1>5, <1>6, <1>7, <1>8

(* Reading a message, sending a request, sending the exit message.           *)
LEMMA ShapeTail ==
  ASSUME NEW s, Shape(s), s # <<>>
  PROVE  /\ Shape(Tail(s)) /\ ~HasRequest(Tail(s))
         /\ NoExit(s) => NoExit(Tail(s))
         /\ Head(s) = s[1]
         /\ Head(s) \in Clients \cup {ExitMsg}
         /\ HasRequest(s) <=> Head(s) # ExitMsg
  <1>1. CASE s = <<ExitMsg>>
    BY <1>1, Tuples DEF Shape, NoExit, HasRequest
  <1>2. CASE \E c \in Clients : s = <<c>>
    BY <1>2, Tuples DEF Shape, NoExit, HasRequest
  <1>3. CASE \E c \in Clients : s = <<c, ExitMsg>>
    <2>1. PICK c \in Clients : s = <<c, ExitMsg>>
      BY <1>3
    <2>2. Tail(s) = <<ExitMsg>> /\ Head(s) = c /\ s[1] = c /\ s # <<c>>
      BY <2>1, Tuples
    <2>3. ~NoExit(s)
      BY <2>1, Constants DEF NoExit
    <2> QED BY <2>2, <2>3, Tuples, Constants DEF Shape, HasRequest
  <1> QED BY <1>1, <1>2, <1>3 DEF Shape, NoExit

LEMMA ShapeAppend ==
  ASSUME NEW s, NoExit(s)
  PROVE  /\ Shape(Append(s, ExitMsg))
         /\ HasRequest(Append(s, ExitMsg)) <=> HasRequest(s)
         /\ \A c \in Clients : ~HasRequest(s) =>
              NoExit(Append(s, c)) /\ HasRequest(Append(s, c))
  <1>1. CASE s = <<>>
    BY <1>1, Tuples, Constants DEF Shape, NoExit, HasRequest
  <1>2. CASE \E c \in Clients : s = <<c>>
    <2>1. PICK c \in Clients : s = <<c>>
      BY <1>2
    <2>2. HasRequest(s)
      BY <2>1, Tuples, Constants DEF HasRequest
    <2>3. Append(s, ExitMsg) = <<c, ExitMsg>>
      BY <2>1, Tuples
    <2>4. HasRequest(<<c, ExitMsg>>) /\ Shape(<<c, ExitMsg>>)
      BY Tuples, Constants DEF HasRequest, Shape
    <2> QED BY <2>2, <2>3, <2>4
  <1> QED BY <1>1, <1>2 DEF NoExit

LEMMA ShapeLen == ASSUME NEW s, Shape(s)
                  PROVE  s \in Seq(Clients \cup {ExitMsg}) /\ Len(s) <= 2
  <1>1. CASE s = <<>>
    BY <1>1
  <1>2. CASE s = <<ExitMsg>>
    BY <1>2, Tuples
  <1>3. CASE \E c \in Clients : s = <<c>>
    BY <1>3, Tuples
  <1>4. CASE \E c \in Clients : s = <<c, ExitMsg>>
    BY <1>4, Tuples
  <1> QED BY <1>1, <1>2, <1>3, <1>4 DEF Shape, NoExit

(* The requests Load counts.                                                 *)
Asking(s) == {k \in DOMAIN s : s[k] # ExitMsg}

LEMMA CountRequests ==
  ASSUME NEW s, Shape(s) PROVE Cardinality(Asking(s)) = Asked(s)
  <1>1. CASE s = <<>> \/ s = <<ExitMsg>>
    <2>1. Asking(s) = {} /\ ~HasRequest(s)
      BY <1>1, Tuples DEF Asking, HasRequest
    <2> QED BY <2>1, FS_EmptySet DEF Asked
  <1>2. CASE \E c \in Clients : s = <<c>> \/ s = <<c, ExitMsg>>
    <2>1. Asking(s) = {1} /\ HasRequest(s)
      BY <1>2, Tuples, Constants DEF Asking, HasRequest
    <2> QED BY <2>1, FS_Singleton DEF Asked
  <1> QED BY <1>1, <1>2 DEF Shape, NoExit

LEMMA LoadIs ==
  ASSUME NEW j \in Children, Shape(down[j])
  PROVE  Load(j) = Asked(down[j]) + Working(cpc[j]) + up[j]
  <1>1. Requests(j) = Asking(down[j])
    BY DEF Requests, Asking
  <1> QED BY <1>1, CountRequests DEF Load, Working

LEMMA InvBusy == IInv => BusyConserved
  BY LoadIs DEF IInv, ChildInv, BusyConserved

(* Initially, and whatever a step leaves alone.                              *)
LEMMA InitInv == Init => IInv
  <1> SUFFICES ASSUME Init PROVE IInv
    OBVIOUS
  <1>1. \A j \in Children : ChildInv(j)
    BY DEF Init, ChildInv, Shape, NoExit, Alive, Asked, HasRequest, Working
  <1>2. TypeOK
    BY Constants DEF Init, TypeOK
  <1> QED BY <1>1, <1>2 DEF IInv

Same(j) == /\ down'[j] = down[j] /\ up'[j] = up[j] /\ cpc'[j] = cpc[j]
           /\ confd'[j] = confd[j] /\ isBusy'[j] = isBusy[j]
           /\ NotTold(j)' => NotTold(j)

LEMMA Untouched ==
  ASSUME NEW j \in Children, ChildInv(j), Same(j) PROVE ChildInv(j)'
  BY DEF ChildInv, Same, Alive, Asked, HasRequest

(* The parts of TypeOK a child's step can disturb, when it is child j's.     *)
LEMMA ChildTypes ==
  ASSUME TypeOK, NEW j \in Children,
         \A k \in Children \ {j} : Len(down'[k]) = Len(down[k]),
         down' \in [Children -> Seq(Clients \cup {ExitMsg})], Len(down'[j]) <= 2,
         up' \in [Children -> 0..1],
         cpc' \in [Children -> {"recv", "send", "report", "dead"}],
         confd' \in [Children -> Clients \cup {NoClient}],
         cstate' \in [Clients -> {"idle", "pending", "served", "refused", "broken"}],
         UNCHANGED <<parentVars, envVars>>
  PROVE  TypeOK'
  BY DEF TypeOK, parentVars, envVars

LEMMA RecvInv ==
  ASSUME IInv, NEW j \in Children, recvfd(j) PROVE IInv'
  <1> USE DEF C
  <1>1. /\ down[j] # <<>> /\ Shape(down[j]) /\ cpc[j] = "recv"
        /\ Asked(down[j]) + up[j] = IF isBusy[j] THEN 1 ELSE 0
        /\ confd[j] = NoClient /\ up[j] \in 0..1
    BY DEF IInv, ChildInv, TypeOK, recvfd, Alive, Working, Asked
  <1>2. /\ Shape(Tail(down[j])) /\ ~HasRequest(Tail(down[j]))
        /\ NoExit(down[j]) => NoExit(Tail(down[j]))
        /\ Head(down[j]) \in Clients \cup {ExitMsg}
        /\ HasRequest(down[j]) <=> Head(down[j]) # ExitMsg
    BY <1>1, ShapeTail
  <1>3. /\ down' \in [Children -> Seq(Clients \cup {ExitMsg})]
        /\ Len(Tail(down[j])) <= 2 /\ down'[j] = Tail(down[j])
    BY <1>2, ShapeLen DEF IInv, TypeOK, recvfd
  <1>4. \A k \in Children \ {j} : Same(k)
    BY DEF IInv, TypeOK, recvfd, Same, NotTold, parentVars
  <1>5. UNCHANGED <<up, isBusy, ppc, i>>
    BY DEF recvfd, parentVars
  <1>6. NotTold(j)' => NotTold(j)
    BY <1>5 DEF NotTold
  <1>7. ChildInv(j)'
    <2>1. CASE Head(down[j]) = ExitMsg
      <3>1. cpc'[j] = "dead" /\ confd'[j] = confd[j]
        BY <2>1 DEF recvfd, IInv, TypeOK
      <3> QED BY <1>1, <1>2, <1>3, <1>5, <1>6, <3>1 DEF IInv, ChildInv, Alive
    <2>2. CASE Head(down[j]) # ExitMsg
      <3>1. cpc'[j] = "send"
        BY <2>2 DEF recvfd, IInv, TypeOK
      <3>2. Asked(down[j]) = 1 /\ Asked(Tail(down[j])) = 0
        BY <1>2, <2>2 DEF Asked
      <3>3. Asked(down'[j]) + Working(cpc'[j]) + up'[j] = IF isBusy'[j] THEN 1 ELSE 0
        BY <1>1, <1>3, <1>5, <3>1, <3>2 DEF Working
      <3> QED BY <1>1, <1>2, <1>3, <1>5, <1>6, <3>1, <3>3 DEF IInv, ChildInv, Alive, Asked
    <2> QED BY <2>1, <2>2
  <1>8. TypeOK'
    <2>1. \A k \in Children \ {j} : Len(down'[k]) = Len(down[k])
      BY <1>4 DEF Same
    <2>2. cpc' \in [Children -> {"recv", "send", "report", "dead"}]
      BY DEF IInv, TypeOK, recvfd
    <2>3. confd' \in [Children -> Clients \cup {NoClient}]
      BY <1>2 DEF IInv, TypeOK, recvfd
    <2>4. UNCHANGED <<parentVars, up, envVars, cstate>>
      BY DEF recvfd
    <2> QED BY <1>3, <2>1, <2>2, <2>3, <2>4, ChildTypes DEF IInv, TypeOK
  <1> QED BY <1>4, <1>7, <1>8, Untouched DEF IInv

LEMMA EofInv ==
  ASSUME IInv, NEW j \in Children, recvEof(j) PROVE IInv'
  <1>1. UNCHANGED <<parentVars, pairVars, confd, envVars, cstate>>
    BY DEF recvEof
  <1>2. cpc[j] = "recv" /\ cpc' = [cpc EXCEPT ![j] = "dead"] /\ down[j] = <<>>
    BY DEF recvEof, C
  <1>3. cpc'[j] = "dead" /\ cpc' \in [Children -> {"recv", "send", "report", "dead"}]
    BY <1>2 DEF IInv, TypeOK
  <1>4. \A k \in Children \ {j} : Same(k)
    BY <1>1, <1>2 DEF IInv, TypeOK, Same, NotTold, parentVars, pairVars
  <1>5. ChildInv(j)'
    BY <1>1, <1>2, <1>3
    DEF IInv, ChildInv, NotTold, Alive, HasRequest, parentVars, pairVars
  <1>6. TypeOK'
    BY <1>1, <1>3, ChildTypes DEF IInv, TypeOK, pairVars
  <1> QED BY <1>4, <1>5, <1>6, Untouched DEF IInv

(* What the ends of a transfer, good or bad, have in common.                 *)
Transferred(j) ==
  /\ \E to \in {"report", "dead"} : C(j, "send", to)
  /\ confd' = [confd EXCEPT ![j] = NoClient]
  /\ \E end \in {"served", "broken"} : cstate' = [cstate EXCEPT ![confd[j]] = end]
  /\ UNCHANGED <<parentVars, pairVars, envVars>>

LEMMA TransferInv ==
  ASSUME IInv, NEW j \in Children, Transferred(j) PROVE IInv'
  <1>1. UNCHANGED <<parentVars, pairVars, envVars>>
    BY DEF Transferred
  <1>2. PICK to \in {"report", "dead"} :
          cpc[j] = "send" /\ cpc' = [cpc EXCEPT ![j] = to]
    BY DEF Transferred, C
  <1>3. confd' = [confd EXCEPT ![j] = NoClient]
    BY DEF Transferred
  <1>4. cpc'[j] = to /\ cpc' \in [Children -> {"recv", "send", "report", "dead"}]
    BY <1>2 DEF IInv, TypeOK
  <1>5. confd'[j] = NoClient /\ confd' \in [Children -> Clients \cup {NoClient}]
    BY <1>3 DEF IInv, TypeOK
  <1>6. cstate' \in [Clients -> {"idle", "pending", "served", "refused", "broken"}]
    BY DEF IInv, TypeOK, Transferred
  <1>7. \A k \in Children \ {j} : Same(k)
    BY <1>1, <1>2, <1>3 DEF IInv, TypeOK, Same, NotTold, parentVars, pairVars
  <1>8. ChildInv(j)'
    <2>1. /\ Shape(down[j]) /\ (NotTold(j) => NoExit(down[j]))
          /\ Asked(down[j]) + 1 + up[j] = IF isBusy[j] THEN 1 ELSE 0
          /\ up[j] \in 0..1 /\ isBusy[j] \in BOOLEAN
      BY <1>2 DEF IInv, ChildInv, TypeOK, Alive, Working
    <2>2. ~HasRequest(down[j])
      BY <2>1 DEF Asked
    <2>3. /\ UNCHANGED <<ppc, i>> /\ down'[j] = down[j]
          /\ up'[j] = up[j] /\ isBusy'[j] = isBusy[j]
      BY <1>1 DEF parentVars, pairVars
    <2>4. CASE to = "report"
      <3>1. Working(cpc'[j]) = 1
        BY <2>4, <1>4 DEF Working
      <3> QED BY <2>1, <2>3, <2>4, <3>1, <1>4, <1>5 DEF ChildInv, NotTold, Alive, Asked, HasRequest
    <2>5. CASE to = "dead"
      BY <2>1, <2>2, <2>3, <2>5, <1>4, <1>5 DEF ChildInv, NotTold, Alive, HasRequest
    <2> QED BY <2>4, <2>5
  <1>9. TypeOK'
    BY <1>1, <1>4, <1>5, <1>6, ChildTypes DEF IInv, TypeOK, pairVars
  <1> QED BY <1>7, <1>8, <1>9, Untouched DEF IInv

LEMMA SendInv ==
  ASSUME IInv, NEW j \in Children, sendbigfile(j) \/ sendFails(j) PROVE IInv'
  <1>1. Transferred(j)
    BY DEF sendbigfile, sendFails, Transferred
  <1> QED BY <1>1, TransferInv

LEMMA ReportInv ==
  ASSUME IInv, NEW j \in Children, report(j) PROVE IInv'
  <1>1. UNCHANGED <<parentVars, down, confd, envVars, cstate>>
    BY DEF report
  <1>2. PICK to \in {"recv", "dead"} :
          cpc[j] = "report" /\ cpc' = [cpc EXCEPT ![j] = to]
    BY DEF report, C
  <1>3. cpc'[j] = to /\ cpc' \in [Children -> {"recv", "send", "report", "dead"}]
    BY <1>2 DEF IInv, TypeOK
  <1>4. /\ Shape(down[j]) /\ (NotTold(j) => NoExit(down[j])) /\ confd[j] = NoClient
        /\ Asked(down[j]) + 1 + up[j] = IF isBusy[j] THEN 1 ELSE 0
        /\ up[j] \in 0..1 /\ isBusy[j] \in BOOLEAN
    BY <1>2 DEF IInv, ChildInv, TypeOK, Alive, Working
  <1>5. ~HasRequest(down[j]) /\ up[j] = 0 /\ isBusy[j]
    BY <1>4 DEF Asked
  <1>6. /\ UNCHANGED <<ppc, i>> /\ down'[j] = down[j]
        /\ confd'[j] = confd[j] /\ isBusy'[j] = isBusy[j]
    BY <1>1 DEF parentVars
  <1>7. \/ to = "recv" /\ up' = [up EXCEPT ![j] = @ + 1]
        \/ to = "dead" /\ up' = up
    BY <1>2, <1>3 DEF report, C, IInv, TypeOK
  <1>8. /\ up' \in [Children -> 0..1]
        /\ up'[j] = IF to = "recv" THEN 1 ELSE 0
    <2>1. up \in [Children -> 0..1]
      BY DEF IInv, TypeOK
    <2>2. CASE to = "recv"
      <3>1. up' = [up EXCEPT ![j] = 1]
        BY <1>5, <1>7, <2>2
      <3> QED BY <2>1, <2>2, <3>1
    <2>3. CASE to = "dead"
      BY <1>5, <1>7, <2>1, <2>3
    <2> QED BY <2>2, <2>3
  <1>9. \A k \in Children \ {j} : Same(k)
    BY <1>1, <1>2, <1>7 DEF IInv, TypeOK, Same, NotTold, parentVars
  <1>10. ChildInv(j)'
    <2>1. CASE to = "recv"
      <3>1. Asked(down'[j]) = 0 /\ Working(cpc'[j]) = 0 /\ up'[j] = 1
        BY <1>3, <1>5, <1>6, <1>8, <2>1 DEF Asked, Working
      <3> QED BY <1>3, <1>4, <1>5, <1>6, <2>1, <3>1 DEF ChildInv, NotTold, Alive
    <2>2. CASE to = "dead"
      BY <1>3, <1>4, <1>5, <1>6, <2>2 DEF ChildInv, NotTold, Alive, HasRequest
    <2> QED BY <2>1, <2>2
  <1>11. TypeOK'
    BY <1>1, <1>3, <1>8, ChildTypes DEF IInv, TypeOK
  <1> QED BY <1>9, <1>10, <1>11, Untouched DEF IInv

(* The parent: accept and hand over.                                         *)
LEMMA DispatchInv == ASSUME IInv, dispatch PROVE IInv'
  <1>1. /\ ppc = "loop" /\ backlog # <<>> /\ backlog' = Tail(backlog)
        /\ UNCHANGED <<i, up, childVars, gone, exitpipe, fileOk>>
    BY DEF dispatch
  <1>2. Head(backlog) \in Clients /\ Tail(backlog) \in Seq(Clients)
    BY <1>1, HeadTailProperties DEF IInv, TypeOK
  <1>3. cstate' \in [Clients -> {"idle", "pending", "served", "refused", "broken"}]
    BY <1>2 DEF IInv, TypeOK, dispatch
  <1>4. CASE UNCHANGED <<down, isBusy>> /\ ppc' \in {"loop", "killed"}
    <2>1. \A k \in Children : Same(k)
      BY <1>1, <1>4 DEF Same, NotTold, childVars
    <2>2. TypeOK'
      BY <1>1, <1>2, <1>3, <1>4 DEF IInv, TypeOK, childVars
    <2> QED BY <2>1, <2>2, Untouched DEF IInv
  <1>5. CASE \E j \in Children :
               /\ FirstIdle(j) /\ Alive(j) /\ UNCHANGED ppc
               /\ down' = [down EXCEPT ![j] = Append(@, Head(backlog))]
               /\ isBusy' = [isBusy EXCEPT ![j] = TRUE]
    <2>1. PICK j \in Children :
               /\ FirstIdle(j) /\ Alive(j) /\ UNCHANGED ppc
               /\ down' = [down EXCEPT ![j] = Append(@, Head(backlog))]
               /\ isBusy' = [isBusy EXCEPT ![j] = TRUE]
      BY <1>5
    <2>2. ~isBusy[j]
      BY <2>1 DEF FirstIdle, Idle
    <2>3. /\ NoExit(down[j]) /\ up[j] \in 0..1
          /\ Asked(down[j]) + Working(cpc[j]) + up[j] = 0
      BY <1>1, <2>1, <2>2 DEF IInv, ChildInv, NotTold, TypeOK
    <2>4. ~HasRequest(down[j]) /\ Working(cpc[j]) = 0 /\ up[j] = 0
      BY <2>3 DEF Asked, Working
    <2> DEFINE s == Append(down[j], Head(backlog))
    <2>5. NoExit(s) /\ HasRequest(s)
      BY <1>2, <2>3, <2>4, ShapeAppend
    <2>6. s \in Seq(Clients \cup {ExitMsg}) /\ Len(s) <= 2 /\ Shape(s) /\ Asked(s) = 1
      BY <2>5, ShapeLen DEF Shape, Asked
    <2>7. down'[j] = s /\ isBusy'[j] = TRUE
      BY <2>1 DEF IInv, TypeOK
    <2> HIDE DEF s
    <2>8. \A k \in Children \ {j} : Same(k)
      BY <1>1, <2>1 DEF IInv, TypeOK, Same, NotTold, childVars
    <2>9. ChildInv(j)'
      <3>1. cpc'[j] = cpc[j] /\ confd'[j] = confd[j] /\ up'[j] = up[j]
        BY <1>1 DEF childVars
      <3>2. Asked(down'[j]) = 1 /\ Working(cpc'[j]) = 0 /\ up'[j] = 0
        BY <2>4, <2>6, <2>7, <3>1
      <3>3. Shape(down'[j]) /\ NoExit(down'[j])
        BY <2>5, <2>6, <2>7
      <3> QED BY <2>1, <2>7, <3>1, <3>2, <3>3 DEF IInv, ChildInv, Alive
    <2>10. down' \in [Children -> Seq(Clients \cup {ExitMsg})]
      BY <2>1, <2>6, <2>7 DEF IInv, TypeOK, s
    <2>11. \A k \in Children : Len(down'[k]) <= 2
      BY <2>6, <2>7, <2>8 DEF IInv, TypeOK, Same
    <2>12. isBusy' \in [Children -> BOOLEAN]
      BY <2>1 DEF IInv, TypeOK
    <2>13. TypeOK'
      BY <1>1, <1>2, <1>3, <2>1, <2>10, <2>11, <2>12 DEF IInv, TypeOK, childVars
    <2> QED BY <2>8, <2>9, <2>13, Untouched DEF IInv
  <1> QED BY <1>1, <1>4, <1>5 DEF dispatch

(* The parent: a readable pair.                                              *)
LEMMA EventInv ==
  ASSUME IInv, NEW j \in Children, childEvent(j) PROVE IInv'
  <1>1. UNCHANGED <<ppc, i, down, childVars, envVars, cstate>>
    BY DEF childEvent
  <1>2. isBusy' = [isBusy EXCEPT ![j] = FALSE]
    BY DEF childEvent
  <1>3. \/ up[j] > 0 /\ up' = [up EXCEPT ![j] = @ - 1]
        \/ up[j] = 0 /\ ~Alive(j) /\ up' = up
    BY DEF childEvent
  <1>4. isBusy'[j] = FALSE /\ isBusy' \in [Children -> BOOLEAN]
    BY <1>2 DEF IInv, TypeOK
  <1>5. up[j] \in 0..1 /\ up \in [Children -> 0..1] /\ isBusy[j] \in BOOLEAN
    BY DEF IInv, TypeOK
  <1>6. up'[j] = 0 /\ up' \in [Children -> 0..1]
    <2>1. CASE up[j] > 0
      <3>1. up' = [up EXCEPT ![j] = 0]
        BY <1>3, <1>5, <2>1
      <3> QED BY <1>5, <3>1
    <2>2. CASE up[j] = 0
      BY <1>3, <1>5, <2>2
    <2> QED BY <1>5, <2>1, <2>2
  <1>7. \A k \in Children \ {j} : Same(k)
    BY <1>1, <1>2, <1>3, <1>5 DEF IInv, TypeOK, Same, NotTold, childVars
  <1>8. Alive(j) => ~HasRequest(down[j]) /\ Working(cpc[j]) = 0
    BY <1>3, <1>5 DEF IInv, ChildInv, Asked, Working
  <1>9. ChildInv(j)'
    BY <1>1, <1>4, <1>6, <1>8
    DEF IInv, ChildInv, NotTold, Alive, Asked, HasRequest, childVars
  <1>10. TypeOK'
    BY <1>1, <1>4, <1>6 DEF IInv, TypeOK, childVars, envVars
  <1> QED BY <1>7, <1>9, <1>10, Untouched DEF IInv

(* The parent: SIGUSR1's byte, and the loops of the exit path.               *)
LEMMA ExitEventInv == ASSUME IInv, exitEvent PROVE IInv'
  <1>1. /\ ppc = "loop" /\ ppc' = "bye" /\ i' = 1
        /\ UNCHANGED <<isBusy, pairVars, childVars, envVars, cstate>>
    BY DEF exitEvent
  <1>2. \A k \in Children : Same(k)
    BY <1>1 DEF Same, NotTold, pairVars, childVars
  <1>3. TypeOK'
    BY <1>1, Constants DEF IInv, TypeOK, pairVars, childVars, envVars
  <1> QED BY <1>2, <1>3, Untouched DEF IInv

LEMMA SendExitInv == ASSUME IInv, sendExit PROVE IInv'
  <1>1. ppc = "bye" /\ UNCHANGED <<isBusy, up, childVars, envVars, cstate>>
    BY DEF sendExit
  <1>2. CASE /\ i \in Children /\ Alive(i) /\ UNCHANGED ppc /\ i' = i + 1
             /\ down' = [down EXCEPT ![i] = Append(@, ExitMsg)]
    <2> PICK j \in Children : j = i
      BY <1>2
    <2> DEFINE s == Append(down[j], ExitMsg)
    <2>1. NoExit(down[j])
      BY <1>1, <1>2, Constants DEF IInv, ChildInv, NotTold
    <2>2. Shape(s) /\ (HasRequest(s) <=> HasRequest(down[j]))
      BY <2>1, ShapeAppend
    <2>3. s \in Seq(Clients \cup {ExitMsg}) /\ Len(s) <= 2 /\ Asked(s) = Asked(down[j])
      BY <2>2, ShapeLen DEF Asked
    <2>4. down'[j] = s
      BY <1>2 DEF IInv, TypeOK
    <2> HIDE DEF s
    <2>5. UNCHANGED <<isBusy, up, cpc, confd>>
      BY <1>1 DEF childVars
    <2>6. ~NotTold(j)'
      BY <1>1, <1>2, Constants DEF NotTold
    <2>7. ChildInv(j)'
      <3>1. Asked(down'[j]) = Asked(down[j])
        BY <2>3, <2>4
      <3> QED BY <1>2, <2>2, <2>4, <2>5, <2>6, <3>1 DEF IInv, ChildInv, Alive
    <2>8. \A k \in Children \ {j} : Same(k)
      BY <1>1, <1>2, <2>5, Constants DEF IInv, TypeOK, Same, NotTold
    <2>9. down' \in [Children -> Seq(Clients \cup {ExitMsg})]
      BY <1>2, <2>3, <2>4 DEF IInv, TypeOK, s
    <2>10. \A k \in Children : Len(down'[k]) <= 2
      BY <2>3, <2>4, <2>8 DEF IInv, TypeOK, Same
    <2>11. i' \in 1..(childProcessCount + 1)
      BY <1>2, Constants DEF Children
    <2>12. TypeOK'
      BY <1>1, <1>2, <2>9, <2>10, <2>11 DEF IInv, TypeOK, childVars, envVars
    <2> QED BY <2>7, <2>8, <2>12, Untouched DEF IInv
  <1>3. CASE /\ UNCHANGED down
             /\ \/ ppc' = "killed" /\ UNCHANGED i
                \/ ppc' = "wait" /\ i' = 1
    <2>1. \A k \in Children : Same(k)
      BY <1>1, <1>3 DEF Same, NotTold, childVars
    <2>2. TypeOK'
      BY <1>1, <1>3, Constants DEF IInv, TypeOK, childVars, envVars
    <2> QED BY <2>1, <2>2, Untouched DEF IInv
  <1> QED BY <1>2, <1>3 DEF sendExit

LEMMA WaitInv == ASSUME IInv, wait PROVE IInv'
  <1>1. /\ ppc = "wait" /\ ppc' \in {"wait", "exited"}
        /\ UNCHANGED <<isBusy, pairVars, childVars, envVars, cstate>>
    BY DEF wait
  <1>2. i' \in 1..(childProcessCount + 1)
    BY Constants DEF wait, Children, IInv, TypeOK
  <1>3. \A k \in Children : Same(k)
    BY <1>1 DEF Same, NotTold, pairVars, childVars
  <1>4. TypeOK'
    BY <1>1, <1>2 DEF IInv, TypeOK, pairVars, childVars, envVars
  <1> QED BY <1>3, <1>4, Untouched DEF IInv

LEMMA EnvironmentInv == ASSUME IInv, Environment PROVE IInv'
  <1>1. UNCHANGED <<parentVars, pairVars, childVars>>
    BY DEF Environment, Connect, Leave, sigfunc, RemoveFile
  <1>2. \A k \in Children : Same(k)
    BY <1>1 DEF Same, NotTold, parentVars, pairVars, childVars
  <1>3. /\ backlog' \in Seq(Clients)
        /\ cstate' \in [Clients -> {"idle", "pending", "served", "refused", "broken"}]
        /\ gone' \in SUBSET Clients
        /\ exitpipe' \in 0..MaxSignals
        /\ fileOk' \in BOOLEAN
    <2>1. ASSUME NEW c \in Clients, Connect(c) PROVE <1>3!:
      BY <2>1 DEF Connect, IInv, TypeOK
    <2>2. ASSUME NEW c \in Clients, Leave(c) PROVE <1>3!:
      BY <2>2 DEF Leave, IInv, TypeOK
    <2>3. CASE sigfunc
      BY <2>3, Constants DEF sigfunc, IInv, TypeOK
    <2>4. CASE RemoveFile
      BY <2>4 DEF RemoveFile, IInv, TypeOK
    <2> QED BY <2>1, <2>2, <2>3, <2>4 DEF Environment
  <1>4. TypeOK'
    BY <1>1, <1>3 DEF IInv, TypeOK, parentVars, pairVars, childVars
  <1> QED BY <1>2, <1>4, Untouched DEF IInv

LEMMA StutterInv == ASSUME IInv, UNCHANGED vars PROVE IInv'
  <1>1. \A k \in Children : Same(k)
    BY DEF vars, parentVars, pairVars, childVars, Same, NotTold
  <1>2. TypeOK'
    BY DEF IInv, TypeOK, vars, parentVars, pairVars, childVars, envVars
  <1> QED BY <1>1, <1>2, Untouched DEF IInv

(* Every step of a child, and every step.                                    *)
LEMMA ChildStepInv ==
  ASSUME IInv, NEW j \in Children, child_handle(j) PROVE IInv'
  BY RecvInv, EofInv, SendInv, ReportInv DEF child_handle

LEMMA StepInv == IInv /\ [Next]_vars => IInv'
  <1> SUFFICES ASSUME IInv, [Next]_vars PROVE IInv'
    OBVIOUS
  <1>1. ASSUME NEW j \in Children, child_handle(j) PROVE IInv'
    BY <1>1, ChildStepInv
  <1>2. CASE parent_epoll
    BY <1>2, DispatchInv, EventInv, ExitEventInv, SendExitInv, WaitInv DEF parent_epoll
  <1>3. CASE Environment
    BY <1>3, EnvironmentInv
  <1>4. CASE UNCHANGED vars
    BY <1>4, StutterInv
  <1> QED BY <1>1, <1>2, <1>3, <1>4 DEF Next

(***************************************************************************)
(* The strengthened invariant holds: what waits for each child is at most  *)
(* a request and an exit message behind it, and the task that isBusy       *)
(* stands for is in one place, whatever parent, children and users do.     *)
(***************************************************************************)
THEOREM Inductive == Spec => []IInv
  <1> QED BY InitInv, StepInv, PTL DEF Spec

(***************************************************************************)
(* The type invariant of the pool, with its bounds on what waits in a pair.*)
(***************************************************************************)
THEOREM TypeCorrect == Spec => []TypeOK
  <1>1. IInv => TypeOK
    BY DEF IInv
  <1> QED BY <1>1, Inductive, PTL

(***************************************************************************)
(* isBusy of a living child tells where its one task is, for any number of *)
(* children, whatever dies or leaves.                                      *)
(***************************************************************************)
THEOREM BusyTellsTheTruth == Spec => []BusyConserved
  <1> QED BY InvBusy, Inductive, PTL

-----------------------------------------------------------------------------
(* What is proved of the last stage of the pool holds of the ones before it: *)
(* their parent takes fewer steps, and the child of the first one takes more *)
(* to make a transfer, the last of which ends it as the others do.           *)
LEMMA SendChildInv ==
  ASSUME IInv, NEW j \in Children, send_child(j) PROVE IInv'
  <1>1. CASE closeConn(j)
    <2>1. Transferred(j)
      BY <1>1 DEF closeConn, closed, Transferred
    <2> QED BY <2>1, TransferInv
  <1>2. CASE packetsFail(j)
    BY <1>2, SendInv DEF packetsFail
  <1>3. CASE openFile(j) \/ sendPackets(j)
    BY <1>3, StutterInv DEF openFile, sendPackets
  <1> QED BY <1>1, <1>2, <1>3, RecvInv, EofInv, ReportInv DEF send_child, recvConn

LEMMA StageChildInv ==
  ASSUME IInv, NEW j \in Children, Child(j) PROVE IInv'
  <1>1. CASE send_child(j)
    BY <1>1, SendChildInv
  <1>2. CASE bigfile_child(j)
    BY <1>2, ChildStepInv DEF bigfile_child
  <1> QED BY <1>1, <1>2 DEF Child

LEMMA StageStepInv == IInv /\ [StagesNext]_allVars => IInv'
  <1> SUFFICES ASSUME IInv, [StagesNext]_allVars PROVE IInv'
    OBVIOUS
  <1>1. CASE Next
    BY <1>1, StepInv
  <1>2. ASSUME NEW j \in Children, Child(j) PROVE IInv'
    BY <1>2, StageChildInv
  <1>3. CASE early_parent_epoll
    BY <1>3, DispatchInv, EventInv DEF early_parent_epoll
  <1>4. CASE Users
    BY <1>4, EnvironmentInv DEF Users, Environment
  <1>5. CASE UNCHANGED allVars
    BY <1>5, StutterInv DEF allVars
  <1> QED BY <1>1, <1>2, <1>3, <1>4, <1>5 DEF StagesNext

(***************************************************************************)
(* In every stage of the pool the strengthened invariant of the parent's   *)
(* and the children's steps holds.                                         *)
(***************************************************************************)
THEOREM StagesInductive == StagesSpec => []IInv
  <1>1. StagesInit => IInv
    BY InitInv DEF StagesInit
  <1> QED BY <1>1, StageStepInv, PTL DEF StagesSpec

(***************************************************************************)
(* The type invariant in every stage.                                      *)
(***************************************************************************)
THEOREM StagesTypeCorrect == StagesSpec => []TypeOK
  <1>1. IInv => TypeOK
    BY DEF IInv
  <1> QED BY <1>1, StagesInductive, PTL

(***************************************************************************)
(* In every stage isBusy of a living child tells where its one task is,    *)
(* the first included, whose children go on when they cannot open a file.  *)
(***************************************************************************)
THEOREM StagesBusyTellsTheTruth == StagesSpec => []BusyConserved
  <1> QED BY InvBusy, StagesInductive, PTL

-----------------------------------------------------------------------------
(* HeldOnce, and what GracefulExit needs beside it: a child that sends has a *)
(* client to send to, the parent's wait counts the children that ended, and  *)
(* a living parent's broken connections are their clients' or the file's     *)
(* doing.                                                                    *)
Serving == \A j \in Children : cpc[j] = "send" => confd[j] \in Clients
Reaped == /\ ppc = "wait" => i <= Ended + 1
          /\ ppc = "exited" => \A j \in Children : ~Alive(j)
Blamed == ppc # "killed" =>
            \A c \in Clients : cstate[c] = "broken" => c \in gone \/ ~fileOk
HeldInv == HeldOnce /\ Serving /\ Reaped /\ Blamed

LEMMA ChildrenFinite == /\ IsFiniteSet(Children)
                        /\ Cardinality(Children) = childProcessCount
  <1>1. Cardinality(1..childProcessCount) = childProcessCount
    BY FS_Interval, Constants
  <1> QED BY <1>1, FS_Interval, Constants DEF Children

(* A connection waits for a child only at the head of its pair: the pairs    *)
(* that hold c are counted by their children.                                *)
Asker == [j \in Children |-> IF HasRequest(down[j]) THEN down[j][1] ELSE NoClient]
InPairs(c) == {at \in Children \X (1..2) :
                 at[2] \in DOMAIN down[at[1]] /\ down[at[1]][at[2]] = c}

LEMMA Heads ==
  ASSUME NEW s, Shape(s), NEW c \in Clients, NEW k \in 1..2
  PROVE  (k \in DOMAIN s /\ s[k] = c) <=> (k = 1 /\ HasRequest(s) /\ s[1] = c)
  <1>1. CASE s = <<>>
    BY <1>1 DEF HasRequest
  <1>2. CASE s = <<ExitMsg>>
    BY <1>2, Tuples, Constants DEF HasRequest
  <1>3. CASE \E d \in Clients : s = <<d>>
    BY <1>3, Tuples, Constants DEF HasRequest
  <1>4. CASE \E d \in Clients : s = <<d, ExitMsg>>
    BY <1>4, Tuples, Constants DEF HasRequest
  <1> QED BY <1>1, <1>2, <1>3, <1>4 DEF Shape, NoExit

LEMMA PairsCounted ==
  ASSUME IInv, NEW c \in Clients
  PROVE  /\ Cardinality(InPairs(c)) = Cardinality(At(Children, Asker, {c}))
         /\ Cardinality(InPairs(c)) \in Nat
  <1> DEFINE A == At(Children, Asker, {c})
             f == [j \in A |-> <<j, 1>>]
  <1>1. IsFiniteSet(A) /\ Cardinality(A) \in Nat
    BY ChildrenFinite, AtFinite
  <1>2. \A j : j \in A <=> j \in Children /\ HasRequest(down[j]) /\ down[j][1] = c
    BY Constants DEF At, Asker
  <1>3. \A at : at \in InPairs(c) <=> \E j \in A : at = <<j, 1>>
    <2>1. ASSUME NEW at \in InPairs(c) PROVE \E j \in A : at = <<j, 1>>
      <3>1. PICK j \in Children, k \in 1..2 :
              at = <<j, k>> /\ k \in DOMAIN down[j] /\ down[j][k] = c
        BY DEF InPairs
      <3>2. k = 1 /\ HasRequest(down[j]) /\ down[j][1] = c
        BY <3>1, Heads DEF IInv, ChildInv
      <3> QED BY <1>2, <3>1, <3>2
    <2>2. ASSUME NEW j \in A PROVE <<j, 1>> \in InPairs(c)
      <3>1. j \in Children /\ HasRequest(down[j]) /\ down[j][1] = c
        BY <1>2
      <3>2. 1 \in DOMAIN down[j]
        BY <3>1, Heads DEF IInv, ChildInv
      <3> QED BY <3>1, <3>2 DEF InPairs
    <2> QED BY <2>1, <2>2
  <1> HIDE DEF A
  <1>4. f \in Bijection(A, InPairs(c))
    <2>1. f \in [A -> InPairs(c)]
      BY <1>3
    <2>2. \A a, b \in A : f[a] = f[b] => a = b
      OBVIOUS
    <2>3. \A at \in InPairs(c) : \E a \in A : f[a] = at
      BY <1>3
    <2> HIDE DEF f
    <2> QED BY <2>1, <2>2, <2>3
            DEF Bijection, Injection, Surjection, IsInjective
  <1>5. ExistsBijection(A, InPairs(c))
    BY <1>4 DEF ExistsBijection
  <1>6. Cardinality(InPairs(c)) = Cardinality(A)
    BY <1>1, <1>5, FS_Bijection
  <1> QED BY <1>1, <1>6 DEF A

Queued(c) == Cardinality(Occurrences(backlog, c))
HeldBy(f, c) == Cardinality(At(Children, f, {c}))
Asks(c) == HeldBy(Asker, c)
Held(c) == HeldBy(confd, c)

LEMMA PlacesAre ==
  ASSUME IInv, NEW c \in Clients
  PROVE  /\ Places(c) = Queued(c) + Asks(c) + Held(c)
         /\ Queued(c) \in Nat /\ Asks(c) \in Nat /\ Held(c) \in Nat
  <1>1. /\ {k \in DOMAIN backlog : backlog[k] = c} = Occurrences(backlog, c)
        /\ {j \in Children : confd[j] = c} = At(Children, confd, {c})
    BY DEF Occurrences, At
  <1>2. backlog \in Seq(Clients)
    BY DEF IInv, TypeOK
  <1> QED BY <1>1, <1>2, PairsCounted, OccursFinite, ChildrenFinite, AtFinite
          DEF Places, InPairs, Queued, Asks, Held, HeldBy

Summed == \A c \in Clients :
            /\ Places(c) = Queued(c) + Asks(c) + Held(c)
            /\ Queued(c) \in Nat /\ Asks(c) \in Nat /\ Held(c) \in Nat

LEMMA Sums == /\ IInv => Summed
              /\ IInv' => Summed'
  <1>1. IInv => Summed
    BY PlacesAre DEF Summed
  <1> QED BY <1>1, PTL

(* How each part changes with a step.                                        *)
LEMMA QueuedMove ==
  ASSUME IInv, NEW c \in Clients
  PROVE  /\ \A e \in Clients : backlog' = Append(backlog, e) =>
              Queued(c)' = Queued(c) + (IF e = c THEN 1 ELSE 0)
         /\ backlog # <<>> /\ backlog' = Tail(backlog) =>
              Queued(c)' = Queued(c) - (IF Head(backlog) = c THEN 1 ELSE 0)
  <1>1. backlog \in Seq(Clients)
    BY DEF IInv, TypeOK
  <1>2. \A e \in Clients :
          Cardinality(Occurrences(Append(backlog, e), c)) =
            Queued(c) + (IF e = c THEN 1 ELSE 0)
    BY <1>1, OccursAppend DEF Queued
  <1>3. backlog # <<>> =>
          Cardinality(Occurrences(Tail(backlog), c)) =
            Queued(c) - (IF Head(backlog) = c THEN 1 ELSE 0)
    BY <1>1, OccursTail DEF Queued
  <1> QED BY <1>2, <1>3 DEF Queued

(* Child j alone has x instead of what it had.                               *)
Instead(f, g, j, x) == \A k \in Children : g[k] = IF k = j THEN x ELSE f[k]

LEMMA InsteadMove ==
  ASSUME NEW f, NEW g, NEW j \in Children, NEW x, Instead(f, g, j, x), NEW c
  PROVE  HeldBy(g, c) = HeldBy(f, c) - (IF f[j] = c THEN 1 ELSE 0)
                                     + (IF x = c THEN 1 ELSE 0)
  <1> DEFINE G == {c}
  <1>1. (f[j] \in G <=> f[j] = c) /\ (x \in G <=> x = c)
    OBVIOUS
  <1> HIDE DEF G
  <1>2. \A k \in Children : g[k] = IF k = j THEN x ELSE f[k]
    BY DEF Instead
  <1>3. Cardinality(At(Children, g, G)) =
          Cardinality(At(Children, f, G))
            - (IF f[j] \in G THEN 1 ELSE 0) + (IF x \in G THEN 1 ELSE 0)
    BY <1>2, ChildrenFinite, AtFinite, AtMove
  <1>4. Cardinality(At(Children, f, G)) \in Nat
    BY ChildrenFinite, AtFinite
  <1>5. /\ HeldBy(f, c) = Cardinality(At(Children, f, G))
        /\ HeldBy(g, c) = Cardinality(At(Children, g, G))
    BY DEF G, HeldBy
  <1> QED BY <1>1, <1>3, <1>4, <1>5

LEMMA HeldByNone ==
  ASSUME NEW f, NEW c, \A j \in Children : f[j] # c PROVE HeldBy(f, c) = 0
  <1>1. At(Children, f, {c}) = {}
    BY DEF At
  <1> QED BY <1>1, FS_EmptySet DEF HeldBy

LEMMA AskerSame ==
  ASSUME \A j \in Children : \/ down'[j] = down[j]
                             \/ /\ HasRequest(down'[j]) <=> HasRequest(down[j])
                                /\ HasRequest(down[j]) => down'[j][1] = down[j][1]
  PROVE  Asker' = Asker
  BY DEF Asker, HasRequest

(* A step that leaves the connections where they are.                        *)
LEMMA PlacesSame ==
  ASSUME IInv, IInv', HeldOnce, UNCHANGED <<backlog, Asker, confd, cstate>>
  PROVE  HeldOnce'
  <1> SUFFICES ASSUME NEW c \in Clients
               PROVE  Places(c)' = IF cstate'[c] = "pending" THEN 1 ELSE 0
    BY DEF HeldOnce
  <1>1. /\ Places(c) = Queued(c) + Asks(c) + Held(c)
        /\ Places(c)' = Queued(c)' + Asks(c)' + Held(c)'
    BY Sums DEF Summed
  <1>2. Queued(c)' = Queued(c) /\ Asks(c)' = Asks(c) /\ Held(c)' = Held(c)
    BY DEF Queued, Asks, Held
  <1> QED BY <1>1, <1>2 DEF HeldOnce

(* Children only ever end, and each wait counts one that did.                *)
LEMMA EndedCount ==
  ASSUME IInv
  PROVE  /\ Ended \in 0..childProcessCount
         /\ Ended = childProcessCount => \A j \in Children : ~Alive(j)
  <1> DEFINE D == {j \in Children : ~Alive(j)}
  <1>1. /\ IsFiniteSet(D) /\ Cardinality(D) <= Cardinality(Children)
        /\ Cardinality(D) = Cardinality(Children) => D = Children
    BY ChildrenFinite, FS_Subset
  <1>2. Cardinality(D) \in Nat
    BY <1>1, FS_CardinalityType
  <1> QED BY <1>1, <1>2, ChildrenFinite, Constants DEF Ended

LEMMA EndedGrows ==
  ASSUME IInv, \A j \in Children : ~Alive(j) => ~Alive(j)'
  PROVE  Ended' >= Ended /\ Ended \in Nat /\ Ended' \in Nat
  <1> DEFINE D == {j \in Children : ~Alive(j)}
             E == {j \in Children : ~Alive(j)'}
  <1>1. D \subseteq E /\ IsFiniteSet(E)
    BY ChildrenFinite, FS_Subset
  <1>2. Cardinality(D) <= Cardinality(E) /\ IsFiniteSet(D)
    BY <1>1, FS_Subset
  <1>3. Cardinality(D) \in Nat /\ Cardinality(E) \in Nat
    BY <1>1, <1>2, FS_CardinalityType
  <1>4. Ended = Cardinality(D) /\ Ended' = Cardinality(E)
    BY DEF Ended
  <1> QED BY <1>2, <1>3, <1>4

LEMMA ReapedKept ==
  ASSUME IInv, Reaped, UNCHANGED <<ppc, i>>,
         \A j \in Children : ~Alive(j) => ~Alive(j)'
  PROVE  Reaped'
  <1>1. Ended' >= Ended /\ Ended \in Nat /\ Ended' \in Nat /\ i \in Int
    BY EndedGrows, Constants DEF IInv, TypeOK
  <1>2. ASSUME ppc' = "wait" PROVE i' <= Ended' + 1
    <2>1. i' = i /\ i <= Ended + 1
      BY <1>2 DEF Reaped
    <2>2. PICK m \in Nat, n \in Nat : m = Ended /\ n = Ended'
      BY <1>1
    <2>3. m <= n /\ i <= m + 1
      BY <1>1, <2>1, <2>2
    <2>4. i <= n + 1
      BY <1>1, <2>3
    <2> QED BY <2>1, <2>2, <2>4
  <1>3. (ppc = "exited" => \A j \in Children : ~Alive(j))'
    BY DEF Reaped
  <1> QED BY <1>2, <1>3 DEF Reaped

(* The steps of a child.                                                     *)
LEMMA RecvHeld ==
  ASSUME IInv, IInv', HeldInv, NEW j \in Children, recvfd(j) PROVE HeldInv'
  <1>1. /\ down[j] # <<>> /\ Shape(down[j]) /\ cpc[j] = "recv"
        /\ confd[j] = NoClient
        /\ UNCHANGED <<ppc, i, backlog, gone, fileOk, cstate>>
    BY DEF IInv, ChildInv, recvfd, C, parentVars, envVars
  <1>2. /\ ~HasRequest(Tail(down[j])) /\ Head(down[j]) = down[j][1]
        /\ Head(down[j]) \in Clients \cup {ExitMsg}
        /\ HasRequest(down[j]) <=> Head(down[j]) # ExitMsg
    BY <1>1, ShapeTail
  <1>3. \A k \in Children : down'[k] = IF k = j THEN Tail(down[j]) ELSE down[k]
    BY DEF recvfd, IInv, TypeOK
  <1>4. \A k \in Children \ {j} : cpc'[k] = cpc[k] /\ confd'[k] = confd[k]
    BY DEF recvfd, C, IInv, TypeOK
  <1>5. Blamed'
    BY <1>1 DEF HeldInv, Blamed
  <1>6. Reaped'
    <2>1. \A k \in Children : ~Alive(k) => ~Alive(k)'
      BY <1>1, <1>4 DEF Alive
    <2> QED BY <1>1, <2>1, ReapedKept DEF HeldInv
  <1>7. CASE Head(down[j]) = ExitMsg
    <2>1. confd' = confd /\ cpc'[j] = "dead"
      BY <1>7 DEF recvfd, C, IInv, TypeOK
    <2>2. Asker' = Asker
      BY <1>2, <1>3, <1>7, AskerSame
    <2>3. HeldOnce'
      BY <1>1, <2>1, <2>2, PlacesSame DEF HeldInv
    <2>4. Serving'
      BY <1>4, <2>1 DEF HeldInv, Serving
    <2> QED BY <1>5, <1>6, <2>3, <2>4 DEF HeldInv
  <1>8. CASE Head(down[j]) # ExitMsg
    <2>1. confd' = [confd EXCEPT ![j] = Head(down[j])] /\ cpc'[j] = "send"
      BY <1>8 DEF recvfd, C, IInv, TypeOK
    <2>2. Instead(confd, confd', j, Head(down[j]))
      BY <2>1 DEF Instead, IInv, TypeOK
    <2>3. Instead(Asker, Asker', j, NoClient) /\ Asker[j] = Head(down[j])
      BY <1>2, <1>3, <1>8 DEF Instead, Asker
    <2>4. Serving'
      <3>1. confd'[j] \in Clients
        BY <1>2, <1>8, <2>2 DEF Instead
      <3> QED BY <1>4, <3>1 DEF HeldInv, Serving
    <2>5. ASSUME NEW c \in Clients
          PROVE  Places(c)' = IF cstate'[c] = "pending" THEN 1 ELSE 0
      <3>1. Asks(c)' = Asks(c) - (IF Head(down[j]) = c THEN 1 ELSE 0)
                               + (IF NoClient = c THEN 1 ELSE 0)
        BY <2>3, InsteadMove DEF Asks
      <3>2. Held(c)' = Held(c) - (IF NoClient = c THEN 1 ELSE 0)
                               + (IF Head(down[j]) = c THEN 1 ELSE 0)
        BY <1>1, <2>2, InsteadMove DEF Held
      <3>3. Queued(c)' = Queued(c)
        BY <1>1 DEF Queued
      <3>4. Places(c)' = Places(c)
        BY <3>1, <3>2, <3>3, Sums, Constants DEF Summed
      <3> QED BY <1>1, <3>4 DEF HeldInv, HeldOnce
    <2> QED BY <1>5, <1>6, <2>4, <2>5 DEF HeldInv, HeldOnce
  <1> QED BY <1>7, <1>8

LEMMA TransferHeld ==
  ASSUME IInv, IInv', HeldInv, NEW j \in Children, Transferred(j),
         cstate'[confd[j]] = "broken" => ~fileOk \/ confd[j] \in gone
  PROVE  /\ HeldInv'
         /\ confd[j] \in Clients /\ cstate[confd[j]] = "pending"
  <1>1. PICK to \in {"report", "dead"} :
          cpc[j] = "send" /\ cpc' = [cpc EXCEPT ![j] = to]
    BY DEF Transferred, C
  <1>2. PICK end \in {"served", "broken"} :
          cstate' = [cstate EXCEPT ![confd[j]] = end]
    BY DEF Transferred
  <1>3. /\ confd' = [confd EXCEPT ![j] = NoClient]
        /\ UNCHANGED <<ppc, i, down, backlog, gone, fileOk>>
    BY DEF Transferred, parentVars, pairVars, envVars
  <1>4. confd[j] \in Clients
    BY <1>1 DEF HeldInv, Serving
  <1>5. \A c \in Clients : cstate'[c] = IF confd[j] = c THEN end ELSE cstate[c]
    BY <1>2 DEF IInv, TypeOK
  <1>6. \A k \in Children \ {j} : cpc'[k] = cpc[k] /\ confd'[k] = confd[k]
    BY <1>1, <1>3 DEF IInv, TypeOK
  <1>7. cpc'[j] = to
    BY <1>1 DEF IInv, TypeOK
  <1>8. Reaped'
    <2>1. \A k \in Children : ~Alive(k) => ~Alive(k)'
      BY <1>1, <1>6 DEF Alive
    <2> QED BY <1>3, <2>1, ReapedKept DEF HeldInv
  <1>9. Serving'
    BY <1>6, <1>7 DEF HeldInv, Serving
  <1>10. Blamed'
    BY <1>3, <1>4, <1>5 DEF HeldInv, Blamed
  <1>11. Held(confd[j]) >= 1
    <2>1. j \in At(Children, confd, {confd[j]})
      BY DEF At
    <2>2. IsFiniteSet(At(Children, confd, {confd[j]}))
      BY ChildrenFinite, AtFinite
    <2>3. Held(confd[j]) # 0
      BY <2>1, <2>2, FS_EmptySet DEF Held, HeldBy
    <2> QED BY <1>4, <2>3, Sums DEF Summed
  <1>12. cstate[confd[j]] = "pending"
    BY <1>4, <1>11, Sums DEF Summed, HeldInv, HeldOnce
  <1>13. ASSUME NEW c \in Clients
         PROVE  Places(c)' = IF cstate'[c] = "pending" THEN 1 ELSE 0
    <2>1. Instead(confd, confd', j, NoClient)
      BY <1>3 DEF Instead, IInv, TypeOK
    <2>2. Held(c)' = Held(c) - (IF confd[j] = c THEN 1 ELSE 0)
                             + (IF NoClient = c THEN 1 ELSE 0)
      BY <2>1, InsteadMove DEF Held
    <2>3. Queued(c)' = Queued(c) /\ Asks(c)' = Asks(c)
      BY <1>3 DEF Queued, Asks, Asker
    <2>4. Places(c)' = Places(c) - (IF confd[j] = c THEN 1 ELSE 0)
      BY <2>2, <2>3, Sums, Constants DEF Summed
    <2>5. Places(c) = IF cstate[c] = "pending" THEN 1 ELSE 0
      BY DEF HeldInv, HeldOnce
    <2> QED BY <1>5, <1>12, <2>4, <2>5
  <1> QED BY <1>4, <1>8, <1>9, <1>10, <1>12, <1>13 DEF HeldInv, HeldOnce

LEMMA SendHeld ==
  ASSUME IInv, IInv', HeldInv, NEW j \in Children, sendbigfile(j) \/ sendFails(j)
  PROVE  HeldInv'
  <1>1. Transferred(j)
    BY DEF sendbigfile, sendFails, Transferred
  <1>2. cstate'[confd[j]] = "broken" => ~fileOk \/ confd[j] \in gone
    <2>1. CASE sendFails(j)
      BY <2>1 DEF sendFails
    <2>2. CASE sendbigfile(j)
      <3>1. confd[j] \in Clients
        BY <2>2 DEF sendbigfile, C, HeldInv, Serving
      <3> QED BY <2>2, <3>1 DEF sendbigfile, IInv, TypeOK
    <2> QED BY <2>1, <2>2
  <1> QED BY <1>1, <1>2, TransferHeld

(* A child that ends, or reports, where no connection is.                    *)
LEMMA QuietHeld ==
  ASSUME IInv, IInv', HeldInv, NEW j \in Children, recvEof(j) \/ report(j)
  PROVE  HeldInv'
  <1>1. UNCHANGED <<ppc, i, down, confd, backlog, gone, fileOk, cstate>>
    BY DEF recvEof, report, parentVars, pairVars, envVars
  <1>2. PICK to \in {"recv", "dead"} :
          cpc[j] \in {"recv", "report"} /\ cpc' = [cpc EXCEPT ![j] = to]
    BY DEF recvEof, report, C
  <1>3. \A k \in Children : cpc'[k] = IF k = j THEN to ELSE cpc[k]
    BY <1>2 DEF IInv, TypeOK
  <1>4. HeldOnce'
    <2>1. Asker' = Asker
      BY <1>1 DEF Asker
    <2> QED BY <1>1, <2>1, PlacesSame DEF HeldInv
  <1>5. Serving' /\ Blamed'
    BY <1>1, <1>3 DEF HeldInv, Serving, Blamed
  <1>6. Reaped'
    <2>1. \A k \in Children : ~Alive(k) => ~Alive(k)'
      BY <1>2, <1>3 DEF Alive
    <2> QED BY <1>1, <2>1, ReapedKept DEF HeldInv
  <1> QED BY <1>4, <1>5, <1>6 DEF HeldInv

(* The steps of the parent.                                                  *)
LEMMA HeadPending ==
  ASSUME IInv, HeldInv, backlog # <<>>
  PROVE  Head(backlog) \in Clients /\ cstate[Head(backlog)] = "pending"
  <1>1. Head(backlog) \in Clients
    BY HeadTailProperties DEF IInv, TypeOK
  <1>2. 1 \in Occurrences(backlog, Head(backlog))
    <2>1. Len(backlog) \in Nat \ {0} /\ DOMAIN backlog = 1..Len(backlog)
      BY LenProperties, EmptySeq DEF IInv, TypeOK
    <2> QED BY <2>1 DEF Occurrences
  <1>3. IsFiniteSet(Occurrences(backlog, Head(backlog)))
    BY OccursFinite DEF IInv, TypeOK
  <1>4. Queued(Head(backlog)) # 0
    BY <1>2, <1>3, FS_EmptySet DEF Queued
  <1>5. Queued(Head(backlog)) >= 1
    BY <1>1, <1>4, Sums DEF Summed
  <1> QED BY <1>1, <1>5, Sums DEF Summed, HeldInv, HeldOnce

LEMMA DispatchHeld ==
  ASSUME IInv, IInv', HeldInv, dispatch PROVE HeldInv'
  <1>1. /\ ppc = "loop" /\ backlog # <<>> /\ backlog' = Tail(backlog)
        /\ UNCHANGED <<i, cpc, confd, gone, fileOk>>
        /\ ppc' \in {"loop", "killed"}
    BY DEF dispatch, childVars
  <1>2. Head(backlog) \in Clients
    BY <1>1, HeadTailProperties DEF IInv, TypeOK
  <1>3. Serving' /\ Reaped'
    BY <1>1 DEF HeldInv, Serving, Reaped
  <1>4. ASSUME NEW c \in Clients
        PROVE  /\ Queued(c)' = Queued(c) - (IF Head(backlog) = c THEN 1 ELSE 0)
               /\ Held(c)' = Held(c)
               /\ Places(c) = IF cstate[c] = "pending" THEN 1 ELSE 0
    BY <1>1, QueuedMove DEF Held, HeldInv, HeldOnce
  <1>6. cstate[Head(backlog)] = "pending"
    BY <1>1, HeadPending
  <1>7. CASE /\ UNCHANGED <<down, isBusy>>
             /\ \/ ppc' = "killed"
                   /\ cstate' = [cstate EXCEPT ![Head(backlog)] = "broken"]
                \/ ppc' = "loop"
                   /\ cstate' = [cstate EXCEPT ![Head(backlog)] = "refused"]
    <2>1. PICK end \in {"refused", "broken"} :
            /\ cstate' = [cstate EXCEPT ![Head(backlog)] = end]
            /\ end = "broken" => ppc' = "killed"
      BY <1>7
    <2>2. \A c \in Clients :
            cstate'[c] = IF Head(backlog) = c THEN end ELSE cstate[c]
      BY <2>1 DEF IInv, TypeOK
    <2>3. Blamed'
      BY <1>1, <2>1, <2>2 DEF HeldInv, Blamed
    <2>4. ASSUME NEW c \in Clients
          PROVE  Places(c)' = IF cstate'[c] = "pending" THEN 1 ELSE 0
      <3>1. Asks(c)' = Asks(c)
        BY <1>7 DEF Asks, Asker
      <3>2. Places(c)' = Places(c) - (IF Head(backlog) = c THEN 1 ELSE 0)
        BY <1>4, <3>1, Sums DEF Summed
      <3> QED BY <1>4, <1>6, <2>2, <3>2
    <2> QED BY <1>3, <2>3, <2>4 DEF HeldInv, HeldOnce
  <1>8. CASE \E j \in Children :
               /\ FirstIdle(j) /\ Alive(j) /\ UNCHANGED <<ppc, cstate>>
               /\ down' = [down EXCEPT ![j] = Append(@, Head(backlog))]
    <2>1. PICK j \in Children :
               /\ FirstIdle(j) /\ Alive(j) /\ UNCHANGED <<ppc, cstate>>
               /\ down' = [down EXCEPT ![j] = Append(@, Head(backlog))]
      BY <1>8
    <2>2. NoExit(down[j]) /\ ~HasRequest(down[j])
      <3>1. ~isBusy[j]
        BY <2>1 DEF FirstIdle, Idle
      <3>2. /\ NoExit(down[j]) /\ up[j] \in 0..1
            /\ Asked(down[j]) + Working(cpc[j]) + up[j] = 0
        BY <1>1, <2>1, <3>1 DEF IInv, ChildInv, NotTold, TypeOK
      <3> QED BY <3>2 DEF Asked, Working
    <2>3. down[j] = <<>>
      BY <2>2, Tuples, Constants DEF NoExit, HasRequest
    <2>4. HasRequest(<<Head(backlog)>>) /\ <<Head(backlog)>>[1] = Head(backlog)
      BY <1>2, Tuples, Constants DEF HasRequest
    <2>5. \A k \in Children :
            down'[k] = IF k = j THEN <<Head(backlog)>> ELSE down[k]
      BY <1>2, <2>1, <2>3, Tuples DEF IInv, TypeOK
    <2>6. Instead(Asker, Asker', j, Head(backlog)) /\ Asker[j] = NoClient
      BY <2>2, <2>4, <2>5 DEF Instead, Asker
    <2>7. ASSUME NEW c \in Clients
          PROVE  Places(c)' = IF cstate'[c] = "pending" THEN 1 ELSE 0
      <3>1. Asks(c)' = Asks(c) - (IF NoClient = c THEN 1 ELSE 0)
                               + (IF Head(backlog) = c THEN 1 ELSE 0)
        BY <2>6, InsteadMove DEF Asks
      <3>2. Places(c)' = Places(c)
        BY <1>4, <3>1, Sums, Constants DEF Summed
      <3> QED BY <1>4, <2>1, <3>2
    <2>8. Blamed'
      BY <1>1, <2>1 DEF HeldInv, Blamed
    <2> QED BY <1>3, <2>7, <2>8 DEF HeldInv, HeldOnce
  <1> QED BY <1>1, <1>7, <1>8 DEF dispatch

LEMMA EventHeld ==
  ASSUME IInv, IInv', HeldInv, NEW j \in Children, childEvent(j) PROVE HeldInv'
  <1>1. /\ ppc = "loop"
        /\ UNCHANGED <<ppc, down, cpc, confd, backlog, gone, fileOk, cstate>>
    BY DEF childEvent, childVars, envVars
  <1>2. HeldOnce'
    <2>1. Asker' = Asker
      BY <1>1 DEF Asker
    <2> QED BY <1>1, <2>1, PlacesSame DEF HeldInv
  <1> QED BY <1>1, <1>2 DEF HeldInv, Serving, Reaped, Blamed

LEMMA ExitHeld ==
  ASSUME IInv, IInv', HeldInv, exitEvent \/ sendExit \/ wait PROVE HeldInv'
  <1>1. UNCHANGED <<cpc, confd, backlog, gone, fileOk, cstate>> /\ ppc # "killed"
    BY DEF exitEvent, sendExit, wait, childVars, envVars
  <1>2. Asker' = Asker
    <2>1. CASE UNCHANGED down
      BY <2>1 DEF Asker
    <2>2. CASE sendExit /\ down' # down
      <3>1. /\ i \in Children /\ ppc = "bye"
            /\ down' = [down EXCEPT ![i] = Append(@, ExitMsg)]
        BY <2>2 DEF sendExit
      <3>2. NoExit(down[i])
        BY <3>1, Constants DEF IInv, ChildInv, NotTold
      <3>3. /\ HasRequest(Append(down[i], ExitMsg)) <=> HasRequest(down[i])
            /\ HasRequest(down[i]) => Append(down[i], ExitMsg)[1] = down[i][1]
        <4>1. HasRequest(Append(down[i], ExitMsg)) <=> HasRequest(down[i])
          BY <3>2, ShapeAppend
        <4>2. CASE \E c \in Clients : down[i] = <<c>>
          BY <4>1, <4>2, Tuples
        <4>3. CASE down[i] = <<>>
          BY <4>1, <4>3 DEF HasRequest
        <4> QED BY <3>2, <4>1, <4>2, <4>3 DEF NoExit
      <3>4. \A k \in Children :
              down'[k] = IF k = i THEN Append(down[i], ExitMsg) ELSE down[k]
        BY <3>1 DEF IInv, TypeOK
      <3> QED BY <3>3, <3>4, AskerSame
    <2> QED BY <2>1, <2>2 DEF exitEvent, wait, pairVars
  <1>3. HeldOnce'
    BY <1>1, <1>2, PlacesSame DEF HeldInv
  <1>4. Serving' /\ Blamed'
    BY <1>1 DEF HeldInv, Serving, Blamed
  <1>5. Ended' = Ended /\ Ended \in 0..childProcessCount
    BY <1>1, EndedCount DEF Ended, Alive
  <1>6. Reaped'
    <2>1. CASE ppc' = "wait"
      <3>1. \/ i' = 1
            \/ i' = i + 1 /\ i <= Ended /\ i \in Children
        BY <2>1 DEF exitEvent, sendExit, wait
      <3>2. i' <= Ended + 1
        <4>1. PICK n \in 0..childProcessCount : n = Ended
          BY <1>5
        <4>2. i' <= n + 1
          BY <3>1, <4>1, Constants
        <4> QED BY <4>1, <4>2
      <3> QED BY <1>5, <2>1, <3>2 DEF Reaped
    <2>2. CASE ppc' = "exited"
      <3>1. ppc = "wait" /\ i = childProcessCount + 1
        BY <2>2 DEF exitEvent, sendExit, wait
      <3>2. childProcessCount <= Ended
        BY <1>5, <3>1, Constants DEF HeldInv, Reaped
      <3>3. Ended = childProcessCount
        BY <1>5, <3>2, Constants
      <3>4. \A k \in Children : ~Alive(k)'
        BY <1>1, <3>3, EndedCount DEF Alive
      <3> QED BY <2>2, <3>4 DEF Reaped
    <2>3. CASE ppc' \notin {"wait", "exited"}
      BY <2>3 DEF Reaped
    <2> QED BY <2>1, <2>2, <2>3
  <1> QED BY <1>3, <1>4, <1>6 DEF HeldInv

LEMMA EnvironmentHeld ==
  ASSUME IInv, IInv', HeldInv, Environment \/ UNCHANGED vars PROVE HeldInv'
  <1>1. UNCHANGED <<ppc, i, down, cpc, confd>>
    BY DEF Environment, Connect, Leave, sigfunc, RemoveFile, vars, parentVars,
           pairVars, childVars
  <1>2. Serving'
    BY <1>1 DEF HeldInv, Serving
  <1>3. Reaped'
    BY <1>1, ReapedKept DEF HeldInv, Alive
  <1>4. ASSUME NEW e \in Clients, Connect(e) PROVE HeldInv'
    <2>1. /\ cstate[e] = "idle" /\ backlog' = Append(backlog, e)
          /\ \A c \in Clients : cstate'[c] = IF e = c THEN "pending" ELSE cstate[c]
          /\ UNCHANGED <<gone, fileOk>>
      BY <1>4 DEF Connect, IInv, TypeOK
    <2>2. Blamed'
      BY <1>1, <2>1 DEF HeldInv, Blamed
    <2>3. ASSUME NEW c \in Clients
          PROVE  Places(c)' = IF cstate'[c] = "pending" THEN 1 ELSE 0
      <3>1. Queued(c)' = Queued(c) + (IF e = c THEN 1 ELSE 0)
        BY <2>1, QueuedMove
      <3>2. Asks(c)' = Asks(c) /\ Held(c)' = Held(c)
        BY <1>1 DEF Asks, Held, Asker
      <3>3. Places(c)' = Places(c) + (IF e = c THEN 1 ELSE 0)
        BY <3>1, <3>2, Sums DEF Summed
      <3>4. Places(c) = IF cstate[c] = "pending" THEN 1 ELSE 0
        BY DEF HeldInv, HeldOnce
      <3> QED BY <2>1, <3>3, <3>4
    <2> QED BY <1>2, <1>3, <2>2, <2>3 DEF HeldInv, HeldOnce
  <1>5. ASSUME ~\E e \in Clients : Connect(e) PROVE HeldInv'
    <2>1. /\ UNCHANGED <<backlog, cstate>>
          /\ gone \subseteq gone' /\ (~fileOk => ~fileOk')
      BY <1>5 DEF Environment, Leave, sigfunc, RemoveFile, vars, envVars
    <2>2. Blamed'
      BY <1>1, <2>1 DEF HeldInv, Blamed
    <2>3. Asker' = Asker
      BY <1>1 DEF Asker
    <2> QED BY <1>1, <1>2, <1>3, <2>1, <2>2, <2>3, PlacesSame DEF HeldInv
  <1> QED BY <1>4, <1>5

LEMMA StepHeld == IInv /\ IInv' /\ HeldInv /\ [Next]_vars => HeldInv'
  BY RecvHeld, SendHeld, QuietHeld, DispatchHeld, EventHeld, ExitHeld,
     EnvironmentHeld
  DEF Next, child_handle, parent_epoll

LEMMA InitHeld == Init => HeldInv
  <1> SUFFICES ASSUME Init PROVE HeldInv
    OBVIOUS
  <1>1. Serving /\ Reaped /\ Blamed
    BY DEF Init, Serving, Reaped, Blamed
  <1>2. ASSUME NEW c \in Clients PROVE Places(c) = 0 /\ cstate[c] # "pending"
    <2>1. Occurrences(backlog, c) = {}
      BY DEF Init, Occurrences
    <2>2. Queued(c) = 0
      BY <2>1, FS_EmptySet DEF Queued
    <2>3. \A k \in Children : Asker[k] # c /\ confd[k] # c
      BY Constants DEF Init, Asker, HasRequest
    <2>4. Asks(c) = 0 /\ Held(c) = 0
      BY <2>3, HeldByNone DEF Asks, Held
    <2>5. Places(c) = 0
      BY <2>2, <2>4, InitInv, Sums DEF Summed
    <2> QED BY <2>5 DEF Init
  <1> QED BY <1>1, <1>2 DEF HeldInv, HeldOnce

(* When everything is over what is not answered yet was never accepted.      *)
LEMMA GracefulFrom == IInv /\ HeldInv => GracefulExit
  <1> SUFFICES ASSUME IInv, HeldInv, ppc = "exited"
               PROVE  /\ \A j \in Children : ~Alive(j) /\ confd[j] = NoClient
                      /\ \A c \in Clients :
                           /\ cstate[c] = "pending" =>
                                \E k \in DOMAIN backlog : backlog[k] = c
                           /\ cstate[c] = "broken" => c \in gone \/ ~fileOk
    BY DEF GracefulExit
  <1>1. \A j \in Children : /\ ~Alive(j) /\ confd[j] = NoClient
                            /\ ~HasRequest(down[j])
    BY DEF HeldInv, Reaped, IInv, ChildInv, Alive
  <1>2. ASSUME NEW c \in Clients, cstate[c] = "pending"
        PROVE  \E k \in DOMAIN backlog : backlog[k] = c
    <2>1. \A k \in Children : Asker[k] # c /\ confd[k] # c
      BY <1>1, Constants DEF Asker
    <2>2. Asks(c) = 0 /\ Held(c) = 0
      BY <2>1, HeldByNone DEF Asks, Held
    <2>3. Queued(c) = 1
      BY <1>2, <2>2, Sums DEF Summed, HeldInv, HeldOnce
    <2>4. Occurrences(backlog, c) # {}
      BY <2>3, FS_EmptySet DEF Queued
    <2> QED BY <2>4 DEF Occurrences
  <1> QED BY <1>1, <1>2 DEF HeldInv, Blamed

THEOREM HeldInductive == Spec => [](IInv /\ HeldInv)
  <1>1. Init => IInv /\ HeldInv
    BY InitInv, InitHeld
  <1>2. IInv /\ HeldInv /\ [Next]_vars => IInv' /\ HeldInv'
    BY StepInv, StepHeld
  <1> QED BY <1>1, <1>2, PTL DEF Spec

(***************************************************************************)
(* A connection that is not answered yet is in one place, for any number   *)
(* of children and clients: no two children are handed the same one, and   *)
(* none is dropped without an answer.                                      *)
(***************************************************************************)
THEOREM HeldByOne == Spec => []HeldOnce
  <1>1. HeldInv => HeldOnce
    BY DEF HeldInv
  <1> QED BY <1>1, HeldInductive, PTL

(***************************************************************************)
(* The exit of the last stage is graceful: no child is left behind, and    *)
(* every connection handed out was answered.                               *)
(***************************************************************************)
THEOREM ExitIsGraceful == Spec => []GracefulExit
  BY GracefulFrom, HeldInductive, PTL

-----------------------------------------------------------------------------
(* The same in every stage, and what the child of the first one delivers.    *)
LEMMA SendChildHeld ==
  ASSUME IInv, IInv', HeldInv, NEW j \in Children, send_child(j) PROVE HeldInv'
  <1>1. CASE closeConn(j)
    <2>1. Transferred(j)
      BY <1>1 DEF closeConn, closed, Transferred
    <2>2. confd[j] \in Clients
      BY <1>1 DEF closeConn, closed, C, HeldInv, Serving
    <2>3. cstate'[confd[j]] # "broken"
      BY <1>1, <2>2 DEF closeConn, closed, IInv, TypeOK
    <2> QED BY <2>1, <2>3, TransferHeld
  <1>2. CASE packetsFail(j)
    BY <1>2, SendHeld DEF packetsFail
  <1>3. CASE openFile(j) \/ sendPackets(j)
    BY <1>3, EnvironmentHeld DEF openFile, sendPackets
  <1> QED BY <1>1, <1>2, <1>3, RecvHeld, QuietHeld DEF send_child, recvConn

LEMMA StageStepHeld ==
  ASSUME IInv, IInv', HeldInv, [StagesNext]_allVars PROVE HeldInv'
  <1>1. CASE Next
    BY <1>1, StepHeld
  <1>2. ASSUME NEW j \in Children, Child(j) PROVE HeldInv'
    BY <1>2, RecvHeld, SendHeld, SendChildHeld, QuietHeld
    DEF Child, bigfile_child, child_handle
  <1>3. CASE early_parent_epoll
    BY <1>3, DispatchHeld, EventHeld DEF early_parent_epoll
  <1>4. CASE Users
    BY <1>4, EnvironmentHeld DEF Users, Environment
  <1>5. CASE UNCHANGED allVars
    BY <1>5, EnvironmentHeld DEF allVars
  <1> QED BY <1>1, <1>2, <1>3, <1>4, <1>5 DEF StagesNext

(* A connection a child is serving waits for its answer.                     *)
LEMMA ServedPending ==
  ASSUME IInv, HeldInv, NEW j \in Children, cpc[j] = "send"
  PROVE  confd[j] \in Clients /\ cstate[confd[j]] = "pending"
  <1>1. confd[j] \in Clients
    BY DEF HeldInv, Serving
  <1>2. Held(confd[j]) # 0
    <2>1. j \in At(Children, confd, {confd[j]})
      BY DEF At
    <2>2. IsFiniteSet(At(Children, confd, {confd[j]}))
      BY ChildrenFinite, AtFinite
    <2> QED BY <2>1, <2>2, FS_EmptySet DEF Held, HeldBy
  <1> QED BY <1>1, <1>2, Sums DEF Summed, HeldInv, HeldOnce

(* Delivered, strengthened: where a child is with its file, and that it has  *)
(* given nothing yet to a client it still has to send the packets to.        *)
FilesTyped == /\ call \in [Children -> {"open", "packets", "close"}]
              /\ fd \in [Children -> BOOLEAN]
              /\ used \in [Children -> Nat]
              /\ got \in [Children -> [Clients -> {"nothing", "file", "stub"}]]

Emptied(j) == ~fileOk \/ Cardinality(Given(j)) = Room

ChildFiles(j) ==
  /\ IsFiniteSet(Given(j))
  /\ used[j] <= Room + 1
  /\ Alive(j) => /\ used[j] = Cardinality(Given(j)) + Serves(j) + Opened(j)
                 /\ Cardinality(Given(j)) + Opened(j) <= Room
                 /\ cpc[j] # "send" => call[j] = "open"
  /\ call[j] = "packets" /\ ~fd[j] => Emptied(j)
  /\ \A c \in Clients :
       /\ got[j][c] # "nothing" => cstate[c] = "served" \/ (confd[j] = c /\ call[j] = "close")
       /\ got[j][c] = "stub" => Emptied(j)

DeliverInv == FilesTyped /\ (stage = "sendfile" => \A j \in Children : ChildFiles(j))

LEMMA InvDelivered == DeliverInv => Delivered
  BY DEF DeliverInv, ChildFiles, Emptied, Delivered

(* A child's files are untouched by what leaves the child where it is.       *)
Kept == /\ ~fileOk => ~fileOk'
        /\ \A c \in Clients : cstate[c] = "served" => cstate'[c] = "served"

LEMMA FilesUntouched ==
  ASSUME NEW j \in Children, ChildFiles(j), Kept,
         cpc'[j] = cpc[j] /\ confd'[j] = confd[j],
         call'[j] = call[j] /\ fd'[j] = fd[j] /\ used'[j] = used[j] /\ got'[j] = got[j]
  PROVE  ChildFiles(j)'
  <1>1. Given(j)' = Given(j)
    BY DEF Given
  <1> QED BY <1>1 DEF ChildFiles, Emptied, Serves, Opened, Alive, Kept

LEMMA GivenNat ==
  ASSUME NEW j \in Children, ChildFiles(j) PROVE Cardinality(Given(j)) \in Nat
  BY FS_CardinalityType DEF ChildFiles

LEMMA RoomNat == Room \in Nat
  BY StagesAssumption

(* What a living child has taken, and what that says of its next count.      *)
LEMMA Taken ==
  ASSUME FilesTyped, NEW j \in Children, ChildFiles(j), Alive(j)
  PROVE  /\ Cardinality(Given(j)) \in 0..Room
         /\ used[j] = Cardinality(Given(j)) + Serves(j) + Opened(j)
         /\ cpc[j] # "send" => used[j] <= Room
         /\ Opened(j) = 1 => Cardinality(Given(j)) < Room
  <1>1. Cardinality(Given(j)) \in Nat
    BY GivenNat
  <1>2. used[j] = Cardinality(Given(j)) + Serves(j) + Opened(j)
    BY DEF ChildFiles
  <1>3. Cardinality(Given(j)) + Opened(j) <= Room
    BY DEF ChildFiles
  <1>4. Opened(j) \in {0, 1}
    BY DEF Opened
  <1>5. cpc[j] # "send" => Serves(j) = 0
    BY DEF Serves
  <1>6. cpc[j] # "send" => Opened(j) = 0
    BY DEF ChildFiles, Opened
  <1> QED BY <1>1, <1>2, <1>3, <1>4, <1>5, <1>6, RoomNat

LEMMA TakenNow ==
  ASSUME NEW j \in Children, NEW g \in 0..Room, Cardinality(Given(j)') = g,
         NEW s \in {0, 1}, Serves(j)' = s, NEW o \in {0, 1}, Opened(j)' = o,
         used'[j] = g + s + o, g + o <= Room
  PROVE  /\ used'[j] <= Room + 1
         /\ used'[j] = Cardinality(Given(j)') + Serves(j)' + Opened(j)'
         /\ Cardinality(Given(j)') + Opened(j)' <= Room
  <1>1. used'[j] <= Room + 1
    BY RoomNat
  <1> QED BY <1>1

(* A child that is handed a connection, or the exit message.                 *)
LEMMA RecvFiles ==
  ASSUME IInv, FilesTyped, NEW j \in Children, ChildFiles(j), Kept, recvConn(j)
  PROVE  FilesTyped' /\ ChildFiles(j)'
  <1>1. /\ cpc[j] = "recv" /\ Alive(j) /\ call[j] = "open"
        /\ UNCHANGED <<call, fd, got>>
    BY DEF recvConn, recvfd, C, ChildFiles, Alive
  <1>2. Given(j)' = Given(j) /\ Opened(j)' = 0
    BY <1>1 DEF Given, Opened
  <1>3. CASE Head(down[j]) = ExitMsg
    <2>1. used' = used /\ cpc'[j] = "dead"
      BY <1>3 DEF recvConn, recvfd, C, IInv, TypeOK, FilesTyped
    <2> QED BY <1>1, <1>2, <2>1 DEF ChildFiles, FilesTyped, Emptied, Alive, Kept
  <1>4. CASE Head(down[j]) # ExitMsg
    <2> DEFINE n == used[j] + 1
               g == Cardinality(Given(j))
    <2>1. used' = [used EXCEPT ![j] = n]
      BY <1>4 DEF recvConn
    <2>2. cpc'[j] = "send"
      BY <1>4 DEF recvConn, recvfd, C, IInv, TypeOK
    <2>3. g \in 0..Room
      BY <1>1, Taken
    <2>4. used[j] = g + Serves(j) + Opened(j)
      BY <1>1, Taken
    <2>5. Serves(j) = 0 /\ Opened(j) = 0
      BY <1>1 DEF Serves, Opened
    <2> HIDE DEF g
    <2>6. n = g + 1 + 0 /\ n \in Nat /\ g + 0 <= Room
      BY <2>3, <2>4, <2>5, RoomNat
    <2> HIDE DEF n
    <2>7. used'[j] = n /\ FilesTyped'
      BY <1>1, <2>1, <2>6 DEF FilesTyped
    <2>8. Serves(j)' = 1
      BY <2>2 DEF Serves
    <2>9. Cardinality(Given(j)') = g
      BY <1>2 DEF g
    <2>10. /\ used'[j] <= Room + 1
           /\ used'[j] = Cardinality(Given(j)') + Serves(j)' + Opened(j)'
           /\ Cardinality(Given(j)') + Opened(j)' <= Room
      BY <1>2, <2>3, <2>6, <2>7, <2>8, <2>9, TakenNow
    <2> QED BY <1>1, <1>2, <2>2, <2>7, <2>10 DEF ChildFiles, Emptied, Alive, Kept
  <1> QED BY <1>3, <1>4

(* A child that ends, or goes on, with nothing in its hands.                 *)
LEMMA EndFiles ==
  ASSUME NEW j \in Children, ChildFiles(j), Kept, UNCHANGED fileVars,
         \/ cpc'[j] = "dead" /\ (call[j] # "close" \/ UNCHANGED confd)
         \/ cpc[j] \in {"recv", "report"} /\ cpc'[j] \in {"recv", "report"} /\ UNCHANGED confd
  PROVE  ChildFiles(j)'
  <1>1. Given(j)' = Given(j) /\ UNCHANGED <<call, fd, used, got>>
    BY DEF fileVars, Given
  <1> QED BY <1>1 DEF ChildFiles, Emptied, Serves, Opened, Alive, Kept

LEMMA OpenFiles ==
  ASSUME FilesTyped, NEW j \in Children, ChildFiles(j), openFile(j)
  PROVE  FilesTyped' /\ ChildFiles(j)'
  <1> DEFINE g == Cardinality(Given(j))
  <1>1. /\ cpc[j] = "send" /\ Alive(j) /\ call[j] = "open" /\ call'[j] = "packets"
        /\ UNCHANGED <<vars, got>> /\ call' \in [Children -> {"open", "packets", "close"}]
    BY DEF openFile, FilesTyped, Alive
  <1>2. Given(j)' = Given(j) /\ UNCHANGED <<cpc, confd, cstate, fileOk>>
    BY <1>1 DEF Given, vars, childVars, envVars
  <1>3. g \in 0..Room
    BY <1>1, Taken
  <1>4. used[j] = g + Serves(j) + Opened(j)
    BY <1>1, Taken
  <1>5. Serves(j) = 1 /\ Opened(j) = 0 /\ Serves(j)' = 1
    BY <1>1, <1>2 DEF Serves, Opened
  <1>6. Cardinality(Given(j)') = g
    BY <1>2
  <1>7. Emptied(j) <=> ~fileOk \/ g = Room
    BY DEF Emptied
  <1> HIDE DEF g
  <1>8. used[j] = g + 1
    BY <1>3, <1>4, <1>5
  <1>9. CASE fileOk /\ used[j] <= Room
    <2> DEFINE n == used[j] + 1
    <2>1. used' = [used EXCEPT ![j] = n] /\ fd' = [fd EXCEPT ![j] = TRUE]
      BY <1>9 DEF openFile
    <2>2. n = g + 1 + 1 /\ g + 1 <= Room /\ n \in Nat
      BY <1>3, <1>8, <1>9, RoomNat
    <2> HIDE DEF n
    <2>3. used'[j] = n /\ fd'[j] /\ FilesTyped'
      BY <1>1, <2>1, <2>2 DEF FilesTyped
    <2>4. Opened(j)' = 1
      BY <1>1, <2>3 DEF Opened
    <2>5. /\ used'[j] <= Room + 1
          /\ used'[j] = Cardinality(Given(j)') + Serves(j)' + Opened(j)'
          /\ Cardinality(Given(j)') + Opened(j)' <= Room
      BY <1>3, <1>5, <1>6, <2>2, <2>3, <2>4, TakenNow
    <2> QED BY <1>1, <1>2, <2>3, <2>5 DEF ChildFiles, Emptied
  <1>10. CASE ~(fileOk /\ used[j] <= Room)
    <2>1. used' = used /\ fd' = [fd EXCEPT ![j] = FALSE]
      BY <1>10 DEF openFile, FilesTyped
    <2>2. ~fd'[j] /\ FilesTyped'
      BY <1>1, <2>1 DEF FilesTyped
    <2>3. Emptied(j)
      BY <1>3, <1>7, <1>8, <1>10, RoomNat
    <2>4. Opened(j)' = 0
      BY <2>2 DEF Opened
    <2>5. used'[j] = g + 1 + 0 /\ g + 0 <= Room
      BY <1>3, <1>8, <2>1, RoomNat
    <2>6. /\ used'[j] <= Room + 1
          /\ used'[j] = Cardinality(Given(j)') + Serves(j)' + Opened(j)'
          /\ Cardinality(Given(j)') + Opened(j)' <= Room
      BY <1>3, <1>5, <1>6, <2>4, <2>5, TakenNow
    <2> QED BY <1>1, <1>2, <2>2, <2>3, <2>6 DEF ChildFiles, Emptied
  <1> QED BY <1>9, <1>10

LEMMA PacketFiles ==
  ASSUME IInv, HeldInv, FilesTyped, NEW j \in Children, ChildFiles(j), sendPackets(j)
  PROVE  FilesTyped' /\ ChildFiles(j)'
  <1> DEFINE d == confd[j]
             g == Cardinality(Given(j))
  <1>1. /\ cpc[j] = "send" /\ Alive(j) /\ call[j] = "packets" /\ call'[j] = "close"
        /\ UNCHANGED <<vars, fd, used>> /\ call' \in [Children -> {"open", "packets", "close"}]
    BY DEF sendPackets, FilesTyped, Alive
  <1>2. UNCHANGED <<cpc, confd, cstate, fileOk>>
    BY <1>1 DEF vars, childVars, envVars
  <1>3. d \in Clients /\ cstate[d] = "pending"
    BY <1>1, ServedPending
  <1>4. PICK v \in {"file", "stub"} :
          v = (IF fd[j] THEN "file" ELSE "stub") /\ got' = [got EXCEPT ![j][d] = v]
    BY DEF sendPackets
  <1>5. g \in 0..Room
    BY <1>1, Taken
  <1>6. used[j] = g + Serves(j) + Opened(j)
    BY <1>1, Taken
  <1>7. Opened(j) = 1 => g < Room
    BY <1>1, Taken
  <1>8. Serves(j) = 1 /\ Serves(j)' = 1 /\ Opened(j)' = 0
    BY <1>1, <1>2 DEF Serves, Opened
  <1>9. Emptied(j) <=> ~fileOk \/ g = Room
    BY DEF Emptied
  <1> HIDE DEF d, g
  <1>10. /\ got' \in [Children -> [Clients -> {"nothing", "file", "stub"}]]
         /\ \A c \in Clients : got'[j][c] = IF c = d THEN v ELSE got[j][c]
    BY <1>3, <1>4 DEF FilesTyped
  <1>11. FilesTyped'
    BY <1>1, <1>10 DEF FilesTyped
  <1>12. got[j][d] = "nothing" /\ d \notin Given(j)
    BY <1>1, <1>3 DEF ChildFiles, Given
  <1>13. \A c \in Clients : got'[j][c] # "nothing" =>
            cstate[c] = "served" \/ (confd[j] = c /\ call'[j] = "close")
    BY <1>1, <1>10 DEF ChildFiles, d
  <1>14. CASE fd[j]
    <2>1. Opened(j) = 1
      BY <1>1, <1>14 DEF Opened
    <2>2. Given(j)' = Given(j) \cup {d}
      BY <1>3, <1>4, <1>10, <1>14 DEF Given
    <2>3. IsFiniteSet(Given(j)') /\ Cardinality(Given(j)') = g + 1
      <3>1. IsFiniteSet(Given(j))
        BY DEF ChildFiles
      <3>2. IsFiniteSet(Given(j) \cup {d}) /\ Cardinality(Given(j) \cup {d}) = g + 1
        BY <1>12, <3>1, FS_AddElement DEF g
      <3> QED BY <2>2, <3>2
    <2>4. \A c \in Clients : got'[j][c] = "stub" => Emptied(j)'
      <3>1. g # Room
        BY <1>5, <2>1, <1>7, RoomNat
      <3>2. Emptied(j) => ~fileOk
        BY <1>9, <3>1
      <3> QED BY <1>2, <1>4, <1>10, <1>14, <3>2 DEF ChildFiles, Emptied
    <2> DEFINE n == g + 1
    <2>5. n \in 0..Room /\ used'[j] = n + 1 + 0 /\ n + 0 <= Room
      <3>1. g < Room
        BY <1>7, <2>1
      <3>2. used'[j] = g + 1 + 1
        BY <1>1, <1>6, <1>8, <2>1
      <3> QED BY <1>5, <3>1, <3>2, RoomNat
    <2>6. Cardinality(Given(j)') = n
      BY <2>3
    <2> HIDE DEF n
    <2>7. /\ used'[j] <= Room + 1
          /\ used'[j] = Cardinality(Given(j)') + Serves(j)' + Opened(j)'
          /\ Cardinality(Given(j)') + Opened(j)' <= Room
      BY <1>8, <2>5, <2>6, TakenNow
    <2> QED BY <1>1, <1>2, <1>11, <1>13, <2>3, <2>4, <2>7 DEF ChildFiles, Alive
  <1>15. CASE ~fd[j]
    <2>1. Given(j)' = Given(j)
      BY <1>4, <1>10, <1>12, <1>15 DEF Given
    <2>2. Emptied(j)' /\ Opened(j) = 0
      BY <1>1, <1>2, <1>15, <2>1 DEF ChildFiles, Emptied, Opened
    <2>3. UNCHANGED used
      BY <1>1
    <2> QED BY <1>1, <1>2, <1>8, <1>11, <1>13, <2>1, <2>2, <2>3 DEF ChildFiles, Alive
  <1> QED BY <1>14, <1>15

LEMMA CloseFiles ==
  ASSUME IInv, HeldInv, FilesTyped, NEW j \in Children, ChildFiles(j), Kept, closeConn(j)
  PROVE  FilesTyped' /\ ChildFiles(j)'
  <1> DEFINE g == Cardinality(Given(j))
             n == used[j] - 1
  <1>1. /\ cpc[j] = "send" /\ Alive(j) /\ call[j] = "close" /\ cpc'[j] = "report"
        /\ call'[j] = "open" /\ UNCHANGED <<got, fileOk>>
        /\ call' \in [Children -> {"open", "packets", "close"}]
        /\ fd' \in [Children -> BOOLEAN]
    BY DEF closeConn, closed, C, envVars, IInv, TypeOK, FilesTyped, Alive
  <1>2. confd[j] \in Clients /\ cstate'[confd[j]] = "served"
    BY <1>1 DEF closeConn, closed, HeldInv, Serving, IInv, TypeOK
  <1>3. Given(j)' = Given(j) /\ Opened(j) = 0 /\ Opened(j)' = 0
    BY <1>1 DEF Given, Opened
  <1>4. Serves(j) = 1 /\ Serves(j)' = 0
    BY <1>1 DEF Serves
  <1>5. g \in 0..Room
    BY <1>1, Taken
  <1>6. used[j] = g + Serves(j) + Opened(j)
    BY <1>1, Taken
  <1>7. Cardinality(Given(j)') = g
    BY <1>3
  <1>8. used' = [used EXCEPT ![j] = n]
    BY DEF closeConn
  <1> HIDE DEF g
  <1>9. n \in Nat /\ n = g + 0 + 0 /\ g + 0 <= Room
    BY <1>3, <1>4, <1>5, <1>6, RoomNat
  <1> HIDE DEF n
  <1>10. used'[j] = n /\ FilesTyped'
    BY <1>1, <1>8, <1>9 DEF FilesTyped
  <1>11. \A c \in Clients : got'[j][c] # "nothing" => cstate'[c] = "served"
    BY <1>1, <1>2 DEF ChildFiles, Kept
  <1>12. \A c \in Clients : got'[j][c] = "stub" => Emptied(j)'
    BY <1>1, <1>3 DEF ChildFiles, Emptied
  <1>13. /\ used'[j] <= Room + 1
         /\ used'[j] = Cardinality(Given(j)') + Serves(j)' + Opened(j)'
         /\ Cardinality(Given(j)') + Opened(j)' <= Room
    BY <1>3, <1>4, <1>5, <1>7, <1>9, <1>10, TakenNow
  <1> QED BY <1>1, <1>3, <1>10, <1>11, <1>12, <1>13 DEF ChildFiles, Alive

(* No step takes an answer back.                                             *)
LEMMA NoneServed ==
  ASSUME IInv, HeldInv,
         \/ \E j \in Children : recvfd(j) \/ recvEof(j) \/ sendFails(j) \/ report(j)
         \/ early_parent_epoll \/ Users
  PROVE  \A c \in Clients : cstate'[c] = "served" <=> cstate[c] = "served"
  <1>1. \/ UNCHANGED cstate
        \/ \E d \in Clients, end \in {"broken", "refused", "pending"} :
             /\ cstate[d] \in {"idle", "pending"}
             /\ cstate' = [cstate EXCEPT ![d] = end]
    <2>1. ASSUME NEW j \in Children, sendFails(j) PROVE <1>1!:
      <3>1. confd[j] \in Clients /\ cstate[confd[j]] = "pending"
        BY <2>1, ServedPending DEF sendFails, C
      <3> QED BY <2>1, <3>1 DEF sendFails
    <2>2. CASE dispatch
      BY <2>2, HeadPending DEF dispatch
    <2>3. CASE Users
      BY <2>3 DEF Users, Connect, Leave, RemoveFile
    <2>4. ASSUME NEW j \in Children, recvfd(j) \/ recvEof(j) \/ report(j) \/ childEvent(j)
          PROVE  <1>1!:
      BY <2>4 DEF recvfd, recvEof, report, childEvent
    <2> QED BY <2>1, <2>2, <2>3, <2>4 DEF early_parent_epoll
  <1> QED BY <1>1 DEF IInv, TypeOK

LEMMA AlwaysKept ==
  ASSUME IInv, HeldInv,
         \/ \E j \in Children : send_child(j)
         \/ early_parent_epoll \/ Users \/ UNCHANGED vars
  PROVE  Kept
  <1>1. ~fileOk => ~fileOk'
    BY DEF send_child, recvConn, openFile, sendPackets, packetsFail, closeConn, closed,
           recvfd, recvEof, sendFails, report, early_parent_epoll, dispatch, childEvent,
           Users, Connect, Leave, RemoveFile, envVars, vars
  <1>2. \A c \in Clients : cstate[c] = "served" => cstate'[c] = "served"
    <2>1. ASSUME NEW j \in Children, closeConn(j) PROVE <1>2!:
      BY <2>1 DEF closeConn, closed, IInv, TypeOK
    <2>2. ASSUME NEW j \in Children, openFile(j) \/ sendPackets(j) PROVE <1>2!:
      BY <2>2 DEF openFile, sendPackets, vars
    <2> QED BY <2>1, <2>2, NoneServed DEF send_child, recvConn, packetsFail, vars
  <1> QED BY <1>1, <1>2 DEF Kept

LEMMA SendChildDelivers ==
  ASSUME IInv, HeldInv, DeliverInv, stage = "sendfile", UNCHANGED stage,
         NEW j \in Children, send_child(j)
  PROVE  DeliverInv'
  <1>1. Kept
    BY AlwaysKept
  <1>2. FilesTyped' /\ ChildFiles(j)'
    <2>1. FilesTyped /\ ChildFiles(j)
      BY DEF DeliverInv
    <2>2. CASE recvConn(j)
      BY <1>1, <2>1, <2>2, RecvFiles
    <2>3. CASE openFile(j)
      BY <2>1, <2>3, OpenFiles
    <2>4. CASE sendPackets(j)
      BY <2>1, <2>4, PacketFiles
    <2>5. CASE closeConn(j)
      BY <1>1, <2>1, <2>5, CloseFiles
    <2>6. CASE packetsFail(j)
      <3>1. UNCHANGED fileVars /\ cpc'[j] = "dead" /\ call[j] # "close"
        BY <2>6 DEF packetsFail, sendFails, C, IInv, TypeOK
      <3> QED BY <1>1, <2>1, <3>1, EndFiles DEF FilesTyped, fileVars
    <2>7. CASE (recvEof(j) \/ report(j)) /\ UNCHANGED fileVars
      <3>1. /\ UNCHANGED confd
            /\ cpc[j] \in {"recv", "report"} /\ cpc'[j] \in {"recv", "report", "dead"}
        BY <2>7 DEF recvEof, report, C, IInv, TypeOK
      <3> QED BY <1>1, <2>1, <2>7, <3>1, EndFiles DEF FilesTyped, fileVars
    <2> QED BY <2>2, <2>3, <2>4, <2>5, <2>6, <2>7 DEF send_child
  <1>3. ASSUME NEW k \in Children \ {j} PROVE ChildFiles(k)'
    <2>1. cpc'[k] = cpc[k] /\ confd'[k] = confd[k]
      BY DEF send_child, recvConn, openFile, sendPackets, packetsFail, closeConn, closed,
             recvfd, recvEof, sendFails, report, C, vars, childVars, IInv, TypeOK
    <2>2. call'[k] = call[k] /\ fd'[k] = fd[k] /\ used'[k] = used[k] /\ got'[k] = got[k]
      BY DEF send_child, recvConn, openFile, sendPackets, packetsFail, closeConn, closed,
             fileVars, DeliverInv, FilesTyped
    <2> QED BY <1>1, <2>1, <2>2, FilesUntouched DEF DeliverInv
  <1> QED BY <1>2, <1>3 DEF DeliverInv

LEMMA StageStepDelivers ==
  ASSUME IInv, HeldInv, DeliverInv, [StagesNext]_allVars
  PROVE  DeliverInv'
  <1>1. ASSUME stage = "sendfile", UNCHANGED stage, NEW j \in Children, send_child(j)
        PROVE  DeliverInv'
    BY <1>1, SendChildDelivers
  <1>2. CASE stage # "sendfile" /\ UNCHANGED <<fileVars, stage>>
    BY <1>2 DEF DeliverInv, FilesTyped, fileVars
  <1>3. CASE /\ stage = "sendfile" /\ UNCHANGED <<fileVars, stage>>
             /\ early_parent_epoll \/ Users \/ UNCHANGED vars
    <2>1. Kept
      BY <1>3, AlwaysKept
    <2>2. UNCHANGED childVars
      BY <1>3 DEF early_parent_epoll, dispatch, childEvent, Users, Connect, Leave,
                  RemoveFile, vars
    <2> QED BY <1>3, <2>1, <2>2, FilesUntouched DEF DeliverInv, FilesTyped, fileVars, childVars
  <1> QED BY <1>1, <1>2, <1>3 DEF StagesNext, Child, bigfile_child, allVars

LEMMA InitDelivers == StagesInit => DeliverInv
  <1> SUFFICES ASSUME StagesInit PROVE DeliverInv
    OBVIOUS
  <1>1. FilesTyped
    BY DEF StagesInit, FilesTyped
  <1>2. ASSUME NEW j \in Children PROVE ChildFiles(j)
    <2>1. Given(j) = {}
      BY DEF StagesInit, Given
    <2>2. IsFiniteSet(Given(j)) /\ Cardinality(Given(j)) = 0
      BY <2>1, FS_EmptySet
    <2> QED BY <2>2, StagesAssumption
            DEF StagesInit, Init, ChildFiles, Serves, Opened
  <1> QED BY <1>1, <1>2 DEF DeliverInv

THEOREM StagesHeldInductive == StagesSpec => [](IInv /\ HeldInv /\ DeliverInv)
  <1>1. StagesInit => IInv /\ HeldInv /\ DeliverInv
    BY InitInv, InitHeld, InitDelivers DEF StagesInit
  <1>2. IInv /\ HeldInv /\ DeliverInv /\ [StagesNext]_allVars
          => IInv' /\ HeldInv' /\ DeliverInv'
    BY StageStepInv, StageStepHeld, StageStepDelivers
  <1> QED BY <1>1, <1>2, PTL DEF StagesSpec

(***************************************************************************)
(* In every stage a connection that is not answered yet is in one place.   *)
(***************************************************************************)
THEOREM StagesHeldByOne == StagesSpec => []HeldOnce
  <1>1. HeldInv => HeldOnce
    BY DEF HeldInv
  <1> QED BY <1>1, StagesHeldInductive, PTL

(***************************************************************************)
(* A child of the first stage loses a descriptor for every client it gives *)
(* the file, and no other: it always has room for the next connection, and *)
(* sends three bytes only once it has given away all it could open, or the *)
(* file is gone.                                                           *)
(***************************************************************************)
THEOREM FilesDelivered == StagesSpec => []Delivered
  BY InvDelivered, StagesHeldInductive, PTL

(***************************************************************************)
(* In every stage that has a way out, it is graceful.                      *)
(***************************************************************************)
THEOREM StagesExitIsGraceful == StagesSpec => []GracefulExit
  BY GracefulFrom, StagesHeldInductive, PTL
=============================================================================
