--------------------------- MODULE ChatRoomProofs -----------------------------
(* Proofs about the chat room for any number of clients, any amount of talk  *)
(* and every size of the buffers.                                            *)
EXTENDS ChatRoom, Counting

-----------------------------------------------------------------------------
(* A linked list of the nodes M, of which r[1] .. r[n] is the order, behind  *)
(* a head that is not a node: insertion at the front, removal, a walk.       *)

Chain(n, r, nx, M) ==
  /\ n \in Nat
  /\ r \in [0..(n + 1) -> Clients \cup {clientList, Null}]
  /\ r[0] = clientList /\ r[n + 1] = Null
  /\ \A k \in 1..n : r[k] \in M
  /\ \A c \in M : \E k \in 1..n : r[k] = c
  /\ \A i, k \in 1..n : r[i] = r[k] => i = k
  /\ \A k \in 0..n : nx[r[k]] = r[k + 1]

Links == [Clients \cup {clientList} -> Clients \cup {Null}]

LEMMA Distinct ==
  /\ clientList \notin Clients /\ Null \notin Clients /\ Sock \notin Clients
  /\ clientList # Null /\ Null # Sock
  BY ChatAssumption

LEMMA ChainEmpty ==
  ASSUME NEW nx, nx[clientList] = Null
  PROVE  \E n, r : Chain(n, r, nx, {})
  <1> DEFINE r == [k \in 0..(0 + 1) |-> IF k = 0 THEN clientList ELSE Null]
  <1>1. /\ r \in [0..(0 + 1) -> Clients \cup {clientList, Null}]
        /\ r[0] = clientList /\ r[0 + 1] = Null
    OBVIOUS
  <1> HIDE DEF r
  <1>2. Chain(0, r, nx, {})
    BY <1>1 DEF Chain
  <1> QED BY <1>2

(* From a node, or from before the first, one gets to a node or to the end.  *)
LEMMA ChainStep ==
  ASSUME NEW n, NEW r, NEW nx, NEW M, Chain(n, r, nx, M), NEW a \in M \cup {clientList}
  PROVE  nx[a] \in M \cup {Null}
  <1>1. PICK k \in 0..n : r[k] = a
    BY DEF Chain
  <1>2. k + 1 \in 1..n \/ k + 1 = n + 1
    BY <1>1 DEF Chain
  <1> QED BY <1>1, <1>2 DEF Chain

LEMMA ChainInsert ==
  ASSUME NEW M \in SUBSET Clients, NEW n, NEW r, NEW nx \in Links,
         Chain(n, r, nx, M), NEW c \in Clients \ M
  PROVE  \E m, s : Chain(m, s, [nx EXCEPT ![c] = nx[clientList], ![clientList] = c],
                         M \cup {c})
  <1> DEFINE ny == [nx EXCEPT ![c] = nx[clientList], ![clientList] = c]
             s == [k \in 0..(n + 2) |-> IF k = 0 THEN clientList
                                        ELSE IF k = 1 THEN c ELSE r[k - 1]]
  <1>1. /\ ny[clientList] = c /\ ny[c] = nx[clientList]
        /\ \A a \in M : ny[a] = nx[a]
    BY Distinct DEF Links
  <1>2. n \in Nat /\ n + 1 \in Nat /\ (n + 1) + 1 = n + 2
    BY DEF Chain
  <1>3. /\ s[0] = clientList /\ s[1] = c
        /\ \A k \in 2..(n + 2) : s[k] = r[k - 1]
    BY <1>2
  <1>4. s \in [0..(n + 2) -> Clients \cup {clientList, Null}]
    BY <1>2 DEF Chain
  <1> HIDE DEF s, ny
  <1>5. s[n + 2] = Null
    BY <1>2, <1>3 DEF Chain
  <1>6. \A k \in 2..(n + 1) : k - 1 \in 1..n /\ s[k] = r[k - 1] /\ s[k] \in M
    BY <1>2, <1>3 DEF Chain
  <1>7. \A k \in 1..(n + 1) : s[k] \in M \cup {c}
    <2> TAKE k \in 1..(n + 1)
    <2>1. k = 1 \/ k \in 2..(n + 1)
      BY <1>2
    <2> QED BY <1>3, <1>6, <2>1
  <1>8. \A a \in M \cup {c} : \E k \in 1..(n + 1) : s[k] = a
    <2> TAKE a \in M \cup {c}
    <2>1. CASE a = c
      BY <1>2, <1>3, <2>1
    <2>2. CASE a \in M
      <3>1. PICK k \in 1..n : r[k] = a
        BY <2>2 DEF Chain
      <3>2. k + 1 \in 2..(n + 1) /\ (k + 1) - 1 = k /\ k + 1 \in 1..(n + 1)
        BY <1>2
      <3>3. s[k + 1] = a
        BY <1>6, <3>1, <3>2
      <3> QED BY <3>2, <3>3
    <2> QED BY <2>1, <2>2
  <1>9. \A i, k \in 1..(n + 1) : s[i] = s[k] => i = k
    <2> TAKE i, k \in 1..(n + 1)
    <2>1. (i = 1 \/ i \in 2..(n + 1)) /\ (k = 1 \/ k \in 2..(n + 1))
      BY <1>2
    <2>2. c \notin M
      OBVIOUS
    <2>3. CASE i \in 2..(n + 1) /\ k \in 2..(n + 1)
      BY <1>6, <2>3 DEF Chain
    <2> QED BY <1>3, <1>6, <2>1, <2>2, <2>3
  <1>10. \A k \in 0..(n + 1) : ny[s[k]] = s[k + 1]
    <2> TAKE k \in 0..(n + 1)
    <2>1. k = 0 \/ k = 1 \/ k \in 2..(n + 1)
      BY <1>2
    <2>2. CASE k = 0
      BY <1>1, <1>3, <2>2
    <2>3. CASE k = 1
      <3>1. ny[s[1]] = r[1]
        BY <1>1, <1>2, <1>3 DEF Chain
      <3>2. s[2] = r[1]
        BY <1>2, <1>3
      <3> QED BY <2>3, <3>1, <3>2
    <2>4. CASE k \in 2..(n + 1)
      <3>1. ny[s[k]] = nx[r[k - 1]]
        BY <1>1, <1>6, <2>4
      <3>2. k - 1 \in 0..n /\ (k - 1) + 1 = k
        BY <1>2, <2>4
      <3>3. nx[r[k - 1]] = r[(k - 1) + 1]
        BY <3>2 DEF Chain
      <3>4. k + 1 \in 2..(n + 2) /\ (k + 1) - 1 = k
        BY <1>2, <2>4
      <3>5. s[k + 1] = r[k]
        BY <1>3, <3>4
      <3> QED BY <3>1, <3>2, <3>3, <3>5
    <2> QED BY <2>1, <2>2, <2>3, <2>4
  <1>11. Chain(n + 1, s, ny, M \cup {c})
    BY <1>2, <1>3, <1>4, <1>5, <1>7, <1>8, <1>9, <1>10 DEF Chain
  <1> QED BY <1>11 DEF ny

LEMMA ChainRemove ==
  ASSUME NEW M \in SUBSET Clients, NEW n, NEW r, NEW nx \in Links,
         Chain(n, r, nx, M), NEW a \in M \cup {clientList}, NEW c \in M, nx[a] = c
  PROVE  \E m, s : Chain(m, s, [nx EXCEPT ![a] = nx[c], ![c] = Null], M \ {c})
  <1> DEFINE ny == [nx EXCEPT ![a] = nx[c], ![c] = Null]
  <1>1. PICK j \in 0..n : r[j] = a
    BY DEF Chain
  <1>2. n \in Nat /\ j \in Nat /\ r[j + 1] = c
    BY <1>1 DEF Chain
  <1>3. j + 1 \in 1..n
    BY <1>2, Distinct DEF Chain
  <1>4. n \in Nat \ {0} /\ n - 1 \in Nat /\ (n - 1) + 1 = n
    BY <1>2, <1>3
  <1>5. \A i, k \in 0..n : r[i] = r[k] => i = k
    BY Distinct DEF Chain
  <1>6. \A k \in 0..n : k # j + 1 => r[k] # c
    BY <1>2, <1>3, <1>5
  <1>7. \A k \in 0..n : k # j => r[k] # a
    BY <1>1, <1>5
  <1>8. a # c
    BY <1>1, <1>6
  <1>9. /\ ny[a] = nx[c]
        /\ \A b \in M \cup {clientList} : b # a /\ b # c => ny[b] = nx[b]
    BY <1>8 DEF Links
  <1>10. \A k \in 0..n : r[k] \in M \cup {clientList}
    BY DEF Chain
  <1> DEFINE s == [k \in 0..n |-> IF k <= j THEN r[k] ELSE r[k + 1]]
  <1>11. /\ \A k \in 0..j : s[k] = r[k]
         /\ \A k \in (j + 1)..n : s[k] = r[k + 1]
    BY <1>2, <1>3
  <1>12. s \in [0..n -> Clients \cup {clientList, Null}]
    BY <1>2, <1>3 DEF Chain
  <1> HIDE DEF s, ny
  <1>13. s[0] = clientList
    <2>1. 0 \in 0..j /\ r[0] = clientList
      BY <1>2 DEF Chain
    <2> QED BY <1>11, <2>1
  <1>14. s[n] = Null
    BY <1>2, <1>3, <1>11 DEF Chain
  <1>15. \A k \in 1..(n - 1) : s[k] \in M \ {c}
    <2> TAKE k \in 1..(n - 1)
    <2>1. CASE k <= j
      BY <1>2, <1>4, <1>6, <1>11, <2>1 DEF Chain
    <2>2. CASE ~(k <= j)
      <3>1. k \in (j + 1)..n /\ k + 1 \in 1..n /\ k + 1 \in 0..n /\ k + 1 # j + 1
        BY <1>2, <1>4, <2>2
      <3> QED BY <1>6, <1>11, <3>1 DEF Chain
    <2> QED BY <2>1, <2>2
  <1>16. \A b \in M \ {c} : \E k \in 1..(n - 1) : s[k] = b
    <2> TAKE b \in M \ {c}
    <2>1. PICK k \in 1..n : r[k] = b
      BY DEF Chain
    <2>2. k # j + 1
      BY <1>2, <2>1
    <2>3. CASE k <= j
      <3>1. k \in 0..j /\ k \in 1..(n - 1)
        BY <1>2, <1>3, <1>4, <2>3
      <3> QED BY <1>11, <2>1, <3>1
    <2>4. CASE ~(k <= j)
      <3>1. k - 1 \in (j + 1)..n /\ (k - 1) + 1 = k /\ k - 1 \in 1..(n - 1)
        BY <1>2, <1>3, <1>4, <2>2, <2>4
      <3> QED BY <1>11, <2>1, <3>1
    <2> QED BY <2>3, <2>4
  <1>17. \A i, k \in 1..(n - 1) : s[i] = s[k] => i = k
    <2> TAKE i, k \in 1..(n - 1)
    <2> DEFINE b(x) == IF x <= j THEN x ELSE x + 1
    <2>1. \A x \in 1..(n - 1) : s[x] = r[b(x)] /\ b(x) \in 0..n
      BY <1>2, <1>3, <1>4, <1>11
    <2>2. s[i] = s[k] => b(i) = b(k)
      BY <1>5, <2>1
    <2>3. b(i) = b(k) => i = k
      BY <1>2, <1>4
    <2> QED BY <2>2, <2>3
  <1>18. \A k \in 0..(n - 1) : ny[s[k]] = s[k + 1]
    <2> TAKE k \in 0..(n - 1)
    <2>1. CASE k < j
      <3>1. k \in 0..j /\ k + 1 \in 0..j /\ k \in 0..n /\ k # j /\ k # j + 1
        BY <1>2, <1>4, <2>1
      <3>2. ny[r[k]] = r[k + 1]
        BY <1>6, <1>7, <1>9, <1>10, <3>1 DEF Chain
      <3> QED BY <1>11, <3>1, <3>2
    <2>2. CASE k = j
      <3>1. k \in 0..j /\ k + 1 \in (j + 1)..n /\ (k + 1) + 1 = j + 2
        BY <1>2, <1>3, <2>2
      <3>2. s[k] = a /\ s[k + 1] = r[j + 2]
        BY <1>1, <1>11, <2>2, <3>1
      <3>3. nx[c] = r[j + 2]
        <4>1. j + 1 \in 0..n /\ (j + 1) + 1 = j + 2
          BY <1>2, <1>3
        <4>2. nx[r[j + 1]] = r[(j + 1) + 1]
          BY <4>1 DEF Chain
        <4> QED BY <1>2, <4>1, <4>2
      <3> QED BY <1>9, <3>2, <3>3
    <2>3. CASE k > j
      <3>1. /\ k \in (j + 1)..n /\ k + 1 \in (j + 1)..n /\ k + 1 \in 0..n
            /\ k + 1 # j /\ k + 1 # j + 1
        BY <1>2, <1>4, <2>3
      <3>2. s[k] = r[k + 1] /\ s[k + 1] = r[(k + 1) + 1]
        BY <1>11, <3>1
      <3>3. ny[r[k + 1]] = r[(k + 1) + 1]
        BY <1>6, <1>7, <1>9, <1>10, <3>1 DEF Chain
      <3> QED BY <3>2, <3>3
    <2> QED BY <1>2, <1>4, <2>1, <2>2, <2>3
  <1>19. Chain(n - 1, s, ny, M \ {c})
    BY <1>4, <1>12, <1>13, <1>14, <1>15, <1>16, <1>17, <1>18 DEF Chain
  <1> QED BY <1>19 DEF ny

-----------------------------------------------------------------------------
(* What ListSound says of the list follows from there being such an order.   *)

LEMMA ChainShort ==
  ASSUME NEW M \in SUBSET Clients, NEW n, NEW r, NEW nx, Chain(n, r, nx, M)
  PROVE  Size \in Nat /\ n <= Size
  <1> DEFINE f == [k \in 1..n |-> r[k]]
  <1>1. n \in Nat /\ IsFiniteSet(Clients)
    BY ChatAssumption DEF Chain
  <1>2. f \in [1..n -> Clients] /\ \A i, k \in 1..n : f[i] = f[k] => i = k
    BY DEF Chain
  <1> HIDE DEF f
  <1>3. f \in Injection(1..n, Clients)
    BY <1>2 DEF Injection, IsInjective
  <1>4. Cardinality(1..n) <= Cardinality(Clients)
    BY <1>1, <1>3, FS_Injection
  <1>5. Cardinality(1..n) = n
    BY <1>1, FS_Interval
  <1>6. Cardinality(Clients) \in Nat
    BY <1>1, FS_CardinalityType
  <1> QED BY <1>4, <1>5, <1>6 DEF Size

LEMMA NthIs ==
  ASSUME NEW M \in SUBSET Clients, NEW n, NEW r, Chain(n, r, next, M)
  PROVE  \A k \in 0..(Size + 1) : nth[k] = IF k <= n THEN r[k] ELSE Null
  <1> DEFINE w == [k \in 0..(Size + 1) |-> IF k <= n THEN r[k] ELSE Null]
             F(f) == [k \in 0..(Size + 1) |->
                        IF k = 0 THEN clientList
                        ELSE IF f[k - 1] = Null THEN Null ELSE next[f[k - 1]]]
  <1>1. n \in Nat /\ Size \in Nat /\ n <= Size
    <2>1. n \in Nat
      BY DEF Chain
    <2> QED BY <2>1, ChainShort
  <1>2. ASSUME NEW k \in 0..(Size + 1)
        PROVE  w[k] = IF k = 0 THEN clientList
                      ELSE IF w[k - 1] = Null THEN Null ELSE next[w[k - 1]]
    <2>1. CASE k = 0
      BY <1>1, <2>1 DEF Chain
    <2>2. CASE k \in 1..(n + 1)
      <3>1. /\ k - 1 \in 0..n /\ (k - 1) + 1 = k /\ k # 0 /\ k - 1 \in 0..(Size + 1)
            /\ k - 1 <= n
        BY <1>1, <2>2
      <3>2. w[k - 1] = r[k - 1] /\ next[r[k - 1]] = r[k]
        BY <3>1 DEF Chain
      <3>3. r[k - 1] # Null
        BY <3>1, Distinct DEF Chain
      <3>4. w[k] = r[k]
        BY <1>1, <2>2 DEF Chain
      <3> QED BY <3>1, <3>2, <3>3, <3>4
    <2>3. CASE k > n + 1
      <3>1. k - 1 \in 0..(Size + 1) /\ ~(k - 1 <= n) /\ ~(k <= n) /\ k # 0
        BY <1>1, <2>3
      <3> QED BY <3>1
    <2> QED BY <1>1, <2>1, <2>2, <2>3
  <1>3. w = F(w)
    BY <1>2
  <1>4. nth = F(nth)
    <2> HIDE DEF w
    <2> QED BY <1>3 DEF nth
  <1> DEFINE T == {k \in Nat : k <= Size + 1 => nth[k] = w[k]}
  <1>5. 0 \in T
    <2>1. 0 \in 0..(Size + 1)
      BY <1>1
    <2>2. nth[0] = clientList
      BY <1>4, <2>1
    <2>3. w[0] = clientList
      BY <1>2, <2>1
    <2> QED BY <2>2, <2>3
  <1>6. ASSUME NEW k \in T PROVE k + 1 \in T
    <2>1. SUFFICES ASSUME k + 1 <= Size + 1 PROVE nth[k + 1] = w[k + 1]
      OBVIOUS
    <2>2. /\ k \in Nat /\ k + 1 \in 0..(Size + 1) /\ k \in 0..(Size + 1)
          /\ (k + 1) - 1 = k /\ k + 1 # 0
      BY <1>1, <2>1
    <2>3. nth[k] = w[k]
      BY <1>1, <2>2
    <2>4. nth[k + 1] = IF nth[k] = Null THEN Null ELSE next[nth[k]]
      BY <1>4, <2>2
    <2> HIDE DEF w
    <2>5. w[k + 1] = IF w[k] = Null THEN Null ELSE next[w[k]]
      BY <1>2, <2>2
    <2> QED BY <2>3, <2>4, <2>5
  <1>7. T \subseteq Nat
    OBVIOUS
  <1> HIDE DEF T
  <1>8. T = Nat
    BY <1>5, <1>6, <1>7, SetInduction
  <1>9. ASSUME NEW k \in 0..(Size + 1) PROVE nth[k] = IF k <= n THEN r[k] ELSE Null
    <2>1. k \in Nat /\ k <= Size + 1
      BY <1>1
    <2>2. nth[k] = w[k]
      BY <1>8, <2>1 DEF T
    <2> QED BY <2>2
  <1> QED BY <1>9

LEMMA ChainListed ==
  ASSUME NEW M \in SUBSET Clients, NEW n, NEW r, Chain(n, r, next, M)
  PROVE  {nth[k] : k \in 1..Size} \ {Null} = M /\ nth[Size + 1] = Null
  <1>1. n \in Nat /\ Size \in Nat /\ n <= Size
    <2>1. n \in Nat
      BY DEF Chain
    <2> QED BY <2>1, ChainShort
  <1>2. \A k \in 0..(Size + 1) : nth[k] = IF k <= n THEN r[k] ELSE Null
    BY NthIs
  <1>3. ASSUME NEW k \in 1..Size, nth[k] # Null PROVE nth[k] \in M
    <2>1. k \in 0..(Size + 1) /\ (k <= n => k \in 1..n)
      BY <1>1
    <2> QED BY <1>2, <1>3, <2>1 DEF Chain
  <1>4. ASSUME NEW c \in M PROVE c # Null /\ \E k \in 1..Size : nth[k] = c
    <2>1. PICK k \in 1..n : r[k] = c
      BY DEF Chain
    <2>2. k \in 0..(Size + 1) /\ k <= n /\ k \in 1..Size
      BY <1>1
    <2>3. nth[k] = c
      BY <1>2, <2>1, <2>2
    <2> QED BY <2>2, <2>3, Distinct
  <1>5. nth[Size + 1] = Null
    BY <1>1, <1>2
  <1> QED BY <1>3, <1>4, <1>5

-----------------------------------------------------------------------------
(* Types, with what the steps need to keep them.                             *)

Typed ==
  /\ TypeOK
  /\ evening \in Evenings
  /\ flight \in [Clients -> Nat]
  /\ pc = "forward" => tempClient \in Clients /\ Text \in Seq(Clients \X Nat)
  /\ pc = "accept" /\ Sock \in readfds => backlog # <<>>

LEMMA Sizes ==
  ASSUME Typed
  PROVE  /\ BufLen \in Nat \ {0} /\ SockBuf \in Nat /\ SockBuf > BufLen
         /\ \A c \in DOMAIN evening.says : c \in Clients /\ evening.says[c] \in Nat
  BY ChatAssumption DEF Typed, BufLen, SockBuf

LEMMA Counts ==
  ASSUME Typed, NEW c \in Clients
  PROVE  /\ said[c] \in Nat /\ flight[c] \in Nat /\ flight[c] <= said[c]
         /\ flight[c] <= SockBuf /\ read(c) \in Nat
         /\ unread[c] \in Nat /\ unread[c] <= SockBuf
  <1>1. /\ said[c] \in Nat /\ flight[c] \in Nat /\ flight[c] \in 0..said[c]
        /\ flight[c] <= SockBuf /\ unread[c] \in 0..SockBuf
    BY DEF Typed, TypeOK
  <1>2. SockBuf \in Nat
    BY Sizes
  <1> QED BY <1>1, <1>2 DEF read

Saying(c, j, n) == [k \in 1..n |-> <<c, j + k>>]

(* What is left of the buffer without what strlen ran on to.                 *)
LEMMA TextTyped ==
  ASSUME NEW c \in Clients, NEW n \in Nat, NEW j \in Nat, NEW text, NEW b,
         text = Saying(c, j, n), b = text \/ b = Append(text, Junk)
  PROVE  /\ b \in Seq(Units) /\ text \in Seq(Clients \X Nat)
         /\ Len(b) = (IF b = text THEN n ELSE n + 1)
         /\ (IF b # <<>> /\ Last(b) = Junk THEN Front(b) ELSE b) = text
  <1>1. \A k \in 1..n : j + k \in Nat /\ <<c, j + k>> \in Clients \X Nat
    OBVIOUS
  <1>2. text \in [1..n -> Clients \X Nat]
    BY <1>1 DEF Saying
  <1>3. text \in Seq(Clients \X Nat) /\ Len(text) = n
    BY <1>2, SeqDef, LenProperties
  <1>4. text \in Seq(Units)
    BY <1>3 DEF Units
  <1>5. CASE b = text
    <2>1. ASSUME b # <<>> PROVE Last(b) # Junk
      <3>1. Len(b) \in 1..n
        BY <1>3, <1>4, <1>5, <2>1, LenProperties, EmptySeq
      <3> QED BY <1>2, <1>5, <3>1, ChatAssumption DEF Last
    <2> QED BY <1>3, <1>4, <1>5, <2>1
  <1>6. CASE b = Append(text, Junk) /\ b # text
    <2>1. /\ b \in Seq(Units) /\ Len(b) = n + 1 /\ b[n + 1] = Junk
          /\ \A k \in 1..n : b[k] = text[k]
      BY <1>3, <1>4, <1>6, AppendProperties DEF Units
    <2>2. b # <<>> /\ Last(b) = Junk
      BY <2>1, EmptySeq DEF Last
    <2>3. Front(b) = text
      <3>1. Front(b) = SubSeq(b, 1, n)
        BY <2>1 DEF Front
      <3>2. \A i \in 1..n : b[i] \in Units
        BY <2>1, ElementOfSeq
      <3>3. /\ SubSeq(b, 1, n) \in Seq(Units)
            /\ Len(SubSeq(b, 1, n)) = IF 1 <= n THEN n - 1 + 1 ELSE 0
            /\ \A i \in 1..(n - 1 + 1) : SubSeq(b, 1, n)[i] = b[1 + i - 1]
        BY <2>1, <3>2, SubSeqProperties
      <3>4. Len(SubSeq(b, 1, n)) = n /\ \A i \in 1..n : SubSeq(b, 1, n)[i] = text[i]
        BY <2>1, <3>3
      <3> QED BY <1>3, <1>4, <3>1, <3>3, <3>4, SeqEqual
    <2> QED BY <1>3, <1>6, <2>1, <2>2, <2>3
  <1> QED BY <1>5, <1>6

LEMMA InitTyped == Init => Typed
  <1> SUFFICES ASSUME Init PROVE Typed
    OBVIOUS
  <1>1. BufLen \in Nat \ {0} /\ SockBuf \in Nat
    BY ChatAssumption DEF Init, BufLen, SockBuf
  <1>2. TypeOK
    BY <1>1, Distinct DEF Init, TypeOK, Places
  <1> QED BY <1>2, Distinct DEF Init, Typed

LEMMA Constant == [Next]_vars => UNCHANGED <<evening, BufLen, SockBuf>>
  <1>1. [Next]_vars => evening' = evening
    BY Zenon DEF Next, Server, select, accept, ScanEnd, ScanSkip, recv, clientClose, send,
       SkipSender, ForwardEnd, Client, Connect, Type, ClientSend, ClientRecv, Leave, vars
  <1> QED BY <1>1 DEF BufLen, SockBuf

LEMMA SelectTyped ==
  ASSUME Typed, select, UNCHANGED <<evening, BufLen, SockBuf>> PROVE Typed'
  <1>1. TypeOK'
    BY DEF Typed, TypeOK, select, Readable, listVars, clientVars, Places
  <1>2. pc' = "accept" /\ (Sock \in readfds' => backlog' # <<>>)
    BY Distinct DEF Typed, select, Readable, TypeOK
  <1> QED BY <1>1, <1>2 DEF Typed, select

LEMMA AcceptTyped ==
  ASSUME Typed, accept, UNCHANGED <<evening, BufLen, SockBuf>> PROVE Typed'
  <1>1. /\ UNCHANGED <<temp, buf, readfds, conn, cpc, said, unread, flight, got>>
        /\ pc = "accept" /\ pc' = "scan"
        /\ tempClient' = next'[clientList] /\ tempfront' = clientList
    BY DEF accept, clientVars
  <1>2. /\ next' \in Links /\ basefds' \subseteq Clients \cup {Sock}
        /\ backlog' \in Seq(Clients) /\ joined' \in [Clients -> [Clients -> Nat]]
    <2>1. CASE Sock \in readfds
      <3> DEFINE c == Head(backlog)
      <3>1. /\ next' = [next EXCEPT ![c] = next[clientList], ![clientList] = c]
            /\ basefds' = Watch(c) /\ backlog' = Tail(backlog)
            /\ joined' = [joined EXCEPT ![c] = [s \in Clients |-> read(s)]]
        BY <2>1 DEF accept
      <3>2. backlog \in Seq(Clients) /\ backlog # <<>>
        BY <1>1, <2>1 DEF Typed, TypeOK
      <3>3. c \in Clients /\ Tail(backlog) \in Seq(Clients)
        BY <3>2, HeadTailProperties
      <3>4. [s \in Clients |-> read(s)] \in [Clients -> Nat]
        <4>1. ASSUME NEW s \in Clients PROVE read(s) \in Nat
          BY Counts
        <4> QED BY <4>1
      <3> HIDE DEF c
      <3>5. basefds' \subseteq Clients \cup {Sock}
        BY <3>1, <3>3 DEF Typed, TypeOK, Watch
      <3>6. next' \in Links
        BY <3>1, <3>3 DEF Typed, TypeOK, Links
      <3>7. joined' \in [Clients -> [Clients -> Nat]]
        <4> DEFINE f == [s \in Clients |-> read(s)]
        <4>1. f \in [Clients -> Nat] /\ joined' = [joined EXCEPT ![c] = f]
          BY <3>1, <3>4
        <4> HIDE DEF f
        <4> QED BY <3>3, <4>1 DEF Typed, TypeOK
      <3> QED BY <3>1, <3>3, <3>5, <3>6, <3>7
    <2>2. CASE Sock \notin readfds
      BY <2>2 DEF accept, Typed, TypeOK, Links
    <2> QED BY <2>1, <2>2
  <1>3. tempClient' \in Clients \cup {Null}
    BY <1>1, <1>2 DEF Links
  <1>4. TypeOK'
    BY <1>1, <1>2, <1>3 DEF Typed, TypeOK, Links, Places
  <1> QED BY <1>1, <1>4 DEF Typed

LEMMA ScanEndTyped ==
  ASSUME Typed, ScanEnd, UNCHANGED <<evening, BufLen, SockBuf>> PROVE Typed'
  <1>1. TypeOK'
    BY DEF Typed, TypeOK, ScanEnd, clientVars, Places
  <1> QED BY <1>1 DEF Typed, ScanEnd, clientVars

LEMMA ScanSkipTyped ==
  ASSUME Typed, ScanSkip, tempfront' \in Clients \cup {clientList},
         UNCHANGED <<evening, BufLen, SockBuf>>
  PROVE  Typed'
  <1>1. TypeOK'
    BY DEF Typed, TypeOK, ScanSkip, Advance, clientVars, fdVars
  <1> QED BY <1>1 DEF Typed, ScanSkip, clientVars, fdVars

LEMMA ForwardEndTyped ==
  ASSUME Typed, ForwardEnd, tempfront' \in Clients \cup {clientList},
         UNCHANGED <<evening, BufLen, SockBuf>>
  PROVE  Typed'
  <1>1. tempClient' \in Clients \cup {Null}
    BY DEF Typed, TypeOK, ForwardEnd, Advance
  <1>2. buf' = <<>> /\ buf' \in Seq(Units) /\ Len(buf') <= BufLen' + 1
    BY Sizes DEF ForwardEnd
  <1>3. TypeOK'
    BY <1>1, <1>2 DEF Typed, TypeOK, ForwardEnd, clientVars, fdVars, Places
  <1> QED BY <1>3 DEF Typed, ForwardEnd, clientVars, fdVars

LEMMA SkipSenderTyped ==
  ASSUME Typed, SkipSender, UNCHANGED <<evening, BufLen, SockBuf>> PROVE Typed'
  <1>1. TypeOK'
    BY DEF Typed, TypeOK, SkipSender, listVars, clientVars, fdVars
  <1>2. Text' = Text
    BY DEF SkipSender, Text
  <1> QED BY <1>1, <1>2 DEF Typed, SkipSender, listVars, clientVars, fdVars

(* What recv puts into the buffer: the next of what one member said, or      *)
(* nothing when its connection was reset.                                    *)
Taken(n) ==
  /\ flight' = [flight EXCEPT ![tempClient] = @ - n]
  /\ LET text == Saying(tempClient, read(tempClient), n)
     IN  buf' = text \/ buf' = Append(text, Junk)

LEMMA RecvTakes ==
  ASSUME Typed, recv
  PROVE  /\ tempClient \in Clients
         /\ \/ \E n \in 1..BufLen : n <= flight[tempClient] /\ Taken(n) /\ UNCHANGED conn
            \/ /\ conn' = [conn EXCEPT ![tempClient] = "broken"] /\ UNCHANGED flight
               /\ buf' = <<>>
  <1>1. tempClient \in Clients
    BY Distinct DEF recv, Typed, TypeOK
  <1> QED BY <1>1 DEF recv, Taken, Saying

LEMMA RecvTyped ==
  ASSUME Typed, recv, UNCHANGED <<evening, BufLen, SockBuf>> PROVE Typed'
  <1>1. /\ UNCHANGED <<next, tempClient, tempfront, basefds, readfds, backlog, cpc, said,
                       unread, got, joined>>
        /\ pc' = "forward" /\ temp' = next[clientList] /\ tempClient \in Clients
    BY RecvTakes DEF recv, listVars, fdVars, clientVars, FirstTemp
  <1>2. temp' \in Clients \cup {Null}
    BY <1>1 DEF Typed, TypeOK
  <1>3. /\ buf' \in Seq(Units) /\ Len(buf') <= BufLen' + 1
        /\ Text' \in Seq(Clients \X Nat)
        /\ conn' \in [Clients -> {"none", "up", "fin", "reset", "broken", "closed"}]
        /\ flight' \in [Clients -> Nat]
        /\ \A c \in Clients : flight'[c] \in 0..said[c] /\ flight'[c] <= SockBuf
    <2>1. CASE \E n \in 1..BufLen : n <= flight[tempClient] /\ Taken(n) /\ UNCHANGED conn
      <3>1. PICK n \in 1..BufLen : n <= flight[tempClient] /\ Taken(n) /\ UNCHANGED conn
        BY <2>1
      <3> DEFINE text == Saying(tempClient, read(tempClient), n)
      <3>2. n \in Nat /\ BufLen \in Nat /\ read(tempClient) \in Nat
        BY <1>1, Sizes, Counts
      <3>3. buf' = text \/ buf' = Append(text, Junk)
        BY <3>1 DEF Taken
      <3> HIDE DEF text
      <3>4. /\ buf' \in Seq(Units) /\ text \in Seq(Clients \X Nat)
            /\ Len(buf') = (IF buf' = text THEN n ELSE n + 1)
            /\ (IF buf' # <<>> /\ Last(buf') = Junk THEN Front(buf') ELSE buf') = text
        BY <1>1, <3>2, <3>3, TextTyped DEF text
      <3>5. Text' = text
        BY <3>4 DEF Text
      <3>6. Len(buf') <= BufLen' + 1
        BY <3>2, <3>4
      <3>7. /\ flight' \in [Clients -> Nat]
            /\ \A c \in Clients : flight'[c] \in 0..said[c] /\ flight'[c] <= SockBuf
        <4> DEFINE c == tempClient
        <4>1. /\ flight' = [flight EXCEPT ![c] = flight[c] - n] /\ c \in Clients
              /\ n <= flight[c] /\ flight \in [Clients -> Nat]
          BY <1>1, <3>1 DEF Taken, Typed
        <4> HIDE DEF c
        <4>2. /\ flight' \in [Clients -> Nat]
              /\ \A d \in Clients : flight'[d] <= flight[d]
          BY <3>2, <4>1
        <4>3. ASSUME NEW d \in Clients
              PROVE  flight'[d] \in 0..said[d] /\ flight'[d] <= SockBuf
          <5>1. flight'[d] \in Nat /\ flight'[d] <= flight[d] /\ SockBuf \in Nat
            BY <4>2, Sizes
          <5>2. /\ said[d] \in Nat /\ flight[d] \in Nat /\ flight[d] <= said[d]
                /\ flight[d] <= SockBuf
            BY Counts
          <5> QED BY <5>1, <5>2
        <4> QED BY <4>2, <4>3
      <3> QED BY <3>1, <3>4, <3>5, <3>6, <3>7 DEF Typed, TypeOK
    <2>2. CASE /\ conn' = [conn EXCEPT ![tempClient] = "broken"] /\ UNCHANGED flight
               /\ buf' = <<>>
      <3>1. Text' = <<>>
        BY <2>2 DEF Text
      <3>2. buf' \in Seq(Units) /\ Len(buf') = 0 /\ Text' \in Seq(Clients \X Nat)
        BY <2>2, <3>1
      <3>3. Len(buf') <= BufLen' + 1
        BY <3>2, Sizes
      <3>4. conn' \in [Clients -> {"none", "up", "fin", "reset", "broken", "closed"}]
        BY <2>2 DEF Typed, TypeOK
      <3> QED BY <2>2, <3>2, <3>3, <3>4 DEF Typed, TypeOK
    <2> QED BY <2>1, <2>2, RecvTakes
  <1>4. TypeOK'
    BY <1>1, <1>2, <1>3 DEF Typed, TypeOK, Places
  <1> QED BY <1>1, <1>3, <1>4 DEF Typed

LEMMA ClientCloseTyped ==
  ASSUME Typed, clientClose, UNCHANGED <<evening, BufLen, SockBuf>> PROVE Typed'
  <1>1. /\ UNCHANGED <<pc, tempfront, temp, buf, readfds, backlog, cpc, said, unread,
                       flight, got, joined>>
        /\ pc = "scan" /\ tempClient \in Clients
    BY Distinct DEF clientClose, Eof, clientVars, Typed, TypeOK
  <1>2. basefds' \subseteq Clients \cup {Sock}
    BY DEF clientClose, Unwatch, Typed, TypeOK
  <1>3. next' \in Links /\ tempClient' \in Clients \cup {Null}
    BY <1>1 DEF clientClose, AfterClose, Typed, TypeOK, Links
  <1>4. conn' \in [Clients -> {"none", "up", "fin", "reset", "broken", "closed"}]
    BY <1>1 DEF clientClose, Typed, TypeOK
  <1>5. TypeOK'
    BY <1>1, <1>2, <1>3, <1>4 DEF Typed, TypeOK, Links
  <1> QED BY <1>1, <1>5 DEF Typed

LEMMA SendTyped ==
  ASSUME Typed, send, UNCHANGED <<evening, BufLen, SockBuf>> PROVE Typed'
  <1>1. /\ UNCHANGED <<next, tempClient, tempfront, buf, basefds, readfds, backlog, cpc,
                       said, flight, joined>>
        /\ temp \in Clients /\ temp' = next[temp]
        /\ pc = "forward" /\ pc' \in {"forward", "killed"}
    BY DEF send, listVars, fdVars
  <1>2. temp' \in Clients \cup {Null}
    BY <1>1 DEF Typed, TypeOK
  <1>3. Text \in Seq(Clients \X Nat) /\ Text' = Text
    BY <1>1 DEF Typed, Text
  <1>4. got' \in [Clients -> Seq(Clients \X Nat)] /\ unread' \in [Clients -> 0..SockBuf]
    <2>1. CASE /\ unread[temp] + Len(buf) <= SockBuf
               /\ got' = [got EXCEPT ![temp] = @ \o Text]
               /\ unread' = [unread EXCEPT ![temp] = @ + Len(buf)]
      <3>1. got[temp] \o Text \in Seq(Clients \X Nat)
        BY <1>1, <1>3, ConcatProperties DEF Typed, TypeOK
      <3>2. got' \in [Clients -> Seq(Clients \X Nat)]
        BY <2>1, <3>1 DEF Typed, TypeOK
      <3>3. Len(buf) \in Nat
        BY LenProperties DEF Typed, TypeOK
      <3>4. unread' \in [Clients -> 0..SockBuf]
        <4>1. SockBuf \in Nat /\ unread[temp] \in Nat
          BY <1>1, Sizes, Counts
        <4>2. unread[temp] + Len(buf) \in 0..SockBuf
          BY <2>1, <3>3, <4>1
        <4> QED BY <2>1, <4>2 DEF Typed, TypeOK
      <3> QED BY <3>2, <3>4
    <2>2. CASE UNCHANGED <<got, unread>>
      BY <2>2 DEF Typed, TypeOK
    <2> QED BY <2>1, <2>2 DEF send
  <1>5. conn' \in [Clients -> {"none", "up", "fin", "reset", "broken", "closed"}]
    BY <1>1 DEF send, Typed, TypeOK
  <1>6. TypeOK'
    BY <1>1, <1>2, <1>4, <1>5 DEF Typed, TypeOK, Places
  <1> QED BY <1>1, <1>3, <1>6 DEF Typed

LEMMA ClientTyped ==
  ASSUME Typed, NEW c \in Clients, Client(c), UNCHANGED <<evening, BufLen, SockBuf>>
  PROVE  Typed'
  <1>1. /\ UNCHANGED <<pc, next, tempClient, tempfront, temp, buf, basefds, readfds, got,
                       joined>>
        /\ Text' = Text
    BY DEF Client, Connect, Type, ClientSend, ClientRecv, Leave, listVars, fdVars, Text
  <1>2. backlog' \in Seq(Clients) /\ (backlog' = backlog \/ backlog' # <<>>)
    <2>1. backlog \in Seq(Clients)
      BY DEF Typed, TypeOK
    <2>2. CASE backlog' = Append(backlog, c)
      BY <2>1, <2>2, AppendProperties
    <2>3. CASE UNCHANGED backlog
      BY <2>1, <2>3
    <2> QED BY <2>2, <2>3 DEF Client, Connect, Type, ClientSend, ClientRecv, Leave
  <1>3. cpc' \in [Clients -> {"out", "select", "send", "gone"}]
    BY DEF Client, Connect, Type, ClientSend, ClientRecv, Leave, Typed, TypeOK
  <1>4. conn' \in [Clients -> {"none", "up", "fin", "reset", "broken", "closed"}]
    BY DEF Client, Connect, Type, ClientSend, ClientRecv, Leave, Typed, TypeOK
  <1>5. unread' \in [Clients -> 0..SockBuf]
    <2>1. CASE ClientRecv(c)
      <3>1. BufLen \in Nat /\ SockBuf \in Nat /\ unread[c] \in Nat /\ unread[c] <= SockBuf
        BY Sizes, Counts
      <3>2. (IF unread[c] > BufLen THEN unread[c] - BufLen ELSE 0) \in 0..SockBuf
        BY <3>1
      <3>3. unread' = [unread EXCEPT ![c] = IF unread[c] > BufLen THEN unread[c] - BufLen
                                                                  ELSE 0]
        BY <2>1 DEF ClientRecv
      <3> QED BY <3>2, <3>3 DEF Typed, TypeOK
    <2> QED BY <2>1 DEF Client, Connect, Type, ClientSend, Leave, Typed, TypeOK
  <1>6. /\ said' \in [Clients -> Nat] /\ flight' \in [Clients -> Nat]
        /\ \A d \in Clients : flight'[d] \in 0..said'[d] /\ flight'[d] <= SockBuf
    <2>1. CASE ClientSend(c)
      <3>1. /\ said' = [said EXCEPT ![c] = said[c] + 1]
            /\ flight' = [flight EXCEPT ![c] = flight[c] + 1] /\ flight[c] < SockBuf
            /\ said \in [Clients -> Nat] /\ flight \in [Clients -> Nat]
        BY <2>1 DEF ClientSend, Typed, TypeOK
      <3>2. said' \in [Clients -> Nat] /\ flight' \in [Clients -> Nat]
        BY <3>1
      <3>3. ASSUME NEW d \in Clients
            PROVE  flight'[d] \in 0..said'[d] /\ flight'[d] <= SockBuf
        <4>1. /\ said[d] \in Nat /\ flight[d] \in Nat /\ flight[d] <= said[d]
              /\ flight[d] <= SockBuf /\ SockBuf \in Nat
          BY Sizes, Counts
        <4>2. CASE d = c
          BY <3>1, <4>1, <4>2
        <4>3. CASE d # c
          BY <3>1, <4>1, <4>3
        <4> QED BY <4>2, <4>3
      <3> QED BY <3>2, <3>3
    <2> QED BY <2>1 DEF Client, Connect, Type, ClientRecv, Leave, Typed, TypeOK
  <1>7. TypeOK'
    BY <1>1, <1>2, <1>3, <1>4, <1>5, <1>6 DEF Typed, TypeOK
  <1> QED BY <1>1, <1>2, <1>6, <1>7 DEF Typed

-----------------------------------------------------------------------------
(* The list: always in some order, with the scan on two neighbours of it and *)
(* the forwarding on one of its nodes; who waits to be accepted waits once,  *)
(* and is not in the list, and nothing was sent to it.                       *)

Members == basefds \ {Sock}

Ordered == \E n, r : Chain(n, r, next, Members)

ScanAt ==
  /\ pc \in {"scan", "forward"} => /\ tempfront \in Members \cup {clientList}
                                   /\ next[tempfront] = tempClient
  /\ pc = "forward" => temp \in Members \cup {Null}

Waiting ==
  /\ \A i \in 1..Len(backlog) :
       backlog[i] \notin basefds /\ cpc[backlog[i]] # "out" /\ got[backlog[i]] = <<>>
  /\ \A i, k \in 1..Len(backlog) : backlog[i] = backlog[k] => i = k
  /\ \A c \in Clients : cpc[c] = "out" => c \notin basefds /\ got[c] = <<>>

Lists == Typed /\ Ordered /\ ScanAt /\ Waiting

LEMMA MembersIn == ASSUME Typed PROVE Members \in SUBSET Clients
  BY DEF Typed, TypeOK, Members

LEMMA MemberNext ==
  ASSUME Typed, Ordered, NEW a \in Members \cup {clientList}
  PROVE  next[a] \in Members \cup {Null}
  BY ChainStep DEF Ordered

(* In the scan, tempClient is a member or the end of the list.               *)
LEMMA ScanMember ==
  ASSUME Typed, Ordered, ScanAt, pc \in {"scan", "forward"}
  PROVE  /\ tempClient \in Members \cup {Null}
         /\ tempClient \in Clients => tempClient \in Members
  BY MemberNext, Distinct DEF ScanAt

LEMMA InitLists == Init => Lists
  <1> SUFFICES ASSUME Init PROVE Lists
    OBVIOUS
  <1>1. Typed
    BY InitTyped
  <1>2. Members = {} /\ next[clientList] = Null
    BY DEF Init, Members
  <1>3. Ordered
    BY <1>2, ChainEmpty DEF Ordered
  <1>4. ScanAt
    BY DEF Init, ScanAt
  <1>5. Waiting
    BY Distinct DEF Init, Waiting
  <1> QED BY <1>1, <1>3, <1>4, <1>5 DEF Lists

(* A step that keeps the list, the backlog and what was sent.                *)
LEMMA ListsKept ==
  ASSUME Lists, Typed', UNCHANGED <<next, basefds, backlog, cpc, got>>, ScanAt'
  PROVE  Lists'
  <1>1. Ordered'
    BY DEF Lists, Ordered, Members
  <1>2. Waiting'
    BY DEF Lists, Waiting
  <1> QED BY <1>1, <1>2 DEF Lists

LEMMA AcceptLists ==
  ASSUME Lists, Typed', accept PROVE Lists'
  <1>1. /\ UNCHANGED <<cpc, got>> /\ pc = "accept" /\ pc' = "scan"
        /\ tempClient' = next'[clientList] /\ tempfront' = clientList
    BY DEF accept, clientVars
  <1>2. ScanAt'
    BY <1>1 DEF ScanAt
  <1>3. CASE Sock \in readfds
    <2> DEFINE c == Head(backlog)
    <2>1. /\ next' = [next EXCEPT ![c] = next[clientList], ![clientList] = c]
          /\ basefds' = Watch(c) /\ backlog' = Tail(backlog)
      BY <1>3 DEF accept
    <2>2. backlog \in Seq(Clients) /\ backlog # <<>>
      BY <1>1, <1>3 DEF Lists, Typed, TypeOK
    <2>3. Len(backlog) \in Nat \ {0} /\ 1 \in 1..Len(backlog) /\ backlog[1] = c
      BY <2>2, LenProperties, EmptySeq
    <2>4. /\ Len(Tail(backlog)) = Len(backlog) - 1
          /\ \A i \in 1..Len(Tail(backlog)) : Tail(backlog)[i] = backlog[i + 1]
      BY <2>2, HeadTailProperties
    <2>5. c \in Clients /\ c # Sock /\ c \notin basefds /\ cpc[c] # "out"
      BY <2>2, <2>3, HeadTailProperties, Distinct DEF Lists, Waiting
    <2>6. PICK n, r : Chain(n, r, next, Members)
      BY DEF Lists, Ordered
    <2>7. next \in Links /\ Members \in SUBSET Clients /\ c \in Clients \ Members
      BY <2>5, MembersIn DEF Lists, Typed, TypeOK, Links, Members
    <2> HIDE DEF c
    <2>8. PICK m, s : Chain(m, s, [next EXCEPT ![c] = next[clientList], ![clientList] = c],
                           Members \cup {c})
      <3> HIDE <2>1
      <3> QED BY <2>6, <2>7, ChainInsert
    <2>9. Members' = Members \cup {c}
      BY <2>1, <2>5 DEF Members, Watch
    <2>10. Ordered'
      BY <2>1, <2>8, <2>9 DEF Ordered
    <2>11. Waiting'
      <3>1. \A i \in 1..Len(backlog') :
              i + 1 \in 1..Len(backlog) /\ i + 1 # 1 /\ backlog'[i] = backlog[i + 1]
        BY <2>1, <2>3, <2>4
      <3>2. ASSUME NEW i \in 1..Len(backlog')
            PROVE  backlog'[i] \notin basefds' /\ cpc[backlog'[i]] # "out"
                   /\ got[backlog'[i]] = <<>>
        <4>1. backlog'[i] # c
          BY <2>3, <3>1 DEF Lists, Waiting
        <4> QED BY <2>1, <3>1, <4>1 DEF Lists, Waiting, Watch
      <3>3. ASSUME NEW i \in 1..Len(backlog'), NEW k \in 1..Len(backlog'),
                   backlog'[i] = backlog'[k]
            PROVE  i = k
        <4>1. i + 1 = k + 1
          BY <3>1, <3>3 DEF Lists, Waiting
        <4> QED BY <4>1
      <3>4. ASSUME NEW d \in Clients, cpc[d] = "out"
            PROVE  d \notin basefds' /\ got[d] = <<>>
        BY <2>1, <2>5, <3>4 DEF Lists, Waiting, Watch
      <3> QED BY <1>1, <3>2, <3>3, <3>4 DEF Waiting
    <2> QED BY <1>2, <2>10, <2>11 DEF Lists
  <1>4. CASE Sock \notin readfds
    <2>1. UNCHANGED <<next, basefds, backlog>>
      BY <1>4 DEF accept
    <2> QED BY <1>1, <1>2, <2>1, ListsKept
  <1> QED BY <1>3, <1>4

LEMMA ClientCloseLists ==
  ASSUME Lists, Typed', clientClose PROVE Lists'
  <1> DEFINE c == tempClient
             a == tempfront
  <1>1. /\ UNCHANGED <<pc, tempfront, backlog, cpc, got>> /\ pc = "scan"
        /\ basefds' = Unwatch(c) /\ c \in readfds
        /\ next' = [next EXCEPT ![a] = next[c], ![c] = Null]
        /\ tempClient' = next[c]
    BY DEF clientClose, Eof, clientVars, AfterClose
  <1>2. c \in Clients /\ c \in Members
    BY <1>1, ScanMember, Distinct DEF Lists, Typed, TypeOK
  <1>3. a \in Members \cup {clientList} /\ next[a] = c
    BY <1>1 DEF Lists, ScanAt
  <1>4. next \in Links /\ Members \in SUBSET Clients
    BY MembersIn DEF Lists, Typed, TypeOK, Links
  <1>5. PICK n, r : Chain(n, r, next, Members)
    BY DEF Lists, Ordered
  <1>6. next[c] # c
    <2>1. PICK k \in 1..n : r[k] = c
      BY <1>2, <1>5 DEF Chain
    <2>2. n \in Nat /\ next[c] = r[k + 1]
      BY <1>5, <2>1 DEF Chain
    <2>3. CASE k = n
      BY <1>2, <1>5, <2>2, <2>3, Distinct DEF Chain
    <2>4. CASE k # n
      BY <1>5, <2>1, <2>2, <2>4 DEF Chain
    <2> QED BY <2>3, <2>4
  <1> HIDE DEF a, c
  <1>7. PICK m, s : Chain(m, s, [next EXCEPT ![a] = next[c], ![c] = Null], Members \ {c})
    <2> HIDE <1>1
    <2> QED BY <1>2, <1>3, <1>4, <1>5, ChainRemove
  <1>8. Members' = Members \ {c}
    BY <1>1 DEF Members, Unwatch
  <1>9. Ordered'
    BY <1>1, <1>7, <1>8 DEF Ordered
  <1>10. ScanAt'
    <2>1. a # c
      <3>1. CASE a = clientList
        BY <1>2, <3>1, Distinct
      <3>2. CASE a = c
        BY <1>3, <1>6, <3>2
      <3> QED BY <3>1, <3>2
    <2>2. next'[a] = next[c]
      BY <1>1, <1>3, <1>4, <2>1 DEF Links
    <2>3. a \in Members' \cup {clientList}
      BY <1>3, <1>8, <2>1
    <2> QED BY <1>1, <2>2, <2>3 DEF ScanAt, a
  <1>11. Waiting'
    BY <1>1 DEF Lists, Waiting, Unwatch
  <1> QED BY <1>9, <1>10, <1>11 DEF Lists

LEMMA RecvLists ==
  ASSUME Lists, Typed', recv PROVE Lists'
  <1>1. /\ UNCHANGED <<next, tempClient, tempfront, basefds, backlog, cpc, got>>
        /\ pc = "scan" /\ temp' = next[clientList]
    BY DEF recv, listVars, fdVars, clientVars, FirstTemp
  <1>2. next[clientList] \in Members \cup {Null}
    BY MemberNext DEF Lists
  <1>3. ScanAt'
    BY <1>1, <1>2 DEF Lists, ScanAt, Members
  <1> QED BY <1>1, <1>3, ListsKept

(* Advance: the node that was looked at is before the next one.              *)
LEMMA AdvanceLists ==
  ASSUME Lists, pc \in {"scan", "forward"}, tempClient \in Clients, Advance,
         UNCHANGED <<next, basefds, backlog, cpc, got>>, pc' = "scan"
  PROVE  /\ tempfront' \in Clients \cup {clientList}
         /\ Typed' => Lists'
  <1>1. tempClient \in Members /\ tempClient \in Clients
    BY ScanMember DEF Lists
  <1>2. tempfront' = tempClient /\ tempClient' = next[tempClient]
    BY DEF Advance, Lists, ScanAt
  <1>3. ScanAt'
    BY <1>1, <1>2 DEF ScanAt, Members
  <1> QED BY <1>1, <1>2, <1>3, ListsKept

LEMMA SendLists ==
  ASSUME Lists, Typed', send PROVE Lists'
  <1>1. /\ UNCHANGED <<next, tempClient, tempfront, basefds, backlog, cpc>>
        /\ temp \in Members /\ temp' = next[temp]
        /\ pc = "forward" /\ pc' \in {"forward", "killed"}
        /\ \/ UNCHANGED got
           \/ got' = [got EXCEPT ![temp] = @ \o Text]
    BY Distinct DEF send, listVars, fdVars, Lists, ScanAt
  <1>2. next[temp] \in Members \cup {Null}
    BY <1>1, MemberNext DEF Lists
  <1>3. ScanAt'
    BY <1>1, <1>2 DEF Lists, ScanAt, Members
  <1>4. Ordered'
    BY <1>1 DEF Lists, Ordered, Members
  <1>5. \A c \in Clients : c \notin basefds => got'[c] = got[c]
    BY <1>1 DEF Members, Lists, Typed, TypeOK
  <1>6. \A i \in 1..Len(backlog) : backlog[i] \in Clients
    BY ElementOfSeq DEF Lists, Typed, TypeOK
  <1>7. Waiting'
    BY <1>1, <1>5, <1>6 DEF Lists, Waiting
  <1> QED BY <1>3, <1>4, <1>7 DEF Lists

LEMMA SkipSenderLists ==
  ASSUME Lists, Typed', SkipSender PROVE Lists'
  <1>1. /\ UNCHANGED <<pc, next, tempClient, tempfront, basefds, backlog, cpc, got>>
        /\ pc = "forward" /\ temp = tempClient /\ temp' = next[temp]
    BY DEF SkipSender, listVars, fdVars, clientVars
  <1>2. temp \in Members
    BY <1>1, ScanMember DEF Lists, Typed
  <1>3. next[temp] \in Members \cup {Null}
    BY <1>2, MemberNext DEF Lists
  <1>4. ScanAt'
    BY <1>1, <1>3 DEF Lists, ScanAt, Members
  <1> QED BY <1>1, <1>4, ListsKept

LEMMA ConnectLists ==
  ASSUME Lists, Typed', NEW c \in Clients, Connect(c) PROVE Lists'
  <1>1. /\ UNCHANGED <<pc, next, tempClient, tempfront, temp, basefds, got>>
        /\ cpc[c] = "out" /\ cpc' = [cpc EXCEPT ![c] = "select"]
        /\ backlog' = Append(backlog, c)
    BY DEF Connect, listVars, fdVars
  <1>2. backlog \in Seq(Clients) /\ cpc \in [Clients -> {"out", "select", "send", "gone"}]
    BY DEF Lists, Typed, TypeOK
  <1>3. /\ Len(backlog') = Len(backlog) + 1 /\ Len(backlog) \in Nat
        /\ \A i \in 1..Len(backlog) : backlog'[i] = backlog[i] /\ backlog[i] \in Clients
        /\ backlog'[Len(backlog) + 1] = c
    BY <1>1, <1>2, AppendProperties, LenProperties, ElementOfSeq
  <1>4. \A i \in 1..Len(backlog') : i \in 1..Len(backlog) \/ i = Len(backlog) + 1
    BY <1>3
  <1>5. \A i \in 1..Len(backlog) : backlog[i] # c
    BY <1>1 DEF Lists, Waiting
  <1>6. cpc'[c] = "select" /\ \A d \in Clients : d # c => cpc'[d] = cpc[d]
    BY <1>1, <1>2
  <1> HIDE <1>1
  <1>7. c \notin basefds /\ got[c] = <<>> /\ UNCHANGED <<basefds, got>>
    BY <1>1 DEF Lists, Waiting
  <1>8. ASSUME NEW i \in 1..Len(backlog')
        PROVE  backlog'[i] \notin basefds' /\ cpc'[backlog'[i]] # "out"
               /\ got'[backlog'[i]] = <<>>
    <2>1. CASE i \in 1..Len(backlog)
      BY <1>3, <1>5, <1>6, <1>7, <2>1 DEF Lists, Waiting
    <2>2. CASE i = Len(backlog) + 1
      BY <1>3, <1>6, <1>7, <2>2
    <2> QED BY <1>4, <2>1, <2>2
  <1>9. ASSUME NEW i \in 1..Len(backlog'), NEW k \in 1..Len(backlog'),
               backlog'[i] = backlog'[k]
        PROVE  i = k
    BY <1>3, <1>4, <1>5, <1>9 DEF Lists, Waiting
  <1>10. \A d \in Clients : cpc'[d] = "out" => d \notin basefds' /\ got'[d] = <<>>
    BY <1>6, <1>7 DEF Lists, Waiting
  <1>11. Waiting'
    BY <1>8, <1>9, <1>10 DEF Waiting
  <1>12. Ordered' /\ ScanAt'
    BY <1>1 DEF Lists, Ordered, ScanAt, Members
  <1> QED BY <1>11, <1>12 DEF Lists

LEMMA ClientLists ==
  ASSUME Lists, Typed', NEW c \in Clients, Client(c) PROVE Lists'
  <1>1. CASE Connect(c)
    BY <1>1, ConnectLists
  <1>2. CASE Type(c) \/ ClientSend(c) \/ ClientRecv(c) \/ Leave(c)
    <2>1. /\ UNCHANGED <<pc, next, tempClient, tempfront, temp, basefds, backlog, got>>
      BY <1>2 DEF Type, ClientSend, ClientRecv, Leave, listVars, fdVars
    <2>2. \A d \in Clients : cpc'[d] = "out" <=> cpc[d] = "out"
      <3>1. \/ UNCHANGED cpc
            \/ /\ cpc[c] # "out"
               /\ \E w \in {"select", "send", "gone"} : cpc' = [cpc EXCEPT ![c] = w]
        BY <1>2 DEF Type, ClientSend, ClientRecv, Leave
      <3> QED BY <3>1 DEF Lists, Typed, TypeOK
    <2>3. Ordered' /\ ScanAt'
      BY <2>1 DEF Lists, Ordered, ScanAt, Members
    <2>4. \A i \in 1..Len(backlog) : backlog[i] \in Clients
      BY ElementOfSeq DEF Lists, Typed, TypeOK
    <2>5. Waiting'
      BY <2>1, <2>2, <2>4 DEF Lists, Waiting
    <2> QED BY <2>3, <2>5 DEF Lists
  <1> QED BY <1>1, <1>2 DEF Client

LEMMA NextLists == Lists /\ [Next]_vars => Lists'
  <1> SUFFICES ASSUME Lists, [Next]_vars PROVE Lists'
    OBVIOUS
  <1> DEFINE Same == UNCHANGED <<evening, BufLen, SockBuf>>
  <1>1. Typed /\ Same
    BY Constant DEF Lists
  <1>2. CASE select
    <2>1. ScanAt'
      BY <1>2 DEF select, ScanAt
    <2>2. UNCHANGED <<next, basefds, backlog, cpc, got>>
      BY <1>2 DEF select, listVars, clientVars
    <2> QED BY <1>1, <1>2, <2>1, <2>2, SelectTyped, ListsKept
  <1>3. CASE accept
    BY <1>1, <1>3, AcceptTyped, AcceptLists
  <1>4. CASE ScanEnd
    <2>1. ScanAt'
      BY <1>4 DEF ScanEnd, ScanAt
    <2>2. UNCHANGED <<next, basefds, backlog, cpc, got>>
      BY <1>4 DEF ScanEnd, clientVars
    <2> QED BY <1>1, <1>4, <2>1, <2>2, ScanEndTyped, ListsKept
  <1>5. CASE ScanSkip
    <2>1. /\ tempClient \in Clients /\ Advance /\ pc = "scan" /\ pc' = "scan"
          /\ UNCHANGED <<next, basefds, backlog, cpc, got>>
      BY <1>5 DEF ScanSkip, fdVars, clientVars
    <2> QED BY <1>1, <1>5, <2>1, AdvanceLists, ScanSkipTyped
  <1>6. CASE ForwardEnd
    <2>1. /\ tempClient \in Clients /\ Advance /\ pc = "forward" /\ pc' = "scan"
          /\ UNCHANGED <<next, basefds, backlog, cpc, got>>
      BY <1>1, <1>6 DEF ForwardEnd, fdVars, clientVars, Typed
    <2> QED BY <1>1, <1>6, <2>1, AdvanceLists, ForwardEndTyped
  <1>7. CASE recv
    BY <1>1, <1>7, RecvTyped, RecvLists
  <1>8. CASE clientClose
    BY <1>1, <1>8, ClientCloseTyped, ClientCloseLists
  <1>9. CASE send
    BY <1>1, <1>9, SendTyped, SendLists
  <1>10. CASE SkipSender
    BY <1>1, <1>10, SkipSenderTyped, SkipSenderLists
  <1>11. ASSUME NEW c \in Clients, Client(c) PROVE Lists'
    BY <1>1, <1>11, ClientTyped, ClientLists
  <1>12. CASE UNCHANGED vars
    <2>1. UNCHANGED <<pc, next, tempClient, tempfront, temp, buf, basefds, readfds, backlog,
                      conn, cpc, said, unread, flight, got, joined, evening>>
      BY <1>12 DEF vars, listVars, fdVars, clientVars
    <2>2. TypeOK'
      BY <1>1, <2>1 DEF Typed, TypeOK
    <2>3. Typed'
      BY <1>1, <2>1, <2>2 DEF Typed, Text
    <2>4. ScanAt'
      BY <2>1 DEF Lists, ScanAt, Members
    <2> QED BY <2>1, <2>3, <2>4, ListsKept
  <1> QED BY <1>2, <1>3, <1>4, <1>5, <1>6, <1>7, <1>8, <1>9, <1>10, <1>11, <1>12
          DEF Next, Server

LEMMA ListsSound == Lists => TypeOK /\ ListSound
  <1> SUFFICES ASSUME Lists PROVE TypeOK /\ ListSound
    OBVIOUS
  <1>1. PICK n, r : Chain(n, r, next, Members)
    BY DEF Lists, Ordered
  <1>2. {nth[k] : k \in 1..Size} \ {Null} = Members /\ nth[Size + 1] = Null
    BY <1>1, MembersIn, ChainListed DEF Lists
  <1> QED BY <1>2 DEF Lists, Typed, ScanAt, ListSound, Members

(* Every variable of the room keeps its type, and no buffer holds more than  *)
(* its size: for any number of clients, whatever they say.                   *)
THEOREM RoomTypes == Spec => []TypeOK
  BY InitLists, NextLists, ListsSound, PTL DEF Spec

(* Members come in at the front and go in the middle of the scan, and the    *)
(* list holds at every step exactly those select watches, without a cycle,   *)
(* with tempfront before tempClient: for any number of clients.              *)
THEOREM RoomListSound == Spec => []ListSound
  BY InitLists, NextLists, ListsSound, PTL DEF Spec

-----------------------------------------------------------------------------
(* What was relayed.  Holds, element by element.                             *)

Told == Seq(Clients \X Nat)

LEMMA HoldsIs ==
  ASSUME NEW g \in Told, NEW s \in Clients, NEW f \in Nat, NEW t \in Nat
  PROVE  Holds(g, s, f, t) <=>
           /\ \A i \in 1..Len(g) : g[i][1] = s => g[i][2] \in (f + 1)..t
           /\ \A k \in (f + 1)..t : \E i \in 1..Len(g) : g[i] = <<s, k>>
           /\ \A i, j \in 1..Len(g) :
                i < j /\ g[i][1] = s /\ g[j][1] = s => g[i][2] < g[j][2]
  <1>1. DOMAIN g = 1..Len(g)
    BY LenProperties DEF Told
  <1>2. \A i \in 1..Len(g) : g[i] \in Clients \X Nat
    BY ElementOfSeq DEF Told
  <1>3. \A i \in 1..Len(g) : \A k : g[i] = <<s, k>> <=> g[i][1] = s /\ g[i][2] = k
    BY <1>2
  <1>4. Range(g) = {g[i] : i \in 1..Len(g)}
    BY <1>1 DEF Range
  <1>5. {u \in Range(g) : u[1] = s} = {<<s, k>> : k \in (f + 1)..t} <=>
          /\ \A i \in 1..Len(g) : g[i][1] = s => g[i][2] \in (f + 1)..t
          /\ \A k \in (f + 1)..t : \E i \in 1..Len(g) : g[i] = <<s, k>>
    <2>1. ASSUME {u \in Range(g) : u[1] = s} = {<<s, k>> : k \in (f + 1)..t},
                 NEW i \in 1..Len(g), g[i][1] = s
          PROVE  g[i][2] \in (f + 1)..t
      <3>1. g[i] \in {<<s, k>> : k \in (f + 1)..t}
        BY <1>4, <2>1
      <3> QED BY <3>1
    <2>2. ASSUME {u \in Range(g) : u[1] = s} = {<<s, k>> : k \in (f + 1)..t},
                 NEW k \in (f + 1)..t
          PROVE  \E i \in 1..Len(g) : g[i] = <<s, k>>
      <3>1. <<s, k>> \in Range(g)
        BY <2>2
      <3> QED BY <1>4, <3>1
    <2>3. ASSUME \A i \in 1..Len(g) : g[i][1] = s => g[i][2] \in (f + 1)..t,
                 \A k \in (f + 1)..t : \E i \in 1..Len(g) : g[i] = <<s, k>>
          PROVE  {u \in Range(g) : u[1] = s} = {<<s, k>> : k \in (f + 1)..t}
      <3>1. ASSUME NEW u \in Range(g), u[1] = s
            PROVE  u \in {<<s, k>> : k \in (f + 1)..t}
        <4>1. PICK i \in 1..Len(g) : u = g[i]
          BY <1>4
        <4>2. g[i][2] \in (f + 1)..t
          BY <2>3, <3>1, <4>1
        <4>3. g[i] = <<s, g[i][2]>>
          BY <1>3, <3>1, <4>1
        <4> QED BY <4>1, <4>2, <4>3
      <3>2. ASSUME NEW k \in (f + 1)..t
            PROVE  <<s, k>> \in Range(g) /\ <<s, k>>[1] = s
        BY <1>4, <2>3
      <3> QED BY <3>1, <3>2
    <2> QED BY <2>1, <2>2, <2>3
  <1> QED BY <1>1, <1>5 DEF Holds

LEMMA HoldsNothing ==
  ASSUME NEW s \in Clients, NEW f \in Nat
  PROVE  Holds(<<>>, s, f, f)
  <1>1. <<>> \in Told /\ Len(<<>>) = 0
    BY DEF Told
  <1>2. (f + 1)..f = {} /\ 1..0 = {}
    OBVIOUS
  <1> QED BY <1>1, <1>2, HoldsIs

(* Adding what c says next to what was held up to there.                     *)
IsAdded(h, g, c, t, m) ==
  /\ h \in Told /\ Len(g) \in Nat /\ Len(h) = Len(g) + m
  /\ \A i \in 1..Len(g) : h[i] = g[i]
  /\ \A k \in 1..m : h[Len(g) + k] = <<c, t + k>>
  /\ \A i \in 1..Len(h) : i \in 1..Len(g) \/ \E k \in 1..m : i = Len(g) + k

LEMMA Added ==
  ASSUME NEW g \in Told, NEW c \in Clients, NEW t \in Nat, NEW m \in Nat
  PROVE  IsAdded(g \o Saying(c, t, m), g, c, t, m)
  <1> DEFINE a == Saying(c, t, m)
             h == g \o a
  <1>1. a \in Told /\ Len(a) = m /\ \A k \in 1..m : a[k] = <<c, t + k>>
    <2>1. \A k \in 1..m : t + k \in Nat /\ <<c, t + k>> \in Clients \X Nat
      OBVIOUS
    <2>2. a \in [1..m -> Clients \X Nat] /\ \A k \in 1..m : a[k] = <<c, t + k>>
      BY <2>1 DEF Saying
    <2> QED BY <2>2, SeqDef, LenProperties DEF Told
  <1> HIDE DEF a
  <1>2. g \in Seq(Clients \X Nat) /\ Len(g) \in Nat
    BY LenProperties DEF Told
  <1>3. /\ h \in Told /\ Len(h) = Len(g) + Len(a)
        /\ \A i \in 1..(Len(g) + Len(a)) :
             h[i] = IF i <= Len(g) THEN g[i] ELSE a[i - Len(g)]
    BY <1>1, <1>2, ConcatProperties DEF Told
  <1> HIDE DEF h
  <1>4. \A i \in 1..Len(g) : h[i] = g[i]
    BY <1>1, <1>2, <1>3
  <1>5. ASSUME NEW k \in 1..m PROVE h[Len(g) + k] = <<c, t + k>>
    <2>1. /\ Len(g) + k \in 1..(Len(g) + Len(a)) /\ ~(Len(g) + k <= Len(g))
          /\ (Len(g) + k) - Len(g) = k
      BY <1>1, <1>2
    <2> QED BY <1>1, <1>3, <2>1
  <1>6. ASSUME NEW i \in 1..Len(h)
        PROVE  i \in 1..Len(g) \/ \E k \in 1..m : i = Len(g) + k
    <2>1. CASE i > Len(g)
      <3>1. i - Len(g) \in 1..m /\ i = Len(g) + (i - Len(g))
        BY <1>1, <1>2, <1>3, <2>1
      <3> QED BY <3>1
    <2>2. CASE ~(i > Len(g))
      BY <1>1, <1>2, <1>3, <2>2
    <2> QED BY <2>1, <2>2
  <1> QED BY <1>1, <1>2, <1>3, <1>4, <1>5, <1>6 DEF h, a, IsAdded

LEMMA HoldsMore ==
  ASSUME NEW g \in Told, NEW c \in Clients, NEW f \in Nat, NEW t \in Nat, NEW m \in Nat,
         f <= t, Holds(g, c, f, t)
  PROVE  Holds(g \o Saying(c, t, m), c, f, t + m)
  <1> DEFINE h == g \o Saying(c, t, m)
             L == Len(g)
  <1>1. /\ h \in Told /\ L \in Nat /\ Len(h) = L + m
        /\ \A i \in 1..L : h[i] = g[i]
        /\ \A k \in 1..m : h[L + k] = <<c, t + k>>
        /\ \A i \in 1..Len(h) : i \in 1..L \/ \E k \in 1..m : i = L + k
    <2>1. IsAdded(h, g, c, t, m)
      BY Added
    <2> HIDE DEF h
    <2> QED BY <2>1 DEF IsAdded
  <1>2. /\ \A i \in 1..L : g[i][1] = c => g[i][2] \in (f + 1)..t
        /\ \A k \in (f + 1)..t : \E i \in 1..L : g[i] = <<c, k>>
        /\ \A i, j \in 1..L : i < j /\ g[i][1] = c /\ g[j][1] = c => g[i][2] < g[j][2]
    BY HoldsIs
  <1> HIDE DEF h, L
  <1>3. \A k \in 1..m : h[L + k][1] = c /\ h[L + k][2] = t + k
    BY <1>1
  <1>4. ASSUME NEW i \in 1..Len(h), h[i][1] = c PROVE h[i][2] \in (f + 1)..(t + m)
    <2>1. CASE i \in 1..L
      BY <1>1, <1>2, <1>4, <2>1
    <2>2. ASSUME NEW k \in 1..m, i = L + k PROVE h[i][2] \in (f + 1)..(t + m)
      BY <1>3, <2>2
    <2> QED BY <1>1, <2>1, <2>2
  <1>5. ASSUME NEW k \in (f + 1)..(t + m) PROVE \E i \in 1..Len(h) : h[i] = <<c, k>>
    <2>1. CASE k <= t
      <3>1. PICK i \in 1..L : g[i] = <<c, k>>
        BY <1>2, <2>1, SMTT(30)
      <3> QED BY <1>1, <3>1
    <2>2. CASE k > t
      <3>1. k - t \in 1..m /\ t + (k - t) = k /\ L + (k - t) \in 1..Len(h)
        BY <1>1, <2>2
      <3> QED BY <1>1, <3>1
    <2> QED BY <2>1, <2>2
  <1>6. ASSUME NEW i \in 1..Len(h), NEW j \in 1..Len(h), i < j, h[i][1] = c, h[j][1] = c
        PROVE  h[i][2] < h[j][2]
    <2>1. CASE i \in 1..L /\ j \in 1..L
      BY <1>1, <1>2, <1>6, <2>1
    <2>2. ASSUME i \in 1..L, NEW k \in 1..m, j = L + k PROVE h[i][2] < h[j][2]
      <3>1. h[i][2] \in (f + 1)..t
        BY <1>1, <1>2, <1>6, <2>2
      <3>2. h[j][2] = t + k
        BY <1>3, <2>2
      <3> QED BY <3>1, <3>2
    <2>3. ASSUME NEW k \in 1..m, i = L + k, j \in 1..L PROVE FALSE
      BY <1>1, <1>6, <2>3
    <2>4. ASSUME NEW k \in 1..m, i = L + k, NEW l \in 1..m, j = L + l
          PROVE  h[i][2] < h[j][2]
      <3>1. k < l
        BY <1>1, <1>6, <2>4
      <3> QED BY <1>3, <2>4, <3>1, SMTT(30)
    <2> QED BY <1>1, <2>1, <2>2, <2>3, <2>4
  <1>7. t + m \in Nat
    OBVIOUS
  <1>8. Holds(h, c, f, t + m)
    BY <1>1, <1>4, <1>5, <1>6, <1>7, HoldsIs
  <1> QED BY <1>8 DEF h

LEMMA HoldsOther ==
  ASSUME NEW g \in Told, NEW c \in Clients, NEW t \in Nat, NEW m \in Nat,
         NEW s \in Clients, s # c, NEW f \in Nat, NEW u \in Nat, Holds(g, s, f, u)
  PROVE  Holds(g \o Saying(c, t, m), s, f, u)
  <1> DEFINE h == g \o Saying(c, t, m)
             L == Len(g)
  <1>1. /\ h \in Told /\ L \in Nat /\ Len(h) = L + m
        /\ \A i \in 1..L : h[i] = g[i]
        /\ \A k \in 1..m : h[L + k] = <<c, t + k>>
        /\ \A i \in 1..Len(h) : i \in 1..L \/ \E k \in 1..m : i = L + k
    <2>1. IsAdded(h, g, c, t, m)
      BY Added
    <2> HIDE DEF h
    <2> QED BY <2>1 DEF IsAdded
  <1>2. /\ \A i \in 1..L : g[i][1] = s => g[i][2] \in (f + 1)..u
        /\ \A k \in (f + 1)..u : \E i \in 1..L : g[i] = <<s, k>>
        /\ \A i, j \in 1..L : i < j /\ g[i][1] = s /\ g[j][1] = s => g[i][2] < g[j][2]
    BY HoldsIs
  <1> HIDE DEF h, L
  <1>3. \A k \in 1..m : h[L + k][1] # s
    BY <1>1
  <1>4. \A i \in 1..Len(h) : h[i][1] = s => i \in 1..L
    BY <1>1, <1>3
  <1>5. 1..L \subseteq 1..Len(h)
    BY <1>1
  <1>6. Holds(h, s, f, u)
    <2>1. \A i \in 1..Len(h) : h[i][1] = s => h[i][2] \in (f + 1)..u
      BY <1>1, <1>2, <1>4
    <2>2. \A k \in (f + 1)..u : \E i \in 1..Len(h) : h[i] = <<s, k>>
      BY <1>1, <1>2, <1>5
    <2>3. \A i, j \in 1..Len(h) :
            i < j /\ h[i][1] = s /\ h[j][1] = s => h[i][2] < h[j][2]
      BY <1>1, <1>2, <1>4
    <2> QED BY <1>1, <2>1, <2>2, <2>3, HoldsIs
  <1> QED BY <1>6 DEF h

(* Of what s says, c was sent all from where it joined up to to, and nothing *)
(* of its own.                                                               *)
Sent(c, s, to) == Holds(got[c], s, joined[c][s], IF s = c THEN joined[c][s] ELSE to)

JoinedRead == \A c \in Members, s \in Clients : joined[c][s] <= read(s)

AllSent ==
  pc \in {"select", "accept", "scan"} =>
    \A c \in Members : conn[c] = "up" => \A s \in Clients : Sent(c, s, read(s))

(* While m units of tempClient are forwarded, those before the j-th node     *)
(* have them.                                                                *)
Forwarding(n, r, j, m) ==
  /\ Chain(n, r, next, Members)
  /\ j \in 1..(n + 1) /\ temp = r[j]
  /\ m \in Nat /\ m <= read(tempClient)
  /\ Text = Saying(tempClient, read(tempClient) - m, m)
  /\ \A c \in Members : joined[c][tempClient] <= read(tempClient) - m
  /\ \A k \in 1..n : conn[r[k]] = "up" =>
       \A s \in Clients :
         Sent(r[k], s, IF s = tempClient /\ k >= j THEN read(s) - m ELSE read(s))

Relaying ==
  /\ JoinedRead
  /\ AllSent
  /\ pc = "forward" => \E n, r, j, m : Forwarding(n, r, j, m)

RoomInv == Lists /\ Relaying

LEMMA InitRelaying == Init => Relaying
  <1> SUFFICES ASSUME Init PROVE Relaying
    OBVIOUS
  <1>1. Members = {} /\ pc = "select"
    BY DEF Init, Members
  <1> QED BY <1>1 DEF Relaying, JoinedRead, AllSent

(* A step that sends nothing and reads nothing, and opens no member's        *)
(* connection.                                                               *)
Quiet ==
  /\ UNCHANGED <<next, got, joined>>
  /\ \A c \in Clients : read(c)' = read(c)
  /\ \A c \in Members : conn'[c] = "up" => conn[c] = "up"
  /\ Members' \subseteq Members

LEMMA QuietJoined ==
  ASSUME Lists, JoinedRead, Quiet PROVE JoinedRead'
  <1>1. \A c \in Members', s \in Clients :
          joined'[c][s] = joined[c][s] /\ read(s)' = read(s) /\ c \in Members
    BY DEF Quiet
  <1> QED BY <1>1 DEF JoinedRead

LEMMA QuietSent ==
  ASSUME Lists, Relaying, Quiet, pc \in {"select", "accept", "scan"},
         pc' \in {"select", "accept", "scan"}
  PROVE  Relaying'
  <1>1. \A c \in Members' : conn'[c] = "up" => \A s \in Clients : Sent(c, s, read(s))
    BY DEF Quiet, Relaying, AllSent
  <1>2. \A c \in Members', s \in Clients : Sent(c, s, read(s)) => Sent(c, s, read(s))'
    BY DEF Quiet, Sent
  <1>3. JoinedRead'
    BY QuietJoined DEF Relaying
  <1>4. AllSent'
    BY <1>1, <1>2 DEF AllSent
  <1> QED BY <1>3, <1>4 DEF Relaying

LEMMA QuietForwarding ==
  ASSUME Lists, Relaying, Quiet, UNCHANGED <<pc, basefds, tempClient, temp, buf>>,
         pc \notin {"select", "accept", "scan"}
  PROVE  Relaying'
  <1>1. JoinedRead' /\ AllSent'
    BY QuietJoined DEF Relaying, AllSent
  <1>2. ASSUME pc = "forward" PROVE \E n, r, j, m : Forwarding(n, r, j, m)'
    <2>1. PICK n, r, j, m : Forwarding(n, r, j, m)
      BY <1>2 DEF Relaying
    <2>2. tempClient \in Clients
      BY <1>2 DEF Lists, Typed
    <2>3. Text' = Text /\ Members' = Members /\ read(tempClient)' = read(tempClient)
      BY <2>2 DEF Quiet, Text, Members
    <2>4. /\ \A k \in 1..n : r[k] \in Members
          /\ \A k \in 1..n : conn'[r[k]] = "up" => conn[r[k]] = "up"
      BY <2>1 DEF Forwarding, Chain, Quiet
    <2>5. \A k \in 1..n, s \in Clients :
            Sent(r[k], s, IF s = tempClient /\ k >= j THEN read(s) - m ELSE read(s))
            => Sent(r[k], s, IF s = tempClient /\ k >= j THEN read(s) - m ELSE read(s))'
      BY DEF Quiet, Sent
    <2>6. \A k \in 1..n : conn'[r[k]] = "up" =>
            \A s \in Clients :
              Sent(r[k], s, IF s = tempClient /\ k >= j THEN read(s) - m ELSE read(s))'
      BY <2>1, <2>4, <2>5 DEF Forwarding
    <2>7. Forwarding(n, r, j, m)'
      BY <2>1, <2>3, <2>6 DEF Forwarding, Quiet
    <2> QED BY <2>7
  <1> QED BY <1>1, <1>2 DEF Relaying

LEMMA AcceptRelaying ==
  ASSUME Lists, Lists', Relaying, accept PROVE Relaying'
  <1>1. /\ UNCHANGED <<conn, got, said, flight>> /\ pc = "accept" /\ pc' = "scan"
    BY DEF accept, clientVars
  <1>2. \A s \in Clients : read(s)' = read(s)
    BY <1>1 DEF read
  <1>3. CASE Sock \in readfds
    <2> DEFINE c == Head(backlog)
    <2>1. /\ basefds' = Watch(c)
          /\ joined' = [joined EXCEPT ![c] = [s \in Clients |-> read(s)]]
      BY <1>3 DEF accept
    <2>2. backlog \in Seq(Clients) /\ backlog # <<>>
      BY <1>1, <1>3 DEF Lists, Typed, TypeOK
    <2>3. 1 \in 1..Len(backlog) /\ backlog[1] = c /\ c \in Clients
      BY <2>2, LenProperties, EmptySeq, HeadTailProperties
    <2>4. c \notin basefds /\ got[c] = <<>> /\ c # Sock
      BY <2>3, Distinct DEF Lists, Waiting
    <2> HIDE DEF c
    <2>5. /\ \A s \in Clients : joined'[c][s] = read(s)
          /\ \A d \in Clients : d # c => joined'[d] = joined[d]
      BY <2>1, <2>3 DEF Lists, Typed, TypeOK
    <2>6. Members' = Members \cup {c} /\ c \notin Members /\ Members \in SUBSET Clients
      BY <2>1, <2>4, MembersIn DEF Members, Watch, Lists
    <2> HIDE <2>1
    <2>7. JoinedRead'
      <3>1. ASSUME NEW d \in Members', NEW s \in Clients PROVE joined'[d][s] <= read(s)
        <4>1. CASE d = c
          BY <2>5, <4>1, Counts DEF Lists
        <4>2. CASE d # c
          BY <2>5, <2>6, <4>2 DEF Relaying, JoinedRead
        <4> QED BY <4>1, <4>2
      <3> QED BY <1>2, <3>1 DEF JoinedRead
    <2>8. ASSUME NEW d \in Members', conn'[d] = "up", NEW s \in Clients
          PROVE  Sent(d, s, read(s))'
      <3>1. CASE d = c
        <4>1. Holds(<<>>, s, read(s), read(s))
          BY Counts, HoldsNothing DEF Lists
        <4> QED BY <1>1, <1>2, <2>4, <2>5, <3>1, <4>1 DEF Sent
      <3>2. CASE d # c
        <4>1. Sent(d, s, read(s))
          BY <1>1, <2>6, <2>8, <3>2 DEF Relaying, AllSent
        <4> QED BY <1>1, <1>2, <2>5, <2>6, <3>2, <4>1 DEF Sent
      <3> QED BY <3>1, <3>2
    <2> QED BY <1>1, <2>7, <2>8 DEF Relaying, AllSent
  <1>4. CASE Sock \notin readfds
    <2>1. Quiet
      BY <1>1, <1>2, <1>4 DEF accept, Quiet, Members
    <2> QED BY <1>1, <2>1, QuietSent
  <1> QED BY <1>3, <1>4

(* What recv took is on its way to the first node.                           *)
LEMMA RecvRelaying ==
  ASSUME Lists, Lists', Relaying, recv PROVE Relaying'
  <1> DEFINE t == tempClient
  <1>1. /\ UNCHANGED <<next, tempClient, basefds, said, got, joined>>
        /\ pc = "scan" /\ pc' = "forward" /\ temp' = next[clientList] /\ t \in Clients
    BY RecvTakes DEF recv, listVars, fdVars, clientVars, FirstTemp, Lists
  <1>2. PICK m \in Nat :
          /\ read(t)' = read(t) + m /\ \A s \in Clients : s # t => read(s)' = read(s)
          /\ Text' = Saying(t, read(t), m)
          /\ \A c \in Clients : conn'[c] = "up" => conn[c] = "up"
    <2>1. CASE \E n \in 1..BufLen : n <= flight[t] /\ Taken(n) /\ UNCHANGED conn
      <3>1. PICK n \in 1..BufLen : n <= flight[t] /\ Taken(n) /\ UNCHANGED conn
        BY <2>1
      <3>2. /\ n \in Nat /\ BufLen \in Nat /\ read(t) \in Nat /\ flight[t] \in Nat
            /\ said[t] \in Nat /\ flight \in [Clients -> Nat]
        BY <1>1, Sizes, Counts DEF Lists, Typed
      <3>3. flight'[t] = flight[t] - n /\ \A s \in Clients : s # t => flight'[s] = flight[s]
        BY <1>1, <3>1, <3>2 DEF Taken
      <3>4. read(t)' = read(t) + n
        BY <1>1, <3>2, <3>3 DEF read
      <3>5. \A s \in Clients : s # t => read(s)' = read(s)
        BY <1>1, <3>3 DEF read
      <3> DEFINE text == Saying(t, read(t), n)
      <3>6. buf' = text \/ buf' = Append(text, Junk)
        BY <3>1 DEF Taken
      <3> HIDE DEF text
      <3>7. (IF buf' # <<>> /\ Last(buf') = Junk THEN Front(buf') ELSE buf') = text
        BY <1>1, <3>2, <3>6, TextTyped DEF text
      <3>8. Text' = text
        BY <3>7 DEF Text
      <3> QED BY <3>1, <3>2, <3>4, <3>5, <3>8 DEF text
    <2>2. CASE /\ conn' = [conn EXCEPT ![t] = "broken"] /\ UNCHANGED flight
               /\ buf' = <<>>
      <3>1. \A s \in Clients : read(s)' = read(s)
        BY <1>1, <2>2 DEF read
      <3>2. Text' = <<>> /\ Saying(t, read(t), 0) = <<>>
        BY <2>2 DEF Text, Saying
      <3>3. read(t)' = read(t) + 0
        BY <1>1, <3>1, Counts DEF Lists
      <3>4. \A c \in Clients : conn'[c] = "up" => conn[c] = "up"
        BY <1>1, <2>2 DEF Lists, Typed, TypeOK
      <3> QED BY <3>1, <3>2, <3>3, <3>4
    <2> QED BY <2>1, <2>2, RecvTakes DEF Lists
  <1>3. Members' = Members /\ Members \in SUBSET Clients
    BY <1>1, MembersIn DEF Members, Lists
  <1>4. \A s \in Clients : read(s) \in Nat
    BY Counts DEF Lists
  <1>5. \A c \in Members, s \in Clients : joined[c][s] <= read(s) /\ joined[c][s] \in Nat
    BY <1>3 DEF Relaying, JoinedRead, Lists, Typed, TypeOK
  <1>6. \A s \in Clients : read(s)' \in Nat /\ read(s) <= read(s)'
    <2> TAKE s \in Clients
    <2>1. CASE s = t
      BY <1>1, <1>2, <1>4, <2>1
    <2>2. CASE s # t
      BY <1>2, <1>4, <2>2
    <2> QED BY <2>1, <2>2
  <1>7. JoinedRead'
    <2>1. ASSUME NEW c \in Members, NEW s \in Clients PROVE joined[c][s] <= read(s)'
      BY <1>4, <1>5, <1>6
    <2> QED BY <1>1, <1>3, <2>1 DEF JoinedRead
  <1>8. PICK n, r : Chain(n, r, next, Members)
    BY DEF Lists, Ordered
  <1>9. 1 \in 1..(n + 1) /\ temp' = r[1]
    <2>1. n \in Nat /\ 0 \in 0..n /\ r[0] = clientList /\ r[0 + 1] = next[r[0]]
      BY <1>8 DEF Chain
    <2> QED BY <1>1, <2>1
  <1>10. m <= read(t)' /\ read(t)' - m = read(t)
    BY <1>1, <1>2, <1>4
  <1>11. ASSUME NEW k \in 1..n, conn'[r[k]] = "up", NEW s \in Clients
         PROVE  Sent(r[k], s, IF s = t /\ k >= 1 THEN read(s) - m ELSE read(s))'
    <2>1. r[k] \in Members /\ conn[r[k]] = "up" /\ k >= 1
      BY <1>2, <1>3, <1>8, <1>11 DEF Chain
    <2>2. Sent(r[k], s, read(s))
      BY <1>1, <2>1 DEF Relaying, AllSent
    <2>3. (IF s = t /\ k >= 1 THEN read(s)' - m ELSE read(s)') = read(s)
      <3>1. CASE s = t
        BY <1>1, <1>10, <2>1, <3>1 DEF read
      <3>2. CASE s # t
        BY <1>2, <3>2
      <3> QED BY <3>1, <3>2
    <2> QED BY <1>1, <2>2, <2>3 DEF Sent
  <1>12. Forwarding(n, r, 1, m)'
    <2>1. Chain(n, r, next', Members')
      BY <1>1, <1>3, <1>8
    <2>2. \A c \in Members' : joined'[c][t] <= read(t)' - m
      BY <1>1, <1>3, <1>5, <1>10
    <2> QED BY <1>1, <1>2, <1>9, <1>10, <1>11, <2>1, <2>2 DEF Forwarding
  <1> QED BY <1>1, <1>7, <1>12 DEF Relaying, AllSent

LEMMA ClientCloseRelaying ==
  ASSUME Lists, Lists', Relaying, clientClose PROVE Relaying'
  <1>1. /\ UNCHANGED <<pc, got, joined, said, flight>> /\ pc = "scan"
        /\ basefds' = Unwatch(tempClient)
        /\ conn' = [conn EXCEPT ![tempClient] = "closed"]
    BY DEF clientClose, Eof, clientVars
  <1>2. \A s \in Clients : read(s)' = read(s)
    BY <1>1 DEF read
  <1>3. Members' \subseteq Members /\ Members \in SUBSET Clients
    BY <1>1, MembersIn DEF Members, Unwatch, Lists
  <1>4. \A c \in Clients : conn'[c] = "up" => conn[c] = "up"
    BY <1>1 DEF Lists, Typed, TypeOK
  <1>5. JoinedRead'
    BY <1>1, <1>2, <1>3 DEF Relaying, JoinedRead
  <1>6. ASSUME NEW c \in Members', conn'[c] = "up", NEW s \in Clients
        PROVE  Sent(c, s, read(s))'
    <2>1. Sent(c, s, read(s))
      BY <1>1, <1>3, <1>4, <1>6 DEF Relaying, AllSent
    <2> QED BY <1>1, <1>2, <2>1 DEF Sent
  <1> QED BY <1>1, <1>5, <1>6 DEF Relaying, AllSent

(* From one node to the next: the j-th has what it should, or is not there.  *)
LEMMA ForwardingOn ==
  ASSUME Lists, Lists', NEW n, NEW r, NEW j, NEW m, Forwarding(n, r, j, m),
         JoinedRead, pc = "forward", pc' = "forward",
         NEW d \in Members, temp = d, temp' = next[d],
         UNCHANGED <<next, basefds, tempClient, buf, joined, said, flight>>,
         \A c \in Members : conn'[c] = "up" => conn[c] = "up",
         \A c \in Members : c # d => got'[c] = got[c],
         conn'[d] = "up" =>
           \A s \in Clients :
             Sent(d, s, IF s = tempClient THEN read(s) - m ELSE read(s))
             => Sent(d, s, read(s))'
  PROVE  Relaying'
  <1>1. Members' = Members /\ Text' = Text /\ \A s \in Clients : read(s)' = read(s)
    BY DEF Members, Text, read
  <1>2. tempClient \in Clients
    BY DEF Lists, Typed
  <1>3. JoinedRead' /\ AllSent'
    BY <1>1, MembersIn DEF JoinedRead, AllSent, Lists
  <1>4. n \in Nat /\ j \in 1..(n + 1) /\ d = r[j] /\ Chain(n, r, next, Members)
    BY DEF Forwarding, Chain
  <1>5. j \in 1..n /\ j + 1 \in 1..(n + 1)
    <2>1. r[n + 1] = Null /\ d # Null
      BY <1>4, MembersIn, Distinct DEF Chain, Lists
    <2> QED BY <1>4, <2>1
  <1>6. temp' = r[j + 1]
    <2>1. j \in 0..n
      BY <1>4, <1>5
    <2> QED BY <1>4, <2>1 DEF Chain
  <1>7. ASSUME NEW k \in 1..n, conn'[r[k]] = "up", NEW s \in Clients
        PROVE  Sent(r[k], s, IF s = tempClient /\ k >= j + 1 THEN read(s) - m ELSE read(s))'
    <2>1. r[k] \in Members /\ conn[r[k]] = "up" /\ k \in Nat /\ j \in Nat
      BY <1>4, <1>5, <1>7 DEF Chain
    <2>2. Sent(r[k], s, IF s = tempClient /\ k >= j THEN read(s) - m ELSE read(s))
      BY <2>1 DEF Forwarding
    <2>3. CASE k = j
      <3>1. Sent(d, s, IF s = tempClient THEN read(s) - m ELSE read(s))
        BY <1>4, <2>1, <2>2, <2>3
      <3>2. Sent(d, s, read(s))'
        BY <1>4, <1>7, <2>3, <3>1
      <3>3. r[k] = d /\ ~(k >= j + 1)
        BY <1>4, <2>1, <2>3
      <3> QED BY <3>2, <3>3
    <2>4. CASE k # j
      <3>1. r[k] # d
        BY <1>4, <1>5, <2>4 DEF Chain
      <3>2. got'[r[k]] = got[r[k]] /\ joined'[r[k]] = joined[r[k]]
        BY <2>1, <3>1
      <3>3. k >= j + 1 <=> k >= j
        BY <2>1, <2>4
      <3> QED BY <1>1, <2>2, <3>2, <3>3 DEF Sent
    <2> QED BY <2>3, <2>4
  <1>8. Forwarding(n, r, j + 1, m)'
    <2>1. Chain(n, r, next', Members')
      BY <1>1, <1>4
    <2>2. /\ m \in Nat /\ m <= read(tempClient)'
          /\ Text' = Saying(tempClient, read(tempClient)' - m, m)
          /\ \A c \in Members' : joined'[c][tempClient] <= read(tempClient)' - m
      BY <1>1, <1>2 DEF Forwarding
    <2> QED BY <1>5, <1>6, <1>7, <2>1, <2>2 DEF Forwarding
  <1> QED BY <1>3, <1>8 DEF Relaying

LEMMA SendRelaying ==
  ASSUME Lists, Lists', Relaying, send PROVE Relaying'
  <1> DEFINE t == tempClient
  <1>0. PICK d : d = temp
    OBVIOUS
  <1>1. /\ UNCHANGED <<next, tempClient, basefds, buf, said, flight, joined>>
        /\ pc = "forward" /\ pc' \in {"forward", "killed"} /\ d \in Clients /\ d # t
        /\ temp = d /\ temp' = next[d]
    BY <1>0 DEF send, listVars, fdVars
  <1>2. d \in Members /\ Members \in SUBSET Clients /\ t \in Clients
    BY <1>1, MembersIn, Distinct DEF Lists, ScanAt, Typed
  <1>3. PICK n, r, j, m : Forwarding(n, r, j, m)
    BY <1>1 DEF Relaying
  <1>4. \A s \in Clients : read(s) \in Nat /\ read(s)' = read(s)
    BY <1>1, Counts DEF Lists, read
  <1>5. JoinedRead
    BY DEF Relaying
  <1>6. CASE pc' = "killed"
    <2>1. JoinedRead'
      BY <1>1, <1>2, <1>4 DEF Relaying, JoinedRead, Members
    <2> QED BY <1>6, <2>1 DEF Relaying, AllSent
  <1>7. CASE /\ conn[d] = "up" /\ pc' = "forward" /\ UNCHANGED conn
             /\ got' = [got EXCEPT ![d] = @ \o Text]
    <2>1. got'[d] = got[d] \o Text /\ \A c \in Clients : c # d => got'[c] = got[c]
      BY <1>1, <1>7 DEF Lists, Typed, TypeOK
    <2> DEFINE a == read(t) - m
    <2>2. a \in Nat /\ m \in Nat /\ a + m = read(t) /\ Text = Saying(t, a, m)
      BY <1>2, <1>3, <1>4 DEF Forwarding
    <2>3. got[d] \in Told /\ \A s \in Clients : joined[d][s] \in Nat
      BY <1>1 DEF Lists, Typed, TypeOK, Told
    <2>4. joined[d][t] <= a
      BY <1>2, <1>3 DEF Forwarding
    <2> HIDE DEF a
    <2>5. ASSUME NEW s \in Clients,
                 Sent(d, s, IF s = t THEN a ELSE read(s))
          PROVE  Sent(d, s, read(s))'
      <3>1. CASE s = t
        <4>1. Holds(got[d], t, joined[d][t], a)
          BY <1>1, <2>5, <3>1 DEF Sent
        <4>2. Holds(got[d] \o Saying(t, a, m), t, joined[d][t], a + m)
          BY <1>2, <2>2, <2>3, <2>4, <4>1, HoldsMore
        <4>3. got'[d] = got[d] \o Saying(t, a, m)
          BY <1>1, <2>1, <2>2
        <4>4. read(s)' = a + m /\ joined'[d][s] = joined[d][t] /\ s # d
          BY <1>1, <1>4, <2>2, <3>1
        <4> QED BY <3>1, <4>2, <4>3, <4>4 DEF Sent
      <3>2. CASE s # t
        <4> DEFINE u == IF s = d THEN joined[d][s] ELSE read(s)
        <4>1. Holds(got[d], s, joined[d][s], u)
          BY <2>5, <3>2 DEF Sent
        <4>2. u \in Nat
          BY <1>4, <2>3
        <4> HIDE DEF u
        <4>3. Holds(got[d] \o Saying(t, a, m), s, joined[d][s], u)
          BY <1>2, <2>2, <2>3, <3>2, <4>1, <4>2, HoldsOther
        <4>4. got'[d] = got[d] \o Saying(t, a, m) /\ joined'[d][s] = joined[d][s]
          BY <1>1, <2>1, <2>2
        <4>5. u = IF s = d THEN joined'[d][s] ELSE read(s)'
          BY <1>1, <1>4 DEF u
        <4> QED BY <4>3, <4>4, <4>5 DEF Sent
      <3> QED BY <3>1, <3>2
    <2>6. \A c \in Members : c # d => got'[c] = got[c]
      BY <1>2, <2>1
    <2> HIDE <1>7, <2>1
    <2>7. /\ pc' = "forward"
          /\ \A c \in Members : conn'[c] = "up" => conn[c] = "up"
      BY <1>7
    <2>8. \A s \in Clients :
            Sent(d, s, IF s = tempClient THEN read(s) - m ELSE read(s))
            => Sent(d, s, read(s))'
      BY <2>5 DEF a
    <2> QED BY <1>1, <1>2, <1>3, <1>5, <2>6, <2>7, <2>8, ForwardingOn
  <1>8. CASE /\ UNCHANGED got /\ conn'[d] # "up" /\ pc' = "forward"
             /\ \A c \in Clients : conn'[c] = "up" => conn[c] = "up"
    BY <1>1, <1>2, <1>3, <1>5, <1>8, ForwardingOn
  <1>9. \/ /\ conn[d] = "up" /\ UNCHANGED <<pc, conn>>
           /\ got' = [got EXCEPT ![d] = @ \o Text]
        \/ /\ conn[d] # "up" /\ UNCHANGED got
           /\ UNCHANGED conn \/ conn' = [conn EXCEPT ![d] = "broken"]
    BY <1>1 DEF send
  <1>10. ASSUME conn[d] # "up", UNCHANGED conn \/ conn' = [conn EXCEPT ![d] = "broken"]
         PROVE  conn'[d] # "up" /\ \A c \in Clients : conn'[c] = "up" => conn[c] = "up"
    BY <1>1, <1>10 DEF Lists, Typed, TypeOK
  <1> QED BY <1>1, <1>6, <1>7, <1>8, <1>9, <1>10

LEMMA SkipSenderRelaying ==
  ASSUME Lists, Lists', Relaying, SkipSender PROVE Relaying'
  <1>0. PICK d : d = temp
    OBVIOUS
  <1>1. /\ UNCHANGED <<next, tempClient, basefds, buf, said, flight, joined, got, conn, pc>>
        /\ pc = "forward" /\ temp = d /\ d = tempClient /\ temp' = next[d]
    BY <1>0 DEF SkipSender, listVars, fdVars, clientVars
  <1>2. d \in Members
    BY <1>1, ScanMember DEF Lists, Typed
  <1>3. PICK n, r, j, m : Forwarding(n, r, j, m)
    BY <1>1 DEF Relaying
  <1>4. ASSUME NEW s \in Clients,
               Sent(d, s, IF s = tempClient THEN read(s) - m ELSE read(s))
        PROVE  Sent(d, s, read(s))'
    <2>1. Holds(got[d], s, joined[d][s],
                IF s = d THEN joined[d][s] ELSE read(s))
      <3>1. Holds(got[d], s, joined[d][s],
                  IF s = d THEN joined[d][s]
                           ELSE (IF s = tempClient THEN read(s) - m ELSE read(s)))
        BY <1>4 DEF Sent
      <3>2. d = tempClient
        BY <1>1
      <3>3. CASE s = d
        BY <3>1, <3>3
      <3>4. CASE s # d
        BY <3>1, <3>2, <3>4
      <3> QED BY <3>3, <3>4
    <2>2. read(s)' = read(s)
      BY <1>1 DEF read
    <2>3. Sent(d, s, read(s)) /\ got'[d] = got[d] /\ joined'[d] = joined[d]
      BY <1>1, <2>1 DEF Sent
    <2>4. Holds(got'[d], s, joined'[d][s],
                IF s = d THEN joined'[d][s] ELSE read(s)')
      BY <2>1, <2>2, <2>3
    <2> QED BY <2>4 DEF Sent
  <1>5. JoinedRead /\ pc' = "forward"
    BY <1>1 DEF Relaying
  <1>6. /\ \A c \in Members : conn'[c] = "up" => conn[c] = "up"
        /\ \A c \in Members : c # d => got'[c] = got[c]
    BY <1>1
  <1> QED BY <1>1, <1>2, <1>3, <1>4, <1>5, <1>6, ForwardingOn

(* At the end of the list every node is behind.                              *)
LEMMA ForwardEndRelaying ==
  ASSUME Lists, Lists', Relaying, ForwardEnd PROVE Relaying'
  <1>1. /\ UNCHANGED <<next, basefds, said, flight, joined, got, conn>>
        /\ pc = "forward" /\ temp = Null /\ pc' = "scan"
    BY DEF ForwardEnd, fdVars, clientVars
  <1>2. PICK n, r, j, m : Forwarding(n, r, j, m)
    BY <1>1 DEF Relaying
  <1>3. n \in Nat /\ j = n + 1 /\ Chain(n, r, next, Members)
    <2>1. j \notin 1..n
      BY <1>1, <1>2, MembersIn, Distinct DEF Forwarding, Chain, Lists
    <2>2. j \in 1..(n + 1) /\ n \in Nat /\ Chain(n, r, next, Members)
      BY <1>2 DEF Forwarding, Chain
    <2> QED BY <2>1, <2>2
  <1>4. Members' = Members /\ \A s \in Clients : read(s)' = read(s)
    BY <1>1 DEF Members, read
  <1>5. JoinedRead'
    BY <1>1, <1>4 DEF Relaying, JoinedRead
  <1>6. ASSUME NEW c \in Members, conn[c] = "up", NEW s \in Clients
        PROVE  Sent(c, s, read(s))
    <2>1. PICK k \in 1..n : r[k] = c
      BY <1>3 DEF Chain
    <2>2. ~(k >= j)
      BY <1>3
    <2>3. Sent(r[k], s, IF s = tempClient /\ k >= j THEN read(s) - m ELSE read(s))
      BY <1>2, <1>6, <2>1 DEF Forwarding
    <2> QED BY <2>1, <2>2, <2>3
  <1>7. \A c \in Members, s \in Clients : Sent(c, s, read(s)) => Sent(c, s, read(s))'
    BY <1>1, <1>4 DEF Sent
  <1>8. AllSent'
    BY <1>1, <1>4, <1>6, <1>7 DEF AllSent
  <1> QED BY <1>1, <1>5, <1>8 DEF Relaying

LEMMA ClientRelaying ==
  ASSUME Lists, Lists', Relaying, NEW c \in Clients, Client(c) PROVE Relaying'
  <1>1. /\ UNCHANGED <<pc, next, basefds, tempClient, temp, buf, got, joined>>
    BY DEF Client, Connect, Type, ClientSend, ClientRecv, Leave, listVars, fdVars
  <1>2. \A s \in Clients : read(s)' = read(s)
    <2>1. CASE ClientSend(c)
      <3>1. /\ said' = [said EXCEPT ![c] = said[c] + 1]
            /\ flight' = [flight EXCEPT ![c] = flight[c] + 1]
        BY <2>1 DEF ClientSend
      <3>2. said \in [Clients -> Nat] /\ flight \in [Clients -> Nat]
        BY DEF Lists, Typed, TypeOK
      <3> TAKE s \in Clients
      <3>3. CASE s = c
        <4>1. said'[c] = said[c] + 1 /\ flight'[c] = flight[c] + 1
              /\ said[c] \in Nat /\ flight[c] \in Nat
          BY <3>1, <3>2
        <4>2. said'[c] - flight'[c] = said[c] - flight[c]
          BY <4>1
        <4> QED BY <3>3, <4>2 DEF read
      <3>4. CASE s # c
        BY <3>1, <3>2, <3>4 DEF read
      <3> QED BY <3>3, <3>4
    <2>2. CASE UNCHANGED <<said, flight>>
      BY <2>2 DEF read
    <2> QED BY <2>1, <2>2 DEF Client, Connect, Type, ClientRecv, Leave
  <1>3. \A d \in Members : conn'[d] = "up" => conn[d] = "up"
    <2>1. CASE Connect(c)
      <3>1. c \notin Members
        BY <2>1 DEF Connect, Lists, Waiting, Members
      <3>2. conn' = [conn EXCEPT ![c] = "up"]
        BY <2>1 DEF Connect
      <3> QED BY <3>1, <3>2, MembersIn DEF Lists, Typed, TypeOK
    <2>2. CASE Leave(c)
      <3>1. \E w \in {"reset", "fin"} : conn' = [conn EXCEPT ![c] = w]
        BY <2>2 DEF Leave
      <3> QED BY <3>1, MembersIn DEF Lists, Typed, TypeOK
    <2>3. CASE UNCHANGED conn
      BY <2>3
    <2> QED BY <2>1, <2>2, <2>3 DEF Client, Type, ClientSend, ClientRecv
  <1>4. Quiet
    BY <1>1, <1>2, <1>3 DEF Quiet, Members
  <1>5. CASE pc \in {"select", "accept", "scan"}
    BY <1>1, <1>4, <1>5, QuietSent
  <1>6. CASE pc \notin {"select", "accept", "scan"}
    BY <1>1, <1>4, <1>6, QuietForwarding
  <1> QED BY <1>5, <1>6

LEMMA NextRoom == RoomInv /\ [Next]_vars => RoomInv'
  <1> SUFFICES ASSUME RoomInv, [Next]_vars PROVE RoomInv'
    OBVIOUS
  <1>1. Lists /\ Lists' /\ Relaying
    BY NextLists DEF RoomInv
  <1>2. CASE select \/ ScanEnd \/ ScanSkip
    <2>1. /\ UNCHANGED <<next, basefds, got, joined, said, flight, conn>>
          /\ pc \in {"select", "accept", "scan"} /\ pc' \in {"select", "accept", "scan"}
      BY <1>2 DEF select, ScanEnd, ScanSkip, listVars, fdVars, clientVars
    <2>2. Quiet
      BY <2>1 DEF Quiet, Members, read
    <2> QED BY <1>1, <2>1, <2>2, QuietSent DEF RoomInv
  <1>3. CASE UNCHANGED vars
    <2>1. UNCHANGED <<next, basefds, got, joined, said, flight, conn, pc, tempClient, temp, buf>>
      BY <1>3 DEF vars, listVars, fdVars, clientVars
    <2>2. Quiet
      BY <2>1 DEF Quiet, Members, read
    <2>3. CASE pc \in {"select", "accept", "scan"}
      BY <1>1, <2>1, <2>2, <2>3, QuietSent DEF RoomInv
    <2>4. CASE pc \notin {"select", "accept", "scan"}
      BY <1>1, <2>1, <2>2, <2>4, QuietForwarding DEF RoomInv
    <2> QED BY <2>3, <2>4
  <1>4. accept \/ recv \/ clientClose \/ send \/ SkipSender \/ ForwardEnd
        \/ (\E c \in Clients : Client(c)) => Relaying'
    BY <1>1, AcceptRelaying, RecvRelaying, ClientCloseRelaying, SendRelaying,
       SkipSenderRelaying, ForwardEndRelaying, ClientRelaying
  <1> QED BY <1>1, <1>2, <1>3, <1>4 DEF Next, Server, RoomInv

(* Back at select, every member that is there has been sent all that each    *)
(* other client said and the server read since it joined, once and in order, *)
(* and nothing of its own: for any number of clients, whatever they say, and *)
(* every size of the buffers.                                                *)
THEOREM RoomRelays == Spec => []Relayed
  <1>1. Init => RoomInv
    BY InitLists, InitRelaying DEF RoomInv
  <1>2. RoomInv => Relayed
    BY DEF RoomInv, Relaying, AllSent, Sent, Members, Relayed
  <1> QED BY <1>1, <1>2, NextRoom, PTL DEF Spec
=============================================================================
