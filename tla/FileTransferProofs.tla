-------------------------- MODULE FileTransferProofs --------------------------
(* Proofs about one file transfer for every file, buffer size and width of a *)
(* size_t, and for every way the stream can be cut.                          *)
EXTENDS FileTransfer, Counting

-----------------------------------------------------------------------------
(* Sequences of bytes.                                                       *)

Drop(s, n) == SubSeq(s, n + 1, Len(s))

LEMMA DropIs ==
  ASSUME NEW S, NEW s \in Seq(S), NEW n \in 0..Len(s)
  PROVE  /\ Drop(s, n) \in Seq(S)
         /\ Len(Drop(s, n)) = Len(s) - n
         /\ \A i \in 1..(Len(s) - n) : Drop(s, n)[i] = s[n + i]
  <1>1. Len(s) \in Nat /\ n + 1 \in Int /\ Len(s) \in Int
    BY LenProperties
  <1>2. \A i \in (n + 1)..Len(s) : s[i] \in S
    BY <1>1, ElementOfSeq
  <1>3. /\ SubSeq(s, n + 1, Len(s)) \in Seq(S)
        /\ Len(SubSeq(s, n + 1, Len(s))) =
             IF n + 1 <= Len(s) THEN Len(s) - (n + 1) + 1 ELSE 0
        /\ \A i \in 1..(Len(s) - (n + 1) + 1) :
             SubSeq(s, n + 1, Len(s))[i] = s[(n + 1) + i - 1]
    BY <1>1, <1>2, SubSeqProperties
  <1> QED BY <1>1, <1>3 DEF Drop

(* Dropping nothing, and dropping twice.                                     *)
LEMMA DropNone ==
  ASSUME NEW S, NEW s \in Seq(S)
  PROVE  Drop(s, 0) = s
  BY SubSeqFull, LenProperties DEF Drop

LEMMA DropMore ==
  ASSUME NEW S, NEW s \in Seq(S), NEW m \in 0..Len(s), NEW n \in 0..(Len(s) - m)
  PROVE  Drop(Drop(s, m), n) = Drop(s, m + n)
  <1> DEFINE t == Drop(s, m)
             l == Drop(t, n)
             r == Drop(s, m + n)
  <1>1. Len(s) \in Nat /\ m + n \in 0..Len(s)
    BY LenProperties
  <1>2. /\ t \in Seq(S) /\ Len(t) = Len(s) - m
        /\ \A i \in 1..(Len(s) - m) : t[i] = s[m + i]
    BY DropIs
  <1>3. /\ r \in Seq(S) /\ Len(r) = Len(s) - (m + n)
        /\ \A i \in 1..(Len(s) - (m + n)) : r[i] = s[(m + n) + i]
    BY <1>1, DropIs
  <1> HIDE DEF t, r
  <1>4. n \in 0..Len(t)
    BY <1>2
  <1>5. /\ l \in Seq(S) /\ Len(l) = Len(t) - n
        /\ \A i \in 1..(Len(t) - n) : l[i] = t[n + i]
    BY <1>2, <1>4, DropIs, SMTT(30)
  <1> HIDE DEF l
  <1>6. ASSUME NEW i \in 1..Len(l) PROVE l[i] = r[i]
    <2>1. n + i \in 1..(Len(s) - m) /\ i \in 1..(Len(t) - n)
      BY <1>1, <1>2, <1>5
    <2>2. l[i] = s[m + (n + i)]
      BY <1>2, <1>5, <2>1
    <2>3. i \in 1..(Len(s) - (m + n))
      BY <1>1, <1>2, <2>1
    <2>4. r[i] = s[(m + n) + i]
      BY <1>3, <2>3
    <2>5. m + (n + i) = (m + n) + i
      BY <2>1
    <2> QED BY <2>2, <2>4, <2>5
  <1>7. Len(l) = Len(r)
    BY <1>1, <1>2, <1>3, <1>5
  <1>8. l = r
    BY <1>3, <1>5, <1>6, <1>7, SeqEqual
  <1> QED BY <1>8 DEF l, r, t

(* When two ways to cut a stream in two agree, so do the bytes both have in  *)
(* front, and what is left after n of those.                                 *)
RestAlike(w, s, c, d, n) == Drop(w, n) \o s = Drop(c, n) \o d

LEMMA Front ==
  ASSUME NEW S, NEW w \in Seq(S), NEW s \in Seq(S), NEW c \in Seq(S),
         NEW d \in Seq(S), w \o s = c \o d,
         NEW n \in 0..Len(w), n <= Len(c)
  PROVE  /\ \A k \in 1..n : w[k] = c[k]
         /\ RestAlike(w, s, c, d, n)
  <1>1. Len(w) \in Nat /\ Len(s) \in Nat /\ Len(c) \in Nat /\ Len(d) \in Nat
        /\ n \in 0..Len(c)
    BY LenProperties
  <1>2. /\ w \o s \in Seq(S) /\ Len(w \o s) = Len(w) + Len(s)
        /\ \A i \in 1..(Len(w) + Len(s)) :
             (w \o s)[i] = IF i <= Len(w) THEN w[i] ELSE s[i - Len(w)]
    BY ConcatProperties
  <1>3. /\ Len(c \o d) = Len(c) + Len(d)
        /\ \A i \in 1..(Len(c) + Len(d)) :
             (c \o d)[i] = IF i <= Len(c) THEN c[i] ELSE d[i - Len(c)]
    BY ConcatProperties
  <1> DEFINE u == Drop(w, n)
             v == Drop(c, n)
  <1>4. /\ u \in Seq(S) /\ Len(u) = Len(w) - n
        /\ \A i \in 1..(Len(w) - n) : u[i] = w[n + i]
    BY DropIs
  <1>5. /\ v \in Seq(S) /\ Len(v) = Len(c) - n
        /\ \A i \in 1..(Len(c) - n) : v[i] = c[n + i]
    BY <1>1, DropIs
  <1> HIDE DEF u, v
  <1>6. /\ u \o s \in Seq(S) /\ Len(u \o s) = Len(u) + Len(s)
        /\ \A i \in 1..(Len(u) + Len(s)) :
             (u \o s)[i] = IF i <= Len(u) THEN u[i] ELSE s[i - Len(u)]
    BY <1>4, ConcatProperties
  <1>7. /\ v \o d \in Seq(S) /\ Len(v \o d) = Len(v) + Len(d)
        /\ \A i \in 1..(Len(v) + Len(d)) :
             (v \o d)[i] = IF i <= Len(v) THEN v[i] ELSE d[i - Len(v)]
    BY <1>5, ConcatProperties
  <1>8. Len(w) + Len(s) = Len(c) + Len(d)
    BY <1>2, <1>3
  <1>9. \A k \in 1..n : w[k] = c[k]
    BY <1>1, <1>2, <1>3, SMTT(30)
  <1>10. ASSUME NEW i \in 1..Len(u \o s) PROVE (u \o s)[i] = (v \o d)[i]
    <2>0. /\ i \in 1..(Len(u) + Len(s)) /\ n + i \in 1..(Len(w) + Len(s))
          /\ i \in 1..(Len(v) + Len(d)) /\ n + i \in 1..(Len(c) + Len(d))
      BY <1>1, <1>4, <1>5, <1>6, <1>8
    <2>1. (u \o s)[i] = (w \o s)[n + i]
      <3>1. (u \o s)[i] = IF i <= Len(u) THEN u[i] ELSE s[i - Len(u)]
        BY <1>6, <2>0
      <3>2. (w \o s)[n + i] = IF n + i <= Len(w) THEN w[n + i]
                                                ELSE s[n + i - Len(w)]
        BY <1>2, <2>0
      <3>3. i <= Len(u) => u[i] = w[n + i]
        BY <1>1, <1>4, <2>0
      <3>4. (i <= Len(u) <=> n + i <= Len(w)) /\ i - Len(u) = n + i - Len(w)
        BY <1>1, <1>4, <2>0
      <3> QED BY <3>1, <3>2, <3>3, <3>4, SMTT(30)
    <2>2. (v \o d)[i] = (c \o d)[n + i]
      <3>1. (v \o d)[i] = IF i <= Len(v) THEN v[i] ELSE d[i - Len(v)]
        BY <1>7, <2>0
      <3>2. (c \o d)[n + i] = IF n + i <= Len(c) THEN c[n + i]
                                                ELSE d[n + i - Len(c)]
        BY <1>3, <2>0
      <3>3. i <= Len(v) => v[i] = c[n + i]
        BY <1>1, <1>5, <2>0
      <3>4. (i <= Len(v) <=> n + i <= Len(c)) /\ i - Len(v) = n + i - Len(c)
        BY <1>1, <1>5, <2>0
      <3>5. CASE i <= Len(v)
        BY <3>1, <3>2, <3>3, <3>4, <3>5
      <3>6. CASE ~(i <= Len(v))
        BY <3>1, <3>2, <3>4, <3>6
      <3> QED BY <3>5, <3>6
    <2> QED BY <2>1, <2>2
  <1>11. Len(u \o s) = Len(v \o d)
    BY <1>1, <1>4, <1>5, <1>6, <1>7, <1>8
  <1>12. u \o s = v \o d
    BY <1>6, <1>7, <1>10, <1>11, SeqEqual
  <1> QED BY <1>9, <1>12 DEF RestAlike, u, v

-----------------------------------------------------------------------------
(* A size_t and its bytes.                                                   *)

Shift == [m \in Nat |-> m \div 256]

LEMMA ShiftedIs ==
  ASSUME NEW n \in Nat
  PROVE  /\ Shifted(n) \in [0..SizeT -> Nat]
         /\ Shifted(n)[0] = n
         /\ \A k \in 1..SizeT : Shifted(n)[k] = Shifted(n)[k - 1] \div 256
  <1>0. SizeT \in Nat
    BY TransferAssumption
  <1> DEFINE Is(r) == r = [k \in 0..SizeT |-> IF k = 0 THEN n ELSE r[k - 1] \div 256]
             s == CHOOSE r : Is(r)
  <1>1. Shift \in [Nat -> Nat]
    BY DEF Shift
  <1>2. PICK r \in [0..SizeT -> Nat] : IsIteration(r, SizeT, n, Shift)
    BY <1>0, <1>1, Iterates
  <1>3. \A k \in 0..SizeT : r[k] = IF k = 0 THEN n ELSE r[k - 1] \div 256
    <2> TAKE k \in 0..SizeT
    <2>1. r[k] = IF k = 0 THEN n ELSE Shift[r[k - 1]]
      BY <1>2 DEF IsIteration
    <2>2. k # 0 => k - 1 \in 0..SizeT
      BY <1>0
    <2>3. k # 0 => r[k - 1] \in Nat
      BY <2>2
    <2>4. k # 0 => Shift[r[k - 1]] = r[k - 1] \div 256
      BY <2>3 DEF Shift
    <2> QED BY <2>1, <2>4
  <1>4. r = [k \in 0..SizeT |-> IF k = 0 THEN n ELSE r[k - 1] \div 256]
    BY <1>3
  <1>5. Is(s)
    BY <1>4
  <1>6. Shifted(n) = s
    BY DEF Shifted
  <1> HIDE DEF s
  <1>7. /\ s = [k \in 0..SizeT |-> s[k]]
        /\ \A k \in 0..SizeT : s[k] = IF k = 0 THEN n ELSE s[k - 1] \div 256
    BY <1>5
  <1>8. s \in [0..SizeT -> Nat]
    <2> DEFINE T == {j \in Nat : j <= SizeT => s[j] \in Nat}
    <2>1. 0 \in T
      BY <1>0, <1>7
    <2>2. ASSUME NEW j \in T PROVE j + 1 \in T
      <3>1. CASE j + 1 <= SizeT
        <4>1. j \in Nat /\ s[j] \in Nat /\ j + 1 \in 0..SizeT
          BY <1>0, <3>1
        <4>2. s[j + 1] = s[j] \div 256
          <5>1. s[j + 1] = IF j + 1 = 0 THEN n ELSE s[(j + 1) - 1] \div 256
            BY <1>7, <4>1
          <5>2. j + 1 # 0 /\ (j + 1) - 1 = j
            BY <4>1
          <5> QED BY <5>1, <5>2
        <4> QED BY <4>1, <4>2
      <3> QED BY <3>1
    <2>3. T \subseteq Nat
      OBVIOUS
    <2> HIDE DEF T
    <2>4. T = Nat
      BY <2>1, <2>2, <2>3, SetInduction
    <2>5. \A k \in 0..SizeT : s[k] \in Nat
      BY <1>0, <2>4 DEF T
    <2> QED BY <1>7, <2>5
  <1>9. /\ s[0] = n
        /\ \A k \in 1..SizeT : s[k] = s[k - 1] \div 256
    <2>1. 0 \in 0..SizeT /\ \A k \in 1..SizeT : k \in 0..SizeT /\ k # 0
      BY <1>0
    <2> QED BY <1>7, <2>1
  <1> QED BY <1>6, <1>8, <1>9

LEMMA BytesAre ==
  ASSUME NEW n \in Nat
  PROVE  /\ Bytes(n) \in Seq(Byte)
         /\ Len(Bytes(n)) = SizeT
         /\ \A k \in 1..SizeT : Bytes(n)[k] = Shifted(n)[k - 1] % 256
  <1>0. SizeT \in Nat
    BY TransferAssumption
  <1>1. \A k \in 1..SizeT : Shifted(n)[k - 1] % 256 \in Byte
    <2> TAKE k \in 1..SizeT
    <2>1. Shifted(n)[k - 1] \in Nat
      BY <1>0, ShiftedIs
    <2> QED BY <2>1 DEF Byte
  <1>2. Bytes(n) \in [1..SizeT -> Byte]
    BY <1>1 DEF Bytes
  <1>3. Bytes(n) \in Seq(Byte)
    BY <1>0, <1>2, SeqDef
  <1> QED BY <1>0, <1>2, <1>3 DEF Bytes

(* Reading a size_t adds up its bytes, from the most significant one.        *)
Adds(v, at, from) ==
  /\ v[SizeT] = 0
  /\ \A k \in from..(SizeT - 1) : v[k] = mem[at + k] + 256 * v[k + 1]

LEMMA ValueIs ==
  ASSUME mem \in [Cells -> Byte], NEW at \in {0, SizeT}
  PROVE  \E v : /\ Value(at) = v[0] /\ Adds(v, at, 0)
                /\ \A k \in 0..SizeT : v[k] \in Nat
  <1>0. SizeT \in Nat \ {0} /\ BufSize \in Nat /\ BufSize >= SizeT
    BY TransferAssumption
  <1>1. \A k \in 0..(SizeT - 1) : mem[at + k] \in Nat
    <2> TAKE k \in 0..(SizeT - 1)
    <2>1. at + k \in Cells
      BY <1>0 DEF Cells
    <2> QED BY <2>1 DEF Byte
  <1> DEFINE Is(v) == v = [k \in 0..SizeT |->
                             IF k = SizeT THEN 0 ELSE mem[at + k] + 256 * v[k + 1]]
             w == CHOOSE v : Is(v)
  <1>2. \E v : Is(v)
    <2> DEFINE Good(j) == \E v \in [(SizeT - j)..SizeT -> Nat] : Adds(v, at, SizeT - j)
               T == {j \in Nat : j <= SizeT => Good(j)}
    <2>1. 0 \in T
      <3> DEFINE v == [k \in (SizeT - 0)..SizeT |-> 0]
      <3>1. v \in [(SizeT - 0)..SizeT -> Nat] /\ Adds(v, at, SizeT - 0)
        BY <1>0 DEF Adds
      <3> HIDE DEF v
      <3>2. Good(0)
        BY <3>1
      <3> HIDE DEF Good
      <3> QED BY <3>2
    <2>2. ASSUME NEW j \in T PROVE j + 1 \in T
      <3>1. SUFFICES ASSUME j + 1 <= SizeT PROVE Good(j + 1)
        <4> HIDE DEF Good
        <4> QED OBVIOUS
      <3>2. j \in Nat /\ j <= SizeT /\ Good(j)
        <4> HIDE DEF Good
        <4>1. j \in Nat /\ (j <= SizeT => Good(j))
          OBVIOUS
        <4> QED BY <1>0, <3>1, <4>1
      <3>3. PICK u \in [(SizeT - j)..SizeT -> Nat] : Adds(u, at, SizeT - j)
        BY <3>2
      <3> DEFINE m == SizeT - (j + 1)
                 v == [k \in m..SizeT |->
                         IF k = m THEN mem[at + k] + 256 * u[k + 1] ELSE u[k]]
      <3>4. m \in 0..(SizeT - 1) /\ m + 1 = SizeT - j
        BY <1>0, <3>1, <3>2
      <3> HIDE DEF m
      <3>5. u[m + 1] \in Nat /\ mem[at + m] \in Nat
        BY <1>0, <1>1, <3>4
      <3>6. v \in [m..SizeT -> Nat]
        <4>1. ASSUME NEW k \in m..SizeT, k # m PROVE u[k] \in Nat
          <5>1. k \in (SizeT - j)..SizeT
            BY <1>0, <3>4, <4>1
          <5> QED BY <5>1
        <4> QED BY <3>5, <4>1, SMTT(30)
      <3>7. v[SizeT] = 0
        BY <1>0, <3>3, <3>4 DEF Adds
      <3>8. ASSUME NEW k \in m..(SizeT - 1)
            PROVE  v[k] = mem[at + k] + 256 * v[k + 1]
        <4>1. k \in m..SizeT /\ k + 1 \in m..SizeT /\ k + 1 # m
          BY <1>0, <3>4
        <4>2. v[k + 1] = u[k + 1]
          BY <4>1
        <4>3. CASE k = m
          BY <4>1, <4>2, <4>3
        <4>4. CASE k # m
          <5>1. k \in (SizeT - j)..(SizeT - 1)
            BY <1>0, <3>4, <4>4
          <5>2. u[k] = mem[at + k] + 256 * u[k + 1]
            BY <3>3, <5>1 DEF Adds
          <5> QED BY <4>1, <4>2, <4>4, <5>2
        <4> QED BY <4>3, <4>4
      <3> HIDE DEF v
      <3>9. v \in [(SizeT - (j + 1))..SizeT -> Nat] /\ Adds(v, at, SizeT - (j + 1))
        BY <3>6, <3>7, <3>8 DEF Adds, m
      <3> QED BY <3>9
    <2>3. T \subseteq Nat
      OBVIOUS
    <2> HIDE DEF T
    <2>4. T = Nat
      BY <2>1, <2>2, <2>3, SetInduction
    <2>5. Good(SizeT)
      <3> HIDE DEF Good
      <3> QED BY <1>0, <2>4 DEF T
    <2>6. SizeT - SizeT = 0
      BY <1>0
    <2>7. PICK v \in [0..SizeT -> Nat] : Adds(v, at, 0)
      BY <2>5, <2>6
    <2>8. \A k \in 0..SizeT :
            v[k] = IF k = SizeT THEN 0 ELSE mem[at + k] + 256 * v[k + 1]
      <3> TAKE k \in 0..SizeT
      <3>1. k # SizeT => k \in 0..(SizeT - 1)
        BY <1>0
      <3> QED BY <2>7, <3>1 DEF Adds
    <2>9. v = [k \in 0..SizeT |->
                 IF k = SizeT THEN 0 ELSE mem[at + k] + 256 * v[k + 1]]
      BY <2>8
    <2> QED BY <2>9
  <1>3. Is(w)
    BY <1>2
  <1>4. Value(at) = w[0]
    BY DEF Value
  <1> HIDE DEF w
  <1>5. \A k \in 0..SizeT :
          w[k] = IF k = SizeT THEN 0 ELSE mem[at + k] + 256 * w[k + 1]
    BY <1>3
  <1>6. Adds(w, at, 0)
    <2>1. \A k \in 0..(SizeT - 1) : k \in 0..SizeT /\ k # SizeT
      BY <1>0
    <2> QED BY <1>0, <1>5, <2>1 DEF Adds
  <1>7. \A k \in 0..SizeT : w[k] \in Nat
    <2> DEFINE T == {j \in Nat : j <= SizeT => w[SizeT - j] \in Nat}
    <2>1. 0 \in T
      BY <1>0, <1>6 DEF Adds
    <2>2. ASSUME NEW j \in T PROVE j + 1 \in T
      <3>1. SUFFICES ASSUME j + 1 <= SizeT PROVE w[SizeT - (j + 1)] \in Nat
        OBVIOUS
      <3>2. /\ j \in Nat /\ w[SizeT - j] \in Nat
            /\ SizeT - (j + 1) \in 0..(SizeT - 1)
            /\ (SizeT - (j + 1)) + 1 = SizeT - j
        BY <1>0, <3>1
      <3>3. w[SizeT - (j + 1)] = mem[at + (SizeT - (j + 1))] + 256 * w[SizeT - j]
        BY <1>6, <3>2 DEF Adds
      <3> QED BY <1>1, <3>2, <3>3
    <2>3. T \subseteq Nat
      OBVIOUS
    <2> HIDE DEF T
    <2>4. T = Nat
      BY <2>1, <2>2, <2>3, SetInduction
    <2> TAKE k \in 0..SizeT
    <2>5. SizeT - k \in Nat /\ SizeT - k <= SizeT /\ SizeT - (SizeT - k) = k
      BY <1>0
    <2> QED BY <2>4, <2>5 DEF T
  <1> QED BY <1>4, <1>6, <1>7

LEMMA ValueNat ==
  ASSUME mem \in [Cells -> Byte], NEW at \in {0, SizeT}
  PROVE  Value(at) \in Nat
  BY ValueIs, TransferAssumption

(* What was written as bytes is read back, when a size_t can hold it.        *)
LEMMA ValueOfBytes ==
  ASSUME mem \in [Cells -> Byte], NEW at \in {0, SizeT},
         NEW n \in Nat, Fits(n),
         \A k \in 0..(SizeT - 1) : mem[at + k] = Bytes(n)[k + 1]
  PROVE  Value(at) = n
  <1>0. SizeT \in Nat \ {0}
    BY TransferAssumption
  <1> DEFINE s == Shifted(n)
  <1>1. /\ s \in [0..SizeT -> Nat] /\ s[0] = n /\ s[SizeT] = 0
        /\ \A k \in 1..SizeT : s[k] = s[k - 1] \div 256
    BY ShiftedIs DEF Fits
  <1>2. \A k \in 1..SizeT : Bytes(n)[k] = s[k - 1] % 256
    BY BytesAre
  <1> HIDE DEF s
  <1>3. PICK v : Value(at) = v[0] /\ Adds(v, at, 0)
    BY ValueIs
  <1> DEFINE T == {j \in Nat : j <= SizeT => v[SizeT - j] = s[SizeT - j]}
  <1>4. 0 \in T
    BY <1>0, <1>1, <1>3 DEF Adds
  <1>5. ASSUME NEW j \in T PROVE j + 1 \in T
    <2>1. SUFFICES ASSUME j + 1 <= SizeT
                   PROVE  v[SizeT - (j + 1)] = s[SizeT - (j + 1)]
      OBVIOUS
    <2> DEFINE k == SizeT - (j + 1)
    <2>2. /\ j \in Nat /\ v[SizeT - j] = s[SizeT - j]
          /\ k \in 0..(SizeT - 1) /\ k + 1 = SizeT - j
          /\ k + 1 \in 1..SizeT /\ (k + 1) - 1 = k
      BY <1>0, <2>1
    <2> HIDE DEF k
    <2>3. v[k] = mem[at + k] + 256 * s[k + 1]
      BY <1>3, <2>2 DEF Adds
    <2>4. mem[at + k] = s[k] % 256 /\ s[k + 1] = s[k] \div 256
      BY <1>1, <1>2, <2>2
    <2>5. s[k] \in Nat
      BY <1>0, <1>1, <2>2
    <2>6. s[k] = (s[k] % 256) + (256 * (s[k] \div 256))
      BY <2>5
    <2>7. v[k] = s[k]
      BY <2>3, <2>4, <2>6
    <2> QED BY <2>7 DEF k
  <1>6. T \subseteq Nat
    OBVIOUS
  <1> HIDE DEF T
  <1>7. SizeT \in T
    BY <1>0, <1>4, <1>5, <1>6, SetInduction
  <1>8. SizeT - SizeT = 0
    BY <1>0
  <1> QED BY <1>0, <1>1, <1>3, <1>7, <1>8 DEF T

-----------------------------------------------------------------------------
(* The stream.                                                               *)

ChunkOf(f, at) == SubSeq(f, at + 1, IF at + SizeT < Len(f) THEN at + SizeT ELSE Len(f))

LEMMA ChunkIs ==
  ASSUME NEW f \in Seq(Byte), NEW at \in 0..Len(f)
  PROVE  /\ ChunkOf(f, at) \in Seq(Byte)
         /\ Len(ChunkOf(f, at)) \in 0..SizeT
         /\ at + Len(ChunkOf(f, at)) \in 0..Len(f)
         /\ \A i \in 1..Len(ChunkOf(f, at)) : ChunkOf(f, at)[i] = f[at + i]
         /\ ChunkOf(f, at) = <<>> <=> at = Len(f)
         /\ ChunkOf(f, at) = <<>> <=> Len(ChunkOf(f, at)) = 0
  <1>0. SizeT \in Nat \ {0}
    BY TransferAssumption
  <1> DEFINE n == IF at + SizeT < Len(f) THEN at + SizeT ELSE Len(f)
             c == ChunkOf(f, at)
  <1>1. /\ Len(f) \in Nat /\ at \in Nat /\ n \in at..Len(f) /\ n - at <= SizeT
        /\ n = at <=> at = Len(f)
    BY <1>0, LenProperties
  <1>2. c = SubSeq(f, at + 1, n)
    BY DEF ChunkOf
  <1> HIDE DEF n, c
  <1>3. \A i \in (at + 1)..n : f[i] \in Byte
    BY <1>1, ElementOfSeq
  <1>4. at + 1 \in Int /\ n \in Int
    BY <1>1
  <1>5. /\ c \in Seq(Byte)
        /\ Len(c) = IF at + 1 <= n THEN n - (at + 1) + 1 ELSE 0
        /\ \A i \in 1..(n - (at + 1) + 1) : c[i] = f[(at + 1) + i - 1]
    BY <1>2, <1>3, <1>4, SubSeqProperties
  <1>6. Len(c) = n - at
    BY <1>1, <1>5
  <1>7. ASSUME NEW i \in 1..Len(c) PROVE c[i] = f[at + i]
    <2>1. i \in 1..(n - (at + 1) + 1) /\ (at + 1) + i - 1 = at + i
      BY <1>1, <1>6
    <2> QED BY <1>5, <2>1
  <1>8. c = <<>> <=> Len(c) = 0
    BY <1>5, EmptySeq
  <1>9. /\ Len(c) \in 0..SizeT /\ at + Len(c) \in 0..Len(f)
        /\ Len(c) = 0 <=> at = Len(f)
    BY <1>1, <1>6
  <1> QED BY <1>5, <1>7, <1>8, <1>9 DEF c

LEMMA ThreeSeqs ==
  ASSUME NEW S, NEW a \in Seq(S), NEW b \in Seq(S), NEW c \in Seq(S)
  PROVE  a \o (b \o c) \in Seq(S) /\ a \o (b \o c) = (a \o b) \o c
  BY ConcatProperties, ConcatAssociative

(* A packet and what comes after it; the packets of a file from a position   *)
(* on, the empty one included.                                               *)
Packet(pac, rest) == Bytes(Len(pac)) \o (pac \o rest)

FromChunk(f, r, at) ==
  Packet(ChunkOf(f, at),
         IF ChunkOf(f, at) = <<>> THEN <<>> ELSE r[at + Len(ChunkOf(f, at))])

IsPackets(f, r) == \A at \in 0..Len(f) : r[at] = FromChunk(f, r, at)

Packets(f) == CHOOSE r \in [0..Len(f) -> Seq(Byte)] : IsPackets(f, r)

LEMMA PacketType ==
  ASSUME NEW pac \in Seq(Byte), NEW rest \in Seq(Byte)
  PROVE  /\ Packet(pac, rest) \in Seq(Byte)
         /\ Packet(pac, rest) = Bytes(Len(pac)) \o (pac \o rest)
  <1>1. Bytes(Len(pac)) \in Seq(Byte)
    BY BytesAre, LenProperties
  <1> QED BY <1>1, ThreeSeqs DEF Packet

LEMMA PacketsExist ==
  ASSUME NEW f \in Seq(Byte)
  PROVE  \E r \in [0..Len(f) -> Seq(Byte)] : IsPackets(f, r)
  <1> DEFINE n == Len(f)
             Good(j) == \E r \in [(n - j)..n -> Seq(Byte)] :
                          \A at \in (n - j)..n : r[at] = FromChunk(f, r, at)
             T == {j \in Nat : j <= n => Good(j)}
  <1>0. n \in Nat
    BY LenProperties
  <1>e. <<>> \in Seq(Byte)
    OBVIOUS
  <1>1. 0 \in T
    <2> DEFINE r == [at \in (n - 0)..n |-> Packet(<<>>, <<>>)]
    <2>1. r \in [(n - 0)..n -> Seq(Byte)]
      BY <1>e, PacketType
    <2>2. ASSUME NEW at \in (n - 0)..n PROVE r[at] = FromChunk(f, r, at)
      <3>1. at = Len(f) /\ at \in 0..Len(f)
        BY <1>0
      <3>2. ChunkOf(f, at) = <<>>
        BY <3>1, ChunkIs
      <3> QED BY <3>2 DEF FromChunk
    <2> HIDE DEF r, n
    <2>3. Good(0)
      BY <2>1, <2>2
    <2> HIDE DEF Good
    <2> QED BY <2>3
  <1>2. ASSUME NEW j \in T PROVE j + 1 \in T
    <2>1. SUFFICES ASSUME j + 1 <= n PROVE Good(j + 1)
      <3> HIDE DEF Good
      <3> QED OBVIOUS
    <2>2. j \in Nat /\ Good(j)
      <3> HIDE DEF Good
      <3>1. j \in Nat /\ (j <= n => Good(j))
        OBVIOUS
      <3> QED BY <1>0, <2>1, <3>1
    <2>3. PICK u \in [(n - j)..n -> Seq(Byte)] :
                 \A at \in (n - j)..n : u[at] = FromChunk(f, u, at)
      BY <2>2
    <2> DEFINE m == n - (j + 1)
               new == FromChunk(f, u, m)
               r == [at \in m..n |-> IF at = m THEN new ELSE u[at]]
    <2>4. m \in 0..(n - 1) /\ m + 1 = n - j /\ m \in 0..Len(f) /\ m # Len(f)
      BY <1>0, <2>1, <2>2
    <2> HIDE DEF m
    <2>5. ASSUME NEW at \in m..n
          PROVE  /\ at \in 0..Len(f)
                 /\ ChunkOf(f, at) # <<>> =>
                      /\ at + Len(ChunkOf(f, at)) \in (n - j)..n
                      /\ at + Len(ChunkOf(f, at)) \in m..n
                      /\ at + Len(ChunkOf(f, at)) # m
      <3>1. at \in 0..Len(f)
        BY <1>0, <2>4
      <3>2. /\ Len(ChunkOf(f, at)) \in Nat
            /\ at + Len(ChunkOf(f, at)) \in 0..Len(f)
            /\ ChunkOf(f, at) = <<>> <=> Len(ChunkOf(f, at)) = 0
        BY <3>1, ChunkIs
      <3> HIDE DEF n
      <3>3. Len(f) = n
        BY DEF n
      <3> QED BY <1>0, <2>4, <3>1, <3>2, <3>3
    <2>6. new \in Seq(Byte)
      <3>1. m \in m..n
        BY <1>0, <2>4
      <3>2. ChunkOf(f, m) \in Seq(Byte) /\ ChunkOf(f, m) # <<>>
        BY <2>4, ChunkIs
      <3>3. u[m + Len(ChunkOf(f, m))] \in Seq(Byte)
        BY <2>3, <2>5, <3>1, <3>2
      <3> QED BY <3>2, <3>3, PacketType DEF FromChunk
    <2>7. ASSUME NEW at \in m..n PROVE FromChunk(f, r, at) = FromChunk(f, u, at)
      <3>1. ChunkOf(f, at) # <<>> =>
              r[at + Len(ChunkOf(f, at))] = u[at + Len(ChunkOf(f, at))]
        BY <2>5
      <3> QED BY <3>1 DEF FromChunk
    <2> HIDE DEF new
    <2>8. \A at \in m..n : at # m => at \in (n - j)..n
      BY <1>0, <2>4
    <2>9. r \in [m..n -> Seq(Byte)]
      BY <2>3, <2>6, <2>8
    <2>10. ASSUME NEW at \in m..n PROVE r[at] = FromChunk(f, r, at)
      <3>1. CASE at = m
        BY <2>7, <3>1 DEF new
      <3>2. CASE at # m
        BY <2>3, <2>7, <2>8, <3>2
      <3> QED BY <3>1, <3>2
    <2> HIDE DEF r, n
    <2> QED BY <2>9, <2>10 DEF m
  <1>3. T \subseteq Nat
    OBVIOUS
  <1> HIDE DEF T
  <1>4. T = Nat
    BY <1>1, <1>2, <1>3, SetInduction
  <1>5. Good(n)
    <2> HIDE DEF Good
    <2> QED BY <1>0, <1>4 DEF T
  <1>6. n - n = 0
    BY <1>0
  <1> QED BY <1>5, <1>6 DEF IsPackets

LEMMA PacketsAre ==
  ASSUME NEW f \in Seq(Byte)
  PROVE  /\ Packets(f) \in [0..Len(f) -> Seq(Byte)]
         /\ \A at \in 0..Len(f) : Packets(f)[at] = FromChunk(f, Packets(f), at)
         /\ Packets(f)[0] \in Seq(Byte)
  <1>1. /\ Packets(f) \in [0..Len(f) -> Seq(Byte)]
        /\ IsPackets(f, Packets(f))
    BY PacketsExist DEF Packets
  <1>2. 0 \in 0..Len(f)
    BY LenProperties
  <1> QED BY <1>1, <1>2 DEF IsPackets

-----------------------------------------------------------------------------
(* Types.                                                                    *)

LEMMA Sizes ==
  /\ SizeT \in Nat \ {0} /\ BufSize \in Nat /\ BufSize >= SizeT
  /\ \A n \in 0..BufSize : Fits(n)
  /\ \A f \in Files : f \in Seq(Byte) /\ Fits(Len(f))
  /\ FILENAME \in Seq(Byte) /\ Len(FILENAME) \in 1..(BufSize - 1)
  /\ Len(FILENAME) < BufSize + 1
  /\ \A i \in 1..Len(FILENAME) : FILENAME[i] # 0
  /\ Garbage \in Byte /\ 0 \in Byte
  <1>1. FILENAME \in Seq(Byte \ {0})
    BY TransferAssumption
  <1>2. FILENAME \in Seq(Byte)
    BY <1>1, SeqMonotonic
  <1>3. \A i \in 1..Len(FILENAME) : FILENAME[i] # 0
    BY <1>1, ElementOfSeq
  <1>4. \A n \in 0..BufSize : Fits(n)
    BY TransferAssumption
  <1>5. \A f \in Files : f \in Seq(Byte) /\ Fits(Len(f))
    BY TransferAssumption
  <1>6. /\ SizeT \in Nat \ {0} /\ BufSize \in Nat /\ BufSize >= SizeT
        /\ Len(FILENAME) \in 1..(BufSize - 1) /\ Garbage \in Byte
    BY TransferAssumption
  <1>7. Len(FILENAME) < BufSize + 1
    BY <1>6
  <1> QED BY <1>2, <1>3, <1>4, <1>5, <1>6, <1>7 DEF Byte

LEMMA FreshType ==
  ASSUME NEW g \in {0, Garbage}, NEW h \in {0, Garbage}
  PROVE  Fresh(g, h) \in [Cells -> Byte]
  BY Sizes DEF Fresh

LEMMA ChunkHere ==
  ASSUME TypeOK, NEW at \in 0..Len(file)
  PROVE  /\ Chunk(at) = ChunkOf(file, at)
         /\ Chunk(at) \in Seq(Byte) /\ Len(Chunk(at)) \in 0..BufSize
         /\ at + Len(Chunk(at)) \in 0..Len(file)
  <1>1. file \in Seq(Byte)
    BY Sizes DEF TypeOK
  <1>2. Chunk(at) = ChunkOf(file, at)
    BY DEF Chunk, ChunkOf
  <1>3. /\ ChunkOf(file, at) \in Seq(Byte) /\ Len(ChunkOf(file, at)) \in 0..SizeT
        /\ at + Len(ChunkOf(file, at)) \in 0..Len(file)
    BY <1>1, ChunkIs
  <1>4. SizeT \in Nat /\ BufSize \in Nat /\ SizeT <= BufSize
    BY Sizes
  <1> QED BY <1>2, <1>3, <1>4

LEMMA InitType == Init => TypeOK
  <1> SUFFICES ASSUME Init PROVE TypeOK
    OBVIOUS
  <1>1. mem \in [Cells -> Byte]
    BY FreshType DEF Init
  <1>2. file \in Files /\ 0 \in 0..Len(file)
    BY Sizes, LenProperties DEF Init
  <1>3. <<>> \in Seq(Byte)
    OBVIOUS
  <1>4. /\ SizeT \in Nat /\ BufSize \in Nat /\ FILENAME \in Seq(Byte)
        /\ Len(FILENAME) < BufSize + 1
    BY Sizes
  <1>5. /\ sized \in BOOLEAN /\ file \in Files /\ fpos \in 0..Len(file)
        /\ sstage = "name" /\ spart = "len" /\ rpart = "len"
        /\ spac \in Seq(Byte) /\ Len(spac) < BufSize + 1 /\ wire \in Seq(Byte)
    <2>1. /\ sized \in BOOLEAN /\ fpos = 0 /\ wire = <<>> /\ spac = FILENAME
          /\ sstage = "name" /\ spart = "len" /\ rpart = "len"
      BY DEF Init
    <2> QED BY <1>2, <1>3, <1>4, <2>1
  <1>6. /\ rpc = "run" /\ rstage = "name"
        /\ len \in Nat /\ totalrecv \in 0..len /\ p \in Nat /\ pieces \in Nat
        /\ filename \in Seq(Byte) /\ filesize \in Nat /\ out \in Seq(Byte)
        /\ split \in BOOLEAN
    <2>1. /\ rpc = "run" /\ rstage = "name" /\ len = SizeT /\ totalrecv = 0
          /\ p = 0 /\ pieces = 0 /\ filename = <<>> /\ filesize = 0 /\ out = <<>>
          /\ split = FALSE
      BY DEF Init
    <2>2. 0 \in 0..SizeT
      BY <1>4
    <2>3. filename \in Seq(Byte) /\ out \in Seq(Byte)
      BY <1>3, <2>1
    <2>4. totalrecv \in 0..len /\ len \in Nat
      BY <1>4, <2>1, <2>2
    <2> QED BY <2>1, <2>3, <2>4
  <1> QED BY <1>1, <1>5, <1>6 DEF TypeOK

LEMMA SendLenType == ASSUME TypeOK, sendLen PROVE TypeOK'
  <1>1. Bytes(Len(spac)) \in Seq(Byte)
    BY BytesAre, LenProperties DEF TypeOK
  <1>2. wire' \in Seq(Byte)
    BY <1>1, ConcatProperties DEF TypeOK, sendLen
  <1> QED BY <1>2 DEF TypeOK, sendLen, bufVars, resultVars

LEMMA SendBufType == ASSUME TypeOK, sendBuf PROVE TypeOK'
  <1>1. wire' \in Seq(Byte)
    BY ConcatProperties DEF TypeOK, sendBuf
  <1>2. Bytes(Len(file)) \in Seq(Byte) /\ Len(Bytes(Len(file))) = SizeT
    BY BytesAre, LenProperties, Sizes DEF TypeOK
  <1>3. /\ Chunk(fpos) \in Seq(Byte) /\ Len(Chunk(fpos)) \in 0..BufSize
        /\ fpos + Len(Chunk(fpos)) \in 0..Len(file)
    BY ChunkHere DEF TypeOK
  <1>4. /\ sstage' \in {"size", "file", "done"}
        /\ spac' \in Seq(Byte) /\ Len(spac') < BufSize + 1
        /\ fpos' \in 0..Len(file)
    BY <1>2, <1>3, Sizes, SMTT(30) DEF TypeOK, sendBuf
  <1> QED BY <1>1, <1>4 DEF TypeOK, sendBuf, bufVars, resultVars

LEMMA DieType == ASSUME TypeOK, Die PROVE TypeOK'
  BY DEF TypeOK, Die, bufVars, resultVars

LEMMA StoreType ==
  ASSUME mem \in [Cells -> Byte], NEW s \in Seq(Byte), NEW at \in Nat
  PROVE  Store(at, s) \in [Cells -> Byte]
  <1>1. Len(s) \in Nat
    BY LenProperties
  <1>2. \A k \in at..(at + Len(s) - 1) : k - at + 1 \in 1..Len(s)
    BY <1>1
  <1>3. \A k \in at..(at + Len(s) - 1) : s[k - at + 1] \in Byte
    BY <1>2, ElementOfSeq
  <1> QED BY <1>3 DEF Store

(* What one recv takes from the wire.                                        *)
LEMMA Taken ==
  ASSUME NEW w \in Seq(Byte), NEW n \in 1..Len(w)
  PROVE  /\ SubSeq(w, 1, n) \in Seq(Byte) /\ Len(SubSeq(w, 1, n)) = n
         /\ \A k \in 1..n : SubSeq(w, 1, n)[k] = w[k]
         /\ SubSeq(w, n + 1, Len(w)) \in Seq(Byte)
         /\ SubSeq(w, n + 1, Len(w)) = Drop(w, n)
  <1>1. Len(w) \in Nat /\ n \in 0..Len(w) /\ 1 \in Int /\ n \in Int
    BY LenProperties
  <1>2. \A i \in 1..n : w[i] \in Byte
    BY <1>1, ElementOfSeq
  <1>3. /\ SubSeq(w, 1, n) \in Seq(Byte)
        /\ Len(SubSeq(w, 1, n)) = IF 1 <= n THEN n - 1 + 1 ELSE 0
        /\ \A i \in 1..(n - 1 + 1) : SubSeq(w, 1, n)[i] = w[1 + i - 1]
    BY <1>1, <1>2, SubSeqProperties
  <1>4. Drop(w, n) \in Seq(Byte)
    BY <1>1, DropIs
  <1> QED BY <1>1, <1>3, <1>4 DEF Drop

LEMMA RecvType == ASSUME TypeOK, recv PROVE TypeOK'
  <1>1. PICK n \in 1..Len(wire) :
          /\ n <= Asked
          /\ wire' = SubSeq(wire, n + 1, Len(wire))
          /\ totalrecv' = totalrecv + n
          /\ p' = p + Advance(totalrecv')
          /\ \/ /\ base + p + n <= SizeT + BufSize
                /\ mem' = Store(base + p, SubSeq(wire, 1, n))
                /\ UNCHANGED rpc
             \/ /\ base + p + n > SizeT + BufSize
                /\ rpc' = "undefined"
                /\ UNCHANGED mem
    BY DEF recv
  <1>2. /\ wire \in Seq(Byte) /\ n \in Nat /\ len \in Nat /\ totalrecv \in 0..len
        /\ p \in Nat /\ mem \in [Cells -> Byte] /\ base + p \in Nat
    BY Sizes, LenProperties DEF TypeOK, base
  <1>3. wire' \in Seq(Byte)
    BY <1>1, <1>2, Taken
  <1>4. totalrecv' \in 0..len /\ p' \in Nat
    BY <1>1, <1>2 DEF Asked, Advance
  <1>5. Store(base + p, SubSeq(wire, 1, n)) \in [Cells -> Byte]
    BY <1>2, Taken, StoreType
  <1>6. mem' \in [Cells -> Byte] /\ rpc' \in {rpc, "undefined"}
    BY <1>1, <1>2, <1>5
  <1>7. /\ pieces' \in Nat /\ split' \in BOOLEAN
        /\ UNCHANGED <<sendVars, rstage, rpart, len, resultVars>>
    BY DEF recv, TypeOK
  <1> QED BY <1>3, <1>4, <1>6, <1>7 DEF TypeOK, sendVars, resultVars

LEMMA RecvEofType == ASSUME TypeOK, recvEof PROVE TypeOK'
  BY DEF TypeOK, recvEof, sendVars, bufVars, resultVars

LEMMA RecvpacType == ASSUME TypeOK, recvpac PROVE TypeOK'
  <1>1. Value(0) \in Nat
    BY ValueNat DEF TypeOK
  <1>2. 0 \in 0..Value(0)
    BY <1>1
  <1> QED BY <1>1, <1>2 DEF TypeOK, recvpac, NextBuf, sendVars, resultVars

LEMMA OpenFileType == ASSUME TypeOK, openFile PROVE TypeOK'
  <1>1. filename' \in Seq(Byte)
    <2>1. PICK n \in 0..BufSize : filename' = [k \in 1..n |-> mem[SizeT + k - 1]]
      BY DEF openFile
    <2>2. \A k \in 1..n : SizeT + k - 1 \in Cells
      BY Sizes DEF Cells
    <2>3. filename' \in [1..n -> Byte]
      BY <2>1, <2>2 DEF TypeOK
    <2> QED BY <2>3, SeqDef
  <1>2. mem' \in [Cells -> Byte]
    BY FreshType DEF openFile
  <1>3. /\ rstage' \in {"size", "file"}
        /\ rpart' = "len" /\ len' = SizeT /\ totalrecv' = 0 /\ p' = 0 /\ pieces' = 0
        /\ UNCHANGED <<sized, file, fpos, sstage, spart, spac, wire, rpc, filesize, out, split>>
    BY DEF openFile, NextBuf, sendVars
  <1> QED BY <1>1, <1>2, <1>3, Sizes DEF TypeOK

LEMMA TakeSizeType == ASSUME TypeOK, takeSize PROVE TypeOK'
  <1>1. filesize' \in Nat
    BY ValueNat DEF TypeOK, takeSize
  <1>2. mem' \in [Cells -> Byte]
    BY FreshType DEF takeSize, TypeOK
  <1>3. /\ rstage' = "file"
        /\ rpart' = "len" /\ len' = SizeT /\ totalrecv' = 0 /\ p' = 0 /\ pieces' = 0
        /\ UNCHANGED <<sized, file, fpos, sstage, spart, spac, wire, rpc, filename, out, split>>
    BY DEF takeSize, NextBuf, sendVars
  <1> QED BY <1>1, <1>2, <1>3, Sizes DEF TypeOK

(* What the client writes for a chunk.                                       *)
Written == [k \in 1..Value(0) |-> IF k <= BufSize THEN mem[SizeT + k - 1] ELSE Garbage]

LEMMA WrittenType ==
  ASSUME TypeOK
  PROVE  Written \in Seq(Byte) /\ Len(Written) = Value(0)
  <1>1. Value(0) \in Nat
    BY ValueNat DEF TypeOK
  <1>2. \A k \in 1..Value(0) : k <= BufSize => SizeT + k - 1 \in Cells
    BY <1>1, Sizes DEF Cells
  <1>3. Written \in [1..Value(0) -> Byte]
    <2>1. mem \in [Cells -> Byte] /\ Garbage \in Byte
      BY Sizes DEF TypeOK
    <2>2. \A k \in 1..Value(0) : k <= BufSize => mem[SizeT + k - 1] \in Byte
      BY <1>2, <2>1
    <2> QED BY <2>1, <2>2 DEF Written
  <1>4. Written \in Seq(Byte)
    BY <1>1, <1>3, SeqDef
  <1>5. Len(Written) = Value(0)
    BY <1>1, <1>3, <1>4, LenProperties
  <1> QED BY <1>4, <1>5

LEMMA WriteChunkType == ASSUME TypeOK, writeChunk PROVE TypeOK'
  <1>1. out' \in Seq(Byte)
    <2>1. out' = out \o Written
      BY DEF writeChunk, Written
    <2>2. out \in Seq(Byte) /\ Written \in Seq(Byte)
      BY WrittenType DEF TypeOK
    <2> QED BY <2>1, <2>2, ConcatProperties
  <1>2. /\ rpc' \in {"run", "sigfpe"}
        /\ rpart' = "len" /\ len' = SizeT /\ totalrecv' = 0 /\ p' = 0 /\ pieces' = 0
        /\ UNCHANGED <<sized, file, fpos, sstage, spart, spac, wire, rstage, mem, filename, filesize, split>>
    BY DEF writeChunk, NextBuf, sendVars, Draw
  <1> QED BY <1>1, <1>2, Sizes DEF TypeOK

LEMMA EndFileType == ASSUME TypeOK, endFile PROVE TypeOK'
  BY DEF TypeOK, endFile, Draw, sendVars, bufVars, resultVars

LEMMA NextType == TypeOK /\ [Next]_vars => TypeOK'
  <1>1. ASSUME TypeOK, UNCHANGED vars PROVE TypeOK'
    BY <1>1 DEF TypeOK, vars, sendVars, bufVars, resultVars
  <1> QED BY <1>1, SendLenType, SendBufType, DieType, RecvType, RecvEofType,
             RecvpacType, OpenFileType, TakeSizeType, WriteChunkType, EndFileType
          DEF Next, Server, Client

(* Every field keeps its type, whatever the pieces and the garbage: what is  *)
(* received is bytes, and no more of them than were asked for.               *)
THEOREM TransferTypes == Spec => []TypeOK
  BY InitType, NextType, PTL DEF Spec

-----------------------------------------------------------------------------
(* Nothing is lost, doubled or misplaced as long as no buffer was split: the *)
(* bytes on the wire, with those the server still has to send, are the bytes *)
(* the client still has to receive.                                          *)

(* What comes after the packet pac of a stage; a chunk's begins at position  *)
(* at of the file.                                                           *)
Follows(f, z, stage, pac, at) ==
  IF stage = "name" /\ z THEN Packet(Bytes(Len(f)), Packets(f)[0])
  ELSE IF stage # "file" THEN Packets(f)[0]
  ELSE IF pac = <<>> THEN <<>>
  ELSE Packets(f)[at]

ToSend ==
  IF ~Sending THEN <<>>
  ELSE IF spart = "len" THEN Packet(spac, Follows(file, sized, sstage, spac, fpos))
  ELSE spac \o Follows(file, sized, sstage, spac, fpos)

(* The packet the client expects after n bytes of the file, and the rest.    *)
Expected(f, stage, n) ==
  IF stage = "name" THEN FILENAME
  ELSE IF stage = "size" THEN Bytes(Len(f))
  ELSE ChunkOf(f, n)

After(f, z, stage, n) ==
  Follows(f, z, stage, Expected(f, stage, n), n + Len(Expected(f, stage, n)))

Coming == Expected(file, rstage, Len(out))
Later == After(file, sized, rstage, Len(out))

Buffer(part, pac) == IF part = "len" THEN Bytes(Len(pac)) ELSE pac

Remaining(part, pac, later, n) ==
  Drop(Buffer(part, pac), n) \o (IF part = "len" THEN pac \o later ELSE later)

ToReceive == Remaining(rpart, Coming, Later, totalrecv)

Stream == \E s \in Seq(Byte) : /\ wire \o s = ToReceive
                               /\ sstage # "dead" => s = ToSend

(* The first two pieces of a buffer go where they belong.                    *)
Pieces == /\ pieces \in 0..2
          /\ pieces = 0 => totalrecv = 0 /\ p = 0
          /\ pieces = 1 => p = totalrecv

Buffered ==
  /\ len = Len(Buffer(rpart, Coming))
  /\ \A k \in 0..(totalrecv - 1) : mem[base + k] = Buffer(rpart, Coming)[k + 1]
  /\ rpart = "buf" => \A k \in 0..(SizeT - 1) : mem[k] = Bytes(len)[k + 1]
  /\ rstage = "name" =>
       \A k \in Cells :
         k >= SizeT + (IF rpart = "buf" THEN totalrecv ELSE 0) => mem[k] = 0

Known ==
  /\ rstage = "size" => sized
  /\ rstage # "file" => out = <<>>
  /\ rstage # "name" => filename = FILENAME
  /\ rstage = "file" /\ sized => filesize = Len(file)
  /\ Len(out) \in 0..Len(file)
  /\ \A i \in 1..Len(out) : out[i] = file[i]
  /\ rpc # "undefined"
  /\ rpc \in {"done", "sigfpe"} => out = file

SendStages ==
  /\ sstage = "size" => sized
  /\ sstage \in {"name", "size"} => fpos = 0

Good == /\ Pieces /\ Buffered /\ Known /\ SendStages /\ Stream
        /\ rpc = "spin" => sstage = "dead"

LEMMA FollowsType ==
  ASSUME NEW f \in Seq(Byte), NEW z, NEW stage, NEW pac,
         NEW at, stage = "file" /\ pac # <<>> => at \in 0..Len(f)
  PROVE  Follows(f, z, stage, pac, at) \in Seq(Byte)
  <1>1. Packets(f)[0] \in Seq(Byte) /\ Packets(f) \in [0..Len(f) -> Seq(Byte)]
    BY PacketsAre
  <1>2. Bytes(Len(f)) \in Seq(Byte)
    BY BytesAre, LenProperties
  <1>3. Packet(Bytes(Len(f)), Packets(f)[0]) \in Seq(Byte)
    BY <1>1, <1>2, PacketType
  <1>4. <<>> \in Seq(Byte)
    OBVIOUS
  <1> QED BY <1>1, <1>3, <1>4 DEF Follows

LEMMA ToSendType ==
  ASSUME TypeOK
  PROVE  /\ ToSend \in Seq(Byte)
         /\ Follows(file, sized, sstage, spac, fpos) \in Seq(Byte)
  <1>1. file \in Seq(Byte) /\ spac \in Seq(Byte) /\ fpos \in 0..Len(file)
    BY Sizes DEF TypeOK
  <1>2. Follows(file, sized, sstage, spac, fpos) \in Seq(Byte)
    BY <1>1, FollowsType
  <1>3. /\ Packet(spac, Follows(file, sized, sstage, spac, fpos)) \in Seq(Byte)
        /\ spac \o Follows(file, sized, sstage, spac, fpos) \in Seq(Byte)
    BY <1>1, <1>2, PacketType, ConcatProperties
  <1> QED BY <1>2, <1>3 DEF ToSend

LEMMA ExpectedIs ==
  ASSUME NEW f \in Files, NEW z, NEW stage \in {"name", "size", "file"},
         NEW n \in 0..Len(f)
  PROVE  /\ Expected(f, stage, n) \in Seq(Byte)
         /\ Len(Expected(f, stage, n)) \in 0..BufSize
         /\ After(f, z, stage, n) \in Seq(Byte)
  <1>1. f \in Seq(Byte) /\ Len(f) \in Nat
    BY Sizes, LenProperties
  <1>2. /\ Bytes(Len(f)) \in Seq(Byte) /\ Len(Bytes(Len(f))) = SizeT
    BY <1>1, BytesAre
  <1>3. /\ ChunkOf(f, n) \in Seq(Byte) /\ Len(ChunkOf(f, n)) \in 0..SizeT
        /\ n + Len(ChunkOf(f, n)) \in 0..Len(f)
    BY <1>1, ChunkIs
  <1>4. SizeT \in 0..BufSize /\ 0..SizeT \subseteq 0..BufSize
    BY Sizes
  <1>5. FILENAME \in Seq(Byte) /\ Len(FILENAME) \in 0..BufSize
    BY Sizes
  <1>6. /\ Expected(f, stage, n) \in Seq(Byte)
        /\ Len(Expected(f, stage, n)) \in 0..BufSize
    BY <1>2, <1>3, <1>4, <1>5 DEF Expected
  <1>7. stage = "file" => n + Len(Expected(f, stage, n)) \in 0..Len(f)
    BY <1>3 DEF Expected
  <1>8. After(f, z, stage, n) \in Seq(Byte)
    BY <1>1, <1>7, FollowsType DEF After
  <1> QED BY <1>6, <1>8

(* The packet after this one is what follows it.                             *)
LEMMA NextPacket ==
  ASSUME NEW f \in Files, NEW z \in BOOLEAN, NEW n \in 0..Len(f)
  PROVE  /\ z => After(f, z, "name", 0) =
                   Packet(Expected(f, "size", 0), After(f, z, "size", 0))
         /\ ~z => After(f, z, "name", 0) =
                   Packet(Expected(f, "file", 0), After(f, z, "file", 0))
         /\ After(f, z, "size", 0) =
              Packet(Expected(f, "file", 0), After(f, z, "file", 0))
         /\ Expected(f, "file", n) # <<>> =>
              /\ n + Len(ChunkOf(f, n)) \in 0..Len(f)
              /\ After(f, z, "file", n) =
                   Packet(Expected(f, "file", n + Len(ChunkOf(f, n))),
                          After(f, z, "file", n + Len(ChunkOf(f, n))))
  <1>1. f \in Seq(Byte) /\ 0 \in 0..Len(f)
    BY Sizes, LenProperties
  <1>2. ASSUME NEW at \in 0..Len(f)
        PROVE  Packets(f)[at] =
                 Packet(Expected(f, "file", at), After(f, z, "file", at))
    <2>1. Packets(f)[at] = FromChunk(f, Packets(f), at)
      BY <1>1, PacketsAre
    <2> QED BY <2>1 DEF FromChunk, Expected, After, Follows
  <1>3. z => After(f, z, "name", 0) =
               Packet(Expected(f, "size", 0), After(f, z, "size", 0))
    BY DEF After, Follows, Expected
  <1>4. /\ ~z => After(f, z, "name", 0) = Packets(f)[0]
        /\ After(f, z, "size", 0) = Packets(f)[0]
    BY DEF After, Follows
  <1>5. ASSUME Expected(f, "file", n) # <<>>
        PROVE  /\ n + Len(ChunkOf(f, n)) \in 0..Len(f)
               /\ After(f, z, "file", n) = Packets(f)[n + Len(ChunkOf(f, n))]
    BY <1>1, <1>5, ChunkIs DEF After, Follows, Expected
  <1> QED BY <1>1, <1>2, <1>3, <1>4, <1>5

LEMMA BufferIs ==
  ASSUME NEW pac \in Seq(Byte), NEW part \in {"len", "buf"}
  PROVE  /\ Buffer(part, pac) \in Seq(Byte)
         /\ part = "len" => Len(Buffer(part, pac)) = SizeT
         /\ part = "buf" => Buffer(part, pac) = pac
  BY BytesAre, LenProperties DEF Buffer

(* A fresh packet remains whole, and after its length its bytes.             *)
LEMMA RemainingStart ==
  ASSUME NEW pac \in Seq(Byte), NEW later \in Seq(Byte)
  PROVE  /\ Remaining("len", pac, later, 0) = Packet(pac, later)
         /\ Remaining("len", pac, later, SizeT) = Remaining("buf", pac, later, 0)
         /\ Remaining("buf", pac, later, Len(pac)) = later
  <1>1. Bytes(Len(pac)) \in Seq(Byte) /\ Len(Bytes(Len(pac))) = SizeT
    BY BytesAre, LenProperties
  <1>2. Drop(Bytes(Len(pac)), 0) = Bytes(Len(pac)) /\ Drop(pac, 0) = pac
    BY <1>1, DropNone
  <1>3. ASSUME NEW s \in Seq(Byte) PROVE Drop(s, Len(s)) = <<>>
    <2>1. Len(s) \in Nat
      BY LenProperties
    <2> QED BY <2>1, SubSeqEmpty DEF Drop
  <1>4. Drop(Bytes(Len(pac)), SizeT) = <<>> /\ Drop(pac, Len(pac)) = <<>>
    BY <1>1, <1>3
  <1>5. /\ pac \o later \in Seq(Byte)
        /\ <<>> \o (pac \o later) = pac \o later /\ <<>> \o later = later
    BY ConcatProperties, ConcatEmptySeq
  <1> QED BY <1>2, <1>4, <1>5 DEF Remaining, Buffer, Packet

LEMMA HereIs ==
  ASSUME TypeOK, Known
  PROVE  /\ file \in Seq(Byte)
         /\ Coming \in Seq(Byte) /\ Len(Coming) \in 0..BufSize /\ Fits(Len(Coming))
         /\ Later \in Seq(Byte)
         /\ Buffer(rpart, Coming) \in Seq(Byte)
         /\ Len(Buffer(rpart, Coming)) \in 0..BufSize
  <1>1. /\ Coming \in Seq(Byte) /\ Len(Coming) \in 0..BufSize
        /\ Later \in Seq(Byte)
    BY ExpectedIs DEF TypeOK, Known, Coming, Later
  <1>2. /\ Buffer(rpart, Coming) \in Seq(Byte)
        /\ rpart = "len" => Len(Buffer(rpart, Coming)) = SizeT
        /\ rpart = "buf" => Buffer(rpart, Coming) = Coming
    BY <1>1, BufferIs DEF TypeOK
  <1>3. SizeT \in 0..BufSize /\ file \in Seq(Byte)
    BY Sizes DEF TypeOK
  <1>4. Fits(Len(Coming))
    BY <1>1, Sizes
  <1> QED BY <1>1, <1>2, <1>3, <1>4 DEF TypeOK

LEMMA InitGood == Init => Good
  <1> SUFFICES ASSUME Init PROVE Good
    OBVIOUS
  <1>1. TypeOK
    BY InitType
  <1>2. /\ sstage = "name" /\ spart = "len" /\ spac = FILENAME /\ wire = <<>>
        /\ rstage = "name" /\ rpart = "len" /\ rpc = "run" /\ out = <<>> /\ fpos = 0
        /\ len = SizeT /\ totalrecv = 0 /\ p = 0 /\ pieces = 0
    BY DEF Init
  <1>3. Len(out) = 0 /\ 0 \in 0..Len(file)
    BY <1>1, <1>2, LenProperties, Sizes DEF TypeOK
  <1>4. Coming = FILENAME /\ FILENAME \in Seq(Byte)
    BY <1>2, Sizes DEF Coming, Expected
  <1>5. Known
    BY <1>2, <1>3 DEF Known
  <1>6. Pieces /\ SendStages
    BY <1>2 DEF Pieces, SendStages
  <1>7. Buffered
    <2>1. len = Len(Buffer(rpart, Coming))
      BY <1>2, <1>4, BufferIs
    <2>2. \A k \in Cells : k >= SizeT => mem[k] = 0
      BY Sizes DEF Init, Fresh, Cells
    <2> QED BY <1>2, <2>1, <2>2 DEF Buffered
  <1>8. Stream
    <2>1. ToSend = Packet(FILENAME, Follows(file, sized, "name", FILENAME, 0))
      BY <1>2 DEF ToSend, Sending
    <2>2. Follows(file, sized, "name", FILENAME, 0) = Later
      BY <1>2 DEF Later, After, Follows
    <2>3. Later \in Seq(Byte)
      BY <1>1, <1>5, HereIs
    <2>4. ToReceive = Packet(FILENAME, Later)
      BY <1>2, <1>4, <2>3, RemainingStart DEF ToReceive
    <2>5. ToSend \in Seq(Byte) /\ wire \o ToSend = ToSend
      BY <1>1, <1>2, ToSendType, ConcatEmptySeq
    <2> QED BY <2>1, <2>2, <2>4, <2>5 DEF Stream
  <1> QED BY <1>2, <1>5, <1>6, <1>7, <1>8 DEF Good

(* What the server does leaves what the client knows and expects.            *)
LEMMA SenderKeeps ==
  ASSUME Good, UNCHANGED <<sized, file, rpc, rstage, rpart, bufVars, mem, resultVars>>
  PROVE  Pieces' /\ Buffered' /\ Known' /\ ToReceive' = ToReceive
  <1>1. UNCHANGED <<sized, file, rpc, rstage, rpart, len, totalrecv, p, pieces, mem,
                    filename, filesize, out>>
    BY DEF bufVars, resultVars
  <1>2. Pieces' /\ Known'
    BY <1>1 DEF Good, Pieces, Known
  <1>3. Coming' = Coming /\ Later' = Later
    BY <1>1 DEF Coming, Later
  <1>4. Buffered'
    BY <1>1, <1>3 DEF Good, Buffered, base
  <1>5. ToReceive' = ToReceive
    BY <1>1, <1>3 DEF ToReceive
  <1> QED BY <1>2, <1>4, <1>5

(* Sending the next half of a packet moves it onto the wire.                 *)
LEMMA SentMoves ==
  ASSUME TypeOK, Good, Sending, NEW half \in Seq(Byte), NEW rest \in Seq(Byte),
         ToSend = half \o rest, wire' = wire \o half, ToSend' = rest,
         ToReceive' = ToReceive
  PROVE  Stream'
  <1>1. wire \o ToSend = ToReceive
    BY DEF Good, Stream, Sending
  <1>2. wire \in Seq(Byte)
    BY DEF TypeOK
  <1>3. wire \o (half \o rest) = (wire \o half) \o rest
    BY <1>2, ThreeSeqs, SMTT(30)
  <1>4. wire' \o ToSend' = ToReceive'
    BY <1>1, <1>3
  <1> QED BY <1>4 DEF Stream

LEMMA SendLenGood == ASSUME TypeOK, Good, sendLen PROVE Good'
  <1>1. /\ UNCHANGED <<sized, file, rpc, rstage, rpart, bufVars, mem, resultVars>>
        /\ UNCHANGED <<fpos, sstage, spac>>
        /\ Sending /\ spart = "len" /\ spart' = "buf"
        /\ wire' = wire \o Bytes(Len(spac))
    BY DEF sendLen
  <1>2. Pieces' /\ Buffered' /\ Known' /\ ToReceive' = ToReceive
    BY <1>1, SenderKeeps
  <1> DEFINE F == Follows(file, sized, sstage, spac, fpos)
  <1>3. F \in Seq(Byte) /\ spac \in Seq(Byte) /\ Bytes(Len(spac)) \in Seq(Byte)
    BY ToSendType, BytesAre, LenProperties DEF TypeOK
  <1>4. spac \o F \in Seq(Byte)
    BY <1>3, ConcatProperties
  <1>5. ToSend = Bytes(Len(spac)) \o (spac \o F) /\ ToSend' = spac \o F
    BY <1>1 DEF ToSend, Sending, Packet
  <1> HIDE DEF F
  <1>6. Stream'
    BY <1>1, <1>2, <1>3, <1>4, <1>5, SentMoves
  <1>7. SendStages' /\ (rpc' = "spin" => sstage' = "dead")
    BY <1>1 DEF Good, SendStages
  <1> QED BY <1>2, <1>6, <1>7 DEF Good

LEMMA SendBufGood == ASSUME TypeOK, Good, sendBuf PROVE Good'
  <1>1. /\ UNCHANGED <<sized, file, rpc, rstage, rpart, bufVars, mem, resultVars>>
        /\ Sending /\ spart = "buf" /\ spart' = "len"
        /\ wire' = wire \o spac
    BY DEF sendBuf
  <1>2. Pieces' /\ Buffered' /\ Known' /\ ToReceive' = ToReceive
    BY <1>1, SenderKeeps
  <1> DEFINE F == Follows(file, sized, sstage, spac, fpos)
  <1>3. F \in Seq(Byte) /\ spac \in Seq(Byte) /\ file \in Seq(Byte)
        /\ fpos \in 0..Len(file) /\ ToSend = spac \o F
    BY <1>1, ToSendType, Sizes DEF TypeOK, ToSend
  <1>4. rpc # "spin"
    BY <1>1 DEF Good, Sending
  <1>5. ToSend' = F /\ SendStages'
    <2>1. CASE /\ sstage = "name" /\ sized
               /\ sstage' = "size" /\ spac' = Bytes(Len(file))
               /\ UNCHANGED fpos
      <3>1. F = Packet(Bytes(Len(file)), Packets(file)[0])
        BY <2>1 DEF Follows
      <3>2. ToSend' = Packet(Bytes(Len(file)), Packets(file)[0])
        BY <1>1, <2>1 DEF ToSend, Sending, Follows
      <3> QED BY <1>1, <2>1, <3>1, <3>2 DEF Good, SendStages
    <2>2. CASE /\ \/ sstage = "size"
                  \/ sstage = "name" /\ ~sized
                  \/ sstage = "file" /\ spac # <<>>
               /\ sstage' = "file" /\ spac' = Chunk(fpos)
               /\ fpos' = fpos + Len(Chunk(fpos))
      <3>1. F = Packets(file)[fpos]
        BY <2>2 DEF Follows, Good, SendStages
      <3>2. spac' = ChunkOf(file, fpos) /\ fpos' = fpos + Len(ChunkOf(file, fpos))
        BY <2>2 DEF Chunk, ChunkOf
      <3>3. ToSend' = FromChunk(file, Packets(file), fpos)
        BY <1>1, <2>2, <3>2 DEF ToSend, Sending, Follows, FromChunk
      <3>4. Packets(file)[fpos] = FromChunk(file, Packets(file), fpos)
        BY <1>3, PacketsAre
      <3> QED BY <2>2, <3>1, <3>3, <3>4 DEF SendStages
    <2>3. CASE /\ sstage = "file" /\ spac = <<>>
               /\ sstage' = "done"
               /\ UNCHANGED <<fpos, spac>>
      BY <2>3 DEF ToSend, Sending, Follows, SendStages
    <2> QED BY <2>1, <2>2, <2>3 DEF sendBuf
  <1> HIDE DEF F
  <1>6. Stream'
    BY <1>1, <1>2, <1>3, <1>5, SentMoves
  <1> QED BY <1>1, <1>2, <1>4, <1>5, <1>6 DEF Good

LEMMA DieGood == ASSUME TypeOK, Good, Die PROVE Good'
  <1>1. /\ UNCHANGED <<sized, file, rpc, rstage, rpart, bufVars, mem, resultVars, wire>>
        /\ sstage' = "dead"
    BY DEF Die
  <1>2. Pieces' /\ Buffered' /\ Known' /\ ToReceive' = ToReceive
    BY <1>1, SenderKeeps
  <1>3. Stream'
    BY <1>1, <1>2 DEF Good, Stream
  <1> QED BY <1>1, <1>2, <1>3 DEF Good, SendStages

(* What the client does leaves what the server is about to send.             *)
LEMMA ReceiverKeeps ==
  ASSUME Good, UNCHANGED sendVars
  PROVE  SendStages' /\ ToSend' = ToSend /\ UNCHANGED <<sized, file, sstage>>
  BY DEF Good, SendStages, sendVars, ToSend, Sending

LEMMA RecvGood == ASSUME TypeOK, Good, recv, ~split' PROVE Good'
  <1>1. PICK n \in 1..Len(wire) :
          /\ n <= Asked
          /\ wire' = SubSeq(wire, n + 1, Len(wire))
          /\ totalrecv' = totalrecv + n
          /\ p' = p + Advance(totalrecv')
          /\ \/ /\ base + p + n <= SizeT + BufSize
                /\ mem' = Store(base + p, SubSeq(wire, 1, n))
                /\ UNCHANGED rpc
             \/ /\ base + p + n > SizeT + BufSize
                /\ rpc' = "undefined"
                /\ UNCHANGED mem
    BY DEF recv
  <1>2. /\ UNCHANGED <<sized, file, sstage, rstage, rpart, len, filename, filesize, out>>
        /\ rpc = "run" /\ pieces' = pieces + 1 /\ pieces \in 0..1 /\ p = totalrecv
        /\ SendStages' /\ ToSend' = ToSend
    <2>1. /\ UNCHANGED sendVars /\ UNCHANGED <<rstage, rpart, len, resultVars>>
          /\ rpc = "run" /\ pieces' = pieces + 1 /\ split' = (split \/ pieces = 2)
      BY DEF recv
    <2>2. pieces # 2
      BY <2>1, Zenon
    <2>3. pieces \in 0..1 /\ p = totalrecv
      BY <2>2 DEF Good, Pieces
    <2>4. SendStages' /\ ToSend' = ToSend /\ UNCHANGED <<sized, file, sstage>>
      BY <2>1, ReceiverKeeps
    <2> QED BY <2>1, <2>3, <2>4 DEF resultVars
  <1> DEFINE B == Buffer(rpart, Coming)
             D == Drop(B, totalrecv)
             R == IF rpart = "len" THEN Coming \o Later ELSE Later
             t == SubSeq(wire, 1, n)
  <1>3. /\ file \in Seq(Byte) /\ Coming \in Seq(Byte) /\ Later \in Seq(Byte)
        /\ B \in Seq(Byte) /\ Len(B) \in 0..BufSize /\ len = Len(B)
    BY HereIs DEF Good, Buffered
  <1>4. /\ totalrecv \in 0..Len(B) /\ n \in 1..(Len(B) - totalrecv)
        /\ wire \in Seq(Byte) /\ mem \in [Cells -> Byte] /\ n \in 0..Len(wire)
        /\ len \in Nat /\ Len(B) \in Nat
    BY <1>1, <1>3, LenProperties DEF TypeOK, Asked
  <1>5. Coming' = Coming /\ Later' = Later
    BY <1>2 DEF Coming, Later
  <1>6. R \in Seq(Byte) /\ ToReceive = D \o R
    BY <1>3, ConcatProperties DEF ToReceive, Remaining
  <1> HIDE DEF B, R, t
  <1>7. /\ D \in Seq(Byte) /\ Len(D) = Len(B) - totalrecv
        /\ \A k \in 1..(Len(B) - totalrecv) : D[k] = B[totalrecv + k]
    BY <1>3, <1>4, DropIs
  <1>8. PICK s \in Seq(Byte) : wire \o s = D \o R /\ (sstage # "dead" => s = ToSend)
    BY <1>6 DEF Good, Stream
  <1> HIDE DEF D
  <1>9. /\ \A k \in 1..n : wire[k] = D[k]
        /\ Drop(wire, n) \o s = Drop(D, n) \o R
    <2>1. n <= Len(D)
      BY <1>4, <1>7
    <2>2. (\A k \in 1..n : wire[k] = D[k]) /\ RestAlike(wire, s, D, R, n)
      BY <1>4, <1>6, <1>7, <1>8, <2>1, Front
    <2> QED BY <2>2 DEF RestAlike
  <1>10. Drop(D, n) = Drop(B, totalrecv + n)
    BY <1>3, <1>4, DropMore DEF D
  <1>11. /\ t \in Seq(Byte) /\ Len(t) = n
         /\ \A k \in 1..n : t[k] = B[totalrecv + k]
         /\ wire' = Drop(wire, n)
    <2>1. /\ t \in Seq(Byte) /\ Len(t) = n /\ \A k \in 1..n : t[k] = wire[k]
          /\ wire' = Drop(wire, n)
      BY <1>1, <1>4, Taken DEF t
    <2>2. \A k \in 1..n : k \in 1..(Len(B) - totalrecv)
      BY <1>4
    <2> QED BY <1>7, <1>9, <2>1, <2>2
  <1>12. Stream'
    <2>1. ToReceive' = Drop(B, totalrecv + n) \o R
      BY <1>1, <1>2, <1>5 DEF ToReceive, Remaining, B, R
    <2>2. wire' \o s = ToReceive'
      BY <1>9, <1>10, <1>11, <2>1
    <2> QED BY <1>2, <1>8, <2>2 DEF Stream
  <1>13. /\ base \in {0, SizeT} /\ base + p + n <= SizeT + BufSize
         /\ rpart = "len" => base + len = SizeT
    <2>1. rpart = "len" => Len(B) = SizeT
      BY <1>3, BufferIs DEF B
    <2>2. totalrecv + n <= Len(B) /\ Len(B) <= BufSize
      BY <1>3, <1>4
    <2>3. SizeT \in Nat /\ BufSize \in Nat
      BY Sizes
    <2>4. CASE rpart = "len"
      BY <1>2, <1>3, <1>4, <2>1, <2>2, <2>3, <2>4 DEF base
    <2>5. CASE rpart = "buf"
      BY <1>2, <1>3, <1>4, <2>2, <2>3, <2>5 DEF base
    <2> QED BY <2>4, <2>5 DEF TypeOK
  <1>14. mem' = Store(base + totalrecv, t) /\ rpc' = rpc
    <2>1. base + p + n \in Nat /\ SizeT + BufSize \in Nat
      BY <1>2, <1>4, <1>13, Sizes
    <2> QED BY <1>1, <1>2, <1>13, <2>1 DEF t
  <1>15. \A k \in Cells :
           mem'[k] = IF k \in (base + totalrecv)..(base + totalrecv + n - 1)
                     THEN B[k - base + 1] ELSE mem[k]
    <2> TAKE k \in Cells
    <2>1. mem'[k] = IF k \in (base + totalrecv)..(base + totalrecv + n - 1)
                    THEN t[k - (base + totalrecv) + 1] ELSE mem[k]
      BY <1>11, <1>14 DEF Store
    <2>2. ASSUME k \in (base + totalrecv)..(base + totalrecv + n - 1)
          PROVE  t[k - (base + totalrecv) + 1] = B[k - base + 1]
      <3>1. /\ k - (base + totalrecv) + 1 \in 1..n
            /\ totalrecv + (k - (base + totalrecv) + 1) = k - base + 1
        BY <1>4, <1>13, <2>2, Sizes
      <3> QED BY <1>11, <3>1
    <2> QED BY <2>1, <2>2
  <1>16. Buffered'
    <2>1. len' = Len(Buffer(rpart, Coming)')
      BY <1>2, <1>3, <1>5 DEF B
    <2>2. ASSUME NEW k \in 0..(totalrecv + n - 1)
          PROVE  mem'[base + k] = B[k + 1]
      <3>1. base + k \in Cells
        BY <1>2, <1>4, <1>13, Sizes DEF Cells
      <3>2. CASE k < totalrecv
        <4>1. k \in 0..(totalrecv - 1)
              /\ base + k \notin (base + totalrecv)..(base + totalrecv + n - 1)
          BY <1>4, <1>13, <3>2, Sizes
        <4>2. mem[base + k] = B[k + 1]
          BY <4>1 DEF Good, Buffered, B
        <4> QED BY <1>15, <3>1, <4>1, <4>2
      <3>3. CASE k >= totalrecv
        <4>1. base + k \in (base + totalrecv)..(base + totalrecv + n - 1)
              /\ (base + k) - base + 1 = k + 1
          BY <1>4, <1>13, <3>3, Sizes
        <4>2. mem'[base + k] = B[(base + k) - base + 1]
          BY <1>15, <3>1, <4>1
        <4> QED BY <4>1, <4>2
      <3> QED BY <1>4, <3>2, <3>3
    <2>3. ASSUME rpart = "buf", NEW k \in 0..(SizeT - 1)
          PROVE  mem'[k] = Bytes(len)[k + 1]
      <3>1. k \in Cells /\ k \notin (base + totalrecv)..(base + totalrecv + n - 1)
        BY <1>4, <2>3, Sizes DEF Cells, base
      <3>2. mem[k] = Bytes(len)[k + 1]
        BY <2>3 DEF Good, Buffered
      <3> QED BY <1>15, <3>1, <3>2
    <2>4. ASSUME rstage = "name", NEW k \in Cells,
                 k >= SizeT + (IF rpart = "buf" THEN totalrecv + n ELSE 0)
          PROVE  mem'[k] = 0
      <3>1. CASE rpart = "buf"
        <4>1. /\ k >= SizeT + totalrecv
              /\ k \notin (base + totalrecv)..(base + totalrecv + n - 1)
          BY <1>4, <2>4, <3>1, Sizes DEF Cells, base
        <4>2. mem[k] = 0
          BY <2>4, <3>1, <4>1 DEF Good, Buffered
        <4> QED BY <1>15, <4>1, <4>2
      <3>2. CASE rpart # "buf"
        <4>1. rpart = "len" /\ base = 0 /\ k >= SizeT + 0 /\ k >= SizeT
          BY <2>4, <3>2, Sizes DEF TypeOK, base, Cells
        <4>2. k \notin (base + totalrecv)..(base + totalrecv + n - 1)
          BY <1>3, <1>4, <1>13, <4>1, Sizes DEF Cells
        <4>3. mem[k] = 0
          BY <2>4, <3>2, <4>1 DEF Good, Buffered
        <4> QED BY <1>15, <4>2, <4>3
      <3> QED BY <3>1, <3>2
    <2>5. Buffer(rpart, Coming)' = B /\ base' = base
      BY <1>2, <1>5 DEF B, base
    <2>6. totalrecv' = totalrecv + n /\ len' = len /\ rpart' = rpart /\ rstage' = rstage
      BY <1>1, <1>2
    <2>7. \A k \in 0..(totalrecv' - 1) :
             mem'[base' + k] = Buffer(rpart, Coming)'[k + 1]
      <3>1. ASSUME NEW k \in 0..(totalrecv' - 1)
            PROVE  mem'[base' + k] = Buffer(rpart, Coming)'[k + 1]
        <4>1. k \in 0..(totalrecv + n - 1)
          BY <1>4, <2>6
        <4>2. mem'[base + k] = B[k + 1]
          BY <2>2, <4>1
        <4> QED BY <2>5, <4>2
      <3> QED BY <3>1
    <2>8. rpart' = "buf" => \A k \in 0..(SizeT - 1) : mem'[k] = Bytes(len')[k + 1]
      BY <2>3, <2>6
    <2>9. rstage' = "name" =>
            \A k \in Cells :
              k >= SizeT + (IF rpart' = "buf" THEN totalrecv' ELSE 0) => mem'[k] = 0
      BY <2>4, <2>6
    <2> QED BY <2>1, <2>7, <2>8, <2>9 DEF Buffered
  <1>17. Pieces'
    BY <1>1, <1>2, <1>4 DEF Good, Pieces, Advance
  <1>18. Known'
    BY <1>2, <1>14 DEF Good, Known
  <1> QED BY <1>2, <1>12, <1>14, <1>16, <1>17, <1>18 DEF Good

LEMMA RecvEofGood == ASSUME TypeOK, Good, recvEof PROVE Good'
  <1>1. /\ UNCHANGED <<sized, file, sstage, wire, rstage, rpart, len, totalrecv, p,
                       pieces, mem, filename, filesize, out>>
        /\ rpc = "run" /\ rpc' = "spin" /\ totalrecv < len
        /\ wire = <<>> /\ ~Sending /\ SendStages' /\ ToSend' = ToSend
    BY ReceiverKeeps DEF recvEof, bufVars, resultVars, sendVars
  <1>2. sstage = "dead"
    <2>1. SUFFICES ASSUME sstage # "dead" PROVE FALSE
      OBVIOUS
    <2>2. ToSend = <<>>
      BY <1>1 DEF ToSend
    <2>3. <<>> \o <<>> = ToReceive
      BY <1>1, <2>1, <2>2 DEF Good, Stream
    <2> DEFINE B == Buffer(rpart, Coming)
               D == Drop(B, totalrecv)
               R == IF rpart = "len" THEN Coming \o Later ELSE Later
    <2>4. B \in Seq(Byte) /\ R \in Seq(Byte) /\ len = Len(B)
      BY HereIs, ConcatProperties DEF Good, Buffered
    <2>5. ToReceive = D \o R
      BY DEF ToReceive, Remaining
    <2> HIDE DEF B, R
    <2>6. totalrecv \in 0..Len(B)
      BY <2>4 DEF TypeOK
    <2>7. D \in Seq(Byte) /\ Len(D) = Len(B) - totalrecv
      BY <2>4, <2>6, DropIs
    <2> HIDE DEF D
    <2>8. Len(D \o R) > 0
      <3>1. Len(D \o R) = Len(D) + Len(R)
        BY <2>4, <2>7, ConcatProperties
      <3>2. Len(B) \in Nat /\ Len(R) \in Nat /\ totalrecv < Len(B) /\ totalrecv \in Nat
        BY <1>1, <2>4, <2>6, LenProperties
      <3>3. Len(D) > 0 /\ Len(D) \in Nat
        BY <2>7, <3>2
      <3> QED BY <3>1, <3>2, <3>3
    <2>9. Len(<<>> \o <<>>) = 0
      OBVIOUS
    <2> QED BY <2>3, <2>5, <2>8, <2>9
  <1>3. Coming' = Coming /\ Later' = Later
    BY <1>1 DEF Coming, Later
  <1>4. Pieces' /\ Known'
    BY <1>1 DEF Good, Pieces, Known
  <1>5. Buffered'
    BY <1>1, <1>3 DEF Good, Buffered, base
  <1>6. Stream'
    BY <1>1, <1>3 DEF Good, Stream, ToReceive
  <1> QED BY <1>1, <1>2, <1>4, <1>5, <1>6 DEF Good

(* Once a buffer is full, so much is known of it.                            *)
LEMMA Full ==
  ASSUME TypeOK, Good, totalrecv >= len
  PROVE  /\ totalrecv = len /\ totalrecv = Len(Buffer(rpart, Coming))
         /\ rpart = "len" => /\ totalrecv = SizeT
                             /\ Value(0) = Len(Coming)
         /\ rpart = "buf" => /\ totalrecv = Len(Coming)
                             /\ Value(0) = Len(Coming)
                             /\ ToReceive = Later
                             /\ \A k \in 1..Len(Coming) :
                                  mem[SizeT + k - 1] = Coming[k]
  <1>1. totalrecv = len /\ len = Len(Buffer(rpart, Coming))
    BY DEF TypeOK, Good, Buffered
  <1>2. /\ Coming \in Seq(Byte) /\ Len(Coming) \in Nat /\ Fits(Len(Coming))
        /\ Later \in Seq(Byte)
    BY HereIs, LenProperties DEF Good
  <1>3. rpart = "len" => totalrecv = SizeT
    BY <1>1, <1>2, BufferIs
  <1>4. rpart = "buf" => totalrecv = Len(Coming)
    BY <1>1, <1>2, BufferIs
  <1>5. \A k \in 0..(SizeT - 1) : mem[0 + k] = Bytes(Len(Coming))[k + 1]
    <2>1. CASE rpart = "len"
      BY <1>1, <1>3, <2>1, Sizes DEF Good, Buffered, Buffer, base
    <2>2. CASE rpart = "buf"
      BY <1>1, <1>4, <2>2, Sizes DEF Good, Buffered
    <2> QED BY <2>1, <2>2 DEF TypeOK
  <1>6. Value(0) = Len(Coming)
    BY <1>2, <1>5, ValueOfBytes DEF TypeOK
  <1>7. ASSUME rpart = "buf" PROVE ToReceive = Later
    BY <1>2, <1>4, <1>7, RemainingStart DEF ToReceive
  <1>8. ASSUME rpart = "buf", NEW k \in 1..Len(Coming)
        PROVE  mem[SizeT + k - 1] = Coming[k]
    <2>1. k - 1 \in 0..(totalrecv - 1) /\ (k - 1) + 1 = k
          /\ SizeT + (k - 1) = SizeT + k - 1
      BY <1>2, <1>4, <1>8, Sizes
    <2>2. mem[SizeT + (k - 1)] = Coming[(k - 1) + 1]
      BY <1>8, <2>1 DEF Good, Buffered, Buffer, base
    <2> QED BY <2>1, <2>2
  <1> QED BY <1>1, <1>3, <1>4, <1>6, <1>7, <1>8

LEMMA RecvpacGood == ASSUME TypeOK, Good, recvpac PROVE Good'
  <1>1. /\ UNCHANGED <<sized, file, sstage, wire, rpc, rstage, mem, filename, filesize, out>>
        /\ rpc = "run" /\ rpart = "len" /\ totalrecv >= len
        /\ rpart' = "buf" /\ len' = Value(0) /\ totalrecv' = 0 /\ p' = 0 /\ pieces' = 0
        /\ SendStages' /\ ToSend' = ToSend
    BY ReceiverKeeps DEF recvpac, Received, NextBuf, resultVars, sendVars
  <1>2. Coming' = Coming /\ Later' = Later
    BY <1>1 DEF Coming, Later
  <1>3. /\ Coming \in Seq(Byte) /\ Len(Coming) \in Nat /\ Later \in Seq(Byte)
    BY HereIs, LenProperties DEF Good
  <1>4. totalrecv = SizeT /\ len = SizeT /\ Value(0) = Len(Coming)
    BY <1>1, Full
  <1>5. Pieces' /\ Known'
    BY <1>1 DEF Good, Pieces, Known
  <1>6. Buffered'
    <2>1. len' = Len(Buffer(rpart, Coming)')
      BY <1>1, <1>2, <1>4 DEF Buffer
    <2>2. \A k \in 0..(SizeT - 1) : mem'[k] = Bytes(len')[k + 1]
      BY <1>1, <1>4 DEF Good, Buffered, Buffer, base
    <2>3. rstage' = "name" => \A k \in Cells : k >= SizeT + 0 => mem'[k] = 0
      BY <1>1 DEF Good, Buffered
    <2> QED BY <1>1, <2>1, <2>2, <2>3 DEF Buffered
  <1>7. ToReceive' = ToReceive
    BY <1>1, <1>2, <1>3, <1>4, RemainingStart DEF ToReceive
  <1>8. Stream'
    BY <1>1, <1>7 DEF Good, Stream
  <1> QED BY <1>1, <1>5, <1>6, <1>8 DEF Good

(* What is expected is typed, in this state and in the next.                *)
HereTyped == Coming \in Seq(Byte) /\ Later \in Seq(Byte)

LEMMA KnownTyped == TypeOK /\ Known => HereTyped
  BY HereIs DEF HereTyped

LEMMA KnownTypedNext == TypeOK' /\ Known' => HereTyped'
  BY KnownTyped, PTL

(* A packet is done with: the client expects the next one, from its start.   *)
LEMMA Onward ==
  ASSUME TypeOK, Good, Known', TypeOK', rstage' # "name",
         UNCHANGED sendVars, UNCHANGED wire,
         rpart' = "len", len' = SizeT, totalrecv' = 0, p' = 0, pieces' = 0,
         rpc' # "spin",
         ToReceive = Packet(Coming', Later')
  PROVE  Good'
  <1>1. SendStages' /\ ToSend' = ToSend /\ UNCHANGED <<sized, file, sstage>>
    BY ReceiverKeeps
  <1>2. Coming' \in Seq(Byte) /\ Later' \in Seq(Byte)
    BY KnownTypedNext DEF HereTyped
  <1>3. ToReceive' = Packet(Coming', Later')
    BY <1>2, RemainingStart DEF ToReceive
  <1>4. Stream'
    BY <1>1, <1>3 DEF Good, Stream
  <1>5. Pieces'
    BY DEF Pieces
  <1>6. Buffered'
    <2>1. len' = Len(Buffer(rpart', Coming'))
      BY <1>2, BufferIs
    <2> QED BY <2>1 DEF Buffered
  <1> QED BY <1>1, <1>4, <1>5, <1>6 DEF Good

LEMMA OpenFileGood == ASSUME TypeOK, Good, openFile PROVE Good'
  <1>1. /\ UNCHANGED <<wire, rpc, filesize, out>> /\ UNCHANGED sendVars
        /\ rpc = "run" /\ rstage = "name" /\ rpart = "buf" /\ totalrecv >= len
        /\ rstage' = IF sized THEN "size" ELSE "file"
        /\ rpart' = "len" /\ len' = SizeT /\ totalrecv' = 0 /\ p' = 0 /\ pieces' = 0
    BY DEF openFile, Received, NextBuf
  <1>2. UNCHANGED <<sized, file, sstage>>
    BY <1>1 DEF sendVars
  <1>3. /\ Coming = FILENAME /\ Len(FILENAME) \in 1..(BufSize - 1)
        /\ FILENAME \in Seq(Byte) /\ out = <<>> /\ Len(out) = 0
    BY <1>1, Sizes DEF Coming, Expected, Good, Known
  <1>4. /\ totalrecv = Len(FILENAME) /\ ToReceive = Later
        /\ \A k \in 1..Len(FILENAME) : mem[SizeT + k - 1] = FILENAME[k]
    BY <1>1, <1>3, Full
  <1>5. filename' = FILENAME
    <2>1. PICK n \in 0..BufSize :
            /\ \A k \in 0..(n - 1) : mem[SizeT + k] # 0
            /\ n = BufSize \/ mem[SizeT + n] = 0
            /\ filename' = [k \in 1..n |-> mem[SizeT + k - 1]]
      BY DEF openFile
    <2> DEFINE l == Len(FILENAME)
    <2>2. l \in 1..(BufSize - 1) /\ BufSize \in Nat /\ SizeT \in Nat
      BY Sizes
    <2>3. mem[SizeT + l] = 0
      <3>1. SizeT + l \in Cells /\ SizeT + l >= SizeT + totalrecv
        BY <1>4, <2>2 DEF Cells
      <3> QED BY <1>1, <3>1 DEF Good, Buffered
    <2>4. ASSUME NEW k \in 1..l PROVE mem[SizeT + k - 1] # 0
      BY <1>4, Sizes
    <2>5. ~(n > l)
      <3>1. n > l => l \in 0..(n - 1)
        BY <2>2
      <3> QED BY <2>1, <2>3, <3>1
    <2>6. ~(n < l)
      <3>1. n < l => n + 1 \in 1..l /\ SizeT + (n + 1) - 1 = SizeT + n /\ n # BufSize
        BY <2>2
      <3> QED BY <2>1, <2>4, <3>1
    <2>7. n = l
      BY <2>2, <2>5, <2>6
    <2>8. FILENAME = [k \in 1..l |-> FILENAME[k]]
      BY <1>3, LenProperties
    <2> QED BY <1>4, <2>1, <2>7, <2>8
  <1>6. TypeOK'
    BY OpenFileType
  <1>7. Known'
    BY <1>1, <1>2, <1>3, <1>5 DEF Good, Known
  <1>8. ToReceive = Packet(Coming', Later')
    <2>1. file \in Files /\ sized \in BOOLEAN /\ 0 \in 0..Len(file)
      BY <1>3 DEF TypeOK, Good, Known
    <2>2. Later = After(file, sized, "name", 0)
      BY <1>1, <1>3 DEF Later
    <2>3. CASE sized
      <3>1. /\ Coming' = Expected(file, "size", 0)
            /\ Later' = After(file, sized, "size", 0)
        BY <1>1, <1>2, <1>3, <2>3 DEF Coming, Later
      <3> QED BY <1>4, <2>1, <2>2, <2>3, <3>1, NextPacket
    <2>4. CASE ~sized
      <3>1. /\ Coming' = Expected(file, "file", 0)
            /\ Later' = After(file, sized, "file", 0)
        BY <1>1, <1>2, <1>3, <2>4 DEF Coming, Later
      <3> QED BY <1>4, <2>1, <2>2, <2>4, <3>1, NextPacket
    <2> QED BY <2>3, <2>4
  <1> QED BY <1>1, <1>6, <1>7, <1>8, Onward

LEMMA TakeSizeGood == ASSUME TypeOK, Good, takeSize PROVE Good'
  <1>1. /\ UNCHANGED <<wire, rpc, filename, out>> /\ UNCHANGED sendVars
        /\ rpc = "run" /\ rstage = "size" /\ rpart = "buf" /\ totalrecv >= len
        /\ rstage' = "file" /\ filesize' = Value(SizeT)
        /\ rpart' = "len" /\ len' = SizeT /\ totalrecv' = 0 /\ p' = 0 /\ pieces' = 0
    BY DEF takeSize, Received, NextBuf
  <1>2. UNCHANGED <<sized, file, sstage>>
    BY <1>1 DEF sendVars
  <1>3. /\ file \in Files /\ file \in Seq(Byte) /\ Len(file) \in Nat
        /\ Fits(Len(file)) /\ out = <<>> /\ Len(out) = 0
        /\ Coming = Bytes(Len(file)) /\ Len(Coming) = SizeT
    BY <1>1, BytesAre, LenProperties, Sizes
    DEF TypeOK, Good, Known, Coming, Expected
  <1>4. /\ ToReceive = Later
        /\ \A k \in 1..SizeT : mem[SizeT + k - 1] = Bytes(Len(file))[k]
    BY <1>1, <1>3, Full
  <1>5. filesize' = Len(file)
    <2>1. ASSUME NEW k \in 0..(SizeT - 1)
          PROVE  mem[SizeT + k] = Bytes(Len(file))[k + 1]
      <3>1. k + 1 \in 1..SizeT /\ SizeT + (k + 1) - 1 = SizeT + k
        BY Sizes
      <3> QED BY <1>4, <3>1
    <2>2. Value(SizeT) = Len(file)
      BY <1>3, <2>1, ValueOfBytes DEF TypeOK
    <2> QED BY <1>1, <2>2
  <1>6. TypeOK'
    BY TakeSizeType
  <1>7. Known'
    BY <1>1, <1>2, <1>3, <1>5 DEF Good, Known
  <1>8. ToReceive = Packet(Coming', Later')
    <2>1. sized \in BOOLEAN /\ 0 \in 0..Len(file)
      BY <1>3 DEF TypeOK
    <2>2. Later = After(file, sized, "size", 0)
      BY <1>1, <1>3 DEF Later
    <2>3. /\ Coming' = Expected(file, "file", 0)
          /\ Later' = After(file, sized, "file", 0)
      BY <1>1, <1>2, <1>3 DEF Coming, Later
    <2> QED BY <1>3, <1>4, <2>1, <2>2, <2>3, NextPacket
  <1> QED BY <1>1, <1>6, <1>7, <1>8, Onward

LEMMA WriteChunkGood == ASSUME TypeOK, Good, writeChunk PROVE Good'
  <1>1. /\ UNCHANGED <<wire, rstage, filename, filesize>> /\ UNCHANGED sendVars
        /\ rpc = "run" /\ rstage = "file" /\ rpart = "buf" /\ totalrecv >= len
        /\ rpc' = Draw("run") /\ Value(0) # 0
        /\ out' = out \o Written
        /\ rpart' = "len" /\ len' = SizeT /\ totalrecv' = 0 /\ p' = 0 /\ pieces' = 0
    BY DEF writeChunk, Received, NextBuf, End, Written
  <1>2. UNCHANGED <<sized, file, sstage>>
    BY <1>1 DEF sendVars
  <1> DEFINE n == Len(out)
             c == ChunkOf(file, n)
  <1>3. /\ file \in Files /\ file \in Seq(Byte) /\ Len(file) \in Nat
        /\ n \in 0..Len(file) /\ out \in Seq(Byte) /\ sized \in BOOLEAN
    BY LenProperties, Sizes DEF TypeOK, Good, Known
  <1>4. Coming = c
    BY <1>1 DEF Coming, Expected
  <1>5. /\ c \in Seq(Byte) /\ Len(c) \in 0..SizeT /\ n + Len(c) \in 0..Len(file)
        /\ \A i \in 1..Len(c) : c[i] = file[n + i]
    BY <1>3, ChunkIs
  <1>6. /\ ToReceive = Later /\ Value(0) = Len(c)
        /\ \A k \in 1..Len(c) : mem[SizeT + k - 1] = c[k]
    BY <1>1, <1>4, Full
  <1>7. c # <<>>
    BY <1>1, <1>5, <1>6, EmptySeq
  <1> HIDE DEF c, n
  <1>8. Written = c
    <2>1. \A k \in 1..Len(c) : k <= BufSize
      BY <1>5, Sizes
    <2>2. c = [k \in 1..Len(c) |-> c[k]]
      BY <1>5, LenProperties
    <2> QED BY <1>6, <2>1, <2>2 DEF Written
  <1>9. /\ out' = out \o c /\ Len(out') = n + Len(c)
        /\ \A i \in 1..(n + Len(c)) :
             out'[i] = IF i <= n THEN out[i] ELSE c[i - n]
    BY <1>1, <1>3, <1>5, <1>8, ConcatProperties DEF n
  <1>10. ASSUME NEW i \in 1..(n + Len(c)) PROVE out'[i] = file[i]
    <2>1. CASE i <= n
      <3>1. i \in 1..Len(out)
        BY <1>3, <1>5, <2>1 DEF n
      <3>2. out[i] = file[i]
        BY <3>1 DEF Good, Known
      <3> QED BY <1>9, <2>1, <3>2
    <2>2. CASE ~(i <= n)
      <3>1. i - n \in 1..Len(c) /\ n + (i - n) = i
        BY <1>3, <1>5, <2>2
      <3> QED BY <1>5, <1>9, <2>2, <3>1
    <2> QED BY <2>1, <2>2
  <1>11. rpc' = "run"
    <2>1. ASSUME sized, filesize = 0 PROVE FALSE
      <3>1. Len(file) = 0
        BY <1>1, <2>1 DEF Good, Known
      <3>2. n = Len(file)
        BY <1>3, <3>1
      <3>3. c = <<>>
        BY <1>3, <3>2, ChunkIs DEF c
      <3> QED BY <1>7, <3>3
    <2> QED BY <1>1, <2>1 DEF Draw
  <1>12. TypeOK'
    BY WriteChunkType
  <1>13. Known'
    <2>1. Len(out') \in 0..Len(file')
      BY <1>2, <1>5, <1>9
    <2>2. \A i \in 1..Len(out') : out'[i] = file'[i]
      BY <1>2, <1>9, <1>10
    <2> QED BY <1>1, <1>2, <1>11, <2>1, <2>2 DEF Good, Known
  <1>14. ToReceive = Packet(Coming', Later')
    <2>1. Later = After(file, sized, "file", n)
      BY <1>1 DEF Later, n
    <2>2. /\ Coming' = Expected(file, "file", n + Len(c))
          /\ Later' = After(file, sized, "file", n + Len(c))
      BY <1>1, <1>2, <1>9 DEF Coming, Later
    <2>3. Expected(file, "file", n) # <<>>
      BY <1>7 DEF Expected, c
    <2> QED BY <1>3, <1>6, <2>1, <2>2, <2>3, NextPacket DEF c
  <1> QED BY <1>1, <1>11, <1>12, <1>13, <1>14, Onward

LEMMA EndFileGood == ASSUME TypeOK, Good, endFile PROVE Good'
  <1>1. /\ UNCHANGED <<sized, file, sstage, wire, rstage, rpart, len, totalrecv, p,
                       pieces, mem, filename, filesize, out>>
        /\ rpc = "run" /\ rpc' \in {"done", "sigfpe"} /\ Value(0) = 0
        /\ rstage = "file" /\ rpart = "buf" /\ totalrecv >= len
        /\ SendStages' /\ ToSend' = ToSend
    BY ReceiverKeeps DEF endFile, Received, End, Draw, bufVars, resultVars, sendVars
  <1>2. out = file
    <2> DEFINE n == Len(out)
    <2>1. /\ file \in Seq(Byte) /\ n \in 0..Len(file) /\ out \in Seq(Byte)
          /\ \A i \in 1..n : out[i] = file[i]
      BY Sizes DEF TypeOK, Good, Known
    <2>2. Coming = ChunkOf(file, n) /\ Len(Coming) = 0
      BY <1>1, Full DEF Coming, Expected
    <2>3. n = Len(file)
      BY <2>1, <2>2, ChunkIs
    <2> QED BY <2>1, <2>3, SeqEqual
  <1>3. Coming' = Coming /\ Later' = Later
    BY <1>1 DEF Coming, Later
  <1>4. Pieces' /\ Known'
    BY <1>1, <1>2 DEF Good, Pieces, Known
  <1>5. Buffered'
    BY <1>1, <1>3 DEF Good, Buffered, base
  <1>6. Stream'
    BY <1>1, <1>3 DEF Good, Stream, ToReceive
  <1> QED BY <1>1, <1>4, <1>5, <1>6 DEF Good

LEMMA GoodIntact == TypeOK /\ Good => IntactUnlessSplit
  <1> SUFFICES ASSUME TypeOK, Good PROVE IntactUnlessSplit
    OBVIOUS
  <1> DEFINE n == Len(out)
  <1>1. /\ file \in Seq(Byte) /\ n \in 0..Len(file) /\ out \in Seq(Byte)
        /\ \A i \in 1..n : out[i] = file[i] /\ n \in Nat /\ Len(file) \in Nat
    BY LenProperties, Sizes DEF TypeOK, Good, Known
  <1>2. out = SubSeq(file, 1, n)
    <2> DEFINE s == SubSeq(file, 1, n)
    <2>1. \A i \in 1..n : file[i] \in Byte
      BY <1>1, ElementOfSeq
    <2>2. /\ s \in Seq(Byte) /\ Len(s) = IF 1 <= n THEN n - 1 + 1 ELSE 0
          /\ \A i \in 1..(n - 1 + 1) : s[i] = file[1 + i - 1]
      BY <1>1, <2>1, SubSeqProperties
    <2> HIDE DEF s
    <2>3. Len(s) = n /\ \A i \in 1..n : s[i] = file[i]
      BY <1>1, <2>2
    <2>4. out = s
      BY <1>1, <2>2, <2>3, SeqEqual
    <2> QED BY <2>4 DEF s
  <1> QED BY <1>2 DEF IntactUnlessSplit, Good, Known

(* Split or still as it should be, in every reachable state.                 *)
TransferInv == TypeOK /\ (split \/ Good)

LEMMA NextGood == TransferInv /\ [Next]_vars => (split \/ Good)'
  <1> SUFFICES ASSUME TypeOK, split \/ Good, [Next]_vars, ~split' PROVE Good'
    BY DEF TransferInv
  <1>1. ~split
    <2>1. ASSUME split, Next PROVE split'
      BY <2>1, Zenon
      DEF Next, Server, Client, sendLen, sendBuf, Die, recv, recvEof, recvpac,
          openFile, takeSize, writeChunk, endFile
    <2>2. ASSUME split, UNCHANGED vars PROVE split'
      BY <2>2 DEF vars
    <2> QED BY <2>1, <2>2
  <1>2. Good
    BY <1>1
  <1>3. ASSUME UNCHANGED vars PROVE Good'
    <2>1. UNCHANGED <<sized, file, rpc, rstage, rpart, bufVars, mem, resultVars,
                      sendVars, wire>>
      BY <1>3 DEF vars, sendVars
    <2>2. Pieces' /\ Buffered' /\ Known' /\ ToReceive' = ToReceive
      BY <1>2, <2>1, SenderKeeps
    <2>3. SendStages' /\ ToSend' = ToSend /\ UNCHANGED sstage
      BY <1>2, <2>1, ReceiverKeeps
    <2>4. Stream'
      BY <1>2, <2>1, <2>2, <2>3 DEF Good, Stream
    <2> QED BY <1>2, <2>1, <2>2, <2>3, <2>4 DEF Good
  <1> QED BY <1>2, <1>3, SendLenGood, SendBufGood, DieGood, RecvGood, RecvEofGood,
             RecvpacGood, OpenFileGood, TakeSizeGood, WriteChunkGood, EndFileGood
          DEF Next, Server, Client

(* Unless some buffer came in more than two pieces, the client stays within  *)
(* its buffer, acts on the name and the size that were sent, writes a        *)
(* beginning of the file, ends with all of it, and asks a closed connection  *)
(* for more only if the server died: for every file, name and buffer, every  *)
(* width of a size_t that holds the lengths, and every way to cut the stream *)
(* otherwise.                                                                *)
THEOREM TransferIntact == Spec => []IntactUnlessSplit
  <1>1. Init => TransferInv
    BY InitType, InitGood DEF TransferInv
  <1>2. TransferInv /\ [Next]_vars => TransferInv'
    BY NextType, NextGood DEF TransferInv
  <1>3. TransferInv => IntactUnlessSplit
    BY GoodIntact DEF TransferInv, IntactUnlessSplit
  <1> QED BY <1>1, <1>2, <1>3, PTL DEF Spec
=============================================================================
