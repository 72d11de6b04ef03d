------------------------------ MODULE Counting --------------------------------
(* Lemmas the proofs share: how many times a value occurs in a queue, how    *)
(* many members of a finite set are somewhere, before and after one step;    *)
(* and, counting up through the natural numbers, induction and iteration.    *)
EXTENDS Integers, Sequences, FiniteSets, SequenceTheorems, FiniteSetTheorems,
        WellFoundedInduction, TLAPS

Occurrences(s, x) == {k \in DOMAIN s : s[k] = x}

LEMMA OccursFinite ==
  ASSUME NEW S, NEW s \in Seq(S), NEW x
  PROVE  /\ IsFiniteSet(Occurrences(s, x))
         /\ Cardinality(Occurrences(s, x)) \in Nat
  <1>1. DOMAIN s = 1..Len(s) /\ Len(s) \in Nat
    BY LenProperties
  <1>2. IsFiniteSet(1..Len(s))
    BY <1>1, FS_Interval
  <1>3. IsFiniteSet(Occurrences(s, x))
    BY <1>1, <1>2, FS_Subset DEF Occurrences
  <1> QED BY <1>3, FS_CardinalityType

(* Nothing occurs in the empty sequence, and only what is in a sequence does. *)
LEMMA OccursEmpty ==
  ASSUME NEW x
  PROVE  Occurrences(<<>>, x) = {} /\ Cardinality(Occurrences(<<>>, x)) = 0
  <1>1. Occurrences(<<>>, x) = {}
    BY DEF Occurrences
  <1> QED BY <1>1, FS_EmptySet

LEMMA OccursAppend ==
  ASSUME NEW S, NEW s \in Seq(S), NEW e \in S, NEW x
  PROVE  Cardinality(Occurrences(Append(s, e), x)) =
           Cardinality(Occurrences(s, x)) + (IF e = x THEN 1 ELSE 0)
  <1> DEFINE n == Len(s)
             C == Occurrences(s, x)
  <1>1. n \in Nat /\ DOMAIN s = 1..n
    BY LenProperties
  <1>2. /\ DOMAIN Append(s, e) = 1..(n + 1)
        /\ \A k \in 1..n : Append(s, e)[k] = s[k]
        /\ Append(s, e)[n + 1] = e
    <2>1. /\ Append(s, e) \in Seq(S) /\ Len(Append(s, e)) = n + 1
          /\ \A k \in 1..n : Append(s, e)[k] = s[k]
          /\ Append(s, e)[n + 1] = e
      OBVIOUS
    <2> QED BY <2>1, LenProperties
  <1>3. C \subseteq 1..n /\ n + 1 \notin C
    BY <1>1 DEF Occurrences
  <1>4. Occurrences(Append(s, e), x) = IF e = x THEN C \cup {n + 1} ELSE C
    BY <1>1, <1>2 DEF Occurrences
  <1>5. IsFiniteSet(C) /\ Cardinality(C) \in Nat
    BY OccursFinite
  <1> HIDE DEF C, n
  <1>6. Cardinality(C \cup {n + 1}) = Cardinality(C) + 1
    BY <1>3, <1>5, FS_AddElement
  <1>7. Cardinality(Occurrences(Append(s, e), x)) =
          Cardinality(C) + (IF e = x THEN 1 ELSE 0)
    BY <1>4, <1>5, <1>6
  <1> QED BY <1>7 DEF C

LEMMA OccursTail ==
  ASSUME NEW S, NEW s \in Seq(S), s # <<>>, NEW x
  PROVE  Cardinality(Occurrences(Tail(s), x)) =
           Cardinality(Occurrences(s, x)) - (IF Head(s) = x THEN 1 ELSE 0)
  <1> DEFINE n == Len(s)
             C == Occurrences(s, x)
             D == Occurrences(Tail(s), x)
             f == [k \in D |-> k + 1]
  <1>1. n \in Nat \ {0} /\ DOMAIN s = 1..n
    BY LenProperties, EmptySeq
  <1>2. /\ DOMAIN Tail(s) = 1..(n - 1)
        /\ \A k \in 1..(n - 1) : Tail(s)[k] = s[k + 1]
    <2>1. /\ Tail(s) \in Seq(S) /\ Len(Tail(s)) = n - 1
          /\ \A k \in 1..Len(Tail(s)) : Tail(s)[k] = s[k + 1]
      BY HeadTailProperties
    <2> QED BY <2>1, LenProperties
  <1>3. Head(s) = s[1]
    OBVIOUS
  <1>4. /\ \A k : k \in C <=> k \in 1..n /\ s[k] = x
        /\ \A k : k \in D <=> k \in 1..(n - 1) /\ s[k + 1] = x
    BY <1>1, <1>2 DEF Occurrences
  <1>5. IsFiniteSet(D)
    <2>1. Tail(s) \in Seq(S)
      BY HeadTailProperties
    <2> QED BY <2>1, OccursFinite
  <1>6. IsFiniteSet(C) /\ Cardinality(C) \in Nat
    BY OccursFinite
  <1> HIDE DEF C, D, n
  <1>7. f \in Bijection(D, C \ {1})
    <2>1. f \in [D -> C \ {1}]
      BY <1>1, <1>4
    <2>2. \A a, b \in D : f[a] = f[b] => a = b
      BY <1>4
    <2>3. \A k \in C \ {1} : \E a \in D : f[a] = k
      <3> TAKE k \in C \ {1}
      <3>1. k \in 1..n /\ k # 1 /\ s[k] = x
        BY <1>4
      <3>2. k - 1 \in D /\ f[k - 1] = k
        BY <1>1, <1>4, <3>1
      <3> QED BY <3>2
    <2> HIDE DEF f
    <2> QED BY <2>1, <2>2, <2>3
            DEF Bijection, Injection, Surjection, IsInjective
  <1>8. Cardinality(D) = Cardinality(C \ {1})
    <2>1. ExistsBijection(D, C \ {1})
      BY <1>7 DEF ExistsBijection
    <2> QED BY <1>5, <2>1, FS_Bijection
  <1>9. Cardinality(C \ {1}) = IF 1 \in C THEN Cardinality(C) - 1
                                          ELSE Cardinality(C)
    BY <1>6, FS_RemoveElement
  <1>10. 1 \in C <=> Head(s) = x
    BY <1>1, <1>3, <1>4
  <1>11. Cardinality(D) = Cardinality(C) - (IF Head(s) = x THEN 1 ELSE 0)
    BY <1>6, <1>8, <1>9, <1>10
  <1> QED BY <1>11 DEF C, D

(* One member of a finite set moving to p changes how many of them are at    *)
(* the places G by at most one.                                              *)
At(D, f, G) == {x \in D : f[x] \in G}

LEMMA AtFinite ==
  ASSUME NEW D, IsFiniteSet(D), NEW f, NEW G
  PROVE  IsFiniteSet(At(D, f, G)) /\ Cardinality(At(D, f, G)) \in Nat
  <1>1. IsFiniteSet(At(D, f, G))
    BY FS_Subset DEF At
  <1> QED BY <1>1, FS_CardinalityType

LEMMA AtMove ==
  ASSUME NEW D, IsFiniteSet(D), NEW f, NEW g, NEW w \in D, NEW p, NEW G,
         \A x \in D : g[x] = IF x = w THEN p ELSE f[x]
  PROVE  Cardinality(At(D, g, G)) =
           Cardinality(At(D, f, G))
             - (IF f[w] \in G THEN 1 ELSE 0) + (IF p \in G THEN 1 ELSE 0)
  <1> DEFINE A == At(D, f, G)
             B == At(D, g, G)
  <1>1. IsFiniteSet(A) /\ Cardinality(A) \in Nat
    BY AtFinite
  <1>2. w \in A <=> f[w] \in G
    BY DEF At
  <1>3. B = IF p \in G THEN A \cup {w} ELSE A \ {w}
    BY DEF At
  <1>4. /\ Cardinality(A \cup {w}) = IF w \in A THEN Cardinality(A)
                                               ELSE Cardinality(A) + 1
        /\ Cardinality(A \ {w}) = IF w \in A THEN Cardinality(A) - 1
                                             ELSE Cardinality(A)
    BY <1>1, FS_AddElement, FS_RemoveElement
  <1> HIDE DEF A, B
  <1>5. Cardinality(B) = Cardinality(A) - (IF f[w] \in G THEN 1 ELSE 0)
                                        + (IF p \in G THEN 1 ELSE 0)
    BY <1>1, <1>2, <1>3, <1>4
  <1> QED BY <1>5 DEF A, B
(* Induction, for a set: it follows from the well-foundedness of the natural *)
(* numbers, and unlike NatInduction it has no operator as a parameter.       *)
LEMMA SetInduction ==
  ASSUME NEW T, T \subseteq Nat, 0 \in T, \A n \in T : n + 1 \in T
  PROVE  T = Nat
  <1> DEFINE R == OpToRel(<, Nat)
             U == Nat \ T
  <1>1. SUFFICES ASSUME U # {} PROVE FALSE
    OBVIOUS
  <1>2. IsWellFoundedOn(R, Nat)
    BY NatLessThanWellFounded
  <1>3. ASSUME NEW x \in Nat, NEW y \in Nat PROVE <<y, x>> \in R <=> y < x
    BY DEF OpToRel
  <1>4. U \subseteq Nat
    OBVIOUS
  <1> HIDE DEF R, U
  <1>5. PICK x \in U : \A y \in U : ~ (<<y, x>> \in R)
    BY <1>1, <1>2, <1>4, WFMin
  <1>6. x \in Nat /\ x # 0 /\ x \notin T
    BY <1>5 DEF U
  <1>7. x - 1 \in Nat /\ x - 1 < x
    BY <1>6
  <1>8. x - 1 \notin U
    BY <1>3, <1>5, <1>6, <1>7
  <1>9. x - 1 \in T
    BY <1>7, <1>8 DEF U
  <1> QED BY <1>6, <1>9

(* A function can be iterated n times from any of its arguments, and the     *)
(* results are the only sequence that starts there and follows the function. *)
IsIteration(r, n, a, g) ==
  r = [k \in 0..n |-> IF k = 0 THEN a ELSE g[r[k - 1]]]

LEMMA Iterates ==
  ASSUME NEW V, NEW a \in V, NEW g \in [V -> V], NEW m \in Nat
  PROVE  \E r \in [0..m -> V] : IsIteration(r, m, a, g)
  <1> DEFINE Good(n) == \E r \in [0..n -> V] :
                          /\ r[0] = a
                          /\ \A k \in 1..n : r[k] = g[r[k - 1]]
             T == {n \in Nat : Good(n)}
  <1>1. 0 \in T
    <2> DEFINE r == [k \in 0..0 |-> a]
    <2>1. r \in [0..0 -> V] /\ r[0] = a /\ \A k \in 1..0 : FALSE
      OBVIOUS
    <2> HIDE DEF r
    <2> QED BY <2>1
  <1>2. ASSUME NEW n \in T PROVE n + 1 \in T
    <2>1. PICK r \in [0..n -> V] : /\ r[0] = a
                                   /\ \A k \in 1..n : r[k] = g[r[k - 1]]
      BY <1>2
    <2> DEFINE s == [k \in 0..(n + 1) |-> IF k = n + 1 THEN g[r[n]] ELSE r[k]]
    <2>2. n \in Nat
      OBVIOUS
    <2>3. /\ s \in [0..(n + 1) -> V]
          /\ s[0] = a
      BY <2>1, <2>2
    <2>4. ASSUME NEW k \in 1..(n + 1) PROVE s[k] = g[s[k - 1]]
      BY <2>1, <2>2
    <2> HIDE DEF s
    <2>5. Good(n + 1)
      BY <2>3, <2>4
    <2> HIDE DEF Good
    <2> QED BY <2>2, <2>5
  <1>3. T \subseteq Nat
    OBVIOUS
  <1> HIDE DEF T
  <1>4. m \in T
    BY <1>1, <1>2, <1>3, SetInduction
  <1>5. PICK r \in [0..m -> V] : /\ r[0] = a
                                 /\ \A k \in 1..m : r[k] = g[r[k - 1]]
    BY <1>4 DEF T
  <1>6. \A k \in 0..m : r[k] = IF k = 0 THEN a ELSE g[r[k - 1]]
    BY <1>5
  <1>7. r = [k \in 0..m |-> r[k]]
    OBVIOUS
  <1>8. r = [k \in 0..m |-> IF k = 0 THEN a ELSE g[r[k - 1]]]
    BY <1>6, <1>7
  <1> QED BY <1>8 DEF IsIteration
===============================================================================
