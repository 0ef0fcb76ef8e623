------------------------------ MODULE Recursion ------------------------------
(***************************************************************************)
(* Induction and recursion over the natural numbers, for the proofs of     *)
(* this project.  The statements are about sets and functions, not about   *)
(* operators: whatever is to be proved of every number is given as the set *)
(* of the numbers that have it.  And what is needed of sequences that are  *)
(* put together and taken apart.                                           *)
(***************************************************************************)
EXTENDS Naturals, SequencesExt, SequenceTheorems, WellFoundedInduction, TLAPS

(* A set of numbers that is not empty has a least one.                     *)
LEMMA LeastNumber ==
  ASSUME NEW T, T \subseteq Nat, T # {}
  PROVE  \E x \in T : \A y \in T : x <= y
<1> DEFINE R == OpToRel(<, Nat)
<1>1. IsWellFoundedOn(R, Nat)
  BY NatLessThanWellFounded
<1>2. \A x, y \in Nat : y < x => <<y, x>> \in R
  BY DEF OpToRel
<1> HIDE DEF R
<1>3. PICK x \in T : \A y \in T : ~ (<<y, x>> \in R)
  BY <1>1, WFMin
<1>4. \A y \in T : ~ (y < x)
  BY <1>2, <1>3
<1>5. QED
  BY <1>3, <1>4

(* Induction.                                                              *)
LEMMA Induction ==
  ASSUME NEW T, 0 \in T, \A n \in Nat : n \in T => n + 1 \in T
  PROVE  Nat \subseteq T
<1> DEFINE Bad == Nat \ T
<1>1. SUFFICES ASSUME Bad # {} PROVE FALSE
  OBVIOUS
<1>2. PICK x \in Bad : \A y \in Bad : x <= y
  BY <1>1, LeastNumber
<1>3. x # 0 /\ x - 1 \in Nat /\ x - 1 \notin Bad
  BY <1>2
<1>4. x \in T
  BY <1>2, <1>3
<1>5. QED
  BY <1>2, <1>4

(* ... of the values of a function.                                        *)
LEMMA EveryValue ==
  ASSUME NEW f, NEW S, f[0] \in S, \A n \in Nat : f[n] \in S => f[n + 1] \in S
  PROVE  \A n \in Nat : f[n] \in S
<1> DEFINE T == {n \in Nat : f[n] \in S}
<1>1. 0 \in T /\ \A n \in Nat : n \in T => n + 1 \in T
  OBVIOUS
<1> HIDE DEF T
<1>2. Nat \subseteq T
  BY <1>1, Induction
<1>3. QED
  BY <1>2 DEF T

(* A step repeated: what f is after n repetitions of g from v0.            *)
Repeats(f, v0, g) == f = [n \in Nat |-> IF n = 0 THEN v0 ELSE g[f[n - 1]]]

(* The first n repetitions.                                                *)
Begun(n, v0, g, V) ==
  {h \in [0 .. n -> V] : h[0] = v0 /\ \A i \in 1 .. n : h[i] = g[h[i - 1]]}

LEMMA BegunExist ==
  ASSUME NEW V, NEW v0 \in V, NEW g \in [V -> V], NEW n \in Nat
  PROVE  Begun(n, v0, g, V) # {}
<1> DEFINE T == {k \in Nat : Begun(k, v0, g, V) # {}}
<1>1. 0 \in T
  <2>1. [i \in 0 .. 0 |-> v0] \in Begun(0, v0, g, V)
    BY DEF Begun
  <2>2. QED
    BY <2>1
<1>2. ASSUME NEW k \in Nat, k \in T
      PROVE  k + 1 \in T
  <2>1. PICK h : h \in Begun(k, v0, g, V)
    BY <1>2
  <2> DEFINE e == [i \in 0 .. k + 1 |-> IF i = k + 1 THEN g[h[k]] ELSE h[i]]
  <2>2. h \in [0 .. k -> V] /\ h[0] = v0 /\ \A i \in 1 .. k : h[i] = g[h[i - 1]]
    BY <2>1 DEF Begun
  <2>3. e \in [0 .. k + 1 -> V]
    BY <2>2
  <2>4. e[0] = v0 /\ \A i \in 1 .. k + 1 : e[i] = g[e[i - 1]]
    BY <2>2
  <2>5. e \in Begun(k + 1, v0, g, V)
    BY <2>3, <2>4 DEF Begun
  <2>6. QED
    BY <2>5
<1> HIDE DEF T
<1>3. Nat \subseteq T
  BY <1>1, <1>2, Induction
<1>4. QED
  BY <1>3 DEF T

LEMMA BegunAgree ==
  ASSUME NEW V, NEW v0 \in V, NEW g \in [V -> V],
         NEW n \in Nat, NEW m \in Nat, NEW h \in Begun(n, v0, g, V), NEW e \in Begun(m, v0, g, V),
         NEW i \in Nat, i <= n, i <= m
  PROVE  h[i] = e[i]
<1> DEFINE T == {k \in Nat : k <= n /\ k <= m => h[k] = e[k]}
<1>1. 0 \in T
  BY DEF Begun
<1>2. ASSUME NEW k \in Nat, k \in T
      PROVE  k + 1 \in T
  BY <1>2 DEF Begun
<1> HIDE DEF T
<1>3. Nat \subseteq T
  BY <1>1, <1>2, Induction
<1>4. QED
  BY <1>3 DEF T

(* There is such a function.                                               *)
LEMMA RepetitionExists ==
  ASSUME NEW V, NEW v0 \in V, NEW g \in [V -> V]
  PROVE  \E f : f \in [Nat -> V] /\ Repeats(f, v0, g)
<1> DEFINE pick(n) == CHOOSE h : h \in Begun(n, v0, g, V)
           f == [n \in Nat |-> pick(n)[n]]
<1>1. \A n \in Nat : pick(n) \in Begun(n, v0, g, V)
  BY BegunExist
<1> HIDE DEF pick
<1>2. f \in [Nat -> V]
  BY <1>1 DEF Begun
<1>3. f[0] = v0
  BY <1>1 DEF Begun
<1>4. ASSUME NEW n \in Nat, n # 0
      PROVE  f[n] = g[f[n - 1]]
  <2>1. n - 1 \in Nat /\ n - 1 <= n
    BY <1>4
  <2>2. pick(n)[n] = g[pick(n)[n - 1]]
    BY <1>1, <1>4 DEF Begun
  <2>3. pick(n)[n - 1] = pick(n - 1)[n - 1]
    BY <1>1, <2>1, BegunAgree
  <2>4. QED
    BY <2>1, <2>2, <2>3
<1> HIDE DEF f
<1>5. DOMAIN f = Nat /\ f = [n \in Nat |-> f[n]]
  BY <1>2
<1>6. \A n \in Nat : f[n] = IF n = 0 THEN v0 ELSE g[f[n - 1]]
  BY <1>3, <1>4
<1>7. QED
  BY <1>2, <1>5, <1>6 DEF Repeats

(* ... also when the step depends on its number.                           *)
Recurs(f, v0, g) == f = [n \in Nat |-> IF n = 0 THEN v0 ELSE g[n][f[n - 1]]]

LEMMA RecursionExists ==
  ASSUME NEW V, NEW v0 \in V, NEW g \in [Nat -> [V -> V]]
  PROVE  \E f : f \in [Nat -> V] /\ Recurs(f, v0, g)
<1> DEFINE P == Nat \X V
           next == [p \in P |-> <<p[1] + 1, g[p[1] + 1][p[2]]>>]
<1>1. <<0, v0>> \in P /\ next \in [P -> P]
  OBVIOUS
<1>2. \A p \in P : next[p] = <<p[1] + 1, g[p[1] + 1][p[2]]>>
  OBVIOUS
<1> HIDE DEF P, next
<1>3. PICK h : h \in [Nat -> P] /\ Repeats(h, <<0, v0>>, next)
  BY <1>1, RepetitionExists
<1>4. h[0] = <<0, v0>> /\ \A n \in Nat : h[n + 1] = next[h[n]]
  <2>1. \A n \in Nat : h[n] = IF n = 0 THEN <<0, v0>> ELSE next[h[n - 1]]
    BY <1>3 DEF Repeats
  <2>2. \A n \in Nat : n + 1 \in Nat /\ n + 1 # 0 /\ (n + 1) - 1 = n
    OBVIOUS
  <2>3. QED
    BY <2>1, <2>2
<1>5. \A n \in Nat : h[n] \in P
  BY <1>3
<1>6. \A n \in Nat : h[n + 1] = <<h[n][1] + 1, g[h[n][1] + 1][h[n][2]]>>
  BY <1>2, <1>4, <1>5
<1> DEFINE N == {n \in Nat : h[n][1] = n}
<1>7. Nat \subseteq N
  <2>1. 0 \in N
    BY <1>4
  <2>2. \A n \in Nat : n \in N => n + 1 \in N
    BY <1>6
  <2> HIDE DEF N
  <2>3. QED
    BY <2>1, <2>2, Induction
<1> DEFINE f == [n \in Nat |-> h[n][2]]
<1>8. f \in [Nat -> V]
  BY <1>5 DEF P
<1>9. ASSUME NEW n \in Nat
      PROVE  f[n] = IF n = 0 THEN v0 ELSE g[n][f[n - 1]]
  <2>1. CASE n = 0
    BY <1>4, <2>1
  <2>2. CASE n # 0
    <3>1. n - 1 \in Nat /\ (n - 1) + 1 = n
      BY <2>2
    <3>2. h[n - 1][1] = n - 1
      BY <1>7, <3>1
    <3>3. h[n] = <<n, g[n][h[n - 1][2]]>>
      BY <1>6, <3>1, <3>2
    <3>4. QED
      BY <2>2, <3>1, <3>3
  <2>3. QED
    BY <2>1, <2>2
<1> HIDE DEF f
<1>10. DOMAIN f = Nat /\ f = [n \in Nat |-> f[n]]
  BY <1>8
<1>11. QED
  BY <1>8, <1>9, <1>10 DEF Recurs

(* ... and when there are only so many steps.                              *)
RecursTo(n, f, v0, g) == f = [k \in 0 .. n |-> IF k = 0 THEN v0 ELSE g[k][f[k - 1]]]

LEMMA FiniteRecursionExists ==
  ASSUME NEW V, NEW v0 \in V, NEW n \in Nat, NEW g \in [1 .. n -> [V -> V]]
  PROVE  \E f : f \in [0 .. n -> V] /\ RecursTo(n, f, v0, g)
<1> DEFINE rest == [v \in V |-> v]
           all == [k \in Nat |-> IF k \in 1 .. n THEN g[k] ELSE rest]
<1>1. rest \in [V -> V] /\ \A k \in 1 .. n : g[k] \in [V -> V] /\ k \in Nat
  OBVIOUS
<1> HIDE DEF rest
<1>2. all \in [Nat -> [V -> V]] /\ \A k \in 1 .. n : all[k] = g[k]
  BY <1>1
<1> HIDE DEF all
<1>3. PICK h : h \in [Nat -> V] /\ Recurs(h, v0, all)
  BY <1>2, RecursionExists
<1>4. \A k \in Nat : h[k] = IF k = 0 THEN v0 ELSE all[k][h[k - 1]]
  BY <1>3 DEF Recurs
<1> DEFINE f == [k \in 0 .. n |-> h[k]]
<1>5. f \in [0 .. n -> V]
  BY <1>3
<1>6. ASSUME NEW k \in 0 .. n
      PROVE  f[k] = IF k = 0 THEN v0 ELSE g[k][f[k - 1]]
  <2>1. CASE k = 0
    BY <1>4, <2>1
  <2>2. CASE k # 0
    <3>1. k \in Nat /\ k \in 1 .. n /\ k - 1 \in 0 .. n
      BY <2>2
    <3>2. h[k] = g[k][h[k - 1]]
      BY <1>2, <1>4, <2>2, <3>1
    <3> QED BY <2>2, <3>1, <3>2
  <2> QED BY <2>1, <2>2
<1> HIDE DEF f
<1>7. f = [k \in 0 .. n |-> f[k]]
  BY <1>5
<1>8. f = [k \in 0 .. n |-> IF k = 0 THEN v0 ELSE g[k][f[k - 1]]]
  BY <1>6, <1>7
<1> QED BY <1>5, <1>8 DEF RecursTo

-----------------------------------------------------------------------------
(***************************************************************************)
(* FlattenSeq, one sequence after the other.                               *)
(***************************************************************************)
Flattening(F, seqs, S) ==
  /\ F \in [0..Len(seqs) -> Seq(S)] /\ F[0] = << >>
  /\ \A k \in 1..Len(seqs) : F[k] = F[k - 1] \o seqs[k]

LEMMA FlattensTo ==
  ASSUME NEW S, NEW seqs \in Seq(Seq(S)), NEW F, Flattening(F, seqs, S)
  PROVE  FlattenSeq(seqs) = F[Len(seqs)]
<1> DEFINE n == Len(seqs)
           Flatten(e) == e = [i \in 1..n |-> IF i = 1 THEN seqs[i] ELSE e[i - 1] \o seqs[i]]
<1>1. n \in Nat /\ \A k \in 1..n : seqs[k] \in Seq(S)
  BY LenProperties, ElementOfSeq
<1>2. /\ F \in [0..n -> Seq(S)] /\ F[0] = << >>
      /\ \A k \in 1..n : F[k] = F[k - 1] \o seqs[k]
  BY DEF Flattening
<1>3. CASE n = 0
  <2>1. seqs = << >>
    BY <1>3, EmptySeq
  <2>2. FlattenSeq(seqs) = seqs
    BY <1>3 DEF FlattenSeq
  <2> QED BY <1>2, <1>3, <2>1, <2>2
<1>4. CASE n # 0
  <2>1. FlattenSeq(seqs) = (CHOOSE e : Flatten(e))[n]
    BY <1>4 DEF FlattenSeq
  <2> HIDE DEF n
  <2>2. 1 \in 1..n /\ F[1] = seqs[1]
    <3>1. 1 \in 1..n
      BY <1>1, <1>4
    <3>2. ASSUME NEW k \in 1..n, k = 1 PROVE F[k] = F[0] \o seqs[k]
      <4>1. F[k] = F[k - 1] \o seqs[k]
        BY <1>2
      <4>2. k - 1 = 0
        BY <3>2
      <4> QED BY <4>1, <4>2
    <3>3. F[1] = << >> \o seqs[1] /\ seqs[1] \in Seq(S)
      BY <1>1, <1>2, <3>1, <3>2
    <3> QED BY <3>1, <3>3, ConcatEmptySeq
  <2> DEFINE f == [i \in 1..n |-> F[i]]
  <2>3. ASSUME NEW i \in 1..n
        PROVE  f[i] = IF i = 1 THEN seqs[i] ELSE f[i - 1] \o seqs[i]
    <3>1. CASE i = 1
      BY <2>2, <3>1
    <3>2. CASE i # 1
      <4>1. i - 1 \in 1..n
        BY <1>1, <3>2
      <4>2. F[i] = F[i - 1] \o seqs[i]
        BY <1>2
      <4> QED BY <3>2, <4>1, <4>2
    <3> QED BY <3>1, <3>2
  <2>4. Flatten(f)
    BY <2>3
  <2> HIDE DEF f
  <2>5. PICK e : e = CHOOSE x : Flatten(x)
    OBVIOUS
  <2>6. Flatten(e)
    BY <2>4, <2>5
  <2> DEFINE T == {k \in Nat : k \in 1..n => e[k] = F[k]}
  <2>7. 0 \in T
    OBVIOUS
  <2>8. ASSUME NEW k \in Nat, k \in T PROVE k + 1 \in T
    <3>1. CASE k = 0
      BY <2>2, <2>6, <3>1
    <3>2. CASE k # 0
      <4>1. ASSUME k + 1 \in 1..n PROVE e[k + 1] = F[k + 1]
        <5>1. k \in 1..n /\ (k + 1) - 1 = k /\ k + 1 # 1
          BY <1>1, <3>2, <4>1
        <5>2. e[k + 1] = e[k] \o seqs[k + 1]
          BY <2>6, <4>1, <5>1
        <5>3. F[k + 1] = F[k] \o seqs[k + 1]
          BY <1>2, <4>1, <5>1
        <5> QED BY <2>8, <5>1, <5>2, <5>3
      <4> QED BY <4>1
    <3> QED BY <3>1, <3>2
  <2> HIDE DEF T
  <2>9. Nat \subseteq T
    BY <2>7, <2>8, Induction
  <2>10. e[n] = F[n]
    BY <1>1, <1>4, <2>9 DEF T
  <2> QED BY <2>1, <2>5, <2>10 DEF n
<1> QED BY <1>3, <1>4

LEMMA FlatteningExists ==
  ASSUME NEW S, NEW seqs \in Seq(Seq(S))
  PROVE  \E F : Flattening(F, seqs, S)
<1> DEFINE n == Len(seqs)
           V == Seq(S)
           g == [k \in Nat |-> [v \in V |-> IF k \in 1..n THEN v \o seqs[k] ELSE v]]
<1>1. n \in Nat /\ \A k \in 1..n : seqs[k] \in V
  BY LenProperties, ElementOfSeq
<1>2. << >> \in V /\ \A v, w \in V : v \o w \in V
  BY EmptySeq, ConcatProperties
<1> HIDE DEF n, V
<1>3. g \in [Nat -> [V -> V]]
  BY <1>1, <1>2
<1>4. \A k \in 1..n, v \in V : g[k][v] = v \o seqs[k]
  BY <1>1
<1> DEFINE v0 == << >>
<1>5. v0 \in V
  BY <1>2
<1> HIDE DEF g, v0
<1>6. PICK f : f \in [Nat -> V] /\ Recurs(f, v0, g)
  BY <1>3, <1>5, RecursionExists
<1>9. \A k \in 1..n : k \in Nat /\ k # 0 /\ k - 1 \in Nat /\ k - 1 \in 0..n /\ k \in 0..n
  BY <1>1
<1>10. f[0] = v0 /\ \A k \in 1..n : f[k] = g[k][f[k - 1]] /\ f[k - 1] \in V
  BY <1>6, <1>9 DEF Recurs
<1> DEFINE F == [k \in 0..n |-> f[k]]
<1>7. F \in [0..n -> V] /\ F[0] = << >>
  BY <1>1, <1>6, <1>10 DEF v0
<1>8. \A k \in 1..n : F[k] = F[k - 1] \o seqs[k]
  BY <1>4, <1>9, <1>10
<1> HIDE DEF F
<1> QED BY <1>7, <1>8 DEF Flattening, n, V

(* A part of a sequence, and its beginning.                                *)
LEMMA CutOut ==
  ASSUME NEW S, NEW pkt, NEW off \in Nat, NEW c \in Seq(S),
         \A j \in 1..Len(c) : pkt[off + j] = c[j]
  PROVE  SubSeq(pkt, off + 1, off + Len(c)) = c
<1> DEFINE m == off + 1
           n == off + Len(c)
<1>1. Len(c) \in Nat /\ \A j \in 1..Len(c) : c[j] \in S
  BY LenProperties, ElementOfSeq
<1>2. m \in Int /\ n \in Int /\ n - m + 1 = Len(c)
  BY <1>1
<1>3. \A i \in m..n : i - off \in 1..Len(c) /\ off + (i - off) = i
  BY <1>1
<1>4. \A i \in m..n : pkt[i] \in S
  BY <1>1, <1>3
<1>5. \A i \in 1..Len(c) : m + i - 1 = off + i
  BY <1>1
<1>6. (IF m <= n THEN n - m + 1 ELSE 0) = Len(c)
  BY <1>1
<1> HIDE DEF m, n
<1>7. /\ SubSeq(pkt, m, n) \in Seq(S)
      /\ Len(SubSeq(pkt, m, n)) = IF m <= n THEN n - m + 1 ELSE 0
      /\ \A i \in 1..n - m + 1 : SubSeq(pkt, m, n)[i] = pkt[m + i - 1]
  BY <1>2, <1>4, SubSeqProperties
<1>8. \A i \in 1..Len(c) : SubSeq(pkt, m, n)[i] = c[i]
  BY <1>2, <1>5, <1>7
<1> QED BY <1>6, <1>7, <1>8, SeqEqual DEF m, n

LEMMA Beginning ==
  ASSUME NEW S, NEW b \in Seq(S), NEW n \in 0..Len(b)
  PROVE  /\ SubSeq(b, 1, n) \in Seq(S) /\ Len(SubSeq(b, 1, n)) = n
         /\ \A j \in 1..n : SubSeq(b, 1, n)[j] = b[j]
<1>1. Len(b) \in Nat /\ n \in Nat /\ \A j \in 1..n : b[j] \in S
  BY LenProperties, ElementOfSeq
<1>2. /\ SubSeq(b, 1, n) \in Seq(S)
      /\ Len(SubSeq(b, 1, n)) = IF 1 <= n THEN n - 1 + 1 ELSE 0
      /\ \A i \in 1..n - 1 + 1 : SubSeq(b, 1, n)[i] = b[1 + i - 1]
  BY <1>1, SubSeqProperties
<1>3. (IF 1 <= n THEN n - 1 + 1 ELSE 0) = n /\ n - 1 + 1 = n
  BY <1>1
<1>4. \A i \in 1..n : 1 + i - 1 = i
  BY <1>1
<1> QED BY <1>2, <1>3, <1>4

(***************************************************************************)
(* What lies in a packet at an offset.                                     *)
(***************************************************************************)
Lies(pkt, off, b) ==
  off + Len(b) <= Len(pkt) /\ \A j \in 1..Len(b) : pkt[off + j] = b[j]

LEMMA LiesInItself == ASSUME NEW S, NEW pkt \in Seq(S) PROVE Lies(pkt, 0, pkt)
BY LenProperties DEF Lies

LEMMA LiesApart ==
  ASSUME NEW S, NEW pkt, NEW off \in Nat, NEW a \in Seq(S), NEW b \in Seq(S),
         Len(pkt) \in Nat, Lies(pkt, off, a \o b)
  PROVE  Lies(pkt, off, a) /\ Lies(pkt, off + Len(a), b)
<1>1. Len(a) \in Nat /\ Len(b) \in Nat
  BY LenProperties
<1>2. /\ Len(a \o b) = Len(a) + Len(b)
      /\ \A i \in 1..Len(a) + Len(b) : (a \o b)[i] = IF i <= Len(a) THEN a[i] ELSE b[i - Len(a)]
  BY ConcatProperties
<1>3. ASSUME NEW j \in 1..Len(a) PROVE pkt[off + j] = a[j]
  <2>1. j \in 1..Len(a) + Len(b) /\ j <= Len(a)
    BY <1>1
  <2>2. (a \o b)[j] = a[j]
    BY <1>2, <2>1
  <2> QED BY <1>2, <2>1, <2>2 DEF Lies
<1>4. ASSUME NEW j \in 1..Len(b) PROVE pkt[off + Len(a) + j] = b[j]
  <2>1. Len(a) + j \in 1..Len(a) + Len(b) /\ (Len(a) + j) - Len(a) = j /\ ~ (Len(a) + j <= Len(a))
    BY <1>1
  <2>2. off + (Len(a) + j) = off + Len(a) + j
    BY <1>1
  <2>3. (a \o b)[Len(a) + j] = b[j]
    BY <1>2, <2>1
  <2>4. pkt[off + (Len(a) + j)] = (a \o b)[Len(a) + j]
    BY <1>2, <2>1 DEF Lies
  <2> QED BY <2>2, <2>3, <2>4
<1>5. off + Len(a) + Len(b) <= Len(pkt) /\ off + Len(a) <= Len(pkt)
  <2>1. off + (Len(a) + Len(b)) <= Len(pkt)
    BY <1>2 DEF Lies
  <2> QED BY <1>1, <2>1
<1> QED BY <1>3, <1>4, <1>5 DEF Lies

LEMMA LiesFlat ==
  ASSUME NEW S, NEW seqs \in Seq(Seq(S)), NEW F, Flattening(F, seqs, S),
         NEW pkt, NEW off \in Nat, Len(pkt) \in Nat, Lies(pkt, off, F[Len(seqs)])
  PROVE  /\ \A k \in 0..Len(seqs) : Lies(pkt, off, F[k])
         /\ \A k \in 1..Len(seqs) : Lies(pkt, off + Len(F[k - 1]), seqs[k])
<1> DEFINE n == Len(seqs)
<1>1. n \in Nat /\ \A k \in 1..n : seqs[k] \in Seq(S)
  BY LenProperties, ElementOfSeq
<1>2. \A k \in 0..n : F[k] \in Seq(S)
  BY DEF Flattening
<1>3. ASSUME NEW k \in 1..n, Lies(pkt, off, F[k])
      PROVE  Lies(pkt, off, F[k - 1]) /\ Lies(pkt, off + Len(F[k - 1]), seqs[k])
  <2>1. F[k] = F[k - 1] \o seqs[k]
    BY DEF Flattening
  <2>2. k - 1 \in 0..n
    BY <1>1
  <2>3. F[k - 1] \in Seq(S) /\ seqs[k] \in Seq(S)
    BY <1>1, <1>2, <2>2
  <2>4. Lies(pkt, off, F[k - 1] \o seqs[k])
    BY <1>3, <2>1
  <2> QED BY <2>3, <2>4, LiesApart
<1> DEFINE T == {d \in Nat : d \in 0..n => Lies(pkt, off, F[n - d])}
<1>4. 0 \in T
  BY <1>1
<1>5. ASSUME NEW d \in Nat, d \in T PROVE d + 1 \in T
  <2>1. ASSUME d + 1 \in 0..n PROVE Lies(pkt, off, F[n - (d + 1)])
    <3>1. d \in 0..n /\ n - d \in 1..n /\ (n - d) - 1 = n - (d + 1)
      BY <1>1, <2>1
    <3>2. Lies(pkt, off, F[n - d])
      BY <1>5, <3>1
    <3> QED BY <1>3, <3>1, <3>2
  <2> QED BY <2>1
<1>6. \A d \in Nat : d \in T <=> (d \in 0..n => Lies(pkt, off, F[n - d]))
  OBVIOUS
<1> HIDE DEF T
<1>7. Nat \subseteq T
  BY <1>4, <1>5, Induction
<1>8. ASSUME NEW k \in 0..n PROVE Lies(pkt, off, F[k])
  <2>1. n - k \in Nat /\ n - k \in 0..n /\ n - (n - k) = k
    BY <1>1
  <2> QED BY <1>6, <1>7, <2>1
<1> QED BY <1>1, <1>3, <1>8

LEMMA SequenceOf ==
  ASSUME NEW S, NEW n \in Nat, NEW f \in [1..n -> S]
  PROVE  f \in Seq(S) /\ Len(f) = n
<1>1. f \in Seq(S)
  BY SeqDef
<1>2. Len(f) \in Nat /\ 1..Len(f) = 1..n
  BY <1>1, LenProperties
<1>3. \A a, b \in Nat : 1..a = 1..b => a <= b
  <2>1. \A a, b \in Nat : 1..a = 1..b /\ a # 0 => a \in 1..b
    OBVIOUS
  <2> QED BY <2>1
<1> QED BY <1>1, <1>2, <1>3
=============================================================================
