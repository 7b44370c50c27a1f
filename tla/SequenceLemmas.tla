--------------------------- MODULE SequenceLemmas ---------------------------
(***************************************************************************)
(* Lemmas about numbers and sequences that the proofs about tables use.    *)
(* Induction is over sets: the library's induction theorems take the       *)
(* property as an operator, which cannot be instantiated, but its theorem  *)
(* on minimal elements does not.                                           *)
(***************************************************************************)
EXTENDS Integers, SequencesExt, SequenceTheorems, WellFoundedInduction, TLAPS

(* A set of natural numbers has a least element: the well-founded          *)
(* induction of the library without an operator as parameter.              *)
LEMMA LeastElement ==
    ASSUME NEW T \in SUBSET Nat, T # {}
    PROVE  \E m \in T : \A k \in T : m <= k
<1> DEFINE R == OpToRel(<, Nat)
<1>1. \E m \in T : \A k \in T : <<k, m>> \notin R
    <2> HIDE DEF R
    <2>1. IsWellFoundedOn(R, Nat)
          BY NatLessThanWellFounded DEF R
    <2> QED BY <2>1, WFMin
<1>2. \A k, m \in T : <<k, m>> \notin R => m <= k
      BY DEF OpToRel
<1> QED BY <1>1, <1>2

(* Induction over the natural numbers, for a property given as a set.      *)
LEMMA SetInduction ==
    ASSUME NEW S, 0 \in S, \A n \in Nat : n \in S => n + 1 \in S
    PROVE  Nat \subseteq S
<1> DEFINE T == Nat \ S
<1> SUFFICES ASSUME T # {} PROVE FALSE
    OBVIOUS
<1>1. PICK m \in T : \A k \in T : m <= k
      BY LeastElement
<1>2. m # 0 /\ m - 1 \in Nat /\ m - 1 \notin T
      BY <1>1
<1> QED BY <1>1, <1>2

(* Induction along 0 .. n, for a property given as a set.                  *)
LEMMA RunInduction ==
    ASSUME NEW n \in Nat, NEW S, 0 \in S, \A i \in 1 .. n : i - 1 \in S => i \in S
    PROVE  \A i \in 0 .. n : i \in S
<1> DEFINE N == {k \in Nat : k <= n => k \in S}
<1>1. 0 \in N
      OBVIOUS
<1>2. ASSUME NEW k \in Nat, k \in N
      PROVE  k + 1 \in N
    <2> SUFFICES ASSUME k + 1 <= n
                 PROVE  k + 1 \in S
        OBVIOUS
    <2>1. k + 1 \in 1 .. n /\ (k + 1) - 1 = k /\ k \in S
          BY <1>2
    <2> QED BY <2>1
<1> HIDE DEF N
<1>3. Nat \subseteq N
      BY <1>1, <1>2, SetInduction
<1> QED BY <1>3 DEF N

(* Of several numbers with a measure one has the least measure, and is the *)
(* first of those: what a scan finds that keeps the first of several best. *)
LEMMA FirstBest ==
    ASSUME NEW T \in SUBSET Nat, T # {}, NEW d \in [T -> Nat]
    PROVE  \E i \in T : \A j \in T \ {i} : d[i] < d[j] \/ (d[i] = d[j] /\ i < j)
<1> DEFINE D == {d[i] : i \in T}
<1>1. PICK m \in D : \A x \in D : m <= x
    <2>1. D \in SUBSET Nat /\ D # {}
          OBVIOUS
    <2> QED BY <2>1, LeastElement
<1> DEFINE B == {i \in T : d[i] = m}
<1>2. PICK i \in B : \A x \in B : i <= x
    <2>1. B \in SUBSET Nat /\ B # {}
          BY <1>1
    <2> QED BY <2>1, LeastElement
<1>3. ASSUME NEW j \in T \ {i}
      PROVE  d[i] < d[j] \/ (d[i] = d[j] /\ i < j)
    <2>1. d[i] = m /\ m <= d[j] /\ d[j] \in Nat /\ m \in Nat /\ i \in Nat /\ j \in Nat
          BY <1>1, <1>2
    <2>2. d[j] = m => i <= j
          BY <1>2
    <2> HIDE DEF D, B
    <2> QED BY <2>1, <2>2
<1> QED BY <1>2, <1>3

-----------------------------------------------------------------------------
(* Recursion.                                                              *)

\* h is the run of the recursion h[i] = f[i][h[i - 1]] that begins with b.
IsRun(h, S, b, f, n) ==
    /\ h \in [0 .. n -> S]
    /\ h[0] = b
    /\ \A i \in 1 .. n : h[i] = f[i][h[i - 1]]

(* Every recursion along 1 .. m has a run: the induction behind the        *)
(* recursive functions below and in Locations.                             *)
LEMMA RunExists ==
    ASSUME NEW S, NEW b \in S, NEW m \in Nat, NEW f \in [1 .. m -> [S -> S]]
    PROVE  \E h : IsRun(h, S, b, f, m)
<1> DEFINE N == {n \in Nat : n <= m => \E h : IsRun(h, S, b, f, n)}
<1>1. 0 \in N
    <2>1. IsRun([i \in 0 .. 0 |-> b], S, b, f, 0)
          BY DEF IsRun
    <2> QED BY <2>1
<1>2. \A n \in Nat : n \in N => n + 1 \in N
    <2> SUFFICES ASSUME NEW n \in Nat, n \in N, n + 1 <= m
                 PROVE  \E h : IsRun(h, S, b, f, n + 1)
        OBVIOUS
    <2>1. PICK h : IsRun(h, S, b, f, n)
          OBVIOUS
    <2> DEFINE g == [i \in 0 .. n + 1 |-> IF i = n + 1 THEN f[n + 1][h[n]] ELSE h[i]]
    <2>2. h[n] \in S /\ f[n + 1] \in [S -> S]
          BY <2>1 DEF IsRun
    <2>3. g \in [0 .. n + 1 -> S]
          BY <2>1, <2>2 DEF IsRun
    <2>4. g[0] = b
          BY <2>1 DEF IsRun
    <2>5. \A i \in 1 .. n + 1 : g[i] = f[i][g[i - 1]]
        <3> TAKE i \in 1 .. n + 1
        <3>1. i = n + 1 \/ i \in 1 .. n
              OBVIOUS
        <3> QED BY <2>1, <3>1 DEF IsRun
    <2> HIDE DEF g
    <2> QED BY <2>3, <2>4, <2>5 DEF IsRun
<1> HIDE DEF N
<1>3. m \in N
      BY <1>1, <1>2, SetInduction
<1> QED BY <1>3 DEF N

(* FlattenSeq joins one sequence after the other.                          *)
LEMMA FlatRun ==
    ASSUME NEW S, NEW seqs \in Seq(Seq(S))
    PROVE  \E h \in [0 .. Len(seqs) -> Seq(S)] :
             /\ h[0] = <<>>
             /\ \A i \in 1 .. Len(seqs) : h[i] = h[i - 1] \o seqs[i]
             /\ FlattenSeq(seqs) = h[Len(seqs)]
<1> DEFINE n == Len(seqs)
           f == [i \in 1 .. n |-> [s \in Seq(S) |-> s \o seqs[i]]]
           flatten == CHOOSE g : g = [i \in 1 .. n |-> IF i = 1 THEN seqs[i] ELSE g[i - 1] \o seqs[i]]
<1>1. n \in Nat /\ \A i \in 1 .. n : seqs[i] \in Seq(S)
      OBVIOUS
<1> HIDE DEF n, flatten
<1>2. f \in [1 .. n -> [Seq(S) -> Seq(S)]]
      BY <1>1
<1>3. \E h : IsRun(h, Seq(S), <<>>, f, n)
    <2> HIDE DEF f, n
    <2>1. <<>> \in Seq(S)
          OBVIOUS
    <2> QED BY <1>1, <1>2, <2>1, RunExists
<1>4. PICK h : IsRun(h, Seq(S), <<>>, f, n)
      BY <1>3
<1>5. h \in [0 .. n -> Seq(S)] /\ h[0] = <<>>
      BY <1>4 DEF IsRun
<1>6. ASSUME NEW i \in 1 .. n
      PROVE  h[i] = h[i - 1] \o seqs[i]
    <2>1. h[i - 1] \in Seq(S)
          BY <1>1, <1>5
    <2>2. h[i] = f[i][h[i - 1]]
          BY <1>4 DEF IsRun
    <2> QED BY <2>1, <2>2
<1> HIDE DEF f
<1>7. CASE n = 0
    <2>1. seqs = <<>>
          BY <1>7 DEF n
    <2> QED BY <1>5, <1>6, <1>7, <2>1 DEF FlattenSeq, n
<1>8. CASE n # 0
    <2> DEFINE k == [i \in 1 .. n |-> h[i]]
    <2>0. h[1] = seqs[1]
        <3>1. 1 \in 1 .. n /\ 1 - 1 = 0
              BY <1>1, <1>8
        <3>2. h[1] = h[0] \o seqs[1]
              BY <1>6, <3>1
        <3> QED BY <1>1, <1>5, <3>1, <3>2
    <2>1. k = [i \in 1 .. n |-> IF i = 1 THEN seqs[i] ELSE k[i - 1] \o seqs[i]]
        <3>1. ASSUME NEW i \in 1 .. n
              PROVE  h[i] = IF i = 1 THEN seqs[i] ELSE k[i - 1] \o seqs[i]
            <4>1. i # 1 => i - 1 \in 1 .. n
                  BY <1>1
            <4> QED BY <1>6, <2>0, <4>1
        <3> QED BY <3>1
    <2>2. flatten = [i \in 1 .. n |-> IF i = 1 THEN seqs[i] ELSE flatten[i - 1] \o seqs[i]]
        <3> HIDE DEF k
        <3> QED BY <2>1, Zenon DEF flatten
    <2> HIDE DEF k
    <2>3. FlattenSeq(seqs) = flatten[n]
          BY <1>8, Zenon DEF FlattenSeq, flatten, n
    <2>9. \A i \in 1 .. n : flatten[i] = IF i = 1 THEN seqs[i] ELSE flatten[i - 1] \o seqs[i]
          BY <2>2
    <2> DEFINE N == {i \in Nat : i \in 1 .. n => flatten[i] = h[i]}
    <2>4. 0 \in N
          OBVIOUS
    <2>5. \A j \in Nat : j \in N => j + 1 \in N
        <3> SUFFICES ASSUME NEW j \in Nat, j \in N, j + 1 \in 1 .. n
                     PROVE  flatten[j + 1] = h[j + 1]
            OBVIOUS
        <3>1. CASE j = 0
              BY <3>1, <2>0, <2>9
        <3>2. CASE j # 0
            <4>1. j \in 1 .. n /\ j + 1 - 1 = j /\ j + 1 # 1
                  BY <1>1, <3>2
            <4>2. flatten[j] = h[j]
                  BY <4>1
            <4> HIDE DEF N
            <4> DEFINE i == j + 1
            <4>3. i \in 1 .. n /\ i - 1 = j /\ i # 1
                  BY <4>1
            <4> HIDE DEF i
            <4>4. flatten[i] = flatten[j] \o seqs[i]
                  BY <2>9, <4>3, Zenon
            <4>5. h[i] = h[j] \o seqs[i]
                  BY <1>6, <4>3, Zenon
            <4> QED BY <4>2, <4>4, <4>5 DEF i
        <3> QED BY <3>1, <3>2
    <2> HIDE DEF N
    <2>6. n \in N
          BY <1>1, <2>4, <2>5, SetInduction
    <2>7. n \in 1 .. n
          BY <1>1, <1>8
    <2>8. flatten[n] = h[n]
          BY <2>6, <2>7 DEF N
    <2> QED BY <1>5, <1>6, <2>3, <2>8 DEF n
<1> QED BY <1>7, <1>8

-----------------------------------------------------------------------------
(* Division.                                                               *)

(* Quotient and remainder of a sum that has them.                          *)
LEMMA DivMod ==
    ASSUME NEW n \in Nat \ {0}, NEW s \in 0 .. n - 1, NEW q \in Int
    PROVE  (s + n * q) \div n = q /\ (s + n * q) % n = s
OBVIOUS

(* A number that is divided without remainder is a multiple.               *)
LEMMA Multiple ==
    ASSUME NEW n \in Nat \ {0}, NEW x \in Int
    PROVE  /\ x % n = 0 => (x \div n) * n = x
           /\ \A k \in Int : (k * n) % n = 0
<1>1. x % n = 0 => (x \div n) * n = x
      OBVIOUS
<1>2. ASSUME NEW k \in Int
      PROVE  (k * n) % n = 0
    <2>1. 0 \in 0 .. n - 1 /\ 0 + n * k = k * n
          OBVIOUS
    <2>2. (0 + n * k) % n = 0
          BY <2>1, DivMod
    <2> QED BY <2>1, <2>2
<1> QED BY <1>1, <1>2

(* Sums and differences of multiples are multiples.                        *)
LEMMA Multiples ==
    ASSUME NEW n \in Nat \ {0}, NEW x \in Int, NEW y \in Int, x % n = 0, y % n = 0
    PROVE  (x - y) % n = 0 /\ (x + y) % n = 0
<1>1. x - y = (x \div n - y \div n) * n /\ x + y = (x \div n + y \div n) * n
    <2>1. x = (x \div n) * n /\ y = (y \div n) * n
          BY Multiple
    <2>2. x \div n \in Int /\ y \div n \in Int
          OBVIOUS
    <2> DEFINE a == x \div n
               b == y \div n
    <2>3. a \in Int /\ b \in Int /\ x = a * n /\ y = b * n
          BY <2>1, <2>2
    <2> HIDE DEF a, b
    <2>4. x - y = (a - b) * n /\ x + y = (a + b) * n
          BY <2>3
    <2> QED BY <2>4 DEF a, b
<1>2. x \div n - y \div n \in Int /\ x \div n + y \div n \in Int
      OBVIOUS
<1> QED BY <1>1, <1>2, Multiple

-----------------------------------------------------------------------------
(* Prefixes.                                                               *)

(* IsPrefix, element by element.                                           *)
LEMMA PrefixIs ==
    ASSUME NEW S, NEW s \in Seq(S), NEW t \in Seq(S)
    PROVE  IsPrefix(s, t) <=> Len(s) <= Len(t) /\ \A i \in 1 .. Len(s) : s[i] = t[i]
<1> SUFFICES ASSUME Len(s) <= Len(t)
             PROVE  SubSeq(s, 1, Len(s)) = SubSeq(t, 1, Len(s)) <=> \A i \in 1 .. Len(s) : s[i] = t[i]
    BY DEF IsPrefix
<1> DEFINE u == SubSeq(t, 1, Len(s))
<1>1. SubSeq(s, 1, Len(s)) = s
      BY SubSeqFull
<1>2. u \in Seq(S) /\ Len(u) = Len(s) /\ \A i \in 1 .. Len(s) : u[i] = t[i]
    <2>1. Len(s) \in Nat /\ Len(t) \in Nat /\ \A i \in 1 .. Len(s) : t[i] \in S
          OBVIOUS
    <2>2. /\ u \in Seq(S)
          /\ Len(u) = IF 1 <= Len(s) THEN Len(s) - 1 + 1 ELSE 0
          /\ \A i \in 1 .. Len(s) - 1 + 1 : u[i] = t[1 + i - 1]
          BY <2>1, SubSeqProperties
    <2>3. \A i \in 1 .. Len(s) : 1 + i - 1 = i
          BY <2>1
    <2> HIDE DEF u
    <2> QED BY <2>1, <2>2, <2>3
<1> HIDE DEF u
<1>3. s = u <=> \A i \in 1 .. Len(s) : s[i] = t[i]
      BY <1>2, SeqEqual
<1> QED BY <1>1, <1>3 DEF u

(* A sequence is a prefix of itself.                                       *)
LEMMA PrefixSelf ==
    ASSUME NEW S, NEW s \in Seq(S)
    PROVE  IsPrefix(s, s)
BY PrefixIs

(* A sequence is a prefix of what continues it.                            *)
LEMMA PrefixConcat ==
    ASSUME NEW S, NEW s \in Seq(S), NEW t \in Seq(S)
    PROVE  IsPrefix(s, s \o t)
<1>1. s \o t \in Seq(S) /\ Len(s) <= Len(s \o t) /\ \A i \in 1 .. Len(s) : (s \o t)[i] = s[i]
      BY ConcatProperties
<1> QED BY <1>1, PrefixIs

(* A sequence is a prefix of itself with an element more.                  *)
LEMMA PrefixAppend ==
    ASSUME NEW S, NEW s \in Seq(S), NEW e \in S
    PROVE  IsPrefix(s, Append(s, e)) /\ IsPrefix(s, s)
<1>1. Append(s, e) \in Seq(S) /\ Len(s) <= Len(Append(s, e))
      /\ \A i \in 1 .. Len(s) : Append(s, e)[i] = s[i]
      BY AppendProperties
<1>2. IsPrefix(s, Append(s, e))
      BY <1>1, PrefixIs
<1>3. IsPrefix(s, s)
      BY PrefixSelf
<1> QED BY <1>2, <1>3

(* A prefix of a prefix is a prefix.                                       *)
LEMMA PrefixTrans ==
    ASSUME NEW S, NEW s \in Seq(S), NEW t \in Seq(S), NEW u \in Seq(S),
           IsPrefix(s, t), IsPrefix(t, u)
    PROVE  IsPrefix(s, u)
<1>1. Len(s) \in Nat /\ Len(t) \in Nat /\ Len(u) \in Nat
      OBVIOUS
<1>2. Len(s) <= Len(t) /\ \A i \in 1 .. Len(s) : s[i] = t[i]
      BY PrefixIs
<1>3. Len(t) <= Len(u) /\ \A i \in 1 .. Len(t) : t[i] = u[i]
      BY PrefixIs
<1>4. Len(s) <= Len(u) /\ \A i \in 1 .. Len(s) : s[i] = u[i]
      BY <1>1, <1>2, <1>3
<1> QED BY <1>4, PrefixIs

(* In a run of growing sequences each is a prefix of the last.             *)
LEMMA PrefixRun ==
    ASSUME NEW S, NEW n \in Nat, NEW h \in [0 .. n -> Seq(S)],
           \A i \in 1 .. n : IsPrefix(h[i - 1], h[i]), NEW m \in 0 .. n
    PROVE  IsPrefix(h[m], h[n])
<1> DEFINE N == {k \in Nat : m + k <= n => IsPrefix(h[m], h[m + k])}
<1>1. 0 \in N
    <2>1. IsPrefix(h[m], h[m])
          BY PrefixSelf
    <2> QED BY <2>1
<1>2. ASSUME NEW k \in Nat, k \in N
      PROVE  k + 1 \in N
    <2> SUFFICES ASSUME m + (k + 1) <= n
                 PROVE  IsPrefix(h[m], h[m + (k + 1)])
        OBVIOUS
    <2> DEFINE j == m + (k + 1)
    <2>1. j \in 1 .. n /\ j - 1 = m + k /\ j - 1 \in 0 .. n /\ j \in 0 .. n
          OBVIOUS
    <2>2. IsPrefix(h[m], h[j - 1])
          BY <1>2, <2>1
    <2> HIDE DEF j, N
    <2>3. h[m] \in Seq(S) /\ h[j - 1] \in Seq(S) /\ h[j] \in Seq(S)
          BY <2>1
    <2>4. IsPrefix(h[m], h[j])
          BY <2>1, <2>2, <2>3, PrefixTrans
    <2> QED BY <2>4 DEF j
<1> HIDE DEF N
<1>3. n - m \in N
    <2>1. \A k \in Nat : k \in N => k + 1 \in N
          BY <1>2
    <2>2. Nat \subseteq N
          BY <1>1, <2>1, SetInduction
    <2> QED BY <2>2
<1> QED BY <1>3 DEF N

(* Prefixes behind a common beginning.                                     *)
LEMMA PrefixWithin ==
    ASSUME NEW S, NEW a \in Seq(S), NEW s \in Seq(S), NEW t \in Seq(S), IsPrefix(s, t)
    PROVE  IsPrefix(a \o s, a \o t)
<1>1. Len(a) \in Nat /\ Len(s) \in Nat /\ Len(t) \in Nat
      OBVIOUS
<1>2. Len(s) <= Len(t) /\ \A i \in 1 .. Len(s) : s[i] = t[i]
      BY PrefixIs
<1>3. /\ a \o s \in Seq(S) /\ Len(a \o s) = Len(a) + Len(s)
      /\ \A i \in 1 .. Len(a) + Len(s) : (a \o s)[i] = IF i <= Len(a) THEN a[i] ELSE s[i - Len(a)]
      BY ConcatProperties
<1>4. /\ a \o t \in Seq(S) /\ Len(a \o t) = Len(a) + Len(t)
      /\ \A i \in 1 .. Len(a) + Len(t) : (a \o t)[i] = IF i <= Len(a) THEN a[i] ELSE t[i - Len(a)]
      BY ConcatProperties
<1> DEFINE x == a \o s
           y == a \o t
<1> HIDE DEF x, y
<1>5. Len(x) <= Len(y) /\ \A i \in 1 .. Len(x) : x[i] = y[i]
    <2>1. Len(x) <= Len(y)
          BY <1>1, <1>2, <1>3, <1>4 DEF x, y
    <2>2. ASSUME NEW i \in 1 .. Len(x)
          PROVE  x[i] = y[i]
        <3>1. i \in 1 .. Len(a) + Len(s) /\ i \in 1 .. Len(a) + Len(t)
              BY <1>1, <1>2, <1>3 DEF x
        <3>2. x[i] = IF i <= Len(a) THEN a[i] ELSE s[i - Len(a)]
              BY <1>3, <3>1 DEF x
        <3>3. y[i] = IF i <= Len(a) THEN a[i] ELSE t[i - Len(a)]
              BY <1>4, <3>1 DEF y
        <3>4. CASE i <= Len(a)
              BY <3>2, <3>3, <3>4
        <3>5. CASE ~ (i <= Len(a))
            <4>1. i - Len(a) \in 1 .. Len(s)
                  BY <1>1, <3>1, <3>5
            <4> QED BY <1>2, <3>2, <3>3, <3>5, <4>1
        <3> QED BY <3>4, <3>5
    <2> QED BY <2>1, <2>2
<1>6. x \in Seq(S) /\ y \in Seq(S)
      BY <1>3, <1>4 DEF x, y
<1>7. IsPrefix(x, y)
      BY <1>5, <1>6, PrefixIs
<1> QED BY <1>7 DEF x, y

-----------------------------------------------------------------------------
(* Folds.                                                                  *)

(* Max is a maximum.                                                       *)
LEMMA MaxOf ==
    ASSUME NEW m \in Nat, NEW s \in SUBSET (1 .. m), s # {}
    PROVE  Max(s) \in s /\ \A y \in s : y <= Max(s)
<1> DEFINE T == {m - y : y \in s}
<1>1. T \in SUBSET Nat /\ T # {}
      OBVIOUS
<1>2. PICK d \in T : \A k \in T : d <= k
      BY <1>1, LeastElement
<1>3. m - d \in s /\ \A y \in s : m - d >= y
      BY <1>2
<1>4. \E x \in s : \A y \in s : x >= y
      BY <1>3
<1>5. Max(s) \in s /\ \A y \in s : Max(s) >= y
      BY <1>4 DEF Max
<1> QED BY <1>5

(* A maximum is Max.                                                       *)
LEMMA MaxIs ==
    ASSUME NEW m \in Nat, NEW s \in SUBSET (1 .. m), NEW x \in s, \A y \in s : y <= x
    PROVE  Max(s) = x
<1>1. Max(s) \in s /\ \A y \in s : y <= Max(s)
      BY MaxOf
<1>2. Max(s) <= x /\ x <= Max(s)
      BY <1>1
<1>3. Max(s) \in Nat /\ x \in Nat
    <2>1. s \subseteq Nat
          OBVIOUS
    <2> HIDE DEF Max
    <2> QED BY <1>1, <2>1
<1> HIDE DEF Max
<1> QED BY <1>2, <1>3

\* g folds every set of numbers up to n, the largest last.
IsFold(g, S, b, f, n) ==
    /\ g \in [SUBSET (1 .. n) -> S]
    /\ \A s \in SUBSET (1 .. n) : g[s] = IF s = {} THEN b ELSE f[Max(s)][g[s \ {Max(s)}]]

(* A fold over sets of numbers exists: what FoldLeft is defined by.        *)
LEMMA FoldExists ==
    ASSUME NEW S, NEW b \in S, NEW m \in Nat, NEW f \in [1 .. m -> [S -> S]]
    PROVE  \E g : IsFold(g, S, b, f, m)
<1> DEFINE N == {n \in Nat : n <= m => \E g : IsFold(g, S, b, f, n)}
<1>1. 0 \in N
    <2> DEFINE g == [s \in SUBSET (1 .. 0) |-> b]
    <2>1. \A s \in SUBSET (1 .. 0) : s = {}
          OBVIOUS
    <2>2. IsFold(g, S, b, f, 0)
          BY <2>1 DEF IsFold
    <2> QED BY <2>2
<1>2. ASSUME NEW n \in Nat, n \in N, n + 1 <= m
      PROVE  \E g : IsFold(g, S, b, f, n + 1)
    <2>1. PICK g : IsFold(g, S, b, f, n)
        <3>1. n <= m
              BY <1>2
        <3> QED BY <1>2, <3>1
    <2> DEFINE k == n + 1
               h == [s \in SUBSET (1 .. k) |-> IF k \in s THEN f[k][g[s \ {k}]] ELSE g[s]]
    <2>2. ASSUME NEW s \in SUBSET (1 .. k), k \in s
          PROVE  s \ {k} \in SUBSET (1 .. n) /\ Max(s) = k /\ s # {}
        <3>1. \A y \in s : y <= k
              OBVIOUS
        <3>2. k \in Nat /\ s \ {k} \in SUBSET (1 .. n) /\ s # {}
              BY <2>2
        <3> HIDE DEF k
        <3>3. Max(s) = k
              BY <2>2, <3>1, <3>2, MaxIs
        <3> QED BY <3>2, <3>3
    <2>3. ASSUME NEW s \in SUBSET (1 .. k), k \notin s
          PROVE  s \in SUBSET (1 .. n)
          BY <2>3
    <2>4. g \in [SUBSET (1 .. n) -> S]
          BY <2>1 DEF IsFold
    <2>5. h \in [SUBSET (1 .. k) -> S]
        <3>1. k \in 1 .. m /\ f[k] \in [S -> S]
              BY <1>2
        <3> HIDE DEF k
        <3>2. ASSUME NEW s \in SUBSET (1 .. k)
              PROVE  (IF k \in s THEN f[k][g[s \ {k}]] ELSE g[s]) \in S
              BY <2>2, <2>3, <2>4, <3>1
        <3> QED BY <3>2
    <2>6. ASSUME NEW s \in SUBSET (1 .. k)
          PROVE  h[s] = IF s = {} THEN b ELSE f[Max(s)][h[s \ {Max(s)}]]
        <3> HIDE DEF k
        <3>1. CASE k \in s
            <4>1. h[s] = f[k][g[s \ {k}]]
                  BY <3>1
            <4>2. s \ {k} \in SUBSET (1 .. k) /\ h[s \ {k}] = g[s \ {k}]
                  OBVIOUS
            <4> QED BY <2>2, <3>1, <4>1, <4>2
        <3>2. CASE k \notin s
            <4>1. s \in SUBSET (1 .. n) /\ h[s] = g[s]
                  BY <2>3, <3>2
            <4>2. g[s] = IF s = {} THEN b ELSE f[Max(s)][g[s \ {Max(s)}]]
                  BY <2>1, <4>1 DEF IsFold
            <4>3. s \ {Max(s)} \in SUBSET (1 .. k) /\ h[s \ {Max(s)}] = g[s \ {Max(s)}]
                  BY <3>2
            <4> QED BY <4>1, <4>2, <4>3
        <3> QED BY <3>1, <3>2
    <2> HIDE DEF h
    <2>7. IsFold(h, S, b, f, k)
          BY <2>5, <2>6 DEF IsFold
    <2> QED BY <2>7
<1>3. \A n \in Nat : n \in N => n + 1 \in N
      BY <1>2
<1> HIDE DEF N
<1>4. m \in N
      BY <1>1, <1>3, SetInduction
<1>5. \E g : IsFold(g, S, b, f, m)
      BY <1>4 DEF N
<1> QED BY <1>5

(* Append adds an element to the range.                                    *)
LEMMA AppendRange ==
    ASSUME NEW S, NEW s \in Seq(S), NEW y \in S
    PROVE  Append(s, y) \in Seq(S) /\ Range(Append(s, y)) = Range(s) \cup {y}
<1> DEFINE a == Append(s, y)
           n == Len(s)
<1>1. /\ n \in Nat /\ DOMAIN s = 1 .. n /\ DOMAIN a = 1 .. n + 1
      /\ a[n + 1] = y /\ \A i \in 1 .. n : a[i] = s[i]
      OBVIOUS
<1>2. a \in Seq(S)
      OBVIOUS
<1> HIDE DEF a, n
<1>3. \A i \in 1 .. n + 1 : i \in 1 .. n \/ i = n + 1
      BY <1>1
<1>40. n + 1 \in 1 .. n + 1 /\ \A i \in 1 .. n : i \in 1 .. n + 1
      BY <1>1
<1>5. Range(a) = {a[i] : i \in 1 .. n + 1} /\ Range(s) = {s[i] : i \in 1 .. n}
      BY <1>1 DEF Range
<1>6. Range(a) = Range(s) \cup {y}
      BY <1>1, <1>3, <1>40, <1>5
<1> QED BY <1>2, <1>6 DEF a

(* The range of a sequence is a set it is a sequence of.                   *)
LEMMA RangeSeq ==
    ASSUME NEW S, NEW s \in Seq(S)
    PROVE  s \in Seq(Range(s))
<1>1. s \in [1 .. Len(s) -> Range(s)] /\ Len(s) \in Nat
      BY DEF Range
<1> QED BY <1>1

(* A sequence over a set is one over a larger set.                         *)
LEMMA SeqWider ==
    ASSUME NEW A, NEW B, A \subseteq B, NEW s \in Seq(A)
    PROVE  s \in Seq(B)
<1>1. Len(s) \in Nat /\ s = [i \in 1 .. Len(s) |-> s[i]] /\ \A i \in 1 .. Len(s) : s[i] \in B
      OBVIOUS
<1> QED BY <1>1

(* A function on 1 .. n into a set is a sequence over it.                  *)
LEMMA FunctionIsSeq ==
    ASSUME NEW S, NEW n \in Nat, NEW f \in [1 .. n -> S]
    PROVE  f \in Seq(S) /\ Len(f) = n
OBVIOUS

(* A function on 1 .. n is a sequence.                                     *)
LEMMA FunctionSeq ==
    ASSUME NEW n \in Nat, NEW f, f = [i \in 1 .. n |-> f[i]]
    PROVE  f \in Seq(Range(f)) /\ Len(f) = n
<1>1. f \in [1 .. n -> Range(f)]
      BY DEF Range
<1> QED BY <1>1

(* RemoveAt, element by element.                                           *)
LEMMA RemoveIs ==
    ASSUME NEW S, NEW s \in Seq(S), NEW k \in 1 .. Len(s)
    PROVE  /\ RemoveAt(s, k) \in Seq(S) /\ Len(RemoveAt(s, k)) = Len(s) - 1
           /\ \A j \in 1 .. Len(s) - 1 :
                 RemoveAt(s, k)[j] = IF j < k THEN s[j] ELSE s[j + 1]
<1> DEFINE n == Len(s)
           a == SubSeq(s, 1, k - 1)
           b == SubSeq(s, k + 1, n)
<1>1. n \in Nat /\ k \in 1 .. n
      OBVIOUS
<1>2. a \in Seq(S) /\ Len(a) = k - 1 /\ \A j \in 1 .. k - 1 : a[j] = s[j]
      OBVIOUS
<1>3. b \in Seq(S) /\ Len(b) = n - k /\ \A j \in 1 .. n - k : b[j] = s[k + j]
      OBVIOUS
<1>4. RemoveAt(s, k) = a \o b
      BY DEF RemoveAt
<1> HIDE DEF a, b, n
<1>5. /\ a \o b \in Seq(S) /\ Len(a \o b) = n - 1
      /\ \A j \in 1 .. n - 1 : (a \o b)[j] = IF j <= k - 1 THEN a[j] ELSE b[j - (k - 1)]
    <2>1. /\ a \o b \in Seq(S) /\ Len(a \o b) = Len(a) + Len(b)
          /\ \A j \in 1 .. Len(a) + Len(b) :
                (a \o b)[j] = IF j <= Len(a) THEN a[j] ELSE b[j - Len(a)]
          BY <1>2, <1>3, ConcatProperties
    <2>2. Len(a) = k - 1 /\ Len(a) + Len(b) = n - 1
          BY <1>1, <1>2, <1>3
    <2> QED BY <2>1, <2>2
<1>6. \A j \in 1 .. n - 1 : (a \o b)[j] = IF j < k THEN s[j] ELSE s[j + 1]
    <2> TAKE j \in 1 .. n - 1
    <2>1. CASE j < k
          BY <1>1, <1>2, <1>5, <2>1, SMTT(30)
    <2>2. CASE ~ (j < k)
        <3>1. j - (k - 1) \in 1 .. n - k /\ k + (j - (k - 1)) = j + 1
              BY <1>1, <2>2
        <3> QED BY <1>1, <1>3, <1>5, <2>2, <3>1, SMTT(30)
    <2> QED BY <2>1, <2>2
<1> QED BY <1>4, <1>5, <1>6 DEF n
=============================================================================
