---------------------------- MODULE BufferProofs ----------------------------
(***************************************************************************)
(* The buffer implements a queue of bytes, for any block size, number of   *)
(* blocks and sizes of the operations.                                     *)
(*                                                                         *)
(* The data and the space of a list are concatenations of places over its  *)
(* blocks.  The first sections show, by the least-number principle, how    *)
(* FlattenSeq behaves; the next ones what committing, draining, resetting  *)
(* and appending do to the places of a list.  Commit moves the first       *)
(* places of the space to the end of the data and Drain takes the first    *)
(* places from the data, whichever blocks they lie in.  From there on no   *)
(* proof looks into a block: the inductive invariant is over the sequences *)
(* of places alone.                                                        *)
(***************************************************************************)
EXTENDS Buffer, WellFoundedInduction, SequenceTheorems, FiniteSetTheorems, TLAPS

----------------------------------------------------------------------------
(* Induction                                                                *)

\* A non-empty set of natural numbers has a least element.
LEMMA LeastNumber ==
  ASSUME NEW S, S \subseteq Nat, S # {}
  PROVE  \E m \in S : \A n \in S : m <= n
  <1>1. PICK m \in S : \A n \in S : ~(<<n, m>> \in OpToRel(<, Nat))
    BY NatLessThanWellFounded, WFMin
  <1>2. \A n \in S : ~(n < m)
    BY <1>1 DEF OpToRel
  <1> QED
    BY <1>2

\* A set that has 0 and with every number the next has all of them.
LEMMA Induction ==
  ASSUME NEW S, 0 \in S, \A n \in Nat : n \in S => n + 1 \in S
  PROVE  \A n \in Nat : n \in S
  <1> SUFFICES ASSUME Nat \ S # {} PROVE FALSE
    OBVIOUS
  <1>1. PICK m \in Nat \ S : \A n \in Nat \ S : m <= n
    BY LeastNumber
  <1>2. m # 0 /\ m - 1 \in Nat
    BY <1>1
  <1>3. m - 1 \in S
    BY <1>1, <1>2
  <1> QED
    BY <1>1, <1>2, <1>3

\* A function on 1 .. n is a sequence.
LEMMA FunctionIsSeq ==
  ASSUME NEW X, NEW n \in Nat, NEW f \in [1 .. n -> X]
  PROVE  f \in Seq(X) /\ Len(f) = n
  OBVIOUS

\* Min and Max choose what they are to choose.
LEMMA MinIsLeast ==
  ASSUME NEW S, S \subseteq Nat, S # {}
  PROVE  Min(S) \in S /\ \A n \in S : Min(S) <= n
  BY LeastNumber DEF Min

\* The lesser of two numbers, without the CHOOSE of its definition.
LEMMA MinOfTwo ==
  ASSUME NEW a \in Nat, NEW b \in Nat
  PROVE  Min({a, b}) = IF a <= b THEN a ELSE b
  BY MinIsLeast

\* The greater of two numbers, without the CHOOSE of its definition.
LEMMA MaxOfTwo ==
  ASSUME NEW a \in Nat, NEW b \in Nat
  PROVE  Max({a, b}) = IF a <= b THEN b ELSE a
  BY DEF Max

----------------------------------------------------------------------------
(* FlattenSeq                                                               *)

\* The partial concatenations that FlattenSeq is defined by.
IsFlattening(f, s) ==
  f = [i \in 1 .. Len(s) |-> IF i = 1 THEN s[i] ELSE f[i - 1] \o s[i]]

\* They exist, whatever the sequence.
LEMMA FlatteningExists ==
  ASSUME NEW X, NEW s \in Seq(Seq(X))
  PROVE  \E f \in [1 .. Len(s) -> Seq(X)] : IsFlattening(f, s)
  <1> DEFINE Upto(n, f) == f = [i \in 1 .. n |-> IF i = 1 THEN s[i] ELSE f[i - 1] \o s[i]]
             Has(n) == \E f \in [1 .. n -> Seq(X)] : Upto(n, f)
             S == {n \in Nat : n <= Len(s) => Has(n)}
  <1>1. Has(0)
    <2> DEFINE e == [i \in 1 .. 0 |-> <<>>]
    <2>1. e \in [1 .. 0 -> Seq(X)]
      OBVIOUS
    <2>2. Upto(0, e)
      OBVIOUS
    <2> HIDE DEF e
    <2> QED
      BY <2>1, <2>2
  <1>2. ASSUME NEW n \in Nat, n + 1 <= Len(s), Has(n) PROVE Has(n + 1)
    <2>1. PICK g \in [1 .. n -> Seq(X)] : Upto(n, g)
      BY <1>2
    <2> DEFINE h == [i \in 1 .. n + 1 |-> IF i = 1 THEN s[i] ELSE g[i - 1] \o s[i]]
    <2>2. \A i \in 1 .. n + 1 : s[i] \in Seq(X) /\ (i # 1 => i - 1 \in 1 .. n)
      BY <1>2
    <2>3. h \in [1 .. n + 1 -> Seq(X)]
      <3> SUFFICES ASSUME NEW i \in 1 .. n + 1, i # 1 PROVE g[i - 1] \o s[i] \in Seq(X)
        BY <2>2
      <3>1. g[i - 1] \in Seq(X) /\ s[i] \in Seq(X)
        BY <2>2
      <3> QED
        BY <3>1
    <2>4. \A i \in 1 .. n : h[i] = g[i]
      <3> SUFFICES ASSUME NEW i \in 1 .. n PROVE h[i] = g[i]
        OBVIOUS
      <3>1. g[i] = IF i = 1 THEN s[i] ELSE g[i - 1] \o s[i]
        BY <2>1
      <3> QED
        BY <3>1
    <2>5. Upto(n + 1, h)
      <3>1. \A i \in 1 .. n + 1 :
              (IF i = 1 THEN s[i] ELSE g[i - 1] \o s[i]) = (IF i = 1 THEN s[i] ELSE h[i - 1] \o s[i])
        BY <2>2, <2>4
      <3> QED
        BY <3>1
    <2> HIDE DEF h, Upto
    <2> QED
      BY <2>3, <2>5
  <1>3. Len(s) \in S
    <2> HIDE DEF Has
    <2>1. 0 \in S /\ \A n \in Nat : n \in S => n + 1 \in S
      BY <1>1, <1>2
    <2> HIDE DEF S
    <2> QED
      BY <2>1, Induction
  <1>4. Has(Len(s))
    <2> HIDE DEF Has
    <2> QED
      BY <1>3
  <1> QED
    BY <1>4 DEF IsFlattening

\* Two sequences are the same up to their n-th elements.
Agree(s, t, n) == \A i \in 1 .. n : s[i] = t[i]

\* The partial concatenations of two sequences agree where the sequences do.
LEMMA FlatteningsAgree ==
  ASSUME NEW s, NEW t, NEW f, NEW g, NEW n \in Nat, n <= Len(s), n <= Len(t),
         Len(s) \in Nat, Len(t) \in Nat,
         IsFlattening(f, s), IsFlattening(g, t), Agree(s, t, n)
  PROVE  Agree(f, g, n)
  <1> DEFINE S == {k \in Nat : k \in 1 .. n => f[k] = g[k]}
  <1>1. ASSUME NEW k \in 1 .. n
        PROVE  /\ f[k] = IF k = 1 THEN s[k] ELSE f[k - 1] \o s[k]
               /\ g[k] = IF k = 1 THEN s[k] ELSE g[k - 1] \o s[k]
    <2>1. k \in 1 .. Len(s) /\ k \in 1 .. Len(t) /\ s[k] = t[k]
      BY DEF Agree
    <2> QED
      BY <2>1 DEF IsFlattening
  <1>2. ASSUME NEW k \in Nat, k \in S PROVE k + 1 \in S
    <2> SUFFICES ASSUME k + 1 \in 1 .. n PROVE f[k + 1] = g[k + 1]
      OBVIOUS
    <2>1. k + 1 = 1 \/ k \in 1 .. n
      OBVIOUS
    <2>2. k + 1 = 1 \/ f[k] = g[k]
      BY <2>1, <1>2
    <2>3. k + 1 - 1 = k
      OBVIOUS
    <2> QED
      BY <1>1, <2>2, <2>3
  <1>3. 0 \in S
    OBVIOUS
  <1> HIDE DEF S
  <1>4. \A k \in Nat : k \in S
    BY <1>2, <1>3, Induction
  <1> QED
    BY <1>4 DEF S, Agree

\* FlattenSeq is the last of them.
LEMMA FlattenIsLast ==
  ASSUME NEW X, NEW s \in Seq(Seq(X)), NEW f, IsFlattening(f, s), Len(s) # 0
  PROVE  FlattenSeq(s) = f[Len(s)]
  <1> DEFINE c == CHOOSE g : g = [i \in 1 .. Len(s) |-> IF i = 1 THEN s[i] ELSE g[i - 1] \o s[i]]
  <1>1. FlattenSeq(s) = c[Len(s)]
    BY DEF FlattenSeq
  <1>2. IsFlattening(c, s)
    BY FlatteningExists DEF IsFlattening
  <1> HIDE DEF c
  <1>3. Agree(s, s, Len(s))
    BY DEF Agree
  <1>4. Agree(c, f, Len(s))
    BY <1>2, <1>3, FlatteningsAgree
  <1> QED
    BY <1>1, <1>4 DEF Agree

\* FlattenSeq step by step: the empty sequence, and one part more.
LEMMA FlattenEmpty ==
  FlattenSeq(<<>>) = <<>>
  BY DEF FlattenSeq

\* Flattening a sequence is flattening all but its last part, and that part.
LEMMA FlattenStep ==
  ASSUME NEW X, NEW s \in Seq(Seq(X)), Len(s) # 0
  PROVE  /\ FlattenSeq(s) \in Seq(X)
         /\ FlattenSeq(s) = FlattenSeq(SubSeq(s, 1, Len(s) - 1)) \o s[Len(s)]
  <1> DEFINE n == Len(s)
             t == SubSeq(s, 1, n - 1)
  <1>0. n \in Nat \ {0} /\ n \in 1 .. Len(s) /\ s \in [1 .. n -> Seq(X)] /\ n = Len(s)
    OBVIOUS
  <1>1. t \in Seq(Seq(X)) /\ Len(t) = n - 1 /\ \A i \in 1 .. n - 1 : t[i] = s[i]
    <2> HIDE DEF n
    <2>1. \A i \in 1 .. n - 1 : s[i] \in Seq(X)
      BY <1>0
    <2> QED
      BY <1>0, <2>1, SubSeqProperties
  <1>2. PICK f \in [1 .. Len(s) -> Seq(X)] : IsFlattening(f, s)
    BY FlatteningExists
  <1>3. FlattenSeq(s) = f[n]
    BY <1>2, FlattenIsLast
  <1> HIDE DEF n, t
  <1>4. FlattenSeq(s) \in Seq(X)
    BY <1>0, <1>2, <1>3
  <1>5. f[n] = IF n = 1 THEN s[n] ELSE f[n - 1] \o s[n]
    BY <1>0, <1>2 DEF IsFlattening
  <1>6. CASE n = 1
    <2>1. t = <<>>
      BY <1>0, <1>1, <1>6
    <2>2. s[n] \in Seq(X)
      BY <1>0
    <2>3. <<>> \o s[n] = s[n]
      BY <2>2
    <2> QED
      BY <1>3, <1>4, <1>5, <1>6, <2>1, <2>3, FlattenEmpty DEF n, t
  <1>7. CASE n # 1
    <2>1. PICK g \in [1 .. Len(t) -> Seq(X)] : IsFlattening(g, t)
      BY FlatteningExists, <1>1
    <2>2. FlattenSeq(t) = g[n - 1]
      <3>1. t \in Seq(Seq(X)) /\ Len(t) # 0 /\ Len(t) = n - 1
        BY <1>0, <1>1, <1>7
      <3>2. FlattenSeq(t) = g[Len(t)]
        BY <2>1, <3>1, FlattenIsLast
      <3> QED
        BY <3>1, <3>2
    <2>3. n - 1 \in Nat /\ n - 1 <= Len(t) /\ n - 1 <= Len(s) /\ n - 1 \in 1 .. n - 1
      BY <1>0, <1>1, <1>7
    <2>4. Agree(g, f, n - 1)
      <3>1. Len(s) \in Nat /\ Len(t) \in Nat
        BY <1>0, <1>1, <2>3
      <3>2. Agree(t, s, n - 1)
        BY <1>1 DEF Agree
      <3> QED
        BY <1>2, <2>1, <2>3, <3>1, <3>2, FlatteningsAgree
    <2>5. g[n - 1] = f[n - 1]
      BY <2>3, <2>4 DEF Agree
    <2> QED
      BY <1>3, <1>4, <1>5, <1>7, <2>2, <2>5 DEF n, t
  <1> QED
    BY <1>6, <1>7

\* The concatenation of parts i to j.
Flat(s, i, j) == FlattenSeq(SubSeq(s, i, j))

\* An empty stretch of parts flattens to nothing.
LEMMA FlatNone ==
  ASSUME NEW s, NEW i \in Int, NEW j \in Int, j < i
  PROVE  Flat(s, i, j) = <<>>
  BY SubSeqEmpty, FlattenEmpty DEF Flat

\* A stretch that is longer by one part flattens to that part more.
LEMMA FlatNext ==
  ASSUME NEW X, NEW s \in Seq(Seq(X)), NEW i \in 1 .. Len(s), NEW j \in i .. Len(s)
  PROVE  /\ Flat(s, i, j) \in Seq(X)
         /\ Flat(s, i, j) = Flat(s, i, j - 1) \o s[j]
  <1> DEFINE t == SubSeq(s, i, j)
             u == SubSeq(t, 1, Len(t) - 1)
             v == SubSeq(s, i, j - 1)
  <1>1. /\ t \in Seq(Seq(X)) /\ Len(t) = j - i + 1
        /\ \A k \in 1 .. j - i + 1 : t[k] = s[i + k - 1]
    <2>1. \A k \in i .. j : s[k] \in Seq(X)
      OBVIOUS
    <2> QED
      BY <2>1, SubSeqProperties, SMTT(30)
  <1>2. /\ v \in Seq(Seq(X)) /\ Len(v) = j - i
        /\ \A k \in 1 .. j - i : v[k] = s[i + k - 1]
    <2>1. \A k \in i .. j - 1 : s[k] \in Seq(X)
      OBVIOUS
    <2> QED
      BY <2>1, SubSeqProperties
  <1> HIDE DEF t, v
  <1>3. /\ u \in Seq(Seq(X)) /\ Len(u) = j - i
        /\ \A k \in 1 .. j - i : u[k] = t[k]
    <2>1. \A k \in 1 .. Len(t) - 1 : t[k] \in Seq(X)
      BY <1>1
    <2> QED
      BY <1>1, <2>1, SubSeqProperties
  <1> HIDE DEF u
  <1>4. u = v
    <2>1. ASSUME NEW k \in 1 .. Len(u) PROVE u[k] = v[k]
      <3>1. k \in 1 .. j - i /\ k \in 1 .. j - i + 1
        BY <1>3
      <3> QED
        BY <1>1, <1>2, <1>3, <3>1
    <2> QED
      BY <1>2, <1>3, <2>1, SeqEqual
  <1>5. t[Len(t)] = s[j] /\ Len(t) # 0
    BY <1>1
  <1>6. FlattenSeq(t) \in Seq(X) /\ FlattenSeq(t) = FlattenSeq(u) \o t[Len(t)]
    BY <1>1, <1>5, FlattenStep DEF u
  <1> QED
    BY <1>4, <1>5, <1>6 DEF Flat, t, v

\* A flattened stretch is a sequence.
LEMMA FlatType ==
  ASSUME NEW X, NEW s \in Seq(Seq(X)), NEW i \in Nat \ {0}, NEW j \in 0 .. Len(s)
  PROVE  Flat(s, i, j) \in Seq(X) /\ Len(Flat(s, i, j)) \in Nat
  <1>1. CASE j < i
    <2>1. i \in Int /\ j \in Int
      OBVIOUS
    <2>2. Flat(s, i, j) = <<>>
      BY <1>1, <2>1, FlatNone
    <2> QED
      BY <2>2
  <1>2. CASE i <= j
    <2>1. i \in 1 .. Len(s) /\ j \in i .. Len(s)
      BY <1>2
    <2>2. Flat(s, i, j) \in Seq(X)
      BY <2>1, FlatNext
    <2> QED
      BY <2>2
  <1> QED
    BY <1>1, <1>2

\* The parts from the first on, and one more.
LEMMA FlatGrow ==
  ASSUME NEW X, NEW s \in Seq(Seq(X)), NEW j \in Nat, j + 1 <= Len(s)
  PROVE  /\ Flat(s, 1, j) \in Seq(X) /\ Len(Flat(s, 1, j)) \in Nat
         /\ s[j + 1] \in Seq(X)
         /\ Flat(s, 1, j + 1) = Flat(s, 1, j) \o s[j + 1]
  <1>1. /\ 1 \in Nat \ {0} /\ j \in 0 .. Len(s) /\ 1 \in 1 .. Len(s) /\ j + 1 \in 1 .. Len(s)
        /\ (j + 1) - 1 = j
    OBVIOUS
  <1>2. Flat(s, 1, j) \in Seq(X) /\ Len(Flat(s, 1, j)) \in Nat
    BY <1>1, FlatType
  <1>3. Flat(s, 1, j + 1) = Flat(s, 1, (j + 1) - 1) \o s[j + 1]
    BY <1>1, FlatNext
  <1> QED
    BY <1>1, <1>2, <1>3, SMTT(30)

\* A single part is itself.
LEMMA FlatOne ==
  ASSUME NEW X, NEW s \in Seq(Seq(X)), NEW i \in 1 .. Len(s)
  PROVE  Flat(s, i, i) = s[i]
  <1>1. Flat(s, i, i - 1) = <<>>
    BY FlatNone
  <1>2. Flat(s, i, i) = <<>> \o s[i]
    <2>1. i \in i .. Len(s)
      OBVIOUS
    <2> QED
      BY <1>1, <2>1, FlatNext
  <1>3. s[i] \in Seq(X)
    OBVIOUS
  <1> QED
    BY <1>2, <1>3

\* It is cut in two between any two parts.
LEMMA FlatSplit ==
  ASSUME NEW X, NEW s \in Seq(Seq(X)), NEW i \in Nat \ {0}, NEW k \in Nat, NEW j \in Nat,
         i <= k + 1, k <= j, j <= Len(s)
  PROVE  Flat(s, i, j) = Flat(s, i, k) \o Flat(s, k + 1, j)
  <1> DEFINE Cut(d) == Flat(s, i, k + d) = Flat(s, i, k) \o Flat(s, k + 1, k + d)
             S == {d \in Nat : k + d <= Len(s) => Cut(d)}
  <1>0. Flat(s, i, k) \in Seq(X)
    BY FlatType
  <1>1. Cut(0)
    <2>1. Flat(s, k + 1, k + 0) = <<>> /\ k + 0 = k
      BY FlatNone
    <2> QED
      BY <1>0, <2>1
  <1>2. ASSUME NEW d \in Nat, k + (d + 1) <= Len(s), Cut(d) PROVE Cut(d + 1)
    <2> DEFINE e == k + (d + 1)
    <2>1. /\ i \in 1 .. Len(s) /\ k + 1 \in 1 .. Len(s) /\ e \in i .. Len(s)
          /\ e \in k + 1 .. Len(s) /\ e - 1 = k + d /\ k + d \in 0 .. Len(s)
      BY <1>2
    <2> HIDE DEF e
    <2>2. Flat(s, i, e) = Flat(s, i, e - 1) \o s[e] /\ Flat(s, k + 1, e) = Flat(s, k + 1, e - 1) \o s[e]
      BY <2>1, FlatNext
    <2>3. Flat(s, k + 1, k + d) \in Seq(X) /\ s[e] \in Seq(X)
      BY <2>1, FlatType
    <2> DEFINE a == Flat(s, i, k)
               b == Flat(s, k + 1, k + d)
               p == s[e]
    <2>4. (a \o b) \o p = a \o (b \o p)
      <3>1. a \in Seq(X) /\ b \in Seq(X) /\ p \in Seq(X)
        BY <1>0, <2>3
      <3> HIDE DEF a, b, p
      <3> QED
        BY <3>1, ConcatAssociative
    <2> QED
      BY <1>2, <2>1, <2>2, <2>4 DEF e
  <1>3. 0 \in S /\ \A d \in Nat : d \in S => d + 1 \in S
    <2> HIDE DEF Cut
    <2> QED
      BY <1>1, <1>2
  <1> HIDE DEF S
  <1>4. \A d \in Nat : d \in S
    BY <1>3, Induction
  <1>5. j - k \in S /\ k + (j - k) = j
    BY <1>4
  <1> QED
    BY <1>5 DEF S

\* It depends on the parts alone, wherever in the sequence they are.
Shifted(X, s, t, i, j, d) == \A k \in i .. j : t[k] = s[k + d] /\ t[k] \in Seq(X)

\* Stretches of the same parts flatten to the same, wherever they begin.
LEMMA FlatSame ==
  ASSUME NEW X, NEW s, NEW t, NEW i \in Int, NEW j \in Int, NEW d \in Int,
         Shifted(X, s, t, i, j, d)
  PROVE  Flat(t, i, j) = Flat(s, i + d, j + d)
  <1> DEFINE u == SubSeq(t, i, j)
             v == SubSeq(s, i + d, j + d)
             n == IF i <= j THEN j - i + 1 ELSE 0
  <1>1. /\ u \in Seq(Seq(X)) /\ Len(u) = n
        /\ \A k \in 1 .. j - i + 1 : u[k] = t[i + k - 1]
    BY SubSeqProperties DEF Shifted
  <1>2. /\ v \in Seq(Seq(X)) /\ Len(v) = n
        /\ \A k \in 1 .. j - i + 1 : v[k] = s[i + d + k - 1]
    <2>1. \A k \in i + d .. j + d : s[k] \in Seq(X)
      <3> SUFFICES ASSUME NEW k \in i + d .. j + d PROVE s[k] \in Seq(X)
        OBVIOUS
      <3>1. k - d \in i .. j /\ (k - d) + d = k
        OBVIOUS
      <3> QED
        BY <3>1 DEF Shifted
    <2>2. (i + d <= j + d) = (i <= j) /\ (j + d) - (i + d) + 1 = j - i + 1
      OBVIOUS
    <2> QED
      BY <2>1, <2>2, SubSeqProperties
  <1>3. \A k \in 1 .. n : u[k] = v[k]
    <2> SUFFICES ASSUME NEW k \in 1 .. n PROVE u[k] = v[k]
      OBVIOUS
    <2>1. k \in 1 .. j - i + 1 /\ i + k - 1 \in i .. j /\ (i + k - 1) + d = i + d + k - 1
      OBVIOUS
    <2> HIDE DEF u, v, n
    <2> QED
      BY <1>1, <1>2, <2>1 DEF Shifted
  <1> HIDE DEF u, v
  <1>4. u = v
    BY <1>1, <1>2, <1>3, SeqEqual
  <1> QED
    BY <1>4 DEF Flat, u, v

\* Parts with nothing in them give nothing.
LEMMA FlatVoid ==
  ASSUME NEW X, NEW s \in Seq(Seq(X)), NEW i \in Nat \ {0}, NEW j \in 0 .. Len(s),
         \A k \in i .. j : s[k] = <<>>
  PROVE  Flat(s, i, j) = <<>>
  <1> DEFINE S == {d \in Nat : d <= j => Flat(s, i, d) = <<>>}
  <1>1. 0 \in S
    BY FlatNone
  <1>2. ASSUME NEW d \in Nat, d \in S PROVE d + 1 \in S
    <2> SUFFICES ASSUME d + 1 <= j PROVE Flat(s, i, d + 1) = <<>>
      OBVIOUS
    <2>1. CASE d + 1 < i
      <3>1. d + 1 \in Int /\ i \in Int
        OBVIOUS
      <3> QED
        BY <2>1, <3>1, FlatNone
    <2>2. CASE i <= d + 1
      <3>1. i \in 1 .. Len(s) /\ d + 1 \in i .. Len(s) /\ d + 1 \in i .. j /\ (d + 1) - 1 = d
        BY <2>2
      <3>2. Flat(s, i, d + 1) = Flat(s, i, (d + 1) - 1) \o s[d + 1]
        BY <3>1, FlatNext
      <3>3. Flat(s, i, d) = <<>> /\ s[d + 1] = <<>>
        BY <1>2, <3>1
      <3> QED
        BY <3>1, <3>2, <3>3
    <2> QED
      BY <2>1, <2>2
  <1> HIDE DEF S
  <1>3. \A d \in Nat : d \in S
    BY <1>1, <1>2, Induction
  <1> QED
    BY <1>3 DEF S

----------------------------------------------------------------------------
(* The first n elements of a sequence, and the others                       *)

Less(n, m)   == IF n > m THEN n - m ELSE 0
Firsts(s, n) == IF n <= Len(s) THEN SubSeq(s, 1, n) ELSE s
Rest(s, n)   == IF n <= Len(s) THEN SubSeq(s, n + 1, Len(s)) ELSE <<>>

\* The first n elements of a sequence.
LEMMA FirstsAre ==
  ASSUME NEW X, NEW s \in Seq(X), NEW n \in Nat
  PROVE  /\ Firsts(s, n) \in Seq(X)
         /\ Len(Firsts(s, n)) = IF n <= Len(s) THEN n ELSE Len(s)
         /\ \A i \in 1 .. Len(s) : i <= n => Firsts(s, n)[i] = s[i]
  <1>1. CASE n <= Len(s)
    <2>1. \A i \in 1 .. n : s[i] \in X
      BY <1>1
    <2>2. /\ SubSeq(s, 1, n) \in Seq(X) /\ Len(SubSeq(s, 1, n)) = n
          /\ \A i \in 1 .. n : SubSeq(s, 1, n)[i] = s[i]
      BY <2>1, SubSeqProperties
    <2> QED
      BY <1>1, <2>2 DEF Firsts
  <1>2. CASE ~(n <= Len(s))
    BY <1>2 DEF Firsts
  <1> QED
    BY <1>1, <1>2

\* What is left of a sequence without its first n elements.
LEMMA RestIs ==
  ASSUME NEW X, NEW s \in Seq(X), NEW n \in Nat
  PROVE  /\ Rest(s, n) \in Seq(X)
         /\ Len(Rest(s, n)) = Less(Len(s), n)
         /\ \A i \in Nat \ {0} : n + i <= Len(s) => Rest(s, n)[i] = s[n + i]
  <1>1. CASE n <= Len(s)
    <2>1. \A i \in n + 1 .. Len(s) : s[i] \in X
      BY <1>1
    <2>2. /\ SubSeq(s, n + 1, Len(s)) \in Seq(X) /\ Len(SubSeq(s, n + 1, Len(s))) = Len(s) - n
          /\ \A i \in 1 .. Len(s) - n : SubSeq(s, n + 1, Len(s))[i] = s[n + i]
      BY <1>1, <2>1, SubSeqProperties
    <2> QED
      BY <1>1, <2>2 DEF Rest, Less
  <1>2. CASE ~(n <= Len(s))
    BY <1>2 DEF Rest, Less
  <1> QED
    BY <1>1, <1>2

\* The lengths when n elements are cut from a concatenation.
LEMMA CutLengths ==
  ASSUME NEW n \in Nat, NEW x \in Nat, NEW y \in Nat
  PROVE  /\ Less(n, x) \in Nat
         /\ (IF n <= x + y THEN n ELSE x + y)
            = (IF n <= x THEN n ELSE x) + (IF Less(n, x) <= y THEN Less(n, x) ELSE y)
         /\ Less(x + y, n) = Less(x, n) + Less(y, Less(n, x))
  <1>1. CASE n <= x
    BY <1>1 DEF Less
  <1>2. CASE n > x
    BY <1>2 DEF Less
  <1> QED
    BY <1>1, <1>2

\* Of a concatenation, they come from its first part and then from its second.
LEMMA FirstsOfConcat ==
  ASSUME NEW X, NEW s \in Seq(X), NEW t \in Seq(X), NEW n \in Nat
  PROVE  Firsts(s \o t, n) = Firsts(s, n) \o Firsts(t, Less(n, Len(s)))
  <1> DEFINE m == Less(n, Len(s))
             a == Firsts(s \o t, n)
             b == Firsts(s, n)
             c == Firsts(t, m)
  <1>1. m \in Nat /\ m = IF n > Len(s) THEN n - Len(s) ELSE 0
    BY DEF Less
  <1>2. /\ s \o t \in Seq(X) /\ Len(s \o t) = Len(s) + Len(t)
        /\ \A i \in 1 .. Len(s) + Len(t) : (s \o t)[i] = IF i <= Len(s) THEN s[i] ELSE t[i - Len(s)]
    BY ConcatProperties
  <1> HIDE DEF m
  <1>3. /\ a \in Seq(X) /\ Len(a) = IF n <= Len(s) + Len(t) THEN n ELSE Len(s) + Len(t)
        /\ \A i \in 1 .. Len(s) + Len(t) : i <= n => a[i] = (s \o t)[i]
    BY <1>2, FirstsAre
  <1>4. /\ b \in Seq(X) /\ Len(b) = IF n <= Len(s) THEN n ELSE Len(s)
        /\ \A i \in 1 .. Len(s) : i <= n => b[i] = s[i]
    BY FirstsAre
  <1>5. /\ c \in Seq(X) /\ Len(c) = IF m <= Len(t) THEN m ELSE Len(t)
        /\ \A i \in 1 .. Len(t) : i <= m => c[i] = t[i]
    BY <1>1, FirstsAre
  <1> HIDE DEF a, b, c
  <1>a. a \in Seq(X) /\ b \in Seq(X) /\ c \in Seq(X)
    BY <1>3, <1>4, <1>5
  <1>6. /\ b \o c \in Seq(X) /\ Len(b \o c) = Len(b) + Len(c)
        /\ \A i \in 1 .. Len(b) + Len(c) : (b \o c)[i] = IF i <= Len(b) THEN b[i] ELSE c[i - Len(b)]
    BY <1>a, ConcatProperties
  <1>7. Len(a) = Len(b) + Len(c) /\ Len(s) \in Nat /\ Len(t) \in Nat
    <2>1. Len(s) \in Nat /\ Len(t) \in Nat
      OBVIOUS
    <2>2. Len(a) = IF n <= Len(s) + Len(t) THEN n ELSE Len(s) + Len(t)
      BY <1>3
    <2>3. Len(b) = IF n <= Len(s) THEN n ELSE Len(s)
      BY <1>4
    <2>4. Len(c) = IF m <= Len(t) THEN m ELSE Len(t)
      BY <1>5
    <2>5. (IF n <= Len(s) + Len(t) THEN n ELSE Len(s) + Len(t))
          = (IF n <= Len(s) THEN n ELSE Len(s)) + (IF m <= Len(t) THEN m ELSE Len(t))
      BY <2>1, CutLengths DEF m
    <2> QED
      BY <2>1, <2>2, <2>3, <2>4, <2>5
  <1>8. ASSUME NEW i \in 1 .. Len(a) PROVE a[i] = (b \o c)[i]
    <2>1. /\ i \in 1 .. Len(s) + Len(t) /\ i <= n /\ i \in 1 .. Len(b) + Len(c)
      BY <1>3, <1>7
    <2>2. CASE i <= Len(s)
      <3>1. i \in 1 .. Len(s) /\ i <= Len(b)
        BY <1>4, <2>1, <2>2
      <3> QED
        BY <1>2, <1>3, <1>4, <1>6, <2>1, <2>2, <3>1
    <2>3. CASE i > Len(s)
      <3>1. /\ Len(b) = Len(s) /\ i - Len(s) \in 1 .. Len(t) /\ i - Len(s) <= m
            /\ ~(i <= Len(b)) /\ ~(i <= Len(s))
        BY <1>1, <1>4, <2>1, <2>3
      <3> QED
        BY <1>2, <1>3, <1>5, <1>6, <2>1, <3>1
    <2> QED
      BY <2>1, <2>2, <2>3
  <1>9. a = b \o c
    BY <1>3, <1>6, <1>7, <1>8, SeqEqual
  <1> QED
    BY <1>9 DEF a, b, c, m

\* Dropping elements of a concatenation drops those of the first half first.
LEMMA RestOfConcat ==
  ASSUME NEW X, NEW s \in Seq(X), NEW t \in Seq(X), NEW n \in Nat
  PROVE  Rest(s \o t, n) = Rest(s, n) \o Rest(t, Less(n, Len(s)))
  <1> DEFINE m == Less(n, Len(s))
             a == Rest(s \o t, n)
             b == Rest(s, n)
             c == Rest(t, m)
  <1>1. m \in Nat /\ m = IF n > Len(s) THEN n - Len(s) ELSE 0
    BY DEF Less
  <1>2. /\ s \o t \in Seq(X) /\ Len(s \o t) = Len(s) + Len(t)
        /\ \A i \in 1 .. Len(s) + Len(t) : (s \o t)[i] = IF i <= Len(s) THEN s[i] ELSE t[i - Len(s)]
    BY ConcatProperties
  <1> HIDE DEF m
  <1>3. /\ a \in Seq(X) /\ Len(a) = Less(Len(s) + Len(t), n)
        /\ \A i \in Nat \ {0} : n + i <= Len(s) + Len(t) => a[i] = (s \o t)[n + i]
    <2> DEFINE u == s \o t
    <2>1. u \in Seq(X) /\ Len(u) = Len(s) + Len(t)
      BY <1>2
    <2> HIDE DEF u
    <2>2. /\ Rest(u, n) \in Seq(X) /\ Len(Rest(u, n)) = Less(Len(u), n)
          /\ \A i \in Nat \ {0} : n + i <= Len(u) => Rest(u, n)[i] = u[n + i]
      BY <2>1, RestIs
    <2> QED
      BY <2>1, <2>2 DEF u
  <1>4. /\ b \in Seq(X) /\ Len(b) = Less(Len(s), n)
        /\ \A i \in Nat \ {0} : n + i <= Len(s) => b[i] = s[n + i]
    BY RestIs
  <1>5. /\ c \in Seq(X) /\ Len(c) = Less(Len(t), m)
        /\ \A i \in Nat \ {0} : m + i <= Len(t) => c[i] = t[m + i]
    BY <1>1, RestIs
  <1> HIDE DEF a, b, c
  <1>a. a \in Seq(X) /\ b \in Seq(X) /\ c \in Seq(X)
    BY <1>3, <1>4, <1>5
  <1>6. /\ b \o c \in Seq(X) /\ Len(b \o c) = Len(b) + Len(c)
        /\ \A i \in 1 .. Len(b) + Len(c) : (b \o c)[i] = IF i <= Len(b) THEN b[i] ELSE c[i - Len(b)]
    BY <1>a, ConcatProperties
  <1>7. Len(a) = Len(b) + Len(c) /\ Len(s) \in Nat /\ Len(t) \in Nat
    <2>1. Len(s) \in Nat /\ Len(t) \in Nat
      OBVIOUS
    <2>2. Len(a) = Less(Len(s) + Len(t), n) /\ Len(b) = Less(Len(s), n) /\ Len(c) = Less(Len(t), m)
      BY <1>3, <1>4, <1>5
    <2> QED
      BY <2>1, <2>2, CutLengths DEF m
  <1>8. ASSUME NEW i \in 1 .. Len(a) PROVE a[i] = (b \o c)[i]
    <2>1. /\ i \in Nat \ {0} /\ n + i <= Len(s) + Len(t) /\ n + i \in 1 .. Len(s) + Len(t)
          /\ i \in 1 .. Len(b) + Len(c)
      BY <1>3, <1>7 DEF Less
    <2>2. CASE n + i <= Len(s)
      <3>1. i <= Len(b)
        BY <1>4, <2>1, <2>2 DEF Less
      <3> QED
        BY <1>2, <1>3, <1>4, <1>6, <2>1, <2>2, <3>1
    <2>3. CASE n + i > Len(s)
      <3>1. /\ i - Len(b) \in Nat \ {0} /\ m + (i - Len(b)) = n + i - Len(s)
            /\ ~(i <= Len(b)) /\ ~(n + i <= Len(s)) /\ n + i - Len(s) <= Len(t)
        <4>1. Len(b) = Less(Len(s), n)
          BY <1>4
        <4> DEFINE x == Len(s)
                   y == Len(t)
                   z == Len(b)
        <4>2. x \in Nat /\ y \in Nat /\ z = Less(x, n) /\ n + i > x /\ n + i <= x + y
          BY <1>7, <2>1, <2>3, <4>1
        <4>3. m = Less(n, x) /\ i \in Nat \ {0}
          BY <2>1 DEF m
        <4> HIDE DEF x, y, z
        <4>4. /\ i - z \in Nat \ {0} /\ m + (i - z) = n + i - x
              /\ ~(i <= z) /\ ~(n + i <= x) /\ n + i - x <= y
          BY <4>2, <4>3 DEF Less
        <4> QED
          BY <4>4 DEF x, y, z
      <3>2. a[i] = t[n + i - Len(s)]
        BY <1>2, <1>3, <2>1, <3>1, SMTT(30)
      <3>3. (b \o c)[i] = c[i - Len(b)]
        BY <1>6, <2>1, <3>1
      <3>4. c[i - Len(b)] = t[m + (i - Len(b))]
        BY <1>5, <3>1
      <3> QED
        BY <3>1, <3>2, <3>3, <3>4
    <2> QED
      BY <1>7, <2>1, <2>2, <2>3
  <1>9. a = b \o c
    BY <1>3, <1>6, <1>7, <1>8, SeqEqual
  <1> QED
    BY <1>9 DEF a, b, c, m

\* Each part of t is the part of s, cut by what is left of n.
PartsCut(s, t, n) ==
  \A i \in 1 .. Len(s) : t[i] = Rest(s[i], Less(n, Len(Flat(s, 1, i - 1))))

\* Together, they are s cut by n.
LEMMA FlatRest ==
  ASSUME NEW X, NEW s \in Seq(Seq(X)), NEW t \in Seq(Seq(X)), NEW n \in Nat, Len(t) = Len(s),
         PartsCut(s, t, n)
  PROVE  \A j \in 0 .. Len(s) : Flat(t, 1, j) = Rest(Flat(s, 1, j), n)
  <1> DEFINE Ok(j) == Flat(t, 1, j) = Rest(Flat(s, 1, j), n)
             S == {j \in Nat : j <= Len(s) => Ok(j)}
  <1>1. Ok(0)
    <2>1. Flat(t, 1, 0) = <<>> /\ Flat(s, 1, 0) = <<>>
      BY FlatNone
    <2>2. Rest(<<>>, n) = <<>>
      BY DEF Rest
    <2> QED
      BY <2>1, <2>2
  <1>2. ASSUME NEW j \in Nat, j + 1 <= Len(s), Ok(j) PROVE Ok(j + 1)
    <2> DEFINE a == Flat(s, 1, j)
               b == s[j + 1]
    <2>1. j + 1 \in 1 .. Len(s) /\ 1 \in 1 .. Len(s) /\ (j + 1) - 1 = j /\ j \in 0 .. Len(s)
      BY <1>2
    <2>2. Flat(s, 1, j + 1) = a \o b /\ Flat(t, 1, j + 1) = Flat(t, 1, j) \o t[j + 1]
      BY <1>2, FlatGrow
    <2>3. a \in Seq(X) /\ b \in Seq(X)
      BY <2>1, FlatType
    <2>4. t[j + 1] = Rest(b, Less(n, Len(a)))
      BY <2>1 DEF PartsCut
    <2>5. Flat(t, 1, j) = Rest(a, n)
      BY <1>2
    <2> HIDE DEF a, b
    <2>6. Rest(a \o b, n) = Rest(a, n) \o Rest(b, Less(n, Len(a)))
      BY <2>3, RestOfConcat
    <2> QED
      BY <2>2, <2>4, <2>5, <2>6
  <1>3. 0 \in S /\ \A j \in Nat : j \in S => j + 1 \in S
    <2> HIDE DEF Ok
    <2> QED
      BY <1>1, <1>2
  <1> HIDE DEF S
  <1>4. \A j \in Nat : j \in S
    BY <1>3, Induction
  <1> QED
    BY <1>4 DEF S

\* Two concatenations may be joined crosswise.
CrossJoin(a, b, x, y) == (a \o x) \o (b \o y) = (a \o b) \o (x \o y)

\* Two joins that meet in an empty sequence come to the same.
LEMMA ConcatCross ==
  ASSUME NEW X, NEW a \in Seq(X), NEW b \in Seq(X), NEW x \in Seq(X), NEW y \in Seq(X)
  PROVE  b = <<>> \/ x = <<>> => CrossJoin(a, b, x, y)
  <1>1. (a \o x) \o y = a \o (x \o y)
    BY ConcatAssociative, SMT
  <1>2. (a \o b) \o y = a \o (b \o y)
    BY ConcatAssociative, SMT
  <1>3. <<>> \o y = y /\ a \o <<>> = a
    BY ConcatEmptySeq, SMT
  <1> QED
    BY <1>1, <1>2, <1>3, Zenon DEF CrossJoin

\* Each part of t is the part of s and the first of the part of p, by what is left
\* of n; no part of s has anything after a part that p has left.
PartsFilled(s, p, t, n) ==
  \A i \in 1 .. Len(s) :
    /\ t[i] = s[i] \o Firsts(p[i], Less(n, Len(Flat(p, 1, i - 1))))
    /\ s[i] = <<>> \/ Flat(p, 1, i - 1) = <<>>

\* Together, they are s and the first n of p.
LEMMA FlatFill ==
  ASSUME NEW X, NEW s \in Seq(Seq(X)), NEW p \in Seq(Seq(X)), NEW t \in Seq(Seq(X)), NEW n \in Nat,
         Len(p) = Len(s), Len(t) = Len(s), PartsFilled(s, p, t, n)
  PROVE  \A j \in 0 .. Len(s) : Flat(t, 1, j) = Flat(s, 1, j) \o Firsts(Flat(p, 1, j), n)
  <1> DEFINE Ok(j) == Flat(t, 1, j) = Flat(s, 1, j) \o Firsts(Flat(p, 1, j), n)
             S == {j \in Nat : j <= Len(s) => Ok(j)}
  <1>0. Firsts(<<>>, n) = <<>> /\ <<>> \in Seq(X)
    BY DEF Firsts
  <1>1. Ok(0)
    <2>1. Flat(t, 1, 0) = <<>> /\ Flat(s, 1, 0) = <<>> /\ Flat(p, 1, 0) = <<>>
      BY FlatNone
    <2>2. <<>> \o <<>> = <<>>
      BY ConcatEmptySeq, <1>0
    <2> QED
      BY <1>0, <2>1, <2>2
  <1>2. ASSUME NEW j \in Nat, j + 1 <= Len(s), Ok(j) PROVE Ok(j + 1)
    <2> DEFINE a == Flat(s, 1, j)
               b == s[j + 1]
               u == Flat(p, 1, j)
               v == p[j + 1]
               m == Less(n, Len(u))
    <2>1. j + 1 \in 1 .. Len(s) /\ 1 \in 1 .. Len(s) /\ (j + 1) - 1 = j /\ j \in 0 .. Len(s)
      BY <1>2
    <2>2. Flat(s, 1, j + 1) = a \o b /\ Flat(t, 1, j + 1) = Flat(t, 1, j) \o t[j + 1]
      BY <1>2, FlatGrow
    <2>3. Flat(p, 1, j + 1) = u \o v
      BY <1>2, FlatGrow
    <2>4. a \in Seq(X) /\ b \in Seq(X) /\ u \in Seq(X) /\ v \in Seq(X)
      BY <1>2, FlatGrow
    <2>5. t[j + 1] = b \o Firsts(v, m) /\ (b = <<>> \/ u = <<>>)
      BY <2>1 DEF PartsFilled
    <2>6. Flat(t, 1, j) = a \o Firsts(u, n)
      BY <1>2
    <2>7. m \in Nat
      BY <2>4 DEF Less
    <2> HIDE DEF a, b, u, v, m
    <2> DEFINE x == Firsts(u, n)
               y == Firsts(v, m)
    <2>8. x \in Seq(X) /\ y \in Seq(X)
      BY <2>4, <2>7, FirstsAre
    <2>9. Firsts(u \o v, n) = x \o y
      BY <2>4, FirstsOfConcat DEF m
    <2>10. u = <<>> => x = <<>>
      BY <1>0
    <2> HIDE DEF x, y
    <2>11. CrossJoin(a, b, x, y)
      <3>1. b = <<>> \/ x = <<>>
        BY <2>5, <2>10
      <3> QED
        BY <2>4, <2>8, <3>1, ConcatCross
    <2> QED
      BY <2>2, <2>3, <2>5, <2>6, <2>9, <2>11 DEF x, y, CrossJoin
  <1>3. 0 \in S /\ \A j \in Nat : j \in S => j + 1 \in S
    <2> HIDE DEF Ok
    <2> QED
      BY <1>1, <1>2
  <1> HIDE DEF S
  <1>4. \A j \in Nat : j \in S
    BY <1>3, Induction
  <1> QED
    BY <1>4 DEF S

\* One of the first k parts of s has the element v.
Occurs(s, k, v) == \E i \in 1 .. k : \E r \in 1 .. Len(s[i]) : v = s[i][r]

\* What is in a concatenation is in one of its parts.
LEMMA FlatElement ==
  ASSUME NEW X, NEW s \in Seq(Seq(X)), NEW k \in 0 .. Len(s), NEW q \in 1 .. Len(Flat(s, 1, k))
  PROVE  Occurs(s, k, Flat(s, 1, k)[q])
  <1> DEFINE In(j, z) == \E i \in 1 .. j : \E r \in 1 .. Len(s[i]) : Flat(s, 1, j)[z] = s[i][r]
             Ok(j) == \A z \in 1 .. Len(Flat(s, 1, j)) : In(j, z)
             S == {j \in Nat : j <= Len(s) => Ok(j)}
  <1>1. Ok(0)
    <2>1. Flat(s, 1, 0) = <<>>
      BY FlatNone
    <2> QED
      BY <2>1
  <1>2. ASSUME NEW j \in Nat, j + 1 <= Len(s), Ok(j) PROVE Ok(j + 1)
    <2> SUFFICES ASSUME NEW z \in 1 .. Len(Flat(s, 1, j + 1)) PROVE In(j + 1, z)
      OBVIOUS
    <2> DEFINE a == Flat(s, 1, j)
               b == s[j + 1]
    <2>1. j + 1 \in 1 .. Len(s) /\ 1 \in 1 .. Len(s) /\ (j + 1) - 1 = j /\ j \in 0 .. Len(s)
      BY <1>2
    <2>2. Flat(s, 1, j + 1) = a \o b
      BY <2>1, FlatNext
    <2>3. a \in Seq(X) /\ b \in Seq(X) /\ Len(a) \in Nat
      BY <2>1, FlatType
    <2>4. \A y \in 1 .. Len(a) : In(j, y)
      BY <1>2
    <2> HIDE DEF a, b
    <2>5. CASE z <= Len(a)
      <3>1. z \in 1 .. Len(a) /\ (a \o b)[z] = a[z]
        BY <2>2, <2>3, <2>5
      <3>2. PICK i \in 1 .. j : \E r \in 1 .. Len(s[i]) : a[z] = s[i][r]
        BY <2>4, <3>1 DEF a
      <3>3. i \in 1 .. j + 1
        OBVIOUS
      <3> QED
        BY <2>2, <3>1, <3>2, <3>3
    <2>6. CASE z > Len(a)
      <3>1. z - Len(a) \in 1 .. Len(b) /\ (a \o b)[z] = b[z - Len(a)]
        BY <2>2, <2>3, <2>6
      <3>2. j + 1 \in 1 .. j + 1
        OBVIOUS
      <3> QED
        BY <2>2, <3>1, <3>2 DEF b
    <2> QED
      BY <2>3, <2>5, <2>6
  <1>3. 0 \in S /\ \A j \in Nat : j \in S => j + 1 \in S
    <2> HIDE DEF Ok
    <2> QED
      BY <1>1, <1>2
  <1> HIDE DEF S
  <1>4. \A j \in Nat : j \in S
    BY <1>3, Induction
  <1>5. Ok(k)
    <2> HIDE DEF Ok
    <2> QED
      BY <1>4 DEF S
  <1> QED
    BY <1>5 DEF Occurs

----------------------------------------------------------------------------
(* Blocks                                                                   *)

GoodBlock == {b \in Block : b.offset + b.len <= Capacity}

\* Offset, data and space of a block make up its capacity.
LEMMA BlockTypes ==
  ASSUME NEW b \in GoodBlock
  PROVE  /\ b.id \in BlockIds /\ b.offset \in Nat /\ b.len \in Nat /\ SpaceLen(b) \in Nat
         /\ b.offset + b.len + SpaceLen(b) = Capacity /\ Capacity \in Nat \ {0}
  BY BufferAssumption DEF GoodBlock, Block, SpaceLen

\* A block is its number, its offset and its length.
LEMMA SameBlock ==
  ASSUME NEW a \in Block, NEW b \in Block, a.id = b.id, a.offset = b.offset, a.len = b.len
  PROVE  a = b
  BY DEF Block

\* The data and the space of a block have as many places as it says.
LEMMA BlockPlaces ==
  ASSUME NEW b \in GoodBlock
  PROVE  /\ DataPlaces(b) \in Seq(Places) /\ Len(DataPlaces(b)) = b.len
         /\ SpacePlaces(b) \in Seq(Places) /\ Len(SpacePlaces(b)) = SpaceLen(b)
  <1>1. /\ b.id \in BlockIds /\ b.offset \in Nat /\ b.len \in Nat /\ SpaceLen(b) \in Nat
        /\ b.offset + b.len + SpaceLen(b) = Capacity /\ Capacity \in Nat \ {0}
    BY BlockTypes
  <1>2. \A i \in 1 .. b.len : <<b.id, b.offset + i>> \in Places
    BY <1>1 DEF Places
  <1>3. \A i \in 1 .. SpaceLen(b) : <<b.id, b.offset + b.len + i>> \in Places
    BY <1>1 DEF Places
  <1>4. DataPlaces(b) \in [1 .. b.len -> Places] /\ SpacePlaces(b) \in [1 .. SpaceLen(b) -> Places]
    BY <1>2, <1>3 DEF DataPlaces, SpacePlaces
  <1> QED
    BY <1>1, <1>4, FunctionIsSeq

\* Committing into a block: its first free places become its last data.
LEMMA BlockFills ==
  ASSUME NEW b \in GoodBlock, NEW e \in GoodBlock, NEW a \in Nat, e.id = b.id, e.offset = b.offset,
         e.len = b.len + (IF SpaceLen(b) <= a THEN SpaceLen(b) ELSE a)
  PROVE  /\ DataPlaces(e) = DataPlaces(b) \o Firsts(SpacePlaces(b), a)
         /\ SpacePlaces(e) = Rest(SpacePlaces(b), a)
  <1> DEFINE d == DataPlaces(b)
             f == Firsts(SpacePlaces(b), a)
             r == Rest(SpacePlaces(b), a)
  <1>1. /\ b.offset \in Nat /\ b.len \in Nat /\ SpaceLen(b) \in Nat
        /\ SpaceLen(e) \in Nat /\ e.len \in Nat
        /\ b.offset + b.len + SpaceLen(b) = Capacity /\ e.offset + e.len + SpaceLen(e) = Capacity
    BY BlockTypes
  <1>2. /\ d \in Seq(Places) /\ Len(d) = b.len
        /\ SpacePlaces(b) \in Seq(Places) /\ Len(SpacePlaces(b)) = SpaceLen(b)
        /\ DataPlaces(e) \in Seq(Places) /\ Len(DataPlaces(e)) = e.len
        /\ SpacePlaces(e) \in Seq(Places) /\ Len(SpacePlaces(e)) = SpaceLen(e)
    BY BlockPlaces
  <1>3. f \in Seq(Places) /\ Len(f) = IF SpaceLen(b) <= a THEN SpaceLen(b) ELSE a
    <2>1. f \in Seq(Places) /\ Len(f) = IF a <= SpaceLen(b) THEN a ELSE SpaceLen(b)
      BY <1>2, FirstsAre
    <2> QED
      BY <1>1, <2>1
  <1>4. \A i \in 1 .. SpaceLen(b) : i <= a => f[i] = SpacePlaces(b)[i]
    BY <1>2, FirstsAre
  <1>5. r \in Seq(Places) /\ Len(r) = Less(SpaceLen(b), a)
    BY <1>2, RestIs
  <1>6. \A i \in Nat \ {0} : a + i <= SpaceLen(b) => r[i] = SpacePlaces(b)[a + i]
    BY <1>2, RestIs
  <1>7. \A i \in 1 .. b.len : d[i] = <<b.id, b.offset + i>>
    BY DEF DataPlaces
  <1>8. \A i \in 1 .. SpaceLen(b) : SpacePlaces(b)[i] = <<b.id, b.offset + b.len + i>>
    BY DEF SpacePlaces
  <1> HIDE DEF d, f, r
  <1>9. DataPlaces(e) = d \o f
    <2>1. d \o f \in Seq(Places) /\ Len(d \o f) = e.len /\ b.len + Len(f) = e.len
      BY <1>2, <1>3
    <2>a. \A i \in 1 .. e.len : (d \o f)[i] = IF i <= b.len THEN d[i] ELSE f[i - b.len]
      BY <1>2, <1>3, <2>1, ConcatProperties, SMTT(30)
    <2>2. ASSUME NEW i \in 1 .. e.len PROVE DataPlaces(e)[i] = (d \o f)[i]
      <3>1. DataPlaces(e)[i] = <<b.id, b.offset + i>>
        BY DEF DataPlaces
      <3>2. CASE i <= b.len
        <4>1. i \in 1 .. b.len
          BY <1>1, <3>2
        <4>2. (d \o f)[i] = d[i]
          BY <2>a, <3>2
        <4> QED
          BY <1>7, <3>1, <4>1, <4>2
      <3>3. CASE i > b.len
        <4>1. (d \o f)[i] = f[i - b.len]
          <5>1. ~(i <= b.len)
            BY <1>1, <3>3
          <5> QED
            BY <2>a, <5>1
        <4>2. i - b.len \in 1 .. SpaceLen(b) /\ i - b.len <= a
          BY <1>1, <3>3
        <4>3. b.offset + b.len + (i - b.len) = b.offset + i
          BY <1>1
        <4> QED
          BY <1>4, <1>8, <3>1, <4>1, <4>2, <4>3
      <3>4. i <= b.len \/ i > b.len
        BY <1>1
      <3> QED
        BY <3>2, <3>3, <3>4
    <2> QED
      BY <1>2, <2>1, <2>2, SeqEqual
  <1>10. SpacePlaces(e) = r
    <2>1. Len(SpacePlaces(e)) = Len(r)
      BY <1>1, <1>2, <1>5, SMTT(30) DEF Less
    <2>2. ASSUME NEW i \in 1 .. SpaceLen(e) PROVE SpacePlaces(e)[i] = r[i]
      <3>1. SpacePlaces(e)[i] = <<b.id, b.offset + e.len + i>>
        BY DEF SpacePlaces
      <3>2. i \in Nat \ {0} /\ a + i <= SpaceLen(b) /\ a + i \in 1 .. SpaceLen(b)
        BY <1>1
      <3>3. b.offset + b.len + (a + i) = b.offset + e.len + i
        BY <1>1, <3>2
      <3> QED
        BY <1>6, <1>8, <3>1, <3>2, <3>3
    <2> QED
      BY <1>2, <1>5, <2>1, <2>2, SeqEqual
  <1> QED
    BY <1>9, <1>10 DEF d, f, r

\* Consuming from a block: its first data go, its free places stay.
LEMMA BlockEmpties ==
  ASSUME NEW b \in GoodBlock, NEW e \in GoodBlock, NEW a \in Nat, NEW k, e.id = b.id,
         k = IF b.len <= a THEN b.len ELSE a, e.offset = b.offset + k, e.len = b.len - k
  PROVE  /\ DataPlaces(e) = Rest(DataPlaces(b), a)
         /\ SpacePlaces(e) = SpacePlaces(b)
  <1> DEFINE r == Rest(DataPlaces(b), a)
  <1>1. /\ b.offset \in Nat /\ b.len \in Nat /\ SpaceLen(b) \in Nat
        /\ SpaceLen(e) \in Nat /\ e.len \in Nat
        /\ b.offset + b.len + SpaceLen(b) = Capacity /\ e.offset + e.len + SpaceLen(e) = Capacity
    BY BlockTypes
  <1>2. /\ DataPlaces(b) \in Seq(Places) /\ Len(DataPlaces(b)) = b.len
        /\ DataPlaces(e) \in Seq(Places) /\ Len(DataPlaces(e)) = e.len
    BY BlockPlaces
  <1>3. r \in Seq(Places) /\ Len(r) = Less(b.len, a)
    BY <1>2, RestIs
  <1>4. \A i \in Nat \ {0} : a + i <= b.len => r[i] = DataPlaces(b)[a + i]
    BY <1>2, RestIs
  <1>5. \A i \in 1 .. b.len : DataPlaces(b)[i] = <<b.id, b.offset + i>>
    BY DEF DataPlaces
  <1> HIDE DEF r
  <1>6. DataPlaces(e) = r
    <2>1. Len(DataPlaces(e)) = Len(r)
      BY <1>1, <1>2, <1>3 DEF Less
    <2>2. ASSUME NEW i \in 1 .. e.len PROVE DataPlaces(e)[i] = r[i]
      <3>1. DataPlaces(e)[i] = <<b.id, e.offset + i>>
        BY DEF DataPlaces
      <3>2. i \in Nat \ {0} /\ a + i <= b.len /\ a + i \in 1 .. b.len
        BY <1>1
      <3>3. b.offset + (a + i) = e.offset + i
        BY <1>1, <3>2
      <3> QED
        BY <1>4, <1>5, <3>1, <3>2, <3>3
    <2> QED
      BY <1>2, <1>3, <2>1, <2>2, SeqEqual
  <1>7. SpacePlaces(e) = SpacePlaces(b)
    <2>1. SpaceLen(e) = SpaceLen(b) /\ e.offset + e.len = b.offset + b.len
      BY <1>1
    <2> QED
      BY <2>1 DEF SpacePlaces
  <1> QED
    BY <1>6, <1>7 DEF r

----------------------------------------------------------------------------
(* Chains                                                                   *)

DataParts(c)  == [k \in DOMAIN c |-> DataPlaces(c[k])]
SpaceParts(c) == [k \in DOMAIN c |-> SpacePlaces(c[k])]

\* The data and the space of a list of blocks, block by block.
LEMMA ChainParts ==
  ASSUME NEW c \in Seq(GoodBlock)
  PROVE  /\ DataParts(c) \in Seq(Seq(Places)) /\ Len(DataParts(c)) = Len(c)
         /\ SpaceParts(c) \in Seq(Seq(Places)) /\ Len(SpaceParts(c)) = Len(c)
         /\ \A k \in 1 .. Len(c) :
              DataParts(c)[k] = DataPlaces(c[k]) /\ SpaceParts(c)[k] = SpacePlaces(c[k])
  <1>1. c \in [1 .. Len(c) -> GoodBlock] /\ Len(c) \in Nat /\ DOMAIN c = 1 .. Len(c)
    OBVIOUS
  <1>2. \A k \in 1 .. Len(c) : DataPlaces(c[k]) \in Seq(Places) /\ SpacePlaces(c[k]) \in Seq(Places)
    BY <1>1, BlockPlaces
  <1>3. DataParts(c) \in [1 .. Len(c) -> Seq(Places)] /\ SpaceParts(c) \in [1 .. Len(c) -> Seq(Places)]
    BY <1>1, <1>2 DEF DataParts, SpaceParts
  <1>4. \A k \in 1 .. Len(c) :
          DataParts(c)[k] = DataPlaces(c[k]) /\ SpaceParts(c)[k] = SpacePlaces(c[k])
    BY <1>1 DEF DataParts, SpaceParts
  <1>5. /\ DataParts(c) \in Seq(Seq(Places)) /\ Len(DataParts(c)) = Len(c)
        /\ SpaceParts(c) \in Seq(Seq(Places)) /\ Len(SpaceParts(c)) = Len(c)
    BY <1>1, <1>3, FunctionIsSeq
  <1> QED
    BY <1>4, <1>5

\* The data and the space of a stretch of blocks are the flattened parts.
LEMMA OfIsFlat ==
  ASSUME NEW c, NEW i, NEW j
  PROVE  DataOf(c, i, j) = Flat(DataParts(c), i, j) /\ SpaceOf(c, i, j) = Flat(SpaceParts(c), i, j)
  BY DEF DataOf, SpaceOf, Flat, DataParts, SpaceParts

\* They are sequences of places, and their sizes are numbers.
LEMMA OfTypes ==
  ASSUME NEW c \in Seq(GoodBlock), NEW i \in Nat \ {0}, NEW j \in 0 .. Len(c)
  PROVE  /\ DataOf(c, i, j) \in Seq(Places) /\ Len(DataOf(c, i, j)) \in Nat
         /\ SpaceOf(c, i, j) \in Seq(Places) /\ Len(SpaceOf(c, i, j)) \in Nat
         /\ SpaceIn(c, i, j) \in Nat
  <1>1. /\ DataParts(c) \in Seq(Seq(Places)) /\ Len(DataParts(c)) = Len(c)
        /\ SpaceParts(c) \in Seq(Seq(Places)) /\ Len(SpaceParts(c)) = Len(c)
    BY ChainParts
  <1>2. j \in 0 .. Len(DataParts(c)) /\ j \in 0 .. Len(SpaceParts(c))
    BY <1>1
  <1>3. Flat(DataParts(c), i, j) \in Seq(Places) /\ Len(Flat(DataParts(c), i, j)) \in Nat
    BY <1>1, <1>2, FlatType
  <1>4. Flat(SpaceParts(c), i, j) \in Seq(Places) /\ Len(Flat(SpaceParts(c), i, j)) \in Nat
    BY <1>1, <1>2, FlatType
  <1> QED
    BY <1>3, <1>4, OfIsFlat DEF SpaceIn

\* The sizes of what lies before a block.
LEMMA SizesBefore ==
  ASSUME NEW c \in Seq(GoodBlock), NEW i \in 1 .. Len(c)
  PROVE  SpaceIn(c, 1, i - 1) \in Nat /\ Len(DataOf(c, 1, i - 1)) \in Nat
  <1>1. i - 1 \in 0 .. Len(c) /\ 1 \in Nat \ {0}
    OBVIOUS
  <1> QED
    BY <1>1, OfTypes

\* The shape the list keeps: full blocks, then at most one that is partly filled,
\* at end_, then empty ones; only the first was consumed from.
Shaped(c, e) ==
  /\ c = <<>> <=> e = 0
  /\ \A i \in 1 .. Len(c) :
       /\ c[i].offset < Capacity
       /\ i > 1 => c[i].offset = 0
       /\ i < e => SpaceLen(c[i]) = 0
       /\ i > e => c[i].len = 0

FirstOf(c, e) == IF e # 0 /\ SpaceLen(c[e]) = 0 THEN e + 1 ELSE Max({e, 1})

\* Before the first block with space there is none, and after it there is no data.
LEMMA FirstOfShaped ==
  ASSUME NEW c \in Seq(GoodBlock), NEW e \in 0 .. Len(c), Shaped(c, e)
  PROVE  /\ FirstOf(c, e) \in 1 .. Len(c) + 1
         /\ e <= FirstOf(c, e) /\ FirstOf(c, e) <= e + 1
         /\ \A i \in 1 .. Len(c) : i < FirstOf(c, e) => SpaceLen(c[i]) = 0
         /\ FirstOf(c, e) <= Len(c) => SpaceLen(c[FirstOf(c, e)]) > 0
  <1>1. Len(c) \in Nat /\ \A i \in 1 .. Len(c) : c[i] \in GoodBlock
    OBVIOUS
  <1>2. Max({e, 1}) = IF e = 0 THEN 1 ELSE e
    BY MaxOfTwo
  <1>3. CASE e = 0
    BY <1>1, <1>2, <1>3 DEF FirstOf, Shaped
  <1>4. CASE e # 0 /\ SpaceLen(c[e]) = 0
    <2>1. FirstOf(c, e) = e + 1
      BY <1>4 DEF FirstOf
    <2>2. \A i \in 1 .. Len(c) : i < e + 1 => SpaceLen(c[i]) = 0
      BY <1>4 DEF Shaped
    <2>3. e + 1 <= Len(c) => SpaceLen(c[e + 1]) > 0
      <3> SUFFICES ASSUME e + 1 <= Len(c) PROVE SpaceLen(c[e + 1]) > 0
        OBVIOUS
      <3>1. e + 1 \in 1 .. Len(c) /\ c[e + 1] \in GoodBlock
        BY <1>1
      <3>2. c[e + 1].len = 0 /\ c[e + 1].offset < Capacity
        BY <3>1 DEF Shaped
      <3> QED
        BY <3>1, <3>2, BlockTypes
    <2> QED
      BY <1>4, <2>1, <2>2, <2>3
  <1>5. CASE e # 0 /\ SpaceLen(c[e]) # 0
    <2>1. FirstOf(c, e) = e
      BY <1>2, <1>5 DEF FirstOf
    <2>2. c[e] \in GoodBlock
      BY <1>1, <1>5
    <2>3. SpaceLen(c[e]) > 0
      BY <1>5, <2>2, BlockTypes
    <2> QED
      BY <1>5, <2>1, <2>3 DEF Shaped
  <1> QED
    BY <1>3, <1>4, <1>5

\* Blocks without space, or without data, contribute none.
LEMMA NoSpace ==
  ASSUME NEW c \in Seq(GoodBlock), NEW i \in Nat \ {0}, NEW j \in 0 .. Len(c),
         \A k \in i .. j : SpaceLen(c[k]) = 0
  PROVE  SpaceOf(c, i, j) = <<>>
  <1> DEFINE s == SpaceParts(c)
  <1>1. s \in Seq(Seq(Places)) /\ Len(s) = Len(c)
    BY ChainParts
  <1>2. ASSUME NEW k \in i .. j PROVE s[k] = <<>>
    <2>1. k \in 1 .. Len(c) /\ c[k] \in GoodBlock
      OBVIOUS
    <2>2. s[k] = SpacePlaces(c[k])
      BY <2>1, ChainParts
    <2>3. SpacePlaces(c[k]) \in Seq(Places) /\ Len(SpacePlaces(c[k])) = 0
      BY <2>1, BlockPlaces
    <2> QED
      BY <2>2, <2>3
  <1> HIDE DEF s
  <1>3. Flat(s, i, j) = <<>>
    BY <1>1, <1>2, FlatVoid
  <1> QED
    BY <1>3, OfIsFlat DEF s

\* Blocks without data have none together.
LEMMA NoData ==
  ASSUME NEW c \in Seq(GoodBlock), NEW i \in Nat \ {0}, NEW j \in 0 .. Len(c),
         \A k \in i .. j : c[k].len = 0
  PROVE  DataOf(c, i, j) = <<>>
  <1> DEFINE s == DataParts(c)
  <1>1. s \in Seq(Seq(Places)) /\ Len(s) = Len(c)
    BY ChainParts
  <1>2. ASSUME NEW k \in i .. j PROVE s[k] = <<>>
    <2>1. k \in 1 .. Len(c) /\ c[k] \in GoodBlock
      OBVIOUS
    <2>2. s[k] = DataPlaces(c[k])
      BY <2>1, ChainParts
    <2>3. DataPlaces(c[k]) \in Seq(Places) /\ Len(DataPlaces(c[k])) = 0
      BY <2>1, BlockPlaces
    <2> QED
      BY <2>2, <2>3
  <1> HIDE DEF s
  <1>3. Flat(s, i, j) = <<>>
    BY <1>1, <1>2, FlatVoid
  <1> QED
    BY <1>3, OfIsFlat DEF s

\* One block more, and a cut between two blocks.
LEMMA OfGrow ==
  ASSUME NEW c \in Seq(GoodBlock), NEW j \in 1 .. Len(c)
  PROVE  /\ DataOf(c, 1, j) = DataOf(c, 1, j - 1) \o DataPlaces(c[j])
         /\ SpaceOf(c, 1, j) = SpaceOf(c, 1, j - 1) \o SpacePlaces(c[j])
         /\ Len(DataOf(c, 1, j)) = Len(DataOf(c, 1, j - 1)) + c[j].len
         /\ SpaceIn(c, 1, j) = SpaceIn(c, 1, j - 1) + SpaceLen(c[j])
  <1>1. /\ DataParts(c) \in Seq(Seq(Places)) /\ Len(DataParts(c)) = Len(c)
        /\ SpaceParts(c) \in Seq(Seq(Places)) /\ Len(SpaceParts(c)) = Len(c)
        /\ DataParts(c)[j] = DataPlaces(c[j]) /\ SpaceParts(c)[j] = SpacePlaces(c[j])
    BY ChainParts
  <1>2. j - 1 \in Nat /\ (j - 1) + 1 = j /\ j <= Len(c) /\ c[j] \in GoodBlock /\ j - 1 \in 0 .. Len(c)
        /\ 1 \in Nat \ {0}
    OBVIOUS
  <1>3. DataOf(c, 1, j) = DataOf(c, 1, j - 1) \o DataPlaces(c[j])
    <2> DEFINE s == DataParts(c)
    <2>1. s \in Seq(Seq(Places)) /\ (j - 1) + 1 <= Len(s)
      BY <1>1, <1>2
    <2> HIDE DEF s
    <2>2. Flat(s, 1, (j - 1) + 1) = Flat(s, 1, j - 1) \o s[(j - 1) + 1]
      BY <1>2, <2>1, FlatGrow
    <2> QED
      BY <1>1, <1>2, <2>2, OfIsFlat DEF s
  <1>4. SpaceOf(c, 1, j) = SpaceOf(c, 1, j - 1) \o SpacePlaces(c[j])
    <2> DEFINE s == SpaceParts(c)
    <2>1. s \in Seq(Seq(Places)) /\ (j - 1) + 1 <= Len(s)
      BY <1>1, <1>2
    <2> HIDE DEF s
    <2>2. Flat(s, 1, (j - 1) + 1) = Flat(s, 1, j - 1) \o s[(j - 1) + 1]
      BY <1>2, <2>1, FlatGrow
    <2> QED
      BY <1>1, <1>2, <2>2, OfIsFlat DEF s
  <1>5. /\ DataOf(c, 1, j - 1) \in Seq(Places) /\ SpaceOf(c, 1, j - 1) \in Seq(Places)
    BY <1>2, OfTypes
  <1>6. /\ DataPlaces(c[j]) \in Seq(Places) /\ Len(DataPlaces(c[j])) = c[j].len
        /\ SpacePlaces(c[j]) \in Seq(Places) /\ Len(SpacePlaces(c[j])) = SpaceLen(c[j])
    BY <1>2, BlockPlaces
  <1>7. /\ Len(DataOf(c, 1, j - 1) \o DataPlaces(c[j])) = Len(DataOf(c, 1, j - 1)) + c[j].len
    BY <1>5, <1>6
  <1>8. /\ Len(SpaceOf(c, 1, j - 1) \o SpacePlaces(c[j])) = Len(SpaceOf(c, 1, j - 1)) + SpaceLen(c[j])
    <2> DEFINE a == SpaceOf(c, 1, j - 1)
               b == SpacePlaces(c[j])
    <2>1. a \in Seq(Places) /\ b \in Seq(Places) /\ Len(b) = SpaceLen(c[j])
      BY <1>5, <1>6
    <2> HIDE DEF a, b
    <2>2. Len(a \o b) = Len(a) + Len(b)
      BY <2>1
    <2> QED
      BY <2>1, <2>2 DEF a, b
  <1>9. Len(DataOf(c, 1, j)) = Len(DataOf(c, 1, j - 1)) + c[j].len
    BY <1>3, <1>7
  <1>10. SpaceIn(c, 1, j) = SpaceIn(c, 1, j - 1) + SpaceLen(c[j])
    BY <1>4, <1>8 DEF SpaceIn
  <1> QED
    BY <1>3, <1>4, <1>9, <1>10

\* A stretch of blocks may be cut anywhere.
LEMMA OfSplit ==
  ASSUME NEW c \in Seq(GoodBlock), NEW i \in Nat \ {0}, NEW k \in Nat, NEW j \in Nat,
         i <= k + 1, k <= j, j <= Len(c)
  PROVE  /\ DataOf(c, i, j) = DataOf(c, i, k) \o DataOf(c, k + 1, j)
         /\ SpaceOf(c, i, j) = SpaceOf(c, i, k) \o SpaceOf(c, k + 1, j)
         /\ SpaceIn(c, i, j) = SpaceIn(c, i, k) + SpaceIn(c, k + 1, j)
         /\ Len(DataOf(c, i, j)) = Len(DataOf(c, i, k)) + Len(DataOf(c, k + 1, j))
  <1>1. /\ DataParts(c) \in Seq(Seq(Places)) /\ Len(DataParts(c)) = Len(c)
        /\ SpaceParts(c) \in Seq(Seq(Places)) /\ Len(SpaceParts(c)) = Len(c)
    BY ChainParts
  <1>2. DataOf(c, i, j) = DataOf(c, i, k) \o DataOf(c, k + 1, j)
    <2> DEFINE s == DataParts(c)
    <2>1. s \in Seq(Seq(Places)) /\ j <= Len(s)
      BY <1>1
    <2> HIDE DEF s
    <2>2. Flat(s, i, j) = Flat(s, i, k) \o Flat(s, k + 1, j)
      BY <2>1, FlatSplit
    <2> QED
      BY <2>2, OfIsFlat DEF s
  <1>3. SpaceOf(c, i, j) = SpaceOf(c, i, k) \o SpaceOf(c, k + 1, j)
    <2> DEFINE s == SpaceParts(c)
    <2>1. s \in Seq(Seq(Places)) /\ j <= Len(s)
      BY <1>1
    <2> HIDE DEF s
    <2>2. Flat(s, i, j) = Flat(s, i, k) \o Flat(s, k + 1, j)
      BY <2>1, FlatSplit
    <2> QED
      BY <2>2, OfIsFlat DEF s
  <1>4. k + 1 \in Nat \ {0} /\ k \in 0 .. Len(c) /\ j \in 0 .. Len(c)
    OBVIOUS
  <1>5. /\ SpaceOf(c, i, k) \in Seq(Places) /\ SpaceOf(c, k + 1, j) \in Seq(Places)
        /\ DataOf(c, i, k) \in Seq(Places) /\ DataOf(c, k + 1, j) \in Seq(Places)
    BY <1>4, OfTypes
  <1>6. Len(SpaceOf(c, i, k) \o SpaceOf(c, k + 1, j)) = Len(SpaceOf(c, i, k)) + Len(SpaceOf(c, k + 1, j))
    BY <1>5
  <1>7. Len(DataOf(c, i, k) \o DataOf(c, k + 1, j)) = Len(DataOf(c, i, k)) + Len(DataOf(c, k + 1, j))
    BY <1>5
  <1> QED
    BY <1>2, <1>3, <1>6, <1>7 DEF SpaceIn

\* So the space from its first block on is all the space.
LEMMA SpaceFrom ==
  ASSUME NEW c \in Seq(GoodBlock), NEW F \in 1 .. Len(c) + 1, NEW j \in 0 .. Len(c), F - 1 <= j,
         \A i \in 1 .. Len(c) : i < F => SpaceLen(c[i]) = 0
  PROVE  SpaceOf(c, F, j) = SpaceOf(c, 1, j) /\ SpaceIn(c, F, j) = SpaceIn(c, 1, j)
  <1>1. 1 \in Nat \ {0} /\ F - 1 \in Nat /\ j \in Nat /\ 1 <= (F - 1) + 1 /\ (F - 1) + 1 = F /\ j <= Len(c)
        /\ F - 1 \in 0 .. Len(c) /\ F \in Nat \ {0}
    OBVIOUS
  <1>2. SpaceOf(c, 1, j) = SpaceOf(c, 1, F - 1) \o SpaceOf(c, (F - 1) + 1, j)
    BY <1>1, OfSplit
  <1>3. SpaceOf(c, 1, F - 1) = <<>>
    <2>1. \A k \in 1 .. F - 1 : SpaceLen(c[k]) = 0
      OBVIOUS
    <2> QED
      BY <1>1, <2>1, NoSpace
  <1>4. SpaceOf(c, F, j) \in Seq(Places)
    BY <1>1, OfTypes
  <1>5. <<>> \o SpaceOf(c, F, j) = SpaceOf(c, F, j)
    BY <1>4
  <1> QED
    BY <1>1, <1>2, <1>3, <1>5 DEF SpaceIn

----------------------------------------------------------------------------
(* Commit                                                                   *)

\* How many of n bytes block i takes.
Fill(c, n, i) ==
  IF SpaceLen(c[i]) <= Less(n, SpaceIn(c, 1, i - 1)) THEN SpaceLen(c[i])
  ELSE Less(n, SpaceIn(c, 1, i - 1))

\* Chain d is chain c after n bytes of its space became data.
IsFilled(c, d, n) ==
  /\ Len(d) = Len(c)
  /\ \A i \in 1 .. Len(c) :
       d[i].id = c[i].id /\ d[i].offset = c[i].offset /\ d[i].len = c[i].len + Fill(c, n, i)

\* Commit leaves every block within its capacity and fills the blocks in order.
LEMMA CommittedBlocks ==
  ASSUME NEW c \in Seq(GoodBlock), NEW F \in 1 .. Len(c) + 1, NEW n \in Nat,
         \A i \in 1 .. Len(c) : i < F => SpaceLen(c[i]) = 0
  PROVE  Committed(c, F, n) \in Seq(GoodBlock) /\ IsFilled(c, Committed(c, F, n), n)
  <1> DEFINE d == Committed(c, F, n)
  <1>1. DOMAIN c = 1 .. Len(c) /\ Len(c) \in Nat
    OBVIOUS
  <1>2. ASSUME NEW i \in 1 .. Len(c)
        PROVE  /\ d[i].id = c[i].id /\ d[i].offset = c[i].offset
               /\ d[i].len = c[i].len + Fill(c, n, i)
               /\ d[i] \in GoodBlock
    <2> DEFINE a == Less(n, SpaceIn(c, 1, i - 1))
               m == Min({SpaceLen(c[i]), IF n > SpaceIn(c, F, i - 1) THEN n - SpaceIn(c, F, i - 1) ELSE 0})
    <2>1. c[i] \in GoodBlock /\ c[i] \in Block /\ i - 1 \in 0 .. Len(c)
      BY DEF GoodBlock
    <2>2. SpaceIn(c, 1, i - 1) \in Nat
      BY <2>1, OfTypes
    <2>3. a \in Nat
      BY <2>2 DEF Less
    <2>4. SpaceLen(c[i]) \in Nat /\ c[i].offset \in Nat /\ c[i].len \in Nat /\ Capacity \in Nat
          /\ c[i].offset + c[i].len + SpaceLen(c[i]) = Capacity
      BY <2>1, BlockTypes
    <2>5. Fill(c, n, i) \in Nat /\ Fill(c, n, i) <= SpaceLen(c[i])
      BY <2>3, <2>4 DEF Fill
    <2>6. d[i] = IF i < F THEN c[i] ELSE [c[i] EXCEPT !.len = @ + m]
      BY <1>1 DEF Committed
    <2>7. CASE i < F
      <3>1. SpaceLen(c[i]) = 0 /\ Fill(c, n, i) = 0
        BY <2>5, <2>7
      <3> QED
        BY <2>1, <2>4, <2>6, <2>7, <3>1
    <2>8. CASE ~(i < F)
      <3>1. SpaceIn(c, F, i - 1) = SpaceIn(c, 1, i - 1)
        <4>1. F - 1 <= i - 1
          BY <2>8
        <4> QED
          BY <2>1, <4>1, SpaceFrom
      <3>2. m = Min({SpaceLen(c[i]), a})
        BY <3>1 DEF Less
      <3>3. m = Fill(c, n, i)
        <4> HIDE DEF m, a
        <4>1. Min({SpaceLen(c[i]), a}) = IF SpaceLen(c[i]) <= a THEN SpaceLen(c[i]) ELSE a
          BY <2>3, <2>4, MinOfTwo
        <4> QED
          BY <3>2, <4>1 DEF Fill, a
      <3> HIDE DEF m, a, d
      <3>4. d[i] = [c[i] EXCEPT !.len = @ + m]
        BY <2>6, <2>8
      <3>5. /\ d[i].id = c[i].id /\ d[i].offset = c[i].offset /\ d[i].len = c[i].len + m
            /\ c[i].len + m \in 0 .. Capacity /\ c[i].offset + (c[i].len + m) <= Capacity
        BY <2>1, <2>4, <2>5, <3>3, <3>4, SMTT(30) DEF Block
      <3>6. d[i] \in Block
        BY <2>1, <3>4, <3>5 DEF Block
      <3> QED
        BY <3>3, <3>5, <3>6 DEF GoodBlock
    <2> QED
      BY <2>7, <2>8
  <1>3. d \in [1 .. Len(c) -> GoodBlock]
    <2>1. DOMAIN d = 1 .. Len(c)
      BY <1>1 DEF Committed
    <2>2. d = [i \in 1 .. Len(c) |-> d[i]]
      BY <1>1 DEF Committed
    <2> HIDE DEF d
    <2> QED
      BY <1>2, <2>1, <2>2
  <1>4. d \in Seq(GoodBlock) /\ Len(d) = Len(c)
    <2> HIDE DEF d
    <2> QED
      BY <1>1, <1>3, FunctionIsSeq
  <1> QED
    BY <1>2, <1>4 DEF IsFilled

\* Where there is data, there is no space before it.
LEMMA NoGaps ==
  ASSUME NEW c \in Seq(GoodBlock), NEW e \in 0 .. Len(c), Shaped(c, e), NEW i \in 1 .. Len(c)
  PROVE  c[i].len = 0 \/ SpaceOf(c, 1, i - 1) = <<>>
  <1> SUFFICES ASSUME c[i].len # 0 PROVE SpaceOf(c, 1, i - 1) = <<>>
    OBVIOUS
  <1>1. i <= e
    BY DEF Shaped
  <1>2. \A k \in 1 .. i - 1 : SpaceLen(c[k]) = 0
    BY <1>1 DEF Shaped
  <1>3. i - 1 \in 0 .. Len(c) /\ 1 \in Nat \ {0}
    OBVIOUS
  <1> QED
    BY <1>2, <1>3, NoSpace

\* The first n free places become the last n places of the data.
LEMMA CommitMoves ==
  ASSUME NEW c \in Seq(GoodBlock), NEW d \in Seq(GoodBlock), NEW n \in Nat,
         NEW e \in 0 .. Len(c), Shaped(c, e), IsFilled(c, d, n)
  PROVE  \A j \in 0 .. Len(c) :
           /\ DataOf(d, 1, j) = DataOf(c, 1, j) \o Firsts(SpaceOf(c, 1, j), n)
           /\ SpaceOf(d, 1, j) = Rest(SpaceOf(c, 1, j), n)
  <1> DEFINE s == DataParts(c)
             p == SpaceParts(c)
             t == DataParts(d)
             r == SpaceParts(d)
  <1>1. Len(d) = Len(c)
    BY DEF IsFilled
  <1>2. /\ s \in Seq(Seq(Places)) /\ Len(s) = Len(c) /\ p \in Seq(Seq(Places)) /\ Len(p) = Len(c)
        /\ t \in Seq(Seq(Places)) /\ Len(t) = Len(c) /\ r \in Seq(Seq(Places)) /\ Len(r) = Len(c)
    BY <1>1, ChainParts
  <1>3. ASSUME NEW i \in 1 .. Len(c)
        PROVE  /\ t[i] = s[i] \o Firsts(p[i], Less(n, Len(Flat(p, 1, i - 1))))
               /\ r[i] = Rest(p[i], Less(n, Len(Flat(p, 1, i - 1))))
               /\ s[i] = <<>> \/ Flat(p, 1, i - 1) = <<>>
    <2> DEFINE a == Less(n, Len(Flat(p, 1, i - 1)))
    <2>1. s[i] = DataPlaces(c[i]) /\ p[i] = SpacePlaces(c[i]) /\ t[i] = DataPlaces(d[i]) /\ r[i] = SpacePlaces(d[i])
      BY <1>1, ChainParts
    <2>2. c[i] \in GoodBlock /\ d[i] \in GoodBlock /\ i - 1 \in 0 .. Len(c)
      BY <1>1
    <2>3. SpaceIn(c, 1, i - 1) \in Nat
      BY SizesBefore
    <2>4. a = Less(n, SpaceIn(c, 1, i - 1)) /\ a \in Nat
      BY <2>3, OfIsFlat DEF SpaceIn, Less
    <2>5. /\ d[i].id = c[i].id /\ d[i].offset = c[i].offset
          /\ d[i].len = c[i].len + (IF SpaceLen(c[i]) <= a THEN SpaceLen(c[i]) ELSE a)
      BY <2>4 DEF IsFilled, Fill
    <2> HIDE DEF s, p, t, r, a
    <2>6. /\ DataPlaces(d[i]) = DataPlaces(c[i]) \o Firsts(SpacePlaces(c[i]), a)
          /\ SpacePlaces(d[i]) = Rest(SpacePlaces(c[i]), a)
      <3> DEFINE b == c[i]
                 h == d[i]
      <3>1. /\ b \in GoodBlock /\ h \in GoodBlock /\ a \in Nat /\ h.id = b.id /\ h.offset = b.offset
            /\ h.len = b.len + (IF SpaceLen(b) <= a THEN SpaceLen(b) ELSE a)
        BY <2>2, <2>4, <2>5
      <3> HIDE DEF b, h
      <3>2. DataPlaces(h) = DataPlaces(b) \o Firsts(SpacePlaces(b), a) /\ SpacePlaces(h) = Rest(SpacePlaces(b), a)
        BY <3>1, BlockFills
      <3> QED
        BY <3>2 DEF b, h
    <2>7. s[i] = <<>> \/ Flat(p, 1, i - 1) = <<>>
      <3>1. Len(DataPlaces(c[i])) = c[i].len /\ DataPlaces(c[i]) \in Seq(Places)
        BY <2>2, BlockPlaces
      <3>2. c[i].len = 0 => s[i] = <<>>
        BY <2>1, <3>1
      <3> QED
        BY <3>2, NoGaps, OfIsFlat DEF p
    <2> QED
      BY <2>1, <2>6, <2>7 DEF a
  <1> HIDE DEF s, p, t, r
  <1>4. PartsFilled(s, p, t, n) /\ PartsCut(p, r, n)
    BY <1>2, <1>3 DEF PartsFilled, PartsCut
  <1>5. \A j \in 0 .. Len(c) : Flat(t, 1, j) = Flat(s, 1, j) \o Firsts(Flat(p, 1, j), n)
    <2>1. \A j \in 0 .. Len(s) : Flat(t, 1, j) = Flat(s, 1, j) \o Firsts(Flat(p, 1, j), n)
      <3>1. Len(p) = Len(s) /\ Len(t) = Len(s) /\ PartsFilled(s, p, t, n)
        BY <1>2, <1>4
      <3>2. s \in Seq(Seq(Places)) /\ p \in Seq(Seq(Places)) /\ t \in Seq(Seq(Places))
        BY <1>2
      <3> QED
        BY <3>1, <3>2, FlatFill
    <2> QED
      BY <1>2, <2>1
  <1>6. \A j \in 0 .. Len(c) : Flat(r, 1, j) = Rest(Flat(p, 1, j), n)
    <2>1. \A j \in 0 .. Len(p) : Flat(r, 1, j) = Rest(Flat(p, 1, j), n)
      BY <1>2, <1>4, FlatRest
    <2> QED
      BY <1>2, <2>1
  <1> SUFFICES ASSUME NEW j \in 0 .. Len(c)
               PROVE  /\ DataOf(d, 1, j) = DataOf(c, 1, j) \o Firsts(SpaceOf(c, 1, j), n)
                      /\ SpaceOf(d, 1, j) = Rest(SpaceOf(c, 1, j), n)
    OBVIOUS
  <1>7. /\ DataOf(c, 1, j) = Flat(s, 1, j) /\ SpaceOf(c, 1, j) = Flat(p, 1, j)
        /\ DataOf(d, 1, j) = Flat(t, 1, j) /\ SpaceOf(d, 1, j) = Flat(r, 1, j)
    BY OfIsFlat DEF s, p, t, r
  <1> QED
    BY <1>5, <1>6, <1>7

\* More blocks have no less space, and no less data.
LEMMA SizesGrow ==
  ASSUME NEW c \in Seq(GoodBlock), NEW k \in 0 .. Len(c), NEW j \in 0 .. Len(c), k <= j
  PROVE  SpaceIn(c, 1, k) <= SpaceIn(c, 1, j) /\ Len(DataOf(c, 1, k)) <= Len(DataOf(c, 1, j))
  <1>1. /\ 1 \in Nat \ {0} /\ k \in Nat /\ j \in Nat /\ 1 <= k + 1 /\ j <= Len(c)
        /\ k + 1 \in Nat \ {0}
    OBVIOUS
  <1>2. /\ SpaceIn(c, 1, j) = SpaceIn(c, 1, k) + SpaceIn(c, k + 1, j)
        /\ Len(DataOf(c, 1, j)) = Len(DataOf(c, 1, k)) + Len(DataOf(c, k + 1, j))
    BY <1>1, OfSplit
  <1>3. SpaceIn(c, k + 1, j) \in Nat /\ Len(DataOf(c, k + 1, j)) \in Nat
    BY <1>1, OfTypes
  <1>4. SpaceIn(c, 1, k) \in Nat /\ Len(DataOf(c, 1, k)) \in Nat
    BY <1>1, OfTypes
  <1> QED
    BY <1>2, <1>3, <1>4

\* Commit leaves the list in shape, with end_ at the last block it filled.
LEMMA CommitShape ==
  ASSUME NEW c \in Seq(GoodBlock), NEW d \in Seq(GoodBlock), NEW n \in Nat \ {0},
         NEW e \in 0 .. Len(c), Shaped(c, e), IsFilled(c, d, n), n <= SpaceIn(c, 1, Len(c))
  PROVE  LET F == FirstOf(c, e)
             z == Min({i \in F .. Len(c) : SpaceIn(c, F, i) >= n})
         IN z \in 1 .. Len(c) /\ Shaped(d, z)
  <1> DEFINE F == FirstOf(c, e)
             T == {i \in F .. Len(c) : SpaceIn(c, F, i) >= n}
             z == Min(T)
  <1>1. F \in 1 .. Len(c) + 1 /\ e <= F /\ \A i \in 1 .. Len(c) : i < F => SpaceLen(c[i]) = 0
    BY FirstOfShaped
  <1> HIDE DEF F
  <1>2. \A j \in 0 .. Len(c) : F - 1 <= j => SpaceIn(c, F, j) = SpaceIn(c, 1, j)
    BY <1>1, SpaceFrom
  <1>3. F <= Len(c)
    <2> SUFFICES ASSUME F = Len(c) + 1 PROVE FALSE
      BY <1>1
    <2>1. \A k \in 1 .. Len(c) : SpaceLen(c[k]) = 0
      BY <1>1
    <2>2. Len(c) \in 0 .. Len(c) /\ 1 \in Nat \ {0}
      OBVIOUS
    <2>3. SpaceOf(c, 1, Len(c)) = <<>>
      BY <2>1, <2>2, NoSpace
    <2> QED
      BY <2>3 DEF SpaceIn
  <1>4. SpaceIn(c, F, Len(c)) = SpaceIn(c, 1, Len(c))
    BY <1>1, <1>2
  <1>5. Len(c) \in T /\ T \subseteq Nat
    BY <1>1, <1>3, <1>4
  <1>6. z \in T /\ \A i \in T : z <= i
    <2> HIDE DEF T
    <2> QED
      BY <1>5, MinIsLeast
  <1>7. z \in F .. Len(c) /\ SpaceIn(c, F, z) >= n
    BY <1>6
  <1>8. \A i \in F .. Len(c) : i < z => ~(SpaceIn(c, F, i) >= n)
    BY <1>1, <1>6
  <1> HIDE DEF T, z
  <1>9. z \in 1 .. Len(c)
    BY <1>1, <1>7
  <1>10. Len(d) = Len(c)
    BY DEF IsFilled
  <1>11. ASSUME NEW i \in 1 .. Len(d)
         PROVE  /\ d[i].offset < Capacity
                /\ i > 1 => d[i].offset = 0
                /\ i < z => SpaceLen(d[i]) = 0
                /\ i > z => d[i].len = 0
    <2>1. i \in 1 .. Len(c) /\ c[i] \in GoodBlock /\ d[i] \in GoodBlock
      BY <1>10
    <2>2. d[i].offset = c[i].offset /\ d[i].len = c[i].len + Fill(c, n, i)
      BY <2>1 DEF IsFilled
    <2>3. c[i].offset < Capacity /\ (i > 1 => c[i].offset = 0)
      BY <2>1 DEF Shaped
    <2>4. /\ SpaceLen(c[i]) \in Nat /\ c[i].len \in Nat /\ c[i].offset \in Nat /\ SpaceLen(d[i]) \in Nat
          /\ c[i].offset + c[i].len + SpaceLen(c[i]) = Capacity
          /\ d[i].offset + d[i].len + SpaceLen(d[i]) = Capacity
      BY <2>1, BlockTypes
    <2>5. SpaceIn(c, 1, i - 1) \in Nat
      BY <2>1, SizesBefore
    <2>6. i < z => SpaceLen(d[i]) = 0
      <3> SUFFICES ASSUME i < z PROVE Fill(c, n, i) = SpaceLen(c[i])
        BY <2>2, <2>4, SMTT(30)
      <3>1. CASE i < F
        BY <1>1, <2>1, <2>5, <3>1 DEF Fill, Less
      <3>2. CASE ~(i < F)
        <4>1. i \in F .. Len(c) /\ i \in 0 .. Len(c) /\ F - 1 <= i
          BY <1>1, <2>1, <3>2
        <4>2. ~(SpaceIn(c, 1, i) >= n)
          BY <1>2, <1>8, <4>1
        <4>3. SpaceIn(c, 1, i) = SpaceIn(c, 1, i - 1) + SpaceLen(c[i])
          BY <2>1, OfGrow
        <4> QED
          BY <2>4, <2>5, <4>2, <4>3 DEF Fill, Less
      <3> QED
        BY <3>1, <3>2
    <2>7. i > z => d[i].len = 0
      <3> SUFFICES ASSUME i > z PROVE d[i].len = 0
        OBVIOUS
      <3>1. i > e
        BY <1>1, <1>7
      <3>2. c[i].len = 0
        BY <2>1, <3>1 DEF Shaped
      <3>3. z \in 0 .. Len(c) /\ i - 1 \in 0 .. Len(c) /\ z <= i - 1 /\ F - 1 <= z
        BY <1>1, <1>7, <2>1
      <3>4. SpaceIn(c, 1, z) <= SpaceIn(c, 1, i - 1)
        BY <3>3, SizesGrow
      <3>5. SpaceIn(c, 1, z) >= n /\ SpaceIn(c, 1, z) \in Nat
        BY <1>2, <1>7, <3>3, OfTypes
      <3>6. Fill(c, n, i) = 0
        BY <2>4, <2>5, <3>4, <3>5 DEF Fill, Less
      <3> QED
        BY <2>2, <3>2, <3>6
    <2> QED
      BY <2>2, <2>3, <2>6, <2>7
  <1>12. d = <<>> <=> z = 0
    BY <1>9, <1>10
  <1>13. z \in 1 .. Len(c) /\ Shaped(d, z)
    BY <1>9, <1>11, <1>12 DEF Shaped
  <1> QED
    BY <1>13 DEF z, T, F

\* Committing nothing changes nothing.
LEMMA CommitNothing ==
  ASSUME NEW c \in Seq(GoodBlock), NEW d \in Seq(GoodBlock), IsFilled(c, d, 0)
  PROVE  d = c
  <1>1. Len(d) = Len(c)
    BY DEF IsFilled
  <1>2. ASSUME NEW i \in 1 .. Len(d) PROVE d[i] = c[i]
    <2>1. i \in 1 .. Len(c) /\ c[i] \in GoodBlock /\ d[i] \in GoodBlock
      BY <1>1
    <2>2. SpaceIn(c, 1, i - 1) \in Nat
      BY <2>1, SizesBefore
    <2>3. SpaceLen(c[i]) \in Nat /\ c[i].len \in Nat
      BY <2>1, BlockTypes
    <2>5. Fill(c, 0, i) = 0
      BY <2>2, <2>3 DEF Fill, Less
    <2>4. d[i].id = c[i].id /\ d[i].offset = c[i].offset /\ d[i].len = c[i].len
      BY <2>1, <2>3, <2>5 DEF IsFilled
    <2>6. c[i] \in Block /\ d[i] \in Block
      BY <2>1 DEF GoodBlock
    <2> QED
      BY <2>4, <2>6, SameBlock
  <1> QED
    BY <1>1, <1>2, SeqEqual

----------------------------------------------------------------------------
(* Drain                                                                    *)

\* How many of n bytes are consumed from block i.
Used(c, n, i) ==
  IF c[i].len <= Less(n, Len(DataOf(c, 1, i - 1))) THEN c[i].len
  ELSE Less(n, Len(DataOf(c, 1, i - 1)))

\* Chain d is chain c after n bytes of its data were consumed.
IsEmptied(c, d, n) ==
  /\ Len(d) = Len(c)
  /\ \A i \in 1 .. Len(c) :
       /\ d[i].id = c[i].id
       /\ d[i].offset = c[i].offset + Used(c, n, i)
       /\ d[i].len = c[i].len - Used(c, n, i)

\* Drain takes no more from a block than it holds.
LEMMA UsedBounds ==
  ASSUME NEW c \in Seq(GoodBlock), NEW n \in Nat, NEW i \in 1 .. Len(c)
  PROVE  /\ Less(n, Len(DataOf(c, 1, i - 1))) \in Nat
         /\ Used(c, n, i) \in Nat /\ Used(c, n, i) <= c[i].len
  <1>1. c[i] \in GoodBlock
    OBVIOUS
  <1>2. c[i].len \in Nat
    BY <1>1, BlockTypes
  <1>3. Less(n, Len(DataOf(c, 1, i - 1))) \in Nat
    BY SizesBefore DEF Less
  <1> QED
    BY <1>2, <1>3 DEF Used

\* Drain leaves every block within its capacity and empties the blocks in order.
LEMMA ConsumedBlocks ==
  ASSUME NEW n \in Nat, chain \in Seq(GoodBlock)
  PROVE  Consumed(n) \in Seq(GoodBlock) /\ IsEmptied(chain, Consumed(n), n)
  <1> DEFINE d == Consumed(n)
  <1>1. DOMAIN chain = 1 .. Len(chain) /\ Len(chain) \in Nat
    OBVIOUS
  <1>2. ASSUME NEW i \in 1 .. Len(chain)
        PROVE  /\ d[i].id = chain[i].id
               /\ d[i].offset = chain[i].offset + Used(chain, n, i)
               /\ d[i].len = chain[i].len - Used(chain, n, i)
               /\ d[i] \in GoodBlock
    <2> DEFINE a == Less(n, Len(DataOf(chain, 1, i - 1)))
               u == Used(chain, n, i)
               m == Min({chain[i].len, IF n > Len(DataOf(chain, 1, i - 1))
                                       THEN n - Len(DataOf(chain, 1, i - 1)) ELSE 0})
    <2>1. chain[i] \in GoodBlock /\ chain[i] \in Block
      BY DEF GoodBlock
    <2>2. a \in Nat /\ u \in Nat /\ u <= chain[i].len
      BY UsedBounds
    <2>3. chain[i].offset \in Nat /\ chain[i].len \in Nat /\ Capacity \in Nat
          /\ chain[i].offset + chain[i].len <= Capacity
      BY <2>1, BlockTypes
    <2>4. m = Min({chain[i].len, a})
      BY DEF Less
    <2>5. d[i] = [chain[i] EXCEPT !.offset = @ + m, !.len = @ - m]
      BY <1>1 DEF Consumed
    <2>6. m = u
      <3> HIDE DEF m, a, u
      <3>1. Min({chain[i].len, a}) = IF chain[i].len <= a THEN chain[i].len ELSE a
        BY <2>2, <2>3, MinOfTwo
      <3> QED
        BY <2>4, <3>1 DEF Used, a, u
    <2> HIDE DEF m, a, u, d
    <2>7. d[i] = [chain[i] EXCEPT !.offset = @ + u, !.len = @ - u]
      BY <2>5, <2>6
    <2>8. /\ d[i].id = chain[i].id /\ d[i].offset = chain[i].offset + u /\ d[i].len = chain[i].len - u
          /\ chain[i].offset + u \in 0 .. Capacity /\ chain[i].len - u \in 0 .. Capacity
          /\ (chain[i].offset + u) + (chain[i].len - u) <= Capacity
      BY <2>1, <2>2, <2>3, <2>7 DEF Block
    <2>9. d[i] \in Block
      BY <2>1, <2>7, <2>8 DEF Block
    <2> QED
      BY <2>8, <2>9 DEF GoodBlock, u
  <1>3. d \in [1 .. Len(chain) -> GoodBlock]
    <2>1. DOMAIN d = 1 .. Len(chain) /\ d = [i \in 1 .. Len(chain) |-> d[i]]
      BY <1>1 DEF Consumed
    <2> HIDE DEF d
    <2> QED
      BY <1>2, <2>1
  <1>4. d \in Seq(GoodBlock) /\ Len(d) = Len(chain)
    <2> HIDE DEF d
    <2> QED
      BY <1>1, <1>3, FunctionIsSeq
  <1> QED
    BY <1>2, <1>4 DEF IsEmptied

\* The first n places of the data go, and no free place moves.
LEMMA DrainMoves ==
  ASSUME NEW c \in Seq(GoodBlock), NEW d \in Seq(GoodBlock), NEW n \in Nat, IsEmptied(c, d, n)
  PROVE  \A j \in 0 .. Len(c) :
           /\ DataOf(d, 1, j) = Rest(DataOf(c, 1, j), n)
           /\ SpaceOf(d, 1, j) = SpaceOf(c, 1, j)
  <1> DEFINE s == DataParts(c)
             p == SpaceParts(c)
             t == DataParts(d)
             r == SpaceParts(d)
  <1>1. Len(d) = Len(c)
    BY DEF IsEmptied
  <1>2. /\ s \in Seq(Seq(Places)) /\ Len(s) = Len(c) /\ p \in Seq(Seq(Places)) /\ Len(p) = Len(c)
        /\ t \in Seq(Seq(Places)) /\ Len(t) = Len(c) /\ r \in Seq(Seq(Places)) /\ Len(r) = Len(c)
    BY <1>1, ChainParts
  <1>3. ASSUME NEW i \in 1 .. Len(c)
        PROVE  /\ t[i] = Rest(s[i], Less(n, Len(Flat(s, 1, i - 1))))
               /\ r[i] = p[i]
    <2> DEFINE a == Less(n, Len(Flat(s, 1, i - 1)))
               u == Used(c, n, i)
    <2>1. s[i] = DataPlaces(c[i]) /\ p[i] = SpacePlaces(c[i]) /\ t[i] = DataPlaces(d[i]) /\ r[i] = SpacePlaces(d[i])
      BY <1>1, ChainParts
    <2>2. c[i] \in GoodBlock /\ d[i] \in GoodBlock
      BY <1>1
    <2>3. a = Less(n, Len(DataOf(c, 1, i - 1))) /\ a \in Nat
      BY UsedBounds, OfIsFlat
    <2>4. u = IF c[i].len <= a THEN c[i].len ELSE a
      BY <2>3 DEF Used
    <2>5. d[i].id = c[i].id /\ d[i].offset = c[i].offset + u /\ d[i].len = c[i].len - u
      BY DEF IsEmptied
    <2> HIDE DEF s, p, t, r, a, u
    <2>6. DataPlaces(d[i]) = Rest(DataPlaces(c[i]), a) /\ SpacePlaces(d[i]) = SpacePlaces(c[i])
      BY <2>2, <2>3, <2>4, <2>5, BlockEmpties
    <2> QED
      BY <2>1, <2>6 DEF a
  <1> HIDE DEF s, p, t, r
  <1>4. PartsCut(s, t, n)
    BY <1>2, <1>3 DEF PartsCut
  <1>5. \A j \in 0 .. Len(c) : Flat(t, 1, j) = Rest(Flat(s, 1, j), n)
    <2>1. \A j \in 0 .. Len(s) : Flat(t, 1, j) = Rest(Flat(s, 1, j), n)
      BY <1>2, <1>4, FlatRest
    <2> QED
      BY <1>2, <2>1
  <1>6. r = p
    <2>1. \A i \in 1 .. Len(r) : r[i] = p[i]
      BY <1>2, <1>3
    <2> QED
      BY <1>2, <2>1, SeqEqual
  <1> QED
    BY <1>5, <1>6, OfIsFlat DEF s, p, t, r

\* The blocks that are left with neither data nor space.
Spent(c, d) == {i \in 1 .. Len(c) : c[i].len > 0 /\ d[i].len = 0 /\ SpaceLen(d[i]) = 0}

\* A block keeps its space when data of it is consumed.
LEMMA EmptiedBlock ==
  ASSUME NEW c \in Seq(GoodBlock), NEW d \in Seq(GoodBlock), NEW n \in Nat, IsEmptied(c, d, n),
         NEW i \in 1 .. Len(c)
  PROVE  /\ c[i] \in GoodBlock /\ d[i] \in GoodBlock
         /\ c[i].len \in Nat /\ c[i].offset \in Nat /\ d[i].len \in Nat /\ d[i].offset \in Nat
         /\ SpaceLen(c[i]) \in Nat /\ SpaceLen(d[i]) = SpaceLen(c[i])
         /\ c[i].offset + c[i].len + SpaceLen(c[i]) = Capacity
         /\ d[i].offset + d[i].len + SpaceLen(c[i]) = Capacity
         /\ d[i].len <= c[i].len /\ (c[i].len = 0 => d[i].offset = c[i].offset)
         /\ d[i].len # 0 \/ SpaceLen(c[i]) # 0 => d[i].offset < Capacity
         /\ d[i].len = 0 <=> Len(DataOf(c, 1, i)) <= n \/ c[i].len = 0
  <1>1. Len(d) = Len(c)
    BY DEF IsEmptied
  <1>2. c[i] \in GoodBlock /\ d[i] \in GoodBlock
    BY <1>1
  <1>3. /\ c[i].len \in Nat /\ c[i].offset \in Nat /\ d[i].len \in Nat /\ d[i].offset \in Nat
        /\ SpaceLen(c[i]) \in Nat /\ SpaceLen(d[i]) \in Nat
        /\ c[i].offset + c[i].len + SpaceLen(c[i]) = Capacity
        /\ d[i].offset + d[i].len + SpaceLen(d[i]) = Capacity
    BY <1>2, BlockTypes
  <1> DEFINE u == Used(c, n, i)
             b == Len(DataOf(c, 1, i - 1))
  <1>4. d[i].offset = c[i].offset + u /\ d[i].len = c[i].len - u
    BY DEF IsEmptied
  <1>5. u \in Nat /\ u <= c[i].len
    BY UsedBounds
  <1>6. b \in Nat
    BY SizesBefore
  <1>7. Len(DataOf(c, 1, i)) = b + c[i].len
    BY OfGrow
  <1>8. u = IF c[i].len <= Less(n, b) THEN c[i].len ELSE Less(n, b)
    BY DEF Used
  <1> HIDE DEF u, b
  <1>9. d[i].len = 0 <=> Len(DataOf(c, 1, i)) <= n \/ c[i].len = 0
    <2> DEFINE k == c[i].len
               m == Less(n, b)
    <2>1. k \in Nat /\ u = (IF k <= m THEN k ELSE m) /\ m = IF n > b THEN n - b ELSE 0
      BY <1>3, <1>8 DEF Less
    <2> HIDE DEF k, m
    <2>2. k - u = 0 <=> b + k <= n \/ k = 0
      BY <1>6, <2>1
    <2> QED
      BY <1>4, <1>7, <2>2 DEF k
  <1>10. SpaceLen(d[i]) = SpaceLen(c[i]) /\ d[i].len <= c[i].len
    <2> DEFINE x == c[i].offset
               y == c[i].len
               z == SpaceLen(c[i])
               w == SpaceLen(d[i])
    <2>1. x \in Nat /\ y \in Nat /\ z \in Nat /\ w \in Nat
      BY <1>3
    <2>2. x + y + z = Capacity /\ (x + u) + (y - u) + w = Capacity
      BY <1>3, <1>4
    <2>3. u <= y /\ d[i].len = y - u
      BY <1>4, <1>5
    <2> HIDE DEF x, y, z, w
    <2>4. w = z /\ y - u <= y
      BY <1>5, <2>1, <2>2, <2>3
    <2> QED
      BY <2>3, <2>4 DEF y, z, w
  <1>11. c[i].len = 0 => d[i].offset = c[i].offset
    BY <1>3, <1>4, <1>5
  <1>12. d[i].len # 0 \/ SpaceLen(c[i]) # 0 => d[i].offset < Capacity
    <2> DEFINE x == d[i].offset
               y == d[i].len
               z == SpaceLen(c[i])
    <2>1. x \in Nat /\ y \in Nat /\ z \in Nat /\ x + y + z = Capacity
      BY <1>3, <1>10
    <2> HIDE DEF x, y, z
    <2>2. y # 0 \/ z # 0 => x < Capacity
      BY <2>1
    <2> QED
      BY <2>2 DEF x, y, z
  <1> QED
    BY <1>2, <1>3, <1>9, <1>10, <1>11, <1>12

\* They are the first of the list: Drain gives blocks back from the head.
LEMMA SpentAreFirst ==
  ASSUME NEW c \in Seq(GoodBlock), NEW d \in Seq(GoodBlock), NEW n \in Nat, IsEmptied(c, d, n),
         NEW e \in 0 .. Len(c), Shaped(c, e)
  PROVE  Cardinality(Spent(c, d)) \in 0 .. Len(c) /\ Spent(c, d) = 1 .. Cardinality(Spent(c, d))
  <1>1. ASSUME NEW i \in Spent(c, d), NEW k \in 1 .. i - 1 PROVE k \in Spent(c, d)
    <2>1. i \in 1 .. Len(c) /\ k \in 1 .. Len(c) /\ k <= i /\ k \in 0 .. Len(c) /\ i \in 0 .. Len(c)
      BY DEF Spent
    <2>2. c[i].len > 0 /\ d[i].len = 0
      BY DEF Spent
    <2>3. c[i].len \in Nat /\ (d[i].len = 0 <=> Len(DataOf(c, 1, i)) <= n \/ c[i].len = 0)
      BY <2>1, EmptiedBlock
    <2>4. i <= e
      BY <2>1, <2>2, <2>3 DEF Shaped
    <2>5. SpaceLen(c[k]) = 0 /\ c[k].offset < Capacity
      BY <2>1, <2>4 DEF Shaped
    <2>6. /\ c[k].len \in Nat /\ c[k].offset \in Nat /\ SpaceLen(d[k]) = SpaceLen(c[k])
          /\ c[k].offset + c[k].len + SpaceLen(c[k]) = Capacity
          /\ d[k].len = 0 <=> Len(DataOf(c, 1, k)) <= n \/ c[k].len = 0
      BY <2>1, EmptiedBlock
    <2>7. Len(DataOf(c, 1, k)) <= Len(DataOf(c, 1, i))
      BY <2>1, SizesGrow
    <2>8. Len(DataOf(c, 1, k)) \in Nat /\ Len(DataOf(c, 1, i)) \in Nat
      <3>1. 1 \in Nat \ {0}
        OBVIOUS
      <3> QED
        BY <2>1, <3>1, OfTypes
    <2>9. d[k].len = 0
      BY <2>2, <2>3, <2>6, <2>7, <2>8
    <2>10. c[k].len > 0
      BY <2>5, <2>6, BufferAssumption
    <2> QED
      BY <2>1, <2>5, <2>6, <2>9, <2>10 DEF Spent
  <1> DEFINE N == {m \in Nat : m + 1 \notin Spent(c, d)}
  <1>2. Len(c) \in N
    BY DEF Spent
  <1>3. PICK g \in N : \A m \in N : g <= m
    BY <1>2, LeastNumber
  <1>4. Spent(c, d) \subseteq 1 .. g
    <2> SUFFICES ASSUME NEW i \in Spent(c, d), i > g PROVE FALSE
      BY DEF Spent
    <2>1. i \in Nat /\ g + 1 \notin Spent(c, d)
      BY <1>3 DEF Spent
    <2>2. i # g + 1
      BY <2>1
    <2>3. g + 1 \in 1 .. i - 1
      BY <2>1, <2>2
    <2> QED
      BY <1>1, <2>1, <2>3
  <1>5. 1 .. g \subseteq Spent(c, d)
    <2> SUFFICES ASSUME NEW i \in 1 .. g, i \notin Spent(c, d) PROVE FALSE
      OBVIOUS
    <2>1. g \in Nat
      BY <1>3
    <2>2. i - 1 \in Nat /\ (i - 1) + 1 = i /\ i - 1 < g
      BY <2>1
    <2>3. i - 1 \in N
      BY <2>2
    <2> HIDE DEF N
    <2> QED
      BY <1>3, <2>1, <2>2, <2>3
  <1>6. Spent(c, d) = 1 .. g
    BY <1>4, <1>5
  <1>7. g <= Len(c) /\ g \in Nat
    BY <1>2, <1>3
  <1>8. Cardinality(1 .. g) = g
    BY <1>7, FS_Interval
  <1> QED
    BY <1>6, <1>7, <1>8

\* What is left when the first g blocks are gone.
LEMMA LeftBlocks ==
  ASSUME NEW d \in Seq(GoodBlock), NEW g \in 0 .. Len(d)
  PROVE  LET l == SubSeq(d, g + 1, Len(d))
         IN /\ l \in Seq(GoodBlock) /\ Len(l) = Len(d) - g
            /\ \A i \in 1 .. Len(d) - g : l[i] = d[g + i]
            /\ DataOf(l, 1, Len(l)) = DataOf(d, g + 1, Len(d))
            /\ SpaceOf(l, 1, Len(l)) = SpaceOf(d, g + 1, Len(d))
  <1> DEFINE l == SubSeq(d, g + 1, Len(d))
             n == Len(d) - g
  <1>1. n \in Nat /\ Len(d) \in Nat /\ g \in Nat /\ n + g = Len(d) /\ 1 + g = g + 1
    OBVIOUS
  <1>2. /\ l \in Seq(GoodBlock) /\ Len(l) = n
        /\ \A i \in 1 .. n : l[i] = d[g + i]
    <2>1. \A i \in g + 1 .. Len(d) : d[i] \in GoodBlock
      OBVIOUS
    <2>2. /\ l \in Seq(GoodBlock) /\ Len(l) = IF g + 1 <= Len(d) THEN Len(d) - (g + 1) + 1 ELSE 0
          /\ \A i \in 1 .. Len(d) - (g + 1) + 1 : l[i] = d[g + 1 + i - 1]
      BY <2>1, SubSeqProperties
    <2>3. Len(d) - (g + 1) + 1 = n /\ (~(g + 1 <= Len(d)) => n = 0)
      OBVIOUS
    <2>4. \A i \in 1 .. n : g + 1 + i - 1 = g + i
      OBVIOUS
    <2> HIDE DEF l, n
    <2> QED
      BY <2>2, <2>3, <2>4
  <1> HIDE DEF l, n
  <1>3. ASSUME NEW k \in 1 .. n
        PROVE  /\ DataParts(l)[k] = DataParts(d)[k + g] /\ DataParts(l)[k] \in Seq(Places)
               /\ SpaceParts(l)[k] = SpaceParts(d)[k + g] /\ SpaceParts(l)[k] \in Seq(Places)
    <2>1. k \in 1 .. Len(l) /\ k + g \in 1 .. Len(d) /\ l[k] = d[k + g] /\ d[k + g] \in GoodBlock
      BY <1>1, <1>2
    <2>2. DataParts(l)[k] = DataPlaces(l[k]) /\ SpaceParts(l)[k] = SpacePlaces(l[k])
      BY <1>2, <2>1, ChainParts
    <2>3. DataParts(d)[k + g] = DataPlaces(d[k + g]) /\ SpaceParts(d)[k + g] = SpacePlaces(d[k + g])
      BY <2>1, ChainParts
    <2>4. DataPlaces(d[k + g]) \in Seq(Places) /\ SpacePlaces(d[k + g]) \in Seq(Places)
      BY <2>1, BlockPlaces
    <2> QED
      BY <2>1, <2>2, <2>3, <2>4
  <1>4. Flat(DataParts(l), 1, n) = Flat(DataParts(d), 1 + g, n + g)
    <2> DEFINE s == DataParts(d)
               t == DataParts(l)
    <2>1. Shifted(Places, s, t, 1, n, g)
      BY <1>3 DEF Shifted
    <2>2. 1 \in Int /\ n \in Int /\ g \in Int
      BY <1>1
    <2> HIDE DEF s, t
    <2>3. Flat(t, 1, n) = Flat(s, 1 + g, n + g)
      BY <2>1, <2>2, FlatSame
    <2> QED
      BY <2>3 DEF s, t
  <1>5. Flat(SpaceParts(l), 1, n) = Flat(SpaceParts(d), 1 + g, n + g)
    <2> DEFINE s == SpaceParts(d)
               t == SpaceParts(l)
    <2>1. Shifted(Places, s, t, 1, n, g)
      BY <1>3 DEF Shifted
    <2>2. 1 \in Int /\ n \in Int /\ g \in Int
      BY <1>1
    <2> HIDE DEF s, t
    <2>3. Flat(t, 1, n) = Flat(s, 1 + g, n + g)
      BY <2>1, <2>2, FlatSame
    <2> QED
      BY <2>3 DEF s, t
  <1>6. /\ DataOf(l, 1, Len(l)) = DataOf(d, g + 1, Len(d))
        /\ SpaceOf(l, 1, Len(l)) = SpaceOf(d, g + 1, Len(d))
    BY <1>1, <1>2, <1>4, <1>5, OfIsFlat
  <1> QED
    BY <1>2, <1>6 DEF l, n

\* A chain has no data exactly if no block has any.
LEMMA NoDataAnywhere ==
  ASSUME NEW c \in Seq(GoodBlock), DataOf(c, 1, Len(c)) = <<>>, NEW i \in 1 .. Len(c)
  PROVE  c[i].len = 0
  <1>1. i \in 0 .. Len(c) /\ Len(c) \in 0 .. Len(c) /\ i <= Len(c) /\ c[i] \in GoodBlock
    OBVIOUS
  <1>2. Len(DataOf(c, 1, i)) <= Len(DataOf(c, 1, Len(c)))
    BY <1>1, SizesGrow
  <1>3. Len(DataOf(c, 1, i)) = Len(DataOf(c, 1, i - 1)) + c[i].len
    BY OfGrow
  <1>4. Len(DataOf(c, 1, i - 1)) \in Nat
    BY SizesBefore
  <1>5. c[i].len \in Nat
    BY <1>1, BlockTypes
  <1>6. Len(<<>>) = 0
    OBVIOUS
  <1> QED
    BY <1>2, <1>3, <1>4, <1>5, <1>6

\* The blocks after n bytes are consumed and the spent ones are given back.
LeftOf(c, d) == SubSeq(d, Cardinality(Spent(c, d)) + 1, Len(d))

\* Drain takes the first n places of the data and leaves the space alone, though
\* it frees the blocks that are spent.
LEMMA DrainPlaces ==
  ASSUME NEW c \in Seq(GoodBlock), NEW d \in Seq(GoodBlock), NEW n \in Nat, IsEmptied(c, d, n),
         NEW e \in 0 .. Len(c), Shaped(c, e)
  PROVE  LET l == LeftOf(c, d)
             g == Cardinality(Spent(c, d))
         IN /\ g \in 0 .. Len(c)
            /\ l \in Seq(GoodBlock) /\ Len(l) = Len(c) - g
            /\ \A i \in 1 .. Len(l) : g + i \in 1 .. Len(c) /\ l[i] = d[g + i] /\ l[i].id = c[g + i].id
            /\ DataOf(l, 1, Len(l)) = Rest(DataOf(c, 1, Len(c)), n)
            /\ SpaceOf(l, 1, Len(l)) = SpaceOf(c, 1, Len(c))
  <1> DEFINE g == Cardinality(Spent(c, d))
             l == LeftOf(c, d)
  <1>1. g \in 0 .. Len(c) /\ Spent(c, d) = 1 .. g
    BY SpentAreFirst
  <1>2. Len(d) = Len(c) /\ \A i \in 1 .. Len(c) : d[i].id = c[i].id
    BY DEF IsEmptied
  <1> HIDE DEF g
  <1>3. l = SubSeq(d, g + 1, Len(d)) /\ g \in 0 .. Len(d)
    BY <1>1, <1>2 DEF g, LeftOf
  <1> HIDE DEF l
  <1>4. /\ l \in Seq(GoodBlock) /\ Len(l) = Len(d) - g
        /\ \A i \in 1 .. Len(d) - g : l[i] = d[g + i]
        /\ DataOf(l, 1, Len(l)) = DataOf(d, g + 1, Len(d))
        /\ SpaceOf(l, 1, Len(l)) = SpaceOf(d, g + 1, Len(d))
    BY <1>3, LeftBlocks
  <1>5. \A k \in 1 .. g : d[k].len = 0 /\ SpaceLen(d[k]) = 0
    BY <1>1 DEF Spent
  <1>6. /\ 1 \in Nat \ {0} /\ g \in 0 .. Len(d) /\ g \in Nat /\ Len(d) \in Nat /\ 1 <= g + 1
        /\ g <= Len(d) /\ Len(d) <= Len(d) /\ g + 1 \in Nat \ {0} /\ Len(d) \in 0 .. Len(d)
    BY <1>3
  <1>7. DataOf(d, 1, g) = <<>>
    BY <1>5, <1>6, NoData
  <1>8. SpaceOf(d, 1, g) = <<>>
    BY <1>5, <1>6, NoSpace
  <1>9. /\ DataOf(d, 1, Len(d)) = DataOf(d, 1, g) \o DataOf(d, g + 1, Len(d))
        /\ SpaceOf(d, 1, Len(d)) = SpaceOf(d, 1, g) \o SpaceOf(d, g + 1, Len(d))
    <2> DEFINE j == Len(d)
    <2>1. /\ 1 \in Nat \ {0} /\ g \in Nat /\ j \in Nat /\ 1 <= g + 1 /\ g <= j /\ j <= Len(d)
      BY <1>6
    <2> HIDE DEF j
    <2>2. DataOf(d, 1, j) = DataOf(d, 1, g) \o DataOf(d, g + 1, j)
      BY <2>1, OfSplit
    <2>3. SpaceOf(d, 1, j) = SpaceOf(d, 1, g) \o SpaceOf(d, g + 1, j)
      BY <2>1, OfSplit
    <2> QED
      BY <2>2, <2>3, SMTT(30) DEF j
  <1>10. DataOf(d, g + 1, Len(d)) \in Seq(Places) /\ SpaceOf(d, g + 1, Len(d)) \in Seq(Places)
    BY <1>6, OfTypes
  <1>11. DataOf(d, 1, Len(d)) = DataOf(d, g + 1, Len(d))
    BY <1>7, <1>9, <1>10, ConcatEmptySeq
  <1>12. SpaceOf(d, 1, Len(d)) = SpaceOf(d, g + 1, Len(d))
    BY <1>8, <1>9, <1>10, ConcatEmptySeq
  <1>13. /\ DataOf(d, 1, Len(c)) = Rest(DataOf(c, 1, Len(c)), n)
         /\ SpaceOf(d, 1, Len(c)) = SpaceOf(c, 1, Len(c))
    <2>1. Len(c) \in 0 .. Len(c)
      OBVIOUS
    <2> QED
      BY <2>1, DrainMoves
  <1>14. /\ DataOf(l, 1, Len(l)) = Rest(DataOf(c, 1, Len(c)), n)
         /\ SpaceOf(l, 1, Len(l)) = SpaceOf(c, 1, Len(c))
    BY <1>2, <1>4, <1>11, <1>12, <1>13
  <1>15. ASSUME NEW i \in 1 .. Len(l)
         PROVE  g + i \in 1 .. Len(c) /\ l[i] = d[g + i] /\ l[i].id = c[g + i].id
    <2>1. i \in 1 .. Len(d) - g /\ g + i \in 1 .. Len(c)
      BY <1>2, <1>4, <1>6
    <2> QED
      BY <1>2, <1>4, <2>1
  <1> QED
    BY <1>1, <1>2, <1>4, <1>14, <1>15 DEF l, g

\* Drain leaves the list in shape, with end_ at the block it was at, or at the
\* first when there is no data.
LEMMA DrainShape ==
  ASSUME NEW c \in Seq(GoodBlock), NEW d \in Seq(GoodBlock), NEW n \in Nat, IsEmptied(c, d, n),
         NEW e \in 0 .. Len(c), Shaped(c, e), n <= Len(DataOf(c, 1, Len(c)))
  PROVE  LET l == LeftOf(c, d)
             z == IF Len(DataOf(c, 1, Len(c))) > n THEN e - Cardinality(Spent(c, d))
                  ELSE IF l = <<>> THEN 0 ELSE 1
         IN z \in 0 .. Len(l) /\ Shaped(l, z)
  <1> DEFINE g == Cardinality(Spent(c, d))
             l == LeftOf(c, d)
             D == DataOf(c, 1, Len(c))
  <1>1. /\ g \in 0 .. Len(c)
        /\ l \in Seq(GoodBlock) /\ Len(l) = Len(c) - g
        /\ \A i \in 1 .. Len(l) : g + i \in 1 .. Len(c) /\ l[i] = d[g + i]
        /\ DataOf(l, 1, Len(l)) = Rest(D, n)
    BY DrainPlaces
  <1>2. Spent(c, d) = 1 .. g
    BY SpentAreFirst
  <1>3. D \in Seq(Places) /\ Len(D) \in Nat
    <2>1. Len(c) \in 0 .. Len(c) /\ 1 \in Nat \ {0}
      OBVIOUS
    <2> QED
      BY <2>1, OfTypes
  <1>4. Len(DataOf(l, 1, Len(l))) = Less(Len(D), n)
    BY <1>1, <1>3, RestIs
  <1> HIDE DEF g, l, D
  <1>5. ASSUME NEW i \in 1 .. Len(l)
        PROVE  /\ l[i].offset < Capacity
               /\ i > 1 => l[i].offset = 0
               /\ g + i < e => SpaceLen(l[i]) = 0
               /\ g + i > e => l[i].len = 0
    <2> DEFINE k == g + i
    <2>1. k \in 1 .. Len(c) /\ l[i] = d[k] /\ k > g
      BY <1>1
    <2> HIDE DEF k
    <2>2. /\ c[k].len \in Nat /\ c[k].offset \in Nat /\ d[k].len \in Nat /\ d[k].offset \in Nat
          /\ SpaceLen(c[k]) \in Nat /\ SpaceLen(d[k]) = SpaceLen(c[k])
          /\ c[k].offset + c[k].len + SpaceLen(c[k]) = Capacity
          /\ d[k].offset + d[k].len + SpaceLen(c[k]) = Capacity
          /\ d[k].len <= c[k].len /\ (c[k].len = 0 => d[k].offset = c[k].offset)
          /\ d[k].len # 0 \/ SpaceLen(c[k]) # 0 => d[k].offset < Capacity
      BY <2>1, EmptiedBlock
    <2>3. /\ c[k].offset < Capacity /\ (k > 1 => c[k].offset = 0)
          /\ (k < e => SpaceLen(c[k]) = 0) /\ (k > e => c[k].len = 0)
      BY <2>1 DEF Shaped
    <2>4. k \notin Spent(c, d)
      BY <1>1, <1>2, <2>1
    <2>5. c[k].len = 0 \/ d[k].len # 0 \/ SpaceLen(d[k]) # 0
      BY <2>1, <2>2, <2>4 DEF Spent
    <2>6. d[k].offset < Capacity
      BY <2>2, <2>3, <2>5
    <2>7. i > 1 => d[k].offset = 0
      <3> SUFFICES ASSUME i > 1 PROVE d[k].offset = 0
        OBVIOUS
      <3>1. k > 1 /\ g + 1 \in 1 .. Len(c) /\ g + 1 < k /\ g \in Nat
        BY <1>1, <2>1 DEF k
      <3> DEFINE j == g + 1
      <3>2. j \notin Spent(c, d)
        BY <1>2, <3>1
      <3>3. j \in 1 .. Len(c)
        BY <3>1
      <3>4. j < k
        BY <3>1
      <3> HIDE DEF j
      <3>5. /\ c[j].len \in Nat /\ c[j].offset \in Nat /\ d[j].len \in Nat
            /\ SpaceLen(c[j]) \in Nat /\ SpaceLen(d[j]) = SpaceLen(c[j])
            /\ c[j].offset + c[j].len + SpaceLen(c[j]) = Capacity
            /\ d[j].len = 0 <=> Len(DataOf(c, 1, j)) <= n \/ c[j].len = 0
        BY <3>3, EmptiedBlock
      <3>6. c[j].offset < Capacity /\ (j < e => SpaceLen(c[j]) = 0)
        BY <3>3 DEF Shaped
      <3>7. c[j].len = 0 \/ d[j].len # 0 \/ SpaceLen(c[j]) # 0
        BY <3>2, <3>3, <3>5 DEF Spent
      <3>8. CASE SpaceLen(c[j]) # 0
        <4>1. k > e
          BY <1>1, <2>1, <3>3, <3>4, <3>6, <3>8
        <4> QED
          BY <2>2, <2>3, <3>1, <4>1
      <3>9. CASE SpaceLen(c[j]) = 0
        <4>1. c[j].len # 0
          BY <3>5, <3>6, <3>9
        <4>2. ~(Len(DataOf(c, 1, j)) <= n)
          BY <3>5, <3>7, <3>9, <4>1
        <4>3. /\ j \in 0 .. Len(c) /\ k - 1 \in 0 .. Len(c) /\ j <= k - 1 /\ 1 \in Nat \ {0}
          BY <2>1, <3>3, <3>4
        <4>4. Len(DataOf(c, 1, j)) <= Len(DataOf(c, 1, k - 1))
          BY <4>3, SizesGrow
        <4>5. Len(DataOf(c, 1, j)) \in Nat /\ Len(DataOf(c, 1, k - 1)) \in Nat
          BY <4>3, OfTypes
        <4>6. Less(n, Len(DataOf(c, 1, k - 1))) = 0
          BY <4>2, <4>4, <4>5 DEF Less
        <4>7. Used(c, n, k) = 0
          BY <2>2, <4>6, SMTT(30) DEF Used
        <4>8. d[k].offset = c[k].offset + Used(c, n, k)
          BY <2>1 DEF IsEmptied
        <4> QED
          BY <2>2, <2>3, <3>1, <4>7, <4>8
      <3> QED
        BY <3>8, <3>9
    <2>8. k > e => d[k].len = 0
      BY <2>2, <2>3, SMTT(30)
    <2> QED
      BY <2>1, <2>2, <2>3, <2>6, <2>7, <2>8 DEF k
  <1>6. CASE Len(D) > n
    <2>1. \E i \in 1 .. Len(l) : l[i].len # 0
      <3> SUFFICES ASSUME \A i \in 1 .. Len(l) : l[i].len = 0 PROVE FALSE
        OBVIOUS
      <3>1. 1 \in Nat \ {0} /\ Len(l) \in 0 .. Len(l)
        BY <1>1
      <3>2. DataOf(l, 1, Len(l)) = <<>>
        BY <1>1, <3>1, NoData
      <3>3. Len(<<>>) = 0
        OBVIOUS
      <3> QED
        BY <1>3, <1>4, <1>6, <3>2, <3>3 DEF Less
    <2>2. PICK i \in 1 .. Len(l) : l[i].len # 0
      BY <2>1
    <2>3. g + i <= e
      BY <1>1, <1>5, <2>2
    <2>4. e - g \in 1 .. Len(l)
      BY <1>1, <2>2, <2>3
    <2>5. Shaped(l, e - g)
      <3>1. l # <<>> /\ e - g # 0
        BY <1>1, <2>4
      <3>2. ASSUME NEW j \in 1 .. Len(l)
            PROVE  /\ l[j].offset < Capacity
                   /\ j > 1 => l[j].offset = 0
                   /\ j < e - g => SpaceLen(l[j]) = 0
                   /\ j > e - g => l[j].len = 0
        <4>1. (j < e - g => g + j < e) /\ (j > e - g => g + j > e)
          BY <1>1
        <4> QED
          BY <1>5, <4>1
      <3> QED
        BY <3>1, <3>2 DEF Shaped
    <2> QED
      BY <1>6, <2>4, <2>5 DEF D, g, l
  <1>7. CASE ~(Len(D) > n)
    <2>1. DataOf(l, 1, Len(l)) = <<>>
      <3>1. Len(DataOf(l, 1, Len(l))) = 0
        BY <1>3, <1>4, <1>7 DEF Less
      <3>2. Rest(D, n) \in Seq(Places)
        BY <1>3, RestIs
      <3> QED
        BY <1>1, <3>1, <3>2, EmptySeq
    <2>2. \A i \in 1 .. Len(l) : l[i].len = 0
      BY <1>1, <2>1, NoDataAnywhere
    <2>3. l # <<>> => 1 \in 0 .. Len(l) /\ Shaped(l, 1)
      BY <1>1, <1>5, <2>2 DEF Shaped
    <2>4. l = <<>> => 0 \in 0 .. Len(l) /\ Shaped(l, 0)
      BY <1>1 DEF Shaped
    <2> QED
      BY <1>7, <2>3, <2>4 DEF D, g, l
  <1> QED
    BY <1>6, <1>7

\* Starting the first block of an empty buffer over keeps the shape.
LEMMA ResetShape ==
  ASSUME NEW l \in Seq(GoodBlock), l # <<>>, DataOf(l, 1, Len(l)) = <<>>, Shaped(l, 1)
  PROVE  LET r == [l EXCEPT ![1].offset = 0]
         IN /\ r \in Seq(GoodBlock) /\ Len(r) = Len(l)
            /\ \A i \in 1 .. Len(l) : r[i].id = l[i].id
            /\ DataOf(r, 1, Len(r)) = <<>> /\ Shaped(r, 1)
  <1> DEFINE b == [l[1] EXCEPT !.offset = 0]
             r == [l EXCEPT ![1].offset = 0]
  <1>1. 1 \in 1 .. Len(l) /\ l[1] \in GoodBlock /\ l[1] \in Block
    BY DEF GoodBlock
  <1>2. /\ b.id = l[1].id /\ b.offset = 0 /\ b.len = l[1].len /\ b \in Block
    BY <1>1, BufferAssumption DEF Block
  <1>3. l[1].len = 0
    BY <1>1, NoDataAnywhere
  <1> HIDE DEF b
  <1>4. b \in GoodBlock
    BY <1>2, <1>3, BufferAssumption DEF GoodBlock
  <1>5. r = [l EXCEPT ![1] = b]
    BY DEF b
  <1>6. /\ r \in Seq(GoodBlock) /\ Len(r) = Len(l)
        /\ \A i \in 1 .. Len(l) : r[i] = IF i = 1 THEN b ELSE l[i]
    BY <1>1, <1>4, <1>5, ExceptSeq
  <1> HIDE DEF r
  <1>7. \A i \in 1 .. Len(l) : l[i].len = 0
    BY NoDataAnywhere
  <1>8. \A i \in 1 .. Len(l) : r[i].id = l[i].id /\ r[i].len = 0
    BY <1>2, <1>6, <1>7
  <1>9. DataOf(r, 1, Len(r)) = <<>>
    <2>1. 1 \in Nat \ {0} /\ Len(r) \in 0 .. Len(r) /\ \A k \in 1 .. Len(r) : r[k].len = 0
      BY <1>6, <1>8
    <2> QED
      BY <1>6, <2>1, NoData
  <1>10. Shaped(r, 1)
    <2>1. ASSUME NEW i \in 1 .. Len(r)
          PROVE  /\ r[i].offset < Capacity
                 /\ i > 1 => r[i].offset = 0
                 /\ i < 1 => SpaceLen(r[i]) = 0
                 /\ i > 1 => r[i].len = 0
      <3>1. i \in 1 .. Len(l) /\ ~(i < 1)
        BY <1>6
      <3>2. CASE i = 1
        BY <1>2, <1>6, <3>1, <3>2, BufferAssumption
      <3>3. CASE i # 1
        BY <1>6, <1>8, <3>1, <3>3 DEF Shaped
      <3> QED
        BY <3>2, <3>3
    <2>2. r # <<>>
      BY <1>1, <1>6
    <2> QED
      BY <2>1, <2>2 DEF Shaped
  <1> QED
    BY <1>6, <1>8, <1>9, <1>10 DEF r

----------------------------------------------------------------------------
(* Reserve                                                                  *)

\* Blocks as the freelist gives them.
AreNew(b) == \A i \in 1 .. Len(b) : b[i].offset = 0 /\ b[i].len = 0

\* New blocks add space and no data, and what was there stays in its place.
LEMMA AppendPlaces ==
  ASSUME NEW c \in Seq(GoodBlock), NEW b \in Seq(GoodBlock), AreNew(b)
  PROVE  LET x == c \o b
         IN /\ x \in Seq(GoodBlock) /\ Len(x) = Len(c) + Len(b)
            /\ \A i \in 1 .. Len(c) : x[i] = c[i]
            /\ \A i \in 1 .. Len(b) : x[Len(c) + i] = b[i]
            /\ \A j \in 0 .. Len(c) : SpaceOf(x, 1, j) = SpaceOf(c, 1, j)
            /\ DataOf(x, 1, Len(x)) = DataOf(c, 1, Len(c))
            /\ SpaceIn(x, 1, Len(x)) = SpaceIn(c, 1, Len(c)) + Len(b) * Capacity
  <1> DEFINE x == c \o b
             n == Len(c)
             m == Len(b)
  <1>1. n \in Nat /\ m \in Nat /\ \A i \in 1 .. m : b[i] \in GoodBlock
    OBVIOUS
  <1>2. /\ x \in Seq(GoodBlock) /\ Len(x) = n + m
        /\ \A i \in 1 .. n : x[i] = c[i]
        /\ \A i \in 1 .. m : x[n + i] = b[i]
    <2>1. /\ x \in Seq(GoodBlock) /\ Len(x) = n + m
          /\ \A i \in 1 .. n + m : x[i] = IF i <= n THEN c[i] ELSE b[i - n]
      BY ConcatProperties
    <2> HIDE DEF x, n, m
    <2>2. \A i \in 1 .. n : i \in 1 .. n + m /\ i <= n
      BY <1>1
    <2>3. \A i \in 1 .. m : n + i \in 1 .. n + m /\ ~(n + i <= n) /\ (n + i) - n = i
      BY <1>1
    <2> QED
      BY <2>1, <2>2, <2>3
  <1> HIDE DEF x, n, m
  <1>3. Len(c) = n /\ Len(b) = m
    BY DEF n, m
  <1>4. ASSUME NEW j \in 0 .. n
        PROVE  SpaceOf(x, 1, j) = SpaceOf(c, 1, j) /\ DataOf(x, 1, j) = DataOf(c, 1, j)
    <2>1. ASSUME NEW k \in 1 .. j
          PROVE  /\ DataParts(x)[k] = DataParts(c)[k + 0] /\ DataParts(x)[k] \in Seq(Places)
                 /\ SpaceParts(x)[k] = SpaceParts(c)[k + 0] /\ SpaceParts(x)[k] \in Seq(Places)
      <3>1. k \in 1 .. Len(x) /\ k \in 1 .. Len(c) /\ x[k] = c[k] /\ x[k] \in GoodBlock /\ k + 0 = k
        BY <1>1, <1>2, <1>3
      <3>2. DataParts(x)[k] = DataPlaces(x[k]) /\ SpaceParts(x)[k] = SpacePlaces(x[k])
        BY <1>2, <3>1, ChainParts
      <3>3. DataParts(c)[k] = DataPlaces(c[k]) /\ SpaceParts(c)[k] = SpacePlaces(c[k])
        BY <3>1, ChainParts
      <3>4. DataPlaces(x[k]) \in Seq(Places) /\ SpacePlaces(x[k]) \in Seq(Places)
        BY <3>1, BlockPlaces
      <3> QED
        BY <3>1, <3>2, <3>3, <3>4
    <2>2. Shifted(Places, DataParts(c), DataParts(x), 1, j, 0) /\ Shifted(Places, SpaceParts(c), SpaceParts(x), 1, j, 0)
      BY <2>1 DEF Shifted
    <2>3. 1 \in Int /\ 0 \in Int /\ j \in Int /\ 1 + 0 = 1 /\ j + 0 = j
      BY <1>1
    <2>4. Flat(DataParts(x), 1, j) = Flat(DataParts(c), 1 + 0, j + 0)
      BY <2>2, <2>3, FlatSame
    <2>5. Flat(SpaceParts(x), 1, j) = Flat(SpaceParts(c), 1 + 0, j + 0)
      BY <2>2, <2>3, FlatSame
    <2> QED
      BY <2>3, <2>4, <2>5, OfIsFlat
  <1>5. n \in 0 .. n /\ 1 \in Nat \ {0} /\ n + 1 \in Nat \ {0} /\ 1 <= n + 1 /\ n <= n + m /\ n + m \in Nat
    BY <1>1
  <1>6. DataOf(x, n + 1, n + m) = <<>>
    <2>1. ASSUME NEW k \in n + 1 .. n + m PROVE x[k].len = 0
      <3>1. k - n \in 1 .. m /\ n + (k - n) = k
        BY <1>1
      <3>2. x[k] = b[k - n]
        BY <1>2, <3>1
      <3> QED
        BY <1>3, <3>1, <3>2 DEF AreNew
    <2>2. n + m \in 0 .. Len(x)
      BY <1>1, <1>2
    <2> QED
      BY <1>2, <1>5, <2>1, <2>2, NoData
  <1>7. DataOf(x, 1, n + m) = DataOf(x, 1, n) \o DataOf(x, n + 1, n + m)
    <2>1. n + m <= Len(x)
      BY <1>1, <1>2
    <2> QED
      BY <1>1, <1>2, <1>5, <2>1, OfSplit, SMTT(30)
  <1>8. DataOf(x, 1, n + m) = DataOf(c, 1, n)
    <2>1. DataOf(c, 1, n) \in Seq(Places)
      BY <1>3, <1>5, OfTypes
    <2>2. DataOf(c, 1, n) \o <<>> = DataOf(c, 1, n)
      BY <2>1, ConcatEmptySeq
    <2> QED
      BY <1>4, <1>5, <1>6, <1>7, <2>2
  <1> DEFINE h == SpaceIn(c, 1, n)
             Ok(k) == SpaceIn(x, 1, n + k) = h + k * Capacity
             S == {k \in Nat : k <= m => Ok(k)}
  <1>9. h \in Nat /\ Capacity \in Nat
    BY <1>3, <1>5, OfTypes, BufferAssumption
  <1>10. SpaceIn(x, 1, n) = h
    BY <1>4, <1>5 DEF SpaceIn
  <1> HIDE DEF h
  <1>11. Ok(0)
    BY <1>1, <1>9, <1>10
  <1>12. ASSUME NEW k \in Nat, k + 1 <= m, Ok(k) PROVE Ok(k + 1)
    <2> DEFINE j == n + (k + 1)
    <2>1. j \in 1 .. Len(x) /\ j - 1 = n + k /\ k + 1 \in 1 .. m
      BY <1>1, <1>2, <1>12
    <2>2. x[j] = b[k + 1] /\ b[k + 1] \in GoodBlock
      BY <1>1, <1>2, <2>1
    <2>3. b[k + 1].offset = 0 /\ b[k + 1].len = 0
      BY <1>3, <2>1 DEF AreNew
    <2>4. SpaceLen(x[j]) = Capacity
      BY <1>9, <2>2, <2>3 DEF SpaceLen
    <2> HIDE DEF j
    <2>5. SpaceIn(x, 1, j) = SpaceIn(x, 1, j - 1) + SpaceLen(x[j])
      BY <1>2, <2>1, OfGrow
    <2>6. (h + k * Capacity) + Capacity = h + (k + 1) * Capacity
      BY <1>9
    <2> QED
      BY <1>12, <2>1, <2>4, <2>5, <2>6 DEF j
  <1>13. 0 \in S /\ \A k \in Nat : k \in S => k + 1 \in S
    <2> HIDE DEF Ok
    <2> QED
      BY <1>1, <1>11, <1>12
  <1> HIDE DEF S
  <1>14. \A k \in Nat : k \in S
    BY <1>13, Induction
  <1>15. Ok(m)
    <2> HIDE DEF Ok
    <2> QED
      BY <1>1, <1>14 DEF S
  <1> QED
    BY <1>2, <1>4, <1>8, <1>15 DEF x, n, m, h

\* SetToSeq lists a finite set.
LEMMA SetToSeqLists ==
  ASSUME NEW S, IsFiniteSet(S)
  PROVE  /\ SetToSeq(S) \in Seq(S) /\ Len(SetToSeq(S)) = Cardinality(S)
         /\ IsInjective(SetToSeq(S))
  <1>1. Cardinality(S) \in Nat /\ ExistsBijection(1 .. Cardinality(S), S)
    BY FS_CardinalityType
  <1>2. \E f \in [1 .. Cardinality(S) -> S] : IsInjective(f)
    BY <1>1 DEF ExistsBijection, Bijection, Injection
  <1>3. SetToSeq(S) \in [1 .. Cardinality(S) -> S] /\ IsInjective(SetToSeq(S))
    BY <1>2 DEF SetToSeq
  <1> QED
    BY <1>1, <1>3, FunctionIsSeq

\* A list without repetitions, and after it the elements that are not in it.
LEMMA ListAll ==
  ASSUME NEW B, IsFiniteSet(B), NEW s \in Seq(B), IsInjective(s)
  PROVE  LET r == SetToSeq(B \ ToSet(s))
         IN /\ r \in Seq(B) /\ Len(s) + Len(r) = Cardinality(B)
            /\ s \o r \in Seq(B) /\ IsInjective(s \o r)
  <1> DEFINE A == ToSet(s)
             r == SetToSeq(B \ A)
             n == Len(s)
  <1>1. n \in Nat /\ DOMAIN s = 1 .. n /\ s \in [1 .. n -> B]
    OBVIOUS
  <1>2. A \subseteq B /\ s \in [1 .. n -> A] /\ \A a \in A : \E i \in 1 .. n : s[i] = a
    BY <1>1 DEF ToSet
  <1>3. Cardinality(A) = n
    <2>1. s \in Bijection(1 .. n, A)
      BY <1>2 DEF Bijection, Injection, Surjection
    <2>2. ExistsBijection(1 .. n, A)
      BY <2>1 DEF ExistsBijection
    <2> QED
      BY <1>1, <2>2, FS_CountingElements
  <1>4. IsFiniteSet(B \ A) /\ Cardinality(B \ A) = Cardinality(B) - n
    <2>1. B \cap A = A
      BY <1>2
    <2> HIDE DEF A
    <2>2. IsFiniteSet(B \ A) /\ Cardinality(B \ A) = Cardinality(B) - Cardinality(B \cap A)
      BY FS_Difference
    <2> QED
      BY <1>3, <2>1, <2>2
  <1>5. r \in Seq(B \ A) /\ Len(r) = Cardinality(B \ A) /\ IsInjective(r)
    BY <1>4, SetToSeqLists
  <1> HIDE DEF A, r
  <1>6. r \in Seq(B) /\ \A i \in 1 .. Len(r) : r[i] \notin A
    BY <1>5, SeqMonotonic
  <1>7. Cardinality(B) \in Nat
    BY FS_CardinalityType
  <1>8. n + Len(r) = Cardinality(B)
    BY <1>1, <1>4, <1>5, <1>7
  <1>9. s \o r \in Seq(B) /\ Len(s \o r) = n + Len(r) /\ Len(r) \in Nat /\ DOMAIN r = 1 .. Len(r)
    BY <1>6
  <1>10. \A i \in 1 .. n + Len(r) : (s \o r)[i] = IF i <= n THEN s[i] ELSE r[i - n]
    BY <1>6, ConcatProperties
  <1> HIDE DEF n
  <1>11. IsInjective(s \o r)
    <2> SUFFICES ASSUME NEW i \in 1 .. n + Len(r), NEW j \in 1 .. n + Len(r), (s \o r)[i] = (s \o r)[j]
                 PROVE  i = j
      <3>1. DOMAIN (s \o r) = 1 .. n + Len(r)
        BY <1>9
      <3> QED
        BY <3>1 DEF IsInjective
    <2>1. ASSUME NEW k \in 1 .. n + Len(r)
          PROVE  \/ k \in 1 .. n /\ (s \o r)[k] = s[k] /\ s[k] \in A
                 \/ k - n \in 1 .. Len(r) /\ (s \o r)[k] = r[k - n] /\ r[k - n] \notin A
      <3>1. CASE k <= n
        <4>1. k \in 1 .. n
          BY <1>1, <3>1
        <4>2. (s \o r)[k] = s[k]
          BY <1>10, <3>1
        <4> QED
          BY <1>2, <4>1, <4>2
      <3>2. CASE ~(k <= n)
        <4>1. k - n \in 1 .. Len(r)
          BY <1>1, <1>9, <3>2
        <4>2. (s \o r)[k] = r[k - n]
          BY <1>10, <3>2
        <4> QED
          BY <1>6, <4>1, <4>2
      <3> QED
        BY <3>1, <3>2
    <2>2. CASE i \in 1 .. n /\ j \in 1 .. n /\ s[i] = s[j]
      BY <1>1, <2>2 DEF IsInjective
    <2>3. CASE i - n \in 1 .. Len(r) /\ j - n \in 1 .. Len(r) /\ r[i - n] = r[j - n]
      <3>1. i - n = j - n
        BY <1>5, <1>9, <2>3 DEF IsInjective
      <3> QED
        BY <1>1, <3>1
    <2>4. \/ i \in 1 .. n /\ (s \o r)[i] = s[i] /\ s[i] \in A
          \/ i - n \in 1 .. Len(r) /\ (s \o r)[i] = r[i - n] /\ r[i - n] \notin A
      BY <2>1
    <2>5. \/ j \in 1 .. n /\ (s \o r)[j] = s[j] /\ s[j] \in A
          \/ j - n \in 1 .. Len(r) /\ (s \o r)[j] = r[j - n] /\ r[j - n] \notin A
      BY <2>1
    <2> QED
      BY <2>2, <2>3, <2>4, <2>5, Zenon
  <1> QED
    BY <1>6, <1>8, <1>9, <1>11 DEF A, r, n

Ids(c) == [i \in DOMAIN c |-> c[i].id]

\* The numbers of the blocks of a list.
LEMMA IdsAre ==
  ASSUME NEW c \in Seq(GoodBlock)
  PROVE  /\ Ids(c) \in Seq(BlockIds) /\ Len(Ids(c)) = Len(c)
         /\ \A i \in 1 .. Len(c) : Ids(c)[i] = c[i].id
  <1>1. DOMAIN c = 1 .. Len(c) /\ Len(c) \in Nat /\ \A i \in 1 .. Len(c) : c[i] \in GoodBlock
    OBVIOUS
  <1>2. \A i \in 1 .. Len(c) : c[i].id \in BlockIds
    BY <1>1, BlockTypes
  <1>3. Ids(c) \in [1 .. Len(c) -> BlockIds] /\ \A i \in 1 .. Len(c) : Ids(c)[i] = c[i].id
    BY <1>1, <1>2 DEF Ids
  <1> QED
    BY <1>1, <1>3, FunctionIsSeq

\* A concatenation, element by element.
LEMMA Joined ==
  ASSUME NEW X, NEW s \in Seq(X), NEW t \in Seq(X), NEW a, NEW b, a = Len(s), b = Len(t)
  PROVE  /\ a \in Nat /\ b \in Nat /\ a + b \in Nat
         /\ s \o t \in Seq(X) /\ Len(s \o t) = a + b /\ DOMAIN (s \o t) = 1 .. a + b
         /\ \A i \in 1 .. a + b : (s \o t)[i] = IF i <= a THEN s[i] ELSE t[i - a]
  <1>1. a \in Nat /\ b \in Nat /\ a + b \in Nat
    OBVIOUS
  <1>2. s \o t \in Seq(X) /\ Len(s \o t) = a + b /\ DOMAIN (s \o t) = 1 .. a + b
    OBVIOUS
  <1>3. \A i \in 1 .. a + b : (s \o t)[i] = IF i <= a THEN s[i] ELSE t[i - a]
    BY ConcatProperties
  <1> QED
    BY <1>1, <1>2, <1>3

\* A sequence whose elements are, in order, the first of a list without
\* repetitions has none either.
LEMMA InjectivePrefix ==
  ASSUME NEW s, NEW t, NEW n \in Nat, DOMAIN s = 1 .. n, 1 .. n \subseteq DOMAIN t,
         Agree(s, t, n), IsInjective(t)
  PROVE  IsInjective(s)
  BY DEF IsInjective, Agree

\* The freelist gives blocks that are in neither list, and enough of them.
LEMMA FreshBlocks ==
  ASSUME chain \in Seq(GoodBlock), free \in Seq(BlockIds), BlocksAreOwnedOnce,
         NEW m \in Nat, m <= MaxBlocks - Len(chain)
  PROVE  /\ NewBlocks(m) \in Seq(GoodBlock) /\ Len(NewBlocks(m)) = m /\ AreNew(NewBlocks(m))
         /\ SubSeq(free, m + 1, Len(free)) \in Seq(BlockIds)
         /\ IsInjective(Ids(chain \o NewBlocks(m)) \o SubSeq(free, m + 1, Len(free)))
  <1> DEFINE ids == Ids(chain)
             own == ids \o free
             r == SetToSeq(BlockIds \ ToSet(own))
             all == own \o r
             next == free \o r
             b == NewBlocks(m)
             x == chain \o b
             rest == SubSeq(free, m + 1, Len(free))
             L == Len(chain)
             K == Len(free)
             R == Len(r)
  <1>1. MaxBlocks \in Nat /\ IsFiniteSet(BlockIds) /\ Cardinality(BlockIds) = MaxBlocks
    <2>1. MaxBlocks \in Nat
      BY BufferAssumption
    <2> QED
      BY <2>1, FS_Interval DEF BlockIds
  <1>2. ids \in Seq(BlockIds) /\ Len(ids) = L /\ \A i \in 1 .. L : ids[i] = chain[i].id
    BY IdsAre
  <1>3. IsInjective(own)
    BY DEF BlocksAreOwnedOnce, Ids
  <1>4. L \in Nat /\ K \in Nat /\ DOMAIN chain = 1 .. L /\ DOMAIN free = 1 .. K
    OBVIOUS
  <1> HIDE DEF ids
  <1>5. /\ own \in Seq(BlockIds) /\ Len(own) = L + K
        /\ \A i \in 1 .. L + K : own[i] = IF i <= L THEN ids[i] ELSE free[i - L]
    <2>1. ids \in Seq(BlockIds) /\ L = Len(ids) /\ K = Len(free)
      BY <1>2
    <2> HIDE DEF L, K
    <2> QED
      BY <2>1, Joined
  <1>6. Allocated = ToSet(own)
    <2>1. DOMAIN own = 1 .. L + K
      BY <1>5
    <2>2. ASSUME NEW a \in Allocated PROVE a \in ToSet(own)
      <3>1. CASE \E i \in DOMAIN chain : a = chain[i].id
        <4>1. PICK i \in 1 .. L : a = chain[i].id
          BY <1>4, <3>1
        <4>2. i \in 1 .. L + K /\ i <= L
          BY <1>4
        <4>3. own[i] = a
          BY <1>2, <1>5, <4>1, <4>2
        <4> QED
          BY <2>1, <4>2, <4>3 DEF ToSet
      <3>2. CASE \E i \in DOMAIN free : a = free[i]
        <4>1. PICK i \in 1 .. K : a = free[i]
          BY <1>4, <3>2
        <4>2. L + i \in 1 .. L + K /\ ~(L + i <= L) /\ (L + i) - L = i
          BY <1>4
        <4>3. own[L + i] = a
          BY <1>5, <4>1, <4>2
        <4> QED
          BY <2>1, <4>2, <4>3 DEF ToSet
      <3> QED
        BY <3>1, <3>2 DEF Allocated, ToSet
    <2>3. ASSUME NEW a \in ToSet(own) PROVE a \in Allocated
      <3>1. PICK i \in 1 .. L + K : a = own[i]
        BY <2>1 DEF ToSet
      <3>2. CASE i <= L
        <4>1. i \in 1 .. L
          BY <1>4, <3>2
        <4> QED
          BY <1>2, <1>4, <1>5, <3>1, <3>2, <4>1 DEF Allocated
      <3>3. CASE ~(i <= L)
        <4>1. i - L \in 1 .. K
          BY <1>4, <3>3
        <4> QED
          BY <1>4, <1>5, <3>1, <3>3, <4>1 DEF Allocated, ToSet
      <3> QED
        BY <3>2, <3>3
    <2> QED
      BY <2>2, <2>3
  <1> HIDE DEF own
  <1>7. /\ r \in Seq(BlockIds) /\ (L + K) + R = MaxBlocks /\ R \in Nat
        /\ all \in Seq(BlockIds) /\ IsInjective(all)
    <2>1. own \in Seq(BlockIds) /\ Len(own) = L + K
      BY <1>5
    <2> HIDE DEF L, K
    <2>2. r \in Seq(BlockIds) /\ Len(own) + Len(r) = Cardinality(BlockIds)
      BY <1>1, <1>3, <2>1, ListAll
    <2>3. all \in Seq(BlockIds) /\ IsInjective(all)
      BY <1>1, <1>3, <2>1, ListAll
    <2> HIDE DEF r
    <2> QED
      BY <1>1, <2>1, <2>2, <2>3
  <1>8. b = [i \in 1 .. m |-> [id |-> next[i], offset |-> 0, len |-> 0]]
    BY <1>6 DEF NewBlocks
  <1> HIDE DEF r
  <1>9. /\ Len(all) = (L + K) + R /\ DOMAIN all = 1 .. (L + K) + R
        /\ \A i \in 1 .. (L + K) + R : all[i] = IF i <= L + K THEN own[i] ELSE r[i - (L + K)]
    <2>1. own \in Seq(BlockIds) /\ L + K = Len(own) /\ r \in Seq(BlockIds) /\ R = Len(r)
      BY <1>5, <1>7
    <2> HIDE DEF L, K, R
    <2> QED
      BY <2>1, Joined
  <1>10. /\ next \in Seq(BlockIds) /\ Len(next) = K + R
         /\ \A i \in 1 .. K + R : next[i] = IF i <= K THEN free[i] ELSE r[i - K]
    BY <1>7, ConcatProperties
  <1> HIDE DEF all, next, b, L, K, R
  <1>11. \A i \in 1 .. L : all[i] = chain[i].id
    <2> SUFFICES ASSUME NEW i \in 1 .. L PROVE all[i] = chain[i].id
      OBVIOUS
    <2>1. i \in 1 .. (L + K) + R /\ i <= L + K /\ i \in 1 .. L + K /\ i <= L
      BY <1>4, <1>7
    <2> QED
      BY <1>2, <1>5, <1>9, <2>1
  <1>12. ASSUME NEW i \in 1 .. K + R PROVE all[L + i] = next[i] /\ L + i \in 1 .. (L + K) + R
    <2>1. L + i \in 1 .. (L + K) + R
      BY <1>4, <1>7
    <2>2. CASE i <= K
      <3>1. L + i <= L + K /\ L + i \in 1 .. L + K /\ ~(L + i <= L) /\ (L + i) - L = i
        BY <1>4, <2>2
      <3> QED
        BY <1>5, <1>9, <1>10, <2>1, <2>2, <3>1
    <2>3. CASE ~(i <= K)
      <3>1. ~(L + i <= L + K) /\ (L + i) - (L + K) = i - K
        BY <1>4, <2>3
      <3> QED
        BY <1>9, <1>10, <2>1, <2>3, <3>1
    <2> QED
      BY <2>1, <2>2, <2>3
  <1>13. m <= K + R
    BY <1>1, <1>4, <1>7 DEF L
  <1>14. /\ b \in Seq(GoodBlock) /\ Len(b) = m /\ AreNew(b) /\ \A i \in 1 .. m : b[i].id = next[i]
    <2>1. ASSUME NEW i \in 1 .. m
          PROVE  b[i].id = next[i] /\ b[i].offset = 0 /\ b[i].len = 0 /\ b[i] \in GoodBlock
      <3>1. next[i] \in BlockIds
        <4>1. i \in 1 .. Len(next)
          BY <1>4, <1>7, <1>10, <1>13
        <4> QED
          BY <1>10, <4>1, ElementOfSeq
      <3>2. b[i] = [id |-> next[i], offset |-> 0, len |-> 0]
        BY <1>8
      <3> QED
        BY <3>1, <3>2, BufferAssumption DEF GoodBlock, Block
    <2>2. b \in [1 .. m -> GoodBlock]
      <3>1. b = [i \in 1 .. m |-> b[i]]
        BY <1>8
      <3> QED
        BY <2>1, <3>1
    <2>3. b \in Seq(GoodBlock) /\ Len(b) = m
      BY <2>2, FunctionIsSeq
    <2> QED
      BY <2>1, <2>3 DEF AreNew
  <1>15. /\ x \in Seq(GoodBlock) /\ Len(x) = L + m
         /\ \A i \in 1 .. L : x[i] = chain[i]
         /\ \A i \in 1 .. m : x[L + i] = b[i]
    BY <1>14, AppendPlaces DEF L
  <1> HIDE DEF x
  <1>16. Ids(x) \in Seq(BlockIds) /\ Len(Ids(x)) = L + m /\ \A i \in 1 .. L + m : Ids(x)[i] = x[i].id
    BY <1>15, IdsAre
  <1>17. ASSUME NEW i \in 1 .. L + m PROVE Ids(x)[i] = all[i] /\ i \in 1 .. (L + K) + R
    <2>1. i \in 1 .. (L + K) + R
      BY <1>4, <1>7, <1>13
    <2>2. CASE i <= L
      <3>1. i \in 1 .. L
        BY <1>4, <2>2
      <3> QED
        BY <1>11, <1>15, <1>16, <2>1, <3>1
    <2>3. CASE ~(i <= L)
      <3> DEFINE k == i - L
      <3>1. k \in 1 .. m /\ k \in 1 .. K + R /\ L + k = i
        BY <1>4, <1>7, <1>13, <2>3
      <3> HIDE DEF k
      <3>2. x[i] = b[k] /\ b[k].id = next[k] /\ all[i] = next[k]
        BY <1>12, <1>14, <1>15, <3>1
      <3> QED
        BY <1>16, <2>1, <3>2
    <2> QED
      BY <2>2, <2>3
  <1>18. /\ rest \in Seq(BlockIds) /\ Len(rest) = (IF m + 1 <= K THEN K - m ELSE 0)
         /\ \A i \in 1 .. K - m : rest[i] = free[m + i]
    <2>1. \A i \in m + 1 .. Len(free) : free[i] \in BlockIds
      OBVIOUS
    <2>2. /\ rest \in Seq(BlockIds)
          /\ Len(rest) = IF m + 1 <= Len(free) THEN Len(free) - (m + 1) + 1 ELSE 0
          /\ \A i \in 1 .. Len(free) - (m + 1) + 1 : rest[i] = free[m + 1 + i - 1]
      BY <2>1, SubSeqProperties
    <2>3. K = Len(free) /\ K - (m + 1) + 1 = K - m /\ \A i \in 1 .. K - m : m + 1 + i - 1 = m + i
      BY <1>4 DEF K
    <2> HIDE DEF rest
    <2> QED
      BY <2>2, <2>3
  <1> HIDE DEF rest
  <1> DEFINE y == Ids(x) \o rest
             n == (L + m) + Len(rest)
  <1>19. /\ n \in Nat /\ DOMAIN y = 1 .. n
         /\ \A i \in 1 .. n : y[i] = IF i <= L + m THEN Ids(x)[i] ELSE rest[i - (L + m)]
    <2>1. Ids(x) \in Seq(BlockIds) /\ L + m = Len(Ids(x)) /\ rest \in Seq(BlockIds)
      BY <1>16, <1>18
    <2> QED
      BY <2>1, Joined
  <1> HIDE DEF y
  <1>20. ASSUME NEW i \in 1 .. n PROVE y[i] = all[i] /\ i \in 1 .. (L + K) + R
    <2>1. CASE i <= L + m
      <3>1. i \in 1 .. L + m
        BY <1>4, <2>1
      <3> QED
        BY <1>17, <1>19, <2>1, <3>1
    <2>2. CASE ~(i <= L + m)
      <3> DEFINE k == i - (L + m)
      <3>1. Len(rest) = K - m /\ k \in 1 .. K - m
        BY <1>4, <1>18, <2>2
      <3>2. /\ m + k \in 1 .. K + R /\ m + k <= K /\ L + (m + k) = i
        BY <1>4, <1>7, <3>1
      <3> HIDE DEF k
      <3>3. rest[k] = free[m + k] /\ next[m + k] = free[m + k]
        BY <1>10, <1>18, <3>1, <3>2
      <3>4. all[i] = next[m + k] /\ i \in 1 .. (L + K) + R
        BY <1>12, <3>2
      <3>5. y[i] = rest[k]
        BY <1>19, <2>2 DEF k
      <3> QED
        BY <3>3, <3>4, <3>5
    <2> QED
      BY <2>1, <2>2
  <1> HIDE DEF n
  <1>21. Agree(y, all, n) /\ 1 .. n \subseteq DOMAIN all
    BY <1>9, <1>20 DEF Agree
  <1>22. IsInjective(y)
    BY <1>7, <1>19, <1>21, InjectivePrefix
  <1> QED
    BY <1>14, <1>18, <1>22 DEF y, x, b, rest

\* Appended blocks are empty ones at the back: end_ and the first block with
\* space stay where they are.
LEMMA AppendShape ==
  ASSUME NEW c \in Seq(GoodBlock), NEW b \in Seq(GoodBlock), AreNew(b),
         NEW e \in 0 .. Len(c), Shaped(c, e), c \o b # <<>>
  PROVE  LET x == c \o b
             z == Max({e, 1})
         IN z \in 1 .. Len(x) /\ Shaped(x, z) /\ FirstOf(x, z) = FirstOf(c, e)
  <1> DEFINE x == c \o b
             z == Max({e, 1})
             n == Len(c)
             m == Len(b)
  <1>1. n \in Nat /\ m \in Nat /\ e \in 0 .. n /\ \A i \in 1 .. m : b[i] \in GoodBlock
    OBVIOUS
  <1>2. /\ x \in Seq(GoodBlock) /\ Len(x) = n + m
        /\ \A i \in 1 .. n : x[i] = c[i]
        /\ \A i \in 1 .. m : x[n + i] = b[i]
    BY AppendPlaces
  <1>3. z = IF e = 0 THEN 1 ELSE e
    BY MaxOfTwo
  <1>4. x # <<>>
    OBVIOUS
  <1>5. e = 0 <=> n = 0
    BY DEF Shaped
  <1>6. \A i \in 1 .. n : /\ c[i].offset < Capacity
                          /\ i > 1 => c[i].offset = 0
                          /\ i < e => SpaceLen(c[i]) = 0
                          /\ i > e => c[i].len = 0
    BY DEF Shaped
  <1>7. ASSUME NEW i \in 1 .. m
        PROVE  b[i].offset = 0 /\ b[i].len = 0 /\ SpaceLen(b[i]) = Capacity /\ Capacity > 0
    BY <1>1, BufferAssumption DEF AreNew, SpaceLen
  <1> HIDE DEF x, z, n, m
  <1>8. Len(x) > 0
    BY <1>2, <1>4
  <1>9. z \in 1 .. Len(x)
    BY <1>1, <1>2, <1>3, <1>8
  <1>10. ASSUME NEW i \in 1 .. Len(x)
         PROVE  /\ x[i].offset < Capacity
                /\ i > 1 => x[i].offset = 0
                /\ i < z => SpaceLen(x[i]) = 0
                /\ i > z => x[i].len = 0
    <2>1. CASE i <= n
      <3>1. i \in 1 .. n /\ x[i] = c[i] /\ e # 0
        BY <1>1, <1>2, <1>5, <2>1
      <3> QED
        BY <1>3, <1>6, <3>1
    <2>2. CASE ~(i <= n)
      <3> DEFINE k == i - n
      <3>1. k \in 1 .. m /\ n + k = i /\ ~(i < z)
        BY <1>1, <1>2, <1>3, <1>5, <2>2
      <3> HIDE DEF k
      <3>2. x[i] = b[k]
        BY <1>2, <3>1
      <3> QED
        BY <1>7, <3>1, <3>2
    <2> QED
      BY <2>1, <2>2
  <1>11. Shaped(x, z)
    <2>1. z # 0
      BY <1>9
    <2> QED
      BY <1>4, <1>10, <2>1 DEF Shaped
  <1>12. FirstOf(x, z) = FirstOf(c, e)
    <2>1. CASE e = 0
      <3>1. z = 1 /\ x[1] = b[1] /\ 1 \in 1 .. m
        <4>1. z = 1 /\ n = 0 /\ 1 \in 1 .. m /\ n + 1 = 1
          BY <1>1, <1>2, <1>3, <1>5, <1>8, <2>1
        <4> QED
          BY <1>2, <4>1
      <3>2. SpaceLen(x[z]) # 0
        BY <1>7, <3>1
      <3>3. Max({1, 1}) = 1 /\ Max({0, 1}) = 1
        BY MaxOfTwo
      <3> QED
        BY <2>1, <3>1, <3>2, <3>3 DEF FirstOf
    <2>2. CASE e # 0
      <3>1. z = e /\ x[e] = c[e]
        BY <1>1, <1>2, <1>3, <2>2
      <3> QED
        BY <3>1 DEF FirstOf
    <2> QED
      BY <2>1, <2>2
  <1> QED
    BY <1>9, <1>11, <1>12 DEF x, z

----------------------------------------------------------------------------
(* Prefixes                                                                 *)

\* A prefix, element by element.
LEMMA PrefixIs ==
  ASSUME NEW X, NEW s \in Seq(X), NEW t \in Seq(X)
  PROVE  IsPrefix(s, t) <=> Len(s) <= Len(t) /\ Agree(s, t, Len(s))
  <1>1. Len(s) \in Nat /\ Len(t) \in Nat /\ SubSeq(s, 1, Len(s)) = s
    OBVIOUS
  <1> SUFFICES ASSUME Len(s) <= Len(t)
               PROVE  s = SubSeq(t, 1, Len(s)) <=> Agree(s, t, Len(s))
    BY <1>1 DEF IsPrefix
  <1>2. /\ SubSeq(t, 1, Len(s)) \in Seq(X) /\ Len(SubSeq(t, 1, Len(s))) = Len(s)
        /\ \A i \in 1 .. Len(s) : SubSeq(t, 1, Len(s))[i] = t[i]
    BY <1>1
  <1> DEFINE u == SubSeq(t, 1, Len(s))
  <1> HIDE DEF u
  <1>3. ASSUME Agree(s, t, Len(s)) PROVE s = u
    <2>1. \A i \in 1 .. Len(s) : s[i] = u[i]
      BY <1>2, <1>3 DEF Agree, u
    <2> QED
      BY <1>2, <2>1, SeqEqual DEF u
  <1>4. ASSUME s = u PROVE Agree(s, t, Len(s))
    BY <1>2, <1>4 DEF Agree, u
  <1> QED
    BY <1>3, <1>4 DEF u

\* A sequence starts with itself, and with what it was before it grew.
LEMMA PrefixSelf ==
  ASSUME NEW X, NEW s \in Seq(X)
  PROVE  IsPrefix(s, s)
  <1>1. Agree(s, s, Len(s)) /\ Len(s) <= Len(s)
    BY DEF Agree
  <1> QED
    BY <1>1, PrefixIs

\* A prefix stays one when the sequence grows.
LEMMA PrefixConcat ==
  ASSUME NEW X, NEW s \in Seq(X), NEW t \in Seq(X), NEW u \in Seq(X), IsPrefix(s, t)
  PROVE  IsPrefix(s, t \o u)
  <1>1. Len(s) <= Len(t) /\ Agree(s, t, Len(s)) /\ Len(s) \in Nat
    BY PrefixIs
  <1>2. /\ t \o u \in Seq(X) /\ Len(t \o u) = Len(t) + Len(u) /\ Len(t) \in Nat /\ Len(u) \in Nat
        /\ \A i \in 1 .. Len(t) + Len(u) : (t \o u)[i] = IF i <= Len(t) THEN t[i] ELSE u[i - Len(t)]
    BY ConcatProperties
  <1> DEFINE v == t \o u
  <1> HIDE DEF v
  <1>3. \A i \in 1 .. Len(s) : s[i] = v[i]
    BY <1>1, <1>2 DEF v, Agree
  <1>4. Agree(s, v, Len(s)) /\ Len(s) <= Len(v) /\ v \in Seq(X)
    BY <1>1, <1>2, <1>3 DEF v, Agree
  <1>5. IsPrefix(s, v)
    BY <1>4, PrefixIs
  <1> QED
    BY <1>5 DEF v

\* The first n of a prefix are the first n of the whole.
LEMMA PrefixFirsts ==
  ASSUME NEW X, NEW s \in Seq(X), NEW t \in Seq(X), IsPrefix(s, t), NEW n \in Nat, n <= Len(s)
  PROVE  /\ SubSeq(s, 1, n) = SubSeq(t, 1, n) /\ Firsts(t, n) = SubSeq(s, 1, n) /\ n <= Len(t)
         /\ SubSeq(s, 1, n) \in Seq(X) /\ Len(SubSeq(s, 1, n)) = n /\ IsPrefix(SubSeq(s, 1, n), t)
         /\ \A i \in 1 .. n : SubSeq(s, 1, n)[i] = s[i] /\ s[i] = t[i]
  <1>1. Len(s) <= Len(t) /\ Agree(s, t, Len(s)) /\ Len(s) \in Nat /\ Len(t) \in Nat
    BY PrefixIs
  <1>2. n <= Len(t)
    BY <1>1
  <1>3. /\ SubSeq(s, 1, n) \in Seq(X) /\ Len(SubSeq(s, 1, n)) = n
        /\ \A i \in 1 .. n : SubSeq(s, 1, n)[i] = s[i]
    BY <1>1
  <1>4. /\ SubSeq(t, 1, n) \in Seq(X) /\ Len(SubSeq(t, 1, n)) = n
        /\ \A i \in 1 .. n : SubSeq(t, 1, n)[i] = t[i]
    BY <1>1, <1>2
  <1>5. \A i \in 1 .. n : s[i] = t[i]
    BY <1>1 DEF Agree
  <1> DEFINE u == SubSeq(s, 1, n)
             v == SubSeq(t, 1, n)
  <1> HIDE DEF u, v
  <1>6. u = v
    <2>1. u \in Seq(X) /\ v \in Seq(X) /\ Len(u) = Len(v) /\ \A i \in 1 .. Len(u) : u[i] = v[i]
      BY <1>3, <1>4, <1>5 DEF u, v
    <2> QED
      BY <2>1, SeqEqual
  <1>7. Firsts(t, n) = v
    BY <1>2 DEF Firsts, v
  <1>8. IsPrefix(u, t)
    <2>1. u \in Seq(X) /\ Len(u) = n /\ Agree(u, t, Len(u))
      BY <1>3, <1>5 DEF u, Agree
    <2> QED
      BY <1>2, <2>1, PrefixIs
  <1> QED
    BY <1>2, <1>3, <1>5, <1>6, <1>7, <1>8 DEF u, v

----------------------------------------------------------------------------
(* The space that Reserve finds                                             *)

\* Nothing is reserved before block F.
FullBefore(c, F) == \A i \in 1 .. Len(c) : i < F => SpaceLen(c[i]) = 0

\* Reserve and CopyIn find the space they need: the blocks they append are
\* enough, and the blocks they step through hold the first of all the space.
LEMMA ReserveSpace ==
  ASSUME chain \in Seq(GoodBlock), free \in Seq(BlockIds), BlocksAreOwnedOnce,
         end \in 0 .. Len(chain), Shaped(chain, end), NEW size \in Nat \ {0},
         Missing(size) <= MaxBlocks - Len(chain)
  PROVE  LET x == Extended(size)
             z == Max({end, 1})
         IN /\ x \in Seq(GoodBlock) /\ z \in 1 .. Len(x) /\ Shaped(x, z)
            /\ FirstOf(x, z) = FirstSpace
            /\ DataOf(x, 1, Len(x)) = AllData
            /\ size <= SpaceIn(x, 1, Len(x))
            /\ Stepped(size) \in Seq(Places) /\ size <= Len(Stepped(size))
            /\ IsPrefix(Stepped(size), SpaceOf(x, 1, Len(x)))
            /\ SubSeq(free, Missing(size) + 1, Len(free)) \in Seq(BlockIds)
            /\ IsInjective(Ids(x) \o SubSeq(free, Missing(size) + 1, Len(free)))
  <1> DEFINE F == FirstSpace
             have == SpaceIn(chain, F, Len(chain))
             m == Missing(size)
             b == NewBlocks(m)
             x == Extended(size)
             z == Max({end, 1})
             L == Len(chain)
  <1>1. F = FirstOf(chain, end)
    BY DEF FirstSpace, FirstOf
  <1>2. F \in 1 .. L + 1 /\ FullBefore(chain, F) /\ L \in Nat
    BY <1>1, FirstOfShaped DEF FullBefore
  <1>3. have \in Nat /\ have = SpaceIn(chain, 1, L)
    <2>1. L \in 0 .. L /\ F - 1 <= L /\ 1 \in Nat \ {0}
      BY <1>2
    <2>2. SpaceIn(chain, 1, L) \in Nat
      BY <2>1, OfTypes
    <2> HIDE DEF F
    <2>3. have = SpaceIn(chain, 1, L)
      BY <1>2, <2>1, SpaceFrom DEF FullBefore
    <2> QED
      BY <2>2, <2>3
  <1> HIDE DEF F
  <1>4. m \in Nat /\ have + m * Capacity >= size
    <2> DEFINE S == {n \in 0 .. size : have + n * Capacity >= size}
    <2>1. size \in S
      <3>1. size * Capacity >= size
        BY BufferAssumption
      <3>2. size * Capacity \in Nat
        BY BufferAssumption
      <3> HIDE DEF have
      <3> QED
        BY <1>3, <3>1, <3>2
    <2>2. S \subseteq Nat
      OBVIOUS
    <2>3. m = Min(S)
      BY DEF Missing, F
    <2> HIDE DEF S
    <2>4. m \in S
      BY <2>1, <2>2, <2>3, MinIsLeast
    <2> HIDE DEF m, have
    <2> QED
      BY <2>4 DEF S
  <1> HIDE DEF have
  <1>5. /\ b \in Seq(GoodBlock) /\ Len(b) = m /\ AreNew(b)
        /\ SubSeq(free, m + 1, Len(free)) \in Seq(BlockIds)
        /\ IsInjective(Ids(chain \o b) \o SubSeq(free, m + 1, Len(free)))
    <2>1. m <= MaxBlocks - Len(chain)
      OBVIOUS
    <2> HIDE DEF m
    <2> QED
      BY <1>4, <2>1, FreshBlocks
  <1>6. x = chain \o b
    BY DEF Extended
  <1> HIDE DEF m, b, x
  <1>7. /\ x \in Seq(GoodBlock) /\ Len(x) = L + m
        /\ DataOf(x, 1, Len(x)) = DataOf(chain, 1, L)
        /\ SpaceIn(x, 1, Len(x)) = SpaceIn(chain, 1, L) + m * Capacity
    BY <1>5, <1>6, AppendPlaces
  <1>8. SpaceIn(x, 1, Len(x)) >= size
    BY <1>3, <1>4, <1>7
  <1>9. Len(x) \in Nat /\ Len(x) \in 0 .. Len(x) /\ 1 \in Nat \ {0}
    BY <1>7
  <1>10. SpaceOf(x, 1, Len(x)) \in Seq(Places) /\ SpaceIn(x, 1, Len(x)) \in Nat
    BY <1>7, <1>9, OfTypes
  <1>11. x # <<>>
    <2> SUFFICES ASSUME x = <<>> PROVE FALSE
      OBVIOUS
    <2>1. Len(x) = 0 /\ \A k \in 1 .. Len(x) : SpaceLen(x[k]) = 0
      OBVIOUS
    <2>2. SpaceOf(x, 1, Len(x)) = <<>>
      BY <1>7, <1>9, <2>1, NoSpace
    <2>3. SpaceIn(x, 1, Len(x)) = 0
      BY <2>2 DEF SpaceIn
    <2> QED
      BY <1>8, <2>3
  <1>12. z \in 1 .. Len(x) /\ Shaped(x, z) /\ FirstOf(x, z) = F
    BY <1>1, <1>5, <1>6, <1>11, AppendShape
  <1> HIDE DEF z
  <1>13. FullBefore(x, F) /\ F \in 1 .. Len(x) + 1
    <2>1. z \in 0 .. Len(x)
      BY <1>9, <1>12
    <2> QED
      BY <1>7, <1>12, <2>1, FirstOfShaped DEF FullBefore
  <1>14. F <= Len(x)
    <2> SUFFICES ASSUME ~(F <= Len(x)) PROVE FALSE
      OBVIOUS
    <2>1. \A k \in 1 .. Len(x) : SpaceLen(x[k]) = 0
      BY <1>9, <1>13 DEF FullBefore
    <2>2. SpaceOf(x, 1, Len(x)) = <<>>
      BY <1>7, <1>9, <2>1, NoSpace
    <2>3. SpaceIn(x, 1, Len(x)) = 0
      BY <2>2 DEF SpaceIn
    <2> QED
      BY <1>8, <2>3
  <1>15. ASSUME NEW j \in F .. Len(x)
         PROVE  SpaceOf(x, F, j) = SpaceOf(x, 1, j) /\ SpaceIn(x, F, j) = SpaceIn(x, 1, j)
    <2>1. j \in 0 .. Len(x) /\ F - 1 <= j
      BY <1>9, <1>13
    <2> QED
      BY <1>7, <1>13, <2>1, SpaceFrom DEF FullBefore
  <1> DEFINE T == {j \in F .. Len(x) : SpaceIn(x, F, j) >= size}
             last == Min(T)
  <1>16. last \in F .. Len(x) /\ SpaceIn(x, F, last) >= size
    <2>1. Len(x) \in F .. Len(x)
      BY <1>9, <1>13, <1>14
    <2>2. Len(x) \in T
      BY <1>8, <1>15, <2>1
    <2>3. T \subseteq Nat
      BY <1>9, <1>13
    <2> HIDE DEF T
    <2>4. last \in T
      BY <2>2, <2>3, MinIsLeast
    <2> QED
      BY <2>4 DEF T
  <1>17. Stepped(size) = SpaceOf(x, F, last)
    BY DEF Stepped, x, F
  <1> HIDE DEF last
  <1>18. Stepped(size) = SpaceOf(x, 1, last) /\ SpaceIn(x, 1, last) >= size
    BY <1>15, <1>16, <1>17
  <1>19. last \in Nat /\ last \in 0 .. Len(x) /\ last <= Len(x) /\ last + 1 \in Nat \ {0}
    BY <1>9, <1>13, <1>16
  <1>20. SpaceOf(x, 1, last) \in Seq(Places) /\ SpaceOf(x, last + 1, Len(x)) \in Seq(Places)
    BY <1>7, <1>9, <1>19, OfTypes
  <1>21. SpaceOf(x, 1, Len(x)) = SpaceOf(x, 1, last) \o SpaceOf(x, last + 1, Len(x))
    <2> DEFINE n == Len(x)
    <2>1. x \in Seq(GoodBlock) /\ 1 \in Nat \ {0} /\ last \in Nat /\ n \in Nat
      BY <1>7, <1>9, <1>19
    <2>2. 1 <= last + 1 /\ last <= n /\ n <= Len(x)
      BY <1>9, <1>19
    <2> HIDE DEF n
    <2>3. SpaceOf(x, 1, n) = SpaceOf(x, 1, last) \o SpaceOf(x, last + 1, n)
      BY <2>1, <2>2, OfSplit, SMTT(30)
    <2> QED
      BY <2>3 DEF n
  <1>22. IsPrefix(SpaceOf(x, 1, last), SpaceOf(x, 1, Len(x)))
    BY <1>20, <1>21, PrefixSelf, PrefixConcat
  <1>23. size <= Len(SpaceOf(x, 1, last))
    BY <1>18, <1>20 DEF SpaceIn
  <1>24. DataOf(x, 1, Len(x)) = AllData
    BY <1>7 DEF AllData
  <1>25. size <= SpaceIn(x, 1, Len(x))
    BY <1>8, <1>10
  <1> QED
    BY <1>5, <1>6, <1>7, <1>12, <1>18, <1>20, <1>22, <1>23, <1>24, <1>25 DEF x, z, F, m

----------------------------------------------------------------------------
(* Where the places are                                                     *)

\* Block i of chain c has place p among its data, or its space.
InData(c, i, p) ==
  i \in 1 .. Len(c) /\ \E k \in 1 .. c[i].len : p = <<c[i].id, c[i].offset + k>>
InSpace(c, i, p) ==
  i \in 1 .. Len(c) /\ \E k \in 1 .. SpaceLen(c[i]) : p = <<c[i].id, c[i].offset + c[i].len + k>>

\* Every place of the data lies in the data of some block.
LEMMA WhereDataIs ==
  ASSUME NEW c \in Seq(GoodBlock), NEW j \in 0 .. Len(c), NEW q \in 1 .. Len(DataOf(c, 1, j))
  PROVE  \E i \in 1 .. j : InData(c, i, DataOf(c, 1, j)[q])
  <1>1. /\ DataParts(c) \in Seq(Seq(Places)) /\ Len(DataParts(c)) = Len(c)
        /\ \A k \in 1 .. Len(c) : DataParts(c)[k] = DataPlaces(c[k])
    BY ChainParts
  <1>2. DataOf(c, 1, j) = Flat(DataParts(c), 1, j)
    BY OfIsFlat
  <1> DEFINE s == DataParts(c)
             p == DataOf(c, 1, j)[q]
  <1>3. s \in Seq(Seq(Places)) /\ j \in 0 .. Len(s) /\ q \in 1 .. Len(Flat(s, 1, j))
    BY <1>1, <1>2
  <1>4. p = Flat(s, 1, j)[q]
    BY <1>2
  <1> HIDE DEF s, p
  <1>5. PICK i \in 1 .. j : \E r \in 1 .. Len(s[i]) : Flat(s, 1, j)[q] = s[i][r]
    <2>1. Occurs(s, j, Flat(s, 1, j)[q])
      BY <1>3, FlatElement
    <2> QED
      BY <2>1 DEF Occurs
  <1>6. PICK r \in 1 .. Len(s[i]) : p = s[i][r]
    BY <1>4, <1>5
  <1>7. i \in 1 .. Len(c) /\ c[i] \in GoodBlock
    OBVIOUS
  <1>8. s[i] = DataPlaces(c[i])
    BY <1>1, <1>7 DEF s
  <1>9. Len(DataPlaces(c[i])) = c[i].len
    BY <1>7, BlockPlaces
  <1>10. r \in 1 .. c[i].len
    BY <1>6, <1>8, <1>9
  <1>11. p = <<c[i].id, c[i].offset + r>>
    BY <1>6, <1>8, <1>10 DEF DataPlaces
  <1>12. InData(c, i, p)
    BY <1>7, <1>10, <1>11 DEF InData
  <1> QED
    BY <1>12 DEF p

\* Every place of the space lies in the space of some block.
LEMMA WhereSpaceIs ==
  ASSUME NEW c \in Seq(GoodBlock), NEW j \in 0 .. Len(c), NEW q \in 1 .. Len(SpaceOf(c, 1, j))
  PROVE  \E i \in 1 .. j : InSpace(c, i, SpaceOf(c, 1, j)[q])
  <1>1. /\ SpaceParts(c) \in Seq(Seq(Places)) /\ Len(SpaceParts(c)) = Len(c)
        /\ \A k \in 1 .. Len(c) : SpaceParts(c)[k] = SpacePlaces(c[k])
    BY ChainParts
  <1>2. SpaceOf(c, 1, j) = Flat(SpaceParts(c), 1, j)
    BY OfIsFlat
  <1> DEFINE s == SpaceParts(c)
             p == SpaceOf(c, 1, j)[q]
  <1>3. s \in Seq(Seq(Places)) /\ j \in 0 .. Len(s) /\ q \in 1 .. Len(Flat(s, 1, j))
    BY <1>1, <1>2
  <1>4. p = Flat(s, 1, j)[q]
    BY <1>2
  <1> HIDE DEF s, p
  <1>5. PICK i \in 1 .. j : \E r \in 1 .. Len(s[i]) : Flat(s, 1, j)[q] = s[i][r]
    <2>1. Occurs(s, j, Flat(s, 1, j)[q])
      BY <1>3, FlatElement
    <2> QED
      BY <2>1 DEF Occurs
  <1>6. PICK r \in 1 .. Len(s[i]) : p = s[i][r]
    BY <1>4, <1>5
  <1>7. i \in 1 .. Len(c) /\ c[i] \in GoodBlock
    OBVIOUS
  <1>8. s[i] = SpacePlaces(c[i])
    BY <1>1, <1>7 DEF s
  <1>9. Len(SpacePlaces(c[i])) = SpaceLen(c[i])
    BY <1>7, BlockPlaces
  <1>10. r \in 1 .. SpaceLen(c[i])
    BY <1>6, <1>8, <1>9
  <1>11. p = <<c[i].id, c[i].offset + c[i].len + r>>
    BY <1>6, <1>8, <1>10 DEF SpacePlaces
  <1>12. InSpace(c, i, p)
    BY <1>7, <1>10, <1>11 DEF InSpace
  <1> QED
    BY <1>12 DEF p

\* No two blocks of the chain are the same.
OwnBlocks(c) == \A i, j \in 1 .. Len(c) : c[i].id = c[j].id => i = j

\* No place is both data and space.
LEMMA DataIsNoSpace ==
  ASSUME NEW c \in Seq(GoodBlock), OwnBlocks(c), NEW i, NEW j, NEW p, InData(c, i, p)
  PROVE  ~InSpace(c, j, p)
  <1> SUFFICES ASSUME InSpace(c, j, p) PROVE FALSE
    OBVIOUS
  <1>1. i \in 1 .. Len(c) /\ j \in 1 .. Len(c)
    BY DEF InData, InSpace
  <1>2. PICK k \in 1 .. c[i].len : p = <<c[i].id, c[i].offset + k>>
    BY DEF InData
  <1>3. PICK r \in 1 .. SpaceLen(c[j]) : p = <<c[j].id, c[j].offset + c[j].len + r>>
    BY DEF InSpace
  <1>4. c[i].id = c[j].id /\ c[i].offset + k = c[j].offset + c[j].len + r
    BY <1>2, <1>3
  <1>5. i = j
    BY <1>1, <1>4 DEF OwnBlocks
  <1>6. c[i] \in GoodBlock
    BY <1>1
  <1>7. c[i].offset \in Nat /\ c[i].len \in Nat /\ SpaceLen(c[i]) \in Nat
    BY <1>6, BlockTypes
  <1>8. c[i].offset + k = c[i].offset + c[i].len + r /\ k <= c[i].len /\ r >= 1 /\ k \in Nat /\ r \in Nat
    BY <1>3, <1>4, <1>5, <1>7
  <1> QED
    BY <1>7, <1>8

\* No place of the space is counted twice.
LEMMA SpaceIsDistinct ==
  ASSUME NEW c \in Seq(GoodBlock), OwnBlocks(c)
  PROVE  \A j \in 0 .. Len(c) : IsInjective(SpaceOf(c, 1, j))
  <1> DEFINE S == {j \in Nat : j <= Len(c) => IsInjective(SpaceOf(c, 1, j))}
  <1>1. 0 \in S
    <2>1. SpaceOf(c, 1, 0) = <<>>
      <3>1. 0 \in 0 .. Len(c) /\ 1 \in Nat \ {0} /\ \A k \in 1 .. 0 : SpaceLen(c[k]) = 0
        OBVIOUS
      <3> QED
        BY <3>1, NoSpace
    <2> QED
      BY <2>1 DEF IsInjective
  <1>2. ASSUME NEW n \in Nat, n \in S PROVE n + 1 \in S
    <2> SUFFICES ASSUME n + 1 <= Len(c) PROVE IsInjective(SpaceOf(c, 1, n + 1))
      OBVIOUS
    <2> DEFINE s == SpaceOf(c, 1, n)
               t == SpacePlaces(c[n + 1])
               u == SpaceOf(c, 1, n + 1)
               a == Len(s)
               b == Len(t)
    <2>1. n \in 0 .. Len(c) /\ n + 1 \in 1 .. Len(c) /\ (n + 1) - 1 = n /\ 1 \in Nat \ {0}
          /\ c[n + 1] \in GoodBlock
      OBVIOUS
    <2>2. IsInjective(s)
      BY <1>2, <2>1
    <2>3. s \in Seq(Places) /\ t \in Seq(Places) /\ b = SpaceLen(c[n + 1])
      BY <2>1, OfTypes, BlockPlaces
    <2>4. u = s \o t
      BY <2>1, OfGrow
    <2>5. ASSUME NEW q \in 1 .. a PROVE \E i \in 1 .. n : InSpace(c, i, s[q])
      BY <2>1, WhereSpaceIs
    <2>6. ASSUME NEW q \in 1 .. b PROVE t[q] = <<c[n + 1].id, c[n + 1].offset + c[n + 1].len + q>>
      BY <2>3 DEF SpacePlaces
    <2> HIDE DEF s, t
    <2>7. /\ a \in Nat /\ b \in Nat /\ DOMAIN (s \o t) = 1 .. a + b
          /\ \A i \in 1 .. a + b : (s \o t)[i] = IF i <= a THEN s[i] ELSE t[i - a]
      BY <2>3, Joined
    <2>8. DOMAIN s = 1 .. a
      BY <2>3
    <2> HIDE DEF u, a, b
    <2>9. ASSUME NEW q \in 1 .. a, NEW r \in 1 .. b PROVE s[q] # t[r]
      <3> SUFFICES ASSUME s[q] = t[r] PROVE FALSE
        OBVIOUS
      <3>1. PICK i \in 1 .. n : InSpace(c, i, s[q])
        BY <2>5
      <3>2. PICK k \in 1 .. SpaceLen(c[i]) : s[q] = <<c[i].id, c[i].offset + c[i].len + k>>
        BY <3>1 DEF InSpace
      <3> DEFINE v == c[i].offset + c[i].len + k
                 w == c[n + 1].offset + c[n + 1].len + r
      <3>3. <<c[i].id, v>> = <<c[n + 1].id, w>>
        BY <2>6, <3>2
      <3> HIDE DEF v, w
      <3>5. c[i].id = c[n + 1].id
        BY <3>3
      <3>4. i \in 1 .. Len(c) /\ i # n + 1
        BY <2>1
      <3> QED
        BY <2>1, <3>5, <3>4 DEF OwnBlocks
    <2>10. ASSUME NEW q \in 1 .. b, NEW r \in 1 .. b, t[q] = t[r] PROVE q = r
      <3> DEFINE v == c[n + 1].offset
                 w == c[n + 1].len
      <3>1. v \in Nat /\ w \in Nat
        BY <2>1, BlockTypes
      <3>2. v + w + q = v + w + r
        BY <2>6, <2>10
      <3> HIDE DEF v, w
      <3> QED
        BY <2>7, <3>1, <3>2
    <2>11. ASSUME NEW q \in 1 .. a + b, NEW r \in 1 .. a + b, u[q] = u[r] PROVE q = r
      <3>1. CASE q <= a /\ r <= a
        <4>1. q \in 1 .. a /\ r \in 1 .. a /\ s[q] = s[r]
          BY <2>4, <2>7, <2>11, <3>1
        <4> QED
          BY <2>2, <2>8, <4>1 DEF IsInjective
      <3>2. CASE q <= a /\ ~(r <= a)
        <4>1. q \in 1 .. a /\ r - a \in 1 .. b /\ s[q] = t[r - a]
          BY <2>4, <2>7, <2>11, <3>2
        <4> QED
          BY <2>9, <4>1
      <3>3. CASE ~(q <= a) /\ r <= a
        <4>2. r \in 1 .. a /\ q - a \in 1 .. b
          BY <2>7, <3>3
        <4>3. u[r] = s[r] /\ u[q] = t[q - a]
          BY <2>4, <2>7, <3>3
        <4>1. r \in 1 .. a /\ q - a \in 1 .. b /\ s[r] = t[q - a]
          BY <2>11, <4>2, <4>3
        <4> QED
          BY <2>9, <4>1
      <3>4. CASE ~(q <= a) /\ ~(r <= a)
        <4>1. r - a \in 1 .. b /\ q - a \in 1 .. b /\ t[q - a] = t[r - a]
          BY <2>4, <2>7, <2>11, <3>4
        <4>2. q - a = r - a
          BY <2>10, <4>1
        <4> QED
          BY <2>7, <4>2
      <3> QED
        BY <3>1, <3>2, <3>3, <3>4
    <2> QED
      BY <2>4, <2>7, <2>11 DEF IsInjective, u
  <1> HIDE DEF S
  <1>3. \A n \in Nat : n \in S
    BY <1>1, <1>2, Induction
  <1> QED
    BY <1>3 DEF S

----------------------------------------------------------------------------
(* The bytes in places                                                      *)

MemType == [BlockIds -> [1 .. Capacity -> 0 .. MaxBytes]]

\* Bytes, of a given memory.
BytesIn(m, p) == [i \in DOMAIN p |-> m[p[i][1]][p[i][2]]]

\* The bytes at some places, place by place.
LEMMA BytesAre ==
  ASSUME NEW m \in MemType, NEW p \in Seq(Places)
  PROVE  /\ BytesIn(m, p) \in Seq(0 .. MaxBytes) /\ Len(BytesIn(m, p)) = Len(p)
         /\ \A i \in 1 .. Len(p) : BytesIn(m, p)[i] = m[p[i][1]][p[i][2]]
  <1>1. DOMAIN p = 1 .. Len(p) /\ Len(p) \in Nat /\ \A i \in 1 .. Len(p) : p[i] \in Places
    OBVIOUS
  <1>2. \A i \in 1 .. Len(p) : m[p[i][1]][p[i][2]] \in 0 .. MaxBytes
    BY <1>1 DEF MemType, Places
  <1>3. /\ BytesIn(m, p) \in [1 .. Len(p) -> 0 .. MaxBytes]
        /\ \A i \in 1 .. Len(p) : BytesIn(m, p)[i] = m[p[i][1]][p[i][2]]
    BY <1>1, <1>2 DEF BytesIn
  <1> QED
    BY <1>1, <1>3, FunctionIsSeq

\* The bytes at places that are put together.
LEMMA BytesOfConcat ==
  ASSUME NEW m \in MemType, NEW p \in Seq(Places), NEW q \in Seq(Places)
  PROVE  BytesIn(m, p \o q) = BytesIn(m, p) \o BytesIn(m, q)
  <1> DEFINE a == Len(p)
             b == Len(q)
             u == p \o q
             x == BytesIn(m, p)
             y == BytesIn(m, q)
             v == x \o y
             w == BytesIn(m, u)
  <1>1. /\ a \in Nat /\ b \in Nat /\ u \in Seq(Places) /\ Len(u) = a + b
        /\ \A i \in 1 .. a + b : u[i] = IF i <= a THEN p[i] ELSE q[i - a]
    BY Joined
  <1>2. /\ x \in Seq(0 .. MaxBytes) /\ Len(x) = a /\ \A i \in 1 .. a : x[i] = m[p[i][1]][p[i][2]]
    BY BytesAre
  <1>3. /\ y \in Seq(0 .. MaxBytes) /\ Len(y) = b /\ \A i \in 1 .. b : y[i] = m[q[i][1]][q[i][2]]
    BY BytesAre
  <1> HIDE DEF u, x, y, a, b
  <1>4. /\ w \in Seq(0 .. MaxBytes) /\ Len(w) = a + b
        /\ \A i \in 1 .. a + b : w[i] = m[u[i][1]][u[i][2]]
    BY <1>1, BytesAre
  <1>5. /\ v \in Seq(0 .. MaxBytes) /\ Len(v) = a + b
        /\ \A i \in 1 .. a + b : v[i] = IF i <= a THEN x[i] ELSE y[i - a]
    BY <1>2, <1>3, Joined
  <1> HIDE DEF v, w
  <1>6. ASSUME NEW i \in 1 .. a + b PROVE w[i] = v[i]
    <2>1. CASE i <= a
      <3>1. i \in 1 .. a /\ u[i] = p[i] /\ v[i] = x[i]
        BY <1>1, <1>5, <2>1
      <3> QED
        BY <1>2, <1>4, <3>1
    <2>2. CASE ~(i <= a)
      <3>1. i - a \in 1 .. b /\ u[i] = q[i - a] /\ v[i] = y[i - a]
        BY <1>1, <1>5, <2>2
      <3> QED
        BY <1>3, <1>4, <3>1
    <2> QED
      BY <2>1, <2>2
  <1>7. w = v
    BY <1>4, <1>5, <1>6, SeqEqual
  <1> QED
    BY <1>7 DEF u, v, w, x, y

\* The bytes at a part of the places.
LEMMA BytesOfPart ==
  ASSUME NEW m \in MemType, NEW p \in Seq(Places), NEW a \in Nat \ {0}, NEW b \in 0 .. Len(p)
  PROVE  BytesIn(m, SubSeq(p, a, b)) = SubSeq(BytesIn(m, p), a, b)
  <1> DEFINE x == BytesIn(m, p)
             q == SubSeq(p, a, b)
             v == SubSeq(x, a, b)
             w == BytesIn(m, q)
             n == IF a <= b THEN b - a + 1 ELSE 0
  <1>1. a \in Int /\ b \in Int /\ Len(p) \in Nat /\ n \in Nat /\ \A i \in a .. b : i \in 1 .. Len(p)
    OBVIOUS
  <1>2. /\ x \in Seq(0 .. MaxBytes) /\ Len(x) = Len(p)
        /\ \A i \in 1 .. Len(p) : x[i] = m[p[i][1]][p[i][2]]
    BY BytesAre
  <1> HIDE DEF x
  <1>3. /\ q \in Seq(Places) /\ Len(q) = n /\ \A i \in 1 .. b - a + 1 : q[i] = p[a + i - 1]
    <2>1. \A i \in a .. b : p[i] \in Places
      BY <1>1
    <2> QED
      BY <1>1, <2>1, SubSeqProperties
  <1>4. /\ v \in Seq(0 .. MaxBytes) /\ Len(v) = n /\ \A i \in 1 .. b - a + 1 : v[i] = x[a + i - 1]
    <2>1. ASSUME NEW i \in a .. b PROVE x[i] \in 0 .. MaxBytes
      <3>1. i \in 1 .. Len(x)
        BY <1>1, <1>2
      <3> QED
        BY <1>2, <3>1, ElementOfSeq
    <2> QED
      BY <1>1, <2>1, SubSeqProperties
  <1> HIDE DEF q, v
  <1>5. w \in Seq(0 .. MaxBytes) /\ Len(w) = n /\ \A i \in 1 .. n : w[i] = m[q[i][1]][q[i][2]]
    <2>1. q \in Seq(Places) /\ Len(q) = n
      BY <1>3
    <2> HIDE DEF n
    <2> QED
      BY <2>1, BytesAre
  <1> HIDE DEF w
  <1>6. ASSUME NEW i \in 1 .. n PROVE w[i] = v[i]
    <2> DEFINE j == a + i - 1
    <2>1. i \in 1 .. b - a + 1 /\ j \in 1 .. Len(p)
      BY <1>1
    <2>2. q[i] = p[j] /\ v[i] = x[j]
      BY <1>3, <1>4, <2>1
    <2> HIDE DEF j, n
    <2> QED
      BY <1>2, <1>5, <2>1, <2>2
  <1> HIDE DEF n
  <1>7. w = v
    BY <1>4, <1>5, <1>6, SeqEqual
  <1> QED
    BY <1>7 DEF v, w, q, x

\* What the socket reads is stored, in order, in the places it is given.
LEMMA StoredBytes ==
  ASSUME mem \in MemType, written \in Nat, NEW p \in Seq(Places), IsInjective(p), NEW n \in Nat,
         n <= Len(p), written + n <= MaxBytes
  PROVE  /\ Stored(p, n) \in MemType
         /\ BytesIn(Stored(p, n), SubSeq(p, 1, n)) = [k \in 1 .. n |-> written + k]
  <1> DEFINE new == Stored(p, n)
  <1>1. /\ Len(p) \in Nat /\ DOMAIN p = 1 .. Len(p) /\ MaxBytes \in Nat
        /\ \A k \in 1 .. n : k \in 1 .. Len(p) /\ p[k] \in Places
    BY BufferAssumption
  <1>2. ASSUME NEW b \in BlockIds, NEW i \in 1 .. Capacity
        PROVE  new[b][i] \in 0 .. MaxBytes
    <2>1. new[b][i] = IF \E k \in 1 .. n : p[k] = <<b, i>>
                      THEN written + CHOOSE k \in 1 .. n : p[k] = <<b, i>> ELSE mem[b][i]
      BY DEF Stored
    <2> HIDE DEF new
    <2>2. CASE \E k \in 1 .. n : p[k] = <<b, i>>
      <3> DEFINE k == CHOOSE k \in 1 .. n : p[k] = <<b, i>>
      <3>1. k \in 1 .. n
        BY <2>2
      <3>2. new[b][i] = written + k
        BY <2>1, <2>2
      <3> HIDE DEF k
      <3> QED
        BY <1>1, <3>1, <3>2
    <2>3. CASE ~ \E k \in 1 .. n : p[k] = <<b, i>>
      BY <2>1, <2>3 DEF MemType
    <2> QED
      BY <2>2, <2>3
  <1>3. new \in MemType
    <2>1. new = [b \in BlockIds |-> [i \in 1 .. Capacity |-> new[b][i]]]
      BY DEF Stored
    <2> HIDE DEF new
    <2> QED
      BY <1>2, <2>1 DEF MemType
  <1>4. ASSUME NEW k \in 1 .. n PROVE new[p[k][1]][p[k][2]] = written + k
    <2> DEFINE b == p[k][1]
               i == p[k][2]
               r == CHOOSE r \in 1 .. n : p[r] = <<b, i>>
    <2>1. b \in BlockIds /\ i \in 1 .. Capacity /\ p[k] = <<b, i>>
      BY <1>1 DEF Places
    <2>2. \E r_1 \in 1 .. n : p[r_1] = <<b, i>>
      BY <2>1
    <2>3. r \in 1 .. n /\ p[r] = <<b, i>>
      BY <2>2
    <2>4. new[b][i] = written + r
      BY <2>1, <2>2 DEF Stored
    <2> HIDE DEF r, b, i, new
    <2>5. r = k
      BY <1>1, <2>1, <2>3 DEF IsInjective
    <2> QED
      BY <2>4, <2>5 DEF b, i
  <1> HIDE DEF new
  <1> DEFINE q == SubSeq(p, 1, n)
             v == BytesIn(new, q)
             w == [k \in 1 .. n |-> written + k]
  <1>5. q \in Seq(Places) /\ Len(q) = n /\ \A k \in 1 .. n : q[k] = p[k]
    BY <1>1
  <1> HIDE DEF q
  <1>6. v \in Seq(0 .. MaxBytes) /\ Len(v) = n /\ \A k \in 1 .. n : v[k] = new[q[k][1]][q[k][2]]
    BY <1>3, <1>5, BytesAre
  <1>7. DOMAIN v = 1 .. n /\ v = [k \in 1 .. n |-> v[k]]
    BY <1>6
  <1> HIDE DEF v
  <1>8. \A k \in 1 .. n : v[k] = written + k
    BY <1>4, <1>5, <1>6
  <1>9. v = w
    BY <1>7, <1>8
  <1> QED
    BY <1>3, <1>9 DEF v, q, new

\* Elsewhere nothing changes.
Apart(d, p, n) == \A i \in 1 .. Len(d) : \A k \in 1 .. n : d[i] # p[k]

\* Bytes that are stored leave the places alone that they do not go to.
LEMMA StoredElsewhere ==
  ASSUME mem \in MemType, NEW p \in Seq(Places), NEW n \in Nat, Stored(p, n) \in MemType,
         NEW d \in Seq(Places), Apart(d, p, n)
  PROVE  BytesIn(Stored(p, n), d) = BytesIn(mem, d)
  <1> DEFINE new == Stored(p, n)
             v == BytesIn(new, d)
             w == BytesIn(mem, d)
  <1>1. ASSUME NEW i \in 1 .. Len(d) PROVE new[d[i][1]][d[i][2]] = mem[d[i][1]][d[i][2]]
    <2> DEFINE b == d[i][1]
               j == d[i][2]
    <2>1. b \in BlockIds /\ j \in 1 .. Capacity /\ d[i] = <<b, j>>
      <3>1. d[i] \in Places
        OBVIOUS
      <3> QED
        BY <3>1 DEF Places
    <2>2. ~ \E k \in 1 .. n : p[k] = <<b, j>>
      BY <2>1 DEF Apart
    <2>3. new[b][j] = mem[b][j]
      BY <2>1, <2>2 DEF Stored
    <2> QED
      BY <2>3
  <1> HIDE DEF new
  <1>2. new \in MemType
    BY DEF new
  <1>3. v \in Seq(0 .. MaxBytes) /\ Len(v) = Len(d) /\ \A i \in 1 .. Len(d) : v[i] = new[d[i][1]][d[i][2]]
    BY <1>2, BytesAre
  <1>4. w \in Seq(0 .. MaxBytes) /\ Len(w) = Len(d) /\ \A i \in 1 .. Len(d) : w[i] = mem[d[i][1]][d[i][2]]
    BY BytesAre
  <1> HIDE DEF v, w
  <1>5. \A i \in 1 .. Len(v) : v[i] = w[i]
    BY <1>1, <1>3, <1>4
  <1>6. v = w
    BY <1>3, <1>4, <1>5, SeqEqual
  <1> QED
    BY <1>6 DEF v, w, new

\* The first places of the space are no places of data, and are distinct: storing
\* bytes there leaves the data alone.
LEMMA StoreInSpace ==
  ASSUME mem \in MemType, written \in Nat, NEW c \in Seq(GoodBlock), OwnBlocks(c),
         NEW p \in Seq(Places), IsPrefix(p, SpaceOf(c, 1, Len(c))), NEW n \in Nat, n <= Len(p),
         written + n <= MaxBytes
  PROVE  LET d == DataOf(c, 1, Len(c))
         IN /\ Stored(p, n) \in MemType
            /\ BytesIn(Stored(p, n), SubSeq(p, 1, n)) = [k \in 1 .. n |-> written + k]
            /\ BytesIn(Stored(p, n), d) = BytesIn(mem, d)
  <1> DEFINE d == DataOf(c, 1, Len(c))
             s == SpaceOf(c, 1, Len(c))
  <1>1. Len(c) \in 0 .. Len(c) /\ 1 \in Nat \ {0} /\ Len(p) \in Nat
    OBVIOUS
  <1>2. d \in Seq(Places) /\ s \in Seq(Places) /\ Len(s) \in Nat
    BY <1>1, OfTypes
  <1>3. IsInjective(s)
    BY <1>1, SpaceIsDistinct
  <1>4. ASSUME NEW q \in 1 .. Len(s) PROVE \E j \in 1 .. Len(c) : InSpace(c, j, s[q])
    BY <1>1, WhereSpaceIs
  <1>5. ASSUME NEW q \in 1 .. Len(d) PROVE \E j \in 1 .. Len(c) : InData(c, j, d[q])
    BY <1>1, WhereDataIs
  <1>6. IsPrefix(p, s)
    OBVIOUS
  <1> HIDE DEF d, s
  <1>7. Len(p) <= Len(s) /\ Agree(p, s, Len(p))
    BY <1>2, <1>6, PrefixIs
  <1>8. IsInjective(p)
    <2>1. DOMAIN p = 1 .. Len(p) /\ 1 .. Len(p) \subseteq DOMAIN s
      BY <1>1, <1>2, <1>7
    <2> QED
      BY <1>1, <1>3, <1>7, <2>1, InjectivePrefix
  <1>9. /\ Stored(p, n) \in MemType
        /\ BytesIn(Stored(p, n), SubSeq(p, 1, n)) = [k \in 1 .. n |-> written + k]
    BY <1>8, StoredBytes
  <1>10. Apart(d, p, n)
    <2> SUFFICES ASSUME NEW i \in 1 .. Len(d), NEW k \in 1 .. n, d[i] = p[k] PROVE FALSE
      BY DEF Apart
    <2>1. k \in 1 .. Len(p) /\ k \in 1 .. Len(s)
      BY <1>1, <1>2, <1>7
    <2>2. p[k] = s[k]
      BY <1>7, <2>1 DEF Agree
    <2>3. PICK j \in 1 .. Len(c) : InData(c, j, d[i])
      BY <1>5
    <2>4. PICK h \in 1 .. Len(c) : InSpace(c, h, s[k])
      BY <1>4, <2>1
    <2> QED
      BY <2>2, <2>3, <2>4, DataIsNoSpace
  <1>11. BytesIn(Stored(p, n), d) = BytesIn(mem, d)
    BY <1>2, <1>9, <1>10, StoredElsewhere
  <1> QED
    BY <1>9, <1>11 DEF d

----------------------------------------------------------------------------
(* Peek, the sizes and the freelist                                         *)

\* The data ends where the first block without data is, so Peek sees all of it.
LEMMA PeekAll ==
  ASSUME chain \in Seq(GoodBlock), end \in 0 .. Len(chain), Shaped(chain, end)
  PROVE  PeekPlaces = AllData
  <1> DEFINE L == Len(chain)
             I == {i \in 1 .. L : chain[i].len = 0}
             k == Min(I)
  <1>1. L \in Nat /\ L \in 0 .. L /\ 1 \in Nat \ {0} /\ I \subseteq Nat
    OBVIOUS
  <1>2. PeekPlaces = IF I # {} THEN DataOf(chain, 1, IF k = 0 THEN L ELSE k - 1)
                     ELSE DataOf(chain, 1, L)
    BY DEF PeekPlaces, SelectInSeq
  <1>3. CASE I = {}
    BY <1>2, <1>3 DEF AllData
  <1>4. CASE I # {}
    <2>1. k \in I
      BY <1>1, <1>4, MinIsLeast
    <2> HIDE DEF k
    <2>2. k \in 1 .. L /\ chain[k].len = 0 /\ k # 0
      BY <2>1
    <2>3. k >= end
      <3> SUFFICES ASSUME k < end PROVE FALSE
        BY <2>2
      <3>1. SpaceLen(chain[k]) = 0 /\ chain[k].offset < Capacity /\ chain[k] \in GoodBlock
        BY <2>2 DEF Shaped
      <3>2. SpaceLen(chain[k]) = Capacity - chain[k].offset - chain[k].len
        BY DEF SpaceLen
      <3>3. chain[k].offset \in Nat /\ Capacity \in Nat
        BY <3>1, BlockTypes, BufferAssumption
      <3> QED
        BY <2>2, <3>1, <3>2, <3>3
    <2>4. \A i \in k .. L : chain[i].len = 0
      <3> SUFFICES ASSUME NEW i \in k .. L PROVE chain[i].len = 0
        OBVIOUS
      <3>1. i \in 1 .. L /\ (i = k \/ i > end)
        BY <1>1, <2>2, <2>3
      <3> QED
        BY <2>2, <3>1 DEF Shaped
    <2> DEFINE h == k - 1
    <2>5. h \in Nat /\ h \in 0 .. L /\ h + 1 = k /\ k \in Nat \ {0} /\ 1 <= h + 1 /\ h <= L
      BY <1>1, <2>2
    <2>6. DataOf(chain, k, L) = <<>>
      BY <1>1, <2>4, <2>5, NoData
    <2> HIDE DEF h
    <2>7. DataOf(chain, 1, L) = DataOf(chain, 1, h) \o DataOf(chain, h + 1, L)
      <3>1. L <= Len(chain) /\ L \in Nat
        BY <1>1
      <3> HIDE DEF L
      <3> QED
        BY <1>1, <2>5, <3>1, OfSplit
    <2>8. DataOf(chain, 1, h) \in Seq(Places)
      BY <1>1, <2>5, OfTypes
    <2>9. DataOf(chain, 1, L) = DataOf(chain, 1, h)
      BY <2>5, <2>6, <2>7, <2>8, ConcatEmptySeq
    <2>10. PeekPlaces = DataOf(chain, 1, h)
      BY <1>2, <1>4, <2>2 DEF h
    <2> QED
      BY <2>9, <2>10 DEF AllData
  <1> QED
    BY <1>3, <1>4

\* The data and the space of the first j blocks, and what was consumed of the
\* first, make up j blocks.
LEMMA SizesSum ==
  ASSUME NEW c \in Seq(GoodBlock), NEW e, Shaped(c, e), NEW j \in 1 .. Len(c)
  PROVE  Len(DataOf(c, 1, j)) + SpaceIn(c, 1, j) + c[1].offset = j * Capacity
  <1> DEFINE D(n) == Len(DataOf(c, 1, n))
             P(n) == SpaceIn(c, 1, n)
             S == {n \in Nat : n + 1 <= Len(c) => D(n + 1) + P(n + 1) + c[1].offset = (n + 1) * Capacity}
  <1>1. Capacity \in Nat /\ Len(c) \in Nat /\ \A i \in 1 .. Len(c) : c[i] \in GoodBlock
    BY BufferAssumption
  <1>2. ASSUME NEW i \in 1 .. Len(c)
        PROVE  /\ c[i].offset \in Nat /\ c[i].len \in Nat /\ SpaceLen(c[i]) \in Nat
               /\ c[i].offset + c[i].len + SpaceLen(c[i]) = Capacity
    <2>1. c[i].offset \in Nat /\ c[i].len \in Nat /\ SpaceLen(c[i]) \in Nat
      BY <1>1, BlockTypes
    <2> QED
      BY <1>1, <2>1 DEF SpaceLen
  <1>3. ASSUME NEW n \in 0 .. Len(c) PROVE D(n) \in Nat /\ P(n) \in Nat
    <2>1. 1 \in Nat \ {0}
      OBVIOUS
    <2> QED
      BY <2>1, OfTypes
  <1>4. ASSUME NEW n \in Nat, n + 1 <= Len(c)
        PROVE  D(n + 1) = D(n) + c[n + 1].len /\ P(n + 1) = P(n) + SpaceLen(c[n + 1])
    <2>1. n + 1 \in 1 .. Len(c) /\ (n + 1) - 1 = n
      BY <1>1, <1>4
    <2>2. D(n + 1) = D((n + 1) - 1) + c[n + 1].len /\ P(n + 1) = P((n + 1) - 1) + SpaceLen(c[n + 1])
      BY <2>1, OfGrow
    <2> QED
      BY <2>1, <2>2
  <1>5. D(0) = 0 /\ P(0) = 0
    <2>1. 0 \in 0 .. Len(c) /\ 1 \in Nat \ {0} /\ \A k \in 1 .. 0 : SpaceLen(c[k]) = 0 /\ c[k].len = 0
      BY <1>1
    <2>2. DataOf(c, 1, 0) = <<>> /\ SpaceOf(c, 1, 0) = <<>>
      BY <2>1, NoSpace, NoData
    <2> QED
      BY <2>2 DEF SpaceIn
  <1> HIDE DEF D, P
  <1>6. 0 \in S
    <2> SUFFICES ASSUME 0 + 1 <= Len(c) PROVE D(1) + P(1) + c[1].offset = Capacity
      BY <1>1
    <2>1. 1 \in 1 .. Len(c) /\ 0 \in Nat /\ 0 + 1 = 1
      BY <1>1
    <2>2. D(1) = 0 + c[1].len /\ P(1) = 0 + SpaceLen(c[1])
      BY <1>4, <1>5, <2>1
    <2> QED
      BY <1>1, <1>2, <2>1, <2>2
  <1>7. ASSUME NEW n \in Nat, n \in S PROVE n + 1 \in S
    <2> DEFINE m == n + 1
    <2> SUFFICES ASSUME m + 1 <= Len(c) PROVE D(m + 1) + P(m + 1) + c[1].offset = (m + 1) * Capacity
      OBVIOUS
    <2>1. m \in Nat /\ m \in 0 .. Len(c) /\ m + 1 \in 1 .. Len(c) /\ 1 \in 1 .. Len(c) /\ m + 1 > 1
      BY <1>1
    <2>2. D(m) + P(m) + c[1].offset = m * Capacity
      BY <1>1, <1>7, <2>1
    <2> HIDE DEF m
    <2>3. c[m + 1].offset = 0
      BY <2>1 DEF Shaped
    <2>4. c[m + 1].len + SpaceLen(c[m + 1]) = Capacity /\ c[m + 1].len \in Nat /\ SpaceLen(c[m + 1]) \in Nat
      BY <1>1, <1>2, <2>1, <2>3
    <2>5. D(m + 1) = D(m) + c[m + 1].len /\ P(m + 1) = P(m) + SpaceLen(c[m + 1])
      BY <1>4, <2>1
    <2>6. D(m) \in Nat /\ P(m) \in Nat /\ c[1].offset \in Nat
      BY <1>2, <1>3, <2>1
    <2>7. (m + 1) * Capacity = m * Capacity + Capacity
      BY <1>1, <2>1
    <2>8. m * Capacity \in Nat
      BY <1>1, <2>1
    <2> DEFINE d == D(m)
               p == P(m)
               o == c[1].offset
               x == c[m + 1].len
               y == SpaceLen(c[m + 1])
               w == m * Capacity
    <2>9. /\ d \in Nat /\ p \in Nat /\ o \in Nat /\ x \in Nat /\ y \in Nat /\ w \in Nat
          /\ d + p + o = w /\ x + y = Capacity
          /\ D(m + 1) = d + x /\ P(m + 1) = p + y /\ (m + 1) * Capacity = w + Capacity
      BY <2>2, <2>4, <2>5, <2>6, <2>7, <2>8
    <2> HIDE DEF d, p, o, x, y, w
    <2>10. (d + x) + (p + y) + o = w + Capacity
      BY <1>1, <2>9
    <2> QED
      BY <2>9, <2>10 DEF o
  <1> HIDE DEF S
  <1>8. \A n \in Nat : n \in S
    BY <1>6, <1>7, Induction
  <1>9. j - 1 \in Nat /\ (j - 1) + 1 = j
    BY <1>1
  <1>10. D(j) + P(j) + c[1].offset = j * Capacity
    BY <1>8, <1>9 DEF S
  <1> QED
    BY <1>10 DEF D, P

\* A list without repetitions, taken in another order, has none.
Turn(g, L, i) == IF i <= L - g THEN g + i ELSE IF i <= L THEN L + 1 - i ELSE i
Turned(s, t, g, L, n) == \A i \in 1 .. n : s[i] = t[Turn(g, L, i)]

\* A list whose first blocks go to its end owns no block twice if it did not.
LEMMA TurnedIsInjective ==
  ASSUME NEW s, NEW t, NEW n \in Nat, NEW L \in 0 .. n, NEW g \in 0 .. L, DOMAIN s = 1 .. n,
         DOMAIN t = 1 .. n, Turned(s, t, g, L, n), IsInjective(t)
  PROVE  IsInjective(s)
  <1>1. \A i \in 1 .. n : Turn(g, L, i) \in 1 .. n
    BY DEF Turn
  <1>2. \A i, j \in 1 .. n : Turn(g, L, i) = Turn(g, L, j) => i = j
    BY DEF Turn
  <1> SUFFICES ASSUME NEW i \in 1 .. n, NEW j \in 1 .. n, s[i] = s[j] PROVE i = j
    BY DEF IsInjective
  <1>3. t[Turn(g, L, i)] = t[Turn(g, L, j)]
    BY DEF Turned
  <1>4. Turn(g, L, i) = Turn(g, L, j)
    BY <1>1, <1>3 DEF IsInjective
  <1> QED
    BY <1>2, <1>4

\* The blocks that Drain gives back leave the list and enter the freelist.
LEMMA BlocksReturned ==
  ASSUME NEW c \in Seq(GoodBlock), NEW f \in Seq(BlockIds), IsInjective(Ids(c) \o f),
         NEW g \in 0 .. Len(c), NEW l \in Seq(GoodBlock), Len(l) = Len(c) - g,
         \A i \in 1 .. Len(l) : l[i].id = c[g + i].id
  PROVE  LET r == Reverse([i \in 1 .. g |-> c[i].id]) \o f
         IN r \in Seq(BlockIds) /\ IsInjective(Ids(l) \o r)
  <1> DEFINE L == Len(c)
             K == Len(f)
             h == [i \in 1 .. g |-> c[i].id]
             v == Reverse(h)
             r == v \o f
             y == Ids(l) \o r
             own == Ids(c) \o f
             n == L + K
  <1>1. L \in Nat /\ K \in Nat /\ g \in 0 .. L /\ n \in Nat /\ L \in 0 .. n /\ g \in Nat
    OBVIOUS
  <1>2. Ids(c) \in Seq(BlockIds) /\ Len(Ids(c)) = L /\ \A i \in 1 .. L : Ids(c)[i] = c[i].id
    BY IdsAre
  <1>3. Ids(l) \in Seq(BlockIds) /\ Len(Ids(l)) = L - g /\ \A i \in 1 .. L - g : Ids(l)[i] = c[g + i].id
    BY IdsAre
  <1>4. h \in [1 .. g -> BlockIds]
    <2>1. \A i \in 1 .. g : i \in 1 .. L /\ c[i].id \in BlockIds
      BY <1>1, BlockTypes
    <2> QED
      BY <2>1
  <1>5. Len(h) = g /\ h \in Seq(BlockIds) /\ \A i \in 1 .. g : h[i] = c[i].id
    BY <1>1, <1>4, FunctionIsSeq
  <1> HIDE DEF h
  <1>6. v \in [1 .. g -> BlockIds] /\ \A i \in 1 .. g : v[i] = c[g - i + 1].id
    <2>1. \A i \in 1 .. g : g - i + 1 \in 1 .. g
      BY <1>1
    <2>2. v = [i \in 1 .. g |-> h[g - i + 1]]
      BY <1>5 DEF Reverse
    <2> HIDE DEF v
    <2> QED
      BY <1>4, <1>5, <2>1, <2>2
  <1>7. Len(v) = g /\ v \in Seq(BlockIds)
    BY <1>1, <1>6, FunctionIsSeq
  <1> HIDE DEF v, K
  <1>8. /\ r \in Seq(BlockIds) /\ Len(r) = g + K
        /\ \A i \in 1 .. g + K : r[i] = IF i <= g THEN v[i] ELSE f[i - g]
    <2>1. g = Len(v) /\ K = Len(f) /\ v \in Seq(BlockIds)
      BY <1>7 DEF K
    <2> QED
      BY <2>1, Joined
  <1> HIDE DEF r, L
  <1>9. (L - g) + (g + K) = n
    BY <1>1
  <1>10. /\ DOMAIN y = 1 .. n
         /\ \A i \in 1 .. n : y[i] = IF i <= L - g THEN Ids(l)[i] ELSE r[i - (L - g)]
    <2> DEFINE a == L - g
               b == g + K
    <2>1. /\ a = Len(Ids(l)) /\ b = Len(r) /\ a + b = n
          /\ Ids(l) \in Seq(BlockIds) /\ r \in Seq(BlockIds)
      BY <1>3, <1>8, <1>9
    <2> HIDE DEF a, b, n
    <2>2. /\ DOMAIN y = 1 .. a + b
          /\ \A i \in 1 .. a + b : y[i] = IF i <= a THEN Ids(l)[i] ELSE r[i - a]
      BY <2>1, Joined
    <2> QED
      BY <2>1, <2>2 DEF a
  <1>11. /\ DOMAIN own = 1 .. n
         /\ \A i \in 1 .. n : own[i] = IF i <= L THEN Ids(c)[i] ELSE f[i - L]
    BY <1>2, Joined DEF K
  <1> HIDE DEF y, own
  <1>12. ASSUME NEW i \in 1 .. n PROVE y[i] = own[Turn(g, L, i)]
    <2>1. CASE i <= L - g
      <3> DEFINE k == g + i
      <3>1. Turn(g, L, i) = k /\ k \in 1 .. n /\ k \in 1 .. L /\ k <= L /\ i \in 1 .. L - g
        BY <1>1, <2>1 DEF Turn
      <3>2. y[i] = c[k].id
        BY <1>3, <1>10, <2>1, <3>1
      <3> HIDE DEF k
      <3>3. own[k] = c[k].id
        BY <1>2, <1>11, <3>1
      <3> QED
        BY <3>1, <3>2, <3>3
    <2>2. CASE ~(i <= L - g) /\ i <= L
      <3> DEFINE j == i - (L - g)
                 k == L + 1 - i
      <3>1. /\ Turn(g, L, i) = k /\ k \in 1 .. n /\ k \in 1 .. L /\ k <= L
            /\ j \in 1 .. g /\ j \in 1 .. g + K /\ j <= g /\ g - j + 1 = k
        BY <1>1, <2>2 DEF Turn
      <3>2. y[i] = r[j]
        BY <1>10, <2>2
      <3> HIDE DEF j, k
      <3>3. r[j] = c[k].id
        BY <1>6, <1>8, <3>1
      <3>4. own[k] = c[k].id
        BY <1>2, <1>11, <3>1
      <3> QED
        BY <3>1, <3>2, <3>3, <3>4
    <2>3. CASE ~(i <= L)
      <3> DEFINE j == i - (L - g)
      <3>1. /\ Turn(g, L, i) = i /\ ~(i <= L - g)
            /\ j \in 1 .. g + K /\ ~(j <= g) /\ j - g = i - L
        BY <1>1, <2>3 DEF Turn
      <3>2. y[i] = r[j]
        BY <1>10, <3>1
      <3> HIDE DEF j
      <3>3. r[j] = f[i - L]
        BY <1>8, <3>1
      <3>4. own[i] = f[i - L]
        BY <1>11, <2>3
      <3> QED
        BY <3>1, <3>2, <3>3, <3>4
    <2> QED
      BY <2>1, <2>2, <2>3
  <1>13. Turned(y, own, g, L, n)
    BY <1>12 DEF Turned
  <1>14. IsInjective(own)
    BY DEF own
  <1> HIDE DEF n
  <1>15. IsInjective(y)
    BY <1>1, <1>10, <1>11, <1>13, <1>14, TurnedIsInjective
  <1> QED
    BY <1>8, <1>15 DEF y, r, v, h

\* Blocks that are owned once are different blocks.
LEMMA OwnedBlocksDiffer ==
  ASSUME NEW c \in Seq(GoodBlock), NEW f \in Seq(BlockIds), IsInjective(Ids(c) \o f)
  PROVE  OwnBlocks(c)
  <1> DEFINE L == Len(c)
             K == Len(f)
             own == Ids(c) \o f
  <1>1. Ids(c) \in Seq(BlockIds) /\ Len(Ids(c)) = L /\ \A i \in 1 .. L : Ids(c)[i] = c[i].id
    BY IdsAre
  <1>2. /\ L \in Nat /\ K \in Nat /\ DOMAIN own = 1 .. L + K
        /\ \A i \in 1 .. L + K : own[i] = IF i <= L THEN Ids(c)[i] ELSE f[i - L]
    BY <1>1, Joined
  <1>3. IsInjective(own)
    OBVIOUS
  <1> HIDE DEF own, L, K
  <1> SUFFICES ASSUME NEW i \in 1 .. L, NEW j \in 1 .. L, c[i].id = c[j].id PROVE i = j
    BY DEF OwnBlocks, L
  <1>4. i \in 1 .. L + K /\ j \in 1 .. L + K /\ i <= L /\ j <= L
    BY <1>2
  <1>5. own[i] = own[j]
    BY <1>1, <1>2, <1>4
  <1> QED
    BY <1>2, <1>3, <1>4, <1>5 DEF IsInjective

----------------------------------------------------------------------------
(* The inductive invariant                                                  *)

\* A list and a freelist in accord: the list has its shape, the counter is the
\* data there is, and no block is owned twice.
ListOK(c, e, d, f) ==
  /\ c \in Seq(GoodBlock)
  /\ e \in 0 .. Len(c)
  /\ Shaped(c, e)
  /\ d = Len(DataOf(c, 1, Len(c)))
  /\ f \in Seq(BlockIds)
  /\ IsInjective(Ids(c) \o f)

\* A read under way, over the space there is: r are the first places of it, and
\* what arrived there are the bytes to be committed next.
ReadOK(space, m, r, a, w) ==
  /\ m \in MemType
  /\ w \in 0 .. MaxBytes
  /\ a \in Nat \cup {None}
  /\ r # None => r \in Seq(Places) /\ r # <<>> /\ IsPrefix(r, space)
  /\ a # None => /\ r # None
                 /\ a <= Len(r)
                 /\ w + a <= MaxBytes
                 /\ BytesIn(m, SubSeq(r, 1, a)) = [k \in 1 .. a |-> w + k]

\* A write under way, over the data there is: p are the first places of it, and
\* what was sent are the first bytes of it.
WriteOK(data, m, p, s, o) ==
  /\ p # None => p \in Seq(Places) /\ IsPrefix(p, data)
  /\ s # None => /\ p # None
                 /\ s \in Seq(0 .. MaxBytes)
                 /\ Len(s) <= Len(p)
                 /\ s = SubSeq(BytesIn(m, data), 1, Len(s))
  /\ o \in Seq(0 .. MaxBytes)

AllSpace == SpaceOf(chain, 1, Len(chain))

Inv ==
  /\ ListOK(chain, end, dataSize, free)
  /\ ReadOK(AllSpace, mem, reservation, arrived, written)
  /\ WriteOK(AllData, mem, peeked, sent, out)

\* What the shape of the list says of its sizes and types.
LEMMA ListFacts ==
  ASSUME NEW c, NEW e, NEW d, NEW f, ListOK(c, e, d, f)
  PROVE  /\ Len(c) \in Nat /\ Len(c) \in 0 .. Len(c) /\ 1 \in Nat \ {0}
         /\ DataOf(c, 1, Len(c)) \in Seq(Places) /\ SpaceOf(c, 1, Len(c)) \in Seq(Places)
         /\ d \in Nat /\ OwnBlocks(c)
  <1>1. c \in Seq(GoodBlock) /\ f \in Seq(BlockIds) /\ IsInjective(Ids(c) \o f)
        /\ d = Len(DataOf(c, 1, Len(c)))
    BY DEF ListOK
  <1>2. Len(c) \in Nat /\ Len(c) \in 0 .. Len(c) /\ 1 \in Nat \ {0}
    BY <1>1
  <1>3. /\ DataOf(c, 1, Len(c)) \in Seq(Places) /\ SpaceOf(c, 1, Len(c)) \in Seq(Places)
        /\ Len(DataOf(c, 1, Len(c))) \in Nat
    BY <1>1, <1>2, OfTypes
  <1>4. OwnBlocks(c)
    BY <1>1, OwnedBlocksDiffer
  <1> QED
    BY <1>1, <1>2, <1>3, <1>4

\* Filling n bytes of the space keeps the list in order and appends the first n
\* places of the space to the data.
LEMMA FillList ==
  ASSUME NEW c, NEW e, NEW ds, NEW f, ListOK(c, e, ds, f), NEW n \in Nat, n <= SpaceIn(c, 1, Len(c))
  PROVE  LET F == FirstOf(c, e)
             d == Committed(c, F, n)
             z == IF n = 0 THEN e ELSE Min({i \in F .. Len(c) : SpaceIn(c, F, i) >= n})
         IN /\ ListOK(d, z, ds + n, f)
            /\ DataOf(d, 1, Len(d)) = DataOf(c, 1, Len(c)) \o Firsts(SpaceOf(c, 1, Len(c)), n)
  <1> DEFINE F == FirstOf(c, e)
             d == Committed(c, F, n)
             z == IF n = 0 THEN e ELSE Min({i \in F .. Len(c) : SpaceIn(c, F, i) >= n})
             data == DataOf(c, 1, Len(c))
             space == SpaceOf(c, 1, Len(c))
  <1>1. /\ c \in Seq(GoodBlock) /\ e \in 0 .. Len(c) /\ Shaped(c, e) /\ ds = Len(data)
        /\ f \in Seq(BlockIds) /\ IsInjective(Ids(c) \o f)
    BY DEF ListOK
  <1>2. Len(c) \in 0 .. Len(c) /\ data \in Seq(Places) /\ space \in Seq(Places) /\ Len(c) \in Nat
    BY ListFacts
  <1>3. F \in 1 .. Len(c) + 1 /\ FullBefore(c, F)
    BY <1>1, FirstOfShaped DEF FullBefore
  <1>4. d \in Seq(GoodBlock) /\ IsFilled(c, d, n)
    <2> HIDE DEF F
    <2> QED
      BY <1>1, <1>3, CommittedBlocks DEF FullBefore
  <1>5. z \in 0 .. Len(c) /\ Shaped(d, z)
    <2>1. CASE n = 0
      <3>1. IsFilled(c, d, 0) /\ z = e
        BY <1>4, <2>1
      <3>2. d = c
        BY <1>1, <1>4, <3>1, CommitNothing
      <3> QED
        BY <1>1, <3>1, <3>2
    <2>2. CASE n # 0
      <3> DEFINE y == Min({i \in F .. Len(c) : SpaceIn(c, F, i) >= n})
      <3>1. n \in Nat \ {0} /\ n <= SpaceIn(c, 1, Len(c)) /\ z = y
        BY <2>2
      <3> HIDE DEF d, z
      <3>2. y \in 1 .. Len(c) /\ Shaped(d, y)
        BY <1>1, <1>4, <3>1, CommitShape
      <3> HIDE DEF y
      <3> QED
        BY <1>2, <3>1, <3>2
    <2> QED
      BY <2>1, <2>2
  <1> HIDE DEF d, z
  <1>6. Len(d) = Len(c) /\ \A i \in 1 .. Len(c) : d[i].id = c[i].id
    BY <1>4 DEF IsFilled
  <1>7. Ids(d) = Ids(c)
    <2>1. DOMAIN d = 1 .. Len(c) /\ DOMAIN c = 1 .. Len(c)
      BY <1>1, <1>4, <1>6
    <2> QED
      BY <1>6, <2>1 DEF Ids
  <1>8. DataOf(d, 1, Len(c)) = data \o Firsts(space, n)
    BY <1>1, <1>2, <1>4, CommitMoves
  <1>9. Len(Firsts(space, n)) = n /\ Firsts(space, n) \in Seq(Places)
    <2>1. n <= Len(space)
      BY DEF SpaceIn
    <2>2. /\ Firsts(space, n) \in Seq(Places)
          /\ Len(Firsts(space, n)) = IF n <= Len(space) THEN n ELSE Len(space)
      BY <1>2, FirstsAre
    <2> QED
      BY <2>1, <2>2
  <1>10. Len(data \o Firsts(space, n)) = ds + n
    <2>1. ds = Len(data) /\ n = Len(Firsts(space, n))
      BY <1>1, <1>9
    <2> QED
      BY <1>2, <1>9, <2>1, Joined
  <1>11. ListOK(d, z, ds + n, f)
    BY <1>1, <1>4, <1>5, <1>6, <1>7, <1>8, <1>10 DEF ListOK
  <1> QED
    BY <1>6, <1>8, <1>11 DEF d, z

\* A write under way does not notice data that is appended, nor bytes that are
\* stored elsewhere.
LEMMA WriteStays ==
  ASSUME NEW data \in Seq(Places), NEW m \in MemType, NEW l \in MemType, NEW p, NEW s, NEW o,
         WriteOK(data, m, p, s, o), NEW q \in Seq(Places), BytesIn(l, data) = BytesIn(m, data)
  PROVE  WriteOK(data \o q, l, p, s, o)
  <1> DEFINE t == data \o q
             x == BytesIn(m, data)
             y == BytesIn(l, q)
  <1>1. t \in Seq(Places)
    OBVIOUS
  <1>2. BytesIn(l, t) = x \o y
    BY BytesOfConcat
  <1>3. /\ x \in Seq(0 .. MaxBytes) /\ y \in Seq(0 .. MaxBytes) /\ Len(x) = Len(data)
    BY BytesAre
  <1>4. ASSUME p # None PROVE p \in Seq(Places) /\ IsPrefix(p, t)
    BY <1>4, PrefixConcat DEF WriteOK
  <1>5. ASSUME s # None
        PROVE  /\ p # None /\ s \in Seq(0 .. MaxBytes) /\ Len(s) <= Len(p)
               /\ s = SubSeq(BytesIn(l, t), 1, Len(s))
    <2>1. p # None /\ s \in Seq(0 .. MaxBytes) /\ Len(s) <= Len(p) /\ s = SubSeq(x, 1, Len(s))
      BY <1>5 DEF WriteOK
    <2>2. p \in Seq(Places) /\ IsPrefix(p, data)
      BY <2>1 DEF WriteOK
    <2>3. Len(p) <= Len(data)
      BY <2>2, PrefixIs
    <2> DEFINE n == Len(s)
    <2>4. n \in Nat /\ n <= Len(x)
      <3>1. Len(s) \in Nat /\ Len(p) \in Nat /\ Len(data) \in Nat
        BY <2>1, <2>2
      <3> HIDE DEF x
      <3> QED
        BY <1>3, <2>1, <2>3, <3>1
    <2> HIDE DEF x, y, n
    <2>5. IsPrefix(x, x \o y) /\ x \o y \in Seq(0 .. MaxBytes)
      BY <1>3, PrefixSelf, PrefixConcat
    <2>6. SubSeq(x, 1, n) = SubSeq(x \o y, 1, n)
      BY <1>3, <2>4, <2>5, PrefixFirsts
    <2> QED
      BY <1>2, <2>1, <2>6 DEF n
  <1>6. o \in Seq(0 .. MaxBytes)
    BY DEF WriteOK
  <1> HIDE DEF t
  <1>7. WriteOK(t, l, p, s, o)
    BY <1>4, <1>5, <1>6 DEF WriteOK
  <1> QED
    BY <1>7 DEF t

\* Without a read, or a write, under way there is nothing to keep.
LEMMA NoRead ==
  ASSUME NEW space, NEW m \in MemType, NEW w \in 0 .. MaxBytes
  PROVE  ReadOK(space, m, None, None, w)
  BY DEF ReadOK

\* Without a write that is pending nothing is asked of what was peeked at.
LEMMA NoWrite ==
  ASSUME NEW data, NEW m, NEW o \in Seq(0 .. MaxBytes)
  PROVE  WriteOK(data, m, None, None, o)
  BY DEF WriteOK

\* Consuming n bytes keeps the list and the freelist in order, takes the first n
\* places from the data, and leaves the space alone when it is reserved.
LEMMA DrainList ==
  ASSUME ListOK(chain, end, dataSize, free), NEW n \in Nat, n <= dataSize, Drained(n)
  PROVE  /\ ListOK(chain', end', dataSize', free')
         /\ AllData' = Rest(AllData, n)
         /\ reservation # None => AllSpace' = AllSpace
  <1> DEFINE d == Consumed(n)
             l == LeftOf(chain, d)
             g == Cardinality(Spent(chain, d))
             z == IF Len(AllData) > n THEN end - g ELSE IF l = <<>> THEN 0 ELSE 1
             y == chain'
             r == Reverse([i \in 1 .. g |-> chain[i].id]) \o free
  <1>1. /\ chain \in Seq(GoodBlock) /\ end \in 0 .. Len(chain) /\ Shaped(chain, end)
        /\ dataSize = Len(AllData) /\ free \in Seq(BlockIds) /\ IsInjective(Ids(chain) \o free)
    BY DEF ListOK, AllData
  <1>2. Len(chain) \in Nat /\ AllData \in Seq(Places) /\ dataSize \in Nat
    BY ListFacts DEF AllData
  <1>3. d \in Seq(GoodBlock) /\ IsEmptied(chain, d, n)
    BY <1>1, ConsumedBlocks
  <1>4. Len(d) = Len(chain) /\ DOMAIN chain = 1 .. Len(chain)
    BY <1>1, <1>3 DEF IsEmptied
  <1>5. Exhausted(n) = Spent(chain, d)
    BY <1>4 DEF Exhausted, Spent
  <1>6. SubSeq(Consumed(n), Cardinality(Exhausted(n)) + 1, Len(chain)) = l
    BY <1>4, <1>5 DEF LeftOf
  <1>7. /\ y = ResetHead(l, dataSize - n)
        /\ free' = r
        /\ dataSize' = dataSize - n
        /\ end' = z
    BY <1>1, <1>5, <1>6 DEF Drained
  <1> HIDE DEF d, y
  <1>8. /\ g \in 0 .. Len(chain)
        /\ l \in Seq(GoodBlock) /\ Len(l) = Len(chain) - g
        /\ \A i \in 1 .. Len(l) : l[i].id = chain[g + i].id
        /\ DataOf(l, 1, Len(l)) = Rest(AllData, n)
        /\ SpaceOf(l, 1, Len(l)) = AllSpace
    BY <1>1, <1>3, DrainPlaces DEF AllData, AllSpace
  <1>9. n <= Len(AllData)
    BY <1>1
  <1>10. z \in 0 .. Len(l) /\ Shaped(l, z)
    BY <1>1, <1>3, <1>9, DrainShape DEF AllData
  <1> HIDE DEF l, g
  <1>11. Rest(AllData, n) \in Seq(Places) /\ Len(Rest(AllData, n)) = dataSize - n
    <2>1. Rest(AllData, n) \in Seq(Places) /\ Len(Rest(AllData, n)) = Less(Len(AllData), n)
      BY <1>2, RestIs
    <2>2. Less(Len(AllData), n) = dataSize - n
      BY <1>1, <1>2, <1>9 DEF Less
    <2> QED
      BY <2>1, <2>2
  <1>12. /\ y \in Seq(GoodBlock) /\ Len(y) = Len(l)
         /\ \A i \in 1 .. Len(l) : y[i].id = l[i].id
         /\ DataOf(y, 1, Len(y)) = Rest(AllData, n)
         /\ Shaped(y, z)
         /\ reservation # None => SpaceOf(y, 1, Len(y)) = AllSpace
    <2>1. CASE dataSize - n = 0 /\ l # <<>> /\ reservation = None
      <3>1. Rest(AllData, n) = <<>>
        BY <1>11, <2>1, EmptySeq
      <3>2. z = 1
        BY <1>1, <1>2, <2>1
      <3>3. y = [l EXCEPT ![1].offset = 0]
        BY <1>7, <2>1 DEF ResetHead
      <3>4. DataOf(l, 1, Len(l)) = <<>> /\ Shaped(l, 1)
        BY <1>8, <1>10, <3>1, <3>2
      <3>5. /\ y \in Seq(GoodBlock) /\ Len(y) = Len(l)
            /\ \A i \in 1 .. Len(l) : y[i].id = l[i].id
            /\ DataOf(y, 1, Len(y)) = <<>> /\ Shaped(y, 1)
        BY <1>8, <2>1, <3>3, <3>4, ResetShape
      <3> HIDE DEF z
      <3> QED
        BY <2>1, <3>1, <3>2, <3>5
    <2>2. CASE ~(dataSize - n = 0 /\ l # <<>> /\ reservation = None)
      <3>1. y = l
        BY <1>7, <2>2 DEF ResetHead
      <3> QED
        BY <1>8, <1>10, <3>1
    <2> QED
      BY <2>1, <2>2
  <1>13. r \in Seq(BlockIds) /\ IsInjective(Ids(y) \o r)
    <2>1. Len(y) = Len(chain) - g /\ \A i \in 1 .. Len(y) : y[i].id = chain[g + i].id
      BY <1>8, <1>12
    <2> QED
      BY <1>1, <1>8, <1>12, <2>1, BlocksReturned
  <1> HIDE DEF z, r
  <1>14. ListOK(y, end', dataSize', free')
    <2>1. end' \in 0 .. Len(y) /\ Shaped(y, end') /\ dataSize' = Len(DataOf(y, 1, Len(y)))
      BY <1>7, <1>10, <1>11, <1>12
    <2> QED
      BY <1>7, <1>12, <1>13, <2>1 DEF ListOK
  <1>15. AllData' = DataOf(y, 1, Len(y)) /\ AllSpace' = SpaceOf(y, 1, Len(y))
    BY DEF AllData, AllSpace, y
  <1> QED
    BY <1>12, <1>14, <1>15 DEF y

----------------------------------------------------------------------------
(* The steps of the buffer and of the queue it implements                   *)

\* The queue of the refinement is the bytes at the places of the data.
LEMMA QueueIs ==
  Bytes(AllData) = BytesIn(mem, AllData) /\ Bytes(AllData)' = BytesIn(mem', AllData')
  BY DEF Bytes, BytesIn

\* A step of the queue, or none.
QueueStep == Abstract!Put \/ Abstract!Take \/ UNCHANGED <<Bytes(AllData), out, written>>

\* Bytes in places that are appended to the data are put into the queue.
LEMMA AppendIsPut ==
  ASSUME AllData \in Seq(Places), mem \in MemType, mem' \in MemType, written \in Nat, NEW n \in Nat,
         NEW q \in Seq(Places), AllData' = AllData \o q, BytesIn(mem', AllData) = BytesIn(mem, AllData),
         BytesIn(mem', q) = [k \in 1 .. n |-> written + k],
         written' = written + n, out' = out
  PROVE  QueueStep
  <1> DEFINE x == BytesIn(mem, AllData)
             s == [k \in 1 .. n |-> written + k]
  <1>1. Bytes(AllData) = x /\ Bytes(AllData)' = x \o s
    <2>1. BytesIn(mem', AllData \o q) = BytesIn(mem', AllData) \o BytesIn(mem', q)
      BY BytesOfConcat
    <2> QED
      BY <2>1, QueueIs
  <1>2. CASE n = 0
    <2>1. x \in Seq(0 .. MaxBytes)
      BY BytesAre
    <2>2. s = <<>>
      BY <1>2
    <2> HIDE DEF x, s
    <2>3. x \o s = x
      BY <2>1, <2>2, ConcatEmptySeq
    <2>4. written' = written
      BY <1>2
    <2> QED
      BY <1>1, <2>3, <2>4 DEF QueueStep
  <1>3. CASE n # 0
    <2>1. written' > written /\ written' - written = n
      BY <1>3
    <2>2. s = [k \in 1 .. written' - written |-> written + k]
      BY <2>1
    <2> HIDE DEF x, s
    <2>3. Abstract!Put
      BY <1>1, <2>1, <2>2 DEF Abstract!Put
    <2> QED
      BY <2>3 DEF QueueStep
  <1> QED
    BY <1>2, <1>3

\* What the parts of the invariant say of the types.
LEMMA InvFacts ==
  ASSUME Inv
  PROVE  /\ ListOK(chain, end, dataSize, free)
         /\ chain \in Seq(GoodBlock) /\ free \in Seq(BlockIds)
         /\ end \in 0 .. Len(chain) /\ Shaped(chain, end) /\ BlocksAreOwnedOnce
         /\ dataSize = Len(AllData) /\ dataSize \in Nat
         /\ AllData \in Seq(Places) /\ AllSpace \in Seq(Places) /\ OwnBlocks(chain)
         /\ mem \in MemType /\ written \in Nat /\ written \in 0 .. MaxBytes
         /\ out \in Seq(0 .. MaxBytes)
         /\ BytesIn(mem, AllData) \in Seq(0 .. MaxBytes) /\ Len(BytesIn(mem, AllData)) = dataSize
         /\ reservation = None => arrived = None
         /\ peeked = None => sent = None
  <1>1. ListOK(chain, end, dataSize, free)
    BY DEF Inv
  <1>2. /\ chain \in Seq(GoodBlock) /\ free \in Seq(BlockIds)
        /\ end \in 0 .. Len(chain) /\ Shaped(chain, end) /\ BlocksAreOwnedOnce
        /\ dataSize = Len(AllData)
    BY <1>1 DEF ListOK, BlocksAreOwnedOnce, Ids, AllData
  <1>3. AllData \in Seq(Places) /\ AllSpace \in Seq(Places) /\ dataSize \in Nat /\ OwnBlocks(chain)
    BY <1>1, ListFacts DEF AllData, AllSpace
  <1>4. mem \in MemType /\ written \in 0 .. MaxBytes /\ (reservation = None => arrived = None)
    BY DEF Inv, ReadOK
  <1>5. out \in Seq(0 .. MaxBytes) /\ (peeked = None => sent = None)
    BY DEF Inv, WriteOK
  <1>6. BytesIn(mem, AllData) \in Seq(0 .. MaxBytes) /\ Len(BytesIn(mem, AllData)) = dataSize
    BY <1>2, <1>3, <1>4, BytesAre
  <1>7. written \in Nat
    BY <1>4
  <1> QED
    BY <1>1, <1>2, <1>3, <1>4, <1>5, <1>6, <1>7

\* Consumed bytes are taken from the front of the queue.
LEMMA DrainedIsTake ==
  ASSUME Inv, NEW n \in Nat, n <= dataSize, Drained(n),
         UNCHANGED <<mem, reservation, arrived, written>>,
         out' = SubSeq(BytesIn(mem, AllData), 1, n), peeked' = None, sent' = None
  PROVE  Inv' /\ QueueStep
  <1> DEFINE x == BytesIn(mem, AllData)
  <1>1. /\ ListOK(chain, end, dataSize, free) /\ dataSize = Len(AllData) /\ dataSize \in Nat
        /\ AllData \in Seq(Places) /\ mem \in MemType
        /\ x \in Seq(0 .. MaxBytes) /\ Len(x) = dataSize
    BY InvFacts
  <1>2. /\ ListOK(chain', end', dataSize', free')
        /\ AllData' = Rest(AllData, n)
        /\ reservation # None => AllSpace' = AllSpace
    BY <1>1, DrainList
  <1>3. Rest(AllData, n) = SubSeq(AllData, n + 1, Len(AllData))
    BY <1>1 DEF Rest
  <1>4. BytesIn(mem, SubSeq(AllData, n + 1, Len(AllData))) = SubSeq(x, n + 1, Len(AllData))
    <2>1. n + 1 \in Nat \ {0} /\ Len(AllData) \in 0 .. Len(AllData)
      BY <1>1
    <2> QED
      BY <1>1, <2>1, BytesOfPart
  <1>5. Bytes(AllData) = x /\ Bytes(AllData)' = SubSeq(x, n + 1, Len(x))
    <2>1. BytesIn(mem', AllData') = SubSeq(x, n + 1, Len(x))
      BY <1>1, <1>2, <1>3, <1>4
    <2> QED
      BY <2>1, QueueIs
  <1>6. out' \in Seq(0 .. MaxBytes)
    <2> HIDE DEF x
    <2>1. n <= Len(x) /\ IsPrefix(x, x)
      BY <1>1, PrefixSelf
    <2>2. SubSeq(x, 1, n) \in Seq(0 .. MaxBytes)
      BY <1>1, <2>1, PrefixFirsts
    <2> QED
      BY <2>2 DEF x
  <1>7. ReadOK(AllSpace', mem', reservation', arrived', written')
    <2>1. ReadOK(AllSpace, mem, reservation, arrived, written)
      BY DEF Inv
    <2>2. CASE reservation # None
      BY <1>2, <2>1, <2>2
    <2>3. CASE reservation = None
      <3>1. arrived = None /\ mem \in MemType /\ written \in 0 .. MaxBytes
        BY <2>3, InvFacts
      <3>2. ReadOK(AllSpace', mem, None, None, written)
        BY <3>1, NoRead
      <3> QED
        BY <2>3, <3>1, <3>2
    <2> QED
      BY <2>2, <2>3
  <1>8. WriteOK(AllData', mem', peeked', sent', out')
    BY <1>6, NoWrite
  <1>9. Inv'
    BY <1>2, <1>7, <1>8 DEF Inv
  <1>10. Abstract!Take
    <2>1. n \in 0 .. Len(x)
      BY <1>1
    <2>2. out' = SubSeq(x, 1, n) /\ written' = written
      OBVIOUS
    <2> HIDE DEF x
    <2> QED
      BY <1>5, <2>1, <2>2 DEF Abstract!Take
  <1> QED
    BY <1>9, <1>10 DEF QueueStep

\* Reserve and CopyIn need as much space as the list then has.
LEMMA ReserveFacts ==
  ASSUME Inv, NEW size \in Nat \ {0}, Missing(size) <= MaxBlocks - Len(chain)
  PROVE  LET x == Extended(size)
             z == Max({end, 1})
             p == Stepped(size)
         IN /\ ListOK(x, z, dataSize, SubSeq(free, Missing(size) + 1, Len(free)))
            /\ FirstOf(x, z) = FirstSpace
            /\ DataOf(x, 1, Len(x)) = AllData
            /\ SpaceOf(x, 1, Len(x)) \in Seq(Places)
            /\ size <= SpaceIn(x, 1, Len(x))
            /\ p \in Seq(Places) /\ size <= Len(p) /\ IsPrefix(p, SpaceOf(x, 1, Len(x)))
  <1> DEFINE x == Extended(size)
             z == Max({end, 1})
             p == Stepped(size)
             f == SubSeq(free, Missing(size) + 1, Len(free))
  <1>1. /\ chain \in Seq(GoodBlock) /\ free \in Seq(BlockIds) /\ BlocksAreOwnedOnce
        /\ end \in 0 .. Len(chain) /\ Shaped(chain, end) /\ dataSize = Len(AllData)
    BY InvFacts
  <1>2. /\ x \in Seq(GoodBlock) /\ z \in 1 .. Len(x) /\ Shaped(x, z)
        /\ FirstOf(x, z) = FirstSpace
        /\ DataOf(x, 1, Len(x)) = AllData
        /\ size <= SpaceIn(x, 1, Len(x))
        /\ p \in Seq(Places) /\ size <= Len(p)
        /\ IsPrefix(p, SpaceOf(x, 1, Len(x)))
        /\ f \in Seq(BlockIds) /\ IsInjective(Ids(x) \o f)
    BY <1>1, ReserveSpace
  <1> HIDE DEF x, z, p, f
  <1>3. z \in 0 .. Len(x)
    BY <1>2
  <1>4. ListOK(x, z, dataSize, f)
    BY <1>1, <1>2, <1>3 DEF ListOK
  <1>5. SpaceOf(x, 1, Len(x)) \in Seq(Places)
    BY <1>4, ListFacts
  <1> QED
    BY <1>2, <1>4, <1>5 DEF x, z, p, f

\* Reserve keeps the invariant and is a step of the queue.
LEMMA ReserveStep ==
  ASSUME Inv, NEW size \in Nat \ {0}, NEW exact \in BOOLEAN, Reserve(size, exact)
  PROVE  Inv' /\ QueueStep
  <1> DEFINE x == Extended(size)
             p == Stepped(size)
             s == SpaceOf(x, 1, Len(x))
             r == IF exact THEN SubSeq(p, 1, size) ELSE p
  <1>1. /\ reservation = None
        /\ Missing(size) <= MaxBlocks - Len(chain)
        /\ reservation' = r
        /\ chain' = x
        /\ free' = SubSeq(free, Missing(size) + 1, Len(free))
        /\ end' = Max({end, 1})
        /\ UNCHANGED <<dataSize, mem, arrived, peeked, sent, out, written>>
    BY DEF Reserve
  <1>2. /\ ListOK(x, end', dataSize, free')
        /\ DataOf(x, 1, Len(x)) = AllData
        /\ s \in Seq(Places) /\ p \in Seq(Places) /\ size <= Len(p) /\ IsPrefix(p, s)
    BY <1>1, ReserveFacts
  <1>3. arrived = None /\ mem \in MemType /\ written \in 0 .. MaxBytes
    BY <1>1, InvFacts
  <1>4. AllData' = AllData /\ AllSpace' = s
    BY <1>1, <1>2 DEF AllData, AllSpace
  <1> HIDE DEF x, p, s
  <1>5. r \in Seq(Places) /\ r # <<>> /\ IsPrefix(r, s)
    <2>1. p # <<>>
      BY <1>2
    <2>2. /\ SubSeq(p, 1, size) \in Seq(Places) /\ Len(SubSeq(p, 1, size)) = size
          /\ IsPrefix(SubSeq(p, 1, size), s)
      BY <1>2, PrefixFirsts
    <2>3. SubSeq(p, 1, size) # <<>>
      BY <2>2
    <2> QED
      BY <1>2, <2>1, <2>2, <2>3
  <1> HIDE DEF r
  <1>6. ReadOK(s, mem, r, None, written)
    BY <1>3, <1>5 DEF ReadOK
  <1>7. Inv'
    <2>1. ListOK(chain', end', dataSize', free')
      BY <1>1, <1>2
    <2>2. ReadOK(AllSpace', mem', reservation', arrived', written')
      BY <1>1, <1>3, <1>4, <1>6
    <2>3. WriteOK(AllData', mem', peeked', sent', out')
      BY <1>1, <1>4 DEF Inv
    <2> QED
      BY <2>1, <2>2, <2>3 DEF Inv
  <1>8. Bytes(AllData)' = Bytes(AllData)
    BY <1>1, <1>4, QueueIs
  <1> QED
    BY <1>1, <1>7, <1>8 DEF QueueStep

\* So does a read that completes,
LEMMA ArriveStep ==
  ASSUME Inv, NEW n \in Nat, Arrive(n)
  PROVE  Inv' /\ QueueStep
  <1>1. /\ reservation # None
        /\ n <= Len(reservation)
        /\ written + n <= MaxBytes
        /\ mem' = Stored(reservation, n)
        /\ arrived' = n
        /\ UNCHANGED <<chain, end, dataSize, free, reservation, peeked, sent, out, written>>
    BY DEF Arrive, blocks
  <1>2. /\ chain \in Seq(GoodBlock) /\ OwnBlocks(chain) /\ mem \in MemType /\ AllData \in Seq(Places)
        /\ written \in Nat /\ written \in 0 .. MaxBytes
    BY InvFacts
  <1>3. reservation \in Seq(Places) /\ reservation # <<>> /\ IsPrefix(reservation, AllSpace)
    BY <1>1 DEF Inv, ReadOK
  <1>4. /\ mem' \in MemType
        /\ BytesIn(mem', SubSeq(reservation, 1, n)) = [k \in 1 .. n |-> written + k]
        /\ BytesIn(mem', AllData) = BytesIn(mem, AllData)
    BY <1>1, <1>2, <1>3, StoreInSpace DEF AllData, AllSpace
  <1>5. AllData' = AllData /\ AllSpace' = AllSpace
    BY <1>1 DEF AllData, AllSpace
  <1>6. ListOK(chain', end', dataSize', free')
    BY <1>1 DEF Inv
  <1>7. ReadOK(AllSpace', mem', reservation', arrived', written')
    <2>1. ReadOK(AllSpace, mem', reservation, n, written)
      BY <1>1, <1>2, <1>3, <1>4 DEF ReadOK
    <2> QED
      BY <1>1, <1>5, <2>1
  <1>8. WriteOK(AllData', mem', peeked', sent', out')
    <2>1. WriteOK(AllData, mem, peeked, sent, out)
      BY DEF Inv
    <2>2. WriteOK(AllData, mem', peeked, sent, out)
      BY <1>4, <2>1 DEF WriteOK
    <2> QED
      BY <1>1, <1>5, <2>2
  <1>9. Bytes(AllData)' = Bytes(AllData)
    BY <1>4, <1>5, QueueIs
  <1> QED
    BY <1>1, <1>6, <1>7, <1>8, <1>9 DEF Inv, QueueStep

\* Commit,
LEMMA CommitStep ==
  ASSUME Inv, Commit
  PROVE  Inv' /\ QueueStep
  <1> DEFINE n == arrived
             F == FirstSpace
             d == Committed(chain, F, n)
             z == CommitEnd(chain, F, n)
             q == SubSeq(reservation, 1, n)
  <1>1. /\ n # None
        /\ chain' = d /\ end' = z
        /\ dataSize' = dataSize + n /\ written' = written + n
        /\ reservation' = None /\ arrived' = None
        /\ UNCHANGED <<free, mem, peeked, sent, out>>
    BY DEF Commit
  <1>2. /\ ListOK(chain, end, dataSize, free)
        /\ AllData \in Seq(Places) /\ AllSpace \in Seq(Places) /\ mem \in MemType
        /\ written \in Nat
    BY InvFacts
  <1>3. /\ n \in Nat /\ reservation # None /\ n <= Len(reservation) /\ written + n <= MaxBytes
        /\ BytesIn(mem, q) = [k \in 1 .. n |-> written + k]
    BY <1>1 DEF Inv, ReadOK
  <1>4. reservation \in Seq(Places) /\ IsPrefix(reservation, AllSpace)
    BY <1>3 DEF Inv, ReadOK
  <1>5. q \in Seq(Places) /\ Firsts(AllSpace, n) = q /\ n <= Len(AllSpace)
    BY <1>2, <1>3, <1>4, PrefixFirsts
  <1>6. F = FirstOf(chain, end) /\ n <= SpaceIn(chain, 1, Len(chain))
    BY <1>5 DEF FirstSpace, FirstOf, AllSpace, SpaceIn
  <1>7. z = IF n = 0 THEN end ELSE Min({i \in F .. Len(chain) : SpaceIn(chain, F, i) >= n})
    BY DEF CommitEnd
  <1> HIDE DEF F, z, n, q
  <1>8. /\ ListOK(d, z, dataSize + n, free)
        /\ DataOf(d, 1, Len(d)) = DataOf(chain, 1, Len(chain)) \o Firsts(SpaceOf(chain, 1, Len(chain)), n)
    BY <1>2, <1>3, <1>6, <1>7, FillList
  <1> HIDE DEF d
  <1>9. AllData' = AllData \o q
    BY <1>1, <1>5, <1>8 DEF AllData, AllSpace
  <1>10. ListOK(chain', end', dataSize', free')
    BY <1>1, <1>8
  <1>11. ReadOK(AllSpace', mem', reservation', arrived', written')
    <2>1. written + n \in 0 .. MaxBytes
      BY <1>2, <1>3
    <2>2. ReadOK(AllSpace', mem, None, None, written + n)
      BY <1>2, <2>1, NoRead
    <2> QED
      BY <1>1, <2>2
  <1>12. WriteOK(AllData', mem', peeked', sent', out')
    <2>1. WriteOK(AllData, mem, peeked, sent, out)
      BY DEF Inv
    <2>2. WriteOK(AllData \o q, mem, peeked, sent, out)
      BY <1>2, <1>5, <2>1, WriteStays
    <2> QED
      BY <1>1, <1>9, <2>2
  <1>13. QueueStep
    <2>1. /\ mem' \in MemType /\ BytesIn(mem', AllData) = BytesIn(mem, AllData)
          /\ BytesIn(mem', q) = [k \in 1 .. n |-> written + k] /\ out' = out
      BY <1>1, <1>2, <1>3 DEF q, n
    <2> QED
      BY <1>1, <1>2, <1>3, <1>5, <1>9, <2>1, AppendIsPut
  <1> QED
    BY <1>10, <1>11, <1>12, <1>13 DEF Inv

\* CopyIn,
LEMMA CopyInStep ==
  ASSUME Inv, NEW size \in Nat \ {0}, CopyIn(size)
  PROVE  Inv' /\ QueueStep
  <1> DEFINE x == Extended(size)
             e == Max({end, 1})
             f == SubSeq(free, Missing(size) + 1, Len(free))
             p == Stepped(size)
             s == SpaceOf(x, 1, Len(x))
             F == FirstSpace
             d == Committed(x, F, size)
             z == CommitEnd(x, F, size)
             q == SubSeq(p, 1, size)
  <1>1. /\ reservation = None
        /\ written + size <= MaxBytes
        /\ Missing(size) <= MaxBlocks - Len(chain)
        /\ mem' = Stored(p, size)
        /\ chain' = d /\ end' = z /\ free' = f
        /\ dataSize' = dataSize + size /\ written' = written + size
        /\ UNCHANGED <<reservation, arrived, peeked, sent, out>>
    BY DEF CopyIn
  <1>2. /\ ListOK(x, e, dataSize, f)
        /\ FirstOf(x, e) = F
        /\ DataOf(x, 1, Len(x)) = AllData
        /\ s \in Seq(Places) /\ size <= SpaceIn(x, 1, Len(x))
        /\ p \in Seq(Places) /\ size <= Len(p) /\ IsPrefix(p, s)
    BY <1>1, ReserveFacts
  <1>3. arrived = None /\ mem \in MemType /\ written \in Nat /\ AllData \in Seq(Places)
    BY <1>1, InvFacts
  <1>4. z = IF size = 0 THEN e ELSE Min({i \in F .. Len(x) : SpaceIn(x, F, i) >= size})
    BY DEF CommitEnd
  <1> HIDE DEF x, e, f, p, F, z
  <1>5. x \in Seq(GoodBlock) /\ OwnBlocks(x)
    BY <1>2, ListFacts DEF ListOK
  <1>6. /\ mem' \in MemType
        /\ BytesIn(mem', q) = [k \in 1 .. size |-> written + k]
        /\ BytesIn(mem', AllData) = BytesIn(mem, AllData)
    BY <1>1, <1>2, <1>3, <1>5, StoreInSpace
  <1>7. q \in Seq(Places) /\ Firsts(s, size) = q
    <2> HIDE DEF s
    <2> QED
      BY <1>2, PrefixFirsts
  <1>8. /\ ListOK(d, z, dataSize + size, f)
        /\ DataOf(d, 1, Len(d)) = DataOf(x, 1, Len(x)) \o Firsts(s, size)
    BY <1>2, <1>4, FillList
  <1> HIDE DEF d, s, q
  <1>9. AllData' = AllData \o q
    BY <1>1, <1>2, <1>7, <1>8 DEF AllData
  <1>10. ListOK(chain', end', dataSize', free')
    BY <1>1, <1>8
  <1>11. ReadOK(AllSpace', mem', reservation', arrived', written')
    <2>1. written + size \in 0 .. MaxBytes
      BY <1>1, <1>3, BufferAssumption
    <2>2. ReadOK(AllSpace', mem', None, None, written + size)
      BY <1>6, <2>1, NoRead
    <2> QED
      BY <1>1, <1>3, <2>2
  <1>12. WriteOK(AllData', mem', peeked', sent', out')
    <2>1. WriteOK(AllData, mem, peeked, sent, out)
      BY DEF Inv
    <2>2. WriteOK(AllData \o q, mem', peeked, sent, out)
      BY <1>3, <1>6, <1>7, <2>1, WriteStays
    <2> QED
      BY <1>1, <1>9, <2>2
  <1>13. QueueStep
    <2>1. size \in Nat /\ out' = out /\ written' = written + size
      BY <1>1
    <2> QED
      BY <1>3, <1>6, <1>7, <1>9, <2>1, AppendIsPut
  <1> QED
    BY <1>10, <1>11, <1>12, <1>13 DEF Inv

\* Peek,
LEMMA PeekStep ==
  ASSUME Inv, Peek
  PROVE  Inv' /\ QueueStep
  <1>1. /\ peeked = None /\ peeked' = PeekPlaces
        /\ UNCHANGED <<chain, end, dataSize, free, mem, reservation, arrived, sent, out, written>>
    BY DEF Peek, blocks
  <1>2. /\ chain \in Seq(GoodBlock) /\ end \in 0 .. Len(chain) /\ Shaped(chain, end)
        /\ AllData \in Seq(Places) /\ out \in Seq(0 .. MaxBytes) /\ sent = None
    BY <1>1, InvFacts
  <1>3. PeekPlaces = AllData
    BY <1>2, PeekAll
  <1>4. AllData' = AllData /\ AllSpace' = AllSpace
    BY <1>1 DEF AllData, AllSpace
  <1>5. WriteOK(AllData, mem, AllData, None, out)
    BY <1>2, PrefixSelf DEF WriteOK
  <1>6. WriteOK(AllData', mem', peeked', sent', out')
    BY <1>1, <1>2, <1>3, <1>4, <1>5
  <1>7. ListOK(chain', end', dataSize', free') /\ ReadOK(AllSpace', mem', reservation', arrived', written')
    BY <1>1, <1>4 DEF Inv
  <1>8. Bytes(AllData)' = Bytes(AllData)
    BY <1>1, <1>4, QueueIs
  <1> QED
    BY <1>1, <1>6, <1>7, <1>8 DEF Inv, QueueStep

\* a write that completes,
LEMMA SendStep ==
  ASSUME Inv, NEW n \in Nat, Send(n)
  PROVE  Inv' /\ QueueStep
  <1> DEFINE x == BytesIn(mem, AllData)
  <1>1. /\ peeked # None /\ n <= Len(peeked)
        /\ sent' = Bytes(SubSeq(peeked, 1, n))
        /\ UNCHANGED <<chain, end, dataSize, free, mem, reservation, arrived, peeked, out, written>>
    BY DEF Send, blocks
  <1>2. /\ AllData \in Seq(Places) /\ mem \in MemType /\ out \in Seq(0 .. MaxBytes)
        /\ x \in Seq(0 .. MaxBytes) /\ Len(x) = Len(AllData)
    BY InvFacts
  <1>3. peeked \in Seq(Places) /\ IsPrefix(peeked, AllData)
    BY <1>1 DEF Inv, WriteOK
  <1>4. SubSeq(peeked, 1, n) = SubSeq(AllData, 1, n) /\ n <= Len(AllData)
    BY <1>1, <1>2, <1>3, PrefixFirsts
  <1>5. sent' = SubSeq(x, 1, n)
    <2>1. 1 \in Nat \ {0} /\ n \in 0 .. Len(AllData)
      BY <1>2, <1>4
    <2>2. BytesIn(mem, SubSeq(AllData, 1, n)) = SubSeq(x, 1, n)
      BY <1>2, <2>1, BytesOfPart
    <2> QED
      BY <1>1, <1>4, <2>2 DEF Bytes, BytesIn
  <1>6. sent' \in Seq(0 .. MaxBytes) /\ Len(sent') = n
    <2>1. x \in Seq(0 .. MaxBytes) /\ n <= Len(x) /\ IsPrefix(x, x)
      BY <1>2, <1>4, PrefixSelf
    <2> HIDE DEF x
    <2>2. SubSeq(x, 1, n) \in Seq(0 .. MaxBytes)
      BY <2>1, PrefixFirsts
    <2>3. Len(SubSeq(x, 1, n)) = n
      BY <2>1
    <2> QED
      BY <1>5, <2>2, <2>3
  <1>7. AllData' = AllData /\ AllSpace' = AllSpace
    BY <1>1 DEF AllData, AllSpace
  <1>8. WriteOK(AllData', mem', peeked', sent', out')
    <2>1. /\ sent' \in Seq(0 .. MaxBytes) /\ Len(sent') <= Len(peeked)
          /\ sent' = SubSeq(BytesIn(mem, AllData), 1, Len(sent'))
      BY <1>1, <1>5, <1>6
    <2>2. WriteOK(AllData, mem, peeked, sent', out)
      BY <1>1, <1>2, <1>3, <2>1 DEF WriteOK
    <2> QED
      BY <1>1, <1>7, <2>2
  <1>9. ListOK(chain', end', dataSize', free') /\ ReadOK(AllSpace', mem', reservation', arrived', written')
    BY <1>1, <1>7 DEF Inv
  <1>10. Bytes(AllData)' = Bytes(AllData)
    BY <1>1, <1>7, QueueIs
  <1> QED
    BY <1>1, <1>8, <1>9, <1>10 DEF Inv, QueueStep

\* Drain,
LEMMA DrainStep ==
  ASSUME Inv, Drain
  PROVE  Inv' /\ QueueStep
  <1> DEFINE n == Len(sent)
  <1>1. /\ sent # None /\ Drained(n) /\ out' = sent /\ peeked' = None /\ sent' = None
        /\ UNCHANGED <<mem, reservation, arrived, written>>
    BY DEF Drain
  <1>2. /\ peeked # None /\ sent \in Seq(0 .. MaxBytes) /\ n <= Len(peeked)
        /\ sent = SubSeq(BytesIn(mem, AllData), 1, n)
    BY <1>1 DEF Inv, WriteOK
  <1>3. peeked \in Seq(Places) /\ IsPrefix(peeked, AllData)
    BY <1>2 DEF Inv, WriteOK
  <1>4. AllData \in Seq(Places) /\ dataSize = Len(AllData)
    BY InvFacts
  <1>5. Len(peeked) <= Len(AllData)
    BY <1>3, <1>4, PrefixIs
  <1>6. n \in Nat /\ n <= dataSize
    BY <1>2, <1>3, <1>4, <1>5
  <1> HIDE DEF n
  <1> QED
    BY <1>1, <1>2, <1>6, DrainedIsTake

\* and CopyOut.
LEMMA CopyOutStep ==
  ASSUME Inv, NEW size \in Nat, CopyOut(size)
  PROVE  Inv' /\ QueueStep
  <1> DEFINE n == Min({size, Len(PeekPlaces)})
  <1>1. /\ peeked = None /\ Drained(n) /\ out' = Bytes(SubSeq(PeekPlaces, 1, n))
        /\ UNCHANGED <<mem, reservation, arrived, peeked, sent, written>>
    BY DEF CopyOut
  <1>2. /\ chain \in Seq(GoodBlock) /\ end \in 0 .. Len(chain) /\ Shaped(chain, end)
        /\ AllData \in Seq(Places) /\ dataSize = Len(AllData) /\ dataSize \in Nat /\ mem \in MemType
        /\ sent = None
    BY <1>1, InvFacts
  <1>3. PeekPlaces = AllData
    BY <1>2, PeekAll
  <1>4. n = IF size <= dataSize THEN size ELSE dataSize
    BY <1>2, <1>3, MinOfTwo
  <1> HIDE DEF n
  <1>5. n \in Nat /\ n <= dataSize
    BY <1>2, <1>4
  <1>6. out' = SubSeq(BytesIn(mem, AllData), 1, n)
    <2>1. 1 \in Nat \ {0} /\ n \in 0 .. Len(AllData)
      BY <1>2, <1>5
    <2>2. BytesIn(mem, SubSeq(AllData, 1, n)) = SubSeq(BytesIn(mem, AllData), 1, n)
      BY <1>2, <2>1, BytesOfPart
    <2> QED
      BY <1>1, <1>3, <2>2 DEF Bytes, BytesIn
  <1>7. peeked' = None /\ sent' = None
    BY <1>1, <1>2
  <1> QED
    BY <1>1, <1>5, <1>6, <1>7, DrainedIsTake

----------------------------------------------------------------------------
(* The theorems                                                             *)

\* Initially the list is empty and nothing is under way.
LEMMA InvInit ==
  ASSUME Init
  PROVE  Inv /\ Bytes(AllData) = <<>>
  <1>1. /\ chain = <<>> /\ end = 0 /\ dataSize = 0 /\ free = <<>> /\ written = 0 /\ out = <<>>
        /\ mem = [b \in BlockIds |-> [i \in 1 .. Capacity |-> 0]]
        /\ reservation = None /\ arrived = None /\ peeked = None /\ sent = None
    BY DEF Init
  <1>2. MaxBytes \in Nat
    BY BufferAssumption
  <1>3. mem \in MemType
    BY <1>1, <1>2 DEF MemType
  <1>4. <<>> \in Seq(GoodBlock) /\ <<>> \in Seq(BlockIds) /\ Len(<<>>) = 0 /\ <<>> \in Seq(Places)
        /\ <<>> \in Seq(0 .. MaxBytes)
    OBVIOUS
  <1>5. DataOf(<<>>, 1, 0) = <<>>
    <2> DEFINE c == <<>>
    <2>1. c \in Seq(GoodBlock) /\ 0 \in 0 .. Len(c) /\ 1 \in Nat \ {0} /\ \A k \in 1 .. 0 : c[k].len = 0
      BY <1>4
    <2> HIDE DEF c
    <2>2. DataOf(c, 1, 0) = <<>>
      BY <2>1, NoData
    <2> QED
      BY <2>2 DEF c
  <1>6. AllData = <<>>
    BY <1>1, <1>4, <1>5 DEF AllData
  <1>7. ListOK(chain, end, dataSize, free)
    <2>1. Shaped(chain, end)
      BY <1>1 DEF Shaped
    <2>2. IsInjective(Ids(chain) \o free)
      <3>1. Ids(<<>>) = <<>>
        BY DEF Ids
      <3>2. Ids(chain) \o free = <<>>
        BY <1>1, <3>1
      <3> QED
        BY <3>2 DEF IsInjective
    <2>3. dataSize = Len(DataOf(chain, 1, Len(chain)))
      BY <1>1, <1>6 DEF AllData
    <2>4. chain \in Seq(GoodBlock) /\ free \in Seq(BlockIds) /\ end \in 0 .. Len(chain)
      BY <1>1, <1>4
    <2> QED
      BY <2>1, <2>2, <2>3, <2>4 DEF ListOK
  <1>8. ReadOK(AllSpace, mem, reservation, arrived, written)
    <2>1. written \in 0 .. MaxBytes
      BY <1>1, <1>2
    <2> QED
      BY <1>1, <1>3, <2>1, NoRead
  <1>9. WriteOK(AllData, mem, peeked, sent, out)
    BY <1>1, <1>4, NoWrite
  <1>10. Bytes(AllData) = <<>>
    BY <1>6 DEF Bytes
  <1> QED
    BY <1>7, <1>8, <1>9, <1>10 DEF Inv

\* Every step keeps the invariant and is a step of the queue or none.
LEMMA InvStep ==
  ASSUME Inv, [Next]_vars
  PROVE  Inv' /\ QueueStep
  <1>1. ASSUME NEW size \in 1 .. MaxReserve, NEW exact \in BOOLEAN, Reserve(size, exact)
        PROVE  Inv' /\ QueueStep
    <2>1. size \in Nat \ {0}
      BY BufferAssumption
    <2> QED
      BY <1>1, <2>1, ReserveStep
  <1>2. ASSUME NEW size \in 1 .. MaxReserve, CopyIn(size) PROVE Inv' /\ QueueStep
    <2>1. size \in Nat \ {0}
      BY BufferAssumption
    <2> QED
      BY <1>2, <2>1, CopyInStep
  <1>3. ASSUME NEW size \in 1 .. MaxReserve, CopyOut(size) PROVE Inv' /\ QueueStep
    <2>1. size \in Nat
      BY BufferAssumption
    <2> QED
      BY <1>3, <2>1, CopyOutStep
  <1>4. ASSUME NEW n \in 0 .. MaxBytes, Arrive(n) \/ Send(n) PROVE Inv' /\ QueueStep
    <2>1. n \in Nat
      BY BufferAssumption
    <2> QED
      BY <1>4, <2>1, ArriveStep, SendStep
  <1>5. CASE Commit
    BY <1>5, CommitStep
  <1>6. CASE Peek
    BY <1>6, PeekStep
  <1>7. CASE Drain
    BY <1>7, DrainStep
  <1>8. CASE UNCHANGED vars
    <2>1. UNCHANGED <<chain, end, dataSize, free, mem, reservation, arrived, peeked, sent, out, written>>
      BY <1>8 DEF vars, blocks
    <2>2. AllData' = AllData /\ AllSpace' = AllSpace
      BY <2>1 DEF AllData, AllSpace
    <2>3. Inv'
      BY <2>1, <2>2 DEF Inv
    <2>4. Bytes(AllData)' = Bytes(AllData)
      BY <2>1, <2>2, QueueIs
    <2> QED
      BY <2>1, <2>3, <2>4 DEF QueueStep
  <1> QED
    BY <1>1, <1>2, <1>3, <1>4, <1>5, <1>6, <1>7, <1>8 DEF Next

\* The inductive invariant holds in every state of a buffer.
LEMMA Invariance == Spec => []Inv
  <1>1. Init => Inv
    BY InvInit
  <1>2. Inv /\ [Next]_vars => Inv'
    BY InvStep
  <1> QED
    BY <1>1, <1>2, PTL DEF Spec

\* The list, its counters and the freelist stay in accord: every block is in one
\* of them and once, and data_size_ and the space that Commit asserts are what
\* the blocks hold.
THEOREM BufferStaysInAccord == Spec => []BufferInv
  <1>1. Inv => BufferInv
    <2> SUFFICES ASSUME Inv PROVE BufferInv
      OBVIOUS
    <2>1. /\ ListOK(chain, end, dataSize, free)
          /\ chain \in Seq(GoodBlock) /\ free \in Seq(BlockIds)
          /\ end \in 0 .. Len(chain) /\ Shaped(chain, end) /\ BlocksAreOwnedOnce
          /\ dataSize = Len(AllData) /\ dataSize \in Nat
          /\ mem \in MemType /\ written \in 0 .. MaxBytes /\ out \in Seq(0 .. MaxBytes)
      BY InvFacts
    <2>2. chain \in Seq(Block) /\ \A i \in DOMAIN chain : chain[i].offset + chain[i].len <= Capacity
      <3>1. DOMAIN chain = 1 .. Len(chain) /\ \A i \in 1 .. Len(chain) : chain[i] \in GoodBlock
        BY <2>1
      <3>2. GoodBlock \subseteq Block
        BY DEF GoodBlock
      <3>3. chain \in Seq(Block)
        BY <2>1, <3>2, SeqMonotonic
      <3> QED
        BY <3>1, <3>3 DEF GoodBlock
    <2>3. /\ reservation # None => reservation \in Seq(Places)
          /\ arrived \in Nat \cup {None}
      BY DEF Inv, ReadOK
    <2>4. /\ peeked # None => peeked \in Seq(Places)
          /\ sent # None => sent \in Seq(0 .. MaxBytes)
      BY DEF Inv, WriteOK
    <2>5. TypeOK
      BY <2>1, <2>2, <2>3, <2>4 DEF TypeOK, MemType
    <2>6. space_size = SpaceIn(chain, 1, Len(chain))
      <3>1. Len(chain) \in Nat /\ Len(chain) \in 0 .. Len(chain) /\ 1 \in Nat \ {0}
        BY <2>1, ListFacts
      <3>2. SpaceIn(chain, 1, Len(chain)) \in Nat
        BY <2>1, <3>1, OfTypes
      <3>3. CASE chain = <<>>
        <4>1. Len(chain) = 0 /\ \A k \in 1 .. Len(chain) : SpaceLen(chain[k]) = 0
          BY <3>3
        <4>2. SpaceOf(chain, 1, Len(chain)) = <<>>
          BY <2>1, <3>1, <4>1, NoSpace
        <4> QED
          BY <3>3, <4>2 DEF space_size, SpaceIn
      <3>4. CASE chain # <<>>
        <4>1. Len(chain) \in 1 .. Len(chain) /\ 1 \in 1 .. Len(chain)
          BY <2>1, <3>1, <3>4
        <4>2. Len(DataOf(chain, 1, Len(chain))) + SpaceIn(chain, 1, Len(chain)) + chain[1].offset
              = Len(chain) * Capacity
          BY <2>1, <4>1, SizesSum
        <4>3. chain[1].offset \in Nat
          BY <2>1, <4>1, BlockTypes
        <4>4. Len(chain) * Capacity \in Nat
          BY <3>1, BufferAssumption
        <4>5. dataSize + SpaceIn(chain, 1, Len(chain)) + chain[1].offset = Len(chain) * Capacity
          BY <2>1, <4>2 DEF AllData
        <4>6. space_size = Len(chain) * Capacity - dataSize - chain[1].offset
          BY <3>4 DEF space_size
        <4> DEFINE P == SpaceIn(chain, 1, Len(chain))
                   o == chain[1].offset
                   w == Len(chain) * Capacity
        <4> HIDE DEF P, o, w
        <4>7. dataSize + P + o = w /\ P \in Nat /\ o \in Nat /\ w \in Nat /\ space_size = w - dataSize - o
          BY <3>2, <4>3, <4>4, <4>5, <4>6 DEF P, o, w
        <4>8. space_size = P
          BY <2>1, <4>7
        <4> QED
          BY <4>8 DEF P
      <3> QED
        BY <3>3, <3>4
    <2> QED
      BY <2>1, <2>5, <2>6 DEF BufferInv, SizesAreExact
  <1> QED
    BY <1>1, Invariance, PTL

\* The places of a read and of a write that are under way stay the first of the
\* free space and the first of the data, whatever the other direction completes.
THEOREM PendingPlacesHold == Spec => []PendingPlacesStay
  <1>1. Inv => PendingPlacesStay
    <2> SUFFICES ASSUME Inv PROVE PendingPlacesStay
      OBVIOUS
    <2>1. /\ ListOK(chain, end, dataSize, free) /\ chain \in Seq(GoodBlock)
          /\ end \in 0 .. Len(chain) /\ Shaped(chain, end) /\ AllSpace \in Seq(Places)
      BY InvFacts
    <2>2. Len(chain) \in Nat /\ Len(chain) \in 0 .. Len(chain) /\ 1 \in Nat \ {0}
      BY <2>1, ListFacts
    <2>3. FirstSpace = FirstOf(chain, end)
      BY DEF FirstSpace, FirstOf
    <2>4. FirstSpace \in 1 .. Len(chain) + 1 /\ FullBefore(chain, FirstSpace)
      BY <2>1, <2>3, FirstOfShaped DEF FullBefore
    <2>5. ASSUME reservation # None
          PROVE  FirstSpace <= Len(chain) /\ IsPrefix(reservation, SpaceOf(chain, FirstSpace, Len(chain)))
      <3>1. reservation \in Seq(Places) /\ reservation # <<>> /\ IsPrefix(reservation, AllSpace)
        BY <2>5 DEF Inv, ReadOK
      <3>2. AllSpace # <<>>
        <4>1. Len(reservation) <= Len(AllSpace)
          BY <2>1, <3>1, PrefixIs
        <4>2. Len(reservation) > 0
          BY <3>1
        <4> QED
          BY <2>1, <3>1, <4>1, <4>2
      <3>3. FirstSpace <= Len(chain)
        <4> SUFFICES ASSUME ~(FirstSpace <= Len(chain)) PROVE FALSE
          OBVIOUS
        <4>1. \A k \in 1 .. Len(chain) : SpaceLen(chain[k]) = 0
          BY <2>2, <2>4 DEF FullBefore
        <4>2. AllSpace = <<>>
          BY <2>1, <2>2, <4>1, NoSpace DEF AllSpace
        <4> QED
          BY <3>2, <4>2
      <3>4. FirstSpace - 1 <= Len(chain)
        BY <2>2, <2>4
      <3>5. SpaceOf(chain, FirstSpace, Len(chain)) = AllSpace
        BY <2>1, <2>2, <2>4, <3>4, SpaceFrom DEF FullBefore, AllSpace
      <3> QED
        BY <3>1, <3>3, <3>5
    <2>6. peeked # None => IsPrefix(peeked, AllData)
      BY DEF Inv, WriteOK
    <2> QED
      BY <2>5, <2>6 DEF PendingPlacesStay
  <1> QED
    BY <1>1, Invariance, PTL

\* The buffer implements the queue of bytes: what is drained are the bytes that
\* were committed, in their order and each once.
THEOREM BufferIsQueue == Spec => RefinesByteQueue
  <1>1. Init => Abstract!Init
    <2> SUFFICES ASSUME Init PROVE Abstract!Init
      OBVIOUS
    <2>1. Bytes(AllData) = <<>>
      BY InvInit
    <2> QED
      BY <2>1 DEF Init, Abstract!Init
  <1>2. Inv /\ [Next]_vars => [Abstract!Next]_(Abstract!qvars)
    <2> SUFFICES ASSUME Inv, [Next]_vars PROVE [Abstract!Next]_(Abstract!qvars)
      OBVIOUS
    <2>1. QueueStep
      BY InvStep
    <2> QED
      BY <2>1 DEF QueueStep, Abstract!Next, Abstract!qvars
  <1> QED
    BY <1>1, <1>2, Invariance, PTL DEF Spec, RefinesByteQueue, Abstract!Spec

=============================================================================
