---------------------------- MODULE OperatorLemmas ----------------------------
(***************************************************************************)
(* Facts about the operators the models are built from, which the proofs   *)
(* about several of them share: numbers and recursive functions, the       *)
(* operators of Selection, sorting and merging chunks, the rules.          *)
(* Induction is stated about a set of numbers, so that it can be cited for *)
(* any property.                                                           *)
(***************************************************************************)
EXTENDS SessionRules, Reassembly, WellFoundedInduction, NaturalsInduction, SequenceTheorems, TLAPS

(* A set that holds 0 and the successor of each number it holds has all.   *)
LEMMA InductionOverNat ==
    ASSUME NEW S, 0 \in S, \A n \in Nat : n \in S => n + 1 \in S
    PROVE  Nat \subseteq S
<1> SUFFICES ASSUME Nat \ S # {} PROVE FALSE
  OBVIOUS
<1>1. PICK x \in Nat \ S : \A y \in Nat \ S : <<y, x>> \notin OpToRel(<, Nat)
  <2>1. IsWellFoundedOn(OpToRel(<, Nat), Nat)
    BY NatLessThanWellFounded
  <2> QED
    BY <2>1, WFMin
<1>2. x # 0 /\ x - 1 \in Nat /\ (x - 1) + 1 = x /\ x - 1 < x
  OBVIOUS
<1>3. <<x - 1, x>> \in OpToRel(<, Nat)
  BY <1>2 DEF OpToRel
<1>4. x - 1 \in S
  BY <1>1, <1>2, <1>3
<1> QED
  BY <1>1, <1>2, <1>4

(* f has the value base at 0, and at each later number the one step makes  *)
(* of the value before.                                                    *)
Unfolds(f, base, step, N) ==
    \A n \in 0..N : f[n] = IF n = 0 THEN base ELSE step[<<f[n - 1], n>>]

(* Such a function exists.                                                 *)
LEMMA RecursionOverInterval ==
    ASSUME NEW V, NEW base \in V, NEW N \in Nat, NEW step \in [V \X (1..N) -> V]
    PROVE  \E f \in [0..N -> V] : Unfolds(f, base, step, N)
<1> DEFINE Upto(f, m) == Unfolds(f, base, step, m)
           S == {m \in Nat : m <= N => \E f \in [0..m -> V] : Upto(f, m)}
<1>1. 0 \in S
  <2> DEFINE f == [n \in 0..0 |-> base]
  <2>1. f \in [0..0 -> V] /\ Upto(f, 0)
    BY DEF Unfolds
  <2> QED
    BY <2>1
<1>2. ASSUME NEW m \in Nat, m \in S PROVE m + 1 \in S
  <2> SUFFICES ASSUME m + 1 <= N
               PROVE  \E f \in [0..(m + 1) -> V] : Upto(f, m + 1)
    OBVIOUS
  <2>1. PICK f \in [0..m -> V] : Upto(f, m)
    BY <1>2
  <2> DEFINE g == [n \in 0..(m + 1) |-> IF n = m + 1 THEN step[<<f[m], m + 1>>] ELSE f[n]]
  <2>2. f[m] \in V /\ m + 1 \in 1..N
    OBVIOUS
  <2>3. step[<<f[m], m + 1>>] \in V
    BY <2>2
  <2>4. g \in [0..(m + 1) -> V]
    BY <2>3
  <2>5. Upto(g, m + 1)
    <3> SUFFICES ASSUME NEW n \in 0..(m + 1)
                 PROVE  g[n] = IF n = 0 THEN base ELSE step[<<g[n - 1], n>>]
      BY DEF Unfolds
    <3>1. CASE n = m + 1
      <4>1. g[n - 1] = f[m] /\ g[n] = step[<<f[m], m + 1>>] /\ n # 0
        BY <3>1
      <4> QED
        BY <3>1, <4>1
    <3>2. CASE n \in 0..m
      <4>1. g[n] = f[n] /\ (n # 0 => g[n - 1] = f[n - 1])
        BY <3>2
      <4> QED
        BY <2>1, <3>2, <4>1 DEF Unfolds
    <3> QED
      BY <3>1, <3>2
  <2> QED
    BY <2>4, <2>5
<1>3. N \in S
  <2> HIDE DEF S
  <2> QED
    BY <1>1, <1>2, InductionOverNat
<1> QED
  BY <1>3

(* PickedFrom is the function its recursion describes.                     *)
LEMMA PickedFromRecursion ==
    ASSUME NEW X, NEW s \in Seq(X), NEW I
    PROVE  /\ PickedFrom(s, I) \in [0..Len(s) -> Seq(X)]
           /\ PickedFrom(s, I)[0] = <<>>
           /\ \A n \in 1..Len(s) :
                  PickedFrom(s, I)[n] = IF n \in I
                                        THEN Append(PickedFrom(s, I)[n - 1], s[n])
                                        ELSE PickedFrom(s, I)[n - 1]
<1> DEFINE N == Len(s)
           step == [p \in Seq(X) \X (1..N) |->
                        IF p[2] \in I THEN Append(p[1], s[p[2]]) ELSE p[1]]
           Follows(g) == g = [n \in 0..N |->
                                 IF n = 0 THEN <<>>
                                 ELSE IF n \in I THEN Append(g[n - 1], s[n])
                                 ELSE g[n - 1]]
           kept == CHOOSE g : Follows(g)
<1>1. PickedFrom(s, I) = kept
  BY DEF PickedFrom
<1>2. N \in Nat /\ <<>> \in Seq(X) /\ \A n \in 1..N : s[n] \in X
  OBVIOUS
<1>3. step \in [Seq(X) \X (1..N) -> Seq(X)]
  BY <1>2
<1>4. PICK f \in [0..N -> Seq(X)] : Unfolds(f, <<>>, step, N)
  <2> HIDE DEF step, N
  <2> QED
    BY <1>2, <1>3, RecursionOverInterval
<1>5. \A n \in 1..N : step[<<f[n - 1], n>>] =
                          IF n \in I THEN Append(f[n - 1], s[n]) ELSE f[n - 1]
  <2> SUFFICES ASSUME NEW n \in 1..N
               PROVE  step[<<f[n - 1], n>>] =
                          IF n \in I THEN Append(f[n - 1], s[n]) ELSE f[n - 1]
    OBVIOUS
  <2>1. f[n - 1] \in Seq(X)
    BY <1>2
  <2> QED
    BY <2>1
<1>6. Follows(f)
  <2>1. \A n \in 0..N : f[n] = IF n = 0 THEN <<>>
                              ELSE IF n \in I THEN Append(f[n - 1], s[n])
                              ELSE f[n - 1]
    <3> HIDE DEF step, N
    <3>1. \A n \in 0..N : n # 0 => n \in 1..N
      BY <1>2
    <3>2. \A n \in 0..N : f[n] = IF n = 0 THEN <<>> ELSE step[<<f[n - 1], n>>]
      BY <1>4 DEF Unfolds
    <3> QED
      BY <1>5, <3>1, <3>2, Zenon
  <2>2. f = [n \in 0..N |-> f[n]]
    OBVIOUS
  <2> QED
    BY <2>1, <2>2
<1>7. Follows(kept)
  BY <1>6
<1>8. /\ DOMAIN kept = 0..N /\ kept[0] = <<>>
      /\ \A n \in 1..N : kept[n] = IF n \in I THEN Append(kept[n - 1], s[n])
                                              ELSE kept[n - 1]
  <2> HIDE DEF kept, N
  <2>1. kept = [n \in 0..N |-> IF n = 0 THEN <<>>
                               ELSE IF n \in I THEN Append(kept[n - 1], s[n])
                               ELSE kept[n - 1]]
    BY <1>7
  <2> HIDE DEF Follows
  <2>2. DOMAIN kept = 0..N
    BY <2>1
  <2>3. ASSUME NEW n \in 0..N
        PROVE  kept[n] = IF n = 0 THEN <<>>
                         ELSE IF n \in I THEN Append(kept[n - 1], s[n])
                         ELSE kept[n - 1]
    BY <2>1
  <2>4. 0 \in 0..N /\ \A n \in 1..N : n \in 0..N /\ n # 0
    BY <1>2
  <2> QED
    BY <2>2, <2>3, <2>4, Zenon
<1>9. \A n \in 0..N : kept[n] \in Seq(X)
  <2> HIDE DEF kept
  <2> DEFINE S == {n \in Nat : n <= N => kept[n] \in Seq(X)}
  <2>1. 0 \in S
    BY <1>2, <1>8
  <2>2. ASSUME NEW n \in Nat, n \in S PROVE n + 1 \in S
    <3> SUFFICES ASSUME n + 1 <= N PROVE kept[n + 1] \in Seq(X)
      OBVIOUS
    <3>1. kept[n] \in Seq(X) /\ n + 1 \in 1..N /\ (n + 1) - 1 = n
      BY <2>2
    <3>2. kept[n + 1] = IF n + 1 \in I THEN Append(kept[n], s[n + 1]) ELSE kept[n]
      BY <1>8, <3>1
    <3> QED
      BY <1>2, <3>1, <3>2
  <2>3. Nat \subseteq S
    <3> HIDE DEF S
    <3> QED
      BY <2>1, <2>2, InductionOverNat
  <2> QED
    BY <2>3
<1>10. kept \in [0..N -> Seq(X)]
  <2> HIDE DEF kept
  <2>1. kept = [n \in 0..N |-> kept[n]]
    BY <1>7
  <2> QED
    BY <2>1, <1>9
<1> QED
  BY <1>1, <1>8, <1>10

(* Two functions that start and go on alike have the same values.          *)
LEMMA SameRecursion ==
    ASSUME NEW N \in Nat, NEW f, NEW g, f[0] = g[0],
           \A n \in 1..N : f[n - 1] = g[n - 1] => f[n] = g[n]
    PROVE  f[N] = g[N]
<1> DEFINE S == {n \in Nat : n <= N => f[n] = g[n]}
<1>1. 0 \in S
  OBVIOUS
<1>2. ASSUME NEW n \in Nat, n \in S PROVE n + 1 \in S
  <2> SUFFICES ASSUME n + 1 <= N PROVE f[n + 1] = g[n + 1]
    OBVIOUS
  <2>1. n + 1 \in 1..N /\ (n + 1) - 1 = n /\ f[n] = g[n]
    BY <1>2
  <2> QED
    BY <2>1
<1>3. Nat \subseteq S
  <2> HIDE DEF S
  <2> QED
    BY <1>1, <1>2, InductionOverNat
<1> QED
  BY <1>3

(* A set of numbers has a least one, if it has any.                        *)
LEMMA LeastNumber ==
    ASSUME NEW S, S \subseteq Nat, S # {}
    PROVE  Least(S) \in S /\ \A n \in S : Least(S) <= n
<1>1. PICK x \in S : \A y \in S : <<y, x>> \notin OpToRel(<, Nat)
  <2>1. IsWellFoundedOn(OpToRel(<, Nat), Nat)
    BY NatLessThanWellFounded
  <2> QED
    BY <2>1, WFMin
<1>2. \A y \in S : x <= y
  <2> SUFFICES ASSUME NEW y \in S, y < x PROVE FALSE
    OBVIOUS
  <2>1. <<y, x>> \in OpToRel(<, Nat)
    BY DEF OpToRel
  <2> QED
    BY <1>1, <2>1
<1> QED
  BY <1>2 DEF Least

(* Picked keeps exactly the elements at the positions it is given.         *)
LEMMA PickedElements ==
    ASSUME NEW X, NEW s \in Seq(X), NEW I
    PROVE  /\ Picked(s, I) \in Seq(X)
           /\ \A m \in DOMAIN Picked(s, I) : \E i \in DOMAIN s : i \in I /\ Picked(s, I)[m] = s[i]
           /\ \A i \in DOMAIN s : i \in I => \E m \in DOMAIN Picked(s, I) : Picked(s, I)[m] = s[i]
<1> DEFINE k == PickedFrom(s, I)
           N == Len(s)
           From(n) == /\ \A m \in DOMAIN k[n] : \E i \in 1..n : i \in I /\ k[n][m] = s[i]
                      /\ \A i \in 1..n : i \in I => \E m \in DOMAIN k[n] : k[n][m] = s[i]
           S == {n \in Nat : n <= N => From(n)}
<1>1. /\ N \in Nat /\ k \in [0..N -> Seq(X)] /\ k[0] = <<>>
      /\ \A n \in 1..N : k[n] = IF n \in I THEN Append(k[n - 1], s[n]) ELSE k[n - 1]
  BY PickedFromRecursion
<1>2. 0 \in S
  BY <1>1
<1>3. ASSUME NEW n \in Nat, n \in S PROVE n + 1 \in S
  <2> HIDE DEF k, N
  <2> SUFFICES ASSUME n + 1 <= N PROVE From(n + 1)
    OBVIOUS
  <2>1. /\ k[n] \in Seq(X) /\ n + 1 \in 1..N /\ (n + 1) - 1 = n
        /\ s[n + 1] \in X
    <3>1. n \in 0..N /\ n + 1 \in 1..N /\ (n + 1) - 1 = n
      BY <1>1
    <3> QED
      BY <1>1, <3>1 DEF N
  <2>4. From(n)
    BY <1>1, <1>3
  <2>2. CASE n + 1 \in I
    <3>1. k[n + 1] = Append(k[n], s[n + 1])
      BY <1>1, <2>1, <2>2
    <3>2. /\ DOMAIN k[n + 1] = DOMAIN k[n] \cup {Len(k[n]) + 1}
          /\ k[n + 1][Len(k[n]) + 1] = s[n + 1]
          /\ \A m \in DOMAIN k[n] : k[n + 1][m] = k[n][m]
      BY <2>1, <3>1
    <3>3. 1..(n + 1) = 1..n \cup {n + 1}
      OBVIOUS
    <3> QED
      BY <2>1, <2>2, <2>4, <3>2, <3>3
  <2>3. CASE n + 1 \notin I
    <3>1. k[n + 1] = k[n]
      BY <1>1, <2>1, <2>3
    <3>2. 1..(n + 1) = 1..n \cup {n + 1}
      OBVIOUS
    <3> QED
      BY <2>1, <2>3, <2>4, <3>1, <3>2
  <2> QED
    BY <2>2, <2>3
<1>4. N \in S
  <2> HIDE DEF S
  <2> QED
    BY <1>1, <1>2, <1>3, InductionOverNat
<1>5. From(N) /\ DOMAIN s = 1..N /\ k[N] \in Seq(X)
  BY <1>1, <1>4
<1> QED
  BY <1>5 DEF Picked

(* Picking the positions of a prefix gives the prefix.                     *)
LEMMA PickedPrefix ==
    ASSUME NEW X, NEW t \in Seq(X), NEW I, NEW p \in 0..Len(t),
           \A n \in 1..Len(t) : n \in I <=> n <= p
    PROVE  Picked(t, I) = SubSeq(t, 1, p)
<1> DEFINE k == PickedFrom(t, I)
           N == Len(t)
           upto(n) == IF n <= p THEN n ELSE p
           S == {n \in Nat : n <= N => k[n] = SubSeq(t, 1, upto(n))}
<1>1. /\ N \in Nat /\ k \in [0..N -> Seq(X)] /\ k[0] = <<>>
      /\ \A n \in 1..N : k[n] = IF n \in I THEN Append(k[n - 1], t[n]) ELSE k[n - 1]
  BY PickedFromRecursion
<1>2. 0 \in S
  <2>1. SubSeq(t, 1, 0) = <<>>
    OBVIOUS
  <2> QED
    BY <1>1, <2>1
<1>3. ASSUME NEW n \in Nat, n \in S PROVE n + 1 \in S
  <2> HIDE DEF k
  <2> SUFFICES ASSUME n + 1 <= N PROVE k[n + 1] = SubSeq(t, 1, upto(n + 1))
    OBVIOUS
  <2>1. /\ n + 1 \in 1..N /\ (n + 1) - 1 = n /\ k[n] = SubSeq(t, 1, upto(n))
    BY <1>1, <1>3
  <2>2. CASE n + 1 <= p
    <3>1. k[n + 1] = Append(SubSeq(t, 1, n), t[n + 1])
      <4>1. n + 1 \in I /\ upto(n) = n
        BY <2>1, <2>2
      <4>2. k[n + 1] = Append(k[n], t[n + 1])
        <5> HIDE DEF N
        <5> QED
          BY <1>1, <2>1, <4>1
      <4> QED
        BY <2>1, <4>1, <4>2
    <3>2. Append(SubSeq(t, 1, n), t[n + 1]) = SubSeq(t, 1, n + 1)
      BY <2>1
    <3> QED
      BY <2>2, <3>1, <3>2
  <2>3. CASE ~(n + 1 <= p)
    <3>1. k[n + 1] = SubSeq(t, 1, upto(n)) /\ upto(n) = p /\ upto(n + 1) = p
      BY <1>1, <2>1, <2>3
    <3> QED
      BY <3>1
  <2> QED
    BY <2>2, <2>3
<1>4. N \in S
  <2> HIDE DEF S, k, N
  <2> QED
    BY <1>1, <1>2, <1>3, InductionOverNat
<1>5. k[N] = SubSeq(t, 1, p)
  <2>1. upto(N) = p
    OBVIOUS
  <2> QED
    BY <1>1, <1>4, <2>1
<1> QED
  BY <1>5 DEF Picked

(* A function over the first numbers is a sequence.                        *)
LEMMA SequenceOf ==
    ASSUME NEW X, NEW n \in Nat, NEW f \in [1..n -> X]
    PROVE  f \in Seq(X) /\ Len(f) = n /\ DOMAIN f = 1..n
<1>1. f \in Seq(X)
  BY SeqDef
<1> QED
  BY <1>1
-----------------------------------------------------------------------------
(* Sorting and merging the chunks of a direction (Reassembly).             *)

(* Sequence numbers that do not decrease.                                  *)
BySeq(q) == \A a, b \in DOMAIN q : a < b => q[a].seq <= q[b].seq

(* A chunk is inserted where the sequence numbers stay in order.           *)
LEMMA InsertedChunk ==
    ASSUME NEW q \in Seq(Chunk), NEW c \in Chunk, BySeq(q)
    PROVE  LET r == InsertAt(q, Place(q, c), c)
           IN  /\ r \in Seq(Chunk)
               /\ BySeq(r)
               /\ Range(r) = Range(q) \cup {c}
<1> DEFINE I == {j \in 1..(Len(q) + 1) : j <= Len(q) => SortsBefore(c, q[j])}
           p == Place(q, c)
           r == InsertAt(q, p, c)
           N == Len(q)
<1>1. N \in Nat /\ DOMAIN q = 1..N /\ \A j \in 1..N : q[j] \in Chunk
  OBVIOUS
<1>2. p \in I /\ \A j \in I : p <= j
  <2>1. N + 1 \in I /\ I \subseteq Nat
    BY <1>1
  <2>2. p = Least(I)
    BY DEF Place
  <2> HIDE DEF I
  <2> QED
    BY <2>1, <2>2, LeastNumber
<1>3. p \in 1..(N + 1) /\ (p <= N => SortsBefore(c, q[p]))
  BY <1>2
<1>4. \A j \in 1..N : j < p => ~SortsBefore(c, q[j])
  BY <1>1, <1>2, <1>3
<1> HIDE DEF p, I
<1>5. /\ r \in Seq(Chunk) /\ Len(r) = N + 1
      /\ r[p] = c
      /\ \A j \in 1..(p - 1) : r[j] = q[j]
      /\ \A j \in (p + 1)..(N + 1) : r[j] = q[j - 1]
  <2> DEFINE low == SubSeq(q, 1, p - 1)
             high == SubSeq(q, p, N)
             first == low \o <<c>>
  <2>1. low \in Seq(Chunk) /\ Len(low) = p - 1 /\ \A j \in 1..(p - 1) : low[j] = q[j]
    BY <1>1, <1>3
  <2>2. /\ high \in Seq(Chunk) /\ Len(high) = N + 1 - p
        /\ \A j \in 1..(N + 1 - p) : high[j] = q[p + j - 1]
    BY <1>1, <1>3
  <2>3. r = low \o <<c>> \o high
    BY DEF InsertAt
  <2> HIDE DEF low, high, r, N
  <2>4. /\ first \in Seq(Chunk) /\ Len(first) = p
        /\ \A j \in 1..(p - 1) : first[j] = q[j]
        /\ first[p] = c
    BY <1>1, <1>3, <2>1
  <2> HIDE DEF first
  <2>5. /\ r \in Seq(Chunk) /\ Len(r) = N + 1
        /\ \A j \in 1..(N + 1) : r[j] = IF j <= p THEN first[j] ELSE high[j - p]
    <3>1. r = first \o high
      BY <2>3 DEF first
    <3>2. Len(first) + Len(high) = N + 1
      BY <1>1, <1>3, <2>2, <2>4
    <3> QED
      BY <2>2, <2>4, <3>1, <3>2, ConcatProperties
  <2>6. \A j \in (p + 1)..(N + 1) : high[j - p] = q[j - 1]
    <3> TAKE j \in (p + 1)..(N + 1)
    <3>1. j - p \in 1..(N + 1 - p) /\ p + (j - p) - 1 = j - 1
      BY <1>1, <1>3
    <3> QED
      BY <2>2, <3>1
  <2>7. r[p] = c
    BY <1>1, <1>3, <2>4, <2>5
  <2>8. \A j \in 1..(p - 1) : r[j] = q[j]
    BY <1>1, <1>3, <2>4, <2>5
  <2>9. \A j \in (p + 1)..(N + 1) : r[j] = q[j - 1]
    BY <1>1, <1>3, <2>5, <2>6
  <2> QED
    BY <2>5, <2>7, <2>8, <2>9
<1> HIDE DEF r, N
<1>6. DOMAIN r = 1..(N + 1)
  BY <1>5
<1>7. \A j \in 1..(N + 1) : j \in 1..(p - 1) \/ j = p \/ j \in (p + 1)..(N + 1)
  BY <1>1, <1>3
<1>8. /\ \A j \in 1..(p - 1) : q[j].seq <= c.seq
      /\ \A j \in p..N : c.seq <= q[j].seq
  <2>1. \A j \in 1..N : q[j].seq \in Nat
    BY <1>1 DEF Chunk
  <2>2. c.seq \in Nat
    BY DEF Chunk
  <2>3. \A j \in 1..(p - 1) : q[j].seq <= c.seq
    BY <1>1, <1>3, <1>4, <2>1, <2>2 DEF SortsBefore
  <2>4. p <= N => c.seq <= q[p].seq
    BY <1>1, <1>3, <2>1, <2>2 DEF SortsBefore
  <2>5. \A j \in p..N : c.seq <= q[j].seq
    <3> TAKE j \in p..N
    <3>1. p \in 1..N /\ j \in 1..N
      BY <1>1, <1>3
    <3>2. q[p].seq <= q[j].seq
      BY <1>1, <3>1, <2>1 DEF BySeq
    <3> QED
      BY <2>1, <2>2, <2>4, <3>1, <3>2
  <2> QED
    BY <2>3, <2>5
<1>9. BySeq(r)
  <2> SUFFICES ASSUME NEW a \in 1..(N + 1), NEW b \in 1..(N + 1), a < b
               PROVE  r[a].seq <= r[b].seq
    BY <1>6 DEF BySeq
  <2>1. \A j \in 1..N : q[j].seq \in Nat
    BY <1>1 DEF Chunk
  <2>2. CASE b \in 1..(p - 1)
    <3>1. a \in 1..(p - 1) /\ a \in 1..N /\ b \in 1..N
      BY <1>1, <1>3, <2>2
    <3> QED
      BY <1>1, <1>5, <2>2, <3>1 DEF BySeq
  <2>3. CASE a \in 1..(p - 1) /\ b = p
    BY <1>5, <1>8, <2>3
  <2>4. CASE a \in 1..(p - 1) /\ b \in (p + 1)..(N + 1)
    <3>1. b - 1 \in 1..N /\ a < b - 1 /\ a \in 1..N
      BY <1>1, <1>3, <2>4
    <3> QED
      BY <1>1, <1>5, <2>4, <3>1 DEF BySeq
  <2>5. CASE a = p /\ b \in (p + 1)..(N + 1)
    <3>1. b - 1 \in p..N
      BY <1>1, <1>3, <2>5
    <3> QED
      BY <1>5, <1>8, <2>5, <3>1
  <2>6. CASE a \in (p + 1)..(N + 1)
    <3>1. b \in (p + 1)..(N + 1) /\ a - 1 \in 1..N /\ b - 1 \in 1..N /\ a - 1 < b - 1
      BY <1>1, <1>3, <2>6
    <3> QED
      BY <1>1, <1>5, <2>6, <3>1 DEF BySeq
  <2> QED
    BY <1>1, <1>3, <1>7, <2>2, <2>3, <2>4, <2>5, <2>6
<1>10. Range(r) = Range(q) \cup {c}
  <2>1. Range(r) \subseteq Range(q) \cup {c}
    <3> SUFFICES ASSUME NEW j \in 1..(N + 1) PROVE r[j] \in Range(q) \cup {c}
      BY <1>6 DEF Range
    <3>1. CASE j \in 1..(p - 1)
      <4>1. j \in DOMAIN q
        BY <1>1, <1>3, <3>1
      <4> QED
        BY <1>5, <3>1, <4>1 DEF Range
    <3>2. CASE j \in (p + 1)..(N + 1)
      <4>1. j - 1 \in DOMAIN q
        BY <1>1, <1>3, <3>2
      <4> QED
        BY <1>5, <3>2, <4>1 DEF Range
    <3> QED
      BY <1>5, <1>7, <3>1, <3>2
  <2>2. c \in Range(r)
    BY <1>1, <1>3, <1>5, <1>6 DEF Range
  <2>3. Range(q) \subseteq Range(r)
    <3> SUFFICES ASSUME NEW j \in 1..N PROVE q[j] \in Range(r)
      BY <1>1 DEF Range
    <3>1. CASE j < p
      <4>1. j \in 1..(p - 1) /\ j \in DOMAIN r
        BY <1>1, <1>3, <1>6, <3>1
      <4> QED
        BY <1>5, <4>1 DEF Range
    <3>2. CASE ~(j < p)
      <4>1. j + 1 \in (p + 1)..(N + 1) /\ j + 1 \in DOMAIN r /\ (j + 1) - 1 = j
        BY <1>1, <1>3, <1>6, <3>2
      <4> QED
        BY <1>5, <4>1 DEF Range
    <3> QED
      BY <3>1, <3>2
  <2> QED
    BY <2>1, <2>2, <2>3
<1> QED
  BY <1>5, <1>9, <1>10 DEF r, p

(* Inserted is the function its recursion describes; what it inserts into  *)
(* is in order every time.                                                 *)
SortedChunks == {q \in Seq(Chunk) : BySeq(q)}

LEMMA InsertedRecursion ==
    ASSUME NEW chunks \in Seq(Chunk)
    PROVE  /\ Inserted(chunks) \in [0..Len(chunks) -> SortedChunks]
           /\ Inserted(chunks)[0] = <<>>
           /\ \A n \in 1..Len(chunks) :
                  Range(Inserted(chunks)[n]) =
                      Range(Inserted(chunks)[n - 1])
                          \cup (IF HasPayload(chunks[n]) THEN {chunks[n]} ELSE {})
<1> DEFINE N == Len(chunks)
           With(q, c) == IF HasPayload(c) THEN InsertAt(q, Place(q, c), c) ELSE q
           step == [p \in SortedChunks \X (1..N) |-> With(p[1], chunks[p[2]])]
           Follows(g) == g = [n \in 0..N |->
                                 IF n = 0 THEN <<>>
                                 ELSE IF HasPayload(chunks[n])
                                 THEN InsertAt(g[n - 1], Place(g[n - 1], chunks[n]), chunks[n])
                                 ELSE g[n - 1]]
           sorting == CHOOSE g : Follows(g)
<1>1. Inserted(chunks) = sorting
  BY DEF Inserted
<1>2. N \in Nat /\ <<>> \in SortedChunks /\ \A n \in 1..N : chunks[n] \in Chunk
  BY DEF SortedChunks, BySeq
<1>3. \A q \in SortedChunks, c \in Chunk :
          /\ With(q, c) \in SortedChunks
          /\ Range(With(q, c)) = Range(q) \cup (IF HasPayload(c) THEN {c} ELSE {})
  BY InsertedChunk DEF SortedChunks
<1>4. step \in [SortedChunks \X (1..N) -> SortedChunks]
  <2> HIDE DEF With, N
  <2> QED
    BY <1>2, <1>3
<1>5. PICK f \in [0..N -> SortedChunks] : Unfolds(f, <<>>, step, N)
  <2> HIDE DEF step, N
  <2> QED
    BY <1>2, <1>4, RecursionOverInterval
<1>6. \A n \in 0..N : f[n] = IF n = 0 THEN <<>> ELSE With(f[n - 1], chunks[n])
  <2> SUFFICES ASSUME NEW n \in 1..N
               PROVE  f[n] = With(f[n - 1], chunks[n])
    BY <1>5 DEF Unfolds
  <2>1. f[n - 1] \in SortedChunks /\ n \in 0..N /\ n # 0
    BY <1>2
  <2>2. f[n] = step[<<f[n - 1], n>>]
    <3> HIDE DEF step, N
    <3> QED
      BY <1>5, <2>1 DEF Unfolds
  <2> HIDE DEF With, N
  <2> QED
    BY <2>1, <2>2
<1>7. Follows(f)
  <2>1. f = [n \in 0..N |-> f[n]]
    OBVIOUS
  <2> QED
    BY <1>6, <2>1
<1>8. Follows(sorting)
  BY <1>7
<1>9. /\ DOMAIN sorting = 0..N /\ sorting[0] = <<>>
      /\ \A n \in 1..N : sorting[n] = With(sorting[n - 1], chunks[n])
  <2> HIDE DEF sorting, N
  <2>1. sorting = [n \in 0..N |->
                      IF n = 0 THEN <<>>
                      ELSE IF HasPayload(chunks[n])
                      THEN InsertAt(sorting[n - 1], Place(sorting[n - 1], chunks[n]), chunks[n])
                      ELSE sorting[n - 1]]
    BY <1>8
  <2> HIDE DEF Follows
  <2>2. DOMAIN sorting = 0..N
    BY <2>1
  <2>3. ASSUME NEW n \in 0..N
        PROVE  sorting[n] = IF n = 0 THEN <<>> ELSE With(sorting[n - 1], chunks[n])
    BY <2>1
  <2>4. 0 \in 0..N /\ \A n \in 1..N : n \in 0..N /\ n # 0
    BY <1>2
  <2> QED
    BY <2>2, <2>3, <2>4, Zenon
<1>10. \A n \in 0..N : sorting[n] \in SortedChunks
  <2> HIDE DEF sorting, With
  <2> DEFINE S == {n \in Nat : n <= N => sorting[n] \in SortedChunks}
  <2>1. 0 \in S
    BY <1>2, <1>9
  <2>2. ASSUME NEW n \in Nat, n \in S PROVE n + 1 \in S
    <3> SUFFICES ASSUME n + 1 <= N PROVE sorting[n + 1] \in SortedChunks
      OBVIOUS
    <3>1. sorting[n] \in SortedChunks /\ n + 1 \in 1..N /\ (n + 1) - 1 = n
      BY <2>2
    <3> QED
      BY <1>2, <1>3, <1>9, <3>1
  <2>3. Nat \subseteq S
    <3> HIDE DEF S
    <3> QED
      BY <2>1, <2>2, InductionOverNat
  <2> QED
    BY <2>3
<1>11. sorting \in [0..N -> SortedChunks]
  <2>1. sorting = [n \in 0..N |-> sorting[n]]
    BY <1>8
  <2> HIDE DEF sorting
  <2> QED
    BY <2>1, <1>10
<1>12. ASSUME NEW n \in 1..N
       PROVE  Range(sorting[n]) = Range(sorting[n - 1])
                                      \cup (IF HasPayload(chunks[n]) THEN {chunks[n]} ELSE {})
  <2> HIDE DEF sorting, With
  <2>1. n - 1 \in 0..N
    BY <1>2
  <2> QED
    BY <1>2, <1>3, <1>9, <1>10, <2>1
<1> QED
  <2> HIDE DEF sorting
  <2> QED
    BY <1>1, <1>9, <1>11, <1>12

(* The sorted chunks are those with a payload.                             *)
LEMMA SortedIsPayload ==
    ASSUME NEW chunks \in Seq(Chunk)
    PROVE  /\ InSeqOrder(chunks) \in Seq(Chunk)
           /\ BySeq(InSeqOrder(chunks))
           /\ Range(InSeqOrder(chunks)) =
                  {chunks[j] : j \in {k \in DOMAIN chunks : HasPayload(chunks[k])}}
<1> DEFINE N == Len(chunks)
           q == Inserted(chunks)
           Full(n) == {chunks[j] : j \in {k \in 1..n : HasPayload(chunks[k])}}
           S == {n \in Nat : n <= N => Range(q[n]) = Full(n)}
<1>1. N \in Nat /\ DOMAIN chunks = 1..N
  OBVIOUS
<1>2. /\ q \in [0..N -> SortedChunks] /\ q[0] = <<>>
      /\ \A n \in 1..N : Range(q[n]) =
             Range(q[n - 1]) \cup (IF HasPayload(chunks[n]) THEN {chunks[n]} ELSE {})
  BY InsertedRecursion
<1>3. 0 \in S
  <2>1. Range(<<>>) = {}
    BY DEF Range
  <2>2. Full(0) = {}
    OBVIOUS
  <2> QED
    BY <1>2, <2>1, <2>2
<1>4. ASSUME NEW n \in Nat, n \in S PROVE n + 1 \in S
  <2> HIDE DEF q
  <2> SUFFICES ASSUME n + 1 <= N PROVE Range(q[n + 1]) = Full(n + 1)
    OBVIOUS
  <2>1. Range(q[n]) = Full(n) /\ n + 1 \in 1..N /\ (n + 1) - 1 = n
    BY <1>1, <1>4
  <2>2. Range(q[n + 1]) =
            Range(q[n]) \cup (IF HasPayload(chunks[n + 1]) THEN {chunks[n + 1]} ELSE {})
    BY <1>2, <2>1
  <2>3. 1..(n + 1) = 1..n \cup {n + 1}
    OBVIOUS
  <2>4. Full(n + 1) = Full(n) \cup (IF HasPayload(chunks[n + 1]) THEN {chunks[n + 1]} ELSE {})
    BY <2>3
  <2> HIDE DEF Full
  <2> QED
    BY <2>1, <2>2, <2>4
<1>5. Range(q[N]) = Full(N) /\ q[N] \in SortedChunks
  <2>1. N \in S
    <3> HIDE DEF S, N
    <3> QED
      BY <1>1, <1>3, <1>4, InductionOverNat
  <2> QED
    BY <1>1, <1>2, <2>1
<1>6. q[N] = InSeqOrder(chunks)
  BY DEF InSeqOrder
<1> HIDE DEF q
<1> QED
  BY <1>1, <1>5, <1>6 DEF SortedChunks

(* A run of bytes is a sequence of consecutive positions.                  *)
LEMMA RunProperties ==
    ASSUME NEW from \in Nat, NEW to \in Nat, from <= to
    PROVE  /\ Run(from, to) \in Seq(Nat)
           /\ Len(Run(from, to)) = to - from
           /\ \A k \in 1..(to - from) : Run(from, to)[k] = from + k - 1
<1>1. to - from \in Nat
  OBVIOUS
<1>2. Run(from, to) \in [1..(to - from) -> Nat]
  BY DEF Run
<1>3. Run(from, to) \in Seq(Nat)
  BY <1>1, <1>2, SeqDef
<1>4. Len(Run(from, to)) = to - from
  BY <1>1, <1>2, <1>3, LenProperties
<1> QED
  BY <1>3, <1>4 DEF Run

(* Appending a run that starts past everything assembled keeps the         *)
(* sequence ascending and adds exactly the positions of the run.           *)
LEMMA AppendRun ==
    ASSUME NEW s \in Seq(Nat), Ascending(s),
           NEW from \in Nat, NEW to \in Nat, from <= to,
           \A b \in Range(s) : b < from
    PROVE  /\ s \o Run(from, to) \in Seq(Nat)
           /\ Ascending(s \o Run(from, to))
           /\ Range(s \o Run(from, to)) = Range(s) \cup (from .. (to - 1))
<1> DEFINE r == Run(from, to)
           t == s \o r
           m == Len(s)
           n == to - from
<1>1. r \in Seq(Nat) /\ Len(r) = n /\ \A k \in 1..n : r[k] = from + k - 1
  BY RunProperties
<1>2. /\ t \in Seq(Nat)
      /\ Len(t) = m + n
      /\ \A k \in 1..(m + n) : t[k] = IF k <= m THEN s[k] ELSE r[k - m]
  <2> HIDE DEF r, n
  <2>1. /\ t \in Seq(Nat)
        /\ Len(t) = m + Len(r)
        /\ \A k \in 1..(m + Len(r)) :
               t[k] = IF k <= m THEN s[k] ELSE r[k - m]
    BY <1>1, ConcatProperties
  <2> QED
    BY <2>1, <1>1
<1>3. m \in Nat /\ n \in Nat /\ DOMAIN s = 1..m /\ DOMAIN t = 1..(m + n)
  BY <1>2, LenProperties
<1> HIDE DEF r, t, m
<1>4. ASSUME NEW k \in 1..m
      PROVE  t[k] = s[k] /\ s[k] \in Nat /\ s[k] < from
  <2>1. k \in 1..(m + n) /\ k <= m /\ k \in DOMAIN s
    BY <1>3
  <2>2. t[k] = s[k]
    BY <2>1, <1>2
  <2>3. s[k] \in Range(s)
    BY <2>1 DEF Range
  <2>4. s[k] \in Nat
    BY ElementOfSeq DEF m
  <2> QED
    BY <2>2, <2>3, <2>4
<1>5. ASSUME NEW k \in 1..n
      PROVE  t[m + k] = from + k - 1
  <2>1. m + k \in 1..(m + n) /\ ~(m + k <= m) /\ (m + k) - m = k
    BY <1>3
  <2>2. t[m + k] = r[(m + k) - m]
    BY <2>1, <1>2
  <2> QED
    BY <2>1, <2>2, <1>1
<1>6. Ascending(t)
  <2> SUFFICES ASSUME NEW a \in 1..(m + n), NEW b \in 1..(m + n), a < b
               PROVE  t[a] < t[b]
    BY <1>3 DEF Ascending
  <2>1. CASE b <= m
    BY <2>1, <1>3, <1>4 DEF Ascending
  <2>2. CASE a <= m /\ b > m
    <3>1. b = m + (b - m) /\ b - m \in 1..n
      BY <2>2, <1>3
    <3>2. t[b] = from + (b - m) - 1
      BY <3>1, <1>5
    <3>3. t[a] \in Nat /\ t[a] < from
      BY <2>2, <1>3, <1>4
    <3> QED
      BY <3>1, <3>2, <3>3
  <2>3. CASE a > m
    <3>1. a = m + (a - m) /\ a - m \in 1..n /\ b = m + (b - m) /\ b - m \in 1..n
      BY <2>3, <1>3
    <3>2. t[a] = from + (a - m) - 1 /\ t[b] = from + (b - m) - 1
      BY <3>1, <1>5
    <3> QED
      BY <3>1, <3>2, <1>3
  <2> QED
    BY <2>1, <2>2, <2>3, <1>3
<1>7. Range(t) \subseteq Range(s) \cup (from .. (to - 1))
  <2> SUFFICES ASSUME NEW a \in 1..(m + n)
               PROVE  t[a] \in Range(s) \cup (from .. (to - 1))
    BY <1>3 DEF Range
  <2>1. CASE a <= m
    BY <2>1, <1>3, <1>4 DEF Range
  <2>2. CASE a > m
    <3>1. a = m + (a - m) /\ a - m \in 1..n
      BY <2>2, <1>3
    <3>2. t[a] = from + (a - m) - 1
      BY <3>1, <1>5
    <3> QED
      BY <3>1, <3>2
  <2> QED
    BY <2>1, <2>2, <1>3
<1>8. Range(s) \subseteq Range(t)
  <2> SUFFICES ASSUME NEW a \in 1..m
               PROVE  s[a] \in Range(t)
    BY <1>3 DEF Range
  <2> QED
    BY <1>3, <1>4 DEF Range
<1>9. from .. (to - 1) \subseteq Range(t)
  <2> SUFFICES ASSUME NEW k \in from .. (to - 1)
               PROVE  k \in Range(t)
    OBVIOUS
  <2>1. k - from + 1 \in 1..n /\ m + (k - from + 1) \in DOMAIN t
    BY <1>3
  <2>2. t[m + (k - from + 1)] = k
    BY <2>1, <1>5
  <2> QED
    BY <2>1, <2>2 DEF Range
<1> QED
  <2> USE DEF t, r
  <2> QED
  BY <1>2, <1>6, <1>7, <1>8, <1>9

(* What the loop holds: the positions merged so far, each once and in      *)
(* order, none missing between the start of the last chunk and expected.   *)
Acc == [expected : Nat, assembled : Seq(Nat), has_gap : BOOLEAN]

Merged(q, n, acc) ==
    /\ acc \in Acc
    /\ Ascending(acc.assembled)
    /\ \A b \in Range(acc.assembled) : /\ b < acc.expected
                                       /\ \E j \in 1..n : b \in BytesOf(q[j])
    /\ \A j \in 1..n : /\ BytesOf(q[j]) \subseteq Range(acc.assembled)
                       /\ End(q[j]) <= acc.expected
    /\ n > 0 => q[n].seq .. (acc.expected - 1) \subseteq Range(acc.assembled)
    /\ q[1].seq <= acc.expected
    /\ n = 0 => acc.expected = q[1].seq
    /\ ~acc.has_gap => q[1].seq .. (acc.expected - 1) \subseteq Range(acc.assembled)
    /\ acc.has_gap => \E d \in DOMAIN q : \E k \in q[1].seq .. (End(q[d]) - 1) :
                          \A j \in DOMAIN q : k \notin BytesOf(q[j])

LEMMA MergedAtStart ==
    ASSUME NEW q \in Seq(Chunk), q # <<>>
    PROVE  Merged(q, 0, LoopStart(q))
<1>1. q[1] \in Chunk
  OBVIOUS
<1>2. q[1].seq \in Nat
  BY <1>1 DEF Chunk
<1>3. Range(<<>>) = {} /\ Ascending(<<>>) /\ <<>> \in Seq(Nat)
  BY DEF Range, Ascending
<1> DEFINE acc == LoopStart(q)
<1>4. acc.expected = q[1].seq /\ acc.assembled = <<>> /\ acc.has_gap = FALSE
  BY DEF LoopStart
<1>5. acc \in Acc
  BY <1>2, <1>3 DEF LoopStart, Acc
<1>6. q[1].seq .. (q[1].seq - 1) = {}
  BY <1>2
<1>7. 1..0 = {} /\ ~(0 > 0) /\ q[1].seq <= q[1].seq
  BY <1>2
<1> HIDE DEF acc
<1> QED
  BY <1>3, <1>4, <1>5, <1>6, <1>7 DEF Merged, acc

(* An iteration keeps it so.                                               *)
LEMMA MergedStep ==
    ASSUME NEW q \in Seq(Chunk), BySeq(q), NEW n \in Nat, n + 1 \in DOMAIN q,
           NEW acc, Merged(q, n, acc)
    PROVE  Merged(q, n + 1, Absorb(acc, q[n + 1]))
<1> DEFINE c == q[n + 1]
           e == acc.expected
           s == acc.assembled
           next == Absorb(acc, c)
           N == Len(q)
<1>1. /\ N \in Nat /\ DOMAIN q = 1..N /\ n + 1 \in 1..N /\ 1 \in 1..N
      /\ \A j \in 1..N : q[j] \in Chunk
  OBVIOUS
<1>2. /\ \A j \in 1..N : /\ q[j].seq \in Nat /\ End(q[j]) \in Nat
                         /\ q[j].seq <= End(q[j])
  <2>1. \A x \in Chunk : x.seq \in Nat /\ x.len \in Nat
    BY DEF Chunk
  <2> QED
    BY <1>1, <2>1 DEF End
<1>3. c.seq \in Nat /\ End(c) \in Nat /\ c.seq <= End(c)
  BY <1>1, <1>2
<1>4. /\ acc \in Acc /\ e \in Nat /\ s \in Seq(Nat) /\ acc.has_gap \in BOOLEAN
      /\ Ascending(s)
  BY DEF Merged, Acc
<1>5. \A j \in 1..(n + 1) : j = n + 1 \/ j \in 1..n
  OBVIOUS
<1>6. /\ 1..n \subseteq 1..(n + 1) /\ n + 1 \in 1..(n + 1) /\ n + 1 > 0 /\ n + 1 # 0
  OBVIOUS
<1>7. \A j \in DOMAIN q : j > n + 1 => c.seq <= q[j].seq
  BY <1>1 DEF BySeq
<1>8. q[1].seq <= e
  BY DEF Merged
<1>9. ASSUME c.seq <= e
      PROVE  c.seq .. (e - 1) \subseteq Range(s)
  <2>1. CASE n = 0
    BY <1>2, <1>4, <2>1 DEF Merged
  <2>2. CASE n > 0
    <3>1. n \in 1..N /\ n < n + 1
      BY <1>1, <2>2
    <3>2. q[n].seq <= c.seq /\ q[n].seq \in Nat
      BY <1>1, <1>2, <3>1 DEF BySeq
    <3>3. q[n].seq .. (e - 1) \subseteq Range(s)
      BY <2>2 DEF Merged
    <3> QED
      BY <1>3, <1>4, <3>2, <3>3
  <2> QED
    BY <2>1, <2>2
<1>10. CASE End(c) <= e
  <2>1. next = acc
    BY <1>10 DEF Absorb
  <2>2. c.seq <= e /\ c.seq .. (e - 1) \subseteq Range(s)
    BY <1>3, <1>4, <1>9, <1>10
  <2>3. BytesOf(c) \subseteq Range(s)
    BY <1>3, <1>4, <1>10, <2>2 DEF BytesOf
  <2> HIDE DEF next
  <2>4. \A b \in Range(s) : b < e /\ \E j \in 1..(n + 1) : b \in BytesOf(q[j])
    BY <1>6 DEF Merged
  <2>5. \A j \in 1..(n + 1) : BytesOf(q[j]) \subseteq Range(s) /\ End(q[j]) <= e
    BY <1>5, <1>10, <2>3 DEF Merged
  <2>6. (n + 1 > 0 => q[n + 1].seq .. (e - 1) \subseteq Range(s)) /\ (n + 1 = 0 => e = q[1].seq)
    BY <1>6, <2>2
  <2>7. Merged(q, n + 1, acc)
    BY <2>4, <2>5, <2>6 DEF Merged
  <2> QED
    BY <2>1, <2>7 DEF next
<1>11. CASE ~(End(c) <= e)
  <2> DEFINE gap == c.seq > e
             from == IF gap THEN c.seq ELSE e
             t == s \o Run(from, End(c))
  <2>1. /\ next.expected = End(c) /\ next.assembled = t
        /\ next.has_gap = (acc.has_gap \/ gap)
        /\ next = [expected |-> End(c), assembled |-> t, has_gap |-> (acc.has_gap \/ gap)]
    BY <1>11 DEF Absorb
  <2>2. /\ from \in Nat /\ from <= End(c) /\ e <= from /\ c.seq <= from
        /\ (gap => e < c.seq) /\ (~gap => c.seq <= e /\ from = e)
        /\ (gap => from = c.seq)
    BY <1>3, <1>4, <1>11
  <2>3. \A b \in Range(s) : b < e /\ b \in Nat
    <3>1. Range(s) \subseteq Nat
      BY <1>4 DEF Range
    <3> QED
      BY <3>1 DEF Merged
  <2>4. \A b \in Range(s) : b < from
    BY <1>4, <2>2, <2>3
  <2>5. /\ t \in Seq(Nat) /\ Ascending(t)
        /\ Range(t) = Range(s) \cup (from .. (End(c) - 1))
    <3> HIDE DEF from, gap
    <3> QED
      BY <1>3, <1>4, <2>2, <2>4, AppendRun
  <2>6. c.seq .. (End(c) - 1) \subseteq Range(t)
    <3>1. CASE gap
      BY <2>2, <2>5, <3>1
    <3>2. CASE ~gap
      <4>1. c.seq .. (e - 1) \subseteq Range(s)
        BY <1>9, <2>2, <3>2
      <4> QED
        BY <1>3, <1>4, <2>2, <2>5, <3>2, <4>1
    <3> QED
      BY <3>1, <3>2
  <2> HIDE DEF from, t, gap
  <2>7. next \in Acc
    <3>1. acc.has_gap \/ gap \in BOOLEAN
      BY <1>4 DEF gap
    <3> QED
      BY <1>3, <2>1, <2>5, <3>1 DEF Acc
  <2> HIDE DEF next
  <2>8. ASSUME NEW b \in Range(t)
        PROVE  b < End(c) /\ \E j \in 1..(n + 1) : b \in BytesOf(q[j])
    <3>1. CASE b \in Range(s)
      <4>1. \E j \in 1..n : b \in BytesOf(q[j])
        BY <3>1 DEF Merged
      <4>2. b < End(c)
        BY <1>3, <1>4, <1>11, <2>3, <3>1
      <4> QED
        BY <1>6, <4>1, <4>2
    <3>2. CASE b \in from .. (End(c) - 1)
      <4>1. b < End(c) /\ b \in BytesOf(c)
        BY <1>3, <2>2, <3>2 DEF BytesOf
      <4> QED
        BY <1>6, <4>1
    <3> QED
      BY <2>5, <3>1, <3>2
  <2>9. \A j \in 1..(n + 1) : BytesOf(q[j]) \subseteq Range(t) /\ End(q[j]) <= End(c)
    <3> TAKE j \in 1..(n + 1)
    <3>1. CASE j = n + 1
      BY <1>3, <2>6, <3>1 DEF BytesOf
    <3>2. CASE j \in 1..n
      <4>1. BytesOf(q[j]) \subseteq Range(s) /\ End(q[j]) <= e
        BY <3>2 DEF Merged
      <4>2. j \in 1..N
        BY <1>1, <3>2
      <4> QED
        BY <1>2, <1>3, <1>4, <1>11, <2>5, <4>1, <4>2
    <3> QED
      BY <1>5, <3>1, <3>2
  <2>10. q[1].seq <= End(c)
    BY <1>1, <1>2, <1>3, <1>4, <1>8, <1>11
  <2>11. ASSUME ~next.has_gap
         PROVE  q[1].seq .. (End(c) - 1) \subseteq Range(t)
    <3>1. ~acc.has_gap /\ ~gap
      BY <2>1, <2>11, Zenon
    <3>2. q[1].seq .. (e - 1) \subseteq Range(s)
      BY <3>1 DEF Merged
    <3>3. from = e /\ q[1].seq \in Nat
      BY <1>1, <1>2, <2>2, <3>1
    <3> QED
      BY <1>3, <1>4, <2>5, <3>2, <3>3
  <2>12. ASSUME gap
         PROVE  \E d \in DOMAIN q : \E k \in q[1].seq .. (End(q[d]) - 1) :
                    \A j \in DOMAIN q : k \notin BytesOf(q[j])
    <3>1. e < c.seq
      BY <2>2, <2>12
    <3>2. \A j \in DOMAIN q : e \notin BytesOf(q[j])
      <4> SUFFICES ASSUME NEW j \in 1..N PROVE e \notin BytesOf(q[j])
        BY <1>1
      <4>1. q[j].seq \in Nat /\ End(q[j]) \in Nat
        BY <1>2
      <4>2. CASE j \in 1..n
        <5>1. End(q[j]) <= e
          BY <4>2 DEF Merged
        <5> QED
          BY <1>4, <4>1, <5>1 DEF BytesOf
      <4>3. CASE j = n + 1
        BY <1>3, <1>4, <3>1, <4>3 DEF BytesOf
      <4>4. CASE j > n + 1
        <5>1. c.seq <= q[j].seq
          BY <1>1, <1>7, <4>4
        <5> QED
          BY <1>3, <1>4, <3>1, <4>1, <5>1 DEF BytesOf
      <4> QED
        BY <4>2, <4>3, <4>4
    <3>3. e \in q[1].seq .. (End(q[n + 1]) - 1)
      BY <1>1, <1>2, <1>3, <1>4, <1>8, <3>1
    <3> QED
      BY <1>1, <3>2, <3>3
  <2>13. next.has_gap => \E d \in DOMAIN q : \E k \in q[1].seq .. (End(q[d]) - 1) :
                             \A j \in DOMAIN q : k \notin BytesOf(q[j])
    <3>1. next.has_gap => acc.has_gap \/ gap
      BY <2>1, Zenon
    <3>2. acc.has_gap => \E d \in DOMAIN q : \E k \in q[1].seq .. (End(q[d]) - 1) :
                             \A j \in DOMAIN q : k \notin BytesOf(q[j])
      BY DEF Merged
    <3> QED
      BY <2>12, <3>1, <3>2, Zenon
  <2>14. q[n + 1].seq .. (next.expected - 1) \subseteq Range(t)
    BY <2>1, <2>6
  <2>15. /\ Ascending(next.assembled)
         /\ \A b \in Range(next.assembled) :
                b < next.expected /\ \E j \in 1..(n + 1) : b \in BytesOf(q[j])
         /\ \A j \in 1..(n + 1) : /\ BytesOf(q[j]) \subseteq Range(next.assembled)
                                  /\ End(q[j]) <= next.expected
         /\ q[n + 1].seq .. (next.expected - 1) \subseteq Range(next.assembled)
         /\ q[1].seq <= next.expected
         /\ ~next.has_gap => q[1].seq .. (next.expected - 1) \subseteq Range(next.assembled)
    BY <2>1, <2>5, <2>8, <2>9, <2>10, <2>11, <2>14
  <2> QED
    BY <1>6, <2>7, <2>13, <2>15 DEF Merged, next
<1> QED
  BY <1>10, <1>11

(* Absorbed is the function its recursion describes.                       *)
LEMMA AbsorbedRecursion ==
    ASSUME NEW q \in Seq(Chunk), q # <<>>, BySeq(q)
    PROVE  /\ Absorbed(q)[0] = LoopStart(q)
           /\ \A n \in 1..Len(q) : Absorbed(q)[n] = Absorb(Absorbed(q)[n - 1], q[n])
<1> DEFINE N == Len(q)
           V == {r \in Acc \X (0..N) : Merged(q, r[2], r[1])}
           After(r) == IF r[2] < N THEN <<Absorb(r[1], q[r[2] + 1]), r[2] + 1>> ELSE r
           base == <<LoopStart(q), 0>>
           step == [p \in V \X (1..N) |-> After(p[1])]
           Follows(g) == g = [n \in 0..N |->
                                 IF n = 0 THEN LoopStart(q) ELSE Absorb(g[n - 1], q[n])]
           merging == CHOOSE g : Follows(g)
<1>1. Absorbed(q) = merging
  BY DEF Absorbed
<1>2. N \in Nat /\ N > 0 /\ DOMAIN q = 1..N /\ \A n \in 1..N : q[n] \in Chunk
  OBVIOUS
<1>3. base \in V
  <2>1. Merged(q, 0, LoopStart(q))
    BY MergedAtStart
  <2>2. LoopStart(q) \in Acc /\ 0 \in 0..N
    BY <1>2, <2>1 DEF Merged
  <2> QED
    BY <2>1, <2>2
<1>4. \A r \in V : After(r) \in V
  <2> TAKE r \in V
  <2>1. CASE r[2] < N
    <3>1. r[2] \in Nat /\ r[2] + 1 \in DOMAIN q /\ r[2] + 1 \in 0..N /\ Merged(q, r[2], r[1])
      BY <1>2, <2>1
    <3>2. Merged(q, r[2] + 1, Absorb(r[1], q[r[2] + 1]))
      BY <3>1, MergedStep
    <3>3. Absorb(r[1], q[r[2] + 1]) \in Acc
      BY <3>2 DEF Merged
    <3> QED
      BY <2>1, <3>1, <3>2, <3>3
  <2>2. CASE ~(r[2] < N)
    BY <2>2
  <2> QED
    BY <2>1, <2>2
<1>5. step \in [V \X (1..N) -> V]
  <2> HIDE DEF V, After, N
  <2> QED
    BY <1>4
<1>6. PICK h \in [0..N -> V] : Unfolds(h, base, step, N)
  <2> HIDE DEF step, base, N, V
  <2> QED
    BY <1>2, <1>3, <1>5, RecursionOverInterval
<1>7. h[0] = base /\ \A n \in 1..N : h[n] = After(h[n - 1])
  <2>1. h[0] = base
    <3>1. 0 \in 0..N
      BY <1>2
    <3> HIDE DEF base, step, N, V
    <3>2. h[0] = IF 0 = 0 THEN base ELSE step[<<h[0 - 1], 0>>]
      BY <1>6, <3>1, Zenon DEF Unfolds
    <3> QED
      BY <3>2
  <2>2. ASSUME NEW n \in 1..N PROVE h[n] = After(h[n - 1])
    <3>1. n \in 0..N /\ n - 1 \in 0..N /\ n # 0
      BY <1>2
    <3>2. h[n] = step[<<h[n - 1], n>>]
      <4> HIDE DEF base, step
      <4> QED
        BY <1>6, <3>1 DEF Unfolds
    <3>3. h[n - 1] \in V
      BY <3>1
    <3> HIDE DEF V, After, N
    <3> QED
      BY <3>2, <3>3
  <2> QED
    BY <2>1, <2>2
<1>8. \A n \in 0..N : h[n][2] = n
  <2> DEFINE S == {n \in Nat : n <= N => h[n][2] = n}
  <2>1. 0 \in S
    BY <1>7
  <2>2. ASSUME NEW n \in Nat, n \in S PROVE n + 1 \in S
    <3> SUFFICES ASSUME n + 1 <= N PROVE h[n + 1][2] = n + 1
      OBVIOUS
    <3>1. h[n][2] = n /\ n + 1 \in 1..N /\ (n + 1) - 1 = n /\ n < N
      BY <1>2, <2>2
    <3>2. h[n + 1] = After(h[n])
      <4> HIDE DEF After
      <4> QED
        BY <1>7, <3>1
    <3> QED
      BY <3>1, <3>2
  <2>3. Nat \subseteq S
    <3> HIDE DEF S
    <3> QED
      BY <2>1, <2>2, InductionOverNat
  <2> QED
    BY <2>3
<1> DEFINE f == [n \in 0..N |-> h[n][1]]
<1>9. f[0] = LoopStart(q) /\ \A n \in 1..N : f[n] = Absorb(f[n - 1], q[n])
  <2>1. f[0] = LoopStart(q)
    BY <1>2, <1>7
  <2>2. ASSUME NEW n \in 1..N PROVE f[n] = Absorb(f[n - 1], q[n])
    <3>1. n \in 0..N /\ n - 1 \in 0..N /\ n - 1 < N /\ (n - 1) + 1 = n
      BY <1>2
    <3>2. h[n] = After(h[n - 1]) /\ h[n - 1][2] = n - 1
      BY <1>7, <1>8, <3>1
    <3>3. h[n] = <<Absorb(h[n - 1][1], q[n]), n>>
      BY <3>1, <3>2
    <3> QED
      BY <3>1, <3>3
  <2> QED
    BY <2>1, <2>2
<1>10. Follows(f)
  <2>1. f = [n \in 0..N |-> f[n]]
    OBVIOUS
  <2>2. \A n \in 0..N : n # 0 => n \in 1..N
    BY <1>2
  <2> HIDE DEF f, N
  <2> QED
    BY <1>9, <2>1, <2>2
<1>11. Follows(merging)
  <2> HIDE DEF f
  <2> QED
    BY <1>10
<1>12. merging[0] = LoopStart(q) /\ \A n \in 1..N : merging[n] = Absorb(merging[n - 1], q[n])
  <2> HIDE DEF merging
  <2>1. merging = [n \in 0..N |->
                      IF n = 0 THEN LoopStart(q) ELSE Absorb(merging[n - 1], q[n])]
    BY <1>11
  <2> HIDE DEF Follows, N
  <2>2. ASSUME NEW n \in 0..N
        PROVE  merging[n] = IF n = 0 THEN LoopStart(q) ELSE Absorb(merging[n - 1], q[n])
    BY <2>1
  <2>3. 0 \in 0..N /\ \A n \in 1..N : n \in 0..N /\ n # 0
    BY <1>2
  <2> QED
    BY <2>2, <2>3, Zenon
<1> QED
  BY <1>1, <1>12

(* So when the loop is over every chunk is merged.                         *)
LEMMA MergedAtEnd ==
    ASSUME NEW q \in Seq(Chunk), q # <<>>, BySeq(q)
    PROVE  Merged(q, Len(q), Absorbed(q)[Len(q)])
<1> DEFINE N == Len(q)
           f == Absorbed(q)
           S == {n \in Nat : n <= N => Merged(q, n, f[n])}
<1>1. /\ N \in Nat /\ DOMAIN q = 1..N
      /\ f[0] = LoopStart(q) /\ \A n \in 1..N : f[n] = Absorb(f[n - 1], q[n])
  BY AbsorbedRecursion
<1> HIDE DEF f, N
<1>2. 0 \in S
  BY <1>1, MergedAtStart
<1>3. ASSUME NEW n \in Nat, n \in S PROVE n + 1 \in S
  <2> SUFFICES ASSUME n + 1 <= N PROVE Merged(q, n + 1, f[n + 1])
    OBVIOUS
  <2>1. Merged(q, n, f[n]) /\ n + 1 \in DOMAIN q /\ n + 1 \in 1..N /\ (n + 1) - 1 = n
    BY <1>1, <1>3
  <2>2. f[n + 1] = Absorb(f[n], q[n + 1])
    BY <1>1, <2>1
  <2> QED
    BY <2>1, <2>2, MergedStep
<1>4. N \in S
  <2> HIDE DEF S
  <2> QED
    BY <1>1, <1>2, <1>3, InductionOverNat
<1> QED
  BY <1>1, <1>4 DEF f, N

(* What _reassemble_direction returns, for any chunks in any order: the    *)
(* bytes they carry, each once and in order, and whether one is missing.   *)
LEMMA ReassembledDirection ==
    ASSUME NEW chunks \in Seq(Chunk)
    PROVE  LET r == ReassembleDirection(chunks)
           IN  /\ r \in [assembled : Seq(Nat), has_gap : BOOLEAN]
               /\ Ascending(r.assembled)
               /\ Range(r.assembled) = Carried(chunks)
               /\ r.has_gap <=> Hole(chunks)
<1> DEFINE q == InSeqOrder(chunks)
           acc == Absorbed(q)[Len(q)]
           r == ReassembleDirection(chunks)
           Full == {k \in DOMAIN chunks : HasPayload(chunks[k])}
<1>1. /\ q \in Seq(Chunk) /\ BySeq(q)
      /\ Range(q) = {chunks[j] : j \in Full}
  BY SortedIsPayload
<1>2. \A j \in DOMAIN chunks : chunks[j] \in Chunk
  OBVIOUS
<1>3. \A j \in DOMAIN chunks : BytesOf(chunks[j]) # {} => j \in Full
  <2> TAKE j \in DOMAIN chunks
  <2>1. chunks[j].seq \in Nat /\ chunks[j].len \in Nat
    BY <1>2 DEF Chunk
  <2> QED
    BY <2>1 DEF BytesOf, End, HasPayload
<1> HIDE DEF q
<1>4. \A k : k \in Carried(chunks) <=> \E j \in DOMAIN q : k \in BytesOf(q[j])
  <2> TAKE k
  <2>1. ASSUME k \in Carried(chunks) PROVE \E j \in DOMAIN q : k \in BytesOf(q[j])
    <3>1. PICK m \in DOMAIN chunks : k \in BytesOf(chunks[m])
      BY <2>1 DEF Carried
    <3>2. chunks[m] \in Range(q)
      BY <1>1, <1>3, <3>1
    <3> QED
      BY <3>1, <3>2 DEF Range
  <2>2. ASSUME NEW j \in DOMAIN q, k \in BytesOf(q[j]) PROVE k \in Carried(chunks)
    <3>1. q[j] \in Range(q)
      BY DEF Range
    <3>2. PICK m \in Full : q[j] = chunks[m]
      BY <1>1, <3>1
    <3> QED
      BY <2>2, <3>2 DEF Carried
  <2> QED
    BY <2>1, <2>2
<1>5. CASE q = <<>>
  <2>1. r = [assembled |-> <<>>, has_gap |-> FALSE]
    BY <1>5 DEF ReassembleDirection, q
  <2>2. Carried(chunks) = {} /\ Range(<<>>) = {}
    BY <1>4, <1>5 DEF Range
  <2>3. ~Hole(chunks)
    <3>1. Range(q) = {}
      BY <1>5 DEF Range
    <3>2. \A j \in DOMAIN chunks : ~HasPayload(chunks[j])
      BY <1>1, <3>1
    <3> QED
      BY <3>2 DEF Hole
  <2>4. <<>> \in Seq(Nat) /\ Ascending(<<>>)
    BY DEF Ascending
  <2> HIDE DEF r
  <2>5. r \in [assembled : Seq(Nat), has_gap : BOOLEAN] /\ r.assembled = <<>> /\ r.has_gap = FALSE
    BY <2>1, <2>4
  <2> QED
    BY <2>2, <2>3, <2>4, <2>5 DEF r
<1>6. CASE q # <<>>
  <2>1. Merged(q, Len(q), acc)
    BY <1>1, <1>6, MergedAtEnd
  <2>2. r = [assembled |-> acc.assembled, has_gap |-> acc.has_gap]
    BY <1>6 DEF ReassembleDirection, q
  <2> HIDE DEF acc, r
  <2>3. acc \in Acc /\ acc.assembled \in Seq(Nat) /\ acc.has_gap \in BOOLEAN /\ acc.expected \in Nat
    BY <2>1 DEF Merged, Acc
  <2>4. r \in [assembled : Seq(Nat), has_gap : BOOLEAN]
    BY <2>2, <2>3
  <2>5. r.assembled = acc.assembled /\ r.has_gap = acc.has_gap
    BY <2>2
  <2>6. Ascending(acc.assembled)
    BY <2>1 DEF Merged
  <2>7. Range(acc.assembled) = Carried(chunks)
    <3>1. DOMAIN q = 1..Len(q)
      BY <1>1
    <3>2. \A b \in Range(acc.assembled) : \E j \in DOMAIN q : b \in BytesOf(q[j])
      BY <2>1, <3>1 DEF Merged
    <3>3. \A j \in DOMAIN q : BytesOf(q[j]) \subseteq Range(acc.assembled)
      BY <2>1, <3>1 DEF Merged
    <3> QED
      BY <1>4, <3>2, <3>3
  <2>8. \A k : (\A j \in DOMAIN q : k \notin BytesOf(q[j]))
                 <=> (\A j \in DOMAIN chunks : k \notin BytesOf(chunks[j]))
    BY <1>4 DEF Carried
  <2>9. ASSUME acc.has_gap PROVE Hole(chunks)
    <3>1. PICK d \in DOMAIN q : \E k \in q[1].seq .. (End(q[d]) - 1) :
              \A j \in DOMAIN q : k \notin BytesOf(q[j])
      BY <2>1, <2>9 DEF Merged
    <3>2. PICK k \in q[1].seq .. (End(q[d]) - 1) : \A j \in DOMAIN q : k \notin BytesOf(q[j])
      BY <3>1
    <3>3. 1 \in DOMAIN q
      BY <1>1, <1>6
    <3>4. q[1] \in Range(q) /\ q[d] \in Range(q)
      BY <3>3 DEF Range
    <3>5. PICK m \in Full, n \in Full : q[1] = chunks[m] /\ q[d] = chunks[n]
      BY <1>1, <3>4
    <3> QED
      BY <2>8, <3>2, <3>5 DEF Hole
  <2>10. ASSUME Hole(chunks) PROVE acc.has_gap
    <3>1. PICK c \in {chunks[j] : j \in DOMAIN chunks}, d \in {chunks[j] : j \in DOMAIN chunks} :
              /\ HasPayload(c) /\ HasPayload(d)
              /\ \E k \in c.seq .. (End(d) - 1) :
                     \A j \in DOMAIN chunks : k \notin BytesOf(chunks[j])
      BY <2>10 DEF Hole
    <3>2. PICK k \in c.seq .. (End(d) - 1) : \A j \in DOMAIN chunks : k \notin BytesOf(chunks[j])
      BY <3>1
    <3>3. c \in Range(q) /\ d \in Range(q)
      BY <1>1, <3>1
    <3>4. PICK a \in DOMAIN q, b \in DOMAIN q : q[a] = c /\ q[b] = d
      BY <3>3 DEF Range
    <3>5. /\ 1 \in DOMAIN q /\ (a = 1 \/ 1 < a) /\ DOMAIN q = 1..Len(q)
          /\ q[1] \in Chunk /\ q[a] \in Chunk /\ q[b] \in Chunk
      BY <1>1, <1>6
    <3>6. q[1].seq \in Nat /\ q[a].seq \in Nat /\ End(q[b]) \in Nat
      <4>1. \A x \in Chunk : x.seq \in Nat /\ x.len \in Nat
        BY DEF Chunk
      <4> QED
        BY <3>5, <4>1 DEF End
    <3>7. q[1].seq <= q[a].seq
      BY <1>1, <3>5, <3>6 DEF BySeq
    <3>8. End(q[b]) <= acc.expected
      BY <2>1, <3>5 DEF Merged
    <3>9. k \in q[1].seq .. (acc.expected - 1)
      BY <2>3, <3>2, <3>4, <3>6, <3>7, <3>8
    <3>10. k \notin Range(acc.assembled)
      BY <2>7, <3>2 DEF Carried
    <3> QED
      BY <2>1, <3>9, <3>10 DEF Merged
  <2>11. acc.has_gap <=> Hole(chunks)
    BY <2>9, <2>10
  <2> QED
    BY <2>4, <2>5, <2>6, <2>7, <2>11 DEF r
<1> QED
  BY <1>5, <1>6

(* An ascending sequence is determined by its elements.                    *)
LEMMA AscendingUnique ==
    ASSUME NEW s \in Seq(Nat), NEW t \in Seq(Nat), Ascending(s), Ascending(t),
           Range(s) = Range(t)
    PROVE  s = t
<1> DEFINE M == Len(s)
           N == Len(t)
           S == {n \in Nat : \A k \in 1..n : k <= M /\ k <= N => s[k] = t[k]}
<1>1. /\ M \in Nat /\ N \in Nat /\ DOMAIN s = 1..M /\ DOMAIN t = 1..N
      /\ (\A k \in 1..M : s[k] \in Nat) /\ \A k \in 1..N : t[k] \in Nat
  OBVIOUS
<1>2. /\ \A a \in 1..M : \E b \in 1..N : t[b] = s[a]
      /\ \A b \in 1..N : \E a \in 1..M : s[a] = t[b]
  BY <1>1 DEF Range
<1>3. /\ \A a, b \in 1..M : a < b => s[a] < s[b]
      /\ \A a, b \in 1..N : a < b => t[a] < t[b]
  BY <1>1 DEF Ascending
<1> HIDE DEF M, N
<1>4. 0 \in S
  OBVIOUS
<1>5. ASSUME NEW n \in Nat, n \in S PROVE n + 1 \in S
  <2>1. \A k \in 1..n : k <= M /\ k <= N => s[k] = t[k]
    BY <1>5
  <2>2. ASSUME n + 1 <= M, n + 1 <= N PROVE s[n + 1] = t[n + 1]
    <3>1. n + 1 \in 1..M /\ n + 1 \in 1..N
      BY <1>1, <2>2
    <3>2. PICK b \in 1..N : t[b] = s[n + 1]
      BY <1>2, <3>1
    <3>3. PICK a \in 1..M : s[a] = t[n + 1]
      BY <1>2, <3>1
    <3>4. ~(b < n + 1)
      <4> SUFFICES ASSUME b < n + 1 PROVE FALSE
        OBVIOUS
      <4>1. b \in 1..n /\ b \in 1..M
        BY <1>1, <3>1
      <4>2. s[b] = t[b]
        BY <1>1, <2>1, <4>1
      <4>3. s[b] < s[n + 1]
        BY <1>3, <3>1, <4>1
      <4> QED
        BY <1>1, <3>1, <3>2, <4>1, <4>2, <4>3
    <3>5. ~(a < n + 1)
      <4> SUFFICES ASSUME a < n + 1 PROVE FALSE
        OBVIOUS
      <4>1. a \in 1..n /\ a \in 1..N
        BY <1>1, <3>1
      <4>2. s[a] = t[a]
        BY <1>1, <2>1, <4>1
      <4>3. t[a] < t[n + 1]
        BY <1>3, <3>1, <4>1
      <4> QED
        BY <1>1, <3>1, <3>3, <4>1, <4>2, <4>3
    <3>6. b = n + 1 \/ n + 1 < b
      BY <1>1, <3>4
    <3>7. a = n + 1 \/ n + 1 < a
      BY <1>1, <3>5
    <3>8. t[n + 1] <= t[b]
      BY <1>1, <1>3, <3>1, <3>6
    <3>9. s[n + 1] <= s[a]
      BY <1>1, <1>3, <3>1, <3>7
    <3> QED
      BY <1>1, <3>1, <3>2, <3>3, <3>8, <3>9
  <2>3. \A k \in 1..(n + 1) : k \in 1..n \/ k = n + 1
    OBVIOUS
  <2> QED
    BY <2>1, <2>2, <2>3
<1>6. Nat \subseteq S
  <2> HIDE DEF S
  <2> QED
    BY <1>4, <1>5, InductionOverNat
<1>7. \A k \in Nat \ {0} : k <= M /\ k <= N => s[k] = t[k]
  <2> TAKE k \in Nat \ {0}
  <2>1. k \in S /\ k \in 1..k
    BY <1>6
  <2> QED
    BY <2>1
<1>8. M = N
  <2>1. ~(M < N)
    <3> SUFFICES ASSUME M < N PROVE FALSE
      OBVIOUS
    <3>1. M + 1 \in 1..N
      BY <1>1
    <3>2. PICK a \in 1..M : s[a] = t[M + 1]
      BY <1>2, <3>1
    <3>3. s[a] = t[a] /\ a \in 1..N /\ a < M + 1
      BY <1>1, <1>7
    <3>4. t[a] < t[M + 1]
      BY <1>1, <1>3, <3>1, <3>3
    <3> QED
      BY <1>1, <3>1, <3>2, <3>3, <3>4
  <2>2. ~(N < M)
    <3> SUFFICES ASSUME N < M PROVE FALSE
      OBVIOUS
    <3>1. N + 1 \in 1..M
      BY <1>1
    <3>2. PICK a \in 1..N : t[a] = s[N + 1]
      BY <1>2, <3>1
    <3>3. s[a] = t[a] /\ a \in 1..M /\ a < N + 1
      BY <1>1, <1>7
    <3>4. s[a] < s[N + 1]
      BY <1>1, <1>3, <3>1, <3>3
    <3> QED
      BY <1>1, <3>1, <3>2, <3>3, <3>4
  <2> QED
    BY <1>1, <2>1, <2>2
<1> QED
  BY <1>1, <1>7, <1>8 DEF M, N
-----------------------------------------------------------------------------
(* The rules of SessionRules.                                              *)
Severities == {"INFO", "LOW", "MEDIUM", "HIGH", "CRITICAL"}
RuleNumbers == 1..10
RuleIds == {"CRYPTO-000", "CRYPTO-001", "CRYPTO-002", "CRYPTO-003", "CRYPTO-004",
            "CRYPTO-005", "CRYPTO-006", "CRYPTO-007", "CRYPTO-008", "CRYPTO-009"}
RuleFinding == [id : RuleIds, severity : Severities]

(* The finding a rule gives.                                               *)
Given(rule) == [id |-> rule.id, severity |-> rule.severity]

LEMMA RulesSequence ==
    ASSUME NEW s
    PROVE  /\ Rules(s) \in Seq({Rules(s)[n] : n \in RuleNumbers})
           /\ DOMAIN Rules(s) = RuleNumbers /\ Len(Rules(s)) = 10
           /\ \A n \in RuleNumbers : Given(Rules(s)[n]) \in RuleFinding
<1>1. Len(Rules(s)) = 10 /\ DOMAIN Rules(s) = 1..10
  BY DEF Rules
<1>2. \A n \in RuleNumbers : Rules(s)[n].id \in RuleIds /\ Rules(s)[n].severity \in Severities
  <2>1. /\ Rules(s)[1].id \in RuleIds /\ Rules(s)[1].severity \in Severities
        /\ Rules(s)[2].id \in RuleIds /\ Rules(s)[2].severity \in Severities
        /\ Rules(s)[3].id \in RuleIds /\ Rules(s)[3].severity \in Severities
        /\ Rules(s)[4].id \in RuleIds /\ Rules(s)[4].severity \in Severities
        /\ Rules(s)[5].id \in RuleIds /\ Rules(s)[5].severity \in Severities
    BY DEF Rules, RuleIds, Severities
  <2>2. /\ Rules(s)[6].id \in RuleIds /\ Rules(s)[6].severity \in Severities
        /\ Rules(s)[7].id \in RuleIds /\ Rules(s)[7].severity \in Severities
        /\ Rules(s)[8].id \in RuleIds /\ Rules(s)[8].severity \in Severities
        /\ Rules(s)[9].id \in RuleIds /\ Rules(s)[9].severity \in Severities
        /\ Rules(s)[10].id \in RuleIds /\ Rules(s)[10].severity \in Severities
    BY DEF Rules, RuleIds, Severities
  <2>3. \A n \in RuleNumbers : n \in {1, 2, 3, 4, 5, 6, 7, 8, 9, 10}
    BY DEF RuleNumbers
  <2> QED
    BY <2>1, <2>2, <2>3, Zenon
<1>3. \A n \in RuleNumbers : Given(Rules(s)[n]) \in RuleFinding
  BY <1>2 DEF RuleFinding, Given
<1>4. Rules(s) \in Seq({Rules(s)[n] : n \in RuleNumbers})
  <2> DEFINE X == {Rules(s)[n] : n \in RuleNumbers}
  <2>1. Rules(s) = [n \in 1..10 |-> Rules(s)[n]]
    BY DEF Rules
  <2>2. Rules(s) \in [1..10 -> X]
    BY <2>1 DEF RuleNumbers
  <2>3. Rules(s) \in Seq(X)
    <3> HIDE DEF X
    <3> QED
      BY <2>2, SequenceOf
  <2> QED
    BY <2>3
<1> QED
  BY <1>1, <1>3, <1>4 DEF RuleNumbers

(* A session has a finding exactly if one of the rules gives it.           *)
LEMMA FindingsOfRules ==
    ASSUME NEW s
    PROVE  /\ Findings(s) \in Seq(RuleFinding)
           /\ \A n \in RuleNumbers : Rules(s)[n].holds =>
                  \E m \in DOMAIN Findings(s) : Findings(s)[m] = Given(Rules(s)[n])
           /\ \A m \in DOMAIN Findings(s) : \E n \in RuleNumbers :
                  Rules(s)[n].holds /\ Findings(s)[m] = Given(Rules(s)[n])
<1> DEFINE rules == Rules(s)
           I == {n \in DOMAIN rules : rules[n].holds}
           held == Picked(rules, I)
           X == {rules[n] : n \in RuleNumbers}
<1>1. /\ rules \in Seq(X) /\ DOMAIN rules = RuleNumbers
      /\ \A n \in RuleNumbers : Given(rules[n]) \in RuleFinding
  BY RulesSequence
<1>2. /\ held \in Seq(X)
      /\ \A m \in DOMAIN held : \E n \in DOMAIN rules : n \in I /\ held[m] = rules[n]
      /\ \A n \in DOMAIN rules : n \in I => \E m \in DOMAIN held : held[m] = rules[n]
  <2> HIDE DEF rules, I, X
  <2> QED
    BY <1>1, PickedElements
<1>3. Findings(s) = [m \in DOMAIN held |-> Given(held[m])]
  BY DEF Findings, Given
<1>4. DOMAIN Findings(s) = DOMAIN held
      /\ \A m \in DOMAIN held : Findings(s)[m] = Given(held[m])
  BY <1>3
<1>5. \A n \in RuleNumbers : n \in I <=> rules[n].holds
  BY <1>1
<1> HIDE DEF rules, I, held
<1>6. Findings(s) \in Seq(RuleFinding)
  <2>1. \A m \in DOMAIN held : Given(held[m]) \in RuleFinding
    BY <1>1, <1>2
  <2>2. DOMAIN held = 1..Len(held) /\ Len(held) \in Nat
    BY <1>2
  <2> QED
    BY <1>3, <2>1, <2>2
<1> QED
  BY <1>1, <1>2, <1>4, <1>5, <1>6 DEF rules

(* Which rule gives which finding: no two rules share an id.               *)
LEMMA FindingOfRule ==
    ASSUME NEW s
    PROVE  /\ HasFinding(s, "CRYPTO-000") <=> NotConclusive(s)
           /\ HasFinding(s, "CRYPTO-001") <=> NoEncryption(s)
           /\ HasFinding(s, "CRYPTO-002") <=> (HasTls(s) /\ IsDeprecatedVersion(s.tls_session.tls_version))
           /\ HasFinding(s, "CRYPTO-003") <=> (HasTls(s) /\ IsWeakCipherSuite(s.tls_session.cipher_suite))
           /\ HasFinding(s, "CRYPTO-004") <=> (HasTls(s) /\ ~s.tls_session.forward_secrecy)
           /\ HasFinding(s, "CRYPTO-005") <=> (\E c \in Certificates(s) : c.expired)
           /\ HasFinding(s, "CRYPTO-006") <=> (\E c \in Certificates(s) : IsSelfSigned(c))
           /\ HasFinding(s, "CRYPTO-009") <=> BrokenChain(s)
           /\ HasFinding(s, "CRYPTO-007") <=> OfferUnused(s)
<1> DEFINE rules == Rules(s)
           Gives(id) == \E n \in RuleNumbers : rules[n].holds /\ rules[n].id = id
<1>1. \A id : HasFinding(s, id) <=> Gives(id)
  BY FindingsOfRules DEF HasFinding, Given
<1>2. /\ rules[1].id = "CRYPTO-000" /\ rules[2].id = "CRYPTO-001" /\ rules[3].id = "CRYPTO-002"
      /\ rules[4].id = "CRYPTO-003" /\ rules[5].id = "CRYPTO-004" /\ rules[6].id = "CRYPTO-005"
      /\ rules[7].id = "CRYPTO-008" /\ rules[8].id = "CRYPTO-006" /\ rules[9].id = "CRYPTO-009"
      /\ rules[10].id = "CRYPTO-007"
  BY DEF Rules
<1>3. \A id : Gives(id) <=> \E n \in {1, 2, 3, 4, 5, 6, 7, 8, 9, 10} :
                                 rules[n].holds /\ rules[n].id = id
  BY DEF RuleNumbers
<1>4. /\ Gives("CRYPTO-000") <=> rules[1].holds
      /\ Gives("CRYPTO-001") <=> rules[2].holds
      /\ Gives("CRYPTO-002") <=> rules[3].holds
      /\ Gives("CRYPTO-003") <=> rules[4].holds
      /\ Gives("CRYPTO-004") <=> rules[5].holds
      /\ Gives("CRYPTO-005") <=> rules[6].holds
      /\ Gives("CRYPTO-006") <=> rules[8].holds
      /\ Gives("CRYPTO-009") <=> rules[9].holds
      /\ Gives("CRYPTO-007") <=> rules[10].holds
  <2> HIDE DEF rules, Gives
  <2> QED
    BY <1>2, <1>3
<1>5. /\ rules[1].holds <=> NotConclusive(s)
      /\ rules[2].holds <=> NoEncryption(s)
      /\ rules[3].holds <=> (HasTls(s) /\ IsDeprecatedVersion(s.tls_session.tls_version))
      /\ rules[4].holds <=> (HasTls(s) /\ IsWeakCipherSuite(s.tls_session.cipher_suite))
      /\ rules[5].holds <=> (HasTls(s) /\ ~s.tls_session.forward_secrecy)
      /\ rules[6].holds <=> (\E c \in Certificates(s) : c.expired)
      /\ rules[8].holds <=> (\E c \in Certificates(s) : IsSelfSigned(c))
      /\ rules[9].holds <=> BrokenChain(s)
      /\ rules[10].holds <=> OfferUnused(s)
  BY DEF Rules
<1> QED
  BY <1>1, <1>4, <1>5

(* The penalties of any findings add up to a number,                       *)
LEMMA LostIsNumber ==
    ASSUME NEW X, NEW fs \in Seq(X), \A f \in X : f.severity \in Severities
    PROVE  Lost(fs) \in Nat
<1> DEFINE N == Len(fs)
           step == [p \in Nat \X (1..N) |-> p[1] + Penalty[fs[p[2]].severity]]
           Follows(g) == g = [n \in 0..N |->
                                 IF n = 0 THEN 0 ELSE g[n - 1] + Penalty[fs[n].severity]]
           lost == CHOOSE g : Follows(g)
<1>1. Lost(fs) = lost[N]
  BY DEF Lost
<1>2. N \in Nat /\ \A n \in 1..N : Penalty[fs[n].severity] \in Nat
  <2>1. \A n \in 1..N : fs[n].severity \in Severities
    OBVIOUS
  <2>2. \A v \in Severities : Penalty[v] \in Nat
    BY DEF Penalty, Severities
  <2> QED
    BY <2>1, <2>2
<1>3. step \in [Nat \X (1..N) -> Nat]
  BY <1>2
<1>4. PICK f \in [0..N -> Nat] : Unfolds(f, 0, step, N)
  <2> HIDE DEF step, N
  <2> QED
    BY <1>2, <1>3, RecursionOverInterval
<1>5. \A n \in 1..N : step[<<f[n - 1], n>>] = f[n - 1] + Penalty[fs[n].severity]
  <2> SUFFICES ASSUME NEW n \in 1..N
               PROVE  step[<<f[n - 1], n>>] = f[n - 1] + Penalty[fs[n].severity]
    OBVIOUS
  <2>1. n - 1 \in 0..N
    BY <1>2
  <2>2. f[n - 1] \in Nat
    BY <2>1
  <2> QED
    BY <2>2
<1>6. Follows(f)
  <2>1. \A n \in 0..N : f[n] = IF n = 0 THEN 0 ELSE f[n - 1] + Penalty[fs[n].severity]
    <3> HIDE DEF step, N
    <3>1. \A n \in 0..N : n # 0 => n \in 1..N
      BY <1>2
    <3>2. \A n \in 0..N : f[n] = IF n = 0 THEN 0 ELSE step[<<f[n - 1], n>>]
      BY <1>4 DEF Unfolds
    <3> QED
      BY <1>5, <3>1, <3>2, Zenon
  <2>2. f = [n \in 0..N |-> f[n]]
    OBVIOUS
  <2> QED
    BY <2>1, <2>2
<1>7. Follows(lost)
  BY <1>6
<1>8. /\ lost[0] = 0
      /\ \A n \in 1..N : lost[n] = lost[n - 1] + Penalty[fs[n].severity]
  <2> HIDE DEF lost, N
  <2>1. ASSUME NEW n \in 0..N
        PROVE  lost[n] = IF n = 0 THEN 0 ELSE lost[n - 1] + Penalty[fs[n].severity]
    BY <1>7
  <2>2. 0 \in 0..N /\ \A n \in 1..N : n \in 0..N /\ n # 0
    BY <1>2
  <2> QED
    BY <2>1, <2>2, Zenon
<1>9. lost[N] \in Nat
  <2> HIDE DEF lost
  <2> DEFINE S == {n \in Nat : n <= N => lost[n] \in Nat}
  <2>1. 0 \in S
    BY <1>8
  <2>2. ASSUME NEW n \in Nat, n \in S PROVE n + 1 \in S
    <3> SUFFICES ASSUME n + 1 <= N PROVE lost[n + 1] \in Nat
      OBVIOUS
    <3> HIDE DEF N
    <3>1. lost[n] \in Nat /\ n + 1 \in 1..N /\ (n + 1) - 1 = n
      BY <1>2, <2>2
    <3>2. Penalty[fs[n + 1].severity] \in Nat
      BY <1>2, <3>1
    <3>3. lost[n + 1] = lost[n] + Penalty[fs[n + 1].severity]
      BY <1>8, <3>1
    <3> QED
      BY <3>1, <3>2, <3>3
  <2>3. Nat \subseteq S
    <3> HIDE DEF S
    <3> QED
      BY <2>1, <2>2, InductionOverNat
  <2> QED
    BY <1>2, <2>3
<1> QED
  BY <1>1, <1>9

(* so the score is one from 0 to 100.                                      *)
LEMMA ScoreRange ==
    ASSUME NEW X, NEW fs \in Seq(X), \A f \in X : f.severity \in Severities
    PROVE  Score(fs) \in 0..100
<1>1. Lost(fs) \in Nat
  BY LostIsNumber
<1>2. \A n \in Nat : (IF n > 100 THEN 0 ELSE 100 - n) \in 0..100
  OBVIOUS
<1> QED
  BY <1>1, <1>2, Zenon DEF Score

(* The headline is the worst severity there is, INFO if there is none.     *)
LEMMA HeadlineIsWorst ==
    ASSUME NEW fs
    PROVE  LET Has(v) == \E n \in DOMAIN fs : fs[n].severity = v
           IN  OverallSeverity(fs) = IF Has("CRITICAL") THEN "CRITICAL"
                                     ELSE IF Has("HIGH") THEN "HIGH"
                                     ELSE IF Has("MEDIUM") THEN "MEDIUM"
                                     ELSE IF Has("LOW") THEN "LOW" ELSE "INFO"
<1> DEFINE Has(v) == \E n \in DOMAIN fs : fs[n].severity = v
           present == {r \in DOMAIN SeverityOrder :
                           \E n \in DOMAIN fs : fs[n].severity = SeverityOrder[r]}
<1>1. OverallSeverity(fs) = IF present = {} THEN "INFO" ELSE SeverityOrder[Least(present)]
  BY DEF OverallSeverity
<1>2. /\ SeverityOrder[1] = "CRITICAL" /\ SeverityOrder[2] = "HIGH"
      /\ SeverityOrder[3] = "MEDIUM" /\ SeverityOrder[4] = "LOW" /\ SeverityOrder[5] = "INFO"
      /\ DOMAIN SeverityOrder = {1, 2, 3, 4, 5}
  BY DEF SeverityOrder
<1>3. /\ 1 \in present <=> Has("CRITICAL")
      /\ 2 \in present <=> Has("HIGH")
      /\ 3 \in present <=> Has("MEDIUM")
      /\ 4 \in present <=> Has("LOW")
      /\ present \subseteq {1, 2, 3, 4, 5}
  BY <1>2
<1>4. present # {} => Least(present) \in present /\ \A n \in present : Least(present) <= n
  <2>1. present \subseteq Nat
    BY <1>3
  <2> QED
    BY <2>1, LeastNumber
<1> HIDE DEF present, Has
<1>5. OverallSeverity(fs) = IF Has("CRITICAL") THEN "CRITICAL"
                            ELSE IF Has("HIGH") THEN "HIGH"
                            ELSE IF Has("MEDIUM") THEN "MEDIUM"
                            ELSE IF Has("LOW") THEN "LOW" ELSE "INFO"
  <2> DEFINE worst == Least(present)
  <2>1. CASE present = {}
    BY <1>1, <1>3, <2>1
  <2>2. CASE present # {}
    <3>1. OverallSeverity(fs) = SeverityOrder[worst]
      BY <1>1, <2>2
    <3>2. worst \in present /\ worst \in {1, 2, 3, 4, 5} /\ \A n \in present : worst <= n
      BY <1>3, <1>4, <2>2
    <3> HIDE DEF worst
    <3>3. CASE worst = 1
      BY <1>2, <1>3, <3>1, <3>2, <3>3
    <3>4. CASE worst = 2
      BY <1>2, <1>3, <3>1, <3>2, <3>4
    <3>5. CASE worst = 3
      BY <1>2, <1>3, <3>1, <3>2, <3>5
    <3>6. CASE worst = 4
      BY <1>2, <1>3, <3>1, <3>2, <3>6
    <3>7. CASE worst = 5
      BY <1>2, <1>3, <3>1, <3>2, <3>7
    <3> QED
      BY <3>2, <3>3, <3>4, <3>5, <3>6, <3>7
  <2> QED
    BY <2>1, <2>2
<1> QED
  BY <1>5 DEF Has

(* Findings of the lowest severities, added at the end, move the headline  *)
(* at most from INFO to LOW.                                               *)
LEMMA HeadlineAfterMildFindings ==
    ASSUME NEW fs, NEW ts, DOMAIN fs \subseteq DOMAIN ts,
           \A n \in DOMAIN fs : ts[n] = fs[n],
           \A n \in DOMAIN ts \ DOMAIN fs : ts[n].severity \in {"LOW", "INFO"}
    PROVE  \/ OverallSeverity(ts) = OverallSeverity(fs)
           \/ OverallSeverity(fs) = "INFO" /\ OverallSeverity(ts) = "LOW"
<1> DEFINE Before(v) == \E n \in DOMAIN fs : fs[n].severity = v
           After(v) == \E n \in DOMAIN ts : ts[n].severity = v
<1>1. /\ After("CRITICAL") <=> Before("CRITICAL")
      /\ After("HIGH") <=> Before("HIGH")
      /\ After("MEDIUM") <=> Before("MEDIUM")
      /\ Before("LOW") => After("LOW")
  OBVIOUS
<1>2. OverallSeverity(fs) = IF Before("CRITICAL") THEN "CRITICAL"
                            ELSE IF Before("HIGH") THEN "HIGH"
                            ELSE IF Before("MEDIUM") THEN "MEDIUM"
                            ELSE IF Before("LOW") THEN "LOW" ELSE "INFO"
  BY HeadlineIsWorst
<1>3. OverallSeverity(ts) = IF After("CRITICAL") THEN "CRITICAL"
                            ELSE IF After("HIGH") THEN "HIGH"
                            ELSE IF After("MEDIUM") THEN "MEDIUM"
                            ELSE IF After("LOW") THEN "LOW" ELSE "INFO"
  BY HeadlineIsWorst
<1> HIDE DEF Before, After
<1> QED
  BY <1>1, <1>2, <1>3

-----------------------------------------------------------------------------
(* Where only one message has certificates, nothing is joined.             *)
LEMMA DersOfOneSender ==
    ASSUME NEW messages, Len(messages) \in Nat, NEW p \in Nat, NEW v,
           \A n \in 1..Len(messages) : messages[n].chain = IF n = p THEN v ELSE <<>>
    PROVE  ExtractDer(messages) = IF p \in 1..Len(messages) THEN v ELSE <<>>
<1> DEFINE N == Len(messages)
           Follows(g) == g = [n \in 0..N |->
                                 IF n = 0 THEN <<>> ELSE Joined(g[n - 1], messages[n].chain)]
           ders == CHOOSE g : Follows(g)
           f == [n \in 0..N |-> IF p \in 1..n THEN v ELSE <<>>]
<1>1. ExtractDer(messages) = ders[N]
  BY DEF ExtractDer
<1>2. f[0] = <<>> /\ \A n \in 1..N : f[n] = Joined(f[n - 1], messages[n].chain)
  <2>1. f[0] = <<>>
    OBVIOUS
  <2>2. ASSUME NEW n \in 1..N PROVE f[n] = Joined(f[n - 1], messages[n].chain)
    <3>1. n - 1 \in 0..N /\ n \in 0..N /\ n \in Nat
      OBVIOUS
    <3>2. CASE p = n
      <4>1. f[n - 1] = <<>> /\ f[n] = v /\ messages[n].chain = v
        BY <3>1, <3>2
      <4> QED
        BY <4>1 DEF Joined
    <3>3. CASE p # n
      <4>1. f[n] = f[n - 1] /\ messages[n].chain = <<>>
        BY <3>1, <3>3
      <4> QED
        BY <4>1 DEF Joined
    <3> QED
      BY <3>2, <3>3
  <2> QED
    BY <2>1, <2>2
<1>3. Follows(f)
  <2>1. \A n \in 0..N : n = 0 \/ n \in 1..N
    OBVIOUS
  <2>2. f = [n \in 0..N |-> f[n]]
    OBVIOUS
  <2> HIDE DEF f, N
  <2> QED
    BY <1>2, <2>1, <2>2
<1>4. Follows(ders)
  BY <1>3
<1>5. /\ ders[0] = <<>>
      /\ \A n \in 1..N : ders[n] = Joined(ders[n - 1], messages[n].chain)
  <2> HIDE DEF ders
  <2>1. 0 \in 0..N /\ \A n \in 1..N : n \in 0..N /\ n # 0
    OBVIOUS
  <2> HIDE DEF N
  <2>2. ASSUME NEW n \in 0..N
        PROVE  ders[n] = IF n = 0 THEN <<>> ELSE Joined(ders[n - 1], messages[n].chain)
    BY <1>4
  <2> QED
    BY <2>1, <2>2, Zenon
<1>6. ders[N] = f[N]
  <2>1. N \in Nat
    OBVIOUS
  <2> HIDE DEF ders, f, N
  <2>2. ders[0] = f[0] /\ \A n \in 1..N : ders[n - 1] = f[n - 1] => ders[n] = f[n]
    BY <1>2, <1>5
  <2> QED
    BY <2>1, <2>2, SameRecursion
<1>7. f[N] = IF p \in 1..N THEN v ELSE <<>>
  <2>1. N \in 0..N
    OBVIOUS
  <2> HIDE DEF N
  <2> QED
    BY <2>1
<1> HIDE DEF ders, f
<1> QED
  BY <1>1, <1>6, <1>7
(* The session of a stream, field by field: a note that is added leaves the*)
(* rest of it alone.                                                       *)
LEMMA FieldsOfSession ==
    ASSUME NEW implicit, NEW d, NEW parsed, NEW complete
    PROVE  LET s       == Session(implicit, d, parsed, complete)
               started == d.server_accepted = "yes" /\ d.clienthello
               notes   == IF implicit THEN <<>> ELSE UpgradeNotes(d, parsed)
               tried   == implicit \/ d.server_accepted = "yes" \/ d.clienthello
               tls     == IF implicit \/ started THEN parsed ELSE NoTls
           IN  /\ s.starttls_offered = (~implicit /\ d.offered)
               /\ s.starttls_used = (~implicit /\ started)
               /\ s.tls_attempted = tried
               /\ s.tls_session = tls
               /\ s.capture_complete = complete
               /\ s.analysis_notes = IF tried /\ tls = NoTls /\ notes = <<>>
                                      THEN <<"NoServerHello">> ELSE notes
<1> DEFINE started == d.server_accepted = "yes" /\ d.clienthello
           notes   == IF implicit THEN <<>> ELSE UpgradeNotes(d, parsed)
           tried   == implicit \/ d.server_accepted = "yes" \/ d.clienthello
           tls     == IF implicit \/ started THEN parsed ELSE NoTls
           offer   == ~implicit /\ d.offered
           used    == ~implicit /\ started
           raw     == [starttls_offered |-> offer,
                       starttls_used    |-> used,
                       tls_attempted    |-> tried,
                       tls_session      |-> tls,
                       analysis_notes   |-> notes,
                       capture_complete |-> complete]
           noted   == [raw EXCEPT !.analysis_notes = <<"NoServerHello">>]
           s       == Session(implicit, d, parsed, complete)
<1>1. s = Annotated(raw)
  BY DEF Session
<1> HIDE DEF s, notes, tried, tls, offer, used
<1>2. /\ raw.starttls_offered = offer /\ raw.starttls_used = used
      /\ raw.tls_attempted = tried /\ raw.tls_session = tls
      /\ raw.capture_complete = complete /\ raw.analysis_notes = notes
  OBVIOUS
<1>3. /\ noted.starttls_offered = offer /\ noted.starttls_used = used
      /\ noted.tls_attempted = tried /\ noted.tls_session = tls
      /\ noted.capture_complete = complete
      /\ noted.analysis_notes = <<"NoServerHello">>
  OBVIOUS
<1> HIDE DEF raw
<1>4. s = IF tried /\ tls = NoTls /\ notes = <<>> THEN noted ELSE raw
  BY Zenon, <1>1, <1>2 DEF Annotated
<1> HIDE DEF noted
<1>5. /\ s.starttls_offered = offer /\ s.starttls_used = used
      /\ s.tls_attempted = tried /\ s.tls_session = tls
      /\ s.capture_complete = complete
      /\ s.analysis_notes = IF tried /\ tls = NoTls /\ notes = <<>>
                             THEN <<"NoServerHello">> ELSE notes
  <2>1. CASE tried /\ tls = NoTls /\ notes = <<>>
    <3>1. s = noted
      BY Zenon, <1>4, <2>1
    <3> QED
      BY Zenon, <1>3, <2>1, <3>1
  <2>2. CASE ~(tried /\ tls = NoTls /\ notes = <<>>)
    <3>1. s = raw
      BY Zenon, <1>4, <2>2
    <3> QED
      BY Zenon, <1>2, <2>2, <3>1
  <2> QED
    BY Zenon, <2>1, <2>2
<1> QED
  BY Zenon, <1>5 DEF s, notes, tried, tls, offer, used

===============================================================================
