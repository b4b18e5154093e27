--------------------------- MODULE RpMatchingProofs ---------------------------
(***************************************************************************)
(* The UTF-8 codec and the filter of helpers.cpp, the folding of letters   *)
(* and the placeholders of rp_service.cpp are right for every text; what   *)
(* RpMatching remembers for /ai is what the AI may see of the latest       *)
(* messages; and its answers are those that Reactions promises, for any    *)
(* number of messages, users, commands and slots.                          *)
(***************************************************************************)
EXTENDS RpMatching, SequenceTheorems, WellFoundedInduction, FiniteSetTheorems, TLAPS

-----------------------------------------------------------------------------
(* Induction over the natural numbers, without a rule that takes a predicate, and*)
(* sequences put one behind the other.                                     *)

\* A set of natural numbers that holds 0 and the successor of each of its members
\* is Nat: the form of induction that the lemmas below use.
LEMMA NatInd ==
  \A T \in SUBSET Nat : 0 \in T /\ (\A n \in T : n + 1 \in T) => T = Nat
<1> SUFFICES ASSUME NEW T \in SUBSET Nat, 0 \in T, \A n \in T : n + 1 \in T, Nat \ T # {}
             PROVE FALSE
  OBVIOUS
<1> DEFINE R == OpToRel(<, Nat)
<1>1. IsWellFoundedOn(R, Nat)
  BY NatLessThanWellFounded
<1>2. \E x \in Nat \ T : \A y \in Nat \ T : ~(<<y, x>> \in R)
  <2> HIDE DEF R
  <2> QED BY <1>1, WFMin
<1>3. PICK x \in Nat \ T : \A y \in Nat \ T : ~(y < x)
  BY <1>2 DEF OpToRel
<1>4. x # 0 /\ x - 1 \in Nat /\ x - 1 < x
  BY <1>3
<1>5. x - 1 \in T
  BY <1>3, <1>4
<1> QED
  BY <1>4, <1>5

\* Induction up to a bound.
LEMMA UpTo ==
  ASSUME NEW n \in Nat, NEW T, 0 \in T, \A k \in 0..(n - 1) : k \in T => k + 1 \in T
  PROVE  \A k \in 0..n : k \in T
<1> DEFINE U == {k \in Nat : k <= n => k \in T}
<1>1. 0 \in U /\ \A k \in U : k + 1 \in U
  OBVIOUS
<1>2. U = Nat
  BY <1>1, NatInd
<1> QED
  BY <1>2

\* Induction from a bound down: the loops of helpers.cpp recurse forwards.
LEMMA DownTo ==
  ASSUME NEW n \in Nat, NEW T, \A i \in 1..n : (\A j \in (i + 1)..n : j \in T) => i \in T
  PROVE  \A i \in 1..n : i \in T
<1> DEFINE U == {k \in Nat : \A i \in 1..n : i > n - k => i \in T}
<1>1. 0 \in U
  OBVIOUS
<1>2. ASSUME NEW k \in U PROVE k + 1 \in U
  <2> SUFFICES ASSUME NEW i \in 1..n, i > n - (k + 1) PROVE i \in T
    OBVIOUS
  <2>1. \A j \in (i + 1)..n : j \in 1..n /\ j > n - k
    OBVIOUS
  <2> QED
    BY <2>1
<1>3. U = Nat
  BY <1>1, <1>2, NatInd
<1>4. n \in U
  BY <1>3
<1> QED
  BY <1>4

\* F[k] is the first k sequences of ss put together.
Joins(F, ss, n) == F[0] = <<>> /\ \A i \in 0..(n - 1) : F[i + 1] = F[i] \o ss[i + 1]

\* The texts that FlattenSeq goes through exist ...
LEMMA PrefixesExist ==
  ASSUME NEW X, NEW n \in Nat, NEW ss \in [1..n -> Seq(X)]
  PROVE  \E F \in [0..n -> Seq(X)] : Joins(F, ss, n)
<1> DEFINE T == {k \in 0..n : \E F \in [0..k -> Seq(X)] : Joins(F, ss, k)}
<1>1. 0 \in T
  <2> DEFINE E == [k \in 0..0 |-> <<>>]
  <2>1. E \in [0..0 -> Seq(X)] /\ E[0] = <<>>
    OBVIOUS
  <2>2. 0 \in 0..n /\ \A j \in 0..(0 - 1) : FALSE
    OBVIOUS
  <2> HIDE DEF E
  <2>3. Joins(E, ss, 0)
    BY <2>1, <2>2 DEF Joins
  <2> QED
    BY <2>1, <2>2, <2>3
<1>2. ASSUME NEW k \in 0..(n - 1), k \in T PROVE k + 1 \in T
  <2>1. PICK F \in [0..k -> Seq(X)] : Joins(F, ss, k)
    BY <1>2
  <2> DEFINE G == [j \in 0..(k + 1) |-> IF j = k + 1 THEN F[k] \o ss[k + 1] ELSE F[j]]
  <2>2. F[k] \o ss[k + 1] \in Seq(X)
    OBVIOUS
  <2>3. G \in [0..(k + 1) -> Seq(X)]
    BY <2>2
  <2>4. G[k + 1] = F[k] \o ss[k + 1] /\ \A j \in 0..k : G[j] = F[j]
    OBVIOUS
  <2> HIDE DEF G
  <2>5. \A j \in 0..k : G[j + 1] = G[j] \o ss[j + 1]
    <3> SUFFICES ASSUME NEW j \in 0..k PROVE G[j + 1] = G[j] \o ss[j + 1]
      OBVIOUS
    <3>1. CASE j = k
      BY <3>1, <2>4
    <3>2. CASE j # k
      <4>1. j \in 0..(k - 1) /\ j + 1 \in 0..k
        BY <3>2
      <4> QED
        BY <4>1, <2>1, <2>4 DEF Joins
    <3> QED
      BY <3>1, <3>2
  <2>6. k + 1 \in 0..n /\ (k + 1) - 1 = k /\ 0 \in 0..k
    OBVIOUS
  <2>7. G[0] = <<>>
    BY <2>1, <2>4, <2>6 DEF Joins
  <2>9. \A j \in 0..((k + 1) - 1) : j \in 0..k
    OBVIOUS
  <2>10. \A j \in 0..((k + 1) - 1) : G[j + 1] = G[j] \o ss[j + 1]
    BY <2>5, <2>9, Zenon
  <2>8. Joins(G, ss, k + 1)
    BY <2>7, <2>10 DEF Joins
  <2> QED
    BY <2>3, <2>6, <2>8
<1>3. \A k \in 0..n : k \in T
  <2> HIDE DEF T
  <2> QED
    BY <1>1, <1>2, UpTo
<1> QED
  BY <1>3

\* ... and there are no others.
LEMMA PrefixesUnique ==
  ASSUME NEW n \in Nat, NEW ss, NEW F, NEW G, Joins(F, ss, n), Joins(G, ss, n)
  PROVE  \A k \in 0..n : F[k] = G[k]
<1> DEFINE T == {k \in 0..n : F[k] = G[k]}
<1>1. 0 \in T
  BY DEF Joins
<1>2. ASSUME NEW k \in 0..(n - 1), k \in T PROVE k + 1 \in T
  <2>1. F[k] = G[k] /\ k + 1 \in 0..n
    BY <1>2
  <2>2. F[k + 1] = G[k + 1]
    BY <2>1 DEF Joins
  <2> QED
    BY <2>1, <2>2
<1>3. \A k \in 0..n : k \in T
  <2> HIDE DEF T
  <2> QED
    BY <1>1, <1>2, UpTo
<1> QED
  BY <1>3

\* FlattenSeq, with which the model puts encoded characters and pieces of responses
\* one behind the other, ends with the last of them.
LEMMA FlattenIsLastPrefix ==
  ASSUME NEW X, NEW ss \in Seq(Seq(X)), NEW F \in [0..Len(ss) -> Seq(X)],
         Joins(F, ss, Len(ss))
  PROVE  FlattenSeq(ss) = F[Len(ss)]
<1>1. PICK n \in Nat : n = Len(ss)
  OBVIOUS
<1>2. F \in [0..n -> Seq(X)] /\ Joins(F, ss, n) /\ ss \in [1..n -> Seq(X)]
  BY <1>1
<1>3. F[0] = <<>> /\ (\A k \in 0..(n - 1) : F[k + 1] = F[k] \o ss[k + 1])
  BY <1>2 DEF Joins
<1>4. CASE n = 0
  <2>1. ss = <<>>
    BY <1>1, <1>4, EmptySeq
  <2> QED
    BY <1>1, <1>3, <1>4, <2>1 DEF FlattenSeq
<1>5. CASE n # 0
  <2> DEFINE f == CHOOSE g : g = [i \in 1..n |-> IF i = 1 THEN ss[i] ELSE g[i - 1] \o ss[i]]
             h == [i \in 1..n |-> F[i]]
  <2>1. \A i \in 1..n : h[i] = IF i = 1 THEN ss[i] ELSE h[i - 1] \o ss[i]
    <3> SUFFICES ASSUME NEW i \in 1..n
                 PROVE  h[i] = IF i = 1 THEN ss[i] ELSE h[i - 1] \o ss[i]
      OBVIOUS
    <3>1. PICK k \in 0..(n - 1) : i = k + 1
      OBVIOUS
    <3>2. h[i] = F[k] \o ss[i] /\ ss[i] \in Seq(X)
      BY <1>2, <1>3, <3>1
    <3>3. CASE i = 1
      <4>1. F[k] = <<>>
        BY <1>3, <3>1, <3>3
      <4> HIDE DEF h
      <4> QED
        BY <3>2, <3>3, <4>1
    <3>4. CASE i # 1
      <4>1. h[i - 1] = F[k]
        BY <3>1, <3>4
      <4> HIDE DEF h
      <4> QED
        BY <3>2, <3>4, <4>1
    <3> QED
      BY <3>3, <3>4
  <2>2. h = [i \in 1..n |-> IF i = 1 THEN ss[i] ELSE h[i - 1] \o ss[i]]
    BY <2>1
  <2>3. f = [i \in 1..n |-> IF i = 1 THEN ss[i] ELSE f[i - 1] \o ss[i]]
    <3> HIDE DEF h
    <3> QED
      BY <2>2
  <2>4. FlattenSeq(ss) = f[n]
    BY <1>1, <1>5, Zenon DEF FlattenSeq
  <2> HIDE DEF f
  <2>5. \A i \in 1..n : f[i] = IF i = 1 THEN ss[i] ELSE f[i - 1] \o ss[i]
    BY <2>3, Zenon
  <2> DEFINE T == {k \in 0..n : k > 0 => f[k] = F[k]}
  <2>6. 0 \in T
    OBVIOUS
  <2>7. ASSUME NEW k \in 0..(n - 1), k \in T PROVE k + 1 \in T
    <3>1. k + 1 \in 1..n /\ k + 1 \in 0..n /\ (k + 1 = 1 <=> k = 0)
      OBVIOUS
    <3>0. (k + 1) - 1 = k
      OBVIOUS
    <3>2. F[k + 1] = F[k] \o ss[k + 1] /\ ss[k + 1] \in Seq(X)
      BY <3>1, <1>2, <1>3
    <3>3. f[k + 1] = IF k + 1 = 1 THEN ss[k + 1] ELSE f[k] \o ss[k + 1]
      BY <3>0, <3>1, <2>5
    <3>4. CASE k = 0
      <4>1. f[k + 1] = F[k + 1]
        BY SMTT(40), <1>3, <3>1, <3>2, <3>3, <3>4
      <4> QED
        BY <3>1, <4>1
    <3>5. CASE k # 0
      <4>1. f[k] = F[k]
        BY <2>7, <3>5
      <4>2. f[k + 1] = F[k + 1]
        BY <3>1, <3>2, <3>3, <3>5, <4>1
      <4> QED
        BY <3>1, <4>2
    <3> QED
      BY <3>4, <3>5
  <2>8. \A k \in 0..n : k \in T
    <3> HIDE DEF T
    <3> QED
      BY <2>6, <2>7, UpTo
  <2> QED
    BY <1>1, <1>5, <2>4, <2>8
<1> QED
  BY <1>4, <1>5

\* What SMT knows of two sequences put together, in one fact.
LEMMA Concat ==
  ASSUME NEW X, NEW s \in Seq(X), NEW t \in Seq(X)
  PROVE  /\ s \o t \in Seq(X)
         /\ Len(s) \in Nat /\ Len(t) \in Nat
         /\ Len(s \o t) = Len(s) + Len(t)
         /\ \A i \in 1..Len(s) : (s \o t)[i] = s[i]
         /\ \A j \in 1..Len(t) : (s \o t)[Len(s) + j] = t[j]
OBVIOUS

\* s is what t begins with.
Begins(s, t) == Len(s) <= Len(t) /\ \A i \in 1..Len(s) : t[i] = s[i]

\* What begins a text begins every longer one.
LEMMA BeginsConcat ==
  ASSUME NEW X, NEW r \in Seq(X), NEW s \in Seq(X), NEW t \in Seq(X), Begins(r, s)
  PROVE  Begins(r, s \o t)
<1>1. Len(r) \in Nat /\ Len(r) <= Len(s) /\ \A i \in 1..Len(r) : i \in 1..Len(s)
  BY DEF Begins
<1>2. Len(r) <= Len(s \o t)
  BY <1>1, Concat
<1>3. \A i \in 1..Len(r) : (s \o t)[i] = r[i]
  BY <1>1, Concat DEF Begins
<1> QED
  BY <1>2, <1>3 DEF Begins

\* e lies in t behind F[k], and F[k + 1] is what t has up to there.
LiesBehind(t, F, k, e) ==
  /\ Len(F[k]) + Len(e) = Len(F[k + 1])
  /\ Len(F[k + 1]) <= Len(t)
  /\ \A j \in 1..Len(e) : t[Len(F[k]) + j] = e[j]

\* Where the sequences of ss lie in what FlattenSeq makes of ss.
LEMMA FlattenAt ==
  ASSUME NEW X, NEW ss \in Seq(Seq(X)), NEW F \in [0..Len(ss) -> Seq(X)],
         Joins(F, ss, Len(ss)), NEW k \in 0..(Len(ss) - 1)
  PROVE  LiesBehind(FlattenSeq(ss), F, k, ss[k + 1])
<1>1. PICK n \in Nat : n = Len(ss)
  OBVIOUS
<1>2. F \in [0..n -> Seq(X)] /\ Joins(F, ss, n) /\ ss \in [1..n -> Seq(X)] /\ k \in 0..(n - 1)
  BY <1>1
<1>3. FlattenSeq(ss) = F[n]
  BY <1>1, FlattenIsLastPrefix
<1>4. \A m \in 0..(n - 1) : /\ F[m] \in Seq(X) /\ ss[m + 1] \in Seq(X)
                            /\ F[m + 1] = F[m] \o ss[m + 1]
  <2>1. \A m \in 0..(n - 1) : m \in 0..n /\ m + 1 \in 1..n
    OBVIOUS
  <2>2. \A m \in 0..(n - 1) : F[m] \in Seq(X) /\ ss[m + 1] \in Seq(X)
    BY <1>2, <2>1
  <2> QED
    BY <1>2, <2>2 DEF Joins
<1> DEFINE T == {d \in 0..(n - (k + 1)) : Begins(F[k + 1], F[k + 1 + d])}
<1>5. F[k + 1] \in Seq(X) /\ n - (k + 1) \in Nat /\ k + 1 + 0 = k + 1
  BY <1>2
<1>6. 0 \in T
  BY <1>5 DEF Begins
<1>7. ASSUME NEW d \in 0..(n - (k + 1) - 1), d \in T PROVE d + 1 \in T
  <2>1. PICK m \in 0..(n - 1) : m = k + 1 + d
    BY <1>2
  <2>2. m + 1 = k + 1 + (d + 1) /\ d + 1 \in 0..(n - (k + 1))
    BY <1>2, <2>1
  <2>3. Begins(F[k + 1], F[m])
    BY <1>7, <2>1
  <2>4. Begins(F[k + 1], F[m + 1])
    BY <1>4, <1>5, <2>3, BeginsConcat
  <2> QED
    BY <2>2, <2>4
<1>8. n - (k + 1) \in T
  <2>1. n - (k + 1) \in 0..(n - (k + 1))
    BY <1>5
  <2>2. \A d \in 0..(n - (k + 1)) : d \in T
    <3> HIDE DEF T
    <3> QED
      BY <1>5, <1>6, <1>7, UpTo
  <2> QED
    BY <2>1, <2>2
<1>9. Begins(F[k + 1], F[n])
  <2>1. k + 1 + (n - (k + 1)) = n
    BY <1>2
  <2> QED
    BY <1>8, <2>1
<1>10. PICK s \in Seq(X), t \in Seq(X) : s = F[k] /\ t = ss[k + 1] /\ F[k + 1] = s \o t
  BY <1>2, <1>4
<1>11. \A j \in 1..Len(t) : Len(s) + j \in 1..Len(s \o t)
  BY Concat
<1>12. Len(s) + Len(t) = Len(F[k + 1])
  BY <1>10, Concat
<1>13. Len(F[k + 1]) <= Len(F[n])
  BY <1>9 DEF Begins
<1>14. \A j \in 1..Len(t) : F[n][Len(s) + j] = t[j]
  <2> SUFFICES ASSUME NEW j \in 1..Len(t) PROVE F[n][Len(s) + j] = t[j]
    OBVIOUS
  <2>1. F[n][Len(s) + j] = F[k + 1][Len(s) + j]
    BY <1>9, <1>10, <1>11 DEF Begins
  <2>2. (s \o t)[Len(s) + j] = t[j]
    BY Concat
  <2> QED
    BY <1>10, <2>1, <2>2
<1> QED
  BY <1>3, <1>10, <1>12, <1>13, <1>14 DEF LiesBehind

\* What the loops put out: at the boundaries of the characters.
GoesOn(out, next, n, X) ==
  /\ out \in [1..n -> Seq(X)] /\ next \in [1..n -> Nat]
  /\ \A i \in 1..n : next[i] \in (i + 1)..(n + 1)

\* f[i] is what the loop puts out from i on.
PutsOut(f, out, next, n) ==
  /\ f[n + 1] = <<>>
  /\ \A i \in 1..n : f[i] = out[i] \o f[next[i]]
  /\ Scan(out, next) = f[1]
Scanned(out, next, n, X) == \E f \in [1..(n + 1) -> Seq(X)] : PutsOut(f, out, next, n)

\* A loop that always goes on further behind (sanitizeForAi, toLower) comes to an end:
\* Scan is the first value of a function that obeys the equations of the loop.
LEMMA ScanFunction ==
  ASSUME NEW X, NEW n \in Nat, NEW out, NEW next, GoesOn(out, next, n, X)
  PROVE  Scanned(out, next, n, X)
<1>0. /\ out \in [1..n -> Seq(X)] /\ next \in [1..n -> Nat]
      /\ \A i \in 1..n : next[i] \in (i + 1)..(n + 1)
  BY DEF GoesOn
<1> DEFINE T == {i \in 1..(n + 1) : \E f \in [i..(n + 1) -> Seq(X)] :
                   f[n + 1] = <<>> /\ \A j \in i..n : f[j] = out[j] \o f[next[j]]}
<1>1. n + 1 \in T
  <2> DEFINE f == [j \in (n + 1)..(n + 1) |-> <<>>]
  <2>1. f \in [(n + 1)..(n + 1) -> Seq(X)] /\ f[n + 1] = <<>>
    OBVIOUS
  <2>2. n + 1 \in 1..(n + 1) /\ \A j \in (n + 1)..n : FALSE
    OBVIOUS
  <2> HIDE DEF f
  <2> QED
    BY <2>1, <2>2
<1>2. ASSUME NEW i \in 1..n, i + 1 \in T PROVE i \in T
  <2>1. PICK f \in [(i + 1)..(n + 1) -> Seq(X)] :
          f[n + 1] = <<>> /\ \A j \in (i + 1)..n : f[j] = out[j] \o f[next[j]]
    BY <1>2
  <2> DEFINE g == [j \in i..(n + 1) |-> IF j = i THEN out[i] \o f[next[i]] ELSE f[j]]
  <2>2. next[i] \in (i + 1)..(n + 1) /\ out[i] \in Seq(X)
    BY <1>0
  <2>3. out[i] \o f[next[i]] \in Seq(X)
    BY <2>2
  <2>4. g \in [i..(n + 1) -> Seq(X)]
    BY <2>3
  <2>5. i \in i..(n + 1) /\ n + 1 \in (i + 1)..(n + 1)
        /\ \A j \in (i + 1)..(n + 1) : j # i /\ j \in i..(n + 1)
    OBVIOUS
  <2>9. g[i] = out[i] \o f[next[i]]
    BY <2>5
  <2>10. \A j \in (i + 1)..(n + 1) : g[j] = f[j]
    BY <2>5
  <2> HIDE DEF g
  <2>6. g[n + 1] = <<>>
    BY <2>1, <2>5, <2>10
  <2>7. ASSUME NEW j \in i..n PROVE g[j] = out[j] \o g[next[j]]
    <3>1. CASE j = i
      BY <1>0, <2>2, <2>9, <2>10, <3>1
    <3>2. CASE j # i
      <4>1. j \in (i + 1)..n /\ j \in (i + 1)..(n + 1) /\ j \in 1..n
        BY <3>2
      <4>2. next[j] \in (j + 1)..(n + 1)
        BY <1>0, <4>1
      <4>3. next[j] \in (i + 1)..(n + 1)
        BY <4>1, <4>2
      <4> QED
        BY <2>1, <2>10, <4>1, <4>3
    <3> QED
      BY <3>1, <3>2
  <2>8. i \in 1..(n + 1)
    OBVIOUS
  <2> QED
    BY <2>4, <2>6, <2>7, <2>8
<1>3. 1 \in T
  <2>1. \A i \in 1..(n + 1) : (\A j \in (i + 1)..(n + 1) : j \in T) => i \in T
    <3> SUFFICES ASSUME NEW i \in 1..(n + 1), \A j \in (i + 1)..(n + 1) : j \in T PROVE i \in T
      OBVIOUS
    <3> HIDE DEF T
    <3>1. CASE i = n + 1
      BY <1>1, <3>1
    <3>2. CASE i # n + 1
      <4>1. i \in 1..n /\ i + 1 \in (i + 1)..(n + 1)
        BY <3>2
      <4> QED
        BY <1>2, <4>1
    <3> QED
      BY <3>1, <3>2
  <2>2. n + 1 \in Nat /\ 1 \in 1..(n + 1)
    OBVIOUS
  <2>3. \A i \in 1..(n + 1) : i \in T
    <3> HIDE DEF T
    <3> QED
      BY <2>1, <2>2, DownTo
  <2> QED
    BY <2>2, <2>3
<1>4. PICK f \in [1..(n + 1) -> Seq(X)] :
        f[n + 1] = <<>> /\ \A i \in 1..n : f[i] = out[i] \o f[next[i]]
  BY <1>3
<1> DEFINE g == CHOOSE g : g = [i \in 1..(n + 1) |-> IF i > n THEN <<>> ELSE out[i] \o g[next[i]]]
<1>5. f = [i \in 1..(n + 1) |-> IF i > n THEN <<>> ELSE out[i] \o f[next[i]]]
  <2>1. \A i \in 1..(n + 1) : f[i] = IF i > n THEN <<>> ELSE out[i] \o f[next[i]]
    <3> SUFFICES ASSUME NEW i \in 1..(n + 1)
                 PROVE  f[i] = IF i > n THEN <<>> ELSE out[i] \o f[next[i]]
      OBVIOUS
    <3>1. CASE i = n + 1
      BY <1>4, <3>1
    <3>2. CASE i # n + 1
      <4>1. i \in 1..n /\ ~(i > n)
        BY <3>2
      <4> QED
        BY <1>4, <4>1
    <3> QED
      BY <3>1, <3>2
  <2> QED
    BY <2>1
<1>6. g = [i \in 1..(n + 1) |-> IF i > n THEN <<>> ELSE out[i] \o g[next[i]]]
  BY <1>5
<1>7. Scan(out, next) = g[1]
  <2>1. Len(out) = n
    BY <1>0
  <2> QED
    BY <2>1, Zenon DEF Scan
<1> HIDE DEF g
<1>8. \A i \in 1..(n + 1) : g[i] = f[i]
  <2> DEFINE S == {i \in 1..(n + 1) : g[i] = f[i]}
  <2>1. ASSUME NEW i \in 1..(n + 1), \A j \in (i + 1)..(n + 1) : j \in S PROVE i \in S
    <3>1. g[i] = IF i > n THEN <<>> ELSE out[i] \o g[next[i]]
      BY <1>6, Zenon
    <3>2. CASE i = n + 1
      <4>1. g[i] = f[i]
        BY <1>4, <3>1, <3>2
      <4> QED
        BY <4>1
    <3>3. CASE i # n + 1
      <4>1. i \in 1..n /\ ~(i > n) /\ next[i] \in (i + 1)..(n + 1)
        BY <1>0, <3>3
      <4>2. g[next[i]] = f[next[i]]
        BY <2>1, <4>1
      <4>3. g[i] = f[i]
        BY <1>4, <3>1, <4>1, <4>2
      <4> QED
        BY <4>3
    <3> QED
      BY <3>2, <3>3
  <2>2. n + 1 \in Nat
    OBVIOUS
  <2>3. \A i \in 1..(n + 1) : i \in S
    <3> HIDE DEF S
    <3> QED
      BY <2>1, <2>2, DownTo
  <2> QED
    BY <2>3
<1>9. Scan(out, next) = f[1]
  BY <1>7, <1>8
<1> QED
  BY <1>4, <1>9 DEF Scanned, PutsOut

-----------------------------------------------------------------------------
(* The codec of helpers.cpp: what encodeUtf8Point writes, decodeUtf8Point reads.*)
Byte == 0..255
Point == {p \in Nat : p < 2097152}

\* What the shifts and masks of encodeUtf8Point take out of a code point, and that
\* they lose nothing of it.
LEMMA Remainders ==
  ASSUME NEW p \in Nat, p < 2097152
  PROVE  /\ p % 64 \in Nat /\ p % 64 < 64
         /\ (p \div 64) % 64 \in Nat /\ (p \div 64) % 64 < 64
         /\ (p \div 4096) % 64 \in Nat /\ (p \div 4096) % 64 < 64
         /\ p \div 64 \in Nat /\ (p < 2048 => p \div 64 < 32 /\ p = 64 * (p \div 64) + (p % 64))
         /\ p \div 4096 \in Nat
         /\ (p < 65536 => p \div 4096 < 16 /\
               p = 4096 * (p \div 4096) + 64 * ((p \div 64) % 64) + (p % 64))
         /\ p \div 262144 \in Nat /\ p \div 262144 < 8
         /\ p = 262144 * (p \div 262144) + 4096 * ((p \div 4096) % 64)
                  + 64 * ((p \div 64) % 64) + (p % 64)
BY SMT

\* decodeUtf8Point on the lead byte of each of the four forms.
LEMMA Lead1 ==
  ASSUME NEW a \in Nat, a < 128
  PROVE  Lead(a) = [len |-> 1, bits |-> a]
BY SMT DEF Lead

\* The lead of two bytes.
LEMMA Lead2 ==
  ASSUME NEW a \in Nat, a < 32
  PROVE  Lead(192 + a) = [len |-> 2, bits |-> a]
BY SMT DEF Lead

\* The lead of three bytes.
LEMMA Lead3 ==
  ASSUME NEW a \in Nat, a < 16
  PROVE  Lead(224 + a) = [len |-> 3, bits |-> a]
BY SMT DEF Lead

\* The lead of four bytes.
LEMMA Lead4 ==
  ASSUME NEW a \in Nat, a < 8
  PROVE  Lead(240 + a) = [len |-> 4, bits |-> a]
BY SMT DEF Lead

\* A continuation byte carries six bits.
LEMMA Continuations ==
  ASSUME NEW a \in Nat, a < 64
  PROVE IsContinuation(128 + a) /\ (128 + a) % 64 = a
BY SMT DEF IsContinuation

\* decodeUtf8Point where the bytes announced are there and are continuation bytes.
LEMMA Decoded ==
  ASSUME NEW s, NEW i \in Nat, Len(s) \in Nat, NEW len \in Nat, NEW bits,
         Lead(s[i]) = [len |-> len, bits |-> bits], len > 0, i + (len - 1) <= Len(s),
         \A j \in (i + 1)..(i + (len - 1)) : IsContinuation(s[j])
  PROVE  DecodeUtf8Point(s, i) =
           [point |-> PointAt(s, i, [len |-> len, bits |-> bits]), next |-> (i + (len - 1)) + 1]
<1>1. len # 0 /\ ~(i + (len - 1) > Len(s))
  BY SMT
<1>2. {j \in (i + 1)..(i + (len - 1)) : ~IsContinuation(s[j])} = {}
  BY SMT
<1>3. Lead(s[i]).len = len
  BY SMT
<1> QED
  BY SMT, <1>1, <1>2, <1>3 DEF DecodeUtf8Point

\* The form of one byte, behind the position o.
LEMMA Decoded1 ==
  ASSUME NEW s, NEW o \in Nat, Len(s) \in Nat, o + 1 <= Len(s), NEW a,
         Lead(s[o + 1]) = [len |-> 1, bits |-> a]
  PROVE  DecodeUtf8Point(s, o + 1) = [point |-> a, next |-> (o + 1) + 1]
<1>1. PICK i \in Nat, len \in Nat : i = o + 1 /\ len = 1
  BY SMT
<1>2. i + (len - 1) = o + 1 /\ i + (len - 1) <= Len(s) /\ len > 0
  BY SMT, <1>1
<1>3. \A j \in (i + 1)..(i + (len - 1)) : FALSE
  BY SMT, <1>1
<1>4. \A j \in (i + 1)..(i + (len - 1)) : IsContinuation(s[j])
  BY <1>3
<1>5. Lead(s[i]) = [len |-> len, bits |-> a]
  BY <1>1
<1>6. DecodeUtf8Point(s, i) =
        [point |-> PointAt(s, i, [len |-> len, bits |-> a]), next |-> (i + (len - 1)) + 1]
  BY <1>2, <1>4, <1>5, Decoded
<1>7. TRUE
  BY SMT, <1>1
<1>8. PointAt(s, i, [len |-> len, bits |-> a]) = a
  BY SMT, <1>1, <1>7 DEF PointAt
<1> QED
  BY <1>1, <1>2, <1>6, <1>8

\* The form of two bytes.
LEMMA Decoded2 ==
  ASSUME NEW s, NEW o \in Nat, Len(s) \in Nat, o + 2 <= Len(s), NEW a,
         Lead(s[o + 1]) = [len |-> 2, bits |-> a], IsContinuation(s[o + 2])
  PROVE  DecodeUtf8Point(s, o + 1) = [point |-> 64 * a + (s[o + 2] % 64), next |-> (o + 2) + 1]
<1>1. PICK i \in Nat, len \in Nat : i = o + 1 /\ len = 2
  BY SMT
<1>2. i + (len - 1) = o + 2 /\ i + (len - 1) <= Len(s) /\ len > 0
  BY SMT, <1>1
<1>3. \A j \in (i + 1)..(i + (len - 1)) : j = o + 2
  BY SMT, <1>1
<1>4. \A j \in (i + 1)..(i + (len - 1)) : IsContinuation(s[j])
  BY <1>3
<1>5. Lead(s[i]) = [len |-> len, bits |-> a]
  BY <1>1
<1>6. DecodeUtf8Point(s, i) =
        [point |-> PointAt(s, i, [len |-> len, bits |-> a]), next |-> (i + (len - 1)) + 1]
  BY <1>2, <1>4, <1>5, Decoded
<1>7. i + 1 = o + 2
  BY SMT, <1>1
<1>8. PointAt(s, i, [len |-> len, bits |-> a]) = 64 * a + (s[o + 2] % 64)
  BY SMT, <1>1, <1>7 DEF PointAt
<1> QED
  BY <1>1, <1>2, <1>6, <1>8

\* The form of three bytes.
LEMMA Decoded3 ==
  ASSUME NEW s, NEW o \in Nat, Len(s) \in Nat, o + 3 <= Len(s), NEW a,
         Lead(s[o + 1]) = [len |-> 3, bits |-> a], IsContinuation(s[o + 2]), IsContinuation(s[o + 3])
  PROVE  DecodeUtf8Point(s, o + 1) = [point |-> 4096 * a + 64 * (s[o + 2] % 64) + (s[o + 3] % 64), next |-> (o + 3) + 1]
<1>1. PICK i \in Nat, len \in Nat : i = o + 1 /\ len = 3
  BY SMT
<1>2. i + (len - 1) = o + 3 /\ i + (len - 1) <= Len(s) /\ len > 0
  BY SMT, <1>1
<1>3. \A j \in (i + 1)..(i + (len - 1)) : j = o + 2 \/ j = o + 3
  BY SMT, <1>1
<1>4. \A j \in (i + 1)..(i + (len - 1)) : IsContinuation(s[j])
  BY <1>3
<1>5. Lead(s[i]) = [len |-> len, bits |-> a]
  BY <1>1
<1>6. DecodeUtf8Point(s, i) =
        [point |-> PointAt(s, i, [len |-> len, bits |-> a]), next |-> (i + (len - 1)) + 1]
  BY <1>2, <1>4, <1>5, Decoded
<1>7. i + 1 = o + 2 /\ i + 2 = o + 3
  BY SMT, <1>1
<1>8. PointAt(s, i, [len |-> len, bits |-> a]) = 4096 * a + 64 * (s[o + 2] % 64) + (s[o + 3] % 64)
  BY SMT, <1>1, <1>7 DEF PointAt
<1> QED
  BY <1>1, <1>2, <1>6, <1>8

\* The form of four bytes.
LEMMA Decoded4 ==
  ASSUME NEW s, NEW o \in Nat, Len(s) \in Nat, o + 4 <= Len(s), NEW a,
         Lead(s[o + 1]) = [len |-> 4, bits |-> a], IsContinuation(s[o + 2]), IsContinuation(s[o + 3]), IsContinuation(s[o + 4])
  PROVE  DecodeUtf8Point(s, o + 1) = [point |-> 262144 * a + 4096 * (s[o + 2] % 64) + 64 * (s[o + 3] % 64) + (s[o + 4] % 64), next |-> (o + 4) + 1]
<1>1. PICK i \in Nat, len \in Nat : i = o + 1 /\ len = 4
  BY SMT
<1>2. i + (len - 1) = o + 4 /\ i + (len - 1) <= Len(s) /\ len > 0
  BY SMT, <1>1
<1>3. \A j \in (i + 1)..(i + (len - 1)) : j = o + 2 \/ j = o + 3 \/ j = o + 4
  BY SMT, <1>1
<1>4. \A j \in (i + 1)..(i + (len - 1)) : IsContinuation(s[j])
  BY <1>3
<1>5. Lead(s[i]) = [len |-> len, bits |-> a]
  BY <1>1
<1>6. DecodeUtf8Point(s, i) =
        [point |-> PointAt(s, i, [len |-> len, bits |-> a]), next |-> (i + (len - 1)) + 1]
  BY <1>2, <1>4, <1>5, Decoded
<1>7. i + 1 = o + 2 /\ i + 2 = o + 3 /\ i + 3 = o + 4
  BY SMT, <1>1
<1>8. PointAt(s, i, [len |-> len, bits |-> a]) = 262144 * a + 4096 * (s[o + 2] % 64) + 64 * (s[o + 3] % 64) + (s[o + 4] % 64)
  BY SMT, <1>1, <1>7 DEF PointAt
<1> QED
  BY <1>1, <1>2, <1>6, <1>8

\* The four forms of encoded code points.
OneByte(p, e) ==
  \E a \in Nat :
    a < 128 /\ p = a /\ e = <<a>>
TwoBytes(p, e) ==
  \E a, b \in Nat :
    a < 32 /\ b < 64 /\ p = 64 * a + b /\ e = <<192 + a, 128 + b>>
ThreeBytes(p, e) ==
  \E a, b, c \in Nat :
    a < 16 /\ b < 64 /\ c < 64 /\ p = 4096 * a + 64 * b + c /\ e = <<224 + a, 128 + b, 128 + c>>
FourBytes(p, e) ==
  \E a, b, c, d \in Nat :
    a < 8 /\ b < 64 /\ c < 64 /\ d < 64 /\ p = 262144 * a + 4096 * b + 64 * c + d /\ e = <<240 + a, 128 + b, 128 + c, 128 + d>>

\* encodeUtf8Point writes one of the four forms.
LEMMA EncodedForm ==
  ASSUME NEW p \in Point
  PROVE  /\ p < 128 => OneByte(p, EncodeUtf8Point(p))
         /\ p >= 128 /\ p < 2048 => TwoBytes(p, EncodeUtf8Point(p))
         /\ p >= 2048 /\ p < 65536 => ThreeBytes(p, EncodeUtf8Point(p))
         /\ p >= 65536 => FourBytes(p, EncodeUtf8Point(p))
<1>1. p \in Nat /\ p < 2097152
  BY SMT DEF Point
<1>2. ASSUME p < 128 PROVE OneByte(p, EncodeUtf8Point(p))
  BY SMT, <1>1, <1>2 DEF EncodeUtf8Point, OneByte
<1>3. ASSUME p >= 128 /\ p < 2048 PROVE TwoBytes(p, EncodeUtf8Point(p))
  <2>1. EncodeUtf8Point(p) = <<192 + (p \div 64), 128 + (p % 64)>>
    BY SMT, <1>1, <1>3 DEF EncodeUtf8Point
  <2>2. PICK a \in Nat, b \in Nat : a = p \div 64 /\ b = p % 64
    BY SMT, <1>1, Remainders
  <2>3. a < 32 /\ b < 64 /\ p = 64 * a + b
    BY SMT, <1>1, <1>3, <2>2, Remainders
  <2> QED
    BY SMT, <2>1, <2>2, <2>3 DEF TwoBytes
<1>4. ASSUME p >= 2048 /\ p < 65536 PROVE ThreeBytes(p, EncodeUtf8Point(p))
  <2>1. EncodeUtf8Point(p) =
          <<224 + (p \div 4096), 128 + ((p \div 64) % 64), 128 + (p % 64)>>
    BY SMT, <1>1, <1>4 DEF EncodeUtf8Point
  <2>2. PICK a \in Nat, b \in Nat, c \in Nat :
          a = p \div 4096 /\ b = (p \div 64) % 64 /\ c = p % 64
    BY SMT, <1>1, Remainders
  <2>3. a < 16 /\ b < 64 /\ c < 64 /\ p = 4096 * a + 64 * b + c
    BY SMT, <1>1, <1>4, <2>2, Remainders
  <2> QED
    BY SMT, <2>1, <2>2, <2>3 DEF ThreeBytes
<1>5. ASSUME p >= 65536 PROVE FourBytes(p, EncodeUtf8Point(p))
  <2>1. EncodeUtf8Point(p) =
          <<240 + (p \div 262144), 128 + ((p \div 4096) % 64),
            128 + ((p \div 64) % 64), 128 + (p % 64)>>
    BY SMT, <1>1, <1>5 DEF EncodeUtf8Point
  <2>2. PICK a \in Nat, b \in Nat, c \in Nat, d \in Nat :
          a = p \div 262144 /\ b = (p \div 4096) % 64 /\ c = (p \div 64) % 64 /\ d = p % 64
    BY SMT, <1>1, Remainders
  <2>3. a < 8 /\ b < 64 /\ c < 64 /\ d < 64
        /\ p = 262144 * a + 4096 * b + 64 * c + d
    BY SMT, <1>1, <2>2, Remainders
  <2> QED
    BY SMT, <2>1, <2>2, <2>3 DEF FourBytes
<1> QED
  BY SMT, <1>2, <1>3, <1>4, <1>5

\* encodeUtf8Point writes one of the four forms for every code point.
LEMMA SomeForm ==
  ASSUME NEW p \in Point
  PROVE  \/ OneByte(p, EncodeUtf8Point(p)) \/ TwoBytes(p, EncodeUtf8Point(p))
         \/ ThreeBytes(p, EncodeUtf8Point(p)) \/ FourBytes(p, EncodeUtf8Point(p))
<1>1. p \in Nat
  BY SMT DEF Point
<1>2. p < 128 \/ (p >= 128 /\ p < 2048) \/ (p >= 2048 /\ p < 65536) \/ p >= 65536
  BY SMT, <1>1
<1> HIDE DEF Point
<1> QED
  BY SMT, <1>2, EncodedForm

\* e lies in s behind the position o.
At(s, o, e) == o + Len(e) <= Len(s) /\ \A j \in 1..Len(e) : s[o + j] = e[j]

\* The form of one byte is decoded to the code point it was made of, wherever it lies.
LEMMA DecodeOneByte ==
  ASSUME NEW s, NEW o \in Nat, Len(s) \in Nat, NEW p, NEW e, At(s, o, e), OneByte(p, e)
  PROVE  /\ e \in Seq(Byte) /\ Len(e) = 1
         /\ DecodeUtf8Point(s, o + 1) = [point |-> p, next |-> (o + 1) + 1]
<1>1. PICK a \in Nat :
          a < 128 /\ p = a /\ e = <<a>>
  BY SMT DEF OneByte
<1>b. a < 128
  BY SMT, <1>1
<1>p. p = a
  BY SMT, <1>1
<1>e. e = <<a>>
  BY SMT, <1>1
<1>2. Len(e) = 1
  BY SMT, <1>1
<1>3. a \in Byte
  BY SMT, <1>b DEF Byte
<1>4. e \in Seq(Byte)
  BY SMT, <1>e, <1>3
<1>5. o + 1 <= Len(s)
  BY SMT, <1>2 DEF At
<1>6. s[o + 1] = e[1]
  BY SMT, <1>2 DEF At
<1>7. s[o + 1] = a
  BY SMT, <1>e, <1>6
<1>8. Lead(s[o + 1]) = [len |-> 1, bits |-> a]
  <2>1. Lead(a) = [len |-> 1, bits |-> a]
    BY <1>b, Lead1
  <2> QED
    BY <1>7, <2>1
<1>10. p = a
  BY SMT, <1>p
<1>11. DecodeUtf8Point(s, o + 1) = [point |-> a, next |-> (o + 1) + 1]
  BY SMT, <1>5, <1>8, Decoded1
<1> QED
  BY SMT, <1>2, <1>4, <1>10, <1>11

\* The form of two bytes as well.
LEMMA DecodeTwoBytes ==
  ASSUME NEW s, NEW o \in Nat, Len(s) \in Nat, NEW p, NEW e, At(s, o, e), TwoBytes(p, e)
  PROVE  /\ e \in Seq(Byte) /\ Len(e) = 2
         /\ DecodeUtf8Point(s, o + 1) = [point |-> p, next |-> (o + 2) + 1]
<1>1. PICK a \in Nat, b \in Nat :
          a < 32 /\ b < 64 /\ p = 64 * a + b /\ e = <<192 + a, 128 + b>>
  BY SMT DEF TwoBytes
<1>b. a < 32 /\ b < 64
  BY SMT, <1>1
<1>p. p = 64 * a + b
  BY SMT, <1>1
<1>e. e = <<192 + a, 128 + b>>
  BY SMT, <1>1
<1>2. Len(e) = 2
  BY SMT, <1>1
<1>3. 192 + a \in Byte /\ 128 + b \in Byte
  BY SMT, <1>b DEF Byte
<1>4. e \in Seq(Byte)
  BY SMT, <1>e, <1>3
<1>5. o + 2 <= Len(s)
  BY SMT, <1>2 DEF At
<1>6. s[o + 1] = e[1] /\ s[o + 2] = e[2]
  BY SMT, <1>2 DEF At
<1>7. s[o + 1] = 192 + a /\ s[o + 2] = 128 + b
  BY SMT, <1>e, <1>6
<1>8. Lead(s[o + 1]) = [len |-> 2, bits |-> a]
  <2>1. Lead(192 + a) = [len |-> 2, bits |-> a]
    BY <1>b, Lead2
  <2> QED
    BY <1>7, <2>1
<1>9. IsContinuation(s[o + 2])
      /\ s[o + 2] % 64 = b
  BY SMT, <1>b, <1>7, Continuations
<1>10. p = 64 * a + (s[o + 2] % 64)
  BY SMT, <1>p, <1>9
<1>11. DecodeUtf8Point(s, o + 1) = [point |-> 64 * a + (s[o + 2] % 64), next |-> (o + 2) + 1]
  BY SMT, <1>5, <1>8, <1>9, Decoded2
<1> QED
  BY SMT, <1>2, <1>4, <1>10, <1>11

\* The form of three bytes as well.
LEMMA DecodeThreeBytes ==
  ASSUME NEW s, NEW o \in Nat, Len(s) \in Nat, NEW p, NEW e, At(s, o, e), ThreeBytes(p, e)
  PROVE  /\ e \in Seq(Byte) /\ Len(e) = 3
         /\ DecodeUtf8Point(s, o + 1) = [point |-> p, next |-> (o + 3) + 1]
<1>1. PICK a \in Nat, b \in Nat, c \in Nat :
          a < 16 /\ b < 64 /\ c < 64 /\ p = 4096 * a + 64 * b + c /\ e = <<224 + a, 128 + b, 128 + c>>
  BY SMT DEF ThreeBytes
<1>b. a < 16 /\ b < 64 /\ c < 64
  BY SMT, <1>1
<1>p. p = 4096 * a + 64 * b + c
  BY SMT, <1>1
<1>e. e = <<224 + a, 128 + b, 128 + c>>
  BY SMT, <1>1
<1>2. Len(e) = 3
  BY SMT, <1>1
<1>3. 224 + a \in Byte /\ 128 + b \in Byte /\ 128 + c \in Byte
  BY SMT, <1>b DEF Byte
<1>4. e \in Seq(Byte)
  BY SMT, <1>e, <1>3
<1>5. o + 3 <= Len(s)
  BY SMT, <1>2 DEF At
<1>6. s[o + 1] = e[1] /\ s[o + 2] = e[2] /\ s[o + 3] = e[3]
  BY SMT, <1>2 DEF At
<1>7. s[o + 1] = 224 + a /\ s[o + 2] = 128 + b /\ s[o + 3] = 128 + c
  BY SMT, <1>e, <1>6
<1>8. Lead(s[o + 1]) = [len |-> 3, bits |-> a]
  <2>1. Lead(224 + a) = [len |-> 3, bits |-> a]
    BY <1>b, Lead3
  <2> QED
    BY <1>7, <2>1
<1>9. IsContinuation(s[o + 2]) /\ IsContinuation(s[o + 3])
      /\ s[o + 2] % 64 = b /\ s[o + 3] % 64 = c
  BY SMT, <1>b, <1>7, Continuations
<1>10. p = 4096 * a + 64 * (s[o + 2] % 64) + (s[o + 3] % 64)
  BY SMT, <1>p, <1>9
<1>11. DecodeUtf8Point(s, o + 1) = [point |-> 4096 * a + 64 * (s[o + 2] % 64) + (s[o + 3] % 64), next |-> (o + 3) + 1]
  BY SMT, <1>5, <1>8, <1>9, Decoded3
<1> QED
  BY SMT, <1>2, <1>4, <1>10, <1>11

\* The form of four bytes as well.
LEMMA DecodeFourBytes ==
  ASSUME NEW s, NEW o \in Nat, Len(s) \in Nat, NEW p, NEW e, At(s, o, e), FourBytes(p, e)
  PROVE  /\ e \in Seq(Byte) /\ Len(e) = 4
         /\ DecodeUtf8Point(s, o + 1) = [point |-> p, next |-> (o + 4) + 1]
<1>1. PICK a \in Nat, b \in Nat, c \in Nat, d \in Nat :
          a < 8 /\ b < 64 /\ c < 64 /\ d < 64 /\ p = 262144 * a + 4096 * b + 64 * c + d /\ e = <<240 + a, 128 + b, 128 + c, 128 + d>>
  BY SMT DEF FourBytes
<1>b. a < 8 /\ b < 64 /\ c < 64 /\ d < 64
  BY SMT, <1>1
<1>p. p = 262144 * a + 4096 * b + 64 * c + d
  BY SMT, <1>1
<1>e. e = <<240 + a, 128 + b, 128 + c, 128 + d>>
  BY SMT, <1>1
<1>2. Len(e) = 4
  BY SMT, <1>1
<1>3. 240 + a \in Byte /\ 128 + b \in Byte /\ 128 + c \in Byte /\ 128 + d \in Byte
  BY SMT, <1>b DEF Byte
<1>4. e \in Seq(Byte)
  BY SMT, <1>e, <1>3
<1>5. o + 4 <= Len(s)
  BY SMT, <1>2 DEF At
<1>6. s[o + 1] = e[1] /\ s[o + 2] = e[2] /\ s[o + 3] = e[3] /\ s[o + 4] = e[4]
  BY SMT, <1>2 DEF At
<1>7. s[o + 1] = 240 + a /\ s[o + 2] = 128 + b /\ s[o + 3] = 128 + c /\ s[o + 4] = 128 + d
  BY SMT, <1>e, <1>6
<1>8. Lead(s[o + 1]) = [len |-> 4, bits |-> a]
  <2>1. Lead(240 + a) = [len |-> 4, bits |-> a]
    BY <1>b, Lead4
  <2> QED
    BY <1>7, <2>1
<1>9. IsContinuation(s[o + 2]) /\ IsContinuation(s[o + 3]) /\ IsContinuation(s[o + 4])
      /\ s[o + 2] % 64 = b /\ s[o + 3] % 64 = c /\ s[o + 4] % 64 = d
  BY SMT, <1>b, <1>7, Continuations
<1>10. p = 262144 * a + 4096 * (s[o + 2] % 64) + 64 * (s[o + 3] % 64) + (s[o + 4] % 64)
  BY SMT, <1>p, <1>9
<1>11. DecodeUtf8Point(s, o + 1) = [point |-> 262144 * a + 4096 * (s[o + 2] % 64) + 64 * (s[o + 3] % 64) + (s[o + 4] % 64), next |-> (o + 4) + 1]
  BY SMTT(40), <1>5, <1>8, <1>9, Decoded4
<1> QED
  BY SMT, <1>2, <1>4, <1>10, <1>11

\* decodeUtf8Point undoes encodeUtf8Point wherever in a text the bytes lie, and
\* goes on right behind them.
LEMMA DecodeEncoded ==
  ASSUME NEW s, NEW o \in Nat, Len(s) \in Nat, NEW p \in Point,
         At(s, o, EncodeUtf8Point(p))
  PROVE  /\ EncodeUtf8Point(p) \in Seq(Byte) /\ Len(EncodeUtf8Point(p)) \in 1..4
         /\ DecodeUtf8Point(s, o + 1) =
              [point |-> p, next |-> (o + Len(EncodeUtf8Point(p))) + 1]
<1>0. PICK e : e = EncodeUtf8Point(p)
  OBVIOUS
<1>1. At(s, o, e)
  BY <1>0
<1>2. OneByte(p, e) \/ TwoBytes(p, e) \/ ThreeBytes(p, e) \/ FourBytes(p, e)
  BY <1>0, SomeForm
<1>3. \E n \in 1..4 : e \in Seq(Byte) /\ Len(e) = n
                      /\ DecodeUtf8Point(s, o + 1) = [point |-> p, next |-> (o + n) + 1]
  <2>1. CASE OneByte(p, e)
    BY <2>1, <1>1, DecodeOneByte
  <2>2. CASE TwoBytes(p, e)
    BY <2>2, <1>1, DecodeTwoBytes
  <2>3. CASE ThreeBytes(p, e)
    BY <2>3, <1>1, DecodeThreeBytes
  <2>4. CASE FourBytes(p, e)
    BY <2>4, <1>1, DecodeFourBytes
  <2> QED
    BY <1>2, <2>1, <2>2, <2>3, <2>4
<1> QED
  BY <1>0, <1>3

-----------------------------------------------------------------------------
(* Loops over texts.                                                       *)

\* The loop comes by the start of the k-th piece, puts out pieces[k] and goes on behind it.
ComesBy(out, next, N, F, pieces, n) ==
  /\ F[0] = <<>> /\ Len(F[n]) = N
  /\ \A k \in 0..(n - 1) : /\ Len(F[k]) + 1 \in 1..N
                        /\ out[Len(F[k]) + 1] = pieces[k + 1]
                        /\ next[Len(F[k]) + 1] = Len(F[k + 1]) + 1

\* Three sequences one behind the other.
IsJoin(u, s, t) == u = s \o t

\* Put together from the left or from the right, three sequences are the same.
LEMMA ThreeJoined ==
  ASSUME NEW Y, NEW r \in Seq(Y), NEW s \in Seq(Y), NEW t \in Seq(Y),
         NEW st, IsJoin(st, s, t), NEW rst, IsJoin(rst, r, st), NEW rs, IsJoin(rs, r, s)
  PROVE  IsJoin(rst, rs, t)
BY SMTT(40) DEF IsJoin

\* f goes from piece to piece: what it puts out from the start of the k-th one on.
Walks(f, F, pieces, n, N) ==
  /\ F[0] = <<>> /\ f[Len(F[n]) + 1] = <<>>
  /\ \A k \in 0..n : Len(F[k]) + 1 \in 1..(N + 1)
  /\ \A k \in 0..(n - 1) : f[Len(F[k]) + 1] = pieces[k + 1] \o f[Len(F[k + 1]) + 1]

\* A loop that goes on, from the start of each piece of a text, at the start of the
\* next comes by all of them.
LEMMA WalkOfPieces ==
  ASSUME NEW n \in Nat, NEW F, NEW N \in Nat, NEW Y, NEW f \in [1..(N + 1) -> Seq(Y)],
         NEW pieces \in [1..n -> Seq(Y)], Walks(f, F, pieces, n, N)
  PROVE  f[1] = FlattenSeq(pieces)
<1>2. PICK G \in [0..n -> Seq(Y)] : Joins(G, pieces, n)
  BY PrefixesExist
<1> DEFINE T == {k \in 0..n : f[1] = G[k] \o f[Len(F[k]) + 1]}
<1>3. 0 \in T
  <2>1. F[0] = <<>> /\ G[0] = <<>>
    BY <1>2 DEF Walks, Joins
  <2>2. Len(F[0]) + 1 = 1 /\ 1 \in 1..(N + 1) /\ 0 \in 0..n
    BY <2>1
  <2>3. f[1] \in Seq(Y)
    BY <2>2
  <2>4. f[1] = <<>> \o f[1]
    BY <2>3
  <2> QED
    BY <2>1, <2>2, <2>4
<1>4. ASSUME NEW k \in 0..(n - 1), k \in T PROVE k + 1 \in T
  <2>1. k \in 0..n /\ k + 1 \in 0..n /\ k + 1 \in 1..n
    OBVIOUS
  <2>2. PICK a, b : a = f[Len(F[k]) + 1] /\ b = f[Len(F[k + 1]) + 1]
    OBVIOUS
  <2>5. a = pieces[k + 1] \o b
    BY <2>2 DEF Walks
  <2>6. G[k] \in Seq(Y) /\ pieces[k + 1] \in Seq(Y) /\ b \in Seq(Y)
    <3>1. Len(F[k + 1]) + 1 \in 1..(N + 1)
      BY <2>1 DEF Walks
    <3> QED
      BY <2>1, <2>2, <3>1
  <2>7. G[k + 1] = G[k] \o pieces[k + 1]
    BY <1>2 DEF Joins
  <2>8. f[1] = G[k] \o a
    BY <1>4, <2>2
  <2>9. f[1] = G[k + 1] \o b
    <3>1. IsJoin(f[1], G[k], a) /\ IsJoin(a, pieces[k + 1], b) /\ IsJoin(G[k + 1], G[k], pieces[k + 1])
      BY <2>5, <2>7, <2>8 DEF IsJoin
    <3>2. \A c, d \in Seq(Y) : \A e, g, h :
            IsJoin(e, c, d) /\ IsJoin(g, G[k], e) /\ IsJoin(h, G[k], c) => IsJoin(g, h, d)
      BY <2>6, ThreeJoined
    <3>3. \A e, g, h :
            IsJoin(e, pieces[k + 1], b) /\ IsJoin(g, G[k], e) /\ IsJoin(h, G[k], pieces[k + 1])
              => IsJoin(g, h, b)
      BY <2>6, <3>2
    <3>4. IsJoin(f[1], G[k + 1], b)
      BY <3>1, <3>3
    <3> QED
      BY <3>4 DEF IsJoin
  <2> QED
    BY <2>1, <2>2, <2>9, Zenon
<1>5. n \in T
  <2>1. \A k \in 0..n : k \in T
    <3> HIDE DEF T
    <3> QED
      BY <1>3, <1>4, UpTo
  <2> QED
    BY <2>1
<1>6. f[1] = G[n]
  <2>1. G[n] \in Seq(Y)
    OBVIOUS
  <2>2. f[1] = G[n] \o <<>>
    BY <1>5 DEF Walks
  <2> QED
    BY <2>1, <2>2
<1>7. Len(pieces) = n /\ pieces \in Seq(Seq(Y))
  OBVIOUS
<1>8. FlattenSeq(pieces) = G[n]
  BY <1>2, <1>7, FlattenIsLastPrefix
<1> QED
  BY <1>6, <1>8

\* A loop that comes by the start of every piece of a text, and puts out one
\* sequence for each, puts out those sequences one behind the other.
LEMMA ScanOfPieces ==
  ASSUME NEW n \in Nat, NEW F, NEW N \in Nat, NEW Y, NEW out, NEW next, GoesOn(out, next, N, Y),
         NEW pieces \in [1..n -> Seq(Y)],
         ComesBy(out, next, N, F, pieces, n)
  PROVE  Scan(out, next) = FlattenSeq(pieces)
<1>1. PICK f \in [1..(N + 1) -> Seq(Y)] : PutsOut(f, out, next, N)
  BY ScanFunction DEF Scanned
<1>2. \A k \in 0..(n - 1) : /\ Len(F[k]) + 1 \in 1..N
                            /\ f[Len(F[k]) + 1] = pieces[k + 1] \o f[Len(F[k + 1]) + 1]
  <2> SUFFICES ASSUME NEW k \in 0..(n - 1)
               PROVE  /\ Len(F[k]) + 1 \in 1..N
                      /\ f[Len(F[k]) + 1] = pieces[k + 1] \o f[Len(F[k + 1]) + 1]
    OBVIOUS
  <2>1. PICK i \in 1..N : i = Len(F[k]) + 1
    BY DEF ComesBy
  <2>2. out[i] = pieces[k + 1] /\ next[i] = Len(F[k + 1]) + 1
    BY <2>1 DEF ComesBy
  <2>3. f[i] = out[i] \o f[next[i]]
    BY <1>1 DEF PutsOut
  <2> QED
    BY <2>1, <2>2, <2>3
<1>3. F[0] = <<>> /\ Len(F[n]) = N /\ f[N + 1] = <<>>
  BY <1>1 DEF ComesBy, PutsOut
<1>4. \A k \in 0..n : Len(F[k]) + 1 \in 1..(N + 1)
  <2> SUFFICES ASSUME NEW k \in 0..n PROVE Len(F[k]) + 1 \in 1..(N + 1)
    OBVIOUS
  <2>1. CASE k = n
    BY <1>3, <2>1
  <2>2. CASE k # n
    <3>1. k \in 0..(n - 1)
      BY <2>2
    <3>2. Len(F[k]) + 1 \in 1..N
      BY <1>2, <3>1
    <3> QED
      BY <3>2
  <2> QED
    BY <2>1, <2>2
<1>5. Walks(f, F, pieces, n, N)
  BY <1>2, <1>3, <1>4, Zenon DEF Walks
<1>6. f[1] = FlattenSeq(pieces)
  BY SMTT(40), <1>5, WalkOfPieces
<1> QED
  BY <1>1, <1>6 DEF PutsOut

\* Min of a set of natural numbers.
LEMMA LeastOne ==
  ASSUME NEW S \in SUBSET Nat, S # {}
  PROVE  Min(S) \in S /\ \A x \in S : Min(S) <= x
<1> DEFINE R == OpToRel(<, Nat)
<1>1. IsWellFoundedOn(R, Nat)
  BY NatLessThanWellFounded
<1>2. \E x \in S : \A y \in S : ~(<<y, x>> \in R)
  <2> HIDE DEF R
  <2> QED BY <1>1, WFMin
<1>3. PICK x \in S : \A y \in S : ~(y < x)
  BY <1>2 DEF OpToRel
<1>4. \A y \in S : x <= y
  BY <1>3
<1> QED
  BY <1>4 DEF Min

\* What a byte announces as a lead: a length and bits.
Announces(b, l, v) ==
  /\ Lead(b) = [len |-> l, bits |-> v]
  /\ (l = 2 => v < 32) /\ (l = 3 => v < 16) /\ (l = 4 => v < 8)

\* decodeUtf8Point knows every byte as a lead of some form, or as none.
LEMMA LeadForm ==
  ASSUME NEW b \in Byte
  PROVE  \E l \in 0..4, v \in 0..127 : Announces(b, l, v)
<1>1. b \in Nat /\ b < 256
  BY DEF Byte
<1>2. CASE b < 128
  <2>1. Lead(b) = [len |-> 1, bits |-> b]
    BY <1>1, <1>2 DEF Lead
  <2>3. Announces(b, 1, b)
    BY <1>1, <1>2, <2>1 DEF Announces
  <2>4. 1 \in 0..4 /\ b \in 0..127
    BY <1>1, <1>2, <2>1
  <2> QED
    BY <2>3, <2>4, Zenon
<1>3. CASE b >= 128 /\ b \div 32 = 6
  <2>1. Lead(b) = [len |-> 2, bits |-> b % 32]
    BY <1>1, <1>3 DEF Lead
  <2>2. b % 32 \in 0..127 /\ b % 32 < 32
    BY <1>1
  <2>3. Announces(b, 2, b % 32)
    BY <2>1, <2>2 DEF Announces
  <2>4. 2 \in 0..4 /\ b % 32 \in 0..127
    BY <2>1, <2>2
  <2> QED
    BY <2>3, <2>4, Zenon
<1>4. CASE b >= 128 /\ b \div 16 = 14
  <2>1. Lead(b) = [len |-> 3, bits |-> b % 16]
    BY <1>1, <1>4 DEF Lead
  <2>2. b % 16 \in 0..127 /\ b % 16 < 16
    BY <1>1
  <2>3. Announces(b, 3, b % 16)
    BY <2>1, <2>2 DEF Announces
  <2>4. 3 \in 0..4 /\ b % 16 \in 0..127
    BY <2>1, <2>2
  <2> QED
    BY <2>3, <2>4, Zenon
<1>5. CASE b >= 128 /\ b \div 8 = 30
  <2>1. Lead(b) = [len |-> 4, bits |-> b % 8]
    BY <1>1, <1>5 DEF Lead
  <2>2. b % 8 \in 0..127 /\ b % 8 < 8
    BY <1>1
  <2>3. Announces(b, 4, b % 8)
    BY <2>1, <2>2 DEF Announces
  <2>4. 4 \in 0..4 /\ b % 8 \in 0..127
    BY <2>1, <2>2
  <2> QED
    BY <2>3, <2>4, Zenon
<1>6. CASE b >= 128 /\ b \div 32 # 6 /\ b \div 16 # 14 /\ b \div 8 # 30
  <2>1. Lead(b) = [len |-> 0, bits |-> 0]
    BY <1>1, <1>6 DEF Lead
  <2>3. Announces(b, 0, 0)
    BY <2>1 DEF Announces
  <2>4. 0 \in 0..4 /\ 0 \in 0..127
    BY <2>1
  <2> QED
    BY <2>3, <2>4, Zenon
<1> QED
  BY <1>1, <1>2, <1>3, <1>4, <1>5, <1>6

\* The bits that a continuation byte holds.
LEMMA SixBits ==
  ASSUME NEW b \in Byte
  PROVE  b % 64 \in Nat /\ b % 64 < 64
<1>1. b \in Nat
  BY DEF Byte
<1> QED
  BY <1>1

\* No form holds more than 21 bits.
LEMMA PointInRange ==
  ASSUME NEW s, NEW i, NEW len \in 1..4, NEW v \in 0..127,
         Announces(s[i], len, v),
         \A k \in 1..3 : k < len => s[i + k] \in Byte
  PROVE  PointAt(s, i, Lead(s[i])) \in Point
<1>1. PICK lead : lead = Lead(s[i])
  OBVIOUS
<1>2. /\ lead.len = len /\ lead.bits = v
      /\ (len = 2 => v < 32) /\ (len = 3 => v < 16) /\ (len = 4 => v < 8)
  BY <1>1 DEF Announces
<1>3. CASE len = 1
  <2>1. PointAt(s, i, lead) = v
    BY SMT, <1>2, <1>3 DEF PointAt
  <2> QED
    BY SMT, <1>1, <2>1 DEF Point
<1>4. CASE len = 2
  <2>1. PICK x \in Nat : x = s[i + 1] % 64 /\ x < 64
    BY <1>4, SixBits
  <2>2. PointAt(s, i, lead) = 64 * v + x
    BY SMT, <1>2, <1>4, <2>1 DEF PointAt
  <2>3. 64 * v + x \in Nat /\ 64 * v + x < 2097152
    BY SMT, <1>2, <1>4, <2>1
  <2> QED
    BY SMT, <1>1, <2>2, <2>3 DEF Point
<1>5. CASE len = 3
  <2>1. PICK x \in Nat, y \in Nat :
          x = s[i + 1] % 64 /\ y = s[i + 2] % 64 /\ x < 64 /\ y < 64
    BY <1>5, SixBits
  <2>2. PointAt(s, i, lead) = 4096 * v + 64 * x + y
    BY SMT, <1>2, <1>5, <2>1 DEF PointAt
  <2>3. 4096 * v + 64 * x + y \in Nat /\ 4096 * v + 64 * x + y < 2097152
    BY SMT, <1>2, <1>5, <2>1
  <2> QED
    BY SMT, <1>1, <2>2, <2>3 DEF Point
<1>6. CASE len = 4
  <2>1. PICK x \in Nat, y \in Nat, z \in Nat :
          /\ x = s[i + 1] % 64 /\ y = s[i + 2] % 64 /\ z = s[i + 3] % 64
          /\ x < 64 /\ y < 64 /\ z < 64
    BY <1>6, SixBits
  <2>2. PointAt(s, i, lead) = 262144 * v + 4096 * x + 64 * y + z
    BY SMT, <1>2, <1>6, <2>1 DEF PointAt
  <2>3. 262144 * v + 4096 * x + 64 * y + z \in Nat /\ 262144 * v + 4096 * x + 64 * y + z < 2097152
    BY SMT, <1>2, <1>6, <2>1
  <2> QED
    BY SMT, <1>1, <2>2, <2>3 DEF Point
<1> QED
  BY <1>3, <1>4, <1>5, <1>6

\* Whatever the bytes are, decodeUtf8Point goes on further behind, at the latest
\* behind the text, with a code point or with none.
LEMMA DecodeNext ==
  ASSUME NEW s \in Seq(Byte), NEW i \in 1..Len(s)
  PROVE  /\ DecodeUtf8Point(s, i).next \in (i + 1)..(Len(s) + 1)
         /\ DecodeUtf8Point(s, i).point \in Point \union {Invalid}
<1>1. PICK N \in Nat : N = Len(s) /\ i \in 1..N /\ s \in [1..N -> Byte]
  OBVIOUS
<1>2. PICK len \in 0..4, v \in 0..127 : Announces(s[i], len, v)
  BY <1>1, LeadForm
<1> DEFINE last == i + (len - 1)
           bad == {j \in (i + 1)..last : ~IsContinuation(s[j])}
           d == DecodeUtf8Point(s, i)
<1>3. Lead(s[i]).len = len
  BY <1>2 DEF Announces
<1>4. CASE len = 0
  <2>1. d = [point |-> Invalid, next |-> i + 1]
    BY SMT, <1>3, <1>4 DEF DecodeUtf8Point
  <2> QED
    BY SMT, <1>1, <2>1
<1>5. CASE len # 0 /\ last > Len(s)
  <2>1. d = [point |-> Invalid, next |-> Len(s) + 1]
    BY SMT, <1>3, <1>5 DEF DecodeUtf8Point
  <2> QED
    BY SMT, <1>1, <2>1
<1>6. CASE len # 0 /\ ~(last > Len(s)) /\ bad # {}
  <2>1. d = [point |-> Invalid, next |-> Min(bad)]
    BY SMT, <1>3, <1>6 DEF DecodeUtf8Point
  <2>2. bad \in SUBSET Nat /\ \A j \in bad : j \in (i + 1)..(N + 1)
    BY SMT, <1>1, <1>6
  <2>3. Min(bad) \in bad
    <3> HIDE DEF bad
    <3> QED
      BY <1>6, <2>2, LeastOne
  <2>4. Min(bad) \in (i + 1)..(Len(s) + 1)
    <3> HIDE DEF bad
    <3> QED
      BY <1>1, <2>2, <2>3
  <2>5. d.next = Min(bad) /\ d.point = Invalid
    BY <2>1
  <2> HIDE DEF bad
  <2> QED
    BY <2>4, <2>5
<1>7. CASE len # 0 /\ ~(last > Len(s)) /\ bad = {}
  <2>1. d = [point |-> PointAt(s, i, Lead(s[i])), next |-> last + 1]
    BY SMT, <1>3, <1>7 DEF DecodeUtf8Point
  <2>2. d.next \in (i + 1)..(Len(s) + 1)
    <3>1. last + 1 \in (i + 1)..(Len(s) + 1)
      BY SMT, <1>1, <1>7
    <3> HIDE DEF last
    <3> QED
      BY SMT, <2>1, <3>1
  <2>3. \A k \in 1..3 : k < len => s[i + k] \in Byte
    BY SMT, <1>1, <1>7
  <2>4. PointAt(s, i, Lead(s[i])) \in Point
    <3>1. len \in 1..4
      BY SMT, <1>7
    <3> HIDE DEF bad, d, last
    <3> QED
      BY <1>2, <3>1, <2>3, PointInRange
  <2>5. d.point \in Point
    BY SMT, <2>1, <2>4
  <2> QED
    BY <2>2, <2>5
<1> HIDE DEF bad, last
<1> QED
  BY <1>2, <1>4, <1>5, <1>6, <1>7

\* encodeUtf8Point writes one to four bytes.
LEMMA EncodeType ==
  ASSUME NEW p \in Point
  PROVE  EncodeUtf8Point(p) \in Seq(Byte) /\ Len(EncodeUtf8Point(p)) \in 1..4
<1>1. PICK e : e = EncodeUtf8Point(p)
  OBVIOUS
<1>2. Len(e) \in Nat /\ At(e, 0, e)
  <2>1. OneByte(p, e) \/ TwoBytes(p, e) \/ ThreeBytes(p, e) \/ FourBytes(p, e)
    BY <1>1, SomeForm
  <2>2. Len(e) \in Nat
    BY SMT, <2>1 DEF OneByte, TwoBytes, ThreeBytes, FourBytes
  <2> QED
    BY SMT, <2>2 DEF At
<1>3. e \in Seq(Byte) /\ Len(e) \in 1..4
  <2>1. 0 \in Nat
    OBVIOUS
  <2> HIDE DEF Point, Byte
  <2> QED
    BY <1>1, <1>2, <2>1, DecodeEncoded
<1> QED
  BY <1>1, <1>3

\* What sanitizeForAi writes for one code point.
LEMMA KeptType ==
  ASSUME NEW p \in Point \union {Invalid}
  PROVE  Kept(p) \in Seq(Byte)
<1>1. CASE p = Invalid \/ IsZalgoOrBreaking(p)
  BY <1>1 DEF Kept
<1>2. CASE ~(p = Invalid \/ IsZalgoOrBreaking(p))
  BY <1>2, EncodeType DEF Kept
<1> QED
  BY <1>1, <1>2

\* The loop of sanitizeForAi: what it puts out, and where it goes on.
Out(s) == [i \in DOMAIN s |-> Kept(DecodeUtf8Point(s, i).point)]
Then(s) == [i \in DOMAIN s |-> DecodeUtf8Point(s, i).next]

\* sanitizeForAi is a loop that goes on further behind.
LEMMA SanitizeLoop ==
  ASSUME NEW s \in Seq(Byte), NEW N \in Nat, N = Len(s)
  PROVE  /\ GoesOn(Out(s), Then(s), N, Byte)
         /\ SanitizeForAi(s) = Scan(Out(s), Then(s))
<1>1. DOMAIN s = 1..N
  OBVIOUS
<1>2. \A i \in 1..N : /\ DecodeUtf8Point(s, i).next \in (i + 1)..(N + 1)
                      /\ Kept(DecodeUtf8Point(s, i).point) \in Seq(Byte)
  BY DecodeNext, KeptType
<1>3. Out(s) \in [1..N -> Seq(Byte)]
  BY <1>1, <1>2 DEF Out
<1>4. Then(s) \in [1..N -> Nat] /\ \A i \in 1..N : Then(s)[i] \in (i + 1)..(N + 1)
  BY <1>1, <1>2 DEF Then
<1>5. GoesOn(Out(s), Then(s), N, Byte)
  BY <1>3, <1>4 DEF GoesOn
<1>6. SanitizeForAi(s) = Scan(Out(s), Then(s))
  <2> DEFINE at == [i \in DOMAIN s |-> DecodeUtf8Point(s, i)]
  <2>1. [i \in DOMAIN s |-> Kept(at[i].point)] = Out(s)
    BY DEF Out
  <2>2. [i \in DOMAIN s |-> at[i].next] = Then(s)
    BY DEF Then
  <2>3. SanitizeForAi(s) = Scan([i \in DOMAIN s |-> Kept(at[i].point)], [i \in DOMAIN s |-> at[i].next])
    BY Zenon DEF SanitizeForAi
  <2> HIDE DEF at
  <2> QED
    BY <2>1, <2>2, <2>3
<1> QED
  BY <1>5, <1>6

\* The code points of a text as encoded pieces.
Pieces(points) == [i \in DOMAIN points |-> EncodeUtf8Point(points[i])]

\* A text is made of its encoded characters.
LEMMA PiecesType ==
  ASSUME NEW points \in Seq(Point), NEW n \in Nat, n = Len(points)
  PROVE  /\ points \in [1..n -> Point]
         /\ Pieces(points) \in [1..n -> Seq(Byte)]
         /\ Pieces(points) \in Seq(Seq(Byte)) /\ Len(Pieces(points)) = n
         /\ \A i \in 1..n : /\ Pieces(points)[i] = EncodeUtf8Point(points[i])
                            /\ Len(Pieces(points)[i]) \in 1..4
         /\ Bytes(points) = FlattenSeq(Pieces(points))
<1> HIDE DEF Point, Byte
<1>1. points \in [1..n -> Point] /\ DOMAIN points = 1..n
  OBVIOUS
<1>2. \A i \in 1..n : /\ EncodeUtf8Point(points[i]) \in Seq(Byte)
                      /\ Len(EncodeUtf8Point(points[i])) \in 1..4
  BY <1>1, EncodeType
<1>3. /\ Pieces(points) \in [1..n -> Seq(Byte)]
      /\ \A i \in 1..n : Pieces(points)[i] = EncodeUtf8Point(points[i])
  BY <1>1, <1>2 DEF Pieces
<1>4. Pieces(points) \in Seq(Seq(Byte)) /\ Len(Pieces(points)) = n
  BY <1>3
<1>5. Bytes(points) = FlattenSeq(Pieces(points))
  BY Zenon DEF Bytes, Pieces
<1> QED
  BY <1>1, <1>2, <1>3, <1>4, <1>5

\* The encoded text of the first characters is where FlattenSeq is after them.
LEMMA BytesPrefix ==
  ASSUME NEW points \in Seq(Point), NEW n \in Nat, n = Len(points),
         NEW F \in [0..n -> Seq(Byte)], Joins(F, Pieces(points), n)
  PROVE  Bytes(points) = F[n] /\ F[n] \in Seq(Byte)
<1> HIDE DEF Point, Byte
<1>1. PICK ss \in Seq(Seq(Byte)) : ss = Pieces(points) /\ Len(ss) = n
  BY PiecesType
<1>2. Joins(F, ss, Len(ss)) /\ F \in [0..Len(ss) -> Seq(Byte)]
  BY <1>1
<1>3. FlattenSeq(ss) = F[Len(ss)]
  BY <1>2, FlattenIsLastPrefix
<1>4. Bytes(points) = FlattenSeq(ss)
  BY <1>1, PiecesType
<1>5. F[n] \in Seq(Byte)
  OBVIOUS
<1> QED
  BY <1>1, <1>3, <1>4, <1>5

\* The encoded text decodes, from the start of each character, to its code point,
\* and goes on at the start of the next.
LEMMA DecodeAtCharacter ==
  ASSUME NEW points \in Seq(Point), NEW n \in Nat, n = Len(points),
         NEW F \in [0..n -> Seq(Byte)], Joins(F, Pieces(points), n), NEW k \in 0..(n - 1)
  PROVE  /\ Bytes(points) = F[n] /\ Len(F[k]) + 1 \in 1..Len(F[n])
         /\ DecodeUtf8Point(Bytes(points), Len(F[k]) + 1) =
              [point |-> points[k + 1], next |-> Len(F[k + 1]) + 1]
<1> HIDE DEF Point, Byte
<1>1. PICK ss \in Seq(Seq(Byte)) : ss = Pieces(points) /\ Len(ss) = n
  BY PiecesType
<1>2. PICK s : s = Bytes(points) /\ s = FlattenSeq(ss) /\ s = F[n]
  <2>1. Joins(F, ss, Len(ss)) /\ F \in [0..Len(ss) -> Seq(Byte)]
    BY <1>1
  <2>2. FlattenSeq(ss) = F[Len(ss)]
    BY <2>1, FlattenIsLastPrefix
  <2>3. Bytes(points) = FlattenSeq(ss)
    BY <1>1, PiecesType
  <2> QED
    BY <1>1, <2>2, <2>3
<1>3. /\ Len(F[k]) + Len(ss[k + 1]) = Len(F[k + 1])
      /\ Len(F[k + 1]) <= Len(s)
      /\ \A j \in 1..Len(ss[k + 1]) : s[Len(F[k]) + j] = ss[k + 1][j]
  <2>1. F \in [0..Len(ss) -> Seq(Byte)] /\ Joins(F, ss, Len(ss)) /\ k \in 0..(Len(ss) - 1)
    BY <1>1
  <2>2. LiesBehind(FlattenSeq(ss), F, k, ss[k + 1])
    BY <2>1, FlattenAt
  <2> QED
    BY <1>2, <2>2 DEF LiesBehind
<1>4. PICK p \in Point : p = points[k + 1] /\ ss[k + 1] = EncodeUtf8Point(p) /\ Len(ss[k + 1]) \in 1..4
  <2>1. k + 1 \in 1..n
    OBVIOUS
  <2> QED
    BY <1>1, <2>1, PiecesType
<1>5. PICK o \in Nat : o = Len(F[k])
  <2>1. F[k] \in Seq(Byte)
    OBVIOUS
  <2> QED
    BY <2>1
<1>6. s \in Seq(Byte) /\ Len(s) \in Nat
  <2>1. F[n] \in Seq(Byte)
    OBVIOUS
  <2> QED
    BY <1>2, <2>1
<1>7. At(s, o, EncodeUtf8Point(p))
  BY <1>3, <1>4, <1>5 DEF At
<1>8. DecodeUtf8Point(s, o + 1) = [point |-> p, next |-> (o + Len(EncodeUtf8Point(p))) + 1]
  BY <1>6, <1>7, DecodeEncoded
<1>9. o + Len(EncodeUtf8Point(p)) = Len(F[k + 1])
  BY <1>3, <1>4, <1>5
<1>10. o + 1 \in 1..Len(s)
  <2>1. PICK l \in 1..4 : l = Len(ss[k + 1])
    BY <1>4
  <2>2. o + l = Len(F[k + 1]) /\ o + l <= Len(s)
    BY <1>3, <1>5, <2>1
  <2> QED
    BY <1>6, <2>2
<1> QED
  BY <1>2, <1>4, <1>5, <1>8, <1>9, <1>10

-----------------------------------------------------------------------------
(* Texts put together.                                                     *)

\* uu is ss and then tt.
Follow(uu, ss, tt, n, m) ==
  /\ Len(uu) = n + m
  /\ \A i \in 1..n : uu[i] = ss[i]
  /\ \A j \in 1..m : uu[n + j] = tt[j]

\* FlattenSeq of sequences over X is a sequence over X.
LEMMA FlattenType ==
  ASSUME NEW X, NEW ss \in Seq(Seq(X))
  PROVE  FlattenSeq(ss) \in Seq(X)
<1>1. PICK n \in Nat : n = Len(ss) /\ ss \in [1..n -> Seq(X)]
  OBVIOUS
<1>2. PICK F \in [0..n -> Seq(X)] : Joins(F, ss, n)
  BY <1>1, PrefixesExist
<1>3. FlattenSeq(ss) = F[n]
  BY <1>1, <1>2, FlattenIsLastPrefix
<1>4. F[n] \in Seq(X)
  OBVIOUS
<1> QED
  BY <1>3, <1>4

\* FlattenSeq goes through two lists of sequences one after the other.
LEMMA FlattenFollow ==
  ASSUME NEW X, NEW ss \in Seq(Seq(X)), NEW tt \in Seq(Seq(X)), NEW uu \in Seq(Seq(X)),
         Follow(uu, ss, tt, Len(ss), Len(tt))
  PROVE  IsJoin(FlattenSeq(uu), FlattenSeq(ss), FlattenSeq(tt))
<1>1. PICK n \in Nat, m \in Nat, l \in Nat :
        /\ n = Len(ss) /\ m = Len(tt) /\ l = n + m
        /\ ss \in [1..n -> Seq(X)] /\ tt \in [1..m -> Seq(X)]
  BY SMTT(40)
<1>2. Len(uu) = l /\ uu \in [1..l -> Seq(X)]
  BY <1>1 DEF Follow
<1>3. /\ \A i \in 1..n : uu[i] = ss[i]
      /\ \A j \in 1..m : uu[n + j] = tt[j]
  BY <1>1 DEF Follow
<1>4. PICK F \in [0..n -> Seq(X)] : Joins(F, ss, n)
  BY <1>1, PrefixesExist
<1>5. PICK G \in [0..m -> Seq(X)] : Joins(G, tt, m)
  BY <1>1, PrefixesExist
<1>6. PICK H \in [0..l -> Seq(X)] : Joins(H, uu, l)
  BY <1>2, PrefixesExist
<1>7. H[n] = F[n]
  <2>1. Joins(H, ss, n)
    <3>1. \A i \in 0..(n - 1) : i \in 0..(l - 1) /\ i + 1 \in 1..n
      BY <1>1
    <3>2. \A i \in 0..(n - 1) : H[i + 1] = H[i] \o uu[i + 1] /\ uu[i + 1] = ss[i + 1]
      BY <1>3, <1>6, <3>1, Zenon DEF Joins
    <3>3. \A i \in 0..(n - 1) : H[i + 1] = H[i] \o ss[i + 1]
      BY <3>2, Zenon
    <3>4. H[0] = <<>>
      BY <1>6 DEF Joins
    <3> QED
      BY <3>3, <3>4, Zenon DEF Joins
  <2>2. n \in 0..n
    OBVIOUS
  <2>3. \A f, g : Joins(f, ss, n) /\ Joins(g, ss, n) => \A k \in 0..n : f[k] = g[k]
    BY PrefixesUnique
  <2>4. \A g : Joins(g, ss, n) => \A k \in 0..n : F[k] = g[k]
    BY <1>4, <2>3
  <2> QED
    BY <2>1, <2>2, <2>4
<1>8. F[n] \in Seq(X)
  OBVIOUS
<1> DEFINE T == {k \in 0..m : IsJoin(H[n + k], F[n], G[k])}
<1>9. 0 \in T
  <2>1. G[0] = <<>> /\ n + 0 = n
    BY <1>5 DEF Joins
  <2>2. F[n] = F[n] \o <<>>
    BY <1>8
  <2>3. IsJoin(H[n + 0], F[n], G[0])
    BY <1>7, <2>1, <2>2, Zenon DEF IsJoin
  <2>4. 0 \in 0..m
    OBVIOUS
  <2> QED
    BY <2>3, <2>4, Zenon
<1>10. ASSUME NEW k \in 0..(m - 1), k \in T PROVE k + 1 \in T
  <2>1. k \in 0..m /\ k + 1 \in 0..m /\ k + 1 \in 1..m /\ n + k \in 0..(l - 1)
        /\ n + (k + 1) = (n + k) + 1
    BY <1>1
  <2>2. G[k] \in Seq(X) /\ tt[k + 1] \in Seq(X)
    BY <1>1, <2>1
  <2>3. /\ IsJoin(G[k + 1], G[k], tt[k + 1])
        /\ IsJoin(H[n + (k + 1)], H[n + k], tt[k + 1])
    BY <1>3, <1>5, <1>6, <2>1 DEF Joins, IsJoin
  <2>4. IsJoin(H[n + k], F[n], G[k])
    BY <1>10
  <2>5. PICK h : IsJoin(h, F[n], G[k + 1])
    BY DEF IsJoin
  <2>6. \A c \in Seq(X) : \A st, rst, rs :
          IsJoin(st, G[k], c) /\ IsJoin(rst, F[n], st) /\ IsJoin(rs, F[n], G[k])
            => IsJoin(rst, rs, c)
    BY <1>8, <2>2, ThreeJoined
  <2>7. \A st, rst, rs :
          IsJoin(st, G[k], tt[k + 1]) /\ IsJoin(rst, F[n], st) /\ IsJoin(rs, F[n], G[k])
            => IsJoin(rst, rs, tt[k + 1])
    BY <2>2, <2>6
  <2>8. IsJoin(h, H[n + k], tt[k + 1])
    BY <2>3, <2>4, <2>5, <2>7
  <2>9. h = H[n + (k + 1)]
    BY <2>3, <2>8 DEF IsJoin
  <2> QED
    BY <2>1, <2>5, <2>9
<1>11. m \in T
  <2>1. \A k \in 0..m : k \in T
    <3> HIDE DEF T
    <3> QED
      BY <1>9, <1>10, UpTo
  <2> QED
    BY <2>1
<1>12. FlattenSeq(ss) = F[n] /\ FlattenSeq(tt) = G[m]
  BY <1>1, <1>4, <1>5, FlattenIsLastPrefix
<1>13. FlattenSeq(uu) = H[l]
  BY <1>2, <1>6, FlattenIsLastPrefix
<1>14. IsJoin(H[l], F[n], G[m])
  BY <1>1, <1>11
<1> QED
  BY <1>12, <1>13, <1>14

\* FlattenSeq of one sequence is that sequence.
LEMMA FlattenOne ==
  ASSUME NEW X, NEW e \in Seq(X)
  PROVE  FlattenSeq(<<e>>) = e
<1>0. <<e>> \in Seq(Seq(X))
  OBVIOUS
<1>1. PICK ss \in Seq(Seq(X)) : ss = <<e>>
  BY <1>0
<1>2. PICK F \in [0..1 -> Seq(X)] : Joins(F, ss, 1)
  <2>1. ss \in [1..1 -> Seq(X)]
    BY <1>1
  <2> QED
    BY <2>1, PrefixesExist
<1>3. F[1] = e
  <2>1. F[0] = <<>> /\ F[1] = F[0] \o ss[1]
    <3>1. 0 \in 0..(1 - 1) /\ 0 + 1 = 1
      OBVIOUS
    <3>2. F[0 + 1] = F[0] \o ss[0 + 1]
      BY <1>2, <3>1 DEF Joins
    <3> QED
      BY <1>2, <3>1, <3>2 DEF Joins
  <2>2. ss[1] = e
    BY <1>1
  <2> QED
    BY <2>1, <2>2
<1>4. Len(ss) = 1
  BY <1>1
<1> QED
  BY <1>1, <1>2, <1>3, <1>4, FlattenIsLastPrefix

\* FlattenSeq of none is empty.
LEMMA FlattenNone == FlattenSeq(<<>>) = <<>>
BY DEF FlattenSeq

\* Two texts one behind the other are encoded one behind the other.
LEMMA BytesConcat ==
  ASSUME NEW u \in Seq(Point), NEW v \in Seq(Point), NEW w \in Seq(Point), w = u \o v
  PROVE  Bytes(w) = Bytes(u) \o Bytes(v)
<1> HIDE DEF Point, Byte
<1>1. PICK n \in Nat, m \in Nat, l \in Nat : n = Len(u) /\ m = Len(v) /\ l = n + m
  OBVIOUS
<1>2. Len(w) = l /\ (\A i \in 1..n : w[i] = u[i]) /\ (\A j \in 1..m : w[n + j] = v[j])
  BY <1>1, Concat
<1>3. PICK ss \in Seq(Seq(Byte)), tt \in Seq(Seq(Byte)), uu \in Seq(Seq(Byte)) :
        ss = Pieces(u) /\ tt = Pieces(v) /\ uu = Pieces(w)
  BY <1>1, <1>2, PiecesType
<1>4. Len(ss) = n /\ Len(tt) = m /\ Len(uu) = l
  BY <1>1, <1>2, <1>3, PiecesType
<1>5. /\ \A i \in 1..n : ss[i] = EncodeUtf8Point(u[i])
      /\ \A i \in 1..m : tt[i] = EncodeUtf8Point(v[i])
      /\ \A i \in 1..l : uu[i] = EncodeUtf8Point(w[i])
  BY <1>1, <1>2, <1>3, PiecesType
<1>6. (\A i \in 1..n : i \in 1..l) /\ (\A j \in 1..m : n + j \in 1..l)
  BY <1>1
<1>7. Follow(uu, ss, tt, n, m)
  <2>1. ASSUME NEW i \in 1..n PROVE uu[i] = ss[i]
    BY Zenon, <1>2, <1>5, <1>6
  <2>2. ASSUME NEW j \in 1..m PROVE uu[n + j] = tt[j]
    BY Zenon, <1>2, <1>5, <1>6
  <2>3. Len(uu) = n + m
    BY Zenon, <1>1, <1>4
  <2> QED
    BY Zenon, <2>1, <2>2, <2>3 DEF Follow
<1>8. IsJoin(FlattenSeq(uu), FlattenSeq(ss), FlattenSeq(tt))
  BY <1>4, <1>7, FlattenFollow
<1>9. Bytes(u) = FlattenSeq(ss) /\ Bytes(v) = FlattenSeq(tt) /\ Bytes(w) = FlattenSeq(uu)
  BY <1>1, <1>2, <1>3, PiecesType
<1> QED
  BY <1>8, <1>9 DEF IsJoin

\* A text of one character is encoded as that character.
LEMMA BytesOne ==
  ASSUME NEW p \in Point
  PROVE  Bytes(<<p>>) = EncodeUtf8Point(p)
<1> HIDE DEF Point, Byte
<1>0. <<p>> \in Seq(Point)
  OBVIOUS
<1>1. PICK q \in Seq(Point), one \in Nat : q = <<p>> /\ Len(q) = one /\ q[1] = p /\ one = 1
  BY <1>0
<1>2. /\ Pieces(q) \in [1..one -> Seq(Byte)]
      /\ \A i \in 1..one : Pieces(q)[i] = EncodeUtf8Point(q[i])
      /\ Bytes(q) = FlattenSeq(Pieces(q))
  BY <1>1, PiecesType
<1>3. Pieces(q) = <<EncodeUtf8Point(p)>>
  <2>1. Pieces(q) \in [1..1 -> Seq(Byte)] /\ Pieces(q)[1] = EncodeUtf8Point(p)
    BY <1>1, <1>2
  <2>2. PICK ss \in [1..1 -> Seq(Byte)] : ss = Pieces(q) /\ ss[1] = EncodeUtf8Point(p)
    BY <2>1
  <2>3. ss = <<ss[1]>>
    OBVIOUS
  <2> QED
    BY <2>2, <2>3
<1> QED
  BY <1>1, <1>2, <1>3, EncodeType, FlattenOne

\* A text of one more character.
LEMMA BytesCons ==
  ASSUME NEW p \in Point, NEW q \in Seq(Point), NEW pq, pq = <<p>> \o q
  PROVE  pq \in Seq(Point) /\ Bytes(pq) = EncodeUtf8Point(p) \o Bytes(q)
<1> HIDE DEF Point, Byte
<1>1. <<p>> \in Seq(Point) /\ pq \in Seq(Point)
  OBVIOUS
<1>2. Bytes(pq) = Bytes(<<p>>) \o Bytes(q)
  BY <1>1, BytesConcat
<1> QED
  BY <1>1, <1>2, BytesOne

-----------------------------------------------------------------------------
(* What sanitizeForAi keeps and what it drops.                             *)

\* What sanitizeForAi writes for each code point.
KeptPieces(points) == [i \in DOMAIN points |-> Kept(points[i])]

\* Of a well-formed text sanitizeForAi (helpers.cpp) keeps the code points that are
\* wanted, in their order, and nothing else.
THEOREM SanitizeKeeps ==
  ASSUME NEW points \in Seq(Point)
  PROVE  SanitizeForAi(Bytes(points)) = FlattenSeq(KeptPieces(points))
<1> HIDE DEF Point, Byte
<1>1. PICK n \in Nat : n = Len(points) /\ points \in [1..n -> Point]
  OBVIOUS
<1>2. PICK ss \in [1..n -> Seq(Byte)] : ss = Pieces(points)
  BY <1>1, PiecesType
<1>3. PICK F \in [0..n -> Seq(Byte)] : Joins(F, ss, n)
  BY PrefixesExist
<1>4. \A k \in 0..(n - 1) :
        /\ Bytes(points) = F[n] /\ Len(F[k]) + 1 \in 1..Len(F[n])
        /\ DecodeUtf8Point(Bytes(points), Len(F[k]) + 1) =
             [point |-> points[k + 1], next |-> Len(F[k + 1]) + 1]
  BY ZenonT(40), <1>1, <1>2, <1>3, DecodeAtCharacter
<1>5. Bytes(points) = F[n]
  <2>1. ss \in Seq(Seq(Byte)) /\ Len(ss) = n /\ Bytes(points) = FlattenSeq(ss)
    BY <1>1, <1>2, PiecesType
  <2> QED
    BY <1>3, <2>1, FlattenIsLastPrefix
<1>6. PICK s \in Seq(Byte), N \in Nat : s = Bytes(points) /\ s = F[n] /\ N = Len(s)
  <2>1. F[n] \in Seq(Byte)
    OBVIOUS
  <2> QED
    BY <1>5, <2>1
<1>7. GoesOn(Out(s), Then(s), N, Byte) /\ SanitizeForAi(s) = Scan(Out(s), Then(s))
  BY <1>6, SanitizeLoop
<1>8. KeptPieces(points) \in [1..n -> Seq(Byte)]
  BY <1>1, KeptType DEF KeptPieces
<1>9. ComesBy(Out(s), Then(s), N, F, KeptPieces(points), n)
  <2> SUFFICES ASSUME NEW k \in 0..(n - 1)
               PROVE  /\ Len(F[k]) + 1 \in 1..N
                      /\ Out(s)[Len(F[k]) + 1] = KeptPieces(points)[k + 1]
                      /\ Then(s)[Len(F[k]) + 1] = Len(F[k + 1]) + 1
    <3>1. F[0] = <<>> /\ Len(F[n]) = N
      BY <1>3, <1>6 DEF Joins
    <3> QED
      BY <3>1 DEF ComesBy
  <2>1. PICK i \in 1..N : i = Len(F[k]) + 1
    BY <1>4, <1>6
  <2>2. DecodeUtf8Point(s, i) = [point |-> points[k + 1], next |-> Len(F[k + 1]) + 1]
    BY <1>4, <1>6, <2>1
  <2>3. DOMAIN s = 1..N /\ DOMAIN points = 1..n /\ k + 1 \in 1..n
    BY <1>1, <1>6
  <2>4. Out(s)[i] = Kept(points[k + 1])
    BY <2>2, <2>3 DEF Out
  <2>5. Then(s)[i] = Len(F[k + 1]) + 1
    BY <2>2, <2>3 DEF Then
  <2>6. KeptPieces(points)[k + 1] = Kept(points[k + 1])
    BY <2>3 DEF KeptPieces
  <2> QED
    BY <2>1, <2>4, <2>5, <2>6
<1>10. Scan(Out(s), Then(s)) = FlattenSeq(KeptPieces(points))
  <2>1. PICK out, next, pieces :
          out = Out(s) /\ next = Then(s) /\ pieces = KeptPieces(points)
    OBVIOUS
  <2>2. pieces \in [1..n -> Seq(Byte)]
    BY <1>8, <2>1
  <2>3. GoesOn(out, next, N, Byte) /\ ComesBy(out, next, N, F, pieces, n)
    BY <1>7, <1>9, <2>1
  <2>5. Scan(out, next) = FlattenSeq(pieces)
    BY <2>2, <2>3, ScanOfPieces
  <2> QED
    BY <2>1, <2>5
<1> QED
  BY <1>6, <1>7, <1>10

\* The code points that the AI gets to see.
Clean == {p \in Point : ~IsZalgoOrBreaking(p)}

\* decodeUtf8Point of what encodeUtf8Point writes (helpers.cpp) is the code point it
\* was written for, and all of the bytes are used.
THEOREM CodecRoundTrip ==
  ASSUME NEW p \in Point, NEW e, e = EncodeUtf8Point(p)
  PROVE  e \in Seq(Byte) /\ DecodeUtf8Point(e, 1) = [point |-> p, next |-> Len(e) + 1]
<1> HIDE DEF Point, Byte
<1>1. e \in Seq(Byte) /\ Len(e) \in 1..4
  BY EncodeType
<1>2. At(e, 0, e)
  BY <1>1 DEF At
<1>3. 0 \in Nat /\ Len(e) \in Nat /\ 0 + 1 = 1 /\ 0 + Len(e) = Len(e)
  BY <1>1
<1>4. DecodeUtf8Point(e, 0 + 1) = [point |-> p, next |-> (0 + Len(e)) + 1]
  BY <1>2, <1>3, DecodeEncoded
<1> QED
  BY <1>1, <1>3, <1>4

\* sanitizeForAi writes the clean code points and no others.
LEMMA CleanPoints ==
  /\ \A p \in Clean : p \in Point /\ Kept(p) = EncodeUtf8Point(p)
  /\ \A p \in Point \union {Invalid} : p \notin Clean => Kept(p) = <<>>
<1>1. \A p \in Point : p # Invalid
  BY SMT DEF Point, Invalid
<1> HIDE DEF Point, Invalid, IsZalgoOrBreaking
<1>2. \A p \in Clean : p \in Point /\ Kept(p) = EncodeUtf8Point(p)
  BY <1>1 DEF Clean, Kept
<1>3. \A p \in Point \union {Invalid} : p \notin Clean => Kept(p) = <<>>
  BY DEF Clean, Kept
<1> QED
  BY <1>2, <1>3

\* A text of clean code points is what sanitizeForAi keeps of it.
LEMMA CleanTexts ==
  ASSUME NEW q \in Seq(Clean)
  PROVE  q \in Seq(Point) /\ FlattenSeq(KeptPieces(q)) = Bytes(q)
<1>1. \A p \in Clean : p \in Point /\ Kept(p) = EncodeUtf8Point(p)
  BY CleanPoints
<1>2. q \in Seq(Point)
  BY <1>1
<1>3. KeptPieces(q) = Pieces(q)
  <2>1. \A i \in DOMAIN q : Kept(q[i]) = EncodeUtf8Point(q[i])
    <3>1. \A i \in DOMAIN q : q[i] \in Clean
      OBVIOUS
    <3> QED
      BY <1>1, <3>1
  <2> QED
    BY <2>1 DEF KeptPieces, Pieces
<1>4. Bytes(q) = FlattenSeq(Pieces(q))
  BY Zenon DEF Bytes, Pieces
<1> QED
  BY <1>2, <1>3, <1>4

\* The text is made of clean code points.
CleanTextsOf(t) == \E q \in Seq(Clean) : t = Bytes(q)

\* Whatever the bytes are, truncated and overlong forms included, what sanitizeForAi
\* (helpers.cpp) makes of them encodes a sequence of code points of up to 21 bits, and
\* none of them is unwanted.
THEOREM SanitizeCleans ==
  ASSUME NEW s \in Seq(Byte)
  PROVE  CleanTextsOf(SanitizeForAi(s))
<1> HIDE DEF Point, Byte, Clean, Invalid
<1>1. PICK N \in Nat : N = Len(s) /\ DOMAIN s = 1..N
  OBVIOUS
<1>2. GoesOn(Out(s), Then(s), N, Byte) /\ SanitizeForAi(s) = Scan(Out(s), Then(s))
  BY <1>1, SanitizeLoop
<1>3. PICK f \in [1..(N + 1) -> Seq(Byte)] : PutsOut(f, Out(s), Then(s), N)
  BY <1>2, ScanFunction DEF Scanned
<1> DEFINE T == {i \in 1..(N + 1) : CleanTextsOf(f[i])}
<1>4. ASSUME NEW i \in 1..(N + 1), \A j \in (i + 1)..(N + 1) : j \in T PROVE i \in T
  <2>1. CASE i = N + 1
    <3>1. f[i] = <<>>
      BY <1>3, <2>1 DEF PutsOut
    <3>2. <<>> \in Seq(Clean) /\ Bytes(<<>>) = <<>>
      <4>1. [j \in DOMAIN <<>> |-> EncodeUtf8Point(<<>>[j])] = <<>>
        OBVIOUS
      <4>2. Bytes(<<>>) = FlattenSeq(<<>>)
        BY <4>1 DEF Bytes
      <4>3. FlattenSeq(<<>>) = <<>>
        BY DEF FlattenSeq
      <4> QED
        BY <4>2, <4>3
    <3> QED
      BY <3>1, <3>2 DEF CleanTextsOf
  <2>2. CASE i # N + 1
    <3>1. i \in 1..N
      BY <2>2
    <3>2. PICK next \in (i + 1)..(N + 1) : next = Then(s)[i]
      BY <1>2, <3>1 DEF GoesOn
    <3>3. PICK q \in Seq(Clean) : f[next] = Bytes(q)
      <4>1. next \in T
        BY <1>4, <3>2
      <4> QED
        BY <4>1 DEF CleanTextsOf
    <3>4. PICK p \in Point \union {Invalid} : p = DecodeUtf8Point(s, i).point
      BY <1>1, <3>1, DecodeNext
    <3>5. f[i] = Kept(p) \o Bytes(q)
      <4>1. Out(s)[i] = Kept(p)
        BY <1>1, <3>1, <3>4 DEF Out
      <4> QED
        BY <1>3, <3>1, <3>2, <3>3, <4>1 DEF PutsOut
    <3>6. q \in Seq(Point)
      BY CleanTexts
    <3>7. CASE p \in Clean
      <4>1. PICK pq : pq = <<p>> \o q
        OBVIOUS
      <4>2. p \in Point /\ Kept(p) = EncodeUtf8Point(p)
        BY <3>7, CleanPoints
      <4>3. Bytes(pq) = EncodeUtf8Point(p) \o Bytes(q)
        BY <3>6, <4>1, <4>2, BytesCons
      <4>4. pq \in Seq(Clean)
        BY <3>7, <4>1
      <4>5. f[i] = Bytes(pq)
        BY <3>5, <4>2, <4>3
      <4>6. CleanTextsOf(f[i])
        BY <4>4, <4>5 DEF CleanTextsOf
      <4> QED
        BY <4>6
    <3>8. CASE p \notin Clean
      <4>1. Kept(p) = <<>>
        BY <3>8, CleanPoints
      <4>2. f[next] \in Seq(Byte)
        BY <3>2
      <4>3. <<>> \o f[next] = f[next]
        BY <4>2
      <4>4. f[i] = Bytes(q)
        BY <3>3, <3>5, <4>1, <4>3
      <4>5. CleanTextsOf(f[i])
        BY <4>4 DEF CleanTextsOf
      <4> QED
        BY <4>5
    <3> QED
      BY <3>7, <3>8
  <2> QED
    BY <2>1, <2>2
<1>5. \A i \in 1..(N + 1) : i \in T
  <2>1. N + 1 \in Nat
    OBVIOUS
  <2> HIDE DEF T
  <2> QED
    BY <1>4, <2>1, DownTo
<1>6. CleanTextsOf(f[1])
  <2>1. 1 \in 1..(N + 1)
    OBVIOUS
  <2> QED
    BY <1>5, <2>1
<1> QED
  BY <1>2, <1>3, <1>6 DEF PutsOut

\* Sanitised twice is sanitised once (sanitizeForAi): a text of the history that is
\* sanitised again with the request for /ai stays as it is.
THEOREM SanitizeIsIdempotent ==
  ASSUME NEW s \in Seq(Byte)
  PROVE  SanitizeForAi(SanitizeForAi(s)) = SanitizeForAi(s)
<1>1. PICK q \in Seq(Clean) : SanitizeForAi(s) = Bytes(q)
  BY SanitizeCleans DEF CleanTextsOf
<1>2. q \in Seq(Point) /\ FlattenSeq(KeptPieces(q)) = Bytes(q)
  BY CleanTexts
<1>3. SanitizeForAi(Bytes(q)) = FlattenSeq(KeptPieces(q))
  BY <1>2, SanitizeKeeps
<1> QED
  BY <1>1, <1>2, <1>3

-----------------------------------------------------------------------------
(* One text for each sequence of bytes, and words.                         *)

\* The pieces that a text is encoded in, and what FlattenSeq goes through.
LEMMA PrefixesOfText ==
  ASSUME NEW points \in Seq(Point), NEW n \in Nat, n = Len(points)
  PROVE  \E F \in [0..n -> Seq(Byte)] : Joins(F, Pieces(points), n)
<1> HIDE DEF Point, Byte
<1>1. PICK ss \in [1..n -> Seq(Byte)] : ss = Pieces(points)
  BY PiecesType
<1> QED
  BY <1>1, PrefixesExist

\* s decodes to points, whose first k encoded are F[k].
Decodes(s, points, F, n) ==
  \A k \in 0..(n - 1) :
    /\ Len(F[k]) + 1 \in 1..Len(s)
    /\ DecodeUtf8Point(s, Len(F[k]) + 1) = [point |-> points[k + 1], next |-> Len(F[k + 1]) + 1]

\* Read with decodeUtf8Point from the start of each character, the bytes of a text
\* give its code points.
LEMMA DecodesFrom ==
  ASSUME NEW points \in Seq(Point), NEW n \in Nat, n = Len(points),
         NEW F \in [0..n -> Seq(Byte)], Joins(F, Pieces(points), n)
  PROVE  Decodes(Bytes(points), points, F, n)
<1> HIDE DEF Point, Byte
<1>1. \A k \in 0..(n - 1) :
        /\ Bytes(points) = F[n] /\ Len(F[k]) + 1 \in 1..Len(F[n])
        /\ DecodeUtf8Point(Bytes(points), Len(F[k]) + 1) =
             [point |-> points[k + 1], next |-> Len(F[k + 1]) + 1]
  BY DecodeAtCharacter
<1> QED
  BY <1>1, Zenon DEF Decodes

\* Texts with the same bytes begin alike, character by character.
LEMMA SameBytes ==
  ASSUME NEW a \in Seq(Point), NEW b \in Seq(Point), Bytes(a) = Bytes(b),
         NEW n \in Nat, NEW m \in Nat, n = Len(a), m = Len(b), n <= m
  PROVE  a = b
<1> HIDE DEF Point, Byte
<1>1. PICK F \in [0..n -> Seq(Byte)] : Joins(F, Pieces(a), n)
  BY PrefixesOfText
<1>2. PICK G \in [0..m -> Seq(Byte)] : Joins(G, Pieces(b), m)
  BY PrefixesOfText
<1>3. PICK s : s = Bytes(a) /\ s = Bytes(b) /\ s = F[n] /\ s = G[m]
  BY <1>1, <1>2, BytesPrefix
<1>4. \A k \in 0..(n - 1) :
        DecodeUtf8Point(s, Len(F[k]) + 1) = [point |-> a[k + 1], next |-> Len(F[k + 1]) + 1]
  <2>1. Decodes(Bytes(a), a, F, n)
    BY <1>1, DecodesFrom
  <2>2. Decodes(s, a, F, n)
    BY <1>3, <2>1
  <2> QED
    BY <2>2, Zenon DEF Decodes
<1>5. \A k \in 0..(m - 1) :
        /\ Len(G[k]) + 1 \in 1..Len(s)
        /\ DecodeUtf8Point(s, Len(G[k]) + 1) = [point |-> b[k + 1], next |-> Len(G[k + 1]) + 1]
  <2>1. Decodes(Bytes(b), b, G, m)
    BY <1>2, DecodesFrom
  <2>2. Decodes(s, b, G, m)
    BY <1>3, <2>1
  <2> QED
    BY <2>2, Zenon DEF Decodes
<1> DEFINE T == {k \in 0..n : Len(F[k]) = Len(G[k]) /\ \A i \in 1..k : a[i] = b[i]}
<1>6. 0 \in T
  BY <1>1, <1>2 DEF Joins
<1>7. ASSUME NEW k \in 0..(n - 1), k \in T PROVE k + 1 \in T
  <2>1. k \in 0..(m - 1) /\ k + 1 \in 0..n /\ k + 1 \in 0..m
    OBVIOUS
  <2>2. Len(F[k]) = Len(G[k]) /\ \A i \in 1..k : a[i] = b[i]
    BY <1>7
  <2>3. [point |-> a[k + 1], next |-> Len(F[k + 1]) + 1]
          = [point |-> b[k + 1], next |-> Len(G[k + 1]) + 1]
    BY <1>4, <1>5, <2>1, <2>2
  <2>4. a[k + 1] = b[k + 1] /\ Len(F[k + 1]) + 1 = Len(G[k + 1]) + 1
    BY <2>3
  <2>5. F[k + 1] \in Seq(Byte) /\ G[k + 1] \in Seq(Byte)
    BY <2>1
  <2>6. Len(F[k + 1]) = Len(G[k + 1])
    BY <2>4, <2>5
  <2>7. \A i \in 1..(k + 1) : i \in 1..k \/ i = k + 1
    OBVIOUS
  <2> QED
    BY <2>1, <2>2, <2>4, <2>6, <2>7
<1>8. Len(F[n]) = Len(G[n]) /\ \A i \in 1..n : a[i] = b[i]
  <2>1. \A k \in 0..n : k \in T
    <3> HIDE DEF T
    <3> QED
      BY <1>6, <1>7, UpTo
  <2> QED
    BY <2>1
<1>9. n = m
  <2>1. SUFFICES ASSUME n < m PROVE FALSE
    OBVIOUS
  <2>2. n \in 0..(m - 1)
    BY <2>1
  <2>3. Len(G[n]) + 1 \in 1..Len(s)
    BY <1>5, <2>2
  <2>4. F[n] \in Seq(Byte)
    OBVIOUS
  <2> QED
    BY <1>3, <1>8, <2>3, <2>4
<1>10. a \in [1..n -> Point]
  OBVIOUS
<1>11. b \in [1..m -> Point]
  OBVIOUS
<1> QED
  BY <1>8, <1>9, <1>10, <1>11

\* Two texts with the same bytes are the same text: a key of Redis stands for one
\* trigger only (encodeUtf8Point).
THEOREM BytesInjective ==
  ASSUME NEW a \in Seq(Point), NEW b \in Seq(Point), Bytes(a) = Bytes(b)
  PROVE  a = b
<1> HIDE DEF Point
<1>1. PICK n \in Nat, m \in Nat : n = Len(a) /\ m = Len(b)
  OBVIOUS
<1>2. CASE n <= m
  BY <1>1, <1>2, SameBytes
<1>3. CASE m <= n
  BY <1>1, <1>3, SameBytes
<1> QED
  BY <1>2, <1>3

\* Words.
NonSpace == {b \in Byte : ~IsSpace(b)}
WordPoint == {p \in Point : ~IsSpace(p)}

\* No character but a space has a byte that is a space: helpers.cpp looks for the
\* spaces of a text byte by byte.
LEMMA EncodeWord ==
  ASSUME NEW p \in WordPoint
  PROVE  EncodeUtf8Point(p) \in Seq(NonSpace) /\ EncodeUtf8Point(p) # <<>>
<1>1. p \in Nat /\ p < 2097152 /\ ~IsSpace(p)
  BY SMT DEF WordPoint, Point
<1>2. p \in Point
  BY SMT DEF WordPoint
<1>3. \A b \in 128..255 : b \in NonSpace
  BY SMT DEF NonSpace, Byte, IsSpace
<1>4. PICK e : e = EncodeUtf8Point(p)
  OBVIOUS
<1>5. OneByte(p, e) \/ TwoBytes(p, e) \/ ThreeBytes(p, e) \/ FourBytes(p, e)
  BY <1>2, <1>4, SomeForm
<1>6. CASE OneByte(p, e)
  <2>1. PICK a \in Nat : a < 128 /\ p = a /\ e = <<a>>
    BY SMT, <1>6 DEF OneByte
  <2>2. a \in NonSpace
    BY SMT, <1>1, <2>1 DEF NonSpace, Byte
  <2>3. <<a>> \in Seq(NonSpace) /\ <<a>> # <<>>
    BY <2>2
  <2> QED
    BY <1>4, <2>1, <2>3
<1>7. CASE TwoBytes(p, e)
  <2>0. PICK x \in Nat, y \in Nat : x < 32 /\ y < 64 /\ e = <<192 + x, 128 + y>>
    BY SMT, <1>7 DEF TwoBytes
  <2>1. PICK a, b : a = 192 + x /\ b = 128 + y /\ e = <<a, b>>
    BY SMT, <2>0
  <2>2. a \in NonSpace /\ b \in NonSpace
    BY SMT, <1>3, <2>0, <2>1
  <2> QED
    BY SMT, <1>4, <2>1, <2>2
<1>8. CASE ThreeBytes(p, e)
  <2>0. PICK x \in Nat, y \in Nat, z \in Nat :
          x < 16 /\ y < 64 /\ z < 64 /\ e = <<224 + x, 128 + y, 128 + z>>
    BY SMT, <1>8 DEF ThreeBytes
  <2>1. PICK a, b, c : a = 224 + x /\ b = 128 + y /\ c = 128 + z /\ e = <<a, b, c>>
    BY SMT, <2>0
  <2>2. a \in NonSpace /\ b \in NonSpace /\ c \in NonSpace
    BY SMT, <1>3, <2>0, <2>1
  <2> QED
    BY SMT, <1>4, <2>1, <2>2
<1>9. CASE FourBytes(p, e)
  <2>0. PICK x \in Nat, y \in Nat, z \in Nat, v \in Nat :
          x < 8 /\ y < 64 /\ z < 64 /\ v < 64 /\ e = <<240 + x, 128 + y, 128 + z, 128 + v>>
    BY SMT, <1>9 DEF FourBytes
  <2>1. PICK a, b, c, d : /\ a = 240 + x /\ b = 128 + y /\ c = 128 + z /\ d = 128 + v
                          /\ e = <<a, b, c, d>>
    BY SMT, <2>0
  <2>2. a \in NonSpace /\ b \in NonSpace /\ c \in NonSpace /\ d \in NonSpace
    BY SMT, <1>3, <2>0, <2>1
  <2> QED
    BY SMT, <1>4, <2>1, <2>2
<1> QED
  BY <1>5, <1>6, <1>7, <1>8, <1>9

\* The bytes of a word have no space among them.
LEMMA BytesOfWord ==
  ASSUME NEW w \in Seq(WordPoint)
  PROVE  /\ w \in Seq(Point) /\ Bytes(w) \in Seq(NonSpace)
         /\ w # <<>> => Bytes(w) # <<>>
<1> HIDE DEF Point, WordPoint, NonSpace
<1>1. w \in Seq(Point)
  <2>1. \A p \in WordPoint : p \in Point
    BY DEF WordPoint
  <2> QED
    BY <2>1
<1>2. Bytes(w) \in Seq(NonSpace)
  <2>1. Pieces(w) \in Seq(Seq(NonSpace))
    <3>1. \A i \in DOMAIN w : EncodeUtf8Point(w[i]) \in Seq(NonSpace)
      BY EncodeWord
    <3> QED
      BY <3>1 DEF Pieces
  <2>2. Bytes(w) = FlattenSeq(Pieces(w))
    BY Zenon DEF Bytes, Pieces
  <2> QED
    BY <2>1, <2>2, FlattenType
<1>3. ASSUME w # <<>> PROVE Bytes(w) # <<>>
  <2>1. Bytes(<<>>) = <<>>
    <3>1. [i \in DOMAIN <<>> |-> EncodeUtf8Point(<<>>[i])] = <<>>
      OBVIOUS
    <3> QED
      BY <3>1, FlattenNone DEF Bytes
  <2>2. <<>> \in Seq(Point)
    OBVIOUS
  <2>3. Bytes(w) = <<>> => w = <<>>
    BY <1>1, <2>1, <2>2, BytesInjective
  <2> QED
    BY <1>3, <2>3
<1> QED
  BY <1>1, <1>2, <1>3

\* trim leaves what has no space in it as it is.
LEMMA TrimWord ==
  ASSUME NEW t \in Seq(NonSpace)
  PROVE  Trim(t) = t
<1>1. \A b \in NonSpace : ~IsSpace(b)
  BY DEF NonSpace
<1> HIDE DEF NonSpace
<1>2. PICK n \in Nat : n = Len(t)
  OBVIOUS
<1>3. {i \in 1..Len(t) : ~IsSpace(t[i])} = 1..n
  BY <1>1, <1>2
<1>4. CASE n = 0
  <2>0. Len(t) = 0
    BY <1>2, <1>4
  <2>1. 1..n = {} /\ t = <<>>
    BY <1>4, <2>0, EmptySeq
  <2>2. Trim(t) = <<>>
    BY <1>3, <2>1 DEF Trim
  <2> QED
    BY <2>1, <2>2
<1>5. CASE n > 0
  <2>0. 1 \in 1..n /\ n \in 1..n /\ 1..n \subseteq Nat
    BY <1>5
  <2>3. PICK x \in 1..n, y \in 1..n : /\ x = Min(1..n) /\ \A i \in 1..n : x <= i
                                      /\ y = Max(1..n) /\ \A i \in 1..n : y >= i
    <3>1. \A i \in 1..n : n >= i
      BY <1>5
    <3>2. Max(1..n) \in 1..n /\ \A i \in 1..n : Max(1..n) >= i
      BY <2>0, <3>1, Zenon DEF Max
    <3> QED
      BY <2>0, <3>2, LeastOne
  <2>1. 1..n # {} /\ Min(1..n) = 1 /\ Max(1..n) = n
    BY <2>0, <2>3
  <2>2. Trim(t) = SubSeq(t, Min(1..n), Max(1..n))
    BY <1>3, <2>1 DEF Trim
  <2> QED
    BY <1>2, <2>1, <2>2
<1> QED
  BY <1>4, <1>5

\* s is a word and, behind it, nothing or a space and the rest.
StartsWithWord(s, u, v, X) ==
  /\ u \in Seq(X) /\ v \in Seq(X) /\ s = u \o v /\ u # <<>>
  /\ \A i \in 1..Len(u) : ~IsSpace(u[i])
  /\ v # <<>> => IsSpace(v[1])

\* splitFirstWord takes the bytes up to the first that is a space.
LEMMA FirstWordOf ==
  ASSUME NEW X, NEW s, NEW u, NEW v, StartsWithWord(s, u, v, X)
  PROVE  FirstWord(s) = u
<1>1. u \in Seq(X) /\ v \in Seq(X) /\ s = u \o v /\ u # <<>>
  BY DEF StartsWithWord
<1>2. PICK n \in Nat \ {0}, m \in Nat, l \in Nat : n = Len(u) /\ m = Len(v) /\ l = n + m /\ l = Len(s)
  BY <1>1
<1>3. s \in Seq(X) /\ (\A i \in 1..n : s[i] = u[i]) /\ (\A j \in 1..m : s[n + j] = v[j])
  BY <1>1, <1>2, Concat
<1> DEFINE starts == {i \in 1..Len(s) : ~IsSpace(s[i])}
           ends == {i \in 1..Len(s) : IsSpace(s[i]) /\ i > Min(starts)}
<1>4. \A i \in 1..n : ~IsSpace(s[i])
  BY <1>2, <1>3 DEF StartsWithWord
<1>5. 1 \in starts
  <2>1. 1 \in 1..n /\ 1 \in 1..Len(s)
    BY <1>2
  <2> QED
    BY <1>4, <2>1
<1>6. Min(starts) = 1
  <2>1. starts \in SUBSET Nat /\ \A i \in starts : i >= 1
    OBVIOUS
  <2> HIDE DEF starts
  <2>2. PICK x \in starts : x = Min(starts) /\ x <= 1
    BY <1>5, <2>1, LeastOne
  <2>3. x \in Nat /\ x >= 1
    BY <2>1
  <2> QED
    BY <2>2, <2>3
<1>7. FirstWord(s) = SubSeq(s, 1, IF ends = {} THEN Len(s) ELSE Min(ends) - 1)
  BY <1>5, <1>6 DEF FirstWord
<1>8. SubSeq(s, 1, n) = u
  BY <1>1, <1>2, <1>3
<1>9. CASE m = 0
  <2>1. \A i \in 1..Len(s) : i \in 1..n
    BY <1>2, <1>9
  <2>2. ends = {}
    BY <1>4, <2>1
  <2>3. Len(s) = n
    BY <1>2, <1>9
  <2> HIDE DEF ends
  <2> QED
    BY <1>7, <1>8, <2>2, <2>3
<1>10. CASE m > 0
  <2>1. IsSpace(s[n + 1])
    <3>1. v # <<>> /\ 1 \in 1..m
      BY <1>2, <1>10
    <3> QED
      BY <1>3, <3>1 DEF StartsWithWord
  <2>2. n + 1 \in ends
    <3>1. n + 1 \in 1..Len(s) /\ n + 1 > 1
      BY <1>2, <1>10
    <3> QED
      BY <1>6, <2>1, <3>1
  <2>3. ends \in SUBSET Nat /\ \A i \in ends : ~(i \in 1..n)
    BY <1>4
  <2>4. Min(ends) = n + 1
    <3> HIDE DEF ends
    <3>1. Min(ends) \in ends /\ Min(ends) <= n + 1
      BY <2>2, <2>3, LeastOne
    <3>2. Min(ends) \in Nat /\ ~(Min(ends) \in 1..n)
      BY <2>3, <3>1
    <3>3. Min(ends) # 0
      <4>1. ends \subseteq 1..Len(s)
        BY DEF ends
      <4> QED
        BY <3>1, <4>1
    <3> QED
      BY <3>1, <3>2, <3>3
  <2> HIDE DEF ends
  <2>5. (n + 1) - 1 = n
    OBVIOUS
  <2> QED
    BY <1>7, <1>8, <2>2, <2>4, <2>5
<1> QED
  BY <1>2, <1>9, <1>10

-----------------------------------------------------------------------------
(* toLower, which works on bytes, and the letters of the users.            *)

\* The code points that toLower folds, or passes on as they are.
Foldable == {p \in Point : p < 128 \/ p >= 1024}

\* A letter that toLower knows becomes one that it knows.
LEMMA SmallLetterType ==
  ASSUME NEW p \in Point
  PROVE  SmallLetter(p) \in Point
<1>1. p \in Nat /\ p < 2097152
  BY SMT DEF Point
<1>2. SmallLetter(p) \in Nat /\ SmallLetter(p) < 2097152
  BY SMT, <1>1 DEF SmallLetter
<1> QED
  BY SMT, <1>2 DEF Point

\* The loop of toLower.
IsPair(s, i) == i < Len(s) /\ s[i] \div 32 = 6
FoldOut(s) == [i \in DOMAIN s |-> IF IsPair(s, i) THEN LowerPair(s[i], s[i + 1]) ELSE LowerByte(s[i])]
FoldThen(s) == [i \in DOMAIN s |-> IF IsPair(s, i) THEN i + 2 ELSE i + 1]

\* toLower writes two bytes for two ...
LEMMA LowerPairType ==
  ASSUME NEW b \in Byte, NEW c \in Byte
  PROVE  LowerPair(b, c) \in Seq(Byte)
<1>1. b \in Nat /\ c \in Nat
  BY SMT DEF Byte
<1>2. PICK q \in Nat : q = (b % 32) * 64 + (c % 64) /\ q < 2048
  BY SMT, <1>1
<1>3. PICK p \in Nat : p = LowerCase(q)
  BY SMT DEF LowerCase
<1>4. PICK x \in Byte, y \in Byte : x = 208 + ((p \div 64) % 16) /\ y = 128 + (p % 64)
  <2>1. PICK h \in 0..15, l \in 0..63 : h = (p \div 64) % 16 /\ l = p % 64
    BY SMT
  <2>2. 208 + h \in Byte /\ 128 + l \in Byte
    BY SMT DEF Byte
  <2> QED
    BY SMT, <2>1, <2>2
<1>5. LowerPair(b, c) = <<x, y>>
  BY SMT, <1>2, <1>3, <1>4 DEF LowerPair
<1> HIDE DEF Byte
<1> QED
  BY SMT, <1>5

\* ... and one for one.
LEMMA LowerByteType ==
  ASSUME NEW b \in Byte
  PROVE  LowerByte(b) \in Seq(Byte)
<1>1. (IF b \in 65..90 THEN b + 32 ELSE b) \in Byte
  BY SMT DEF Byte
<1> HIDE DEF Byte
<1> QED
  BY <1>1 DEF LowerByte

\* f is what toLower puts out of s, from each byte on.
Folds(f, s, N) ==
  /\ N = Len(s) /\ f \in [1..(N + 1) -> Seq(Byte)]
  /\ f[N + 1] = <<>> /\ f[1] = ToLower(s)
  /\ \A i \in 1..N : f[i] = IF IsPair(s, i) THEN LowerPair(s[i], s[i + 1]) \o f[i + 2]
                                            ELSE LowerByte(s[i]) \o f[i + 1]

\* toLower is a loop that goes on further behind.
LEMMA FoldLoop ==
  ASSUME NEW s \in Seq(Byte), NEW N \in Nat, N = Len(s)
  PROVE  \E f : Folds(f, s, N)
<1> HIDE DEF Byte
<1>1. DOMAIN s = 1..N /\ \A i \in 1..N : s[i] \in Byte
  OBVIOUS
<1>2. \A i \in 1..N : IsPair(s, i) => i + 1 \in 1..N
  BY DEF IsPair
<1>3. FoldOut(s) \in [1..N -> Seq(Byte)]
  <2>1. \A i \in 1..N :
          (IF IsPair(s, i) THEN LowerPair(s[i], s[i + 1]) ELSE LowerByte(s[i])) \in Seq(Byte)
    BY <1>1, <1>2, LowerPairType, LowerByteType
  <2> QED
    BY <1>1, <2>1 DEF FoldOut
<1>4. FoldThen(s) \in [1..N -> Nat] /\ \A i \in 1..N : FoldThen(s)[i] \in (i + 1)..(N + 1)
  <2>1. \A i \in 1..N : (IF IsPair(s, i) THEN i + 2 ELSE i + 1) \in (i + 1)..(N + 1)
    BY <1>2
  <2>2. \A i \in 1..N : FoldThen(s)[i] \in (i + 1)..(N + 1)
    BY <1>1, <2>1 DEF FoldThen
  <2>3. FoldThen(s) \in [1..N -> Nat]
    BY <1>1 DEF FoldThen
  <2> QED
    BY <2>2, <2>3
<1>5. GoesOn(FoldOut(s), FoldThen(s), N, Byte)
  BY <1>3, <1>4 DEF GoesOn
<1>6. PICK f \in [1..(N + 1) -> Seq(Byte)] : PutsOut(f, FoldOut(s), FoldThen(s), N)
  BY <1>5, ScanFunction DEF Scanned
<1>7. f[N + 1] = <<>> /\ f[1] = ToLower(s)
  <2>1. ToLower(s) = Scan(FoldOut(s), FoldThen(s))
    BY Zenon DEF ToLower, FoldOut, FoldThen, IsPair
  <2> QED
    BY <1>6, <2>1 DEF PutsOut
<1>8. ASSUME NEW i \in 1..N
      PROVE  f[i] = IF IsPair(s, i) THEN LowerPair(s[i], s[i + 1]) \o f[i + 2]
                                    ELSE LowerByte(s[i]) \o f[i + 1]
  <2>1. f[i] = FoldOut(s)[i] \o f[FoldThen(s)[i]]
    BY <1>6 DEF PutsOut
  <2>2. /\ FoldOut(s)[i] = IF IsPair(s, i) THEN LowerPair(s[i], s[i + 1]) ELSE LowerByte(s[i])
        /\ FoldThen(s)[i] = IF IsPair(s, i) THEN i + 2 ELSE i + 1
    BY <1>1 DEF FoldOut, FoldThen
  <2>3. PICK out, next : out = FoldOut(s)[i] /\ next = FoldThen(s)[i]
    OBVIOUS
  <2>4. CASE IsPair(s, i)
    <3>1. out = LowerPair(s[i], s[i + 1]) /\ next = i + 2
      BY <2>2, <2>3, <2>4
    <3> QED
      BY <2>1, <2>3, <2>4, <3>1
  <2>5. CASE ~IsPair(s, i)
    <3>1. out = LowerByte(s[i]) /\ next = i + 1
      BY <2>2, <2>3, <2>5
    <3> QED
      BY <2>1, <2>3, <2>5, <3>1
  <2> QED
    BY <2>4, <2>5
<1> QED
  BY <1>6, <1>7, <1>8, Zenon DEF Folds

\* What the loop does at a lead of two bytes ...
LEMMA FoldsPair ==
  ASSUME NEW s, NEW N \in Nat, NEW f, Folds(f, s, N), NEW i \in 1..N, IsPair(s, i)
  PROVE  f[i] = LowerPair(s[i], s[i + 1]) \o f[i + 2]
BY Zenon DEF Folds

\* ... and at any other byte.
LEMMA FoldsByte ==
  ASSUME NEW s, NEW N \in Nat, NEW f, Folds(f, s, N), NEW i \in 1..N, ~IsPair(s, i)
  PROVE  f[i] = LowerByte(s[i]) \o f[i + 1]
BY Zenon DEF Folds

\* A byte that is no letter and no lead of two bytes is passed on.
LEMMA PassedOn ==
  ASSUME NEW s, NEW N \in Nat, NEW f, Folds(f, s, N), NEW i \in 1..N, NEW b \in Nat,
         s[i] = b, b > 90, b \div 32 # 6
  PROVE  IsJoin(f[i], <<b>>, f[i + 1])
<1>1. ~IsPair(s, i)
  BY DEF IsPair
<1>2. LowerByte(s[i]) = <<b>>
  BY DEF LowerByte
<1>3. f[i] = LowerByte(s[i]) \o f[i + 1]
  BY <1>1, FoldsByte
<1> QED
  BY <1>2, <1>3 DEF IsJoin

\* The fold of a character of one byte.
LEMMA FoldOne ==
  ASSUME NEW s, NEW N \in Nat, NEW f, Folds(f, s, N), NEW o \in Nat, o + 1 <= N,
         NEW p, NEW e, At(s, o, e), OneByte(p, e)
  PROVE  IsJoin(f[o + 1], EncodeUtf8Point(SmallLetter(p)), f[(o + Len(e)) + 1])
<1>1. PICK a \in Nat : a < 128 /\ p = a /\ e = <<a>>
  BY SMT DEF OneByte
<1>2. Len(e) = 1 /\ s[o + 1] = a
  <2>1. Len(e) = 1 /\ e[1] = a
    BY SMT, <1>1
  <2> QED
    BY SMT, <2>1 DEF At
<1>3. PICK i \in 1..N : i = o + 1
  OBVIOUS
<1>4. ~IsPair(s, i)
  BY SMT, <1>1, <1>2, <1>3 DEF IsPair
<1>5. f[i] = LowerByte(a) \o f[i + 1]
  <2>1. f[i] = LowerByte(s[i]) \o f[i + 1]
    BY <1>4, FoldsByte
  <2> QED
    BY <1>2, <1>3, <2>1
<1>6. LowerByte(a) = EncodeUtf8Point(SmallLetter(p))
  <2>1. PICK c \in Nat : c = SmallLetter(p) /\ c < 128 /\ c = IF a \in 65..90 THEN a + 32 ELSE a
    BY SMT, <1>1 DEF SmallLetter
  <2>2. EncodeUtf8Point(c) = <<c>>
    BY SMT, <2>1 DEF EncodeUtf8Point
  <2> QED
    BY SMT, <2>1, <2>2 DEF LowerByte
<1> QED
  BY <1>2, <1>3, <1>5, <1>6 DEF IsJoin

\* What LowerPair makes of the letters from U+0400 on: Cyrillic capitals become small
\* letters, even where the lead byte changes.
LEMMA FoldPair ==
  ASSUME NEW p \in Nat, p >= 1024, p < 2048, NEW a \in Nat, NEW b \in Nat, a < 32, b < 64,
         p = 64 * a + b
  PROVE  LowerPair(192 + a, 128 + b) = EncodeUtf8Point(SmallLetter(p))
<1>1. (192 + a) % 32 = a /\ (128 + b) % 64 = b
  BY SMT
<1>2. ((192 + a) % 32) * 64 + ((128 + b) % 64) = p
  BY SMT, <1>1
<1>3. PICK c \in Nat : c = SmallLetter(p) /\ c = LowerCase(p) /\ c >= 1024 /\ c < 2048
  BY SMT DEF SmallLetter, LowerCase
<1>4. LowerPair(192 + a, 128 + b) = <<208 + ((c \div 64) % 16), 128 + (c % 64)>>
  BY SMT, <1>2, <1>3 DEF LowerPair
<1>5. 208 + ((c \div 64) % 16) = 192 + (c \div 64)
  BY SMT, <1>3
<1>6. EncodeUtf8Point(c) = <<192 + (c \div 64), 128 + (c % 64)>>
  BY SMT, <1>3 DEF EncodeUtf8Point
<1> QED
  BY SMT, <1>3, <1>4, <1>5, <1>6

\* The fold of a character of two bytes.
LEMMA FoldTwo ==
  ASSUME NEW s, NEW N \in Nat, NEW f, Folds(f, s, N), NEW o \in Nat, o + 2 <= N,
         NEW p, p >= 1024, NEW e, At(s, o, e), TwoBytes(p, e)
  PROVE  IsJoin(f[o + 1], EncodeUtf8Point(SmallLetter(p)), f[(o + Len(e)) + 1])
<1>1. PICK a \in Nat, b \in Nat :
        a < 32 /\ b < 64 /\ p = 64 * a + b /\ e = <<192 + a, 128 + b>>
  BY SMT DEF TwoBytes
<1>2. Len(e) = 2 /\ s[o + 1] = 192 + a /\ s[o + 2] = 128 + b
  <2>1. Len(e) = 2 /\ e[1] = 192 + a /\ e[2] = 128 + b
    BY SMT, <1>1
  <2> QED
    BY SMT, <2>1 DEF At
<1>3. PICK i \in 1..N : i = o + 1
  OBVIOUS
<1>4. IsPair(s, i)
  <2>1. i < Len(s)
    BY <1>3 DEF Folds
  <2>2. (192 + a) \div 32 = 6
    BY SMT, <1>1
  <2> QED
    BY <1>2, <1>3, <2>1, <2>2 DEF IsPair
<1>5. f[i] = LowerPair(192 + a, 128 + b) \o f[i + 2]
  <2>1. f[i] = LowerPair(s[i], s[i + 1]) \o f[i + 2]
    BY ZenonT(40), <1>4, FoldsPair
  <2>2. i + 1 = o + 2
    BY <1>3
  <2> QED
    BY ZenonT(40), <1>2, <1>3, <2>1, <2>2
<1>6. p \in Nat /\ p < 2048
  BY SMT, <1>1
<1>7. LowerPair(192 + a, 128 + b) = EncodeUtf8Point(SmallLetter(p))
  BY <1>1, <1>6, FoldPair
<1>8. i + 2 = (o + Len(e)) + 1
  BY <1>2, <1>3
<1> QED
  BY ZenonT(40), <1>3, <1>5, <1>7, <1>8 DEF IsJoin

\* A sequence whose first is put out before the others.
LEMMA JoinOne ==
  ASSUME NEW Y, NEW r \in Seq(Y), NEW y \in Y, NEW t \in Seq(Y), NEW u, NEW v, NEW ry,
         IsJoin(u, r, v), IsJoin(v, <<y>>, t), IsJoin(ry, r, <<y>>)
  PROVE  IsJoin(u, ry, t)
<1>1. <<y>> \in Seq(Y)
  OBVIOUS
<1>2. \A a, b \in Seq(Y) : \A c, d, g : IsJoin(c, a, b) /\ IsJoin(d, r, c) /\ IsJoin(g, r, a) => IsJoin(d, g, b)
  BY ThreeJoined
<1>3. \A c, d, g : IsJoin(c, <<y>>, t) /\ IsJoin(d, r, c) /\ IsJoin(g, r, <<y>>) => IsJoin(d, g, t)
  BY <1>1, <1>2, Zenon
<1> QED
  BY <1>3

\* Two sequences of one, put together.
LEMMA PairOf ==
  ASSUME NEW Y, NEW s \in Seq(Y), NEW x \in Y, NEW y \in Y, Len(s) = 2, s[1] = x, s[2] = y
  PROVE  s = <<x, y>>
OBVIOUS

\* Two, three and four bytes, put out one at a time.
LEMMA SmallJoins ==
  ASSUME NEW Y, NEW x \in Y, NEW y \in Y, NEW z \in Y, NEW v \in Y
  PROVE  /\ <<x>> \in Seq(Y) /\ <<x, y>> \in Seq(Y) /\ <<x, y, z>> \in Seq(Y) /\ <<x, y, z, v>> \in Seq(Y)
         /\ IsJoin(<<x, y>>, <<x>>, <<y>>)
         /\ IsJoin(<<x, y, z>>, <<x, y>>, <<z>>)
         /\ IsJoin(<<x, y, z, v>>, <<x, y, z>>, <<v>>)
<1>1. <<x>> \in Seq(Y) /\ <<x, y>> \in Seq(Y) /\ <<x, y, z>> \in Seq(Y) /\ <<x, y, z, v>> \in Seq(Y)
  OBVIOUS
<1>2. IsJoin(<<x, y>>, <<x>>, <<y>>)
  <2>1. <<y>> \in Seq(Y)
    OBVIOUS
  <2>2. PICK a \in Seq(Y), b \in Seq(Y) : a = <<x>> /\ b = <<y>>
    BY <1>1, <2>1
  <2>3. a \o b \in Seq(Y) /\ Len(a \o b) = Len(a) + Len(b)
        /\ (\A i \in 1..Len(a) : (a \o b)[i] = a[i]) /\ (\A i \in 1..Len(b) : (a \o b)[Len(a) + i] = b[i])
    BY Concat
  <2>4. Len(a) = 1 /\ Len(b) = 1 /\ a[1] = x /\ b[1] = y
    BY <2>2
  <2>5. Len(a \o b) = 2 /\ (a \o b)[1] = x /\ (a \o b)[2] = y
    <3>1. 1 \in 1..1 /\ 1 + 1 = 2
      OBVIOUS
    <3> QED
      BY <2>3, <2>4, <3>1
  <2>6. a \o b = <<x, y>>
    <3>1. \A ab \in Seq(Y) : Len(ab) = 2 /\ ab[1] = x /\ ab[2] = y => ab = <<x, y>>
      BY PairOf
    <3>2. PICK ab : ab = a \o b
      OBVIOUS
    <3>3. ab \in Seq(Y) /\ Len(ab) = 2 /\ ab[1] = x /\ ab[2] = y
      BY <2>3, <2>5, <3>2, Zenon
    <3> QED
      BY <3>1, <3>2, <3>3, Zenon
  <2> QED
    BY <2>2, <2>3, <2>6 DEF IsJoin
<1>3. IsJoin(<<x, y, z>>, <<x, y>>, <<z>>)
  BY DEF IsJoin
<1>4. IsJoin(<<x, y, z, v>>, <<x, y, z>>, <<v>>)
  BY DEF IsJoin
<1> QED
  BY <1>1, <1>2, <1>3, <1>4

\* Put together from the left or from the right, three sequences are the same.
LEMMA JoinThree ==
  ASSUME NEW Y, NEW x \in Y, NEW y \in Y, NEW z \in Y, NEW t \in Seq(Y), NEW u, NEW v, NEW w \in Seq(Y),
         IsJoin(u, <<x>>, v), IsJoin(v, <<y>>, w), IsJoin(w, <<z>>, t)
  PROVE  IsJoin(u, <<x, y, z>>, t)
<1>1. <<x>> \in Seq(Y) /\ <<x, y>> \in Seq(Y)
  OBVIOUS
<1>2. IsJoin(<<x, y>>, <<x>>, <<y>>) /\ IsJoin(<<x, y, z>>, <<x, y>>, <<z>>)
  BY SmallJoins
<1>4. IsJoin(u, <<x, y>>, w)
  BY <1>1, <1>2, JoinOne
<1> QED
  BY <1>1, <1>2, <1>4, JoinOne

\* The bytes of a character of three bytes are passed on.
LEMMA FoldThree ==
  ASSUME NEW s, NEW N \in Nat, NEW f, Folds(f, s, N), NEW o \in Nat, o + 3 <= N,
         NEW p, NEW e, At(s, o, e), ThreeBytes(p, e)
  PROVE  IsJoin(f[o + 1], e, f[(o + Len(e)) + 1])
<1>1. PICK x \in Nat, y \in Nat, z \in Nat :
        /\ x > 90 /\ y > 90 /\ z > 90 /\ x < 256 /\ y < 256 /\ z < 256
        /\ x \div 32 # 6 /\ y \div 32 # 6 /\ z \div 32 # 6
        /\ e = <<x, y, z>>
  <2>1. PICK a \in Nat, b \in Nat, c \in Nat :
          a < 16 /\ b < 64 /\ c < 64 /\ e = <<224 + a, 128 + b, 128 + c>>
    BY SMT DEF ThreeBytes
  <2>2. \A n \in Nat : n < 16 => (224 + n) \div 32 # 6
    BY SMT
  <2>3. \A n \in Nat : n < 64 => (128 + n) \div 32 # 6
    BY SMT
  <2>4. PICK x \in Nat, y \in Nat, z \in Nat : x = 224 + a /\ y = 128 + b /\ z = 128 + c
    BY SMT, <2>1
  <2> QED
    BY SMT, <2>1, <2>2, <2>3, <2>4
<1>2. Len(e) = 3 /\ s[o + 1] = x /\ s[o + 2] = y /\ s[o + 3] = z
  <2>1. Len(e) = 3 /\ e[1] = x /\ e[2] = y /\ e[3] = z
    BY SMT, <1>1
  <2> QED
    BY SMT, <2>1 DEF At
<1>3. PICK i \in 1..N, j \in 1..N, k \in 1..N, l \in 1..(N + 1) :
        /\ i = o + 1 /\ j = o + 2 /\ k = o + 3 /\ l = (o + Len(e)) + 1
        /\ i + 1 = j /\ j + 1 = k /\ k + 1 = l
  BY <1>2
<1>4. IsJoin(f[i], <<x>>, f[j])
  <2>1. s[i] = x
    BY <1>2, <1>3
  <2>2. IsJoin(f[i], <<x>>, f[i + 1])
    BY <1>1, <2>1, PassedOn
  <2> QED
    BY <1>3, <2>2
<1>5. IsJoin(f[j], <<y>>, f[k])
  <2>1. s[j] = y
    BY <1>2, <1>3
  <2>2. IsJoin(f[j], <<y>>, f[j + 1])
    BY <1>1, <2>1, PassedOn
  <2> QED
    BY <1>3, <2>2
<1>6. IsJoin(f[k], <<z>>, f[l])
  <2>1. s[k] = z
    BY <1>2, <1>3
  <2>2. IsJoin(f[k], <<z>>, f[k + 1])
    BY <1>1, <2>1, PassedOn
  <2> QED
    BY <1>3, <2>2
<1>7. x \in Byte /\ y \in Byte /\ z \in Byte
  BY SMT, <1>1 DEF Byte
<1>8. f[k] \in Seq(Byte) /\ f[l] \in Seq(Byte)
  <2>1. k \in 1..(N + 1) /\ l \in 1..(N + 1)
    OBVIOUS
  <2>2. f \in [1..(N + 1) -> Seq(Byte)]
    BY DEF Folds
  <2> HIDE DEF Byte
  <2> QED
    BY <2>1, <2>2
<1>9. IsJoin(f[i], <<x, y, z>>, f[l])
  <2> HIDE DEF Byte
  <2> QED
    BY <1>4, <1>5, <1>6, <1>7, <1>8, JoinThree
<1> QED
  BY <1>1, <1>3, <1>9

\* The bytes of a character of four bytes are passed on.
LEMMA FoldFour ==
  ASSUME NEW s, NEW N \in Nat, NEW f, Folds(f, s, N), NEW o \in Nat, o + 4 <= N,
         NEW p, NEW e, At(s, o, e), FourBytes(p, e)
  PROVE  IsJoin(f[o + 1], e, f[(o + Len(e)) + 1])
<1>1. PICK x \in Nat, y \in Nat, z \in Nat, v \in Nat :
        /\ x > 90 /\ y > 90 /\ z > 90 /\ v > 90 /\ x < 256 /\ y < 256 /\ z < 256 /\ v < 256
        /\ x \div 32 # 6 /\ y \div 32 # 6 /\ z \div 32 # 6 /\ v \div 32 # 6
        /\ e = <<x, y, z, v>>
  <2>1. PICK a \in Nat, b \in Nat, c \in Nat, d \in Nat :
          a < 8 /\ b < 64 /\ c < 64 /\ d < 64 /\ e = <<240 + a, 128 + b, 128 + c, 128 + d>>
    BY SMT DEF FourBytes
  <2>2. \A n \in Nat : n < 8 => (240 + n) \div 32 # 6
    BY SMT
  <2>3. \A n \in Nat : n < 64 => (128 + n) \div 32 # 6
    BY SMT
  <2>4. PICK x \in Nat, y \in Nat, z \in Nat, v \in Nat :
          x = 240 + a /\ y = 128 + b /\ z = 128 + c /\ v = 128 + d
    BY SMT, <2>1
  <2> QED
    BY SMT, <2>1, <2>2, <2>3, <2>4
<1>2. Len(e) = 4 /\ s[o + 1] = x /\ s[o + 2] = y /\ s[o + 3] = z /\ s[o + 4] = v
  <2>1. Len(e) = 4 /\ e[1] = x /\ e[2] = y /\ e[3] = z /\ e[4] = v
    BY SMT, <1>1
  <2> QED
    BY SMT, <2>1 DEF At
<1>3. PICK i \in 1..N, j \in 1..N, k \in 1..N, g \in 1..N, l \in 1..(N + 1) :
        /\ i = o + 1 /\ j = o + 2 /\ k = o + 3 /\ g = o + 4 /\ l = (o + Len(e)) + 1
        /\ i + 1 = j /\ j + 1 = k /\ k + 1 = g /\ g + 1 = l
  BY <1>2
<1>4. IsJoin(f[i], <<x>>, f[j])
  <2>1. s[i] = x
    BY <1>2, <1>3
  <2>2. IsJoin(f[i], <<x>>, f[i + 1])
    BY <1>1, <2>1, PassedOn
  <2> QED
    BY <1>3, <2>2
<1>5. IsJoin(f[j], <<y>>, f[k])
  <2>1. s[j] = y
    BY <1>2, <1>3
  <2>2. IsJoin(f[j], <<y>>, f[j + 1])
    BY <1>1, <2>1, PassedOn
  <2> QED
    BY <1>3, <2>2
<1>6. IsJoin(f[k], <<z>>, f[g])
  <2>1. s[k] = z
    BY <1>2, <1>3
  <2>2. IsJoin(f[k], <<z>>, f[k + 1])
    BY <1>1, <2>1, PassedOn
  <2> QED
    BY <1>3, <2>2
<1>7. IsJoin(f[g], <<v>>, f[l])
  <2>1. s[g] = v
    BY <1>2, <1>3
  <2>2. IsJoin(f[g], <<v>>, f[g + 1])
    BY <1>1, <2>1, PassedOn
  <2> QED
    BY <1>3, <2>2
<1>8. x \in Byte /\ y \in Byte /\ z \in Byte /\ v \in Byte
  BY SMT, <1>1 DEF Byte
<1>9. f[k] \in Seq(Byte) /\ f[g] \in Seq(Byte) /\ f[l] \in Seq(Byte)
  <2>1. k \in 1..(N + 1) /\ g \in 1..(N + 1) /\ l \in 1..(N + 1)
    OBVIOUS
  <2>2. f \in [1..(N + 1) -> Seq(Byte)]
    BY DEF Folds
  <2> HIDE DEF Byte
  <2> QED
    BY <2>1, <2>2
<1>10. IsJoin(f[i], <<x, y, z>>, f[g])
  <2> HIDE DEF Byte
  <2> QED
    BY <1>4, <1>5, <1>6, <1>8, <1>9, JoinThree
<1>11. IsJoin(f[i], <<x, y, z, v>>, f[l])
  <2> HIDE DEF Byte
  <2>1. <<x, y, z>> \in Seq(Byte) /\ IsJoin(<<x, y, z, v>>, <<x, y, z>>, <<v>>)
    BY <1>8, SmallJoins
  <2> QED
    BY <1>7, <1>8, <1>9, <1>10, <2>1, JoinOne
<1> QED
  BY <1>1, <1>3, <1>11

\* Wherever in a text a character lies, toLower puts out its small letter and goes on
\* behind it.
LEMMA FoldAt ==
  ASSUME NEW s, NEW N \in Nat, NEW f, Folds(f, s, N), NEW o \in Nat,
         NEW p \in Foldable, NEW e, e = EncodeUtf8Point(p), At(s, o, e)
  PROVE  IsJoin(f[o + 1], EncodeUtf8Point(SmallLetter(p)), f[(o + Len(e)) + 1])
<1>1. p \in Point /\ p \in Nat /\ (p < 128 \/ p >= 1024)
  BY SMT DEF Foldable, Point
<1>2. o + Len(e) <= N
  BY DEF At, Folds
<1> HIDE DEF Point
<1>3. CASE p < 128
  <2>1. OneByte(p, e)
    BY <1>1, <1>3, EncodedForm
  <2>2. Len(e) = 1
    <3>1. PICK a : e = <<a>>
      BY SMT, <2>1 DEF OneByte
    <3> QED
      BY SMT, <3>1
  <2>3. o + 1 <= N
    BY <1>2, <2>2
  <2> QED
    BY <2>1, <2>3, FoldOne
<1>4. CASE p >= 1024 /\ p < 2048
  <2>1. TwoBytes(p, e)
    <3>1. p >= 128 /\ p < 2048
      BY SMT, <1>1, <1>4
    <3> QED
      BY <1>1, <3>1, EncodedForm
  <2>2. Len(e) = 2
    <3>1. PICK a, b : e = <<a, b>>
      BY SMT, <2>1 DEF TwoBytes
    <3> QED
      BY SMT, <3>1
  <2>3. o + 2 <= N
    BY <1>2, <2>2
  <2> QED
    BY <1>4, <2>1, <2>3, FoldTwo
<1>5. CASE p >= 2048
  <2>1. SmallLetter(p) = p
    BY SMT, <1>1, <1>5 DEF SmallLetter
  <2>2. CASE p < 65536
    <3>1. ThreeBytes(p, e)
      BY <1>1, <1>5, <2>2, EncodedForm
    <3>2. Len(e) = 3
      <4>1. PICK a, b, c : e = <<a, b, c>>
        BY SMT, <3>1 DEF ThreeBytes
      <4> QED
        BY SMT, <4>1
    <3>3. o + 3 <= N
      BY <1>2, <3>2
    <3>4. IsJoin(f[o + 1], e, f[(o + Len(e)) + 1])
      BY <3>1, <3>3, FoldThree
    <3> QED
      BY <2>1, <3>4
  <2>3. CASE p >= 65536
    <3>1. FourBytes(p, e)
      BY <1>1, <2>3, EncodedForm
    <3>2. Len(e) = 4
      <4>1. PICK a, b, c, d : e = <<a, b, c, d>>
        BY SMT, <3>1 DEF FourBytes
      <4> QED
        BY SMT, <4>1
    <3>3. o + 4 <= N
      BY <1>2, <3>2
    <3>4. IsJoin(f[o + 1], e, f[(o + Len(e)) + 1])
      BY <3>1, <3>3, FoldFour
    <3> QED
      BY <2>1, <3>4
  <2> QED
    BY SMT, <1>1, <2>2, <2>3
<1> QED
  BY SMT, <1>1, <1>3, <1>4, <1>5

\* The same with the types hidden.
WalksBytes(f, F, pieces, n, N) ==
  /\ n \in Nat /\ N \in Nat /\ f \in [1..(N + 1) -> Seq(Byte)]
  /\ pieces \in [1..n -> Seq(Byte)] /\ Walks(f, F, pieces, n, N)

\* ScanOfPieces for the bytes of a text, with the types hidden.
LEMMA WalkOfBytes ==
  ASSUME NEW f, NEW F, NEW pieces, NEW n, NEW N, WalksBytes(f, F, pieces, n, N)
  PROVE  f[1] = FlattenSeq(pieces)
<1> HIDE DEF Byte
<1>1. /\ n \in Nat /\ N \in Nat /\ f \in [1..(N + 1) -> Seq(Byte)]
      /\ pieces \in [1..n -> Seq(Byte)] /\ Walks(f, F, pieces, n, N)
  BY Zenon DEF WalksBytes
<1>2. PICK m \in Nat, M \in Nat : m = n /\ M = N
  BY <1>1
<1>3. PICK g \in [1..(M + 1) -> Seq(Byte)] : g = f
  BY <1>1, <1>2, Zenon
<1>4. PICK q \in [1..m -> Seq(Byte)] : q = pieces
  BY <1>1, <1>2, Zenon
<1>5. Walks(g, F, q, m, M)
  BY <1>1, <1>2, <1>3, <1>4, Zenon
<1>6. g[1] = FlattenSeq(q)
  BY <1>5, WalkOfPieces
<1> QED
  BY <1>3, <1>4, <1>6, Zenon

Folded(w) == [i \in DOMAIN w |-> SmallLetter(w[i])]

\* toLower (rp_service.cpp), which works on bytes, folds each Latin letter and each
\* Cyrillic one of the text and leaves other characters alone, unless they are from
\* U+0080 to U+03FF.
THEOREM ToLowerFolds ==
  ASSUME NEW w \in Seq(Foldable)
  PROVE  Folded(w) \in Seq(Point) /\ ToLower(Bytes(w)) = Bytes(Folded(w))
<1>0. \A p \in Foldable : p \in Point
  BY SMT DEF Foldable
<1> HIDE DEF Point, Byte, Foldable
<1>1. PICK n \in Nat : n = Len(w) /\ w \in [1..n -> Foldable]
  OBVIOUS
<1>2. w \in Seq(Point)
  BY <1>0
<1>3. Folded(w) \in Seq(Point) /\ Len(Folded(w)) = n /\ \A i \in 1..n : Folded(w)[i] = SmallLetter(w[i])
  <2>1. DOMAIN w = 1..n /\ \A i \in 1..n : SmallLetter(w[i]) \in Point
    BY <1>0, <1>1, SmallLetterType
  <2>2. Folded(w) = [i \in 1..n |-> SmallLetter(w[i])]
    BY <2>1 DEF Folded
  <2>3. Folded(w) \in [1..n -> Point]
    BY <2>1, <2>2
  <2> QED
    BY <2>2, <2>3
<1>4. PICK F \in [0..n -> Seq(Byte)] : Joins(F, Pieces(w), n)
  BY <1>1, <1>2, PrefixesOfText
<1>5. PICK s \in Seq(Byte), N \in Nat : s = Bytes(w) /\ s = F[n] /\ N = Len(s)
  <2>1. Bytes(w) = F[n] /\ F[n] \in Seq(Byte)
    BY <1>1, <1>2, <1>4, BytesPrefix
  <2> QED
    BY <2>1
<1>6. PICK f : Folds(f, s, N)
  BY <1>5, FoldLoop
<1>7. f \in [1..(N + 1) -> Seq(Byte)] /\ f[N + 1] = <<>> /\ f[1] = ToLower(s)
  BY <1>6, Zenon DEF Folds
<1>8. PICK pieces \in [1..n -> Seq(Byte)] : pieces = Pieces(Folded(w))
  BY <1>3, PiecesType
<1>9. ASSUME NEW k \in 0..(n - 1)
      PROVE  /\ Len(F[k]) + 1 \in 1..N
             /\ f[Len(F[k]) + 1] = pieces[k + 1] \o f[Len(F[k + 1]) + 1]
  <2>1. Len(F[k]) + 1 \in 1..Len(F[n])
    BY <1>1, <1>2, <1>4, DecodeAtCharacter
  <2>2. PICK o \in Nat : o = Len(F[k])
    <3>1. k \in 0..n
      OBVIOUS
    <3> QED
      BY <3>1
  <2>3. PICK p \in Foldable : p = w[k + 1] /\ k + 1 \in 1..n
    BY <1>1
  <2>4. PICK e : e = EncodeUtf8Point(p) /\ e = Pieces(w)[k + 1]
    BY <1>1, <1>2, <2>3, PiecesType
  <2>5. LiesBehind(s, F, k, e)
    <3>1. Pieces(w) \in Seq(Seq(Byte)) /\ Len(Pieces(w)) = n
      BY <1>1, <1>2, PiecesType
    <3>2. LiesBehind(FlattenSeq(Pieces(w)), F, k, Pieces(w)[k + 1])
      BY <1>4, <3>1, FlattenAt
    <3>3. Bytes(w) = FlattenSeq(Pieces(w))
      BY Zenon DEF Bytes, Pieces
    <3> QED
      BY <1>5, <2>4, <3>2, <3>3
  <2>6. At(s, o, e) /\ o + Len(e) = Len(F[k + 1])
    BY <2>2, <2>5 DEF LiesBehind, At
  <2>7. IsJoin(f[o + 1], EncodeUtf8Point(SmallLetter(p)), f[(o + Len(e)) + 1])
    BY <1>6, <2>4, <2>6, FoldAt
  <2>8. pieces[k + 1] = EncodeUtf8Point(SmallLetter(p))
    <3>1. k + 1 \in 1..Len(Folded(w))
      BY <1>3, <2>3
    <3> QED
      BY <1>3, <1>8, <2>3, <3>1, PiecesType
  <2> QED
    BY <1>5, <2>1, <2>2, <2>6, <2>7, <2>8 DEF IsJoin
<1>10. F[0] = <<>> /\ f[Len(F[n]) + 1] = <<>>
  BY <1>4, <1>5, <1>7 DEF Joins
<1>11. \A k \in 0..n : Len(F[k]) + 1 \in 1..(N + 1)
  <2> SUFFICES ASSUME NEW k \in 0..n PROVE Len(F[k]) + 1 \in 1..(N + 1)
    OBVIOUS
  <2>1. CASE k = n
    BY <1>5, <2>1
  <2>2. CASE k # n
    <3>1. k \in 0..(n - 1)
      BY <2>2
    <3>2. Len(F[k]) + 1 \in 1..N
      BY <1>9, <3>1
    <3> QED
      BY <3>2
  <2> QED
    BY <2>1, <2>2
<1>12. Walks(f, F, pieces, n, N)
  BY <1>9, <1>10, <1>11, Zenon DEF Walks
<1>13. f[1] = FlattenSeq(pieces)
  <2>1. f \in [1..(N + 1) -> Seq(Byte)] /\ n \in Nat /\ N \in Nat /\ pieces \in [1..n -> Seq(Byte)]
    BY <1>7
  <2>2. WalksBytes(f, F, pieces, n, N)
    BY <1>12, <2>1, Zenon DEF WalksBytes
  <2> QED
    BY <2>2, WalkOfBytes, Zenon
<1>14. Bytes(Folded(w)) = FlattenSeq(pieces)
  <2>1. Bytes(Folded(w)) = FlattenSeq(Pieces(Folded(w)))
    BY Zenon DEF Bytes, Pieces
  <2> QED
    BY <1>8, <2>1
<1> QED
  BY <1>3, <1>5, <1>7, <1>13, <1>14

-----------------------------------------------------------------------------
(* The first word of a message and the triggers of the commands.           *)

\* p is a word and, behind it, nothing or a space and the rest.
Splits(p, w, r) ==
  /\ w \in Seq(Point) /\ r \in Seq(Point) /\ p = w \o r /\ w # <<>>
  /\ \A i \in DOMAIN w : i \in DOMAIN p /\ w[i] = p[i] /\ \A j \in 1..i : ~IsSpace(p[j])
  /\ r # <<>> => IsSpace(r[1])

\* The abstract specification has the Min of this one.
LEMMA SameMin == \A S : Promise!Min(S) = Min(S)
BY Zenon DEF Promise!Min, Min

\* A text that does not start with a space starts with a word, which ends with the
\* text or before a space.
LEMMA SplitWord ==
  ASSUME NEW p \in Seq(Point), p # <<>>, ~IsSpace(p[1])
  PROVE  \E w, r : Splits(p, w, r) /\ Promise!Word(p) = [i \in DOMAIN w |-> Lower(w[i])]
<1> HIDE DEF Point
<1> DEFINE S == {i \in DOMAIN p : p[i] \in (9..13) \union {32}}
<1>1. PICK n \in Nat \ {0} : n = Len(p) /\ DOMAIN p = 1..n
  OBVIOUS
<1>2. \A i \in 1..n : i \in S <=> IsSpace(p[i])
  BY <1>1 DEF IsSpace
<1>3. PICK e \in 1..n : /\ e = IF S = {} THEN Len(p) ELSE Min(S) - 1
                        /\ \A j \in 1..e : ~IsSpace(p[j])
                        /\ e < n => IsSpace(p[e + 1])
  <2>1. CASE S = {}
    <3>1. Len(p) \in 1..n /\ ~(Len(p) < n) /\ \A j \in 1..n : ~IsSpace(p[j])
      BY <1>1, <1>2, <2>1
    <3> QED
      BY <1>1, <2>1, <3>1
  <2>2. CASE S # {}
    <3>1. S \in SUBSET Nat /\ S \subseteq 1..n /\ ~(1 \in S)
      <4>1. 1 \in 1..n
        OBVIOUS
      <4> QED
        BY <1>1, <1>2, <4>1
    <3> HIDE DEF S
    <3>2. PICK x \in S : x = Min(S) /\ \A y \in S : x <= y
      BY <2>2, <3>1, LeastOne
    <3>3. x \in 1..n /\ x # 1
      BY <3>1
    <3>4. x - 1 \in 1..n /\ (x - 1) + 1 = x
      BY <3>3
    <3>5. \A j \in 1..(x - 1) : j \in 1..n /\ ~(j \in S)
      BY <3>2, <3>3
    <3>6. \A j \in 1..(x - 1) : ~IsSpace(p[j])
      BY <1>2, <3>5
    <3>7. IsSpace(p[x])
      BY <1>2, <3>3
    <3> QED
      BY <2>2, <3>2, <3>4, <3>6, <3>7
  <2> QED
    BY <2>1, <2>2
<1>4. PICK w \in Seq(Point), r \in Seq(Point) : w = SubSeq(p, 1, e) /\ r = SubSeq(p, e + 1, n)
  <2>1. SubSeq(p, 1, e) \in Seq(Point) /\ SubSeq(p, e + 1, n) \in Seq(Point)
    BY <1>1
  <2> QED
    BY <2>1
<1>5. Len(w) = e /\ DOMAIN w = 1..e /\ \A i \in 1..e : w[i] = p[i]
  BY <1>1, <1>4
<1>6. Len(r) = n - e /\ \A i \in 1..(n - e) : r[i] = p[e + i]
  BY <1>1, <1>4
<1>7. p = w \o r
  <2>1. /\ w \o r \in Seq(Point) /\ Len(w \o r) = Len(w) + Len(r)
        /\ (\A i \in 1..Len(w) : (w \o r)[i] = w[i]) /\ (\A i \in 1..Len(r) : (w \o r)[Len(w) + i] = r[i])
    BY Concat
  <2>2. Len(w \o r) = n
    BY <1>5, <1>6, <2>1
  <2>3. PICK q : q = w \o r
    OBVIOUS
  <2>4. q \in Seq(Point) /\ Len(q) = n
    BY <2>1, <2>2, <2>3
  <2>5. \A i \in 1..n : q[i] = p[i]
    <3> SUFFICES ASSUME NEW i \in 1..n PROVE q[i] = p[i]
      OBVIOUS
    <3>1. CASE i <= e
      <4>1. i \in 1..e
        BY <3>1
      <4> QED
        BY <1>5, <2>1, <2>3, <4>1
    <3>2. CASE i > e
      <4>1. PICK j \in 1..(n - e) : i = e + j
        <5>1. i - e \in 1..(n - e) /\ i = e + (i - e)
          BY <3>2
        <5> QED
          BY <5>1
      <4>2. q[e + j] = r[j] /\ r[j] = p[e + j]
        BY <1>5, <1>6, <2>1, <2>3
      <4> QED
        BY <4>1, <4>2
    <3> QED
      BY <3>1, <3>2
  <2>6. q = p
    BY <1>1, <2>4, <2>5
  <2> QED
    BY <2>3, <2>6
<1>8. w # <<>>
  BY <1>5
<1>9. \A i \in DOMAIN w : i \in DOMAIN p /\ w[i] = p[i] /\ \A j \in 1..i : ~IsSpace(p[j])
  <2>1. \A i \in 1..e : i \in 1..n /\ \A j \in 1..i : j \in 1..e
    OBVIOUS
  <2> QED
    BY <1>1, <1>3, <1>5, <2>1
<1>10. ASSUME r # <<>> PROVE IsSpace(r[1])
  <2>1. Len(r) # 0
    BY <1>10, EmptySeq
  <2>2. e < n /\ 1 \in 1..(n - e)
    BY <1>6, <2>1
  <2> QED
    BY <1>3, <1>6, <2>2
<1>11. Promise!Word(p) = [i \in DOMAIN w |-> Lower(w[i])]
  <2>1. Promise!Word(p) =
          LET word == SubSeq(p, 1, IF S = {} THEN Len(p) ELSE Min(S) - 1)
          IN  [i \in DOMAIN word |-> Lower(word[i])]
    BY SameMin DEF Promise!Word
  <2> HIDE DEF S
  <2> QED
    BY <1>3, <1>4, <2>1
<1>12. Splits(p, w, r)
  BY <1>7, <1>8, <1>9, <1>10, Zenon DEF Splits
<1> QED
  BY <1>11, <1>12

\* A space is encoded as the byte that helpers.cpp takes for one.
LEMMA BytesOfSpaces ==
  ASSUME NEW r \in Seq(Point), r # <<>> => IsSpace(r[1])
  PROVE  Bytes(r) \in Seq(Byte) /\ (Bytes(r) # <<>> => IsSpace(Bytes(r)[1]))
<1> HIDE DEF Point, Byte
<1>1. Bytes(r) \in Seq(Byte)
  <2>1. PICK n \in Nat : n = Len(r)
    OBVIOUS
  <2>2. Pieces(r) \in Seq(Seq(Byte)) /\ Bytes(r) = FlattenSeq(Pieces(r))
    BY <2>1, PiecesType
  <2> QED
    BY <2>2, FlattenType
<1>2. CASE r = <<>>
  <2>1. [i \in DOMAIN <<>> |-> EncodeUtf8Point(<<>>[i])] = <<>>
    OBVIOUS
  <2>2. Bytes(<<>>) = <<>>
    BY <2>1, FlattenNone DEF Bytes
  <2> QED
    BY <1>1, <1>2, <2>2
<1>3. CASE r # <<>>
  <2>1. PICK p \in Point, q \in Seq(Point) : p = r[1] /\ q = Tail(r) /\ r = <<p>> \o q
    <3>1. r[1] \in Point /\ Tail(r) \in Seq(Point) /\ r = <<r[1]>> \o Tail(r)
      BY <1>3
    <3> QED
      BY <3>1
  <2>2. IsSpace(p)
    BY <1>3, <2>1
  <2>3. EncodeUtf8Point(p) = <<p>> /\ p \in Byte
    BY <2>2, SMTT(40) DEF IsSpace, EncodeUtf8Point, Byte
  <2>4. Bytes(r) = EncodeUtf8Point(p) \o Bytes(q)
    BY <2>1, BytesCons
  <2>5. Bytes(q) \in Seq(Byte)
    <3>1. PICK n \in Nat : n = Len(q)
      OBVIOUS
    <3>2. Pieces(q) \in Seq(Seq(Byte)) /\ Bytes(q) = FlattenSeq(Pieces(q))
      BY <3>1, PiecesType
    <3> QED
      BY <3>2, FlattenType
  <2>6. (<<p>> \o Bytes(q))[1] = p
    BY <2>3, <2>5
  <2> QED
    BY <1>1, <2>2, <2>3, <2>4, <2>6
<1> QED
  BY <1>2, <1>3

\* A word of letters that toLower folds as users do.
KnownWord(w) ==
  /\ w \in Seq(Foldable) /\ w \in Seq(WordPoint)
  /\ [i \in DOMAIN w |-> Lower(w[i])] = Folded(w)

\* A sequence of letters that toLower knows, without spaces, is such a word.
LEMMA KnownWordIs ==
  ASSUME NEW w \in Seq(Point), \A i \in DOMAIN w : ~IsSpace(w[i]) /\ KnownLetter(w[i])
  PROVE  KnownWord(w)
<1>1. \A p \in Point : ~IsSpace(p) /\ KnownLetter(p) =>
        p \in Foldable /\ p \in WordPoint /\ Lower(p) = SmallLetter(p)
  BY SMT DEF KnownLetter, Foldable, WordPoint
<1> HIDE DEF Point, Foldable, WordPoint, KnownLetter
<1>2. \A i \in DOMAIN w : w[i] \in Foldable /\ w[i] \in WordPoint /\ Lower(w[i]) = SmallLetter(w[i])
  <2>1. \A i \in DOMAIN w : w[i] \in Point
    OBVIOUS
  <2> QED
    BY <1>1, <2>1
<1>3. w \in Seq(Foldable)
  BY <1>2
<1>4. w \in Seq(WordPoint)
  BY <1>2
<1>5. [i \in DOMAIN w |-> Lower(w[i])] = Folded(w)
  BY <1>2 DEF Folded
<1> QED
  BY <1>3, <1>4, <1>5 DEF KnownWord

\* The first word of a message, as its users see it, is what the service takes out of
\* the bytes.
LEMMA FirstWordIs ==
  ASSUME KnownLetters, Trimmed, NEW m \in Messages
  PROVE  \E w : /\ KnownWord(w) /\ w # <<>>
                /\ Promise!Word(m.points) = Folded(w)
                /\ FirstWord(Bytes(m.points)) = Bytes(w)
<1>1. PICK p \in Seq(Point) : p = m.points /\ p # <<>> /\ ~IsSpace(p[1])
  <2>1. m.points \in Seq(Unicode) /\ m.points # <<>> /\ ~IsSpace(m.points[1])
    BY PointsAssumption DEF Trimmed
  <2>2. \A x \in Unicode : x \in Point
    BY SMT DEF Unicode, Point
  <2> HIDE DEF Point, Unicode
  <2>3. m.points \in Seq(Point)
    BY <2>1, <2>2
  <2> QED
    BY <2>1, <2>3
<1> HIDE DEF Point, Foldable, WordPoint, KnownLetter, NonSpace, Byte
<1>2. \A i \in DOMAIN p : (\A j \in 1..i : ~IsSpace(p[j])) => KnownLetter(p[i])
  BY <1>1, Zenon DEF KnownLetters
<1>3. PICK w, r : Splits(p, w, r) /\ Promise!Word(p) = [i \in DOMAIN w |-> Lower(w[i])]
  BY <1>1, SplitWord
<1>4. /\ w \in Seq(Point) /\ r \in Seq(Point) /\ p = w \o r /\ w # <<>>
      /\ \A i \in DOMAIN w : i \in DOMAIN p /\ w[i] = p[i] /\ \A j \in 1..i : ~IsSpace(p[j])
      /\ r # <<>> => IsSpace(r[1])
  BY <1>3, Zenon DEF Splits
<1>5. KnownWord(w)
  <2>1. w \in Seq(Point)
    BY <1>4
  <2>2. ASSUME NEW i \in DOMAIN w PROVE ~IsSpace(w[i]) /\ KnownLetter(w[i])
    <3>1. i \in DOMAIN p /\ w[i] = p[i] /\ \A j \in 1..i : ~IsSpace(p[j])
      BY <1>4
    <3>2. i \in 1..i
      BY <2>1
    <3> QED
      BY <1>2, <3>1, <3>2
  <2> QED
    BY <2>1, <2>2, KnownWordIs
<1>6. Bytes(p) = Bytes(w) \o Bytes(r)
  BY <1>1, <1>4, BytesConcat
<1>7. Bytes(w) \in Seq(NonSpace) /\ Bytes(w) # <<>>
  <2>1. w \in Seq(WordPoint)
    BY <1>5 DEF KnownWord
  <2> QED
    BY <1>4, <2>1, BytesOfWord
<1>8. Bytes(r) \in Seq(Byte) /\ (Bytes(r) # <<>> => IsSpace(Bytes(r)[1]))
  BY <1>4, BytesOfSpaces
<1>9. StartsWithWord(Bytes(p), Bytes(w), Bytes(r), Byte)
  <2>1. \A b \in NonSpace : b \in Byte /\ ~IsSpace(b)
    BY DEF NonSpace
  <2>2. PICK bw : bw = Bytes(w)
    OBVIOUS
  <2>3. bw \in Seq(NonSpace)
    BY <1>7, <2>2
  <2>4. bw \in Seq(Byte) /\ \A i \in 1..Len(bw) : ~IsSpace(bw[i])
    BY <2>1, <2>3
  <2> QED
    BY <1>6, <1>7, <1>8, <2>2, <2>4, Zenon DEF StartsWithWord
<1>10. FirstWord(Bytes(p)) = Bytes(w)
  BY <1>9, FirstWordOf
<1>11. Promise!Word(p) = Folded(w)
  BY <1>3, <1>5 DEF KnownWord
<1> QED
  BY <1>1, <1>4, <1>5, <1>10, <1>11

\* normalizeTrigger folds a word and trims nothing of it.
LEMMA NormalizeWord ==
  ASSUME NEW w, KnownWord(w)
  PROVE  Folded(w) \in Seq(Point) /\ NormalizeTrigger(Bytes(w)) = Bytes(Folded(w))
<1> HIDE DEF Point, Foldable, WordPoint, NonSpace, Byte
<1>1. w \in Seq(Foldable) /\ w \in Seq(WordPoint)
  BY DEF KnownWord
<1>2. Bytes(w) \in Seq(NonSpace)
  BY <1>1, BytesOfWord
<1>3. Trim(Bytes(w)) = Bytes(w)
  BY <1>2, TrimWord
<1>4. Folded(w) \in Seq(Point) /\ ToLower(Bytes(w)) = Bytes(Folded(w))
  BY <1>1, ToLowerFolds
<1> QED
  BY <1>3, <1>4, Zenon DEF NormalizeTrigger

\* The trigger that RpService::match looks up is the first word of the message in
\* lower case, encoded.
LEMMA MessageTrigger ==
  ASSUME KnownLetters, Trimmed, NEW m \in Messages
  PROVE  /\ Promise!WordOf[m.points] \in Seq(Point)
         /\ TriggerOf[m] = Bytes(Promise!WordOf[m.points])
<1> HIDE DEF Point
<1>1. PICK w : /\ KnownWord(w) /\ w # <<>>
               /\ Promise!Word(m.points) = Folded(w)
               /\ FirstWord(Bytes(m.points)) = Bytes(w)
  BY FirstWordIs
<1>2. Promise!WordOf[m.points] = Folded(w)
  BY <1>1, Zenon DEF Promise!WordOf
<1>3. TriggerOf[m] = NormalizeTrigger(Bytes(w))
  BY <1>1, Zenon DEF TriggerOf
<1> QED
  BY <1>1, <1>2, <1>3, NormalizeWord

\* /rpadd, /rpremove and /rpedit store under the trigger in lower case, encoded.
LEMMA CommandWord ==
  ASSUME KnownLetters, NEW x \in Edits \union Defaults
  PROVE  /\ KnownWord(x.points) /\ StoredAs[x.points] = Bytes(Folded(x.points))
         /\ Folded(x.points) \in TriggerWords /\ Folded(x.points) \in Seq(Point)
<1>1. PICK p \in Seq(Point) : p = x.points /\ \A i \in DOMAIN p : ~IsSpace(p[i])
  <2>1. x.points \in Seq({q \in Unicode : ~IsSpace(q)})
    BY TextsAssumption
  <2>2. PICK X : X = {q \in Unicode : ~IsSpace(q)}
    OBVIOUS
  <2>3. \A q \in X : q \in Point /\ ~IsSpace(q)
    BY <2>2, SMT DEF Unicode, Point
  <2> HIDE DEF Point, Unicode
  <2>4. x.points \in Seq(Point) /\ \A i \in DOMAIN x.points : ~IsSpace(x.points[i])
    BY <2>1, <2>2, <2>3
  <2> QED
    BY <2>4
<1> HIDE DEF Point, KnownLetter
<1>2. \A i \in DOMAIN p : KnownLetter(p[i])
  BY <1>1, Zenon DEF KnownLetters
<1>3. KnownWord(p)
  BY <1>1, <1>2, KnownWordIs
<1>4. StoredAs[p] = NormalizeTrigger(Bytes(p))
  BY <1>1, Zenon DEF StoredAs
<1>5. Folded(p) \in TriggerWords
  <2>1. [i \in DOMAIN p |-> Lower(p[i])] \in TriggerWords
    BY <1>1, Zenon DEF TriggerWords
  <2> QED
    BY <1>3, <2>1 DEF KnownWord
<1> QED
  BY <1>1, <1>3, <1>4, <1>5, NormalizeWord

-----------------------------------------------------------------------------
(* The table of the service and what is stored for the users.              *)

\* The promise has the same word for the trigger of a command.
LEMMA EditWord ==
  ASSUME KnownLetters, NEW e \in Edits
  PROVE  Promise!WordOf[e.points] = Folded(e.points)
<1>1. KnownWord(e.points)
  BY CommandWord
<1>2. PICK p \in Seq(Point) : p = e.points /\ \A i \in DOMAIN p : ~IsSpace(p[i])
  <2>1. \A q \in WordPoint : q \in Point /\ ~IsSpace(q)
    BY SMT DEF WordPoint
  <2> HIDE DEF Point, WordPoint, Foldable
  <2>2. e.points \in Seq(WordPoint)
    BY <1>1 DEF KnownWord
  <2>3. e.points \in Seq(Point) /\ \A i \in DOMAIN e.points : ~IsSpace(e.points[i])
    BY <2>1, <2>2
  <2> QED
    BY <2>3
<1> HIDE DEF Point
<1>3. {i \in DOMAIN p : p[i] \in (9..13) \union {32}} = {}
  BY <1>2 DEF IsSpace
<1>4. Promise!Word(p) = LET word == SubSeq(p, 1, Len(p)) IN [i \in DOMAIN word |-> Lower(word[i])]
  BY <1>3 DEF Promise!Word
<1>5. SubSeq(p, 1, Len(p)) = p
  OBVIOUS
<1>6. Promise!Word(p) = Folded(p)
  BY <1>1, <1>2, <1>4, <1>5 DEF KnownWord
<1>7. Promise!WordOf[e.points] = Promise!Word(e.points)
  BY Zenon DEF Promise!WordOf
<1> QED
  BY <1>2, <1>6, <1>7

\* Each key of the table stands for one word.
LEMMA WordsOfTable ==
  ASSUME KnownLetters
  PROVE  /\ \A w \in TriggerWords : w \in Seq(Point) /\ BytesOf[w] = Bytes(w)
         /\ \A v, w \in TriggerWords : BytesOf[v] = BytesOf[w] => v = w
<1> HIDE DEF Point
<1>1. ASSUME NEW w \in TriggerWords PROVE w \in Seq(Point)
  <2>1. PICK x \in Edits \union Defaults : w = [i \in DOMAIN x.points |-> Lower(x.points[i])]
    BY <1>1, Zenon DEF TriggerWords
  <2>2. KnownWord(x.points) /\ Folded(x.points) \in Seq(Point)
    BY CommandWord
  <2> QED
    BY <2>1, <2>2 DEF KnownWord
<1>2. \A w \in TriggerWords : BytesOf[w] = Bytes(w)
  BY Zenon DEF BytesOf
<1>3. ASSUME NEW v \in TriggerWords, NEW w \in TriggerWords, BytesOf[v] = BytesOf[w] PROVE v = w
  <2>1. v \in Seq(Point) /\ w \in Seq(Point) /\ Bytes(v) = Bytes(w)
    BY <1>1, <1>2, <1>3
  <2> QED
    BY <2>1, BytesInjective
<1> QED
  BY <1>1, <1>2, <1>3

\* The responses by word, as the refinement mapping has them.
StoredOf(t) == [w \in {w \in TriggerWords : BytesOf[w] \in DOMAIN t} |-> t[BytesOf[w]]]
TableOf(t) == DOMAIN t \subseteq {StoredAs[x.points] : x \in Edits \union Defaults}

\* A word is stored, for the users, when its bytes are a key of the table, and with the
\* same response.
LEMMA LookUp ==
  ASSUME KnownLetters, NEW t, TableOf(t), NEW w \in Seq(Point), NEW b, b = Bytes(w)
  PROVE  /\ w \in DOMAIN StoredOf(t) <=> b \in DOMAIN t
         /\ w \in DOMAIN StoredOf(t) => StoredOf(t)[w] = t[b]
<1> HIDE DEF Point
<1>1. ASSUME b \in DOMAIN t PROVE w \in TriggerWords
  <2>1. PICK x \in Edits \union Defaults : b = StoredAs[x.points]
    BY <1>1 DEF TableOf
  <2>2. Folded(x.points) \in TriggerWords /\ Folded(x.points) \in Seq(Point) /\ b = Bytes(Folded(x.points))
    BY <2>1, CommandWord
  <2>3. w = Folded(x.points)
    BY <2>2, BytesInjective
  <2> QED
    BY <2>2, <2>3
<1>2. \A v \in TriggerWords : BytesOf[v] = Bytes(v)
  BY WordsOfTable
<1>3. DOMAIN StoredOf(t) = {v \in TriggerWords : BytesOf[v] \in DOMAIN t}
      /\ \A v \in DOMAIN StoredOf(t) : StoredOf(t)[v] = t[BytesOf[v]]
  BY DEF StoredOf
<1> HIDE DEF StoredOf
<1>4. w \in DOMAIN StoredOf(t) <=> b \in DOMAIN t
  BY <1>1, <1>2, <1>3
<1>5. w \in DOMAIN StoredOf(t) => StoredOf(t)[w] = t[b]
  BY <1>2, <1>3
<1> QED
  BY <1>4, <1>5

\* A table with a response put in, and with one taken out.
Put(t, b, r) == [v \in DOMAIN t \union {b} |-> IF v = b THEN r ELSE t[v]]
Without(t, b) == [v \in DOMAIN t \ {b} |-> t[v]]

\* A response put into the table is one that is stored.
LEMMA StoredPut ==
  ASSUME KnownLetters, NEW w \in TriggerWords, NEW t, NEW r
  PROVE  StoredOf(Put(t, BytesOf[w], r)) = Put(StoredOf(t), w, r)
<1>0. \A v, u \in TriggerWords : BytesOf[v] = BytesOf[u] => v = u
  BY WordsOfTable
<1> DEFINE b == BytesOf[w]
           put == Put(t, b, r)
<1>1. {v \in TriggerWords : BytesOf[v] \in DOMAIN put} = DOMAIN StoredOf(t) \union {w}
  BY <1>0 DEF StoredOf, Put
<1>2. \A v \in DOMAIN StoredOf(t) \union {w} :
        put[BytesOf[v]] = IF v = w THEN r ELSE StoredOf(t)[v]
  BY <1>0 DEF StoredOf, Put
<1> HIDE DEF put
<1>3. StoredOf(put) = [v \in {v \in TriggerWords : BytesOf[v] \in DOMAIN put} |-> put[BytesOf[v]]]
  BY Zenon DEF StoredOf
<1> HIDE DEF StoredOf
<1>4. StoredOf(put) = Put(StoredOf(t), w, r)
  BY <1>1, <1>2, <1>3 DEF Put
<1> QED
  BY <1>4 DEF put

\* A response taken out of the table is one that is not stored any more.
LEMMA StoredWithout ==
  ASSUME KnownLetters, NEW w \in TriggerWords, NEW t
  PROVE  StoredOf(Without(t, BytesOf[w])) = Without(StoredOf(t), w)
<1>0. \A v, u \in TriggerWords : BytesOf[v] = BytesOf[u] => v = u
  BY WordsOfTable
<1> DEFINE rest == Without(t, BytesOf[w])
<1>1. {v \in TriggerWords : BytesOf[v] \in DOMAIN rest} = DOMAIN StoredOf(t) \ {w}
  BY <1>0 DEF StoredOf, Without
<1>2. \A v \in DOMAIN StoredOf(t) \ {w} : rest[BytesOf[v]] = StoredOf(t)[v]
  BY <1>0 DEF StoredOf, Without
<1> HIDE DEF rest
<1>3. StoredOf(rest) = [v \in {v \in TriggerWords : BytesOf[v] \in DOMAIN rest} |-> rest[BytesOf[v]]]
  BY Zenon DEF StoredOf
<1> HIDE DEF StoredOf
<1>4. StoredOf(rest) = Without(StoredOf(t), w)
  BY <1>1, <1>2, <1>3 DEF Without
<1> QED
  BY <1>4 DEF rest

-----------------------------------------------------------------------------
(* substituteVariables, one replaceAll after the other.                    *)

\* What replaceAll makes of one piece of a text, and of each.
PutOne(x, from, to) == IF x = from THEN to ELSE <<x>>
PutPieces(t, from, to) == [i \in DOMAIN t |-> PutOne(t[i], from, to)]

\* replaceAll makes a piece of each piece.
LEMMA PutPiecesType ==
  ASSUME NEW X, NEW t \in Seq(X), NEW from, NEW to \in Seq(X), NEW n \in Nat, n = Len(t)
  PROVE  /\ PutPieces(t, from, to) \in [1..n -> Seq(X)]
         /\ PutPieces(t, from, to) \in Seq(Seq(X)) /\ Len(PutPieces(t, from, to)) = n
         /\ \A i \in 1..n : PutPieces(t, from, to)[i] = PutOne(t[i], from, to)
         /\ PutIn(t, from, to) = FlattenSeq(PutPieces(t, from, to))
<1>1. DOMAIN t = 1..n /\ \A i \in 1..n : t[i] \in X
  OBVIOUS
<1>2. \A x \in X : <<x>> \in Seq(X)
  OBVIOUS
<1>3. \A i \in 1..n : PutOne(t[i], from, to) \in Seq(X)
  BY <1>1, <1>2 DEF PutOne
<1>4. /\ PutPieces(t, from, to) \in [1..n -> Seq(X)]
      /\ \A i \in 1..n : PutPieces(t, from, to)[i] = PutOne(t[i], from, to)
  BY <1>1, <1>3 DEF PutPieces
<1>5. PutPieces(t, from, to) \in Seq(Seq(X)) /\ Len(PutPieces(t, from, to)) = n
  BY <1>4
<1>6. PutIn(t, from, to) = FlattenSeq(PutPieces(t, from, to))
  BY Zenon DEF PutIn, PutPieces, PutOne
<1> QED
  BY <1>4, <1>5, <1>6

\* What replaceAll makes of a text is a text.
LEMMA PutInType ==
  ASSUME NEW X, NEW t \in Seq(X), NEW from, NEW to \in Seq(X)
  PROVE  PutIn(t, from, to) \in Seq(X)
<1>1. PICK n \in Nat : n = Len(t)
  OBVIOUS
<1>2. PICK ss \in Seq(Seq(X)) : PutIn(t, from, to) = FlattenSeq(ss)
  BY <1>1, PutPiecesType
<1> QED
  BY <1>2, FlattenType

\* replaceAll goes into two texts one behind the other by themselves ...
LEMMA PutInConcat ==
  ASSUME NEW X, NEW u \in Seq(X), NEW v \in Seq(X), NEW w, IsJoin(w, u, v), NEW from, NEW to \in Seq(X)
  PROVE  IsJoin(PutIn(w, from, to), PutIn(u, from, to), PutIn(v, from, to))
<1>1. PICK n \in Nat, m \in Nat, l \in Nat : n = Len(u) /\ m = Len(v) /\ l = n + m
  OBVIOUS
<1>2. w \in Seq(X) /\ Len(w) = l /\ (\A i \in 1..n : w[i] = u[i]) /\ (\A j \in 1..m : w[n + j] = v[j])
  BY <1>1, Concat DEF IsJoin
<1> DEFINE ss == PutPieces(u, from, to)
           tt == PutPieces(v, from, to)
           uu == PutPieces(w, from, to)
<1>3. ss \in Seq(Seq(X)) /\ Len(ss) = n /\ \A i \in 1..n : ss[i] = PutOne(u[i], from, to)
  BY <1>1, PutPiecesType
<1>4. tt \in Seq(Seq(X)) /\ Len(tt) = m /\ \A i \in 1..m : tt[i] = PutOne(v[i], from, to)
  BY <1>1, PutPiecesType
<1>5. uu \in Seq(Seq(X)) /\ Len(uu) = l /\ \A i \in 1..l : uu[i] = PutOne(w[i], from, to)
  BY <1>2, PutPiecesType
<1>6. (\A i \in 1..n : i \in 1..l) /\ (\A j \in 1..m : n + j \in 1..l)
  BY <1>1
<1>7. PutIn(u, from, to) = FlattenSeq(ss) /\ PutIn(v, from, to) = FlattenSeq(tt)
      /\ PutIn(w, from, to) = FlattenSeq(uu)
  BY <1>2, PutPiecesType
<1> HIDE DEF ss, tt, uu
<1>8. Follow(uu, ss, tt, n, m)
  BY <1>1, <1>2, <1>3, <1>4, <1>5, <1>6 DEF Follow
<1>9. IsJoin(FlattenSeq(uu), FlattenSeq(ss), FlattenSeq(tt))
  BY <1>3, <1>4, <1>5, <1>8, FlattenFollow
<1> QED
  BY <1>7, <1>9

\* ... leaves the empty text empty ...
LEMMA PutInNone ==
  ASSUME NEW from, NEW to
  PROVE  PutIn(<<>>, from, to) = <<>>
<1>1. [i \in DOMAIN <<>> |-> IF <<>>[i] = from THEN to ELSE <<<<>>[i]>>] = <<>>
  OBVIOUS
<1> QED
  BY <1>1, FlattenNone DEF PutIn

\* The pieces of a text after replaceAll.
PutEach(tt, ss, n, from, to) == \A i \in 1..n : tt[i] = PutIn(ss[i], from, to)

\* ... and goes into each piece of a text by itself.
LEMMA PutInFlatten ==
  ASSUME NEW X, NEW n \in Nat, NEW ss \in [1..n -> Seq(X)], NEW from, NEW to \in Seq(X),
         NEW tt \in [1..n -> Seq(X)], PutEach(tt, ss, n, from, to)
  PROVE  PutIn(FlattenSeq(ss), from, to) = FlattenSeq(tt)
<1>1. PICK F \in [0..n -> Seq(X)] : Joins(F, ss, n)
  BY PrefixesExist
<1>2. PICK G \in [0..n -> Seq(X)] : Joins(G, tt, n)
  BY PrefixesExist
<1> DEFINE T == {k \in 0..n : PutIn(F[k], from, to) = G[k]}
<1>3. 0 \in T
  BY <1>1, <1>2, PutInNone DEF Joins
<1>4. ASSUME NEW k \in 0..(n - 1), k \in T PROVE k + 1 \in T
  <2>1. k + 1 \in 1..n /\ k \in 0..n /\ k + 1 \in 0..n
    OBVIOUS
  <2>2. PICK f \in Seq(X), s \in Seq(X), g \in Seq(X) : f = F[k] /\ s = ss[k + 1] /\ g = F[k + 1]
    BY <2>1
  <2>3. IsJoin(g, f, s)
    BY <1>1, <2>2 DEF Joins, IsJoin
  <2>4. IsJoin(PutIn(g, from, to), PutIn(f, from, to), PutIn(s, from, to))
    BY <2>3, PutInConcat
  <2>5. PutIn(f, from, to) = G[k] /\ PutIn(s, from, to) = tt[k + 1]
    <3>1. tt[k + 1] = PutIn(ss[k + 1], from, to)
      BY <2>1, Zenon DEF PutEach
    <3> QED
      BY <1>4, <2>1, <2>2, <3>1
  <2>6. G[k + 1] = G[k] \o tt[k + 1]
    BY <1>2 DEF Joins
  <2>7. PutIn(g, from, to) = G[k + 1]
    BY <2>4, <2>5, <2>6 DEF IsJoin
  <2> QED
    BY <2>1, <2>2, <2>7
<1>5. n \in T
  <2>1. \A k \in 0..n : k \in T
    <3> HIDE DEF T
    <3> QED
      BY <1>3, <1>4, UpTo
  <2> QED
    BY <2>1
<1>6. FlattenSeq(ss) = F[n]
  <2>1. ss \in Seq(Seq(X)) /\ Len(ss) = n
    OBVIOUS
  <2> QED
    BY <1>1, <2>1, FlattenIsLastPrefix
<1>7. FlattenSeq(tt) = G[n]
  <2>1. tt \in Seq(Seq(X)) /\ Len(tt) = n
    OBVIOUS
  <2> QED
    BY <1>2, <2>1, FlattenIsLastPrefix
<1> QED
  BY <1>5, <1>6, <1>7

\* A text is put together of its pieces, one by one.
LEMMA FlattenPieces ==
  ASSUME NEW X, NEW t \in Seq(X), NEW n \in Nat, n = Len(t), NEW ss \in [1..n -> Seq(X)],
         \A i \in 1..n : ss[i] = <<t[i]>>
  PROVE  FlattenSeq(ss) = t
<1>1. PICK F \in [0..n -> Seq(X)] : Joins(F, ss, n)
  BY PrefixesExist
<1> DEFINE T == {k \in 0..n : Len(F[k]) = k /\ \A j \in 1..k : F[k][j] = t[j]}
<1>2. 0 \in T
  BY <1>1 DEF Joins
<1>3. ASSUME NEW k \in 0..(n - 1), k \in T PROVE k + 1 \in T
  <2>1. k + 1 \in 1..n /\ k \in 0..n /\ k + 1 \in 0..n
    OBVIOUS
  <2>2. PICK f \in Seq(X), s \in Seq(X), g \in Seq(X) : f = F[k] /\ s = ss[k + 1] /\ g = F[k + 1]
    BY <2>1
  <2>3. g = f \o s
    BY <1>1, <2>2 DEF Joins
  <2>4. Len(f) = k /\ \A j \in 1..k : f[j] = t[j]
    BY <1>3, <2>2
  <2>5. Len(s) = 1 /\ s[1] = t[k + 1]
    <3>1. s = <<t[k + 1]>>
      BY <2>1, <2>2
    <3> QED
      BY <3>1
  <2>6. Len(g) = k + 1 /\ (\A j \in 1..k : g[j] = f[j]) /\ g[k + 1] = s[1]
    <3>1. Len(g) = Len(f) + Len(s) /\ (\A j \in 1..Len(f) : g[j] = f[j])
          /\ \A j \in 1..Len(s) : g[Len(f) + j] = s[j]
      BY <2>3, Concat
    <3>2. 1 \in 1..1
      OBVIOUS
    <3> QED
      BY <2>4, <2>5, <3>1, <3>2
  <2>7. \A j \in 1..(k + 1) : j \in 1..k \/ j = k + 1
    OBVIOUS
  <2>8. \A j \in 1..(k + 1) : g[j] = t[j]
    BY <2>4, <2>5, <2>6, <2>7
  <2> QED
    BY <2>1, <2>2, <2>6, <2>8
<1>4. Len(F[n]) = n /\ \A j \in 1..n : F[n][j] = t[j]
  <2>1. \A k \in 0..n : k \in T
    <3> HIDE DEF T
    <3> QED
      BY <1>2, <1>3, UpTo
  <2> QED
    BY <2>1
<1>5. F[n] = t
  <2>1. PICK f \in Seq(X) : f = F[n]
    OBVIOUS
  <2> QED
    BY <1>4, <2>1
<1>6. ss \in Seq(Seq(X)) /\ Len(ss) = n
  OBVIOUS
<1> QED
  BY <1>1, <1>5, <1>6, FlattenIsLastPrefix

\* replaceAll leaves a text alone that has not what it looks for.
LEMMA PutInNothing ==
  ASSUME NEW X, NEW t \in Seq(X), NEW from, NEW to \in Seq(X), \A i \in DOMAIN t : t[i] # from
  PROVE  PutIn(t, from, to) = t
<1>1. PICK n \in Nat : n = Len(t)
  OBVIOUS
<1>2. DOMAIN t = 1..n
  BY <1>1
<1> DEFINE ss == PutPieces(t, from, to)
<1>3. /\ ss \in [1..n -> Seq(X)]
      /\ \A i \in 1..n : ss[i] = PutOne(t[i], from, to)
      /\ PutIn(t, from, to) = FlattenSeq(ss)
  BY <1>1, PutPiecesType
<1> HIDE DEF ss
<1>4. \A i \in 1..n : ss[i] = <<t[i]>>
  BY <1>2, <1>3 DEF PutOne
<1>5. FlattenSeq(ss) = t
  BY <1>1, <1>3, <1>4, FlattenPieces
<1> QED
  BY <1>3, <1>5

\* replaceAll on a single piece.
LEMMA PutInOne ==
  ASSUME NEW X, NEW x \in X, NEW from, NEW to \in Seq(X)
  PROVE  PutIn(<<x>>, from, to) = PutOne(x, from, to)
<1>1. <<x>> \in Seq(X) /\ Len(<<x>>) = 1 /\ <<x>>[1] = x
  OBVIOUS
<1>2. PICK t \in Seq(X) : t = <<x>>
  BY <1>1
<1>3. Len(t) = 1 /\ t[1] = x /\ DOMAIN t = 1..1
  BY <1>1, <1>2
<1> DEFINE ss == PutPieces(t, from, to)
<1>4. /\ ss \in [1..1 -> Seq(X)]
      /\ \A i \in 1..1 : ss[i] = PutOne(t[i], from, to)
      /\ PutIn(t, from, to) = FlattenSeq(ss)
  BY <1>3, PutPiecesType
<1> HIDE DEF ss
<1>5. ss[1] = PutOne(x, from, to) /\ ss[1] \in Seq(X)
  BY <1>3, <1>4
<1>6. ss = <<ss[1]>>
  BY <1>4
<1>7. FlattenSeq(ss) = ss[1]
  <2>1. PICK e \in Seq(X) : e = ss[1]
    BY <1>5
  <2>2. FlattenSeq(<<e>>) = e
    BY FlattenOne
  <2> QED
    BY <1>6, <2>1, <2>2
<1> QED
  BY <1>2, <1>4, <1>5, <1>7

\* What becomes of one piece of a response.
FillOne(x, A, B) ==
  CASE x \in {"{mention}", "{mention1}"} -> A
    [] x = "{mention2}" -> B
    [] OTHER -> <<x>>

\* The pieces of a text, before and after one replaceAll.
PutFirst(s, r, n, from, to) == \A i \in 1..n : s[i] = PutOne(r[i], from, to)

\* What one more replaceAll makes of each piece.
LEMMA PutInTypes ==
  ASSUME NEW X, NEW n \in Nat, NEW ss \in [1..n -> Seq(X)], NEW from, NEW to \in Seq(X)
  PROVE  \E tt \in [1..n -> Seq(X)] : PutEach(tt, ss, n, from, to)
<1>1. \A s \in Seq(X) : PutIn(s, from, to) \in Seq(X)
  BY PutInType
<1>2. \A i \in 1..n : PutIn(ss[i], from, to) \in Seq(X)
  BY <1>1
<1> DEFINE tt == [i \in 1..n |-> PutIn(ss[i], from, to)]
<1>3. tt \in [1..n -> Seq(X)] /\ \A i \in 1..n : tt[i] = PutIn(ss[i], from, to)
  BY <1>2
<1> HIDE DEF tt
<1> QED
  BY <1>3, Zenon DEF PutEach

\* The three calls of replaceAll on one piece of a response fill it in, unless the
\* name that they put in has a placeholder itself.
LEMMA FillsOne ==
  ASSUME NEW X, NEW x \in X, NEW A \in Seq(X), NEW B \in Seq(X),
         \A i \in DOMAIN A : A[i] # "{mention}" /\ A[i] # "{mention2}"
  PROVE  PutIn(PutIn(PutOne(x, "{mention1}", A), "{mention}", A), "{mention2}", B)
           = FillOne(x, A, B)
<1>1. PutIn(A, "{mention}", A) = A /\ PutIn(A, "{mention2}", B) = A
  BY PutInNothing
<1>2. PutIn(<<x>>, "{mention}", A) = PutOne(x, "{mention}", A)
      /\ PutIn(<<x>>, "{mention2}", B) = PutOne(x, "{mention2}", B)
  BY PutInOne
<1>3. CASE x = "{mention1}"
  BY <1>1, <1>3 DEF PutOne, FillOne
<1>4. CASE x = "{mention}"
  BY <1>1, <1>2, <1>4 DEF PutOne, FillOne
<1>5. CASE x \notin {"{mention1}", "{mention}"}
  BY <1>2, <1>5 DEF PutOne, FillOne
<1> QED
  BY <1>3, <1>4, <1>5

\* The types of the next lemma, which the provers need not look into.
IsTextOf(t, X) == t \in Seq(X)
ArePieces(s, n, X) == s \in [1..n -> Seq(X)]

PutsOnce(r, s, n, X, from, to) ==
  ArePieces(s, n, X) /\ PutFirst(s, r, n, from, to) /\ PutIn(r, from, to) = FlattenSeq(s)
PutsAgain(ss, tt, n, X, from, to) ==
  /\ ArePieces(tt, n, X) /\ PutEach(tt, ss, n, from, to)
  /\ PutIn(FlattenSeq(ss), from, to) = FlattenSeq(tt)

\* The first call of replaceAll, as a list of pieces ...
LEMMA PutPiecesOnce ==
  ASSUME NEW X, NEW n \in Nat, NEW r, IsTextOf(r, X), n = Len(r), NEW from,
         NEW to, IsTextOf(to, X)
  PROVE  \E s : PutsOnce(r, s, n, X, from, to)
<1>1. PICK t \in Seq(X), u \in Seq(X) : t = r /\ u = to
  BY Zenon DEF IsTextOf
<1>2. n = Len(t)
  BY <1>1
<1>3. /\ PutPieces(t, from, u) \in [1..n -> Seq(X)]
      /\ \A i \in 1..n : PutPieces(t, from, u)[i] = PutOne(t[i], from, u)
      /\ PutIn(t, from, u) = FlattenSeq(PutPieces(t, from, u))
  BY <1>2, PutPiecesType
<1>4. PutsOnce(t, PutPieces(t, from, u), n, X, from, u)
  BY <1>3, Zenon DEF ArePieces, PutsOnce, PutFirst
<1> QED
  BY <1>1, <1>4, Zenon

\* ... and each further one.
LEMMA PutPiecesAgain ==
  ASSUME NEW X, NEW n \in Nat, NEW ss, ArePieces(ss, n, X), NEW from, NEW to, IsTextOf(to, X)
  PROVE  \E tt : PutsAgain(ss, tt, n, X, from, to)
<1>1. PICK f \in [1..n -> Seq(X)] : f = ss
  BY Zenon DEF ArePieces
<1>2. PICK u \in Seq(X) : u = to
  BY Zenon DEF IsTextOf
<1>3. PICK tt \in [1..n -> Seq(X)] : PutEach(tt, f, n, from, u)
  BY PutInTypes, Zenon
<1>4. PutIn(FlattenSeq(f), from, u) = FlattenSeq(tt)
  BY <1>3, PutInFlatten
<1>5. PutsAgain(f, tt, n, X, from, u)
  BY <1>3, <1>4, Zenon DEF PutsAgain, ArePieces
<1> QED
  BY <1>1, <1>2, <1>5, Zenon

\* A text of n pieces.
LEMMA PiecesOf ==
  ASSUME NEW X, NEW r, IsTextOf(r, X)
  PROVE  \E n \in Nat : n = Len(r) /\ DOMAIN r = 1..n /\ \A i \in 1..n : r[i] \in X
<1>1. \A s \in Seq(X) : Len(s) \in Nat /\ DOMAIN s = 1..Len(s) /\ \A i \in 1..Len(s) : s[i] \in X
  OBVIOUS
<1> QED
  BY <1>1, Zenon DEF IsTextOf

Thrice(r, A, B, one, two, three) == PutIn(PutIn(PutIn(r, one, A), two, A), three, B)
EachThrice(r, A, B, one, two, three) ==
  FlattenSeq([i \in DOMAIN r |-> PutIn(PutIn(PutOne(r[i], one, A), two, A), three, B)])

\* Three calls of replaceAll on a text are three calls on each piece of it.
LEMMA PutThrice ==
  ASSUME NEW X, NEW r, IsTextOf(r, X), NEW A, IsTextOf(A, X), NEW B, IsTextOf(B, X),
         NEW one, NEW two, NEW three
  PROVE  Thrice(r, A, B, one, two, three) = EachThrice(r, A, B, one, two, three)
<1>1. PICK n \in Nat : n = Len(r) /\ DOMAIN r = 1..n
  BY PiecesOf, Zenon
<1>2. PICK s1 : PutsOnce(r, s1, n, X, one, A)
  BY <1>1, PutPiecesOnce, Zenon
<1>3. PICK s2 : PutsAgain(s1, s2, n, X, two, A)
  <2>1. ArePieces(s1, n, X)
    BY <1>2, Zenon DEF PutsOnce
  <2> QED
    BY <2>1, PutPiecesAgain, Zenon
<1>4. PICK s3 : PutsAgain(s2, s3, n, X, three, B)
  <2>1. ArePieces(s2, n, X)
    BY <1>3, Zenon DEF PutsAgain
  <2> QED
    BY <2>1, PutPiecesAgain, Zenon
<1>5. \A i \in 1..n : s3[i] = PutIn(PutIn(PutOne(r[i], one, A), two, A), three, B)
  BY <1>2, <1>3, <1>4, Zenon DEF PutsOnce, PutsAgain, PutFirst, PutEach
<1>6. s3 = [i \in 1..n |-> s3[i]]
  BY <1>4, Zenon DEF PutsAgain, ArePieces
<1>7. s3 = [i \in DOMAIN r |-> PutIn(PutIn(PutOne(r[i], one, A), two, A), three, B)]
  BY <1>1, <1>5, <1>6, Zenon
<1> QED
  BY <1>2, <1>3, <1>4, <1>7, Zenon DEF PutsOnce, PutsAgain, Thrice, EachThrice

\* The placeholders.
Sender == "{mention}"
SenderToo == "{mention1}"
Target == "{mention2}"
Avoids(A) == \A i \in DOMAIN A : A[i] # Sender /\ A[i] # Target

\* FillsOne with the placeholders named.
LEMMA FillsThrice ==
  ASSUME NEW X, NEW x \in X, NEW A, IsTextOf(A, X), NEW B, IsTextOf(B, X), Avoids(A)
  PROVE  PutIn(PutIn(PutOne(x, SenderToo, A), Sender, A), Target, B) = FillOne(x, A, B)
<1>1. A \in Seq(X) /\ B \in Seq(X) /\ \A i \in DOMAIN A : A[i] # "{mention}" /\ A[i] # "{mention2}"
  BY DEF IsTextOf, Avoids, Sender, Target
<1> QED
  BY <1>1, FillsOne DEF Sender, SenderToo, Target

\* substituteVariables fills in each piece of a response.
LEMMA FillsPieces ==
  ASSUME NEW X, NEW r, IsTextOf(r, X), NEW A, IsTextOf(A, X), NEW B, IsTextOf(B, X), Avoids(A)
  PROVE  SubstituteVariables(r, A, B)
           = FlattenSeq([i \in DOMAIN r |-> FillOne(r[i], A, B)])
<1>1. Thrice(r, A, B, SenderToo, Sender, Target) = EachThrice(r, A, B, SenderToo, Sender, Target)
  BY PutThrice, ZenonT(40)
<1>2. PICK n \in Nat : n = Len(r) /\ DOMAIN r = 1..n /\ \A i \in 1..n : r[i] \in X
  BY PiecesOf, Zenon
<1>3. \A i \in DOMAIN r : r[i] \in X
  BY <1>2, Zenon
<1>4. \A i \in DOMAIN r :
        PutIn(PutIn(PutOne(r[i], SenderToo, A), Sender, A), Target, B) = FillOne(r[i], A, B)
  BY <1>3, FillsThrice, Zenon
<1>5. SubstituteVariables(r, A, B) = Thrice(r, A, B, SenderToo, Sender, Target)
  BY DEF SubstituteVariables, Thrice, Sender, SenderToo, Target
<1> QED
  BY <1>1, <1>4, <1>5, Zenon DEF EachThrice

\* What responses and names are made of.
Parts ==
  UNION ({Range(x.response) : x \in Edits \union Defaults} \union {Range(Name[u]) : u \in Users})

\* A sequence over a smaller set.
LEMMA SeqGrows ==
  ASSUME NEW X, NEW Y, X \subseteq Y, NEW s \in Seq(X)
  PROVE  s \in Seq(Y)
  OBVIOUS

\* Responses and names are sequences of such parts.
LEMMA TextsOfParts ==
  /\ \A x \in Edits \union Defaults : x.response \in Seq(Parts)
  /\ \A u \in Users : Name[u] \in Seq(Parts)
<1>1. ASSUME NEW t, IsText(t), \A x \in Range(t) : x \in Parts PROVE t \in Seq(Parts)
  <2>1. t \in Seq(Range(t))
    BY <1>1 DEF IsText
  <2>2. Range(t) \subseteq Parts
    BY <1>1
  <2> HIDE DEF Range
  <2> QED
    BY <2>1, <2>2, SeqGrows, Zenon
<1>2. ASSUME NEW x \in Edits \union Defaults PROVE x.response \in Seq(Parts)
  <2>1. IsText(x.response)
    BY TextsAssumption
  <2>2. \A y \in Range(x.response) : y \in Parts
    BY DEF Parts
  <2> QED
    BY <1>1, <2>1, <2>2
<1>3. ASSUME NEW u \in Users PROVE Name[u] \in Seq(Parts)
  <2>1. IsText(Name[u])
    BY TextsAssumption
  <2>2. \A y \in Range(Name[u]) : y \in Parts
    BY DEF Parts
  <2> QED
    BY <1>1, <2>1, <2>2
<1> QED
  BY <1>2, <1>3

\* What RpService::match sends is what substituteVariables makes of the response.
LEMMA ResponseIs ==
  ASSUME NEW r \in {x.response : x \in Edits \union Defaults}, NEW from \in Users,
         NEW about \in Users \union {NoUser}
  PROVE  ResponseTo[r][from][about]
           = SubstituteVariables(r, MentionOf(from), MentionOf(about))
  BY Zenon DEF ResponseTo

\* The calls of replaceAll one after the other (rp_service.cpp, substituteVariables) fill
\* in all placeholders as if at once, when no name has one in it.
THEOREM SubstituteFills ==
  ASSUME PlainNames, NEW x \in Edits \union Defaults, NEW from \in Users,
         NEW about \in Users \union {NoUser}
  PROVE  ResponseTo[x.response][from][about] = Promise!Filled(x.response, from, about)
<1> DEFINE r == x.response
           A == Name[from]
           B == MentionOf(about)
<1>1. IsTextOf(r, Parts) /\ IsTextOf(A, Parts)
  BY TextsOfParts, Zenon DEF IsTextOf
<1>2. IsTextOf(B, Parts)
  <2>1. MentionOf(about) \in Seq(Parts)
    BY TextsOfParts, UsersAssumption DEF MentionOf
  <2> QED
    BY <2>1, Zenon DEF IsTextOf
<1>3. Avoids(A)
  <2>1. {"{mention}", "{mention2}"} \intersect Range(A) = {}
    BY DEF PlainNames
  <2>2. \A i \in DOMAIN A : A[i] \in Range(A)
    BY DEF Range
  <2> HIDE DEF A
  <2> QED
    BY <2>1, <2>2 DEF Avoids, Sender, Target
<1>4. A = MentionOf(from)
  BY UsersAssumption DEF MentionOf
<1>5. ResponseTo[r][from][about] = SubstituteVariables(r, MentionOf(from), B)
  <2>1. r \in {y.response : y \in Edits \union Defaults}
    BY Zenon
  <2> HIDE DEF r, B
  <2> QED
    BY <2>1, ResponseIs, Zenon DEF B
<1>6. SubstituteVariables(r, A, B) = FlattenSeq([i \in DOMAIN r |-> FillOne(r[i], A, B)])
  <2> HIDE DEF r, A, B
  <2> QED
    BY <1>1, <1>2, <1>3, FillsPieces, Zenon
<1>7. \A i \in DOMAIN r : FillOne(r[i], A, B) =
        CASE r[i] \in {"{mention}", "{mention1}"} -> Name[from]
          [] r[i] = "{mention2}" -> IF about = NoUser THEN <<>> ELSE Name[about]
          [] OTHER -> <<r[i]>>
  BY Zenon DEF FillOne, MentionOf
<1>8. \A s : Promise!FlattenSeq(s) = FlattenSeq(s)
  BY Zenon DEF Promise!FlattenSeq, FlattenSeq
<1>9. Promise!Filled(r, from, about) = FlattenSeq([i \in DOMAIN r |-> FillOne(r[i], A, B)])
  BY <1>7, <1>8, Zenon DEF Promise!Filled
<1> QED
  BY <1>4, <1>5, <1>6, <1>9

-----------------------------------------------------------------------------
(* What each variable of RpMatching holds, and what is remembered.         *)

\* kInvalidCodePoint is no code point.
LEMMA NotAPoint == \A p \in Point : p # Invalid
BY SMT DEF Point, Invalid

\* Unicode is within what four bytes can hold.
LEMMA UnicodePoints == \A p \in Unicode : p \in Point
BY SMT DEF Unicode, Point

\* The slots are numbered from 1.
LEMMA SlotsAre == \E n \in Nat : Slots = 1..n
<1>1. Cardinality(Slots) \in Nat
  BY SlotsAssumption, FS_CardinalityType
<1> QED
  BY <1>1, SlotsAssumption, Zenon

\* What the AI may see of a message is what sanitizeForAi makes of it.
LEMMA CleanIsSeen ==
  ASSUME NEW m \in Messages
  PROVE  CleanOf[m] = Seen[m]
<1>1. /\ m.points \in Seq(Unicode)
      /\ \A i \in DOMAIN m.points : (m.points[i] \in Unwanted) = IsZalgoOrBreaking(m.points[i])
  BY PointsAssumption
<1>2. \A p \in Unicode : p \in Point /\ p # Invalid
  BY UnicodePoints, NotAPoint, Zenon
<1>3. m.points \in Seq(Point)
  <2> HIDE DEF Point
  <2> QED
    BY SMT, <1>1, <1>2
<1>4. PICK points \in Seq(Point) :
        /\ points = m.points
        /\ \A i \in DOMAIN points : /\ points[i] # Invalid
                                    /\ (points[i] \in Unwanted) = IsZalgoOrBreaking(points[i])
  <2>1. \A i \in DOMAIN m.points : m.points[i] \in Unicode
    BY SMT, <1>1
  <2> HIDE DEF Point, Invalid
  <2> QED
    BY SMT, <1>1, <1>2, <1>3, <2>1
<1> HIDE DEF Point, Invalid
<1>5. SanitizeForAi(Bytes(points)) = FlattenSeq(KeptPieces(points))
  BY SanitizeKeeps
<1>6. KeptPieces(points) = [i \in DOMAIN points |->
        IF points[i] \in Unwanted THEN <<>> ELSE EncodeUtf8Point(points[i])]
  <2>1. \A i \in DOMAIN points : Kept(points[i]) =
          IF points[i] \in Unwanted THEN <<>> ELSE EncodeUtf8Point(points[i])
    BY <1>4 DEF Kept
  <2> QED
    BY <2>1 DEF KeptPieces
<1>7. CleanOf[m] = SanitizeForAi(Bytes(points))
  BY <1>4, Zenon DEF CleanOf
<1>8. Seen[m] = FlattenSeq(KeptPieces(points))
  <2>1. Seen[m] = FlattenSeq([i \in DOMAIN m.points |->
                    IF m.points[i] \in Unwanted THEN <<>> ELSE EncodeUtf8Point(m.points[i])])
    BY Zenon DEF Seen
  <2> QED
    BY <1>4, <1>6, <2>1, Zenon
<1> QED
  BY <1>5, <1>7, <1>8

Stages == {"free", "mention", "reply", "sender", "target", "matching", "done"}
Responses == {x.response : x \in Edits \union Defaults}
Said(r, from, to) == [is |-> "said", text |-> ResponseTo[r][from][to]]
Sayings == {Said(x[1], x[2], x[3]) : x \in Responses \X Users \X (Users \union {NoUser})}
Answers == {Waiting, Silent, Failed} \union Sayings
Item == [stage : Stages, msg : Messages \union {NoMessage}, target : Users \union {NoUser},
         reaction : Answers]
Call == [of : {"nothing", "match", "command"}, slot : Slots \union {0},
         edit : Edits \union {NoEdit}, served : BOOLEAN, answer : Answers]

\* What each variable holds, and that a match is of a message that waits for it.
TypeOK ==
  /\ \A t \in DOMAIN table : table[t] \in Responses
  /\ items \in [Slots -> Item]
  /\ call \in Call
  /\ \A k \in Slots : items[k].stage # "free" => items[k].msg \in Messages
  /\ call.of = "match" => call.slot \in Slots /\ items[call.slot].stage = "matching"
  /\ call.of = "command" => call.edit \in Edits

\* The entries of the messages, and the last of the first r of them.
EntryOf(m) == [sender |-> m.sender, text |-> Seen[m]]
Entries == [k \in Slots |-> EntryOf(items[k].msg)]
Window(f, r) ==
  LET kept == IF r > MaxContext THEN MaxContext ELSE r
  IN  [i \in 1..kept |-> f[r - kept + i]]
Received(r) == \A k \in Slots : items[k].stage # "free" <=> k <= r
Remembered == \E r \in Slots \union {0} : Received(r) /\ recent = Window(Entries, r)

IInv == TypeOK /\ Remembered

\* At the start nothing is received and nothing remembered.
LEMMA InitIInv == Init => IInv
<1> SUFFICES ASSUME Init PROVE IInv
  OBVIOUS
<1>1. TypeOK
  <2>1. \A t \in DOMAIN table : table[t] \in Responses
    <3> SUFFICES ASSUME NEW t \in {StoredAs[d.points] : d \in Defaults}
                 PROVE  (CHOOSE d \in Defaults : StoredAs[d.points] = t).response \in Responses
      BY DEF Init
    <3>1. \E d \in Defaults : StoredAs[d.points] = t
      OBVIOUS
    <3>2. PICK e : e = CHOOSE d \in Defaults : StoredAs[d.points] = t
      OBVIOUS
    <3>3. e \in Defaults
      BY <3>1, <3>2, Zenon
    <3> QED
      BY <3>2, <3>3 DEF Responses
  <2>2. FreeItem \in Item
    BY DEF FreeItem, Item, Stages, Answers
  <2>3. items \in [Slots -> Item] /\ \A k \in Slots : items[k].stage = "free"
    BY <2>2 DEF Init, FreeItem
  <2>4. call \in Call /\ call.of = "nothing"
    BY DEF Init, NoCall, Call, Answers
  <2> QED
    BY <2>1, <2>3, <2>4 DEF TypeOK
<1>2. Remembered
  <2>1. 0 \in Slots \union {0}
    OBVIOUS
  <2>2. Received(0)
    <3>1. \A k \in Slots : k \in Nat /\ k > 0
      BY SlotsAre
    <3> QED
      BY <3>1 DEF Init, Received, FreeItem
  <2>3. Window(Entries, 0) = <<>>
    BY ContextAssumption DEF Window
  <2> QED
    BY <2>1, <2>2, <2>3 DEF Remembered, Init
<1> QED
  BY <1>1, <1>2 DEF IInv

\* A step that takes no message keeps what is remembered.
KeepsMessages ==
  /\ recent' = recent
  /\ \A k \in Slots : items'[k].msg = items[k].msg
                      /\ (items'[k].stage = "free") = (items[k].stage = "free")

\* A step that receives nothing keeps the right entries.
LEMMA KeepsRemembered ==
  ASSUME Remembered, KeepsMessages
  PROVE  Remembered'
<1>1. PICK r \in Slots \union {0} : Received(r) /\ recent = Window(Entries, r)
  BY DEF Remembered
<1>2. Received(r)'
  BY <1>1 DEF Received, KeepsMessages
<1>3. Entries' = Entries
  BY DEF Entries, KeepsMessages
<1>4. Window(Entries, r)' = Window(Entries, r)
  BY <1>3 DEF Window
<1> QED
  BY <1>1, <1>2, <1>4 DEF Remembered, KeepsMessages

-----------------------------------------------------------------------------
(* The steps that receive nothing.                                         *)

\* One item goes on, with its message.
GoesOnAs(k, it) ==
  /\ k \in Slots /\ items[k].stage # "free"
  /\ it \in Item /\ it.msg = items[k].msg /\ it.stage # "free"
  /\ items' = [items EXCEPT ![k] = it]

\* A look-up that answers moves one item and keeps its message.
LEMMA ItemGoesOn ==
  ASSUME TypeOK, NEW k, NEW it, GoesOnAs(k, it), recent' = recent
  PROVE  /\ KeepsMessages
         /\ items' \in [Slots -> Item]
         /\ \A j \in Slots : items'[j].stage # "free" => items'[j].msg \in Messages
         /\ items'[k] = it
<1>1. items \in [Slots -> Item] /\ k \in Slots /\ it \in Item
  BY DEF TypeOK, GoesOnAs
<1>2. items' \in [Slots -> Item] /\ items'[k] = it /\ \A j \in Slots \ {k} : items'[j] = items[j]
  BY <1>1 DEF GoesOnAs
<1>3. KeepsMessages
  BY <1>1, <1>2 DEF GoesOnAs, KeepsMessages
<1>4. \A j \in Slots : items'[j].stage # "free" => items'[j].msg \in Messages
  <2>1. \A j \in Slots : items[j].stage # "free" => items[j].msg \in Messages
    BY DEF TypeOK
  <2> QED
    BY <2>1, <1>3 DEF KeepsMessages
<1> QED
  BY <1>2, <1>3, <1>4

\* Between two calls of the RP service, a step of one item.
LEMMA FreeStep ==
  ASSUME TypeOK, NEW k, NEW it, GoesOnAs(k, it), LoopFree, UNCHANGED <<table, call, recent>>
  PROVE  TypeOK' /\ KeepsMessages
<1>1. /\ KeepsMessages
      /\ items' \in [Slots -> Item]
      /\ \A j \in Slots : items'[j].stage # "free" => items'[j].msg \in Messages
  BY ItemGoesOn
<1> QED
  BY <1>1 DEF TypeOK, LoopFree

\* A step that leaves the items and what is remembered alone.
LEMMA SameItems ==
  ASSUME items' = items, recent' = recent
  PROVE  KeepsMessages
BY DEF KeepsMessages

\* resolveRpReplyTarget keeps the message.
LEMMA ReplyTargetType ==
  ASSUME NEW item \in Item, item.msg \in Messages
  PROVE  ReplyTarget(item) \in Item /\ ReplyTarget(item).msg = item.msg
         /\ ReplyTarget(item).stage # "free"
BY DEF ReplyTarget, Item, Stages

\* matchRp starts with the message received.
LEMMA MatchRpType ==
  ASSUME NEW m \in Messages
  PROVE  MatchRp(m) \in Item /\ MatchRp(m).msg = m /\ MatchRp(m).stage # "free"
<1> DEFINE item == [FreeItem EXCEPT !.msg = m]
<1>1. item \in Item /\ item.msg = m
  BY DEF FreeItem, Item, Stages, Answers
<1>2. m.word.user \in Users \union {NoUser}
  BY UsersAssumption
<1>3. CASE m.word.kind = "mention"
  BY <1>1, <1>3 DEF MatchRp, Item, Stages
<1>4. CASE m.word.kind = "number"
  BY <1>1, <1>2, <1>4 DEF MatchRp, Item, Stages
<1>5. CASE m.word.kind # "mention" /\ m.word.kind # "number"
  <2>1. MatchRp(m) = ReplyTarget(item)
    BY <1>5 DEF MatchRp
  <2> HIDE DEF item
  <2> QED
    BY <1>1, <2>1, ReplyTargetType
<1> QED
  BY <1>3, <1>4, <1>5

\* A response filled in is one of the answers.
LEMMA SaidType ==
  \A r \in Responses, from \in Users, to \in Users \union {NoUser} : Said(r, from, to) \in Sayings
<1> SUFFICES ASSUME NEW r \in Responses, NEW from \in Users, NEW to \in Users \union {NoUser}
             PROVE  Said(r, from, to) \in Sayings
  OBVIOUS
<1>1. PICK x : x = <<r, from, to>>
  OBVIOUS
<1>2. x \in Responses \X Users \X (Users \union {NoUser})
  BY <1>1
<1>3. Said(x[1], x[2], x[3]) = Said(r, from, to)
  BY <1>1
<1> QED
  BY <1>2, <1>3, Zenon DEF Sayings

\* RpService::match answers with a stored response or with none.
LEMMA MatchType ==
  ASSUME TypeOK, NEW m \in Messages, NEW u \in Users \union {NoUser}
  PROVE  Match(m, u) \in Answers
<1>1. CASE TriggerOf[m] \in DOMAIN table
  <2>1. table[TriggerOf[m]] \in Responses /\ m.sender \in Users
    BY <1>1, UsersAssumption DEF TypeOK
  <2>2. Match(m, u) = Said(table[TriggerOf[m]], m.sender, u)
    BY <1>1, Zenon DEF Match, Said
  <2>3. Said(table[TriggerOf[m]], m.sender, u) \in Sayings
    BY <2>1, SaidType, Zenon
  <2> QED
    BY <2>2, <2>3 DEF Answers
<1>2. CASE TriggerOf[m] \notin DOMAIN table
  BY <1>2 DEF Match, Answers
<1> QED
  BY <1>1, <1>2

\* The look-ups of a match (matchRp to dispatchRpMatch).
LEMMA ContinueStep ==
  ASSUME TypeOK, NEW k \in Slots, Continue(k)
  PROVE  TypeOK' /\ KeepsMessages
<1>0. items \in [Slots -> Item] /\ (items[k].stage # "free" => items[k].msg \in Messages)
  BY DEF TypeOK
<1>1. CASE MentionFound(k)
  <2> DEFINE it == [items[k] EXCEPT !.stage = "sender", !.target = items[k].msg.word.user]
  <2>1. items[k].msg.word.user \in Users \union {NoUser}
    BY <1>0, <1>1, UsersAssumption DEF MentionFound
  <2>2. GoesOnAs(k, it)
    BY <1>0, <1>1, <2>1 DEF MentionFound, GoesOnAs, Item, Stages
  <2> HIDE DEF it
  <2> QED
    BY <1>1, <2>2, FreeStep DEF MentionFound
<1>2. CASE MentionUnknown(k)
  <2>1. GoesOnAs(k, ReplyTarget(items[k]))
    BY <1>0, <1>2, ReplyTargetType DEF MentionUnknown, GoesOnAs
  <2> QED
    BY <1>2, <2>1, FreeStep DEF MentionUnknown
<1>3. CASE AuthorAnswered(k)
  <2>1. PICK u \in {items[k].msg.reply, NoUser} :
          items' = [items EXCEPT ![k].stage = "sender", ![k].target = u]
    BY <1>3 DEF AuthorAnswered
  <2> DEFINE it == [items[k] EXCEPT !.stage = "sender", !.target = u]
  <2>2. u \in Users \union {NoUser}
    BY <1>0, <1>3, UsersAssumption DEF AuthorAnswered
  <2>3. GoesOnAs(k, it)
    BY ZenonT(40), <1>0, <1>3, <2>1, <2>2 DEF AuthorAnswered, GoesOnAs, Item, Stages
  <2> HIDE DEF it
  <2> QED
    BY <1>3, <2>3, FreeStep DEF AuthorAnswered
<1>4. ASSUME DispatchRpMatch(k), LoopFree, items[k].stage # "free" PROVE TypeOK' /\ KeepsMessages
  <2> DEFINE it == [items[k] EXCEPT !.stage = "matching"]
  <2>1. GoesOnAs(k, it) /\ it.stage = "matching"
    BY <1>0, <1>4 DEF DispatchRpMatch, GoesOnAs, Item, Stages
  <2> HIDE DEF it
  <2>2. /\ KeepsMessages
        /\ items' \in [Slots -> Item]
        /\ \A j \in Slots : items'[j].stage # "free" => items'[j].msg \in Messages
        /\ items'[k] = it
    BY <1>4, <2>1, ItemGoesOn DEF DispatchRpMatch
  <2>3. call' \in Call /\ call'.of = "match" /\ call'.slot = k
    BY <1>4 DEF DispatchRpMatch, NoCall, Call, Answers
  <2>4. table' = table
    BY <1>4 DEF DispatchRpMatch
  <2> QED
    BY <2>1, <2>2, <2>3, <2>4 DEF TypeOK
<1>5. CASE SenderNamed(k)
  <2>1. CASE DispatchRpMatch(k)
    BY <1>4, <1>5, <2>1 DEF SenderNamed
  <2>2. CASE /\ items' = [items EXCEPT ![k].stage = "target"]
             /\ UNCHANGED <<table, call, edits, recent>>
    <3> DEFINE it == [items[k] EXCEPT !.stage = "target"]
    <3>1. GoesOnAs(k, it)
      BY <1>0, <1>5, <2>2 DEF SenderNamed, GoesOnAs, Item, Stages
    <3> HIDE DEF it
    <3> QED
      BY <1>5, <2>2, <3>1, FreeStep DEF SenderNamed
  <2> QED
    BY <1>5, <2>1, <2>2 DEF SenderNamed
<1>6. CASE TargetNamed(k)
  BY <1>4, <1>6 DEF TargetNamed
<1> QED
  BY <1>1, <1>2, <1>3, <1>5, <1>6 DEF Continue

\* The call of /rpadd, /rpremove and /rpedit.
LEMMA ExecuteCommandStep ==
  ASSUME TypeOK, NEW e \in Edits, ExecuteCommand(e)
  PROVE  TypeOK' /\ KeepsMessages
<1>1. call' \in Call /\ call'.of = "command" /\ call'.edit = e
  BY DEF ExecuteCommand, NoCall, Call, Answers
<1>2. UNCHANGED <<table, items, recent>>
  BY DEF ExecuteCommand
<1> QED
  BY <1>1, <1>2, SameItems DEF TypeOK

\* addCommand, removeCommand and editCommand leave responses that a command or the
\* defaults have.
LEMMA ChangedType ==
  ASSUME TypeOK, NEW e \in Edits
  PROVE  \A t \in DOMAIN Changed(e) : Changed(e)[t] \in Responses
<1>1. e.response \in Responses /\ \A t \in DOMAIN table : table[t] \in Responses
  BY DEF TypeOK, Responses
<1> QED
  BY <1>1 DEF Changed

\* The RP service does its part, or the call fails.
LEMMA ServeStep ==
  ASSUME TypeOK, Serve
  PROVE  TypeOK' /\ KeepsMessages
<1>0. call \in Call
  BY DEF TypeOK
<1>1. CASE ServeMatch
  <2>1. Match(items[call.slot].msg, items[call.slot].target) \in Answers
    <3>1. call.slot \in Slots /\ items[call.slot].stage # "free"
      BY <1>1 DEF TypeOK, ServeMatch
    <3>2. items[call.slot].msg \in Messages /\ items[call.slot].target \in Users \union {NoUser}
      BY <3>1 DEF TypeOK, Item
    <3> QED
      BY <3>2, MatchType
  <2>2. call' \in Call /\ call'.of = call.of /\ call'.slot = call.slot /\ call'.edit = call.edit
    BY <1>0, <1>1, <2>1 DEF ServeMatch, Call
  <2>3. UNCHANGED <<table, items, recent>>
    BY <1>1 DEF ServeMatch
  <2> QED
    BY <2>2, <2>3, SameItems DEF TypeOK
<1>2. CASE ServeCommand
  <2>1. \A t \in DOMAIN table' : table'[t] \in Responses
    BY <1>2, ChangedType DEF ServeCommand, TypeOK
  <2>2. call' \in Call /\ call'.of = call.of /\ call'.slot = call.slot /\ call'.edit = call.edit
    BY <1>0, <1>2 DEF ServeCommand, Call, Answers
  <2>3. UNCHANGED <<items, recent>>
    BY <1>2 DEF ServeCommand
  <2> QED
    BY <2>1, <2>2, <2>3, SameItems DEF TypeOK
<1>3. CASE CallFails
  <2>2. call' \in Call /\ call'.of = call.of /\ call'.slot = call.slot /\ call'.edit = call.edit
    BY <1>0, <1>3 DEF CallFails, Call, Answers
  <2>3. UNCHANGED <<table, items, recent>>
    BY <1>3 DEF CallFails
  <2> QED
    BY <2>2, <2>3, SameItems DEF TypeOK
<1> QED
  BY <1>1, <1>2, <1>3 DEF Serve

\* The call comes back to the loop (dispatchRpMatch, reportRpResult).
LEMMA ReturnStep ==
  ASSUME TypeOK, Return
  PROVE  TypeOK' /\ KeepsMessages
<1>0. NoCall \in Call /\ NoCall.of = "nothing"
  BY DEF NoCall, Call, Answers
<1>1. CASE MatchReturns
  <2>1. call.slot \in Slots /\ items[call.slot].stage # "free"
    BY <1>1 DEF TypeOK, MatchReturns
  <2> DEFINE it == [items[call.slot] EXCEPT !.stage = "done", !.reaction = Sent(call.answer)]
  <2>2. GoesOnAs(call.slot, it)
    <3>1. items \in [Slots -> Item] /\ Sent(call.answer) \in Answers
      BY DEF TypeOK, Call, Sent, Answers
    <3> QED
      BY <1>1, <2>1, <3>1 DEF MatchReturns, GoesOnAs, Item, Stages
  <2> HIDE DEF it
  <2>3. /\ KeepsMessages
        /\ items' \in [Slots -> Item]
        /\ \A j \in Slots : items'[j].stage # "free" => items'[j].msg \in Messages
    <3>1. PICK k, i : k = call.slot /\ i = it
      OBVIOUS
    <3>2. GoesOnAs(k, i)
      BY <2>2, <3>1
    <3> QED
      BY <1>1, <3>2, ItemGoesOn DEF MatchReturns
  <2> QED
    BY <1>0, <1>1, <2>3 DEF TypeOK, MatchReturns
<1>2. CASE CommandReturns
  <2>1. call' = NoCall /\ UNCHANGED <<table, items, recent>>
    BY <1>2 DEF CommandReturns
  <2> QED
    BY <1>0, <2>1, SameItems DEF TypeOK
<1> QED
  BY <1>1, <1>2 DEF Return

-----------------------------------------------------------------------------
(* Receiving a message, and what is remembered.                            *)

\* handleMessage gives the message a slot of its own.
LEMMA ReceiveType ==
  ASSUME TypeOK, NEW k \in Slots, NEW m \in Messages, Receive(k, m)
  PROVE  TypeOK' /\ items' = [items EXCEPT ![k] = MatchRp(m)] /\ MatchRp(m).msg = m
         /\ MatchRp(m).stage # "free"
<1>1. MatchRp(m) \in Item /\ MatchRp(m).msg = m /\ MatchRp(m).stage # "free"
  BY MatchRpType
<1>2. PICK it \in Item : it = MatchRp(m)
  BY <1>1
<1>3. items' = [items EXCEPT ![k] = it] /\ UNCHANGED <<table, call>> /\ LoopFree
  BY <1>2 DEF Receive
<1>4. items \in [Slots -> Item]
  BY DEF TypeOK
<1>5. items' \in [Slots -> Item] /\ items'[k] = it /\ \A j \in Slots \ {k} : items'[j] = items[j]
  BY <1>3, <1>4
<1>6. TypeOK'
  BY <1>1, <1>2, <1>3, <1>5 DEF TypeOK, LoopFree
<1> QED
  BY <1>1, <1>2, <1>3, <1>6

\* The message takes the first slot that is free.
LEMMA ReceiveOrder ==
  ASSUME TypeOK, NEW k \in Slots, NEW m \in Messages, Receive(k, m),
         NEW n \in Nat, Slots = 1..n, NEW r \in 0..n, Received(r)
  PROVE  k = r + 1 /\ Received(r + 1)'
<1>1. items[k].stage = "free" /\ \A j \in Slots : j < k => items[j].stage # "free"
  BY DEF Receive
<1>2. k \in 1..n
  OBVIOUS
<1>3. ~(k <= r)
  BY <1>1 DEF Received
<1>4. CASE r + 1 < k
  <2>1. r + 1 \in Slots /\ ~(r + 1 <= r)
    BY <1>2, <1>4
  <2> QED
    BY <1>1, <1>4, <2>1 DEF Received
<1>5. CASE k = r + 1
  <2>1. items' = [items EXCEPT ![k] = MatchRp(m)] /\ MatchRp(m).stage # "free"
    BY ReceiveType
  <2>2. items \in [Slots -> Item]
    BY DEF TypeOK
  <2>3. \A j \in Slots : items'[j].stage # "free" <=> j = k \/ items[j].stage # "free"
    BY <2>1, <2>2
  <2>4. \A j \in Slots : j <= r + 1 <=> j = k \/ j <= r
    BY <1>5
  <2> QED
    BY <1>5, <2>3, <2>4 DEF Received
<1> QED
  BY <1>2, <1>3, <1>4, <1>5

\* rememberChatMessage keeps the latest entries: one more, and the oldest only goes
\* when there are MaxContext.
LEMMA RememberLatest ==
  ASSUME NEW r \in Nat, NEW entry, NEW f, NEW g,
         \A i \in 1..r : g[i] = f[i], g[r + 1] = entry, recent = Window(f, r)
  PROVE  Remember(entry) = Window(g, r + 1)
<1>0. MaxContext \in Nat \ {0}
  BY ContextAssumption
<1>10. PICK kept \in 0..r : kept = IF r > MaxContext THEN MaxContext ELSE r
  BY <1>0
<1>11. PICK more \in 1..(r + 1) : more = IF r + 1 > MaxContext THEN MaxContext ELSE r + 1
  BY <1>0
<1>12. recent = [i \in 1..kept |-> f[r - kept + i]]
  BY <1>10 DEF Window
<1>13. Window(g, r + 1) = [i \in 1..more |-> g[(r + 1) - more + i]]
  BY <1>11 DEF Window
<1>1. PICK all : all = Append(recent, entry)
  OBVIOUS
<1>2. Len(recent) = kept
  BY <1>12
<1>3. recent \in Seq({f[i] : i \in 1..r} \union {entry})
  <2>1. \A i \in 1..kept : r - kept + i \in 1..r
    BY <1>10
  <2> QED
    BY <1>12, <2>1
<1>4. Len(all) = kept + 1 /\ all[kept + 1] = entry /\ \A i \in 1..kept : all[i] = f[r - kept + i]
  BY <1>1, <1>2, <1>3, <1>12
<1>5. all \in Seq({f[i] : i \in 1..r} \union {entry})
  BY <1>1, <1>3
<1>6. CASE r < MaxContext
  <2>1. kept = r /\ more = r + 1 /\ ~(Len(all) > MaxContext)
    BY <1>0, <1>4, <1>6, <1>10, <1>11
  <2>2. Remember(entry) = SubSeq(all, 1, Len(all))
    BY <1>1, <2>1 DEF Remember
  <2>3. SubSeq(all, 1, Len(all)) = all
    BY <1>5
  <2>4. all = [i \in 1..(r + 1) |-> all[i]]
    BY <1>4, <1>5, <2>1
  <2>5. \A i \in 1..(r + 1) : all[i] = g[(r + 1) - more + i]
    <3> SUFFICES ASSUME NEW i \in 1..(r + 1) PROVE all[i] = g[(r + 1) - more + i]
      OBVIOUS
    <3>1. (r + 1) - more + i = i
      BY <2>1
    <3>2. CASE i = r + 1
      BY <1>4, <2>1, <3>1, <3>2
    <3>3. CASE i # r + 1
      <4>1. i \in 1..r /\ i \in 1..kept /\ r - kept + i = i
        BY <2>1, <3>3
      <4> QED
        BY <1>4, <3>1, <4>1
    <3> QED
      BY <3>2, <3>3
  <2> QED
    BY <1>13, <2>1, <2>2, <2>3, <2>4, <2>5
<1>7. CASE r >= MaxContext
  <2>1. kept = MaxContext /\ more = MaxContext /\ Len(all) > MaxContext
        /\ (Len(all) - MaxContext) + 1 = 2 /\ Len(all) = MaxContext + 1
    BY <1>0, <1>4, <1>7, <1>10, <1>11
  <2>2. Remember(entry) = SubSeq(all, 2, Len(all))
    BY <1>1, <2>1 DEF Remember
  <2>3. SubSeq(all, 2, Len(all)) = [i \in 1..MaxContext |-> all[i + 1]]
    BY <1>0, <1>5, <2>1
  <2>4. \A i \in 1..MaxContext : all[i + 1] = g[(r + 1) - more + i]
    <3> SUFFICES ASSUME NEW i \in 1..MaxContext PROVE all[i + 1] = g[(r + 1) - more + i]
      OBVIOUS
    <3>2. CASE i = MaxContext
      <4>1. (r + 1) - more + i = r + 1
        BY <1>0, <2>1, <3>2
      <4> QED
        BY <1>4, <2>1, <3>2, <4>1
    <3>3. CASE i # MaxContext
      <4>1. i + 1 \in 1..kept /\ r - kept + (i + 1) = (r + 1) - more + i
            /\ (r + 1) - more + i \in 1..r
        BY <1>0, <1>7, <2>1, <3>3
      <4> QED
        BY <1>4, <4>1
    <3> QED
      BY <3>2, <3>3
  <2> QED
    BY ZenonT(40), <1>13, <2>1, <2>2, <2>3, <2>4
<1> QED
  BY <1>0, <1>6, <1>7

\* handleMessage remembers the message as the latest, sanitised.
LEMMA ReceiveStep ==
  ASSUME IInv, NEW k \in Slots, NEW m \in Messages, Receive(k, m)
  PROVE  IInv'
<1>1. TypeOK /\ Remembered
  BY DEF IInv
<1>2. PICK n \in Nat : Slots = 1..n
  BY SlotsAre
<1>3. PICK r \in 0..n : Received(r) /\ recent = Window(Entries, r)
  BY <1>1, <1>2 DEF Remembered
<1>4. k = r + 1 /\ Received(r + 1)'
  BY <1>1, <1>2, <1>3, ReceiveOrder
<1>5. TypeOK' /\ items' = [items EXCEPT ![k] = MatchRp(m)] /\ MatchRp(m).msg = m
  BY <1>1, ReceiveType
<1>6. r \in 0..(n - 1) /\ r + 1 \in 0..n
  <2>1. k \in 1..n
    BY <1>2
  <2> QED
    BY <1>4, <2>1
<1>7. items \in [Slots -> Item]
  BY <1>1 DEF TypeOK
<1>9. /\ \A i \in 1..r : Entries'[i] = Entries[i]
      /\ Entries'[r + 1] = EntryOf(m)
  <2>1. \A i \in 1..r : i \in Slots /\ i # k
    BY <1>2, <1>4, <1>6
  <2>2. \A i \in 1..r : items'[i] = items[i]
    BY <1>5, <1>7, <2>1
  <2>3. items'[k].msg = m
    BY <1>5, <1>7
  <2> QED
    BY <1>4, <2>1, <2>2, <2>3 DEF Entries
<1>13. recent' = Remember(EntryOf(m))
  BY CleanIsSeen DEF Receive, EntryOf
<1>14. PICK f, g : f = Entries /\ g = Entries'
  OBVIOUS
<1>15. recent' = Window(Entries, r + 1)'
  <2>1. Remember(EntryOf(m)) = Window(g, r + 1)
    BY <1>3, <1>9, <1>14, RememberLatest
  <2> QED
    BY <1>13, <1>14, <2>1 DEF Window
<1>16. Remembered'
  BY <1>2, <1>4, <1>6, <1>15 DEF Remembered
<1> QED
  BY <1>5, <1>16 DEF IInv

\* Every step keeps the inductive invariant.
LEMMA NextIInv == IInv /\ [Next]_vars => IInv'
<1> SUFFICES ASSUME IInv, [Next]_vars PROVE IInv'
  OBVIOUS
<1>0. TypeOK /\ Remembered
  BY DEF IInv
<1>1. ASSUME NEW k \in Slots, NEW m \in Messages, Receive(k, m) PROVE IInv'
  BY <1>1, ReceiveStep
<1>2. ASSUME TypeOK', KeepsMessages PROVE IInv'
  BY <1>0, <1>2, KeepsRemembered DEF IInv
<1>3. ASSUME NEW k \in Slots, Continue(k) PROVE IInv'
  BY <1>0, <1>2, <1>3, ContinueStep
<1>4. ASSUME NEW e \in Edits, ExecuteCommand(e) PROVE IInv'
  BY <1>0, <1>2, <1>4, ExecuteCommandStep
<1>5. CASE Serve
  BY <1>0, <1>2, <1>5, ServeStep
<1>6. CASE Return
  BY <1>0, <1>2, <1>6, ReturnStep
<1>7. CASE UNCHANGED vars
  <2>1. UNCHANGED <<table, items, call, recent>>
    BY <1>7 DEF vars
  <2>2. TypeOK'
    BY <1>0, <2>1 DEF TypeOK
  <2> QED
    BY <1>2, <2>1, <2>2, SameItems
<1> QED
  BY <1>1, <1>3, <1>4, <1>5, <1>6, <1>7 DEF Next

\* What is remembered are then the latest entries, clean.
LEMMA IInvClean == IInv => RememberedClean
<1> SUFFICES ASSUME IInv PROVE RememberedClean
  OBVIOUS
<1>1. PICK n \in Nat : Slots = 1..n
  BY SlotsAre
<1>2. PICK r \in 0..n : Received(r) /\ recent = Window(Entries, r)
  BY <1>1 DEF IInv, Remembered
<1>3. {k \in Slots : items[k].stage # "free"} = 1..r
  <2>1. \A k \in Slots : items[k].stage # "free" <=> k <= r
    BY <1>2 DEF Received
  <2>2. {k \in Slots : items[k].stage # "free"} = {k \in 1..n : k <= r}
    BY <1>1, <2>1
  <2> QED
    BY <2>2
<1>4. Cardinality(1..r) = r
  BY FS_Interval
<1>5. Cardinality({k \in Slots : items[k].stage # "free"}) = r
  BY <1>3, <1>4
<1> QED
  <2>1. PICK kept \in 0..r : kept = IF r > MaxContext THEN MaxContext ELSE r
    BY ContextAssumption
  <2>2. \A i \in 1..kept : r - kept + i \in Slots
    <3>1. \A i \in 1..kept : r - kept + i \in 1..n
      BY <2>1
    <3> QED
      BY <1>1, <3>1
  <2>3. recent = [i \in 1..kept |-> EntryOf(items[r - kept + i].msg)]
    BY <1>2, <2>1, <2>2 DEF Window, Entries
  <2> QED
    BY <1>5, <2>1, <2>3 DEF RememberedClean, EntryOf

\* Each variable holds what it may, a message is in one stage of its look-ups, and the
\* loop is blocked in a match only for a message that waits for it (dispatchRpMatch).
THEOREM TypeOKHolds == Spec => []TypeOK
<1>1. Init => IInv
  BY InitIInv
<1>2. IInv /\ [Next]_vars => IInv'
  BY NextIInv
<1>3. IInv => TypeOK
  BY DEF IInv
<1> QED
  BY <1>1, <1>2, <1>3, PTL DEF Spec

\* What is remembered for /ai is what the AI may see of the latest messages, in their
\* order and with their senders, whatever is looked up, matched and edited meanwhile
\* (rememberChatMessage, sanitizeForAi).
THEOREM RememberedCleanHolds == Spec => []RememberedClean
<1>1. Init => IInv
  BY InitIInv
<1>2. IInv /\ [Next]_vars => IInv'
  BY NextIInv
<1>3. IInv => RememberedClean
  BY IInvClean
<1> QED
  BY <1>1, <1>2, <1>3, PTL DEF Spec

-----------------------------------------------------------------------------
(* What is promised to the users (Reactions): the inductive invariant and the steps that*)
(* the promise does not see.                                               *)

\* What a message that is under way is about, and when nothing has come of it.
Aimed(it) ==
  /\ it.stage = "free" => it.msg = NoMessage
  /\ it.stage # "done" => it.reaction = Waiting
  /\ it.stage = "mention" => it.msg.word.kind = "mention"
  /\ it.stage \in {"mention", "reply"} => it.target = NoUser /\ it.msg.word.kind # "number"
  /\ it.stage \in {"sender", "target", "matching"} => it.target \in Promise!Pointed(it.msg)

\* The answer of the service is the one that the table still gives.
Answered ==
  call.of = "match" /\ call.served =>
    call.answer \in {Failed, Match(items[call.slot].msg, items[call.slot].target)}

RIInv == IInv /\ TableOf(table) /\ Answered /\ \A k \in Slots : Aimed(items[k])

Heard == [k \in Slots |-> items[k].msg]
Reaction == [k \in Slots |-> items[k].reaction]
Known == KnownLetters /\ Trimmed /\ PlainNames

\* At the start nothing is heard and nothing has come of it.
LEMMA InitRIInv == Init => RIInv /\ Promise!RInit
<1> SUFFICES ASSUME Init PROVE RIInv /\ Promise!RInit
  OBVIOUS
<1>1. IInv
  BY InitIInv
<1>2. TableOf(table)
  BY DEF Init, TableOf
<1>3. Answered
  BY DEF Init, NoCall, Answered
<1>4. \A k \in Slots : Aimed(items[k])
  BY DEF Init, FreeItem, Aimed
<1>5. Promise!RInit
  BY DEF Init, FreeItem, Promise!RInit, Promise!Waiting, Waiting
<1> QED
  BY <1>1, <1>2, <1>3, <1>4, <1>5 DEF RIInv

\* A step that leaves the table and what was heard and answered alone is none of the
\* promise's.
LEMMA Stutters ==
  ASSUME StoredOf(table)' = StoredOf(table), Heard' = Heard, Reaction' = Reaction
  PROVE  UNCHANGED Promise!rvars
BY DEF StoredOf, Heard, Reaction, Promise!rvars

\* The author of the message replied to is one that the message points at.
LEMMA ReplyAimed ==
  ASSUME NEW item \in Item, item.msg \in Messages, item.target = NoUser,
         item.msg.word.kind # "number", item.reaction = Waiting
  PROVE  Aimed(ReplyTarget(item)) /\ ReplyTarget(item).reaction = item.reaction
BY DEF ReplyTarget, Item, Aimed, Promise!Pointed

\* matchRp starts with the users that the second word points at.
LEMMA MatchAimed ==
  ASSUME NEW m \in Messages
  PROVE  Aimed(MatchRp(m)) /\ MatchRp(m).reaction = Waiting
<1> DEFINE item == [FreeItem EXCEPT !.msg = m]
<1>1. item \in Item /\ item.msg = m /\ item.target = NoUser /\ item.reaction = Waiting
  BY DEF FreeItem, Item, Stages, Answers
<1>2. CASE m.word.kind = "mention"
  BY <1>1, <1>2 DEF MatchRp, Item, Aimed
<1>3. CASE m.word.kind = "number"
  BY <1>1, <1>3, UsersAssumption DEF MatchRp, Item, Aimed, Promise!Pointed
<1>4. CASE m.word.kind # "mention" /\ m.word.kind # "number"
  <2>1. MatchRp(m) = ReplyTarget(item)
    BY <1>4 DEF MatchRp
  <2> HIDE DEF item
  <2> QED
    BY <1>1, <1>4, <2>1, ReplyAimed
<1> QED
  BY <1>2, <1>3, <1>4

\* handleMessage hears a message.
LEMMA ReceiveHears ==
  ASSUME RIInv, NEW k \in Slots, NEW m \in Messages, Receive(k, m)
  PROVE  TableOf(table)' /\ Answered' /\ (\A j \in Slots : Aimed(items'[j])) /\ Promise!Hear(k, m)
<1>1. TypeOK /\ items \in [Slots -> Item]
  BY DEF RIInv, IInv, TypeOK
<1>2. Aimed(MatchRp(m)) /\ MatchRp(m).msg = m /\ MatchRp(m).reaction = Waiting
  BY MatchAimed, MatchRpType
<1>3. PICK it : it = MatchRp(m)
  OBVIOUS
<1>4. items' = [items EXCEPT ![k] = it] /\ items[k].stage = "free"
      /\ UNCHANGED <<table, call>> /\ LoopFree
  BY <1>3 DEF Receive
<1>5. items'[k] = it /\ \A j \in Slots \ {k} : items'[j] = items[j]
  BY <1>1, <1>4
<1>6. \A j \in Slots : Aimed(items'[j])
  BY <1>2, <1>3, <1>5 DEF RIInv
<1>7. Heard[k] = NoMessage /\ Reaction[k] = Waiting
  BY <1>4 DEF RIInv, Aimed, Heard, Reaction
<1>8. Heard' = [Heard EXCEPT ![k] = m] /\ Reaction' = Reaction
  BY <1>2, <1>3, <1>5, <1>7 DEF Heard, Reaction
<1>9. Promise!Hear(k, m)
  BY <1>4, <1>7, <1>8 DEF Heard, Reaction, Promise!Hear
<1> QED
  BY <1>4, <1>6, <1>9 DEF RIInv, TableOf, Answered, LoopFree

\* An item goes on and nothing comes of it yet.
LEMMA GoesOnSilently ==
  ASSUME RIInv, NEW k \in Slots, NEW it, items' = [items EXCEPT ![k] = it],
         Aimed(it), it.msg = items[k].msg, it.reaction = items[k].reaction, table' = table
  PROVE  /\ TableOf(table)' /\ (\A j \in Slots : Aimed(items'[j])) /\ UNCHANGED Promise!rvars
<1>1. items \in [Slots -> Item]
  BY DEF RIInv, IInv, TypeOK
<1>2. items'[k] = it /\ \A j \in Slots \ {k} : items'[j] = items[j]
  BY <1>1
<1>3. \A j \in Slots : Aimed(items'[j])
  BY <1>2 DEF RIInv
<1>4. Heard' = Heard /\ Reaction' = Reaction
  BY <1>2 DEF Heard, Reaction
<1>5. StoredOf(table)' = StoredOf(table)
  BY DEF StoredOf
<1>6. UNCHANGED Promise!rvars
  BY <1>4, <1>5, Stutters
<1> QED
  BY <1>3, <1>6 DEF RIInv, TableOf

\* The look-ups find a user that the message points at, and nothing comes of it yet
\* (matchRp to dispatchRpMatch).
LEMMA ContinueStutters ==
  ASSUME RIInv, NEW k \in Slots, Continue(k)
  PROVE  /\ TableOf(table)' /\ Answered' /\ (\A j \in Slots : Aimed(items'[j]))
         /\ UNCHANGED Promise!rvars
<1>0. /\ items[k] \in Item /\ Aimed(items[k]) /\ LoopFree /\ table' = table
      /\ items[k].stage \in {"mention", "reply", "sender", "target"} /\ items[k].msg \in Messages
  BY DEF RIInv, IInv, TypeOK, Continue, MentionFound, MentionUnknown, AuthorAnswered,
         SenderNamed, TargetNamed, DispatchRpMatch
<1>1. ASSUME NEW it, items' = [items EXCEPT ![k] = it],
             Aimed(it), it.msg = items[k].msg, it.reaction = items[k].reaction
      PROVE  /\ TableOf(table)' /\ (\A j \in Slots : Aimed(items'[j])) /\ UNCHANGED Promise!rvars
  BY <1>0, <1>1, GoesOnSilently
<1>2. CASE MentionFound(k)
  <2> DEFINE it == [items[k] EXCEPT !.stage = "sender", !.target = items[k].msg.word.user]
  <2>1. it.msg = items[k].msg /\ it.reaction = items[k].reaction /\ it.stage = "sender"
        /\ it.target = items[k].msg.word.user
    BY <1>0 DEF Item
  <2>2. items[k].msg.word.user \in Promise!Pointed(items[k].msg)
    BY <1>0, <1>2 DEF MentionFound, Aimed, Promise!Pointed
  <2>3. items' = [items EXCEPT ![k] = it] /\ call' = call
    BY <1>2 DEF MentionFound, RIInv, IInv, TypeOK
  <2> HIDE DEF it
  <2>4. Aimed(it)
    BY <1>0, <2>1, <2>2 DEF Aimed
  <2> QED
    BY <1>0, <1>1, <2>1, <2>3, <2>4 DEF Answered, LoopFree
<1>3. CASE MentionUnknown(k)
  <2> DEFINE it == ReplyTarget(items[k])
  <2>1. Aimed(it) /\ it.reaction = items[k].reaction /\ it.msg = items[k].msg
    <3>1. items[k].target = NoUser /\ items[k].msg.word.kind # "number" /\ items[k].reaction = Waiting
      BY <1>0, <1>3 DEF MentionUnknown, Aimed
    <3> QED
      BY <1>0, <3>1, ReplyAimed, ReplyTargetType
  <2>2. items' = [items EXCEPT ![k] = it] /\ call' = call
    BY <1>3 DEF MentionUnknown
  <2> HIDE DEF it
  <2> QED
    BY <1>0, <1>1, <2>1, <2>2 DEF Answered, LoopFree
<1>4. CASE AuthorAnswered(k)
  <2>1. PICK u \in {items[k].msg.reply, NoUser} :
          items' = [items EXCEPT ![k].stage = "sender", ![k].target = u]
    BY <1>4 DEF AuthorAnswered
  <2> DEFINE it == [items[k] EXCEPT !.stage = "sender", !.target = u]
  <2>2. it.msg = items[k].msg /\ it.reaction = items[k].reaction /\ it.stage = "sender"
        /\ it.target = u
    BY <1>0 DEF Item
  <2>3. u \in Promise!Pointed(items[k].msg)
    BY <1>0, <1>4 DEF AuthorAnswered, Aimed, Promise!Pointed
  <2>4. items' = [items EXCEPT ![k] = it] /\ call' = call
    BY <1>4, <2>1 DEF AuthorAnswered, RIInv, IInv, TypeOK
  <2> HIDE DEF it
  <2>5. Aimed(it)
    BY <1>0, <2>2, <2>3 DEF Aimed
  <2> QED
    BY <1>0, <1>1, <2>2, <2>4, <2>5 DEF Answered, LoopFree
<1>5. ASSUME items[k].stage \in {"sender", "target"}, NEW s \in {"target", "matching"},
             items' = [items EXCEPT ![k].stage = s]
      PROVE  /\ TableOf(table)' /\ (\A j \in Slots : Aimed(items'[j])) /\ UNCHANGED Promise!rvars
  <2> DEFINE it == [items[k] EXCEPT !.stage = s]
  <2>1. it.msg = items[k].msg /\ it.reaction = items[k].reaction /\ it.stage = s
        /\ it.target = items[k].target
    BY <1>0 DEF Item
  <2>2. items' = [items EXCEPT ![k] = it]
    BY <1>5 DEF RIInv, IInv, TypeOK
  <2> HIDE DEF it
  <2>3. Aimed(it)
    BY <1>0, <1>5, <2>1 DEF Aimed
  <2> QED
    BY <1>1, <2>1, <2>2, <2>3
<1>6. ASSUME DispatchRpMatch(k), items[k].stage \in {"sender", "target"}
      PROVE  /\ TableOf(table)' /\ Answered' /\ (\A j \in Slots : Aimed(items'[j]))
             /\ UNCHANGED Promise!rvars
  <2>1. items' = [items EXCEPT ![k].stage = "matching"] /\ ~call'.served
    BY <1>6 DEF DispatchRpMatch, NoCall
  <2>2. Answered'
    BY <2>1 DEF Answered
  <2> QED
    BY <1>5, <1>6, <2>1, <2>2
<1>7. CASE SenderNamed(k)
  <2>1. items[k].stage = "sender"
    BY <1>7 DEF SenderNamed
  <2>2. CASE DispatchRpMatch(k)
    BY <1>6, <2>1, <2>2
  <2>3. CASE items' = [items EXCEPT ![k].stage = "target"] /\ UNCHANGED call
    BY <1>0, <1>5, <2>1, <2>3 DEF Answered, LoopFree
  <2> QED
    BY <1>7, <2>2, <2>3 DEF SenderNamed
<1>8. CASE TargetNamed(k)
  BY <1>6, <1>8 DEF TargetNamed
<1> QED
  BY <1>2, <1>3, <1>4, <1>7, <1>8 DEF Continue

\* A step that leaves the items and the table alone.
LEMMA SameStutters ==
  ASSUME RIInv, items' = items, table' = table
  PROVE  /\ TableOf(table)' /\ (\A j \in Slots : Aimed(items'[j])) /\ UNCHANGED Promise!rvars
<1>1. StoredOf(table)' = StoredOf(table) /\ Heard' = Heard /\ Reaction' = Reaction
  BY DEF StoredOf, Heard, Reaction
<1>2. UNCHANGED Promise!rvars
  BY <1>1, Stutters
<1> QED
  BY <1>2 DEF RIInv, TableOf

\* Calling executeCommand changes nothing by itself.
LEMMA ExecuteCommandStutters ==
  ASSUME RIInv, NEW e \in Edits, ExecuteCommand(e)
  PROVE  /\ TableOf(table)' /\ Answered' /\ (\A j \in Slots : Aimed(items'[j]))
         /\ UNCHANGED Promise!rvars
<1>1. items' = items /\ table' = table /\ call'.of = "command"
  BY DEF ExecuteCommand, NoCall
<1> QED
  BY <1>1, SameStutters DEF Answered

\* RpService::match answers from the table, and nothing is sent yet.
LEMMA ServeMatchStutters ==
  ASSUME RIInv, ServeMatch
  PROVE  /\ TableOf(table)' /\ Answered' /\ (\A j \in Slots : Aimed(items'[j]))
         /\ UNCHANGED Promise!rvars
<1>1. items' = items /\ table' = table /\ call \in Call
  BY DEF ServeMatch, RIInv, IInv, TypeOK
<1>2. call'.slot = call.slot /\ call'.answer = Match(items[call.slot].msg, items[call.slot].target)
  BY <1>1 DEF ServeMatch, Call
<1>3. \A m, u : Match(m, u)' = Match(m, u)
  BY <1>1, Zenon DEF Match
<1>4. Answered'
  BY <1>1, <1>2, <1>3 DEF Answered
<1> QED
  BY <1>1, <1>4, SameStutters

\* A call that fails has one answer, whatever was asked.
LEMMA CallFailsStutters ==
  ASSUME RIInv, CallFails
  PROVE  /\ TableOf(table)' /\ Answered' /\ (\A j \in Slots : Aimed(items'[j]))
         /\ UNCHANGED Promise!rvars
<1>1. items' = items /\ table' = table /\ call \in Call
  BY DEF CallFails, RIInv, IInv, TypeOK
<1>2. call'.answer = Failed
  BY <1>1 DEF CallFails, Call
<1>3. Answered'
  BY <1>2 DEF Answered
<1> QED
  BY <1>1, <1>3, SameStutters

\* reportRpResult changes nothing of the table.
LEMMA CommandReturnsStutters ==
  ASSUME RIInv, CommandReturns
  PROVE  /\ TableOf(table)' /\ Answered' /\ (\A j \in Slots : Aimed(items'[j]))
         /\ UNCHANGED Promise!rvars
<1>1. items' = items /\ table' = table /\ ~call'.served
  BY DEF CommandReturns, NoCall
<1> QED
  BY <1>1, SameStutters DEF Answered

-----------------------------------------------------------------------------
(* The steps that it sees, and the theorem.                                *)

\* The trigger of a message is a key of the table when its word is stored.
LEMMA MessageLooksUp ==
  ASSUME Known, TableOf(table), NEW m \in Messages
  PROVE  /\ Promise!WordOf[m.points] \in DOMAIN StoredOf(table) <=> TriggerOf[m] \in DOMAIN table
         /\ Promise!WordOf[m.points] \in DOMAIN StoredOf(table) =>
              StoredOf(table)[Promise!WordOf[m.points]] = table[TriggerOf[m]]
<1> HIDE DEF Point
<1>1. PICK w \in Seq(Point) : w = Promise!WordOf[m.points] /\ TriggerOf[m] = Bytes(w)
  BY MessageTrigger DEF Known
<1>2. KnownLetters
  BY DEF Known
<1> QED
  BY <1>1, <1>2, LookUp

\* What dispatchRpMatch sends is the response stored, filled in, or nothing.
LEMMA SentIsPromised ==
  ASSUME Known, TypeOK, TableOf(table), NEW m \in Messages, NEW u \in Users \union {NoUser},
         NEW answer, answer = Match(m, u)
  PROVE  \/ /\ Promise!WordOf[m.points] \notin DOMAIN StoredOf(table)
            /\ Sent(answer) = Promise!Silent
         \/ /\ Promise!WordOf[m.points] \in DOMAIN StoredOf(table)
            /\ Sent(answer) =
                 Promise!Sent(Promise!Filled(StoredOf(table)[Promise!WordOf[m.points]], m.sender, u))
<1> DEFINE w == Promise!WordOf[m.points]
           t == TriggerOf[m]
<1>1. /\ w \in DOMAIN StoredOf(table) <=> t \in DOMAIN table
      /\ w \in DOMAIN StoredOf(table) => StoredOf(table)[w] = table[t]
  BY MessageLooksUp
<1>2. CASE t \notin DOMAIN table
  <2>1. Sent(answer) = Promise!Silent
    BY <1>2 DEF Match, Sent, Silent, Failed, Promise!Silent
  <2> QED
    BY <1>1, <1>2, <2>1
<1>3. CASE t \in DOMAIN table
  <2>1. table[t] \in Responses /\ m.sender \in Users
    BY <1>3, UsersAssumption DEF TypeOK
  <2>2. PICK x \in Edits \union Defaults : table[t] = x.response
    BY <2>1 DEF Responses
  <2> DEFINE text == ResponseTo[table[t]][m.sender][u]
  <2>3. text = Promise!Filled(table[t], m.sender, u)
    <3>1. PlainNames
      BY DEF Known
    <3>2. ResponseTo[x.response][m.sender][u] = Promise!Filled(x.response, m.sender, u)
      BY <2>1, <3>1, SubstituteFills
    <3> QED
      BY <2>2, <3>2, Zenon
  <2>4. answer = [is |-> "said", text |-> text]
    BY <1>3, Zenon DEF Match
  <2> HIDE DEF text, w, t
  <2>5. Sent(answer) = Promise!Sent(text)
    BY <2>4 DEF Sent, Silent, Failed, Promise!Sent, Promise!Silent
  <2> QED
    BY <1>1, <1>3, <2>3, <2>5 DEF w
<1> QED
  BY <1>2, <1>3

\* dispatchRpMatch after the call: the message comes to what the promise says, with
\* the table as it is now, which has not changed since the service answered.
LEMMA MatchReturnsReacts ==
  ASSUME Known, RIInv, MatchReturns
  PROVE  /\ TableOf(table)' /\ Answered' /\ (\A j \in Slots : Aimed(items'[j]))
         /\ \E k \in Slots : Promise!React(k)
<1>0. PICK k \in Slots : k = call.slot
  BY DEF RIInv, IInv, TypeOK, MatchReturns
<1> DEFINE m == items[k].msg
           u == items[k].target
<1>1. /\ TypeOK /\ items \in [Slots -> Item] /\ k \in Slots /\ items[k] \in Item
      /\ items[k].stage = "matching" /\ m \in Messages /\ u \in Users \union {NoUser}
  BY <1>0 DEF RIInv, IInv, TypeOK, MatchReturns, Item
<1>2. /\ Aimed(items[k]) /\ u \in Promise!Pointed(m) /\ items[k].reaction = Waiting
  BY <1>1 DEF RIInv, Aimed
<1>3. call.answer = Failed \/ call.answer = Match(m, u)
  BY <1>0 DEF RIInv, Answered, MatchReturns
<1> DEFINE it == [items[k] EXCEPT !.stage = "done", !.reaction = Sent(call.answer)]
<1>4. it.msg = m /\ it.stage = "done" /\ it.reaction = Sent(call.answer)
  BY <1>1 DEF Item
<1>5. items' = [items EXCEPT ![k] = it] /\ table' = table /\ call' = NoCall
  BY <1>0, <1>1 DEF MatchReturns
<1> HIDE DEF it
<1>6. items'[k] = it /\ \A j \in Slots \ {k} : items'[j] = items[j]
  BY <1>1, <1>5
<1>7. Aimed(it)
  BY <1>4 DEF Aimed
<1>8. (\A j \in Slots : Aimed(items'[j])) /\ TableOf(table)' /\ Answered'
  BY <1>5, <1>6, <1>7 DEF RIInv, TableOf, Answered, NoCall
<1>9. Heard' = Heard /\ StoredOf(table)' = StoredOf(table)
  BY <1>4, <1>5, <1>6 DEF Heard, StoredOf
<1>10. Reaction' = [Reaction EXCEPT ![k] = Sent(call.answer)]
  BY <1>1, <1>4, <1>6 DEF Reaction
<1>11. Heard[k] = m /\ m # NoMessage /\ Reaction[k] = Waiting
  BY <1>1, <1>2, PointsAssumption DEF Heard, Reaction, NoMessage
<1>12. \/ Sent(call.answer) = Promise!Failed
       \/ /\ Promise!WordOf[m.points] \notin DOMAIN StoredOf(table)
          /\ Sent(call.answer) = Promise!Silent
       \/ /\ Promise!WordOf[m.points] \in DOMAIN StoredOf(table)
          /\ Sent(call.answer) =
               Promise!Sent(Promise!Filled(StoredOf(table)[Promise!WordOf[m.points]], m.sender, u))
  <2>1. CASE call.answer = Failed
    BY <2>1 DEF Sent, Failed, Promise!Failed
  <2>2. CASE call.answer = Match(m, u)
    <3> HIDE DEF m, u
    <3> QED
      BY <1>1, <2>2, SentIsPromised DEF RIInv
  <2> QED
    BY <1>3, <2>1, <2>2
<1>13. Promise!React(k)
  <2> HIDE DEF u
  <2>1. /\ Heard[k] # NoMessage /\ Reaction[k] = Promise!Waiting
    BY <1>11 DEF Waiting, Promise!Waiting
  <2>2. \/ Reaction' = [Reaction EXCEPT ![k] = Promise!Failed]
        \/ /\ Promise!WordOf[Heard[k].points] \notin DOMAIN StoredOf(table)
           /\ Reaction' = [Reaction EXCEPT ![k] = Promise!Silent]
        \/ /\ Promise!WordOf[Heard[k].points] \in DOMAIN StoredOf(table)
           /\ \E about \in Promise!Pointed(Heard[k]) : Reaction' = [Reaction EXCEPT ![k] =
                Promise!Sent(Promise!Filled(StoredOf(table)[Promise!WordOf[Heard[k].points]],
                                            Heard[k].sender, about))]
    <3> HIDE DEF m
    <3> QED
      BY <1>2, <1>10, <1>11, <1>12, Zenon
  <2> QED
    BY <1>9, <2>1, <2>2, Zenon DEF Promise!React, Heard, Reaction, StoredOf
<1> QED
  BY <1>8, <1>13

\* addCommand, removeCommand and editCommand change what is stored as the promise
\* says, or leave it alone.
LEMMA ServeCommandChanges ==
  ASSUME Known, RIInv, ServeCommand
  PROVE  /\ TableOf(table)' /\ Answered' /\ (\A j \in Slots : Aimed(items'[j]))
         /\ (UNCHANGED Promise!rvars \/ \E e \in Edits : Promise!Change(e))
<1>0. PICK e \in Edits : e = call.edit
  BY DEF RIInv, IInv, TypeOK, ServeCommand
<1> DEFINE t == StoredAs[e.points]
           w == Promise!WordOf[e.points]
<1> HIDE DEF Point
<1>1. e \in Edits /\ call \in Call /\ items' = items /\ table' = Changed(e) /\ call'.of = "command"
      /\ KnownLetters
  BY <1>0 DEF RIInv, IInv, TypeOK, ServeCommand, Call, Known
<1>2. w \in TriggerWords /\ w \in Seq(Point) /\ t = Bytes(w) /\ t = BytesOf[w]
  <2>1. w = Folded(e.points) /\ t = Bytes(Folded(e.points)) /\ Folded(e.points) \in TriggerWords
        /\ Folded(e.points) \in Seq(Point)
    BY <1>1, EditWord, CommandWord
  <2>2. \A x \in TriggerWords : BytesOf[x] = Bytes(x)
    BY <1>1, WordsOfTable
  <2> QED
    BY <2>1, <2>2, Zenon
<1>3. TableOf(table)' /\ Answered' /\ (\A j \in Slots : Aimed(items'[j]))
  <2>1. DOMAIN Changed(e) \subseteq DOMAIN table \union {t}
    BY DEF Changed
  <2> QED
    BY <1>1, <2>1 DEF RIInv, TableOf, Answered
<1>4. Heard' = Heard /\ Reaction' = Reaction
  BY <1>1 DEF Heard, Reaction
<1>5. w \in DOMAIN StoredOf(table) <=> t \in DOMAIN table
  BY <1>1, <1>2, LookUp DEF RIInv
<1>6. \A s : table' = s => StoredOf(table)' = StoredOf(s)
  BY DEF StoredOf
<1>7. ASSUME StoredOf(table)' = StoredOf(table) PROVE UNCHANGED Promise!rvars
  BY <1>4, <1>7, Stutters
<1>8. CASE table' = table
  BY <1>3, <1>6, <1>7, <1>8
<1>9. CASE table' = Put(table, t, e.response) /\ (t \in DOMAIN table) = (e.action # "add")
           /\ e.action # "remove"
  <2> HIDE DEF w, t
  <2>1. StoredOf(table)' = Put(StoredOf(table), w, e.response)
    <3>1. StoredOf(table)' = StoredOf(Put(table, t, e.response))
      BY <1>6, <1>9, Zenon
    <3>2. \A r : StoredOf(Put(table, BytesOf[w], r)) = Put(StoredOf(table), w, r)
      BY <1>1, <1>2, StoredPut
    <3> QED
      BY <1>2, <3>1, <3>2, Zenon
  <2>2. StoredOf(table)' = [v \in (DOMAIN StoredOf(table) \ {w}) \union {w} |->
                           IF v = w THEN e.response ELSE StoredOf(table)[v]]
    <3>1. (DOMAIN StoredOf(table) \ {w}) \union {w} = DOMAIN StoredOf(table) \union {w}
      OBVIOUS
    <3> QED
      BY <2>1, <3>1, Zenon DEF Put
  <2>3. (w \in DOMAIN StoredOf(table)) = (e.action # "add") /\ e.action # "remove"
    BY <1>5, <1>9
  <2>4. Promise!Change(e)
    BY <1>4, <2>2, <2>3, Zenon DEF Promise!Change, StoredOf, Heard, Reaction, w
  <2> QED
    BY <1>3, <2>4
<1>10. CASE table' = Without(table, t) /\ e.action = "remove" /\ t \in DOMAIN table
  <2> HIDE DEF w, t
  <2>1. StoredOf(table)' = Without(StoredOf(table), w)
    BY <1>1, <1>2, <1>6, <1>10, StoredWithout, Zenon
  <2>2. StoredOf(table)' = [v \in DOMAIN StoredOf(table) \ {w} |->
                             IF v = w THEN e.response ELSE StoredOf(table)[v]]
    <3>1. \A v \in DOMAIN StoredOf(table) \ {w} : v # w
      OBVIOUS
    <3> QED
      BY <2>1, <3>1, Zenon DEF Without
  <2>3. (w \in DOMAIN StoredOf(table)) = (e.action # "add") /\ e.action = "remove"
    BY <1>5, <1>10
  <2>4. Promise!Change(e)
    BY <1>4, <2>2, <2>3, Zenon DEF Promise!Change, StoredOf, Heard, Reaction, w
  <2> QED
    BY <1>3, <2>4
<1>11. CASE table' = Without(table, t) /\ t \notin DOMAIN table
  <2> HIDE DEF w, t
  <2>1. StoredOf(table)' = Without(StoredOf(table), w)
    BY <1>1, <1>2, <1>6, <1>11, StoredWithout, Zenon
  <2>2. DOMAIN StoredOf(table) \ {w} = DOMAIN StoredOf(table)
    BY <1>5, <1>11
  <2>3. StoredOf(table) = [v \in DOMAIN StoredOf(table) |-> StoredOf(table)[v]]
    BY DEF StoredOf
  <2>4. StoredOf(table)' = StoredOf(table)
    BY <2>1, <2>2, <2>3, Zenon DEF Without
  <2> QED
    BY <1>3, <1>7, <2>4
<1>12. \/ table' = table
       \/ table' = Put(table, t, e.response) /\ (t \in DOMAIN table) = (e.action # "add")
          /\ e.action # "remove"
       \/ table' = Without(table, t) /\ e.action = "remove"
  <2>1. e.action \in {"add", "remove", "edit"}
    BY <1>1, TextsAssumption
  <2> QED
    BY <1>1, <2>1 DEF Changed, Put, Without
<1> QED
  BY <1>3, <1>8, <1>9, <1>10, <1>11, <1>12

\* Every step keeps the inductive invariant and is a step of the promise or none.
LEMMA NextRIInv ==
  ASSUME Known, RIInv, [Next]_vars
  PROVE  RIInv' /\ [Promise!RNext]_Promise!rvars
<1>1. IInv'
  BY NextIInv DEF RIInv
<1>2. SUFFICES /\ TableOf(table)' /\ Answered' /\ (\A j \in Slots : Aimed(items'[j]))
               /\ (Promise!RNext \/ UNCHANGED Promise!rvars)
  BY <1>1, Zenon DEF RIInv
<1>3. ASSUME NEW k \in Slots, NEW m \in Messages, Receive(k, m)
      PROVE  /\ TableOf(table)' /\ Answered' /\ (\A j \in Slots : Aimed(items'[j]))
             /\ Promise!RNext
  BY <1>3, ReceiveHears, Zenon DEF Promise!RNext
<1>4. ASSUME NEW k \in Slots, Continue(k)
      PROVE  /\ TableOf(table)' /\ Answered' /\ (\A j \in Slots : Aimed(items'[j]))
             /\ UNCHANGED Promise!rvars
  BY <1>4, ContinueStutters
<1>5. ASSUME NEW e \in Edits, ExecuteCommand(e)
      PROVE  /\ TableOf(table)' /\ Answered' /\ (\A j \in Slots : Aimed(items'[j]))
             /\ UNCHANGED Promise!rvars
  BY <1>5, ExecuteCommandStutters
<1>6. CASE ServeMatch
  BY <1>6, ServeMatchStutters
<1>7. CASE ServeCommand
  <2>1. /\ TableOf(table)' /\ Answered' /\ (\A j \in Slots : Aimed(items'[j]))
        /\ (UNCHANGED Promise!rvars \/ \E e \in Edits : Promise!Change(e))
    BY <1>7, ServeCommandChanges
  <2> QED
    BY <2>1, Zenon DEF Promise!RNext
<1>8. CASE CallFails
  BY <1>8, CallFailsStutters
<1>9. CASE MatchReturns
  <2>1. /\ TableOf(table)' /\ Answered' /\ (\A j \in Slots : Aimed(items'[j]))
        /\ \E k \in Slots : Promise!React(k)
    BY <1>9, MatchReturnsReacts
  <2> QED
    BY <2>1, Zenon DEF Promise!RNext
<1>10. CASE CommandReturns
  BY <1>10, CommandReturnsStutters
<1>11. CASE UNCHANGED vars
  <2>1. items' = items /\ table' = table /\ call' = call
    BY <1>11 DEF vars
  <2>2. Answered'
    <3>1. \A m, u : Match(m, u)' = Match(m, u)
      BY <2>1, Zenon DEF Match
    <3> QED
      BY <2>1, <3>1 DEF RIInv, Answered
  <2> QED
    BY <2>1, <2>2, SameStutters
<1> QED
  BY <1>3, <1>4, <1>5, <1>6, <1>7, <1>8, <1>9, <1>10, <1>11 DEF Next, Serve, Return

\* With triggers in the letters that toLower knows, trimmed messages and names without
\* placeholders, every answer is the response stored when it is sent, for the first word
\* of the message in lower case and filled in at once, about a user that the message
\* points at, whatever is looked up, edited or lost meanwhile (matchRp to
\* dispatchRpMatch, rp_service.cpp).
THEOREM ImplementsReactionsHolds == Known /\ Spec => ImplementsReactions
<1> DEFINE KInv == Known /\ RIInv
<1>1. Known /\ Init => KInv /\ Promise!RInit
  BY InitRIInv
<1>2. KInv /\ [Next]_vars => KInv' /\ [Promise!RNext]_Promise!rvars
  <2> SUFFICES ASSUME Known, RIInv, [Next]_vars
               PROVE  KInv' /\ [Promise!RNext]_Promise!rvars
    OBVIOUS
  <2>1. RIInv' /\ [Promise!RNext]_Promise!rvars
    BY NextRIInv
  <2>2. Known'
    OBVIOUS
  <2> QED
    BY <2>1, <2>2
<1> QED
  BY <1>1, <1>2, PTL DEF Spec, ImplementsReactions, Promise!RSpec
=============================================================================
