-------------------------- MODULE RotatingLog_proof --------------------------
(***************************************************************************)
(* Proofs about the rotating log, for any number of files, any limit of    *)
(* their size and any number of calls.                                     *)
(***************************************************************************)
EXTENDS RotatingLog, SequenceTheorems, WellFoundedInduction, TLAPS

----------------------------------------------------------------------------
(* Induction, over the elements of a set: the least number that is not in  *)
(* it would have a predecessor that is.                                    *)
LEMMA SetInduction ==
    ASSUME NEW S, 0 \in S, \A n \in Nat : n \in S => n + 1 \in S
    PROVE  \A n \in Nat : n \in S
<1>. DEFINE R == {ss \in Nat \X Nat : ss[1] < ss[2]}
            C == {n \in Nat : n \notin S}
<1>1. IsWellFoundedOn(R, Nat)
  BY NatLessThanWellFounded DEF OpToRel
<1>2. SUFFICES ASSUME C # {} PROVE FALSE
  OBVIOUS
<1>3. C \subseteq Nat
  OBVIOUS
<1>. HIDE DEF R, C
<1>4. PICK x \in C : \A y \in C : ~ (<<y, x>> \in R)
  BY <1>1, <1>2, <1>3, WFMin
<1>. USE DEF R, C
<1>5. x # 0 /\ x - 1 \in Nat
  BY <1>4
<1>6. <<x - 1, x>> \in R
  BY <1>4, <1>5
<1>7. x - 1 \notin C
  BY <1>4, <1>6
<1>8. x - 1 \in S
  BY <1>5, <1>7
<1>. QED  BY <1>4, <1>5, <1>8

(* The same from 1 to a limit.                                             *)
LEMMA IndexInduction ==
    ASSUME NEW n \in Nat, NEW S,
           n >= 1 => 1 \in S,
           \A i \in 1 .. n - 1 : i \in S => i + 1 \in S
    PROVE  \A i \in 1 .. n : i \in S
<1>. DEFINE U == {k \in Nat : k + 1 \in S \/ k + 1 > n}
<1>1. 0 \in U
  OBVIOUS
<1>2. \A k \in Nat : k \in U => k + 1 \in U
  <2>. TAKE k \in Nat
  <2>. HAVE k \in U
  <2>1. CASE k + 1 + 1 > n
    BY <2>1
  <2>2. CASE k + 1 + 1 <= n
    <3>1. k + 1 \in 1 .. n - 1 /\ k + 1 \in S
      BY <2>2
    <3>. QED  BY <3>1
  <2>. QED  BY <2>1, <2>2
<1>. HIDE DEF U
<1>3. \A k \in Nat : k \in U
  BY <1>1, <1>2, SetInduction
<1>4. ASSUME NEW i \in 1 .. n PROVE i \in S
  <2>1. i - 1 \in Nat
    OBVIOUS
  <2>2. i - 1 \in U
    BY <1>3, <2>1
  <2>. QED  BY <2>2 DEF U
<1>. QED  BY <1>4

----------------------------------------------------------------------------
(* FlattenSeq, by what it makes of each beginning of its argument.         *)
FlattensTo(A, n, s, f) ==
    /\ f \in [1 .. n -> Seq(A)]
    /\ \A i \in 1 .. n : f[i] = IF i = 1 THEN s[i] ELSE f[i - 1] \o s[i]

Flattens(A, n, s, f) ==
    /\ n \in Nat \ {0} /\ s \in [1 .. n -> Seq(A)]
    /\ FlattensTo(A, n, s, f)

(* There is such a function for every number of sequences.                 *)
LEMMA FlattensExists ==
    ASSUME NEW A, NEW n \in Nat, NEW s \in [1 .. n -> Seq(A)]
    PROVE  \A k \in 1 .. n : \E f : FlattensTo(A, k, s, f)
<1>. DEFINE T == {k \in 1 .. n : \E f : FlattensTo(A, k, s, f)}
<1>1. n >= 1 => 1 \in T
  <2>. SUFFICES ASSUME n >= 1 PROVE 1 \in T
    OBVIOUS
  <2>1. s[1] \in Seq(A)
    OBVIOUS
  <2>2. FlattensTo(A, 1, s, [i \in 1 .. 1 |-> s[1]])
    BY <2>1 DEF FlattensTo
  <2>. QED  BY <2>2
<1>2. \A k \in 1 .. n - 1 : k \in T => k + 1 \in T
  <2>. TAKE k \in 1 .. n - 1
  <2>. HAVE k \in T
  <2>1. PICK f : FlattensTo(A, k, s, f)
    OBVIOUS
  <2>. DEFINE g == [i \in 1 .. k + 1 |-> IF i = k + 1 THEN f[k] \o s[k + 1] ELSE f[i]]
  <2>2. k + 1 \in 1 .. n /\ s[k + 1] \in Seq(A)
    OBVIOUS
  <2>3. f[k] \in Seq(A)
    BY <2>1 DEF FlattensTo
  <2>4. f[k] \o s[k + 1] \in Seq(A)
    BY <2>2, <2>3, ConcatProperties
  <2>5. \A i \in 1 .. k : f[i] \in Seq(A)
    BY <2>1 DEF FlattensTo
  <2>6. g \in [1 .. k + 1 -> Seq(A)]
    BY <2>4, <2>5
  <2>7. \A i \in 1 .. k + 1 : g[i] = IF i = 1 THEN s[i] ELSE g[i - 1] \o s[i]
    <3>. TAKE i \in 1 .. k + 1
    <3>1. CASE i = k + 1
      <4>0. k + 1 \in 1 .. k + 1 /\ k \in 1 .. k + 1 /\ k # k + 1
        OBVIOUS
      <4>1. g[k + 1] = f[k] \o s[k + 1] /\ g[k] = f[k]
        BY <4>0
      <4>2. i # 1 /\ i - 1 = k
        BY <3>1
      <4>. HIDE DEF g
      <4>. QED  BY <3>1, <4>1, <4>2
    <3>2. CASE i # k + 1
      <4>1. i \in 1 .. k /\ g[i] = f[i]
        BY <3>2
      <4>2. i # 1 => i - 1 \in 1 .. k + 1 /\ i - 1 # k + 1 /\ g[i - 1] = f[i - 1]
        BY <4>1
      <4>3. f[i] = IF i = 1 THEN s[i] ELSE f[i - 1] \o s[i]
        BY <2>1, <4>1 DEF FlattensTo
      <4>. HIDE DEF g
      <4>. QED  BY <4>1, <4>2, <4>3
    <3>. QED  BY <3>1, <3>2
  <2>. HIDE DEF g
  <2>8. FlattensTo(A, k + 1, s, g)
    BY <2>6, <2>7 DEF FlattensTo
  <2>. QED  BY <2>2, <2>8
<1>. HIDE DEF T
<1>3. \A k \in 1 .. n : k \in T
  BY <1>1, <1>2, IndexInduction
<1>. QED  BY <1>3 DEF T

(* FlattenSeq is its last value.                                           *)
LEMMA FlattenSeqIs ==
    ASSUME NEW A, NEW n \in Nat \ {0}, NEW s \in [1 .. n -> Seq(A)]
    PROVE  \E f : Flattens(A, n, s, f) /\ FlattenSeq(s) = f[n]
<1>. DEFINE G(f) == [i \in 1 .. n |-> IF i = 1 THEN s[i] ELSE f[i - 1] \o s[i]]
            h == CHOOSE f : f = G(f)
<1>1. s \in Seq(Seq(A)) /\ Len(s) = n
  OBVIOUS
<1>2. FlattenSeq(s) = h[n]
  BY <1>1 DEF FlattenSeq
<1>3. PICK e : FlattensTo(A, n, s, e)
  BY FlattensExists, SMTT(60)
<1>4. e = G(e)
  <2>1. e \in [1 .. n -> Seq(A)]
    BY <1>3 DEF Flattens, FlattensTo
  <2>2. \A i \in 1 .. n : e[i] = G(e)[i]
    BY <1>3 DEF Flattens, FlattensTo
  <2>. QED  BY <2>1, <2>2
<1>5. h = G(h)
  <2>. HIDE DEF G
  <2>. QED  BY <1>4
<1>. HIDE DEF h
<1>6. \A i \in 1 .. n : h[i] = IF i = 1 THEN s[i] ELSE h[i - 1] \o s[i]
  BY <1>5
<1>9. h = [i \in 1 .. n |-> h[i]]
  BY <1>5
<1>. DEFINE T == {i \in 1 .. n : h[i] \in Seq(A)}
<1>7. \A i \in 1 .. n : i \in T
  <2>1. 1 \in T
    <3>1. 1 \in 1 .. n /\ s[1] \in Seq(A)
      OBVIOUS
    <3>2. h[1] = s[1]
      BY <1>6, <3>1
    <3>. QED  BY <3>1, <3>2
  <2>2. \A i \in 1 .. n - 1 : i \in T => i + 1 \in T
    <3>. TAKE i \in 1 .. n - 1
    <3>. HAVE i \in T
    <3>1. i + 1 \in 1 .. n /\ s[i + 1] \in Seq(A) /\ h[i] \in Seq(A)
      OBVIOUS
    <3>2. h[i + 1] = h[i] \o s[i + 1]
      <4>1. i + 1 # 1 /\ (i + 1) - 1 = i
        OBVIOUS
      <4>. QED  BY <1>6, <3>1, <4>1
    <3>3. h[i] \o s[i + 1] \in Seq(A)
      BY <3>1, ConcatProperties
    <3>. QED  BY <3>1, <3>2, <3>3
  <2>. HIDE DEF T
  <2>. QED  BY <2>1, <2>2, IndexInduction
<1>8. Flattens(A, n, s, h)
  BY <1>6, <1>7, <1>9 DEF Flattens, FlattensTo
<1>. QED  BY <1>2, <1>8

(* The same, one step after the other.                                     *)
Stepwise(A, n, s, f) ==
    /\ n \in Nat \ {0} /\ 1 \in 1 .. n /\ f[1] = s[1]
    /\ \A i \in 1 .. n : f[i] \in Seq(A) /\ s[i] \in Seq(A)
    /\ \A i \in 1 .. n - 1 :
         i \in 1 .. n /\ i + 1 \in 1 .. n /\ f[i + 1] = f[i] \o s[i + 1]

LEMMA FlattensStep ==
    ASSUME NEW A, NEW n, NEW s, NEW f, Flattens(A, n, s, f)
    PROVE  Stepwise(A, n, s, f)
<1>1. n \in Nat \ {0} /\ 1 \in 1 .. n /\ f[1] = s[1]
  BY DEF Flattens, FlattensTo
<1>2. \A i \in 1 .. n : f[i] \in Seq(A) /\ s[i] \in Seq(A)
  BY DEF Flattens, FlattensTo
<1>3. ASSUME NEW i \in 1 .. n - 1
      PROVE  i \in 1 .. n /\ i + 1 \in 1 .. n /\ f[i + 1] = f[i] \o s[i + 1]
  <2>1. i \in 1 .. n /\ i + 1 \in 1 .. n /\ i + 1 # 1 /\ (i + 1) - 1 = i
    BY <1>1
  <2>. QED  BY <2>1 DEF Flattens, FlattensTo
<1>. QED  BY <1>1, <1>2, <1>3 DEF Stepwise

(* Equal beginnings are flattened equally.                                 *)
LEMMA FlattensSame ==
    ASSUME NEW A, NEW n, NEW s, NEW f, Flattens(A, n, s, f),
           NEW t, NEW g, Flattens(A, n, t, g),
           NEW k \in 0 .. n, \A i \in 1 .. k : t[i] = s[i]
    PROVE  \A i \in 1 .. k : g[i] = f[i]
<1>. Stepwise(A, n, s, f) /\ Stepwise(A, n, t, g)
  BY FlattensStep
<1>. n \in Nat \ {0}
  BY DEF Stepwise
<1>. DEFINE T == {i \in 1 .. k : g[i] = f[i]}
<1>1. k >= 1 => 1 \in T
  <2>1. f[1] = s[1] /\ g[1] = t[1]
    BY DEF Stepwise
  <2>. QED  BY <2>1
<1>2. \A i \in 1 .. k - 1 : i \in T => i + 1 \in T
  <2>. TAKE i \in 1 .. k - 1
  <2>. HAVE i \in T
  <2>1. i \in 1 .. n - 1 /\ i + 1 \in 1 .. k
    OBVIOUS
  <2>2. f[i + 1] = f[i] \o s[i + 1] /\ g[i + 1] = g[i] \o t[i + 1]
    BY <2>1 DEF Stepwise
  <2>. QED  BY <2>1, <2>2
<1>. HIDE DEF T
<1>3. k \in Nat
  OBVIOUS
<1>4. \A i \in 1 .. k : i \in T
  BY <1>1, <1>2, <1>3, IndexInduction
<1>. QED  BY <1>4 DEF T

LastAppended(n, s, t, m) ==
    t[n] = Append(s[n], m) /\ \A i \in 1 .. n - 1 : t[i] = s[i]

(* An element appended to the last sequence is appended to the whole.      *)
LEMMA FlattensAppend ==
    ASSUME NEW A, NEW n, NEW s, NEW f, Flattens(A, n, s, f),
           NEW t, NEW g, Flattens(A, n, t, g),
           NEW m \in A, LastAppended(n, s, t, m)
    PROVE  g[n] = Append(f[n], m)
<1>. USE DEF LastAppended
<1>. Stepwise(A, n, s, f) /\ Stepwise(A, n, t, g)
  BY FlattensStep
<1>. n \in Nat \ {0}
  BY DEF Stepwise
<1>1. CASE n = 1
  <2>1. f[1] = s[1] /\ g[1] = t[1]
    BY DEF Stepwise
  <2>. QED  BY <1>1, <2>1
<1>2. CASE n # 1
  <2>. DEFINE i == n - 1
  <2>1. i \in 1 .. n - 1 /\ i \in 0 .. n /\ i + 1 = n /\ i \in 1 .. i
    BY <1>2
  <2>. HIDE DEF i
  <2>2. g[i] = f[i]
    BY <2>1, FlattensSame DEF i
  <2>3. f[n] = f[i] \o s[n] /\ g[n] = g[i] \o t[n] /\ f[i] \in Seq(A) /\ s[n] \in Seq(A)
    BY <2>1 DEF Stepwise
  <2>4. Append(s[n], m) = s[n] \o <<m>> /\ <<m>> \in Seq(A)
    BY <2>3, AppendIsConcat, SMTT(60)
  <2>5. f[i] \o (s[n] \o <<m>>) = (f[i] \o s[n]) \o <<m>>
    <3>. DEFINE a == f[i]
                b == s[n]
                c == <<m>>
    <3>1. a \in Seq(A) /\ b \in Seq(A) /\ c \in Seq(A)
      BY <2>3, <2>4
    <3>. HIDE DEF a, b, c
    <3>2. (a \o b) \o c = a \o (b \o c)
      BY <3>1, ConcatAssociative, SMTT(60)
    <3>. QED  BY <3>2 DEF a, b, c
  <2>6. (f[i] \o s[n]) \o <<m>> = Append(f[i] \o s[n], m)
    BY <2>3, AppendIsConcat, ConcatProperties, ZenonT(60)
  <2>. QED  BY <2>2, <2>3, <2>4, <2>5, <2>6, Zenon
<1>. QED  BY <1>1, <1>2

FirstEmptied(n, s, t) ==
    t[1] = <<>> /\ \A i \in 2 .. n : t[i] = s[i]

Joins(a, b, c) == c = a \o b

(* Emptying the first sequence takes it off the whole.                     *)
LEMMA FlattensDropFirst ==
    ASSUME NEW A, NEW n, NEW s, NEW f, Flattens(A, n, s, f),
           NEW t, NEW g, Flattens(A, n, t, g),
           FirstEmptied(n, s, t)
    PROVE  Joins(s[1], g[n], f[n])
<1>. USE DEF FirstEmptied, Joins
<1>. Stepwise(A, n, s, f) /\ Stepwise(A, n, t, g)
  BY FlattensStep
<1>. n \in Nat \ {0}
  BY DEF Stepwise
<1>. DEFINE T == {i \in 1 .. n : f[i] = s[1] \o g[i]}
<1>1. 1 \in T
  <2>1. f[1] = s[1] /\ g[1] = t[1] /\ s[1] \in Seq(A) /\ 1 \in 1 .. n
    BY DEF Stepwise
  <2>2. s[1] \o <<>> = s[1]
    BY <2>1, ConcatEmptySeq
  <2>. QED  BY <2>1, <2>2
<1>2. \A i \in 1 .. n - 1 : i \in T => i + 1 \in T
  <2>. TAKE i \in 1 .. n - 1
  <2>. HAVE i \in T
  <2>1. /\ f[i + 1] = f[i] \o s[i + 1] /\ g[i + 1] = g[i] \o t[i + 1]
        /\ i + 1 \in 1 .. n
    BY DEF Stepwise
  <2>2. t[i + 1] = s[i + 1] /\ i \in 1 .. n /\ 1 \in 1 .. n
    OBVIOUS
  <2>3. s[1] \in Seq(A) /\ s[i + 1] \in Seq(A) /\ g[i] \in Seq(A)
    BY <2>1, <2>2 DEF Stepwise
  <2>4. (s[1] \o g[i]) \o s[i + 1] = s[1] \o (g[i] \o s[i + 1])
    <3>. DEFINE a == s[1]
                b == g[i]
                c == s[i + 1]
    <3>1. a \in Seq(A) /\ b \in Seq(A) /\ c \in Seq(A)
      BY <2>3
    <3>. HIDE DEF a, b, c
    <3>2. (a \o b) \o c = a \o (b \o c)
      BY <3>1, ConcatAssociative, SMTT(60)
    <3>. QED  BY <3>2 DEF a, b, c
  <2>. QED  BY <2>1, <2>2, <2>4
<1>. HIDE DEF T
<1>3. \A i \in 1 .. n : i \in T
  BY <1>1, <1>2, IndexInduction
<1>4. n \in T
  BY <1>3
<1>. QED  BY <1>4 DEF T

(* A sequence that changes places with an empty one before it leaves the   *)
(* whole as it is.                                                         *)
LEMMA FlattensMove ==
    ASSUME NEW A, NEW n, NEW s, NEW f, Flattens(A, n, s, f),
           NEW t, NEW g, Flattens(A, n, t, g),
           NEW j \in 1 .. n - 1,
           s[j] = <<>>, t[j] = s[j + 1], t[j + 1] = <<>>,
           \A i \in 1 .. n : i \notin {j, j + 1} => t[i] = s[i]
    PROVE  g[n] = f[n]
<1>. Stepwise(A, n, s, f) /\ Stepwise(A, n, t, g)
  BY FlattensStep
<1>. n \in Nat \ {0}
  BY DEF Stepwise
<1>0. j \in 1 .. n /\ j + 1 \in 1 .. n /\ j - 1 \in 0 .. n
  OBVIOUS
<1>1. \A i \in 1 .. j - 1 : g[i] = f[i]
  BY <1>0, FlattensSame, SMTT(60)
<1>2. g[j + 1] = f[j + 1]
  <2>1. /\ f[j + 1] = f[j] \o s[j + 1] /\ g[j + 1] = g[j] \o <<>>
        /\ f[j] \in Seq(A) /\ g[j] \in Seq(A) /\ s[j + 1] \in Seq(A)
    BY <1>0 DEF Stepwise
  <2>2. g[j + 1] = g[j]
    BY <2>1, ConcatEmptySeq
  <2>3. CASE j = 1
    <3>1. f[j] = <<>> /\ g[j] = s[j + 1]
      BY <2>3 DEF Stepwise
    <3>2. <<>> \o s[j + 1] = s[j + 1]
      BY <2>1, ConcatEmptySeq
    <3>. QED  BY <2>1, <2>2, <3>1, <3>2
  <2>4. CASE j # 1
    <3>. DEFINE i == j - 1
    <3>1. i \in 1 .. n - 1 /\ i + 1 = j /\ i \in 1 .. j - 1 /\ i \in 1 .. n
      BY <2>4
    <3>. HIDE DEF i
    <3>2. f[j] = f[i] \o <<>> /\ g[j] = g[i] \o s[j + 1] /\ f[i] \in Seq(A)
      BY <3>1, ZenonT(60) DEF Stepwise
    <3>3. f[i] \o <<>> = f[i] /\ g[i] = f[i]
      BY <1>1, <3>1, <3>2, ConcatEmptySeq
    <3>. QED  BY <2>1, <2>2, <3>2, <3>3
  <2>. QED  BY <2>3, <2>4
<1>. DEFINE T == {i \in 1 .. n : i > j => g[i] = f[i]}
<1>3. 1 \in T
  BY <1>0
<1>4. \A i \in 1 .. n - 1 : i \in T => i + 1 \in T
  <2>. TAKE i \in 1 .. n - 1
  <2>. HAVE i \in T
  <2>1. i + 1 \in 1 .. n
    OBVIOUS
  <2>2. CASE i < j
    BY <2>1, <2>2
  <2>3. CASE i = j
    BY <1>2, <2>1, <2>3
  <2>4. CASE i > j
    <3>1. t[i + 1] = s[i + 1] /\ g[i] = f[i]
      BY <2>1, <2>4
    <3>2. f[i + 1] = f[i] \o s[i + 1] /\ g[i + 1] = g[i] \o t[i + 1]
      BY DEF Stepwise
    <3>. QED  BY <2>1, <3>1, <3>2
  <2>. QED  BY <2>2, <2>3, <2>4
<1>. HIDE DEF T
<1>5. \A i \in 1 .. n : i \in T
  BY <1>3, <1>4, IndexInduction
<1>6. n \in 1 .. n /\ n > j
  OBVIOUS
<1>. QED  BY <1>5, <1>6 DEF T

(* The whole has the elements of all its parts, and no others.             *)
LEMMA FlattensElements ==
    ASSUME NEW A, NEW n, NEW s, NEW f, Flattens(A, n, s, f)
    PROVE  \A x : x \in Range(f[n]) <=> \E i \in 1 .. n : x \in Range(s[i])
<1>. Stepwise(A, n, s, f)
  BY FlattensStep
<1>. n \in Nat \ {0}
  BY DEF Stepwise
<1>. DEFINE Has(i) ==
       \A x : x \in Range(f[i]) <=> \E k \in 1 .. i : x \in Range(s[k])
            T == {i \in 1 .. n : Has(i)}
<1>1. 1 \in T
  <2>1. f[1] = s[1] /\ 1 \in 1 .. n
    BY DEF Stepwise
  <2>2. 1 .. 1 = {1}
    OBVIOUS
  <2>. QED  BY <2>1, <2>2, Zenon
<1>2. \A i \in 1 .. n - 1 : i \in T => i + 1 \in T
  <2>. TAKE i \in 1 .. n - 1
  <2>. HAVE i \in T
  <2>1. /\ f[i + 1] = f[i] \o s[i + 1] /\ i + 1 \in 1 .. n /\ i \in 1 .. n
        /\ f[i] \in Seq(A) /\ s[i + 1] \in Seq(A)
    BY DEF Stepwise
  <2>2. Range(f[i + 1]) = Range(f[i]) \union Range(s[i + 1])
    BY <2>1, RangeConcatenation
  <2>3. 1 .. i + 1 = (1 .. i) \union {i + 1}
    OBVIOUS
  <2>4. Has(i)
    OBVIOUS
  <2>5. Has(i + 1)
    BY <2>2, <2>3, <2>4, Zenon
  <2>. HIDE DEF Has
  <2>. QED  BY <2>1, <2>5
<1>. HIDE DEF T
<1>3. \A i \in 1 .. n : i \in T
  BY <1>1, <1>2, IndexInduction
<1>4. n \in T
  BY <1>3
<1>. QED  BY <1>4 DEF T

----------------------------------------------------------------------------
(* The invariant.                                                          *)

InCall == step \notin {"down", "idle"}
PastCheck == step \in {"remove", "rename", "create", "reopen", "write"}

(* FilesBounded, but for the types: of one file, of all of them.           *)
Small(l, bytes) == bytes < MaxFileBytes \/ Len(l) <= 1
Bounded == failed \/ \A i \in Instances : Small(lines[i], size[i])

(* There is room for the line, or the first file is empty, as long as all  *)
(* rotations have gone through.                                            *)
RoomForLine ==
    /\ step = "write" => \/ failed
                         \/ size[1] + Length[msg.text] < MaxFileBytes
                         \/ lines[1] = <<>>
    /\ step = "reopen" => failed \/ lines[1] = <<>>

(* NoRepeatedLine, for one file.                                           *)
Differs(s) ==
    \A k \in DOMAIN s : k > 1 /\ s[k].deduplicate => s[k].text # s[k - 1].text

(* A line to be deduplicated still differs from the last one when it is    *)
(* written, whatever a rotation has done in between.                       *)
StillDiffers ==
    PastCheck /\ msg.deduplicate =>
        lines[1] = <<>> \/ Last(lines[1]).text # msg.text

(* A rotation overwrites nothing: a file that is missing has no lines, and *)
(* what is renamed or created takes the place of an empty file.            *)
NothingOverwritten ==
    /\ \A i \in Instances : i \notin present => lines[i] = <<>>
    /\ step = "rename" => lines[inst] = <<>>
    /\ step = "create" => lines[1] = <<>>

(* The call in progress is the last one, and its message not in the log.   *)
IdsOf(w) == {m.id : m \in ToSet(w)}

LastCall ==
    /\ InCall => msg.id = calls
    /\ \A x \in IdsOf(WholeLog) : x <= calls /\ (InCall => x < calls)

FileInv == LogTypeOK /\ NothingOverwritten
IInv ==
    /\ FileInv
    /\ Bounded /\ RoomForLine
    /\ NoRepeatedLine /\ StillDiffers
    /\ LastCall /\ EveryCallLogged

(* Every step keeps every variable in its type.                            *)
LEMMA TypeStep ==
    LogTypeOK /\ [LogNext]_logVars => LogTypeOK'
<1>. SUFFICES ASSUME LogTypeOK, [LogNext]_logVars
              PROVE  LogTypeOK'
  OBVIOUS
<1>. USE LengthAssumption, CountAssumption, BytesAssumption, CallsAssumption DEF
         LogTypeOK, Instances, fileVars
<1>1. CASE InitFiles
  BY <1>1 DEF InitFiles
<1>2. CASE Crash
  <2>1. failed' \in BOOLEAN
    BY <1>2 DEF Crash
  <2>2. gone' \subseteq 1 .. MaxCalls
    BY <1>2 DEF Crash, Message
  <2>. QED  BY <1>2, <2>1, <2>2 DEF Crash
<1>3. ASSUME NEW t \in Texts, NEW d \in BOOLEAN, Open(t, d) PROVE LogTypeOK'
  <2>1. msg' \in Message /\ calls' \in 0 .. MaxCalls
    BY <1>3 DEF Open, Message
  <2>2. present' \subseteq Instances /\ 1 \in present'
    BY <1>3 DEF Open
  <2>. QED  BY <1>3, <2>1, <2>2 DEF Open
<1>4. CASE Check
  <2>1. gone' \subseteq 1 .. MaxCalls
    BY <1>4 DEF Check, Message
  <2>. QED  BY <1>4, <2>1 DEF Check
<1>5. CASE RemoveLast
  <2>1. LogFilesCount \in Instances
    OBVIOUS
  <2>2. {m.id : m \in ToSet(lines[LogFilesCount])} \subseteq 1 .. MaxCalls
    <3>1. lines[LogFilesCount] \in Seq(Message)
      BY <2>1
    <3>2. ToSet(lines[LogFilesCount]) \subseteq Message
      BY <3>1 DEF ToSet
    <3>3. \A m \in Message : m.id \in 1 .. MaxCalls
      BY DEF Message
    <3>. QED  BY <3>2, <3>3
  <2>3. lines' \in [Instances -> Seq(Message)] /\ size' \in [Instances -> Nat]
    BY <1>5 DEF RemoveLast
  <2>4. /\ present' \subseteq Instances /\ inst' = LogFilesCount
        /\ step' \in {"rename", "create"}
        /\ step' = "rename" => LogFilesCount >= 2
        /\ UNCHANGED <<msg, calls, failed>> /\ msg \in Message
    BY <1>5 DEF RemoveLast
  <2>5. gone' \subseteq 1 .. MaxCalls
    BY <1>5, <2>2 DEF RemoveLast
  <2>. QED  BY <2>3, <2>4, <2>5, SMTT(60)
<1>6. CASE Rename
  <2>1. inst \in Instances /\ inst - 1 \in Instances
    BY <1>6 DEF Rename
  <2>2. /\ lines' \in [Instances -> Seq(Message)] /\ size' \in [Instances -> Nat]
        /\ present' \subseteq Instances
    <3>1. CASE inst - 1 \in present
      <4>1. lines' = [lines EXCEPT ![inst] = lines[inst - 1], ![inst - 1] = <<>>]
        BY <1>6, <3>1 DEF Rename
      <4>2. size' = [size EXCEPT ![inst] = size[inst - 1], ![inst - 1] = 0]
        BY <1>6, <3>1 DEF Rename
      <4>3. present' = (present \ {inst - 1}) \union {inst}
        BY <1>6, <3>1 DEF Rename
      <4>4. lines[inst - 1] \in Seq(Message) /\ <<>> \in Seq(Message)
        BY <2>1
      <4>5. size[inst - 1] \in Nat
        BY <2>1
      <4>6. lines' \in [Instances -> Seq(Message)]
        BY <2>1, <4>1, <4>4
      <4>7. size' \in [Instances -> Nat]
        BY <2>1, <4>2, <4>5
      <4>. QED  BY <2>1, <4>3, <4>6, <4>7
    <3>2. CASE inst - 1 \notin present
      BY <1>6, <2>1, <3>2 DEF Rename
    <3>. QED  BY <3>1, <3>2
  <2>3. /\ inst' \in 0 .. LogFilesCount
        /\ step' \in {"rename", "create"}
        /\ step' = "rename" => inst' \in 2 .. LogFilesCount
        /\ UNCHANGED <<msg, calls, failed, gone>> /\ msg \in Message
    BY <1>6 DEF Rename
  <2>. QED  BY <2>2, <2>3
<1>7. CASE CreateFirst
  <2>1. 1 \in Instances
    OBVIOUS
  <2>2. lines' \in [Instances -> Seq(Message)] /\ size' \in [Instances -> Nat]
    BY <1>7, <2>1 DEF CreateFirst
  <2>. QED  BY <1>7, <2>1, <2>2 DEF CreateFirst
<1>8. CASE RotationFails
  <2>1. failed' \in BOOLEAN
    BY <1>8, Zenon DEF RotationFails
  <2>. QED  BY <1>8, <2>1 DEF RotationFails
<1>9. CASE Reopen
  BY <1>9 DEF Reopen
<1>10. CASE Write
  <2>1. 1 \in Instances /\ msg \in Message
    BY <1>10 DEF Write
  <2>2. Append(lines[1], msg) \in Seq(Message) /\ size[1] + Length[msg.text] \in Nat
    <3>1. lines[1] \in Seq(Message) /\ size[1] \in Nat
      BY <2>1
    <3>2. msg.text \in Texts
      BY <2>1 DEF Message
    <3>3. Length[msg.text] \in Nat
      BY <3>2
    <3>. QED  BY <2>1, <3>1, <3>3, SMTT(60)
  <2>3. lines' \in [Instances -> Seq(Message)] /\ size' \in [Instances -> Nat]
    BY <1>10, <2>1, <2>2 DEF Write
  <2>. QED  BY <1>10, <2>3 DEF Write
<1>11. CASE DropMessage
  <2>1. gone' \subseteq 1 .. MaxCalls
    BY <1>11 DEF DropMessage, Message
  <2>. QED  BY <1>11, <2>1 DEF DropMessage
<1>12. CASE UNCHANGED logVars
  BY <1>12 DEF logVars
<1>. QED
  BY <1>1, <1>2, <1>3, <1>4, <1>5, <1>6, <1>7, <1>8, <1>9, <1>10, <1>11,
     <1>12
  DEF LogNext, AuditRequest, AppendDeduplicated

(* A rotation goes from an empty file to the next.                         *)
LEMMA OverwriteStep ==
    FileInv /\ [LogNext]_logVars => NothingOverwritten'
<1>. SUFFICES ASSUME FileInv, [LogNext]_logVars
              PROVE  NothingOverwritten'
  OBVIOUS
<1>. USE DEF FileInv, LogTypeOK, NothingOverwritten, fileVars
<1>. 1 \in Instances /\ LogFilesCount \in Instances
  BY CountAssumption DEF Instances
<1>1. CASE InitFiles
  BY <1>1 DEF InitFiles
<1>2. CASE Crash
  BY <1>2 DEF Crash
<1>3. ASSUME NEW t \in Texts, NEW d \in BOOLEAN, Open(t, d) PROVE NothingOverwritten'
  BY <1>3 DEF Open
<1>4. CASE Check
  BY <1>4 DEF Check
<1>5. CASE RemoveLast
  <2>1. lines' = [lines EXCEPT ![LogFilesCount] = <<>>]
    BY <1>5 DEF RemoveLast
  <2>2. present' = present \ {LogFilesCount} /\ inst' = LogFilesCount
    BY <1>5 DEF RemoveLast
  <2>3. \A i \in Instances : lines'[i] = IF i = LogFilesCount THEN <<>> ELSE lines[i]
    BY <2>1
  <2>4. step' = "create" => LogFilesCount = 1
    BY <1>5, CountAssumption DEF RemoveLast
  <2>5. step' \in {"rename", "create"}
    BY <1>5 DEF RemoveLast
  <2>. QED  BY <2>2, <2>3, <2>4, <2>5
<1>6. CASE Rename
  <2>1. inst \in Instances /\ inst - 1 \in Instances /\ inst # inst - 1
    BY <1>6 DEF Rename, Instances
  <2>2. inst' = inst - 1 /\ step' = IF inst = 2 THEN "create" ELSE "rename"
    BY <1>6 DEF Rename
  <2>3. \A i \in Instances : i \notin present' => lines'[i] = <<>>
    <3>1. CASE inst - 1 \in present
      <4>1. lines' = [lines EXCEPT ![inst] = lines[inst - 1], ![inst - 1] = <<>>]
        BY <1>6, <3>1 DEF Rename
      <4>2. present' = (present \ {inst - 1}) \union {inst}
        BY <1>6, <3>1 DEF Rename
      <4>. QED  BY <2>1, <4>1, <4>2
    <3>2. CASE inst - 1 \notin present
      BY <1>6, <3>2 DEF Rename
    <3>. QED  BY <3>1, <3>2
  <2>4. lines'[inst - 1] = <<>>
    <3>1. CASE inst - 1 \in present
      <4>1. lines' = [lines EXCEPT ![inst] = lines[inst - 1], ![inst - 1] = <<>>]
        BY <1>6, <3>1 DEF Rename
      <4>. QED  BY <2>1, <4>1
    <3>2. CASE inst - 1 \notin present
      BY <1>6, <2>1, <3>2 DEF Rename
    <3>. QED  BY <3>1, <3>2
  <2>5. inst = 2 => inst - 1 = 1
    OBVIOUS
  <2>. QED  BY <2>2, <2>3, <2>4, <2>5
<1>7. CASE CreateFirst
  BY <1>7 DEF CreateFirst
<1>8. CASE RotationFails
  BY <1>8 DEF RotationFails
<1>9. CASE Reopen
  BY <1>9 DEF Reopen
<1>10. CASE Write
  <2>1. 1 \in present /\ UNCHANGED present /\ step' = "idle"
    BY <1>10 DEF Write
  <2>2. \A i \in Instances : i # 1 => lines'[i] = lines[i]
    BY <1>10 DEF Write
  <2>. QED  BY <2>1, <2>2
<1>11. CASE DropMessage
  BY <1>11 DEF DropMessage
<1>12. CASE UNCHANGED logVars
  BY <1>12 DEF logVars
<1>. QED
  BY <1>1, <1>2, <1>3, <1>4, <1>5, <1>6, <1>7, <1>8, <1>9, <1>10, <1>11,
     <1>12
  DEF LogNext, AuditRequest, AppendDeduplicated

(* A line is written where there is room for it, or into an empty file.    *)
LEMMA EmptySmall == \A bytes : Small(<<>>, bytes)
BY DEF Small

LEMMA BoundStep ==
    FileInv /\ Bounded /\ RoomForLine /\ [LogNext]_logVars
        => (Bounded /\ RoomForLine)'
<1>. SUFFICES ASSUME FileInv, Bounded, RoomForLine, [LogNext]_logVars
              PROVE  (Bounded /\ RoomForLine)'
  OBVIOUS
<1>. USE DEF FileInv, LogTypeOK, NothingOverwritten, Bounded, RoomForLine,
         fileVars
<1>. 1 \in Instances /\ LogFilesCount \in Instances
  BY CountAssumption DEF Instances
<1>1. CASE InitFiles
  BY <1>1 DEF InitFiles
<1>2. CASE Crash
  <2>1. UNCHANGED <<lines, size, msg>> /\ step' = "down"
    BY <1>2 DEF Crash
  <2>2. failed => failed'
    BY <1>2 DEF Crash
  <2>. QED  BY <2>1, <2>2
<1>3. ASSUME NEW t \in Texts, NEW d \in BOOLEAN, Open(t, d) PROVE (Bounded /\ RoomForLine)'
  BY <1>3 DEF Open
<1>4. CASE Check
  <2>1. UNCHANGED <<lines, size, msg, failed>>
    BY <1>4 DEF Check
  <2>2. step' # "reopen"
    BY <1>4 DEF Check
  <2>3. step' = "write" => size[1] + Length[msg.text] < MaxFileBytes
    <3>. SUFFICES ASSUME step' = "write" PROVE size[1] + Length[msg.text] < MaxFileBytes
      OBVIOUS
    <3>1. ~LogFileSizeExceeded
      BY <1>4 DEF Check
    <3>2. msg.text \in Texts
      BY <1>4 DEF Check, Message
    <3>. QED  BY <3>1, <3>2, LengthAssumption, BytesAssumption DEF LogFileSizeExceeded
  <2>. QED  BY <2>1, <2>2, <2>3
<1>5. CASE RemoveLast
  <2>1. step' \in {"create", "rename"} /\ UNCHANGED <<msg, failed>>
    BY <1>5 DEF RemoveLast
  <2>2. /\ lines' = [lines EXCEPT ![LogFilesCount] = <<>>]
        /\ size' = [size EXCEPT ![LogFilesCount] = 0]
    BY <1>5 DEF RemoveLast
  <2>3. /\ lines'[LogFilesCount] = <<>>
        /\ \A i \in Instances \ {LogFilesCount} :
             lines'[i] = lines[i] /\ size'[i] = size[i]
    BY <2>2
  <2>4. Bounded'
    BY <2>1, <2>3, EmptySmall, ZenonT(60)
  <2>. QED  BY <2>1, <2>4
<1>6. CASE Rename
  <2>1. inst \in Instances /\ inst - 1 \in Instances /\ inst # inst - 1 /\ inst # 1
    BY <1>6, SMTT(60) DEF Rename, Instances
  <2>2. step' \in {"create", "rename"} /\ UNCHANGED <<msg, failed>>
    BY <1>6 DEF Rename
  <2>3. CASE inst - 1 \in present
    <3>1. lines' = [lines EXCEPT ![inst] = lines[inst - 1], ![inst - 1] = <<>>]
      BY <1>6, <2>3 DEF Rename
    <3>2. size' = [size EXCEPT ![inst] = size[inst - 1], ![inst - 1] = 0]
      BY <1>6, <2>3 DEF Rename
    <3>3. /\ lines'[inst] = lines[inst - 1] /\ lines'[inst - 1] = <<>>
          /\ size'[inst] = size[inst - 1]
          /\ \A i \in Instances \ {inst, inst - 1} :
               lines'[i] = lines[i] /\ size'[i] = size[i]
      BY <2>1, <3>1, <3>2
    <3>4. Bounded'
      BY <2>1, <2>2, <3>3, EmptySmall, Zenon
    <3>. QED  BY <2>2, <3>4
  <2>4. CASE inst - 1 \notin present
    <3>1. UNCHANGED <<lines, size>>
      BY <1>6, <2>4 DEF Rename
    <3>. QED  BY <2>2, <3>1
  <2>. QED  BY <2>3, <2>4
<1>7. CASE CreateFirst
  <2>1. step' = "reopen" /\ UNCHANGED <<msg, failed>>
    BY <1>7 DEF CreateFirst
  <2>2. /\ lines' = [lines EXCEPT ![1] = <<>>]
        /\ size' = [size EXCEPT ![1] = 0]
    BY <1>7 DEF CreateFirst
  <2>3. /\ lines'[1] = <<>>
        /\ \A i \in Instances \ {1} : lines'[i] = lines[i] /\ size'[i] = size[i]
    BY <2>2
  <2>4. Bounded'
    BY <2>1, <2>3, EmptySmall, Zenon
  <2>. QED  BY <2>1, <2>3, <2>4
<1>8. CASE RotationFails
  <2>1. failed'
    BY <1>8 DEF RotationFails
  <2>. QED  BY <2>1
<1>9. CASE Reopen
  BY <1>9 DEF Reopen
<1>10. CASE Write
  <2>1. step' = "idle" /\ UNCHANGED <<msg, failed>> /\ step = "write" /\ msg \in Message
    BY <1>10 DEF Write
  <2>2. lines[1] \in Seq(Message) /\ size[1] \in Nat
    OBVIOUS
  <2>3. /\ lines'[1] = Append(lines[1], msg) /\ size'[1] = size[1] + Length[msg.text]
        /\ \A i \in Instances \ {1} : lines'[i] = lines[i] /\ size'[i] = size[i]
    BY <1>10 DEF Write
  <2>4. failed \/ Small(lines'[1], size'[1])
    <3>1. CASE failed
      BY <3>1
    <3>2. CASE size[1] + Length[msg.text] < MaxFileBytes
      BY <2>3, <3>2 DEF Small
    <3>3. CASE lines[1] = <<>>
      BY <2>1, <2>3, <3>3 DEF Small
    <3>. QED  BY <2>1, <3>1, <3>2, <3>3
  <2>. QED  BY <2>1, <2>3, <2>4
<1>11. CASE DropMessage
  BY <1>11 DEF DropMessage
<1>12. CASE UNCHANGED logVars
  BY <1>12 DEF logVars
<1>. QED
  BY <1>1, <1>2, <1>3, <1>4, <1>5, <1>6, <1>7, <1>8, <1>9, <1>10, <1>11,
     <1>12
  DEF LogNext, AuditRequest, AppendDeduplicated

(* NoRepeatedLine looks at one file at a time.                             *)
LEMMA RepeatedIn ==
    NoRepeatedLine => \A i \in Instances : Differs(lines[i])
BY DEF NoRepeatedLine, Differs

LEMMA NoneRepeated == Differs(<<>>)
BY DEF Differs

(* A line still differs from the last one when it is written.              *)
LEMMA RepeatStep ==
    FileInv /\ NoRepeatedLine /\ StillDiffers /\ [LogNext]_logVars
        => (NoRepeatedLine /\ StillDiffers)'
<1>. SUFFICES ASSUME FileInv, NoRepeatedLine, StillDiffers, [LogNext]_logVars
              PROVE  (NoRepeatedLine /\ StillDiffers)'
  OBVIOUS
<1>. USE DEF FileInv, LogTypeOK, fileVars
<1>. 1 \in Instances /\ LogFilesCount \in Instances
  BY CountAssumption DEF Instances
<1>1. CASE InitFiles
  <2>1. UNCHANGED lines /\ step' \in {"down", "idle"}
    BY <1>1 DEF InitFiles
  <2>. QED  BY <2>1 DEF StillDiffers, NoRepeatedLine, PastCheck
<1>2. CASE Crash
  <2>1. UNCHANGED lines /\ step' \in {"down", "idle"}
    BY <1>2 DEF Crash
  <2>. QED  BY <2>1 DEF StillDiffers, NoRepeatedLine, PastCheck
<1>3. ASSUME NEW t \in Texts, NEW d \in BOOLEAN, Open(t, d) PROVE (NoRepeatedLine /\ StillDiffers)'
  <2>1. UNCHANGED lines /\ step' = "check"
    BY <1>3 DEF Open
  <2>. QED  BY <2>1 DEF StillDiffers, NoRepeatedLine, PastCheck
<1>4. CASE Check
  <2>1. UNCHANGED <<lines, msg>>
    BY <1>4 DEF Check
  <2>2. PastCheck' => ShouldBeAppended
    BY <1>4 DEF Check, PastCheck
  <2>. QED  BY <2>1, <2>2 DEF StillDiffers, NoRepeatedLine, ShouldBeAppended
<1>5. CASE RemoveLast
  <2>1. PastCheck /\ UNCHANGED msg
    BY <1>5 DEF RemoveLast, PastCheck
  <2>2. lines' = [lines EXCEPT ![LogFilesCount] = <<>>]
    BY <1>5 DEF RemoveLast
  <2>3. \A i \in Instances : lines'[i] = <<>> \/ lines'[i] = lines[i]
    BY <2>2
  <2>4. \A i \in Instances : Differs(lines'[i])
    BY <2>3, RepeatedIn, NoneRepeated
  <2>5. NoRepeatedLine'
    BY <2>4 DEF NoRepeatedLine, Differs
  <2>. QED  BY <2>1, <2>3, <2>5 DEF StillDiffers
<1>6. CASE Rename
  <2>1. inst \in Instances /\ inst - 1 \in Instances /\ inst # inst - 1 /\ inst # 1
    BY <1>6 DEF Rename, Instances
  <2>2. PastCheck /\ UNCHANGED msg
    BY <1>6 DEF Rename, PastCheck
  <2>3. CASE inst - 1 \in present
    <3>1. lines' = [lines EXCEPT ![inst] = lines[inst - 1], ![inst - 1] = <<>>]
      BY <1>6, <2>3 DEF Rename
    <3>2. /\ lines'[inst] = lines[inst - 1] /\ lines'[inst - 1] = <<>>
          /\ \A i \in Instances \ {inst, inst - 1} : lines'[i] = lines[i]
      BY <2>1, <3>1
    <3>3. \A i \in Instances : Differs(lines'[i])
      BY <2>1, <3>2, RepeatedIn, NoneRepeated
    <3>4. lines'[1] = <<>> \/ lines'[1] = lines[1]
      BY <2>1, <3>2
    <3>5. NoRepeatedLine'
      BY <3>3 DEF NoRepeatedLine, Differs
    <3>. QED  BY <2>2, <3>4, <3>5 DEF StillDiffers
  <2>4. CASE inst - 1 \notin present
    <3>1. UNCHANGED lines
      BY <1>6, <2>4 DEF Rename
    <3>. QED  BY <2>2, <3>1 DEF StillDiffers, NoRepeatedLine
  <2>. QED  BY <2>3, <2>4
<1>7. CASE CreateFirst
  <2>1. PastCheck /\ UNCHANGED msg
    BY <1>7 DEF CreateFirst, PastCheck
  <2>2. lines' = [lines EXCEPT ![1] = <<>>]
    BY <1>7 DEF CreateFirst
  <2>3. \A i \in Instances : lines'[i] = <<>> \/ lines'[i] = lines[i]
    BY <2>2
  <2>4. \A i \in Instances : Differs(lines'[i])
    BY <2>3, RepeatedIn, NoneRepeated
  <2>5. NoRepeatedLine'
    BY <2>4 DEF NoRepeatedLine, Differs
  <2>. QED  BY <2>1, <2>3, <2>5 DEF StillDiffers
<1>8. CASE RotationFails
  <2>1. UNCHANGED <<lines, msg>> /\ PastCheck
    BY <1>8 DEF RotationFails, PastCheck
  <2>. QED  BY <2>1 DEF StillDiffers, NoRepeatedLine
<1>9. CASE Reopen
  <2>1. UNCHANGED <<lines, msg>> /\ PastCheck
    BY <1>9 DEF Reopen, PastCheck
  <2>. QED  BY <2>1 DEF StillDiffers, NoRepeatedLine
<1>10. CASE Write
  <2>1. step' = "idle" /\ PastCheck /\ msg \in Message
    BY <1>10 DEF Write, PastCheck
  <2>2. ~PastCheck'
    BY <2>1 DEF PastCheck
  <2>3. /\ lines'[1] = Append(lines[1], msg)
        /\ \A i \in Instances \ {1} : lines'[i] = lines[i]
    BY <1>10 DEF Write
  <2>4. \A k \in DOMAIN lines'[1] :
          k > 1 /\ lines'[1][k].deduplicate => lines'[1][k].text # lines'[1][k - 1].text
    <3>. DEFINE old == lines[1]
                new == Append(old, msg)
    <3>1. old \in Seq(Message)
      OBVIOUS
    <3>2. \A k \in DOMAIN old :
            k > 1 /\ old[k].deduplicate => old[k].text # old[k - 1].text
      BY DEF NoRepeatedLine
    <3>3. msg.deduplicate => old = <<>> \/ old[Len(old)].text # msg.text
      BY <2>1 DEF StillDiffers, Last
    <3>. HIDE DEF old
    <3>4. ASSUME NEW k \in DOMAIN new, k > 1, new[k].deduplicate
          PROVE  new[k].text # new[k - 1].text
      <4>1. CASE k = Len(old) + 1
        <5>1. new[k] = msg /\ new[k - 1] = old[Len(old)] /\ old # <<>>
          BY <2>1, <3>1, <3>4, <4>1
        <5>. QED  BY <3>3, <3>4, <5>1
      <4>2. CASE k # Len(old) + 1
        <5>1. new[k] = old[k] /\ new[k - 1] = old[k - 1] /\ k \in DOMAIN old
          BY <2>1, <3>1, <3>4, <4>2, SMTT(60)
        <5>. HIDE DEF new
        <5>. QED  BY <3>2, <3>4, <5>1
      <4>. QED  BY <4>1, <4>2
    <3>. QED  BY <2>3, <3>4 DEF old
  <2>5. NoRepeatedLine'
    <3>1. \A i \in Instances : Differs(lines'[i])
      <4>1. Differs(lines'[1])
        BY <2>4 DEF Differs
      <4>. QED  BY <2>3, <4>1, RepeatedIn
    <3>. QED  BY <3>1 DEF NoRepeatedLine, Differs
  <2>. QED  BY <2>2, <2>5 DEF StillDiffers
<1>11. CASE DropMessage
  <2>1. UNCHANGED lines /\ step' \in {"down", "idle"}
    BY <1>11 DEF DropMessage
  <2>. QED  BY <2>1 DEF StillDiffers, NoRepeatedLine, PastCheck
<1>12. CASE UNCHANGED logVars
  <2>1. UNCHANGED <<lines, msg, step>>
    BY <1>12 DEF logVars
  <2>. QED  BY <2>1 DEF StillDiffers, NoRepeatedLine, PastCheck
<1>. QED
  BY <1>1, <1>2, <1>3, <1>4, <1>5, <1>6, <1>7, <1>8, <1>9, <1>10, <1>11,
     <1>12
  DEF LogNext, AuditRequest, AppendDeduplicated

----------------------------------------------------------------------------
(* The whole log, of any contents of the files.                            *)
FilesOf(l) == [i \in Instances |-> l[LogFilesCount + 1 - i]]
WholeOf(l) == FlattenSeq(FilesOf(l))

LEMMA FilesOfIs ==
    ASSUME NEW l \in [Instances -> Seq(Message)]
    PROVE  /\ FilesOf(l) \in [1 .. LogFilesCount -> Seq(Message)]
           /\ \A i \in Instances : LogFilesCount + 1 - i \in Instances
                                   /\ FilesOf(l)[i] = l[LogFilesCount + 1 - i]
<1>1. \A i \in Instances : LogFilesCount + 1 - i \in Instances
  BY CountAssumption DEF Instances
<1>2. \A i \in Instances : l[LogFilesCount + 1 - i] \in Seq(Message)
  BY <1>1
<1>. QED  BY <1>1, <1>2 DEF FilesOf, Instances

LEMMA WholeIs ==
    ASSUME NEW l \in [Instances -> Seq(Message)]
    PROVE  /\ \E f : /\ Flattens(Message, LogFilesCount, FilesOf(l), f)
                     /\ WholeOf(l) = f[LogFilesCount]
           /\ WholeOf(l) \in Seq(Message)
<1>. DEFINE s == FilesOf(l)
<1>1. s \in [1 .. LogFilesCount -> Seq(Message)]
  BY FilesOfIs
<1>. HIDE DEF s
<1>2. PICK f : Flattens(Message, LogFilesCount, s, f) /\ FlattenSeq(s) = f[LogFilesCount]
  BY <1>1, CountAssumption, FlattenSeqIs
<1>3. f[LogFilesCount] \in Seq(Message)
  BY <1>2, CountAssumption DEF Flattens, FlattensTo
<1>. QED  BY <1>2, <1>3 DEF s, WholeOf

(* A line appended to the first file is appended to the whole log.         *)
LEMMA WholeAppend ==
    ASSUME NEW l \in [Instances -> Seq(Message)],
           NEW k \in [Instances -> Seq(Message)], NEW m \in Message,
           k[1] = Append(l[1], m), \A i \in Instances \ {1} : k[i] = l[i]
    PROVE  WholeOf(k) = Append(WholeOf(l), m)
<1>. DEFINE s == FilesOf(l)
            t == FilesOf(k)
            n == LogFilesCount
<1>1. t[n] = Append(s[n], m)
  <2>1. n \in Instances /\ n + 1 - n = 1
    BY CountAssumption DEF Instances
  <2>. QED  BY <2>1, FilesOfIs, ZenonT(60)
<1>2. \A i \in 1 .. n - 1 : t[i] = s[i]
  <2>. TAKE i \in 1 .. n - 1
  <2>. DEFINE x == n + 1 - i
  <2>1. i \in Instances /\ x \in Instances \ {1}
    BY CountAssumption DEF Instances
  <2>2. s[i] = l[x] /\ t[i] = k[x]
    BY <2>1, FilesOfIs
  <2>. HIDE DEF x
  <2>. QED  BY <2>1, <2>2
<1>3. PICK f : Flattens(Message, n, s, f) /\ WholeOf(l) = f[n]
  BY WholeIs
<1>4. PICK g : Flattens(Message, n, t, g) /\ WholeOf(k) = g[n]
  BY WholeIs
<1>. HIDE DEF s, t, n
<1>5. LastAppended(n, s, t, m)
  BY <1>1, <1>2, Zenon DEF LastAppended
<1>6. g[n] = Append(f[n], m)
  BY <1>3, <1>4, <1>5, FlattensAppend
<1>. QED  BY <1>3, <1>4, <1>6

(* Emptying the last file takes its lines off the beginning.               *)
LEMMA WholeDrop ==
    ASSUME NEW l \in [Instances -> Seq(Message)],
           NEW k \in [Instances -> Seq(Message)],
           k[LogFilesCount] = <<>>,
           \A i \in Instances \ {LogFilesCount} : k[i] = l[i]
    PROVE  WholeOf(l) = l[LogFilesCount] \o WholeOf(k)
<1>. DEFINE s == FilesOf(l)
            t == FilesOf(k)
            n == LogFilesCount
<1>1. t[1] = <<>> /\ s[1] = l[n]
  <2>1. 1 \in Instances /\ n + 1 - 1 = n
    BY CountAssumption DEF Instances
  <2>2. t[1] = k[n + 1 - 1] /\ s[1] = l[n + 1 - 1]
    BY <2>1, FilesOfIs
  <2>. QED  BY <2>1, <2>2
<1>2. \A i \in 2 .. n : t[i] = s[i]
  <2>. TAKE i \in 2 .. n
  <2>1. i \in Instances /\ n + 1 - i # n /\ n + 1 - i \in Instances
    BY CountAssumption DEF Instances
  <2>2. t[i] = k[n + 1 - i] /\ s[i] = l[n + 1 - i]
    BY <2>1, FilesOfIs
  <2>. QED  BY <2>1, <2>2
<1>3. PICK f : Flattens(Message, n, s, f) /\ WholeOf(l) = f[n]
  BY WholeIs
<1>4. PICK g : Flattens(Message, n, t, g) /\ WholeOf(k) = g[n]
  BY WholeIs
<1>. HIDE DEF s, t, n
<1>5. FirstEmptied(n, s, t)
  BY <1>1, <1>2, Zenon DEF FirstEmptied
<1>6. Joins(s[1], g[n], f[n])
  BY <1>3, <1>4, <1>5, FlattensDropFirst
<1>. QED  BY <1>1, <1>3, <1>4, <1>6 DEF n, Joins

(* A file moved into the place of an empty one keeps its place in the log. *)
LEMMA WholeMove ==
    ASSUME NEW l \in [Instances -> Seq(Message)],
           NEW k \in [Instances -> Seq(Message)],
           NEW i \in 2 .. LogFilesCount,
           l[i] = <<>>, k[i] = l[i - 1], k[i - 1] = <<>>,
           \A x \in Instances \ {i, i - 1} : k[x] = l[x]
    PROVE  WholeOf(k) = WholeOf(l)
<1>. DEFINE s == FilesOf(l)
            t == FilesOf(k)
            n == LogFilesCount
            j == n + 1 - i
<1>0. /\ j \in 1 .. n - 1 /\ j \in Instances /\ j + 1 \in Instances
      /\ n + 1 - j = i /\ n + 1 - (j + 1) = i - 1
  BY CountAssumption DEF Instances
<1>. HIDE DEF j
<1>1. s[j] = <<>> /\ t[j] = s[j + 1] /\ t[j + 1] = <<>>
  <2>1. s[j] = l[n + 1 - j] /\ t[j] = k[n + 1 - j]
    BY <1>0, FilesOfIs
  <2>2. s[j + 1] = l[n + 1 - (j + 1)] /\ t[j + 1] = k[n + 1 - (j + 1)]
    BY <1>0, FilesOfIs
  <2>. QED  BY <1>0, <2>1, <2>2
<1>2. \A x \in 1 .. n : x \notin {j, j + 1} => t[x] = s[x]
  <2>. TAKE x \in 1 .. n
  <2>. HAVE x \notin {j, j + 1}
  <2>1. x \in Instances /\ n + 1 - x \in Instances /\ n + 1 - x # i /\ n + 1 - x # i - 1
    BY CountAssumption DEF Instances, j
  <2>2. t[x] = k[n + 1 - x] /\ s[x] = l[n + 1 - x]
    BY <2>1, FilesOfIs
  <2>. QED  BY <2>1, <2>2
<1>3. PICK f : Flattens(Message, n, s, f) /\ WholeOf(l) = f[n]
  BY WholeIs
<1>4. PICK g : Flattens(Message, n, t, g) /\ WholeOf(k) = g[n]
  BY WholeIs
<1>. HIDE DEF s, t, n
<1>5. g[n] = f[n]
  BY <1>0, <1>1, <1>2, <1>3, <1>4, FlattensMove
<1>. QED  BY <1>3, <1>4, <1>5

(* Empty files, an empty log.                                              *)
LEMMA WholeEmpty ==
    ASSUME NEW l \in [Instances -> Seq(Message)], \A i \in Instances : l[i] = <<>>
    PROVE  WholeOf(l) = <<>>
<1>. DEFINE s == FilesOf(l)
            n == LogFilesCount
<1>1. \A i \in 1 .. n : s[i] = <<>>
  BY FilesOfIs DEF Instances
<1>2. PICK f : Flattens(Message, n, s, f) /\ WholeOf(l) = f[n]
  BY WholeIs
<1>. HIDE DEF s, n
<1>3. \A i \in 1 .. n : Range(s[i]) = {}
  BY <1>1 DEF Range
<1>4. Range(f[n]) = {}
  BY <1>2, <1>3, FlattensElements, SMTT(60)
<1>5. f[n] \in Seq(Message)
  BY <1>2, WholeIs
<1>6. f[n] = <<>>
  <2>. DEFINE w == f[n]
  <2>. HIDE DEF w
  <2>1. w \in Seq(Message) /\ Range(w) = {}
    BY <1>4, <1>5 DEF w
  <2>2. Len(w) = 0
    BY <2>1 DEF Range
  <2>3. w = <<>>
    BY <2>1, <2>2
  <2>. QED  BY <2>3 DEF w
<1>. QED  BY <1>2, <1>6

(* What a step does to the whole log.                                      *)
LEMMA LogIsWhole == WholeLog = WholeOf(lines)
BY DEF WholeLog, WholeOf, FilesOf

LEMMA LogIsWholeNext == WholeLog' = WholeOf(lines')
BY DEF WholeLog, WholeOf, FilesOf

LEMMA LogWritten ==
    ASSUME FileInv, LogTypeOK', Write
    PROVE  msg \in Message /\ WholeLog' = Append(WholeLog, msg)
<1>0. 1 \in Instances
  BY CountAssumption DEF Instances
<1>1. /\ msg \in Message /\ lines \in [Instances -> Seq(Message)]
      /\ lines' \in [Instances -> Seq(Message)]
  BY DEF FileInv, LogTypeOK, Write
<1>2. lines'[1] = Append(lines[1], msg) /\ \A i \in Instances \ {1} : lines'[i] = lines[i]
  BY <1>0, <1>1 DEF Write
<1>3. WholeOf(lines') = Append(WholeOf(lines), msg)
  BY <1>1, <1>2, WholeAppend
<1>. QED  BY <1>1, <1>3, LogIsWhole, LogIsWholeNext

LEMMA LogShortened ==
    ASSUME FileInv, LogTypeOK', RemoveLast
    PROVE  WholeLog = lines[LogFilesCount] \o WholeLog'
<1>0. LogFilesCount \in Instances
  BY CountAssumption DEF Instances
<1>1. /\ lines \in [Instances -> Seq(Message)]
      /\ lines' \in [Instances -> Seq(Message)]
  BY DEF FileInv, LogTypeOK
<1>2. /\ lines'[LogFilesCount] = <<>>
      /\ \A i \in Instances \ {LogFilesCount} : lines'[i] = lines[i]
  BY <1>0, <1>1 DEF RemoveLast
<1>3. WholeOf(lines) = lines[LogFilesCount] \o WholeOf(lines')
  BY <1>1, <1>2, WholeDrop
<1>. QED  BY <1>3, LogIsWhole, LogIsWholeNext

LEMMA LogKept ==
    ASSUME FileInv, LogTypeOK', Rename \/ CreateFirst
    PROVE  WholeLog' = WholeLog
<1>0. 1 \in Instances
  BY CountAssumption DEF Instances
<1>1. /\ lines \in [Instances -> Seq(Message)]
      /\ lines' \in [Instances -> Seq(Message)]
  BY DEF FileInv, LogTypeOK
<1>2. CASE Rename
  <2>1. CASE inst - 1 \in present
    <3>1. inst \in 2 .. LogFilesCount /\ inst \in Instances /\ inst - 1 \in Instances
      BY <1>2, CountAssumption DEF FileInv, LogTypeOK, Rename, Instances
    <3>2. lines[inst] = <<>>
      BY <1>2 DEF FileInv, NothingOverwritten, Rename
    <3>3. lines' = [lines EXCEPT ![inst] = lines[inst - 1], ![inst - 1] = <<>>]
      BY <1>2, <2>1 DEF Rename
    <3>4. inst # inst - 1
      BY <3>1
    <3>5. /\ lines'[inst] = lines[inst - 1] /\ lines'[inst - 1] = <<>>
          /\ \A x \in Instances \ {inst, inst - 1} : lines'[x] = lines[x]
      BY <1>1, <3>1, <3>3, <3>4
    <3>6. WholeOf(lines') = WholeOf(lines)
      BY <1>1, <3>1, <3>2, <3>5, WholeMove
    <3>. QED  BY <3>6, LogIsWhole, LogIsWholeNext
  <2>2. CASE inst - 1 \notin present
    <3>1. lines' = lines
      BY <1>2, <2>2 DEF Rename, fileVars
    <3>. QED  BY <3>1, LogIsWhole, LogIsWholeNext
  <2>. QED  BY <2>1, <2>2
<1>3. CASE CreateFirst
  <2>1. lines[1] = <<>>
    BY <1>3 DEF FileInv, NothingOverwritten, CreateFirst
  <2>2. lines' = [lines EXCEPT ![1] = <<>>]
    BY <1>3 DEF CreateFirst
  <2>3. lines' = lines
    BY <1>0, <1>1, <2>1, <2>2
  <2>. QED  BY <2>3, LogIsWhole, LogIsWholeNext
<1>. QED  BY <1>2, <1>3

LEMMA LogSame ==
    ASSUME UNCHANGED lines
    PROVE  WholeLog' = WholeLog
BY LogIsWhole, LogIsWholeNext

LEMMA ToSetIsRange == \A w : ToSet(w) = Range(w)
BY DEF ToSet, Range

(* The calls whose messages are in a log.                                  *)
LEMMA IdsOfAppend ==
    ASSUME NEW w \in Seq(Message), NEW m \in Message
    PROVE  IdsOf(Append(w, m)) = IdsOf(w) \union {m.id}
<1>1. Append(w, m) = w \o <<m>> /\ <<m>> \in Seq(Message)
  BY AppendIsConcat
<1>2. Range(w \o <<m>>) = Range(w) \union Range(<<m>>)
  BY <1>1, RangeConcatenation, ZenonT(60)
<1>3. Range(<<m>>) = {m}
  BY DEF Range
<1>4. Range(Append(w, m)) = Range(w) \union {m}
  BY <1>1, <1>2, <1>3
<1>. QED  BY <1>4, ToSetIsRange DEF IdsOf

LEMMA IdsOfConcat ==
    ASSUME NEW v \in Seq(Message), NEW w \in Seq(Message)
    PROVE  IdsOf(v \o w) = IdsOf(v) \union IdsOf(w)
<1>1. Range(v \o w) = Range(v) \union Range(w)
  BY RangeConcatenation
<1>. QED  BY <1>1, ToSetIsRange, Zenon DEF IdsOf

(* A call's message is in progress, or in the log, or known to be gone.    *)
LEMMA CallStep ==
    FileInv /\ LogTypeOK' /\ LastCall /\ EveryCallLogged /\ [LogNext]_logVars
        => (LastCall /\ EveryCallLogged)'
<1>. SUFFICES ASSUME FileInv, LogTypeOK', LastCall, EveryCallLogged,
                    [LogNext]_logVars
              PROVE  (LastCall /\ EveryCallLogged)'
  OBVIOUS
<1>w. WholeLog \in Seq(Message) /\ WholeLog' \in Seq(Message)
  <2>1. WholeOf(lines) \in Seq(Message) /\ WholeOf(lines') \in Seq(Message)
    BY WholeIs DEF FileInv, LogTypeOK
  <2>. QED  BY <2>1, LogIsWhole, LogIsWholeNext
<1>i. \A x \in IdsOf(WholeLog) : x \in Int
  <2>1. \A m \in ToSet(WholeLog) : m \in Message
    BY <1>w DEF ToSet
  <2>. QED  BY <2>1 DEF IdsOf, Message
<1>c. calls \in Nat /\ LogTypeOK
  BY CallsAssumption DEF FileInv, LogTypeOK
<1>1. CASE InitFiles
  <2>1. UNCHANGED <<lines, msg, calls, gone>> /\ step' = "idle" /\ step = "down"
    BY <1>1 DEF InitFiles, fileVars
  <2>2. WholeLog' = WholeLog
    BY <2>1, LogSame
  <2>. QED  BY <2>1, <2>2 DEF LastCall, EveryCallLogged, InCall, InProgress
<1>2. CASE Crash
  <2>1. /\ UNCHANGED <<lines, msg, calls>> /\ ~InCall' /\ step # "down"
        /\ gone' = gone \union (IF step = "idle" THEN {} ELSE {msg.id})
    BY <1>2 DEF Crash, fileVars, InCall
  <2>2. WholeLog' = WholeLog
    BY <2>1, LogSame
  <2>3. gone' = gone \union InProgress /\ InProgress' = {}
    BY <2>1 DEF InProgress, InCall
  <2>. QED  BY <2>1, <2>2, <2>3 DEF LastCall, EveryCallLogged
<1>3. ASSUME NEW t \in Texts, NEW d \in BOOLEAN, Open(t, d) PROVE (LastCall /\ EveryCallLogged)'
  <2>1. /\ UNCHANGED <<lines, gone>> /\ ~InCall /\ InCall'
        /\ calls' = calls + 1 /\ msg'.id = calls'
    BY <1>3 DEF Open, InCall
  <2>2. WholeLog' = WholeLog
    BY <2>1, LogSame
  <2>3. InProgress = {} /\ InProgress' = {calls + 1}
    BY <2>1 DEF InProgress, InCall
  <2>4. \A x \in IdsOf(WholeLog) : x \in Int /\ x <= calls
    BY <1>i DEF LastCall
  <2>5. LastCall'
    <3>1. \A x \in IdsOf(WholeLog) : x <= calls + 1 /\ x < calls + 1
      BY <1>c, <2>4
    <3>. QED  BY <2>1, <2>2, <3>1 DEF LastCall
  <2>6. 1 .. calls + 1 = (1 .. calls) \union {calls + 1}
    BY <1>c
  <2>7. EveryCallLogged'
    <3>1. 1 .. calls = gone \union IdsOf(WholeLog)
      BY <2>3 DEF EveryCallLogged, IdsOf
    <3>2. 1 .. calls' = InProgress' \union gone' \union IdsOf(WholeLog')
      BY <2>1, <2>2, <2>3, <2>6, <3>1
    <3>. QED  BY <3>2 DEF EveryCallLogged, IdsOf
  <2>. QED  BY <2>5, <2>7
<1>4. CASE Check
  <2>1. /\ UNCHANGED <<lines, msg, calls>> /\ InCall
        /\ \/ InCall' /\ gone' = gone
           \/ ~InCall' /\ gone' = gone \union {msg.id}
    BY <1>4 DEF Check, fileVars, InCall
  <2>2. WholeLog' = WholeLog
    BY <2>1, LogSame
  <2>. QED  BY <2>1, <2>2 DEF LastCall, EveryCallLogged, InCall, InProgress
<1>5. CASE RemoveLast
  <2>1. /\ UNCHANGED <<msg, calls>> /\ InCall /\ InCall'
        /\ gone' = gone \union IdsOf(lines[LogFilesCount])
    BY <1>5 DEF RemoveLast, InCall, IdsOf
  <2>2. WholeLog = lines[LogFilesCount] \o WholeLog'
    BY <1>5, LogShortened
  <2>3. IdsOf(WholeLog) = IdsOf(lines[LogFilesCount]) \union IdsOf(WholeLog')
    <3>1. lines[LogFilesCount] \in Seq(Message) /\ WholeLog' \in Seq(Message)
      BY <1>c, <1>w, CountAssumption DEF LogTypeOK, Instances
    <3>. QED  BY <2>2, <3>1, IdsOfConcat
  <2>4. LastCall'
    BY <2>1, <2>3 DEF LastCall
  <2>5. InProgress' = InProgress
    BY <2>1 DEF InProgress, InCall
  <2>6. EveryCallLogged'
    <3>1. 1 .. calls = InProgress \union gone \union IdsOf(WholeLog)
      BY DEF EveryCallLogged, IdsOf
    <3>2. 1 .. calls' = InProgress' \union gone' \union IdsOf(WholeLog')
      BY <2>1, <2>3, <2>5, <3>1
    <3>. QED  BY <3>2 DEF EveryCallLogged, IdsOf
  <2>. QED  BY <2>4, <2>6
<1>6. CASE Rename
  <2>1. UNCHANGED <<msg, calls, gone>> /\ InCall /\ InCall'
    BY <1>6 DEF Rename, InCall
  <2>2. WholeLog' = WholeLog
    BY <1>6, LogKept
  <2>. QED  BY <2>1, <2>2 DEF LastCall, EveryCallLogged, InCall, InProgress
<1>7. CASE CreateFirst
  <2>1. UNCHANGED <<msg, calls, gone>> /\ InCall /\ InCall'
    BY <1>7 DEF CreateFirst, InCall
  <2>2. WholeLog' = WholeLog
    BY <1>7, LogKept
  <2>. QED  BY <2>1, <2>2 DEF LastCall, EveryCallLogged, InCall, InProgress
<1>8. CASE RotationFails
  <2>1. UNCHANGED <<lines, msg, calls, gone>> /\ InCall /\ InCall'
    BY <1>8 DEF RotationFails, InCall, fileVars
  <2>2. WholeLog' = WholeLog
    BY <2>1, LogSame
  <2>. QED  BY <2>1, <2>2 DEF LastCall, EveryCallLogged, InCall, InProgress
<1>9. CASE Reopen
  <2>1. UNCHANGED <<lines, msg, calls, gone>> /\ InCall /\ InCall'
    BY <1>9 DEF Reopen, InCall, fileVars
  <2>2. WholeLog' = WholeLog
    BY <2>1, LogSame
  <2>. QED  BY <2>1, <2>2 DEF LastCall, EveryCallLogged, InCall, InProgress
<1>10. CASE Write
  <2>1. UNCHANGED <<msg, calls, gone>> /\ InCall /\ ~InCall'
    BY <1>10 DEF Write, InCall
  <2>2. msg \in Message /\ WholeLog' = Append(WholeLog, msg)
    BY <1>10, LogWritten
  <2>3. IdsOf(WholeLog') = IdsOf(WholeLog) \union {msg.id}
    BY <1>w, <2>2, IdsOfAppend
  <2>4. LastCall'
    BY <1>c, <2>1, <2>3 DEF LastCall
  <2>5. InProgress = {msg.id} /\ InProgress' = {}
    BY <2>1 DEF InProgress, InCall
  <2>6. EveryCallLogged'
    <3>1. 1 .. calls = InProgress \union gone \union IdsOf(WholeLog)
      BY DEF EveryCallLogged, IdsOf
    <3>2. 1 .. calls' = InProgress' \union gone' \union IdsOf(WholeLog')
      BY <2>1, <2>3, <2>5, <3>1
    <3>. QED  BY <3>2 DEF EveryCallLogged, IdsOf
  <2>. QED  BY <2>4, <2>6
<1>11. CASE DropMessage
  <2>1. /\ UNCHANGED <<lines, msg, calls>> /\ InCall /\ ~InCall'
        /\ gone' = gone \union {msg.id}
    BY <1>11 DEF DropMessage, fileVars, InCall
  <2>2. WholeLog' = WholeLog
    BY <2>1, LogSame
  <2>. QED  BY <2>1, <2>2 DEF LastCall, EveryCallLogged, InCall, InProgress
<1>12. CASE UNCHANGED logVars
  <2>1. UNCHANGED <<lines, msg, calls, gone, step>>
    BY <1>12 DEF logVars, fileVars
  <2>2. WholeLog' = WholeLog
    BY <2>1, LogSame
  <2>. QED  BY <2>1, <2>2 DEF LastCall, EveryCallLogged, InCall, InProgress
<1>. QED
  BY <1>1, <1>2, <1>3, <1>4, <1>5, <1>6, <1>7, <1>8, <1>9, <1>10, <1>11,
     <1>12
  DEF LogNext, AuditRequest, AppendDeduplicated

----------------------------------------------------------------------------
(* The theorems.                                                           *)

LEMMA InitHolds == LogInit => IInv
<1>. SUFFICES ASSUME LogInit PROVE IInv
  OBVIOUS
<1>1. FileInv
  <2>1. lines \in [Instances -> Seq(Message)] /\ size \in [Instances -> Nat]
    BY DEF LogInit
  <2>2. /\ present \subseteq Instances /\ gone \subseteq 1 .. MaxCalls
        /\ inst \in 0 .. LogFilesCount /\ calls \in 0 .. MaxCalls
        /\ step = "down" /\ msg = NoMessage
    BY CountAssumption, CallsAssumption DEF LogInit
  <2>3. failed \in BOOLEAN
    BY DEF LogInit
  <2>4. LogTypeOK
    BY <2>1, <2>2, <2>3, Zenon DEF LogTypeOK
  <2>. QED  BY <2>2, <2>4 DEF LogInit, FileInv, NothingOverwritten
<1>2. Bounded /\ RoomForLine /\ NoRepeatedLine /\ StillDiffers
  BY DEF LogInit, Bounded, Small, RoomForLine, NoRepeatedLine, StillDiffers, PastCheck
<1>3. WholeLog = <<>>
  <2>1. lines \in [Instances -> Seq(Message)] /\ \A i \in Instances : lines[i] = <<>>
    BY <1>1 DEF LogInit, FileInv, LogTypeOK
  <2>. QED  BY <2>1, WholeEmpty, LogIsWhole
<1>4. IdsOf(WholeLog) = {}
  BY <1>3 DEF IdsOf, ToSet
<1>5. LastCall /\ EveryCallLogged
  <2>1. ~InCall /\ InProgress = {} /\ gone = {} /\ 1 .. calls = {}
    BY DEF LogInit, InCall, InProgress
  <2>2. 1 .. calls = InProgress \union gone \union IdsOf(WholeLog)
    BY <1>4, <2>1
  <2>. QED  BY <1>4, <2>1, <2>2 DEF LastCall, EveryCallLogged, IdsOf
<1>. QED  BY <1>1, <1>2, <1>5 DEF IInv

LEMMA InvStep == IInv /\ [LogNext]_logVars => IInv'
BY TypeStep, OverwriteStep, BoundStep, RepeatStep, CallStep DEF IInv, FileInv

(* The inductive invariant holds in every reachable state.                 *)
THEOREM Invariance == LogSpec => []IInv
BY InitHolds, InvStep, PTL DEF LogSpec

(* No file outgrows maxFileBytes but by a single line, as long as every    *)
(* rotation goes through, for any number of files, any limit and lines of  *)
(* any length.                                                             *)
THEOREM FilesStayBounded == LogSpec => []FilesBounded
<1>1. IInv => FilesBounded
  BY DEF IInv, FileInv, FilesBounded, Bounded, Small
<1>. QED  BY <1>1, Invariance, PTL

(* A line appended with deduplication differs from the line before it,     *)
(* although a rotation, a failure or a kill can come between the           *)
(* comparison and the write.                                               *)
THEOREM NoLineIsRepeated == LogSpec => []NoRepeatedLine
<1>1. IInv => NoRepeatedLine
  BY DEF IInv
<1>. QED  BY <1>1, Invariance, PTL

(* Every call is in progress, in the log, or lost in one of the ways that  *)
(* Append reports, whichever rotation fails and wherever the process is    *)
(* killed.                                                                 *)
THEOREM EveryCallIsLogged == LogSpec => []EveryCallLogged
<1>1. IInv => EveryCallLogged
  BY DEF IInv
<1>. QED  BY <1>1, Invariance, PTL

(* A step adds the newest message at the end of the whole log, drops the   *)
(* oldest lines, or leaves it as it is.                                    *)
LEMMA PromiseStep == IInv /\ IInv' /\ [LogNext]_logVars => [Promise!Next]_WholeLog
<1>. SUFFICES ASSUME IInv, IInv', [LogNext]_logVars, WholeLog' # WholeLog
              PROVE  Promise!Next
  OBVIOUS
<1>1. FileInv /\ LogTypeOK /\ LogTypeOK' /\ LastCall
  BY DEF IInv, FileInv
<1>w. WholeLog \in Seq(Message) /\ WholeLog' \in Seq(Message)
  <2>1. WholeOf(lines) \in Seq(Message) /\ WholeOf(lines') \in Seq(Message)
    BY <1>1, WholeIs DEF LogTypeOK
  <2>. QED  BY <2>1, LogIsWhole, LogIsWholeNext
<1>2. Write \/ RemoveLast
  <2>1. CASE Rename \/ CreateFirst
    BY <1>1, <2>1, LogKept
  <2>2. CASE UNCHANGED lines
    BY <2>2, LogSame
  <2>. QED  BY <2>1, <2>2
    DEF LogNext, AuditRequest, AppendDeduplicated, InitFiles, Crash, Open, Check,
        RotationFails, Reopen, DropMessage, logVars, fileVars
<1>3. CASE Write
  <2>1. msg \in Message /\ WholeLog' = Append(WholeLog, msg)
    BY <1>1, <1>3, LogWritten
  <2>2. \A i \in DOMAIN WholeLog : WholeLog[i].id < msg.id
    <3>1. InCall
      BY <1>3 DEF Write, InCall
    <3>2. \A i \in DOMAIN WholeLog : WholeLog[i].id \in IdsOf(WholeLog)
      BY DEF IdsOf, ToSet
    <3>. QED  BY <1>1, <3>1, <3>2 DEF LastCall
  <2>3. Promise!Newer(msg)
    BY <2>2 DEF Promise!Newer
  <2>4. Promise!Add
    BY <2>1, <2>3 DEF Promise!Add
  <2>. QED  BY <2>4 DEF Promise!Next
<1>4. CASE RemoveLast
  <2>. DEFINE a == lines[LogFilesCount]
              b == WholeLog'
              c == WholeLog
  <2>1. c = a \o b
    BY <1>1, <1>4, LogShortened
  <2>2. a \in Seq(Message) /\ b \in Seq(Message)
    BY <1>1, <1>w, CountAssumption DEF LogTypeOK, Instances
  <2>3. b # c
    OBVIOUS
  <2>. HIDE DEF a, b, c
  <2>4. a # <<>>
    BY <2>1, <2>2, <2>3, ConcatEmptySeq
  <2>5. Len(a) \in DOMAIN c /\ Len(c) = Len(a) + Len(b)
    BY <2>1, <2>2, <2>4
  <2>6. b = SubSeq(c, Len(a) + 1, Len(c))
    <3>1. Len(SubSeq(c, Len(a) + 1, Len(c))) = Len(b)
      BY <2>1, <2>2, <2>5
    <3>. QED  BY <2>1, <2>2, <2>5, <3>1
  <2>7. Promise!DropOldest
    <3>1. \E n \in DOMAIN c : b = SubSeq(c, n + 1, Len(c))
      BY <2>5, <2>6
    <3>. QED  BY <3>1 DEF Promise!DropOldest, b, c
  <2>. QED  BY <2>7 DEF Promise!Next
<1>. QED  BY <1>2, <1>3, <1>4

(* The files are one bounded log, as BoundedLog promises: lines stay in    *)
(* the order of the calls and only the oldest are lost.                    *)
THEOREM BoundedLogIsImplemented == LogSpec => ImplementsBoundedLog
<1>1. LogInit => Promise!Init
  <2>. SUFFICES ASSUME LogInit PROVE WholeLog = <<>>
    BY DEF Promise!Init
  <2>1. lines \in [Instances -> Seq(Message)] /\ \A i \in Instances : lines[i] = <<>>
    BY InitHolds DEF LogInit, IInv, FileInv, LogTypeOK
  <2>. QED  BY <2>1, WholeEmpty, LogIsWhole
<1>. QED
  BY <1>1, PromiseStep, Invariance, PTL
  DEF LogSpec, ImplementsBoundedLog, Promise!Spec
==============================================================================
