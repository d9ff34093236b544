--------------------------- MODULE LogMirror_proof ---------------------------
(***************************************************************************)
(* Proofs about the mirror of a log and the console, for any number of     *)
(* messages and of rotations.                                              *)
(***************************************************************************)
EXTENDS Console, SequenceTheorems, WellFoundedInduction, TLAPS

----------------------------------------------------------------------------
(* Induction up to a limit: the least number outside the set would have a  *)
(* predecessor inside it.                                                  *)
LEMMA UpToInduction ==
    ASSUME NEW n \in Nat, NEW S, 0 \in S,
           \A i \in 0 .. n - 1 : i \in S => i + 1 \in S
    PROVE  \A i \in 0 .. n : i \in S
<1>. DEFINE R == {ss \in Nat \X Nat : ss[1] < ss[2]}
            C == {i \in 0 .. n : i \notin S}
<1>1. IsWellFoundedOn(R, Nat)
  BY NatLessThanWellFounded DEF OpToRel
<1>2. SUFFICES ASSUME C # {} PROVE FALSE
  OBVIOUS
<1>3. C \subseteq Nat
  OBVIOUS
<1>. HIDE DEF R, C
<1>4. PICK x \in C : \A y \in C : ~ (<<y, x>> \in R)
  BY <1>1, <1>2, <1>3, WFMin
<1>. USE DEF R, C
<1>5. x # 0 /\ x - 1 \in 0 .. n - 1 /\ x - 1 \in 0 .. n
  BY <1>4
<1>6. <<x - 1, x>> \in R
  BY <1>4, <1>5
<1>7. x - 1 \notin C
  BY <1>4, <1>6
<1>. QED  BY <1>4, <1>5, <1>7

----------------------------------------------------------------------------
(* ScanLines, by what it makes of each beginning of its argument.          *)
ScansTo(s, n, f) ==
    /\ f \in [0 .. n -> Seq(Chunk)]
    /\ f[0] = <<>>
    /\ \A i \in 1 .. n :
         f[i] = IF BeginsLine(s, i) THEN Append(f[i - 1], LineAt(s, i))
                ELSE f[i - 1]

LEMMA LineIsChunk ==
    ASSUME NEW s \in Seq(Chunk), NEW i \in 1 .. Len(s)
    PROVE  LineAt(s, i) \in Chunk
<1>1. s[i] \in Chunk
  OBVIOUS
<1>. QED  BY <1>1 DEF LineAt, Chunk

(* There is such a function for every sequence of chunks.                  *)
LEMMA ScanExists ==
    ASSUME NEW s \in Seq(Chunk)
    PROVE  \E f : ScansTo(s, Len(s), f)
<1>. DEFINE n == Len(s)
            T == {k \in 0 .. n : \E f : ScansTo(s, k, f)}
<1>0. n \in Nat
  OBVIOUS
<1>1. 0 \in T
  <2>1. ScansTo(s, 0, [i \in 0 .. 0 |-> <<>>])
    BY DEF ScansTo
  <2>. QED  BY <1>0, <2>1
<1>2. \A k \in 0 .. n - 1 : k \in T => k + 1 \in T
  <2>. TAKE k \in 0 .. n - 1
  <2>. HAVE k \in T
  <2>1. PICK f : ScansTo(s, k, f)
    OBVIOUS
  <2>2. k \in Nat /\ k + 1 \in 1 .. n /\ k + 1 \in 0 .. n
    OBVIOUS
  <2>. HIDE DEF n
  <2>. DEFINE x == IF BeginsLine(s, k + 1) THEN Append(f[k], LineAt(s, k + 1)) ELSE f[k]
              g == [i \in 0 .. k + 1 |-> IF i = k + 1 THEN x ELSE f[i]]
  <2>3. f[k] \in Seq(Chunk) /\ \A i \in 0 .. k : f[i] \in Seq(Chunk)
    BY <2>1, <2>2 DEF ScansTo
  <2>4. LineAt(s, k + 1) \in Chunk
    BY <2>2, LineIsChunk DEF n
  <2>5. x \in Seq(Chunk)
    BY <2>3, <2>4
  <2>. HIDE DEF x
  <2>6. g \in [0 .. k + 1 -> Seq(Chunk)]
    BY <2>2, <2>3, <2>5
  <2>7. g[k + 1] = x /\ \A i \in 0 .. k : g[i] = f[i]
    BY <2>2
  <2>. HIDE DEF g
  <2>8. \A i \in 1 .. k + 1 :
          g[i] = IF BeginsLine(s, i) THEN Append(g[i - 1], LineAt(s, i)) ELSE g[i - 1]
    <3>. TAKE i \in 1 .. k + 1
    <3>1. CASE i = k + 1
      <4>1. i - 1 = k /\ g[k] = f[k]
        BY <2>2, <2>7, <3>1
      <4>. QED  BY <2>7, <3>1, <4>1 DEF x
    <3>2. CASE i # k + 1
      <4>1. i \in 1 .. k /\ g[i] = f[i] /\ g[i - 1] = f[i - 1]
        BY <2>2, <2>7, <3>2
      <4>. QED  BY <2>1, <4>1 DEF ScansTo
    <3>. QED  BY <3>1, <3>2
  <2>9. g[0] = <<>>
    BY <2>1, <2>2, <2>7, SMTT(60) DEF ScansTo
  <2>10. ScansTo(s, k + 1, g)
    BY <2>6, <2>8, <2>9 DEF ScansTo
  <2>. QED  BY <2>2, <2>10
<1>. HIDE DEF T
<1>3. n \in T
  <2>. HIDE DEF n
  <2>1. \A i \in 0 .. n : i \in T
    BY <1>0, <1>1, <1>2, UpToInduction
  <2>. QED  BY <1>0, <2>1
<1>. QED  BY <1>3 DEF T

(* ScanLines is its last value.                                            *)
LEMMA ScanLinesIs ==
    ASSUME NEW s \in Seq(Chunk)
    PROVE  \E f : ScansTo(s, Len(s), f) /\ ScanLines(s) = f[Len(s)]
<1>. DEFINE n == Len(s)
            G(f) == [i \in 0 .. n |->
                       IF i = 0 THEN <<>>
                       ELSE IF BeginsLine(s, i) THEN Append(f[i - 1], LineAt(s, i))
                       ELSE f[i - 1]]
            h == CHOOSE f : f = G(f)
<1>0. n \in Nat
  OBVIOUS
<1>1. ScanLines(s) = h[n]
  BY DEF ScanLines
<1>2. PICK e : ScansTo(s, n, e)
  BY ScanExists
<1>3. e = G(e)
  <2>1. e \in [0 .. n -> Seq(Chunk)]
    BY <1>2 DEF ScansTo
  <2>2. \A i \in 0 .. n : e[i] = G(e)[i]
    <3>. TAKE i \in 0 .. n
    <3>. HIDE DEF n
    <3>1. CASE i = 0
      BY <1>2, <3>1 DEF ScansTo
    <3>2. CASE i # 0
      <4>1. i \in 1 .. n
        BY <1>0, <3>2
      <4>. QED  BY <1>2, <3>2, <4>1 DEF ScansTo
    <3>. QED  BY <3>1, <3>2
  <2>. QED  BY <2>1, <2>2
<1>4. h = G(h)
  <2>. HIDE DEF G
  <2>. QED  BY <1>3
<1>. HIDE DEF h, n
<1>5. h[0] = <<>> /\ h = [i \in 0 .. n |-> h[i]]
  BY <1>0, <1>4
<1>6. \A i \in 1 .. n :
        h[i] = IF BeginsLine(s, i) THEN Append(h[i - 1], LineAt(s, i)) ELSE h[i - 1]
  <2>. TAKE i \in 1 .. n
  <2>1. i \in 0 .. n /\ i # 0
    BY <1>0
  <2>. QED  BY <1>4, <2>1
<1>. DEFINE T == {i \in 0 .. n : h[i] \in Seq(Chunk)}
<1>7. \A i \in 0 .. n : i \in T
  <2>1. 0 \in T
    BY <1>0, <1>5
  <2>2. \A i \in 0 .. n - 1 : i \in T => i + 1 \in T
    <3>. TAKE i \in 0 .. n - 1
    <3>. HAVE i \in T
    <3>1. i + 1 \in 1 .. n /\ i + 1 \in 0 .. n /\ (i + 1) - 1 = i
      BY <1>0
    <3>2. h[i] \in Seq(Chunk) /\ LineAt(s, i + 1) \in Chunk
      BY <3>1, LineIsChunk DEF n
    <3>3. h[i + 1] = IF BeginsLine(s, i + 1) THEN Append(h[i], LineAt(s, i + 1)) ELSE h[i]
      BY <1>6, <3>1
    <3>4. h[i + 1] \in Seq(Chunk)
      BY <3>2, <3>3
    <3>. QED  BY <3>1, <3>4
  <2>. HIDE DEF T
  <2>. QED  BY <1>0, <2>1, <2>2, UpToInduction
<1>8. ScansTo(s, n, h)
  BY <1>5, <1>6, <1>7 DEF ScansTo
<1>. QED  BY <1>1, <1>8 DEF n

(* A file holds messages in their order, and a tail follows its head.      *)
WellFormed(s) ==
    /\ \A a, b \in DOMAIN s : a < b => Before(s[a], s[b])
    /\ \A a \in DOMAIN s : s[a].part = "tail" =>
         a > 1 /\ s[a - 1].part = "head" /\ s[a - 1].msg = s[a].msg
    /\ \A a \in DOMAIN s : s[a].part = "head" /\ a < Len(s) =>
         s[a + 1].part = "tail" /\ s[a + 1].msg = s[a].msg

(* A line, or a chunk, ends a message.                                     *)
Ends(c, m) == c.msg = m /\ c.part # "head"

(* What comes out of a well-formed file, read from a position to its end:  *)
(* lines in order, each of them from a chunk, with every message that ends *)
(* there and a head that is the last chunk.                                *)
IsLine(c, p, x, a) ==
    /\ a \in p + 1 .. Len(c)
    /\ x.msg = c[a].msg
    /\ x.part = c[a].part \/ (x.part = "whole" /\ c[a].part = "head" /\ a < Len(c))
    /\ x.part = "tail" => a = p + 1

ScansAs(c, p, L) ==
    /\ L \in Seq(Chunk)
    /\ \A k \in DOMAIN L : \E a \in 1 .. Len(c) : IsLine(c, p, L[k], a)
    /\ \A k, l \in DOMAIN L : k < l => L[k].msg < L[l].msg
    /\ \A a \in p + 1 .. Len(c) :
         c[a].part # "head" => \E k \in DOMAIN L : Ends(L[k], c[a].msg)
    /\ p < Len(c) /\ c[Len(c)].part = "head" =>
         \E k \in DOMAIN L : L[k] = c[Len(c)]

(* The lines, as far as a beginning of the chunks goes.                    *)
ScannedSoFar(s, i, w) ==
    /\ \A k \in DOMAIN w : \E j \in 1 .. i : BeginsLine(s, j) /\ w[k] = LineAt(s, j)
    /\ \A j \in 1 .. i : BeginsLine(s, j) => \E k \in DOMAIN w : w[k] = LineAt(s, j)
    /\ \A k, l \in DOMAIN w : k < l => w[k].msg < w[l].msg

LinesIncrease(s) ==
    \A i, j \in 1 .. Len(s) : i < j /\ BeginsLine(s, j) => s[i].msg < s[j].msg

LEMMA ScannedStep ==
    ASSUME NEW s \in Seq(Chunk), LinesIncrease(s), NEW i \in 0 .. Len(s) - 1,
           NEW w \in Seq(Chunk), ScannedSoFar(s, i, w), BeginsLine(s, i + 1)
    PROVE  ScannedSoFar(s, i + 1, Append(w, LineAt(s, i + 1)))
<1>. DEFINE x == LineAt(s, i + 1)
            v == Append(w, x)
<1>1. /\ i \in Nat /\ i + 1 \in 1 .. Len(s) /\ i + 1 \in 1 .. i + 1
      /\ \A j \in 1 .. i + 1 : j \in 1 .. i \/ j = i + 1
      /\ \A j \in 1 .. i : j \in 1 .. i + 1 /\ j \in 1 .. Len(s) /\ j < i + 1
  OBVIOUS
<1>2. x \in Chunk
  BY <1>1, LineIsChunk
<1>. HIDE DEF x
<1>3. /\ v \in Seq(Chunk) /\ Len(w) \in Nat /\ Len(w) + 1 \in DOMAIN v
      /\ v[Len(w) + 1] = x
      /\ \A k \in DOMAIN w : k \in DOMAIN v /\ v[k] = w[k] /\ k < Len(w) + 1
      /\ \A k \in DOMAIN v : k \in DOMAIN w \/ k = Len(w) + 1
  BY <1>2
<1>. HIDE DEF v
<1>4. \A k \in DOMAIN v : \E j \in 1 .. i + 1 : BeginsLine(s, j) /\ v[k] = LineAt(s, j)
  <2>. TAKE k \in DOMAIN v
  <2>1. CASE k \in DOMAIN w
    <3>1. PICK j \in 1 .. i : BeginsLine(s, j) /\ w[k] = LineAt(s, j)
      BY <2>1 DEF ScannedSoFar
    <3>. QED  BY <1>1, <1>3, <2>1, <3>1
  <2>2. CASE k = Len(w) + 1
    BY <1>1, <1>3, <2>2 DEF x
  <2>. QED  BY <1>3, <2>1, <2>2
<1>5. \A j \in 1 .. i + 1 : BeginsLine(s, j) => \E k \in DOMAIN v : v[k] = LineAt(s, j)
  <2>. TAKE j \in 1 .. i + 1
  <2>. HAVE BeginsLine(s, j)
  <2>1. CASE j \in 1 .. i
    <3>1. PICK k \in DOMAIN w : w[k] = LineAt(s, j)
      BY <2>1 DEF ScannedSoFar
    <3>. QED  BY <1>3, <3>1
  <2>2. CASE j = i + 1
    BY <1>3, <2>2 DEF x
  <2>. QED  BY <1>1, <2>1, <2>2
<1>6. \A k \in DOMAIN w : w[k].msg < x.msg
  <2>. TAKE k \in DOMAIN w
  <2>1. PICK j \in 1 .. i : BeginsLine(s, j) /\ w[k] = LineAt(s, j)
    BY DEF ScannedSoFar
  <2>2. s[j].msg < s[i + 1].msg
    BY <1>1 DEF LinesIncrease
  <2>. QED  BY <2>1, <2>2 DEF LineAt, x
<1>7. \A k, l \in DOMAIN v : k < l => v[k].msg < v[l].msg
  <2>. TAKE k, l \in DOMAIN v
  <2>. HAVE k < l
  <2>1. k \in DOMAIN w
    <3>1. CASE k = Len(w) + 1
      BY <1>3, <3>1
    <3>. QED  BY <1>3, <3>1
  <2>2. CASE l \in DOMAIN w
    BY <1>3, <2>1, <2>2 DEF ScannedSoFar
  <2>3. CASE l = Len(w) + 1
    BY <1>3, <1>6, <2>1, <2>3
  <2>. QED  BY <1>3, <2>2, <2>3
<1>8. ScannedSoFar(s, i + 1, v)
  BY <1>4, <1>5, <1>7 DEF ScannedSoFar
<1>. QED  BY <1>8 DEF v, x

LEMMA ScanLinesAll ==
    ASSUME NEW s \in Seq(Chunk), LinesIncrease(s)
    PROVE  ScanLines(s) \in Seq(Chunk) /\ ScannedSoFar(s, Len(s), ScanLines(s))
<1>. DEFINE n == Len(s)
<1>0. n \in Nat
  OBVIOUS
<1>1. PICK f : ScansTo(s, n, f) /\ ScanLines(s) = f[n]
  BY ScanLinesIs
<1>. HIDE DEF n
<1>. DEFINE T == {i \in 0 .. n : ScannedSoFar(s, i, f[i])}
<1>2. 0 \in T
  BY <1>0, <1>1 DEF ScansTo, ScannedSoFar
<1>3. \A i \in 0 .. n - 1 : i \in T => i + 1 \in T
  <2>. TAKE i \in 0 .. n - 1
  <2>. HAVE i \in T
  <2>1. i \in 0 .. n /\ i + 1 \in 1 .. n /\ i + 1 \in 0 .. n /\ (i + 1) - 1 = i
    BY <1>0
  <2>2. f[i] \in Seq(Chunk)
    BY <1>1, <2>1 DEF ScansTo
  <2>3. f[i + 1] = IF BeginsLine(s, i + 1) THEN Append(f[i], LineAt(s, i + 1)) ELSE f[i]
    BY <1>1, <2>1 DEF ScansTo
  <2>4. ScannedSoFar(s, i, f[i])
    OBVIOUS
  <2>5. CASE BeginsLine(s, i + 1)
    <3>1. ScannedSoFar(s, i + 1, Append(f[i], LineAt(s, i + 1)))
      BY <2>2, <2>4, <2>5, ScannedStep DEF n
    <3>. QED  BY <2>1, <2>3, <2>5, <3>1
  <2>6. CASE ~BeginsLine(s, i + 1)
    <3>. DEFINE w == f[i]
    <3>1. \A j \in 1 .. i + 1 : j \in 1 .. i \/ j = i + 1
      BY <2>1
    <3>2. \A j \in 1 .. i : j \in 1 .. i + 1
      BY <2>1
    <3>. HIDE DEF w
    <3>3. ScannedSoFar(s, i, w) => ScannedSoFar(s, i + 1, w)
      BY <2>6, <3>1, <3>2 DEF ScannedSoFar
    <3>. QED  BY <2>1, <2>3, <2>4, <2>6, <3>3 DEF w
  <2>. QED  BY <2>5, <2>6
<1>. HIDE DEF T
<1>4. \A i \in 0 .. n : i \in T
  BY <1>0, <1>2, <1>3, UpToInduction
<1>5. n \in T /\ f[n] \in Seq(Chunk)
  BY <1>0, <1>1, <1>4 DEF ScansTo
<1>. QED  BY <1>1, <1>5 DEF T, n

LEMMA ScanFile ==
    ASSUME NEW c \in Seq(Chunk), WellFormed(c), NEW p \in 0 .. Len(c)
    PROVE  ScansAs(c, p, ScanLines(SubSeq(c, p + 1, Len(c))))
<1>. DEFINE n == Len(c)
            s == SubSeq(c, p + 1, n)
            L == ScanLines(s)
<1>1. n \in Nat /\ p \in Nat /\ p <= n
  OBVIOUS
<1>2. /\ s \in Seq(Chunk) /\ Len(s) = n - p
      /\ \A i \in 1 .. n - p : s[i] = c[p + i]
  OBVIOUS
<1>3. \A i \in 1 .. n : c[i] \in Chunk
  OBVIOUS
<1>4. DOMAIN c = 1 .. n
  OBVIOUS
<1>. HIDE DEF s, n
<1>5. \A i \in 1 .. n - p : p + i \in 1 .. n /\ p + i \in p + 1 .. n
  BY <1>1
<1>6. LinesIncrease(s)
  <2>. SUFFICES ASSUME NEW i \in 1 .. n - p, NEW j \in 1 .. n - p, i < j,
                       BeginsLine(s, j)
                PROVE  s[i].msg < s[j].msg
    BY <1>2 DEF LinesIncrease
  <2>1. s[i] = c[p + i] /\ s[j] = c[p + j] /\ p + i < p + j
    BY <1>1, <1>2
  <2>2. Before(c[p + i], c[p + j])
    BY <1>4, <1>5, <2>1 DEF WellFormed
  <2>3. c[p + j].part # "tail"
    BY <1>1, <2>1 DEF BeginsLine
  <2>. QED  BY <2>1, <2>2, <2>3 DEF Before
<1>7. L \in Seq(Chunk) /\ ScannedSoFar(s, n - p, L)
  BY <1>2, <1>6, ScanLinesAll
<1>. HIDE DEF L
<1>8. \A k \in DOMAIN L : \E a \in 1 .. n : IsLine(c, p, L[k], a)
  <2>. TAKE k \in DOMAIN L
  <2>1. PICK j \in 1 .. n - p : BeginsLine(s, j) /\ L[k] = LineAt(s, j)
    BY <1>7 DEF ScannedSoFar
  <2>2. s[j] = c[p + j] /\ p + j \in 1 .. n /\ p + j \in p + 1 .. n
    BY <1>2, <1>5
  <2>3. L[k].msg = c[p + j].msg
    BY <2>1, <2>2 DEF LineAt
  <2>4. \/ L[k].part = c[p + j].part
        \/ L[k].part = "whole" /\ c[p + j].part = "head" /\ p + j < n
    <3>1. j < n - p => p + j < n
      BY <1>1
    <3>. QED  BY <1>2, <2>1, <2>2, <3>1 DEF LineAt
  <2>5. L[k].part = "tail" => p + j = p + 1
    <3>1. L[k].part = "tail" => c[p + j].part = "tail"
      BY <2>4
    <3>. QED  BY <2>1, <2>2, <3>1 DEF BeginsLine
  <2>6. IsLine(c, p, L[k], p + j)
    BY <2>2, <2>3, <2>4, <2>5 DEF IsLine, n
  <2>. QED  BY <2>2, <2>6
<1>9. \A k, l \in DOMAIN L : k < l => L[k].msg < L[l].msg
  BY <1>7 DEF ScannedSoFar
<1>10. ASSUME NEW a \in p + 1 .. n, c[a].part # "head"
       PROVE  \E k \in DOMAIN L : Ends(L[k], c[a].msg)
  <2>. DEFINE j == a - p
  <2>1. j \in 1 .. n - p /\ p + j = a /\ a \in 1 .. n
    BY <1>1
  <2>. HIDE DEF j
  <2>2. s[j] = c[a]
    BY <1>2, <2>1
  <2>3. CASE BeginsLine(s, j)
    <3>1. PICK k \in DOMAIN L : L[k] = LineAt(s, j)
      BY <1>7, <2>1, <2>3 DEF ScannedSoFar
    <3>2. Ends(L[k], c[a].msg)
      BY <1>10, <2>2, <3>1 DEF Ends, LineAt
    <3>. QED  BY <3>2
  <2>4. CASE ~BeginsLine(s, j)
    <3>1. c[a].part = "tail" /\ j # 1
      BY <2>2, <2>4 DEF BeginsLine
    <3>2. c[a - 1].part = "head" /\ c[a - 1].msg = c[a].msg
      BY <1>4, <2>1, <3>1 DEF WellFormed
    <3>3. j - 1 \in 1 .. n - p /\ j - 1 < n - p /\ p + (j - 1) = a - 1
      BY <1>1, <2>1, <3>1
    <3>4. s[j - 1] = c[a - 1]
      BY <1>2, <3>3
    <3>5. BeginsLine(s, j - 1)
      BY <3>2, <3>4 DEF BeginsLine
    <3>6. PICK k \in DOMAIN L : L[k] = LineAt(s, j - 1)
      BY <1>7, <3>3, <3>5 DEF ScannedSoFar
    <3>7. Ends(L[k], c[a].msg)
      BY <1>2, <3>2, <3>3, <3>4, <3>6 DEF Ends, LineAt
    <3>. QED  BY <3>7
  <2>. QED  BY <2>3, <2>4
<1>11. ASSUME p < n, c[n].part = "head" PROVE \E k \in DOMAIN L : L[k] = c[n]
  <2>. DEFINE j == n - p
  <2>1. j \in 1 .. n - p /\ p + j = n /\ n \in 1 .. n /\ ~(j < n - p)
    BY <1>1, <1>11
  <2>. HIDE DEF j
  <2>2. s[j] = c[n] /\ c[n] \in Chunk
    BY <1>2, <1>3, <2>1
  <2>3. BeginsLine(s, j)
    BY <1>11, <2>2 DEF BeginsLine
  <2>4. PICK k \in DOMAIN L : L[k] = LineAt(s, j)
    BY <1>7, <2>1, <2>3 DEF ScannedSoFar
  <2>5. LineAt(s, j) = c[n]
    BY <1>2, <1>11, <2>1, <2>2 DEF LineAt, Chunk
  <2>. QED  BY <2>4, <2>5
<1>12. ScansAs(c, p, L)
  BY <1>7, <1>8, <1>9, <1>10, <1>11 DEF ScansAs, n
<1>. QED  BY <1>12 DEF L, s, n
----------------------------------------------------------------------------
(* The invariant.                                                          *)

(* What the program that writes the log guarantees.                        *)
FilesSound ==
    /\ newest = 0 => missing
    /\ missing => ~HalfWritten /\ newest <= MaxRotations
    /\ \A i \in Inodes : i > newest => content[i] = <<>>
    /\ \A i \in Inodes : WellFormed(content[i])
    /\ HalfWritten => content[newest][Len(content[newest])].msg = written

(* Messages are numbered as they are written, across all the files.        *)
InOrder ==
    /\ \A i \in Inodes : \A a \in DOMAIN content[i] : content[i][a].msg <= written
    /\ \A i, j \in Inodes : i < j =>
         \A a \in DOMAIN content[i], b \in DOMAIN content[j] :
            content[i][a].msg < content[j][b].msg

(* A message that is complete is in one of the files.                      *)
NothingMissing ==
    \A m \in 1 .. Complete : \E i \in Inodes : \E a \in DOMAIN content[i] :
        Ends(content[i][a], m)

(* Where the mirror is.                                                    *)
Opened == mirror \notin {"stat", "open", "wait", "openFirst", "failed"}
Running == Opened /\ mirror # "seek"

FileKnown ==
    /\ mirror \in {"stat", "open"} => newest <= 1 /\ (newest = 1 => ~missing)
    /\ mirror = "open" => newest = 1
    /\ mirror \in {"wait", "openFirst"} => offset = 0
    /\ Opened => file \in 1 .. newest /\ pos <= Len(content[file])
    /\ mirror = "seek" => pos = 0 /\ (file = 1 \/ offset = 0)
    /\ Running => fi \in 1 .. file /\ (file = 1 => pos >= StartPosition)
    /\ mirror \in {"readOld", "reopen"} => newFI \in fi + 1 .. newest
    /\ ~Opened /\ mirror # "failed" => file = 0 /\ pos = 0
    /\ ~Running /\ mirror # "failed" => output = <<>>

(* As long as no rotation overtakes it, the mirror has the newest file     *)
(* open, or the one before it, and fi is the file that it has open.        *)
NotOvertaken ==
    ~overtaken =>
      /\ mirror \in {"wait", "openFirst"} => newest <= 1 /\ (newest = 1 => ~missing)
      /\ Opened => newest = file \/ (newest = file + 1 /\ ~missing)
      /\ mirror = "seek" => file = 1
      /\ Running => fi = file
      /\ mirror \in {"readOld", "reopen"} => newFI = newest /\ newest = file + 1
      /\ mirror = "reopen" => pos = Len(content[file])

(* What was there before mirrorLog looked is before the start position,    *)
(* and the rest after it.                                                  *)
StartKnown ==
    /\ notDue <= Complete
    /\ offset <= Len(content[1])
    /\ mirror = "stat" => notDue = 0 /\ offset = 0
    /\ \A i \in Inodes : \A a \in DOMAIN content[i] :
         i > 1 \/ a > StartPosition => content[i][a].msg > notDue
    /\ \A a \in DOMAIN content[1] : a <= StartPosition =>
         content[1][a].msg <= notDue \/ content[1][a].part = "head"

(* Nothing comes out before it is written, and of a message that is half   *)
(* written only the first half.                                            *)
OutputKnown ==
    \A k \in DOMAIN output :
        /\ output[k].msg \in notDue + 1 .. written
        /\ HalfWritten /\ output[k].msg = written => output[k].part = "head"

Ordered ==
    ~overtaken => \A k, l \in DOMAIN output : k < l => Before(output[k], output[l])

(* What the mirror has still to read comes after all it has mirrored.      *)
ToRead(i, a) == i > file \/ (i = file /\ a > pos)

Behind ==
    ~overtaken /\ Running =>
        \A k \in DOMAIN output : \A i \in Inodes : \A a \in DOMAIN content[i] :
            ToRead(i, a) => Before(output[k], content[i][a])

(* Every message that ends in what it has read is mirrored.                *)
HasRead(i, a) == i < file \/ (i = file /\ a <= pos)

Covered ==
    ~overtaken /\ Running =>
        \A i \in Inodes : \A a \in DOMAIN content[i] :
            /\ HasRead(i, a)
            /\ content[i][a].part # "head"
            /\ content[i][a].msg > notDue
            => Mirrored(content[i][a].msg)

(* The first half of a line that was torn is mirrored before the second.   *)
HeadIn(start, off, chunks, lines, m) ==
    LET head == [msg |-> m, part |-> "head"]
    IN  (~start /\ off > 0 /\ chunks[1][off] = head) \/ head \in Range(lines)

HeadOut(m) == HeadIn(fromStart, offset, content, output, m)

HeadsFirst ==
    ~overtaken =>
      /\ Running /\ pos > 0 /\ content[file][pos].part = "head" =>
           HeadOut(content[file][pos].msg)
      /\ \A k \in DOMAIN output : output[k].part = "tail" => HeadOut(output[k].msg)

(* The last round, after the cancellation.                                 *)
Settled == \A m \in 1 .. atCancel : \E i \in Inodes : \E a \in DOMAIN content[i] :
             i <= file /\ Ends(content[i][a], m)

AllMirrored == \A m \in notDue + 1 .. atCancel : Mirrored(m)

LastRound ==
    /\ closing \/ mirror = "ended" => cancelled
    /\ atCancel <= Complete
    /\ ~overtaken =>
         /\ closing /\ mirror = "check" => AllMirrored \/ newest > file
         /\ closing /\ mirror = "readNew" => Settled
         /\ closing /\ mirror = "pause" => AllMirrored
         /\ mirror = "ended" => AllMirrored

WriterInv == TypeOK /\ FilesSound /\ InOrder /\ NothingMissing

IInv ==
    /\ WriterInv
    /\ FileKnown /\ NotOvertaken
    /\ StartKnown
    /\ OutputKnown /\ Ordered /\ Behind
    /\ Covered /\ HeadsFirst
    /\ LastRound

----------------------------------------------------------------------------
(* The program that writes the log.                                        *)

(* What an append to the newest file does to the files.                    *)
GrownBy(x) ==
    /\ newest \in Inodes /\ x \in Chunk
    /\ content' \in [Inodes -> Seq(Chunk)]
    /\ content'[newest] = Append(content[newest], x)
    /\ \A i \in Inodes : i # newest => content'[i] = content[i]
    /\ \A i \in Inodes : \A a \in DOMAIN content[i] :
         a \in DOMAIN content'[i] /\ content'[i][a] = content[i][a]
    /\ Len(content[newest]) \in Nat
    /\ Len(content'[newest]) = Len(content[newest]) + 1
    /\ Len(content'[newest]) \in DOMAIN content'[newest]
    /\ content'[newest][Len(content'[newest])] = x
    /\ content'[newest] # <<>>
    /\ \A i \in Inodes : \A a \in DOMAIN content'[i] :
         \/ a \in DOMAIN content[i]
         \/ i = newest /\ a = Len(content'[newest]) /\ a \notin DOMAIN content[i]

LEMMA Grows ==
    ASSUME TypeOK, newest # 0, NEW x \in Chunk,
           content' = [content EXCEPT ![newest] = Append(@, x)]
    PROVE  GrownBy(x)
<1>1. newest \in Inodes /\ content \in [Inodes -> Seq(Chunk)]
  BY BoundsAssumption DEF TypeOK, Inodes
<1>2. /\ content'[newest] = Append(content[newest], x)
      /\ \A i \in Inodes : i # newest => content'[i] = content[i]
      /\ content' = [i \in Inodes |-> content'[i]]
  BY <1>1
<1>. DEFINE c == content[newest]
            d == content'[newest]
<1>3. c \in Seq(Chunk) /\ d = Append(c, x)
  BY <1>1, <1>2
<1>. HIDE DEF c, d
<1>4. /\ d \in Seq(Chunk) /\ Len(c) \in Nat /\ Len(d) = Len(c) + 1
      /\ Len(d) \in DOMAIN d /\ d[Len(d)] = x /\ d # <<>>
      /\ \A a \in DOMAIN c : a \in DOMAIN d /\ d[a] = c[a]
      /\ \A a \in DOMAIN d : a \in DOMAIN c \/ (a = Len(d) /\ a \notin DOMAIN c)
  BY <1>3
<1>5. content' \in [Inodes -> Seq(Chunk)]
  <2>1. \A i \in Inodes : content'[i] \in Seq(Chunk)
    BY <1>1, <1>2, <1>4 DEF d
  <2>. QED  BY <1>2, <2>1
<1>6. \A i \in Inodes : \A a \in DOMAIN content[i] :
         a \in DOMAIN content'[i] /\ content'[i][a] = content[i][a]
  BY <1>2, <1>4 DEF c, d
<1>7. \A i \in Inodes : \A a \in DOMAIN content'[i] :
         \/ a \in DOMAIN content[i]
         \/ i = newest /\ a = Len(content'[newest]) /\ a \notin DOMAIN content[i]
  BY <1>2, <1>4 DEF c, d
<1>. QED  BY <1>1, <1>2, <1>4, <1>5, <1>6, <1>7 DEF GrownBy, c, d

(* A file stays well formed when what comes next is appended.              *)
LEMMA WellFormedAppend ==
    ASSUME NEW c \in Seq(Chunk), WellFormed(c), NEW x \in Chunk,
           \A a \in DOMAIN c : Before(c[a], x),
           x.part = "tail" => /\ c # <<>> /\ c[Len(c)].part = "head"
                              /\ c[Len(c)].msg = x.msg,
           x.part # "tail" => c = <<>> \/ c[Len(c)].part # "head"
    PROVE  WellFormed(Append(c, x))
<1>. DEFINE d == Append(c, x)
            n == Len(c)
<1>1. /\ n \in Nat /\ DOMAIN c = 1 .. n /\ DOMAIN d = 1 .. n + 1
      /\ Len(d) = n + 1 /\ d[n + 1] = x /\ (c = <<>> <=> n = 0)
      /\ \A a \in 1 .. n : d[a] = c[a]
  OBVIOUS
<1>. HIDE DEF d, n
<1>2. \A a \in 1 .. n + 1 : a \in 1 .. n \/ a = n + 1
  BY <1>1
<1>3. ASSUME NEW a \in DOMAIN d, NEW b \in DOMAIN d, a < b
      PROVE  Before(d[a], d[b])
  <2>1. a \in 1 .. n
    BY <1>1, <1>3
  <2>2. CASE b \in 1 .. n
    BY <1>1, <1>3, <2>1, <2>2 DEF WellFormed
  <2>3. CASE b = n + 1
    BY <1>1, <2>1, <2>3
  <2>. QED  BY <1>1, <1>2, <2>2, <2>3
<1>4. ASSUME NEW a \in DOMAIN d, d[a].part = "tail"
      PROVE  a > 1 /\ d[a - 1].part = "head" /\ d[a - 1].msg = d[a].msg
  <2>1. CASE a \in 1 .. n
    <3>1. a > 1 /\ c[a - 1].part = "head" /\ c[a - 1].msg = c[a].msg
      BY <1>1, <1>4, <2>1 DEF WellFormed
    <3>2. a - 1 \in 1 .. n
      BY <1>1, <2>1, <3>1
    <3>. QED  BY <1>1, <2>1, <3>1, <3>2
  <2>2. CASE a = n + 1
    <3>1. n # 0 /\ c[n].part = "head" /\ c[n].msg = x.msg
      BY <1>1, <1>4, <2>2 DEF n
    <3>2. n \in 1 .. n /\ a - 1 = n /\ a > 1
      BY <1>1, <2>2, <3>1
    <3>. QED  BY <1>1, <2>2, <3>1, <3>2
  <2>. QED  BY <1>1, <1>2, <2>1, <2>2
<1>5. ASSUME NEW a \in DOMAIN d, d[a].part = "head", a < Len(d)
      PROVE  d[a + 1].part = "tail" /\ d[a + 1].msg = d[a].msg
  <2>1. a \in 1 .. n
    BY <1>1, <1>5
  <2>2. CASE a < n
    <3>1. c[a + 1].part = "tail" /\ c[a + 1].msg = c[a].msg
      BY <1>1, <1>5, <2>1, <2>2 DEF WellFormed, n
    <3>2. a + 1 \in 1 .. n
      BY <1>1, <2>1, <2>2
    <3>. QED  BY <1>1, <2>1, <3>1, <3>2
  <2>3. CASE a = n
    <3>1. c # <<>> /\ c[Len(c)].part = "head"
      BY <1>1, <1>5, <2>1, <2>3 DEF n
    <3>2. x.part = "tail" /\ c[n].msg = x.msg
      BY <3>1 DEF n
    <3>. QED  BY <1>1, <2>1, <2>3, <3>2
  <2>. QED  BY <1>1, <2>1, <2>2, <2>3
<1>6. WellFormed(d)
  BY <1>3, <1>4, <1>5 DEF WellFormed
<1>. QED  BY <1>6 DEF d

LEMMA WellFormedEmpty == WellFormed(<<>>)
BY DEF WellFormed

(* How many messages are complete.                                         *)
LEMMA CompleteIs ==
    ASSUME TypeOK, FilesSound
    PROVE  /\ Complete \in 0 .. MaxLines
           /\ HalfWritten => Complete = written - 1 /\ written \in 1 .. MaxLines
           /\ ~HalfWritten => Complete = written
<1>1. written \in 0 .. MaxLines /\ MaxLines \in Nat
  BY BoundsAssumption DEF TypeOK
<1>2. HalfWritten => written \in 1 .. MaxLines
  <2>. SUFFICES ASSUME HalfWritten PROVE written \in 1 .. MaxLines
    OBVIOUS
  <2>1. newest \in Inodes
    BY BoundsAssumption DEF HalfWritten, TypeOK, Inodes
  <2>2. content[newest] \in Seq(Chunk) /\ content[newest] # <<>>
    BY <2>1 DEF HalfWritten, TypeOK
  <2>3. content[newest][Len(content[newest])] \in Chunk
    BY <2>2
  <2>. QED  BY <2>3 DEF FilesSound, Chunk
<1>. QED  BY <1>1, <1>2 DEF Complete

(* While the newest file ends in a head, no other chunk is of its message. *)
LEMMA HalfIsLast ==
    ASSUME TypeOK, FilesSound, InOrder, HalfWritten,
           NEW i \in Inodes, NEW a \in DOMAIN content[i],
           content[i][a].msg = written
    PROVE  i = newest /\ a = Len(content[i]) /\ content[i][a].part = "head"
<1>. DEFINE c == content[newest]
            h == c[Len(c)]
<1>1. newest \in Inodes /\ newest # 0 /\ h.part = "head" /\ h.msg = written
  BY BoundsAssumption, SMTT(60) DEF HalfWritten, TypeOK, Inodes, FilesSound
<1>2. c \in Seq(Chunk) /\ c # <<>> /\ Len(c) \in DOMAIN c /\ content[i] \in Seq(Chunk)
  BY <1>1, SMTT(60) DEF TypeOK, HalfWritten
<1>3. i <= newest
  <2>1. CASE i > newest
    <3>1. content[i] = <<>>
      BY <2>1 DEF FilesSound
    <3>. QED  BY <3>1
  <2>. QED  BY <1>1, <2>1 DEF Inodes, TypeOK
<1>4. ~(i < newest)
  <2>. SUFFICES ASSUME i < newest PROVE FALSE
    OBVIOUS
  <2>1. content[i][a].msg < h.msg
    BY <1>1, <1>2 DEF InOrder
  <2>2. written \in Int
    BY DEF TypeOK
  <2>. QED  BY <1>1, <2>1, <2>2
<1>5. i = newest
  BY <1>1, <1>3, <1>4 DEF Inodes, TypeOK
<1>6. a = Len(c)
  <2>. SUFFICES ASSUME a # Len(c) PROVE FALSE
    OBVIOUS
  <2>1. a \in DOMAIN c /\ a < Len(c)
    BY <1>2, <1>5
  <2>2. Before(c[a], h)
    BY <1>1, <1>2, <2>1 DEF FilesSound, WellFormed
  <2>3. written \in Int /\ c[a].msg = written
    BY <1>5 DEF TypeOK
  <2>. QED  BY <1>1, <2>2, <2>3 DEF Before
<1>. QED  BY <1>1, <1>5, <1>6

(* A chunk is added: the beginning of the next message, or the rest of the *)
(* one that is half written.                                               *)
Added(x) ==
    /\ GrownBy(x)
    /\ ~missing /\ UNCHANGED <<newest, missing>>
    /\ \/ x.part # "tail" /\ ~HalfWritten /\ x.msg = written + 1 /\ written' = written + 1
       \/ x.part = "tail" /\ HalfWritten /\ x.msg = written /\ written' = written
    /\ HalfWritten' <=> x.part = "head"
    /\ written \in Nat /\ written' \in 0 .. MaxLines

LEMMA AddsChunk ==
    ASSUME WriterInv, WriteMessage \/ WriteRest
    PROVE  \E x \in Chunk : Added(x)
<1>0. TypeOK /\ FilesSound
  BY DEF WriterInv
<1>1. ASSUME NEW p \in {"whole", "head"}, WriteMessage, Write(written', p)
      PROVE  \E x \in Chunk : Added(x)
  <2>. DEFINE x == [msg |-> written', part |-> p]
  <2>1. /\ x.msg = written + 1 /\ written' = written + 1 /\ x.part = p /\ p # "tail"
        /\ written \in Nat /\ written' \in 0 .. MaxLines /\ x \in Chunk
    BY <1>0, <1>1, BoundsAssumption DEF WriteMessage, TypeOK, Chunk
  <2>2. /\ ~missing /\ UNCHANGED <<newest, missing>> /\ ~HalfWritten
        /\ content' = [content EXCEPT ![newest] = Append(@, x)]
    BY <1>1 DEF WriteMessage, Write
  <2>3. newest # 0 /\ newest \in Nat
    BY <1>0, <2>2 DEF FilesSound, TypeOK
  <2>. HIDE DEF x
  <2>4. GrownBy(x)
    BY <1>0, <2>1, <2>2, <2>3, Grows
  <2>5. HalfWritten' <=> x.part = "head"
    BY <2>2, <2>3, <2>4 DEF HalfWritten, GrownBy
  <2>. QED  BY <2>1, <2>2, <2>4, <2>5 DEF Added
<1>2. CASE WriteRest
  <2>. DEFINE x == [msg |-> written, part |-> "tail"]
  <2>1. HalfWritten
    BY <1>2 DEF WriteRest
  <2>2. /\ x.msg = written /\ written' = written /\ x.part = "tail"
        /\ written \in Nat /\ written' \in 0 .. MaxLines /\ x \in Chunk
    BY <1>0, <1>2, <2>1, CompleteIs DEF WriteRest, Chunk
  <2>3. /\ ~missing /\ UNCHANGED <<newest, missing>>
        /\ content' = [content EXCEPT ![newest] = Append(@, x)]
    BY <1>0, <1>2, <2>1 DEF WriteRest, Write, FilesSound
  <2>4. newest # 0 /\ newest \in Nat
    BY <1>0, <2>3 DEF FilesSound, TypeOK
  <2>. HIDE DEF x
  <2>5. GrownBy(x)
    BY <1>0, <2>2, <2>3, <2>4, Grows
  <2>6. HalfWritten' <=> x.part = "head"
    BY <2>3, <2>4, <2>5 DEF HalfWritten, GrownBy
  <2>. QED  BY <2>1, <2>2, <2>3, <2>5, <2>6 DEF Added
<1>. QED  BY <1>1, <1>2 DEF WriteMessage

(* The new chunk comes after all there are, and completes the next message *)
(* unless it is a head.                                                    *)
LEMMA AddedLast ==
    ASSUME WriterInv, NEW x \in Chunk, Added(x)
    PROVE  /\ \A i \in Inodes : \A a \in DOMAIN content[i] :
                /\ Before(content[i][a], x)
                /\ i # newest => content[i][a].msg < x.msg
           /\ Complete \in Nat
           /\ x.part = "head" => Complete' = Complete
           /\ x.part # "head" => Complete' = Complete + 1 /\ x.msg = Complete + 1
           /\ x.msg > Complete /\ written <= written' /\ x.msg = written'
<1>0. TypeOK /\ FilesSound /\ InOrder /\ written \in Nat
  BY DEF WriterInv, Added
<1>1. ASSUME NEW i \in Inodes, NEW a \in DOMAIN content[i]
      PROVE  Before(content[i][a], x) /\ (i # newest => content[i][a].msg < x.msg)
  <2>1. content[i][a].msg <= written /\ content[i][a].msg \in Nat
    <3>1. content[i] \in Seq(Chunk)
      BY <1>0 DEF TypeOK
    <3>2. content[i][a] \in Chunk
      BY <3>1
    <3>. QED  BY <1>0, <3>2 DEF InOrder, Chunk
  <2>2. CASE x.msg = written + 1
    BY <1>0, <2>1, <2>2 DEF Before
  <2>3. CASE HalfWritten /\ x.msg = written /\ x.part = "tail"
    <3>1. CASE content[i][a].msg = written
      <4>1. i = newest /\ content[i][a].part = "head"
        BY <1>0, <2>3, <3>1, HalfIsLast
      <4>. QED  BY <2>3, <3>1, <4>1 DEF Before
    <3>2. CASE content[i][a].msg # written
      BY <1>0, <2>1, <2>3, <3>2 DEF Before
    <3>. QED  BY <3>1, <3>2
  <2>. QED  BY <2>2, <2>3 DEF Added
<1>2. /\ Complete \in Nat
      /\ HalfWritten => Complete = written - 1
      /\ ~HalfWritten => Complete = written
  BY <1>0, CompleteIs
<1>3. Complete' = IF x.part = "head" THEN written' - 1 ELSE written'
  BY DEF Added, Complete
<1>. QED  BY <1>0, <1>1, <1>2, <1>3 DEF Added

(* The files stay sound when a chunk is added.                             *)
LEMMA AddedSound ==
    ASSUME WriterInv, NEW x \in Chunk, Added(x)
    PROVE  FilesSound' /\ InOrder' /\ NothingMissing'
<1>. USE DEF Added
<1>0. TypeOK /\ FilesSound /\ InOrder /\ NothingMissing /\ GrownBy(x)
  BY DEF WriterInv
<1>1. \A i \in Inodes : \A a \in DOMAIN content[i] :
         Before(content[i][a], x) /\ (i # newest => content[i][a].msg < x.msg)
  BY AddedLast
<1>2. WellFormed(content'[newest])
  <2>. DEFINE c == content[newest]
  <2>1. newest \in Inodes /\ c \in Seq(Chunk) /\ content'[newest] = Append(c, x)
    BY <1>0 DEF GrownBy, TypeOK
  <2>2. WellFormed(c) /\ \A a \in DOMAIN c : Before(c[a], x)
    BY <1>0, <1>1, <2>1 DEF FilesSound
  <2>3. newest > 0
    BY <2>1 DEF Inodes
  <2>4. x.part = "tail" => c # <<>> /\ c[Len(c)].part = "head" /\ c[Len(c)].msg = x.msg
    BY <1>0 DEF HalfWritten, FilesSound
  <2>5. x.part # "tail" => c = <<>> \/ c[Len(c)].part # "head"
    BY <2>3 DEF HalfWritten
  <2>. HIDE DEF c
  <2>6. WellFormed(Append(c, x))
    BY <2>1, <2>2, <2>4, <2>5, WellFormedAppend
  <2>. QED  BY <2>1, <2>6
<1>3. FilesSound'
  <2>1. \A i \in Inodes : WellFormed(content'[i])
    BY <1>0, <1>2 DEF FilesSound, GrownBy
  <2>2. \A i \in Inodes : i > newest => content'[i] = <<>>
    <3>. TAKE i \in Inodes
    <3>. HAVE i > newest
    <3>1. i # newest
      BY <1>0 DEF TypeOK, Inodes
    <3>. QED  BY <1>0, <3>1, SMTT(60) DEF FilesSound, GrownBy
  <2>3. HalfWritten' => content'[newest][Len(content'[newest])].msg = written'
    BY <1>0, AddedLast DEF GrownBy
  <2>4. newest # 0
    BY <1>0 DEF GrownBy, Inodes
  <2>. QED  BY <1>0, <2>1, <2>2, <2>3, <2>4 DEF FilesSound
<1>4. InOrder'
  <2>1. ASSUME NEW i \in Inodes, NEW a \in DOMAIN content'[i]
        PROVE  content'[i][a].msg <= written'
    <3>1. CASE a \in DOMAIN content[i]
      <4>1. content[i][a].msg <= written /\ content'[i][a] = content[i][a]
        BY <1>0, <3>1, SMTT(60) DEF InOrder, GrownBy
      <4>2. content[i] \in Seq(Chunk)
        BY <1>0 DEF TypeOK
      <4>3. content[i][a] \in Chunk
        BY <3>1, <4>2
      <4>4. content[i][a].msg \in Nat
        BY <4>3 DEF Chunk
      <4>. QED  BY <4>1, <4>4
    <3>2. CASE content'[i][a] = x
      BY <3>2, AddedLast
    <3>. QED  BY <1>0, <3>1, <3>2 DEF GrownBy
  <2>2. ASSUME NEW i \in Inodes, NEW j \in Inodes, i < j,
               NEW a \in DOMAIN content'[i], NEW b \in DOMAIN content'[j]
        PROVE  content'[i][a].msg < content'[j][b].msg
    <3>0. i # j /\ newest \in Inodes
      BY <1>0, <2>2 DEF Inodes, GrownBy
    <3>1. CASE i = newest
      <4>1. content[j] = <<>> /\ content'[j] = content[j]
        BY <1>0, <2>2, <3>0, <3>1 DEF FilesSound, GrownBy
      <4>. QED  BY <4>1
    <3>2. CASE i # newest
      <4>1. a \in DOMAIN content[i] /\ content'[i][a] = content[i][a]
        BY <1>0, <3>2 DEF GrownBy
      <4>2. CASE b \in DOMAIN content[j]
        <5>1. content'[j][b] = content[j][b]
          BY <1>0, <4>2, SMTT(60) DEF GrownBy
        <5>. QED  BY <1>0, <2>2, <4>1, <4>2, <5>1 DEF InOrder
      <4>3. CASE content'[j][b] = x
        BY <1>1, <3>2, <4>1, <4>3
      <4>. QED  BY <1>0, <4>2, <4>3 DEF GrownBy
    <3>. QED  BY <3>1, <3>2
  <2>. QED  BY <2>1, <2>2 DEF InOrder
<1>5. NothingMissing'
  <2>. SUFFICES ASSUME NEW m \in 1 .. Complete'
                PROVE  \E i \in Inodes : \E a \in DOMAIN content'[i] :
                         Ends(content'[i][a], m)
    BY DEF NothingMissing
  <2>1. CASE m \in 1 .. Complete
    <3>1. PICK i \in Inodes : \E a \in DOMAIN content[i] : Ends(content[i][a], m)
      BY <1>0, <2>1 DEF NothingMissing
    <3>2. PICK a \in DOMAIN content[i] : Ends(content[i][a], m)
      BY <3>1
    <3>3. a \in DOMAIN content'[i] /\ content'[i][a] = content[i][a]
      BY <1>0, SMTT(60) DEF GrownBy
    <3>. QED  BY <3>2, <3>3
  <2>2. CASE m \notin 1 .. Complete
    <3>1. x.part # "head" /\ m = x.msg
      BY <2>2, AddedLast
    <3>2. Ends(x, m)
      BY <3>1 DEF Ends
    <3>3. /\ Len(content'[newest]) \in DOMAIN content'[newest] /\ newest \in Inodes
          /\ content'[newest][Len(content'[newest])] = x
      BY <1>0 DEF GrownBy
    <3>. QED  BY <3>2, <3>3
  <2>. QED  BY <2>1, <2>2
<1>. QED  BY <1>3, <1>4, <1>5

(* A rotation comes between two messages.                                  *)
LEMMA RotationKeeps ==
    ASSUME WriterInv, RenameAway \/ CreateFile
    PROVE  /\ UNCHANGED <<content, written>> /\ ~HalfWritten /\ ~HalfWritten'
           /\ Complete' = Complete
<1>0. TypeOK /\ FilesSound
  BY DEF WriterInv
<1>1. UNCHANGED <<content, written>> /\ ~HalfWritten
  BY <1>0 DEF RenameAway, CreateFile, FilesSound
<1>2. ~HalfWritten'
  <2>1. CASE RenameAway
    BY <1>1, <2>1 DEF RenameAway, HalfWritten
  <2>2. CASE CreateFile
    <3>1. newest' \in Inodes /\ newest' > newest
      BY <1>0, <2>2, BoundsAssumption DEF CreateFile, FilesSound, TypeOK, Inodes
    <3>2. content[newest'] = <<>>
      BY <1>0, <3>1 DEF FilesSound
    <3>. QED  BY <1>1, <3>2 DEF HalfWritten
  <2>. QED  BY <2>1, <2>2
<1>. QED  BY <1>1, <1>2 DEF Complete

(* Every step of the writer leaves the files sound.                        *)
LEMMA WriterStep ==
    WriterInv /\ [Next]_vars => (FilesSound /\ InOrder /\ NothingMissing)'
<1>. SUFFICES ASSUME WriterInv, [Next]_vars
              PROVE  (FilesSound /\ InOrder /\ NothingMissing)'
  OBVIOUS
<1>0. TypeOK /\ FilesSound /\ InOrder /\ NothingMissing
  BY DEF WriterInv
<1>1. CASE WriteMessage \/ WriteRest
  <2>1. PICK x \in Chunk : Added(x)
    BY <1>1, AddsChunk
  <2>. QED  BY <2>1, AddedSound
<1>2. CASE UNCHANGED writerVars
  BY <1>0, <1>2 DEF writerVars, FilesSound, InOrder, NothingMissing, Complete,
                    HalfWritten
<1>3. CASE RenameAway \/ CreateFile
  <2>1. /\ UNCHANGED <<content, written>> /\ ~HalfWritten'
        /\ Complete' = Complete
    BY <1>3, RotationKeeps
  <2>2. /\ newest' \in Nat /\ newest <= newest' /\ newest \in Nat
        /\ newest' = 0 => missing'
        /\ missing' => newest' <= MaxRotations
    BY <1>0, <1>3, BoundsAssumption, SMTT(60) DEF FilesSound, TypeOK, RenameAway, CreateFile
  <2>3. \A i \in Inodes : i > newest' => i > newest
    BY <2>2 DEF Inodes
  <2>4. FilesSound'
    BY <1>0, <2>1, <2>2, <2>3 DEF FilesSound
  <2>5. InOrder'
    BY <1>0, <2>1 DEF InOrder
  <2>6. NothingMissing'
    BY <1>0, <2>1 DEF NothingMissing
  <2>. QED  BY <2>4, <2>5, <2>6
<1>5. CASE Cancel \/ Mirror \/ MirrorFails
  BY <1>2, <1>5 DEF Cancel, Mirror, MirrorFails, StatFirst, OpenNow, WaitFirst, OpenFirst,
                    SeekFirst, Read, Check, ReadOld, Reopen, ReadNew, Pause
<1>6. CASE UNCHANGED vars
  BY <1>2, <1>6 DEF vars
<1>. QED  BY <1>1, <1>3, <1>5, <1>6 DEF Next, Writer

----------------------------------------------------------------------------
(* The mirror.                                                             *)

(* What a read does: it appends the lines from the position to the end.    *)
Joined(v, L, w) ==
    /\ w \in Seq(Chunk) /\ Len(v) \in Nat
    /\ \A k \in DOMAIN v : k \in DOMAIN w /\ w[k] = v[k] /\ k \in 1 .. Len(v)
    /\ \A l \in DOMAIN L : /\ Len(v) + l \in DOMAIN w
                           /\ w[Len(v) + l] = L[l] /\ l \in Nat \ {0}
    /\ \A k \in DOMAIN w : k \in DOMAIN v \/ \E l \in DOMAIN L : k = Len(v) + l

ReadBy(L) ==
    /\ file \in Inodes /\ file \in 1 .. newest
    /\ content[file] \in Seq(Chunk) /\ WellFormed(content[file])
    /\ pos \in 0 .. Len(content[file]) /\ Len(content[file]) \in Nat
    /\ pos' = Len(content[file])
    /\ ScansAs(content[file], pos, L)
    /\ Joined(output, L, output')

LEMMA Concatenated ==
    ASSUME NEW v \in Seq(Chunk), NEW L \in Seq(Chunk), NEW w, w = v \o L
    PROVE  Joined(v, L, w)
<1>1. /\ w \in Seq(Chunk) /\ Len(v) \in Nat /\ Len(L) \in Nat
      /\ Len(w) = Len(v) + Len(L) /\ DOMAIN w = 1 .. Len(v) + Len(L)
      /\ DOMAIN v = 1 .. Len(v) /\ DOMAIN L = 1 .. Len(L)
      /\ \A k \in 1 .. Len(v) + Len(L) :
           w[k] = IF k <= Len(v) THEN v[k] ELSE L[k - Len(v)]
  BY ConcatProperties
<1>2. \A k \in DOMAIN v : k \in DOMAIN w /\ w[k] = v[k] /\ k \in 1 .. Len(v)
  BY <1>1
<1>3. ASSUME NEW l \in DOMAIN L
      PROVE  Len(v) + l \in DOMAIN w /\ w[Len(v) + l] = L[l] /\ l \in Nat \ {0}
  <2>1. /\ l \in Nat \ {0} /\ Len(v) + l \in 1 .. Len(v) + Len(L)
        /\ ~(Len(v) + l <= Len(v)) /\ (Len(v) + l) - Len(v) = l
    BY <1>1
  <2>. QED  BY <1>1, <2>1
<1>4. ASSUME NEW k \in DOMAIN w
      PROVE  k \in DOMAIN v \/ \E l \in DOMAIN L : k = Len(v) + l
  <2>1. CASE k > Len(v)
    <3>1. k - Len(v) \in 1 .. Len(L) /\ k = Len(v) + (k - Len(v))
      BY <1>1, <2>1
    <3>. QED  BY <1>1, <3>1
  <2>2. CASE k <= Len(v)
    BY <1>1, <2>2
  <2>. QED  BY <1>1, <2>1, <2>2
<1>. QED  BY <1>1, <1>2, <1>3, <1>4 DEF Joined

LEMMA Reads ==
    ASSUME WriterInv, FileKnown, Opened, MirrorAvailableMessages
    PROVE  \E L : ReadBy(L)
<1>. DEFINE c == content[file]
            L == ScanLines(SubSeq(c, pos + 1, Len(c)))
<1>1. TypeOK /\ FilesSound
  BY DEF WriterInv
<1>2. /\ file \in Inodes /\ file \in 1 .. newest /\ c \in Seq(Chunk) /\ WellFormed(c)
      /\ pos \in 0 .. Len(c) /\ output \in Seq(Chunk)
  <2>1. file \in Inodes /\ file \in 1 .. newest
    BY <1>1, BoundsAssumption DEF TypeOK, FileKnown, Inodes
  <2>2. c \in Seq(Chunk) /\ WellFormed(c)
    BY <1>1, <2>1 DEF TypeOK, FilesSound
  <2>. QED  BY <1>1, <2>1, <2>2 DEF TypeOK, FileKnown
<1>3. output' = output \o L /\ pos' = Len(c) /\ Len(c) \in Nat
  BY <1>2 DEF MirrorAvailableMessages
<1>. HIDE DEF c
<1>4. ScansAs(c, pos, L)
  BY <1>2, ScanFile
<1>. HIDE DEF L
<1>5. L \in Seq(Chunk)
  BY <1>4 DEF ScansAs
<1>6. Joined(output, L, output')
  BY <1>2, <1>3, <1>5, Concatenated
<1>. QED  BY <1>2, <1>3, <1>4, <1>6 DEF ReadBy, c

(* The only steps that write to the console.                               *)
ReadStep == Read \/ ReadOld \/ ReadNew

LEMMA ReadIs ==
    ASSUME ReadStep
    PROVE  /\ Opened /\ Opened' /\ Running /\ Running' /\ MirrorAvailableMessages
           /\ UNCHANGED <<writerVars, fromStart, cancelled, offset, file, fi, newFI,
                          closing, history>>
           /\ mirror \in {"read", "readOld", "readNew"}
           /\ mirror = "read" => mirror' = "check"
           /\ mirror = "readOld" => mirror' = "reopen"
           /\ mirror = "readNew" => mirror' = "pause"
BY DEF ReadStep, Read, ReadOld, ReadNew, Opened, Running

(* Every step keeps every variable in its type.                            *)
LEMMA TypeStep ==
    WriterInv /\ FileKnown /\ [Next]_vars => TypeOK'
<1>. SUFFICES ASSUME WriterInv, FileKnown, [Next]_vars
              PROVE  TypeOK'
  OBVIOUS
<1>. USE BoundsAssumption DEF writerVars, localVars, history
<1>c. Complete \in 0 .. MaxLines
  BY CompleteIs DEF WriterInv
<1>p. Path \in 0 .. MaxRotations + 1 /\ (Path # 0 => Path \in Inodes)
  BY BoundsAssumption DEF WriterInv, TypeOK, Path, Inodes
<1>f. FilesSound
  BY DEF WriterInv
<1>t. TypeOK
  BY DEF WriterInv
<1>. USE <1>t, <1>f DEF TypeOK
<1>1. CASE WriteMessage
  <2>1. PICK x \in Chunk : Added(x)
    BY <1>1, AddsChunk
  <2>2. content' \in [Inodes -> Seq(Chunk)] /\ written' \in 0 .. MaxLines
    BY <2>1 DEF Added, GrownBy
  <2>. QED  BY <1>1, <2>2 DEF WriteMessage
<1>2. CASE WriteRest
  <2>1. PICK x \in Chunk : Added(x)
    BY <1>2, AddsChunk
  <2>2. content' \in [Inodes -> Seq(Chunk)] /\ written' \in 0 .. MaxLines
    BY <2>1 DEF Added, GrownBy
  <2>. QED  BY <1>2, <2>2 DEF WriteRest
<1>3. CASE RenameAway
  <2>1. missing' \in BOOLEAN /\ overtaken' \in BOOLEAN
    BY <1>3 DEF RenameAway
  <2>. QED  BY <1>3, <2>1 DEF RenameAway
<1>4. CASE CreateFile
  <2>1. missing' \in BOOLEAN
    BY <1>4 DEF CreateFile
  <2>2. newest' \in 0 .. MaxRotations + 1
    BY <1>4 DEF CreateFile, FilesSound
  <2>. QED  BY <1>4, <2>1, <2>2 DEF CreateFile
<1>5. CASE Cancel
  <2>1. cancelled' \in BOOLEAN
    BY <1>5 DEF Cancel
  <2>2. atCancel' \in 0 .. MaxLines
    BY <1>5, <1>c DEF Cancel
  <2>. QED  BY <1>5, <2>1, <2>2 DEF Cancel
<1>6. CASE StatFirst
  <2>1. CASE Path = 0
    BY <1>6, <1>c, <2>1 DEF StatFirst
  <2>2. CASE Path # 0
    <3>1. content[Path] \in Seq(Chunk)
      BY <1>p, <2>2
    <3>2. Len(content[Path]) \in Nat
      BY <3>1
    <3>. QED  BY <1>6, <1>c, <2>2, <3>2 DEF StatFirst
  <2>. QED  BY <2>1, <2>2
<1>7. CASE OpenNow
  BY <1>7, <1>p DEF OpenNow
<1>8. CASE WaitFirst
  BY <1>8 DEF WaitFirst, WaitForFile
<1>9. CASE OpenFirst
  BY <1>9, <1>p DEF OpenFirst
<1>10. CASE SeekFirst
  <2>1. StartPosition \in Nat
    BY DEF StartPosition
  <2>. QED  BY <1>10, <2>1 DEF SeekFirst
<1>11. CASE Read
  <2>0. ReadStep
    BY <1>11 DEF ReadStep
  <2>1. PICK L : ReadBy(L)
    BY <2>0, ReadIs, Reads
  <2>2. output' \in Seq(Chunk) /\ pos' \in Nat
    BY <2>1 DEF ReadBy, Joined
  <2>3. /\ UNCHANGED <<writerVars, fromStart, cancelled, offset, file, fi, newFI,
                       closing, history>>
        /\ mirror' \in {"check", "reopen", "pause"}
    BY <2>0, ReadIs
  <2>. QED  BY <2>2, <2>3
<1>12. CASE Check
  BY <1>12, <1>p DEF Check, WaitForFile
<1>13. CASE ReadOld
  <2>0. ReadStep
    BY <1>13 DEF ReadStep
  <2>1. PICK L : ReadBy(L)
    BY <2>0, ReadIs, Reads
  <2>2. output' \in Seq(Chunk) /\ pos' \in Nat
    BY <2>1 DEF ReadBy, Joined
  <2>3. /\ UNCHANGED <<writerVars, fromStart, cancelled, offset, file, fi, newFI,
                       closing, history>>
        /\ mirror' \in {"check", "reopen", "pause"}
    BY <2>0, ReadIs
  <2>. QED  BY <2>2, <2>3
<1>14. CASE Reopen
  BY <1>14, <1>p DEF Reopen
<1>15. CASE ReadNew
  <2>0. ReadStep
    BY <1>15 DEF ReadStep
  <2>1. PICK L : ReadBy(L)
    BY <2>0, ReadIs, Reads
  <2>2. output' \in Seq(Chunk) /\ pos' \in Nat
    BY <2>1 DEF ReadBy, Joined
  <2>3. /\ UNCHANGED <<writerVars, fromStart, cancelled, offset, file, fi, newFI,
                       closing, history>>
        /\ mirror' \in {"check", "reopen", "pause"}
    BY <2>0, ReadIs
  <2>. QED  BY <2>2, <2>3
<1>16. CASE Pause
  <2>1. closing' \in BOOLEAN
    BY <1>16 DEF Pause
  <2>. QED  BY <1>16, <2>1 DEF Pause
<1>17. CASE UNCHANGED vars
  BY <1>17 DEF vars
<1>18. CASE MirrorFails
  BY <1>18 DEF MirrorFails
<1>. QED
  BY <1>1, <1>2, <1>3, <1>4, <1>5, <1>6, <1>7, <1>8, <1>9, <1>10, <1>11,
     <1>12, <1>13, <1>14, <1>15, <1>16, <1>17, <1>18
  DEF Next, Writer, Mirror

LEMMA AddedLonger ==
    ASSUME NEW x \in Chunk, Added(x), TypeOK
    PROVE  \A i \in Inodes : /\ Len(content[i]) \in Nat /\ Len(content'[i]) \in Nat
                             /\ Len(content[i]) <= Len(content'[i])
<1>1. \A i \in Inodes : content[i] \in Seq(Chunk)
  BY DEF TypeOK
<1>2. \A i \in Inodes : Len(content[i]) \in Nat
  BY <1>1
<1>. QED  BY <1>2, SMTT(60) DEF Added, GrownBy

(* The mirror knows which file it has open and how far it has read it.     *)
LEMMA FileStep ==
    WriterInv /\ StartKnown /\ FileKnown /\ [Next]_vars => FileKnown'
<1>. SUFFICES ASSUME WriterInv, StartKnown, FileKnown, [Next]_vars
              PROVE  FileKnown'
  OBVIOUS
<1>. USE DEF FileKnown, Opened, Running, localVars, writerVars,
         StartPosition
<1>t. TypeOK
  BY DEF WriterInv
<1>l. /\ 1 \in Inodes /\ \A i \in Inodes : Len(content[i]) \in Nat
      /\ pos \in Nat /\ offset \in Nat /\ StartPosition \in Nat
      /\ offset <= Len(content[1]) /\ (Opened => file \in Inodes)
  <2>1. \A i \in Inodes : content[i] \in Seq(Chunk)
    BY <1>t DEF TypeOK
  <2>2. 1 \in Inodes /\ (Opened => file \in Inodes)
    BY <1>t, BoundsAssumption DEF TypeOK, Inodes
  <2>. QED  BY <1>t, <2>1, <2>2 DEF TypeOK, StartKnown, StartPosition
<1>1. CASE WriteMessage
  <2>1. PICK x \in Chunk : Added(x)
    BY <1>1, AddsChunk
  <2>2. UNCHANGED <<newest, missing, fromStart, cancelled, mirror, localVars, output, history>>
    BY <1>1, <2>1 DEF WriteMessage, Added
  <2>3. \A i \in Inodes : Len(content[i]) <= Len(content'[i])
    BY <1>l, <2>1, <1>t, AddedLonger
  <2>4. Opened => pos <= Len(content'[file])
    BY <1>l, <2>1, <2>3, <1>t, AddedLonger
  <2>. QED  BY <2>2, <2>4
<1>2. CASE WriteRest
  <2>1. PICK x \in Chunk : Added(x)
    BY <1>2, AddsChunk
  <2>2. UNCHANGED <<newest, missing, fromStart, cancelled, mirror, localVars, output, history>>
    BY <1>2, <2>1 DEF WriteRest, Added
  <2>3. \A i \in Inodes : Len(content[i]) <= Len(content'[i])
    BY <1>l, <2>1, <1>t, AddedLonger
  <2>4. Opened => pos <= Len(content'[file])
    BY <1>l, <2>1, <2>3, <1>t, AddedLonger
  <2>. QED  BY <2>2, <2>4
<1>3. CASE RenameAway
  BY <1>3 DEF RenameAway
<1>4. CASE CreateFile
  <2>1. newest \in Nat /\ newest' = newest + 1 /\ ~missing' /\ missing
    BY <1>4, <1>t DEF CreateFile, TypeOK
  <2>2. mirror \in {"stat", "open"} => newest = 0 /\ mirror = "stat"
    BY <2>1
  <2>3. UNCHANGED <<content, fromStart, mirror, localVars, output>>
    BY <1>4 DEF CreateFile
  <2>4. newFI \in Nat /\ fi \in Nat /\ file \in Nat
    BY <1>t DEF TypeOK
  <2>. QED  BY <2>1, <2>2, <2>3, <2>4
<1>5. CASE Cancel
  BY <1>5 DEF Cancel
<1>6. CASE StatFirst
  <2>0. newest \in Nat /\ newest <= 1 /\ (newest = 1 => ~missing) /\ mirror = "stat"
    BY <1>6, <1>t DEF StatFirst, TypeOK
  <2>1. UNCHANGED <<content, newest, missing, fromStart, file, pos, output>>
    BY <1>6 DEF StatFirst
  <2>2. CASE Path = 0
    <3>1. mirror' = "wait" /\ offset' = 0
      BY <1>6, <2>2 DEF StatFirst
    <3>. QED  BY <2>0, <2>1, <3>1
  <2>3. CASE Path # 0
    <3>1. mirror' = "open"
      BY <1>6, <2>3 DEF StatFirst
    <3>2. newest = 1
      BY <2>0, <2>3 DEF Path
    <3>. QED  BY <2>0, <2>1, <3>1, <3>2
  <2>. QED  BY <2>2, <2>3
<1>7. CASE OpenNow
  <2>1. Path = 1 /\ newest = 1
    BY <1>7 DEF OpenNow, Path
  <2>. QED  BY <1>7, <1>l, <2>1 DEF OpenNow
<1>8. CASE WaitFirst
  BY <1>8 DEF WaitFirst, WaitForFile
<1>9. CASE OpenFirst
  <2>1. Path # 0 => Path = newest /\ newest \in Inodes
    BY <1>t, BoundsAssumption DEF Path, TypeOK, Inodes
  <2>2. /\ UNCHANGED <<content, newest, missing, fromStart, offset, pos, output>>
        /\ mirror = "openFirst" /\ file' = Path
    BY <1>9 DEF OpenFirst
  <2>3. CASE Path = 0
    <3>1. mirror' = "failed"
      BY <1>9, <2>3 DEF OpenFirst
    <3>. QED  BY <2>2, <3>1
  <2>4. CASE Path # 0
    <3>1. mirror' = "seek"
      BY <1>9, <2>4 DEF OpenFirst
    <3>2. newest \in 1 .. newest /\ 0 <= Len(content[newest])
      BY <1>l, <2>1, <2>4 DEF Inodes
    <3>. QED  BY <2>1, <2>2, <2>4, <3>1, <3>2
  <2>. QED  BY <2>3, <2>4
<1>10. CASE SeekFirst
  <2>1. StartPosition <= Len(content[file])
    BY <1>10, <1>l DEF SeekFirst, StartPosition
  <2>. QED  BY <1>10, <1>l, <2>1 DEF SeekFirst, StartPosition
<1>11. CASE Read
  <2>0. ReadStep
    BY <1>11 DEF ReadStep
  <2>1. PICK L : ReadBy(L)
    BY <2>0, ReadIs, Reads
  <2>2. /\ UNCHANGED <<writerVars, fromStart, offset, file, fi, newFI>>
        /\ Opened /\ Opened' /\ Running /\ Running'
        /\ mirror' \in {"check", "reopen", "pause"}
        /\ mirror' = "reopen" => mirror = "readOld"
    BY <2>0, ReadIs
  <2>3. pos' = Len(content[file]) /\ pos' \in Nat /\ pos <= pos'
    BY <2>1 DEF ReadBy
  <2>4. file = 1 => StartPosition <= pos'
    BY <1>l, <2>2, <2>3
  <2>. HIDE DEF Opened, Running
  <2>. QED  BY <2>2, <2>3, <2>4
<1>12. CASE Check
  <2>1. CASE Path = 0
    BY <1>12, <2>1 DEF Check, WaitForFile
  <2>2. CASE Path # 0
    <3>1. Path = newest
      BY <2>2 DEF Path
    <3>2. Path # fi => Path \in fi + 1 .. newest
      BY <1>12, <1>t, <3>1 DEF Check, TypeOK
    <3>. QED  BY <1>12, <2>2, <3>1, <3>2 DEF Check, WaitForFile
  <2>. QED  BY <2>1, <2>2
<1>13. CASE ReadOld
  <2>0. ReadStep
    BY <1>13 DEF ReadStep
  <2>1. PICK L : ReadBy(L)
    BY <2>0, ReadIs, Reads
  <2>2. /\ UNCHANGED <<writerVars, fromStart, offset, file, fi, newFI>>
        /\ Opened /\ Opened' /\ Running /\ Running'
        /\ mirror' \in {"check", "reopen", "pause"}
        /\ mirror' = "reopen" => mirror = "readOld"
    BY <2>0, ReadIs
  <2>3. pos' = Len(content[file]) /\ pos' \in Nat /\ pos <= pos'
    BY <2>1 DEF ReadBy
  <2>4. file = 1 => StartPosition <= pos'
    BY <1>l, <2>2, <2>3
  <2>. HIDE DEF Opened, Running
  <2>. QED  BY <2>2, <2>3, <2>4
<1>14. CASE Reopen
  <2>1. CASE Path = 0
    BY <1>14, <2>1 DEF Reopen
  <2>2. CASE Path # 0
    <3>1. Path = newest /\ newFI \in 1 .. newest /\ newest # 1 /\ newest \in Inodes
      BY <1>14, <1>t, <2>2, BoundsAssumption DEF Path, Reopen, TypeOK, Inodes
    <3>2. /\ file' = newest /\ pos' = 0 /\ fi' = newFI /\ mirror' = "readNew"
          /\ UNCHANGED <<content, newest, missing, offset, fromStart, output>>
      BY <1>14, <2>2, <3>1 DEF Reopen
    <3>3. newest \in 1 .. newest /\ 0 <= Len(content[newest])
      BY <1>l, <3>1 DEF Inodes
    <3>. QED  BY <3>1, <3>2, <3>3
  <2>. QED  BY <2>1, <2>2
<1>15. CASE ReadNew
  <2>0. ReadStep
    BY <1>15 DEF ReadStep
  <2>1. PICK L : ReadBy(L)
    BY <2>0, ReadIs, Reads
  <2>2. /\ UNCHANGED <<writerVars, fromStart, offset, file, fi, newFI>>
        /\ Opened /\ Opened' /\ Running /\ Running'
        /\ mirror' \in {"check", "reopen", "pause"}
        /\ mirror' = "reopen" => mirror = "readOld"
    BY <2>0, ReadIs
  <2>3. pos' = Len(content[file]) /\ pos' \in Nat /\ pos <= pos'
    BY <2>1 DEF ReadBy
  <2>4. file = 1 => StartPosition <= pos'
    BY <1>l, <2>2, <2>3
  <2>. HIDE DEF Opened, Running
  <2>. QED  BY <2>2, <2>3, <2>4
<1>16. CASE Pause
  BY <1>16 DEF Pause
<1>17. CASE UNCHANGED vars
  <2>1. UNCHANGED <<content, newest, missing, fromStart, mirror, localVars, output>>
    BY <1>17 DEF vars, writerVars
  <2>. QED  BY <2>1
<1>18. CASE MirrorFails
  BY <1>18 DEF MirrorFails
<1>. QED
  BY <1>1, <1>2, <1>3, <1>4, <1>5, <1>6, <1>7, <1>8, <1>9, <1>10, <1>11,
     <1>12, <1>13, <1>14, <1>15, <1>16, <1>17, <1>18
  DEF Next, Writer, Mirror

(* A rotation that is not seen in time is noticed as such.                 *)
LEMMA OvertakingStep ==
    WriterInv /\ FileKnown /\ NotOvertaken /\ [Next]_vars => NotOvertaken'
<1>. SUFFICES ASSUME WriterInv, FileKnown, NotOvertaken, [Next]_vars
              PROVE  NotOvertaken'
  OBVIOUS
<1>. USE DEF FileKnown, NotOvertaken, Opened, Running, localVars,
         writerVars, history
<1>t. TypeOK
  BY DEF WriterInv
<1>1. CASE WriteMessage
  <2>1. PICK x \in Chunk : Added(x)
    BY <1>1, AddsChunk
  <2>2. UNCHANGED <<newest, missing, fromStart, cancelled, mirror, localVars, output, history>>
    BY <1>1, <2>1 DEF WriteMessage, Added
  <2>3. file \in Inodes /\ newest = file + 1 => content'[file] = content[file]
    <3>1. file # file + 1
      BY <1>t DEF TypeOK
    <3>. QED  BY <2>1, <3>1 DEF Added, GrownBy
  <2>4. mirror = "reopen" => file \in Inodes
    BY <1>t, BoundsAssumption DEF TypeOK, Inodes
  <2>. QED  BY <2>2, <2>3, <2>4
<1>2. CASE WriteRest
  <2>1. PICK x \in Chunk : Added(x)
    BY <1>2, AddsChunk
  <2>2. UNCHANGED <<newest, missing, fromStart, cancelled, mirror, localVars, output, history>>
    BY <1>2, <2>1 DEF WriteRest, Added
  <2>3. file \in Inodes /\ newest = file + 1 => content'[file] = content[file]
    <3>1. file # file + 1
      BY <1>t DEF TypeOK
    <3>. QED  BY <2>1, <3>1 DEF Added, GrownBy
  <2>4. mirror = "reopen" => file \in Inodes
    BY <1>t, BoundsAssumption DEF TypeOK, Inodes
  <2>. QED  BY <2>2, <2>3, <2>4
<1>3. CASE RenameAway
  <2>1. /\ UNCHANGED <<content, newest, mirror, localVars>> /\ ~missing
        /\ overtaken' = (overtaken \/ file # newest)
    BY <1>3 DEF RenameAway
  <2>2. CASE overtaken'
    BY <2>2
  <2>3. CASE ~overtaken'
    <3>0. ~overtaken /\ file = newest
      BY <2>1, <2>3, Zenon
    <3>1. ~overtaken /\ file = newest /\ file # file + 1 /\ newest # 0
      <4>1. file # file + 1
        BY <1>t DEF TypeOK
      <4>2. newest # 0
        BY <2>1 DEF WriterInv, FilesSound
      <4>. QED  BY <3>0, <4>1, <4>2
    <3>. QED  BY <2>1, <3>1
  <2>. QED  BY <2>2, <2>3
<1>4. CASE CreateFile
  <2>1. newest \in Nat /\ newest' = newest + 1 /\ ~missing' /\ missing
    BY <1>4, <1>t DEF CreateFile, TypeOK
  <2>2. UNCHANGED <<content, mirror, localVars, overtaken>>
    BY <1>4 DEF CreateFile
  <2>. QED  BY <2>1, <2>2
<1>5. CASE Cancel
  BY <1>5 DEF Cancel
<1>6. CASE StatFirst
  <2>0. newest \in Nat /\ newest <= 1 /\ (newest = 1 => ~missing)
    BY <1>6, <1>t DEF StatFirst, TypeOK
  <2>1. Path = 0 => newest = 0
    BY <2>0 DEF Path
  <2>. QED  BY <1>6, <2>0, <2>1 DEF StatFirst
<1>7. CASE OpenNow
  <2>1. Path = 1 /\ newest = 1
    BY <1>7 DEF OpenNow, Path
  <2>. QED  BY <1>7, <2>1 DEF OpenNow
<1>8. CASE WaitFirst
  BY <1>8 DEF WaitFirst, WaitForFile
<1>9. CASE OpenFirst
  <2>1. Path # 0 => Path = newest /\ newest # 0 /\ newest \in Nat
    BY <1>t DEF Path, TypeOK
  <2>. QED  BY <1>9, <2>1 DEF OpenFirst
<1>10. CASE SeekFirst
  BY <1>10 DEF SeekFirst
<1>11. CASE Read
  <2>0. ReadStep
    BY <1>11 DEF ReadStep
  <2>1. PICK L : ReadBy(L)
    BY <2>0, ReadIs, Reads
  <2>2. /\ UNCHANGED <<writerVars, fromStart, offset, file, fi, newFI, history>>
        /\ Opened /\ Opened' /\ Running /\ Running'
        /\ mirror' \in {"check", "reopen", "pause"}
        /\ mirror' = "reopen" => mirror = "readOld"
    BY <2>0, ReadIs
  <2>3. pos' = Len(content[file])
    BY <2>1 DEF ReadBy
  <2>. HIDE DEF Opened, Running
  <2>. QED  BY <2>2, <2>3
<1>12. CASE Check
  <2>1. CASE Path = 0
    BY <1>12, <2>1 DEF Check, WaitForFile
  <2>2. CASE Path # 0
    BY <1>12, <2>2 DEF Check, WaitForFile, Path
  <2>. QED  BY <2>1, <2>2
<1>13. CASE ReadOld
  <2>0. ReadStep
    BY <1>13 DEF ReadStep
  <2>1. PICK L : ReadBy(L)
    BY <2>0, ReadIs, Reads
  <2>2. /\ UNCHANGED <<writerVars, fromStart, offset, file, fi, newFI, history>>
        /\ Opened /\ Opened' /\ Running /\ Running'
        /\ mirror' \in {"check", "reopen", "pause"}
        /\ mirror' = "reopen" => mirror = "readOld"
    BY <2>0, ReadIs
  <2>3. pos' = Len(content[file])
    BY <2>1 DEF ReadBy
  <2>. HIDE DEF Opened, Running
  <2>. QED  BY <2>2, <2>3
<1>14. CASE Reopen
  <2>1. CASE Path = 0
    BY <1>14, <2>1 DEF Reopen
  <2>2. CASE Path # 0
    BY <1>14, <2>2 DEF Reopen, Path
  <2>. QED  BY <2>1, <2>2
<1>15. CASE ReadNew
  <2>0. ReadStep
    BY <1>15 DEF ReadStep
  <2>1. PICK L : ReadBy(L)
    BY <2>0, ReadIs, Reads
  <2>2. /\ UNCHANGED <<writerVars, fromStart, offset, file, fi, newFI, history>>
        /\ Opened /\ Opened' /\ Running /\ Running'
        /\ mirror' \in {"check", "reopen", "pause"}
        /\ mirror' = "reopen" => mirror = "readOld"
    BY <2>0, ReadIs
  <2>3. pos' = Len(content[file])
    BY <2>1 DEF ReadBy
  <2>. HIDE DEF Opened, Running
  <2>. QED  BY <2>2, <2>3
<1>16. CASE Pause
  BY <1>16 DEF Pause
<1>17. CASE UNCHANGED vars
  BY <1>17 DEF vars
<1>18. CASE MirrorFails
  BY <1>18 DEF MirrorFails
<1>. QED
  BY <1>1, <1>2, <1>3, <1>4, <1>5, <1>6, <1>7, <1>8, <1>9, <1>10, <1>11,
     <1>12, <1>13, <1>14, <1>15, <1>16, <1>17, <1>18
  DEF Next, Writer, Mirror

(* What is due is what comes after the start position.                     *)
LEMMA StartStep ==
    WriterInv /\ FileKnown /\ StartKnown /\ [Next]_vars => StartKnown'
<1>. SUFFICES ASSUME WriterInv, FileKnown, StartKnown, [Next]_vars
              PROVE  StartKnown'
  OBVIOUS
<1>. USE DEF localVars, writerVars, history
<1>t. TypeOK
  BY DEF WriterInv
<1>l. /\ 1 \in Inodes /\ \A i \in Inodes : Len(content[i]) \in Nat
      /\ offset \in Nat
  <2>1. \A i \in Inodes : content[i] \in Seq(Chunk)
    BY <1>t DEF TypeOK
  <2>2. 1 \in Inodes
    BY BoundsAssumption DEF Inodes
  <2>. QED  BY <1>t, <2>1, <2>2 DEF TypeOK
<1>c. /\ Complete \in Nat
      /\ HalfWritten => Complete = written - 1
      /\ ~HalfWritten => Complete = written
  BY <1>t, CompleteIs DEF WriterInv
<1>s. UNCHANGED <<content, newest, written, fromStart, offset, notDue>> /\ mirror' # "stat"
        => StartKnown'
  BY DEF StartKnown, StartPosition, Complete, HalfWritten
<1>1. CASE WriteMessage
  <2>1. PICK x \in Chunk : Added(x)
    BY <1>1, AddsChunk
  <2>2. UNCHANGED <<newest, missing, fromStart, cancelled, mirror, localVars, output, history>>
    BY <1>1, <2>1 DEF WriteMessage, Added
  <2>3. Complete \in Nat /\ Complete <= Complete' /\ x.msg > Complete
    BY <2>1, AddedLast
  <2>4. notDue <= Complete' /\ x.msg > notDue
    <3>1. notDue \in Nat /\ x.msg \in Nat
      BY <1>t DEF TypeOK, Chunk
    <3>2. Complete' \in Nat
      BY <2>1, <2>3, AddedLast
    <3>3. notDue <= Complete
      BY DEF StartKnown
    <3>. QED  BY <2>3, <3>1, <3>2, <3>3
  <2>5. StartPosition' = StartPosition
    BY <2>2 DEF StartPosition
  <2>6. offset' <= Len(content'[1])
    BY <1>l, <1>t, <2>1, <2>2, AddedLonger DEF StartKnown
  <2>7. ASSUME NEW i \in Inodes, NEW a \in DOMAIN content'[i], i > 1 \/ a > StartPosition
        PROVE  content'[i][a].msg > notDue
    BY <2>1, <2>4, <2>7 DEF Added, GrownBy, StartKnown
  <2>8. ASSUME NEW a \in DOMAIN content'[1], a <= StartPosition
        PROVE  content'[1][a].msg <= notDue \/ content'[1][a].part = "head"
    <3>1. a \in DOMAIN content[1]
      <4>1. content[1] \in Seq(Chunk) /\ content'[1] \in Seq(Chunk)
        BY <1>l, <1>t, <2>1 DEF TypeOK, Added, GrownBy
      <4>2. a \in Nat \ {0} /\ a <= Len(content[1])
        BY <1>l, <2>8, <4>1 DEF StartKnown, StartPosition
      <4>. QED  BY <4>1, <4>2
    <3>2. content'[1][a] = content[1][a]
      BY <1>l, <2>1, <3>1 DEF Added, GrownBy
    <3>. QED  BY <2>8, <3>1, <3>2 DEF StartKnown
  <2>. QED  BY <2>2, <2>4, <2>5, <2>6, <2>7, <2>8 DEF StartKnown
<1>2. CASE WriteRest
  <2>1. PICK x \in Chunk : Added(x)
    BY <1>2, AddsChunk
  <2>2. UNCHANGED <<newest, missing, fromStart, cancelled, mirror, localVars, output, history>>
    BY <1>2, <2>1 DEF WriteRest, Added
  <2>3. Complete \in Nat /\ Complete <= Complete' /\ x.msg > Complete
    BY <2>1, AddedLast
  <2>4. notDue <= Complete' /\ x.msg > notDue
    <3>1. notDue \in Nat /\ x.msg \in Nat
      BY <1>t DEF TypeOK, Chunk
    <3>2. Complete' \in Nat
      BY <2>1, <2>3, AddedLast
    <3>3. notDue <= Complete
      BY DEF StartKnown
    <3>. QED  BY <2>3, <3>1, <3>2, <3>3
  <2>5. StartPosition' = StartPosition
    BY <2>2 DEF StartPosition
  <2>6. offset' <= Len(content'[1])
    BY <1>l, <1>t, <2>1, <2>2, AddedLonger DEF StartKnown
  <2>7. ASSUME NEW i \in Inodes, NEW a \in DOMAIN content'[i], i > 1 \/ a > StartPosition
        PROVE  content'[i][a].msg > notDue
    BY <2>1, <2>4, <2>7 DEF Added, GrownBy, StartKnown
  <2>8. ASSUME NEW a \in DOMAIN content'[1], a <= StartPosition
        PROVE  content'[1][a].msg <= notDue \/ content'[1][a].part = "head"
    <3>1. a \in DOMAIN content[1]
      <4>1. content[1] \in Seq(Chunk) /\ content'[1] \in Seq(Chunk)
        BY <1>l, <1>t, <2>1 DEF TypeOK, Added, GrownBy
      <4>2. a \in Nat \ {0} /\ a <= Len(content[1])
        BY <1>l, <2>8, <4>1 DEF StartKnown, StartPosition
      <4>. QED  BY <4>1, <4>2
    <3>2. content'[1][a] = content[1][a]
      BY <1>l, <2>1, <3>1 DEF Added, GrownBy
    <3>. QED  BY <2>8, <3>1, <3>2 DEF StartKnown
  <2>. QED  BY <2>2, <2>4, <2>5, <2>6, <2>7, <2>8 DEF StartKnown
<1>3. CASE RenameAway
  <2>1. UNCHANGED <<content, written>> /\ Complete' = Complete
    BY <1>3, RotationKeeps
  <2>2. UNCHANGED <<fromStart, offset, notDue, mirror>>
    BY <1>3 DEF RenameAway
  <2>. QED  BY <2>1, <2>2 DEF StartKnown, StartPosition
<1>4. CASE CreateFile
  <2>1. UNCHANGED <<content, written>> /\ Complete' = Complete
    BY <1>4, RotationKeeps
  <2>2. UNCHANGED <<fromStart, offset, notDue, mirror>>
    BY <1>4 DEF CreateFile
  <2>. QED  BY <2>1, <2>2 DEF StartKnown, StartPosition
<1>5. CASE Cancel
  <2>1. UNCHANGED <<content, newest, written, fromStart, offset, notDue, mirror>>
    BY <1>5 DEF Cancel
  <2>. QED  BY <2>1 DEF StartKnown, StartPosition, Complete, HalfWritten
<1>6. CASE StatFirst
  <2>0. /\ UNCHANGED <<content, newest, missing, written, fromStart>> /\ mirror' # "stat"
        /\ mirror = "stat"
    BY <1>6 DEF StatFirst
  <2>1. Complete' = Complete /\ HalfWritten' = HalfWritten
    BY <2>0 DEF Complete, HalfWritten
  <2>2. \A i \in Inodes : i > 1 => content[i] = <<>>
    <3>1. newest <= 1 /\ newest \in Nat
      BY <1>t, <2>0 DEF FileKnown, TypeOK
    <3>2. \A i \in Inodes : i > 1 => i > newest
      BY <3>1 DEF Inodes
    <3>. QED  BY <3>2 DEF WriterInv, FilesSound
  <2>3. CASE Path = 0
    <3>1. offset' = 0 /\ notDue' = Complete
      BY <1>6, <2>3 DEF StatFirst
    <3>2. newest = 0
      <4>1. newest \in Nat /\ newest <= 1 /\ (newest = 1 => ~missing)
        BY <1>t, <2>0 DEF FileKnown, TypeOK
      <4>. QED  BY <2>3, <4>1 DEF Path
    <3>3. \A i \in Inodes : content[i] = <<>>
      BY <3>2 DEF WriterInv, FilesSound, Inodes
    <3>4. StartPosition' = 0
      BY <3>1 DEF StartPosition
    <3>. QED  BY <1>l, <1>c, <2>0, <2>1, <3>1, <3>3, <3>4 DEF StartKnown
  <2>4. CASE Path # 0
    <3>1. Path = 1 /\ newest = 1
      BY <1>t, <2>0, <2>4 DEF Path, FileKnown, TypeOK
    <3>2. offset' = Len(content[1]) /\ notDue' = IF fromStart THEN 0 ELSE Complete
      BY <1>6, <2>4, <3>1 DEF StatFirst
    <3>3. content[1] \in Seq(Chunk) /\ \A a \in DOMAIN content[1] :
            /\ a \in 1 .. Len(content[1]) /\ content[1][a] \in Chunk
            /\ content[1][a].msg \in Nat \ {0}
      <4>1. content[1] \in Seq(Chunk)
        BY <1>l, <1>t DEF TypeOK
      <4>2. \A a \in DOMAIN content[1] :
              a \in 1 .. Len(content[1]) /\ content[1][a] \in Chunk
        BY <4>1
      <4>. QED  BY <4>1, <4>2 DEF Chunk
    <3>4. CASE fromStart
      <4>1. StartPosition' = 0 /\ notDue' = 0
        BY <2>0, <3>2, <3>4 DEF StartPosition
      <4>2. \A i \in Inodes : \A a \in DOMAIN content[i] : content[i][a].msg > 0
        <5>. TAKE i \in Inodes
        <5>1. CASE i > 1
          BY <2>2, <5>1
        <5>2. CASE i = 1
          BY <3>3, <5>2
        <5>. QED  BY <5>1, <5>2 DEF Inodes
      <4>3. \A a \in DOMAIN content[1] : ~(a <= 0)
        BY <3>3
      <4>. QED  BY <1>l, <1>c, <2>0, <2>1, <3>2, <4>1, <4>2, <4>3 DEF StartKnown
    <3>5. CASE ~fromStart
      <4>1. StartPosition' = Len(content[1]) /\ notDue' = Complete
        BY <2>0, <3>2, <3>5 DEF StartPosition
      <4>2. \A i \in Inodes : \A a \in DOMAIN content[i] : ~(i > 1 \/ a > Len(content[1]))
        <5>. TAKE i \in Inodes
        <5>1. CASE i > 1
          BY <2>2, <5>1
        <5>2. CASE i = 1
          BY <1>l, <3>3, <5>2
        <5>. QED  BY <5>1, <5>2 DEF Inodes
      <4>3. \A a \in DOMAIN content[1] :
              content[1][a].msg <= Complete \/ content[1][a].part = "head"
        <5>. TAKE a \in DOMAIN content[1]
        <5>1. content[1][a].msg <= written /\ content[1][a].msg \in Nat /\ written \in Nat
          BY <1>l, <1>t, <3>3 DEF WriterInv, InOrder, TypeOK
        <5>2. CASE HalfWritten /\ content[1][a].msg = written
          BY <1>l, <1>t, <5>2, HalfIsLast DEF WriterInv
        <5>3. CASE ~(HalfWritten /\ content[1][a].msg = written)
          BY <1>c, <5>1, <5>3
        <5>. QED  BY <5>2, <5>3
      <4>. QED  BY <1>l, <1>c, <2>0, <2>1, <3>2, <4>1, <4>2, <4>3 DEF StartKnown
    <3>. QED  BY <3>4, <3>5
  <2>. QED  BY <2>3, <2>4
<1>7. CASE OpenNow
  <2>1. /\ UNCHANGED <<content, newest, written, fromStart, offset, notDue>>
        /\ mirror' # "stat"
    BY <1>7 DEF OpenNow
  <2>. QED  BY <1>s, <2>1
<1>8. CASE WaitFirst
  <2>1. /\ UNCHANGED <<content, newest, written, fromStart, offset, notDue>>
        /\ mirror' # "stat"
    BY <1>8 DEF WaitFirst, WaitForFile
  <2>. QED  BY <1>s, <2>1
<1>9. CASE OpenFirst
  <2>1. /\ UNCHANGED <<content, newest, written, fromStart, offset, notDue>>
        /\ mirror' # "stat"
    BY <1>9 DEF OpenFirst
  <2>. QED  BY <1>s, <2>1
<1>10. CASE SeekFirst
  <2>1. /\ UNCHANGED <<content, newest, written, fromStart, offset, notDue>>
        /\ mirror' # "stat"
    BY <1>10 DEF SeekFirst
  <2>. QED  BY <1>s, <2>1
<1>11. CASE Read
  <2>1. /\ UNCHANGED <<content, newest, written, fromStart, offset, notDue>>
        /\ mirror' # "stat"
    BY <1>11 DEF Read
  <2>. QED  BY <1>s, <2>1
<1>12. CASE Check
  <2>1. /\ UNCHANGED <<content, newest, written, fromStart, offset, notDue>>
        /\ mirror' # "stat"
    BY <1>12 DEF Check, WaitForFile
  <2>. QED  BY <1>s, <2>1
<1>13. CASE ReadOld
  <2>1. /\ UNCHANGED <<content, newest, written, fromStart, offset, notDue>>
        /\ mirror' # "stat"
    BY <1>13 DEF ReadOld
  <2>. QED  BY <1>s, <2>1
<1>14. CASE Reopen
  <2>1. /\ UNCHANGED <<content, newest, written, fromStart, offset, notDue>>
        /\ mirror' # "stat"
    BY <1>14 DEF Reopen
  <2>. QED  BY <1>s, <2>1
<1>15. CASE ReadNew
  <2>1. /\ UNCHANGED <<content, newest, written, fromStart, offset, notDue>>
        /\ mirror' # "stat"
    BY <1>15 DEF ReadNew
  <2>. QED  BY <1>s, <2>1
<1>16. CASE Pause
  <2>1. /\ UNCHANGED <<content, newest, written, fromStart, offset, notDue>>
        /\ mirror' # "stat"
    BY <1>16 DEF Pause
  <2>. QED  BY <1>s, <2>1
<1>17. CASE UNCHANGED vars
  <2>1. UNCHANGED <<content, newest, written, fromStart, offset, notDue, mirror>>
    BY <1>17 DEF vars, writerVars, localVars, history
  <2>. QED  BY <2>1 DEF StartKnown, StartPosition, Complete, HalfWritten
<1>18. CASE MirrorFails
  <2>1. /\ UNCHANGED <<content, newest, written, fromStart, offset, notDue>>
        /\ mirror' # "stat"
    BY <1>18 DEF MirrorFails
  <2>. QED  BY <1>s, <2>1
<1>. QED
  BY <1>1, <1>2, <1>3, <1>4, <1>5, <1>6, <1>7, <1>8, <1>9, <1>10, <1>11,
     <1>12, <1>13, <1>14, <1>15, <1>16, <1>17, <1>18
  DEF Next, Writer, Mirror

----------------------------------------------------------------------------
(* What is mirrored.                                                       *)
LinesInv == OutputKnown /\ Ordered /\ Behind /\ Covered /\ HeadsFirst

(* A step that neither reads, writes nor moves to another place.           *)
Quiet ==
    /\ UNCHANGED <<content, written, output, file, pos, notDue, offset, fromStart>>
    /\ HalfWritten' => HalfWritten
    /\ overtaken => overtaken'
    /\ Running' => Running

LEMMA QuietLines == LinesInv /\ Quiet => LinesInv'
<1>. SUFFICES ASSUME LinesInv, Quiet PROVE LinesInv'
  OBVIOUS
<1>. USE DEF LinesInv, Quiet
<1>1. OutputKnown'
  BY DEF OutputKnown
<1>2. Ordered'
  BY DEF Ordered
<1>3. Behind'
  BY DEF Behind, ToRead
<1>4. Covered'
  BY DEF Covered, HasRead, Mirrored
<1>5. HeadsFirst'
  BY DEF HeadsFirst, HeadOut
<1>. QED  BY <1>1, <1>2, <1>3, <1>4, <1>5

(* Before the first read nothing is mirrored.                              *)
LEMMA NoLines ==
    ASSUME output' = <<>>, ~Running'
    PROVE  LinesInv'
BY DEF LinesInv, OutputKnown, Ordered, Behind, Covered, HeadsFirst

(* What is written comes after what is mirrored, and after the position.   *)
LEMMA AddedLines ==
    ASSUME WriterInv, FileKnown, StartKnown, LinesInv, NEW x \in Chunk, Added(x),
           UNCHANGED <<fromStart, mirror, localVars, output, history>>
    PROVE  LinesInv'
<1>0. /\ TypeOK /\ GrownBy(x)
      /\ OutputKnown /\ Ordered /\ Behind /\ Covered /\ HeadsFirst
      /\ UNCHANGED <<newest, offset, file, pos, notDue, overtaken>>
      /\ Running' = Running
  BY DEF WriterInv, Added, LinesInv, localVars, history, Running, Opened
<1>a. /\ written \in Nat /\ written' \in Nat /\ x.msg = written' /\ written <= written'
      /\ \/ ~HalfWritten /\ written' = written + 1
         \/ HalfWritten /\ written' = written /\ x.part = "tail"
      /\ HalfWritten' <=> x.part = "head"
  BY AddedLast DEF Added
<1>o. \A k \in DOMAIN output : output[k] \in Chunk /\ output[k].msg \in Nat
  <2>1. output \in Seq(Chunk)
    BY <1>0 DEF TypeOK
  <2>2. \A k \in DOMAIN output : output[k] \in Chunk
    BY <2>1
  <2>. QED  BY <2>2 DEF Chunk
<1>n. notDue \in Nat
  BY <1>0 DEF TypeOK
<1>1. OutputKnown'
  <2>. SUFFICES ASSUME NEW k \in DOMAIN output
                PROVE  /\ output[k].msg \in notDue + 1 .. written'
                       /\ HalfWritten' /\ output[k].msg = written'
                            => output[k].part = "head"
    BY <1>0 DEF OutputKnown
  <2>1. /\ output[k].msg \in notDue + 1 .. written
        /\ HalfWritten /\ output[k].msg = written => output[k].part = "head"
    BY <1>0 DEF OutputKnown
  <2>2. output[k].msg \in notDue + 1 .. written'
    BY <1>a, <1>n, <1>o, <2>1
  <2>3. HalfWritten' => output[k].msg # written'
    BY <1>a, <1>n, <1>o, <2>1
  <2>. QED  BY <2>2, <2>3
<1>2. Ordered'
  BY <1>0 DEF Ordered
<1>b. \A k \in DOMAIN output : Before(output[k], x)
  <2>. TAKE k \in DOMAIN output
  <2>1. /\ output[k].msg \in notDue + 1 .. written
        /\ HalfWritten /\ output[k].msg = written => output[k].part = "head"
    BY <1>0 DEF OutputKnown
  <2>2. output[k].msg <= written /\ output[k].msg \in Nat
    BY <1>n, <1>o, <2>1
  <2>. QED  BY <1>a, <2>1, <2>2 DEF Before
<1>3. Behind'
  <2>. SUFFICES ASSUME ~overtaken, Running, NEW k \in DOMAIN output, NEW i \in Inodes,
                       NEW a \in DOMAIN content'[i], ToRead(i, a)
                PROVE  Before(output[k], content'[i][a])
    BY <1>0 DEF Behind, ToRead
  <2>1. CASE a \in DOMAIN content[i]
    BY <1>0, <2>1 DEF Behind, GrownBy
  <2>2. CASE content'[i][a] = x
    BY <1>b, <2>2
  <2>. QED  BY <1>0, <2>1, <2>2 DEF GrownBy
<1>f. /\ Opened => file \in Inodes /\ file <= newest /\ pos <= Len(content[file])
      /\ pos \in Nat /\ newest \in Inodes /\ file \in Nat
  BY <1>0, BoundsAssumption DEF FileKnown, TypeOK, Inodes, GrownBy
<1>d. \A i \in Inodes : /\ content[i] \in Seq(Chunk)
                        /\ DOMAIN content[i] = 1 .. Len(content[i])
                        /\ Len(content[i]) \in Nat
  <2>1. \A i \in Inodes : content[i] \in Seq(Chunk)
    BY <1>0 DEF TypeOK
  <2>. QED  BY <2>1
<1>4. Covered'
  <2>. SUFFICES ASSUME ~overtaken, Running, NEW i \in Inodes,
                       NEW a \in DOMAIN content'[i], HasRead(i, a),
                       content'[i][a].part # "head", content'[i][a].msg > notDue
                PROVE  Mirrored(content'[i][a].msg)
    BY <1>0 DEF Covered, HasRead, Mirrored
  <2>1. CASE a \in DOMAIN content[i]
    BY <1>0, <2>1 DEF Covered, GrownBy
  <2>2. CASE i = newest /\ a = Len(content'[newest])
    <3>1. a = Len(content[newest]) + 1
      BY <1>0, <2>2 DEF GrownBy
    <3>2. i = file /\ a <= pos /\ pos <= Len(content[newest])
      BY <1>f, <2>2 DEF HasRead, Running, Inodes
    <3>. QED  BY <1>d, <1>f, <3>1, <3>2
  <2>. QED  BY <1>0, <2>1, <2>2 DEF GrownBy
<1>h. \A m : HeadOut(m) => HeadIn(fromStart, offset, content', output, m)
  <2>1. 1 \in Inodes
    BY BoundsAssumption DEF Inodes
  <2>2. offset > 0 => offset \in DOMAIN content[1]
    BY <1>0, <1>d, <2>1 DEF StartKnown, TypeOK
  <2>3. offset > 0 => content'[1][offset] = content[1][offset]
    BY <1>0, <2>1, <2>2 DEF GrownBy
  <2>. QED  BY <2>3 DEF HeadOut, HeadIn
<1>5. HeadsFirst'
  <2>. SUFFICES ASSUME ~overtaken
                PROVE  /\ Running /\ pos > 0 /\ content'[file][pos].part = "head" =>
                            HeadIn(fromStart, offset, content', output,
                                   content'[file][pos].msg)
                       /\ \A k \in DOMAIN output : output[k].part = "tail" =>
                            HeadIn(fromStart, offset, content', output, output[k].msg)
    BY <1>0 DEF HeadsFirst, HeadOut
  <2>1. Running /\ pos > 0 => content'[file][pos] = content[file][pos]
    <3>. SUFFICES ASSUME Running, pos > 0 PROVE content'[file][pos] = content[file][pos]
      OBVIOUS
    <3>1. file \in Inodes /\ pos \in DOMAIN content[file]
      BY <1>d, <1>f DEF Running
    <3>. QED  BY <1>0, <3>1 DEF GrownBy
  <2>2. Running /\ pos > 0 /\ content'[file][pos].part = "head" =>
            HeadOut(content[file][pos].msg)
    BY <1>0, <2>1 DEF HeadsFirst
  <2>3. \A k \in DOMAIN output : output[k].part = "tail" => HeadOut(output[k].msg)
    BY <1>0 DEF HeadsFirst
  <2>. QED  BY <1>h, <2>1, <2>2, <2>3
<1>. QED  BY <1>1, <1>2, <1>3, <1>4, <1>5 DEF LinesInv

(* The seek: what is before the position is not due.                       *)
LEMMA SeekLines ==
    ASSUME WriterInv, FileKnown, NotOvertaken, StartKnown, SeekFirst
    PROVE  LinesInv'
<1>1. /\ UNCHANGED <<content, written, fromStart, offset, file, output, notDue, overtaken>>
      /\ pos' = StartPosition /\ mirror = "seek" /\ ~Running /\ Opened
  BY DEF SeekFirst, writerVars, history, Running, Opened
<1>2. output = <<>>
  BY <1>1 DEF FileKnown
<1>3. ~overtaken => file = 1
  BY <1>1 DEF NotOvertaken
<1>4. Covered'
  <2>. SUFFICES ASSUME ~overtaken, NEW i \in Inodes, NEW a \in DOMAIN content[i],
                       i < file \/ (i = file /\ a <= StartPosition),
                       content[i][a].part # "head", content[i][a].msg > notDue
                PROVE  FALSE
    BY <1>1 DEF Covered, HasRead
  <2>1. i = 1 /\ a <= StartPosition
    BY <1>3 DEF Inodes
  <2>2. content[1][a].msg <= notDue
    BY <2>1 DEF StartKnown
  <2>3. content[i] \in Seq(Chunk)
    BY DEF WriterInv, TypeOK
  <2>4. content[i][a] \in Chunk
    BY <2>3
  <2>5. content[i][a].msg \in Nat /\ notDue \in Nat
    BY <2>4 DEF Chunk, WriterInv, TypeOK
  <2>. QED  BY <2>1, <2>2, <2>5
<1>5. HeadsFirst'
  <2>. SUFFICES ASSUME ~overtaken, StartPosition > 0,
                       content[file][StartPosition].part = "head"
                PROVE  HeadIn(fromStart, offset, content, output,
                              content[file][StartPosition].msg)
    BY <1>1, <1>2 DEF HeadsFirst, HeadOut
  <2>1. file = 1 /\ StartPosition = offset /\ offset > 0 /\ ~fromStart
    BY <1>3 DEF StartPosition
  <2>2. 1 \in Inodes
    BY BoundsAssumption DEF Inodes
  <2>3. content[1] \in Seq(Chunk) /\ offset \in Nat /\ offset <= Len(content[1])
    BY <2>2 DEF WriterInv, TypeOK, StartKnown
  <2>4. content[1][offset] \in Chunk
    BY <2>1, <2>3
  <2>5. content[1][offset] = [msg |-> content[1][offset].msg, part |-> "head"]
    BY <2>1, <2>4 DEF Chunk
  <2>. QED  BY <2>1, <2>5 DEF HeadIn
<1>. QED  BY <1>1, <1>2, <1>4, <1>5 DEF LinesInv, OutputKnown, Ordered, Behind

(* The next file begins where the one before it ends.                      *)
LEMMA ReopenLines ==
    ASSUME WriterInv, FileKnown, NotOvertaken, LinesInv, Reopen
    PROVE  LinesInv'
<1>1. /\ UNCHANGED <<content, newest, written, fromStart, offset, output, notDue,
                     overtaken>>
      /\ mirror = "reopen" /\ Running /\ Opened
  BY DEF Reopen, writerVars, history, Running, Opened
<1>2. HalfWritten' = HalfWritten
  BY <1>1 DEF HalfWritten
<1>3. CASE Path = 0
  <2>1. UNCHANGED <<file, pos>> /\ mirror' = "failed"
    BY <1>3 DEF Reopen
  <2>2. Quiet
    BY <1>1, <1>2, <2>1 DEF Quiet
  <2>. QED  BY <2>2, QuietLines
<1>4. CASE Path # 0
  <2>1. file' = newest /\ pos' = 0
    BY <1>4 DEF Reopen, Path
  <2>2. ~overtaken => newest = file + 1 /\ pos = Len(content[file]) /\ file \in Inodes
    BY <1>1, BoundsAssumption DEF NotOvertaken, FileKnown, WriterInv, TypeOK, Inodes
  <2>3. \A i \in Inodes : /\ i \in Nat /\ DOMAIN content[i] = 1 .. Len(content[i])
                          /\ Len(content[i]) \in Nat
    <3>1. \A i \in Inodes : content[i] \in Seq(Chunk)
      BY DEF WriterInv, TypeOK
    <3>. QED  BY <3>1 DEF Inodes
  <2>4. OutputKnown'
    BY <1>1, <1>2 DEF LinesInv, OutputKnown
  <2>5. Ordered'
    BY <1>1 DEF LinesInv, Ordered
  <2>6. Behind'
    <3>. SUFFICES ASSUME ~overtaken, NEW k \in DOMAIN output, NEW i \in Inodes,
                         NEW a \in DOMAIN content[i],
                         i > newest \/ (i = newest /\ a > 0)
                  PROVE  Before(output[k], content[i][a])
      BY <1>1, <2>1 DEF Behind, ToRead
    <3>1. ToRead(i, a)
      BY <2>2, <2>3 DEF ToRead
    <3>. QED  BY <1>1, <3>1 DEF LinesInv, Behind
  <2>7. Covered'
    <3>. SUFFICES ASSUME ~overtaken, NEW i \in Inodes, NEW a \in DOMAIN content[i],
                         i < newest \/ (i = newest /\ a <= 0),
                         content[i][a].part # "head", content[i][a].msg > notDue
                  PROVE  Mirrored(content[i][a].msg)
      BY <1>1, <2>1 DEF Covered, HasRead, Mirrored
    <3>1. i < file \/ (i = file /\ a <= pos)
      BY <2>2, <2>3
    <3>. QED  BY <1>1, <3>1 DEF LinesInv, Covered, HasRead
  <2>8. HeadsFirst'
    BY <1>1, <2>1 DEF LinesInv, HeadsFirst, HeadOut
  <2>. QED  BY <2>4, <2>5, <2>6, <2>7, <2>8 DEF LinesInv
<1>. QED  BY <1>3, <1>4


(* Where each line of a read comes from.                                   *)
FreshFrom(L) ==
    \A l \in DOMAIN L : \E a \in DOMAIN content[file] :
        /\ a \in Nat /\ pos < a
        /\ L[l].msg = content[file][a].msg /\ L[l].msg \in Nat
        /\ \/ L[l].part = content[file][a].part
           \/ L[l].part = "whole" /\ content[file][a].part = "head" /\ a < Len(content[file])
        /\ L[l].part = "tail" => a = pos + 1

LEMMA Fresh ==
    ASSUME NEW L, ReadBy(L)
    PROVE  FreshFrom(L)
<1>. DEFINE c == content[file]
<1>1. /\ c \in Seq(Chunk) /\ Len(c) \in Nat /\ DOMAIN c = 1 .. Len(c) /\ pos \in Nat
      /\ ScansAs(c, pos, L)
  BY DEF ReadBy
<1>2. \A a \in DOMAIN c : c[a].msg \in Nat
  <2>1. \A a \in DOMAIN c : c[a] \in Chunk
    BY <1>1
  <2>. QED  BY <2>1 DEF Chunk
<1>. SUFFICES ASSUME NEW l \in DOMAIN L
              PROVE  \E a \in DOMAIN c :
                       /\ a \in Nat /\ pos < a
                       /\ L[l].msg = c[a].msg /\ L[l].msg \in Nat
                       /\ \/ L[l].part = c[a].part
                          \/ L[l].part = "whole" /\ c[a].part = "head" /\ a < Len(c)
                       /\ L[l].part = "tail" => a = pos + 1
  BY DEF FreshFrom
<1>. HIDE DEF c
<1>3. PICK a \in 1 .. Len(c) : IsLine(c, pos, L[l], a)
  BY <1>1 DEF ScansAs
<1>4. a \in DOMAIN c /\ a \in Nat /\ pos < a
  BY <1>1, <1>3 DEF IsLine
<1>. QED  BY <1>2, <1>3, <1>4 DEF IsLine

(* The lines that are out after a read: those that were, and the new ones. *)
OldOrNew(L) ==
    /\ \A k \in DOMAIN output' :
         \/ k \in DOMAIN output /\ output'[k] = output[k]
         \/ \E l \in DOMAIN L : k = Len(output) + l /\ output'[k] = L[l]
    /\ \A k \in DOMAIN output : k \in DOMAIN output' /\ output'[k] = output[k]
                                /\ k \in 1 .. Len(output)
    /\ \A l \in DOMAIN L : /\ l \in Nat \ {0} /\ Len(output) + l \in DOMAIN output'
                           /\ output'[Len(output) + l] = L[l]
    /\ Len(output) \in Nat

LEMMA Out ==
    ASSUME NEW L, ReadBy(L)
    PROVE  OldOrNew(L)
<1>1. Joined(output, L, output')
  BY DEF ReadBy
<1>. QED  BY <1>1 DEF Joined, OldOrNew

(* What a read mirrors is due, is written, and is no more than the first   *)
(* half of a message that is half written.                                 *)
LEMMA ReadOutput ==
    ASSUME WriterInv, FileKnown, StartKnown, OutputKnown, ReadStep, NEW L, ReadBy(L)
    PROVE  OutputKnown'
<1>1. /\ UNCHANGED <<content, newest, written, notDue>> /\ Running
  BY ReadIs DEF writerVars, history
<1>2. HalfWritten' = HalfWritten
  BY <1>1 DEF HalfWritten
<1>3. FreshFrom(L) /\ OldOrNew(L)
  BY Fresh, Out
<1>4. file \in Inodes /\ pos \in Nat /\ StartPosition \in Nat
  BY DEF ReadBy, WriterInv, TypeOK, StartPosition
<1>. SUFFICES ASSUME NEW k \in DOMAIN output'
              PROVE  /\ output'[k].msg \in notDue + 1 .. written
                     /\ HalfWritten /\ output'[k].msg = written
                          => output'[k].part = "head"
  BY <1>1, <1>2 DEF OutputKnown
<1>5. CASE k \in DOMAIN output /\ output'[k] = output[k]
  BY <1>5 DEF OutputKnown
<1>6. ASSUME NEW l \in DOMAIN L, output'[k] = L[l]
      PROVE  /\ output'[k].msg \in notDue + 1 .. written
             /\ HalfWritten /\ output'[k].msg = written => output'[k].part = "head"
  <2>1. PICK a \in DOMAIN content[file] :
          /\ a \in Nat /\ pos < a
          /\ L[l].msg = content[file][a].msg /\ L[l].msg \in Nat
          /\ \/ L[l].part = content[file][a].part
             \/ L[l].part = "whole" /\ content[file][a].part = "head"
                /\ a < Len(content[file])
    BY <1>3 DEF FreshFrom
  <2>2. file > 1 \/ a > StartPosition
    <3>1. file = 1 => pos >= StartPosition
      BY <1>1 DEF FileKnown
    <3>. QED  BY <1>4, <2>1, <3>1 DEF Inodes
  <2>3. content[file][a].msg > notDue /\ content[file][a].msg <= written
    BY <1>4, <2>2 DEF StartKnown, WriterInv, InOrder
  <2>4. L[l].msg \in notDue + 1 .. written
    <3>1. notDue \in Nat /\ written \in Nat
      BY DEF WriterInv, TypeOK
    <3>. QED  BY <2>1, <2>3, <3>1
  <2>5. HalfWritten /\ L[l].msg = written => L[l].part = "head"
    <3>. SUFFICES ASSUME HalfWritten, L[l].msg = written PROVE L[l].part = "head"
      OBVIOUS
    <3>1. content[file][a].msg = written
      BY <2>1
    <3>2. a = Len(content[file]) /\ content[file][a].part = "head"
      BY <1>4, <3>1, HalfIsLast DEF WriterInv
    <3>. QED  BY <2>1, <3>2
  <2>. QED  BY <1>6, <2>4, <2>5
<1>. QED  BY <1>3, <1>5, <1>6 DEF OldOrNew

(* The new lines come after the old ones, and in order.                    *)
LEMMA ReadOrdered ==
    ASSUME WriterInv, Ordered, Behind, ReadStep, NEW L, ReadBy(L)
    PROVE  Ordered'
<1>1. UNCHANGED <<content, overtaken>> /\ Running /\ file \in Inodes
  BY ReadIs DEF writerVars, history, ReadBy
<1>2. FreshFrom(L) /\ OldOrNew(L)
  BY Fresh, Out
<1>. SUFFICES ASSUME ~overtaken, NEW k \in DOMAIN output', NEW l \in DOMAIN output',
                     k < l
              PROVE  Before(output'[k], output'[l])
  BY <1>1 DEF Ordered
<1>3. CASE /\ k \in DOMAIN output /\ output'[k] = output[k]
           /\ l \in DOMAIN output /\ output'[l] = output[l]
  BY <1>3 DEF Ordered
<1>4. ASSUME k \in DOMAIN output, output'[k] = output[k],
             NEW j \in DOMAIN L, output'[l] = L[j]
      PROVE  Before(output'[k], output'[l])
  <2>1. PICK a \in DOMAIN content[file] :
          /\ a \in Nat /\ pos < a
          /\ L[j].msg = content[file][a].msg /\ L[j].msg \in Nat
          /\ \/ L[j].part = content[file][a].part
             \/ L[j].part = "whole" /\ content[file][a].part = "head"
    BY <1>2 DEF FreshFrom
  <2>2. ToRead(file, a)
    BY <2>1 DEF ToRead, WriterInv, TypeOK
  <2>3. Before(output[k], content[file][a])
    BY <1>1, <1>4, <2>2 DEF Behind
  <2>. QED  BY <1>4, <2>1, <2>3 DEF Before
<1>5. ASSUME NEW i \in DOMAIN L, k = Len(output) + i, output'[k] = L[i],
             l \in DOMAIN output
      PROVE  FALSE
  <2>1. l \in 1 .. Len(output) /\ i \in Nat \ {0} /\ Len(output) \in Nat
    BY <1>2, <1>5 DEF OldOrNew
  <2>. QED  BY <1>5, <2>1
<1>6. ASSUME NEW i \in DOMAIN L, k = Len(output) + i, output'[k] = L[i],
             NEW j \in DOMAIN L, l = Len(output) + j, output'[l] = L[j]
      PROVE  Before(output'[k], output'[l])
  <2>1. i \in Nat /\ j \in Nat /\ Len(output) \in Nat
    BY <1>2 DEF OldOrNew
  <2>2. i < j
    BY <1>6, <2>1
  <2>3. L[i].msg < L[j].msg
    BY <2>2 DEF ReadBy, ScansAs
  <2>. QED  BY <1>6, <2>3 DEF Before
<1>. QED  BY <1>2, <1>3, <1>4, <1>5, <1>6 DEF OldOrNew

(* What is left to read is in later files.                                 *)
LEMMA ReadBehind ==
    ASSUME WriterInv, Behind, ReadStep, NEW L, ReadBy(L)
    PROVE  Behind'
<1>1. UNCHANGED <<content, overtaken, file>> /\ Running
  BY ReadIs DEF writerVars, history
<1>2. /\ FreshFrom(L) /\ OldOrNew(L)
      /\ file \in Inodes /\ file \in Nat /\ pos \in Nat
      /\ DOMAIN content[file] = 1 .. Len(content[file])
      /\ pos <= Len(content[file]) /\ Len(content[file]) \in Nat
      /\ pos' = Len(content[file])
  BY Fresh, Out DEF ReadBy, Inodes
<1>. SUFFICES ASSUME ~overtaken, NEW k \in DOMAIN output', NEW i \in Inodes,
                     NEW a \in DOMAIN content[i],
                     i > file \/ (i = file /\ a > pos')
              PROVE  Before(output'[k], content[i][a])
  BY <1>1 DEF Behind, ToRead
<1>3. i > file
  BY <1>2
<1>4. CASE k \in DOMAIN output /\ output'[k] = output[k]
  BY <1>1, <1>3, <1>4 DEF Behind, ToRead
<1>5. ASSUME NEW l \in DOMAIN L, output'[k] = L[l]
      PROVE  Before(output'[k], content[i][a])
  <2>1. PICK b \in DOMAIN content[file] : L[l].msg = content[file][b].msg
    BY <1>2 DEF FreshFrom
  <2>2. content[file][b].msg < content[i][a].msg
    BY <1>2, <1>3 DEF WriterInv, InOrder, Inodes
  <2>. QED  BY <1>5, <2>1, <2>2 DEF Before
<1>. QED  BY <1>2, <1>4, <1>5 DEF OldOrNew

(* Every message that ends in what was read is out.                        *)
LEMMA ReadCovered ==
    ASSUME WriterInv, Covered, ReadStep, NEW L, ReadBy(L)
    PROVE  Covered'
<1>1. UNCHANGED <<content, overtaken, file, notDue>> /\ Running
  BY ReadIs DEF writerVars, history
<1>2. /\ OldOrNew(L)
      /\ file \in Inodes /\ file \in Nat /\ pos \in Nat
      /\ DOMAIN content[file] = 1 .. Len(content[file])
      /\ pos <= Len(content[file]) /\ Len(content[file]) \in Nat
  BY Out DEF ReadBy, Inodes
<1>. SUFFICES ASSUME ~overtaken, NEW i \in Inodes, NEW a \in DOMAIN content[i],
                     i < file \/ i = file,
                     content[i][a].part # "head", content[i][a].msg > notDue
              PROVE  \E k \in DOMAIN output' : /\ output'[k].msg = content[i][a].msg
                                               /\ output'[k].part # "head"
  BY <1>1 DEF Covered, HasRead, Mirrored
<1>3. CASE HasRead(i, a)
  <2>1. Mirrored(content[i][a].msg)
    BY <1>1, <1>3 DEF Covered
  <2>2. PICK k \in DOMAIN output : /\ output[k].msg = content[i][a].msg
                                   /\ output[k].part # "head"
    BY <2>1 DEF Mirrored
  <2>3. k \in DOMAIN output' /\ output'[k] = output[k]
    BY <1>2 DEF OldOrNew
  <2>. QED  BY <2>2, <2>3
<1>4. CASE ~HasRead(i, a)
  <2>1. i = file /\ a \in pos + 1 .. Len(content[file])
    BY <1>2, <1>4 DEF HasRead
  <2>2. PICK l \in DOMAIN L : Ends(L[l], content[i][a].msg)
    BY <2>1 DEF ReadBy, ScansAs
  <2>3. Len(output) + l \in DOMAIN output' /\ output'[Len(output) + l] = L[l]
    BY <1>2 DEF OldOrNew
  <2>. QED  BY <2>2, <2>3 DEF Ends
<1>. QED  BY <1>3, <1>4

(* A tail comes out on its own only when the head before it is out.        *)
LEMMA ReadHeads ==
    ASSUME WriterInv, HeadsFirst, ReadStep, NEW L, ReadBy(L)
    PROVE  HeadsFirst'
<1>. DEFINE c == content[file]
            n == Len(c)
            In(m) == HeadIn(fromStart, offset, content, output', m)
<1>1. UNCHANGED <<content, overtaken, file, fromStart, offset>> /\ Running
  BY ReadIs DEF writerVars, history
<1>2. /\ FreshFrom(L) /\ OldOrNew(L)
      /\ c \in Seq(Chunk) /\ WellFormed(c) /\ DOMAIN c = 1 .. n /\ n \in Nat
      /\ pos \in Nat /\ pos <= n /\ pos' = n
  BY Fresh, Out DEF ReadBy
<1>3. \A k \in DOMAIN output' : output'[k] \in Range(output')
  BY DEF Range
<1>4. \A m : HeadOut(m) => In(m)
  <2>1. \A k \in DOMAIN output : output[k] \in Range(output')
    BY <1>2, <1>3 DEF OldOrNew
  <2>2. \A y \in Range(output) : y \in Range(output')
    BY <2>1 DEF Range
  <2>. QED  BY <2>2 DEF HeadOut, HeadIn
<1>. SUFFICES ASSUME ~overtaken
              PROVE  /\ n > 0 /\ c[n].part = "head" => In(c[n].msg)
                     /\ \A k \in DOMAIN output' : output'[k].part = "tail" =>
                          In(output'[k].msg)
  BY <1>1, <1>2 DEF HeadsFirst, HeadOut
<1>5. ASSUME n > 0, c[n].part = "head"
      PROVE  In(c[n].msg)
  <2>1. CASE pos = n
    BY <1>1, <1>4, <1>5, <2>1 DEF HeadsFirst
  <2>2. CASE pos # n
    <3>1. pos < n
      BY <1>2, <2>2
    <3>2. PICK l \in DOMAIN L : L[l] = c[n]
      BY <1>5, <3>1 DEF ReadBy, ScansAs
    <3>3. L[l] \in Range(output')
      BY <1>2, <1>3 DEF OldOrNew
    <3>4. c[n] \in Chunk
      BY <1>2, <1>5
    <3>5. c[n] = [msg |-> c[n].msg, part |-> "head"]
      BY <1>5, <3>4 DEF Chunk
    <3>. QED  BY <3>2, <3>3, <3>5 DEF HeadIn
  <2>. QED  BY <2>1, <2>2
<1>6. ASSUME NEW k \in DOMAIN output', output'[k].part = "tail"
      PROVE  In(output'[k].msg)
  <2>1. CASE k \in DOMAIN output /\ output'[k] = output[k]
    BY <1>4, <1>6, <2>1 DEF HeadsFirst
  <2>2. ASSUME NEW l \in DOMAIN L, output'[k] = L[l]
        PROVE  In(output'[k].msg)
    <3>1. PICK a \in DOMAIN c : /\ a = pos + 1 /\ L[l].msg = c[a].msg
                                /\ c[a].part = "tail"
      BY <1>2, <1>6, <2>2 DEF FreshFrom
    <3>2. a > 1 /\ c[a - 1].part = "head" /\ c[a - 1].msg = c[a].msg
      BY <1>2, <3>1 DEF WellFormed
    <3>3. pos > 0 /\ a - 1 = pos
      BY <1>2, <3>1, <3>2
    <3>4. HeadOut(c[pos].msg)
      BY <1>1, <3>2, <3>3 DEF HeadsFirst
    <3>. QED  BY <1>4, <2>2, <3>1, <3>2, <3>3, <3>4
  <2>. QED  BY <1>2, <2>1, <2>2 DEF OldOrNew
<1>. QED  BY <1>5, <1>6


(* What is mirrored stays due, in order, complete and in one piece.        *)
LEMMA LinesStep ==
    WriterInv /\ FileKnown /\ NotOvertaken /\ StartKnown /\ LinesInv /\ [Next]_vars
        => LinesInv'
<1>. SUFFICES ASSUME WriterInv, FileKnown, NotOvertaken, StartKnown,
                    LinesInv, [Next]_vars
              PROVE  LinesInv'
  OBVIOUS
<1>1. CASE WriteMessage
  <2>1. PICK x \in Chunk : Added(x)
    BY <1>1, AddsChunk
  <2>2. UNCHANGED <<fromStart, mirror, localVars, output, history>>
    BY <1>1 DEF WriteMessage
  <2>. QED  BY <2>1, <2>2, AddedLines
<1>2. CASE WriteRest
  <2>1. PICK x \in Chunk : Added(x)
    BY <1>2, AddsChunk
  <2>2. UNCHANGED <<fromStart, mirror, localVars, output, history>>
    BY <1>2 DEF WriteRest
  <2>. QED  BY <2>1, <2>2, AddedLines
<1>3. CASE RenameAway
  <2>1. UNCHANGED <<content, written>> /\ ~HalfWritten'
    BY <1>3, RotationKeeps
  <2>2. /\ UNCHANGED <<output, file, pos, notDue, offset, fromStart, mirror>>
        /\ overtaken => overtaken'
    BY <1>3 DEF RenameAway, localVars, history
  <2>3. Running' = Running
    BY <2>2 DEF Running, Opened
  <2>. QED  BY <2>1, <2>2, <2>3, QuietLines DEF Quiet
<1>4. CASE CreateFile
  <2>1. UNCHANGED <<content, written>> /\ ~HalfWritten'
    BY <1>4, RotationKeeps
  <2>2. /\ UNCHANGED <<output, file, pos, notDue, offset, fromStart, mirror>>
        /\ overtaken => overtaken'
    BY <1>4 DEF CreateFile, localVars, history
  <2>3. Running' = Running
    BY <2>2 DEF Running, Opened
  <2>. QED  BY <2>1, <2>2, <2>3, QuietLines DEF Quiet
<1>5. CASE Cancel
  <2>1. UNCHANGED <<content, newest, written, output, file, pos, notDue, offset,
                    fromStart, overtaken>>
    BY <1>5 DEF Cancel, localVars, history, writerVars
  <2>2. HalfWritten' = HalfWritten
    BY <2>1 DEF HalfWritten
  <2>3. Running' => Running
    BY <1>5 DEF Cancel, Running, Opened
  <2>. QED  BY <2>1, <2>2, <2>3, QuietLines DEF Quiet
<1>6. CASE StatFirst
  <2>1. ~Running /\ mirror # "failed" /\ ~Running' /\ UNCHANGED output
    BY <1>6 DEF StatFirst, Running, Opened
  <2>2. output = <<>>
    BY <2>1 DEF FileKnown
  <2>. QED  BY <2>1, <2>2, NoLines
<1>7. CASE OpenNow
  <2>1. ~Running /\ mirror # "failed" /\ ~Running' /\ UNCHANGED output
    BY <1>7 DEF OpenNow, Running, Opened
  <2>2. output = <<>>
    BY <2>1 DEF FileKnown
  <2>. QED  BY <2>1, <2>2, NoLines
<1>8. CASE WaitFirst
  <2>1. UNCHANGED <<content, newest, written, output, file, pos, notDue, offset,
                    fromStart, overtaken>>
    BY <1>8 DEF WaitFirst, localVars, history, writerVars
  <2>2. HalfWritten' = HalfWritten
    BY <2>1 DEF HalfWritten
  <2>3. Running' => Running
    BY <1>8 DEF WaitFirst, WaitForFile, Running, Opened
  <2>. QED  BY <2>1, <2>2, <2>3, QuietLines DEF Quiet
<1>9. CASE OpenFirst
  <2>1. ~Running /\ mirror # "failed" /\ ~Running' /\ UNCHANGED output
    BY <1>9 DEF OpenFirst, Running, Opened
  <2>2. output = <<>>
    BY <2>1 DEF FileKnown
  <2>. QED  BY <2>1, <2>2, NoLines
<1>10. CASE SeekFirst
  BY <1>10, SeekLines
<1>11. CASE Read
  <2>1. ReadStep
    BY <1>11 DEF ReadStep
  <2>2. PICK L : ReadBy(L)
    BY <2>1, ReadIs, Reads
  <2>3. OutputKnown'
    BY <2>1, <2>2, ReadOutput DEF LinesInv
  <2>4. Ordered' /\ Behind'
    BY <2>1, <2>2, ReadOrdered, ReadBehind DEF LinesInv
  <2>5. Covered' /\ HeadsFirst'
    BY <2>1, <2>2, ReadCovered, ReadHeads DEF LinesInv
  <2>. QED  BY <2>3, <2>4, <2>5 DEF LinesInv
<1>12. CASE Check
  <2>1. UNCHANGED <<content, newest, written, output, file, pos, notDue, offset,
                    fromStart, overtaken>>
    BY <1>12 DEF Check, localVars, history, writerVars
  <2>2. HalfWritten' = HalfWritten
    BY <2>1 DEF HalfWritten
  <2>3. Running' => Running
    BY <1>12 DEF Check, Running, Opened
  <2>. QED  BY <2>1, <2>2, <2>3, QuietLines DEF Quiet
<1>13. CASE ReadOld
  <2>1. ReadStep
    BY <1>13 DEF ReadStep
  <2>2. PICK L : ReadBy(L)
    BY <2>1, ReadIs, Reads
  <2>3. OutputKnown'
    BY <2>1, <2>2, ReadOutput DEF LinesInv
  <2>4. Ordered' /\ Behind'
    BY <2>1, <2>2, ReadOrdered, ReadBehind DEF LinesInv
  <2>5. Covered' /\ HeadsFirst'
    BY <2>1, <2>2, ReadCovered, ReadHeads DEF LinesInv
  <2>. QED  BY <2>3, <2>4, <2>5 DEF LinesInv
<1>14. CASE Reopen
  BY <1>14, ReopenLines
<1>15. CASE ReadNew
  <2>1. ReadStep
    BY <1>15 DEF ReadStep
  <2>2. PICK L : ReadBy(L)
    BY <2>1, ReadIs, Reads
  <2>3. OutputKnown'
    BY <2>1, <2>2, ReadOutput DEF LinesInv
  <2>4. Ordered' /\ Behind'
    BY <2>1, <2>2, ReadOrdered, ReadBehind DEF LinesInv
  <2>5. Covered' /\ HeadsFirst'
    BY <2>1, <2>2, ReadCovered, ReadHeads DEF LinesInv
  <2>. QED  BY <2>3, <2>4, <2>5 DEF LinesInv
<1>16. CASE Pause
  <2>1. UNCHANGED <<content, newest, written, output, file, pos, notDue, offset,
                    fromStart, overtaken>>
    BY <1>16 DEF Pause, localVars, history, writerVars
  <2>2. HalfWritten' = HalfWritten
    BY <2>1 DEF HalfWritten
  <2>3. Running' => Running
    BY <1>16 DEF Pause, Running, Opened
  <2>. QED  BY <2>1, <2>2, <2>3, QuietLines DEF Quiet
<1>17. CASE UNCHANGED vars
  <2>1. UNCHANGED <<content, newest, written, output, file, pos, notDue, offset,
                    fromStart, overtaken>>
    BY <1>17 DEF vars, localVars, history, writerVars
  <2>2. HalfWritten' = HalfWritten
    BY <2>1 DEF HalfWritten
  <2>3. Running' => Running
    BY <1>17 DEF vars, Running, Opened
  <2>. QED  BY <2>1, <2>2, <2>3, QuietLines DEF Quiet
<1>18. CASE MirrorFails
  <2>1. UNCHANGED <<content, newest, written, output, file, pos, notDue, offset,
                    fromStart, overtaken>>
    BY <1>18 DEF MirrorFails, localVars, history, writerVars
  <2>2. HalfWritten' = HalfWritten
    BY <2>1 DEF HalfWritten
  <2>3. Running' => Running
    BY <1>18 DEF MirrorFails, Running, Opened
  <2>. QED  BY <2>1, <2>2, <2>3, QuietLines DEF Quiet
<1>. QED
  BY <1>1, <1>2, <1>3, <1>4, <1>5, <1>6, <1>7, <1>8, <1>9, <1>10, <1>11,
     <1>12, <1>13, <1>14, <1>15, <1>16, <1>17, <1>18
  DEF Next, Writer, Mirror

----------------------------------------------------------------------------
(* The last round.                                                         *)

(* A mirror that has the newest file open has every complete message in    *)
(* the files up to it.                                                     *)
LEMMA NewestSettles ==
    ASSUME WriterInv, atCancel <= Complete, NEW f \in Nat, f = newest
    PROVE  \A m \in 1 .. atCancel : \E i \in Inodes : \E a \in DOMAIN content[i] :
             i <= f /\ Ends(content[i][a], m)
<1>. TAKE m \in 1 .. atCancel
<1>1. m \in 1 .. Complete
  BY CompleteIs DEF WriterInv, TypeOK
<1>2. PICK i \in Inodes : \E a \in DOMAIN content[i] : Ends(content[i][a], m)
  BY <1>1 DEF WriterInv, NothingMissing
<1>3. PICK a \in DOMAIN content[i] : Ends(content[i][a], m)
  BY <1>2
<1>4. i <= f
  <2>1. CASE i > newest
    <3>1. content[i] = <<>>
      BY <2>1 DEF WriterInv, FilesSound
    <3>. QED  BY <3>1
  <2>. QED  BY <2>1 DEF Inodes
<1>. QED  BY <1>3, <1>4

(* A mirror that has read to the end of such a file has mirrored them.     *)
LEMMA SettledPrimed ==
    ASSUME TypeOK', Covered', ~overtaken', Running', file' \in Inodes,
           pos' = Len(content'[file']), Settled'
    PROVE  AllMirrored'
<1>. SUFFICES ASSUME NEW m \in notDue' + 1 .. atCancel' PROVE Mirrored(m)'
  BY DEF AllMirrored
<1>0. notDue' \in Nat /\ atCancel' \in Nat
  BY DEF TypeOK
<1>1. m \in 1 .. atCancel' /\ m > notDue'
  <2>1. \A d, e \in Nat : \A x \in d + 1 .. e : x \in 1 .. e /\ x > d
    OBVIOUS
  <2>. QED  BY <1>0, <2>1, Zenon
<1>2. PICK i \in Inodes : \E a \in DOMAIN content'[i] :
        i <= file' /\ Ends(content'[i][a], m)
  BY <1>1 DEF Settled
<1>3. PICK a \in DOMAIN content'[i] : i <= file' /\ Ends(content'[i][a], m)
  BY <1>2
<1>4. content'[file'] \in Seq(Chunk)
  BY DEF TypeOK
<1>5. i = file' => a <= pos'
  BY <1>4
<1>6. i < file' \/ (i = file' /\ a <= pos')
  BY <1>3, <1>5 DEF Inodes
<1>. QED  BY <1>1, <1>3, <1>6 DEF Covered, HasRead, Ends, Mirrored

(* The round after the cancellation mirrors what was complete by then.     *)
LEMMA RoundStep ==
    TypeOK' /\ LinesInv' /\ WriterInv /\ FileKnown /\ NotOvertaken /\ LinesInv /\ LastRound /\ [Next]_vars
        => LastRound'
<1>. SUFFICES ASSUME TypeOK', LinesInv', WriterInv, FileKnown, NotOvertaken, LinesInv,
                    LastRound, [Next]_vars
              PROVE  LastRound'
  OBVIOUS
<1>t. TypeOK
  BY DEF WriterInv
<1>c. Complete \in Nat
  BY <1>t, CompleteIs DEF WriterInv
<1>k. UNCHANGED <<content, newest, written, atCancel>> =>
        Complete' = Complete /\ atCancel' <= Complete'
  BY DEF LastRound, Complete, HalfWritten
<1>1. CASE WriteMessage
  <2>1. PICK x \in Chunk : Added(x)
    BY <1>1, AddsChunk
  <2>2. UNCHANGED <<newest, cancelled, mirror, file, closing, output, notDue, atCancel,
                    overtaken>>
    BY <1>1, <2>1 DEF WriteMessage, localVars, history, Added
  <2>3. atCancel <= Complete'
    <3>1. Complete \in Nat /\ Complete <= Complete' /\ Complete' \in Nat
      BY <2>1, AddedLast
    <3>. QED  BY <1>t, <3>1 DEF LastRound, TypeOK
  <2>4. Settled => Settled'
    <3>1. \A i \in Inodes : \A a \in DOMAIN content[i] :
            a \in DOMAIN content'[i] /\ content'[i][a] = content[i][a]
      BY <2>1 DEF Added, GrownBy
    <3>. QED  BY <2>2, <3>1 DEF Settled
  <2>5. AllMirrored => AllMirrored'
    BY <2>2 DEF AllMirrored, Mirrored
  <2>. QED  BY <2>2, <2>3, <2>4, <2>5 DEF LastRound
<1>2. CASE WriteRest
  <2>1. PICK x \in Chunk : Added(x)
    BY <1>2, AddsChunk
  <2>2. UNCHANGED <<newest, cancelled, mirror, file, closing, output, notDue, atCancel,
                    overtaken>>
    BY <1>2, <2>1 DEF WriteRest, localVars, history, Added
  <2>3. atCancel <= Complete'
    <3>1. Complete \in Nat /\ Complete <= Complete' /\ Complete' \in Nat
      BY <2>1, AddedLast
    <3>. QED  BY <1>t, <3>1 DEF LastRound, TypeOK
  <2>4. Settled => Settled'
    <3>1. \A i \in Inodes : \A a \in DOMAIN content[i] :
            a \in DOMAIN content'[i] /\ content'[i][a] = content[i][a]
      BY <2>1 DEF Added, GrownBy
    <3>. QED  BY <2>2, <3>1 DEF Settled
  <2>5. AllMirrored => AllMirrored'
    BY <2>2 DEF AllMirrored, Mirrored
  <2>. QED  BY <2>2, <2>3, <2>4, <2>5 DEF LastRound
<1>3. CASE RenameAway
  <2>1. Complete' = Complete
    BY <1>3, RotationKeeps
  <2>2. /\ UNCHANGED <<content, newest, cancelled, mirror, file, closing, output, notDue,
                       atCancel>>
        /\ ~overtaken' => ~overtaken
    BY <1>3 DEF RenameAway, localVars
  <2>. QED  BY <2>1, <2>2 DEF LastRound, Settled, AllMirrored, Mirrored
<1>4. CASE CreateFile
  <2>1. Complete' = Complete
    BY <1>4, RotationKeeps
  <2>2. UNCHANGED <<content, cancelled, mirror, file, closing, output, notDue,
                    atCancel, overtaken>>
    BY <1>4 DEF CreateFile, localVars, history
  <2>3. newest > file => newest' > file
    BY <1>4, <1>t DEF CreateFile, TypeOK
  <2>. QED  BY <2>1, <2>2, <2>3 DEF LastRound, Settled, AllMirrored, Mirrored
<1>5. CASE Cancel
  <2>1. /\ UNCHANGED <<content, newest, written, mirror, file, closing>> /\ ~cancelled
        /\ cancelled' /\ atCancel' = Complete
    BY <1>5 DEF Cancel, localVars, writerVars
  <2>2. ~closing /\ mirror # "ended"
    BY <2>1 DEF LastRound
  <2>3. Complete' = Complete
    BY <2>1 DEF Complete, HalfWritten
  <2>. QED  BY <1>c, <2>1, <2>2, <2>3 DEF LastRound
<1>6. CASE StatFirst
  <2>1. /\ UNCHANGED <<content, newest, written, closing, cancelled, atCancel>>
        /\ mirror' \notin {"check", "readNew", "pause", "ended"}
    BY <1>6 DEF StatFirst, localVars, writerVars, history
  <2>. QED  BY <1>k, <2>1 DEF LastRound
<1>7. CASE OpenNow
  <2>1. /\ UNCHANGED <<content, newest, written, closing, cancelled, atCancel>>
        /\ mirror' \notin {"check", "readNew", "pause", "ended"}
    BY <1>7 DEF OpenNow, localVars, writerVars, history
  <2>. QED  BY <1>k, <2>1 DEF LastRound
<1>8. CASE WaitFirst
  <2>1. /\ UNCHANGED <<content, newest, written, closing, cancelled, atCancel>>
        /\ mirror' \notin {"check", "readNew", "pause", "ended"}
    BY <1>8 DEF WaitFirst, WaitForFile, localVars, writerVars, history
  <2>. QED  BY <1>k, <2>1 DEF LastRound
<1>9. CASE OpenFirst
  <2>1. /\ UNCHANGED <<content, newest, written, closing, cancelled, atCancel>>
        /\ mirror' \notin {"check", "readNew", "pause", "ended"}
    BY <1>9 DEF OpenFirst, localVars, writerVars, history
  <2>. QED  BY <1>k, <2>1 DEF LastRound
<1>10. CASE SeekFirst
  <2>1. /\ UNCHANGED <<content, newest, written, closing, cancelled, atCancel>>
        /\ mirror' \notin {"check", "readNew", "pause", "ended"}
    BY <1>10 DEF SeekFirst, localVars, writerVars, history
  <2>. QED  BY <1>k, <2>1 DEF LastRound
<1>11. CASE Read
  <2>1. ReadStep
    BY <1>11 DEF ReadStep
  <2>2. PICK L : ReadBy(L)
    BY <2>1, ReadIs, Reads
  <2>3. /\ UNCHANGED <<content, newest, written, file, closing, cancelled, atCancel,
                       overtaken>>
        /\ Running' /\ mirror' = "check" /\ mirror = "read"
    BY <1>11, <2>1, ReadIs DEF writerVars, history, Read
  <2>4. /\ file \in Inodes /\ file \in 1 .. newest /\ newest \in Nat
        /\ pos' = Len(content[file])
    BY <2>2, <1>t DEF ReadBy, TypeOK
  <2>5. ASSUME ~overtaken, closing, file = newest
        PROVE  AllMirrored'
    <3>1. Settled'
      <4>1. file \in Nat /\ file = newest
        BY <2>4, <2>5
      <4>2. atCancel <= Complete
        BY DEF LastRound
      <4>. QED  BY <2>3, <4>1, <4>2, NewestSettles DEF Settled
    <3>2. file' \in Inodes /\ pos' = Len(content'[file']) /\ ~overtaken'
      BY <2>3, <2>4, <2>5
    <3>3. TypeOK' /\ Covered'
      BY DEF LinesInv
    <3>. QED  BY <2>3, <3>1, <3>2, <3>3, SettledPrimed
  <2>. QED  BY <1>k, <2>3, <2>4, <2>5 DEF LastRound
<1>12. CASE Check
  <2>1. /\ UNCHANGED <<content, newest, written, output, file, notDue, atCancel,
                       overtaken, closing, cancelled>>
        /\ mirror = "check" /\ Running
    BY <1>12 DEF Check, localVars, writerVars, history, Running, Opened
  <2>2. mirror' \in {"failed", "pause", "readOld"} /\ (mirror' = "pause" => Path = fi /\ Path # 0)
    BY <1>12 DEF Check, WaitForFile
  <2>3. ASSUME closing, ~overtaken, mirror' = "pause"
        PROVE  AllMirrored'
    <3>1. newest = file /\ file \in Nat
      BY <1>t, <2>1, <2>2, <2>3 DEF NotOvertaken, Path, TypeOK
    <3>2. AllMirrored
      BY <2>1, <2>3, <3>1 DEF LastRound
    <3>. QED  BY <2>1, <3>2 DEF AllMirrored, Mirrored
  <2>. QED  BY <1>k, <2>1, <2>2, <2>3 DEF LastRound
<1>13. CASE ReadOld
  <2>1. /\ UNCHANGED <<content, newest, written, closing, cancelled, atCancel>>
        /\ mirror' \notin {"check", "readNew", "pause", "ended"}
    BY <1>13 DEF ReadOld, localVars, writerVars, history
  <2>. QED  BY <1>k, <2>1 DEF LastRound
<1>14. CASE Reopen
  <2>1. /\ UNCHANGED <<content, newest, written, output, notDue, atCancel,
                       overtaken, closing, cancelled>>
        /\ mirror' \in {"failed", "readNew"}
        /\ mirror' = "readNew" => file' = newest
    BY <1>14 DEF Reopen, Path, writerVars, history
  <2>2. mirror' = "readNew" => Settled'
    <3>1. newest \in Nat /\ atCancel <= Complete
      BY <1>t DEF TypeOK, LastRound
    <3>2. \A m \in 1 .. atCancel : \E i \in Inodes : \E a \in DOMAIN content[i] :
             i <= newest /\ Ends(content[i][a], m)
      BY <3>1, NewestSettles
    <3>. QED  BY <2>1, <3>2 DEF Settled
  <2>. QED  BY <1>k, <2>1, <2>2 DEF LastRound
<1>15. CASE ReadNew
  <2>1. ReadStep
    BY <1>15 DEF ReadStep
  <2>2. PICK L : ReadBy(L)
    BY <2>1, ReadIs, Reads
  <2>3. /\ UNCHANGED <<content, newest, written, file, closing, cancelled, atCancel,
                       overtaken>>
        /\ Running' /\ mirror' = "pause" /\ mirror = "readNew"
    BY <1>15, <2>1, ReadIs DEF writerVars, history, ReadNew
  <2>4. /\ file \in Inodes /\ file \in 1 .. newest /\ newest \in Nat
        /\ pos' = Len(content[file])
    BY <2>2, <1>t DEF ReadBy, TypeOK
  <2>5. ASSUME ~overtaken, closing
        PROVE  AllMirrored'
    <3>1. Settled'
      BY <2>3, <2>5 DEF LastRound, Settled
    <3>2. file' \in Inodes /\ pos' = Len(content'[file']) /\ ~overtaken'
      BY <2>3, <2>4, <2>5
    <3>3. TypeOK' /\ Covered'
      BY DEF LinesInv
    <3>. QED  BY <2>3, <3>1, <3>2, <3>3, SettledPrimed
  <2>. QED  BY <1>k, <2>3, <2>4, <2>5 DEF LastRound
<1>16. CASE Pause
  <2>1. /\ UNCHANGED <<content, newest, written, output, file, notDue, atCancel,
                       overtaken, cancelled>>
        /\ mirror = "pause" /\ mirror' \in {"ended", "read"} /\ closing' = cancelled
        /\ mirror' = "ended" => cancelled /\ closing
    BY <1>16 DEF Pause, writerVars, history
  <2>2. AllMirrored => AllMirrored'
    BY <2>1 DEF AllMirrored, Mirrored
  <2>3. Complete' = Complete
    BY <2>1 DEF Complete, HalfWritten
  <2>. QED  BY <2>1, <2>2, <2>3 DEF LastRound
<1>17. CASE UNCHANGED vars
  <2>1. UNCHANGED <<content, newest, written, output, file, notDue, atCancel,
                    overtaken, mirror, closing, cancelled>>
    BY <1>17 DEF vars, localVars, history, writerVars
  <2>. QED  BY <1>k, <2>1 DEF LastRound, Settled, AllMirrored, Mirrored
<1>18. CASE MirrorFails
  <2>1. /\ UNCHANGED <<content, newest, written, closing, cancelled, atCancel>>
        /\ mirror' \notin {"check", "readNew", "pause", "ended"}
    BY <1>18 DEF MirrorFails, localVars, writerVars, history
  <2>. QED  BY <1>k, <2>1 DEF LastRound
<1>. QED
  BY <1>1, <1>2, <1>3, <1>4, <1>5, <1>6, <1>7, <1>8, <1>9, <1>10, <1>11,
     <1>12, <1>13, <1>14, <1>15, <1>16, <1>17, <1>18
  DEF Next, Writer, Mirror

----------------------------------------------------------------------------
(* In the first state there is no file, or one with at most one line.      *)
LEMMA InitHolds == Init => IInv
<1>. SUFFICES ASSUME Init PROVE IInv
  OBVIOUS
<1>0. 1 \in Inodes /\ 1 \in 1 .. MaxLines
  BY BoundsAssumption DEF Inodes
<1>1. PICK n \in {0, 1}, k \in {0, 1} :
        /\ k <= n /\ newest = n /\ written = k
        /\ content = [i \in Inodes |-> IF i = 1 /\ k = 1
                                       THEN <<[msg |-> 1, part |-> "whole"]>> ELSE <<>>]
  BY DEF Init
<1>. DEFINE y == [msg |-> 1, part |-> "whole"]
<1>2. /\ missing = (newest = 0) /\ ~overtaken /\ ~cancelled /\ ~closing
      /\ mirror = "stat" /\ output = <<>>
      /\ offset = 0 /\ file = 0 /\ pos = 0 /\ fi = 0 /\ newFI = 0
      /\ notDue = 0 /\ atCancel = 0
  BY DEF Init
<1>b. /\ fromStart \in BOOLEAN /\ cancelled \in BOOLEAN /\ closing \in BOOLEAN
      /\ overtaken \in BOOLEAN /\ missing \in BOOLEAN
  BY DEF Init
<1>e. (missing => newest = 0) /\ (newest = 0 => missing)
  BY <1>2, <1>b, Zenon
<1>3. /\ y \in Chunk /\ y.msg = 1 /\ y.part = "whole" /\ <<y>> \in Seq(Chunk)
      /\ \A i \in Inodes : content[i] = IF i = 1 /\ k = 1 THEN <<y>> ELSE <<>>
  BY <1>0, <1>1 DEF Chunk
<1>4. content \in [Inodes -> Seq(Chunk)]
  <2>1. \A i \in Inodes : (IF i = 1 /\ k = 1 THEN <<y>> ELSE <<>>) \in Seq(Chunk)
    BY <1>3
  <2>. QED  BY <1>1, <2>1
<1>5. \A i \in Inodes : \A a \in DOMAIN content[i] :
        /\ i = 1 /\ k = 1 /\ newest = 1 /\ a = 1 /\ content[i] = <<y>>
        /\ content[i][a].msg = 1 /\ content[i][a].part = "whole" /\ Len(content[i]) = 1
  <2>1. DOMAIN <<y>> = {1} /\ <<y>>[1] = y /\ Len(<<y>>) = 1
    OBVIOUS
  <2>. HIDE DEF y
  <2>. QED  BY <1>1, <1>3, <2>1
<1>. HIDE DEF y
<1>6. TypeOK
  BY <1>0, <1>1, <1>2, <1>b, <1>4, BoundsAssumption DEF TypeOK
<1>7. ~HalfWritten
  <2>. SUFFICES ASSUME newest > 0, content[newest] # <<>>,
                       content[newest][Len(content[newest])].part = "head"
                PROVE  FALSE
    BY DEF HalfWritten
  <2>1. newest = 1 /\ content[1] \in Seq(Chunk)
    BY <1>0, <1>1, <1>4
  <2>2. Len(content[1]) \in DOMAIN content[1]
    BY <2>1
  <2>. QED  BY <1>0, <1>5, <2>1, <2>2
<1>8. FilesSound
  <2>1. \A i \in Inodes : i > newest => content[i] = <<>>
    BY <1>1, <1>3 DEF Inodes
  <2>2. \A i \in Inodes : WellFormed(content[i])
    BY <1>5 DEF WellFormed
  <2>3. newest = 0 => missing
    BY <1>2
  <2>4. missing => newest <= MaxRotations
    BY <1>e, BoundsAssumption
  <2>. QED  BY <1>7, <2>1, <2>2, <2>3, <2>4 DEF FilesSound
<1>9. InOrder
  BY <1>1, <1>5 DEF InOrder
<1>10. NothingMissing
  <2>. SUFFICES ASSUME NEW m \in 1 .. written
                PROVE  \E i \in Inodes : \E a \in DOMAIN content[i] : Ends(content[i][a], m)
    BY <1>7 DEF NothingMissing, Complete
  <2>1. k = 1 /\ m = 1
    BY <1>1
  <2>2. content[1] = <<y>>
    BY <1>0, <1>3, <2>1
  <2>3. 1 \in DOMAIN content[1] /\ content[1][1] = y
    BY <2>2
  <2>. QED  BY <1>0, <1>3, <2>1, <2>3 DEF Ends
<1>11. FileKnown
  <2>1. newest <= 1 /\ (newest = 1 => ~missing)
    BY <1>1, <1>e
  <2>. QED  BY <1>2, <2>1 DEF FileKnown, Opened, Running
<1>12. NotOvertaken
  BY <1>2 DEF NotOvertaken, Opened, Running
<1>13. Complete = written /\ written \in Nat
  BY <1>1, <1>7 DEF Complete
<1>14. StartKnown
  <2>1. StartPosition = 0
    BY <1>2 DEF StartPosition
  <2>2. content[1] \in Seq(Chunk)
    BY <1>0, <1>4
  <2>3. offset <= Len(content[1])
    BY <1>2, <2>2
  <2>. QED  BY <1>0, <1>2, <1>5, <1>13, <2>1, <2>3 DEF StartKnown
<1>15. LinesInv
  BY <1>2 DEF LinesInv, OutputKnown, Ordered, Behind, Covered, HeadsFirst, Running,
              Opened
<1>16. LastRound
  BY <1>2, <1>13 DEF LastRound
<1>. QED  BY <1>6, <1>8, <1>9, <1>10, <1>11, <1>12, <1>14, <1>15, <1>16
          DEF IInv, WriterInv, LinesInv

LEMMA IInvStep == IInv /\ [Next]_vars => IInv'
<1>. SUFFICES ASSUME IInv, [Next]_vars PROVE IInv'
  OBVIOUS
<1>1. WriterInv /\ FileKnown /\ NotOvertaken /\ StartKnown /\ LinesInv /\ LastRound
  BY DEF IInv, LinesInv
<1>2. WriterInv'
  BY <1>1, WriterStep, TypeStep DEF WriterInv
<1>3. FileKnown' /\ NotOvertaken' /\ StartKnown'
  BY <1>1, FileStep, OvertakingStep, StartStep
<1>4. LinesInv'
  BY <1>1, LinesStep
<1>5. LastRound'
  BY <1>1, <1>2, <1>4, RoundStep DEF WriterInv
<1>. QED  BY <1>2, <1>3, <1>4, <1>5 DEF IInv, LinesInv

(* The inductive invariant holds in every behaviour of the mirror and of   *)
(* the program whose log it follows.                                       *)
THEOREM Invariance == Spec => []IInv
BY InitHolds, IInvStep, PTL DEF Spec

(* mirrorLog mirrors messages in the order in which they were written and  *)
(* none twice, for any number of messages and of rotations, unless a file  *)
(* is rotated away before it has been opened.                              *)
THEOREM LinesStayInOrder == Spec => []InOrderOnce
<1>1. IInv => InOrderOnce
  <2>. SUFFICES ASSUME IInv PROVE InOrderOnce
    OBVIOUS
  <2>1. TypeOK /\ OutputKnown /\ Ordered
    BY DEF IInv, WriterInv
  <2>2. \A k \in DOMAIN output : output[k].msg > notDue
    <3>. TAKE k \in DOMAIN output
    <3>1. output[k].msg \in notDue + 1 .. written /\ notDue \in Nat
      BY <2>1 DEF OutputKnown, TypeOK
    <3>. QED  BY <3>1
  <2>. QED  BY <2>1, <2>2 DEF InOrderOnce, Ordered
<1>. QED  BY <1>1, Invariance, PTL

(* A mirror that ends after a cancellation has mirrored every message that *)
(* was complete when ctx was cancelled: one more round is enough, whatever *)
(* rotation and half-written line that round meets.                        *)
THEOREM NoneIsLeftBehind == Spec => []NothingLeftBehind
<1>1. IInv => NothingLeftBehind
  BY DEF IInv, LastRound, NothingLeftBehind, AllMirrored
<1>. QED  BY <1>1, Invariance, PTL

----------------------------------------------------------------------------
(* The console.                                                            *)

(* A message that the settings want is shown when it is mirrored whole.    *)
LEMMA WholeTells ==
    ASSUME NEW c \in Cases, ~Unwanted(c.env, c.log, c.msg)
    PROVE  MirrorFunction(c.env, c.log, c.msg, "whole") = "message"
<1>1. /\ c.msg.form \in {"json", "text", "comment"}
      /\ c.log.source # "mqsc" <=> c.msg.form = "json"
      /\ Selected(c.env, c.log)
  BY DEF Cases, Messages
<1>2. ~IsExcludedMsgIdPresent(c.env, c.msg, "whole") /\ c.msg.form # "comment"
      /\ ~(c.log.isQMLog /\ FilterQMLogMessage(c.env, c.msg))
  BY DEF Unwanted, IsExcludedMsgIdPresent, FilterQMLogMessage
<1>. QED  BY <1>1, <1>2 DEF Selected, MirrorFunction, LooksLikeJSON, Unmarshals,
                            CanMQSCLogBeMirroredToConsole

(* When it is torn, its beginning is shown: as an error if it is JSON.     *)
LEMMA HeadTells ==
    ASSUME NEW c \in Cases, ~Unwanted(c.env, c.log, c.msg)
    PROVE  MirrorFunction(c.env, c.log, c.msg, "head") # "nothing"
<1>1. /\ c.msg.form \in {"json", "text", "comment"}
      /\ c.log.source # "mqsc" <=> c.msg.form = "json"
      /\ Selected(c.env, c.log)
  BY DEF Cases, Messages
<1>2. ~IsExcludedMsgIdPresent(c.env, c.msg, "head") /\ c.msg.form # "comment"
  BY DEF Unwanted, IsExcludedMsgIdPresent
<1>. QED  BY <1>1, <1>2 DEF Selected, MirrorFunction, LooksLikeJSON, Unmarshals,
                            CanMQSCLogBeMirroredToConsole

(* One that they do not want is not shown when it is mirrored whole.       *)
LEMMA WholeIsDiscreet ==
    ASSUME NEW c \in Cases, Unwanted(c.env, c.log, c.msg)
    PROVE  MirrorFunction(c.env, c.log, c.msg, "whole") = "nothing"
<1>1. CASE "blank" \in c.env.exclude \/ ("listed" \in c.env.exclude /\ c.msg.id # "none")
  BY <1>1 DEF MirrorFunction, IsExcludedMsgIdPresent
<1>2. CASE c.log.isQMLog /\ c.env.multiInstance /\ c.msg.host = "other"
  <2>1. c.msg \in Messages
    BY DEF Cases
  <2>2. c.msg.form = "json"
    BY <1>2, <2>1 DEF Messages
  <2>. QED  BY <1>2, <2>2 DEF MirrorFunction, LooksLikeJSON, Unmarshals,
                              FilterQMLogMessage
<1>3. CASE c.msg.form = "comment"
  BY <1>3 DEF MirrorFunction, LooksLikeJSON, CanMQSCLogBeMirroredToConsole
<1>. QED  BY <1>1, <1>2, <1>3 DEF Unwanted

(* What that makes of the parts in which a message is mirrored.            *)
LEMMA Tells ==
    ASSUME NEW P \in SUBSET {"whole", "head", "tail"}, "whole" \in P \/ "head" \in P
    PROVE  P \in Telling
<1>. DEFINE v == [parts |-> P,
                  telling |-> \A c \in Cases : Unwanted(c.env, c.log, c.msg)
                                     \/ Shown(c.env, c.log, c.msg, P) # {},
                  discreet |-> \A c \in Cases : Unwanted(c.env, c.log, c.msg)
                                      => Shown(c.env, c.log, c.msg, P) = {}]
<1>1. v \in Verdicts
  BY DEF Verdicts
<1>2. \A c \in Cases : Unwanted(c.env, c.log, c.msg) \/ Shown(c.env, c.log, c.msg, P) # {}
  <2>. SUFFICES ASSUME NEW c \in Cases, ~Unwanted(c.env, c.log, c.msg)
                PROVE  Shown(c.env, c.log, c.msg, P) # {}
    OBVIOUS
  <2>1. /\ MirrorFunction(c.env, c.log, c.msg, "whole") # "nothing"
        /\ MirrorFunction(c.env, c.log, c.msg, "head") # "nothing"
    BY WholeTells, HeadTells
  <2>. QED  BY <2>1 DEF Shown
<1>3. v.telling /\ v.parts = P
  BY <1>2
<1>. HIDE DEF v
<1>. QED  BY <1>1, <1>3 DEF Telling

LEMMA StaysDiscreet ==
    ASSUME NEW P \in SUBSET {"whole", "head", "tail"}, P \subseteq {"whole"}
    PROVE  P \in Discreet
<1>. DEFINE v == [parts |-> P,
                  telling |-> \A c \in Cases : Unwanted(c.env, c.log, c.msg)
                                     \/ Shown(c.env, c.log, c.msg, P) # {},
                  discreet |-> \A c \in Cases : Unwanted(c.env, c.log, c.msg)
                                      => Shown(c.env, c.log, c.msg, P) = {}]
<1>1. v \in Verdicts
  BY DEF Verdicts
<1>2. \A c \in Cases : Unwanted(c.env, c.log, c.msg) => Shown(c.env, c.log, c.msg, P) = {}
  <2>. SUFFICES ASSUME NEW c \in Cases, Unwanted(c.env, c.log, c.msg)
                PROVE  Shown(c.env, c.log, c.msg, P) = {}
    OBVIOUS
  <2>1. MirrorFunction(c.env, c.log, c.msg, "whole") = "nothing"
    BY WholeIsDiscreet
  <2>. QED  BY <2>1 DEF Shown
<1>3. v.discreet /\ v.parts = P
  BY <1>2
<1>. HIDE DEF v
<1>. QED  BY <1>1, <1>3 DEF Discreet

(* A message that is out is out whole, or its first half is out too;       *)
(* unless that half was there before the mirror began.                     *)
LEMMA MirroredParts ==
    ASSUME IInv, ~overtaken, NEW m, Mirrored(m), ~TornAtStart(m)
    PROVE  "whole" \in Parts(m) \/ "head" \in Parts(m)
<1>1. output \in Seq(Chunk)
  BY DEF IInv, WriterInv, TypeOK
<1>2. PICK k \in DOMAIN output : output[k].msg = m /\ output[k].part # "head"
  BY DEF Mirrored
<1>3. output[k] \in Chunk
  BY <1>1
<1>4. output[k].part \in {"whole", "tail"}
  BY <1>2, <1>3 DEF Chunk
<1>5. CASE output[k].part = "whole"
  BY <1>2, <1>5 DEF Parts
<1>6. CASE output[k].part = "tail"
  <2>1. HeadOut(m)
    BY <1>2, <1>6 DEF IInv, HeadsFirst
  <2>2. [msg |-> m, part |-> "head"] \in Range(output)
    BY <2>1 DEF HeadOut, HeadIn, TornAtStart
  <2>3. PICK l \in DOMAIN output : output[l] = [msg |-> m, part |-> "head"]
    BY <2>2 DEF Range
  <2>. QED  BY <2>3 DEF Parts
<1>. QED  BY <1>4, <1>5, <1>6

(* Nothing that a selected log says is lost in silence on the way to the   *)
(* console, and what the settings exclude shows only where a line is torn. *)
THEOREM ConsoleStaysComplete == Spec => []ConsoleComplete
<1>1. IInv => ConsoleComplete
  <2>. SUFFICES ASSUME IInv PROVE ConsoleComplete
    OBVIOUS
  <2>1. \A m : Parts(m) \in SUBSET {"whole", "head", "tail"}
    <3>1. output \in Seq(Chunk)
      BY DEF IInv, WriterInv, TypeOK
    <3>2. \A k \in DOMAIN output : output[k] \in Chunk
      BY <3>1
    <3>3. \A k \in DOMAIN output : output[k].part \in {"whole", "head", "tail"}
      BY <3>2 DEF Chunk
    <3>. QED  BY <3>3 DEF Parts
  <2>2. ASSUME mirror = "ended", ~overtaken, NEW m \in notDue + 1 .. atCancel
        PROVE  TornAtStart(m) \/ Parts(m) \in Telling
    <3>1. Mirrored(m)
      BY <2>2 DEF IInv, LastRound, AllMirrored
    <3>2. ~TornAtStart(m) => "whole" \in Parts(m) \/ "head" \in Parts(m)
      BY <2>2, <3>1, MirroredParts
    <3>. QED  BY <2>1, <3>2, Tells
  <2>3. ASSUME NEW m \in 1 .. MaxLines, Parts(m) \subseteq {"whole"}
        PROVE  Parts(m) \in Discreet
    BY <2>1, <2>3, StaysDiscreet
  <2>. QED  BY <2>2, <2>3 DEF ConsoleComplete
<1>. QED  BY <1>1, Invariance, PTL
==============================================================================
