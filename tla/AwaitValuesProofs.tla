-------------------------- MODULE AwaitValuesProofs --------------------------
(***************************************************************************)
(* Machine-checked proofs about AwaitValues, for every width of a chunk,   *)
(* every set of nets and lengths, everything written and driven.           *)
(*                                                                         *)
(* Numbers come first: what a number of the model computes is given by     *)
(* Upto, the value of the first bits of a text, which depends only on them *)
(* and stays below a power of 2.  Then texts: a hexadecimal digit and its  *)
(* four bits.  The inductive invariant has a part for writes, reads, the   *)
(* change awaited and the number just taken; the central conjunct,         *)
(* Stacked, says that the chunks that an AwaitRead holds are those of the  *)
(* samples not yet taken, one on top of the other.                         *)
(***************************************************************************)
EXTENDS AwaitValues, DataInduction, SequenceTheorems

-----------------------------------------------------------------------------
(* Powers and numbers.                                                      *)

LEMMA Pow2Facts ==
  /\ Pow2[0] = 1
  /\ \A k \in Nat : Pow2[k] \in Nat /\ Pow2[k] >= 1 /\ Pow2[k + 1] = 2 * Pow2[k]
<1> DEFINE A == Nat \ {0}
           G == [k \in Nat |-> [x \in A |-> 2 * x]]
           P(g) == g = [k \in Nat |-> IF k = 0 THEN 1 ELSE 2 * g[k - 1]]
<1>1. 1 \in A /\ G \in [Nat -> [A -> A]] /\ \A k \in Nat : \A x \in A : G[k][x] = 2 * x
  OBVIOUS
<1> HIDE DEF G
<1>2. PICK f : Computes(f, A, 1, G)
  BY <1>1, Iteration
<1>3. \A k \in Nat : k # 0 => k - 1 \in Nat /\ (k - 1) + 1 = k
  OBVIOUS
<1>4. \A k \in Nat : f[k] = IF k = 0 THEN 1 ELSE 2 * f[k - 1]
  <2>1. f[0] = 1 /\ \A k \in Nat : f[k] \in A /\ f[k + 1] = G[k + 1][f[k]]
    BY <1>2 DEF Computes
  <2>2. \A k \in Nat : k + 1 \in Nat /\ f[k + 1] = 2 * f[k]
    <3> SUFFICES ASSUME NEW k \in Nat PROVE k + 1 \in Nat /\ f[k + 1] = 2 * f[k]
      OBVIOUS
    <3>1. k + 1 \in Nat
      OBVIOUS
    <3>2. f[k] \in A /\ f[k + 1] = G[k + 1][f[k]]
      BY <2>1
    <3> QED BY <1>1, <3>1, <3>2
  <2> QED BY <1>3, <2>1, <2>2
<1>5. P(f)
  BY <1>2, <1>4 DEF Computes
<1>6. Pow2 = CHOOSE g : P(g)
  BY Zenon DEF Pow2
<1> HIDE DEF P
<1>7. P(Pow2)
  BY <1>5, <1>6, Zenon
<1>8. Pow2[0] = 1 /\ \A k \in Nat : Pow2[k + 1] = 2 * Pow2[k]
  BY <1>7 DEF P
<1> DEFINE S == {k \in Nat : Pow2[k] \in A}
<1>9. 0 \in S /\ \A k \in Nat : k \in S => k + 1 \in S
  BY <1>8
<1> HIDE DEF S
<1>10. Nat \subseteq S
  BY <1>9, SetInduction
<1>11. \A k \in Nat : Pow2[k] \in A
  BY <1>10 DEF S
<1> QED BY <1>8, <1>11

LEMMA Pow2Small == Pow2[1] = 2 /\ Pow2[2] = 4 /\ Pow2[3] = 8
<1>1. Pow2[0 + 1] = 2 * Pow2[0] /\ Pow2[1 + 1] = 2 * Pow2[1] /\ Pow2[2 + 1] = 2 * Pow2[2]
      /\ Pow2[0] = 1
  BY Pow2Facts
<1>2. 0 + 1 = 1 /\ 1 + 1 = 2 /\ 2 + 1 = 3
  OBVIOUS
<1>3. Pow2[1] = 2
  BY <1>1, <1>2
<1>4. Pow2[2] = 4
  BY <1>1, <1>2, <1>3
<1> QED BY <1>1, <1>2, <1>3, <1>4

\* What a bit counts.
One(b) == IF b \in {"1", "x"} THEN 1 ELSE 0

\* The recursion of Aval, with its solution: the numbers of the prefixes of s.
IsUpto(g, s) ==
  g = [k \in Nat |-> IF k = 0 THEN 0 ELSE 2 * g[k - 1] + (IF s[k] \in {"1", "x"} THEN 1 ELSE 0)]

Upto(s) == CHOOSE g : IsUpto(g, s)

LEMMA AvalUpto == \A s : Aval(s) = Upto(s)[Len(s)]
BY Zenon DEF Aval, Upto, IsUpto

LEMMA UptoFacts ==
  ASSUME NEW s
  PROVE  /\ Upto(s)[0] = 0
         /\ \A k \in Nat : Upto(s)[k] \in Nat /\ Upto(s)[k + 1] = 2 * Upto(s)[k] + One(s[k + 1])
<1> DEFINE G == [k \in Nat |-> [x \in Nat |-> 2 * x + One(s[k])]]
<1>1. \A b : One(b) \in Nat
  BY DEF One
<1>2. 0 \in Nat /\ G \in [Nat -> [Nat -> Nat]] /\ \A k, x \in Nat : G[k][x] = 2 * x + One(s[k])
  BY <1>1
<1> HIDE DEF G
<1>3. PICK f : Computes(f, Nat, 0, G)
  BY <1>2, Iteration
<1>4. \A k \in Nat : k # 0 => k - 1 \in Nat /\ (k - 1) + 1 = k
  OBVIOUS
<1>5. \A k \in Nat : f[k] = IF k = 0 THEN 0 ELSE 2 * f[k - 1] + One(s[k])
  <2>1. f[0] = 0 /\ \A k \in Nat : f[k] \in Nat /\ f[k + 1] = G[k + 1][f[k]]
    BY <1>3 DEF Computes
  <2>2. \A k \in Nat : k + 1 \in Nat /\ f[k + 1] = 2 * f[k] + One(s[k + 1])
    <3> SUFFICES ASSUME NEW k \in Nat PROVE k + 1 \in Nat /\ f[k + 1] = 2 * f[k] + One(s[k + 1])
      OBVIOUS
    <3>1. k + 1 \in Nat
      OBVIOUS
    <3>2. f[k] \in Nat /\ f[k + 1] = G[k + 1][f[k]]
      BY <2>1
    <3> QED BY <1>2, <3>1, <3>2
  <2> QED BY <1>4, <2>1, <2>2
<1>6. IsUpto(f, s)
  BY <1>3, <1>5 DEF Computes, IsUpto, One
<1>7. IsUpto(Upto(s), s)
  BY <1>6, Zenon DEF Upto
<1> DEFINE u == Upto(s)
<1> HIDE DEF u
<1>8. u[0] = 0 /\ \A k \in Nat : u[k + 1] = 2 * u[k] + One(s[k + 1])
  BY <1>7 DEF IsUpto, One, u
<1> DEFINE S == {k \in Nat : u[k] \in Nat}
<1>9. 0 \in S /\ \A k \in Nat : k \in S => k + 1 \in S
  BY <1>1, <1>8
<1> HIDE DEF S
<1>10. Nat \subseteq S
  BY <1>9, SetInduction
<1> QED BY <1>8, <1>10 DEF S, u

\* A number of k bits is less than the k-th power of two.
LEMMA UptoBound ==
  ASSUME NEW s, NEW n \in Nat
  PROVE  Upto(s)[n] \in 0 .. Pow2[n] - 1
<1> DEFINE S == {k \in Nat : Upto(s)[k] < Pow2[k]}
<1>1. 0 \in S
  BY UptoFacts, Pow2Facts
<1>2. ASSUME NEW k \in Nat, k \in S PROVE k + 1 \in S
  <2> DEFINE x == Upto(s)[k]  p == Pow2[k]  b == One(s[k + 1])
             y == Upto(s)[k + 1]  q == Pow2[k + 1]
  <2>1. x \in Nat /\ p \in Nat /\ b \in {0, 1} /\ y = 2 * x + b /\ q = 2 * p /\ x < p
    BY <1>2, UptoFacts, Pow2Facts DEF One
  <2> HIDE DEF x, p, b, y, q
  <2>2. y < q
    BY <2>1
  <2> QED BY <2>2 DEF y, q
<1> HIDE DEF S
<1>3. Nat \subseteq S
  BY <1>1, <1>2, SetInduction
<1>4. Upto(s)[n] < Pow2[n]
  BY <1>3 DEF S
<1> QED BY <1>4, UptoFacts, Pow2Facts

\* t is in s from a + 1 to a + b.
Within(s, t, a, b) == \A i \in 1 .. b : t[i] = s[a + i]

\* The number of a prefix, and of what follows it.
LEMMA UptoSplit ==
  ASSUME NEW s, NEW t, NEW a \in Nat, NEW b \in Nat, Within(s, t, a, b)
  PROVE  Upto(s)[a + b] = Upto(s)[a] * Pow2[b] + Upto(t)[b]
<1> DEFINE S == {k \in Nat : k <= b => Upto(s)[a + k] = Upto(s)[a] * Pow2[k] + Upto(t)[k]}
<1>1. 0 \in S
  <2>1. a + 0 = a /\ Upto(s)[a] \in Nat /\ Upto(t)[0] = 0 /\ Pow2[0] = 1
    BY UptoFacts, Pow2Facts
  <2>2. Upto(s)[a] * 1 + 0 = Upto(s)[a]
    BY <2>1
  <2> QED BY <2>1, <2>2
<1>2. ASSUME NEW k \in Nat, k \in S PROVE k + 1 \in S
  <2> SUFFICES ASSUME k + 1 <= b
               PROVE  Upto(s)[a + (k + 1)] = Upto(s)[a] * Pow2[k + 1] + Upto(t)[k + 1]
    OBVIOUS
  <2>1. a + k \in Nat /\ (a + k) + 1 = a + (k + 1) /\ k + 1 \in 1 .. b /\ k <= b
    OBVIOUS
  <2>2. t[k + 1] = s[a + (k + 1)]
    BY <2>1 DEF Within
  <2>3. Upto(s)[a + (k + 1)] = 2 * Upto(s)[a + k] + One(s[a + (k + 1)]) /\ Upto(s)[a + k] \in Nat
    BY <2>1, UptoFacts
  <2>4. Upto(t)[k + 1] = 2 * Upto(t)[k] + One(t[k + 1]) /\ Upto(t)[k] \in Nat
        /\ Upto(s)[a] \in Nat
    BY UptoFacts
  <2>5. Pow2[k + 1] = 2 * Pow2[k] /\ Pow2[k] \in Nat
    BY Pow2Facts
  <2>6. Upto(s)[a + k] = Upto(s)[a] * Pow2[k] + Upto(t)[k]
    BY <1>2, <2>1
  <2>7. \A x, p, y, o \in Nat : 2 * (x * p + y) + o = x * (2 * p) + (2 * y + o)
    OBVIOUS
  <2>8. One(t[k + 1]) \in Nat
    BY DEF One
  <2> QED BY <2>2, <2>3, <2>4, <2>5, <2>6, <2>7, <2>8
<1> HIDE DEF S
<1>3. Nat \subseteq S
  BY <1>1, <1>2, SetInduction
<1> QED BY <1>3 DEF S

LEMMA UptoPrefix ==
  ASSUME NEW s, NEW t, NEW n \in Nat, \A i \in 1 .. n : t[i] = s[i]
  PROVE  Upto(s)[n] = Upto(t)[n]
<1>1. Within(s, t, 0, n)
  BY DEF Within
<1>2. Upto(s)[0 + n] = Upto(s)[0] * Pow2[n] + Upto(t)[n]
  BY <1>1, UptoSplit
<1>3. Upto(s)[0] = 0 /\ Pow2[n] \in Nat /\ Upto(t)[n] \in Nat /\ 0 + n = n
  BY UptoFacts, Pow2Facts
<1>4. \A p, y \in Nat : 0 * p + y = y
  OBVIOUS
<1> QED BY <1>2, <1>3, <1>4

-----------------------------------------------------------------------------
(* Vectors and chunks.                                                      *)

LEMMA DivFacts ==
  ASSUME NEW a \in Nat, NEW b \in Nat \ {0}
  PROVE  a \div b \in Nat /\ b * (a \div b) <= a /\ a < b * (a \div b) + b
OBVIOUS

LEMMA ChunksFacts ==
  ASSUME NEW n \in UNION Designs
  PROVE  /\ Length[n] \in Nat \ {0} /\ Width \in Nat \ {0}
         /\ Chunks(n) \in Nat \ {0}
         /\ Chunks(n) * Width \in Nat /\ Length[n] <= Chunks(n) * Width
<1> DEFINE a == Length[n] + Width - 1
           c == Chunks(n)
<1>1. Length[n] \in Nat \ {0} /\ Width \in Nat \ {0}
  BY LengthAssumption, WidthAssumption
<1>2. a \in Nat /\ c = a \div Width
  BY <1>1 DEF Chunks
<1>3. c \in Nat /\ Width * c <= a /\ a < Width * c + Width
  BY <1>1, <1>2, DivFacts
<1> HIDE DEF c
<1>4. Width * c \in Nat /\ c * Width = Width * c
  BY <1>1, <1>3
<1>5. Length[n] <= Width * c
  BY <1>1, <1>3, <1>4
<1>6. c # 0
  <2>1. Width * 0 = 0
    BY <1>1
  <2> QED BY <1>1, <1>5, <2>1
<1> QED BY <1>1, <1>3, <1>4, <1>5, <1>6 DEF c

LEMMA ZerosFacts ==
  ASSUME NEW k \in Nat
  PROVE  Zeros(k) \in Seq(Bit) /\ Len(Zeros(k)) = k /\ \A i \in 1 .. k : Zeros(k)[i] = "0"
BY DEF Zeros, Bit

\* A value of a net.
Valid(n, v) == v \in Seq(Bit) /\ Len(v) = Length[n]

LEMMA VectorFacts ==
  ASSUME NEW n \in UNION Designs, NEW v, Valid(n, v)
  PROVE  Vector(n, v) \in Seq(Bit) /\ Len(Vector(n, v)) = Chunks(n) * Width /\ Vector(n, v) # << >>
<1> DEFINE k == Chunks(n) * Width - Length[n]
<1>1. k \in Nat /\ k + Length[n] = Chunks(n) * Width /\ Length[n] \in Nat \ {0}
  BY ChunksFacts
<1> HIDE DEF k
<1>2. Zeros(k) \in Seq(Bit) /\ Len(Zeros(k)) = k
  BY <1>1, ZerosFacts
<1>3. Vector(n, v) = Zeros(k) \o v
  BY DEF Vector, k
<1>4. Vector(n, v) \in Seq(Bit) /\ Len(Vector(n, v)) = Chunks(n) * Width
  <2> DEFINE z == Zeros(k)
             l == Length[n]
             w == Chunks(n) * Width
  <2>1. z \in Seq(Bit) /\ Len(z) = k /\ v \in Seq(Bit) /\ Len(v) = l /\ k + l = w
    BY <1>1, <1>2 DEF Valid
  <2> HIDE DEF z, l, w
  <2>2. z \o v \in Seq(Bit) /\ Len(z \o v) = k + l
    BY <2>1, ConcatProperties
  <2> QED BY <1>3, <2>1, <2>2 DEF z, w
<1>5. Chunks(n) * Width # 0
  BY <1>1
<1> QED BY <1>4, <1>5

LEMMA ChunkFacts ==
  ASSUME NEW c \in Nat \ {0}, NEW s \in Seq(Bit), Len(s) = c * Width, NEW i \in 1 .. c
  PROVE  /\ Len(Chunk(s, i)) = Width
         /\ \A j \in 1 .. Width : Chunk(s, i)[j] = s[(i - 1) * Width + j]
         /\ Aval(Chunk(s, i)) \in 0 .. Pow2[Width] - 1
<1> DEFINE p == (i - 1) * Width
           q == c * Width
<1>1. Width \in Nat \ {0}
  BY WidthAssumption
<1>2. p \in Nat /\ i * Width = p + Width /\ p + Width <= q /\ q \in Nat
  <2>1. i * Width = p + Width /\ p \in Nat /\ q \in Nat
    BY <1>1
  <2>2. \A x, y, w \in Nat : x <= y => x * w <= y * w
    OBVIOUS
  <2>3. i * Width <= q
    BY <1>1, <2>2
  <2> QED BY <2>1, <2>3
<1> HIDE DEF p, q
<1>3. p + 1 \in Int /\ p + Width \in Int /\ \A j \in p + 1 .. p + Width : s[j] \in Bit
  BY <1>1, <1>2 DEF q
<1> DEFINE m == p + 1
           r == p + Width
<1>4. Chunk(s, i) = SubSeq(s, m, r)
  BY <1>2 DEF Chunk, p
<1>5. m \in Int /\ r \in Int /\ m <= r /\ r - m + 1 = Width /\ \A j \in m .. r : s[j] \in Bit
  BY <1>1, <1>2, <1>3
<1>6. \A j \in 1 .. Width : m + j - 1 = p + j
  BY <1>1, <1>2
<1> HIDE DEF m, r
<1>7. /\ Len(SubSeq(s, m, r)) = IF m <= r THEN r - m + 1 ELSE 0
      /\ \A j \in 1 .. r - m + 1 : SubSeq(s, m, r)[j] = s[m + j - 1]
  BY <1>5, SubSeqProperties
<1>8. Len(Chunk(s, i)) = Width /\ \A j \in 1 .. Width : Chunk(s, i)[j] = s[p + j]
  BY <1>4, <1>5, <1>6, <1>7
<1>9. Aval(Chunk(s, i)) \in 0 .. Pow2[Width] - 1
  BY <1>1, <1>8, AvalUpto, UptoBound
<1> QED BY <1>8, <1>9 DEF p

LEMMA Pow2Grows ==
  ASSUME NEW a \in Nat, NEW b \in Nat
  PROVE  Pow2[a] <= Pow2[a + b]
<1> DEFINE S == {k \in Nat : Pow2[a] <= Pow2[a + k]}
<1>1. 0 \in S
  BY Pow2Facts
<1>2. ASSUME NEW k \in Nat, k \in S PROVE k + 1 \in S
  <2>1. a + k \in Nat /\ (a + k) + 1 = a + (k + 1)
    OBVIOUS
  <2>2. Pow2[a + (k + 1)] = 2 * Pow2[a + k] /\ Pow2[a + k] \in Nat /\ Pow2[a] \in Nat
    BY <2>1, Pow2Facts
  <2> QED BY <1>2, <2>2
<1> HIDE DEF S
<1>3. Nat \subseteq S
  BY <1>1, <1>2, SetInduction
<1> QED BY <1>3 DEF S

\* The first k bits of a text.
LEMMA FirstBits ==
  ASSUME NEW s \in Seq(Bit), NEW k \in Nat, k <= Len(s)
  PROVE  Aval(SubSeq(s, 1, k)) = Upto(s)[k]
<1> DEFINE t == SubSeq(s, 1, k)
<1>1. 1 \in Int /\ k \in Int /\ k - 1 + 1 = k /\ \A j \in 1 .. k : s[j] \in Bit
  OBVIOUS
<1>2. /\ Len(t) = IF 1 <= k THEN k - 1 + 1 ELSE 0
      /\ \A j \in 1 .. k - 1 + 1 : t[j] = s[1 + j - 1]
  BY <1>1, SubSeqProperties
<1>3. Len(t) = k /\ \A j \in 1 .. k : t[j] = s[j]
  <2>1. \A j \in 1 .. k : 1 + j - 1 = j
    OBVIOUS
  <2> QED BY <1>1, <1>2, <2>1
<1> HIDE DEF t
<1>4. Upto(s)[k] = Upto(t)[k]
  BY <1>3, UptoPrefix
<1> QED BY <1>3, <1>4, AvalUpto DEF t

\* The number of a vector, from its chunks.
LEMMA NumberOfFacts ==
  ASSUME NEW c \in Nat \ {0}, NEW s \in Seq(Bit), Len(s) = c * Width
  PROVE  /\ c = 1 => NumberOf(s) = Aval(Chunk(s, 1))
         /\ c # 1 => NumberOf(s) = Aval(Chunk(s, 2)) + Pow2[Width] * Aval(Chunk(s, 1))
         /\ NumberOf(s) \in 0 .. Pow2[2 * Width] - 1
<1> DEFINE a == Aval(Chunk(s, 1))
           b == Aval(Chunk(s, 2))
<1>1. Width \in Nat \ {0} /\ 2 * Width \in Nat /\ Width + Width = 2 * Width
  BY WidthAssumption
<1>2. Len(Chunk(s, 1)) = Width /\ \A j \in 1 .. Width : Chunk(s, 1)[j] = s[j]
  <2>1. 1 \in 1 .. c /\ (1 - 1) * Width = 0 /\ \A j \in 1 .. Width : 0 + j = j
    BY <1>1
  <2>2. Len(Chunk(s, 1)) = Width /\ \A j \in 1 .. Width : Chunk(s, 1)[j] = s[(1 - 1) * Width + j]
    BY <2>1, ChunkFacts
  <2> QED BY <2>1, <2>2
<1>3. a = Upto(s)[Width]
  <2> DEFINE t == Chunk(s, 1)
  <2>1. Len(t) = Width /\ \A j \in 1 .. Width : t[j] = s[j]
    BY <1>2
  <2> HIDE DEF t
  <2>2. Upto(s)[Width] = Upto(t)[Width]
    BY <1>1, <2>1, UptoPrefix
  <2>3. Aval(t) = Upto(t)[Width]
    BY <2>1, AvalUpto
  <2> QED BY <2>2, <2>3 DEF t
<1>4. Upto(s)[Width] \in 0 .. Pow2[Width] - 1 /\ Upto(s)[2 * Width] \in 0 .. Pow2[2 * Width] - 1
  BY <1>1, UptoBound
<1>5. Pow2[Width] <= Pow2[2 * Width] /\ Pow2[Width] \in Nat /\ Pow2[2 * Width] \in Nat
  BY <1>1, Pow2Grows, Pow2Facts
<1>6. CASE c = 1
  <2>1. Len(s) = Width /\ Len(s) < 2 * Width
    BY <1>1, <1>6
  <2>2. NumberOf(s) = Aval(SubSeq(s, 1, Width))
    BY <2>1 DEF NumberOf
  <2>3. NumberOf(s) = Upto(s)[Width]
    BY <1>1, <2>1, <2>2, FirstBits
  <2> HIDE DEF a
  <2> QED BY <1>3, <1>4, <1>5, <1>6, <2>3 DEF a
<1>7. CASE c # 1
  <2>1. 2 * Width <= Len(s) /\ Len(s) \in Nat
    <3>1. 2 <= c /\ \A x, y, w \in Nat : x <= y => x * w <= y * w
      BY <1>7
    <3> QED BY <1>1, <3>1
  <2>2. NumberOf(s) = Aval(SubSeq(s, 1, 2 * Width))
    BY <1>1, <2>1 DEF NumberOf
  <2>3. NumberOf(s) = Upto(s)[2 * Width]
    BY <1>1, <2>1, <2>2, FirstBits
  <2>4. Len(Chunk(s, 2)) = Width /\ \A j \in 1 .. Width : Chunk(s, 2)[j] = s[Width + j]
    <3>1. 2 \in 1 .. c /\ (2 - 1) * Width = Width
      BY <1>1, <1>7
    <3>2. Len(Chunk(s, 2)) = Width /\ \A j \in 1 .. Width : Chunk(s, 2)[j] = s[(2 - 1) * Width + j]
      BY <3>1, ChunkFacts
    <3> QED BY <3>1, <3>2
  <2>5. b = Upto(Chunk(s, 2))[Width]
    BY <2>4, AvalUpto
  <2>6. Upto(s)[Width + Width] = Upto(s)[Width] * Pow2[Width] + Upto(Chunk(s, 2))[Width]
    <3>1. Within(s, Chunk(s, 2), Width, Width)
      BY <2>4 DEF Within
    <3> QED BY <1>1, <3>1, UptoSplit
  <2>7. \A x, y, z \in Nat : x * y + z = z + y * x
    OBVIOUS
  <2>8. Upto(s)[Width] \in Nat /\ Upto(Chunk(s, 2))[Width] \in Nat
    BY <1>1, UptoFacts
  <2>9. Upto(s)[2 * Width] = b + Pow2[Width] * a
    BY <1>1, <1>3, <1>5, <2>5, <2>6, <2>7, <2>8
  <2> HIDE DEF a, b
  <2> QED BY <1>4, <1>7, <2>3, <2>9 DEF a, b
<1> QED BY <1>6, <1>7

\* A chunk that has the bits of x is the number of x.
LEMMA ChunkIs ==
  ASSUME NEW c \in Nat \ {0}, NEW s \in Seq(Bit), Len(s) = c * Width, NEW i \in 1 .. c, NEW x,
         \A j \in 1 .. Width : x[j] = s[(i - 1) * Width + j]
  PROVE  Aval(Chunk(s, i)) = Upto(x)[Width]
<1> DEFINE y == Chunk(s, i)
<1>1. Len(y) = Width /\ \A j \in 1 .. Width : y[j] = s[(i - 1) * Width + j]
  BY ChunkFacts
<1> HIDE DEF y
<1>2. \A j \in 1 .. Width : y[j] = x[j]
  BY <1>1
<1>3. Upto(x)[Width] = Upto(y)[Width]
  BY <1>2, WidthAssumption, UptoPrefix
<1> QED BY <1>1, <1>3, AvalUpto DEF y

LEMMA OnlyChunk ==
  ASSUME NEW a \in Seq(Bit), Len(a) = Width
  PROVE  Aval(Chunk(a, 1)) = Upto(a)[Width]
<1>1. 1 \in Nat \ {0} /\ 1 \in 1 .. 1 /\ Len(a) = 1 * Width
  BY WidthAssumption
<1>2. \A j \in 1 .. Width : a[j] = a[(1 - 1) * Width + j]
  <2>1. (1 - 1) * Width = 0 /\ \A j \in 1 .. Width : 0 + j = j
    BY WidthAssumption
  <2> QED BY <2>1
<1> QED BY <1>1, <1>2, ChunkIs

\* Two chunks of two texts, taken for the chunks of one.
LEMMA JoinFacts ==
  ASSUME NEW a \in Seq(Bit), Len(a) = Width, NEW b \in Seq(Bit), Len(b) = Width
  PROVE  /\ NumberOf(a \o b) = Aval(Chunk(b, 1)) + Pow2[Width] * Aval(Chunk(a, 1))
         /\ NumberOf(a \o b) \in 0 .. Pow2[2 * Width] - 1
<1> DEFINE s == a \o b
<1>1. Width \in Nat \ {0} /\ Width + Width = 2 * Width /\ 1 * Width = Width
      /\ (1 - 1) * Width = 0 /\ (2 - 1) * Width = Width
  BY WidthAssumption
<1>2. /\ s \in Seq(Bit) /\ Len(s) = 2 * Width
      /\ \A j \in 1 .. Width + Width : s[j] = IF j <= Width THEN a[j] ELSE b[j - Width]
  BY <1>1, ConcatProperties
<1> HIDE DEF s
<1>3. \A j \in 1 .. Width : a[j] = s[(1 - 1) * Width + j]
  <2> SUFFICES ASSUME NEW j \in 1 .. Width PROVE a[j] = s[0 + j]
    BY <1>1
  <2>1. j \in 1 .. Width + Width /\ j <= Width /\ 0 + j = j
    BY <1>1
  <2> QED BY <1>2, <2>1
<1>4. \A j \in 1 .. Width : b[j] = s[(2 - 1) * Width + j]
  <2> SUFFICES ASSUME NEW j \in 1 .. Width PROVE b[j] = s[Width + j]
    BY <1>1
  <2>1. Width + j \in 1 .. Width + Width /\ ~(Width + j <= Width) /\ (Width + j) - Width = j
    BY <1>1
  <2> QED BY <1>2, <2>1
<1>5. 2 \in Nat \ {0} /\ 1 \in 1 .. 2 /\ 2 \in 1 .. 2 /\ 2 # 1
  OBVIOUS
<1>6. Aval(Chunk(s, 1)) = Aval(Chunk(a, 1))
  <2>1. Aval(Chunk(s, 1)) = Upto(a)[Width]
    BY <1>2, <1>3, <1>5, ChunkIs
  <2> QED BY <2>1, OnlyChunk
<1>7. Aval(Chunk(s, 2)) = Aval(Chunk(b, 1))
  <2>1. Aval(Chunk(s, 2)) = Upto(b)[Width]
    BY <1>2, <1>4, <1>5, ChunkIs
  <2> QED BY <2>1, OnlyChunk
<1>8. /\ NumberOf(s) = Aval(Chunk(s, 2)) + Pow2[Width] * Aval(Chunk(s, 1))
      /\ NumberOf(s) \in 0 .. Pow2[2 * Width] - 1
  BY <1>2, <1>5, NumberOfFacts
<1> QED BY <1>6, <1>7, <1>8 DEF s

\* The last bits of a text are what it ends with.
LEMMA LastOfConcat ==
  ASSUME NEW a \in Seq(Bit), NEW b \in Seq(Bit), b # << >>
  PROVE  LastBits(a \o b, Len(b)) = b
<1> DEFINE s == a \o b
           l == Len(a)
           k == Len(b)
           m == Len(s) - k + 1
           t == SubSeq(s, m, Len(s))
<1>1. /\ s \in Seq(Bit) /\ Len(s) = l + k /\ l \in Nat /\ k \in Nat \ {0}
      /\ \A j \in 1 .. l + k : s[j] = IF j <= l THEN a[j] ELSE b[j - l]
  BY ConcatProperties, EmptySeq
<1> HIDE DEF s, l, k
<1>2. m \in Int /\ Len(s) \in Int /\ m <= Len(s) /\ Len(s) - m + 1 = k /\ m = l + 1
      /\ \A j \in m .. Len(s) : s[j] \in Bit
  <2> DEFINE q == Len(s)
  <2>1. q = l + k /\ m = q - k + 1 /\ \A j \in 1 .. q : s[j] \in Bit
    BY <1>1, ElementOfSeq
  <2> HIDE DEF q, m
  <2>2. m = l + 1 /\ q \in Nat
    BY <1>1, <2>1
  <2>3. m \in Int /\ q \in Int /\ m <= q /\ q - m + 1 = k
    BY <1>1, <2>1, <2>2
  <2>4. \A j \in m .. q : j \in 1 .. q
    BY <1>1, <2>2
  <2> QED BY <2>1, <2>2, <2>3, <2>4 DEF q
<1>3. /\ t \in Seq(Bit) /\ Len(t) = k
      /\ \A j \in 1 .. k : t[j] = s[m + j - 1]
  <2> HIDE DEF m
  <2> QED BY <1>2, SubSeqProperties
<1>4. ASSUME NEW j \in 1 .. k PROVE t[j] = b[j]
  <2>1. m + j - 1 = l + j /\ l + j \in 1 .. l + k /\ ~(l + j <= l) /\ (l + j) - l = j
    BY <1>1, <1>2
  <2> QED BY <1>1, <1>3, <2>1
<1> HIDE DEF t, m
<1>5. t = b
  BY <1>3, <1>4, SeqEqual DEF k
<1> QED BY <1>5 DEF LastBits, s, k, t, m

LEMMA LastOfAll ==
  ASSUME NEW b \in Seq(Bit), b # << >>
  PROVE  LastBits(b, Len(b)) = b
<1>1. << >> \in Seq(Bit) /\ << >> \o b = b
  BY ConcatEmptySeq
<1> QED BY <1>1, LastOfConcat

LEMMA KeptFacts ==
  ASSUME NEW n \in UNION Designs, NEW v, Valid(n, v)
  PROVE  LET k == Kept(n, v)
         IN /\ k \in Seq(0 .. Pow2[Width] - 1)
            /\ Chunks(n) = 1 => Len(k) = 1 /\ NumberOf(Vector(n, v)) = k[1]
            /\ Chunks(n) # 1 => /\ Len(k) = 2
                                /\ NumberOf(Vector(n, v)) = k[2] + Pow2[Width] * k[1]
            /\ NumberOf(Vector(n, v)) \in 0 .. Pow2[2 * Width] - 1
            /\ k[1] = Aval(Chunk(Vector(n, v), 1))
<1> DEFINE s == Vector(n, v)
           c == Chunks(n)
           k == Kept(n, v)
           f(i) == Aval(Chunk(s, i))
           N == 0 .. Pow2[Width] - 1
           m == IF c < 2 THEN c ELSE 2
<1>1. s \in Seq(Bit) /\ Len(s) = c * Width /\ c \in Nat \ {0}
  BY VectorFacts, ChunksFacts
<1>2. k = [i \in 1 .. m |-> f(i)]
  BY DEF Kept
<1> HIDE DEF s, c, k
<1>3. \A i \in 1 .. c : f(i) \in N
  BY <1>1, ChunkFacts
<1>4. /\ c = 1 => NumberOf(s) = f(1)
      /\ c # 1 => NumberOf(s) = f(2) + Pow2[Width] * f(1)
      /\ NumberOf(s) \in 0 .. Pow2[2 * Width] - 1
  BY <1>1, NumberOfFacts
<1>5. m \in 1 .. c /\ (c = 1 => m = 1) /\ (c # 1 => m = 2)
  BY <1>1
<1> HIDE DEF f, N, m
<1>6. \A i \in 1 .. m : f(i) \in N
  BY <1>1, <1>3, <1>5
<1>7. k \in Seq(N) /\ Len(k) = m /\ \A i \in 1 .. m : k[i] = f(i)
  BY <1>1, <1>2, <1>5, <1>6
<1>8. c = 1 => Len(k) = 1 /\ NumberOf(s) = k[1]
  BY <1>1, <1>4, <1>5, <1>7
<1>9. c # 1 => Len(k) = 2 /\ NumberOf(s) = k[2] + Pow2[Width] * k[1]
  <2> SUFFICES ASSUME c # 1 PROVE Len(k) = 2 /\ NumberOf(s) = k[2] + Pow2[Width] * k[1]
    OBVIOUS
  <2>1. m = 2 /\ k[1] = f(1) /\ k[2] = f(2)
    BY <1>5, <1>7
  <2> QED BY <1>4, <1>7, <2>1
<1>10. k[1] = f(1)
  <2>1. 1 \in 1 .. m
    BY <1>1, <1>5
  <2> QED BY <1>7, <2>1
<1> QED BY <1>4, <1>7, <1>8, <1>9, <1>10 DEF s, c, k, N, f

\* What AwaitChange keeps of a value.
ChangeKept(n, v) == [i \in 1 .. Chunks(n) |-> Aval(Chunk(Vector(n, v), Chunks(n) + 1 - i))]

LEMMA ChangeKeptFacts ==
  ASSUME NEW n \in UNION Designs, NEW v, Valid(n, v)
  PROVE  LET k == ChangeKept(n, v)
         IN /\ k \in Seq(0 .. Pow2[Width] - 1) /\ Len(k) # 0
            /\ NumberOf(Vector(n, v)) = ChangeNum(k)
            /\ NumberOf(Vector(n, v)) \in 0 .. Pow2[2 * Width] - 1
<1> DEFINE s == Vector(n, v)
           c == Chunks(n)
           k == ChangeKept(n, v)
           f(i) == Aval(Chunk(s, i))
           N == 0 .. Pow2[Width] - 1
<1>1. s \in Seq(Bit) /\ Len(s) = c * Width /\ c \in Nat \ {0}
  BY VectorFacts, ChunksFacts
<1>2. k = [i \in 1 .. c |-> f(c + 1 - i)]
  BY DEF ChangeKept
<1> HIDE DEF s, c, k
<1>3. \A i \in 1 .. c : f(i) \in N
  BY <1>1, ChunkFacts
<1>4. /\ c = 1 => NumberOf(s) = f(1)
      /\ c # 1 => NumberOf(s) = f(2) + Pow2[Width] * f(1)
      /\ NumberOf(s) \in 0 .. Pow2[2 * Width] - 1
  BY <1>1, NumberOfFacts
<1> HIDE DEF f, N
<1>5. \A i \in 1 .. c : c + 1 - i \in 1 .. c
  BY <1>1
<1>6. k \in Seq(N) /\ Len(k) = c /\ \A i \in 1 .. c : k[i] = f(c + 1 - i)
  BY <1>1, <1>2, <1>3, <1>5
<1>7. CASE c = 1
  <2>1. k[1] = f(1)
    <3>1. 1 \in 1 .. c /\ c + 1 - 1 = 1
      BY <1>7
    <3> QED BY <1>6, <3>1
  <2> QED BY <1>1, <1>4, <1>6, <1>7, <2>1 DEF s, c, k, N, ChangeNum
<1>8. CASE c # 1
  <2>1. c - 1 \in 1 .. c /\ c \in 1 .. c /\ c + 1 - (c - 1) = 2 /\ c + 1 - c = 1
    BY <1>1, <1>8
  <2>2. k[c] = f(1) /\ k[c - 1] = f(2)
    BY <1>6, <2>1
  <2>3. ChangeNum(k) = k[c - 1] + Pow2[Width] * k[c]
    BY <1>6, <1>8 DEF ChangeNum
  <2> QED BY <1>1, <1>4, <1>6, <1>8, <2>2, <2>3 DEF s, c, k, N
<1> QED BY <1>7, <1>8

-----------------------------------------------------------------------------
(* Hexadecimal text.                                                        *)

Quartet == {q \in Seq(Bit) : Len(q) = 4}

LEMMA QuartetFacts ==
  ASSUME NEW q \in Quartet
  PROVE  /\ DOMAIN q = 1 .. 4 /\ q[1] \in Bit /\ q[2] \in Bit /\ q[3] \in Bit /\ q[4] \in Bit
         /\ \A r \in Quartet : r[1] = q[1] /\ r[2] = q[2] /\ r[3] = q[3] /\ r[4] = q[4] => r = q
<1>1. q \in [1 .. 4 -> Bit] /\ Quartet \subseteq [1 .. 4 -> Bit]
  <2> SUFFICES ASSUME NEW r \in Quartet PROVE r \in [1 .. 4 -> Bit]
    OBVIOUS
  <2>1. r \in [1 .. Len(r) -> Bit] /\ Len(r) = 4
    BY LenProperties DEF Quartet
  <2> QED BY <2>1
<1>2. 1 \in 1 .. 4 /\ 2 \in 1 .. 4 /\ 3 \in 1 .. 4 /\ 4 \in 1 .. 4
      /\ \A i \in 1 .. 4 : i = 1 \/ i = 2 \/ i = 3 \/ i = 4
  OBVIOUS
<1>3. ASSUME NEW r \in Quartet, r[1] = q[1] /\ r[2] = q[2] /\ r[3] = q[3] /\ r[4] = q[4]
      PROVE  r = q
  <2>1. \A i \in 1 .. 4 : r[i] = q[i]
    BY <1>2, <1>3
  <2> QED BY <1>1, <2>1
<1> QED BY <1>1, <1>2, <1>3

LEMMA AvalOfQuartet ==
  ASSUME NEW q \in Quartet
  PROVE  Aval(q) = 8 * One(q[1]) + 4 * One(q[2]) + 2 * One(q[3]) + One(q[4])
<1> DEFINE u == Upto(q)
<1>1. Aval(q) = u[4]
  BY AvalUpto DEF Quartet
<1>2. u[0] = 0 /\ \A k \in Nat : u[k + 1] = 2 * u[k] + One(q[k + 1])
  BY UptoFacts
<1> HIDE DEF u
<1>3. 0 + 1 = 1 /\ 1 + 1 = 2 /\ 2 + 1 = 3 /\ 3 + 1 = 4
      /\ 0 \in Nat /\ 1 \in Nat /\ 2 \in Nat /\ 3 \in Nat
  OBVIOUS
<1>4. /\ u[0 + 1] = 2 * u[0] + One(q[0 + 1]) /\ u[1 + 1] = 2 * u[1] + One(q[1 + 1])
      /\ u[2 + 1] = 2 * u[2] + One(q[2 + 1]) /\ u[3 + 1] = 2 * u[3] + One(q[3 + 1])
  BY <1>2, <1>3
<1>5. /\ u[1] = 2 * u[0] + One(q[1]) /\ u[2] = 2 * u[1] + One(q[2])
      /\ u[3] = 2 * u[2] + One(q[3]) /\ u[4] = 2 * u[3] + One(q[4])
  BY <1>3, <1>4
<1> DEFINE a == One(q[1])  b == One(q[2])  c == One(q[3])  d == One(q[4])
<1>6. a \in Nat /\ b \in Nat /\ c \in Nat /\ d \in Nat
  BY DEF One
<1> HIDE DEF a, b, c, d
<1>7. u[1] = a /\ u[2] = 2 * u[1] + b /\ u[3] = 2 * u[2] + c /\ u[4] = 2 * u[3] + d
  BY <1>2, <1>5, <1>6 DEF a, b, c, d
<1>8. u[4] = 8 * a + 4 * b + 2 * c + d
  BY <1>6, <1>7
<1> QED BY <1>1, <1>8 DEF a, b, c, d

\* The digits of a number below 16, as bits.
Binary(d) == [i \in 1 .. 4 |-> IF (d \div Pow2[4 - i]) % 2 = 1 THEN "1" ELSE "0"]

LEMMA DigitFacts ==
  /\ hex_digit_to_bin(DigitX) = << "x", "x", "x", "x" >>
  /\ hex_digit_to_bin(DigitZ) = << "z", "z", "z", "z" >>
  /\ \A d \in 0 .. 15 : hex_digit_to_bin(d) = Binary(d)
BY DEF hex_digit_to_bin, DigitX, DigitZ, Binary

LEMMA BinaryFacts ==
  ASSUME NEW a \in {0, 1}, NEW b \in {0, 1}, NEW c \in {0, 1}, NEW e \in {0, 1},
         NEW d, d = 8 * a + 4 * b + 2 * c + e
  PROVE  /\ Binary(d) \in Quartet /\ d \in 0 .. 15
         /\ Binary(d)[1] = (IF a = 1 THEN "1" ELSE "0")
         /\ Binary(d)[2] = (IF b = 1 THEN "1" ELSE "0")
         /\ Binary(d)[3] = (IF c = 1 THEN "1" ELSE "0")
         /\ Binary(d)[4] = (IF e = 1 THEN "1" ELSE "0")
<1>1. d \in 0 .. 15
  OBVIOUS
<1>2. /\ (d \div 8) % 2 = a /\ (d \div 4) % 2 = b /\ (d \div 2) % 2 = c /\ (d \div 1) % 2 = e
  OBVIOUS
<1>3. 4 - 1 = 3 /\ 4 - 2 = 2 /\ 4 - 3 = 1 /\ 4 - 4 = 0
      /\ Pow2[3] = 8 /\ Pow2[2] = 4 /\ Pow2[1] = 2 /\ Pow2[0] = 1
  BY Pow2Small, Pow2Facts
<1>4. Binary(d) \in Quartet
  BY DEF Binary, Quartet, Bit
<1>5. 1 \in 1 .. 4 /\ 2 \in 1 .. 4 /\ 3 \in 1 .. 4 /\ 4 \in 1 .. 4
  OBVIOUS
<1>6. \A i \in 1 .. 4 : Binary(d)[i] = IF (d \div Pow2[4 - i]) % 2 = 1 THEN "1" ELSE "0"
  BY DEF Binary
<1>7. /\ Binary(d)[1] = IF (d \div Pow2[4 - 1]) % 2 = 1 THEN "1" ELSE "0"
      /\ Binary(d)[2] = IF (d \div Pow2[4 - 2]) % 2 = 1 THEN "1" ELSE "0"
      /\ Binary(d)[3] = IF (d \div Pow2[4 - 3]) % 2 = 1 THEN "1" ELSE "0"
      /\ Binary(d)[4] = IF (d \div Pow2[4 - 4]) % 2 = 1 THEN "1" ELSE "0"
  BY <1>5, <1>6
<1> QED BY <1>1, <1>2, <1>3, <1>4, <1>7

\* A digit stands for its four bits, or as X for bits that no digit can name.
Stands(q, t) ==
  \/ q = t
  \/ /\ t = << "x", "x", "x", "x" >>
     /\ \E j, k \in 1 .. 4 : q[j] \in {"x", "z"} /\ q[j] # q[k]

LEMMA DigitAgrees ==
  ASSUME NEW q \in Quartet
  PROVE  /\ hex_digit_to_bin(quartet_to_hex_char(q)) \in Quartet
         /\ Stands(q, hex_digit_to_bin(quartet_to_hex_char(q)))
<1> DEFINE d == quartet_to_hex_char(q)
           t == hex_digit_to_bin(d)
           Known == \A i \in 1 .. 4 : q[i] \in {"0", "1"}
           Z == \A i \in 1 .. 4 : q[i] = "z"
<1>1. DOMAIN q = 1 .. 4 /\ q[1] \in Bit /\ q[2] \in Bit /\ q[3] \in Bit /\ q[4] \in Bit
      /\ \A r \in Quartet : r[1] = q[1] /\ r[2] = q[2] /\ r[3] = q[3] /\ r[4] = q[4] => r = q
  BY QuartetFacts
<1>2. 1 \in 1 .. 4 /\ 2 \in 1 .. 4 /\ 3 \in 1 .. 4 /\ 4 \in 1 .. 4
      /\ \A i \in 1 .. 4 : i = 1 \/ i = 2 \/ i = 3 \/ i = 4
  OBVIOUS
<1>3. << "x", "x", "x", "x" >> \in Quartet /\ << "z", "z", "z", "z" >> \in Quartet
  BY DEF Quartet, Bit
<1>4. CASE Known
  <2> DEFINE a == One(q[1])  b == One(q[2])  c == One(q[3])  e == One(q[4])
  <2>1. d = 8 * a + 4 * b + 2 * c + e
    BY <1>4, AvalOfQuartet DEF quartet_to_hex_char
  <2>2. /\ a \in {0, 1} /\ q[1] = (IF a = 1 THEN "1" ELSE "0")
        /\ b \in {0, 1} /\ q[2] = (IF b = 1 THEN "1" ELSE "0")
        /\ c \in {0, 1} /\ q[3] = (IF c = 1 THEN "1" ELSE "0")
        /\ e \in {0, 1} /\ q[4] = (IF e = 1 THEN "1" ELSE "0")
    <3>1. q[1] \in {"0", "1"} /\ q[2] \in {"0", "1"} /\ q[3] \in {"0", "1"} /\ q[4] \in {"0", "1"}
      BY <1>2, <1>4
    <3> QED BY <3>1 DEF One
  <2> HIDE DEF a, b, c, e, d
  <2>3. /\ Binary(d) \in Quartet /\ d \in 0 .. 15
        /\ Binary(d)[1] = q[1] /\ Binary(d)[2] = q[2] /\ Binary(d)[3] = q[3] /\ Binary(d)[4] = q[4]
    BY <2>1, <2>2, BinaryFacts
  <2>4. Binary(d) = q
    BY <1>1, <2>3
  <2>5. t = q
    BY <2>3, <2>4, DigitFacts
  <2> QED BY <2>5 DEF Stands, d
<1>5. CASE ~Known /\ Z
  <2>1. d = DigitZ
    BY <1>5 DEF quartet_to_hex_char
  <2>2. t = << "z", "z", "z", "z" >>
    BY <2>1, DigitFacts
  <2>3. t \in Quartet /\ t[1] = "z" /\ t[2] = "z" /\ t[3] = "z" /\ t[4] = "z"
    BY <1>3, <2>2
  <2>4. q[1] = "z" /\ q[2] = "z" /\ q[3] = "z" /\ q[4] = "z"
    BY <1>2, <1>5
  <2>5. t = q
    BY <1>1, <2>3, <2>4
  <2> QED BY <2>5 DEF Stands
<1>6. CASE ~Known /\ ~Z
  <2>1. d = DigitX
    BY <1>6 DEF quartet_to_hex_char
  <2>2. t = << "x", "x", "x", "x" >>
    BY <2>1, DigitFacts
  <2>3. PICK j \in 1 .. 4 : q[j] \in {"x", "z"}
    BY <1>1, <1>2, <1>6 DEF Bit
  <2>4. CASE \E k \in 1 .. 4 : q[j] # q[k]
    BY <1>3, <2>2, <2>3, <2>4 DEF Stands
  <2>5. CASE \A k \in 1 .. 4 : q[j] = q[k]
    <3>1. q[j] = "x"
      BY <1>6, <2>3, <2>5
    <3>2. q[1] = "x" /\ q[2] = "x" /\ q[3] = "x" /\ q[4] = "x"
      BY <1>2, <2>5, <3>1
    <3>3. t \in Quartet /\ t[1] = "x" /\ t[2] = "x" /\ t[3] = "x" /\ t[4] = "x"
      BY <1>3, <2>2
    <3>4. t = q
      BY <1>1, <3>2, <3>3
    <3> QED BY <3>4 DEF Stands
  <2> QED BY <2>4, <2>5
<1> QED BY <1>4, <1>5, <1>6

\* Four bits of a text.
LEMMA Chunk4Facts ==
  ASSUME NEW k \in Nat, NEW s \in Seq(Bit), Len(s) = 4 * k, NEW i \in 1 .. k
  PROVE  /\ Chunk4(s, i) \in Quartet
         /\ \A j \in 1 .. 4 : Chunk4(s, i)[j] = s[4 * (i - 1) + j]
<1> DEFINE m == 4 * i - 3
           r == 4 * i
<1>1. m \in Int /\ r \in Int /\ m <= r /\ r - m + 1 = 4 /\ \A j \in m .. r : s[j] \in Bit
  OBVIOUS
<1>2. \A j \in 1 .. 4 : m + j - 1 = 4 * (i - 1) + j
  OBVIOUS
<1>3. Chunk4(s, i) = SubSeq(s, m, r)
  BY DEF Chunk4
<1> HIDE DEF m, r
<1>4. /\ SubSeq(s, m, r) \in Seq(Bit) /\ Len(SubSeq(s, m, r)) = IF m <= r THEN r - m + 1 ELSE 0
      /\ \A j \in 1 .. r - m + 1 : SubSeq(s, m, r)[j] = s[m + j - 1]
  BY <1>1, SubSeqProperties
<1> QED BY <1>1, <1>2, <1>3, <1>4 DEF Quartet

\* The digits that bin_to_hex keeps are the last ones, and those it drops are 0.
LEMMA TrimFacts ==
  ASSUME NEW bin, NEW k \in Nat \ {0}, NEW D, HexDigits(bin) \in Seq(D), Len(HexDigits(bin)) = k
  PROVE  \E f \in 1 .. k :
           /\ Len(bin_to_hex(bin)) = k - f + 1
           /\ \A i \in f .. k : bin_to_hex(bin)[i - f + 1] = HexDigits(bin)[i]
           /\ \A i \in 1 .. f - 1 : HexDigits(bin)[i] = 0
<1> DEFINE h == HexDigits(bin)
           tail == {i \in 1 .. Len(h) : h[i] # 0}
           first == CHOOSE i \in tail : \A j \in tail : i <= j
           x == bin_to_hex(bin)
<1>1. x = IF tail = {} THEN << 0 >> ELSE SubSeq(h, first, Len(h))
  BY DEF bin_to_hex
<1>2. h \in Seq(D) /\ Len(h) = k /\ DOMAIN h = 1 .. k
  OBVIOUS
<1>3. tail \in SUBSET Nat /\ \A i : i \in tail <=> i \in 1 .. k /\ h[i] # 0
  OBVIOUS
<1> HIDE DEF h, tail, x
<1>4. CASE tail = {}
  <2>1. x = << 0 >> /\ Len(x) = 1 /\ x[1] = 0
    BY <1>1, <1>4
  <2>2. \A i \in 1 .. k : h[i] = 0
    BY <1>3, <1>4
  <2>3. k \in 1 .. k /\ k - k + 1 = 1 /\ \A i \in k .. k : i = k
    OBVIOUS
  <2>4. \A i \in k .. k : x[i - k + 1] = h[i]
    BY <2>1, <2>2, <2>3
  <2> QED BY <2>1, <2>2, <2>3, <2>4 DEF h, x
<1>5. CASE tail # {}
  <2>1. \E i \in tail : \A j \in tail : i <= j
    BY <1>3, <1>5, LeastNumber
  <2>2. first \in tail /\ \A j \in tail : first <= j
    BY <2>1, Zenon
  <2> HIDE DEF first
  <2>3. first \in 1 .. k /\ \A i \in 1 .. first - 1 : h[i] = 0
    BY <1>3, <2>2
  <2>4. first \in Int /\ k \in Int /\ first <= k /\ \A j \in first .. k : h[j] \in D
    BY <1>2, <2>3
  <2>5. x = SubSeq(h, first, k)
    BY <1>1, <1>2, <1>5
  <2>6. /\ Len(x) = IF first <= k THEN k - first + 1 ELSE 0
        /\ \A j \in 1 .. k - first + 1 : x[j] = h[first + j - 1]
    BY <2>4, <2>5, SubSeqProperties
  <2>7. \A i \in first .. k : x[i - first + 1] = h[i]
    <3> SUFFICES ASSUME NEW i \in first .. k PROVE x[i - first + 1] = h[i]
      OBVIOUS
    <3>1. i - first + 1 \in 1 .. k - first + 1 /\ first + (i - first + 1) - 1 = i
      BY <2>4
    <3> QED BY <2>6, <3>1
  <2> QED BY <2>3, <2>4, <2>6, <2>7 DEF h, x
<1> QED BY <1>4, <1>5

\* The digits, read back, are those that were written.
LEMMA HexReadBack ==
  ASSUME NEW bin \in Seq(Bit), bin # << >>
  PROVE  LET k == (Len(bin) + 3) \div 4
             s == Zeros(4 * k - Len(bin)) \o bin
             t == Zeros(4 * k - 4 * Len(bin_to_hex(bin))) \o hex_to_bin(bin_to_hex(bin))
         IN \A i \in 1 .. k : /\ Chunk4(s, i) \in Quartet
                              /\ Chunk4(t, i) = hex_digit_to_bin(quartet_to_hex_char(Chunk4(s, i)))
<1> DEFINE l == Len(bin)
           k == (l + 3) \div 4
           s == Zeros(4 * k - l) \o bin
           h == HexDigits(bin)
           x == bin_to_hex(bin)
           b == hex_to_bin(x)
           t == Zeros(4 * k - 4 * Len(x)) \o b
           Q(i) == hex_digit_to_bin(h[i])
<1>1. l \in Nat \ {0}
  OBVIOUS
<1>2. k \in Nat \ {0} /\ 4 * k - l \in Nat /\ (4 * k - l) + l = 4 * k
  BY <1>1
<1>3. h = [i \in 1 .. k |-> quartet_to_hex_char(Chunk4(s, i))]
  BY DEF HexDigits
<1> HIDE DEF k, l
<1>4. s \in Seq(Bit) /\ Len(s) = 4 * k
  <2> DEFINE z == Zeros(4 * k - l)
  <2>1. z \in Seq(Bit) /\ Len(z) = 4 * k - l
    BY <1>2, ZerosFacts
  <2> HIDE DEF z
  <2>2. z \o bin \in Seq(Bit) /\ Len(z \o bin) = (4 * k - l) + l
    BY <2>1, ConcatProperties DEF l
  <2> QED BY <1>2, <2>2 DEF z
<1> HIDE DEF s
<1>5. \A i \in 1 .. k : Chunk4(s, i) \in Quartet
  BY <1>2, <1>4, Chunk4Facts
<1>6. \A i \in 1 .. k : h[i] = quartet_to_hex_char(Chunk4(s, i)) /\ Q(i) \in Quartet
  BY <1>3, <1>5, DigitAgrees
<1>7. h \in Seq({h[i] : i \in 1 .. k}) /\ Len(h) = k
  BY <1>2, <1>3
<1>8. PICK f \in 1 .. k : /\ Len(x) = k - f + 1
                          /\ \A i \in f .. k : x[i - f + 1] = h[i]
                          /\ \A i \in 1 .. f - 1 : h[i] = 0
  BY <1>2, <1>7, TrimFacts
<1> DEFINE z == 4 * (f - 1)
<1>9. z \in Nat /\ 4 * k - 4 * Len(x) = z /\ z + 4 * Len(x) = 4 * k
  BY <1>2, <1>8
<1>10. \A m \in 1 .. 4 * Len(x) : b[m] = hex_digit_to_bin(x[(m + 3) \div 4])[((m - 1) % 4) + 1]
  BY DEF hex_to_bin
<1>11. ASSUME NEW i \in f .. k, NEW j \in 1 .. 4
       PROVE  4 * (i - f) + j \in 1 .. 4 * Len(x) /\ b[4 * (i - f) + j] = Q(i)[j]
  <2> DEFINE m == 4 * (i - f) + j
  <2>1. m \in 1 .. 4 * Len(x)
    BY <1>2, <1>8
  <2>2. (m + 3) \div 4 = i - f + 1 /\ ((m - 1) % 4) + 1 = j
    <3>1. \A a \in Nat : \A y \in 1 .. 4 :
             ((4 * a + y) + 3) \div 4 = a + 1 /\ (((4 * a + y) - 1) % 4) + 1 = y
      OBVIOUS
    <3>2. i - f \in Nat
      BY <1>2, <1>8
    <3> QED BY <3>1, <3>2
  <2> HIDE DEF m
  <2>3. b[m] = hex_digit_to_bin(x[i - f + 1])[j]
    BY <1>10, <2>1, <2>2
  <2> QED BY <1>8, <2>1, <2>3 DEF m
<1>12. b \in Seq(Bit) /\ Len(b) = 4 * Len(x)
  <2>1. ASSUME NEW m \in 1 .. 4 * Len(x) PROVE b[m] \in Bit
    <3> DEFINE i == f + (m - 1) \div 4
               j == ((m - 1) % 4) + 1
    <3>1. i \in f .. k /\ j \in 1 .. 4 /\ 4 * (i - f) + j = m /\ i \in 1 .. k
      <4> DEFINE q == (m - 1) \div 4
                 r == (m - 1) % 4
      <4>1. m - 1 \in Nat /\ q \in Nat /\ r \in 0 .. 3 /\ 4 * q + r = m - 1
        <5>1. 4 * Len(x) \in Nat
          BY <1>2, <1>8
        <5>2. m - 1 \in Nat
          BY <5>1
        <5>3. \A w \in Nat : w \div 4 \in Nat /\ w % 4 \in 0 .. 3 /\ 4 * (w \div 4) + (w % 4) = w
          OBVIOUS
        <5> QED BY <5>2, <5>3
      <4> HIDE DEF q, r
      <4>2. m <= 4 * (k - f + 1)
        BY <1>2, <1>8
      <4>3. q <= k - f
        BY <1>2, <4>1, <4>2
      <4>4. i = f + q /\ j = r + 1
        BY DEF q, r
      <4> HIDE DEF i, j
      <4> QED BY <1>2, <4>1, <4>3, <4>4
    <3> HIDE DEF i, j
    <3>2. b[m] = Q(i)[j]
      BY <1>11, <3>1
    <3>3. Q(i) \in Quartet
      BY <1>6, <3>1
    <3>4. Q(i)[1] \in Bit /\ Q(i)[2] \in Bit /\ Q(i)[3] \in Bit /\ Q(i)[4] \in Bit
      BY <3>3, QuartetFacts
    <3>5. j = 1 \/ j = 2 \/ j = 3 \/ j = 4
      BY <3>1
    <3> QED BY <3>2, <3>4, <3>5
  <2>2. b = [m \in 1 .. 4 * Len(x) |-> hex_digit_to_bin(x[(m + 3) \div 4])[((m - 1) % 4) + 1]]
    BY DEF hex_to_bin
  <2>3. 4 * Len(x) \in Nat
    BY <1>2, <1>8
  <2> HIDE DEF b, x
  <2> QED BY <2>1, <2>2, <2>3
<1>13. t \in Seq(Bit) /\ Len(t) = 4 * k
       /\ \A i \in 1 .. 4 * k : t[i] = IF i <= z THEN "0" ELSE b[i - z]
  <2> DEFINE o == Zeros(z)
             n == 4 * Len(x)
  <2>1. o \in Seq(Bit) /\ Len(o) = z /\ \A i \in 1 .. z : o[i] = "0"
    BY <1>9, ZerosFacts
  <2>2. t = o \o b
    BY <1>9
  <2>3. n \in Nat /\ z + n = 4 * k /\ Len(b) = n
    BY <1>2, <1>8, <1>9, <1>12
  <2> HIDE DEF o, n, b, t
  <2>4. /\ o \o b \in Seq(Bit) /\ Len(o \o b) = z + n
        /\ \A i \in 1 .. z + n : (o \o b)[i] = IF i <= z THEN o[i] ELSE b[i - z]
    <3>1. b \in Seq(Bit)
      BY <1>12
    <3>2. /\ o \o b \in Seq(Bit) /\ Len(o \o b) = Len(o) + Len(b)
          /\ \A i \in 1 .. Len(o) + Len(b) : (o \o b)[i] = IF i <= Len(o) THEN o[i] ELSE b[i - Len(o)]
      BY <2>1, <3>1, ConcatProperties
    <3> QED BY <2>1, <2>3, <3>2
  <2> QED BY <1>9, <2>1, <2>2, <2>3, <2>4
<1> HIDE DEF t
<1>14. ASSUME NEW i \in 1 .. k PROVE Chunk4(t, i) = Q(i)
  <2>1. Chunk4(t, i) \in Quartet /\ \A j \in 1 .. 4 : Chunk4(t, i)[j] = t[4 * (i - 1) + j]
    BY <1>2, <1>13, Chunk4Facts
  <2>2. Q(i) \in Quartet
    BY <1>6
  <2>3. \A j \in 1 .. 4 : t[4 * (i - 1) + j] = Q(i)[j]
    <3> SUFFICES ASSUME NEW j \in 1 .. 4 PROVE t[4 * (i - 1) + j] = Q(i)[j]
      OBVIOUS
    <3>1. 4 * (i - 1) + j \in 1 .. 4 * k
      BY <1>2
    <3>2. CASE i < f
      <4>1. 4 * (i - 1) + j <= z
        BY <1>2, <3>2
      <4>2. h[i] = 0
        BY <1>8, <3>2
      <4>3. Q(i) = Binary(0)
        BY <4>2, DigitFacts
      <4>4. Binary(0)[j] = "0"
        <5>1. Binary(0)[1] = "0" /\ Binary(0)[2] = "0" /\ Binary(0)[3] = "0" /\ Binary(0)[4] = "0"
          <6>1. 0 = 8 * 0 + 4 * 0 + 2 * 0 + 0 /\ 0 \in {0, 1} /\ 0 # 1
            OBVIOUS
          <6> QED BY <6>1, BinaryFacts
        <5>2. j = 1 \/ j = 2 \/ j = 3 \/ j = 4
          OBVIOUS
        <5> QED BY <5>1, <5>2
      <4>5. t[4 * (i - 1) + j] = "0"
        BY <1>13, <3>1, <4>1
      <4> QED BY <4>3, <4>4, <4>5
    <3>3. CASE i >= f
      <4>1. i \in f .. k /\ ~(4 * (i - 1) + j <= z) /\ (4 * (i - 1) + j) - z = 4 * (i - f) + j
        BY <1>2, <3>3
      <4>2. t[4 * (i - 1) + j] = b[4 * (i - f) + j]
        BY <1>13, <3>1, <4>1
      <4> QED BY <1>11, <4>1, <4>2
    <3> QED BY <3>2, <3>3, <1>2
  <2> HIDE DEF Q
  <2>4. 1 \in 1 .. 4 /\ 2 \in 1 .. 4 /\ 3 \in 1 .. 4 /\ 4 \in 1 .. 4
    OBVIOUS
  <2>5. /\ Chunk4(t, i)[1] = Q(i)[1] /\ Chunk4(t, i)[2] = Q(i)[2]
        /\ Chunk4(t, i)[3] = Q(i)[3] /\ Chunk4(t, i)[4] = Q(i)[4]
    BY <2>1, <2>3, <2>4
  <2> QED BY <2>1, <2>2, <2>5, QuartetFacts
<1>15. \A i \in 1 .. k : /\ Chunk4(s, i) \in Quartet
                         /\ Chunk4(t, i) = hex_digit_to_bin(quartet_to_hex_char(Chunk4(s, i)))
  BY <1>5, <1>6, <1>14
<1> QED BY <1>15 DEF k, l, s, t

LEMMA HexOfText ==
  ASSUME NEW bin \in Seq(Bit), bin # << >>
  PROVE  LET hex == bin_to_hex(bin)
             all == 4 * ((Len(bin) + 3) \div 4)
             s   == Zeros(all - Len(bin)) \o bin
             t   == Zeros(all - 4 * Len(hex)) \o hex_to_bin(hex)
         IN \A i \in 1 .. all \div 4 :
              \/ Chunk4(s, i) = Chunk4(t, i)
              \/ /\ Chunk4(t, i) = << "x", "x", "x", "x" >>
                 /\ \E j, k \in 1 .. 4 : Chunk4(s, i)[j] \in {"x", "z"} /\ Chunk4(s, i)[j] # Chunk4(s, i)[k]
<1> DEFINE n == (Len(bin) + 3) \div 4
           hex == bin_to_hex(bin)
           s == Zeros(4 * n - Len(bin)) \o bin
           t == Zeros(4 * n - 4 * Len(hex)) \o hex_to_bin(hex)
<1>1. \A i \in 1 .. n : Chunk4(s, i) \in Quartet
                        /\ Chunk4(t, i) = hex_digit_to_bin(quartet_to_hex_char(Chunk4(s, i)))
  BY HexReadBack
<1>2. n \in Nat /\ (4 * n) \div 4 = n
  OBVIOUS
<1> HIDE DEF n, s, t
<1>3. ASSUME NEW i \in 1 .. n PROVE Stands(Chunk4(s, i), Chunk4(t, i))
  BY <1>1, DigitAgrees
<1>4. \A i \in 1 .. (4 * n) \div 4 :
        \/ Chunk4(s, i) = Chunk4(t, i)
        \/ /\ Chunk4(t, i) = << "x", "x", "x", "x" >>
           /\ \E j, k \in 1 .. 4 : Chunk4(s, i)[j] \in {"x", "z"} /\ Chunk4(s, i)[j] # Chunk4(s, i)[k]
  BY <1>2, <1>3 DEF Stands
<1> QED BY <1>4 DEF n, s, t

-----------------------------------------------------------------------------
(* The invariant.                                                           *)

Values(n) == {v \in Seq(Bit) : Len(v) = Length[n]}

\* The chunks u that are held of a net are those of the samples s, in their order.
Stacked(n, s, u) ==
  /\ Chunks(n) = 1 => /\ Len(u) = Len(s)
                      /\ \A i \in 1 .. Len(s) : u[i] = Kept(n, s[i])[1]
  /\ Chunks(n) # 1 => /\ Len(u) = 2 * Len(s)
                      /\ \A i \in 1 .. Len(s) : /\ u[2 * i - 1] = Kept(n, s[i])[1]
                                                /\ u[2 * i] = Kept(n, s[i])[2]

\* The text that is held of a net is that of the last sample.
IsText(n, s, text) == s # << >> /\ text = Vector(n, s[Len(s)])

WInv ==
  /\ Nets \in Designs
  /\ \A n \in Nets : Valid(n, value[n])
  /\ forced \subseteq Nets
  /\ DOMAIN writes \subseteq Nets /\ DOMAIN asked = DOMAIN writes
  /\ \A n \in DOMAIN writes : writes[n] \in Op(n)
  /\ pc \in {"run", "write", "read", "change"}

RInv ==
  /\ DOMAIN reads \subseteq Nets
  /\ \A n \in DOMAIN reads : reads[n] \in Unread(n)
  /\ DOMAIN sampled = DOMAIN reads
  /\ \A n \in DOMAIN reads : /\ sampled[n] \in Seq(Values(n))
                             /\ Stacked(n, sampled[n], reads[n].uintValues)
  /\ fresh \subseteq DOMAIN reads
  /\ \A n \in fresh : IsText(n, sampled[n], reads[n].strValue)

CInv ==
  /\ change \in Unread(Watched)
  /\ changed # << >> => /\ Valid(Watched, changed)
                        /\ change.uintValues = ChangeKept(Watched, changed)
                        /\ change.strValue = Vector(Watched, changed)

GInv ==
  /\ got.num \in 0 .. Pow2[2 * Width] - 1
  /\ got.is # << >> => got.num = NumberOf(got.is)
  /\ got.text # << >> => got.text = LastBits(got.is, Len(got.text))

IInv == WInv /\ RInv /\ CInv /\ GInv

LEMMA IInvProperties == IInv => NumOfSamples /\ HexAgrees
<1> SUFFICES ASSUME IInv PROVE NumOfSamples /\ HexAgrees
  OBVIOUS
<1>1. TypeOK
  BY DEF IInv, WInv, RInv, CInv, GInv, TypeOK, Valid
<1>2. NumOfSamples
  BY <1>1 DEF IInv, GInv, NumOfSamples
<1>3. \A n \in DOMAIN reads : reads[n].strValue \in Seq(Bit)
  BY DEF IInv, RInv, Unread
<1>4. HexAgrees
  BY <1>3, HexOfText DEF HexAgrees
<1> QED BY <1>2, <1>4

LEMMA WatchedFacts ==
  ASSUME WInv
  PROVE  Watched \in Nets /\ Nets \subseteq UNION Designs /\ Watched \in UNION Designs
<1>1. \E n \in Nets : TRUE
  BY DesignAssumption DEF WInv
<1>2. Watched \in Nets
  BY <1>1, Zenon DEF Watched
<1> QED BY <1>2 DEF WInv

\* A text that is put into a net: a value of it.
LEMMA FitFacts ==
  ASSUME NEW n \in UNION Designs, NEW s \in Seq(Bit)
  PROVE  Valid(n, Fit(n, s))
<1> DEFINE l == Length[n]
           z == Zeros(l)
           t == z \o s
           m == Len(t) - l + 1
           r == Len(t)
<1>1. l \in Nat \ {0}
  BY LengthAssumption
<1>2. z \in Seq(Bit) /\ Len(z) = l
  BY <1>1, ZerosFacts
<1> HIDE DEF l, z
<1>3. t \in Seq(Bit) /\ Len(t) = l + Len(s)
  BY <1>2, ConcatProperties
<1>4. Fit(n, s) = SubSeq(t, m, r)
  BY DEF Fit, LastBits, l, z
<1> HIDE DEF t
<1>5. m \in Int /\ r \in Int /\ m <= r /\ r - m + 1 = l /\ \A j \in m .. r : t[j] \in Bit
  BY <1>1, <1>3
<1> HIDE DEF m, r
<1>6. SubSeq(t, m, r) \in Seq(Bit) /\ Len(SubSeq(t, m, r)) = l
  BY <1>5, SubSeqProperties
<1> QED BY <1>4, <1>6 DEF Valid, l

LEMMA NumBitsFacts == \A num : NumBits(num) \in Seq(Bit)
<1> SUFFICES ASSUME NEW num PROVE NumBits(num) \in Seq(Bit)
  OBVIOUS
<1> DEFINE w == 2 * Width
           f(i) == IF (num \div Pow2[w - i]) % 2 = 1 THEN "1" ELSE "0"
<1>1. w \in Nat
  BY WidthAssumption
<1>2. NumBits(num) = [i \in 1 .. w |-> f(i)]
  BY DEF NumBits
<1>3. \A i \in 1 .. w : f(i) \in Bit
  BY DEF Bit
<1> HIDE DEF w, f
<1> QED BY <1>1, <1>2, <1>3

LEMMA ZerosValid ==
  ASSUME NEW n \in UNION Designs
  PROVE  Valid(n, Zeros(Length[n]))
BY LengthAssumption, ZerosFacts DEF Valid

\* Every operation holds a value of its net.
LEMMA OpFacts ==
  ASSUME NEW n \in UNION Designs, NEW op \in Op(n)
  PROVE  Valid(n, op.bits) /\ op.flag \in Flag
<1>1. PICK s \in Text(n) \cup {NumBits(0)} : op.bits = Fit(n, s)
  BY DEF Op
<1>2. s \in Seq(Bit)
  BY InputAssumption, NumBitsFacts DEF Text
<1> QED BY <1>1, <1>2, FitFacts DEF Op

LEMMA EmptyFacts ==
  /\ << >> \in Seq(0 .. Pow2[Width] - 1) /\ << >> \in Seq(Bit) /\ Len(<< >>) = 0
  /\ DOMAIN NoEntry = {}
  /\ [uintValues |-> << >>, strValue |-> << >>] \in [uintValues : Seq(0 .. Pow2[Width] - 1), strValue : Seq(Bit)]
  /\ \A n : << >> \in Seq(Values(n)) /\ Stacked(n, << >>, << >>)
<1>1. DOMAIN NoEntry = {}
  BY DEF NoEntry
<1>2. \A n : << >> \in Seq(Values(n)) /\ Stacked(n, << >>, << >>)
  BY DEF Stacked
<1> QED BY <1>1, <1>2

LEMMA NothingKept ==
  ASSUME got' = Nothing
  PROVE  GInv'
<1>1. Pow2[2 * Width] \in Nat /\ Pow2[2 * Width] >= 1
  BY WidthAssumption, Pow2Facts
<1>2. got'.num = 0 /\ got'.is = << >> /\ got'.text = << >>
  BY DEF Nothing
<1> QED BY <1>1, <1>2 DEF GInv

LEMMA InitIInv == Init => IInv
<1> SUFFICES ASSUME Init PROVE IInv
  OBVIOUS
<1>1. PICK nets \in Designs : value = [n \in nets |-> Zeros(Length[n])]
  BY DEF Init
<1>2. Nets = nets /\ \A n \in Nets : Valid(n, value[n])
  BY <1>1, ZerosValid DEF Nets
<1>3. WInv
  BY <1>2, EmptyFacts DEF Init, WInv
<1>4. RInv
  BY EmptyFacts DEF Init, RInv
<1>5. CInv
  BY EmptyFacts DEF Init, CInv, Unread
<1>6. GInv
  <2>1. Pow2[2 * Width] \in Nat /\ Pow2[2 * Width] >= 1
    BY WidthAssumption, Pow2Facts
  <2> QED BY <2>1 DEF GInv, Init, Nothing
<1> QED BY <1>3, <1>4, <1>5, <1>6 DEF IInv

-----------------------------------------------------------------------------
(* Every step keeps it.                                                     *)

LEMMA WKept ==
  ASSUME WInv, UNCHANGED << value, forced, writes, asked >>,
         pc' \in {"run", "write", "read", "change"}
  PROVE  WInv'
BY DEF WInv, Nets, Valid, Op, Text, Fit, NumBits

LEMMA RKept ==
  ASSUME RInv, Nets' = Nets, UNCHANGED << reads, sampled, fresh >>
  PROVE  RInv'
BY DEF RInv, Unread

LEMMA CKept ==
  ASSUME CInv, Nets' = Nets, UNCHANGED << change, changed >>
  PROVE  CInv'
<1>1. Watched' = Watched
  BY DEF Watched
<1> QED BY <1>1 DEF CInv, Valid, Unread, ChangeKept

LEMMA QueueStep ==
  ASSUME IInv, NEW n \in Nets, write(n) \/ force(n) \/ release(n), got' = Nothing
  PROVE  IInv'
<1>1. PICK flag \in Flag, s \in Text(n) \cup {NumBits(0)} : Queue(n, flag, s)
  BY DEF write, force, release, Flag
<1> DEFINE op == [flag |-> flag, bits |-> Fit(n, s)]
<1>2. op \in Op(n)
  BY DEF Op
<1>3. /\ writes' = Insert(writes, n, op) /\ asked' = Put(asked, n, op)
      /\ UNCHANGED << value, forced, reads, sampled, fresh, change, changed, pc >> /\ pc = "run"
  BY <1>1 DEF Queue
<1> HIDE DEF op
<1>4. Nets' = Nets
  BY <1>3 DEF Nets
<1>5. /\ DOMAIN writes' = DOMAIN writes \cup {n} /\ DOMAIN asked' = DOMAIN asked \cup {n}
      /\ \A m \in DOMAIN writes' : writes'[m] = IF m \in DOMAIN writes THEN writes[m] ELSE op
  BY <1>3 DEF Insert, Put
<1>6. /\ DOMAIN writes' \subseteq Nets /\ DOMAIN asked' = DOMAIN writes'
      /\ \A m \in DOMAIN writes' : writes'[m] \in Op(m)
  BY <1>2, <1>5 DEF IInv, WInv
<1>7. WInv'
  BY <1>3, <1>4, <1>6 DEF IInv, WInv, Valid, Op, Text, Fit, NumBits
<1>8. RInv'
  BY <1>3, <1>4, RKept DEF IInv
<1>9. CInv'
  BY <1>3, <1>4, CKept DEF IInv
<1> QED BY <1>7, <1>8, <1>9, NothingKept DEF IInv

LEMMA ReadStep ==
  ASSUME IInv, NEW n \in Nets, read(n), got' = Nothing
  PROVE  IInv'
<1> DEFINE e == [uintValues |-> << >>, strValue |-> << >>]
<1>1. /\ reads' = Insert(reads, n, e) /\ sampled' = Insert(sampled, n, << >>) /\ pc = "run"
      /\ UNCHANGED << value, forced, writes, asked, fresh, change, changed, pc >>
  BY DEF read
<1>2. Nets' = Nets
  BY <1>1 DEF Nets
<1>3. /\ DOMAIN reads' = DOMAIN reads \cup {n} /\ DOMAIN sampled' = DOMAIN reads \cup {n}
      /\ \A m \in DOMAIN reads' : /\ reads'[m] = IF m \in DOMAIN reads THEN reads[m] ELSE e
                                  /\ sampled'[m] = IF m \in DOMAIN reads THEN sampled[m] ELSE << >>
  BY <1>1 DEF IInv, RInv, Insert, Put
<1>4. \A m : e \in Unread(m) /\ Unread(m)' = Unread(m)
  BY EmptyFacts DEF Unread
<1>5. \A m : << >> \in Seq(Values(m)) /\ Stacked(m, << >>, e.uintValues)
  BY EmptyFacts
<1> HIDE DEF e
<1>6. /\ DOMAIN reads' \subseteq Nets
      /\ \A m \in DOMAIN reads' : /\ reads'[m] \in Unread(m)
                                  /\ sampled'[m] \in Seq(Values(m))
                                  /\ Stacked(m, sampled'[m], reads'[m].uintValues)
  BY <1>3, <1>4, <1>5 DEF IInv, RInv
<1>7. /\ fresh' \subseteq DOMAIN reads'
      /\ \A m \in fresh' : IsText(m, sampled'[m], reads'[m].strValue)
  BY <1>1, <1>3 DEF IInv, RInv
<1>8. RInv'
  BY <1>2, <1>3, <1>4, <1>6, <1>7 DEF RInv
<1>9. WInv'
  BY <1>1, WKept DEF IInv, WInv
<1>10. CInv'
  BY <1>1, <1>2, CKept DEF IInv
<1> QED BY <1>8, <1>9, <1>10, NothingKept DEF IInv

LEMMA AwaitStep ==
  ASSUME IInv, AwaitWrite \/ AwaitRead \/ AwaitChange, got' = Nothing
  PROVE  IInv'
<1>1. /\ UNCHANGED << value, forced, writes, asked, reads, sampled, fresh, change, changed >>
      /\ pc' \in {"run", "write", "read", "change"}
  BY DEF AwaitWrite, AwaitRead, AwaitChange, Suspend
<1>2. Nets' = Nets
  BY <1>1 DEF Nets
<1>3. WInv'
  BY <1>1, WKept DEF IInv
<1>4. RInv'
  BY <1>1, <1>2, RKept DEF IInv
<1>5. CInv'
  BY <1>1, <1>2, CKept DEF IInv
<1> QED BY <1>3, <1>4, <1>5, NothingKept DEF IInv

LEMMA WriteResumeStep ==
  ASSUME IInv, WriteResume, got' = Nothing
  PROVE  IInv'
<1>1. /\ pc' = "run" /\ value' = Written(writes) /\ forced' = Held(writes)
      /\ writes' = NoEntry /\ asked' = NoEntry
      /\ UNCHANGED << reads, sampled, fresh, change, changed >>
  BY DEF WriteResume
<1>2. Nets' = Nets
  BY <1>1 DEF Nets, Written
<1>3. \A n \in Nets : Valid(n, value'[n])
  <2> SUFFICES ASSUME NEW n \in Nets PROVE Valid(n, value'[n])
    OBVIOUS
  <2>1. value'[n] = IF n \in DOMAIN writes /\ Puts(n, writes[n]) THEN writes[n].bits ELSE value[n]
    BY <1>1 DEF Written
  <2>2. n \in DOMAIN writes => Valid(n, writes[n].bits)
    <3>1. n \in UNION Designs /\ (n \in DOMAIN writes => writes[n] \in Op(n))
      BY DEF IInv, WInv
    <3> QED BY <3>1, OpFacts
  <2> QED BY <2>1, <2>2 DEF IInv, WInv
<1>4. WInv'
  <2>1. forced' \subseteq Nets
    BY <1>1 DEF IInv, WInv, Held
  <2> QED BY <1>1, <1>2, <1>3, <2>1, EmptyFacts DEF IInv, WInv, Valid
<1>5. RInv'
  BY <1>1, <1>2, RKept DEF IInv
<1>6. CInv'
  BY <1>1, <1>2, CKept DEF IInv
<1> QED BY <1>4, <1>5, <1>6, NothingKept DEF IInv

\* A sample goes on top of those that are held.
LEMMA SampleFacts ==
  ASSUME NEW n \in UNION Designs, NEW v \in Values(n), NEW s \in Seq(Values(n)),
         NEW u \in Seq(0 .. Pow2[Width] - 1), Stacked(n, s, u)
  PROVE  /\ u \o Kept(n, v) \in Seq(0 .. Pow2[Width] - 1)
         /\ Append(s, v) \in Seq(Values(n))
         /\ Stacked(n, Append(s, v), u \o Kept(n, v))
         /\ IsText(n, Append(s, v), Vector(n, v))
         /\ Vector(n, v) \in Seq(Bit)
<1> DEFINE N == 0 .. Pow2[Width] - 1
           k == Kept(n, v)
           w == u \o k
           t == Append(s, v)
           l == Len(s)
           K(i) == Kept(n, t[i])
<1>1. Valid(n, v)
  BY DEF Values, Valid
<1>2. /\ k \in Seq(N)
      /\ Chunks(n) = 1 => Len(k) = 1
      /\ Chunks(n) # 1 => Len(k) = 2
      /\ Vector(n, v) \in Seq(Bit)
  BY <1>1, KeptFacts, VectorFacts
<1>3. /\ t \in Seq(Values(n)) /\ t # << >> /\ Len(t) = l + 1 /\ t[l + 1] = v /\ l \in Nat
      /\ \A i \in 1 .. l : t[i] = s[i]
  BY AppendProperties, LenProperties
<1>4. /\ K(l + 1) = k
      /\ \A i \in 1 .. l : K(i) = Kept(n, s[i])
  BY <1>3
<1>5. IsText(n, t, Vector(n, v))
  BY <1>3 DEF IsText
<1> HIDE DEF N, k, K, t, l
<1>6. /\ w \in Seq(N) /\ Len(w) = Len(u) + Len(k) /\ Len(u) \in Nat
      /\ \A i \in 1 .. Len(u) + Len(k) : w[i] = IF i <= Len(u) THEN u[i] ELSE k[i - Len(u)]
  BY <1>2, ConcatProperties, LenProperties DEF N
<1> HIDE DEF w
<1>7. ASSUME Chunks(n) = 1
      PROVE  Len(w) = Len(t) /\ \A i \in 1 .. Len(t) : w[i] = K(i)[1]
  <2>1. Len(u) = l /\ \A i \in 1 .. l : u[i] = K(i)[1]
    BY <1>4, <1>7 DEF Stacked, l
  <2>2. Len(k) = 1
    BY <1>2, <1>7
  <2>3. ASSUME NEW i \in 1 .. l + 1 PROVE w[i] = K(i)[1]
    <3>1. w[i] = IF i <= l THEN u[i] ELSE k[i - l]
      BY <1>6, <2>1, <2>2
    <3>2. CASE i <= l
      BY <1>3, <2>1, <3>1, <3>2
    <3>3. CASE ~(i <= l)
      <4>1. i = l + 1 /\ i - l = 1
        BY <1>3, <3>3
      <4> QED BY <1>4, <3>1, <3>3, <4>1
    <3> QED BY <3>2, <3>3
  <2> QED BY <1>3, <1>6, <2>1, <2>2, <2>3
<1>8. ASSUME Chunks(n) # 1
      PROVE  /\ Len(w) = 2 * Len(t)
             /\ \A i \in 1 .. Len(t) : w[2 * i - 1] = K(i)[1] /\ w[2 * i] = K(i)[2]
  <2>1. Len(u) = 2 * l /\ \A i \in 1 .. l : u[2 * i - 1] = K(i)[1] /\ u[2 * i] = K(i)[2]
    BY <1>4, <1>8 DEF Stacked, l
  <2>2. Len(k) = 2
    BY <1>2, <1>8
  <2>3. \A j \in 1 .. 2 * l + 2 : w[j] = IF j <= 2 * l THEN u[j] ELSE k[j - 2 * l]
    BY <1>6, <2>1, <2>2
  <2>4. ASSUME NEW i \in 1 .. l + 1 PROVE w[2 * i - 1] = K(i)[1] /\ w[2 * i] = K(i)[2]
    <3>1. 2 * i - 1 \in 1 .. 2 * l + 2 /\ 2 * i \in 1 .. 2 * l + 2
      BY <1>3
    <3>2. CASE i <= l
      <4>1. 2 * i - 1 <= 2 * l /\ 2 * i <= 2 * l /\ i \in 1 .. l
        BY <1>3, <3>2
      <4> QED BY <2>1, <2>3, <3>1, <4>1
    <3>3. CASE ~(i <= l)
      <4>1. i = l + 1 /\ ~(2 * i - 1 <= 2 * l) /\ ~(2 * i <= 2 * l)
            /\ (2 * i - 1) - 2 * l = 1 /\ 2 * i - 2 * l = 2
        BY <1>3, <3>3
      <4> QED BY <1>4, <2>3, <3>1, <4>1
    <3> QED BY <3>2, <3>3
  <2>5. Len(w) = 2 * Len(t)
    BY <1>3, <1>6, <2>1, <2>2
  <2> QED BY <1>3, <2>4, <2>5
<1>9. Stacked(n, t, w)
  BY <1>7, <1>8 DEF Stacked, K
<1> QED BY <1>2, <1>3, <1>5, <1>6, <1>9 DEF w, k, t, N

LEMMA ReadResumeStep ==
  ASSUME IInv, ReadResume, got' = Nothing
  PROVE  IInv'
<1>1. /\ pc = "read" /\ pc' = "run"
      /\ reads' = [n \in DOMAIN reads |->
                     [uintValues |-> reads[n].uintValues \o Kept(n, value[n]),
                      strValue   |-> Vector(n, value[n])]]
      /\ sampled' = [n \in DOMAIN reads |-> Append(sampled[n], value[n])]
      /\ fresh' = DOMAIN reads
      /\ UNCHANGED << value, forced, writes, asked, change, changed >>
  BY DEF ReadResume
<1>2. Nets' = Nets
  BY <1>1 DEF Nets
<1>3. DOMAIN reads' = DOMAIN reads /\ DOMAIN sampled' = DOMAIN reads
  BY <1>1
<1>4. ASSUME NEW n \in DOMAIN reads
      PROVE  /\ reads'[n] \in Unread(n) /\ sampled'[n] \in Seq(Values(n))
             /\ Stacked(n, sampled'[n], reads'[n].uintValues)
             /\ IsText(n, sampled'[n], reads'[n].strValue)
  <2> DEFINE u == reads[n].uintValues
             v == value[n]
             w == u \o Kept(n, v)
             t == Append(sampled[n], v)
  <2>1. n \in UNION Designs /\ v \in Values(n)
    BY DEF IInv, WInv, RInv, Valid, Values
  <2>2. sampled[n] \in Seq(Values(n)) /\ u \in Seq(0 .. Pow2[Width] - 1) /\ Stacked(n, sampled[n], u)
    BY DEF IInv, RInv, Unread
  <2>3. sampled'[n] = t /\ reads'[n] = [uintValues |-> w, strValue |-> Vector(n, v)]
    BY <1>1
  <2>4. /\ w \in Seq(0 .. Pow2[Width] - 1) /\ t \in Seq(Values(n)) /\ Stacked(n, t, w)
        /\ IsText(n, t, Vector(n, v)) /\ Vector(n, v) \in Seq(Bit)
    <3> HIDE DEF u, v
    <3> QED BY <2>1, <2>2, SampleFacts
  <2> HIDE DEF u, v, w, t
  <2> QED BY <2>3, <2>4 DEF Unread
<1>5. RInv'
  <2>1. \A n : Unread(n)' = Unread(n)
    BY DEF Unread
  <2> QED BY <1>1, <1>2, <1>3, <1>4, <2>1 DEF IInv, RInv
<1>6. WInv'
  BY <1>1, WKept DEF IInv
<1>7. CInv'
  BY <1>1, <1>2, CKept DEF IInv
<1> QED BY <1>5, <1>6, <1>7, NothingKept DEF IInv

LEMMA DriveStep ==
  ASSUME IInv, NEW n \in Nets, Drive(n), got' = Nothing
  PROVE  IInv'
<1>1. PICK v \in Driven[n] :
        /\ pc # "run" /\ value' = [value EXCEPT ![n] = v]
        /\ IF pc = "change" /\ n = Watched THEN ChangeResume(v) ELSE UNCHANGED << change, changed, pc >>
        /\ UNCHANGED << forced, writes, asked, reads, sampled, fresh >>
  BY DEF Drive
<1>2. Nets' = Nets /\ \A m \in Nets : value'[m] = IF m = n THEN v ELSE value[m]
  BY <1>1 DEF Nets
<1>3. n \in UNION Designs /\ Valid(n, v)
  BY <1>1, InputAssumption DEF IInv, WInv, Valid
<1>4. pc' \in {"run", "write", "read", "change"}
  BY <1>1 DEF IInv, WInv, ChangeResume
<1>5. WInv'
  BY <1>1, <1>2, <1>3, <1>4 DEF IInv, WInv, Valid, Op, Text, Fit, NumBits
<1>6. RInv'
  BY <1>1, <1>2, RKept DEF IInv
<1>7. CInv'
  <2>1. CASE pc = "change" /\ n = Watched
    <3>1. /\ change' = [uintValues |-> ChangeKept(n, v), strValue |-> Vector(n, v)]
          /\ changed' = v
      BY <1>1, <2>1 DEF ChangeResume, ChangeKept
    <3>2. ChangeKept(n, v) \in Seq(0 .. Pow2[Width] - 1) /\ Vector(n, v) \in Seq(Bit)
      BY <1>3, ChangeKeptFacts, VectorFacts
    <3>3. change' \in Unread(n)
      BY <3>1, <3>2 DEF Unread
    <3>4. Watched' = n
      BY <1>2, <2>1 DEF Watched
    <3>5. change'.uintValues = ChangeKept(n, changed') /\ change'.strValue = Vector(n, changed')
      BY <3>1
    <3> QED BY <1>3, <3>1, <3>3, <3>4, <3>5 DEF CInv, Valid, Unread, ChangeKept
  <2>2. CASE ~(pc = "change" /\ n = Watched)
    BY <1>1, <1>2, <2>2, CKept DEF IInv
  <2> QED BY <2>1, <2>2
<1> QED BY <1>5, <1>6, <1>7, NothingKept DEF IInv

\* getNum takes one chunk when there is one, and two otherwise.
LEMMA RestFacts ==
  ASSUME NEW N, NEW u \in Seq(N), u # << >>
  PROVE  /\ Rest(u) \in Seq(N)
         /\ Len(Rest(u)) = IF Len(u) = 1 THEN 0 ELSE Len(u) - 2
<1> DEFINE k == IF Len(u) = 1 THEN 1 ELSE 2
           r == Len(u) - k
<1>1. Rest(u) = SubSeq(u, 1, r)
  BY DEF Rest, Drop
<1>2. Len(u) \in Nat \ {0} /\ r \in Nat /\ r <= Len(u) /\ 1 \in Int /\ r \in Int
      /\ r = (IF Len(u) = 1 THEN 0 ELSE Len(u) - 2) /\ r - 1 + 1 = r
  <2>1. Len(u) \in Nat \ {0}
    BY EmptySeq
  <2> DEFINE l == Len(u)
  <2>2. l \in Nat \ {0} /\ k = (IF l = 1 THEN 1 ELSE 2) /\ r = l - k
    BY <2>1
  <2> HIDE DEF l, k, r
  <2>3. r \in Nat /\ r <= l /\ r = (IF l = 1 THEN 0 ELSE l - 2)
    BY <2>2
  <2> QED BY <2>2, <2>3 DEF l
<1> HIDE DEF r
<1>3. \A j \in 1 .. r : u[j] \in N
  BY <1>2
<1>4. SubSeq(u, 1, r) \in Seq(N) /\ Len(SubSeq(u, 1, r)) = IF 1 <= r THEN r - 1 + 1 ELSE 0
  BY <1>2, <1>3, SubSeqProperties
<1> QED BY <1>1, <1>2, <1>4

\* s without its last k elements.
LEMMA DropFacts ==
  ASSUME NEW S, NEW s \in Seq(S), NEW k \in Nat, k <= Len(s)
  PROVE  /\ Drop(s, k) \in Seq(S) /\ Len(Drop(s, k)) = Len(s) - k
         /\ \A i \in 1 .. Len(s) - k : Drop(s, k)[i] = s[i]
<1> DEFINE r == Len(s) - k
           t == SubSeq(s, 1, r)
<1>1. r \in Nat /\ r <= Len(s) /\ 1 \in Int /\ r \in Int /\ r - 1 + 1 = r
      /\ \A j \in 1 .. r : s[j] \in S
  BY LenProperties
<1> HIDE DEF r
<1>2. /\ t \in Seq(S) /\ Len(t) = (IF 1 <= r THEN r - 1 + 1 ELSE 0)
      /\ \A j \in 1 .. r - 1 + 1 : t[j] = s[1 + j - 1]
  BY <1>1, SubSeqProperties
<1>3. Len(t) = r /\ \A j \in 1 .. r : t[j] = s[j]
  <2>1. \A j \in 1 .. r : 1 + j - 1 = j
    OBVIOUS
  <2>2. Len(t) = r
    BY <1>1, <1>2
  <2> HIDE DEF t
  <2> QED BY <1>1, <1>2, <2>1, <2>2
<1> QED BY <1>2, <1>3 DEF Drop, r, t

\* getNum on a net of one chunk: it takes a sample if there is one, else two.
LEMMA TakeOfOne ==
  ASSUME NEW n \in UNION Designs, NEW s \in Seq(Values(n)),
         NEW u \in Seq(0 .. Pow2[Width] - 1), u # << >>, Stacked(n, s, u), Chunks(n) = 1
  PROVE  LET l  == Len(s)
             t  == Drop(s, IF l >= 2 THEN 2 ELSE 1)
             is == IF l >= 2 THEN Vector(n, s[l - 1]) \o Vector(n, s[l]) ELSE Vector(n, s[l])
         IN /\ l \in Nat \ {0} /\ t \in Seq(Values(n)) /\ Stacked(n, t, Rest(u))
            /\ ReadNum(u) = NumberOf(is) /\ NumberOf(is) \in 0 .. Pow2[2 * Width] - 1
            /\ LastBits(is, Len(Vector(n, s[l]))) = Vector(n, s[l])
<1> DEFINE l  == Len(s)
           d  == IF l >= 2 THEN 2 ELSE 1
           t  == Drop(s, d)
           K(i) == Kept(n, s[i])
           V(i) == Vector(n, s[i])
           is == IF l >= 2 THEN V(l - 1) \o V(l) ELSE V(l)
<1>1. l \in Nat \ {0} /\ Len(u) = l
  BY EmptySeq, LenProperties DEF Stacked
<1>2. \A i \in 1 .. l : u[i] = K(i)[1]
  BY DEF Stacked
<1>3. d \in Nat /\ d <= l
  BY <1>1
<1>4. t \in Seq(Values(n)) /\ Len(t) = l - d /\ \A i \in 1 .. l - d : t[i] = s[i]
  BY <1>3, DropFacts
<1>5. Rest(u) = Drop(u, d)
  BY <1>1 DEF Rest
<1>6. Len(Rest(u)) = l - d /\ \A i \in 1 .. l - d : Rest(u)[i] = u[i]
  <2>1. d \in Nat /\ d <= Len(u) /\ Len(u) - d = l - d
    BY <1>1, <1>3
  <2> HIDE DEF d, t
  <2>2. Len(Drop(u, d)) = Len(u) - d /\ \A i \in 1 .. Len(u) - d : Drop(u, d)[i] = u[i]
    BY <2>1, DropFacts
  <2> QED BY <1>5, <2>1, <2>2
<1>7. Stacked(n, t, Rest(u))
  <2> HIDE DEF t, d
  <2>1. \A i \in 1 .. l - d : i \in 1 .. l
    BY <1>1, <1>3
  <2> QED BY <1>2, <1>4, <1>6, <2>1 DEF Stacked
<1>8. ASSUME NEW i \in 1 .. l
      PROVE  /\ V(i) \in Seq(Bit) /\ Len(V(i)) = Width /\ V(i) # << >>
             /\ K(i)[1] = Aval(Chunk(V(i), 1)) /\ NumberOf(V(i)) = K(i)[1]
             /\ NumberOf(V(i)) \in 0 .. Pow2[2 * Width] - 1
  <2>1. Valid(n, s[i])
    BY ElementOfSeq DEF Values, Valid
  <2>2. 1 * Width = Width
    BY WidthAssumption
  <2> QED BY <2>1, <2>2, VectorFacts, KeptFacts
<1> HIDE DEF K, V, t
<1>9. l \in 1 .. l
  BY <1>1
<1>10. ReadNum(u) = NumberOf(is) /\ NumberOf(is) \in 0 .. Pow2[2 * Width] - 1
       /\ LastBits(is, Len(V(l))) = V(l)
  <2>1. CASE l >= 2
    <3>1. l - 1 \in 1 .. l /\ Len(u) # 1 /\ is = V(l - 1) \o V(l)
      BY <1>1, <2>1
    <3>2. ReadNum(u) = K(l)[1] + Pow2[Width] * K(l - 1)[1]
      <4>1. ReadNum(u) = u[l] + Pow2[Width] * u[l - 1]
        BY <1>1, <3>1 DEF ReadNum
      <4> QED BY <1>2, <1>9, <3>1, <4>1
    <3>3. /\ NumberOf(V(l - 1) \o V(l)) = Aval(Chunk(V(l), 1)) + Pow2[Width] * Aval(Chunk(V(l - 1), 1))
          /\ NumberOf(V(l - 1) \o V(l)) \in 0 .. Pow2[2 * Width] - 1
      BY <1>8, <1>9, <3>1, JoinFacts
    <3>4. LastBits(V(l - 1) \o V(l), Len(V(l))) = V(l)
      BY <1>8, <1>9, <3>1, LastOfConcat
    <3>5. K(l)[1] = Aval(Chunk(V(l), 1)) /\ K(l - 1)[1] = Aval(Chunk(V(l - 1), 1))
      BY <1>8, <1>9, <3>1
    <3> QED BY <3>1, <3>2, <3>3, <3>4, <3>5
  <2>2. CASE ~(l >= 2)
    <3>1. l = 1 /\ is = V(l)
      BY <1>1, <2>2
    <3>2. ReadNum(u) = K(l)[1]
      BY <1>1, <1>2, <1>9, <3>1 DEF ReadNum
    <3>3. LastBits(V(l), Len(V(l))) = V(l)
      BY <1>8, <1>9, LastOfAll
    <3> QED BY <1>8, <1>9, <3>1, <3>2, <3>3
  <2> QED BY <2>1, <2>2
<1> QED BY <1>1, <1>4, <1>7, <1>10 DEF t, V

\* getNum on a net of several chunks: it takes the last sample.
LEMMA TakeOfMany ==
  ASSUME NEW n \in UNION Designs, NEW s \in Seq(Values(n)),
         NEW u \in Seq(0 .. Pow2[Width] - 1), u # << >>, Stacked(n, s, u), Chunks(n) # 1
  PROVE  LET l  == Len(s)
             t  == Drop(s, 1)
             is == Vector(n, s[l])
         IN /\ l \in Nat \ {0} /\ t \in Seq(Values(n)) /\ Stacked(n, t, Rest(u))
            /\ ReadNum(u) = NumberOf(is) /\ NumberOf(is) \in 0 .. Pow2[2 * Width] - 1
            /\ LastBits(is, Len(is)) = is
<1> DEFINE l  == Len(s)
           t  == Drop(s, 1)
           K(i) == Kept(n, s[i])
           is == Vector(n, s[l])
<1>1. l \in Nat \ {0} /\ Len(u) = 2 * l
  BY EmptySeq, LenProperties DEF Stacked
<1>2. \A i \in 1 .. l : u[2 * i - 1] = K(i)[1] /\ u[2 * i] = K(i)[2]
  BY DEF Stacked
<1>3. t \in Seq(Values(n)) /\ Len(t) = l - 1 /\ \A i \in 1 .. l - 1 : t[i] = s[i]
  <2>1. 1 \in Nat /\ 1 <= Len(s)
    BY <1>1
  <2> HIDE DEF K, is
  <2> QED BY <2>1, DropFacts
<1>4. Rest(u) = Drop(u, 2) /\ Len(u) # 1
  BY <1>1 DEF Rest
<1>5. Len(Rest(u)) = 2 * l - 2 /\ \A i \in 1 .. 2 * l - 2 : Rest(u)[i] = u[i]
  <2>1. 2 \in Nat /\ 2 <= Len(u) /\ Len(u) - 2 = 2 * l - 2
    BY <1>1
  <2> HIDE DEF K, is, t
  <2>2. Len(Drop(u, 2)) = Len(u) - 2 /\ \A i \in 1 .. Len(u) - 2 : Drop(u, 2)[i] = u[i]
    BY <2>1, DropFacts
  <2> QED BY <1>4, <2>1, <2>2
<1>6. Stacked(n, t, Rest(u))
  <2> HIDE DEF t
  <2>1. \A i \in 1 .. l - 1 : i \in 1 .. l /\ 2 * i - 1 \in 1 .. 2 * l - 2 /\ 2 * i \in 1 .. 2 * l - 2
    BY <1>1
  <2>2. 2 * l - 2 = 2 * (l - 1)
    BY <1>1
  <2>3. \A i \in 1 .. l - 1 : /\ Rest(u)[2 * i - 1] = Kept(n, t[i])[1]
                              /\ Rest(u)[2 * i] = Kept(n, t[i])[2]
    BY <1>2, <1>3, <1>5, <2>1
  <2> QED BY <1>3, <1>5, <2>2, <2>3 DEF Stacked
<1>7. l \in 1 .. l
  BY <1>1
<1>8. Valid(n, s[l])
  BY <1>7, ElementOfSeq DEF Values, Valid
<1>9. /\ NumberOf(is) = K(l)[2] + Pow2[Width] * K(l)[1]
      /\ NumberOf(is) \in 0 .. Pow2[2 * Width] - 1
      /\ is \in Seq(Bit) /\ is # << >>
  BY <1>8, KeptFacts, VectorFacts
<1>10. LastBits(is, Len(is)) = is
  BY <1>9, LastOfAll
<1> HIDE DEF K, is, t
<1>11. ReadNum(u) = u[2 * l] + Pow2[Width] * u[2 * l - 1]
  BY <1>1, <1>4 DEF ReadNum
<1>12. u[2 * l] = K(l)[2] /\ u[2 * l - 1] = K(l)[1]
  BY <1>2, <1>7
<1> QED BY <1>1, <1>3, <1>6, <1>9, <1>10, <1>11, <1>12 DEF t, is

LEMMA GetNumStep ==
  ASSUME IInv, NEW n \in Nets, getNum(n)
  PROVE  IInv'
<1> DEFINE u == reads[n].uintValues
           s == sampled[n]
           l == Len(s)
           t == Drop(s, IF Joins(n) THEN 2 ELSE 1)
           is == IF Joins(n) THEN Vector(n, s[l - 1]) \o Vector(n, s[l]) ELSE Vector(n, s[l])
           N == 0 .. Pow2[Width] - 1
<1>1. n \in DOMAIN reads /\ u # << >>
  BY DEF getNum
<1>2. /\ n \in UNION Designs /\ s \in Seq(Values(n)) /\ u \in Seq(N)
      /\ reads[n] \in [uintValues : Seq(N), strValue : Seq(Bit)] /\ Stacked(n, s, u)
  BY <1>1 DEF IInv, WInv, RInv, Unread
<1>3. /\ l \in Nat \ {0} /\ t \in Seq(Values(n)) /\ Stacked(n, t, Rest(u))
      /\ ReadNum(u) = NumberOf(is) /\ NumberOf(is) \in 0 .. Pow2[2 * Width] - 1
      /\ LastBits(is, Len(Vector(n, s[l]))) = Vector(n, s[l])
  <2> HIDE DEF u, s
  <2>1. CASE Chunks(n) = 1
    <3>1. Joins(n) <=> l >= 2
      BY <2>1 DEF Joins, s
    <3> QED BY <1>1, <1>2, <2>1, <3>1, TakeOfOne
  <2>2. CASE Chunks(n) # 1
    <3>1. ~Joins(n)
      BY <2>2 DEF Joins
    <3> QED BY <1>1, <1>2, <2>2, <3>1, TakeOfMany
  <2> QED BY <2>1, <2>2
<1>4. l + 1 - 1 = l /\ l + 1 - 2 = l - 1
  BY <1>3
<1>5. /\ reads' = [reads EXCEPT ![n].uintValues = Rest(u)]
      /\ sampled' = [sampled EXCEPT ![n] = t]
      /\ fresh' = fresh \ {n}
      /\ got' = [num |-> ReadNum(u), is |-> is,
                 text |-> IF n \in fresh THEN reads[n].strValue ELSE << >>]
      /\ UNCHANGED << value, forced, writes, asked, change, changed, pc >>
  BY <1>4 DEF getNum, Sample
<1>6. Nets' = Nets
  BY <1>5 DEF Nets
<1>7. Rest(u) \in Seq(N)
  BY <1>1, <1>2, RestFacts
<1>8. n \in fresh => reads[n].strValue = Vector(n, s[l])
  BY DEF IInv, RInv, IsText
<1>9. GInv'
  <2> HIDE DEF u, is, l
  <2>1. got'.num = NumberOf(is) /\ got'.is = is
    BY <1>3, <1>5
  <2>2. got'.text = IF n \in fresh THEN Vector(n, s[l]) ELSE << >>
    BY <1>5, <1>8
  <2> QED BY <1>3, <2>1, <2>2 DEF GInv
<1> HIDE DEF t, is, l
<1>10. /\ DOMAIN reads' = DOMAIN reads /\ DOMAIN sampled' = DOMAIN reads
       /\ \A m \in DOMAIN reads : m # n => reads'[m] = reads[m] /\ sampled'[m] = sampled[m]
       /\ sampled'[n] = t
       /\ reads'[n].uintValues = Rest(u) /\ reads'[n].strValue = reads[n].strValue
       /\ reads'[n] \in [uintValues : Seq(N), strValue : Seq(Bit)]
  <2>1. n \in DOMAIN sampled /\ DOMAIN sampled = DOMAIN reads
    BY <1>1 DEF IInv, RInv
  <2> HIDE DEF u, N
  <2> QED BY <1>1, <1>2, <1>5, <1>7, <2>1
<1>11. ASSUME NEW m \in DOMAIN reads
       PROVE  /\ reads'[m] \in Unread(m) /\ sampled'[m] \in Seq(Values(m))
              /\ Stacked(m, sampled'[m], reads'[m].uintValues)
  <2>1. CASE m = n
    BY <1>3, <1>10, <2>1 DEF Unread
  <2>2. CASE m # n
    BY <1>10, <2>2 DEF IInv, RInv
  <2> QED BY <2>1, <2>2
<1>12. ASSUME NEW m \in fresh' PROVE IsText(m, sampled'[m], reads'[m].strValue)
  <2>1. m \in fresh /\ m # n /\ m \in DOMAIN reads
    BY <1>5 DEF IInv, RInv
  <2> QED BY <1>10, <2>1 DEF IInv, RInv
<1>13. RInv'
  <2>1. \A m : Unread(m)' = Unread(m)
    BY DEF Unread
  <2> QED BY <1>5, <1>6, <1>10, <1>11, <1>12, <2>1 DEF IInv, RInv
<1>14. WInv'
  BY <1>5, WKept DEF IInv, WInv
<1>15. CInv'
  BY <1>5, <1>6, CKept DEF IInv
<1> QED BY <1>9, <1>13, <1>14, <1>15 DEF IInv

LEMMA GetChangeNumStep ==
  ASSUME IInv, getChangeNum
  PROVE  IInv'
<1> DEFINE u == change.uintValues
           N == 0 .. Pow2[Width] - 1
           v == Vector(Watched, changed)
<1>1. /\ pc = "run" /\ u # << >>
      /\ change' = [change EXCEPT !.uintValues = Rest(u)]
      /\ changed' = << >>
      /\ got' = IF changed # << >> THEN [num |-> ChangeNum(u), is |-> v, text |-> change.strValue]
                ELSE Nothing
      /\ UNCHANGED << value, forced, writes, asked, reads, sampled, fresh, pc >>
  BY DEF getChangeNum
<1>2. Nets' = Nets /\ Watched' = Watched
  BY <1>1 DEF Nets, Watched
<1>3. change \in [uintValues : Seq(N), strValue : Seq(Bit)] /\ u \in Seq(N)
  BY DEF IInv, CInv, Unread
<1>4. Rest(u) \in Seq(N)
  BY <1>1, <1>3, RestFacts
<1>5. change' \in Unread(Watched)
  <2> HIDE DEF u, N
  <2>1. change' \in [uintValues : Seq(N), strValue : Seq(Bit)]
    BY <1>1, <1>3, <1>4
  <2> QED BY <2>1 DEF Unread, N
<1>6. CInv'
  BY <1>1, <1>2, <1>5 DEF CInv, Unread
<1>7. GInv'
  <2>1. CASE changed = << >>
    BY <1>1, <2>1, NothingKept
  <2>2. CASE changed # << >>
    <3>1. Watched \in UNION Designs /\ Valid(Watched, changed) /\ u = ChangeKept(Watched, changed)
      BY <2>2, WatchedFacts DEF IInv, CInv
    <3>2. NumberOf(v) = ChangeNum(u) /\ NumberOf(v) \in 0 .. Pow2[2 * Width] - 1
      BY <3>1, ChangeKeptFacts
    <3>3. change.strValue = v
      BY <2>2 DEF IInv, CInv
    <3>4. LastBits(v, Len(v)) = v
      BY <3>1, VectorFacts, LastOfAll
    <3> HIDE DEF u, v
    <3>5. got'.num = ChangeNum(u) /\ got'.is = v /\ got'.text = v
      BY <1>1, <2>2, <3>3
    <3> QED BY <3>2, <3>4, <3>5 DEF GInv
  <2> QED BY <2>1, <2>2
<1>8. WInv'
  BY <1>1, WKept DEF IInv, WInv
<1>9. RInv'
  BY <1>1, <1>2, RKept DEF IInv
<1> QED BY <1>6, <1>7, <1>8, <1>9 DEF IInv

LEMMA IInvStep == IInv /\ [Next]_vars => IInv'
<1> SUFFICES ASSUME IInv, [Next]_vars PROVE IInv'
  OBVIOUS
<1>1. CASE Forgets
  <2>1. got' = Nothing
    BY <1>1 DEF Forgets
  <2>2. ASSUME NEW n \in Nets, write(n) \/ force(n) \/ release(n) PROVE IInv'
    BY <2>1, <2>2, QueueStep
  <2>3. ASSUME NEW n \in Nets, read(n) PROVE IInv'
    BY <2>1, <2>3, ReadStep
  <2>4. ASSUME NEW n \in Nets, Drive(n) PROVE IInv'
    BY <2>1, <2>4, DriveStep
  <2>5. CASE AwaitWrite \/ AwaitRead \/ AwaitChange
    BY <2>1, <2>5, AwaitStep
  <2>6. CASE WriteResume
    BY <2>1, <2>6, WriteResumeStep
  <2>7. CASE ReadResume
    BY <2>1, <2>7, ReadResumeStep
  <2> QED BY <1>1, <2>2, <2>3, <2>4, <2>5, <2>6, <2>7 DEF Forgets
<1>2. ASSUME NEW n \in Nets, getNum(n) PROVE IInv'
  BY <1>2, GetNumStep
<1>3. CASE getChangeNum
  BY <1>3, GetChangeNumStep
<1>4. CASE UNCHANGED vars
  <2>1. Nets' = Nets /\ Watched' = Watched
    BY <1>4 DEF Nets, Watched, vars
  <2>2. WInv' /\ RInv' /\ CInv'
    BY <1>4, <2>1, WKept, RKept, CKept DEF IInv, WInv, RInv, vars
  <2>3. GInv'
    BY <1>4 DEF IInv, GInv, vars
  <2> QED BY <2>2, <2>3 DEF IInv
<1> QED BY <1>1, <1>2, <1>3, <1>4 DEF Next

\* The chunks an AwaitRead and an AwaitChange hold, between any two steps of the
\* coroutine and the design (awaitread.cpp:92-205, awaitchange.cpp:119-210).
THEOREM Invariant == Spec => []IInv
<1> QED BY InitIInv, IInvStep, PTL DEF Spec

\* Every getNum gives the number of the latest sample not yet taken, or of the two
\* that it joins, from either end of the vector of chunks, however often a net was
\* read before (awaitread.cpp:129, 186-205, awaitchange.cpp:190-210).
THEOREM NumIsOfTheSamples == Spec => []NumOfSamples
<1>1. IInv => NumOfSamples
  BY IInvProperties
<1> QED BY <1>1, Invariant, PTL

\* The hexadecimal text of a sample reads back as its bits, or as X where a digit
\* cannot name them (utility.cpp:83-168).
THEOREM HexTextAgrees == Spec => []HexAgrees
<1>1. IInv => HexAgrees
  BY IInvProperties
<1> QED BY <1>1, Invariant, PTL

\* An AwaitWrite that is awaited again repeats no operation of the last time: it
\* forgets what it has done (awaitwrite.cpp:162).
THEOREM NothingIsWrittenTwice == Spec => WritesOnce
<1> DEFINE A == pc = "write" /\ pc' = "run" =>
                  \A n \in Nets : value'[n] # value[n] \/ (n \in forced) # (n \in forced') =>
                    n \in DOMAIN asked
<1>1. IInv /\ [Next]_vars => [A]_vars
  <2> SUFFICES ASSUME IInv, Next, pc = "write", pc' = "run",
                      NEW n \in Nets, n \notin DOMAIN asked
               PROVE  value'[n] = value[n] /\ ((n \in forced) <=> (n \in forced'))
    BY DEF A
  <2>1. WriteResume
    BY DEF Next, Forgets, write, force, release, read, Queue, Drive, ChangeResume, AwaitWrite,
           AwaitRead, AwaitChange, Suspend, ReadResume, getNum, getChangeNum
  <2>2. n \notin DOMAIN writes
    BY DEF IInv, WInv
  <2> QED BY <2>1, <2>2 DEF WriteResume, Written, Held
<1>2. [][A]_vars => WritesOnce
  BY PTL DEF WritesOnce, A
<1> QED BY <1>1, Invariant, PTL DEF Spec, WritesOnce
=============================================================================
