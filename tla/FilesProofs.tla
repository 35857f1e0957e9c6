------------------------------ MODULE FilesProofs ------------------------------
(***************************************************************************)
(* What is proved about the files that the frontend reads and writes: that *)
(* what is uploaded arrives whole, and that what is read is what had been  *)
(* saved, for any files, contents, chunks and number of requests.          *)
(***************************************************************************)
EXTENDS FilesProperties, FiniteSetTheorems, SequenceTheorems, WellFoundedInduction, TLAPS

-----------------------------------------------------------------------------
(* What a batch of messages does, message by message *)

(* A set of natural numbers that is not empty has a least element. *)
LEMMA LeastNat ==
  ASSUME NEW T, T \subseteq Nat, T # {}
  PROVE  \E x \in T : \A y \in T : x <= y
<1>1. PICK x \in T : \A y \in T : ~(<<y, x>> \in OpToRel(<, Nat))
  BY WFMin, NatLessThanWellFounded
<1>2. ASSUME NEW y \in T PROVE x <= y
  <2>1. x \in Nat /\ y \in Nat
    OBVIOUS
  <2>2. y < x => <<y, x>> \in OpToRel(<, Nat)
    BY <2>1 DEF OpToRel
  <2>3. ~(y < x)
    BY <1>1, <2>2, Zenon
  <2> QED  BY <2>1, <2>3
<1> QED  BY <1>2

(* Some numbers up to n are finitely many, and have a greatest one. *)
LEMMA Few ==
  ASSUME NEW n \in Nat, NEW s \in SUBSET (1 .. n)
  PROVE  IsFiniteSet(s) /\ Cardinality(s) \in 0 .. n
<1>1. IsFiniteSet(1 .. n) /\ Cardinality(1 .. n) = n
  <2>1. IsFiniteSet(1 .. n) /\ Cardinality(1 .. n) = IF 1 > n THEN 0 ELSE n - 1 + 1
    BY FS_Interval
  <2> QED  BY <2>1
<1>2. IsFiniteSet(s) /\ Cardinality(s) <= Cardinality(1 .. n)
  BY <1>1, FS_Subset
<1>3. Cardinality(s) \in Nat
  BY <1>2, FS_CardinalityType
<1> QED  BY <1>1, <1>2, <1>3

(* The greatest of them is one of them. *)
LEMMA MaxIn ==
  ASSUME NEW n \in Nat, NEW s \in SUBSET (1 .. n), s # {}
  PROVE  Max(s) \in s /\ \A x \in s : x <= Max(s)
<1> DEFINE above == {m \in Nat : \A x \in s : x <= m}
<1>1. n \in above
  OBVIOUS
<1>2. PICK m \in above : \A y \in above : m <= y
  <2>1. above \subseteq Nat
    OBVIOUS
  <2> HIDE DEF above
  <2> QED  BY <1>1, <2>1, LeastNat
<1>3. m \in s
  <2> SUFFICES ASSUME m \notin s PROVE FALSE
    OBVIOUS
  <2>1. PICK x \in s : TRUE
    OBVIOUS
  <2>2. m \in Nat /\ x \in Nat /\ x >= 1 /\ x <= m
    BY <1>2
  <2>3. m - 1 \in above
    BY <1>2, <2>2
  <2> QED  BY <1>2, <2>2, <2>3
<1>4. \A y \in s : m >= y
  BY <1>2
<1>5. Max(s) \in s /\ \A y \in s : Max(s) >= y
  BY <1>3, <1>4, Zenon DEF Max
<1> QED  BY <1>5

(* Without the greatest of them there is one less. *)
LEMMA OneLess ==
  ASSUME NEW n \in Nat, NEW s \in SUBSET (1 .. n), s # {}
  PROVE  /\ s \ {Max(s)} \in SUBSET (1 .. n)
         /\ Cardinality(s) \in Nat /\ Cardinality(s \ {Max(s)}) \in Nat
         /\ Cardinality(s \ {Max(s)}) < Cardinality(s)
<1>1. IsFiniteSet(s) /\ Cardinality(s) \in Nat
  BY Few
<1>2. Cardinality(s \ {Max(s)}) = Cardinality(s) - 1 /\ s \ {Max(s)} \in SUBSET (1 .. n)
  BY <1>1, MaxIn, FS_RemoveElement
<1>3. Cardinality(s \ {Max(s)}) \in Nat
  BY <1>2, Few
<1> QED  BY <1>1, <1>2, <1>3

(* What FoldLeft is defined by: what a batch has done after some of it *)
Stored == [files |-> files, image |-> image]

Folds(f, batch, P) ==
  f = [s \in P |-> IF s = {} THEN Stored ELSE Dispatched(f[s \ {Max(s)}], batch[Max(s)])]
Fold(batch) ==
  CHOOSE f : f = [s \in SUBSET DOMAIN batch |->
                    IF s = {} THEN Stored ELSE Dispatched(f[s \ {Max(s)}], batch[Max(s)])]

(* The library's FoldLeft over a batch is that function. *)
LEMMA FoldIter ==
  ASSUME NEW batch PROVE After(batch) = Fold(batch)[DOMAIN batch]
BY Zenon DEF After, FoldLeft, MapThenFoldSet, Fold, Stored

(* There is such a function, although its definition refers to itself. *)
LEMMA FoldExists ==
  ASSUME NEW batch, NEW n \in Nat, DOMAIN batch = 1 .. n
  PROVE  \E f : Folds(f, batch, SUBSET DOMAIN batch)
<1> DEFINE UpTo(c) == {s \in SUBSET (1 .. n) : Cardinality(s) <= c}
           Value(f, s) == IF s = {} THEN Stored
                          ELSE Dispatched(f[s \ {Max(s)}], batch[Max(s)])
           bad == {c \in Nat : ~ \E f : Folds(f, batch, UpTo(c))}
<1>1. bad = {}
  <2> SUFFICES ASSUME bad # {} PROVE FALSE
    OBVIOUS
  <2>1. PICK c \in bad : \A m \in bad : c <= m
    <3>1. bad \subseteq Nat
      OBVIOUS
    <3> HIDE DEF bad
    <3> QED  BY <3>1, LeastNat
  <2>2. c \in Nat
    OBVIOUS
  <2>3. \E f : \A s \in UpTo(c) : s # {} => f[s \ {Max(s)}] = Value(f, s \ {Max(s)})
    <3>1. CASE c = 0
      <4>1. ASSUME NEW s \in UpTo(c) PROVE s = {}
        <5>1. IsFiniteSet(s) /\ Cardinality(s) \in Nat
          BY Few
        <5> QED  BY <3>1, <5>1, FS_EmptySet
      <4> HIDE DEF UpTo
      <4> QED  BY <4>1, Zenon
    <3>2. CASE c # 0
      <4>1. c - 1 \in Nat /\ ~(c <= c - 1)
        BY <2>2, <3>2
      <4>2. c - 1 \notin bad
        <5> HIDE DEF bad
        <5> QED  BY <2>1, <4>1, Zenon
      <4>3. PICK f : Folds(f, batch, UpTo(c - 1))
        BY <4>1, <4>2
      <4>4. ASSUME NEW s \in UpTo(c), s # {}
            PROVE  s \ {Max(s)} \in UpTo(c - 1)
        BY <2>2, <4>4, OneLess
      <4>5. \A s \in UpTo(c - 1) : f[s] = Value(f, s)
        BY <4>3, Zenon DEF Folds
      <4> HIDE DEF UpTo, Value
      <4> QED  BY <4>4, <4>5, Zenon
    <3> QED  BY <3>1, <3>2
  <2>4. PICK f : \A s \in UpTo(c) : s # {} => f[s \ {Max(s)}] = Value(f, s \ {Max(s)})
    <3> HIDE DEF Value
    <3> QED  BY <2>3
  <2> DEFINE g == [s \in UpTo(c) |-> Value(f, s)]
  <2>5. ASSUME NEW s \in UpTo(c) PROVE g[s] = Value(g, s)
    <3>1. CASE s = {}
      BY <3>1, Zenon
    <3>2. CASE s # {}
      <4>1. s \ {Max(s)} \in UpTo(c)
        BY <2>2, <3>2, OneLess
      <4>2. g[s \ {Max(s)}] = f[s \ {Max(s)}]
        <5> HIDE DEF UpTo, Value
        <5> QED  BY <2>4, <3>2, <4>1, Zenon
      <4> QED  BY <3>2, <4>2, Zenon
    <3> QED  BY <3>1, <3>2
  <2>6. g = [s \in UpTo(c) |-> g[s]]
    BY Zenon
  <2>7. Folds(g, batch, UpTo(c))
    <3> HIDE DEF g
    <3> QED  BY <2>5, <2>6, Zenon DEF Folds
  <2> QED  BY <2>2, <2>7
<1>2. UpTo(n) = SUBSET (1 .. n)
  <2>1. ASSUME NEW s \in SUBSET (1 .. n) PROVE Cardinality(s) <= n
    BY Few
  <2> QED  BY <2>1
<1> QED  BY <1>1, <1>2

(* What the first k messages of a batch have done *)
Acc(batch, k) == Fold(batch)[1 .. k]

(* What k messages do is what the last of them does after the others. *)
LEMMA AccDef ==
  ASSUME NEW S, NEW batch \in Seq(S)
  PROVE  /\ Acc(batch, 0) = Stored
         /\ \A k \in 1 .. Len(batch) :
              Acc(batch, k) = Dispatched(Acc(batch, k - 1), batch[k])
<1>1. Len(batch) \in Nat /\ DOMAIN batch = 1 .. Len(batch)
  OBVIOUS
<1>2. Folds(Fold(batch), batch, SUBSET DOMAIN batch)
  <2>1. \E f : Folds(f, batch, SUBSET DOMAIN batch)
    BY <1>1, FoldExists
  <2> QED  BY <2>1, Zenon DEF Folds, Fold
<1>3. \A s \in SUBSET DOMAIN batch :
        Fold(batch)[s] =
          IF s = {} THEN Stored
          ELSE Dispatched(Fold(batch)[s \ {Max(s)}], batch[Max(s)])
  <2> HIDE DEF Fold
  <2> QED  BY <1>2, Zenon DEF Folds
<1>4. Acc(batch, 0) = Stored
  <2>1. 1 .. 0 = {}
    OBVIOUS
  <2> QED  BY <1>3, <2>1, Zenon DEF Acc
<1>5. ASSUME NEW k \in 1 .. Len(batch)
      PROVE  Acc(batch, k) = Dispatched(Acc(batch, k - 1), batch[k])
  <2>1. k \in Nat \ {0} /\ 1 .. k \in SUBSET DOMAIN batch /\ 1 .. k # {}
    <3>1. k \in Nat \ {0} /\ 1 .. k \subseteq 1 .. Len(batch) /\ k \in 1 .. k
      BY <1>1
    <3> QED  BY <1>1, <3>1
  <2>2. Max(1 .. k) = k
    <3>1. k \in 1 .. k /\ \A y \in 1 .. k : k >= y
      BY <2>1
    <3>2. Max(1 .. k) \in 1 .. k /\ \A y \in 1 .. k : Max(1 .. k) >= y
      BY <3>1, Zenon DEF Max
    <3> QED  BY <3>1, <3>2
  <2>3. (1 .. k) \ {k} = 1 .. k - 1
    BY <2>1
  <2> QED  BY <1>3, <2>1, <2>2, <2>3, Zenon DEF Acc
<1> QED  BY <1>4, <1>5

(* It does not matter what follows in the batch. *)
LEMMA AccAgree ==
  ASSUME NEW S, NEW q \in Seq(S), NEW n \in 0 .. Len(q), NEW k \in 0 .. n
  PROVE  Acc(SubSeq(q, 1, n), k) = Acc(q, k)
<1> DEFINE r   == SubSeq(q, 1, n)
           bad == {j \in 0 .. n : Acc(r, j) # Acc(q, j)}
<1>1. /\ n \in Nat /\ r \in Seq(S) /\ Len(r) = n /\ \A j \in 1 .. n : r[j] = q[j] /\ j \in 1 .. Len(q)
      /\ \A j \in 0 .. n : j # 0 => j \in 1 .. n /\ j - 1 \in 0 .. n /\ ~(j <= j - 1)
  OBVIOUS
<1> HIDE DEF r
<1>2. bad = {}
  <2> SUFFICES ASSUME bad # {} PROVE FALSE
    OBVIOUS
  <2>1. PICK j \in bad : \A m \in bad : j <= m
    <3>1. bad \subseteq Nat
      OBVIOUS
    <3> HIDE DEF bad
    <3> QED  BY <3>1, LeastNat
  <2>2. j \in 0 .. n /\ Acc(r, j) # Acc(q, j)
    BY <2>1
  <2>3. CASE j = 0
    BY <1>1, <2>2, <2>3, AccDef, Zenon
  <2>4. CASE j # 0
    <3>1. j \in 1 .. n /\ j - 1 \in 0 .. n /\ j - 1 \notin bad
      BY <1>1, <2>1, <2>2, <2>4
    <3>2. Acc(r, j - 1) = Acc(q, j - 1)
      BY <3>1
    <3>3. Acc(r, j) = Dispatched(Acc(r, j - 1), r[j])
      BY <1>1, <3>1, AccDef, Zenon
    <3>4. Acc(q, j) = Dispatched(Acc(q, j - 1), q[j])
      BY <1>1, <3>1, AccDef, Zenon
    <3> QED  BY <1>1, <2>2, <3>1, <3>2, <3>3, <3>4, Zenon
  <2> QED  BY <2>3, <2>4
<1> QED  BY <1>2 DEF r

(* What the first n messages on their way will have done *)
LEMMA AfterStep ==
  ASSUME NEW S, NEW q \in Seq(S)
  PROVE  /\ After(SubSeq(q, 1, 0)) = Stored
         /\ \A n \in 1 .. Len(q) :
              After(SubSeq(q, 1, n)) = Dispatched(After(SubSeq(q, 1, n - 1)), q[n])
<1>1. ASSUME NEW n \in 0 .. Len(q) PROVE After(SubSeq(q, 1, n)) = Acc(q, n)
  <2>1. DOMAIN SubSeq(q, 1, n) = 1 .. n /\ n \in 0 .. n
    OBVIOUS
  <2>2. After(SubSeq(q, 1, n)) = Acc(SubSeq(q, 1, n), n)
    BY <2>1, FoldIter, Zenon DEF Acc
  <2> QED  BY <2>1, <2>2, AccAgree, Zenon
<1>2. 0 \in 0 .. Len(q) /\ \A n \in 1 .. Len(q) : n \in 0 .. Len(q) /\ n - 1 \in 0 .. Len(q)
  OBVIOUS
<1> QED  BY <1>1, <1>2, AccDef, Zenon

-----------------------------------------------------------------------------
(* Uploads *)

(* The chunks of an image of that size, and how much of it they hold *)
Parts(total) == (total - 1 + Chunk - 1) \div Chunk
Whole(total) == IF total % Chunk = 1 THEN total - 1 ELSE total
Held(total, p) == IF p < Parts(total) THEN p * Chunk ELSE Whole(total)

(* The first of them are written. *)
Begun(total, u, p) == [b \in 1 .. Held(total, p) |-> u]

Piece(total, u, k) ==
  [kind |-> "chunk", op |-> IF k = 0 THEN 1 ELSE 2, of |-> u, total |-> total,
   offset |-> k * Chunk,
   len |-> IF (k + 1) * Chunk <= total THEN Chunk ELSE total - k * Chunk]
LastPiece(total, u) ==
  [kind |-> "chunk", op |-> 3, of |-> u, total |-> total, offset |-> 0, len |-> 0]

(* Division with remainder *)
LEMMA Divided ==
  ASSUME NEW a \in Nat, NEW d \in Nat \ {0}
  PROVE  /\ a \div d \in Nat /\ a % d \in Nat /\ a % d < d
         /\ a = (a \div d) * d + (a % d)
OBVIOUS

(* The remainder is known by its size. *)
LEMMA Remainder ==
  ASSUME NEW d \in Nat \ {0}, NEW a \in Nat, NEW b \in Nat, NEW r \in Nat, r < d, a = b * d + r
  PROVE  a % d = r
OBVIOUS

(* The last chunk is the first one that reaches the end, or the last byte. *)
LEMMA LastPart ==
  ASSUME NEW total \in Lengths
  PROVE  LET c == Parts(total) IN
         /\ total \in Nat /\ total >= 2 /\ Chunk \in Nat /\ Chunk >= 2 /\ c \in Nat \ {0}
         /\ (c - 1) * Chunk < total - 1
         /\ c * Chunk >= total - 1
         /\ Whole(total) = IF c * Chunk <= total THEN c * Chunk ELSE total
<1> DEFINE c == Parts(total)
           a == total - 1 + Chunk - 1
           r == a % Chunk
<1>1. total \in Nat /\ total >= 2 /\ Chunk \in Nat \ {0} /\ Chunk >= 2 /\ a \in Nat
  BY UploadAssumption
<1>2. c \in Nat /\ r \in Nat /\ r < Chunk /\ a = c * Chunk + r
  BY <1>1, Divided DEF Parts
<1> HIDE DEF c, r
<1>3. c # 0
  BY <1>1, <1>2
<1> DEFINE x == c * Chunk
<1>4. x \in Nat /\ (c - 1) * Chunk = x - Chunk
  BY <1>1, <1>2
<1> HIDE DEF x
<1>5. x = total + Chunk - 2 - r
  BY <1>1, <1>2, <1>4 DEF x
<1>6. (c - 1) * Chunk < total - 1 /\ x >= total - 1
  BY <1>1, <1>2, <1>4, <1>5
<1>7. Whole(total) = IF x <= total THEN x ELSE total
  <2>1. CASE x = total - 1
    <3>1. total % Chunk = 1
      <4>1. total = c * Chunk + 1
        BY <1>1, <1>4, <2>1 DEF x
      <4>2. 1 \in Nat /\ 1 < Chunk
        BY <1>1
      <4> QED  BY <1>1, <1>2, <4>1, <4>2, Remainder
    <3> QED  BY <1>1, <2>1, <3>1 DEF Whole
  <2>2. CASE x >= total
    <3>1. total % Chunk # 1
      <4> SUFFICES ASSUME total % Chunk = 1 PROVE FALSE
        OBVIOUS
      <4>1. PICK e \in Nat : total = e * Chunk + 1
        BY <1>1, Divided
      <4>2. e * Chunk \in Nat /\ (c - e) * Chunk = x - e * Chunk /\ c - e \in Int
        BY <1>1, <1>2 DEF x
      <4>3. (c - e) * Chunk >= 1 /\ (c - e) * Chunk < Chunk
        BY <1>1, <1>2, <1>5, <2>2, <4>1, <4>2
      <4> QED  BY <1>1, <4>2, <4>3
    <3> QED  BY <1>1, <1>4, <2>2, <3>1 DEF Whole
  <2> QED  BY <1>1, <1>4, <1>6, <2>1, <2>2
<1> QED  BY <1>1, <1>2, <1>3, <1>6, <1>7 DEF c, x

(* The messages of an upload *)
Chunks == [kind : {"chunk"}, op : 1 .. 3, of : 0 .. 1, total : Lengths, offset : Nat, len : Nat]

(* Each of them is one of these, *)
LEMMA PieceType ==
  ASSUME NEW total \in Lengths, NEW u \in 0 .. 1
  PROVE  /\ LastPiece(total, u) \in Chunks
         /\ \A k \in 0 .. Parts(total) - 1 : Piece(total, u, k) \in Chunks
<1> DEFINE c == Parts(total)
<1>1. /\ total \in Nat /\ total >= 2 /\ Chunk \in Nat /\ c \in Nat \ {0} /\ (c - 1) * Chunk < total - 1
  BY LastPart
<1> HIDE DEF c
<1>2. ASSUME NEW k \in 0 .. c - 1 PROVE Piece(total, u, k) \in Chunks
  <2> DEFINE x == k * Chunk
             l == IF (k + 1) * Chunk <= total THEN Chunk ELSE total - x
  <2>1. x \in Nat /\ (c - 1 - k) * Chunk >= 0 /\ (c - 1) * Chunk = (c - 1 - k) * Chunk + x
    BY <1>1
  <2>2. x \in Nat /\ l \in Nat
    BY <1>1, <2>1
  <2>3. Piece(total, u, k) =
          [kind |-> "chunk", op |-> IF k = 0 THEN 1 ELSE 2, of |-> u, total |-> total,
           offset |-> x, len |-> l]
    BY Zenon DEF Piece
  <2> HIDE DEF x, l
  <2> QED  BY <2>2, <2>3 DEF Chunks
<1> QED  BY <1>1, <1>2 DEF LastPiece, Chunks, c

(* and they are sent in order, the closing one last. *)
LEMMA PiecesAre ==
  ASSUME NEW total \in Lengths, NEW u \in 0 .. 1
  PROVE  LET c == Parts(total)
             s == Pieces(total, u)
         IN  /\ c \in Nat /\ s \in Seq(Chunks) /\ Len(s) = c + 1
             /\ \A j \in 0 .. c - 1 : s[j + 1] = Piece(total, u, j)
             /\ s[c + 1] = LastPiece(total, u)
<1> DEFINE c == Parts(total)
           t == [k \in 1 .. c |-> Piece(total, u, k - 1)]
           l == LastPiece(total, u)
<1>1. c \in Nat
  BY LastPart
<1>2. Pieces(total, u) = t \o <<l>>
  BY Zenon DEF Pieces, Parts, Piece, LastPiece
<1>3. \A k \in 1 .. c : k - 1 \in 0 .. c - 1 /\ Piece(total, u, k - 1) \in Chunks
  BY <1>1, PieceType
<1>4. l \in Chunks
  BY PieceType
<1> HIDE DEF c, l
<1>5. t \in [1 .. c -> Chunks] /\ \A k \in 1 .. c : t[k] = Piece(total, u, k - 1)
  BY <1>3, Zenon
<1> HIDE DEF t
<1>6. t \in Seq(Chunks) /\ Len(t) = c
  BY <1>1, <1>5
<1>7. /\ t \o <<l>> \in Seq(Chunks) /\ Len(t \o <<l>>) = c + 1
      /\ \A k \in 1 .. c : (t \o <<l>>)[k] = t[k]
      /\ (t \o <<l>>)[c + 1] = l
  BY <1>1, <1>4, <1>6
<1>8. ASSUME NEW j \in 0 .. c - 1 PROVE (t \o <<l>>)[j + 1] = Piece(total, u, j)
  <2>1. j + 1 \in 1 .. c /\ (j + 1) - 1 = j
    BY <1>1
  <2> QED  BY <1>5, <1>7, <2>1, Zenon
<1> QED  BY <1>1, <1>2, <1>7, <1>8 DEF c, l

(* The first chunk is written to an empty file, whatever was in it. *)
LEMMA FirstWritten ==
  ASSUME NEW total \in Lengths, NEW u, NEW img
  PROVE  WithChunk(img, Piece(total, u, 0)) = Begun(total, u, 1)
<1> DEFINE c == Parts(total)
           l == IF Chunk <= total THEN Chunk ELSE total
<1>1. /\ total \in Nat /\ total >= 2 /\ Chunk \in Nat /\ Chunk >= 2 /\ c \in Nat \ {0}
      /\ c * Chunk >= total - 1 /\ (c - 1) * Chunk < total - 1
      /\ Whole(total) = IF c * Chunk <= total THEN c * Chunk ELSE total
  BY LastPart
<1> HIDE DEF c
<1>2. Held(total, 1) = l
  <2>1. CASE c = 1
    BY <1>1, <2>1 DEF Held, c
  <2>2. CASE c # 1
    <3>1. 1 < c /\ (c - 1) * Chunk >= Chunk
      BY <1>1, <2>2
    <3> QED  BY <1>1, <3>1 DEF Held, c
  <2> QED  BY <2>1, <2>2
<1>3. /\ Piece(total, u, 0).op = 1 /\ Piece(total, u, 0).of = u
      /\ Piece(total, u, 0).offset = 0 /\ Piece(total, u, 0).len = l
  BY <1>1 DEF Piece
<1>4. WithChunk(img, Piece(total, u, 0)) =
        LET n == IF l > 0 /\ 0 + l > Len(<<>>) THEN 0 + l ELSE Len(<<>>)
        IN  [k \in 1 .. n |-> IF k > 0 /\ k <= 0 + l THEN u ELSE <<>>[k]]
  BY <1>3, Zenon DEF WithChunk, Truncated
<1>5. l \in Nat /\ l > 0 /\ 0 + l = l /\ Len(<<>>) = 0
  BY <1>1
<1> HIDE DEF l
<1> QED  BY <1>2, <1>4, <1>5 DEF Begun

(* Each of the others is written behind the one before it; *)
LEMMA NextWritten ==
  ASSUME NEW total \in Lengths, NEW u, NEW p \in 1 .. Parts(total) - 1
  PROVE  WithChunk(Begun(total, u, p), Piece(total, u, p)) = Begun(total, u, p + 1)
<1> DEFINE c == Parts(total)
           x == p * Chunk
           l == IF x + Chunk <= total THEN Chunk ELSE total - x
           m == Piece(total, u, p)
           img == Begun(total, u, p)
<1>1. /\ total \in Nat /\ total >= 2 /\ Chunk \in Nat /\ Chunk >= 2 /\ c \in Nat \ {0} /\ p \in 1 .. c - 1
      /\ c * Chunk >= total - 1 /\ (c - 1) * Chunk < total - 1
      /\ Whole(total) = IF c * Chunk <= total THEN c * Chunk ELSE total
  BY LastPart
<1> HIDE DEF c
<1>2. x \in Nat /\ (p + 1) * Chunk = x + Chunk /\ x < total - 1
  <2>1. (c - 1 - p) * Chunk >= 0 /\ (c - 1) * Chunk = (c - 1 - p) * Chunk + x
    BY <1>1
  <2> QED  BY <1>1, <2>1
<1>3. Held(total, p) = x
  BY <1>1 DEF Held, c
<1>4. Held(total, p + 1) = x + l
  <2>1. CASE p = c - 1
    <3>1. c * Chunk = x + Chunk /\ ~(p + 1 < c)
      BY <1>1, <1>2, <2>1
    <3> QED  BY <1>1, <1>2, <3>1 DEF Held, c
  <2>2. CASE p # c - 1
    <3>1. p + 1 < c
      BY <1>1, <2>2
    <3>2. (c - 1 - (p + 1)) * Chunk >= 0 /\ (c - 1) * Chunk = (c - 1 - (p + 1)) * Chunk + (p + 1) * Chunk
      BY <1>1, <3>1
    <3>3. x + Chunk < total
      BY <1>1, <1>2, <3>2
    <3> QED  BY <1>1, <1>2, <3>1, <3>3 DEF Held, c
  <2> QED  BY <2>1, <2>2
<1>5. m.op = 2 /\ m.of = u /\ m.offset = x /\ m.len = l
  BY <1>1, <1>2 DEF Piece
<1>6. l \in Nat /\ l > 0
  BY <1>1, <1>2
<1> HIDE DEF x, l, m
<1>7. Len(img) = x /\ \A k \in 1 .. x : img[k] = u
  BY <1>2, <1>3 DEF Begun
<1> HIDE DEF img
<1>8. WithChunk(img, m) =
        LET n == IF l > 0 /\ x + l > Len(img) THEN x + l ELSE Len(img)
        IN  [k \in 1 .. n |-> IF k > x /\ k <= x + l THEN u ELSE img[k]]
  <2>1. m.op # 1
    BY <1>5
  <2> QED  BY <1>5, <2>1, Zenon DEF WithChunk
<1>9. WithChunk(img, m) = [k \in 1 .. x + l |-> u]
  BY <1>2, <1>6, <1>7, <1>8
<1> QED  BY <1>4, <1>9 DEF Begun, img, m

(* the last message changes nothing. *)
LEMMA LastWritten ==
  ASSUME NEW total \in Lengths, NEW u
  PROVE  WithChunk(Begun(total, u, Parts(total)), LastPiece(total, u)) = Begun(total, u, Parts(total))
<1> DEFINE n == Held(total, Parts(total))
           m == LastPiece(total, u)
           img == [k \in 1 .. n |-> u]
<1>1. n \in Nat
  BY LastPart DEF Held, Whole
<1>2. m.op # 1 /\ m.offset = 0 /\ m.len = 0
  BY DEF LastPiece
<1> HIDE DEF n, m
<1>3. Len(img) = n /\ \A k \in 1 .. n : img[k] = u
  BY <1>1
<1>4. WithChunk(img, m) = [k \in 1 .. Len(img) |-> IF k > 0 /\ k <= 0 + 0 THEN m.of ELSE img[k]]
  <2> HIDE DEF img
  <2>1. ~(0 > 0)
    OBVIOUS
  <2> QED  BY <1>2, <2>1, Zenon DEF WithChunk
<1>5. WithChunk(img, m) = img
  BY <1>1, <1>3, <1>4
<1> QED  BY <1>5 DEF Begun, n, m

-----------------------------------------------------------------------------
(* What is on its way *)

Execs    == [kind : {"exec"}, target : Targets \cup {NoFile}]
Saves    == [kind : {"save"}, path : Paths, text : Contents]
Messages == Execs \cup Saves \cup Chunks
Disks    == [Paths -> Contents \cup {NoFile}]

TypeOK ==
  /\ toMod \in Seq(Messages) /\ files \in Disks
  /\ upload \in 0 .. 1 /\ connected \in BOOLEAN

(* The messages on their way, once the first n of them have arrived *)
LEMMA Rest ==
  ASSUME NEW q \in Seq(Messages), NEW n \in 1 .. Len(q)
  PROVE  LET r == SubSeq(q, n + 1, Len(q))
         IN  /\ r \in Seq(Messages) /\ Len(r) = Len(q) - n
             /\ \A k \in 1 .. Len(q) - n : k + n \in 1 .. Len(q) /\ r[k] = q[k + n]
OBVIOUS

(* A message is of one kind. *)
LEMMA KindOf ==
  ASSUME NEW m \in Messages
  PROVE  /\ m.kind = "exec"  => m \in Execs
         /\ m.kind = "save"  => m \in Saves
         /\ m.kind = "chunk" => m \in Chunks
BY DEF Messages, Execs, Saves, Chunks

(* What dispatching one message does to the texts and to the image *)
LEMMA DispatchedIs ==
  ASSUME NEW s, DOMAIN s = {"files", "image"}, s.files \in Disks, NEW m \in Messages
  PROVE  /\ DOMAIN Dispatched(s, m) = {"files", "image"} /\ Dispatched(s, m).files \in Disks
         /\ Dispatched(s, m).files =
              IF m.kind = "save" THEN Written(s.files, m.path, m.text) ELSE s.files
         /\ Dispatched(s, m).image =
              IF m.kind = "chunk" THEN WithChunk(s.image, m) ELSE s.image
<1>1. CASE m.kind = "save"
  <2>1. m.path \in Paths /\ m.text \in Contents
    BY <1>1, KindOf DEF Saves
  <2>2. Written(s.files, m.path, m.text) \in Disks
    BY <2>1 DEF Written, Disks
  <2> DEFINE w == Written(s.files, m.path, m.text)
  <2>3. Dispatched(s, m) = [s EXCEPT !.files = w]
    BY <1>1, Zenon DEF Dispatched
  <2> HIDE DEF w
  <2>4. w = Written(s.files, m.path, m.text) /\ w \in Disks
    BY <2>2 DEF w
  <2>5. "save" # "chunk"
    OBVIOUS
  <2> QED  BY <1>1, <2>3, <2>4, <2>5, SMT
<1>2. CASE m.kind = "chunk"
  <2> DEFINE w == WithChunk(s.image, m)
  <2>1. "save" # "chunk"
    OBVIOUS
  <2>2. Dispatched(s, m) = [s EXCEPT !.image = w]
    BY <1>2, <2>1, Zenon DEF Dispatched
  <2>3. w = WithChunk(s.image, m)
    OBVIOUS
  <2> HIDE DEF w
  <2> QED  BY <1>2, <2>1, <2>2, <2>3, SMT
<1>3. CASE m.kind # "save" /\ m.kind # "chunk"
  BY <1>3, Zenon DEF Dispatched
<1> QED  BY <1>1, <1>2, <1>3

(* What has been dispatched keeps the texts of the paths, whatever is on its *)
(* way.                                                                      *)
LEMMA AfterType ==
  ASSUME files \in Disks, NEW q \in Seq(Messages), NEW n \in 0 .. Len(q)
  PROVE  /\ DOMAIN After(SubSeq(q, 1, n)) = {"files", "image"}
         /\ After(SubSeq(q, 1, n)).files \in Disks
<1> DEFINE A(k)  == After(SubSeq(q, 1, k))
           ok(k) == DOMAIN A(k) = {"files", "image"} /\ A(k).files \in Disks
           bad   == {k \in 0 .. Len(q) : ~ok(k)}
<1>1. ok(0)
  <2>1. A(0) = Stored
    BY AfterStep, Zenon
  <2>2. DOMAIN Stored = {"files", "image"} /\ Stored.files \in Disks
    BY DEF Stored
  <2> QED  BY <2>1, <2>2, Zenon
<1>2. ASSUME NEW k \in 1 .. Len(q), ok(k - 1) PROVE ok(k)
  <2>1. A(k) = Dispatched(A(k - 1), q[k])
    BY AfterStep, Zenon
  <2>2. q[k] \in Messages
    OBVIOUS
  <2> DEFINE s == A(k - 1)
  <2>3. DOMAIN s = {"files", "image"} /\ s.files \in Disks
    BY <1>2
  <2>4. A(k) = Dispatched(s, q[k])
    BY <2>1
  <2> HIDE DEF A, s
  <2>5. DOMAIN Dispatched(s, q[k]) = {"files", "image"} /\ Dispatched(s, q[k]).files \in Disks
    BY <2>2, <2>3, DispatchedIs, Zenon
  <2> QED  BY <2>4, <2>5, Zenon
<1> HIDE DEF ok
<1>3. bad = {}
  <2> SUFFICES ASSUME bad # {} PROVE FALSE
    OBVIOUS
  <2>1. PICK k \in bad : \A m \in bad : k <= m
    <3>1. bad \subseteq Nat
      OBVIOUS
    <3> HIDE DEF bad
    <3> QED  BY <3>1, LeastNat
  <2>2. k \in 1 .. Len(q) /\ k - 1 \in 0 .. Len(q) /\ ~(k <= k - 1)
    BY <1>1, <2>1
  <2>3. ok(k - 1)
    BY <2>1, <2>2, Zenon
  <2> QED  BY <1>2, <2>1, <2>2, <2>3, Zenon
<1>4. ok(n)
  BY <1>3
<1> QED  BY <1>4 DEF ok

-----------------------------------------------------------------------------
(* Of the upload that a message on its way closes, that message and the ones *)
(* before it are the last pieces, and the image holds the pieces that have   *)
(* arrived.                                                                  *)
Closes(m) == m.kind = "chunk" /\ m.op = 3

Due(q, img, k) ==
  LET total == q[k].total
      u     == q[k].of
      c     == Parts(total)
  IN  /\ \A j \in 0 .. c - 1 : k - c + j >= 1 => q[k - c + j] = Piece(total, u, j)
      /\ q[k] = LastPiece(total, u)
      /\ k <= c => img = Begun(total, u, c + 1 - k)

Uploads(q, img) == \A k \in 1 .. Len(q) : Closes(q[k]) => Due(q, img, k)

Uploading == Uploads(toMod, image)

(* It is of an image of one of the lengths. *)
LEMMA ClosedType ==
  ASSUME NEW q \in Seq(Messages), NEW k \in 1 .. Len(q), Closes(q[k])
  PROVE  /\ q[k].total \in Lengths /\ q[k].of \in 0 .. 1
         /\ Parts(q[k].total) \in Nat \ {0}
<1>1. q[k] \in Messages /\ q[k].kind = "chunk"
  BY DEF Closes
<1>2. q[k] \in Chunks
  BY <1>1, KindOf, Zenon
<1>3. q[k].total \in Lengths /\ q[k].of \in 0 .. 1
  BY <1>2 DEF Chunks
<1> QED  BY <1>3, LastPart, Zenon

(* The image grows by each of the pieces that arrive. *)
LEMMA Progress ==
  ASSUME TypeOK, NEW k \in 1 .. Len(toMod), Closes(toMod[k]), Due(toMod, image, k),
         NEW n \in 0 .. k, n + Parts(toMod[k].total) + 1 - k >= 1
  PROVE  LET total == toMod[k].total
             c == Parts(total)
             p == n + c + 1 - k
         IN  After(SubSeq(toMod, 1, n)).image =
               Begun(total, toMod[k].of, IF p <= c THEN p ELSE c)
<1> DEFINE total == toMod[k].total
           u == toMod[k].of
           c == Parts(total)
           A(i) == After(SubSeq(toMod, 1, i))
           P(i) == i + c + 1 - k
           ok(i) == A(i).image = Begun(total, u, IF P(i) <= c THEN P(i) ELSE c)
           bad == {i \in 0 .. k : P(i) >= 1 /\ ~ok(i)}
<1>1. /\ toMod \in Seq(Messages) /\ files \in Disks /\ Len(toMod) \in Nat
      /\ total \in Lengths /\ c \in Nat \ {0}
  <2>1. toMod \in Seq(Messages) /\ files \in Disks
    BY DEF TypeOK
  <2>2. total \in Lengths /\ c \in Nat \ {0}
    BY <2>1, ClosedType, Zenon
  <2> QED  BY <2>1, <2>2
<1>2. /\ \A j \in 0 .. c - 1 : k - c + j >= 1 => toMod[k - c + j] = Piece(total, u, j)
      /\ toMod[k] = LastPiece(total, u)
      /\ k <= c => image = Begun(total, u, c + 1 - k)
  BY Zenon DEF Due
<1> HIDE DEF total, u, c
<1>3. ASSUME P(0) >= 1 PROVE ok(0)
  <2>1. k <= c /\ P(0) = c + 1 - k /\ P(0) <= c
    BY <1>1, <1>3
  <2>2. A(0).image = image
    <3>1. A(0) = Stored
      BY <1>1, AfterStep, Zenon
    <3>2. Stored.image = image
      BY DEF Stored
    <3> QED  BY <3>1, <3>2, Zenon
  <2> QED  BY <1>2, <2>1, <2>2
<1>4. ASSUME NEW i \in 1 .. k, P(i) >= 1, P(i - 1) >= 1 => ok(i - 1) PROVE ok(i)
  <2> DEFINE m == toMod[i]
             s == A(i - 1)
  <2>1. i \in 1 .. Len(toMod) /\ i - 1 \in 0 .. Len(toMod) /\ m \in Messages
    BY <1>1
  <2>2. A(i) = Dispatched(s, m)
    BY <1>1, <2>1, AfterStep, Zenon
  <2>3. DOMAIN s = {"files", "image"} /\ s.files \in Disks
    BY <1>1, <2>1, AfterType, Zenon
  <2>4. ASSUME m.kind = "chunk" PROVE A(i).image = WithChunk(s.image, m)
    <3> HIDE DEF s, m, A
    <3>1. Dispatched(s, m).image = WithChunk(s.image, m)
      BY <2>1, <2>3, <2>4, DispatchedIs, Zenon
    <3> QED  BY <2>2, <3>1, Zenon
  <2>5. /\ P(i) \in Int /\ P(i) <= c + 1 /\ P(i - 1) = P(i) - 1
        /\ P(i) = c + 1 => i = k
        /\ k - c + (P(i) - 1) = i /\ k - c + (P(i) - 1) >= 1
        /\ P(i) <= c => P(i) - 1 \in 0 .. c - 1
    BY <1>1, <1>4
  <2>6. P(i) <= c => m = Piece(total, u, P(i) - 1)
    <3> DEFINE x == P(i) - 1
    <3>1. P(i) <= c => x \in 0 .. c - 1 /\ k - c + x = i /\ k - c + x >= 1
      BY <2>5
    <3> HIDE DEF x, P
    <3>2. P(i) <= c => m = Piece(total, u, x)
      BY <1>2, <3>1
    <3> QED  BY <3>2 DEF x
  <2> HIDE DEF m, s
  <2>7. CASE P(i) = 1
    <3>1. m = Piece(total, u, 0) /\ P(i) <= c
      BY <1>1, <2>6, <2>7
    <3>2. m.kind = "chunk"
      BY <3>1 DEF Piece
    <3>3. WithChunk(s.image, m) = Begun(total, u, 1)
      BY <1>1, <3>1, FirstWritten, Zenon
    <3> QED  BY <2>4, <2>7, <3>1, <3>2, <3>3
  <2>8. CASE P(i) # 1 /\ P(i) <= c
    <3> DEFINE x == P(i) - 1
    <3>1. x \in 1 .. Parts(total) - 1 /\ x = P(i - 1) /\ x >= 1 /\ x <= c /\ x + 1 = P(i)
      <4> HIDE DEF P
      <4>1. x \in 1 .. c - 1 /\ x = P(i - 1) /\ x >= 1 /\ x <= c /\ x + 1 = P(i)
        BY <1>1, <1>4, <2>5, <2>8
      <4> QED  BY <4>1 DEF c
    <3>2. m = Piece(total, u, x)
      BY <2>6, <2>8
    <3>3. m.kind = "chunk"
      BY <3>2 DEF Piece
    <3> HIDE DEF x
    <3>4. s.image = Begun(total, u, x)
      BY <1>4, <3>1 DEF s
    <3>5. WithChunk(Begun(total, u, x), Piece(total, u, x)) = Begun(total, u, x + 1)
      BY <1>1, <3>1, NextWritten, Zenon
    <3>6. A(i).image = Begun(total, u, P(i))
      BY <2>4, <3>1, <3>2, <3>3, <3>4, <3>5, Zenon
    <3> QED  BY <2>8, <3>6
  <2>9. CASE P(i) > c
    <3>1. i = k /\ P(i - 1) = c /\ c >= 1 /\ c <= c /\ ~(P(i) <= c)
      BY <1>1, <2>5, <2>9
    <3>2. m = LastPiece(total, u)
      BY <1>2, <3>1 DEF m
    <3>3. m.kind = "chunk"
      BY <3>2 DEF LastPiece
    <3>4. s.image = Begun(total, u, c)
      <4> HIDE DEF P, A
      <4>1. ok(i - 1)
        BY <1>4, <3>1
      <4> QED  BY <3>1, <4>1 DEF s
    <3>5. WithChunk(Begun(total, u, c), LastPiece(total, u)) = Begun(total, u, c)
      BY <1>1, LastWritten, Zenon DEF c
    <3>6. A(i).image = Begun(total, u, c)
      BY <2>4, <3>2, <3>3, <3>4, <3>5, Zenon
    <3> HIDE DEF P
    <3> QED  BY <3>1, <3>6
  <2>10. P(i) = 1 \/ (P(i) # 1 /\ P(i) <= c) \/ P(i) > c
    BY <1>1, <2>5
  <2> QED  BY <2>7, <2>8, <2>9, <2>10
<1> HIDE DEF ok, P
<1>5. bad = {}
  <2> SUFFICES ASSUME bad # {} PROVE FALSE
    OBVIOUS
  <2>1. PICK i \in bad : \A j \in bad : i <= j
    <3>1. bad \subseteq Nat
      OBVIOUS
    <3> HIDE DEF bad
    <3> QED  BY <3>1, LeastNat
  <2>2. i \in 1 .. k /\ i - 1 \in 0 .. k /\ ~(i <= i - 1) /\ P(i) >= 1 /\ ~ok(i)
    BY <1>3, <2>1
  <2>3. P(i - 1) >= 1 => ok(i - 1)
    BY <2>1, <2>2
  <2> QED  BY <1>4, <2>2, <2>3, Zenon
<1>6. P(n) >= 1
  BY DEF P, c, total
<1>7. ok(n)
  BY <1>5, <1>6
<1> QED  BY <1>7, Zenon DEF ok, P, c, total, u

(* What is sent keeps the uploads before it, if it holds whole uploads only. *)
LEMMA SentUploads ==
  ASSUME NEW q \in Seq(Messages), NEW s \in Seq(Messages), NEW img, Uploads(q, img),
         \A k \in 1 .. Len(s) : Closes(s[k]) => Parts(s[k].total) < k /\ Due(s, img, k)
  PROVE  q \o s \in Seq(Messages) /\ Uploads(q \o s, img)
<1> DEFINE r == q \o s
<1>1. /\ r \in Seq(Messages) /\ Len(r) = Len(q) + Len(s) /\ Len(q) \in Nat /\ Len(s) \in Nat
      /\ \A k \in 1 .. Len(q) : r[k] = q[k]
      /\ \A k \in 1 .. Len(s) : r[Len(q) + k] = s[k]
  OBVIOUS
<1> HIDE DEF r
<1>2. ASSUME NEW k \in 1 .. Len(r), Closes(r[k]) PROVE Due(r, img, k)
  <2> DEFINE total == r[k].total
             u == r[k].of
             c == Parts(total)
  <2>1. c \in Nat
    BY <1>1, <1>2, ClosedType, Zenon
  <2>2. CASE k <= Len(q)
    <3>1. k \in 1 .. Len(q) /\ r[k] = q[k]
      BY <1>1, <2>2
    <3>2. Due(q, img, k)
      BY <1>2, <3>1, Zenon DEF Uploads
    <3>3. /\ \A j \in 0 .. c - 1 : k - c + j >= 1 => q[k - c + j] = Piece(total, u, j)
          /\ r[k] = LastPiece(total, u)
          /\ k <= c => img = Begun(total, u, c + 1 - k)
      BY <3>1, <3>2, Zenon DEF Due
    <3> HIDE DEF c, total, u
    <3>4. \A j \in 0 .. c - 1 : k - c + j >= 1 => k - c + j \in 1 .. Len(q)
      BY <1>1, <2>1, <3>1
    <3>5. \A j \in 0 .. c - 1 : k - c + j >= 1 => r[k - c + j] = Piece(total, u, j)
      BY <1>1, <3>3, <3>4, Zenon
    <3> QED  BY <3>3, <3>5, Zenon DEF Due, c, total, u
  <2>3. CASE k > Len(q)
    <3>1. PICK e \in 1 .. Len(s) : k = Len(q) + e
      <4>1. k - Len(q) \in 1 .. Len(s) /\ k = Len(q) + (k - Len(q))
        BY <1>1, <2>3
      <4> QED  BY <4>1
    <3>2. r[k] = s[e]
      BY <1>1, <3>1, Zenon
    <3>3. c < e /\ Due(s, img, e)
      BY <1>2, <3>2, Zenon
    <3>4. /\ \A j \in 0 .. c - 1 : e - c + j >= 1 => s[e - c + j] = Piece(total, u, j)
          /\ r[k] = LastPiece(total, u)
      BY <3>2, <3>3, Zenon DEF Due
    <3> HIDE DEF c, total, u
    <3>5. ASSUME NEW j \in 0 .. c - 1 PROVE r[k - c + j] = Piece(total, u, j)
      <4> DEFINE x == e - c + j
      <4>1. x \in 1 .. Len(s) /\ x >= 1 /\ k - c + j = Len(q) + x
        BY <1>1, <2>1, <3>1, <3>3
      <4>2. s[x] = Piece(total, u, j)
        BY <3>4, <4>1
      <4> HIDE DEF x
      <4> QED  BY <1>1, <4>1, <4>2, Zenon
    <3>6. ~(k <= c)
      BY <1>1, <2>1, <3>1, <3>3
    <3> QED  BY <3>4, <3>5, <3>6, Zenon DEF Due, c, total, u
  <2> QED  BY <1>1, <2>2, <2>3
<1>3. Uploads(r, img)
  BY <1>2, Zenon DEF Uploads
<1> QED  BY <1>1, <1>3 DEF r

(* An upload is whole when it is sent. *)
LEMMA PiecesUpload ==
  ASSUME NEW total \in Lengths, NEW u \in 0 .. 1, NEW img
  PROVE  LET s == Pieces(total, u)
         IN  /\ s \in Seq(Messages)
             /\ \A k \in 1 .. Len(s) : Closes(s[k]) => Parts(s[k].total) < k /\ Due(s, img, k)
<1> DEFINE s == Pieces(total, u)
           c == Parts(total)
<1>1. /\ c \in Nat /\ s \in Seq(Chunks) /\ Len(s) = c + 1
      /\ \A j \in 0 .. c - 1 : s[j + 1] = Piece(total, u, j)
      /\ s[c + 1] = LastPiece(total, u)
  BY PiecesAre, Zenon
<1> HIDE DEF s, c
<1>2. s \in Seq(Messages)
  BY <1>1 DEF Messages
<1>3. ASSUME NEW k \in 1 .. Len(s), Closes(s[k]) PROVE Parts(s[k].total) < k /\ Due(s, img, k)
  <2>1. k = c + 1
    <3> SUFFICES ASSUME k # c + 1 PROVE FALSE
      OBVIOUS
    <3> DEFINE j == k - 1
    <3>1. j \in 0 .. c - 1 /\ k = j + 1
      BY <1>1
    <3> HIDE DEF j
    <3>2. s[k] = Piece(total, u, j)
      BY <1>1, <3>1, Zenon
    <3>3. Piece(total, u, j).op # 3
      BY DEF Piece
    <3> QED  BY <1>3, <3>2, <3>3, Zenon DEF Closes
  <2>2. s[k] = LastPiece(total, u) /\ s[k].total = total /\ s[k].of = u
    BY <1>1, <2>1 DEF LastPiece
  <2>3. ASSUME NEW j \in 0 .. c - 1 PROVE s[k - c + j] = Piece(total, u, j)
    <3>1. k - c + j = j + 1
      BY <1>1, <2>1
    <3> QED  BY <1>1, <3>1, Zenon
  <2>4. ~(k <= c) /\ c < k
    BY <1>1, <2>1
  <2> QED  BY <2>2, <2>3, <2>4, Zenon DEF Due, c
<1> QED  BY <1>2, <1>3, Zenon DEF s

(* What is left when the connection is lost *)
LEMMA LostUploads ==
  ASSUME NEW q \in Seq(Messages), NEW img, Uploads(q, img), NEW n \in 0 .. Len(q)
  PROVE  SubSeq(q, 1, n) \in Seq(Messages) /\ Uploads(SubSeq(q, 1, n), img)
<1> DEFINE r == SubSeq(q, 1, n)
<1>1. r \in Seq(Messages) /\ Len(r) = n /\ \A k \in 1 .. n : k \in 1 .. Len(q) /\ r[k] = q[k]
  OBVIOUS
<1> HIDE DEF r
<1>2. ASSUME NEW k \in 1 .. Len(r), Closes(r[k]) PROVE Due(r, img, k)
  <2> DEFINE total == r[k].total
             u == r[k].of
             c == Parts(total)
  <2>1. c \in Nat
    BY <1>1, <1>2, ClosedType, Zenon
  <2>2. k \in 1 .. n /\ k \in 1 .. Len(q) /\ r[k] = q[k]
    BY <1>1
  <2>3. Due(q, img, k)
    BY <1>2, <2>2, Zenon DEF Uploads
  <2>4. /\ \A j \in 0 .. c - 1 : k - c + j >= 1 => q[k - c + j] = Piece(total, u, j)
        /\ r[k] = LastPiece(total, u)
        /\ k <= c => img = Begun(total, u, c + 1 - k)
    BY <2>2, <2>3, Zenon DEF Due
  <2> HIDE DEF c, total, u
  <2>5. \A j \in 0 .. c - 1 : k - c + j >= 1 => k - c + j \in 1 .. n
    BY <2>1, <2>2
  <2>6. \A j \in 0 .. c - 1 : k - c + j >= 1 => r[k - c + j] = Piece(total, u, j)
    BY <1>1, <2>4, <2>5, Zenon
  <2> QED  BY <2>4, <2>6, Zenon DEF Due, c, total, u
<1>3. Uploads(r, img)
  BY <1>2, Zenon DEF Uploads
<1> QED  BY <1>1, <1>3 DEF r

(* A frame takes the first messages, and the image has grown by the pieces    *)
(* among them; with the last one of an upload it is whole.                    *)
LEMMA FrameUploads ==
  ASSUME TypeOK, Uploading, NEW n \in 1 .. Len(toMod)
  PROVE  LET img == After(SubSeq(toMod, 1, n)).image
         IN  /\ Uploads(SubSeq(toMod, n + 1, Len(toMod)), img)
             /\ Closes(toMod[n]) =>
                  img = [b \in 1 .. Whole(toMod[n].total) |-> toMod[n].of]
<1> DEFINE r == SubSeq(toMod, n + 1, Len(toMod))
           img == After(SubSeq(toMod, 1, n)).image
<1>1. /\ toMod \in Seq(Messages) /\ Len(toMod) \in Nat
      /\ r \in Seq(Messages) /\ Len(r) = Len(toMod) - n
      /\ \A k \in 1 .. Len(r) : k + n \in 1 .. Len(toMod) /\ r[k] = toMod[k + n]
  <2>1. toMod \in Seq(Messages)
    BY DEF TypeOK
  <2> QED  BY <2>1, Rest
<1> HIDE DEF r
<1>2. ASSUME NEW k \in 1 .. Len(r), Closes(r[k]) PROVE Due(r, img, k)
  <2> DEFINE e == k + n
             total == r[k].total
             u == r[k].of
             c == Parts(total)
  <2>1. e \in 1 .. Len(toMod) /\ e \in Nat /\ r[k] = toMod[e] /\ c \in Nat /\ n \in 0 .. e
    <3>1. c \in Nat
      BY <1>1, <1>2, ClosedType, Zenon
    <3>2. n \in 0 .. k + n
      OBVIOUS
    <3> QED  BY <1>1, <3>1, <3>2
  <2> HIDE DEF e
  <2>2. Closes(toMod[e]) /\ Due(toMod, image, e)
    BY <1>2, <2>1, Zenon DEF Uploading, Uploads
  <2>3. /\ \A j \in 0 .. c - 1 : e - c + j >= 1 => toMod[e - c + j] = Piece(total, u, j)
        /\ r[k] = LastPiece(total, u)
    BY <2>1, <2>2, Zenon DEF Due
  <2>4. ASSUME k <= c PROVE img = Begun(total, u, c + 1 - k)
    <3> HIDE DEF total, u
    <3>1. n + c + 1 - e >= 1 /\ n + c + 1 - e = c + 1 - k /\ n + c + 1 - e <= c
      BY <2>1, <2>4 DEF e
    <3>2. img = Begun(total, u, n + c + 1 - e)
      <4>1. total = toMod[e].total /\ u = toMod[e].of
        BY <2>1 DEF total, u
      <4>2. n + Parts(toMod[e].total) + 1 - e >= 1
        BY <3>1, <4>1
      <4> QED  BY <2>1, <2>2, <3>1, <4>1, <4>2, Progress, Zenon
    <3> QED  BY <3>1, <3>2
  <2>5. ASSUME NEW j \in 0 .. c - 1, k - c + j >= 1 PROVE r[k - c + j] = Piece(total, u, j)
    <3> HIDE DEF total, u, c
    <3> DEFINE x == k - c + j
    <3>1. x \in 1 .. Len(r) /\ x + n = e - c + j /\ e - c + j >= 1
      BY <1>1, <2>1, <2>5 DEF e
    <3>2. toMod[x + n] = Piece(total, u, j)
      BY <2>3, <3>1
    <3> HIDE DEF x
    <3>3. r[x] = Piece(total, u, j)
      BY <1>1, <3>1, <3>2, Zenon
    <3> QED  BY <3>3 DEF x
  <2> QED  BY <2>3, <2>4, <2>5, Zenon DEF Due
<1>3. ASSUME Closes(toMod[n]) PROVE img = [b \in 1 .. Whole(toMod[n].total) |-> toMod[n].of]
  <2> DEFINE total == toMod[n].total
             u == toMod[n].of
             c == Parts(total)
  <2>1. Due(toMod, image, n)
    BY <1>3, Zenon DEF Uploading, Uploads
  <2>2. c \in Nat \ {0}
    BY <1>1, <1>3, ClosedType, Zenon
  <2>3. n + Parts(toMod[n].total) + 1 - n >= 1 /\ n \in 0 .. n
        /\ ~(n + Parts(toMod[n].total) + 1 - n <= Parts(toMod[n].total))
    BY <2>2
  <2>4. img = Begun(total, u, c)
    BY <1>3, <2>1, <2>3, Progress, Zenon
  <2>5. Held(total, c) = Whole(total)
    <3> HIDE DEF total, Whole
    <3> QED  BY <2>2 DEF Held
  <2> QED  BY <2>4, <2>5, Zenon DEF Begun
<1>4. Uploads(r, img)
  BY <1>2, Zenon DEF Uploads
<1> QED  BY <1>3, <1>4, Zenon DEF r

(* A message that is not of an upload closes none. *)
LEMMA OneSent ==
  ASSUME NEW q \in Seq(Messages), NEW img, Uploads(q, img), NEW m \in Messages, m.kind # "chunk"
  PROVE  q \o <<m>> \in Seq(Messages) /\ Uploads(q \o <<m>>, img)
<1>1. <<m>> \in Seq(Messages)
  OBVIOUS
<1>2. \A k \in 1 .. Len(<<m>>) :
        Closes(<<m>>[k]) => Parts(<<m>>[k].total) < k /\ Due(<<m>>, img, k)
  <2>1. \A k \in 1 .. Len(<<m>>) : <<m>>[k] = m
    OBVIOUS
  <2> QED  BY <2>1, Zenon DEF Closes
<1> QED  BY <1>1, <1>2, SentUploads, Zenon

(* Every step keeps what is on its way as it should be. *)
LEMMA UploadStep ==
  TypeOK /\ Uploading /\ [Next]_vars => TypeOK' /\ Uploading'
<1> SUFFICES ASSUME TypeOK, Uploading, [Next]_vars PROVE TypeOK' /\ Uploading'
  OBVIOUS
<1>0. toMod \in Seq(Messages) /\ files \in Disks /\ upload \in 0 .. 1 /\ connected \in BOOLEAN
  BY DEF TypeOK
<1>1. CASE UNCHANGED <<toMod, files, image, upload>> /\ connected' \in BOOLEAN
  <2>1. toMod' = toMod /\ image' = image /\ files' = files /\ upload' = upload
    BY <1>1
  <2> QED  BY <1>0, <1>1, <2>1, Zenon DEF TypeOK, Uploading, Uploads, Due
<1>2. ASSUME NEW m \in Messages, m.kind # "chunk", Send(<<m>>),
             UNCHANGED <<connected, modVars, upload>>
      PROVE  TypeOK' /\ Uploading'
  <2>1. image' = image /\ files' = files /\ upload' = upload /\ connected' = connected
    BY <1>2 DEF modVars
  <2>2. toMod' = toMod \o <<m>> \/ toMod' = toMod
    BY <1>2, Zenon DEF Send
  <2>3. toMod' \in Seq(Messages) /\ Uploads(toMod', image)
    <3>1. Uploads(toMod, image)
      BY DEF Uploading
    <3> QED  BY <1>0, <1>2, <2>2, <3>1, OneSent, Zenon
  <2>4. Uploads(toMod', image')
    BY <2>1, <2>3, Zenon
  <2>5. Uploading'
    BY <2>4, Zenon DEF Uploading, Uploads, Due
  <2> QED  BY <1>0, <2>1, <2>3, <2>5, Zenon DEF TypeOK
<1>3. ASSUME NEW i \in Requests, NEW t \in Targets, Request(i, t) PROVE TypeOK' /\ Uploading'
  <2> DEFINE m == [kind |-> "exec", target |-> t]
  <2>1. m \in Messages /\ m.kind # "chunk"
    BY DEF Messages, Execs
  <2> HIDE DEF m
  <2>2. Send(<<m>>) /\ UNCHANGED <<connected, modVars, upload>>
    BY <1>3, Zenon DEF Request, m
  <2> QED  BY <1>2, <2>1, <2>2, Zenon
<1>4. CASE Button
  <2> DEFINE m == [kind |-> "exec", target |-> NoFile]
  <2>1. m \in Messages /\ m.kind # "chunk"
    BY DEF Messages, Execs
  <2> HIDE DEF m
  <2>2. Send(<<m>>) /\ UNCHANGED <<connected, modVars, upload>>
    BY <1>4, Zenon DEF Button, m
  <2> QED  BY <1>2, <2>1, <2>2, Zenon
<1>5. ASSUME NEW p \in Paths, NEW c \in Contents, Save(p, c) PROVE TypeOK' /\ Uploading'
  <2> DEFINE m == [kind |-> "save", path |-> p, text |-> c]
  <2>1. m \in Messages /\ m.kind # "chunk"
    BY DEF Messages, Saves
  <2> HIDE DEF m
  <2>2. Send(<<m>>) /\ UNCHANGED <<connected, modVars, upload>>
    BY <1>5, Zenon DEF Save, m
  <2> QED  BY <1>2, <2>1, <2>2, Zenon
<1>6. ASSUME NEW len \in Lengths, Upload(len) PROVE TypeOK' /\ Uploading'
  <2>1. /\ upload' = 1 - upload /\ toMod' = toMod \o Pieces(len, upload')
        /\ image' = image /\ files' = files /\ connected' = connected
    BY <1>6 DEF Upload, Send, modVars
  <2>2. PICK u \in 0 .. 1 : upload' = u
    BY <1>0, <2>1
  <2>3. toMod' = toMod \o Pieces(len, u) /\ upload' \in 0 .. 1
    BY <2>1, <2>2
  <2>4. toMod' \in Seq(Messages) /\ Uploads(toMod', image)
    <3> DEFINE s == Pieces(len, u)
    <3>1. /\ s \in Seq(Messages)
          /\ \A k \in 1 .. Len(s) : Closes(s[k]) => Parts(s[k].total) < k /\ Due(s, image, k)
      BY PiecesUpload, Zenon
    <3> HIDE DEF s
    <3>2. Uploads(toMod, image) /\ toMod' = toMod \o s
      BY <2>3 DEF Uploading, s
    <3> QED  BY <1>0, <3>1, <3>2, SentUploads, Zenon
  <2>5. Uploading'
    BY <2>1, <2>4, Zenon DEF Uploading, Uploads, Due
  <2> QED  BY <1>0, <2>1, <2>3, <2>4, <2>5, Zenon DEF TypeOK
<1>7. CASE Frame
  <2>1. PICK n \in 1 .. Len(toMod) :
          /\ toMod' = SubSeq(toMod, n + 1, Len(toMod))
          /\ files' = After(SubSeq(toMod, 1, n)).files
          /\ image' = After(SubSeq(toMod, 1, n)).image
          /\ connected' = connected /\ upload' = upload
    BY <1>7, Zenon DEF Frame
  <2>2. n \in 0 .. Len(toMod)
    OBVIOUS
  <2>3. files' \in Disks
    BY <1>0, <2>1, <2>2, AfterType, Zenon
  <2>4. toMod' \in Seq(Messages)
    BY <1>0, <2>1, Rest, Zenon
  <2>5. Uploads(toMod', image')
    BY <2>1, FrameUploads, Zenon
  <2>6. Uploading'
    BY <2>5, Zenon DEF Uploading, Uploads, Due
  <2> QED  BY <1>0, <2>1, <2>3, <2>4, <2>6, Zenon DEF TypeOK
<1>8. CASE Lose
  <2>1. PICK n \in 0 .. Len(toMod) : toMod' = SubSeq(toMod, 1, n)
    BY <1>8, Zenon DEF Lose
  <2>2. image' = image /\ files' = files /\ upload' = upload /\ connected' = FALSE
    BY <1>8 DEF Lose, modVars
  <2>3. toMod' \in Seq(Messages) /\ Uploads(toMod', image)
    <3>1. Uploads(toMod, image)
      BY DEF Uploading
    <3> QED  BY <1>0, <2>1, <3>1, LostUploads, Zenon
  <2>4. Uploading'
    BY <2>2, <2>3, Zenon DEF Uploading, Uploads, Due
  <2>5. connected' \in BOOLEAN
    BY <2>2
  <2> QED  BY <1>0, <2>2, <2>3, <2>4, <2>5, Zenon DEF TypeOK
<1>9. CASE Receive \/ Reopen \/ UNCHANGED vars
  <2>1. UNCHANGED <<toMod, files, image, upload>> /\ connected' \in BOOLEAN
    <3>1. CASE Receive
      BY <1>0, <3>1 DEF Receive, modVars
    <3>2. CASE Reopen
      BY <1>0, <3>2 DEF Reopen, modVars
    <3>3. CASE UNCHANGED vars
      BY <1>0, <3>3 DEF vars, modVars
    <3> QED  BY <1>9, <3>1, <3>2, <3>3
  <2> QED  BY <1>1, <2>1
<1> QED  BY <1>3, <1>4, <1>5, <1>6, <1>7, <1>8, <1>9, Zenon DEF Next, User

(* At first nothing is on its way. *)
LEMMA UploadInit == Init => TypeOK /\ Uploading
<1> SUFFICES ASSUME Init PROVE TypeOK /\ Uploading
  OBVIOUS
<1>1. toMod = <<>> /\ upload = 0 /\ connected = TRUE /\ files \in [Paths -> {NoFile}]
  BY DEF Init
<1>2. TypeOK
  BY <1>1 DEF TypeOK, Disks
<1>3. 1 .. Len(toMod) = {}
  BY <1>1
<1> QED  BY <1>2, <1>3, Zenon DEF Uploading, Uploads

(* A file that the page uploads is whole when writeFileChunked closes it, and *)
(* holds nothing else, for any lengths, any chunk size and however many       *)
(* messages arrive in a frame: the invariant says which pieces are still on   *)
(* their way and how far the image has grown.                                 *)
THEOREM UploadCorrect == Spec => UploadWhole
<1>1. TypeOK /\ Uploading /\ [Next]_vars =>
        [\A k \in 1 .. Len(toMod) :
           toMod[k].kind = "chunk" /\ toMod[k].op = 3 /\ Len(toMod') = Len(toMod) - k
             /\ connected' = connected =>
           LET total == toMod[k].total
           IN  image' = [b \in 1 .. IF total % Chunk = 1 THEN total - 1 ELSE total |->
                          toMod[k].of]]_vars
  <2> SUFFICES ASSUME TypeOK, Uploading, [Next]_vars, NEW k \in 1 .. Len(toMod),
                      toMod[k].kind = "chunk", toMod[k].op = 3,
                      Len(toMod') = Len(toMod) - k, connected' = connected
               PROVE  image' = [b \in 1 .. Whole(toMod[k].total) |-> toMod[k].of]
    BY Zenon DEF Whole
  <2>1. toMod \in Seq(Messages) /\ Len(toMod) \in Nat
    BY DEF TypeOK
  <2>2. CASE Frame
    <3>1. PICK n \in 1 .. Len(toMod) :
            /\ toMod' = SubSeq(toMod, n + 1, Len(toMod))
            /\ image' = After(SubSeq(toMod, 1, n)).image
      BY <2>2, Zenon DEF Frame
    <3>2. Len(toMod') = Len(toMod) - n
      BY <2>1, <3>1
    <3>3. k = n
      BY <2>1, <3>2
    <3>4. Closes(toMod[n])
      BY <3>3, Zenon DEF Closes
    <3> QED  BY <3>1, <3>3, <3>4, FrameUploads, Zenon
  <2>3. CASE ~Frame
    <3>1. Len(toMod') >= Len(toMod)
      <4>1. ASSUME NEW s \in Seq(Messages), Send(s) PROVE Len(toMod') >= Len(toMod)
        BY <2>1, <4>1 DEF Send
      <4>2. ASSUME NEW i \in Requests, NEW t \in Targets, Request(i, t)
            PROVE  Len(toMod') >= Len(toMod)
        <5> DEFINE m == [kind |-> "exec", target |-> t]
        <5>1. <<m>> \in Seq(Messages)
          BY DEF Messages, Execs
        <5> HIDE DEF m
        <5>2. Send(<<m>>)
          BY <4>2, Zenon DEF Request, m
        <5> QED  BY <4>1, <5>1, <5>2, Zenon
      <4>3. ASSUME Button PROVE Len(toMod') >= Len(toMod)
        <5> DEFINE m == [kind |-> "exec", target |-> NoFile]
        <5>1. <<m>> \in Seq(Messages)
          BY DEF Messages, Execs
        <5> HIDE DEF m
        <5>2. Send(<<m>>)
          BY <4>3, Zenon DEF Button, m
        <5> QED  BY <4>1, <5>1, <5>2, Zenon
      <4>4. ASSUME NEW p \in Paths, NEW c \in Contents, Save(p, c)
            PROVE  Len(toMod') >= Len(toMod)
        <5> DEFINE m == [kind |-> "save", path |-> p, text |-> c]
        <5>1. <<m>> \in Seq(Messages)
          BY DEF Messages, Saves
        <5> HIDE DEF m
        <5>2. Send(<<m>>)
          BY <4>4, Zenon DEF Save, m
        <5> QED  BY <4>1, <5>1, <5>2, Zenon
      <4>5. ASSUME NEW len \in Lengths, Upload(len) PROVE Len(toMod') >= Len(toMod)
        <5>1. upload' = 1 - upload /\ upload \in 0 .. 1 /\ Send(Pieces(len, upload'))
          BY <4>5 DEF Upload, TypeOK
        <5>2. PICK u \in 0 .. 1 : upload' = u
          BY <5>1
        <5>3. Send(Pieces(len, u))
          BY <5>1, <5>2
        <5>4. Pieces(len, u) \in Seq(Messages)
          BY PiecesUpload, Zenon
        <5> QED  BY <4>1, <5>3, <5>4, Zenon
      <4>6. ASSUME Receive \/ Reopen \/ UNCHANGED vars PROVE Len(toMod') >= Len(toMod)
        <5>1. toMod' = toMod
          BY <4>6, Zenon DEF Receive, Reopen, vars
        <5> QED  BY <2>1, <5>1
      <4>7. ~Lose
        BY Zenon DEF Lose
      <4> QED  BY <2>3, <4>2, <4>3, <4>4, <4>5, <4>6, <4>7, Zenon DEF Next, User
    <3> QED  BY <2>1, <3>1
  <2> QED  BY <2>2, <2>3
<1>2. Spec => [](TypeOK /\ Uploading)
  BY UploadInit, UploadStep, PTL DEF Spec
<1> QED  BY <1>1, <1>2, PTL DEF Spec, UploadWhole

-----------------------------------------------------------------------------
(* What a file holds once the first n messages of q have arrived, if it held *)
(* v: the text that was saved last                                           *)
Writes(m, p)       == m.kind = "save" /\ m.path = p
SavedAt(q, n, p)   == {k \in 1 .. n : Writes(q[k], p)}
Latest(v, q, n, p) == IF SavedAt(q, n, p) = {} THEN v ELSE q[Max(SavedAt(q, n, p))].text

Disk(f, q, n) == [p \in Paths |-> Latest(f[p], q, n, p)]

(* Before the first it is what it was. *)
LEMMA LatestZero == ASSUME NEW v, NEW q, NEW p PROVE Latest(v, q, 0, p) = v
<1>1. SavedAt(q, 0, p) = {}
  BY DEF SavedAt
<1> QED  BY <1>1, Zenon DEF Latest

(* Each message that saves it changes it, and no other. *)
Rewritten(v, q, n, p) ==
  /\ Writes(q[n], p)  => Latest(v, q, n, p) = q[n].text
  /\ ~Writes(q[n], p) => Latest(v, q, n, p) = Latest(v, q, n - 1, p)

(* What it holds changes message by message. *)
LEMMA LatestStep == \A v, q, p : \A n \in Nat \ {0} : Rewritten(v, q, n, p)
<1> SUFFICES ASSUME NEW v, NEW q, NEW p, NEW n \in Nat \ {0} PROVE Rewritten(v, q, n, p)
  OBVIOUS
<1>1. CASE Writes(q[n], p)
  <2>1. n \in SavedAt(q, n, p) /\ SavedAt(q, n, p) \in SUBSET (1 .. n)
    BY <1>1 DEF SavedAt
  <2> DEFINE s == SavedAt(q, n, p)
             x == Max(s)
  <2>2. x \in s /\ \A k \in s : k <= x
    BY <2>1, MaxIn, Zenon
  <2>3. s # {} /\ n \in s /\ s \subseteq 1 .. n /\ Latest(v, q, n, p) = IF s = {} THEN v ELSE q[x].text
    BY <2>1, Zenon DEF Latest
  <2> HIDE DEF s, x
  <2>4. x = n
    BY <2>2, <2>3
  <2> QED  BY <1>1, <2>3, <2>4, Zenon DEF Rewritten
<1>2. CASE ~Writes(q[n], p)
  <2>1. \A k \in 1 .. n : k = n \/ k \in 1 .. n - 1
    OBVIOUS
  <2>2. \A k \in 1 .. n - 1 : k \in 1 .. n
    OBVIOUS
  <2>3. SavedAt(q, n, p) = SavedAt(q, n - 1, p)
    BY <1>2, <2>1, <2>2, Zenon DEF SavedAt
  <2> QED  BY <1>2, <2>3, Zenon DEF Latest, Rewritten
<1> QED  BY <1>1, <1>2

(* What the mod has stored is that, but for the files that cannot be saved. *)
LEMMA LatestAfter ==
  ASSUME files \in Disks, NEW q \in Seq(Messages), NEW n \in 0 .. Len(q), NEW p \in Paths \ leaked
  PROVE  After(SubSeq(q, 1, n)).files[p] = Latest(files[p], q, n, p)
<1> DEFINE v == files[p]
           A(k)  == After(SubSeq(q, 1, k))
           ok(k) == A(k).files[p] = Latest(v, q, k, p)
           bad   == {k \in 0 .. Len(q) : ~ok(k)}
<1>1. ok(0)
  <2>1. A(0) = Stored
    BY AfterStep, Zenon
  <2>2. Stored.files = files
    BY DEF Stored
  <2>3. Latest(v, q, 0, p) = v
    BY LatestZero, Zenon
  <2> QED  BY <2>1, <2>2, <2>3, Zenon
<1>2. ASSUME NEW k \in 1 .. Len(q), ok(k - 1) PROVE ok(k)
  <2> DEFINE s == A(k - 1)
             m == q[k]
  <2>1. k - 1 \in 0 .. Len(q) /\ m \in Messages /\ k \in Nat \ {0}
    OBVIOUS
  <2>2. A(k) = Dispatched(s, m)
    BY AfterStep, Zenon
  <2>3. DOMAIN s = {"files", "image"} /\ s.files \in Disks
    BY <2>1, AfterType, Zenon
  <2>4. s.files[p] = Latest(v, q, k - 1, p)
    BY <1>2
  <2>5. Rewritten(v, q, k, p)
    BY <2>1, LatestStep, Zenon
  <2> HIDE DEF s, m, A, v
  <2>6. Dispatched(s, m).files = IF m.kind = "save" THEN Written(s.files, m.path, m.text) ELSE s.files
    BY <2>1, <2>3, DispatchedIs, Zenon
  <2>7. ASSUME m.kind = "save"
        PROVE  Written(s.files, m.path, m.text)[p] = IF m.path = p THEN m.text ELSE s.files[p]
    BY <2>3 DEF Written, Disks
  <2> QED  BY <2>2, <2>4, <2>5, <2>6, <2>7, Zenon DEF Writes, Rewritten, m
<1> HIDE DEF ok
<1>3. bad = {}
  <2> SUFFICES ASSUME bad # {} PROVE FALSE
    OBVIOUS
  <2>1. PICK k \in bad : \A m \in bad : k <= m
    <3>1. bad \subseteq Nat
      OBVIOUS
    <3> HIDE DEF bad
    <3> QED  BY <3>1, LeastNat
  <2>2. k \in 1 .. Len(q) /\ k - 1 \in 0 .. Len(q) /\ ~(k <= k - 1)
    BY <1>1, <2>1
  <2>3. ok(k - 1)
    BY <2>1, <2>2, Zenon
  <2> QED  BY <1>2, <2>1, <2>2, <2>3, Zenon
<1>4. ok(n)
  BY <1>3
<1> QED  BY <1>4 DEF ok

(* Messages may arrive at once or one after the other. *)
LEMMA LatestRest ==
  ASSUME NEW v, NEW p, NEW q \in Seq(Messages), NEW n \in 1 .. Len(q), NEW e \in 0 .. Len(q) - n
  PROVE  Latest(Latest(v, q, n, p), SubSeq(q, n + 1, Len(q)), e, p) = Latest(v, q, n + e, p)
<1> DEFINE w == Latest(v, q, n, p)
           r == SubSeq(q, n + 1, Len(q))
           ok(k) == Latest(w, r, k, p) = Latest(v, q, n + k, p)
           bad == {k \in 0 .. Len(q) - n : ~ok(k)}
<1>1. \A k \in 1 .. Len(q) - n : r[k] = q[k + n]
  BY Rest
<1>2. ok(0)
  <2>1. n + 0 = n
    OBVIOUS
  <2> HIDE DEF r
  <2>2. Latest(w, r, 0, p) = w
    BY LatestZero, Zenon
  <2> QED  BY <2>1, <2>2
<1> HIDE DEF r, w
<1>3. ASSUME NEW k \in 1 .. Len(q) - n, ok(k - 1) PROVE ok(k)
  <2>1. k \in Nat \ {0} /\ n + k \in Nat \ {0} /\ (n + k) - 1 = n + (k - 1) /\ k + n = n + k
    OBVIOUS
  <2>2. Rewritten(w, r, k, p)
    BY <2>1, LatestStep, Zenon
  <2> DEFINE i == n + k
  <2>3. Rewritten(v, q, i, p)
    BY <2>1, LatestStep, Zenon
  <2>4. r[k] = q[i]
    BY <1>1, <2>1
  <2> QED  BY <1>3, <2>1, <2>2, <2>3, <2>4, Zenon DEF Rewritten
<1> HIDE DEF ok
<1>4. bad = {}
  <2> SUFFICES ASSUME bad # {} PROVE FALSE
    OBVIOUS
  <2>1. PICK k \in bad : \A m \in bad : k <= m
    <3>1. bad \subseteq Nat
      OBVIOUS
    <3> HIDE DEF bad
    <3> QED  BY <3>1, LeastNat
  <2>2. k \in 1 .. Len(q) - n /\ k - 1 \in 0 .. Len(q) - n /\ ~(k <= k - 1)
    BY <1>2, <2>1
  <2>3. ok(k - 1)
    BY <2>1, <2>2, Zenon
  <2> QED  BY <1>3, <2>1, <2>2, <2>3, Zenon
<1>5. ok(e)
  BY <1>4
<1> QED  BY <1>5 DEF ok, r, w

(* What is sent later does not change what the messages before it do, *)
LEMMA LatestBefore ==
  ASSUME NEW v, NEW p, NEW q \in Seq(Messages), NEW s \in Seq(Messages), NEW n \in 0 .. Len(q)
  PROVE  Latest(v, q \o s, n, p) = Latest(v, q, n, p)
<1> DEFINE r == q \o s
<1>1. \A k \in 1 .. n : r[k] = q[k]
  OBVIOUS
<1> HIDE DEF r
<1>2. SavedAt(r, n, p) = SavedAt(q, n, p)
  BY <1>1, Zenon DEF SavedAt
<1>3. SavedAt(q, n, p) \in SUBSET (1 .. n) /\ n \in Nat
  BY DEF SavedAt
<1>4. SavedAt(q, n, p) # {} => Max(SavedAt(q, n, p)) \in 1 .. n
  BY <1>3, MaxIn, Zenon
<1> QED  BY <1>1, <1>2, <1>4, Zenon DEF Latest, r

(* and nothing is changed by what is not a save. *)
LEMMA LatestSame ==
  ASSUME NEW v, NEW p, NEW q \in Seq(Messages), NEW s \in Seq(Messages),
         \A k \in 1 .. Len(s) : s[k].kind # "save", NEW n \in Len(q) .. Len(q) + Len(s)
  PROVE  Latest(v, q \o s, n, p) = Latest(v, q, Len(q), p)
<1> DEFINE r == q \o s
<1>1. /\ \A k \in 1 .. Len(q) : r[k] = q[k]
      /\ \A k \in 1 .. Len(s) : r[Len(q) + k] = s[k]
      /\ Len(q) \in Nat /\ Len(s) \in Nat
  OBVIOUS
<1> HIDE DEF r
<1>2. ASSUME NEW k \in 1 .. n, Writes(r[k], p) PROVE k \in 1 .. Len(q) /\ r[k] = q[k]
  <2>1. CASE k > Len(q)
    <3> DEFINE j == k - Len(q)
    <3>1. j \in 1 .. Len(s) /\ Len(q) + j = k
      BY <1>1, <2>1
    <3> HIDE DEF j
    <3> QED  BY <1>1, <1>2, <3>1, Zenon DEF Writes
  <2> QED  BY <1>1, <2>1
<1>3. \A k \in 1 .. Len(q) : k \in 1 .. n
  BY <1>1
<1>4. SavedAt(r, n, p) = SavedAt(q, Len(q), p)
  BY <1>1, <1>2, <1>3, Zenon DEF SavedAt
<1>5. SavedAt(q, Len(q), p) \in SUBSET (1 .. Len(q))
  BY DEF SavedAt
<1>6. SavedAt(q, Len(q), p) # {} => Max(SavedAt(q, Len(q), p)) \in 1 .. Len(q)
  BY <1>1, <1>5, MaxIn, Zenon
<1> QED  BY <1>1, <1>4, <1>6, Zenon DEF Latest, r

-----------------------------------------------------------------------------
(* Answers *)

Answers == Contents \cup {Error} \cup Paths
Replies == [ns : Namespaces, end : BOOLEAN, text : Answers \cup {NoFile}]
Asked   == [target : Targets, got : Seq(Answers \cup {NoFile})]

(* A directory's files can be listed. *)
LEMMA Listed ==
  ASSUME NEW s, s \subseteq Paths
  PROVE  SetToSeq(s) \in Seq(s)
<1>1. IsFiniteSet(s)
  <2>1. IsFiniteSet(Paths)
    BY FileAssumption
  <2> QED  BY <2>1, FS_Subset
<1>2. PICK n \in Nat : ExistsBijection(1 .. n, s)
  BY <1>1, FS_NatBijection
<1>3. Cardinality(s) = n
  BY <1>2, FS_CountingElements
<1>4. PICK f \in [1 .. n -> s] : IsInjective(f)
  BY <1>2, Zenon DEF ExistsBijection, Bijection, Injection
<1>5. SetToSeq(s) \in [1 .. n -> s]
  BY <1>3, <1>4, Zenon DEF SetToSeq
<1> QED  BY <1>5

(* A request is answered by texts, the error or the names of files. *)
LEMMA AnswerType ==
  ASSUME NEW t \in Targets, NEW f \in Disks
  PROVE  Answer(t, f) \in Seq(Answers)
<1>1. CASE t = Dir
  <2> DEFINE s == {p \in Paths : f[p] # NoFile}
  <2>1. SetToSeq(s) \in Seq(s)
    BY Listed
  <2>2. s \subseteq Answers
    BY DEF Answers
  <2>3. Answer(t, f) = SetToSeq(s)
    BY <1>1, Zenon DEF Answer
  <2> HIDE DEF s
  <2> QED  BY <2>1, <2>2, <2>3
<1>2. CASE t # Dir
  <2>1. f[t] \in Contents \cup {NoFile}
    BY <1>2 DEF Targets, Disks
  <2> DEFINE x == ReadText(f[t])
  <2>2. x \in Answers
    BY <2>1 DEF ReadText, Answers
  <2>3. Answer(t, f) = <<x>>
    BY <1>2, Zenon DEF Answer
  <2> HIDE DEF x
  <2> QED  BY <2>2, <2>3
<1> QED  BY <1>1, <1>2

(* They are sent one by one, and then the end. *)
LEMMA DumpIs ==
  ASSUME NEW t \in Targets, NEW f \in Disks
  PROVE  LET c == Len(Answer(t, f))
             d == Dump(t, f)
         IN  /\ c \in Nat /\ d \in Seq(Replies) /\ Len(d) = c + 1
             /\ \A k \in 1 .. c : /\ d[k].ns = Ns(t) /\ d[k].end = FALSE
                                  /\ d[k].text = Answer(t, f)[k]
             /\ d[c + 1].ns = Ns(t) /\ d[c + 1].end = TRUE
<1> DEFINE a == Answer(t, f)
           c == Len(a)
           s == Texts(t, f)
           l == Message(t, TRUE, NoFile)
<1>1. a \in Seq(Answers)
  BY AnswerType
<1> HIDE DEF a
<1>2. c \in Nat /\ \A k \in 1 .. c : a[k] \in Answers
  BY <1>1
<1> HIDE DEF c
<1>3. Ns(t) \in Namespaces
  BY DEF Namespaces
<1>4. l \in Replies /\ l.ns = Ns(t) /\ l.end = TRUE
  BY <1>3 DEF Message, Replies
<1>5. \A k \in 1 .. c : /\ Message(t, FALSE, a[k]) \in Replies
                        /\ Message(t, FALSE, a[k]).ns = Ns(t)
                        /\ Message(t, FALSE, a[k]).end = FALSE
                        /\ Message(t, FALSE, a[k]).text = a[k]
  BY <1>2, <1>3 DEF Message, Replies
<1>6. s = [k \in 1 .. c |-> Message(t, FALSE, a[k])]
  BY Zenon DEF Texts, a, c
<1>7. s \in [1 .. c -> Replies] /\ \A k \in 1 .. c : s[k] = Message(t, FALSE, a[k])
  BY <1>5, <1>6, Zenon
<1>8. Dump(t, f) = s \o <<l>>
  BY Zenon DEF Dump
<1> HIDE DEF s, l
<1>9. s \in Seq(Replies) /\ Len(s) = c
  BY <1>2, <1>7
<1>10. /\ s \o <<l>> \in Seq(Replies) /\ Len(s \o <<l>>) = c + 1
       /\ \A k \in 1 .. c : (s \o <<l>>)[k] = s[k]
       /\ (s \o <<l>>)[c + 1] = l
  BY <1>2, <1>4, <1>9
<1>11. ASSUME NEW k \in 1 .. c
       PROVE  /\ Dump(t, f)[k].ns = Ns(t) /\ Dump(t, f)[k].end = FALSE
              /\ Dump(t, f)[k].text = a[k]
  <2>1. Dump(t, f)[k] = Message(t, FALSE, a[k])
    BY <1>7, <1>8, <1>10, Zenon
  <2> QED  BY <1>5, <2>1, Zenon
<1>12. Dump(t, f)[c + 1].ns = Ns(t) /\ Dump(t, f)[c + 1].end = TRUE
  BY <1>4, <1>8, <1>10, Zenon
<1> QED  BY <1>2, <1>8, <1>10, <1>11, <1>12, Zenon DEF a, c

(* What is logged by a script that runs several times is what it logs, again  *)
(* and again.                                                                 *)
LEMMA TimesIs ==
  ASSUME NEW S, NEW log \in Seq(S), NEW n \in Nat
  PROVE  /\ Times(n, log) \in Seq(S)
         /\ \A k \in 1 .. Len(Times(n, log)) : \E j \in 1 .. Len(log) : Times(n, log)[k] = log[j]
         /\ Times(1, log) = log
<1> DEFINE c == Len(log)
           N == n * c
           at(k) == 1 + ((k - 1) % c)
<1>1. c \in Nat /\ N \in Nat
  BY DEF N
<1>2. ASSUME NEW k \in 1 .. N PROVE at(k) \in 1 .. c
  <2>1. c # 0
    BY <1>1
  <2> DEFINE x == (k - 1) % c
  <2>2. x \in Nat /\ x < c
    <3>1. k - 1 \in Nat
      BY <1>1
    <3> QED  BY <1>1, <2>1, <3>1, Divided
  <2> HIDE DEF x, c
  <2>3. 1 + x \in 1 .. c
    BY <1>1, <2>2
  <2> QED  BY <2>3, Zenon DEF x
<1>3. Times(n, log) = [k \in 1 .. N |-> log[at(k)]]
  BY Zenon DEF Times
<1> DEFINE r == Times(n, log)
<1>4. Times(1, log) = log
  <2>1. 1 * c = c
    BY <1>1
  <2>2. \A k \in 1 .. c : k - 1 \in Nat /\ k - 1 < c /\ c # 0
    BY <1>1
  <2>3. \A k \in 1 .. c : (k - 1) % c = k - 1
    <3> SUFFICES ASSUME NEW k \in 1 .. c PROVE (k - 1) % c = k - 1
      OBVIOUS
    <3> DEFINE x == k - 1
    <3>1. x \in Nat /\ x < c /\ c \in Nat \ {0} /\ 0 \in Nat /\ x = 0 * c + x
      BY <1>1, <2>2
    <3> HIDE DEF x, c
    <3>2. x % c = x
      BY <3>1, Remainder
    <3> QED  BY <3>2 DEF x, c
  <2>4. \A k \in 1 .. c : 1 + ((k - 1) % c) = k
    BY <1>1, <2>3
  <2>5. Times(1, log) = [k \in 1 .. 1 * c |-> log[1 + ((k - 1) % c)]]
    BY Zenon DEF Times
  <2>6. Times(1, log) = [k \in 1 .. c |-> log[k]]
    BY <2>1, <2>4, <2>5, Zenon
  <2>7. log = [k \in 1 .. c |-> log[k]]
    OBVIOUS
  <2> QED  BY <2>6, <2>7, Zenon
<1> HIDE DEF N, c, at
<1>5. \A j \in 1 .. c : log[j] \in S
  BY DEF c
<1>6. r \in [1 .. N -> S] /\ \A k \in 1 .. N : r[k] = log[at(k)]
  BY <1>2, <1>3, <1>5, Zenon
<1> HIDE DEF r
<1>7. r \in Seq(S) /\ Len(r) = N
  BY <1>1, <1>6
<1> QED  BY <1>2, <1>4, <1>6, <1>7, Zenon DEF r, c

-----------------------------------------------------------------------------
(* An answer from the contents f is right if it is one of those that are owed, *)
(* but for files that cannot be saved.                                         *)
Exempt(t, lk) == t \in lk \/ (t = Dir /\ lk # {})
Right(t, f, o, lk) == Exempt(t, lk) \/ Answer(t, f) \in o

(* It depends on the contents of the files that can be saved. *)
LEMMA RightSame ==
  ASSUME NEW t \in Targets, NEW f, NEW g, NEW o, NEW u, o \subseteq u,
         NEW lk, NEW ll, lk \subseteq ll,
         \A p \in Paths \ ll : f[p] = g[p], Right(t, f, o, lk)
  PROVE  Right(t, g, u, ll)
<1>1. CASE Exempt(t, ll)
  BY <1>1 DEF Right
<1>2. CASE ~Exempt(t, ll)
  <2>1. Answer(t, f) \in u
    BY <1>2 DEF Right, Exempt
  <2>2. Answer(t, f) = Answer(t, g)
    <3>1. CASE t = Dir
      <4>1. \A p \in Paths : f[p] = g[p]
        BY <1>2, <3>1 DEF Exempt
      <4> QED  BY <3>1, <4>1, Zenon DEF Answer
    <3>2. CASE t # Dir
      <4>1. f[t] = g[t]
        BY <1>2, <3>2 DEF Exempt, Targets
      <4> QED  BY <3>2, <4>1, Zenon DEF Answer
    <3> QED  BY <3>1, <3>2
  <2> QED  BY <2>1, <2>2, Zenon DEF Right
<1> QED  BY <1>1, <1>2

-----------------------------------------------------------------------------
(* Who waits for what *)

AnswerTypeOK ==
  /\ fromMod \in Seq(Replies) /\ leaked \subseteq Paths
  /\ subs \in [Namespaces -> Seq(Requests)]
  /\ request \in [Requests -> Asked \cup {Idle}]
  /\ owed \in [Requests -> SUBSET Seq(Answers)]

(* Those who are subscribed wait for an answer in that namespace, and are     *)
(* subscribed once.                                                           *)
Subscribers(sn, rq, n) ==
  \A k \in 1 .. Len(sn) :
    /\ rq[sn[k]] \in Asked /\ Ns(rq[sn[k]].target) = n
    /\ \A l \in 1 .. Len(sn) : sn[k] = sn[l] => k = l

Subscribed == \A n \in Namespaces : Subscribers(subs[n], request, n)

(* Whoever waits has asked for something. *)
LEMMA NotIdle == Idle \notin Asked
<1>1. Idle.target = NoFile
  BY DEF Idle
<1>2. NoFile \notin Targets
  BY FileAssumption DEF Targets
<1> QED  BY <1>1, <1>2 DEF Asked

(* Every second subscriber is kept. *)
LEMMA Evens ==
  ASSUME NEW n \in Nat
  PROVE  LET kept == {k \in 1 .. n : k % 2 = 0}
         IN  /\ Cardinality(kept) \in Nat
             /\ \A k \in 1 .. Cardinality(kept) : 2 * k \in kept
<1> DEFINE kept == {k \in 1 .. n : k % 2 = 0}
           c == n \div 2
           f == [k \in 1 .. c |-> 2 * k]
<1>1. c \in Nat /\ 2 * c <= n /\ n < 2 * c + 2
  OBVIOUS
<1> HIDE DEF c
<1>2. \A k \in 1 .. c : 2 * k \in kept
  BY <1>1
<1>3. \A k \in kept : \E j \in 1 .. c : 2 * j = k
  <2> SUFFICES ASSUME NEW k \in kept PROVE \E j \in 1 .. c : 2 * j = k
    OBVIOUS
  <2>1. k \in 1 .. n /\ k % 2 = 0
    OBVIOUS
  <2>2. (k \div 2) \in 1 .. c /\ 2 * (k \div 2) = k
    BY <1>1, <2>1
  <2> QED  BY <2>2
<1>4. \A i, j \in 1 .. c : 2 * i = 2 * j => i = j
  BY <1>1
<1> HIDE DEF kept
<1>5. f \in Bijection(1 .. c, kept)
  <2>1. f \in [1 .. c -> kept] /\ \A k \in 1 .. c : f[k] = 2 * k
    BY <1>2, Zenon
  <2> HIDE DEF f
  <2>2. IsInjective(f)
    BY <1>4, <2>1, Zenon DEF IsInjective
  <2>3. \A k \in kept : \E j \in 1 .. c : f[j] = k
    BY <1>3, <2>1, Zenon
  <2> QED  BY <2>1, <2>2, <2>3, Zenon DEF Bijection, Injection, Surjection
<1>6. Cardinality(kept) = c
  <2>1. ExistsBijection(1 .. c, kept)
    BY <1>5, Zenon DEF ExistsBijection
  <2> QED  BY <1>1, <2>1, FS_CountingElements, Zenon
<1> QED  BY <1>1, <1>2, <1>6, Zenon DEF kept

(* At first nobody waits. *)
LEMMA AnswerInit == Init => AnswerTypeOK /\ Subscribed
<1> SUFFICES ASSUME Init PROVE AnswerTypeOK /\ Subscribed
  OBVIOUS
<1>1. /\ fromMod = <<>> /\ leaked = {} /\ subs = [n \in Namespaces |-> <<>>]
      /\ request = [i \in Requests |-> Idle] /\ owed = [i \in Requests |-> {}]
  BY Zenon DEF Init
<1>2. fromMod \in Seq(Replies) /\ leaked \subseteq Paths
  BY <1>1
<1>3. subs \in [Namespaces -> Seq(Requests)] /\ \A n \in Namespaces : Len(subs[n]) = 0
  BY <1>1
<1>4. request \in [Requests -> Asked \cup {Idle}]
  BY <1>1, Zenon
<1>5. owed \in [Requests -> SUBSET Seq(Answers)]
  BY <1>1
<1>6. Subscribed
  <2>1. 1 .. 0 = {}
    OBVIOUS
  <2> QED  BY <1>3, <2>1, Zenon DEF Subscribed, Subscribers
<1> QED  BY <1>2, <1>3, <1>4, <1>5, <1>6 DEF AnswerTypeOK

(* What is stored once all that is on its way has arrived *)
LEMMA InForceIs ==
  ASSUME TypeOK
  PROVE  /\ InForce \in Disks
         /\ \A p \in Paths \ leaked : InForce[p] = Latest(files[p], toMod, Len(toMod), p)
<1> DEFINE n == Len(toMod)
<1>1. toMod \in Seq(Messages) /\ files \in Disks
  BY DEF TypeOK
<1>2. n \in 0 .. Len(toMod) /\ SubSeq(toMod, 1, n) = toMod
  BY <1>1
<1>3. InForce = After(SubSeq(toMod, 1, n)).files
  BY <1>2, Zenon DEF InForce
<1> HIDE DEF n
<1>4. After(SubSeq(toMod, 1, n)).files \in Disks
  BY <1>1, <1>2, AfterType, Zenon
<1>5. \A p \in Paths \ leaked : After(SubSeq(toMod, 1, n)).files[p] = Latest(files[p], toMod, n, p)
  BY <1>1, <1>2, LatestAfter, Zenon
<1> QED  BY <1>3, <1>4, <1>5, Zenon DEF n

(* What a script logs is in the namespace that it asks for. *)
LEMMA LogIs ==
  ASSUME NEW t, NEW f \in Disks, NEW n \in Nat
  PROVE  /\ Times(n, Log(t, f)) \in Seq(Replies)
         /\ \A k \in 1 .. Len(Times(n, Log(t, f))) :
              t \in Targets /\ Times(n, Log(t, f))[k].ns = Ns(t)
<1> DEFINE l == Log(t, f)
           r == Times(n, l)
<1>1. l \in Seq(Replies) /\ \A k \in 1 .. Len(l) : t \in Targets /\ l[k].ns = Ns(t)
  <2>1. CASE t \in Targets
    <3> DEFINE c == Len(Answer(t, f))
               d == Dump(t, f)
    <3>1. /\ c \in Nat /\ d \in Seq(Replies) /\ Len(d) = c + 1
          /\ \A k \in 1 .. c : d[k].ns = Ns(t)
          /\ d[c + 1].ns = Ns(t)
      BY <2>1, DumpIs, Zenon
    <3>2. l = d
      BY <2>1, Zenon DEF Log
    <3> HIDE DEF c, d, l
    <3>3. \A k \in 1 .. c + 1 : k \in 1 .. c \/ k = c + 1
      BY <3>1
    <3> QED  BY <2>1, <3>1, <3>2, <3>3, Zenon
  <2>2. CASE t \notin Targets
    <3>1. l = <<>>
      BY <2>2, Zenon DEF Log
    <3>2. <<>> \in Seq(Replies) /\ 1 .. Len(<<>>) = {}
      OBVIOUS
    <3> QED  BY <3>1, <3>2, Zenon
  <2> QED  BY <2>1, <2>2
<1> HIDE DEF l
<1>2. r \in Seq(Replies) /\ \A k \in 1 .. Len(r) : \E j \in 1 .. Len(l) : r[k] = l[j]
  BY <1>1, TimesIs, Zenon
<1> QED  BY <1>1, <1>2, Zenon DEF l

(* The parts of a frame that takes n messages *)
Scripts(n)  == {k \in 1 .. n : toMod[k].kind = "exec"}
First(n)    == toMod[Min(Scripts(n))].target
Arrived(n)  == After(SubSeq(toMod, 1, n))

FrameOf(n) ==
  /\ toMod' = SubSeq(toMod, n + 1, Len(toMod))
  /\ files' = Arrived(n).files
  /\ spoiled' = IF Cardinality(Scripts(n)) = 1 THEN spoiled ELSE spoiled \cup Asking(Scripts(n))
  /\ \/ Cardinality(Scripts(n)) = 0 /\ fromMod' = fromMod /\ leaked' = leaked
     \/ /\ Cardinality(Scripts(n)) # 0
        /\ fromMod' = IF connected
                      THEN fromMod \o Times(Cardinality(Scripts(n)), Log(First(n), Arrived(n).files))
                      ELSE <<>>
        /\ leaked' = IF First(n) \in Paths /\ Arrived(n).files[First(n)] \in Long
                     THEN leaked \cup {First(n)} ELSE leaked
  /\ connected' = connected /\ subs' = subs /\ request' = request /\ owed' = owed

(* What one frame does *)
LEMMA FrameIs ==
  ASSUME TypeOK, Frame
  PROVE  \E n \in 1 .. Len(toMod) :
           /\ FrameOf(n)
           /\ n \in Nat /\ Scripts(n) \in SUBSET (1 .. n) /\ Cardinality(Scripts(n)) \in Nat
           /\ Arrived(n).files \in Disks
           /\ \A p \in Paths \ leaked : Arrived(n).files[p] = Latest(files[p], toMod, n, p)
<1>1. PICK n \in 1 .. Len(toMod) : FrameOf(n)
  BY Zenon DEF Frame, FrameOf, Scripts, First, Arrived, webVars
<1>2. toMod \in Seq(Messages) /\ files \in Disks /\ n \in 0 .. Len(toMod) /\ n \in Nat
  BY DEF TypeOK
<1>3. Scripts(n) \in SUBSET (1 .. n)
  BY DEF Scripts
<1>4. Cardinality(Scripts(n)) \in Nat
  <2>1. Cardinality(Scripts(n)) \in 0 .. n
    BY <1>2, <1>3, Few, Zenon
  <2> QED  BY <1>2, <2>1
<1>5. Arrived(n).files \in Disks
  BY <1>2, AfterType, Zenon DEF Arrived
<1>6. \A p \in Paths \ leaked : Arrived(n).files[p] = Latest(files[p], toMod, n, p)
  BY <1>2, LatestAfter, Zenon DEF Arrived
<1> QED  BY <1>1, <1>2, <1>3, <1>4, <1>5, <1>6, Zenon

(* Every step keeps the types, *)
LEMMA AnswerTypeStep ==
  TypeOK /\ AnswerTypeOK /\ Subscribed /\ [Next]_vars => AnswerTypeOK'
<1> SUFFICES ASSUME TypeOK, AnswerTypeOK, Subscribed, [Next]_vars PROVE AnswerTypeOK'
  OBVIOUS
<1>0. /\ fromMod \in Seq(Replies) /\ leaked \subseteq Paths
      /\ subs \in [Namespaces -> Seq(Requests)] /\ request \in [Requests -> Asked \cup {Idle}]
      /\ owed \in [Requests -> SUBSET Seq(Answers)] /\ InForce \in Disks
  BY InForceIs DEF AnswerTypeOK
<1>1. ASSUME NEW i \in Requests, NEW t \in Targets, Request(i, t) PROVE AnswerTypeOK'
  <2> DEFINE w == [target |-> t, got |-> <<>>]
             a == Answer(t, InForce)
  <2>1. /\ request' = [request EXCEPT ![i] = w] /\ owed' = [owed EXCEPT ![i] = {a}]
        /\ subs' = [subs EXCEPT ![Ns(t)] = Append(@, i)]
        /\ fromMod' = fromMod /\ leaked' = leaked
    BY <1>1, Zenon DEF Request, modVars
  <2>2. w \in Asked /\ a \in Seq(Answers)
    BY <1>0, AnswerType DEF Asked
  <2> HIDE DEF w, a
  <2>3. request' \in [Requests -> Asked \cup {Idle}] /\ owed' \in [Requests -> SUBSET Seq(Answers)]
    BY <1>0, <2>1, <2>2
  <2>4. subs' \in [Namespaces -> Seq(Requests)]
    <3>1. \A n \in Namespaces : Append(subs[n], i) \in Seq(Requests)
      BY <1>0
    <3> QED  BY <1>0, <2>1, <3>1
  <2> QED  BY <1>0, <2>1, <2>3, <2>4 DEF AnswerTypeOK
<1>2. ASSUME NEW p \in Paths, NEW c \in Contents, Save(p, c) PROVE AnswerTypeOK'
  <2> DEFINE g == [InForce EXCEPT ![p] = c]
             more(i) == owed[i] \cup {Answer(request[i].target, g)}
  <2>1. /\ owed' = [i \in Requests |-> IF i \in Waiting THEN more(i) ELSE {}]
        /\ fromMod' = fromMod /\ leaked' = leaked /\ subs' = subs /\ request' = request
    BY <1>2, Zenon DEF Save, modVars
  <2>2. ASSUME NEW i \in Requests, i \in Waiting PROVE more(i) \in SUBSET Seq(Answers)
    <3>1. request[i].target \in Targets
      BY <1>0, <2>2 DEF Waiting, Asked
    <3>2. g \in Disks
      BY <1>0 DEF Disks
    <3> HIDE DEF g
    <3>3. Answer(request[i].target, g) \in Seq(Answers)
      BY <3>1, <3>2, AnswerType, Zenon
    <3> QED  BY <1>0, <3>3
  <2> HIDE DEF more
  <2>3. owed' \in [Requests -> SUBSET Seq(Answers)]
    BY <2>1, <2>2
  <2> QED  BY <1>0, <2>1, <2>3 DEF AnswerTypeOK
<1>3. CASE Frame
  <2>1. PICK n \in 1 .. Len(toMod) :
          FrameOf(n) /\ Cardinality(Scripts(n)) \in Nat /\ Arrived(n).files \in Disks
    BY <1>3, FrameIs, Zenon
  <2> DEFINE s == Times(Cardinality(Scripts(n)), Log(First(n), Arrived(n).files))
  <2>2. s \in Seq(Replies)
    BY <2>1, LogIs, Zenon
  <2>3. subs' = subs /\ request' = request /\ owed' = owed
    BY <2>1, Zenon DEF FrameOf
  <2>4. fromMod' = fromMod \/ fromMod' = fromMod \o s \/ fromMod' = <<>>
    BY <2>1, Zenon DEF FrameOf
  <2>5. leaked' = leaked \/ (First(n) \in Paths /\ leaked' = leaked \cup {First(n)})
    BY <2>1, Zenon DEF FrameOf
  <2> HIDE DEF s
  <2>6. fromMod' \in Seq(Replies)
    <3>1. fromMod \o s \in Seq(Replies) /\ <<>> \in Seq(Replies)
      BY <1>0, <2>2
    <3> QED  BY <1>0, <2>4, <3>1, Zenon
  <2>7. leaked' \subseteq Paths
    <3> HIDE DEF First
    <3> QED  BY <1>0, <2>5
  <2> QED  BY <1>0, <2>3, <2>6, <2>7 DEF AnswerTypeOK
<1>4. CASE Receive
  <2> DEFINE m == Head(fromMod)
             called == subs[m.ns]
             kept == {k \in 1 .. Len(called) : k % 2 = 0}
             over == {called[k] : k \in (1 .. Len(called)) \ kept}
  <2>1. fromMod # <<>> /\ fromMod' = Tail(fromMod) /\ leaked' = leaked
    BY <1>4, Zenon DEF Receive, modVars
  <2>2. m \in Replies /\ fromMod' \in Seq(Replies)
    BY <1>0, <2>1
  <2>3. m.ns \in Namespaces /\ m.text \in Answers \cup {NoFile}
    BY <2>2 DEF Replies
  <2>4. called \in Seq(Requests)
    BY <1>0, <2>3
  <2>5. CASE m.end
    <3> DEFINE left == [k \in 1 .. Cardinality(kept) |-> called[2 * k]]
    <3>1. /\ subs' = [subs EXCEPT ![m.ns] = left]
          /\ request' = [i \in Requests |-> IF i \in over THEN Idle ELSE request[i]]
          /\ owed' = [i \in Requests |-> IF i \in over THEN {} ELSE owed[i]]
      BY <1>4, <2>5, Zenon DEF Receive
    <3>2. left \in Seq(Requests)
      <4>1. Cardinality(kept) \in Nat /\ \A k \in 1 .. Cardinality(kept) : 2 * k \in kept
        <5>1. Len(called) \in Nat
          BY <2>4
        <5> QED  BY <5>1, Evens, Zenon
      <4>2. \A k \in 1 .. Cardinality(kept) : called[2 * k] \in Requests
        BY <2>4, <4>1
      <4> QED  BY <4>1, <4>2
    <3> HIDE DEF m, left, over
    <3>3. subs' \in [Namespaces -> Seq(Requests)]
      BY <1>0, <3>1, <3>2
    <3>4. request' \in [Requests -> Asked \cup {Idle}]
      BY <1>0, <3>1
    <3>5. owed' \in [Requests -> SUBSET Seq(Answers)]
      BY <1>0, <3>1
    <3> QED  BY <1>0, <2>1, <2>2, <3>3, <3>4, <3>5 DEF AnswerTypeOK
  <2>6. CASE ~m.end
    <3> DEFINE heard(i) == [request[i] EXCEPT !.got = Append(@, m.text)]
    <3>1. /\ request' = [i \in Requests |->
                           IF \E k \in 1 .. Len(called) : called[k] = i
                           THEN heard(i) ELSE request[i]]
          /\ subs' = subs /\ owed' = owed
      BY <1>4, <2>6, Zenon DEF Receive
    <3>2. ASSUME NEW i \in Requests, NEW k \in 1 .. Len(called), called[k] = i
          PROVE  heard(i) \in Asked
      <4> DEFINE x == m.text
      <4>1. request[i] \in Asked
        BY <2>3, <3>2, Zenon DEF Subscribed, Subscribers
      <4>2. x \in Answers \cup {NoFile}
        BY <2>3
      <4> HIDE DEF x, m
      <4>3. [request[i] EXCEPT !.got = Append(@, x)] \in Asked
        BY <4>1, <4>2 DEF Asked
      <4> QED  BY <4>3 DEF x
    <3> HIDE DEF heard, called
    <3>3. request' \in [Requests -> Asked \cup {Idle}]
      BY <1>0, <3>1, <3>2
    <3> QED  BY <1>0, <2>1, <2>2, <3>1, <3>3 DEF AnswerTypeOK
  <2> QED  BY <2>5, <2>6
<1>5. ASSUME Button \/ (\E len \in Lengths : Upload(len)) \/ Lose \/ Reopen \/ UNCHANGED vars
      PROVE  AnswerTypeOK'
  <2>1. /\ fromMod' = fromMod \/ fromMod' = <<>>
        /\ UNCHANGED <<webVars, modVars>>
    BY <1>5, Zenon DEF Button, Upload, Lose, Reopen, vars
  <2>2. leaked' = leaked /\ subs' = subs /\ request' = request /\ owed' = owed
    BY <2>1 DEF webVars, modVars
  <2>3. fromMod' \in Seq(Replies)
    <3>1. <<>> \in Seq(Replies)
      OBVIOUS
    <3> QED  BY <1>0, <2>1, <3>1, Zenon
  <2> QED  BY <1>0, <2>2, <2>3 DEF AnswerTypeOK
<1> QED  BY <1>1, <1>2, <1>3, <1>4, <1>5, Zenon DEF Next, User

(* and who is subscribed. *)
LEMMA SubscribedStep ==
  TypeOK /\ AnswerTypeOK /\ Subscribed /\ [Next]_vars => Subscribed'
<1> SUFFICES ASSUME TypeOK, AnswerTypeOK, Subscribed, [Next]_vars, NEW n \in Namespaces
             PROVE  Subscribers(subs'[n], request', n)
  BY Zenon DEF Subscribed, Subscribers
<1>0. /\ fromMod \in Seq(Replies) /\ subs \in [Namespaces -> Seq(Requests)]
      /\ request \in [Requests -> Asked \cup {Idle}]
  BY DEF AnswerTypeOK
<1> DEFINE sn == subs[n]
<1>1. /\ sn \in Seq(Requests) /\ Len(sn) \in Nat /\ \A k \in 1 .. Len(sn) : sn[k] \in Requests
      /\ Subscribers(sn, request, n)
  BY <1>0 DEF Subscribed
<1>2. \A k \in 1 .. Len(sn) :
        /\ request[sn[k]] \in Asked /\ Ns(request[sn[k]].target) = n
        /\ \A l \in 1 .. Len(sn) : sn[k] = sn[l] => k = l
  BY <1>1, Zenon DEF Subscribers
<1>3. CASE subs' = subs /\ request' = request
  BY <1>1, <1>3, Zenon
<1>4. ASSUME NEW i \in Requests, NEW t \in Targets, Request(i, t)
      PROVE  Subscribers(subs'[n], request', n)
  <2> DEFINE w == [target |-> t, got |-> <<>>]
  <2>1. /\ request[i] = Idle /\ request' = [request EXCEPT ![i] = w]
        /\ subs' = [subs EXCEPT ![Ns(t)] = Append(@, i)]
    BY <1>4, Zenon DEF Request
  <2>2. w \in Asked /\ w.target = t
    BY DEF Asked
  <2> HIDE DEF w, sn
  <2>3. \A k \in 1 .. Len(sn) : sn[k] # i /\ request'[sn[k]] = request[sn[k]]
    <3>1. \A k \in 1 .. Len(sn) : sn[k] # i
      BY <1>2, <2>1, NotIdle, Zenon
    <3> QED  BY <1>0, <1>1, <2>1, <3>1
  <2>4. CASE Ns(t) = n
    <3> DEFINE r == Append(sn, i)
    <3>1. subs'[n] = r
      BY <1>0, <2>1, <2>4 DEF sn
    <3>2. Len(r) = Len(sn) + 1 /\ r[Len(sn) + 1] = i /\ \A k \in 1 .. Len(sn) : r[k] = sn[k]
      BY <1>1
    <3>3. \A k \in 1 .. Len(r) : k \in 1 .. Len(sn) \/ k = Len(sn) + 1
      BY <1>1, <3>2
    <3>4. request'[i] = w
      BY <1>0, <2>1
    <3> HIDE DEF r
    <3>5. ASSUME NEW k \in 1 .. Len(r)
          PROVE  request'[r[k]] \in Asked /\ Ns(request'[r[k]].target) = n
      <4>1. CASE k \in 1 .. Len(sn)
        BY <1>2, <2>3, <3>2, <4>1, Zenon
      <4>2. CASE k = Len(sn) + 1
        BY <2>2, <2>4, <3>2, <3>4, <4>2, Zenon
      <4> QED  BY <3>3, <4>1, <4>2
    <3>6. ASSUME NEW k \in 1 .. Len(r), NEW l \in 1 .. Len(r), r[k] = r[l] PROVE k = l
      <4>1. CASE k \in 1 .. Len(sn) /\ l \in 1 .. Len(sn)
        BY <1>2, <3>2, <3>6, <4>1, Zenon
      <4>2. CASE k = Len(sn) + 1 /\ l \in 1 .. Len(sn)
        BY <2>3, <3>2, <3>6, <4>2, Zenon
      <4>3. CASE k \in 1 .. Len(sn) /\ l = Len(sn) + 1
        BY <2>3, <3>2, <3>6, <4>3, Zenon
      <4> QED  BY <3>3, <4>1, <4>2, <4>3
    <3> QED  BY <3>1, <3>5, <3>6, Zenon DEF Subscribers
  <2>5. CASE Ns(t) # n
    <3>1. subs'[n] = sn
      BY <1>0, <2>1, <2>5 DEF sn
    <3> QED  BY <1>2, <2>3, <3>1, Zenon DEF Subscribers
  <2> QED  BY <2>4, <2>5
<1>5. CASE Receive
  <2> DEFINE m == Head(fromMod)
             called == subs[m.ns]
             kept == {k \in 1 .. Len(called) : k % 2 = 0}
             over == {called[k] : k \in (1 .. Len(called)) \ kept}
  <2>1. fromMod # <<>>
    BY <1>5, Zenon DEF Receive
  <2>2. m \in Replies
    BY <1>0, <2>1
  <2>3. m.ns \in Namespaces
    BY <2>2 DEF Replies
  <2>4. Subscribers(called, request, m.ns)
    BY <2>3, Zenon DEF Subscribed
  <2>5. called \in Seq(Requests)
    BY <1>0, <2>3
  <2>6. CASE m.end
    <3> DEFINE left == [k \in 1 .. Cardinality(kept) |-> called[2 * k]]
    <3>1. /\ subs' = [subs EXCEPT ![m.ns] = left]
          /\ request' = [i \in Requests |-> IF i \in over THEN Idle ELSE request[i]]
      BY <1>5, <2>6, Zenon DEF Receive
    <3>2. CASE m.ns = n
      <4>1. Cardinality(kept) \in Nat /\ \A k \in 1 .. Cardinality(kept) : 2 * k \in kept
        <5>1. Len(called) \in Nat
          BY <2>5
        <5> QED  BY <5>1, Evens, Zenon
      <4>2. subs'[n] = left /\ called = sn
        <5> HIDE DEF left, m
        <5> QED  BY <1>0, <3>1, <3>2
      <4>3. /\ Len(left) = Cardinality(kept)
            /\ \A k \in 1 .. Cardinality(kept) : left[k] = sn[2 * k]
        <5>1. \A k \in 1 .. Cardinality(kept) : left[k] = called[2 * k]
          BY Zenon
        <5>2. Len(left) = Cardinality(kept)
          <6> HIDE DEF kept, called
          <6> QED  BY <4>1
        <5> HIDE DEF left, kept, called, sn
        <5> QED  BY <4>2, <5>1, <5>2
      <4> DEFINE e == Cardinality(kept)
      <4>4. \A k \in 1 .. e : 2 * k \in 1 .. Len(sn) /\ sn[2 * k] \notin over
        <5> SUFFICES ASSUME NEW k \in 1 .. e PROVE 2 * k \in 1 .. Len(sn) /\ sn[2 * k] \notin over
          OBVIOUS
        <5>1. 2 * k \in kept /\ 2 * k \in 1 .. Len(sn)
          BY <4>1, <4>2
        <5>2. ASSUME NEW l \in (1 .. Len(sn)) \ kept PROVE sn[l] # sn[2 * k]
          <6> DEFINE x == 2 * k
          <6> HIDE DEF sn, kept, e
          <6>1. x \in 1 .. Len(sn) /\ x \in kept
            BY <5>1
          <6> HIDE DEF x
          <6>2. sn[l] # sn[x]
            BY <1>2, <5>2, <6>1, Zenon
          <6> QED  BY <6>2 DEF x
        <5>3. \A y \in over : \E l \in (1 .. Len(sn)) \ kept : y = sn[l]
          BY <4>2
        <5> HIDE DEF over, sn, kept, e
        <5> QED  BY <5>1, <5>2, <5>3, Zenon
      <4>5. \A k \in 1 .. e : request'[sn[2 * k]] = request[sn[2 * k]]
        <5> HIDE DEF over, sn, e
        <5> QED  BY <1>1, <3>1, <4>4
      <4>6. \A k, l \in 1 .. e : 2 * k = 2 * l => k = l
        BY <4>1
      <4> HIDE DEF over, left, sn, e, kept
      <4>7. ASSUME NEW k \in 1 .. e
            PROVE  request'[left[k]] \in Asked /\ Ns(request'[left[k]].target) = n
        <5> DEFINE x == 2 * k
        <5>1. left[k] = sn[x] /\ x \in 1 .. Len(sn) /\ request'[sn[x]] = request[sn[x]]
          BY <4>3, <4>4, <4>5, Zenon DEF e
        <5> HIDE DEF x
        <5> QED  BY <1>2, <5>1, Zenon
      <4>8. \A k, l \in 1 .. e : left[k] = left[l] => k = l
        BY <1>2, <4>3, <4>4, <4>6, Zenon DEF e
      <4>9. Len(left) = e
        BY <4>3 DEF e
      <4> QED  BY <4>2, <4>7, <4>8, <4>9, Zenon DEF Subscribers
    <3>3. CASE m.ns # n
      <4>1. subs'[n] = sn
        <5> HIDE DEF m, left
        <5> QED  BY <1>0, <3>1, <3>3
      <4>2. \A i \in over : request[i] \in Asked /\ Ns(request[i].target) = m.ns
        <5> SUFFICES ASSUME NEW i \in over
                     PROVE  request[i] \in Asked /\ Ns(request[i].target) = m.ns
          OBVIOUS
        <5>1. PICK l \in 1 .. Len(called) : i = called[l]
          OBVIOUS
        <5>2. request[called[l]] \in Asked /\ Ns(request[called[l]].target) = m.ns
          BY <2>4, Zenon DEF Subscribers
        <5> HIDE DEF called, m
        <5> QED  BY <5>1, <5>2, Zenon
      <4> HIDE DEF over, sn, m
      <4>3. \A k \in 1 .. Len(sn) : sn[k] \notin over
        BY <1>2, <3>3, <4>2, Zenon
      <4>4. \A k \in 1 .. Len(sn) : request'[sn[k]] = request[sn[k]]
        BY <1>1, <3>1, <4>3, Zenon
      <4> QED  BY <1>2, <4>1, <4>4, Zenon DEF Subscribers
    <3> QED  BY <3>2, <3>3
  <2>7. CASE ~m.end
    <3> DEFINE heard(i) == [request[i] EXCEPT !.got = Append(@, m.text)]
    <3>1. /\ request' = [i \in Requests |->
                           IF \E k \in 1 .. Len(called) : called[k] = i
                           THEN heard(i) ELSE request[i]]
          /\ subs' = subs
      BY <1>5, <2>7, Zenon DEF Receive
    <3>2. ASSUME NEW i, request[i] \in Asked
          PROVE  heard(i) \in Asked /\ heard(i).target = request[i].target
      <4> DEFINE x == m.text
      <4>1. x \in Answers \cup {NoFile}
        BY <2>2 DEF Replies
      <4> HIDE DEF x, m
      <4>2. /\ [request[i] EXCEPT !.got = Append(@, x)] \in Asked
            /\ [request[i] EXCEPT !.got = Append(@, x)].target = request[i].target
        BY <3>2, <4>1 DEF Asked
      <4> QED  BY <4>2 DEF x
    <3> HIDE DEF heard, called, sn
    <3>3. \A k \in 1 .. Len(sn) : request'[sn[k]] = heard(sn[k]) \/ request'[sn[k]] = request[sn[k]]
      BY <1>1, <3>1, Zenon
    <3>4. \A k \in 1 .. Len(sn) : /\ request'[sn[k]] \in Asked
                                  /\ request'[sn[k]].target = request[sn[k]].target
      BY <1>2, <3>2, <3>3, Zenon
    <3>5. subs'[n] = sn
      BY <3>1 DEF sn
    <3> QED  BY <1>2, <3>4, <3>5, Zenon DEF Subscribers
  <2> QED  BY <2>6, <2>7
<1>6. ASSUME NEW p \in Paths, NEW c \in Contents, Save(p, c) PROVE subs' = subs /\ request' = request
  BY <1>6, Zenon DEF Save
<1>7. CASE Frame \/ Button \/ (\E len \in Lengths : Upload(len)) \/ Lose \/ Reopen \/ UNCHANGED vars
  <2>1. UNCHANGED webVars
    BY <1>7, Zenon DEF Frame, Button, Upload, Lose, Reopen, vars
  <2>2. subs' = subs /\ request' = request
    BY <2>1 DEF webVars
  <2> QED  BY <1>3, <2>2
<1> QED  BY <1>3, <1>4, <1>5, <1>6, <1>7, Zenon DEF Next, User

-----------------------------------------------------------------------------
(* Where the answer is that a namespace waits for: nobody waits, or the       *)
(* script that asks for it is on its way, or what it has logged is.           *)
Asks(m, n)   == m.kind = "exec" /\ m.target \in Targets /\ Ns(m.target) = n
Silent(q, n) == \A k \in 1 .. Len(q) : ~Asks(q[k], n)
Free(r, n)   == \A k \in 1 .. Len(r) : r[k].ns # n

Quiet(n, q, r, sn) == sn = <<>> /\ Silent(q, n) /\ Free(r, n)

(* w is what the callback has accumulated, o what it is owed.  Whenever the   *)
(* script runs, with what follows it or not, the answer is right.             *)
AskedAt(n, w, o, q, f, lk, at) ==
  /\ q[at].kind = "exec" /\ q[at].target = w.target
  /\ \A k \in 1 .. Len(q) : k # at => ~Asks(q[k], n)
  /\ \A m \in at .. Len(q) : Right(w.target, Disk(f, q, m), o, lk)

Sent(n, w, o, q, r, f, lk) ==
  /\ w.got = <<>> /\ Free(r, n)
  /\ \E at \in 1 .. Len(q) : AskedAt(n, w, o, q, f, lk, at)

(* The first e texts of the answer have come, the others are on their way,    *)
(* behind a other messages.                                                   *)
Logged(n, w, o, r, lk, g, e, a) ==
  LET t == w.target
      c == Len(Answer(t, g))
  IN  /\ e <= c /\ a + (c + 1 - e) <= Len(r)
      /\ w.got = SubSeq(Answer(t, g), 1, e)
      /\ \A k \in 1 .. c + 1 - e : r[a + k] = Dump(t, g)[e + k]
      /\ \A k \in 1 .. Len(r) : k <= a \/ k > a + (c + 1 - e) => r[k].ns # n
      /\ Right(t, g, o, lk)

Coming(n, w, o, q, r, lk) ==
  Silent(q, n) /\ \E g \in Disks, e \in Nat, a \in Nat : Logged(n, w, o, r, lk, g, e, a)

Tracked(n, q, r, sn, cn, rq, ow, f, lk) ==
  \/ Quiet(n, q, r, sn)
  \/ /\ cn
     /\ \E i \in Requests :
          /\ sn = <<i>>
          /\ Sent(n, rq[i], ow[i], q, r, f, lk) \/ Coming(n, rq[i], ow[i], q, r, lk)

Following ==
  \A n \in Namespaces :
    n \notin spoiled =>
      Tracked(n, toMod, fromMod, subs[n], connected, request, owed, files, leaked)

(* Nobody asks in what is added, *)
LEMMA SilentMore ==
  ASSUME NEW q \in Seq(Messages), NEW s \in Seq(Messages), NEW n, Silent(q, n), Silent(s, n)
  PROVE  Silent(q \o s, n)
<1> DEFINE r == q \o s
<1>1. /\ \A k \in 1 .. Len(q) : r[k] = q[k]
      /\ \A k \in 1 .. Len(s) : r[Len(q) + k] = s[k]
      /\ \A k \in 1 .. Len(r) : k \in 1 .. Len(q) \/ \E j \in 1 .. Len(s) : k = Len(q) + j
  <2>1. /\ \A k \in 1 .. Len(q) : r[k] = q[k]
        /\ \A k \in 1 .. Len(s) : r[Len(q) + k] = s[k]
        /\ Len(r) = Len(q) + Len(s) /\ Len(q) \in Nat /\ Len(s) \in Nat
    OBVIOUS
  <2> HIDE DEF r
  <2>2. \A k \in 1 .. Len(r) : k \in 1 .. Len(q)
                                 \/ (k - Len(q) \in 1 .. Len(s) /\ k = Len(q) + (k - Len(q)))
    BY <2>1
  <2> QED  BY <2>1, <2>2, Zenon
<1> HIDE DEF r
<1>2. ASSUME NEW k \in 1 .. Len(r) PROVE ~Asks(r[k], n)
  <2>1. CASE k \in 1 .. Len(q)
    BY <1>1, <2>1, Zenon DEF Silent
  <2>2. CASE \E j \in 1 .. Len(s) : k = Len(q) + j
    <3>1. PICK j \in 1 .. Len(s) : k = Len(q) + j
      BY <2>2
    <3>2. r[k] = s[j]
      BY <1>1, <3>1, Zenon
    <3> QED  BY <3>2, Zenon DEF Silent
  <2> QED  BY <1>1, <2>1, <2>2
<1> QED  BY <1>2, Zenon DEF Silent, r

(* in what is left after a frame, *)
LEMMA SilentRest ==
  ASSUME NEW q \in Seq(Messages), NEW e \in 1 .. Len(q), NEW n, Silent(q, n)
  PROVE  Silent(SubSeq(q, e + 1, Len(q)), n)
<1>1. /\ Len(SubSeq(q, e + 1, Len(q))) = Len(q) - e
      /\ \A k \in 1 .. Len(q) - e : k + e \in 1 .. Len(q) /\ SubSeq(q, e + 1, Len(q))[k] = q[k + e]
  BY Rest
<1> QED  BY <1>1, Zenon DEF Silent

(* or when the connection is lost. *)
LEMMA SilentFirst ==
  ASSUME NEW q \in Seq(Messages), NEW e \in 0 .. Len(q), NEW n, Silent(q, n)
  PROVE  Silent(SubSeq(q, 1, e), n)
<1>1. /\ Len(SubSeq(q, 1, e)) = e
      /\ \A k \in 1 .. e : k \in 1 .. Len(q) /\ SubSeq(q, 1, e)[k] = q[k]
  OBVIOUS
<1> QED  BY <1>1, Zenon DEF Silent

(* There is nothing of a namespace in what is of other namespaces, *)
LEMMA FreeMore ==
  ASSUME NEW r \in Seq(Replies), NEW s \in Seq(Replies), NEW n, Free(r, n), Free(s, n)
  PROVE  Free(r \o s, n)
<1> DEFINE u == r \o s
<1>1. /\ \A k \in 1 .. Len(r) : u[k] = r[k]
      /\ \A k \in 1 .. Len(s) : u[Len(r) + k] = s[k]
      /\ Len(u) = Len(r) + Len(s) /\ Len(r) \in Nat /\ Len(s) \in Nat
  OBVIOUS
<1> HIDE DEF u
<1>2. ASSUME NEW k \in 1 .. Len(u) PROVE u[k].ns # n
  <2>1. CASE k \in 1 .. Len(r)
    BY <1>1, <2>1, Zenon DEF Free
  <2>2. CASE k \notin 1 .. Len(r)
    <3> DEFINE j == k - Len(r)
    <3>1. j \in 1 .. Len(s) /\ Len(r) + j = k
      BY <1>1, <2>2
    <3> HIDE DEF j
    <3>2. u[k] = s[j]
      BY <1>1, <3>1, Zenon
    <3> QED  BY <3>1, <3>2, Zenon DEF Free
  <2> QED  BY <2>1, <2>2
<1> QED  BY <1>2, Zenon DEF Free, u

(* and in what is left of it. *)
LEMMA FreeTail ==
  ASSUME NEW r \in Seq(Replies), r # <<>>, NEW n, Free(r, n)
  PROVE  Free(Tail(r), n)
<1>1. \A k \in 1 .. Len(Tail(r)) : k + 1 \in 1 .. Len(r) /\ Tail(r)[k] = r[k + 1]
  OBVIOUS
<1> QED  BY <1>1, Zenon DEF Free

(* The script on its way stays on its way when nothing is saved. *)
LEMMA SentMore ==
  ASSUME NEW q \in Seq(Messages), NEW s \in Seq(Messages), NEW n, NEW w \in Asked, NEW o, NEW r,
         NEW f, NEW lk, Sent(n, w, o, q, r, f, lk),
         Silent(s, n), \A k \in 1 .. Len(s) : s[k].kind # "save"
  PROVE  Sent(n, w, o, q \o s, r, f, lk)
<1> DEFINE x == q \o s
<1>1. /\ \A k \in 1 .. Len(q) : x[k] = q[k]
      /\ \A k \in 1 .. Len(s) : x[Len(q) + k] = s[k]
      /\ Len(x) = Len(q) + Len(s) /\ Len(q) \in Nat /\ Len(s) \in Nat
  OBVIOUS
<1>2. PICK at \in 1 .. Len(q) : AskedAt(n, w, o, q, f, lk, at)
  BY Zenon DEF Sent
<1>3. /\ q[at].kind = "exec" /\ q[at].target = w.target
      /\ \A k \in 1 .. Len(q) : k # at => ~Asks(q[k], n)
      /\ \A m \in at .. Len(q) : Right(w.target, Disk(f, q, m), o, lk)
  BY <1>2, Zenon DEF AskedAt
<1>4. ASSUME NEW m \in at .. Len(x) PROVE Right(w.target, Disk(f, x, m), o, lk)
  <2>1. CASE m <= Len(q)
    <3>1. m \in at .. Len(q) /\ m \in 0 .. Len(q)
      BY <1>1, <2>1
    <3>2. Disk(f, x, m) = Disk(f, q, m)
      BY <3>1, LatestBefore, Zenon DEF Disk
    <3> QED  BY <1>3, <3>1, <3>2, Zenon
  <2>2. CASE m > Len(q)
    <3>1. m \in Len(q) .. Len(q) + Len(s) /\ Len(q) \in at .. Len(q)
      BY <1>1, <2>2
    <3>2. Disk(f, x, m) = Disk(f, q, Len(q))
      BY <3>1, LatestSame, Zenon DEF Disk
    <3> QED  BY <1>3, <3>1, <3>2, Zenon
  <2> QED  BY <1>1, <2>1, <2>2
<1> HIDE DEF x
<1>5. ASSUME NEW k \in 1 .. Len(x), k # at PROVE ~Asks(x[k], n)
  <2>1. CASE k \in 1 .. Len(q)
    BY <1>1, <1>3, <1>5, <2>1, Zenon
  <2>2. CASE k \notin 1 .. Len(q)
    <3> DEFINE j == k - Len(q)
    <3>1. j \in 1 .. Len(s) /\ Len(q) + j = k
      BY <1>1, <2>2
    <3> HIDE DEF j
    <3>2. x[k] = s[j]
      BY <1>1, <3>1, Zenon
    <3> QED  BY <3>1, <3>2, Zenon DEF Silent
  <2> QED  BY <2>1, <2>2
<1>6. at \in 1 .. Len(x) /\ x[at] = q[at]
  BY <1>1
<1>7. AskedAt(n, w, o, x, f, lk, at)
  BY <1>3, <1>4, <1>5, <1>6, Zenon DEF AskedAt
<1> QED  BY <1>6, <1>7, Zenon DEF Sent, x

(* When something is saved, the answer from there on is owed as well. *)
LEMMA SentSave ==
  ASSUME NEW q \in Seq(Messages), NEW p \in Paths, NEW c \in Contents, NEW n, NEW w \in Asked,
         NEW o, NEW r, NEW f, NEW lk, Sent(n, w, o, q, r, f, lk),
         NEW g \in Disks, \A y \in Paths \ lk : g[y] = Latest(f[y], q, Len(q), y)
  PROVE  Sent(n, w, o \cup {Answer(w.target, [g EXCEPT ![p] = c])},
              q \o <<[kind |-> "save", path |-> p, text |-> c]>>, r, f, lk)
<1> DEFINE ms == [kind |-> "save", path |-> p, text |-> c]
           x == q \o <<ms>>
           h == [g EXCEPT ![p] = c]
           u == o \cup {Answer(w.target, h)}
<1>1. ms \in Messages /\ ms.kind = "save" /\ ms.path = p /\ ms.text = c
  BY DEF Messages, Saves
<1> HIDE DEF ms
<1>2. /\ \A k \in 1 .. Len(q) : x[k] = q[k]
      /\ x[Len(q) + 1] = ms
      /\ Len(x) = Len(q) + 1 /\ Len(q) \in Nat /\ <<ms>> \in Seq(Messages) /\ x \in Seq(Messages)
  BY <1>1
<1>3. PICK at \in 1 .. Len(q) : AskedAt(n, w, o, q, f, lk, at)
  BY Zenon DEF Sent
<1>4. /\ q[at].kind = "exec" /\ q[at].target = w.target
      /\ \A k \in 1 .. Len(q) : k # at => ~Asks(q[k], n)
      /\ \A m \in at .. Len(q) : Right(w.target, Disk(f, q, m), o, lk)
  BY <1>3, Zenon DEF AskedAt
<1>5. ASSUME NEW m \in at .. Len(x) PROVE Right(w.target, Disk(f, x, m), u, lk)
  <2>1. CASE m <= Len(q)
    <3>1. m \in at .. Len(q) /\ m \in 0 .. Len(q)
      BY <1>2, <2>1
    <3>2. Disk(f, x, m) = Disk(f, q, m)
      BY <1>2, <3>1, LatestBefore, Zenon DEF Disk
    <3>3. Right(w.target, Disk(f, q, m), o, lk)
      BY <1>4, <3>1, Zenon
    <3> HIDE DEF x
    <3> QED  BY <3>2, <3>3 DEF Right
  <2>2. CASE m > Len(q)
    <3> DEFINE e == Len(q) + 1
    <3>1. m = e /\ e \in Nat \ {0} /\ e - 1 = Len(q) /\ Len(q) \in 0 .. Len(q)
      BY <1>2, <2>2
    <3> HIDE DEF x
    <3>2. ASSUME NEW y \in Paths \ lk PROVE h[y] = Disk(f, x, m)[y]
      <4> DEFINE v == f[y]
      <4>1. Rewritten(v, x, e, y)
        BY <3>1, LatestStep, Zenon
      <4>2. Latest(v, x, Len(q), y) = Latest(v, q, Len(q), y)
        <5> HIDE DEF v
        <5> DEFINE s == <<ms>>
                   z == Len(q)
        <5>1. s \in Seq(Messages) /\ z \in 0 .. Len(q)
          BY <1>2, <3>1
        <5> HIDE DEF s, z
        <5>2. Latest(v, q \o s, z, y) = Latest(v, q, z, y)
          BY <5>1, LatestBefore, Zenon
        <5> QED  BY <5>2 DEF x, s, z
      <4>3. x[e] = ms
        BY <1>2 DEF x
      <4>4. Disk(f, x, m)[y] = Latest(v, x, e, y)
        BY <3>1, Zenon DEF Disk
      <4>5. h[y] = IF p = y THEN c ELSE g[y]
        BY DEF Disks
      <4>6. g[y] = Latest(v, q, Len(q), y)
        OBVIOUS
      <4> HIDE DEF v, e, h
      <4>7. CASE p = y
        BY <1>1, <4>1, <4>3, <4>4, <4>5, <4>7, Zenon DEF Rewritten, Writes
      <4>8. CASE p # y
        BY <1>1, <3>1, <4>1, <4>2, <4>3, <4>4, <4>5, <4>6, <4>8, Zenon DEF Rewritten, Writes
      <4> QED  BY <4>7, <4>8
    <3>3. w.target \in Targets
      BY DEF Asked
    <3>4. Right(w.target, h, u, lk)
      BY DEF Right
    <3> HIDE DEF h, u
    <3> DEFINE d == Disk(f, x, m)
    <3>5. \A y \in Paths \ lk : h[y] = d[y]
      BY <3>2
    <3> HIDE DEF d
    <3>6. Right(w.target, d, u, lk)
      <4>1. u \subseteq u /\ lk \subseteq lk
        OBVIOUS
      <4> QED  BY <3>3, <3>4, <3>5, <4>1, RightSame, Zenon
    <3> QED  BY <3>6 DEF d
  <2> QED  BY <1>2, <2>1, <2>2
<1> HIDE DEF x, h
<1>6. ASSUME NEW k \in 1 .. Len(x), k # at PROVE ~Asks(x[k], n)
  <2>1. CASE k \in 1 .. Len(q)
    BY <1>2, <1>4, <1>6, <2>1, Zenon DEF x
  <2>2. CASE k \notin 1 .. Len(q)
    <3>1. k = Len(q) + 1
      BY <1>2, <2>2 DEF x
    <3>2. x[k].kind = "save"
      BY <1>1, <1>2, <3>1 DEF x
    <3> QED  BY <3>2 DEF Asks
  <2> QED  BY <2>1, <2>2
<1>7. at \in 1 .. Len(x) /\ x[at] = q[at]
  BY <1>2 DEF x
<1> HIDE DEF u
<1>8. AskedAt(n, w, u, x, f, lk, at)
  BY <1>4, <1>5, <1>6, <1>7, Zenon DEF AskedAt
<1>9. Sent(n, w, u, x, r, f, lk)
  BY <1>7, <1>8, Zenon DEF Sent
<1> QED  BY <1>9, Zenon DEF x, u, h, ms

(* It is still on its way after a frame in which it has not run. *)
LEMMA SentRest ==
  ASSUME NEW q \in Seq(Messages), NEW e \in 1 .. Len(q), NEW n, NEW w \in Asked, NEW o, NEW r,
         NEW f, NEW lk, Sent(n, w, o, q, r, f, lk), \A k \in 1 .. e : ~Asks(q[k], n),
         Ns(w.target) = n, NEW u, Free(u, n), NEW ll, lk \subseteq ll,
         NEW g, \A p \in Paths \ ll : g[p] = Latest(f[p], q, e, p)
  PROVE  Sent(n, w, o, SubSeq(q, e + 1, Len(q)), u, g, ll)
<1> DEFINE x == SubSeq(q, e + 1, Len(q))
           t == w.target
<1>1. /\ x \in Seq(Messages) /\ Len(x) = Len(q) - e /\ Len(q) \in Nat
      /\ \A k \in 1 .. Len(q) - e : k + e \in 1 .. Len(q) /\ x[k] = q[k + e]
  BY Rest
<1>2. PICK at \in 1 .. Len(q) : AskedAt(n, w, o, q, f, lk, at)
  BY Zenon DEF Sent
<1>3. /\ q[at].kind = "exec" /\ q[at].target = t
      /\ \A k \in 1 .. Len(q) : k # at => ~Asks(q[k], n)
      /\ \A m \in at .. Len(q) : Right(t, Disk(f, q, m), o, lk)
  BY <1>2, Zenon DEF AskedAt
<1>4. t \in Targets
  BY DEF Asked
<1>5. at > e
  <2>1. Asks(q[at], n)
    BY <1>3, <1>4, Zenon DEF Asks
  <2> QED  BY <1>1, <2>1
<1> DEFINE y == at - e
<1>6. y \in 1 .. Len(x) /\ y + e = at /\ x[y] = q[at]
  BY <1>1, <1>5
<1>7. ASSUME NEW k \in 1 .. Len(x), k # y PROVE ~Asks(x[k], n)
  <2>1. k + e \in 1 .. Len(q) /\ k + e # at /\ x[k] = q[k + e]
    BY <1>1, <1>6, <1>7
  <2> QED  BY <1>3, <2>1, Zenon
<1>8. ASSUME NEW m \in y .. Len(x) PROVE Right(t, Disk(g, x, m), o, ll)
  <2> DEFINE z == e + m
             d == Disk(f, q, z)
             h == Disk(g, x, m)
  <2>1. z \in at .. Len(q) /\ m \in 0 .. Len(q) - e
    BY <1>1, <1>6
  <2>2. Right(t, d, o, lk)
    BY <1>3, <2>1, Zenon
  <2>3. ASSUME NEW p \in Paths \ ll PROVE d[p] = h[p]
    <3> DEFINE v == f[p]
               b == g[p]
    <3>1. b = Latest(v, q, e, p)
      OBVIOUS
    <3>2. d[p] = Latest(v, q, z, p) /\ h[p] = Latest(b, x, m, p)
      BY Zenon DEF Disk
    <3> HIDE DEF v, b, z, d, h
    <3>3. Latest(Latest(v, q, e, p), SubSeq(q, e + 1, Len(q)), m, p) = Latest(v, q, e + m, p)
      BY <2>1, LatestRest
    <3> QED  BY <3>1, <3>2, <3>3, Zenon DEF z
  <2> HIDE DEF d, h
  <2>4. o \subseteq o
    OBVIOUS
  <2>5. Right(t, h, o, ll)
    BY <1>4, <2>2, <2>3, <2>4, RightSame, Zenon
  <2> QED  BY <2>5 DEF h
<1> HIDE DEF x, y
<1>9. AskedAt(n, w, o, x, g, ll, y)
  BY <1>3, <1>6, <1>7, <1>8, Zenon DEF AskedAt
<1>10. w.got = <<>>
  BY Zenon DEF Sent
<1> QED  BY <1>6, <1>9, <1>10, Zenon DEF Sent, x

(* It is on its way once it has been sent. *)
LEMMA SentNow ==
  ASSUME NEW q \in Seq(Messages), NEW t \in Targets, NEW r, NEW f, NEW lk,
         Silent(q, Ns(t)), Free(r, Ns(t)),
         NEW g \in Disks, \A p \in Paths \ lk : g[p] = Latest(f[p], q, Len(q), p)
  PROVE  Sent(Ns(t), [target |-> t, got |-> <<>>], {Answer(t, g)},
              q \o <<[kind |-> "exec", target |-> t]>>, r, f, lk)
<1> DEFINE ms == [kind |-> "exec", target |-> t]
           w == [target |-> t, got |-> <<>>]
           s == <<ms>>
           x == q \o s
           at == Len(q) + 1
           o == {Answer(t, g)}
<1>1. ms \in Messages /\ ms.kind = "exec" /\ ms.target = t /\ w.target = t /\ w.got = <<>>
  BY DEF Messages, Execs
<1> HIDE DEF ms, w
<1>2. /\ \A k \in 1 .. Len(q) : x[k] = q[k]
      /\ x[at] = ms /\ Len(x) = at /\ at \in Nat /\ s \in Seq(Messages) /\ Len(s) = 1
      /\ \A k \in 1 .. Len(s) : s[k] = ms
      /\ at \in Len(q) .. Len(q) + 1 /\ at \in 1 .. Len(x)
      /\ \A k \in 1 .. Len(x) : k # at => k \in 1 .. Len(q)
      /\ \A m \in at .. Len(x) : m = at
  BY <1>1
<1> HIDE DEF s
<1>3. \A k \in 1 .. Len(s) : s[k].kind # "save"
  <2>1. "exec" # "save"
    OBVIOUS
  <2> QED  BY <1>1, <1>2, <2>1, Zenon
<1> HIDE DEF x
<1>4. Right(t, Disk(f, x, at), o, lk)
  <2> DEFINE h == Disk(f, x, at)
  <2>1. ASSUME NEW p \in Paths \ lk PROVE g[p] = h[p]
    <3> DEFINE v == f[p]
    <3>1. h[p] = Latest(v, x, at, p) /\ g[p] = Latest(v, q, Len(q), p)
      BY Zenon DEF Disk
    <3> HIDE DEF v, h
    <3>2. at \in Len(q) .. Len(q) + Len(s)
      BY <1>2
    <3> HIDE DEF at
    <3>3. Latest(v, q \o s, at, p) = Latest(v, q, Len(q), p)
      BY <1>2, <1>3, <3>2, LatestSame, Zenon
    <3> QED  BY <3>1, <3>3, Zenon DEF x
  <2>2. Right(t, g, o, lk)
    BY DEF Right
  <2> HIDE DEF h, o
  <2>3. o \subseteq o /\ lk \subseteq lk
    OBVIOUS
  <2>4. Right(t, h, o, lk)
    BY <2>1, <2>2, <2>3, RightSame, Zenon
  <2> QED  BY <2>4 DEF h
<1> HIDE DEF at, o
<1>5. AskedAt(Ns(t), w, o, x, f, lk, at)
  BY <1>1, <1>2, <1>4, Zenon DEF AskedAt, Silent
<1>6. Sent(Ns(t), w, o, x, r, f, lk)
  BY <1>1, <1>2, <1>5, Zenon DEF Sent
<1> QED  BY <1>6, Zenon DEF w, o, x, s, ms

(* The j-th message is the only script of a frame that takes e messages, and   *)
(* g is what is stored then.                                                   *)
Alone(q, e, j, n)       == Asks(q[j], n) /\ \A k \in 1 .. e : q[k].kind = "exec" => k = j
Current(g, f, q, e, lk) == \A p \in Paths \ lk : g[p] = Latest(f[p], q, e, p)

(* When the script runs, it logs an answer that is owed. *)
LEMMA LoggedNow ==
  ASSUME NEW q \in Seq(Messages), NEW e \in 1 .. Len(q), NEW n, NEW w \in Asked, NEW o,
         NEW r \in Seq(Replies), NEW f, NEW lk, Sent(n, w, o, q, r, f, lk),
         NEW j \in 1 .. e, Alone(q, e, j, n), NEW ll, lk \subseteq ll,
         NEW g \in Disks, Current(g, f, q, e, lk)
  PROVE  /\ q[j].target = w.target
         /\ Coming(n, w, o, SubSeq(q, e + 1, Len(q)), r \o Dump(w.target, g), ll)
<1> DEFINE x == SubSeq(q, e + 1, Len(q))
           t == w.target
           c == Len(Answer(t, g))
           d == Dump(t, g)
           u == r \o d
<1>1. /\ Len(x) = Len(q) - e /\ Len(q) \in Nat
      /\ \A k \in 1 .. Len(q) - e : k + e \in 1 .. Len(q) /\ x[k] = q[k + e]
  BY Rest
<1>2. PICK at \in 1 .. Len(q) : AskedAt(n, w, o, q, f, lk, at)
  BY Zenon DEF Sent
<1>3. /\ q[at].kind = "exec" /\ q[at].target = t
      /\ \A k \in 1 .. Len(q) : k # at => ~Asks(q[k], n)
      /\ \A m \in at .. Len(q) : Right(t, Disk(f, q, m), o, lk)
  BY <1>2, Zenon DEF AskedAt
<1>4. w.got = <<>> /\ Free(r, n)
  BY Zenon DEF Sent
<1>5. t \in Targets
  BY DEF Asked
<1>6. j \in 1 .. Len(q)
  BY <1>1
<1>7. j = at
  BY <1>3, <1>6, Zenon DEF Alone
<1>8. Silent(x, n)
  <2>1. \A k \in 1 .. Len(x) : k + e \in 1 .. Len(q) /\ k + e # at /\ x[k] = q[k + e]
    BY <1>1, <1>7
  <2> HIDE DEF x
  <2> QED  BY <1>3, <2>1, Zenon DEF Silent
<1>9. Right(t, g, o, ll)
  <2> DEFINE h == Disk(f, q, e)
  <2>1. e \in at .. Len(q)
    BY <1>7
  <2>2. Right(t, h, o, lk)
    BY <1>3, <2>1, Zenon
  <2>3. ASSUME NEW p \in Paths \ ll PROVE h[p] = g[p]
    <3>1. p \in Paths \ lk
      OBVIOUS
    <3> QED  BY <3>1, Zenon DEF Disk, Current
  <2>4. o \subseteq o
    OBVIOUS
  <2> HIDE DEF h, t
  <2> QED  BY <1>5, <2>2, <2>3, <2>4, RightSame, Zenon
<1>10. c \in Nat /\ d \in Seq(Replies) /\ Len(d) = c + 1
  BY <1>5, DumpIs, Zenon
<1>11. Logged(n, w, o, u, ll, g, 0, Len(r))
  <2>1. SubSeq(Answer(t, g), 1, 0) = <<>>
    <3>1. Answer(t, g) \in Seq(Answers)
      BY <1>5, AnswerType, Zenon
    <3> DEFINE b == Answer(t, g)
    <3> HIDE DEF b
    <3>2. b \in Seq(Answers) => SubSeq(b, 1, 0) = <<>>
      OBVIOUS
    <3> QED  BY <3>1, <3>2 DEF b
  <2> HIDE DEF d, c
  <2>2. /\ Len(u) = Len(r) + (c + 1) /\ Len(r) \in Nat
        /\ \A k \in 1 .. Len(r) : u[k] = r[k]
        /\ \A k \in 1 .. c + 1 : u[Len(r) + k] = d[k]
    BY <1>10
  <2> HIDE DEF u
  <2>3. \A k \in 1 .. c + 1 - 0 : u[Len(r) + k] = d[0 + k]
    BY <1>10, <2>2
  <2>4. \A k \in 1 .. Len(u) : k <= Len(r) \/ k > Len(r) + (c + 1 - 0) => k \in 1 .. Len(r)
    BY <1>10, <2>2
  <2>5. \A k \in 1 .. Len(u) : k <= Len(r) \/ k > Len(r) + (c + 1 - 0) => u[k].ns # n
    BY <1>4, <2>2, <2>4, Zenon DEF Free
  <2>6. 0 <= c /\ Len(r) + (c + 1 - 0) <= Len(u)
    BY <1>10, <2>2
  <2> QED  BY <1>4, <1>9, <2>1, <2>3, <2>5, <2>6, Zenon DEF Logged, c, d
<1>12. Len(r) \in Nat /\ 0 \in Nat
  OBVIOUS
<1>13. Coming(n, w, o, x, u, ll)
  <2> DEFINE z == Len(r)
  <2>1. z \in Nat /\ 0 \in Nat /\ Logged(n, w, o, u, ll, g, 0, z)
    BY <1>11, <1>12
  <2> HIDE DEF z, u, x
  <2> QED  BY <1>8, <2>1, Zenon DEF Coming
<1> QED  BY <1>3, <1>7, <1>13, Zenon

(* What comes of other namespaces does not matter. *)
LEMMA ComingMore ==
  ASSUME NEW q, NEW x, NEW n, NEW w \in Asked, NEW o, NEW u, o \subseteq u, NEW lk, NEW ll, lk \subseteq ll,
         NEW r \in Seq(Replies), NEW s \in Seq(Replies), Free(s, n),
         Coming(n, w, o, q, r, lk), Silent(x, n)
  PROVE  Coming(n, w, u, x, r \o s, ll)
<1>1. PICK g \in Disks, e \in Nat, a \in Nat : Logged(n, w, o, r, lk, g, e, a)
  BY Zenon DEF Coming
<1> DEFINE t == w.target
           c == Len(Answer(t, g))
           d == Dump(t, g)
           y == r \o s
           z == a + (c + 1 - e)
<1>2. /\ e <= c /\ z <= Len(r)
      /\ w.got = SubSeq(Answer(t, g), 1, e)
      /\ \A k \in 1 .. c + 1 - e : r[a + k] = d[e + k]
      /\ \A k \in 1 .. Len(r) : k <= a \/ k > z => r[k].ns # n
      /\ Right(t, g, o, lk)
  BY <1>1, Zenon DEF Logged
<1>3. t \in Targets
  BY DEF Asked
<1>4. c \in Nat
  BY <1>3, DumpIs, Zenon
<1> HIDE DEF c, d
<1>5. /\ Len(y) = Len(r) + Len(s) /\ Len(r) \in Nat /\ Len(s) \in Nat
      /\ \A k \in 1 .. Len(r) : y[k] = r[k]
      /\ \A k \in 1 .. Len(s) : y[Len(r) + k] = s[k]
  OBVIOUS
<1> HIDE DEF y
<1>6. \A k \in 1 .. c + 1 - e : a + k \in 1 .. Len(r)
  BY <1>2, <1>4, <1>5
<1>7. \A k \in 1 .. c + 1 - e : y[a + k] = d[e + k]
  BY <1>2, <1>5, <1>6, Zenon
<1>8. ASSUME NEW k \in 1 .. Len(y), k <= a \/ k > z PROVE y[k].ns # n
  <2>1. CASE k \in 1 .. Len(r)
    BY <1>2, <1>5, <1>8, <2>1, Zenon
  <2>2. CASE k \notin 1 .. Len(r)
    <3> DEFINE i == k - Len(r)
    <3>1. i \in 1 .. Len(s) /\ Len(r) + i = k
      BY <1>5, <2>2
    <3> HIDE DEF i
    <3>2. y[k] = s[i]
      BY <1>5, <3>1, Zenon
    <3> QED  BY <3>1, <3>2, Zenon DEF Free
  <2> QED  BY <2>1, <2>2
<1>9. z <= Len(y)
  BY <1>2, <1>4, <1>5
<1>10. Right(t, g, u, ll)
  <2>1. \A p \in Paths \ ll : g[p] = g[p]
    OBVIOUS
  <2> QED  BY <1>2, <1>3, <2>1, RightSame, Zenon
<1>11. Logged(n, w, u, y, ll, g, e, a)
  BY <1>2, <1>7, <1>8, <1>9, <1>10, Zenon DEF Logged, c, d
<1> QED  BY <1>11, Zenon DEF Coming, y

(* The callback accumulates its answer text by text, until it ends. *)
Heard(w, text) == [w EXCEPT !.got = Append(@, text)]

Expecting(n, w, o, q, r, lk) ==
  w \in Asked /\ Ns(w.target) = n /\ r \in Seq(Replies) /\ r # <<>> /\ Coming(n, w, o, q, r, lk)

Hears(n, w, o, q, r, lk) ==
  \/ Head(r).ns # n /\ Coming(n, w, o, q, Tail(r), lk)
  \/ /\ Head(r).ns = n /\ ~Head(r).end
     /\ Coming(n, Heard(w, Head(r).text), o, q, Tail(r), lk)
  \/ /\ Head(r).ns = n /\ Head(r).end
     /\ Silent(q, n) /\ Free(Tail(r), n)
     /\ (Exempt(w.target, lk) \/ w.got \in o)

(* If the answer is on its way, the next message is another's, a text of it, or its end. *)
LEMMA ComingNext ==
  ASSUME NEW n, NEW w, NEW o, NEW q, NEW r, NEW lk, Expecting(n, w, o, q, r, lk)
  PROVE  Hears(n, w, o, q, r, lk)
<1>0. /\ w \in Asked /\ Ns(w.target) = n /\ r \in Seq(Replies) /\ r # <<>>
      /\ Coming(n, w, o, q, r, lk)
  BY Zenon DEF Expecting
<1> SUFFICES \/ Head(r).ns # n /\ Coming(n, w, o, q, Tail(r), lk)
             \/ /\ Head(r).ns = n /\ ~Head(r).end
                /\ Coming(n, Heard(w, Head(r).text), o, q, Tail(r), lk)
             \/ /\ Head(r).ns = n /\ Head(r).end
                /\ Silent(q, n) /\ Free(Tail(r), n)
                /\ (Exempt(w.target, lk) \/ w.got \in o)
  BY Zenon DEF Hears
<1>1. PICK g \in Disks, e \in Nat, a \in Nat : Logged(n, w, o, r, lk, g, e, a)
  BY <1>0, Zenon DEF Coming
<1>2. Silent(q, n)
  BY <1>0, Zenon DEF Coming
<1> DEFINE t == w.target
           b == Answer(t, g)
           c == Len(b)
           d == Dump(t, g)
           y == Tail(r)
           z == a + (c + 1 - e)
<1>3. /\ e <= c /\ z <= Len(r)
      /\ w.got = SubSeq(b, 1, e)
      /\ \A k \in 1 .. c + 1 - e : r[a + k] = d[e + k]
      /\ \A k \in 1 .. Len(r) : k <= a \/ k > z => r[k].ns # n
      /\ Right(t, g, o, lk)
  BY <1>1, Zenon DEF Logged
<1>4. t \in Targets
  BY <1>0 DEF Asked
<1>5. /\ c \in Nat
      /\ \A k \in 1 .. c : d[k].ns = n /\ d[k].end = FALSE /\ d[k].text = b[k]
      /\ d[c + 1].ns = n /\ d[c + 1].end = TRUE
  <2>1. /\ c \in Nat
        /\ \A k \in 1 .. c : d[k].ns = Ns(t) /\ d[k].end = FALSE /\ d[k].text = b[k]
        /\ d[c + 1].ns = Ns(t) /\ d[c + 1].end = TRUE
    BY <1>4, DumpIs, Zenon
  <2>2. Ns(t) = n
    BY <1>0
  <2> HIDE DEF t, d, c, b
  <2> QED  BY <2>1, <2>2
<1>6. b \in Seq(Answers)
  BY <1>4, AnswerType, Zenon
<1> HIDE DEF d, b, t
<1>7. /\ Len(r) \in Nat \ {0} /\ Len(y) = Len(r) - 1 /\ Head(r) = r[1] /\ 1 \in 1 .. Len(r)
      /\ \A k \in 1 .. Len(y) : k + 1 \in 1 .. Len(r) /\ y[k] = r[k + 1]
  BY <1>0
<1>8. c = Len(b)
  OBVIOUS
<1> HIDE DEF y, c
<1>9. CASE a > 0
  <2>1. Head(r).ns # n
    <3>1. 1 <= a
      BY <1>9
    <3> QED  BY <1>3, <1>7, <3>1, Zenon
  <2> DEFINE i == a - 1
  <2>2. i \in Nat /\ i + (c + 1 - e) = z - 1 /\ i + (c + 1 - e) <= Len(y)
    BY <1>3, <1>5, <1>7, <1>9
  <2>3. \A k \in 1 .. c + 1 - e : i + k \in 1 .. Len(y) /\ (i + k) + 1 = a + k
    BY <1>3, <1>5, <1>7, <1>9
  <2>4. \A k \in 1 .. c + 1 - e : y[i + k] = d[e + k]
    BY <1>3, <1>7, <2>3, Zenon
  <2>5. ASSUME NEW k \in 1 .. Len(y), k <= i \/ k > i + (c + 1 - e) PROVE y[k].ns # n
    <3>1. k + 1 \in 1 .. Len(r) /\ (k + 1 <= a \/ k + 1 > z)
      BY <1>5, <1>7, <2>2, <2>5
    <3>2. r[k + 1].ns # n
      BY <1>3, <3>1
    <3> QED  BY <1>7, <3>2, Zenon
  <2> HIDE DEF i
  <2>6. Logged(n, w, o, y, lk, g, e, i)
    BY <1>3, <2>2, <2>4, <2>5, Zenon DEF Logged, t, b, c, d
  <2>7. Coming(n, w, o, q, y, lk)
    BY <1>2, <2>2, <2>6, Zenon DEF Coming
  <2> QED  BY <2>1, <2>7, Zenon DEF y
<1>10. CASE a = 0 /\ e < c
  <2> DEFINE i == e + 1
             v == Head(r).text
             h == Heard(w, v)
  <2>1. i \in Nat /\ i \in 1 .. c /\ 1 \in 1 .. c + 1 - e /\ a + 1 = 1
    BY <1>5, <1>10
  <2>2. Head(r) = d[i]
    <3>1. r[a + 1] = d[e + 1]
      BY <1>3, <2>1
    <3> QED  BY <1>7, <2>1, <3>1, Zenon
  <2>3. Head(r).ns = n /\ Head(r).end = FALSE /\ v = b[i]
    BY <1>5, <2>1, <2>2, Zenon
  <2>4. h.target = t /\ h.got = SubSeq(b, 1, i)
    <3> HIDE DEF v
    <3>1. h.target = w.target /\ h.got = Append(w.got, v)
      BY <1>0 DEF Heard, Asked
    <3>2. Append(SubSeq(b, 1, e), b[i]) = SubSeq(b, 1, i)
      BY <1>6, <1>8, <2>1, <1>10
    <3> HIDE DEF h, i
    <3> QED  BY <1>3, <2>3, <3>1, <3>2, Zenon DEF t
  <2>5. i <= c /\ 0 + (c + 1 - i) <= Len(y) /\ 0 \in Nat
    BY <1>3, <1>5, <1>7, <1>10
  <2>6. ASSUME NEW k \in 1 .. c + 1 - i PROVE y[0 + k] = d[i + k]
    <3> DEFINE l == k + 1
    <3>1. /\ k \in 1 .. Len(y) /\ 0 + k = k /\ a + l = k + 1 /\ e + l = i + k
          /\ l \in 1 .. c + 1 - e
      BY <1>3, <1>5, <1>7, <1>10
    <3>2. r[a + l] = d[e + l]
      BY <1>3, <3>1
    <3> QED  BY <1>7, <3>1, <3>2, Zenon
  <2>7. ASSUME NEW k \in 1 .. Len(y), k <= 0 \/ k > 0 + (c + 1 - i) PROVE y[k].ns # n
    <3>1. k + 1 \in 1 .. Len(r) /\ k + 1 > z
      BY <1>5, <1>7, <1>10, <2>7
    <3>2. r[k + 1].ns # n
      BY <1>3, <3>1
    <3> QED  BY <1>7, <3>2, Zenon
  <2> HIDE DEF i, h
  <2>8. Logged(n, h, o, y, lk, g, i, 0)
    <3>1. Right(h.target, g, o, lk)
      BY <1>3, <2>4
    <3> QED  BY <2>4, <2>5, <2>6, <2>7, <3>1, Zenon DEF Logged, b, c, d
  <2>9. Coming(n, h, o, q, y, lk)
    BY <1>2, <2>1, <2>5, <2>8, Zenon DEF Coming
  <2> QED  BY <2>3, <2>9, Zenon DEF y, h
<1>11. CASE a = 0 /\ e >= c
  <2>1. e = c /\ 1 \in 1 .. c + 1 - e /\ a + 1 = 1 /\ e + 1 = c + 1 /\ z = 1
    BY <1>3, <1>5, <1>11
  <2>2. Head(r) = d[c + 1]
    <3>1. r[a + 1] = d[e + 1]
      BY <1>3, <2>1
    <3> QED  BY <1>7, <2>1, <3>1, Zenon
  <2>3. Head(r).ns = n /\ Head(r).end = TRUE
    BY <1>5, <2>2, Zenon
  <2>4. Free(y, n)
    <3>1. \A k \in 1 .. Len(y) : k + 1 \in 1 .. Len(r) /\ k + 1 > z /\ y[k] = r[k + 1]
      BY <1>7, <2>1
    <3> HIDE DEF z
    <3> QED  BY <1>3, <3>1, Zenon DEF Free
  <2>5. w.got = b
    <3>1. SubSeq(b, 1, c) = b
      BY <1>6, <1>8
    <3> QED  BY <1>3, <2>1, <3>1
  <2>6. Exempt(t, lk) \/ w.got \in o
    BY <1>3, <2>5, Zenon DEF Right, b
  <2> QED  BY <1>2, <2>3, <2>4, <2>6, Zenon DEF t, y
<1> QED  BY <1>3, <1>5, <1>9, <1>10, <1>11

(* What is sent for other namespaces, or is no script, does not matter. *)
Elsewhere(n, q, s, x, sn, rq, ow, rp, op) ==
  /\ q \in Seq(Messages) /\ s \in Seq(Messages) /\ (x = q \/ x = q \o s)
  /\ Silent(s, n) /\ \A k \in 1 .. Len(s) : s[k].kind # "save"
  /\ \A i \in Requests : sn = <<i>> => rq[i] \in Asked /\ rp[i] = rq[i] /\ op[i] = ow[i]

(* What a namespace waits for stays where it is. *)
LEMMA TrackedMore ==
  ASSUME NEW n, NEW q, NEW s, NEW x, NEW r, NEW sn, NEW cn, NEW rq, NEW ow, NEW rp, NEW op,
         NEW f, NEW lk,
         Tracked(n, q, r, sn, cn, rq, ow, f, lk), Elsewhere(n, q, s, x, sn, rq, ow, rp, op)
  PROVE  Tracked(n, x, r, sn, cn, rp, op, f, lk)
<1>0. /\ q \in Seq(Messages) /\ s \in Seq(Messages) /\ (x = q \/ x = q \o s)
      /\ Silent(s, n) /\ \A k \in 1 .. Len(s) : s[k].kind # "save"
      /\ \A i \in Requests : sn = <<i>> => rq[i] \in Asked /\ rp[i] = rq[i] /\ op[i] = ow[i]
  BY Zenon DEF Elsewhere
<1>1. CASE Quiet(n, q, r, sn)
  <2>1. Silent(x, n)
    <3>1. Silent(q, n)
      BY <1>1, Zenon DEF Quiet
    <3>2. Silent(q \o s, n)
      BY <1>0, <3>1, SilentMore, Zenon
    <3> QED  BY <1>0, <3>1, <3>2, Zenon
  <2> QED  BY <1>1, <2>1, Zenon DEF Quiet, Tracked
<1>2. CASE ~Quiet(n, q, r, sn)
  <2>1. PICK i \in Requests :
          /\ cn /\ sn = <<i>>
          /\ Sent(n, rq[i], ow[i], q, r, f, lk) \/ Coming(n, rq[i], ow[i], q, r, lk)
    BY <1>2, Zenon DEF Tracked
  <2> DEFINE w == rq[i]
             o == ow[i]
  <2>2. w \in Asked /\ rp[i] = w /\ op[i] = o
    BY <1>0, <2>1
  <2>3. Sent(n, w, o, q, r, f, lk) \/ Coming(n, w, o, q, r, lk)
    BY <2>1
  <2> HIDE DEF w, o
  <2>4. ASSUME Sent(n, w, o, q, r, f, lk) PROVE Sent(n, w, o, x, r, f, lk)
    <3>1. Sent(n, w, o, q \o s, r, f, lk)
      BY <1>0, <2>2, <2>4, SentMore, Zenon
    <3> QED  BY <1>0, <2>4, <3>1, Zenon
  <2>5. ASSUME Coming(n, w, o, q, r, lk) PROVE Coming(n, w, o, x, r, lk)
    <3>1. Silent(q, n)
      BY <2>5, Zenon DEF Coming
    <3>2. Silent(q \o s, n)
      BY <1>0, <3>1, SilentMore, Zenon
    <3>3. Silent(x, n)
      BY <1>0, <3>1, <3>2, Zenon
    <3> QED  BY <2>5, <3>3, Zenon DEF Coming
  <2>6. Sent(n, rp[i], op[i], x, r, f, lk) \/ Coming(n, rp[i], op[i], x, r, lk)
    BY <2>2, <2>3, <2>4, <2>5, Zenon
  <2> QED  BY <2>1, <2>6, Zenon DEF Tracked
<1> QED  BY <1>1, <1>2

(* The one who is subscribed waits for an answer in that namespace. *)
LEMMA Waiter ==
  ASSUME Subscribed, NEW n \in Namespaces, NEW i \in Requests, subs[n] = <<i>>
  PROVE  request[i] \in Asked /\ Ns(request[i].target) = n /\ request[i] # Idle
<1>1. Subscribers(<<i>>, request, n)
  BY Zenon DEF Subscribed
<1>2. 1 \in 1 .. Len(<<i>>) /\ <<i>>[1] = i
  OBVIOUS
<1>3. request[i] \in Asked /\ Ns(request[i].target) = n
  BY <1>1, <1>2, Zenon DEF Subscribers
<1> QED  BY <1>3, NotIdle, Zenon

FollowType == TypeOK /\ AnswerTypeOK /\ Subscribed /\ Following

Follow(n) == Tracked(n, toMod, fromMod, subs[n], connected, request, owed, files, leaked)

(* A request is followed from when it is made. *)
LEMMA RequestFollowed ==
  ASSUME FollowType, NEW n \in Namespaces, n \notin spoiled',
         NEW j \in Requests, NEW t \in Targets, Request(j, t)
  PROVE  Follow(n)'
<1> DEFINE m == [kind |-> "exec", target |-> t]
           s == <<m>>
           w == [target |-> t, got |-> <<>>]
<1>0. /\ toMod \in Seq(Messages) /\ fromMod \in Seq(Replies) /\ connected \in BOOLEAN
      /\ subs \in [Namespaces -> Seq(Requests)] /\ request \in [Requests -> Asked \cup {Idle}]
      /\ owed \in [Requests -> SUBSET Seq(Answers)] /\ Subscribed
  BY DEF FollowType, TypeOK, AnswerTypeOK
<1>1. /\ request[j] = Idle /\ request' = [request EXCEPT ![j] = w]
      /\ owed' = [owed EXCEPT ![j] = {Answer(t, InForce)}]
      /\ subs' = [subs EXCEPT ![Ns(t)] = Append(@, j)]
      /\ toMod' = IF connected THEN toMod \o s ELSE toMod
      /\ fromMod' = fromMod /\ connected' = connected /\ UNCHANGED modVars
      /\ spoiled' = IF connected /\ subs[Ns(t)] = <<>> THEN spoiled ELSE spoiled \cup {Ns(t)}
  BY Zenon DEF Request, Send
<1>2. files' = files /\ leaked' = leaked
  BY <1>1 DEF modVars
<1>3. Follow(n)
  <2>1. n \notin spoiled
    BY <1>1
  <2> QED  BY <2>1, Zenon DEF FollowType, Following, Follow
<1> DEFINE sn == subs[n]
<1>4. CASE Ns(t) = n
  <2>1. connected /\ sn = <<>>
    BY <1>1, <1>4
  <2>2. Quiet(n, toMod, fromMod, sn)
    <3>1. \A i \in Requests : sn # <<i>>
      BY <2>1
    <3> QED  BY <1>3, <3>1, Zenon DEF Follow, Tracked
  <2>3. Silent(toMod, Ns(t)) /\ Free(fromMod, Ns(t))
    BY <1>4, <2>2, Zenon DEF Quiet
  <2> DEFINE g == InForce
  <2>4. g \in Disks /\ \A p \in Paths \ leaked : g[p] = Latest(files[p], toMod, Len(toMod), p)
    BY InForceIs, Zenon DEF FollowType
  <2> HIDE DEF g
  <2>5. Sent(Ns(t), w, {Answer(t, g)}, toMod \o s, fromMod, files, leaked)
    BY <1>0, <2>3, <2>4, SentNow, Zenon
  <2>6. subs'[n] = <<j>>
    <3>1. subs'[n] = Append(sn, j)
      BY <1>0, <1>1, <1>4
    <3> QED  BY <2>1, <3>1
  <2>7. request'[j] = w /\ owed'[j] = {Answer(t, g)}
    <3> HIDE DEF w
    <3> QED  BY <1>0, <1>1 DEF g
  <2> HIDE DEF w, s
  <2>8. Sent(n, request'[j], owed'[j], toMod', fromMod', files', leaked')
    BY <1>1, <1>2, <1>4, <2>1, <2>5, <2>7, Zenon
  <2>9. Tracked(n, toMod', fromMod', subs'[n], connected', request', owed', files', leaked')
    BY <1>1, <2>1, <2>6, <2>8, Zenon DEF Tracked
  <2> QED  BY <2>9, Zenon DEF Follow, Tracked, Quiet, Sent, Coming
<1>5. CASE Ns(t) # n
  <2>1. s \in Seq(Messages) /\ \A k \in 1 .. Len(s) : s[k] = m
    BY DEF Messages, Execs
  <2>2. m.kind # "save" /\ ~Asks(m, n)
    BY <1>5 DEF Asks
  <2> HIDE DEF s, m, w
  <2>3. Silent(s, n) /\ \A k \in 1 .. Len(s) : s[k].kind # "save"
    BY <2>1, <2>2, Zenon DEF Silent
  <2>4. subs'[n] = sn
    BY <1>0, <1>1, <1>5
  <2>5. ASSUME NEW i \in Requests, sn = <<i>>
        PROVE  request[i] \in Asked /\ request'[i] = request[i] /\ owed'[i] = owed[i]
    <3>1. request[i] \in Asked /\ request[i] # Idle
      BY <1>0, <2>5, Waiter, Zenon
    <3>2. i # j
      BY <1>1, <3>1
    <3> QED  BY <1>0, <1>1, <3>1, <3>2
  <2>6. toMod' = toMod \/ toMod' = toMod \o s
    BY <1>1
  <2> HIDE DEF sn
  <2>7. Tracked(n, toMod, fromMod, sn, connected, request, owed, files, leaked)
    BY <1>3, Zenon DEF Follow, sn
  <2>8. Tracked(n, toMod', fromMod, sn, connected, request', owed', files, leaked)
    <3>1. Elsewhere(n, toMod, s, toMod', sn, request, owed, request', owed')
      BY <1>0, <2>1, <2>3, <2>5, <2>6, Zenon DEF Elsewhere
    <3> QED  BY <2>7, <3>1, TrackedMore, Zenon
  <2>9. Tracked(n, toMod', fromMod', subs'[n], connected', request', owed', files', leaked')
    BY <1>1, <1>2, <2>4, <2>8, Zenon
  <2> QED  BY <2>9, Zenon DEF Follow, Tracked, Quiet, Sent, Coming
<1> QED  BY <1>4, <1>5

(* What the state says of a namespace *)
LEMMA FollowNow ==
  ASSUME FollowType, NEW n \in Namespaces, n \notin spoiled
  PROVE  Tracked(n, toMod, fromMod, subs[n], connected, request, owed, files, leaked)
BY Zenon DEF FollowType, Following

(* It is followed through what else is sent, *)
LEMMA OtherFollowed ==
  ASSUME FollowType, NEW n \in Namespaces, n \notin spoiled',
         Button \/ \E len \in Lengths : Upload(len)
  PROVE  Follow(n)'
<1>0. toMod \in Seq(Messages) /\ upload \in 0 .. 1 /\ Subscribed
  BY DEF FollowType, TypeOK
<1>1. \E s \in Seq(Messages) :
        /\ toMod' = toMod \/ toMod' = toMod \o s
        /\ Silent(s, n) /\ \A k \in 1 .. Len(s) : s[k].kind # "save"
        /\ UNCHANGED <<connected, fromMod, webVars, modVars, spoiled>>
  <2>1. CASE Button
    <3> DEFINE m == [kind |-> "exec", target |-> NoFile]
               s == <<m>>
    <3>1. s \in Seq(Messages) /\ \A k \in 1 .. Len(s) : s[k] = m
      BY DEF Messages, Execs
    <3>2. m.kind # "save" /\ ~Asks(m, n)
      <4>1. NoFile \notin Targets
        BY FileAssumption DEF Targets
      <4> QED  BY <4>1 DEF Asks
    <3>3. /\ toMod' = IF connected THEN toMod \o s ELSE toMod
          /\ UNCHANGED <<connected, fromMod, webVars, modVars, spoiled>>
      BY <2>1, Zenon DEF Button, Send
    <3> HIDE DEF s, m
    <3>4. Silent(s, n) /\ \A k \in 1 .. Len(s) : s[k].kind # "save"
      BY <3>1, <3>2, Zenon DEF Silent
    <3> QED  BY <3>1, <3>3, <3>4, Zenon
  <2>2. ASSUME NEW len \in Lengths, Upload(len)
        PROVE  \E s \in Seq(Messages) :
                 /\ toMod' = toMod \/ toMod' = toMod \o s
                 /\ Silent(s, n) /\ \A k \in 1 .. Len(s) : s[k].kind # "save"
                 /\ UNCHANGED <<connected, fromMod, webVars, modVars, spoiled>>
    <3>1. upload' = 1 - upload
      BY <2>2, Zenon DEF Upload
    <3>2. PICK u \in 0 .. 1 : upload' = u
      BY <1>0, <3>1
    <3> DEFINE s == Pieces(len, u)
    <3>3. s \in Seq(Chunks)
      BY PiecesAre, Zenon
    <3>4. /\ toMod' = IF connected THEN toMod \o s ELSE toMod
          /\ UNCHANGED <<connected, fromMod, webVars, modVars, spoiled>>
      BY <2>2, <3>2, Zenon DEF Upload, Send
    <3> HIDE DEF s
    <3>5. s \in Seq(Messages) /\ \A k \in 1 .. Len(s) : s[k].kind = "chunk"
      <4>1. \A m \in Chunks : m \in Messages /\ m.kind = "chunk"
        BY DEF Messages, Chunks
      <4> QED  BY <3>3, <4>1
    <3>6. Silent(s, n) /\ \A k \in 1 .. Len(s) : s[k].kind # "save"
      BY <3>5 DEF Silent, Asks
    <3> QED  BY <3>4, <3>5, <3>6, Zenon
  <2> QED  BY <2>1, <2>2
<1>2. PICK s \in Seq(Messages) :
        /\ toMod' = toMod \/ toMod' = toMod \o s
        /\ Silent(s, n) /\ \A k \in 1 .. Len(s) : s[k].kind # "save"
        /\ UNCHANGED <<connected, fromMod, webVars, modVars, spoiled>>
  BY <1>1
<1>3. /\ connected' = connected /\ fromMod' = fromMod /\ subs' = subs /\ request' = request
      /\ owed' = owed /\ files' = files /\ leaked' = leaked /\ spoiled' = spoiled
  BY <1>2 DEF webVars, modVars
<1>4. Tracked(n, toMod, fromMod, subs[n], connected, request, owed, files, leaked)
  BY <1>3, FollowNow
<1>5. \A i \in Requests : subs[n] = <<i>> => request[i] \in Asked
  BY <1>0, Waiter, Zenon
<1>6. Elsewhere(n, toMod, s, toMod', subs[n], request, owed, request, owed)
  BY <1>0, <1>2, <1>5, Zenon DEF Elsewhere
<1>7. Tracked(n, toMod', fromMod, subs[n], connected, request, owed, files, leaked)
  BY <1>4, <1>6, TrackedMore, Zenon
<1>8. Tracked(n, toMod', fromMod', subs'[n], connected', request', owed', files', leaked')
  BY <1>3, <1>7
<1> QED  BY <1>8, Zenon DEF Follow, Tracked, Quiet, Sent, Coming

(* when something is saved, *)
LEMMA SaveFollowed ==
  ASSUME FollowType, NEW n \in Namespaces, n \notin spoiled',
         NEW p \in Paths, NEW c \in Contents, Save(p, c)
  PROVE  Follow(n)'
<1> DEFINE m == [kind |-> "save", path |-> p, text |-> c]
           g == InForce
           more(i) == owed[i] \cup {Answer(request[i].target, [g EXCEPT ![p] = c])}
<1>0. toMod \in Seq(Messages) /\ fromMod \in Seq(Replies) /\ Subscribed
  BY DEF FollowType, TypeOK, AnswerTypeOK
<1>1. /\ connected /\ connected' = connected /\ toMod' = toMod \o <<m>> /\ fromMod' = fromMod
      /\ owed' = [i \in Requests |-> IF i \in Waiting THEN more(i) ELSE {}]
      /\ subs' = subs /\ request' = request /\ UNCHANGED modVars /\ spoiled' = spoiled
  BY Zenon DEF Save, Send
<1>2. files' = files /\ leaked' = leaked
  BY <1>1 DEF modVars
<1>3. Tracked(n, toMod, fromMod, subs[n], connected, request, owed, files, leaked)
  BY <1>1, FollowNow
<1>4. m \in Messages /\ ~Asks(m, n)
  BY DEF Messages, Saves, Asks
<1>5. ASSUME Silent(toMod, n) PROVE Silent(toMod', n)
  <2> DEFINE s == <<m>>
  <2>1. s \in Seq(Messages) /\ \A k \in 1 .. Len(s) : s[k] = m
    BY <1>4
  <2> HIDE DEF s, m
  <2>2. Silent(s, n)
    BY <1>4, <2>1, Zenon DEF Silent
  <2>3. Silent(toMod \o s, n)
    BY <1>0, <1>5, <2>1, <2>2, SilentMore, Zenon
  <2> QED  BY <1>1, <2>3 DEF s
<1>6. g \in Disks /\ \A y \in Paths \ leaked : g[y] = Latest(files[y], toMod, Len(toMod), y)
  BY InForceIs, Zenon DEF FollowType
<1> HIDE DEF g
<1>7. CASE Quiet(n, toMod, fromMod, subs[n])
  <2>1. Quiet(n, toMod', fromMod', subs'[n])
    BY <1>1, <1>5, <1>7, Zenon DEF Quiet
  <2> QED  BY <2>1, Zenon DEF Follow, Tracked, Quiet
<1>8. CASE ~Quiet(n, toMod, fromMod, subs[n])
  <2>1. PICK i \in Requests :
          /\ subs[n] = <<i>>
          /\ \/ Sent(n, request[i], owed[i], toMod, fromMod, files, leaked)
             \/ Coming(n, request[i], owed[i], toMod, fromMod, leaked)
    BY <1>3, <1>8, Zenon DEF Tracked
  <2> DEFINE w == request[i]
             o == owed[i]
             u == o \cup {Answer(w.target, [g EXCEPT ![p] = c])}
  <2>2. w \in Asked /\ w # Idle
    BY <1>0, <2>1, Waiter, Zenon
  <2>3. owed'[i] = u /\ request'[i] = w
    <3>1. i \in Waiting
      BY <2>2 DEF Waiting
    <3> HIDE DEF more
    <3>2. owed'[i] = more(i)
      BY <1>1, <3>1
    <3> QED  BY <1>1, <3>2 DEF more
  <2>4. Sent(n, w, o, toMod, fromMod, files, leaked) \/ Coming(n, w, o, toMod, fromMod, leaked)
    BY <2>1
  <2>5. ASSUME Sent(n, w, o, toMod, fromMod, files, leaked)
        PROVE  Sent(n, w, u, toMod', fromMod, files, leaked)
    <3> HIDE DEF w, o
    <3>1. Sent(n, w, u, toMod \o <<m>>, fromMod, files, leaked)
      BY <1>0, <1>6, <2>2, <2>5, SentSave, Zenon
    <3> QED  BY <1>1, <3>1, Zenon
  <2>6. o \subseteq u
    OBVIOUS
  <2> HIDE DEF w, o, u
  <2>7. ASSUME Coming(n, w, o, toMod, fromMod, leaked)
        PROVE  Coming(n, w, u, toMod', fromMod, leaked)
    <3> DEFINE z == <<>>
    <3>1. fromMod \o z = fromMod /\ z \in Seq(Replies) /\ Len(z) = 0 /\ 1 .. 0 = {} /\ leaked \subseteq leaked
      BY <1>0
    <3> HIDE DEF z
    <3>2. Free(z, n)
      BY <3>1, Zenon DEF Free
    <3>3. Silent(toMod', n)
      BY <1>5, <2>7, Zenon DEF Coming
    <3>4. Coming(n, w, u, toMod', fromMod \o z, leaked)
      BY <1>0, <2>2, <2>6, <2>7, <3>1, <3>2, <3>3, ComingMore, Zenon
    <3> QED  BY <3>1, <3>4, Zenon
  <2>8. \/ Sent(n, request'[i], owed'[i], toMod', fromMod', files', leaked')
        \/ Coming(n, request'[i], owed'[i], toMod', fromMod', leaked')
    BY <1>1, <1>2, <2>3, <2>4, <2>5, <2>7, Zenon
  <2>9. Tracked(n, toMod', fromMod', subs'[n], connected', request', owed', files', leaked')
    BY <1>1, <2>1, <2>8, Zenon DEF Tracked
  <2> QED  BY <2>9, Zenon DEF Follow, Tracked, Quiet, Sent, Coming
<1> QED  BY <1>7, <1>8

(* and when the connection is lost, for nobody waits then, or opened again. *)
LEMMA LoseFollowed ==
  ASSUME FollowType, NEW n \in Namespaces, n \notin spoiled', Lose \/ Reopen
  PROVE  Follow(n)'
<1>0. toMod \in Seq(Messages) /\ Subscribed /\ <<>> \in Seq(Replies) /\ Len(<<>>) = 0 /\ 1 .. 0 = {}
  BY DEF FollowType, TypeOK
<1>1. /\ fromMod' = <<>> /\ UNCHANGED <<webVars, modVars>>
      /\ \/ spoiled' = spoiled \cup {Ns(request[i].target) : i \in Waiting}
         \/ spoiled' = spoiled /\ ~connected
  BY Zenon DEF Lose, Reopen
<1>2. subs' = subs
  BY <1>1 DEF webVars
<1>3. Tracked(n, toMod, fromMod, subs[n], connected, request, owed, files, leaked)
  <2>1. n \notin spoiled
    BY <1>1
  <2> QED  BY <2>1, FollowNow
<1>4. Quiet(n, toMod, fromMod, subs[n])
  <2> SUFFICES ASSUME ~Quiet(n, toMod, fromMod, subs[n]) PROVE FALSE
    OBVIOUS
  <2>1. PICK i \in Requests : connected /\ subs[n] = <<i>>
    BY <1>3, Zenon DEF Tracked
  <2>2. Ns(request[i].target) = n /\ request[i] # Idle
    BY <1>0, <2>1, Waiter, Zenon
  <2>3. n \in {Ns(request[j].target) : j \in Waiting}
    BY <2>2 DEF Waiting
  <2> QED  BY <1>1, <2>1, <2>3
<1>5. Silent(toMod', n)
  <2>1. Silent(toMod, n)
    BY <1>4, Zenon DEF Quiet
  <2>2. toMod' = toMod \/ \E e \in 0 .. Len(toMod) : toMod' = SubSeq(toMod, 1, e)
    BY Zenon DEF Lose, Reopen
  <2>3. ASSUME NEW e \in 0 .. Len(toMod) PROVE Silent(SubSeq(toMod, 1, e), n)
    BY <1>0, <2>1, SilentFirst, Zenon
  <2> QED  BY <2>1, <2>2, <2>3, Zenon
<1>6. Quiet(n, toMod', fromMod', subs'[n])
  <2>1. Free(fromMod', n)
    BY <1>0, <1>1, Zenon DEF Free
  <2> QED  BY <1>2, <1>4, <1>5, <2>1, Zenon DEF Quiet
<1> QED  BY <1>6, Zenon DEF Follow, Tracked, Quiet

(* Either one script of the frame has asked in the namespace, and no other    *)
(* has run, or none has, and then nothing is logged in it.                    *)
LEMMA FrameAsks ==
  ASSUME FollowType, NEW n \in Namespaces, n \notin spoiled',
         NEW e \in 1 .. Len(toMod), FrameOf(e), Arrived(e).files \in Disks
  PROVE  \/ \E j \in 1 .. e :
              /\ Asks(toMod[j], n) /\ \A k \in 1 .. e : toMod[k].kind = "exec" => k = j
              /\ fromMod' = IF connected
                            THEN fromMod \o Dump(toMod[j].target, Arrived(e).files) ELSE <<>>
         \/ /\ \A k \in 1 .. e : ~Asks(toMod[k], n)
            /\ \/ fromMod' = <<>> /\ ~connected
               \/ \E s \in Seq(Replies) : Free(s, n) /\ fromMod' = fromMod \o s
<1> DEFINE S == Scripts(e)
           N == Cardinality(S)
           t == First(e)
           g == Arrived(e).files
<1>0. e \in Nat /\ toMod \in Seq(Messages) /\ fromMod \in Seq(Replies)
  BY DEF FollowType, TypeOK, AnswerTypeOK
<1>1. S \in SUBSET (1 .. e) /\ IsFiniteSet(S) /\ N \in Nat
  <2>1. S \in SUBSET (1 .. e)
    BY DEF Scripts
  <2>2. IsFiniteSet(S) /\ N \in 0 .. e
    BY <1>0, <2>1, Few, Zenon
  <2> QED  BY <1>0, <2>1, <2>2
<1>2. \A k \in 1 .. e : toMod[k].kind = "exec" => k \in S
  BY DEF Scripts
<1>3. \A k \in S : toMod[k].kind = "exec"
  BY DEF Scripts
<1>4. /\ spoiled' = IF N = 1 THEN spoiled ELSE spoiled \cup Asking(S)
      /\ \/ N = 0 /\ fromMod' = fromMod
         \/ N # 0 /\ fromMod' = IF connected THEN fromMod \o Times(N, Log(t, g)) ELSE <<>>
      /\ t = toMod[Min(S)].target
  BY Zenon DEF FrameOf, First
<1> HIDE DEF S
<1>5. CASE \E j \in 1 .. e : Asks(toMod[j], n)
  <2>1. PICK j \in 1 .. e : Asks(toMod[j], n)
    BY <1>5
  <2>2. /\ j \in S /\ toMod[j].target \in Targets /\ Ns(toMod[j].target) = n
    BY <1>2, <2>1, Zenon DEF Asks
  <2>3. n \in Asking(S)
    BY <2>2 DEF Asking
  <2>4. N = 1
    BY <1>4, <2>3
  <2>5. S = {j}
    <3>1. PICK x : S = {x}
      BY <1>1, <2>4, FS_Singleton
    <3> QED  BY <2>2, <3>1
  <2>6. Min(S) = j
    <3>1. Min(S) \in S
      <4>1. j \in S /\ \A y \in S : j <= y
        BY <1>0, <2>5
      <4> QED  BY <4>1, Zenon DEF Min
    <3> QED  BY <2>5, <3>1
  <2>7. t = toMod[j].target
    BY <1>4, <2>6, Zenon
  <2> DEFINE d == Dump(toMod[j].target, g)
  <2>8. Log(t, g) = d
    BY <2>2, <2>7, Zenon DEF Log
  <2>9. d \in Seq(Replies)
    BY <2>2, DumpIs, Zenon
  <2>10. Times(N, Log(t, g)) = d
    <3> HIDE DEF d, t, N
    <3>1. Times(1, d) = d
      <4>1. 1 \in Nat
        OBVIOUS
      <4> QED  BY <2>9, <4>1, TimesIs, Zenon
    <3> QED  BY <2>4, <2>8, <3>1, Zenon
  <2>11. fromMod' = IF connected THEN fromMod \o d ELSE <<>>
    <3>1. N # 0
      BY <2>4
    <3> HIDE DEF d, t, N
    <3> QED  BY <1>4, <2>10, <3>1, Zenon
  <2>12. \A k \in 1 .. e : toMod[k].kind = "exec" => k = j
    BY <1>2, <2>5
  <2> QED  BY <2>1, <2>11, <2>12, Zenon
<1>6. CASE \A j \in 1 .. e : ~Asks(toMod[j], n)
  <2>1. CASE N = 0
    <3> DEFINE s == <<>>
    <3>1. s \in Seq(Replies) /\ 1 .. Len(s) = {} /\ fromMod \o s = fromMod
      BY <1>0
    <3>2. fromMod' = fromMod
      BY <1>4, <2>1
    <3> HIDE DEF s
    <3>3. Free(s, n)
      BY <3>1, Zenon DEF Free
    <3> QED  BY <1>6, <3>1, <3>2, <3>3, Zenon
  <2>2. CASE N # 0
    <3> DEFINE s == Times(N, Log(t, g))
    <3>1. s \in Seq(Replies) /\ \A k \in 1 .. Len(s) : t \in Targets /\ s[k].ns = Ns(t)
      BY <1>1, LogIs, Zenon
    <3>2. Min(S) \in S
      <4>1. S # {}
        <5>1. S = {} => N = 0
          BY FS_EmptySet
        <5> QED  BY <2>2, <5>1
      <4>2. PICK x \in S : \A y \in S : x <= y
        <5>1. S \subseteq Nat
          BY <1>0, <1>1
        <5> QED  BY <4>1, <5>1, LeastNat
      <4> QED  BY <4>2, Zenon DEF Min
    <3>3. Min(S) \in 1 .. e /\ toMod[Min(S)].kind = "exec"
      BY <1>1, <1>3, <3>2, Zenon
    <3>4. t \in Targets => Ns(t) # n
      BY <1>4, <1>6, <3>3, Zenon DEF Asks
    <3> HIDE DEF s, t
    <3>5. Free(s, n)
      BY <3>1, <3>4, Zenon DEF Free
    <3>6. fromMod' = IF connected THEN fromMod \o s ELSE <<>>
      BY <1>4, <2>2, Zenon DEF s, t
    <3> QED  BY <1>6, <3>1, <3>5, <3>6, Zenon
  <2> QED  BY <2>1, <2>2
<1> QED  BY <1>5, <1>6

(* It is followed through a frame. *)
LEMMA FrameFollowed ==
  ASSUME FollowType, NEW n \in Namespaces, n \notin spoiled', Frame
  PROVE  Follow(n)'
<1>0. /\ toMod \in Seq(Messages) /\ fromMod \in Seq(Replies) /\ connected \in BOOLEAN /\ Subscribed
      /\ TypeOK /\ files \in Disks
  BY DEF FollowType, TypeOK, AnswerTypeOK
<1>1. PICK e \in 1 .. Len(toMod) :
        /\ FrameOf(e) /\ Arrived(e).files \in Disks
        /\ \A p \in Paths \ leaked : Arrived(e).files[p] = Latest(files[p], toMod, e, p)
  BY <1>0, FrameIs, Zenon
<1>2. /\ toMod' = SubSeq(toMod, e + 1, Len(toMod)) /\ files' = Arrived(e).files
      /\ connected' = connected /\ subs' = subs /\ request' = request /\ owed' = owed
  BY <1>1, Zenon DEF FrameOf
<1>3. leaked \subseteq leaked'
  <2>1. leaked' = leaked \/ leaked' = leaked \cup {First(e)}
    BY <1>1, Zenon DEF FrameOf
  <2> QED  BY <2>1
<1>4. n \notin spoiled
  <2>1. spoiled' = spoiled \/ spoiled' = spoiled \cup Asking(Scripts(e))
    BY <1>1, Zenon DEF FrameOf
  <2> QED  BY <2>1
<1>5. Tracked(n, toMod, fromMod, subs[n], connected, request, owed, files, leaked)
  BY <1>4, FollowNow
<1>6. SUFFICES Tracked(n, toMod', fromMod', subs'[n], connected', request', owed', files', leaked')
  BY Zenon DEF Follow, Tracked, Quiet, Sent, Coming
<1> DEFINE g == Arrived(e).files
           q == SubSeq(toMod, e + 1, Len(toMod))
<1>7. g \in Disks /\ \A p \in Paths \ leaked : g[p] = Latest(files[p], toMod, e, p)
  BY <1>1, Zenon
<1> HIDE DEF g, q
<1>8. CASE \E j \in 1 .. e :
              /\ Asks(toMod[j], n) /\ \A k \in 1 .. e : toMod[k].kind = "exec" => k = j
              /\ fromMod' = IF connected THEN fromMod \o Dump(toMod[j].target, g) ELSE <<>>
  <2>1. PICK j \in 1 .. e :
          /\ Asks(toMod[j], n) /\ \A k \in 1 .. e : toMod[k].kind = "exec" => k = j
          /\ fromMod' = IF connected THEN fromMod \o Dump(toMod[j].target, g) ELSE <<>>
    BY <1>8
  <2>2. j \in 1 .. Len(toMod)
    BY <1>0
  <2>3. ~Silent(toMod, n)
    BY <2>1, <2>2, Zenon DEF Silent
  <2>4. PICK i \in Requests :
          /\ connected /\ subs[n] = <<i>>
          /\ Sent(n, request[i], owed[i], toMod, fromMod, files, leaked)
    BY <1>5, <2>3, Zenon DEF Tracked, Quiet, Coming
  <2> DEFINE w == request[i]
             o == owed[i]
  <2>5. w \in Asked
    BY <1>0, <2>4, Waiter, Zenon
  <2>6. Sent(n, w, o, toMod, fromMod, files, leaked)
    BY <2>4
  <2> HIDE DEF w, o
  <2>7. /\ toMod[j].target = w.target
        /\ Coming(n, w, o, q, fromMod \o Dump(w.target, g), leaked')
    <3> DEFINE ll == leaked'
    <3>1. leaked \subseteq ll /\ Alone(toMod, e, j, n) /\ Current(g, files, toMod, e, leaked)
      BY <1>3, <1>7, <2>1, Zenon DEF Alone, Current
    <3> HIDE DEF ll
    <3>2. /\ toMod[j].target = w.target
          /\ Coming(n, w, o, SubSeq(toMod, e + 1, Len(toMod)), fromMod \o Dump(w.target, g), ll)
      BY <1>0, <1>7, <2>5, <2>6, <3>1, LoggedNow, Zenon
    <3> QED  BY <3>2, Zenon DEF q, ll
  <2>8. Coming(n, request'[i], owed'[i], toMod', fromMod', leaked')
    BY <1>2, <2>1, <2>4, <2>7, Zenon DEF w, o, q
  <2> QED  BY <1>2, <2>4, <2>8, Zenon DEF Tracked
<1>9. CASE /\ \A k \in 1 .. e : ~Asks(toMod[k], n)
           /\ \/ fromMod' = <<>> /\ ~connected
              \/ \E s \in Seq(Replies) : Free(s, n) /\ fromMod' = fromMod \o s
  <2>1. ASSUME Silent(toMod, n) PROVE Silent(q, n)
    BY <1>0, <2>1, SilentRest, Zenon DEF q
  <2>2. ASSUME Free(fromMod, n) PROVE Free(fromMod', n)
    <3>1. CASE fromMod' = <<>>
      <4>1. 1 .. Len(<<>>) = {}
        OBVIOUS
      <4> QED  BY <3>1, <4>1, Zenon DEF Free
    <3>2. CASE \E s \in Seq(Replies) : Free(s, n) /\ fromMod' = fromMod \o s
      BY <1>0, <2>2, <3>2, FreeMore, Zenon
    <3> QED  BY <1>9, <3>1, <3>2
  <2>3. CASE Quiet(n, toMod, fromMod, subs[n])
    BY <1>2, <2>1, <2>2, <2>3, Zenon DEF Quiet, Tracked, q
  <2>4. CASE ~Quiet(n, toMod, fromMod, subs[n])
    <3>1. PICK i \in Requests :
            /\ connected /\ subs[n] = <<i>>
            /\ \/ Sent(n, request[i], owed[i], toMod, fromMod, files, leaked)
               \/ Coming(n, request[i], owed[i], toMod, fromMod, leaked)
      BY <1>5, <2>4, Zenon DEF Tracked
    <3> DEFINE w == request[i]
               o == owed[i]
    <3>2. w \in Asked /\ Ns(w.target) = n
      BY <1>0, <3>1, Waiter, Zenon
    <3>3. \/ Sent(n, w, o, toMod, fromMod, files, leaked)
          \/ Coming(n, w, o, toMod, fromMod, leaked)
      BY <3>1
    <3>4. PICK s \in Seq(Replies) : Free(s, n) /\ fromMod' = fromMod \o s
      BY <1>9, <3>1
    <3> HIDE DEF w, o
    <3> DEFINE ll == leaked'
               u == fromMod'
    <3>5. leaked \subseteq ll /\ u = fromMod \o s
      BY <1>3, <3>4
    <3>6. \A p \in Paths \ ll : g[p] = Latest(files[p], toMod, e, p)
      BY <1>3, <1>7
    <3>7. ASSUME Sent(n, w, o, toMod, fromMod, files, leaked) PROVE Sent(n, w, o, q, u, g, ll)
      <4>1. Free(u, n)
        BY <2>2, <3>7, Zenon DEF Sent
      <4> HIDE DEF u, ll
      <4>2. Sent(n, w, o, SubSeq(toMod, e + 1, Len(toMod)), u, g, ll)
        BY <1>0, <1>9, <3>2, <3>5, <3>6, <3>7, <4>1, SentRest, Zenon
      <4> QED  BY <4>2, Zenon DEF q
    <3>8. ASSUME Coming(n, w, o, toMod, fromMod, leaked) PROVE Coming(n, w, o, q, u, ll)
      <4>1. Silent(q, n)
        BY <2>1, <3>8, Zenon DEF Coming
      <4>2. o \subseteq o
        OBVIOUS
      <4> HIDE DEF u, ll
      <4>3. Coming(n, w, o, q, fromMod \o s, ll)
        BY <1>0, <3>2, <3>4, <3>5, <3>8, <4>1, <4>2, ComingMore, Zenon
      <4> QED  BY <3>5, <4>3, Zenon
    <3>9. \/ Sent(n, request'[i], owed'[i], toMod', fromMod', files', leaked')
          \/ Coming(n, request'[i], owed'[i], toMod', fromMod', leaked')
      BY <1>2, <3>3, <3>7, <3>8, Zenon DEF w, o, q, g
    <3> QED  BY <1>2, <3>1, <3>9, Zenon DEF Tracked
  <2> QED  BY <2>3, <2>4
<1> QED  BY <1>0, <1>1, <1>8, <1>9, FrameAsks, Zenon DEF g

(* What comes in another namespace does not change what a callback waits for. *)
LEMMA ReceiveOther ==
  ASSUME FollowType, NEW n \in Namespaces, Receive, Head(fromMod).ns # n
  PROVE  /\ subs'[n] = subs[n]
         /\ \A i \in Requests : subs[n] = <<i>> => request'[i] = request[i] /\ owed'[i] = owed[i]
<1> DEFINE m == Head(fromMod)
           called == subs[m.ns]
           kept == {k \in 1 .. Len(called) : k % 2 = 0}
           over == {called[k] : k \in (1 .. Len(called)) \ kept}
           left == [k \in 1 .. Cardinality(kept) |-> called[2 * k]]
<1>0. /\ fromMod \in Seq(Replies) /\ subs \in [Namespaces -> Seq(Requests)]
      /\ request \in [Requests -> Asked \cup {Idle}] /\ owed \in [Requests -> SUBSET Seq(Answers)]
      /\ Subscribed
  BY DEF FollowType, AnswerTypeOK
<1>1. m.ns \in Namespaces
  <2>1. fromMod # <<>>
    BY Zenon DEF Receive
  <2>2. m \in Replies
    BY <1>0, <2>1
  <2> QED  BY <2>2 DEF Replies
<1>2. Subscribers(called, request, m.ns)
  BY <1>0, <1>1, Zenon DEF Subscribed
<1>3. ASSUME NEW i \in Requests, subs[n] = <<i>>, NEW k \in 1 .. Len(called) PROVE called[k] # i
  <2>1. Ns(request[i].target) = n
    BY <1>0, <1>3, Waiter, Zenon
  <2>2. Ns(request[called[k]].target) = m.ns
    BY <1>2, Zenon DEF Subscribers
  <2> HIDE DEF called
  <2> QED  BY <2>1, <2>2
<1>4. CASE m.end
  <2>1. /\ subs' = [subs EXCEPT ![m.ns] = left]
        /\ request' = [i \in Requests |-> IF i \in over THEN Idle ELSE request[i]]
        /\ owed' = [i \in Requests |-> IF i \in over THEN {} ELSE owed[i]]
    BY <1>4, Zenon DEF Receive
  <2>2. ASSUME NEW i \in Requests, subs[n] = <<i>> PROVE i \notin over
    <3> HIDE DEF called
    <3> QED  BY <1>3, <2>2
  <2>3. subs'[n] = subs[n]
    <3> HIDE DEF m, left
    <3> QED  BY <1>0, <2>1 DEF m
  <2> HIDE DEF over
  <2> QED  BY <2>1, <2>2, <2>3, Zenon
<1>5. CASE ~m.end
  <2> DEFINE heard(i) == [request[i] EXCEPT !.got = Append(@, m.text)]
  <2>1. /\ request' = [i \in Requests |->
                         IF \E k \in 1 .. Len(called) : called[k] = i THEN heard(i) ELSE request[i]]
        /\ subs' = subs /\ owed' = owed
    BY <1>5, Zenon DEF Receive
  <2> HIDE DEF heard, called
  <2>2. \A i \in Requests : subs[n] = <<i>> => request'[i] = request[i]
    BY <1>3, <2>1, Zenon
  <2> QED  BY <2>1, <2>2, Zenon
<1> QED  BY <1>4, <1>5

(* The only subscriber hears what comes, until the end. *)
LEMMA ReceiveOwn ==
  ASSUME FollowType, NEW n \in Namespaces, Receive, Head(fromMod).ns = n,
         NEW i \in Requests, subs[n] = <<i>>
  PROVE  /\ Head(fromMod).end => subs'[n] = <<>>
         /\ ~Head(fromMod).end => /\ subs' = subs /\ owed' = owed
                                  /\ request'[i] = Heard(request[i], Head(fromMod).text)
<1> DEFINE m == Head(fromMod)
           called == subs[m.ns]
           kept == {k \in 1 .. Len(called) : k % 2 = 0}
           left == [k \in 1 .. Cardinality(kept) |-> called[2 * k]]
<1>0. subs \in [Namespaces -> Seq(Requests)]
  BY DEF FollowType, AnswerTypeOK
<1>1. called = <<i>> /\ Len(called) = 1 /\ 1 \in 1 .. Len(called) /\ called[1] = i
  <2>1. called = <<i>>
    BY Zenon
  <2> HIDE DEF called
  <2> QED  BY <2>1
<1>2. ASSUME m.end PROVE subs'[n] = <<>>
  <2>1. subs' = [subs EXCEPT ![m.ns] = left]
    BY <1>2, Zenon DEF Receive
  <2>2. kept = {}
    <3> HIDE DEF called
    <3> QED  BY <1>1
  <2>3. Cardinality(kept) = 0
    BY <2>2, FS_EmptySet
  <2>4. left = <<>>
    <3> HIDE DEF kept, called
    <3> QED  BY <2>3
  <2> HIDE DEF left
  <2> QED  BY <1>0, <2>1, <2>4
<1>3. ASSUME ~m.end PROVE subs' = subs /\ owed' = owed /\ request'[i] = Heard(request[i], m.text)
  <2> DEFINE heard(j) == [request[j] EXCEPT !.got = Append(@, m.text)]
  <2>1. /\ request' = [j \in Requests |->
                         IF \E k \in 1 .. Len(called) : called[k] = j THEN heard(j) ELSE request[j]]
        /\ subs' = subs /\ owed' = owed
    BY <1>3, Zenon DEF Receive
  <2>2. heard(i) = Heard(request[i], m.text)
    BY Zenon DEF Heard
  <2> HIDE DEF heard, called
  <2>3. request'[i] = heard(i)
    BY <1>1, <2>1, Zenon
  <2> QED  BY <2>1, <2>2, <2>3
<1> QED  BY <1>2, <1>3

(* What a namespace waits for is followed until it has come. *)
LEMMA ReceiveFollowed ==
  ASSUME FollowType, NEW n \in Namespaces, n \notin spoiled', Receive
  PROVE  Follow(n)'
<1> DEFINE m == Head(fromMod)
           y == Tail(fromMod)
<1>0. fromMod \in Seq(Replies) /\ Subscribed /\ fromMod # <<>>
  BY Zenon DEF FollowType, AnswerTypeOK, Receive
<1>1. fromMod' = y /\ UNCHANGED <<connected, toMod, modVars, spoiled>>
  BY Zenon DEF Receive
<1>2. /\ fromMod' = y /\ toMod' = toMod /\ connected' = connected
      /\ files' = files /\ leaked' = leaked /\ spoiled' = spoiled
  BY <1>1 DEF modVars
<1>3. Tracked(n, toMod, fromMod, subs[n], connected, request, owed, files, leaked)
  BY <1>2, FollowNow
<1>4. SUFFICES Tracked(n, toMod', fromMod', subs'[n], connected', request', owed', files', leaked')
  BY Zenon DEF Follow, Tracked, Quiet, Sent, Coming
<1>5. ASSUME Free(fromMod, n) PROVE m.ns # n /\ Free(y, n)
  <2>1. m = fromMod[1] /\ 1 \in 1 .. Len(fromMod)
    BY <1>0
  <2>2. m.ns # n
    BY <1>5, <2>1, Zenon DEF Free
  <2> QED  BY <1>0, <1>5, <2>2, FreeTail, Zenon
<1>6. ASSUME m.ns # n
      PROVE  /\ subs'[n] = subs[n]
             /\ \A i \in Requests : subs[n] = <<i>> => request'[i] = request[i] /\ owed'[i] = owed[i]
  BY <1>6, ReceiveOther, Zenon
<1>7. CASE Quiet(n, toMod, fromMod, subs[n])
  BY <1>2, <1>5, <1>6, <1>7, Zenon DEF Quiet, Tracked
<1>8. CASE ~Quiet(n, toMod, fromMod, subs[n])
  <2>1. PICK i \in Requests :
          /\ connected /\ subs[n] = <<i>>
          /\ \/ Sent(n, request[i], owed[i], toMod, fromMod, files, leaked)
             \/ Coming(n, request[i], owed[i], toMod, fromMod, leaked)
    BY <1>3, <1>8, Zenon DEF Tracked
  <2> DEFINE w == request[i]
             o == owed[i]
  <2>2. w \in Asked /\ Ns(w.target) = n
    BY <1>0, <2>1, Waiter, Zenon
  <2>3. CASE Sent(n, w, o, toMod, fromMod, files, leaked)
    <3>1. Free(fromMod, n)
      BY <2>3, Zenon DEF Sent
    <3>2. /\ Free(y, n) /\ subs'[n] = <<i>> /\ request'[i] = w /\ owed'[i] = o
      BY <1>5, <1>6, <2>1, <3>1
    <3> HIDE DEF w, o, y
    <3>3. Sent(n, w, o, toMod, y, files, leaked)
      BY <2>3, <3>2, Zenon DEF Sent
    <3> QED  BY <1>2, <2>1, <3>2, <3>3, Zenon DEF Tracked
  <2>4. CASE Coming(n, w, o, toMod, fromMod, leaked)
    <3>1. \/ m.ns # n /\ Coming(n, w, o, toMod, y, leaked)
          \/ m.ns = n /\ ~m.end /\ Coming(n, Heard(w, m.text), o, toMod, y, leaked)
          \/ m.ns = n /\ m.end /\ Silent(toMod, n) /\ Free(y, n)
      <4>1. Expecting(n, w, o, toMod, fromMod, leaked)
        BY <1>0, <2>2, <2>4, Zenon DEF Expecting
      <4>2. Hears(n, w, o, toMod, fromMod, leaked)
        <5> HIDE DEF w, o
        <5> QED  BY <4>1, ComingNext, Zenon
      <4> QED  BY <4>2, Zenon DEF Hears
    <3>2. CASE m.ns # n /\ Coming(n, w, o, toMod, y, leaked)
      <4>1. subs'[n] = <<i>> /\ request'[i] = w /\ owed'[i] = o
        BY <1>6, <2>1, <3>2
      <4> HIDE DEF w, o, y
      <4> QED  BY <1>2, <2>1, <3>2, <4>1, Zenon DEF Tracked
    <3>3. CASE m.ns = n /\ ~m.end /\ Coming(n, Heard(w, m.text), o, toMod, y, leaked)
      <4>1. subs' = subs /\ owed' = owed /\ request'[i] = Heard(w, m.text)
        BY <2>1, <3>3, ReceiveOwn, Zenon
      <4> HIDE DEF w, y
      <4> QED  BY <1>2, <2>1, <3>3, <4>1, Zenon DEF Tracked
    <3>4. CASE m.ns = n /\ m.end /\ Silent(toMod, n) /\ Free(y, n)
      <4>1. subs'[n] = <<>>
        BY <2>1, <3>4, ReceiveOwn, Zenon
      <4> HIDE DEF y
      <4> QED  BY <1>2, <3>4, <4>1, Zenon DEF Tracked, Quiet
    <3> QED  BY <3>1, <3>2, <3>3, <3>4
  <2> QED  BY <2>1, <2>3, <2>4
<1> QED  BY <1>7, <1>8

(* At first nobody waits, *)
LEMMA FollowInit == Init => FollowType
<1> SUFFICES ASSUME Init PROVE FollowType
  OBVIOUS
<1>1. TypeOK /\ AnswerTypeOK /\ Subscribed
  BY UploadInit, AnswerInit, Zenon
<1>2. toMod = <<>> /\ fromMod = <<>> /\ subs = [n \in Namespaces |-> <<>>]
  BY Zenon DEF Init
<1>3. 1 .. Len(toMod) = {} /\ 1 .. Len(fromMod) = {}
  BY <1>2
<1>4. \A n \in Namespaces : Quiet(n, toMod, fromMod, subs[n])
  BY <1>2, <1>3, Zenon DEF Quiet, Silent, Free
<1> QED  BY <1>1, <1>4, Zenon DEF FollowType, Following, Tracked

(* and every step keeps track of what is waited for. *)
LEMMA FollowStep ==
  Uploading /\ FollowType /\ [Next]_vars => FollowType'
<1> SUFFICES ASSUME Uploading, FollowType, [Next]_vars PROVE FollowType'
  OBVIOUS
<1>1. TypeOK' /\ AnswerTypeOK' /\ Subscribed'
  BY UploadStep, AnswerTypeStep, SubscribedStep, Zenon DEF FollowType
<1>2. ASSUME NEW n \in Namespaces, n \notin spoiled' PROVE Follow(n)'
  <2>1. CASE User
    BY <1>2, <2>1, RequestFollowed, OtherFollowed, SaveFollowed, Zenon DEF User
  <2>2. CASE UNCHANGED vars
    <3>1. /\ toMod' = toMod /\ fromMod' = fromMod /\ subs' = subs /\ connected' = connected
          /\ request' = request /\ owed' = owed /\ files' = files /\ leaked' = leaked
          /\ spoiled' = spoiled
      BY <2>2 DEF vars, webVars, modVars
    <3>2. Tracked(n, toMod, fromMod, subs[n], connected, request, owed, files, leaked)
      BY <1>2, <3>1, FollowNow
    <3>3. Tracked(n, toMod', fromMod', subs'[n], connected', request', owed', files', leaked')
      BY <3>1, <3>2
    <3> QED  BY <3>3, Zenon DEF Follow, Tracked, Quiet, Sent, Coming
  <2>3. CASE Frame
    BY <1>2, <2>3, FrameFollowed, Zenon
  <2>4. CASE Receive
    BY <1>2, <2>4, ReceiveFollowed, Zenon
  <2>5. CASE Lose \/ Reopen
    BY <1>2, <2>5, LoseFollowed, Zenon
  <2> QED  BY <2>1, <2>2, <2>3, <2>4, <2>5, Zenon DEF Next
<1>3. Following'
  BY <1>2, Zenon DEF Following, Follow, Tracked, Quiet, Sent, Coming
<1> QED  BY <1>1, <1>3, Zenon DEF FollowType

(* A callback is through when the end of an answer comes in its namespace. *)
LEMMA ThroughByEnd ==
  ASSUME FollowType, [Next]_vars, NEW i \in Requests, request[i] # Idle, request'[i] = Idle
  PROVE  /\ Receive /\ fromMod # <<>> /\ Head(fromMod).end
         /\ Head(fromMod).ns = Ns(request[i].target)
         /\ \E k \in 1 .. Len(subs[Ns(request[i].target)]) : subs[Ns(request[i].target)][k] = i
<1>0. /\ request \in [Requests -> Asked \cup {Idle}] /\ fromMod \in Seq(Replies) /\ Subscribed
      /\ subs \in [Namespaces -> Seq(Requests)]
  BY DEF FollowType, AnswerTypeOK
<1>1. request[i] \in Asked
  BY <1>0
<1>2. ASSUME NEW j \in Requests, NEW t \in Targets, Request(j, t) PROVE FALSE
  <2> DEFINE w == [target |-> t, got |-> <<>>]
  <2>1. request' = [request EXCEPT ![j] = w]
    BY <1>2, Zenon DEF Request
  <2>2. w \in Asked
    <3>1. <<>> \in Seq(Answers \cup {NoFile})
      OBVIOUS
    <3> QED  BY <3>1, Zenon DEF Asked
  <2> HIDE DEF w
  <2> QED  BY <1>0, <2>1, <2>2, NotIdle
<1>3. CASE Button \/ (\E p \in Paths, c \in Contents : Save(p, c))
           \/ (\E len \in Lengths : Upload(len)) \/ Frame \/ Lose \/ Reopen \/ UNCHANGED vars
  <2>1. request' = request
    BY <1>3 DEF Button, Save, Upload, Frame, Lose, Reopen, vars, webVars
  <2> QED  BY <2>1
<1>4. CASE Receive
  <2> DEFINE m == Head(fromMod)
             called == subs[m.ns]
             kept == {k \in 1 .. Len(called) : k % 2 = 0}
             over == {called[k] : k \in (1 .. Len(called)) \ kept}
             heard(j) == [request[j] EXCEPT !.got = Append(@, m.text)]
  <2>1. fromMod # <<>>
    BY <1>4, Zenon DEF Receive
  <2>2. m \in Replies
    BY <1>0, <2>1
  <2>3. m.ns \in Namespaces /\ m.text \in Answers \cup {NoFile}
    BY <2>2 DEF Replies
  <2>4. m.end
    <3> SUFFICES ASSUME ~m.end PROVE FALSE
      OBVIOUS
    <3>1. request' = [j \in Requests |->
                        IF \E k \in 1 .. Len(called) : called[k] = j THEN heard(j) ELSE request[j]]
      BY <1>4, Zenon DEF Receive
    <3>2. heard(i) \in Asked
      <4> DEFINE x == m.text
      <4>1. x \in Answers \cup {NoFile}
        BY <2>3
      <4> HIDE DEF x, m
      <4>2. [request[i] EXCEPT !.got = Append(@, x)] \in Asked
        BY <1>1, <4>1 DEF Asked
      <4> QED  BY <4>2 DEF x
    <3> HIDE DEF heard, called, m
    <3> QED  BY <1>1, <3>1, <3>2, NotIdle, Zenon
  <2>5. i \in over
    <3>1. request' = [j \in Requests |-> IF j \in over THEN Idle ELSE request[j]]
      BY <1>4, <2>4, Zenon DEF Receive
    <3> HIDE DEF over
    <3> QED  BY <3>1, Zenon
  <2>6. PICK k \in 1 .. Len(called) : called[k] = i
    BY <2>5, Zenon
  <2>7. Ns(request[i].target) = m.ns
    <3>1. Subscribers(called, request, m.ns)
      BY <1>0, <2>3, Zenon DEF Subscribed
    <3> HIDE DEF called, m
    <3> QED  BY <2>6, <3>1, Zenon DEF Subscribers
  <2> QED  BY <1>4, <2>1, <2>4, <2>6, <2>7, Zenon
<1> QED  BY <1>2, <1>3, <1>4, Zenon DEF Next, User

(* What it has accumulated then is right. *)
LEMMA AnsweredRight ==
  ASSUME FollowType, [Next]_vars, NEW i \in Requests, request[i] # Idle, request'[i] = Idle
  PROVE  \/ Ns(request[i].target) \in spoiled
         \/ Exempt(request[i].target, leaked)
         \/ request[i].got \in owed[i]
<1> DEFINE n == Ns(request[i].target)
           sn == subs[n]
<1>0. fromMod \in Seq(Replies) /\ request[i] \in Asked /\ Subscribed
  BY DEF FollowType, AnswerTypeOK
<1>1. n \in Namespaces
  <2>1. request[i].target \in Targets
    BY <1>0 DEF Asked
  <2> QED  BY <2>1, Zenon DEF Namespaces
<1>2. fromMod # <<>> /\ Head(fromMod).end /\ Head(fromMod).ns = n
  BY ThroughByEnd, Zenon
<1>3. PICK k \in 1 .. Len(sn) : sn[k] = i
  BY ThroughByEnd, Zenon
<1>4. SUFFICES ASSUME n \notin spoiled
               PROVE  Exempt(request[i].target, leaked) \/ request[i].got \in owed[i]
  BY Zenon
<1> HIDE DEF n
<1>5. Tracked(n, toMod, fromMod, sn, connected, request, owed, files, leaked)
  BY <1>1, <1>4, FollowNow, Zenon
<1>6. ~Free(fromMod, n)
  <2>1. 1 \in 1 .. Len(fromMod) /\ fromMod[1] = Head(fromMod)
    BY <1>0, <1>2
  <2> QED  BY <1>2, <2>1, Zenon DEF Free
<1>7. PICK j \in Requests :
        sn = <<j>> /\ Coming(n, request[j], owed[j], toMod, fromMod, leaked)
  BY <1>5, <1>6, Zenon DEF Tracked, Quiet, Sent
<1>8. j = i
  <2> HIDE DEF sn
  <2> QED  BY <1>3, <1>7
<1>9. Expecting(n, request[i], owed[i], toMod, fromMod, leaked)
  <2>1. Coming(n, request[i], owed[i], toMod, fromMod, leaked)
    BY <1>7, <1>8
  <2> QED  BY <1>0, <1>2, <2>1, Zenon DEF Expecting, n
<1>10. Hears(n, request[i], owed[i], toMod, fromMod, leaked)
  BY <1>9, ComingNext, Zenon
<1> QED  BY <1>2, <1>10, Zenon DEF Hears

(* A callback of reqDumpTextFile or reqDirectoryIndex gets the answer it      *)
(* asked for, of a time after it asked, for any files, namespaces, requests   *)
(* and interleaving of what is sent: the invariant says of each namespace     *)
(* where its answer is, the script that asks for it or what that script has   *)
(* logged, and what it will say.                                              *)
THEOREM ReadYourWritesCorrect == Spec => ReadYourWrites
<1>1. FollowType /\ [Next]_vars =>
        [\A i \in Requests :
           request[i] # Idle /\ request'[i] = Idle =>
             \/ Ns(request[i].target) \in spoiled
             \/ request[i].target \in leaked
             \/ request[i].target = Dir /\ leaked # {}
             \/ request[i].got \in owed[i]]_vars
  BY AnsweredRight, Zenon DEF Exempt
<1>2. Spec => [](TypeOK /\ Uploading)
  BY UploadInit, UploadStep, PTL DEF Spec
<1>3. Spec => []FollowType
  BY <1>2, FollowInit, FollowStep, PTL DEF Spec
<1> QED  BY <1>1, <1>3, PTL DEF Spec, ReadYourWrites
=============================================================================
