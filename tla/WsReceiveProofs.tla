---------------------------- MODULE WsReceiveProofs ----------------------------
(***************************************************************************)
(* What is proved about the receiver of module WsReceive: as long as every *)
(* Recv finds all of the frame it reads, the frames of the web frontend    *)
(* are dispatched whole, once and in order, for payloads of any length and *)
(* any number of frames on their way.                                      *)
(***************************************************************************)
EXTENDS WsReceiveProperties, FiniteSetTheorems, SequenceTheorems, WellFoundedInduction, TLAPS

-----------------------------------------------------------------------------
(* Least and greatest numbers *)

(* A set of natural numbers that is not empty has a least element. *)
LEMMA LeastNat ==
  ASSUME NEW T, T \subseteq Nat, T # {}
  PROVE  \E x \in T : \A y \in T : x <= y
<1>1. PICK x \in T : \A y \in T : ~(<<y, x>> \in OpToRel(<, Nat))
  BY WFMin, NatLessThanWellFounded
<1>2. ASSUME NEW y \in T PROVE x <= y
  <2>1. x \in Nat /\ y \in Nat
    OBVIOUS
  <2>2. y < x => <<y, x>> \in OpToRel(<, Nat)
    BY <2>1 DEF OpToRel
  <2>3. ~(y < x)
    BY <1>1, <2>2, Zenon
  <2> QED  BY <2>1, <2>3
<1> QED  BY <1>2

(* Some numbers up to n have a greatest one. *)
LEMMA MaxIn ==
  ASSUME NEW n \in Nat, NEW s \in SUBSET (1 .. n), s # {}
  PROVE  Max(s) \in s
<1> DEFINE above == {m \in Nat : \A x \in s : x <= m}
<1>1. n \in above
  OBVIOUS
<1>2. PICK m \in above : \A y \in above : m <= y
  <2>1. above \subseteq Nat
    OBVIOUS
  <2> HIDE DEF above
  <2> QED  BY <1>1, <2>1, LeastNat
<1>3. m \in s
  <2> SUFFICES ASSUME m \notin s PROVE FALSE
    OBVIOUS
  <2>1. PICK x \in s : TRUE
    OBVIOUS
  <2>2. m \in Nat /\ x \in Nat /\ x >= 1 /\ x <= m
    BY <1>2
  <2>3. m - 1 \in above
    BY <1>2, <2>2
  <2> QED  BY <1>2, <2>2, <2>3
<1>4. \A y \in s : m >= y
  BY <1>2
<1> QED  BY <1>3, <1>4, Zenon DEF Max

(* The greatest number up to n is n. *)
LEMMA MaxUpTo == ASSUME NEW n \in Nat \ {0} PROVE Max(1 .. n) = n
<1>1. n \in 1 .. n /\ \A y \in 1 .. n : n >= y
  OBVIOUS
<1>2. Max(1 .. n) \in 1 .. n /\ \A y \in 1 .. n : Max(1 .. n) >= y
  BY <1>1, Zenon DEF Max
<1> QED  BY <1>1, <1>2

-----------------------------------------------------------------------------
(* The bytes of the first frames of a sequence *)

(* What FoldLeft is defined by. *)
Sums(f, q, P) == f = [s \in P |-> IF s = {} THEN 0 ELSE f[s \ {Max(s)}] + Bytes(q[Max(s)])]
SumIter(q) ==
  CHOOSE f : f = [s \in SUBSET DOMAIN q |-> IF s = {} THEN 0 ELSE f[s \ {Max(s)}] + Bytes(q[Max(s)])]

(* The library's FoldLeft over frames is that function. *)
LEMMA FoldIter ==
  ASSUME NEW q
  PROVE  FoldLeft(LAMBDA n, f : n + Bytes(f), 0, q) = SumIter(q)[DOMAIN q]
BY Zenon DEF FoldLeft, MapThenFoldSet, SumIter
(* The size of a set of numbers up to n is at most n. *)
LEMMA SubsetSize ==
  ASSUME NEW n \in Nat, NEW s \in SUBSET (1 .. n)
  PROVE  IsFiniteSet(s) /\ Cardinality(s) \in Nat /\ Cardinality(s) <= n
<1>1. IsFiniteSet(1 .. n) /\ Cardinality(1 .. n) = n
  <2>1. 1 \in Int /\ n \in Int
    OBVIOUS
  <2>2. IsFiniteSet(1 .. n) /\ Cardinality(1 .. n) = IF 1 > n THEN 0 ELSE n - 1 + 1
    BY <2>1, FS_Interval
  <2> QED  BY <2>2
<1>2. s \subseteq 1 .. n
  OBVIOUS
<1>3. IsFiniteSet(s) /\ Cardinality(s) <= Cardinality(1 .. n)
  BY <1>1, <1>2, FS_Subset
<1>4. Cardinality(s) \in Nat
  BY <1>3, FS_CardinalityType
<1> QED  BY <1>1, <1>3, <1>4

(* A set of numbers gets smaller without its greatest. *)
LEMMA Smaller ==
  ASSUME NEW n \in Nat, NEW s \in SUBSET (1 .. n), s # {}
  PROVE  /\ s \ {Max(s)} \in SUBSET (1 .. n) /\ Cardinality(s) \in Nat
         /\ Cardinality(s \ {Max(s)}) \in Nat /\ Cardinality(s \ {Max(s)}) < Cardinality(s)
<1>1. IsFiniteSet(s)
  BY SubsetSize
<1>2. Max(s) \in s
  BY MaxIn
<1>3. Cardinality(s \ {Max(s)}) = Cardinality(s) - 1 /\ IsFiniteSet(s \ {Max(s)})
  BY <1>1, <1>2, FS_RemoveElement
<1>4. Cardinality(s) \in Nat /\ Cardinality(s \ {Max(s)}) \in Nat
  BY <1>1, <1>3, FS_CardinalityType
<1>5. s \ {Max(s)} \in SUBSET (1 .. n)
  OBVIOUS
<1>6. Cardinality(s \ {Max(s)}) < Cardinality(s)
  BY <1>3, <1>4
<1> QED  BY <1>4, <1>5, <1>6

(* There is such a function, although its definition refers to itself. *)
LEMMA SumExists ==
  ASSUME NEW q, NEW n \in Nat, DOMAIN q = 1 .. n
  PROVE  \E f : Sums(f, q, SUBSET DOMAIN q)
<1> DEFINE Few(c) == {s \in SUBSET (1 .. n) : Cardinality(s) <= c}
           Value(f, s) == IF s = {} THEN 0 ELSE f[s \ {Max(s)}] + Bytes(q[Max(s)])
           bad == {c \in Nat : ~ \E f : Sums(f, q, Few(c))}
<1>1. bad = {}
  <2> SUFFICES ASSUME bad # {} PROVE FALSE
    OBVIOUS
  <2>1. PICK c \in bad : \A m \in bad : c <= m
    <3>1. bad \subseteq Nat
      OBVIOUS
    <3> HIDE DEF bad
    <3> QED  BY <3>1, LeastNat
  <2>2. c \in Nat
    OBVIOUS
  <2>3. \E f : \A s \in Few(c) : s # {} => f[s \ {Max(s)}] = Value(f, s \ {Max(s)})
    <3>1. CASE c = 0
      <4>1. ASSUME NEW s \in Few(c) PROVE s = {}
        <5>1. IsFiniteSet(s) /\ Cardinality(s) \in Nat
          BY SubsetSize
        <5> QED  BY <3>1, <5>1, FS_EmptySet
      <4> HIDE DEF Few
      <4> QED  BY <4>1, Zenon
    <3>2. CASE c # 0
      <4>1. c - 1 \in Nat /\ ~(c <= c - 1)
        BY <2>2, <3>2
      <4>2. c - 1 \notin bad
        <5> HIDE DEF bad
        <5> QED  BY <2>1, <4>1, Zenon
      <4>3. PICK f : Sums(f, q, Few(c - 1))
        BY <4>1, <4>2
      <4>4. ASSUME NEW s \in Few(c), s # {}
            PROVE  s \ {Max(s)} \in Few(c - 1)
        BY <2>2, <4>4, Smaller
      <4>5. \A s \in Few(c - 1) : f[s] = Value(f, s)
        BY <4>3, Zenon DEF Sums
      <4> HIDE DEF Few, Value
      <4> QED  BY <4>4, <4>5, Zenon
    <3> QED  BY <3>1, <3>2
  <2>4. PICK f : \A s \in Few(c) : s # {} => f[s \ {Max(s)}] = Value(f, s \ {Max(s)})
    <3> HIDE DEF Value
    <3> QED  BY <2>3
  <2> DEFINE g == [s \in Few(c) |-> Value(f, s)]
  <2>5. ASSUME NEW s \in Few(c) PROVE g[s] = Value(g, s)
    <3>1. CASE s = {}
      BY <3>1, Zenon
    <3>2. CASE s # {}
      <4>1. s \ {Max(s)} \in Few(c)
        BY <2>2, <3>2, Smaller
      <4>2. g[s \ {Max(s)}] = f[s \ {Max(s)}]
        <5> HIDE DEF Few, Value
        <5> QED  BY <2>4, <3>2, <4>1, Zenon
      <4> QED  BY <3>2, <4>2, Zenon
    <3> QED  BY <3>1, <3>2
  <2>6. g = [s \in Few(c) |-> g[s]]
    BY Zenon
  <2>7. Sums(g, q, Few(c))
    <3> HIDE DEF g
    <3> QED  BY <2>5, <2>6, Zenon DEF Sums
  <2> QED  BY <2>2, <2>7
<1>2. Few(n) = SUBSET (1 .. n)
  <2>1. ASSUME NEW s \in SUBSET (1 .. n) PROVE Cardinality(s) <= n
    BY SubsetSize
  <2> QED  BY <2>1
<1> QED  BY <1>1, <1>2

(* The bytes of the first k frames.  *)
Upto(q, k) == SumIter(q)[1 .. k]

(* The bytes of the frames add up one by one. *)
LEMMA UptoDef ==
  ASSUME NEW q \in Seq(Frames)
  PROVE  /\ Upto(q, 0) = 0
         /\ \A k \in 1 .. Len(q) : Upto(q, k) = Upto(q, k - 1) + Bytes(q[k])
<1>1. Len(q) \in Nat /\ DOMAIN q = 1 .. Len(q)
  OBVIOUS
<1>2. \E f : Sums(f, q, SUBSET DOMAIN q)
  BY <1>1, SumExists
<1>3. Sums(SumIter(q), q, SUBSET DOMAIN q)
  BY <1>2, Zenon DEF Sums, SumIter
<1>4. \A s \in SUBSET DOMAIN q :
        SumIter(q)[s] = IF s = {} THEN 0 ELSE SumIter(q)[s \ {Max(s)}] + Bytes(q[Max(s)])
  <2> HIDE DEF SumIter
  <2> QED  BY <1>3, Zenon DEF Sums
<1>5. Upto(q, 0) = 0
  <2>1. 1 .. 0 = {}
    OBVIOUS
  <2> QED  BY <1>4, <2>1, Zenon DEF Upto
<1>6. ASSUME NEW k \in 1 .. Len(q)
      PROVE  Upto(q, k) = Upto(q, k - 1) + Bytes(q[k])
  <2>1. k \in Nat \ {0} /\ 1 .. k \in SUBSET DOMAIN q /\ 1 .. k # {}
    BY <1>1
  <2>2. Max(1 .. k) = k
    BY <2>1, MaxUpTo
  <2>3. (1 .. k) \ {k} = 1 .. k - 1
    BY <2>1
  <2> QED  BY <1>4, <2>1, <2>2, <2>3, Zenon DEF Upto
<1> QED  BY <1>5, <1>6

(* A frame has a header of 6, 8 or 14 bytes and its payload. *)
LEMMA BytesType ==
  ASSUME NEW f \in Frames
  PROVE  /\ Bytes(f) \in Nat /\ Bytes(f) >= 8 /\ f.len \in Nat
         /\ HeaderLen(f) \in {6, 8, 14} /\ Bytes(f) = HeaderLen(f) + f.len
         /\ f = Close => Bytes(f) = 8
         /\ f # Close => f \in TextFrames /\ Bytes(f) >= Chunk
<1>1. CASE f \in TextFrames
  <2>1. f.form \in {"small", "medium", "large"} /\ f.len \in Payloads
    BY <1>1 DEF TextFrames
  <2>2. f.len \in Nat /\ f.len >= 8
    BY <2>1, PayloadAssumption
  <2>3. HeaderLen(f) \in {6, 8, 14}
    BY DEF HeaderLen
  <2>4. f # Close
    BY <2>1 DEF Close
  <2> QED  BY <1>1, <2>2, <2>3, <2>4 DEF Bytes, Chunk
<1>2. CASE f = Close
  <2>1. HeaderLen(f) = 6 /\ f.len = 2
    BY <1>2 DEF Close, HeaderLen
  <2> QED  BY <1>2, <2>1 DEF Bytes
<1> QED  BY <1>1, <1>2 DEF Frames

(* The bytes of frames are counted in Nat. *)
LEMMA UptoType ==
  ASSUME NEW q \in Seq(Frames)
  PROVE  \A k \in 0 .. Len(q) : Upto(q, k) \in Nat
<1> DEFINE bad == {k \in 0 .. Len(q) : ~(Upto(q, k) \in Nat)}
<1> SUFFICES ASSUME bad # {} PROVE FALSE
  OBVIOUS
<1>1. PICK k \in bad : \A y \in bad : k <= y
  <2>1. bad \subseteq Nat
    OBVIOUS
  <2> HIDE DEF bad
  <2> QED  BY <2>1, LeastNat
<1>2. k \in 0 .. Len(q) /\ k # 0
  BY <1>1, UptoDef
<1>3. k - 1 \in 0 .. Len(q) /\ k \in 1 .. Len(q) /\ q[k] \in Frames
  BY <1>2
<1>4. Upto(q, k - 1) \in Nat
  BY <1>1, <1>2, <1>3
<1>5. Upto(q, k) = Upto(q, k - 1) + Bytes(q[k]) /\ Bytes(q[k]) \in Nat
  BY <1>3, UptoDef, BytesType
<1> QED  BY <1>1, <1>4, <1>5

(* The longer, the more bytes. *)
LEMMA UptoMore ==
  ASSUME NEW q \in Seq(Frames), NEW j \in 0 .. Len(q)
  PROVE  \A k \in 0 .. Len(q) : j < k => Upto(q, j) + 8 <= Upto(q, k)
<1> DEFINE bad == {k \in 0 .. Len(q) : j < k /\ ~(Upto(q, j) + 8 <= Upto(q, k))}
<1> SUFFICES ASSUME bad # {} PROVE FALSE
  OBVIOUS
<1>1. PICK k \in bad : \A y \in bad : k <= y
  <2>1. bad \subseteq Nat
    OBVIOUS
  <2> HIDE DEF bad
  <2> QED  BY <2>1, LeastNat
<1>2. k \in 1 .. Len(q) /\ k - 1 \in 0 .. Len(q) /\ q[k] \in Frames /\ j < k
  BY <1>1
<1>3. Upto(q, k) = Upto(q, k - 1) + Bytes(q[k])
  BY <1>2, UptoDef
<1>4. Bytes(q[k]) \in Nat /\ Bytes(q[k]) >= 8
  BY <1>2, BytesType
<1>5. Upto(q, k - 1) \in Nat /\ Upto(q, j) \in Nat
  BY <1>2, UptoType
<1>6. j < k - 1 => Upto(q, j) + 8 <= Upto(q, k - 1)
  BY <1>1, <1>2
<1> QED  BY <1>1, <1>2, <1>3, <1>4, <1>5, <1>6

(* Only the first frames count. *)
LEMMA UptoAgree ==
  ASSUME NEW q \in Seq(Frames), NEW r \in Seq(Frames), NEW n \in 0 .. Len(q), n <= Len(r),
         \A k \in 1 .. n : q[k] = r[k]
  PROVE  \A k \in 0 .. n : Upto(q, k) = Upto(r, k)
<1> DEFINE bad == {k \in 0 .. n : Upto(q, k) # Upto(r, k)}
<1> SUFFICES ASSUME bad # {} PROVE FALSE
  OBVIOUS
<1>1. PICK k \in bad : \A y \in bad : k <= y
  <2>1. bad \subseteq Nat
    OBVIOUS
  <2> HIDE DEF bad
  <2> QED  BY <2>1, LeastNat
<1>2. k \in 0 .. n /\ k # 0
  BY <1>1, UptoDef
<1>3. /\ k - 1 \in 0 .. n /\ k \in 1 .. n /\ k \in 1 .. Len(q) /\ k \in 1 .. Len(r)
      /\ ~(k <= k - 1)
  BY <1>2
<1>4. Upto(q, k - 1) = Upto(r, k - 1)
  BY <1>1, <1>3
<1>5. Upto(q, k) = Upto(q, k - 1) + Bytes(q[k]) /\ Upto(r, k) = Upto(r, k - 1) + Bytes(r[k])
  BY <1>3, UptoDef
<1>6. q[k] = r[k] /\ Upto(q, k) # Upto(r, k)
  BY <1>1, <1>3
<1> QED  BY <1>4, <1>5, <1>6, Zenon

(* Without the first frame, there are its bytes less. *)
LEMMA UptoTail ==
  ASSUME NEW q \in Seq(Frames), q # <<>>
  PROVE  \A k \in 0 .. Len(q) - 1 : Upto(Tail(q), k) + Bytes(q[1]) = Upto(q, k + 1)
<1> DEFINE r == Tail(q)
           bad == {k \in 0 .. Len(q) - 1 : Upto(r, k) + Bytes(q[1]) # Upto(q, k + 1)}
<1>0. /\ r \in Seq(Frames) /\ Len(r) = Len(q) - 1 /\ Len(q) \in Nat \ {0}
      /\ \A k \in 1 .. Len(r) : r[k] = q[k + 1]
  OBVIOUS
<1> HIDE DEF r
<1> SUFFICES ASSUME bad # {} PROVE FALSE
  BY DEF r
<1>1. PICK k \in bad : \A y \in bad : k <= y
  <2>1. bad \subseteq Nat
    BY <1>0
  <2> HIDE DEF bad
  <2> QED  BY <2>1, LeastNat
<1>2. k \in 0 .. Len(q) - 1
  BY <1>1
<1>3. k # 0
  <2>0. 1 \in 1 .. Len(q) /\ 1 - 1 = 0 /\ q[1] \in Frames
    BY <1>0
  <2>1. Upto(r, 0) = 0 /\ Upto(q, 1) = Upto(q, 1 - 1) + Bytes(q[1]) /\ Upto(q, 0) = 0
    <3>1. Upto(r, 0) = 0
      BY <1>0, UptoDef
    <3>2. Upto(q, 0) = 0 /\ Upto(q, 1) = Upto(q, 1 - 1) + Bytes(q[1])
      BY <2>0, UptoDef
    <3> QED  BY <3>1, <3>2
  <2>2. Bytes(q[1]) \in Nat
    BY <2>0, BytesType
  <2>3. Upto(r, 0) + Bytes(q[1]) = Upto(q, 0 + 1)
    BY <2>1, <2>2
  <2> QED  BY <1>1, <2>3
<1>4. /\ k - 1 \in 0 .. Len(q) - 1 /\ k \in 1 .. Len(r) /\ k + 1 \in 1 .. Len(q)
      /\ (k - 1) + 1 = k /\ (k + 1) - 1 = k /\ k - 1 \in 0 .. Len(r) /\ ~(k <= k - 1)
  BY <1>0, <1>2, <1>3
<1>5. Upto(r, k - 1) + Bytes(q[1]) = Upto(q, k)
  BY <1>1, <1>4
<1>6. Upto(r, k) = Upto(r, k - 1) + Bytes(r[k])
  BY <1>0, <1>4, UptoDef
<1>7. Upto(q, k + 1) = Upto(q, k) + Bytes(q[k + 1])
  BY <1>4, UptoDef
<1>8. r[k] = q[k + 1] /\ Bytes(r[k]) \in Nat /\ Bytes(q[1]) \in Nat /\ Upto(r, k - 1) \in Nat
  <2>1. r[k] = q[k + 1] /\ q[1] \in Frames /\ r[k] \in Frames
    BY <1>0, <1>4
  <2>2. Upto(r, k - 1) \in Nat
    BY <1>0, <1>4, UptoType
  <2> QED  BY <2>1, <2>2, BytesType
<1>9. Upto(r, k) + Bytes(q[1]) # Upto(q, k + 1)
  BY <1>1
<1> QED  BY <1>5, <1>6, <1>7, <1>8, <1>9

(* The bytes of the first frames, summed by the library's fold *)
LEMMA FoldUpto ==
  ASSUME NEW p \in Seq(Frames), NEW k \in 0 .. Len(p)
  PROVE  FoldLeft(LAMBDA n, f : n + Bytes(f), 0, SubSeq(p, 1, k)) = Upto(p, k)
<1> DEFINE q == SubSeq(p, 1, k)
<1>1. /\ q \in Seq(Frames) /\ Len(q) = k /\ DOMAIN q = 1 .. k
      /\ \A i \in 1 .. k : q[i] = p[i]
  OBVIOUS
<1>2. FoldLeft(LAMBDA n, f : n + Bytes(f), 0, q) = SumIter(q)[DOMAIN q]
  BY FoldIter, Zenon
<1> SUFFICES SumIter(q)[DOMAIN q] = Upto(p, k)
  BY <1>2, Zenon
<1> HIDE DEF q
<1>3. SumIter(q)[DOMAIN q] = Upto(q, k)
  BY <1>1, Zenon DEF Upto
<1>4. k \in 0 .. Len(q) /\ k <= Len(p) /\ k \in 0 .. k
  BY <1>1
<1> QED  BY <1>1, <1>3, <1>4, UptoAgree

(* The same for the frames on their way *)
LEMMA BytesUpToIs ==
  ASSUME pipe \in Seq(Frames)
  PROVE  \A k \in 0 .. Len(pipe) : BytesUpTo(k) = Upto(pipe, k)
BY FoldUpto, Zenon DEF BytesUpTo

(* What has not been read of them *)
LEMMA UnreadIs == pipe \in Seq(Frames) => Unread = Upto(pipe, Len(pipe)) - skip
<1> SUFFICES ASSUME pipe \in Seq(Frames) PROVE Unread = Upto(pipe, Len(pipe)) - skip
  OBVIOUS
<1>1. Len(pipe) \in 0 .. Len(pipe)
  OBVIOUS
<1>2. BytesUpTo(Len(pipe)) = Upto(pipe, Len(pipe))
  BY <1>1, BytesUpToIs
<1> QED  BY <1>2 DEF Unread

(* The same after a step *)
LEMMA UnreadNext == pipe' \in Seq(Frames) => Unread' = Upto(pipe', Len(pipe')) - skip'
<1>1. (pipe \in Seq(Frames) => Unread = Upto(pipe, Len(pipe)) - skip)'
  BY UnreadIs, PTL
<1> QED  BY <1>1

-----------------------------------------------------------------------------
(* What a Recv takes *)

(* A read takes the frames it reaches the end of. *)
LEMMA ReadTo ==
  ASSUME pipe \in Seq(Frames), skip \in Nat, NEW n \in Nat, NEW j \in 0 .. Len(pipe),
         Upto(pipe, j) <= skip + n, j < Len(pipe) => Upto(pipe, j + 1) > skip + n,
         Read(n)
  PROVE  /\ pipe' = SubSeq(pipe, j + 1, Len(pipe))
         /\ skip' = skip + n - Upto(pipe, j) /\ avail' = avail - n
<1> DEFINE Fits(k) == BytesUpTo(k) <= skip + n /\ (k < Len(pipe) => BytesUpTo(k + 1) > skip + n)
           found == CHOOSE k \in 0 .. Len(pipe) : Fits(k)
<1>1. \A k \in 0 .. Len(pipe) : /\ BytesUpTo(k) = Upto(pipe, k) /\ Upto(pipe, k) \in Nat
                                /\ k < Len(pipe) => k + 1 \in 0 .. Len(pipe)
  BY BytesUpToIs, UptoType
<1>2. Fits(j)
  BY <1>1
<1>3. found \in 0 .. Len(pipe) /\ Fits(found)
  <2> HIDE DEF Fits
  <2> QED  BY <1>2
<1>4. ASSUME NEW k \in 0 .. Len(pipe), Fits(k) PROVE k = j
  <2>1. CASE k < j
    <3>1. k + 1 \in 0 .. Len(pipe) /\ k < Len(pipe) /\ (k + 1 = j \/ k + 1 < j)
      BY <2>1
    <3>2. Upto(pipe, k + 1) > skip + n
      BY <1>1, <1>4, <3>1
    <3>3. k + 1 < j => Upto(pipe, k + 1) + 8 <= Upto(pipe, j)
      BY <3>1, UptoMore
    <3>4. Upto(pipe, k + 1) \in Nat /\ Upto(pipe, j) \in Nat
      BY <1>1, <3>1
    <3> QED  BY <3>1, <3>2, <3>3, <3>4
  <2>2. CASE j < k
    <3>1. j + 1 \in 0 .. Len(pipe) /\ j < Len(pipe) /\ (j + 1 = k \/ j + 1 < k)
      BY <2>2
    <3>2. Upto(pipe, k) <= skip + n
      BY <1>1, <1>4
    <3>3. j + 1 < k => Upto(pipe, j + 1) + 8 <= Upto(pipe, k)
      BY <3>1, UptoMore
    <3>4. Upto(pipe, j + 1) \in Nat /\ Upto(pipe, k) \in Nat
      BY <1>1, <3>1
    <3> QED  BY <3>1, <3>2, <3>3, <3>4
  <2> QED  BY <2>1, <2>2
<1>5. found = j
  <2> HIDE DEF found, Fits
  <2> QED  BY <1>3, <1>4
<1>6. /\ pipe' = SubSeq(pipe, found + 1, Len(pipe))
      /\ skip' = skip + n - BytesUpTo(found) /\ avail' = avail - n
  BY Zenon DEF Read
<1> HIDE DEF found
<1> QED  BY <1>1, <1>5, <1>6, Zenon

(* A part of the first frame, or nothing. *)
LEMMA ReadPart ==
  ASSUME pipe \in Seq(Frames), skip \in Nat, NEW n \in Nat,
         pipe # <<>> => skip + n < Bytes(pipe[1]), Read(n)
  PROVE  pipe' = pipe /\ skip' = skip + n /\ avail' = avail - n
<1>1. Upto(pipe, 0) = 0 /\ 0 \in 0 .. Len(pipe)
  BY UptoDef
<1>2. 0 < Len(pipe) => Upto(pipe, 0 + 1) > skip + n
  <2> SUFFICES ASSUME 0 < Len(pipe) PROVE Upto(pipe, 1) > skip + n
    OBVIOUS
  <2>1. pipe # <<>> /\ 1 \in 1 .. Len(pipe) /\ pipe[1] \in Frames /\ 1 - 1 = 0
    OBVIOUS
  <2>2. Upto(pipe, 1) = Upto(pipe, 1 - 1) + Bytes(pipe[1])
    BY <2>1, UptoDef
  <2>3. Bytes(pipe[1]) \in Nat
    BY <2>1, BytesType
  <2> QED  BY <1>1, <2>1, <2>2, <2>3
<1>3. pipe' = SubSeq(pipe, 0 + 1, Len(pipe)) /\ skip' = skip + n - 0 /\ avail' = avail - n
  <2>1. Upto(pipe, 0) <= skip + n
    BY <1>1
  <2> QED  BY <1>1, <1>2, <2>1, ReadTo
<1>4. SubSeq(pipe, 0 + 1, Len(pipe)) = pipe
  OBVIOUS
<1> QED  BY <1>3, <1>4

(* What is left of the first frame. *)
LEMMA ReadRest ==
  ASSUME pipe \in Seq(Frames), pipe # <<>>, skip \in Nat, NEW n \in Nat,
         skip + n = Bytes(pipe[1]), Read(n)
  PROVE  pipe' = Tail(pipe) /\ skip' = 0 /\ avail' = avail - n
<1>1. /\ 1 \in 1 .. Len(pipe) /\ 1 \in 0 .. Len(pipe) /\ pipe[1] \in Frames /\ 1 - 1 = 0
      /\ Len(pipe) \in Nat
  OBVIOUS
<1>2. Upto(pipe, 1) = Bytes(pipe[1]) /\ Bytes(pipe[1]) \in Nat
  <2>1. Upto(pipe, 1) = Upto(pipe, 1 - 1) + Bytes(pipe[1]) /\ Upto(pipe, 0) = 0
    BY <1>1, UptoDef
  <2>2. Bytes(pipe[1]) \in Nat
    BY <1>1, BytesType
  <2> QED  BY <1>1, <2>1, <2>2
<1>3. 1 < Len(pipe) => Upto(pipe, 1 + 1) > skip + n
  <2> SUFFICES ASSUME 1 < Len(pipe) PROVE Upto(pipe, 2) > skip + n
    OBVIOUS
  <2>1. 2 \in 0 .. Len(pipe) /\ 1 < 2
    OBVIOUS
  <2>2. Upto(pipe, 1) + 8 <= Upto(pipe, 2) /\ Upto(pipe, 2) \in Nat
    BY <1>1, <2>1, UptoMore, UptoType
  <2> QED  BY <1>2, <2>2
<1>4. /\ pipe' = SubSeq(pipe, 1 + 1, Len(pipe))
      /\ skip' = skip + n - Upto(pipe, 1) /\ avail' = avail - n
  <2>1. Upto(pipe, 1) <= skip + n
    BY <1>2
  <2> QED  BY <1>1, <1>3, <2>1, ReadTo
<1>5. SubSeq(pipe, 1 + 1, Len(pipe)) = Tail(pipe)
  <2>1. SubSeq(pipe, 2, Len(pipe)) = Tail(pipe)
    OBVIOUS
  <2> QED  BY <2>1
<1> QED  BY <1>2, <1>4, <1>5

-----------------------------------------------------------------------------
(* In step with the client *)

(* What a step that reads nothing leaves as it is. *)
LEMMA SameUnread ==
  ASSUME InStep, whole, UNCHANGED <<pipe, skip>>
  PROVE  Unread' = Unread
<1>1. pipe \in Seq(Frames) /\ pipe' \in Seq(Frames)
  BY DEF InStep
<1> QED  BY <1>1, UnreadIs, UnreadNext

(* The client sends a frame: it is logged. *)
LEMMA SendStep ==
  ASSUME InStep, Send
  PROVE  InStep' /\ Stream!Log
<1>1. /\ whole /\ pipe \in Seq(Frames) /\ skip \in Nat /\ avail \in Nat /\ avail <= Unread
      /\ \A k \in 1 .. Len(pipe) : pipe[k] # Close
      /\ UNCHANGED <<skip, avail, at, asked, got, first, text, whole>>
  BY DEF InStep, Send, recvVars, history
<1>2. PICK f \in Frames : pipe' = Append(pipe, f)
  BY DEF Send
<1>3. /\ pipe' \in Seq(Frames) /\ Len(pipe') = Len(pipe) + 1 /\ pipe'[Len(pipe) + 1] = f
      /\ Len(pipe) \in Nat /\ \A k \in 1 .. Len(pipe) : pipe'[k] = pipe[k]
  BY <1>1, <1>2
<1>4. avail' <= Unread'
  <2>1. Upto(pipe', Len(pipe)) = Upto(pipe, Len(pipe)) /\ Upto(pipe, Len(pipe)) \in Nat
    <3>1. Len(pipe) \in 0 .. Len(pipe) /\ Len(pipe) <= Len(pipe')
      BY <1>3
    <3> QED  BY <1>1, <1>3, <3>1, UptoAgree, UptoType
  <2>2. Upto(pipe', Len(pipe')) = Upto(pipe', Len(pipe)) + Bytes(f)
    <3>1. Len(pipe') \in 1 .. Len(pipe') /\ Len(pipe') - 1 = Len(pipe)
      BY <1>3
    <3> QED  BY <1>3, <3>1, UptoDef
  <2>3. Bytes(f) \in Nat
    BY BytesType
  <2>4. Unread = Upto(pipe, Len(pipe)) - skip /\ Unread' = Upto(pipe', Len(pipe')) - skip
    BY <1>1, <1>3, UnreadIs, UnreadNext
  <2> QED  BY <1>1, <2>1, <2>2, <2>3, <2>4
<1>5. \A k \in 1 .. Len(pipe') : pipe'[k] = Close => k = Len(pipe')
  BY <1>1, <1>3
<1>6. pipe # <<>> => pipe' # <<>> /\ Head(pipe') = Head(pipe)
  BY <1>1, <1>2
<1>7. InStep'
  BY <1>1, <1>3, <1>4, <1>5, <1>6 DEF InStep, RestPayload, HeaderLen
<1>8. Undispatched' = Append(Undispatched, f)
  <2>1. <<first>> \o Append(pipe, f) = Append(<<first>> \o pipe, f)
    BY <1>1
  <2> QED  BY <1>1, <1>2, <2>1 DEF Undispatched, InSync
<1> QED  BY <1>1, <1>7, <1>8 DEF Stream!Log

(* Bytes that arrive change nothing that LogStream sees. *)
LEMMA ArriveStep ==
  ASSUME InStep, Arrive
  PROVE  InStep' /\ UNCHANGED <<Undispatched, text>>
<1>1. /\ whole /\ pipe \in Seq(Frames) /\ skip \in Nat /\ avail \in Nat
      /\ UNCHANGED <<pipe, skip, at, asked, got, first, text, whole>>
      /\ avail' \in avail + 1 .. Unread
  BY DEF InStep, Arrive, recvVars, history
<1>2. Unread' = Unread /\ Unread \in Int
  <2>1. Len(pipe) \in 0 .. Len(pipe)
    BY <1>1
  <2>2. Unread \in Int
    BY <1>1, <2>1, UnreadIs, UptoType
  <2> QED  BY <1>1, <2>2, SameUnread
<1>3. avail' \in Nat /\ avail' <= Unread'
  BY <1>1, <1>2
<1>4. InStep'
  BY <1>1, <1>3 DEF InStep, RestPayload, HeaderLen
<1> QED  BY <1>1, <1>4 DEF Undispatched, InSync

(* Neither does the poll of a frame, nor its end. *)
LEMMA PollStep ==
  ASSUME InStep, whole, Poll \/ WouldBlock
  PROVE  InStep' /\ UNCHANGED <<Undispatched, text>>
<1>1. /\ UNCHANGED <<pipe, skip, avail, asked, got, first, text, whole>>
      /\ at \in {"idle", "loop"} /\ at' \in {"idle", "loop"}
  BY DEF Poll, WouldBlock, recvVars, history
<1>2. Unread' = Unread
  BY <1>1, SameUnread
<1>3. InStep'
  BY <1>1, <1>2 DEF InStep
<1> QED  BY <1>1, <1>3 DEF Undispatched

(* The lengths that are read. *)
LEMMA RestType ==
  ASSUME NEW f \in TextFrames
  PROVE  /\ f \in Frames /\ f # Close /\ RestPayload(f) \in Nat
         /\ Bytes(f) = Chunk + RestPayload(f) /\ Bytes(f) \in Nat
<1>1. f \in Frames /\ f # Close
  BY DEF Frames, TextFrames, Close
<1>2. /\ Bytes(f) \in Nat /\ Bytes(f) >= Chunk /\ f.len \in Nat
      /\ HeaderLen(f) \in {6, 8, 14} /\ Bytes(f) = HeaderLen(f) + f.len
  BY <1>1, BytesType
<1>3. RestPayload(f) = f.len - (14 - HeaderLen(f)) /\ Chunk = 14
  BY DEF RestPayload, Chunk
<1> HIDE DEF Chunk
<1> QED  BY <1>1, <1>2, <1>3

(* Where the mod is in step, what has arrived begins with a frame, which is   *)
(* the close only if it has less than 14 bytes.                               *)
LEMMA FirstArrived ==
  ASSUME InStep, whole, skip = 0, avail > 0
  PROVE  /\ pipe # <<>> /\ Head(pipe) = pipe[1] /\ pipe[1] \in Frames
         /\ Upto(pipe, Len(pipe)) = Unread
         /\ pipe[1] = Close => pipe = <<Close>> /\ avail <= 8
<1>1. pipe \in Seq(Frames) /\ avail \in Nat /\ avail <= Unread
      /\ \A k \in 1 .. Len(pipe) : pipe[k] = Close => k = Len(pipe)
  BY DEF InStep
<1>2. Upto(pipe, Len(pipe)) = Unread
  <2>1. Len(pipe) \in 0 .. Len(pipe)
    BY <1>1
  <2>2. Upto(pipe, Len(pipe)) \in Nat
    BY <1>1, <2>1, UptoType
  <2> QED  BY <1>1, <2>2, UnreadIs
<1>3. pipe # <<>>
  <2> SUFFICES ASSUME pipe = <<>> PROVE FALSE
    OBVIOUS
  <2>1. Upto(pipe, Len(pipe)) = 0
    <3>1. Len(pipe) = 0
      OBVIOUS
    <3> QED  BY <1>1, <3>1, UptoDef
  <2> QED  BY <1>1, <1>2, <2>1
<1>4. Head(pipe) = pipe[1] /\ pipe[1] \in Frames /\ 1 \in 1 .. Len(pipe) /\ 1 - 1 = 0
  BY <1>1, <1>3
<1>5. ASSUME pipe[1] = Close PROVE pipe = <<Close>> /\ avail <= 8
  <2>1. Len(pipe) = 1
    BY <1>1, <1>4, <1>5
  <2>2. pipe = <<Close>>
    BY <1>1, <1>5, <2>1
  <2>3. Upto(pipe, 1) = Upto(pipe, 1 - 1) + Bytes(pipe[1]) /\ Upto(pipe, 0) = 0
    BY <1>1, <1>4, UptoDef
  <2>4. Bytes(pipe[1]) = 8
    BY <1>4, <1>5, BytesType
  <2> QED  BY <1>1, <1>2, <1>4, <2>1, <2>2, <2>3, <2>4
<1> QED  BY <1>2, <1>3, <1>4, <1>5

(* The rest of the first frame is read. *)
LEMMA OneLess ==
  ASSUME NEW n \in Nat \ {0}, NEW m, m = n - 1
  PROVE  /\ m \in 0 .. n - 1 /\ m + 1 = n /\ m \in 0 .. m
         /\ \A k \in 1 .. m : k + 1 = n => k = m
OBVIOUS

(* The frames after the first *)
LEMMA TailFacts ==
  ASSUME NEW p \in Seq(Frames), p # <<>>, NEW r, r = Tail(p),
         \A k \in 1 .. Len(p) : p[k] = Close => k = Len(p)
  PROVE  /\ r \in Seq(Frames) /\ \A k \in 1 .. Len(r) : r[k] = Close => k = Len(r)
         /\ Upto(r, Len(r)) + Bytes(p[1]) = Upto(p, Len(p)) /\ Upto(r, Len(r)) \in Nat
<1>1. /\ r \in Seq(Frames) /\ Len(r) = Len(p) - 1 /\ Len(p) \in Nat \ {0}
      /\ \A k \in 1 .. Len(r) : r[k] = p[k + 1] /\ k + 1 \in 1 .. Len(p)
  OBVIOUS
<1>2. \A k \in 1 .. Len(r) : r[k] = Close => k = Len(r)
  <2> SUFFICES ASSUME NEW k \in 1 .. Len(r), r[k] = Close PROVE k = Len(r)
    OBVIOUS
  <2>1. p[k + 1] = Close /\ k + 1 \in 1 .. Len(p)
    BY <1>1, Zenon
  <2>2. k + 1 = Len(p)
    BY <2>1, Zenon
  <2> QED  BY <1>1, <2>2, OneLess, ZenonT(40)
<1>3. Len(r) \in 0 .. Len(p) - 1 /\ Len(r) + 1 = Len(p) /\ Len(r) \in 0 .. Len(r)
  BY <1>1, OneLess, Zenon
<1>4. Upto(Tail(p), Len(r)) + Bytes(p[1]) = Upto(p, Len(r) + 1)
  BY <1>3, UptoTail
<1>5. Upto(r, Len(r)) \in Nat
  BY <1>1, <1>3, UptoType
<1> QED  BY <1>1, <1>2, <1>3, <1>4, <1>5, Zenon

(* Once the first frame has been read to its end, the bytes of the others are left. *)
LEMMA TailUnread ==
  ASSUME pipe \in Seq(Frames), pipe # <<>>, pipe' = Tail(pipe), skip' = 0, skip \in Nat,
         NEW n \in Nat, skip + n = Bytes(pipe[1]), avail \in Nat, avail >= n, avail <= Unread,
         avail' = avail - n,
         \A k \in 1 .. Len(pipe) : pipe[k] = Close => k = Len(pipe)
  PROVE  /\ pipe' \in Seq(Frames) /\ skip' \in Nat /\ avail' \in Nat /\ avail' <= Unread'
         /\ \A k \in 1 .. Len(pipe') : pipe'[k] = Close => k = Len(pipe')
<1>1. /\ pipe' \in Seq(Frames) /\ \A k \in 1 .. Len(pipe') : pipe'[k] = Close => k = Len(pipe')
      /\ Upto(pipe', Len(pipe')) + Bytes(pipe[1]) = Upto(pipe, Len(pipe))
      /\ Upto(pipe', Len(pipe')) \in Nat
  BY TailFacts
<1>2. Unread = Upto(pipe, Len(pipe)) - skip /\ Unread' = Upto(pipe', Len(pipe')) - skip'
  BY <1>1, UnreadIs, UnreadNext
<1>3. avail' \in Nat /\ avail' <= Unread'
  <2>1. /\ Upto(pipe', Len(pipe')) + (skip + n) = Upto(pipe, Len(pipe))
        /\ Upto(pipe', Len(pipe')) \in Nat
    BY <1>1, Zenon
  <2> QED  BY <1>2, <2>1
<1> QED  BY <1>1, <1>3

(* A part of it is read. *)
LEMMA PartUnread ==
  ASSUME pipe \in Seq(Frames), pipe' = pipe, skip \in Nat,
         NEW n \in Nat, skip' = skip + n, avail \in Nat, avail >= n, avail <= Unread,
         avail' = avail - n
  PROVE  skip' \in Nat /\ avail' \in Nat /\ avail' <= Unread'
<1>1. Unread = Upto(pipe, Len(pipe)) - skip /\ Unread' = Upto(pipe', Len(pipe')) - skip'
  BY UnreadIs, UnreadNext
<1>2. Upto(pipe, Len(pipe)) \in Nat
  <2>1. Len(pipe) \in 0 .. Len(pipe)
    OBVIOUS
  <2> QED  BY <2>1, UptoType
<1> QED  BY <1>1, <1>2

(* The first of a sequence and the others are the sequence. *)
LEMMA HeadTail ==
  ASSUME NEW p \in Seq(Frames), p # <<>>
  PROVE  <<Head(p)>> \o Tail(p) = p
OBVIOUS

(* A payload is not in what a Recv has read of the header. *)
LEMMA MoreThanChunk == ASSUME NEW n \in Nat, n # 0 PROVE 0 + 14 < 14 + n
OBVIOUS

(* The header of a frame is read, and what came with it. *)
LEMMA RecvHeaderStep ==
  ASSUME InStep, whole, RecvHeader
  PROVE  InStep' /\ UNCHANGED <<Undispatched, text>>
<1>1. /\ pipe \in Seq(Frames) /\ skip = 0 /\ avail \in Nat /\ avail <= Unread
      /\ \A k \in 1 .. Len(pipe) : pipe[k] = Close => k = Len(pipe)
      /\ at = "loop" /\ at' = "payload" /\ avail >= Chunk /\ Read(Chunk)
      /\ UNCHANGED <<got, text, whole>>
  BY DEF InStep, RecvHeader, history
<1>2. Chunk = 14 /\ Chunk \in Nat
  BY DEF Chunk
<1>3. /\ pipe # <<>> /\ Head(pipe) = pipe[1] /\ pipe[1] \in Frames /\ pipe[1] # Close
  BY <1>1, <1>2, FirstArrived
<1>4. first' = Head(pipe) /\ asked' = RestPayload(Head(pipe)) /\ first' \in TextFrames
  <2>1. Head(pipe) \in TextFrames
    BY <1>3 DEF Frames
  <2> QED  BY <1>1, <2>1 DEF RecvHeader, InSync
<1>5. /\ Bytes(pipe[1]) = Chunk + asked' /\ asked' \in Nat
  BY <1>3, <1>4, RestType
<1>6. RestPayload(first)' = asked'
  BY <1>4, Zenon DEF RestPayload, HeaderLen
<1>7. CASE asked' = 0
  <2>1. skip + Chunk = Bytes(pipe[1])
    BY <1>1, <1>2, <1>5, <1>7
  <2>2. pipe' = Tail(pipe) /\ skip' = 0 /\ avail' = avail - Chunk
    BY <1>1, <1>2, <1>3, <2>1, ReadRest
  <2>3. /\ pipe' \in Seq(Frames) /\ skip' \in Nat /\ avail' \in Nat /\ avail' <= Unread'
        /\ \A k \in 1 .. Len(pipe') : pipe'[k] = Close => k = Len(pipe')
    BY <1>1, <1>2, <1>3, <2>1, <2>2, TailUnread
  <2>4. InStep'
    BY <1>1, <1>4, <1>6, <1>7, <2>2, <2>3 DEF InStep
  <2>5. Undispatched' = <<Head(pipe)>> \o Tail(pipe)
    BY <1>1, <1>4, <2>2 DEF Undispatched, InSync
  <2>6. Undispatched = pipe
    BY <1>1 DEF Undispatched
  <2> QED  BY <1>1, <1>3, <2>4, <2>5, <2>6, HeadTail
<1>8. CASE asked' # 0
  <2>1. skip + Chunk < Bytes(pipe[1])
    <3>1. 0 + 14 < 14 + asked'
      BY <1>5, <1>8, MoreThanChunk
    <3> QED  BY <1>1, <1>2, <1>5, <3>1, Zenon
  <2>2. pipe' = pipe /\ skip' = skip + Chunk /\ avail' = avail - Chunk
    BY <1>1, <1>2, <2>1, ReadPart
  <2>3. skip' \in Nat /\ avail' \in Nat /\ avail' <= Unread'
    BY <1>1, <1>2, <2>2, PartUnread
  <2>4. skip' = Chunk /\ skip' # 0
    BY <1>1, <1>2, <2>2
  <2>5. InStep'
    BY <1>1, <1>3, <1>4, <1>6, <1>8, <2>2, <2>3, <2>4 DEF InStep
  <2>6. Undispatched' = pipe' /\ Undispatched = pipe
    BY <1>1, <2>4 DEF Undispatched, InSync
  <2> QED  BY <1>1, <2>2, <2>5, <2>6
<1> QED  BY <1>7, <1>8

(* The close is thrown away. *)
LEMMA DropStep ==
  ASSUME InStep, whole, whole', DropBytes
  PROVE  InStep' /\ Stream!Drop
<1>1. /\ pipe \in Seq(Frames) /\ skip = 0 /\ avail \in Nat /\ avail <= Unread
      /\ \A k \in 1 .. Len(pipe) : pipe[k] = Close => k = Len(pipe)
      /\ at = "loop" /\ at' = "idle" /\ avail > 0 /\ Read(Least(avail, Chunk))
      /\ Head(pipe) = Close /\ avail = Bytes(Close)
      /\ UNCHANGED <<asked, got, first, text>>
  BY DEF InStep, DropBytes, recvVars
<1>2. pipe # <<>> /\ Head(pipe) = pipe[1] /\ pipe[1] \in Frames
  BY <1>1, FirstArrived
<1>3. Bytes(Close) = 8 /\ Least(8, Chunk) = 8
  <2>1. Bytes(Close) = 8
    BY <1>1, <1>2, BytesType
  <2> QED  BY <2>1 DEF Least, Chunk
<1>4. Read(8) /\ skip + 8 = Bytes(pipe[1]) /\ skip \in Nat /\ avail >= 8
  <2>1. Read(8)
    BY <1>1, <1>3, Zenon
  <2> QED  BY <1>1, <1>2, <1>3, <2>1
<1>5. pipe' = Tail(pipe) /\ skip' = 0 /\ avail' = avail - 8
  BY <1>1, <1>2, <1>4, ReadRest
<1>6. /\ pipe' \in Seq(Frames) /\ skip' \in Nat /\ avail' \in Nat /\ avail' <= Unread'
      /\ \A k \in 1 .. Len(pipe') : pipe'[k] = Close => k = Len(pipe')
  BY <1>1, <1>2, <1>4, <1>5, TailUnread
<1>7. InStep'
  BY <1>1, <1>5, <1>6 DEF InStep
<1>8. Undispatched = pipe /\ Undispatched' = Tail(pipe)
  BY <1>1, <1>5 DEF Undispatched
<1> QED  BY <1>1, <1>2, <1>7, <1>8 DEF Stream!Drop

(* The rest of the payload is read. *)
LEMMA RecvPayloadStep ==
  ASSUME InStep, whole, whole', RecvPayload
  PROVE  InStep' /\ UNCHANGED <<Undispatched, text>>
<1>1. /\ pipe \in Seq(Frames) /\ skip \in Nat /\ avail \in Nat /\ avail <= Unread
      /\ \A k \in 1 .. Len(pipe) : pipe[k] = Close => k = Len(pipe)
      /\ at = "payload" /\ at' = "dispatch" /\ got' = Least(avail, asked)
      /\ Read(Least(avail, asked)) /\ avail >= asked
      /\ first \in TextFrames /\ asked = RestPayload(first)
      /\ UNCHANGED <<asked, first, text>>
  BY DEF InStep, RecvPayload
<1>2. asked \in Nat /\ Bytes(first) = Chunk + asked
  BY <1>1, RestType
<1>3. Least(avail, asked) = asked
  BY <1>1, <1>2 DEF Least
<1>4. Read(asked) /\ got' = asked
  BY <1>1, <1>3, Zenon
<1>5. CASE asked = 0
  <2>1. skip = 0
    BY <1>1, <1>5 DEF InStep
  <2>2. pipe # <<>> => skip + asked < Bytes(pipe[1])
    <3> SUFFICES ASSUME pipe # <<>> PROVE skip + asked < Bytes(pipe[1])
      OBVIOUS
    <3>1. pipe[1] \in Frames
      BY <1>1
    <3>2. Bytes(pipe[1]) \in Nat /\ Bytes(pipe[1]) >= 8
      BY <3>1, BytesType
    <3> QED  BY <1>5, <2>1, <3>2
  <2>3. pipe' = pipe /\ skip' = skip + asked /\ avail' = avail - asked
    BY <1>1, <1>2, <1>4, <2>2, ReadPart
  <2>4. skip' \in Nat /\ avail' \in Nat /\ avail' <= Unread'
    BY <1>1, <1>2, <2>3, PartUnread
  <2>5. skip' = 0
    BY <1>5, <2>1, <2>3
  <2>6. InStep'
    BY <1>1, <1>4, <2>3, <2>4, <2>5 DEF InStep
  <2>7. Undispatched' = Undispatched
    BY <1>1, <2>1, <2>3 DEF Undispatched, InSync
  <2> QED  BY <1>1, <2>6, <2>7
<1>6. CASE asked # 0
  <2>1. skip = Chunk /\ pipe # <<>> /\ Head(pipe) = first
    BY <1>1, <1>6 DEF InStep
  <2>2. pipe[1] = first /\ skip + asked = Bytes(pipe[1])
    BY <1>1, <1>2, <2>1
  <2>3. pipe' = Tail(pipe) /\ skip' = 0 /\ avail' = avail - asked
    BY <1>1, <1>2, <1>4, <2>1, <2>2, ReadRest
  <2>4. /\ pipe' \in Seq(Frames) /\ skip' \in Nat /\ avail' \in Nat /\ avail' <= Unread'
        /\ \A k \in 1 .. Len(pipe') : pipe'[k] = Close => k = Len(pipe')
    BY <1>1, <1>2, <2>1, <2>2, <2>3, TailUnread
  <2>5. InStep'
    BY <1>1, <1>4, <2>3, <2>4 DEF InStep
  <2>6. Undispatched = pipe /\ Undispatched' = <<Head(pipe)>> \o Tail(pipe)
    BY <1>1, <2>1, <2>3 DEF Undispatched, InSync, Chunk
  <2> QED  BY <1>1, <2>1, <2>5, <2>6, HeadTail
<1> QED  BY <1>5, <1>6

(* The dispatch of a frame is where it is sent on. *)
LEMMA DispatchStep ==
  ASSUME InStep, whole, Dispatch
  PROVE  InStep' /\ Stream!Send
<1>1. /\ pipe \in Seq(Frames) /\ at = "dispatch" /\ at' = "loop"
      /\ first \in TextFrames /\ text' = first /\ skip = 0
      /\ UNCHANGED <<pipe, skip, avail, whole>>
  BY DEF InStep, Dispatch
<1>2. Unread' = Unread
  BY <1>1, SameUnread
<1>3. InStep'
  BY <1>1, <1>2 DEF InStep
<1>4. Undispatched = <<first>> \o pipe /\ Undispatched' = pipe
  BY <1>1 DEF Undispatched
<1>5. <<first>> \o pipe # <<>> /\ Head(<<first>> \o pipe) = first /\ Tail(<<first>> \o pipe) = pipe
  BY <1>1
<1>6. first # Close
  BY <1>1, RestType
<1> QED  BY <1>1, <1>3, <1>4, <1>5, <1>6 DEF Stream!Send

(* The frames of the web frontend are dispatched whole, once and in order, as *)
(* long as every Recv finds all of the frame it reads: the mod implements the *)
(* stream of module LogStream until then.                                     *)
THEOREM DispatchCorrect == Spec => DispatchedInOrder
<1>1. Init => InStep /\ Stream!Init
  <2> SUFFICES ASSUME Init PROVE InStep /\ Stream!Init
    OBVIOUS
  <2>1. pipe = <<>> /\ skip = 0 /\ avail = 0 /\ at = "idle" /\ text = Nothing
    BY DEF Init
  <2>2. pipe \in Seq(Frames) /\ Len(pipe) = 0
    BY <2>1
  <2>3. Unread = 0
    <3>1. Upto(pipe, 0) = 0
      BY <2>2, UptoDef
    <3> QED  BY <2>1, <2>2, <3>1, UnreadIs
  <2>4. InStep
    BY <2>1, <2>2, <2>3 DEF InStep
  <2>5. Undispatched = <<>>
    BY <2>1 DEF Undispatched
  <2> QED  BY <2>1, <2>4, <2>5 DEF Stream!Init
<1>2. InStep /\ [Next]_vars =>
        /\ InStep'
        /\ whole' => Stream!Next \/ UNCHANGED <<Undispatched, text>>
  <2> SUFFICES ASSUME InStep, [Next]_vars, whole'
               PROVE  InStep' /\ (Stream!Next \/ UNCHANGED <<Undispatched, text>>)
    BY Zenon DEF InStep
  <2>1. whole
    BY DEF Next, Receive, Send, Arrive, Poll, WouldBlock, RecvHeader, DropBytes, RecvPayload,
           Dispatch, vars, history
  <2>2. CASE Send
    BY <2>2, SendStep DEF Stream!Next
  <2>3. CASE Arrive
    BY <2>3, ArriveStep
  <2>4. CASE Poll \/ WouldBlock
    BY <2>1, <2>4, PollStep
  <2>5. CASE RecvHeader
    BY <2>1, <2>5, RecvHeaderStep
  <2>6. CASE DropBytes
    BY <2>1, <2>6, DropStep DEF Stream!Next
  <2>7. CASE RecvPayload
    BY <2>1, <2>7, RecvPayloadStep
  <2>8. CASE Dispatch
    BY <2>1, <2>8, DispatchStep DEF Stream!Next
  <2>9. CASE UNCHANGED vars
    <3>1. UNCHANGED <<pipe, skip, avail, at, asked, got, first, text, whole>>
      BY <2>9 DEF vars, recvVars, history
    <3>2. Unread' = Unread
      BY <2>1, <3>1, SameUnread
    <3>3. InStep'
      BY <3>1, <3>2 DEF InStep, RestPayload, HeaderLen
    <3> QED  BY <3>1, <3>3 DEF Undispatched, InSync
  <2> QED
    BY <2>2, <2>3, <2>4, <2>5, <2>6, <2>7, <2>8, <2>9 DEF Next, Receive
<1> QED  BY <1>1, <1>2, PTL DEF Spec, DispatchedInOrder
=============================================================================
