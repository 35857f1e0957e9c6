---------------------------- MODULE SendQueueProofs ----------------------------
(***************************************************************************)
(* What is proved about the send queue of module SendQueue: the header of  *)
(* every text reads back; the ring is a chain of whole frames whatever is  *)
(* stored and read without the mutex; and the queue implements the stream  *)
(* of module LogStream.                                                    *)
(***************************************************************************)
EXTENDS SendQueue, FiniteSetTheorems, SequenceTheorems, WellFoundedInduction, TLAPS

(* The bytes of a large header, put together again, are the length. *)
LEMMA LargeLength ==
  ASSUME NEW n \in Nat
  PROVE  /\ n \in Int
         /\ (n \div 16777216) * 16777216 + ((n % 16777216) \div 65536) * 65536
             + ((n % 65536) \div 256) * 256 + (n % 256) = n
<1>1. n = (n \div 16777216) * 16777216 + (n % 16777216)  BY SMT
<1>2. n % 16777216 = ((n % 16777216) \div 65536) * 65536 + (n % 65536)  BY SMT
<1>3. n % 65536 = ((n % 65536) \div 256) * 256 + (n % 256)  BY SMT
<1> QED  BY SMT, <1>1, <1>2, <1>3

(* What serializeHeader writes, getSerializedFrameSize reads. *)
LEMMA HeaderReadBack ==
  ASSUME NEW n \in Nat
  PROVE  SerializedFrameSize(Header(n)) = FrameLen(n)
<1>1. CASE n <= 125
  <2>1. HeaderLen(n) = 2 /\ n % 256 = n  BY SMT, <1>1 DEF HeaderLen
  <2>2. Header(n)[2] = n  BY SMT, <2>1 DEF Header
  <2> QED  BY SMT, <1>1, <2>1, <2>2 DEF SerializedFrameSize, FrameLen, Small
<1>2. CASE 125 < n /\ n < 65535
  <2>1. HeaderLen(n) = 4  BY SMT, <1>2 DEF HeaderLen
  <2>2. /\ Header(n)[2] = Small
        /\ Header(n)[3] = (n \div 256) % 256 /\ Header(n)[4] = n % 256
    BY SMT, <2>1 DEF Header
  <2>3. (n \div 256) % 256 = n \div 256  BY SMT, <1>2
  <2>4. (n \div 256) * 256 + (n % 256) = n  BY SMT
  <2> QED  BY SMT, <2>1, <2>2, <2>3, <2>4 DEF SerializedFrameSize, FrameLen, Small
<1>3. CASE n >= 65535
  <2>1. HeaderLen(n) = 10  BY SMT, <1>3 DEF HeaderLen
  <2>2. /\ Header(n)[2] = Large
        /\ Header(n)[7] = n \div 16777216 /\ Header(n)[8] = (n % 16777216) \div 65536
        /\ Header(n)[9] = (n % 65536) \div 256 /\ Header(n)[10] = n % 256
    BY SMT, <2>1 DEF Header
  <2>3. SerializedFrameSize(Header(n)) =
          10 + (n \div 16777216) * 16777216 + ((n % 16777216) \div 65536) * 65536
             + ((n % 65536) \div 256) * 256 + (n % 256)
    BY SMT, <2>2 DEF SerializedFrameSize, Small, Large
  <2>4. /\ n \div 16777216 \in Int /\ (n % 16777216) \div 65536 \in Int
        /\ (n % 65536) \div 256 \in Int /\ n % 256 \in Int
    BY SMT
  <2> QED  BY SMT, <2>1, <2>3, <2>4, LargeLength DEF FrameLen
<1> QED  BY SMT, <1>1, <1>2, <1>3

(* Whatever the lengths of the messages, the flush finds the frames where    *)
(* the enqueue put them.                                                     *)
THEOREM ReadBackCorrect == Spec => []ReadBack
<1>1. ReadBack
  <2> SUFFICES ASSUME NEW n \in Payloads PROVE SerializedFrameSize(Header(n)) = FrameLen(n)
    BY DEF ReadBack
  <2> n \in Nat  BY SMT, PayloadAssumption
  <2> QED  BY HeaderReadBack
<1> QED  BY <1>1, PTL

-----------------------------------------------------------------------------
(* Sums over the threads *)

(* Among subsets of a finite set, one has the fewest elements. *)
LEMMA LeastSet ==
  ASSUME NEW S, IsFiniteSet(S), NEW P, P \subseteq SUBSET S, P # {}
  PROVE  \E T \in P : \A U \in P : Cardinality(T) <= Cardinality(U)
<1> DEFINE sizes == {Cardinality(T) : T \in P}
<1>1. \A T \in P : Cardinality(T) \in Nat
  BY FS_Subset, FS_CardinalityType
<1>2. sizes \subseteq Nat /\ sizes # {}
  BY <1>1
<1>3. PICK x \in sizes : \A y \in sizes : ~(<<y, x>> \in OpToRel(<, Nat))
  <2> HIDE DEF sizes
  <2> QED  BY <1>2, WFMin, NatLessThanWellFounded
<1>4. PICK T \in P : Cardinality(T) = x
  BY <1>3
<1>5. ASSUME NEW U \in P PROVE Cardinality(T) <= Cardinality(U)
  <2>1. Cardinality(U) \in sizes /\ Cardinality(U) \in Nat /\ Cardinality(T) \in Nat
    BY <1>1, <1>4
  <2>2. Cardinality(U) < Cardinality(T) => <<Cardinality(U), Cardinality(T)>> \in OpToRel(<, Nat)
    BY <2>1 DEF OpToRel
  <2>3. ~(Cardinality(U) < Cardinality(T))
    BY <1>3, <1>4, <2>1, <2>2, Zenon
  <2> QED  BY <2>1, <2>3
<1> QED  BY <1>4, <1>5

Pick(s) == CHOOSE x \in s : TRUE
Sums(f, w, S) == f = [s \in S |-> IF s = {} THEN 0 ELSE w[Pick(s)] + f[s \ {Pick(s)}]]
SumIter(w, S) == CHOOSE f : f = [s \in SUBSET S |-> IF s = {} THEN 0 ELSE w[Pick(s)] + f[s \ {Pick(s)}]]

(* The library's sum is the last value of that function. *)
LEMMA SumFunctionIter ==
  ASSUME NEW w PROVE SumFunction(w) = SumIter(w, DOMAIN w)[DOMAIN w]
BY Zenon DEF SumFunction, SumFunctionOnSet, FoldFunctionOnSet, MapThenFoldSet, SumIter, Pick

(* What is picked of a set is in it. *)
LEMMA PickIn == ASSUME NEW s, s # {} PROVE Pick(s) \in s
BY DEF Pick

(* A finite set loses an element and gets smaller. *)
LEMMA Smaller ==
  ASSUME NEW S, IsFiniteSet(S), NEW T \in SUBSET S, NEW t \in T
  PROVE  /\ T \ {t} \in SUBSET S /\ Cardinality(T) \in Nat
         /\ Cardinality(T \ {t}) \in Nat /\ Cardinality(T \ {t}) < Cardinality(T)
<1>1. IsFiniteSet(T) /\ Cardinality(T) \in Nat
  BY FS_Subset, FS_CardinalityType
<1>2. Cardinality(T \ {t}) = Cardinality(T) - 1 /\ IsFiniteSet(T \ {t})
  BY <1>1, FS_RemoveElement
<1>3. Cardinality(T \ {t}) \in Nat
  BY <1>2, FS_CardinalityType
<1> QED  BY <1>1, <1>2, <1>3

(* There is such a function, although its definition refers to itself. *)
LEMMA SumExists ==
  ASSUME NEW w, NEW S, IsFiniteSet(S)
  PROVE  \E f : Sums(f, w, SUBSET S)
<1> DEFINE Upto(n) == {s \in SUBSET S : Cardinality(s) <= n}
           bad == {n \in Nat : ~ \E f : Sums(f, w, Upto(n))}
<1>1. bad = {}
  <2> SUFFICES ASSUME bad # {} PROVE FALSE
    OBVIOUS
  <2>1. PICK n \in bad : \A m \in bad : ~(<<m, n>> \in OpToRel(<, Nat))
    <3>1. bad \subseteq Nat
      OBVIOUS
    <3> HIDE DEF bad
    <3> QED  BY <3>1, WFMin, NatLessThanWellFounded
  <2>2. n \in Nat
    OBVIOUS
  <2>3. \E f : \A s \in Upto(n) : s # {} =>
            f[s \ {Pick(s)}] = IF s \ {Pick(s)} = {} THEN 0
                               ELSE w[Pick(s \ {Pick(s)})] + f[(s \ {Pick(s)}) \ {Pick(s \ {Pick(s)})}]
    <3>1. CASE n = 0
      <4>1. ASSUME NEW s \in Upto(n) PROVE s = {}
        <5>1. IsFiniteSet(s) /\ Cardinality(s) \in Nat
          BY FS_Subset, FS_CardinalityType
        <5> QED  BY <3>1, <5>1, FS_EmptySet
      <4> HIDE DEF Upto
      <4> QED  BY <4>1, Zenon
    <3>2. CASE n # 0
      <4>1. n - 1 \in Nat /\ <<n - 1, n>> \in OpToRel(<, Nat)
        BY <2>2, <3>2 DEF OpToRel
      <4>2. n - 1 \notin bad
        BY <2>1, <4>1, Zenon
      <4>3. PICK f : Sums(f, w, Upto(n - 1))
        BY <4>1, <4>2
      <4>4. ASSUME NEW s \in Upto(n), s # {}
            PROVE  s \ {Pick(s)} \in Upto(n - 1)
        BY <2>2, <4>4, PickIn, Smaller
      <4>5. \A s \in Upto(n - 1) : f[s] = IF s = {} THEN 0 ELSE w[Pick(s)] + f[s \ {Pick(s)}]
        BY <4>3, Zenon DEF Sums
      <4> HIDE DEF Upto
      <4> QED  BY <4>4, <4>5, Zenon
    <3> QED  BY <3>1, <3>2
  <2>4. PICK f : \A s \in Upto(n) : s # {} =>
            f[s \ {Pick(s)}] = IF s \ {Pick(s)} = {} THEN 0
                               ELSE w[Pick(s \ {Pick(s)})] + f[(s \ {Pick(s)}) \ {Pick(s \ {Pick(s)})}]
    BY <2>3
  <2> DEFINE g == [s \in Upto(n) |-> IF s = {} THEN 0 ELSE w[Pick(s)] + f[s \ {Pick(s)}]]
  <2>5. ASSUME NEW s \in Upto(n)
        PROVE  g[s] = IF s = {} THEN 0 ELSE w[Pick(s)] + g[s \ {Pick(s)}]
    <3>1. CASE s = {}
      BY <3>1, Zenon
    <3>2. CASE s # {}
      <4>1. s \ {Pick(s)} \in Upto(n)
        BY <2>2, <3>2, PickIn, Smaller
      <4>2. g[s \ {Pick(s)}] = f[s \ {Pick(s)}]
        <5> HIDE DEF Upto
        <5> QED  BY <2>4, <3>2, <4>1, Zenon
      <4> QED  BY <3>2, <4>2, Zenon
    <3> QED  BY <3>1, <3>2
  <2>6. g = [s \in Upto(n) |-> g[s]]
    BY Zenon
  <2>7. Sums(g, w, Upto(n))
    <3> HIDE DEF g
    <3> QED  BY <2>5, <2>6, Zenon DEF Sums
  <2> QED  BY <2>7
<1>2. Cardinality(S) \in Nat
  BY FS_CardinalityType
<1>3. Upto(Cardinality(S)) = SUBSET S
  BY FS_Subset
<1> QED  BY <1>1, <1>2, <1>3

(* The sum does what its recursive definition says. *)
LEMMA SumDef ==
  ASSUME NEW w, NEW S, IsFiniteSet(S), NEW s \in SUBSET S
  PROVE  SumIter(w, S)[s] = IF s = {} THEN 0 ELSE w[Pick(s)] + SumIter(w, S)[s \ {Pick(s)}]
<1>1. \E f : Sums(f, w, SUBSET S)
  BY SumExists
<1>2. Sums(SumIter(w, S), w, SUBSET S)
  BY <1>1, Zenon DEF Sums, SumIter
<1> HIDE DEF SumIter
<1> QED  BY <1>2, Zenon DEF Sums

(* Any element may be added last, and only the weights of the elements count. *)
LEMMA SumStep ==
  ASSUME NEW S, IsFiniteSet(S), NEW w \in [S -> Nat]
  PROVE  \A s \in SUBSET S :
           /\ SumIter(w, S)[s] \in Nat
           /\ \A t \in s : SumIter(w, S)[s] = w[t] + SumIter(w, S)[s \ {t}]
<1> DEFINE f == SumIter(w, S)
           Good(s) == f[s] \in Nat /\ \A t \in s : f[s] = w[t] + f[s \ {t}]
           bad == {s \in SUBSET S : ~Good(s)}
<1>1. \A s \in SUBSET S : f[s] = IF s = {} THEN 0 ELSE w[Pick(s)] + f[s \ {Pick(s)}]
  <2> SUFFICES ASSUME NEW s \in SUBSET S
               PROVE  f[s] = IF s = {} THEN 0 ELSE w[Pick(s)] + f[s \ {Pick(s)}]
    OBVIOUS
  <2> QED  BY SumDef
<1> HIDE DEF f
<1> SUFFICES ASSUME bad # {} PROVE FALSE
  BY Zenon DEF f
<1>2. PICK s \in bad : \A u \in bad : Cardinality(s) <= Cardinality(u)
  <2>1. bad \subseteq SUBSET S
    OBVIOUS
  <2> HIDE DEF bad
  <2> QED  BY <2>1, LeastSet
<1>3. s \in SUBSET S /\ ~Good(s)
  OBVIOUS
<1>4. s # {}
  <2>1. CASE s = {}
    <3>1. f[s] = 0
      BY <1>1, <1>3, <2>1, Zenon
    <3> QED  BY <1>3, <2>1, <3>1
  <2> QED  BY <2>1
<1>5. ASSUME NEW t \in s PROVE s \ {t} \in SUBSET S /\ Good(s \ {t})
  <2>1. s \ {t} \in SUBSET S /\ ~(Cardinality(s) <= Cardinality(s \ {t}))
    BY <1>3, Smaller
  <2> HIDE DEF Good
  <2> QED  BY <1>2, <2>1, Zenon
<1>6. PICK p \in s : f[s] = w[p] + f[s \ {p}]
  BY <1>1, <1>3, <1>4, PickIn
<1>7. f[s] \in Nat /\ w[p] \in Nat /\ f[s \ {p}] \in Nat
  <2>1. w[p] \in Nat
    BY <1>3, <1>6
  <2>2. f[s \ {p}] \in Nat
    BY <1>5, <1>6
  <2> QED  BY <1>6, <2>1, <2>2
<1>8. ASSUME NEW t \in s PROVE f[s] = w[t] + f[s \ {t}]
  <2>1. CASE t = p
    BY <1>6, <2>1
  <2>2. CASE t # p
    <3>1. f[s \ {p}] = w[t] + f[(s \ {p}) \ {t}] /\ f[(s \ {p}) \ {t}] = f[(s \ {t}) \ {p}]
      <4>1. t \in s \ {p} /\ (s \ {p}) \ {t} = (s \ {t}) \ {p}
        BY <2>2
      <4>2. Good(s \ {p})
        BY <1>5
      <4> QED  BY <4>1, <4>2, Zenon
    <3>2. f[s \ {t}] = w[p] + f[(s \ {t}) \ {p}] /\ p \in s \ {t}
      BY <1>5, <2>2
    <3>3. f[(s \ {t}) \ {p}] \in Nat /\ f[s \ {t}] \in Nat /\ w[t] \in Nat
      <4>1. (s \ {t}) \ {p} \in SUBSET S /\ (s \ {t}) \ {p} \notin bad
        <5>1. /\ (s \ {t}) \ {p} \in SUBSET S
              /\ ~(Cardinality(s) <= Cardinality((s \ {t}) \ {p}))
          <6>1. /\ s \ {t} \in SUBSET S /\ Cardinality(s \ {t}) < Cardinality(s)
                /\ Cardinality(s) \in Nat /\ Cardinality(s \ {t}) \in Nat
            BY <1>3, Smaller
          <6>2. /\ (s \ {t}) \ {p} \in SUBSET S /\ Cardinality((s \ {t}) \ {p}) \in Nat
                /\ Cardinality((s \ {t}) \ {p}) < Cardinality(s \ {t})
            BY <3>2, <6>1, Smaller
          <6> QED  BY <6>1, <6>2
        <5> HIDE DEF bad
        <5> QED  BY <1>2, <5>1, Zenon
      <4>2. w[t] \in Nat /\ Good(s \ {t})
        BY <1>3, <1>5
      <4>3. Good((s \ {t}) \ {p})
        <5> HIDE DEF Good
        <5> QED  BY <4>1, Zenon
      <4> QED  BY <4>2, <4>3
    <3> QED  BY <1>6, <1>7, <3>1, <3>2, <3>3
  <2> QED  BY <2>1, <2>2
<1> QED  BY <1>3, <1>7, <1>8

(* Any term can be taken out of a sum. *)
LEMMA SumTerm ==
  ASSUME NEW S, IsFiniteSet(S), NEW w \in [S -> Nat], NEW s \in SUBSET S, NEW t \in s
  PROVE  SumIter(w, S)[s \ {t}] \in Nat /\ SumIter(w, S)[s] = w[t] + SumIter(w, S)[s \ {t}]
<1>1. /\ \A u \in SUBSET S : SumIter(w, S)[u] \in Nat
      /\ \A u \in SUBSET S : \A x \in u : SumIter(w, S)[u] = w[x] + SumIter(w, S)[u \ {x}]
  BY SumStep, ZenonT(60)
<1>2. s \ {t} \in SUBSET S
  OBVIOUS
<1> QED  BY <1>1, <1>2, Zenon

(* Equal terms have equal sums. *)
LEMMA SumSame ==
  ASSUME NEW S, IsFiniteSet(S), NEW v \in [S -> Nat], NEW w \in [S -> Nat], NEW U \in SUBSET S,
         \A t \in U : v[t] = w[t]
  PROVE  SumIter(v, S)[U] = SumIter(w, S)[U]
<1> DEFINE bad == {s \in SUBSET U : SumIter(v, S)[s] # SumIter(w, S)[s]}
<1> SUFFICES ASSUME bad # {} PROVE FALSE
  OBVIOUS
<1>1. PICK s \in bad : \A u \in bad : Cardinality(s) <= Cardinality(u)
  <2>1. bad \subseteq SUBSET S
    OBVIOUS
  <2> HIDE DEF bad
  <2> QED  BY <2>1, LeastSet
<1>2. s \in SUBSET S /\ s \in SUBSET U
  OBVIOUS
<1>3. SumIter(v, S)[{}] = 0 /\ SumIter(w, S)[{}] = 0
  <2>1. SumIter(v, S)[{}] = 0
    BY SumDef
  <2>2. SumIter(w, S)[{}] = 0
    BY SumDef
  <2> QED  BY <2>1, <2>2
<1>4. s # {}
  BY <1>1, <1>3
<1>5. PICK p : p \in s
  BY <1>4
<1>6. /\ SumIter(v, S)[s] = v[p] + SumIter(v, S)[s \ {p}]
      /\ SumIter(w, S)[s] = w[p] + SumIter(w, S)[s \ {p}]
  BY <1>2, <1>5, SumTerm
<1>7. s \ {p} \in SUBSET U /\ ~(Cardinality(s) <= Cardinality(s \ {p}))
  BY <1>2, <1>5, Smaller
<1>8. SumIter(v, S)[s \ {p}] = SumIter(w, S)[s \ {p}]
  BY <1>1, <1>7
<1> QED  BY <1>2, <1>5, <1>6, <1>8

(* The sum changes as one of its terms does. *)
LEMMA SumUpdate ==
  ASSUME NEW S, IsFiniteSet(S), NEW v \in [S -> Nat], NEW w \in [S -> Nat], NEW t \in S,
         \A u \in S \ {t} : v[u] = w[u]
  PROVE  /\ SumFunction(v) \in Nat /\ SumFunction(w) \in Nat
         /\ SumFunction(v) >= v[t]
         /\ SumFunction(w) = SumFunction(v) - v[t] + w[t]
<1>1. SumFunction(v) = SumIter(v, S)[S] /\ SumFunction(w) = SumIter(w, S)[S]
  BY SumFunctionIter
<1>2. S \in SUBSET S /\ S \ {t} \in SUBSET S
  OBVIOUS
<1>3. /\ SumIter(v, S)[S] = v[t] + SumIter(v, S)[S \ {t}]
      /\ SumIter(w, S)[S] = w[t] + SumIter(w, S)[S \ {t}]
      /\ SumIter(v, S)[S \ {t}] \in Nat
  <2>1. PICK T \in SUBSET S : T = S
    BY <1>2
  <2>2. t \in T
    BY <2>1
  <2>3. SumIter(v, S)[T \ {t}] \in Nat /\ SumIter(v, S)[T] = v[t] + SumIter(v, S)[T \ {t}]
    BY <2>1, <2>2, SumTerm
  <2>4. SumIter(w, S)[T] = w[t] + SumIter(w, S)[T \ {t}]
    BY <2>1, <2>2, SumTerm
  <2> QED  BY <2>1, <2>3, <2>4, Zenon
<1>4. SumIter(v, S)[S \ {t}] = SumIter(w, S)[S \ {t}]
  BY <1>2, SumSame
<1>5. v[t] \in Nat /\ w[t] \in Nat
  OBVIOUS
<1> QED  BY <1>1, <1>3, <1>4, <1>5

(* A sum of zeros is zero. *)
LEMMA SumZero ==
  ASSUME NEW S, IsFiniteSet(S), NEW v \in [S -> Nat], \A t \in S : v[t] = 0
  PROVE  SumFunction(v) = 0
<1> DEFINE bad == {s \in SUBSET S : SumIter(v, S)[s] # 0}
<1>1. bad = {}
  <2> SUFFICES ASSUME bad # {} PROVE FALSE
    OBVIOUS
  <2>1. PICK s \in bad : \A u \in bad : Cardinality(s) <= Cardinality(u)
    <3>1. bad \subseteq SUBSET S
      OBVIOUS
    <3> HIDE DEF bad
    <3> QED  BY <3>1, LeastSet
  <2>2. s # {}
    BY <2>1, SumDef
  <2>3. PICK p : p \in s
    BY <2>2
  <2>4. SumIter(v, S)[s] = v[p] + SumIter(v, S)[s \ {p}]
    BY <2>3, SumTerm
  <2>5. s \ {p} \in SUBSET S /\ ~(Cardinality(s) <= Cardinality(s \ {p}))
    BY <2>3, Smaller
  <2> QED  BY <2>1, <2>3, <2>4, <2>5
<1>2. SumFunction(v) = SumIter(v, S)[S]
  BY SumFunctionIter
<1> QED  BY <1>1, <1>2

-----------------------------------------------------------------------------
(* The ring *)

Headers  == {Null, Garbled} \cup {Header(n) : n \in Nat}
Placed   == [at : Cells, msg : Messages]
Stores   == {"remainder", "header", "payload", "head"}
SendType ==
  /\ established \in BOOLEAN
  /\ head \in Cells /\ tail \in Cells
  /\ hdr \in [Cells -> Headers] /\ text \in [Cells -> Messages \cup {NoMessage}]
  /\ step \in [Threads -> {"idle", "lock", "write"}] /\ todo \in [Threads -> SUBSET Stores]
  /\ msg \in [Threads -> Messages \cup {NoMessage}] /\ dst \in [Threads -> Cells]
  /\ \A t \in Threads : step[t] # "idle" => msg[t] \in Messages
  /\ queued \in Seq(Placed) /\ backlog \in Nat

(* A frame takes as many cells as it needs. *)
LEMMA FrameCells ==
  ASSUME NEW m \in Messages
  PROVE  /\ m.len \in Nat \ {0} /\ Frame(m) \in Nat /\ Frame(m) >= 3
         /\ Frame(m) <= 3 <=> m.len = 1
         /\ Extent(m) \in Nat /\ Extent(m) >= 1
         /\ 8 * Extent(m) >= Frame(m) /\ 8 * Extent(m) <= Frame(m) + 7
         /\ MaxBacklog + Extent(m) + 2 < Size
<1>1. m.len \in Nat \ {0}
  BY LengthAssumption DEF Messages
<1>2. Frame(m) \in Nat /\ Frame(m) >= 3 /\ (Frame(m) <= 3 <=> m.len = 1)
  BY <1>1 DEF Frame, FrameLen, HeaderLen
<1>3. \A n \in Nat : 8 * ((n + 7) \div 8) >= n /\ 8 * ((n + 7) \div 8) <= n + 7 /\ (n + 7) \div 8 \in Nat
  OBVIOUS
<1> DEFINE n == Frame(m)
<1> HIDE DEF n
<1>4. 8 * Extent(m) >= n /\ 8 * Extent(m) <= n + 7 /\ Extent(m) \in Nat
  BY <1>2, <1>3 DEF Extent, CellsOf, n
<1> QED  BY <1>1, <1>2, <1>4, CapacityAssumption DEF n

(* The header that is stored for a message gives the size of its frame back. *)
LEMMA HeaderOfFrame ==
  ASSUME NEW m \in Messages
  PROVE  /\ Header(m.len) # Null /\ Header(m.len) # Garbled /\ Header(m.len) \in Headers
         /\ SerializedFrameSize(Header(m.len)) = Frame(m)
<1>1. m.len \in Nat
  BY FrameCells
<1>2. Header(m.len)[1] = Text /\ Len(Header(m.len)) > 0
  BY <1>1 DEF Header
<1>3. Header(m.len) # Null /\ Header(m.len) # Garbled
  BY <1>2 DEF Null, Garbled, Text
<1> QED  BY <1>1, <1>3, HeaderReadBack DEF Headers, Frame

(* A placed frame covers cells from the one it starts in. *)
LEMMA PlacedFrame ==
  ASSUME NEW f \in Placed
  PROVE  /\ f.at \in Cells /\ f.at \in Nat /\ f.msg \in Messages
         /\ End(f) \in Nat /\ f.at \in f.at .. End(f) - 1
<1>1. f.at \in Cells /\ f.at \in Nat /\ f.msg \in Messages
  BY LengthAssumption DEF Placed, Cells
<1>2. Extent(f.msg) \in Nat /\ Extent(f.msg) >= 1
  BY <1>1, FrameCells
<1> QED  BY <1>1, <1>2 DEF End

(* What the threads are storing is counted in cells. *)
LEMMA InFlightType ==
  ASSUME SendType
  PROVE  [t \in Threads |-> InFlight(t)] \in [Threads -> Nat]
<1>1. ASSUME NEW t \in Threads PROVE InFlight(t) \in Nat
  BY FrameCells DEF InFlight, Pending, SendType
<1> QED  BY <1>1

(* The ring is never filled: where a frame that was logged goes, there is     *)
(* room for it.                                                               *)
LEMMA Room ==
  ASSUME SendType, NEW j \in 0 .. Len(queued), NEW wrap \in 0 .. Size - 2, RingAt(j, wrap),
         backlog = Used(j, wrap) + SumFunction([u \in Threads |-> InFlight(u)]),
         backlog <= MaxBacklog, NEW t \in Threads, Pending(t)
  PROVE  /\ msg[t] \in Messages
         /\ IF Fits(head, msg[t])
            THEN head + Extent(msg[t]) <= Size - 2 /\ (head < tail => head + Extent(msg[t]) < tail)
            ELSE tail <= head /\ Extent(msg[t]) < tail
<1> DEFINE F == [u \in Threads |-> InFlight(u)]
           e == Extent(msg[t])
           f == Frame(msg[t])
<1>1. F \in [Threads -> Nat] /\ F[t] = e
  BY InFlightType DEF InFlight
<1> HIDE DEF F
<1>2. SumFunction(F) \in Nat /\ SumFunction(F) >= F[t]
  <2>1. /\ SumFunction(F) \in Nat /\ SumFunction(F) \in Nat
        /\ SumFunction(F) >= F[t]
        /\ SumFunction(F) = SumFunction(F) - F[t] + F[t]
    BY <1>1, SumUpdate, MainAssumption
  <2> QED  BY <2>1
<1>3. msg[t] \in Messages
  BY DEF Pending, SendType
<1>4. /\ e \in Nat /\ e >= 1 /\ f \in Nat /\ 8 * e >= f /\ 8 * e <= f + 7
      /\ MaxBacklog + e + 2 < Size /\ MaxBacklog \in Nat /\ Size \in Nat
  BY <1>3, FrameCells, LengthAssumption
<1>5. head \in Nat /\ tail \in Nat /\ wrap \in Nat /\ wrap <= Size - 2
  BY LengthAssumption DEF SendType, Cells
<1>6. tail <= wrap
  BY DEF RingAt, Chained
<1>7. Fits(head, msg[t]) <=> 8 * head + f <= 8 * Size - 17
  BY DEF Fits
<1>8. Used(j, wrap) + e <= MaxBacklog
  <2>1. backlog = Used(j, wrap) + SumFunction(F)
    BY DEF F
  <2>2. Used(j, wrap) \in Int /\ backlog \in Nat
    BY <1>5 DEF Used, SendType
  <2> QED  BY <1>1, <1>2, <1>4, <2>1, <2>2
<1> HIDE DEF e, f
<1>9. CASE j = Len(queued)
  <2>1. wrap = head /\ Used(j, wrap) = head - tail
    BY <1>5, <1>9 DEF RingAt, Used
  <2> QED  BY <1>3, <1>4, <1>5, <1>6, <1>7, <1>8, <2>1 DEF e
<1>10. CASE j # Len(queued)
  <2>1. head < tail /\ Used(j, wrap) = wrap - tail + head
    BY <1>10 DEF RingAt, Used
  <2>2. PICK m \in Messages : ~Fits(wrap, m)
    BY <1>10 DEF RingAt
  <2>3. /\ Frame(m) \in Nat /\ Extent(m) \in Nat /\ 8 * Extent(m) >= Frame(m)
        /\ MaxBacklog + Extent(m) + 2 < Size
    BY <2>2, FrameCells
  <2>4. ~(8 * wrap + Frame(m) <= 8 * Size - 17)
    BY <2>2 DEF Fits
  <2>5. wrap > MaxBacklog
    BY <1>4, <1>5, <2>3, <2>4
  <2>6. head + e < tail
    BY <1>4, <1>5, <1>8, <2>1, <2>5
  <2> QED  BY <1>3, <1>4, <1>5, <1>6, <1>7, <2>1, <2>6 DEF e
<1> QED  BY <1>9, <1>10

(* The cells that queued frames lie in, and the mark where the ring wraps *)
Live(c) == IF tail <= head THEN tail <= c /\ c < head ELSE c < head \/ tail <= c

(* The queued frames lie in live cells of the ring. *)
LEMMA LiveCells ==
  ASSUME SendType, NEW j \in 0 .. Len(queued), NEW wrap \in 0 .. Size - 2, RingAt(j, wrap)
  PROVE  /\ \A k \in 1 .. Len(queued) :
              /\ queued[k].at \in Cells /\ queued[k].msg \in Messages
              /\ queued[k].at \in queued[k].at .. End(queued[k]) - 1
              /\ \A c \in queued[k].at .. End(queued[k]) - 1 : c \in Cells /\ Live(c)
         /\ j # Len(queued) => wrap \in Cells /\ Live(wrap)
         /\ tail # head => Live(tail)
<1>1. /\ head \in Nat /\ tail \in Nat /\ wrap \in Nat /\ wrap <= Size - 2 /\ Size \in Nat
      /\ head < Size /\ Len(queued) \in Nat
  BY LengthAssumption DEF SendType, Cells
<1>2. tail <= wrap /\ (j = Len(queued) => wrap = head) /\ (j # Len(queued) => head < tail)
  BY DEF RingAt, Chained
<1>3. ASSUME NEW k \in 1 .. Len(queued)
      PROVE  /\ queued[k].at \in Cells /\ queued[k].msg \in Messages
             /\ queued[k].at \in queued[k].at .. End(queued[k]) - 1
             /\ \A c \in queued[k].at .. End(queued[k]) - 1 : c \in Cells /\ Live(c)
  <2>1. queued[k] \in Placed
    BY DEF SendType
  <2>2. /\ queued[k].at \in Cells /\ queued[k].at \in Nat /\ queued[k].msg \in Messages
        /\ End(queued[k]) \in Nat /\ queued[k].at \in queued[k].at .. End(queued[k]) - 1
    BY <2>1, PlacedFrame
  <2>3. CASE k <= j
    <3>1. tail <= queued[k].at /\ End(queued[k]) <= wrap
      BY <2>3 DEF RingAt, Chained
    <3> QED  BY <1>1, <1>2, <2>2, <3>1 DEF Live, Cells
  <2>4. CASE ~(k <= j)
    <3>1. k \in j + 1 .. Len(queued) /\ j # Len(queued)
      BY <1>1, <2>4
    <3>2. 0 <= queued[k].at /\ End(queued[k]) <= head
      BY <3>1 DEF RingAt, Chained
    <3> QED  BY <1>1, <1>2, <2>2, <3>1, <3>2 DEF Live, Cells
  <2> QED  BY <2>3, <2>4
<1>4. j # Len(queued) => wrap \in Cells /\ Live(wrap)
  BY <1>1, <1>2 DEF Live, Cells
<1>5. tail # head => Live(tail)
  BY <1>1, <1>2 DEF Live
<1> QED  BY <1>3, <1>4, <1>5

(* Stores to other cells leave the ring as it is. *)
LEMMA OtherCells ==
  ASSUME SendType, RingInv, UNCHANGED <<head, tail, queued>>,
         \A c \in Cells : Live(c) => hdr'[c] = hdr[c] /\ text'[c] = text[c]
  PROVE  /\ \A j \in 0 .. Len(queued), wrap \in 0 .. Size - 2 :
              RingAt(j, wrap) => RingAt(j, wrap)' /\ Used(j, wrap)' = Used(j, wrap)
         /\ (\A k \in 1 .. Len(queued) : Stored(queued[k]))'
         /\ tail # head => hdr'[tail] = hdr[tail]
<1>1. PICK i \in 0 .. Len(queued), w \in 0 .. Size - 2 : RingAt(i, w)
  BY DEF RingInv
<1>2. ASSUME NEW k \in 1 .. Len(queued') PROVE Stored(queued[k])'
  <2>1. Stored(queued[k])
    BY DEF RingInv
  <2>2. hdr'[queued[k].at] = hdr[queued[k].at]
    BY <1>1, LiveCells
  <2>3. \A c \in queued[k].at .. End(queued[k]) - 1 : text'[c] = text[c]
    BY <1>1, LiveCells
  <2>4. queued' = queued /\ End(queued[k])' = End(queued[k])
    BY DEF End
  <2> QED  BY <2>1, <2>2, <2>3, <2>4 DEF Stored
<1>3. ASSUME NEW j \in 0 .. Len(queued), NEW wrap \in 0 .. Size - 2, RingAt(j, wrap)
      PROVE  RingAt(j, wrap)' /\ Used(j, wrap)' = Used(j, wrap)
  <2>1. j # Len(queued) => hdr'[wrap] = hdr[wrap]
    BY <1>3, LiveCells
  <2> QED  BY <1>3, <2>1 DEF RingAt, Chained, Used, End
<1>4. tail # head => hdr'[tail] = hdr[tail]
  BY <1>1, LiveCells DEF SendType
<1> QED  BY <1>2, <1>3, <1>4

(* A frame placed at the end lengthens the chain. *)
LEMMA ChainAppend ==
  ASSUME NEW q \in Seq(Placed), NEW i \in 1 .. Len(q) + 1, NEW from \in Nat, NEW to \in Nat,
         Chained(q, i, Len(q), from, to), NEW m \in Messages
  PROVE  Chained(Append(q, [at |-> to, msg |-> m]), i, Len(q) + 1, from, to + Extent(m))
<1> DEFINE f == [at |-> to, msg |-> m]
           r == Append(q, f)
           n == Len(q)
<1>1. f.at = to /\ f.msg = m /\ End(f) = to + Extent(m) /\ Extent(m) \in Nat
  BY FrameCells DEF End
<1>2. n \in Nat /\ r[n + 1] = f /\ \A k \in 1 .. n : r[k] = q[k]
  OBVIOUS
<1>3. ASSUME NEW k \in 1 .. n
      PROVE  q[k].at \in Nat /\ End(q[k]) \in Nat
  <2>1. q[k] \in Placed
    OBVIOUS
  <2> QED  BY <2>1, PlacedFrame
<1> HIDE DEF f, r, n
<1>4. /\ from <= to /\ to = IF n < i THEN from ELSE End(q[n])
      /\ \A k \in i .. n : /\ q[k].at = IF k = i THEN from ELSE End(q[k - 1])
                           /\ from <= q[k].at /\ End(q[k]) <= to
      /\ \A k, l \in i .. n : k < l => End(q[k]) <= q[l].at
  BY DEF Chained, n
<1>5. i \in Nat /\ 1 <= i /\ i <= n + 1
  BY <1>2 DEF n
<1>6. from <= to + Extent(m) /\ to + Extent(m) = IF n + 1 < i THEN from ELSE End(r[n + 1])
  BY <1>1, <1>2, <1>4, <1>5
<1>7. ASSUME NEW k \in i .. n + 1
      PROVE  /\ r[k].at = IF k = i THEN from ELSE End(r[k - 1])
             /\ from <= r[k].at /\ End(r[k]) <= to + Extent(m)
  <2>1. CASE k = n + 1
    <3>1. k # i => n \in 1 .. n /\ r[k - 1] = q[n]
      BY <1>2, <1>5, <1>7, <2>1
    <3> QED  BY <1>1, <1>2, <1>4, <1>5, <2>1, <3>1
  <2>2. CASE k # n + 1
    <3>1. k \in i .. n /\ k \in 1 .. n /\ (k # i => k - 1 \in 1 .. n)
      BY <1>2, <1>5, <2>2
    <3>2. r[k] = q[k] /\ (k # i => r[k - 1] = q[k - 1])
      BY <1>2, <3>1
    <3> QED  BY <1>1, <1>3, <1>4, <3>1, <3>2
  <2> QED  BY <2>1, <2>2
<1>8. ASSUME NEW k \in i .. n + 1, NEW l \in i .. n + 1, k < l
      PROVE  End(r[k]) <= r[l].at
  <2>1. k \in i .. n /\ k \in 1 .. n /\ r[k] = q[k]
    BY <1>2, <1>5, <1>8
  <2>2. CASE l = n + 1
    BY <1>1, <1>2, <1>4, <2>1, <2>2
  <2>3. CASE l # n + 1
    <3>1. l \in i .. n /\ r[l] = q[l]
      BY <1>2, <1>5, <2>3
    <3> QED  BY <1>4, <1>8, <2>1, <3>1
  <2> QED  BY <2>2, <2>3
<1> QED  BY <1>6, <1>7, <1>8 DEF Chained, f, r, n

(* Frames that are appended elsewhere do not change a chain. *)
LEMMA ChainKept ==
  ASSUME NEW q, NEW r, NEW i \in Int, NEW j \in Int, NEW from, NEW to, Chained(q, i, j, from, to),
         \A k \in i .. j : r[k] = q[k]
  PROVE  Chained(r, i, j, from, to)
<1>1. \A k \in i .. j : k # i => k - 1 \in i .. j
  OBVIOUS
<1>2. j < i \/ j \in i .. j
  OBVIOUS
<1> QED  BY <1>1, <1>2 DEF Chained

(* The chain without its first frame starts where that ended. *)
LEMMA ChainTail ==
  ASSUME NEW q \in Seq(Placed), NEW j \in 1 .. Len(q), NEW from \in Nat, NEW to \in Nat,
         Chained(q, 1, j, from, to)
  PROVE  Chained(q, 2, j, End(q[1]), to)
<1>1. ASSUME NEW k \in 1 .. Len(q)
      PROVE  q[k].at \in Nat /\ End(q[k]) \in Nat
  <2>1. q[k] \in Placed
    OBVIOUS
  <2> QED  BY <2>1, PlacedFrame
<1>2. End(q[1]) <= to /\ to = IF j < 2 THEN End(q[1]) ELSE End(q[j])
  BY DEF Chained
<1>3. ASSUME NEW k \in 2 .. j
      PROVE  /\ q[k].at = IF k = 2 THEN End(q[1]) ELSE End(q[k - 1])
             /\ End(q[1]) <= q[k].at /\ End(q[k]) <= to
  <2>1. k \in 1 .. j /\ 1 \in 1 .. j /\ k # 1 /\ 1 < k
    OBVIOUS
  <2>2. q[k].at = End(q[k - 1]) /\ End(q[k]) <= to /\ End(q[1]) <= q[k].at
    BY <2>1 DEF Chained
  <2> QED  BY <2>2
<1>4. \A k, l \in 2 .. j : k < l => End(q[k]) <= q[l].at
  BY DEF Chained
<1> QED  BY <1>2, <1>3, <1>4 DEF Chained

(* Counted from the second frame, a chain is that of the tail. *)
LEMMA ChainShift ==
  ASSUME NEW q \in Seq(Placed), NEW i \in 1 .. Len(q), NEW j \in 0 .. Len(q) - 1, NEW from, NEW to,
         Chained(q, i + 1, j + 1, from, to)
  PROVE  Chained(Tail(q), i, j, from, to)
<1>1. Len(q) \in Nat /\ q # <<>>
  OBVIOUS
<1>2. \A k \in 1 .. j : Tail(q)[k] = q[k + 1]
  OBVIOUS
<1>3. from <= to /\ to = IF j < i THEN from ELSE End(Tail(q)[j])
  <2>1. from <= to /\ to = IF j + 1 < i + 1 THEN from ELSE End(q[j + 1])
    BY DEF Chained
  <2>2. j >= i => Tail(q)[j] = q[j + 1]
    BY <1>2
  <2> QED  BY <2>1, <2>2
<1>4. ASSUME NEW k \in i .. j
      PROVE  /\ Tail(q)[k].at = IF k = i THEN from ELSE End(Tail(q)[k - 1])
             /\ from <= Tail(q)[k].at /\ End(Tail(q)[k]) <= to
  <2>1. /\ k + 1 \in i + 1 .. j + 1 /\ (k + 1) - 1 = k /\ (k = i <=> k + 1 = i + 1)
        /\ k \in 1 .. j /\ (k # i => k - 1 \in 1 .. j /\ (k - 1) + 1 = k)
    OBVIOUS
  <2>2. /\ q[k + 1].at = IF k + 1 = i + 1 THEN from ELSE End(q[(k + 1) - 1])
        /\ from <= q[k + 1].at /\ End(q[k + 1]) <= to
    BY <2>1 DEF Chained
  <2>3. Tail(q)[k] = q[k + 1] /\ (k # i => Tail(q)[k - 1] = q[k])
    BY <1>2, <2>1
  <2>4. q[k + 1].at = IF k = i THEN from ELSE End(q[k])
    BY <2>1, <2>2
  <2> QED  BY <2>2, <2>3, <2>4, Zenon
<1>5. ASSUME NEW k \in i .. j, NEW l \in i .. j, k < l
      PROVE  End(Tail(q)[k]) <= Tail(q)[l].at
  <2>1. k + 1 \in i + 1 .. j + 1 /\ l + 1 \in i + 1 .. j + 1 /\ k + 1 < l + 1
    BY <1>5
  <2>2. End(q[k + 1]) <= q[l + 1].at
    BY <2>1 DEF Chained
  <2>3. Tail(q)[k] = q[k + 1] /\ Tail(q)[l] = q[l + 1]
    BY <1>2
  <2> QED  BY <2>2, <2>3
<1> QED  BY <1>3, <1>4, <1>5 DEF Chained

-----------------------------------------------------------------------------
(* The steps *)

(* What the flush finds at the tail: the first frame of the queue, or the mark *)
(* where the ring wraps.                                                       *)
LEMMA AtTail ==
  ASSUME SendType, RingInv, tail # head, NEW j \in 0 .. Len(queued), NEW wrap \in 0 .. Size - 2,
         RingAt(j, wrap)
  PROVE  /\ queued # <<>>
         /\ IF j = 0
            THEN hdr[tail] = Null /\ wrap = tail /\ j # Len(queued)
            ELSE /\ queued[1].at = tail /\ Stored(queued[1])
                 /\ hdr[tail] = Header(queued[1].msg.len) /\ hdr[tail] # Null
<1>1. CASE j = 0
  <2>1. wrap = tail
    BY <1>1 DEF RingAt, Chained
  <2>2. j # Len(queued)
    BY <2>1 DEF RingAt
  <2>3. hdr[tail] = Null
    BY <2>1, <2>2 DEF RingAt
  <2>4. queued # <<>>
    BY <1>1, <2>2
  <2> QED  BY <1>1, <2>1, <2>2, <2>3, <2>4
<1>2. CASE j # 0
  <2>1. 1 \in 1 .. j /\ 1 \in 1 .. Len(queued) /\ queued # <<>>
    BY <1>2 DEF SendType
  <2>2. queued[1].at = tail
    BY <2>1 DEF RingAt, Chained
  <2>3. queued[1] \in Placed /\ Stored(queued[1])
    BY <2>1 DEF SendType, RingInv
  <2>4. Header(queued[1].msg.len) # Null
    BY <2>3, PlacedFrame, HeaderOfFrame
  <2> QED  BY <1>2, <2>1, <2>2, <2>3, <2>4 DEF Stored
<1> QED  BY <1>1, <1>2

(* A step of a thread or of the flush that stores nothing in a queued frame. *)
LEMMA KeepRing ==
  ASSUME SendType, RingInv, UNCHANGED <<head, tail, queued, backlog>>,
         \A c \in Cells : Live(c) => hdr'[c] = hdr[c] /\ text'[c] = text[c],
         \A t \in Threads : InFlight(t)' = InFlight(t)
  PROVE  RingInv'
<1>1. PICK j \in 0 .. Len(queued), wrap \in 0 .. Size - 2 :
        /\ RingAt(j, wrap)
        /\ backlog = Used(j, wrap) + SumFunction([t \in Threads |-> InFlight(t)])
  BY DEF RingInv
<1>2. RingAt(j, wrap)' /\ Used(j, wrap)' = Used(j, wrap)
  BY <1>1, OtherCells
<1>3. [t \in Threads |-> InFlight(t)'] = [t \in Threads |-> InFlight(t)]
  OBVIOUS
<1>4. backlog' = Used(j, wrap)' + SumFunction([t \in Threads |-> InFlight(t)'])
  BY <1>1, <1>2, <1>3, Zenon
<1>5. (\A k \in 1 .. Len(queued) : Stored(queued[k]))'
  BY OtherCells
<1>6. wrap \in 0 .. Size - 2 /\ j \in 0 .. Len(queued')
  BY <1>1
<1>7. backlog' <= MaxBacklog
  BY DEF RingInv
<1> QED  BY <1>2, <1>4, <1>5, <1>6, <1>7, Zenon DEF RingInv

(* A thread that starts to log moves nothing, and has room for its frame. *)
LEMMA LogRing ==
  ASSUME SendType, RingInv, WriteInv, NEW t \in Threads, NEW m \in Messages, Log(t, m)
  PROVE  RingInv'
<1> DEFINE F == [u \in Threads |-> InFlight(u)]
           G == [u \in Threads |-> InFlight(u)']
<1>1. PICK j \in 0 .. Len(queued), wrap \in 0 .. Size - 2 :
        RingAt(j, wrap) /\ backlog = Used(j, wrap) + SumFunction(F)
  BY DEF RingInv
<1>2. /\ UNCHANGED <<head, tail, queued, hdr, text, todo>>
      /\ backlog' = backlog + Extent(m) /\ backlog' <= MaxBacklog
      /\ step[t] = "idle" /\ step'[t] = "lock" /\ msg'[t] = m
      /\ \A u \in Threads \ {t} : step'[u] = step[u] /\ msg'[u] = msg[u]
  BY DEF Log, SendType
<1>3. /\ RingAt(j, wrap)' /\ Used(j, wrap)' = Used(j, wrap)
      /\ (\A k \in 1 .. Len(queued) : Stored(queued[k]))'
  BY <1>1, <1>2, OtherCells
<1>4. F[t] = 0 /\ G[t] = Extent(m) /\ Extent(m) \in Nat /\ \A u \in Threads \ {t} : G[u] = F[u]
  <2>1. InFlight(t) = 0 /\ InFlight(t)' = Extent(m)
    BY <1>2 DEF InFlight, Pending
  <2>2. \A u \in Threads \ {t} : InFlight(u)' = InFlight(u)
    BY <1>2 DEF InFlight, Pending
  <2> QED  BY <2>1, <2>2, FrameCells
<1>5. F \in [Threads -> Nat] /\ G \in [Threads -> Nat]
  <2>1. F \in [Threads -> Nat]
    BY InFlightType
  <2>2. \A u \in Threads : G[u] \in Nat
    BY <1>4, <2>1
  <2> QED  BY <2>1, <2>2
<1> HIDE DEF F, G
<1>6. SumFunction(F) \in Nat /\ SumFunction(G) = SumFunction(F) + Extent(m)
  <2>1. SumFunction(F) \in Nat /\ SumFunction(G) = SumFunction(F) - F[t] + G[t]
    BY <1>4, <1>5, SumUpdate, MainAssumption
  <2> QED  BY <1>4, <2>1
<1>7. backlog' = Used(j, wrap)' + SumFunction(G)
  <2>1. Used(j, wrap) \in Int
    BY LengthAssumption DEF Used, SendType, Cells
  <2> QED  BY <1>1, <1>2, <1>3, <1>4, <1>6, <2>1
<1>8. wrap \in 0 .. Size - 2 /\ j \in 0 .. Len(queued')
  BY <1>1, <1>2
<1> QED  BY <1>2, <1>3, <1>7, <1>8, Zenon DEF RingInv, G

(* A thread that stores a part of its frame holds the mutex, and has stored    *)
(* all other parts before the head.                                            *)
LEMMA Storing ==
  ASSUME HeadLast, SendType, WriteInv, NEW t \in Threads, NEW store \in Stores, Visible(t, store)
  PROVE  /\ step[t] = "write" /\ owner = t /\ "head" \in todo[t] /\ msg[t] \in Messages /\ Pending(t)
         /\ store \in todo[t]
         /\ dst[t] = IF Fits(head, msg[t]) THEN head ELSE 0
         /\ todo'[t] = todo[t] \ {store} /\ \A u \in Threads \ {t} : todo'[u] = todo[u]
         /\ UNCHANGED <<established, owner, tail, step, msg, dst, flush, fLen, wire, backlog>>
         /\ store = "head" => todo[t] = {"head"}
<1>1. /\ step[t] = "write" /\ store \in todo[t] /\ todo' = [todo EXCEPT ![t] = @ \ {store}]
      /\ UNCHANGED <<established, owner, tail, step, msg, dst, flush, fLen, wire, backlog>>
  BY DEF Visible
<1>2. /\ owner = t /\ "head" \in todo[t] /\ dst[t] = IF Fits(head, msg[t]) THEN head ELSE 0
  BY <1>1 DEF WriteInv, Writing
<1>3. store = "head" => todo[t] = {"head"}
  BY DEF Visible
<1>4. msg[t] \in Messages /\ Pending(t) /\ todo'[t] = todo[t] \ {store}
      /\ \A u \in Threads \ {t} : todo'[u] = todo[u]
  BY <1>1, <1>2 DEF SendType, Pending
<1> QED  BY <1>1, <1>2, <1>3, <1>4

(* The cells that a frame is stored in, and those that are zeroed, are free. *)
LEMMA FreeCells ==
  ASSUME SendType, RingInv, NEW t \in Threads, Pending(t),
         dst[t] = IF Fits(head, msg[t]) THEN head ELSE 0
  PROVE  /\ \A c \in Body(t) : c \in Cells /\ ~Live(c)
         /\ dst[t] \in Body(t) /\ Extent(msg[t]) \in Nat
         /\ ~Fits(head, msg[t]) => head \notin Body(t) /\ \A c \in Cells : c >= head => ~Live(c)
         /\ NextCell(dst[t], Frame(msg[t])) = dst[t] + Extent(msg[t])
         /\ dst[t] + Extent(msg[t]) \in Cells /\ dst[t] + Extent(msg[t]) # tail
<1>1. PICK j \in 0 .. Len(queued), wrap \in 0 .. Size - 2 :
        RingAt(j, wrap) /\ backlog = Used(j, wrap) + SumFunction([u \in Threads |-> InFlight(u)])
  BY DEF RingInv
<1> DEFINE e == Extent(msg[t])
<1>2. /\ msg[t] \in Messages
      /\ IF Fits(head, msg[t])
         THEN head + e <= Size - 2 /\ (head < tail => head + e < tail)
         ELSE tail <= head /\ e < tail
  BY <1>1, Room DEF RingInv
<1>3. e \in Nat /\ e >= 1
  BY <1>2, FrameCells
<1>4. head \in Nat /\ tail \in Nat /\ head < Size /\ tail < Size /\ Size \in Nat
  BY LengthAssumption DEF SendType, Cells
<1>5. NextCell(dst[t], Frame(msg[t])) = IF dst[t] + e >= Size THEN 0 ELSE dst[t] + e
  BY DEF NextCell, Extent
<1>6. Body(t) = dst[t] .. dst[t] + e - 1
  BY DEF Body
<1> HIDE DEF e
<1>7. CASE Fits(head, msg[t])
  <2>1. dst[t] = head
    BY <1>7
  <2> QED  BY <1>2, <1>3, <1>4, <1>5, <1>6, <1>7, <2>1 DEF Live, Cells, e
<1>8. CASE ~Fits(head, msg[t])
  <2>1. dst[t] = 0
    BY <1>8
  <2> QED  BY <1>2, <1>3, <1>4, <1>5, <1>6, <1>8, <2>1 DEF Live, Cells, e
<1> QED  BY <1>7, <1>8

(* The frame whose head pointer becomes visible is the last one of the ring. *)
LEMMA StoreHeadRing ==
  ASSUME HeadLast, SendType, RingInv, WriteInv, NEW t \in Threads, StoreHead(t)
  PROVE  RingInv'
<1> DEFINE F == [u \in Threads |-> InFlight(u)]
           G == [u \in Threads |-> InFlight(u)']
           m == msg[t]
           e == Extent(msg[t])
           f == [at |-> dst[t], msg |-> msg[t]]
           n == Len(queued)
<1>1. PICK j \in 0 .. n, wrap \in 0 .. Size - 2 : RingAt(j, wrap) /\ backlog = Used(j, wrap) + SumFunction(F)
  BY DEF RingInv
<1>2. /\ step[t] = "write" /\ Pending(t) /\ m \in Messages
      /\ dst[t] = IF Fits(head, m) THEN head ELSE 0
      /\ UNCHANGED <<tail, step, msg, dst, backlog, hdr, text>>
      /\ todo'[t] = {} /\ \A u \in Threads \ {t} : todo'[u] = todo[u]
      /\ "remainder" \notin todo[t] /\ "header" \notin todo[t] /\ "payload" \notin todo[t]
      /\ "head" \in todo[t]
      /\ head' = NextCell(dst[t], Frame(m)) /\ queued' = Append(queued, f)
  BY Storing DEF StoreHead, Stores
<1>3. IF Fits(head, m)
      THEN head + e <= Size - 2 /\ (head < tail => head + e < tail)
      ELSE tail <= head /\ e < tail
  BY <1>1, <1>2, Room DEF RingInv
<1>4. head' = dst[t] + e /\ e \in Nat
  BY <1>2, FreeCells
<1>5. head \in Nat /\ tail \in Nat /\ n \in Nat /\ queued \in Seq(Placed) /\ e >= 1
  BY <1>2, FrameCells, LengthAssumption DEF SendType, Cells
<1>6. /\ Len(queued') = n + 1 /\ queued'[n + 1] = f /\ \A k \in 1 .. n : queued'[k] = queued[k]
  BY <1>2, <1>5
<1>7. Stored(f)
  <2>1. hdr[dst[t]] = Header(m.len) /\ \A c \in Body(t) : text[c] = m
    BY <1>2 DEF WriteInv, Writing
  <2>2. f.at = dst[t] /\ f.msg = m /\ f.at .. End(f) - 1 = Body(t)
    <3>1. f.at = dst[t] /\ f.msg = msg[t]
      OBVIOUS
    <3>2. End(f) = dst[t] + Extent(msg[t])
      <4> HIDE DEF f
      <4> QED  BY <3>1 DEF End
    <3>3. Body(t) = dst[t] .. (dst[t] + Extent(msg[t])) - 1
      <4>1. dst[t] \in Nat
        BY <1>2, <1>5
      <4> QED  BY <1>4, <4>1 DEF Body
    <3>4. f.at .. End(f) - 1 = dst[t] .. (dst[t] + Extent(msg[t])) - 1
      <4> HIDE DEF f
      <4> QED  BY <3>1, <3>2, Zenon
    <3> HIDE DEF f
    <3> QED  BY <3>1, <3>3, <3>4, Zenon
  <2> HIDE DEF f
  <2> QED  BY <2>1, <2>2 DEF Stored
<1>8. ~Fits(head, m) => hdr[head] = Null
  BY <1>2 DEF WriteInv, Writing
<1> HIDE DEF e, n
<1>9. (\A k \in 1 .. Len(queued) : Stored(queued[k]))'
  <2>1. ASSUME NEW k \in 1 .. n + 1 PROVE Stored(queued'[k])
    <3>1. CASE k = n + 1
      BY <1>6, <1>7, <3>1, Zenon
    <3>2. CASE k # n + 1
      <4>1. k \in 1 .. n
        BY <1>5, <3>2
      <4> QED  BY <1>6, <4>1 DEF RingInv, n
    <3> QED  BY <3>1, <3>2
  <2> QED  BY <1>2, <1>6, <2>1 DEF Stored
<1>10. \E i \in 0 .. n + 1, w \in 0 .. Size - 2 : RingAt(i, w)' /\ Used(i, w)' = Used(j, wrap) + e
  <2>1. wrap \in Nat /\ j \in Nat /\ j <= n
    BY <1>1, <1>5, LengthAssumption
  <2>2. Chained(queued, 1, j, tail, wrap)
    BY <1>1 DEF RingAt
  <2>3. CASE j = n /\ Fits(head, m)
    <3>1. wrap = head /\ dst[t] = head
      BY <1>1, <1>2, <2>3 DEF RingAt, n
    <3>2. Chained(queued', 1, n + 1, tail, head + e)
      <4>1. 1 \in 1 .. Len(queued) + 1
        BY <1>5 DEF n
      <4>2. Chained(Append(queued, [at |-> head, msg |-> m]), 1, Len(queued) + 1, tail, head + Extent(m))
        BY <1>2, <1>5, <2>2, <2>3, <3>1, <4>1, ChainAppend DEF n
      <4> QED  BY <1>2, <3>1, <4>2 DEF n, e
    <3>3. PICK i \in 0 .. n + 1, w \in 0 .. Size - 2 : i = n + 1 /\ w = head + e
      BY <1>3, <1>4, <1>5, <2>3
    <3>4. RingAt(i, w)'
      BY <1>2, <1>4, <1>6, <3>1, <3>2, <3>3 DEF RingAt
    <3>5. Used(i, w)' = Used(j, wrap) + e
      BY <1>2, <1>4, <1>5, <1>6, <2>3, <3>1, <3>3 DEF Used, n
    <3> QED  BY <3>4, <3>5, Zenon
  <2>4. CASE j = n /\ ~Fits(head, m)
    <3>1. wrap = head /\ dst[t] = 0 /\ head' = e
      BY <1>1, <1>2, <1>4, <2>4 DEF RingAt, n
    <3>2. Chained(queued', 1, n, tail, head)
      <4>1. \A k \in 1 .. n : queued'[k] = queued[k]
        BY <1>6
      <4>2. Chained(queued, 1, n, tail, head)
        BY <2>2, <2>4, <3>1
      <4> QED  BY <1>5, <4>1, <4>2, ChainKept
    <3>3. Chained(queued', n + 1, n + 1, 0, e)
      <4>1. f.at = 0 /\ End(f) = e
        BY <1>4, <3>1 DEF End, e
      <4> HIDE DEF f
      <4> QED  BY <1>4, <1>5, <1>6, <4>1 DEF Chained
    <3>4. PICK i \in 0 .. n + 1, w \in 0 .. Size - 2 : i = n /\ w = head
      BY <1>1, <1>5, <3>1
    <3>5. RingAt(i, w)'
      <4>1. i # Len(queued') /\ hdr'[w] = Null
        BY <1>2, <1>5, <1>6, <1>8, <2>4, <3>4
      <4>2. \E x \in Messages : ~Fits(w, x)
        BY <1>2, <2>4, <3>4
      <4>3. head' < tail'
        BY <1>2, <1>3, <2>4, <3>1
      <4>4. Chained(queued', i + 1, Len(queued'), 0, head') /\ Chained(queued', 1, i, tail', w)
        BY <1>2, <1>6, <3>1, <3>2, <3>3, <3>4
      <4> HIDE DEF m
      <4> QED  BY <4>1, <4>2, <4>3, <4>4 DEF RingAt
    <3>6. Used(i, w)' = Used(j, wrap) + e
      BY <1>2, <1>4, <1>5, <1>6, <2>4, <3>1, <3>4 DEF Used, n
    <3> QED  BY <3>5, <3>6, Zenon
  <2>5. CASE j # n
    <3>1. /\ Chained(queued, j + 1, n, 0, head) /\ head < tail /\ hdr[wrap] = Null
          /\ \E x \in Messages : ~Fits(wrap, x)
      BY <1>1, <2>5 DEF RingAt, n
    <3>2. Fits(head, m) /\ dst[t] = head /\ head + e < tail
      BY <1>2, <1>3, <1>5, <3>1
    <3>3. Chained(queued', 1, j, tail, wrap)
      <4>1. \A k \in 1 .. j : queued'[k] = queued[k]
        BY <1>5, <1>6, <2>1
      <4> QED  BY <2>1, <2>2, <4>1, ChainKept
    <3>4. Chained(queued', j + 1, n + 1, 0, head + e)
      <4>1. j + 1 \in 1 .. Len(queued) + 1
        BY <1>5, <2>1 DEF n
      <4>2. Chained(Append(queued, [at |-> head, msg |-> m]), j + 1, Len(queued) + 1, 0, head + Extent(m))
        BY <1>2, <1>5, <3>1, <4>1, ChainAppend DEF n
      <4> QED  BY <1>2, <3>2, <4>2 DEF n, e
    <3>5. RingAt(j, wrap)'
      <4>1. j # Len(queued') /\ hdr'[wrap] = Null /\ head' < tail'
        BY <1>2, <1>4, <1>5, <1>6, <2>1, <3>1, <3>2
      <4>2. Chained(queued', j + 1, Len(queued'), 0, head')
        BY <1>4, <1>6, <3>2, <3>4
      <4> QED  BY <1>2, <3>1, <3>3, <4>1, <4>2 DEF RingAt
    <3>6. Used(j, wrap)' = Used(j, wrap) + e
      <4>1. j # Len(queued') /\ j # Len(queued)
        BY <1>5, <1>6, <2>1, <2>5 DEF n
      <4>2. Used(j, wrap)' = wrap - tail + head' /\ Used(j, wrap) = wrap - tail + head
        BY <1>2, <4>1 DEF Used
      <4> QED  BY <1>4, <1>5, <2>1, <3>2, <4>2
    <3>7. j \in 0 .. n + 1
      BY <1>5, <2>1
    <3> QED  BY <1>1, <3>5, <3>6, <3>7, Zenon
  <2> QED  BY <2>3, <2>4, <2>5
<1>11. F[t] = e /\ G[t] = 0 /\ \A u \in Threads \ {t} : G[u] = F[u]
  BY <1>2 DEF InFlight, Pending, e
<1>12. F \in [Threads -> Nat] /\ G \in [Threads -> Nat]
  <2>1. F \in [Threads -> Nat]
    BY InFlightType
  <2>2. \A u \in Threads : G[u] \in Nat
    BY <1>11, <2>1
  <2> QED  BY <2>1, <2>2
<1> HIDE DEF F, G
<1>13. SumFunction(F) \in Nat /\ SumFunction(G) = SumFunction(F) - e
  <2>1. SumFunction(F) \in Nat /\ SumFunction(G) = SumFunction(F) - F[t] + G[t]
    BY <1>11, <1>12, SumUpdate, MainAssumption
  <2> QED  BY <1>4, <1>11, <2>1
<1>14. PICK i \in 0 .. n + 1, w \in 0 .. Size - 2 : RingAt(i, w)' /\ Used(i, w)' = Used(j, wrap) + e
  BY <1>10
<1>15. backlog' = Used(i, w)' + SumFunction(G)
  <2>1. Used(j, wrap) \in Int
    BY <1>5, LengthAssumption DEF Used
  <2> QED  BY <1>1, <1>2, <1>4, <1>13, <1>14, <2>1
<1>16. i \in 0 .. Len(queued') /\ w \in 0 .. Size - 2 /\ backlog' <= MaxBacklog
  BY <1>2, <1>6, <1>14 DEF RingInv
<1> QED  BY <1>9, <1>14, <1>15, <1>16, Zenon DEF RingInv, G

(* The flush goes from a frame to the next, or from the mark to the beginning. *)
LEMMA DequeueRing ==
  ASSUME SendType, RingInv, FlushInv, Dequeue
  PROVE  /\ RingInv' /\ tail' \in Cells /\ backlog' \in Nat
         /\ IF hdr[tail] = Null
            THEN UNCHANGED <<queued, backlog>>
            ELSE queued # <<>> /\ queued' = Tail(queued)
<1> DEFINE F == [u \in Threads |-> InFlight(u)]
           n == Len(queued)
<1>1. PICK j \in 0 .. n, wrap \in 0 .. Size - 2 : RingAt(j, wrap) /\ backlog = Used(j, wrap) + SumFunction(F)
  BY DEF RingInv
<1>2. /\ UNCHANGED <<head, hdr, text, step, todo, msg>>
      /\ tail # head /\ fLen = SerializedFrameSize(hdr[tail])
      /\ tail' = IF hdr[tail] = Null THEN 0 ELSE NextCell(tail, fLen)
      /\ IF hdr[tail] = Null
         THEN UNCHANGED <<queued, backlog>>
         ELSE queued' = Tail(queued) /\ backlog' = backlog - Extent(Head(queued).msg)
  BY DEF Dequeue, NextTail, enqueueVars, FlushInv
<1>3. /\ head \in Nat /\ tail \in Nat /\ n \in Nat /\ queued \in Seq(Placed) /\ wrap \in Nat
      /\ wrap <= Size - 2 /\ j \in Nat /\ j <= n /\ backlog \in Nat /\ backlog <= MaxBacklog
  BY <1>1, LengthAssumption DEF SendType, Cells, RingInv
<1>4. SumFunction(F) \in Nat /\ F = [u \in Threads |-> InFlight(u)']
  <2>1. F \in [Threads -> Nat]
    BY InFlightType
  <2>2. F = [u \in Threads |-> InFlight(u)']
    BY <1>2 DEF InFlight, Pending
  <2> HIDE DEF F
  <2>3. \A u \in Threads \ {Main} : F[u] = F[u]
    OBVIOUS
  <2>4. SumFunction(F) \in Nat
    BY <2>1, <2>3, SumUpdate, MainAssumption
  <2> QED  BY <2>2, <2>4
<1> HIDE DEF F
<1>5. /\ queued # <<>>
      /\ IF j = 0
         THEN hdr[tail] = Null /\ wrap = tail /\ j # n
         ELSE /\ queued[1].at = tail /\ Stored(queued[1])
              /\ hdr[tail] = Header(queued[1].msg.len) /\ hdr[tail] # Null
  BY <1>1, <1>2, AtTail DEF n
<1>6. CASE j = 0
  <2>1. /\ hdr[tail] = Null /\ wrap = tail /\ j # n /\ tail' = 0 /\ UNCHANGED <<queued, backlog>>
        /\ Chained(queued, 1, n, 0, head) /\ head < tail
    BY <1>1, <1>2, <1>5, <1>6 DEF RingAt, n
  <2>2. PICK i \in 0 .. n, w \in 0 .. Size - 2 : i = n /\ w = head
    <3>1. n \in 0 .. n /\ head \in 0 .. Size - 2
      BY <1>3, <2>1, LengthAssumption
    <3> QED  BY <3>1
  <2>3. RingAt(i, w)'
    BY <1>2, <2>1, <2>2 DEF RingAt, n
  <2>4. Used(i, w)' = Used(j, wrap)
    BY <1>2, <1>3, <1>6, <2>1, <2>2 DEF Used, n
  <2>5. backlog' = Used(i, w)' + SumFunction([u \in Threads |-> InFlight(u)'])
    BY <1>1, <1>4, <2>1, <2>4, Zenon
  <2>6. (\A k \in 1 .. Len(queued) : Stored(queued[k]))'
    BY <1>2, <2>1 DEF RingInv, Stored
  <2>7. i \in 0 .. Len(queued') /\ backlog' <= MaxBacklog /\ backlog' \in Nat
    BY <1>3, <2>1, <2>2 DEF n
  <2>8. RingInv'
    BY <2>2, <2>3, <2>5, <2>6, <2>7, Zenon DEF RingInv
  <2>9. tail' \in Cells
    BY <2>1, LengthAssumption DEF Cells
  <2> QED  BY <2>1, <2>7, <2>8, <2>9
<1>7. CASE j # 0
  <2> DEFINE e == Extent(queued[1].msg)
  <2>1. /\ queued' = Tail(queued) /\ backlog' = backlog - e /\ hdr[tail] # Null
        /\ tail' = NextCell(tail, fLen)
    BY <1>2, <1>5, <1>7
  <2>2. queued[1] \in Placed
    BY <1>3, <1>5
  <2>3. /\ queued[1].msg \in Messages /\ e \in Nat /\ e >= 1 /\ End(queued[1]) = tail + e
        /\ CellsOf(fLen) = e
    <3>1. queued[1].msg \in Messages
      BY <2>2, PlacedFrame
    <3>2. e \in Nat /\ e >= 1 /\ fLen = Frame(queued[1].msg)
      BY <1>2, <1>5, <1>7, <3>1, FrameCells, HeaderOfFrame
    <3>3. queued[1].at = tail
      BY <1>5, <1>7
    <3> QED  BY <3>1, <3>2, <3>3 DEF End, Extent
  <2> HIDE DEF e
  <2>4. Chained(queued, 1, j, tail, wrap) /\ 1 \in 1 .. j
    BY <1>1, <1>3, <1>7 DEF RingAt
  <2>5. tail + e <= wrap
    BY <2>3, <2>4 DEF Chained
  <2>6. tail' = tail + e /\ tail' \in Cells
    BY <1>3, <2>1, <2>3, <2>5, LengthAssumption DEF NextCell, Cells
  <2>7. /\ Len(queued') = n - 1 /\ n >= 1 /\ \A k \in 1 .. n - 1 : queued'[k] = queued[k + 1]
    BY <1>3, <1>5, <2>1 DEF n
  <2>8. PICK i \in 0 .. n - 1 : i = j - 1 /\ i + 1 = j
    BY <1>3, <1>7, <2>7
  <2>9. Chained(queued', 1, i, tail', wrap)
    <3>1. Chained(queued, 2, j, tail + e, wrap)
      BY <1>3, <1>7, <2>3, <2>4, ChainTail DEF n
    <3>2. 1 \in 1 .. Len(queued) /\ i \in 0 .. Len(queued) - 1 /\ Chained(queued, 1 + 1, i + 1, tail + e, wrap)
      BY <1>3, <2>7, <2>8, <3>1 DEF n
    <3>3. Chained(Tail(queued), 1, i, tail + e, wrap)
      BY <1>3, <3>2, ChainShift
    <3> QED  BY <2>1, <2>6, <3>3
  <2>10. RingAt(i, wrap)'
    <3>1. CASE j = n
      <4>1. i = Len(queued') /\ wrap = head'
        BY <1>1, <1>2, <2>7, <2>8, <3>1 DEF RingAt, n
      <4> QED  BY <2>9, <4>1 DEF RingAt
    <3>2. CASE j # n
      <4>1. /\ Chained(queued, j + 1, n, 0, head) /\ head < tail /\ hdr[wrap] = Null
            /\ \E x \in Messages : ~Fits(wrap, x)
        BY <1>1, <3>2 DEF RingAt, n
      <4>2. i # Len(queued') /\ head' < tail' /\ hdr'[wrap] = Null
        BY <1>2, <1>3, <2>3, <2>6, <2>7, <2>8, <3>2, <4>1
      <4>3. Chained(queued', i + 1, Len(queued'), 0, head')
        <5>1. i + 1 \in 1 .. Len(queued) /\ n - 1 \in 0 .. Len(queued) - 1
          BY <1>3, <2>7, <2>8 DEF n
        <5>2. Chained(queued, (i + 1) + 1, (n - 1) + 1, 0, head)
          <6>1. (i + 1) + 1 = j + 1 /\ (n - 1) + 1 = n
            BY <1>3, <2>8
          <6> QED  BY <4>1, <6>1, Zenon
        <5>3. Chained(Tail(queued), i + 1, n - 1, 0, head)
          BY <1>3, <5>1, <5>2, ChainShift
        <5> QED  BY <1>2, <2>1, <2>7, <5>3
      <4> QED  BY <2>9, <4>1, <4>2, <4>3 DEF RingAt
    <3> QED  BY <3>1, <3>2
  <2>11. Used(i, wrap)' = Used(j, wrap) - e
    <3>1. i = Len(queued') <=> j = Len(queued)
      BY <1>3, <2>7, <2>8 DEF n
    <3> QED  BY <1>2, <1>3, <2>3, <2>6, <3>1 DEF Used
  <2>12. backlog' = Used(i, wrap)' + SumFunction([u \in Threads |-> InFlight(u)'])
    <3>1. Used(j, wrap) \in Int
      BY <1>3 DEF Used
    <3>2. backlog' = Used(i, wrap)' + SumFunction(F)
      BY <1>1, <1>4, <2>1, <2>3, <2>11, <3>1
    <3> QED  BY <1>4, <3>2, Zenon
  <2>13. (\A k \in 1 .. Len(queued) : Stored(queued[k]))'
    <3>1. ASSUME NEW k \in 1 .. n - 1 PROVE Stored(queued'[k])
      <4>1. k + 1 \in 1 .. n /\ queued'[k] = queued[k + 1]
        BY <1>3, <2>7
      <4> QED  BY <4>1 DEF RingInv, n
    <3> QED  BY <1>2, <2>7, <3>1 DEF Stored
  <2>14. /\ i \in 0 .. Len(queued') /\ wrap \in 0 .. Size - 2 /\ backlog' <= MaxBacklog
         /\ backlog' \in Nat
    <3>1. Used(i, wrap)' \in Nat
      <4>1. tail' <= wrap
        BY <2>5, <2>6
      <4> QED  BY <1>2, <1>3, <2>3, <2>6, <4>1 DEF Used
    <3>2. backlog' = Used(i, wrap)' + SumFunction(F)
      BY <1>4, <2>12, Zenon
    <3>3. backlog' \in Nat
      BY <1>4, <3>1, <3>2
    <3>4. backlog' <= MaxBacklog
      BY <1>3, <2>1, <2>3, LengthAssumption
    <3>5. i \in 0 .. Len(queued')
      BY <1>3, <2>7, <2>8
    <3> QED  BY <1>1, <3>3, <3>4, <3>5
  <2>15. RingInv'
    BY <2>10, <2>12, <2>13, <2>14, Zenon DEF RingInv
  <2> QED  BY <1>5, <2>1, <2>6, <2>14, <2>15
<1> QED  BY <1>6, <1>7

(* The first three stores of a frame *)
StorePart(t) == StoreRemainder(t) \/ StoreHeader(t) \/ StorePayload(t)

(* The stores before the head touch no live cell. *)
LEMMA StoreKeeps ==
  ASSUME HeadLast, SendType, RingInv, WriteInv, NEW t \in Threads, StorePart(t)
  PROVE  /\ hdr' \in [Cells -> Headers] /\ text' \in [Cells -> Messages \cup {NoMessage}]
         /\ \A c \in Cells : Live(c) => hdr'[c] = hdr[c] /\ text'[c] = text[c]
         /\ UNCHANGED <<head, queued>>
<1>1. CASE StoreRemainder(t)
  <2>1. Visible(t, "remainder") /\ ZeroRemainder(t) /\ UNCHANGED <<head, text, queued>>
    BY <1>1 DEF StoreRemainder
  <2>2. /\ "head" \in todo[t] /\ "remainder" \in todo[t] /\ Pending(t)
        /\ dst[t] = IF Fits(head, msg[t]) THEN head ELSE 0
    BY <2>1, Storing DEF Stores
  <2>3. \A c \in Cells : c >= head => ~Live(c)
    <3>1. ~Fits(head, msg[t])
      BY <2>2 DEF WriteInv, Writing
    <3> QED  BY <2>2, <3>1, FreeCells
  <2>4. \A c \in Cells : hdr'[c] = IF c >= head THEN Null ELSE hdr[c]
    BY <2>1 DEF ZeroRemainder
  <2>5. hdr' \in [Cells -> Headers]
    BY <2>1 DEF ZeroRemainder, SendType, Headers
  <2> QED  BY <2>1, <2>3, <2>4, <2>5 DEF SendType
<1>2. CASE StoreHeader(t)
  <2>1. /\ Visible(t, "header") /\ hdr' = [hdr EXCEPT ![dst[t]] = Header(msg[t].len)]
        /\ UNCHANGED <<head, text, queued>>
    BY <1>2 DEF StoreHeader
  <2>2. /\ msg[t] \in Messages /\ Pending(t)
        /\ dst[t] = IF Fits(head, msg[t]) THEN head ELSE 0
    BY <2>1, Storing DEF Stores
  <2>3. ~Live(dst[t])
    BY <2>2, FreeCells
  <2>4. Header(msg[t].len) \in Headers
    BY <2>2, HeaderOfFrame
  <2> QED  BY <2>1, <2>3, <2>4 DEF SendType
<1>3. CASE StorePayload(t)
  <2>1. /\ Visible(t, "payload") /\ UNCHANGED <<head, queued>>
        /\ text' = [c \in Cells |-> IF c \in Body(t) THEN msg[t] ELSE text[c]]
        /\ hdr' = [c \in Cells |-> IF c \in Body(t) \ {dst[t]} THEN Garbled ELSE hdr[c]]
    BY <1>3 DEF StorePayload
  <2>2. /\ msg[t] \in Messages /\ Pending(t)
        /\ dst[t] = IF Fits(head, msg[t]) THEN head ELSE 0
    BY <2>1, Storing DEF Stores
  <2>3. \A c \in Body(t) : ~Live(c)
    BY <2>2, FreeCells
  <2> QED  BY <2>1, <2>2, <2>3 DEF SendType, Headers
<1> QED  BY <1>1, <1>2, <1>3 DEF StorePart

(* Each of them is the store of something else than the head. *)
LEMMA StoreVisible ==
  ASSUME NEW t \in Threads, StorePart(t)
  PROVE  \E store \in Stores \ {"head"} : Visible(t, store)
BY DEF StorePart, StoreRemainder, StoreHeader, StorePayload, Stores

(* A step of the main thread that touches neither the ring nor a frame that is *)
(* being stored                                                                *)
FlushOnly ==
  FlushBegin \/ FlushEnd \/ FlushRead \/ FlushSend \/ Establish \/ \E m \in Messages : SendDirect(m)

(* A flush changes nothing of the ring before it dequeues. *)
LEMMA FlushKeeps ==
  ASSUME FlushOnly
  PROVE  UNCHANGED <<head, tail, hdr, text, owner, step, msg, dst, todo, queued, backlog>>
BY DEF FlushOnly, FlushBegin, FlushEnd, FlushRead, FlushSend, Establish, SendDirect, history,
       enqueueVars

(* The steps, grouped by what they do to the ring *)
LEMMA NextCases ==
  ASSUME Next
  PROVE  \/ \E t \in Threads : \/ Lock(t) \/ StorePart(t) \/ StoreHead(t) \/ Unlock(t)
                               \/ \E m \in Messages : Log(t, m)
         \/ FlushOnly \/ Dequeue
BY Zenon DEF Next, Enqueue, StorePart, Flush, FlushOnly

(* No step takes a variable out of its type. *)
LEMMA TypeStep ==
  ASSUME HeadLast, SendType, SendInv, [Next]_vars
  PROVE  SendType'
<1>1. CASE UNCHANGED vars
  BY <1>1, Zenon DEF SendType, vars, enqueueVars, history
<1>2. ASSUME NEW t \in Threads, NEW m \in Messages, Log(t, m) PROVE SendType'
  <2>1. Extent(m) \in Nat
    BY FrameCells
  <2> QED  BY <1>2, <2>1 DEF Log, SendType
<1>3. ASSUME NEW t \in Threads, Lock(t) PROVE SendType'
  <2>1. 0 \in Cells
    BY LengthAssumption DEF Cells
  <2> QED  BY <1>3, <2>1 DEF Lock, SendType, Stores, history
<1>4. ASSUME NEW t \in Threads, StorePart(t) PROVE SendType'
  <2>1. PICK store \in Stores : Visible(t, store)
    BY <1>4, StoreVisible
  <2>2. /\ hdr' \in [Cells -> Headers] /\ text' \in [Cells -> Messages \cup {NoMessage}]
        /\ UNCHANGED <<head, queued>>
    BY <1>4, StoreKeeps DEF SendInv
  <2> QED  BY <2>1, <2>2 DEF Visible, SendType
<1>5. ASSUME NEW t \in Threads, StoreHead(t) PROVE SendType'
  <2>1. /\ Visible(t, "head") /\ head' = NextCell(dst[t], Frame(msg[t])) /\ UNCHANGED <<hdr, text>>
        /\ queued' = Append(queued, [at |-> dst[t], msg |-> msg[t]])
    BY <1>5 DEF StoreHead
  <2>2. /\ msg[t] \in Messages /\ Pending(t) /\ dst[t] = IF Fits(head, msg[t]) THEN head ELSE 0
    BY <2>1, Storing DEF Stores, SendInv
  <2>3. head' \in Cells
    BY <2>1, <2>2, FreeCells DEF SendInv
  <2>4. queued' \in Seq(Placed)
    BY <2>1, <2>2 DEF SendType, Placed
  <2> QED  BY <2>1, <2>3, <2>4 DEF Visible, SendType
<1>6. ASSUME NEW t \in Threads, Unlock(t) PROVE SendType'
  <2>1. 0 \in Cells
    BY LengthAssumption DEF Cells
  <2> QED  BY <1>6, <2>1 DEF Unlock, SendType, history
<1>7. CASE FlushOnly
  <2>1. established' \in BOOLEAN
    BY <1>7 DEF FlushOnly, FlushBegin, FlushEnd, FlushRead, FlushSend, Establish, SendDirect, SendType
  <2>2. UNCHANGED <<head, tail, hdr, text, owner, step, msg, dst, todo, queued, backlog>>
    BY <1>7, FlushKeeps
  <2> QED  BY <2>1, <2>2 DEF SendType
<1>8. CASE Dequeue
  <2>1. /\ tail' \in Cells /\ backlog' \in Nat
        /\ queued' = queued \/ (queued # <<>> /\ queued' = Tail(queued))
    BY <1>8, DequeueRing DEF SendInv
  <2>2. queued' \in Seq(Placed)
    <3>1. queued \in Seq(Placed)
      BY DEF SendType
    <3> QED  BY <2>1, <3>1
  <2>3. UNCHANGED <<established, head, hdr, text, enqueueVars>>
    BY <1>8 DEF Dequeue
  <2> QED  BY <2>1, <2>2, <2>3 DEF SendType, enqueueVars
<1> QED  BY <1>1, <1>2, <1>3, <1>4, <1>5, <1>6, <1>7, <1>8, NextCases

(* No step disturbs the places of the frames. *)
LEMMA RingStep ==
  ASSUME HeadLast, SendType, SendInv, [Next]_vars
  PROVE  RingInv'
<1>1. RingInv /\ WriteInv /\ FlushInv
  BY DEF SendInv
<1>2. CASE UNCHANGED vars
  <2>1. UNCHANGED <<head, tail, hdr, text, step, todo, msg, queued, backlog>>
    BY <1>2 DEF vars, enqueueVars, history
  <2>2. \A t \in Threads : InFlight(t)' = InFlight(t)
    BY <2>1 DEF InFlight, Pending
  <2> QED  BY <1>1, <2>1, <2>2, KeepRing
<1>3. ASSUME NEW t \in Threads, NEW m \in Messages, Log(t, m) PROVE RingInv'
  BY <1>1, <1>3, LogRing
<1>4. ASSUME NEW t \in Threads, Lock(t) PROVE RingInv'
  <2>1. /\ UNCHANGED <<head, tail, hdr, text, msg, queued, backlog>>
        /\ step[t] = "lock" /\ step'[t] = "write" /\ "head" \in todo'[t]
        /\ \A u \in Threads \ {t} : step'[u] = step[u] /\ todo'[u] = todo[u]
    BY <1>4 DEF Lock, SendType, history
  <2>2. \A u \in Threads : Pending(u)' = Pending(u)
    BY <2>1 DEF Pending
  <2>3. \A u \in Threads : InFlight(u)' = InFlight(u)
    BY <2>1, <2>2 DEF InFlight
  <2> QED  BY <1>1, <2>1, <2>3, KeepRing
<1>5. ASSUME NEW t \in Threads, StorePart(t) PROVE RingInv'
  <2>1. PICK store \in Stores \ {"head"} : Visible(t, store)
    BY <1>5, StoreVisible
  <2>2. /\ todo' = [todo EXCEPT ![t] = @ \ {store}] /\ UNCHANGED <<tail, step, msg, backlog>>
    BY <2>1 DEF Visible
  <2>3. /\ \A c \in Cells : Live(c) => hdr'[c] = hdr[c] /\ text'[c] = text[c]
        /\ UNCHANGED <<head, queued>>
    BY <1>1, <1>5, StoreKeeps
  <2>4. \A u \in Threads : "head" \in todo'[u] <=> "head" \in todo[u]
    BY <2>1, <2>2 DEF SendType
  <2>5. \A u \in Threads : InFlight(u)' = InFlight(u)
    BY <2>2, <2>4 DEF InFlight, Pending
  <2> QED  BY <1>1, <2>2, <2>3, <2>5, KeepRing
<1>6. ASSUME NEW t \in Threads, StoreHead(t) PROVE RingInv'
  BY <1>1, <1>6, StoreHeadRing
<1>7. ASSUME NEW t \in Threads, Unlock(t) PROVE RingInv'
  <2>1. /\ UNCHANGED <<head, tail, hdr, text, todo, queued, backlog>>
        /\ step[t] = "write" /\ step'[t] = "idle" /\ todo[t] = {}
        /\ \A u \in Threads \ {t} : step'[u] = step[u] /\ msg'[u] = msg[u]
    BY <1>7 DEF Unlock, SendType, history
  <2>2. ~Pending(t) /\ ~Pending(t)'
    BY <2>1 DEF Pending
  <2>3. \A u \in Threads : InFlight(u)' = InFlight(u)
    BY <2>1, <2>2 DEF InFlight, Pending
  <2> QED  BY <1>1, <2>1, <2>3, KeepRing
<1>8. CASE FlushOnly
  <2>1. UNCHANGED <<head, tail, hdr, text, step, todo, msg, queued, backlog>>
    BY <1>8, FlushKeeps
  <2>2. \A t \in Threads : InFlight(t)' = InFlight(t)
    BY <2>1 DEF InFlight, Pending
  <2> QED  BY <1>1, <2>1, <2>2, KeepRing
<1>9. CASE Dequeue
  BY <1>1, <1>9, DequeueRing
<1> QED  BY <1>2, <1>3, <1>4, <1>5, <1>6, <1>7, <1>8, <1>9, NextCases

(* A thread that does not hold the mutex does not care what is stored. *)
LEMMA WriteOthers ==
  ASSUME SendType, WriteInv, NEW t \in Threads, owner = t \/ owner = Nobody,
         owner' = t \/ owner' = Nobody,
         \A u \in Threads \ {t} : step'[u] = step[u] /\ todo'[u] = todo[u]
  PROVE  \A u \in Threads \ {t} : Writing(u)'
<1> SUFFICES ASSUME NEW u \in Threads \ {t} PROVE Writing(u)'
  OBVIOUS
<1>1. owner # u /\ owner' # u
  BY MainAssumption
<1>2. step[u] # "write" /\ "head" \notin todo[u] /\ todo[u] = {}
  BY <1>1 DEF WriteInv, Writing
<1> QED  BY <1>1, <1>2 DEF Writing

(* What is being stored rests on nothing but these variables. *)
LEMMA WriteKept ==
  ASSUME WriteInv, UNCHANGED <<head, hdr, text, owner, step, msg, dst, todo>>
  PROVE  WriteInv'
<1>1. ASSUME NEW t \in Threads PROVE Writing(t)'
  <2>1. Writing(t)
    BY DEF WriteInv
  <2>2. Body(t)' = Body(t) /\ Fits(head, msg[t])' = Fits(head, msg[t])
    BY DEF Body, Fits
  <2> QED  BY <2>1, <2>2, Zenon DEF Writing
<1> QED  BY <1>1 DEF WriteInv

(* Storing a part of a frame keeps what was stored of it before. *)
LEMMA WritePart ==
  ASSUME HeadLast, SendType, RingInv, WriteInv, NEW t \in Threads, StorePart(t)
  PROVE  WriteInv'
<1>1. PICK store \in Stores \ {"head"} : Visible(t, store)
  BY StoreVisible
<1>2. /\ step[t] = "write" /\ owner = t /\ "head" \in todo[t] /\ Pending(t)
      /\ dst[t] = IF Fits(head, msg[t]) THEN head ELSE 0
      /\ todo'[t] = todo[t] \ {store} /\ \A u \in Threads \ {t} : todo'[u] = todo[u]
      /\ UNCHANGED <<owner, step, msg, dst>>
  BY <1>1, Storing
<1>3. Writing(t)
  BY DEF WriteInv
<1>4. /\ dst[t] \in Body(t) /\ \A c \in Body(t) : c \in Cells
      /\ ~Fits(head, msg[t]) => head \notin Body(t)
  BY <1>2, FreeCells
<1>5. head' = head /\ Body(t)' = Body(t) /\ Fits(head, msg[t])' = Fits(head, msg[t])
  <2>1. head' = head
    BY StoreKeeps
  <2> QED  BY <1>2, <2>1 DEF Body, Fits
<1>6. Writing(t)'
  <2>1. CASE StoreRemainder(t)
    <3>1. /\ "remainder" \in todo[t] /\ todo'[t] = todo[t] \ {"remainder"}
          /\ hdr'[head] = Null /\ text' = text
      BY <2>1, Storing DEF StoreRemainder, ZeroRemainder, SendType, Cells, Stores
    <3>2. hdr'[dst[t]] = hdr[dst[t]]
      <4>1. ~Fits(head, msg[t]) /\ dst[t] = 0
        BY <1>2, <1>3, <3>1 DEF Writing
      <4>2. dst[t] \in Cells /\ ~(dst[t] >= head)
        BY <1>4, <4>1 DEF SendType, Cells
      <4> QED  BY <2>1, <4>2 DEF StoreRemainder, ZeroRemainder
    <3> QED  BY <1>2, <1>3, <1>5, <3>1, <3>2 DEF Writing
  <2>2. CASE StoreHeader(t)
    <3>1. /\ "header" \in todo[t] /\ todo'[t] = todo[t] \ {"header"}
          /\ hdr' = [hdr EXCEPT ![dst[t]] = Header(msg[t].len)] /\ text' = text
      BY <2>2, Storing DEF StoreHeader, Stores
    <3>2. hdr'[dst[t]] = Header(msg[t].len) /\ (~Fits(head, msg[t]) => hdr'[head] = hdr[head])
      BY <1>4, <3>1 DEF SendType
    <3> QED  BY <1>2, <1>3, <1>5, <3>1, <3>2 DEF Writing
  <2>3. CASE StorePayload(t)
    <3>1. /\ "payload" \in todo[t] /\ todo'[t] = todo[t] \ {"payload"}
          /\ text' = [c \in Cells |-> IF c \in Body(t) THEN msg[t] ELSE text[c]]
          /\ hdr' = [c \in Cells |-> IF c \in Body(t) \ {dst[t]} THEN Garbled ELSE hdr[c]]
      BY <2>3, Storing DEF StorePayload, Stores
    <3>2. /\ hdr'[dst[t]] = hdr[dst[t]] /\ (~Fits(head, msg[t]) => hdr'[head] = hdr[head])
          /\ \A c \in Body(t) : text'[c] = msg[t]
      BY <1>4, <3>1 DEF SendType
    <3> QED  BY <1>2, <1>3, <1>5, <3>1, <3>2 DEF Writing
  <2> QED  BY <2>1, <2>2, <2>3 DEF StorePart
<1>7. \A u \in Threads \ {t} : Writing(u)'
  BY <1>2, WriteOthers
<1> QED  BY <1>6, <1>7 DEF WriteInv

(* No step disturbs what is being stored. *)
LEMMA WriteStep ==
  ASSUME HeadLast, SendType, SendInv, [Next]_vars
  PROVE  WriteInv'
<1>1. RingInv /\ WriteInv /\ FlushInv
  BY DEF SendInv
<1>2. CASE UNCHANGED vars
  BY <1>1, <1>2, WriteKept DEF vars, enqueueVars
<1>3. ASSUME NEW t \in Threads, NEW m \in Messages, Log(t, m) PROVE WriteInv'
  <2>1. /\ UNCHANGED <<head, hdr, text, owner, dst, todo>>
        /\ step[t] = "idle" /\ step'[t] = "lock"
        /\ \A u \in Threads \ {t} : step'[u] = step[u] /\ msg'[u] = msg[u]
    BY <1>3 DEF Log, SendType
  <2>2. Writing(t)'
    <3>1. Writing(t)
      BY <1>1 DEF WriteInv
    <3> QED  BY <2>1, <3>1 DEF Writing
  <2>3. ASSUME NEW u \in Threads \ {t} PROVE Writing(u)'
    <3>1. Writing(u)
      BY <1>1 DEF WriteInv
    <3>2. Body(u)' = Body(u) /\ Fits(head, msg[u])' = Fits(head, msg[u])
      BY <2>1 DEF Body, Fits
    <3> QED  BY <2>1, <3>1, <3>2 DEF Writing
  <2> QED  BY <2>2, <2>3 DEF WriteInv
<1>4. ASSUME NEW t \in Threads, Lock(t) PROVE WriteInv'
  <2>1. /\ UNCHANGED <<head, hdr, text, msg>> /\ owner = Nobody /\ owner' = t
        /\ step' = [step EXCEPT ![t] = "write"]
        /\ dst' = [dst EXCEPT ![t] = IF Fits(head, msg[t]) THEN head ELSE 0]
        /\ todo' = [todo EXCEPT ![t] = {"header", "payload", "head"}
                      \cup (IF Fits(head, msg[t]) THEN {} ELSE {"remainder"})]
    BY <1>4 DEF Lock, LockFree, history
  <2>2. \A u \in Threads \ {t} : Writing(u)'
    BY <1>1, <2>1, WriteOthers DEF SendType
  <2>3. /\ step'[t] = "write" /\ dst'[t] = (IF Fits(head, msg[t]) THEN head ELSE 0)'
        /\ "header" \in todo'[t] /\ "payload" \in todo'[t] /\ "head" \in todo'[t]
        /\ "remainder" \in todo'[t] <=> ~Fits(head, msg[t])'
    BY <2>1 DEF SendType, Fits
  <2>4. Writing(t)'
    BY <2>1, <2>3 DEF Writing
  <2> QED  BY <2>2, <2>4 DEF WriteInv
<1>5. ASSUME NEW t \in Threads, StorePart(t) PROVE WriteInv'
  BY <1>1, <1>5, WritePart
<1>6. ASSUME NEW t \in Threads, StoreHead(t) PROVE WriteInv'
  <2>1. /\ step[t] = "write" /\ owner = t /\ todo'[t] = {} /\ UNCHANGED <<owner, step>>
        /\ \A u \in Threads \ {t} : todo'[u] = todo[u]
    BY <1>1, <1>6, Storing DEF StoreHead, Stores
  <2>2. \A u \in Threads \ {t} : Writing(u)'
    BY <1>1, <2>1, WriteOthers
  <2>3. Writing(t)'
    BY <2>1 DEF Writing
  <2> QED  BY <2>2, <2>3 DEF WriteInv
<1>7. ASSUME NEW t \in Threads, Unlock(t) PROVE WriteInv'
  <2>1. /\ step[t] = "write" /\ todo[t] = {} /\ todo' = todo /\ owner' = Nobody
        /\ step' = [step EXCEPT ![t] = "idle"]
    BY <1>7 DEF Unlock
  <2>2. owner = t
    BY <1>1, <2>1 DEF WriteInv, Writing
  <2>3. \A u \in Threads \ {t} : Writing(u)'
    BY <1>1, <2>1, <2>2, WriteOthers DEF SendType
  <2>4. Writing(t)'
    <3>1. step'[t] = "idle" /\ owner' # t /\ todo'[t] = {}
      BY <2>1, MainAssumption DEF SendType
    <3> QED  BY <3>1 DEF Writing
  <2> QED  BY <2>3, <2>4 DEF WriteInv
<1>8. CASE FlushOnly
  BY <1>1, <1>8, FlushKeeps, WriteKept
<1>9. CASE Dequeue
  BY <1>1, <1>9, WriteKept DEF Dequeue, enqueueVars
<1> QED  BY <1>2, <1>3, <1>4, <1>5, <1>6, <1>7, <1>8, <1>9, NextCases

(* What the flush reads at the tail is a header, never the text of a message. *)
LEMMA HeaderAtTail ==
  ASSUME SendType, RingInv, tail # head
  PROVE  /\ queued # <<>> /\ AnnouncedAt(tail) = {SerializedFrameSize(hdr[tail])}
         /\ hdr[tail] # Null =>
              /\ queued[1] \in Placed /\ queued[1].at = tail /\ Stored(queued[1])
              /\ SerializedFrameSize(hdr[tail]) = Frame(queued[1].msg)
<1>1. PICK j \in 0 .. Len(queued), wrap \in 0 .. Size - 2 : RingAt(j, wrap)
  BY DEF RingInv
<1>2. queued # <<>> /\ queued[1] \in Placed
  <2>1. queued # <<>>
    BY <1>1, AtTail
  <2> QED  BY <2>1 DEF SendType
<1>3. \/ hdr[tail] = Null
      \/ /\ queued[1].at = tail /\ Stored(queued[1])
         /\ hdr[tail] = Header(queued[1].msg.len) /\ hdr[tail] # Null
  BY <1>1, AtTail
<1>4. /\ Header(queued[1].msg.len) # Garbled
      /\ SerializedFrameSize(Header(queued[1].msg.len)) = Frame(queued[1].msg)
  BY <1>2, PlacedFrame, HeaderOfFrame
<1>5. hdr[tail] # Garbled
  <2>1. Null # Garbled
    <3>1. Len(Null) = 2 /\ Len(Garbled) = 0
      BY DEF Null, Garbled
    <3> QED  BY <3>1
  <2> QED  BY <1>3, <1>4, <2>1
<1> QED  BY <1>2, <1>3, <1>4, <1>5 DEF AnnouncedAt

(* No step disturbs what the flush has read. *)
LEMMA FlushStep ==
  ASSUME HeadLast, SendType, SendInv, [Next]_vars
  PROVE  FlushInv'
<1>1. RingInv /\ WriteInv /\ FlushInv
  BY DEF SendInv
<1>2. CASE UNCHANGED vars
  BY <1>1, <1>2, Zenon DEF FlushInv, vars, enqueueVars, history
<1>3. ASSUME NEW t \in Threads, NEW m \in Messages, Log(t, m) PROVE FlushInv'
  BY <1>1, <1>3 DEF FlushInv, Log
<1>4. ASSUME NEW t \in Threads, Lock(t) PROVE FlushInv'
  BY <1>1, <1>4 DEF FlushInv, Lock
<1>5. ASSUME NEW t \in Threads, StorePart(t) PROVE FlushInv'
  <2>1. PICK store \in Stores : Visible(t, store)
    BY <1>5, StoreVisible
  <2>2. UNCHANGED <<established, tail, flush, fLen>>
    BY <2>1 DEF Visible
  <2>3. head' = head /\ (tail # head => hdr'[tail] = hdr[tail])
    <3>1. /\ \A c \in Cells : Live(c) => hdr'[c] = hdr[c] /\ text'[c] = text[c]
          /\ UNCHANGED <<head, queued>>
      BY <1>1, <1>5, StoreKeeps
    <3> QED  BY <1>1, <2>2, <3>1, OtherCells
  <2> QED  BY <1>1, <2>2, <2>3 DEF FlushInv
<1>6. ASSUME NEW t \in Threads, StoreHead(t) PROVE FlushInv'
  <2>1. /\ Pending(t) /\ dst[t] = IF Fits(head, msg[t]) THEN head ELSE 0
        /\ head' = NextCell(dst[t], Frame(msg[t])) /\ UNCHANGED <<established, tail, hdr, flush, fLen>>
    BY <1>1, <1>6, Storing DEF StoreHead, Stores
  <2>2. head' # tail
    BY <1>1, <2>1, FreeCells
  <2> QED  BY <1>1, <2>1, <2>2 DEF FlushInv
<1>7. ASSUME NEW t \in Threads, Unlock(t) PROVE FlushInv'
  BY <1>1, <1>7 DEF FlushInv, Unlock
<1>8. CASE FlushBegin \/ FlushEnd \/ FlushSend \/ Establish \/ \E m \in Messages : SendDirect(m)
  BY <1>1, <1>8 DEF FlushInv, FlushBegin, FlushEnd, FlushSend, Establish, SendDirect
<1>9. CASE FlushRead
  <2>1. /\ tail # head /\ fLen' \in AnnouncedAt(tail) /\ flush = "loop"
        /\ UNCHANGED <<established, head, tail, hdr>>
    BY <1>9 DEF FlushRead, More
  <2>2. fLen' = SerializedFrameSize(hdr[tail])
    BY <1>1, <2>1, HeaderAtTail
  <2> QED  BY <1>1, <2>1, <2>2 DEF FlushInv
<1>10. CASE Dequeue
  BY <1>1, <1>10 DEF FlushInv, Dequeue
<1> QED  BY <1>2, <1>3, <1>4, <1>5, <1>6, <1>7, <1>8, <1>9, <1>10, NextCases DEF FlushOnly

(* At first the ring is empty and nobody uses it. *)
LEMMA SendInit ==
  ASSUME Init
  PROVE  SendType /\ SendInv
<1>1. /\ established = FALSE /\ owner = Nobody /\ head = 0 /\ tail = 0 /\ queued = <<>> /\ backlog = 0
      /\ flush = "idle"
      /\ hdr = [c \in Cells |-> Null] /\ text = [c \in Cells |-> NoMessage]
      /\ step = [t \in Threads |-> "idle"] /\ todo = [t \in Threads |-> {}]
      /\ msg = [t \in Threads |-> NoMessage] /\ dst = [t \in Threads |-> 0]
  BY DEF Init
<1>2. 0 \in Cells /\ 0 \in 0 .. Size - 2
  BY LengthAssumption DEF Cells
<1>3. SendType
  <2>1. hdr \in [Cells -> Headers] /\ text \in [Cells -> Messages \cup {NoMessage}]
    BY <1>1 DEF Headers
  <2>2. /\ step \in [Threads -> {"idle", "lock", "write"}] /\ todo \in [Threads -> SUBSET Stores]
        /\ msg \in [Threads -> Messages \cup {NoMessage}] /\ dst \in [Threads -> Cells]
        /\ \A t \in Threads : step[t] = "idle"
    BY <1>1, <1>2
  <2>3. queued \in Seq(Placed) /\ backlog \in Nat /\ head \in Cells /\ tail \in Cells
    BY <1>1, <1>2
  <2> QED  BY <1>1, <2>1, <2>2, <2>3 DEF SendType
<1>4. FlushInv /\ WriteInv
  BY <1>1, MainAssumption DEF FlushInv, WriteInv, Writing
<1>5. SumFunction([t \in Threads |-> InFlight(t)]) = 0
  <2>1. \A t \in Threads : InFlight(t) = 0
    BY <1>1 DEF InFlight, Pending
  <2> QED  BY <1>3, <2>1, InFlightType, SumZero, MainAssumption
<1>6. RingAt(0, 0) /\ Used(0, 0) = 0
  BY <1>1 DEF RingAt, Chained, Used
<1>7. RingInv
  <2>1. backlog <= MaxBacklog /\ 0 \in 0 .. Len(queued)
    BY <1>1, LengthAssumption
  <2>2. backlog = Used(0, 0) + SumFunction([t \in Threads |-> InFlight(t)])
    BY <1>1, <1>5, <1>6
  <2> QED  BY <1>1, <1>2, <1>6, <2>1, <2>2 DEF RingInv
<1> QED  BY <1>3, <1>4, <1>7 DEF SendInv

(* Module SendQueue: the ring is a chain of whole frames from tail to head,    *)
(* wrapped at most once, whatever threads store and the flush reads without    *)
(* the mutex, provided that a frame is visible before the head that announces  *)
(* it and 1MB is never filled (getNextFrameForEnqueue, enqueueText,            *)
(* dequeueFrame).                                                              *)
LEMMA SendCorrect ==
  ASSUME HeadLast
  PROVE  Spec => [](SendType /\ SendInv)
<1>1. Init => SendType /\ SendInv
  BY SendInit
<1>2. SendType /\ SendInv /\ [Next]_vars => (SendType /\ SendInv)'
  BY TypeStep, RingStep, WriteStep, FlushStep DEF SendInv
<1> QED  BY <1>1, <1>2, PTL DEF Spec

-----------------------------------------------------------------------------
(* The stream that the client sees *)

MsgsOf(q) == [k \in 1 .. Len(q) |-> q[k].msg]

(* The messages of placed frames are as many and in the same order. *)
LEMMA MsgsType ==
  ASSUME NEW q \in Seq(Placed)
  PROVE  /\ MsgsOf(q) \in Seq(Messages) /\ Len(MsgsOf(q)) = Len(q)
         /\ q # <<>> => MsgsOf(q) # <<>> /\ Head(MsgsOf(q)) = q[1].msg
<1>1. \A k \in 1 .. Len(q) : q[k].msg \in Messages
  <2>1. \A k \in 1 .. Len(q) : q[k] \in Placed
    OBVIOUS
  <2> QED  BY <2>1 DEF Placed
<1>2. MsgsOf(q) \in Seq(Messages) /\ Len(MsgsOf(q)) = Len(q)
  BY <1>1 DEF MsgsOf
<1>3. q # <<>> => 1 \in 1 .. Len(q)
  OBVIOUS
<1>4. q # <<>> => MsgsOf(q)[1] = q[1].msg
  BY <1>3 DEF MsgsOf
<1>5. q # <<>> => MsgsOf(q) # <<>> /\ Head(MsgsOf(q)) = MsgsOf(q)[1]
  BY <1>2, <1>3
<1> QED  BY <1>2, <1>4, <1>5

(* A frame more is a message more. *)
LEMMA MsgsAppend ==
  ASSUME NEW q \in Seq(Placed), NEW f \in Placed
  PROVE  MsgsOf(Append(q, f)) = Append(MsgsOf(q), f.msg)
<1> DEFINE r == Append(q, f)
<1>1. /\ r \in Seq(Placed) /\ Len(r) = Len(q) + 1 /\ Len(q) \in Nat
      /\ r[Len(q) + 1] = f /\ \A k \in 1 .. Len(q) : r[k] = q[k]
  OBVIOUS
<1> HIDE DEF r
<1>2. f.msg \in Messages
  BY DEF Placed
<1>3. MsgsOf(r) \in Seq(Messages) /\ Len(MsgsOf(r)) = Len(q) + 1
  BY <1>1, MsgsType
<1>4. Append(MsgsOf(q), f.msg) \in Seq(Messages) /\ Len(Append(MsgsOf(q), f.msg)) = Len(q) + 1
  BY <1>2, MsgsType
<1>5. ASSUME NEW k \in 1 .. Len(q) + 1
      PROVE  MsgsOf(r)[k] = Append(MsgsOf(q), f.msg)[k]
  <2>1. MsgsOf(r)[k] = r[k].msg
    BY <1>1 DEF MsgsOf
  <2>2. CASE k = Len(q) + 1
    <3>1. Append(MsgsOf(q), f.msg)[k] = f.msg
      BY <1>2, <2>2, MsgsType
    <3> QED  BY <1>1, <2>1, <2>2, <3>1
  <2>3. CASE k # Len(q) + 1
    <3>1. k \in 1 .. Len(q)
      BY <1>1, <2>3
    <3>2. Append(MsgsOf(q), f.msg)[k] = MsgsOf(q)[k] /\ MsgsOf(q)[k] = q[k].msg
      BY <1>2, <3>1, MsgsType DEF MsgsOf
    <3> QED  BY <1>1, <2>1, <3>1, <3>2
  <2> QED  BY <2>2, <2>3
<1>6. MsgsOf(r) = Append(MsgsOf(q), f.msg)
  BY <1>3, <1>4, <1>5, SeqEqual
<1> QED  BY <1>6 DEF r

(* A frame less is a message less. *)
LEMMA MsgsTail ==
  ASSUME NEW q \in Seq(Placed), q # <<>>
  PROVE  MsgsOf(Tail(q)) = Tail(MsgsOf(q))
<1> DEFINE r == Tail(q)
<1>1. /\ r \in Seq(Placed) /\ Len(r) = Len(q) - 1 /\ Len(q) \in Nat /\ Len(q) >= 1
      /\ \A k \in 1 .. Len(q) - 1 : r[k] = q[k + 1]
  OBVIOUS
<1> HIDE DEF r
<1>2. MsgsOf(r) \in Seq(Messages) /\ Len(MsgsOf(r)) = Len(q) - 1
  BY <1>1, MsgsType
<1>3. MsgsOf(q) \in Seq(Messages) /\ Len(MsgsOf(q)) = Len(q) /\ MsgsOf(q) # <<>>
  BY MsgsType
<1>4. Tail(MsgsOf(q)) \in Seq(Messages) /\ Len(Tail(MsgsOf(q))) = Len(q) - 1
  BY <1>1, <1>3
<1>5. ASSUME NEW k \in 1 .. Len(q) - 1
      PROVE  MsgsOf(r)[k] = Tail(MsgsOf(q))[k]
  <2>1. k + 1 \in 1 .. Len(q)
    BY <1>1
  <2>2. MsgsOf(r)[k] = r[k].msg /\ MsgsOf(q)[k + 1] = q[k + 1].msg
    BY <1>1, <2>1 DEF MsgsOf
  <2>3. Tail(MsgsOf(q))[k] = MsgsOf(q)[k + 1]
    BY <1>1, <1>3
  <2> QED  BY <1>1, <2>2, <2>3
<1>6. MsgsOf(r) = Tail(MsgsOf(q))
  BY <1>2, <1>4, <1>5, SeqEqual
<1> QED  BY <1>6 DEF r

(* The queue of the stream: the frame that is being skipped has been sent. *)
LEMMA QueueIs ==
  /\ Sent  => Queue = Tail(MsgsOf(queued))
  /\ ~Sent => Queue = MsgsOf(queued)
BY DEF Queue, MsgsOf

(* The abstract queue after a step *)
LEMMA QueueIsNext ==
  /\ Sent'  => Queue' = Tail(MsgsOf(queued'))
  /\ ~Sent' => Queue' = MsgsOf(queued')
BY DEF Queue, MsgsOf

(* It stays as it is when the frames and the flush do. *)
LEMMA QueueKept ==
  ASSUME UNCHANGED <<queued, flush>>, flush = "dequeue" => tail' = tail /\ hdr'[tail] = hdr[tail]
  PROVE  Queue' = Queue
<1>1. Sent' = Sent
  BY DEF Sent
<1> QED  BY <1>1, QueueIs, QueueIsNext, Zenon

(* Outside of the dequeue, no frame at the tail has been sent. *)
LEMMA NotSent ==
  ASSUME flush # "dequeue" \/ hdr[tail] = Null
  PROVE  ~Sent
BY DEF Sent

(* The same after a step *)
LEMMA NotSentNext ==
  ASSUME flush' # "dequeue" \/ hdr'[tail'] = Null
  PROVE  ~Sent'
BY DEF Sent

(* The store of the head is where a message is logged. *)
LEMMA HeadIsLog ==
  ASSUME HeadLast, SendType, SendInv, NEW t \in Threads, StoreHead(t)
  PROVE  Stream!Log
<1>1. /\ msg[t] \in Messages /\ dst[t] \in Cells
      /\ queued' = Append(queued, [at |-> dst[t], msg |-> msg[t]])
      /\ UNCHANGED <<established, wire, flush, tail, hdr>>
  BY Storing DEF StoreHead, Stores, SendInv, SendType
<1>2. MsgsOf(queued') = Append(MsgsOf(queued), msg[t])
  <2>1. [at |-> dst[t], msg |-> msg[t]] \in Placed /\ queued \in Seq(Placed)
    BY <1>1 DEF Placed, SendType
  <2> QED  BY <1>1, <2>1, MsgsAppend
<1>3. Sent' = Sent
  BY <1>1 DEF Sent
<1>4. Queue' = Append(Queue, msg[t])
  <2>1. CASE Sent
    <3>1. tail # head
      BY <2>1 DEF Sent, SendInv, FlushInv
    <3>2. queued # <<>> /\ queued \in Seq(Placed)
      BY <3>1, HeaderAtTail DEF SendInv, SendType
    <3>3. MsgsOf(queued) \in Seq(Messages) /\ MsgsOf(queued) # <<>>
      BY <3>2, MsgsType
    <3>4. Tail(Append(MsgsOf(queued), msg[t])) = Append(Tail(MsgsOf(queued)), msg[t])
      BY <1>1, <3>3
    <3> QED  BY <1>2, <1>3, <2>1, <3>4, QueueIs, QueueIsNext
  <2>2. CASE ~Sent
    BY <1>2, <1>3, <2>2, QueueIs, QueueIsNext
  <2> QED  BY <2>1, <2>2
<1> QED  BY <1>1, <1>4 DEF Stream!Log

(* The bytes that are sent are the first message of the queue. *)
LEMMA SendsFirst ==
  ASSUME SendType, RingInv, tail # head, hdr[tail] # Null, fLen = SerializedFrameSize(hdr[tail])
  PROVE  /\ BytesAt(tail, fLen) = queued[1].msg
         /\ TooShort(fLen) <=> OneChar(queued[1].msg)
         /\ queued[1].msg \in Messages
<1> DEFINE m == queued[1].msg
<1>1. /\ queued[1] \in Placed /\ queued[1].at = tail /\ Stored(queued[1]) /\ queued # <<>>
      /\ fLen = Frame(m)
  BY HeaderAtTail
<1>2. m \in Messages /\ 1 \in 1 .. Len(queued)
  BY <1>1, PlacedFrame DEF SendType
<1>3. TooShort(fLen) <=> OneChar(m)
  BY <1>1, <1>2, FrameCells DEF TooShort, OneChar
<1>4. tail .. End(queued[1]) - 1 = tail .. tail + CellsOf(fLen) - 1
  <2>1. End(queued[1]) = tail + CellsOf(fLen)
    BY <1>1 DEF End, Extent
  <2>2. CellsOf(fLen) \in Nat /\ tail \in Nat
    <3>1. CellsOf(fLen) = Extent(m)
      BY <1>1 DEF Extent
    <3> QED  BY <1>1, <1>2, <3>1, FrameCells, PlacedFrame
  <2> HIDE DEF m
  <2> QED  BY <2>1, <2>2
<1>5. /\ hdr[tail] = Header(m.len) /\ \A c \in tail .. tail + CellsOf(fLen) - 1 : text[c] = m
      /\ tail \in tail .. tail + CellsOf(fLen) - 1
  <2>1. \A c \in tail .. End(queued[1]) - 1 : text[c] = m
    BY <1>1 DEF Stored
  <2>2. tail \in tail .. End(queued[1]) - 1
    BY <1>1, PlacedFrame
  <2>3. hdr[tail] = Header(m.len)
    BY <1>1 DEF Stored
  <2> QED  BY <1>4, <2>1, <2>2, <2>3, Zenon
<1>6. \A c \in tail .. tail + CellsOf(fLen) - 1 : c \in Cells
  <2>1. PICK j \in 0 .. Len(queued), wrap \in 0 .. Size - 2 : RingAt(j, wrap)
    BY DEF RingInv
  <2>2. \A c \in queued[1].at .. End(queued[1]) - 1 : c \in Cells
    BY <1>2, <2>1, LiveCells
  <2>3. \A c \in tail .. End(queued[1]) - 1 : c \in Cells
    BY <1>1, <2>2
  <2> QED  BY <1>4, <2>3, Zenon
<1>7. text[tail] = m
  BY <1>5
<1> HIDE DEF m
<1>8. BytesAt(tail, fLen) = m
  BY <1>1, <1>2, <1>5, <1>6, <1>7 DEF BytesAt
<1> QED  BY <1>2, <1>3, <1>8 DEF m

(* The send sends the first of the queue, or drops what is too short to send. *)
LEMMA SendIsSend ==
  ASSUME SendType, SendInv, FlushSend
  PROVE  Stream!Send \/ Stream!Drop \/ UNCHANGED <<established, Queue, wire>>
<1>1. /\ flush = "send" /\ flush' = "dequeue" /\ UNCHANGED <<established, head, tail, hdr, text, queued>>
      /\ wire' = IF TooShort(fLen) THEN wire ELSE BytesAt(tail, fLen)
  BY DEF FlushSend
<1>2. tail # head /\ fLen = SerializedFrameSize(hdr[tail]) /\ established
  BY <1>1 DEF SendInv, FlushInv
<1>3. Queue = MsgsOf(queued)
  BY <1>1, NotSent, QueueIs
<1>4. CASE hdr[tail] = Null
  <2>1. TooShort(fLen)
    BY <1>2, <1>4 DEF Null, SerializedFrameSize, Small, TooShort
  <2>2. Queue' = MsgsOf(queued')
    BY <1>1, <1>4, NotSentNext, QueueIsNext
  <2> QED  BY <1>1, <1>3, <2>1, <2>2
<1>5. CASE hdr[tail] # Null
  <2>1. Queue' = Tail(MsgsOf(queued'))
    <3>1. Sent'
      BY <1>1, <1>5 DEF Sent
    <3> QED  BY <3>1, QueueIsNext
  <2>2. queued # <<>> /\ queued \in Seq(Placed)
    BY <1>2, HeaderAtTail DEF SendInv, SendType
  <2>3. Queue # <<>> /\ Head(Queue) = queued[1].msg /\ Queue' = Tail(Queue)
    BY <1>1, <1>3, <2>1, <2>2, MsgsType
  <2>4. BytesAt(tail, fLen) = queued[1].msg /\ (TooShort(fLen) <=> OneChar(queued[1].msg))
    BY <1>2, <1>5, SendsFirst DEF SendInv
  <2> QED  BY <1>1, <1>2, <2>3, <2>4 DEF Stream!Send, Stream!Drop
<1> QED  BY <1>4, <1>5

(* The dequeue changes nothing that LogStream sees. *)
LEMMA DequeueIsNothing ==
  ASSUME SendType, SendInv, Dequeue
  PROVE  UNCHANGED <<established, Queue, wire>>
<1>1. flush = "dequeue" /\ flush' = "loop" /\ UNCHANGED <<established, wire>>
  BY DEF Dequeue
<1>2. Queue' = MsgsOf(queued')
  BY <1>1, NotSentNext, QueueIsNext
<1>3. IF hdr[tail] = Null THEN queued' = queued ELSE queued # <<>> /\ queued' = Tail(queued)
  BY DequeueRing DEF SendInv
<1>4. CASE hdr[tail] = Null
  BY <1>1, <1>2, <1>3, <1>4, NotSent, QueueIs
<1>5. CASE hdr[tail] # Null
  <2>1. Queue = Tail(MsgsOf(queued))
    <3>1. Sent
      BY <1>1, <1>5 DEF Sent
    <3> QED  BY <3>1, QueueIs
  <2>2. MsgsOf(queued') = Tail(MsgsOf(queued))
    BY <1>3, <1>5, MsgsTail DEF SendType
  <2> QED  BY <1>1, <1>2, <2>1, <2>2
<1> QED  BY <1>4, <1>5

(* Every step is one of LogStream or changes nothing of it. *)
LEMMA StreamStep ==
  ASSUME HeadLast, SendType, SendInv, [Next]_vars
  PROVE  Stream!Next \/ UNCHANGED <<established, Queue, wire>>
<1>1. RingInv /\ WriteInv /\ FlushInv
  BY DEF SendInv
<1>2. CASE UNCHANGED vars
  BY <1>2, QueueKept DEF vars, enqueueVars, history
<1>3. ASSUME NEW t \in Threads, NEW m \in Messages, Log(t, m)
      PROVE  UNCHANGED <<established, Queue, wire>>
  BY <1>3, QueueKept DEF Log
<1>4. ASSUME NEW t \in Threads, Lock(t) \/ Unlock(t) PROVE UNCHANGED <<established, Queue, wire>>
  BY <1>4, QueueKept DEF Lock, Unlock, history
<1>5. ASSUME NEW t \in Threads, StorePart(t) PROVE UNCHANGED <<established, Queue, wire>>
  <2>1. PICK store \in Stores : Visible(t, store)
    BY <1>5, StoreVisible
  <2>2. UNCHANGED <<established, wire, tail, flush>>
    BY <2>1 DEF Visible
  <2>3. queued' = queued /\ (tail # head => hdr'[tail] = hdr[tail])
    <3>1. /\ \A c \in Cells : Live(c) => hdr'[c] = hdr[c] /\ text'[c] = text[c]
          /\ UNCHANGED <<head, queued>>
      BY <1>1, <1>5, StoreKeeps
    <3> QED  BY <1>1, <2>2, <3>1, OtherCells
  <2>4. flush = "dequeue" => tail # head
    BY <1>1 DEF FlushInv
  <2> QED  BY <2>2, <2>3, <2>4, QueueKept
<1>6. ASSUME NEW t \in Threads, StoreHead(t) PROVE Stream!Log
  BY <1>6, HeadIsLog
<1>7. ASSUME NEW m \in Messages, SendDirect(m) PROVE Stream!SendPast
  <2>1. established /\ Frame(m) >= 4 /\ wire' = m /\ UNCHANGED <<established, queued, flush, tail, hdr>>
    BY <1>7 DEF SendDirect
  <2>2. ~OneChar(m)
    BY <2>1, FrameCells DEF OneChar
  <2>3. Queue' = Queue
    BY <2>1, QueueKept
  <2> QED  BY <2>1, <2>2, <2>3 DEF Stream!SendPast
<1>8. CASE FlushBegin \/ FlushEnd \/ FlushRead
  <2>1. /\ flush # "dequeue" /\ flush' # "dequeue" /\ UNCHANGED <<established, wire, queued>>
    BY <1>8 DEF FlushBegin, FlushEnd, FlushRead, history
  <2> QED  BY <2>1, NotSent, NotSentNext, QueueIs, QueueIsNext
<1>9. CASE FlushSend
  <2>1. Stream!Send \/ Stream!Drop \/ UNCHANGED <<established, Queue, wire>>
    BY <1>9, SendIsSend
  <2> QED  BY <2>1 DEF Stream!Next
<1>10. CASE Dequeue
  BY <1>10, DequeueIsNothing
<1>11. CASE Establish
  <2>1. flush = "idle" /\ established' = ~established /\ UNCHANGED <<tail, hdr, flush, wire, queued>>
    BY <1>11 DEF Establish, history
  <2>2. Queue' = Queue
    BY <2>1, QueueKept
  <2> QED  BY <2>1, <2>2 DEF Stream!Next, Stream!OpenClose
<1> QED
  BY <1>2, <1>3, <1>4, <1>5, <1>6, <1>7, <1>8, <1>9, <1>10, <1>11, NextCases
  DEF FlushOnly, Stream!Next

(* Module SendQueue implements module LogStream: the client gets the messages  *)
(* that were logged whole, once and in order, although the flush reads the     *)
(* ring without the mutex, if one pair of stores is ordered: whatever the      *)
(* header, the text and the zeros of the remainder do among themselves, the    *)
(* head reaches the main thread after them.  Nothing in enqueueText orders it  *)
(* (WebSocket.cpp:119), so that on a weakly ordered CPU this is what the code  *)
(* owes: a release store of sendQueueHead, and its acquiring load.             *)
THEOREM StreamCorrect ==
  ASSUME HeadLast
  PROVE  Spec => ImplementsLogStream
<1>1. Init => Stream!Init
  <2> SUFFICES ASSUME Init PROVE Stream!Init
    OBVIOUS
  <2>1. established = FALSE /\ wire = NoMessage /\ queued = <<>> /\ flush = "idle"
    BY DEF Init
  <2>2. Queue = MsgsOf(queued)
    BY <2>1, NotSent, QueueIs
  <2>3. MsgsOf(queued) = <<>>
    BY <2>1 DEF MsgsOf
  <2> QED  BY <2>1, <2>2, <2>3 DEF Stream!Init
<1>2. SendType /\ SendInv /\ [Next]_vars => [Stream!Next]_<<established, Queue, wire>>
  BY StreamStep
<1> QED  BY <1>1, <1>2, SendCorrect, PTL DEF Spec, ImplementsLogStream, Stream!Spec
=============================================================================
