-------------------------- MODULE HkIpSessionProofs --------------------------
(***************************************************************************)
(* Proofs about the TLV codec, for any list and any length of a fragment,  *)
(* and about HkIpSession, which uses it, for any sizes, keys and number of *)
(* frames: the types, that frames are in step, that a handler gets the     *)
(* whole request, and that pair setup uses SRP keys that are live.         *)
(***************************************************************************)
EXTENDS HkIpSession, HkNumbers, SequenceTheorems

-----------------------------------------------------------------------------
(* The TLV codec.  FoldLeft is a recursive function on sets of indices, of *)
(* which it has to be shown that it exists; then it goes through a list    *)
(* one by one.                                                             *)

Tlv == [type : Nat, value : Seq(Nat)]

-----------------------------------------------------------------------------

\* The bytes after each element.
Serializes(f, list) ==
  /\ f[0] = <<>>
  /\ \A n \in 1..Len(list) :
       LET x == Reverse(list)[n]
       IN  f[n] = f[n - 1] \o <<x.type, Len(x.value)>> \o x.value
  /\ Serialize(list) = f[Len(list)]

LEMMA SerializeFold ==
  ASSUME NEW list \in Seq(Tlv)
  PROVE  \E f : Serializes(f, list)
<1> DEFINE s == Reverse(list)
           D == DOMAIN s
           Body(g, t) ==
             IF t = {} THEN <<>>
             ELSE g[t \ {Max(t)}] \o <<s[Max(t)].type, Len(s[Max(t)].value)>> \o s[Max(t)].value
           Fold(n) == \E g : g = [t \in SUBSET (1..n) |-> Body(g, t)]
           iter == CHOOSE g : g = [t \in SUBSET D |-> Body(g, t)]
<1>1. Serialize(list) = iter[D]
  BY DEF Serialize, FoldLeft, MapThenFoldSet
<1>2. \A n \in Nat : Fold(n)
  <2> DEFINE S == {n \in Nat : Fold(n)}
  <2>1. Fold(0)
    <3> DEFINE g == [t \in SUBSET (1..0) |-> <<>>]
    <3>1. g = [t \in SUBSET (1..0) |-> Body(g, t)]
      <4>1. \A t \in SUBSET (1..0) : t = {}
        OBVIOUS
      <4> QED
        BY <4>1
    <3> QED
      BY <3>1
  <2>2. ASSUME NEW n \in Nat, Fold(n) PROVE Fold(n + 1)
    <3>1. PICK g : g = [t \in SUBSET (1..n) |-> Body(g, t)]
      BY <2>2
    <3> DEFINE h == [t \in SUBSET (1..(n + 1)) |-> Body(g, t)]
    <3>2. \A t \in SUBSET (1..n) : t \in SUBSET (1..(n + 1)) /\ h[t] = g[t]
      <4>1. (1..n) \subseteq (1..(n + 1))
        OBVIOUS
      <4> HIDE DEF Body
      <4> QED
        BY <3>1, <4>1
    <3>3. ASSUME NEW t \in SUBSET (1..(n + 1)) PROVE Body(h, t) = Body(g, t)
      <4>1. t # {} => h[t \ {Max(t)}] = g[t \ {Max(t)}]
        BY <3>2, WithoutLargest
      <4> HIDE DEF h, s
      <4> QED
        BY <4>1
    <3>4. h = [t \in SUBSET (1..(n + 1)) |-> Body(h, t)]
      <4> HIDE DEF Body
      <4> QED
        BY <3>3
    <3> QED
      BY <3>4
  <2> HIDE DEF Fold
  <2>3. S \in SUBSET Nat /\ 0 \in S /\ \A n \in S : n + 1 \in S
    BY <2>1, <2>2
  <2>4. S = Nat
    <3> HIDE DEF S
    <3> QED
      BY <2>3, Induction
  <2> QED
    BY <2>4
<1>3. D = 1..Len(list) /\ Len(list) \in Nat
  BY DEF Reverse
<1>4. iter = [t \in SUBSET D |-> Body(iter, t)]
  <2>1. \E g : g = [t \in SUBSET D |-> Body(g, t)]
    BY <1>2, <1>3
  <2> HIDE DEF D, s
  <2> QED
    BY <2>1
<1> DEFINE f == [n \in 0..Len(list) |-> iter[1..n]]
<1>5. f[0] = <<>>
  <2>1. {} \in SUBSET D /\ 1..0 = {}
    OBVIOUS
  <2>2. iter[{}] = <<>>
    BY <1>4, <2>1
  <2> HIDE DEF iter
  <2> QED
    BY <1>3, <2>1, <2>2
<1>6. ASSUME NEW n \in 1..Len(list)
      PROVE  f[n] = f[n - 1] \o <<s[n].type, Len(s[n].value)>> \o s[n].value
  <2>1. n - 1 \in Nat /\ n = (n - 1) + 1
    BY <1>3
  <2>3. 1..n \in SUBSET D /\ 1..n # {}
    <3>1. (1..n) \subseteq (1..Len(list)) /\ 1 \in 1..n
      BY <1>3
    <3> QED
      BY <1>3, <3>1
  <2>2. Max(1..n) = n /\ (1..n) \ {n} = 1..(n - 1)
    BY <2>1, LastIndex
  <2>4. iter[1..n] = iter[1..(n - 1)] \o <<s[n].type, Len(s[n].value)>> \o s[n].value
    <3> HIDE DEF D, s, iter
    <3> QED
      BY <1>4, <2>2, <2>3
  <2>5. n \in 0..Len(list) /\ n - 1 \in 0..Len(list)
    BY <1>3
  <2> HIDE DEF D, s, iter
  <2> QED
    BY <2>4, <2>5
<1>7. Serialize(list) = f[Len(list)]
  <2> HIDE DEF iter
  <2> QED
    BY <1>1, <1>3
<1> HIDE DEF f
<1>8. Serializes(f, list)
  BY <1>5, <1>6, <1>7 DEF Serializes
<1> QED
  BY <1>8

LEMMA ChunksType ==
  ASSUME NEW data \in Seq(Nat)
  PROVE  Chunks(data) \in Nat \ {0}
<1>1. Len(data) \in Nat /\ (data # <<>> => Len(data) # 0)
  OBVIOUS
<1>2. CASE data = <<>>
  BY <1>2 DEF Chunks
<1>3. CASE data # <<>>
  <2>1. (Len(data) + MaxLength - 1) \div MaxLength \in Nat \ {0}
    BY <1>1, <1>3, MaxLengthAssumption, RoundedUp
  <2> QED
    BY <1>3, <2>1 DEF Chunks
<1> QED
  BY <1>2, <1>3

\* The list after each fragment.
Adds(f, list, type, data) ==
  /\ f[0] = list
  /\ \A n \in 1..Chunks(data) : f[n] = Prepend(f[n - 1], type, Chunk(data, n))
  /\ Add(list, type, data) = f[Chunks(data)]

LEMMA AddFold ==
  ASSUME NEW list, NEW type, NEW data \in Seq(Nat)
  PROVE  \E f : Adds(f, list, type, data)
<1> DEFINE s == [i \in 1..Chunks(data) |-> i]
           D == DOMAIN s
           Body(g, t) ==
             IF t = {} THEN list
             ELSE Prepend(g[t \ {Max(t)}], type, Chunk(data, s[Max(t)]))
           Fold(n) == \E g : g = [t \in SUBSET (1..n) |-> Body(g, t)]
           iter == CHOOSE g : g = [t \in SUBSET D |-> Body(g, t)]
<1>1. Add(list, type, data) = iter[D]
  BY DEF Add, FoldLeft, MapThenFoldSet
<1>2. \A n \in Nat : Fold(n)
  <2> DEFINE S == {n \in Nat : Fold(n)}
  <2>1. Fold(0)
    <3> DEFINE g == [t \in SUBSET (1..0) |-> list]
    <3>1. g = [t \in SUBSET (1..0) |-> Body(g, t)]
      <4>1. \A t \in SUBSET (1..0) : t = {}
        OBVIOUS
      <4> QED
        BY <4>1
    <3> QED
      BY <3>1
  <2>2. ASSUME NEW n \in Nat, Fold(n) PROVE Fold(n + 1)
    <3>1. PICK g : g = [t \in SUBSET (1..n) |-> Body(g, t)]
      BY <2>2
    <3> DEFINE h == [t \in SUBSET (1..(n + 1)) |-> Body(g, t)]
    <3>2. \A t \in SUBSET (1..n) : t \in SUBSET (1..(n + 1)) /\ h[t] = g[t]
      <4>1. (1..n) \subseteq (1..(n + 1))
        OBVIOUS
      <4> HIDE DEF Body
      <4> QED
        BY <3>1, <4>1
    <3>3. ASSUME NEW t \in SUBSET (1..(n + 1)) PROVE Body(h, t) = Body(g, t)
      <4>1. t # {} => h[t \ {Max(t)}] = g[t \ {Max(t)}]
        BY <3>2, WithoutLargest
      <4> HIDE DEF h, s
      <4> QED
        BY <4>1
    <3>4. h = [t \in SUBSET (1..(n + 1)) |-> Body(h, t)]
      <4> HIDE DEF Body
      <4> QED
        BY <3>3
    <3> QED
      BY <3>4
  <2> HIDE DEF Fold
  <2>3. S \in SUBSET Nat /\ 0 \in S /\ \A n \in S : n + 1 \in S
    BY <2>1, <2>2
  <2>4. S = Nat
    <3> HIDE DEF S
    <3> QED
      BY <2>3, Induction
  <2> QED
    BY <2>4
<1>3. D = 1..Chunks(data) /\ Chunks(data) \in Nat
  BY ChunksType
<1>4. iter = [t \in SUBSET D |-> Body(iter, t)]
  <2>1. \E g : g = [t \in SUBSET D |-> Body(g, t)]
    BY <1>2, <1>3
  <2> HIDE DEF D, s
  <2> QED
    BY <2>1
<1> DEFINE f == [n \in 0..Chunks(data) |-> iter[1..n]]
<1>5. f[0] = list
  <2>1. {} \in SUBSET D /\ 1..0 = {}
    OBVIOUS
  <2>2. iter[{}] = list
    BY <1>4, <2>1
  <2> HIDE DEF iter
  <2> QED
    BY <1>3, <2>1, <2>2
<1>6. ASSUME NEW n \in 1..Chunks(data)
      PROVE  f[n] = Prepend(f[n - 1], type, Chunk(data, n))
  <2>1. n - 1 \in Nat /\ n = (n - 1) + 1
    BY <1>3
  <2>3. 1..n \in SUBSET D /\ 1..n # {}
    <3>1. (1..n) \subseteq (1..Chunks(data)) /\ 1 \in 1..n
      BY <1>3
    <3> QED
      BY <1>3, <3>1
  <2>2. Max(1..n) = n /\ (1..n) \ {n} = 1..(n - 1)
    BY <2>1, LastIndex
  <2>4. iter[1..n] = Prepend(iter[1..(n - 1)], type, Chunk(data, s[n]))
    <3> HIDE DEF D, s, iter
    <3> QED
      BY <1>4, <2>2, <2>3
  <2>5. n \in 0..Chunks(data) /\ n - 1 \in 0..Chunks(data)
    BY <1>3
  <2>6. s[n] = n
    OBVIOUS
  <2> HIDE DEF D, s, iter
  <2> QED
    BY <2>4, <2>5, <2>6
<1>7. Add(list, type, data) = f[Chunks(data)]
  <2> HIDE DEF iter
  <2> QED
    BY <1>1, <1>3
<1> HIDE DEF f
<1>8. Adds(f, list, type, data)
  BY <1>5, <1>6, <1>7 DEF Adds
<1> QED
  BY <1>8

-----------------------------------------------------------------------------

\* How far the first n fragments reach.
Reach(data, n) == IF n * MaxLength > Len(data) THEN Len(data) ELSE n * MaxLength

LEMMA ReachGrows ==
  ASSUME NEW data \in Seq(Nat), NEW n \in Nat
  PROVE  /\ Reach(data, n) \in 0..Len(data)
         /\ Reach(data, n) <= Reach(data, n + 1)
         /\ Reach(data, n + 1) <= Reach(data, n) + MaxLength
<1>1. /\ n * MaxLength \in Nat /\ (n + 1) * MaxLength = (n * MaxLength) + MaxLength
      /\ MaxLength \in Nat
  BY MaxLengthAssumption
<1> QED
  BY <1>1 DEF Reach

LEMMA ChunkIsNext ==
  ASSUME NEW data \in Seq(Nat), NEW n \in 1..Chunks(data)
  PROVE  Chunk(data, n) = SubSeq(data, Reach(data, n - 1) + 1, Reach(data, n))
<1>1. n \in Nat /\ n - 1 \in Nat /\ n >= 1
  BY ChunksType
<1>2. ~((n - 1) * MaxLength > Len(data))
  <2>1. CASE data = <<>>
    <3>1. n = 1 /\ 0 * MaxLength = 0
      BY <2>1, MaxLengthAssumption DEF Chunks
    <3> QED
      BY <2>1, <3>1
  <2>2. CASE data # <<>>
    <3> DEFINE m == Chunks(data)
    <3>1. m \in Nat /\ n <= m /\ m * MaxLength < Len(data) + MaxLength
      BY <2>2, MaxLengthAssumption, RoundedUp, ChunksType DEF Chunks
    <3> HIDE DEF m
    <3>2. ((n - 1) * MaxLength) + MaxLength <= m * MaxLength
      BY <1>1, <3>1, MaxLengthAssumption, Factor
    <3>3. (n - 1) * MaxLength \in Nat /\ m * MaxLength \in Nat
      BY <1>1, <3>1, MaxLengthAssumption
    <3> QED
      BY <3>1, <3>2, <3>3, MaxLengthAssumption
  <2> QED
    BY <2>1, <2>2
<1> QED
  BY <1>2 DEF Chunk, Reach

LEMMA LastChunk ==
  ASSUME NEW data \in Seq(Nat)
  PROVE  Reach(data, Chunks(data)) = Len(data)
<1>1. CASE data = <<>>
  BY <1>1, MaxLengthAssumption DEF Chunks, Reach
<1>2. CASE data # <<>>
  <2>1. Len(data) <= Chunks(data) * MaxLength /\ Chunks(data) * MaxLength \in Nat
    <3> DEFINE m == Chunks(data)
    <3>1. m \in Nat /\ Len(data) <= m * MaxLength
      BY <1>2, MaxLengthAssumption, RoundedUp, ChunksType DEF Chunks
    <3> HIDE DEF m
    <3>2. m * MaxLength \in Nat
      BY <3>1, MaxLengthAssumption
    <3> QED
      BY <3>1, <3>2 DEF m
  <2> QED
    BY <2>1 DEF Reach
<1> QED
  BY <1>1, <1>2

LEMMA Joined ==
  ASSUME NEW data \in Seq(Nat), NEW a \in 0..Len(data), NEW b \in a..Len(data)
  PROVE  SubSeq(data, 1, a) \o SubSeq(data, a + 1, b) = SubSeq(data, 1, b)
OBVIOUS

LEMMA ChunkType ==
  ASSUME NEW data \in Seq(Nat), NEW n \in 1..Chunks(data)
  PROVE  /\ Chunk(data, n) \in Seq(Nat)
         /\ Len(Chunk(data, n)) \in 0..MaxLength
         /\ SubSeq(data, 1, Reach(data, n - 1)) \o Chunk(data, n)
              = SubSeq(data, 1, Reach(data, n))
<1> DEFINE a == Reach(data, n - 1)
           b == Reach(data, n)
<1>1. n - 1 \in Nat /\ n = (n - 1) + 1
  BY ChunksType
<1>2. a \in 0..Len(data) /\ b \in 0..Len(data) /\ a <= b /\ b <= a + MaxLength
  <2>1. /\ Reach(data, n - 1) \in 0..Len(data)
        /\ Reach(data, n - 1) <= Reach(data, (n - 1) + 1)
        /\ Reach(data, (n - 1) + 1) <= Reach(data, n - 1) + MaxLength
    BY <1>1, ReachGrows
  <2>2. n \in Nat /\ Reach(data, n) \in 0..Len(data)
    BY <1>1, ReachGrows
  <2> QED
    BY <1>1, <2>1, <2>2
<1>3. Chunk(data, n) = SubSeq(data, a + 1, b)
  BY ChunkIsNext
<1> HIDE DEF a, b
<1>4. SubSeq(data, a + 1, b) \in Seq(Nat) /\ Len(SubSeq(data, a + 1, b)) = b - a
  BY <1>2
<1>5. SubSeq(data, 1, a) \o SubSeq(data, a + 1, b) = SubSeq(data, 1, b)
  BY <1>2, Joined
<1>6. Len(Chunk(data, n)) \in 0..MaxLength
  BY <1>2, <1>3, <1>4, MaxLengthAssumption
<1> QED
  BY <1>3, <1>4, <1>5, <1>6 DEF a, b

-----------------------------------------------------------------------------

LEMMA ReverseType ==
  ASSUME NEW T, NEW s \in Seq(T)
  PROVE  /\ Reverse(s) \in Seq(T) /\ Len(Reverse(s)) = Len(s)
         /\ \A i \in 1..Len(s) : Reverse(s)[i] = s[Len(s) - i + 1]
BY DEF Reverse

LEMMA ReverseTwice ==
  ASSUME NEW T, NEW s \in Seq(T)
  PROVE  Reverse(Reverse(s)) = s
<1> DEFINE r == Reverse(s)
<1>1. r \in Seq(T) /\ Len(r) = Len(s) /\ \A i \in 1..Len(s) : r[i] = s[Len(s) - i + 1]
  BY ReverseType
<1> HIDE DEF r
<1>2. /\ Reverse(r) \in Seq(T) /\ Len(Reverse(r)) = Len(s)
      /\ \A i \in 1..Len(s) : Reverse(r)[i] = r[Len(s) - i + 1]
  BY <1>1, ReverseType
<1>3. \A i \in 1..Len(s) : Reverse(r)[i] = s[i]
  BY <1>1, <1>2
<1> QED
  BY <1>2, <1>3 DEF r

LEMMA ReversePrepend ==
  ASSUME NEW T, NEW s \in Seq(T), NEW e \in T
  PROVE  Reverse(<<e>> \o s) = Append(Reverse(s), e)
<1> DEFINE p == <<e>> \o s
           a == Append(Reverse(s), e)
           n == Len(s) + 1
<1>1. p \in Seq(T) /\ Len(p) = n /\ \A i \in 1..n : p[i] = IF i = 1 THEN e ELSE s[i - 1]
  OBVIOUS
<1>2. /\ Reverse(s) \in Seq(T) /\ Len(Reverse(s)) = Len(s)
      /\ \A i \in 1..Len(s) : Reverse(s)[i] = s[Len(s) - i + 1]
  BY ReverseType
<1>3. a \in Seq(T) /\ Len(a) = n /\ \A i \in 1..n : a[i] = IF i = n THEN e ELSE s[n - i]
  BY <1>2
<1> HIDE DEF p, a
<1>4. /\ Reverse(p) \in Seq(T) /\ Len(Reverse(p)) = n
      /\ \A i \in 1..n : Reverse(p)[i] = p[n - i + 1]
  BY <1>1, ReverseType
<1>5. ASSUME NEW i \in 1..n PROVE Reverse(p)[i] = a[i]
  <2>1. n - i + 1 \in 1..n /\ (n - i + 1) - 1 = n - i /\ (n - i + 1 = 1 <=> i = n)
    OBVIOUS
  <2>2. Reverse(p)[i] = p[n - i + 1] /\ a[i] = IF i = n THEN e ELSE s[n - i]
    BY <1>3, <1>4
  <2>3. p[n - i + 1] = IF n - i + 1 = 1 THEN e ELSE s[(n - i + 1) - 1]
    BY <1>1, <2>1
  <2> QED
    BY <2>1, <2>2, <2>3
<1>6. Reverse(p) = a
  BY <1>3, <1>4, <1>5
<1> QED
  BY <1>6 DEF p, a

LEMMA PrependType ==
  ASSUME NEW list \in Seq(Tlv), NEW type \in Nat, NEW value \in Seq(Nat)
  PROVE  /\ Prepend(list, type, value) \in Seq(Tlv)
         /\ Reverse(Prepend(list, type, value))
              = Append(Reverse(list), [type |-> type, value |-> value])
<1>1. [type |-> type, value |-> value] \in Tlv
  BY DEF Tlv
<1> QED
  BY <1>1, ReversePrepend DEF Prepend

LEMMA AddType ==
  ASSUME NEW list \in Seq(Tlv), NEW type \in Nat, NEW data \in Seq(Nat)
  PROVE  Add(list, type, data) \in Seq(Tlv)
<1> DEFINE N == Chunks(data)
<1>1. PICK f : Adds(f, list, type, data)
  BY AddFold
<1> DEFINE S == {n \in 0..N : f[n] \in Seq(Tlv)}
<1>2. N \in Nat
  BY ChunksType
<1> HIDE DEF N
<1>3. 0 \in S
  BY <1>1, <1>2 DEF Adds
<1>4. ASSUME NEW n \in S, n < N PROVE n + 1 \in S
  <2>1. n + 1 \in 1..N /\ (n + 1) - 1 = n /\ f[n] \in Seq(Tlv)
    BY <1>2, <1>4
  <2>2. f[n + 1] = Prepend(f[n], type, Chunk(data, n + 1))
    BY <1>1, <2>1 DEF Adds, N
  <2>3. Chunk(data, n + 1) \in Seq(Nat)
    BY <2>1, ChunkType DEF N
  <2>4. f[n + 1] \in Seq(Tlv)
    BY <2>1, <2>2, <2>3, PrependType
  <2> QED
    BY <2>1, <2>4
<1>5. S = 0..N
  <2>1. S \in SUBSET (0..N)
    OBVIOUS
  <2> HIDE DEF S
  <2> QED
    BY <1>2, <1>3, <1>4, <2>1, InductionUpTo
<1>6. N \in S
  BY <1>2, <1>5
<1> QED
  BY <1>1, <1>6 DEF Adds, N

-----------------------------------------------------------------------------

\* The bytes of the first n elements are the first bytes.
LEMMA SerializePrefix ==
  ASSUME NEW list \in Seq(Tlv), NEW f, Serializes(f, list)
  PROVE  /\ \A n \in 0..Len(list) : f[n] \in Seq(Nat)
         /\ \A n \in 1..Len(list) :
              LET x == Reverse(list)[n]
              IN  x \in Tlv /\ f[n] = f[n - 1] \o <<x.type, Len(x.value)>> \o x.value
<1> DEFINE N == Len(list)
           s == Reverse(list)
           S == {n \in 0..N : f[n] \in Seq(Nat)}
<1>1. N \in Nat /\ s \in Seq(Tlv) /\ Len(s) = N
  BY ReverseType
<1>2. \A n \in 1..N : s[n] \in Tlv
  BY <1>1
<1>3. f[0] = <<>> /\ \A n \in 1..N : f[n] = f[n - 1] \o <<s[n].type, Len(s[n].value)>> \o s[n].value
  BY DEF Serializes
<1> HIDE DEF N, s
<1>4. 0 \in S
  <2>1. f[0] \in Seq(Nat) /\ 0 \in 0..N
    <3>1. <<>> \in Seq(Nat)
      OBVIOUS
    <3> QED
      BY <1>1, <1>3, <3>1
  <2> QED
    BY <2>1
<1>5. ASSUME NEW n \in S, n < N PROVE n + 1 \in S
  <2>1. n + 1 \in 1..N /\ (n + 1) - 1 = n /\ f[n] \in Seq(Nat)
    BY <1>1, <1>5
  <2> DEFINE x == s[n + 1]
  <2>2. x.type \in Nat /\ x.value \in Seq(Nat)
    BY <1>2, <2>1 DEF Tlv
  <2>3. f[n + 1] = f[n] \o <<x.type, Len(x.value)>> \o x.value
    BY <1>3, <2>1
  <2> HIDE DEF x
  <2>4. f[n + 1] \in Seq(Nat)
    BY <2>1, <2>2, <2>3
  <2> QED
    BY <2>1, <2>4
<1>6. S = 0..N
  <2>1. S \in SUBSET (0..N)
    OBVIOUS
  <2> HIDE DEF S
  <2> QED
    BY <1>1, <1>4, <1>5, <2>1, InductionUpTo
<1>7. \A n \in 0..N : f[n] \in Seq(Nat)
  BY <1>6
<1> QED
  BY <1>2, <1>3, <1>7 DEF N, s

LEMMA SerializeType ==
  ASSUME NEW list \in Seq(Tlv)
  PROVE  Serialize(list) \in Seq(Nat)
<1>1. PICK f : Serializes(f, list)
  BY SerializeFold
<1>2. f[Len(list)] \in Seq(Nat)
  <2>1. \A n \in 0..Len(list) : f[n] \in Seq(Nat)
    BY <1>1, SerializePrefix
  <2>2. Len(list) \in 0..Len(list)
    OBVIOUS
  <2> QED
    BY <2>1, <2>2
<1> QED
  BY <1>1, <1>2 DEF Serializes

-----------------------------------------------------------------------------

\* What deserialising finds from each byte on.
Parsed(g, data, i) ==
  IF i >= Len(data) THEN <<>>
  ELSE <<[type |-> data[i], value |-> SubSeq(data, i + 2, i + 1 + data[i + 1])]>>
         \o g[i + 2 + data[i + 1]]

LEMMA DeserializeFunction ==
  ASSUME NEW data \in Seq(Nat)
  PROVE  \E g : /\ \A i \in Nat \ {0} : g[i] = Parsed(g, data, i)
                /\ Deserialize(data) = g[1]
<1> DEFINE From(k) == {i \in Nat \ {0} : i + k >= Len(data)}
           Exists(k) == \E g : g = [i \in From(k) |-> Parsed(g, data, i)]
           from == CHOOSE g : g = [i \in Nat \ {0} |-> Parsed(g, data, i)]
<1>1. Deserialize(data) = from[1]
  BY DEF Deserialize, Parsed
<1>2. \A k \in Nat : Exists(k)
  <2> DEFINE S == {k \in Nat : Exists(k)}
  <2>1. Exists(0)
    <3> DEFINE g == [i \in From(0) |-> <<>>]
    <3>1. \A i \in From(0) : Parsed(g, data, i) = <<>>
      BY DEF Parsed
    <3>2. g = [i \in From(0) |-> Parsed(g, data, i)]
      BY <3>1
    <3> QED
      BY <3>2
  <2>2. ASSUME NEW k \in Nat, Exists(k) PROVE Exists(k + 1)
    <3>1. PICK g : g = [i \in From(k) |-> Parsed(g, data, i)]
      BY <2>2
    <3> DEFINE h == [i \in From(k + 1) |-> Parsed(g, data, i)]
    <3>2. \A i \in From(k) : h[i] = g[i]
      <4>1. From(k) \subseteq From(k + 1)
        OBVIOUS
      <4> HIDE DEF From
      <4> QED
        BY <3>1, <4>1
    <3>3. ASSUME NEW i \in From(k + 1) PROVE Parsed(h, data, i) = Parsed(g, data, i)
      <4>1. CASE i >= Len(data)
        BY <4>1 DEF Parsed
      <4>2. CASE ~(i >= Len(data))
        <5>1. i + 1 \in 1..Len(data) /\ data[i + 1] \in Nat
          BY <4>2
        <5>2. i + 2 + data[i + 1] \in From(k)
          BY <5>1
        <5>3. h[i + 2 + data[i + 1]] = g[i + 2 + data[i + 1]]
          BY <3>2, <5>2
        <5> HIDE DEF h
        <5> QED
          BY <4>2, <5>3 DEF Parsed
      <4> QED
        BY <4>1, <4>2
    <3>4. h = [i \in From(k + 1) |-> Parsed(h, data, i)]
      <4> HIDE DEF From
      <4> QED
        BY <3>3
    <3> QED
      BY <3>4
  <2> HIDE DEF Exists
  <2>3. S \in SUBSET Nat /\ 0 \in S /\ \A n \in S : n + 1 \in S
    BY <2>1, <2>2
  <2>4. S = Nat
    <3> HIDE DEF S
    <3> QED
      BY <2>3, Induction
  <2> QED
    BY <2>4
<1>3. From(Len(data)) = Nat \ {0}
  OBVIOUS
<1>4. from = [i \in Nat \ {0} |-> Parsed(from, data, i)]
  <2>1. \E g : g = [i \in Nat \ {0} |-> Parsed(g, data, i)]
    <3>1. Exists(Len(data))
      <4>1. Len(data) \in Nat
        OBVIOUS
      <4> HIDE DEF Exists
      <4> QED
        BY <1>2, <4>1
    <3> HIDE DEF From
    <3> QED
      BY <1>3, <3>1
  <2> QED
    BY <2>1
<1>5. \A i \in Nat \ {0} : from[i] = Parsed(from, data, i)
  <2> HIDE DEF from
  <2> QED
    BY <1>4
<1> HIDE DEF from
<1> QED
  BY <1>1, <1>5

\* Concatenation, and what is where in it.
LEMMA Concatenated ==
  ASSUME NEW u \in Seq(Nat), NEW w \in Seq(Nat)
  PROVE  /\ u \o w \in Seq(Nat) /\ Len(u \o w) = Len(u) + Len(w)
         /\ \A j \in 1..Len(u) : (u \o w)[j] = u[j]
         /\ \A j \in 1..Len(w) : (u \o w)[Len(u) + j] = w[j]
OBVIOUS

\* v is u and an element.
Lengthens(v, u, t, w) == v = u \o <<t, Len(w)>> \o w

HoldsElement(v, u, t, w) ==
  /\ Len(v) = Len(u) + 2 + Len(w)
  /\ \A j \in 1..Len(u) : v[j] = u[j]
  /\ v[Len(u) + 1] = t /\ v[Len(u) + 2] = Len(w)
  /\ \A j \in 1..Len(w) : v[Len(u) + 2 + j] = w[j]

LEMMA ElementBytes ==
  ASSUME NEW u \in Seq(Nat), NEW t \in Nat, NEW w \in Seq(Nat),
         NEW v, Lengthens(v, u, t, w)
  PROVE  HoldsElement(v, u, t, w)
<1> DEFINE head == u \o <<t, Len(w)>>
<1>1. v = head \o w
  BY DEF Lengthens
<1>2. /\ head \in Seq(Nat) /\ Len(head) = Len(u) + 2
      /\ \A j \in 1..Len(u) : head[j] = u[j]
      /\ head[Len(u) + 1] = t /\ head[Len(u) + 2] = Len(w)
  OBVIOUS
<1> HIDE DEF head
<1>3. /\ v \in Seq(Nat) /\ Len(v) = Len(head) + Len(w)
      /\ \A j \in 1..Len(head) : v[j] = head[j]
      /\ \A j \in 1..Len(w) : v[Len(head) + j] = w[j]
  <2>1. /\ head \o w \in Seq(Nat) /\ Len(head \o w) = Len(head) + Len(w)
        /\ \A j \in 1..Len(head) : (head \o w)[j] = head[j]
        /\ \A j \in 1..Len(w) : (head \o w)[Len(head) + j] = w[j]
    BY <1>2, Concatenated
  <2> QED
    BY <1>1, <2>1
<1>4. Len(u) \in Nat /\ Len(w) \in Nat
  OBVIOUS
<1>5. \A j \in 1..Len(u) : v[j] = u[j]
  BY <1>2, <1>3, <1>4
<1>6. v[Len(u) + 1] = t /\ v[Len(u) + 2] = Len(w)
  <2>1. Len(u) + 1 \in 1..Len(head) /\ Len(u) + 2 \in 1..Len(head)
    BY <1>2, <1>4
  <2> QED
    BY <1>2, <1>3, <2>1
<1>7. \A j \in 1..Len(w) : v[Len(u) + 2 + j] = w[j]
  BY <1>2, <1>3
<1>8. Len(v) = Len(u) + 2 + Len(w)
  BY <1>2, <1>3, <1>4
<1> QED
  BY <1>5, <1>6, <1>7, <1>8 DEF HoldsElement

LEMMA Slice ==
  ASSUME NEW data \in Seq(Nat), NEW w \in Seq(Nat), NEW i \in Nat, i + Len(w) <= Len(data),
         \A j \in 1..Len(w) : data[i + j] = w[j]
  PROVE  SubSeq(data, i + 1, i + Len(w)) = w
<1> DEFINE q == SubSeq(data, i + 1, i + Len(w))
<1>1. q \in Seq(Nat) /\ Len(q) = Len(w) /\ \A j \in 1..Len(w) : q[j] = data[i + j]
  OBVIOUS
<1> HIDE DEF q
<1>2. \A j \in 1..Len(w) : q[j] = w[j]
  BY <1>1
<1>3. q = w
  <2>1. q = [j \in 1..Len(q) |-> q[j]] /\ w = [j \in 1..Len(w) |-> w[j]]
    BY <1>1
  <2> QED
    BY <1>1, <1>2, <2>1
<1> QED
  BY <1>3 DEF q

LEMMA TailSlice ==
  ASSUME NEW T, NEW s \in Seq(T), NEW n \in 1..Len(s)
  PROVE  <<s[n]>> \o SubSeq(s, n + 1, Len(s)) = SubSeq(s, n, Len(s))
OBVIOUS

(***************************************************************************)
(* What was serialised is found again, in the order in which it was added. *)
(***************************************************************************)
THEOREM ElementsAreFound ==
  ASSUME NEW list \in Seq(Tlv)
  PROVE  Deserialize(Serialize(list)) = Reverse(list)
<1> DEFINE s == Reverse(list)
           N == Len(list)
           data == Serialize(list)
<1>1. PICK f : Serializes(f, list)
  BY SerializeFold
<1>2. PICK g : (\A i \in Nat \ {0} : g[i] = Parsed(g, data, i)) /\ Deserialize(data) = g[1]
  BY SerializeType, DeserializeFunction
<1>3. N \in Nat /\ s \in Seq(Tlv) /\ Len(s) = N /\ data \in Seq(Nat)
  BY ReverseType, SerializeType
<1>4. f[0] = <<>> /\ f[N] = data /\ \A n \in 0..N : f[n] \in Seq(Nat)
  BY <1>1, SerializePrefix DEF Serializes
<1>5. \A n \in 1..N : s[n] \in Tlv /\ f[n] = f[n - 1] \o <<s[n].type, Len(s[n].value)>> \o s[n].value
  BY <1>1, SerializePrefix
<1> HIDE DEF s, N, data
<1> DEFINE Good(n) == /\ Len(f[n]) <= Len(data)
                      /\ \A j \in 1..Len(f[n]) : data[j] = f[n][j]
                      /\ g[Len(f[n]) + 1] = SubSeq(s, n + 1, N)
           S == {k \in 0..N : Good(N - k)}
<1>6. 0 \in S
  <2>1. N - 0 = N /\ 0 \in 0..N
    BY <1>3
  <2>2. Parsed(g, data, Len(data) + 1) = <<>> /\ Len(data) + 1 \in Nat \ {0}
    BY <1>3 DEF Parsed
  <2>3. SubSeq(s, N + 1, N) = <<>>
    BY <1>3
  <2>4. Good(N)
    BY <1>2, <1>3, <1>4, <2>2, <2>3
  <2> QED
    BY <2>1, <2>4
<1>7. ASSUME NEW k \in S, k < N PROVE k + 1 \in S
  <2> DEFINE n == N - k
             u == f[n - 1]
             v == f[n]
             x == s[n]
  <2>1. n \in 1..N /\ n - 1 \in 0..N /\ n \in 0..N /\ Good(n) /\ N - (k + 1) = n - 1 /\ k + 1 \in 0..N
    BY <1>3, <1>7
  <2>2. u \in Seq(Nat) /\ v \in Seq(Nat) /\ x \in Tlv /\ v = u \o <<x.type, Len(x.value)>> \o x.value
    BY <1>4, <1>5, <2>1
  <2>3. Len(v) <= Len(data) /\ (\A j \in 1..Len(v) : data[j] = v[j]) /\ g[Len(v) + 1] = SubSeq(s, n + 1, N)
    BY <2>1
  <2> HIDE DEF n, u, v, x
  <2>4. PICK t \in Nat, w \in Seq(Nat) : x = [type |-> t, value |-> w]
    BY <2>2 DEF Tlv
  <2>5. Lengthens(v, u, t, w)
    BY <2>2, <2>4 DEF Lengthens
  <2>6. /\ Len(v) = Len(u) + 2 + Len(w)
        /\ \A j \in 1..Len(u) : v[j] = u[j]
        /\ v[Len(u) + 1] = t /\ v[Len(u) + 2] = Len(w)
        /\ \A j \in 1..Len(w) : v[Len(u) + 2 + j] = w[j]
    <3>1. u \in Seq(Nat) /\ Lengthens(v, u, t, w)
      BY <2>2, <2>5
    <3> HIDE DEF Good, S
    <3>2. HoldsElement(v, u, t, w)
      BY <3>1, ElementBytes
    <3> QED
      BY <3>2, Zenon DEF HoldsElement
  <2>7. PICK a \in Nat, m \in Nat, e \in Nat : a = Len(u) /\ m = Len(w) /\ e = Len(data)
    BY <1>3, <2>2
  <2>8. a + 2 + m <= e /\ \A j \in 1..(a + 2 + m) : data[j] = v[j]
    BY <2>3, <2>6, <2>7
  <2>9. a <= e /\ \A j \in 1..a : data[j] = u[j]
    <3>1. \A j \in 1..a : j \in 1..(a + 2 + m)
      OBVIOUS
    <3>2. \A j \in 1..a : v[j] = u[j]
      BY <2>6, <2>7
    <3>3. \A j \in 1..a : data[j] = u[j]
      BY <2>8, <3>1, <3>2
    <3> QED
      BY <2>8, <3>3
  <2>10. data[a + 1] = t /\ data[a + 2] = m
    <3>1. a + 1 \in 1..(a + 2 + m) /\ a + 2 \in 1..(a + 2 + m)
      OBVIOUS
    <3> QED
      BY <2>6, <2>7, <2>8, <3>1
  <2>11. SubSeq(data, (a + 2) + 1, (a + 2) + m) = w
    <3>1. ASSUME NEW j \in 1..m PROVE data[(a + 2) + j] = w[j]
      <4>1. (a + 2) + j \in 1..(a + 2 + m)
        OBVIOUS
      <4>2. v[a + 2 + j] = w[j]
        BY <2>6, <2>7
      <4> QED
        BY <2>8, <4>1, <4>2
    <3>2. (a + 2) + Len(w) <= Len(data) /\ a + 2 \in Nat
      BY <2>7, <2>8
    <3>3. SubSeq(data, (a + 2) + 1, (a + 2) + Len(w)) = w
      BY <1>3, <2>7, <3>1, <3>2, Slice
    <3> QED
      BY <2>7, <3>3
  <2>12. g[a + 1] = <<x>> \o g[Len(v) + 1]
    <3>1. a + 1 \in Nat \ {0} /\ ~(a + 1 >= Len(data))
      BY <2>7, <2>8
    <3>2. (a + 1) + 1 = a + 2 /\ (a + 1) + 2 = (a + 2) + 1 /\ (a + 1) + 1 + m = (a + 2) + m
          /\ (a + 1) + 2 + m = Len(v) + 1
      BY <2>6, <2>7
    <3>3. g[a + 1] = Parsed(g, data, a + 1)
      BY <1>2, <3>1
    <3>4. Parsed(g, data, a + 1)
            = <<[type |-> data[a + 1],
                 value |-> SubSeq(data, (a + 1) + 2, (a + 1) + 1 + data[(a + 1) + 1])]>>
                \o g[(a + 1) + 2 + data[(a + 1) + 1]]
      BY <3>1 DEF Parsed
    <3>5. data[(a + 1) + 1] = m
      BY <2>10, <3>2
    <3>6. SubSeq(data, (a + 1) + 2, (a + 1) + 1 + m) = w
      BY <2>11, <3>2
    <3> QED
      BY <2>4, <2>10, <3>2, <3>3, <3>4, <3>5, <3>6
  <2>13. g[Len(u) + 1] = SubSeq(s, n, N)
    <3>1. <<s[n]>> \o SubSeq(s, n + 1, N) = SubSeq(s, n, N)
      BY <1>3, <2>1, TailSlice
    <3> QED
      BY <2>3, <2>7, <2>12, <3>1 DEF x
  <2>14. Good(n - 1)
    <3>1. (n - 1) + 1 = n
      BY <2>1, <1>3
    <3> QED
      BY <2>7, <2>9, <2>13, <3>1 DEF u
  <2> HIDE DEF Good
  <2> QED
    BY <2>1, <2>14 DEF n
<1>8. S = 0..N
  <2>1. S \in SUBSET (0..N)
    OBVIOUS
  <2> HIDE DEF S
  <2> QED
    BY <1>3, <1>6, <1>7, <2>1, InductionUpTo
<1>9. Good(0)
  <2>1. N \in 0..N /\ N - N = 0
    BY <1>3
  <2>2. N \in S
    <3> HIDE DEF S
    <3> QED
      BY <1>8, <2>1
  <2> HIDE DEF Good
  <2> QED
    BY <2>1, <2>2
<1>10. g[1] = SubSeq(s, 1, N)
  <2>1. Len(f[0]) + 1 = 1 /\ 0 + 1 = 1
    BY <1>4
  <2> QED
    BY <1>9, <2>1
<1>11. SubSeq(s, 1, N) = s
  BY <1>3
<1> QED
  BY <1>2, <1>10, <1>11 DEF s, data

-----------------------------------------------------------------------------

\* What was found up to each element.
Gets(f, list, type) ==
  /\ f[0] = <<>>
  /\ \A n \in 1..Len(list) :
       f[n] = IF list[n].type = type THEN f[n - 1] \o list[n].value ELSE f[n - 1]
  /\ Get(list, type) = f[Len(list)]

LEMMA GetFold ==
  ASSUME NEW list \in Seq(Tlv), NEW type
  PROVE  \E f : Gets(f, list, type)
<1> DEFINE D == DOMAIN list
           Gathers(e, bytes) == IF e.type = type THEN bytes \o e.value ELSE bytes
           Body(g, t) ==
             IF t = {} THEN <<>>
             ELSE Gathers(list[Max(t)], g[t \ {Max(t)}])
           Fold(n) == \E g : g = [t \in SUBSET (1..n) |-> Body(g, t)]
           iter == CHOOSE g : g = [t \in SUBSET D |-> Body(g, t)]
<1>1. Get(list, type) = iter[D]
  BY DEF Get, FoldLeft, MapThenFoldSet
<1>2. \A n \in Nat : Fold(n)
  <2> DEFINE S == {n \in Nat : Fold(n)}
  <2>1. Fold(0)
    <3> DEFINE g == [t \in SUBSET (1..0) |-> <<>>]
    <3>1. g = [t \in SUBSET (1..0) |-> Body(g, t)]
      <4>1. \A t \in SUBSET (1..0) : t = {}
        OBVIOUS
      <4> QED
        BY <4>1
    <3> QED
      BY <3>1
  <2>2. ASSUME NEW n \in Nat, Fold(n) PROVE Fold(n + 1)
    <3>1. PICK g : g = [t \in SUBSET (1..n) |-> Body(g, t)]
      BY <2>2
    <3> DEFINE h == [t \in SUBSET (1..(n + 1)) |-> Body(g, t)]
    <3>2. \A t \in SUBSET (1..n) : t \in SUBSET (1..(n + 1)) /\ h[t] = g[t]
      <4>1. (1..n) \subseteq (1..(n + 1))
        OBVIOUS
      <4> HIDE DEF Body
      <4> QED
        BY <3>1, <4>1
    <3>3. ASSUME NEW t \in SUBSET (1..(n + 1)) PROVE Body(h, t) = Body(g, t)
      <4>1. t # {} => h[t \ {Max(t)}] = g[t \ {Max(t)}]
        BY <3>2, WithoutLargest
      <4> HIDE DEF h, Gathers
      <4> QED
        BY <4>1
    <3>4. h = [t \in SUBSET (1..(n + 1)) |-> Body(h, t)]
      <4> HIDE DEF Body
      <4> QED
        BY <3>3
    <3> QED
      BY <3>4
  <2> HIDE DEF Fold
  <2>3. S \in SUBSET Nat /\ 0 \in S /\ \A n \in S : n + 1 \in S
    BY <2>1, <2>2
  <2>4. S = Nat
    <3> HIDE DEF S
    <3> QED
      BY <2>3, Induction
  <2> QED
    BY <2>4
<1>3. D = 1..Len(list) /\ Len(list) \in Nat
  OBVIOUS
<1>4. iter = [t \in SUBSET D |-> Body(iter, t)]
  <2>1. \E g : g = [t \in SUBSET D |-> Body(g, t)]
    BY <1>2, <1>3
  <2> HIDE DEF D
  <2> QED
    BY <2>1
<1> DEFINE f == [n \in 0..Len(list) |-> iter[1..n]]
<1>5. f[0] = <<>>
  <2>1. {} \in SUBSET D /\ 1..0 = {}
    OBVIOUS
  <2>2. iter[{}] = <<>>
    BY <1>4, <2>1
  <2> HIDE DEF iter
  <2> QED
    BY <1>3, <2>1, <2>2
<1>6. ASSUME NEW n \in 1..Len(list)
      PROVE  f[n] = Gathers(list[n], f[n - 1])
  <2>1. n - 1 \in Nat /\ n = (n - 1) + 1
    BY <1>3
  <2>3. 1..n \in SUBSET D /\ 1..n # {}
    <3>1. (1..n) \subseteq (1..Len(list)) /\ 1 \in 1..n
      BY <1>3
    <3> QED
      BY <1>3, <3>1
  <2>2. Max(1..n) = n /\ (1..n) \ {n} = 1..(n - 1)
    BY <2>1, LastIndex
  <2>4. iter[1..n] = Gathers(list[n], iter[1..(n - 1)])
    <3> HIDE DEF D, Gathers, iter
    <3> QED
      BY <1>4, <2>2, <2>3
  <2>5. n \in 0..Len(list) /\ n - 1 \in 0..Len(list)
    BY <1>3
  <2> HIDE DEF D, Gathers, iter
  <2> QED
    BY <2>4, <2>5
<1>7. Get(list, type) = f[Len(list)]
  <2> HIDE DEF iter
  <2> QED
    BY <1>1, <1>3
<1> HIDE DEF f
<1>8. Gets(f, list, type)
  BY <1>5, <1>6, <1>7 DEF Gets
<1> QED
  BY <1>8

LEMMA GetAppend ==
  ASSUME NEW list \in Seq(Tlv), NEW e \in Tlv, NEW type
  PROVE  Get(Append(list, e), type)
           = IF e.type = type THEN Get(list, type) \o e.value ELSE Get(list, type)
<1> DEFINE longer == Append(list, e)
           N == Len(list)
<1>1. /\ longer \in Seq(Tlv) /\ Len(longer) = N + 1 /\ longer[N + 1] = e
      /\ \A n \in 1..N : longer[n] = list[n]
      /\ N \in Nat
  OBVIOUS
<1> HIDE DEF longer, N
<1>2. PICK f : Gets(f, list, type)
  BY GetFold
<1>3. PICK h : Gets(h, longer, type)
  BY <1>1, GetFold
<1>4. /\ f[0] = <<>> /\ Get(list, type) = f[N]
      /\ \A n \in 1..N : f[n] = IF list[n].type = type THEN f[n - 1] \o list[n].value ELSE f[n - 1]
  BY <1>2 DEF Gets, N
<1>5. /\ h[0] = <<>> /\ Get(longer, type) = h[N + 1]
      /\ \A n \in 1..(N + 1) :
           h[n] = IF longer[n].type = type THEN h[n - 1] \o longer[n].value ELSE h[n - 1]
  BY <1>1, <1>3 DEF Gets
<1> DEFINE S == {n \in 0..N : h[n] = f[n]}
<1>6. 0 \in S
  BY <1>1, <1>4, <1>5
<1>7. ASSUME NEW n \in S, n < N PROVE n + 1 \in S
  <2>1. n + 1 \in 1..N /\ n + 1 \in 1..(N + 1) /\ (n + 1) - 1 = n /\ h[n] = f[n] /\ n + 1 \in 0..N
    BY <1>1, <1>7
  <2>2. longer[n + 1] = list[n + 1]
    BY <1>1, <2>1
  <2>3. f[n + 1] = IF list[n + 1].type = type THEN f[n] \o list[n + 1].value ELSE f[n]
    BY <1>4, <2>1
  <2>4. h[n + 1] = IF longer[n + 1].type = type THEN h[n] \o longer[n + 1].value ELSE h[n]
    BY <1>5, <2>1
  <2>5. h[n + 1] = f[n + 1]
    BY <2>1, <2>2, <2>3, <2>4
  <2> QED
    BY <2>1, <2>5
<1>8. S = 0..N
  <2>1. S \in SUBSET (0..N)
    OBVIOUS
  <2> HIDE DEF S
  <2> QED
    BY <1>1, <1>6, <1>7, <2>1, InductionUpTo
<1>9. h[N] = f[N]
  <2>1. N \in 0..N
    BY <1>1
  <2> QED
    BY <1>8, <2>1
<1>10. h[N + 1] = IF e.type = type THEN h[N] \o e.value ELSE h[N]
  <2>1. N + 1 \in 1..(N + 1) /\ (N + 1) - 1 = N
    BY <1>1
  <2> QED
    BY <1>1, <1>5, <2>1
<1> QED
  BY <1>4, <1>5, <1>9, <1>10 DEF longer

LEMMA GetType ==
  ASSUME NEW list \in Seq(Tlv), NEW type
  PROVE  Get(list, type) \in Seq(Nat)
<1> DEFINE N == Len(list)
<1>1. PICK f : Gets(f, list, type)
  BY GetFold
<1>2. /\ f[0] = <<>> /\ Get(list, type) = f[N]
      /\ \A n \in 1..N : f[n] = IF list[n].type = type THEN f[n - 1] \o list[n].value ELSE f[n - 1]
  BY <1>1 DEF Gets
<1>3. N \in Nat /\ \A n \in 1..N : list[n].value \in Seq(Nat)
  <2>1. N \in Nat /\ \A n \in 1..N : list[n] \in Tlv
    OBVIOUS
  <2>2. \A x \in Tlv : x.value \in Seq(Nat)
    BY DEF Tlv
  <2> QED
    BY <2>1, <2>2
<1> HIDE DEF N
<1> DEFINE S == {n \in 0..N : f[n] \in Seq(Nat)}
<1>4. 0 \in S
  <2>1. <<>> \in Seq(Nat) /\ 0 \in 0..N
    BY <1>3
  <2> QED
    BY <1>2, <2>1
<1>5. ASSUME NEW n \in S, n < N PROVE n + 1 \in S
  <2>1. n + 1 \in 1..N /\ (n + 1) - 1 = n /\ f[n] \in Seq(Nat) /\ n + 1 \in 0..N
    BY <1>3, <1>5
  <2>2. f[n] \o list[n + 1].value \in Seq(Nat)
    BY <1>3, <2>1
  <2>3. f[n + 1] \in {f[n] \o list[n + 1].value, f[n]}
    BY <1>2, <2>1
  <2>4. f[n + 1] \in Seq(Nat)
    BY <2>1, <2>2, <2>3
  <2> QED
    BY <2>1, <2>4
<1>6. S = 0..N
  <2>1. S \in SUBSET (0..N)
    OBVIOUS
  <2> HIDE DEF S
  <2> QED
    BY <1>3, <1>4, <1>5, <2>1, InductionUpTo
<1>7. N \in S
  BY <1>3, <1>6
<1> QED
  BY <1>2, <1>7

-----------------------------------------------------------------------------

LEMMA Associative ==
  \A u, v, w \in Seq(Nat) : (u \o v) \o w = u \o (v \o w)
BY SMTT(60), ConcatAssociative

\* Adding puts all of a value behind what is found already, and nothing else.
LEMMA AddIsFound ==
  ASSUME NEW list \in Seq(Tlv), NEW type \in Nat, NEW data \in Seq(Nat), NEW other
  PROVE  Get(Reverse(Add(list, type, data)), other)
           = IF other = type THEN Get(Reverse(list), other) \o data ELSE Get(Reverse(list), other)
<1> DEFINE N == Chunks(data)
           before == Get(Reverse(list), other)
           Found(n) == IF other = type THEN before \o SubSeq(data, 1, Reach(data, n)) ELSE before
<1>1. PICK f : Adds(f, list, type, data)
  BY AddFold
<1>2. N \in Nat /\ Reverse(list) \in Seq(Tlv) /\ before \in Seq(Nat)
  BY ChunksType, ReverseType, GetType
<1> DEFINE S == {n \in 0..N : f[n] \in Seq(Tlv) /\ Get(Reverse(f[n]), other) = Found(n)}
<1>3. 0 \in S
  <2>1. SubSeq(data, 1, Reach(data, 0)) = <<>>
    <3>1. Reach(data, 0) = 0
      BY MaxLengthAssumption DEF Reach
    <3> QED
      BY <3>1
  <2>2. before \o <<>> = before
    <3> HIDE DEF before
    <3> QED
      BY <1>2
  <2>3. f[0] = list /\ 0 \in 0..N
    BY <1>1, <1>2 DEF Adds
  <2> QED
    BY <2>1, <2>2, <2>3
<1>4. ASSUME NEW n \in S, n < N PROVE n + 1 \in S
  <2>1. /\ n + 1 \in 1..N /\ (n + 1) - 1 = n /\ n + 1 \in 0..N
        /\ f[n] \in Seq(Tlv) /\ Get(Reverse(f[n]), other) = Found(n)
    <3>1. n \in 0..N /\ f[n] \in Seq(Tlv) /\ Get(Reverse(f[n]), other) = Found(n)
      BY <1>4
    <3> QED
      BY <1>2, <1>4, <3>1
  <2> DEFINE c == Chunk(data, n + 1)
             e == [type |-> type, value |-> c]
             a == SubSeq(data, 1, Reach(data, n))
  <2>2. c \in Seq(Nat) /\ a \o c = SubSeq(data, 1, Reach(data, n + 1))
    BY <2>1, ChunkType
  <2>3. a \in Seq(Nat)
    <3>1. n \in Nat
      BY <2>1, <1>2
    <3>2. Reach(data, n) \in 0..Len(data)
      BY <3>1, ReachGrows
    <3> QED
      BY <3>2
  <2>4. f[n + 1] = Prepend(f[n], type, c)
    BY <1>1, <2>1 DEF Adds
  <2>5. f[n + 1] \in Seq(Tlv) /\ Reverse(f[n + 1]) = Append(Reverse(f[n]), e)
    <3> HIDE DEF c
    <3>1. /\ Prepend(f[n], type, c) \in Seq(Tlv)
          /\ Reverse(Prepend(f[n], type, c)) = Append(Reverse(f[n]), e)
      BY <2>1, <2>2, PrependType
    <3> HIDE DEF e
    <3> QED
      BY <2>4, <3>1
  <2>6. e \in Tlv /\ e.type = type /\ e.value = c
    <3> HIDE DEF c
    <3> QED
      BY <2>2 DEF Tlv
  <2>7. Reverse(f[n]) \in Seq(Tlv)
    BY <2>1, ReverseType
  <2>8. Get(Append(Reverse(f[n]), e), other)
          = IF type = other THEN Get(Reverse(f[n]), other) \o c ELSE Get(Reverse(f[n]), other)
    <3> HIDE DEF e, c
    <3> QED
      BY <2>6, <2>7, GetAppend
  <2>9. Found(n + 1) = IF type = other THEN Found(n) \o c ELSE Found(n)
    <3>1. CASE other = type
      <4>1. Found(n) = before \o a /\ Found(n + 1) = before \o (a \o c)
        BY <2>2, <3>1
      <4>2. (before \o a) \o c = before \o (a \o c)
        <5>1. before \in Seq(Nat) /\ a \in Seq(Nat) /\ c \in Seq(Nat)
          BY <1>2, <2>2, <2>3
        <5> HIDE DEF before, a, c, e, S, Found, N
        <5> QED
          BY <5>1, Associative, ZenonT(40)
      <4> QED
        BY <3>1, <4>1, <4>2
    <3>2. CASE other # type
      BY <3>2
    <3> QED
      BY <3>1, <3>2
  <2> HIDE DEF Found, e, c, a
  <2>10. Get(Reverse(f[n + 1]), other) = Found(n + 1)
    BY <2>1, <2>5, <2>8, <2>9
  <2> QED
    BY <2>1, <2>5, <2>10
<1>5. S = 0..N
  <2>1. S \in SUBSET (0..N)
    OBVIOUS
  <2> HIDE DEF S, N
  <2> QED
    BY <1>2, <1>3, <1>4, <2>1, InductionUpTo
<1>6. Get(Reverse(f[N]), other) = Found(N)
  <2>1. N \in S
    BY <1>2, <1>5
  <2> HIDE DEF Found, N
  <2> QED
    BY <2>1
<1>7. SubSeq(data, 1, Reach(data, N)) = data
  BY LastChunk
<1>8. Add(list, type, data) = f[N]
  BY <1>1 DEF Adds
<1>9. Found(N) = IF other = type THEN before \o data ELSE before
  <2> HIDE DEF before, N
  <2> QED
    BY <1>7
<1> HIDE DEF Found, N
<1> QED
  BY <1>6, <1>8, <1>9

(***************************************************************************)
(* A value of any length that a message is made with is found in the       *)
(* message, in one piece, and no other value of the message is changed:    *)
(* hk_tlv_add_buffer, hk_tlv_serialize, hk_tlv_deserialize and             *)
(* hk_tlv_get_mem_by_type fit, on lists that are turned round on the way.  *)
(***************************************************************************)
THEOREM ValuesAreFound ==
  ASSUME NEW list \in Seq(Tlv), NEW type \in Nat, NEW data \in Seq(Nat), NEW other
  PROVE  /\ Get(Deserialize(Serialize(<<>>)), other) = <<>>
         /\ Get(Deserialize(Serialize(Add(list, type, data))), other)
              = IF other = type THEN Get(Deserialize(Serialize(list)), other) \o data
                ELSE Get(Deserialize(Serialize(list)), other)
<1>1. Get(Deserialize(Serialize(<<>>)), other) = <<>>
  <2>1. <<>> \in Seq(Tlv) /\ Len(<<>>) = 0
    OBVIOUS
  <2>2. Deserialize(Serialize(<<>>)) = Reverse(<<>>) /\ Reverse(<<>>) \in Seq(Tlv) /\ Len(Reverse(<<>>)) = 0
    BY <2>1, ElementsAreFound, ReverseType
  <2>3. PICK f : Gets(f, Reverse(<<>>), other)
    BY <2>2, GetFold
  <2> QED
    BY <2>2, <2>3 DEF Gets
<1>2. Add(list, type, data) \in Seq(Tlv)
  BY AddType
<1>3. /\ Deserialize(Serialize(Add(list, type, data))) = Reverse(Add(list, type, data))
      /\ Deserialize(Serialize(list)) = Reverse(list)
  BY <1>2, ElementsAreFound
<1> QED
  BY <1>1, <1>3, AddIsFound

-----------------------------------------------------------------------------
(* The session.                                                            *)

Requests == {Request(kind, n, srp) : kind \in Kinds, n \in Nat, srp \in SrpIds \cup {0}}
UpFrame == [number : 0..Frames, size : Nat \ {0}]
DownFrame ==
  [secure : BOOLEAN, number : 0..(Frames - 1), what : {"part", "end", "event"}, content : Seq(Nat)]
KeyFields == [pub : SrpIds \cup {0}, srp : SrpIds \cup {0}, computed : BOOLEAN]
Reading == [pc : {"idle", "header", "body", "handle"}, got : Nat, late : BOOLEAN]
Controller ==
  [request : Requests \cup {NoRequest}, step : {0, 2, 4}, srp : SrpIds \cup {0},
   secure : BOOLEAN, sent : 0..Frames, received : 0..Frames]

TypeInv ==
  /\ acc \in Context
  /\ keys \in KeyFields
  /\ req \in Reading
  /\ up \in Seq(UpFrame) /\ Len(up) <= 2
  /\ down \in Seq(DownFrame)
  /\ ctl \in Controller
  /\ work \in 0..MaxEvents
  /\ subscribed \in BOOLEAN /\ paired \in BOOLEAN /\ skipped \in BOOLEAN
  /\ faults \in 0..MaxFaults

(***************************************************************************)
(* The response is sent, or none is due.                                   *)
(***************************************************************************)
Answer == \E i \in DOMAIN down : down[i].what = "end"
Pending == ctl.request # NoRequest /\ ~Answer

(***************************************************************************)
(* Until its handler ran, each byte of a request was taken by httpd, or is *)
(* in the buffer, or on its way; and from then on there is none.  Frames   *)
(* are used from the response of pair verify on, and by the controller     *)
(* after it read that.                                                     *)
(***************************************************************************)
RequestInv ==
  /\ ~acc.open => acc = NewContext(FALSE) /\ ctl = NewController /\ down = <<>>
  /\ IF Pending
     THEN req.got + Data(up) + acc.buffer = Size(ctl.request)
     ELSE up = <<>> /\ req = Idle /\ acc.buffer = 0
  /\ req.pc = "idle" => req = Idle /\ acc.buffer = 0
  /\ ~acc.secure => acc.buffer = 0 /\ Len(up) <= 1
  /\ ctl.secure => acc.secure
  /\ ctl.request.kind = "verify" /\ Answer => acc.secure
  /\ acc.secure /\ ~ctl.secure => ctl.request.kind = "verify" /\ down # <<>> /\ ~down[1].secure
  /\ ctl.request # NoRequest => (ctl.secure <=> ctl.request.kind \in {"put", "get"})

(***************************************************************************)
(* There is one response at most, with events before and behind it; a      *)
(* plain one is alone in front of the first frames.                        *)
(***************************************************************************)
DownInv ==
  /\ Answer => ctl.request # NoRequest
  /\ \A i \in DOMAIN down :
       /\ down[i].what = "part" => \E j \in DOMAIN down : j > i /\ down[j].what = "end"
       /\ down[i].what = "end" => \A j \in DOMAIN down : j > i => down[j].what = "event"
       /\ ~down[i].secure => i = 1 /\ ~ctl.secure /\ down[i].what = "end"
       /\ down[i].secure => acc.secure

\* The number of frames received; the plain response counts as the frame before the first.
Base == IF ctl.secure THEN ctl.received ELSE -1

NumberInv ==
  /\ ~ctl.secure => ctl.received = 0 /\ ctl.sent = 0 /\ acc.received = 0
  /\ ~acc.secure /\ ~skipped => acc.sent = 0
  /\ acc.secure /\ ~skipped =>
       /\ acc.sent = (Base + Len(down)) % Frames
       /\ \A i \in DOMAIN down : down[i].secure => down[i].number = (Base + i - 1) % Frames

UpInv ==
  ctl.secure =>
    /\ \A i \in DOMAIN up : up[i].number \in {(acc.received + i - 1) % Frames, Frames}
    /\ ctl.sent < Frames => acc.received + Len(up) = ctl.sent

(***************************************************************************)
(* What arrived in time and fits is in the buffer after the first read.    *)
(***************************************************************************)
FitsRead == acc.secure => Size(ctl.request) + 2 * Overhead <= RecvSize

WholeInv ==
  Pending /\ ~req.late /\ FitsRead =>
    /\ acc.secure /\ req.pc # "idle" => up = <<>>
    /\ req.pc = "handle" => up = <<>> /\ acc.buffer = 0

(***************************************************************************)
(* The accessory's SRP key is the one that the controller read of, but     *)
(* while M2 is read.                                                       *)
(***************************************************************************)
M2(id, n) ==
  Serialize(Add(Add(Add(<<>>, State, <<2>>), PublicKey, Public(id, n)), Salt, <<id>>))

Live == keys.srp # 0 /\ keys.srp = ctl.srp

KeysInv ==
  /\ ctl.request.kind = "M3" => ctl.step = 2
  /\ ctl.request.kind = "M5" => ctl.step = 4
  /\ ctl.request.kind = "M1" /\ Answer =>
       \E id \in SrpIds, n \in KeySizes :
         down[1].content = M2(id, n) /\ keys.srp = id /\ keys.pub = id
  /\ ctl.request.kind = "M3" /\ Answer => Live /\ keys.computed
  /\ ~(ctl.request.kind \in {"M1", "M3", "M5"} /\ Answer) =>
       /\ ctl.step = 2 => Live /\ keys.pub = keys.srp
       /\ ctl.step = 4 => Live /\ keys.computed

Inv ==
  /\ TypeInv
  /\ RequestInv /\ DownInv /\ NumberInv /\ UpInv /\ WholeInv /\ KeysInv

-----------------------------------------------------------------------------
(* Sizes and frames.                                                       *)

LEMMA Constants ==
  /\ RecvSize \in Nat \ {0} /\ Overhead \in Nat \ {0} /\ HeaderSize \in Nat \ {0}
  /\ Block \in Nat \ {0} /\ Frames \in Nat \ {0} /\ RecvSize - Overhead \in Nat \ {0}
  /\ Contents \subseteq Nat /\ KeySizes \subseteq Nat \ {0} /\ SrpIds \subseteq Nat \ {0}
  /\ MaxEvents \in Nat /\ MaxFaults \in Nat
BY SessionAssumption

\* The size of no frame, of one and of two, as there are no more.
LEMMA DataOf ==
  ASSUME NEW s \in Seq(UpFrame), Len(s) <= 2
  PROVE  /\ Data(s) \in Nat
         /\ Len(s) = 0 => Data(s) = 0
         /\ Len(s) = 1 => Data(s) = s[1].size
         /\ Len(s) = 2 => Data(s) = s[1].size + s[2].size
<1> DEFINE n == Len(s)
           Sum(f) == f = [i \in 0..n |-> IF i = 0 THEN 0 ELSE f[i - 1] + s[i].size]
           first == CHOOSE f : Sum(f)
           g == [i \in 0..n |-> CASE i = 0 -> 0 [] i = 1 -> s[1].size [] OTHER -> s[1].size + s[2].size]
<1>1. Data(s) = first[n]
  BY DEF Data
<1>2. n \in {0, 1, 2} /\ \A i \in 1..n : s[i].size \in Nat
  <2>1. n \in Nat /\ n <= 2 /\ \A i \in 1..n : s[i] \in UpFrame
    OBVIOUS
  <2>2. \A x \in UpFrame : x.size \in Nat
    BY DEF UpFrame
  <2>3. \A i \in 1..n : s[i].size \in Nat
    BY <2>1, <2>2
  <2> HIDE DEF n
  <2> QED
    BY <2>1, <2>3
<1> HIDE DEF n
<1>3. Sum(g)
  <2>1. \A i \in 0..n : g[i] = IF i = 0 THEN 0 ELSE g[i - 1] + s[i].size
    BY <1>2
  <2>2. g = [i \in 0..n |-> g[i]]
    OBVIOUS
  <2> HIDE DEF g
  <2> QED
    BY <2>1, <2>2
<1>4. Sum(first)
  <2> HIDE DEF Sum
  <2> QED
    BY <1>3
<1> HIDE DEF first
<1>5. \A i \in 0..n : first[i] = IF i = 0 THEN 0 ELSE first[i - 1] + s[i].size
  BY <1>4
<1>6. /\ first[0] = 0
      /\ n >= 1 => first[1] = s[1].size
      /\ n = 2 => first[2] = s[1].size + s[2].size
  BY <1>2, <1>5
<1> QED
  BY <1>1, <1>2, <1>6 DEF n
LEMMA AtMostTwo ==
  ASSUME NEW n \in Nat, n <= 2
  PROVE  n \in {0, 1, 2}
OBVIOUS

LEMMA DataIsPositive ==
  ASSUME NEW s \in Seq(UpFrame), Len(s) <= 2
  PROVE  /\ Data(s) \in Nat /\ Len(s) \in {0, 1, 2}
         /\ Data(s) = 0 <=> s = <<>>
         /\ Data(s) = 0 <=> Len(s) = 0
<1>1. Len(s) \in {0, 1, 2} /\ (Len(s) = 0 <=> s = <<>>)
  <2>1. Len(s) \in Nat /\ (Len(s) = 0 <=> s = <<>>)
    OBVIOUS
  <2> QED
    BY <2>1, AtMostTwo
<1>2. \A i \in 1..Len(s) : s[i].size \in Nat \ {0}
  <2>1. \A i \in 1..Len(s) : s[i] \in UpFrame
    OBVIOUS
  <2>2. \A x \in UpFrame : x.size \in Nat \ {0}
    BY DEF UpFrame
  <2> QED
    BY <2>1, <2>2
<1> DEFINE n == Len(s)
           d == Data(s)
<1>3. /\ d \in Nat
      /\ n = 0 => d = 0
      /\ n = 1 => d = s[1].size
      /\ n = 2 => d = s[1].size + s[2].size
  BY DataOf
<1>4. n \in {0, 1, 2} /\ \A i \in 1..n : s[i].size \in Nat \ {0}
  BY <1>1, <1>2
<1>5. d = 0 <=> n = 0
  <2> HIDE DEF n, d
  <2> QED
    BY <1>3, <1>4
<1> QED
  BY <1>1, <1>3, <1>5

LEMMA NoData ==
  ASSUME NEW s, s = <<>>
  PROVE  s \in Seq(UpFrame) /\ Len(s) = 0 /\ Data(s) = 0
<1>1. s \in Seq(UpFrame) /\ Len(s) = 0 /\ Len(s) <= 2
  OBVIOUS
<1> QED
  BY <1>1, DataOf

LEMMA DataOfOne ==
  ASSUME NEW s \in Seq(UpFrame), Len(s) = 1
  PROVE  Data(s) = s[1].size /\ s[1] \in UpFrame
<1>1. Len(s) <= 2 /\ s[1] \in UpFrame
  OBVIOUS
<1> QED
  BY <1>1, DataOf

\* What is in front and what is behind is all there is.
LEMMA DataIsSplit ==
  ASSUME NEW s \in Seq(UpFrame), Len(s) <= 2, NEW k \in 1..Len(s)
  PROVE  /\ SubSeq(s, 1, k) \in Seq(UpFrame) /\ Len(SubSeq(s, 1, k)) = k
         /\ SubSeq(s, k + 1, Len(s)) \in Seq(UpFrame) /\ Len(SubSeq(s, k + 1, Len(s))) = Len(s) - k
         /\ Data(s) = Data(SubSeq(s, 1, k)) + Data(SubSeq(s, k + 1, Len(s)))
<1> DEFINE n == Len(s)
           a == SubSeq(s, 1, k)
           b == SubSeq(s, k + 1, Len(s))
<1>1. n \in {1, 2} /\ k \in 1..n
  <2>1. n \in Nat /\ n <= 2 /\ k \in 1..n
    OBVIOUS
  <2> HIDE DEF n
  <2>2. n \in {0, 1, 2} /\ n # 0
    BY <2>1, AtMostTwo
  <2> QED
    BY <2>1, <2>2
<1>2. a \in Seq(UpFrame) /\ Len(a) = k /\ \A i \in 1..k : a[i] = s[i]
  OBVIOUS
<1>3. b \in Seq(UpFrame) /\ Len(b) = n - k /\ \A i \in 1..(n - k) : b[i] = s[k + i]
  OBVIOUS
<1>4. Data(a) \in Nat /\ (k = 1 => Data(a) = a[1].size) /\ (k = 2 => Data(a) = a[1].size + a[2].size)
  <2>1. Len(a) <= 2
    BY <1>1, <1>2
  <2> HIDE DEF a, n
  <2> QED
    BY <1>2, <2>1, DataOf
<1>5. Data(b) \in Nat /\ (n - k = 0 => Data(b) = 0) /\ (n - k = 1 => Data(b) = b[1].size)
  <2>1. Len(b) <= 2
    BY <1>1, <1>3
  <2> HIDE DEF b, n
  <2> QED
    BY <1>3, <2>1, DataOf
<1>6. (n = 1 => Data(s) = s[1].size) /\ (n = 2 => Data(s) = s[1].size + s[2].size)
  BY DataOf
<1>7. \A i \in 1..n : s[i].size \in Nat
  <2>1. \A i \in 1..n : s[i] \in UpFrame
    OBVIOUS
  <2>2. \A x \in UpFrame : x.size \in Nat
    BY DEF UpFrame
  <2> QED
    BY <2>1, <2>2
<1> HIDE DEF a, b, n
<1>8. Data(s) = Data(a) + Data(b)
  <2>1. CASE n = 1 /\ k = 1
    BY <1>2, <1>4, <1>5, <1>6, <1>7, <2>1
  <2>2. CASE n = 2 /\ k = 1
    BY <1>2, <1>3, <1>4, <1>5, <1>6, <1>7, <2>2
  <2>3. CASE n = 2 /\ k = 2
    BY <1>2, <1>4, <1>5, <1>6, <1>7, <2>3
  <2> QED
    BY <1>1, <2>1, <2>2, <2>3
<1> QED
  BY <1>2, <1>3, <1>8 DEF a, b, n

LEMMA PublicType ==
  ASSUME NEW id \in Nat, NEW n \in Nat
  PROVE  Public(id, n) \in Seq(Nat) /\ Len(Public(id, n)) = n
<1>1. \A i \in 1..n : (10 * id) + i \in Nat
  OBVIOUS
<1> QED
  BY <1>1 DEF Public

LEMMA EmptyType == <<>> \in Seq(Tlv) /\ <<>> \in Seq(Nat)
OBVIOUS

LEMMA ByteType ==
  ASSUME NEW b \in Nat
  PROVE  <<b>> \in Seq(Nat)
OBVIOUS

\* The messages of pair setup, as lists.
List1 == Add(<<>>, State, <<1>>)
List3(n, srp) == Add(Add(Add(<<>>, State, <<3>>), PublicKey, Public(0, n)), Proof, <<srp>>)
List5(n, srp) == Add(Add(<<>>, State, <<5>>), EncryptedData, Public(srp, n))

LEMMA ListType ==
  ASSUME NEW n \in Nat, NEW srp \in Nat
  PROVE  List1 \in Seq(Tlv) /\ List3(n, srp) \in Seq(Tlv) /\ List5(n, srp) \in Seq(Tlv)
<1>1. /\ State \in Nat /\ PublicKey \in Nat /\ Proof \in Nat /\ EncryptedData \in Nat
      /\ <<1>> \in Seq(Nat) /\ <<3>> \in Seq(Nat) /\ <<5>> \in Seq(Nat)
  BY ByteType DEF State, PublicKey, Proof, EncryptedData
<1>2. Public(0, n) \in Seq(Nat) /\ Public(srp, n) \in Seq(Nat) /\ <<srp>> \in Seq(Nat)
  BY PublicType, ByteType
<1>3. \A v \in Seq(Nat) : Add(<<>>, State, v) \in Seq(Tlv)
  BY <1>1, EmptyType, AddType
<1>4. \A l \in Seq(Tlv) : \A t \in Nat : \A v \in Seq(Nat) : Add(l, t, v) \in Seq(Tlv)
  BY AddType
<1> QED
  BY <1>1, <1>2, <1>3, <1>4 DEF List1, List3, List5

LEMMA RequestType ==
  ASSUME NEW kind \in Kinds, NEW n \in Nat, NEW srp \in SrpIds \cup {0}
  PROVE  LET r == Request(kind, n, srp)
         IN  /\ r \in Requests /\ r # NoRequest
             /\ r.kind = kind /\ r.n = n /\ r.srp = srp
             /\ r.content \in Seq(Nat) /\ Size(r) \in Nat \ {0} /\ Size(r) >= HeaderSize
<1> DEFINE r == Request(kind, n, srp)
<1>1. srp \in Nat
  BY Constants
<1>2. r.kind = kind /\ r.n = n /\ r.srp = srp
  BY DEF Request
<1>3. r.content \in Seq(Nat)
  <2>1. r.content = CASE kind = "M1" -> Serialize(List1)
                      [] kind = "M3" -> Serialize(List3(n, srp))
                      [] kind = "M5" -> Serialize(List5(n, srp))
                      [] OTHER -> [i \in 1..n |-> i]
    BY DEF Request, List1, List3, List5
  <2>2. [i \in 1..n |-> i] \in Seq(Nat)
    OBVIOUS
  <2>3. /\ Serialize(List1) \in Seq(Nat) /\ Serialize(List3(n, srp)) \in Seq(Nat)
        /\ Serialize(List5(n, srp)) \in Seq(Nat)
    BY <1>1, ListType, SerializeType
  <2> HIDE DEF r
  <2> QED
    BY <2>1, <2>2, <2>3
<1>4. r \in Requests
  BY DEF Requests
<1>5. r # NoRequest
  <2>1. NoRequest.kind = "none" /\ kind # "none"
    BY DEF NoRequest, Kinds
  <2> QED
    BY <1>2, <2>1
<1>6. Size(r) \in Nat \ {0} /\ Size(r) >= HeaderSize
  <2>1. Len(r.content) \in Nat
    BY <1>3
  <2> HIDE DEF r
  <2> QED
    BY <2>1, Constants DEF Size
<1> HIDE DEF r
<1> QED
  BY <1>2, <1>3, <1>4, <1>5, <1>6 DEF r

\* The same of any request.
LEMMA RequestFields ==
  ASSUME NEW r \in Requests
  PROVE  /\ r # NoRequest /\ r.kind \in Kinds /\ r.kind # "none" /\ r.n \in Nat /\ r.srp \in Nat
         /\ r.content \in Seq(Nat) /\ Size(r) \in Nat \ {0} /\ Size(r) >= HeaderSize
         /\ r = Request(r.kind, r.n, r.srp)
<1>1. PICK kind \in Kinds, n \in Nat, srp \in SrpIds \cup {0} : r = Request(kind, n, srp)
  BY DEF Requests
<1>2. srp \in Nat /\ kind # "none"
  BY Constants DEF Kinds
<1>3. /\ r # NoRequest /\ r.kind = kind /\ r.n = n /\ r.srp = srp
      /\ r.content \in Seq(Nat) /\ Size(r) \in Nat \ {0} /\ Size(r) >= HeaderSize
  BY <1>1, RequestType
<1> QED
  BY <1>1, <1>2, <1>3
-----------------------------------------------------------------------------
(* What a read of the transport returns.                                   *)

Received(c) ==
  /\ c.n \in Nat \ {0} /\ c.late \in BOOLEAN
  /\ c.acc \in Context
  /\ c.acc.open = acc.open /\ c.acc.secure = acc.secure /\ c.acc.sent = acc.sent
  /\ c.up \in Seq(UpFrame) /\ Len(c.up) <= Len(up)
  /\ c.n + Data(c.up) + c.acc.buffer = Data(up) + acc.buffer
  /\ ~acc.secure => c.acc = acc
  /\ acc.secure =>
       /\ c.acc.received = (acc.received + (Len(up) - Len(c.up))) % Frames
       /\ \A i \in DOMAIN c.up : c.up[i].number = up[i + (Len(up) - Len(c.up))].number

\* It took the whole of what there is, when it was in time and is asked for, or fits.
TookAll(c, limit) ==
  /\ acc.secure /\ acc.buffer = 0 /\ Wire(up) <= RecvSize => c.up = <<>>
  /\ limit = Data(up) + acc.buffer /\ (acc.secure => up = <<>>) => c.up = <<>> /\ c.acc.buffer = 0

LEMMA ContextFields ==
  ASSUME acc \in Context
  PROVE  /\ acc.open \in BOOLEAN /\ acc.secure \in BOOLEAN
         /\ acc.sent \in 0..(Frames - 1) /\ acc.received \in 0..(Frames - 1)
         /\ acc.buffer \in 0..RecvSize
BY DEF Context

LEMMA LeastOf ==
  ASSUME NEW a \in Nat, NEW b \in Nat
  PROVE  /\ Least(a, b) \in Nat /\ Least(a, b) <= a /\ Least(a, b) <= b
         /\ Least(a, b) \in {a, b}
         /\ a <= b => Least(a, b) = a
         /\ b <= a => Least(a, b) = b
BY DEF Least

LEMMA PlainRead ==
  ASSUME TypeInv, ~acc.secure, acc.buffer = 0, Len(up) <= 1,
         NEW limit \in Nat \ {0}, NEW c \in RecvPlain(limit)
  PROVE  Received(c) /\ (~c.late => TookAll(c, limit))
<1> DEFINE d == Data(up)
           most == Least(limit, d)
           Rest(n) == IF n = d THEN <<>> ELSE <<[up[1] EXCEPT !.size = @ - n]>>
<1>1. PICK n \in 1..most : c = [n |-> n, up |-> Rest(n), acc |-> acc, late |-> n < most]
  BY DEF RecvPlain
<1>2. c.n = n /\ c.up = Rest(n) /\ c.acc = acc /\ c.late = (n < most)
  BY <1>1
<1>3. up \in Seq(UpFrame) /\ Len(up) <= 2 /\ acc \in Context
  BY DEF TypeInv
<1>4. d \in Nat /\ Len(up) \in {0, 1, 2} /\ (d = 0 <=> Len(up) = 0)
  BY <1>3, DataIsPositive
<1>5. most \in Nat /\ most <= d /\ most \in {limit, d} /\ (limit = d => most = d)
  BY <1>4, LeastOf
<1>6. n \in Nat \ {0} /\ n <= most /\ n <= d
  BY <1>4, <1>5
<1>7. Len(up) = 1 /\ d = up[1].size /\ up[1] \in UpFrame
  <2>1. Len(up) = 1
    BY <1>4, <1>6
  <2> QED
    BY <1>3, <2>1, DataOfOne
<1>8. Rest(n) \in Seq(UpFrame) /\ Len(Rest(n)) <= 1 /\ n + Data(Rest(n)) = d
  <2>1. CASE n = d
    <3>1. Rest(n) = <<>>
      BY <2>1
    <3>2. Rest(n) \in Seq(UpFrame) /\ Len(Rest(n)) = 0 /\ Data(Rest(n)) = 0
      BY <3>1, NoData
    <3> HIDE DEF Rest, d
    <3> QED
      BY <1>4, <2>1, <3>2
  <2>2. CASE n # d
    <3> DEFINE f == [up[1] EXCEPT !.size = @ - n]
    <3>1. up[1].number \in 0..Frames /\ up[1] = [number |-> up[1].number, size |-> d]
      BY <1>7 DEF UpFrame
    <3>2. f = [number |-> up[1].number, size |-> d - n]
      BY <3>1
    <3>3. d - n \in Nat \ {0}
      <4> HIDE DEF d, most
      <4> QED
        BY <1>4, <1>6, <2>2
    <3>4. f \in UpFrame /\ f.size = d - n
      <4> HIDE DEF f, d
      <4> QED
        BY <3>1, <3>2, <3>3 DEF UpFrame
    <3> HIDE DEF f
    <3>5. <<f>> \in Seq(UpFrame) /\ Len(<<f>>) = 1 /\ <<f>>[1] = f
      BY <3>4
    <3>6. Data(<<f>>) = d - n
      <4>1. Len(<<f>>) <= 2
        BY <3>5
      <4> QED
        BY <3>4, <3>5, <4>1, DataOf
    <3>7. Rest(n) = <<f>>
      BY <2>2 DEF f
    <3> HIDE DEF Rest, d
    <3> QED
      BY <1>4, <1>6, <3>5, <3>6, <3>7
  <2> QED
    BY <2>1, <2>2
<1> HIDE DEF Rest
<1>9. Received(c)
  <2>1. c.late \in BOOLEAN
    BY <1>2
  <2>2. c.n + Data(c.up) + c.acc.buffer = Data(up) + acc.buffer
    <3>1. Data(Rest(n)) \in Nat
      BY <1>8, DataOf
    <3> HIDE DEF most
    <3> QED
      BY <1>2, <1>4, <1>6, <1>8, <3>1
  <2>3. c.n \in Nat \ {0} /\ c.up \in Seq(UpFrame) /\ Len(c.up) <= Len(up)
    BY <1>2, <1>6, <1>7, <1>8
  <2>4. c.acc = acc
    BY <1>2
  <2> QED
    BY <1>3, <2>1, <2>2, <2>3, <2>4 DEF Received
<1>10. ASSUME ~c.late, limit = d + acc.buffer
       PROVE  c.up = <<>> /\ c.acc.buffer = 0
  <2>1. n = d
    <3>1. ~(n < most)
      BY <1>2, <1>10
    <3> HIDE DEF most, d
    <3>2. limit = d
      BY <1>4, <1>10
    <3> QED
      BY <1>4, <1>5, <1>6, <3>1, <3>2
  <2> QED
    BY <1>2, <2>1 DEF Rest
<1> QED
  BY <1>9, <1>10 DEF TookAll

LEMMA BufferRead ==
  ASSUME TypeInv, acc.secure, acc.buffer > 0,
         NEW limit \in Nat \ {0}, NEW c, c = RecvBuffer(limit)
  PROVE  Received(c) /\ (~c.late => TookAll(c, limit))
<1> DEFINE n == Least(limit, acc.buffer)
           a == [acc EXCEPT !.buffer = @ - n]
<1>1. c.n = n /\ c.up = up /\ c.acc = a /\ c.late = FALSE
  BY DEF RecvBuffer
<1>2. up \in Seq(UpFrame) /\ Len(up) <= 2 /\ acc \in Context
  BY DEF TypeInv
<1>3. acc.buffer \in 0..RecvSize /\ acc.received \in 0..(Frames - 1) /\ RecvSize \in Nat
  BY <1>2, ContextFields, Constants
<1>4. n \in Nat \ {0} /\ n <= acc.buffer /\ (limit = acc.buffer => n = acc.buffer)
  <2>1. acc.buffer \in Nat /\ limit \in Nat
    BY <1>3
  <2>2. n \in Nat /\ n <= acc.buffer /\ n \in {limit, acc.buffer}
    BY <2>1, LeastOf
  <2> HIDE DEF n
  <2> QED
    BY <2>1, <2>2
<1>5. acc.buffer - n \in 0..RecvSize
  <2> HIDE DEF n
  <2> QED
    BY <1>3, <1>4
<1>6. a \in Context /\ a.open = acc.open /\ a.secure = acc.secure /\ a.sent = acc.sent
      /\ a.received = acc.received /\ a.buffer = acc.buffer - n
  <2> HIDE DEF n
  <2> QED
    BY <1>2, <1>5 DEF Context
<1>7. Data(up) \in Nat /\ (Data(up) = 0 <=> up = <<>>)
  BY <1>2, DataIsPositive
<1> HIDE DEF n, a
<1>8. Received(c)
  <2>1. acc.received = (acc.received + (Len(up) - Len(up))) % Frames
    <3>1. Len(up) \in Nat /\ acc.received % Frames = acc.received
      <4>1. Len(up) \in Nat
        BY <1>2
      <4>2. acc.received % Frames = acc.received
        BY <1>3, SmallRemainder, Constants
      <4> QED
        BY <4>1, <4>2
    <3>2. acc.received + (Len(up) - Len(up)) = acc.received
      BY <1>3, <3>1
    <3> QED
      BY <3>1, <3>2
  <2>2. \A i \in DOMAIN up : up[i].number = up[i + (Len(up) - Len(up))].number
    <3>1. \A i \in DOMAIN up : i + (Len(up) - Len(up)) = i
      BY <1>2
    <3> QED
      BY <3>1
  <2>3. n + Data(up) + (acc.buffer - n) = Data(up) + acc.buffer
    BY <1>3, <1>4, <1>7
  <2>4. c.n \in Nat \ {0} /\ c.late \in BOOLEAN
    BY <1>1, <1>4
  <2>5. c.up \in Seq(UpFrame) /\ Len(c.up) <= Len(up)
    <3>1. Len(up) <= Len(up)
      BY <1>2
    <3> QED
      BY <1>1, <1>2, <3>1
  <2> QED
    BY <1>1, <1>6, <2>1, <2>2, <2>3, <2>4, <2>5 DEF Received
<1>9. TookAll(c, limit)
  <2>1. ASSUME limit = Data(up) + acc.buffer, up = <<>>
        PROVE  c.up = <<>> /\ c.acc.buffer = 0
    <3>1. limit = acc.buffer
      BY <1>3, <1>7, <2>1
    <3> QED
      BY <1>1, <1>3, <1>4, <1>6, <2>1, <3>1
  <2> QED
    BY <2>1, <1>3 DEF TookAll
<1> QED
  BY <1>8, <1>9
LEMMA IndexUpToTwo ==
  ASSUME NEW m \in {0, 1, 2}, NEW k \in 1..m
  PROVE  k \in {1, 2} /\ m \in {1, 2} /\ k <= m /\ (k # m => k = 1 /\ m = 2)
OBVIOUS

LEMMA OneMore ==
  ASSUME NEW x \in Nat, NEW y \in Nat, NEW z \in Nat \ {0}
  PROVE  x + (1 * z) # x + y + (2 * z)
OBVIOUS

LEMMA DecryptingRead ==
  ASSUME TypeInv, acc.secure, acc.buffer = 0,
         NEW limit \in Nat \ {0}, NEW size \in 1..Least(RecvSize, Wire(up)),
         NEW c \in Decrypt(size, limit), c.n # -1
  PROVE  Received(c) /\ (~c.late => TookAll(c, limit))
<1> DEFINE late == size < Least(RecvSize, Wire(up))
           taken == {k \in 1..Len(up) :
                       /\ Wire(SubSeq(up, 1, k)) = size
                       /\ \A i \in 1..k : up[i].number = (acc.received + i - 1) % Frames}
           data(k) == Data(SubSeq(up, 1, k))
           Taken(k) ==
             [n |-> Least(limit, data(k)), up |-> SubSeq(up, k + 1, Len(up)), late |-> late,
              acc |-> [acc EXCEPT !.received = (@ + k) % Frames,
                                  !.buffer = data(k) - Least(limit, data(k))]]
<1>1. \E k \in taken : c = Taken(k)
  <2>1. Decrypt(size, limit)
          = IF taken = {} THEN {[n |-> -1, up |-> up, acc |-> acc, late |-> late]}
            ELSE {Taken(k) : k \in taken}
    BY DEF Decrypt
  <2> HIDE DEF taken, Taken, late
  <2>2. taken # {}
    <3>1. CASE taken = {}
      <4>1. c = [n |-> -1, up |-> up, acc |-> acc, late |-> late]
        BY <2>1, <3>1
      <4> QED
        BY <4>1
    <3> QED
      BY <3>1
  <2> QED
    BY <2>1, <2>2
<1>2. PICK k \in taken : c = Taken(k)
  BY <1>1
<1>3. k \in 1..Len(up) /\ Wire(SubSeq(up, 1, k)) = size
  OBVIOUS
<1> DEFINE d == data(k)
           n == Least(limit, d)
           r == (acc.received + k) % Frames
           a == [acc EXCEPT !.received = (@ + k) % Frames, !.buffer = d - n]
           rest == SubSeq(up, k + 1, Len(up))
<1>4. c.n = n /\ c.up = rest /\ c.acc = a /\ c.late = late
  BY <1>2
<1> HIDE DEF taken
<1>5. up \in Seq(UpFrame) /\ Len(up) <= 2 /\ acc \in Context
  BY DEF TypeInv
<1>6. Data(up) \in Nat /\ Len(up) \in {0, 1, 2}
  BY <1>5, DataIsPositive
<1>20. k \in {1, 2} /\ Len(up) \in {1, 2} /\ k <= Len(up) /\ (k # Len(up) => k = 1 /\ Len(up) = 2)
  <2>1. Len(up) \in {0, 1, 2} /\ k \in 1..Len(up)
    BY <1>3, <1>6
  <2> HIDE DEF data, Taken, d, n, r, a, rest, late
  <2> QED
    BY <2>1, IndexUpToTwo
<1>7. /\ SubSeq(up, 1, k) \in Seq(UpFrame) /\ Len(SubSeq(up, 1, k)) = k
      /\ rest \in Seq(UpFrame) /\ Len(rest) = Len(up) - k
      /\ Data(up) = d + Data(rest)
  BY <1>3, <1>5, DataIsSplit
<1>8. d \in Nat \ {0} /\ size = d + (k * Overhead)
  <2>1. k \in Nat \ {0} /\ k <= 2
    BY <1>20
  <2>2. d \in Nat /\ (d = 0 <=> Len(SubSeq(up, 1, k)) = 0)
    BY <1>7, <2>1, DataIsPositive
  <2>3. size = d + (k * Overhead)
    BY <1>3, <1>7 DEF Wire
  <2> QED
    BY <1>7, <2>1, <2>2, <2>3
<1>9. Data(rest) \in Nat /\ (Data(rest) = 0 <=> rest = <<>>)
  <2>1. Len(rest) <= 2
    BY <1>3, <1>6, <1>7
  <2> HIDE DEF rest
  <2> QED
    BY <1>7, <2>1, DataIsPositive
<1>10. Wire(up) = Data(up) + (Len(up) * Overhead) /\ Wire(up) \in Nat
  BY <1>6, Constants DEF Wire
<1>11. size <= RecvSize
  <2>1. Least(RecvSize, Wire(up)) \in Nat /\ Least(RecvSize, Wire(up)) <= RecvSize
    BY <1>10, LeastOf, Constants
  <2>2. size \in 1..Least(RecvSize, Wire(up))
    OBVIOUS
  <2> QED
    BY <2>1, <2>2, Constants
<1>12. n \in Nat \ {0} /\ n <= d /\ d <= RecvSize
  <2>1. n \in Nat /\ n <= d /\ n \in {limit, d}
    BY <1>8, LeastOf
  <2>2. k * Overhead \in Nat
    BY <1>3, <1>6, Constants
  <2> HIDE DEF n, d
  <2> QED
    BY <1>8, <1>11, <2>1, <2>2, Constants
<1>13. r \in 0..(Frames - 1)
  <2>1. acc.received + k \in Int
    BY <1>3, <1>5, <1>6, ContextFields, Constants
  <2> QED
    BY <2>1, Remainder, Constants
<1>14. /\ a \in Context /\ a.open = acc.open /\ a.secure = acc.secure /\ a.sent = acc.sent
       /\ a.received = r /\ a.buffer = d - n
  <2>1. d - n \in 0..RecvSize
    <3> HIDE DEF n, d
    <3> QED
      BY <1>8, <1>12, Constants
  <2> HIDE DEF n, d
  <2> QED
    BY <1>5, <1>13, <2>1 DEF Context
<1>15. Len(up) - Len(rest) = k /\ Len(rest) <= Len(up)
  <2> HIDE DEF rest
  <2> QED
    BY <1>3, <1>6, <1>7
<1>16. ASSUME NEW i \in DOMAIN rest
       PROVE  rest[i].number = up[i + k].number
  <2>1. rest[i] = up[i + k]
    <3>1. i \in 1..(Len(up) - k)
      BY <1>7
    <3>2. k \in Nat /\ Len(up) \in Nat
      BY <1>3, <1>6
    <3> QED
      BY <1>3, <1>5, <3>1, <3>2
  <2> QED
    BY <2>1
<1> HIDE DEF a, r, rest
<1>17. Received(c)
  <2>1. c.late \in BOOLEAN
    BY <1>4
  <2>2. n + Data(rest) + (d - n) = Data(up) + acc.buffer
    <3> HIDE DEF n, d
    <3> QED
      BY <1>7, <1>8, <1>9, <1>12
  <2>3. n \in Nat \ {0} /\ rest \in Seq(UpFrame) /\ Len(rest) <= Len(up)
    BY <1>7, <1>12, <1>15
  <2>4. r = (acc.received + (Len(up) - Len(rest))) % Frames
    BY <1>15 DEF r
  <2>5. \A i \in DOMAIN rest : rest[i].number = up[i + (Len(up) - Len(rest))].number
    BY <1>15, <1>16
  <2> HIDE DEF n, d, late
  <2> QED
    BY <1>4, <1>14, <2>1, <2>2, <2>3, <2>4, <2>5 DEF Received
<1>18. ASSUME ~c.late, Wire(up) <= RecvSize
       PROVE  c.up = <<>>
  <2>1. size = Wire(up)
    <3>1. ~(size < Least(RecvSize, Wire(up)))
      BY <1>4, <1>18
    <3>2. Least(RecvSize, Wire(up)) = Wire(up)
      BY <1>10, <1>18, LeastOf, Constants
    <3>3. size <= Wire(up) /\ ~(size < Wire(up)) /\ size \in Nat
      BY <3>1, <3>2
    <3> QED
      BY <1>10, <3>3
  <2>2. k = Len(up)
    <3>1. ASSUME k # Len(up) PROVE FALSE
      <4>1. Len(up) = 2 /\ k = 1
        BY <1>20, <3>1
      <4>2. size = d + (1 * Overhead) /\ Wire(up) = Data(up) + (2 * Overhead)
        BY <1>8, <1>10, <4>1
      <4>3. Data(up) = d + Data(rest) /\ Data(rest) \in Nat /\ d \in Nat /\ Overhead \in Nat \ {0}
        BY <1>7, <1>8, <1>9, Constants
      <4> HIDE DEF d, rest
      <4> QED
        BY <2>1, <4>2, <4>3, OneMore
    <3> QED
      BY <3>1
  <2>3. Len(rest) = 0 /\ rest \in Seq(UpFrame)
    BY <1>6, <1>7, <2>2
  <2>4. rest = <<>>
    BY <2>3
  <2> QED
    BY <1>4, <2>4
<1>19. up # <<>>
  BY <1>3
<1> QED
  BY <1>17, <1>18, <1>19 DEF TookAll

LEMMA Read ==
  ASSUME TypeInv, ~acc.secure => acc.buffer = 0 /\ Len(up) <= 1,
         NEW limit \in Nat \ {0}, NEW c \in Recv(limit), c.n # -1
  PROVE  Received(c) /\ (~c.late => TookAll(c, limit))
<1>1. CASE ~acc.secure
  BY <1>1, PlainRead DEF Recv
<1>2. CASE acc.secure /\ acc.buffer > 0
  <2>1. c = RecvBuffer(limit)
    BY <1>2 DEF Recv
  <2> QED
    BY <1>2, <2>1, BufferRead
<1>3. CASE acc.secure /\ ~(acc.buffer > 0)
  <2>1. acc.buffer = 0
    BY <1>3, ContextFields, Constants DEF TypeInv
  <2>2. c \in UNION {Decrypt(size, limit) : size \in 1..Least(RecvSize, Wire(up))}
    BY <1>3 DEF Recv
  <2>3. PICK size \in 1..Least(RecvSize, Wire(up)) : c \in Decrypt(size, limit)
    BY <2>2
  <2> QED
    BY <1>3, <2>1, <2>3, DecryptingRead
<1> QED
  BY <1>1, <1>2, <1>3
-----------------------------------------------------------------------------
(* The invariant, one action after the other.                              *)

LEMMA Fields ==
  ASSUME TypeInv
  PROVE  /\ acc.open \in BOOLEAN /\ acc.secure \in BOOLEAN
         /\ acc.sent \in 0..(Frames - 1) /\ acc.received \in 0..(Frames - 1)
         /\ acc.buffer \in Nat /\ acc.buffer <= RecvSize
         /\ req.pc \in {"idle", "header", "body", "handle"} /\ req.got \in Nat /\ req.late \in BOOLEAN
         /\ ctl.request \in Requests \cup {NoRequest} /\ ctl.step \in {0, 2, 4}
         /\ ctl.srp \in SrpIds \cup {0} /\ ctl.secure \in BOOLEAN
         /\ ctl.sent \in 0..Frames /\ ctl.received \in 0..Frames
         /\ Data(up) \in Nat /\ Len(up) \in {0, 1, 2} /\ (Data(up) = 0 <=> up = <<>>)
         /\ Len(down) \in Nat
         /\ \A i \in DOMAIN down :
              /\ i \in Nat \ {0} /\ i <= Len(down)
              /\ down[i].secure \in BOOLEAN /\ down[i].number \in 0..(Frames - 1)
              /\ down[i].what \in {"part", "end", "event"} /\ down[i].content \in Seq(Nat)
<1>1. acc \in Context /\ req \in Reading /\ ctl \in Controller /\ down \in Seq(DownFrame)
      /\ up \in Seq(UpFrame) /\ Len(up) <= 2
  BY DEF TypeInv
<1>2. Data(up) \in Nat /\ Len(up) \in {0, 1, 2} /\ (Data(up) = 0 <=> up = <<>>)
  BY <1>1, DataIsPositive
<1>3. /\ acc.open \in BOOLEAN /\ acc.secure \in BOOLEAN
      /\ acc.sent \in 0..(Frames - 1) /\ acc.received \in 0..(Frames - 1)
      /\ acc.buffer \in Nat /\ acc.buffer <= RecvSize
  BY <1>1, ContextFields, Constants
<1>4. req.pc \in {"idle", "header", "body", "handle"} /\ req.got \in Nat /\ req.late \in BOOLEAN
  BY <1>1 DEF Reading
<1>5. /\ ctl.request \in Requests \cup {NoRequest} /\ ctl.step \in {0, 2, 4}
      /\ ctl.srp \in SrpIds \cup {0} /\ ctl.secure \in BOOLEAN
      /\ ctl.sent \in 0..Frames /\ ctl.received \in 0..Frames
  BY <1>1 DEF Controller
<1>6. \A f \in DownFrame :
        /\ f.secure \in BOOLEAN /\ f.number \in 0..(Frames - 1)
        /\ f.what \in {"part", "end", "event"} /\ f.content \in Seq(Nat)
  BY DEF DownFrame
<1>7. Len(down) \in Nat /\ \A i \in DOMAIN down : i \in Nat \ {0} /\ i <= Len(down) /\ down[i] \in DownFrame
  BY <1>1
<1>8. \A i \in DOMAIN down :
        /\ i \in Nat \ {0} /\ i <= Len(down)
        /\ down[i].secure \in BOOLEAN /\ down[i].number \in 0..(Frames - 1)
        /\ down[i].what \in {"part", "end", "event"} /\ down[i].content \in Seq(Nat)
  BY <1>6, <1>7
<1> QED
  BY <1>2, <1>3, <1>4, <1>5, <1>7, <1>8

Bookkeeping ==
  /\ work \in 0..MaxEvents
  /\ subscribed \in BOOLEAN /\ paired \in BOOLEAN
  /\ faults \in 0..MaxFaults

LEMMA InitialValues ==
  /\ NewContext(FALSE) \in Context /\ NewContext(TRUE) \in Context
  /\ NewKeys \in KeyFields /\ Idle \in Reading /\ NewController \in Controller
  /\ <<>> \in Seq(UpFrame) /\ <<>> \in Seq(DownFrame)
<1>1. 0 \in 0..(Frames - 1) /\ 0 \in 0..Frames /\ 0 \in 0..RecvSize
  BY Constants
<1> QED
  BY <1>1 DEF NewContext, Context, NewKeys, KeyFields, Idle, Reading, NewController, Controller

\* A connection that nothing happened on yet.
Fresh(open) ==
  /\ acc = NewContext(open) /\ keys \in KeyFields /\ req = Idle /\ up = <<>> /\ down = <<>>
  /\ ctl = NewController /\ skipped \in BOOLEAN

LEMMA FreshIsRight ==
  ASSUME NEW open \in BOOLEAN
  PROVE  Fresh(open) /\ Bookkeeping => Inv
<1> SUFFICES ASSUME Fresh(open), Bookkeeping PROVE Inv
  OBVIOUS
<1>1. /\ acc = [open |-> open, secure |-> FALSE, sent |-> 0, received |-> 0, buffer |-> 0]
      /\ ctl = [request |-> NoRequest, step |-> 0, srp |-> 0, secure |-> FALSE, sent |-> 0, received |-> 0]
      /\ ctl = NewController /\ req = Idle /\ up = <<>> /\ down = <<>>
  BY DEF Fresh, NewContext, NewController
<1>2. /\ acc.open = open /\ ~acc.secure /\ acc.sent = 0 /\ acc.received = 0 /\ acc.buffer = 0
      /\ ctl.request = NoRequest /\ ctl.step = 0 /\ ~ctl.secure /\ ctl.sent = 0 /\ ctl.received = 0
  BY <1>1
<1>3. ~Answer /\ ~Pending /\ DOMAIN down = {} /\ Len(up) = 0
  <2>1. DOMAIN <<>> = {} /\ Len(<<>>) = 0
    OBVIOUS
  <2> QED
    BY <1>1, <1>2, <2>1 DEF Answer, Pending
<1>4. NoRequest.kind = "none"
  BY DEF NoRequest
<1>5. TypeInv
  <2>1. acc \in Context
    <3>1. CASE open
      BY <3>1, InitialValues DEF Fresh
    <3>2. CASE ~open
      <4>1. open = FALSE
        BY <3>2
      <4> QED
        BY <4>1, InitialValues DEF Fresh
    <3> QED
      BY <3>1, <3>2
  <2> QED
    BY <1>1, <1>3, <2>1, InitialValues DEF TypeInv, Fresh, Bookkeeping
<1>6. RequestInv
  <2>1. ~acc.open => acc = NewContext(FALSE)
    <3>1. ~acc.open => open = FALSE
      BY <1>2
    <3> QED
      BY <3>1 DEF Fresh
  <2>2. req = Idle => req.pc = "idle"
    BY DEF Idle
  <2>3. ctl = NewController /\ down = <<>> /\ up = <<>> /\ req = Idle
    BY <1>1
  <2>4. ~(ctl.request.kind = "verify" /\ Answer) /\ Len(up) <= 1
    BY <1>3
  <2> QED
    BY <1>2, <1>3, <2>1, <2>3, <2>4, Zenon DEF RequestInv
<1>7. DownInv
  BY <1>3 DEF DownInv
<1>8. NumberInv
  BY <1>2 DEF NumberInv
<1>9. UpInv /\ WholeInv
  BY <1>2, <1>3 DEF UpInv, WholeInv
<1>10. KeysInv
  BY <1>2, <1>3, <1>4 DEF KeysInv
<1> QED
  BY <1>5, <1>6, <1>7, <1>8, <1>9, <1>10 DEF Inv

LEMMA InitIsRight ==
  ASSUME Init
  PROVE  Inv
<1>1. Fresh(FALSE)
  BY InitialValues DEF Init, Fresh
<1>2. Bookkeeping
  <2>1. 0 \in 0..MaxEvents /\ 0 \in 0..MaxFaults
    BY Constants
  <2> QED
    BY <2>1 DEF Init, Bookkeeping
<1> QED
  BY <1>1, <1>2, FreshIsRight

LEMMA FreshNext ==
  /\ Fresh(FALSE)' /\ Bookkeeping' => Inv'
  /\ Fresh(TRUE)' /\ Bookkeeping' => Inv'
<1>1. (Fresh(FALSE) /\ Bookkeeping => Inv) /\ (Fresh(TRUE) /\ Bookkeeping => Inv)
  BY FreshIsRight
<1> QED
  BY <1>1, PTL

LEMMA EndsStep ==
  ASSUME Ends, Bookkeeping', skipped \in BOOLEAN
  PROVE  Inv'
<1>1. Fresh(FALSE)'
  BY InitialValues DEF Ends, Fresh
<1> QED
  BY <1>1, FreshNext

LEMMA InvFields ==
  ASSUME Inv
  PROVE  /\ Bookkeeping /\ skipped \in BOOLEAN /\ keys \in KeyFields
         /\ TypeInv /\ RequestInv /\ DownInv /\ NumberInv /\ UpInv /\ WholeInv /\ KeysInv
BY DEF Inv, TypeInv, Bookkeeping

\* Without a request, or when it is answered, nothing of it is left.
LEMMA NotPending ==
  ASSUME RequestInv, ~Pending
  PROVE  up = <<>> /\ req = Idle /\ acc.buffer = 0
BY DEF RequestInv

LEMMA IdleFields == Idle.pc = "idle" /\ Idle.got = 0 /\ Idle.late = FALSE
BY DEF Idle

LEMMA Closed ==
  ASSUME RequestInv, ~acc.open
  PROVE  ctl = NewController /\ ctl.request = NoRequest /\ down = <<>> /\ up = <<>> /\ req = Idle
<1>1. ctl = NewController /\ down = <<>>
  BY DEF RequestInv
<1>2. ctl.request = NoRequest
  <2>1. NewController.request = NoRequest
    BY DEF NewController
  <2> QED
    BY <1>1, <2>1
<1> QED
  BY <1>1, <1>2, NotPending DEF Pending

LEMMA OpenStep ==
  ASSUME Inv, Open
  PROVE  Inv'
<1>1. Bookkeeping' /\ skipped' \in BOOLEAN /\ keys' \in KeyFields
  BY InvFields DEF Open, Bookkeeping
<1>2. ctl = NewController /\ down = <<>> /\ up = <<>> /\ req = Idle
  BY InvFields, Closed DEF Open
<1>4. Fresh(TRUE)'
  BY <1>1, <1>2 DEF Open, Fresh
<1> QED
  BY <1>1, <1>4, FreshNext

LEMMA LeaveStep ==
  ASSUME Inv, Leave
  PROVE  Inv'
<1>1. Bookkeeping' /\ skipped \in BOOLEAN
  BY InvFields DEF Leave, Bookkeeping
<1> QED
  BY <1>1, EndsStep DEF Leave

LEMMA FaultType ==
  ASSUME Inv, Fault \/ UNCHANGED faults
  PROVE  faults' \in 0..MaxFaults
<1>1. faults \in 0..MaxFaults
  BY InvFields DEF Bookkeeping
<1>2. CASE Fault
  BY <1>1, <1>2, Constants DEF Fault
<1> QED
  BY <1>1, <1>2

LEMMA FailsStep ==
  ASSUME Inv, Fails
  PROVE  Inv'
<1>1. faults' \in 0..MaxFaults
  <2>1. Fault \/ UNCHANGED faults
    BY DEF Fails
  <2> QED
    BY <2>1, FaultType
<1>2. Bookkeeping' /\ skipped \in BOOLEAN
  BY <1>1, InvFields DEF Fails, Bookkeeping
<1> QED
  BY <1>2, EndsStep DEF Fails, Closes

LEMMA SendEventPanicsStep ==
  ASSUME Inv, SendEventPanics
  PROVE  Inv'
<1>1. 0 \in 0..MaxEvents
  BY Constants
<1>2. Bookkeeping' /\ skipped \in BOOLEAN
  BY <1>1, InvFields DEF SendEventPanics, Bookkeeping
<1> QED
  BY <1>2, EndsStep DEF SendEventPanics
\* A request as one frame or two.
Parts(s, m, size) ==
  /\ m \in {1, 2} /\ DOMAIN s = 1..m
  /\ \A i \in 1..m : s[i] \in Nat \ {0}
  /\ m = 1 => s[1] = size
  /\ m = 2 => s[1] + s[2] = size

LEMMA CutInParts ==
  ASSUME NEW size \in Nat \ {0}, NEW s \in Cut(size) \cup {<<size>>}
  PROVE  Parts(s, Len(s), size) /\ (s = <<size>> => Len(s) = 1)
<1>1. CASE s = <<size>>
  BY <1>1 DEF Parts
<1>2. CASE \E k \in 1..(size - 1) : s = <<k, size - k>>
  <2>1. PICK k \in 1..(size - 1) : s = <<k, size - k>>
    BY <1>2
  <2>2. k \in Nat \ {0} /\ size - k \in Nat \ {0} /\ k + (size - k) = size
    OBVIOUS
  <2>3. Len(s) = 2 /\ DOMAIN s = 1..2 /\ s[1] = k /\ s[2] = size - k
    BY <2>1
  <2>4. \A i \in 1..2 : i = 1 \/ i = 2
    OBVIOUS
  <2>5. \A i \in 1..2 : s[i] \in Nat \ {0}
    BY <2>2, <2>3, <2>4
  <2>6. s # <<size>>
    BY <2>3
  <2> QED
    BY <2>2, <2>3, <2>5, <2>6 DEF Parts
<1>3. s = <<size>> \/ \E k \in 1..(size - 1) : s = <<k, size - k>>
  BY DEF Cut
<1> QED
  BY <1>1, <1>2, <1>3

Numbered(u, s, first) ==
  u = [i \in DOMAIN s |-> [number |-> Least(first + i - 1, Frames), size |-> s[i]]]

LEMMA FramesOfParts ==
  ASSUME NEW s, NEW m, NEW size \in Nat \ {0}, Parts(s, m, size),
         NEW first \in 0..Frames, NEW u, Numbered(u, s, first)
  PROVE  /\ u \in Seq(UpFrame) /\ Len(u) = m /\ u # <<>>
         /\ Data(u) = size
         /\ \A i \in DOMAIN u : i \in {1, 2} /\ u[i].number = Least(first + i - 1, Frames)
<1>1. m \in {1, 2} /\ DOMAIN s = 1..m /\ \A i \in 1..m : s[i] \in Nat \ {0}
  BY DEF Parts
<1>2. \A i \in 1..m : i \in {1, 2}
  BY <1>1
<1>3. \A i \in 1..m : Least(first + i - 1, Frames) \in 0..Frames
  <2>1. \A i \in 1..m : first + i - 1 \in Nat
    BY <1>2, Constants
  <2>2. \A x \in Nat : Least(x, Frames) \in Nat /\ Least(x, Frames) <= Frames
    BY LeastOf, Constants
  <2> QED
    BY <2>1, <2>2, Constants
<1>4. \A i \in 1..m : u[i] = [number |-> Least(first + i - 1, Frames), size |-> s[i]]
  BY <1>1 DEF Numbered
<1>5. \A i \in 1..m : u[i] \in UpFrame
  <2> TAKE i \in 1..m
  <2>1. Least(first + i - 1, Frames) \in 0..Frames /\ s[i] \in Nat \ {0}
    BY <1>1, <1>3
  <2>2. u[i] = [number |-> Least(first + i - 1, Frames), size |-> s[i]]
    BY <1>4
  <2> QED
    BY <2>1, <2>2 DEF UpFrame
<1>6. u \in Seq(UpFrame) /\ Len(u) = m /\ DOMAIN u = 1..m
  <2>1. DOMAIN u = 1..m /\ u = [i \in 1..m |-> u[i]]
    BY <1>1 DEF Numbered
  <2>2. m \in Nat
    BY <1>1
  <2> QED
    BY <1>5, <2>1, <2>2
<1>7. Data(u) = size
  <2>4. Len(u) <= 2
    BY <1>1, <1>6
  <2>1. /\ Len(u) = 1 => Data(u) = u[1].size
        /\ Len(u) = 2 => Data(u) = u[1].size + u[2].size
    BY <1>6, <2>4, DataOf
  <2>2. CASE m = 1
    BY <1>4, <1>6, <2>1, <2>2 DEF Parts
  <2>3. CASE m = 2
    BY <1>4, <1>6, <2>1, <2>3 DEF Parts
  <2> QED
    BY <1>1, <2>2, <2>3
<1>8. u # <<>>
  BY <1>1, <1>6
<1>9. \A i \in 1..m : u[i].number = Least(first + i - 1, Frames)
  <2> TAKE i \in 1..m
  <2>1. u[i] = [number |-> Least(first + i - 1, Frames), size |-> s[i]]
    BY <1>4
  <2> QED
    BY <2>1
<1> QED
  BY <1>2, <1>6, <1>7, <1>8, <1>9

\* The numbers are those that the accessory will use, until they are used up.
LEMMA NumbersInStep ==
  ASSUME NEW first \in 0..Frames, NEW received \in 0..(Frames - 1), first < Frames => received = first,
         NEW i \in {1, 2}, NEW m \in {1, 2}, i <= m
  PROVE  /\ Least(first + i - 1, Frames) \in {(received + i - 1) % Frames, Frames}
         /\ Least(first + m, Frames) \in 0..Frames
         /\ Least(first + m, Frames) < Frames => received + m = Least(first + m, Frames)
<1>1. first + i - 1 \in Nat /\ first + m \in Nat /\ Frames \in Nat \ {0}
  BY Constants
<1>4. /\ Least(first + m, Frames) \in 0..Frames
      /\ Least(first + m, Frames) < Frames => received + m = Least(first + m, Frames)
  <2>1. CASE first + m < Frames
    <3>1. Least(first + m, Frames) = first + m
      BY <1>1, <2>1, LeastOf
    <3> QED
      BY <1>1, <2>1, <3>1
  <2>2. CASE ~(first + m < Frames)
    <3>1. Least(first + m, Frames) = Frames
      BY <1>1, <2>2, LeastOf
    <3> QED
      BY <1>1, <3>1
  <2> QED
    BY <2>1, <2>2
<1>5. Least(first + i - 1, Frames) \in {(received + i - 1) % Frames, Frames}
  <2>1. CASE first + i - 1 < Frames
    <3>1. Least(first + i - 1, Frames) = first + i - 1 /\ received = first
      BY <1>1, <2>1, LeastOf
    <3>2. (received + i - 1) % Frames = first + i - 1
      BY <1>1, <2>1, <3>1, SmallRemainder
    <3> QED
      BY <3>1, <3>2
  <2>2. CASE ~(first + i - 1 < Frames)
    BY <1>1, <2>2, LeastOf
  <2> QED
    BY <2>1, <2>2
<1> QED
  BY <1>4, <1>5
LEMMA AskStep ==
  ASSUME Inv, NEW r \in Requests, Ask(r),
         ctl.secure <=> r.kind \in {"put", "get"},
         r.kind = "M3" => ctl.step = 2,
         r.kind = "M5" => ctl.step = 4
  PROVE  Inv'
<1> DEFINE size == Size(r)
<1>1. r # NoRequest /\ r.kind \in Kinds /\ size \in Nat \ {0}
  BY RequestFields
<1>2. /\ TypeInv /\ RequestInv /\ DownInv /\ NumberInv /\ UpInv /\ WholeInv /\ KeysInv
      /\ acc.open /\ ctl.request = NoRequest
  BY InvFields DEF Ask
<1>3. UNCHANGED <<acc, keys, req, down, work, subscribed, paired, skipped, faults>>
  BY DEF Ask
<1>4. PICK s \in Cut(size) \cup {<<size>>} :
        /\ ~ctl.secure => s = <<size>>
        /\ Numbered(up', s, ctl.sent)
        /\ ctl' = [ctl EXCEPT
             !.request = r, !.sent = IF ctl.secure THEN Least(@ + Len(s), Frames) ELSE @]
  <2>1. \E s \in IF ctl.secure THEN Cut(size) ELSE {<<size>>} :
          /\ Numbered(up', s, ctl.sent)
          /\ ctl' = [ctl EXCEPT
               !.request = r, !.sent = IF ctl.secure THEN Least(@ + Len(s), Frames) ELSE @]
    BY DEF Ask, Numbered
  <2>2. CASE ctl.secure
    BY <2>1, <2>2
  <2>3. CASE ~ctl.secure
    BY <2>1, <2>3
  <2> QED
    BY <2>2, <2>3
<1> DEFINE m == Len(s)
           last == IF ctl.secure THEN Least(ctl.sent + m, Frames) ELSE ctl.sent
<1>5. Parts(s, m, size) /\ (~ctl.secure => m = 1) /\ m \in {1, 2}
  BY <1>1, <1>4, CutInParts DEF Parts
<1>6. /\ ctl \in Controller /\ ctl.sent \in 0..Frames /\ acc.received \in 0..(Frames - 1)
      /\ ctl.secure \in BOOLEAN
  BY <1>2, Fields DEF TypeInv
<1> HIDE DEF m, size
<1>7. /\ up' \in Seq(UpFrame) /\ Len(up') = m /\ up' # <<>> /\ Data(up') = size
      /\ \A i \in DOMAIN up' : i \in {1, 2} /\ up'[i].number = Least(ctl.sent + i - 1, Frames)
  BY <1>1, <1>4, <1>5, <1>6, FramesOfParts
<1>8. ~Pending /\ ~Answer /\ ctl.request.kind = "none"
  BY <1>2 DEF Pending, DownInv, NoRequest
<1>9. up = <<>> /\ Len(up) = 0 /\ req = Idle /\ acc.buffer = 0
  <2>1. up = <<>> /\ req = Idle /\ acc.buffer = 0
    BY <1>2, <1>8, NotPending
  <2> QED
    BY <2>1
<1>10. acc.secure <=> ctl.secure
  BY <1>2, <1>8 DEF RequestInv
<1>11. ctl.secure => (ctl.sent < Frames => acc.received = ctl.sent)
  BY <1>2, <1>6, <1>9 DEF UpInv
<1>12. ctl.secure =>
         /\ \A i \in DOMAIN up' : up'[i].number \in {(acc.received + i - 1) % Frames, Frames}
         /\ last \in 0..Frames
         /\ last < Frames => acc.received + m = last
  <2> SUFFICES ASSUME ctl.secure
               PROVE  /\ \A i \in DOMAIN up' : up'[i].number \in {(acc.received + i - 1) % Frames, Frames}
                      /\ last \in 0..Frames
                      /\ last < Frames => acc.received + m = last
    OBVIOUS
  <2>1. ASSUME NEW i \in {1, 2}, i <= m
        PROVE  /\ Least(ctl.sent + i - 1, Frames) \in {(acc.received + i - 1) % Frames, Frames}
               /\ Least(ctl.sent + m, Frames) \in 0..Frames
               /\ Least(ctl.sent + m, Frames) < Frames => acc.received + m = Least(ctl.sent + m, Frames)
    BY <1>5, <1>6, <1>11, <2>1, NumbersInStep
  <2>2. \A i \in DOMAIN up' : i \in {1, 2} /\ i <= m
    BY <1>7
  <2>3. 1 <= m
    BY <1>5
  <2> QED
    BY <1>7, <2>1, <2>2, <2>3
<1>13. last \in 0..Frames /\ (~ctl.secure => last = ctl.sent)
  BY <1>6, <1>12
<1>14. ctl' = [ctl EXCEPT !.request = r, !.sent = last]
  BY <1>4 DEF m
<1> HIDE DEF last
<1>15. /\ ctl' \in Controller
       /\ ctl'.request = r /\ ctl'.step = ctl.step /\ ctl'.srp = ctl.srp /\ ctl'.secure = ctl.secure
       /\ ctl'.sent = last /\ ctl'.received = ctl.received
  BY <1>6, <1>13, <1>14 DEF Controller
<1>16. Answer' = Answer /\ ~Answer' /\ Pending'
  BY <1>1, <1>3, <1>8, <1>15 DEF Answer, Pending
<1>17. TypeInv'
  <2>1. Len(up') <= 2
    BY <1>5, <1>7
  <2> QED
    BY <1>2, <1>3, <1>7, <1>15, <2>1 DEF TypeInv
<1>18. RequestInv'
  <2>1. req'.got + Data(up') + acc'.buffer = Size(ctl'.request)
    BY <1>1, <1>3, <1>7, <1>9, <1>15, IdleFields DEF size
  <2>2. ~acc'.secure => acc'.buffer = 0 /\ Len(up') <= 1
    BY <1>3, <1>5, <1>7, <1>9, <1>10
  <2> QED
    BY <1>2, <1>3, <1>9, <1>10, <1>15, <1>16, <2>1, <2>2 DEF RequestInv
<1>19. DownInv'
  BY <1>1, <1>2, <1>3, <1>15, <1>16 DEF DownInv
<1>20. NumberInv'
  BY <1>2, <1>3, <1>13, <1>15 DEF NumberInv, Base
<1>21. UpInv'
  BY <1>3, <1>7, <1>12, <1>15 DEF UpInv
<1>22. WholeInv'
  <2>1. req'.pc = "idle"
    BY <1>3, <1>9, IdleFields
  <2> QED
    BY <2>1 DEF WholeInv
<1>23. KeysInv'
  BY <1>2, <1>3, <1>8, <1>15, <1>16 DEF KeysInv, Live
<1> QED
  BY <1>17, <1>18, <1>19, <1>20, <1>21, <1>22, <1>23 DEF Inv

LEMMA AskAnyStep ==
  ASSUME Inv, AskSetup \/ AskVerify \/ AskSecure
  PROVE  Inv'
<1>1. ctl.srp \in SrpIds \cup {0} /\ 0 \in SrpIds \cup {0} /\ 0 \in Nat /\ 1 \in Nat
  BY InvFields, Fields
<1>2. ASSUME NEW kind \in Kinds, NEW n \in Nat, NEW srp \in SrpIds \cup {0}, Ask(Request(kind, n, srp)),
             ctl.secure <=> kind \in {"put", "get"},
             kind = "M3" => ctl.step = 2, kind = "M5" => ctl.step = 4
      PROVE  Inv'
  <2>1. Request(kind, n, srp) \in Requests /\ Request(kind, n, srp).kind = kind
    BY RequestType
  <2> QED
    BY <1>2, <2>1, AskStep
<1>3. CASE AskSetup
  <2>1. /\ ~ctl.secure
        /\ \E n \in KeySizes :
             \/ Ask(Request("M1", 0, 0))
             \/ ctl.step = 2 /\ \E srp \in {0, ctl.srp} : Ask(Request("M3", n, srp))
             \/ ctl.step = 4 /\ Ask(Request("M5", n, ctl.srp))
    BY <1>3 DEF AskSetup
  <2>2. PICK n \in KeySizes :
          \/ Ask(Request("M1", 0, 0))
          \/ ctl.step = 2 /\ \E srp \in {0, ctl.srp} : Ask(Request("M3", n, srp))
          \/ ctl.step = 4 /\ Ask(Request("M5", n, ctl.srp))
    BY <2>1
  <2>3. n \in Nat
    BY Constants
  <2>4. CASE Ask(Request("M1", 0, 0))
    BY <1>1, <1>2, <2>1, <2>4 DEF Kinds
  <2>5. CASE ctl.step = 2 /\ \E srp \in {0, ctl.srp} : Ask(Request("M3", n, srp))
    BY <1>1, <1>2, <2>1, <2>3, <2>5 DEF Kinds
  <2>6. CASE ctl.step = 4 /\ Ask(Request("M5", n, ctl.srp))
    BY <1>1, <1>2, <2>1, <2>3, <2>6 DEF Kinds
  <2> QED
    BY <2>2, <2>4, <2>5, <2>6
<1>4. CASE AskVerify
  BY <1>1, <1>2, <1>4 DEF AskVerify, Kinds
<1>5. CASE AskSecure
  <2>1. ctl.secure /\ ((\E n \in Contents \ {0} : Ask(Request("put", n, 0))) \/ Ask(Request("get", 0, 0)))
    BY <1>5 DEF AskSecure
  <2>2. CASE \E n \in Contents \ {0} : Ask(Request("put", n, 0))
    <3>1. PICK n \in Contents \ {0} : Ask(Request("put", n, 0))
      BY <2>2
    <3>2. n \in Nat
      BY Constants
    <3> QED
      BY <1>1, <1>2, <2>1, <3>1, <3>2 DEF Kinds
  <2>3. CASE Ask(Request("get", 0, 0))
    BY <1>1, <1>2, <2>1, <2>3 DEF Kinds
  <2> QED
    BY <2>1, <2>2, <2>3
<1> QED
  BY <1>3, <1>4, <1>5
\* Arithmetic of the steps below.
LEMMA AtMostTwice ==
  ASSUME NEW m \in {0, 1, 2}, NEW x \in Nat
  PROVE  m * x \in Nat /\ m * x <= 2 * x
<1>1. CASE m = 0
  BY <1>1
<1>2. CASE m = 1
  BY <1>2
<1>3. CASE m = 2
  BY <1>3
<1> QED
  BY <1>1, <1>2, <1>3

\* While a request is not answered, both sides use frames or neither does.
LEMMA PendingFields ==
  ASSUME TypeInv, RequestInv, DownInv, Pending
  PROVE  /\ acc.open /\ ctl.request \in Requests
         /\ ctl.request # NoRequest /\ ~Answer
         /\ acc.secure <=> ctl.secure
         /\ req.got + Data(up) + acc.buffer = Size(ctl.request)
         /\ Size(ctl.request) \in Nat
<1>1. ctl.request # NoRequest /\ ~Answer /\ ctl.request \in Requests
  BY Fields DEF Pending
<1>2. acc.open
  BY <1>1, Closed
<1>3. acc.secure => ctl.secure
  <2> SUFFICES ASSUME acc.secure, ~ctl.secure PROVE FALSE
    OBVIOUS
  <2>1. down # <<>> /\ ~down[1].secure
    BY DEF RequestInv
  <2>2. 1 \in DOMAIN down
    BY <2>1 DEF TypeInv
  <2> QED
    BY <1>1, <2>1, <2>2 DEF DownInv, Answer
<1>4. ctl.secure => acc.secure
  BY DEF RequestInv
<1>5. req.got + Data(up) + acc.buffer = Size(ctl.request)
  BY DEF RequestInv
<1>6. Size(ctl.request) \in Nat
  BY <1>1, RequestFields
<1> QED
  BY <1>1, <1>2, <1>3, <1>4, <1>5, <1>6

LEMMA FitsOneRead ==
  ASSUME TypeInv, RequestInv, DownInv, Pending, req.pc = "idle", acc.secure, FitsRead
  PROVE  acc.buffer = 0 /\ Wire(up) <= RecvSize
<1>1. req = Idle /\ acc.buffer = 0
  BY DEF RequestInv
<1>2. Data(up) = Size(ctl.request) /\ Data(up) \in Nat /\ Len(up) \in {0, 1, 2}
  BY <1>1, PendingFields, Fields, IdleFields
<1>3. Data(up) + (2 * Overhead) <= RecvSize
  BY <1>2 DEF FitsRead
<1>4. Len(up) * Overhead \in Nat /\ Len(up) * Overhead <= 2 * Overhead /\ 2 * Overhead \in Nat
  BY <1>2, Constants, AtMostTwice
<1>5. Wire(up) = Data(up) + (Len(up) * Overhead)
  BY DEF Wire
<1> QED
  BY <1>1, <1>2, <1>3, <1>4, <1>5, Constants

LEMMA SumBefore == \A d, i \in Int : d + (i - 1) = d + i - 1
OBVIOUS

LEMMA ShiftedSum ==
  ASSUME NEW c \in Int, NEW i \in Int, NEW k \in Int
  PROVE  (c + k) + (i - 1) = c + (i + k) - 1
OBVIOUS

\* Frames are taken from the front, and counted.
LEMMA UpStaysInStep ==
  ASSUME TypeInv, UpInv, ctl.secure, NEW u \in Seq(UpFrame), Len(u) <= Len(up), NEW received,
         received = (acc.received + (Len(up) - Len(u))) % Frames,
         \A i \in DOMAIN u : u[i].number = up[i + (Len(up) - Len(u))].number
  PROVE  /\ \A i \in DOMAIN u : u[i].number \in {(received + i - 1) % Frames, Frames}
         /\ ctl.sent < Frames => received + Len(u) = ctl.sent
<1>1. PICK k \in Nat, m \in Nat, n \in Nat : k = Len(up) - Len(u) /\ m = Len(u) /\ n = Len(up) /\ n = k + m
  <2>1. Len(up) \in Nat /\ Len(u) \in Nat /\ Len(u) <= Len(up)
    BY Fields
  <2>2. Len(up) - Len(u) \in Nat /\ Len(up) = (Len(up) - Len(u)) + Len(u)
    BY <2>1
  <2> QED
    BY <2>1, <2>2
<1>2. acc.received \in 0..(Frames - 1) /\ ctl.sent \in 0..Frames /\ Frames \in Nat \ {0}
  BY Fields, Constants
<1>3. DOMAIN u = 1..m /\ DOMAIN up = 1..n
  BY <1>1 DEF TypeInv
<1>4. ASSUME NEW i \in DOMAIN u
      PROVE  u[i].number \in {(received + i - 1) % Frames, Frames}
  <2>1. i \in Nat /\ i + k \in DOMAIN up
    BY <1>1, <1>3
  <2>2. u[i].number = up[i + k].number
    BY <1>1
  <2>3. up[i + k].number \in {(acc.received + (i + k) - 1) % Frames, Frames}
    BY <2>1 DEF UpInv
  <2>4. (received + i - 1) % Frames = (acc.received + (i + k) - 1) % Frames
    <3>1. PICK a \in Int, b \in Int : a = acc.received + k /\ b = i - 1
      BY <1>1, <1>2, <2>1
    <3>2. received = a % Frames
      BY <1>1, <3>1
    <3>3. ((a % Frames) + b) % Frames = (a + b) % Frames
      BY <1>2, RemainderOfSum
    <3>4. received \in Int
      <4>1. a % Frames \in 0..(Frames - 1)
        BY <1>2, Remainder
      <4> QED
        BY <1>2, <3>2, <4>1
    <3>5. received + b = received + i - 1 /\ a + b = acc.received + (i + k) - 1
      <4>1. PICK c \in Int, d \in Int : c = acc.received /\ d = received
        BY <1>2, <3>4
      <4>2. a = c + k /\ b = i - 1 /\ i \in Int /\ k \in Int
        BY <2>1, <3>1, <4>1
      <4>3. d + (i - 1) = d + i - 1
        BY <4>2, SumBefore, Zenon
      <4>4. (c + k) + (i - 1) = c + (i + k) - 1
        <5>1. c \in Int /\ i \in Int /\ k \in Int
          BY <4>2
        <5> QED
          BY <5>1, ShiftedSum
      <4>5. d + b = d + (i - 1) /\ a + b = (c + k) + (i - 1)
        BY <4>2, Zenon
      <4>6. d + b = d + i - 1 /\ a + b = c + (i + k) - 1
        BY <4>3, <4>4, <4>5, Zenon
      <4> QED
        BY <4>1, <4>6
    <3> QED
      BY <3>2, <3>3, <3>5
  <2> QED
    BY <2>2, <2>3, <2>4
<1>5. ASSUME ctl.sent < Frames
      PROVE  received + Len(u) = ctl.sent
  <2>1. acc.received + (k + m) = ctl.sent
    BY <1>1, <1>5 DEF UpInv
  <2>2. PICK a \in 0..(Frames - 1), last \in Nat : a = acc.received /\ last = ctl.sent
    BY <1>2
  <2>3. a + (k + m) = last /\ last < Frames
    BY <1>5, <2>1, <2>2
  <2>4. (a + k) % Frames = a + k /\ (a + k) + m = last
    <3>1. a + k \in 0..(Frames - 1) /\ (a + k) + m = last
      BY <1>2, <2>3
    <3>2. (a + k) % Frames = a + k
      BY <1>2, <3>1, SmallRemainder
    <3> QED
      BY <3>1, <3>2
  <2> QED
    BY <1>1, <2>2, <2>4
<1> QED
  BY <1>4, <1>5

LEMMA ReadsStep ==
  ASSUME Inv, Pending, req.pc # "handle", NEW limit \in Nat \ {0}, Reads(limit),
         req.pc = "body" => limit = Missing
  PROVE  Inv'
<1>1. /\ TypeInv /\ RequestInv /\ DownInv /\ NumberInv /\ UpInv /\ WholeInv /\ KeysInv
      /\ Bookkeeping /\ skipped \in BOOLEAN
  BY InvFields
<1>2. PICK c \in Recv(limit) :
        /\ IF c.late THEN Fault ELSE UNCHANGED faults
        /\ \/ c.n = -1 /\ Ends
           \/ /\ c.n # -1
              /\ acc' = c.acc
              /\ up' = c.up
              /\ req' = [pc |-> NextPc(req.got + c.n), got |-> req.got + c.n, late |-> req.late \/ c.late]
              /\ UNCHANGED <<keys, down, ctl, skipped>>
        /\ UNCHANGED <<work, subscribed, paired>>
  BY DEF Reads
<1>3. Bookkeeping'
  <2>1. faults' \in 0..MaxFaults
    BY <1>2, FaultType
  <2> QED
    BY <1>1, <1>2, <2>1 DEF Bookkeeping
<1>4. CASE Ends
  BY <1>1, <1>3, <1>4, EndsStep
<1>5. CASE ~Ends
  <2>1. /\ c.n # -1 /\ acc' = c.acc /\ up' = c.up
        /\ req' = [pc |-> NextPc(req.got + c.n), got |-> req.got + c.n, late |-> req.late \/ c.late]
        /\ UNCHANGED <<keys, down, ctl, skipped>>
    BY <1>2, <1>5
  <2>2. Received(c) /\ (~c.late => TookAll(c, limit))
    <3>1. ~acc.secure => acc.buffer = 0 /\ Len(up) <= 1
      BY <1>1 DEF RequestInv
    <3> QED
      BY <1>1, <2>1, <3>1, Read
  <2>3. /\ acc.open /\ ctl.request # NoRequest /\ ~Answer /\ (acc.secure <=> ctl.secure)
        /\ req.got + Data(up) + acc.buffer = Size(ctl.request) /\ Size(ctl.request) \in Nat
    BY <1>1, PendingFields
  <2>4. /\ c.n \in Nat \ {0} /\ c.late \in BOOLEAN /\ acc' \in Context
        /\ acc'.open = acc.open /\ acc'.secure = acc.secure /\ acc'.sent = acc.sent
        /\ up' \in Seq(UpFrame) /\ Len(up') <= Len(up)
        /\ c.n + Data(up') + acc'.buffer = Data(up) + acc.buffer
        /\ ~acc.secure => acc' = acc
    BY <2>1, <2>2 DEF Received
  <2>5. /\ Data(up) \in Nat /\ Len(up) \in {0, 1, 2} /\ (Data(up) = 0 <=> up = <<>>)
        /\ acc.buffer \in Nat /\ req.got \in Nat /\ req.late \in BOOLEAN
        /\ req.pc \in {"idle", "header", "body", "handle"}
    BY <1>1, Fields
  <2>6. Len(up') \in Nat /\ Len(up') <= 2 /\ Data(up') \in Nat /\ acc'.buffer \in Nat
    <3>4. Len(up') \in Nat /\ Len(up') <= Len(up)
      BY <2>4
    <3>5. PICK n \in Nat, m \in {0, 1, 2} : n = Len(up') /\ m = Len(up) /\ n <= m
      BY <2>5, <3>4
    <3>1. Len(up') \in Nat /\ Len(up') <= 2
      BY <3>5
    <3>2. Data(up') \in Nat
      BY <2>4, <3>1, DataIsPositive
    <3>3. acc'.buffer \in Nat
      BY <2>4, Constants DEF Context
    <3> QED
      BY <3>1, <3>2, <3>3
  <2>7. /\ req'.pc \in {"header", "body", "handle"} /\ (req'.pc = "handle" => req.pc = "body")
        /\ req'.got = req.got + c.n /\ req'.late = (req.late \/ c.late) /\ req' \in Reading
    <3>1. NextPc(req.got + c.n) \in {"header", "body", "handle"}
      BY <2>5 DEF NextPc
    <3>2. NextPc(req.got + c.n) = "handle" => req.pc = "body"
      BY DEF NextPc
    <3>3. req.got + c.n \in Nat /\ (req.late \/ c.late) \in BOOLEAN
      BY <2>4, <2>5
    <3> QED
      BY <2>1, <3>1, <3>2, <3>3 DEF Reading
  <2>8. Answer' = Answer /\ Pending' = Pending /\ FitsRead' = FitsRead
    BY <2>1, <2>4 DEF Answer, Pending, FitsRead
  <2>9. TypeInv'
    BY <1>1, <1>3, <2>1, <2>4, <2>6, <2>7 DEF TypeInv, Bookkeeping
  <2>10. RequestInv'
    <3>1. req'.got + Data(up') + acc'.buffer = Size(ctl'.request)
      <4>1. PICK got \in Nat, x \in Nat, b \in Nat, n \in Nat, y \in Nat, d \in Nat :
              /\ got = req.got /\ x = Data(up) /\ b = acc.buffer
              /\ n = c.n /\ y = Data(up') /\ d = acc'.buffer
        BY <2>4, <2>5, <2>6
      <4>2. n + y + d = x + b /\ got + x + b = Size(ctl.request)
        BY <2>3, <2>4, <4>1
      <4>3. (got + n) + y + d = Size(ctl.request)
        BY <2>3, <4>2
      <4> QED
        BY <2>1, <2>7, <4>1, <4>3
    <3>2. ~acc'.secure => acc'.buffer = 0 /\ Len(up') <= 1
      <4>1. ~acc.secure => acc.buffer = 0 /\ Len(up) <= 1
        BY <1>1 DEF RequestInv
      <4> QED
        BY <2>4, <2>5, <2>6, <4>1
    <3>3. req'.pc # "idle"
      BY <2>7
    <3> QED
      BY <1>1, <2>1, <2>3, <2>4, <2>8, <3>1, <3>2, <3>3 DEF RequestInv
  <2>11. DownInv'
    BY <1>1, <2>1, <2>4, <2>8 DEF DownInv
  <2>12. NumberInv'
    BY <1>1, <2>1, <2>3, <2>4 DEF NumberInv, Base
  <2>13. UpInv'
    <3> SUFFICES ASSUME ctl.secure
                 PROVE  /\ \A i \in DOMAIN up' : up'[i].number \in {(acc'.received + i - 1) % Frames, Frames}
                        /\ ctl.sent < Frames => acc'.received + Len(up') = ctl.sent
      BY <2>1 DEF UpInv
    <3>1. /\ acc'.received = (acc.received + (Len(up) - Len(up'))) % Frames
          /\ \A i \in DOMAIN up' : up'[i].number = up[i + (Len(up) - Len(up'))].number
      BY <2>1, <2>2, <2>3 DEF Received
    <3> QED
      BY <1>1, <2>4, <3>1, UpStaysInStep
  <2>14. WholeInv'
    <3> SUFFICES ASSUME ~req'.late, FitsRead
                 PROVE  /\ acc.secure => up' = <<>>
                        /\ req'.pc = "handle" => up' = <<>> /\ acc'.buffer = 0
      BY <2>4, <2>8 DEF WholeInv
    <3>1. ~req.late /\ ~c.late
      BY <2>7
    <3>2. TookAll(c, limit)
      BY <2>2, <3>1
    <3>3. acc.secure /\ req.pc # "idle" => up = <<>>
      BY <1>1, <3>1 DEF WholeInv
    <3>4. ASSUME acc.secure
          PROVE  up' = <<>>
      <4>1. CASE req.pc = "idle"
        BY <1>1, <2>1, <3>2, <3>4, <4>1, FitsOneRead DEF TookAll
      <4>2. CASE req.pc # "idle"
        <5>1. Len(up) = 0
          BY <3>3, <3>4, <4>2
        <5>2. Len(up') = 0 /\ up' \in Seq(UpFrame)
          BY <2>4, <2>6, <5>1
        <5> QED
          BY <5>2
      <4> QED
        BY <4>1, <4>2
    <3>5. ASSUME req'.pc = "handle"
          PROVE  up' = <<>> /\ acc'.buffer = 0
      <4>1. req.pc = "body" /\ limit = Missing
        BY <2>7, <3>5
      <4>2. limit = Data(up) + acc.buffer
        BY <2>3, <2>5, <4>1 DEF Missing
      <4>3. acc.secure => up = <<>>
        BY <3>3, <4>1
      <4> QED
        BY <2>1, <3>2, <4>2, <4>3 DEF TookAll
    <3> QED
      BY <3>4, <3>5
  <2>15. KeysInv'
    BY <1>1, <2>1, <2>8 DEF KeysInv, Live
  <2> QED
    BY <2>9, <2>10, <2>11, <2>12, <2>13, <2>14, <2>15 DEF Inv
<1> QED
  BY <1>4, <1>5

LEMMA ReadHeaderStep ==
  ASSUME Inv, ReadHeader
  PROVE  Inv'
<1>1. req.pc \in {"idle", "header"} /\ (up # <<>> \/ req.pc = "header") /\ Reads(Block)
  BY DEF ReadHeader
<1>2. Pending
  BY <1>1, InvFields, NotPending, IdleFields
<1>3. req.pc # "handle" /\ req.pc # "body" /\ Block \in Nat \ {0}
  BY <1>1, Constants
<1> QED
  BY <1>1, <1>2, <1>3, ReadsStep

\* The reading is over, and nothing else changes.
LEMMA HandleNext ==
  ASSUME Inv, Pending, req' = [req EXCEPT !.pc = "handle"] \/ req' = [req EXCEPT !.pc = "handle", !.late = TRUE],
         req'.late \/ (up = <<>> /\ acc.buffer = 0),
         faults' \in 0..MaxFaults,
         UNCHANGED <<acc, keys, up, down, ctl, work, subscribed, paired, skipped>>
  PROVE  Inv'
<1>1. TypeInv /\ RequestInv /\ DownInv /\ NumberInv /\ UpInv /\ WholeInv /\ KeysInv
  BY InvFields
<1>2. req \in Reading
  BY <1>1 DEF TypeInv
<1>3. req'.pc = "handle" /\ req'.got = req.got /\ req' \in Reading
  BY <1>2 DEF Reading
<1>4. Answer' = Answer /\ Pending' = Pending /\ FitsRead' = FitsRead
  BY DEF Answer, Pending, FitsRead
<1>5. TypeInv'
  BY <1>1, <1>3 DEF TypeInv
<1>6. RequestInv'
  <2>1. req'.pc # "idle" /\ Data(up') = Data(up)
    BY <1>3
  <2> QED
    BY <1>1, <1>3, <1>4, <2>1 DEF RequestInv
<1>7. DownInv'
  BY <1>1, <1>4 DEF DownInv
<1>8. NumberInv' /\ UpInv'
  BY <1>1 DEF NumberInv, Base, UpInv
<1>9. WholeInv'
  BY <1>3 DEF WholeInv
<1>10. KeysInv'
  BY <1>1, <1>4 DEF KeysInv, Live
<1> QED
  BY <1>5, <1>6, <1>7, <1>8, <1>9, <1>10 DEF Inv

LEMMA ReadBodyStep ==
  ASSUME Inv, ReadBody
  PROVE  Inv'
<1>1. req.pc = "body" /\ TypeInv /\ RequestInv /\ DownInv
  BY InvFields DEF ReadBody
<1>2. Pending
  BY <1>1, NotPending, IdleFields
<1>3. /\ req.got + Data(up) + acc.buffer = Size(ctl.request) /\ Size(ctl.request) \in Nat
      /\ req.got \in Nat /\ Data(up) \in Nat /\ acc.buffer \in Nat /\ (Data(up) = 0 <=> up = <<>>)
  BY <1>1, <1>2, PendingFields, Fields
<1>4. Missing = Data(up) + acc.buffer
  BY <1>3 DEF Missing
<1>5. CASE Missing = 0
  <2>1. up = <<>> /\ acc.buffer = 0
    BY <1>3, <1>4, <1>5
  <2>2. /\ req' = [req EXCEPT !.pc = "handle"]
        /\ UNCHANGED <<acc, keys, up, down, ctl, work, subscribed, paired, skipped, faults>>
    BY <1>5 DEF ReadBody
  <2>3. faults' \in 0..MaxFaults
    BY <2>2, FaultType
  <2> QED
    BY <1>2, <2>1, <2>2, <2>3, HandleNext
<1>6. CASE Missing # 0
  <2>1. Reads(Missing)
    BY <1>6 DEF ReadBody
  <2>2. Missing \in Nat \ {0} /\ req.pc # "handle"
    BY <1>1, <1>3, <1>4, <1>6
  <2> QED
    BY <1>2, <2>1, <2>2, ReadsStep
<1> QED
  BY <1>5, <1>6

LEMMA BodyTimeoutStep ==
  ASSUME Inv, BodyTimeout
  PROVE  Inv'
<1>1. req.pc = "body" /\ RequestInv /\ req \in Reading
  BY InvFields DEF BodyTimeout, TypeInv
<1>2. Pending
  BY <1>1, NotPending, IdleFields
<1>3. /\ req' = [req EXCEPT !.pc = "handle", !.late = TRUE]
      /\ UNCHANGED <<acc, keys, up, down, ctl, work, subscribed, paired, skipped>>
  BY DEF BodyTimeout
<1>4. req'.late
  BY <1>1, <1>3 DEF Reading
<1>5. faults' \in 0..MaxFaults
  BY FaultType DEF BodyTimeout
<1> QED
  BY <1>2, <1>3, <1>4, <1>5, HandleNext
LEMMA AtHandler ==
  ASSUME Inv, req.pc = "handle", Whole
  PROVE  /\ TypeInv /\ RequestInv /\ DownInv /\ NumberInv /\ UpInv /\ WholeInv /\ KeysInv
         /\ Pending /\ ~Answer /\ acc.open /\ (acc.secure <=> ctl.secure)
         /\ ctl.request \in Requests /\ up = <<>> /\ acc.buffer = 0
<1>1. /\ TypeInv /\ RequestInv /\ DownInv /\ NumberInv /\ UpInv /\ WholeInv /\ KeysInv
  BY InvFields
<1>2. Pending
  BY <1>1, NotPending, IdleFields
<1>3. PICK got \in Nat, x \in Nat, b \in Nat : got = req.got /\ x = Data(up) /\ b = acc.buffer
  BY <1>1, Fields
<1>4. got + x + b = Size(ctl.request) /\ got = Size(ctl.request)
  BY <1>1, <1>2, <1>3, PendingFields DEF Whole
<1>5. x = 0 /\ b = 0
  BY <1>4
<1>6. up = <<>> /\ acc.buffer = 0
  BY <1>1, <1>3, <1>5, Fields
<1> QED
  BY <1>1, <1>2, <1>6, PendingFields

\* A plain response is the first thing that is sent.
LEMMA NothingSent ==
  ASSUME TypeInv, DownInv, ~Answer, ~acc.secure
  PROVE  down = <<>>
<1>1. \A i \in DOMAIN down : FALSE
  <2> TAKE i \in DOMAIN down
  <2>1. down[i].what \in {"part", "end", "event"} /\ down[i].what # "end"
    BY Fields DEF Answer
  <2>2. ~down[i].secure
    BY DEF DownInv
  <2> QED
    BY <2>1, <2>2 DEF DownInv
<1>2. down # <<>> => 1 \in DOMAIN down
  BY DEF TypeInv
<1> QED
  BY <1>1, <1>2

LEMMA PlainStep ==
  ASSUME Inv, req.pc = "handle", Whole, ctl.request.kind \in {"M1", "M3", "M5", "verify"},
         NEW content \in Seq(Nat), RespondPlain(content), req' = Idle,
         UNCHANGED <<up, ctl, work, skipped, faults>>,
         keys' \in KeyFields, subscribed' \in BOOLEAN, paired' \in BOOLEAN,
         acc' = IF ctl.request.kind = "verify" THEN [acc EXCEPT !.secure = TRUE] ELSE acc,
         ctl.request.kind = "M1" =>
           \E id \in SrpIds, n \in KeySizes : content = M2(id, n) /\ keys'.srp = id /\ keys'.pub = id,
         ctl.request.kind = "M3" => keys'.srp # 0 /\ keys'.srp = ctl.srp /\ keys'.computed,
         ctl.request.kind = "verify" => keys' = keys
  PROVE  Inv'
<1>1. /\ TypeInv /\ RequestInv /\ DownInv /\ NumberInv /\ UpInv /\ WholeInv /\ KeysInv
      /\ Pending /\ ~Answer /\ acc.open /\ (acc.secure <=> ctl.secure)
      /\ ctl.request \in Requests /\ up = <<>> /\ acc.buffer = 0
  BY AtHandler
<1>2. ctl.request # NoRequest
  BY <1>1 DEF Pending
<1>3. ~ctl.secure /\ ~acc.secure
  BY <1>1, <1>2 DEF RequestInv
<1>4. down = <<>>
  BY <1>1, <1>3, NothingSent
<1> DEFINE f == Frame(FALSE, 0, "end", content)
<1>5. f.secure = FALSE /\ f.what = "end" /\ f.content = content /\ f \in DownFrame
  <2>1. 0 \in 0..(Frames - 1)
    BY Constants
  <2> QED
    BY <2>1 DEF Frame, DownFrame
<1>6. down' = <<f>>
  BY <1>4 DEF RespondPlain
<1> HIDE DEF f
<1>7. down' \in Seq(DownFrame) /\ Len(down') = 1 /\ DOMAIN down' = {1} /\ down'[1] = f /\ down' # <<>>
  BY <1>5, <1>6
<1>8. Answer' /\ ~Pending'
  BY <1>5, <1>7 DEF Answer, Pending
<1>9. /\ acc' \in Context /\ acc'.open = acc.open /\ acc'.sent = acc.sent /\ acc'.received = acc.received
      /\ acc'.buffer = acc.buffer /\ (acc'.secure <=> ctl.request.kind = "verify")
  <2>1. acc \in Context
    BY <1>1 DEF TypeInv
  <2>2. CASE ctl.request.kind = "verify"
    BY <2>1, <2>2 DEF Context
  <2>3. CASE ctl.request.kind # "verify"
    BY <1>3, <2>1, <2>3
  <2> QED
    BY <2>2, <2>3
<1>10. TypeInv'
  BY <1>1, <1>7, <1>9, InitialValues DEF TypeInv
<1>11. RequestInv'
  BY <1>1, <1>2, <1>3, <1>5, <1>7, <1>8, <1>9 DEF RequestInv
<1>12. DownInv'
  BY <1>2, <1>3, <1>5, <1>7, <1>8 DEF DownInv
<1>13. NumberInv'
  <2>1. /\ ctl.received = 0 /\ ctl.sent = 0 /\ acc.received = 0
        /\ ~skipped => acc.sent = 0
    BY <1>1, <1>3 DEF NumberInv
  <2>2. Base' = -1 /\ (-1 + 1) % Frames = 0
    <3>1. 0 \in 0..(Frames - 1) /\ Frames \in Nat \ {0}
      BY Constants
    <3>2. 0 % Frames = 0
      BY <3>1, SmallRemainder
    <3> QED
      BY <1>3, <3>2 DEF Base
  <2> QED
    BY <1>3, <1>5, <1>7, <1>9, <2>1, <2>2 DEF NumberInv
<1>14. UpInv' /\ WholeInv'
  BY <1>3, <1>8 DEF UpInv, WholeInv
<1>15. KeysInv'
  <2>1. /\ ctl'.request.kind = "M3" => ctl'.step = 2
        /\ ctl'.request.kind = "M5" => ctl'.step = 4
    BY <1>1 DEF KeysInv
  <2>2. ctl'.request.kind = "M1" =>
          \E id \in SrpIds, n \in KeySizes : down'[1].content = M2(id, n) /\ keys'.srp = id /\ keys'.pub = id
    BY <1>5, <1>7
  <2>3. ctl'.request.kind = "M3" => Live' /\ keys'.computed
    BY DEF Live
  <2>4. ctl'.request.kind = "verify" =>
          /\ ctl'.step = 2 => Live' /\ keys'.pub = keys'.srp
          /\ ctl'.step = 4 => Live' /\ keys'.computed
    BY <1>1 DEF KeysInv, Live
  <2> QED
    BY <1>8, <2>1, <2>2, <2>3, <2>4 DEF KeysInv
<1> QED
  BY <1>10, <1>11, <1>12, <1>13, <1>14, <1>15 DEF Inv

LEMMA MessageTypes ==
  ASSUME NEW id \in Nat, NEW n \in Nat
  PROVE  /\ M2(id, n) \in Seq(Nat)
         /\ Serialize(Add(Add(<<>>, State, <<4>>), Proof, <<id>>)) \in Seq(Nat)
         /\ Serialize(Add(Add(<<>>, State, <<6>>), EncryptedData, <<id>>)) \in Seq(Nat)
<1>1. /\ State \in Nat /\ PublicKey \in Nat /\ Proof \in Nat /\ Salt \in Nat /\ EncryptedData \in Nat
      /\ <<2>> \in Seq(Nat) /\ <<4>> \in Seq(Nat) /\ <<6>> \in Seq(Nat) /\ <<id>> \in Seq(Nat)
  BY ByteType DEF State, PublicKey, Proof, Salt, EncryptedData
<1>2. Public(id, n) \in Seq(Nat)
  BY PublicType
<1>3. \A v \in Seq(Nat) : Add(<<>>, State, v) \in Seq(Tlv)
  BY <1>1, EmptyType, AddType
<1>4. \A l \in Seq(Tlv) : \A t \in Nat : \A v \in Seq(Nat) : Add(l, t, v) \in Seq(Tlv)
  BY AddType
<1>5. \A l \in Seq(Tlv) : Serialize(l) \in Seq(Nat)
  BY SerializeType
<1>6. M2(id, n) \in Seq(Nat)
  <2>1. Add(Add(Add(<<>>, State, <<2>>), PublicKey, Public(id, n)), Salt, <<id>>) \in Seq(Tlv)
    BY <1>1, <1>2, <1>3, <1>4
  <2> QED
    BY <1>5, <2>1 DEF M2
<1>7. Add(Add(<<>>, State, <<4>>), Proof, <<id>>) \in Seq(Tlv)
  BY <1>1, <1>3, <1>4
<1>8. Add(Add(<<>>, State, <<6>>), EncryptedData, <<id>>) \in Seq(Tlv)
  BY <1>1, <1>3, <1>4
<1> QED
  BY <1>5, <1>6, <1>7, <1>8

LEMMA PlainHandlersStep ==
  ASSUME Inv, HandleM1 \/ HandleM3 \/ HandleM5 \/ HandleVerify
  PROVE  Inv'
<1>1. /\ TypeInv /\ KeysInv /\ keys \in KeyFields /\ subscribed \in BOOLEAN /\ paired \in BOOLEAN
      /\ TRUE \in BOOLEAN
  BY InvFields DEF Bookkeeping
<1>2. keys.pub \in SrpIds \cup {0} /\ keys.srp \in SrpIds \cup {0} /\ keys.computed \in BOOLEAN
  BY <1>1 DEF KeyFields
<1>3. keys.srp \in Nat /\ 0 \in SrpIds \cup {0}
  <2>1. \A x \in SrpIds \cup {0} : x \in Nat
    BY Constants
  <2> QED
    BY <1>2, <2>1
<1>4. CASE HandleM1
  <2>1. /\ req.pc = "handle" /\ Whole /\ ctl.request.kind = "M1" /\ req' = Idle
        /\ UNCHANGED <<up, ctl, work, skipped, faults>> /\ UNCHANGED <<acc, subscribed, paired>>
    BY <1>4 DEF HandleM1, Handles
  <2>2. PICK id \in GeneratedKeys, n \in KeySizes :
          /\ keys' = [pub |-> id, srp |-> id, computed |-> FALSE]
          /\ RespondPlain(M2(id, n))
    BY <1>4 DEF HandleM1, M2
  <2>3. id \in SrpIds /\ id \in Nat /\ n \in Nat
    BY Constants DEF GeneratedKeys
  <2>4. M2(id, n) \in Seq(Nat)
    BY <2>3, MessageTypes
  <2>5. keys' \in KeyFields /\ keys'.srp = id /\ keys'.pub = id
    BY <2>2, <2>3 DEF KeyFields
  <2> QED
    BY <1>1, <2>1, <2>2, <2>3, <2>4, <2>5, PlainStep
<1>5. CASE HandleM3
  <2>1. /\ req.pc = "handle" /\ Whole /\ ctl.request.kind = "M3" /\ req' = Idle
        /\ UNCHANGED <<up, ctl, work, skipped, faults>> /\ UNCHANGED <<acc, subscribed, paired>>
        /\ keys' = AfterM3 /\ RespondPlain(Serialize(Add(Add(<<>>, State, <<4>>), Proof, <<keys.srp>>)))
    BY <1>5 DEF HandleM3, Handles
  <2>2. Serialize(Add(Add(<<>>, State, <<4>>), Proof, <<keys.srp>>)) \in Seq(Nat)
    BY <1>3, MessageTypes
  <2>3. keys' \in KeyFields /\ keys'.srp = keys.srp /\ keys'.computed
    BY <1>1, <1>3, <2>1 DEF AfterM3, KeyFields
  <2>4. keys.srp # 0 /\ keys.srp = ctl.srp
    <3>1. ~Answer
      BY <2>1, AtHandler
    <3> QED
      BY <1>1, <2>1, <3>1 DEF KeysInv, Live
  <2> QED
    BY <1>1, <2>1, <2>2, <2>3, <2>4, PlainStep
<1>6. CASE HandleM5
  <2>1. /\ req.pc = "handle" /\ Whole /\ ctl.request.kind = "M5" /\ req' = Idle
        /\ UNCHANGED <<up, ctl, work, skipped, faults>> /\ UNCHANGED <<acc, subscribed>>
        /\ keys' = AfterM5 /\ paired' = TRUE
        /\ RespondPlain(Serialize(Add(Add(<<>>, State, <<6>>), EncryptedData, <<keys.srp>>)))
    BY <1>6 DEF HandleM5, Handles
  <2>2. Serialize(Add(Add(<<>>, State, <<6>>), EncryptedData, <<keys.srp>>)) \in Seq(Nat)
    BY <1>3, MessageTypes
  <2>3. keys' \in KeyFields
    BY <2>1, InitialValues DEF AfterM5
  <2> QED
    BY <1>1, <2>1, <2>2, <2>3, PlainStep
<1>7. CASE HandleVerify
  <2>1. /\ req.pc = "handle" /\ Whole /\ ctl.request.kind = "verify" /\ req' = Idle
        /\ UNCHANGED <<up, ctl, work, skipped, faults>> /\ UNCHANGED <<keys, subscribed, paired>>
        /\ acc' = [acc EXCEPT !.secure = TRUE] /\ RespondPlain(<<>>)
    BY <1>7 DEF HandleVerify, Handles
  <2> QED
    BY <1>1, <2>1, EmptyType, PlainStep
<1> QED
  BY <1>4, <1>5, <1>6, <1>7
\* The frames e that a call of send makes, of which the first has the given number.
Numbers(e, p, first, last) ==
  /\ e \in Seq(DownFrame) /\ Len(e) = p
  /\ \A i \in 1..p :
       /\ e[i].secure = TRUE
       /\ e[i].number = (first + i - 1) % Frames
       /\ e[i].what = IF i = p THEN last ELSE "part"

LEMMA EncryptedFrames ==
  ASSUME NEW first \in 0..(Frames - 1), NEW size \in Nat, NEW last \in {"part", "end", "event"}
  PROVE  /\ Pieces(size) \in Nat /\ (Pieces(size) = 0 <=> size = 0)
         /\ Numbers(Encrypted(first, size, last), Pieces(size), first, last)
         /\ After(first, size) = (first + Pieces(size)) % Frames
         /\ After(first, size) \in 0..(Frames - 1)
<1> DEFINE p == Pieces(size)
           e == Encrypted(first, size, last)
<1>1. p \in Nat /\ (p = 0 <=> size = 0)
  <2>1. PICK m \in Nat \ {0} : m = RecvSize - Overhead
    BY Constants
  <2>2. Pieces(size) = (size + m - 1) \div m
    <3>1. size + RecvSize - Overhead - 1 = size + m - 1
      BY <2>1, Constants
    <3> QED
      BY <2>1, <3>1 DEF Pieces
  <2> QED
    BY <2>2, RoundedUp
<1> HIDE DEF p
<1>2. \A x \in Int : x % Frames \in 0..(Frames - 1)
  BY Remainder, Constants
<1>3. e = [i \in 1..p |-> Frame(TRUE, (first + i - 1) % Frames, IF i = p THEN last ELSE "part", <<>>)]
  BY DEF Encrypted, p
<1> HIDE DEF e
<1>4. ASSUME NEW i \in 1..p
      PROVE  /\ e[i] \in DownFrame /\ e[i].secure = TRUE /\ e[i].number = (first + i - 1) % Frames
             /\ e[i].what = IF i = p THEN last ELSE "part"
  <2> DEFINE number == (first + i - 1) % Frames
             what == IF i = p THEN last ELSE "part"
  <2>1. number \in 0..(Frames - 1)
    <3>1. first + i - 1 \in Int
      BY <1>1, Constants
    <3> QED
      BY <1>2, <3>1
  <2>2. what \in {"part", "end", "event"}
    OBVIOUS
  <2>3. e[i] = [secure |-> TRUE, number |-> number, what |-> what, content |-> <<>>]
    BY <1>3 DEF Frame
  <2> HIDE DEF number, what
  <2>4. e[i] \in DownFrame /\ e[i].secure = TRUE /\ e[i].number = number /\ e[i].what = what
    BY <2>1, <2>2, <2>3, EmptyType DEF DownFrame
  <2> QED
    BY <2>4 DEF number, what
<1>5. e \in Seq(DownFrame) /\ Len(e) = p
  <2>1. DOMAIN e = 1..p /\ e = [i \in 1..p |-> e[i]]
    BY <1>3
  <2>2. \A i \in 1..p : e[i] \in DownFrame
    BY <1>4
  <2> QED
    BY <1>1, <2>1, <2>2
<1>6. Numbers(e, p, first, last)
  BY <1>4, <1>5 DEF Numbers
<1>7. After(first, size) = (first + p) % Frames
  BY DEF After, p
<1>8. first + p \in Int
  BY <1>1, Constants
<1> QED
  BY <1>1, <1>2, <1>6, <1>7, <1>8 DEF e, p

LEMMA FramesAssociative ==
  \A u, v, w \in Seq(DownFrame) : (u \o v) \o w = u \o (v \o w)
BY SMTT(60), ConcatAssociative

LEMMA JoinedFrames ==
  ASSUME NEW d, NEW e, NEW p \in Nat, NEW q \in Nat, NEW first \in 0..(Frames - 1), NEW last, p # 0,
         Numbers(d, p, first, IF q = 0 THEN last ELSE "part"),
         Numbers(e, q, (first + p) % Frames, last)
  PROVE  Numbers(d \o e, p + q, first, last)
<1> DEFINE j == d \o e
<1>1. /\ d \in Seq(DownFrame) /\ Len(d) = p /\ e \in Seq(DownFrame) /\ Len(e) = q
  BY DEF Numbers
<1>2. /\ j \in Seq(DownFrame) /\ Len(j) = p + q
      /\ \A i \in 1..(p + q) : j[i] = IF i <= p THEN d[i] ELSE e[i - p]
  BY <1>1
<1> HIDE DEF j
<1>3. ASSUME NEW i \in 1..(p + q)
      PROVE  /\ j[i].secure = TRUE /\ j[i].number = (first + i - 1) % Frames
             /\ j[i].what = IF i = p + q THEN last ELSE "part"
  <2>1. CASE i <= p
    <3>1. i \in 1..p /\ j[i] = d[i] /\ (i = p + q => q = 0 /\ i = p) /\ (i = p /\ q = 0 => i = p + q)
      BY <1>2, <2>1
    <3>2. /\ d[i].secure = TRUE /\ d[i].number = (first + i - 1) % Frames
          /\ d[i].what = IF i = p THEN (IF q = 0 THEN last ELSE "part") ELSE "part"
      BY <3>1 DEF Numbers
    <3> QED
      BY <3>1, <3>2
  <2>2. CASE ~(i <= p)
    <3>1. PICK k \in 1..q : k = i - p /\ (k = q <=> i = p + q)
      BY <2>2
    <3>2. j[i] = e[k]
      BY <1>2, <2>2, <3>1
    <3>3. /\ e[k].secure = TRUE /\ e[k].number = (((first + p) % Frames) + k - 1) % Frames
          /\ e[k].what = IF k = q THEN last ELSE "part"
      BY DEF Numbers
    <3>4. (((first + p) % Frames) + k - 1) % Frames = (first + i - 1) % Frames
      <4>1. first + p \in Int /\ k - 1 \in Int /\ Frames \in Nat \ {0}
        BY Constants
      <4>2. (((first + p) % Frames) + (k - 1)) % Frames = ((first + p) + (k - 1)) % Frames
        BY <4>1, RemainderOfSum
      <4>3. (first + p) % Frames \in 0..(Frames - 1)
        BY <4>1, Remainder
      <4>4. PICK r \in Int : r = (first + p) % Frames
        BY <4>1, <4>3
      <4>5. r + (k - 1) = r + k - 1 /\ (first + p) + (k - 1) = first + i - 1
        BY <3>1, <4>1
      <4> QED
        BY <4>2, <4>4, <4>5
    <3> QED
      BY <3>1, <3>2, <3>3, <3>4
  <2> QED
    BY <2>1, <2>2
<1> QED
  BY <1>2, <1>3 DEF Numbers, j

\* A response is one sequence of frames, in one call of send or two.
LEMMA ResponseFrames ==
  ASSUME TypeInv, NEW n \in Nat, Respond(n)
  PROVE  \E p \in Nat \ {0} : \E e :
           /\ Numbers(e, p, acc.sent, "end")
           /\ down' = down \o e
           /\ acc' = [acc EXCEPT !.sent = (acc.sent + p) % Frames]
<1> DEFINE first == acc.sent
           number == After(first, HeaderSize)
           p == Pieces(HeaderSize)
           q == Pieces(n)
           d == Encrypted(first, HeaderSize, IF n = 0 THEN "end" ELSE "part")
           e == Encrypted(number, n, "end")
<1>1. first \in 0..(Frames - 1)
  BY Fields
<1>2. /\ p \in Nat /\ p # 0 /\ Numbers(d, p, first, IF n = 0 THEN "end" ELSE "part")
      /\ number = (first + p) % Frames /\ number \in 0..(Frames - 1)
  <2>1. (IF n = 0 THEN "end" ELSE "part") \in {"part", "end", "event"}
    OBVIOUS
  <2>2. HeaderSize \in Nat /\ HeaderSize # 0
    BY Constants
  <2> HIDE DEF first
  <2> QED
    BY <1>1, <2>1, <2>2, EncryptedFrames
<1> HIDE DEF number
<1>3. q \in Nat /\ (q = 0 <=> n = 0) /\ Numbers(e, q, number, "end") /\ After(number, n) = (number + q) % Frames
  BY <1>2, EncryptedFrames
<1>4. /\ down' = (down \o d) \o e
      /\ acc' = [acc EXCEPT !.sent = IF n = 0 THEN number ELSE After(number, n)]
  BY DEF Respond, number
<1> HIDE DEF p, q, d, e, first
<1>5. Numbers(d \o e, p + q, first, "end")
  <2>1. Numbers(d, p, first, IF q = 0 THEN "end" ELSE "part")
    BY <1>2, <1>3
  <2>2. Numbers(e, q, (first + p) % Frames, "end")
    BY <1>2, <1>3
  <2> QED
    BY <1>1, <1>2, <1>3, <2>1, <2>2, JoinedFrames
<1>6. down' = down \o (d \o e)
  <2>1. d \in Seq(DownFrame) /\ e \in Seq(DownFrame) /\ down \in Seq(DownFrame)
    BY <1>2, <1>3 DEF Numbers, TypeInv
  <2> QED
    BY <1>4, <2>1, FramesAssociative, Zenon
<1>7. (IF n = 0 THEN number ELSE After(number, n)) = (first + (p + q)) % Frames
  <2>1. CASE n = 0
    <3>1. first + (p + q) = first + p
      BY <1>1, <1>2, <1>3, <2>1, Constants
    <3> QED
      BY <1>2, <2>1, <3>1
  <2>2. CASE n # 0
    <3>1. first + p \in Int /\ q \in Int /\ Frames \in Nat \ {0}
      BY <1>1, <1>2, <1>3, Constants
    <3>2. (((first + p) % Frames) + q) % Frames = ((first + p) + q) % Frames
      BY <3>1, RemainderOfSum
    <3>3. (first + p) + q = first + (p + q)
      BY <1>1, <1>2, <1>3, Constants
    <3> QED
      BY <1>2, <1>3, <2>2, <3>2, <3>3
  <2> QED
    BY <2>1, <2>2
<1>8. p + q \in Nat \ {0}
  BY <1>2, <1>3
<1> QED
  BY <1>4, <1>5, <1>6, <1>7, <1>8 DEF first
LEMMA TwoJoined ==
  ASSUME NEW T, NEW d \in Seq(T), NEW e \in Seq(T), NEW l \in Nat, NEW p \in Nat, Len(d) = l, Len(e) = p
  PROVE  /\ d \o e \in Seq(T) /\ Len(d \o e) = l + p /\ DOMAIN (d \o e) = 1..(l + p)
         /\ \A i \in 1..l : (d \o e)[i] = d[i]
         /\ \A i \in 1..p : (d \o e)[l + i] = e[i]
<1>1. d \o e \in Seq(T) /\ Len(d \o e) = l + p
  OBVIOUS
<1>2. \A i \in 1..(l + p) : (d \o e)[i] = IF i <= l THEN d[i] ELSE e[i - l]
  OBVIOUS
<1>3. ASSUME NEW i \in 1..p PROVE (d \o e)[l + i] = e[i]
  <2>1. l + i \in 1..(l + p) /\ ~(l + i <= l) /\ (l + i) - l = i
    OBVIOUS
  <2> QED
    BY <1>2, <2>1
<1>4. ASSUME NEW i \in 1..l PROVE (d \o e)[i] = d[i]
  <2>1. i \in 1..(l + p) /\ i <= l
    OBVIOUS
  <2> QED
    BY <1>2, <2>1
<1> QED
  BY <1>1, <1>3, <1>4

LEMMA AppendedFrames ==
  ASSUME TypeInv, NumberInv, acc.secure, NEW p \in Nat \ {0}, NEW e, NEW last,
         Numbers(e, p, acc.sent, last), down' = down \o e,
         acc' = [acc EXCEPT !.sent = (acc.sent + p) % Frames], UNCHANGED <<ctl, skipped>>
  PROVE  /\ down' \in Seq(DownFrame) /\ Len(down') \in Nat /\ Len(down') = Len(down) + p
         /\ \A i \in DOMAIN down : i \in DOMAIN down' /\ down'[i] = down[i]
         /\ \A i \in DOMAIN down' :
              /\ i \in Nat /\ i <= Len(down')
              /\ i \notin DOMAIN down =>
                   /\ i > Len(down) /\ down'[i].secure = TRUE
                   /\ down'[i].what = IF i = Len(down') THEN last ELSE "part"
         /\ acc' \in Context /\ acc'.open = acc.open /\ acc'.secure = acc.secure
         /\ acc'.received = acc.received /\ acc'.buffer = acc.buffer
         /\ NumberInv'
<1>1. PICK l \in Nat : l = Len(down)
  BY Fields
<1>2. /\ e \in Seq(DownFrame) /\ Len(e) = p /\ down \in Seq(DownFrame) /\ acc \in Context
      /\ DOMAIN down = 1..l
  BY <1>1 DEF Numbers, TypeInv
<1>3. /\ down' \in Seq(DownFrame) /\ Len(down') = l + p /\ DOMAIN down' = 1..(l + p)
      /\ \A i \in 1..l : down'[i] = down[i]
      /\ \A i \in 1..p : down'[l + i] = e[i]
  <2>1. p \in Nat
    OBVIOUS
  <2>2. Len(down) = l
    BY <1>1
  <2>3. /\ down \o e \in Seq(DownFrame) /\ Len(down \o e) = l + p /\ DOMAIN (down \o e) = 1..(l + p)
        /\ \A i \in 1..l : (down \o e)[i] = down[i]
        /\ \A i \in 1..p : (down \o e)[l + i] = e[i]
    BY <1>2, <2>1, <2>2, TwoJoined
  <2> QED
    BY <2>3
<1>4. acc.sent \in 0..(Frames - 1) /\ Frames \in Nat \ {0} /\ ctl.received \in 0..Frames
  BY Fields, Constants
<1>5. /\ (acc.sent + p) % Frames \in 0..(Frames - 1)
  <2>1. acc.sent + p \in Int
    BY <1>4
  <2> QED
    BY <1>4, <2>1, Remainder
<1>6. /\ acc' \in Context /\ acc'.open = acc.open /\ acc'.secure = acc.secure
      /\ acc'.received = acc.received /\ acc'.buffer = acc.buffer
      /\ acc'.sent = (acc.sent + p) % Frames
  BY <1>2, <1>5 DEF Context
<1>7. ASSUME NEW i \in DOMAIN down', i \notin DOMAIN down
      PROVE  \E j \in 1..p :
               /\ i = l + j /\ down'[i] = e[j]
               /\ e[j].secure = TRUE /\ e[j].number = (acc.sent + j - 1) % Frames
               /\ e[j].what = IF i = l + p THEN last ELSE "part"
  <2>1. PICK j \in 1..p : i = l + j /\ (j = p <=> i = l + p)
    <3>1. i \in 1..(l + p) /\ i \notin 1..l
      BY <1>2, <1>3, <1>7
    <3>2. i - l \in 1..p /\ i = l + (i - l) /\ (i - l = p <=> i = l + p)
      BY <3>1
    <3> QED
      BY <3>2
  <2>2. /\ e[j].secure = TRUE /\ e[j].number = (acc.sent + j - 1) % Frames
        /\ e[j].what = IF j = p THEN last ELSE "part"
    BY DEF Numbers
  <2> QED
    BY <1>3, <2>1, <2>2
<1>8. NumberInv'
  <2>1. Base' = Base /\ Base \in Int
    BY <1>4 DEF Base
  <2>2. PICK b \in Int, s \in 0..(Frames - 1) : b = Base /\ s = acc.sent
    BY <1>4, <2>1
  <2> SUFFICES ASSUME ~skipped
               PROVE  /\ acc'.sent = (Base + Len(down')) % Frames
                      /\ \A i \in DOMAIN down' :
                           down'[i].secure => down'[i].number = (Base + i - 1) % Frames
    BY <1>6, <2>1 DEF NumberInv
  <2>3. s = (b + l) % Frames
    BY <1>1, <2>2 DEF NumberInv
  <2>4. ASSUME NEW k \in Int
        PROVE  (s + k) % Frames = (b + (l + k)) % Frames
    <3>1. (((b + l) % Frames) + k) % Frames = ((b + l) + k) % Frames
      <4>1. PICK a \in Int : a = b + l
        OBVIOUS
      <4>2. ((a % Frames) + k) % Frames = (a + k) % Frames
        BY <1>4, RemainderOfSum
      <4> QED
        BY <4>1, <4>2
    <3>2. (b + l) + k = b + (l + k)
      OBVIOUS
    <3> QED
      BY <2>3, <3>1, <3>2
  <2>5. acc'.sent = (Base + Len(down')) % Frames
    <3>1. p \in Int
      OBVIOUS
    <3> QED
      BY <1>3, <1>6, <2>2, <2>4, <3>1
  <2>6. ASSUME NEW i \in DOMAIN down', down'[i].secure
        PROVE  down'[i].number = (Base + i - 1) % Frames
    <3>1. CASE i \in DOMAIN down
      <4>1. down'[i] = down[i]
        BY <1>2, <1>3, <3>1
      <4>2. \A j \in DOMAIN down : down[j].secure => down[j].number = (Base + j - 1) % Frames
        BY DEF NumberInv
      <4>3. down[i].secure
        BY <2>6, <4>1, Zenon
      <4>4. down[i].number = (Base + i - 1) % Frames
        BY <3>1, <4>2, <4>3, Zenon
      <4> QED
        BY <4>1, <4>4, Zenon
    <3>2. CASE i \notin DOMAIN down
      <4>1. PICK j \in 1..p : i = l + j /\ down'[i].number = (s + j - 1) % Frames
        BY <1>7, <2>2, <3>2
      <4>2. j - 1 \in Int /\ s + j - 1 = s + (j - 1) /\ b + (l + (j - 1)) = b + i - 1
        BY <4>1
      <4>3. (s + (j - 1)) % Frames = (b + (l + (j - 1))) % Frames
        BY <2>4, <4>2
      <4> QED
        BY <2>2, <4>1, <4>2, <4>3
    <3> QED
      BY <3>1, <3>2
  <2> QED
    BY <2>5, <2>6
<1>9. \A i \in DOMAIN down' :
        /\ i \in Nat /\ i <= Len(down')
        /\ i \notin DOMAIN down =>
             /\ i > Len(down) /\ down'[i].secure = TRUE
             /\ down'[i].what = IF i = Len(down') THEN last ELSE "part"
  <2> TAKE i \in DOMAIN down'
  <2>1. i \in Nat /\ i <= Len(down')
    BY <1>3
  <2>2. ASSUME i \notin DOMAIN down
        PROVE  /\ i > Len(down) /\ down'[i].secure = TRUE
               /\ down'[i].what = IF i = Len(down') THEN last ELSE "part"
    <3>1. PICK j \in 1..p :
               /\ i = l + j /\ down'[i] = e[j]
               /\ e[j].secure = TRUE
               /\ e[j].what = IF i = l + p THEN last ELSE "part"
      BY <1>7, <2>2
    <3>2. i > l
      BY <3>1
    <3> QED
      BY <1>1, <1>3, <3>1, <3>2
  <2> QED
    BY <2>1, <2>2
<1>10. \A i \in DOMAIN down : i \in DOMAIN down' /\ down'[i] = down[i]
  BY <1>2, <1>3
<1>11. Len(down') \in Nat /\ Len(down') = Len(down) + p
  BY <1>1, <1>3
<1> QED
  BY <1>3, <1>6, <1>8, <1>9, <1>10, <1>11

LEMMA RespondStep ==
  ASSUME Inv, req.pc = "handle", Whole, ctl.request.kind \in {"put", "get"},
         NEW n \in Nat, Respond(n), req' = Idle,
         UNCHANGED <<keys, up, ctl, work, paired, skipped, faults>>, subscribed' \in BOOLEAN
  PROVE  Inv'
<1>1. /\ TypeInv /\ RequestInv /\ DownInv /\ NumberInv /\ UpInv /\ WholeInv /\ KeysInv
      /\ Pending /\ ~Answer /\ acc.open /\ (acc.secure <=> ctl.secure)
      /\ ctl.request \in Requests /\ up = <<>> /\ acc.buffer = 0
  BY AtHandler
<1>2. ctl.request # NoRequest
  BY <1>1 DEF Pending
<1>3. ctl.secure /\ acc.secure
  BY <1>1, <1>2 DEF RequestInv
<1>15. PICK p \in Nat \ {0} : \E e :
        /\ Numbers(e, p, acc.sent, "end")
        /\ down' = down \o e
        /\ acc' = [acc EXCEPT !.sent = (acc.sent + p) % Frames]
  BY <1>1, ResponseFrames
<1>4. PICK e :
        /\ Numbers(e, p, acc.sent, "end")
        /\ down' = down \o e
        /\ acc' = [acc EXCEPT !.sent = (acc.sent + p) % Frames]
  BY <1>15
<1>5. /\ down' \in Seq(DownFrame) /\ Len(down') \in Nat /\ Len(down') = Len(down) + p
      /\ \A i \in DOMAIN down : i \in DOMAIN down' /\ down'[i] = down[i]
      /\ \A i \in DOMAIN down' :
           /\ i \in Nat /\ i <= Len(down')
           /\ i \notin DOMAIN down =>
                /\ i > Len(down) /\ down'[i].secure = TRUE
                /\ down'[i].what = IF i = Len(down') THEN "end" ELSE "part"
      /\ acc' \in Context /\ acc'.open = acc.open /\ acc'.secure = acc.secure
      /\ acc'.received = acc.received /\ acc'.buffer = acc.buffer
      /\ NumberInv'
  BY <1>1, <1>3, <1>4, AppendedFrames
<1>6. \A i \in DOMAIN down : down[i].what = "event" /\ down[i].secure
  <2> TAKE i \in DOMAIN down
  <2>1. down[i].what \in {"part", "end", "event"}
    BY <1>1, Fields
  <2>2. down[i].what # "end" /\ down[i].what # "part"
    BY <1>1 DEF DownInv, Answer
  <2> QED
    BY <1>1, <1>3, <2>1, <2>2 DEF DownInv
<1>7. /\ Len(down') \in DOMAIN down' /\ down'[Len(down')].what = "end"
  <2>1. Len(down') \in DOMAIN down' /\ Len(down') \notin DOMAIN down
    <3>1. PICK l \in Nat : l = Len(down)
      BY <1>1, Fields
    <3>2. Len(down') = l + p /\ DOMAIN down' = 1..(l + p) /\ DOMAIN down = 1..l
      BY <1>1, <1>5, <3>1 DEF TypeInv
    <3> QED
      BY <3>2
  <2> QED
    BY <1>5, <2>1
<1>8. Answer' /\ ~Pending'
  BY <1>7 DEF Answer, Pending
<1>9. \A i \in DOMAIN down' :
        /\ down'[i].secure
        /\ down'[i].what = "part" => i < Len(down')
        /\ down'[i].what = "end" => i = Len(down')
        /\ i \in Nat /\ i <= Len(down')
  <2> TAKE i \in DOMAIN down'
  <2>1. CASE i \in DOMAIN down
    BY <1>5, <1>6, <2>1
  <2>2. CASE i \notin DOMAIN down
    BY <1>5, <2>2
  <2> QED
    BY <2>1, <2>2
<1>10. TypeInv'
  BY <1>1, <1>5, InitialValues DEF TypeInv
<1>11. RequestInv'
  BY <1>1, <1>2, <1>3, <1>5, <1>8 DEF RequestInv
<1>12. DownInv'
  <2>1. \A i \in DOMAIN down' :
          /\ down'[i].what = "part" => \E j \in DOMAIN down' : j > i /\ down'[j].what = "end"
          /\ down'[i].what = "end" => \A j \in DOMAIN down' : j > i => down'[j].what = "event"
    <3> TAKE i \in DOMAIN down'
    <3>1. down'[i].what = "part" => \E j \in DOMAIN down' : j > i /\ down'[j].what = "end"
      BY <1>5, <1>7, <1>9
    <3>2. down'[i].what = "end" => \A j \in DOMAIN down' : ~(j > i)
      BY <1>5, <1>9
    <3> QED
      BY <3>1, <3>2
  <2> QED
    BY <1>2, <1>3, <1>5, <1>9, <2>1 DEF DownInv
<1>13. UpInv' /\ WholeInv'
  BY <1>1, <1>5, <1>8 DEF UpInv, WholeInv
<1>14. KeysInv'
  BY <1>1 DEF KeysInv, Live
<1> QED
  BY <1>5, <1>10, <1>11, <1>12, <1>13, <1>14 DEF Inv

LEMMA SecureHandlersStep ==
  ASSUME Inv, HandlePut \/ HandleGet
  PROVE  Inv'
<1>1. subscribed \in BOOLEAN
  BY InvFields DEF Bookkeeping
<1>2. CASE HandlePut
  <2>1. /\ req.pc = "handle" /\ Whole /\ ctl.request.kind = "put" /\ req' = Idle
        /\ UNCHANGED <<up, ctl, work, skipped, faults>> /\ UNCHANGED <<keys, paired>>
        /\ Respond(0) /\ subscribed' \in {subscribed, TRUE}
    BY <1>2 DEF HandlePut, Handles
  <2>2. subscribed' \in BOOLEAN /\ 0 \in Nat
    BY <1>1, <2>1
  <2> QED
    BY <2>1, <2>2, RespondStep
<1>3. CASE HandleGet
  <2>1. /\ req.pc = "handle" /\ Whole /\ ctl.request.kind = "get" /\ req' = Idle
        /\ UNCHANGED <<up, ctl, work, skipped, faults>> /\ UNCHANGED <<keys, subscribed, paired>>
        /\ \E n \in Contents : Respond(n)
    BY <1>3 DEF HandleGet, Handles
  <2>2. PICK n \in Contents : Respond(n)
    BY <2>1
  <2>3. n \in Nat /\ subscribed' \in BOOLEAN
    BY <1>1, <2>1, Constants
  <2> QED
    BY <2>1, <2>2, <2>3, RespondStep
<1> QED
  BY <1>2, <1>3
\* Steps that change none of what the invariant relates.
LEMMA QuietStep ==
  ASSUME Inv, UNCHANGED <<keys, req, up, down, ctl, subscribed, paired>>,
         work' \in 0..MaxEvents, skipped' \in BOOLEAN, skipped => skipped', faults' \in 0..MaxFaults,
         acc' \in Context, acc'.open = acc.open, acc'.secure = acc.secure, acc'.received = acc.received,
         acc'.buffer = acc.buffer, skipped' \/ acc'.sent = acc.sent, acc.open \/ acc' = acc
  PROVE  Inv'
<1>1. TypeInv /\ RequestInv /\ DownInv /\ NumberInv /\ UpInv /\ WholeInv /\ KeysInv
  BY InvFields
<1>2. Answer' = Answer /\ Pending' = Pending /\ FitsRead' = FitsRead
  BY DEF Answer, Pending, FitsRead
<1>3. TypeInv'
  BY <1>1 DEF TypeInv
<1>4. RequestInv'
  <2>1. Data(up') = Data(up)
    OBVIOUS
  <2> QED
    BY <1>1, <1>2, <2>1 DEF RequestInv
<1>5. DownInv'
  BY <1>1, <1>2 DEF DownInv
<1>6. NumberInv'
  BY <1>1 DEF NumberInv, Base
<1>7. UpInv' /\ WholeInv'
  BY <1>1, <1>2 DEF UpInv, WholeInv
<1>8. KeysInv'
  BY <1>1, <1>2 DEF KeysInv, Live
<1> QED
  BY <1>3, <1>4, <1>5, <1>6, <1>7, <1>8 DEF Inv

LEMMA NotifyStep ==
  ASSUME Inv, Notify
  PROVE  Inv'
<1>1. /\ acc \in Context /\ skipped \in BOOLEAN /\ faults \in 0..MaxFaults
      /\ work \in 0..MaxEvents /\ down \in Seq(DownFrame)
  BY InvFields DEF TypeInv
<1> DEFINE events == {i \in DOMAIN down : down[i].what = "event"}
<1>2. Cardinality(events) \in Nat
  <2>1. PICK l \in Nat : DOMAIN down = 1..l
    BY <1>1
  <2>2. IsFiniteSet(1..l)
    BY FS_Interval
  <2>3. events \subseteq 1..l
    BY <2>1
  <2> HIDE DEF events
  <2>4. IsFiniteSet(events)
    BY <2>2, <2>3, FS_Subset
  <2> QED
    BY <2>4, FS_CardinalityType
<1>3. work + Cardinality(events) < MaxEvents /\ work' = work + 1
  BY DEF Notify
<1> HIDE DEF events
<1>4. work' \in 0..MaxEvents
  BY <1>1, <1>2, <1>3, Constants
<1>5. UNCHANGED <<acc, keys, req, up, down, ctl, subscribed, paired, skipped, faults>>
  BY DEF Notify
<1> QED
  BY <1>1, <1>4, <1>5, QuietStep

LEMMA OneAppended ==
  ASSUME NEW T, NEW d \in Seq(T), NEW f \in T
  PROVE  Append(d, f) = d \o <<f>>
OBVIOUS

LEMMA SendEventStep ==
  ASSUME Inv, SendEvent
  PROVE  Inv'
<1>1. /\ TypeInv /\ RequestInv /\ DownInv /\ NumberInv /\ UpInv /\ WholeInv /\ KeysInv
      /\ Bookkeeping /\ skipped \in BOOLEAN
  BY InvFields
<1>2. /\ req.pc = "idle" /\ acc.open /\ work' = work - 1 /\ work > 0
      /\ acc' = [acc EXCEPT !.sent = (acc.sent + 1) % Frames]
      /\ UNCHANGED <<keys, req, up, ctl, subscribed, paired>>
  BY DEF SendEvent
<1>3. work' \in 0..MaxEvents
  BY <1>1, <1>2, Constants DEF Bookkeeping
<1>4. acc \in Context /\ acc.sent \in 0..(Frames - 1) /\ Frames \in Nat \ {0}
  BY <1>1, Fields, Constants DEF TypeInv
<1>5. CASE skipped' = TRUE /\ UNCHANGED down /\ (Fault \/ UNCHANGED faults)
  <2>1. faults' \in 0..MaxFaults
    BY <1>5, FaultType
  <2>2. (acc.sent + 1) % Frames \in 0..(Frames - 1)
    <3>1. acc.sent + 1 \in Int
      BY <1>4
    <3> QED
      BY <1>4, <3>1, Remainder
  <2>3. /\ acc' \in Context /\ acc'.open = acc.open /\ acc'.secure = acc.secure
        /\ acc'.received = acc.received /\ acc'.buffer = acc.buffer
    BY <1>2, <1>4, <2>2 DEF Context
  <2> QED
    BY <1>2, <1>3, <1>5, <2>1, <2>3, QuietStep
<1>6. CASE acc.secure /\ down' = Append(down, Frame(TRUE, acc.sent, "event", <<>>)) /\ UNCHANGED <<skipped, faults>>
  <2> DEFINE f == Frame(TRUE, acc.sent, "event", <<>>)
             e == <<f>>
  <2>1. f \in DownFrame /\ f.secure = TRUE /\ f.number = acc.sent /\ f.what = "event"
    BY <1>4, EmptyType DEF Frame, DownFrame
  <2> HIDE DEF f
  <2>2. e \in Seq(DownFrame) /\ Len(e) = 1 /\ e[1] = f
    BY <2>1
  <2>3. down' = down \o e
    <3>1. down' = Append(down, f)
      BY <1>6 DEF f
    <3>2. down \in Seq(DownFrame)
      BY <1>1 DEF TypeInv
    <3> QED
      BY <2>1, <3>1, <3>2, OneAppended
  <2> HIDE DEF e
  <2>4. Numbers(e, 1, acc.sent, "event")
    <3>1. (acc.sent + 1 - 1) % Frames = acc.sent
      <4>1. acc.sent % Frames = acc.sent /\ acc.sent + 1 - 1 = acc.sent
        BY <1>4, SmallRemainder
      <4> QED
        BY <4>1
    <3>2. \A i \in 1..1 : i = 1
      OBVIOUS
    <3> QED
      BY <2>1, <2>2, <3>1, <3>2 DEF Numbers
  <2>5. /\ down' \in Seq(DownFrame) /\ Len(down') \in Nat /\ Len(down') = Len(down) + 1
        /\ \A i \in DOMAIN down : i \in DOMAIN down' /\ down'[i] = down[i]
        /\ \A i \in DOMAIN down' :
             /\ i \in Nat /\ i <= Len(down')
             /\ i \notin DOMAIN down =>
                  /\ i > Len(down) /\ down'[i].secure = TRUE
                  /\ down'[i].what = IF i = Len(down') THEN "event" ELSE "part"
        /\ acc' \in Context /\ acc'.open = acc.open /\ acc'.secure = acc.secure
        /\ acc'.received = acc.received /\ acc'.buffer = acc.buffer
        /\ NumberInv'
    <3>1. 1 \in Nat \ {0}
      OBVIOUS
    <3> QED
      BY <1>1, <1>2, <1>6, <2>3, <2>4, <3>1, AppendedFrames
  <2>6. \A i \in DOMAIN down' : i \notin DOMAIN down => down'[i].what = "event" /\ down'[i].secure
    <3> TAKE i \in DOMAIN down'
    <3> SUFFICES ASSUME i \notin DOMAIN down PROVE down'[i].what = "event" /\ down'[i].secure
      OBVIOUS
    <3>1. i \in Nat /\ i <= Len(down') /\ i > Len(down) /\ Len(down) \in Nat
      BY <1>1, <2>5, Fields
    <3>2. i = Len(down')
      BY <2>5, <3>1
    <3> QED
      BY <2>5, <3>2
  <2>7. Answer' = Answer
    <3>1. Answer => Answer'
      BY <2>5 DEF Answer
    <3>2. Answer' => Answer
      <4> SUFFICES ASSUME Answer' PROVE Answer
        OBVIOUS
      <4>1. PICK i \in DOMAIN down' : down'[i].what = "end"
        BY DEF Answer
      <4>2. i \in DOMAIN down
        BY <2>6, <4>1
      <4> QED
        BY <2>5, <4>1, <4>2 DEF Answer
    <3>3. Answer \in BOOLEAN /\ Answer' \in BOOLEAN
      BY DEF Answer
    <3> QED
      BY <3>1, <3>2, <3>3
  <2>8. Pending' = Pending
    BY <1>2, <2>7 DEF Pending
  <2>9. down # <<>> => 1 \in DOMAIN down /\ down' # <<>> /\ down'[1] = down[1]
    <3> SUFFICES ASSUME down # <<>> PROVE 1 \in DOMAIN down /\ down' # <<>> /\ down'[1] = down[1]
      OBVIOUS
    <3>1. 1 \in DOMAIN down
      BY <1>1 DEF TypeInv
    <3>2. 1 \in DOMAIN down' /\ down'[1] = down[1]
      BY <2>5, <3>1
    <3> QED
      BY <3>1, <3>2
  <2>10. TypeInv'
    BY <1>1, <1>2, <1>3, <1>6, <2>5 DEF TypeInv
  <2>11. RequestInv'
    <3>1. Data(up') = Data(up)
      BY <1>2
    <3> QED
      BY <1>1, <1>2, <1>6, <2>5, <2>7, <2>8, <2>9, <3>1 DEF RequestInv
  <2>12. DownInv'
    <3>1. \A i \in DOMAIN down' :
            /\ down'[i].what = "part" => \E j \in DOMAIN down' : j > i /\ down'[j].what = "end"
            /\ down'[i].what = "end" => \A j \in DOMAIN down' : j > i => down'[j].what = "event"
            /\ ~down'[i].secure => i = 1 /\ ~ctl.secure /\ down'[i].what = "end"
      <4> TAKE i \in DOMAIN down'
      <4>1. CASE i \in DOMAIN down
        <5>1. down'[i] = down[i]
          BY <2>5, <4>1
        <5>2. down[i].what = "part" => \E j \in DOMAIN down : j > i /\ down[j].what = "end"
          BY <1>1, <4>1 DEF DownInv
        <5>3. down[i].what = "end" => \A j \in DOMAIN down : j > i => down[j].what = "event"
          BY <1>1, <4>1 DEF DownInv
        <5>4. ~down[i].secure => i = 1 /\ ~ctl.secure /\ down[i].what = "end"
          BY <1>1, <4>1 DEF DownInv
        <5> QED
          BY <2>5, <2>6, <5>1, <5>2, <5>3, <5>4
      <4>2. CASE i \notin DOMAIN down
        BY <2>6, <4>2
      <4> QED
        BY <4>1, <4>2
    <3> QED
      <4>1. Answer' => ctl'.request # NoRequest
        BY <1>1, <1>2, <2>7 DEF DownInv
      <4>2. acc'.secure /\ ctl'.secure = ctl.secure
        BY <1>2, <1>6, <2>5
      <4> QED
        BY <3>1, <4>1, <4>2 DEF DownInv
  <2>13. UpInv'
    BY <1>1, <1>2, <2>5 DEF UpInv
  <2>14. WholeInv'
    BY <1>2 DEF WholeInv
  <2>15. KeysInv'
    <3>1. Answer => down # <<>>
      BY DEF Answer
    <3>2. Live' = Live
      BY <1>2 DEF Live
    <3> QED
      BY <1>1, <1>2, <2>7, <2>9, <3>1, <3>2 DEF KeysInv
  <2> QED
    BY <2>5, <2>10, <2>11, <2>12, <2>13, <2>14, <2>15 DEF Inv
<1>7. \/ acc.secure /\ down' = Append(down, Frame(TRUE, acc.sent, "event", <<>>)) /\ UNCHANGED <<skipped, faults>>
      \/ skipped' = TRUE /\ UNCHANGED down /\ (Fault \/ UNCHANGED faults)
  BY DEF SendEvent
<1> QED
  BY <1>5, <1>6, <1>7
\* The value of a type that is found in the message of a list.
Find(list, type) == Get(Deserialize(Serialize(list)), type)

LEMMA FindReverse ==
  ASSUME NEW list \in Seq(Tlv), NEW other
  PROVE  Find(list, other) = Get(Reverse(list), other) /\ Find(list, other) \in Seq(Nat)
<1>1. Deserialize(Serialize(list)) = Reverse(list)
  BY ElementsAreFound
<1>2. Reverse(list) \in Seq(Tlv)
  BY ReverseType
<1> QED
  BY <1>1, <1>2, GetType DEF Find

LEMMA FindsNothing ==
  ASSUME NEW other
  PROVE  Find(<<>>, other) = <<>>
<1>1. <<>> \in Seq(Tlv) /\ Len(<<>>) = 0
  OBVIOUS
<1>2. Reverse(<<>>) \in Seq(Tlv) /\ Len(Reverse(<<>>)) = 0
  BY <1>1, ReverseType
<1>3. PICK f : Gets(f, Reverse(<<>>), other)
  BY <1>2, GetFold
<1>4. Find(<<>>, other) = Get(Reverse(<<>>), other)
  BY <1>1, FindReverse
<1> QED
  BY <1>2, <1>3, <1>4 DEF Gets

LEMMA Finds ==
  ASSUME NEW list \in Seq(Tlv), NEW type \in Nat, NEW data \in Seq(Nat), NEW other
  PROVE  /\ Add(list, type, data) \in Seq(Tlv) /\ Find(list, other) \in Seq(Nat)
         /\ Find(Add(list, type, data), other)
              = IF other = type THEN Find(list, other) \o data ELSE Find(list, other)
<1> DEFINE l == Add(list, type, data)
<1>1. l \in Seq(Tlv)
  BY AddType
<1>2. Get(Reverse(l), other)
        = IF other = type THEN Get(Reverse(list), other) \o data ELSE Get(Reverse(list), other)
  BY AddIsFound
<1> HIDE DEF l
<1>3. Find(l, other) = Get(Reverse(l), other)
  BY <1>1, FindReverse
<1>4. Find(list, other) = Get(Reverse(list), other) /\ Find(list, other) \in Seq(Nat)
  BY FindReverse
<1>5. Find(l, other) = IF other = type THEN Find(list, other) \o data ELSE Find(list, other)
  BY <1>2, <1>3, <1>4
<1> QED
  BY <1>1, <1>4, <1>5 DEF l

\* A value that is put once, before and after others.
LEMMA FindsOther ==
  ASSUME NEW list \in Seq(Tlv), NEW type \in Nat, NEW data \in Seq(Nat), NEW other, other # type
  PROVE  Add(list, type, data) \in Seq(Tlv) /\ Find(Add(list, type, data), other) = Find(list, other)
BY Finds

LEMMA FindsValue ==
  ASSUME NEW list \in Seq(Tlv), NEW type \in Nat, NEW data \in Seq(Nat), Find(list, type) = <<>>
  PROVE  Add(list, type, data) \in Seq(Tlv) /\ Find(Add(list, type, data), type) = data
<1>1. /\ Add(list, type, data) \in Seq(Tlv)
      /\ Find(Add(list, type, data), type) = Find(list, type) \o data
  BY Finds
<1>2. <<>> \o data = data
  OBVIOUS
<1> QED
  BY <1>1, <1>2

LEMMA KeyOfM2 ==
  ASSUME NEW id \in SrpIds, NEW n \in KeySizes
  PROVE  SrpOf(M2(id, n)) = {id}
<1>1. id \in Nat /\ n \in Nat \ {0}
  BY Constants
<1>2. Get(Deserialize(M2(id, n)), PublicKey) = Public(id, n)
  <2> DEFINE l1 == Add(<<>>, State, <<2>>)
             l2 == Add(l1, PublicKey, Public(id, n))
             l3 == Add(l2, Salt, <<id>>)
  <2>1. /\ State \in Nat /\ PublicKey \in Nat /\ Salt \in Nat /\ PublicKey # State /\ PublicKey # Salt
        /\ <<2>> \in Seq(Nat) /\ <<id>> \in Seq(Nat) /\ Public(id, n) \in Seq(Nat)
    BY <1>1, ByteType, PublicType DEF State, PublicKey, Salt
  <2>2. l1 \in Seq(Tlv) /\ Find(l1, PublicKey) = <<>>
    <3>1. Find(<<>>, PublicKey) = <<>>
      BY FindsNothing
    <3>2. PICK nothing \in Seq(Tlv) : nothing = <<>>
      BY EmptyType
    <3>3. PICK v \in Seq(Nat) : v = <<2>>
      BY <2>1
    <3>4. Add(nothing, State, v) \in Seq(Tlv) /\ Find(Add(nothing, State, v), PublicKey) = Find(nothing, PublicKey)
      BY <2>1, FindsOther
    <3> QED
      BY <3>1, <3>2, <3>3, <3>4
  <2> HIDE DEF l1
  <2>3. l2 \in Seq(Tlv) /\ Find(l2, PublicKey) = Public(id, n)
    BY <2>1, <2>2, FindsValue
  <2> HIDE DEF l2
  <2>4. Find(l3, PublicKey) = Public(id, n)
    <3>1. PICK v \in Seq(Nat) : v = <<id>>
      BY <2>1
    <3>2. Find(Add(l2, Salt, v), PublicKey) = Find(l2, PublicKey)
      BY <2>1, <2>3, FindsOther
    <3> QED
      BY <2>3, <3>1, <3>2
  <2> QED
    BY <2>4 DEF Find, M2, l1, l2
<1>3. ASSUME NEW other \in SrpIds, NEW m \in KeySizes, Public(id, n) = Public(other, m)
      PROVE  other = id
  <2>1. m \in Nat \ {0} /\ other \in Nat
    BY Constants
  <2>2. 1 \in 1..n /\ 1 \in 1..m
    BY <1>1, <2>1
  <2>3. Public(id, n)[1] = 10 * id + 1 /\ Public(other, m)[1] = 10 * other + 1
    BY <2>2 DEF Public
  <2> QED
    BY <1>1, <1>3, <2>1, <2>3
<1> QED
  BY <1>2, <1>3 DEF SrpOf

\* Reading takes the first frame.
LEMMA FirstTaken ==
  ASSUME TypeInv, down # <<>>, down' = Tail(down)
  PROVE  /\ Head(down) = down[1] /\ 1 \in DOMAIN down
         /\ down' \in Seq(DownFrame) /\ Len(down') \in Nat /\ Len(down) = Len(down') + 1
         /\ \A i \in DOMAIN down' : i \in Nat \ {0} /\ i + 1 \in DOMAIN down /\ down'[i] = down[i + 1]
         /\ \A j \in DOMAIN down : j # 1 => j - 1 \in DOMAIN down' /\ down'[j - 1] = down[j]
<1>1. down \in Seq(DownFrame)
  BY DEF TypeInv
<1>2. PICK l \in Nat : Len(down) = l + 1
  <2>1. Len(down) \in Nat \ {0}
    BY <1>1
  <2>2. Len(down) - 1 \in Nat /\ Len(down) = (Len(down) - 1) + 1
    BY <2>1
  <2> QED
    BY <2>2
<1>3. /\ DOMAIN down = 1..(l + 1) /\ Head(down) = down[1]
      /\ down' \in Seq(DownFrame) /\ Len(down') = l /\ DOMAIN down' = 1..l
      /\ \A i \in 1..l : down'[i] = down[i + 1]
  BY <1>1, <1>2
<1>4. \A i \in 1..l : i \in Nat \ {0} /\ i + 1 \in 1..(l + 1)
  OBVIOUS
<1>5. ASSUME NEW j \in 1..(l + 1), j # 1
      PROVE  j - 1 \in 1..l /\ down'[j - 1] = down[j]
  <2>1. j - 1 \in 1..l /\ (j - 1) + 1 = j
    BY <1>5
  <2> QED
    BY <1>3, <2>1
<1>6. 1 \in 1..(l + 1)
  OBVIOUS
<1> QED
  BY <1>2, <1>3, <1>4, <1>5, <1>6

LEMMA ReadInStep ==
  ASSUME TypeInv, NumberInv, down # <<>>, down' = Tail(down), acc.secure, ~skipped,
         NEW base \in Int, base = Base + 1
  PROVE  /\ acc.sent = (base + Len(down')) % Frames
         /\ \A i \in DOMAIN down' : down'[i].secure => down'[i].number = (base + i - 1) % Frames
<1>1. /\ Len(down') \in Nat /\ Len(down) = Len(down') + 1
      /\ \A i \in DOMAIN down' : i \in Nat \ {0} /\ i + 1 \in DOMAIN down /\ down'[i] = down[i + 1]
  BY FirstTaken
<1>2. PICK b \in Int : b = Base /\ base = b + 1
  <2>1. Base \in Int
    BY Fields, Constants DEF Base
  <2> QED
    BY <2>1
<1>3. /\ acc.sent = (b + Len(down)) % Frames
      /\ \A i \in DOMAIN down : down[i].secure => down[i].number = (b + i - 1) % Frames
  BY <1>2 DEF NumberInv
<1>4. b + Len(down) = base + Len(down')
  BY <1>1, <1>2
<1>5. ASSUME NEW i \in DOMAIN down', down'[i].secure
      PROVE  down'[i].number = (base + i - 1) % Frames
  <2>1. i \in Nat /\ i + 1 \in DOMAIN down /\ down'[i] = down[i + 1]
    BY <1>1
  <2>2. down[i + 1].number = (b + (i + 1) - 1) % Frames
    BY <1>3, <1>5, <2>1
  <2>3. b + (i + 1) - 1 = base + i - 1
    BY <1>2, <2>1
  <2> QED
    BY <2>1, <2>2, <2>3
<1> QED
  BY <1>3, <1>4, <1>5
\* What the controller knows after a plain response.
LEMMA AnsweredFields ==
  ASSUME NEW id \in SrpIds \cup {0}, ctl' = Answered(down[1]),
         TypeInv, ctl.request.kind \in {"M1", "M3", "M5", "verify"},
         ctl.request.kind = "M1" => SrpOf(down[1].content) = {id}
  PROVE  /\ ctl' \in Controller /\ ctl'.request = NoRequest /\ ctl'.sent = ctl.sent /\ ctl'.received = ctl.received
         /\ ctl'.secure = (ctl.secure \/ ctl.request.kind = "verify")
         /\ ctl.request.kind = "M1" => ctl'.step = 2 /\ ctl'.srp = id
         /\ ctl.request.kind = "M3" => ctl'.step = 4 /\ ctl'.srp = ctl.srp
         /\ ctl.request.kind = "M5" => ctl'.step = 0
         /\ ctl.request.kind = "verify" => ctl'.step = ctl.step /\ ctl'.srp = ctl.srp
<1>1. ctl \in Controller /\ 0 \in SrpIds \cup {0} /\ ctl.secure \in BOOLEAN
  BY Fields DEF TypeInv
<1>2. CASE ctl.request.kind = "M1"
  <2>1. (IF SrpOf(down[1].content) = {} THEN 0 ELSE CHOOSE x \in SrpOf(down[1].content) : TRUE) = id
    <3>1. SrpOf(down[1].content) = {id}
      BY <1>2
    <3>2. (CHOOSE x \in {id} : TRUE) = id /\ {id} # {}
      OBVIOUS
    <3> QED
      BY <3>1, <3>2
  <2>2. ctl' = [ctl EXCEPT !.request = NoRequest, !.step = 2, !.srp = id]
    BY <1>2, <2>1 DEF Answered
  <2> QED
    BY <1>1, <1>2, <2>2 DEF Controller
<1>3. CASE ctl.request.kind = "M3"
  <2>1. ctl' = [ctl EXCEPT !.request = NoRequest, !.step = 4]
    BY <1>3 DEF Answered
  <2> QED
    BY <1>1, <1>3, <2>1 DEF Controller
<1>4. CASE ctl.request.kind = "M5"
  <2>1. ctl' = [ctl EXCEPT !.request = NoRequest, !.step = 0, !.srp = 0]
    BY <1>4 DEF Answered
  <2> QED
    BY <1>1, <1>4, <2>1 DEF Controller
<1>5. CASE ctl.request.kind = "verify"
  <2>1. ctl' = [ctl EXCEPT !.request = NoRequest, !.secure = TRUE]
    BY <1>5 DEF Answered
  <2> QED
    BY <1>1, <1>5, <2>1 DEF Controller
<1> QED
  BY <1>2, <1>3, <1>4, <1>5

LEMMA PlainReceiveStep ==
  ASSUME Inv, down # <<>>, ~down[1].secure, down' = Tail(down), ctl' = Answered(down[1]),
         UNCHANGED <<acc, keys, req, up, work, subscribed, paired, skipped, faults>>
  PROVE  Inv'
<1>1. /\ TypeInv /\ RequestInv /\ DownInv /\ NumberInv /\ UpInv /\ WholeInv /\ KeysInv
  BY InvFields
<1>2. /\ Head(down) = down[1] /\ 1 \in DOMAIN down
      /\ down' \in Seq(DownFrame) /\ Len(down') \in Nat /\ Len(down) = Len(down') + 1
      /\ \A i \in DOMAIN down' : i \in Nat \ {0} /\ i + 1 \in DOMAIN down /\ down'[i] = down[i + 1]
  BY <1>1, FirstTaken
<1>3. ~ctl.secure /\ down[1].what = "end" /\ Answer /\ ~Pending
  BY <1>1, <1>2 DEF DownInv, Answer, Pending
<1>4. ctl.request # NoRequest /\ up = <<>> /\ req = Idle /\ acc.buffer = 0 /\ acc.open
  BY <1>1, <1>3, NotPending DEF DownInv, RequestInv
<1>5. ctl.request.kind \in {"M1", "M3", "M5", "verify"}
  <2>1. ctl.request.kind \in Kinds
    BY <1>1, <1>4, Fields, RequestFields
  <2>2. ctl.request.kind \notin {"put", "get"}
    BY <1>1, <1>3, <1>4 DEF RequestInv
  <2> QED
    BY <2>1, <2>2 DEF Kinds
<1>6. \A i \in DOMAIN down' : down'[i].what = "event" /\ down'[i].secure /\ acc.secure
  <2> TAKE i \in DOMAIN down'
  <2>1. i + 1 \in DOMAIN down /\ down'[i] = down[i + 1] /\ i + 1 > 1 /\ i + 1 # 1
    BY <1>2
  <2> QED
    BY <1>1, <1>2, <1>3, <2>1 DEF DownInv
<1>7. ~Answer' /\ ~Pending'
  <2>1. ~Answer'
    BY <1>6 DEF Answer
  <2>2. ctl'.request = NoRequest
    BY <1>5 DEF Answered
  <2> QED
    BY <2>1, <2>2 DEF Pending
<1>8. PICK id \in SrpIds \cup {0} :
        ctl.request.kind = "M1" =>
          /\ SrpOf(down[1].content) = {id}
          /\ keys.srp = id /\ keys.pub = id /\ id # 0
  <2>1. CASE ctl.request.kind = "M1"
    <3>1. PICK id \in SrpIds, n \in KeySizes :
            down[1].content = M2(id, n) /\ keys.srp = id /\ keys.pub = id
      BY <1>1, <1>3, <2>1 DEF KeysInv
    <3>2. SrpOf(M2(id, n)) = {id} /\ id # 0
      BY KeyOfM2, Constants
    <3> QED
      BY <3>1, <3>2
  <2>2. CASE ctl.request.kind # "M1"
    BY <2>2
  <2> QED
    BY <2>1, <2>2
<1>9. /\ ctl' \in Controller /\ ctl'.request = NoRequest
      /\ ctl'.sent = ctl.sent /\ ctl'.received = ctl.received
      /\ ctl'.secure = (ctl.secure \/ ctl.request.kind = "verify")
      /\ ctl.request.kind = "M1" => ctl'.step = 2 /\ ctl'.srp = id
      /\ ctl.request.kind = "M3" => ctl'.step = 4 /\ ctl'.srp = ctl.srp
      /\ ctl.request.kind = "M5" => ctl'.step = 0
      /\ ctl.request.kind = "verify" => ctl'.step = ctl.step /\ ctl'.srp = ctl.srp
  <2>1. ctl.request.kind = "M1" => SrpOf(down[1].content) = {id}
    BY <1>8
  <2> QED
    BY <1>1, <1>5, <1>8, <2>1, AnsweredFields
<1>10. ctl'.secure = (ctl.request.kind = "verify")
  BY <1>3, <1>9
<1>11. acc.secure <=> ctl'.secure
  <2>1. acc.secure => ctl.request.kind = "verify"
    BY <1>1, <1>3 DEF RequestInv
  <2>2. ctl.request.kind = "verify" => acc.secure
    BY <1>1, <1>3 DEF RequestInv
  <2> QED
    BY <1>1, <1>10, <2>1, <2>2, Fields
<1>12. TypeInv'
  BY <1>1, <1>2, <1>9 DEF TypeInv
<1>13. NoRequest.kind = "none"
  BY DEF NoRequest
<1>14. RequestInv'
  BY <1>1, <1>4, <1>7, <1>9, <1>11, <1>13 DEF RequestInv
<1>15. DownInv'
  BY <1>6, <1>7 DEF DownInv
<1>16. ctl.received = 0 /\ ctl.sent = 0 /\ acc.received = 0
  BY <1>1, <1>3 DEF NumberInv
<1>17. NumberInv'
  <2>1. CASE ctl'.secure
    <3>1. ASSUME ~skipped
          PROVE  /\ acc.sent = (0 + Len(down')) % Frames
                 /\ \A i \in DOMAIN down' : down'[i].secure => down'[i].number = (0 + i - 1) % Frames
      <4>1. 0 \in Int /\ 0 = Base + 1 /\ acc.secure
        BY <1>3, <1>11, <2>1 DEF Base
      <4> QED
        BY <1>1, <3>1, <4>1, ReadInStep
    <3>2. Base' = 0
      BY <1>9, <1>16, <2>1 DEF Base
    <3> QED
      BY <1>9, <1>11, <2>1, <3>1, <3>2 DEF NumberInv
  <2>2. CASE ~ctl'.secure
    BY <1>1, <1>9, <1>11, <1>16, <2>2 DEF NumberInv
  <2> QED
    BY <2>1, <2>2
<1>18. UpInv'
  <2>1. Len(up) = 0 /\ DOMAIN up = {}
    BY <1>4
  <2> QED
    BY <1>9, <1>16, <2>1 DEF UpInv
<1>19. WholeInv'
  BY <1>7 DEF WholeInv
<1>20. KeysInv'
  <2>1. /\ ctl'.step = 2 => Live' /\ keys.pub = keys.srp
        /\ ctl'.step = 4 => Live' /\ keys.computed
    <3>1. CASE ctl.request.kind = "M1"
      BY <1>8, <1>9, <3>1 DEF Live
    <3>2. CASE ctl.request.kind = "M3"
      BY <1>1, <1>3, <1>9, <3>2 DEF KeysInv, Live
    <3>3. CASE ctl.request.kind = "M5"
      BY <1>9, <3>3
    <3>4. CASE ctl.request.kind = "verify"
      BY <1>1, <1>9, <3>4 DEF KeysInv, Live
    <3> QED
      BY <1>5, <3>1, <3>2, <3>3, <3>4
  <2> QED
    BY <1>7, <1>9, <1>13, <2>1 DEF KeysInv
<1> QED
  BY <1>12, <1>14, <1>15, <1>17, <1>18, <1>19, <1>20 DEF Inv

LEMMA FrameReceiveStep ==
  ASSUME Inv, down # <<>>, down[1].secure, ctl.secure, down[1].number = ctl.received,
         down' = Tail(down),
         ctl' = [ctl EXCEPT !.received = @ + 1, !.request = IF down[1].what = "end" THEN NoRequest ELSE @],
         UNCHANGED <<acc, keys, req, up, work, subscribed, paired, skipped, faults>>
  PROVE  Inv'
<1>1. /\ TypeInv /\ RequestInv /\ DownInv /\ NumberInv /\ UpInv /\ WholeInv /\ KeysInv
  BY InvFields
<1>2. /\ Head(down) = down[1] /\ 1 \in DOMAIN down
      /\ down' \in Seq(DownFrame) /\ Len(down') \in Nat /\ Len(down) = Len(down') + 1
      /\ \A i \in DOMAIN down' : i \in Nat \ {0} /\ i + 1 \in DOMAIN down /\ down'[i] = down[i + 1]
      /\ \A j \in DOMAIN down : j # 1 => j - 1 \in DOMAIN down' /\ down'[j - 1] = down[j]
  BY <1>1, FirstTaken
<1>3. \A i \in DOMAIN down : i \in Nat \ {0}
  BY <1>1, Fields
<1>4. acc.open /\ acc.secure
  BY <1>1 DEF RequestInv
<1> DEFINE end == down[1].what = "end"
           r == IF end THEN NoRequest ELSE ctl.request
<1>5. ctl \in Controller /\ ctl.received + 1 \in 0..Frames /\ ctl.received \in Nat
      /\ ctl.request \in Requests \cup {NoRequest}
  <2>1. down[1].number \in 0..(Frames - 1)
    BY <1>1, <1>2, Fields
  <2>2. ctl.received + 1 \in 0..Frames /\ ctl.received \in Nat
    BY <2>1, Constants
  <2> QED
    BY <1>1, <2>2, Fields DEF TypeInv
<1>6. /\ ctl' \in Controller /\ ctl'.request = r /\ ctl'.received = ctl.received + 1
      /\ ctl'.step = ctl.step /\ ctl'.srp = ctl.srp /\ ctl'.secure = ctl.secure /\ ctl'.sent = ctl.sent
  BY <1>5 DEF Controller
<1> HIDE DEF end, r
<1>7. NoRequest.kind = "none"
  BY DEF NoRequest
<1>8. /\ ctl.request # NoRequest => ctl.request.kind \in {"put", "get"}
      /\ ctl.request.kind \in {"put", "get", "none"} /\ r.kind \in {"put", "get", "none"}
      /\ r # NoRequest => r = ctl.request
  <2>1. ctl.request # NoRequest => ctl.request.kind \in {"put", "get"}
    BY <1>1 DEF RequestInv
  <2> QED
    BY <1>7, <2>1 DEF r
<1>9. end => Answer /\ ~Answer' /\ r = NoRequest
  <2> SUFFICES ASSUME end PROVE Answer /\ ~Answer' /\ r = NoRequest
    OBVIOUS
  <2>1. Answer
    BY <1>2 DEF Answer, end
  <2>2. \A i \in DOMAIN down' : down'[i].what = "event"
    <3> TAKE i \in DOMAIN down'
    <3>1. i + 1 \in DOMAIN down /\ i + 1 > 1 /\ down'[i] = down[i + 1]
      BY <1>2
    <3> QED
      BY <1>1, <1>2, <3>1 DEF DownInv, end
  <2>3. ~Answer'
    BY <2>2 DEF Answer
  <2> QED
    BY <2>1, <2>3 DEF r
<1>10. ~end => (Answer' <=> Answer) /\ r = ctl.request
  <2> SUFFICES ASSUME ~end PROVE (Answer' <=> Answer) /\ r = ctl.request
    OBVIOUS
  <2>1. ASSUME Answer PROVE Answer'
    <3>1. PICK j \in DOMAIN down : down[j].what = "end"
      BY <2>1 DEF Answer
    <3>2. j # 1
      BY <3>1 DEF end
    <3> QED
      BY <1>2, <3>1, <3>2 DEF Answer
  <2>2. ASSUME Answer' PROVE Answer
    <3>1. PICK i \in DOMAIN down' : down'[i].what = "end"
      BY <2>2 DEF Answer
    <3> QED
      BY <1>2, <3>1 DEF Answer
  <2> QED
    BY <2>1, <2>2 DEF r
<1>11. /\ Pending' <=> Pending
       /\ Pending => r = ctl.request
       /\ Answer' => r # NoRequest
  BY <1>1, <1>6, <1>9, <1>10 DEF Pending, DownInv
<1>12. TypeInv'
  BY <1>1, <1>2, <1>6 DEF TypeInv
<1>13. RequestInv'
  <2>1. Pending => Size(ctl'.request) = Size(ctl.request)
    BY <1>6, <1>11
  <2>2. ctl'.request # NoRequest => (ctl'.secure <=> ctl'.request.kind \in {"put", "get"})
    BY <1>6, <1>8
  <2> QED
    BY <1>1, <1>4, <1>6, <1>11, <2>1, <2>2 DEF RequestInv
<1>14. DownInv'
  <2>1. ASSUME NEW i \in DOMAIN down'
        PROVE  /\ down'[i].what = "part" => \E j \in DOMAIN down' : j > i /\ down'[j].what = "end"
               /\ down'[i].what = "end" => \A j \in DOMAIN down' : j > i => down'[j].what = "event"
               /\ down'[i].secure
    <3>1. i \in Nat \ {0} /\ i + 1 \in DOMAIN down /\ down'[i] = down[i + 1] /\ i + 1 # 1
      BY <1>2
    <3>2. ASSUME down'[i].what = "part"
          PROVE  \E j \in DOMAIN down' : j > i /\ down'[j].what = "end"
      <4>1. PICK j \in DOMAIN down : j > i + 1 /\ down[j].what = "end"
        BY <1>1, <3>1, <3>2 DEF DownInv
      <4>2. j \in Nat /\ j # 1 /\ j - 1 > i
        BY <1>3, <3>1, <4>1
      <4> QED
        BY <1>2, <4>1, <4>2
    <3>3. ASSUME down'[i].what = "end", NEW j \in DOMAIN down', j > i
          PROVE  down'[j].what = "event"
      <4>1. j \in Nat /\ j + 1 \in DOMAIN down /\ down'[j] = down[j + 1] /\ j + 1 > i + 1
        BY <1>2, <3>1, <3>3
      <4> QED
        BY <1>1, <3>1, <3>3, <4>1 DEF DownInv
    <3>4. down'[i].secure
      BY <1>1, <3>1 DEF DownInv
    <3> QED
      BY <3>2, <3>3, <3>4
  <2> QED
    BY <1>4, <1>6, <1>11, <2>1 DEF DownInv
<1>15. NumberInv'
  <2>1. ASSUME ~skipped
        PROVE  /\ acc.sent = (ctl.received + 1 + Len(down')) % Frames
               /\ \A i \in DOMAIN down' :
                    down'[i].secure => down'[i].number = (ctl.received + 1 + i - 1) % Frames
    <3>1. PICK base \in Int : base = ctl.received + 1 /\ base = Base + 1
      BY <1>5 DEF Base
    <3>2. /\ acc.sent = (base + Len(down')) % Frames
          /\ \A i \in DOMAIN down' : down'[i].secure => down'[i].number = (base + i - 1) % Frames
      BY <1>1, <1>4, <2>1, <3>1, ReadInStep
    <3> QED
      BY <3>1, <3>2
  <2>2. Base' = ctl.received + 1 /\ ctl'.secure
    BY <1>6 DEF Base
  <2> QED
    BY <1>4, <2>1, <2>2 DEF NumberInv
<1>16. UpInv'
  BY <1>1, <1>6 DEF UpInv
<1>17. WholeInv'
  <2>1. Pending => FitsRead' = FitsRead
    BY <1>6, <1>11 DEF FitsRead
  <2> QED
    BY <1>1, <1>11, <2>1 DEF WholeInv
<1>18. KeysInv'
  BY <1>1, <1>6, <1>8 DEF KeysInv, Live
<1> QED
  BY <1>12, <1>13, <1>14, <1>15, <1>16, <1>17, <1>18 DEF Inv

LEMMA ReceiveStep ==
  ASSUME Inv, Receive
  PROVE  Inv'
<1>1. TypeInv /\ Bookkeeping /\ skipped \in BOOLEAN
  BY InvFields
<1>2. down # <<>> /\ UNCHANGED <<work, subscribed, paired, faults>>
  BY DEF Receive
<1>3. Head(down) = down[1] /\ down[1].secure \in BOOLEAN
  BY <1>1, <1>2, Fields DEF TypeInv
<1> DEFINE InStep == down[1].secure /\ ctl.secure /\ down[1].number = ctl.received
<1>4. \/ /\ down[1].secure => InStep
         /\ down' = Tail(down)
         /\ ctl' = IF ~down[1].secure THEN Answered(down[1])
                   ELSE [ctl EXCEPT !.received = @ + 1,
                                    !.request = IF down[1].what = "end" THEN NoRequest ELSE @]
         /\ UNCHANGED <<acc, keys, req, up, skipped>>
      \/ Ends
  BY <1>3 DEF Receive
<1>5. CASE Ends
  <2>1. Bookkeeping'
    BY <1>1, <1>2 DEF Bookkeeping
  <2> QED
    BY <1>1, <1>5, <2>1, EndsStep
<1>6. ASSUME down[1].secure => InStep, down' = Tail(down),
             ctl' = IF ~down[1].secure THEN Answered(down[1])
                    ELSE [ctl EXCEPT !.received = @ + 1,
                                     !.request = IF down[1].what = "end" THEN NoRequest ELSE @],
             UNCHANGED <<acc, keys, req, up, skipped>>
      PROVE  Inv'
  <2>1. CASE ~down[1].secure
    <3>1. ctl' = Answered(down[1])
      BY <1>6, <2>1
    <3> QED
      BY <1>2, <1>6, <2>1, <3>1, PlainReceiveStep
  <2>2. CASE down[1].secure
    <3>1. ctl' = [ctl EXCEPT !.received = @ + 1,
                             !.request = IF down[1].what = "end" THEN NoRequest ELSE @]
      BY <1>6, <2>2
    <3>2. InStep
      BY <1>6, <2>2
    <3> QED
      BY <1>2, <1>6, <2>2, <3>1, <3>2, FrameReceiveStep
  <2> QED
    BY <2>1, <2>2
<1> QED
  BY <1>4, <1>5, <1>6

LEMMA NextStep ==
  ASSUME Inv, [Next]_vars
  PROVE  Inv'
<1>1. CASE UNCHANGED vars
  <2>1. UNCHANGED <<acc, keys, req, up, down, ctl, work, subscribed, paired, skipped, faults>>
    BY <1>1 DEF vars
  <2>2. acc \in Context /\ work \in 0..MaxEvents /\ skipped \in BOOLEAN /\ faults \in 0..MaxFaults
    BY InvFields DEF TypeInv, Bookkeeping
  <2> QED
    BY <2>1, <2>2, QuietStep
<1>2. CASE Open
  BY <1>2, OpenStep
<1>3. CASE Leave
  BY <1>3, LeaveStep
<1>4. CASE AskSetup \/ AskVerify \/ AskSecure
  BY <1>4, AskAnyStep
<1>5. CASE ReadHeader
  BY <1>5, ReadHeaderStep
<1>6. CASE ReadBody
  BY <1>6, ReadBodyStep
<1>7. CASE BodyTimeout
  BY <1>7, BodyTimeoutStep
<1>8. CASE Handle
  <2>1. CASE HandleM1 \/ HandleM3 \/ HandleM5 \/ HandleVerify
    BY <2>1, PlainHandlersStep
  <2>2. CASE HandlePut \/ HandleGet
    BY <2>2, SecureHandlersStep
  <2>3. CASE Fails
    BY <2>3, FailsStep
  <2> QED
    BY <1>8, <2>1, <2>2, <2>3 DEF Handle
<1>9. CASE Notify
  BY <1>9, NotifyStep
<1>10. CASE SendEvent
  BY <1>10, SendEventStep
<1>11. CASE SendEventPanics
  BY <1>11, SendEventPanicsStep
<1>12. CASE Receive
  BY <1>12, ReceiveStep
<1> QED
  BY <1>1, <1>2, <1>3, <1>4, <1>5, <1>6, <1>7, <1>8, <1>9, <1>10, <1>11, <1>12 DEF Next

LEMMA Invariant == Spec => []Inv
<1>1. Init => Inv
  BY InitIsRight
<1>2. Inv /\ [Next]_vars => Inv'
  BY NextStep
<1> QED
  BY <1>1, <1>2, PTL DEF Spec

-----------------------------------------------------------------------------
(* What follows from the invariant.                                        *)

(***************************************************************************)
(* The variables have their types: the frame counters stay below Frames,   *)
(* and the buffer of recv never holds more than it can.                    *)
(***************************************************************************)
THEOREM TypeCorrect == Spec => []TypeOK
<1>1. Inv => TypeOK
  <2> SUFFICES ASSUME Inv PROVE TypeOK
    OBVIOUS
  <2>1. TypeInv
    BY InvFields
  <2>2. keys \in [pub : SrpIds \cup {0}, srp : SrpIds \cup {0}, computed : BOOLEAN]
    BY <2>1 DEF TypeInv, KeyFields
  <2>3. req \in [pc : {"idle", "header", "body", "handle"}, got : Nat, late : BOOLEAN]
    BY <2>1 DEF TypeInv, Reading
  <2>4. up \in Seq([number : 0..Frames, size : Nat])
    <3> DEFINE T == [number : 0..Frames, size : Nat]
    <3>1. \A f \in UpFrame : f \in T
      BY DEF UpFrame
    <3> HIDE DEF T
    <3>2. up \in Seq(UpFrame)
      BY <2>1 DEF TypeInv
    <3>3. /\ Len(up) \in Nat /\ up = [i \in 1..Len(up) |-> up[i]]
          /\ \A i \in 1..Len(up) : up[i] \in UpFrame
      BY <3>2
    <3>4. \A i \in 1..Len(up) : up[i] \in T
      BY <3>1, <3>3
    <3>5. up \in Seq(T)
      BY <3>3, <3>4
    <3> QED
      BY <3>5 DEF T
  <2>5. \A i \in DOMAIN down :
          /\ DOMAIN down[i] = {"secure", "number", "what", "content"}
          /\ down[i].number \in 0..(Frames - 1)
          /\ down[i].what \in {"part", "end", "event"}
    <3>1. \A f \in DownFrame : DOMAIN f = {"secure", "number", "what", "content"}
      BY DEF DownFrame
    <3>2. \A i \in DOMAIN down : down[i] \in DownFrame
      BY <2>1 DEF TypeInv
    <3> QED
      BY <2>1, <3>1, <3>2, Fields
  <2>6. ctl.request.kind \in Kinds \cup {"none"}
    <3>1. ctl.request \in Requests \cup {NoRequest}
      BY <2>1, Fields
    <3>2. NoRequest.kind = "none"
      BY DEF NoRequest
    <3> QED
      BY <3>1, <3>2, RequestFields
  <2>7. [ctl EXCEPT !.request = NoRequest]
          \in [request : {NoRequest}, step : {0, 2, 4}, srp : SrpIds \cup {0},
               secure : BOOLEAN, sent : 0..Frames, received : 0..Frames]
    BY <2>1 DEF TypeInv, Controller
  <2>8. /\ work \in 0..MaxEvents /\ faults \in 0..MaxFaults /\ acc \in Context
        /\ subscribed \in BOOLEAN /\ paired \in BOOLEAN /\ skipped \in BOOLEAN
    BY <2>1 DEF TypeInv
  <2> QED
    BY <2>2, <2>3, <2>4, <2>5, <2>6, <2>7, <2>8 DEF TypeOK
<1> QED
  BY <1>1, Invariant, PTL

(***************************************************************************)
(* Whatever is sent in which order, response or event, each frame has the  *)
(* number with which the controller will decrypt it, and each frame of the *)
(* controller the one with which the accessory will, for any number of     *)
(* frames after which the counters wrap; until an event uses a number up   *)
(* that is not sent.                                                       *)
(***************************************************************************)
THEOREM StreamsCorrect == Spec => []StreamsInStep
<1>1. Inv => StreamsInStep
  <2> SUFFICES ASSUME Inv, ctl.secure, ~skipped
               PROVE  /\ \A i \in DOMAIN down :
                           down[i].secure /\ down[i].number = (ctl.received + i - 1) % Frames
                      /\ acc.sent = (ctl.received + Len(down)) % Frames
                      /\ \A i \in DOMAIN up : up[i].number \in {(acc.received + i - 1) % Frames, Frames}
    BY DEF StreamsInStep
  <2>1. RequestInv /\ DownInv /\ NumberInv /\ UpInv
    BY InvFields
  <2>2. acc.secure /\ Base = ctl.received
    BY <2>1 DEF RequestInv, Base
  <2>3. \A i \in DOMAIN down : down[i].secure
    BY <2>1 DEF DownInv
  <2> QED
    BY <2>1, <2>2, <2>3 DEF NumberInv, UpInv
<1> QED
  BY <1>1, Invariant, PTL

LEMMA HandlerPending ==
  ASSUME Inv, req.pc = "handle"
  PROVE  /\ Pending /\ ~Answer /\ ctl.request \in Requests
         /\ req.got + Data(up) + acc.buffer = Size(ctl.request)
<1>1. TypeInv /\ RequestInv /\ DownInv
  BY InvFields
<1>2. Pending
  BY <1>1, IdleFields DEF RequestInv
<1> QED
  BY <1>1, <1>2, PendingFields

LEMMA ValuesOf3 ==
  ASSUME NEW n \in Nat, NEW srp \in Nat
  PROVE  Find(List3(n, srp), PublicKey) = Public(0, n) /\ Find(List3(n, srp), Proof) = <<srp>>
<1>1. PICK nothing \in Seq(Tlv), v3 \in Seq(Nat), key \in Seq(Nat), proof \in Seq(Nat) :
        nothing = <<>> /\ v3 = <<3>> /\ key = Public(0, n) /\ proof = <<srp>>
  <2>1. <<3>> \in Seq(Nat) /\ <<srp>> \in Seq(Nat) /\ Public(0, n) \in Seq(Nat) /\ <<>> \in Seq(Tlv)
    BY ByteType, PublicType, EmptyType
  <2> QED
    BY <2>1
<1>2. /\ State \in Nat /\ PublicKey \in Nat /\ Proof \in Nat
      /\ PublicKey # State /\ PublicKey # Proof /\ Proof # State
  BY DEF State, PublicKey, Proof
<1> DEFINE l1 == Add(nothing, State, v3)
           l2 == Add(l1, PublicKey, key)
           l3 == Add(l2, Proof, proof)
<1>3. Find(nothing, PublicKey) = <<>> /\ Find(nothing, Proof) = <<>>
  BY <1>1, FindsNothing
<1>4. l1 \in Seq(Tlv) /\ Find(l1, PublicKey) = <<>> /\ Find(l1, Proof) = <<>>
  <2>1. /\ Add(nothing, State, v3) \in Seq(Tlv)
        /\ Find(Add(nothing, State, v3), PublicKey) = Find(nothing, PublicKey)
    <3> HIDE DEF l1, l2, l3
    <3> QED
      BY <1>2, FindsOther
  <2>2. Find(Add(nothing, State, v3), Proof) = Find(nothing, Proof)
    <3> HIDE DEF l1, l2, l3
    <3> QED
      BY <1>2, FindsOther
  <2> QED
    BY <1>3, <2>1, <2>2
<1> HIDE DEF l1
<1>5. l2 \in Seq(Tlv) /\ Find(l2, PublicKey) = key /\ Find(l2, Proof) = <<>>
  <2>1. l2 \in Seq(Tlv) /\ Find(l2, PublicKey) = key
    BY <1>2, <1>4, FindsValue
  <2>2. Find(l2, Proof) = Find(l1, Proof)
    BY <1>2, <1>4, FindsOther
  <2> QED
    BY <1>4, <2>1, <2>2
<1> HIDE DEF l2
<1>6. Find(l3, PublicKey) = key /\ Find(l3, Proof) = proof
  <2>1. Find(Add(l2, Proof, proof), PublicKey) = Find(l2, PublicKey)
    <3> HIDE DEF l3
    <3> QED
      BY <1>2, <1>5, FindsOther
  <2>2. Find(l3, Proof) = proof
    BY <1>2, <1>5, FindsValue
  <2> QED
    BY <1>5, <2>1, <2>2
<1>7. l3 = List3(n, srp)
  BY <1>1 DEF List3, l1, l2
<1> QED
  BY <1>1, <1>6, <1>7

LEMMA ValueOf5 ==
  ASSUME NEW n \in Nat, NEW srp \in Nat
  PROVE  Find(List5(n, srp), EncryptedData) = Public(srp, n)
<1>1. PICK nothing \in Seq(Tlv), v5 \in Seq(Nat), data \in Seq(Nat) :
        nothing = <<>> /\ v5 = <<5>> /\ data = Public(srp, n)
  <2>1. <<5>> \in Seq(Nat) /\ Public(srp, n) \in Seq(Nat) /\ <<>> \in Seq(Tlv)
    BY ByteType, PublicType, EmptyType
  <2> QED
    BY <2>1
<1>2. State \in Nat /\ EncryptedData \in Nat /\ EncryptedData # State
  BY DEF State, EncryptedData
<1> DEFINE l1 == Add(nothing, State, v5)
           l2 == Add(l1, EncryptedData, data)
<1>3. Find(nothing, EncryptedData) = <<>>
  BY <1>1, FindsNothing
<1>4. l1 \in Seq(Tlv) /\ Find(l1, EncryptedData) = <<>>
  <2>1. /\ Add(nothing, State, v5) \in Seq(Tlv)
        /\ Find(Add(nothing, State, v5), EncryptedData) = Find(nothing, EncryptedData)
    <3> HIDE DEF l1, l2
    <3> QED
      BY <1>2, FindsOther
  <2> QED
    BY <1>3, <2>1
<1> HIDE DEF l1
<1>5. Find(l2, EncryptedData) = data
  BY <1>2, <1>4, FindsValue
<1>6. l2 = List5(n, srp)
  BY <1>1 DEF List5, l1
<1> QED
  BY <1>1, <1>5, <1>6

(***************************************************************************)
(* However a request is cut into frames and blocks, when all of it arrived *)
(* in time and fits, its handler gets the whole content and finds in it    *)
(* the values that the controller put there, keys of any length and TLVs   *)
(* of any largest fragment included.                                       *)
(***************************************************************************)
THEOREM RequestCorrect == Spec => []RequestIsWhole
<1>1. Inv => RequestIsWhole
  <2> DEFINE r == ctl.request
  <2> SUFFICES ASSUME Inv, req.pc = "handle", ~req.late,
                      acc.secure => Size(r) + 2 * Overhead <= RecvSize
               PROVE  /\ Whole
                      /\ r.kind = "M3" =>
                           Get(Message, PublicKey) = Public(0, r.n) /\ Get(Message, Proof) = <<r.srp>>
                      /\ r.kind = "M5" => Get(Message, EncryptedData) = Public(r.srp, r.n)
    BY DEF RequestIsWhole
  <2>1. /\ TypeInv /\ RequestInv /\ WholeInv /\ Pending /\ r \in Requests
        /\ req.got + Data(up) + acc.buffer = Size(r)
    BY InvFields, HandlerPending
  <2>2. up = <<>> /\ acc.buffer = 0
    BY <2>1 DEF WholeInv, FitsRead
  <2>3. Data(up) = 0 /\ req.got \in Nat
    BY <2>1, <2>2, Fields
  <2>4. req.got = Size(r)
    BY <2>1, <2>2, <2>3
  <2>5. /\ r.n \in Nat /\ r.srp \in Nat /\ r.content \in Seq(Nat)
        /\ r = Request(r.kind, r.n, r.srp)
    BY <2>1, RequestFields
  <2>6. Message = Deserialize(r.content)
    <3>1. req.got - HeaderSize = Len(r.content)
      BY <2>4, <2>5, Constants DEF Size
    <3>2. SubSeq(r.content, 1, Len(r.content)) = r.content
      BY <2>5
    <3> QED
      BY <3>1, <3>2 DEF Message
  <2>7. r.kind = "M3" => r.content = Serialize(List3(r.n, r.srp))
    <3>1. Request(r.kind, r.n, r.srp).content
            = CASE r.kind = "M1" -> Serialize(List1)
                [] r.kind = "M3" -> Serialize(List3(r.n, r.srp))
                [] r.kind = "M5" -> Serialize(List5(r.n, r.srp))
                [] OTHER -> [i \in 1..r.n |-> i]
      BY DEF Request, List1, List3, List5
    <3> HIDE DEF r
    <3> QED
      BY <2>5, <3>1
  <2>8. r.kind = "M5" => r.content = Serialize(List5(r.n, r.srp))
    <3>1. Request(r.kind, r.n, r.srp).content
            = CASE r.kind = "M1" -> Serialize(List1)
                [] r.kind = "M3" -> Serialize(List3(r.n, r.srp))
                [] r.kind = "M5" -> Serialize(List5(r.n, r.srp))
                [] OTHER -> [i \in 1..r.n |-> i]
      BY DEF Request, List1, List3, List5
    <3> HIDE DEF r
    <3> QED
      BY <2>5, <3>1
  <2>9. Whole
    BY <2>4 DEF Whole
  <2>10. ASSUME r.kind = "M3"
         PROVE  Get(Message, PublicKey) = Public(0, r.n) /\ Get(Message, Proof) = <<r.srp>>
    <3>1. Message = Deserialize(Serialize(List3(r.n, r.srp)))
      BY <2>6, <2>7, <2>10
    <3>2. Find(List3(r.n, r.srp), PublicKey) = Public(0, r.n) /\ Find(List3(r.n, r.srp), Proof) = <<r.srp>>
      BY <2>5, ValuesOf3
    <3> QED
      BY <3>1, <3>2 DEF Find
  <2>11. ASSUME r.kind = "M5"
         PROVE  Get(Message, EncryptedData) = Public(r.srp, r.n)
    <3>1. Message = Deserialize(Serialize(List5(r.n, r.srp)))
      BY <2>6, <2>8, <2>11
    <3>2. Find(List5(r.n, r.srp), EncryptedData) = Public(r.srp, r.n)
      BY <2>5, ValueOf5
    <3> QED
      BY <3>1, <3>2 DEF Find
  <2> QED
    BY <2>9, <2>10, <2>11
<1> QED
  BY <1>1, Invariant, PTL

(***************************************************************************)
(* M3 and M5 find the SRP key of the last M2 that the controller read,     *)
(* live, and what M3 computed, in any order of attempts and failures.      *)
(***************************************************************************)
THEOREM SetupKeysCorrect == Spec => []SetupUsesLiveKeys
<1>1. Inv => SetupUsesLiveKeys
  <2> SUFFICES ASSUME Inv, req.pc = "handle", ctl.request.kind \in {"M3", "M5"}
               PROVE  /\ keys.srp # 0 /\ keys.srp = ctl.srp
                      /\ IF ctl.request.kind = "M3" THEN keys.pub = keys.srp ELSE keys.computed
    BY DEF SetupUsesLiveKeys
  <2>1. KeysInv /\ ~Answer
    BY InvFields, HandlerPending
  <2>2. CASE ctl.request.kind = "M3"
    BY <2>1, <2>2 DEF KeysInv, Live
  <2>3. CASE ctl.request.kind = "M5"
    BY <2>1, <2>3 DEF KeysInv, Live
  <2> QED
    BY <2>2, <2>3
<1> QED
  BY <1>1, Invariant, PTL

=============================================================================
