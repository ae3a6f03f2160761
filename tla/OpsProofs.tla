------------------------------ MODULE OpsProofs ------------------------------
(***************************************************************************)
(* Facts about byte strings and hashes that the proofs rest on.            *)
(***************************************************************************)
EXTENDS Ops, TLAPS, SequenceTheorems, FiniteSetTheorems

(* Any sequence is a byte string: its own bytes are the set it is over. *)
LEMMA SequenceIntro ==
    ASSUME NEW S, NEW s \in Seq(S)
    PROVE  IsSequence(s)
BY SeqOfRange DEF IsSequence

LEMMA EmptySequence == IsSequence(<<>>)
<1>1. <<>> \in Seq({})
  OBVIOUS
<1> QED
  BY <1>1, SequenceIntro

(* A function on 1..n is one, whatever its values. *)
LEMMA FunctionSequence ==
    ASSUME NEW n \in Nat, NEW f, f = [i \in 1..n |-> f[i]]
    PROVE  IsSequence(f) /\ Len(f) = n
<1>1. f \in Seq({f[i] : i \in 1..n})
  OBVIOUS
<1> QED
  BY <1>1, SequenceIntro

LEMMA SequenceType ==
    ASSUME NEW s, IsSequence(s)
    PROVE  /\ Len(s) \in Nat
           /\ DOMAIN s = 1..Len(s)
           /\ s = <<>> <=> Len(s) = 0
BY DEF IsSequence

(* Concatenation keeps both strings where they are. *)
LEMMA ConcatSequences ==
    ASSUME NEW s, NEW t, IsSequence(s), IsSequence(t)
    PROVE  /\ IsSequence(s \o t)
           /\ Len(s \o t) = Len(s) + Len(t)
           /\ \A i \in 1..Len(s) : (s \o t)[i] = s[i]
           /\ \A i \in 1..Len(t) : (s \o t)[Len(s) + i] = t[i]
<1> DEFINE S == Range(s) \union Range(t)
<1>1. s \in Seq(S) /\ t \in Seq(S)
  BY SeqMonotonic DEF IsSequence
<1>2. s \o t \in Seq(S)
  BY <1>1
<1>3. /\ Len(s \o t) = Len(s) + Len(t)
      /\ \A i \in 1..Len(s) : (s \o t)[i] = s[i]
      /\ \A i \in 1..Len(t) : (s \o t)[Len(s) + i] = t[i]
  BY <1>1, Z3
<1>4. IsSequence(s \o t)
  BY <1>2, SequenceIntro
<1> QED
  BY <1>3, <1>4

(* x consists of a, b and whatever follows them in c's length. *)
Parts(x, a, b, c) ==
    /\ Len(x) = Len(a) + Len(b) + Len(c)
    /\ \A i \in 1..Len(a) : x[i] = a[i]
    /\ \A i \in 1..Len(b) : x[Len(a) + i] = b[i]

LEMMA ConcatThree ==
    ASSUME NEW a, NEW b, NEW c, NEW x, x = a \o b \o c,
           IsSequence(a), IsSequence(b), IsSequence(c)
    PROVE  IsSequence(x) /\ Parts(x, a, b, c)
<1> DEFINE ab == a \o b
<1>1. Len(a) \in Nat /\ Len(b) \in Nat /\ Len(c) \in Nat
  BY SequenceType
<1>2. /\ IsSequence(ab)
      /\ Len(ab) = Len(a) + Len(b)
      /\ \A i \in 1..Len(a) : ab[i] = a[i]
      /\ \A i \in 1..Len(b) : ab[Len(a) + i] = b[i]
  BY ConcatSequences
<1> HIDE DEF ab
<1>3. x = ab \o c
  BY DEF ab
<1>4. /\ IsSequence(ab \o c)
      /\ Len(ab \o c) = Len(ab) + Len(c)
      /\ \A i \in 1..Len(ab) : (ab \o c)[i] = ab[i]
  BY <1>2, ConcatSequences
<1>5. /\ IsSequence(x)
      /\ Len(x) = Len(ab) + Len(c)
      /\ \A i \in 1..Len(ab) : x[i] = ab[i]
  BY <1>3, <1>4
<1>6. \A i \in 1..Len(a) : i \in 1..Len(ab)
  BY <1>1, <1>2
<1>7. \A i \in 1..Len(b) : Len(a) + i \in 1..Len(ab)
  BY <1>1, <1>2
<1> QED
  BY <1>1, <1>2, <1>5, <1>6, <1>7 DEF Parts

(* Two strings of the same bytes are the same. *)
LEMMA EqualSequences ==
    ASSUME NEW s, NEW t, IsSequence(s), IsSequence(t), Len(s) = Len(t),
           \A i \in 1..Len(s) : s[i] = t[i]
    PROVE  s = t
<1> DEFINE S == Range(s) \union Range(t)
<1>1. s \in Seq(S) /\ t \in Seq(S)
  BY SeqMonotonic DEF IsSequence
<1> QED
  BY <1>1, SeqEqual

(* Associativity, for strings. *)
Regroups(a, b, c) == (a \o b) \o c = a \o (b \o c)

LEMMA ConcatRegroup ==
    ASSUME NEW a, NEW b, NEW c, IsSequence(a), IsSequence(b), IsSequence(c)
    PROVE  (a \o b) \o c = a \o (b \o c)
<1> DEFINE S == Range(a) \union Range(b) \union Range(c)
<1>1. a \in Seq(S) /\ b \in Seq(S) /\ c \in Seq(S)
  BY SeqMonotonic DEF IsSequence
<1> QED
  BY <1>1

LEMMA ConcatRegroups ==
    ASSUME NEW a, NEW b, NEW c, IsSequence(a), IsSequence(b), IsSequence(c)
    PROVE  Regroups(a, b, c)
BY ConcatRegroup DEF Regroups

(* The same string, cut at the same place. *)
SameCut(a, r, b, s) ==
    /\ IsSequence(a) /\ IsSequence(r) /\ IsSequence(b) /\ IsSequence(s)
    /\ Len(a) = Len(b)
    /\ a \o r = b \o s

LEMMA ConcatCancel ==
    ASSUME NEW a, NEW r, NEW b, NEW s, SameCut(a, r, b, s)
    PROVE  a = b /\ r = s
<1>0. /\ IsSequence(a) /\ IsSequence(r) /\ IsSequence(b) /\ IsSequence(s)
      /\ Len(a) = Len(b)
      /\ a \o r = b \o s
  BY DEF SameCut
<1>1. /\ Len(a \o r) = Len(a) + Len(r)
      /\ \A i \in 1..Len(a) : (a \o r)[i] = a[i]
      /\ \A i \in 1..Len(r) : (a \o r)[Len(a) + i] = r[i]
  <2>1. IsSequence(a) /\ IsSequence(r)
    BY <1>0
  <2> QED
    BY <2>1, ConcatSequences
<1>2. /\ Len(b \o s) = Len(b) + Len(s)
      /\ \A i \in 1..Len(b) : (b \o s)[i] = b[i]
      /\ \A i \in 1..Len(s) : (b \o s)[Len(b) + i] = s[i]
  <2>1. IsSequence(b) /\ IsSequence(s)
    BY <1>0
  <2> QED
    BY <2>1, ConcatSequences
<1>3. Len(a) \in Nat /\ Len(b) \in Nat /\ Len(r) \in Nat /\ Len(s) \in Nat
  BY <1>0, SequenceType
<1>4. a = b
  <2>1. \A i \in 1..Len(a) : a[i] = b[i]
    BY <1>0, <1>1, <1>2
  <2> QED
    BY <1>0, <2>1, EqualSequences
<1>5. r = s
  <2>1. Len(r) = Len(s)
    BY <1>0, <1>1, <1>2, <1>3
  <2>2. \A i \in 1..Len(r) : r[i] = s[i]
    BY <1>0, <1>1, <1>2, <2>1
  <2> QED
    BY <1>0, <2>1, <2>2, EqualSequences
<1> QED
  BY <1>4, <1>5

(* A part of a string. *)
LEMMA SubSeqPart ==
    ASSUME NEW s, IsSequence(s), NEW a \in Nat, NEW b \in Nat,
           1 <= a, a <= b + 1, b <= Len(s)
    PROVE  /\ IsSequence(SubSeq(s, a, b))
           /\ Len(SubSeq(s, a, b)) = b - a + 1
           /\ \A i \in 1..(b - a + 1) : SubSeq(s, a, b)[i] = s[a + i - 1]
<1>1. s \in Seq(Range(s))
  BY DEF IsSequence
<1>2. SubSeq(s, a, b) \in Seq(Range(s))
  BY <1>1
<1>3. /\ Len(SubSeq(s, a, b)) = b - a + 1
      /\ \A i \in 1..(b - a + 1) : SubSeq(s, a, b)[i] = s[a + i - 1]
  BY <1>1
<1> QED
  BY <1>2, <1>3, SequenceIntro

-----------------------------------------------------------------------------
LEMMA DigestType ==
    ASSUME NEW f \in HashFunction, NEW x
    PROVE  /\ IsSequence(Digest(f, x))
           /\ Len(Digest(f, x)) = HashLen[f]
           /\ HashLen[f] \in Nat \ {0}
           /\ Digest(f, x)[1] = <<f, x>>
<1>1. HashLen[f] \in Nat \ {0}
  BY HashLenAssumption
<1>2. Digest(f, x) \in Seq({<<f, x>>, Filler})
  BY <1>1 DEF Digest
<1>3. Len(Digest(f, x)) = HashLen[f] /\ Digest(f, x)[1] = <<f, x>>
  BY <1>1 DEF Digest
<1> QED
  BY <1>1, <1>2, <1>3, SequenceIntro

(* Hash functions do not collide. *)
LEMMA DigestInjective ==
    ASSUME NEW f \in HashFunction, NEW x, NEW g \in HashFunction, NEW y,
           Digest(f, x) = Digest(g, y)
    PROVE  f = g /\ x = y
<1>1. <<f, x>> = <<g, y>>
  BY DigestType
<1> QED
  BY <1>1

LEMMA OuterFunctionType ==
    ASSUME NEW op \in HashOp \ {"NO_HASH"}
    PROVE  /\ OuterFunction(op) \in HashFunction
           /\ DigestLen(op) \in Nat \ {0}
<1>1. OuterFunction(op) \in HashFunction
  BY DEF OuterFunction, HashOp, HashFunction
<1> QED
  BY <1>1, HashLenAssumption DEF DigestLen

(* What a hash operation other than NO_HASH returns. *)
LEMMA DoHashIsDigest ==
    ASSUME NEW op \in HashOp \ {"NO_HASH"}, NEW x
    PROVE  \E y : DoHash(op, x) = Digest(OuterFunction(op), y)
<1>1. CASE op = "BITCOIN"
  BY <1>1 DEF DoHash, OuterFunction, HashFunction
<1>2. CASE op # "BITCOIN"
  BY <1>2 DEF DoHash, OuterFunction, HashOp, HashFunction
<1> QED
  BY <1>1, <1>2

LEMMA DoHashInjective ==
    ASSUME NEW op \in HashOp \ {"NO_HASH"}, NEW x, NEW y,
           DoHash(op, x) = DoHash(op, y)
    PROVE  x = y
<1>1. CASE op = "BITCOIN"
  <2>1. Digest("RIPEMD160", Digest("SHA256", x)) =
            Digest("RIPEMD160", Digest("SHA256", y))
    BY <1>1 DEF DoHash, HashFunction
  <2>2. "RIPEMD160" \in HashFunction /\ "SHA256" \in HashFunction
    BY DEF HashFunction
  <2>3. Digest("SHA256", x) = Digest("SHA256", y)
    BY <2>1, <2>2, DigestInjective
  <2> QED
    BY <2>2, <2>3, DigestInjective
<1>2. CASE op # "BITCOIN"
  <2>1. op \in HashFunction
    BY <1>2 DEF HashOp
  <2>2. Digest(op, x) = Digest(op, y)
    BY <1>2, <2>1 DEF DoHash, HashFunction
  <2> QED
    BY <2>1, <2>2, DigestInjective
<1> QED
  BY <1>1, <1>2

LEMMA DoHashType ==
    ASSUME NEW op \in HashOp, NEW x, IsSequence(x)
    PROVE  IsSequence(DoHash(op, x))
<1>1. CASE op = "NO_HASH"
  BY <1>1 DEF DoHash, HashFunction
<1>2. CASE op # "NO_HASH"
  BY <1>2, DoHashIsDigest, OuterFunctionType, DigestType
<1> QED
  BY <1>1, <1>2

-----------------------------------------------------------------------------
LEMMA EncodeVarintType ==
    ASSUME NEW n
    PROVE  IsSequence(EncodeVarint(n))
<1> DEFINE K == {k \in 1..(MaxVarintBytes - 1) : n >= Power(Half, k)}
<1>1. IsFiniteSet(1..(MaxVarintBytes - 1))
  BY FS_Interval, MaxVarintBytesAssumption
<1>2. Cardinality(K) \in Nat
  BY <1>1, FS_Subset, FS_CardinalityType
<1>3. VarintSize(n) \in Nat
  BY <1>2 DEF VarintSize
<1>4. EncodeVarint(n) = [i \in 1..VarintSize(n) |-> EncodeVarint(n)[i]]
  BY DEF EncodeVarint
<1> QED
  BY <1>3, <1>4, FunctionSequence

LEMMA DoLengthType ==
    ASSUME NEW op, NEW x, IsSequence(x)
    PROVE  IsSequence(DoLength(op, x))
<1>1. \A n, w : w \in Nat => IsSequence(BigEndian(n, w)) /\ IsSequence(LittleEndian(n, w))
  <2> TAKE n, w
  <2> HAVE w \in Nat
  <2>1. BigEndian(n, w) = [i \in 1..w |-> BigEndian(n, w)[i]]
    BY DEF BigEndian
  <2>2. LittleEndian(n, w) = [i \in 1..w |-> LittleEndian(n, w)[i]]
    BY DEF LittleEndian
  <2> QED
    BY <2>1, <2>2, FunctionSequence
<1>2. \E h : (IsSequence(h) /\ DoLength(op, x) = h \o x) \/ DoLength(op, x) = x
  BY <1>1, EncodeVarintType DEF DoLength
<1> QED
  BY <1>2, ConcatSequences

(* The image of a leaf is a string, and begins with the leaf's prefix. *)
LEMMA LeafImageType ==
    ASSUME NEW leaf, NEW key, NEW value,
           IsSequence(leaf.prefix), IsSequence(key), IsSequence(value),
           leaf.prehash_key \in HashOp, leaf.prehash_value \in HashOp
    PROVE  LET image == LeafImage(leaf, key, value)
           IN  /\ IsSequence(image)
               /\ Len(leaf.prefix) <= Len(image)
               /\ \A i \in 1..Len(leaf.prefix) : image[i] = leaf.prefix[i]
<1> DEFINE k == PrepareLeafData(leaf.prehash_key, leaf.length, key)
           v == PrepareLeafData(leaf.prehash_value, leaf.length, value)
           p == leaf.prefix
<1>1. IsSequence(k) /\ IsSequence(v)
  BY DoHashType, DoLengthType DEF PrepareLeafData
<1> HIDE DEF k, v
<1>2. /\ IsSequence(p \o k)
      /\ Len(p \o k) = Len(p) + Len(k)
      /\ \A i \in 1..Len(p) : (p \o k)[i] = p[i]
  BY <1>1, ConcatSequences
<1>3. /\ IsSequence((p \o k) \o v)
      /\ Len((p \o k) \o v) = Len(p \o k) + Len(v)
      /\ \A i \in 1..Len(p \o k) : ((p \o k) \o v)[i] = (p \o k)[i]
  BY <1>1, <1>2, ConcatSequences
<1>4. Len(p) \in Nat /\ Len(k) \in Nat /\ Len(v) \in Nat
  BY <1>1, SequenceType
<1>5. LeafImage(leaf, key, value) = (p \o k) \o v
  BY DEF LeafImage, k, v
<1>6. \A i \in 1..Len(p) : i \in 1..Len(p \o k)
  BY <1>2, <1>4
<1> QED
  BY <1>2, <1>3, <1>4, <1>5, <1>6

-----------------------------------------------------------------------------
(* Induction, and numbers written in digits. *)

(* Induction on the natural numbers, for a set in place of a predicate: a  *)
(* number outside X would give an injection of the part of X below it into *)
(* that part without 0.                                                    *)
LEMMA SetInduction ==
    ASSUME NEW X, 0 \in X, \A n \in Nat : n \in X => n + 1 \in X
    PROVE  \A n \in Nat : n \in X
<1> SUFFICES ASSUME NEW n \in Nat, n \notin X PROVE FALSE
  OBVIOUS
<1> DEFINE A    == X \intersect (0..n)
           next == [x \in A |-> x + 1]
<1>1. IsFiniteSet(A) /\ Cardinality(A) \in Nat
  <2>1. IsFiniteSet(0..n)
    BY FS_Interval
  <2>2. A \in SUBSET (0..n)
    OBVIOUS
  <2> HIDE DEF A
  <2> QED
    BY <2>1, <2>2, FS_Subset, FS_CardinalityType
<1>2. IsFiniteSet(A \ {0}) /\ Cardinality(A \ {0}) = Cardinality(A) - 1
  <2>1. 0 \in A
    OBVIOUS
  <2> HIDE DEF A
  <2> QED
    BY <1>1, <2>1, FS_RemoveElement
<1>3. next \in [A -> A \ {0}]
  OBVIOUS
<1>4. PICK x \in A, y \in A : x # y /\ next[x] = next[y]
  <2> HIDE DEF A, next
  <2> QED
    BY <1>1, <1>2, <1>3, FS_PigeonHole
<1> QED
  BY <1>4

(* The same, up to a bound. *)
LEMMA BoundedInduction ==
    ASSUME NEW n \in Nat, NEW X, 0 \in X,
           \A k \in 0..(n - 1) : k \in X => k + 1 \in X
    PROVE  \A k \in 0..n : k \in X
<1> DEFINE Y == {k \in Nat : k <= n => k \in X}
<1>1. 0 \in Y /\ \A k \in Nat : k \in Y => k + 1 \in Y
  OBVIOUS
<1>2. \A k \in Nat : k \in Y
  <2> HIDE DEF Y
  <2> QED
    BY <1>1, SetInduction
<1> QED
  BY <1>2

(* A set of places that is not empty has a first one. *)
LEMMA FirstPlace ==
    ASSUME NEW n \in Nat, NEW places \in SUBSET (0..n), places # {}
    PROVE  \E i \in places : \A j \in places : i <= j
<1> SUFFICES ASSUME \A i \in places : \E j \in places : j < i
             PROVE  FALSE
  OBVIOUS
<1> DEFINE X == {k \in 0..n : \A j \in places : k < j}
<1>1. 0 \in X
  <2>1. 0 \notin places
    OBVIOUS
  <2> QED
    BY <2>1
<1>2. \A k \in 0..(n - 1) : k \in X => k + 1 \in X
  <2> SUFFICES ASSUME NEW k \in 0..(n - 1), k \in X PROVE k + 1 \in X
    OBVIOUS
  <2>1. \A j \in places : k + 1 <= j
    OBVIOUS
  <2>2. k + 1 \notin places
    BY <2>1
  <2> QED
    BY <2>1, <2>2
<1>3. \A k \in 0..n : k \in X
  <2> HIDE DEF X
  <2> QED
    BY <1>1, <1>2, BoundedInduction
<1>4. \A j \in places : n < j
  BY <1>3
<1>5. PICK j \in places : TRUE
  OBVIOUS
<1> QED
  BY <1>4, <1>5

(* A function given by its first value and by each value from the one      *)
(* before it.                                                              *)
IsRecursive(f, a, G, n) ==
    /\ f[0] = a
    /\ \A i \in Nat : i < n => f[i + 1] = G[f[i]]

LEMMA PrimitiveRecursion ==
    ASSUME NEW S, NEW a \in S, NEW G \in [S -> S]
    PROVE  \E f \in [Nat -> S] :
               f[0] = a /\ \A n \in Nat : f[n + 1] = G[f[n]]
<1> DEFINE Upto(n) == {f \in [0..n -> S] : IsRecursive(f, a, G, n)}
           X == {n \in Nat : Upto(n) # {}}
<1>1. 0 \in X
  <2>1. [i \in 0..0 |-> a] \in Upto(0)
    BY DEF IsRecursive
  <2> QED
    BY <2>1
<1>2. ASSUME NEW n \in Nat, n \in X PROVE n + 1 \in X
  <2>1. PICK f \in [0..n -> S] : IsRecursive(f, a, G, n)
    BY <1>2
  <2> DEFINE g == [i \in 0..(n + 1) |-> IF i = n + 1 THEN G[f[n]] ELSE f[i]]
  <2>2. g \in [0..(n + 1) -> S]
    OBVIOUS
  <2>3. IsRecursive(g, a, G, n + 1)
    BY <2>1 DEF IsRecursive
  <2> HIDE DEF g
  <2>4. Upto(n + 1) # {}
    BY <2>2, <2>3
  <2> QED
    BY <2>4
<1>3. \A n \in Nat : n \in X
  <2> HIDE DEF X
  <2> QED
    BY <1>1, <1>2, SetInduction
(* Two of them agree as far as both go. *)
<1>4. ASSUME NEW m \in Nat, NEW n \in Nat, NEW f \in Upto(m), NEW g \in Upto(n)
      PROVE  \A i \in Nat : (i <= m /\ i <= n) => f[i] = g[i]
  <2> DEFINE Y == {i \in Nat : (i <= m /\ i <= n) => f[i] = g[i]}
  <2>0. IsRecursive(f, a, G, m) /\ IsRecursive(g, a, G, n)
    OBVIOUS
  <2>1. 0 \in Y
    BY <2>0 DEF IsRecursive
  <2>2. ASSUME NEW i \in Nat, i \in Y PROVE i + 1 \in Y
    BY <2>0, <2>2 DEF IsRecursive
  <2>3. \A i \in Nat : i \in Y
    <3> HIDE DEF Y
    <3> QED
      BY <2>1, <2>2, SetInduction
  <2> QED
    BY <2>3
<1> DEFINE F(n) == CHOOSE f : f \in Upto(n)
           h    == [n \in Nat |-> F(n)[n]]
<1>5. \A n \in Nat : F(n) \in Upto(n)
  BY <1>3
<1>6. h \in [Nat -> S]
  <2> SUFFICES ASSUME NEW n \in Nat PROVE F(n)[n] \in S
    OBVIOUS
  <2>1. F(n) \in [0..n -> S]
    BY <1>5
  <2> HIDE DEF F
  <2> QED
    BY <2>1
<1>7. h[0] = a
  <2>1. F(0)[0] = a
    BY <1>5 DEF IsRecursive
  <2> QED
    BY <2>1
<1>8. ASSUME NEW n \in Nat PROVE h[n + 1] = G[h[n]]
  <2>1. F(n + 1) \in Upto(n + 1) /\ F(n) \in Upto(n)
    BY <1>5
  <2>2. F(n + 1)[n + 1] = G[F(n + 1)[n]]
    <3>1. IsRecursive(F(n + 1), a, G, n + 1)
      BY <2>1
    <3> HIDE DEF F
    <3> QED
      BY <3>1 DEF IsRecursive
  <2>3. F(n + 1)[n] = F(n)[n]
    <3> HIDE DEF F, Upto
    <3> QED
      BY <1>4, <2>1
  <2> QED
    BY <2>2, <2>3
<1> QED
  <2> HIDE DEF h
  <2> QED
    BY <1>6, <1>7, <1>8

(* f is what applying G to a, over and over, gives. *)
IsIteration(f, S, a, G) ==
    /\ f \in [Nat -> S]
    /\ f[0] = a /\ \A n \in Nat : f[n + 1] = G[f[n]]

LEMMA Iteration ==
    ASSUME NEW S, NEW a \in S, NEW G \in [S -> S]
    PROVE  \E f : IsIteration(f, S, a, G)
<1>1. PICK f \in [Nat -> S] : f[0] = a /\ \A n \in Nat : f[n + 1] = G[f[n]]
  BY PrimitiveRecursion
<1> QED
  BY <1>1 DEF IsIteration

(* The powers of b. *)
LEMMA PowerStep ==
    ASSUME NEW b \in Nat
    PROVE  /\ Power(b, 0) = 1
           /\ \A n \in Nat : /\ Power(b, n) \in Nat
                             /\ Power(b, n + 1) = b * Power(b, n)
<1> DEFINE G == [x \in Nat |-> b * x]
           E(f) == [k \in Nat |-> IF k = 0 THEN 1 ELSE b * f[k - 1]]
<1>1. PICK f \in [Nat -> Nat] : f[0] = 1 /\ \A n \in Nat : f[n + 1] = G[f[n]]
  <2> DEFINE S == Nat
             a == 1
  <2>1. a \in S /\ G \in [S -> S]
    OBVIOUS
  <2> HIDE DEF S, G, a
  <2>2. \E f \in [Nat -> S] : f[0] = a /\ \A n \in Nat : f[n + 1] = G[f[n]]
    BY <2>1, PrimitiveRecursion
  <2> QED
    BY <2>2 DEF S, a
<1>2. f = E(f)
  <2>1. ASSUME NEW k \in Nat PROVE f[k] = IF k = 0 THEN 1 ELSE b * f[k - 1]
    <3>1. CASE k = 0
      BY <1>1, <3>1
    <3>2. CASE k # 0
      <4>1. k - 1 \in Nat /\ (k - 1) + 1 = k
        BY <3>2
      <4>2. f[(k - 1) + 1] = G[f[k - 1]] /\ f[k - 1] \in Nat
        BY <1>1, <4>1
      <4> QED
        BY <3>2, <4>1, <4>2
    <3> QED
      BY <3>1, <3>2
  <2> QED
    BY <2>1
<1> DEFINE p == CHOOSE p : p = E(p)
<1>3. p = E(p)
  BY <1>2
<1>4. \A n : Power(b, n) = p[n]
  BY DEF Power
<1> HIDE DEF p
<1>5. p[0] = 1 /\ \A n \in Nat : p[n + 1] = b * p[n]
  BY <1>3
<1> DEFINE X == {n \in Nat : p[n] \in Nat}
<1>6. \A n \in Nat : n \in X
  <2>1. 0 \in X /\ \A n \in Nat : n \in X => n + 1 \in X
    BY <1>5
  <2> HIDE DEF X
  <2> QED
    BY <2>1, SetInduction
<1> QED
  BY <1>4, <1>5, <1>6

LEMMA PowerPositive ==
    ASSUME NEW b \in Nat \ {0}, NEW n \in Nat
    PROVE  Power(b, n) \in Nat \ {0}
<1> DEFINE X == {k \in Nat : Power(b, k) \in Nat \ {0}}
<1>1. 0 \in X
  BY PowerStep
<1>2. ASSUME NEW k \in Nat, k \in X PROVE k + 1 \in X
  <2>1. Power(b, k) \in Nat \ {0} /\ Power(b, k + 1) = b * Power(b, k)
    BY <1>2, PowerStep
  <2>2. \A x, y \in Nat \ {0} : x * y \in Nat \ {0}
    OBVIOUS
  <2> QED
    BY <2>1, <2>2
<1> QED
  <2> HIDE DEF X
  <2>1. n \in X
    BY <1>1, <1>2, SetInduction
  <2> QED
    BY <2>1 DEF X

LEMMA PowerMonotonic ==
    ASSUME NEW b \in Nat \ {0}, NEW m \in Nat, NEW n \in Nat, m <= n
    PROVE  Power(b, m) <= Power(b, n)
<1> DEFINE X == {d \in Nat : Power(b, m) <= Power(b, m + d)}
<1>0. \A k \in Nat : Power(b, k) \in Nat \ {0}
  BY PowerPositive
<1>1. 0 \in X
  BY <1>0
<1>2. ASSUME NEW d \in Nat, d \in X PROVE d + 1 \in X
  <2>1. Power(b, m + (d + 1)) = b * Power(b, m + d)
    <3>1. m + d \in Nat /\ m + (d + 1) = (m + d) + 1
      OBVIOUS
    <3> QED
      BY <3>1, PowerStep
  <2>2. \A x \in Nat \ {0} : x <= b * x
    OBVIOUS
  <2>3. Power(b, m + d) <= Power(b, m + (d + 1))
    BY <1>0, <2>1, <2>2
  <2> QED
    BY <1>0, <1>2, <2>3
<1>3. n - m \in X
  <2> HIDE DEF X
  <2> QED
    BY <1>1, <1>2, SetInduction
<1> QED
  BY <1>3

(* The digit of n at place i, from 0, in base b. *)
DigitAt(n, b, i) == (n \div Power(b, i)) % b

LEMMA DivisionTwice ==
    ASSUME NEW n \in Nat, NEW a \in Nat \ {0}, NEW b \in Nat \ {0}
    PROVE  n \div (a * b) = (n \div a) \div b
  OBVIOUS

LEMMA DivisionBelow ==
    ASSUME NEW n \in Nat, NEW a \in Nat \ {0}, NEW b \in Nat \ {0}, n < a * b
    PROVE  n \div a \in Nat /\ n \div a < b
  OBVIOUS

LEMMA DivisionDetermines ==
    ASSUME NEW n \in Nat, NEW m \in Nat, NEW b \in Nat \ {0},
           n \div b = m \div b, n % b = m % b
    PROVE  n = m
  OBVIOUS

LEMMA DigitsShift ==
    ASSUME NEW b \in Nat \ {0}, NEW z \in Nat, NEW i \in Nat
    PROVE  DigitAt(z \div b, b, i) = DigitAt(z, b, i + 1)
<1> DEFINE q == Power(b, i)
<1>1. q \in Nat \ {0} /\ Power(b, i + 1) = b * q
  BY PowerStep, PowerPositive
<1> HIDE DEF q
<1>2. (z \div b) \div q = z \div (b * q)
  BY <1>1, DivisionTwice
<1> QED
  BY <1>1, <1>2 DEF DigitAt, q

LEMMA DigitsCarry ==
    ASSUME NEW b \in Nat \ {0}, NEW x \in Nat, NEW y \in Nat, NEW q \in Nat,
           x % b = y % b, x \div b + q <= y \div b
    PROVE  x + b * q <= y
<1> DEFINE c == x \div b
           d == y \div b
           r == x % b
<1>1. c \in Nat /\ d \in Nat /\ r \in Nat /\ x = b * c + r /\ y = b * d + r
  OBVIOUS
<1>2. c + q <= d
  OBVIOUS
<1> HIDE DEF c, d, r
<1>3. b * (c + q) <= b * d
  BY <1>1, <1>2
<1>4. b * (c + q) = b * c + b * q
  BY <1>1
<1> QED
  BY <1>1, <1>3, <1>4

(* A number is told by its digits from all but much greater numbers.       *)
LEMMA DigitsTell ==
    ASSUME NEW b \in Nat \ {0}, NEW w \in Nat,
           NEW n \in Nat, NEW m \in Nat, n < Power(b, w),
           \A i \in 0..(w - 1) : DigitAt(n, b, i) = DigitAt(m, b, i)
    PROVE  n = m \/ n + Power(b, w) <= m
<1> DEFINE P(k) == \A x, y \in Nat :
               (/\ x < Power(b, k)
                /\ \A i \in 0..(k - 1) : DigitAt(x, b, i) = DigitAt(y, b, i)) =>
                   (x = y \/ x + Power(b, k) <= y)
           X == {k \in Nat : P(k)}
<1>0. /\ Power(b, 0) = 1
      /\ \A k \in Nat : Power(b, k) \in Nat \ {0} /\ Power(b, k + 1) = b * Power(b, k)
  BY PowerStep, PowerPositive
<1>1. P(0)
  BY <1>0
<1>2. ASSUME NEW k \in Nat, P(k) PROVE P(k + 1)
  <2> SUFFICES ASSUME NEW x \in Nat, NEW y \in Nat, x < Power(b, k + 1),
                      \A i \in 0..k : DigitAt(x, b, i) = DigitAt(y, b, i)
               PROVE  x = y \/ x + Power(b, k + 1) <= y
    OBVIOUS
  <2>1. x \div b \in Nat /\ x \div b < Power(b, k)
    BY <1>0, DivisionBelow
  <2>2. y \div b \in Nat
    OBVIOUS
  <2>3. ASSUME NEW i \in 0..(k - 1)
        PROVE  DigitAt(x \div b, b, i) = DigitAt(y \div b, b, i)
    <3>1. i \in Nat /\ i + 1 \in 0..k
      OBVIOUS
    <3> QED
      BY <3>1, DigitsShift
  <2>4. x \div b = y \div b \/ x \div b + Power(b, k) <= y \div b
    BY <1>2, <2>1, <2>2, <2>3
  <2>5. x % b = y % b
    <3>1. DigitAt(x, b, 0) = DigitAt(y, b, 0)
      OBVIOUS
    <3>2. \A z \in Nat : DigitAt(z, b, 0) = z % b
      BY <1>0 DEF DigitAt
    <3> QED
      BY <3>1, <3>2
  <2>6. CASE x \div b = y \div b
    BY <2>5, <2>6, DivisionDetermines
  <2>7. CASE x \div b + Power(b, k) <= y \div b
    <3>1. x + b * Power(b, k) <= y
      BY <1>0, <2>5, <2>7, DigitsCarry
    <3> QED
      BY <1>0, <3>1
  <2> QED
    BY <2>4, <2>6, <2>7
<1>3. w \in X
  <2> HIDE DEF P
  <2>1. 0 \in X /\ \A k \in Nat : k \in X => k + 1 \in X
    BY <1>1, <1>2
  <2> HIDE DEF X
  <2> QED
    BY <2>1, SetInduction
<1> QED
  BY <1>3

(* A number is told by its digits, as many as it has room for. *)
LEMMA DigitsDetermine ==
    ASSUME NEW b \in Nat \ {0}, NEW w \in Nat,
           NEW n \in Nat, NEW m \in Nat, n < Power(b, w), m < Power(b, w),
           \A i \in 0..(w - 1) : DigitAt(n, b, i) = DigitAt(m, b, i)
    PROVE  n = m
<1>1. Power(b, w) \in Nat
  BY PowerStep
<1> QED
  BY <1>1, DigitsTell

-----------------------------------------------------------------------------
(* Lengths in front of data. *)

LEMMA HalfType == Half \in Nat \ {0} /\ Half >= 2 /\ Radix = 2 * Half
BY RadixAssumption DEF Half

(* The groups of seven bits it takes are the first that n fits in. *)
LEMMA VarintSizeType ==
    ASSUME NEW n \in Nat
    PROVE  /\ VarintSize(n) \in 1..MaxVarintBytes
           /\ n < Power(Half, MaxVarintBytes) => n < Power(Half, VarintSize(n))
<1> DEFINE L(d) == {k \in 1..d : n >= Power(Half, k)}
           c(d) == Cardinality(L(d))
           P(d) == /\ L(d) = 1..c(d) /\ c(d) \in 0..d
                   /\ c(d) = d \/ n < Power(Half, c(d) + 1)
           X == {d \in Nat : P(d)}
<1>0. \A m \in Nat : Cardinality(1..m) = m
  BY FS_Interval
<1>1. P(0)
  <2>1. L(0) = 1..0
    OBVIOUS
  <2> QED
    BY <1>0, <2>1
<1>2. ASSUME NEW d \in Nat, P(d) PROVE P(d + 1)
  <2>1. CASE n >= Power(Half, d + 1)
    <3>1. ASSUME NEW k \in 1..(d + 1) PROVE n >= Power(Half, k)
      <4>1. Power(Half, k) <= Power(Half, d + 1)
        BY HalfType, PowerMonotonic
      <4>2. Power(Half, k) \in Nat /\ Power(Half, d + 1) \in Nat
        <5>1. k \in Nat /\ d + 1 \in Nat
          OBVIOUS
        <5> QED
          BY <5>1, HalfType, PowerStep
      <4> QED
        BY <2>1, <4>1, <4>2
    <3>2. L(d + 1) = 1..(d + 1)
      BY <3>1
    <3>3. Cardinality(1..(d + 1)) = d + 1
      BY <1>0
    <3>4. c(d + 1) = d + 1
      BY <3>2, <3>3
    <3> QED
      BY <3>2, <3>4
  <2>2. CASE ~(n >= Power(Half, d + 1))
    <3>1. L(d + 1) = L(d)
      BY <2>2
    <3>2. Power(Half, d + 1) \in Nat
      BY HalfType, PowerStep
    <3> HIDE DEF L
    <3> QED
      BY <1>2, <2>2, <3>1, <3>2
  <2> QED
    BY <2>1, <2>2
<1>3. P(MaxVarintBytes - 1)
  <2> HIDE DEF P
  <2>1. 0 \in X /\ \A d \in Nat : d \in X => d + 1 \in X
    BY <1>1, <1>2
  <2> HIDE DEF X
  <2>2. MaxVarintBytes - 1 \in X
    BY <2>1, MaxVarintBytesAssumption, SetInduction
  <2> QED
    BY <2>2 DEF X
<1>4. VarintSize(n) = 1 + c(MaxVarintBytes - 1)
  BY DEF VarintSize
<1> HIDE DEF c
<1> QED
  BY <1>3, <1>4, MaxVarintBytesAssumption

(* All groups but the last have the continuation bit set. *)
VarintOf(n, e) ==
    /\ IsSequence(e)
    /\ Len(e) = VarintSize(n)
    /\ \A i \in 1..Len(e) :
           /\ i < Len(e) => e[i] = <<Half + DigitAt(n, Half, i - 1)>>
           /\ i = Len(e) => e[i] = <<DigitAt(n, Half, i - 1)>>

LEMMA DigitType ==
    ASSUME NEW n \in Nat, NEW b \in Nat \ {0}, NEW i \in Nat
    PROVE  DigitAt(n, b, i) \in 0..(b - 1)
<1>1. Power(b, i) \in Nat \ {0}
  BY PowerPositive
<1>2. \A p \in Nat \ {0} : n \div p \in Nat
  OBVIOUS
<1>3. n \div Power(b, i) \in Nat
  BY <1>1, <1>2
<1>4. \A q \in Nat : q % b \in 0..(b - 1)
  OBVIOUS
<1> QED
  BY <1>3, <1>4 DEF DigitAt

LEMMA VarintBytes ==
    ASSUME NEW n \in Nat
    PROVE  VarintOf(n, EncodeVarint(n))
<1>1. VarintSize(n) \in Nat
  BY VarintSizeType, MaxVarintBytesAssumption
<1>2. EncodeVarint(n) = [i \in 1..VarintSize(n) |-> EncodeVarint(n)[i]]
  BY DEF EncodeVarint
<1>3. IsSequence(EncodeVarint(n)) /\ Len(EncodeVarint(n)) = VarintSize(n)
  BY <1>1, <1>2, FunctionSequence
<1>4. \A i \in 1..VarintSize(n) :
          EncodeVarint(n)[i] = <<IF i < VarintSize(n)
                                 THEN Half + DigitAt(n, Half, i - 1)
                                 ELSE DigitAt(n, Half, i - 1)>>
  BY DEF EncodeVarint, Byte, DigitAt
<1> QED
  BY <1>1, <1>3, <1>4 DEF VarintOf

(* The shorter of two varints would end where the longer one goes on. *)
LEMMA VarintNotShorter ==
    ASSUME NEW n \in Nat, NEW m \in Nat, NEW a, NEW b,
           VarintOf(n, a), VarintOf(m, b),
           \A i \in 1..Len(a) : i \in 1..Len(b) => a[i] = b[i]
    PROVE  ~(Len(a) < Len(b))
<1> SUFFICES ASSUME Len(a) < Len(b) PROVE FALSE
  OBVIOUS
<1> DEFINE v == Len(a)
<1>1. v \in Nat /\ v >= 1 /\ Len(b) \in Nat
  <2>1. VarintSize(n) \in 1..MaxVarintBytes /\ VarintSize(m) \in 1..MaxVarintBytes
    BY VarintSizeType
  <2> QED
    BY <2>1, MaxVarintBytesAssumption DEF VarintOf
<1>2. v \in 1..Len(a) /\ v \in 1..Len(b) /\ v < Len(b) /\ v - 1 \in Nat
  BY <1>1
<1> DEFINE x == DigitAt(n, Half, v - 1)
           y == DigitAt(m, Half, v - 1)
<1>3. a[v] = <<x>> /\ b[v] = <<Half + y>>
  BY <1>2 DEF VarintOf
<1>4. x \in 0..(Half - 1) /\ y \in 0..(Half - 1)
  BY <1>2, HalfType, DigitType
<1>5. <<x>> = <<Half + y>>
  BY <1>2, <1>3
<1> HIDE DEF x, y
<1> QED
  BY <1>4, <1>5, HalfType

(* No varint is the beginning of another, and each is of one number. *)
LEMMA VarintPrefixFree ==
    ASSUME NEW n \in Nat, NEW m \in Nat,
           n < Power(Half, MaxVarintBytes), m < Power(Half, MaxVarintBytes),
           NEW r, NEW s, IsSequence(r), IsSequence(s),
           EncodeVarint(n) \o r = EncodeVarint(m) \o s
    PROVE  n = m /\ r = s
<1> DEFINE a == EncodeVarint(n)
           b == EncodeVarint(m)
           v == VarintSize(n)
<1>1. v \in Nat /\ v >= 1
  <2>1. VarintSize(n) \in 1..MaxVarintBytes
    BY VarintSizeType
  <2> QED
    BY <2>1, MaxVarintBytesAssumption
<1>2. VarintOf(n, a) /\ VarintOf(m, b)
  BY VarintBytes
<1> HIDE DEF a, b, v
<1>3. IsSequence(a) /\ IsSequence(b) /\ Len(a) = v /\ Len(a) \in Nat /\ Len(b) \in Nat
  BY <1>2, SequenceType DEF VarintOf, v
<1>4. a \o r = b \o s
  BY DEF a, b
<1>5. \A i \in 1..Len(a) : (a \o r)[i] = a[i]
  BY <1>3, ConcatSequences
<1>6. \A i \in 1..Len(b) : (b \o s)[i] = b[i]
  BY <1>3, ConcatSequences
<1>7. Len(a) = Len(b)
  <2>1. ~(Len(a) < Len(b))
    BY <1>2, <1>4, <1>5, <1>6, VarintNotShorter
  <2>2. ~(Len(b) < Len(a))
    BY <1>2, <1>4, <1>5, <1>6, VarintNotShorter
  <2> QED
    BY <1>3, <2>1, <2>2
<1>8. a = b /\ r = s
  <2>1. SameCut(a, r, b, s)
    BY <1>3, <1>4, <1>7 DEF SameCut
  <2> QED
    BY <2>1, ConcatCancel
<1>9. ASSUME NEW i \in 0..(v - 1)
      PROVE  DigitAt(n, Half, i) = DigitAt(m, Half, i)
  <2> DEFINE x == DigitAt(n, Half, i)
             y == DigitAt(m, Half, i)
  <2>1. i + 1 \in 1..Len(a) /\ i + 1 \in 1..Len(b) /\ i \in Nat /\ (i + 1) - 1 = i
    BY <1>1, <1>3, <1>7
  <2>2. x \in 0..(Half - 1) /\ y \in 0..(Half - 1)
    BY <2>1, HalfType, DigitType
  <2>3. \/ a[i + 1] = <<x>> /\ b[i + 1] = <<y>>
        \/ a[i + 1] = <<Half + x>> /\ b[i + 1] = <<Half + y>>
    BY <1>2, <1>3, <1>7, <2>1 DEF VarintOf
  <2> HIDE DEF x, y
  <2>4. <<x>> = <<y>> \/ <<Half + x>> = <<Half + y>>
    BY <1>8, <2>3
  <2>5. x = y
    BY <2>2, <2>4, HalfType
  <2> QED
    BY <2>5 DEF x, y
<1>10. n < Power(Half, v) /\ m < Power(Half, v)
  <2>1. v = VarintSize(m)
    BY <1>2, <1>3, <1>7 DEF VarintOf
  <2> QED
    BY <2>1, VarintSizeType DEF v
<1>11. n = m
  BY <1>1, <1>9, <1>10, HalfType, DigitsDetermine
<1> QED
  BY <1>8, <1>11

(* Fixed numbers of bytes, of either order, are the digits of a number.    *)
LEMMA FixedDigits ==
    ASSUME NEW n \in Nat, NEW m \in Nat, NEW w \in Nat,
           \/ LittleEndian(n, w) = LittleEndian(m, w)
           \/ BigEndian(n, w) = BigEndian(m, w)
    PROVE  \A i \in 0..(w - 1) : DigitAt(n, Radix, i) = DigitAt(m, Radix, i)
<1> DEFINE same(i) == DigitAt(n, Radix, i) = DigitAt(m, Radix, i)
<1>1. ASSUME LittleEndian(n, w) = LittleEndian(m, w), NEW i \in 0..(w - 1)
      PROVE  same(i)
  <2>1. i + 1 \in 1..w /\ (i + 1) - 1 = i
    OBVIOUS
  <2>2. LittleEndian(n, w)[i + 1] = LittleEndian(m, w)[i + 1]
    BY <1>1
  <2>3. <<DigitAt(n, Radix, i)>> = <<DigitAt(m, Radix, i)>>
    BY <2>1, <2>2 DEF LittleEndian, Byte, DigitAt
  <2> QED
    BY <2>3
<1>2. ASSUME BigEndian(n, w) = BigEndian(m, w), NEW i \in 0..(w - 1)
      PROVE  same(i)
  <2>1. w - i \in 1..w /\ w - (w - i) = i
    OBVIOUS
  <2>2. BigEndian(n, w)[w - i] = BigEndian(m, w)[w - i]
    BY <1>2
  <2>3. <<DigitAt(n, Radix, i)>> = <<DigitAt(m, Radix, i)>>
    BY <2>1, <2>2 DEF BigEndian, Byte, DigitAt
  <2> QED
    BY <2>3
<1> HIDE DEF same
<1>3. \A i \in 0..(w - 1) : same(i)
  BY <1>1, <1>2
<1> QED
  BY <1>3 DEF same

(* A number that fits in them is told by them.                             *)
LEMMA FixedWidth ==
    ASSUME NEW n \in Nat, NEW m \in Nat, NEW w \in Nat,
           n < Power(Radix, w), m < Power(Radix, w)
    PROVE  /\ LittleEndian(n, w) = LittleEndian(m, w) => n = m
           /\ BigEndian(n, w) = BigEndian(m, w) => n = m
<1>1. Radix \in Nat \ {0}
  BY RadixAssumption
<1> QED
  BY <1>1, FixedDigits, DigitsDetermine

LEMMA FixedWidthType ==
    ASSUME NEW n, NEW w \in Nat
    PROVE  /\ IsSequence(LittleEndian(n, w)) /\ Len(LittleEndian(n, w)) = w
           /\ IsSequence(BigEndian(n, w)) /\ Len(BigEndian(n, w)) = w
<1>1. LittleEndian(n, w) = [i \in 1..w |-> LittleEndian(n, w)[i]]
  BY DEF LittleEndian
<1>2. BigEndian(n, w) = [i \in 1..w |-> BigEndian(n, w)[i]]
  BY DEF BigEndian
<1> QED
  BY <1>1, <1>2, FunctionSequence

(* The header a length operation puts in front of data of length n.        *)
Header(op, n) ==
    CASE op = "VAR_PROTO"      -> EncodeVarint(n)
      [] op = "FIXED32_BIG"    -> BigEndian(n, 4)
      [] op = "FIXED32_LITTLE" -> LittleEndian(n, 4)
      [] op = "FIXED64_BIG"    -> BigEndian(n, 8)
      [] op = "FIXED64_LITTLE" -> LittleEndian(n, 8)

LEMMA HeaderInFront ==
    ASSUME NEW op, Framed(op), NEW x, IsSequence(x)
    PROVE  /\ IsSequence(Header(op, Len(x)))
           /\ DoLength(op, x) = Header(op, Len(x)) \o x
<1>1. Len(x) \in Nat
  BY SequenceType
<1>2. IsSequence(EncodeVarint(Len(x)))
  BY <1>1, EncodeVarintType
<1>3. \A w \in Nat : /\ IsSequence(BigEndian(Len(x), w))
                     /\ IsSequence(LittleEndian(Len(x), w))
  BY FixedWidthType
<1> QED
  BY <1>2, <1>3 DEF Framed, Header, DoLength

(* The same string, read as the header of a length that fits and the rest. *)
SameFrame(op, n, r, m, s) ==
    /\ Framed(op)
    /\ n \in Nat /\ m \in Nat /\ Fits(op, n) /\ Fits(op, m)
    /\ IsSequence(r) /\ IsSequence(s)
    /\ Header(op, n) \o r = Header(op, m) \o s

(* Headers in front of strings are told apart. *)
LEMMA HeaderTold ==
    ASSUME NEW op, NEW n, NEW r, NEW m, NEW s, SameFrame(op, n, r, m, s)
    PROVE  n = m /\ r = s
<1>0. /\ Framed(op)
      /\ n \in Nat /\ m \in Nat /\ Fits(op, n) /\ Fits(op, m)
      /\ IsSequence(r) /\ IsSequence(s)
      /\ Header(op, n) \o r = Header(op, m) \o s
  BY DEF SameFrame
<1>1. CASE op = "VAR_PROTO"
  <2>1. EncodeVarint(n) \o r = EncodeVarint(m) \o s
    BY <1>0, <1>1 DEF Header
  <2>2. n < Power(Half, MaxVarintBytes) /\ m < Power(Half, MaxVarintBytes)
    BY <1>0, <1>1 DEF Fits
  <2> QED
    BY <1>0, <2>1, <2>2, VarintPrefixFree
<1> DEFINE wide(w, a, b) ==
        \/ a = BigEndian(n, w) /\ b = BigEndian(m, w)
        \/ a = LittleEndian(n, w) /\ b = LittleEndian(m, w)
<1>2. ASSUME NEW w \in Nat, n < Power(Radix, w), m < Power(Radix, w),
             NEW a, NEW b, wide(w, a, b), a \o r = b \o s
      PROVE  n = m /\ r = s
  <2>1. IsSequence(a) /\ IsSequence(b) /\ Len(a) = Len(b)
    BY <1>0, <1>2, FixedWidthType
  <2>2. SameCut(a, r, b, s)
    BY <1>0, <1>2, <2>1 DEF SameCut
  <2>3. a = b /\ r = s
    BY <2>2, ConcatCancel
  <2>4. n = m
    BY <1>0, <1>2, <2>3, FixedWidth
  <2> QED
    BY <2>3, <2>4
<1>3. CASE op # "VAR_PROTO"
  <2> DEFINE w == IF op \in {"FIXED32_BIG", "FIXED32_LITTLE"} THEN 4 ELSE 8
             a == Header(op, n)
             b == Header(op, m)
  <2>1. n < Power(Radix, w) /\ m < Power(Radix, w) /\ w \in Nat
    BY <1>0, <1>3 DEF Fits, Framed
  <2>2. wide(w, a, b)
    BY <1>0, <1>3 DEF Header, Framed
  <2> HIDE DEF a, b, w, wide
  <2>3. a \o r = b \o s
    BY <1>0 DEF a, b
  <2> QED
    BY <1>2, <2>1, <2>2, <2>3
<1> QED
  BY <1>1, <1>3

(* A key or a value, hashed and with its length, and what follows it.      *)
SamePart(length, x, r, y, s) ==
    /\ IsSequence(x) /\ IsSequence(y) /\ IsSequence(r) /\ IsSequence(s)
    /\ LengthOK(length, x) /\ LengthOK(length, y)
    /\ Fits(length, Len(x)) /\ Fits(length, Len(y))
    /\ length = "NO_PREFIX" => Len(x) = Len(y)
    /\ DoLength(length, x) \o r = DoLength(length, y) \o s

(* What a length is put in front of is told from whatever follows it. *)
LEMMA DoLengthTold ==
    ASSUME NEW op, Framed(op), NEW x, NEW r, NEW y, NEW s, SamePart(op, x, r, y, s)
    PROVE  x = y /\ r = s
<1>0. /\ IsSequence(x) /\ IsSequence(y) /\ IsSequence(r) /\ IsSequence(s)
      /\ Fits(op, Len(x)) /\ Fits(op, Len(y))
      /\ DoLength(op, x) \o r = DoLength(op, y) \o s
  BY DEF SamePart
<1> DEFINE n == Len(x)
           m == Len(y)
           a == Header(op, n)
           b == Header(op, m)
<1>1. n \in Nat /\ m \in Nat
  BY <1>0, SequenceType
<1>2. IsSequence(a) /\ DoLength(op, x) = a \o x
  BY <1>0, HeaderInFront
<1>3. IsSequence(b) /\ DoLength(op, y) = b \o y
  BY <1>0, HeaderInFront
<1>4. Regroups(a, x, r)
  BY <1>0, <1>2, ConcatRegroups
<1>5. Regroups(b, y, s)
  BY <1>0, <1>3, ConcatRegroups
<1>6. IsSequence(x \o r) /\ IsSequence(y \o s)
  BY <1>0, ConcatSequences
<1> HIDE DEF n, m
<1>7. a \o (x \o r) = b \o (y \o s)
  BY <1>0, <1>2, <1>3, <1>4, <1>5 DEF Regroups
<1>8. n = m /\ x \o r = y \o s
  <2>1. Fits(op, n) /\ Fits(op, m)
    BY <1>0 DEF n, m
  <2> DEFINE q == x \o r
             z == y \o s
  <2>2. Header(op, n) \o q = Header(op, m) \o z
    BY <1>7
  <2>3. IsSequence(q) /\ IsSequence(z)
    BY <1>6
  <2> HIDE DEF q, z
  <2>4. SameFrame(op, n, q, m, z)
    BY <1>1, <2>1, <2>2, <2>3 DEF SameFrame
  <2>5. n = m /\ q = z
    BY <2>4, HeaderTold
  <2> QED
    BY <2>5 DEF q, z
<1>9. SameCut(x, r, y, s)
  BY <1>0, <1>8 DEF SameCut, n, m
<1> QED
  BY <1>9, ConcatCancel

-----------------------------------------------------------------------------
(* What the string of a leaf tells. *)

LEMMA DoHashLength ==
    ASSUME NEW op \in HashOp \ {"NO_HASH"}, NEW x
    PROVE  Len(DoHash(op, x)) = DigestLen(op)
<1>1. PICK y : DoHash(op, x) = Digest(OuterFunction(op), y)
  BY DoHashIsDigest
<1>2. OuterFunction(op) \in HashFunction
  BY OuterFunctionType
<1> QED
  BY <1>1, <1>2, DigestType DEF DigestLen

LEMMA DoHashTold ==
    ASSUME NEW op \in HashOp, NEW x, NEW y, DoHash(op, x) = DoHash(op, y)
    PROVE  x = y
<1>1. CASE op = "NO_HASH"
  BY <1>1 DEF DoHash, HashFunction
<1>2. CASE op # "NO_HASH"
  BY <1>2, DoHashInjective
<1> QED
  BY <1>1, <1>2

LEMMA PartTold ==
    ASSUME NEW length \in LengthOp, NEW x, NEW r, NEW y, NEW s,
           SamePart(length, x, r, y, s)
    PROVE  x = y /\ r = s
<1>1. CASE Framed(length)
  BY <1>1, DoLengthTold DEF SamePart
<1>2. CASE ~Framed(length)
  <2>1. DoLength(length, x) = x /\ DoLength(length, y) = y
    BY <1>2 DEF Framed, DoLength
  <2>2. Len(x) = Len(y)
    BY <1>2 DEF SamePart, LengthOK, Framed, LengthOp
  <2>3. SameCut(x, r, y, s)
    BY <2>1, <2>2 DEF SamePart, SameCut
  <2> QED
    BY <2>3, ConcatCancel
<1> QED
  BY <1>1, <1>2

(* The conditions under which the string of a leaf operation tells the key *)
(* and the value.                                                          *)
Readable(leaf, key, value) ==
    /\ leaf.prehash_key \in HashOp /\ leaf.prehash_value \in HashOp
    /\ leaf.length \in LengthOp
    /\ IsSequence(leaf.prefix) /\ IsSequence(key) /\ IsSequence(value)
    /\ LengthOK(leaf.length, DoHash(leaf.prehash_key, key))
    /\ LengthOK(leaf.length, DoHash(leaf.prehash_value, value))
    /\ LengthsFit(leaf, key, value)
    /\ leaf.length = "NO_PREFIX" => leaf.prehash_key # "NO_HASH"

(* What follows the prefix of a leaf. *)
Content(leaf, key, value) ==
    PrepareLeafData(leaf.prehash_key, leaf.length, key)
        \o PrepareLeafData(leaf.prehash_value, leaf.length, value)

LEMMA PartsType ==
    ASSUME NEW leaf, NEW key, NEW value, Readable(leaf, key, value)
    PROVE  /\ IsSequence(DoHash(leaf.prehash_key, key))
           /\ IsSequence(DoHash(leaf.prehash_value, value))
           /\ IsSequence(PrepareLeafData(leaf.prehash_key, leaf.length, key))
           /\ IsSequence(PrepareLeafData(leaf.prehash_value, leaf.length, value))
           /\ IsSequence(Content(leaf, key, value))
           /\ LeafImage(leaf, key, value) = leaf.prefix \o Content(leaf, key, value)
<1> DEFINE x == DoHash(leaf.prehash_key, key)
           z == DoHash(leaf.prehash_value, value)
           k == PrepareLeafData(leaf.prehash_key, leaf.length, key)
           v == PrepareLeafData(leaf.prehash_value, leaf.length, value)
           p == leaf.prefix
<1>1. IsSequence(x) /\ IsSequence(z)
  BY DoHashType DEF Readable
<1>2. IsSequence(k) /\ IsSequence(v)
  BY <1>1, DoLengthType DEF PrepareLeafData
<1>3. IsSequence(p)
  BY DEF Readable
<1> HIDE DEF k, v, p
<1>4. IsSequence(k \o v)
  BY <1>2, ConcatSequences
<1>5. (p \o k) \o v = p \o (k \o v)
  BY <1>2, <1>3, ConcatRegroup
<1> QED
  BY <1>1, <1>2, <1>4, <1>5 DEF Content, LeafImage, k, v, p

SameOperation(leaf, other) ==
    /\ leaf.prehash_key = other.prehash_key
    /\ leaf.prehash_value = other.prehash_value
    /\ leaf.length = other.length

LEMMA ContentTold ==
    ASSUME NEW leaf, NEW key, NEW value, NEW other, NEW key2, NEW value2,
           Readable(leaf, key, value), Readable(other, key2, value2),
           SameOperation(leaf, other),
           Content(leaf, key, value) = Content(other, key2, value2)
    PROVE  key = key2 /\ value = value2
<1> DEFINE h == leaf.prehash_key
           g == leaf.prehash_value
           l == leaf.length
           x == DoHash(h, key)
           y == DoHash(h, key2)
           z == DoHash(g, value)
           w == DoHash(g, value2)
           r == DoLength(l, z)
           s == DoLength(l, w)
<1>1. /\ other.prehash_key = h /\ other.prehash_value = g /\ other.length = l
      /\ h \in HashOp /\ g \in HashOp /\ l \in LengthOp
  BY DEF SameOperation, Readable
<1>2. /\ IsSequence(x) /\ IsSequence(y) /\ IsSequence(z) /\ IsSequence(w)
      /\ IsSequence(r) /\ IsSequence(s)
  BY <1>1, PartsType DEF PrepareLeafData
<1>3. /\ LengthOK(l, x) /\ LengthOK(l, y) /\ LengthOK(l, z) /\ LengthOK(l, w)
      /\ Fits(l, Len(x)) /\ Fits(l, Len(y)) /\ Fits(l, Len(z)) /\ Fits(l, Len(w))
  BY <1>1 DEF Readable, LengthsFit
<1>4. DoLength(l, x) \o r = DoLength(l, y) \o s
  BY <1>1 DEF Content, PrepareLeafData
<1>5. l = "NO_PREFIX" => Len(x) = Len(y)
  BY <1>1, DoHashLength DEF Readable
<1>6. SamePart(l, x, r, y, s)
  BY <1>2, <1>3, <1>4, <1>5 DEF SamePart
<1>7. x = y /\ r = s
  BY <1>1, <1>6, PartTold
<1>8. z = w
  <2>1. CASE l = "NO_PREFIX"
    BY <1>7, <2>1 DEF DoLength
  <2>2. CASE l # "NO_PREFIX"
    <3>1. SamePart(l, z, <<>>, w, <<>>)
      BY <1>2, <1>3, <1>7, <2>2, EmptySequence DEF SamePart
    <3> QED
      BY <1>1, <3>1, PartTold
  <2> QED
    BY <2>1, <2>2
<1> QED
  BY <1>1, <1>7, <1>8, DoHashTold

(* With the same prefix, the string of a leaf is that of one key and value.*)
LEMMA LeafImageTold ==
    ASSUME NEW leaf, NEW key, NEW value, NEW other, NEW key2, NEW value2,
           Readable(leaf, key, value), Readable(other, key2, value2),
           SameOperation(leaf, other), leaf.prefix = other.prefix,
           LeafImage(leaf, key, value) = LeafImage(other, key2, value2)
    PROVE  key = key2 /\ value = value2
<1> DEFINE p == leaf.prefix
           c == Content(leaf, key, value)
           d == Content(other, key2, value2)
<1>1. IsSequence(c) /\ IsSequence(d) /\ IsSequence(p) /\ p \o c = p \o d
  BY PartsType DEF Readable
<1> HIDE DEF c, d
<1>2. SameCut(p, c, p, d)
  BY <1>1 DEF SameCut
<1>3. c = d
  BY <1>2, ConcatCancel
<1> QED
  BY <1>3, ContentTold DEF c, d
=============================================================================
