------------------------- MODULE LeafFramingProofs -------------------------
(***************************************************************************)
(* Proof that the string of a leaf has one reading if something tells      *)
(* where the key ends, for keys and values of any length.                  *)
(***************************************************************************)
EXTENDS LeafFraming, OpsProofs

-----------------------------------------------------------------------------
(* Lengths that are cut off.                                               *)

(* The fixed numbers of bytes.                                             *)
Width(op) == IF op \in {"FIXED32_BIG", "FIXED32_LITTLE"} THEN 4 ELSE 8

LEMMA FixedHeader ==
    ASSUME NEW op, Framed(op), op # "VAR_PROTO", NEW n \in Nat
    PROVE  /\ IsSequence(Header(op, n)) /\ Len(Header(op, n)) = Width(op)
           /\ Fits(op, n) <=> n < Power(Radix, Width(op))
<1>1. \A w \in Nat : /\ IsSequence(LittleEndian(n, w)) /\ Len(LittleEndian(n, w)) = w
                     /\ IsSequence(BigEndian(n, w)) /\ Len(BigEndian(n, w)) = w
  BY FixedWidthType
<1>2. IsSequence(Header(op, n)) /\ Len(Header(op, n)) = Width(op)
  BY <1>1 DEF Header, Framed, Width
<1>3. Fits(op, n) <=> n < Power(Radix, Width(op))
  BY DEF Fits, Framed, Width
<1> QED
  BY <1>2, <1>3

(* A length that was cut off is much greater than the one it reads as.     *)
LEMMA FixedHeaderTold ==
    ASSUME NEW op, Framed(op), op # "VAR_PROTO", NEW n \in Nat, NEW m \in Nat,
           Fits(op, n), Header(op, n) = Header(op, m)
    PROVE  n = m \/ n + Power(Radix, Width(op)) <= m
<1> DEFINE w == Width(op)
           same(i) == DigitAt(n, Radix, i) = DigitAt(m, Radix, i)
<1>0. Radix \in Nat \ {0} /\ w \in Nat /\ n < Power(Radix, w)
  BY RadixAssumption, FixedHeader DEF Width
<1>1. \/ BigEndian(n, w) = BigEndian(m, w)
      \/ LittleEndian(n, w) = LittleEndian(m, w)
  BY DEF Header, Framed, Width
<1> HIDE DEF w
<1>2. \A i \in 0..(w - 1) : same(i)
  BY <1>0, <1>1, FixedDigits
<1> QED
  BY <1>0, <1>2, DigitsTell DEF w

-----------------------------------------------------------------------------
(* Two strings, each after its length.                                     *)

(* x and v with their lengths make the same string as y and z.  The        *)
(* lengths of x and v fit, and a varint could count the bytes.             *)
SameFrames(op, x, v, y, z) ==
    /\ Framed(op)
    /\ IsSequence(x) /\ IsSequence(v) /\ IsSequence(y) /\ IsSequence(z)
    /\ Fits(op, Len(x)) /\ Fits(op, Len(v))
    /\ DoLength(op, x) \o DoLength(op, v) = DoLength(op, y) \o DoLength(op, z)
    /\ op = "VAR_PROTO" =>
           Fits(op, Len(DoLength(op, x) \o DoLength(op, v)))

(* What such a string is made of, for the headers h and g.                 *)
AreFrames(op, x, v, h, g) ==
    LET s == DoLength(op, x) \o DoLength(op, v)
    IN  /\ IsSequence(h) /\ IsSequence(g) /\ IsSequence(g \o v) /\ IsSequence(s)
        /\ IsSequence(x \o (g \o v))
        /\ DoLength(op, v) = g \o v
        /\ s = h \o (x \o (g \o v))
        /\ Len(g \o v) = Len(g) + Len(v)
        /\ Len(s) = Len(h) + Len(x) + Len(g \o v)

LEMMA FramesType ==
    ASSUME NEW op, Framed(op), NEW x, NEW v, IsSequence(x), IsSequence(v)
    PROVE  AreFrames(op, x, v, Header(op, Len(x)), Header(op, Len(v)))
<1> DEFINE g == Header(op, Len(v))
           h == Header(op, Len(x))
           r == g \o v
           s == DoLength(op, x) \o DoLength(op, v)
<1>1. /\ IsSequence(g) /\ IsSequence(h)
      /\ DoLength(op, v) = r /\ DoLength(op, x) = h \o x
  BY HeaderInFront
<1>2. s = (h \o x) \o r
  BY <1>1
<1> HIDE DEF g, h, s
<1>3. IsSequence(r) /\ Len(r) = Len(g) + Len(v)
  BY <1>1, ConcatSequences
<1> HIDE DEF r
<1>4. IsSequence(x \o r) /\ Len(x \o r) = Len(x) + Len(r)
  BY <1>3, ConcatSequences
<1>5. s = h \o (x \o r)
  <2>1. Regroups(h, x, r)
    BY <1>1, <1>3, ConcatRegroups
  <2> QED
    BY <1>2, <2>1 DEF Regroups
<1>6. IsSequence(s) /\ Len(s) = Len(h) + Len(x \o r)
  <2> DEFINE q == x \o r
  <2>1. IsSequence(q) /\ s = h \o q
    BY <1>4, <1>5
  <2> HIDE DEF q
  <2>2. IsSequence(s) /\ Len(s) = Len(h) + Len(q)
    BY <1>1, <2>1, ConcatSequences
  <2> QED
    BY <2>2 DEF q
<1>7. Len(s) = Len(h) + Len(x) + Len(r)
  <2>1. Len(h) \in Nat /\ Len(x) \in Nat /\ Len(r) \in Nat
    BY <1>1, <1>3, SequenceType
  <2> QED
    BY <1>4, <1>6, <2>1
<1> QED
  BY <1>1, <1>3, <1>4, <1>5, <1>6, <1>7 DEF AreFrames, g, h, r, s

(* With varints, the lengths of both fit.                                  *)
LEMMA VarintFrames ==
    ASSUME NEW op, NEW x, NEW v, NEW y, NEW z, SameFrames(op, x, v, y, z),
           op = "VAR_PROTO"
    PROVE  Fits(op, Len(y)) /\ Fits(op, Len(z))
<1> DEFINE s == DoLength(op, y) \o DoLength(op, z)
           h == Header(op, Len(y))
           g == Header(op, Len(z))
           n == Len(y)
           m == Len(z)
           limit == Power(Half, MaxVarintBytes)
<1>0. Framed(op) /\ IsSequence(y) /\ IsSequence(z) /\ Fits(op, Len(s))
  BY DEF SameFrames
<1>1. /\ IsSequence(h) /\ IsSequence(g) /\ IsSequence(g \o z)
      /\ Len(g \o z) = Len(g) + m
      /\ Len(s) = Len(h) + n + Len(g \o z)
  BY <1>0, FramesType DEF AreFrames
<1>2. n \in Nat /\ m \in Nat /\ Len(h) \in Nat /\ Len(g) \in Nat
  BY <1>0, <1>1, SequenceType
<1>3. Len(s) < limit /\ limit \in Nat
  BY <1>0, HalfType, MaxVarintBytesAssumption, PowerStep DEF Fits
<1> HIDE DEF s, h, g, n, m, limit
<1>4. n < limit /\ m < limit
  BY <1>1, <1>2, <1>3
<1> QED
  BY <1>4 DEF Fits, Framed, n, m, limit

(* With a fixed width, a length that was cut off would leave no room for   *)
(* the other.                                                              *)
LEMMA FixedFrames ==
    ASSUME NEW op, NEW x, NEW v, NEW y, NEW z, SameFrames(op, x, v, y, z),
           op # "VAR_PROTO"
    PROVE  Len(x) = Len(y) /\ Len(v) = Len(z)
<1> DEFINE h == Header(op, Len(x))
           k == Header(op, Len(y))
           r == Header(op, Len(v)) \o v
           q == Header(op, Len(z)) \o z
           a == Len(x)
           b == Len(v)
           c == Len(y)
           d == Len(z)
           s == DoLength(op, x) \o DoLength(op, v)
           w == Width(op)
           limit == Power(Radix, w)
<1>0. /\ Framed(op) /\ IsSequence(x) /\ IsSequence(v) /\ IsSequence(y) /\ IsSequence(z)
      /\ Fits(op, a) /\ Fits(op, b)
      /\ s = DoLength(op, y) \o DoLength(op, z)
  BY DEF SameFrames
<1>1. a \in Nat /\ b \in Nat /\ c \in Nat /\ d \in Nat
  BY <1>0, SequenceType
<1>2. /\ IsSequence(h) /\ Len(h) = w /\ IsSequence(k) /\ Len(k) = w
      /\ Len(Header(op, b)) = w /\ Len(Header(op, d)) = w
      /\ a < limit /\ b < limit
  BY <1>0, <1>1, FixedHeader
<1>3. /\ IsSequence(x \o r) /\ s = h \o (x \o r)
      /\ Len(s) = Len(h) + a + Len(r) /\ Len(r) = Len(Header(op, b)) + b
  <2>1. AreFrames(op, x, v, h, Header(op, b))
    BY <1>0, FramesType
  <2> QED
    BY <2>1 DEF AreFrames
<1>4. /\ IsSequence(y \o q) /\ s = k \o (y \o q)
      /\ Len(s) = Len(k) + c + Len(q) /\ Len(q) = Len(Header(op, d)) + d
  <2>1. AreFrames(op, y, z, k, Header(op, d))
    BY <1>0, FramesType
  <2> QED
    BY <1>0, <2>1 DEF AreFrames
<1>5. w \in Nat /\ limit \in Nat
  BY RadixAssumption, PowerStep DEF Width
<1> HIDE DEF a, b, c, d, w, limit, r, q, s
<1>6. a + b = c + d
  BY <1>1, <1>2, <1>3, <1>4, <1>5
<1>7. h = k
  <2> DEFINE e == x \o r
             f == y \o q
  <2>1. IsSequence(e) /\ IsSequence(f) /\ h \o e = k \o f
    BY <1>3, <1>4
  <2> HIDE DEF h, k, e, f
  <2>2. SameCut(h, e, k, f)
    BY <1>2, <2>1 DEF SameCut
  <2> QED
    BY <2>2, ConcatCancel
<1>8. a = c \/ a + limit <= c
  BY <1>0, <1>1, <1>7, FixedHeaderTold DEF limit, w, a, c
<1>9. a = c /\ b = d
  BY <1>1, <1>2, <1>5, <1>6, <1>8
<1> QED
  BY <1>9 DEF a, b, c, d

LEMMA FramesTold ==
    ASSUME NEW op, NEW x, NEW v, NEW y, NEW z, SameFrames(op, x, v, y, z)
    PROVE  x = y /\ v = z
<1> DEFINE r == DoLength(op, v)
           q == DoLength(op, z)
<1>0. /\ Framed(op) /\ IsSequence(x) /\ IsSequence(v) /\ IsSequence(y) /\ IsSequence(z)
      /\ Fits(op, Len(x)) /\ Fits(op, Len(v))
      /\ DoLength(op, x) \o r = DoLength(op, y) \o q
  BY DEF SameFrames
<1>1. Fits(op, Len(y)) /\ Fits(op, Len(z))
  BY <1>0, VarintFrames, FixedFrames
<1>2. /\ IsSequence(r) /\ IsSequence(q)
      /\ \A u : LengthOK(op, u)
  <2>1. IsSequence(r) /\ IsSequence(q)
    BY <1>0, DoLengthType
  <2>2. \A u : LengthOK(op, u)
    BY <1>0 DEF LengthOK, Framed
  <2> QED
    BY <2>1, <2>2
<1>3. op # "NO_PREFIX"
  BY <1>0 DEF Framed
<1>4. x = y /\ r = q
  <2>1. SamePart(op, x, r, y, q)
    BY <1>0, <1>1, <1>2, <1>3 DEF SamePart
  <2> QED
    BY <1>0, <2>1, DoLengthTold
<1>5. v = z
  <2>1. SamePart(op, v, <<>>, z, <<>>)
    BY <1>0, <1>1, <1>2, <1>3, <1>4, EmptySequence DEF SamePart
  <2> QED
    BY <1>0, <2>1, DoLengthTold
<1> QED
  BY <1>4, <1>5

-----------------------------------------------------------------------------
(* The step of the specification.                                          *)

(* What was hashed is the string of the key and the value.                 *)
Applied ==
    /\ leaf \in Leaves
    /\ key \in Data(leaf) /\ value \in Data(leaf)
    /\ image # <<>> => /\ LeafApplies(leaf, key, value)
                       /\ image = LeafImage(leaf, key, value)

(* The same prefix in front of two strings each.                           *)
SamePrefix(p, r, q, s, t) ==
    /\ IsSequence(p)
    /\ IsSequence(r) /\ IsSequence(q) /\ IsSequence(s) /\ IsSequence(t)
    /\ (p \o r) \o q = (p \o s) \o t

LEMMA PrefixCancel ==
    ASSUME NEW p, NEW r, NEW q, NEW s, NEW t, SamePrefix(p, r, q, s, t)
    PROVE  /\ r \o q = s \o t
           /\ Len((p \o r) \o q) = Len(p) + Len(r \o q)
<1>0. /\ IsSequence(p) /\ IsSequence(r) /\ IsSequence(q)
      /\ IsSequence(s) /\ IsSequence(t)
  BY DEF SamePrefix
<1>1. (p \o r) \o q = (p \o s) \o t
  BY DEF SamePrefix
<1> DEFINE a == r \o q
           b == s \o t
<1>2. IsSequence(a) /\ IsSequence(b)
  BY <1>0, ConcatSequences
<1>3. Regroups(p, r, q) /\ Regroups(p, s, t)
  BY <1>0, ConcatRegroups
<1>4. (p \o r) \o q = p \o a /\ (p \o s) \o t = p \o b
  BY <1>3 DEF Regroups
<1> HIDE DEF a, b
<1>5. SameCut(p, a, p, b)
  BY <1>0, <1>1, <1>2, <1>4 DEF SameCut
<1>6. a = b /\ Len(p \o a) = Len(p) + Len(a)
  BY <1>0, <1>1, <1>2, <1>5, ConcatCancel, ConcatSequences
<1> QED
  BY <1>4, <1>6 DEF a, b

(* What the step leaves: two parts that the image is made of. *)
LEMMA PartsApplied ==
    ASSUME Applied, image # <<>>
    PROVE  /\ {leaf.prehash_key, leaf.prehash_value} \subseteq HashOp
           /\ leaf.length \in LengthOp
           /\ IsSequence(leaf.prefix) /\ IsSequence(key) /\ IsSequence(value)
           /\ IsSequence(KeyPart) /\ IsSequence(ValuePart)
           /\ Reads(KeyPart, ValuePart)
<1>1. /\ {leaf.prehash_key, leaf.prehash_value} \subseteq HashOp
      /\ leaf.length \in LengthOp
      /\ IsSequence(leaf.prefix) /\ IsSequence(key) /\ IsSequence(value)
  BY LeavesAssumption, DataAssumption DEF Applied
<1>2. IsSequence(KeyPart) /\ IsSequence(ValuePart)
  BY <1>1, DoHashType DEF KeyPart, ValuePart
<1>3. MadeBy(leaf.prehash_key, KeyPart) /\ MadeBy(leaf.prehash_value, ValuePart)
  BY <1>1, DoHashLength DEF MadeBy, KeyPart, ValuePart
<1>4. Reads(KeyPart, ValuePart)
  BY <1>3 DEF Reads, Applied, LeafApplies, LeafDataOK, LeafImage, PrepareLeafData,
              KeyPart, ValuePart
<1> QED
  BY <1>1, <1>2, <1>4

(* No other two parts make the image. *)
LEMMA HalvesTold ==
    ASSUME Applied, image # <<>>, TellsEnd,
           NEW y, NEW w, IsSequence(y), IsSequence(w), Reads(y, w)
    PROVE  y = KeyPart /\ w = ValuePart
<1> DEFINE op == leaf.length
           p == leaf.prefix
           x == KeyPart
           u == ValuePart
           r == DoLength(op, x)
           q == DoLength(op, u)
           s == DoLength(op, y)
           t == DoLength(op, w)
<1>1. /\ op \in LengthOp /\ IsSequence(p) /\ IsSequence(x) /\ IsSequence(u)
      /\ LengthOK(op, x) /\ LengthOK(op, u) /\ LengthOK(op, y) /\ LengthOK(op, w)
      /\ image = (p \o r) \o q /\ image = (p \o s) \o t
  BY PartsApplied DEF Reads
<1>2. IsSequence(r) /\ IsSequence(q) /\ IsSequence(s) /\ IsSequence(t)
  BY <1>1, DoLengthType
<1>3. /\ Fits(op, Len(x)) /\ Fits(op, Len(u))
      /\ op = "VAR_PROTO" => Fits(op, Len(image))
  BY DEF TellsEnd, LengthsFit, KeyPart, ValuePart
<1>4. op = "NO_PREFIX" => Len(x) = Len(y)
  BY PartsApplied DEF TellsEnd, Reads, MadeBy
<1> HIDE DEF r, q, s, t, p, op, x, u
<1>5. SamePrefix(p, r, q, s, t)
  BY <1>1, <1>2 DEF SamePrefix
<1>6. /\ r \o q = s \o t
      /\ Len(image) = Len(p) + Len(r \o q)
  <2>1. /\ r \o q = s \o t
        /\ Len((p \o r) \o q) = Len(p) + Len(r \o q)
    BY <1>5, PrefixCancel
  <2> QED
    BY <1>1, <2>1
<1>7. CASE Framed(op)
  <2>1. op = "VAR_PROTO" => Fits(op, Len(r \o q))
    <3> SUFFICES ASSUME op = "VAR_PROTO"
                 PROVE  Len(r \o q) < Power(Half, MaxVarintBytes)
      BY DEF Fits
    <3> DEFINE n == Len(r \o q)
               m == Len(p)
               limit == Power(Half, MaxVarintBytes)
    <3>1. IsSequence(r \o q)
      BY <1>2, ConcatSequences
    <3>2. n \in Nat /\ m \in Nat /\ limit \in Nat
      BY <1>1, <3>1, SequenceType, HalfType, MaxVarintBytesAssumption, PowerStep
    <3>3. m + n < limit
      BY <1>3, <1>6 DEF Fits
    <3> HIDE DEF n, m, limit
    <3>4. n < limit
      BY <3>2, <3>3
    <3> QED
      BY <3>4 DEF n, limit
  <2>2. SameFrames(op, x, u, y, w)
    BY <1>1, <1>3, <1>6, <1>7, <2>1 DEF SameFrames, r, q, s, t
  <2> QED
    BY <2>2, FramesTold DEF x, u
<1>8. CASE ~Framed(op)
  <2>1. r = x /\ q = u /\ s = y /\ t = w
    BY <1>8 DEF Framed, DoLength, r, q, s, t
  <2>2. Len(x) = Len(y)
    BY <1>1, <1>4, <1>8 DEF LengthOK, Framed, LengthOp
  <2>3. SameCut(x, u, y, w)
    BY <1>1, <1>6, <2>1, <2>2 DEF SameCut
  <2>4. x = y /\ u = w
    BY <2>3, ConcatCancel
  <2> QED
    BY <2>4 DEF x, u
<1> QED
  BY <1>7, <1>8

(* A cut is a pair of parts of the image.                                  *)
LEMMA CutType ==
    ASSUME IsSequence(image), IsSequence(leaf.prefix),
           Len(leaf.prefix) <= Len(image), NEW cut \in Cuts
    PROVE  \E k, v : cut = <<k, v>> /\ IsSequence(k) /\ IsSequence(v)
<1> DEFINE from == Len(leaf.prefix) + 1
           size == Len(image) - Len(leaf.prefix)
           head(n) == HeaderLen(leaf.length, n)
           rest(n) == size - head(n) - n
           sizes(n) == {rest(n) - h : h \in 0..MaxVarintBytes} \intersect (1..size)
<1>1. PICK n \in 1..size : \E m \in {k \in sizes(n) : head(k) + k = rest(n)} :
          cut = <<SubSeq(image, from + head(n), from + head(n) + n - 1),
                  SubSeq(image, Len(image) - m + 1, Len(image))>>
  BY DEF Cuts
<1>2. PICK m \in 1..size :
          /\ head(m) + m = rest(n)
          /\ cut = <<SubSeq(image, from + head(n), from + head(n) + n - 1),
                     SubSeq(image, Len(image) - m + 1, Len(image))>>
  BY <1>1
<1>3. Len(image) \in Nat /\ Len(leaf.prefix) \in Nat
  BY SequenceType
<1>4. \A i \in Nat : head(i) \in Nat
  BY VarintSizeType, MaxVarintBytesAssumption DEF HeaderLen
<1> DEFINE a == head(n)
           b == head(m)
           l == Len(image)
           d == Len(leaf.prefix)
<1>5. /\ n \in Nat /\ m \in Nat /\ a \in Nat /\ b \in Nat /\ l \in Nat /\ d \in Nat
      /\ 1 <= n /\ 1 <= m /\ d <= l /\ m <= l - d
      /\ b + m = (l - d) - a - n
  <2>1. n \in Nat /\ m \in Nat /\ 1 <= n /\ 1 <= m /\ m <= size
    BY <1>3
  <2>2. a \in Nat /\ b \in Nat
    BY <1>4, <2>1
  <2>3. b + m = (l - d) - a - n
    BY <1>2
  <2> QED
    BY <1>3, <2>1, <2>2, <2>3
<1> HIDE DEF a, b, l, d
<1>6. /\ (d + 1) + a \in Nat /\ 1 <= (d + 1) + a
      /\ (d + 1) + a + n - 1 \in Nat
      /\ (d + 1) + a <= ((d + 1) + a + n - 1) + 1
      /\ (d + 1) + a + n - 1 <= l
      /\ l - m + 1 \in Nat /\ 1 <= l - m + 1 /\ l - m + 1 <= l + 1
  BY <1>5
<1>7. /\ IsSequence(SubSeq(image, (d + 1) + a, (d + 1) + a + n - 1))
      /\ IsSequence(SubSeq(image, l - m + 1, l))
  <2>1. l = Len(image)
    BY DEF l
  <2>2. IsSequence(SubSeq(image, (d + 1) + a, (d + 1) + a + n - 1))
    BY <1>5, <1>6, <2>1, SubSeqPart
  <2>3. IsSequence(SubSeq(image, l - m + 1, l))
    BY <1>5, <1>6, <2>1, SubSeqPart
  <2> QED
    BY <2>2, <2>3
<1> QED
  BY <1>2, <1>7 DEF a, b, l, d

LEMMA AppliedUnambiguous == ASSUME Applied PROVE FramingUnambiguous
<1> SUFFICES ASSUME image # <<>>, TellsEnd, NEW cut \in Cuts, Reads(cut[1], cut[2])
             PROVE  cut = <<KeyPart, ValuePart>>
  BY DEF FramingUnambiguous
<1>1. /\ {leaf.prehash_key, leaf.prehash_value} \subseteq HashOp
      /\ IsSequence(leaf.prefix) /\ IsSequence(key) /\ IsSequence(value)
      /\ image = LeafImage(leaf, key, value)
  BY PartsApplied DEF Applied
<1>2. IsSequence(image) /\ Len(leaf.prefix) <= Len(image)
  BY <1>1, LeafImageType
<1>3. PICK k, v : cut = <<k, v>> /\ IsSequence(k) /\ IsSequence(v)
  BY <1>1, <1>2, CutType
<1>4. k = KeyPart /\ v = ValuePart
  BY <1>3, HalvesTold
<1> QED
  BY <1>3, <1>4

(* Of all keys and values, whatever their lengths, only the ones that the  *)
(* leaf operation was applied to make the string that it hashed.           *)
OneReading ==
    (image # <<>> /\ TellsEnd) =>
        \A k, v :
            (/\ IsSequence(k) /\ IsSequence(v)
             /\ LeafApplies(leaf, k, v)
             /\ LeafImage(leaf, k, v) = image) => k = key /\ v = value

LEMMA AppliedReadOnce == ASSUME Applied PROVE OneReading
<1> SUFFICES ASSUME image # <<>>, TellsEnd, NEW k, NEW v,
                    IsSequence(k), IsSequence(v), LeafApplies(leaf, k, v),
                    LeafImage(leaf, k, v) = image
             PROVE  k = key /\ v = value
  BY DEF OneReading
<1> DEFINE y == DoHash(leaf.prehash_key, k)
           w == DoHash(leaf.prehash_value, v)
<1>1. leaf.prehash_key \in HashOp /\ leaf.prehash_value \in HashOp
  BY PartsApplied
<1>2. IsSequence(y) /\ IsSequence(w)
  BY <1>1, DoHashType
<1>3. MadeBy(leaf.prehash_key, y) /\ MadeBy(leaf.prehash_value, w)
  BY <1>1, DoHashLength DEF MadeBy
<1>4. Reads(y, w)
  BY <1>3 DEF Reads, LeafApplies, LeafDataOK, LeafImage, PrepareLeafData
<1> HIDE DEF y, w
<1>5. y = KeyPart /\ w = ValuePart
  BY <1>2, <1>4, HalvesTold
<1> QED
  BY <1>1, <1>5, DoHashTold DEF y, w, KeyPart, ValuePart

LEMMA AlwaysApplied == Spec => []Applied
<1>1. Init => Applied
  BY DEF Init, Applied
<1>2. Applied /\ [Next]_vars => Applied'
  BY DEF Applied, Next, Apply, vars
<1> QED
  BY <1>1, <1>2, PTL DEF Spec

(* The string that is hashed for a leaf can be cut into the parts of a key *)
(* and of a value in one way only, if it has lengths in it or the key in   *)
(* it has the size of a hash or the size that the operation requires.      *)
THEOREM FramingHolds == Spec => []FramingUnambiguous
<1>1. Applied => FramingUnambiguous
  BY AppliedUnambiguous
<1> QED
  BY <1>1, AlwaysApplied, PTL

(* Under the same conditions one key and one value make that string,       *)
(* whether they are in it as they are or hashed: IAVL, Tendermint and SMT  *)
(* leaves have one reading for a given prefix.                             *)
THEOREM LeafHasOneReading == Spec => []OneReading
<1>1. Applied => OneReading
  BY AppliedReadOnce
<1> QED
  BY <1>1, AlwaysApplied, PTL
=============================================================================
