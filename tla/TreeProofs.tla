----------------------------- MODULE TreeProofs -----------------------------
(***************************************************************************)
(* What the hashes of a well formed tree and the operations of a proof say *)
(* of each other, for every tree: lemmas about the operators of            *)
(* MerkleTree, OrderedTree and Verdicts that the proofs about the          *)
(* verification functions of both implementations rest on.                 *)
(***************************************************************************)
EXTENDS Verdicts, OrderedTree, OpsProofs

-----------------------------------------------------------------------------
(* Where a child's hash can be.                                            *)

(* A prefix of p bytes and a suffix of s bytes around a child of size      *)
(* bytes fill a node with the given layout, and pass ensure_inner.         *)
FillsNode(p, s, size, min, max, arity, off, width) ==
    /\ p \in Nat /\ s \in Nat /\ size \in Nat /\ width \in Nat \ {0}
    /\ min \in Nat /\ max \in Nat /\ arity \in Nat
    /\ arity >= 1
    /\ off \in min..max
    /\ p >= min
    /\ max < min + width
    /\ s % width = 0
    /\ p + size + s = off + (arity - 1) * width + size

AtSlot(p, arity, off, width) == \E j \in 1..arity : p = off + (j - 1) * width

(* The prefix, child and suffix of an accepted inner operation can fill an *)
(* inner node in one way only for each child: the prefix ends where one of *)
(* the slots begins.                                                       *)
LEMMA PrefixEndsAtSlot ==
    ASSUME NEW p, NEW s, NEW size, NEW min, NEW max, NEW arity, NEW off,
           NEW width, FillsNode(p, s, size, min, max, arity, off, width)
    PROVE  AtSlot(p, arity, off, width)
<1>0. /\ p \in Nat /\ s \in Nat /\ size \in Nat /\ width \in Nat \ {0}
      /\ min \in Nat /\ max \in Nat /\ arity \in Nat /\ arity >= 1
      /\ off \in Nat /\ min <= off /\ off <= max /\ p >= min
      /\ max < min + width
      /\ s % width = 0
      /\ p + size + s = off + (arity - 1) * width + size
  BY DEF FillsNode
<1> DEFINE k == s \div width
           j == arity - k
<1>1. k \in Nat /\ s = k * width
  BY <1>0
<1> HIDE DEF k
<1>2. j \in Int /\ p = off + (j - 1) * width
  BY <1>0, <1>1
<1>3. j <= arity
  BY <1>0, <1>1
<1>4. j >= 1
  <2>1. SUFFICES ASSUME j <= 0 PROVE FALSE
    BY <1>2
  <2>2. (j - 1) * width <= -width
    BY <1>0, <1>2, <2>1
  <2> QED
    BY <1>0, <1>2, <2>2
<1>5. j \in 1..arity
  BY <1>0, <1>2, <1>3, <1>4
<1> HIDE DEF j
<1> QED
  BY <1>2, <1>5 DEF AtSlot

-----------------------------------------------------------------------------
(* Trees. *)

LEMMA PrefixTransitive ==
    ASSUME NEW p, NEW q, NEW s, IsSequence(p), IsSequence(q), IsSequence(s),
           HasPrefix(p, q), HasPrefix(q, s)
    PROVE  HasPrefix(p, s)
<1>1. Len(p) \in Nat /\ Len(q) \in Nat /\ Len(s) \in Nat
  BY SequenceType
<1> QED
  BY <1>1 DEF HasPrefix

(* What an accepted leaf operation makes begins with the spec's prefix.     *)
LEMMA LeafBegins ==
    ASSUME NEW spec, NEW leaf, NEW key, NEW value,
           spec.leaf_spec # None, IsProofSpec(spec), EnsureLeaf(leaf, spec.leaf_spec),
           IsLeafOp(leaf), IsSequence(key), IsSequence(value)
    PROVE  /\ IsSequence(LeafImage(leaf, key, value))
           /\ HasPrefix(spec.leaf_spec.prefix, LeafImage(leaf, key, value))
<1>1. /\ IsSequence(LeafImage(leaf, key, value))
      /\ HasPrefix(leaf.prefix, LeafImage(leaf, key, value))
  BY LeafImageType DEF IsLeafOp, HasPrefix
<1>2. IsSequence(spec.leaf_spec.prefix) /\ IsSequence(leaf.prefix)
  BY DEF IsProofSpec, IsLeafOp
<1>3. HasPrefix(spec.leaf_spec.prefix, leaf.prefix)
  BY DEF EnsureLeaf
<1> QED
  BY <1>1, <1>2, <1>3, PrefixTransitive

(* The hash of every node is the digest of its image. *)
LEMMA NodeHash ==
    ASSUME NEW t \in Trees, NEW n \in t.nodes
    PROVE  /\ t.hash[n] = DoHash(t.spec.inner_spec.hash, t.image[n])
           /\ t.spec.inner_spec.hash \in HashOp \ {"NO_HASH"}
           /\ n \notin t.leaves => WellFormedInner(t, n)
           /\ n \in t.leaves => HasPrefix(t.spec.leaf_spec.prefix, t.image[n])
<1>1. WellFormedTree(t) /\ IsProofSpec(t.spec)
  BY TreesAssumption
<1>2. CASE n \in t.leaves
  <2>1. WellFormedLeaf(t, n) /\ IsSoundSpec(t.spec)
    BY <1>1, <1>2 DEF WellFormedTree
  <2>2. HasPrefix(t.spec.leaf_spec.prefix, t.image[n])
    BY <1>1, <2>1, LeafBegins DEF WellFormedLeaf, IsSoundSpec
  <2> QED
    BY <1>2, <2>1, <2>2 DEF WellFormedLeaf, IsSoundSpec
<1>3. CASE n \notin t.leaves
  BY <1>1, <1>3 DEF WellFormedTree, WellFormedInner, IsSoundSpec, Inners
<1> QED
  BY <1>2, <1>3

(* A digest of the nodes' hash operation is a string of the digest's size, *)
(* and what DoHash returns is one.                                         *)
LEMMA DigestOfTree ==
    ASSUME NEW op \in HashOp \ {"NO_HASH"}, NEW x
    PROVE  /\ IsDigest(op, DoHash(op, x))
           /\ IsSequence(DoHash(op, x))
           /\ Len(DoHash(op, x)) = DigestLen(op)
           /\ DigestLen(op) \in Nat \ {0}
<1>1. PICK y : DoHash(op, x) = Digest(OuterFunction(op), y)
  BY DoHashIsDigest
<1>2. OuterFunction(op) \in HashFunction /\ DigestLen(op) \in Nat \ {0}
  BY OuterFunctionType
<1> DEFINE d == Digest(OuterFunction(op), y)
<1>3. /\ IsSequence(d) /\ Len(d) = DigestLen(op)
      /\ d[1] = <<OuterFunction(op), y>>
  BY <1>2, DigestType DEF DigestLen
<1>4. d[1][1] = OuterFunction(op) /\ d[1][2] = y
  BY <1>3
<1>5. d = Digest(d[1][1], d[1][2])
  BY <1>4
<1>6. IsDigest(op, d)
  BY <1>3, <1>4, <1>5 DEF IsDigest
<1> QED
  BY <1>1, <1>2, <1>3, <1>6

LEMMA IsDigestType ==
    ASSUME NEW op \in HashOp \ {"NO_HASH"}, NEW h, IsDigest(op, h)
    PROVE  /\ IsSequence(h)
           /\ Len(h) = DigestLen(op)
           /\ h[1] = <<h[1][1], h[1][2]>>
<1>1. OuterFunction(op) \in HashFunction
  BY OuterFunctionType
<1>2. h = Digest(OuterFunction(op), h[1][2]) /\ h[1][1] = OuterFunction(op)
  BY DEF IsDigest
<1>3. IsSequence(h) /\ h[1] = <<OuterFunction(op), h[1][2]>>
  BY <1>1, <1>2, DigestType
<1> QED
  BY <1>2, <1>3 DEF IsDigest

-----------------------------------------------------------------------------
(* The two ways a hash is made. *)

LEMMA AppliedTypes ==
    /\ \A leaf, key, value :
           (IsLeafOp(leaf) /\ IsSequence(key) /\ IsSequence(value)) =>
               IsSequence(ApplyLeaf(leaf, key, value))
    /\ \A inner, h :
           (IsInnerOp(inner) /\ IsSequence(h)) => IsSequence(ApplyInner(inner, h))
<1>1. ASSUME NEW leaf, NEW key, NEW value,
             IsLeafOp(leaf), IsSequence(key), IsSequence(value)
      PROVE  IsSequence(ApplyLeaf(leaf, key, value))
  <2>1. IsSequence(LeafImage(leaf, key, value))
    BY <1>1, LeafImageType DEF IsLeafOp
  <2> QED
    BY <1>1, <2>1, DoHashType DEF ApplyLeaf, IsLeafOp
<1>2. ASSUME NEW inner, NEW h, IsInnerOp(inner), IsSequence(h)
      PROVE  IsSequence(ApplyInner(inner, h))
  <2>1. IsSequence(inner.prefix) /\ IsSequence(inner.suffix)
    BY <1>2 DEF IsInnerOp
  <2>2. IsSequence(inner.prefix \o h \o inner.suffix)
    <3>1. IsSequence(inner.prefix \o h)
      BY <1>2, <2>1, ConcatSequences, Zenon
    <3> QED
      BY <2>1, <3>1, ConcatSequences, Zenon
  <2>3. IsSequence(InnerImage(inner, h))
    BY <2>2 DEF InnerImage
  <2> QED
    BY <1>2, <2>3, DoHashType DEF ApplyInner, IsInnerOp
<1> QED
  BY <1>1, <1>2

(* A leaf operation the spec accepts makes the hash of a leaf, never that  *)
(* of an inner node: inner nodes do not begin with the leaf prefix.        *)
LEMMA LeafHashIsOfLeaf ==
    ASSUME NEW t \in Trees, NEW leaf, NEW key, NEW value,
           IsLeafOp(leaf), IsSequence(key), IsSequence(value),
           EnsureLeaf(leaf, t.spec.leaf_spec)
    PROVE  LET h == ApplyLeaf(leaf, key, value)
           IN  /\ IsDigest(t.spec.inner_spec.hash, h)
               /\ IsSequence(h)
               /\ \A n \in t.nodes : t.hash[n] = h =>
                      n \in t.leaves /\ t.image[n] = LeafImage(leaf, key, value)
<1> DEFINE image == LeafImage(leaf, key, value)
           h     == ApplyLeaf(leaf, key, value)
           op    == t.spec.inner_spec.hash
<1>1. WellFormedTree(t) /\ IsProofSpec(t.spec)
  BY TreesAssumption
<1>2. op \in HashOp \ {"NO_HASH"} /\ leaf.hash = op
  BY <1>1 DEF WellFormedTree, IsSoundSpec, EnsureLeaf
<1>3. h = DoHash(op, image)
  BY <1>2 DEF ApplyLeaf
<1>4. IsDigest(op, h) /\ IsSequence(h)
  BY <1>2, <1>3, DigestOfTree
<1>5. HasPrefix(t.spec.leaf_spec.prefix, image)
  BY <1>1, LeafBegins DEF WellFormedTree, IsSoundSpec
<1>6. ASSUME NEW n \in t.nodes, t.hash[n] = h
      PROVE  n \in t.leaves /\ t.image[n] = image
  <2>1. t.image[n] = image
    BY <1>2, <1>3, <1>6, NodeHash, DoHashInjective
  <2>2. n \in t.leaves
    BY <1>5, <2>1, NodeHash DEF WellFormedInner
  <2> QED
    BY <2>1, <2>2
<1> QED
  BY <1>4, <1>6

(* An inner operation the spec accepts makes the hash of an inner node,    *)
(* and only from the hash of one of its children.                          *)
LEMMA InnerHashIsOfParent ==
    ASSUME NEW t \in Trees, NEW step, NEW h, NEW n \in t.nodes,
           IsInnerOp(step), EnsureInner(step, t.spec),
           IsDigest(t.spec.inner_spec.hash, h),
           t.hash[n] = ApplyInner(step, h)
    PROVE  /\ n \in Inners(t)
           /\ \E m \in t.nodes : t.hash[m] = h /\ IsStepOf(t, step, n, m)
<1> DEFINE inner_spec == t.spec.inner_spec
           op     == inner_spec.hash
           size   == DigestLen(op)
           width  == inner_spec.child_size
           arity  == Arity(t.spec)
           p      == step.prefix
           s      == step.suffix
           prefix == t.spec.leaf_spec.prefix
<1>1. WellFormedTree(t) /\ IsProofSpec(t.spec)
  BY TreesAssumption
<1>2. op \in HashOp \ {"NO_HASH"} /\ step.hash = op
  BY <1>1 DEF WellFormedTree, IsSoundSpec, EnsureInner
<1>3. IsSequence(h) /\ Len(h) = size /\ size \in Nat \ {0}
  BY <1>2, IsDigestType, OuterFunctionType
<1>4. /\ IsSequence(p) /\ Len(p) \in Nat
      /\ IsSequence(s) /\ Len(s) \in Nat
  BY SequenceType DEF IsInnerOp
<1>5. t.image[n] = p \o h \o s
  <2>1. t.hash[n] = DoHash(op, p \o h \o s)
    BY <1>2 DEF ApplyInner, InnerImage
  <2>2. t.hash[n] = DoHash(op, t.image[n])
    BY NodeHash
  <2> QED
    BY <1>2, <2>1, <2>2, DoHashInjective
<1>6. Parts(t.image[n], p, h, s)
  BY <1>3, <1>4, <1>5, ConcatThree, Zenon
<1>7. Len(t.image[n]) = Len(p) + size + Len(s)
  BY <1>3, <1>6 DEF Parts
<1>8. /\ \A i \in 1..Len(p) : t.image[n][i] = p[i]
      /\ \A i \in 1..size : t.image[n][Len(p) + i] = h[i]
  BY <1>3, <1>6 DEF Parts
<1>9. /\ inner_spec.min_prefix_length \in Nat
      /\ inner_spec.max_prefix_length \in Nat
      /\ width \in Nat \ {0}
      /\ arity \in Nat /\ arity >= 1
      /\ IsSequence(prefix) /\ Len(prefix) \in Nat
  <2>1. t.spec.inner_spec # None /\ t.spec.leaf_spec # None
    BY DEF EnsureInner
  <2>2. /\ {inner_spec.min_prefix_length, inner_spec.max_prefix_length, width}
               \subseteq Nat
        /\ IsSequence(inner_spec.child_order) /\ inner_spec.child_order # <<>>
        /\ IsSequence(prefix)
    BY <1>1, <2>1 DEF IsProofSpec, IsLeafOp
  <2>3. width > 0
    BY DEF EnsureInner
  <2> QED
    BY <2>2, <2>3, SequenceType DEF Arity
<1>10. n \notin t.leaves
  <2>1. ~HasPrefix(prefix, p) /\ Len(prefix) <= Len(p)
    <3>1. /\ ~HasPrefix(prefix, p) /\ inner_spec.min_prefix_length <= Len(p)
          /\ Len(prefix) <= inner_spec.min_prefix_length
      BY <1>1 DEF EnsureInner, WellFormedTree, IsSoundSpec
    <3> QED
      BY <1>4, <1>9, <3>1
  <2>2. ~HasPrefix(prefix, t.image[n])
    <3>1. \A i \in 1..Len(prefix) : i \in 1..Len(p)
      BY <1>4, <1>9, <2>1
    <3>2. PICK i \in 1..Len(prefix) : p[i] # prefix[i]
      BY <2>1 DEF HasPrefix
    <3>3. t.image[n][i] # prefix[i]
      BY <1>8, <3>1, <3>2
    <3> QED
      BY <3>3 DEF HasPrefix
  <2> QED
    BY <2>2, NodeHash
<1>11. WellFormedInner(t, n)
  BY <1>10, NodeHash
<1>12. PICK j \in 1..arity : Len(p) = ChildOffset(t, n, j)
  <2>1. t.offset[n] \in inner_spec.min_prefix_length..
                        inner_spec.max_prefix_length
    BY <1>11 DEF WellFormedInner
  <2>2. Len(p) + size + Len(s) = t.offset[n] + (arity - 1) * width + size
    BY <1>7, <1>11 DEF WellFormedInner, ChildOffset
  <2>3. /\ Len(p) >= inner_spec.min_prefix_length
        /\ inner_spec.max_prefix_length < inner_spec.min_prefix_length + width
        /\ Len(s) % width = 0
    BY DEF EnsureInner
  <2>4. FillsNode(Len(p), Len(s), size, inner_spec.min_prefix_length,
                  inner_spec.max_prefix_length, arity, t.offset[n], width)
    <3> DEFINE off == t.offset[n]
               len == Len(p)
               slen == Len(s)
               min == inner_spec.min_prefix_length
               max == inner_spec.max_prefix_length
    <3>1. /\ len \in Nat /\ slen \in Nat /\ size \in Nat
          /\ width \in Nat \ {0}
          /\ min \in Nat /\ max \in Nat /\ arity \in Nat
      BY <1>3, <1>4, <1>9
    <3>2. /\ arity >= 1 /\ off \in min..max /\ len >= min
          /\ max < min + width
          /\ slen % width = 0
          /\ len + size + slen = off + (arity - 1) * width + size
      BY <1>9, <2>1, <2>2, <2>3
    <3> HIDE DEF size, width, arity, off, len, slen, min, max
    <3>3. FillsNode(len, slen, size, min, max, arity, off, width)
      BY <3>1, <3>2 DEF FillsNode
    <3> QED
      BY <3>3 DEF len, slen, min, max, off
  <2>5. AtSlot(Len(p), arity, t.offset[n], width)
    BY <2>4, PrefixEndsAtSlot, Zenon
  <2> QED
    BY <2>5 DEF AtSlot, ChildOffset
<1> DEFINE m == t.kids[n][j]
<1>13. \A i \in 1..size : h[i] = ChildHash(t, m)[i]
  BY <1>8, <1>11, <1>12 DEF WellFormedInner
<1>14. m \in t.nodes \union {None}
  BY <1>11 DEF WellFormedInner
<1>15. m # None
  <2> SUFFICES ASSUME m = None PROVE FALSE
    OBVIOUS
  <2> DEFINE e == inner_spec.empty_child
  <2>1. Len(e) = size
    BY <1>11, <1>12 DEF WellFormedInner
  <2>2. h[1] = e[1]
    BY <1>3, <1>13 DEF ChildHash
  <2>3. 1 \in DOMAIN e
    <3>1. t.spec.inner_spec # None
      BY DEF EnsureInner
    <3>2. IsSequence(e)
      BY <1>1, <3>1 DEF IsProofSpec
    <3> QED
      BY <1>3, <2>1, <3>2, SequenceType
  <2>4. PICK b \in 0..(Radix - 1) : e[1] = <<b>>
    BY <1>1, <2>3 DEF WellFormedTree, IsSoundSpec, Byte
  <2>5. h[1] = <<h[1][1], h[1][2]>>
    BY <1>2, IsDigestType
  <2>6. \A x, y : <<b>> # <<x, y>>
    OBVIOUS
  <2> QED
    BY <2>2, <2>4, <2>5, <2>6
<1>16. m \in t.nodes
  BY <1>14, <1>15
<1>17. IsSequence(t.hash[m]) /\ Len(t.hash[m]) = size
  BY <1>2, <1>16, NodeHash, DigestOfTree
<1>18. t.hash[m] = h
  BY <1>3, <1>13, <1>15, <1>17, EqualSequences DEF ChildHash
<1>19. IsStepOf(t, step, n, m)
  BY <1>5, <1>12, <1>18 DEF IsStepOf, InnerImage
<1> QED
  BY <1>10, <1>16, <1>18, <1>19 DEF Inners

(* A path that leads to a node, and an operation of its parent over it.    *)
LEMMA LeadsFromLeaf ==
    ASSUME NEW t \in Trees, NEW path, NEW n \in t.leaves
    PROVE  Leads(t, t.image[n], path, 0, n)
<1> DEFINE via == [i \in 0..0 |-> n]
<1>1. n \in t.nodes
  BY TreesAssumption DEF WellFormedTree
<1>2. via \in [0..0 -> t.nodes] /\ via[0] = n
  BY <1>1
<1>3. \A i \in 1..0 : FALSE
  OBVIOUS
<1> HIDE DEF via
<1> QED
  BY <1>2, <1>3, Zenon DEF Leads

LEMMA LeadsFurther ==
    ASSUME NEW t, NEW image, NEW path, NEW k \in Nat,
           NEW m, Leads(t, image, path, k, m),
           NEW n \in t.nodes, n \in Inners(t), IsStepOf(t, path[k + 1], n, m)
    PROVE  Leads(t, image, path, k + 1, n)
<1>1. PICK via \in [0..k -> t.nodes] :
        /\ via[0] \in t.leaves
        /\ t.image[via[0]] = image
        /\ via[k] = m
        /\ \A i \in 1..k : /\ via[i] \in Inners(t)
                           /\ IsStepOf(t, path[i], via[i], via[i - 1])
  BY DEF Leads
<1> DEFINE on == [i \in 0..(k + 1) |-> IF i = k + 1 THEN n ELSE via[i]]
<1>2. on \in [0..(k + 1) -> t.nodes]
  BY <1>1
<1>3. on[0] = via[0] /\ on[k + 1] = n
  OBVIOUS
<1>4. ASSUME NEW i \in 1..(k + 1)
      PROVE  on[i] \in Inners(t) /\ IsStepOf(t, path[i], on[i], on[i - 1])
  <2>1. CASE i = k + 1
    <3>1. on[i] = n /\ on[i - 1] = m /\ i = k + 1
      BY <1>1, <2>1
    <3> QED
      BY <3>1
  <2>2. CASE i \in 1..k
    <3>1. on[i] = via[i] /\ on[i - 1] = via[i - 1]
      BY <2>2
    <3> QED
      BY <1>1, <2>2, <3>1
  <2> QED
    BY <2>1, <2>2
<1> HIDE DEF on
<1> QED
  BY <1>1, <1>2, <1>3, <1>4 DEF Leads

-----------------------------------------------------------------------------
(* The children of a node and the operations over them.                    *)

LEMMA TreeLayout ==
    ASSUME NEW t \in Trees
    PROVE  LET inner_spec == t.spec.inner_spec
               size == DigestLen(inner_spec.hash)
           IN  /\ inner_spec # None
               /\ inner_spec.hash \in HashOp \ {"NO_HASH"}
               /\ inner_spec.child_size \in Nat \ {0}
               /\ {inner_spec.min_prefix_length,
                   inner_spec.max_prefix_length} \subseteq Nat
               /\ size \in Nat \ {0} /\ size <= inner_spec.child_size
               /\ Arity(t.spec) \in Nat /\ Arity(t.spec) >= 1
               /\ IsSequence(inner_spec.empty_child)
<1> DEFINE inner_spec == t.spec.inner_spec
<1>1. WellFormedTree(t) /\ IsProofSpec(t.spec)
  BY TreesAssumption
<1>2. /\ inner_spec # None /\ inner_spec.hash \in HashOp \ {"NO_HASH"}
      /\ DigestLen(inner_spec.hash) <= inner_spec.child_size
  BY <1>1 DEF WellFormedTree, IsSoundSpec
<1>3. DigestLen(inner_spec.hash) \in Nat \ {0}
  BY <1>2, OuterFunctionType
<1>4. /\ {inner_spec.min_prefix_length, inner_spec.max_prefix_length,
          inner_spec.child_size} \subseteq Nat
      /\ IsSequence(inner_spec.child_order) /\ inner_spec.child_order # <<>>
      /\ IsSequence(inner_spec.empty_child)
  BY <1>1, <1>2 DEF IsProofSpec
<1>5. Arity(t.spec) \in Nat /\ Arity(t.spec) >= 1
  BY <1>4, SequenceType DEF Arity
<1>6. inner_spec.child_size \in Nat \ {0}
  BY <1>2, <1>3, <1>4
<1> QED
  BY <1>2, <1>3, <1>4, <1>5, <1>6

(* c follows what has the lengths of a and b in x. *)
IsThird(x, a, b, c) == \A i \in 1..Len(c) : x[Len(a) + Len(b) + i] = c[i]

LEMMA LastOfThree ==
    ASSUME NEW a, NEW b, NEW c, NEW x, x = a \o b \o c,
           IsSequence(a), IsSequence(b), IsSequence(c)
    PROVE  IsThird(x, a, b, c)
<1> DEFINE ab == a \o b
<1>1. IsSequence(ab) /\ Len(ab) = Len(a) + Len(b)
  BY ConcatSequences, Zenon
<1>2. \A i \in 1..Len(c) : (ab \o c)[Len(ab) + i] = c[i]
  <2> HIDE DEF ab
  <2> QED
    BY <1>1, ConcatSequences
<1> QED
  BY <1>1, <1>2 DEF IsThird

LEMMA OffsetType ==
    ASSUME NEW t \in Trees, NEW n \in Inners(t)
    PROVE  t.offset[n] \in Nat
<1>1. WellFormedInner(t, n)
  BY NodeHash DEF Inners
<1>2. t.offset[n] \in t.spec.inner_spec.min_prefix_length..
                     t.spec.inner_spec.max_prefix_length
  BY <1>1 DEF WellFormedInner
<1> QED
  BY <1>2, TreeLayout

(* The operation fills node n with the hash of its child m in slot j. *)
IsOverSlot(t, n, op, m, j) ==
    LET size == DigestLen(t.spec.inner_spec.hash)
    IN  /\ j \in 1..Arity(t.spec)
        /\ t.kids[n][j] = m
        /\ Len(op.prefix) \in Nat /\ Len(op.suffix) \in Nat
        /\ Len(op.prefix) = ChildOffset(t, n, j)
        /\ Len(op.suffix) = (Arity(t.spec) - j) * t.spec.inner_spec.child_size
        /\ \A i \in 1..Len(op.prefix) : t.image[n][i] = op.prefix[i]
        /\ \A i \in 1..Len(op.suffix) :
               t.image[n][Len(op.prefix) + size + i] = op.suffix[i]

LEMMA StepIsOverSlot ==
    ASSUME NEW t \in Trees, NEW n \in Inners(t), NEW m \in t.nodes, NEW op,
           IsInnerOp(op), IsStepOf(t, op, n, m)
    PROVE  \E j \in 1..Arity(t.spec) : IsOverSlot(t, n, op, m, j)
<1> DEFINE size  == DigestLen(t.spec.inner_spec.hash)
           width == t.spec.inner_spec.child_size
           arity == Arity(t.spec)
           h     == t.hash[m]
<1>1. PICK j \in 1..arity : /\ t.kids[n][j] = m
                            /\ Len(op.prefix) = ChildOffset(t, n, j)
                            /\ t.image[n] = InnerImage(op, h)
  BY DEF IsStepOf
<1>2. /\ size \in Nat \ {0} /\ width \in Nat /\ arity \in Nat
      /\ t.spec.inner_spec.hash \in HashOp \ {"NO_HASH"}
  BY TreeLayout
<1>3. IsSequence(h) /\ Len(h) = size
  BY <1>2, NodeHash, DigestOfTree
<1>4. /\ IsSequence(op.prefix) /\ Len(op.prefix) \in Nat
      /\ IsSequence(op.suffix) /\ Len(op.suffix) \in Nat
  BY SequenceType DEF IsInnerOp
<1>5. Parts(t.image[n], op.prefix, h, op.suffix)
  <2>1. t.image[n] = op.prefix \o h \o op.suffix
    BY <1>1 DEF InnerImage
  <2> QED
    BY <1>3, <1>4, <2>1, ConcatThree, Zenon
<1>6. /\ Len(t.image[n]) = Len(op.prefix) + size + Len(op.suffix)
      /\ \A i \in 1..Len(op.prefix) : t.image[n][i] = op.prefix[i]
      /\ \A i \in 1..Len(op.suffix) :
             t.image[n][Len(op.prefix) + size + i] = op.suffix[i]
  <2>1. Len(t.image[n]) = Len(op.prefix) + size + Len(op.suffix)
    BY <1>3, <1>5 DEF Parts
  <2>2. \A i \in 1..Len(op.prefix) : t.image[n][i] = op.prefix[i]
    BY <1>5 DEF Parts
  <2>3. \A i \in 1..Len(op.suffix) :
            t.image[n][Len(op.prefix) + size + i] = op.suffix[i]
    <3>1. t.image[n] = op.prefix \o h \o op.suffix
      BY <1>1 DEF InnerImage
    <3>2. IsThird(t.image[n], op.prefix, h, op.suffix)
      BY <1>3, <1>4, <3>1, LastOfThree, Zenon
    <3> QED
      BY <1>3, <3>2 DEF IsThird
  <2> QED
    BY <2>1, <2>2, <2>3
<1>7. /\ Len(t.image[n]) = ChildOffset(t, n, arity) + size
      /\ t.offset[n] \in Int
  <2>1. WellFormedInner(t, n)
    BY NodeHash DEF Inners
  <2>2. /\ Len(t.image[n]) = ChildOffset(t, n, arity) + size
        /\ t.offset[n] \in t.spec.inner_spec.min_prefix_length..
                           t.spec.inner_spec.max_prefix_length
    BY <2>1 DEF WellFormedInner
  <2> QED
    BY <2>2, TreeLayout
<1>8. Len(op.suffix) = (arity - j) * width
  <2> DEFINE off == t.offset[n]
             p == Len(op.prefix)
             s == Len(op.suffix)
  <2>1. /\ p + size + s = off + (arity - 1) * width + size
        /\ p = off + (j - 1) * width
    BY <1>1, <1>6, <1>7 DEF ChildOffset
  <2>2. p \in Int /\ s \in Int /\ off \in Int /\ j \in Int /\ arity \in Int
            /\ width \in Int /\ size \in Int
    BY <1>2, <1>4, <1>7
  <2> HIDE DEF p, s, off, width, size, arity
  <2>3. s = (arity - 1) * width - (j - 1) * width
    <3> DEFINE a == (arity - 1) * width
               b == (j - 1) * width
    <3>1. a \in Int /\ b \in Int
      BY <2>2
    <3>2. p + size + s = off + a + size /\ p = off + b
      BY <2>1
    <3> HIDE DEF a, b
    <3>3. s = a - b
      BY <2>2, <3>1, <3>2
    <3> QED
      BY <3>3 DEF a, b
  <2>4. s = (arity - j) * width
    BY <2>2, <2>3
  <2> QED
    BY <2>4 DEF s
<1> QED
  BY <1>1, <1>4, <1>6, <1>8 DEF IsOverSlot

(* In a node whose slots are in the order of the keys, the leaves are below *)
(* the children, those below one child before those below the next.        *)
LEMMA LeavesBelow ==
    ASSUME NEW t \in Trees, t \in SortedTrees,
           NEW n \in Inners(t)
    PROVE  /\ \A x \in t.below[n] :
                  \E i \in 1..Arity(t.spec) : x \in Below(t, t.kids[n][i])
           /\ \A i \in 1..Arity(t.spec) : Below(t, t.kids[n][i]) \subseteq t.below[n]
           /\ \A i, j \in 1..Arity(t.spec) : i < j =>
                  \A x \in Below(t, t.kids[n][i]) :
                  \A y \in Below(t, t.kids[n][j]) : Ahead(t, x, y)
<1> DEFINE rank == t.spec.inner_spec.child_order
<1>1. OrderedTree(t) /\ InSlotOrder(t.spec.inner_spec.child_order)
  BY DEF SortedTrees
<1>2. Arity(t.spec) = Len(rank) /\ Arity(t.spec) \in Nat
  BY TreeLayout DEF Arity
<1>3. t.below[n] = UNION {Below(t, t.kids[n][i]) : i \in 1..Len(rank)}
  BY <1>1 DEF OrderedTree
<1>4. \A i, j \in 1..Len(rank) : rank[i] < rank[j] =>
          \A x \in Below(t, t.kids[n][i]) :
          \A y \in Below(t, t.kids[n][j]) : Ahead(t, x, y)
  BY <1>1 DEF OrderedTree, Ahead
<1>5. \A i, j \in 1..Len(rank) : i < j => rank[i] < rank[j]
  BY <1>1, <1>2 DEF InSlotOrder
<1> QED
  BY <1>2, <1>3, <1>4, <1>5

(* An operation with the padding of a branch is over the slot of that      *)
(* branch.                                                                 *)
LEMMA PaddingTellsSlot ==
    ASSUME NEW t \in Trees, NEW n, NEW op, NEW m, NEW j,
           IsOverSlot(t, n, op, m, j),
           NEW b \in Int, HasPadding(t.spec.inner_spec, op, b)
    PROVE  j = b + 1
<1> DEFINE width == t.spec.inner_spec.child_size
           arity == Arity(t.spec)
<1>1. width \in Nat \ {0} /\ arity \in Nat /\ j \in Int
  BY TreeLayout DEF IsOverSlot
<1>2. (arity - j) * width = (arity - 1 - b) * width
  BY DEF IsOverSlot, HasPadding, LastBranch, Arity
<1> HIDE DEF width, arity
<1>3. arity - j = arity - 1 - b
  BY <1>1, <1>2
<1> QED
  BY <1>1, <1>3

(* Two operations with prefixes of one length are over the same child.     *)
LEMMA PrefixTellsSlot ==
    ASSUME NEW t \in Trees, NEW n \in Inners(t),
           NEW op, NEW m, NEW j, IsOverSlot(t, n, op, m, j),
           NEW other, NEW k, NEW i, IsOverSlot(t, n, other, k, i),
           Len(op.prefix) = Len(other.prefix)
    PROVE  m = k
<1> DEFINE width == t.spec.inner_spec.child_size
           off == t.offset[n]
<1>1. width \in Nat \ {0} /\ i \in Int /\ j \in Int
  BY TreeLayout DEF IsOverSlot
<1>2. off \in Int
  BY OffsetType
<1>3. off + (j - 1) * width = off + (i - 1) * width
  BY DEF IsOverSlot, ChildOffset
<1> HIDE DEF width, off
<1>4. (j - 1) * width = (i - 1) * width
  BY <1>1, <1>2, <1>3
<1>5. j = i
  BY <1>1, <1>4
<1> QED
  BY <1>5 DEF IsOverSlot

(* A slot that begins with a plain byte holds a placeholder: a hash begins *)
(* with what it is the digest of.                                          *)
LEMMA PlainSlotIsEmpty ==
    ASSUME NEW t \in Trees, NEW n \in Inners(t), NEW i \in 1..Arity(t.spec),
           t.image[n][ChildOffset(t, n, i) + 1] \in {Byte(b) : b \in 0..(Radix - 1)}
    PROVE  t.kids[n][i] = None
<1> DEFINE c    == t.kids[n][i]
           op   == t.spec.inner_spec.hash
           size == DigestLen(op)
<1> SUFFICES ASSUME c # None PROVE FALSE
  OBVIOUS
<1>1. WellFormedInner(t, n)
  BY NodeHash DEF Inners
<1>2. op \in HashOp \ {"NO_HASH"} /\ size \in Nat \ {0} /\ Arity(t.spec) \in Nat
  BY TreeLayout
<1>3. c \in t.nodes
  BY <1>1, <1>2 DEF WellFormedInner
<1>4. t.image[n][ChildOffset(t, n, i) + 1] = t.hash[c][1]
  BY <1>1, <1>2 DEF WellFormedInner, ChildHash
<1>5. t.hash[c][1] = <<t.hash[c][1][1], t.hash[c][1][2]>>
  BY <1>2, <1>3, NodeHash, DigestOfTree, IsDigestType
<1>6. PICK b \in 0..(Radix - 1) : t.hash[c][1] = <<b>>
  BY <1>4 DEF Byte
<1>7. \A x, y : <<b>> # <<x, y>>
  OBVIOUS
<1> QED
  BY <1>5, <1>6, <1>7

LEMMA SubSeqBytes ==
    ASSUME NEW s, IsSequence(s), NEW a \in Nat, NEW b \in Nat,
           1 <= a, a <= b, b <= Len(s)
    PROVE  /\ Len(SubSeq(s, a, b)) = b - a + 1
           /\ \A i \in 1..(b - a + 1) : SubSeq(s, a, b)[i] = s[a + i - 1]
<1>1. s \in Seq(Range(s))
  BY DEF IsSequence
<1> QED
  BY <1>1

(* The bytes of the placeholder are plain. *)
LEMMA EmptyChildBytes ==
    ASSUME NEW t \in Trees, NEW k \in 1..Len(t.spec.inner_spec.empty_child)
    PROVE  t.spec.inner_spec.empty_child[k] \in {Byte(b) : b \in 0..(Radix - 1)}
<1>1. IsSoundSpec(t.spec)
  BY TreesAssumption DEF WellFormedTree
<1>2. k \in DOMAIN t.spec.inner_spec.empty_child
  BY TreeLayout, SequenceType
<1> QED
  BY <1>1, <1>2 DEF IsSoundSpec

(* Right of the child that a right-most step is over there are only        *)
(* placeholders.                                                           *)
LEMMA NothingOnTheRight ==
    ASSUME NEW t \in Trees, NEW n \in Inners(t), NEW op, IsInnerOp(op),
           NEW m, NEW j, IsOverSlot(t, n, op, m, j),
           IsRightMostStep(t.spec.inner_spec, op),
           NEW i \in 1..Arity(t.spec), i > j
    PROVE  t.kids[n][i] = None
<1> DEFINE inner_spec == t.spec.inner_spec
           width == inner_spec.child_size
           size  == DigestLen(inner_spec.hash)
           arity == Arity(t.spec)
           empty == inner_spec.empty_child
<1>1. /\ width \in Nat \ {0} /\ size \in Nat \ {0} /\ size <= width
      /\ arity \in Nat /\ arity >= 1
  BY TreeLayout
<1>2. LastBranch(inner_spec) = arity - 1
  BY DEF LastBranch, Arity
<1>3. j \in 1..arity
  BY DEF IsOverSlot
<1>4. CASE HasPadding(inner_spec, op, LastBranch(inner_spec))
  <2>1. j = arity
    BY <1>1, <1>2, <1>4, PaddingTellsSlot
  <2> QED
    BY <1>1, <2>1
<1>5. CASE RightBranchesAreEmpty(inner_spec, op)
  <2>1. PICK branch \in 0..LastBranch(inner_spec) :
          /\ IsOrder(inner_spec, op, branch)
          /\ branch # LastBranch(inner_spec)
          /\ Len(op.suffix) = width
          /\ \A k \in 0..(LastBranch(inner_spec) - branch - 1) :
                 ChildBytes(inner_spec, op.suffix, 0, k) = empty
    BY <1>5 DEF RightBranchesAreEmpty
  <2>2. j = branch + 1
    BY <2>1, PaddingTellsSlot DEF IsOrder, Padded
  <2>3. (arity - j) * width = 1 * width
    <3>1. Len(op.suffix) = (arity - j) * width
      BY DEF IsOverSlot
    <3> QED
      BY <1>1, <2>1, <3>1
  <2>4. arity - j = 1
    <3> HIDE DEF width, arity
    <3> QED
      BY <1>1, <1>3, <2>3
  <2>5. i = j + 1
    BY <1>1, <1>3, <2>4
  <2>6. ChildBytes(inner_spec, op.suffix, 0, 0) = empty
    BY <1>1, <1>2, <1>3, <2>1, <2>2, <2>4
  <2>7. SubSeq(op.suffix, 1, width) = empty
    <3>1. 0 + 0 * width + 1 = 1 /\ 0 + (0 + 1) * width = width
      BY <1>1
    <3> QED
      BY <2>6, <3>1 DEF ChildBytes
  <2> DEFINE k == width - size + 1
  <2>8. k \in 1..width
    BY <1>1
  <2>9. Len(empty) = width /\ empty[k] = op.suffix[k]
    <3>1. IsSequence(op.suffix)
      BY DEF IsInnerOp
    <3> HIDE DEF width, k, empty
    <3> QED
      BY <1>1, <2>1, <2>7, <2>8, <3>1, SubSeqBytes
  <2>10. op.suffix[k] \in {Byte(b) : b \in 0..(Radix - 1)}
    BY <2>8, <2>9, EmptyChildBytes
  <2>11. t.image[n][Len(op.prefix) + size + k] = op.suffix[k]
    BY <2>1, <2>8 DEF IsOverSlot
  <2>12. ChildOffset(t, n, i) + 1 = Len(op.prefix) + size + k
    <3>1. t.offset[n] \in Int
      BY OffsetType
    <3>2. /\ Len(op.prefix) = t.offset[n] + (j - 1) * width
          /\ ChildOffset(t, n, i) = t.offset[n] + (i - 1) * width
      BY DEF IsOverSlot, ChildOffset
    <3> DEFINE off == t.offset[n]
               p   == Len(op.prefix)
               c   == ChildOffset(t, n, i)
    <3>3. p = off + (j - 1) * width /\ c = off + j * width
      BY <1>1, <1>3, <2>5, <3>2
    <3>4. off \in Int /\ j \in Int
      BY <1>3, <3>1
    <3> HIDE DEF width, size, off, arity, p, c
    <3>5. c + 1 = p + size + k
      BY <1>1, <3>3, <3>4
    <3> QED
      BY <3>5 DEF p, c
  <2> QED
    BY <2>10, <2>11, <2>12, PlainSlotIsEmpty
<1> QED
  BY <1>4, <1>5 DEF IsRightMostStep

(* Left of the child that a left-most step is over, likewise.              *)
LEMMA NothingOnTheLeft ==
    ASSUME NEW t \in Trees, NEW n \in Inners(t), NEW op, IsInnerOp(op),
           NEW m, NEW j, IsOverSlot(t, n, op, m, j),
           IsLeftMostStep(t.spec.inner_spec, op),
           NEW i \in 1..Arity(t.spec), i < j
    PROVE  t.kids[n][i] = None
<1> DEFINE inner_spec == t.spec.inner_spec
           width == inner_spec.child_size
           arity == Arity(t.spec)
           empty == inner_spec.empty_child
           off   == t.offset[n]
<1>1. width \in Nat \ {0} /\ arity \in Nat /\ arity >= 1
  BY TreeLayout
<1>2. LastBranch(inner_spec) = arity - 1
  BY DEF LastBranch, Arity
<1>3. j \in 1..arity
  BY DEF IsOverSlot
<1>4. CASE HasPadding(inner_spec, op, 0)
  <2>1. j = 1
    BY <1>4, PaddingTellsSlot
  <2> QED
    BY <2>1
<1>5. CASE LeftBranchesAreEmpty(inner_spec, op)
  <2>1. PICK branch \in 0..LastBranch(inner_spec) :
          /\ IsOrder(inner_spec, op, branch)
          /\ LET from == Len(op.prefix) - branch * width
             IN  \A k \in 0..(branch - 1) :
                     ChildBytes(inner_spec, op.prefix, from, k) = empty
    BY <1>5 DEF LeftBranchesAreEmpty
  <2>2. j = branch + 1
    BY <2>1, PaddingTellsSlot DEF IsOrder, Padded
  <2>3. off \in Nat
    BY OffsetType
  <2>4. Len(op.prefix) = off + (j - 1) * width /\ Len(op.prefix) \in Nat
    BY DEF IsOverSlot, ChildOffset
  <2> DEFINE a == off + (i - 1) * width + 1
             b == off + i * width
  <2>5. SubSeq(op.prefix, a, b) = empty
    <3>1. Len(op.prefix) - branch * width = off
      <4> HIDE DEF width, off, arity
      <4> QED
        BY <1>1, <1>3, <2>2, <2>3, <2>4
    <3>2. i - 1 \in 0..(branch - 1)
      BY <1>1, <1>2, <1>3, <2>2
    <3>3. ChildBytes(inner_spec, op.prefix, off, i - 1) = empty
      BY <2>1, <3>1, <3>2
    <3>4. (i - 1) + 1 = i
      BY <1>1
    <3> QED
      BY <3>3, <3>4 DEF ChildBytes
  <2>6. /\ a \in Nat /\ b \in Nat /\ b - a + 1 = width
        /\ 1 <= a /\ a <= b /\ b <= Len(op.prefix)
    <3> HIDE DEF width, off, arity
    <3>1. i \in Nat /\ i >= 1 /\ i <= j - 1 /\ j - 1 \in Nat
      BY <1>1, <1>3
    <3>2. i * width <= (j - 1) * width
      BY <1>1, <3>1
    <3>3. (i - 1) * width = i * width - width
      BY <1>1, <3>1
    <3>4. (i - 1) * width \in Nat /\ i * width \in Nat
      BY <1>1, <3>1
    <3> QED
      BY <1>1, <2>3, <2>4, <3>1, <3>2, <3>3, <3>4
  <2>7. Len(empty) = width /\ empty[1] = op.prefix[a]
    <3>1. IsSequence(op.prefix)
      BY DEF IsInnerOp
    <3> HIDE DEF width, a, b, empty
    <3> QED
      BY <1>1, <2>5, <2>6, <3>1, SubSeqBytes
  <2>8. op.prefix[a] \in {Byte(x) : x \in 0..(Radix - 1)}
    <3>1. 1 \in 1..Len(empty)
      BY <1>1, <2>7
    <3>2. empty[1] \in {Byte(x) : x \in 0..(Radix - 1)}
      BY <3>1, EmptyChildBytes
    <3> QED
      BY <2>7, <3>2
  <2>9. t.image[n][a] = op.prefix[a]
    <3>1. a \in 1..Len(op.prefix)
      <4> HIDE DEF a, b
      <4> QED
        BY <2>4, <2>6
    <3> QED
      BY <3>1 DEF IsOverSlot
  <2>10. ChildOffset(t, n, i) + 1 = a
    BY DEF ChildOffset
  <2> QED
    BY <2>8, <2>9, <2>10, PlainSlotIsEmpty
<1> QED
  BY <1>4, <1>5 DEF IsLeftMostStep

-----------------------------------------------------------------------------
(* What the steps say of the leaves below.                                 *)

LEMMA BelowChild ==
    ASSUME NEW t \in Trees, t \in SortedTrees,
           NEW n \in Inners(t), NEW m \in t.nodes, NEW op, NEW j,
           IsOverSlot(t, n, op, m, j)
    PROVE  /\ t.below[m] \subseteq t.below[n]
           /\ \A x \in t.below[n] : \E i \in 1..Arity(t.spec) :
                  /\ x \in Below(t, t.kids[n][i])
                  /\ i = j => x \in t.below[m]
                  /\ i < j => AheadOf(t, x, m)
                  /\ i > j => Behind(t, x, m)
<1>1. m # None
  BY TreesAssumption DEF WellFormedTree
<1>2. j \in 1..Arity(t.spec) /\ Below(t, t.kids[n][j]) = t.below[m]
  BY <1>1 DEF IsOverSlot, Below
<1>3. t.below[m] \subseteq t.below[n]
  BY <1>2, LeavesBelow
<1>4. ASSUME NEW x \in t.below[n], NEW i \in 1..Arity(t.spec),
             x \in Below(t, t.kids[n][i])
      PROVE  /\ i = j => x \in t.below[m]
             /\ i < j => AheadOf(t, x, m)
             /\ i > j => Behind(t, x, m)
  BY <1>2, <1>4, LeavesBelow DEF AheadOf, Behind
<1> QED
  BY <1>3, <1>4, LeavesBelow

(* Beside the child an operation is over, on one side, there is nothing.   *)
ClearOnRight(t, op) ==
    \A n \in Inners(t), m \in t.nodes, i, j \in 1..Arity(t.spec) :
        (IsOverSlot(t, n, op, m, j) /\ i > j) => t.kids[n][i] = None

ClearOnLeft(t, op) ==
    \A n \in Inners(t), m \in t.nodes, i, j \in 1..Arity(t.spec) :
        (IsOverSlot(t, n, op, m, j) /\ i < j) => t.kids[n][i] = None

(* The operations are over children of a node that are next to each other. *)
SideBySide(t, op, other) ==
    \A n \in Inners(t), m, k \in t.nodes, i, j \in 1..Arity(t.spec) :
        (IsOverSlot(t, n, op, m, j) /\ IsOverSlot(t, n, other, k, i)) => i = j + 1

LEMMA EdgeStepsAreClear ==
    ASSUME NEW t \in Trees, NEW op, IsInnerOp(op)
    PROVE  /\ IsRightMostStep(t.spec.inner_spec, op) => ClearOnRight(t, op)
           /\ IsLeftMostStep(t.spec.inner_spec, op) => ClearOnLeft(t, op)
BY NothingOnTheRight, NothingOnTheLeft DEF ClearOnRight, ClearOnLeft

LEMMA LeftStepIsSideBySide ==
    ASSUME NEW t \in Trees, NEW op, NEW other,
           IsLeftStep(t.spec.inner_spec, op, other)
    PROVE  SideBySide(t, op, other)
<1> SUFFICES ASSUME NEW n \in Inners(t), NEW m \in t.nodes, NEW k \in t.nodes,
                    NEW i \in 1..Arity(t.spec), NEW j \in 1..Arity(t.spec),
                    IsOverSlot(t, n, op, m, j), IsOverSlot(t, n, other, k, i)
             PROVE  i = j + 1
  BY DEF SideBySide
<1>1. PICK branch \in 0..LastBranch(t.spec.inner_spec) :
        /\ IsOrder(t.spec.inner_spec, op, branch)
        /\ IsOrder(t.spec.inner_spec, other, branch + 1)
  BY DEF IsLeftStep
<1>2. branch \in Int /\ branch + 1 \in Int
  BY TreeLayout DEF LastBranch, Arity
<1>3. j = branch + 1
  BY <1>1, <1>2, PaddingTellsSlot DEF IsOrder, Padded
<1>4. i = branch + 1 + 1
  BY <1>1, <1>2, PaddingTellsSlot DEF IsOrder, Padded
<1> QED
  BY <1>3, <1>4

(* A step with nothing on the right keeps the last leaf the last. *)
LEMMA LastFurtherUp ==
    ASSUME NEW t \in Trees, t \in SortedTrees,
           NEW n \in Inners(t), NEW m \in t.nodes, NEW op, IsInnerOp(op),
           IsStepOf(t, op, n, m), ClearOnRight(t, op),
           NEW leaf, IsLast(t, m, leaf)
    PROVE  IsLast(t, n, leaf)
<1>1. PICK j \in 1..Arity(t.spec) : IsOverSlot(t, n, op, m, j)
  BY StepIsOverSlot
<1>2. leaf \in t.below[m] /\ leaf \in t.below[n]
  BY <1>1, BelowChild DEF IsLast
<1>3. ASSUME NEW x \in t.below[n]
      PROVE  x = leaf \/ Ahead(t, x, leaf)
  <2>1. PICK i \in 1..Arity(t.spec) :
          /\ x \in Below(t, t.kids[n][i])
          /\ i = j => x \in t.below[m]
          /\ i < j => AheadOf(t, x, m)
    BY <1>1, BelowChild
  <2>2. ~(i > j)
    BY <1>1, <2>1 DEF ClearOnRight, Below
  <2>3. i = j \/ i < j
    BY <2>2, TreeLayout
  <2> QED
    BY <1>2, <2>1, <2>3 DEF IsLast, AheadOf
<1> QED
  BY <1>2, <1>3 DEF IsLast

(* A step with nothing on the left keeps the first leaf the first. *)
LEMMA FirstFurtherUp ==
    ASSUME NEW t \in Trees, t \in SortedTrees,
           NEW n \in Inners(t), NEW m \in t.nodes, NEW op, IsInnerOp(op),
           IsStepOf(t, op, n, m), ClearOnLeft(t, op),
           NEW leaf, IsFirst(t, m, leaf)
    PROVE  IsFirst(t, n, leaf)
<1>1. PICK j \in 1..Arity(t.spec) : IsOverSlot(t, n, op, m, j)
  BY StepIsOverSlot
<1>2. leaf \in t.below[m] /\ leaf \in t.below[n]
  BY <1>1, BelowChild DEF IsFirst
<1>3. ASSUME NEW x \in t.below[n]
      PROVE  x = leaf \/ Ahead(t, leaf, x)
  <2>1. PICK i \in 1..Arity(t.spec) :
          /\ x \in Below(t, t.kids[n][i])
          /\ i = j => x \in t.below[m]
          /\ i > j => Behind(t, x, m)
    BY <1>1, BelowChild
  <2>2. ~(i < j)
    BY <1>1, <2>1 DEF ClearOnLeft, Below
  <2>3. i = j \/ i > j
    BY <2>2, TreeLayout
  <2> QED
    BY <1>2, <2>1, <2>3 DEF IsFirst, Behind
<1> QED
  BY <1>2, <1>3 DEF IsFirst

(* The leaves below a child are together if those below its parent are. *)
LEMMA BlockFurtherDown ==
    ASSUME NEW t \in Trees, t \in SortedTrees,
           NEW n \in Inners(t), NEW m \in t.nodes, NEW op, IsInnerOp(op),
           IsStepOf(t, op, n, m), IsBlock(t, n)
    PROVE  IsBlock(t, m)
<1>1. PICK j \in 1..Arity(t.spec) : IsOverSlot(t, n, op, m, j)
  BY StepIsOverSlot
<1>2. t.below[m] \subseteq t.below[n]
  BY <1>1, BelowChild
<1> SUFFICES ASSUME NEW x \in t.leaves
             PROVE  AheadOf(t, x, m) \/ x \in t.below[m] \/ Behind(t, x, m)
  BY DEF IsBlock
<1>3. CASE AheadOf(t, x, n) \/ Behind(t, x, n)
  BY <1>2, <1>3 DEF AheadOf, Behind
<1>4. CASE x \in t.below[n]
  <2>1. PICK i \in 1..Arity(t.spec) :
          /\ i = j => x \in t.below[m]
          /\ i < j => AheadOf(t, x, m)
          /\ i > j => Behind(t, x, m)
    BY <1>1, <1>4, BelowChild
  <2>2. i = j \/ i < j \/ i > j
    BY TreeLayout
  <2> QED
    BY <2>1, <2>2
<1> QED
  BY <1>3, <1>4 DEF IsBlock

(* Below two children a step apart there is nothing in between.            *)
LEMMA AdjacentBelowFork ==
    ASSUME NEW t \in Trees, t \in SortedTrees,
           NEW n \in Inners(t), IsBlock(t, n),
           NEW m \in t.nodes, NEW op, IsInnerOp(op), IsStepOf(t, op, n, m),
           NEW k \in t.nodes, NEW other, IsInnerOp(other), IsStepOf(t, other, n, k),
           SideBySide(t, op, other)
    PROVE  AreAdjacent(t, m, k)
<1>1. PICK j \in 1..Arity(t.spec) : IsOverSlot(t, n, op, m, j)
  BY StepIsOverSlot
<1>2. PICK i \in 1..Arity(t.spec) : IsOverSlot(t, n, other, k, i)
  BY StepIsOverSlot
<1>3. i = j + 1
  BY <1>1, <1>2 DEF SideBySide
<1>4. t.below[m] \subseteq t.below[n] /\ t.below[k] \subseteq t.below[n]
  BY <1>1, <1>2, BelowChild
<1> SUFFICES ASSUME NEW x \in t.leaves
             PROVE  \/ AheadOf(t, x, m) \/ x \in t.below[m]
                    \/ x \in t.below[k] \/ Behind(t, x, k)
  BY DEF AreAdjacent
<1>5. CASE AheadOf(t, x, n) \/ Behind(t, x, n)
  BY <1>4, <1>5 DEF AheadOf, Behind
<1>6. CASE x \in t.below[n]
  <2>1. PICK a \in 1..Arity(t.spec) : x \in Below(t, t.kids[n][a])
    BY <1>6, LeavesBelow
  <2>2. /\ t.below[m] = Below(t, t.kids[n][j])
        /\ t.below[k] = Below(t, t.kids[n][i])
    <3>1. m # None /\ k # None
      BY TreesAssumption DEF WellFormedTree
    <3> QED
      BY <1>1, <1>2, <3>1 DEF IsOverSlot, Below
  <2>3. a < j => AheadOf(t, x, m)
    BY <2>1, <2>2, LeavesBelow DEF AheadOf
  <2>4. a > i => Behind(t, x, k)
    BY <2>1, <2>2, LeavesBelow DEF Behind
  <2>5. a < j \/ a = j \/ a = i \/ a > i
    BY <1>3, TreeLayout
  <2> QED
    BY <2>1, <2>2, <2>3, <2>4, <2>5
<1> QED
  BY <1>5, <1>6 DEF IsBlock

(* Operations that are the same lead down to the same child. *)
LEMMA SameChild ==
    ASSUME NEW t \in Trees, NEW n \in Inners(t),
           NEW m \in t.nodes, NEW op, IsInnerOp(op), IsStepOf(t, op, n, m),
           NEW k \in t.nodes, NEW other, IsInnerOp(other), IsStepOf(t, other, n, k),
           op.prefix = other.prefix
    PROVE  m = k
<1>1. PICK j \in 1..Arity(t.spec) : IsOverSlot(t, n, op, m, j)
  BY StepIsOverSlot
<1>2. PICK i \in 1..Arity(t.spec) : IsOverSlot(t, n, other, k, i)
  BY StepIsOverSlot
<1> QED
  BY <1>1, <1>2, PrefixTellsSlot

-----------------------------------------------------------------------------
(* Chains of nodes.                                                        *)

LEMMA LeadsBack ==
    ASSUME NEW t, NEW image, NEW path, NEW k \in Nat, k > 0, NEW n,
           Leads(t, image, path, k, n)
    PROVE  /\ n \in Inners(t)
           /\ \E m \in t.nodes : /\ Leads(t, image, path, k - 1, m)
                                 /\ IsStepOf(t, path[k], n, m)
<1>1. PICK via \in [0..k -> t.nodes] :
        /\ via[0] \in t.leaves
        /\ t.image[via[0]] = image
        /\ via[k] = n
        /\ \A i \in 1..k : /\ via[i] \in Inners(t)
                           /\ IsStepOf(t, path[i], via[i], via[i - 1])
  BY DEF Leads
<1> DEFINE so_far == [i \in 0..(k - 1) |-> via[i]]
<1>2. k \in 1..k /\ k - 1 \in 0..k /\ 0 \in 0..(k - 1) /\ k - 1 \in 0..(k - 1)
  OBVIOUS
<1>3. /\ so_far \in [0..(k - 1) -> t.nodes]
      /\ so_far[0] = via[0] /\ so_far[k - 1] = via[k - 1]
  BY <1>1, <1>2
<1>4. \A i \in 1..(k - 1) : /\ so_far[i] = via[i] /\ so_far[i - 1] = via[i - 1]
                            /\ i \in 1..k
  OBVIOUS
<1>5. Leads(t, image, path, k - 1, via[k - 1])
  <2> HIDE DEF so_far
  <2>1. \A i \in 1..(k - 1) :
            /\ so_far[i] \in Inners(t)
            /\ IsStepOf(t, path[i], so_far[i], so_far[i - 1])
    BY <1>1, <1>4
  <2> QED
    BY <1>1, <1>3, <2>1, Zenon DEF Leads
<1>6. via[k - 1] \in t.nodes
  BY <1>1, <1>2
<1> QED
  BY <1>1, <1>2, <1>5, <1>6

LEMMA TrailExists ==
    ASSUME NEW t, NEW p, NEW k, NEW n, LeadsTo(t, p, k, n)
    PROVE  \E via \in [0..k -> t.nodes] : IsTrail(t, p, k, via) /\ via[k] = n
BY DEF LeadsTo, Leads, IsTrail

(* A leaf is the only one below itself. *)
LEMMA OnlyLeaf ==
    ASSUME NEW t \in SortedTrees, NEW n \in t.leaves
    PROVE  t.below[n] = {n} /\ IsLast(t, n, n) /\ IsFirst(t, n, n)
<1>1. t.below[n] = {n}
  BY DEF SortedTrees, OrderedTree
<1> QED
  BY <1>1 DEF IsLast, IsFirst

LEMMA RootFacts ==
    ASSUME NEW t \in SortedTrees
    PROVE  t.root \in t.nodes /\ t.below[t.root] = t.leaves /\ IsBlock(t, t.root)
BY TreesAssumption DEF SortedTrees, WellFormedTree, OrderedTree, IsBlock

(* The leaf at the lower end of a trail is the first and last so far.      *)
LEMMA TrailStarts ==
    ASSUME NEW t \in SortedTrees, NEW p, NEW k \in Nat, NEW n, LeadsTo(t, p, k, n)
    PROVE  \E via \in [0..k -> t.nodes] :
               /\ IsTrail(t, p, k, via) /\ via[k] = n
               /\ IsLast(t, via[0], via[0]) /\ IsFirst(t, via[0], via[0])
<1>1. PICK via \in [0..k -> t.nodes] : IsTrail(t, p, k, via) /\ via[k] = n
  BY TrailExists
<1> QED
  BY <1>1, OnlyLeaf DEF IsTrail

-----------------------------------------------------------------------------
(* The hashes along a path.                                                *)

LEMMA HashesStep ==
    ASSUME NEW proof, Len(proof.path) \in Nat
    PROVE  /\ Hashes(proof)[0] = ApplyLeaf(proof.leaf, proof.key, proof.value)
           /\ \A k \in 1..Len(proof.path) :
                  Hashes(proof)[k] = ApplyInner(proof.path[k], Hashes(proof)[k - 1])
<1> DEFINE len == Len(proof.path)
           first == ApplyLeaf(proof.leaf, proof.key, proof.value)
           next(k, h) == ApplyInner(proof.path[k], h)
           IsHashes(f, m) == /\ f = [k \in 0..m |-> f[k]]
                             /\ f[0] = first
                             /\ \A k \in 1..m : f[k] = next(k, f[k - 1])
           X == {m \in Nat : \E f : IsHashes(f, m)}
<1> HIDE DEF first, next
<1>1. 0 \in X
  <2>1. IsHashes([k \in 0..0 |-> first], 0)
    OBVIOUS
  <2> QED
    BY <2>1
<1>2. ASSUME NEW m \in Nat, m \in X PROVE m + 1 \in X
  <2>1. PICK f : IsHashes(f, m)
    BY <1>2
  <2> DEFINE g == [k \in 0..(m + 1) |-> IF k = m + 1 THEN next(m + 1, f[m]) ELSE f[k]]
  <2>2. /\ g = [k \in 0..(m + 1) |-> g[k]]
        /\ g[m + 1] = next(m + 1, f[m])
        /\ \A k \in 0..m : g[k] = f[k]
    OBVIOUS
  <2> HIDE DEF g
  <2>3. ASSUME NEW k \in 1..(m + 1) PROVE g[k] = next(k, g[k - 1])
    <3>1. CASE k = m + 1
      <4>1. k - 1 = m /\ m \in 0..m
        BY <3>1
      <4>2. g[m] = f[m]
        BY <2>2, <4>1
      <4> QED
        BY <2>2, <3>1, <4>1, <4>2
    <3>2. CASE k # m + 1
      <4>1. k \in 1..m /\ k \in 0..m /\ k - 1 \in 0..m
        BY <3>2
      <4> QED
        BY <2>1, <2>2, <4>1
    <3> QED
      BY <3>1, <3>2
  <2>4. IsHashes(g, m + 1)
    <3>1. f[0] = first
      BY <2>1
    <3>2. 0 \in 0..m
      OBVIOUS
    <3>3. g[0] = first
      BY <2>2, <3>1, <3>2
    <3> QED
      BY <2>2, <2>3, <3>3
  <2> HIDE DEF IsHashes
  <2>5. m + 1 \in Nat /\ \E h : IsHashes(h, m + 1)
    BY <2>4
  <2> QED
    BY <2>5
<1>3. \A m \in Nat : m \in X
  <2> HIDE DEF X
  <2> QED
    BY <1>1, <1>2, SetInduction
<1>4. PICK f : IsHashes(f, len)
  BY <1>3
<1> DEFINE E(h) == [k \in 0..len |-> IF k = 0 THEN first ELSE next(k, h[k - 1])]
<1>5. f = E(f)
  <2>1. ASSUME NEW k \in 0..len
        PROVE  f[k] = IF k = 0 THEN first ELSE next(k, f[k - 1])
    <3>1. k = 0 \/ k \in 1..len
      OBVIOUS
    <3> QED
      BY <1>4, <3>1
  <2>2. f = [k \in 0..len |-> f[k]]
    BY <1>4
  <2> QED
    BY <2>1, <2>2
<1> DEFINE p == CHOOSE p : p = E(p)
<1>6. p = E(p)
  BY <1>5
<1>7. Hashes(proof) = p
  BY DEF Hashes, first, next
<1> HIDE DEF p
<1> QED
  BY <1>6, <1>7 DEF first, next

LEMMA HashesType ==
    ASSUME NEW proof, IsExistenceProof(proof), proof.leaf # None
    PROVE  \A k \in 0..Len(proof.path) : IsSequence(Hashes(proof)[k])
<1> DEFINE len == Len(proof.path)
           X == {k \in 0..len : IsSequence(Hashes(proof)[k])}
<1>1. len \in Nat
  BY SequenceType DEF IsExistenceProof
<1>2. 0 \in X
  BY <1>1, HashesStep, AppliedTypes DEF IsExistenceProof
<1>3. \A k \in 0..(len - 1) : k \in X => k + 1 \in X
  <2> SUFFICES ASSUME NEW k \in 0..(len - 1), k \in X PROVE k + 1 \in X
    OBVIOUS
  <2>1. k + 1 \in 1..len /\ (k + 1) - 1 = k /\ k + 1 \in 0..len
    BY <1>1
  <2>2. Hashes(proof)[k + 1] = ApplyInner(proof.path[k + 1], Hashes(proof)[k])
    BY <1>1, <2>1, HashesStep
  <2> QED
    BY <2>1, <2>2, AppliedTypes DEF IsExistenceProof
<1>4. \A k \in 0..len : k \in X
  <2> HIDE DEF X, len
  <2> QED
    BY <1>1, <1>2, <1>3, BoundedInduction
<1> QED
  BY <1>4

(* The operations of the path pass ensure_inner. *)
OpsAccepted(proof, spec) ==
    \A k \in 1..Len(proof.path) : EnsureInner(proof.path[k], spec)

(* Each of the hashes that belongs to a node is reached from a leaf.       *)
LEMMA HashesLead ==
    ASSUME NEW t \in Trees, NEW proof, IsExistenceProof(proof), proof.leaf # None,
           EnsureLeaf(proof.leaf, t.spec.leaf_spec), OpsAccepted(proof, t.spec)
    PROVE  \A k \in 0..Len(proof.path) :
               /\ IsDigest(t.spec.inner_spec.hash, Hashes(proof)[k])
               /\ \A n \in t.nodes :
                      t.hash[n] = Hashes(proof)[k] => LeadsTo(t, proof, k, n)
<1> DEFINE len == Len(proof.path)
           op  == t.spec.inner_spec.hash
           P(k) == /\ IsDigest(op, Hashes(proof)[k])
                   /\ \A n \in t.nodes :
                          t.hash[n] = Hashes(proof)[k] => LeadsTo(t, proof, k, n)
           X == {k \in 0..len : P(k)}
<1>1. len \in Nat /\ op \in HashOp \ {"NO_HASH"}
  BY SequenceType, TreeLayout DEF IsExistenceProof
<1>2. 0 \in X
  <2>1. Hashes(proof)[0] = ApplyLeaf(proof.leaf, proof.key, proof.value)
    BY <1>1, HashesStep
  <2>2. /\ IsDigest(op, Hashes(proof)[0])
        /\ \A n \in t.nodes : t.hash[n] = Hashes(proof)[0] =>
               n \in t.leaves
               /\ t.image[n] = LeafImage(proof.leaf, proof.key, proof.value)
    BY <2>1, LeafHashIsOfLeaf DEF IsExistenceProof
  <2>3. P(0)
    BY <2>2, LeadsFromLeaf DEF LeadsTo
  <2> HIDE DEF P
  <2> QED
    BY <1>1, <2>3
<1>3. \A k \in 0..(len - 1) : k \in X => k + 1 \in X
  <2> SUFFICES ASSUME NEW k \in 0..(len - 1), k \in X PROVE k + 1 \in X
    OBVIOUS
  <2> DEFINE step == proof.path[k + 1]
             h    == Hashes(proof)[k]
  <2>1. k + 1 \in 1..len /\ (k + 1) - 1 = k /\ k + 1 \in 0..len /\ k \in Nat
    BY <1>1
  <2>2. Hashes(proof)[k + 1] = ApplyInner(step, h)
    BY <1>1, <2>1, HashesStep
  <2>3. EnsureInner(step, t.spec) /\ IsInnerOp(step)
    BY <2>1 DEF OpsAccepted, IsExistenceProof
  <2>4. P(k)
    OBVIOUS
  <2>5. IsDigest(op, ApplyInner(step, h))
    BY <1>1, <2>3, DigestOfTree DEF EnsureInner, ApplyInner
  <2>6. ASSUME NEW n \in t.nodes, t.hash[n] = ApplyInner(step, h)
        PROVE  LeadsTo(t, proof, k + 1, n)
    <3>1. PICK m \in t.nodes : t.hash[m] = h /\ IsStepOf(t, step, n, m)
      BY <2>3, <2>4, <2>6, InnerHashIsOfParent
    <3>2. n \in Inners(t)
      BY <2>3, <2>4, <2>6, InnerHashIsOfParent
    <3>3. LeadsTo(t, proof, k, m)
      BY <2>4, <3>1
    <3> QED
      BY <2>1, <3>1, <3>2, <3>3, LeadsFurther DEF LeadsTo
  <2> QED
    BY <2>1, <2>2, <2>5, <2>6
<1>4. \A k \in 0..len : k \in X
  <2> HIDE DEF X, len
  <2> QED
    BY <1>1, <1>2, <1>3, BoundedInduction
<1> QED
  BY <1>4

(* What verify_existence accepts is a path of the tree. *)
LEMMA ExistenceLeads ==
    ASSUME NEW t \in Trees, NEW proof, IsExistenceProof(proof), NEW key, NEW value,
           VerifiesExistence(proof, t.spec, t.hash[t.root], key, value)
    PROVE  LeadsTo(t, proof, Len(proof.path), t.root)
<1>1. /\ proof.leaf # None
      /\ EnsureLeaf(proof.leaf, t.spec.leaf_spec)
      /\ OpsAccepted(proof, t.spec)
      /\ Hashes(proof)[Len(proof.path)] = t.hash[t.root]
  BY DEF VerifiesExistence, LeafAccepted, StepAccepted, RootFrom, OpsAccepted
<1>2. t.root \in t.nodes /\ Len(proof.path) \in 0..Len(proof.path)
  BY TreesAssumption, SequenceType DEF WellFormedTree, IsExistenceProof
<1> QED
  BY <1>1, <1>2, HashesLead

-----------------------------------------------------------------------------
(* What the image of a leaf tells.                                         *)

(* The varint at the front of a string ends at the same place whatever     *)
(* follows the string.                                                     *)
LEMMA VarintExtends ==
    ASSUME NEW p, NEW a, IsSequence(p), IsSequence(a), HasVarint(p)
    PROVE  /\ VarintLen(p) \in 1..Len(p)
           /\ IsSequence(AfterVarint(p))
           /\ Len(AfterVarint(p)) = Len(p) - VarintLen(p)
           /\ VarintLen(p \o a) = VarintLen(p)
           /\ AfterVarint(p \o a) = AfterVarint(p) \o a
<1> DEFINE v == VarintLen(p)
           s == p \o a
<1>1. v \in VarintEnds(p)
  BY DEF HasVarint, VarintLen
<1>2. v \in 1..Len(p) /\ Len(p) \in Nat /\ Len(a) \in Nat
  BY <1>1, SequenceType DEF VarintEnds
<1>3. /\ IsSequence(s) /\ Len(s) = Len(p) + Len(a)
      /\ \A i \in 1..Len(p) : s[i] = p[i]
      /\ \A i \in 1..Len(a) : s[Len(p) + i] = a[i]
  BY ConcatSequences
<1> HIDE DEF v, s
<1>4. v \in VarintEnds(s)
  BY <1>1, <1>2, <1>3 DEF VarintEnds
<1>5. \A k \in VarintEnds(s) : k = v
  BY <1>4, <1>2, <1>3 DEF VarintEnds
<1>6. VarintLen(s) = v
  BY <1>4, <1>5 DEF VarintLen
<1>7. PICK S : p \in Seq(S) /\ a \in Seq(S) /\ s \in Seq(S)
  <2>1. s \in Seq(Range(p) \union Range(a))
    BY SeqMonotonic DEF IsSequence, s
  <2> QED
    BY <2>1, SeqMonotonic DEF IsSequence
<1> DEFINE r == SubSeq(p, v + 1, Len(p))
           q == SubSeq(s, v + 1, Len(s))
<1>8. /\ r \in Seq(S) /\ Len(r) = Len(p) - v
      /\ \A i \in 1..(Len(p) - v) : r[i] = p[v + i]
  BY <1>2, <1>7
<1>9. /\ q \in Seq(S) /\ Len(q) = Len(s) - v
      /\ \A i \in 1..(Len(s) - v) : q[i] = s[v + i]
  BY <1>2, <1>3, <1>7
<1>10. IsSequence(r) /\ IsSequence(q)
  BY <1>8, <1>9, SequenceIntro
<1>11. r = AfterVarint(p) /\ q = AfterVarint(s)
  BY <1>6 DEF AfterVarint, v
<1> HIDE DEF r, q
<1>12. /\ IsSequence(r \o a) /\ Len(r \o a) = Len(r) + Len(a)
       /\ \A i \in 1..Len(r) : (r \o a)[i] = r[i]
       /\ \A i \in 1..Len(a) : (r \o a)[Len(r) + i] = a[i]
  BY <1>10, ConcatSequences
<1> DEFINE ra == r \o a
<1> HIDE DEF ra
<1>13. q = ra
  <2>1. Len(q) = Len(ra) /\ Len(q) \in Nat
    BY <1>2, <1>3, <1>8, <1>9, <1>12 DEF ra
  <2>2. ASSUME NEW i \in 1..Len(q) PROVE q[i] = ra[i]
    <3>1. CASE i <= Len(p) - v
      <4>1. i \in 1..(Len(p) - v) /\ v + i \in 1..Len(p) /\ i \in 1..Len(r)
            /\ i \in 1..(Len(s) - v)
        BY <1>2, <1>3, <1>8, <3>1
      <4>2. q[i] = s[v + i] /\ s[v + i] = p[v + i] /\ r[i] = p[v + i] /\ ra[i] = r[i]
        BY <4>1, <1>3, <1>8, <1>9, <1>12 DEF ra
      <4> QED
        BY <4>2
    <3>2. CASE i > Len(p) - v
      <4> DEFINE j == i - (Len(p) - v)
      <4>1. j \in 1..Len(a) /\ Len(p) + j = v + i /\ Len(r) + j = i
            /\ i \in 1..(Len(s) - v)
        BY <1>2, <1>3, <1>8, <1>9, <2>1, <3>2
      <4> HIDE DEF j
      <4>2. q[i] = s[v + i] /\ s[Len(p) + j] = a[j] /\ ra[Len(r) + j] = a[j]
        BY <4>1, <1>3, <1>9, <1>12 DEF ra
      <4> QED
        BY <4>1, <4>2
    <3> QED
      BY <1>2, <2>1, <3>1, <3>2
  <2>3. IsSequence(ra)
    BY <1>12 DEF ra
  <2> QED
    BY <1>10, <2>1, <2>2, <2>3, EqualSequences
<1> QED
  BY <1>2, <1>6, <1>8, <1>10, <1>11, <1>13 DEF ra, v, s

(* The three varints of a header, and nothing after them. *)
IsHeader(p) ==
    /\ IsSequence(p)
    /\ HasVarint(p)
    /\ HasVarint(AfterVarint(p))
    /\ HasVarint(AfterVarint(AfterVarint(p)))
    /\ Len(AfterVarint(AfterVarint(AfterVarint(p)))) = 0

(* The length of a header is read off any string that begins with it. *)
LEMMA HeaderLength ==
    ASSUME NEW p, NEW a, IsHeader(p), IsSequence(a)
    PROVE  LET s == p \o a
           IN  Len(p) = VarintLen(s) + VarintLen(AfterVarint(s))
                            + VarintLen(AfterVarint(AfterVarint(s)))
<1> DEFINE p1 == AfterVarint(p)
           p2 == AfterVarint(p1)
           s  == p \o a
<1>1. /\ IsSequence(p) /\ HasVarint(p) /\ HasVarint(p1) /\ HasVarint(p2)
      /\ Len(AfterVarint(p2)) = 0
  BY DEF IsHeader
<1> HIDE DEF p1, p2
<1>2. /\ VarintLen(p) \in 1..Len(p) /\ IsSequence(p1)
      /\ Len(p1) = Len(p) - VarintLen(p)
      /\ VarintLen(s) = VarintLen(p) /\ AfterVarint(s) = p1 \o a
  BY <1>1, VarintExtends DEF p1
<1>3. /\ VarintLen(p1) \in 1..Len(p1) /\ IsSequence(p2)
      /\ Len(p2) = Len(p1) - VarintLen(p1)
      /\ VarintLen(p1 \o a) = VarintLen(p1) /\ AfterVarint(p1 \o a) = p2 \o a
  BY <1>1, <1>2, VarintExtends DEF p2
<1>4. /\ VarintLen(p2) \in 1..Len(p2)
      /\ Len(AfterVarint(p2)) = Len(p2) - VarintLen(p2)
      /\ VarintLen(p2 \o a) = VarintLen(p2)
  BY <1>1, <1>3, VarintExtends
<1>5. Len(p) \in Nat /\ Len(p1) \in Nat /\ Len(p2) \in Nat
  BY <1>1, <1>2, <1>3, SequenceType
<1> DEFINE a1 == VarintLen(p)
           a2 == VarintLen(p1)
           a3 == VarintLen(p2)
           l0 == Len(p)
           l1 == Len(p1)
           l2 == Len(p2)
<1>6. l0 = a1 + a2 + a3
  <2>1. /\ l0 \in Nat /\ l1 \in Nat /\ l2 \in Nat
        /\ a1 \in 1..l0 /\ a2 \in 1..l1 /\ a3 \in 1..l2
        /\ l1 = l0 - a1 /\ l2 = l1 - a2 /\ l2 - a3 = 0
    BY <1>1, <1>2, <1>3, <1>4, <1>5
  <2> HIDE DEF a1, a2, a3, l0, l1, l2
  <2> QED
    BY <2>1
<1> QED
  BY <1>2, <1>3, <1>4, <1>6

LEMMA HeaderUnique ==
    ASSUME NEW p, NEW a, NEW q, NEW b, IsHeader(p), IsHeader(q),
           IsSequence(a), IsSequence(b), p \o a = q \o b
    PROVE  p = q
<1>1. Len(p) = Len(q)
  BY HeaderLength
<1>2. SameCut(p, a, q, b)
  BY <1>1 DEF SameCut, IsHeader
<1> QED
  BY <1>2, ConcatCancel

(* A leaf operation that is accepted and unambiguous. *)
LeafFacts(spec, leaf, key, value) ==
    /\ IsLeafOp(leaf) /\ IsSequence(key) /\ IsSequence(value)
    /\ EnsureLeafPrefix(leaf.prefix, spec)
    /\ EnsureLeaf(leaf, spec.leaf_spec)
    /\ LengthOK(leaf.length, DoHash(leaf.prehash_key, key))
    /\ LengthOK(leaf.length, DoHash(leaf.prehash_value, value))
    /\ LeafIsUnambiguous(spec, leaf, key, value)

LEMMA LeafReadable ==
    ASSUME NEW spec, NEW leaf, NEW key, NEW value, LeafFacts(spec, leaf, key, value)
    PROVE  Readable(leaf, key, value)
BY DEF LeafFacts, Readable, IsLeafOp, LeafIsUnambiguous

(* Two such leaves with the same string are of the same key and value. *)
LEMMA LeafTold ==
    ASSUME NEW spec, NEW leaf, NEW key, NEW value, NEW other, NEW key2, NEW value2,
           LeafFacts(spec, leaf, key, value), LeafFacts(spec, other, key2, value2),
           LeafImage(leaf, key, value) = LeafImage(other, key2, value2)
    PROVE  key = key2 /\ value = value2
<1>1. SameOperation(leaf, other)
  BY DEF LeafFacts, EnsureLeaf, SameOperation
<1>2. Readable(leaf, key, value) /\ Readable(other, key2, value2)
  BY LeafReadable
<1>3. leaf.prefix = other.prefix
  <2>1. CASE IsIavlSpec(spec)
    <3>1. IsHeader(leaf.prefix) /\ IsHeader(other.prefix)
      BY <2>1 DEF LeafFacts, IsLeafOp, EnsureLeafPrefix, EnsureIavlPrefix, IsHeader
    <3>2. /\ IsSequence(Content(leaf, key, value))
          /\ IsSequence(Content(other, key2, value2))
          /\ LeafImage(leaf, key, value) = leaf.prefix \o Content(leaf, key, value)
          /\ LeafImage(other, key2, value2) = other.prefix \o Content(other, key2, value2)
      BY <1>2, PartsType
    <3> QED
      BY <3>1, <3>2, HeaderUnique
  <2>2. CASE ~IsIavlSpec(spec)
    BY <2>2 DEF LeafFacts, LeafIsUnambiguous
  <2> QED
    BY <2>1, <2>2
<1> QED
  BY <1>1, <1>2, <1>3, LeafImageTold

LEMMA TreeLeafFacts ==
    ASSUME NEW t \in Trees, TellsKeys(t), NEW n \in t.leaves
    PROVE  /\ LeafFacts(t.spec, t.leafop[n], t.key[n], t.value[n])
           /\ t.image[n] = LeafImage(t.leafop[n], t.key[n], t.value[n])
BY TreesAssumption DEF WellFormedTree, WellFormedLeaf, LeafFacts, TellsKeys

-----------------------------------------------------------------------------
(* What two paths have in common.                                          *)

IsCommonTop(p, q, n) ==
    /\ n \in 0..Len(p)
    /\ n <= Len(q)
    /\ \A i \in 0..(n - 1) : SameFromTop(p, q, i)
    /\ n < Len(p) /\ n < Len(q) => ~SameFromTop(p, q, n)

LEMMA CommonTopUnique ==
    ASSUME NEW p, NEW q, Len(p) \in Nat, Len(q) \in Nat,
           NEW n, IsCommonTop(p, q, n)
    PROVE  CommonTop(p, q) = n
<1>1. \A k : IsCommonTop(p, q, k) => k = n
  <2> SUFFICES ASSUME NEW k, IsCommonTop(p, q, k), k # n PROVE FALSE
    OBVIOUS
  <2>1. CASE k < n
    <3>1. k \in 0..(n - 1) /\ k < Len(p) /\ k < Len(q)
      BY <2>1 DEF IsCommonTop
    <3> QED
      BY <3>1 DEF IsCommonTop
  <2>2. CASE n < k
    <3>1. n \in 0..(k - 1) /\ n < Len(p) /\ n < Len(q)
      BY <2>2 DEF IsCommonTop
    <3> QED
      BY <3>1 DEF IsCommonTop
  <2> QED
    BY <2>1, <2>2 DEF IsCommonTop
<1>2. CommonTop(p, q) = CHOOSE k \in 0..Len(p) : IsCommonTop(p, q, k)
  BY DEF CommonTop, IsCommonTop
<1>3. n \in 0..Len(p)
  BY DEF IsCommonTop
<1> HIDE DEF IsCommonTop
<1> QED
  BY <1>1, <1>2, <1>3

LEMMA CommonTopExists ==
    ASSUME NEW p, NEW q, Len(p) \in Nat, Len(q) \in Nat
    PROVE  IsCommonTop(p, q, CommonTop(p, q))
<1>1. \E n : IsCommonTop(p, q, n)
  <2> SUFFICES ASSUME \A n : ~IsCommonTop(p, q, n) PROVE FALSE
    OBVIOUS
  <2> DEFINE least == IF Len(p) <= Len(q) THEN Len(p) ELSE Len(q)
             X == {k \in 0..least : \A i \in 0..(k - 1) : SameFromTop(p, q, i)}
  <2>1. least \in Nat /\ least \in 0..Len(p) /\ least <= Len(q)
        /\ (least = Len(p) \/ least = Len(q))
    OBVIOUS
  <2> HIDE DEF least
  <2>2. 0 \in X
    BY <2>1
  <2>3. \A k \in 0..(least - 1) : k \in X => k + 1 \in X
    <3> SUFFICES ASSUME NEW k \in 0..(least - 1), k \in X PROVE k + 1 \in X
      OBVIOUS
    <3>1. /\ k \in 0..Len(p) /\ k <= Len(q) /\ k < Len(p) /\ k < Len(q)
          /\ k + 1 \in 0..least
      BY <2>1
    <3>2. SameFromTop(p, q, k)
      BY <3>1 DEF IsCommonTop
    <3>3. \A i \in 0..((k + 1) - 1) : i \in 0..(k - 1) \/ i = k
      OBVIOUS
    <3> QED
      BY <3>1, <3>2, <3>3
  <2>4. \A k \in 0..least : k \in X
    <3> HIDE DEF X
    <3> QED
      BY <2>1, <2>2, <2>3, BoundedInduction
  <2>5. least \in X
    <3> HIDE DEF X
    <3> QED
      BY <2>1, <2>4
  <2>6. IsCommonTop(p, q, least)
    BY <2>1, <2>5 DEF IsCommonTop
  <2> QED
    BY <2>6
<1> QED
  BY <1>1, CommonTopUnique

(* Two paths to the root lead through the same nodes as far down as they   *)
(* are the same, and the leaves below each of these are together.          *)
SharedNode(t, p, q, i) ==
    \E m \in t.nodes : /\ LeadsTo(t, p, Len(p.path) - i, m)
                       /\ LeadsTo(t, q, Len(q.path) - i, m)
                       /\ IsBlock(t, m)

(* The operations of two proofs on the way down from a node they share.    *)
LEMMA StepsDown ==
    ASSUME NEW t, NEW p, NEW q, IsExistenceProof(p), IsExistenceProof(q),
           NEW i \in Nat, i < Len(p.path), i < Len(q.path), SharedNode(t, p, q, i)
    PROVE  LET a == p.path[Len(p.path) - i]
               b == q.path[Len(q.path) - i]
           IN  /\ IsInnerOp(a) /\ IsInnerOp(b)
               /\ \E n \in Inners(t), m \in t.nodes, k \in t.nodes :
                      /\ IsBlock(t, n)
                      /\ LeadsTo(t, p, Len(p.path) - i - 1, m)
                      /\ LeadsTo(t, q, Len(q.path) - i - 1, k)
                      /\ IsStepOf(t, a, n, m) /\ IsStepOf(t, b, n, k)
<1> DEFINE x == Len(p.path) - i
           y == Len(q.path) - i
<1>1. Len(p.path) \in Nat /\ Len(q.path) \in Nat
  BY SequenceType DEF IsExistenceProof
<1>2. /\ x \in Nat /\ x > 0 /\ x \in 1..Len(p.path)
      /\ y \in Nat /\ y > 0 /\ y \in 1..Len(q.path)
  BY <1>1
<1>3. IsInnerOp(p.path[x]) /\ IsInnerOp(q.path[y])
  BY <1>2 DEF IsExistenceProof
<1>4. PICK n \in t.nodes : LeadsTo(t, p, x, n) /\ LeadsTo(t, q, y, n) /\ IsBlock(t, n)
  BY DEF SharedNode
<1> HIDE DEF x, y
<1>5. /\ n \in Inners(t)
      /\ \E m \in t.nodes : LeadsTo(t, p, x - 1, m) /\ IsStepOf(t, p.path[x], n, m)
  BY <1>2, <1>4, LeadsBack DEF LeadsTo
<1>6. \E k \in t.nodes : LeadsTo(t, q, y - 1, k) /\ IsStepOf(t, q.path[y], n, k)
  BY <1>2, <1>4, LeadsBack DEF LeadsTo
<1> QED
  BY <1>3, <1>4, <1>5, <1>6 DEF x, y

LEMMA NodesShared ==
    ASSUME NEW t \in SortedTrees, NEW p, NEW q,
           IsExistenceProof(p), IsExistenceProof(q),
           LeadsTo(t, p, Len(p.path), t.root), LeadsTo(t, q, Len(q.path), t.root),
           NEW n \in Nat, n <= Len(p.path), n <= Len(q.path),
           \A i \in 0..(n - 1) : SameFromTop(p.path, q.path, i)
    PROVE  SharedNode(t, p, q, n)
<1> DEFINE X == {i \in 0..n : SharedNode(t, p, q, i)}
<1>0. Len(p.path) \in Nat /\ Len(q.path) \in Nat /\ t \in Trees
  BY SequenceType DEF IsExistenceProof, SortedTrees
<1>1. 0 \in X
  <2>1. Len(p.path) - 0 = Len(p.path) /\ Len(q.path) - 0 = Len(q.path)
    BY <1>0
  <2> QED
    BY <2>1, RootFacts DEF SharedNode
<1>2. \A i \in 0..(n - 1) : i \in X => i + 1 \in X
  <2> SUFFICES ASSUME NEW i \in 0..(n - 1), i \in X PROVE i + 1 \in X
    OBVIOUS
  <2> DEFINE a == p.path[Len(p.path) - i]
             b == q.path[Len(q.path) - i]
  <2>1. /\ i \in Nat /\ i < Len(p.path) /\ i < Len(q.path) /\ i + 1 \in 0..n
        /\ Len(p.path) - (i + 1) = Len(p.path) - i - 1
        /\ Len(q.path) - (i + 1) = Len(q.path) - i - 1
    BY <1>0
  <2>2. SharedNode(t, p, q, i)
    OBVIOUS
  <2>3. /\ IsInnerOp(a) /\ IsInnerOp(b)
        /\ \E v \in Inners(t), m \in t.nodes, k \in t.nodes :
               /\ IsBlock(t, v)
               /\ LeadsTo(t, p, Len(p.path) - i - 1, m)
               /\ LeadsTo(t, q, Len(q.path) - i - 1, k)
               /\ IsStepOf(t, a, v, m) /\ IsStepOf(t, b, v, k)
    BY <2>1, <2>2, StepsDown
  <2>4. PICK v \in Inners(t), m \in t.nodes, k \in t.nodes :
            /\ IsBlock(t, v)
            /\ LeadsTo(t, p, Len(p.path) - i - 1, m)
            /\ LeadsTo(t, q, Len(q.path) - i - 1, k)
            /\ IsStepOf(t, a, v, m) /\ IsStepOf(t, b, v, k)
    BY <2>3
  <2>5. a.prefix = b.prefix
    BY DEF SameFromTop
  <2>6. m = k
    <3>1. /\ IsInnerOp(a) /\ IsInnerOp(b)
          /\ IsStepOf(t, a, v, m) /\ IsStepOf(t, b, v, k)
      BY <2>3, <2>4
    <3> HIDE DEF a, b
    <3> QED
      BY <1>0, <2>5, <3>1, SameChild
  <2>7. IsBlock(t, m)
    BY <1>0, <2>3, <2>4, BlockFurtherDown
  <2> QED
    BY <2>1, <2>4, <2>6, <2>7 DEF SharedNode
<1>3. \A i \in 0..n : i \in X
  <2> HIDE DEF X
  <2> QED
    BY <1>1, <1>2, BoundedInduction
<1> QED
  BY <1>3

-----------------------------------------------------------------------------
(* What a proof of absence says of the leaves of the tree, in either       *)
(* implementation.                                                         *)

(* A leaf of the tree with the string of the proof's leaf. *)
IsLeafOf(t, p, leaf) ==
    leaf \in t.leaves /\ t.image[leaf] = LeafImage(p.leaf, p.key, p.value)

ClearPathOnRight(t, path, k) == \A i \in 1..k : ClearOnRight(t, path[i])
ClearPathOnLeft(t, path, k)  == \A i \in 1..k : ClearOnLeft(t, path[i])

LEMMA LastBelow ==
    ASSUME NEW t \in SortedTrees, NEW p, IsExistenceProof(p),
           NEW k \in Nat, k <= Len(p.path), NEW n, LeadsTo(t, p, k, n),
           ClearPathOnRight(t, p.path, k)
    PROVE  \E leaf \in t.leaves : IsLeafOf(t, p, leaf) /\ IsLast(t, n, leaf)
<1>1. PICK via \in [0..k -> t.nodes] :
          /\ IsTrail(t, p, k, via) /\ via[k] = n /\ IsLast(t, via[0], via[0])
  BY TrailStarts
<1> DEFINE X == {i \in 0..k : IsLast(t, via[i], via[0])}
<1>2. 0 \in X
  BY <1>1
<1>3. \A i \in 0..(k - 1) : i \in X => i + 1 \in X
  <2> SUFFICES ASSUME NEW i \in 0..(k - 1), i \in X PROVE i + 1 \in X
    OBVIOUS
  <2>1. /\ i + 1 \in 1..k /\ (i + 1) - 1 = i /\ i \in 0..k /\ i + 1 \in 0..k
        /\ i + 1 \in 1..Len(p.path) /\ t \in Trees
    BY SequenceType DEF IsExistenceProof, SortedTrees
  <2>2. /\ via[i + 1] \in Inners(t) /\ via[i] \in t.nodes
        /\ IsStepOf(t, p.path[i + 1], via[i + 1], via[i])
    BY <1>1, <2>1 DEF IsTrail
  <2>3. IsInnerOp(p.path[i + 1]) /\ ClearOnRight(t, p.path[i + 1])
    BY <2>1 DEF IsExistenceProof, ClearPathOnRight
  <2>4. IsLast(t, via[i + 1], via[0])
    BY <2>1, <2>2, <2>3, LastFurtherUp
  <2> QED
    BY <2>1, <2>4
<1>4. \A i \in 0..k : i \in X
  <2> HIDE DEF X
  <2> QED
    BY <1>2, <1>3, BoundedInduction
<1>5. k \in X
  BY <1>4
<1> QED
  BY <1>1, <1>5 DEF IsTrail, IsLeafOf

LEMMA FirstBelow ==
    ASSUME NEW t \in SortedTrees, NEW p, IsExistenceProof(p),
           NEW k \in Nat, k <= Len(p.path), NEW n, LeadsTo(t, p, k, n),
           ClearPathOnLeft(t, p.path, k)
    PROVE  \E leaf \in t.leaves : IsLeafOf(t, p, leaf) /\ IsFirst(t, n, leaf)
<1>1. PICK via \in [0..k -> t.nodes] :
          /\ IsTrail(t, p, k, via) /\ via[k] = n /\ IsFirst(t, via[0], via[0])
  BY TrailStarts
<1> DEFINE X == {i \in 0..k : IsFirst(t, via[i], via[0])}
<1>2. 0 \in X
  BY <1>1
<1>3. \A i \in 0..(k - 1) : i \in X => i + 1 \in X
  <2> SUFFICES ASSUME NEW i \in 0..(k - 1), i \in X PROVE i + 1 \in X
    OBVIOUS
  <2>1. /\ i + 1 \in 1..k /\ (i + 1) - 1 = i /\ i \in 0..k /\ i + 1 \in 0..k
        /\ i + 1 \in 1..Len(p.path) /\ t \in Trees
    BY SequenceType DEF IsExistenceProof, SortedTrees
  <2>2. /\ via[i + 1] \in Inners(t) /\ via[i] \in t.nodes
        /\ IsStepOf(t, p.path[i + 1], via[i + 1], via[i])
    BY <1>1, <2>1 DEF IsTrail
  <2>3. IsInnerOp(p.path[i + 1]) /\ ClearOnLeft(t, p.path[i + 1])
    BY <2>1 DEF IsExistenceProof, ClearPathOnLeft
  <2>4. IsFirst(t, via[i + 1], via[0])
    BY <2>1, <2>2, <2>3, FirstFurtherUp
  <2> QED
    BY <2>1, <2>4
<1>4. \A i \in 0..k : i \in X
  <2> HIDE DEF X
  <2> QED
    BY <1>2, <1>3, BoundedInduction
<1>5. k \in X
  BY <1>4
<1> QED
  BY <1>1, <1>5 DEF IsTrail, IsLeafOf

(* The paths part over neighboring children, and keep to the inner edges   *)
(* below these.                                                            *)
PartSideBySide(t, p, q, n) ==
    /\ n \in Nat /\ n < Len(p) /\ n < Len(q)
    /\ \A i \in 0..(n - 1) : SameFromTop(p, q, i)
    /\ SideBySide(t, p[Len(p) - n], q[Len(q) - n])
    /\ ClearPathOnRight(t, p, Len(p) - n - 1)
    /\ ClearPathOnLeft(t, q, Len(q) - n - 1)

LEMMA NothingBetween ==
    ASSUME NEW t \in SortedTrees, NEW p, NEW q,
           IsExistenceProof(p), IsExistenceProof(q),
           LeadsTo(t, p, Len(p.path), t.root), LeadsTo(t, q, Len(q.path), t.root),
           NEW n, PartSideBySide(t, p.path, q.path, n)
    PROVE  \E a \in t.leaves, b \in t.leaves :
               /\ IsLeafOf(t, p, a) /\ IsLeafOf(t, q, b)
               /\ \A x \in t.leaves : \/ x = a \/ Ahead(t, x, a)
                                      \/ x = b \/ Ahead(t, b, x)
<1> DEFINE c == p.path[Len(p.path) - n]
           d == q.path[Len(q.path) - n]
           i == Len(p.path) - n - 1
           j == Len(q.path) - n - 1
<1>0. /\ Len(p.path) \in Nat /\ Len(q.path) \in Nat /\ t \in Trees
      /\ n \in Nat /\ n < Len(p.path) /\ n < Len(q.path)
  BY SequenceType DEF IsExistenceProof, SortedTrees, PartSideBySide
<1>1. /\ i \in Nat /\ i <= Len(p.path) /\ j \in Nat /\ j <= Len(q.path)
  BY <1>0
<1>2. SharedNode(t, p, q, n)
  BY <1>0, NodesShared DEF PartSideBySide
<1>3. IsInnerOp(c) /\ IsInnerOp(d)
  BY <1>0, <1>2, StepsDown
<1>4. PICK v \in Inners(t), m \in t.nodes, k \in t.nodes :
          /\ IsBlock(t, v)
          /\ LeadsTo(t, p, i, m) /\ LeadsTo(t, q, j, k)
          /\ IsStepOf(t, c, v, m) /\ IsStepOf(t, d, v, k)
  BY <1>0, <1>2, StepsDown
<1>5. SideBySide(t, c, d) /\ ClearPathOnRight(t, p.path, i)
      /\ ClearPathOnLeft(t, q.path, j)
  BY DEF PartSideBySide
<1> HIDE DEF c, d, i, j
<1>6. AreAdjacent(t, m, k)
  BY <1>0, <1>3, <1>4, <1>5, AdjacentBelowFork
<1>7. PICK a \in t.leaves : IsLeafOf(t, p, a) /\ IsLast(t, m, a)
  BY <1>1, <1>4, <1>5, LastBelow
<1>8. PICK b \in t.leaves : IsLeafOf(t, q, b) /\ IsFirst(t, k, b)
  BY <1>1, <1>4, <1>5, FirstBelow
<1>9. ASSUME NEW x \in t.leaves
      PROVE  x = a \/ Ahead(t, x, a) \/ x = b \/ Ahead(t, b, x)
  BY <1>6, <1>7, <1>8 DEF AreAdjacent, AheadOf, Behind, IsLast, IsFirst
<1> QED
  BY <1>7, <1>8, <1>9

(* The string of the proof's leaf is that of its key only. *)
TellsKey(t, p) == \A leaf \in t.leaves : IsLeafOf(t, p, leaf) => t.key[leaf] = p.key

(* The two sides, those there are, leave no room for another leaf. *)
SidesClose(t, l, r) ==
    /\ l # None \/ r # None
    /\ l # None => IsExistenceProof(l) /\ LeadsTo(t, l, Len(l.path), t.root)
    /\ r # None => IsExistenceProof(r) /\ LeadsTo(t, r, Len(r.path), t.root)
    /\ r = None => ClearPathOnRight(t, l.path, Len(l.path))
    /\ l = None => ClearPathOnLeft(t, r.path, Len(r.path))
    /\ l # None /\ r # None => \E n : PartSideBySide(t, l.path, r.path, n)

LEMMA AbsentBetween ==
    ASSUME NEW t \in SortedTrees, NEW l, NEW r, NEW key, NEW keys,
           SidesClose(t, l, r),
           l # None => TellsKey(t, l) /\ Before(t.spec, l.key, key),
           r # None => TellsKey(t, r) /\ Before(t.spec, key, r.key),
           IsStrictOrder(t.spec, keys), key \in keys,
           \A x \in t.leaves : t.key[x] \in keys
    PROVE  ~HasKey(t, key)
<1>1. \A x \in t.leaves : (Before(t.spec, t.key[x], key)
                              \/ Before(t.spec, key, t.key[x])) => t.key[x] # key
  BY DEF IsStrictOrder
<1>2. ASSUME l # None, NEW a \in t.leaves, IsLeafOf(t, l, a),
             NEW x \in t.leaves, x = a \/ Ahead(t, x, a)
      PROVE  t.key[x] # key
  <2>1. Before(t.spec, t.key[a], key)
    BY <1>2 DEF TellsKey
  <2>2. Before(t.spec, t.key[x], key)
    BY <1>2, <2>1 DEF Ahead, IsStrictOrder
  <2> QED
    BY <1>1, <2>2
<1>3. ASSUME r # None, NEW b \in t.leaves, IsLeafOf(t, r, b),
             NEW x \in t.leaves, x = b \/ Ahead(t, b, x)
      PROVE  t.key[x] # key
  <2>1. Before(t.spec, key, t.key[b])
    BY <1>3 DEF TellsKey
  <2>2. Before(t.spec, key, t.key[x])
    BY <1>3, <2>1 DEF Ahead, IsStrictOrder
  <2> QED
    BY <1>1, <2>2
<1>4. t.below[t.root] = t.leaves
  BY RootFacts
<1> SUFFICES ASSUME NEW x \in t.leaves PROVE t.key[x] # key
  BY DEF HasKey
<1>5. CASE l # None /\ r = None
  <2>1. Len(l.path) \in Nat
    BY <1>5, SequenceType DEF SidesClose, IsExistenceProof
  <2>2. PICK a \in t.leaves : IsLeafOf(t, l, a) /\ IsLast(t, t.root, a)
    BY <1>5, <2>1, LastBelow DEF SidesClose
  <2> QED
    BY <1>2, <1>4, <1>5, <2>2 DEF IsLast
<1>6. CASE l = None /\ r # None
  <2>1. Len(r.path) \in Nat
    BY <1>6, SequenceType DEF SidesClose, IsExistenceProof
  <2>2. PICK b \in t.leaves : IsLeafOf(t, r, b) /\ IsFirst(t, t.root, b)
    BY <1>6, <2>1, FirstBelow DEF SidesClose
  <2> QED
    BY <1>3, <1>4, <1>6, <2>2 DEF IsFirst
<1>7. CASE l # None /\ r # None
  <2>1. PICK a \in t.leaves, b \in t.leaves :
            /\ IsLeafOf(t, l, a) /\ IsLeafOf(t, r, b)
            /\ \A y \in t.leaves : \/ y = a \/ Ahead(t, y, a)
                                   \/ y = b \/ Ahead(t, b, y)
    BY <1>7, NothingBetween DEF SidesClose
  <2> QED
    BY <1>2, <1>3, <1>7, <2>1
<1> QED
  BY <1>5, <1>6, <1>7 DEF SidesClose

(* The proof on one side, when it is accepted and its leaf unambiguous.    *)
LEMMA SideTellsKey ==
    ASSUME NEW t \in Trees, TellsKeys(t), NEW p, IsExistenceProof(p),
           NEW root, VerifiesExistence(p, t.spec, root, p.key, p.value),
           LeafIsUnambiguous(t.spec, p.leaf, p.key, p.value)
    PROVE  TellsKey(t, p)
<1>1. LeafFacts(t.spec, p.leaf, p.key, p.value)
  BY DEF VerifiesExistence, LeafAccepted, RootFrom, LeafApplies, LeafDataOK,
         LeafFacts, IsExistenceProof
<1> QED
  BY <1>1, TreeLeafFacts, LeafTold DEF TellsKey, IsLeafOf

(* What verify_non_existence accepts leaves no room for the key. *)
LEMMA AbsenceCloses ==
    ASSUME NEW t \in SortedTrees, NEW proof, NEW key,
           VerifiesAbsence(proof, t.spec, t.hash[t.root], key),
           proof.left # None => IsExistenceProof(proof.left),
           proof.right # None => IsExistenceProof(proof.right)
    PROVE  SidesClose(t, proof.left, proof.right)
<1> DEFINE l == proof.left
           r == proof.right
           spec == t.spec.inner_spec
<1>0. t \in Trees
  BY DEF SortedTrees
<1>1. l # None => LeadsTo(t, l, Len(l.path), t.root)
  BY <1>0, ExistenceLeads DEF VerifiesAbsence
<1>2. r # None => LeadsTo(t, r, Len(r.path), t.root)
  BY <1>0, ExistenceLeads DEF VerifiesAbsence
<1>3. l # None => \A k : (RightMost(spec, l.path, k) /\ k \in Nat /\ k <= Len(l.path)) =>
                             ClearPathOnRight(t, l.path, k)
  <2> SUFFICES ASSUME l # None, NEW k \in Nat, RightMost(spec, l.path, k),
                      k <= Len(l.path), NEW i \in 1..k
               PROVE  ClearOnRight(t, l.path[i])
    BY DEF ClearPathOnRight
  <2>1. i \in 1..Len(l.path)
    BY SequenceType DEF IsExistenceProof
  <2> QED
    BY <1>0, <2>1, EdgeStepsAreClear DEF RightMost, IsExistenceProof
<1>4. r # None => \A k : (LeftMost(spec, r.path, k) /\ k \in Nat /\ k <= Len(r.path)) =>
                             ClearPathOnLeft(t, r.path, k)
  <2> SUFFICES ASSUME r # None, NEW k \in Nat, LeftMost(spec, r.path, k),
                      k <= Len(r.path), NEW i \in 1..k
               PROVE  ClearOnLeft(t, r.path[i])
    BY DEF ClearPathOnLeft
  <2>1. i \in 1..Len(r.path)
    BY SequenceType DEF IsExistenceProof
  <2> QED
    BY <1>0, <2>1, EdgeStepsAreClear DEF LeftMost, IsExistenceProof
<1>5. /\ l # None => Len(l.path) \in Nat
      /\ r # None => Len(r.path) \in Nat
  BY SequenceType DEF IsExistenceProof
<1>6. CASE l # None /\ r = None
  <2>1. RightMost(spec, l.path, Len(l.path))
    BY <1>6 DEF VerifiesAbsence
  <2> QED
    BY <1>1, <1>3, <1>5, <1>6, <2>1 DEF SidesClose
<1>7. CASE l = None /\ r # None
  <2>1. LeftMost(spec, r.path, Len(r.path))
    BY <1>7 DEF VerifiesAbsence
  <2> QED
    BY <1>2, <1>4, <1>5, <1>7, <2>1 DEF SidesClose
<1>8. CASE l # None /\ r # None
  <2> DEFINE n == CommonTop(l.path, r.path)
  <2>1. AreNeighbors(spec, l.path, r.path)
    BY <1>8 DEF VerifiesAbsence
  <2>2. IsCommonTop(l.path, r.path, n)
    BY <1>5, <1>8, CommonTopExists
  <2>3. /\ n \in Nat /\ n < Len(l.path) /\ n < Len(r.path)
        /\ \A i \in 0..(n - 1) : SameFromTop(l.path, r.path, i)
    BY <1>5, <1>8, <2>1, <2>2 DEF AreNeighbors, IsCommonTop
  <2>4. SideBySide(t, l.path[Len(l.path) - n], r.path[Len(r.path) - n])
    BY <1>0, <2>1, LeftStepIsSideBySide DEF AreNeighbors
  <2>5. /\ RightMost(spec, l.path, Len(l.path) - n - 1)
        /\ LeftMost(spec, r.path, Len(r.path) - n - 1)
    BY <2>1 DEF AreNeighbors
  <2> HIDE DEF n
  <2>6. /\ Len(l.path) - n - 1 \in Nat /\ Len(l.path) - n - 1 <= Len(l.path)
        /\ Len(r.path) - n - 1 \in Nat /\ Len(r.path) - n - 1 <= Len(r.path)
    BY <1>5, <1>8, <2>3
  <2>7. PartSideBySide(t, l.path, r.path, n)
    BY <1>3, <1>4, <1>8, <2>3, <2>4, <2>5, <2>6 DEF PartSideBySide
  <2> QED
    BY <1>1, <1>2, <1>8, <2>7 DEF SidesClose
<1>9. l # None \/ r # None
  BY DEF VerifiesAbsence
<1> QED
  BY <1>6, <1>7, <1>8, <1>9

(* A key whose absence is confirmed is not in the tree. *)
LEMMA AbsenceNotHeld ==
    ASSUME NEW t \in SortedTrees, NEW proof, NEW key, NEW keys,
           VerifiesAbsence(proof, t.spec, t.hash[t.root], key),
           proof.left # None => IsExistenceProof(proof.left) /\ TellsKey(t, proof.left),
           proof.right # None => IsExistenceProof(proof.right) /\ TellsKey(t, proof.right),
           IsStrictOrder(t.spec, keys), key \in keys,
           \A x \in t.leaves : t.key[x] \in keys
    PROVE  ~HasKey(t, key)
<1>1. SidesClose(t, proof.left, proof.right)
  BY AbsenceCloses
<1>2. /\ proof.left # None => Before(t.spec, proof.left.key, key)
      /\ proof.right # None => Before(t.spec, key, proof.right.key)
  BY DEF VerifiesAbsence
<1> QED
  BY <1>1, <1>2, AbsentBetween

-----------------------------------------------------------------------------
(* Two proofs of one root, without a tree.                                 *)

(* An inner operation with the same bytes on both sides tells the child.   *)
LEMMA ChildTold ==
    ASSUME NEW a, NEW x, NEW b, NEW y, IsInnerOp(a), IsInnerOp(b),
           IsSequence(x), IsSequence(y), a.hash # "NO_HASH", a.hash = b.hash,
           a.prefix = b.prefix, a.suffix = b.suffix,
           ApplyInner(a, x) = ApplyInner(b, y)
    PROVE  x = y
<1> DEFINE p == a.prefix
           s == a.suffix
<1>1. IsSequence(p) /\ IsSequence(s) /\ a.hash \in HashOp \ {"NO_HASH"}
  BY DEF IsInnerOp
<1>2. InnerImage(a, x) = InnerImage(b, y)
  BY <1>1, DoHashInjective DEF ApplyInner
<1>3. (p \o x) \o s = (p \o y) \o s
  BY <1>2 DEF InnerImage
<1> HIDE DEF p, s
<1>4. /\ IsSequence(p \o x) /\ Len(p \o x) = Len(p) + Len(x)
      /\ IsSequence(x \o s) /\ Len(x \o s) = Len(x) + Len(s)
  BY <1>1, ConcatSequences
<1>5. /\ IsSequence(p \o y) /\ Len(p \o y) = Len(p) + Len(y)
      /\ IsSequence(y \o s) /\ Len(y \o s) = Len(y) + Len(s)
  BY <1>1, ConcatSequences
<1>6. Regroups(p, x, s) /\ Regroups(p, y, s)
  BY <1>1, ConcatRegroups
<1> DEFINE xs == x \o s
           ys == y \o s
<1>7. SameCut(p, xs, p, ys)
  BY <1>1, <1>3, <1>4, <1>5, <1>6 DEF SameCut, Regroups
<1>8. xs = ys
  <2> HIDE DEF xs, ys
  <2> QED
    BY <1>7, ConcatCancel
<1>9. Len(x) = Len(y)
  <2>1. Len(x) \in Nat /\ Len(y) \in Nat /\ Len(s) \in Nat
    BY <1>1, SequenceType
  <2> QED
    BY <1>4, <1>5, <1>8, <2>1
<1>10. SameCut(x, s, y, s)
  BY <1>1, <1>8, <1>9 DEF SameCut
<1> QED
  BY <1>10, ConcatCancel

(* A leaf and an inner operation of a sound spec never have one hash.      *)
LEMMA LeafIsNoInner ==
    ASSUME NEW spec, IsSoundSpec(spec), IsProofSpec(spec), NEW leaf, NEW key, NEW value,
           IsLeafOp(leaf), IsSequence(key), IsSequence(value),
           EnsureLeaf(leaf, spec.leaf_spec),
           NEW step, NEW h, IsInnerOp(step), IsSequence(h), EnsureInner(step, spec)
    PROVE  ApplyLeaf(leaf, key, value) # ApplyInner(step, h)
<1> SUFFICES ASSUME ApplyLeaf(leaf, key, value) = ApplyInner(step, h) PROVE FALSE
  OBVIOUS
<1> DEFINE image  == LeafImage(leaf, key, value)
           prefix == spec.leaf_spec.prefix
           p      == step.prefix
           s      == step.suffix
           op     == spec.inner_spec.hash
<1>1. op \in HashOp \ {"NO_HASH"} /\ leaf.hash = op /\ step.hash = op
  BY DEF IsSoundSpec, EnsureLeaf, EnsureInner
<1>2. image = p \o h \o s
  BY <1>1, DoHashInjective DEF ApplyLeaf, ApplyInner, InnerImage
<1>3. HasPrefix(prefix, image)
  BY LeafBegins DEF IsSoundSpec
<1>4. /\ IsSequence(p) /\ Len(p) \in Nat /\ IsSequence(s)
      /\ IsSequence(prefix) /\ Len(prefix) \in Nat
  BY SequenceType DEF IsInnerOp, IsProofSpec, IsSoundSpec, IsLeafOp
<1>5. ~HasPrefix(prefix, p) /\ Len(prefix) <= Len(p)
  <2>1. spec.inner_spec.min_prefix_length \in Nat
    BY DEF IsProofSpec, IsSoundSpec
  <2> QED
    BY <1>4, <2>1 DEF EnsureInner, IsSoundSpec
<1> HIDE DEF image, prefix, p, s
<1>6. Parts(image, p, h, s)
  BY <1>2, <1>4, ConcatThree, Zenon
<1>7. \A i \in 1..Len(prefix) : i \in 1..Len(p) /\ image[i] = p[i]
  BY <1>4, <1>5, <1>6 DEF Parts
<1> QED
  BY <1>3, <1>5, <1>7 DEF HasPrefix

(* A proof whose leaf and operations are accepted. *)
OpsOf(proof, spec) ==
    /\ IsExistenceProof(proof)
    /\ proof.leaf # None
    /\ EnsureLeaf(proof.leaf, spec.leaf_spec)
    /\ OpsAccepted(proof, spec)

(* Down a common path the hashes are the same. *)
LEMMA SharedHashes ==
    ASSUME NEW spec, IsSoundSpec(spec), NEW l, NEW r, OpsOf(l, spec), OpsOf(r, spec),
           Hashes(l)[Len(l.path)] = Hashes(r)[Len(r.path)],
           NEW n \in Nat, n <= Len(l.path), n <= Len(r.path),
           \A i \in 0..(n - 1) : SameFromTop(l.path, r.path, i)
    PROVE  Hashes(l)[Len(l.path) - n] = Hashes(r)[Len(r.path) - n]
<1> DEFINE x(i) == Hashes(l)[Len(l.path) - i]
           y(i) == Hashes(r)[Len(r.path) - i]
           X == {i \in 0..n : x(i) = y(i)}
<1>0. Len(l.path) \in Nat /\ Len(r.path) \in Nat
  BY SequenceType DEF OpsOf, IsExistenceProof
<1>1. 0 \in X
  <2>1. Len(l.path) - 0 = Len(l.path) /\ Len(r.path) - 0 = Len(r.path)
    BY <1>0
  <2> QED
    BY <2>1
<1>2. \A i \in 0..(n - 1) : i \in X => i + 1 \in X
  <2> SUFFICES ASSUME NEW i \in 0..(n - 1), i \in X PROVE i + 1 \in X
    OBVIOUS
  <2> DEFINE j == Len(l.path) - i
             k == Len(r.path) - i
             a == l.path[j]
             b == r.path[k]
  <2>1. /\ j \in 1..Len(l.path) /\ j - 1 \in 0..Len(l.path)
        /\ j - 1 = Len(l.path) - (i + 1)
        /\ k \in 1..Len(r.path) /\ k - 1 \in 0..Len(r.path)
        /\ k - 1 = Len(r.path) - (i + 1)
        /\ i + 1 \in 0..n
    BY <1>0
  <2>2. Hashes(l)[j] = Hashes(r)[k]
    OBVIOUS
  <2>3. a.prefix = b.prefix /\ a.suffix = b.suffix
    BY DEF SameFromTop
  <2> HIDE DEF j, k
  <2>4. /\ Hashes(l)[j] = ApplyInner(a, Hashes(l)[j - 1])
        /\ Hashes(r)[k] = ApplyInner(b, Hashes(r)[k - 1])
    BY <1>0, <2>1, HashesStep
  <2>5. IsSequence(Hashes(l)[j - 1]) /\ IsSequence(Hashes(r)[k - 1])
    BY <2>1, HashesType DEF OpsOf
  <2>6. IsInnerOp(a) /\ IsInnerOp(b) /\ EnsureInner(a, spec) /\ EnsureInner(b, spec)
    BY <2>1 DEF OpsOf, IsExistenceProof, OpsAccepted
  <2>7. a.hash = b.hash /\ a.hash # "NO_HASH"
    BY <2>6 DEF EnsureInner, IsSoundSpec
  <2>8. Hashes(l)[j - 1] = Hashes(r)[k - 1]
    BY <2>2, <2>3, <2>4, <2>5, <2>6, <2>7, ChildTold
  <2> QED
    BY <2>1, <2>8
<1>3. \A i \in 0..n : i \in X
  <2> HIDE DEF X
  <2> QED
    BY <1>1, <1>2, BoundedInduction
<1> QED
  BY <1>3

(* A path that ends where it is still the same as the other one ends in    *)
(* the same leaf.                                                          *)
LEMMA EndsTogether ==
    ASSUME NEW spec, IsSoundSpec(spec), IsProofSpec(spec),
           NEW l, NEW r, OpsOf(l, spec), OpsOf(r, spec),
           Hashes(l)[Len(l.path)] = Hashes(r)[Len(r.path)],
           Len(l.path) <= Len(r.path),
           \A i \in 0..(Len(l.path) - 1) : SameFromTop(l.path, r.path, i)
    PROVE  /\ Len(l.path) = Len(r.path)
           /\ LeafImage(l.leaf, l.key, l.value) = LeafImage(r.leaf, r.key, r.value)
<1> DEFINE n == Len(l.path)
           k == Len(r.path) - n
<1>0. /\ n \in Nat /\ Len(r.path) \in Nat /\ k \in 0..Len(r.path) /\ n - n = 0
      /\ n <= Len(r.path) /\ n <= n
  <2>1. n \in Nat
    BY SequenceType DEF OpsOf, IsExistenceProof
  <2>2. Len(r.path) \in Nat
    BY SequenceType DEF OpsOf, IsExistenceProof
  <2> DEFINE m == Len(r.path)
  <2>3. n <= m /\ k = m - n
    OBVIOUS
  <2>4. n \in Nat /\ m \in Nat
    BY <2>1, <2>2
  <2> HIDE DEF n, m, k
  <2>5. k \in 0..m /\ n - n = 0 /\ n <= n
    BY <2>3, <2>4
  <2> QED
    BY <2>3, <2>4, <2>5 DEF m
<1>1. Hashes(l)[0] = Hashes(r)[k]
  <2> DEFINE m == n
  <2>1. m \in Nat /\ m <= Len(l.path) /\ m <= Len(r.path)
        /\ \A i \in 0..(m - 1) : SameFromTop(l.path, r.path, i)
    BY <1>0
  <2>2. Len(l.path) - m = 0 /\ Len(r.path) - m = k
    BY <1>0
  <2> HIDE DEF m, k
  <2>3. Hashes(l)[Len(l.path) - m] = Hashes(r)[Len(r.path) - m]
    BY <2>1, SharedHashes
  <2> QED
    BY <2>2, <2>3
<1>2. /\ Hashes(l)[0] = ApplyLeaf(l.leaf, l.key, l.value)
      /\ Hashes(r)[0] = ApplyLeaf(r.leaf, r.key, r.value)
      /\ k \in 1..Len(r.path) =>
             Hashes(r)[k] = ApplyInner(r.path[k], Hashes(r)[k - 1])
  BY <1>0, HashesStep
<1>3. k = 0
  <2> SUFFICES ASSUME k # 0 PROVE FALSE
    OBVIOUS
  <2>1. k \in 1..Len(r.path) /\ k - 1 \in 0..Len(r.path)
    <3> HIDE DEF k
    <3> QED
      BY <1>0
  <2>2. IsSequence(Hashes(r)[k - 1])
    BY <2>1, HashesType DEF OpsOf
  <2>3. IsInnerOp(r.path[k]) /\ EnsureInner(r.path[k], spec)
    BY <2>1 DEF OpsOf, IsExistenceProof, OpsAccepted
  <2>4. ApplyLeaf(l.leaf, l.key, l.value) = ApplyInner(r.path[k], Hashes(r)[k - 1])
    BY <1>1, <1>2, <2>1
  <2> HIDE DEF k
  <2> QED
    BY <2>2, <2>3, <2>4, LeafIsNoInner DEF OpsOf, IsExistenceProof
<1>4. ApplyLeaf(l.leaf, l.key, l.value) = ApplyLeaf(r.leaf, r.key, r.value)
  BY <1>1, <1>2, <1>3
<1>5. /\ l.leaf.hash = r.leaf.hash /\ l.leaf.hash \in HashOp \ {"NO_HASH"}
  BY DEF OpsOf, EnsureLeaf, IsSoundSpec
<1>6. LeafImage(l.leaf, l.key, l.value) = LeafImage(r.leaf, r.key, r.value)
  BY <1>4, <1>5, DoHashInjective DEF ApplyLeaf
<1> QED
  BY <1>0, <1>3, <1>6

(* Two paths of which one is the end of the other are the same path, from  *)
(* the same leaf.                                                          *)
LEMMA UsedUpTogether ==
    ASSUME NEW spec, IsSoundSpec(spec), IsProofSpec(spec),
           NEW l, NEW r, OpsOf(l, spec), OpsOf(r, spec),
           Hashes(l)[Len(l.path)] = Hashes(r)[Len(r.path)],
           NEW n \in Nat, n <= Len(l.path), n <= Len(r.path),
           n = Len(l.path) \/ n = Len(r.path),
           \A i \in 0..(n - 1) : SameFromTop(l.path, r.path, i)
    PROVE  /\ SameSteps(l.path, r.path)
           /\ LeafImage(l.leaf, l.key, l.value) = LeafImage(r.leaf, r.key, r.value)
<1> DEFINE p == l.path
           q == r.path
<1>1. \A i \in 0..(n - 1) : SameFromTop(p, q, i) /\ SameFromTop(q, p, i)
  BY DEF SameFromTop
<1>2. /\ Len(p) = Len(q) /\ n = Len(p)
      /\ LeafImage(l.leaf, l.key, l.value) = LeafImage(r.leaf, r.key, r.value)
  <2>1. CASE n = Len(p)
    BY <1>1, <2>1, EndsTogether
  <2>2. CASE n = Len(q)
    BY <1>1, <2>2, EndsTogether
  <2> QED
    BY <2>1, <2>2
<1>3. ASSUME NEW k \in 1..Len(p)
      PROVE  /\ p[k].hash = q[k].hash
             /\ p[k].prefix = q[k].prefix /\ p[k].suffix = q[k].suffix
  <2> DEFINE i == n - k
  <2>1. i \in 0..(n - 1) /\ Len(p) - i = k /\ Len(q) - i = k
    <3> HIDE DEF p, q
    <3> QED
      BY <1>2
  <2> HIDE DEF i
  <2>2. p[k].prefix = q[k].prefix /\ p[k].suffix = q[k].suffix
    BY <1>1, <2>1 DEF SameFromTop
  <2>3. EnsureInner(p[k], spec) /\ EnsureInner(q[k], spec)
    BY <1>2 DEF OpsOf, OpsAccepted
  <2> QED
    BY <2>2, <2>3 DEF EnsureInner
<1> QED
  BY <1>2, <1>3 DEF SameSteps

(* Along the same path no operations differ. *)
LEMMA SameAllTheWay ==
    ASSUME NEW p, NEW q, SameSteps(p, q), Len(p) \in Nat
    PROVE  \A i \in 0..(Len(p) - 1) : SameFromTop(p, q, i)
<1> TAKE i \in 0..(Len(p) - 1)
<1>1. Len(p) - i \in 1..Len(p) /\ Len(q) - i = Len(p) - i
  BY DEF SameSteps
<1> QED
  BY <1>1 DEF SameSteps, SameFromTop

-----------------------------------------------------------------------------
(* The proofs that stores write: the way up from a leaf.                   *)

(* The slots of an inner node, and the nodes and placeholders in them. *)
LEMMA KidsOf ==
    ASSUME NEW t \in Trees, NEW n \in Inners(t)
    PROVE  /\ DOMAIN t.kids[n] = 1..Arity(t.spec)
           /\ \A j \in 1..Arity(t.spec) : t.kids[n][j] \in t.nodes \union {None}
           /\ None \notin t.nodes
<1>1. /\ WellFormedTree(t) /\ WellFormedInner(t, n)
  BY TreesAssumption DEF WellFormedTree
<1>2. t.kids[n] \in Seq(t.nodes \union {None}) /\ Len(t.kids[n]) = Arity(t.spec)
  BY <1>1 DEF WellFormedInner
<1>3. None \notin t.nodes
  BY <1>1 DEF WellFormedTree
<1> QED
  BY <1>2, <1>3

LEMMA StoreSlots ==
    ASSUME NEW t \in Stores, NEW n \in t.nodes, n # t.root
    PROVE  LET slot == SlotOf(t, n)
           IN  /\ slot[1] \in Inners(t) /\ slot[2] \in 1..Arity(t.spec)
               /\ t.kids[slot[1]][slot[2]] = n
               /\ t.height[n] < t.height[slot[1]]
<1> DEFINE slot == SlotOf(t, n)
<1>1. t \in Trees /\ IsStore(t)
  BY DEF Stores
<1>2. Slots(t, n) # {}
  BY <1>1 DEF IsStore
<1>3. slot \in Slots(t, n)
  BY <1>2 DEF SlotOf
<1> HIDE DEF slot
<1>4. /\ slot[1] \in Inners(t) /\ slot[2] \in 1..Arity(t.spec)
      /\ t.kids[slot[1]][slot[2]] = n
  BY <1>3 DEF Slots
<1>5. n \in Range(t.kids[slot[1]]) \ {None}
  BY <1>1, <1>4, KidsOf DEF Range
<1>6. t.height[n] < t.height[slot[1]]
  BY <1>1, <1>4, <1>5 DEF IsStore
<1> QED
  BY <1>4, <1>6 DEF slot

LEMMA StoreRoot ==
    ASSUME NEW t \in Stores
    PROVE  /\ t \in Trees /\ t.root \in t.nodes
           /\ Inners(t) \subseteq t.nodes /\ t.leaves \subseteq t.nodes
           /\ \A n \in t.nodes : t.height[n] \in Nat
           /\ \A n \in t.nodes : n # t.root => t.height[n] < t.height[t.root]
BY TreesAssumption DEF Stores, IsStore, WellFormedTree, Inners

(* The node above n; the root is above itself. *)
Up(t, n) == IF n = t.root THEN t.root ELSE SlotOf(t, n)[1]

LEMMA AboveStep ==
    ASSUME NEW t \in Stores, NEW n \in t.nodes
    PROVE  /\ Above(t, n)[0] = n
           /\ \A k \in Nat : /\ Above(t, n)[k] \in t.nodes
                             /\ Above(t, n)[k + 1] = Up(t, Above(t, n)[k])
<1> DEFINE S == t.nodes
           G == [m \in S |-> Up(t, m)]
           E(f) == [k \in Nat |->
                       CASE k = 0 -> n
                         [] k > 0 /\ f[k - 1] = t.root -> t.root
                         [] OTHER -> SlotOf(t, f[k - 1])[1]]
<1>1. n \in S /\ G \in [S -> S]
  BY StoreSlots, StoreRoot DEF Up
<1>2. \A m \in S : G[m] = Up(t, m)
  OBVIOUS
<1> HIDE DEF S, G
<1>3. PICK f \in [Nat -> S] : f[0] = n /\ \A k \in Nat : f[k + 1] = G[f[k]]
  <2>1. PICK f : IsIteration(f, S, n, G)
    BY <1>1, Iteration
  <2> QED
    BY <2>1 DEF IsIteration
<1>4. f = E(f)
  <2>1. ASSUME NEW k \in Nat
        PROVE  f[k] = CASE k = 0 -> n
                        [] k > 0 /\ f[k - 1] = t.root -> t.root
                        [] OTHER -> SlotOf(t, f[k - 1])[1]
    <3>1. CASE k = 0
      BY <1>3, <3>1
    <3>2. CASE k # 0
      <4>1. k - 1 \in Nat /\ (k - 1) + 1 = k /\ k > 0
        BY <3>2
      <4>2. f[k] = Up(t, f[k - 1])
        BY <1>2, <1>3, <4>1
      <4> QED
        BY <3>2, <4>1, <4>2 DEF Up
    <3> QED
      BY <3>1, <3>2
  <2> QED
    BY <2>1
<1> DEFINE p == CHOOSE p : p = E(p)
<1>5. p = E(p)
  BY <1>4
<1>6. Above(t, n) = p
  BY DEF Above
<1> HIDE DEF p
<1>7. p[0] = n
  BY <1>5
<1>8. ASSUME NEW k \in Nat PROVE p[k + 1] = Up(t, p[k])
  <2>1. k + 1 \in Nat /\ k + 1 # 0 /\ k + 1 > 0 /\ (k + 1) - 1 = k
    OBVIOUS
  <2>2. p[k + 1] = CASE k + 1 = 0 -> n
                     [] k + 1 > 0 /\ p[(k + 1) - 1] = t.root -> t.root
                     [] OTHER -> SlotOf(t, p[(k + 1) - 1])[1]
    BY <1>5, <2>1
  <2> QED
    BY <2>1, <2>2 DEF Up
<1>9. \A k \in Nat : p[k] \in S
  <2> DEFINE X == {k \in Nat : p[k] \in S}
  <2>1. 0 \in X
    BY <1>1, <1>7
  <2>2. ASSUME NEW k \in Nat, k \in X PROVE k + 1 \in X
    <3>1. p[k + 1] = G[p[k]]
      BY <1>2, <1>8, <2>2
    <3> QED
      BY <1>1, <2>2, <3>1
  <2>3. \A k \in Nat : k \in X
    <3> HIDE DEF X
    <3> QED
      BY <2>1, <2>2, SetInduction
  <2> QED
    BY <2>3
<1> QED
  BY <1>6, <1>7, <1>8, <1>9 DEF S

(* The way up from any node ends at the root. *)
LEMMA DepthFacts ==
    ASSUME NEW t \in Stores, NEW n \in t.nodes
    PROVE  /\ Depth(t, n) \in Nat
           /\ Above(t, n)[Depth(t, n)] = t.root
           /\ \A k \in 0..(Depth(t, n) - 1) : Above(t, n)[k] # t.root
<1> DEFINE top == t.height[t.root]
           up == Above(t, n)
           IsDepth(d) == up[d] = t.root /\ \A k \in 0..(d - 1) : up[k] # t.root
           Ends == {k \in 0..top : up[k] = t.root}
<1>1. /\ top \in Nat /\ \A m \in t.nodes : t.height[m] \in Nat
      /\ \A m \in t.nodes : m # t.root => t.height[m] < top
  BY StoreRoot
<1>2. \A k \in Nat : up[k] \in t.nodes /\ up[k + 1] = Up(t, up[k])
  BY AboveStep
<1> HIDE DEF up, top
<1>3. Ends # {}
  <2> SUFFICES ASSUME \A k \in 0..top : up[k] # t.root PROVE FALSE
    OBVIOUS
  <2> DEFINE X == {k \in 0..top : t.height[up[k]] >= k}
  <2>1. 0 \in X
    BY <1>1, <1>2
  <2>2. ASSUME NEW k \in 0..(top - 1), k \in X PROVE k + 1 \in X
    <3>1. k \in Nat /\ k + 1 \in 0..top /\ k \in 0..top
      BY <1>1
    <3>2. up[k] \in t.nodes /\ up[k] # t.root /\ up[k + 1] = Up(t, up[k])
      BY <1>2, <3>1
    <3>3. up[k + 1] \in t.nodes /\ t.height[up[k]] < t.height[up[k + 1]]
      BY <1>2, <3>1, <3>2, StoreSlots DEF Up
    <3> QED
      BY <1>1, <2>2, <3>1, <3>2, <3>3
  <2>3. \A k \in 0..top : k \in X
    <3> HIDE DEF X
    <3> QED
      BY <1>1, <2>1, <2>2, BoundedInduction
  <2>4. top \in 0..top
    BY <1>1
  <2>5. t.height[up[top]] >= top /\ up[top] \in t.nodes /\ up[top] # t.root
    BY <1>1, <1>2, <2>3, <2>4
  <2> QED
    BY <1>1, <2>5
<1>4. PICK d \in Ends : \A k \in Ends : d <= k
  <2> HIDE DEF Ends
  <2>1. Ends \in SUBSET (0..top)
    BY DEF Ends
  <2> QED
    BY <1>1, <1>3, <2>1, FirstPlace
<1>5. d \in 0..top /\ IsDepth(d)
  BY <1>1, <1>4
<1>6. Depth(t, n) = CHOOSE e \in 0..top : IsDepth(e)
  BY DEF Depth, up, top
<1>7. Depth(t, n) \in 0..top /\ IsDepth(Depth(t, n))
  BY <1>5, <1>6
<1> QED
  BY <1>1, <1>7 DEF up

(* Nodes from a leaf to the root, the slot of each in the next, and the    *)
(* steps between them.                                                     *)
IsClimb(t, n, path, via, slot) ==
    /\ IsSequence(path) /\ Len(path) \in Nat
    /\ via[0] = n /\ via[Len(path)] = t.root
    /\ \A k \in 0..Len(path) : via[k] \in t.nodes
    /\ \A k \in 1..Len(path) :
           /\ via[k] \in Inners(t)
           /\ slot[k] \in 1..Arity(t.spec)
           /\ t.kids[via[k]][slot[k]] = via[k - 1]
           /\ path[k] = Step(t, via[k], slot[k])
           /\ t.height[via[k]] >= k

LEMMA TreePathClimbs ==
    ASSUME NEW t \in Stores, NEW n \in t.nodes
    PROVE  /\ Len(TreePath(t, n)) = Depth(t, n)
           /\ \E via, slot : IsClimb(t, n, TreePath(t, n), via, slot)
<1> DEFINE d == Depth(t, n)
           path == TreePath(t, n)
           via == Above(t, n)
           slot == [k \in 1..d |-> SlotOf(t, via[k - 1])[2]]
<1>1. /\ d \in Nat /\ via[d] = t.root
      /\ \A k \in 0..(d - 1) : via[k] # t.root
  BY DepthFacts
<1>2. /\ via[0] = n
      /\ \A k \in Nat : via[k] \in t.nodes /\ via[k + 1] = Up(t, via[k])
  BY AboveStep
<1>3. path = [k \in 1..d |-> Step(t, SlotOf(t, via[k - 1])[1], SlotOf(t, via[k - 1])[2])]
  BY DEF TreePath
<1> HIDE DEF d, via
<1>4. /\ IsSequence(path) /\ Len(path) = d
      /\ \A k \in 1..d : path[k] = Step(t, SlotOf(t, via[k - 1])[1], SlotOf(t, via[k - 1])[2])
  <2>1. path = [k \in 1..d |-> path[k]]
    BY <1>3
  <2>2. IsSequence(path) /\ Len(path) = d
    <3> HIDE DEF path
    <3> QED
      BY <1>1, <2>1, FunctionSequence
  <2> QED
    BY <1>3, <2>2
<1> HIDE DEF path
<1>5. ASSUME NEW k \in 1..d
      PROVE  /\ via[k] \in Inners(t) /\ via[k] = SlotOf(t, via[k - 1])[1]
             /\ slot[k] \in 1..Arity(t.spec) /\ slot[k] = SlotOf(t, via[k - 1])[2]
             /\ t.kids[via[k]][slot[k]] = via[k - 1]
             /\ t.height[via[k - 1]] < t.height[via[k]]
  <2> DEFINE i == k - 1
  <2>1. i \in Nat /\ i \in 0..(d - 1) /\ i + 1 = k
    BY <1>1
  <2> HIDE DEF i
  <2>2. via[i] \in t.nodes /\ via[i] # t.root /\ via[k] = Up(t, via[i])
    BY <1>1, <1>2, <2>1
  <2>3. via[k] = SlotOf(t, via[i])[1]
    BY <2>2 DEF Up
  <2>4. slot[k] = SlotOf(t, via[i])[2]
    BY DEF i
  <2> QED
    BY <2>2, <2>3, <2>4, StoreSlots DEF i
<1>6. \A k \in 0..d : t.height[via[k]] >= k
  <2> DEFINE X == {k \in 0..d : t.height[via[k]] >= k}
  <2>1. \A k \in 0..d : via[k] \in t.nodes /\ t.height[via[k]] \in Nat
    BY <1>2, StoreRoot
  <2>2. 0 \in X
    BY <1>1, <2>1
  <2>3. ASSUME NEW k \in 0..(d - 1), k \in X PROVE k + 1 \in X
    <3>1. k + 1 \in 1..d /\ (k + 1) - 1 = k /\ k \in 0..d /\ k + 1 \in 0..d
      BY <1>1
    <3>2. t.height[via[k]] < t.height[via[k + 1]]
      BY <1>5, <3>1
    <3> QED
      BY <2>1, <2>3, <3>1, <3>2
  <2>4. \A k \in 0..d : k \in X
    <3> HIDE DEF X
    <3> QED
      BY <1>1, <2>2, <2>3, BoundedInduction
  <2> QED
    BY <2>4
<1> HIDE DEF slot
<1>7. IsClimb(t, n, path, via, slot)
  <2>1. \A k \in 0..d : via[k] \in t.nodes
    BY <1>2
  <2>2. ASSUME NEW k \in 1..d
        PROVE  path[k] = Step(t, via[k], slot[k]) /\ t.height[via[k]] >= k
    BY <1>4, <1>5, <1>6
  <2> QED
    BY <1>1, <1>2, <1>4, <1>5, <2>1, <2>2 DEF IsClimb
<1> QED
  BY <1>4, <1>7 DEF path, d

-----------------------------------------------------------------------------
(* The operation of a store at an inner node.                              *)

(* Where the slot begins and what is on its two sides. *)
SlotLengths(from, size, arity, j, width, off, len) ==
    /\ from \in Nat /\ size \in Nat /\ len \in Nat
    /\ from = off + (j - 1) * width
    /\ len - (from + size) = (arity - j) * width
    /\ from + size <= len

LEMMA SlotPlace ==
    ASSUME NEW size \in Nat, NEW arity \in Nat, NEW j \in 1..arity,
           NEW width \in Nat, NEW off \in Nat
    PROVE  SlotLengths(off + (j - 1) * width, size, arity, j, width, off,
                       off + (arity - 1) * width + size)
<1> DEFINE a == (j - 1) * width
           b == (arity - 1) * width
           c == (arity - j) * width
<1>1. /\ a \in Nat /\ b \in Nat /\ c \in Nat
  <2>1. j - 1 \in Nat /\ arity - 1 \in Nat /\ arity - j \in Nat
    OBVIOUS
  <2> QED
    BY <2>1
<1>2. b = a + c
  <2>1. arity - 1 = (j - 1) + (arity - j)
    OBVIOUS
  <2> QED
    BY <2>1
<1> HIDE DEF a, b, c
<1>3. /\ off + a \in Nat /\ off + b + size \in Nat
      /\ (off + b + size) - (off + a + size) = c
      /\ off + a + size <= off + b + size
  BY <1>1, <1>2
<1> QED
  BY <1>3 DEF SlotLengths, a, b, c

LEMMA StepBytes ==
    ASSUME NEW t \in Trees, NEW n \in Inners(t), NEW j \in 1..Arity(t.spec)
    PROVE  LET op   == Step(t, n, j)
               size == DigestLen(t.spec.inner_spec.hash)
           IN  /\ IsInnerOp(op) /\ op.hash = t.spec.inner_spec.hash
               /\ Len(op.prefix) = ChildOffset(t, n, j)
               /\ Len(op.prefix) \in Nat
               /\ Len(op.suffix) = (Arity(t.spec) - j) * t.spec.inner_spec.child_size
               /\ Len(op.suffix) \in Nat
               /\ IsSequence(t.image[n])
               /\ Len(t.image[n]) = Len(op.prefix) + size + Len(op.suffix)
               /\ \A i \in 1..Len(op.prefix) : t.image[n][i] = op.prefix[i]
               /\ \A i \in 1..Len(op.suffix) :
                      t.image[n][Len(op.prefix) + size + i] = op.suffix[i]
               /\ \A i \in 1..size : t.image[n][Len(op.prefix) + i] =
                                         ChildHash(t, t.kids[n][j])[i]
<1> DEFINE op    == Step(t, n, j)
           size  == DigestLen(t.spec.inner_spec.hash)
           width == t.spec.inner_spec.child_size
           arity == Arity(t.spec)
           off   == t.offset[n]
           from  == ChildOffset(t, n, j)
           image == t.image[n]
           len   == Len(image)
<1>1. /\ size \in Nat \ {0} /\ width \in Nat /\ arity \in Nat
      /\ t.spec.inner_spec.hash \in HashOp
  BY TreeLayout
<1>2. off \in Nat
  BY OffsetType
<1>3. /\ IsSequence(image)
      /\ len = off + (arity - 1) * width + size
      /\ from = off + (j - 1) * width
      /\ \A i \in 1..size : image[from + i] = ChildHash(t, t.kids[n][j])[i]
  <2>1. WellFormedInner(t, n)
    BY NodeHash DEF Inners
  <2> QED
    BY <2>1 DEF WellFormedInner, ChildOffset
<1> DEFINE place == SlotLengths(from, size, arity, j, width, off, len)
<1>4. place
  <2>1. j \in 1..arity
    OBVIOUS
  <2> HIDE DEF size, width, arity, off, from, len
  <2> QED
    BY <1>1, <1>2, <1>3, <2>1, SlotPlace
<1>5. /\ op.prefix = SubSeq(image, 1, from)
      /\ op.suffix = SubSeq(image, from + size + 1, len)
      /\ op.hash = t.spec.inner_spec.hash
  BY DEF Step
<1>6. /\ from \in Nat /\ len \in Nat /\ from + size <= len
      /\ len - (from + size) = (arity - j) * width
  BY <1>4 DEF SlotLengths
<1> HIDE DEF op, size, width, arity, off, from, image, len
<1>7. /\ IsSequence(op.prefix) /\ Len(op.prefix) = from
      /\ \A i \in 1..from : op.prefix[i] = image[i]
  <2>1. 1 <= from + 1 /\ from <= len /\ from - 1 + 1 = from
    BY <1>1, <1>6
  <2>2. /\ IsSequence(SubSeq(image, 1, from))
        /\ Len(SubSeq(image, 1, from)) = from - 1 + 1
        /\ \A i \in 1..(from - 1 + 1) : SubSeq(image, 1, from)[i] = image[1 + i - 1]
    <3> DEFINE one == 1
    <3>1. one \in Nat /\ 1 <= one /\ one <= from + 1
      BY <2>1
    <3>2. from <= Len(image)
      BY <2>1 DEF len
    <3> HIDE DEF one
    <3>3. /\ IsSequence(SubSeq(image, one, from))
          /\ Len(SubSeq(image, one, from)) = from - one + 1
          /\ \A i \in 1..(from - one + 1) :
                 SubSeq(image, one, from)[i] = image[one + i - 1]
      BY <1>3, <1>6, <3>1, <3>2, SubSeqPart
    <3> QED
      BY <3>3 DEF one
  <2> QED
    BY <1>5, <1>6, <2>1, <2>2
<1>8. /\ IsSequence(op.suffix) /\ Len(op.suffix) = (arity - j) * width
      /\ Len(op.suffix) \in Nat
      /\ \A i \in 1..Len(op.suffix) : op.suffix[i] = image[from + size + i]
  <2> DEFINE a == from + size + 1
             c == len - (from + size)
  <2>1. a \in Nat /\ 1 <= a /\ a <= len + 1 /\ len - a + 1 = c /\ c \in Nat
    BY <1>1, <1>6
  <2>2. len <= Len(image)
    <3>1. len = Len(image)
      BY DEF len
    <3> QED
      BY <1>6, <3>1
  <2> HIDE DEF a, c
  <2>3. /\ IsSequence(SubSeq(image, a, len))
        /\ Len(SubSeq(image, a, len)) = len - a + 1
        /\ \A i \in 1..(len - a + 1) : SubSeq(image, a, len)[i] = image[a + i - 1]
    <3>1. /\ IsSequence(image) /\ a \in Nat /\ len \in Nat
          /\ 1 <= a /\ a <= len + 1 /\ len <= Len(image)
      BY <1>3, <1>6, <2>1, <2>2
    <3> QED
      BY <3>1, SubSeqPart
  <2>4. op.suffix = SubSeq(image, a, len)
    BY <1>5 DEF a
  <2>5. c = (arity - j) * width
    BY <1>6 DEF c
  <2> DEFINE s == op.suffix
  <2>6. IsSequence(s) /\ Len(s) = c /\ \A i \in 1..c : s[i] = image[a + i - 1]
    BY <2>1, <2>3, <2>4
  <2> HIDE DEF s
  <2>7. ASSUME NEW i \in 1..c PROVE s[i] = image[from + size + i]
    <3>1. a + i - 1 = from + size + i
      BY <1>1, <1>6 DEF a
    <3> QED
      BY <2>6, <3>1
  <2>8. Len(s) \in Nat /\ \A i \in 1..Len(s) : s[i] = image[from + size + i]
    BY <2>1, <2>6, <2>7
  <2> QED
    BY <2>5, <2>6, <2>8 DEF s
<1>9. len = from + size + Len(op.suffix)
  <2> DEFINE s == Len(op.suffix)
  <2>1. s = len - (from + size)
    BY <1>6, <1>8
  <2> HIDE DEF s
  <2>2. len = from + size + s
    BY <1>1, <1>6, <2>1
  <2> QED
    BY <2>2 DEF s
<1>10. IsInnerOp(op)
  <2>1. op.hash \in HashOp
    BY <1>1, <1>5
  <2> QED
    BY <1>7, <1>8, <2>1 DEF IsInnerOp
<1>11. /\ Len(op.prefix) = from /\ Len(op.prefix) \in Nat
       /\ len = Len(op.prefix) + size + Len(op.suffix)
       /\ \A i \in 1..Len(op.prefix) : image[i] = op.prefix[i]
       /\ \A i \in 1..Len(op.suffix) : image[Len(op.prefix) + size + i] = op.suffix[i]
       /\ \A i \in 1..size : image[Len(op.prefix) + i] = ChildHash(t, t.kids[n][j])[i]
  BY <1>3, <1>6, <1>7, <1>8, <1>9
<1>12. Len(op.suffix) = (arity - j) * width /\ Len(op.suffix) \in Nat
  BY <1>8
<1>13. IsSequence(image) /\ op.hash = t.spec.inner_spec.hash
  BY <1>3, <1>5
<1> QED
  BY <1>10, <1>11, <1>12, <1>13, Zenon DEF op, size, width, arity, from, image, len

LEMMA StepOfChild ==
    ASSUME NEW t \in Trees, NEW n \in Inners(t), NEW j \in 1..Arity(t.spec),
           t.kids[n][j] \in t.nodes
    PROVE  LET op == Step(t, n, j)
               c  == t.kids[n][j]
           IN  /\ IsOverSlot(t, n, op, c, j)
               /\ IsStepOf(t, op, n, c)
               /\ ApplyInner(op, t.hash[c]) = t.hash[n]
<1> DEFINE op   == Step(t, n, j)
           c    == t.kids[n][j]
           h    == t.hash[c]
           size == DigestLen(t.spec.inner_spec.hash)
           image == t.image[n]
           x == op.prefix \o h \o op.suffix
<1>1. /\ IsInnerOp(op) /\ op.hash = t.spec.inner_spec.hash
      /\ Len(op.prefix) = ChildOffset(t, n, j)
      /\ Len(op.prefix) \in Nat
      /\ Len(op.suffix) = (Arity(t.spec) - j) * t.spec.inner_spec.child_size
      /\ Len(op.suffix) \in Nat
      /\ IsSequence(image)
      /\ Len(image) = Len(op.prefix) + size + Len(op.suffix)
      /\ \A i \in 1..Len(op.prefix) : image[i] = op.prefix[i]
      /\ \A i \in 1..Len(op.suffix) : image[Len(op.prefix) + size + i] = op.suffix[i]
      /\ \A i \in 1..size : image[Len(op.prefix) + i] = ChildHash(t, c)[i]
  BY StepBytes
<1>2. IsOverSlot(t, n, op, c, j)
  BY <1>1 DEF IsOverSlot
<1>3. ChildHash(t, c) = h
  BY TreesAssumption DEF ChildHash, WellFormedTree
<1>4. IsSequence(h) /\ Len(h) = size /\ size \in Nat
  BY NodeHash, DigestOfTree, TreeLayout
<1>5. IsSequence(op.prefix) /\ IsSequence(op.suffix)
  BY <1>1 DEF IsInnerOp
<1> HIDE DEF op, c, h, size, image
<1>6. IsSequence(x) /\ Parts(x, op.prefix, h, op.suffix)
  BY <1>4, <1>5, ConcatThree, Zenon
<1>7. IsThird(x, op.prefix, h, op.suffix)
  BY <1>4, <1>5, LastOfThree, Zenon
<1> DEFINE a == Len(op.prefix)
           b == Len(op.suffix)
<1>8. /\ Len(x) = a + size + b
      /\ \A i \in 1..a : x[i] = op.prefix[i]
      /\ \A i \in 1..size : x[a + i] = h[i]
      /\ \A i \in 1..b : x[a + size + i] = op.suffix[i]
  BY <1>4, <1>6, <1>7 DEF Parts, IsThird
<1>9. /\ a \in Nat /\ b \in Nat /\ Len(image) = a + size + b
      /\ \A i \in 1..a : image[i] = op.prefix[i]
      /\ \A i \in 1..size : image[a + i] = h[i]
      /\ \A i \in 1..b : image[a + size + i] = op.suffix[i]
  BY <1>1, <1>3
<1> HIDE DEF x, a, b
<1>10. image = x
  <2>1. ASSUME NEW i \in 1..Len(image) PROVE image[i] = x[i]
    <3>1. CASE i <= a
      <4>1. i \in 1..a
        BY <1>4, <1>9, <3>1
      <4> QED
        BY <1>8, <1>9, <4>1
    <3>2. CASE i > a /\ i <= a + size
      <4> DEFINE k == i - a
      <4>1. k \in 1..size /\ a + k = i
        BY <1>4, <1>9, <3>2
      <4> HIDE DEF k
      <4> QED
        BY <1>8, <1>9, <4>1
    <3>3. CASE i > a + size
      <4> DEFINE k == i - (a + size)
      <4>1. k \in 1..b /\ a + size + k = i
        BY <1>4, <1>9, <3>3
      <4> HIDE DEF k
      <4> QED
        BY <1>8, <1>9, <4>1
    <3> QED
      BY <1>4, <1>9, <3>1, <3>2, <3>3
  <2>2. Len(image) = Len(x)
    BY <1>8, <1>9
  <2> QED
    BY <1>1, <1>6, <2>1, <2>2, EqualSequences
<1>11. image = InnerImage(op, h)
  BY <1>10 DEF InnerImage, x
<1>12. IsStepOf(t, op, n, c)
  BY <1>1, <1>11 DEF IsStepOf, image, c, h
<1>13. ApplyInner(op, h) = t.hash[n]
  <2>1. t.hash[n] = DoHash(t.spec.inner_spec.hash, t.image[n])
    BY NodeHash DEF Inners
  <2> QED
    BY <1>1, <1>11, <2>1 DEF ApplyInner, image
<1> QED
  BY <1>2, <1>12, <1>13 DEF op, c, h

-----------------------------------------------------------------------------
(* The headers of a store's inner nodes.                                   *)

(* The values of the groups of s, summed up. *)
IsVarintValue(v, s) ==
    /\ v[0] = 0
    /\ \A k \in 1..Len(s) :
           v[k] = v[k - 1] + (ByteValue(s[k]) % Half) * Power(Half, k - 1)

LEMMA VarintValueSteps ==
    ASSUME NEW s, Len(s) \in Nat
    PROVE  \E v : IsVarintValue(v, s) /\ VarintValue(s) = v[VarintLen(s)]
<1> DEFINE len == Len(s)
           next(k, h) == h + (ByteValue(s[k]) % Half) * Power(Half, k - 1)
           IsValue(f, m) == /\ f = [k \in 0..m |-> f[k]]
                            /\ f[0] = 0
                            /\ \A k \in 1..m : f[k] = next(k, f[k - 1])
           X == {m \in Nat : \E f : IsValue(f, m)}
<1> HIDE DEF next
<1>1. 0 \in X
  <2>1. IsValue([k \in 0..0 |-> 0], 0)
    OBVIOUS
  <2> QED
    BY <2>1
<1>2. ASSUME NEW m \in Nat, m \in X PROVE m + 1 \in X
  <2>1. PICK f : IsValue(f, m)
    BY <1>2
  <2> DEFINE g == [k \in 0..(m + 1) |-> IF k = m + 1 THEN next(m + 1, f[m]) ELSE f[k]]
  <2>2. /\ g = [k \in 0..(m + 1) |-> g[k]]
        /\ g[m + 1] = next(m + 1, f[m])
        /\ \A k \in 0..m : g[k] = f[k]
        /\ 0 \in 0..m
    OBVIOUS
  <2> HIDE DEF g
  <2>3. ASSUME NEW k \in 1..(m + 1) PROVE g[k] = next(k, g[k - 1])
    <3>1. CASE k = m + 1
      <4>1. k - 1 = m /\ m \in 0..m
        BY <3>1
      <4>2. g[m] = f[m]
        BY <2>2, <4>1
      <4> QED
        BY <2>2, <3>1, <4>1, <4>2
    <3>2. CASE k # m + 1
      <4>1. k \in 1..m /\ k \in 0..m /\ k - 1 \in 0..m
        BY <3>2
      <4> QED
        BY <2>1, <2>2, <4>1
    <3> QED
      BY <3>1, <3>2
  <2>4. IsValue(g, m + 1)
    <3>1. g[0] = 0
      BY <2>1, <2>2
    <3> QED
      BY <2>2, <2>3, <3>1
  <2> HIDE DEF IsValue
  <2>5. m + 1 \in Nat /\ \E h : IsValue(h, m + 1)
    BY <2>4
  <2> QED
    BY <2>5
<1>3. \A m \in Nat : m \in X
  <2> HIDE DEF X
  <2> QED
    BY <1>1, <1>2, SetInduction
<1>4. PICK f : IsValue(f, len)
  BY <1>3
<1> DEFINE E(h) == [k \in 0..len |-> IF k = 0 THEN 0 ELSE next(k, h[k - 1])]
<1>5. f = E(f)
  <2>1. ASSUME NEW k \in 0..len
        PROVE  f[k] = IF k = 0 THEN 0 ELSE next(k, f[k - 1])
    <3>1. k = 0 \/ k \in 1..len
      OBVIOUS
    <3> QED
      BY <1>4, <3>1
  <2>2. f = [k \in 0..len |-> f[k]]
    BY <1>4
  <2> QED
    BY <2>1, <2>2
<1> DEFINE p == CHOOSE p : p = E(p)
<1>6. p = E(p)
  BY <1>5
<1>7. VarintValue(s) = p[VarintLen(s)]
  BY DEF VarintValue, next
<1> HIDE DEF p
<1>8. p[0] = 0 /\ \A k \in 1..len : p[k] = next(k, p[k - 1])
  BY <1>6
<1>9. IsVarintValue(p, s)
  BY <1>8 DEF IsVarintValue, next
<1> QED
  BY <1>7, <1>9

(* The number at the front of a string is the same whatever follows. *)
LEMMA ReadExtends ==
    ASSUME NEW p, NEW a, IsSequence(p), IsSequence(a), HasVarint(p)
    PROVE  HasVarint(p \o a) /\ ReadVarint(p \o a) = ReadVarint(p)
<1> DEFINE s == p \o a
           len == VarintLen(p)
<1>1. len \in 1..Len(p) /\ VarintLen(s) = len
  BY VarintExtends
<1>2. /\ IsSequence(s) /\ Len(s) = Len(p) + Len(a)
      /\ \A i \in 1..Len(p) : s[i] = p[i]
      /\ Len(p) \in Nat /\ Len(a) \in Nat
  BY ConcatSequences, SequenceType
<1>3. HasVarint(s)
  <2>1. len \in VarintEnds(p)
    BY DEF HasVarint, VarintLen
  <2> HIDE DEF len, s
  <2>2. len \in VarintEnds(s)
    BY <1>1, <1>2, <2>1 DEF VarintEnds
  <2> QED
    BY <2>2 DEF HasVarint
<1>4. PICK v : IsVarintValue(v, p) /\ VarintValue(p) = v[len]
  BY <1>2, VarintValueSteps
<1>5. PICK w : IsVarintValue(w, s) /\ VarintValue(s) = w[len]
  <2>1. Len(s) \in Nat
    BY <1>2
  <2> HIDE DEF s
  <2> QED
    BY <1>1, <2>1, VarintValueSteps
<1> HIDE DEF s, len
<1> DEFINE X == {k \in 0..len : v[k] = w[k]}
<1>6. \A k \in 0..len : k \in X
  <2>1. 0 \in X
    BY <1>1, <1>2, <1>4, <1>5 DEF IsVarintValue
  <2>2. ASSUME NEW k \in 0..(len - 1), k \in X PROVE k + 1 \in X
    <3>1. k + 1 \in 1..Len(p) /\ k + 1 \in 1..Len(s) /\ (k + 1) - 1 = k
          /\ k + 1 \in 0..len
      BY <1>1, <1>2
    <3>2. s[k + 1] = p[k + 1] /\ v[k] = w[k]
      BY <1>2, <2>2, <3>1
    <3>3. v[k + 1] = v[k] + (ByteValue(p[k + 1]) % Half) * Power(Half, k)
      BY <1>4, <3>1 DEF IsVarintValue
    <3>4. w[k + 1] = w[k] + (ByteValue(s[k + 1]) % Half) * Power(Half, k)
      BY <1>5, <3>1 DEF IsVarintValue
    <3> QED
      BY <3>1, <3>2, <3>3, <3>4
  <2>3. len \in Nat
    BY <1>1
  <2> HIDE DEF X
  <2> QED
    BY <2>1, <2>2, <2>3, BoundedInduction
<1>7. VarintValue(s) = VarintValue(p)
  BY <1>1, <1>2, <1>4, <1>5, <1>6
<1> QED
  BY <1>3, <1>7 DEF ReadVarint, s

(* A header, with so many bytes after it. *)
LEMMA HeaderExtends ==
    ASSUME NEW p, NEW a, IsSequence(p), IsSequence(a),
           NEW least \in Nat, EnsureIavlPrefix(p, least, {0}),
           NEW allowed, Len(a) \in allowed
    PROVE  EnsureIavlPrefix(p \o a, least, allowed)
<1> DEFINE p1 == AfterVarint(p)
           p2 == AfterVarint(p1)
           p3 == AfterVarint(p2)
           s  == p \o a
<1>1. /\ HasVarint(p) /\ HasVarint(p1) /\ HasVarint(p2)
      /\ ReadVarint(p) >= least /\ ReadVarint(p1) >= 0 /\ ReadVarint(p2) >= 0
      /\ Len(p3) = 0
  BY DEF EnsureIavlPrefix
<1> HIDE DEF p1, p2, p3, s
<1>2. /\ IsSequence(p1) /\ HasVarint(s) /\ ReadVarint(s) = ReadVarint(p)
      /\ AfterVarint(s) = p1 \o a
  BY <1>1, VarintExtends, ReadExtends DEF p1, s
<1>3. /\ IsSequence(p2) /\ HasVarint(p1 \o a) /\ ReadVarint(p1 \o a) = ReadVarint(p1)
      /\ AfterVarint(p1 \o a) = p2 \o a
  BY <1>1, <1>2, VarintExtends, ReadExtends DEF p2
<1>4. /\ IsSequence(p3) /\ HasVarint(p2 \o a) /\ ReadVarint(p2 \o a) = ReadVarint(p2)
      /\ AfterVarint(p2 \o a) = p3 \o a
  BY <1>1, <1>3, VarintExtends, ReadExtends DEF p3
<1>5. Len(p3 \o a) = Len(a)
  <2>1. Len(p3 \o a) = Len(p3) + Len(a) /\ Len(a) \in Nat
    BY <1>4, ConcatSequences, SequenceType
  <2> QED
    BY <1>1, <2>1
<1>6. ReadVarint(s) >= least
  BY <1>1, <1>2
<1> QED
  BY <1>1, <1>2, <1>3, <1>4, <1>5, <1>6 DEF EnsureIavlPrefix, s

-----------------------------------------------------------------------------
(* The proofs that stores write are accepted.                              *)

(* The sizes of a store's nodes, as ensure_inner asks for them. *)
LEMMA StoreSizes ==
    ASSUME NEW t \in Stores, NEW n \in Inners(t)
    PROVE  LET inner_spec == t.spec.inner_spec
           IN  /\ t.offset[n] \in inner_spec.min_prefix_length..
                                  inner_spec.max_prefix_length
               /\ inner_spec.max_prefix_length <
                      inner_spec.min_prefix_length + inner_spec.child_size
               /\ Len(t.spec.leaf_spec.prefix) \in Nat
               /\ Len(t.spec.leaf_spec.prefix) <= inner_spec.min_prefix_length
               /\ ~HasPrefix(t.spec.leaf_spec.prefix, t.image[n])
               /\ IsSequence(t.image[n])
               /\ t.spec.leaf_spec # None
<1>1. t \in Trees /\ IsStore(t)
  BY DEF Stores
<1>2. WellFormedTree(t) /\ WellFormedInner(t, n) /\ IsProofSpec(t.spec)
  BY <1>1, TreesAssumption DEF WellFormedTree
<1>3. IsSoundSpec(t.spec)
  BY <1>2 DEF WellFormedTree
<1>4. IsSequence(t.spec.leaf_spec.prefix)
  BY <1>2, <1>3 DEF IsProofSpec, IsLeafOp, IsSoundSpec
<1>5. Len(t.spec.leaf_spec.prefix) \in Nat
  BY <1>4, SequenceType
<1> QED
  BY <1>1, <1>2, <1>3, <1>5 DEF IsStore, WellFormedInner, IsSoundSpec

LEMMA HonestInner ==
    ASSUME NEW t \in Stores, NEW n \in Inners(t), NEW j \in 1..Arity(t.spec)
    PROVE  EnsureInner(Step(t, n, j), t.spec)
<1> DEFINE op   == Step(t, n, j)
           spec == t.spec.inner_spec
           lp   == t.spec.leaf_spec.prefix
           min  == spec.min_prefix_length
           max  == spec.max_prefix_length
           width == spec.child_size
           arity == Arity(t.spec)
           off   == t.offset[n]
           size  == DigestLen(spec.hash)
           p == Len(op.prefix)
           s == Len(op.suffix)
<1>0. t \in Trees
  BY DEF Stores
<1>1. /\ off \in min..max /\ max < min + width
      /\ Len(lp) \in Nat /\ Len(lp) <= min
      /\ ~HasPrefix(lp, t.image[n])
      /\ t.spec.leaf_spec # None
  BY StoreSizes
<1>2. /\ spec # None /\ width \in Nat \ {0} /\ min \in Nat /\ max \in Nat
      /\ arity \in Nat /\ arity >= 1 /\ size \in Nat
  BY <1>0, TreeLayout
<1>3. /\ op.hash = spec.hash
      /\ p = ChildOffset(t, n, j) /\ p \in Nat
      /\ s = (arity - j) * width /\ s \in Nat
      /\ Len(t.image[n]) = p + size + s
      /\ \A i \in 1..p : t.image[n][i] = op.prefix[i]
  BY <1>0, StepBytes
<1>4. p = off + (j - 1) * width
  BY <1>3 DEF ChildOffset
<1>5. arity = Len(spec.child_order)
  BY DEF Arity
<1> HIDE DEF op, spec, lp, min, max, width, arity, off, size, p, s
<1>6. /\ p >= min
      /\ p <= max + (arity - 1) * width
  <2>1. j - 1 \in Nat /\ arity - 1 \in Nat /\ j - 1 <= arity - 1
    BY <1>2 DEF arity
  <2> DEFINE a == (j - 1) * width
             b == (arity - 1) * width
  <2>2. a \in Nat /\ b \in Nat /\ a <= b
    BY <1>2, <2>1
  <2>3. p = off + a
    BY <1>4
  <2> HIDE DEF a, b
  <2>4. p >= min /\ p <= max + b
    BY <1>1, <1>2, <2>2, <2>3
  <2> QED
    BY <2>4 DEF b
<1>7. s % width = 0
  <2> DEFINE k == arity - j
  <2>1. k \in Nat
    BY <1>2 DEF arity
  <2>2. s = k * width
    BY <1>3
  <2> HIDE DEF k
  <2>3. (k * width) % width = 0
    BY <1>2, <2>1
  <2> QED
    BY <2>2, <2>3
<1>8. ~HasPrefix(lp, op.prefix)
  <2> SUFFICES ASSUME HasPrefix(lp, op.prefix) PROVE HasPrefix(lp, t.image[n])
    BY <1>1
  <2>1. Len(lp) <= p /\ \A i \in 1..Len(lp) : op.prefix[i] = lp[i]
    BY DEF HasPrefix, p
  <2>2. Len(lp) <= Len(t.image[n])
    <3>1. p + size + s >= p
      BY <1>2, <1>3
    <3>2. Len(t.image[n]) = p + size + s /\ Len(lp) <= p
      BY <1>3, <2>1
    <3>3. p \in Nat /\ p + size + s \in Nat /\ Len(lp) \in Nat
      BY <1>1, <1>2, <1>3
    <3> QED
      BY <3>1, <3>2, <3>3
  <2>3. \A i \in 1..Len(lp) : i \in 1..p
    BY <1>1, <1>3, <2>1
  <2> QED
    BY <1>3, <2>1, <2>2, <2>3 DEF HasPrefix
<1>9. width > 0 /\ max < min + width
  BY <1>1, <1>2
<1>10. /\ t.spec.leaf_spec # None /\ t.spec.inner_spec # None
       /\ op.hash = t.spec.inner_spec.hash
       /\ ~HasPrefix(t.spec.leaf_spec.prefix, op.prefix)
  BY <1>1, <1>2, <1>3, <1>8 DEF spec, lp
<1>11. /\ Len(op.prefix) >= t.spec.inner_spec.min_prefix_length
       /\ Len(op.prefix) <= t.spec.inner_spec.max_prefix_length
              + (Len(t.spec.inner_spec.child_order) - 1) * t.spec.inner_spec.child_size
  BY <1>5, <1>6 DEF p, min, max, width, spec
<1>12. /\ t.spec.inner_spec.child_size > 0
       /\ t.spec.inner_spec.max_prefix_length <
              t.spec.inner_spec.min_prefix_length + t.spec.inner_spec.child_size
       /\ Len(op.suffix) % t.spec.inner_spec.child_size = 0
  BY <1>7, <1>9 DEF s, min, max, width, spec
<1> QED
  BY <1>10, <1>11, <1>12 DEF EnsureInner, op

(* In the layout of IAVL there are two children, each with a length byte. *)
LEMMA IavlLayout ==
    ASSUME NEW t \in Stores, IsIavlSpec(t.spec)
    PROVE  /\ t.spec.inner_spec.child_size = HashSize + 1
           /\ t.spec.inner_spec.min_prefix_length = 4
           /\ Arity(t.spec) = 2
           /\ t.spec.inner_spec.hash = "SHA256"
<1>1. SpecEquals(t.spec, IavlSpec)
  BY DEF IsIavlSpec
<1> QED
  BY <1>1 DEF SpecEquals, IavlSpec, Arity

LEMMA HonestHeader ==
    ASSUME NEW t \in Stores, NEW n \in Inners(t), NEW j \in 1..Arity(t.spec),
           NEW k \in 0..t.height[n]
    PROVE  EnsureInnerPrefix(Step(t, n, j).prefix, t.spec, k, Step(t, n, j).hash)
<1> SUFFICES ASSUME IsIavlSpec(t.spec)
             PROVE  /\ EnsureIavlPrefix(Step(t, n, j).prefix, k, {1, HashSize + 2})
                    /\ Step(t, n, j).hash = "SHA256"
  BY DEF EnsureInnerPrefix
<1> DEFINE op   == Step(t, n, j)
           off  == t.offset[n]
           image == t.image[n]
           from == ChildOffset(t, n, j)
           front == SubSeq(image, 1, off - 1)
           rest  == SubSeq(image, off, from)
<1>0. t \in Trees /\ IsStore(t)
  BY DEF Stores
<1>1. /\ t.spec.inner_spec.child_size = HashSize + 1
      /\ t.spec.inner_spec.min_prefix_length = 4
      /\ Arity(t.spec) = 2
      /\ t.spec.inner_spec.hash = "SHA256"
  BY IavlLayout
<1>2. off \in Nat /\ off >= 4
  BY <1>0, <1>1, StoreSizes, OffsetType
<1>3. HashSize \in Nat \ {0} /\ j \in {1, 2}
  BY <1>1, HashSizeAssumption
<1>4. from = off \/ from = off + HashSize + 1
  BY <1>1, <1>2, <1>3 DEF ChildOffset
<1>5. /\ op.hash = "SHA256"
      /\ IsInnerOp(op) /\ Len(op.prefix) = from
      /\ IsSequence(image)
      /\ \A i \in 1..from : op.prefix[i] = image[i]
  BY <1>0, <1>1, StepBytes
<1>6. from <= Len(image) /\ Len(image) \in Nat
  <2>1. /\ Len(image) = Len(op.prefix) + DigestLen(t.spec.inner_spec.hash) + Len(op.suffix)
        /\ Len(op.suffix) \in Nat
    BY <1>0, StepBytes
  <2>2. DigestLen(t.spec.inner_spec.hash) \in Nat
    BY <1>0, TreeLayout
  <2>3. from \in Nat
    BY <1>2, <1>3, <1>4
  <2> HIDE DEF from, op, image
  <2> QED
    BY <1>5, <2>1, <2>2, <2>3
<1>7. EnsureIavlPrefix(front, k, {0})
  BY <1>0 DEF IsStore
<1> HIDE DEF op, off, image, from
<1>8. /\ IsSequence(front) /\ Len(front) = off - 1
      /\ \A i \in 1..(off - 1) : front[i] = image[i]
  <2> DEFINE one == 1
             b == off - 1
  <2>1. one \in Nat /\ b \in Nat /\ 1 <= one /\ one <= b + 1 /\ b <= Len(image)
    BY <1>2, <1>3, <1>4, <1>6
  <2> HIDE DEF one, b
  <2>2. /\ IsSequence(SubSeq(image, one, b))
        /\ Len(SubSeq(image, one, b)) = b - one + 1
        /\ \A i \in 1..(b - one + 1) : SubSeq(image, one, b)[i] = image[one + i - 1]
    BY <1>5, <2>1, SubSeqPart
  <2> QED
    BY <1>2, <2>2 DEF one, b
<1>9. /\ IsSequence(rest) /\ Len(rest) = from - off + 1
      /\ \A i \in 1..(from - off + 1) : rest[i] = image[off + i - 1]
  <2>1. from \in Nat /\ 1 <= off /\ off <= from + 1 /\ from <= Len(image)
    BY <1>2, <1>3, <1>4, <1>6
  <2> QED
    BY <1>2, <1>5, <2>1, SubSeqPart
<1> HIDE DEF front, rest
<1>10. op.prefix = front \o rest
  <2> DEFINE x == front \o rest
  <2>1. /\ IsSequence(x) /\ Len(x) = Len(front) + Len(rest)
        /\ \A i \in 1..Len(front) : x[i] = front[i]
        /\ \A i \in 1..Len(rest) : x[Len(front) + i] = rest[i]
    <3>1. IsSequence(front) /\ IsSequence(rest)
      BY <1>8, <1>9
    <3> QED
      BY <3>1, ConcatSequences
  <2> HIDE DEF x
  <2>2. Len(x) = from
    BY <1>2, <1>3, <1>4, <1>8, <1>9, <2>1
  <2>3. ASSUME NEW i \in 1..from PROVE op.prefix[i] = x[i]
    <3>1. CASE i <= off - 1
      <4>1. i \in 1..(off - 1) /\ i \in 1..Len(front)
        BY <1>2, <1>8, <3>1
      <4> QED
        BY <1>5, <1>8, <2>1, <4>1
    <3>2. CASE i > off - 1
      <4> DEFINE m == i - (off - 1)
      <4>1. m \in 1..(from - off + 1) /\ (off - 1) + m = i /\ off + m - 1 = i
        BY <1>2, <1>3, <1>4, <3>2
      <4> HIDE DEF m
      <4>2. x[i] = rest[m] /\ rest[m] = image[i]
        BY <1>8, <1>9, <2>1, <4>1
      <4> QED
        BY <1>5, <4>2
    <3> QED
      BY <1>2, <3>1, <3>2
  <2>4. IsSequence(op.prefix)
    BY <1>5 DEF IsInnerOp
  <2>5. op.prefix = x
    BY <1>5, <2>1, <2>2, <2>3, <2>4, EqualSequences
  <2> QED
    BY <2>5 DEF x
<1>11. Len(rest) \in {1, HashSize + 2}
  BY <1>2, <1>3, <1>4, <1>9
<1>12. k \in Nat
  BY <1>0 DEF IsStore
<1>13. EnsureIavlPrefix(front \o rest, k, {1, HashSize + 2})
  <2> DEFINE allowed == {1, HashSize + 2}
  <2>1. Len(rest) \in allowed
    BY <1>11
  <2> HIDE DEF allowed
  <2>2. EnsureIavlPrefix(front \o rest, k, allowed)
    BY <1>7, <1>8, <1>9, <1>12, <2>1, HeaderExtends
  <2> QED
    BY <2>2 DEF allowed
<1> QED
  BY <1>5, <1>10, <1>13 DEF op

(* A climb that is a path of the proof's operations. *)
LEMMA ClimbSteps ==
    ASSUME NEW t \in Stores, NEW n \in t.nodes, NEW path, NEW via, NEW slot,
           IsClimb(t, n, path, via, slot)
    PROVE  \A k \in 1..Len(path) :
               /\ IsInnerOp(path[k])
               /\ EnsureInner(path[k], t.spec)
               /\ EnsureInnerPrefix(path[k].prefix, t.spec, k, path[k].hash)
               /\ IsOverSlot(t, via[k], path[k], via[k - 1], slot[k])
               /\ IsStepOf(t, path[k], via[k], via[k - 1])
               /\ ApplyInner(path[k], t.hash[via[k - 1]]) = t.hash[via[k]]
<1> SUFFICES ASSUME NEW k \in 1..Len(path)
             PROVE  /\ IsInnerOp(path[k])
                    /\ EnsureInner(path[k], t.spec)
                    /\ EnsureInnerPrefix(path[k].prefix, t.spec, k, path[k].hash)
                    /\ IsOverSlot(t, via[k], path[k], via[k - 1], slot[k])
                    /\ IsStepOf(t, path[k], via[k], via[k - 1])
                    /\ ApplyInner(path[k], t.hash[via[k - 1]]) = t.hash[via[k]]
  OBVIOUS
<1> DEFINE m == via[k]
           c == via[k - 1]
           j == slot[k]
<1>0. t \in Trees /\ \A x \in t.nodes : t.height[x] \in Nat
  BY StoreRoot
<1>1. Len(path) \in Nat /\ k - 1 \in 0..Len(path)
  <2>1. Len(path) \in Nat
    BY DEF IsClimb
  <2> QED
    BY <2>1
<1>2. /\ m \in Inners(t) /\ c \in t.nodes
      /\ j \in 1..Arity(t.spec) /\ t.kids[m][j] = c
      /\ path[k] = Step(t, m, j)
      /\ t.height[m] >= k
  BY <1>1 DEF IsClimb
<1> HIDE DEF m, c, j
<1>3. k \in 0..t.height[m]
  BY <1>0, <1>1, <1>2 DEF Inners
<1>4. IsInnerOp(path[k])
  BY <1>0, <1>2, StepBytes
<1>5. EnsureInner(path[k], t.spec)
  BY <1>2, HonestInner
<1>6. EnsureInnerPrefix(path[k].prefix, t.spec, k, path[k].hash)
  BY <1>2, <1>3, HonestHeader
<1>7. /\ IsOverSlot(t, m, path[k], c, j)
      /\ IsStepOf(t, path[k], m, c)
      /\ ApplyInner(path[k], t.hash[c]) = t.hash[m]
  BY <1>0, <1>2, StepOfChild
<1> QED
  BY <1>4, <1>5, <1>6, <1>7 DEF m, c, j

LEMMA HonestClimb ==
    ASSUME NEW t \in Stores, NEW n \in t.leaves
    PROVE  /\ IsExistenceProof(HonestProof(t, n))
           /\ \E via, slot : IsClimb(t, n, HonestProof(t, n).path, via, slot)
<1> DEFINE path == TreePath(t, n)
<1>0. n \in t.nodes /\ t \in Trees
  BY StoreRoot
<1>1. PICK via, slot : IsClimb(t, n, path, via, slot)
  BY <1>0, TreePathClimbs
<1>2. /\ IsSequence(path)
      /\ \A k \in 1..Len(path) : IsInnerOp(path[k])
  BY <1>0, <1>1, ClimbSteps DEF IsClimb
<1>3. /\ IsSequence(t.key[n]) /\ IsSequence(t.value[n]) /\ IsLeafOp(t.leafop[n])
  BY <1>0, TreesAssumption DEF WellFormedTree, WellFormedLeaf
<1> HIDE DEF path
<1>4. HonestProof(t, n) = [key |-> t.key[n], value |-> t.value[n],
                           leaf |-> t.leafop[n], path |-> path]
  BY DEF HonestProof, path
<1>5. IsExistenceProof(HonestProof(t, n))
  BY <1>2, <1>3, <1>4 DEF IsExistenceProof
<1> QED
  BY <1>1, <1>4, <1>5

(* The hashes of the proof are those of the nodes it comes through. *)
LEMMA HonestHashes ==
    ASSUME NEW t \in Stores, NEW n \in t.leaves, NEW via, NEW slot,
           IsClimb(t, n, HonestProof(t, n).path, via, slot)
    PROVE  LET proof == HonestProof(t, n)
           IN  \A k \in 0..Len(proof.path) : Hashes(proof)[k] = t.hash[via[k]]
<1> DEFINE proof == HonestProof(t, n)
           path  == proof.path
           len   == Len(path)
           X == {k \in 0..len : Hashes(proof)[k] = t.hash[via[k]]}
<1>0. n \in t.nodes /\ t \in Trees
  BY StoreRoot
<1>1. len \in Nat /\ via[0] = n
  BY DEF IsClimb
<1>2. /\ proof.key = t.key[n] /\ proof.value = t.value[n] /\ proof.leaf = t.leafop[n]
  BY DEF HonestProof
<1>3. /\ Hashes(proof)[0] = ApplyLeaf(proof.leaf, proof.key, proof.value)
      /\ \A k \in 1..len : Hashes(proof)[k] = ApplyInner(path[k], Hashes(proof)[k - 1])
  BY <1>1, HashesStep
<1>4. ApplyLeaf(t.leafop[n], t.key[n], t.value[n]) = t.hash[n]
  BY <1>0, TreesAssumption DEF WellFormedTree, WellFormedLeaf, ApplyLeaf, EnsureLeaf
<1>5. \A k \in 1..len : ApplyInner(path[k], t.hash[via[k - 1]]) = t.hash[via[k]]
  BY <1>0, ClimbSteps
<1> HIDE DEF proof, path, len
<1>6. \A k \in 0..len : k \in X
  <2>1. 0 \in X
    BY <1>1, <1>2, <1>3, <1>4
  <2>2. ASSUME NEW k \in 0..(len - 1), k \in X PROVE k + 1 \in X
    <3>1. k + 1 \in 1..len /\ (k + 1) - 1 = k /\ k + 1 \in 0..len
      BY <1>1
    <3> QED
      BY <1>3, <1>5, <2>2, <3>1
  <2> HIDE DEF X
  <2> QED
    BY <1>1, <2>1, <2>2, BoundedInduction
<1> QED
  BY <1>6 DEF proof, path, len

(* The proof of a leaf yields the hash of the root, with the sizes of the  *)
(* spec checked or without.                                                *)
LEMMA HonestRoot ==
    ASSUME NEW t \in Stores, NEW n \in t.leaves, NEW spec, spec \in {t.spec, None}
    PROVE  /\ RootFrom(HonestProof(t, n), spec, t.hash[t.root])
           /\ Hashes(HonestProof(t, n))[Len(HonestProof(t, n).path)] = t.hash[t.root]
<1> DEFINE proof == HonestProof(t, n)
           len == Len(proof.path)
           h(k) == Hashes(proof)[k]
<1>0. t \in Trees /\ IsStore(t)
  BY DEF Stores
<1>1. PICK via, slot : IsClimb(t, n, proof.path, via, slot)
  BY HonestClimb
<1>2. /\ len \in Nat /\ via[len] = t.root
      /\ \A k \in 0..len : via[k] \in t.nodes
  BY <1>1 DEF IsClimb
<1>3. \A k \in 0..len : h(k) = t.hash[via[k]]
  BY <1>1, HonestHashes
<1>4. h(len) = t.hash[t.root]
  BY <1>2, <1>3
<1>5. /\ proof.key = t.key[n] /\ proof.value = t.value[n] /\ proof.leaf = t.leafop[n]
  BY DEF HonestProof
<1>6. WellFormedLeaf(t, n)
  BY <1>0, TreesAssumption DEF WellFormedTree
<1>7. /\ t.key[n] # <<>> /\ t.value[n] # <<>> /\ t.leafop[n] # None
  BY <1>0 DEF IsStore
<1>8. LeafApplies(t.leafop[n], t.key[n], t.value[n])
  BY <1>6, <1>7 DEF LeafApplies, LeafDataOK, WellFormedLeaf
<1>9. \A k \in 0..len : h(k) # <<>> /\ SizeAccepted(h(k), spec)
  <2> SUFFICES ASSUME NEW k \in 0..len
               PROVE  t.hash[via[k]] # <<>> /\ SizeAccepted(t.hash[via[k]], spec)
    BY <1>3
  <2> DEFINE hash == t.hash[via[k]]
             size == DigestLen(t.spec.inner_spec.hash)
  <2>1. /\ IsSequence(hash) /\ Len(hash) = size /\ size \in Nat \ {0}
        /\ size <= t.spec.inner_spec.child_size
        /\ t.spec.inner_spec.child_size \in Nat
    BY <1>0, <1>2, NodeHash, DigestOfTree, TreeLayout
  <2> HIDE DEF hash, size
  <2>2. hash # <<>>
    BY <2>1, SequenceType
  <2>3. SizeAccepted(hash, spec)
    BY <2>1 DEF SizeAccepted
  <2> QED
    BY <2>2, <2>3 DEF hash
<1>10. \A k \in 1..len : h(k - 1) # <<>> /\ SizeAccepted(h(k), spec)
  <2> HIDE DEF len, h
  <2>1. \A k \in 1..len : k \in 0..len /\ k - 1 \in 0..len
    BY <1>2
  <2> QED
    BY <1>9, <2>1
<1>11. RootFrom(proof, spec, t.hash[t.root])
  BY <1>4, <1>5, <1>7, <1>8, <1>10 DEF RootFrom
<1> QED
  BY <1>4, <1>11

(* verify_existence accepts it. *)
LEMMA HonestVerifies ==
    ASSUME NEW t \in Stores, NEW n \in t.leaves
    PROVE  VerifiesExistence(HonestProof(t, n), t.spec, t.hash[t.root],
                             t.key[n], t.value[n])
<1> DEFINE proof == HonestProof(t, n)
           len == Len(proof.path)
<1>0. t \in Trees /\ IsStore(t) /\ n \in t.nodes
  BY StoreRoot DEF Stores
<1>1. WellFormedTree(t) /\ WellFormedLeaf(t, n) /\ IsSoundSpec(t.spec)
  BY <1>0, TreesAssumption DEF WellFormedTree
<1>2. /\ proof.key = t.key[n] /\ proof.value = t.value[n] /\ proof.leaf = t.leafop[n]
      /\ proof.path = TreePath(t, n)
  BY DEF HonestProof
<1>3. LeafAccepted(proof, t.spec)
  BY <1>0, <1>1, <1>2 DEF LeafAccepted, WellFormedLeaf, IsSoundSpec, IsStore
<1>4. DepthAccepted(proof, t.spec)
  <2>1. len = Depth(t, n)
    BY <1>0, <1>2, TreePathClimbs
  <2>2. t.spec.min_depth \in Nat
    BY <1>0, TreesAssumption DEF IsProofSpec
  <2>3. t.spec.min_depth > 0 => Depth(t, n) \in t.spec.min_depth..t.spec.max_depth
    BY <1>0 DEF IsStore
  <2> QED
    BY <2>1, <2>2, <2>3 DEF DepthAccepted
<1>5. \A k \in 1..len : StepAccepted(proof, t.spec, k)
  <2>1. PICK via, slot : IsClimb(t, n, proof.path, via, slot)
    BY HonestClimb
  <2>2. \A k \in 1..len :
            /\ EnsureInner(proof.path[k], t.spec)
            /\ EnsureInnerPrefix(proof.path[k].prefix, t.spec, k, proof.path[k].hash)
    BY <1>0, <2>1, ClimbSteps
  <2> QED
    BY <2>2 DEF StepAccepted
<1>6. RootFrom(proof, t.spec, t.hash[t.root])
  BY HonestRoot
<1> QED
  BY <1>2, <1>3, <1>4, <1>5, <1>6 DEF VerifiesExistence

-----------------------------------------------------------------------------
(* The leaves of a store in the order of their keys.                       *)

(* Of finitely many things, one is the last. *)
IsLinear(R, S) ==
    /\ \A x, y \in S : x = y \/ <<x, y>> \in R \/ <<y, x>> \in R
    /\ \A x, y, z \in S : <<x, y>> \in R /\ <<y, z>> \in R => <<x, z>> \in R

LEMMA LastOfFinite ==
    ASSUME NEW S, IsFiniteSet(S), S # {}, NEW R, IsLinear(R, S)
    PROVE  \E n \in S : \A m \in S : m = n \/ <<m, n>> \in R
<1> DEFINE HasLast(A) == \E n \in A : \A m \in A : m = n \/ <<m, n>> \in R
           Holds(k) == \A A \in SUBSET S :
                   (IsFiniteSet(A) /\ Cardinality(A) = k /\ A # {}) => HasLast(A)
           X == {k \in Nat : Holds(k)}
<1>1. 0 \in X
  <2>1. \A A \in SUBSET S : IsFiniteSet(A) /\ Cardinality(A) = 0 => A = {}
    BY FS_EmptySet
  <2> QED
    BY <2>1
<1>2. ASSUME NEW k \in Nat, k \in X PROVE k + 1 \in X
  <2> SUFFICES ASSUME NEW A \in SUBSET S, IsFiniteSet(A), Cardinality(A) = k + 1,
                      A # {}
               PROVE  HasLast(A)
    BY <1>2
  <2>1. PICK x \in A : TRUE
    OBVIOUS
  <2> DEFINE B == A \ {x}
  <2>2. IsFiniteSet(B) /\ Cardinality(B) = k
    BY FS_RemoveElement
  <2>3. B \in SUBSET S /\ Holds(k)
    BY <1>2
  <2>4. CASE B = {}
    <3>1. \A m \in A : m = x
      BY <2>4
    <3> QED
      BY <3>1
  <2>5. CASE B # {}
    <3>1. PICK n \in B : \A m \in B : m = n \/ <<m, n>> \in R
      BY <2>2, <2>3, <2>5
    <3>2. x # n /\ x \in S /\ n \in S /\ n \in A /\ B \subseteq S
      OBVIOUS
    <3>3. CASE <<x, n>> \in R
      <4>1. \A m \in A : m = n \/ <<m, n>> \in R
        BY <3>1, <3>3
      <4> QED
        BY <3>2, <4>1
    <3>4. CASE <<n, x>> \in R
      <4>1. \A m \in B : <<m, x>> \in R
        BY <3>1, <3>2, <3>4 DEF IsLinear
      <4>2. \A m \in A : m = x \/ <<m, x>> \in R
        BY <4>1
      <4> QED
        BY <4>2
    <3> QED
      BY <3>2, <3>3, <3>4 DEF IsLinear
  <2> QED
    BY <2>4, <2>5
<1>3. \A k \in Nat : k \in X
  <2> HIDE DEF X
  <2> QED
    BY <1>1, <1>2, SetInduction
<1>4. Cardinality(S) \in Nat
  BY FS_CardinalityType
<1>5. Holds(Cardinality(S)) /\ S \in SUBSET S
  BY <1>3, <1>4
<1> QED
  BY <1>5

(* A store with its slots in the order of the keys, and keys in an order. *)
IsOrderedStore(t) ==
    /\ t \in Stores /\ t \in SortedTrees
    /\ \A x, y, z \in t.leaves :
           /\ ~Ahead(t, x, x)
           /\ Ahead(t, x, y) /\ Ahead(t, y, z) => Ahead(t, x, z)

LEMMA OrderedStoreFacts ==
    ASSUME NEW t, IsOrderedStore(t)
    PROVE  /\ t \in Stores /\ t \in Trees /\ t \in SortedTrees
           /\ \A n \in t.nodes : t.height[n] \in Nat
           /\ t.root \in t.nodes /\ t.below[t.root] = t.leaves
           /\ t.leaves \subseteq t.nodes
BY RootFacts, StoreRoot DEF IsOrderedStore

(* What is below a node is below its children, which are less high. *)
LEMMA ChildBelow ==
    ASSUME NEW t, IsOrderedStore(t), NEW n \in Inners(t)
    PROVE  \A i \in 1..Arity(t.spec) :
               \/ t.kids[n][i] = None
               \/ /\ t.kids[n][i] \in t.nodes
                  /\ t.height[t.kids[n][i]] < t.height[n]
                  /\ t.below[t.kids[n][i]] \subseteq t.below[n]
                  /\ Below(t, t.kids[n][i]) = t.below[t.kids[n][i]]
<1> SUFFICES ASSUME NEW i \in 1..Arity(t.spec), t.kids[n][i] # None
             PROVE  /\ t.kids[n][i] \in t.nodes
                    /\ t.height[t.kids[n][i]] < t.height[n]
                    /\ t.below[t.kids[n][i]] \subseteq t.below[n]
                    /\ Below(t, t.kids[n][i]) = t.below[t.kids[n][i]]
  OBVIOUS
<1>0. /\ t \in Stores /\ t \in Trees /\ t \in SortedTrees /\ IsStore(t)
  BY OrderedStoreFacts DEF Stores
<1>1. DOMAIN t.kids[n] = 1..Arity(t.spec) /\ t.kids[n][i] \in t.nodes
  BY <1>0, KidsOf
<1>2. t.kids[n][i] \in Range(t.kids[n]) \ {None}
  BY <1>1 DEF Range
<1>3. t.height[t.kids[n][i]] < t.height[n]
  BY <1>0, <1>2 DEF IsStore
<1>4. Below(t, t.kids[n][i]) = t.below[t.kids[n][i]]
  BY DEF Below
<1>5. Below(t, t.kids[n][i]) \subseteq t.below[n]
  BY <1>0, LeavesBelow
<1> QED
  BY <1>1, <1>3, <1>4, <1>5

(* There are leaves below every node, each two of them in an order. *)
LEMMA LeavesOfNode ==
    ASSUME NEW t, IsOrderedStore(t)
    PROVE  \A n \in t.nodes :
               /\ t.below[n] # {} /\ t.below[n] \subseteq t.leaves
               /\ \A x, y \in t.below[n] : x = y \/ Ahead(t, x, y) \/ Ahead(t, y, x)
<1> DEFINE Good(n) ==
               /\ t.below[n] # {} /\ t.below[n] \subseteq t.leaves
               /\ \A x, y \in t.below[n] : x = y \/ Ahead(t, x, y) \/ Ahead(t, y, x)
           X == {h \in Nat : \A n \in t.nodes : t.height[n] <= h => Good(n)}
<1>0. /\ t \in Stores /\ t \in Trees /\ t \in SortedTrees /\ IsStore(t)
      /\ \A n \in t.nodes : t.height[n] \in Nat
  BY OrderedStoreFacts DEF Stores
<1>1. \A n \in t.leaves : Good(n)
  <2> SUFFICES ASSUME NEW n \in t.leaves PROVE Good(n)
    OBVIOUS
  <2>1. t.below[n] = {n}
    BY <1>0, OnlyLeaf
  <2> QED
    BY <2>1
<1>2. ASSUME NEW n \in Inners(t),
             \A c \in t.nodes : t.height[c] < t.height[n] => Good(c)
      PROVE  Good(n)
  <2>1. \A i \in 1..Arity(t.spec) :
            \/ t.kids[n][i] = None
            \/ /\ t.kids[n][i] \in t.nodes /\ Good(t.kids[n][i])
               /\ t.below[t.kids[n][i]] \subseteq t.below[n]
               /\ Below(t, t.kids[n][i]) = t.below[t.kids[n][i]]
    BY <1>2, ChildBelow
  <2> HIDE DEF Good
  <2>2. PICK i \in 1..Arity(t.spec) : t.kids[n][i] # None
    <3>1. DOMAIN t.kids[n] = 1..Arity(t.spec) /\ 1 \in 1..Arity(t.spec)
      BY <1>0, KidsOf, TreeLayout
    <3>2. Range(t.kids[n]) # {None}
      BY <1>0, <1>2 DEF IsStore
    <3>3. Range(t.kids[n]) = {t.kids[n][j] : j \in 1..Arity(t.spec)}
      BY <3>1 DEF Range
    <3> QED
      BY <3>1, <3>2, <3>3
  <2>3. t.below[n] # {}
    BY <2>1, <2>2 DEF Good
  <2>4. \A x \in t.below[n] : \E j \in 1..Arity(t.spec) : x \in Below(t, t.kids[n][j])
    BY <1>0, LeavesBelow
  <2>5. ASSUME NEW x \in t.below[n] PROVE x \in t.leaves
    BY <2>1, <2>4 DEF Below, Good
  <2>6. ASSUME NEW x \in t.below[n], NEW y \in t.below[n]
        PROVE  x = y \/ Ahead(t, x, y) \/ Ahead(t, y, x)
    <3>1. PICK j \in 1..Arity(t.spec) : x \in Below(t, t.kids[n][j])
      BY <2>4
    <3>2. PICK k \in 1..Arity(t.spec) : y \in Below(t, t.kids[n][k])
      BY <2>4
    <3>3. j < k \/ k < j \/ j = k
      BY <1>0, TreeLayout
    <3>4. j < k => Ahead(t, x, y)
      BY <1>0, <3>1, <3>2, LeavesBelow
    <3>5. k < j => Ahead(t, y, x)
      BY <1>0, <3>1, <3>2, LeavesBelow
    <3>6. ASSUME j = k PROVE x = y \/ Ahead(t, x, y) \/ Ahead(t, y, x)
      <4>1. t.kids[n][j] # None
        BY <3>1 DEF Below
      <4>2. Good(t.kids[n][j]) /\ x \in t.below[t.kids[n][j]]
            /\ y \in t.below[t.kids[n][j]]
        BY <2>1, <3>1, <3>2, <3>6, <4>1
      <4> QED
        BY <4>2 DEF Good
    <3> QED
      BY <3>3, <3>4, <3>5, <3>6
  <2> QED
    BY <2>3, <2>5, <2>6 DEF Good
<1> HIDE DEF Good
<1>3. 0 \in X
  <2> SUFFICES ASSUME NEW n \in t.nodes, t.height[n] <= 0 PROVE Good(n)
    OBVIOUS
  <2>1. CASE n \in t.leaves
    BY <1>1, <2>1
  <2>2. CASE n \notin t.leaves
    <3>1. n \in Inners(t)
      BY <2>2 DEF Inners
    <3>2. \A c \in t.nodes : ~(t.height[c] < t.height[n])
      BY <1>0
    <3> QED
      BY <1>2, <3>1, <3>2
  <2> QED
    BY <2>1, <2>2
<1>4. ASSUME NEW h \in Nat, h \in X PROVE h + 1 \in X
  <2> SUFFICES ASSUME NEW n \in t.nodes, t.height[n] <= h + 1 PROVE Good(n)
    OBVIOUS
  <2>1. CASE n \in t.leaves
    BY <1>1, <2>1
  <2>2. CASE n \notin t.leaves
    <3>1. n \in Inners(t)
      BY <2>2 DEF Inners
    <3>2. \A c \in t.nodes : t.height[c] < t.height[n] => Good(c)
      <4> SUFFICES ASSUME NEW c \in t.nodes, t.height[c] < t.height[n] PROVE Good(c)
        OBVIOUS
      <4>1. t.height[c] <= h
        BY <1>0
      <4> QED
        BY <1>4, <4>1
    <3> QED
      BY <1>2, <3>1, <3>2
  <2> QED
    BY <2>1, <2>2
<1>5. \A h \in Nat : h \in X
  <2> HIDE DEF X
  <2> QED
    BY <1>3, <1>4, SetInduction
<1>6. \A n \in t.nodes : Good(n)
  <2> SUFFICES ASSUME NEW n \in t.nodes PROVE Good(n)
    OBVIOUS
  <2>1. t.height[n] \in Nat /\ t.height[n] <= t.height[n]
    BY <1>0
  <2> QED
    BY <1>5, <2>1
<1> QED
  BY <1>6 DEF Good

-----------------------------------------------------------------------------
(* The operations of a store on the edges of its nodes.                    *)

LEMMA StepOrder ==
    ASSUME NEW t \in Trees, t \in SortedTrees, NEW n \in Inners(t),
           NEW j \in 1..Arity(t.spec), t.kids[n][j] \in t.nodes
    PROVE  IsOrder(t.spec.inner_spec, Step(t, n, j), j - 1)
<1> DEFINE op    == Step(t, n, j)
           spec  == t.spec.inner_spec
           width == spec.child_size
           arity == Arity(t.spec)
           off   == t.offset[n]
           b     == j - 1
<1>1. IsOverSlot(t, n, op, t.kids[n][j], j)
  BY StepOfChild
<1>2. /\ width \in Nat /\ arity \in Nat /\ arity >= 1
      /\ spec.min_prefix_length \in Nat /\ spec.max_prefix_length \in Nat
  BY TreeLayout
<1>3. b \in 0..(arity - 1) /\ b \in Int /\ j = b + 1
  BY <1>2
<1>4. LastBranch(spec) = arity - 1
  BY DEF LastBranch, Arity
<1>5. off \in Nat /\ off \in spec.min_prefix_length..spec.max_prefix_length
  <2>1. WellFormedInner(t, n)
    BY NodeHash DEF Inners
  <2> QED
    BY <2>1, OffsetType DEF WellFormedInner
<1>6. HasPadding(spec, op, b)
  <2>1. /\ Len(op.prefix) = off + b * width
        /\ Len(op.suffix) = (arity - j) * width
    BY <1>1 DEF IsOverSlot, ChildOffset
  <2>2. (arity - j) * width = (LastBranch(spec) - b) * width
    BY <1>2, <1>3, <1>4
  <2>3. b * width \in Nat
    BY <1>2, <1>3
  <2>4. Len(op.prefix) \in (b * width + spec.min_prefix_length)..
                           (b * width + spec.max_prefix_length)
    <3> DEFINE a == b * width
               min == spec.min_prefix_length
               max == spec.max_prefix_length
               p == Len(op.prefix)
    <3>1. a \in Nat /\ p = off + a /\ off \in min..max /\ min \in Nat /\ max \in Nat
      BY <1>2, <1>5, <2>1, <2>3
    <3> HIDE DEF a, min, max, p, off
    <3>2. p \in (a + min)..(a + max)
      BY <1>5, <3>1
    <3> QED
      BY <3>2 DEF a, min, max, p
  <2> QED
    BY <2>1, <2>2, <2>4 DEF HasPadding
<1>7. b \in Padded(spec, op)
  BY <1>3, <1>4, <1>6 DEF Padded
<1>8. \A c \in Padded(spec, op) : b <= c
  <2> SUFFICES ASSUME NEW c \in Padded(spec, op) PROVE b <= c
    OBVIOUS
  <2>1. c \in Int /\ HasPadding(spec, op, c)
    BY <1>2, <1>4 DEF Padded
  <2>2. j = c + 1
    BY <1>1, <2>1, PaddingTellsSlot
  <2> QED
    BY <2>1, <2>2
<1>9. \A c \in 0..b : HasBranch(spec, c)
  <2>1. Range(spec.child_order) = 0..(Len(spec.child_order) - 1)
    BY DEF SortedTrees, OrderedTree, IsOrdering
  <2>2. Range(spec.child_order) = 0..(arity - 1)
    BY <2>1 DEF Arity
  <2> QED
    BY <1>2, <1>3, <2>2 DEF HasBranch
<1> QED
  BY <1>7, <1>8, <1>9 DEF IsOrder

(* The bytes of a placeholder in a slot of two. *)
LEMMA PlaceholderBytes ==
    ASSUME NEW t \in Stores, NEW n \in Inners(t), NEW i \in 1..Arity(t.spec),
           t.kids[n][i] = None
    PROVE  LET spec == t.spec.inner_spec
           IN  /\ DigestLen(spec.hash) = spec.child_size
               /\ Len(spec.empty_child) = spec.child_size
               /\ \A b \in 1..spec.child_size :
                      t.image[n][ChildOffset(t, n, i) + b] = spec.empty_child[b]
<1>1. t \in Trees /\ IsStore(t)
  BY DEF Stores
<1>2. WellFormedInner(t, n)
  BY <1>1, NodeHash DEF Inners
<1>3. Len(t.spec.inner_spec.empty_child) = DigestLen(t.spec.inner_spec.hash)
  BY <1>2 DEF WellFormedInner
<1>4. None \in Range(t.kids[n])
  BY <1>1, KidsOf DEF Range
<1>5. Len(t.spec.inner_spec.empty_child) = t.spec.inner_spec.child_size
  BY <1>1, <1>4 DEF IsStore
<1>6. \A b \in 1..DigestLen(t.spec.inner_spec.hash) :
          t.image[n][ChildOffset(t, n, i) + b] = ChildHash(t, t.kids[n][i])[b]
  BY <1>2 DEF WellFormedInner
<1> QED
  BY <1>3, <1>5, <1>6 DEF ChildHash

(* Bytes of a string that are those of a placeholder. *)
LEMMA SlotOfBytes ==
    ASSUME NEW s, IsSequence(s), NEW e, IsSequence(e), NEW p \in Nat,
           p + Len(e) <= Len(s), \A b \in 1..Len(e) : s[p + b] = e[b]
    PROVE  SubSeq(s, p + 1, p + Len(e)) = e
<1> DEFINE a == p + 1
           c == p + Len(e)
           part == SubSeq(s, a, c)
<1>1. Len(e) \in Nat
  BY SequenceType
<1>2. /\ a \in Nat /\ c \in Nat /\ 1 <= a /\ a <= c + 1 /\ c <= Len(s)
      /\ c - a + 1 = Len(e) /\ \A b \in 1..Len(e) : a + b - 1 = p + b
  BY <1>1
<1> HIDE DEF a, c
<1>3. /\ IsSequence(part) /\ Len(part) = Len(e)
      /\ \A b \in 1..Len(e) : part[b] = s[a + b - 1]
  BY <1>2, SubSeqPart
<1> HIDE DEF part
<1>4. \A b \in 1..Len(e) : part[b] = e[b]
  BY <1>2, <1>3
<1>5. part = e
  BY <1>3, <1>4, EqualSequences
<1> QED
  BY <1>5 DEF part, a, c

(* All slots on the right of a branch have placeholders, however many.     *)
EmptyOnRight(spec, op) ==
    \E branch \in 0..LastBranch(spec) :
        /\ IsOrder(spec, op, branch)
        /\ branch # LastBranch(spec)
        /\ \A i \in 0..(LastBranch(spec) - branch - 1) :
               ChildBytes(spec, op.suffix, 0, i) = spec.empty_child

StepOnRightEdge(spec, op) == HasPadding(spec, op, LastBranch(spec)) \/ EmptyOnRight(spec, op)

RightEdge(spec, path, n) == \A k \in 1..n : StepOnRightEdge(spec, path[k])

(* A store's operation with placeholders only on one side of its slot.     *)
LEMMA RightEdgeStep ==
    ASSUME NEW t \in Stores, t \in SortedTrees, NEW n \in Inners(t),
           NEW j \in 1..Arity(t.spec), t.kids[n][j] \in t.nodes,
           \A i \in 1..Arity(t.spec) : i > j => t.kids[n][i] = None
    PROVE  /\ StepOnRightEdge(t.spec.inner_spec, Step(t, n, j))
           /\ NeighborsTold(t) => IsRightMostStep(t.spec.inner_spec, Step(t, n, j))
<1> DEFINE op    == Step(t, n, j)
           spec  == t.spec.inner_spec
           width == spec.child_size
           empty == spec.empty_child
           size  == DigestLen(spec.hash)
           arity == Arity(t.spec)
           from  == Len(op.prefix)
           last  == LastBranch(spec)
           b     == j - 1
<1>0. t \in Trees
  BY DEF Stores
<1>1. /\ arity \in Nat /\ j \in 1..arity /\ width \in Nat \ {0} /\ IsSequence(empty)
      /\ last = arity - 1 /\ t.offset[n] \in Nat
  BY <1>0, TreeLayout, OffsetType DEF LastBranch, Arity
<1>2. IsOrder(spec, op, b)
  BY <1>0, StepOrder
<1>3. b \in 0..last /\ (b = last <=> j = arity) /\ last - b - 1 = arity - j - 1
  <2> HIDE DEF arity, last
  <2> QED
    BY <1>1
<1>4. CASE j = arity
  <2>1. HasPadding(spec, op, last)
    BY <1>2, <1>3, <1>4 DEF IsOrder, Padded
  <2> QED
    BY <2>1 DEF IsRightMostStep, StepOnRightEdge
<1>5. CASE j # arity
  <2>1. /\ IsInnerOp(op) /\ from = ChildOffset(t, n, j) /\ from \in Nat
        /\ Len(op.suffix) = (arity - j) * width /\ Len(op.suffix) \in Nat
        /\ \A i \in 1..Len(op.suffix) : t.image[n][from + size + i] = op.suffix[i]
    BY <1>0, StepBytes
  <2>2. IsSequence(op.suffix)
    BY <2>1 DEF IsInnerOp
  <2>3. ASSUME NEW i \in 0..(last - b - 1)
        PROVE  ChildBytes(spec, op.suffix, 0, i) = empty
    <3> DEFINE s == j + 1 + i
               p == i * width
    <3>1. s \in 1..arity /\ s > j /\ i \in Nat /\ i + 1 <= arity - j
      <4> HIDE DEF arity, last, b, width
      <4> QED
        BY <1>1, <1>3
    <3>2. t.kids[n][s] = None
      BY <3>1
    <3>3. /\ size = width /\ Len(empty) = width
          /\ \A x \in 1..width : t.image[n][ChildOffset(t, n, s) + x] = empty[x]
      <4> HIDE DEF s
      <4> QED
        BY <1>0, <3>1, <3>2, PlaceholderBytes
    <3>4. p \in Nat /\ p + width <= Len(op.suffix)
      <4> DEFINE d == arity - j
      <4>1. d \in Nat /\ i \in Nat /\ i + 1 <= d /\ width \in Nat
        BY <1>1, <3>1
      <4> HIDE DEF d, width
      <4>2. i * width \in Nat /\ i * width + width <= d * width
        BY <4>1
      <4> HIDE DEF arity
      <4> QED
        BY <2>1, <4>2 DEF d
    <3>5. ChildOffset(t, n, s) = from + size + p
      <4> DEFINE off == t.offset[n]
                 u == (j - 1) * width
                 v == (s - 1) * width
      <4>1. off \in Nat /\ u \in Int /\ v = u + width + p /\ p \in Int
        <5>1. s - 1 = (j - 1) + 1 + i /\ j - 1 \in Int /\ i \in Int /\ width \in Int
          BY <1>1, <3>1
        <5> DEFINE w == width
                   y == j - 1
                   z == s - 1
        <5>2. z = y + 1 + i /\ y \in Int /\ i \in Int /\ w \in Int
          BY <5>1
        <5> HIDE DEF w, y, z
        <5>3. z * w = y * w + w + i * w /\ y * w \in Int /\ i * w \in Int
          BY <5>2
        <5> QED
          BY <1>1, <5>3 DEF w, y, z
      <4>2. ChildOffset(t, n, s) = off + v /\ from = off + u
        BY <2>1 DEF ChildOffset
      <4> HIDE DEF off, u, v, p, s, from, size, width
      <4>3. width \in Int /\ size = width
        BY <1>1, <3>3
      <4> QED
        BY <4>1, <4>2, <4>3
    <3>6. ASSUME NEW x \in 1..width PROVE op.suffix[p + x] = empty[x]
      <4>1. t.image[n][from + size + p + x] = empty[x]
        BY <3>3, <3>5
      <4>2. p + x \in 1..Len(op.suffix) /\ from + size + p + x = from + size + (p + x)
        <5> DEFINE len == Len(op.suffix)
        <5>1. /\ len \in Nat /\ from \in Nat /\ width \in Nat /\ size = width
              /\ p \in Nat /\ p + width <= len
          BY <1>1, <2>1, <3>3, <3>4
        <5> HIDE DEF len, p, from, size, width
        <5>2. p + x \in 1..len
          BY <5>1
        <5>3. from + size + p + x = from + size + (p + x)
          BY <5>1
        <5> QED
          BY <5>2, <5>3 DEF len
      <4>3. t.image[n][from + size + (p + x)] = op.suffix[p + x]
        BY <2>1, <4>2
      <4> HIDE DEF op, p, from, size, empty, width
      <4> QED
        BY <4>1, <4>2, <4>3
    <3>7. SubSeq(op.suffix, p + 1, p + width) = empty
      <4>1. Len(empty) = width /\ IsSequence(empty) /\ IsSequence(op.suffix)
        BY <1>1, <2>2, <3>3
      <4> HIDE DEF op, p, empty, width
      <4>2. p + Len(empty) <= Len(op.suffix)
        BY <3>4, <4>1
      <4>3. \A x \in 1..Len(empty) : op.suffix[p + x] = empty[x]
        BY <3>6, <4>1
      <4>4. p \in Nat
        BY <3>4
      <4>5. SubSeq(op.suffix, p + 1, p + Len(empty)) = empty
        BY <4>1, <4>2, <4>3, <4>4, SlotOfBytes
      <4> QED
        BY <4>1, <4>5
    <3>8. 0 + i * width + 1 = p + 1 /\ 0 + (i + 1) * width = p + width
      <4>1. i \in Int /\ width \in Int
        BY <1>1
      <4> HIDE DEF width
      <4> QED
        BY <4>1
    <3> HIDE DEF p, op
    <3> QED
      BY <3>7, <3>8 DEF ChildBytes
  <2>4. b # last
    BY <1>3, <1>5
  <2>5. EmptyOnRight(spec, op)
    <3> HIDE DEF op, spec, b, last
    <3> QED
      BY <1>2, <1>3, <2>3, <2>4 DEF EmptyOnRight, empty, last
  <2>6. ASSUME NeighborsTold(t) PROVE RightBranchesAreEmpty(spec, op)
    <3>1. j + 1 \in 1..arity /\ j + 1 > j
      <4> HIDE DEF arity
      <4> QED
        BY <1>1, <1>5
    <3>2. t.kids[n][j + 1] = None
      BY <3>1
    <3>3. None \in Range(t.kids[n])
      BY <1>0, <3>1, <3>2, KidsOf DEF Range
    <3>4. arity = 2
      BY <2>6, <3>3 DEF NeighborsTold
    <3>5. arity - j = 1
      <4> HIDE DEF arity
      <4> QED
        BY <1>1, <1>5, <3>4
    <3>6. Len(op.suffix) = width
      BY <1>1, <2>1, <3>5
    <3> HIDE DEF op, spec, b, last
    <3> QED
      BY <1>2, <1>3, <2>3, <2>4, <3>6 DEF RightBranchesAreEmpty, empty, last, width
  <2> QED
    BY <2>5, <2>6 DEF IsRightMostStep, StepOnRightEdge
<1> QED
  BY <1>4, <1>5

LEMMA LeftEdgeStep ==
    ASSUME NEW t \in Stores, t \in SortedTrees, NEW n \in Inners(t),
           NEW j \in 1..Arity(t.spec), t.kids[n][j] \in t.nodes,
           \A i \in 1..Arity(t.spec) : i < j => t.kids[n][i] = None
    PROVE  IsLeftMostStep(t.spec.inner_spec, Step(t, n, j))
<1> DEFINE op    == Step(t, n, j)
           spec  == t.spec.inner_spec
           width == spec.child_size
           empty == spec.empty_child
           arity == Arity(t.spec)
           off   == t.offset[n]
           b     == j - 1
           from  == Len(op.prefix) - b * width
<1>0. t \in Trees
  BY DEF Stores
<1>1. /\ arity \in Nat /\ j \in 1..arity /\ width \in Nat \ {0} /\ IsSequence(empty)
      /\ LastBranch(spec) = arity - 1 /\ off \in Nat
  BY <1>0, TreeLayout, OffsetType DEF LastBranch, Arity
<1>2. IsOrder(spec, op, b)
  BY <1>0, StepOrder
<1>3. b \in 0..LastBranch(spec) /\ b \in Nat /\ b + 1 = j
  BY <1>1
<1>4. CASE j = 1
  <2>1. HasPadding(spec, op, 0)
    BY <1>2, <1>4 DEF IsOrder, Padded
  <2> QED
    BY <2>1 DEF IsLeftMostStep
<1>5. CASE j # 1
  <2>1. /\ IsInnerOp(op) /\ Len(op.prefix) = ChildOffset(t, n, j)
        /\ Len(op.prefix) \in Nat
        /\ \A i \in 1..Len(op.prefix) : t.image[n][i] = op.prefix[i]
    BY <1>0, StepBytes
  <2>2. IsSequence(op.prefix)
    BY <2>1 DEF IsInnerOp
  <2>3. from = off /\ Len(op.prefix) = off + b * width
    <3> DEFINE u == b * width
               len == Len(op.prefix)
    <3>1. u \in Nat /\ off \in Nat
      <4>1. b \in Nat /\ width \in Nat
        BY <1>1, <1>3
      <4> HIDE DEF b, width
      <4> QED
        BY <1>1, <4>1
    <3>3. len = off + u
      BY <2>1 DEF ChildOffset
    <3> HIDE DEF u, len, off
    <3>2. len - u = off
      BY <3>1, <3>3
    <3> QED
      BY <3>2, <3>3 DEF u, len
  <2> HIDE DEF from
  <2>4. ASSUME NEW i \in 0..(b - 1)
        PROVE  ChildBytes(spec, op.prefix, from, i) = empty
    <3> DEFINE s == i + 1
               p == off + i * width
    <3>1. s \in 1..arity /\ s < j /\ i \in Nat /\ i + 1 <= b
      <4> HIDE DEF arity, b
      <4> QED
        BY <1>1, <1>3
    <3>2. t.kids[n][s] = None
      BY <3>1
    <3>3. /\ Len(empty) = width
          /\ \A x \in 1..width : t.image[n][ChildOffset(t, n, s) + x] = empty[x]
      <4> HIDE DEF s
      <4> QED
        BY <1>0, <3>1, <3>2, PlaceholderBytes
    <3>4. p \in Nat /\ p + width <= Len(op.prefix)
      <4>1. off \in Nat /\ i \in Nat /\ i + 1 <= b /\ width \in Nat /\ b \in Nat
        BY <1>1, <1>3, <3>1
      <4> HIDE DEF b, width, off
      <4>2. i * width \in Nat /\ b * width \in Nat /\ i * width + width <= b * width
        BY <4>1
      <4> DEFINE u == i * width
                 v == b * width
      <4>3. u \in Nat /\ v \in Nat /\ u + width <= v /\ p = off + u
            /\ Len(op.prefix) = off + v
        BY <2>3, <4>2
      <4> HIDE DEF u, v, p, op
      <4> QED
        BY <4>1, <4>3
    <3>5. ChildOffset(t, n, s) = p
      <4>1. s - 1 = i
        BY <3>1
      <4> QED
        BY <4>1 DEF ChildOffset
    <3>6. ASSUME NEW x \in 1..width PROVE op.prefix[p + x] = empty[x]
      <4>1. t.image[n][p + x] = empty[x]
        BY <3>3, <3>5
      <4>2. p + x \in 1..Len(op.prefix)
        <5> DEFINE len == Len(op.prefix)
        <5>1. len \in Nat /\ width \in Nat /\ p + width <= len
          BY <1>1, <2>1, <3>4
        <5> HIDE DEF len, p, width
        <5>2. p + x \in 1..len
          BY <3>4, <5>1
        <5> QED
          BY <5>2 DEF len
      <4> HIDE DEF op, p, empty, width
      <4> QED
        BY <2>1, <4>1, <4>2
    <3>7. SubSeq(op.prefix, p + 1, p + width) = empty
      <4>1. Len(empty) = width /\ IsSequence(empty) /\ IsSequence(op.prefix)
        BY <1>1, <2>2, <3>3
      <4> HIDE DEF op, p, empty, width
      <4>2. p + Len(empty) <= Len(op.prefix)
        BY <3>4, <4>1
      <4>3. \A x \in 1..Len(empty) : op.prefix[p + x] = empty[x]
        BY <3>6, <4>1
      <4>4. p \in Nat
        BY <3>4
      <4>5. SubSeq(op.prefix, p + 1, p + Len(empty)) = empty
        BY <4>1, <4>2, <4>3, <4>4, SlotOfBytes
      <4> QED
        BY <4>1, <4>5
    <3>8. from + i * width + 1 = p + 1 /\ from + (i + 1) * width = p + width
      <4>1. i \in Int /\ width \in Int /\ off \in Int /\ from = off
        BY <1>1, <2>3
      <4> HIDE DEF width, off
      <4> QED
        BY <4>1
    <3> HIDE DEF p, op
    <3> QED
      BY <3>7, <3>8 DEF ChildBytes
  <2>5. from >= 0 /\ b # 0
    BY <1>1, <1>3, <1>5, <2>3
  <2>6. LeftBranchesAreEmpty(spec, op)
    <3> HIDE DEF op, spec, b
    <3> QED
      BY <1>2, <1>3, <2>4, <2>5 DEF LeftBranchesAreEmpty, empty, from, width
  <2> QED
    BY <2>6 DEF IsLeftMostStep
<1> QED
  BY <1>4, <1>5

(* The leaf that a path comes from is below all its nodes, and so is what  *)
(* is below an earlier one.                                                *)
LEMMA ClimbBelow ==
    ASSUME NEW t, IsOrderedStore(t), NEW n \in t.leaves,
           NEW path, NEW via, NEW slot, IsClimb(t, n, path, via, slot)
    PROVE  \A m \in 0..Len(path) :
               /\ n \in t.below[via[m]]
               /\ \A k \in 0..m : t.below[via[k]] \subseteq t.below[via[m]]
<1> DEFINE len == Len(path)
           X == {m \in 0..len : \A k \in 0..m : t.below[via[k]] \subseteq t.below[via[m]]}
<1>0. len \in Nat /\ via[0] = n /\ t \in Trees /\ t \in SortedTrees
  BY OrderedStoreFacts DEF IsClimb
<1>1. ASSUME NEW k \in 1..len PROVE t.below[via[k - 1]] \subseteq t.below[via[k]]
  <2>1. /\ via[k] \in Inners(t) /\ slot[k] \in 1..Arity(t.spec)
        /\ t.kids[via[k]][slot[k]] = via[k - 1]
    BY DEF IsClimb
  <2>2. k - 1 \in 0..len
    BY <1>0
  <2>3. via[k - 1] \in t.nodes
    BY <2>2 DEF IsClimb
  <2>4. via[k - 1] # None
    BY <1>0, <2>1, <2>3, KidsOf
  <2> HIDE DEF len
  <2> QED
    BY <2>1, <2>4, ChildBelow
<1> HIDE DEF len
<1>2. 0 \in X
  <2>1. \A k \in 0..0 : k = 0
    OBVIOUS
  <2> QED
    BY <1>0, <2>1
<1>3. ASSUME NEW m \in 0..(len - 1), m \in X PROVE m + 1 \in X
  <2>1. m + 1 \in 1..len /\ (m + 1) - 1 = m /\ m + 1 \in 0..len
    BY <1>0
  <2>2. t.below[via[m]] \subseteq t.below[via[m + 1]]
    BY <1>1, <2>1
  <2>3. ASSUME NEW k \in 0..(m + 1) PROVE t.below[via[k]] \subseteq t.below[via[m + 1]]
    <3>1. k \in 0..m \/ k = m + 1
      OBVIOUS
    <3> QED
      BY <1>3, <2>2, <3>1
  <2> QED
    BY <2>1, <2>3
<1>4. \A m \in 0..len : m \in X
  <2> HIDE DEF X
  <2> QED
    BY <1>0, <1>2, <1>3, BoundedInduction
<1>5. ASSUME NEW m \in 0..len PROVE n \in t.below[via[m]]
  <2>1. 0 \in 0..m
    BY <1>0
  <2>2. t.below[via[0]] \subseteq t.below[via[m]]
    BY <1>4, <2>1
  <2>3. t.below[n] = {n}
    BY <1>0, OnlyLeaf
  <2> QED
    BY <1>0, <2>2, <2>3
<1> QED
  BY <1>4, <1>5 DEF len

(* The steps under a node are on its right edge if the leaf is the last    *)
(* below it, and on its left edge if it is the first.                      *)
LEMMA EdgeOnRight ==
    ASSUME NEW t, IsOrderedStore(t), NEW n \in t.leaves,
           NEW path, NEW via, NEW slot, IsClimb(t, n, path, via, slot),
           NEW d \in 0..Len(path), IsLast(t, via[d], n)
    PROVE  /\ RightEdge(t.spec.inner_spec, path, d)
           /\ NeighborsTold(t) => RightMost(t.spec.inner_spec, path, d)
<1>0. /\ t \in Stores /\ t \in Trees /\ t \in SortedTrees
      /\ t.leaves \subseteq t.nodes /\ Len(path) \in Nat
  BY OrderedStoreFacts DEF IsClimb
<1> SUFFICES ASSUME NEW k \in 1..d
             PROVE  /\ StepOnRightEdge(t.spec.inner_spec, path[k])
                    /\ NeighborsTold(t) => IsRightMostStep(t.spec.inner_spec, path[k])
  BY DEF RightMost, RightEdge
<1>1. k \in 1..Len(path) /\ k - 1 \in 0..Len(path) /\ k \in 0..d
  BY <1>0
<1> DEFINE v == via[k]
           j == slot[k]
           c == via[k - 1]
<1>2. /\ v \in Inners(t) /\ j \in 1..Arity(t.spec) /\ t.kids[v][j] = c
      /\ c \in t.nodes /\ path[k] = Step(t, v, j)
  BY <1>1 DEF IsClimb
<1>3. n \in t.below[c] /\ t.below[v] \subseteq t.below[via[d]]
  BY <1>0, <1>1, ClimbBelow
<1> HIDE DEF v, j, c
<1>4. ASSUME NEW i \in 1..Arity(t.spec), i > j, t.kids[v][i] # None PROVE FALSE
  <2> DEFINE s == t.kids[v][i]
  <2>1. /\ s \in t.nodes /\ t.below[s] \subseteq t.below[v]
        /\ Below(t, s) = t.below[s]
    BY <1>1, <1>2, <1>4, ChildBelow
  <2>2. c # None
    BY <1>0, <1>2, KidsOf
  <2>3. Below(t, t.kids[v][j]) = t.below[c]
    BY <1>2, <2>2 DEF Below
  <2> HIDE DEF s
  <2>4. PICK x \in t.below[s] : x \in t.leaves
    BY <2>1, LeavesOfNode
  <2>5. Ahead(t, n, x)
    <3>1. j < i
      BY <1>2, <1>4
    <3>2. \A y \in Below(t, t.kids[v][j]) : \A z \in Below(t, t.kids[v][i]) :
              Ahead(t, y, z)
      BY <1>0, <1>2, <3>1, LeavesBelow
    <3> QED
      BY <1>3, <2>1, <2>3, <2>4, <3>2 DEF s
  <2>6. x = n \/ Ahead(t, x, n)
    BY <1>3, <2>1, <2>4 DEF IsLast
  <2> QED
    BY <2>4, <2>5, <2>6 DEF IsOrderedStore
<1> QED
  BY <1>0, <1>2, <1>4, RightEdgeStep

LEMMA EdgeOnLeft ==
    ASSUME NEW t, IsOrderedStore(t), NEW n \in t.leaves,
           NEW path, NEW via, NEW slot, IsClimb(t, n, path, via, slot),
           NEW d \in 0..Len(path), IsFirst(t, via[d], n)
    PROVE  LeftMost(t.spec.inner_spec, path, d)
<1>0. /\ t \in Stores /\ t \in Trees /\ t \in SortedTrees
      /\ t.leaves \subseteq t.nodes /\ Len(path) \in Nat
  BY OrderedStoreFacts DEF IsClimb
<1> SUFFICES ASSUME NEW k \in 1..d
             PROVE  IsLeftMostStep(t.spec.inner_spec, path[k])
  BY DEF LeftMost
<1>1. k \in 1..Len(path) /\ k - 1 \in 0..Len(path) /\ k \in 0..d
  BY <1>0
<1> DEFINE v == via[k]
           j == slot[k]
           c == via[k - 1]
<1>2. /\ v \in Inners(t) /\ j \in 1..Arity(t.spec) /\ t.kids[v][j] = c
      /\ c \in t.nodes /\ path[k] = Step(t, v, j)
  BY <1>1 DEF IsClimb
<1>3. n \in t.below[c] /\ t.below[v] \subseteq t.below[via[d]]
  BY <1>0, <1>1, ClimbBelow
<1> HIDE DEF v, j, c
<1>4. ASSUME NEW i \in 1..Arity(t.spec), i < j, t.kids[v][i] # None PROVE FALSE
  <2> DEFINE s == t.kids[v][i]
  <2>1. /\ s \in t.nodes /\ t.below[s] \subseteq t.below[v]
        /\ Below(t, s) = t.below[s]
    BY <1>1, <1>2, <1>4, ChildBelow
  <2>2. c # None
    BY <1>0, <1>2, KidsOf
  <2>3. Below(t, t.kids[v][j]) = t.below[c]
    BY <1>2, <2>2 DEF Below
  <2> HIDE DEF s
  <2>4. PICK x \in t.below[s] : x \in t.leaves
    BY <2>1, LeavesOfNode
  <2>5. Ahead(t, x, n)
    <3>1. \A y \in Below(t, t.kids[v][i]) : \A z \in Below(t, t.kids[v][j]) :
              Ahead(t, y, z)
      BY <1>0, <1>2, <1>4, LeavesBelow
    <3> QED
      BY <1>3, <2>1, <2>3, <2>4, <3>1 DEF s
  <2>6. x = n \/ Ahead(t, n, x)
    BY <1>3, <2>1, <2>4 DEF IsFirst
  <2> QED
    BY <2>4, <2>5, <2>6 DEF IsOrderedStore
<1> QED
  BY <1>0, <1>2, <1>4, LeftEdgeStep

(* The paths of two neighboring leaves: they go up to the same node over   *)
(* its two children, and keep to the inner edges below these.              *)
NothingIn(t, a, b) ==
    \A x \in t.leaves : x = a \/ Ahead(t, x, a) \/ x = b \/ Ahead(t, b, x)

LEMMA ClimbsMeet ==
    ASSUME NEW t, IsOrderedStore(t), NEW a \in t.leaves, NEW b \in t.leaves,
           NEW p, NEW via, NEW slot, IsClimb(t, a, p, via, slot),
           NEW q, NEW way, NEW place, IsClimb(t, b, q, way, place),
           NEW n \in Nat, n <= Len(p), n <= Len(q),
           \A i \in 0..(n - 1) : SameFromTop(p, q, i)
    PROVE  via[Len(p) - n] = way[Len(q) - n]
<1> DEFINE u(i) == via[Len(p) - i]
           w(i) == way[Len(q) - i]
           X == {i \in 0..n : u(i) = w(i)}
<1>0. /\ t \in Stores /\ t \in Trees /\ a \in t.nodes /\ b \in t.nodes
      /\ Len(p) \in Nat /\ Len(q) \in Nat
      /\ via[Len(p)] = t.root /\ way[Len(q)] = t.root
  BY OrderedStoreFacts DEF IsClimb
<1>1. 0 \in X
  <2>1. Len(p) - 0 = Len(p) /\ Len(q) - 0 = Len(q)
    BY <1>0
  <2> QED
    BY <1>0, <2>1
<1>2. ASSUME NEW i \in 0..(n - 1), i \in X PROVE i + 1 \in X
  <2> DEFINE x == Len(p) - i
             y == Len(q) - i
  <2>1. /\ x \in 1..Len(p) /\ x - 1 = Len(p) - (i + 1)
        /\ y \in 1..Len(q) /\ y - 1 = Len(q) - (i + 1) /\ i + 1 \in 0..n
    <3> DEFINE lp == Len(p)
               lq == Len(q)
    <3>1. lp \in Nat /\ lq \in Nat /\ n <= lp /\ n <= lq /\ i \in 0..(n - 1)
      BY <1>0
    <3> HIDE DEF X, u, w, lp, lq
    <3>2. lp - i \in 1..lp /\ (lp - i) - 1 = lp - (i + 1)
      BY <3>1
    <3>3. lq - i \in 1..lq /\ (lq - i) - 1 = lq - (i + 1)
      BY <3>1
    <3>4. i + 1 \in 0..n
      BY <3>1
    <3> QED
      BY <3>2, <3>3, <3>4 DEF lp, lq
  <2>2. p[x].prefix = q[y].prefix /\ via[x] = way[y]
    BY <1>2 DEF SameFromTop
  <2> HIDE DEF x, y
  <2>3. IsOverSlot(t, via[x], p[x], via[x - 1], slot[x]) /\ via[x] \in Inners(t)
    BY <1>0, <2>1, ClimbSteps DEF IsClimb
  <2>4. IsOverSlot(t, way[y], q[y], way[y - 1], place[y])
    BY <1>0, <2>1, ClimbSteps
  <2>5. via[x - 1] = way[y - 1]
    BY <1>0, <2>2, <2>3, <2>4, PrefixTellsSlot
  <2> QED
    BY <2>1, <2>5
<1>3. \A i \in 0..n : i \in X
  <2> HIDE DEF X
  <2> QED
    BY <1>1, <1>2, BoundedInduction
<1> QED
  BY <1>3

LEMMA ClimbsOfNeighbors ==
    ASSUME NEW t, IsOrderedStore(t), NeighborsTold(t),
           NEW a \in t.leaves, NEW b \in t.leaves, Ahead(t, a, b), NothingIn(t, a, b),
           NEW p, NEW via, NEW slot, IsClimb(t, a, p, via, slot),
           NEW q, NEW way, NEW place, IsClimb(t, b, q, way, place)
    PROVE  AreNeighbors(t.spec.inner_spec, p, q)
<1> DEFINE n == CommonTop(p, q)
           x == Len(p) - n
           y == Len(q) - n
<1>0. /\ t \in Stores /\ t \in Trees /\ t \in SortedTrees /\ t.leaves \subseteq t.nodes
      /\ Len(p) \in Nat /\ Len(q) \in Nat /\ via[0] = a /\ way[0] = b
      /\ a \notin Inners(t) /\ b \notin Inners(t)
  BY OrderedStoreFacts DEF IsClimb, Inners
<1>1. /\ \A z \in t.leaves : ~Ahead(t, z, z)
      /\ \A z, v, w \in t.leaves : Ahead(t, z, v) /\ Ahead(t, v, w) => Ahead(t, z, w)
      /\ a # b
  BY DEF IsOrderedStore
<1>2. IsCommonTop(p, q, n)
  BY <1>0, CommonTopExists
<1>3. /\ n \in Nat /\ n <= Len(p) /\ n <= Len(q)
      /\ \A i \in 0..(n - 1) : SameFromTop(p, q, i)
      /\ n < Len(p) /\ n < Len(q) => ~SameFromTop(p, q, n)
  BY <1>0, <1>2 DEF IsCommonTop
<1> HIDE DEF n
<1>4. via[x] = way[y] /\ x \in 0..Len(p) /\ y \in 0..Len(q)
  <2>1. via[x] = way[y]
    BY <1>0, <1>3, ClimbsMeet
  <2>2. x \in 0..Len(p) /\ y \in 0..Len(q)
    <3> DEFINE lp == Len(p)
               lq == Len(q)
    <3>1. lp \in Nat /\ lq \in Nat /\ n \in Nat /\ n <= lp /\ n <= lq
      BY <1>0, <1>3
    <3> HIDE DEF lp, lq
    <3>2. lp - n \in 0..lp
      BY <3>1
    <3>3. lq - n \in 0..lq
      BY <3>1
    <3> QED
      BY <3>2, <3>3 DEF lp, lq
  <2> QED
    BY <2>1, <2>2
<1>5. n < Len(p) /\ n < Len(q)
  <2>1. x \in 1..Len(p) => via[x] \in Inners(t)
    BY DEF IsClimb
  <2>2. y \in 1..Len(q) => way[y] \in Inners(t)
    BY DEF IsClimb
  <2>3. x \in 1..Len(p) /\ y \in 1..Len(q)
    <3> HIDE DEF x, y
    <3>1. x = 0 \/ x \in 1..Len(p)
      BY <1>0, <1>4
    <3>2. y = 0 \/ y \in 1..Len(q)
      BY <1>0, <1>4
    <3> QED
      BY <1>0, <1>1, <1>4, <2>1, <2>2, <3>1, <3>2
  <2> QED
    BY <1>0, <1>3, <2>3
<1> DEFINE i == slot[x]
           j == place[y]
           v == via[x]
           c == via[x - 1]
           e == way[y - 1]
<1>6. /\ x \in 1..Len(p) /\ y \in 1..Len(q)
      /\ x - 1 \in 0..Len(p) /\ y - 1 \in 0..Len(q)
      /\ x - 1 = Len(p) - n - 1 /\ y - 1 = Len(q) - n - 1
  BY <1>0, <1>3, <1>5
<1>7. ~(p[x].prefix = q[y].prefix /\ p[x].suffix = q[y].suffix)
  BY <1>3, <1>5 DEF SameFromTop
<1> HIDE DEF x, y
<1>8. /\ v \in Inners(t) /\ i \in 1..Arity(t.spec) /\ t.kids[v][i] = c /\ c \in t.nodes
      /\ p[x] = Step(t, v, i)
  BY <1>6 DEF IsClimb
<1>9. /\ j \in 1..Arity(t.spec) /\ t.kids[v][j] = e /\ e \in t.nodes
      /\ q[y] = Step(t, v, j)
  BY <1>4, <1>6 DEF IsClimb
<1>10. a \in t.below[c] /\ b \in t.below[e]
  BY <1>6, ClimbBelow
<1> HIDE DEF i, j, v, c, e
<1>11. Below(t, t.kids[v][i]) = t.below[c] /\ Below(t, t.kids[v][j]) = t.below[e]
  <2>1. c # None /\ e # None
    BY <1>0, <1>8, <1>9, KidsOf
  <2> QED
    BY <1>8, <1>9, <2>1 DEF Below
<1>12. \A k, l \in 1..Arity(t.spec) : k < l =>
           \A z \in Below(t, t.kids[v][k]) : \A w \in Below(t, t.kids[v][l]) :
               Ahead(t, z, w)
  BY <1>0, <1>8, LeavesBelow
<1>13. i < j
  <2>1. i # j
    BY <1>7, <1>8, <1>9
  <2>2. ~(j < i)
    <3> SUFFICES ASSUME j < i PROVE FALSE
      OBVIOUS
    <3>1. Ahead(t, b, a)
      BY <1>8, <1>9, <1>10, <1>11, <1>12
    <3> QED
      BY <1>1, <3>1
  <2>3. i \in Int /\ j \in Int
    BY <1>8, <1>9
  <2> QED
    BY <2>1, <2>2, <2>3
<1>14. \A z \in t.below[c], w \in t.below[e] : Ahead(t, z, w)
  BY <1>8, <1>9, <1>11, <1>12, <1>13
<1>15. t.below[c] \subseteq t.leaves /\ t.below[e] \subseteq t.leaves
  BY <1>8, <1>9, LeavesOfNode
<1>16. j = i + 1
  <2> DEFINE s == i + 1
  <2> SUFFICES ASSUME s < j PROVE FALSE
    BY <1>8, <1>9, <1>13
  <2>1. s \in 1..Arity(t.spec) /\ i < s
    <3>1. Arity(t.spec) \in Nat
      BY <1>0, TreeLayout
    <3> QED
      BY <1>8, <1>9, <3>1
  <2> HIDE DEF s
  <2>2. CASE t.kids[v][s] = None
    <3>1. None \in Range(t.kids[v])
      BY <1>0, <1>8, <2>1, <2>2, KidsOf DEF Range
    <3>2. Arity(t.spec) = 2
      BY <1>8, <3>1 DEF NeighborsTold
    <3> QED
      BY <1>8, <1>9, <2>1, <3>2 DEF s
  <2>3. CASE t.kids[v][s] # None
    <3>1. /\ t.kids[v][s] \in t.nodes
          /\ Below(t, t.kids[v][s]) = t.below[t.kids[v][s]]
      BY <1>8, <2>1, <2>3, ChildBelow
    <3>2. PICK z \in t.below[t.kids[v][s]] : z \in t.leaves
      BY <3>1, LeavesOfNode
    <3>3. Ahead(t, a, z) /\ Ahead(t, z, b)
      BY <1>8, <1>9, <1>10, <1>11, <1>12, <2>1, <3>1, <3>2
    <3> QED
      BY <1>1, <3>2, <3>3 DEF NothingIn
  <2> QED
    BY <2>2, <2>3
<1>17. IsLeftStep(t.spec.inner_spec, p[x], q[y])
  <2>1. LastBranch(t.spec.inner_spec) = Arity(t.spec) - 1
    BY DEF LastBranch, Arity
  <2>2. Arity(t.spec) \in Nat
    BY <1>0, TreeLayout
  <2>3. IsOrder(t.spec.inner_spec, p[x], i - 1)
    BY <1>0, <1>8, StepOrder
  <2>4. IsOrder(t.spec.inner_spec, q[y], j - 1)
    BY <1>0, <1>8, <1>9, StepOrder
  <2>5. i - 1 \in 0..LastBranch(t.spec.inner_spec) /\ (i - 1) + 1 = j - 1
    BY <1>8, <1>9, <1>16, <2>1, <2>2
  <2> QED
    BY <2>3, <2>4, <2>5 DEF IsLeftStep
<1>18. RightMost(t.spec.inner_spec, p, x - 1)
  <2>1. ASSUME NEW z \in t.below[c] PROVE z = a \/ Ahead(t, z, a)
    <3>1. Ahead(t, z, b) /\ z \in t.leaves
      BY <1>10, <1>14, <1>15
    <3> QED
      BY <1>1, <3>1 DEF NothingIn
  <2>2. IsLast(t, via[x - 1], a)
    BY <1>10, <2>1 DEF IsLast, c
  <2> QED
    BY <1>6, <2>2, EdgeOnRight
<1>19. LeftMost(t.spec.inner_spec, q, y - 1)
  <2>1. ASSUME NEW z \in t.below[e] PROVE z = b \/ Ahead(t, b, z)
    <3>1. Ahead(t, a, z) /\ z \in t.leaves
      BY <1>10, <1>14, <1>15
    <3> QED
      BY <1>1, <3>1 DEF NothingIn
  <2>2. IsFirst(t, way[y - 1], b)
    BY <1>10, <2>1 DEF IsFirst, e
  <2> QED
    BY <1>6, <2>2, EdgeOnLeft
<1> QED
  BY <1>5, <1>6, <1>17, <1>18, <1>19 DEF AreNeighbors, n, x, y

-----------------------------------------------------------------------------
(* The store's proof of absence.                                           *)

LEMMA LastOfLeaves ==
    ASSUME NEW t, IsOrderedStore(t), NEW S, S \subseteq t.leaves, S # {}
    PROVE  /\ \E n \in S : \A m \in S : m = n \/ Ahead(t, m, n)
           /\ \E n \in S : \A m \in S : m = n \/ Ahead(t, n, m)
<1> DEFINE up   == {x \in t.leaves \X t.leaves : Ahead(t, x[1], x[2])}
           down == {x \in t.leaves \X t.leaves : Ahead(t, x[2], x[1])}
<1>1. IsFiniteSet(S)
  <2>1. IsFiniteSet(t.leaves)
    BY DEF IsOrderedStore, Stores, IsStore
  <2> QED
    BY <2>1, FS_Subset
<1>2. \A x, y \in t.leaves : x = y \/ Ahead(t, x, y) \/ Ahead(t, y, x)
  BY OrderedStoreFacts, LeavesOfNode
<1>3. \A x, y, z \in t.leaves : Ahead(t, x, y) /\ Ahead(t, y, z) => Ahead(t, x, z)
  BY DEF IsOrderedStore
<1>4. /\ \A x, y \in t.leaves : <<x, y>> \in up <=> Ahead(t, x, y)
      /\ \A x, y \in t.leaves : <<x, y>> \in down <=> Ahead(t, y, x)
  OBVIOUS
<1> HIDE DEF up, down
<1>5. IsLinear(up, S)
  BY <1>2, <1>3, <1>4 DEF IsLinear
<1>6. IsLinear(down, S)
  BY <1>2, <1>3, <1>4 DEF IsLinear
<1>7. PICK n \in S : \A m \in S : m = n \/ <<m, n>> \in up
  BY <1>1, <1>5, LastOfFinite
<1>8. PICK k \in S : \A m \in S : m = k \/ <<m, k>> \in down
  BY <1>1, <1>6, LastOfFinite
<1> QED
  BY <1>4, <1>7, <1>8

LEMMA NeighborsOfKey ==
    ASSUME NEW t, IsOrderedStore(t), NEW key
    PROVE  /\ LeavesBefore(t, key) # {} =>
                  /\ LastBefore(t, key) \in LeavesBefore(t, key)
                  /\ \A m \in LeavesBefore(t, key) :
                         m = LastBefore(t, key) \/ Ahead(t, m, LastBefore(t, key))
           /\ LeavesAfter(t, key) # {} =>
                  /\ FirstAfter(t, key) \in LeavesAfter(t, key)
                  /\ \A m \in LeavesAfter(t, key) :
                         m = FirstAfter(t, key) \/ Ahead(t, FirstAfter(t, key), m)
<1> DEFINE S == LeavesBefore(t, key)
           T == LeavesAfter(t, key)
<1>1. S \subseteq t.leaves /\ T \subseteq t.leaves
  BY DEF LeavesBefore, LeavesAfter
<1>2. /\ LastBefore(t, key)
             = CHOOSE n \in S : \A m \in S : m = n \/ Ahead(t, m, n)
      /\ FirstAfter(t, key)
             = CHOOSE n \in T : \A m \in T : m = n \/ Ahead(t, n, m)
  BY DEF LastBefore, FirstAfter, Ahead
<1> HIDE DEF S, T
<1>3. S # {} => \E n \in S : \A m \in S : m = n \/ Ahead(t, m, n)
  BY <1>1, LastOfLeaves
<1>4. T # {} => \E n \in T : \A m \in T : m = n \/ Ahead(t, n, m)
  BY <1>1, LastOfLeaves
<1>5. S # {} => /\ LastBefore(t, key) \in S
                /\ \A m \in S : m = LastBefore(t, key) \/ Ahead(t, m, LastBefore(t, key))
  BY <1>2, <1>3
<1>6. T # {} => /\ FirstAfter(t, key) \in T
                /\ \A m \in T : m = FirstAfter(t, key) \/ Ahead(t, FirstAfter(t, key), m)
  BY <1>2, <1>4
<1> QED
  BY <1>5, <1>6 DEF S, T

(* Two leaves, either of which may be missing, with none between them and  *)
(* none beyond one that stands alone; and their proofs.                    *)
ClosesOn(t, a, b) ==
    /\ a \in t.leaves \union {None} /\ b \in t.leaves \union {None}
    /\ a # None \/ b # None
    /\ a # None /\ b # None => Ahead(t, a, b) /\ NothingIn(t, a, b)
    /\ b = None => \A x \in t.leaves : x = a \/ Ahead(t, x, a)
    /\ a = None => \A x \in t.leaves : x = b \/ Ahead(t, b, x)

SideOf(t, n) == IF n = None THEN None ELSE HonestProof(t, n)

LEMMA SideVerifies ==
    ASSUME NEW t, IsOrderedStore(t), NEW n \in t.leaves
    PROVE  LET p == SideOf(t, n)
           IN  /\ n # None /\ p # None /\ p.key = t.key[n]
               /\ VerifiesExistence(p, t.spec, t.hash[t.root], p.key, p.value)
               /\ \E via, slot : IsClimb(t, n, p.path, via, slot)
<1> DEFINE p == HonestProof(t, n)
<1>1. t \in Stores /\ t \in Trees /\ t.leaves \subseteq t.nodes
  BY OrderedStoreFacts
<1>2. n # None
  BY <1>1, TreesAssumption DEF WellFormedTree
<1>3. p # None
  BY <1>1 DEF Stores, IsStore
<1>4. p.key = t.key[n] /\ p.value = t.value[n]
  BY DEF HonestProof
<1>5. VerifiesExistence(p, t.spec, t.hash[t.root], p.key, p.value)
  BY <1>1, <1>4, HonestVerifies
<1>6. \E via, slot : IsClimb(t, n, p.path, via, slot)
  BY <1>1, HonestClimb
<1> HIDE DEF p
<1>7. SideOf(t, n) = p
  BY <1>2 DEF SideOf, p
<1> QED
  BY <1>2, <1>3, <1>4, <1>5, <1>6, <1>7

(* One leaf that stands alone is on the edge of the tree. *)
LEMMA PairEdges ==
    ASSUME NEW t, IsOrderedStore(t), NEW a, NEW b, ClosesOn(t, a, b)
    PROVE  LET l == SideOf(t, a)
               r == SideOf(t, b)
               inner == t.spec.inner_spec
           IN  /\ b = None => /\ RightEdge(inner, l.path, Len(l.path))
                              /\ NeighborsTold(t) => RightMost(inner, l.path, Len(l.path))
               /\ a = None => LeftMost(inner, r.path, Len(r.path))
<1> DEFINE l == SideOf(t, a)
           r == SideOf(t, b)
           inner == t.spec.inner_spec
<1>0. t.below[t.root] = t.leaves
  BY OrderedStoreFacts
<1>1. ASSUME b = None
      PROVE  /\ RightEdge(inner, l.path, Len(l.path))
             /\ NeighborsTold(t) => RightMost(inner, l.path, Len(l.path))
  <2>1. a \in t.leaves
    BY <1>1 DEF ClosesOn
  <2>2. PICK via, slot : IsClimb(t, a, l.path, via, slot)
    BY <2>1, SideVerifies
  <2> HIDE DEF l, inner
  <2>3. via[Len(l.path)] = t.root /\ Len(l.path) \in 0..Len(l.path)
    BY <2>2 DEF IsClimb
  <2>4. IsLast(t, t.root, a)
    BY <1>0, <1>1, <2>1 DEF IsLast, ClosesOn
  <2> QED
    BY <2>1, <2>2, <2>3, <2>4, EdgeOnRight DEF inner
<1>2. ASSUME a = None PROVE LeftMost(inner, r.path, Len(r.path))
  <2>1. b \in t.leaves
    BY <1>2 DEF ClosesOn
  <2>2. PICK via, slot : IsClimb(t, b, r.path, via, slot)
    BY <2>1, SideVerifies
  <2> HIDE DEF r, inner
  <2>3. via[Len(r.path)] = t.root /\ Len(r.path) \in 0..Len(r.path)
    BY <2>2 DEF IsClimb
  <2>4. IsFirst(t, t.root, b)
    BY <1>0, <1>2, <2>1 DEF IsFirst, ClosesOn
  <2> QED
    BY <2>1, <2>2, <2>3, <2>4, EdgeOnLeft DEF inner
<1> QED
  BY <1>1, <1>2

LEMMA PairVerifies ==
    ASSUME NEW t, IsOrderedStore(t), NeighborsTold(t), NEW key,
           NEW a, NEW b, ClosesOn(t, a, b),
           a # None => Before(t.spec, t.key[a], key),
           b # None => Before(t.spec, key, t.key[b]),
           NEW proof, proof.left = SideOf(t, a), proof.right = SideOf(t, b)
    PROVE  VerifiesAbsence(proof, t.spec, t.hash[t.root], key)
<1> DEFINE l == SideOf(t, a)
           r == SideOf(t, b)
           inner == t.spec.inner_spec
<1>0. /\ t \in Trees /\ inner # None /\ t.below[t.root] = t.leaves
  BY OrderedStoreFacts, TreeLayout
<1>1. a # None => /\ a \in t.leaves /\ l # None /\ l.key = t.key[a]
                  /\ VerifiesExistence(l, t.spec, t.hash[t.root], l.key, l.value)
                  /\ \E via, slot : IsClimb(t, a, l.path, via, slot)
  BY SideVerifies DEF ClosesOn
<1>2. b # None => /\ b \in t.leaves /\ r # None /\ r.key = t.key[b]
                  /\ VerifiesExistence(r, t.spec, t.hash[t.root], r.key, r.value)
                  /\ \E via, slot : IsClimb(t, b, r.path, via, slot)
  BY SideVerifies DEF ClosesOn
<1>3. (a = None => l = None) /\ (b = None => r = None)
  BY DEF SideOf
<1>4. proof.left = l /\ proof.right = r
  OBVIOUS
<1> HIDE DEF l, r, inner
<1>5. CASE a # None /\ b # None
  <2>1. Ahead(t, a, b) /\ NothingIn(t, a, b)
    BY <1>5 DEF ClosesOn
  <2>2. PICK via, slot : IsClimb(t, a, l.path, via, slot)
    BY <1>1, <1>5
  <2>3. PICK way, place : IsClimb(t, b, r.path, way, place)
    BY <1>2, <1>5
  <2>4. AreNeighbors(inner, l.path, r.path)
    BY <1>1, <1>2, <1>5, <2>1, <2>2, <2>3, ClimbsOfNeighbors DEF inner
  <2> QED
    BY <1>0, <1>1, <1>2, <1>4, <1>5, <2>4 DEF VerifiesAbsence, inner
<1>6. CASE a # None /\ b = None
  <2>1. RightMost(inner, l.path, Len(l.path))
    BY <1>6, PairEdges DEF l, inner
  <2> QED
    BY <1>0, <1>1, <1>3, <1>4, <1>6, <2>1 DEF VerifiesAbsence, inner
<1>7. CASE a = None /\ b # None
  <2>1. LeftMost(inner, r.path, Len(r.path))
    BY <1>7, PairEdges DEF r, inner
  <2> QED
    BY <1>0, <1>2, <1>3, <1>4, <1>7, <2>1 DEF VerifiesAbsence, inner
<1> QED
  BY <1>5, <1>6, <1>7 DEF ClosesOn

(* The key has its place among the leaves, and is not one of theirs. *)
HasPlace(t, key) ==
    /\ \A n \in t.leaves :
           Before(t.spec, t.key[n], key) \/ Before(t.spec, key, t.key[n])
    /\ \A n, m \in t.leaves :
           Before(t.spec, t.key[n], key) /\ Before(t.spec, key, t.key[m]) => Ahead(t, n, m)

LEMMA AbsencePair ==
    ASSUME NEW t, IsOrderedStore(t), NEW key, HasPlace(t, key)
    PROVE  \E a, b :
               /\ ClosesOn(t, a, b)
               /\ a # None => Before(t.spec, t.key[a], key)
               /\ b # None => Before(t.spec, key, t.key[b])
               /\ HonestAbsence(t, key).proof.left = SideOf(t, a)
               /\ HonestAbsence(t, key).proof.right = SideOf(t, b)
<1> DEFINE S == LeavesBefore(t, key)
           T == LeavesAfter(t, key)
           last  == LastBefore(t, key)
           first == FirstAfter(t, key)
           a == IF S = {} THEN None ELSE last
           b == IF T = {} THEN None ELSE first
<1>0. /\ t.root \in t.nodes /\ t.below[t.root] = t.leaves
      /\ None \notin t.leaves
  BY OrderedStoreFacts, TreesAssumption DEF WellFormedTree
<1>1. \A n \in t.leaves : n \in S \/ n \in T
  BY DEF HasPlace, LeavesBefore, LeavesAfter
<1>2. S # {} => /\ last \in S /\ last \in t.leaves /\ Before(t.spec, t.key[last], key)
                /\ \A m \in S : m = last \/ Ahead(t, m, last)
  BY NeighborsOfKey DEF LeavesBefore
<1>3. T # {} => /\ first \in T /\ first \in t.leaves /\ Before(t.spec, key, t.key[first])
                /\ \A m \in T : m = first \/ Ahead(t, first, m)
  BY NeighborsOfKey DEF LeavesAfter
<1>4. HonestAbsence(t, key).proof.left = IF S = {} THEN None ELSE HonestProof(t, last)
  BY DEF HonestAbsence
<1>5. HonestAbsence(t, key).proof.right = IF T = {} THEN None ELSE HonestProof(t, first)
  BY DEF HonestAbsence
<1>6. S # {} \/ T # {}
  <2>1. t.leaves # {}
    BY <1>0, LeavesOfNode
  <2> QED
    BY <1>1, <2>1
<1> HIDE DEF S, T, last, first
<1>7. /\ a # None => a = last /\ S # {}
      /\ b # None => b = first /\ T # {}
      /\ a = None => S = {}
      /\ b = None => T = {}
  BY <1>0, <1>2, <1>3
<1>8. /\ HonestAbsence(t, key).proof.left = SideOf(t, a)
      /\ HonestAbsence(t, key).proof.right = SideOf(t, b)
  BY <1>0, <1>2, <1>3, <1>4, <1>5 DEF SideOf
<1> HIDE DEF a, b
<1>9. ClosesOn(t, a, b)
  <2>1. a \in t.leaves \union {None} /\ b \in t.leaves \union {None}
    BY <1>2, <1>3, <1>7
  <2>2. a # None \/ b # None
    BY <1>6, <1>7
  <2>3. a # None /\ b # None => Ahead(t, a, b) /\ NothingIn(t, a, b)
    BY <1>1, <1>2, <1>3, <1>7 DEF HasPlace, NothingIn
  <2>4. b = None => \A x \in t.leaves : x = a \/ Ahead(t, x, a)
    BY <1>1, <1>2, <1>6, <1>7
  <2>5. a = None => \A x \in t.leaves : x = b \/ Ahead(t, b, x)
    BY <1>1, <1>3, <1>6, <1>7
  <2> QED
    BY <2>1, <2>2, <2>3, <2>4, <2>5 DEF ClosesOn
<1> QED
  BY <1>2, <1>3, <1>7, <1>8, <1>9

LEMMA HonestAbsenceVerifies ==
    ASSUME NEW t, IsOrderedStore(t), NeighborsTold(t), NEW key, HasPlace(t, key)
    PROVE  VerifiesAbsence(HonestAbsence(t, key).proof, t.spec, t.hash[t.root], key)
<1> DEFINE proof == HonestAbsence(t, key).proof
<1>1. PICK a, b : /\ ClosesOn(t, a, b)
                  /\ a # None => Before(t.spec, t.key[a], key)
                  /\ b # None => Before(t.spec, key, t.key[b])
                  /\ proof.left = SideOf(t, a) /\ proof.right = SideOf(t, b)
  BY AbsencePair
<1> HIDE DEF proof
<1>2. VerifiesAbsence(proof, t.spec, t.hash[t.root], key)
  BY <1>1, PairVerifies
<1> QED
  BY <1>2 DEF proof
=============================================================================
