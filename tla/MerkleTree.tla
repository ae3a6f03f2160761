----------------------------- MODULE MerkleTree -----------------------------
(***************************************************************************)
(* The Merkle trees the proofs are about.  They belong to the stores that  *)
(* write the proofs (IAVL, Tendermint, sparse Merkle trees), not to this   *)
(* library, which only ever sees a root hash and a proof.  What is assumed *)
(* of them is what a ProofSpec says of their nodes.                        *)
(*                                                                         *)
(* A tree t is a record:                                                   *)
(*   spec    the ProofSpec its nodes are laid out by                       *)
(*   nodes, leaves, root      its nodes, those that are leaves, its root   *)
(*   leafop, key, value       how and what a leaf commits to               *)
(*   kids    the children of an inner node, left to right; None is a       *)
(*           placeholder, whose hash is the empty_child of the spec        *)
(*   offset  the bytes of an inner node in front of its first child's slot *)
(*   image   the byte string a node hashes, and hash, its digest           *)
(*   height  of a node, more than that of its children                     *)
(*   below   the leaves below a node (see OrderedTree)                     *)
(***************************************************************************)
EXTENDS ProofSpecs

CONSTANT Trees      \* the trees whose roots the callers trust

Inners(t) == t.nodes \ t.leaves

Arity(spec) == Len(spec.inner_spec.child_order)

ChildHash(t, c) == IF c = None THEN t.spec.inner_spec.empty_child ELSE t.hash[c]

(* Where the hash of child j begins in the image of inner node n. *)
ChildOffset(t, n, j) == t.offset[n] + (j - 1) * t.spec.inner_spec.child_size

-----------------------------------------------------------------------------
(* The specifications under which hashing separates leaves from inner      *)
(* nodes: a real hash function, the same for both; a leaf prefix that no   *)
(* inner node is short enough to avoid; and a placeholder that is no       *)
(* digest.                                                                 *)
IsSoundSpec(spec) ==
    /\ spec # None
    /\ spec.leaf_spec # None
    /\ spec.inner_spec # None
    /\ spec.leaf_spec.hash = spec.inner_spec.hash
    /\ spec.inner_spec.hash \in HashOp \ {"NO_HASH"}
    /\ Len(spec.leaf_spec.prefix) <= spec.inner_spec.min_prefix_length
    /\ DigestLen(spec.inner_spec.hash) <= spec.inner_spec.child_size
    /\ \A i \in DOMAIN spec.inner_spec.empty_child :
           spec.inner_spec.empty_child[i] \in {Byte(b) : b \in 0..(Radix - 1)}

(* A leaf is what an operation that the spec accepts makes of its key and  *)
(* its value.                                                              *)
WellFormedLeaf(t, n) ==
    /\ IsLeafOp(t.leafop[n])
    /\ IsSequence(t.key[n]) /\ IsSequence(t.value[n])
    /\ EnsureLeafPrefix(t.leafop[n].prefix, t.spec)
    /\ EnsureLeaf(t.leafop[n], t.spec.leaf_spec)
    /\ LengthOK(t.leafop[n].length, DoHash(t.leafop[n].prehash_key, t.key[n]))
    /\ LengthOK(t.leafop[n].length, DoHash(t.leafop[n].prehash_value, t.value[n]))
    /\ t.image[n] = LeafImage(t.leafop[n], t.key[n], t.value[n])
    /\ t.hash[n] = DoHash(t.spec.leaf_spec.hash, t.image[n])

(* An inner node: a header of a length the spec allows that no leaf has,   *)
(* then one slot per child, child_size bytes apart, with a hash in each.   *)
WellFormedInner(t, n) ==
    LET inner_spec == t.spec.inner_spec
        size == DigestLen(inner_spec.hash)
        last == ChildOffset(t, n, Arity(t.spec))
    IN  /\ t.kids[n] \in Seq(t.nodes \union {None})
        /\ Len(t.kids[n]) = Arity(t.spec)
        /\ \A j \in 1..Arity(t.spec) :
               t.kids[n][j] = None => Len(inner_spec.empty_child) = size
        /\ t.offset[n] \in inner_spec.min_prefix_length..
                           inner_spec.max_prefix_length
        /\ IsSequence(t.image[n])
        /\ ~HasPrefix(t.spec.leaf_spec.prefix, t.image[n])
        /\ Len(t.image[n]) = last + size
        /\ \A j \in 1..Arity(t.spec) : \A i \in 1..size :
               t.image[n][ChildOffset(t, n, j) + i] =
                   ChildHash(t, t.kids[n][j])[i]
        /\ t.hash[n] = DoHash(inner_spec.hash, t.image[n])

WellFormedTree(t) ==
    /\ IsSoundSpec(t.spec)
    /\ None \notin t.nodes
    /\ t.leaves \subseteq t.nodes
    /\ t.root \in t.nodes
    /\ \A n \in t.leaves : WellFormedLeaf(t, n)
    /\ \A n \in Inners(t) : WellFormedInner(t, n)

ASSUME TreesAssumption ==
    \A t \in Trees : WellFormedTree(t) /\ IsProofSpec(t.spec)

(* h is a digest of the hash operation of the tree's nodes. *)
IsDigest(op, h) ==
    /\ Len(h) = DigestLen(op)
    /\ h[1][1] = OuterFunction(op)
    /\ h = Digest(h[1][1], h[1][2])

(* The inner operation is the one of node n over its child m: it fills n   *)
(* with the child's hash in a slot that holds m.                           *)
IsStepOf(t, step, n, m) ==
    \E j \in 1..Arity(t.spec) :
        /\ t.kids[n][j] = m
        /\ Len(step.prefix) = ChildOffset(t, n, j)
        /\ t.image[n] = InnerImage(step, t.hash[m])

(* The first k operations of the path lead from a leaf with that image, by *)
(* way of the nodes above it, up to node n.                                *)
Leads(t, image, path, k, n) ==
    \E via \in [0..k -> t.nodes] :
        /\ via[0] \in t.leaves
        /\ t.image[via[0]] = image
        /\ via[k] = n
        /\ \A i \in 1..k : /\ via[i] \in Inners(t)
                           /\ IsStepOf(t, path[i], via[i], via[i - 1])

(* The nodes that the first k operations of a proof's path lead through. *)
IsTrail(t, p, k, via) ==
    /\ via \in [0..k -> t.nodes]
    /\ via[0] \in t.leaves
    /\ t.image[via[0]] = LeafImage(p.leaf, p.key, p.value)
    /\ \A i \in 1..k : /\ via[i] \in Inners(t)
                       /\ IsStepOf(t, p.path[i], via[i], via[i - 1])

LeadsTo(t, p, k, n) == Leads(t, LeafImage(p.leaf, p.key, p.value), p.path, k, n)

(* The string of the leaf can be read in one way only: the prefix is the   *)
(* one of the spec or, with IAVL headers, parsed to its end; the key's     *)
(* length is told from the leaf, and no length is too large to be written. *)
LeafIsUnambiguous(spec, leaf, key, value) ==
    /\ IsIavlSpec(spec) \/ leaf.prefix = spec.leaf_spec.prefix
    /\ leaf.length = "NO_PREFIX" => leaf.prehash_key # "NO_HASH"
    /\ LengthsFit(leaf, key, value)

(* So it is for the store's own leaves. *)
TellsKeys(t) ==
    \A n \in t.leaves : LeafIsUnambiguous(t.spec, t.leafop[n], t.key[n], t.value[n])

(* A key-value pair is in the tree. *)
Stored(t, key, value) ==
    \E n \in t.leaves : t.key[n] = key /\ t.value[n] = value

-----------------------------------------------------------------------------
(* The proof a store gives for one of its leaves: at every ancestor the    *)
(* bytes on each side of the child's hash.                                 *)
Step(t, n, j) ==
    LET from == ChildOffset(t, n, j)
    IN  [hash   |-> t.spec.inner_spec.hash,
         prefix |-> SubSeq(t.image[n], 1, from),
         suffix |-> SubSeq(t.image[n],
                           from + DigestLen(t.spec.inner_spec.hash) + 1,
                           Len(t.image[n]))]

(* The slot that holds node n: its parent and its place there. *)
Slots(t, n) == {s \in Inners(t) \X (1..Arity(t.spec)) : t.kids[s[1]][s[2]] = n}

SlotOf(t, n) == CHOOSE s \in Slots(t, n) : TRUE

(* The nodes from n upwards, and how many of them it takes to the root. *)
Above(t, n) ==
    LET above[k \in Nat] ==
            CASE k = 0 -> n
              [] k > 0 /\ above[k - 1] = t.root -> t.root
              [] OTHER -> SlotOf(t, above[k - 1])[1]
    IN  above

Depth(t, n) ==
    CHOOSE d \in 0..t.height[t.root] :
        /\ Above(t, n)[d] = t.root
        /\ \A k \in 0..(d - 1) : Above(t, n)[k] # t.root

TreePath(t, leaf) ==
    [k \in 1..Depth(t, leaf) |->
        LET slot == SlotOf(t, Above(t, leaf)[k - 1])
        IN  Step(t, slot[1], slot[2])]

HonestProof(t, n) ==
    [key |-> t.key[n], value |-> t.value[n], leaf |-> t.leafop[n],
     path |-> TreePath(t, n)]

HonestRequest(t, n) ==
    [proof |-> HonestProof(t, n), spec |-> t.spec, root |-> t.hash[t.root],
     key |-> t.key[n], value |-> t.value[n]]

(* The trees whose proofs are complete.  They have finitely many leaves.   *)
(* Every node is in a slot of a higher one, up to the root, and has a leaf *)
(* below; no deeper and no less deep than the spec says.  No key or value  *)
(* is empty, no proof None.  What is in front of a node's first slot in an *)
(* IAVL tree is a header, and one more byte.  Placeholders fill their      *)
(* slots, and headers vary by less than a slot.                            *)
IsStore(t) ==
    LET inner_spec == t.spec.inner_spec
    IN  /\ IsFiniteSet(t.leaves)
        /\ t.height \in [t.nodes -> Nat]
        /\ \A n \in t.nodes \ {t.root} :
               Slots(t, n) # {} /\ t.height[n] < t.height[t.root]
        /\ \A n \in t.leaves :
               /\ None \notin {t.leafop[n], HonestProof(t, n)}
               /\ <<>> \notin {t.key[n], t.value[n]}
               /\ t.spec.min_depth > 0 =>
                      Depth(t, n) \in t.spec.min_depth..t.spec.max_depth
        /\ \A n \in Inners(t) :
               /\ Range(t.kids[n]) # {None}
               /\ \A c \in Range(t.kids[n]) \ {None} : t.height[c] < t.height[n]
               /\ None \in Range(t.kids[n]) =>
                      Len(inner_spec.empty_child) = inner_spec.child_size
               /\ IsIavlSpec(t.spec) =>
                      \A h \in 0..t.height[n] :
                          EnsureIavlPrefix(SubSeq(t.image[n], 1, t.offset[n] - 1),
                                           h, {0})
        /\ inner_spec.max_prefix_length <
               inner_spec.min_prefix_length + inner_spec.child_size

Stores == {t \in Trees : IsStore(t)}
=============================================================================
