----------------------------- MODULE ProofSpecs -----------------------------
(***************************************************************************)
(* Proof specifications and the checks of a proof against one:             *)
(* check_existence_spec and the functions it calls in rust/src/verify.rs,  *)
(* the predefined specifications and their recognition in rust/src/api.rs. *)
(* All of it is pure.  An Option is None or the value itself, and a check  *)
(* that returns an error in the code is a predicate that is FALSE.         *)
(***************************************************************************)
EXTENDS IavlPrefix

CONSTANTS
    None,           \* an absent optional message
    IavlMaxPrefix   \* the scaled literal 12 of iavl_spec

HasPrefix(prefix, data) ==
    /\ Len(prefix) <= Len(data)
    /\ \A i \in 1..Len(prefix) : data[i] = prefix[i]

(* Types of the messages, as the generated protobuf code has them. *)
IsLeafOp(leaf) ==
    /\ {leaf.hash, leaf.prehash_key, leaf.prehash_value} \subseteq HashOp
    /\ leaf.length \in LengthOp
    /\ IsSequence(leaf.prefix)

IsInnerOp(inner) ==
    /\ inner.hash \in HashOp
    /\ IsSequence(inner.prefix)
    /\ IsSequence(inner.suffix)

IsExistenceProof(proof) ==
    /\ IsSequence(proof.key)
    /\ IsSequence(proof.value)
    /\ proof.leaf # None => IsLeafOp(proof.leaf)
    /\ IsSequence(proof.path)
    /\ \A k \in 1..Len(proof.path) : IsInnerOp(proof.path[k])

(* Sizes and depths are not negative, and child_order is not empty:        *)
(* ensure_inner computes child_order.len() - 1 in an unsigned type.        *)
IsProofSpec(spec) ==
    /\ spec.leaf_spec # None => IsLeafOp(spec.leaf_spec)
    /\ spec.inner_spec # None =>
           /\ spec.inner_spec.hash \in HashOp
           /\ {spec.inner_spec.min_prefix_length,
               spec.inner_spec.max_prefix_length,
               spec.inner_spec.child_size} \subseteq Nat
           /\ IsSequence(spec.inner_spec.child_order)
           /\ spec.inner_spec.child_order # <<>>
           /\ IsSequence(spec.inner_spec.empty_child)
    /\ {spec.min_depth, spec.max_depth} \subseteq Nat

-----------------------------------------------------------------------------
(* The predefined specifications. *)
VarProtoLeaf ==
    [hash |-> "SHA256", prehash_key |-> "NO_HASH", prehash_value |-> "SHA256",
     length |-> "VAR_PROTO", prefix |-> <<Byte(0)>>]

IavlSpec ==
    [leaf_spec |-> VarProtoLeaf,
     inner_spec |-> [child_order |-> <<0, 1>>, child_size |-> HashSize + 1,
                     min_prefix_length |-> 4,
                     max_prefix_length |-> IavlMaxPrefix,
                     empty_child |-> <<>>, hash |-> "SHA256"],
     min_depth |-> 0, max_depth |-> 0,
     prehash_key_before_comparison |-> FALSE]

TendermintSpec ==
    [IavlSpec EXCEPT !.inner_spec.child_size = HashSize,
                     !.inner_spec.min_prefix_length = 1,
                     !.inner_spec.max_prefix_length = 1]

SmtSpec ==
    [TendermintSpec EXCEPT
        !.leaf_spec.prehash_key = "SHA256",
        !.leaf_spec.length = "NO_PREFIX",
        !.inner_spec.empty_child = [i \in 1..HashSize |-> Byte(0)],
        !.prehash_key_before_comparison = TRUE]

(* spec_equals: prefixes, depths, empty children and the child order are   *)
(* left out, and a specification with a part missing equals none.          *)
SpecEquals(left, right) ==
    /\ None \notin {left.leaf_spec, left.inner_spec,
                    right.leaf_spec, right.inner_spec}
    /\ left.leaf_spec.hash = right.leaf_spec.hash
    /\ left.leaf_spec.prehash_key = right.leaf_spec.prehash_key
    /\ left.leaf_spec.prehash_value = right.leaf_spec.prehash_value
    /\ left.leaf_spec.length = right.leaf_spec.length
    /\ left.inner_spec.hash = right.inner_spec.hash
    /\ left.inner_spec.min_prefix_length = right.inner_spec.min_prefix_length
    /\ left.inner_spec.max_prefix_length = right.inner_spec.max_prefix_length
    /\ left.inner_spec.child_size = right.inner_spec.child_size
    /\ Len(left.inner_spec.child_order) = Len(right.inner_spec.child_order)

IsIavlSpec(spec) == SpecEquals(spec, IavlSpec)

(* As a mutant: the header of an IAVL leaf is not parsed. *)
EnsureLeafPrefix_Unparsed(prefix, spec) == TRUE

(* Nothing may follow the header of a leaf; the header of an inner node is *)
(* followed by a length byte, or by length byte, left hash, length byte.   *)
EnsureLeafPrefix(prefix, spec) ==
    IsIavlSpec(spec) => EnsureIavlPrefix(prefix, 0, {0})

EnsureInnerPrefix(prefix, spec, min_height, hash_op) ==
    IsIavlSpec(spec) =>
        /\ EnsureIavlPrefix(prefix, min_height, {1, HashSize + 2})
        /\ hash_op = "SHA256"

-----------------------------------------------------------------------------
(* As a mutant: the prefix of the leaf operation is not compared. *)
EnsureLeaf_AnyPrefix(leaf, leaf_spec) ==
    /\ leaf_spec.hash = leaf.hash
    /\ leaf_spec.prehash_key = leaf.prehash_key
    /\ leaf_spec.prehash_value = leaf.prehash_value
    /\ leaf_spec.length = leaf.length

EnsureLeaf(leaf, leaf_spec) ==
    /\ leaf_spec.hash = leaf.hash
    /\ leaf_spec.prehash_key = leaf.prehash_key
    /\ leaf_spec.prehash_value = leaf.prehash_value
    /\ leaf_spec.length = leaf.length
    /\ HasPrefix(leaf_spec.prefix, leaf.prefix)

(* As mutants: an inner operation may begin like a leaf, and the longest   *)
(* prefix that is allowed is refused.                                      *)
EnsureInner_LeafPrefix(inner, spec) ==
    /\ spec.leaf_spec # None
    /\ spec.inner_spec # None
    /\ inner.hash = spec.inner_spec.hash
    /\ Len(inner.prefix) \in spec.inner_spec.min_prefix_length..
            spec.inner_spec.max_prefix_length
                + (Len(spec.inner_spec.child_order) - 1) * spec.inner_spec.child_size
    /\ Len(inner.suffix) % spec.inner_spec.child_size = 0

EnsureInner_ShortPrefix(inner, spec) ==
    /\ EnsureInner_LeafPrefix(inner, spec)
    /\ ~HasPrefix(spec.leaf_spec.prefix, inner.prefix)
    /\ Len(inner.prefix) < spec.inner_spec.max_prefix_length
            + (Len(spec.inner_spec.child_order) - 1) * spec.inner_spec.child_size

EnsureInner(inner, spec) ==
    /\ spec.leaf_spec # None
    /\ spec.inner_spec # None
    /\ LET inner_spec == spec.inner_spec
           max_left_child_bytes ==
               (Len(inner_spec.child_order) - 1) * inner_spec.child_size
       IN  /\ inner.hash = inner_spec.hash
           /\ ~HasPrefix(spec.leaf_spec.prefix, inner.prefix)
           /\ Len(inner.prefix) >= inner_spec.min_prefix_length
           /\ Len(inner.prefix) <=
                  inner_spec.max_prefix_length + max_left_child_bytes
           /\ inner_spec.child_size > 0
           /\ inner_spec.max_prefix_length <
                  inner_spec.min_prefix_length + inner_spec.child_size
           /\ Len(inner.suffix) % inner_spec.child_size = 0

(* The three parts of check_existence_spec, in its order.  The depth of a  *)
(* path is bounded, above as well, only when there is a minimum.           *)
LeafAccepted(proof, spec) ==
    /\ proof.leaf # None
    /\ spec.leaf_spec # None
    /\ EnsureLeafPrefix(proof.leaf.prefix, spec)
    /\ EnsureLeaf(proof.leaf, spec.leaf_spec)

DepthAccepted(proof, spec) ==
    spec.min_depth # 0 => Len(proof.path) \in spec.min_depth..spec.max_depth

StepAccepted(proof, spec, k) ==
    LET step == proof.path[k]
    IN  /\ EnsureInnerPrefix(step.prefix, spec, k, step.hash)
        /\ EnsureInner(step, spec)

(* The size check of calculate_existence_root_for_spec, made only for      *)
(* children of at least 32 bytes.                                          *)
SizeAccepted(hash, spec) ==
    (spec # None /\ spec.inner_spec # None) =>
        ~ /\ Len(hash) > spec.inner_spec.child_size
          /\ spec.inner_spec.child_size >= HashSize

-----------------------------------------------------------------------------
(* key_for_comparison of verify_non_existence and get_nonexist_proof. *)
KeyForComparison(spec, key) ==
    IF spec.prehash_key_before_comparison
    THEN DoHash(IF spec.leaf_spec = None THEN "NO_HASH"
                ELSE spec.leaf_spec.prehash_key, key)
    ELSE key
=============================================================================
