------------------------------ MODULE Verdicts ------------------------------
(***************************************************************************)
(* The answers of verify_existence and verify_non_existence in one piece,  *)
(* as functions of a call: what the step-by-step machines of Existence and *)
(* NonExistence are compared with, and what the batch functions of         *)
(* rust/src/api.rs call.                                                   *)
(***************************************************************************)
EXTENDS Neighbors

(* The hash after each of the operations of a path, from that of the leaf. *)
Hashes(proof) ==
    LET hash[k \in 0..Len(proof.path)] ==
            IF k = 0 THEN ApplyLeaf(proof.leaf, proof.key, proof.value)
            ELSE ApplyInner(proof.path[k], hash[k - 1])
    IN  hash

RootFrom(proof, spec, root) ==
    /\ proof.key # <<>>
    /\ proof.value # <<>>
    /\ proof.leaf # None
    /\ LeafApplies(proof.leaf, proof.key, proof.value)
    /\ LET hashes == Hashes(proof)
       IN  /\ \A k \in 1..Len(proof.path) :
                  hashes[k - 1] # <<>> /\ SizeAccepted(hashes[k], spec)
           /\ hashes[Len(proof.path)] = root

VerifiesExistence(proof, spec, root, key, value) ==
    /\ LeafAccepted(proof, spec)
    /\ DepthAccepted(proof, spec)
    /\ \A k \in 1..Len(proof.path) : StepAccepted(proof, spec, k)
    /\ proof.key = key
    /\ proof.value = value
    /\ RootFrom(proof, spec, root)

(* The first n operations are on the left, or on the right, edge. *)
LeftMost(spec, path, n) == \A k \in 1..n : IsLeftMostStep(spec, path[k])
RightMost(spec, path, n) == \A k \in 1..n : IsRightMostStep(spec, path[k])

(* The number of operations, from the root, that the paths have in common. *)
SameFromTop(p, q, i) ==
    LET a == p[Len(p) - i]
        b == q[Len(q) - i]
    IN  a.prefix = b.prefix /\ a.suffix = b.suffix

CommonTop(p, q) ==
    CHOOSE n \in 0..Len(p) :
        /\ n <= Len(q)
        /\ \A i \in 0..(n - 1) : SameFromTop(p, q, i)
        /\ n < Len(p) /\ n < Len(q) => ~SameFromTop(p, q, n)

AreNeighbors(spec, p, q) ==
    LET n == CommonTop(p, q)
    IN  /\ n < Len(p)
        /\ n < Len(q)
        /\ IsLeftStep(spec, p[Len(p) - n], q[Len(q) - n])
        /\ RightMost(spec, p, Len(p) - n - 1)
        /\ LeftMost(spec, q, Len(q) - n - 1)

(* Two proofs with the same path, of a leaf whose string they read as two  *)
(* keys: a leaf operation may have a prefix longer than that of the spec.  *)
SameSteps(p, q) ==
    /\ Len(p) = Len(q)
    /\ \A k \in 1..Len(p) : /\ p[k].hash = q[k].hash
                            /\ p[k].prefix = q[k].prefix
                            /\ p[k].suffix = q[k].suffix

OneLeafReadTwice(l, r) ==
    /\ l # None /\ r # None
    /\ SameSteps(l.path, r.path)
    /\ LeafImage(l.leaf, l.key, l.value) = LeafImage(r.leaf, r.key, r.value)
    /\ l.key # r.key

VerifiesAbsence(proof, spec, root, key) ==
    LET side(p) == VerifiesExistence(p, spec, root, p.key, p.value)
    IN  /\ proof.left # None =>
               side(proof.left) /\ Before(spec, proof.left.key, key)
        /\ proof.right # None =>
               side(proof.right) /\ Before(spec, key, proof.right.key)
        /\ spec.inner_spec # None
        /\ CASE proof.left # None /\ proof.right # None ->
                    AreNeighbors(spec.inner_spec, proof.left.path, proof.right.path)
             [] proof.left # None /\ proof.right = None ->
                    RightMost(spec.inner_spec, proof.left.path, Len(proof.left.path))
             [] proof.left = None /\ proof.right # None ->
                    LeftMost(spec.inner_spec, proof.right.path, Len(proof.right.path))
             [] OTHER -> FALSE
=============================================================================
