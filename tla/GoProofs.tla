------------------------------ MODULE GoProofs ------------------------------
(***************************************************************************)
(* The Go implementation: the checks of go/ops.go and go/proof.go, as      *)
(* functions of a call.  Hashing, varints and the comparison of keys do    *)
(* what their Rust counterparts do and are shared with them; what a Go     *)
(* function decides by itself is defined here.                             *)
(*                                                                         *)
(* A function that returns an error or none is a predicate.  One that      *)
(* returns (bool, error), and may panic, is one of "yes", "no", "err" and  *)
(* "panic".  An absent message is None.  Go tells an absent byte string    *)
(* (nil) from an empty one; omitted says that the sender left empty fields *)
(* out, so that they are nil here.                                         *)
(***************************************************************************)
EXTENDS Verdicts

CONSTANT DefaultDepth   \* the scaled literal 128

ASSUME DefaultDepthAssumption == DefaultDepth \in Nat

GoHashes == {"SHA256", "SHA512", "RIPEMD160", "BITCOIN", "SHA512_256",
             "BLAKE2B_512", "BLAKE2S_256"}

(* SpecEquals of Go lets two specs be equal that lack the same part.  It   *)
(* is called with a predefined one, which lacks none.                      *)
GoSpecEquals(spec, predefined) == SpecEquals(spec, predefined)

(* The header of a leaf has height 0 and size 1; the layer of the leaf is  *)
(* 0, and the height of an inner node is at least its layer.               *)
ValidateIavlOps(op, layer) ==
    IF layer = 0
    THEN /\ EnsureIavlPrefix(op.prefix, 0, {0})
         /\ ReadVarint(op.prefix) = 0
         /\ ReadVarint(AfterVarint(op.prefix)) = 1
    ELSE /\ EnsureIavlPrefix(op.prefix, layer, {1, HashSize + 2})
         /\ op.hash = "SHA256"

(* With a suffix, even an empty one, the prefix is a single 1. *)
ValidateTendermintOps(op, omitted) ==
    /\ ~(op.suffix = <<>> /\ omitted) => op.prefix = <<Byte(1)>>
    /\ HasPrefix(<<Byte(1)>>, op.prefix)

-----------------------------------------------------------------------------
(* LeafOp.CheckAgainstSpec *)
GoLeafAccepted(leaf, spec) ==
    /\ spec # None
    /\ spec.leaf_spec # None
    /\ GoSpecEquals(spec, IavlSpec) => ValidateIavlOps(leaf, 0)
    /\ EnsureLeaf(leaf, spec.leaf_spec)

(* As a mutant: an inner operation may begin like a leaf. *)
GoStepAccepted_LeafPrefix(op, spec, layer, omitted) ==
    /\ None \notin {spec.inner_spec, spec.leaf_spec}
    /\ op.hash = spec.inner_spec.hash
    /\ GoSpecEquals(spec, IavlSpec) => ValidateIavlOps(op, layer)
    /\ Len(op.prefix) >= spec.inner_spec.min_prefix_length
    /\ Len(op.prefix) <= spec.inner_spec.max_prefix_length
           + (Len(spec.inner_spec.child_order) - 1) * spec.inner_spec.child_size
    /\ Len(op.suffix) % spec.inner_spec.child_size = 0

(* InnerOp.CheckAgainstSpec *)
GoStepAccepted(op, spec, layer, omitted) ==
    /\ None \notin {spec.inner_spec, spec.leaf_spec}
    /\ op.hash = spec.inner_spec.hash
    /\ GoSpecEquals(spec, IavlSpec) => ValidateIavlOps(op, layer)
    /\ GoSpecEquals(spec, TendermintSpec) => ValidateTendermintOps(op, omitted)
    /\ EnsureInner(op, spec)

GoMaxDepth(spec) == IF spec.max_depth = 0 THEN DefaultDepth ELSE spec.max_depth

(* As a mutant: the least depth is not enough. *)
GoProofAccepted_Deeper(proof, spec, omitted) ==
    /\ proof.leaf # None
    /\ GoLeafAccepted(proof.leaf, spec)
    /\ spec.min_depth > 0 => Len(proof.path) > spec.min_depth
    /\ Len(proof.path) <= GoMaxDepth(spec)
    /\ \A k \in 1..Len(proof.path) :
           GoStepAccepted(proof.path[k], spec, k, omitted)

(* ExistenceProof.CheckAgainstSpec *)
GoProofAccepted(proof, spec, omitted) ==
    /\ proof.leaf # None
    /\ GoLeafAccepted(proof.leaf, spec)
    /\ spec.min_depth > 0 => Len(proof.path) >= spec.min_depth
    /\ Len(proof.path) <= GoMaxDepth(spec)
    /\ \A k \in 1..Len(proof.path) :
           GoStepAccepted(proof.path[k], spec, k, omitted)

-----------------------------------------------------------------------------
(* LeafOp.Apply and InnerOp.Apply return an error for an empty input, a    *)
(* length that does not fit and a hash function Go does not have; where    *)
(* they do not, they compute what Rust does.                               *)
GoLeafApplies(leaf, key, value) ==
    /\ key # <<>> /\ value # <<>>
    /\ {leaf.prehash_key, leaf.prehash_value} \subseteq GoHashes \cup {"NO_HASH"}
    /\ LengthOK(leaf.length, DoHash(leaf.prehash_key, key))
    /\ LengthOK(leaf.length, DoHash(leaf.prehash_value, value))
    /\ leaf.hash \in GoHashes

(* ExistenceProof.calculate, where it succeeds: the result is the last of  *)
(* Hashes.  spec is None when there is none.                               *)
GoCalculates(proof, spec) ==
    /\ proof.leaf # None
    /\ GoLeafApplies(proof.leaf, proof.key, proof.value)
    /\ \A k \in 1..Len(proof.path) :
           /\ proof.path[k].hash \in GoHashes
           /\ SizeAccepted(Hashes(proof)[k], spec)

(* ExistenceProof.Verify *)
GoVerifiesExistence(proof, spec, root, key, value, omitted) ==
    /\ GoProofAccepted(proof, spec, omitted)
    /\ key = proof.key
    /\ value = proof.value
    /\ GoCalculates(proof, spec)
    /\ Hashes(proof)[Len(proof.path)] = root

-----------------------------------------------------------------------------
(* The neighbor checks; spec is an InnerSpec.  getPosition: the place of a *)
(* branch in child_order, which is where the node has that child.          *)
Positions(spec, branch) ==
    {i \in 0..LastBranch(spec) : /\ branch \in 0..LastBranch(spec)
                                 /\ spec.child_order[i + 1] = branch
                                 /\ \A j \in 1..i : spec.child_order[j] # branch}

GoHasPadding(spec, op, branch) ==
    \E i \in Positions(spec, branch) :
        /\ Len(op.prefix) - i * spec.child_size \in
               spec.min_prefix_length..spec.max_prefix_length
        /\ Len(op.suffix) = (LastBranch(spec) - i) * spec.child_size

(* orderFromPadding: no branch when that is an error. *)
GoOrders(spec, op) ==
    LET padded == {b \in 0..LastBranch(spec) : GoHasPadding(spec, op, b)}
    IN  {b \in padded : \A a \in 0..b : /\ Positions(spec, a) # {}
                                        /\ a \in padded => a = b}

(* A loop that goes on while the answer is "yes". *)
Walk(answers) ==
    LET others == {i \in DOMAIN answers : answers[i] # "yes"}
    IN  IF others = {} THEN "yes"
        ELSE answers[CHOOSE i \in others : \A j \in others : i <= j]

(* The comparison of the first n children of bytes, the slots of which     *)
(* begin at from, with the empty child.  A slice that is out of range      *)
(* panics: the strings are taken to have no spare capacity.                *)
EmptyChild(spec, bytes, from, branch) ==
    LET i == CHOOSE i \in Positions(spec, branch) : TRUE
    IN  IF Positions(spec, branch) = {} THEN "err"
        ELSE IF from + (i + 1) * spec.child_size > Len(bytes) THEN "panic"
        ELSE IF ChildBytes(spec, bytes, from, i) = spec.empty_child THEN "yes"
        ELSE "no"

EmptyChildren(spec, bytes, from, n) ==
    Walk([b \in 0..(n - 1) |-> EmptyChild(spec, bytes, from, b)])

GoLeftBranchesAreEmpty(spec, op) ==
    LET branch == CHOOSE b \in GoOrders(spec, op) : TRUE
        from   == Len(op.prefix) - branch * spec.child_size
    IN  CASE GoOrders(spec, op) = {}  -> "err"
          [] GoOrders(spec, op) # {} /\ (branch = 0 \/ from < 0) -> "no"
          [] OTHER -> EmptyChildren(spec, op.prefix, from, branch)

(* As a mutant: the suffix is a single child, as the Rust code has it. *)
GoRightBranchesAreEmpty_Single(spec, op) ==
    LET branch == CHOOSE b \in GoOrders(spec, op) : TRUE
        right  == LastBranch(spec) - branch
    IN  CASE GoOrders(spec, op) = {} -> "err"
          [] GoOrders(spec, op) # {} /\
                 (right = 0 \/ Len(op.suffix) # spec.child_size) -> "no"
          [] OTHER -> EmptyChildren(spec, op.suffix, 0, right)

GoRightBranchesAreEmpty(spec, op) ==
    LET branch == CHOOSE b \in GoOrders(spec, op) : TRUE
        right  == LastBranch(spec) - branch
    IN  CASE GoOrders(spec, op) = {} -> "err"
          [] GoOrders(spec, op) # {} /\
                 (right = 0 \/ Len(op.suffix) # right * spec.child_size) -> "no"
          [] OTHER -> EmptyChildren(spec, op.suffix, 0, right)

GoIsLeftMost(spec, path) ==
    CASE spec = None -> "panic"
      [] spec # None /\ Positions(spec, 0) = {} -> "err"
      [] OTHER -> Walk([k \in DOMAIN path |->
             IF GoHasPadding(spec, path[k], 0) THEN "yes"
             ELSE GoLeftBranchesAreEmpty(spec, path[k])])

GoIsRightMost(spec, path) ==
    CASE spec = None -> "panic"
      [] spec # None /\ Positions(spec, LastBranch(spec)) = {} -> "err"
      [] OTHER -> Walk([k \in DOMAIN path |->
             IF GoHasPadding(spec, path[k], LastBranch(spec)) THEN "yes"
             ELSE GoRightBranchesAreEmpty(spec, path[k])])

(* isLeftStep, which panics when a step is at no branch. *)
GoIsLeftStep(spec, left, right) ==
    LET orders == GoOrders(spec, left) \X GoOrders(spec, right)
    IN  CASE orders = {} -> "panic"
          [] \E o \in orders : o[2] = o[1] + 1 -> "yes"
          [] OTHER -> "no"

(* As a mutant: what is below the fork on the right is not looked at. *)
GoIsLeftNeighbor_HalfChecked(spec, left, right) ==
    LET n == CommonTop(left, right)
        p == Len(left) - n
        q == Len(right) - n
    IN  IF spec = None \/ p = 0 \/ q = 0 THEN "panic"
        ELSE Walk(<<GoIsLeftStep(spec, left[p], right[q]),
                    GoIsRightMost(spec, SubSeq(left, 1, p - 1))>>)

(* IsLeftNeighbor takes the top of both paths before it compares them, and *)
(* slices an empty path if one is the end of the other.                    *)
GoIsLeftNeighbor(spec, left, right) ==
    LET n == CommonTop(left, right)
        p == Len(left) - n
        q == Len(right) - n
    IN  IF spec = None \/ p = 0 \/ q = 0 THEN "panic"
        ELSE Walk(<<GoIsLeftStep(spec, left[p], right[q]),
                    GoIsRightMost(spec, SubSeq(left, 1, p - 1)),
                    GoIsLeftMost(spec, SubSeq(right, 1, q - 1))>>)

-----------------------------------------------------------------------------
(* As a mutant: a key may be that of a neighbor. *)
GoInRange_Closed(call) ==
    LET left == call.proof.left
        right == call.proof.right
    IN  /\ right # None => ~Before(call.spec, right.key, call.key)
        /\ left # None => ~Before(call.spec, call.key, left.key)

GoInRange(call) ==
    LET left == call.proof.left
        right == call.proof.right
    IN  /\ right # None => Before(call.spec, call.key, right.key)
        /\ left # None => Before(call.spec, left.key, call.key)

(* NonExistenceProof.Verify.  A side without a key does not get past its   *)
(* own verification, so that a nil key is an absent side.                  *)
GoSidesVerified(call, omitted) ==
    LET sides == {call.proof.left, call.proof.right}
    IN  /\ \A p \in sides \ {None} :
               GoVerifiesExistence(p, call.spec, call.root, p.key, p.value, omitted)
        /\ sides # {None}

GoPlaced(call) ==
    LET left  == call.proof.left
        right == call.proof.right
        inner_spec == call.spec.inner_spec
    IN  IF left = None THEN GoIsLeftMost(inner_spec, right.path)
        ELSE IF right = None THEN GoIsRightMost(inner_spec, left.path)
        ELSE GoIsLeftNeighbor(inner_spec, left.path, right.path)

GoVerifyAbsence(call, omitted) ==
    IF GoSidesVerified(call, omitted) /\ GoInRange(call)
    THEN CASE GoPlaced(call) = "yes" -> "ok"
           [] GoPlaced(call) \in {"no", "err"} -> "err"
           [] OTHER -> "panic"
    ELSE "err"
=============================================================================
