----------------------------- MODULE Neighbors -----------------------------
(***************************************************************************)
(* What a proof of absence is judged by, from rust/src/verify.rs: the      *)
(* order of keys, and where in its node an inner operation has its child,  *)
(* told from the lengths of its prefix and suffix (get_padding and its     *)
(* callers).  A branch is a number of child_order.                         *)
(***************************************************************************)
EXTENDS ProofSpecs

CONSTANT Less(_, _)     \* the order of byte strings, Ord of Vec<u8>

(* The comparison of keys by verify_non_existence and get_nonexist_proof.  *)
Before(spec, key, other) ==
    Less(KeyForComparison(spec, key), KeyForComparison(spec, other))

-----------------------------------------------------------------------------
(* From here on spec is an InnerSpec.                                      *)

(* get_padding looks the branch up in child_order, fails if it is not      *)
(* there, and goes on with the number it found, which is the branch        *)
(* itself: the place of the number in child_order does not matter.         *)
HasBranch(spec, branch) == branch \in Range(spec.child_order)

LastBranch(spec) == Len(spec.child_order) - 1

HasPadding(spec, op, branch) ==
    LET before == branch * spec.child_size
        after  == (LastBranch(spec) - branch) * spec.child_size
    IN  /\ Len(op.prefix) \in (before + spec.min_prefix_length)..
                              (before + spec.max_prefix_length)
        /\ Len(op.suffix) = after

(* order_from_padding: the first branch whose padding the operation has.   *)
Padded(spec, op) ==
    {b \in 0..LastBranch(spec) : HasPadding(spec, op, b)}

IsOrder(spec, op, branch) ==
    /\ branch \in Padded(spec, op)
    /\ \A b \in 0..branch : HasBranch(spec, b)
    /\ \A b \in Padded(spec, op) : branch <= b

(* The bytes of child i in a string where the first child begins at from.  *)
ChildBytes(spec, bytes, from, i) ==
    SubSeq(bytes, from + i * spec.child_size + 1, from + (i + 1) * spec.child_size)

(* As a mutant: the empty children are looked for where the header is. *)
LeftBranchesAreEmpty_FromStart(spec, op) ==
    \E left \in 0..LastBranch(spec) :
        /\ IsOrder(spec, op, left)
        /\ left # 0
        /\ \A i \in 0..(left - 1) :
               ChildBytes(spec, op.prefix, 0, i) = spec.empty_child

(* left_branches_are_empty *)
LeftBranchesAreEmpty(spec, op) ==
    \E left \in 0..LastBranch(spec) :
        /\ IsOrder(spec, op, left)
        /\ left # 0
        /\ LET from == Len(op.prefix) - left * spec.child_size
           IN  /\ from >= 0
               /\ \A i \in 0..(left - 1) :
                      ChildBytes(spec, op.prefix, from, i) = spec.empty_child

(* right_branches_are_empty, which expects a suffix of a single child. *)
RightBranchesAreEmpty(spec, op) ==
    \E branch \in 0..LastBranch(spec) :
        /\ IsOrder(spec, op, branch)
        /\ branch # LastBranch(spec)
        /\ Len(op.suffix) = spec.child_size
        /\ \A i \in 0..(LastBranch(spec) - branch - 1) :
               ChildBytes(spec, op.suffix, 0, i) = spec.empty_child

(* is_left_step: the right operation is one branch further. *)
IsLeftStep(spec, left, right) ==
    \E branch \in 0..LastBranch(spec) :
        /\ IsOrder(spec, left, branch)
        /\ IsOrder(spec, right, branch + 1)

(* One step of ensure_left_most and of ensure_right_most. *)
IsLeftMostStep(spec, op) ==
    HasPadding(spec, op, 0) \/ LeftBranchesAreEmpty(spec, op)

IsRightMostStep(spec, op) ==
    HasPadding(spec, op, LastBranch(spec)) \/ RightBranchesAreEmpty(spec, op)
=============================================================================
