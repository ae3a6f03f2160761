------------------------------ MODULE GoVerify ------------------------------
(***************************************************************************)
(* VerifyMembership and VerifyNonMembership of go/ics23.go, and Calculate, *)
(* called with proofs about the trees of stores; what their answers mean,  *)
(* and how they compare with those of the Rust implementation.             *)
(***************************************************************************)
EXTENDS GoProofs, OrderedTree

CONSTANTS
    Requests,   \* calls of VerifyMembership or, without a spec, of Calculate
    Absences    \* calls of VerifyNonMembership

VARIABLES
    call,       \* the call under way, None between calls
    omitted,    \* whether its proof came with empty fields left out
    answer      \* "ok", "err", "panic", or None

govars == <<call, omitted, answer>>

IsAbsence(c) == "value" \notin DOMAIN c
ProofsOf(c)  == (IF IsAbsence(c) THEN {c.proof.left, c.proof.right} ELSE {c.proof})
                    \ {None}

(* The messages have the types of their fields. *)
ASSUME MessagesAssumption ==
    /\ \A r \in Requests : /\ ~IsAbsence(r) /\ r.proof # None
                           /\ r.spec # None => IsProofSpec(r.spec)
    /\ \A r \in Absences : IsAbsence(r) /\ r.spec # None /\ IsProofSpec(r.spec)
    /\ \A r \in Requests \union Absences :
           r # None /\ \A p \in ProofsOf(r) : IsExistenceProof(p)

ASSUME NoneNotAnswer == None \notin {"ok", "err", "panic"}

ComparedKeys ==
    TreeKeys \union UNION {{r.key} \union {p.key : p \in ProofsOf(r)} : r \in Absences}

ASSUME OrderAssumption ==
    \A spec \in {r.spec : r \in Absences} : IsStrictOrder(spec, ComparedKeys)

Init == call = None /\ omitted = TRUE /\ answer = None

Outcome(b) == IF b THEN "ok" ELSE "err"

Answer(request, sent, a) ==
    /\ call' = request
    /\ omitted' = sent
    /\ answer' = a

VerifyMembership ==
    /\ call = None
    /\ \E r \in Requests, sent \in BOOLEAN :
           /\ r.spec # None
           /\ Answer(r, sent, Outcome(GoVerifiesExistence(
                  r.proof, r.spec, r.root, r.key, r.value, sent)))

Calculate ==
    /\ call = None
    /\ \E r \in Requests, sent \in BOOLEAN :
           /\ r.spec = None
           /\ Answer(r, sent, Outcome(GoCalculates(r.proof, None)))

VerifyNonMembership ==
    /\ call = None
    /\ \E r \in Absences, sent \in BOOLEAN :
           Answer(r, sent, GoVerifyAbsence(r, sent))

Return ==
    /\ call # None
    /\ call' = None
    /\ omitted' = TRUE
    /\ answer' = None

Next == VerifyMembership \/ Calculate \/ VerifyNonMembership \/ Return

Spec == Init /\ [][Next]_govars

-----------------------------------------------------------------------------
Confirmed == answer = "ok" /\ call.spec # None

KeysKnown(c) ==
    \A p \in ProofsOf(c) : LeafIsUnambiguous(c.spec, p.leaf, p.key, p.value)

(* The trees the call is about. *)
Concerned(c) == {t \in Trees : c.spec = t.spec /\ c.root = t.hash[t.root]}

(* A proof of membership is confirmed only for a leaf of the tree and the  *)
(* path from it to the root, and, when the leaf can be read in one way,    *)
(* for a key with its value.                                               *)
GoMembershipSound ==
    (Confirmed /\ ~IsAbsence(call)) =>
        \A t \in Concerned(call) :
            /\ Leads(t, LeafImage(call.proof.leaf, call.key, call.value),
                     call.proof.path, Len(call.proof.path), t.root)
            /\ KeysKnown(call) /\ TellsKeys(t) =>
                   Stored(t, call.key, call.value)

(* The absence of a key is confirmed only if the tree does not have it.    *)
GoNonMembershipSound ==
    (Confirmed /\ IsAbsence(call)) =>
        \A t \in Concerned(call) \intersect SortedTrees :
            KeysKnown(call) /\ TellsKeys(t) => ~HasKey(t, call.key)

(* With the root of a tree there is one call that panics, because the loop *)
(* over two paths runs past their end: both proofs are of one leaf,        *)
(* verified, and read its string as two keys with the one asked about in   *)
(* between.  In no other call is a step at no branch, or a slice of the    *)
(* search for placeholders out of range.                                   *)
GoPanicsOnLeafReadTwice ==
    answer # None =>
        \A t \in Concerned(call) \intersect SortedTrees :
            answer = "panic" <=>
                /\ IsAbsence(call)
                /\ OneLeafReadTwice(call.proof.left, call.proof.right)
                /\ GoSidesVerified(call, omitted)
                /\ GoInRange(call)

-----------------------------------------------------------------------------
(* The Rust answer to the same call. *)
RustAccepts(c) ==
    CASE IsAbsence(c) -> VerifiesAbsence(c.proof, c.spec, c.root, c.key)
      [] c.spec = None -> RootFrom(c.proof, None, Hashes(c.proof)[Len(c.proof.path)])
      [] OTHER -> VerifiesExistence(c.proof, c.spec, c.root, c.key, c.value)

(* The slots are in another order than that of the keys: for Rust a branch *)
(* is a place in the node all the same, Go looks for its place in          *)
(* child_order.                                                            *)
OtherOrder(c) ==
    /\ IsAbsence(c)
    /\ c.spec.inner_spec # None
    /\ ~InSlotOrder(c.spec.inner_spec.child_order)

(* Where the two may differ.  Go confirms what Rust refuses with a minimum *)
(* but no maximum of the depth, and with several placeholders to the right *)
(* of a branch.                                                            *)
GoAlone(c) ==
    /\ c.spec # None
    /\ \/ OtherOrder(c)
       \/ c.spec.min_depth > 0 /\ c.spec.max_depth = 0
       \/ IsAbsence(c) /\ \E p \in ProofsOf(c) : \E k \in 1..Len(p.path) :
              Len(p.path[k].suffix) > c.spec.inner_spec.child_size

(* Rust confirms what Go refuses when a path exceeds the default depth,    *)
(* when an operation is not as Go knows it of an IAVL or a Tendermint      *)
(* tree, and when Go does not have the hash function.                      *)
GoRefuses(p, spec, sent) ==
    \/ p.leaf.hash \notin GoHashes
    \/ ~({p.leaf.prehash_key, p.leaf.prehash_value} \subseteq
             GoHashes \union {"NO_HASH"})
    \/ \E k \in 1..Len(p.path) : p.path[k].hash \notin GoHashes
    \/ spec # None /\ spec.min_depth = 0 /\ Len(p.path) > GoMaxDepth(spec)
    \/ spec # None /\ GoSpecEquals(spec, IavlSpec) /\ ~ValidateIavlOps(p.leaf, 0)
    \/ spec # None /\ GoSpecEquals(spec, TendermintSpec) /\
           \E k \in 1..Len(p.path) : ~ValidateTendermintOps(p.path[k], sent)

RustAlone(c, sent) ==
    OtherOrder(c) \/ \E p \in ProofsOf(c) : GoRefuses(p, c.spec, sent)

(* The two implementations give the same answers, except for those cases.  *)
ImplementationsAgree ==
    answer # None =>
        /\ answer = "ok" => RustAccepts(call) \/ GoAlone(call)
        /\ RustAccepts(call) => answer = "ok" \/ RustAlone(call, omitted)

(* What a store proves is confirmed, unless it is in a format that Go      *)
(* refuses: each of its leaves, and the absence of every key it does not   *)
(* have, with any number of placeholders beside a path on the edge.  Only  *)
(* two leaves with a placeholder between them, in the node where their     *)
(* paths part, are no neighbors: isLeftStep leaves that case open.         *)
HonestCall(t, c) ==
    IF IsAbsence(c)
    THEN /\ t \in SortedTrees
         /\ ~HasKey(t, c.key)
         /\ c = HonestAbsence(t, c.key)
         /\ NeighborsTold(t) \/ Cardinality(ProofsOf(c)) = 1
    ELSE \E n \in t.leaves : c = HonestRequest(t, n)

GoHonestAccepted ==
    answer # None =>
        \A t \in Concerned(call) \intersect Stores :
            HonestCall(t, call) =>
                \/ answer = "ok"
                \/ \E p \in ProofsOf(call) : GoRefuses(p, call.spec, omitted)

-----------------------------------------------------------------------------
(* As the comments of leftBranchesAreEmpty have it: a branch counts as the *)
(* left-most one only if all its siblings on the left are empty, in        *)
(* whichever slots child_order puts them.                                  *)
SiblingsConsidered ==
    (Confirmed /\ IsAbsence(call)) =>
        \A t \in Concerned(call) :
            KeysKnown(call) /\ OrderedTree(t) /\ TellsKeys(t) => ~HasKey(t, call.key)
=============================================================================
