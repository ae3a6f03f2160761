---------------------------- MODULE NonExistence ----------------------------
(***************************************************************************)
(* verify_non_existence of rust/src/verify.rs.  It calls verify_existence, *)
(* the state machine of Existence, for the proof on the left of the key    *)
(* and for the one on the right, compares keys, and then goes over the two *)
(* paths to see that no leaf fits between them.  The variables of          *)
(* Existence are the frame of the call that is running.                    *)
(***************************************************************************)
EXTENDS Existence, OrderedTree

CONSTANT Absences   \* the calls: [proof, spec, root, key]

VARIABLES
    at,         \* where verify_non_existence is, "idle" between calls
    call,       \* its arguments
    left,       \* the part of the left path that is still to be looked at
    right,      \* and of the right path
    step,       \* the operations of left, or of right, the loop has passed
    answer      \* "ok", "err" or "panic" once the call has ended

callee == vars
allvars == <<at, call, left, right, step, answer, callee>>

(* The call of verify_existence for one side. *)
SideCall(r, proof) ==
    [proof |-> proof, spec |-> r.spec, root |-> r.root,
     key |-> proof.key, value |-> proof.value]

Sides(r) == {r.proof.left, r.proof.right} \ {None}

ASSUME PanicAssumption == None # "panic"

ASSUME AbsencesAssumption ==
    \A r \in Absences :
        /\ r # None
        /\ r.spec # None
        /\ r.spec.inner_spec # None => IsOrdering(r.spec.inner_spec.child_order)
        /\ \A proof \in Sides(r) : SideCall(r, proof) \in Requests

ComparedKeys ==
    TreeKeys \union UNION {{r.key} \union {p.key : p \in Sides(r)} : r \in Absences}

ASSUME OrderAssumption ==
    \A spec \in {r.spec : r \in Absences} : IsStrictOrder(spec, ComparedKeys)

-----------------------------------------------------------------------------
AbsenceInit ==
    /\ Init
    /\ at = "idle"
    /\ call = None
    /\ left = <<>>
    /\ right = <<>>
    /\ step = 0
    /\ answer = None

Ask ==
    /\ at = "idle"
    /\ at' = "left"
    /\ call' \in Absences
    /\ UNCHANGED <<left, right, step, answer, callee>>

Answer(result) ==
    /\ at' = "answered"
    /\ answer' = result
    /\ UNCHANGED <<call, left, right, step>>

Continue(next) ==
    /\ at' = next
    /\ UNCHANGED <<call, left, right, step, answer>>

(* The call of verify_existence for a side, if there is a proof. *)
CallSide(side, proof) ==
    /\ at = side
    /\ pc = "idle"
    /\ proof # None
    /\ Start(SideCall(call, proof), "check_leaf")
    /\ Continue(side)

SkipSide(side, proof, next) ==
    /\ at = side
    /\ proof = None
    /\ Continue(next)
    /\ UNCHANGED callee

(* Its result; the key must be strictly on the right side of the proof's. *)
ReturnSide(side, ordered, next) ==
    /\ at = side
    /\ pc = "done"
    /\ Return
    /\ \/ verdict = "ok" /\ ordered /\ Continue(next)
       \/ ~(verdict = "ok" /\ ordered) /\ Answer("err")

(* As mutants: a key may equal the one on its left; the key on the right   *)
(* is not compared.                                                        *)
ReturnLeft_NotStrict ==
    ReturnSide("left", ~Before(call.spec, call.key, req.key), "right")

ReturnRight_Unordered == ReturnSide("right", TRUE, "shape")

CallLeft   == CallSide("left", call.proof.left)
SkipLeft   == SkipSide("left", call.proof.left, "right")
ReturnLeft == ReturnSide("left", Before(call.spec, req.key, call.key), "right")

CallRight   == CallSide("right", call.proof.right)
SkipRight   == SkipSide("right", call.proof.right, "shape")
ReturnRight == ReturnSide("right", Before(call.spec, call.key, req.key), "shape")

Callee ==
    /\ at \in {"left", "right"}
    /\ Work
    /\ Continue(at)

-----------------------------------------------------------------------------
InnerSpec == call.spec.inner_spec

Examine(next, left_path, right_path) ==
    /\ at' = next
    /\ left' = left_path
    /\ right' = right_path
    /\ UNCHANGED <<call, step, answer>>

(* The match on which proofs there are. *)
ChooseShape ==
    /\ at = "shape"
    /\ UNCHANGED callee
    /\ LET l == call.proof.left
           r == call.proof.right
       IN  \/ (InnerSpec = None \/ (l = None /\ r = None)) /\ Answer("err")
           \/ InnerSpec # None /\ l # None /\ r = None
              /\ Examine("right_most", l.path, <<>>)
           \/ InnerSpec # None /\ l = None /\ r # None
              /\ Examine("left_most", <<>>, r.path)
           \/ InnerSpec # None /\ l # None /\ r # None
              /\ Examine("neighbor", l.path, r.path)

Pop(path) == SubSeq(path, 1, Len(path) - 1)
Top(path) == path[Len(path)]

(* As mutants: the tops at the fork need not be next to each other; the    *)
(* paths below the fork are not looked at; the tops are compared but not   *)
(* popped.                                                                 *)
PopTops_AnyFork ==
    /\ at = "neighbor"
    /\ UNCHANGED callee
    /\ IF left = <<>> \/ right = <<>> THEN Answer("panic")
       ELSE Examine(IF /\ Top(left).prefix = Top(right).prefix
                       /\ Top(left).suffix = Top(right).suffix
                    THEN "neighbor" ELSE "right_most",
                    Pop(left), Pop(right))

PopTops_Fork ==
    /\ at = "neighbor"
    /\ UNCHANGED callee
    /\ IF /\ left # <<>> /\ right # <<>>
          /\ Top(left).prefix = Top(right).prefix
          /\ Top(left).suffix = Top(right).suffix
       THEN Examine("neighbor", Pop(left), Pop(right))
       ELSE Answer("ok")

PopTops_Peek ==
    /\ at = "neighbor"
    /\ UNCHANGED callee
    /\ IF /\ left # <<>> /\ right # <<>>
          /\ Top(left).prefix = Top(right).prefix
          /\ Top(left).suffix = Top(right).suffix
       THEN Examine("neighbor", left, right)
       ELSE Answer("err")

(* ensure_left_neighbor: the two pops before and in its loop.  Popping an  *)
(* empty path panics.                                                      *)
PopTops ==
    /\ at = "neighbor"
    /\ UNCHANGED callee
    /\ LET exhausted == left = <<>> \/ right = <<>>
           common == /\ Top(left).prefix = Top(right).prefix
                     /\ Top(left).suffix = Top(right).suffix
           next_to == IsLeftStep(InnerSpec, Top(left), Top(right))
       IN  \/ exhausted /\ Answer("panic")
           \/ ~exhausted /\ common /\ Examine("neighbor", Pop(left), Pop(right))
           \/ ~exhausted /\ ~common /\ next_to
              /\ Examine("right_most", Pop(left), Pop(right))
           \/ ~exhausted /\ ~common /\ ~next_to /\ Answer("err")

(* One operation of the loop of ensure_right_most or ensure_left_most. *)
PassStep(ok) ==
    /\ UNCHANGED callee
    /\ \/ /\ ok
          /\ step' = step + 1
          /\ UNCHANGED <<at, call, left, right, answer>>
       \/ ~ok /\ Answer("err")

RightMostStep ==
    /\ at = "right_most"
    /\ step < Len(left)
    /\ PassStep(IsRightMostStep(InnerSpec, left[step + 1]))

(* As a mutant: of two paths below a fork only the left one is looked at.  *)
RightMostDone_LeftOnly ==
    /\ at = "right_most"
    /\ step = Len(left)
    /\ UNCHANGED callee
    /\ Answer("ok")

(* A proof on the right, too, is looked at next. *)
RightMostDone ==
    /\ at = "right_most"
    /\ step = Len(left)
    /\ UNCHANGED callee
    /\ \/ /\ call.proof.right # None
          /\ at' = "left_most"
          /\ step' = 0
          /\ UNCHANGED <<call, left, right, answer>>
       \/ call.proof.right = None /\ Answer("ok")

LeftMostStep ==
    /\ at = "left_most"
    /\ step < Len(right)
    /\ PassStep(IsLeftMostStep(InnerSpec, right[step + 1]))

LeftMostDone ==
    /\ at = "left_most"
    /\ step = Len(right)
    /\ UNCHANGED callee
    /\ Answer("ok")

ReturnAnswer ==
    /\ at = "answered"
    /\ at' = "idle"
    /\ call' = None
    /\ left' = <<>>
    /\ right' = <<>>
    /\ step' = 0
    /\ answer' = None
    /\ UNCHANGED callee

Running ==
    \/ CallLeft \/ SkipLeft \/ ReturnLeft \/ CallRight \/ SkipRight
    \/ ReturnRight \/ Callee \/ ChooseShape \/ PopTops \/ RightMostStep
    \/ RightMostDone \/ LeftMostStep \/ LeftMostDone \/ ReturnAnswer

AbsenceNext == Ask \/ Running

(* A call that has begun is carried on by its thread. *)
AbsenceSpec == AbsenceInit /\ [][AbsenceNext]_allvars /\ WF_allvars(Running)

-----------------------------------------------------------------------------
AbsenceTypeOK ==
    /\ TypeOK
    /\ at \in {"idle", "left", "right", "shape", "neighbor", "right_most",
               "left_most", "answered"}
    /\ call = None \/ call \in Absences
    /\ call = None <=> at = "idle"
    /\ pc # "idle" => /\ at \in {"left", "right"}
                      /\ req \in {SideCall(call, p) : p \in Sides(call)}
    /\ IsSequence(left) /\ IsSequence(right)
    /\ step \in Nat
    /\ answer \in {"ok", "err", "panic", None}
    /\ answer # None <=> at = "answered"

SideVerified(proof) ==
    VerifiesExistence(proof, call.spec, call.root, proof.key, proof.value)

KeysKnown(r) ==
    \A p \in Sides(r) : LeafIsUnambiguous(r.spec, p.leaf, p.key, p.value)

(* A leaf with the string of a side's leaf has that side's key: the string *)
(* does not read as another key as well.                                   *)
KeysTold(t, r) ==
    \A p \in Sides(r) : \A n \in t.leaves :
        t.image[n] = LeafImage(p.leaf, p.key, p.value) => t.key[n] = p.key

(* The trees a call may be about. *)
Concerned(r) ==
    {t \in SortedTrees : /\ r.spec = t.spec
                         /\ r.root = t.hash[t.root]
                         /\ KeysTold(t, r)}

(* What the caller may conclude: no tree with that root has the key. *)
AbsenceJustified(r) == \A t \in Concerned(r) : ~HasKey(t, r.key)

(* A panic ends the call like an error does: nothing is confirmed. *)
AbsencePromise == INSTANCE Verifier
    WITH Requests <- Absences, Justified <- AbsenceJustified,
         phase  <- CASE at = "idle" -> "idle"
                     [] at = "answered" -> "done"
                     [] OTHER -> "busy",
         call   <- call,
         answer <- IF answer = "panic" THEN "err" ELSE answer

(* verify_non_existence keeps the promise of Verifier: one answer to each  *)
(* call, and "ok" only for a key that is absent.                           *)
KeepsAbsencePromise == AbsencePromise!Spec

(* The absence of a key is confirmed only when the tree does not have it,  *)
(* whichever leaves the two proofs are about and however their paths run:  *)
(* nothing lies between two accepted proofs, and nothing beyond one.       *)
NonMembershipSound == answer = "ok" => AbsenceJustified(call)

(* What makes a proof's leaf unambiguous makes its string tell the key, so *)
(* NonMembershipSound is about every answer "ok" to a call with such       *)
(* proofs.                                                                 *)
KnownKeysAreTold ==
    (answer = "ok" /\ KeysKnown(call)) =>
        \A t \in Trees : (call.spec = t.spec /\ TellsKeys(t)) => KeysTold(t, call)

(* For every key a store does not have, the proof of its neighbors is      *)
(* accepted, wherever they are.  With two slots in a node, whatever        *)
(* placeholders are around them; with more, if there are none: then        *)
(* is_left_step and right_branches_are_empty would refuse some.            *)
AbsenceComplete ==
    at = "answered" =>
        \A t \in SortedTrees \intersect Stores :
            (NeighborsTold(t) /\ ~HasKey(t, call.key)
                /\ call = HonestAbsence(t, call.key)) => answer = "ok"

(* The machine, with its calls, early returns and popping of paths, gives  *)
(* the verdict that Verdicts defines without them.                         *)
AbsenceVerdict ==
    at = "answered" => (answer = "ok" <=>
        VerifiesAbsence(call.proof, call.spec, call.root, call.key))

(* As the comment on right_branches_are_empty has it: any number of empty  *)
(* children to the right of a branch makes it the right-most one, so that  *)
(* the proof of the last leaf is accepted for every key after it.          *)
RightMostAccepted ==
    at = "answered" =>
        \A t \in Trees :
            (LeavesAfter(t, call.key) = {} /\ ~HasKey(t, call.key)
                /\ call = HonestAbsence(t, call.key)) => answer = "ok"

(* As the proto file has it: child_order is the order of the children, in  *)
(* whichever slots they are, and no proof skips one of them.               *)
ChildOrderRespected ==
    answer = "ok" =>
        \A t \in Trees :
            (/\ call.spec = t.spec /\ call.root = t.hash[t.root]
             /\ OrderedTree(t) /\ TellsKeys(t) /\ KeysKnown(call)) =>
                ~HasKey(t, call.key)

(* The loop over the common part of two paths pops an empty path in one    *)
(* case: both proofs are of one leaf, verified, and read its string as two *)
(* keys with the one asked about in between.  Such a call always panics,   *)
(* and no other one does.                                                  *)
PanicsOnLeafReadTwice ==
    (at = "answered" /\ IsSoundSpec(call.spec)) =>
        (answer = "panic" <=>
            LET l == call.proof.left
                r == call.proof.right
            IN  /\ OneLeafReadTwice(l, r)
                /\ SideVerified(l) /\ Before(call.spec, l.key, call.key)
                /\ SideVerified(r) /\ Before(call.spec, call.key, r.key))

(* Every call is answered: no loop of the two functions goes on for ever.  *)
EveryCallAnswered == at # "idle" ~> at = "idle"

-----------------------------------------------------------------------------
(* The inductive invariant behind NonMembershipSound.                      *)

(* The call of verify_existence that is running is the one of this side. *)
CalleeKnown ==
    pc # "idle" =>
        \/ /\ at = "left" /\ call.proof.left # None
           /\ req = SideCall(call, call.proof.left)
        \/ /\ at = "right" /\ call.proof.right # None
           /\ req = SideCall(call, call.proof.right)

(* What the accepted proofs on the two sides say of their own keys. *)
SidesAccepted ==
    LET l == call.proof.left
        r == call.proof.right
    IN  /\ at \notin {"idle", "left", "answered"} /\ l # None =>
               Justified(SideCall(call, l)) /\ Before(call.spec, l.key, call.key)
        /\ at \notin {"idle", "left", "right", "answered"} /\ r # None =>
               Justified(SideCall(call, r)) /\ Before(call.spec, call.key, r.key)

(* The part of a path that is still to be looked at is its lower end. *)
IsLowerEnd(part, path) ==
    /\ Len(part) <= Len(path)
    /\ \A k \in 1..Len(part) : part[k] = path[k]

LowerEnds ==
    LET l == call.proof.left
        r == call.proof.right
    IN  /\ at \in {"neighbor", "right_most"} => l # None /\ IsLowerEnd(left, l.path)
        /\ at \in {"neighbor", "left_most"} => r # None /\ IsLowerEnd(right, r.path)
        /\ at = "right_most" => /\ step <= Len(left)
                                /\ r # None => IsLowerEnd(right, r.path)
        /\ at = "left_most" => step <= Len(right)
        /\ at \notin {"right_most", "left_most", "answered"} => step = 0

(* The paths so far have the nodes they came through in common, and beside *)
(* these there is nothing near the key.                                    *)
AtFork(t) ==
    \E n \in t.nodes :
        /\ LeadsTo(t, call.proof.left, Len(left), n)
        /\ LeadsTo(t, call.proof.right, Len(right), n)
        /\ IsBlock(t, n)

(* Of the leaves below the operations passed, the left one is the last;    *)
(* those beyond are none, or on the other side of the key.                 *)
OnRightEdge(t) ==
    \E via \in [0..Len(left) -> t.nodes] :
        /\ IsTrail(t, call.proof.left, Len(left), via)
        /\ IsLast(t, via[step], via[0])
        /\ call.proof.right = None => t.leaves \subseteq t.below[via[Len(left)]]
        /\ call.proof.right # None =>
               \E n \in t.nodes :
                   /\ LeadsTo(t, call.proof.right, Len(right), n)
                   /\ AreAdjacent(t, via[Len(left)], n)

OnLeftEdge(t) ==
    \E via \in [0..Len(right) -> t.nodes] :
        /\ IsTrail(t, call.proof.right, Len(right), via)
        /\ IsFirst(t, via[step], via[0])
        /\ \A x \in t.leaves :
               \/ Before(t.spec, t.key[x], call.key)
               \/ x \in t.below[via[Len(right)]]
               \/ Behind(t, x, via[Len(right)])

PathsSeparate ==
    at \in {"neighbor", "right_most", "left_most"} =>
        \A t \in Concerned(call) :
            /\ at = "neighbor" => AtFork(t)
            /\ at = "right_most" => OnRightEdge(t)
            /\ at = "left_most" => OnLeftEdge(t)

AbsenceInvariant ==
    /\ AbsenceTypeOK
    /\ PathInvariant
    /\ CalleeKnown
    /\ SidesAccepted
    /\ LowerEnds
    /\ PathsSeparate
    /\ NonMembershipSound
-----------------------------------------------------------------------------
(* The inductive invariant behind AbsenceVerdict.                          *)

(* What the calls of verify_existence and the comparisons of keys add to   *)
(* the verdict.                                                            *)
SidesVerified ==
    LET l == call.proof.left
        r == call.proof.right
    IN  /\ at \notin {"idle", "left", "answered"} /\ l # None =>
               SideVerified(l) /\ Before(call.spec, l.key, call.key)
        /\ at \notin {"idle", "left", "right", "answered"} /\ r # None =>
               SideVerified(r) /\ Before(call.spec, call.key, r.key)
        /\ at \in {"neighbor", "right_most", "left_most"} => InnerSpec # None

(* From the root down to what is left of them, the paths are the same. *)
SameAbove(left_length, right_length, n) ==
    LET p == call.proof.left.path
        q == call.proof.right.path
    IN  /\ left_length = Len(p) - n
        /\ right_length = Len(q) - n
        /\ \A i \in 0..(n - 1) : SameFromTop(p, q, i)

TopsCommon ==
    at = "neighbor" =>
        \E n \in 0..Len(call.proof.left.path) : SameAbove(Len(left), Len(right), n)

(* They parted in two neighboring operations. *)
Parted ==
    LET p == call.proof.left.path
        q == call.proof.right.path
    IN  \E n \in 0..Len(p) :
            /\ SameAbove(Len(left) + 1, Len(right) + 1, n)
            /\ ~SameFromTop(p, q, n)
            /\ IsLeftStep(InnerSpec, p[Len(p) - n], q[Len(q) - n])
            /\ IsLowerEnd(left, p)

(* What the loops over the lower ends of the paths add to the verdict. *)
EdgesPassed ==
    LET l == call.proof.left
        r == call.proof.right
    IN  at \in {"right_most", "left_most"} =>
            /\ l # None /\ r # None => Parted
            /\ r = None => at = "right_most" /\ left = l.path
            /\ l = None => at = "left_most" /\ right = r.path
            /\ at = "right_most" => RightMost(InnerSpec, left, step)
            /\ at = "left_most" =>
                   /\ LeftMost(InnerSpec, right, step)
                   /\ l # None => RightMost(InnerSpec, left, Len(left))

AnswerInvariant ==
    /\ AbsenceTypeOK
    /\ CalleeKnown
    /\ VerdictInvariant
    /\ LowerEnds
    /\ SidesVerified
    /\ TopsCommon
    /\ EdgesPassed
    /\ AbsenceVerdict
=============================================================================
