--------------------------- MODULE GoVerifyProofs ---------------------------
(***************************************************************************)
(* Proof that the Go entry points confirm only what is in the tree or      *)
(* absent from it, and panic, with the root of a tree, on no proofs but    *)
(* two of one leaf, for every set of calls and of trees.                   *)
(***************************************************************************)
EXTENDS GoVerify, TreeProofs

-----------------------------------------------------------------------------
(* What Go accepts of one proof.                                           *)

(* A path that Go accepts is made of operations that a node can have, and  *)
(* its leaf is one that can be read.                                       *)
LEMMA GoAcceptedOps ==
    ASSUME NEW spec, NEW p, IsExistenceProof(p), NEW root, NEW key, NEW value, NEW sent,
           GoVerifiesExistence(p, spec, root, key, value, sent)
    PROVE  /\ key = p.key /\ value = p.value
           /\ OpsOf(p, spec)
           /\ Hashes(p)[Len(p.path)] = root
           /\ LeafIsUnambiguous(spec, p.leaf, p.key, p.value) =>
                  LeafFacts(spec, p.leaf, p.key, p.value)
<1>1. /\ key = p.key /\ value = p.value /\ p.leaf # None
      /\ Hashes(p)[Len(p.path)] = root
      /\ GoLeafAccepted(p.leaf, spec)
      /\ GoLeafApplies(p.leaf, p.key, p.value)
      /\ \A k \in 1..Len(p.path) : GoStepAccepted(p.path[k], spec, k, sent)
  BY DEF GoVerifiesExistence, GoProofAccepted, GoCalculates
<1>2. OpsAccepted(p, spec)
  BY <1>1 DEF OpsAccepted, GoStepAccepted
<1>3. /\ EnsureLeaf(p.leaf, spec.leaf_spec)
      /\ EnsureLeafPrefix(p.leaf.prefix, spec)
  BY <1>1 DEF GoLeafAccepted, EnsureLeafPrefix, IsIavlSpec, GoSpecEquals, ValidateIavlOps
<1>4. OpsOf(p, spec)
  BY <1>1, <1>2, <1>3 DEF OpsOf
<1> QED
  BY <1>1, <1>3, <1>4 DEF LeafFacts, GoLeafApplies, IsExistenceProof

(* With the root of a tree it is a path of the tree. *)
LEMMA GoExistenceLeads ==
    ASSUME NEW t \in Trees, NEW p, OpsOf(p, t.spec),
           Hashes(p)[Len(p.path)] = t.hash[t.root]
    PROVE  LeadsTo(t, p, Len(p.path), t.root)
<1>1. t.root \in t.nodes /\ Len(p.path) \in 0..Len(p.path)
  BY TreesAssumption, SequenceType DEF WellFormedTree, OpsOf, IsExistenceProof
<1> QED
  BY <1>1, HashesLead DEF OpsOf

-----------------------------------------------------------------------------
(* The steps of a path, when the slots are in the order of the keys.       *)

(* A loop ends with "yes" if every turn of it does, and with another       *)
(* answer only if one of the turns does.                                   *)
LEMMA WalkAnswers ==
    ASSUME NEW n \in Nat, NEW answers, DOMAIN answers \in SUBSET (0..n)
    PROVE  /\ Walk(answers) = "yes" <=> \A i \in DOMAIN answers : answers[i] = "yes"
           /\ Walk(answers) # "yes" =>
                  \E i \in DOMAIN answers : Walk(answers) = answers[i]
<1> DEFINE others == {i \in DOMAIN answers : answers[i] # "yes"}
           first  == CHOOSE i \in others : \A j \in others : i <= j
<1>1. CASE others = {}
  BY <1>1 DEF Walk
<1>2. CASE others # {}
  <2>1. \E i \in others : \A j \in others : i <= j
    BY <1>2, FirstPlace
  <2>2. first \in others
    BY <2>1
  <2>3. Walk(answers) = answers[first]
    BY <1>2 DEF Walk
  <2> QED
    BY <2>2, <2>3
<1> QED
  BY <1>1, <1>2

(* An InnerSpec whose slots are in the order of the keys, as those of the  *)
(* trees are.                                                              *)
InOrder(spec) ==
    /\ spec # None
    /\ IsSequence(spec.child_order)
    /\ spec.child_order # <<>>
    /\ InSlotOrder(spec.child_order)
    /\ {spec.min_prefix_length, spec.max_prefix_length, spec.child_size} \subseteq Nat

LEMMA SortedInOrder ==
    ASSUME NEW t \in SortedTrees
    PROVE  /\ InOrder(t.spec.inner_spec) /\ t \in Trees
           /\ LastBranch(t.spec.inner_spec) = Arity(t.spec) - 1
<1>1. t \in Trees /\ t.spec.inner_spec # None
  BY TreeLayout DEF SortedTrees
<1>2. IsProofSpec(t.spec)
  BY <1>1, TreesAssumption
<1> QED
  BY <1>1, <1>2 DEF InOrder, IsProofSpec, SortedTrees, LastBranch, Arity

(* A branch is the place of its slot. *)
LEMMA PlaceOfBranch ==
    ASSUME NEW spec, InOrder(spec)
    PROVE  /\ LastBranch(spec) \in Nat
           /\ \A b \in 0..LastBranch(spec) :
                  /\ Positions(spec, b) = {b} /\ HasBranch(spec, b)
                  /\ spec.child_order[b + 1] = b
<1> DEFINE last  == LastBranch(spec)
           order == spec.child_order
<1>1. /\ DOMAIN order = 1..Len(order) /\ Len(order) \in Nat /\ order # <<>>
      /\ \A i \in 1..Len(order) : order[i] = i - 1
  BY SequenceType DEF InOrder, InSlotOrder
<1>2. Len(order) # 0
  BY <1>1 DEF InOrder
<1>3. last \in Nat /\ Len(order) = last + 1
  BY <1>1, <1>2 DEF LastBranch
<1> HIDE DEF order
<1>4. ASSUME NEW b \in 0..last
      PROVE  Positions(spec, b) = {b} /\ HasBranch(spec, b) /\ order[b + 1] = b
  <2>1. b + 1 \in 1..Len(order) /\ (b + 1) - 1 = b
    BY <1>3
  <2>2. order[b + 1] = b
    BY <1>1, <2>1
  <2>3. \A i \in 0..last : order[i + 1] = b => i = b
    <3> TAKE i \in 0..last
    <3>1. i + 1 \in 1..Len(order) /\ (i + 1) - 1 = i
      BY <1>3
    <3> QED
      BY <1>1, <3>1
  <2>4. \A j \in 1..b : order[j] # b
    <3> TAKE j \in 1..b
    <3>1. j \in 1..Len(order) /\ j - 1 # b
      BY <1>3
    <3> QED
      BY <1>1, <3>1
  <2>5. Positions(spec, b) = {b}
    BY <2>2, <2>3, <2>4 DEF Positions, order
  <2>6. b \in Range(order)
    BY <1>1, <2>1, <2>2 DEF Range
  <2> QED
    BY <2>2, <2>5, <2>6 DEF HasBranch, order
<1> QED
  BY <1>3, <1>4 DEF order

LEMMA GoPadding ==
    ASSUME NEW spec, InOrder(spec), NEW op, IsInnerOp(op),
           NEW b \in 0..LastBranch(spec)
    PROVE  GoHasPadding(spec, op, b) <=> HasPadding(spec, op, b)
<1> DEFINE low  == b * spec.child_size
           len  == Len(op.prefix)
<1>1. Positions(spec, b) = {b}
  BY PlaceOfBranch
<1>2. /\ spec.child_size \in Nat /\ b \in Nat
      /\ spec.min_prefix_length \in Nat /\ spec.max_prefix_length \in Nat
  BY PlaceOfBranch DEF InOrder
<1>3. low \in Nat /\ len \in Nat
  BY <1>2, SequenceType DEF IsInnerOp
<1>4. (len - low \in spec.min_prefix_length..spec.max_prefix_length) <=>
      (len \in (low + spec.min_prefix_length)..(low + spec.max_prefix_length))
  <2> HIDE DEF low, len
  <2> QED
    BY <1>2, <1>3
<1>5. GoHasPadding(spec, op, b) <=>
          /\ len - low \in spec.min_prefix_length..spec.max_prefix_length
          /\ Len(op.suffix) = (LastBranch(spec) - b) * spec.child_size
  BY <1>1 DEF GoHasPadding
<1> QED
  BY <1>4, <1>5 DEF HasPadding

(* The branch that Go finds is the first that has the padding. *)
LEMMA GoOrderIsOrder ==
    ASSUME NEW spec, InOrder(spec), NEW op, IsInnerOp(op), NEW b
    PROVE  b \in GoOrders(spec, op) <=> b \in 0..LastBranch(spec) /\ IsOrder(spec, op, b)
<1> DEFINE last == LastBranch(spec)
<1>1. last \in Nat
  BY PlaceOfBranch
<1>2. ASSUME b \in GoOrders(spec, op)
      PROVE  b \in 0..last /\ IsOrder(spec, op, b)
  <2>1. /\ b \in 0..last /\ GoHasPadding(spec, op, b)
        /\ \A a \in 0..b : (a \in 0..last /\ GoHasPadding(spec, op, a)) => a = b
    BY <1>2 DEF GoOrders
  <2>2. \A a \in 0..b : a \in 0..last
    BY <1>1, <2>1
  <2>3. b \in Padded(spec, op)
    BY <2>1, GoPadding DEF Padded
  <2>4. \A a \in 0..b : HasBranch(spec, a)
    BY <2>2, PlaceOfBranch
  <2>5. \A a \in Padded(spec, op) : b <= a
    <3> SUFFICES ASSUME NEW a \in Padded(spec, op), a < b PROVE FALSE
      BY <1>1, <2>1 DEF Padded
    <3>1. a \in 0..last /\ GoHasPadding(spec, op, a) /\ a \in 0..b
      BY <2>1, GoPadding DEF Padded
    <3> QED
      BY <2>1, <3>1
  <2> QED
    BY <2>1, <2>3, <2>4, <2>5 DEF IsOrder
<1>3. ASSUME b \in 0..last, IsOrder(spec, op, b)
      PROVE  b \in GoOrders(spec, op)
  <2>1. b \in {x \in 0..last : GoHasPadding(spec, op, x)}
    BY <1>3, GoPadding DEF IsOrder, Padded
  <2>2. ASSUME NEW a \in 0..b
        PROVE  /\ Positions(spec, a) # {}
               /\ (a \in 0..last /\ GoHasPadding(spec, op, a)) => a = b
    <3>1. a \in 0..last
      BY <1>1, <1>3
    <3>2. Positions(spec, a) # {}
      BY <3>1, PlaceOfBranch
    <3>3. GoHasPadding(spec, op, a) => b <= a
      BY <1>3, <3>1, GoPadding DEF IsOrder, Padded
    <3> QED
      BY <1>1, <1>3, <3>2, <3>3
  <2> QED
    BY <2>1, <2>2 DEF GoOrders
<1> QED
  BY <1>2, <1>3

(* There is one such branch at most. *)
LEMMA OneOrder ==
    ASSUME NEW spec, InOrder(spec), NEW op, NEW a, NEW b,
           IsOrder(spec, op, a), IsOrder(spec, op, b)
    PROVE  a = b
<1>1. a <= b /\ b <= a /\ a \in 0..LastBranch(spec) /\ b \in 0..LastBranch(spec)
  BY DEF IsOrder, Padded
<1>2. LastBranch(spec) \in Nat
  BY PlaceOfBranch
<1> QED
  BY <1>1, <1>2

(* Children that are compared and found empty are so, and the comparison   *)
(* stays in range when the children do.                                    *)
LEMMA GoChildrenCompared ==
    ASSUME NEW spec, InOrder(spec), NEW bytes, Len(bytes) \in Nat, NEW from \in Nat,
           NEW n \in 0..LastBranch(spec), from + n * spec.child_size <= Len(bytes)
    PROVE  LET found == EmptyChildren(spec, bytes, from, n)
           IN  /\ found = "yes" <=>
                      \A b \in 0..(n - 1) : ChildBytes(spec, bytes, from, b) = spec.empty_child
               /\ found \in {"yes", "no"}
<1> DEFINE answers == [b \in 0..(n - 1) |-> EmptyChild(spec, bytes, from, b)]
           empty(b) == ChildBytes(spec, bytes, from, b) = spec.empty_child
<1>1. LastBranch(spec) \in Nat /\ spec.child_size \in Nat
  BY PlaceOfBranch DEF InOrder
<1>2. ASSUME NEW b \in 0..(n - 1)
      PROVE  answers[b] = IF empty(b) THEN "yes" ELSE "no"
  <2>1. b \in 0..LastBranch(spec)
    BY <1>1
  <2>2. Positions(spec, b) = {b}
    BY <2>1, PlaceOfBranch
  <2>3. (CHOOSE i \in Positions(spec, b) : TRUE) = b /\ Positions(spec, b) # {}
    BY <2>2
  <2>4. ~(from + (b + 1) * spec.child_size > Len(bytes))
    <3> DEFINE w == spec.child_size
               c == b + 1
               len == Len(bytes)
    <3>1. c \in Nat /\ n \in Nat /\ c <= n /\ w \in Nat /\ len \in Nat
      BY <1>1
    <3>2. from + n * w <= len
      OBVIOUS
    <3> HIDE DEF w, c, len
    <3>3. c * w <= n * w /\ c * w \in Nat /\ n * w \in Nat
      BY <3>1
    <3>4. ~(from + c * w > len)
      BY <3>1, <3>2, <3>3
    <3> QED
      BY <3>4 DEF w, c, len
  <2> QED
    BY <2>3, <2>4 DEF EmptyChild
<1>3. DOMAIN answers = 0..(n - 1) /\ DOMAIN answers \in SUBSET (0..n) /\ n \in Nat
  BY <1>1
<1>4. EmptyChildren(spec, bytes, from, n) = Walk(answers)
  BY DEF EmptyChildren
<1> HIDE DEF answers
<1>5. /\ Walk(answers) = "yes" <=> \A i \in 0..(n - 1) : answers[i] = "yes"
      /\ Walk(answers) # "yes" => \E i \in 0..(n - 1) : Walk(answers) = answers[i]
  BY <1>3, WalkAnswers
<1> HIDE DEF empty
<1>6. /\ Walk(answers) = "yes" <=> \A i \in 0..(n - 1) : empty(i)
      /\ Walk(answers) \in {"yes", "no"}
  BY <1>2, <1>5
<1> QED
  BY <1>4, <1>6 DEF empty

(* What Go takes for a left-most step is one for Rust as well. *)
LEMMA GoLeftBranches ==
    ASSUME NEW spec, InOrder(spec), NEW op, IsInnerOp(op)
    PROVE  /\ GoLeftBranchesAreEmpty(spec, op) = "yes" <=>
                  LeftBranchesAreEmpty(spec, op)
           /\ GoLeftBranchesAreEmpty(spec, op) \in {"yes", "no", "err"}
<1> DEFINE branch == CHOOSE b \in GoOrders(spec, op) : TRUE
           from   == Len(op.prefix) - branch * spec.child_size
           end    == EmptyChildren(spec, op.prefix, from, branch)
           go     == GoLeftBranchesAreEmpty(spec, op)
           Empty(n, f) == \A i \in 0..(n - 1) :
                              ChildBytes(spec, op.prefix, f, i) = spec.empty_child
<1>1. CASE GoOrders(spec, op) = {}
  <2>1. ~LeftBranchesAreEmpty(spec, op)
    BY <1>1, GoOrderIsOrder DEF LeftBranchesAreEmpty
  <2> QED
    BY <1>1, <2>1 DEF GoLeftBranchesAreEmpty
<1>2. CASE GoOrders(spec, op) # {}
  <2>1. branch \in 0..LastBranch(spec) /\ IsOrder(spec, op, branch)
    <3>1. branch \in GoOrders(spec, op)
      BY <1>2
    <3> HIDE DEF branch
    <3> QED
      BY <3>1, GoOrderIsOrder
  <2>2. LeftBranchesAreEmpty(spec, op) <=> branch # 0 /\ from >= 0 /\ Empty(branch, from)
    <3> HIDE DEF branch
    <3>1. \A b \in 0..LastBranch(spec) : IsOrder(spec, op, b) => b = branch
      BY <2>1, OneOrder
    <3> QED
      BY <2>1, <3>1 DEF LeftBranchesAreEmpty
  <2>3. /\ LastBranch(spec) \in Nat /\ spec.child_size \in Nat
        /\ Len(op.prefix) \in Nat
    BY PlaceOfBranch, SequenceType DEF InOrder, IsInnerOp
  <2>4. from \in Int /\ (from >= 0 => from + branch * spec.child_size <= Len(op.prefix))
    <3> DEFINE w == branch * spec.child_size
               len == Len(op.prefix)
    <3>1. w \in Nat /\ len \in Nat /\ from = len - w
      BY <2>1, <2>3
    <3> HIDE DEF w, len, from
    <3>2. from \in Int /\ (from >= 0 => from + w <= len)
      BY <3>1
    <3> QED
      BY <3>2 DEF w, len
  <2>5. CASE branch = 0 \/ from < 0
    <3>1. go = "no"
      BY <1>2, <2>5 DEF GoLeftBranchesAreEmpty
    <3>2. ~LeftBranchesAreEmpty(spec, op)
      <4> HIDE DEF branch, from
      <4> QED
        BY <2>2, <2>4, <2>5
    <3> QED
      BY <3>1, <3>2
  <2>6. CASE ~(branch = 0 \/ from < 0)
    <3>1. go = end
      BY <1>2, <2>6 DEF GoLeftBranchesAreEmpty
    <3> HIDE DEF branch, from, Empty, go
    <3>2. from \in Nat /\ from + branch * spec.child_size <= Len(op.prefix)
      BY <2>4, <2>6
    <3>3. /\ end = "yes" <=> Empty(branch, from)
          /\ end \in {"yes", "no"}
      BY <2>1, <2>3, <3>2, GoChildrenCompared DEF Empty
    <3>4. branch # 0 /\ from >= 0
      BY <2>6, <3>2
    <3> QED
      BY <2>2, <3>1, <3>3, <3>4 DEF go
  <2> QED
    BY <2>5, <2>6
<1> QED
  BY <1>1, <1>2

(* The suffix of an operation over a slot holds the slots on its right, of *)
(* which those that are found empty have placeholders.                     *)
LEMMA EmptySuffixSlot ==
    ASSUME NEW t \in Trees, NEW n \in Inners(t), NEW op, IsInnerOp(op),
           NEW m, NEW j, IsOverSlot(t, n, op, m, j),
           NEW i \in 1..Arity(t.spec), i > j,
           ChildBytes(t.spec.inner_spec, op.suffix, 0, i - j - 1) =
               t.spec.inner_spec.empty_child
    PROVE  t.kids[n][i] = None
<1> DEFINE inner_spec == t.spec.inner_spec
           width == inner_spec.child_size
           size  == DigestLen(inner_spec.hash)
           arity == Arity(t.spec)
           empty == inner_spec.empty_child
           off   == t.offset[n]
           c == i - j - 1
           a == c * width + 1
           b == (c + 1) * width
           k == width - size + 1
<1>1. /\ width \in Nat \ {0} /\ size \in Nat \ {0} /\ size <= width
      /\ arity \in Nat /\ arity >= 1
  BY TreeLayout
<1>2. j \in 1..arity /\ i \in 1..arity /\ c \in Nat /\ c + 1 <= arity - j
  BY <1>1 DEF IsOverSlot
<1>3. Len(op.suffix) = (arity - j) * width /\ Len(op.suffix) \in Nat
  BY DEF IsOverSlot
<1>4. SubSeq(op.suffix, a, b) = empty
  <2>1. 0 + c * width + 1 = a /\ 0 + (c + 1) * width = b
    BY <1>1, <1>2
  <2> QED
    BY <2>1 DEF ChildBytes
<1>5. /\ a \in Nat /\ b \in Nat /\ b - a + 1 = width
      /\ 1 <= a /\ a <= b /\ b <= Len(op.suffix)
  <2>1. (c + 1) * width <= (arity - j) * width
    <3> DEFINE d == arity - j
               e == c + 1
    <3>1. d \in Nat /\ e \in Nat /\ e <= d /\ width \in Nat
      BY <1>1, <1>2
    <3> HIDE DEF d, e, width
    <3>2. e * width <= d * width
      BY <3>1
    <3> QED
      BY <3>2 DEF d, e
  <2>2. (c + 1) * width = c * width + width /\ c * width \in Nat
    <3> HIDE DEF c, width
    <3> QED
      BY <1>1, <1>2
  <2> DEFINE x == c * width
             y == (arity - j) * width
             z == Len(op.suffix)
  <2>3. x \in Nat /\ x + width <= y /\ z = y /\ a = x + 1 /\ b = x + width
    BY <1>3, <2>1, <2>2
  <2> HIDE DEF x, y, z, a, b, width
  <2>4. /\ a \in Nat /\ b \in Nat /\ b - a + 1 = width
        /\ 1 <= a /\ a <= b /\ b <= z
    BY <1>1, <1>3, <2>3
  <2> QED
    BY <2>4 DEF z
<1>6. k \in 1..width
  BY <1>1
<1>7. Len(empty) = width /\ empty[k] = op.suffix[a + k - 1]
  <2>1. IsSequence(op.suffix)
    BY DEF IsInnerOp
  <2> HIDE DEF width, k, a, b, empty
  <2> QED
    BY <1>4, <1>5, <1>6, <2>1, SubSeqBytes
<1>8. op.suffix[a + k - 1] \in {Byte(x) : x \in 0..(Radix - 1)}
  BY <1>6, <1>7, EmptyChildBytes
<1> DEFINE p == Len(op.prefix)
           s == a + k - 1
           o == ChildOffset(t, n, i)
<1>9. s \in 1..Len(op.suffix)
  <2> HIDE DEF a, b, k, width
  <2> QED
    BY <1>3, <1>5, <1>6
<1>10. t.image[n][p + size + s] = op.suffix[s]
  BY <1>9 DEF IsOverSlot
<1>11. o + 1 = p + size + s
  <2>1. off \in Int
    BY OffsetType
  <2>2. p = off + (j - 1) * width /\ o = off + (i - 1) * width
    BY DEF IsOverSlot, ChildOffset
  <2>3. (i - 1) * width = (j - 1) * width + c * width + width
    <3>1. i - 1 = (j - 1) + c + 1 /\ i \in Int /\ j \in Int
      BY <1>2
    <3> DEFINE u == j - 1
    <3>2. i - 1 = u + c + 1 /\ u \in Int /\ c \in Nat
      BY <1>2, <3>1
    <3> HIDE DEF u, c, width
    <3>3. (i - 1) * width = u * width + c * width + width
      BY <1>1, <3>2
    <3> QED
      BY <3>3 DEF u
  <2> DEFINE x == c * width
             y == (j - 1) * width
             z == (i - 1) * width
  <2>4. x \in Int
    BY <1>1, <1>2
  <2>5. y \in Int
    BY <1>1, <1>2
  <2>6. z = y + x + width
    BY <2>3
  <2>7. p = off + y /\ o = off + z
    BY <2>2
  <2>8. s = x + 1 + k - 1
    OBVIOUS
  <2> HIDE DEF x, y, z, off, p, o, s, width, size
  <2> QED
    BY <1>1, <2>1, <2>4, <2>5, <2>6, <2>7, <2>8
<1>12. t.image[n][o + 1] \in {Byte(x) : x \in 0..(Radix - 1)}
  <2> HIDE DEF o, p, s, size
  <2> QED
    BY <1>8, <1>10, <1>11 DEF s
<1> QED
  BY <1>12, PlainSlotIsEmpty

LEMMA GoRightBranches ==
    ASSUME NEW spec, InOrder(spec), NEW op, IsInnerOp(op)
    PROVE  /\ GoRightBranchesAreEmpty(spec, op) = "yes" <=> EmptyOnRight(spec, op)
           /\ GoRightBranchesAreEmpty(spec, op) \in {"yes", "no", "err"}
<1> DEFINE branch == CHOOSE b \in GoOrders(spec, op) : TRUE
           right  == LastBranch(spec) - branch
           end    == EmptyChildren(spec, op.suffix, 0, right)
           go     == GoRightBranchesAreEmpty(spec, op)
           Empty(n) == \A i \in 0..(n - 1) :
                           ChildBytes(spec, op.suffix, 0, i) = spec.empty_child
<1>1. CASE GoOrders(spec, op) = {}
  <2>1. ~EmptyOnRight(spec, op)
    BY <1>1, GoOrderIsOrder DEF EmptyOnRight
  <2> QED
    BY <1>1, <2>1 DEF GoRightBranchesAreEmpty
<1>2. CASE GoOrders(spec, op) # {}
  <2>1. branch \in 0..LastBranch(spec) /\ IsOrder(spec, op, branch)
    <3>1. branch \in GoOrders(spec, op)
      BY <1>2
    <3> HIDE DEF branch
    <3> QED
      BY <3>1, GoOrderIsOrder
  <2>2. EmptyOnRight(spec, op) <=> branch # LastBranch(spec) /\ Empty(right)
    <3> HIDE DEF branch
    <3>1. \A b \in 0..LastBranch(spec) : IsOrder(spec, op, b) => b = branch
      BY <2>1, OneOrder
    <3> QED
      BY <2>1, <3>1 DEF EmptyOnRight
  <2>3. /\ LastBranch(spec) \in Nat /\ Len(op.suffix) \in Nat
        /\ Len(op.suffix) = right * spec.child_size
    BY <2>1, PlaceOfBranch, SequenceType DEF IsInnerOp, IsOrder, Padded, HasPadding
  <2>4. right \in 0..LastBranch(spec) /\ (right = 0 <=> branch = LastBranch(spec))
    <3> HIDE DEF branch
    <3> QED
      BY <2>1, <2>3
  <2>5. CASE right = 0
    <3>1. go = "no"
      BY <1>2, <2>5 DEF GoRightBranchesAreEmpty
    <3> QED
      BY <2>2, <2>4, <2>5, <3>1
  <2>6. CASE right # 0
    <3>1. go = end
      BY <1>2, <2>3, <2>6 DEF GoRightBranchesAreEmpty
    <3> DEFINE zero == 0
    <3>2. zero \in Nat /\ zero = 0 /\ zero + right * spec.child_size <= Len(op.suffix)
      <4> DEFINE len == Len(op.suffix)
      <4>1. 0 + len <= len
        BY <2>3
      <4> QED
        BY <2>3, <4>1
    <3> HIDE DEF right, zero
    <3>3. /\ EmptyChildren(spec, op.suffix, zero, right) = "yes" <=>
                 \A b \in 0..(right - 1) :
                     ChildBytes(spec, op.suffix, zero, b) = spec.empty_child
          /\ EmptyChildren(spec, op.suffix, zero, right) \in {"yes", "no"}
      BY <2>3, <2>4, <3>2, GoChildrenCompared
    <3>4. (go = "yes" <=> Empty(right)) /\ go \in {"yes", "no"}
      BY <3>1, <3>2, <3>3
    <3> HIDE DEF go, Empty, branch
    <3> QED
      BY <2>2, <2>4, <2>6, <3>4 DEF go
  <2> QED
    BY <2>5, <2>6
<1> QED
  BY <1>1, <1>2

(* In a tree's node there is nothing on the right then. *)
LEMMA EmptyRightIsClear ==
    ASSUME NEW t \in SortedTrees, NEW op, IsInnerOp(op),
           EmptyOnRight(t.spec.inner_spec, op)
    PROVE  ClearOnRight(t, op)
<1> DEFINE spec == t.spec.inner_spec
<1>1. PICK branch \in 0..LastBranch(spec) :
        /\ IsOrder(spec, op, branch)
        /\ \A i \in 0..(LastBranch(spec) - branch - 1) :
               ChildBytes(spec, op.suffix, 0, i) = spec.empty_child
  BY DEF EmptyOnRight
<1>2. /\ LastBranch(spec) \in Nat /\ LastBranch(spec) = Arity(t.spec) - 1
      /\ t \in Trees /\ Arity(t.spec) \in Nat
  BY PlaceOfBranch, SortedInOrder, TreeLayout
<1>3. ASSUME NEW n \in Inners(t), NEW m \in t.nodes,
             NEW i \in 1..Arity(t.spec), NEW j \in 1..Arity(t.spec),
             IsOverSlot(t, n, op, m, j), i > j
      PROVE  t.kids[n][i] = None
  <2>1. j = branch + 1
    BY <1>1, <1>2, <1>3, PaddingTellsSlot DEF IsOrder, Padded
  <2>2. i - j - 1 \in 0..(LastBranch(spec) - branch - 1)
    <3> HIDE DEF spec
    <3> QED
      BY <1>1, <1>2, <1>3, <2>1
  <2>3. ChildBytes(spec, op.suffix, 0, i - j - 1) = spec.empty_child
    BY <1>1, <2>2
  <2> QED
    BY <1>2, <1>3, <2>3, EmptySuffixSlot
<1> QED
  BY <1>3 DEF ClearOnRight

(* A walk along an edge does not panic, and confirms what Rust does but    *)
(* for the placeholders on the right.                                      *)
LEMMA GoLeftEdge ==
    ASSUME NEW spec, InOrder(spec), NEW path, NEW n \in Nat, DOMAIN path = 1..n,
           \A k \in 1..n : IsInnerOp(path[k])
    PROVE  /\ GoIsLeftMost(spec, path) = "yes" <=> LeftMost(spec, path, n)
           /\ GoIsLeftMost(spec, path) \in {"yes", "no", "err"}
<1> DEFINE answers == [k \in DOMAIN path |-> IF GoHasPadding(spec, path[k], 0) THEN "yes"
                                             ELSE GoLeftBranchesAreEmpty(spec, path[k])]
<1>1. LastBranch(spec) \in Nat /\ 0 \in 0..LastBranch(spec)
  BY PlaceOfBranch
<1>2. GoIsLeftMost(spec, path) = Walk(answers)
  <2>1. \A b \in 0..LastBranch(spec) : Positions(spec, b) = {b}
    BY PlaceOfBranch
  <2>2. Positions(spec, 0) = {0}
    BY <1>1, <2>1
  <2>3. Positions(spec, 0) # {}
    BY <2>2
  <2> QED
    BY <2>3 DEF GoIsLeftMost, InOrder
<1>3. /\ DOMAIN answers = 1..n /\ DOMAIN answers \in SUBSET (0..n)
      /\ \A k \in 1..n : answers[k] = IF GoHasPadding(spec, path[k], 0) THEN "yes"
                                      ELSE GoLeftBranchesAreEmpty(spec, path[k])
  OBVIOUS
<1> HIDE DEF answers
<1>4. /\ Walk(answers) = "yes" <=> \A k \in 1..n : answers[k] = "yes"
      /\ Walk(answers) # "yes" => \E k \in 1..n : Walk(answers) = answers[k]
  BY <1>3, WalkAnswers
<1>5. \A k \in 1..n : answers[k] \in {"yes", "no", "err"}
  BY <1>3, GoLeftBranches
<1>6. ASSUME NEW k \in 1..n
      PROVE  answers[k] = "yes" <=> IsLeftMostStep(spec, path[k])
  <2>1. IsInnerOp(path[k])
    OBVIOUS
  <2>2. GoHasPadding(spec, path[k], 0) <=> HasPadding(spec, path[k], 0)
    BY <1>1, <2>1, GoPadding
  <2> QED
    BY <1>3, <2>1, <2>2, GoLeftBranches DEF IsLeftMostStep
<1>7. Walk(answers) = "yes" <=> LeftMost(spec, path, n)
  BY <1>4, <1>6 DEF LeftMost
<1>8. Walk(answers) \in {"yes", "no", "err"}
  BY <1>4, <1>5
<1> QED
  BY <1>2, <1>7, <1>8

LEMMA GoRightEdge ==
    ASSUME NEW spec, InOrder(spec), NEW path, NEW n \in Nat, DOMAIN path = 1..n,
           \A k \in 1..n : IsInnerOp(path[k])
    PROVE  /\ GoIsRightMost(spec, path) = "yes" <=> \A k \in 1..n : StepOnRightEdge(spec, path[k])
           /\ GoIsRightMost(spec, path) \in {"yes", "no", "err"}
<1> DEFINE last == LastBranch(spec)
           answers == [k \in DOMAIN path |-> IF GoHasPadding(spec, path[k], last) THEN "yes"
                                             ELSE GoRightBranchesAreEmpty(spec, path[k])]
<1>1. last \in Nat /\ last \in 0..last
  BY PlaceOfBranch
<1>2. GoIsRightMost(spec, path) = Walk(answers)
  <2>1. Positions(spec, last) # {}
    BY <1>1, PlaceOfBranch
  <2> QED
    BY <2>1 DEF GoIsRightMost, InOrder
<1>3. /\ DOMAIN answers = 1..n /\ DOMAIN answers \in SUBSET (0..n)
      /\ \A k \in 1..n : answers[k] = IF GoHasPadding(spec, path[k], last) THEN "yes"
                                      ELSE GoRightBranchesAreEmpty(spec, path[k])
  OBVIOUS
<1> HIDE DEF answers
<1>4. /\ Walk(answers) = "yes" <=> \A k \in 1..n : answers[k] = "yes"
      /\ Walk(answers) # "yes" => \E k \in 1..n : Walk(answers) = answers[k]
  BY <1>3, WalkAnswers
<1>5. \A k \in 1..n : answers[k] \in {"yes", "no", "err"}
  BY <1>3, GoRightBranches
<1>6. ASSUME NEW k \in 1..n
      PROVE  answers[k] = "yes" <=> StepOnRightEdge(spec, path[k])
  <2>1. IsInnerOp(path[k])
    OBVIOUS
  <2>2. GoHasPadding(spec, path[k], last) <=> HasPadding(spec, path[k], last)
    BY <1>1, <2>1, GoPadding
  <2> QED
    BY <1>3, <2>1, <2>2, GoRightBranches DEF StepOnRightEdge
<1>7. Walk(answers) = "yes" <=> \A k \in 1..n : StepOnRightEdge(spec, path[k])
  BY <1>4, <1>6
<1>8. Walk(answers) \in {"yes", "no", "err"}
  BY <1>4, <1>5
<1> QED
  BY <1>2, <1>7, <1>8

(* What these edges mean in a tree. *)
LEMMA GoEdgesAreClear ==
    ASSUME NEW t \in SortedTrees, NEW path, NEW n \in Nat, DOMAIN path = 1..n,
           \A k \in 1..n : IsInnerOp(path[k])
    PROVE  LET spec == t.spec.inner_spec
           IN  /\ GoIsLeftMost(spec, path) = "yes" => ClearPathOnLeft(t, path, n)
               /\ GoIsRightMost(spec, path) = "yes" => ClearPathOnRight(t, path, n)
<1> DEFINE spec == t.spec.inner_spec
<1>1. InOrder(spec) /\ t \in Trees
  BY SortedInOrder
<1>2. ASSUME GoIsLeftMost(spec, path) = "yes", NEW k \in 1..n
      PROVE  ClearOnLeft(t, path[k])
  <2>1. IsLeftMostStep(spec, path[k])
    BY <1>1, <1>2, GoLeftEdge DEF LeftMost
  <2> QED
    BY <1>1, <2>1, EdgeStepsAreClear
<1>3. ASSUME GoIsRightMost(spec, path) = "yes", NEW k \in 1..n
      PROVE  ClearOnRight(t, path[k])
  <2>1. StepOnRightEdge(spec, path[k]) /\ IsInnerOp(path[k])
    BY <1>1, <1>3, GoRightEdge
  <2> QED
    BY <1>1, <2>1, EdgeStepsAreClear, EmptyRightIsClear DEF StepOnRightEdge, IsRightMostStep
<1> QED
  BY <1>2, <1>3 DEF ClearPathOnLeft, ClearPathOnRight

(* The steps that Go puts beside each other are those that Rust does. *)
LEMMA GoLeftStep ==
    ASSUME NEW spec, InOrder(spec), NEW op, NEW other, IsInnerOp(op), IsInnerOp(other)
    PROVE  GoIsLeftStep(spec, op, other) = "yes" <=> IsLeftStep(spec, op, other)
<1> DEFINE orders == GoOrders(spec, op) \X GoOrders(spec, other)
<1>1. LastBranch(spec) \in Nat
  BY PlaceOfBranch
<1>2. (\E o \in orders : o[2] = o[1] + 1) <=> IsLeftStep(spec, op, other)
  <2>1. ASSUME NEW o \in orders, o[2] = o[1] + 1
        PROVE  IsLeftStep(spec, op, other)
    <3>1. /\ o[1] \in 0..LastBranch(spec) /\ IsOrder(spec, op, o[1])
          /\ IsOrder(spec, other, o[1] + 1)
      BY <2>1, GoOrderIsOrder
    <3> QED
      BY <3>1 DEF IsLeftStep
  <2>2. ASSUME IsLeftStep(spec, op, other)
        PROVE  \E o \in orders : o[2] = o[1] + 1
    <3>1. PICK a \in 0..LastBranch(spec) : IsOrder(spec, op, a) /\ IsOrder(spec, other, a + 1)
      BY <2>2 DEF IsLeftStep
    <3> DEFINE b == a + 1
    <3>2. IsOrder(spec, other, b) /\ b \in 0..LastBranch(spec)
      BY <3>1 DEF IsOrder, Padded
    <3> HIDE DEF b
    <3>3. <<a, b>> \in orders
      BY <3>1, <3>2, GoOrderIsOrder
    <3> QED
      BY <3>3 DEF b
  <2> QED
    BY <2>1, <2>2
<1>3. CASE orders = {}
  BY <1>2, <1>3 DEF GoIsLeftStep
<1>4. CASE orders # {}
  <2>1. GoIsLeftStep(spec, op, other) =
            IF \E o \in orders : o[2] = o[1] + 1 THEN "yes" ELSE "no"
    BY <1>4 DEF GoIsLeftStep
  <2> HIDE DEF orders
  <2> QED
    BY <1>2, <2>1
<1> QED
  BY <1>3, <1>4

(* An operation over a slot is at a branch. *)
LEMMA SlotHasOrder ==
    ASSUME NEW t \in SortedTrees, NEW n \in Inners(t), NEW m \in t.nodes, NEW op,
           IsInnerOp(op), IsStepOf(t, op, n, m)
    PROVE  GoOrders(t.spec.inner_spec, op) # {}
<1> DEFINE spec == t.spec.inner_spec
           width == spec.child_size
<1>0. InOrder(spec)
  BY SortedInOrder
<1>1. /\ t \in Trees /\ LastBranch(spec) \in Nat
      /\ LastBranch(spec) = Arity(t.spec) - 1
      /\ width \in Nat /\ Arity(t.spec) \in Nat
      /\ spec.min_prefix_length \in Nat /\ spec.max_prefix_length \in Nat
  BY <1>0, PlaceOfBranch, SortedInOrder, TreeLayout
<1>2. PICK j \in 1..Arity(t.spec) : IsOverSlot(t, n, op, m, j)
  BY <1>1, StepIsOverSlot
<1> DEFINE b == j - 1
<1>3. b \in 0..LastBranch(spec) /\ Arity(t.spec) - j = LastBranch(spec) - b
  BY <1>1
<1>4. HasPadding(spec, op, b)
  <2>1. t.offset[n] \in spec.min_prefix_length..spec.max_prefix_length
    BY <1>1, TreesAssumption DEF WellFormedTree, WellFormedInner
  <2>2. Len(op.prefix) = t.offset[n] + b * width
    BY <1>2 DEF IsOverSlot, ChildOffset
  <2>3. Len(op.suffix) = (LastBranch(spec) - b) * width
    BY <1>2, <1>3 DEF IsOverSlot
  <2>4. Len(op.prefix) \in (b * width + spec.min_prefix_length)..
                           (b * width + spec.max_prefix_length)
    <3> DEFINE low == b * width
               off == t.offset[n]
               len == Len(op.prefix)
    <3>1. low \in Nat /\ off \in spec.min_prefix_length..spec.max_prefix_length
          /\ len = off + low
      <4>1. b \in Nat /\ width \in Nat
        BY <1>1, <1>3
      <4>2. low \in Nat
        <5> HIDE DEF b, width
        <5> QED
          BY <4>1
      <4> QED
        BY <2>1, <2>2, <4>2
    <3> HIDE DEF low, off, len, spec
    <3>2. len \in (low + spec.min_prefix_length)..(low + spec.max_prefix_length)
      BY <1>1, <3>1
    <3> QED
      BY <3>2 DEF low, len
  <2> QED
    BY <2>3, <2>4 DEF HasPadding
<1>5. \A a \in 0..LastBranch(spec) : GoHasPadding(spec, op, a) => a = b
  <2> SUFFICES ASSUME NEW a \in 0..LastBranch(spec), GoHasPadding(spec, op, a)
               PROVE  a = b
    OBVIOUS
  <2>1. HasPadding(spec, op, a) /\ a \in Int
    BY <1>0, GoPadding
  <2>2. j = a + 1
    BY <1>1, <1>2, <2>1, PaddingTellsSlot
  <2> QED
    BY <2>1, <2>2
<1>6. GoHasPadding(spec, op, b)
  BY <1>0, <1>3, <1>4, GoPadding
<1>7. \A a \in 0..b : a \in 0..LastBranch(spec) /\ Positions(spec, a) # {}
  <2> TAKE a \in 0..b
  <2>1. a \in 0..LastBranch(spec)
    BY <1>1, <1>3
  <2> QED
    BY <1>0, <2>1, PlaceOfBranch
<1> HIDE DEF b, spec
<1>8. b \in GoOrders(spec, op)
  BY <1>3, <1>5, <1>6, <1>7 DEF GoOrders
<1> QED
  BY <1>8 DEF spec

-----------------------------------------------------------------------------
(* A proof of absence with sides that Go has verified.                     *)

(* A verified side comes up from a leaf of the tree. *)
GoSide(t, p) ==
    /\ OpsOf(p, t.spec)
    /\ Hashes(p)[Len(p.path)] = t.hash[t.root]

LEMMA GoSideFacts ==
    ASSUME NEW t \in SortedTrees, NEW p, GoSide(t, p)
    PROVE  /\ IsExistenceProof(p) /\ LeadsTo(t, p, Len(p.path), t.root)
           /\ Len(p.path) \in Nat /\ DOMAIN p.path = 1..Len(p.path)
           /\ \A k \in 1..Len(p.path) : IsInnerOp(p.path[k])
<1>1. t \in Trees
  BY DEF SortedTrees
<1>2. IsExistenceProof(p) /\ LeadsTo(t, p, Len(p.path), t.root)
  BY <1>1, GoExistenceLeads DEF GoSide, OpsOf
<1>3. /\ Len(p.path) \in Nat /\ DOMAIN p.path = 1..Len(p.path)
      /\ \A k \in 1..Len(p.path) : IsInnerOp(p.path[k])
  BY <1>2, SequenceType DEF IsExistenceProof
<1> QED
  BY <1>2, <1>3

(* Two proofs of one leaf by one path. *)
OneWay(l, r) ==
    /\ SameSteps(l.path, r.path)
    /\ LeafImage(l.leaf, l.key, l.value) = LeafImage(r.leaf, r.key, r.value)

(* The paths of any other two sides part: neither is the end of the other. *)
LEMMA GoPathsPart ==
    ASSUME NEW t \in SortedTrees, NEW l, NEW r, GoSide(t, l), GoSide(t, r),
           ~OneWay(l, r)
    PROVE  LET n == CommonTop(l.path, r.path)
           IN  /\ n \in Nat /\ n < Len(l.path) /\ n < Len(r.path)
               /\ \A i \in 0..(n - 1) : SameFromTop(l.path, r.path, i)
<1> DEFINE p == l.path
           q == r.path
           n == CommonTop(p, q)
           spec == t.spec
<1>1. Len(p) \in Nat /\ Len(q) \in Nat
  BY GoSideFacts
<1>2. IsCommonTop(p, q, n)
  BY <1>1, CommonTopExists
<1> HIDE DEF n
<1>3. /\ n \in Nat /\ n <= Len(p) /\ n <= Len(q)
      /\ \A i \in 0..(n - 1) : SameFromTop(p, q, i)
  BY <1>1, <1>2 DEF IsCommonTop
<1>4. ASSUME n = Len(p) \/ n = Len(q) PROVE FALSE
  <2>1. IsSoundSpec(spec) /\ IsProofSpec(spec)
    BY TreesAssumption DEF WellFormedTree, SortedTrees
  <2> QED
    BY <1>3, <1>4, <2>1, UsedUpTogether DEF GoSide, OneWay
<1>5. n < Len(p) /\ n < Len(q)
  BY <1>1, <1>3, <1>4
<1> QED
  BY <1>3, <1>5 DEF n

(* Along one path the comparison of tops runs past the end. *)
LEMMA GoOneWayPanics ==
    ASSUME NEW spec, NEW p, NEW q, Len(p) \in Nat, SameSteps(p, q)
    PROVE  GoIsLeftNeighbor(spec, p, q) = "panic"
<1> DEFINE n == CommonTop(p, q)
<1>1. Len(q) = Len(p)
  BY DEF SameSteps
<1>2. IsCommonTop(p, q, n)
  BY <1>1, CommonTopExists
<1>3. \A i \in 0..(Len(p) - 1) : SameFromTop(p, q, i)
  BY SameAllTheWay
<1> HIDE DEF n
<1>4. n = Len(p)
  <2> DEFINE c == Len(p)
  <2>1. /\ c \in Nat /\ n \in 0..c
        /\ n < c => ~SameFromTop(p, q, n)
        /\ \A i \in 0..(c - 1) : SameFromTop(p, q, i)
    BY <1>1, <1>2, <1>3 DEF IsCommonTop
  <2> HIDE DEF c
  <2>2. n = c
    BY <2>1
  <2> QED
    BY <2>2 DEF c
<1>5. Len(p) - n = 0
  BY <1>4
<1> QED
  BY <1>5 DEF GoIsLeftNeighbor, n

(* Sides that Go finds placed leave no room for a key between them, and    *)
(* the check of their place panics only over two proofs of one leaf.       *)
LEMMA GoSidesPlaced ==
    ASSUME NEW t \in SortedTrees, NEW c, c.spec = t.spec,
           NEW l, NEW r, l = c.proof.left, r = c.proof.right,
           l # None \/ r # None,
           l # None => GoSide(t, l), r # None => GoSide(t, r),
           ~(l # None /\ r # None /\ OneWay(l, r))
    PROVE  /\ GoPlaced(c) = "yes" => SidesClose(t, l, r)
           /\ GoPlaced(c) \in {"yes", "no", "err"}
<1> DEFINE spec == t.spec.inner_spec
<1>1. t \in Trees /\ spec # None /\ InOrder(spec)
  BY SortedInOrder DEF InOrder
<1>2. CASE l = None
  <2>1. GoPlaced(c) = GoIsLeftMost(spec, r.path)
    BY <1>2 DEF GoPlaced
  <2>2. /\ IsExistenceProof(r) /\ LeadsTo(t, r, Len(r.path), t.root)
        /\ Len(r.path) \in Nat /\ DOMAIN r.path = 1..Len(r.path)
        /\ \A k \in 1..Len(r.path) : IsInnerOp(r.path[k])
    BY <1>2, GoSideFacts
  <2>3. /\ GoIsLeftMost(spec, r.path) = "yes" => ClearPathOnLeft(t, r.path, Len(r.path))
        /\ GoIsLeftMost(spec, r.path) \in {"yes", "no", "err"}
    BY <1>1, <2>2, GoLeftEdge, GoEdgesAreClear
  <2> QED
    BY <1>2, <2>1, <2>2, <2>3 DEF SidesClose
<1>3. CASE l # None /\ r = None
  <2>1. GoPlaced(c) = GoIsRightMost(spec, l.path)
    BY <1>3 DEF GoPlaced
  <2>2. /\ IsExistenceProof(l) /\ LeadsTo(t, l, Len(l.path), t.root)
        /\ Len(l.path) \in Nat /\ DOMAIN l.path = 1..Len(l.path)
        /\ \A k \in 1..Len(l.path) : IsInnerOp(l.path[k])
    BY <1>3, GoSideFacts
  <2>3. /\ GoIsRightMost(spec, l.path) = "yes" => ClearPathOnRight(t, l.path, Len(l.path))
        /\ GoIsRightMost(spec, l.path) \in {"yes", "no", "err"}
    BY <1>1, <2>2, GoRightEdge, GoEdgesAreClear
  <2> QED
    BY <1>3, <2>1, <2>2, <2>3 DEF SidesClose
<1>4. CASE l # None /\ r # None
  <2>1. /\ IsExistenceProof(l) /\ LeadsTo(t, l, Len(l.path), t.root)
        /\ Len(l.path) \in Nat /\ DOMAIN l.path = 1..Len(l.path)
        /\ \A k \in 1..Len(l.path) : IsInnerOp(l.path[k])
    BY <1>4, GoSideFacts
  <2>2. /\ IsExistenceProof(r) /\ LeadsTo(t, r, Len(r.path), t.root)
        /\ Len(r.path) \in Nat /\ DOMAIN r.path = 1..Len(r.path)
        /\ \A k \in 1..Len(r.path) : IsInnerOp(r.path[k])
    BY <1>4, GoSideFacts
  <2> DEFINE n == CommonTop(l.path, r.path)
             p == Len(l.path) - n
             q == Len(r.path) - n
             a == l.path[p]
             b == r.path[q]
             above == SubSeq(l.path, 1, p - 1)
             beyond == SubSeq(r.path, 1, q - 1)
             answers == <<GoIsLeftStep(spec, a, b), GoIsRightMost(spec, above),
                          GoIsLeftMost(spec, beyond)>>
  <2>3. /\ n \in Nat /\ n < Len(l.path) /\ n < Len(r.path)
        /\ \A i \in 0..(n - 1) : SameFromTop(l.path, r.path, i)
    BY <1>4, GoPathsPart
  <2>4. GoPlaced(c) = Walk(answers)
    <3>1. GoPlaced(c) = GoIsLeftNeighbor(spec, l.path, r.path)
      BY <1>4 DEF GoPlaced
    <3>2. p # 0 /\ q # 0
      <4> HIDE DEF n
      <4> QED
        BY <2>1, <2>2, <2>3
    <3> QED
      BY <1>1, <3>1, <3>2 DEF GoIsLeftNeighbor
  <2> HIDE DEF n
  <2>5. /\ p \in 1..Len(l.path) /\ q \in 1..Len(r.path)
        /\ p - 1 \in Nat /\ q - 1 \in Nat
        /\ p - 1 = Len(l.path) - n - 1 /\ q - 1 = Len(r.path) - n - 1
    BY <2>1, <2>2, <2>3
  <2>6. IsInnerOp(a) /\ IsInnerOp(b)
    BY <2>1, <2>2, <2>5
  <2> HIDE DEF p, q
  <2>7. /\ DOMAIN above = 1..(p - 1)
        /\ \A k \in 1..(p - 1) : above[k] = l.path[k] /\ k \in 1..Len(l.path)
    BY <2>5 DEF IsExistenceProof
  <2>8. /\ DOMAIN beyond = 1..(q - 1)
        /\ \A k \in 1..(q - 1) : beyond[k] = r.path[k] /\ k \in 1..Len(r.path)
    BY <2>5 DEF IsExistenceProof
  <2> HIDE DEF above, beyond
  <2>9. /\ GoIsRightMost(spec, above) = "yes" => ClearPathOnRight(t, above, p - 1)
        /\ GoIsRightMost(spec, above) \in {"yes", "no", "err"}
    BY <1>1, <2>1, <2>5, <2>7, GoRightEdge, GoEdgesAreClear
  <2>10. /\ GoIsLeftMost(spec, beyond) = "yes" => ClearPathOnLeft(t, beyond, q - 1)
         /\ GoIsLeftMost(spec, beyond) \in {"yes", "no", "err"}
    BY <1>1, <2>2, <2>5, <2>8, GoLeftEdge, GoEdgesAreClear
  <2>11. /\ GoIsLeftStep(spec, a, b) = "yes" => SideBySide(t, a, b)
         /\ GoIsLeftStep(spec, a, b) \in {"yes", "no"}
    <3>1. SharedNode(t, l, r, n)
      BY <2>1, <2>2, <2>3, NodesShared
    <3>2. \E x \in Inners(t), y \in t.nodes, z \in t.nodes :
              IsStepOf(t, a, x, y) /\ IsStepOf(t, b, x, z)
      BY <2>1, <2>2, <2>3, <3>1, StepsDown DEF p, q
    <3>3. GoOrders(spec, a) # {} /\ GoOrders(spec, b) # {}
      BY <2>6, <3>2, SlotHasOrder
    <3>4. GoIsLeftStep(spec, a, b) \in {"yes", "no"}
      <4> DEFINE orders == GoOrders(spec, a) \X GoOrders(spec, b)
      <4>1. PICK x \in GoOrders(spec, a), y \in GoOrders(spec, b) : TRUE
        BY <3>3
      <4>2. <<x, y>> \in orders
        OBVIOUS
      <4>3. orders # {}
        BY <4>2
      <4> HIDE DEF orders
      <4>4. CASE \E o \in orders : o[2] = o[1] + 1
        BY <4>3, <4>4 DEF GoIsLeftStep, orders
      <4>5. CASE ~(\E o \in orders : o[2] = o[1] + 1)
        BY <4>3, <4>5 DEF GoIsLeftStep, orders
      <4> QED
        BY <4>4, <4>5
    <3> QED
      BY <1>1, <2>6, <3>4, GoLeftStep, LeftStepIsSideBySide DEF SortedTrees
  <2>12. /\ Walk(answers) = "yes" => answers[1] = "yes" /\ answers[2] = "yes"
                                     /\ answers[3] = "yes"
         /\ Walk(answers) # "yes" => Walk(answers) \in {answers[1], answers[2], answers[3]}
    <3> DEFINE three == 3
    <3>1. three \in Nat /\ DOMAIN answers = {1, 2, 3} /\ DOMAIN answers \in SUBSET (0..three)
      OBVIOUS
    <3> HIDE DEF three, answers
    <3> QED
      BY <3>1, WalkAnswers
  <2>13. /\ answers[1] = GoIsLeftStep(spec, a, b)
         /\ answers[2] = GoIsRightMost(spec, above)
         /\ answers[3] = GoIsLeftMost(spec, beyond)
    OBVIOUS
  <2> HIDE DEF answers, a, b
  <2>14. GoPlaced(c) \in {"yes", "no", "err"}
    BY <2>4, <2>9, <2>10, <2>11, <2>12, <2>13
  <2>15. ASSUME Walk(answers) = "yes" PROVE PartSideBySide(t, l.path, r.path, n)
    <3>1. SideBySide(t, a, b)
      BY <2>11, <2>12, <2>13, <2>15
    <3>2. ClearPathOnRight(t, l.path, p - 1)
      BY <2>7, <2>9, <2>12, <2>13, <2>15 DEF ClearPathOnRight
    <3>3. ClearPathOnLeft(t, r.path, q - 1)
      BY <2>8, <2>10, <2>12, <2>13, <2>15 DEF ClearPathOnLeft
    <3> QED
      BY <2>3, <2>5, <3>1, <3>2, <3>3 DEF PartSideBySide, a, b, p, q
  <2> QED
    BY <1>4, <2>1, <2>2, <2>4, <2>14, <2>15 DEF SidesClose
<1> QED
  BY <1>2, <1>3, <1>4

-----------------------------------------------------------------------------
(* The answers.                                                            *)

(* An answer is the one of the call under way. *)
Answered ==
    call # None =>
        \/ /\ call \in Requests
           /\ answer = IF call.spec = None
                       THEN Outcome(GoCalculates(call.proof, None))
                       ELSE Outcome(GoVerifiesExistence(call.proof, call.spec, call.root,
                                                        call.key, call.value, omitted))
        \/ call \in Absences /\ answer = GoVerifyAbsence(call, omitted)

AnswerIsOfCall == (call = None => answer = None) /\ Answered

THEOREM AnswerIsOfCallHolds == Spec => []AnswerIsOfCall
<1>1. Init => AnswerIsOfCall
  BY DEF Init, AnswerIsOfCall, Answered
<1>2. AnswerIsOfCall /\ [Next]_govars => AnswerIsOfCall'
  <2> SUFFICES ASSUME AnswerIsOfCall, [Next]_govars PROVE AnswerIsOfCall'
    OBVIOUS
  <2>1. CASE VerifyMembership
    <3>1. PICK r \in Requests, sent \in BOOLEAN :
            /\ r.spec # None
            /\ Answer(r, sent, Outcome(GoVerifiesExistence(
                   r.proof, r.spec, r.root, r.key, r.value, sent)))
      BY <2>1 DEF VerifyMembership
    <3>2. r # None
      BY MessagesAssumption
    <3> QED
      BY <3>1, <3>2 DEF Answer, AnswerIsOfCall, Answered
  <2>2. CASE Calculate
    <3>1. PICK r \in Requests, sent \in BOOLEAN :
            r.spec = None /\ Answer(r, sent, Outcome(GoCalculates(r.proof, None)))
      BY <2>2 DEF Calculate
    <3>2. r # None
      BY MessagesAssumption
    <3> QED
      BY <3>1, <3>2 DEF Answer, AnswerIsOfCall, Answered
  <2>3. CASE VerifyNonMembership
    <3>1. PICK r \in Absences, sent \in BOOLEAN : Answer(r, sent, GoVerifyAbsence(r, sent))
      BY <2>3 DEF VerifyNonMembership
    <3>2. r # None
      BY MessagesAssumption
    <3> QED
      BY <3>1, <3>2 DEF Answer, AnswerIsOfCall, Answered
  <2>4. CASE Return
    BY <2>4 DEF Return, AnswerIsOfCall, Answered
  <2>5. CASE UNCHANGED govars
    BY <2>5 DEF govars, AnswerIsOfCall, Answered
  <2> QED
    BY <2>1, <2>2, <2>3, <2>4, <2>5 DEF Next
<1> QED
  BY <1>1, <1>2, PTL DEF Spec

(* VerifyMembership confirms only a leaf of the tree and the path from it  *)
(* to the root, and only a key that has that value.                        *)
THEOREM GoMembershipIsSound == Spec => []GoMembershipSound
<1>1. ASSUME AnswerIsOfCall PROVE GoMembershipSound
  <2> DEFINE p == call.proof
  <2> SUFFICES ASSUME answer = "ok", call.spec # None, ~IsAbsence(call),
                      NEW t \in Trees, call.spec = t.spec, call.root = t.hash[t.root]
               PROVE  /\ Leads(t, LeafImage(p.leaf, call.key, call.value),
                               p.path, Len(p.path), t.root)
                      /\ KeysKnown(call) /\ TellsKeys(t) =>
                             Stored(t, call.key, call.value)
    BY DEF GoMembershipSound, Confirmed, Concerned
  <2>1. call # None
    BY <1>1, NoneNotAnswer DEF AnswerIsOfCall
  <2>2. /\ call \in Requests
        /\ GoVerifiesExistence(p, t.spec, call.root, call.key, call.value, omitted)
    BY <1>1, <2>1, MessagesAssumption DEF AnswerIsOfCall, Answered, Outcome
  <2>3. p \in ProofsOf(call) /\ IsExistenceProof(p)
    BY <2>2, MessagesAssumption DEF ProofsOf
  <2>4. /\ call.key = p.key /\ call.value = p.value /\ OpsOf(p, t.spec)
        /\ Hashes(p)[Len(p.path)] = t.hash[t.root]
        /\ LeafIsUnambiguous(t.spec, p.leaf, p.key, p.value) =>
               LeafFacts(t.spec, p.leaf, p.key, p.value)
    BY <2>2, <2>3, GoAcceptedOps
  <2>5. Leads(t, LeafImage(p.leaf, p.key, p.value), p.path, Len(p.path), t.root)
    BY <2>4, GoExistenceLeads DEF LeadsTo
  <2>6. ASSUME KeysKnown(call), TellsKeys(t)
        PROVE  Stored(t, call.key, call.value)
    <3>1. LeafFacts(t.spec, p.leaf, p.key, p.value)
      BY <2>3, <2>4, <2>6 DEF KeysKnown
    <3>2. PICK n \in t.leaves : t.image[n] = LeafImage(p.leaf, p.key, p.value)
      BY <2>5 DEF Leads
    <3>3. t.key[n] = p.key /\ t.value[n] = p.value
      BY <2>6, <3>1, <3>2, TreeLeafFacts, LeafTold
    <3> QED
      BY <2>4, <3>3 DEF Stored
  <2> QED
    BY <2>4, <2>5, <2>6
<1> QED
  BY <1>1, AnswerIsOfCallHolds, PTL

(* What the checks of the two sides and of their keys establish. *)
LEMMA GoSidesOf ==
    ASSUME NEW c \in Absences, NEW sent, NEW t \in SortedTrees,
           c.spec = t.spec, c.root = t.hash[t.root],
           GoSidesVerified(c, sent), GoInRange(c)
    PROVE  LET l == c.proof.left
               r == c.proof.right
           IN  /\ l # None \/ r # None
               /\ l # None => GoSide(t, l) /\ Before(t.spec, l.key, c.key)
               /\ r # None => GoSide(t, r) /\ Before(t.spec, c.key, r.key)
               /\ l # None /\ r # None => l.key # r.key
<1> DEFINE l == c.proof.left
           r == c.proof.right
           spec == t.spec
<1>1. ASSUME NEW p \in {l, r}, p # None PROVE GoSide(t, p)
  <2>1. IsExistenceProof(p)
    BY <1>1, MessagesAssumption DEF ProofsOf
  <2>2. GoVerifiesExistence(p, spec, c.root, p.key, p.value, sent)
    BY <1>1 DEF GoSidesVerified
  <2>3. OpsOf(p, spec) /\ Hashes(p)[Len(p.path)] = c.root
    <3> DEFINE key == p.key
               value == p.value
               root == c.root
    <3>1. IsExistenceProof(p) /\ GoVerifiesExistence(p, spec, root, key, value, sent)
      BY <2>1, <2>2
    <3> HIDE DEF key, value, root, spec, l, r
    <3>2. OpsOf(p, spec) /\ Hashes(p)[Len(p.path)] = root
      BY <3>1, GoAcceptedOps
    <3> QED
      BY <3>2 DEF root
  <2> QED
    BY <2>3 DEF GoSide
<1>2. /\ r # None => Before(spec, c.key, r.key)
      /\ l # None => Before(spec, l.key, c.key)
  BY DEF GoInRange
<1>3. ASSUME l # None, r # None PROVE l.key # r.key
  <2>1. IsStrictOrder(spec, ComparedKeys) /\ {l.key, c.key} \subseteq ComparedKeys
    BY <1>3, OrderAssumption, MessagesAssumption DEF ComparedKeys, ProofsOf
  <2> QED
    BY <1>2, <1>3, <2>1 DEF IsStrictOrder
<1>4. l # None \/ r # None
  BY DEF GoSidesVerified
<1> QED
  BY <1>1, <1>2, <1>3, <1>4

(* What a proof of absence with the root of a tree brings about: a panic,  *)
(* if and only if it reads one leaf as two keys; ...                       *)
LEMMA GoAbsencePanics ==
    ASSUME NEW c \in Absences, NEW sent, NEW t \in SortedTrees,
           c.spec = t.spec, c.root = t.hash[t.root]
    PROVE  GoVerifyAbsence(c, sent) = "panic" <=>
               /\ OneLeafReadTwice(c.proof.left, c.proof.right)
               /\ GoSidesVerified(c, sent)
               /\ GoInRange(c)
<1> DEFINE l == c.proof.left
           r == c.proof.right
<1>1. CASE ~(GoSidesVerified(c, sent) /\ GoInRange(c))
  BY <1>1 DEF GoVerifyAbsence
<1>2. CASE GoSidesVerified(c, sent) /\ GoInRange(c)
  <2>1. /\ l # None \/ r # None
        /\ l # None => GoSide(t, l)
        /\ r # None => GoSide(t, r)
        /\ l # None /\ r # None => l.key # r.key
    BY <1>2, GoSidesOf
  <2>2. GoVerifyAbsence(c, sent) = "panic" <=> GoPlaced(c) \notin {"yes", "no", "err"}
    BY <1>2 DEF GoVerifyAbsence
  <2>3. CASE l # None /\ r # None /\ OneWay(l, r)
    <3>1. SameSteps(l.path, r.path) /\ Len(l.path) \in Nat
      BY <2>1, <2>3, GoSideFacts DEF OneWay
    <3>2. GoPlaced(c) = "panic"
      BY <2>3, <3>1, GoOneWayPanics DEF GoPlaced
    <3> QED
      BY <1>2, <2>1, <2>2, <2>3, <3>2 DEF OneLeafReadTwice, OneWay
  <2>4. CASE ~(l # None /\ r # None /\ OneWay(l, r))
    <3>1. GoPlaced(c) \in {"yes", "no", "err"}
      <4> HIDE DEF l, r
      <4> QED
        BY <2>1, <2>4, GoSidesPlaced DEF l, r
    <3> QED
      BY <2>2, <2>4, <3>1 DEF OneLeafReadTwice, OneWay
  <2> QED
    BY <2>3, <2>4
<1> QED
  BY <1>1, <1>2

(* ... and an "ok", if its leaves can be read in one way, only for a key   *)
(* that the tree does not have.                                            *)
LEMMA GoAbsenceConfirmed ==
    ASSUME NEW c \in Absences, NEW sent, NEW t \in SortedTrees, TellsKeys(t),
           c.spec = t.spec, c.root = t.hash[t.root], KeysKnown(c),
           GoVerifyAbsence(c, sent) = "ok"
    PROVE  ~HasKey(t, c.key)
<1> DEFINE l == c.proof.left
           r == c.proof.right
           spec == t.spec
<1>1. GoSidesVerified(c, sent) /\ GoInRange(c) /\ GoPlaced(c) = "yes"
  BY DEF GoVerifyAbsence
<1>2. /\ l # None \/ r # None
      /\ l # None => GoSide(t, l) /\ Before(spec, l.key, c.key)
      /\ r # None => GoSide(t, r) /\ Before(spec, c.key, r.key)
  BY <1>1, GoSidesOf
<1>3. ASSUME NEW p \in {l, r}, p # None PROVE TellsKey(t, p)
  <2>1. p \in ProofsOf(c) /\ IsExistenceProof(p)
    BY <1>3, MessagesAssumption DEF ProofsOf
  <2>2. /\ GoVerifiesExistence(p, spec, c.root, p.key, p.value, sent)
        /\ LeafIsUnambiguous(spec, p.leaf, p.key, p.value)
    BY <1>1, <1>3, <2>1 DEF GoSidesVerified, KeysKnown
  <2>3. LeafFacts(spec, p.leaf, p.key, p.value)
    <3> DEFINE key == p.key
               value == p.value
               root == c.root
    <3>1. /\ IsExistenceProof(p) /\ GoVerifiesExistence(p, spec, root, key, value, sent)
          /\ LeafIsUnambiguous(spec, p.leaf, p.key, p.value)
      BY <2>1, <2>2
    <3> HIDE DEF key, value, root, spec, l, r
    <3> QED
      BY <3>1, GoAcceptedOps
  <2>4. t \in Trees
    BY DEF SortedTrees
  <2> QED
    BY <2>3, <2>4, TreeLeafFacts, LeafTold DEF TellsKey, IsLeafOf
<1>4. ~(l # None /\ r # None /\ OneWay(l, r))
  <2> SUFFICES ASSUME l # None, r # None, OneWay(l, r) PROVE FALSE
    OBVIOUS
  <2>1. SameSteps(l.path, r.path) /\ Len(l.path) \in Nat
    BY <1>2, GoSideFacts DEF OneWay
  <2>2. GoPlaced(c) = "panic"
    BY <2>1, GoOneWayPanics DEF GoPlaced
  <2> QED
    BY <1>1, <2>2
<1>5. SidesClose(t, l, r)
  <2> HIDE DEF l, r
  <2> QED
    BY <1>1, <1>2, <1>4, GoSidesPlaced DEF l, r
<1>6. /\ IsStrictOrder(spec, ComparedKeys) /\ c.key \in ComparedKeys
      /\ \A x \in t.leaves : t.key[x] \in ComparedKeys
  BY OrderAssumption DEF ComparedKeys, TreeKeys, SortedTrees
<1> HIDE DEF l, r
<1> QED
  BY <1>2, <1>3, <1>5, <1>6, AbsentBetween

(* VerifyNonMembership confirms the absence only of a key that is not in   *)
(* the tree.                                                               *)
THEOREM GoNonMembershipIsSound == Spec => []GoNonMembershipSound
<1>1. ASSUME AnswerIsOfCall PROVE GoNonMembershipSound
  <2> SUFFICES ASSUME answer = "ok", IsAbsence(call), KeysKnown(call),
                      NEW t \in SortedTrees, TellsKeys(t),
                      call.spec = t.spec, call.root = t.hash[t.root]
               PROVE  ~HasKey(t, call.key)
    BY DEF GoNonMembershipSound, Confirmed, Concerned
  <2>1. call # None
    BY <1>1, NoneNotAnswer DEF AnswerIsOfCall
  <2>2. call \in Absences /\ answer = GoVerifyAbsence(call, omitted)
    BY <1>1, <2>1, MessagesAssumption DEF AnswerIsOfCall, Answered
  <2> QED
    BY <2>2, GoAbsenceConfirmed
<1> QED
  BY <1>1, AnswerIsOfCallHolds, PTL

(* With the root of a tree VerifyNonMembership panics exactly if both      *)
(* proofs verify, are of one leaf by one path, and read its string as two  *)
(* keys on the two sides of the key asked about.  For all other proofs     *)
(* that the caller may be given the paths part before either ends, every   *)
(* step is at a branch, and no slice is out of range; the calls about      *)
(* membership never panic.                                                 *)
THEOREM GoPanicsExactlyOnLeafReadTwice == Spec => []GoPanicsOnLeafReadTwice
<1>1. ASSUME AnswerIsOfCall PROVE GoPanicsOnLeafReadTwice
  <2> SUFFICES ASSUME answer # None, NEW t \in SortedTrees,
                      call.spec = t.spec, call.root = t.hash[t.root]
               PROVE  answer = "panic" <=>
                          /\ IsAbsence(call)
                          /\ OneLeafReadTwice(call.proof.left, call.proof.right)
                          /\ GoSidesVerified(call, omitted)
                          /\ GoInRange(call)
    BY DEF GoPanicsOnLeafReadTwice, Concerned
  <2>1. call # None
    BY <1>1 DEF AnswerIsOfCall
  <2>2. CASE call \in Absences /\ answer = GoVerifyAbsence(call, omitted)
    <3>1. IsAbsence(call)
      BY <2>2, MessagesAssumption
    <3> QED
      BY <2>2, <3>1, GoAbsencePanics
  <2>3. CASE call \in Requests /\ answer \in {"ok", "err"}
    <3>1. ~IsAbsence(call)
      BY <2>3, MessagesAssumption
    <3> QED
      BY <2>3, <3>1
  <2> QED
    BY <1>1, <2>1, <2>2, <2>3 DEF AnswerIsOfCall, Answered, Outcome
<1> QED
  BY <1>1, AnswerIsOfCallHolds, PTL

-----------------------------------------------------------------------------
(* The answers of the two implementations.                                 *)

LEMMA GoHashNotEmpty ==
    ASSUME NEW op \in GoHashes, NEW x
    PROVE  DoHash(op, x) # <<>>
<1>1. op \in HashOp \ {"NO_HASH"}
  BY DEF GoHashes, HashOp, HashFunction
<1>2. Len(DoHash(op, x)) = DigestLen(op)
  BY <1>1, DoHashLength
<1>3. DigestLen(op) \in Nat \ {0}
  BY <1>1, OuterFunctionType, HashLenAssumption DEF DigestLen
<1>4. Len(<<>>) = 0
  OBVIOUS
<1> QED
  BY <1>2, <1>3, <1>4

(* Where Go computes a root, Rust computes the same. *)
LEMMA GoRootIsRoot ==
    ASSUME NEW p, IsExistenceProof(p), NEW spec, GoCalculates(p, spec)
    PROVE  RootFrom(p, spec, Hashes(p)[Len(p.path)])
<1> DEFINE len == Len(p.path)
<1>1. len \in Nat
  BY SequenceType DEF IsExistenceProof
<1>2. /\ p.leaf # None /\ GoLeafApplies(p.leaf, p.key, p.value)
      /\ \A k \in 1..len : p.path[k].hash \in GoHashes /\ SizeAccepted(Hashes(p)[k], spec)
  BY DEF GoCalculates
<1>3. LeafApplies(p.leaf, p.key, p.value) /\ p.key # <<>> /\ p.value # <<>>
  BY <1>2 DEF GoLeafApplies, LeafApplies, LeafDataOK
<1>4. ASSUME NEW k \in 1..len PROVE Hashes(p)[k - 1] # <<>>
  <2>1. CASE k = 1
    <3>1. Hashes(p)[0] = DoHash(p.leaf.hash, LeafImage(p.leaf, p.key, p.value))
      BY <1>1, HashesStep DEF ApplyLeaf
    <3>2. p.leaf.hash \in GoHashes
      BY <1>2 DEF GoLeafApplies
    <3>3. k - 1 = 0
      BY <2>1
    <3> QED
      BY <3>1, <3>2, <3>3, GoHashNotEmpty
  <2>2. CASE k # 1
    <3>1. k - 1 \in 1..len
      BY <1>1, <2>2
    <3> DEFINE j == k - 1
    <3> HIDE DEF j
    <3>2. j \in 1..len
      BY <3>1 DEF j
    <3>3. Hashes(p)[j] = DoHash(p.path[j].hash, InnerImage(p.path[j], Hashes(p)[j - 1]))
      BY <1>1, <3>2, HashesStep DEF ApplyInner
    <3>4. Hashes(p)[j] # <<>>
      BY <1>2, <3>2, <3>3, GoHashNotEmpty
    <3> QED
      BY <3>4 DEF j
  <2> QED
    BY <2>1, <2>2
<1> QED
  BY <1>2, <1>3, <1>4 DEF RootFrom

LEMMA RootIsGoRoot ==
    ASSUME NEW p, NEW spec, NEW root, RootFrom(p, spec, root), NEW sent,
           ~GoRefuses(p, spec, sent)
    PROVE  GoCalculates(p, spec) /\ Hashes(p)[Len(p.path)] = root
<1>1. /\ p.leaf # None /\ p.key # <<>> /\ p.value # <<>>
      /\ LeafApplies(p.leaf, p.key, p.value)
      /\ \A k \in 1..Len(p.path) : SizeAccepted(Hashes(p)[k], spec)
      /\ Hashes(p)[Len(p.path)] = root
  BY DEF RootFrom
<1>2. /\ p.leaf.hash \in GoHashes
      /\ {p.leaf.prehash_key, p.leaf.prehash_value} \subseteq GoHashes \cup {"NO_HASH"}
      /\ \A k \in 1..Len(p.path) : p.path[k].hash \in GoHashes
  BY DEF GoRefuses
<1>3. GoLeafApplies(p.leaf, p.key, p.value)
  BY <1>1, <1>2 DEF LeafApplies, LeafDataOK, GoLeafApplies
<1> QED
  BY <1>1, <1>2, <1>3 DEF GoCalculates

(* A proof that Go accepts is one that Rust accepts, but for the depth.    *)
LEMMA GoExistenceIsRusts ==
    ASSUME NEW p, IsExistenceProof(p), NEW spec, spec # None, IsProofSpec(spec),
           ~(spec.min_depth > 0 /\ spec.max_depth = 0),
           NEW root, NEW key, NEW value, NEW sent,
           GoVerifiesExistence(p, spec, root, key, value, sent)
    PROVE  VerifiesExistence(p, spec, root, key, value)
<1>1. /\ key = p.key /\ value = p.value /\ p.leaf # None
      /\ GoCalculates(p, spec) /\ Hashes(p)[Len(p.path)] = root
      /\ GoLeafAccepted(p.leaf, spec)
      /\ spec.min_depth > 0 => Len(p.path) >= spec.min_depth
      /\ Len(p.path) <= GoMaxDepth(spec)
      /\ \A k \in 1..Len(p.path) : GoStepAccepted(p.path[k], spec, k, sent)
  BY DEF GoVerifiesExistence, GoProofAccepted
<1>2. LeafAccepted(p, spec)
  BY <1>1 DEF LeafAccepted, GoLeafAccepted, EnsureLeafPrefix, IsIavlSpec, GoSpecEquals,
              ValidateIavlOps
<1>3. DepthAccepted(p, spec)
  <2>1. Len(p.path) \in Nat /\ spec.min_depth \in Nat /\ spec.max_depth \in Nat
    BY SequenceType DEF IsExistenceProof, IsProofSpec
  <2> QED
    BY <1>1, <2>1 DEF DepthAccepted, GoMaxDepth
<1>4. ASSUME NEW k \in 1..Len(p.path) PROVE StepAccepted(p, spec, k)
  <2>1. GoStepAccepted(p.path[k], spec, k, sent) /\ k # 0
    BY <1>1
  <2> QED
    BY <2>1 DEF GoStepAccepted, StepAccepted, EnsureInnerPrefix, IsIavlSpec, GoSpecEquals,
                ValidateIavlOps
<1>5. RootFrom(p, spec, root)
  BY <1>1, GoRootIsRoot
<1> QED
  BY <1>1, <1>2, <1>3, <1>4, <1>5 DEF VerifiesExistence

LEMMA RustExistenceIsGos ==
    ASSUME NEW p, IsExistenceProof(p), NEW spec, spec # None, IsProofSpec(spec),
           NEW root, NEW key, NEW value, NEW sent,
           VerifiesExistence(p, spec, root, key, value), ~GoRefuses(p, spec, sent)
    PROVE  GoVerifiesExistence(p, spec, root, key, value, sent)
<1>1. /\ key = p.key /\ value = p.value /\ RootFrom(p, spec, root)
      /\ LeafAccepted(p, spec) /\ DepthAccepted(p, spec)
      /\ \A k \in 1..Len(p.path) : StepAccepted(p, spec, k)
  BY DEF VerifiesExistence
<1>2. p.leaf # None /\ GoLeafAccepted(p.leaf, spec)
  BY <1>1 DEF LeafAccepted, GoLeafAccepted, GoRefuses
<1>3. /\ spec.min_depth > 0 => Len(p.path) >= spec.min_depth
      /\ Len(p.path) <= GoMaxDepth(spec)
  <2>1. Len(p.path) \in Nat /\ spec.min_depth \in Nat /\ spec.max_depth \in Nat
    BY SequenceType DEF IsExistenceProof, IsProofSpec
  <2>2. CASE spec.min_depth = 0
    <3>1. ~(Len(p.path) > GoMaxDepth(spec))
      BY <2>2 DEF GoRefuses
    <3>2. GoMaxDepth(spec) \in Nat
      BY <2>1, DefaultDepthAssumption DEF GoMaxDepth
    <3> QED
      BY <2>1, <2>2, <3>1, <3>2
  <2>3. CASE spec.min_depth # 0
    BY <1>1, <2>1, <2>3 DEF DepthAccepted, GoMaxDepth
  <2> QED
    BY <2>2, <2>3
<1>4. ASSUME NEW k \in 1..Len(p.path) PROVE GoStepAccepted(p.path[k], spec, k, sent)
  <2>1. /\ EnsureInnerPrefix(p.path[k].prefix, spec, k, p.path[k].hash)
        /\ EnsureInner(p.path[k], spec) /\ k # 0
    BY <1>1 DEF StepAccepted
  <2>2. GoSpecEquals(spec, TendermintSpec) => ValidateTendermintOps(p.path[k], sent)
    BY DEF GoRefuses
  <2>3. GoSpecEquals(spec, IavlSpec) => ValidateIavlOps(p.path[k], k)
    BY <2>1 DEF EnsureInnerPrefix, IsIavlSpec, GoSpecEquals, ValidateIavlOps
  <2>4. /\ spec.inner_spec # None /\ spec.leaf_spec # None
        /\ p.path[k].hash = spec.inner_spec.hash
    BY <2>1 DEF EnsureInner
  <2> QED
    BY <2>1, <2>2, <2>3, <2>4 DEF GoStepAccepted
<1>5. GoProofAccepted(p, spec, sent)
  BY <1>2, <1>3, <1>4 DEF GoProofAccepted
<1>6. GoCalculates(p, spec) /\ Hashes(p)[Len(p.path)] = root
  BY <1>1, RootIsGoRoot
<1> QED
  BY <1>1, <1>5, <1>6 DEF GoVerifiesExistence

(* Where the sides are, as Go has it: all but the placeholders on the      *)
(* right are judged as in Rust.                                            *)
PlacedBeside(spec, p, q) ==
    LET n == CommonTop(p, q)
    IN  /\ n < Len(p)
        /\ n < Len(q)
        /\ IsLeftStep(spec, p[Len(p) - n], q[Len(q) - n])
        /\ RightEdge(spec, p, Len(p) - n - 1)
        /\ LeftMost(spec, q, Len(q) - n - 1)

(* The paths are made of operations. *)
OpsIn(path) == /\ Len(path) \in Nat /\ DOMAIN path = 1..Len(path)
               /\ \A k \in 1..Len(path) : IsInnerOp(path[k])

LEMMA OpsInProof ==
    ASSUME NEW p, IsExistenceProof(p)
    PROVE  OpsIn(p.path)
BY SequenceType DEF IsExistenceProof, OpsIn

LEMMA GoNeighborsAre ==
    ASSUME NEW spec, InOrder(spec), NEW p, NEW q, OpsIn(p), OpsIn(q)
    PROVE  GoIsLeftNeighbor(spec, p, q) = "yes" <=> PlacedBeside(spec, p, q)
<1> DEFINE n == CommonTop(p, q)
           i == Len(p) - n
           j == Len(q) - n
           above  == SubSeq(p, 1, i - 1)
           beyond == SubSeq(q, 1, j - 1)
           answers == <<GoIsLeftStep(spec, p[i], q[j]), GoIsRightMost(spec, above),
                        GoIsLeftMost(spec, beyond)>>
<1>1. Len(p) \in Nat /\ Len(q) \in Nat
  BY DEF OpsIn
<1>2. n \in Nat /\ n <= Len(p) /\ n <= Len(q)
  <2>1. IsCommonTop(p, q, n)
    BY <1>1, CommonTopExists
  <2> QED
    BY <1>1, <2>1 DEF IsCommonTop
<1>3. GoIsLeftNeighbor(spec, p, q) =
          IF i = 0 \/ j = 0 THEN "panic" ELSE Walk(answers)
  BY DEF GoIsLeftNeighbor, InOrder
<1>4. PlacedBeside(spec, p, q) <=>
          /\ n < Len(p) /\ n < Len(q)
          /\ IsLeftStep(spec, p[i], q[j])
          /\ RightEdge(spec, p, i - 1)
          /\ LeftMost(spec, q, j - 1)
  BY DEF PlacedBeside
<1> HIDE DEF n
<1>5. CASE i = 0 \/ j = 0
  <2>1. ~(n < Len(p) /\ n < Len(q))
    BY <1>1, <1>2, <1>5
  <2> QED
    BY <1>3, <1>4, <1>5, <2>1
<1>6. CASE ~(i = 0 \/ j = 0)
  <2>1. /\ n < Len(p) /\ n < Len(q)
        /\ i \in 1..Len(p) /\ j \in 1..Len(q) /\ i - 1 \in Nat /\ j - 1 \in Nat
    BY <1>1, <1>2, <1>6
  <2> HIDE DEF i, j
  <2>2. /\ DOMAIN above = 1..(i - 1)
        /\ \A k \in 1..(i - 1) : above[k] = p[k] /\ IsInnerOp(above[k])
    BY <2>1 DEF OpsIn
  <2>3. /\ DOMAIN beyond = 1..(j - 1)
        /\ \A k \in 1..(j - 1) : beyond[k] = q[k] /\ IsInnerOp(beyond[k])
    BY <2>1 DEF OpsIn
  <2>4. IsInnerOp(p[i]) /\ IsInnerOp(q[j])
    BY <2>1 DEF OpsIn
  <2> HIDE DEF above, beyond
  <2>5. GoIsRightMost(spec, above) = "yes" <=> RightEdge(spec, p, i - 1)
    BY <2>1, <2>2, GoRightEdge DEF RightEdge
  <2>6. GoIsLeftMost(spec, beyond) = "yes" <=> LeftMost(spec, q, j - 1)
    BY <2>1, <2>3, GoLeftEdge DEF LeftMost
  <2>7. GoIsLeftStep(spec, p[i], q[j]) = "yes" <=> IsLeftStep(spec, p[i], q[j])
    BY <2>4, GoLeftStep
  <2>8. Walk(answers) = "yes" <=>
            answers[1] = "yes" /\ answers[2] = "yes" /\ answers[3] = "yes"
    <3> DEFINE three == 3
    <3>1. three \in Nat /\ DOMAIN answers = {1, 2, 3} /\ DOMAIN answers \in SUBSET (0..three)
      OBVIOUS
    <3> HIDE DEF three, answers
    <3> QED
      BY <3>1, WalkAnswers
  <2>9. /\ answers[1] = GoIsLeftStep(spec, p[i], q[j])
        /\ answers[2] = GoIsRightMost(spec, above)
        /\ answers[3] = GoIsLeftMost(spec, beyond)
    OBVIOUS
  <2> HIDE DEF answers
  <2>10. GoIsLeftNeighbor(spec, p, q) = Walk(answers)
    BY <1>3, <1>6
  <2> QED
    BY <1>4, <2>1, <2>5, <2>6, <2>7, <2>8, <2>9, <2>10
<1> QED
  BY <1>5, <1>6

(* A step with no more than one child on its right is judged as in Rust.   *)
LEMMA EdgeOfOneChild ==
    ASSUME NEW spec, InOrder(spec), NEW op, IsInnerOp(op)
    PROVE  /\ IsRightMostStep(spec, op) => StepOnRightEdge(spec, op)
           /\ (StepOnRightEdge(spec, op) /\ spec.child_size > 0
                  /\ ~(Len(op.suffix) > spec.child_size)) => IsRightMostStep(spec, op)
<1>1. IsRightMostStep(spec, op) => StepOnRightEdge(spec, op)
  BY DEF IsRightMostStep, StepOnRightEdge, RightBranchesAreEmpty, EmptyOnRight
<1>2. ASSUME EmptyOnRight(spec, op), spec.child_size > 0,
             ~(Len(op.suffix) > spec.child_size)
      PROVE  RightBranchesAreEmpty(spec, op)
  <2>1. PICK b \in 0..LastBranch(spec) :
            /\ IsOrder(spec, op, b)
            /\ b # LastBranch(spec)
            /\ \A i \in 0..(LastBranch(spec) - b - 1) :
                   ChildBytes(spec, op.suffix, 0, i) = spec.empty_child
    BY <1>2 DEF EmptyOnRight
  <2>2. Len(op.suffix) = (LastBranch(spec) - b) * spec.child_size
    BY <2>1 DEF IsOrder, Padded, HasPadding
  <2>3. LastBranch(spec) \in Nat /\ spec.child_size \in Nat /\ Len(op.suffix) \in Nat
    BY PlaceOfBranch, SequenceType DEF InOrder, IsInnerOp
  <2>4. Len(op.suffix) = spec.child_size
    <3> DEFINE d == LastBranch(spec) - b
               w == spec.child_size
               len == Len(op.suffix)
    <3>1. /\ d \in Nat /\ d >= 1 /\ w \in Nat /\ w > 0
          /\ len \in Nat /\ len = d * w /\ ~(len > w)
      BY <1>2, <2>1, <2>2, <2>3
    <3> HIDE DEF d, w, len
    <3>2. d = 1 \/ d >= 2
      BY <3>1
    <3>3. d >= 2 => d * w >= 2 * w
      BY <3>1
    <3>4. d = 1 => len = w
      BY <3>1
    <3>5. len = w
      BY <3>1, <3>2, <3>3, <3>4
    <3> QED
      BY <3>5 DEF w, len
  <2> QED
    BY <2>1, <2>4 DEF RightBranchesAreEmpty
<1> QED
  BY <1>1, <1>2 DEF StepOnRightEdge, IsRightMostStep

(* Both find the sides of an absence verified in the same place, except    *)
(* that Rust wants a single child on the right of a step.                  *)
LEMMA GoPlacedAlike ==
    ASSUME NEW c, c.spec.inner_spec # None, InOrder(c.spec.inner_spec),
           NEW l, NEW r, l = c.proof.left, r = c.proof.right,
           l # None \/ r # None,
           l # None => OpsIn(l.path), r # None => OpsIn(r.path)
    PROVE  LET spec == c.spec.inner_spec
               narrow == \A p \in {l, r} \ {None} : \A k \in 1..Len(p.path) :
                             /\ spec.child_size > 0
                             /\ ~(Len(p.path[k].suffix) > spec.child_size)
               placed == CASE l # None /\ r # None ->
                                  AreNeighbors(spec, l.path, r.path)
                           [] l # None /\ r = None ->
                                  RightMost(spec, l.path, Len(l.path))
                           [] l = None /\ r # None ->
                                  LeftMost(spec, r.path, Len(r.path))
                           [] OTHER -> FALSE
           IN  /\ GoPlaced(c) = "yes" /\ narrow => placed
               /\ placed => GoPlaced(c) = "yes"
<1> DEFINE spec == c.spec.inner_spec
           narrow == \A p \in {l, r} \ {None} : \A k \in 1..Len(p.path) :
                         /\ spec.child_size > 0
                         /\ ~(Len(p.path[k].suffix) > spec.child_size)
<1>1. ASSUME l # None, NEW n, n \in 0..Len(l.path)
      PROVE  /\ RightMost(spec, l.path, n) => RightEdge(spec, l.path, n)
             /\ RightEdge(spec, l.path, n) /\ narrow => RightMost(spec, l.path, n)
  <2>1. \A k \in 1..n : k \in 1..Len(l.path) /\ IsInnerOp(l.path[k])
    BY <1>1 DEF OpsIn
  <2>2. narrow => \A k \in 1..Len(l.path) :
                      spec.child_size > 0 /\ ~(Len(l.path[k].suffix) > spec.child_size)
    BY <1>1
  <2> HIDE DEF narrow, spec
  <2> QED
    BY <2>1, <2>2, EdgeOfOneChild DEF RightMost, RightEdge, spec
<1>2. CASE l = None
  <2>1. GoPlaced(c) = GoIsLeftMost(spec, r.path) /\ r # None
    BY <1>2 DEF GoPlaced
  <2>2. GoIsLeftMost(spec, r.path) = "yes" <=> LeftMost(spec, r.path, Len(r.path))
    BY <2>1, GoLeftEdge DEF OpsIn
  <2> QED
    BY <1>2, <2>1, <2>2
<1>3. CASE l # None /\ r = None
  <2>1. GoPlaced(c) = GoIsRightMost(spec, l.path)
    BY <1>3 DEF GoPlaced
  <2>2. GoIsRightMost(spec, l.path) = "yes" <=> RightEdge(spec, l.path, Len(l.path))
    BY <1>3, GoRightEdge DEF OpsIn, RightEdge
  <2>3. Len(l.path) \in 0..Len(l.path)
    BY <1>3 DEF OpsIn
  <2>4. /\ RightMost(spec, l.path, Len(l.path)) => RightEdge(spec, l.path, Len(l.path))
        /\ RightEdge(spec, l.path, Len(l.path)) /\ narrow =>
               RightMost(spec, l.path, Len(l.path))
    BY <1>1, <1>3, <2>3
  <2> HIDE DEF narrow
  <2>5. /\ GoPlaced(c) = "yes" /\ narrow => RightMost(spec, l.path, Len(l.path))
        /\ RightMost(spec, l.path, Len(l.path)) => GoPlaced(c) = "yes"
    BY <2>1, <2>2, <2>4
  <2> QED
    BY <1>3, <2>5 DEF narrow
<1>4. CASE l # None /\ r # None
  <2> DEFINE n == CommonTop(l.path, r.path)
             m == Len(l.path) - n - 1
  <2>1. GoPlaced(c) = GoIsLeftNeighbor(spec, l.path, r.path)
    BY <1>4 DEF GoPlaced
  <2>2. GoIsLeftNeighbor(spec, l.path, r.path) = "yes" <=>
            PlacedBeside(spec, l.path, r.path)
    BY <1>4, GoNeighborsAre
  <2>3. n \in Nat
    <3>1. Len(l.path) \in Nat /\ Len(r.path) \in Nat
      BY <1>4 DEF OpsIn
    <3>2. IsCommonTop(l.path, r.path, n)
      BY <3>1, CommonTopExists
    <3> QED
      BY <3>1, <3>2 DEF IsCommonTop
  <2>4. /\ PlacedBeside(spec, l.path, r.path) <=>
               /\ n < Len(l.path) /\ n < Len(r.path)
               /\ IsLeftStep(spec, l.path[Len(l.path) - n], r.path[Len(r.path) - n])
               /\ RightEdge(spec, l.path, m)
               /\ LeftMost(spec, r.path, Len(r.path) - n - 1)
        /\ AreNeighbors(spec, l.path, r.path) <=>
               /\ n < Len(l.path) /\ n < Len(r.path)
               /\ IsLeftStep(spec, l.path[Len(l.path) - n], r.path[Len(r.path) - n])
               /\ RightMost(spec, l.path, m)
               /\ LeftMost(spec, r.path, Len(r.path) - n - 1)
    BY DEF PlacedBeside, AreNeighbors
  <2> HIDE DEF n
  <2>5. n < Len(l.path) => m \in 0..Len(l.path)
    BY <1>4, <2>3 DEF OpsIn
  <2> HIDE DEF m
  <2>6. n < Len(l.path) =>
            /\ RightMost(spec, l.path, m) => RightEdge(spec, l.path, m)
            /\ RightEdge(spec, l.path, m) /\ narrow => RightMost(spec, l.path, m)
    BY <1>1, <1>4, <2>5
  <2> HIDE DEF narrow
  <2>7. /\ GoPlaced(c) = "yes" /\ narrow => AreNeighbors(spec, l.path, r.path)
        /\ AreNeighbors(spec, l.path, r.path) => GoPlaced(c) = "yes"
    BY <2>1, <2>2, <2>4, <2>6
  <2> QED
    BY <1>4, <2>7 DEF narrow
<1> QED
  BY <1>2, <1>3, <1>4

(* Both verify the sides of an absence alike. *)
LEMMA GoSidesAlike ==
    ASSUME NEW c \in Absences, NEW sent, NEW p \in ProofsOf(c)
    PROVE  /\ GoVerifiesExistence(p, c.spec, c.root, p.key, p.value, sent)
                  /\ ~GoAlone(c) =>
                  VerifiesExistence(p, c.spec, c.root, p.key, p.value)
           /\ VerifiesExistence(p, c.spec, c.root, p.key, p.value)
                  /\ ~RustAlone(c, sent) =>
                  GoVerifiesExistence(p, c.spec, c.root, p.key, p.value, sent)
<1>1. /\ IsExistenceProof(p) /\ c.spec # None /\ IsProofSpec(c.spec)
  BY MessagesAssumption
<1>2. ~GoAlone(c) => ~(c.spec.min_depth > 0 /\ c.spec.max_depth = 0)
  BY <1>1 DEF GoAlone
<1>3. ~RustAlone(c, sent) => ~GoRefuses(p, c.spec, sent)
  BY DEF RustAlone
<1> QED
  BY <1>1, <1>2, <1>3, GoExistenceIsRusts, RustExistenceIsGos

LEMMA AbsencesAlike ==
    ASSUME NEW c \in Absences, NEW sent
    PROVE  /\ GoVerifyAbsence(c, sent) = "ok" /\ ~GoAlone(c) => RustAccepts(c)
           /\ RustAccepts(c) /\ ~RustAlone(c, sent) => GoVerifyAbsence(c, sent) = "ok"
<1> DEFINE l == c.proof.left
           r == c.proof.right
           spec == c.spec.inner_spec
           rust(p) == VerifiesExistence(p, c.spec, c.root, p.key, p.value)
           go(p) == GoVerifiesExistence(p, c.spec, c.root, p.key, p.value, sent)
           rustplaced == CASE l # None /\ r # None -> AreNeighbors(spec, l.path, r.path)
                           [] l # None /\ r = None -> RightMost(spec, l.path, Len(l.path))
                           [] l = None /\ r # None -> LeftMost(spec, r.path, Len(r.path))
                           [] OTHER -> FALSE
           narrow == \A p \in {l, r} \ {None} : \A k \in 1..Len(p.path) :
                         /\ spec.child_size > 0
                         /\ ~(Len(p.path[k].suffix) > spec.child_size)
<1>1. /\ IsAbsence(c) /\ c.spec # None /\ IsProofSpec(c.spec)
      /\ ProofsOf(c) = {l, r} \ {None}
      /\ \A p \in ProofsOf(c) : IsExistenceProof(p)
  BY MessagesAssumption DEF ProofsOf
<1>2. RustAccepts(c) <=>
          /\ l # None => rust(l) /\ Before(c.spec, l.key, c.key)
          /\ r # None => rust(r) /\ Before(c.spec, c.key, r.key)
          /\ spec # None
          /\ rustplaced
  BY <1>1 DEF RustAccepts, VerifiesAbsence
<1>3. GoVerifyAbsence(c, sent) = "ok" <=>
          /\ GoSidesVerified(c, sent) /\ GoInRange(c) /\ GoPlaced(c) = "yes"
  BY DEF GoVerifyAbsence
<1>4. GoSidesVerified(c, sent) <=>
          (l # None \/ r # None) /\ (l # None => go(l)) /\ (r # None => go(r))
  BY DEF GoSidesVerified
<1>5. GoInRange(c) <=>
          /\ r # None => Before(c.spec, c.key, r.key)
          /\ l # None => Before(c.spec, l.key, c.key)
  BY DEF GoInRange
<1>6. /\ l # None => OpsIn(l.path)
      /\ r # None => OpsIn(r.path)
  BY <1>1, OpsInProof
<1>7. spec # None /\ ~OtherOrder(c) => InOrder(spec)
  BY <1>1 DEF OtherOrder, InOrder, IsProofSpec
<1>8. spec # None /\ ~OtherOrder(c) /\ (l # None \/ r # None) =>
          /\ GoPlaced(c) = "yes" /\ narrow => rustplaced
          /\ rustplaced => GoPlaced(c) = "yes"
  BY <1>6, <1>7, GoPlacedAlike
<1>9. rustplaced => l # None \/ r # None
  OBVIOUS
<1>10. ASSUME NEW p \in ProofsOf(c)
       PROVE  /\ go(p) /\ ~GoAlone(c) => rust(p)
              /\ rust(p) /\ ~RustAlone(c, sent) => go(p)
  BY GoSidesAlike
<1>11. /\ l # None => l \in ProofsOf(c)
       /\ r # None => r \in ProofsOf(c)
  BY <1>1
<1>12. ASSUME ~GoAlone(c), \A p \in ProofsOf(c) : rust(p) PROVE narrow
  <2> SUFFICES ASSUME NEW p \in {l, r} \ {None}, NEW k \in 1..Len(p.path)
               PROVE  /\ spec.child_size > 0
                      /\ ~(Len(p.path[k].suffix) > spec.child_size)
    OBVIOUS
  <2>1. p \in ProofsOf(c)
    BY <1>1
  <2>2. StepAccepted(p, c.spec, k)
    BY <1>12, <2>1 DEF VerifiesExistence
  <2>3. spec.child_size > 0
    BY <2>2 DEF StepAccepted, EnsureInner
  <2>4. ~(Len(p.path[k].suffix) > spec.child_size)
    BY <1>1, <1>12, <2>1 DEF GoAlone
  <2> QED
    BY <2>3, <2>4
<1>13. (GoPlaced(c) = "yes" /\ (l # None \/ r # None)) => spec # None
  BY DEF GoPlaced, GoIsLeftMost, GoIsRightMost, GoIsLeftNeighbor
<1>14. OtherOrder(c) => GoAlone(c) /\ RustAlone(c, sent)
  BY <1>1 DEF GoAlone, RustAlone
<1> HIDE DEF rustplaced, narrow, rust, go
<1>15. ASSUME GoVerifyAbsence(c, sent) = "ok", ~GoAlone(c) PROVE RustAccepts(c)
  <2>1. /\ GoSidesVerified(c, sent) /\ GoInRange(c) /\ GoPlaced(c) = "yes"
    BY <1>3, <1>15
  <2>2. (l # None \/ r # None) /\ (l # None => go(l)) /\ (r # None => go(r))
    BY <1>4, <2>1
  <2>3. (l # None => rust(l)) /\ (r # None => rust(r))
    BY <1>10, <1>11, <1>15, <2>2
  <2>4. \A p \in ProofsOf(c) : rust(p)
    BY <1>1, <2>3
  <2>5. narrow
    BY <1>12, <1>15, <2>4
  <2>6. spec # None
    BY <1>13, <2>1, <2>2
  <2>7. rustplaced
    BY <1>8, <1>14, <1>15, <2>1, <2>2, <2>5, <2>6
  <2> QED
    BY <1>2, <1>5, <2>1, <2>3, <2>6, <2>7
<1>16. ASSUME RustAccepts(c), ~RustAlone(c, sent) PROVE GoVerifyAbsence(c, sent) = "ok"
  <2>1. /\ l # None => rust(l) /\ Before(c.spec, l.key, c.key)
        /\ r # None => rust(r) /\ Before(c.spec, c.key, r.key)
        /\ spec # None
        /\ rustplaced
    BY <1>2, <1>16
  <2>2. l # None \/ r # None
    BY <1>9, <2>1
  <2>3. (l # None => go(l)) /\ (r # None => go(r))
    BY <1>10, <1>11, <1>16, <2>1
  <2>4. GoSidesVerified(c, sent)
    BY <1>4, <2>2, <2>3
  <2>5. GoInRange(c)
    BY <1>5, <2>1
  <2>6. GoPlaced(c) = "yes"
    BY <1>8, <1>14, <1>16, <2>1, <2>2
  <2> QED
    BY <1>3, <2>4, <2>5, <2>6
<1> QED
  BY <1>15, <1>16

(* Except in the cases that GoAlone and RustAlone name, the two            *)
(* implementations give the same answer to every call.                     *)
THEOREM ImplementationsAlike == Spec => []ImplementationsAgree
<1>1. ASSUME AnswerIsOfCall PROVE ImplementationsAgree
  <2> SUFFICES ASSUME answer # None
               PROVE  /\ answer = "ok" => RustAccepts(call) \/ GoAlone(call)
                      /\ RustAccepts(call) => answer = "ok" \/ RustAlone(call, omitted)
    BY DEF ImplementationsAgree
  <2>1. call # None /\ Answered
    BY <1>1 DEF AnswerIsOfCall
  <2>2. CASE call \in Absences
    <3>1. answer = GoVerifyAbsence(call, omitted)
      BY <2>1, <2>2, MessagesAssumption DEF Answered
    <3> QED
      BY <2>2, <3>1, AbsencesAlike
  <2>3. CASE call \in Requests
    <3>1. /\ ~IsAbsence(call) /\ call.proof # None
          /\ call.spec # None => IsProofSpec(call.spec)
          /\ call.proof \in ProofsOf(call)
          /\ IsExistenceProof(call.proof)
      BY <2>3, MessagesAssumption DEF ProofsOf
    <3>2. ~RustAlone(call, omitted) => ~GoRefuses(call.proof, call.spec, omitted)
      BY <3>1 DEF RustAlone
    <3>3. CASE call.spec = None
      <4>1. answer = Outcome(GoCalculates(call.proof, None))
        BY <2>1, <2>3, <3>1, <3>3, MessagesAssumption DEF Answered
      <4>2. RustAccepts(call) <=>
                RootFrom(call.proof, None, Hashes(call.proof)[Len(call.proof.path)])
        BY <3>1, <3>3 DEF RustAccepts
      <4>3. GoCalculates(call.proof, None) => RustAccepts(call)
        BY <3>1, <4>2, GoRootIsRoot
      <4>4. RustAccepts(call) /\ ~RustAlone(call, omitted) =>
                GoCalculates(call.proof, None)
        BY <3>2, <3>3, <4>2, RootIsGoRoot
      <4> QED
        BY <4>1, <4>3, <4>4 DEF Outcome
    <3>4. CASE call.spec # None
      <4> DEFINE go == GoVerifiesExistence(call.proof, call.spec, call.root, call.key,
                                           call.value, omitted)
      <4>1. answer = Outcome(go)
        BY <2>1, <2>3, <3>1, <3>4, MessagesAssumption DEF Answered
      <4>2. RustAccepts(call) <=>
                VerifiesExistence(call.proof, call.spec, call.root, call.key, call.value)
        BY <3>1, <3>4 DEF RustAccepts
      <4>3. ~GoAlone(call) => ~(call.spec.min_depth > 0 /\ call.spec.max_depth = 0)
        BY <3>4 DEF GoAlone
      <4>4. go /\ ~GoAlone(call) => RustAccepts(call)
        BY <3>1, <3>4, <4>2, <4>3, GoExistenceIsRusts
      <4>5. RustAccepts(call) /\ ~RustAlone(call, omitted) => go
        BY <3>1, <3>2, <3>4, <4>2, RustExistenceIsGos
      <4> HIDE DEF go
      <4> QED
        BY <4>1, <4>4, <4>5 DEF Outcome
    <3> QED
      BY <3>3, <3>4
  <2> QED
    BY <2>1, <2>2, <2>3 DEF Answered
<1> QED
  BY <1>1, AnswerIsOfCallHolds, PTL
-----------------------------------------------------------------------------
(* What the stores write is confirmed.                                     *)

(* Where a key that the tree does not have is among those of its leaves.   *)
LEMMA AbsentKeyPlace ==
    ASSUME NEW t \in Trees, NEW r \in Absences, r.spec = t.spec, ~HasKey(t, r.key),
           t \in Stores, t \in SortedTrees
    PROVE  HasPlace(t, r.key) /\ IsOrderedStore(t)
<1> DEFINE K == ComparedKeys
<1>1. \A a, b, c \in K :
          /\ ~Before(t.spec, a, a)
          /\ a = b \/ Before(t.spec, a, b) \/ Before(t.spec, b, a)
          /\ Before(t.spec, a, b) /\ Before(t.spec, b, c) => Before(t.spec, a, c)
  BY OrderAssumption DEF IsStrictOrder
<1>2. r.key \in K /\ \A n \in t.leaves : t.key[n] \in K
  BY DEF ComparedKeys, TreeKeys
<1> HIDE DEF K
<1>3. \A n \in t.leaves : t.key[n] # r.key
  BY DEF HasKey
<1>4. HasPlace(t, r.key)
  BY <1>1, <1>2, <1>3 DEF HasPlace, Ahead
<1>5. \A x, y, z \in t.leaves :
          /\ ~Ahead(t, x, x)
          /\ Ahead(t, x, y) /\ Ahead(t, y, z) => Ahead(t, x, z)
  BY <1>1, <1>2 DEF Ahead
<1> QED
  BY <1>4, <1>5 DEF IsOrderedStore

(* The proof that the key is beyond the last leaf or before the first.     *)
LEMMA OneSideConfirmed ==
    ASSUME NEW c \in Absences, NEW sent, NEW t, IsOrderedStore(t),
           c.spec = t.spec, c.root = t.hash[t.root],
           \A p \in ProofsOf(c) : ~GoRefuses(p, c.spec, sent),
           Cardinality(ProofsOf(c)) = 1,
           NEW a, NEW b, ClosesOn(t, a, b),
           a # None => Before(t.spec, t.key[a], c.key),
           b # None => Before(t.spec, c.key, t.key[b]),
           c.proof.left = SideOf(t, a), c.proof.right = SideOf(t, b)
    PROVE  GoVerifyAbsence(c, sent) = "ok"
<1> DEFINE l == c.proof.left
           r == c.proof.right
           spec == c.spec.inner_spec
           go(p) == GoVerifiesExistence(p, c.spec, c.root, p.key, p.value, sent)
<1>0. t \in Trees /\ t \in SortedTrees /\ t.leaves \subseteq t.nodes
  BY OrderedStoreFacts
<1>1. /\ IsAbsence(c) /\ c.spec # None /\ IsProofSpec(c.spec)
      /\ ProofsOf(c) = {l, r} \ {None}
      /\ \A p \in ProofsOf(c) : IsExistenceProof(p)
  BY MessagesAssumption DEF ProofsOf
<1>2. InOrder(spec)
  BY <1>0, SortedInOrder
<1>3. a # None => /\ a \in t.leaves /\ l # None /\ l.key = t.key[a]
                  /\ VerifiesExistence(l, c.spec, c.root, l.key, l.value)
  BY SideVerifies DEF ClosesOn
<1>4. b # None => /\ b \in t.leaves /\ r # None /\ r.key = t.key[b]
                  /\ VerifiesExistence(r, c.spec, c.root, r.key, r.value)
  BY SideVerifies DEF ClosesOn
<1>5. (a = None => l = None) /\ (b = None => r = None)
  BY DEF SideOf
<1>6. a = None \/ b = None
  <2> SUFFICES ASSUME a # None, b # None PROVE FALSE
    OBVIOUS
  <2>1. ProofsOf(c) = {l, r} /\ l \in ProofsOf(c) /\ r \in ProofsOf(c)
    BY <1>1, <1>3, <1>4
  <2>2. IsFiniteSet(ProofsOf(c))
    <3>1. IsFiniteSet({l}) /\ IsFiniteSet({l} \union {r})
      BY FS_Singleton, FS_AddElement
    <3>2. {l} \union {r} = ProofsOf(c)
      BY <2>1
    <3> QED
      BY <3>1, <3>2
  <2>3. PICK p : ProofsOf(c) = {p}
    BY <2>2, FS_Singleton
  <2>4. l = r
    BY <2>1, <2>3
  <2>5. Ahead(t, a, b) /\ a \in t.leaves
    BY <1>3 DEF ClosesOn
  <2>6. Ahead(t, a, a)
    BY <1>3, <1>4, <2>4, <2>5 DEF Ahead
  <2> QED
    BY <2>5, <2>6 DEF IsOrderedStore
<1>7. /\ l # None => go(l) /\ OpsIn(l.path)
      /\ r # None => go(r) /\ OpsIn(r.path)
  <2>1. ASSUME NEW p \in ProofsOf(c),
               VerifiesExistence(p, c.spec, c.root, p.key, p.value)
        PROVE  go(p) /\ OpsIn(p.path)
    BY <1>1, <2>1, RustExistenceIsGos, OpsInProof
  <2> HIDE DEF go
  <2> QED
    BY <1>1, <1>3, <1>4, <1>5, <2>1
<1>8. GoSidesVerified(c, sent)
  <2>1. l # None \/ r # None
    BY <1>3, <1>4 DEF ClosesOn
  <2> QED
    BY <1>7, <2>1 DEF GoSidesVerified
<1>9. GoInRange(c)
  BY <1>3, <1>4, <1>5 DEF GoInRange
<1>10. GoPlaced(c) = "yes"
  <2>1. CASE a = None
    <3>1. b # None /\ l = None
      BY <1>5, <2>1 DEF ClosesOn
    <3>2. LeftMost(spec, r.path, Len(r.path))
      BY <2>1, PairEdges
    <3>3. GoPlaced(c) = GoIsLeftMost(spec, r.path)
      BY <3>1 DEF GoPlaced
    <3>4. OpsIn(r.path)
      BY <1>4, <1>7, <3>1
    <3> QED
      BY <1>2, <3>2, <3>3, <3>4, GoLeftEdge DEF OpsIn
  <2>2. CASE a # None
    <3>1. b = None /\ r = None /\ l # None
      BY <1>3, <1>5, <1>6, <2>2
    <3>2. RightEdge(spec, l.path, Len(l.path))
      BY <3>1, PairEdges
    <3>3. GoPlaced(c) = GoIsRightMost(spec, l.path)
      BY <3>1 DEF GoPlaced
    <3>4. OpsIn(l.path)
      BY <1>7, <3>1
    <3> QED
      BY <1>2, <3>2, <3>3, <3>4, GoRightEdge DEF OpsIn, RightEdge
  <2> QED
    BY <2>1, <2>2
<1> QED
  BY <1>8, <1>9, <1>10 DEF GoVerifyAbsence

(* The two Go entry points confirm what a store proves: for a leaf because *)
(* Rust does; for a key it does not have because Rust does or, when there  *)
(* are several placeholders beside it, because all of them are looked at.  *)
THEOREM GoHonestConfirmed == Spec => []GoHonestAccepted
<1>1. ASSUME AnswerIsOfCall PROVE GoHonestAccepted
  <2> SUFFICES ASSUME answer # None, NEW t \in Concerned(call) \intersect Stores,
                      HonestCall(t, call),
                      \A p \in ProofsOf(call) : ~GoRefuses(p, call.spec, omitted)
               PROVE  answer = "ok"
    BY DEF GoHonestAccepted
  <2>1. call # None /\ Answered /\ t \in Trees /\ t \in Stores
    BY <1>1 DEF AnswerIsOfCall, Stores
  <2>2. call.spec = t.spec /\ call.root = t.hash[t.root] /\ call.spec # None
    BY <2>1, TreesAssumption DEF Concerned, WellFormedTree, IsSoundSpec
  <2>3. CASE call \in Requests
    <3>1. /\ ~IsAbsence(call) /\ IsProofSpec(call.spec)
          /\ call.proof \in ProofsOf(call) /\ IsExistenceProof(call.proof)
      BY <2>2, <2>3, MessagesAssumption DEF ProofsOf
    <3>2. PICK n \in t.leaves : call = HonestRequest(t, n)
      BY <3>1 DEF HonestCall
    <3>3. /\ call.proof = HonestProof(t, n)
          /\ call.key = t.key[n] /\ call.value = t.value[n]
      BY <3>2 DEF HonestRequest
    <3>4. VerifiesExistence(call.proof, call.spec, call.root, call.key, call.value)
      BY <2>1, <2>2, <3>3, HonestVerifies
    <3>5. GoVerifiesExistence(call.proof, call.spec, call.root, call.key, call.value,
                              omitted)
      BY <2>2, <3>1, <3>4, RustExistenceIsGos
    <3>6. call \notin Absences
      BY <3>1, MessagesAssumption
    <3> QED
      BY <2>1, <2>2, <3>5, <3>6 DEF Answered, Outcome
  <2>4. CASE call \in Absences
    <3>1. IsAbsence(call) /\ call \notin Requests
      BY <2>4, MessagesAssumption
    <3>2. answer = GoVerifyAbsence(call, omitted)
      BY <2>1, <3>1 DEF Answered
    <3>3. /\ t \in SortedTrees /\ ~HasKey(t, call.key)
          /\ call = HonestAbsence(t, call.key)
          /\ NeighborsTold(t) \/ Cardinality(ProofsOf(call)) = 1
      BY <3>1 DEF HonestCall
    <3>4. HasPlace(t, call.key) /\ IsOrderedStore(t)
      BY <2>1, <2>2, <2>4, <3>3, AbsentKeyPlace
    <3>5. CASE NeighborsTold(t)
      <4>1. VerifiesAbsence(call.proof, call.spec, call.root, call.key)
        BY <2>2, <3>3, <3>4, <3>5, HonestAbsenceVerifies
      <4>2. RustAccepts(call)
        BY <2>2, <3>1, <4>1 DEF RustAccepts
      <4>3. ~RustAlone(call, omitted)
        BY <2>2, <3>3 DEF RustAlone, OtherOrder, SortedTrees
      <4> QED
        BY <2>4, <3>2, <4>2, <4>3, AbsencesAlike
    <3>6. CASE Cardinality(ProofsOf(call)) = 1
      <4> DEFINE proof == HonestAbsence(t, call.key).proof
      <4>1. PICK a, b : /\ ClosesOn(t, a, b)
                        /\ a # None => Before(t.spec, t.key[a], call.key)
                        /\ b # None => Before(t.spec, call.key, t.key[b])
                        /\ proof.left = SideOf(t, a) /\ proof.right = SideOf(t, b)
        BY <3>4, AbsencePair
      <4>2. call.proof = proof
        BY <3>3
      <4> HIDE DEF proof
      <4>3. GoVerifyAbsence(call, omitted) = "ok"
        BY <2>2, <2>4, <3>4, <3>6, <4>1, <4>2, OneSideConfirmed
      <4> QED
        BY <3>2, <4>3
    <3> QED
      BY <3>3, <3>5, <3>6
  <2> QED
    BY <2>1, <2>3, <2>4 DEF Answered
<1> QED
  BY <1>1, AnswerIsOfCallHolds, PTL
=============================================================================
