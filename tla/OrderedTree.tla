---------------------------- MODULE OrderedTree ----------------------------
(***************************************************************************)
(* Merkle trees whose leaves are in the order of their keys, as a proof of *)
(* absence needs them.  Like MerkleTree, this is what is assumed of the    *)
(* stores, not part of the library.                                        *)
(***************************************************************************)
EXTENDS MerkleTree, Neighbors

(* child_order gives each slot its rank, from 0. *)
IsOrdering(order) ==
    /\ Range(order) = 0..(Len(order) - 1)
    /\ IsInjective(order)

(* The slots are in the order of the keys. *)
InSlotOrder(order) == \A i \in 1..Len(order) : order[i] = i - 1

(* t.below[n] is the set of the leaves below n.  Those below a child come  *)
(* before those below any child of higher rank.                            *)
Below(t, c) == IF c = None THEN {} ELSE t.below[c]

OrderedTree(t) ==
    LET rank == t.spec.inner_spec.child_order
    IN  /\ IsOrdering(rank)
        /\ \A n \in t.leaves : t.below[n] = {n}
        /\ \A n \in Inners(t) :
               /\ t.below[n] = UNION {Below(t, t.kids[n][i]) : i \in 1..Len(rank)}
               /\ \A i, j \in 1..Len(rank) : rank[i] < rank[j] =>
                      \A x \in Below(t, t.kids[n][i]) :
                      \A y \in Below(t, t.kids[n][j]) :
                          Before(t.spec, t.key[x], t.key[y])
        /\ t.below[t.root] = t.leaves

(* The trees a proof of absence can be about: neighbors are told by their  *)
(* place in the node, so the slots of a node have to be in the order of    *)
(* the keys.                                                               *)
SortedTrees ==
    {t \in Trees : OrderedTree(t) /\ InSlotOrder(t.spec.inner_spec.child_order)}

(* Keys are compared by a strict order, which leaves no two of them open.  *)
IsStrictOrder(spec, keys) ==
    \A a, b, c \in keys :
        /\ ~Before(spec, a, a)
        /\ a = b \/ Before(spec, a, b) \/ Before(spec, b, a)
        /\ Before(spec, a, b) /\ Before(spec, b, c) => Before(spec, a, c)

TreeKeys == UNION {{t.key[n] : n \in t.leaves} : t \in Trees}

HasKey(t, key) == \E n \in t.leaves : t.key[n] = key

-----------------------------------------------------------------------------
(* Where the leaves below a node are among the others.                     *)
Ahead(t, x, y) == Before(t.spec, t.key[x], t.key[y])

IsLast(t, n, leaf)  == /\ leaf \in t.below[n]
                       /\ \A x \in t.below[n] : x = leaf \/ Ahead(t, x, leaf)
IsFirst(t, n, leaf) == /\ leaf \in t.below[n]
                       /\ \A x \in t.below[n] : x = leaf \/ Ahead(t, leaf, x)

AheadOf(t, x, n) == \A y \in t.below[n] : Ahead(t, x, y)
Behind(t, x, n)  == \A y \in t.below[n] : Ahead(t, y, x)

(* No leaf is among those below n without being one of them. *)
IsBlock(t, n) == \A x \in t.leaves :
    AheadOf(t, x, n) \/ x \in t.below[n] \/ Behind(t, x, n)

(* No leaf is between those below m and those below n. *)
AreAdjacent(t, m, n) == \A x \in t.leaves :
    \/ AheadOf(t, x, m) \/ x \in t.below[m]
    \/ x \in t.below[n] \/ Behind(t, x, n)

-----------------------------------------------------------------------------
(* Where two paths part, they are over neighboring slots, and beside a path *)
(* on the edge there is one placeholder at most.                            *)
NeighborsTold(t) ==
    Arity(t.spec) = 2 \/ \A n \in Inners(t) : None \notin Range(t.kids[n])

(* The proof a store gives for a key it does not have: the leaves on both  *)
(* sides of the key.                                                       *)
LeavesBefore(t, key) == {n \in t.leaves : Before(t.spec, t.key[n], key)}
LeavesAfter(t, key)  == {n \in t.leaves : Before(t.spec, key, t.key[n])}

LastBefore(t, key) ==
    CHOOSE n \in LeavesBefore(t, key) :
        \A m \in LeavesBefore(t, key) : m = n \/ Before(t.spec, t.key[m], t.key[n])

FirstAfter(t, key) ==
    CHOOSE n \in LeavesAfter(t, key) :
        \A m \in LeavesAfter(t, key) : m = n \/ Before(t.spec, t.key[n], t.key[m])

HonestAbsence(t, key) ==
    [proof |->
        [left  |-> IF LeavesBefore(t, key) = {} THEN None
                   ELSE HonestProof(t, LastBefore(t, key)),
         right |-> IF LeavesAfter(t, key) = {} THEN None
                   ELSE HonestProof(t, FirstAfter(t, key))],
     spec |-> t.spec, root |-> t.hash[t.root], key |-> key]
=============================================================================
