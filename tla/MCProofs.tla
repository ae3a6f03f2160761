------------------------------ MODULE MCProofs ------------------------------
(***************************************************************************)
(* Calls about small trees: honest proofs, honest proofs used for          *)
(* something else, and every proof that can be put together from their     *)
(* parts and from assembled operations.                                    *)
(***************************************************************************)
EXTENDS MCTrees

Trio == <<TendermintTree, SmtTree, IavlTree>>

AllTrees == Range(Trio)

(* What assembled proofs are made of.  For a tree t:                          *)
(*   leaf operations: one of the tree; the spec's; one that stretches the  *)
(*     prefix into the key of leaf 1; one with an inner node's header;     *)
(*   keys and values: true ones, false ones, and the images of the leaves  *)
(*     below node 4, whose digests the image of node 4 is made of;         *)
(*   inner operations: those of nodes 4 and 5; leaf 2 passed off as an     *)
(*     inner node over the digest of its value; a suffix that is no        *)
(*     multiple of the child size; no prefix; another hash;                *)
(*   continuations of a path: nothing, an operation, or an honest path.    *)
Parts(t) ==
    LET slot   == Step(t, t.root, 1)
        leafop == t.leafop[1]
        single ==
            <<<<Step(t, 4, 1)>>, <<Step(t, 4, 2)>>, <<slot>>,
              <<Step(t, t.root, 2)>>,
              <<[slot EXCEPT !.prefix = SubSeq(t.image[2], 1,
                                            Len(t.image[2]) - HashSize),
                             !.suffix = <<>>]>>,
              <<[slot EXCEPT !.suffix = Tail(slot.suffix)]>>,
              <<[slot EXCEPT !.prefix = <<>>]>>,
              <<[slot EXCEPT !.hash = "SHA512"]>>>>
    IN  [spec  |-> t.spec,
         root  |-> t.hash[t.root],
         leaf  |-> <<leafop, t.spec.leaf_spec,
                     [leafop EXCEPT !.prefix = @ \o <<Byte(3), Byte(1)>>],
                     [leafop EXCEPT !.prefix = SubSeq(t.image[4], 1, t.offset[4])]>>,
         key   |-> <<t.key[2], t.key[3], FalseKey, t.image[1]>>,
         value |-> <<t.value[1], t.value[2], FalseValue, t.image[2]>>,
         first |-> <<<<>>>> \o single,
         rest  |-> <<<<>>>> \o single \o [n \in 1..3 |-> TreePath(t, n)]]

AssembledRequest(parts, l, k, v, a, b) ==
    [proof |-> [key |-> parts.key[k], value |-> parts.value[v],
                leaf |-> parts.leaf[l],
                path |-> parts.first[a] \o parts.rest[b]],
     spec |-> parts.spec, root |-> parts.root,
     key |-> parts.key[k], value |-> parts.value[v]]

(* Every proof made of them, offered for the key and value it carries.     *)
(* The parts are bound as one value: TLC then builds them once.            *)
Assembled ==
    {AssembledRequest(pool[f], l, k, v, a, b) :
        pool \in {<<Parts(Trio[1]), Parts(Trio[2]), Parts(Trio[3])>>},
        f \in 1..3, l \in 1..4, k \in 1..4, v \in 1..4,
        a \in 1..9, b \in 1..12}

Honest == UNION {{HonestRequest(t, n) : n \in t.leaves} : t \in AllTrees}

(* Honest proofs used for something else: another key or value, no spec,   *)
(* no leaf, an empty key or value, another root, half a spec, a depth the  *)
(* path does not have.                                                     *)
Misused ==
    UNION {{[r EXCEPT !.key = FalseKey], [r EXCEPT !.value = FalseValue],
            [r EXCEPT !.spec = None], [r EXCEPT !.proof.leaf = None],
            [r EXCEPT !.proof.key = <<>>, !.key = <<>>],
            [r EXCEPT !.proof.value = <<>>, !.value = <<>>],
            [r EXCEPT !.root = Sha(FalseValue)],
            [r EXCEPT !.spec.leaf_spec = None],
            [r EXCEPT !.spec.inner_spec = None],
            [r EXCEPT !.spec.min_depth = 1, !.spec.max_depth = 1]} : r \in Honest}

(* Honest proofs under a bound on their depth alone. *)
Bounded == {[r EXCEPT !.spec.max_depth = 1] : r \in Honest}

AllRequests == Assembled \union (Honest \union Misused)
=============================================================================
