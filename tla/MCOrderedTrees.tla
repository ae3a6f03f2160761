--------------------------- MODULE MCOrderedTrees ---------------------------
(***************************************************************************)
(* Small trees in the order of their keys, and every pair of proofs of     *)
(* their leaves as a proof of absence, for every key between and beside    *)
(* the keys of the tree.                                                   *)
(***************************************************************************)
EXTENDS OrderedTree, MCTrees

-----------------------------------------------------------------------------
Keys == <<<<Byte(1), Byte(1), Byte(2)>>, <<Byte(3)>>, <<Byte(4)>>,
          <<Byte(5)>>, <<Byte(6)>>>>

(* A tree of the spec's format with n leaves. *)
Tree(spec, leafop, n, order, kids, root, header, tag) ==
    BuildTree(spec, [i \in 1..n |-> leafop],
              [i \in 1..n |-> Keys[order[i]]], [i \in 1..n |-> <<Byte(i)>>],
              kids, root, header, tag)

Plain(spec, n, order, kids, root) ==
    Tree(spec, spec.leaf_spec, n, order, kids, root, SameHeader(kids), <<>>)

Upwards   == [i \in 1..5 |-> i]
Downwards == [i \in 1..4 |-> 5 - i]

TernarySpec == [TendermintSpec EXCEPT
                   !.inner_spec.child_order = <<0, 1, 2>>,
                   !.inner_spec.empty_child = [i \in 1..HashSize |-> Byte(0)]]

(* ((1 2) 3) 4 *)
Leaning == 5 :> <<1, 2>> @@ 6 :> <<5, 3>> @@ 7 :> <<6, 4>>

(* (1 2) (3 4) *)
Full == 5 :> <<1, 2>> @@ 6 :> <<3, 4>> @@ 7 :> <<5, 6>>

(* ((. 1) (2 .)) ((. 3) (. 4)) *)
Gaps == 5 :> <<None, 1>> @@ 6 :> <<2, None>> @@ 7 :> <<5, 6>>
            @@ 8 :> <<None, 3>> @@ 9 :> <<None, 4>> @@ 10 :> <<8, 9>>
            @@ 11 :> <<7, 10>>

(* (. 1) . *)
Alone == 2 :> <<None, 1>> @@ 3 :> <<2, None>>

(* (1 2 3) 4 5 *)
Triple == 6 :> <<1, 2, 3>> @@ 7 :> <<6, 4, 5>>

(* (1 . 2) (. . 3) (4 . .) *)
TripleGaps == 5 :> <<1, None, 2>> @@ 6 :> <<None, None, 3>>
                  @@ 7 :> <<4, None, None>> @@ 8 :> <<5, 6, 7>>

MCTree ==
    [leaning |-> Plain(TendermintSpec, 4, Upwards, Leaning, 7),
     leaf    |-> Plain(TendermintSpec, 1, Upwards, <<>>, 1),
     full    |-> Tree(IavlSpec,
                      [IavlSpec.leaf_spec EXCEPT !.prefix = IavlHeader(0, 1, 1)],
                      4, Upwards, Full, 7,
                      5 :> IavlHeader(1, 2, 1) @@ 6 :> IavlHeader(1, 2, 1)
                          @@ 7 :> IavlHeader(2, 4, 1),
                      <<Byte(HashSize)>>),
     gaps    |-> Plain(SmtSpec, 4, Downwards, Gaps, 11),
     alone   |-> Plain(SmtSpec, 1, Upwards, Alone, 3),
     triple  |-> Plain(TernarySpec, 5, Upwards, Triple, 7),
     triple_gaps |-> Plain(TernarySpec, 4, Upwards, TripleGaps, 8)]

OrderedTrees == {MCTree[f] : f \in DOMAIN MCTree}

-----------------------------------------------------------------------------
(* The leaf of a proof read with a longer prefix and a shorter key. *)
Stretch(proof) ==
    [proof EXCEPT !.leaf.prefix = @ \o <<Byte(Len(proof.key)), proof.key[1]>>,
                  !.key = SubSeq(@, 3, Len(@))]

(* What can be on one side: nothing, the proof of any leaf, a leaf read    *)
(* otherwise, a proof that is refused.                                     *)
MCSides(t) ==
    LET honest == {HonestProof(t, n) : n \in t.leaves}
    IN  {None} \union honest
            \union {Stretch(p) : p \in {h \in honest : Len(h.key) > 2}}
            \union {[HonestProof(t, 1) EXCEPT !.value = <<Byte(7)>>]}

Asked(t) ==
    {<<Byte(0)>>, <<Byte(1), Byte(2)>>, <<Byte(3), Byte(0)>>,
     <<Byte(4), Byte(0)>>, <<Byte(5), Byte(0)>>, <<Byte(7)>>}
        \union {t.key[n] : n \in t.leaves}

AbsencesOf(t) ==
    {[proof |-> [left |-> l, right |-> r], spec |-> t.spec,
      root |-> t.hash[t.root], key |-> key] :
        l \in MCSides(t), r \in MCSides(t), key \in Asked(t)}

(* Both proofs can be missing for a spec that has no inner spec, too. *)
NoInnerSpec ==
    LET t == MCTree.leaf
    IN  [proof |-> [left |-> None, right |-> None],
         spec |-> [t.spec EXCEPT !.inner_spec = None],
         root |-> t.hash[t.root], key |-> <<Byte(0)>>]

AllAbsences == {NoInnerSpec} \union UNION {AbsencesOf(t) : t \in OrderedTrees}

-----------------------------------------------------------------------------
(* Trees with three slots for each node's children, which are in the order *)
(* left, right, here; one with an empty child on the right.                *)
MerkSpec == [TernarySpec EXCEPT !.inner_spec.child_order = <<0, 2, 1>>]

MerkTree    == Plain(MerkSpec, 3, <<1, 3, 2>>, 4 :> <<1, 2, 3>>, 4)
MerkGapTree == Plain(MerkSpec, 2, <<1, 2>>, 3 :> <<1, None, 2>>, 3)
=============================================================================
