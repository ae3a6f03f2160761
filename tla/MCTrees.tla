------------------------------ MODULE MCTrees ------------------------------
(***************************************************************************)
(* Small trees for the model checker, in the three predefined formats.     *)
(***************************************************************************)
EXTENDS MerkleTree, MCSizes, SequencesExt, TLC

Sha(x) == Digest("SHA256", x)

(* The function f as a table.  TLC would otherwise evaluate its body again *)
(* at every application.                                                   *)
Tabulate(f) == f @@ <<>>

(* A tree with the given leaves and children.  An inner node's image is    *)
(* its header and, for each child, tag and hash.                           *)
BuildTree(spec, leafop, key, value, kids, root, header, tag) ==
    LET leaves == DOMAIN key
        nodes  == leaves \union DOMAIN kids
        image[n \in nodes] ==
            IF n \in leaves
            THEN LeafImage(leafop[n], key[n], value[n])
            ELSE header[n] \o FlattenSeq(
                    [j \in DOMAIN kids[n] |->
                        tag \o IF kids[n][j] = None
                               THEN spec.inner_spec.empty_child
                               ELSE Sha(image[kids[n][j]])])
        height[n \in nodes] ==
            IF n \in leaves THEN 0
            ELSE 1 + Max({height[c] : c \in Range(kids[n]) \ {None}})
        below[n \in nodes] ==
            IF n \in leaves THEN {n}
            ELSE UNION {below[c] : c \in Range(kids[n]) \ {None}}
    IN  [spec |-> spec, nodes |-> nodes, leaves |-> leaves, root |-> root,
         leafop |-> Tabulate(leafop), key |-> key, value |-> value, kids |-> kids,
         offset |-> Tabulate([n \in DOMAIN kids |-> Len(header[n]) + Len(tag)]),
         height |-> Tabulate([n \in nodes |-> height[n]]),
         below |-> Tabulate([n \in nodes |-> below[n]]),
         image |-> Tabulate([n \in nodes |-> image[n]]),
         hash |-> Tabulate([n \in nodes |-> Sha(image[n])])]

-----------------------------------------------------------------------------
(* The leaf no tree has: a false claim. *)
FalseKey   == <<Byte(2)>>
FalseValue == <<Byte(7)>>

(* A legitimate value may have any content: here, the image of the false   *)
(* leaf, so that the digest of that image is part of a leaf's image.       *)
Lure(spec) == LeafImage(spec.leaf_spec, FalseKey, FalseValue)

(* Three leaves.  The key of leaf 1 reads, from its second byte on, as a   *)
(* length and the false key.                                               *)
MCKey == 1 :> <<Byte(1), Byte(1), Byte(2)>> @@ 2 :> <<Byte(3)>> @@ 3 :> <<Byte(5)>>
MCValue(spec) == 1 :> <<Byte(4)>> @@ 2 :> Lure(spec) @@ 3 :> <<Byte(6)>>

(* (1 2) 3 *)
ThreeLeaves == 4 :> <<1, 2>> @@ 5 :> <<4, 3>>

(* (1 2) (None 3) *)
Sparse == 4 :> <<1, 2>> @@ 5 :> <<4, 6>> @@ 6 :> <<None, 3>>

SameLeafOp(spec) == [n \in 1..3 |-> spec.leaf_spec]
SameHeader(kids) == [n \in DOMAIN kids |-> <<Byte(1)>>]

TendermintTree ==
    BuildTree(TendermintSpec, SameLeafOp(TendermintSpec), MCKey,
              MCValue(TendermintSpec), ThreeLeaves, 5,
              SameHeader(ThreeLeaves), <<>>)

SmtTree ==
    BuildTree(SmtSpec, SameLeafOp(SmtSpec), MCKey, MCValue(SmtSpec), Sparse, 5,
              SameHeader(Sparse), <<>>)

IavlTree ==
    BuildTree(IavlSpec,
              [n \in 1..3 |->
                  [IavlSpec.leaf_spec EXCEPT !.prefix = IavlHeader(0, 1, 1)]],
              MCKey, MCValue(IavlSpec), ThreeLeaves, 5,
              4 :> IavlHeader(1, 2, 1) @@ 5 :> IavlHeader(2, 3, 1),
              <<Byte(HashSize)>>)
=============================================================================
