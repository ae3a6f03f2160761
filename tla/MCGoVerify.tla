----------------------------- MODULE MCGoVerify -----------------------------
(***************************************************************************)
(* Model checking GoVerify: the calls of the Rust models, and trees that   *)
(* only one of the implementations takes.                                  *)
(***************************************************************************)
EXTENDS GoVerify, MCProofs, MCOrderedTrees

MCDefaultDepth == 3

(* Deeper than the default: (((1 2) 3) 4) 5 *)
Deep == 6 :> <<1, 2>> @@ 7 :> <<6, 3>> @@ 8 :> <<7, 4>> @@ 9 :> <<8, 5>>

DeepTree == Plain(TendermintSpec, 5, Upwards, Deep, 9)

(* Inner nodes of a Tendermint tree that do not begin with 1. *)
OtherHeader ==
    Tree(TendermintSpec, TendermintSpec.leaf_spec, 4, Upwards, Full, 7,
         [n \in DOMAIN Full |-> <<Byte(2)>>], <<>>)

(* Leaves of an IAVL tree that claim a size of 2. *)
OtherLeaf ==
    Tree(IavlSpec, [IavlSpec.leaf_spec EXCEPT !.prefix = IavlHeader(0, 2, 1)],
         4, Upwards, Full, 7,
         5 :> IavlHeader(1, 2, 1) @@ 6 :> IavlHeader(1, 2, 1)
             @@ 7 :> IavlHeader(2, 4, 1), <<Byte(HashSize)>>)

Others == {DeepTree, OtherHeader, OtherLeaf}

GoTrees == AllTrees \union OrderedTrees \union Others \union {MerkGapTree}

(* Honest proofs under a least depth, and with a hash function Go does not *)
(* have.                                                                   *)
Altered ==
    UNION {{[r EXCEPT !.spec.min_depth = 1],
            [r EXCEPT !.spec = None, !.proof.leaf.hash = "KECCAK256"],
            [r EXCEPT !.spec = None, !.proof.leaf.prehash_value = "KECCAK256"]} :
               r \in Honest}

GoRequests ==
    Assembled \union (Honest \union Misused \union Altered
        \union UNION {{HonestRequest(t, n) : n \in t.leaves} :
                         t \in OrderedTrees \union Others})

GoAbsences ==
    AllAbsences \union UNION {AbsencesOf(t) : t \in Others \union {MerkGapTree}}

MCTreeSet  == GoTrees
MCRequests == GoRequests
MCAbsences == GoAbsences

(* The children in another order, and placeholders among them. *)
MCMerkTrees    == {MerkGapTree}
MCMerkAbsences == AbsencesOf(MerkGapTree)
MCNoRequests   == {}
=============================================================================
