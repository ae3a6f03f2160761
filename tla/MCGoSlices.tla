----------------------------- MODULE MCGoSlices -----------------------------
(***************************************************************************)
(* Three goroutines, three proofs: two with the same LeafOp of a           *)
(* ProofSpec, and one of a left child, decoded from the wire, whose prefix *)
(* has room for one of the two appends or for both.                        *)
(***************************************************************************)
EXTENDS GoSlices

CONSTANTS g1, g2, g3, shared, leaf, inner, wide

MCGoroutines == {g1, g2, g3}
MCOpIds == {shared, leaf, inner, wide}
MCBytes == 0..15
MCSizeClass == 4

MCOp ==
    [o \in MCOpIds |->
        CASE o = shared -> [prefix |-> <<1>>, suffix |-> <<>>, origin |-> "literal"]
          [] o = leaf   -> [prefix |-> <<1>>, suffix |-> <<>>, origin |-> "decoded"]
          [] o = inner  -> [prefix |-> <<2>>, suffix |-> <<4, 5>>, origin |-> "decoded"]
          [] o = wide   -> [prefix |-> <<2, 6>>, suffix |-> <<>>, origin |-> "decoded"]]

(* A hash of two bytes; all bytes of the preimage and its length count. *)
MCHash(image) ==
    LET sum[i \in 0..Len(image)] ==
            IF i = 0 THEN 0 ELSE (3 * sum[i - 1] + image[i]) % 16
    IN  <<sum[Len(image)], Len(image)>>

(* A proof with the hashes that belong to it. *)
ProofOf(ops, leafData) ==
    LET Preimages(n, child) ==
            IF n = 1 THEN MCOp[ops[1]].prefix \o leafData[1] \o leafData[2]
            ELSE MCOp[ops[n]].prefix \o child \o MCOp[ops[n]].suffix
        hashes[n \in 1..Len(ops)] ==
            MCHash(Preimages(n, IF n = 1 THEN <<>> ELSE hashes[n - 1]))
    IN  [ops |-> ops, leafData |-> leafData, hashes |-> [n \in 1..Len(ops) |-> hashes[n]]]

MCProofs == {
    ProofOf(<<shared>>, <<<<7>>, <<8>>>>),
    ProofOf(<<shared>>, <<<<7>>, <<9>>>>),
    ProofOf(<<leaf, inner, wide>>, <<<<7>>, <<10>>>>)}
=============================================================================
