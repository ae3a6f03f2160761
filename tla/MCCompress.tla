----------------------------- MODULE MCCompress -----------------------------
(***************************************************************************)
(* Model checking Compress: batches of up to two entries whose paths share *)
(* some of their operations, and compressed batches with good and with bad *)
(* indexes.                                                                *)
(***************************************************************************)
EXTENDS Compress, MCSizes, TLC

(* Four operations that differ in one field; the fields of the second, run *)
(* together, read like those of the first.                                 *)
Op(hash, prefix, suffix) == [hash |-> hash, prefix |-> prefix, suffix |-> suffix]

MCInnerOps ==
    {Op("SHA256", <<Byte(1)>>, <<Byte(2)>>),
     Op("SHA256", <<Byte(1), Byte(2)>>, <<>>),
     Op("SHA256", <<>>, <<Byte(1), Byte(2)>>),
     Op("NO_HASH", <<Byte(1)>>, <<Byte(2)>>)}

Existence(ops) ==
    [key |-> <<Byte(1)>>, value |-> <<Byte(2)>>, leaf |-> None, path |-> ops]

Paths(S, n) == UNION {[1..k -> S] : k \in 0..n}

LongPaths  == {Existence(p) : p \in Paths(MCInnerOps, 2)}
ShortPaths == {None} \union {Existence(p) : p \in Paths(MCInnerOps, 1)}

Entries ==
    {NoProof} \union {Exist(p) : p \in LongPaths}
        \union {Nonexist(l, r) : l \in ShortPaths, r \in ShortPaths}

(* A compressed batch from elsewhere: its indexes need not be in range.    *)
Indexed ==
    {Compressed(<<Exist(Existence(p)), Nonexist(None, Existence(q))>>, table) :
        p \in Paths(-1..2, 2), q \in Paths({0, 1}, 1),
        table \in Paths(MCInnerOps, 1)}

AllBatches == {Batch(e) : e \in Paths(Entries, 2)}

MCProofs ==
    AllBatches \union
        {Compressed(<<>>, <<>>), Exist(Existence(<<>>)), NoProof,
         Nonexist(None, Existence(<<>>))}

MCReceived == Indexed \union {Batch(<<NoProof>>), Exist(Existence(<<>>))}
=============================================================================
