------------------------------ MODULE Batches ------------------------------
(***************************************************************************)
(* Batches of proofs and their compressed form, in which the operations    *)
(* that paths have in common are stored once: the data that                *)
(* rust/src/compress.rs and rust/src/api.rs work on.                       *)
(*                                                                         *)
(* A CommitmentProof is one entry, a batch of entries, a compressed batch, *)
(* or nothing:                                                             *)
(*   [kind, sides]              kind "exist", "nonexist" or "none"         *)
(*   [kind, entries]            kind "batch"                               *)
(*   [kind, entries, lookup]    kind "compressed"                          *)
(* The sides of an entry are the existence proofs in it, in the order they *)
(* are gone through: one, or the left and the right one, which may be      *)
(* None.  In a compressed entry their paths are indexes, from 0, into      *)
(* lookup.                                                                 *)
(***************************************************************************)
EXTENDS ProofSpecs

Exist(proof)          == [kind |-> "exist", sides |-> <<proof>>]
Nonexist(left, right) == [kind |-> "nonexist", sides |-> <<left, right>>]
NoProof               == [kind |-> "none", sides |-> <<>>]

Batch(entries)              == [kind |-> "batch", entries |-> entries]
Compressed(entries, lookup) ==
    [kind |-> "compressed", entries |-> entries, lookup |-> lookup]

WithSides(entry, sides) == [kind |-> entry.kind, sides |-> sides]

WithPath(proof, path) ==
    [key |-> proof.key, value |-> proof.value, leaf |-> proof.leaf, path |-> path]

-----------------------------------------------------------------------------
(* encode_to_vec of an InnerOp: each field that does not have its default  *)
(* value, as its tag and its content, bytes behind their length.           *)
HashNumber(op) ==
    CHOOSE n \in 0..9 :
        op = <<"NO_HASH", "SHA256", "SHA512", "KECCAK256", "RIPEMD160",
               "BITCOIN", "SHA512_256", "BLAKE2B_512", "BLAKE2S_256",
               "BLAKE3">>[n + 1]

Field(number, content) ==
    IF content = <<>> THEN <<>>
    ELSE <<Byte(8 * number + 2)>> \o EncodeVarint(Len(content)) \o content

Encode(op) ==
    (IF op.hash = "NO_HASH" THEN <<>> ELSE <<Byte(8), Byte(HashNumber(op.hash))>>)
        \o Field(2, op.prefix) \o Field(3, op.suffix)

-----------------------------------------------------------------------------
(* decompress_exist: one index that is out of range, or negative, empties  *)
(* the whole path.                                                         *)
InRange(path, lookup) == \A i \in 1..Len(path) : path[i] \in 0..(Len(lookup) - 1)

(* As a mutant: indexes count from 1. *)
DecompressExist_FromOne(exist, lookup) ==
    WithPath(exist,
        IF InRange(exist.path, lookup)
        THEN [i \in 1..Len(exist.path) |->
                 lookup[IF exist.path[i] = 0 THEN 1 ELSE exist.path[i]]]
        ELSE <<>>)

DecompressExist(exist, lookup) ==
    WithPath(exist, IF InRange(exist.path, lookup)
                    THEN [i \in 1..Len(exist.path) |-> lookup[exist.path[i] + 1]]
                    ELSE <<>>)

DecompressEntry(entry, lookup) ==
    WithSides(entry,
        [i \in 1..Len(entry.sides) |->
            IF entry.sides[i] = None THEN None
            ELSE DecompressExist(entry.sides[i], lookup)])

(* decompress leaves what is not compressed as it is. *)
DecompressProof(proof) ==
    IF proof.kind = "compressed"
    THEN Batch([i \in 1..Len(proof.entries) |->
                   DecompressEntry(proof.entries[i], proof.lookup)])
    ELSE proof
=============================================================================
