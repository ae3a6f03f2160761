--------------------------- MODULE MCLeafFraming ---------------------------
(***************************************************************************)
(* Every length operation, with and without hashes of the key and the      *)
(* value, on short ones, on some that hold the header of another string,   *)
(* and on some at the limit of four bytes of four values.                  *)
(***************************************************************************)
EXTENDS LeafFraming

MCHashSize == 2
MCHashLen  == [f \in HashFunction |-> 2]
MCRadix    == 4
MCMaxVarintBytes == 10

LeafOf(length, prehash_key, prehash_value) ==
    [hash |-> "SHA256", prehash_key |-> prehash_key, prehash_value |-> prehash_value,
     length |-> length, prefix |-> <<Byte(0)>>]

(* Without hashes; with a hash of the value, as in IAVL and Tendermint; or *)
(* of both, as in sparse Merkle trees.                                     *)
MCLeaves ==
    {LeafOf(length, "NO_HASH", "NO_HASH") : length \in LengthOp}
        \union {LeafOf(length, "NO_HASH", "SHA256") :
                    length \in {"VAR_PROTO", "REQUIRE_32_BYTES"}}
        \union {LeafOf(length, "SHA256", "SHA256") : length \in {"NO_PREFIX", "VAR_PROTO"}}

Short == UNION {[1..n -> {Byte(0), Byte(1)}] : n \in 1..2}

(* Of the sizes that REQUIRE_32_BYTES and REQUIRE_64_BYTES ask for, too.   *)
Sized == Short \union [1..4 -> {Byte(0), Byte(1)}]

Repeated(n) == [i \in 1..n |-> Byte(0)]

(* Strings that hold the header and the data of another. *)
Nested(length) == {a \o DoLength(length, b) : a, b \in Short}

(* A few lengths around each size of a varint, and around the limit. *)
Long(length) ==
    {Repeated(n) : n \in {3, 4, 7, 8, 15, 16, 17, 63, 64, 255}}
        \union {<<Byte(1)>> \o DoLength(length, Repeated(n)) : n \in {63, 64, 252, 255}}

MCData(l) ==
    IF Framed(l.length) THEN Short \union Nested(l.length) \union Long(l.length)
    ELSE Sized
=============================================================================
