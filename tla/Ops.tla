-------------------------------- MODULE Ops --------------------------------
(***************************************************************************)
(* The byte-string operations of rust/src/ops.rs: what a leaf or an inner  *)
(* operation feeds to its hash function, and the hash itself.              *)
(*                                                                         *)
(* A byte string is a sequence.  A plain byte b is the 1-tuple <<b>>.  Of  *)
(* the bytes a hash function f returns for x, the first is <<f, x>> and    *)
(* stands for the identity of the digest; the others are the same filler   *)
(* in every digest.  Hash functions are therefore perfect: two digests are *)
(* equal only when the function and the input are, and a string of plain   *)
(* bytes is no digest.  That is the collision resistance the library       *)
(* assumes, and nothing is assumed of a part of a digest.                  *)
(*                                                                         *)
(* Lengths keep their meaning and are scaled by the constants: a model     *)
(* with HashSize = 2 has digests of two bytes where the code has 32.       *)
(***************************************************************************)
EXTENDS Integers, Sequences, FiniteSets, Functions

CONSTANTS
    HashLen,    \* [HashFunction -> 1..], the bytes each function returns
    HashSize,   \* what the literal 32 stands for, the size of a SHA-256 digest
    Radix,      \* number of values of a plain byte, 256 in the code
    MaxVarintBytes  \* 10 in the code: the bytes a varint of 64 bits can take

HashFunction == {"SHA256", "SHA512", "KECCAK256", "RIPEMD160", "SHA512_256",
                 "BLAKE2B_512", "BLAKE2S_256", "BLAKE3"}

HashOp == HashFunction \union {"NO_HASH", "BITCOIN"}

LengthOp == {"NO_PREFIX", "VAR_PROTO", "VAR_RLP", "FIXED32_BIG",
             "FIXED32_LITTLE", "FIXED64_BIG", "FIXED64_LITTLE",
             "REQUIRE_32_BYTES", "REQUIRE_64_BYTES"}

ASSUME HashLenAssumption == HashLen \in [HashFunction -> Nat \ {0}]
ASSUME HashSizeAssumption == HashSize \in Nat \ {0}
ASSUME MaxVarintBytesAssumption == MaxVarintBytes \in Nat \ {0}
ASSUME RadixAssumption == Radix \in Nat /\ Radix >= 4 /\ Radix % 2 = 0

Byte(b) == <<b>>

(* s is a finite sequence, of bytes or of anything else. *)
IsSequence(s) == s \in Seq(Range(s))

-----------------------------------------------------------------------------
(* The HostFunctionsProvider: the hash functions of the host. *)
Filler == <<>>

Digest(f, x) == [i \in 1..HashLen[f] |-> IF i = 1 THEN <<f, x>> ELSE Filler]

(* do_hash: NO_HASH returns its input, BITCOIN is ripemd160 of sha256. *)
DoHash(op, data) ==
    CASE op = "NO_HASH" -> data
      [] op = "BITCOIN" -> Digest("RIPEMD160", Digest("SHA256", data))
      [] op \in HashFunction -> Digest(op, data)

(* The function whose digest an operation returns, and its size. *)
OuterFunction(op) == IF op = "BITCOIN" THEN "RIPEMD160" ELSE op
DigestLen(op)     == HashLen[OuterFunction(op)]

-----------------------------------------------------------------------------
(* b to the n *)
Power(b, n) ==
    LET power[k \in Nat] == IF k = 0 THEN 1 ELSE b * power[k - 1]
    IN  power[n]

(* Base-128 varint, least significant group first; the upper half of the   *)
(* byte values marks the groups that another one follows.                  *)
Half == Radix \div 2

VarintSize(n) ==
    1 + Cardinality({k \in 1..(MaxVarintBytes - 1) : n >= Power(Half, k)})

EncodeVarint(n) ==
    LET group(i) == (n \div Power(Half, i - 1)) % Half
    IN  [i \in 1..VarintSize(n) |->
            Byte(IF i < VarintSize(n) THEN Half + group(i) ELSE group(i))]

(* Mutant: the length is cast to one byte less than there is room for. *)
LittleEndian_Short(n, w) == [i \in 1..w |->
    Byte(IF i < w THEN (n \div Power(Radix, i - 1)) % Radix ELSE 0)]

(* n in w bytes; a larger n loses its high bytes, as the casts "as u32"    *)
(* and "as u64" do.                                                        *)
LittleEndian(n, w) == [i \in 1..w |-> Byte((n \div Power(Radix, i - 1)) % Radix)]
BigEndian(n, w)    == [i \in 1..w |-> Byte((n \div Power(Radix, w - i)) % Radix)]

(* The cases in which do_length returns an error: a wrong length, and the  *)
(* operation it does not support.                                          *)
LengthOK(op, data) ==
    /\ op = "REQUIRE_32_BYTES" => Len(data) = HashSize
    /\ op = "REQUIRE_64_BYTES" => Len(data) = 2 * HashSize
    /\ op # "VAR_RLP"

(* do_length, where LengthOK. *)
DoLength(op, data) ==
    CASE op = "VAR_PROTO"      -> EncodeVarint(Len(data)) \o data
      [] op = "FIXED32_BIG"    -> BigEndian(Len(data), 4) \o data
      [] op = "FIXED32_LITTLE" -> LittleEndian(Len(data), 4) \o data
      [] op = "FIXED64_BIG"    -> BigEndian(Len(data), 8) \o data
      [] op = "FIXED64_LITTLE" -> LittleEndian(Len(data), 8) \o data
      [] OTHER                 -> data

(* prepare_leaf_data rejects empty data, and what do_length rejects. *)
LeafDataOK(prehash, length, data) ==
    data # <<>> /\ LengthOK(length, DoHash(prehash, data))

PrepareLeafData(prehash, length, data) == DoLength(length, DoHash(prehash, data))

-----------------------------------------------------------------------------
(* apply_leaf: the string a leaf operation hashes, when both halves are    *)
(* acceptable, and its hash.                                               *)
LeafApplies(leaf, key, value) ==
    /\ LeafDataOK(leaf.prehash_key, leaf.length, key)
    /\ LeafDataOK(leaf.prehash_value, leaf.length, value)

LeafImage(leaf, key, value) ==
    leaf.prefix \o PrepareLeafData(leaf.prehash_key, leaf.length, key)
                \o PrepareLeafData(leaf.prehash_value, leaf.length, value)

(* The operations that put the length of the data in front of it, and the  *)
(* lengths they have room for; only a cast to 32 bits cuts off a length    *)
(* that the code can meet.                                                 *)
Framed(length) == length \in {"VAR_PROTO", "FIXED32_BIG", "FIXED32_LITTLE",
                              "FIXED64_BIG", "FIXED64_LITTLE"}

Fits(length, n) ==
    /\ length = "VAR_PROTO" => n < Power(Half, MaxVarintBytes)
    /\ length \in {"FIXED32_BIG", "FIXED32_LITTLE"} => n < Power(Radix, 4)
    /\ length \in {"FIXED64_BIG", "FIXED64_LITTLE"} => n < Power(Radix, 8)

LengthsFit(leaf, key, value) ==
    /\ Fits(leaf.length, Len(DoHash(leaf.prehash_key, key)))
    /\ Fits(leaf.length, Len(DoHash(leaf.prehash_value, value)))

ApplyLeaf(leaf, key, value) == DoHash(leaf.hash, LeafImage(leaf, key, value))

(* apply_inner, for a child that is not empty. *)
InnerImage(inner, child) == inner.prefix \o child \o inner.suffix

ApplyInner(inner, child) == DoHash(inner.hash, InnerImage(inner, child))
=============================================================================
