----------------------------- MODULE IavlPrefix -----------------------------
(***************************************************************************)
(* The node header of an IAVL tree, as rust/src/api.rs reads it: three     *)
(* zigzag varints (height, size, version) in front of the node's content.  *)
(***************************************************************************)
EXTENDS Ops

(* The number a byte stands for.  What a digest byte stands for is unknown;*)
(* it is taken to have its high bit set, so that it never ends a varint.   *)
ByteValue(b) == IF Len(b) = 1 THEN b[1] ELSE Radix - 1

Continues(b) == ByteValue(b) >= Half

(* The length of the varint at the front of s, if there is one: its last   *)
(* byte is the first without the continuation bit.                         *)
VarintEnds(s) ==
    {k \in 1..Len(s) : /\ k <= MaxVarintBytes
                       /\ ~Continues(s[k])
                       /\ \A i \in 1..(k - 1) : Continues(s[i])}

HasVarint(s) == VarintEnds(s) # {}

VarintLen(s) == CHOOSE k \in VarintEnds(s) : TRUE

AfterVarint(s) == SubSeq(s, VarintLen(s) + 1, Len(s))

VarintValue(s) ==
    LET value[k \in 0..Len(s)] ==
            IF k = 0 THEN 0
            ELSE value[k - 1] + (ByteValue(s[k]) % Half) * Power(Half, k - 1)
    IN  value[VarintLen(s)]

(* read_varint: undo the zigzag encoding, odd values are negative. *)
ReadVarint(s) ==
    LET ux == VarintValue(s)
    IN  IF ux % 2 = 0 THEN ux \div 2 ELSE -(ux \div 2) - 1

(* What a writer of an IAVL node puts in a header. *)
EncodeZigzag(n) == EncodeVarint(2 * n)

IavlHeader(height, size, version) ==
    EncodeZigzag(height) \o EncodeZigzag(size) \o EncodeZigzag(version)

(* ensure_iavl_prefix, with the number of bytes its callers then allow     *)
(* after the header.                                                       *)
EnsureIavlPrefix(prefix, min_height, remaining) ==
    LET at_size    == AfterVarint(prefix)
        at_version == AfterVarint(at_size)
    IN  /\ HasVarint(prefix)     /\ ReadVarint(prefix) >= min_height
        /\ HasVarint(at_size)    /\ ReadVarint(at_size) >= 0
        /\ HasVarint(at_version) /\ ReadVarint(at_version) >= 0
        /\ Len(AfterVarint(at_version)) \in remaining
=============================================================================
