----------------------------- MODULE LeafFraming -----------------------------
(***************************************************************************)
(* The string that apply_leaf of rust/src/ops.rs hashes, and the keys and  *)
(* values it can be the string of.  The length in front of each half is    *)
(* what tells where the key ends; it is a varint, or is cast to a fixed    *)
(* number of bytes.                                                        *)
(***************************************************************************)
EXTENDS Ops

CONSTANTS
    Leaves,      \* leaf operations
    Data(_)      \* the keys and values a leaf operation is applied to

ASSUME LeavesAssumption == \A l \in Leaves :
    /\ {l.hash, l.prehash_key, l.prehash_value} \subseteq HashOp
    /\ l.length \in LengthOp
    /\ IsSequence(l.prefix)

ASSUME DataAssumption == \A l \in Leaves : \A x \in Data(l) : IsSequence(x)

VARIABLES leaf, key, value, image

vars == <<leaf, key, value, image>>

(* What the leaf operation puts in front of data of length n. *)
HeaderLen(length, n) ==
    CASE length = "VAR_PROTO" -> VarintSize(n)
      [] length \in {"FIXED32_BIG", "FIXED32_LITTLE"} -> 4
      [] length \in {"FIXED64_BIG", "FIXED64_LITTLE"} -> 8
      [] OTHER -> 0

Init ==
    /\ leaf \in Leaves
    /\ key \in Data(leaf)
    /\ value \in Data(leaf)
    /\ image = <<>>

Apply ==
    /\ image = <<>>
    /\ LeafApplies(leaf, key, value)
    /\ image' = LeafImage(leaf, key, value)
    /\ UNCHANGED <<leaf, key, value>>

Next == Apply

Spec == Init /\ [][Next]_vars

-----------------------------------------------------------------------------
(* Properties.                                                             *)

(* The key and the value as they are in the image.                         *)
KeyPart   == DoHash(leaf.prehash_key, key)
ValuePart == DoHash(leaf.prehash_value, value)

(* All ways to cut the image, after the leaf's prefix, into two parts with *)
(* room for a header before each.                                          *)
Cuts ==
    LET from == Len(leaf.prefix) + 1
        size == Len(image) - Len(leaf.prefix)
        head(n) == HeaderLen(leaf.length, n)
        rest(n) == size - head(n) - n
        sizes(n) == {rest(n) - h : h \in 0..MaxVarintBytes} \intersect (1..size)
    IN  UNION {{<<SubSeq(image, from + head(n), from + head(n) + n - 1),
                  SubSeq(image, Len(image) - m + 1, Len(image))>> :
                    m \in {k \in sizes(n) : head(k) + k = rest(n)}} : n \in 1..size}

(* What prehash makes of some data; of a hash function, the size is told.  *)
MadeBy(prehash, part) == prehash # "NO_HASH" => Len(part) = DigestLen(prehash)

(* The image is the one of a key part k and a value part v.                *)
Reads(k, v) ==
    /\ MadeBy(leaf.prehash_key, k) /\ MadeBy(leaf.prehash_value, v)
    /\ LengthOK(leaf.length, k) /\ LengthOK(leaf.length, v)
    /\ image = leaf.prefix \o DoLength(leaf.length, k) \o DoLength(leaf.length, v)

(* The operation tells where the key ends, no length is cut off, and the   *)
(* string has fewer bytes than a varint can count.                         *)
TellsEnd ==
    /\ leaf.length = "NO_PREFIX" => leaf.prehash_key # "NO_HASH"
    /\ LengthsFit(leaf, key, value)
    /\ leaf.length = "VAR_PROTO" => Fits(leaf.length, Len(image))

(* An image can be cut in one way only, into the key and the value it was  *)
(* made from, or their hashes: no other two parts make the same string,    *)
(* although a key may hold anything, a header included, and although the   *)
(* lengths of the other parts may have been cut off.                       *)
FramingUnambiguous ==
    (image # <<>> /\ TellsEnd) =>
        \A cut \in Cuts : Reads(cut[1], cut[2]) => cut = <<KeyPart, ValuePart>>
=============================================================================
