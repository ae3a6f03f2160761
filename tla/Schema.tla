------------------------------- MODULE Schema -------------------------------
(***************************************************************************)
(* The messages as cosmos.ics23.v1.serde.rs writes them to JSON and reads  *)
(* them from it: for every message its fields, in the order in which they  *)
(* are written, with the two names a reader knows each by.  The generated  *)
(* code says the same of every field, case by case; here the fields are    *)
(* data, and JsonReader and JsonCodec say once what is done with one.      *)
(*                                                                         *)
(* A message is a record of its fields.  A field of an enum type holds the *)
(* number, as the Rust struct does.  The alternatives of a oneof share the *)
(* slot "proof", whose value is None or <<name of the alternative, message>>. *)
(***************************************************************************)
EXTENDS Integers, Sequences, FiniteSets, Functions

CONSTANT None       \* an optional message that is absent


Field(camel, snake, kind, of) ==
    [camel |-> camel, snake |-> snake, kind |-> kind, of |-> of, slot |-> snake]

Bytes(name)       == Field(name, name, "bytes", "u8")
Message(name, of) == Field(name, name, "message", of)
List(name, of)    == Field(name, name, "list", of)

Alternative(name, of) ==
    [camel |-> name, snake |-> name, kind |-> "message", of |-> of,
     slot |-> "proof"]

-----------------------------------------------------------------------------
ExistenceProofFields ==
    <<Bytes("key"), Bytes("value"), Message("leaf", "LeafOp"),
      List("path", "InnerOp")>>

NonExistenceProofFields ==
    <<Bytes("key"), Message("left", "ExistenceProof"),
      Message("right", "ExistenceProof")>>

LeafOpFields ==
    <<Field("hash", "hash", "enum", "HashOp"),
      Field("prehashKey", "prehash_key", "enum", "HashOp"),
      Field("prehashValue", "prehash_value", "enum", "HashOp"),
      Field("length", "length", "enum", "LengthOp"),
      Bytes("prefix")>>

InnerOpFields ==
    <<Field("hash", "hash", "enum", "HashOp"), Bytes("prefix"), Bytes("suffix")>>

ProofSpecFields ==
    <<Field("leafSpec", "leaf_spec", "message", "LeafOp"),
      Field("innerSpec", "inner_spec", "message", "InnerSpec"),
      Field("maxDepth", "max_depth", "int32", "i32"),
      Field("minDepth", "min_depth", "int32", "i32"),
      Field("prehashKeyBeforeComparison", "prehash_key_before_comparison",
            "bool", "bool")>>

InnerSpecFields ==
    <<Field("childOrder", "child_order", "ints", "i32"),
      Field("childSize", "child_size", "int32", "i32"),
      Field("minPrefixLength", "min_prefix_length", "int32", "i32"),
      Field("maxPrefixLength", "max_prefix_length", "int32", "i32"),
      Field("emptyChild", "empty_child", "bytes", "u8"),
      Field("hash", "hash", "enum", "HashOp")>>

CommitmentProofFields ==
    <<Alternative("exist", "ExistenceProof"),
      Alternative("nonexist", "NonExistenceProof"),
      Alternative("batch", "BatchProof"),
      Alternative("compressed", "CompressedBatchProof")>>

BatchProofFields == <<List("entries", "BatchEntry")>>

BatchEntryFields ==
    <<Alternative("exist", "ExistenceProof"),
      Alternative("nonexist", "NonExistenceProof")>>

CompressedBatchProofFields ==
    <<List("entries", "CompressedBatchEntry"),
      Field("lookupInners", "lookup_inners", "list", "InnerOp")>>

CompressedBatchEntryFields ==
    <<Alternative("exist", "CompressedExistenceProof"),
      Alternative("nonexist", "CompressedNonExistenceProof")>>

CompressedExistenceProofFields ==
    <<Bytes("key"), Bytes("value"), Message("leaf", "LeafOp"),
      Field("path", "path", "ints", "i32")>>

CompressedNonExistenceProofFields ==
    <<Bytes("key"), Message("left", "CompressedExistenceProof"),
      Message("right", "CompressedExistenceProof")>>

Fields ==
    [ExistenceProof              |-> ExistenceProofFields,
     NonExistenceProof           |-> NonExistenceProofFields,
     LeafOp                      |-> LeafOpFields,
     InnerOp                     |-> InnerOpFields,
     ProofSpec                   |-> ProofSpecFields,
     InnerSpec                   |-> InnerSpecFields,
     CommitmentProof             |-> CommitmentProofFields,
     BatchProof                  |-> BatchProofFields,
     BatchEntry                  |-> BatchEntryFields,
     CompressedBatchProof        |-> CompressedBatchProofFields,
     CompressedBatchEntry        |-> CompressedBatchEntryFields,
     CompressedExistenceProof    |-> CompressedExistenceProofFields,
     CompressedNonExistenceProof |-> CompressedNonExistenceProofFields]

MessageType == DOMAIN Fields

Slots(type) == {Fields[type][i].slot : i \in DOMAIN Fields[type]}

(* The names of the enum values, from 0. *)
HashOpNames ==
    <<"NO_HASH", "SHA256", "SHA512", "KECCAK256", "RIPEMD160", "BITCOIN",
      "SHA512_256", "BLAKE2B_512", "BLAKE2S_256", "BLAKE3">>

LengthOpNames ==
    <<"NO_PREFIX", "VAR_PROTO", "VAR_RLP", "FIXED32_BIG", "FIXED32_LITTLE",
      "FIXED64_BIG", "FIXED64_LITTLE", "REQUIRE_32_BYTES", "REQUIRE_64_BYTES">>

EnumNames == [HashOp |-> HashOpNames, LengthOp |-> LengthOpNames]

EnumNumbers(enum) == 0..(Len(EnumNames[enum]) - 1)

-----------------------------------------------------------------------------
(* What a field of a new message holds, and a message that has nothing     *)
(* else: the Default of the generated structs.                             *)
Default(kind) ==
    CASE kind \in {"bytes", "ints", "list"} -> <<>>
      [] kind \in {"int32", "enum"}         -> 0
      [] kind = "bool"                      -> FALSE
      [] kind = "message"                   -> None

DefaultOf(type, slot) ==
    LET f == CHOOSE i \in DOMAIN Fields[type] : Fields[type][i].slot = slot
    IN  Default(Fields[type][f].kind)

DefaultMessage(type) == [s \in Slots(type) |-> DefaultOf(type, s)]

(* What the slot of a field holds when the field has value v. *)
SlotValue(f, v) == IF f.slot = "proof" THEN <<f.camel, v>> ELSE v

(* No type contains itself, so what is said of the messages of a type can  *)
(* be said with what was said of the types nested in it.                   *)
NestedTypes(type) ==
    {f.of : f \in {g \in Range(Fields[type]) : g.kind \in {"message", "list"}}}
=============================================================================
