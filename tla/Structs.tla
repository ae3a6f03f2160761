------------------------------ MODULE Structs -------------------------------
(***************************************************************************)
(* The messages: the structs of cosmos.ics23.v1.rs.  An Option is None or  *)
(* what is in it; a oneof is an Option of <<alternative, message>>.        *)
(***************************************************************************)
EXTENDS Schema

CONSTANTS
    Int32,          \* the numbers of type i32, a scaled range
    ByteStrings     \* what a vector of u8 can hold

ASSUME Int32Assumption == Int32 \subseteq Int

Option(set) == {None} \cup set

LeafOpStruct ==
    [hash : Int32, prehash_key : Int32, prehash_value : Int32, length : Int32,
     prefix : ByteStrings]

InnerOpStruct == [hash : Int32, prefix : ByteStrings, suffix : ByteStrings]

InnerSpecStruct ==
    [child_order : Seq(Int32), child_size : Int32, min_prefix_length : Int32,
     max_prefix_length : Int32, empty_child : ByteStrings, hash : Int32]

ProofSpecStruct ==
    [leaf_spec : Option(LeafOpStruct), inner_spec : Option(InnerSpecStruct),
     max_depth : Int32, min_depth : Int32, prehash_key_before_comparison : BOOLEAN]

ExistenceProofStruct ==
    [key : ByteStrings, value : ByteStrings, leaf : Option(LeafOpStruct),
     path : Seq(InnerOpStruct)]

NonExistenceProofStruct ==
    [key : ByteStrings, left : Option(ExistenceProofStruct),
     right : Option(ExistenceProofStruct)]

BatchEntryStruct ==
    [proof : Option(({"exist"} \X ExistenceProofStruct)
                    \cup ({"nonexist"} \X NonExistenceProofStruct))]

BatchProofStruct == [entries : Seq(BatchEntryStruct)]

CompressedExistenceProofStruct ==
    [key : ByteStrings, value : ByteStrings, leaf : Option(LeafOpStruct),
     path : Seq(Int32)]

CompressedNonExistenceProofStruct ==
    [key : ByteStrings, left : Option(CompressedExistenceProofStruct),
     right : Option(CompressedExistenceProofStruct)]

CompressedBatchEntryStruct ==
    [proof : Option(({"exist"} \X CompressedExistenceProofStruct)
                    \cup ({"nonexist"} \X CompressedNonExistenceProofStruct))]

CompressedBatchProofStruct ==
    [entries : Seq(CompressedBatchEntryStruct), lookup_inners : Seq(InnerOpStruct)]

CommitmentProofStruct ==
    [proof : Option(({"exist"} \X ExistenceProofStruct)
                    \cup ({"nonexist"} \X NonExistenceProofStruct)
                    \cup ({"batch"} \X BatchProofStruct)
                    \cup ({"compressed"} \X CompressedBatchProofStruct))]

Struct ==
    [ExistenceProof              |-> ExistenceProofStruct,
     NonExistenceProof           |-> NonExistenceProofStruct,
     LeafOp                      |-> LeafOpStruct,
     InnerOp                     |-> InnerOpStruct,
     ProofSpec                   |-> ProofSpecStruct,
     InnerSpec                   |-> InnerSpecStruct,
     CommitmentProof             |-> CommitmentProofStruct,
     BatchProof                  |-> BatchProofStruct,
     BatchEntry                  |-> BatchEntryStruct,
     CompressedBatchProof        |-> CompressedBatchProofStruct,
     CompressedBatchEntry        |-> CompressedBatchEntryStruct,
     CompressedExistenceProof    |-> CompressedExistenceProofStruct,
     CompressedNonExistenceProof |-> CompressedNonExistenceProofStruct]
=============================================================================
