----------------------------- MODULE JsonProofs -----------------------------
(***************************************************************************)
(* Proof that what is written as JSON is read back, and that a document is *)
(* read as what it means, for messages and documents of any size.          *)
(***************************************************************************)
EXTENDS JsonCodec, OpsProofs

-----------------------------------------------------------------------------
(* The tables of Schema.                                                   *)

(* How deep the messages of a type are nested.                             *)
Height ==
    [LeafOp |-> 0, InnerOp |-> 0, InnerSpec |-> 0,
     ProofSpec |-> 1, ExistenceProof |-> 1, CompressedExistenceProof |-> 1,
     NonExistenceProof |-> 2, CompressedNonExistenceProof |-> 2,
     BatchEntry |-> 3, CompressedBatchEntry |-> 3,
     BatchProof |-> 4, CompressedBatchProof |-> 4, CommitmentProof |-> 5]

Kind == {"bytes", "ints", "list", "int32", "enum", "bool", "message"}

IsField(type, f) ==
    /\ f.kind \in Kind
    /\ f.kind \in {"message", "list"} =>
           f.of \in MessageType /\ Height[f.of] < Height[type]
    /\ f.kind = "enum" => f.of \in {"HashOp", "LengthOp"}
    /\ f.slot = "proof" => f.kind = "message"

(* Two fields of a message have different names, and a slot each unless    *)
(* they are alternatives.                                                  *)
Apart(f, g) ==
    /\ {f.camel, f.snake} \intersect {g.camel, g.snake} = {}
    /\ f.slot = g.slot => f.slot = "proof"

IsTable(type, fields) ==
    /\ Len(fields) \in Nat /\ DOMAIN fields = 1..Len(fields)
    /\ \A i \in 1..Len(fields) :
           /\ IsField(type, fields[i])
           /\ \A j \in 1..Len(fields) : i # j => Apart(fields[i], fields[j])

LEMMA Heights ==
    /\ MessageType = {"ExistenceProof", "NonExistenceProof", "LeafOp", "InnerOp",
                      "ProofSpec", "InnerSpec", "CommitmentProof", "BatchProof",
                      "BatchEntry", "CompressedBatchProof", "CompressedBatchEntry",
                      "CompressedExistenceProof", "CompressedNonExistenceProof"}
    /\ Height["ExistenceProof"] = 1 /\ Height["NonExistenceProof"] = 2
    /\ Height["LeafOp"] = 0 /\ Height["InnerOp"] = 0
    /\ Height["ProofSpec"] = 1 /\ Height["InnerSpec"] = 0
    /\ Height["CommitmentProof"] = 5 /\ Height["BatchProof"] = 4
    /\ Height["BatchEntry"] = 3 /\ Height["CompressedBatchProof"] = 4
    /\ Height["CompressedBatchEntry"] = 3 /\ Height["CompressedExistenceProof"] = 1
    /\ Height["CompressedNonExistenceProof"] = 2
BY DEF MessageType, Fields, Height

LEMMA Tables ==
    ASSUME NEW type \in MessageType
    PROVE  IsTable(type, Fields[type])
<1>1. IsTable("ExistenceProof", ExistenceProofFields)
  BY Heights DEF IsTable, IsField, Apart, Kind, ExistenceProofFields,
                 Field, Bytes, Message, List, Alternative
<1>2. IsTable("NonExistenceProof", NonExistenceProofFields)
  BY Heights DEF IsTable, IsField, Apart, Kind, NonExistenceProofFields,
                 Field, Bytes, Message, List, Alternative
<1>3. IsTable("LeafOp", LeafOpFields)
  BY Heights DEF IsTable, IsField, Apart, Kind, LeafOpFields,
                 Field, Bytes, Message, List, Alternative
<1>4. IsTable("InnerOp", InnerOpFields)
  BY Heights DEF IsTable, IsField, Apart, Kind, InnerOpFields,
                 Field, Bytes, Message, List, Alternative
<1>5. IsTable("ProofSpec", ProofSpecFields)
  BY Heights DEF IsTable, IsField, Apart, Kind, ProofSpecFields,
                 Field, Bytes, Message, List, Alternative
<1>6. IsTable("InnerSpec", InnerSpecFields)
  BY Heights DEF IsTable, IsField, Apart, Kind, InnerSpecFields,
                 Field, Bytes, Message, List, Alternative
<1>7. IsTable("CommitmentProof", CommitmentProofFields)
  BY Heights DEF IsTable, IsField, Apart, Kind, CommitmentProofFields,
                 Field, Bytes, Message, List, Alternative
<1>8. IsTable("BatchProof", BatchProofFields)
  BY Heights DEF IsTable, IsField, Apart, Kind, BatchProofFields,
                 Field, Bytes, Message, List, Alternative
<1>9. IsTable("BatchEntry", BatchEntryFields)
  BY Heights DEF IsTable, IsField, Apart, Kind, BatchEntryFields,
                 Field, Bytes, Message, List, Alternative
<1>10. IsTable("CompressedBatchProof", CompressedBatchProofFields)
  BY Heights DEF IsTable, IsField, Apart, Kind, CompressedBatchProofFields,
                 Field, Bytes, Message, List, Alternative
<1>11. IsTable("CompressedBatchEntry", CompressedBatchEntryFields)
  BY Heights DEF IsTable, IsField, Apart, Kind, CompressedBatchEntryFields,
                 Field, Bytes, Message, List, Alternative
<1>12. IsTable("CompressedExistenceProof", CompressedExistenceProofFields)
  BY Heights DEF IsTable, IsField, Apart, Kind, CompressedExistenceProofFields,
                 Field, Bytes, Message, List, Alternative
<1>13. IsTable("CompressedNonExistenceProof", CompressedNonExistenceProofFields)
  BY Heights DEF IsTable, IsField, Apart, Kind, CompressedNonExistenceProofFields,
                 Field, Bytes, Message, List, Alternative
<1> QED
  BY <1>1, <1>2, <1>3, <1>4, <1>5, <1>6, <1>7, <1>8, <1>9, <1>10, <1>11,
     <1>12, <1>13, Heights DEF Fields

-----------------------------------------------------------------------------
(* The structs have the fields of the tables.                              *)

FieldSet(f) ==
    CASE f.kind = "bytes"             -> ByteStrings
      [] f.kind \in {"int32", "enum"} -> Int32
      [] f.kind = "bool"              -> BOOLEAN
      [] f.kind = "ints"              -> Seq(Int32)
      [] f.kind = "list"              -> Seq(Struct[f.of])
      [] f.kind = "message"           -> Option(Struct[f.of])

(* The alternative that a oneof holds, if it holds one.                    *)
Holds(f, m) == f.slot = "proof" /\ m.proof \in {f.camel} \X Struct[f.of]

IsStruct(type, fields, m) ==
    /\ m = [s \in {fields[i].slot : i \in 1..Len(fields)} |-> m[s]]
    /\ \A i \in 1..Len(fields) :
           IF fields[i].slot # "proof" THEN m[fields[i].slot] \in FieldSet(fields[i])
           ELSE m.proof = None \/ \E j \in 1..Len(fields) : Holds(fields[j], m)

LEMMA Structs ==
    ASSUME NEW type \in MessageType, NEW m \in Struct[type]
    PROVE  IsStruct(type, Fields[type], m)
<1>1. m \in ExistenceProofStruct => IsStruct("ExistenceProof", ExistenceProofFields, m)
  BY DEF IsStruct, FieldSet, Holds, Option, Struct, ExistenceProofStruct, ExistenceProofFields,
         Field, Bytes, Message, List, Alternative
<1>2. m \in NonExistenceProofStruct => IsStruct("NonExistenceProof", NonExistenceProofFields, m)
  BY DEF IsStruct, FieldSet, Holds, Option, Struct, NonExistenceProofStruct, NonExistenceProofFields,
         Field, Bytes, Message, List, Alternative
<1>3. m \in LeafOpStruct => IsStruct("LeafOp", LeafOpFields, m)
  BY DEF IsStruct, FieldSet, Holds, Option, Struct, LeafOpStruct, LeafOpFields,
         Field, Bytes, Message, List, Alternative
<1>4. m \in InnerOpStruct => IsStruct("InnerOp", InnerOpFields, m)
  BY DEF IsStruct, FieldSet, Holds, Option, Struct, InnerOpStruct, InnerOpFields,
         Field, Bytes, Message, List, Alternative
<1>5. m \in ProofSpecStruct => IsStruct("ProofSpec", ProofSpecFields, m)
  BY DEF IsStruct, FieldSet, Holds, Option, Struct, ProofSpecStruct, ProofSpecFields,
         Field, Bytes, Message, List, Alternative
<1>6. m \in InnerSpecStruct => IsStruct("InnerSpec", InnerSpecFields, m)
  BY DEF IsStruct, FieldSet, Holds, Option, Struct, InnerSpecStruct, InnerSpecFields,
         Field, Bytes, Message, List, Alternative
<1>7. m \in CommitmentProofStruct => IsStruct("CommitmentProof", CommitmentProofFields, m)
  BY DEF IsStruct, FieldSet, Holds, Option, Struct, CommitmentProofStruct, CommitmentProofFields,
         Field, Bytes, Message, List, Alternative
<1>8. m \in BatchProofStruct => IsStruct("BatchProof", BatchProofFields, m)
  BY DEF IsStruct, FieldSet, Holds, Option, Struct, BatchProofStruct, BatchProofFields,
         Field, Bytes, Message, List, Alternative
<1>9. m \in BatchEntryStruct => IsStruct("BatchEntry", BatchEntryFields, m)
  BY DEF IsStruct, FieldSet, Holds, Option, Struct, BatchEntryStruct, BatchEntryFields,
         Field, Bytes, Message, List, Alternative
<1>10. m \in CompressedBatchProofStruct => IsStruct("CompressedBatchProof", CompressedBatchProofFields, m)
  BY DEF IsStruct, FieldSet, Holds, Option, Struct, CompressedBatchProofStruct, CompressedBatchProofFields,
         Field, Bytes, Message, List, Alternative
<1>11. m \in CompressedBatchEntryStruct => IsStruct("CompressedBatchEntry", CompressedBatchEntryFields, m)
  BY DEF IsStruct, FieldSet, Holds, Option, Struct, CompressedBatchEntryStruct, CompressedBatchEntryFields,
         Field, Bytes, Message, List, Alternative
<1>12. m \in CompressedExistenceProofStruct => IsStruct("CompressedExistenceProof", CompressedExistenceProofFields, m)
  BY DEF IsStruct, FieldSet, Holds, Option, Struct, CompressedExistenceProofStruct, CompressedExistenceProofFields,
         Field, Bytes, Message, List, Alternative
<1>13. m \in CompressedNonExistenceProofStruct => IsStruct("CompressedNonExistenceProof", CompressedNonExistenceProofFields, m)
  BY DEF IsStruct, FieldSet, Holds, Option, Struct, CompressedNonExistenceProofStruct, CompressedNonExistenceProofFields,
         Field, Bytes, Message, List, Alternative
<1> QED
  BY <1>1, <1>2, <1>3, <1>4, <1>5, <1>6, <1>7, <1>8, <1>9, <1>10, <1>11,
     <1>12, <1>13, Heights DEF Fields, Struct

(* What follows from the tables.                                           *)
LEMMA FieldFacts ==
    ASSUME NEW type \in MessageType, NEW f \in Range(Fields[type])
    PROVE  /\ IsField(type, f)
           /\ \A g \in Range(Fields[type]) : f # g => Apart(f, g)
           /\ f.slot \in Slots(type)
BY Tables DEF IsTable, Range, Slots

LEMMA NameTold ==
    ASSUME NEW type \in MessageType, NEW key,
           NEW f \in FieldsNamed(type, key), NEW g \in FieldsNamed(type, key)
    PROVE  f = g
BY FieldFacts DEF FieldsNamed, Apart

LEMMA SlotHasField ==
    ASSUME NEW type \in MessageType, NEW s \in Slots(type)
    PROVE  \E f \in Range(Fields[type]) : f.slot = s
BY DEF Slots, Range

LEMMA SlotDefault ==
    ASSUME NEW type \in MessageType, NEW f \in Range(Fields[type])
    PROVE  DefaultOf(type, f.slot) = Default(f.kind)
<1> DEFINE F == Fields[type]
           at == CHOOSE i \in DOMAIN F : F[i].slot = f.slot
<1>1. at \in DOMAIN F /\ F[at].slot = f.slot
  BY DEF Range
<1>2. F[at] \in Range(F)
  BY <1>1 DEF Range
<1>3. F[at].kind = f.kind
  BY <1>1, <1>2, FieldFacts DEF Apart, IsField
<1> QED
  BY <1>3 DEF DefaultOf

LEMMA NestedLower ==
    ASSUME NEW type \in MessageType, NEW u \in NestedTypes(type)
    PROVE  u \in MessageType /\ Height[u] < Height[type]
BY FieldFacts DEF NestedTypes, IsField

LEMMA NestedField ==
    ASSUME NEW type \in MessageType, NEW f \in Range(Fields[type]),
           f.kind \in {"message", "list"}
    PROVE  f.of \in NestedTypes(type)
BY DEF NestedTypes

LEMMA EnumTold ==
    ASSUME NEW enum \in {"HashOp", "LengthOp"}, NEW m \in EnumNumbers(enum)
    PROVE  /\ m \in Int /\ EnumNames[enum][m + 1] \in Text
           /\ {n \in EnumNumbers(enum) : EnumNames[enum][n + 1] = EnumNames[enum][m + 1]}
                  = {m}
<1>1. Len(HashOpNames) = 10 /\ Len(LengthOpNames) = 9
  BY DEF HashOpNames, LengthOpNames
<1>2. EnumNames["HashOp"] = HashOpNames /\ EnumNames["LengthOp"] = LengthOpNames
      /\ DOMAIN EnumNames = {"HashOp", "LengthOp"}
  BY DEF EnumNames
<1>3. m \in Int /\ m + 1 \in 1..Len(EnumNames[enum])
  BY <1>1, <1>2 DEF EnumNumbers
<1>4. EnumNames[enum][m + 1] \in Text
  <2>1. DOMAIN EnumNames[enum] = 1..Len(EnumNames[enum])
    BY <1>2 DEF HashOpNames, LengthOpNames
  <2>2. EnumNames[enum][m + 1] \in Range(EnumNames[enum])
    BY <1>3, <2>1 DEF Range
  <2> QED
    BY <1>2, <2>2, TextAssumption
<1>5. \A i, j \in 1..10 : HashOpNames[i] = HashOpNames[j] => i = j
  BY DEF HashOpNames
<1>6. \A i, j \in 1..9 : LengthOpNames[i] = LengthOpNames[j] => i = j
  BY DEF LengthOpNames
<1>7. \A n \in EnumNumbers(enum) :
          EnumNames[enum][n + 1] = EnumNames[enum][m + 1] => n = m
  <2>1. CASE enum = "HashOp"
    <3>1. EnumNumbers("HashOp") = 0..9
      <4>1. Len(EnumNames["HashOp"]) - 1 = 9
        BY <1>1, <1>2
      <4> QED
        BY <4>1 DEF EnumNumbers
    <3>2. \A n \in 0..9 : n + 1 \in 1..10
      OBVIOUS
    <3>3. \A n, k \in 0..9 : HashOpNames[n + 1] = HashOpNames[k + 1] => n = k
      BY <1>5, <3>2
    <3> QED
      BY <1>2, <2>1, <3>1, <3>3
  <2>2. CASE enum = "LengthOp"
    <3>1. EnumNumbers("LengthOp") = 0..8
      <4>1. Len(EnumNames["LengthOp"]) - 1 = 8
        BY <1>1, <1>2
      <4> QED
        BY <4>1 DEF EnumNumbers
    <3>2. \A n \in 0..8 : n + 1 \in 1..9
      OBVIOUS
    <3>3. \A n, k \in 0..8 : LengthOpNames[n + 1] = LengthOpNames[k + 1] => n = k
      BY <1>6, <3>2
    <3> QED
      BY <1>2, <2>2, <3>1, <3>3
  <2> QED
    BY <2>1, <2>2
<1> QED
  BY <1>3, <1>4, <1>7

-----------------------------------------------------------------------------
(* The recursive definitions: what they say of a type comes back to what   *)
(* they say of lower ones, so there is a function that solves them.        *)

LEMMA MeaningsEquation ==
    \A type \in MessageType : Meanings[type] =
        [json \in Json |->
            ObjectMeanings(type, json, [u \in NestedTypes(type) |-> Meanings[u]])]
<1> DEFINE E(f, t) == [json \in Json |->
                          ObjectMeanings(t, json, [u \in NestedTypes(t) |-> f[u]])]
           Solves(f, n) == \A t \in MessageType : Height[t] < n => f[t] = E(f, t)
           X == {n \in Nat : \E f : Solves(f, n)}
<1> HIDE DEF E
<1>1. 0 \in X
  BY Heights
<1>2. ASSUME NEW n \in Nat, n \in X PROVE n + 1 \in X
  <2>1. PICK f : Solves(f, n)
    BY <1>2
  <2> DEFINE g == [t \in MessageType |-> E(f, t)]
  <2>2. ASSUME NEW t \in MessageType, Height[t] < n + 1 PROVE g[t] = E(g, t)
    <3>1. \A u \in NestedTypes(t) : g[u] = f[u]
      BY <2>1, <2>2, Heights, NestedLower
    <3>2. [u \in NestedTypes(t) |-> g[u]] = [u \in NestedTypes(t) |-> f[u]]
      <4> HIDE DEF g
      <4> QED
        BY <3>1
    <3>3. E(g, t) = E(f, t)
      <4> HIDE DEF g
      <4> QED
        BY <3>2 DEF E
    <3> QED
      BY <3>3
  <2> HIDE DEF g
  <2>3. Solves(g, n + 1)
    BY <2>2
  <2> QED
    BY <2>3
<1>3. \A n \in Nat : n \in X
  <2> HIDE DEF X
  <2> QED
    BY <1>1, <1>2, SetInduction
<1>4. PICK f : Solves(f, 6)
  BY <1>3
<1> DEFINE R(h) == [t \in MessageType |-> E(h, t)]
           p == CHOOSE h : h = R(h)
           r == R(f)
<1>5. \A t \in MessageType : f[t] = E(f, t)
  BY <1>4, Heights
<1>6. r = R(r)
  <2>1. \A t \in MessageType : r[t] = f[t]
    BY <1>5
  <2>2. ASSUME NEW t \in MessageType PROVE E(r, t) = E(f, t)
    <3>1. \A u \in NestedTypes(t) : r[u] = f[u]
      BY <2>1, NestedLower
    <3> HIDE DEF r
    <3>2. [u \in NestedTypes(t) |-> r[u]] = [u \in NestedTypes(t) |-> f[u]]
      BY <3>1
    <3> QED
      BY <3>2 DEF E
  <2> QED
    BY <2>2
<1>7. p = R(p)
  <2> HIDE DEF r, R
  <2> QED
    BY <1>6
<1>8. Meanings = p
  BY DEF Meanings, E
<1> HIDE DEF p
<1> QED
  BY <1>7, <1>8 DEF E

LEMMA WritingsEquation ==
    \A type \in MessageType : Writings[type] =
        [m \in Struct[type] |->
            ObjectsFor(type, m, [u \in NestedTypes(type) |-> Writings[u]])]
<1> DEFINE E(f, t) == [m \in Struct[t] |->
                          ObjectsFor(t, m, [u \in NestedTypes(t) |-> f[u]])]
           Solves(f, n) == \A t \in MessageType : Height[t] < n => f[t] = E(f, t)
           X == {n \in Nat : \E f : Solves(f, n)}
<1> HIDE DEF E
<1>1. 0 \in X
  BY Heights
<1>2. ASSUME NEW n \in Nat, n \in X PROVE n + 1 \in X
  <2>1. PICK f : Solves(f, n)
    BY <1>2
  <2> DEFINE g == [t \in MessageType |-> E(f, t)]
  <2>2. ASSUME NEW t \in MessageType, Height[t] < n + 1 PROVE g[t] = E(g, t)
    <3>1. \A u \in NestedTypes(t) : g[u] = f[u]
      BY <2>1, <2>2, Heights, NestedLower
    <3>2. [u \in NestedTypes(t) |-> g[u]] = [u \in NestedTypes(t) |-> f[u]]
      <4> HIDE DEF g
      <4> QED
        BY <3>1
    <3>3. E(g, t) = E(f, t)
      <4> HIDE DEF g
      <4> QED
        BY <3>2 DEF E
    <3> QED
      BY <3>3
  <2> HIDE DEF g
  <2>3. Solves(g, n + 1)
    BY <2>2
  <2> QED
    BY <2>3
<1>3. \A n \in Nat : n \in X
  <2> HIDE DEF X
  <2> QED
    BY <1>1, <1>2, SetInduction
<1>4. PICK f : Solves(f, 6)
  BY <1>3
<1> DEFINE R(h) == [t \in MessageType |-> E(h, t)]
           p == CHOOSE h : h = R(h)
           r == R(f)
<1>5. \A t \in MessageType : f[t] = E(f, t)
  BY <1>4, Heights
<1>6. r = R(r)
  <2>1. \A t \in MessageType : r[t] = f[t]
    BY <1>5
  <2>2. ASSUME NEW t \in MessageType PROVE E(r, t) = E(f, t)
    <3>1. \A u \in NestedTypes(t) : r[u] = f[u]
      BY <2>1, NestedLower
    <3> HIDE DEF r
    <3>2. [u \in NestedTypes(t) |-> r[u]] = [u \in NestedTypes(t) |-> f[u]]
      BY <3>1
    <3> QED
      BY <3>2 DEF E
  <2> QED
    BY <2>2
<1>7. p = R(p)
  <2> HIDE DEF r, R
  <2> QED
    BY <1>6
<1>8. Writings = p
  BY DEF Writings, E
<1> HIDE DEF p
<1> QED
  BY <1>7, <1>8 DEF E

(* What follows from the first value and the step of a function on numbers *)
(* is proved as the equations above are.                                   *)
LEMMA JsonValuesEquation ==
    /\ JsonValues[0] = Scalars
    /\ \A n \in 1..MaxNesting : JsonValues[n] =
           Scalars \cup ({"arr"} \X Seq(JsonValues[n - 1]))
                   \cup ({"obj"} \X Seq(Text \X JsonValues[n - 1]))
<1> DEFINE first == Scalars
           next(k, x) == Scalars \cup ({"arr"} \X Seq(x)) \cup ({"obj"} \X Seq(Text \X x))
           IsSoFar(f, m) == /\ f[0] = first
                            /\ \A k \in 1..m : f[k] = next(k, f[k - 1])
           X == {m \in Nat : \E f : IsSoFar(f, m)}
<1> HIDE DEF first, next
<1>1. 0 \in X
  <2>1. IsSoFar([k \in 0..0 |-> first], 0)
    OBVIOUS
  <2> QED
    BY <2>1
<1>2. ASSUME NEW m \in Nat, m \in X PROVE m + 1 \in X
  <2>1. PICK f : IsSoFar(f, m)
    BY <1>2
  <2> DEFINE g == [k \in 0..(m + 1) |-> IF k = m + 1 THEN next(m + 1, f[m]) ELSE f[k]]
  <2>2. /\ g[m + 1] = next(m + 1, f[m])
        /\ \A k \in 0..m : g[k] = f[k]
    OBVIOUS
  <2> HIDE DEF g
  <2>3. ASSUME NEW k \in 1..(m + 1) PROVE g[k] = next(k, g[k - 1])
    <3>1. CASE k = m + 1
      <4>1. k - 1 = m /\ m \in 0..m
        BY <3>1
      <4>2. g[m] = f[m]
        BY <2>2, <4>1
      <4> QED
        BY <2>2, <3>1, <4>1, <4>2
    <3>2. CASE k # m + 1
      <4>1. k \in 1..m /\ k \in 0..m /\ k - 1 \in 0..m
        BY <3>2
      <4> QED
        BY <2>1, <2>2, <4>1
    <3> QED
      BY <3>1, <3>2
  <2>4. g[0] = first
    <3>1. f[0] = first /\ 0 \in 0..m
      BY <2>1
    <3> QED
      BY <2>2, <3>1
  <2> HIDE DEF IsSoFar
  <2>5. IsSoFar(g, m + 1)
    BY <2>3, <2>4 DEF IsSoFar
  <2> QED
    BY <2>5
<1>3. \A m \in Nat : m \in X
  <2> HIDE DEF X
  <2> QED
    BY <1>1, <1>2, SetInduction
<1>4. PICK f : IsSoFar(f, MaxNesting)
  BY <1>3, MaxNestingAssumption
<1> DEFINE E(h) == [k \in 0..MaxNesting |-> IF k = 0 THEN first ELSE next(k, h[k - 1])]
           q == [k \in 0..MaxNesting |-> f[k]]
           p == CHOOSE h : h = E(h)
<1>5. q = E(q)
  <2> SUFFICES ASSUME NEW k \in 0..MaxNesting
               PROVE  f[k] = IF k = 0 THEN first ELSE next(k, q[k - 1])
    OBVIOUS
  <2>1. CASE k = 0
    BY <1>4, <2>1
  <2>2. CASE k # 0
    <3>1. k \in 1..MaxNesting /\ k - 1 \in 0..MaxNesting
      BY <2>2, MaxNestingAssumption
    <3> QED
      BY <1>4, <2>2, <3>1
  <2> QED
    BY <2>1, <2>2
<1>6. p = E(p)
  <2> HIDE DEF q, E
  <2> QED
    BY <1>5
<1>7. JsonValues = p
  BY DEF JsonValues, first, next
<1> HIDE DEF p
<1>8. 0 \in 0..MaxNesting /\ \A n \in 1..MaxNesting : n # 0 /\ n \in 0..MaxNesting
  BY MaxNestingAssumption
<1> QED
  BY <1>6, <1>7, <1>8 DEF first, next

(* The fields among the first k that are written. *)
IsWritten(type, m, w, k) ==
    /\ w[0] = <<>>
    /\ \A i \in 1..k :
           w[i] = IF Omitted(Fields[type][i], m) THEN w[i - 1]
                  ELSE Append(w[i - 1], Fields[type][i])

LEMMA WrittenEquation ==
    ASSUME NEW type \in MessageType, NEW m
    PROVE  \E w : /\ IsWritten(type, m, w, Len(Fields[type]))
                  /\ Written(type, m) = w[Len(Fields[type])]
<1> DEFINE len == Len(Fields[type])
<1>0. len \in Nat
  BY Tables DEF IsTable
<1> HIDE DEF len
<1> DEFINE first == <<>>
           next(k, x) == IF Omitted(Fields[type][k], m) THEN x
                         ELSE Append(x, Fields[type][k])
           IsSoFar(f, n) == /\ f[0] = first
                            /\ \A k \in 1..n : f[k] = next(k, f[k - 1])
           X == {n \in Nat : \E f : IsSoFar(f, n)}
<1> HIDE DEF first, next
<1>1. 0 \in X
  <2>1. IsSoFar([k \in 0..0 |-> first], 0)
    OBVIOUS
  <2> QED
    BY <2>1
<1>2. ASSUME NEW n \in Nat, n \in X PROVE n + 1 \in X
  <2>1. PICK f : IsSoFar(f, n)
    BY <1>2
  <2> DEFINE g == [k \in 0..(n + 1) |-> IF k = n + 1 THEN next(n + 1, f[n]) ELSE f[k]]
  <2>2. /\ g[n + 1] = next(n + 1, f[n])
        /\ \A k \in 0..n : g[k] = f[k]
    OBVIOUS
  <2> HIDE DEF g
  <2>3. ASSUME NEW k \in 1..(n + 1) PROVE g[k] = next(k, g[k - 1])
    <3>1. CASE k = n + 1
      <4>1. k - 1 = n /\ n \in 0..n
        BY <3>1
      <4>2. g[n] = f[n]
        BY <2>2, <4>1
      <4> QED
        BY <2>2, <3>1, <4>1, <4>2
    <3>2. CASE k # n + 1
      <4>1. k \in 1..n /\ k \in 0..n /\ k - 1 \in 0..n
        BY <3>2
      <4> QED
        BY <2>1, <2>2, <4>1
    <3> QED
      BY <3>1, <3>2
  <2>4. g[0] = first
    <3>1. f[0] = first /\ 0 \in 0..n
      BY <2>1
    <3> QED
      BY <2>2, <3>1
  <2> HIDE DEF IsSoFar
  <2>5. IsSoFar(g, n + 1)
    BY <2>3, <2>4 DEF IsSoFar
  <2> QED
    BY <2>5
<1>3. \A n \in Nat : n \in X
  <2> HIDE DEF X
  <2> QED
    BY <1>1, <1>2, SetInduction
<1>4. PICK f : IsSoFar(f, len)
  BY <1>3, <1>0
<1> DEFINE E(h) == [k \in 0..len |-> IF k = 0 THEN first ELSE next(k, h[k - 1])]
           q == [k \in 0..len |-> f[k]]
           p == CHOOSE h : h = E(h)
<1>5. q = E(q)
  <2> SUFFICES ASSUME NEW k \in 0..len
               PROVE  f[k] = IF k = 0 THEN first ELSE next(k, q[k - 1])
    OBVIOUS
  <2>1. CASE k = 0
    BY <1>4, <2>1
  <2>2. CASE k # 0
    <3>1. k \in 1..len /\ k - 1 \in 0..len
      BY <2>2, <1>0
    <3> QED
      BY <1>4, <2>2, <3>1
  <2> QED
    BY <2>1, <2>2
<1>6. p = E(p)
  <2> HIDE DEF q, E
  <2> QED
    BY <1>5
<1>7. Written(type, m) = p[len]
  BY DEF Written, first, next, len
<1> HIDE DEF p
<1>8. len \in 0..len /\ 0 \in 0..len
  BY <1>0
<1>9. IsWritten(type, m, p, len)
  <2>1. p[0] = <<>>
    BY <1>6, <1>8 DEF first
  <2>2. \A k \in 1..len : k # 0 /\ k \in 0..len
    BY <1>0
  <2>3. \A k \in 1..len : p[k] = next(k, p[k - 1])
    BY <1>6, <2>2
  <2> QED
    BY <2>1, <2>3 DEF IsWritten, next
<1> QED
  BY <1>7, <1>9 DEF len

-----------------------------------------------------------------------------
(* What is in a JSON value is one.                                         *)

LEMMA JsonValuesStep ==
    \A n \in 1..MaxNesting : JsonValues[n - 1] \subseteq JsonValues[n]
<1> DEFINE Y == {n \in 0..MaxNesting :
                    n >= 1 => JsonValues[n - 1] \subseteq JsonValues[n]}
<1>0. MaxNesting \in Nat
  BY MaxNestingAssumption
<1>1. 0 \in Y
  BY <1>0
<1>2. ASSUME NEW n \in 0..(MaxNesting - 1), n \in Y PROVE n + 1 \in Y
  <2>1. n + 1 \in 1..MaxNesting /\ n + 1 \in 0..MaxNesting /\ (n + 1) - 1 = n
    BY <1>0
  <2>2. JsonValues[n + 1] = Scalars \cup ({"arr"} \X Seq(JsonValues[n]))
                                    \cup ({"obj"} \X Seq(Text \X JsonValues[n]))
    BY <2>1, JsonValuesEquation
  <2>3. CASE n = 0
    BY <2>1, <2>2, <2>3, JsonValuesEquation
  <2>4. CASE n # 0
    <3>1. n \in 1..MaxNesting
      BY <1>0, <1>2, <2>4
    <3>2. JsonValues[n] = Scalars \cup ({"arr"} \X Seq(JsonValues[n - 1]))
                                  \cup ({"obj"} \X Seq(Text \X JsonValues[n - 1]))
      BY <3>1, JsonValuesEquation
    <3>3. JsonValues[n - 1] \subseteq JsonValues[n]
      BY <1>2, <3>1
    <3> DEFINE a == JsonValues[n - 1]
               b == JsonValues[n]
               ma == Text \X a
               mb == Text \X b
    <3>4. ma \subseteq mb
      BY <3>3
    <3>5. Seq(a) \subseteq Seq(b) /\ Seq(ma) \subseteq Seq(mb)
      <4> HIDE DEF a, b, ma, mb
      <4> QED
        BY <3>3, <3>4, SeqMonotonic DEF a, b
    <3>6. JsonValues[n] \subseteq JsonValues[n + 1]
      BY <2>2, <3>2, <3>5
    <3> QED
      BY <2>1, <3>6
  <2> QED
    BY <2>3, <2>4
<1>3. \A n \in 0..MaxNesting : n \in Y
  <2> HIDE DEF Y
  <2> QED
    BY <1>0, <1>1, <1>2, BoundedInduction
<1> QED
  BY <1>3

LEMMA JsonValuesGrow ==
    ASSUME NEW n \in 0..MaxNesting, NEW k \in 0..n
    PROVE  JsonValues[k] \subseteq JsonValues[n]
<1> DEFINE X == {i \in 0..n : i >= k => JsonValues[k] \subseteq JsonValues[i]}
<1>1. MaxNesting \in Nat /\ n \in Nat /\ k \in Nat
  BY MaxNestingAssumption
<1>2. 0 \in X
  BY <1>1
<1>3. ASSUME NEW i \in 0..(n - 1), i \in X PROVE i + 1 \in X
  <2>1. i + 1 \in 1..MaxNesting /\ i + 1 \in 0..n /\ (i + 1) - 1 = i
    BY <1>1
  <2>2. JsonValues[i] \subseteq JsonValues[i + 1]
    BY <2>1, JsonValuesStep
  <2>3. i + 1 >= k => i >= k \/ i + 1 = k
    BY <1>1
  <2> QED
    BY <1>3, <2>1, <2>2, <2>3
<1>4. \A i \in 0..n : i \in X
  <2> HIDE DEF X
  <2> QED
    BY <1>1, <1>2, <1>3, BoundedInduction
<1>5. n \in 0..n /\ n >= k
  BY <1>1
<1> QED
  BY <1>4, <1>5

LEMMA JsonInside ==
    ASSUME NEW json \in Json
    PROVE  /\ json[1] = "arr" => json = <<"arr", json[2]>> /\ json[2] \in Seq(Json)
           /\ json[1] = "obj" => /\ json = <<"obj", json[2]>>
                                 /\ json[2] \in Seq(Text \X Json)
<1>1. CASE MaxNesting = 0
  BY <1>1, JsonValuesEquation DEF Json, Scalars
<1>2. CASE MaxNesting # 0
  <2> DEFINE a == JsonValues[MaxNesting - 1]
  <2>1. MaxNesting \in 1..MaxNesting /\ MaxNesting - 1 \in 0..MaxNesting
    BY <1>2, MaxNestingAssumption
  <2>2. json \in Scalars \cup ({"arr"} \X Seq(a)) \cup ({"obj"} \X Seq(Text \X a))
    BY <2>1, JsonValuesEquation DEF Json
  <2>3. a \subseteq Json
    BY <2>1, JsonValuesStep DEF Json
  <2>4. Seq(a) \subseteq Seq(Json) /\ Seq(Text \X a) \subseteq Seq(Text \X Json)
    <3>1. Text \X a \subseteq Text \X Json
      BY <2>3
    <3> HIDE DEF a
    <3> QED
      BY <2>3, <3>1, SeqMonotonic
  <2> DEFINE sa == Seq(a)
             so == Seq(Text \X a)
             ja == Seq(Json)
             jo == Seq(Text \X Json)
  <2>5. json \in Scalars \/ json \in {"arr"} \X sa \/ json \in {"obj"} \X so
    BY <2>2
  <2>6. sa \subseteq ja /\ so \subseteq jo
    BY <2>4
  <2> HIDE DEF a, sa, so, ja, jo
  <2>7. json \in Scalars => json[1] # "arr" /\ json[1] # "obj"
    BY DEF Scalars
  <2>8. json \in {"arr"} \X sa =>
            json[1] = "arr" /\ json = <<"arr", json[2]>> /\ json[2] \in ja
    BY <2>6
  <2>9. json \in {"obj"} \X so =>
            json[1] = "obj" /\ json = <<"obj", json[2]>> /\ json[2] \in jo
    BY <2>6
  <2>10. /\ json[1] = "arr" => json = <<"arr", json[2]>> /\ json[2] \in ja
         /\ json[1] = "obj" => json = <<"obj", json[2]>> /\ json[2] \in jo
    BY <2>5, <2>7, <2>8, <2>9
  <2> QED
    BY <2>10 DEF ja, jo
<1> QED
  BY <1>1, <1>2

-----------------------------------------------------------------------------
(* Values that are read one at a time.                                     *)

AtMostOne(set) == \A x, y \in set : x = y

LEMMA EachFacts ==
    ASSUME NEW sets
    PROVE  /\ AtMostOne(Each(sets))
           /\ Each(sets) # {} <=> \A i \in DOMAIN sets : sets[i] # {}
           /\ \A x \in Each(sets) : /\ x = [i \in DOMAIN sets |-> x[i]]
                                    /\ \A i \in DOMAIN sets : x[i] \in sets[i]
BY DEF Each, AtMostOne

LEMMA EachOfOne ==
    ASSUME NEW sets, \A i \in DOMAIN sets : AtMostOne(sets[i]),
           NEW x, x = [i \in DOMAIN sets |-> x[i]],
           \A i \in DOMAIN sets : x[i] \in sets[i]
    PROVE  Each(sets) = {x}
<1>1. \A i \in DOMAIN sets : sets[i] # {} /\ (CHOOSE y \in sets[i] : TRUE) = x[i]
  BY DEF AtMostOne
<1>2. [i \in DOMAIN sets |-> CHOOSE y \in sets[i] : TRUE] = x
  BY <1>1
<1> QED
  BY <1>1, <1>2 DEF Each

LEMMA MeaningOf ==
    ASSUME NEW type \in MessageType, NEW json \in Json
    PROVE  /\ Meanings[type][json] = ObjectMeanings(type, json, NestedMeanings(type))
           /\ AtMostOne(Meanings[type][json])
           /\ Meanings[type][json] # {} => json[1] = "obj"
<1>1. Meanings[type][json] = ObjectMeanings(type, json, NestedMeanings(type))
  BY MeaningsEquation DEF NestedMeanings
<1> QED
  BY <1>1 DEF ObjectMeanings, AtMostOne

LEMMA InnerMeaning ==
    ASSUME NEW type \in MessageType, NEW f \in Range(Fields[type]),
           f.kind \in {"message", "list"}
    PROVE  f.of \in MessageType /\ NestedMeanings(type)[f.of] = Meanings[f.of]
BY NestedField, NestedLower DEF NestedMeanings

LEMMA ScalarsAtMostOne ==
    ASSUME NEW type \in MessageType, NEW f \in Range(Fields[type]), NEW json,
           f.kind \notin {"message", "list"}
    PROVE  AtMostOne(ScalarsOf(f, json)) /\ (IsNull(json) => ScalarsOf(f, json) = {})
<1>1. IsField(type, f)
  BY FieldFacts
<1>2. ASSUME f.kind = "enum" PROVE AtMostOne(EnumOf(f.of, json))
  <2>1. f.of \in {"HashOp", "LengthOp"}
    BY <1>1, <1>2 DEF IsField
  <2> DEFINE S == {n \in EnumNumbers(f.of) : EnumNames[f.of][n + 1] = json[2][2]}
  <2>2. AtMostOne(S)
    BY <2>1, EnumTold DEF AtMostOne
  <2>3. AtMostOne({json[2]} \intersect EnumNumbers(f.of))
    BY DEF AtMostOne
  <2>4. AtMostOne({})
    BY DEF AtMostOne
  <2> HIDE DEF S
  <2> QED
    BY <2>2, <2>3, <2>4 DEF EnumOf, S
<1>3. AtMostOne(NumbersOf(json)) /\ AtMostOne(BytesOf(json)) /\ AtMostOne(IntsOf(json))
  BY EachFacts DEF NumbersOf, BytesOf, IntsOf, AtMostOne
<1>4. AtMostOne(ScalarsOf(f, json))
  <2>1. AtMostOne(IF json[1] = "bool" THEN {json[2]} ELSE {})
    BY DEF AtMostOne
  <2> QED
    BY <1>1, <1>2, <1>3, <2>1 DEF ScalarsOf, IsField, Kind
<1>5. IsNull(json) => ScalarsOf(f, json) = {}
  BY <1>1 DEF IsNull, ScalarsOf, NumbersOf, EnumOf, BytesOf, IntsOf, IsField, Kind
<1> QED
  BY <1>4, <1>5

(* The value of a member of an object. *)
Value(f, type, json) == ValuesOf(f, json, NestedMeanings(type))

LEMMA ValuesAtMostOne ==
    ASSUME NEW type \in MessageType, NEW f \in Range(Fields[type]), NEW json \in Json
    PROVE  AtMostOne(Value(f, type, json))
<1>1. CASE f.kind = "message"
  <2>1. AtMostOne({None})
    BY DEF AtMostOne
  <2>2. AtMostOne(NestedMeanings(type)[f.of][json])
    BY <1>1, InnerMeaning, MeaningOf
  <2> QED
    BY <1>1, <2>1, <2>2 DEF Value, ValuesOf
<1>2. CASE f.kind = "list"
  <2>1. AtMostOne({})
    BY DEF AtMostOne
  <2> QED
    BY <1>2, <2>1, EachFacts DEF Value, ValuesOf
<1>3. CASE f.kind \notin {"message", "list"}
  BY <1>3, ScalarsAtMostOne DEF Value, ValuesOf
<1> QED
  BY <1>1, <1>2, <1>3

-----------------------------------------------------------------------------
(* The members of an object, one at a time.                                *)

CleanTo(type, members, n) == Clean(type, members, n, NestedMeanings(type))
GivenTo(type, members, n) == Given(type, members, n, NestedMeanings(type))
Fills(type, members, i, s) == PutBy(type, members, i, s, NestedMeanings(type))

(* The i-th member has a value, which is none for a slot that is filled.   *)
MemberFits(type, member, filled) ==
    \E f \in FieldsNamed(type, member[1]) :
        Value(f, type, member[2]) # {} /\ f.slot \notin filled

LEMMA MemberType ==
    ASSUME NEW type, NEW members, IsObject(type, members),
           NEW i \in 1..Len(members)
    PROVE  /\ type \in MessageType
           /\ members[i] = <<members[i][1], members[i][2]>>
           /\ members[i][1] \in Text /\ members[i][2] \in Json
           /\ \A f \in FieldsNamed(type, members[i][1]) : f \in Range(Fields[type])
BY DEF IsObject, FieldsNamed

(* A member fills the slot of its field, with its value, unless it is null.*)
LEMMA FilledBy ==
    ASSUME NEW type, NEW members, IsObject(type, members),
           NEW i \in 1..Len(members), NEW f \in FieldsNamed(type, members[i][1]), NEW s
    PROVE  Fills(type, members, i, s) =
               IF s = f.slot /\ ~IsNull(members[i][2])
               THEN {SlotValue(f, v) : v \in Value(f, type, members[i][2])} ELSE {}
<1> DEFINE named == {g \in FieldsNamed(type, members[i][1]) :
                        g.slot = s /\ ~IsNull(members[i][2])}
<1>1. named = IF s = f.slot /\ ~IsNull(members[i][2]) THEN {f} ELSE {}
  BY MemberType, NameTold
<1>2. Fills(type, members, i, s) =
          UNION {{SlotValue(g, v) : v \in Value(g, type, members[i][2])} : g \in named}
  BY DEF Fills, PutBy, Value
<1> HIDE DEF named
<1> QED
  BY <1>1, <1>2

(* The slots that the first n members fill. *)
LEMMA FilledSlots ==
    ASSUME NEW type, NEW members, IsObject(type, members), NEW n \in 0..Len(members)
    PROVE  DOMAIN GivenTo(type, members, n) =
               {s \in Slots(type) : \E i \in 1..n : Fills(type, members, i, s) # {}}
BY DEF GivenTo, Given, Put, Fills

LEMMA SlotIsFree ==
    ASSUME NEW type, NEW members, IsObject(type, members), NEW n \in 0..Len(members),
           CleanTo(type, members, n), NEW f \in Range(Fields[type])
    PROVE  f.slot \notin DOMAIN GivenTo(type, members, n) <=>
               \A i \in 1..n : \A g \in FieldsNamed(type, members[i][1]) :
                   f.slot = g.slot => IsNull(members[i][2])
<1>1. type \in MessageType /\ f.slot \in Slots(type)
  BY FieldFacts DEF IsObject
<1>2. \A i \in 1..n : i \in 1..Len(members)
  BY DEF IsObject
<1>3. ASSUME NEW i \in 1..n, NEW g \in FieldsNamed(type, members[i][1])
      PROVE  Fills(type, members, i, f.slot) # {} <=>
                 f.slot = g.slot /\ ~IsNull(members[i][2])
  <2>1. Value(g, type, members[i][2]) # {}
    BY <1>1, <1>3, NameTold DEF CleanTo, Clean, Value
  <2>2. Fills(type, members, i, f.slot) =
            IF f.slot = g.slot /\ ~IsNull(members[i][2])
            THEN {SlotValue(g, v) : v \in Value(g, type, members[i][2])} ELSE {}
    BY <1>2, FilledBy
  <2>3. {SlotValue(g, v) : v \in Value(g, type, members[i][2])} # {}
    BY <2>1
  <2> QED
    BY <2>2, <2>3
<1>4. \A i \in 1..n : \E g \in FieldsNamed(type, members[i][1]) : TRUE
  BY DEF CleanTo, Clean
<1>5. f.slot \in DOMAIN GivenTo(type, members, n) <=>
          \E i \in 1..n : Fills(type, members, i, f.slot) # {}
  <2>1. DOMAIN GivenTo(type, members, n) =
            {s \in Slots(type) : \E i \in 1..n : Fills(type, members, i, s) # {}}
    BY FilledSlots
  <2> QED
    BY <1>1, <2>1
<1> QED
  BY <1>3, <1>4, <1>5

(* What the reader notices at a member: it fits into what was read before  *)
(* exactly if the members up to it are clean.                              *)
LEMMA CleanStep ==
    ASSUME NEW type, NEW members, IsObject(type, members), NEW n \in 0..Len(members),
           n < Len(members), CleanTo(type, members, n)
    PROVE  CleanTo(type, members, n + 1) <=>
               MemberFits(type, members[n + 1], DOMAIN GivenTo(type, members, n))
<1>1. Len(members) \in Nat /\ type \in MessageType
  BY DEF IsObject
<1>2. n + 1 \in 1..Len(members) /\ n + 1 \in 1..(n + 1) /\ 1..(n + 1) = (1..n) \cup {n + 1}
      /\ (\A i \in 1..n : i < n + 1 /\ i \in 1..(n + 1))
  BY <1>1
<1> DEFINE new == members[n + 1]
<1>3. ASSUME CleanTo(type, members, n + 1)
      PROVE  MemberFits(type, new, DOMAIN GivenTo(type, members, n))
  <2>1. PICK f \in FieldsNamed(type, new[1]) : Value(f, type, new[2]) # {}
    BY <1>2, <1>3 DEF CleanTo, Clean, Value
  <2>2. \A i \in 1..n : \A g \in FieldsNamed(type, members[i][1]) :
            f.slot = g.slot => IsNull(members[i][2])
    BY <1>2, <1>3 DEF CleanTo, Clean
  <2>3. f \in Range(Fields[type])
    BY DEF FieldsNamed
  <2>4. f.slot \notin DOMAIN GivenTo(type, members, n)
    BY <2>2, <2>3, SlotIsFree
  <2> QED
    BY <2>1, <2>4 DEF MemberFits
<1>4. ASSUME MemberFits(type, new, DOMAIN GivenTo(type, members, n))
      PROVE  CleanTo(type, members, n + 1)
  <2>1. PICK f \in FieldsNamed(type, new[1]) :
            /\ Value(f, type, new[2]) # {}
            /\ f.slot \notin DOMAIN GivenTo(type, members, n)
    BY <1>4 DEF MemberFits
  <2>2. f \in Range(Fields[type]) /\ FieldsNamed(type, new[1]) = {f}
    <3>1. f \in Range(Fields[type])
      BY DEF FieldsNamed
    <3>2. \A g \in FieldsNamed(type, new[1]) : g = f
      BY <1>1, NameTold
    <3> QED
      BY <3>1, <3>2
  <2>3. \A i \in 1..n : \A g \in FieldsNamed(type, members[i][1]) :
            f.slot = g.slot => IsNull(members[i][2])
    BY <2>1, <2>2, SlotIsFree
  <2>4. \A i \in 1..(n + 1) : \E g \in FieldsNamed(type, members[i][1]) :
            ValuesOf(g, members[i][2], NestedMeanings(type)) # {}
    BY <1>2, <2>1 DEF CleanTo, Clean, Value
  <2>5. ASSUME NEW i \in 1..(n + 1), NEW j \in 1..(n + 1),
               NEW g \in FieldsNamed(type, members[i][1]),
               NEW h \in FieldsNamed(type, members[j][1]), i < j, g.slot = h.slot
        PROVE  IsNull(members[i][2])
    <3>1. CASE j = n + 1
      <4>1. h = f /\ i \in 1..n
        BY <1>1, <2>2, <2>5, <3>1
      <4> QED
        BY <2>3, <2>5, <4>1
    <3>2. CASE j # n + 1
      <4>1. i \in 1..n /\ j \in 1..n
        BY <1>1, <2>5, <3>2
      <4> QED
        BY <2>5, <4>1 DEF CleanTo, Clean
    <3> QED
      BY <3>1, <3>2
  <2> QED
    BY <2>4, <2>5 DEF CleanTo, Clean
<1> QED
  BY <1>3, <1>4

(* What the reader does with it. *)
LEMMA GivenStep ==
    ASSUME NEW type, NEW members, IsObject(type, members), NEW n \in 0..Len(members),
           n < Len(members), CleanTo(type, members, n),
           NEW f \in FieldsNamed(type, members[n + 1][1]),
           f.slot \notin DOMAIN GivenTo(type, members, n)
    PROVE  /\ IsNull(members[n + 1][2]) =>
                  GivenTo(type, members, n + 1) = GivenTo(type, members, n)
           /\ ~IsNull(members[n + 1][2]) =>
                  \A v \in Value(f, type, members[n + 1][2]) :
                      GivenTo(type, members, n + 1) =
                          With(GivenTo(type, members, n), f.slot, SlotValue(f, v))
<1> DEFINE put(k, s) == UNION {Fills(type, members, i, s) : i \in 1..k}
           json == members[n + 1][2]
<1>1. Len(members) \in Nat /\ type \in MessageType
  BY DEF IsObject
<1>2. n + 1 \in 1..Len(members) /\ 1..(n + 1) = (1..n) \cup {n + 1}
  BY <1>1
<1>3. f \in Range(Fields[type]) /\ f.slot \in Slots(type) /\ json \in Json
  BY <1>1, <1>2, MemberType, FieldFacts
<1>4. \A k : GivenTo(type, members, k) =
          [s \in {t \in Slots(type) : put(k, t) # {}} |-> CHOOSE x \in put(k, s) : TRUE]
  BY DEF GivenTo, Given, Put, Fills
<1>5. \A s : put(n + 1, s) = put(n, s) \cup Fills(type, members, n + 1, s)
  BY <1>2
<1>6. \A s : Fills(type, members, n + 1, s) =
          IF s = f.slot /\ ~IsNull(json) THEN {SlotValue(f, v) : v \in Value(f, type, json)}
          ELSE {}
  BY <1>2, FilledBy
<1> HIDE DEF put, json
<1>7. put(n, f.slot) = {}
  <2>1. f.slot \notin {t \in Slots(type) : put(n, t) # {}}
    BY <1>4
  <2> QED
    BY <1>3, <2>1
<1> DEFINE one(set) == CHOOSE x \in set : TRUE
           given(k) == {t \in Slots(type) : put(k, t) # {}}
<1>0. \A k : GivenTo(type, members, k) = [s \in given(k) |-> one(put(k, s))]
  BY <1>4
<1>8. ASSUME IsNull(json)
      PROVE  GivenTo(type, members, n + 1) = GivenTo(type, members, n)
  <2>1. \A s : put(n + 1, s) = put(n, s)
    BY <1>5, <1>6, <1>8
  <2>2. given(n + 1) = given(n)
    BY <2>1
  <2> HIDE DEF one, given
  <2> QED
    BY <1>0, <2>1, <2>2
<1>9. ASSUME ~IsNull(json), NEW v \in Value(f, type, json)
      PROVE  GivenTo(type, members, n + 1) =
                 With(GivenTo(type, members, n), f.slot, SlotValue(f, v))
  <2>1. \A s : s # f.slot => put(n + 1, s) = put(n, s)
    BY <1>5, <1>6
  <2>2. Value(f, type, json) = {v}
    BY <1>1, <1>3, <1>9, ValuesAtMostOne DEF AtMostOne
  <2>3. put(n + 1, f.slot) = {SlotValue(f, v)}
    <3>1. put(n + 1, f.slot) = {SlotValue(f, u) : u \in Value(f, type, json)}
      BY <1>5, <1>6, <1>7, <1>9
    <3> QED
      BY <2>2, <3>1
  <2>4. one(put(n + 1, f.slot)) = SlotValue(f, v)
    BY <2>3
  <2>5. given(n + 1) = given(n) \cup {f.slot}
    BY <1>3, <2>1, <2>3
  <2>6. f.slot \notin given(n)
    BY <1>7
  <2> HIDE DEF one, given
  <2> QED
    BY <1>0, <2>1, <2>4, <2>5, <2>6 DEF With
<1> QED
  BY <1>8, <1>9 DEF json

LEMMA Appended ==
    ASSUME NEW s, IsSequence(s), NEW x
    PROVE  /\ IsSequence(Append(s, x))
           /\ Len(Append(s, x)) = Len(s) + 1
           /\ Append(s, x)[Len(s) + 1] = x
           /\ \A i \in 1..Len(s) : Append(s, x)[i] = s[i]
<1> DEFINE S == Range(s) \cup {x}
           t == Append(s, x)
<1>1. s \in Seq(Range(s))
  BY DEF IsSequence
<1>2. s \in Seq(S)
  <2>1. Range(s) \subseteq S
    OBVIOUS
  <2> HIDE DEF S
  <2> QED
    BY <1>1, <2>1, SeqMonotonic
<1>3. x \in S
  OBVIOUS
<1> HIDE DEF S
<1>4. /\ t \in Seq(S) /\ Len(t) = Len(s) + 1 /\ t[Len(s) + 1] = x
      /\ \A i \in 1..Len(s) : t[i] = s[i]
  BY <1>2, <1>3
<1> HIDE DEF t
<1>5. IsSequence(t)
  BY <1>4, SequenceIntro
<1> QED
  BY <1>4, <1>5 DEF t

-----------------------------------------------------------------------------
(* The calls under way.                                                    *)

(* What a call may return: one value, or none. *)
ItemMeanings(frame) == [i \in DOMAIN frame.items |-> Meanings[frame.type][frame.items[i]]]

Results(frame) ==
    IF frame.list THEN Each(ItemMeanings(frame))
    ELSE Meanings[frame.type][<<"obj", frame.items>>]

(* What the member or item that a call is at can be taken for. *)
ItemFits(frame) ==
    IF frame.list THEN Meanings[frame.type][Item(frame)] # {}
    ELSE MemberFits(frame.type, Item(frame), DOMAIN frame.got)

LEMMA ItemType ==
    ASSUME NEW frame, FrameOK(frame), ~AtEnd(frame)
    PROVE  /\ frame.done + 1 \in 1..Len(frame.items)
           /\ frame.done + 1 \in 0..Len(frame.items)
           /\ frame.done < Len(frame.items)
           /\ Len(frame.items) \in Nat /\ DOMAIN frame.items = 1..Len(frame.items)
           /\ frame.list => Item(frame) \in Json
           /\ ~frame.list => /\ Item(frame) = <<Item(frame)[1], Item(frame)[2]>>
                             /\ Item(frame)[2] \in Json
<1>1. frame.done \in 0..Len(frame.items) /\ frame.done # Len(frame.items)
  BY DEF FrameOK, AtEnd
<1>2. Len(frame.items) \in Nat /\ DOMAIN frame.items = 1..Len(frame.items)
  BY DEF FrameOK, ListOK, MapOK, IsObject, CleanTo, GivenTo, Obj, IsSequence
<1>3. /\ frame.done + 1 \in 1..Len(frame.items)
      /\ frame.done + 1 \in 0..Len(frame.items)
      /\ frame.done < Len(frame.items)
  BY <1>1, <1>2
<1>4. frame.list => Item(frame) \in Json
  BY <1>3 DEF FrameOK, ListOK, Item, IsSequence
<1>5. ASSUME ~frame.list
      PROVE  /\ Item(frame) = <<Item(frame)[1], Item(frame)[2]>>
             /\ Item(frame)[2] \in Json
  <2>1. IsObject(frame.type, frame.items)
    BY <1>5 DEF FrameOK, MapOK, CleanTo, GivenTo, Obj
  <2> QED
    BY <1>3, <2>1, MemberType DEF Item
<1> QED
  BY <1>2, <1>3, <1>4, <1>5

(* An item that fits nowhere leaves a call without a result.               *)
LEMMA NoFitNoResult ==
    ASSUME NEW frame, FrameOK(frame), ~AtEnd(frame), ~ItemFits(frame)
    PROVE  Results(frame) = {}
<1>1. CASE frame.list
  <2>1. frame.done + 1 \in DOMAIN frame.items
    BY ItemType
  <2>2. ItemMeanings(frame)[frame.done + 1] = {}
    BY <1>1, <2>1 DEF ItemFits, ItemMeanings, Item
  <2>3. DOMAIN ItemMeanings(frame) = DOMAIN frame.items
    BY DEF ItemMeanings
  <2>4. Each(ItemMeanings(frame)) = {}
    BY <2>1, <2>2, <2>3, EachFacts
  <2> QED
    BY <1>1, <2>4 DEF Results
<1>2. CASE ~frame.list
  <2> DEFINE type    == frame.type
             members == frame.items
             n       == frame.done
             json    == <<"obj", members>>
  <2>1. IsObject(type, members) /\ CleanTo(type, members, n) /\ json \in Json
        /\ frame.got = GivenTo(type, members, n) /\ n \in 0..Len(members)
        /\ type \in MessageType
    BY <1>2 DEF FrameOK, MapOK, CleanTo, GivenTo, Obj
  <2>2. n < Len(members) /\ Len(members) \in Nat
    BY ItemType
  <2>3. ~MemberFits(type, members[n + 1], DOMAIN GivenTo(type, members, n))
    BY <1>2, <2>1 DEF ItemFits, Item
  <2>4. ~CleanTo(type, members, n + 1)
    BY <2>1, <2>2, <2>3, CleanStep
  <2>5. 1..(n + 1) \subseteq 1..Len(members)
    BY <2>1, <2>2
  <2>6. ~CleanTo(type, members, Len(members))
    BY <2>4, <2>5 DEF CleanTo, Clean
  <2>7. ObjectMeanings(type, json, NestedMeanings(type)) = {}
    BY <2>6 DEF ObjectMeanings, CleanTo
  <2>8. Meanings[type][json] = {}
    BY <2>1, <2>7, MeaningOf
  <2> QED
    BY <1>2, <2>8 DEF Results
<1> QED
  BY <1>1, <1>2 DEF FrameOK

(* Another item is read: the call goes on with what the items so far mean. *)
Follows(frame, next) ==
    /\ FrameOK(next)
    /\ next.type = frame.type /\ next.list = frame.list /\ next.items = frame.items

LEMMA FrameChanged ==
    ASSUME NEW frame, FrameOK(frame), NEW d, NEW g
    PROVE  [frame EXCEPT !.done = d, !.got = g] =
               [type |-> frame.type, list |-> frame.list, items |-> frame.items,
                done |-> d, got |-> g]
<1>1. frame = [type |-> frame.type, list |-> frame.list, items |-> frame.items,
               done |-> frame.done, got |-> frame.got]
  BY DEF FrameOK
<1> DEFINE t == frame.type
           l == frame.list
           i == frame.items
           n == frame.done
           o == frame.got
<1> HIDE DEF t, l, i, n, o
<1>2. frame = [type |-> t, list |-> l, items |-> i, done |-> n, got |-> o]
  BY <1>1 DEF t, l, i, n, o
<1> DEFINE changed == [frame EXCEPT !.done = d, !.got = g]
           goal    == [type |-> t, list |-> l, items |-> i, done |-> d, got |-> g]
           names   == {"type", "list", "items", "done", "got"}
<1>3. changed = [x \in names |-> changed[x]] /\ goal = [x \in names |-> goal[x]]
  <2>1. DOMAIN frame = names
    BY <1>2
  <2> QED
    BY <2>1
<1>4. /\ changed.type = t /\ changed.list = l /\ changed.items = i
      /\ changed.done = d /\ changed.got = g
  BY <1>2
<1>5. goal.type = t /\ goal.list = l /\ goal.items = i /\ goal.done = d /\ goal.got = g
  OBVIOUS
<1>6. changed = goal
  <2> HIDE DEF changed, goal
  <2> QED
    BY <1>3, <1>4, <1>5
<1> QED
  BY <1>6 DEF t, l, i

LEMMA ListGoesOn ==
    ASSUME NEW frame, FrameOK(frame), ~AtEnd(frame), frame.list,
           NEW v \in Meanings[frame.type][Item(frame)]
    PROVE  Follows(frame, [frame EXCEPT !.done = @ + 1, !.got = Append(@, v)])
<1> DEFINE next == [frame EXCEPT !.done = @ + 1, !.got = Append(@, v)]
           n    == frame.done
<1>1. next = [type |-> frame.type, list |-> frame.list, items |-> frame.items,
              done |-> n + 1, got |-> Append(frame.got, v)]
  BY FrameChanged
<1> HIDE DEF next
<1>2. n + 1 \in 1..Len(frame.items) /\ n + 1 \in 0..Len(frame.items) /\ n \in Nat
      /\ Item(frame) \in Json
  <2>1. n + 1 \in 1..Len(frame.items) /\ n + 1 \in 0..Len(frame.items)
        /\ Item(frame) \in Json /\ Len(frame.items) \in Nat
    BY ItemType
  <2>2. n \in 0..Len(frame.items)
    BY DEF FrameOK
  <2> HIDE DEF n
  <2> QED
    BY <2>1, <2>2
<1>3. IsSequence(frame.got) /\ Len(frame.got) = n
      /\ (\A i \in 1..n : frame.got[i] \in Meanings[frame.type][frame.items[i]])
  BY DEF FrameOK, ListOK, IsSequence
<1>4. frame.items \in Seq(Json)
  BY DEF FrameOK, ListOK
<1> HIDE DEF n
<1>5. IsSequence(Append(frame.got, v)) /\ Len(Append(frame.got, v)) = n + 1
      /\ Append(frame.got, v)[n + 1] = v
      /\ \A i \in 1..n : Append(frame.got, v)[i] = frame.got[i]
  BY <1>3, Appended
<1>6. \A i \in 1..(n + 1) : i = n + 1 \/ i \in 1..n
  BY <1>2
<1>7. v \in Meanings[frame.type][frame.items[n + 1]]
  BY DEF Item, n
<1>8. \A i \in 1..(n + 1) : Append(frame.got, v)[i] \in Meanings[frame.type][frame.items[i]]
  BY <1>3, <1>5, <1>6, <1>7
<1>9. ListOK(next)
  BY <1>1, <1>4, <1>5, <1>8 DEF ListOK, IsSequence
<1>10. FrameOK(next)
  BY <1>1, <1>2, <1>9 DEF FrameOK
<1> QED
  BY <1>1, <1>10 DEF Follows, next

LEMMA MapGoesOn ==
    ASSUME NEW frame, FrameOK(frame), ~AtEnd(frame), ~frame.list,
           NEW f \in FieldsNamed(frame.type, Item(frame)[1]), Free(frame, f)
    PROVE  /\ (IsNull(Item(frame)[2]) /\ Value(f, frame.type, Item(frame)[2]) # {}) =>
                  Follows(frame, Skipped(frame))
           /\ ~IsNull(Item(frame)[2]) =>
                  \A v \in Value(f, frame.type, Item(frame)[2]) :
                      Follows(frame, Stored(frame, f, v))
<1> DEFINE type    == frame.type
           members == frame.items
           n       == frame.done
           json    == Item(frame)[2]
<1>1. IsObject(type, members) /\ CleanTo(type, members, n) /\ n \in 0..Len(members)
      /\ frame.got = GivenTo(type, members, n) /\ <<"obj", members>> \in Json
  BY DEF FrameOK, MapOK, CleanTo, GivenTo, Obj
<1>2. n < Len(members) /\ n + 1 \in 0..Len(members) /\ Item(frame) = members[n + 1]
  BY ItemType DEF Item
<1>3. f.slot \notin DOMAIN GivenTo(type, members, n)
  BY <1>1 DEF Free
<1>4. ASSUME Value(f, type, json) # {} PROVE CleanTo(type, members, n + 1)
  <2>1. MemberFits(type, members[n + 1], DOMAIN GivenTo(type, members, n))
    BY <1>2, <1>3, <1>4 DEF MemberFits
  <2> QED
    BY <1>1, <1>2, <2>1, CleanStep
<1>5. ASSUME NEW next, NEW got,
             next = [type |-> type, list |-> frame.list, items |-> members,
                     done |-> n + 1, got |-> got],
             got = GivenTo(type, members, n + 1), Value(f, type, json) # {}
      PROVE  Follows(frame, next)
  <2>1. MapOK(next)
    BY <1>1, <1>4, <1>5 DEF MapOK, CleanTo, GivenTo, Obj
  <2>2. FrameOK(next)
    BY <1>2, <1>5, <2>1 DEF FrameOK
  <2> QED
    BY <1>5, <2>2 DEF Follows
<1>6. ASSUME IsNull(json), Value(f, type, json) # {} PROVE Follows(frame, Skipped(frame))
  <2>1. Skipped(frame) = [type |-> type, list |-> frame.list, items |-> members,
                          done |-> n + 1, got |-> frame.got]
    BY DEF Skipped, FrameOK
  <2>2. GivenTo(type, members, n + 1) = GivenTo(type, members, n)
    BY <1>1, <1>2, <1>3, <1>6, GivenStep
  <2> QED
    BY <1>1, <1>5, <1>6, <2>1, <2>2
<1>7. ASSUME ~IsNull(json), NEW v \in Value(f, type, json)
      PROVE  Follows(frame, Stored(frame, f, v))
  <2>1. Stored(frame, f, v) =
            [type |-> type, list |-> frame.list, items |-> members,
             done |-> n + 1, got |-> With(frame.got, f.slot, SlotValue(f, v))]
    BY FrameChanged DEF Stored
  <2>2. GivenTo(type, members, n + 1) =
            With(GivenTo(type, members, n), f.slot, SlotValue(f, v))
    BY <1>1, <1>2, <1>3, <1>7, GivenStep
  <2> QED
    BY <1>1, <1>5, <1>7, <2>1, <2>2
<1> QED
  BY <1>6, <1>7

(* A call that is at its end has its result. *)
LEMMA ListEnds ==
    ASSUME NEW frame, FrameOK(frame), AtEnd(frame), frame.list
    PROVE  frame.got \in Results(frame)
<1>1. /\ frame.items \in Seq(Json) /\ frame.got = [i \in 1..Len(frame.got) |-> frame.got[i]]
      /\ Len(frame.got) = Len(frame.items)
      /\ \A i \in 1..Len(frame.items) :
             frame.got[i] \in Meanings[frame.type][frame.items[i]]
  BY DEF FrameOK, ListOK, AtEnd, IsSequence
<1>2. DOMAIN frame.items = 1..Len(frame.items)
  BY <1>1
<1>3. DOMAIN ItemMeanings(frame) = 1..Len(frame.items)
      /\ \A i \in 1..Len(frame.items) :
             ItemMeanings(frame)[i] = Meanings[frame.type][frame.items[i]]
  BY <1>2 DEF ItemMeanings
<1>4. \A i \in DOMAIN ItemMeanings(frame) : AtMostOne(ItemMeanings(frame)[i])
  BY <1>1, <1>3, MeaningOf DEF FrameOK
<1>5. frame.got = [i \in DOMAIN ItemMeanings(frame) |-> frame.got[i]]
  BY <1>1, <1>3
<1>6. \A i \in DOMAIN ItemMeanings(frame) : frame.got[i] \in ItemMeanings(frame)[i]
  BY <1>1, <1>3
<1>7. Each(ItemMeanings(frame)) = {frame.got}
  BY <1>4, <1>5, <1>6, EachOfOne
<1> QED
  BY <1>7 DEF Results

LEMMA MapEnds ==
    ASSUME NEW frame, FrameOK(frame), AtEnd(frame), ~frame.list
    PROVE  Filled(frame.type, frame.got) \in Results(frame)
<1> DEFINE json == <<"obj", frame.items>>
<1>1. /\ json \in Json /\ frame.type \in MessageType
      /\ CleanTo(frame.type, frame.items, Len(frame.items))
      /\ frame.got = GivenTo(frame.type, frame.items, Len(frame.items))
  BY DEF FrameOK, MapOK, AtEnd, CleanTo, GivenTo, Obj
<1>2. ObjectMeanings(frame.type, json, NestedMeanings(frame.type)) = {Filled(frame.type, frame.got)}
  BY <1>1 DEF ObjectMeanings, CleanTo, GivenTo
<1> QED
  BY <1>1, <1>2, MeaningOf DEF Results

(* A call returns what the member it was made for can be taken for.        *)
LEMMA CalledForItem ==
    ASSUME NEW below, NEW frame, FrameOK(below), FrameOK(frame), Called(below, frame),
           below.list
    PROVE  Results(frame) = Meanings[below.type][Item(below)]
BY DEF Called, Results, Obj, Arr

LEMMA CalledForMember ==
    ASSUME NEW below, NEW frame, FrameOK(below), FrameOK(frame), Called(below, frame),
           ~below.list, NEW f \in FieldsNamed(below.type, Item(below)[1])
    PROVE  /\ Results(frame) = Value(f, below.type, Item(below)[2])
           /\ ~IsNull(Item(below)[2])
           /\ Free(below, f)
<1>1. f.of = frame.type /\ Free(below, f)
      /\ f.kind = (IF frame.list THEN "list" ELSE "message")
      /\ Item(below)[2] = <<IF frame.list THEN "arr" ELSE "obj", frame.items>>
  BY NameTold DEF Called, FrameOK, Obj, Arr
<1>2. f \in Range(Fields[below.type]) /\ below.type \in MessageType
  BY DEF FieldsNamed, FrameOK
<1>3. NestedMeanings(below.type)[f.of] = Meanings[frame.type]
  BY <1>1, <1>2, InnerMeaning
<1>4. ~IsNull(Item(below)[2])
  BY <1>1 DEF IsNull
<1>5. CASE frame.list
  <2>1. Item(below)[2][1] = "arr" /\ Item(below)[2][2] = frame.items
    BY <1>1, <1>5
  <2>2. Value(f, below.type, Item(below)[2]) =
            Each([i \in DOMAIN frame.items |-> NestedMeanings(below.type)[f.of][frame.items[i]]])
    BY <1>1, <1>5, <2>1 DEF Value, ValuesOf
  <2> QED
    BY <1>1, <1>3, <1>4, <1>5, <2>2 DEF Results, ItemMeanings
<1>6. CASE ~frame.list
  <2>1. Item(below)[2] = <<"obj", frame.items>>
    BY <1>1, <1>6
  <2>2. Value(f, below.type, Item(below)[2]) = NestedMeanings(below.type)[f.of][Item(below)[2]]
    BY <1>1, <1>4, <1>6 DEF Value, ValuesOf
  <2> QED
    BY <1>1, <1>3, <1>4, <1>6, <2>1, <2>2 DEF Results
<1> QED
  BY <1>5, <1>6

LEMMA CalledInVain ==
    ASSUME NEW below, NEW frame, FrameOK(below), FrameOK(frame), Called(below, frame),
           Results(frame) = {}
    PROVE  Results(below) = {}
<1>1. ~AtEnd(below)
  BY DEF Called, Obj, Arr
<1>2. CASE below.list
  BY <1>1, <1>2, CalledForItem, NoFitNoResult DEF ItemFits
<1>3. CASE ~below.list
  <2>1. \A f \in FieldsNamed(below.type, Item(below)[1]) :
            Value(f, below.type, Item(below)[2]) = {}
    BY <1>3, CalledForMember
  <2>2. ~ItemFits(below)
    BY <1>3, <2>1 DEF ItemFits, MemberFits
  <2> QED
    BY <1>1, <2>2, NoFitNoResult
<1> QED
  BY <1>2, <1>3

-----------------------------------------------------------------------------
(* The stack.                                                              *)

LastOf(s)    == s[Len(s)]
WithoutLast(s) == SubSeq(s, 1, Len(s) - 1)

LEMMA LastRemoved ==
    ASSUME NEW s, IsSequence(s), s # <<>>
    PROVE  /\ IsSequence(WithoutLast(s))
           /\ Len(WithoutLast(s)) = Len(s) - 1 /\ Len(s) - 1 \in Nat
           /\ \A i \in 1..(Len(s) - 1) : WithoutLast(s)[i] = s[i]
<1>1. Len(s) \in Nat /\ Len(s) # 0
  BY SequenceType
<1>2. Len(s) - 1 \in Nat
  BY <1>1
<1> DEFINE n == Len(s) - 1
<1>3. n \in Nat /\ 1 \in Nat /\ 1 <= 1 /\ 1 <= n + 1 /\ n <= Len(s) /\ n - 1 + 1 = n
      /\ \A i \in 1..n : 1 + i - 1 = i
  BY <1>1, <1>2
<1> HIDE DEF n
<1>4. /\ IsSequence(SubSeq(s, 1, n))
      /\ Len(SubSeq(s, 1, n)) = n - 1 + 1
      /\ \A i \in 1..(n - 1 + 1) : SubSeq(s, 1, n)[i] = s[1 + i - 1]
  BY <1>3, SubSeqPart
<1> QED
  BY <1>2, <1>3, <1>4 DEF WithoutLast, n

LEMMA StackPop ==
    ASSUME NEW d, NEW s, StackOK(d, s), s # <<>>
    PROVE  StackOK(d, WithoutLast(s))
<1> DEFINE t == WithoutLast(s)
           n == Len(s) - 1
<1>1. IsSequence(s) /\ Len(s) \in Nat /\ Len(s) # 0
  BY SequenceType DEF StackOK, IsSequence, Obj
<1>2. IsSequence(t) /\ Len(t) = n /\ n \in Nat /\ \A i \in 1..n : t[i] = s[i]
  BY <1>1, LastRemoved
<1>3. \A i \in 1..n : i \in 1..Len(s) /\ (i > 1 => i - 1 \in 1..n)
  BY <1>1
<1>4. t # <<>> => 1 \in 1..n
  BY <1>2, SequenceType
<1> HIDE DEF t, n
<1>5. StackOK(d, t)
  BY <1>2, <1>3, <1>4 DEF StackOK, IsSequence, Obj
<1> QED
  BY <1>5 DEF t

LEMMA StackPush ==
    ASSUME NEW d, NEW s, StackOK(d, s), NEW frame, FrameOK(frame),
           IF s = <<>> THEN /\ ~frame.list /\ frame.type = d.type
                            /\ d.json = <<"obj", frame.items>>
           ELSE Called(LastOf(s), frame)
    PROVE  StackOK(d, Append(s, frame))
<1> DEFINE t == Append(s, frame)
           n == Len(s)
<1>1. IsSequence(s) /\ n \in Nat /\ (s = <<>> <=> n = 0)
  BY SequenceType DEF StackOK, IsSequence, Obj
<1>2. /\ IsSequence(t) /\ Len(t) = n + 1 /\ t[n + 1] = frame
      /\ \A i \in 1..n : t[i] = s[i]
  BY <1>1, Appended
<1>3. \A i \in 1..(n + 1) : i = n + 1 \/ i \in 1..n
  BY <1>1
<1>4. \A i \in 1..n : i - 1 \in 1..n \/ i = 1
  BY <1>1
<1>5. n # 0 => n \in 1..n /\ 1 \in 1..n
  BY <1>1
<1>6. n + 1 - 1 = n /\ (n = 0 => ~(n + 1 > 1))
  BY <1>1
<1> HIDE DEF t
<1>7. \A i \in 1..(n + 1) : FrameOK(t[i])
  BY <1>2, <1>3 DEF StackOK, IsSequence, Obj
<1>8. ASSUME NEW i \in 1..(n + 1), i > 1 PROVE Called(t[i - 1], t[i])
  <2>1. CASE i = n + 1
    <3>1. n # 0 /\ i - 1 = n
      BY <1>1, <1>6, <1>8, <2>1
    <3>2. Called(s[n], frame)
      BY <1>1, <3>1 DEF LastOf
    <3>3. t[n] = s[n]
      BY <1>2, <1>5, <3>1
    <3> QED
      BY <1>2, <2>1, <3>1, <3>2, <3>3
  <2>2. CASE i \in 1..n
    <3>1. i - 1 \in 1..n
      BY <1>4, <1>8, <2>2
    <3>2. Called(s[i - 1], s[i])
      BY <1>8, <2>2 DEF StackOK, IsSequence, Obj
    <3> QED
      BY <1>2, <2>2, <3>1, <3>2
  <2> QED
    BY <1>3, <2>1, <2>2
<1>9. ~t[1].list /\ t[1].type = d.type /\ d.json = <<"obj", t[1].items>>
  <2>1. CASE n = 0
    BY <1>1, <1>2, <2>1
  <2>2. CASE n # 0
    BY <1>1, <1>2, <1>5, <2>2 DEF StackOK, IsSequence, Obj
  <2> QED
    BY <2>1, <2>2
<1>10. StackOK(d, t)
  BY <1>2, <1>7, <1>8, <1>9 DEF StackOK, IsSequence, Obj
<1> QED
  BY <1>10 DEF t

LEMMA StackLast ==
    ASSUME NEW d, NEW s, StackOK(d, s), s # <<>>
    PROVE  /\ FrameOK(LastOf(s))
           /\ IF WithoutLast(s) = <<>>
              THEN /\ ~LastOf(s).list /\ LastOf(s).type = d.type
                   /\ d.json = <<"obj", LastOf(s).items>>
              ELSE Called(LastOf(WithoutLast(s)), LastOf(s))
<1> DEFINE n == Len(s)
<1>1. IsSequence(s) /\ n \in Nat /\ n # 0
  BY SequenceType DEF StackOK, IsSequence, Obj
<1>2. /\ IsSequence(WithoutLast(s)) /\ Len(WithoutLast(s)) = n - 1
      /\ \A i \in 1..(n - 1) : WithoutLast(s)[i] = s[i]
  BY <1>1, LastRemoved
<1>3. n \in 1..n /\ FrameOK(s[n])
  BY <1>1 DEF StackOK, IsSequence, Obj
<1>4. CASE n = 1
  <2>1. WithoutLast(s) = <<>>
    BY <1>2, <1>4, SequenceType
  <2> QED
    BY <1>3, <1>4, <2>1 DEF StackOK, LastOf, IsSequence, Obj
<1>5. CASE n # 1
  <2>1. n > 1 /\ n - 1 \in 1..(n - 1)
    <3> HIDE DEF n
    <3> QED
      BY <1>1, <1>5
  <2>2. WithoutLast(s) # <<>> /\ LastOf(WithoutLast(s)) = s[n - 1]
    BY <1>2, <2>1, SequenceType DEF LastOf
  <2>3. Called(s[n - 1], s[n])
    BY <1>3, <2>1 DEF StackOK, IsSequence, Obj
  <2> QED
    BY <1>3, <2>2, <2>3 DEF LastOf
<1> QED
  BY <1>4, <1>5

(* The call on top goes on. *)
LEMMA StackReplace ==
    ASSUME NEW d, NEW s, StackOK(d, s), s # <<>>, NEW next, Follows(LastOf(s), next)
    PROVE  StackOK(d, Append(WithoutLast(s), next))
<1>1. StackOK(d, WithoutLast(s))
  BY StackPop
<1>2. FrameOK(next)
  BY DEF Follows
<1>3. IF WithoutLast(s) = <<>> THEN /\ ~next.list /\ next.type = d.type
                                    /\ d.json = <<"obj", next.items>>
      ELSE Called(LastOf(WithoutLast(s)), next)
  BY StackLast DEF Follows, Called, Obj, Arr
<1> QED
  BY <1>1, <1>2, <1>3, StackPush

(* An error of the call on top is one of the whole document. *)
LEMMA NoResult ==
    ASSUME NEW d, NEW s, StackOK(d, s), s # <<>>, Results(LastOf(s)) = {}
    PROVE  Meanings[d.type][d.json] = {}
<1> DEFINE n == Len(s)
           X == {k \in 0..(n - 1) : Results(s[n - k]) = {}}
<1>1. IsSequence(s) /\ n \in Nat /\ n # 0
  BY SequenceType DEF StackOK, IsSequence, Obj
<1>2. n - 1 \in Nat /\ n - 0 = n /\ n - (n - 1) = 1 /\ n - 1 \in 0..(n - 1) /\ 0 \in 0..(n - 1)
  BY <1>1
<1>3. 0 \in X
  BY <1>2 DEF LastOf
<1>4. ASSUME NEW k \in 0..(n - 1 - 1), k \in X PROVE k + 1 \in X
  <2>1. n - k \in 1..n /\ n - k > 1 /\ (n - k) - 1 = n - (k + 1) /\ n - (k + 1) \in 1..n
        /\ k + 1 \in 0..(n - 1)
    BY <1>1
  <2>2. FrameOK(s[n - k]) /\ FrameOK(s[n - (k + 1)])
        /\ Called(s[n - (k + 1)], s[n - k])
    BY <2>1 DEF StackOK, IsSequence, Obj
  <2>3. Results(s[n - k]) = {}
    BY <1>4
  <2>4. Results(s[n - (k + 1)]) = {}
    BY <2>2, <2>3, CalledInVain
  <2> QED
    BY <2>1, <2>4
<1>5. \A k \in 0..(n - 1) : k \in X
  <2> DEFINE m == n - 1
  <2>1. m \in Nat
    BY <1>2
  <2> HIDE DEF X, m
  <2>2. 0 \in X /\ \A k \in 0..(m - 1) : k \in X => k + 1 \in X
    BY <1>3, <1>4 DEF m
  <2>3. \A k \in 0..m : k \in X
    BY <2>1, <2>2, BoundedInduction
  <2> QED
    BY <2>3 DEF m
<1>6. Results(s[1]) = {}
  BY <1>2, <1>5
<1> QED
  BY <1>6 DEF StackOK, Results, IsSequence, Obj

-----------------------------------------------------------------------------
(* Writing.                                                                *)

(* Fields that are apart from each other, in a sequence w: those of the    *)
(* first k that are not omitted, each once.                                *)
Chosen(type, m, w, k) ==
    /\ IsSequence(w)
    /\ \A i \in 1..Len(w) : \E e \in 1..k : /\ w[i] = Fields[type][e]
                                            /\ ~Omitted(Fields[type][e], m)
    /\ \A i, j \in 1..Len(w) : w[i] = w[j] => i = j
    /\ \A e \in 1..k : Omitted(Fields[type][e], m)
                           \/ \E i \in 1..Len(w) : w[i] = Fields[type][e]

LEMMA ChosenStep ==
    ASSUME NEW type \in MessageType, NEW m, NEW k \in 1..Len(Fields[type]), NEW w,
           Chosen(type, m, w, k - 1)
    PROVE  Chosen(type, m, IF Omitted(Fields[type][k], m) THEN w
                           ELSE Append(w, Fields[type][k]), k)
<1> DEFINE F == Fields[type]
           n == Len(w)
<1>1. Len(F) \in Nat /\ IsSequence(w) /\ n \in Nat
  BY Tables, SequenceType DEF IsTable, Chosen
<1>2. \A e \in 1..(k - 1) : e \in 1..k /\ e \in 1..Len(F) /\ e # k
  BY <1>1
<1>3. \A e \in 1..k : e = k \/ e \in 1..(k - 1)
  BY <1>1
<1>4. CASE Omitted(F[k], m)
  <2>1. \A e \in 1..k : Omitted(F[e], m) \/ \E i \in 1..n : w[i] = F[e]
    BY <1>3, <1>4 DEF Chosen
  <2>2. \A i \in 1..n : \E e \in 1..k : w[i] = F[e] /\ ~Omitted(F[e], m)
    BY <1>2 DEF Chosen
  <2> QED
    BY <1>4, <2>1, <2>2 DEF Chosen
<1>5. CASE ~Omitted(F[k], m)
  <2> DEFINE t == Append(w, F[k])
  <2>1. /\ IsSequence(t) /\ Len(t) = n + 1 /\ t[n + 1] = F[k]
        /\ \A i \in 1..n : t[i] = w[i]
    BY <1>1, Appended
  <2>2. \A i \in 1..(n + 1) : i = n + 1 \/ i \in 1..n
    BY <1>1
  <2>3. \A i \in 1..n : i \in 1..(n + 1)
    BY <1>1
  <2>4. n + 1 \in 1..(n + 1) /\ k \in 1..k
    BY <1>1
  <2> HIDE DEF t
  <2>5. \A i \in 1..(n + 1) : \E e \in 1..k : t[i] = F[e] /\ ~Omitted(F[e], m)
    <3>1. \A i \in 1..n : \E e \in 1..k : w[i] = F[e] /\ ~Omitted(F[e], m)
      BY <1>2 DEF Chosen
    <3> QED
      BY <1>5, <2>1, <2>2, <2>4, <3>1
  <2>6. \A e \in 1..(k - 1) : F[e] # F[k]
    <3>1. \A e \in 1..(k - 1) : Apart(F[e], F[k])
      BY <1>2, Tables DEF IsTable
    <3> QED
      BY <3>1 DEF Apart
  <2>7. \A i \in 1..n : w[i] # F[k]
    BY <2>6 DEF Chosen
  <2>8. \A i, j \in 1..(n + 1) : t[i] = t[j] => i = j
    <3>1. \A i, j \in 1..n : w[i] = w[j] => i = j
      BY DEF Chosen
    <3> QED
      BY <2>1, <2>2, <2>7, <3>1
  <2>9. \A e \in 1..k : Omitted(F[e], m) \/ \E i \in 1..(n + 1) : t[i] = F[e]
    <3>1. \A e \in 1..(k - 1) : Omitted(F[e], m) \/ \E i \in 1..n : w[i] = F[e]
      BY DEF Chosen
    <3> QED
      BY <1>3, <2>1, <2>3, <2>4, <3>1
  <2>10. Chosen(type, m, t, k)
    BY <2>1, <2>5, <2>8, <2>9 DEF Chosen
  <2> QED
    BY <1>5, <2>10 DEF t
<1> QED
  BY <1>4, <1>5

(* Every field that is not omitted is written, and once. *)
LEMMA WrittenFields ==
    ASSUME NEW type \in MessageType, NEW m
    PROVE  Chosen(type, m, Written(type, m), Len(Fields[type]))
<1> DEFINE len == Len(Fields[type])
<1>1. len \in Nat
  BY Tables DEF IsTable
<1>2. PICK w : IsWritten(type, m, w, len) /\ Written(type, m) = w[len]
  BY WrittenEquation
<1> HIDE DEF len
<1> DEFINE X == {k \in 0..len : Chosen(type, m, w[k], k)}
<1>3. 0 \in X
  <2>1. w[0] = <<>> /\ Len(<<>>) = 0
    BY <1>2 DEF IsWritten
  <2>2. \A i : i \notin 1..0
    OBVIOUS
  <2>3. Chosen(type, m, <<>>, 0)
    BY <2>1, <2>2, EmptySequence DEF Chosen
  <2> QED
    BY <1>1, <2>1, <2>3
<1>4. ASSUME NEW k \in 0..(len - 1), k \in X PROVE k + 1 \in X
  <2>1. k + 1 \in 1..len /\ k + 1 \in 0..len /\ (k + 1) - 1 = k
    BY <1>1
  <2>2. Chosen(type, m, w[k], (k + 1) - 1)
    BY <1>4, <2>1
  <2>3. Chosen(type, m, IF Omitted(Fields[type][k + 1], m) THEN w[k]
                        ELSE Append(w[k], Fields[type][k + 1]), k + 1)
    BY <2>1, <2>2, ChosenStep DEF len
  <2>4. w[k + 1] = IF Omitted(Fields[type][k + 1], m) THEN w[k]
                   ELSE Append(w[k], Fields[type][k + 1])
    BY <1>2, <2>1 DEF IsWritten
  <2> QED
    BY <2>1, <2>3, <2>4
<1>5. \A k \in 0..len : k \in X
  <2> HIDE DEF X
  <2> QED
    BY <1>1, <1>3, <1>4, BoundedInduction
<1>6. len \in 0..len
  BY <1>1
<1> QED
  BY <1>2, <1>5, <1>6 DEF len

(* Two fields that are written have a slot each: of a oneof, one           *)
(* alternative is.                                                         *)
LEMMA OneAlternative ==
    ASSUME NEW type \in MessageType, NEW m,
           NEW f \in Range(Fields[type]), NEW g \in Range(Fields[type]),
           ~Omitted(f, m), ~Omitted(g, m), f.slot = g.slot
    PROVE  f = g
<1> SUFFICES ASSUME f # g PROVE FALSE
  OBVIOUS
<1>1. Apart(f, g)
  BY FieldFacts
<1>2. f.slot = "proof" /\ g.slot = "proof"
  BY <1>1 DEF Apart
<1>3. m.proof[1] = f.camel /\ m.proof[1] = g.camel
  BY <1>2 DEF Omitted
<1> QED
  BY <1>1, <1>3 DEF Apart

(* What a field that is written holds. *)
Contents(f) ==
    CASE f.kind = "message" -> Struct[f.of]
      [] OTHER              -> FieldSet(f)

LEMMA WrittenContents ==
    ASSUME NEW type \in MessageType, NEW m \in Struct[type],
           NEW f \in Range(Fields[type]), ~Omitted(f, m)
    PROVE  /\ FieldValue(f, m) \in Contents(f)
           /\ SlotValue(f, FieldValue(f, m)) = m[f.slot]
<1> DEFINE F == Fields[type]
<1>1. IsTable(type, F) /\ IsStruct(type, F, m)
  BY Tables, Structs
<1>2. PICK i \in 1..Len(F) : F[i] = f
  BY <1>1 DEF IsTable, Range
<1> HIDE DEF F
<1>3. IsField(type, f)
  BY FieldFacts
<1>4. CASE f.slot # "proof"
  <2>1. m[f.slot] \in FieldSet(f)
    BY <1>1, <1>2, <1>4 DEF IsStruct
  <2>2. f.kind = "message" => m[f.slot] # None
    BY <1>4 DEF Omitted, Default
  <2>3. f.kind = "message" => m[f.slot] \in Struct[f.of]
    BY <2>1, <2>2 DEF FieldSet, Option
  <2> QED
    BY <1>4, <2>1, <2>3 DEF Contents, FieldValue, SlotValue
<1>5. CASE f.slot = "proof"
  <2>1. m.proof # None /\ m.proof[1] = f.camel
    BY <1>5 DEF Omitted
  <2>2. PICK j \in 1..Len(F) : Holds(F[j], m)
    BY <1>1, <1>2, <1>5, <2>1 DEF IsStruct
  <2>3. m.proof[1] = F[j].camel
    BY <2>2 DEF Holds
  <2>4. F[j] = f
    BY <1>1, <1>2, <2>1, <2>3 DEF IsTable, Apart
  <2>5. m.proof \in {f.camel} \X Struct[f.of]
    BY <2>2, <2>4 DEF Holds
  <2>6. m.proof = <<f.camel, m.proof[2]>> /\ m.proof[2] \in Struct[f.of]
    BY <2>5
  <2>7. f.kind = "message"
    BY <1>3, <1>5 DEF IsField
  <2> QED
    BY <1>5, <2>6, <2>7 DEF Contents, FieldValue, SlotValue
<1> QED
  BY <1>4, <1>5

(* What a slot holds of which no field is written. *)
LEMMA OmittedSlot ==
    ASSUME NEW type \in MessageType, NEW m \in Struct[type], NEW s \in Slots(type),
           \A f \in Range(Fields[type]) : f.slot = s => Omitted(f, m)
    PROVE  m[s] = DefaultOf(type, s)
<1> DEFINE F == Fields[type]
<1>1. IsTable(type, F) /\ IsStruct(type, F, m)
  BY Tables, Structs
<1>2. PICK f \in Range(F) : f.slot = s
  BY SlotHasField
<1>3. PICK i \in 1..Len(F) : F[i] = f
  BY <1>1 DEF IsTable, Range
<1>4. DefaultOf(type, s) = Default(f.kind)
  BY <1>2, SlotDefault
<1>5. \A j \in 1..Len(F) : F[j] \in Range(F)
  BY <1>1 DEF IsTable, Range
<1>6. IsField(type, f)
  BY FieldFacts
<1> HIDE DEF F
<1>7. CASE s # "proof"
  BY <1>2, <1>4, <1>7 DEF F, Omitted
<1>8. CASE s = "proof"
  <2>1. Default(f.kind) = None
    BY <1>2, <1>6, <1>8 DEF IsField, Default
  <2>2. m.proof = None
    <3>1. SUFFICES ASSUME m.proof # None PROVE FALSE
      OBVIOUS
    <3>2. PICK j \in 1..Len(F) : Holds(F[j], m)
      BY <1>1, <1>2, <1>3, <1>8, <3>1 DEF IsStruct
    <3>3. Omitted(F[j], m)
      BY <1>5, <1>8, <3>2 DEF Holds, F
    <3> QED
      BY <3>1, <3>2, <3>3 DEF Holds, Omitted
  <2> QED
    BY <1>4, <1>8, <2>1, <2>2
<1> QED
  BY <1>7, <1>8

-----------------------------------------------------------------------------
(* What is written is read.                                                *)

(* How deep the arrays and objects of a message are nested. *)
Level(type) == 2 * Height[type] + 2

LEMMA Levels ==
    ASSUME NEW type \in MessageType
    PROVE  /\ Level(type) \in 1..MaxNesting
           /\ Level(type) - 1 \in 1..MaxNesting
           /\ Level(type) - 1 \in 0..MaxNesting
           /\ (Level(type) - 1) - 1 \in 0..MaxNesting
           /\ Height[type] \in 0..5
           /\ \A u \in NestedTypes(type) : Level(u) \in 0..((Level(type) - 1) - 1)
<1>1. MaxNesting \in Nat /\ MaxNesting >= 12
  BY MaxNestingAssumption
<1>2. \A t \in MessageType : Height[t] \in 0..5
  BY Heights
<1>3. \A u \in NestedTypes(type) : u \in MessageType /\ Height[u] < Height[type]
  BY NestedLower
<1> DEFINE h   == Height[type]
           max == MaxNesting
<1>4. h \in 0..5 /\ max \in Nat /\ max >= 12
  BY <1>1, <1>2
<1> HIDE DEF h, max
<1>5. /\ 2 * h + 2 \in 1..max /\ (2 * h + 2) - 1 \in 1..max
      /\ (2 * h + 2) - 1 \in 0..max /\ ((2 * h + 2) - 1) - 1 \in 0..max
      /\ \A k \in 0..5 : k < h => 2 * k + 2 \in 0..(((2 * h + 2) - 1) - 1)
  BY <1>4
<1> QED
  BY <1>2, <1>3, <1>5 DEF Level, h, max

Reads(type, m, json) ==
    /\ json \in JsonValues[Level(type)]
    /\ json[1] = "obj"
    /\ Meanings[type][json] = {m}

ReadBack(type) ==
    \A m \in Struct[type] : \A json \in Writings[type][m] : Reads(type, m, json)

InnerWritings(type) == [u \in NestedTypes(type) |-> Writings[u]]

(* A value is written as something that is read as that value, and is not  *)
(* null.                                                                   *)
FieldReads(type, f, v, json) ==
    /\ json \in JsonValues[Level(type) - 1]
    /\ ~IsNull(json)
    /\ Value(f, type, json) = {v}

LEMMA ScalarLevel ==
    ASSUME NEW type \in MessageType
    PROVE  /\ Scalars \subseteq JsonValues[Level(type) - 1]
           /\ \A s \in Seq(JsonValues[(Level(type) - 1) - 1]) :
                  <<"arr", s>> \in JsonValues[Level(type) - 1]
           /\ Scalars \subseteq JsonValues[(Level(type) - 1) - 1]
           /\ \A u \in NestedTypes(type) :
                  JsonValues[Level(u)] \subseteq JsonValues[(Level(type) - 1) - 1]
<1> DEFINE n == Level(type) - 1
           inner == JsonValues[n - 1]
<1>1. n \in 1..MaxNesting /\ n - 1 \in 0..MaxNesting /\ 0 \in 0..(n - 1)
  BY Levels
<1>2. JsonValues[n] = Scalars \cup ({"arr"} \X Seq(inner)) \cup ({"obj"} \X Seq(Text \X inner))
  BY <1>1, JsonValuesEquation
<1>3. JsonValues[0] \subseteq inner
  BY <1>1, JsonValuesGrow
<1>4. \A u \in NestedTypes(type) : Level(u) \in 0..(n - 1)
  BY Levels
<1>5. \A u \in NestedTypes(type) : JsonValues[Level(u)] \subseteq inner
  BY <1>1, <1>4, JsonValuesGrow
<1>6. JsonValues[0] = Scalars
  BY JsonValuesEquation
<1>7. \A s \in Seq(inner) : <<"arr", s>> \in JsonValues[n]
  BY <1>2
<1>8. Scalars \subseteq JsonValues[n]
  BY <1>2
<1> QED
  BY <1>3, <1>5, <1>6, <1>7, <1>8

LEMMA ScalarIsRead ==
    ASSUME NEW type \in MessageType, NEW f \in Range(Fields[type]),
           f.kind \notin {"message", "list"}, NEW v \in Contents(f),
           NEW json \in JsonOf(f, v, InnerWritings(type))
    PROVE  FieldReads(type, f, v, json)
<1>1. IsField(type, f)
  BY FieldFacts
<1>2. Value(f, type, json) = ScalarsOf(f, json)
  BY DEF Value, ValuesOf
<1>3. CASE f.kind = "bytes"
  <2>1. v \in ByteStrings /\ json = <<"str", <<"base64", v>>>>
    BY <1>3 DEF Contents, FieldSet, JsonOf, Str
  <2>2. json \in Scalars
    BY <2>1 DEF Scalars
  <2>3. ScalarsOf(f, json) = {v}
    BY <1>3, <2>1 DEF ScalarsOf, BytesOf
  <2> QED
    BY <1>2, <2>1, <2>2, <2>3, ScalarLevel DEF FieldReads, IsNull
<1>4. CASE f.kind = "int32"
  <2>1. v \in Int32 /\ v \in Int /\ json = <<"num", v>>
    BY <1>4, Int32Assumption DEF Contents, FieldSet, JsonOf, Num
  <2>2. json \in Scalars
    BY <2>1 DEF Scalars
  <2>3. ScalarsOf(f, json) = {v}
    BY <1>4, <2>1 DEF ScalarsOf, NumbersOf
  <2> QED
    BY <1>2, <2>1, <2>2, <2>3, ScalarLevel DEF FieldReads, IsNull
<1>5. CASE f.kind = "bool"
  <2>1. v \in BOOLEAN /\ json = <<"bool", v>>
    BY <1>5 DEF Contents, FieldSet, JsonOf
  <2>2. json \in Scalars
    BY <2>1 DEF Scalars
  <2>3. ScalarsOf(f, json) = {v}
    BY <1>5, <2>1 DEF ScalarsOf
  <2> QED
    BY <1>2, <2>1, <2>2, <2>3, ScalarLevel DEF FieldReads, IsNull
<1>6. CASE f.kind = "enum"
  <2>1. f.of \in {"HashOp", "LengthOp"}
    BY <1>1, <1>6 DEF IsField
  <2>2. v \in EnumNumbers(f.of)
        /\ json = <<"str", <<"text", EnumNames[f.of][v + 1]>>>>
    BY <1>6 DEF JsonOf, Str
  <2>3. EnumNames[f.of][v + 1] \in Text
        /\ {n \in EnumNumbers(f.of) : EnumNames[f.of][n + 1] = EnumNames[f.of][v + 1]} = {v}
    BY <2>1, <2>2, EnumTold
  <2>4. json \in Scalars
    BY <2>2, <2>3 DEF Scalars
  <2>5. ScalarsOf(f, json) = EnumOf(f.of, json)
    BY <1>6 DEF ScalarsOf
  <2>6. EnumOf(f.of, json) = {v}
    BY <2>2, <2>3 DEF EnumOf
  <2>7. json[1] = "str"
    BY <2>2
  <2> QED
    BY <1>2, <2>4, <2>5, <2>6, <2>7, ScalarLevel DEF FieldReads, IsNull
<1>7. CASE f.kind = "ints"
  <2> DEFINE s == [i \in DOMAIN v |-> Num(v[i])]
  <2>1. v \in Seq(Int32) /\ json = <<"arr", s>>
    BY <1>7 DEF Contents, FieldSet, JsonOf, Arr
  <2>2. DOMAIN v = 1..Len(v) /\ Len(v) \in Nat /\ v = [i \in DOMAIN v |-> v[i]]
        /\ \A i \in DOMAIN v : v[i] \in Int32 /\ v[i] \in Int
    BY <2>1, Int32Assumption
  <2>3. \A i \in DOMAIN v : s[i] = <<"num", v[i]>> /\ s[i] \in Scalars
    BY <2>2 DEF Num, Scalars
  <2>4. DOMAIN s = DOMAIN v
    OBVIOUS
  <2> DEFINE inner == JsonValues[(Level(type) - 1) - 1]
  <2>5. \A i \in DOMAIN v : s[i] \in inner
    BY <2>3, ScalarLevel
  <2>6. s \in Seq(inner)
    <3> HIDE DEF inner
    <3> QED
      BY <2>2, <2>5
  <2>7. json \in JsonValues[Level(type) - 1]
    BY <2>1, <2>6, ScalarLevel
  <2> HIDE DEF s
  <2>8. ScalarsOf(f, json) = Each([i \in DOMAIN s |-> NumbersOf(s[i])])
    BY <1>7, <2>1 DEF ScalarsOf, IntsOf
  <2> DEFINE sets == [i \in DOMAIN s |-> NumbersOf(s[i])]
  <2>9. DOMAIN sets = DOMAIN v /\ \A i \in DOMAIN v : sets[i] = {v[i]}
    BY <2>2, <2>3, <2>4 DEF NumbersOf
  <2> HIDE DEF sets
  <2>10. Each(sets) = {v}
    <3>1. \A i \in DOMAIN sets : AtMostOne(sets[i])
      BY <2>9 DEF AtMostOne
    <3>2. v = [i \in DOMAIN sets |-> v[i]] /\ \A i \in DOMAIN sets : v[i] \in sets[i]
      BY <2>2, <2>9
    <3> QED
      BY <3>1, <3>2, EachOfOne
  <2>11. json[1] = "arr"
    BY <2>1
  <2> QED
    BY <1>2, <2>7, <2>8, <2>10, <2>11 DEF FieldReads, IsNull, sets
<1> QED
  BY <1>1, <1>3, <1>4, <1>5, <1>6, <1>7 DEF IsField, Kind

LEMMA FieldIsRead ==
    ASSUME NEW type \in MessageType, \A u \in NestedTypes(type) : ReadBack(u),
           NEW f \in Range(Fields[type]), NEW v \in Contents(f),
           NEW json \in JsonOf(f, v, InnerWritings(type))
    PROVE  FieldReads(type, f, v, json)
<1> DEFINE inner == JsonValues[(Level(type) - 1) - 1]
<1>1. CASE f.kind = "message"
  <2>1. f.of \in NestedTypes(type) /\ ReadBack(f.of)
    BY <1>1, NestedField
  <2>2. v \in Struct[f.of]
    BY <1>1 DEF Contents
  <2>3. json \in Writings[f.of][v]
    BY <1>1, <2>1 DEF JsonOf, InnerWritings
  <2>4. Reads(f.of, v, json)
    BY <2>1, <2>2, <2>3 DEF ReadBack
  <2>5. ~IsNull(json) /\ json \in JsonValues[Level(type) - 1]
    <3>1. json \in inner
      BY <2>1, <2>4, ScalarLevel DEF Reads
    <3>2. inner \subseteq JsonValues[Level(type) - 1]
      BY Levels, JsonValuesStep
    <3> QED
      BY <2>4, <3>1, <3>2 DEF Reads, IsNull
  <2>6. Value(f, type, json) = Meanings[f.of][json]
    BY <1>1, <2>5, InnerMeaning DEF Value, ValuesOf
  <2> QED
    BY <2>4, <2>5, <2>6 DEF Reads, FieldReads
<1>2. CASE f.kind = "list"
  <2> DEFINE w == [i \in DOMAIN v |-> InnerWritings(type)[f.of][v[i]]]
  <2>1. f.of \in NestedTypes(type) /\ ReadBack(f.of)
    BY <1>2, NestedField
  <2>2. v \in Seq(Struct[f.of])
    BY <1>2 DEF Contents, FieldSet
  <2>3. DOMAIN v = 1..Len(v) /\ Len(v) \in Nat /\ v = [i \in DOMAIN v |-> v[i]]
        /\ \A i \in DOMAIN v : v[i] \in Struct[f.of]
    BY <2>2
  <2>4. PICK s \in Each(w) : json = <<"arr", s>>
    BY <1>2 DEF JsonOf, Arr
  <2>5. DOMAIN w = DOMAIN v /\ \A i \in DOMAIN v : w[i] = Writings[f.of][v[i]]
    BY <2>1 DEF InnerWritings
  <2> HIDE DEF w
  <2>6. s = [i \in DOMAIN w |-> s[i]] /\ \A i \in DOMAIN w : s[i] \in w[i]
    BY EachFacts
  <2>7. \A i \in DOMAIN v : Reads(f.of, v[i], s[i])
    BY <2>1, <2>3, <2>5, <2>6 DEF ReadBack
  <2>8. json \in JsonValues[Level(type) - 1]
    <3>1. \A i \in DOMAIN v : s[i] \in inner
      BY <2>1, <2>7, ScalarLevel DEF Reads
    <3>2. s \in Seq(inner)
      <4> HIDE DEF inner
      <4>1. s = [i \in 1..Len(v) |-> s[i]]
        BY <2>3, <2>5, <2>6
      <4> QED
        BY <2>3, <3>1, <4>1
    <3> QED
      BY <2>4, <3>2, ScalarLevel
  <2> DEFINE sets == [i \in DOMAIN s |-> Meanings[f.of][s[i]]]
  <2>9. Value(f, type, json) = Each(sets)
    <3>1. NestedMeanings(type)[f.of] = Meanings[f.of]
      BY <1>2, InnerMeaning
    <3>2. json[1] = "arr" /\ json[2] = s
      BY <2>4
    <3>3. Value(f, type, json) =
              Each([i \in DOMAIN json[2] |-> NestedMeanings(type)[f.of][json[2][i]]])
      BY <1>2, <3>2 DEF Value, ValuesOf
    <3> QED
      BY <3>1, <3>2, <3>3
  <2>10. DOMAIN s = DOMAIN v
    BY <2>5, <2>6
  <2>11. DOMAIN sets = DOMAIN v /\ \A i \in DOMAIN v : sets[i] = {v[i]}
    BY <2>7, <2>10 DEF Reads
  <2> HIDE DEF sets
  <2>12. Each(sets) = {v}
    <3>1. \A i \in DOMAIN sets : AtMostOne(sets[i])
      BY <2>11 DEF AtMostOne
    <3>2. v = [i \in DOMAIN sets |-> v[i]] /\ \A i \in DOMAIN sets : v[i] \in sets[i]
      BY <2>3, <2>11
    <3> QED
      BY <3>1, <3>2, EachOfOne
  <2>13. ~IsNull(json)
    BY <2>4 DEF IsNull
  <2> QED
    BY <2>8, <2>9, <2>12, <2>13 DEF FieldReads
<1>3. CASE f.kind \notin {"message", "list"}
  BY <1>3, ScalarIsRead
<1> QED
  BY <1>1, <1>2, <1>3

(* The members that a message is written as: each of its fields that is    *)
(* not omitted, with what the field holds.                                 *)
IsWriting(type, m, members) ==
    /\ IsObject(type, members)
    /\ Len(members) = Len(Written(type, m))
    /\ \A i \in 1..Len(members) :
           /\ Written(type, m)[i] \in FieldsNamed(type, members[i][1])
           /\ ~IsNull(members[i][2])
           /\ Value(Written(type, m)[i], type, members[i][2]) =
                  {FieldValue(Written(type, m)[i], m)}

LEMMA WritingIsClean ==
    ASSUME NEW type \in MessageType, NEW m \in Struct[type], NEW members,
           IsWriting(type, m, members)
    PROVE  CleanTo(type, members, Len(members))
<1> DEFINE w == Written(type, m)
           n == Len(members)
<1>1. /\ \A i \in 1..n : w[i] \in Range(Fields[type]) /\ ~Omitted(w[i], m)
      /\ \A i, j \in 1..n : w[i] = w[j] => i = j
  <2>1. Chosen(type, m, w, Len(Fields[type])) /\ Len(w) = n
    BY WrittenFields DEF IsWriting
  <2>2. DOMAIN Fields[type] = 1..Len(Fields[type])
    BY Tables DEF IsTable
  <2> HIDE DEF w, n
  <2> QED
    BY <2>1, <2>2 DEF Chosen, Range
<1>2. \A i \in 1..n : /\ w[i] \in FieldsNamed(type, members[i][1])
                      /\ Value(w[i], type, members[i][2]) # {}
  BY DEF IsWriting
<1>3. \A i \in 1..n : \A f \in FieldsNamed(type, members[i][1]) : f = w[i]
  BY <1>2, NameTold
<1> HIDE DEF w, n
<1>4. \A i, j \in 1..n : w[i].slot = w[j].slot => i = j
  <2> SUFFICES ASSUME NEW i \in 1..n, NEW j \in 1..n, w[i].slot = w[j].slot
               PROVE  i = j
    OBVIOUS
  <2>1. w[i] = w[j]
    BY <1>1, OneAlternative
  <2> QED
    BY <1>1, <2>1
<1>5. \A i \in 1..n : \E f \in FieldsNamed(type, members[i][1]) :
          ValuesOf(f, members[i][2], NestedMeanings(type)) # {}
  BY <1>2 DEF Value
<1>6. \A i, j \in 1..n : \A f \in FieldsNamed(type, members[i][1]),
                           g \in FieldsNamed(type, members[j][1]) :
          i < j => f.slot # g.slot
  <2>1. n \in Nat
    BY DEF n, IsWriting, IsObject
  <2>2. \A i, j \in 1..n : i < j => i # j
    BY <2>1
  <2> QED
    BY <1>3, <1>4, <2>2
<1>7. CleanTo(type, members, n)
  BY <1>5, <1>6 DEF CleanTo, Clean
<1> QED
  BY <1>7 DEF n

LEMMA WritingMeans ==
    ASSUME NEW type \in MessageType, NEW m \in Struct[type], NEW members,
           IsWriting(type, m, members)
    PROVE  Filled(type, GivenTo(type, members, Len(members))) = m
<1> DEFINE w      == Written(type, m)
           n      == Len(members)
           got    == GivenTo(type, members, n)
           put(s) == UNION {Fills(type, members, i, s) : i \in 1..n}
<1>1. /\ \A i \in 1..n : w[i] \in Range(Fields[type]) /\ ~Omitted(w[i], m)
      /\ \A f \in Range(Fields[type]) : Omitted(f, m) \/ \E i \in 1..n : w[i] = f
  <2> DEFINE F == Fields[type]
  <2>1. Chosen(type, m, w, Len(F)) /\ Len(w) = n
    BY WrittenFields DEF IsWriting
  <2>2. DOMAIN F = 1..Len(F)
    BY Tables DEF IsTable
  <2> HIDE DEF w, n
  <2>3. /\ \A e \in 1..Len(F) : F[e] \in Range(F)
        /\ \A f \in Range(F) : \E e \in 1..Len(F) : F[e] = f
    BY <2>2 DEF Range
  <2>4. /\ \A i \in 1..n : \E e \in 1..Len(F) : w[i] = F[e] /\ ~Omitted(F[e], m)
        /\ \A e \in 1..Len(F) : Omitted(F[e], m) \/ \E i \in 1..n : w[i] = F[e]
    BY <2>1 DEF Chosen
  <2> HIDE DEF F
  <2>5. /\ \A i \in 1..n : w[i] \in Range(F) /\ ~Omitted(w[i], m)
        /\ \A f \in Range(F) : Omitted(f, m) \/ \E i \in 1..n : w[i] = f
    BY <2>3, <2>4
  <2> QED
    BY <2>5 DEF F
<1>2. \A i \in 1..n : /\ w[i] \in FieldsNamed(type, members[i][1])
                      /\ ~IsNull(members[i][2])
                      /\ Value(w[i], type, members[i][2]) = {FieldValue(w[i], m)}
  BY DEF IsWriting
<1>3. got = [s \in {t \in Slots(type) : put(t) # {}} |-> CHOOSE x \in put(s) : TRUE]
  BY DEF GivenTo, Given, Put, Fills
<1>4. IsObject(type, members) /\ n \in Nat
  BY DEF IsWriting, IsObject
<1> HIDE DEF w, n, got
<1>5. ASSUME NEW i \in 1..n, NEW s
      PROVE  Fills(type, members, i, s) = IF s = w[i].slot THEN {m[s]} ELSE {}
  <2>1. Fills(type, members, i, s) =
            IF s = w[i].slot /\ ~IsNull(members[i][2])
            THEN {SlotValue(w[i], v) : v \in Value(w[i], type, members[i][2])} ELSE {}
    BY <1>2, <1>4, FilledBy DEF n
  <2>2. {SlotValue(w[i], v) : v \in Value(w[i], type, members[i][2])} = {m[w[i].slot]}
    <3>1. SlotValue(w[i], FieldValue(w[i], m)) = m[w[i].slot]
      BY <1>1, WrittenContents
    <3> QED
      BY <1>2, <3>1
  <2> QED
    BY <1>2, <2>1, <2>2
<1>6. ASSUME NEW s \in Slots(type)
      PROVE  (IF s \in DOMAIN got THEN got[s] ELSE DefaultOf(type, s)) = m[s]
  <2>1. CASE s \in DOMAIN got
    <3>1. put(s) # {}
      BY <1>3, <2>1
    <3>2. \A x \in put(s) : x = m[s]
      BY <1>5
    <3>3. put(s) = {m[s]}
      BY <3>1, <3>2
    <3>4. (CHOOSE x \in put(s) : TRUE) = m[s]
      BY <3>3
    <3> QED
      BY <1>3, <2>1, <3>4
  <2>2. CASE s \notin DOMAIN got
    <3>1. put(s) = {}
      BY <1>3, <2>2
    <3>2. \A i \in 1..n : s # w[i].slot
      BY <1>5, <3>1
    <3>3. \A f \in Range(Fields[type]) : f.slot = s => Omitted(f, m)
      BY <1>1, <3>2
    <3>4. m[s] = DefaultOf(type, s)
      BY <3>3, OmittedSlot
    <3> QED
      BY <2>2, <3>4
  <2> QED
    BY <2>1, <2>2
<1>7. Filled(type, got) = [s \in Slots(type) |-> m[s]]
  BY <1>6 DEF Filled
<1>8. m = [s \in Slots(type) |-> m[s]]
  <2>1. IsStruct(type, Fields[type], m) /\ IsTable(type, Fields[type])
    BY Structs, Tables
  <2>2. Slots(type) = {Fields[type][i].slot : i \in 1..Len(Fields[type])}
    BY <2>1 DEF Slots, IsTable
  <2> QED
    BY <2>1, <2>2 DEF IsStruct
<1> QED
  BY <1>7, <1>8 DEF got, n

LEMMA MessageIsRead ==
    ASSUME NEW type \in MessageType, \A u \in NestedTypes(type) : ReadBack(u)
    PROVE  ReadBack(type)
<1> SUFFICES ASSUME NEW m \in Struct[type], NEW json \in Writings[type][m]
             PROVE  Reads(type, m, json)
  BY DEF ReadBack
<1> DEFINE w         == Written(type, m)
           n         == Len(w)
           member(f) == {<<f.camel, j>> : j \in JsonOf(f, FieldValue(f, m), InnerWritings(type))}
           sets      == [i \in DOMAIN w |-> member(w[i])]
           inner     == JsonValues[Level(type) - 1]
<1>1. /\ IsSequence(w) /\ n \in Nat /\ DOMAIN w = 1..n
      /\ \A i \in 1..n : w[i] \in Range(Fields[type]) /\ ~Omitted(w[i], m)
  <2>1. Chosen(type, m, w, Len(Fields[type]))
    BY WrittenFields
  <2>2. DOMAIN Fields[type] = 1..Len(Fields[type])
    BY Tables DEF IsTable
  <2>3. IsSequence(w) /\ n \in Nat /\ DOMAIN w = 1..n
    BY <2>1, SequenceType DEF Chosen
  <2> HIDE DEF w
  <2> QED
    BY <2>1, <2>2, <2>3 DEF Chosen, Range
<1>2. json \in {Obj(s) : s \in Each(sets)}
  <2>1. Writings[type][m] = ObjectsFor(type, m, InnerWritings(type))
    BY WritingsEquation DEF InnerWritings
  <2> QED
    BY <2>1 DEF ObjectsFor
<1> HIDE DEF w, n, sets
<1>3. PICK members \in Each(sets) : json = <<"obj", members>>
  BY <1>2 DEF Obj
<1>4. DOMAIN sets = 1..n /\ \A i \in 1..n : sets[i] = member(w[i])
  BY <1>1 DEF sets
<1>5. members = [i \in 1..n |-> members[i]] /\ \A i \in 1..n : members[i] \in member(w[i])
  <2>1. members = [i \in DOMAIN sets |-> members[i]]
        /\ \A i \in DOMAIN sets : members[i] \in sets[i]
    BY EachFacts
  <2> QED
    BY <1>4, <2>1
<1>6. \A i \in 1..n :
          /\ members[i] = <<w[i].camel, members[i][2]>>
          /\ members[i][2] \in JsonOf(w[i], FieldValue(w[i], m), InnerWritings(type))
  BY <1>5
<1>7. \A i \in 1..n : FieldReads(type, w[i], FieldValue(w[i], m), members[i][2])
  <2> SUFFICES ASSUME NEW i \in 1..n
               PROVE  FieldReads(type, w[i], FieldValue(w[i], m), members[i][2])
    OBVIOUS
  <2>1. FieldValue(w[i], m) \in Contents(w[i])
    BY <1>1, WrittenContents
  <2> QED
    BY <1>1, <1>6, <2>1, FieldIsRead
<1>8. \A i \in 1..n : w[i].camel \in Text /\ w[i] \in FieldsNamed(type, members[i][1])
  <2>1. \A i \in 1..n : w[i].camel \in Text
    BY <1>1, TextAssumption
  <2>2. \A i \in 1..n : members[i][1] = w[i].camel
    BY <1>6
  <2> QED
    BY <1>1, <2>1, <2>2 DEF FieldsNamed
<1>9. \A i \in 1..n : members[i] \in Text \X inner
  <2> SUFFICES ASSUME NEW i \in 1..n PROVE members[i] \in Text \X inner
    OBVIOUS
  <2>1. members[i][2] \in inner
    BY <1>7 DEF FieldReads
  <2>2. w[i].camel \in Text /\ members[i] = <<w[i].camel, members[i][2]>>
    BY <1>6, <1>8
  <2> HIDE DEF inner
  <2> QED
    BY <2>1, <2>2
<1>10. members \in Seq(Text \X inner) /\ Len(members) = n
  <2> DEFINE pairs == Text \X inner
  <2>1. \A i \in 1..n : members[i] \in pairs
    BY <1>9
  <2> HIDE DEF pairs
  <2>2. members \in Seq(pairs) /\ Len(members) = n
    BY <1>1, <1>5, <2>1
  <2> QED
    BY <2>2 DEF pairs
<1>11. json \in JsonValues[Level(type)]
  <2>1. Level(type) \in 1..MaxNesting
    BY Levels
  <2>2. JsonValues[Level(type)] = Scalars \cup ({"arr"} \X Seq(inner))
                                          \cup ({"obj"} \X Seq(Text \X inner))
    BY <2>1, JsonValuesEquation
  <2> DEFINE objects == Seq(Text \X inner)
  <2>3. members \in objects
    BY <1>10
  <2> HIDE DEF objects
  <2> QED
    BY <1>3, <2>2, <2>3 DEF objects
<1>12. JsonValues[Level(type)] \subseteq Json /\ inner \subseteq Json
  <2>1. MaxNesting \in 0..MaxNesting /\ Level(type) \in 0..MaxNesting
        /\ Level(type) - 1 \in 0..MaxNesting
    BY Levels, MaxNestingAssumption
  <2> QED
    BY <2>1, JsonValuesGrow DEF Json
<1>13. IsObject(type, members)
  <2> DEFINE small == Text \X inner
             large == Text \X Json
  <2>1. small \subseteq large
    BY <1>12
  <2>2. members \in Seq(small)
    BY <1>10
  <2> HIDE DEF small, large
  <2>3. members \in Seq(large)
    BY <2>1, <2>2, SeqMonotonic
  <2> QED
    BY <2>3 DEF IsObject, large
<1>14. IsWriting(type, m, members)
  BY <1>7, <1>8, <1>10, <1>13 DEF IsWriting, FieldReads, w, n
<1>15. ObjectMeanings(type, json, NestedMeanings(type)) = {m}
  <2>1. CleanTo(type, members, Len(members))
    BY <1>14, WritingIsClean
  <2>2. Filled(type, GivenTo(type, members, Len(members))) = m
    BY <1>14, WritingMeans
  <2>3. json[1] = "obj" /\ json[2] = members
    BY <1>3
  <2> QED
    BY <2>1, <2>2, <2>3 DEF ObjectMeanings, CleanTo, GivenTo
<1>16. Meanings[type][json] = {m}
  BY <1>11, <1>12, <1>15, MeaningOf
<1>17. json[1] = "obj"
  BY <1>3
<1> QED
  BY <1>11, <1>16, <1>17 DEF Reads

(* For every message of every type that can be written, what it is written *)
(* as has one meaning, that message.                                       *)
THEOREM EveryMessageIsRead ==
    \A type \in MessageType : ReadBack(type)
<1> DEFINE X == {n \in Nat : \A t \in MessageType : Height[t] < n => ReadBack(t)}
<1>1. 0 \in X
  BY Heights
<1>2. ASSUME NEW n \in Nat, n \in X PROVE n + 1 \in X
  <2> SUFFICES ASSUME NEW t \in MessageType, Height[t] < n + 1 PROVE ReadBack(t)
    OBVIOUS
  <2>1. \A u \in NestedTypes(t) : u \in MessageType /\ Height[u] < n
    <3>1. \A u \in MessageType : Height[u] \in Nat
      BY Heights
    <3> QED
      BY <3>1, NestedLower
  <2>2. \A u \in NestedTypes(t) : ReadBack(u)
    BY <1>2, <2>1
  <2> QED
    BY <2>2, MessageIsRead
<1>3. \A n \in Nat : n \in X
  <2> HIDE DEF X
  <2> QED
    BY <1>1, <1>2, SetInduction
<1>4. \A t \in MessageType : Height[t] < 6
  BY Heights
<1> QED
  BY <1>3, <1>4

-----------------------------------------------------------------------------
(* The invariant.                                                          *)

LEMMA UnderWay ==
    ASSUME ReaderInvariant, stack # <<>>
    PROVE  /\ doc # None /\ DocumentOK(doc) /\ StackOK(doc, stack)
           /\ outcome = None
           /\ Top = LastOf(stack) /\ Under = WithoutLast(stack)
           /\ FrameOK(Top)
<1>1. doc # None /\ DocumentOK(doc) /\ StackOK(doc, stack) /\ outcome = None
  BY DEF ReaderInvariant, ReadsMeaning
<1>2. Top = LastOf(stack) /\ Under = WithoutLast(stack)
  BY DEF Top, Under, LastOf, WithoutLast
<1> QED
  BY <1>1, <1>2, StackLast

LEMMA NewMap ==
    ASSUME NEW type \in MessageType, NEW json \in Json, json[1] = "obj"
    PROVE  FrameOK(MapFrame(type, json[2])) /\ json = <<"obj", json[2]>>
<1> DEFINE frame == MapFrame(type, json[2])
<1>1. json = <<"obj", json[2]>> /\ json[2] \in Seq(Text \X Json)
  BY JsonInside
<1>2. frame = [type |-> type, list |-> FALSE, items |-> json[2], done |-> 0, got |-> <<>>]
  BY DEF MapFrame
<1>3. IsObject(type, json[2]) /\ 0 \in 0..Len(json[2])
  BY <1>1 DEF IsObject
<1>4. CleanTo(type, json[2], 0)
  BY DEF CleanTo, Clean
<1>5. GivenTo(type, json[2], 0) = <<>>
  <2>1. \A s : Put(type, json[2], 0, s, NestedMeanings(type)) = {}
    BY DEF Put
  <2>2. DOMAIN GivenTo(type, json[2], 0) = {}
    BY <2>1 DEF GivenTo, Given
  <2>3. GivenTo(type, json[2], 0) = [s \in {} |-> GivenTo(type, json[2], 0)[s]]
    BY <2>2 DEF GivenTo, Given
  <2> QED
    BY <2>3
<1> HIDE DEF frame
<1>6. MapOK(frame)
  BY <1>1, <1>2, <1>3, <1>4, <1>5 DEF MapOK, CleanTo, GivenTo, Obj
<1>7. FrameOK(frame)
  BY <1>2, <1>3, <1>6 DEF FrameOK
<1> QED
  BY <1>1, <1>7 DEF frame

LEMMA NewList ==
    ASSUME NEW type \in MessageType, NEW json \in Json, json[1] = "arr"
    PROVE  FrameOK(ListFrame(type, json[2])) /\ json = <<"arr", json[2]>>
<1> DEFINE frame == ListFrame(type, json[2])
<1>1. json = <<"arr", json[2]>> /\ json[2] \in Seq(Json)
  BY JsonInside
<1>2. frame = [type |-> type, list |-> TRUE, items |-> json[2], done |-> 0, got |-> <<>>]
  BY DEF ListFrame
<1>3. 0 \in 0..Len(json[2])
  BY <1>1
<1>4. IsSequence(<<>>) /\ Len(<<>>) = 0
  BY EmptySequence
<1>5. ListOK(frame)
  <2> HIDE DEF frame
  <2> QED
    BY <1>1, <1>2, <1>4 DEF ListOK, IsSequence
<1> HIDE DEF frame
<1>6. FrameOK(frame)
  BY <1>2, <1>3, <1>5 DEF FrameOK
<1> QED
  BY <1>1, <1>6 DEF frame

LEMMA EmptyStack ==
    ASSUME NEW d
    PROVE  StackOK(d, <<>>)
<1>1. Len(<<>>) = 0 /\ 1..0 = {}
  OBVIOUS
<1> QED
  BY <1>1, EmptySequence DEF StackOK, IsSequence, Obj

LEMMA OpenKeeps ==
    ASSUME NEW d, d # None, DocumentOK(d), Open(d)
    PROVE  ReaderInvariant'
<1>1. d.type \in MessageType /\ d.json \in Json
  BY DEF DocumentOK
<1>2. CASE d.json[1] = "obj"
  <2> DEFINE frame == MapFrame(d.type, d.json[2])
  <2>1. FrameOK(frame) /\ d.json = <<"obj", d.json[2]>>
    BY <1>1, <1>2, NewMap
  <2>2. frame.type = d.type /\ ~frame.list /\ frame.items = d.json[2]
    BY DEF MapFrame
  <2>3. doc' = d /\ stack' = <<frame>> /\ outcome' = None
    BY <1>2 DEF Open
  <2> HIDE DEF frame
  <2>4. StackOK(d, Append(<<>>, frame))
    BY <2>1, <2>2, EmptyStack, StackPush
  <2>5. Append(<<>>, frame) = <<frame>>
    OBVIOUS
  <2> QED
    BY <2>3, <2>4, <2>5 DEF ReaderInvariant, ReadsMeaning
<1>3. CASE d.json[1] # "obj"
  <2>1. doc' = d /\ stack' = <<>> /\ outcome' = <<"err">>
    BY <1>3 DEF Open
  <2>2. Meanings[d.type][d.json] = {}
    BY <1>1, <1>3, MeaningOf
  <2>3. Answers(d, <<"err">>)
    BY <2>2 DEF Answers
  <2> QED
    BY <2>1, <2>3, EmptyStack DEF ReaderInvariant, ReadsMeaning
<1> QED
  BY <1>2, <1>3

(* An error of the call on top. *)
LEMMA FailKeeps ==
    ASSUME ReaderInvariant, stack # <<>>, Results(Top) = {}, Fail
    PROVE  ReaderInvariant'
<1>1. doc # None /\ DocumentOK(doc) /\ StackOK(doc, stack) /\ Top = LastOf(stack)
  BY UnderWay
<1>2. Meanings[doc.type][doc.json] = {}
  BY <1>1, NoResult
<1>3. doc' = doc /\ stack' = <<>> /\ outcome' = <<"err">>
  BY DEF Fail
<1>4. Answers(doc, <<"err">>)
  BY <1>2 DEF Answers
<1> QED
  BY <1>1, <1>3, <1>4, EmptyStack DEF ReaderInvariant, ReadsMeaning

(* The call on top calls another, or goes on. *)
LEMMA ContinueKeeps ==
    ASSUME ReaderInvariant, stack # <<>>, NEW s, StackOK(doc, s), Continue(s)
    PROVE  ReaderInvariant'
<1>1. doc # None /\ DocumentOK(doc) /\ outcome = None
  BY UnderWay
<1>2. doc' = doc /\ stack' = s /\ outcome' = outcome
  BY DEF Continue
<1> QED
  BY <1>1, <1>2 DEF ReaderInvariant, ReadsMeaning

LEMMA PushKeeps ==
    ASSUME ReaderInvariant, stack # <<>>, NEW frame, FrameOK(frame), Called(Top, frame),
           Continue(Append(stack, frame))
    PROVE  ReaderInvariant'
<1>1. StackOK(doc, stack) /\ Top = LastOf(stack)
  BY UnderWay
<1>2. StackOK(doc, Append(stack, frame))
  BY <1>1, StackPush
<1> QED
  BY <1>2, ContinueKeeps

LEMMA ReplaceKeeps ==
    ASSUME ReaderInvariant, stack # <<>>, NEW next, Follows(Top, next),
           Continue(Append(Under, next))
    PROVE  ReaderInvariant'
<1>1. StackOK(doc, stack) /\ Top = LastOf(stack) /\ Under = WithoutLast(stack)
  BY UnderWay
<1>2. StackOK(doc, Append(WithoutLast(stack), next))
  BY <1>1, StackReplace
<1> QED
  BY <1>1, <1>2, ContinueKeeps

(* The call on top returns. *)
LEMMA DeliverKeeps ==
    ASSUME ReaderInvariant, stack # <<>>, NEW value \in Results(Top), Deliver(value)
    PROVE  ReaderInvariant'
<1>1. doc # None /\ DocumentOK(doc) /\ StackOK(doc, stack) /\ outcome = None
      /\ Top = LastOf(stack) /\ Under = WithoutLast(stack) /\ FrameOK(Top)
  BY UnderWay
<1>2. CASE Under = <<>>
  <2>1. doc' = doc /\ stack' = <<>> /\ outcome' = <<"ok", value>>
    BY <1>2 DEF Deliver
  <2>2. ~Top.list /\ Top.type = doc.type /\ doc.json = <<"obj", Top.items>>
    BY <1>1, <1>2, StackLast
  <2>3. Results(Top) = Meanings[doc.type][doc.json]
    BY <2>2 DEF Results
  <2>4. Answers(doc, <<"ok", value>>)
    BY <2>3 DEF Answers
  <2> QED
    BY <1>1, <2>1, <2>4, EmptyStack DEF ReaderInvariant, ReadsMeaning
<1>3. CASE Under # <<>>
  <2> DEFINE below == LastOf(Under)
             rest  == WithoutLast(Under)
  <2>1. StackOK(doc, Under) /\ FrameOK(below) /\ Called(below, Top)
    BY <1>1, <1>3, StackPop, StackLast
  <2>2. ~AtEnd(below)
    BY <2>1 DEF Called, Obj, Arr
  <2>3. below = Under[Len(Under)] /\ rest = SubSeq(Under, 1, Len(Under) - 1)
    BY DEF LastOf, WithoutLast
  <2>4. ASSUME NEW next, Follows(below, next), Continue(Append(rest, next))
        PROVE  ReaderInvariant'
    <3>1. StackOK(doc, Append(rest, next))
      BY <1>3, <2>1, <2>4, StackReplace
    <3> QED
      BY <2>4, <3>1, ContinueKeeps
  <2> HIDE DEF below, rest
  <2>5. CASE below.list
    <3>1. Continue(Append(rest, [below EXCEPT !.done = @ + 1, !.got = Append(@, value)]))
      BY <1>3, <2>3, <2>5 DEF Deliver
    <3>2. value \in Meanings[below.type][Item(below)]
      BY <1>1, <2>1, <2>5, CalledForItem
    <3>3. Follows(below, [below EXCEPT !.done = @ + 1, !.got = Append(@, value)])
      BY <2>1, <2>2, <2>5, <3>2, ListGoesOn
    <3> QED
      BY <2>4, <3>1, <3>3
  <2>6. CASE ~below.list
    <3>1. PICK f \in FieldsNamed(below.type, Item(below)[1]) :
              Continue(Append(rest, Stored(below, f, value)))
      BY <1>3, <2>3, <2>6 DEF Deliver
    <3>2. /\ value \in Value(f, below.type, Item(below)[2])
          /\ ~IsNull(Item(below)[2]) /\ Free(below, f)
      BY <1>1, <2>1, <2>6, CalledForMember
    <3>3. Follows(below, Stored(below, f, value))
      BY <2>1, <2>2, <2>6, <3>2, MapGoesOn
    <3> QED
      BY <2>4, <3>1, <3>3
  <2> QED
    BY <2>5, <2>6
<1> QED
  BY <1>2, <1>3

-----------------------------------------------------------------------------
(* The actions.                                                            *)

LEMMA ReadKeeps ==
    ASSUME ReaderInvariant, Read
    PROVE  ReaderInvariant'
<1>1. PICK d \in Documents : Open(d)
  BY DEF Read
<1>2. d # None /\ DocumentOK(d)
  BY DocumentsAssumption DEF DocumentOK
<1> QED
  BY <1>1, <1>2, OpenKeeps

LEMMA WriteKeeps ==
    ASSUME ReaderInvariant, Write
    PROVE  ReaderInvariant'
<1>1. PICK w \in Messages :
          \/ \E json \in Writings[w.type][w.message] : Open(DocumentOf(w, json))
          \/ Writings[w.type][w.message] = {} /\ Open(DocumentOf(w, Null))
  BY DEF Write
<1>2. w.type \in MessageType /\ w.message \in Struct[w.type]
  BY MessagesAssumption
<1>3. \A json : /\ DocumentOf(w, json).type = w.type
                /\ DocumentOf(w, json).json = json
                /\ DocumentOf(w, json).sent = w.message
  BY DEF DocumentOf
<1>4. JsonValues[Level(w.type)] \subseteq Json /\ Null \in Json
  <2>1. MaxNesting \in 0..MaxNesting /\ Level(w.type) \in 0..MaxNesting
        /\ 0 \in 0..MaxNesting
    BY <1>2, Levels, MaxNestingAssumption
  <2>2. Null \in JsonValues[0]
    BY JsonValuesEquation DEF Null, Scalars
  <2> QED
    BY <2>1, <2>2, JsonValuesGrow DEF Json
<1>5. CASE \E json \in Writings[w.type][w.message] : Open(DocumentOf(w, json))
  <2>1. PICK json \in Writings[w.type][w.message] : Open(DocumentOf(w, json))
    BY <1>5
  <2> DEFINE d == DocumentOf(w, json)
  <2>2. json \in JsonValues[Level(w.type)]
    BY <1>2, EveryMessageIsRead DEF ReadBack, Reads
  <2>3. d # None
    BY NoneAssumption
  <2> HIDE DEF d
  <2>4. d.type = w.type /\ d.json = json /\ d.sent = w.message
    BY <1>3 DEF d
  <2>5. DocumentOK(d)
    BY <1>2, <1>4, <2>1, <2>2, <2>4 DEF DocumentOK
  <2> QED
    BY <2>1, <2>3, <2>5, OpenKeeps DEF d
<1>6. CASE Writings[w.type][w.message] = {} /\ Open(DocumentOf(w, Null))
  <2> DEFINE d == DocumentOf(w, Null)
  <2>1. d # None
    BY NoneAssumption
  <2> HIDE DEF d
  <2>2. d.type = w.type /\ d.json = Null /\ d.sent = w.message
    BY <1>3 DEF d
  <2>3. DocumentOK(d)
    BY <1>2, <1>4, <1>6, <2>2 DEF DocumentOK
  <2> QED
    BY <1>6, <2>1, <2>3, OpenKeeps DEF d
<1> QED
  BY <1>1, <1>5, <1>6

(* A member that names no field, or one whose slot is filled or whose      *)
(* value is refused.                                                       *)
LEMMA MemberRefused ==
    ASSUME ReaderInvariant, stack # <<>>, ~AtEnd(Top), ~Top.list, Fail,
           \A f \in FieldsNamed(Top.type, Item(Top)[1]) :
               Free(Top, f) => Value(f, Top.type, Item(Top)[2]) = {}
    PROVE  ReaderInvariant'
<1>1. FrameOK(Top)
  BY UnderWay
<1>2. ~ItemFits(Top)
  BY DEF ItemFits, MemberFits, Free
<1>3. Results(Top) = {}
  BY <1>1, <1>2, NoFitNoResult
<1> QED
  BY <1>3, FailKeeps

LEMMA ReadMemberKeeps ==
    ASSUME ReaderInvariant, ReadMember
    PROVE  ReaderInvariant'
<1> DEFINE json  == Item(Top)[2]
           known == FieldsNamed(Top.type, Item(Top)[1])
<1>1. stack # <<>> /\ ~Top.list /\ ~AtEnd(Top)
  BY DEF ReadMember, Reading
<1>2. FrameOK(Top) /\ Top.type \in MessageType /\ json \in Json
  BY <1>1, UnderWay, ItemType DEF FrameOK
<1>3. \/ known = {} /\ Fail
      \/ \E f \in known :
             IF Free(Top, f)
             THEN CASE f.kind = "message" -> ReadMessage(f, json)
                    [] f.kind = "list"    -> ReadList(f, json)
                    [] OTHER              -> ReadScalar(f, json)
             ELSE Fail
  BY DEF ReadMember
<1> HIDE DEF json, known
<1>4. CASE known = {} /\ Fail
  BY <1>1, <1>4, MemberRefused DEF known
<1>5. ASSUME NEW f \in known, ~Free(Top, f), Fail
      PROVE  ReaderInvariant'
  <2>1. \A g \in known : g = f
    BY <1>2, NameTold DEF known
  <2> QED
    BY <1>1, <1>5, <2>1, MemberRefused DEF known
<1>6. ASSUME NEW f \in known, Value(f, Top.type, json) = {}, Fail
      PROVE  ReaderInvariant'
  <2>1. \A g \in known : g = f
    BY <1>2, NameTold DEF known
  <2> QED
    BY <1>1, <1>6, <2>1, MemberRefused DEF known, json
<1>7. ASSUME NEW f \in known, Free(Top, f), f.kind = "message", ReadMessage(f, json)
      PROVE  ReaderInvariant'
  <2>1. f \in Range(Fields[Top.type]) /\ f.of \in MessageType
        /\ NestedMeanings(Top.type)[f.of] = Meanings[f.of]
    BY <1>2, <1>7, InnerMeaning DEF known, FieldsNamed
  <2>2. Value(f, Top.type, json) = IF IsNull(json) THEN {None} ELSE Meanings[f.of][json]
    BY <1>7, <2>1 DEF Value, ValuesOf
  <2>3. CASE IsNull(json)
    <3>1. Continue(Append(Under, Skipped(Top)))
      BY <1>7, <2>3 DEF ReadMessage, IsNull
    <3>2. Follows(Top, Skipped(Top))
      BY <1>1, <1>2, <1>7, <2>2, <2>3, MapGoesOn DEF known, json
    <3> QED
      BY <1>1, <3>1, <3>2, ReplaceKeeps
  <2>4. CASE ~IsNull(json) /\ json[1] = "obj"
    <3> DEFINE frame == MapFrame(f.of, json[2])
    <3>1. Continue(Append(stack, frame))
      BY <1>7, <2>4 DEF ReadMessage
    <3>2. FrameOK(frame) /\ json = <<"obj", json[2]>>
      BY <1>2, <2>1, <2>4, NewMap
    <3>3. frame.type = f.of /\ ~frame.list /\ frame.items = json[2]
      BY DEF MapFrame
    <3> HIDE DEF frame
    <3>4. Called(Top, frame)
      BY <1>1, <1>7, <3>2, <3>3 DEF Called, known, json, Obj, Arr
    <3> QED
      BY <1>1, <3>1, <3>2, <3>4, PushKeeps
  <2>5. CASE ~IsNull(json) /\ json[1] # "obj"
    <3>1. Fail
      BY <1>7, <2>5 DEF ReadMessage
    <3>2. Value(f, Top.type, json) = {}
      BY <1>2, <2>1, <2>2, <2>5, MeaningOf
    <3> QED
      BY <1>6, <1>7, <3>1, <3>2
  <2> QED
    BY <2>3, <2>4, <2>5
<1>8. ASSUME NEW f \in known, Free(Top, f), f.kind = "list", ReadList(f, json)
      PROVE  ReaderInvariant'
  <2>1. f \in Range(Fields[Top.type]) /\ f.of \in MessageType
    BY <1>2, <1>8, InnerMeaning DEF known, FieldsNamed
  <2>2. CASE json[1] = "arr"
    <3> DEFINE frame == ListFrame(f.of, json[2])
    <3>1. Continue(Append(stack, frame))
      BY <1>8, <2>2 DEF ReadList
    <3>2. FrameOK(frame) /\ json = <<"arr", json[2]>>
      BY <1>2, <2>1, <2>2, NewList
    <3>3. frame.type = f.of /\ frame.list /\ frame.items = json[2]
      BY DEF ListFrame
    <3> HIDE DEF frame
    <3>4. Called(Top, frame)
      BY <1>1, <1>8, <3>2, <3>3 DEF Called, known, json, Obj, Arr
    <3> QED
      BY <1>1, <3>1, <3>2, <3>4, PushKeeps
  <2>3. CASE json[1] # "arr"
    <3>1. Fail
      BY <1>8, <2>3 DEF ReadList
    <3>2. Value(f, Top.type, json) = {}
      BY <1>8, <2>3 DEF Value, ValuesOf
    <3> QED
      BY <1>6, <1>8, <3>1, <3>2
  <2> QED
    BY <2>2, <2>3
<1>9. ASSUME NEW f \in known, Free(Top, f), f.kind \notin {"message", "list"},
             ReadScalar(f, json)
      PROVE  ReaderInvariant'
  <2>1. f \in Range(Fields[Top.type])
    BY DEF known, FieldsNamed
  <2>2. Value(f, Top.type, json) = ScalarsOf(f, json)
    BY <1>9 DEF Value, ValuesOf
  <2>3. CASE ScalarsOf(f, json) = {} /\ Fail
    BY <1>6, <1>9, <2>2, <2>3
  <2>4. CASE \E v \in ScalarsOf(f, json) : Continue(Append(Under, Stored(Top, f, v)))
    <3>1. PICK v \in ScalarsOf(f, json) : Continue(Append(Under, Stored(Top, f, v)))
      BY <2>4
    <3>2. ~IsNull(json)
      BY <1>2, <1>9, <2>1, <3>1, ScalarsAtMostOne
    <3>3. Follows(Top, Stored(Top, f, v))
      BY <1>1, <1>2, <1>9, <2>2, <3>1, <3>2, MapGoesOn DEF known, json
    <3> QED
      BY <1>1, <3>1, <3>3, ReplaceKeeps
  <2> QED
    BY <1>9, <2>3, <2>4 DEF ReadScalar
<1>10. CASE \E f \in known :
             IF Free(Top, f)
             THEN CASE f.kind = "message" -> ReadMessage(f, json)
                    [] f.kind = "list"    -> ReadList(f, json)
                    [] OTHER              -> ReadScalar(f, json)
             ELSE Fail
  <2>1. PICK f \in known :
             IF Free(Top, f)
             THEN CASE f.kind = "message" -> ReadMessage(f, json)
                    [] f.kind = "list"    -> ReadList(f, json)
                    [] OTHER              -> ReadScalar(f, json)
             ELSE Fail
    BY <1>10
  <2>2. \/ ~Free(Top, f) /\ Fail
        \/ Free(Top, f) /\ f.kind = "message" /\ ReadMessage(f, json)
        \/ Free(Top, f) /\ f.kind = "list" /\ ReadList(f, json)
        \/ Free(Top, f) /\ f.kind \notin {"message", "list"} /\ ReadScalar(f, json)
    BY <2>1
  <2> QED
    BY <1>5, <1>7, <1>8, <1>9, <2>2
<1> QED
  BY <1>3, <1>4, <1>10

LEMMA ReadItemKeeps ==
    ASSUME ReaderInvariant, ReadItem
    PROVE  ReaderInvariant'
<1>1. stack # <<>> /\ Top.list /\ ~AtEnd(Top)
  BY DEF ReadItem, Reading
<1>2. FrameOK(Top) /\ Top.type \in MessageType /\ Item(Top) \in Json
  BY <1>1, UnderWay, ItemType DEF FrameOK
<1>3. CASE Item(Top)[1] = "obj"
  <2> DEFINE frame == MapFrame(Top.type, Item(Top)[2])
  <2>1. Continue(Append(stack, frame))
    BY <1>3 DEF ReadItem
  <2>2. FrameOK(frame) /\ Item(Top) = <<"obj", Item(Top)[2]>>
    BY <1>2, <1>3, NewMap
  <2>3. frame.type = Top.type /\ ~frame.list /\ frame.items = Item(Top)[2]
    BY DEF MapFrame
  <2> HIDE DEF frame
  <2>4. Called(Top, frame)
    BY <1>1, <2>2, <2>3 DEF Called, Obj, Arr
  <2> QED
    BY <1>1, <2>1, <2>2, <2>4, PushKeeps
<1>4. CASE Item(Top)[1] # "obj"
  <2>1. Fail
    BY <1>4 DEF ReadItem
  <2>2. ~ItemFits(Top)
    BY <1>1, <1>2, <1>4, MeaningOf DEF ItemFits
  <2>3. Results(Top) = {}
    BY <1>1, <1>2, <2>2, NoFitNoResult
  <2> QED
    BY <1>1, <2>1, <2>3, FailKeeps
<1> QED
  BY <1>3, <1>4

LEMMA EndKeeps ==
    ASSUME ReaderInvariant, EndMap \/ EndList
    PROVE  ReaderInvariant'
<1>1. stack # <<>> /\ AtEnd(Top)
  BY DEF EndMap, EndList, Reading
<1>2. FrameOK(Top)
  BY <1>1, UnderWay
<1>3. CASE EndMap
  <2>1. ~Top.list /\ Deliver(Filled(Top.type, Top.got))
    BY <1>3 DEF EndMap, Reading
  <2>2. Filled(Top.type, Top.got) \in Results(Top)
    BY <1>1, <1>2, <2>1, MapEnds
  <2> QED
    BY <1>1, <2>1, <2>2, DeliverKeeps
<1>4. CASE EndList
  <2>1. Top.list /\ Deliver(Top.got)
    BY <1>4 DEF EndList, Reading
  <2>2. Top.got \in Results(Top)
    BY <1>1, <1>2, <2>1, ListEnds
  <2> QED
    BY <1>1, <2>1, <2>2, DeliverKeeps
<1> QED
  BY <1>3, <1>4

LEMMA ReaderInvariantStep ==
    ReaderInvariant /\ [Next]_vars => ReaderInvariant'
<1> SUFFICES ASSUME ReaderInvariant, [Next]_vars PROVE ReaderInvariant'
  OBVIOUS
<1>1. CASE Write
  BY <1>1, WriteKeeps
<1>2. CASE Read
  BY <1>2, ReadKeeps
<1>3. CASE ReadMember
  BY <1>3, ReadMemberKeeps
<1>4. CASE ReadItem
  BY <1>4, ReadItemKeeps
<1>5. CASE EndMap \/ EndList
  BY <1>5, EndKeeps
<1>6. CASE Return
  BY <1>6 DEF Return, ReaderInvariant, ReadsMeaning
<1>7. CASE UNCHANGED vars
  BY <1>7 DEF vars, ReaderInvariant, ReadsMeaning
<1> QED
  BY <1>1, <1>2, <1>3, <1>4, <1>5, <1>6, <1>7 DEF Next, Running

(* Through every turn of the loops, the calls of visit_map under way have  *)
(* read what their members mean, and what the call on top will return, if  *)
(* anything, decides the outcome.                                          *)
THEOREM ReaderInvariantHolds == Spec => []ReaderInvariant
<1>1. Init => ReaderInvariant
  BY DEF Init, ReaderInvariant, ReadsMeaning
<1> QED
  BY <1>1, ReaderInvariantStep, PTL DEF Spec

-----------------------------------------------------------------------------
(* The calls of visit_map under way are nested as the values they were     *)
(* made for are, for every document.                                       *)
THEOREM JsonTypeCorrect == Spec => []JsonTypeOK
<1>1. ASSUME ReaderInvariant PROVE JsonTypeOK
  <2>1. doc = None => stack = <<>> /\ outcome = None
    BY <1>1 DEF ReaderInvariant, ReadsMeaning
  <2>2. ASSUME stack # <<>>
        PROVE  /\ doc # None /\ outcome = None /\ ~stack[1].list
               /\ IsSequence(stack)
    BY <1>1, <2>2, UnderWay DEF StackOK, IsSequence, Obj
  <2>3. ASSUME NEW i \in DOMAIN stack
        PROVE  /\ stack[i].type \in MessageType
               /\ i > 1 => LET below == stack[i - 1]
                           IN  /\ ~AtEnd(below)
                               /\ IF below.list
                                  THEN ~stack[i].list /\ stack[i].type = below.type
                                  ELSE \E f \in FieldsNamed(below.type, Item(below)[1]) :
                                           /\ f.of = stack[i].type
                                           /\ Free(below, f)
    <3>1. stack # <<>>
      BY <2>3
    <3>2. IsSequence(stack) /\ i \in 1..Len(stack) /\ StackOK(doc, stack)
      BY <1>1, <2>2, <2>3, <3>1, SequenceType, UnderWay
    <3>3. FrameOK(stack[i]) /\ (i > 1 => Called(stack[i - 1], stack[i]))
      BY <3>2 DEF StackOK, IsSequence, Obj
    <3> QED
      BY <3>3 DEF FrameOK, Called, Obj, Arr
  <2> QED
    BY <2>1, <2>2, <2>3 DEF JsonTypeOK
<1> QED
  BY <1>1, ReaderInvariantHolds, PTL

(* A document is accepted exactly if it has a meaning, and is read as      *)
(* that: whatever the order of its members, the names they use and the     *)
(* depth it is nested to.                                                  *)
THEOREM MeaningIsRead == Spec => []ReadsMeaning
<1>1. ReaderInvariant => ReadsMeaning
  BY DEF ReaderInvariant, Answers, ReadsMeaning
<1> QED
  BY <1>1, ReaderInvariantHolds, PTL

(* Every message of every type is read back from its JSON as it was; one   *)
(* with a number outside its enum is refused by the writer.                *)
THEOREM MessagesRoundTrip == Spec => []JsonRoundTrip
<1>1. ASSUME ReaderInvariant PROVE JsonRoundTrip
  <2> SUFFICES ASSUME outcome # None, doc.sent # None
               PROVE  outcome = IF Writings[doc.type][doc.sent] # {}
                                THEN <<"ok", doc.sent>> ELSE <<"err">>
    BY DEF JsonRoundTrip
  <2>1. DocumentOK(doc) /\ Answers(doc, outcome)
    BY <1>1 DEF ReaderInvariant, ReadsMeaning
  <2>2. doc.type \in MessageType /\ doc.json \in Json /\ doc.sent \in Struct[doc.type]
    BY <2>1 DEF DocumentOK
  <2>3. CASE Writings[doc.type][doc.sent] # {}
    <3>1. doc.json \in Writings[doc.type][doc.sent]
      BY <2>1, <2>3 DEF DocumentOK
    <3>2. Meanings[doc.type][doc.json] = {doc.sent}
      BY <2>2, <3>1, EveryMessageIsRead DEF ReadBack, Reads
    <3> QED
      BY <2>1, <2>3, <3>2 DEF Answers
  <2>4. CASE Writings[doc.type][doc.sent] = {}
    <3>1. doc.json[1] = "null"
      BY <2>1, <2>4 DEF DocumentOK, Null
    <3>2. Meanings[doc.type][doc.json] = {}
      BY <2>2, <3>1, MeaningOf
    <3> QED
      BY <2>1, <2>4, <3>2 DEF Answers
  <2> QED
    BY <2>3, <2>4
<1> QED
  BY <1>1, ReaderInvariantHolds, PTL

=============================================================================
