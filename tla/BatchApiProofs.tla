--------------------------- MODULE BatchApiProofs ---------------------------
(***************************************************************************)
(* Proofs about batches.  First, that decompress undoes compress, for      *)
(* every batch of proofs.  Then, that the membership entry points confirm  *)
(* only what is in the tree or absent from it, that they confirm what the  *)
(* stores prove, and that compression changes no verdict, for every set of *)
(* proofs, queries and trees.                                              *)
(***************************************************************************)
EXTENDS BatchApi, TreeProofs

-----------------------------------------------------------------------------
(* compress and decompress: the inductive invariant.                       *)

LocalTypes ==
    /\ lookup \in Seq(InnerOps)
    /\ path \in Seq(Nat)
    /\ IsSequence(sides)
    /\ IsSequence(entries)

Control ==
    /\ pc \in {"idle", "compress", "compressed", "decompress", "decompressed"}
    /\ pc \in {"compress", "compressed"} => origin \in Proofs
    /\ pc = "compress" => source = origin
    /\ pc = "idle" => origin = None
    /\ origin # None => origin \in Proofs
    /\ ~Compressing => lookup = <<>> /\ registry = <<>> /\ path = <<>> /\ sides = <<>>
    /\ ~Compressing /\ ~Decompressing => entries = <<>>

(* What compress returns for full. *)
IsCompressionOf(packed, full) ==
    IF full.kind = "batch"
    THEN PackedBatch(packed, full) /\ SharedOnce(packed.lookup)
    ELSE packed = full

Returned ==
    /\ pc = "compressed" => IsCompressionOf(result, origin)
    /\ (pc = "decompress" /\ origin # None) => IsCompressionOf(source, origin)

(* The entries of the batch that are back already. *)
Restored ==
    (pc = "decompress" /\ origin # None /\ origin.kind = "batch") =>
        /\ Len(entries) <= Len(origin.entries)
        /\ \A i \in 1..Len(entries) : entries[i] = origin.entries[i]

CodecInvariant ==
    /\ LocalTypes
    /\ Control
    /\ LookupConsistent
    /\ Returned
    /\ Restored
    /\ RoundTrip

-----------------------------------------------------------------------------
(* The arguments of compress.                                              *)

LEMMA BatchType ==
    ASSUME NEW p \in Proofs, p.kind = "batch"
    PROVE  IsBatch(p)
BY ProofsAssumption DEF IsCommitmentProof, IsCompressed, IsEntry

LEMMA EntryType ==
    ASSUME NEW p \in Proofs, p.kind = "batch",
           NEW i \in Nat \ {0}, i <= Len(p.entries)
    PROVE  /\ p = Batch(p.entries)
           /\ IsSequence(p.entries)
           /\ p.entries[i] = WithSides(p.entries[i], p.entries[i].sides)
           /\ IsSequence(p.entries[i].sides)
<1>1. IsBatch(p)
  BY BatchType
<1>2. i \in 1..Len(p.entries)
  BY <1>1, SequenceType DEF IsBatch
<1> QED
  BY <1>1, <1>2 DEF IsBatch, IsEntry

LEMMA SideType ==
    ASSUME NEW p \in Proofs, p.kind = "batch",
           NEW i \in Nat \ {0}, i <= Len(p.entries),
           NEW j \in Nat \ {0}, j <= Len(p.entries[i].sides)
    PROVE  p.entries[i].sides[j] = None \/ IsProof(p.entries[i].sides[j], InnerOps)
<1>1. IsBatch(p)
  BY BatchType
<1>2. i \in 1..Len(p.entries)
  BY <1>1, SequenceType DEF IsBatch
<1>3. IsEntry(p.entries[i], InnerOps)
  BY <1>1, <1>2 DEF IsBatch
<1>4. j \in 1..Len(p.entries[i].sides)
  BY <1>3, SequenceType DEF IsEntry
<1> QED
  BY <1>3, <1>4 DEF IsEntry

-----------------------------------------------------------------------------
(* Indexes keep their meaning when the table grows.                        *)

LEMMA PathGrows ==
    ASSUME NEW table \in Seq(InnerOps), NEW op \in InnerOps,
           NEW packed \in Seq(Nat), NEW full, PackedPath(packed, full, table)
    PROVE  PackedPath(packed, full, Append(table, op))
BY DEF PackedPath

LEMMA SideGrows ==
    ASSUME NEW table \in Seq(InnerOps), NEW op \in InnerOps,
           NEW packed, NEW full, PackedSide(packed, full, table)
    PROVE  PackedSide(packed, full, Append(table, op))
<1>1. CASE full = None
  BY <1>1 DEF PackedSide
<1>2. CASE full # None
  BY <1>2, PathGrows DEF PackedSide
<1> QED
  BY <1>1, <1>2

LEMMA EntryGrows ==
    ASSUME NEW table \in Seq(InnerOps), NEW op \in InnerOps,
           NEW packed, NEW full, PackedEntry(packed, full, table)
    PROVE  PackedEntry(packed, full, Append(table, op))
BY SideGrows DEF PackedEntry

(* A path that is packed so far, and one more index.                       *)
LEMMA PathExtended ==
    ASSUME NEW table \in Seq(InnerOps), NEW packed \in Seq(Nat),
           NEW full \in Seq(InnerOps), PackedPath(packed, full, table),
           Len(packed) < Len(full), NEW k \in 0..(Len(table) - 1),
           table[k + 1] = full[Len(packed) + 1]
    PROVE  PackedPath(Append(packed, k), full, table)
<1> DEFINE longer == Append(packed, k)
<1>1. /\ Len(packed) \in Nat
      /\ Len(longer) = Len(packed) + 1
      /\ Len(longer) <= Len(full)
      /\ \A i \in 1..Len(packed) : longer[i] = packed[i]
      /\ longer[Len(packed) + 1] = k
  OBVIOUS
<1> HIDE DEF longer
<1> SUFFICES ASSUME NEW i \in 1..Len(longer)
             PROVE  /\ longer[i] \in 0..(Len(table) - 1)
                    /\ table[longer[i] + 1] = full[i]
  BY <1>1 DEF PackedPath, longer
<1>2. CASE i = Len(packed) + 1
  BY <1>1, <1>2
<1>3. CASE i # Len(packed) + 1
  <2>1. i \in 1..Len(packed)
    BY <1>1, <1>3
  <2> QED
    BY <1>1, <2>1 DEF PackedPath
<1> QED
  BY <1>2, <1>3

(* What Append does to a sequence of anything.                             *)
LEMMA AppendSequence ==
    ASSUME NEW s, NEW x, IsSequence(s)
    PROVE  /\ IsSequence(Append(s, x))
           /\ Len(Append(s, x)) = Len(s) + 1
           /\ \A i \in 1..Len(s) : Append(s, x)[i] = s[i]
           /\ Append(s, x)[Len(s) + 1] = x
           /\ \A i \in 1..Len(Append(s, x)) : i \in 1..Len(s) \/ i = Len(s) + 1
<1> DEFINE S == Range(s) \union {x}
<1>1. s \in Seq(S) /\ x \in S
  BY SeqMonotonic DEF IsSequence
<1> HIDE DEF S
<1>2. /\ Append(s, x) \in Seq(S)
      /\ Len(s) \in Nat
      /\ Len(Append(s, x)) = Len(s) + 1
      /\ \A i \in 1..Len(s) : Append(s, x)[i] = s[i]
      /\ Append(s, x)[Len(s) + 1] = x
  BY <1>1
<1>3. \A i \in 1..Len(Append(s, x)) : i \in 1..Len(s) \/ i = Len(s) + 1
  BY <1>2
<1> QED
  BY <1>2, <1>3, SequenceIntro

-----------------------------------------------------------------------------
(* The steps of compress_batch.                                            *)

LEMMA Current ==
    ASSUME CodecInvariant, InSide
    PROVE  /\ source \in Proofs
           /\ source = origin
           /\ pc = "compress"
           /\ source.kind = "batch"
           /\ Len(entries) \in Nat
           /\ Len(sides) \in Nat
           /\ Entry = WithSides(Entry, Entry.sides)
           /\ IsSequence(Entry.sides)
           /\ Side = None \/ IsProof(Side, InnerOps)
<1>1. /\ source \in Proofs
      /\ source = origin
      /\ pc = "compress"
      /\ source.kind = "batch"
      /\ Len(entries) < Len(source.entries)
      /\ Len(sides) < Len(Entry.sides)
  BY DEF CodecInvariant, Control, InSide, InEntry, Compressing
<1>2. Len(entries) \in Nat /\ Len(sides) \in Nat
  BY SequenceType DEF CodecInvariant, LocalTypes
<1>3. Len(source.entries) \in Nat
  BY <1>1, BatchType, SequenceType DEF IsBatch
<1>4. /\ Len(entries) + 1 \in Nat \ {0}
      /\ Len(entries) + 1 <= Len(source.entries)
  BY <1>1, <1>2, <1>3
<1>5. Entry = WithSides(Entry, Entry.sides) /\ IsSequence(Entry.sides)
  BY <1>1, <1>4, EntryType DEF Entry
<1>6. Len(Entry.sides) \in Nat
  BY <1>5, SequenceType
<1>7. /\ Len(sides) + 1 \in Nat \ {0}
      /\ Len(sides) + 1 <= Len(Entry.sides)
  BY <1>1, <1>2, <1>6
<1>8. Side = None \/ IsProof(Side, InnerOps)
  BY <1>1, <1>4, <1>7, SideType DEF Entry, Side
<1> QED
  BY <1>1, <1>2, <1>5, <1>8

(* The next operation gets an index that stands for it.                    *)
LEMMA OpIndexed ==
    ASSUME CodecInvariant, CompressOp
    PROVE  /\ lookup' \in Seq(InnerOps)
           /\ path' \in Seq(Nat)
           /\ RegistryMatches'
           /\ PackedPath(path', Side.path, lookup')
           /\ lookup' = lookup \/ \E op \in InnerOps : lookup' = Append(lookup, op)
<1> DEFINE op == Side.path[Len(path) + 1]
           x  == Encode(op)
<1>1. InSide /\ Side # None /\ Len(path) < Len(Side.path)
  BY DEF CompressOp
<1>2. IsProof(Side, InnerOps) /\ Compressing
  BY <1>1, Current DEF InSide, InEntry
<1>3. /\ lookup \in Seq(InnerOps)
      /\ path \in Seq(Nat)
      /\ Side.path \in Seq(InnerOps)
      /\ RegistryMatches
  BY <1>2 DEF CodecInvariant, LocalTypes, LookupConsistent, IsProof
<1>4. op \in InnerOps
  BY <1>1, <1>3
<1>5. PackedPath(path, Side.path, lookup)
  <2>1. CASE path = <<>>
    BY <1>3, <2>1 DEF PackedPath
  <2>2. CASE path # <<>>
    BY <1>2, <2>2 DEF CodecInvariant, LookupConsistent
  <2> QED
    BY <2>1, <2>2
<1>6. CASE x \in DOMAIN registry
  <2>1. /\ path' = Append(path, registry[x])
        /\ lookup' = lookup
        /\ registry' = registry
    BY <1>6 DEF CompressOp
  <2>2. PICK i \in 1..Len(lookup) : x = Encode(lookup[i])
    BY <1>3, <1>6 DEF RegistryMatches
  <2>3. registry[x] = i - 1 /\ lookup[i] \in InnerOps
    BY <1>3, <2>2 DEF RegistryMatches
  <2>4. lookup[i] = op
    BY <1>4, <2>2, <2>3, EncodingAssumption
  <2>5. /\ registry[x] \in 0..(Len(lookup) - 1)
        /\ lookup[registry[x] + 1] = op
    BY <1>3, <2>2, <2>3, <2>4
  <2> HIDE DEF op, x
  <2>6. path' \in Seq(Nat)
    BY <1>3, <2>1, <2>5
  <2>7. PackedPath(path', Side.path, lookup')
    BY <1>1, <1>3, <1>5, <2>1, <2>5, PathExtended DEF op
  <2> QED
    BY <1>3, <2>1, <2>6, <2>7 DEF RegistryMatches
<1>7. CASE x \notin DOMAIN registry
  <2>1. /\ path' = Append(path, Len(lookup))
        /\ lookup' = Append(lookup, op)
        /\ registry' = [y \in DOMAIN registry \union {x} |->
                           IF y = x THEN Len(lookup) ELSE registry[y]]
    BY <1>7 DEF CompressOp
  <2>2. /\ Len(lookup) \in Nat
        /\ Len(lookup') = Len(lookup) + 1
        /\ \A i \in 1..Len(lookup) : lookup'[i] = lookup[i]
        /\ lookup'[Len(lookup) + 1] = op
        /\ lookup' \in Seq(InnerOps)
    BY <1>3, <1>4, <2>1
  <2>3. path' \in Seq(Nat)
    BY <1>3, <2>1, <2>2
  <2>4. PackedPath(path', Side.path, lookup')
    <3>1. PackedPath(path, Side.path, lookup')
      BY <1>3, <1>4, <1>5, <2>1, PathGrows
    <3>2. Len(lookup) \in 0..(Len(lookup') - 1)
      BY <2>2
    <3> QED
      BY <1>1, <1>3, <2>1, <2>2, <3>1, <3>2, PathExtended
  <2>5. DOMAIN registry' = {Encode(lookup'[i]) : i \in 1..Len(lookup')}
    <3>1. DOMAIN registry' = {Encode(lookup[i]) : i \in 1..Len(lookup)} \union {x}
      BY <1>3, <2>1 DEF RegistryMatches
    <3>2. 1..Len(lookup') = 1..Len(lookup) \union {Len(lookup) + 1}
      BY <2>2
    <3> QED
      BY <2>2, <3>1, <3>2
  <2>6. \A i \in 1..Len(lookup') : registry'[Encode(lookup'[i])] = i - 1
    <3> SUFFICES ASSUME NEW i \in 1..Len(lookup')
                 PROVE  registry'[Encode(lookup'[i])] = i - 1
      OBVIOUS
    <3>1. CASE i = Len(lookup) + 1
      BY <2>1, <2>2, <3>1
    <3>2. CASE i # Len(lookup) + 1
      <4>1. i \in 1..Len(lookup) /\ lookup'[i] = lookup[i]
        BY <2>2, <3>2
      <4>2. /\ Encode(lookup[i]) \in DOMAIN registry
            /\ registry[Encode(lookup[i])] = i - 1
        BY <1>3, <4>1 DEF RegistryMatches
      <4>3. Encode(lookup[i]) # x
        BY <1>7, <4>2
      <4> QED
        BY <2>1, <4>1, <4>2, <4>3
    <3> QED
      BY <3>1, <3>2
  <2> QED
    BY <1>4, <2>1, <2>2, <2>3, <2>4, <2>5, <2>6 DEF RegistryMatches
<1> QED
  BY <1>6, <1>7

(* Whatever happens in the current entry, what is packed stays packed.     *)
LEMMA EntriesKept ==
    ASSUME CodecInvariant, InEntry
    PROVE  \A i \in 1..Len(entries) :
               PackedEntry(entries[i], source.entries[i], lookup)
BY DEF CodecInvariant, LookupConsistent, InEntry

LEMMA SidesKept ==
    ASSUME CodecInvariant, InEntry
    PROVE  \A i \in 1..Len(sides) : PackedSide(sides[i], Entry.sides[i], lookup)
<1>1. CASE sides = <<>>
  BY <1>1
<1>2. CASE sides # <<>>
  BY <1>2 DEF CodecInvariant, LookupConsistent, InEntry
<1> QED
  BY <1>1, <1>2

LEMMA OpStep == CodecInvariant /\ CompressOp => CodecInvariant'
<1> SUFFICES ASSUME CodecInvariant, CompressOp
             PROVE  CodecInvariant'
  OBVIOUS
<1>1. /\ InSide /\ InEntry /\ Compressing /\ pc = "compress"
      /\ Side # None
      /\ UNCHANGED <<pc, source, sides, entries, result, origin>>
  BY DEF CompressOp, InSide, InEntry, Compressing
<1>2. /\ lookup' \in Seq(InnerOps)
      /\ path' \in Seq(Nat)
      /\ RegistryMatches'
      /\ PackedPath(path', Side.path, lookup')
      /\ lookup' = lookup \/ \E op \in InnerOps : lookup' = Append(lookup, op)
  BY OpIndexed
<1>3. lookup \in Seq(InnerOps)
  BY DEF CodecInvariant, LocalTypes
<1>4. /\ Entry' = Entry
      /\ Side' = Side
      /\ InSide' /\ Compressing'
  BY <1>1 DEF Entry, Side, InSide, InEntry, Compressing
<1>5. LocalTypes'
  BY <1>1, <1>2 DEF CodecInvariant, LocalTypes
<1>6. Control'
  BY <1>1, <1>4 DEF CodecInvariant, Control
<1>7. \A i \in 1..Len(entries) :
          PackedEntry(entries[i], source.entries[i], lookup')
  BY <1>1, <1>2, <1>3, EntriesKept, EntryGrows
<1>8. \A i \in 1..Len(sides) : PackedSide(sides[i], Entry.sides[i], lookup')
  BY <1>1, <1>2, <1>3, SidesKept, SideGrows
<1>9. LookupConsistent'
  <2>1. /\ Len(entries) <= Len(source.entries)
        /\ sides # <<>> => /\ Len(entries) < Len(source.entries)
                           /\ Len(sides) <= Len(Entry.sides)
    BY <1>1 DEF CodecInvariant, LookupConsistent
  <2> QED
    BY <1>1, <1>2, <1>4, <1>7, <1>8, <2>1 DEF LookupConsistent
<1>10. Returned' /\ Restored' /\ RoundTrip'
  BY <1>1 DEF Returned, Restored, RoundTrip
<1> QED
  BY <1>5, <1>6, <1>9, <1>10 DEF CodecInvariant

LEMMA SideStep == CodecInvariant /\ FinishSide => CodecInvariant'
<1> SUFFICES ASSUME CodecInvariant, FinishSide
             PROVE  CodecInvariant'
  OBVIOUS
<1> DEFINE packed == IF Side = None THEN None ELSE WithPath(Side, path)
<1>1. /\ InSide /\ InEntry /\ Compressing /\ pc = "compress"
      /\ Side # None => Len(path) = Len(Side.path)
      /\ sides' = Append(sides, packed)
      /\ path' = <<>>
      /\ UNCHANGED <<pc, source, lookup, registry, entries, result, origin>>
  BY DEF FinishSide, InSide, InEntry, Compressing
<1>2. /\ lookup \in Seq(InnerOps) /\ path \in Seq(Nat)
      /\ IsSequence(sides) /\ IsSequence(entries)
  BY DEF CodecInvariant, LocalTypes
<1>3. PackedSide(packed, Side, lookup)
  <2>1. CASE Side = None
    BY <2>1 DEF PackedSide
  <2>2. CASE Side # None
    <3>1. PackedPath(path, Side.path, lookup)
      <4>1. CASE path = <<>>
        <5>1. Len(Side.path) = 0
          BY <1>1, <2>2, <4>1
        <5> QED
          BY <4>1, <5>1 DEF PackedPath
      <4>2. CASE path # <<>>
        BY <1>1, <4>2 DEF CodecInvariant, LookupConsistent
      <4> QED
        BY <4>1, <4>2
    <3>2. packed = WithPath(Side, packed.path) /\ packed.path = path
      BY <2>2 DEF WithPath
    <3> HIDE DEF packed
    <3> QED
      BY <1>1, <1>2, <2>2, <3>1, <3>2 DEF PackedSide
  <2> QED
    BY <2>1, <2>2
<1> HIDE DEF packed
<1>4. /\ IsSequence(sides')
      /\ Len(sides') = Len(sides) + 1
      /\ \A i \in 1..Len(sides) : sides'[i] = sides[i]
      /\ sides'[Len(sides) + 1] = packed
      /\ \A i \in 1..Len(sides') : i \in 1..Len(sides) \/ i = Len(sides) + 1
  BY <1>1, <1>2, AppendSequence
<1>5. Entry' = Entry /\ Compressing'
  BY <1>1 DEF Entry, Compressing
<1>6. LocalTypes'
  BY <1>1, <1>2, <1>4 DEF LocalTypes
<1>7. Control'
  BY <1>1, <1>5 DEF CodecInvariant, Control
<1>8. LookupConsistent'
  <2>1. \A i \in 1..Len(sides') : PackedSide(sides'[i], Entry.sides[i], lookup)
    BY <1>1, <1>3, <1>4, SidesKept DEF Side
  <2>2. /\ Len(entries) < Len(source.entries)
        /\ Len(sides) + 1 <= Len(Entry.sides)
    <3>1. Len(sides) \in Nat /\ Len(Entry.sides) \in Nat
      BY <1>1, <1>2, Current, SequenceType
    <3> QED
      BY <1>1, <3>1 DEF InSide, InEntry
  <2>3. RegistryMatches' /\ Len(entries) <= Len(source.entries)
    BY <1>1 DEF CodecInvariant, LookupConsistent, RegistryMatches
  <2> QED
    BY <1>1, <1>4, <1>5, <2>1, <2>2, <2>3, EntriesKept DEF LookupConsistent
<1>9. Returned' /\ Restored' /\ RoundTrip'
  BY <1>1 DEF Returned, Restored, RoundTrip
<1> QED
  BY <1>6, <1>7, <1>8, <1>9 DEF CodecInvariant

LEMMA EntryStep == CodecInvariant /\ FinishEntry => CodecInvariant'
<1> SUFFICES ASSUME CodecInvariant, FinishEntry
             PROVE  CodecInvariant'
  OBVIOUS
<1> DEFINE packed == WithSides(Entry, sides)
<1>1. /\ InEntry /\ Compressing /\ pc = "compress"
      /\ Len(sides) = Len(Entry.sides)
      /\ entries' = Append(entries, packed)
      /\ sides' = <<>>
      /\ UNCHANGED <<pc, source, lookup, registry, path, result, origin>>
  BY DEF FinishEntry, InEntry, Compressing
<1>2. /\ lookup \in Seq(InnerOps) /\ path \in Seq(Nat)
      /\ IsSequence(sides) /\ IsSequence(entries)
  BY DEF CodecInvariant, LocalTypes
<1>3. Len(sides) \in Nat
  BY <1>2, SequenceType
<1>4. path = <<>>
  <2>1. ~InSide
    BY <1>1, <1>3 DEF InSide
  <2> QED
    BY <1>1, <2>1 DEF CodecInvariant, LookupConsistent
<1>5. PackedEntry(packed, Entry, lookup)
  <2>1. packed = WithSides(Entry, packed.sides) /\ packed.sides = sides
    BY DEF WithSides
  <2> HIDE DEF packed
  <2> QED
    BY <1>1, <1>2, <2>1, SidesKept DEF PackedEntry
<1> HIDE DEF packed
<1>6. /\ IsSequence(entries')
      /\ Len(entries') = Len(entries) + 1
      /\ \A i \in 1..Len(entries) : entries'[i] = entries[i]
      /\ entries'[Len(entries) + 1] = packed
      /\ \A i \in 1..Len(entries') : i \in 1..Len(entries) \/ i = Len(entries) + 1
  BY <1>1, <1>2, AppendSequence
<1>7. LocalTypes'
  BY <1>1, <1>2, <1>6, EmptySequence DEF LocalTypes
<1>8. Compressing' /\ Control'
  BY <1>1 DEF CodecInvariant, Control, Compressing
<1>9. LookupConsistent'
  <2>1. \A i \in 1..Len(entries') :
            PackedEntry(entries'[i], source.entries[i], lookup)
    BY <1>1, <1>5, <1>6, EntriesKept DEF Entry
  <2>2. Len(entries) + 1 <= Len(source.entries)
    <3>1. Len(source.entries) \in Nat /\ Len(entries) \in Nat
      BY <1>1, <1>2, BatchType, SequenceType
         DEF CodecInvariant, Control, Compressing, IsBatch
    <3> QED
      BY <1>1, <3>1 DEF InEntry
  <2>3. RegistryMatches'
    BY <1>1 DEF CodecInvariant, LookupConsistent, RegistryMatches
  <2> QED
    BY <1>1, <1>4, <1>6, <2>1, <2>2, <2>3 DEF LookupConsistent
<1>10. Returned' /\ Restored' /\ RoundTrip'
  BY <1>1 DEF Returned, Restored, RoundTrip
<1> QED
  BY <1>7, <1>8, <1>9, <1>10 DEF CodecInvariant

LEMMA CompressReturns ==
    ASSUME CodecInvariant, FinishCompress
    PROVE  IsCompressionOf(result', origin')
<1> DEFINE packed == Compressed(entries, lookup)
<1>1. /\ Compressing /\ pc = "compress"
      /\ Len(entries) = Len(source.entries)
      /\ result' = packed
      /\ origin' = origin
      /\ source = origin /\ origin.kind = "batch"
  BY DEF FinishCompress, Return, Compressing, CodecInvariant, Control
<1>2. RegistryMatches /\ IsSequence(entries) /\ lookup \in Seq(InnerOps)
  BY <1>1 DEF CodecInvariant, LookupConsistent, LocalTypes
<1>3. packed.entries = entries /\ packed.lookup = lookup
  BY DEF Compressed
<1>4. packed = Compressed(packed.entries, packed.lookup)
  BY <1>3
<1> HIDE DEF packed
<1>5. \A i \in 1..Len(entries) :
          PackedEntry(entries[i], source.entries[i], lookup)
  BY <1>1 DEF CodecInvariant, LookupConsistent
<1>6. PackedBatch(packed, origin)
  BY <1>1, <1>2, <1>3, <1>4, <1>5 DEF PackedBatch
<1>7. SharedOnce(lookup)
  <2> SUFFICES ASSUME NEW i \in 1..Len(lookup), NEW j \in 1..Len(lookup),
                      Encode(lookup[i]) = Encode(lookup[j])
               PROVE  i = j
    BY DEF SharedOnce
  <2>1. i - 1 = j - 1
    BY <1>2 DEF RegistryMatches
  <2>2. i \in Int /\ j \in Int
    BY <1>2
  <2> QED
    BY <2>1, <2>2
<1> QED
  BY <1>1, <1>3, <1>6, <1>7 DEF IsCompressionOf

-----------------------------------------------------------------------------
(* What decompress makes of what compress made. *)

LEMMA SideRestored ==
    ASSUME NEW packed, NEW full, NEW table \in Seq(InnerOps),
           full = None \/ IsProof(full, InnerOps),
           PackedSide(packed, full, table)
    PROVE  full = IF packed = None THEN None ELSE DecompressExist(packed, table)
<1>1. CASE full = None
  BY <1>1 DEF PackedSide
<1>2. CASE full # None
  <2>1. /\ packed = WithPath(full, packed.path)
        /\ packed.path \in Seq(Nat)
        /\ Len(packed.path) = Len(full.path)
        /\ PackedPath(packed.path, full.path, table)
    BY <1>2 DEF PackedSide
  <2>2. /\ full = WithPath(full, full.path)
        /\ full.path \in Seq(InnerOps)
        /\ None \notin [key : {full.key}, value : {full.value},
                         leaf : {full.leaf}, path : Seq(Nat)]
    BY <1>2 DEF IsProof
  <2>3. packed # None
    BY <2>1, <2>2 DEF WithPath
  <2>4. InRange(packed.path, table)
    BY <2>1 DEF InRange, PackedPath
  <2>5. [i \in 1..Len(packed.path) |-> table[packed.path[i] + 1]] = full.path
    <3>1. \A i \in 1..Len(packed.path) : table[packed.path[i] + 1] = full.path[i]
      BY <2>1 DEF PackedPath
    <3>2. full.path = [i \in 1..Len(full.path) |-> full.path[i]]
      BY <2>2
    <3> QED
      BY <2>1, <3>1, <3>2
  <2>6. DecompressExist(packed, table) = WithPath(packed, full.path)
    BY <2>4, <2>5 DEF DecompressExist
  <2>7. WithPath(packed, full.path) = WithPath(full, full.path)
    <3>1. packed.key = full.key /\ packed.value = full.value /\ packed.leaf = full.leaf
      BY <2>1 DEF WithPath
    <3> QED
      BY <3>1 DEF WithPath
  <2> QED
    BY <2>2, <2>3, <2>6, <2>7
<1> QED
  BY <1>1, <1>2

LEMMA EntryRestored ==
    ASSUME NEW packed, NEW full, NEW table \in Seq(InnerOps),
           IsEntry(full, InnerOps), PackedEntry(packed, full, table)
    PROVE  DecompressEntry(packed, table) = full
<1>1. /\ packed = WithSides(full, packed.sides)
      /\ Len(packed.sides) = Len(full.sides)
      /\ \A i \in 1..Len(full.sides) :
             PackedSide(packed.sides[i], full.sides[i], table)
  BY DEF PackedEntry
<1>2. /\ full = WithSides(full, full.sides)
      /\ IsSequence(full.sides)
      /\ \A i \in 1..Len(full.sides) :
             full.sides[i] = None \/ IsProof(full.sides[i], InnerOps)
  BY DEF IsEntry
<1> DEFINE sides_back == [i \in 1..Len(packed.sides) |->
                             IF packed.sides[i] = None THEN None
                             ELSE DecompressExist(packed.sides[i], table)]
<1>3. \A i \in 1..Len(full.sides) : sides_back[i] = full.sides[i]
  BY <1>1, <1>2, SideRestored
<1>4. IsSequence(sides_back) /\ Len(sides_back) = Len(full.sides)
  <2>1. Len(full.sides) \in Nat
    BY <1>2, SequenceType
  <2>2. sides_back = [i \in 1..Len(full.sides) |-> sides_back[i]]
    BY <1>1
  <2> HIDE DEF sides_back
  <2> QED
    BY <2>1, <2>2, FunctionSequence
<1>5. DecompressEntry(packed, table) = WithSides(packed, sides_back)
  BY DEF DecompressEntry
<1> HIDE DEF sides_back
<1>6. sides_back = full.sides
  BY <1>2, <1>3, <1>4, EqualSequences
<1>7. packed.kind = full.kind
  BY <1>1 DEF WithSides
<1> QED
  BY <1>2, <1>5, <1>6, <1>7 DEF WithSides

(* While the caller's own batch is unpacked, source is its compressed form.*)
LEMMA OwnBatch ==
    ASSUME CodecInvariant, pc = "decompress", origin # None, origin.kind = "batch"
    PROVE  /\ source.kind = "compressed"
           /\ PackedBatch(source, origin)
           /\ IsBatch(origin)
           /\ Len(entries) \in Nat
           /\ Len(origin.entries) \in Nat
           /\ Len(source.entries) = Len(origin.entries)
<1>1. origin \in Proofs
  BY DEF CodecInvariant, Control
<1>2. IsBatch(origin)
  BY <1>1, BatchType
<1>3. PackedBatch(source, origin)
  BY DEF CodecInvariant, Returned, IsCompressionOf
<1>4. source.kind = "compressed" /\ Len(source.entries) = Len(origin.entries)
  BY <1>3 DEF PackedBatch, Compressed
<1>5. Len(entries) \in Nat
  BY SequenceType DEF CodecInvariant, LocalTypes
<1>6. Len(origin.entries) \in Nat
  BY <1>2, SequenceType DEF IsBatch
<1> QED
  BY <1>2, <1>3, <1>4, <1>5, <1>6

LEMMA DecompressStep == CodecInvariant /\ Decompress => CodecInvariant'
<1> SUFFICES ASSUME CodecInvariant, Decompress
             PROVE  CodecInvariant'
  OBVIOUS
<1> DEFINE back == DecompressEntry(Entry, source.lookup)
<1>1. /\ Decompressing /\ pc = "decompress" /\ ~Compressing
      /\ Len(entries) < Len(source.entries)
      /\ entries' = Append(entries, back)
      /\ UNCHANGED <<pc, source, lookup, registry, path, sides, result, origin>>
  BY DEF Decompress, Decompressing, Compressing
<1> HIDE DEF back
<1>2. IsSequence(entries)
  BY DEF CodecInvariant, LocalTypes
<1>3. /\ IsSequence(entries')
      /\ Len(entries') = Len(entries) + 1
      /\ \A i \in 1..Len(entries) : entries'[i] = entries[i]
      /\ entries'[Len(entries) + 1] = back
      /\ \A i \in 1..Len(entries') : i \in 1..Len(entries) \/ i = Len(entries) + 1
  BY <1>1, <1>2, AppendSequence
<1>4. ~Compressing' /\ Decompressing'
  BY <1>1 DEF Compressing, Decompressing
<1>5. LocalTypes' /\ Control'
  BY <1>1, <1>3, <1>4 DEF CodecInvariant, LocalTypes, Control
<1>6. LookupConsistent' /\ Returned' /\ RoundTrip'
  BY <1>1, <1>4 DEF CodecInvariant, LookupConsistent, Returned, RoundTrip
<1>7. Restored'
  <2> SUFFICES ASSUME origin # None, origin.kind = "batch"
               PROVE  /\ Len(entries') <= Len(origin.entries)
                      /\ \A i \in 1..Len(entries') : entries'[i] = origin.entries[i]
    BY <1>1 DEF Restored
  <2>1. /\ PackedBatch(source, origin)
        /\ IsBatch(origin)
        /\ Len(entries) \in Nat
        /\ Len(origin.entries) \in Nat
        /\ Len(source.entries) = Len(origin.entries)
    BY <1>1, OwnBatch
  <2>2. Len(entries) + 1 \in 1..Len(origin.entries)
    BY <1>1, <2>1
  <2>3. /\ source.lookup \in Seq(InnerOps)
        /\ PackedEntry(Entry, origin.entries[Len(entries) + 1], source.lookup)
        /\ IsEntry(origin.entries[Len(entries) + 1], InnerOps)
    BY <2>1, <2>2 DEF PackedBatch, IsBatch, Entry
  <2>4. back = origin.entries[Len(entries) + 1]
    BY <2>3, EntryRestored DEF back
  <2>5. \A i \in 1..Len(entries) : entries[i] = origin.entries[i]
    BY <1>1 DEF CodecInvariant, Restored
  <2> QED
    BY <1>3, <2>2, <2>4, <2>5
<1> QED
  BY <1>5, <1>6, <1>7 DEF CodecInvariant

LEMMA FinishDecompressStep == CodecInvariant /\ FinishDecompress => CodecInvariant'
<1> SUFFICES ASSUME CodecInvariant, FinishDecompress
             PROVE  CodecInvariant'
  OBVIOUS
<1>1. /\ Decompressing /\ pc = "decompress"
      /\ source.kind = "compressed"
      /\ Len(entries) = Len(source.entries)
      /\ pc' = "decompressed"
      /\ result' = Batch(entries)
      /\ lookup' = <<>> /\ registry' = <<>> /\ path' = <<>> /\ sides' = <<>>
      /\ entries' = <<>>
      /\ UNCHANGED <<source, origin>>
  BY DEF FinishDecompress, Return, Decompressing
<1>2. ~Compressing' /\ ~Decompressing'
  BY <1>1 DEF Compressing, Decompressing
<1>3. LocalTypes'
  BY <1>1, EmptySequence DEF LocalTypes
<1>4. Control'
  BY <1>1, <1>2 DEF CodecInvariant, Control
<1>5. LookupConsistent' /\ Returned' /\ Restored'
  BY <1>1, <1>2 DEF LookupConsistent, Returned, Restored
<1>6. RoundTrip'
  <2> SUFFICES ASSUME origin # None, origin.kind # "compressed"
               PROVE  Batch(entries) = origin
    BY <1>1 DEF RoundTrip
  <2>1. CASE origin.kind = "batch"
    <3>1. IsBatch(origin) /\ Len(entries) = Len(origin.entries)
      BY <1>1, <2>1, OwnBatch
    <3>2. \A i \in 1..Len(entries) : entries[i] = origin.entries[i]
      BY <1>1, <2>1 DEF CodecInvariant, Restored
    <3>3. IsSequence(entries) /\ IsSequence(origin.entries)
      BY <3>1 DEF CodecInvariant, LocalTypes, IsBatch
    <3>4. entries = origin.entries
      BY <3>1, <3>2, <3>3, EqualSequences
    <3> QED
      BY <3>1, <3>4 DEF IsBatch
  <2>2. CASE origin.kind # "batch"
    BY <1>1, <2>2 DEF CodecInvariant, Returned, IsCompressionOf
  <2> QED
    BY <2>1, <2>2
<1> QED
  BY <1>3, <1>4, <1>5, <1>6 DEF CodecInvariant

-----------------------------------------------------------------------------
(* The other steps. *)

(* A call of decompress, with what compress returned or anything else. *)
DecompressAny ==
    \E p : /\ pc = "idle" \/ (pc = "compressed" /\ p = result)
           /\ IsCommitmentProof(p)
           /\ CallDecompress(p)

(* The steps of a caller that decompresses what it likes. *)
CodecNext == CallCompress \/ DecompressAny \/ Work \/ GoOn

LEMMA CallStep ==
    CodecInvariant /\ (CallCompress \/ DecompressAny) => CodecInvariant'
<1> SUFFICES ASSUME CodecInvariant, CallCompress \/ DecompressAny
             PROVE  CodecInvariant'
  OBVIOUS
<1> USE DEF CallCompress, DecompressAny, CallDecompress, locals
<1>1. /\ pc \in {"idle", "compressed"}
      /\ pc' \in {"compress", "decompress"}
      /\ UNCHANGED locals
      /\ pc' = "compress" => source' \in Proofs /\ origin' = source'
      /\ pc' = "decompress" => origin' = origin
      /\ (pc' = "decompress" /\ pc = "compressed") => source' = result
  OBVIOUS
<1>2. /\ lookup = <<>> /\ registry = <<>> /\ path = <<>> /\ sides = <<>>
      /\ entries = <<>>
  BY <1>1 DEF CodecInvariant, Control, Compressing, Decompressing
<1>3. LocalTypes'
  BY <1>1 DEF CodecInvariant, LocalTypes
<1>4. Control'
  BY <1>1, <1>2 DEF CodecInvariant, Control
<1>5. LookupConsistent'
  <2> SUFFICES ASSUME Compressing'
               PROVE  LookupConsistent'
    BY DEF LookupConsistent
  <2>1. source' \in Proofs /\ source'.kind = "batch"
    BY <1>1 DEF Compressing
  <2>2. Len(source'.entries) \in Nat
    BY <2>1, BatchType, SequenceType DEF IsBatch
  <2>3. RegistryMatches'
    BY <1>1, <1>2 DEF RegistryMatches
  <2> QED
    BY <1>1, <1>2, <2>2, <2>3 DEF LookupConsistent
<1>6. Returned'
  <2>1. pc = "idle" => origin = None
    BY DEF CodecInvariant, Control
  <2> QED
    BY <1>1, <2>1 DEF CodecInvariant, Returned
<1>7. Restored'
  <2> SUFFICES ASSUME pc' = "decompress", origin # None, origin.kind = "batch"
               PROVE  Len(entries') <= Len(origin.entries)
    BY <1>1, <1>2 DEF Restored
  <2>1. origin \in Proofs
    BY DEF CodecInvariant, Control
  <2>2. Len(origin.entries) \in Nat
    BY <2>1, BatchType, SequenceType DEF IsBatch
  <2> QED
    BY <1>1, <1>2, <2>2
<1>8. RoundTrip'
  BY <1>1 DEF RoundTrip
<1> QED
  BY <1>3, <1>4, <1>5, <1>6, <1>7, <1>8 DEF CodecInvariant

LEMMA ReturnStep ==
    CodecInvariant /\ (Untouched \/ FinishCompress) => CodecInvariant'
<1> SUFFICES ASSUME CodecInvariant, Untouched \/ FinishCompress
             PROVE  CodecInvariant'
  OBVIOUS
<1>1. /\ pc \in {"compress", "decompress"}
      /\ pc' = IF pc = "compress" THEN "compressed" ELSE "decompressed"
      /\ lookup' = <<>> /\ registry' = <<>> /\ path' = <<>> /\ sides' = <<>>
      /\ entries' = <<>>
      /\ UNCHANGED <<source, origin>>
  BY DEF Untouched, FinishCompress, Compressing, Return
<1>2. ~Compressing' /\ ~Decompressing'
  BY <1>1 DEF Compressing, Decompressing
<1>3. LocalTypes'
  BY <1>1, EmptySequence DEF LocalTypes
<1>4. Control'
  BY <1>1, <1>2 DEF CodecInvariant, Control
<1>5. LookupConsistent' /\ Restored'
  BY <1>1, <1>2 DEF LookupConsistent, Restored
<1>6. pc = "compress" => IsCompressionOf(result', origin')
  <2>1. CASE FinishCompress
    BY <2>1, CompressReturns
  <2>2. CASE Untouched
    BY <2>2 DEF Untouched, Return, CodecInvariant, Control, IsCompressionOf
  <2> QED
    BY <2>1, <2>2
<1>7. (pc = "decompress" /\ origin # None /\ origin.kind # "compressed") =>
          result' = origin
  <2> SUFFICES ASSUME pc = "decompress", origin # None
               PROVE  result' = origin
    OBVIOUS
  <2>1. result' = source /\ source.kind # "compressed"
    BY DEF Untouched, Return, FinishCompress, Compressing
  <2>2. origin.kind # "batch"
    BY <2>1, OwnBatch
  <2> QED
    BY <2>1, <2>2 DEF CodecInvariant, Returned, IsCompressionOf
<1>8. Returned' /\ RoundTrip'
  BY <1>1, <1>6, <1>7 DEF Returned, RoundTrip
<1> QED
  BY <1>3, <1>4, <1>5, <1>8 DEF CodecInvariant

LEMMA GoOnStep == CodecInvariant /\ GoOn => CodecInvariant'
<1> SUFFICES ASSUME CodecInvariant, GoOn
             PROVE  CodecInvariant'
  OBVIOUS
<1>1. /\ pc \in {"compressed", "decompressed"}
      /\ pc' = "idle" /\ origin' = None
      /\ UNCHANGED locals
  BY DEF GoOn
<1>2. /\ lookup = <<>> /\ registry = <<>> /\ path = <<>> /\ sides = <<>>
      /\ entries = <<>>
  BY <1>1 DEF CodecInvariant, Control, Compressing, Decompressing
<1>3. ~Compressing' /\ ~Decompressing'
  BY <1>1 DEF Compressing, Decompressing
<1>4. LocalTypes' /\ Control'
  BY <1>1, <1>2, <1>3 DEF CodecInvariant, LocalTypes, Control, locals
<1>5. LookupConsistent' /\ Returned' /\ Restored' /\ RoundTrip'
  BY <1>1, <1>3 DEF LookupConsistent, Returned, Restored, RoundTrip
<1> QED
  BY <1>4, <1>5 DEF CodecInvariant

LEMMA CodecInit == Init => CodecInvariant
BY EmptySequence DEF Init, CodecInvariant, LocalTypes, Control, Compressing,
    Decompressing, LookupConsistent, Returned, Restored, RoundTrip

LEMMA CodecStep == CodecInvariant /\ [CodecNext]_vars => CodecInvariant'
<1> SUFFICES ASSUME CodecInvariant, [CodecNext]_vars
             PROVE  CodecInvariant'
  OBVIOUS
<1>1. CASE UNCHANGED vars
  BY <1>1 DEF vars, locals, CodecInvariant, LocalTypes, Control, Compressing,
      Decompressing, LookupConsistent, RegistryMatches, InSide, InEntry, Entry,
      Side, Returned, Restored, RoundTrip
<1>2. CASE CodecNext
  BY <1>2, CallStep, OpStep, SideStep, EntryStep, ReturnStep, DecompressStep,
     FinishDecompressStep, GoOnStep DEF CodecNext, Work
<1> QED
  BY <1>1, <1>2

-----------------------------------------------------------------------------
(* Types, and what decompress has unpacked so far. *)

Unpacked ==
    /\ Decompressing =>
           /\ Len(entries) <= Len(source.entries)
           /\ \A i \in 1..Len(entries) :
                  entries[i] = DecompressEntry(source.entries[i], source.lookup)
    /\ pc = "decompressed" => result = DecompressProof(source)

TypedCodec == CodecInvariant /\ CompressTypeOK /\ Unpacked

LEMMA CompressedSide ==
    ASSUME NEW packed, NEW full, NEW table, IsProof(full, InnerOps),
           PackedSide(packed, full, table)
    PROVE  IsProof(packed, Int)
<1>1. packed = WithPath(full, packed.path) /\ packed.path \in Seq(Nat)
  BY DEF PackedSide, IsProof
<1>2. /\ packed.key = full.key /\ packed.value = full.value
      /\ packed.leaf = full.leaf
  BY <1>1 DEF WithPath
<1>3. packed = WithPath(packed, packed.path)
  BY <1>1, <1>2 DEF WithPath
<1>4. packed \in [key : {packed.key}, value : {packed.value}, leaf : {packed.leaf},
                  path : Seq(Nat) \union Seq(InnerOps)]
  BY <1>1, <1>3 DEF WithPath
<1>5. packed.path \in Seq(Int)
  BY <1>1
<1> QED
  BY <1>2, <1>3, <1>4, <1>5 DEF IsProof

LEMMA CompressedEntry ==
    ASSUME NEW packed, NEW full, NEW table, IsEntry(full, InnerOps),
           PackedEntry(packed, full, table)
    PROVE  IsEntry(packed, Int)
<1>1. /\ packed = WithSides(full, packed.sides)
      /\ IsSequence(packed.sides) /\ Len(packed.sides) = Len(full.sides)
  BY DEF PackedEntry
<1>2. packed.kind = full.kind /\ packed = WithSides(packed, packed.sides)
  BY <1>1 DEF WithSides
<1>3. ASSUME NEW i \in 1..Len(packed.sides)
      PROVE  packed.sides[i] = None \/ IsProof(packed.sides[i], Int)
  <2>1. /\ PackedSide(packed.sides[i], full.sides[i], table)
        /\ full.sides[i] = None \/ IsProof(full.sides[i], InnerOps)
    BY <1>1 DEF PackedEntry, IsEntry
  <2>2. CASE full.sides[i] = None
    BY <2>1, <2>2 DEF PackedSide
  <2> QED
    BY <2>1, <2>2, CompressedSide
<1>4. packed.kind = "exist" => packed.sides[1] # None
  <2> SUFFICES ASSUME packed.kind = "exist" PROVE packed.sides[1] # None
    OBVIOUS
  <2>1. Len(full.sides) = 1 /\ full.sides[1] # None
    BY <1>2 DEF IsEntry, Places
  <2>2. PackedSide(packed.sides[1], full.sides[1], table) /\ IsProof(full.sides[1], InnerOps)
    BY <2>1 DEF PackedEntry, IsEntry
  <2>3. IsProof(packed.sides[1], Int)
    BY <2>2, CompressedSide
  <2> QED
    BY <2>3 DEF IsProof
<1> QED
  BY <1>1, <1>2, <1>3, <1>4 DEF IsEntry

LEMMA DecompressedSide ==
    ASSUME NEW p, IsProof(p, Int), NEW table \in Seq(InnerOps)
    PROVE  /\ IsProof(DecompressExist(p, table), InnerOps)
           /\ DecompressExist(p, table).key = p.key
           /\ DecompressExist(p, table).value = p.value
           /\ DecompressExist(p, table).leaf = p.leaf
<1> DEFINE ops == IF InRange(p.path, table)
                  THEN [i \in 1..Len(p.path) |-> table[p.path[i] + 1]]
                  ELSE <<>>
           q == WithPath(p, ops)
<1>1. p.path \in Seq(Int) /\ Len(p.path) \in Nat /\ Len(table) \in Nat
  BY DEF IsProof
<1>2. ops \in Seq(InnerOps)
  <2>1. CASE InRange(p.path, table)
    <3>1. \A i \in 1..Len(p.path) : p.path[i] + 1 \in 1..Len(table)
      BY <1>1, <2>1 DEF InRange
    <3>2. ops \in [1..Len(p.path) -> InnerOps]
      BY <2>1, <3>1
    <3> DEFINE n == Len(p.path)
    <3>3. n \in Nat /\ ops \in [1..n -> InnerOps]
      BY <1>1, <3>2
    <3> HIDE DEF ops, n
    <3> QED
      BY <3>3
  <2>2. CASE ~InRange(p.path, table)
    BY <2>2
  <2> QED
    BY <2>1, <2>2
<1>3. DecompressExist(p, table) = q
  BY DEF DecompressExist
<1> HIDE DEF ops
<1>4. q.key = p.key /\ q.value = p.value /\ q.leaf = p.leaf /\ q.path = ops
  BY DEF WithPath
<1>5. q \in [key : {q.key}, value : {q.value}, leaf : {q.leaf},
             path : Seq(Nat) \union Seq(InnerOps)]
  BY <1>2, <1>4 DEF WithPath
<1>6. q = WithPath(q, q.path)
  BY <1>4 DEF WithPath
<1> HIDE DEF q
<1>7. q # None
  BY <1>4, <1>5 DEF IsProof
<1> QED
  BY <1>2, <1>3, <1>4, <1>5, <1>6, <1>7 DEF IsProof

LEMMA DecompressedEntry ==
    ASSUME NEW e, IsEntry(e, Int), NEW table \in Seq(InnerOps)
    PROVE  IsEntry(DecompressEntry(e, table), InnerOps)
<1> DEFINE back == [i \in 1..Len(e.sides) |->
                       IF e.sides[i] = None THEN None
                       ELSE DecompressExist(e.sides[i], table)]
<1>1. Len(e.sides) \in Nat
  BY SequenceType DEF IsEntry
<1>2. IsSequence(back) /\ Len(back) = Len(e.sides)
  BY <1>1, FunctionSequence
<1>3. \A i \in 1..Len(e.sides) : back[i] = None \/ IsProof(back[i], InnerOps)
  BY DecompressedSide DEF IsEntry
<1>4. DecompressEntry(e, table) = WithSides(e, back)
  BY DEF DecompressEntry
<1>5. e.kind = "exist" => back[1] # None
  <2> SUFFICES ASSUME e.kind = "exist" PROVE back[1] # None
    OBVIOUS
  <2>1. 1 \in 1..Len(e.sides) /\ e.sides[1] # None
    BY <1>1 DEF IsEntry, Places
  <2>2. IsProof(DecompressExist(e.sides[1], table), InnerOps)
    BY <2>1, DecompressedSide DEF IsEntry
  <2> QED
    BY <2>1, <2>2 DEF IsProof
<1> HIDE DEF back
<1> QED
  BY <1>2, <1>3, <1>4, <1>5 DEF IsEntry, WithSides

(* What decompress makes of a compressed batch is a batch. *)
LEMMA DecompressedBatch ==
    ASSUME NEW p, IsCompressed(p)
    PROVE  /\ IsBatch(DecompressProof(p))
           /\ Len(DecompressProof(p).entries) = Len(p.entries)
           /\ \A i \in 1..Len(p.entries) :
                  DecompressProof(p).entries[i] = DecompressEntry(p.entries[i], p.lookup)
<1> DEFINE back == [i \in 1..Len(p.entries) |-> DecompressEntry(p.entries[i], p.lookup)]
<1>1. Len(p.entries) \in Nat
  BY SequenceType DEF IsCompressed
<1>2. IsSequence(back) /\ Len(back) = Len(p.entries)
  BY <1>1, FunctionSequence
<1>3. \A i \in 1..Len(p.entries) : /\ back[i] = DecompressEntry(p.entries[i], p.lookup)
                                   /\ IsEntry(back[i], InnerOps)
  BY DecompressedEntry DEF IsCompressed
<1>4. DecompressProof(p) = Batch(back)
  BY DEF DecompressProof, IsCompressed
<1> HIDE DEF back
<1> QED
  BY <1>2, <1>3, <1>4 DEF IsBatch, Batch

LEMMA TypesInit == Init => TypedCodec
<1> SUFFICES ASSUME Init PROVE TypedCodec
  OBVIOUS
<1>1. CodecInvariant
  BY CodecInit
<1>2. CompressTypeOK
  BY EmptySequence DEF Init, CompressTypeOK, Compressing, Decompressing
<1>3. Unpacked
  BY DEF Init, Unpacked, Decompressing
<1> QED
  BY <1>1, <1>2, <1>3 DEF TypedCodec

(* The arguments of a call are typed, and so is what comes back. *)
Typed ==
    /\ IF pc = "idle" THEN source = None ELSE IsCommitmentProof(source)
    /\ IF pc \in {"idle", "compress"} \/ (pc = "decompress" /\ origin = None)
       THEN result = None ELSE IsCommitmentProof(result)

LEMMA FinishedType ==
    ASSUME CodecInvariant, FinishCompress
    PROVE  IsCompressed(result')
<1>1. /\ origin \in Proofs /\ origin' = origin /\ origin.kind = "batch"
  BY DEF FinishCompress, Compressing, CodecInvariant, Control, Return
<1>2. PackedBatch(result', origin)
  BY <1>1, CompressReturns DEF IsCompressionOf
<1>3. IsBatch(origin)
  BY <1>1, BatchType
<1>4. \A i \in 1..Len(result'.entries) : IsEntry(result'.entries[i], Int)
  BY <1>2, <1>3, CompressedEntry DEF PackedBatch, IsBatch
<1> QED
  BY <1>2, <1>4 DEF PackedBatch, IsCompressed, Compressed

LEMMA UnpackedBatch ==
    ASSUME TypedCodec, FinishDecompress
    PROVE  result' = DecompressProof(source) /\ IsBatch(result')
<1>1. /\ Decompressing /\ pc = "decompress" /\ source.kind = "compressed"
      /\ Len(entries) = Len(source.entries) /\ result' = Batch(entries)
  BY DEF FinishDecompress, Return, Decompressing
<1>2. IsCompressed(source)
  BY <1>1 DEF TypedCodec, CompressTypeOK, IsCommitmentProof, IsEntry, IsBatch
<1> DEFINE back == DecompressProof(source)
<1>3. /\ IsBatch(back) /\ Len(back.entries) = Len(source.entries)
      /\ \A i \in 1..Len(source.entries) :
             back.entries[i] = DecompressEntry(source.entries[i], source.lookup)
  BY <1>2, DecompressedBatch
<1>4. /\ IsSequence(entries)
      /\ \A i \in 1..Len(entries) :
             entries[i] = DecompressEntry(source.entries[i], source.lookup)
  BY <1>1 DEF TypedCodec, CompressTypeOK, Unpacked
<1> HIDE DEF back
<1>5. entries = back.entries
  BY <1>1, <1>3, <1>4, EqualSequences DEF IsBatch
<1> QED
  BY <1>1, <1>3, <1>5 DEF IsBatch, back

LEMMA TypedStep ==
    ASSUME TypedCodec, [CodecNext]_vars
    PROVE  Typed'
<1>1. CodecInvariant /\ Typed
  BY DEF TypedCodec, CompressTypeOK, Typed
<1>2. CASE CallCompress
  BY <1>1, <1>2, ProofsAssumption DEF CallCompress, Typed
<1>3. CASE DecompressAny
  <2>1. PICK p : /\ pc = "idle" \/ (pc = "compressed" /\ p = result)
                 /\ IsCommitmentProof(p)
                 /\ CallDecompress(p)
    BY <1>3 DEF DecompressAny
  <2>2. pc = "idle" => origin = None /\ result = None
    BY <1>1 DEF CodecInvariant, Control, Typed
  <2>3. pc = "compressed" => origin # None /\ IsCommitmentProof(result)
    BY <1>1, ProofsAssumption DEF CodecInvariant, Control, Typed
  <2> QED
    BY <2>1, <2>2, <2>3 DEF CallDecompress, Typed
<1>4. CASE Untouched
  BY <1>1, <1>4 DEF Untouched, Return, Typed
<1>5. CASE FinishCompress
  <2>1. IsCommitmentProof(result')
    BY <1>1, <1>5, FinishedType DEF IsCommitmentProof
  <2> QED
    BY <1>1, <1>5, <2>1 DEF FinishCompress, Compressing, Return, Typed
<1>6. CASE FinishDecompress
  <2>1. IsCommitmentProof(result')
    BY <1>6, UnpackedBatch DEF IsCommitmentProof
  <2> QED
    BY <1>1, <1>6, <2>1 DEF FinishDecompress, Decompressing, Return, Typed
<1>7. CASE CompressOp \/ FinishSide \/ FinishEntry \/ Decompress
  BY <1>1, <1>7 DEF CompressOp, FinishSide, FinishEntry, Decompress, Typed
<1>8. CASE GoOn
  BY <1>8 DEF GoOn, Typed
<1>9. CASE UNCHANGED vars
  BY <1>1, <1>9 DEF vars, Typed
<1> QED
  BY <1>2, <1>3, <1>4, <1>5, <1>6, <1>7, <1>8, <1>9 DEF CodecNext, Work

LEMMA UnpackedStep ==
    ASSUME TypedCodec, [CodecNext]_vars
    PROVE  Unpacked'
<1>1. CodecInvariant /\ CompressTypeOK /\ Unpacked
  BY DEF TypedCodec
<1>2. CASE CallCompress \/ GoOn
  BY <1>2 DEF CallCompress, GoOn, Unpacked, Decompressing
<1>3. CASE DecompressAny
  <2>1. PICK p : /\ pc \in {"idle", "compressed"}
                 /\ IsCommitmentProof(p)
                 /\ CallDecompress(p)
    BY <1>3 DEF DecompressAny
  <2>2. entries = <<>> /\ entries' = entries
    BY <1>1, <2>1 DEF CallDecompress, locals, CodecInvariant, Control, Compressing,
                      Decompressing
  <2>3. p.kind = "compressed" => Len(p.entries) \in Nat
    BY <2>1, SequenceType DEF IsCommitmentProof, IsCompressed, IsEntry, IsBatch
  <2> QED
    BY <2>1, <2>2, <2>3 DEF CallDecompress, Unpacked, Decompressing
<1>4. CASE Untouched
  BY <1>4 DEF Untouched, Return, Unpacked, Decompressing, DecompressProof
<1>5. CASE FinishCompress
  BY <1>5 DEF FinishCompress, Compressing, Return, Unpacked, Decompressing
<1>6. CASE FinishDecompress
  <2>1. pc' = "decompressed" /\ source' = source
    BY <1>6 DEF FinishDecompress, Decompressing, Return
  <2> QED
    BY <1>6, <2>1, UnpackedBatch DEF Unpacked, Decompressing
<1>7. CASE CompressOp \/ FinishSide \/ FinishEntry
  BY <1>7 DEF CompressOp, FinishSide, FinishEntry, InSide, InEntry, Compressing,
              Unpacked, Decompressing
<1>8. CASE Decompress
  <2> DEFINE back == DecompressEntry(Entry, source.lookup)
  <2>1. /\ Decompressing /\ Len(entries) < Len(source.entries)
        /\ entries' = Append(entries, back) /\ source' = source /\ pc' = pc
    BY <1>8 DEF Decompress
  <2> HIDE DEF back
  <2>2. /\ IsSequence(entries) /\ Len(entries) \in Nat
        /\ \A i \in 1..Len(entries) :
               entries[i] = DecompressEntry(source.entries[i], source.lookup)
    BY <1>1, <2>1, SequenceType DEF CompressTypeOK, Unpacked
  <2>3. /\ Len(entries') = Len(entries) + 1
        /\ \A i \in 1..Len(entries) : entries'[i] = entries[i]
        /\ entries'[Len(entries) + 1] = back
        /\ \A i \in 1..Len(entries') : i \in 1..Len(entries) \/ i = Len(entries) + 1
    BY <2>1, <2>2, AppendSequence
  <2>4. back = DecompressEntry(source.entries[Len(entries) + 1], source.lookup)
    BY DEF back, Entry
  <2>5. \A i \in 1..Len(entries') :
            entries'[i] = DecompressEntry(source.entries[i], source.lookup)
    BY <2>2, <2>3, <2>4
  <2>6. IsSequence(source.entries) /\ Len(source.entries) \in Nat
    BY <1>1, <2>1, SequenceType DEF CompressTypeOK, Decompressing, IsCommitmentProof,
                                    IsCompressed, IsEntry, IsBatch
  <2>7. Len(entries') <= Len(source.entries)
    BY <2>1, <2>2, <2>3, <2>6
  <2> QED
    BY <2>1, <2>5, <2>7 DEF Unpacked, Decompressing
<1>9. CASE UNCHANGED vars
  BY <1>1, <1>9 DEF vars, locals, Unpacked, Decompressing
<1> QED
  BY <1>2, <1>3, <1>4, <1>5, <1>6, <1>7, <1>8, <1>9 DEF CodecNext, Work

LEMMA TypedCodecStep == TypedCodec /\ [CodecNext]_vars => TypedCodec'
<1> SUFFICES ASSUME TypedCodec, [CodecNext]_vars PROVE TypedCodec'
  OBVIOUS
<1>1. CodecInvariant'
  BY CodecStep DEF TypedCodec
<1>2. Typed' /\ Unpacked'
  BY TypedStep, UnpackedStep
<1>3. CompressTypeOK'
  BY <1>1, <1>2 DEF CodecInvariant, LocalTypes, Control, Typed, CompressTypeOK
<1> QED
  BY <1>1, <1>2, <1>3 DEF TypedCodec

LEMMA NextOfCodec == TypedCodec /\ Next => CodecNext
<1> SUFFICES ASSUME TypedCodec, Next PROVE CodecNext
  OBVIOUS
<1>1. CASE DecompressOwn
  <2>1. IsCommitmentProof(result)
    BY <1>1 DEF TypedCodec, CompressTypeOK, DecompressOwn
  <2> QED
    BY <1>1, <2>1 DEF DecompressOwn, DecompressAny, CodecNext
<1>2. CASE DecompressReceived
  BY <1>2, ProofsAssumption DEF DecompressReceived, DecompressAny, CodecNext
<1> QED
  BY <1>1, <1>2 DEF Next, CodecNext

(* The variables keep their types: what is unpacked is a batch again, and  *)
(* what compress has returned and decompress takes is well formed.         *)
THEOREM TypedCodecHolds == Spec => []TypedCodec
<1>1. TypedCodec /\ [Next]_vars => TypedCodec'
  BY TypedCodecStep, NextOfCodec
<1> QED
  BY <1>1, TypesInit, PTL DEF Spec

(* compress and decompress keep the types of the messages, whatever they   *)
(* are called with and whatever indexes a compressed batch has.            *)
THEOREM CompressTypeCorrect == Spec => []CompressTypeOK
<1>1. TypedCodec => CompressTypeOK
  BY DEF TypedCodec
<1> QED
  BY <1>1, TypedCodecHolds, PTL

(* Through every call of compress, the indexes handed out stand for the    *)
(* operations they were handed out for, and through every call of          *)
(* decompress of its result, what is unpacked is what was packed.          *)
THEOREM CodecInvariantHolds == Spec => []CodecInvariant
<1>1. TypedCodec => CodecInvariant
  BY DEF TypedCodec
<1> QED
  BY <1>1, TypedCodecHolds, PTL

(* The registry and the lookup table of compress_batch agree at every      *)
(* step, for every batch.                                                  *)
THEOREM TableIsConsistent == Spec => []LookupConsistent
<1>1. CodecInvariant => LookupConsistent
  BY DEF CodecInvariant
<1> QED
  BY <1>1, CodecInvariantHolds, PTL

(* decompress undoes compress, for every batch of existence and            *)
(* non-existence proofs.                                                   *)
THEOREM CompressionIsLossless == Spec => []RoundTrip
<1>1. CodecInvariant => RoundTrip
  BY DEF CodecInvariant
<1> QED
  BY <1>1, CodecInvariantHolds, PTL

(* A compressed batch holds no operation twice.                            *)
THEOREM OperationsAreShared == Spec => []NothingTwice
<1>1. CodecInvariant => NothingTwice
  BY DEF CodecInvariant, Returned, IsCompressionOf, NothingTwice
<1> QED
  BY <1>1, CodecInvariantHolds, PTL

-----------------------------------------------------------------------------
(* The entry points: the entry that is chosen.                             *)

LEMMA FirstOfSome ==
    ASSUME NEW all, NEW n \in Nat, NEW places \in SUBSET (1..n), places # {}
    PROVE  \E i \in places : FirstOf(all, places) = all[i]
<1>1. \E i \in places : \A j \in places : i <= j
  <2>1. places \in SUBSET (0..n)
    OBVIOUS
  <2> QED
    BY <2>1, FirstPlace
<1> DEFINE first == CHOOSE i \in places : \A j \in places : i <= j
<1>2. first \in places
  BY <1>1
<1> QED
  BY <1>2 DEF FirstOf

LEMMA FirstIsOne ==
    ASSUME NEW all, NEW n \in Nat, NEW places \in SUBSET (1..n),
           FirstOf(all, places) # None
    PROVE  \E i \in places : FirstOf(all, places) = all[i]
<1>1. places # {}
  BY DEF FirstOf
<1> QED
  BY <1>1, FirstOfSome

(* A proof that has been opened. *)
IsOpen(proof) == IsEntry(proof, InnerOps) \/ IsBatch(proof)

LEMMA EntrySides ==
    ASSUME NEW e, IsEntry(e, InnerOps)
    PROVE  /\ e.kind = "exist" => e.sides[1] # None /\ e.sides[1] \in Range(e.sides)
           /\ e.kind = "nonexist" => e.sides[1] \in Range(e.sides)
                                     /\ e.sides[2] \in Range(e.sides)
<1>1. DOMAIN e.sides = 1..Len(e.sides)
  BY SequenceType DEF IsEntry
<1> QED
  BY <1>1 DEF IsEntry, Places, Range

LEMMA ChosenExist ==
    ASSUME NEW proof, IsOpen(proof), NEW key, ExistFor(proof, key) # None
    PROVE  ExistFor(proof, key).sides[1] \in Sides(proof)
<1> DEFINE chosen == ExistFor(proof, key)
           places == {i \in 1..Len(proof.entries) : IsFor(proof.entries[i], key)}
<1>1. CASE IsEntry(proof, InnerOps)
  <2>1. proof.kind = "exist" /\ chosen = proof
    BY <1>1 DEF ExistFor, IsEntry
  <2> QED
    BY <1>1, <2>1, EntrySides DEF Sides
<1>2. CASE IsBatch(proof)
  <2>1. /\ chosen = FirstOf(proof.entries, places) /\ proof.kind = "batch"
        /\ Len(proof.entries) \in Nat /\ DOMAIN proof.entries = 1..Len(proof.entries)
    BY <1>2, SequenceType DEF ExistFor, IsBatch
  <2>2. PICK i \in places : chosen = proof.entries[i]
    <3>1. places \in SUBSET (1..Len(proof.entries))
      OBVIOUS
    <3>2. FirstOf(proof.entries, places) # None
      BY <2>1
    <3> HIDE DEF places, chosen
    <3> QED
      BY <2>1, <3>1, <3>2, FirstIsOne
  <2>3. /\ IsEntry(chosen, InnerOps) /\ chosen.kind = "exist"
        /\ chosen \in Range(proof.entries)
    BY <1>2, <2>1, <2>2 DEF IsBatch, IsFor, Range
  <2>4. chosen.sides[1] \in Range(chosen.sides) \ {None}
    BY <2>3, EntrySides
  <2> HIDE DEF chosen
  <2>5. \E e \in Range(proof.entries) : chosen.sides[1] \in Range(e.sides) \ {None}
    BY <2>3, <2>4
  <2> QED
    BY <2>1, <2>5 DEF Sides, chosen
<1> QED
  BY <1>1, <1>2 DEF IsOpen

LEMMA ChosenNonexist ==
    ASSUME NEW proof, IsOpen(proof), NEW spec, NEW key,
           NonexistFor(spec, proof, key) # None,
           NEW i \in {1, 2}, NonexistFor(spec, proof, key).sides[i] # None
    PROVE  NonexistFor(spec, proof, key).sides[i] \in Sides(proof)
<1> DEFINE chosen == NonexistFor(spec, proof, key)
           places == {k \in 1..Len(proof.entries) : Encloses(spec, proof.entries[k], key)}
<1>1. CASE IsEntry(proof, InnerOps)
  <2>1. proof.kind = "nonexist" /\ chosen = proof
    BY <1>1 DEF NonexistFor, IsEntry
  <2>2. proof.sides[i] \in Range(proof.sides) \ {None}
    BY <1>1, <2>1, EntrySides
  <2> QED
    BY <2>1, <2>2 DEF Sides
<1>2. CASE IsBatch(proof)
  <2>1. /\ chosen = FirstOf(proof.entries, places) /\ proof.kind = "batch"
        /\ Len(proof.entries) \in Nat /\ DOMAIN proof.entries = 1..Len(proof.entries)
    BY <1>2, SequenceType DEF NonexistFor, IsBatch
  <2>2. PICK k \in places : chosen = proof.entries[k]
    BY <2>1, FirstIsOne
  <2>3. /\ IsEntry(chosen, InnerOps) /\ chosen.kind = "nonexist"
        /\ chosen \in Range(proof.entries)
    BY <1>2, <2>1, <2>2 DEF IsBatch, Encloses, Range
  <2>4. chosen.sides[i] \in Range(chosen.sides) \ {None}
    BY <2>3, EntrySides
  <2> HIDE DEF chosen
  <2>5. \E e \in Range(proof.entries) : chosen.sides[i] \in Range(e.sides) \ {None}
    BY <2>3, <2>4
  <2> QED
    BY <2>1, <2>5 DEF Sides, chosen
<1> QED
  BY <1>1, <1>2 DEF IsOpen

-----------------------------------------------------------------------------
(* What is opened has the types of the messages. *)

LEMMA TypedSide ==
    ASSUME NEW p, IsProof(p, InnerOps), IsSequence(p.key), IsSequence(p.value),
           p.leaf # None => IsLeafOp(p.leaf)
    PROVE  IsExistenceProof(p)
<1>1. p.path \in Seq(InnerOps)
  BY DEF IsProof
<1>2. IsSequence(p.path)
  BY <1>1, SequenceIntro
<1>3. \A k \in 1..Len(p.path) : IsInnerOp(p.path[k])
  BY <1>1, MessagesAssumption
<1> QED
  BY <1>2, <1>3 DEF IsExistenceProof

LEMMA OpenedType ==
    ASSUME NEW p \in Proofs \union Received
    PROVE  /\ IsOpen(DecompressProof(p))
           /\ \A side \in Sides(DecompressProof(p)) : IsExistenceProof(side)
<1>1. IsCommitmentProof(p)
  BY ProofsAssumption
<1>2. CASE IsEntry(p, InnerOps)
  <2>1. DecompressProof(p) = p /\ Sides(p) = Range(p.sides) \ {None}
    BY <1>2 DEF IsEntry, DecompressProof, Sides
  <2>2. ASSUME NEW side \in Sides(p) PROVE IsExistenceProof(side)
    <3>1. IsProof(side, InnerOps)
      BY <1>2, <2>1, SequenceType DEF IsEntry, Range
    <3> QED
      BY <3>1, TypedSide, MessagesAssumption
  <2> QED
    BY <1>2, <2>1, <2>2 DEF IsOpen
<1>3. CASE IsBatch(p)
  <2>1. /\ DecompressProof(p) = p
        /\ Sides(p) = UNION {Range(e.sides) \ {None} : e \in Range(p.entries)}
    BY <1>3 DEF IsBatch, DecompressProof, Sides
  <2>2. ASSUME NEW side \in Sides(p) PROVE IsExistenceProof(side)
    <3>1. PICK e \in Range(p.entries) : side \in Range(e.sides) \ {None}
      BY <2>1
    <3>2. IsEntry(e, InnerOps)
      BY <1>3, <3>1, SequenceType DEF IsBatch, Range
    <3>3. IsProof(side, InnerOps)
      BY <3>1, <3>2, SequenceType DEF IsEntry, Range
    <3> QED
      BY <3>3, TypedSide, MessagesAssumption
  <2> QED
    BY <1>3, <2>1, <2>2 DEF IsOpen
<1>4. CASE IsCompressed(p)
  <2> DEFINE back == DecompressProof(p)
  <2>1. /\ IsBatch(back) /\ Len(back.entries) = Len(p.entries)
        /\ \A i \in 1..Len(p.entries) :
               back.entries[i] = DecompressEntry(p.entries[i], p.lookup)
    BY <1>4, DecompressedBatch
  <2>2. /\ DOMAIN back.entries = 1..Len(p.entries)
        /\ DOMAIN p.entries = 1..Len(p.entries)
    BY <1>4, <2>1, SequenceType DEF IsBatch, IsCompressed
  <2>3. /\ Sides(back) = UNION {Range(e.sides) \ {None} : e \in Range(back.entries)}
        /\ Sides(p) = UNION {Range(e.sides) \ {None} : e \in Range(p.entries)}
    BY <1>4, <2>1 DEF IsBatch, IsCompressed, Sides
  <2>4. ASSUME NEW side \in Sides(back) PROVE IsExistenceProof(side)
    <3>1. PICK e \in Range(back.entries) : side \in Range(e.sides) \ {None}
      BY <2>3
    <3>2. PICK i \in 1..Len(p.entries) : e = DecompressEntry(p.entries[i], p.lookup)
      BY <2>1, <2>2, <3>1 DEF Range
    <3> DEFINE f == p.entries[i]
    <3>3. IsEntry(f, Int) /\ f \in Range(p.entries) /\ p.lookup \in Seq(InnerOps)
      BY <1>4, <2>2 DEF IsCompressed, Range
    <3> HIDE DEF f
    <3>4. PICK j \in 1..Len(f.sides) :
              side = IF f.sides[j] = None THEN None
                     ELSE DecompressExist(f.sides[j], p.lookup)
      BY <3>1, <3>2 DEF DecompressEntry, WithSides, Range, f
    <3>5. f.sides[j] # None /\ side = DecompressExist(f.sides[j], p.lookup)
      BY <3>1, <3>4
    <3>6. IsProof(f.sides[j], Int) /\ f.sides[j] \in Range(f.sides) \ {None}
      BY <3>3, <3>5, SequenceType DEF IsEntry, Range
    <3>7. f.sides[j] \in Sides(p)
      BY <2>3, <3>3, <3>6
    <3>8. /\ IsProof(side, InnerOps) /\ side.key = f.sides[j].key
          /\ side.value = f.sides[j].value /\ side.leaf = f.sides[j].leaf
      BY <3>3, <3>5, <3>6, DecompressedSide
    <3> QED
      BY <3>7, <3>8, TypedSide, MessagesAssumption
  <2> HIDE DEF back
  <2> QED
    BY <2>1, <2>4 DEF IsOpen, back
<1> QED
  BY <1>1, <1>2, <1>3, <1>4 DEF IsCommitmentProof

-----------------------------------------------------------------------------
(* What a verified item tells of a tree. *)

LEMMA ExistenceTells ==
    ASSUME NEW t \in Trees, TellsKeys(t), NEW p, IsExistenceProof(p), NEW key, NEW value,
           VerifiesExistence(p, t.spec, t.hash[t.root], key, value),
           p.leaf # None => LeafIsUnambiguous(t.spec, p.leaf, p.key, p.value)
    PROVE  Stored(t, key, value)
<1>1. p.key = key /\ p.value = value /\ p.leaf # None
  BY DEF VerifiesExistence, LeafAccepted, RootFrom
<1>2. LeafFacts(t.spec, p.leaf, p.key, p.value)
  BY <1>1 DEF VerifiesExistence, LeafAccepted, RootFrom, LeafApplies, LeafDataOK,
              LeafFacts, IsExistenceProof
<1>3. LeadsTo(t, p, Len(p.path), t.root)
  BY ExistenceLeads
<1>4. PICK n \in t.leaves : t.image[n] = LeafImage(p.leaf, p.key, p.value)
  BY <1>3 DEF LeadsTo, Leads
<1>5. t.key[n] = p.key /\ t.value[n] = p.value
  BY <1>2, <1>4, TreeLeafFacts, LeafTold
<1> QED
  BY <1>1, <1>5 DEF Stored

LEMMA AbsenceTells ==
    ASSUME NEW t \in SortedTrees, TellsKeys(t), NEW l, NEW r, NEW key, NEW keys,
           l # None => /\ IsExistenceProof(l)
                       /\ l.leaf # None => LeafIsUnambiguous(t.spec, l.leaf, l.key, l.value),
           r # None => /\ IsExistenceProof(r)
                       /\ r.leaf # None => LeafIsUnambiguous(t.spec, r.leaf, r.key, r.value),
           VerifiesAbsence([left |-> l, right |-> r], t.spec, t.hash[t.root], key),
           IsStrictOrder(t.spec, keys), key \in keys,
           \A x \in t.leaves : t.key[x] \in keys
    PROVE  ~HasKey(t, key)
<1> DEFINE proof == [left |-> l, right |-> r]
<1>1. t \in Trees
  BY DEF SortedTrees
<1>2. ASSUME NEW p \in {l, r}, p # None
      PROVE  IsExistenceProof(p) /\ TellsKey(t, p)
  <2>1. VerifiesExistence(p, t.spec, t.hash[t.root], p.key, p.value)
    BY <1>2 DEF VerifiesAbsence
  <2>2. p.leaf # None
    BY <2>1 DEF VerifiesExistence, LeafAccepted, RootFrom
  <2> QED
    BY <1>1, <1>2, <2>1, <2>2, SideTellsKey
<1>3. proof.left = l /\ proof.right = r
  OBVIOUS
<1>4. VerifiesAbsence(proof, t.spec, t.hash[t.root], key)
  OBVIOUS
<1> HIDE DEF proof
<1> QED
  BY <1>2, <1>3, <1>4, AbsenceNotHeld

LEMMA ItemIsTrue ==
    ASSUME NEW q \in Queries, NEW proof, IsOpen(proof),
           \A side \in Sides(proof) : IsExistenceProof(side),
           LeavesKnown(q.spec, proof),
           NEW item \in Range(q.items), Verifies(q, proof, item),
           NEW t \in Trees, q.spec = t.spec, q.root = t.hash[t.root], TellsKeys(t)
    PROVE  IF q.about = "membership" THEN Stored(t, item.key, item.value)
           ELSE t \in SortedTrees => ~HasKey(t, item.key)
<1>1. CASE q.about = "membership"
  <2> DEFINE p == ExistFor(proof, item.key).sides[1]
  <2>1. /\ ExistFor(proof, item.key) # None
        /\ VerifiesExistence(p, t.spec, t.hash[t.root], item.key, item.value)
    BY <1>1 DEF Verifies
  <2>2. p \in Sides(proof)
    BY <2>1, ChosenExist
  <2>3. /\ IsExistenceProof(p)
        /\ p.leaf # None => LeafIsUnambiguous(t.spec, p.leaf, p.key, p.value)
    BY <2>2 DEF LeavesKnown
  <2> HIDE DEF p
  <2> QED
    BY <1>1, <2>1, <2>3, ExistenceTells
<1>2. CASE q.about # "membership"
  <2> SUFFICES ASSUME t \in SortedTrees PROVE ~HasKey(t, item.key)
    BY <1>2
  <2> DEFINE chosen == NonexistFor(t.spec, proof, item.key)
             l == chosen.sides[1]
             r == chosen.sides[2]
  <2>1. /\ chosen # None
        /\ VerifiesAbsence([left |-> l, right |-> r], t.spec, t.hash[t.root], item.key)
    BY <1>2 DEF Verifies
  <2>2. l # None => l \in Sides(proof)
    BY <2>1, ChosenNonexist
  <2>3. r # None => r \in Sides(proof)
    BY <2>1, ChosenNonexist
  <2> HIDE DEF l, r
  <2>4. l # None => /\ IsExistenceProof(l)
                    /\ l.leaf # None => LeafIsUnambiguous(t.spec, l.leaf, l.key, l.value)
    BY <2>2 DEF LeavesKnown
  <2>5. r # None => /\ IsExistenceProof(r)
                    /\ r.leaf # None => LeafIsUnambiguous(t.spec, r.leaf, r.key, r.value)
    BY <2>3 DEF LeavesKnown
  <2> DEFINE keys == TreeKeys \union {i.key : i \in Range(q.items)}
  <2>6. IsStrictOrder(t.spec, keys)
    BY OrderAssumption
  <2>7. item.key \in keys
    OBVIOUS
  <2>8. \A x \in t.leaves : t.key[x] \in keys
    BY DEF TreeKeys
  <2> HIDE DEF keys
  <2> QED
    BY <2>1, <2>4, <2>5, <2>6, <2>7, <2>8, AbsenceTells
<1> QED
  BY <1>1, <1>2

-----------------------------------------------------------------------------
(* The invariant. *)

(* Where the machine of Compress is while a call goes on. *)
CodecControl ==
    /\ stage = "idle" => pc \in {"idle", "compress", "compressed"}
    /\ stage = "open" => pc \in {"idle", "decompress", "decompressed"}
    /\ stage = "open" /\ pc # "idle" => source = sent /\ sent.kind = "compressed"

(* What was sent opens as the prover's proof does, and is opened to it. *)
OpensAlike ==
    /\ stage # "idle" => /\ query \in Queries
                         /\ DecompressProof(sent) = DecompressProof(query.proof)
    /\ stage \in {"items", "answered"} => opened = DecompressProof(query.proof)

(* The items passed are those that are verified. *)
ItemsPassed ==
    /\ stage \in {"idle", "open"} => passed = 0
    /\ stage \in {"items", "answered"} =>
           \A i \in 1..passed : Verifies(query, opened, query.items[i])
    /\ answer = TRUE => passed = Len(query.items)
    /\ answer = FALSE =>
           \E i \in 1..Len(query.items) : ~Verifies(query, opened, query.items[i])

BatchInvariant ==
    /\ TypedCodec
    /\ BatchTypeOK
    /\ CodecControl
    /\ OpensAlike
    /\ ItemsPassed

LEMMA QueryType ==
    ASSUME NEW q \in Queries
    PROVE  /\ q # None /\ q.proof \in Proofs \union Received
           /\ IsCommitmentProof(q.proof)
           /\ IsSequence(q.items) /\ Len(q.items) \in Nat
BY QueriesAssumption, ProofsAssumption, SequenceType

(* Every step is one of the codec's caller, or none of its variables       *)
(* change.                                                                 *)
LEMMA CodecOfBatch ==
    ASSUME BatchTypeOK, [BatchNext]_apivars
    PROVE  [CodecNext]_vars
<1>1. CASE Submit \/ VerifyItem \/ AllVerified \/ Finish
  BY <1>1 DEF Submit, VerifyItem, AllVerified, Finish, codec
<1>2. CASE Prove
  BY <1>2 DEF Prove, CodecNext
<1>3. CASE SubmitCompressed \/ OpenDone
  BY <1>3 DEF SubmitCompressed, OpenDone, CodecNext
<1>4. CASE Open
  <2>1. IsCommitmentProof(sent)
    BY <1>4 DEF Open, BatchTypeOK
  <2> QED
    BY <1>4, <2>1 DEF Open, codec, CodecNext, DecompressAny
<1>5. CASE Decompression
  BY <1>5 DEF Decompression, CodecNext
<1>6. CASE UNCHANGED apivars
  BY <1>6 DEF apivars, codec
<1> QED
  BY <1>1, <1>2, <1>3, <1>4, <1>5, <1>6 DEF BatchNext

(* A compressed proof opens as the proof it was made of. *)
LEMMA CompressionUndone ==
    ASSUME NEW full \in Proofs, NEW packed, IsCompressionOf(packed, full)
    PROVE  DecompressProof(packed) = DecompressProof(full)
<1>1. CASE full.kind = "batch"
  <2>1. IsBatch(full) /\ PackedBatch(packed, full)
    BY <1>1, BatchType DEF IsCompressionOf
  <2>2. /\ packed.kind = "compressed" /\ Len(packed.entries) = Len(full.entries)
        /\ packed.lookup \in Seq(InnerOps)
    BY <2>1 DEF PackedBatch, Compressed
  <2> DEFINE back == [i \in 1..Len(packed.entries) |->
                         DecompressEntry(packed.entries[i], packed.lookup)]
  <2>3. \A i \in 1..Len(full.entries) : back[i] = full.entries[i]
    BY <2>1, <2>2, EntryRestored DEF PackedBatch, IsBatch
  <2>4. IsSequence(full.entries) /\ Len(full.entries) \in Nat
    BY <2>1, SequenceType DEF IsBatch
  <2>5. IsSequence(back) /\ Len(back) = Len(full.entries)
    BY <2>2, <2>4, FunctionSequence
  <2>6. DecompressProof(packed) = Batch(back)
    BY <2>2 DEF DecompressProof
  <2> HIDE DEF back
  <2>7. back = full.entries
    BY <2>3, <2>4, <2>5, EqualSequences
  <2> QED
    BY <1>1, <2>1, <2>6, <2>7 DEF IsBatch, DecompressProof
<1>2. CASE full.kind # "batch"
  BY <1>2 DEF IsCompressionOf
<1> QED
  BY <1>1, <1>2

LEMMA BatchControlStep ==
    ASSUME BatchInvariant, [BatchNext]_apivars
    PROVE  CodecControl' /\ OpensAlike'
<1>1. /\ TypedCodec /\ BatchTypeOK /\ CodecControl /\ OpensAlike
  BY DEF BatchInvariant
<1> USE <1>1
<1>2. CASE Submit
  <2>1. PICK q \in Queries : Ask(q, q.proof)
    BY <1>2 DEF Submit
  <2> QED
    BY <1>2, <2>1 DEF Submit, Ask, codec, vars, CodecControl, OpensAlike
<1>3. CASE Prove
  <2>1. pc' \in {"compress", "compressed"}
    BY <1>3 DEF Prove, CallCompress, Work, Untouched, CompressOp, FinishSide,
                FinishEntry, FinishCompress, Decompress, FinishDecompress, Return,
                Decompressing
  <2> QED
    BY <1>3, <2>1 DEF Prove, CodecControl, OpensAlike
<1>4. CASE SubmitCompressed
  <2>1. PICK q \in Queries : q.proof = origin /\ Ask(q, result)
    BY <1>4 DEF SubmitCompressed
  <2>2. origin \in Proofs /\ IsCompressionOf(result, origin)
    BY <1>4 DEF SubmitCompressed, TypedCodec, CodecInvariant, Control, Returned
  <2>3. DecompressProof(result) = DecompressProof(origin)
    BY <2>2, CompressionUndone
  <2> QED
    BY <1>4, <2>1, <2>3 DEF SubmitCompressed, Ask, GoOn, CodecControl, OpensAlike
<1>5. CASE Open
  <2>1. CASE sent.kind = "compressed"
    BY <1>5, <2>1 DEF Open, CallDecompress, CodecControl, OpensAlike
  <2>2. CASE sent.kind # "compressed"
    BY <1>5, <2>2 DEF Open, Opened, codec, vars, CodecControl, OpensAlike,
                      DecompressProof
  <2> QED
    BY <2>1, <2>2
<1>6. CASE Decompression
  <2>1. stage = "open" /\ pc = "decompress" /\ source = sent /\ sent.kind = "compressed"
    BY <1>6 DEF Decompression, Work, Untouched, CompressOp, FinishSide, FinishEntry,
                FinishCompress, Decompress, FinishDecompress, InSide, InEntry,
                Compressing, Decompressing, CodecControl
  <2>2. source' = source /\ pc' \in {"decompress", "decompressed"}
    BY <1>6, <2>1 DEF Decompression, Work, Untouched, CompressOp, FinishSide,
                FinishEntry, FinishCompress, Decompress, FinishDecompress, InSide,
                InEntry, Compressing, Decompressing, Return
  <2> QED
    BY <1>6, <2>1, <2>2 DEF Decompression, CodecControl, OpensAlike
<1>7. CASE OpenDone
  <2>1. result = DecompressProof(source) /\ source = sent
    BY <1>7 DEF OpenDone, TypedCodec, Unpacked, CodecControl
  <2> QED
    BY <1>7, <2>1 DEF OpenDone, Opened, GoOn, CodecControl, OpensAlike
<1>8. CASE VerifyItem
  BY <1>8 DEF VerifyItem, Answer, codec, vars, CodecControl, OpensAlike
<1>9. CASE AllVerified
  BY <1>9 DEF AllVerified, Answer, codec, vars, CodecControl, OpensAlike
<1>10. CASE Finish
  <2>1. pc = "idle"
    BY <1>10 DEF Finish, BatchTypeOK
  <2> QED
    BY <1>10, <2>1 DEF Finish, codec, vars, CodecControl, OpensAlike
<1>11. CASE UNCHANGED apivars
  BY <1>11 DEF apivars, codec, vars, CodecControl, OpensAlike
<1> QED
  BY <1>2, <1>3, <1>4, <1>5, <1>6, <1>7, <1>8, <1>9, <1>10, <1>11 DEF BatchNext

LEMMA BatchTypeStep ==
    ASSUME BatchInvariant, [BatchNext]_apivars
    PROVE  BatchTypeOK'
<1>1. /\ TypedCodec /\ BatchTypeOK /\ CodecControl /\ OpensAlike
  BY DEF BatchInvariant
<1>2. query # None => Len(query.items) \in Nat
  BY <1>1, QueryType DEF BatchTypeOK, OpensAlike
<1>0. stage = "idle" => passed = 0 /\ opened = None /\ answer = None
  BY <1>1, NoneNotBoolean DEF BatchInvariant, BatchTypeOK, ItemsPassed
<1> USE <1>1, <1>2 DEF BatchTypeOK
<1>3. CASE Submit
  <2>1. PICK q \in Queries : Ask(q, q.proof)
    BY <1>3 DEF Submit
  <2>2. /\ q # None /\ IsCommitmentProof(q.proof) /\ 0 <= Len(q.items)
        /\ query' = q /\ sent' = q.proof
    BY <2>1, QueryType DEF Ask
  <2>3. stage' = "open" /\ passed' = 0 /\ opened' = None /\ answer' = None
    BY <1>0, <1>3, <2>1 DEF Submit, Ask
  <2> QED
    BY <2>2, <2>3
<1>4. CASE Prove
  BY <1>4 DEF Prove
<1>5. CASE SubmitCompressed
  <2>1. PICK q \in Queries : Ask(q, result)
    BY <1>5 DEF SubmitCompressed
  <2>2. IsCommitmentProof(result)
    BY <1>5 DEF SubmitCompressed, TypedCodec, CompressTypeOK
  <2>3. /\ q # None /\ 0 <= Len(q.items)
        /\ query' = q /\ sent' = result
    BY <2>1, QueryType DEF Ask
  <2>4. stage' = "open" /\ passed' = 0 /\ opened' = None /\ answer' = None
    BY <1>0, <1>5, <2>1 DEF SubmitCompressed, Ask
  <2> QED
    BY <2>2, <2>3, <2>4
<1>6. CASE Open
  BY <1>6 DEF Open, Opened, codec, vars
<1>7. CASE Decompression
  BY <1>7 DEF Decompression
<1>8. CASE OpenDone
  <2>1. /\ pc = "decompressed" /\ source = sent /\ sent.kind = "compressed"
        /\ result = DecompressProof(source) /\ IsCommitmentProof(result)
    BY <1>8 DEF OpenDone, TypedCodec, Unpacked, CompressTypeOK, CodecControl
  <2>2. result.kind = "batch"
    BY <2>1 DEF DecompressProof, Batch
  <2> QED
    BY <1>8, <2>1, <2>2 DEF OpenDone, Opened, GoOn
<1>9. CASE VerifyItem
  <2>1. /\ stage = "items" /\ pc = "idle" /\ pc' = pc /\ query # None
        /\ UNCHANGED <<query, sent, opened>>
        /\ IsCommitmentProof(sent) /\ IsCommitmentProof(opened)
        /\ opened.kind # "compressed" /\ answer = None
    BY <1>9 DEF VerifyItem, Answer, codec, vars
  <2>2. passed' \in Nat /\ passed' <= Len(query.items)
    BY <1>9, <2>1 DEF VerifyItem, Answer
  <2>3. \/ stage' = "items" /\ answer' = None
        \/ stage' = "answered" /\ answer' = FALSE
    BY <1>9, <2>1 DEF VerifyItem, Answer
  <2>4. CASE stage' = "items" /\ answer' = None
    BY <2>1, <2>2, <2>4
  <2>5. CASE stage' = "answered" /\ answer' = FALSE
    BY <2>1, <2>2, <2>5, NoneNotBoolean
  <2> QED
    BY <2>3, <2>4, <2>5
<1>10. CASE AllVerified
  <2>1. /\ stage = "items" /\ pc = "idle" /\ pc' = pc /\ query # None
        /\ UNCHANGED <<query, sent, opened, passed>>
        /\ IsCommitmentProof(sent) /\ IsCommitmentProof(opened)
        /\ opened.kind # "compressed" /\ stage' = "answered" /\ answer' = TRUE
    BY <1>10 DEF AllVerified, Answer, codec, vars
  <2> QED
    BY <2>1, NoneNotBoolean
<1>11. CASE Finish
  BY <1>11 DEF Finish, codec, vars
<1>12. CASE UNCHANGED apivars
  BY <1>12 DEF apivars, codec, vars
<1> QED
  BY <1>3, <1>4, <1>5, <1>6, <1>7, <1>8, <1>9, <1>10, <1>11, <1>12 DEF BatchNext

LEMMA ItemsStep ==
    ASSUME BatchInvariant, [BatchNext]_apivars
    PROVE  ItemsPassed'
<1>1. /\ BatchTypeOK /\ ItemsPassed /\ passed \in Nat
  BY DEF BatchInvariant, BatchTypeOK
<1>2. answer # None => stage = "answered"
  BY <1>1 DEF BatchTypeOK
<1>3. CASE Submit \/ Prove \/ SubmitCompressed \/ Decompression
  <2>1. /\ stage' \in {"idle", "open"} /\ answer' = None /\ passed' = 0
    <3>1. stage \in {"idle", "open"} /\ stage' \in {"idle", "open"}
      BY <1>3 DEF Submit, Prove, SubmitCompressed, Decompression, Ask
    <3>2. answer' = answer /\ passed' = passed
      BY <1>3 DEF Submit, Prove, SubmitCompressed, Decompression, Ask
    <3> QED
      BY <1>1, <1>2, <3>1, <3>2 DEF ItemsPassed, BatchTypeOK
  <2> QED
    BY <2>1, NoneNotBoolean DEF ItemsPassed
<1>4. CASE Open \/ OpenDone
  <2>1. /\ stage = "open" /\ stage' \in {"open", "items"}
        /\ answer' = answer /\ passed' = passed
    BY <1>4 DEF Open, OpenDone, Opened
  <2>2. answer' = None /\ passed' = 0
    BY <1>1, <1>2, <2>1 DEF ItemsPassed, BatchTypeOK
  <2>3. \A i \in 1..passed' : FALSE
    BY <2>2
  <2>4. ~(answer' = TRUE) /\ ~(answer' = FALSE)
    BY <2>2, NoneNotBoolean
  <2> QED
    BY <2>1, <2>2, <2>3, <2>4 DEF ItemsPassed
<1>5. CASE VerifyItem
  <2>1. /\ stage = "items" /\ answer = None /\ UNCHANGED <<query, opened>>
        /\ passed < Len(query.items) /\ passed + 1 \in 1..Len(query.items)
        /\ \A i \in 1..(passed + 1) : i \in 1..passed \/ i = passed + 1
    <3>1. query \in Queries
      BY <1>5 DEF VerifyItem, BatchInvariant, OpensAlike
    <3>2. Len(query.items) \in Nat
      BY <3>1, QueryType
    <3> QED
      BY <1>1, <1>2, <1>5, <3>2 DEF VerifyItem, Answer
  <2>2. CASE Verifies(query, opened, query.items[passed + 1])
    <3>1. /\ passed' = passed + 1 /\ stage' = stage /\ answer' = answer
      BY <1>5, <2>2 DEF VerifyItem
    <3> QED
      BY <1>1, <2>1, <2>2, <3>1, NoneNotBoolean DEF ItemsPassed
  <2>3. CASE ~Verifies(query, opened, query.items[passed + 1])
    BY <1>1, <1>5, <2>1, <2>3 DEF VerifyItem, Answer, ItemsPassed
  <2> QED
    BY <2>2, <2>3
<1>6. CASE AllVerified
  BY <1>1, <1>6 DEF AllVerified, Answer, ItemsPassed
<1>7. CASE Finish
  BY <1>7, NoneNotBoolean DEF Finish, ItemsPassed
<1>8. CASE UNCHANGED apivars
  BY <1>1, <1>8 DEF apivars, ItemsPassed
<1> QED
  BY <1>3, <1>4, <1>5, <1>6, <1>7, <1>8 DEF BatchNext

LEMMA BatchStart == ASSUME BatchInit PROVE BatchInvariant
<1>1. TypedCodec
  BY TypesInit DEF BatchInit
<1>2. BatchTypeOK
  BY NoneNotBoolean DEF BatchInit, Init, BatchTypeOK
<1>3. CodecControl /\ OpensAlike
  BY DEF BatchInit, Init, CodecControl, OpensAlike
<1>4. ItemsPassed
  BY NoneNotBoolean DEF BatchInit, ItemsPassed
<1> QED
  BY <1>1, <1>2, <1>3, <1>4 DEF BatchInvariant

LEMMA BatchStep ==
    ASSUME BatchInvariant, [BatchNext]_apivars
    PROVE  BatchInvariant'
<1>1. TypedCodec'
  BY CodecOfBatch, TypedCodecStep DEF BatchInvariant
<1> QED
  BY <1>1, BatchTypeStep, BatchControlStep, ItemsStep DEF BatchInvariant

(* The invariant of the entry points: where a call is, what it opened, and *)
(* that the items it passed are those that are verified.                   *)
THEOREM BatchInvariantHolds == BatchSpec => []BatchInvariant
BY BatchStart, BatchStep, PTL DEF BatchSpec

(* The types of a call, and that every call decompresses what it is sent,  *)
(* and goes back to its caller, before it looks at an item.                *)
THEOREM BatchTypeCorrect == BatchSpec => []BatchTypeOK
<1>1. BatchInvariant => BatchTypeOK
  BY DEF BatchInvariant
<1> QED
  BY <1>1, BatchInvariantHolds, PTL

(* verify_batch_membership and verify_batch_non_membership confirm only    *)
(* what is so: every item is in the tree with its value, or its key is not *)
(* in the tree, for a single item and many, a proof, a batch and a         *)
(* compressed batch, whatever its indexes are.                             *)
THEOREM BatchIsSound == BatchSpec => []BatchSound
<1>1. ASSUME BatchInvariant PROVE BatchSound
  <2> SUFFICES ASSUME answer = TRUE, LeavesKnown(query.spec, opened), NEW t \in Trees,
                      query.spec = t.spec, query.root = t.hash[t.root], TellsKeys(t),
                      NEW item \in Range(query.items)
               PROVE  IF query.about = "membership" THEN Stored(t, item.key, item.value)
                      ELSE t \in SortedTrees => ~HasKey(t, item.key)
    BY DEF BatchSound
  <2>1. stage = "answered" /\ passed = Len(query.items)
    BY <1>1, NoneNotBoolean DEF BatchInvariant, BatchTypeOK, ItemsPassed
  <2>2. query \in Queries /\ opened = DecompressProof(query.proof)
    BY <1>1, <2>1 DEF BatchInvariant, OpensAlike
  <2>3. \A i \in 1..Len(query.items) : Verifies(query, opened, query.items[i])
    BY <1>1, <2>1 DEF BatchInvariant, ItemsPassed
  <2>4. IsOpen(opened) /\ \A side \in Sides(opened) : IsExistenceProof(side)
    BY <2>2, QueryType, OpenedType
  <2>5. Verifies(query, opened, item)
    BY <2>2, <2>3, QueryType, SequenceType DEF Range
  <2> QED
    BY <2>2, <2>4, <2>5, ItemIsTrue
<1> QED
  BY <1>1, BatchInvariantHolds, PTL

(* A compressed proof gets the verdict of the proof it was made of, and    *)
(* the verdict is that of every item on its own.                           *)
THEOREM CompressionIsInvisible == BatchSpec => []CompressedAlike
<1>1. ASSUME BatchInvariant PROVE CompressedAlike
  <2> SUFFICES ASSUME stage = "answered"
               PROVE  answer <=> \A item \in Range(query.items) :
                          Verifies(query, DecompressProof(query.proof), item)
    BY DEF CompressedAlike
  <2>1. answer \in BOOLEAN
    BY <1>1 DEF BatchInvariant, BatchTypeOK
  <2>2. query \in Queries /\ opened = DecompressProof(query.proof)
    BY <1>1 DEF BatchInvariant, OpensAlike
  <2>3. DOMAIN query.items = 1..Len(query.items)
    BY <2>2, QueryType, SequenceType
  <2>4. CASE answer = TRUE
    <3>1. \A i \in 1..Len(query.items) : Verifies(query, opened, query.items[i])
      BY <1>1, <2>4 DEF BatchInvariant, ItemsPassed
    <3> QED
      BY <2>2, <2>3, <2>4, <3>1 DEF Range
  <2>5. CASE answer = FALSE
    <3>1. PICK i \in 1..Len(query.items) : ~Verifies(query, opened, query.items[i])
      BY <1>1, <2>5 DEF BatchInvariant, ItemsPassed
    <3>2. query.items[i] \in Range(query.items)
      BY <2>3 DEF Range
    <3> QED
      BY <2>2, <2>5, <3>1, <3>2
  <2> QED
    BY <2>1, <2>4, <2>5
<1> QED
  BY <1>1, BatchInvariantHolds, PTL

-----------------------------------------------------------------------------
(* The batches a store writes.                                             *)

LEMMA OrderedStoreOf ==
    ASSUME NEW q \in Queries, NEW t \in SortedTrees \intersect Stores, q.spec = t.spec
    PROVE  IsOrderedStore(t)
<1> DEFINE K == TreeKeys \union {item.key : item \in Range(q.items)}
<1>1. \A a, b, c \in K :
          /\ ~Before(t.spec, a, a)
          /\ Before(t.spec, a, b) /\ Before(t.spec, b, c) => Before(t.spec, a, c)
  BY OrderAssumption DEF IsStrictOrder
<1>2. \A n \in t.leaves : t.key[n] \in K
  BY DEF TreeKeys, Stores
<1> HIDE DEF K
<1> QED
  BY <1>1, <1>2 DEF IsOrderedStore, Ahead

(* The first entry for a key is the proof of the leaf with that key.       *)
LEMMA WrittenExist ==
    ASSUME NEW t, NEW e, Writes(t, e), NEW key, IsFor(e, key)
    PROVE  \E n \in t.leaves : e.sides[1] = HonestProof(t, n) /\ t.key[n] = key
<1>1. PICK n \in t.leaves : e = Exist(HonestProof(t, n))
  BY DEF Writes, IsFor, Nonexist
<1>2. e.sides[1] = HonestProof(t, n)
  BY <1>1 DEF Exist
<1>3. HonestProof(t, n).key = t.key[n]
  BY DEF HonestProof
<1> QED
  BY <1>2, <1>3 DEF IsFor

(* The entry for an absent key is about two leaves with none between.      *)
LEMMA WrittenNonexist ==
    ASSUME NEW t, IsOrderedStore(t), NEW e, Writes(t, e), NEW key, Encloses(t.spec, e, key)
    PROVE  \E a, b : /\ ClosesOn(t, a, b)
                     /\ a # None => Before(t.spec, t.key[a], key)
                     /\ b # None => Before(t.spec, key, t.key[b])
                     /\ e.sides[1] = SideOf(t, a) /\ e.sides[2] = SideOf(t, b)
<1> DEFINE before(n, m) == None \in {n, m} \/ Ahead(t, n, m)
           Pair(a, b) == /\ {a, b} # {None}
                         /\ e = Nonexist(SideOf(t, a), SideOf(t, b))
                         /\ before(a, b)
                         /\ \A m \in t.leaves : ~(before(a, m) /\ before(m, b))
<1>0. \A n \in t.leaves : e # Exist(HonestProof(t, n))
  BY DEF Encloses, Exist
<1>1. PICK a \in t.leaves \union {None}, b \in t.leaves \union {None} : Pair(a, b)
  BY <1>0, Zenon DEF Writes, SideOf, Ahead
<1>2. e.sides[1] = SideOf(t, a) /\ e.sides[2] = SideOf(t, b)
  BY <1>1 DEF Nonexist
<1>3. None \notin t.leaves
  BY OrderedStoreFacts, TreesAssumption DEF WellFormedTree
<1>4. \A x, y \in t.leaves : x = y \/ Ahead(t, x, y) \/ Ahead(t, y, x)
  BY OrderedStoreFacts, LeavesOfNode
<1>5. ClosesOn(t, a, b)
  <2>1. a # None /\ b # None => Ahead(t, a, b) /\ NothingIn(t, a, b)
    BY <1>1, <1>3, <1>4 DEF NothingIn
  <2>2. b = None => \A x \in t.leaves : x = a \/ Ahead(t, x, a)
    BY <1>1, <1>3, <1>4
  <2>3. a = None => \A x \in t.leaves : x = b \/ Ahead(t, b, x)
    BY <1>1, <1>3, <1>4
  <2> QED
    BY <1>1, <2>1, <2>2, <2>3 DEF ClosesOn
<1>6. a # None => Before(t.spec, t.key[a], key)
  <2> SUFFICES ASSUME a # None PROVE Before(t.spec, t.key[a], key)
    OBVIOUS
  <2>1. SideOf(t, a) # None /\ SideOf(t, a).key = t.key[a]
    BY <1>1, SideVerifies
  <2> QED
    BY <1>2, <2>1 DEF Encloses
<1>7. b # None => Before(t.spec, key, t.key[b])
  <2> SUFFICES ASSUME b # None PROVE Before(t.spec, key, t.key[b])
    OBVIOUS
  <2>1. SideOf(t, b) # None /\ SideOf(t, b).key = t.key[b]
    BY <1>1, SideVerifies
  <2> QED
    BY <1>2, <2>1 DEF Encloses
<1> QED
  BY <1>2, <1>5, <1>6, <1>7

LEMMA KeysDiffer ==
    ASSUME NEW t, IsOrderedStore(t), NEW n \in t.leaves, NEW m \in t.leaves,
           t.key[n] = t.key[m]
    PROVE  n = m
<1>1. n = m \/ Ahead(t, n, m) \/ Ahead(t, m, n)
  BY OrderedStoreFacts, LeavesOfNode
<1>2. Ahead(t, n, m) = Ahead(t, n, n) /\ Ahead(t, m, n) = Ahead(t, n, n)
  BY DEF Ahead
<1> QED
  BY <1>1, <1>2 DEF IsOrderedStore

LEMMA WrittenItem ==
    ASSUME NEW q \in Queries, NEW t, IsOrderedStore(t), q.spec = t.spec,
           q.root = t.hash[t.root], q.about = "absence" => NeighborsTold(t),
           NEW proof, IsBatch(proof), None \notin Range(proof.entries),
           \A e \in Range(proof.entries) : e.kind = "none" \/ Writes(t, e),
           NEW item, \E e \in Range(proof.entries) : ProvedBy(t, q, item, e)
    PROVE  Verifies(q, proof, item)
<1>0. /\ Len(proof.entries) \in Nat /\ DOMAIN proof.entries = 1..Len(proof.entries)
      /\ proof.kind = "batch"
  BY SequenceType DEF IsBatch
<1>1. PICK e \in Range(proof.entries) : ProvedBy(t, q, item, e)
  OBVIOUS
<1>2. PICK k \in 1..Len(proof.entries) : e = proof.entries[k]
  BY <1>0 DEF Range
<1>3. CASE q.about = "membership"
  <2> DEFINE places == {i \in 1..Len(proof.entries) : IsFor(proof.entries[i], item.key)}
             chosen == ExistFor(proof, item.key)
  <2>1. Stored(t, item.key, item.value) /\ IsFor(e, item.key)
    BY <1>1, <1>3 DEF ProvedBy
  <2>2. chosen = FirstOf(proof.entries, places) /\ k \in places
    BY <1>0, <1>2, <2>1 DEF ExistFor
  <2>3. PICK i \in places : chosen = proof.entries[i]
    <3>1. places \in SUBSET (1..Len(proof.entries)) /\ places # {}
      BY <2>2
    <3> HIDE DEF places
    <3> QED
      BY <1>0, <2>2, <3>1, FirstOfSome
  <2>4. /\ chosen # None /\ IsFor(chosen, item.key) /\ Writes(t, chosen)
    BY <1>0, <2>3 DEF Range, IsFor
  <2> HIDE DEF chosen
  <2>5. PICK n \in t.leaves : chosen.sides[1] = HonestProof(t, n) /\ t.key[n] = item.key
    BY <2>4, WrittenExist
  <2>6. PICK m \in t.leaves : t.key[m] = item.key /\ t.value[m] = item.value
    BY <2>1 DEF Stored
  <2>7. n = m
    BY <2>5, <2>6, KeysDiffer
  <2>8. VerifiesExistence(chosen.sides[1], q.spec, q.root, item.key, item.value)
    BY <2>5, <2>6, <2>7, OrderedStoreFacts, HonestVerifies
  <2> QED
    BY <1>3, <2>4, <2>8 DEF Verifies, chosen
<1>4. CASE q.about # "membership"
  <2> DEFINE places == {i \in 1..Len(proof.entries) :
                            Encloses(q.spec, proof.entries[i], item.key)}
             chosen == NonexistFor(q.spec, proof, item.key)
             pair   == [left |-> chosen.sides[1], right |-> chosen.sides[2]]
  <2>1. Encloses(t.spec, e, item.key) /\ NeighborsTold(t)
    BY <1>1, <1>4, QueriesAssumption DEF ProvedBy
  <2>2. chosen = FirstOf(proof.entries, places) /\ k \in places
    BY <1>0, <1>2, <2>1 DEF NonexistFor
  <2>3. PICK i \in places : chosen = proof.entries[i]
    <3>1. places \in SUBSET (1..Len(proof.entries)) /\ places # {}
      BY <2>2
    <3> HIDE DEF places
    <3> QED
      BY <1>0, <2>2, <3>1, FirstOfSome
  <2>4. /\ chosen # None /\ Encloses(t.spec, chosen, item.key) /\ Writes(t, chosen)
    BY <1>0, <2>3 DEF Range, Encloses
  <2> HIDE DEF chosen
  <2>5. PICK a, b : /\ ClosesOn(t, a, b)
                    /\ a # None => Before(t.spec, t.key[a], item.key)
                    /\ b # None => Before(t.spec, item.key, t.key[b])
                    /\ chosen.sides[1] = SideOf(t, a) /\ chosen.sides[2] = SideOf(t, b)
    BY <2>4, WrittenNonexist
  <2>6. pair.left = SideOf(t, a) /\ pair.right = SideOf(t, b)
    BY <2>5
  <2> HIDE DEF pair
  <2>7. VerifiesAbsence(pair, t.spec, t.hash[t.root], item.key)
    BY <2>1, <2>5, <2>6, PairVerifies
  <2> QED
    BY <1>4, <2>4, <2>7 DEF Verifies, chosen, pair
<1> QED
  BY <1>3, <1>4

(* A store's batch is accepted for every selection of what it proves, with *)
(* its entries in any order and any number of times, compressed or not:    *)
(* the entry that is found first is as good as the one that was meant.     *)
THEOREM HonestBatchesConfirmed == BatchSpec => []HonestBatchAccepted
<1>1. ASSUME BatchInvariant, CompressedAlike PROVE HonestBatchAccepted
  <2> SUFFICES ASSUME stage = "answered", query.proof.kind = "batch",
                      NEW t \in SortedTrees \intersect Stores,
                      query.spec = t.spec, query.root = t.hash[t.root],
                      query.about = "absence" => NeighborsTold(t),
                      \A e \in Range(query.proof.entries) : e.kind = "none" \/ Writes(t, e),
                      \A item \in Range(query.items) :
                          \E e \in Range(query.proof.entries) : ProvedBy(t, query, item, e)
               PROVE  answer
    BY DEF HonestBatchAccepted
  <2>1. query \in Queries
    BY <1>1 DEF BatchInvariant, OpensAlike
  <2>2. DecompressProof(query.proof) = query.proof
    BY DEF DecompressProof
  <2>3. IsBatch(query.proof) /\ None \notin Range(query.proof.entries)
    BY <2>1, QueryType, MessagesAssumption DEF IsCommitmentProof, IsEntry, IsCompressed
  <2>4. IsOrderedStore(t)
    BY <2>1, OrderedStoreOf
  <2>5. \A item \in Range(query.items) : Verifies(query, query.proof, item)
    BY <2>1, <2>3, <2>4, WrittenItem
  <2> QED
    BY <1>1, <2>2, <2>5 DEF CompressedAlike
<1> QED
  BY <1>1, BatchInvariantHolds, CompressionIsInvisible, PTL
=============================================================================
