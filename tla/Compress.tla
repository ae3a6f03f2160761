------------------------------ MODULE Compress ------------------------------
(***************************************************************************)
(* compress and decompress of rust/src/compress.rs, one call after the     *)
(* other.  compress_batch goes through the entries, their sides and the    *)
(* operations of each path, and shares one lookup table and one registry,  *)
(* from encoded operations to indexes, among all of them.                  *)
(***************************************************************************)
EXTENDS Batches

CONSTANTS
    InnerOps,   \* the operations that occur in the paths
    Proofs,     \* what compress is called with
    Received    \* what else decompress is called with

VARIABLES
    pc,         \* "idle", or the call that is running or has returned
    source,     \* the argument of the call
    lookup,     \* the lookup table so far
    registry,   \* the index of each operation that has one, by its encoding
    path,       \* the indexes of the operations of the current path so far
    sides,      \* the compressed sides of the current entry so far
    entries,    \* the entries of the result so far
    result,     \* what the last call returned, None before
    origin      \* the argument of compress, while its result is at hand

locals == <<lookup, registry, path, sides, entries>>
vars   == <<pc, source, locals, result, origin>>

(* An existence proof is never None, with its own path or with another.    *)
IsProof(p, ops) ==
    /\ p = WithPath(p, p.path)
    /\ p.path \in Seq(ops)
    /\ p # None
    /\ None \notin [key : {p.key}, value : {p.value}, leaf : {p.leaf},
                   path : Seq(Nat) \union Seq(InnerOps)]

Places(kind) == CASE kind = "exist" -> 1 [] kind = "nonexist" -> 2 [] OTHER -> 0

IsEntry(e, ops) ==
    /\ e.kind \in {"exist", "nonexist", "none"}
    /\ e = WithSides(e, e.sides)
    /\ IsSequence(e.sides)
    /\ Len(e.sides) = Places(e.kind)
    /\ e.kind = "exist" => e.sides[1] # None
    /\ \A i \in 1..Len(e.sides) : e.sides[i] = None \/ IsProof(e.sides[i], ops)

IsBatch(p) ==
    /\ p.kind = "batch"
    /\ p = Batch(p.entries)
    /\ IsSequence(p.entries)
    /\ \A i \in 1..Len(p.entries) : IsEntry(p.entries[i], InnerOps)

IsCompressed(p) ==
    /\ p.kind = "compressed"
    /\ p = Compressed(p.entries, p.lookup)
    /\ IsSequence(p.entries)
    /\ p.lookup \in Seq(InnerOps)
    /\ \A i \in 1..Len(p.entries) : IsEntry(p.entries[i], Int)

IsCommitmentProof(p) ==
    IsEntry(p, InnerOps) \/ IsBatch(p) \/ IsCompressed(p)

ASSUME ProofsAssumption ==
    \A p \in Proofs \union Received : IsCommitmentProof(p) /\ p # None

(* What an operation is encoded as tells it from the other ones.           *)
ASSUME EncodingAssumption ==
    \A a, b \in InnerOps : Encode(a) = Encode(b) => a = b

-----------------------------------------------------------------------------
Init ==
    /\ pc = "idle"
    /\ source = None
    /\ lookup = <<>>
    /\ registry = <<>>
    /\ path = <<>>
    /\ sides = <<>>
    /\ entries = <<>>
    /\ result = None
    /\ origin = None

CallCompress ==
    /\ pc = "idle"
    /\ pc' = "compress"
    /\ source' \in Proofs
    /\ origin' = source'
    /\ UNCHANGED <<locals, result>>

CallDecompress(p) ==
    /\ pc' = "decompress"
    /\ source' = p
    /\ UNCHANGED <<locals, result, origin>>

(* decompress is given what compress returned, or what somebody sent.      *)
DecompressOwn      == pc = "compressed" /\ CallDecompress(result)
DecompressReceived == pc = "idle" /\ \E p \in Received : CallDecompress(p)

Return(r) ==
    /\ pc' = IF pc = "compress" THEN "compressed" ELSE "decompressed"
    /\ result' = r
    /\ lookup' = <<>>
    /\ registry' = <<>>
    /\ path' = <<>>
    /\ sides' = <<>>
    /\ entries' = <<>>
    /\ UNCHANGED <<source, origin>>

(* compress of anything but a batch, decompress of anything but a          *)
(* compressed batch                                                        *)
Untouched ==
    /\ \/ pc = "compress" /\ source.kind # "batch"
       \/ pc = "decompress" /\ source.kind # "compressed"
    /\ Return(source)

-----------------------------------------------------------------------------
Compressing == pc = "compress" /\ source.kind = "batch"

Entry == source.entries[Len(entries) + 1]
Side  == Entry.sides[Len(sides) + 1]

InEntry == Compressing /\ Len(entries) < Len(source.entries)
InSide  == InEntry /\ Len(sides) < Len(Entry.sides)

(* As mutants: an operation is pushed again although it has an index; the  *)
(* index of a new operation is taken after it is pushed.                   *)
CompressOp_PushAlways ==
    /\ InSide
    /\ Side # None
    /\ Len(path) < Len(Side.path)
    /\ path' = Append(path, Len(lookup))
    /\ lookup' = Append(lookup, Side.path[Len(path) + 1])
    /\ UNCHANGED <<pc, source, registry, sides, entries, result, origin>>

CompressOp_LateIndex ==
    /\ InSide
    /\ Side # None
    /\ Len(path) < Len(Side.path)
    /\ LET op == Side.path[Len(path) + 1]
           x  == Encode(op)
       IN  \/ /\ x \in DOMAIN registry
              /\ path' = Append(path, registry[x])
              /\ UNCHANGED <<lookup, registry>>
           \/ /\ x \notin DOMAIN registry
              /\ path' = Append(path, Len(lookup))
              /\ lookup' = Append(lookup, op)
              /\ registry' = [y \in DOMAIN registry \union {x} |->
                                 IF y = x THEN Len(lookup') ELSE registry[y]]
    /\ UNCHANGED <<pc, source, sides, entries, result, origin>>

(* compress_exist: the index of the next operation, a new one if the       *)
(* registry has none.                                                      *)
CompressOp ==
    /\ InSide
    /\ Side # None
    /\ Len(path) < Len(Side.path)
    /\ LET op == Side.path[Len(path) + 1]
           x  == Encode(op)
       IN  \/ /\ x \in DOMAIN registry
              /\ path' = Append(path, registry[x])
              /\ UNCHANGED <<lookup, registry>>
           \/ /\ x \notin DOMAIN registry
              /\ path' = Append(path, Len(lookup))
              /\ lookup' = Append(lookup, op)
              /\ registry' = [y \in DOMAIN registry \union {x} |->
                                 IF y = x THEN Len(lookup) ELSE registry[y]]
    /\ UNCHANGED <<pc, source, sides, entries, result, origin>>

FinishSide ==
    /\ InSide
    /\ Side # None => Len(path) = Len(Side.path)
    /\ sides' = Append(sides, IF Side = None THEN None ELSE WithPath(Side, path))
    /\ path' = <<>>
    /\ UNCHANGED <<pc, source, lookup, registry, entries, result, origin>>

FinishEntry ==
    /\ InEntry
    /\ Len(sides) = Len(Entry.sides)
    /\ entries' = Append(entries, WithSides(Entry, sides))
    /\ sides' = <<>>
    /\ UNCHANGED <<pc, source, lookup, registry, path, result, origin>>

FinishCompress ==
    /\ Compressing
    /\ Len(entries) = Len(source.entries)
    /\ Return(Compressed(entries, lookup))

-----------------------------------------------------------------------------
Decompressing == pc = "decompress" /\ source.kind = "compressed"

Decompress ==
    /\ Decompressing
    /\ Len(entries) < Len(source.entries)
    /\ entries' = Append(entries, DecompressEntry(Entry, source.lookup))
    /\ UNCHANGED <<pc, source, lookup, registry, path, sides, result, origin>>

FinishDecompress ==
    /\ Decompressing
    /\ Len(entries) = Len(source.entries)
    /\ Return(Batch(entries))

GoOn ==
    /\ pc \in {"compressed", "decompressed"}
    /\ pc' = "idle"
    /\ source' = None
    /\ result' = None
    /\ origin' = None
    /\ UNCHANGED locals

(* The steps of a call that is running. *)
Work ==
    \/ Untouched \/ CompressOp \/ FinishSide \/ FinishEntry \/ FinishCompress
    \/ Decompress \/ FinishDecompress

Next == CallCompress \/ DecompressOwn \/ DecompressReceived \/ Work \/ GoOn

Spec == Init /\ [][Next]_vars
-----------------------------------------------------------------------------
CompressTypeOK ==
    /\ pc \in {"idle", "compress", "compressed", "decompress", "decompressed"}
    /\ IF pc = "idle" THEN source = None ELSE IsCommitmentProof(source)
    /\ lookup \in Seq(InnerOps)
    /\ path \in Seq(Nat)
    /\ IsSequence(sides)
    /\ IsSequence(entries)
    /\ IF pc \in {"idle", "compress"} \/ (pc = "decompress" /\ origin = None)
       THEN result = None ELSE IsCommitmentProof(result)
    /\ origin = None \/ origin \in Proofs
    /\ ~Compressing => lookup = <<>> /\ registry = <<>> /\ path = <<>> /\ sides = <<>>
    /\ ~Compressing /\ ~Decompressing => entries = <<>>

(* The indexes in packed stand for the first operations of full. *)
PackedPath(packed, full, table) ==
    /\ Len(packed) <= Len(full)
    /\ \A i \in 1..Len(packed) : /\ packed[i] \in 0..(Len(table) - 1)
                                 /\ table[packed[i] + 1] = full[i]

PackedSide(packed, full, table) ==
    IF full = None THEN packed = None
    ELSE /\ packed = WithPath(full, packed.path)
         /\ packed.path \in Seq(Nat)
         /\ Len(packed.path) = Len(full.path)
         /\ PackedPath(packed.path, full.path, table)

PackedEntry(packed, full, table) ==
    /\ packed = WithSides(full, packed.sides)
    /\ IsSequence(packed.sides)
    /\ Len(packed.sides) = Len(full.sides)
    /\ \A i \in 1..Len(full.sides) :
           PackedSide(packed.sides[i], full.sides[i], table)

PackedBatch(packed, full) ==
    /\ packed = Compressed(packed.entries, packed.lookup)
    /\ packed.lookup \in Seq(InnerOps)
    /\ IsSequence(packed.entries)
    /\ Len(packed.entries) = Len(full.entries)
    /\ \A i \in 1..Len(full.entries) :
           PackedEntry(packed.entries[i], full.entries[i], packed.lookup)

(* No two places of the table have the same operation. *)
SharedOnce(table) ==
    \A i, j \in 1..Len(table) : Encode(table[i]) = Encode(table[j]) => i = j

(* The registry and the table agree: every operation of the table is       *)
(* registered under its own index, and nothing else is.                    *)
RegistryMatches ==
    /\ DOMAIN registry = {Encode(lookup[i]) : i \in 1..Len(lookup)}
    /\ \A i \in 1..Len(lookup) : registry[Encode(lookup[i])] = i - 1

(* At every moment of compress_batch the indexes handed out so far, in     *)
(* entries that are done, in the side that is done and in the path that is *)
(* under way, stand for the operations they were handed out for, and the   *)
(* registry knows every operation of the table under its index.            *)
LookupConsistent ==
    Compressing =>
        /\ RegistryMatches
        /\ Len(entries) <= Len(source.entries)
        /\ \A i \in 1..Len(entries) :
               PackedEntry(entries[i], source.entries[i], lookup)
        /\ sides # <<>> =>
               /\ Len(entries) < Len(source.entries)
               /\ Len(sides) <= Len(Entry.sides)
               /\ \A i \in 1..Len(sides) :
                      PackedSide(sides[i], Entry.sides[i], lookup)
        /\ path # <<>> => InSide /\ Side # None /\ PackedPath(path, Side.path, lookup)

(* decompress gives back the batch that compress was called with, entry    *)
(* for entry and operation for operation, however much its paths share.    *)
RoundTrip ==
    (pc = "decompressed" /\ origin # None /\ origin.kind # "compressed") =>
        result = origin

(* A compressed batch holds each operation once, and one for every one it  *)
(* was made of.                                                            *)
NothingTwice ==
    (pc = "compressed" /\ origin.kind = "batch") => SharedOnce(result.lookup)
=============================================================================
