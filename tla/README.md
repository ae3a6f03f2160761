# TLA+ specification of ICS23

ICS23 checks Merkle proofs: given the root hash of a store, a *proof spec* that
describes how the store lays out and hashes its nodes, and a proof, it tells a
caller that a key has a value (`verify_membership`) or has none
(`verify_non_membership`). Inter-blockchain communication rests on it, so the
question asked here is the one its callers ask: when a call says yes, is the
key there (or absent), whatever the proof was? And when a store writes a correct
proof, is it accepted?

This directory holds TLA+ modules translated from the Rust crate under
`src/rust/src` and from the Go package under `src/go`, model-checked by TLC on
small instances, and proofs checked by TLAPS for instances of any size.

## The system

| Part | Source | State it keeps | Operations | What makes it correct |
|---|---|---|---|---|
| Leaf, inner, length and hash operations | `rust/src/ops.rs`, `host_functions.rs` | none | `apply_leaf`, `apply_inner`, `do_hash`, `do_length` | the bytes hashed determine key, value and children |
| Existence proofs | `rust/src/verify.rs` | the frame of a call: place in a loop, the hash so far | `verify_existence`, `calculate_existence_root` | what is accepted is in the tree; correct proofs are accepted |
| Non-existence proofs | `rust/src/verify.rs` | two paths that are popped, a loop counter, the frame of the callee | `verify_non_existence` | no key lies between two accepted neighbors; the loops end, and inside the paths unless both proofs are of one leaf |
| Predefined specs, IAVL rules | `rust/src/api.rs` | none | `iavl_spec`, `tendermint_spec`, `smt_spec`, `ensure_leaf_prefix`, `ensure_inner_prefix` | bytes cannot move between header, key and value |
| Batches | `rust/src/api.rs` | the opened proof, the items passed | `verify_membership`, `verify_non_membership` and their batch forms | every item is checked, with an entry that fits it |
| Compression | `rust/src/compress.rs` | registry, lookup table, half-built entries | `compress`, `decompress` | decompress undoes compress |
| JSON form of the messages | `rust/src/cosmos.ics23.v1.serde.rs` | the stack of `visit_map` calls, a variable per field | `Serialize`, `Deserialize` of thirteen messages and two enums | what is written is read back; what is read has that meaning |
| Go implementation | `go/ics23.go`, `proof.go`, `ops.go` | the arrays behind the slices of the operations | `VerifyMembership`, `VerifyNonMembership`, `Calculate` | the same as in Rust, with the same answers, from any number of goroutines |
| Generated protobuf code | `cosmos.ics23.v1.rs`, `proofs.pb.go` | none | wire format | only the slices that decoding makes |

The library is sequential and keeps nothing between calls, with one exception:
the Go operations append to the prefix they are given, so what one call leaves
behind a slice is there for the next, and calls that run at the same time on one
proof write to the same arrays. What else is hard is in the data a stranger
supplies: a proof chooses its leaf operation, every
inner operation with its prefix and suffix, the length of the path, and, in a
batch, which entries there are in which order. The parts interact by calls:
the batch functions decompress, select an entry and call `verify_existence` or
`verify_non_existence`; the latter calls `verify_existence` for each side and
then compares the two paths operation by operation. The hazards are therefore
sequences of legal operations that reach a wrong root, boundaries of lengths
and counts, the first failure among several checks, loops over two paths of
different lengths, and a lookup table that must stay consistent while it grows.

## Modules

| Module | Models | Extends |
|---|---|---|
| `Ops` | `ops.rs` and perfect hash functions | |
| `IavlPrefix` | varints and IAVL headers (`api.rs`) | `Ops` |
| `ProofSpecs` | predefined specs, `check_existence_spec` and what it calls | `IavlPrefix` |
| `MerkleTree`, `OrderedTree` | external: the stores' trees and the proofs they write | `ProofSpecs`, `Neighbors` |
| `Verifier` | abstract: a call is answered once, with "ok" only if its claim is justified | |
| `Existence` | `verify_existence`, `calculate_existence_root`, step by step | `MerkleTree` |
| `Neighbors` | padding, placeholders, neighbor steps | `ProofSpecs` |
| `Verdicts` | the verdicts of both functions in one piece, without steps | `Neighbors` |
| `NonExistence` | `verify_non_existence`, calling the machine of `Existence` | `Existence`, `OrderedTree`, `Verdicts` |
| `Batches` | batches, compressed batches, the encoding of an operation | `ProofSpecs` |
| `Compress` | `compress` and `decompress`, step by step | `Batches` |
| `BatchApi` | the entry points of `api.rs`, calling the machine of `Compress` | `Compress`, `Verdicts`, `OrderedTree` |
| `LeafFraming` | `apply_leaf`, and the ways to read what it hashes | `Ops` |
| `Schema` | the messages, their fields and names in JSON (`serde.rs`) | |
| `Structs` | the structs of the messages (`cosmos.ics23.v1.rs`) | `Schema` |
| `JsonReader` | `Deserialize`: a stack of `visit_map` calls, one step per member | `Structs` |
| `JsonCodec` | `Serialize`, and messages that are written and read back | `JsonReader` |
| `GoProofs` | the functions of `go/proof.go` and `go/ops.go`, answering yes, no, error or panic | `Verdicts` |
| `GoVerify` | the entry points of `go/ics23.go`, compared with trees and with the Rust answers | `GoProofs`, `MerkleTree`, `OrderedTree` |
| `GoSlices` | the slices behind `Apply` of `go/ops.go`, goroutines interleaved byte by byte | |
| `OpsProofs`, `TreeProofs` | lemmas about the operators of `Ops`, and of `Verdicts`, `MerkleTree` and `OrderedTree` | `Ops`; `Verdicts`, `OrderedTree` |
| `VerifyProofs` | theorems about `Existence`, in its first part, and `NonExistence` | `NonExistence`, `TreeProofs` |
| `GoVerifyProofs` | theorems about `GoVerify` | `GoVerify`, `TreeProofs` |
| `BatchApiProofs` | theorems about `Compress` and `BatchApi` | `BatchApi`, `TreeProofs` |
| `GoSlicesProofs`, `LeafFramingProofs` | theorems about the module each is named after | that module, and `OpsProofs` for the latter |
| `JsonProofs` | theorems about `JsonReader` and `JsonCodec` | `JsonCodec`, `OpsProofs` |
| `MCSizes`, `MCTrees`, `MCProofs`, `MCOrderedTrees` | sizes, trees and proofs shared by several runs | |
| `MCExistence`, `MCNonExistence`, `MCCompress`, `MCBatchApi`, `MCLeafFraming`, `MCJson`, `MCGoVerify`, `MCGoSlices` | values for TLC | |

### How state and actions correspond to the code

*Bytes and hashes.* A byte string is a sequence; a digest is a string whose
first byte carries the function and the input, the rest being filler of the
right length. Two digests are equal only if function and input are: this is the
collision resistance every user of the library assumes, stated without a
probability. Lengths keep their meaning but are constants: the literal 32 is
`HashSize`, a byte has `Radix` values, a varint at most `MaxVarintBytes`
groups, the literal 12 of `iavl_spec` is `IavlMaxPrefix`. The theorems hold for
all their values; TLC uses digests of two bytes and bytes of eight values.

*Existence.* `pc` says which part of the call runs. `Verify` and `Calculate`
are the two entry points; `CheckLeaf` and `CheckStep` are
`check_existence_spec` before and in its loop, `MatchKeyValue` the two
comparisons in between, `CalculateLeaf` and `CalculateStep` the fold of hashes
in `calculate_existence_root_for_spec`, `CompareRoot` the last comparison. Each
failing check is an early return: no later check is made. The `Err` texts are
left out.

*NonExistence.* The variables of `Existence` are the frame of the callee:
`CallLeft`, `Callee` and `ReturnLeft` are the call of `verify_existence` for
the left proof and the key comparison after it, and so for the right.
`ChooseShape` is the match on which proofs there are; `PopTops` one turn of the
loop of `ensure_left_neighbor`, whose `unwrap` of an empty path is the answer
"panic"; `RightMostStep` and `LeftMostStep` the loops over what is left.

*Compress.* `registry`, `lookup`, `path`, `sides` and `entries` are the locals
of `compress_batch` and `compress_exist`. The existence proofs in an entry are
its *sides*, in the order the code goes through them. `DecompressOwn` is the
round trip; `DecompressReceived` unpacks something somebody else packed.

*BatchApi.* `Submit` is a call with a proof as it is; `Prove` and
`SubmitCompressed` are a prover that compresses a batch before it is sent.
`VerifyItem` selects the first entry that fits and verifies it. The two
functions for one item are calls with one item. `query` has the proof the prover
started from and `sent` the one the call was given, so that the two verdicts can
be compared.

*JsonReader and JsonCodec.* A document is a tree of objects, lists and scalars.
`Schema` is the table that the generated code repeats message by message: for
each field its two spellings, its kind and its place in a oneof. `ReadScalar`,
`ReadMessage` and `ReadList` are the arms of the loop of `visit_map`: the key is
matched to a field (`FieldsNamed`), a second value for a variable that is set is
refused (`Free`), and the value is stored, or read by a call of its own that is
pushed on the stack; `EndMap` puts the defaults in and delivers the message to
the caller. A frame has the members of its object, how many of them are done, and
what they were read as (`got`); a slot that `got` does not have is a variable that
is still `None`. `ReadItem` and `EndList` read a list in the same way. `Write` is
`Serialize`, with its error for a number outside an enum. How serde_json and pbjson
read a number, base64 or a vector is external.

What is said of a message is said with what is said of the messages nested in it.
No message type contains itself, so `Writings`, what a message is written as, and
`Meanings`, what a document means, are recursive functions of the type; JSON values
are those nested `MaxNesting` deep at most, as serde_json's `recursion_limit` has
it. That is 128, here any number from 12, the depth of the deepest message type with
a list at each level. An error is an empty set of writings or meanings.

*GoProofs and GoVerify.* Each operator of `GoProofs` is a Go function, with the
outcome "err" where it returns an error and "panic" where it would index or slice
out of range. The variable `omitted` says whether the sender left empty fields
out, which is what decides whether `Suffix` is nil after decoding. A call is
answered in one step, because nothing but the arrays of `GoSlices` is shared, and
`OwnRoot` shows that sharing these does not matter.

*GoSlices.* A goroutine is a `calculate`. `StartApply` is `data := op.Prefix`,
each of the two appends either grows (`AppendGrows`, a copy to an array nobody
else has) or writes behind the slice (`AppendFits`, then a `CopyByte` per byte,
then `AppendReturns`), `DoHash` reads the slice. Two goroutines that copy the
same byte are a data race in Go's memory model; each byte is a step here, and
what matters is that all racing writes store the same byte. `memory` survives
calls: the next call finds what the last one left behind the prefix.

### What is assumed of the stores

`MerkleTree!WellFormedTree` and `OrderedTree!OrderedTree` say what a tree is: a
leaf's image is made by a leaf operation that the spec accepts; an inner node's
image is a header of an allowed length and one slot per child, `child_size`
bytes apart, with a digest or a placeholder in each; leaves below a slot come
before those below a slot of higher rank. `IsSoundSpec` says what a spec must
have for hashing to separate leaves from inner nodes: one real hash function, a
leaf prefix no longer than the shortest inner prefix, and slots wide enough for
a digest. All three predefined specs have it.
Integers of a spec are assumed not negative and `child_order` not empty, keys
compared by a strict total order.

For completeness a tree must also be one that has proofs to write: a *store*
(`MerkleTree!IsStore`). Its leaves are finitely many. Each node but the root is in
a slot of a node of greater `height`, the root is the highest, and below every
inner node there is a child, so the way up from a leaf (`Above`) ends at the root
after `Depth` steps; that number is within the spec's depths, where these are
looked at. No key or value is empty, because `apply_leaf` refuses these. In an
IAVL tree the bytes before the first slot are a header that
`ensure_iavl_prefix` accepts at each height up to the node's, as the real ones
are. Placeholders are as long as a slot, and headers vary by less than a slot, as
`ensure_inner` asks. Every tree of the passing runs is a store.

## Runs

| Run | Asks | Instance |
|---|---|---|
| `existence` | Is what is accepted in the tree, what a store writes accepted, and is each call answered as `Verifier` allows, with the verdict of `Verdicts`? | three trees of three leaves (Tendermint, sparse, IAVL); all proofs assembled from 4 leaf operations, 4 keys, 4 values and 9 x 12 paths, honest proofs, and honest proofs misused in 10 ways |
| `absence` | The same of absence; when do the loops run past the end of a path, is every call answered, is the verdict that of `Verdicts`, is the invariant of the proof one? | seven trees of two and three slots, leaning, full, with placeholders, with a single leaf; every pair of proofs of a tree, every key before, between, at and after its keys |
| `compress` | Does the batch come back, with each operation stored once, and do registry and table agree throughout? | all batches of at most two entries over four operations, paths of at most two; received batches with indexes from -1 to 2 into tables of at most one operation |
| `batch_api` | Are only true items confirmed, are the store's batches accepted, does compression change no verdict? | two trees; batches of one and two entries, correct and wrong, and of all seven entries in both orders; plain, compressed, and with damaged indexes; lists of up to four items |
| `leaf_framing` | Can the string that is hashed for a leaf be cut into another key and value, or their hashes? | all length operations without hashes, and with a hash of the value or of both; strings of up to two bytes, strings that hold the header of another, lengths around each varint size and up to 255 of the 256 that four bytes of four values count |
| `json` | Is a written message read back, is a foreign document read as what it means or refused, is the invariant of the proof one? | messages of all thirteen types with empty, default and full fields; documents with members in both spellings, twice, null, ill-typed, unknown, and nested lists |
| `go_verify` | Is what Go confirms true, what stores prove confirmed, when does it panic, and does it answer as Rust does? | all calls of `existence` and `absence`, and trees that only one of the two takes, with empty fields sent and left out |
| `go_slices` | Does each goroutine hash its own preimages, and does a proof stay as it is? | three goroutines; two proofs that share the leaf operation of a spec, and one of three operations with room for none, one or both appends; any number of calls |
| `max_depth`, `merk_order`, `right_gaps`, `go_merk_order` | Does the code do what a comment says? (It does not, see below.) | as above |

The bounds are chosen for the cases that matter. Three leaves at two depths
give a path that can end a level early or start a level late; one leaf's value
is the image of another, false leaf, so that a digest a caller may want to
present as a child is really part of a node. Two-byte digests next to one-byte
headers give inner prefixes just below, at and above every bound of
`ensure_inner`. Paths of up to three operations let neighbors fork at the top,
in the middle and at the bottom, with right-most and left-most parts below the
fork that are empty, plain, or full of placeholders. Four operations that differ
in one field each, one of them reading like another when its fields run together,
decide whether the registry's key tells them apart. `DefaultDepth`, 128 in
Go, is 3, so that a tree of five leaves exceeds it. Arrays come in multiples of
`SizeClass`, four bytes for the eight of Go's allocator, so that one of the
operations has room for what is appended first and not for what comes after it.
Nothing is unbounded: every run explores its whole state space.

*Fairness.* `absence` has the one liveness property, `EveryCallAnswered`. It
assumes weak fairness of `Running`, the disjunction of all steps of a call that has
begun: the thread that runs the call goes on running it. Nothing else runs in it,
and no fairness is assumed of new calls. That the loops of `visit_map` end is
serde's doing, whose `MapAccess` goes on to the next member or fails, and not a
property of this code.

*Types.* The type invariants (`TypeOK`, `AbsenceTypeOK`, `CompressTypeOK`,
`BatchTypeOK`, `SlicesTypeOK`) are parts of the inductive invariants of the proofs, or
follow from them, and are no properties of a run of their own, except `JsonTypeOK`, which also says that a
call is made only for a variable that is unset.

### When the loop over two paths panics

`ensure_left_neighbor` unwraps what it pops, and `IsLeftNeighbor` slices off the
last operation, without asking whether there is one. Two proofs verified for one root
part before either path ends, with one exception: both are of the same leaf,
whose bytes they read as two different keys, one before and one after the key asked
about. They can, because a leaf operation may have a longer prefix than the spec's, and
Tendermint's is not parsed as IAVL's is. The two paths are then the same, and the
call panics. `PanicsOnLeafReadTwice` says of every call with a sound spec, and
`GoPanicsOnLeafReadTwice` of every call with the root of a tree whose slots are in the
order of the keys, that it panics exactly then, and both runs have such calls, with empty paths and
with longer ones. No comment, test or document of the repository says anything of
the case, so it is stated here as what the code does. No key is confirmed absent by
a panic, so `NonMembershipSound` and the promise of `Verifier` take it for an error.

### Where the code and its comments disagree

- `max_depth`: `check_existence_spec` looks at `max_depth` only if `min_depth`
  is not 0; `proofs.proto` says that a `max_depth` above 0 bounds the number of
  operations, and 0 stands for 128.
- `merk_order`: `get_padding` finds a branch in `child_order` by value and goes
  on with the value, so the order has no effect. With `[0, 2, 1]`, which
  `proofs.proto` gives as an example, and a tree laid out by it, the absence of a
  key that the tree has is confirmed. `NonMembershipSound` is therefore stated
  for specs whose slots are in the order of the keys, as those of all predefined
  specs are. It is also stated for proofs whose leaf strings tell their keys
  (`KeysTold`: a leaf of the tree made of the same bytes has the same key).
  `KnownKeysAreTold` checks that the calls answered with "ok" for stores with
  unambiguous leaves are such calls; what the bytes of a leaf tell in general,
  and where lengths cut off at 32 bits end that, is the question of `LeafFraming`.
- `right_gaps`: `right_branches_are_empty` wants a suffix of exactly one child.
  With two empty siblings on the right a correct proof is refused, though the
  comment speaks of all empty children; `left_branches_are_empty` has no such
  limit. And `is_left_step` asks for neighboring slots, so two leaves with a
  placeholder between them are no neighbors. `AbsenceComplete` is therefore stated
  for stores with two slots per node, or without placeholders (`NeighborsTold`).
- `go_merk_order`: `leftBranchesAreEmpty` counts the slots to the left of a branch
  from the end of the prefix, but looks the siblings up by their positions. With
  `[0, 2, 1]` it looks at a slot that is not on the left, and the absence of a
  key the tree has is confirmed.

`ImplementationsAgree` lists all cases in which the Go and the Rust function
answer differently (`GoAlone`, `RustAlone`): a minimum without a maximum of the
depth, several placeholders on the right, slots in another order than the keys,
Go's default depth, the header rules for IAVL leaves and Tendermint nodes, and
KECCAK256 and BLAKE3, which Go does not have, as the hash of an operation or as a
pre-hash. In all other calls they agree, as `ImplementationsAlike` proves: the
list is complete for all specs, proofs and depths. The proof attempt found two
entries that the calls of the run had not asked for, the pre-hash and the order
of the slots; the run now has calls of both kinds and needs both. One of the
header rules is
`op.Suffix != nil` in `validateTendermintOps`: the honest proof of a right child is
refused if its empty suffix was sent as a field, though the proto file treats an
absent and an empty one alike. The readers of JSON have a similar corner: null is
taken for an absent message, and refused for every other field, lists included
(`ReadMessage`, `ReadList`, `ScalarsOf`), and after a null the field may come again.

## Proofs

The first part of `VerifyProofs` proves, for every set of requests and of well formed trees and
all values of the constants:

- `PathInvariantHolds`: the inductive invariant. `MembershipSound`
  alone is not inductive: it says nothing before the last comparison. The
  invariant adds that the checks made so far hold of the proof (`ChecksHold`) and
  that if the hash computed so far is the hash of *some* node of a tree, then the
  operations so far lead from a leaf of that tree, by parent steps, up to that
  node (`HashChain`). The root's hash is one such hash, so the comparison with
  the root ends the argument.
- `MembershipIsSound`: an accepted proof describes a leaf of the tree, and its
  path is the one from that leaf to the root.
- `VerdictIsFunction`: the machine, check by check, gives the verdict that
  `Verdicts` defines in one piece. The invariant (`VerdictInvariant`) adds what the
  checks passed so far contribute to the verdict (`CheckedSoFar`), and that the
  hash so far is the entry of the recursive function `Hashes` at the loop counter
  (`ComputedSoFar`). `Hashes` is unfolded once per step (`HashesStep`).
- `KeyValueIsSound`: the key and the value are those of a leaf of the tree. It
  goes on from `MembershipIsSound` with `LeafTold`: two leaf images that are equal
  and can each be read in one way have the same key and value. For that, varints
  are prefix-free (`VarintPrefixFree`), little-endian lengths of one width are
  told apart by their digits (`DigitsDetermine`), and an IAVL header ends where its
  varints end (`HeaderUnique`).
- `ImplementsVerifier`: the machine implements `Verifier` under the mapping of
  `Promise`.

The step from one node to its parent rests on two lemmas: a hash equal to a
node's hash is made from that node's image (`DoHashInjective` in `OpsProofs`),
and a prefix of allowed length around a digest inside an image ends where a
child's slot begins (`PrefixEndsAtSlot`, the arithmetic behind the bound
`max_prefix_length < min_prefix_length + child_size`).

The second part of `VerifyProofs` proves, for every set of ordered trees and of calls:

- `AbsenceInvariantHolds`: the inductive invariant. The
  answer is given after three loops over two paths that are shortened as they are
  read, so the invariant says what the steps already read have shown. Both paths
  were accepted for the root (`SidesAccepted`), hence each leads back from the
  root through nodes of the tree. While `PopTops` removes equal steps, both are at
  the same node (`AtFork`), whose leaves are consecutive in the order of keys.
  Where they differ, the left step and the right step are over neighboring slots,
  and no leaf lies between the two children. From there `RightMostStep` keeps
  that the left leaf is the last one below the operations passed, and
  `LeftMostStep` that the right leaf is the first (`PathsSeparate`).
- `NonMembershipIsSound`: an accepted proof means that the key is not in the tree.
- `CalleeIsExistence`: the frame of the callee behaves as the machine of
  `Existence` (`AbsenceSpec => Spec`), so the invariant of the first part holds of
  it, and each call of `verify_existence` brings back a sound claim.
- `ImplementsAbsencePromise`: the machine implements `Verifier` for absence.
- `AnswerInvariantHolds`, `AbsenceIsFunction`: the loops give the answer that
  `VerifiesAbsence` defines by quantifiers. The invariant says what the part of the
  paths already looked at adds to the answer: both sides verified, equal steps
  from the root down to what is left (`TopsCommon`), a left step where the paths
  part (`Parted`), edge steps in the lower ends (`EdgesPassed`).
- `KnownKeysTold`: a leaf that can be read in one way tells its key.
- `PanicsExactlyOnLeafReadTwice`: the loop over two paths runs past the end of one
  exactly in the case described above, for all specs that separate leaves from inner
  nodes, without a tree and without assuming how leaves are read. If one path
  were the end of the other, equal operations would have equal children down to the
  leaf of the shorter, which the longer has as an inner node (`ChildTold`,
  `EndsTogether`); but no image of a leaf is one of an inner node (`LeafIsNoInner`).
  So a path that is used up is the same as the other, from the same leaf image
  (`UsedUpTogether`), and the two keys differ, since one is before and the other after
  the one asked about. In the other direction, the loop never finds where such paths
  part (`SamePathPopped`), so it is never left for the loops after it
  (`SamePathNotParted`).

The lemmas it rests on: a step accepted above a node is over a slot of the
parent's image (`StepIsOverSlot`), and the padding that is computed from the spec
tells which slot that is (`PaddingTellsSlot`); a slot that reads as a placeholder
has no leaf below (`PlainSlotIsEmpty`: a placeholder is no digest); so what
`right_branches_are_empty` and `left_branches_are_empty` accept has nothing on that side
(`NothingOnTheRight`, `NothingOnTheLeft`). Of keys the proof uses only that they
are compared by a strict order (`OrderAssumption`).

The first part of `BatchApiProofs` proves `TableIsConsistent`, `CompressionIsLossless` and `OperationsAreShared` of `Compress`. `TypedCodec` adds to the type
invariant that what is being packed or unpacked is of the type it claims; under it
each step is one of `CodecNext`, whose calls any caller can make, so the results
hold in `BatchApi` too. `RoundTrip` is not inductive either; its invariant says
that all indexes handed out so far, in finished entries, finished sides and the
path under way, stand for their operations in the table so far, that the registry
is the inverse of the table, and that while a batch is unpacked the entries so
far are those of the original. Because the table only grows, indexes keep their
meaning (`PathGrows`, `SideGrows`, `EntryGrows`).

Its second part proves `BatchIsSound` and `CompressionIsInvisible`, for batches and lists of items of any length. The
invariant (`BatchInvariant`) says that what was opened is what was sent,
decompressed, that what was sent is the query's proof or what `compress` made of
it, and that each item passed so far was verified with what was opened. From
there, `Verdicts` leads to the tree (`ExistenceTells`, `AbsenceTells`) by the lemmas
of `TreeProofs` that serve the single calls, with `NothingBetween`: given two
trails that part side by side, or one on an edge, there is no leaf between them.

`GoVerifyProofs` proves `GoMembershipIsSound`, `GoNonMembershipIsSound` and
`GoPanicsExactlyOnLeafReadTwice`. The machine has one step per call (`AnswerIsOfCallHolds`), so the
work is in the functions. What Go accepts of a path is what the lemmas about nodes
need (`GoAcceptedOps`); where the slots are in key order, its search for a branch
in `child_order` finds the place (`PlaceOfBranch`, `GoPadding`, `OneOrder`); what it
takes for empty siblings are slots without leaves (`GoChildrenCompared`,
`EmptyRightIsClear`); every step of an accepted side is at a branch
(`SlotHasOrder`), and two accepted sides part before one ends (`GoPathsPart`),
unless they are of one leaf by one path, where the comparison runs past the end
(`GoOneWayPanics`). So nothing else is indexed out of range. The last theorem is
`ImplementationsAlike`: Go verifies a side if and only if Rust does, up to the
listed cases (`GoExistenceIsRusts`, `RustExistenceIsGos`), and judges the place of
two sides alike (`GoPlacedAlike`), with one exception: Rust's single child on the
right (`EdgeOfOneChild`).

`GoSlicesProofs` proves `ImagesAreOwn`, `RootsAreOwn` and `OpsStayUnchanged` for any number of goroutines. The invariant `SlicesInv` says
where each goroutine's slice is (the prefix of its operation, or an array of its
own), how long it is after each append, and that all bytes in it are those of its
own preimage. The heart is `CopyByteKeeps`: a byte written into an array that
another goroutine's slice is in. Then both are at the same operation, and it
has spare capacity, so it was decoded (`Capacity`); a decoded operation is at one
place of one proof (`DecodedOnce`), so both work on the same step of the same
proof and the byte is the one the other has or will have there. The assumption
`ProofsAssumption` names the hash after each step of a proof, `p.hashes`, so
that the root a lone call would return can be spoken of without recursion.

`LeafFramingProofs` proves `FramingHolds` and `LeafHasOneReading`. Both are about every
leaf operation that tells where the key ends (`TellsEnd`): by a length, by the size it
requires, or by hashing the key. A *reading* is a pair of parts, each as it is or as
long as the hash the operation makes of it (`Reads`), so that leaves which hash their
values, as all three predefined ones do, are covered; the second theorem goes back
from hashes to keys and values (`DoHashTold`). `HalvesTold` is the common part.
Without lengths the two keys have the same size. With lengths, for two readings whose lengths all
fit this is `LeafImageTold` of `OpsProofs`. The lengths of the second reading need not
fit, since the casts of `do_length` cut them off. A length of fixed width that was cut
off is greater than what it reads as by all that the width can count (`DigitsTell`),
which leaves no room for the other half (`FixedFrames`). For varints a length as great
as that is excluded: ten groups of seven bits count more bytes than a string can have
on a machine of 64 bits. The attempt to prove it without that condition failed for a
value so long that it ends in a header and one byte, and the property now states it.

`JsonProofs` proves, for messages and documents of any size, any set of byte
strings and any range of numbers:

- `EveryMessageIsRead`: all that a message is written as has one meaning, the
  message. The field tables are constants, so what the proof needs of them is one
  lemma (`Tables`): two fields of a message have different names in both
  spellings, and different slots unless they are alternatives of one oneof. Each
  type has a `Height`, above those of the types in it; the recursive definitions
  are unfolded by induction on it (`MeaningsEquation`, `WritingsEquation`), and so
  is the theorem (`MessageIsRead`). A value of a field is written as something that
  is read as that value and is not null (`ScalarIsRead`, `FieldIsRead`), every field
  that is not omitted is written once (`WrittenFields`), at most one alternative
  among them (`OneAlternative`), and a slot that none is written for holds its
  default (`OmittedSlot`).
- `ReaderInvariantHolds`: the inductive invariant. `ReadsMeaning` says nothing
  before the end. The invariant adds that each call under way has read what the
  members before the one it is at mean (`MapOK`, `ListOK`), and was made for the
  member the call below is at (`Called`). The loop notices a duplicate by the
  variables that are set, the meaning by comparing pairs of members; `CleanStep` and
  `GivenStep` show that both say the same of the next member. The reader ends all
  calls at the first error, so an error of the call on top must leave the *document*
  without a meaning, however many calls are below; that is `NoResult`, an induction
  down the stack.
- `JsonTypeCorrect`, `MeaningIsRead` and `MessagesRoundTrip` follow, the last with
  `EveryMessageIsRead`: the writer's document has the message as its meaning, and
  the reader finds the meaning.

Assumptions: those of the constants, each named where it is declared and
evaluated by TLC in every run that uses it (`HashLenAssumption`,
`TreesAssumption`, `RequestsAssumption`, ...). Most say that messages have the types
of their fields (`MessagesAssumption` of `BatchApi` and of `GoVerify`), that `None` is
none of the answers, and that keys are compared by a strict order.
`EncodingAssumption` says that the operations in the batches have different
encodings; that protobuf's encoding tells *all* operations apart stays with TLC, on
operations chosen to be confusable. For JSON, `TextAssumption` says that the field
and enum names are texts, `MaxNestingAssumption` that nesting goes at least as deep
as messages do, and `DocumentsAssumption` that documents are JSON. Two things are hypotheses of properties, not
assumptions: that a tree's leaves can be read in one way (`TellsKeys`), and that
its slots are in key order (`SortedTrees`).

Inductions over a path, a loop or a number are made with index sets
(`SetInduction`, `BoundedInduction` in `OpsProofs`): the prover takes no lemma with an
operator as its parameter, but a set of numbers that has 0 and with each number
the next has them all, and `PrimitiveRecursion` gives from that the equation of a
function defined by recursion.

Completeness is proved for every store, of any depth and any number of slots:
`HonestProofsAccepted` and `AbsentKeysConfirmed` (`VerifyProofs`),
`HonestBatchesConfirmed` (`BatchApiProofs`) and
`GoHonestConfirmed` (`GoVerifyProofs`). By `VerdictIsFunction`, `AbsenceIsFunction` and
the invariants of the other two, each is a statement about operators, and the
argument is in `TreeProofs`:

- The nodes above a leaf are strictly higher, so one of them is the root
  (`AboveStep`, `DepthFacts`), and the path a store writes climbs through them
  (`TreePathClimbs`, `HonestClimb`). Each of its operations passes the checks
  (`HonestInner`, and `HonestHeader` for IAVL), each hash is that of the node reached
  (`HonestHashes`), the last is the root's (`HonestRoot`): `HonestVerifies`.
- For a key that is absent, the leaf before it and the leaf after it exist if any
  leaf is on that side, because the leaves are finitely many (`NeighborsOfKey`). The
  climbs from both meet in a node (`ClimbsMeet`), from there on they are one, and
  the slots they arrive from are neighbors, or some leaf would be between the two
  (`ClimbsOfNeighbors`). Below the meeting point the left leaf is the last and the
  right leaf the first, so each step is over the slot on the edge or has only
  placeholders beyond it (`EdgeOnRight`, `EdgeOnLeft`): `PairVerifies`,
  `HonestAbsenceVerifies`.
- In a batch, the first entry that fits an item may be another than the one meant
  for it. For a key the tree has, it is a proof of the same leaf; for a key it has
  not, a pair around it without a leaf in between (`WrittenItem`).
- Go asks the same of the neighbors and more of the headers, so
  `ImplementationsAlike` carries the result over, except for an absence that only
  one side proves with several placeholders beyond it, which Go accepts and Rust
  does not; that one is proved from the edge alone (`OneSideConfirmed`). The
  property excepts the proofs that `GoRefuses`: a spec without a minimum of the
  depth and a deeper tree than Go's default, operations with hashes Go lacks, IAVL
  leaves that are not as `validateIavlOps` has them, and Tendermint nodes whose
  empty suffix was sent.

Only model-checked are the liveness property, `EveryCallAnswered`, which the prover
does not handle, and, of what is assumed, that protobuf tells operations apart.
`EveryCallAnswered` rests on the fairness named above and on a bound for the length of
a call, which TLC finds by going through all states.

## Not modelled

- The binary protobuf format (prost in Rust, `proofs.pb.go` in Go), except for the
  encoding of an operation that `compress` uses as a key and the slices that Go's
  decoding makes. It is generated or a library's.
- `NonExistenceProof.Calculate` of Go, which picks the first side and calls
  `Calculate` of it, and proofs of a type the Go entry points do not know, which
  they answer with false.
- The crate shell, the no_std check, the code generator, the test vectors: no
  logic of their own.
- Errors as values: an error is a refusal, whatever its text.
- Arithmetic that wraps in a spec with huge numbers, and lengths of data beyond 32
  bits except in `LeafFraming`.

## Plan

1. Done: `Ops`, `IavlPrefix`, `ProofSpecs`, `MerkleTree`, `Existence`, with
   `Verifier` as the abstract specification and its proofs.
2. Done: `Neighbors`, `OrderedTree`, `Verdicts`, `NonExistence`.
3. Done: `Batches`, `Compress` with its proofs, `BatchApi`.
4. Done: `Schema`, `JsonReader`, `JsonCodec`; `LeafFraming`.
5. Done: `GoProofs`, `GoVerify`; `GoSlices` with its proofs.
6. Done: the second part of `VerifyProofs`: two chains of nodes with a common top go through the
   same nodes, a left step means adjacent slots, the two loops lead to the last and
   the first leaf below a slot; hence `NonMembershipSound` and `KeepsAbsencePromise`.
7. Done: `TreeProofs`, with the lemmas the proofs share; the verdict invariants of
   `Existence` and `NonExistence`; `BatchApiProofs`; `GoVerifyProofs` with the agreement
   of the two implementations.
8. Done: completeness for every store, from the assumption that each leaf reaches the
   root: `HonestProofsAccepted`, `AbsentKeysConfirmed`, `HonestBatchesConfirmed`,
   `GoHonestConfirmed`.
9. Done: `LeafFramingProofs`.
10. Done: `Structs`; `JsonReader` and `JsonCodec` with functions in place of
   recursive operators, and `JsonProofs`.
