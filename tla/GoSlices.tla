------------------------------ MODULE GoSlices ------------------------------
(***************************************************************************)
(* The slices behind LeafOp.Apply and InnerOp.Apply of go/ops.go.  Both    *)
(* build their preimage with append, starting from the Prefix of the       *)
(* operation: when the array behind that slice has room, append writes     *)
(* into it, and goroutines that verify the same proof write into the same  *)
(* array at the same time.                                                 *)
(*                                                                         *)
(* A goroutine is an ExistenceProof.calculate of go/proof.go; every byte   *)
(* that append writes into an existing array is a step.  A read of several *)
(* bytes is one step: a read that other steps interrupt sees no byte that  *)
(* a reader at the moment of that byte would not see.  The errors of Apply *)
(* are those of GoProofs.                                                  *)
(***************************************************************************)
EXTENDS Integers, Sequences

CONSTANTS
    Goroutines,
    OpIds,        \* the operations in memory, as pointers
    Op,           \* their prefix, suffix and origin
    Proofs,       \* the proofs that calls are made with
    Bytes,
    Hash(_),      \* the hash function of all operations
    SizeClass     \* arrays are allocated in multiples of this many bytes

IsDecoded(o) == Op[o].origin = "decoded"

(* What Apply hashes at step n of a proof, if it runs alone: the prefix,   *)
(* then the prepared key and value, or the hash so far and the suffix.     *)
(* p.hashes[n] is the hash after that step.                                *)
Part(p, n, k) ==
    IF n = 1 THEN p.leafData[k]
    ELSE IF k = 1 THEN p.hashes[n - 1] ELSE Op[p.ops[n]].suffix

Preimage(p, n) == (Op[p.ops[n]].prefix \o Part(p, n, 1)) \o Part(p, n, 2)

IsProof(p) ==
    /\ p.ops \in Seq(OpIds)
    /\ p.ops # <<>>
    /\ p.leafData \in [1..2 -> Seq(Bytes)]
    /\ p.hashes \in Seq(Seq(Bytes))
    /\ Len(p.hashes) = Len(p.ops)
    /\ \A n \in 1..Len(p.ops) : p.hashes[n] = Hash(Preimage(p, n))

ASSUME OpsAssumption ==
    \A o \in OpIds : /\ Op[o].prefix \in Seq(Bytes)
                     /\ Op[o].suffix \in Seq(Bytes)

ASSUME ProofsAssumption == \A p \in Proofs : IsProof(p)

(* Unmarshal allocates every operation of the proof it decodes, so only an *)
(* operation a program wrote down, such as the LeafSpec of a ProofSpec,    *)
(* can be in two places.                                                   *)
ASSUME DecodedOnce ==
    \A p, q \in Proofs : \A n \in 1..Len(p.ops), m \in 1..Len(q.ops) :
        p.ops[n] = q.ops[m] /\ IsDecoded(p.ops[n]) => p = q /\ n = m

ASSUME BytesAssumption == 0 \in Bytes

ASSUME SizeClassAssumption == SizeClass \in Nat \ {0}

VARIABLES
    memory,    \* the bytes of every array
    call,      \* the proof a goroutine works on
    step,      \* the operation of it that is applied
    stage,     \* where in Apply the goroutine is
    data,      \* its local slice: array and length
    part,      \* which of the two appends comes next or runs
    written,   \* how many bytes that append has copied
    hash       \* res, the hash so far

vars == <<memory, call, step, stage, data, part, written, hash>>

-----------------------------------------------------------------------------
(* Arrays.                                                                 *)

OpArrays == OpIds \X {"prefix", "suffix"}
OwnArray(g) == <<g, "own">>
Arrays == OpArrays \union {OwnArray(g) : g \in Goroutines}

Field(a) == IF a[2] = "prefix" THEN Op[a[1]].prefix ELSE Op[a[1]].suffix

Rounded(n) == ((n + SizeClass - 1) \div SizeClass) * SizeClass

(* Mutant: every slice gets spare capacity, as if the prefixes of the      *)
(* ProofSpecs were built with append.                                      *)
Capacity_AlwaysRounded(o, n) == Rounded(n)

(* Unmarshal copies a field with append, which rounds the size up; a slice *)
(* literal has no spare byte.                                              *)
Capacity(o, n) == IF IsDecoded(o) THEN Rounded(n) ELSE n

(* What append allocates when the old array is too small. *)
Grown(cap, need) == Rounded(IF need > 2 * cap THEN need ELSE 2 * cap)

Padded(bytes, cap) ==
    [i \in 1..cap |-> IF i <= Len(bytes) THEN bytes[i] ELSE 0]

Read(array, n) == [i \in 1..n |-> memory[array][i]]

Cap(g) == Len(memory[data[g].array])

CurrentOp(g) == call[g].ops[step[g]]

(* What goroutine g appends now: its own data, or what it reads. *)
Appended(g) ==
    IF step[g] = 1 THEN call[g].leafData[part[g]]
    ELSE IF part[g] = 1 THEN hash[g]
    ELSE Read(<<CurrentOp(g), "suffix">>, Len(Op[CurrentOp(g)].suffix))

-----------------------------------------------------------------------------
Init ==
    /\ memory = [a \in Arrays |->
           IF a \in OpArrays
           THEN Padded(Field(a), Capacity(a[1], Len(Field(a))))
           ELSE <<>>]
    /\ call \in [Goroutines -> Proofs]
    /\ step = [g \in Goroutines |-> 1]
    /\ stage = [g \in Goroutines |-> "idle"]
    /\ data = [g \in Goroutines |-> [array |-> OwnArray(g), len |-> 0]]
    /\ part = [g \in Goroutines |-> 1]
    /\ written = [g \in Goroutines |-> 0]
    /\ hash = [g \in Goroutines |-> <<>>]

(* calculate is called. *)
Calculate(g, p) ==
    /\ stage[g] = "idle"
    /\ call' = [call EXCEPT ![g] = p]
    /\ step' = [step EXCEPT ![g] = 1]
    /\ stage' = [stage EXCEPT ![g] = "apply"]
    /\ hash' = [hash EXCEPT ![g] = <<>>]
    /\ UNCHANGED <<memory, data, part, written>>

(* Mutant: the buffer of the prefix is reused, data := op.Prefix[:0]. *)
StartApply_Resliced(g) ==
    /\ stage[g] = "apply"
    /\ data' = [data EXCEPT ![g] = [array |-> <<CurrentOp(g), "prefix">>, len |-> 0]]
    /\ part' = [part EXCEPT ![g] = 1]
    /\ stage' = [stage EXCEPT ![g] = "append"]
    /\ UNCHANGED <<memory, call, step, written, hash>>

(* data := op.Prefix *)
StartApply(g) ==
    /\ stage[g] = "apply"
    /\ data' = [data EXCEPT ![g] =
           [array |-> <<CurrentOp(g), "prefix">>,
            len |-> Len(Op[CurrentOp(g)].prefix)]]
    /\ part' = [part EXCEPT ![g] = 1]
    /\ stage' = [stage EXCEPT ![g] = "append"]
    /\ UNCHANGED <<memory, call, step, written, hash>>

(* Mutant: the copy to a larger array leaves out what is appended. *)
AppendGrows_OldOnly(g) ==
    LET need == data[g].len + Len(Appended(g))
        own == OwnArray(g)
    IN  /\ stage[g] = "append"
        /\ part[g] \in 1..2
        /\ need > Cap(g)
        /\ memory' = [memory EXCEPT ![own] =
               Padded(Read(data[g].array, data[g].len), Grown(Cap(g), need))]
        /\ data' = [data EXCEPT ![g] = [array |-> own, len |-> need]]
        /\ part' = [part EXCEPT ![g] = part[g] + 1]
        /\ UNCHANGED <<call, step, stage, written, hash>>

(* append finds no room and copies everything to an array of its own. *)
AppendGrows(g) ==
    LET need == data[g].len + Len(Appended(g))
        own == OwnArray(g)
    IN  /\ stage[g] = "append"
        /\ part[g] \in 1..2
        /\ need > Cap(g)
        /\ memory' = [memory EXCEPT ![own] =
               Padded(Read(data[g].array, data[g].len) \o Appended(g), Grown(Cap(g), need))]
        /\ data' = [data EXCEPT ![g] = [array |-> own, len |-> need]]
        /\ part' = [part EXCEPT ![g] = part[g] + 1]
        /\ UNCHANGED <<call, step, stage, written, hash>>

(* append finds room behind the slice. *)
AppendFits(g) ==
    /\ stage[g] = "append"
    /\ part[g] \in 1..2
    /\ data[g].len + Len(Appended(g)) <= Cap(g)
    /\ written' = [written EXCEPT ![g] = 0]
    /\ stage' = [stage EXCEPT ![g] = "copy"]
    /\ UNCHANGED <<memory, call, step, data, part, hash>>

CopyByte(g) ==
    /\ stage[g] = "copy"
    /\ written[g] < Len(Appended(g))
    /\ memory' = [memory EXCEPT ![data[g].array][data[g].len + written[g] + 1] =
           Appended(g)[written[g] + 1]]
    /\ written' = [written EXCEPT ![g] = written[g] + 1]
    /\ UNCHANGED <<call, step, stage, data, part, hash>>

AppendReturns(g) ==
    /\ stage[g] = "copy"
    /\ written[g] = Len(Appended(g))
    /\ data' = [data EXCEPT ![g] =
           [array |-> data[g].array, len |-> data[g].len + written[g]]]
    /\ part' = [part EXCEPT ![g] = part[g] + 1]
    /\ stage' = [stage EXCEPT ![g] = "append"]
    /\ written' = [written EXCEPT ![g] = 0]
    /\ UNCHANGED <<memory, call, step, hash>>

(* doHash, and calculate goes on with the next operation or returns. *)
DoHash(g) ==
    /\ stage[g] = "append"
    /\ part[g] = 3
    /\ hash' = [hash EXCEPT ![g] = Hash(Read(data[g].array, data[g].len))]
    /\ \/ /\ step[g] < Len(call[g].ops)
          /\ step' = [step EXCEPT ![g] = step[g] + 1]
          /\ stage' = [stage EXCEPT ![g] = "apply"]
       \/ /\ step[g] = Len(call[g].ops)
          /\ stage' = [stage EXCEPT ![g] = "return"]
          /\ UNCHANGED step
    /\ UNCHANGED <<memory, call, data, part, written>>

(* The caller has compared the root; its slices are garbage. *)
Return(g) ==
    /\ stage[g] = "return"
    /\ memory' = [memory EXCEPT ![OwnArray(g)] = <<>>]
    /\ data' = [data EXCEPT ![g] = [array |-> OwnArray(g), len |-> 0]]
    /\ part' = [part EXCEPT ![g] = 1]
    /\ step' = [step EXCEPT ![g] = 1]
    /\ hash' = [hash EXCEPT ![g] = <<>>]
    /\ stage' = [stage EXCEPT ![g] = "idle"]
    /\ UNCHANGED <<call, written>>

Steps(g) ==
    \/ \E p \in Proofs : Calculate(g, p)
    \/ StartApply(g)
    \/ AppendGrows(g)
    \/ AppendFits(g)
    \/ CopyByte(g)
    \/ AppendReturns(g)
    \/ DoHash(g)
    \/ Return(g)

Next == \E g \in Goroutines : Steps(g)

Spec == Init /\ [][Next]_vars

-----------------------------------------------------------------------------
(* Properties.                                                             *)

Image(g) == Preimage(call[g], step[g])

(* The bytes of its preimage that a goroutine has in place. *)
Filled(g) == data[g].len + written[g]

(* Type correctness; a slice and what is copied behind it stay within the  *)
(* array.                                                                  *)
SlicesTypeOK ==
    /\ memory \in [Arrays -> Seq(Bytes)]
    /\ call \in [Goroutines -> Proofs]
    /\ step \in [Goroutines -> Nat \ {0}]
    /\ stage \in [Goroutines -> {"idle", "apply", "append", "copy", "return"}]
    /\ data \in [Goroutines -> [array : Arrays, len : Nat]]
    /\ part \in [Goroutines -> 1..3]
    /\ written \in [Goroutines -> Nat]
    /\ hash \in [Goroutines -> Seq(Bytes)]
    /\ \A g \in Goroutines :
           /\ step[g] <= Len(call[g].ops)
           /\ Filled(g) <= Cap(g)

(* What a goroutine has in place is the beginning of its own preimage,     *)
(* whatever the others write into the same array, at every moment at which *)
(* doHash of go/ops.go or a growing append could read it; and doHash reads *)
(* all of it.                                                              *)
OwnImage ==
    \A g \in Goroutines : stage[g] \in {"append", "copy"} =>
        /\ \A i \in 1..Filled(g) : memory[data[g].array][i] = Image(g)[i]
        /\ part[g] = 3 => data[g].len = Len(Image(g))

(* calculate of go/proof.go returns the root of its own proof, as if no    *)
(* other goroutine ran.                                                    *)
OwnRoot ==
    \A g \in Goroutines : stage[g] = "return" =>
        hash[g] = call[g].hashes[Len(call[g].hashes)]

(* Verifying a proof does not change it: nobody writes into the bytes of a *)
(* prefix or a suffix that a program can see.                              *)
OpsUnchanged ==
    \A a \in OpArrays : \A i \in 1..Len(Field(a)) : memory[a][i] = Field(a)[i]
=============================================================================
