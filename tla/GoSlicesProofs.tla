--------------------------- MODULE GoSlicesProofs ---------------------------
(***************************************************************************)
(* Proof that goroutines which share the operations of go/ops.go hash      *)
(* their own preimages, for any number of goroutines and proofs.           *)
(***************************************************************************)
EXTENDS GoSlices, TLAPS

-----------------------------------------------------------------------------
(* The inductive invariant. *)

InApply(g) == stage[g] \in {"append", "copy"}

(* Where the k-th append of step n begins. *)
Offset(p, n, k) ==
    IF k = 1 THEN Len(Op[p.ops[n]].prefix)
    ELSE IF k = 2 THEN Len(Op[p.ops[n]].prefix) + Len(Part(p, n, 1))
    ELSE Len(Op[p.ops[n]].prefix) + Len(Part(p, n, 1)) + Len(Part(p, n, 2))

LocalTypes(g) ==
    /\ call[g] \in Proofs
    /\ step[g] \in 1..Len(call[g].ops)
    /\ stage[g] \in {"idle", "apply", "append", "copy", "return"}
    /\ data[g] \in [array : OpArrays \union {OwnArray(g)}, len : Nat]
    /\ part[g] \in 1..3
    /\ written[g] \in Nat
    /\ hash[g] \in Seq(Bytes)

HashSoFar(g) ==
    /\ (stage[g] \in {"apply", "append", "copy"} /\ step[g] > 1) =>
           hash[g] = call[g].hashes[step[g] - 1]
    /\ stage[g] = "return" =>
           step[g] = Len(call[g].ops) /\ hash[g] = call[g].hashes[step[g]]

(* A slice is that of the prefix, or of an array nobody else knows. *)
SliceKnown(g) ==
    InApply(g) =>
        /\ data[g].array \in {<<CurrentOp(g), "prefix">>, OwnArray(g)}
        /\ data[g].len = Offset(call[g], step[g], part[g])

Copying(g) ==
    /\ stage[g] # "copy" => written[g] = 0
    /\ stage[g] = "copy" =>
           /\ part[g] \in 1..2
           /\ written[g] <= Len(Part(call[g], step[g], part[g]))
           /\ data[g].len + Len(Part(call[g], step[g], part[g])) <= Cap(g)

InPlace(g) ==
    InApply(g) => \A i \in 1..Filled(g) : memory[data[g].array][i] = Image(g)[i]

LocalInv(g) ==
    /\ LocalTypes(g)
    /\ Filled(g) <= Cap(g)
    /\ HashSoFar(g)
    /\ SliceKnown(g)
    /\ Copying(g)
    /\ InPlace(g)

(* The arrays of the operations keep their size and their visible bytes. *)
MemoryInv ==
    /\ memory \in [Arrays -> Seq(Bytes)]
    /\ \A a \in OpArrays : Len(memory[a]) = Capacity(a[1], Len(Field(a)))
    /\ OpsUnchanged

Frames ==
    /\ call \in [Goroutines -> Proofs]
    /\ step \in [Goroutines -> Nat \ {0}]
    /\ stage \in [Goroutines -> {"idle", "apply", "append", "copy", "return"}]
    /\ data \in [Goroutines -> [array : Arrays, len : Nat]]
    /\ part \in [Goroutines -> 1..3]
    /\ written \in [Goroutines -> Nat]
    /\ hash \in [Goroutines -> Seq(Bytes)]

SlicesInv ==
    /\ Frames
    /\ MemoryInv
    /\ \A g \in Goroutines : LocalInv(g)

-----------------------------------------------------------------------------
(* Sequences. *)

LEMMA Joined ==
    ASSUME NEW s \in Seq(Bytes), NEW t \in Seq(Bytes)
    PROVE  /\ s \o t \in Seq(Bytes)
           /\ Len(s \o t) = Len(s) + Len(t)
           /\ \A i \in 1..Len(s) : (s \o t)[i] = s[i]
           /\ \A i \in 1..Len(t) : (s \o t)[Len(s) + i] = t[i]
OBVIOUS

LEMMA Elements ==
    ASSUME NEW s \in Seq(Bytes)
    PROVE  /\ Len(s) \in Nat
           /\ \A i \in 1..Len(s) : s[i] \in Bytes
OBVIOUS

(* What Read gives of the first n bytes of an array.                       *)
LEMMA ReadType ==
    ASSUME NEW a \in Arrays, memory[a] \in Seq(Bytes),
           NEW n \in Nat, n <= Len(memory[a])
    PROVE  /\ Read(a, n) \in Seq(Bytes)
           /\ Len(Read(a, n)) = n
           /\ \A i \in 1..n : Read(a, n)[i] = memory[a][i]
<1>1. \A i \in 1..n : memory[a][i] \in Bytes
  BY Elements
<1> QED
  BY <1>1 DEF Read

LEMMA PaddedType ==
    ASSUME NEW s \in Seq(Bytes), NEW n \in Nat
    PROVE  /\ Padded(s, n) \in Seq(Bytes)
           /\ Len(Padded(s, n)) = n
           /\ \A i \in 1..n : i <= Len(s) => Padded(s, n)[i] = s[i]
<1>1. \A i \in 1..n : (IF i <= Len(s) THEN s[i] ELSE 0) \in Bytes
  BY Elements, BytesAssumption
<1> QED
  BY <1>1 DEF Padded

(* Two sequences with the same length and the same elements.               *)
LEMMA SameSequence ==
    ASSUME NEW s \in Seq(Bytes), NEW t \in Seq(Bytes), Len(s) = Len(t),
           \A i \in 1..Len(s) : s[i] = t[i]
    PROVE  s = t
OBVIOUS

LEMMA RoundedUp ==
    ASSUME NEW n \in Nat
    PROVE  Rounded(n) \in Nat /\ n <= Rounded(n)
<1> DEFINE q == (n + SizeClass - 1) \div SizeClass
           r == (n + SizeClass - 1) % SizeClass
<1>1. /\ n + SizeClass - 1 \in Nat
      /\ SizeClass \in Nat
      /\ SizeClass > 0
  BY SizeClassAssumption
<1>2. /\ n + SizeClass - 1 = SizeClass * q + r
      /\ r \in 0..(SizeClass - 1)
      /\ q \in Nat
  BY <1>1
<1> HIDE DEF q, r
<1>3. SizeClass * q = q * SizeClass /\ q * SizeClass \in Nat
  BY <1>1, <1>2
<1>4. Rounded(n) = q * SizeClass
  BY DEF Rounded, q
<1> QED
  BY <1>1, <1>2, <1>3, <1>4

LEMMA CapacityType ==
    ASSUME NEW o \in OpIds, NEW n \in Nat
    PROVE  Capacity(o, n) \in Nat /\ n <= Capacity(o, n)
BY RoundedUp DEF Capacity

LEMMA GrownType ==
    ASSUME NEW cap \in Nat, NEW need \in Nat
    PROVE  Grown(cap, need) \in Nat /\ need <= Grown(cap, need)
<1>1. 2 * cap \in Nat
  OBVIOUS
<1>2. CASE need > 2 * cap
  BY <1>2, RoundedUp DEF Grown
<1>3. CASE ~(need > 2 * cap)
  BY <1>1, <1>3, RoundedUp DEF Grown
<1> QED
  BY <1>2, <1>3

-----------------------------------------------------------------------------
(* Preimages. *)

LEMMA PartType ==
    ASSUME NEW p \in Proofs, NEW n \in 1..Len(p.ops), NEW k \in 1..2
    PROVE  Part(p, n, k) \in Seq(Bytes)
<1>1. IsProof(p)
  BY ProofsAssumption
<1>2. p.ops[n] \in OpIds
  BY <1>1 DEF IsProof
<1>3. CASE n = 1
  BY <1>1, <1>3 DEF Part, IsProof
<1>4. CASE n # 1 /\ k = 1
  <2>1. n - 1 \in 1..Len(p.hashes)
    BY <1>1, <1>4 DEF IsProof
  <2> QED
    BY <1>1, <1>4, <2>1 DEF Part, IsProof
<1>5. CASE n # 1 /\ k = 2
  BY <1>2, <1>5, OpsAssumption DEF Part
<1> QED
  BY <1>3, <1>4, <1>5

LEMMA OffsetType ==
    ASSUME NEW p \in Proofs, NEW n \in 1..Len(p.ops)
    PROVE  /\ p.ops[n] \in OpIds
           /\ Op[p.ops[n]].prefix \in Seq(Bytes)
           /\ Op[p.ops[n]].suffix \in Seq(Bytes)
           /\ Offset(p, n, 1) = Len(Op[p.ops[n]].prefix)
           /\ \A k \in 1..3 : Offset(p, n, k) \in Nat
           /\ \A k \in 1..3 : Len(Op[p.ops[n]].prefix) <= Offset(p, n, k)
           /\ \A k \in 1..2 : Offset(p, n, k + 1) = Offset(p, n, k) + Len(Part(p, n, k))
<1>1. p.ops[n] \in OpIds
  BY ProofsAssumption DEF IsProof
<1>2. Op[p.ops[n]].prefix \in Seq(Bytes) /\ Op[p.ops[n]].suffix \in Seq(Bytes)
  BY <1>1, OpsAssumption
<1>3. Part(p, n, 1) \in Seq(Bytes) /\ Part(p, n, 2) \in Seq(Bytes)
  BY PartType
<1>4. /\ Len(Op[p.ops[n]].prefix) \in Nat
      /\ Len(Part(p, n, 1)) \in Nat
      /\ Len(Part(p, n, 2)) \in Nat
  BY <1>2, <1>3, Elements
<1> DEFINE a == Len(Op[p.ops[n]].prefix)
           b == Len(Part(p, n, 1))
           c == Len(Part(p, n, 2))
<1>5. /\ Offset(p, n, 1) = a
      /\ Offset(p, n, 2) = a + b
      /\ Offset(p, n, 3) = a + b + c
  BY <1>4 DEF Offset
<1>6. /\ a \in Nat /\ a + b \in Nat /\ a + b + c \in Nat
      /\ a <= a + b /\ a <= a + b + c
  BY <1>4
<1> HIDE DEF a, b, c
<1>7. \A k \in 1..3 : Offset(p, n, k) \in Nat /\ a <= Offset(p, n, k)
  BY <1>5, <1>6
<1>8. \A k \in 1..2 : Offset(p, n, k + 1) = Offset(p, n, k) + Len(Part(p, n, k))
  BY <1>5 DEF b, c
<1> QED
  BY <1>1, <1>2, <1>5, <1>7, <1>8 DEF a

(* Where the bytes of a preimage come from. *)
LEMMA PreimageBytes ==
    ASSUME NEW p \in Proofs, NEW n \in 1..Len(p.ops)
    PROVE  /\ Preimage(p, n) \in Seq(Bytes)
           /\ Len(Preimage(p, n)) = Offset(p, n, 3)
           /\ \A i \in 1..Len(Op[p.ops[n]].prefix) :
                  Preimage(p, n)[i] = Op[p.ops[n]].prefix[i]
           /\ \A k \in 1..2 : \A i \in 1..Len(Part(p, n, k)) :
                  Preimage(p, n)[Offset(p, n, k) + i] = Part(p, n, k)[i]
<1> DEFINE prefix == Op[p.ops[n]].prefix
           first == Part(p, n, 1)
           second == Part(p, n, 2)
           front == prefix \o first
<1>1. prefix \in Seq(Bytes) /\ first \in Seq(Bytes) /\ second \in Seq(Bytes)
  BY OffsetType, PartType
<1>2. Len(prefix) \in Nat /\ Len(first) \in Nat /\ Len(second) \in Nat
  BY <1>1, Elements
<1>3. Preimage(p, n) = front \o second
  BY DEF Preimage
<1>4. Offset(p, n, 1) = Len(prefix)
  BY DEF Offset
<1>5. Offset(p, n, 2) = Len(prefix) + Len(first)
  BY DEF Offset
<1>6. Offset(p, n, 3) = Len(prefix) + Len(first) + Len(second)
  BY DEF Offset
<1> HIDE DEF prefix, first, second
<1>7. /\ front \in Seq(Bytes)
      /\ Len(front) = Len(prefix) + Len(first)
      /\ \A i \in 1..Len(prefix) : front[i] = prefix[i]
      /\ \A i \in 1..Len(first) : front[Len(prefix) + i] = first[i]
  BY <1>1, Joined
<1> HIDE DEF front
<1>8. /\ front \o second \in Seq(Bytes)
      /\ Len(front \o second) = Len(front) + Len(second)
      /\ \A i \in 1..Len(front) : (front \o second)[i] = front[i]
      /\ \A i \in 1..Len(second) : (front \o second)[Len(front) + i] = second[i]
  BY <1>1, <1>7, Joined
<1>9. \A i \in 1..Len(prefix) : (front \o second)[i] = prefix[i]
  BY <1>2, <1>7, <1>8
<1>10. \A i \in 1..Len(first) : (front \o second)[Len(prefix) + i] = first[i]
  <2> SUFFICES ASSUME NEW i \in 1..Len(first)
               PROVE  (front \o second)[Len(prefix) + i] = first[i]
    OBVIOUS
  <2>1. Len(prefix) + i \in 1..Len(front)
    BY <1>2, <1>7
  <2> QED
    BY <1>7, <1>8, <2>1
<1>11. \A i \in 1..Len(second) : (front \o second)[(Len(prefix) + Len(first)) + i] = second[i]
  BY <1>7, <1>8
<1>12. \A k \in 1..2 : k = 1 \/ k = 2
  OBVIOUS
<1>13. /\ \A i \in 1..Len(first) : Preimage(p, n)[Offset(p, n, 1) + i] = first[i]
       /\ \A i \in 1..Len(second) : Preimage(p, n)[Offset(p, n, 2) + i] = second[i]
  BY <1>3, <1>4, <1>5, <1>10, <1>11
<1>14. \A k \in 1..2 : \A i \in 1..Len(Part(p, n, k)) :
           Preimage(p, n)[Offset(p, n, k) + i] = Part(p, n, k)[i]
  BY <1>12, <1>13 DEF first, second
<1>15. Len(Preimage(p, n)) = Offset(p, n, 3)
  BY <1>3, <1>6, <1>7, <1>8
<1>16. \A i \in 1..Len(Op[p.ops[n]].prefix) : Preimage(p, n)[i] = Op[p.ops[n]].prefix[i]
  BY <1>3, <1>9 DEF prefix
<1> QED
  BY <1>3, <1>8, <1>14, <1>15, <1>16

-----------------------------------------------------------------------------
(* What the invariant says of one goroutine. *)

LEMMA FieldType ==
    ASSUME NEW a \in OpArrays
    PROVE  /\ a \in Arrays
           /\ a[1] \in OpIds
           /\ Field(a) \in Seq(Bytes)
           /\ Len(Field(a)) \in Nat
           /\ Len(Field(a)) <= Capacity(a[1], Len(Field(a)))
<1>1. a \in Arrays /\ a[1] \in OpIds
  BY DEF OpArrays, Arrays
<1>2. Field(a) \in Seq(Bytes)
  BY <1>1, OpsAssumption DEF Field
<1>3. Len(Field(a)) \in Nat
  BY <1>2, Elements
<1> QED
  BY <1>1, <1>2, <1>3, CapacityType

LEMMA CapType ==
    ASSUME SlicesInv, NEW g \in Goroutines
    PROVE  /\ data[g].array \in Arrays
           /\ memory[data[g].array] \in Seq(Bytes)
           /\ Cap(g) \in Nat
           /\ data[g].len \in Nat
           /\ data[g].len <= Cap(g)
           /\ Filled(g) \in Nat
           /\ Filled(g) <= Cap(g)
<1>1. LocalInv(g) /\ MemoryInv
  BY DEF SlicesInv
<1>2. data[g].array \in Arrays
  BY <1>1 DEF LocalInv, LocalTypes, Arrays
<1>3. memory[data[g].array] \in Seq(Bytes)
  BY <1>1, <1>2 DEF MemoryInv
<1>4. Cap(g) \in Nat
  BY <1>3, Elements DEF Cap
<1>5. data[g].len \in Nat /\ written[g] \in Nat /\ Filled(g) <= Cap(g)
  BY <1>1 DEF LocalInv, LocalTypes
<1>6. Filled(g) = data[g].len + written[g]
  BY DEF Filled
<1> QED
  BY <1>2, <1>3, <1>4, <1>5, <1>6

(* What a goroutine appends is the part of its own preimage: the suffix it *)
(* reads is the one of the operation.                                      *)
LEMMA AppendsOwnPart ==
    ASSUME SlicesInv, NEW g \in Goroutines, InApply(g), part[g] \in 1..2
    PROVE  /\ Appended(g) = Part(call[g], step[g], part[g])
           /\ Appended(g) \in Seq(Bytes)
           /\ Len(Appended(g)) \in Nat
<1> DEFINE o == CurrentOp(g)
<1>1. LocalInv(g) /\ MemoryInv
  BY DEF SlicesInv
<1>2. call[g] \in Proofs /\ step[g] \in 1..Len(call[g].ops)
  BY <1>1 DEF LocalInv, LocalTypes
<1>3. o \in OpIds /\ Op[o].suffix \in Seq(Bytes)
  BY <1>2, OffsetType DEF CurrentOp
<1>4. Len(call[g].ops) \in Nat
  BY <1>2, ProofsAssumption DEF IsProof
<1>5. Appended(g) = Part(call[g], step[g], part[g])
  <2>1. CASE step[g] = 1
    BY <2>1 DEF Appended, Part
  <2>2. CASE step[g] # 1 /\ part[g] = 1
    <3>1. step[g] > 1
      BY <1>2, <1>4, <2>2
    <3>2. hash[g] = call[g].hashes[step[g] - 1]
      BY <1>1, <3>1 DEF LocalInv, HashSoFar, InApply
    <3> QED
      BY <2>2, <3>2 DEF Appended, Part
  <2>3. CASE step[g] # 1 /\ part[g] = 2
    <3> DEFINE a == <<o, "suffix">>
    <3>1. a \in OpArrays /\ Field(a) = Op[o].suffix
      BY <1>3 DEF OpArrays, Field
    <3>2. /\ a \in Arrays
          /\ memory[a] \in Seq(Bytes)
          /\ Len(Field(a)) \in Nat
          /\ Len(Field(a)) <= Len(memory[a])
      BY <1>1, <3>1, FieldType DEF MemoryInv
    <3>3. \A i \in 1..Len(Field(a)) : memory[a][i] = Field(a)[i]
      BY <1>1, <3>1 DEF MemoryInv, OpsUnchanged
    <3>4. Read(a, Len(Field(a))) = Field(a)
      <4> HIDE DEF a
      <4> DEFINE s == Read(a, Len(Field(a)))
      <4>1. Field(a) \in Seq(Bytes)
        BY <3>1, <1>3
      <4>2. /\ s \in Seq(Bytes)
            /\ Len(s) = Len(Field(a))
            /\ \A i \in 1..Len(Field(a)) : s[i] = memory[a][i]
        BY <3>2, ReadType
      <4> HIDE DEF s
      <4>3. s = Field(a)
        BY <3>3, <4>1, <4>2, SameSequence
      <4> QED
        BY <4>3 DEF s
    <3>5. Appended(g) = Read(a, Len(Field(a)))
      BY <2>3, <3>1 DEF Appended
    <3>6. Part(call[g], step[g], part[g]) = Field(a)
      BY <2>3, <3>1 DEF Part, CurrentOp
    <3> QED
      BY <3>4, <3>5, <3>6
  <2> QED
    BY <2>1, <2>2, <2>3
<1>6. Appended(g) \in Seq(Bytes)
  BY <1>2, <1>5, PartType
<1> QED
  BY <1>5, <1>6, Elements

(* What a goroutine knows of itself stays true when another one leaves its *)
(* local variables and the bytes it has in place alone.                    *)
LEMMA OthersKept ==
    ASSUME SlicesInv, NEW h \in Goroutines,
           call'[h] = call[h], step'[h] = step[h], stage'[h] = stage[h],
           data'[h] = data[h], part'[h] = part[h], written'[h] = written[h],
           hash'[h] = hash[h],
           Len(memory'[data[h].array]) = Len(memory[data[h].array]),
           InApply(h) => \A i \in 1..Filled(h) :
               memory'[data[h].array][i] = memory[data[h].array][i]
    PROVE  LocalInv(h)'
<1>1. LocalInv(h)
  BY DEF SlicesInv
<1>2. /\ Filled(h)' = Filled(h)
      /\ Cap(h)' = Cap(h)
      /\ Image(h)' = Image(h)
      /\ CurrentOp(h)' = CurrentOp(h)
      /\ InApply(h)' <=> InApply(h)
  BY DEF Filled, Cap, Image, CurrentOp, InApply
<1>3. LocalTypes(h)'
  BY <1>1 DEF LocalInv, LocalTypes
<1>4. HashSoFar(h)'
  BY <1>1 DEF LocalInv, HashSoFar
<1>5. SliceKnown(h)'
  BY <1>1, <1>2 DEF LocalInv, SliceKnown
<1>6. Copying(h)'
  BY <1>1, <1>2 DEF LocalInv, Copying
<1>7. InPlace(h)'
  BY <1>1, <1>2 DEF LocalInv, InPlace
<1> QED
  BY <1>1, <1>2, <1>3, <1>4, <1>5, <1>6, <1>7 DEF LocalInv

LEMMA MemoryKept ==
    ASSUME MemoryInv, UNCHANGED memory
    PROVE  MemoryInv'
BY DEF MemoryInv, OpsUnchanged

-----------------------------------------------------------------------------
(* The initial states. *)

LEMMA SlicesInit ==
    ASSUME Init
    PROVE  SlicesInv
<1>1. MemoryInv
  <2>1. ASSUME NEW a \in OpArrays
        PROVE  /\ memory[a] \in Seq(Bytes)
               /\ Len(memory[a]) = Capacity(a[1], Len(Field(a)))
               /\ \A i \in 1..Len(Field(a)) : memory[a][i] = Field(a)[i]
    <3> DEFINE cap == Capacity(a[1], Len(Field(a)))
    <3>1. memory[a] = Padded(Field(a), cap)
      BY FieldType DEF Init
    <3>2. /\ Field(a) \in Seq(Bytes)
          /\ cap \in Nat
          /\ Len(Field(a)) \in Nat
          /\ Len(Field(a)) <= cap
      BY FieldType, CapacityType
    <3> HIDE DEF cap
    <3>3. /\ Padded(Field(a), cap) \in Seq(Bytes)
          /\ Len(Padded(Field(a), cap)) = cap
          /\ \A i \in 1..cap : i <= Len(Field(a)) => Padded(Field(a), cap)[i] = Field(a)[i]
      BY <3>2, PaddedType
    <3> QED
      BY <3>1, <3>2, <3>3 DEF cap
  <2>2. ASSUME NEW a \in Arrays
        PROVE  memory[a] \in Seq(Bytes)
    <3>1. CASE a \in OpArrays
      BY <2>1, <3>1
    <3>2. CASE a \notin OpArrays
      <4>1. memory[a] = <<>>
        BY <3>2 DEF Init
      <4> QED
        BY <4>1
    <3> QED
      BY <3>1, <3>2
  <2>3. memory \in [Arrays -> Seq(Bytes)]
    BY <2>2 DEF Init
  <2> QED
    BY <2>1, <2>3 DEF MemoryInv, OpsUnchanged
<1>2. Frames
  BY DEF Init, Frames, Arrays
<1>3. ASSUME NEW g \in Goroutines
      PROVE  LocalInv(g)
  <2>1. /\ call[g] \in Proofs
        /\ stage[g] = "idle"
        /\ step[g] = 1
        /\ data[g] = [array |-> OwnArray(g), len |-> 0]
        /\ part[g] = 1
        /\ written[g] = 0
        /\ hash[g] = <<>>
    BY <1>3 DEF Init
  <2>2. 1 \in 1..Len(call[g].ops)
    BY <2>1, ProofsAssumption DEF IsProof
  <2>3. LocalTypes(g)
    BY <2>1, <2>2 DEF LocalTypes
  <2>4. Filled(g) = 0
    BY <2>1 DEF Filled
  <2>5. Cap(g) \in Nat
    BY <1>1, <1>3, <2>1, Elements DEF Cap, MemoryInv, Arrays
  <2>6. HashSoFar(g) /\ SliceKnown(g) /\ Copying(g) /\ InPlace(g)
    BY <2>1 DEF HashSoFar, SliceKnown, Copying, InPlace, InApply
  <2> QED
    BY <2>3, <2>4, <2>5, <2>6 DEF LocalInv
<1> QED
  BY <1>1, <1>2, <1>3 DEF SlicesInv

-----------------------------------------------------------------------------
(* Steps that leave the memory alone. *)

LEMMA OthersUntouched ==
    ASSUME SlicesInv, NEW h \in Goroutines, UNCHANGED memory,
           call'[h] = call[h], step'[h] = step[h], stage'[h] = stage[h],
           data'[h] = data[h], part'[h] = part[h], written'[h] = written[h],
           hash'[h] = hash[h]
    PROVE  LocalInv(h)'
BY OthersKept

LEMMA CalculateKeeps ==
    ASSUME SlicesInv, NEW g \in Goroutines, NEW p \in Proofs, Calculate(g, p)
    PROVE  SlicesInv'
<1> USE DEF Calculate
<1>1. Frames
  BY DEF SlicesInv
<1>2. LocalInv(g)
  BY DEF SlicesInv
<1>3. 1 \in 1..Len(p.ops)
  BY ProofsAssumption DEF IsProof
<1>4. MemoryInv'
  BY MemoryKept DEF SlicesInv
<1>5. Frames'
  BY <1>1 DEF Frames
<1>6. ASSUME NEW h \in Goroutines, h # g
      PROVE  LocalInv(h)'
  BY <1>1, <1>6, OthersUntouched DEF Frames
<1>7. /\ call'[g] = p
      /\ step'[g] = 1
      /\ stage'[g] = "apply"
      /\ hash'[g] = <<>>
  BY <1>1 DEF Frames
<1>8. LocalTypes(g)'
  BY <1>2, <1>3, <1>7 DEF LocalInv, LocalTypes
<1>9. (Filled(g) <= Cap(g))'
  BY <1>2 DEF LocalInv, Filled, Cap
<1>10. /\ HashSoFar(g)'
       /\ SliceKnown(g)'
       /\ InPlace(g)'
  BY <1>7 DEF HashSoFar, SliceKnown, InPlace, InApply
<1>11. Copying(g)'
  BY <1>2, <1>7 DEF LocalInv, Copying
<1>12. LocalInv(g)'
  BY <1>8, <1>9, <1>10, <1>11 DEF LocalInv
<1> QED
  BY <1>4, <1>5, <1>6, <1>12 DEF SlicesInv

LEMMA StartApplyKeeps ==
    ASSUME SlicesInv, NEW g \in Goroutines, StartApply(g)
    PROVE  SlicesInv'
<1> USE DEF StartApply
<1> DEFINE o == CurrentOp(g)
           a == <<o, "prefix">>
<1>1. Frames /\ MemoryInv
  BY DEF SlicesInv
<1>2. LocalInv(g)
  BY DEF SlicesInv
<1>3. call[g] \in Proofs /\ step[g] \in 1..Len(call[g].ops)
  BY <1>2 DEF LocalInv, LocalTypes
<1>4. o \in OpIds /\ Op[o].prefix \in Seq(Bytes)
  BY <1>3, OffsetType DEF CurrentOp
<1>5. a \in OpArrays /\ Field(a) = Op[o].prefix
  BY <1>4 DEF OpArrays, Field
<1>6. a \in Arrays /\ Len(Op[o].prefix) \in Nat /\ Len(Op[o].prefix) <= Len(memory[a])
  BY <1>1, <1>5, FieldType DEF MemoryInv
<1>7. /\ data'[g] = [array |-> a, len |-> Len(Op[o].prefix)]
      /\ part'[g] = 1
      /\ stage'[g] = "append"
      /\ CurrentOp(g)' = o
      /\ Image(g)' = Image(g)
  BY <1>1 DEF Frames, CurrentOp, Image
<1>8. written[g] = 0
  BY <1>2 DEF LocalInv, Copying
<1>9. MemoryInv'
  BY <1>1, MemoryKept
<1>10. Frames'
  <2>1. [array |-> a, len |-> Len(Op[o].prefix)] \in [array : Arrays, len : Nat]
    BY <1>6
  <2> QED
    BY <1>1, <2>1 DEF Frames
<1>11. ASSUME NEW h \in Goroutines, h # g
       PROVE  LocalInv(h)'
  BY <1>1, <1>11, OthersUntouched DEF Frames
<1>12. LocalTypes(g)'
  BY <1>2, <1>5, <1>6, <1>7 DEF LocalInv, LocalTypes
<1>13. /\ Filled(g)' = Len(Op[o].prefix)
       /\ Cap(g)' = Len(memory[a])
  BY <1>6, <1>7, <1>8 DEF Filled, Cap
<1>14. HashSoFar(g)'
  BY <1>2, <1>7 DEF LocalInv, HashSoFar
<1>15. SliceKnown(g)'
  BY <1>7 DEF SliceKnown, Offset, CurrentOp
<1>16. Copying(g)'
  BY <1>7, <1>8 DEF Copying
<1>17. InPlace(g)'
  <2>1. \A i \in 1..Len(Op[o].prefix) : memory[a][i] = Op[o].prefix[i]
    BY <1>1, <1>5 DEF MemoryInv, OpsUnchanged
  <2>2. \A i \in 1..Len(Op[o].prefix) : Image(g)[i] = Op[o].prefix[i]
    BY <1>3, PreimageBytes DEF Image, CurrentOp
  <2> QED
    BY <1>7, <1>13, <2>1, <2>2 DEF InPlace
<1>18. LocalInv(g)'
  BY <1>6, <1>12, <1>13, <1>14, <1>15, <1>16, <1>17 DEF LocalInv
<1> QED
  BY <1>9, <1>10, <1>11, <1>18 DEF SlicesInv

LEMMA AppendFitsKeeps ==
    ASSUME SlicesInv, NEW g \in Goroutines, AppendFits(g)
    PROVE  SlicesInv'
<1> USE DEF AppendFits
<1>1. Frames /\ MemoryInv
  BY DEF SlicesInv
<1>2. LocalInv(g)
  BY DEF SlicesInv
<1>3. /\ Appended(g) = Part(call[g], step[g], part[g])
      /\ Len(Appended(g)) \in Nat
  BY AppendsOwnPart DEF InApply
<1>4. written'[g] = 0 /\ stage'[g] = "copy"
  BY <1>1 DEF Frames
<1>5. written[g] = 0
  BY <1>2 DEF LocalInv, Copying
<1>6. MemoryInv'
  BY <1>1, MemoryKept
<1>7. Frames'
  BY <1>1 DEF Frames
<1>8. ASSUME NEW h \in Goroutines, h # g
      PROVE  LocalInv(h)'
  BY <1>1, <1>8, OthersUntouched DEF Frames
<1>9. /\ Filled(g)' = Filled(g)
      /\ Cap(g)' = Cap(g)
      /\ Image(g)' = Image(g)
      /\ CurrentOp(g)' = CurrentOp(g)
      /\ InApply(g) /\ InApply(g)'
  BY <1>4, <1>5 DEF Filled, Cap, Image, CurrentOp, InApply
<1>10. LocalTypes(g)'
  BY <1>2, <1>4 DEF LocalInv, LocalTypes
<1>11. HashSoFar(g)'
  BY <1>2, <1>4 DEF LocalInv, HashSoFar
<1>12. SliceKnown(g)'
  BY <1>2, <1>9 DEF LocalInv, SliceKnown
<1>13. Copying(g)'
  BY <1>3, <1>4, <1>9 DEF Copying
<1>14. InPlace(g)'
  BY <1>2, <1>9 DEF LocalInv, InPlace
<1>15. LocalInv(g)'
  BY <1>2, <1>9, <1>10, <1>11, <1>12, <1>13, <1>14 DEF LocalInv
<1> QED
  BY <1>6, <1>7, <1>8, <1>15 DEF SlicesInv

LEMMA AppendReturnsKeeps ==
    ASSUME SlicesInv, NEW g \in Goroutines, AppendReturns(g)
    PROVE  SlicesInv'
<1> USE DEF AppendReturns
<1>1. Frames /\ MemoryInv
  BY DEF SlicesInv
<1>2. LocalInv(g)
  BY DEF SlicesInv
<1>3. /\ call[g] \in Proofs
      /\ step[g] \in 1..Len(call[g].ops)
      /\ data[g] \in [array : OpArrays \union {OwnArray(g)}, len : Nat]
      /\ written[g] \in Nat
      /\ part[g] \in 1..2
  BY <1>2 DEF LocalInv, LocalTypes, Copying
<1>4. written[g] = Len(Part(call[g], step[g], part[g]))
  BY <1>3, AppendsOwnPart DEF InApply
<1>5. /\ data'[g].array = data[g].array
      /\ data'[g].len = data[g].len + written[g]
      /\ data'[g] \in [array : OpArrays \union {OwnArray(g)}, len : Nat]
      /\ part'[g] = part[g] + 1
      /\ stage'[g] = "append"
      /\ written'[g] = 0
  BY <1>1, <1>3 DEF Frames
<1>6. MemoryInv'
  BY <1>1, MemoryKept
<1>7. Frames'
  <2>1. [array |-> data[g].array, len |-> data[g].len + written[g]] \in [array : Arrays, len : Nat]
    BY <1>3 DEF Arrays
  <2>2. data' \in [Goroutines -> [array : Arrays, len : Nat]]
    BY <1>1, <1>3 DEF Frames
  <2> QED
    BY <1>1, <1>3, <2>2 DEF Frames
<1>8. ASSUME NEW h \in Goroutines, h # g
      PROVE  LocalInv(h)'
  BY <1>1, <1>8, OthersUntouched DEF Frames
<1>9. /\ Filled(g)' = Filled(g)
      /\ Cap(g)' = Cap(g)
      /\ Image(g)' = Image(g)
      /\ CurrentOp(g)' = CurrentOp(g)
      /\ InApply(g) /\ InApply(g)'
  BY <1>3, <1>5 DEF Filled, Cap, Image, CurrentOp, InApply
<1>10. LocalTypes(g)'
  BY <1>2, <1>3, <1>5 DEF LocalInv, LocalTypes
<1>11. HashSoFar(g)'
  BY <1>2, <1>5 DEF LocalInv, HashSoFar
<1>12. SliceKnown(g)'
  <2>1. /\ data[g].array \in {<<CurrentOp(g), "prefix">>, OwnArray(g)}
        /\ data[g].len = Offset(call[g], step[g], part[g])
    BY <1>2, <1>9 DEF LocalInv, SliceKnown
  <2>2. Offset(call[g], step[g], part[g] + 1) = data[g].len + written[g]
    BY <1>3, <1>4, <2>1, OffsetType
  <2> QED
    BY <1>5, <1>9, <2>1, <2>2 DEF SliceKnown
<1>13. Copying(g)'
  BY <1>5 DEF Copying
<1>14. InPlace(g)'
  BY <1>2, <1>5, <1>9 DEF LocalInv, InPlace
<1>15. LocalInv(g)'
  BY <1>2, <1>9, <1>10, <1>11, <1>12, <1>13, <1>14 DEF LocalInv
<1> QED
  BY <1>6, <1>7, <1>8, <1>15 DEF SlicesInv

(* A goroutine that has appended both parts hashes its own preimage. *)
LEMMA HashesOwnImage ==
    ASSUME SlicesInv, NEW g \in Goroutines, InApply(g), part[g] = 3
    PROVE  /\ data[g].len = Len(Image(g))
           /\ Read(data[g].array, data[g].len) = Image(g)
           /\ Hash(Image(g)) = call[g].hashes[step[g]]
           /\ Hash(Image(g)) \in Seq(Bytes)
<1>1. LocalInv(g)
  BY DEF SlicesInv
<1>2. call[g] \in Proofs /\ step[g] \in 1..Len(call[g].ops)
  BY <1>1 DEF LocalInv, LocalTypes
<1>3. Image(g) \in Seq(Bytes) /\ data[g].len = Len(Image(g))
  BY <1>1, <1>2, PreimageBytes DEF Image, LocalInv, SliceKnown
<1>4. written[g] = 0
  BY <1>1 DEF LocalInv, Copying
<1>5. /\ data[g].array \in Arrays
      /\ memory[data[g].array] \in Seq(Bytes)
      /\ data[g].len \in Nat
      /\ data[g].len <= Len(memory[data[g].array])
  BY CapType DEF Cap
<1>6. \A i \in 1..data[g].len : memory[data[g].array][i] = Image(g)[i]
  BY <1>1, <1>4, <1>5 DEF LocalInv, InPlace, Filled
<1>7. Read(data[g].array, data[g].len) = Image(g)
  <2> DEFINE s == Read(data[g].array, data[g].len)
  <2>1. /\ s \in Seq(Bytes)
        /\ Len(s) = data[g].len
        /\ \A i \in 1..data[g].len : s[i] = memory[data[g].array][i]
    BY <1>5, ReadType
  <2> HIDE DEF s
  <2>2. s = Image(g)
    BY <1>3, <1>6, <2>1, SameSequence
  <2> QED
    BY <2>2 DEF s
<1>8. IsProof(call[g])
  BY <1>2, ProofsAssumption
<1>9. Hash(Image(g)) = call[g].hashes[step[g]]
  BY <1>2, <1>8 DEF IsProof, Image
<1>10. call[g].hashes[step[g]] \in Seq(Bytes)
  BY <1>2, <1>8 DEF IsProof
<1> QED
  BY <1>3, <1>7, <1>9, <1>10

LEMMA DoHashKeeps ==
    ASSUME SlicesInv, NEW g \in Goroutines, DoHash(g)
    PROVE  SlicesInv'
<1> USE DEF DoHash
<1>1. Frames /\ MemoryInv
  BY DEF SlicesInv
<1>2. LocalInv(g)
  BY DEF SlicesInv
<1>3. /\ call[g] \in Proofs
      /\ step[g] \in 1..Len(call[g].ops)
      /\ Len(call[g].ops) \in Nat
  BY <1>2, ProofsAssumption DEF LocalInv, LocalTypes, IsProof
<1>4. /\ Hash(Read(data[g].array, data[g].len)) = call[g].hashes[step[g]]
      /\ call[g].hashes[step[g]] \in Seq(Bytes)
  BY HashesOwnImage DEF InApply
<1>5. hash'[g] = call[g].hashes[step[g]]
  BY <1>1, <1>4 DEF Frames
<1>6. \/ /\ step[g] < Len(call[g].ops)
         /\ step'[g] = step[g] + 1
         /\ stage'[g] = "apply"
      \/ /\ step[g] = Len(call[g].ops)
         /\ step'[g] = step[g]
         /\ stage'[g] = "return"
  BY <1>1 DEF Frames
<1>7. MemoryInv'
  BY <1>1, MemoryKept
<1>8. Frames'
  <2>1. hash' \in [Goroutines -> Seq(Bytes)]
    BY <1>1, <1>4 DEF Frames
  <2>2. step' \in [Goroutines -> Nat \ {0}]
    <3>1. step \in [Goroutines -> Nat \ {0}]
      BY <1>1 DEF Frames
    <3>2. step[g] + 1 \in Nat \ {0}
      BY <1>3
    <3>3. step' = step \/ step' = [step EXCEPT ![g] = step[g] + 1]
      OBVIOUS
    <3> HIDE DEF DoHash
    <3> QED
      BY <3>1, <3>2, <3>3
  <2>3. stage' \in [Goroutines -> {"idle", "apply", "append", "copy", "return"}]
    BY <1>1 DEF Frames
  <2> QED
    BY <1>1, <2>1, <2>2, <2>3 DEF Frames
<1>9. ASSUME NEW h \in Goroutines, h # g
      PROVE  LocalInv(h)'
  BY <1>1, <1>9, OthersUntouched DEF Frames
<1>10. Filled(g)' = Filled(g) /\ Cap(g)' = Cap(g)
  BY DEF Filled, Cap
<1>11. LocalTypes(g)'
  BY <1>2, <1>3, <1>4, <1>5, <1>6 DEF LocalInv, LocalTypes
<1>12. HashSoFar(g)'
  BY <1>3, <1>5, <1>6 DEF HashSoFar
<1>13. SliceKnown(g)' /\ InPlace(g)'
  BY <1>6 DEF SliceKnown, InPlace, InApply
<1>14. Copying(g)'
  BY <1>2, <1>6 DEF LocalInv, Copying
<1>15. LocalInv(g)'
  BY <1>2, <1>10, <1>11, <1>12, <1>13, <1>14 DEF LocalInv
<1> QED
  BY <1>7, <1>8, <1>9, <1>15 DEF SlicesInv

-----------------------------------------------------------------------------
(* Steps that write to an array. *)

LEMMA ArraysDiffer ==
    ASSUME NEW g \in Goroutines, NEW h \in Goroutines, g # h
    PROVE  OwnArray(g) # OwnArray(h)
BY DEF OwnArray

LEMMA OwnIsPrivate ==
    ASSUME NEW g \in Goroutines
    PROVE  OwnArray(g) \in Arrays /\ OwnArray(g) \notin OpArrays
BY DEF OwnArray, OpArrays, Arrays

(* Nobody else is affected by what a goroutine does to its own array. *)
LEMMA OwnArrayChanges ==
    ASSUME SlicesInv, NEW g \in Goroutines, NEW s \in Seq(Bytes),
           memory' = [memory EXCEPT ![OwnArray(g)] = s]
    PROVE  /\ MemoryInv'
           /\ memory'[OwnArray(g)] = s
           /\ \A h \in Goroutines \ {g} : memory'[data[h].array] = memory[data[h].array]
<1>1. MemoryInv
  BY DEF SlicesInv
<1>2. OwnArray(g) \in Arrays /\ OwnArray(g) \notin OpArrays
  BY OwnIsPrivate
<1>3. /\ memory' \in [Arrays -> Seq(Bytes)]
      /\ memory'[OwnArray(g)] = s
      /\ \A a \in Arrays : a # OwnArray(g) => memory'[a] = memory[a]
  BY <1>1, <1>2 DEF MemoryInv
<1>4. \A a \in OpArrays : memory'[a] = memory[a]
  BY <1>2, <1>3, FieldType
<1>5. MemoryInv'
  BY <1>1, <1>3, <1>4 DEF MemoryInv, OpsUnchanged
<1>6. ASSUME NEW h \in Goroutines, h # g
      PROVE  memory'[data[h].array] = memory[data[h].array]
  <2>1. data[h].array \in OpArrays \union {OwnArray(h)}
    BY DEF SlicesInv, LocalInv, LocalTypes
  <2>2. data[h].array # OwnArray(g)
    BY <1>2, <1>6, <2>1, ArraysDiffer
  <2> QED
    BY <1>3, <2>2, CapType
<1> QED
  BY <1>3, <1>5, <1>6

LEMMA ReturnKeeps ==
    ASSUME SlicesInv, NEW g \in Goroutines, Return(g)
    PROVE  SlicesInv'
<1> USE DEF Return
<1>1. Frames
  BY DEF SlicesInv
<1>2. LocalInv(g)
  BY DEF SlicesInv
<1>3. /\ step'[g] = 1
      /\ stage'[g] = "idle"
      /\ data'[g] = [array |-> OwnArray(g), len |-> 0]
      /\ part'[g] = 1
      /\ hash'[g] = <<>>
  BY <1>1 DEF Frames
<1>4. written[g] = 0
  BY <1>2 DEF LocalInv, Copying
<1>5. <<>> \in Seq(Bytes) /\ Len(<<>>) = 0
  OBVIOUS
<1>6. /\ MemoryInv'
      /\ memory'[OwnArray(g)] = <<>>
      /\ \A h \in Goroutines \ {g} : memory'[data[h].array] = memory[data[h].array]
  BY <1>5, OwnArrayChanges
<1>7. Frames'
  <2>1. [array |-> OwnArray(g), len |-> 0] \in [array : Arrays, len : Nat]
    BY OwnIsPrivate
  <2> QED
    BY <1>1, <2>1 DEF Frames
<1>8. ASSUME NEW h \in Goroutines, h # g
      PROVE  LocalInv(h)'
  <2>1. memory'[data[h].array] = memory[data[h].array]
    BY <1>6, <1>8
  <2>2. /\ call'[h] = call[h]
        /\ step'[h] = step[h]
        /\ stage'[h] = stage[h]
        /\ data'[h] = data[h]
        /\ part'[h] = part[h]
        /\ written'[h] = written[h]
        /\ hash'[h] = hash[h]
    BY <1>1, <1>8 DEF Frames
  <2> QED
    BY <2>1, <2>2, OthersKept
<1>9. 1 \in 1..Len(call[g].ops)
  BY <1>2, ProofsAssumption DEF LocalInv, LocalTypes, IsProof
<1>10. LocalTypes(g)'
  BY <1>2, <1>3, <1>5, <1>9 DEF LocalInv, LocalTypes
<1>11. Filled(g)' = 0 /\ Cap(g)' = 0
  BY <1>3, <1>4, <1>5, <1>6 DEF Filled, Cap
<1>12. HashSoFar(g)' /\ SliceKnown(g)' /\ InPlace(g)' /\ Copying(g)'
  BY <1>3, <1>4 DEF HashSoFar, SliceKnown, InPlace, InApply, Copying
<1>13. LocalInv(g)'
  BY <1>10, <1>11, <1>12 DEF LocalInv
<1> QED
  BY <1>6, <1>7, <1>8, <1>13 DEF SlicesInv

LEMMA AppendGrowsKeeps ==
    ASSUME SlicesInv, NEW g \in Goroutines, AppendGrows(g)
    PROVE  SlicesInv'
<1> DEFINE p == call[g]
           n == step[g]
           k == part[g]
           own == OwnArray(g)
           need == data[g].len + Len(Appended(g))
           old == Read(data[g].array, data[g].len)
           new == Padded(old \o Appended(g), Grown(Cap(g), need))
<1>1. Frames
  BY DEF SlicesInv
<1>2. LocalInv(g)
  BY DEF SlicesInv
<1>3. /\ stage[g] = "append"
      /\ k \in 1..2
      /\ memory' = [memory EXCEPT ![own] = new]
      /\ data' = [data EXCEPT ![g] = [array |-> own, len |-> need]]
      /\ part' = [part EXCEPT ![g] = k + 1]
      /\ UNCHANGED <<call, step, stage, written, hash>>
  BY DEF AppendGrows
<1>4. /\ Appended(g) = Part(p, n, k)
      /\ Appended(g) \in Seq(Bytes)
      /\ Len(Appended(g)) \in Nat
  BY <1>3, AppendsOwnPart DEF InApply
<1>5. /\ p \in Proofs
      /\ n \in 1..Len(p.ops)
      /\ hash[g] \in Seq(Bytes)
      /\ written[g] = 0
  BY <1>2, <1>3 DEF LocalInv, LocalTypes, Copying
<1>6. /\ data[g].array \in Arrays
      /\ memory[data[g].array] \in Seq(Bytes)
      /\ data[g].len \in Nat
      /\ data[g].len <= Len(memory[data[g].array])
      /\ Cap(g) \in Nat
  BY CapType DEF Cap
<1>7. data[g].len = Offset(p, n, k)
  BY <1>2, <1>3 DEF LocalInv, SliceKnown, InApply
<1>8. need \in Nat /\ need = Offset(p, n, k + 1)
  <2>1. Offset(p, n, k + 1) = Offset(p, n, k) + Len(Part(p, n, k))
    BY <1>3, <1>5, OffsetType
  <2> QED
    BY <1>4, <1>6, <1>7, <2>1
<1>9. /\ old \in Seq(Bytes)
      /\ Len(old) = data[g].len
      /\ \A i \in 1..data[g].len : old[i] = memory[data[g].array][i]
  BY <1>6, ReadType
<1>10. \A i \in 1..data[g].len : memory[data[g].array][i] = Image(g)[i]
  BY <1>2, <1>3, <1>5, <1>6 DEF LocalInv, InPlace, InApply, Filled
<1>11. \A i \in 1..Len(Appended(g)) : Image(g)[data[g].len + i] = Appended(g)[i]
  BY <1>3, <1>4, <1>5, <1>7, PreimageBytes DEF Image
<1>12. /\ new \in Seq(Bytes)
       /\ need <= Len(new)
       /\ \A i \in 1..need : new[i] = Image(g)[i]
  <2> DEFINE joined == old \o Appended(g)
             cap == Grown(Cap(g), need)
  <2> HIDE DEF old
  <2>1. /\ joined \in Seq(Bytes)
        /\ Len(joined) = need
        /\ \A i \in 1..data[g].len : joined[i] = old[i]
        /\ \A i \in 1..Len(Appended(g)) : joined[data[g].len + i] = Appended(g)[i]
    <3>1. /\ joined \in Seq(Bytes)
          /\ Len(joined) = Len(old) + Len(Appended(g))
          /\ \A i \in 1..Len(old) : joined[i] = old[i]
          /\ \A i \in 1..Len(Appended(g)) : joined[Len(old) + i] = Appended(g)[i]
      BY <1>4, <1>9, Joined
    <3> HIDE DEF joined
    <3> QED
      BY <1>9, <3>1
  <2>2. cap \in Nat /\ need <= cap
    BY <1>6, <1>8, GrownType
  <2> HIDE DEF joined, cap
  <2>3. /\ Padded(joined, cap) \in Seq(Bytes)
        /\ Len(Padded(joined, cap)) = cap
        /\ \A i \in 1..cap : i <= Len(joined) => Padded(joined, cap)[i] = joined[i]
    BY <2>1, <2>2, PaddedType
  <2>4. \A i \in 1..need : joined[i] = Image(g)[i]
    <3> SUFFICES ASSUME NEW i \in 1..need
                 PROVE  joined[i] = Image(g)[i]
      OBVIOUS
    <3>1. CASE i \in 1..data[g].len
      BY <1>9, <1>10, <2>1, <3>1
    <3>2. CASE i \notin 1..data[g].len
      <4>1. i - data[g].len \in 1..Len(Appended(g)) /\ i = data[g].len + (i - data[g].len)
        BY <1>4, <1>6, <3>2
      <4> QED
        BY <1>11, <2>1, <4>1
    <3> QED
      BY <3>1, <3>2
  <2>5. \A i \in 1..need : Padded(joined, cap)[i] = Image(g)[i]
    BY <1>8, <2>1, <2>2, <2>3, <2>4
  <2>6. new = Padded(joined, cap)
    BY DEF joined, cap
  <2> QED
    BY <2>2, <2>3, <2>5, <2>6
<1> HIDE DEF new, old, need
<1>13. /\ MemoryInv'
       /\ memory'[own] = new
       /\ \A h \in Goroutines \ {g} : memory'[data[h].array] = memory[data[h].array]
  BY <1>3, <1>12, OwnArrayChanges
<1>14. /\ data'[g] = [array |-> own, len |-> need]
       /\ part'[g] = k + 1
       /\ k + 1 \in 1..3
  BY <1>1, <1>3 DEF Frames
<1>15. Frames'
  <2>1. [array |-> own, len |-> need] \in [array : Arrays, len : Nat]
    BY <1>8, OwnIsPrivate
  <2> QED
    BY <1>1, <1>3, <1>14, <2>1 DEF Frames
<1>16. ASSUME NEW h \in Goroutines, h # g
       PROVE  LocalInv(h)'
  <2>1. memory'[data[h].array] = memory[data[h].array]
    BY <1>13, <1>16
  <2>2. /\ call'[h] = call[h]
        /\ step'[h] = step[h]
        /\ stage'[h] = stage[h]
        /\ data'[h] = data[h]
        /\ part'[h] = part[h]
        /\ written'[h] = written[h]
        /\ hash'[h] = hash[h]
    BY <1>1, <1>3, <1>16 DEF Frames
  <2> QED
    BY <2>1, <2>2, OthersKept
<1>17. LocalTypes(g)'
  BY <1>2, <1>3, <1>8, <1>14 DEF LocalInv, LocalTypes
<1>18. /\ Filled(g)' = need
       /\ Cap(g)' = Len(new)
       /\ Image(g)' = Image(g)
       /\ CurrentOp(g)' = CurrentOp(g)
  BY <1>3, <1>5, <1>8, <1>13, <1>14 DEF Filled, Cap, Image, CurrentOp
<1>19. HashSoFar(g)'
  BY <1>2, <1>3 DEF LocalInv, HashSoFar
<1>20. SliceKnown(g)'
  BY <1>3, <1>8, <1>14 DEF SliceKnown
<1>21. Copying(g)'
  BY <1>3, <1>5 DEF Copying
<1>22. InPlace(g)'
  BY <1>12, <1>13, <1>14, <1>18 DEF InPlace
<1>23. LocalInv(g)'
  BY <1>12, <1>17, <1>18, <1>19, <1>20, <1>21, <1>22 DEF LocalInv
<1> QED
  BY <1>13, <1>15, <1>16, <1>23 DEF SlicesInv

(* A byte that append copies into an array others may use is the byte that *)
(* they have there too, or one that they do not have in place yet.         *)
LEMMA CopyByteKeeps ==
    ASSUME SlicesInv, NEW g \in Goroutines, CopyByte(g)
    PROVE  SlicesInv'
<1> DEFINE p == call[g]
           n == step[g]
           k == part[g]
           a == data[g].array
           j == data[g].len + written[g] + 1
           b == Appended(g)[written[g] + 1]
           prefix == Op[CurrentOp(g)].prefix
<1>1. Frames /\ MemoryInv
  BY DEF SlicesInv
<1>2. LocalInv(g)
  BY DEF SlicesInv
<1>3. /\ stage[g] = "copy"
      /\ written[g] < Len(Appended(g))
      /\ memory' = [memory EXCEPT ![a][j] = b]
      /\ written' = [written EXCEPT ![g] = written[g] + 1]
      /\ UNCHANGED <<call, step, stage, data, part, hash>>
  BY DEF CopyByte
<1>4. /\ p \in Proofs
      /\ n \in 1..Len(p.ops)
      /\ k \in 1..2
      /\ written[g] \in Nat
      /\ data[g].len \in Nat
      /\ data[g].len + Len(Part(p, n, k)) <= Cap(g)
  BY <1>2, <1>3 DEF LocalInv, LocalTypes, Copying
<1>5. /\ Appended(g) = Part(p, n, k)
      /\ Appended(g) \in Seq(Bytes)
      /\ Len(Appended(g)) \in Nat
  BY <1>3, <1>4, AppendsOwnPart DEF InApply
<1>6. /\ a \in Arrays
      /\ memory[a] \in Seq(Bytes)
      /\ Cap(g) = Len(memory[a])
      /\ Cap(g) \in Nat
  BY CapType DEF Cap
<1>7. /\ a \in {<<CurrentOp(g), "prefix">>, OwnArray(g)}
      /\ data[g].len = Offset(p, n, k)
  BY <1>2, <1>3 DEF LocalInv, SliceKnown, InApply
<1>8. /\ CurrentOp(g) \in OpIds
      /\ prefix \in Seq(Bytes)
      /\ Len(prefix) \in Nat
      /\ Len(prefix) <= data[g].len
  <2>1. CurrentOp(g) \in OpIds /\ prefix \in Seq(Bytes) /\ Len(prefix) <= Offset(p, n, k)
    <3>1. CurrentOp(g) = p.ops[n]
      BY DEF CurrentOp
    <3>2. k \in 1..3
      BY <1>4
    <3> HIDE DEF p, n, k
    <3>3. Len(Op[p.ops[n]].prefix) <= Offset(p, n, k)
      BY <1>4, <3>2, OffsetType
    <3> QED
      BY <1>4, <3>1, <3>3, OffsetType
  <2>2. Len(prefix) \in Nat
    BY <2>1, Elements
  <2> QED
    BY <1>7, <2>1, <2>2
<1>9. /\ j \in 1..Len(memory[a])
      /\ j > Len(prefix)
      /\ j = data[g].len + (written[g] + 1)
      /\ written[g] + 1 \in 1..Len(Appended(g))
  <2> DEFINE w == written[g]
             l == data[g].len
             m == Len(Appended(g))
             c == Len(memory[a])
  <2>1. /\ w \in Nat /\ l \in Nat /\ m \in Nat /\ c \in Nat
        /\ w < m
        /\ l + m <= c
        /\ j = l + w + 1
        /\ Len(prefix) \in Nat
        /\ Len(prefix) <= l
    BY <1>3, <1>4, <1>5, <1>6, <1>8
  <2> HIDE DEF w, l, m, c, j, prefix
  <2>2. j \in 1..c /\ j > Len(prefix) /\ j = l + (w + 1) /\ w + 1 \in 1..m
    BY <2>1
  <2> QED
    BY <2>2 DEF w, l, m, c
<1>10. b \in Bytes /\ Image(g)[j] = b
  <2>1. b \in Bytes
    BY <1>5, <1>9, Elements
  <2>2. \A i \in 1..Len(Appended(g)) : Image(g)[data[g].len + i] = Appended(g)[i]
    <3>1. \A i \in 1..Len(Part(p, n, k)) :
              Preimage(p, n)[Offset(p, n, k) + i] = Part(p, n, k)[i]
      BY <1>4, PreimageBytes
    <3> QED
      BY <1>5, <1>7, <3>1 DEF Image
  <2> QED
    BY <1>9, <2>1, <2>2
<1> HIDE DEF j, b
<1>11. /\ memory' \in [Arrays -> Seq(Bytes)]
       /\ \A c \in Arrays : Len(memory'[c]) = Len(memory[c])
       /\ \A c \in Arrays : c # a => memory'[c] = memory[c]
       /\ memory'[a][j] = b
       /\ \A i \in 1..Len(memory[a]) : i # j => memory'[a][i] = memory[a][i]
  <2> DEFINE new == [memory[a] EXCEPT ![j] = b]
  <2>1. /\ new \in Seq(Bytes)
        /\ Len(new) = Len(memory[a])
        /\ new[j] = b
        /\ \A i \in 1..Len(memory[a]) : i # j => new[i] = memory[a][i]
    BY <1>6, <1>9, <1>10
  <2>2. memory' = [memory EXCEPT ![a] = new]
    BY <1>3
  <2>3. memory \in [Arrays -> Seq(Bytes)]
    BY <1>1 DEF MemoryInv
  <2> HIDE DEF new
  <2>4. /\ memory' \in [Arrays -> Seq(Bytes)]
        /\ memory'[a] = new
        /\ \A c \in Arrays : c # a => memory'[c] = memory[c]
    BY <1>6, <2>1, <2>2, <2>3
  <2> QED
    BY <2>1, <2>4
<1>12. MemoryInv'
  <2>1. ASSUME NEW c \in OpArrays
        PROVE  /\ Len(memory'[c]) = Capacity(c[1], Len(Field(c)))
               /\ \A i \in 1..Len(Field(c)) : memory'[c][i] = Field(c)[i]
    <3>1. /\ c \in Arrays
          /\ Len(memory[c]) = Capacity(c[1], Len(Field(c)))
          /\ \A i \in 1..Len(Field(c)) : memory[c][i] = Field(c)[i]
          /\ Len(Field(c)) \in Nat
          /\ Len(Field(c)) <= Len(memory[c])
      BY <1>1, FieldType DEF MemoryInv, OpsUnchanged
    <3>2. CASE c # a
      BY <1>11, <3>1, <3>2
    <3>3. CASE c = a
      <4>1. a = <<CurrentOp(g), "prefix">>
        BY <1>7, <3>3, OwnIsPrivate
      <4>2. Field(c) = prefix
        BY <3>3, <4>1 DEF Field
      <4>3. \A i \in 1..Len(Field(c)) : i \in 1..Len(memory[a]) /\ i # j
        BY <1>9, <3>1, <3>3, <4>2
      <4> QED
        BY <1>11, <3>1, <3>3, <4>3
    <3> QED
      BY <3>2, <3>3
  <2> QED
    BY <1>11, <2>1 DEF MemoryInv, OpsUnchanged
<1>13. Frames'
  BY <1>1, <1>3, <1>4 DEF Frames
<1>14. ASSUME NEW h \in Goroutines, h # g
       PROVE  LocalInv(h)'
  <2>1. LocalInv(h)
    BY DEF SlicesInv
  <2>2. /\ data[h].array \in Arrays
        /\ Filled(h) \in Nat
        /\ Filled(h) <= Len(memory[data[h].array])
    BY CapType DEF Cap
  <2>3. ASSUME InApply(h), NEW i \in 1..Filled(h)
        PROVE  memory'[data[h].array][i] = memory[data[h].array][i]
    <3>1. CASE data[h].array # a \/ i # j
      BY <1>11, <2>2, <3>1
    <3>2. CASE data[h].array = a /\ i = j
      <4>1. data[h].array \in {<<CurrentOp(h), "prefix">>, OwnArray(h)}
        BY <2>1, <2>3 DEF LocalInv, SliceKnown
      <4>2. a = <<CurrentOp(g), "prefix">> /\ CurrentOp(h) = CurrentOp(g)
        <5>1. <<CurrentOp(g), "prefix">> \in OpArrays
          BY <1>8 DEF OpArrays
        <5>2. call[h] \in Proofs /\ step[h] \in 1..Len(call[h].ops)
          BY <2>1 DEF LocalInv, LocalTypes
        <5>3. <<CurrentOp(h), "prefix">> \in OpArrays
          BY <5>2, OffsetType DEF OpArrays, CurrentOp
        <5> QED
          BY <1>7, <1>14, <3>2, <4>1, <5>1, <5>3, OwnIsPrivate, ArraysDiffer
      <4>3. IsDecoded(CurrentOp(g))
        <5>1. SUFFICES ASSUME ~IsDecoded(CurrentOp(g))
                       PROVE  FALSE
          OBVIOUS
        <5>2. a \in OpArrays /\ Field(a) = prefix /\ a[1] = CurrentOp(g)
          BY <1>8, <4>2 DEF OpArrays, Field
        <5>3. Len(memory[a]) = Len(prefix)
          BY <1>1, <5>1, <5>2 DEF MemoryInv, Capacity
        <5> QED
          BY <1>8, <1>9, <5>3 DEF j
      <4>4. call[h] = call[g] /\ step[h] = step[g]
        <5>1. call[h] \in Proofs /\ step[h] \in 1..Len(call[h].ops)
          BY <2>1 DEF LocalInv, LocalTypes
        <5> QED
          BY <1>4, <4>2, <4>3, <5>1, DecodedOnce DEF CurrentOp
      <4>5. memory[a][j] = Image(h)[j]
        BY <2>1, <2>3, <3>2 DEF LocalInv, InPlace
      <4>6. Image(h)[j] = b
        BY <1>10, <4>4 DEF Image
      <4> QED
        BY <1>11, <3>2, <4>5, <4>6
    <3> QED
      BY <3>1, <3>2
  <2>4. /\ call'[h] = call[h]
        /\ step'[h] = step[h]
        /\ stage'[h] = stage[h]
        /\ data'[h] = data[h]
        /\ part'[h] = part[h]
        /\ written'[h] = written[h]
        /\ hash'[h] = hash[h]
    BY <1>1, <1>3, <1>14 DEF Frames
  <2>5. Len(memory'[data[h].array]) = Len(memory[data[h].array])
    BY <1>11, <2>2
  <2> QED
    BY <2>3, <2>4, <2>5, OthersKept
<1>15. written'[g] = written[g] + 1
  BY <1>1, <1>3 DEF Frames
<1>16. /\ Filled(g)' = j
       /\ Cap(g)' = Cap(g)
       /\ Image(g)' = Image(g)
       /\ CurrentOp(g)' = CurrentOp(g)
  BY <1>3, <1>6, <1>9, <1>11, <1>15 DEF Filled, Cap, Image, CurrentOp
<1>17. LocalTypes(g)'
  BY <1>2, <1>3, <1>4, <1>15 DEF LocalInv, LocalTypes
<1>18. HashSoFar(g)' /\ SliceKnown(g)'
  BY <1>2, <1>3, <1>16 DEF LocalInv, HashSoFar, SliceKnown, InApply
<1>19. Copying(g)'
  BY <1>2, <1>3, <1>4, <1>5, <1>9, <1>15, <1>16 DEF LocalInv, Copying
<1>20. InPlace(g)'
  <2> SUFFICES ASSUME NEW i \in 1..j
               PROVE  memory'[a][i] = Image(g)[i]
    BY <1>3, <1>16 DEF InPlace
  <2>1. CASE i = j
    BY <1>10, <1>11, <2>1
  <2>2. CASE i # j
    <3>1. i \in 1..Filled(g) /\ i \in 1..Len(memory[a])
      <4>1. Filled(g) \in Nat /\ j = Filled(g) + 1
        BY <1>4 DEF Filled, j
      <4> QED
        BY <1>6, <1>9, <2>2, <4>1
    <3> QED
      BY <1>2, <1>3, <1>11, <2>2, <3>1 DEF LocalInv, InPlace, InApply
  <2> QED
    BY <2>1, <2>2
<1>21. (Filled(g) <= Cap(g))'
  BY <1>6, <1>9, <1>16
<1>22. LocalInv(g)'
  BY <1>17, <1>18, <1>19, <1>20, <1>21 DEF LocalInv
<1> QED
  BY <1>12, <1>13, <1>14, <1>22 DEF SlicesInv

-----------------------------------------------------------------------------
(* The theorems. *)

LEMMA SlicesNext ==
    ASSUME SlicesInv, [Next]_vars
    PROVE  SlicesInv'
<1>1. CASE UNCHANGED vars
  <2> USE <1>1 DEF vars
  <2>1. MemoryInv'
    BY MemoryKept DEF SlicesInv
  <2>2. ASSUME NEW g \in Goroutines
        PROVE  LocalInv(g)'
    BY <2>2, OthersUntouched
  <2>3. Frames'
    BY DEF SlicesInv, Frames
  <2> QED
    BY <2>1, <2>2, <2>3 DEF SlicesInv
<1>2. ASSUME NEW g \in Goroutines, Steps(g)
      PROVE  SlicesInv'
  <2>1. CASE \E p \in Proofs : Calculate(g, p)
    BY <2>1, CalculateKeeps
  <2>2. CASE StartApply(g)
    BY <2>2, StartApplyKeeps
  <2>3. CASE AppendGrows(g)
    BY <2>3, AppendGrowsKeeps
  <2>4. CASE AppendFits(g)
    BY <2>4, AppendFitsKeeps
  <2>5. CASE CopyByte(g)
    BY <2>5, CopyByteKeeps
  <2>6. CASE AppendReturns(g)
    BY <2>6, AppendReturnsKeeps
  <2>7. CASE DoHash(g)
    BY <2>7, DoHashKeeps
  <2>8. CASE Return(g)
    BY <2>8, ReturnKeeps
  <2> QED
    BY <1>2, <2>1, <2>2, <2>3, <2>4, <2>5, <2>6, <2>7, <2>8 DEF Steps
<1> QED
  BY <1>1, <1>2 DEF Next

LEMMA SlicesSafe == Spec => []SlicesInv
<1>1. Init => SlicesInv
  BY SlicesInit
<1>2. SlicesInv /\ [Next]_vars => SlicesInv'
  BY SlicesNext
<1> QED
  BY <1>1, <1>2, PTL DEF Spec

(* Slices never run over the end of their arrays. *)
THEOREM SlicesStayInBounds == Spec => []SlicesTypeOK
<1>1. SlicesInv => SlicesTypeOK
  <2> SUFFICES ASSUME SlicesInv
               PROVE  SlicesTypeOK
    OBVIOUS
  <2>1. ASSUME NEW g \in Goroutines
        PROVE  step[g] <= Len(call[g].ops) /\ Filled(g) <= Cap(g)
    <3>1. /\ step[g] \in 1..Len(call[g].ops)
          /\ call[g] \in Proofs
      BY DEF SlicesInv, LocalInv, LocalTypes
    <3>2. Len(call[g].ops) \in Nat
      BY <3>1, ProofsAssumption DEF IsProof
    <3> QED
      BY <3>1, <3>2, CapType
  <2> QED
    BY <2>1 DEF SlicesInv, MemoryInv, Frames, SlicesTypeOK
<1> QED
  BY <1>1, SlicesSafe, PTL

(* Whatever the other goroutines write into the arrays it shares with      *)
(* them, what a goroutine has in place is the beginning of its preimage.   *)
THEOREM ImagesAreOwn == Spec => []OwnImage
<1>1. SlicesInv => OwnImage
  <2> SUFFICES ASSUME SlicesInv, NEW g \in Goroutines, stage[g] \in {"append", "copy"}
               PROVE  /\ \A i \in 1..Filled(g) : memory[data[g].array][i] = Image(g)[i]
                      /\ part[g] = 3 => data[g].len = Len(Image(g))
    BY DEF OwnImage
  <2>1. InApply(g)
    BY DEF InApply
  <2> QED
    BY <2>1, HashesOwnImage DEF SlicesInv, LocalInv, InPlace
<1> QED
  BY <1>1, SlicesSafe, PTL

(* Every calculate returns the root of the proof it was called with.       *)
THEOREM RootsAreOwn == Spec => []OwnRoot
<1>1. SlicesInv => OwnRoot
  <2> SUFFICES ASSUME SlicesInv, NEW g \in Goroutines, stage[g] = "return"
               PROVE  hash[g] = call[g].hashes[Len(call[g].hashes)]
    BY DEF OwnRoot
  <2>1. LocalInv(g)
    BY DEF SlicesInv
  <2>2. step[g] = Len(call[g].ops) /\ hash[g] = call[g].hashes[step[g]]
    BY <2>1 DEF LocalInv, HashSoFar
  <2>3. Len(call[g].hashes) = Len(call[g].ops)
    BY <2>1, ProofsAssumption DEF LocalInv, LocalTypes, IsProof
  <2> QED
    BY <2>2, <2>3
<1> QED
  BY <1>1, SlicesSafe, PTL

(* The operations of a proof are read only. *)
THEOREM OpsStayUnchanged == Spec => []OpsUnchanged
<1>1. SlicesInv => OpsUnchanged
  BY DEF SlicesInv, MemoryInv
<1> QED
  BY <1>1, SlicesSafe, PTL
=============================================================================
