------------------------------ MODULE BatchApi ------------------------------
(***************************************************************************)
(* verify_membership, verify_non_membership and their batch forms, in      *)
(* rust/src/api.rs.  A call decompresses the proof it is given, by the     *)
(* machine of Compress, and then selects and verifies a proof for each of  *)
(* its items, until one is refused.  The two functions for a single item   *)
(* are calls with one item.                                                *)
(*                                                                         *)
(* A proof comes from the query itself or, compressed, from a prover that  *)
(* ran compress before.                                                    *)
(***************************************************************************)
EXTENDS Compress, Verdicts, OrderedTree

CONSTANT Queries    \* the calls: [about, proof, spec, root, items]

VARIABLES
    stage,      \* where the call is, "idle" between calls
    query,      \* its arguments, with the proof a prover had
    sent,       \* that proof as it was sent, compressed or not
    opened,     \* the proof after decompression
    passed,     \* the items verified
    answer      \* what the call returned, None before

codec   == vars
apivars == <<stage, query, sent, opened, passed, answer, codec>>

ASSUME QueriesAssumption ==
    \A q \in Queries :
        /\ q # None
        /\ q.about \in {"membership", "absence"}
        /\ q.proof \in Proofs \union Received
        /\ IsSequence(q.items)

(* The existence proofs in a proof. *)
Sides(proof) ==
    LET in(entry) == Range(entry.sides) \ {None}
    IN  IF proof.kind \in {"batch", "compressed"}
        THEN UNION {in(e) : e \in Range(proof.entries)}
        ELSE in(proof)

(* The messages have the types of their fields, and no entry is None. *)
ASSUME MessagesAssumption ==
    /\ \A op \in InnerOps : IsInnerOp(op)
    /\ \A p \in Proofs \union Received :
           /\ p.kind = "batch" => None \notin Range(p.entries)
           /\ \A side \in Sides(p) :
                  /\ IsSequence(side.key) /\ IsSequence(side.value)
                  /\ side.leaf # None => IsLeafOp(side.leaf)

ASSUME NoneNotBoolean == None \notin BOOLEAN

ASSUME OrderAssumption ==
    \A q \in Queries :
        IsStrictOrder(q.spec, TreeKeys \union {item.key : item \in Range(q.items)})

-----------------------------------------------------------------------------
(* The first of the entries at the given places, or None. *)
FirstOf(all, places) ==
    IF places = {} THEN None
    ELSE all[CHOOSE i \in places : \A j \in places : i <= j]

IsFor(entry, key) == entry.kind = "exist" /\ entry.sides[1].key = key

(* get_exist_proof; a single proof is not asked for its key. *)
ExistFor(proof, key) ==
    CASE proof.kind = "exist" -> proof
      [] proof.kind = "batch" ->
            FirstOf(proof.entries,
                    {i \in 1..Len(proof.entries) : IsFor(proof.entries[i], key)})
      [] OTHER -> None

(* As a mutant: only the left side is compared with the key. *)
Encloses_LeftOnly(spec, entry, key) ==
    /\ entry.kind = "nonexist"
    /\ entry.sides[1] # None => Before(spec, entry.sides[1].key, key)

Encloses(spec, entry, key) ==
    /\ entry.kind = "nonexist"
    /\ entry.sides[1] # None => Before(spec, entry.sides[1].key, key)
    /\ entry.sides[2] # None => Before(spec, key, entry.sides[2].key)

(* get_nonexist_proof *)
NonexistFor(spec, proof, key) ==
    CASE proof.kind = "nonexist" ->
            IF Encloses(spec, proof, key) THEN proof ELSE None
      [] proof.kind = "batch" ->
            FirstOf(proof.entries,
                    {i \in 1..Len(proof.entries) :
                        Encloses(spec, proof.entries[i], key)})
      [] OTHER -> None

(* verify_membership and verify_non_membership, for a proof that is not    *)
(* compressed.  An error, and a panic, is a refusal.                       *)
Verifies(q, proof, item) ==
    IF q.about = "membership"
    THEN LET chosen == ExistFor(proof, item.key)
         IN  /\ chosen # None
             /\ VerifiesExistence(chosen.sides[1], q.spec, q.root, item.key, item.value)
    ELSE LET chosen == NonexistFor(q.spec, proof, item.key)
         IN  /\ chosen # None
             /\ VerifiesAbsence([left |-> chosen.sides[1], right |-> chosen.sides[2]],
                                q.spec, q.root, item.key)

-----------------------------------------------------------------------------
BatchInit ==
    /\ Init
    /\ stage = "idle"
    /\ query = None
    /\ sent = None
    /\ opened = None
    /\ passed = 0
    /\ answer = None

Ask(q, proof) ==
    /\ stage' = "open"
    /\ query' = q
    /\ sent' = proof
    /\ UNCHANGED <<opened, passed, answer>>

Submit ==
    /\ stage = "idle"
    /\ pc = "idle"
    /\ \E q \in Queries : Ask(q, q.proof)
    /\ UNCHANGED codec

(* A prover compresses the proof before it is sent. *)
Prove ==
    /\ stage = "idle"
    /\ CallCompress \/ (pc = "compress" /\ Work)
    /\ UNCHANGED <<stage, query, sent, opened, passed, answer>>

SubmitCompressed ==
    /\ stage = "idle"
    /\ pc = "compressed"
    /\ \E q \in Queries : q.proof = origin /\ Ask(q, result)
    /\ GoOn

Opened(proof) ==
    /\ stage' = "items"
    /\ opened' = proof
    /\ UNCHANGED <<query, sent, passed, answer>>

Open ==
    /\ stage = "open"
    /\ pc = "idle"
    /\ \/ /\ sent.kind # "compressed"
          /\ Opened(sent)
          /\ UNCHANGED codec
       \/ /\ sent.kind = "compressed"
          /\ CallDecompress(sent)
          /\ UNCHANGED <<stage, query, sent, opened, passed, answer>>

Decompression ==
    /\ stage = "open"
    /\ Work
    /\ UNCHANGED <<stage, query, sent, opened, passed, answer>>

OpenDone ==
    /\ stage = "open"
    /\ pc = "decompressed"
    /\ Opened(result)
    /\ GoOn

Answer(a) ==
    /\ stage' = "answered"
    /\ answer' = a
    /\ UNCHANGED <<query, sent, opened, passed>>

(* As a mutant: one item that is verified is enough. *)
VerifyItem_Any ==
    /\ stage = "items"
    /\ passed < Len(query.items)
    /\ UNCHANGED codec
    /\ LET ok == Verifies(query, opened, query.items[passed + 1])
       IN  \/ ok /\ Answer(TRUE)
           \/ ~ok /\ Answer(FALSE)

(* One turn of the loop over the items, which ends with the first refusal. *)
(* The proof is opened by now: the turn does not decompress it again.      *)
VerifyItem ==
    /\ stage = "items"
    /\ passed < Len(query.items)
    /\ UNCHANGED codec
    /\ LET ok == Verifies(query, opened, query.items[passed + 1])
       IN  \/ /\ ok
              /\ passed' = passed + 1
              /\ UNCHANGED <<stage, query, sent, opened, answer>>
           \/ ~ok /\ Answer(FALSE)

AllVerified ==
    /\ stage = "items"
    /\ passed = Len(query.items)
    /\ UNCHANGED codec
    /\ Answer(TRUE)

Finish ==
    /\ stage = "answered"
    /\ stage' = "idle"
    /\ query' = None
    /\ sent' = None
    /\ opened' = None
    /\ passed' = 0
    /\ answer' = None
    /\ UNCHANGED codec

BatchNext ==
    \/ Submit \/ Prove \/ SubmitCompressed \/ Open \/ Decompression \/ OpenDone
    \/ VerifyItem \/ AllVerified \/ Finish

BatchSpec == BatchInit /\ [][BatchNext]_apivars

-----------------------------------------------------------------------------
BatchTypeOK ==
    /\ stage \in {"idle", "open", "items", "answered"}
    /\ IF stage = "idle" THEN query = None /\ sent = None
       ELSE query # None /\ IsCommitmentProof(sent)
    /\ IF stage \in {"idle", "open"} THEN opened = None
       ELSE IsCommitmentProof(opened) /\ opened.kind # "compressed"
    /\ passed \in Nat
    /\ query # None => passed <= Len(query.items)
    /\ answer \in {TRUE, FALSE, None}
    /\ answer # None <=> stage = "answered"
    /\ stage \in {"items", "answered"} => pc = "idle"

LeavesKnown(spec, proof) ==
    \A p \in Sides(proof) :
        p.leaf # None => LeafIsUnambiguous(spec, p.leaf, p.key, p.value)

(* A batch is confirmed only when every item of it is: each key with its   *)
(* value is in the tree, or each key is not, whichever entries were chosen *)
(* and in whatever order, and whatever a compressed proof's indexes were.  *)
BatchSound ==
    (answer = TRUE /\ LeavesKnown(query.spec, opened)) =>
        \A t \in Trees :
            (query.spec = t.spec /\ query.root = t.hash[t.root] /\ TellsKeys(t)) =>
            \A item \in Range(query.items) :
                IF query.about = "membership" THEN Stored(t, item.key, item.value)
                ELSE t \in SortedTrees => ~HasKey(t, item.key)

(* The entries a store writes: the proof of a leaf, or those of two leaves *)
(* with none between them, of which one is missing at an edge.             *)
Writes(t, entry) ==
    LET proof(n)     == IF n = None THEN None ELSE HonestProof(t, n)
        before(n, m) == None \in {n, m} \/ Before(t.spec, t.key[n], t.key[m])
    IN  \/ \E n \in t.leaves : entry = Exist(HonestProof(t, n))
        \/ \E l, r \in t.leaves \union {None} :
               /\ {l, r} # {None}
               /\ entry = Nonexist(proof(l), proof(r))
               /\ before(l, r)
               /\ \A m \in t.leaves : ~(before(l, m) /\ before(m, r))

(* What the store's entries prove of an item. *)
ProvedBy(t, q, item, entry) ==
    IF q.about = "membership"
    THEN Stored(t, item.key, item.value) /\ IsFor(entry, item.key)
    ELSE ~HasKey(t, item.key) /\ Encloses(t.spec, entry, item.key)

(* A batch a store wrote is accepted for every selection of what it proves *)
(* - its entries in any order, some of them twice, proofs of presence and  *)
(* of absence mixed, compressed or not.                                    *)
HonestBatchAccepted ==
    (stage = "answered" /\ query.proof.kind = "batch") =>
        \A t \in SortedTrees \intersect Stores :
            (/\ query.spec = t.spec
             /\ query.root = t.hash[t.root]
             /\ query.about = "absence" => NeighborsTold(t)
             /\ \A e \in Range(query.proof.entries) : e.kind = "none" \/ Writes(t, e)
             /\ \A item \in Range(query.items) : \E e \in Range(query.proof.entries) :
                    ProvedBy(t, query, item, e))
            => answer

(* Compression is invisible: a compressed proof gets the verdict that the  *)
(* proof it was made of would have got.                                    *)
CompressedAlike ==
    stage = "answered" =>
        (answer <=> \A item \in Range(query.items) :
            Verifies(query, DecompressProof(query.proof), item))
=============================================================================
