------------------------------ MODULE Existence ------------------------------
(***************************************************************************)
(* verify_existence of rust/src/verify.rs, one call after the other.  The  *)
(* function is sequential; its loops over the path of a proof are steps of *)
(* their own, so that what holds in the middle of a path can be stated.    *)
(* Every check that fails ends the call with an error, the first one that  *)
(* does; no later one is made.                                             *)
(*                                                                         *)
(* A request without a spec is a call of calculate_existence_root, which   *)
(* makes none of the checks and returns the root it computes.              *)
(***************************************************************************)
EXTENDS MerkleTree, Verdicts

CONSTANT Requests   \* the calls: [proof, spec, root, key, value]

VARIABLES
    pc,         \* where the call is, "idle" between calls
    req,        \* the arguments of the call
    idx,        \* the steps of the path done by the loop that is running
    hash,       \* calculate_existence_root_for_spec: the hash so far
    verdict     \* "ok" or "err" once the call has returned, None before

vars == <<pc, req, idx, hash, verdict>>

IsRequest(r) ==
    /\ IsExistenceProof(r.proof)
    /\ r.spec # None => IsProofSpec(r.spec)

ASSUME NoneAssumption == None \notin {"ok", "err"}

ASSUME RequestsAssumption == \A r \in Requests : IsRequest(r) /\ r # None

-----------------------------------------------------------------------------
Init ==
    /\ pc = "idle"
    /\ req = None
    /\ idx = 0
    /\ hash = <<>>
    /\ verdict = None

Goto(next) ==
    /\ pc' = next
    /\ UNCHANGED <<req, verdict>>

Finish(result) ==
    /\ pc' = "done"
    /\ verdict' = result
    /\ UNCHANGED <<req, idx, hash>>

Start(r, first) ==
    /\ pc' = first
    /\ req' = r
    /\ UNCHANGED <<idx, hash, verdict>>

Verify ==
    /\ pc = "idle"
    /\ \E r \in Requests : r.spec # None /\ Start(r, "check_leaf")

Calculate ==
    /\ pc = "idle"
    /\ \E r \in Requests : r.spec = None /\ Start(r, "apply_leaf")

(* check_existence_spec, before its loop *)
CheckLeaf ==
    /\ pc = "check_leaf"
    /\ LET ok == /\ LeafAccepted(req.proof, req.spec)
                 /\ DepthAccepted(req.proof, req.spec)
       IN  \/ ok  /\ Goto("check_path") /\ UNCHANGED <<idx, hash>>
           \/ ~ok /\ Finish("err")

(* check_existence_spec, its loop *)
CheckStep ==
    /\ pc = "check_path"
    /\ idx < Len(req.proof.path)
    /\ LET ok == StepAccepted(req.proof, req.spec, idx + 1)
       IN  \/ ok /\ Goto("check_path") /\ idx' = idx + 1 /\ UNCHANGED hash
           \/ ~ok /\ Finish("err")

(* As a mutant: the key and the value of the proof are not compared with  *)
(* the ones asked about.                                                   *)
MatchKeyValue_Unmatched ==
    /\ pc = "check_path"
    /\ idx = Len(req.proof.path)
    /\ Goto("apply_leaf")
    /\ UNCHANGED <<idx, hash>>

(* verify_existence, its two comparisons before the root is computed *)
MatchKeyValue ==
    /\ pc = "check_path"
    /\ idx = Len(req.proof.path)
    /\ LET ok == req.proof.key = req.key /\ req.proof.value = req.value
       IN  \/ ok /\ Goto("apply_leaf") /\ UNCHANGED <<idx, hash>>
           \/ ~ok /\ Finish("err")

(* calculate_existence_root_for_spec, before its loop *)
CalculateLeaf ==
    /\ pc = "apply_leaf"
    /\ LET proof == req.proof
           ok == /\ proof.key # <<>>
                 /\ proof.value # <<>>
                 /\ proof.leaf # None
                 /\ LeafApplies(proof.leaf, proof.key, proof.value)
       IN  \/ /\ ok
              /\ Goto("apply_path")
              /\ idx' = 0
              /\ hash' = ApplyLeaf(proof.leaf, proof.key, proof.value)
           \/ ~ok /\ Finish("err")

(* calculate_existence_root_for_spec, its loop *)
CalculateStep ==
    /\ pc = "apply_path"
    /\ idx < Len(req.proof.path)
    /\ LET next == ApplyInner(req.proof.path[idx + 1], hash)
           ok == hash # <<>> /\ SizeAccepted(next, req.spec)
       IN  \/ /\ ok
              /\ Goto("apply_path")
              /\ idx' = idx + 1
              /\ hash' = next
           \/ ~ok /\ Finish("err")

(* The last comparison of verify_existence; calculate_existence_root makes *)
(* none.                                                                   *)
CompareRoot ==
    /\ pc = "apply_path"
    /\ idx = Len(req.proof.path)
    /\ \/ (req.spec = None \/ hash = req.root) /\ Finish("ok")
       \/ req.spec # None /\ hash # req.root /\ Finish("err")

Return ==
    /\ pc = "done"
    /\ pc' = "idle"
    /\ req' = None
    /\ idx' = 0
    /\ hash' = <<>>
    /\ verdict' = None

Work == CheckLeaf \/ CheckStep \/ MatchKeyValue \/ CalculateLeaf
           \/ CalculateStep \/ CompareRoot

Next == Verify \/ Calculate \/ Work \/ Return

Spec == Init /\ [][Next]_vars

-----------------------------------------------------------------------------
Verifying == pc \notin {"idle", "done"}

Accepted == verdict = "ok" /\ req.spec # None

TypeOK ==
    /\ pc \in {"idle", "check_leaf", "check_path", "apply_leaf", "apply_path",
               "done"}
    /\ req = None \/ req \in Requests
    /\ req = None <=> pc = "idle"
    /\ idx \in Nat
    /\ pc \in {"idle", "check_leaf"} => idx = 0
    /\ req # None => idx <= Len(req.proof.path)
    /\ IsSequence(hash)
    /\ verdict \in {"ok", "err", None}
    /\ verdict # None <=> pc = "done"

(* What the caller may conclude: in every tree with the given root and     *)
(* spec, the path is the one from a leaf the proof describes to the root.  *)
(* The claim is about the leaf's image because a spec such as Tendermint's *)
(* lets a proof choose the bytes of the leaf prefix after the required     *)
(* ones.  Computing a root for no spec claims nothing.                     *)
Justified(r) ==
    \A t \in Trees :
        (r.spec = t.spec /\ r.root = t.hash[t.root]) =>
            Leads(t, LeafImage(r.proof.leaf, r.key, r.value), r.proof.path,
                  Len(r.proof.path), t.root)

Promise == INSTANCE Verifier
    WITH phase  <- IF Verifying THEN "busy" ELSE pc,
         call   <- req,
         answer <- verdict

(* verify_existence keeps the promise of Verifier: each of its steps   *)
(* is the abstract call, refusal, acceptance or return, or nothing         *)
(* the caller can see.                                                     *)
KeepsPromise == Promise!Spec

(* A proof is accepted only if the tree with that root has the leaf that   *)
(* the caller's key and value make with the proof's leaf operation, at the *)
(* place the path describes: no inner node passes for a leaf, no leaf for  *)
(* an inner node, and no hash outside the slots of a node for a child.     *)
MembershipSound == Accepted => Justified(req)

(* When the proof's leaf and those of the tree are unambiguous, what is    *)
(* accepted is a key of the tree with its value.                           *)
KeyValueSound ==
    (Accepted /\ LeafIsUnambiguous(req.spec, req.proof.leaf, req.key, req.value)) =>
        \A t \in Trees :
            (req.spec = t.spec /\ req.root = t.hash[t.root] /\ TellsKeys(t)) =>
                Stored(t, req.key, req.value)

(* The root a proof computes, when it computes one. *)
RootOf(proof) == Hashes(proof)[Len(proof.path)]

(* The checks of the machine, the order they are made in and its two loops *)
(* give the verdict, or the root, that Verdicts defines without them and   *)
(* the other callers of verify_existence are modelled with.                *)
ExistenceVerdict ==
    pc = "done" =>
        /\ req.spec # None =>
               (verdict = "ok" <=> VerifiesExistence(req.proof, req.spec, req.root,
                                                     req.key, req.value))
        /\ req.spec = None =>
               /\ verdict = "ok" <=> RootFrom(req.proof, None, RootOf(req.proof))
               /\ verdict = "ok" => hash = RootOf(req.proof)

(* The proof a store makes for a leaf of its tree is accepted, whatever    *)
(* the leaf and its depth, and without a spec yields the root.             *)
HonestAccepted ==
    pc = "done" =>
        \A t \in Stores : \A n \in t.leaves :
            (req.key = t.key[n] /\ req.value = t.value[n]) =>
                /\ req = HonestRequest(t, n) => verdict = "ok"
                /\ (req.proof = HonestProof(t, n) /\ req.spec = None) =>
                       verdict = "ok" /\ hash = t.hash[t.root]

(* As the proto file has it: a max_depth above 0 bounds the path of every  *)
(* proof that is accepted.                                                 *)
MaxDepthRespected ==
    (Accepted /\ req.spec.max_depth > 0) =>
        Len(req.proof.path) <= req.spec.max_depth

-----------------------------------------------------------------------------
(* The inductive invariant behind MembershipSound.                         *)

StepsAccepted(k) ==
    \A i \in 1..k : EnsureInner(req.proof.path[i], req.spec)

(* What check_existence_spec has established so far. *)
ChecksHold ==
    /\ pc \in {"check_path", "apply_leaf", "apply_path"} =>
           EnsureLeaf(req.proof.leaf, req.spec.leaf_spec)
    /\ pc = "check_path" => StepsAccepted(idx)
    /\ pc \in {"apply_leaf", "apply_path"} =>
           /\ StepsAccepted(Len(req.proof.path))
           /\ req.key = req.proof.key
           /\ req.value = req.proof.value

(* From the leaf upwards: whenever the hash computed so far is the hash of *)
(* some node of the tree, the operations so far lead up to that node.      *)
HashChain ==
    pc = "apply_path" =>
        \A t \in Trees : req.spec = t.spec =>
            /\ IsDigest(t.spec.inner_spec.hash, hash)
            /\ \A n \in t.nodes : t.hash[n] = hash =>
                   Leads(t, LeafImage(req.proof.leaf, req.key, req.value),
                         req.proof.path, idx, n)

PathInvariant ==
    /\ TypeOK
    /\ (req # None /\ req.spec # None) => ChecksHold /\ HashChain
    /\ MembershipSound

-----------------------------------------------------------------------------
(* The inductive invariant behind ExistenceVerdict.                        *)

(* What the checks made so far add to the verdict. *)
CheckedSoFar ==
    LET proof == req.proof
        spec  == req.spec
    IN  /\ pc \in {"check_path", "apply_leaf", "apply_path"} /\ spec # None =>
               LeafAccepted(proof, spec) /\ DepthAccepted(proof, spec)
        /\ pc = "check_path" => \A k \in 1..idx : StepAccepted(proof, spec, k)
        /\ pc \in {"apply_leaf", "apply_path"} /\ spec # None =>
               /\ \A k \in 1..Len(proof.path) : StepAccepted(proof, spec, k)
               /\ proof.key = req.key
               /\ proof.value = req.value

ComputedSoFar ==
    LET proof  == req.proof
        hashes == Hashes(proof)
    IN  pc = "apply_path" =>
            /\ proof.key # <<>>
            /\ proof.value # <<>>
            /\ proof.leaf # None
            /\ LeafApplies(proof.leaf, proof.key, proof.value)
            /\ hash = hashes[idx]
            /\ \A k \in 1..idx :
                   hashes[k - 1] # <<>> /\ SizeAccepted(hashes[k], req.spec)

VerdictInvariant ==
    /\ TypeOK
    /\ pc \in {"check_leaf", "check_path"} => req.spec # None
    /\ CheckedSoFar
    /\ ComputedSoFar
    /\ ExistenceVerdict
=============================================================================
