---------------------------- MODULE VerifyProofs ----------------------------
(***************************************************************************)
(* Proofs that verify_existence and verify_non_existence are sound and     *)
(* complete, for every set of calls and every set of well formed trees, in *)
(* the order of their keys where it is about absence.                      *)
(***************************************************************************)
EXTENDS NonExistence, TreeProofs

-----------------------------------------------------------------------------
(* The machine of verify_existence. *)

LEMMA RequestType ==
    ASSUME NEW r \in Requests
    PROVE  /\ r # None
           /\ IsExistenceProof(r.proof)
           /\ Len(r.proof.path) \in Nat
           /\ \A k \in 1..Len(r.proof.path) : IsInnerOp(r.proof.path[k])
BY RequestsAssumption, SequenceType DEF IsRequest, IsExistenceProof

LEMMA TypeInit == Init => TypeOK
<1> SUFFICES ASSUME Init PROVE TypeOK
  OBVIOUS
<1>1. IsSequence(hash)
  BY EmptySequence DEF Init
<1> QED
  BY <1>1, NoneAssumption DEF Init, TypeOK

LEMMA TypeStep == TypeOK /\ [Next]_vars => TypeOK'
<1> SUFFICES ASSUME TypeOK, [Next]_vars PROVE TypeOK'
  OBVIOUS
<1> USE NoneAssumption DEF TypeOK, Goto, Finish, Start
<1>0. req # None => /\ req \in Requests /\ IsExistenceProof(req.proof)
                    /\ Len(req.proof.path) \in Nat
                    /\ \A k \in 1..Len(req.proof.path) : IsInnerOp(req.proof.path[k])
  BY RequestType
<1>1. CASE Verify
  BY <1>1, RequestType DEF Verify
<1>2. CASE Calculate
  BY <1>2, RequestType DEF Calculate
<1>3. CASE CheckLeaf
  BY <1>0, <1>3 DEF CheckLeaf
<1>4. CASE CheckStep
  BY <1>0, <1>4 DEF CheckStep
<1>5. CASE MatchKeyValue
  BY <1>0, <1>5 DEF MatchKeyValue
<1>6. CASE CalculateLeaf
  BY <1>0, <1>6, AppliedTypes DEF CalculateLeaf, IsExistenceProof
<1>7. CASE CalculateStep
  BY <1>0, <1>7, AppliedTypes DEF CalculateStep
<1>8. CASE CompareRoot
  BY <1>0, <1>8 DEF CompareRoot
<1>9. CASE Return
  BY <1>9, EmptySequence DEF Return
<1>10. CASE UNCHANGED vars
  BY <1>10 DEF vars
<1> QED
  BY <1>1, <1>2, <1>3, <1>4, <1>5, <1>6, <1>7, <1>8, <1>9, <1>10 DEF Next, Work

(* The variables keep their types in every behaviour. *)
THEOREM TypeCorrect == Spec => []TypeOK
<1>1. Init => TypeOK
  BY TypeInit
<1>2. TypeOK /\ [Next]_vars => TypeOK'
  BY TypeStep
<1> QED
  BY <1>1, <1>2, PTL DEF Spec

-----------------------------------------------------------------------------
(* The path invariant: what has been checked, and what the hash means. *)

PathFacts == (req # None /\ req.spec # None) => ChecksHold /\ HashChain

(* The first hash of a proof that passed the checks. *)
LEMMA ChainStarts ==
    ASSUME TypeOK, PathFacts, CalculateLeaf, req.spec # None, verdict' # "err"
    PROVE  HashChain'
<1> DEFINE proof == req.proof
<1>1. /\ pc = "apply_leaf" /\ req' = req
      /\ proof.leaf # None
      /\ hash' = ApplyLeaf(proof.leaf, proof.key, proof.value)
  BY DEF CalculateLeaf, Goto, Finish
<1>2. req \in Requests /\ IsExistenceProof(proof)
  BY <1>1, RequestType DEF TypeOK
<1>3. /\ EnsureLeaf(proof.leaf, req.spec.leaf_spec)
      /\ req.key = proof.key /\ req.value = proof.value
  BY <1>1, <1>2, RequestType DEF PathFacts, ChecksHold
<1>4. IsLeafOp(proof.leaf) /\ IsSequence(proof.key) /\ IsSequence(proof.value)
  BY <1>1, <1>2 DEF IsExistenceProof
<1> DEFINE image == LeafImage(proof.leaf, req.key, req.value)
<1>5. ASSUME NEW t \in Trees, req.spec = t.spec
      PROVE  /\ IsDigest(t.spec.inner_spec.hash, hash')
             /\ \A n \in t.nodes :
                    t.hash[n] = hash' => Leads(t, image, proof.path, 0, n)
  <2>1. /\ IsDigest(t.spec.inner_spec.hash, hash')
        /\ \A n \in t.nodes :
               t.hash[n] = hash' => n \in t.leaves /\ t.image[n] = image
    BY <1>1, <1>3, <1>4, <1>5, LeafHashIsOfLeaf
  <2> QED
    BY <2>1, LeadsFromLeaf
<1>6. idx' = 0
  BY DEF CalculateLeaf, Finish
<1> QED
  BY <1>1, <1>5, <1>6 DEF HashChain

(* Every further hash: if it is that of a node, the one before it is that  *)
(* of a child of the node.                                                 *)
LEMMA ChainContinues ==
    ASSUME TypeOK, PathFacts, CalculateStep, req.spec # None, verdict' # "err"
    PROVE  HashChain'
<1> DEFINE op == req.proof.path[idx + 1]
<1>1. /\ pc = "apply_path" /\ req' = req /\ idx < Len(req.proof.path)
      /\ hash' = ApplyInner(op, hash)
  BY DEF CalculateStep, Goto, Finish
<1>2. /\ req \in Requests /\ req # None
      /\ Len(req.proof.path) \in Nat /\ idx \in Nat
  BY <1>1, RequestType DEF TypeOK
<1>3. idx + 1 \in 1..Len(req.proof.path)
  BY <1>1, <1>2
<1>4. IsInnerOp(op) /\ EnsureInner(op, req.spec)
  BY <1>1, <1>2, <1>3, RequestType DEF PathFacts, ChecksHold, StepsAccepted
<1> DEFINE image == LeafImage(req.proof.leaf, req.key, req.value)
<1>5. ASSUME NEW t \in Trees, req.spec = t.spec
      PROVE  /\ IsDigest(t.spec.inner_spec.hash, hash')
             /\ \A n \in t.nodes : t.hash[n] = hash' =>
                    Leads(t, image, req.proof.path, idx + 1, n)
  <2>1. /\ IsDigest(t.spec.inner_spec.hash, hash)
        /\ \A m \in t.nodes : t.hash[m] = hash =>
               Leads(t, image, req.proof.path, idx, m)
    BY <1>1, <1>2, <1>5 DEF PathFacts, HashChain
  <2>2. /\ op.hash = t.spec.inner_spec.hash
        /\ t.spec.inner_spec.hash \in HashOp \ {"NO_HASH"}
    BY <1>4, <1>5, TreesAssumption DEF EnsureInner, WellFormedTree, IsSoundSpec
  <2>3. IsDigest(t.spec.inner_spec.hash, hash')
    BY <1>1, <2>2, DigestOfTree DEF ApplyInner
  <2>4. ASSUME NEW n \in t.nodes, t.hash[n] = hash'
        PROVE  Leads(t, image, req.proof.path, idx + 1, n)
    <3> HIDE DEF image
    <3>1. /\ n \in Inners(t)
          /\ \E m \in t.nodes : t.hash[m] = hash /\ IsStepOf(t, op, n, m)
      BY <1>1, <1>4, <1>5, <2>1, <2>4, InnerHashIsOfParent
    <3>2. PICK m \in t.nodes : t.hash[m] = hash /\ IsStepOf(t, op, n, m)
      BY <3>1
    <3> QED
      BY <1>2, <2>1, <3>1, <3>2, LeadsFurther
  <2> QED
    BY <2>3, <2>4
<1>6. idx' = idx + 1
  BY <1>1 DEF CalculateStep, Goto, Finish
<1> QED
  BY <1>1, <1>5, <1>6 DEF HashChain

(* At the end of the path the hash is that of the root. *)
LEMMA ChainEnds ==
    ASSUME TypeOK, PathFacts, CompareRoot, req.spec # None, verdict' = "ok"
    PROVE  Justified(req)
<1>1. pc = "apply_path" /\ hash = req.root /\ req # None
  BY NoneAssumption DEF CompareRoot, Finish, TypeOK
<1>2. idx = Len(req.proof.path)
  BY DEF CompareRoot
<1>3. \A t \in Trees : t.root \in t.nodes
  BY TreesAssumption DEF WellFormedTree
<1> QED
  BY <1>1, <1>2, <1>3 DEF PathFacts, HashChain, Justified

-----------------------------------------------------------------------------
LEMMA PathFactsStep == TypeOK /\ PathFacts /\ [Next]_vars => PathFacts'
<1> SUFFICES ASSUME TypeOK, PathFacts, [Next]_vars,
                    (req # None /\ req.spec # None)'
             PROVE  ChecksHold' /\ HashChain'
  BY DEF PathFacts
<1> USE DEF Goto, Finish, Start
<1>1. CASE Verify
  BY <1>1 DEF Verify, ChecksHold, HashChain
<1>2. CASE Calculate
  BY <1>2 DEF Calculate
<1>3. CASE CheckLeaf
  <2>1. HashChain' /\ (pc' = "check_path" => idx' = 0)
    BY <1>3 DEF CheckLeaf, HashChain, TypeOK
  <2>2. ChecksHold'
    BY <1>3, <2>1 DEF CheckLeaf, ChecksHold, StepsAccepted, LeafAccepted
  <2> QED
    BY <2>1, <2>2
<1>4. CASE CheckStep
  <2>1. idx \in Nat
    BY DEF TypeOK
  <2>2. HashChain' /\ req' = req
    BY <1>4 DEF CheckStep, HashChain
  <2>3. ASSUME pc' = "check_path" PROVE StepsAccepted(idx)'
    <3>1. /\ StepsAccepted(idx) /\ idx' = idx + 1
          /\ EnsureInner(req.proof.path[idx + 1], req.spec)
      BY <1>4, <2>2, <2>3 DEF CheckStep, StepAccepted, PathFacts, ChecksHold
    <3>2. \A i \in 1..(idx + 1) : i \in 1..idx \/ i = idx + 1
      BY <2>1
    <3> QED
      BY <2>2, <3>1, <3>2 DEF StepsAccepted
  <2>4. ChecksHold'
    BY <1>4, <2>2, <2>3 DEF CheckStep, PathFacts, ChecksHold
  <2> QED
    BY <2>2, <2>4
<1>5. CASE MatchKeyValue
  BY <1>5 DEF MatchKeyValue, PathFacts, ChecksHold, HashChain, StepsAccepted
<1>6. CASE CalculateLeaf
  <2>1. req' = req /\ req.spec # None /\ verdict' # "err" => HashChain'
    BY <1>6, ChainStarts DEF CalculateLeaf
  <2>2. ChecksHold'
    BY <1>6 DEF CalculateLeaf, PathFacts, ChecksHold, StepsAccepted
  <2>3. verdict' = "err" => HashChain'
    BY <1>6, NoneAssumption DEF CalculateLeaf, HashChain, TypeOK
  <2> QED
    BY <1>6, <2>1, <2>2, <2>3 DEF CalculateLeaf
<1>7. CASE CalculateStep
  <2>1. req' = req /\ req.spec # None /\ verdict' # "err" => HashChain'
    BY <1>7, ChainContinues DEF CalculateStep
  <2>2. ChecksHold'
    BY <1>7 DEF CalculateStep, PathFacts, ChecksHold, StepsAccepted
  <2>3. verdict' = "err" => HashChain'
    BY <1>7, NoneAssumption DEF CalculateStep, HashChain, TypeOK
  <2> QED
    BY <1>7, <2>1, <2>2, <2>3 DEF CalculateStep
<1>8. CASE CompareRoot
  BY <1>8 DEF CompareRoot, ChecksHold, HashChain
<1>9. CASE Return
  BY <1>9 DEF Return
<1>10. CASE UNCHANGED vars
  BY <1>10 DEF vars, PathFacts, ChecksHold, HashChain, StepsAccepted
<1> QED
  BY <1>1, <1>2, <1>3, <1>4, <1>5, <1>6, <1>7, <1>8, <1>9, <1>10 DEF Next, Work

LEMMA MembershipStep ==
    TypeOK /\ PathFacts /\ MembershipSound /\ [Next]_vars => MembershipSound'
<1> SUFFICES ASSUME TypeOK, PathFacts, MembershipSound, [Next]_vars, Accepted'
             PROVE  Justified(req)'
  BY DEF MembershipSound
<1>1. CASE CompareRoot
  <2>1. req' = req /\ req.spec # None /\ verdict' = "ok"
    BY <1>1 DEF CompareRoot, Finish, Accepted
  <2> QED
    BY <1>1, <2>1, ChainEnds DEF Justified
<1>2. CASE UNCHANGED vars
  BY <1>2 DEF vars, Accepted, MembershipSound, Justified
<1>3. CASE Return
  BY <1>3, NoneAssumption DEF Return, Accepted
<1>4. CASE Verify \/ Calculate \/ CheckLeaf \/ CheckStep \/ MatchKeyValue
              \/ CalculateLeaf \/ CalculateStep
  <2>1. verdict = None
    BY <1>4 DEF TypeOK, Verify, Calculate, CheckLeaf, CheckStep, MatchKeyValue,
                CalculateLeaf, CalculateStep
  <2>2. verdict' = None \/ verdict' = "err"
    BY <1>4, <2>1 DEF Verify, Calculate, CheckLeaf, CheckStep, MatchKeyValue,
                      CalculateLeaf, CalculateStep, Goto, Finish, Start
  <2> QED
    BY <2>2, NoneAssumption DEF Accepted
<1> QED
  BY <1>1, <1>2, <1>3, <1>4 DEF Next, Work

LEMMA PathInvariantParts ==
    PathInvariant <=> TypeOK /\ PathFacts /\ MembershipSound
BY DEF PathInvariant, PathFacts

LEMMA PathInvariantInit == Init => PathInvariant
<1> SUFFICES ASSUME Init PROVE PathInvariant
  OBVIOUS
<1>1. TypeOK
  BY TypeInit
<1>2. PathFacts /\ MembershipSound
  BY NoneAssumption DEF Init, PathFacts, MembershipSound, Accepted
<1> QED
  BY <1>1, <1>2, PathInvariantParts

LEMMA PathInvariantStep == PathInvariant /\ [Next]_vars => PathInvariant'
<1> SUFFICES ASSUME PathInvariant, [Next]_vars PROVE PathInvariant'
  OBVIOUS
<1>1. TypeOK /\ PathFacts /\ MembershipSound
  BY PathInvariantParts
<1>2. TypeOK' /\ PathFacts' /\ MembershipSound'
  BY <1>1, TypeStep, PathFactsStep, MembershipStep
<1> QED
  BY <1>2 DEF PathInvariant, PathFacts

(* Whatever the path, every hash of it that is the hash of a node of the   *)
(* tree leads back to a leaf of the tree.                                  *)
THEOREM PathInvariantHolds == Spec => []PathInvariant
<1>1. Init => PathInvariant
  BY PathInvariantInit
<1>2. PathInvariant /\ [Next]_vars => PathInvariant'
  BY PathInvariantStep
<1> QED
  BY <1>1, <1>2, PTL DEF Spec

(* A proof that verify_existence accepts is the path of a leaf of the      *)
(* tree, for every tree of every sound spec and every call.                *)
THEOREM MembershipIsSound == Spec => []MembershipSound
<1>1. PathInvariant => MembershipSound
  BY DEF PathInvariant
<1> QED
  BY <1>1, PathInvariantHolds, PTL

-----------------------------------------------------------------------------
(* The state machine implements Verifier. *)

(* Inside a call a step either shows the caller nothing, or answers.       *)
LEMMA WorkImplements ==
    ASSUME TypeOK, PathFacts, Work
    PROVE  Promise!Refuse \/ Promise!Accept \/ UNCHANGED Promise!vars
<1> USE DEF Goto, Finish, Verifying
<1>1. CASE CompareRoot /\ verdict' = "ok"
  <2>1. req \in Requests /\ pc = "apply_path"
    BY <1>1 DEF CompareRoot, TypeOK
  <2>2. Justified(req)
    <3>1. CASE req.spec = None
      BY <2>1, <3>1, TreesAssumption DEF Justified, WellFormedTree, IsSoundSpec
    <3>2. CASE req.spec # None
      BY <1>1, <3>2, ChainEnds
    <3> QED
      BY <3>1, <3>2
  <2> QED
    BY <1>1, <2>1, <2>2 DEF CompareRoot, Promise!Accept
<1>2. CASE CompareRoot /\ verdict' # "ok"
  BY <1>2 DEF CompareRoot, Promise!Refuse
<1>3. CASE CheckLeaf
  BY <1>3 DEF CheckLeaf, Promise!Refuse, Promise!vars
<1>4. CASE CheckStep
  BY <1>4 DEF CheckStep, Promise!Refuse, Promise!vars
<1>5. CASE MatchKeyValue
  BY <1>5 DEF MatchKeyValue, Promise!Refuse, Promise!vars
<1>6. CASE CalculateLeaf
  BY <1>6 DEF CalculateLeaf, Promise!Refuse, Promise!vars
<1>7. CASE CalculateStep
  BY <1>7 DEF CalculateStep, Promise!Refuse, Promise!vars
<1> QED
  BY <1>1, <1>2, <1>3, <1>4, <1>5, <1>6, <1>7 DEF Work

LEMMA NextImplements ==
    ASSUME PathInvariant, [Next]_vars
    PROVE  [Promise!Next]_(Promise!vars)
<1>1. TypeOK /\ PathFacts
  BY PathInvariantParts
<1>2. CASE Verify \/ Calculate
  BY <1>2 DEF Verify, Calculate, Start, Verifying, Promise!Next, Promise!Call
<1>3. CASE Work
  BY <1>1, <1>3, WorkImplements DEF Promise!Next
<1>4. CASE Return
  BY <1>4 DEF Return, Verifying, Promise!Next, Promise!Return
<1>5. CASE UNCHANGED vars
  BY <1>5 DEF vars, Verifying, Promise!vars
<1> QED
  BY <1>2, <1>3, <1>4, <1>5 DEF Next

(* verify_existence, for all its checks and loops, does no more and no     *)
(* less than answer each call once, with "ok" only for a justified claim.  *)
THEOREM ImplementsVerifier == Spec => KeepsPromise
<1>1. Init => Promise!Init
  BY DEF Init, Verifying, Promise!Init
<1>2. PathInvariant /\ [Next]_vars => [Promise!Next]_(Promise!vars)
  BY NextImplements
<1> QED
  BY <1>1, <1>2, PathInvariantHolds, PTL DEF Spec, KeepsPromise, Promise!Spec

-----------------------------------------------------------------------------
(* The state machine gives the verdict of Verdicts. *)

(* The verdict a finished call has to have. *)
RightVerdict(r, ok, h) ==
    /\ r.spec # None =>
           (ok <=> VerifiesExistence(r.proof, r.spec, r.root, r.key, r.value))
    /\ r.spec = None =>
           /\ ok <=> RootFrom(r.proof, None, RootOf(r.proof))
           /\ ok => h = RootOf(r.proof)

LEMMA VerdictIsRight ==
    ASSUME pc = "done" PROVE ExistenceVerdict <=> RightVerdict(req, verdict = "ok", hash)
BY DEF ExistenceVerdict, RightVerdict

(* A proof whose root cannot be computed is refused. *)
LEMMA RefusedRightly ==
    ASSUME NEW r, NEW h,
           \/ \A root : ~RootFrom(r.proof, r.spec, root)
           \/ /\ r.spec # None
              /\ ~VerifiesExistence(r.proof, r.spec, r.root, r.key, r.value)
    PROVE  RightVerdict(r, FALSE, h)
BY DEF RightVerdict, VerifiesExistence

LEMMA VerdictInit == Init => VerdictInvariant
<1> SUFFICES ASSUME Init PROVE VerdictInvariant
  OBVIOUS
<1> QED
  BY TypeInit DEF Init, VerdictInvariant, CheckedSoFar, ComputedSoFar, ExistenceVerdict

(* The steps that check the proof and compare it with what is asked.       *)
LEMMA ChecksKeepVerdict ==
    ASSUME VerdictInvariant, TypeOK', CheckLeaf \/ CheckStep \/ MatchKeyValue
    PROVE  VerdictInvariant'
<1> USE DEF VerdictInvariant, Goto, Finish
<1>0. req \in Requests /\ Len(req.proof.path) \in Nat /\ req.spec # None /\ idx \in Nat
  <2>1. pc \in {"check_leaf", "check_path"}
    BY DEF CheckLeaf, CheckStep, MatchKeyValue
  <2> QED
    BY <2>1, RequestType DEF TypeOK
<1>1. CASE CheckLeaf
  <2>1. idx = 0
    BY <1>1 DEF CheckLeaf, TypeOK
  <2>2. CASE pc' = "check_path"
    BY <1>0, <1>1, <2>1, <2>2
       DEF CheckLeaf, CheckedSoFar, ComputedSoFar, ExistenceVerdict
  <2>3. CASE pc' = "done"
    <3>1. ~VerifiesExistence(req.proof, req.spec, req.root, req.key, req.value)
      BY <1>1, <2>3 DEF CheckLeaf, VerifiesExistence
    <3> QED
      BY <1>0, <1>1, <2>3, <3>1
         DEF CheckLeaf, CheckedSoFar, ComputedSoFar, ExistenceVerdict
  <2> QED
    BY <1>1, <2>2, <2>3 DEF CheckLeaf
<1>2. CASE CheckStep
  <2>1. CASE pc' = "check_path"
    <3>1. \A k \in 1..(idx + 1) : k \in 1..idx \/ k = idx + 1
      BY <1>0
    <3> QED
      BY <1>0, <1>2, <2>1, <3>1
         DEF CheckStep, CheckedSoFar, ComputedSoFar, ExistenceVerdict
  <2>2. CASE pc' = "done"
    <3>1. ~VerifiesExistence(req.proof, req.spec, req.root, req.key, req.value)
      <4>1. idx + 1 \in 1..Len(req.proof.path)
        BY <1>0, <1>2 DEF CheckStep
      <4> QED
        BY <1>2, <2>2, <4>1 DEF CheckStep, VerifiesExistence
    <3> QED
      BY <1>0, <1>2, <2>2, <3>1
         DEF CheckStep, CheckedSoFar, ComputedSoFar, ExistenceVerdict
  <2> QED
    BY <1>2, <2>1, <2>2 DEF CheckStep
<1>3. CASE MatchKeyValue
  <2>1. CASE pc' = "apply_leaf"
    BY <1>0, <1>3, <2>1
       DEF MatchKeyValue, CheckedSoFar, ComputedSoFar, ExistenceVerdict
  <2>2. CASE pc' = "done"
    <3>1. ~VerifiesExistence(req.proof, req.spec, req.root, req.key, req.value)
      BY <1>3, <2>2 DEF MatchKeyValue, VerifiesExistence
    <3> QED
      BY <1>0, <1>3, <2>2, <3>1
         DEF MatchKeyValue, CheckedSoFar, ComputedSoFar, ExistenceVerdict
  <2> QED
    BY <1>3, <2>1, <2>2 DEF MatchKeyValue
<1> QED
  BY <1>1, <1>2, <1>3

(* The steps that compute the root and compare it. *)
LEMMA RootKeepsVerdict ==
    ASSUME VerdictInvariant, TypeOK', CalculateLeaf \/ CalculateStep \/ CompareRoot
    PROVE  VerdictInvariant'
<1> USE DEF VerdictInvariant, Goto, Finish
<1> DEFINE proof == req.proof
           len   == Len(proof.path)
           hs    == Hashes(proof)
<1>0. req \in Requests /\ len \in Nat /\ idx \in Nat
  <2>1. pc \in {"apply_leaf", "apply_path"}
    BY DEF CalculateLeaf, CalculateStep, CompareRoot
  <2> QED
    BY <2>1, RequestType DEF TypeOK
<1>1. /\ hs[0] = ApplyLeaf(proof.leaf, proof.key, proof.value)
      /\ \A k \in 1..len : hs[k] = ApplyInner(proof.path[k], hs[k - 1])
  BY <1>0, HashesStep
<1>2. CASE CalculateLeaf
  <2>1. CASE pc' = "apply_path"
    BY <1>0, <1>1, <1>2, <2>1
       DEF CalculateLeaf, CheckedSoFar, ComputedSoFar, ExistenceVerdict
  <2>2. CASE pc' = "done"
    <3>1. \A root : ~RootFrom(proof, req.spec, root)
      BY <1>2, <2>2 DEF CalculateLeaf, RootFrom
    <3>2. RightVerdict(req, FALSE, hash)
      BY <3>1, RefusedRightly
    <3>3. req' = req /\ verdict' = "err" /\ hash' = hash
      BY <1>2, <2>2 DEF CalculateLeaf
    <3>4. ExistenceVerdict'
      BY <2>2, <3>2, <3>3 DEF ExistenceVerdict, RightVerdict
    <3> QED
      BY <2>2, <3>4 DEF CheckedSoFar, ComputedSoFar
  <2> QED
    BY <1>2, <2>1, <2>2 DEF CalculateLeaf
<1>3. CASE CalculateStep
  <2> DEFINE next == ApplyInner(proof.path[idx + 1], hash)
  <2>0. /\ pc = "apply_path" /\ idx < len /\ idx + 1 \in 1..len
        /\ (idx + 1) - 1 = idx
    BY <1>0, <1>3 DEF CalculateStep
  <2>1. hash = hs[idx] /\ hs[idx + 1] = next
    BY <1>1, <2>0 DEF ComputedSoFar
  <2>2. CASE pc' = "apply_path"
    <3>1. /\ hash # <<>> /\ SizeAccepted(next, req.spec)
          /\ idx' = idx + 1 /\ hash' = next /\ UNCHANGED <<req, verdict>>
      BY <1>3, <2>2 DEF CalculateStep
    <3>2. ComputedSoFar'
      <4>1. \A k \in 1..(idx + 1) : k \in 1..idx \/ k = idx + 1
        BY <1>0
      <4>2. ASSUME NEW k \in 1..(idx + 1)
            PROVE  hs[k - 1] # <<>> /\ SizeAccepted(hs[k], req.spec)
        <5>1. CASE k \in 1..idx
          BY <2>0, <5>1 DEF ComputedSoFar
        <5>2. CASE k = idx + 1
          BY <2>0, <2>1, <3>1, <5>2
        <5> QED
          BY <4>1, <5>1, <5>2
      <4> QED
        BY <2>0, <2>1, <2>2, <3>1, <4>2 DEF ComputedSoFar
    <3> QED
      BY <2>0, <2>2, <3>1, <3>2 DEF CheckedSoFar, ExistenceVerdict
  <2>3. CASE pc' = "done"
    <3>1. \A root : ~RootFrom(proof, req.spec, root)
      <4>1. hs[(idx + 1) - 1] = <<>> \/ ~SizeAccepted(hs[idx + 1], req.spec)
        BY <1>3, <2>0, <2>1, <2>3 DEF CalculateStep
      <4> QED
        BY <2>0, <4>1 DEF RootFrom
    <3>2. RightVerdict(req, FALSE, hash)
      BY <3>1, RefusedRightly
    <3>3. req' = req /\ verdict' = "err" /\ hash' = hash
      BY <1>3, <2>3 DEF CalculateStep
    <3>4. ExistenceVerdict'
      BY <2>3, <3>2, <3>3 DEF ExistenceVerdict, RightVerdict
    <3> QED
      BY <2>3, <3>4 DEF CheckedSoFar, ComputedSoFar
  <2> QED
    BY <1>3, <2>2, <2>3 DEF CalculateStep
<1>4. CASE CompareRoot
  <2>1. /\ pc = "apply_path" /\ idx = len /\ pc' = "done"
        /\ UNCHANGED <<req, idx, hash>>
        /\ verdict' = "ok" <=> req.spec = None \/ hash = req.root
    BY <1>4 DEF CompareRoot
  <2>2. hash = RootOf(proof)
    BY <2>1 DEF ComputedSoFar, RootOf
  <2>3. \A root : RootFrom(proof, req.spec, root) <=> hash = root
    BY <2>1, <2>2 DEF ComputedSoFar, RootFrom, RootOf
  <2>4. req.spec # None =>
            (VerifiesExistence(proof, req.spec, req.root, req.key, req.value)
                <=> hash = req.root)
    BY <2>1, <2>3 DEF CheckedSoFar, VerifiesExistence
  <2>5. ExistenceVerdict'
    BY <2>1, <2>2, <2>3, <2>4 DEF ExistenceVerdict
  <2> QED
    BY <2>1, <2>5 DEF CheckedSoFar, ComputedSoFar
<1> QED
  BY <1>2, <1>3, <1>4

LEMMA VerdictStep == VerdictInvariant /\ [Next]_vars => VerdictInvariant'
<1> SUFFICES ASSUME VerdictInvariant, [Next]_vars PROVE VerdictInvariant'
  OBVIOUS
<1>0. TypeOK'
  BY TypeStep DEF VerdictInvariant
<1>1. CASE Verify \/ Calculate
  BY <1>0, <1>1 DEF VerdictInvariant, Verify, Calculate, Start, CheckedSoFar,
                    ComputedSoFar, ExistenceVerdict
<1>2. CASE CheckLeaf \/ CheckStep \/ MatchKeyValue
  BY <1>0, <1>2, ChecksKeepVerdict
<1>3. CASE CalculateLeaf \/ CalculateStep \/ CompareRoot
  BY <1>0, <1>3, RootKeepsVerdict
<1>4. CASE Return
  BY <1>0, <1>4 DEF VerdictInvariant, Return, CheckedSoFar, ComputedSoFar,
                    ExistenceVerdict
<1>5. CASE UNCHANGED vars
  BY <1>5 DEF vars, VerdictInvariant, TypeOK, CheckedSoFar, ComputedSoFar,
              ExistenceVerdict
<1> QED
  BY <1>1, <1>2, <1>3, <1>4, <1>5 DEF Next, Work

(* What each check made so far has added to the verdict.                   *)
THEOREM VerdictInvariantHolds == Spec => []VerdictInvariant
<1> QED
  BY VerdictInit, VerdictStep, PTL DEF Spec

(* For every call, verify_existence and calculate_existence_root answer    *)
(* what the functions of Verdicts say of their arguments.                  *)
THEOREM VerdictIsFunction == Spec => []ExistenceVerdict
<1>1. VerdictInvariant => ExistenceVerdict
  BY DEF VerdictInvariant
<1> QED
  BY <1>1, VerdictInvariantHolds, PTL

-----------------------------------------------------------------------------
(* An accepted, unambiguous leaf is the one of the tree. *)
LEMMA KeyValueFromVerdict ==
    ASSUME PathInvariant, VerdictInvariant
    PROVE  KeyValueSound
<1> SUFFICES ASSUME Accepted,
                    LeafIsUnambiguous(req.spec, req.proof.leaf, req.key, req.value),
                    NEW t \in Trees, req.spec = t.spec, req.root = t.hash[t.root],
                    TellsKeys(t)
             PROVE  Stored(t, req.key, req.value)
  BY DEF KeyValueSound
<1>1. req \in Requests /\ pc = "done"
  BY NoneAssumption DEF VerdictInvariant, TypeOK, Accepted
<1>2. VerifiesExistence(req.proof, req.spec, req.root, req.key, req.value)
  BY <1>1 DEF VerdictInvariant, ExistenceVerdict, Accepted
<1>3. IsExistenceProof(req.proof)
  BY <1>1, RequestType
<1>4. LeafFacts(t.spec, req.proof.leaf, req.key, req.value)
  BY <1>2, <1>3 DEF VerifiesExistence, LeafAccepted, RootFrom, LeafApplies,
                    LeafDataOK, LeafFacts, IsExistenceProof
<1>5. Leads(t, LeafImage(req.proof.leaf, req.key, req.value), req.proof.path,
            Len(req.proof.path), t.root)
  BY DEF PathInvariant, MembershipSound, Justified
<1>6. PICK n \in t.leaves :
          t.image[n] = LeafImage(req.proof.leaf, req.key, req.value)
  BY <1>5 DEF Leads
<1>7. t.key[n] = req.key /\ t.value[n] = req.value
  BY <1>4, <1>6, TreeLeafFacts, LeafTold
<1> QED
  BY <1>7 DEF Stored

(* The caller's key and value are in the tree, for every unambiguous leaf  *)
(* operation: no other pair makes the same leaf.                           *)
THEOREM KeyValueIsSound == Spec => []KeyValueSound
<1> QED
  BY KeyValueFromVerdict, PathInvariantHolds, VerdictInvariantHolds, PTL

-----------------------------------------------------------------------------
(* What stores write is accepted.                                          *)

LEMMA HonestFromVerdict == TypeOK /\ ExistenceVerdict => HonestAccepted
<1> SUFFICES ASSUME TypeOK, ExistenceVerdict, pc = "done",
                    NEW t \in Stores, NEW n \in t.leaves,
                    req.key = t.key[n], req.value = t.value[n]
             PROVE  /\ req = HonestRequest(t, n) => verdict = "ok"
                    /\ (req.proof = HonestProof(t, n) /\ req.spec = None) =>
                           verdict = "ok" /\ hash = t.hash[t.root]
  BY DEF HonestAccepted
<1>1. ASSUME req = HonestRequest(t, n) PROVE verdict = "ok"
  <2>1. /\ req.proof = HonestProof(t, n) /\ req.spec = t.spec
        /\ req.root = t.hash[t.root]
    BY <1>1 DEF HonestRequest
  <2>2. VerifiesExistence(req.proof, req.spec, req.root, req.key, req.value)
    BY <2>1, HonestVerifies
  <2>3. req.spec # None
    BY <2>1, TreesAssumption DEF Stores, WellFormedTree, IsSoundSpec
  <2> QED
    BY <2>2, <2>3 DEF ExistenceVerdict
<1>2. ASSUME req.proof = HonestProof(t, n), req.spec = None
      PROVE  verdict = "ok" /\ hash = t.hash[t.root]
  <2>1. RootOf(req.proof) = t.hash[t.root]
    BY <1>2, HonestRoot DEF RootOf
  <2>2. RootFrom(req.proof, None, RootOf(req.proof))
    BY <1>2, <2>1, HonestRoot
  <2> QED
    BY <1>2, <2>1, <2>2 DEF ExistenceVerdict
<1> QED
  BY <1>1, <1>2

(* Whatever the tree of a store, the leaf and its depth: the proof that    *)
(* the store writes for the leaf is accepted by verify_existence with the  *)
(* store's spec, root, key and value, and calculate_existence_root gives   *)
(* the store's root for it.                                                *)
THEOREM HonestProofsAccepted == Spec => []HonestAccepted
<1>1. VerdictInvariant => TypeOK /\ ExistenceVerdict
  BY DEF VerdictInvariant
<1> QED
  BY <1>1, HonestFromVerdict, VerdictInvariantHolds, PTL

-----------------------------------------------------------------------------
(* The machine of verify_non_existence: types, and the calls it makes.     *)

LEMMA CallType ==
    ASSUME NEW r \in Absences
    PROVE  /\ r # None /\ r.spec # None
           /\ \A p \in {r.proof.left, r.proof.right} : p # None =>
                  /\ p \in Sides(r)
                  /\ SideCall(r, p) \in Requests
                  /\ SideCall(r, p).spec = r.spec
                  /\ SideCall(r, p).key = p.key
                  /\ IsSequence(p.path) /\ Len(p.path) \in Nat
                  /\ \A k \in 1..Len(p.path) : IsInnerOp(p.path[k])
<1>1. /\ r # None /\ r.spec # None
      /\ \A p \in Sides(r) : SideCall(r, p) \in Requests
  BY AbsencesAssumption
<1>2. ASSUME NEW p \in {r.proof.left, r.proof.right}, p # None
      PROVE  /\ p \in Sides(r)
             /\ SideCall(r, p) \in Requests
             /\ SideCall(r, p).spec = r.spec
             /\ SideCall(r, p).key = p.key
             /\ IsSequence(p.path) /\ Len(p.path) \in Nat
             /\ \A k \in 1..Len(p.path) : IsInnerOp(p.path[k])
  <2>1. p \in Sides(r)
    BY <1>2 DEF Sides
  <2>2. SideCall(r, p) \in Requests
    BY <1>1, <2>1
  <2>3. /\ SideCall(r, p).proof = p /\ SideCall(r, p).spec = r.spec
        /\ SideCall(r, p).key = p.key
    BY DEF SideCall
  <2> QED
    BY <2>1, <2>2, <2>3, RequestType DEF IsExistenceProof
<1> QED
  BY <1>1, <1>2

LEMMA PopType ==
    ASSUME NEW s, IsSequence(s), s # <<>>
    PROVE  /\ IsSequence(Pop(s))
           /\ Len(s) \in Nat \ {0}
           /\ Len(Pop(s)) = Len(s) - 1
           /\ \A k \in 1..(Len(s) - 1) : Pop(s)[k] = s[k]
<1>1. s \in Seq(Range(s)) /\ Len(s) \in Nat \ {0}
  BY SequenceType DEF IsSequence
<1>2. Pop(s) \in Seq(Range(s))
  BY <1>1 DEF Pop
<1>3. Len(Pop(s)) = Len(s) - 1 /\ \A k \in 1..(Len(s) - 1) : Pop(s)[k] = s[k]
  BY <1>1 DEF Pop
<1> QED
  BY <1>1, <1>2, <1>3, SequenceIntro

(* Every step is one of verify_existence, or none of its variables change. *)
LEMMA CalleeStep ==
    ASSUME AbsenceTypeOK, [AbsenceNext]_allvars
    PROVE  [Next]_vars
<1>1. CASE CallLeft \/ CallRight
  <2>1. PICK p \in {call.proof.left, call.proof.right} :
          p # None /\ Start(SideCall(call, p), "check_leaf") /\ pc = "idle"
    BY <1>1 DEF CallLeft, CallRight, CallSide
  <2>2. call \in Absences
    BY <1>1 DEF AbsenceTypeOK, CallLeft, CallRight, CallSide
  <2>3. SideCall(call, p) \in Requests /\ SideCall(call, p).spec # None
    BY <2>1, <2>2, CallType
  <2> QED
    BY <2>1, <2>3 DEF Next, Verify
<1>2. CASE ReturnLeft \/ ReturnRight
  BY <1>2 DEF ReturnLeft, ReturnRight, ReturnSide, Next
<1>3. CASE Callee
  BY <1>3 DEF Callee, Next
<1>4. CASE UNCHANGED callee
  BY <1>4 DEF callee
<1>5. CASE UNCHANGED allvars
  BY <1>5 DEF allvars, callee
<1> QED
  BY <1>1, <1>2, <1>3, <1>4, <1>5
     DEF AbsenceNext, Running, Ask, SkipLeft, SkipRight, SkipSide, ChooseShape,
         PopTops, RightMostStep, RightMostDone, LeftMostStep, LeftMostDone,
         PassStep, ReturnAnswer

LEMMA AbsenceTypeInit == AbsenceInit => AbsenceTypeOK /\ CalleeKnown
<1> SUFFICES ASSUME AbsenceInit PROVE AbsenceTypeOK /\ CalleeKnown
  OBVIOUS
<1>1. TypeOK /\ pc = "idle"
  BY TypeInit DEF AbsenceInit, Init
<1> QED
  BY <1>1, EmptySequence, NoneAssumption
     DEF AbsenceInit, AbsenceTypeOK, CalleeKnown

LEMMA AbsenceTypeStep ==
    ASSUME AbsenceTypeOK, CalleeKnown, [AbsenceNext]_allvars
    PROVE  AbsenceTypeOK' /\ CalleeKnown'
<1>1. TypeOK'
  BY CalleeStep, TypeStep DEF AbsenceTypeOK
<1>2. call # None => call \in Absences /\ None \notin Absences
  BY AbsencesAssumption DEF AbsenceTypeOK
<1> USE <1>1, NoneAssumption DEF AbsenceTypeOK, CalleeKnown
<1>3. CASE Ask
  BY <1>3, AbsencesAssumption DEF Ask, callee, vars
<1>4. CASE CallLeft
  <2>1. call \in Absences
    BY <1>4 DEF CallLeft, CallSide
  <2>2. call.proof.left \in Sides(call)
    BY <1>4, <2>1, CallType DEF CallLeft, CallSide
  <2> QED
    BY <1>4, <2>1, <2>2 DEF CallLeft, CallSide, Start, Continue
<1>5. CASE CallRight
  <2>1. call \in Absences
    BY <1>5 DEF CallRight, CallSide
  <2>2. call.proof.right \in Sides(call)
    BY <1>5, <2>1, CallType DEF CallRight, CallSide
  <2> QED
    BY <1>5, <2>1, <2>2 DEF CallRight, CallSide, Start, Continue
<1>6. CASE SkipLeft
  BY <1>6 DEF SkipLeft, SkipSide, Continue, callee, vars
<1>7. CASE SkipRight
  BY <1>7 DEF SkipRight, SkipSide, Continue, callee, vars
<1>8. CASE ReturnLeft
  BY <1>8 DEF ReturnLeft, ReturnSide, Return, Continue, Answer
<1>9. CASE ReturnRight
  BY <1>9 DEF ReturnRight, ReturnSide, Return, Continue, Answer
<1>10. CASE Callee
  <2>1. req' = req /\ at' = at /\ call' = call
    BY <1>10 DEF Callee, Continue, Work, CheckLeaf, CheckStep, MatchKeyValue,
                 CalculateLeaf, CalculateStep, CompareRoot, Goto, Finish
  <2>2. pc # "idle"
    BY <1>10 DEF Callee, Work, CheckLeaf, CheckStep, MatchKeyValue,
                 CalculateLeaf, CalculateStep, CompareRoot
  <2> QED
    BY <1>10, <2>1, <2>2 DEF Callee, Continue
<1>11. CASE ChooseShape
  <2>1. call \in Absences
    BY <1>11 DEF ChooseShape
  <2> QED
    BY <1>11, <2>1, CallType, EmptySequence
       DEF ChooseShape, Answer, Examine, callee, vars
<1>12. CASE PopTops
  <2>1. /\ at = "neighbor" /\ UNCHANGED callee /\ UNCHANGED <<call, step>>
        /\ \/ /\ at' = "answered" /\ answer' \in {"panic", "err"}
              /\ UNCHANGED <<left, right>>
           \/ /\ at' \in {"neighbor", "right_most"} /\ UNCHANGED answer
              /\ left # <<>> /\ left' = Pop(left)
              /\ right # <<>> /\ right' = Pop(right)
    BY <1>12 DEF PopTops, Answer, Examine
  <2>2. IsSequence(left') /\ IsSequence(right')
    BY <2>1, PopType
  <2>3. pc' = "idle" /\ call' = call /\ call # None /\ step' \in Nat
    BY <2>1 DEF callee, vars
  <2>4. /\ at' \in {"neighbor", "right_most", "answered"}
        /\ answer' \in {"ok", "err", "panic", None}
        /\ answer' # None <=> at' = "answered"
    BY <2>1, PanicAssumption
  <2> QED
    BY <2>2, <2>3, <2>4
<1>13. CASE RightMostStep
  BY <1>13 DEF RightMostStep, PassStep, Answer, callee, vars
<1>14. CASE RightMostDone
  BY <1>14 DEF RightMostDone, Answer, callee, vars
<1>15. CASE LeftMostStep
  BY <1>15 DEF LeftMostStep, PassStep, Answer, callee, vars
<1>16. CASE LeftMostDone
  BY <1>16 DEF LeftMostDone, Answer, callee, vars
<1>17. CASE ReturnAnswer
  BY <1>17, EmptySequence DEF ReturnAnswer, callee, vars
<1>18. CASE UNCHANGED allvars
  BY <1>18 DEF allvars, callee, vars
<1> QED
  BY <1>3, <1>4, <1>5, <1>6, <1>7, <1>8, <1>9, <1>10, <1>11, <1>12, <1>13,
     <1>14, <1>15, <1>16, <1>17, <1>18 DEF AbsenceNext, Running

(* A call of verify_existence that returns "ok" has made its claim good. *)
LEMMA ReturnedClaim ==
    ASSUME AbsenceTypeOK, MembershipSound, pc = "done", verdict = "ok",
           NEW p \in {call.proof.left, call.proof.right}, p # None,
           req = SideCall(call, p)
    PROVE  Justified(SideCall(call, p)) /\ req.key = p.key
<1>1. call \in Absences
  BY AbsencesAssumption DEF AbsenceTypeOK
<1>2. req.spec # None /\ req.key = p.key
  BY <1>1, CallType
<1> QED
  BY <1>2 DEF MembershipSound, Accepted

LEMMA SidesStep ==
    ASSUME AbsenceTypeOK, CalleeKnown, MembershipSound, SidesAccepted,
           [AbsenceNext]_allvars
    PROVE  SidesAccepted'
<1> DEFINE l == call.proof.left
           r == call.proof.right
           LeftHolds  == Justified(SideCall(call, l)) /\ Before(call.spec, l.key, call.key)
           RightHolds == Justified(SideCall(call, r)) /\ Before(call.spec, call.key, r.key)
           Left  == at \notin {"idle", "left", "answered"}
           Right == at \notin {"idle", "left", "right", "answered"}
<1>1. (Left \/ Right)' => call' = call
  BY DEF AbsenceNext, Running, Ask, CallLeft, CallRight, CallSide, SkipLeft,
         SkipRight, SkipSide, ReturnLeft, ReturnRight, ReturnSide, Continue,
         Callee, ChooseShape, PopTops, Answer, Examine, RightMostStep,
         RightMostDone, LeftMostStep, LeftMostDone, PassStep, ReturnAnswer, allvars
<1>2. Left' => Left \/ ReturnLeft \/ SkipLeft
  BY DEF AbsenceNext, Running, Ask, CallLeft, CallRight, CallSide,
         SkipRight, SkipSide, ReturnRight, ReturnSide, Continue,
         Callee, ChooseShape, PopTops, Answer, Examine, RightMostStep,
         RightMostDone, LeftMostStep, LeftMostDone, PassStep, ReturnAnswer, allvars
<1>3. Right' => Right \/ ReturnRight \/ SkipRight
  BY DEF AbsenceNext, Running, Ask, CallLeft, CallRight, CallSide, SkipLeft,
         SkipSide, ReturnLeft, ReturnSide, Continue,
         Callee, ChooseShape, PopTops, Answer, Examine, RightMostStep,
         RightMostDone, LeftMostStep, LeftMostDone, PassStep, ReturnAnswer, allvars
<1>4. ASSUME Left', l # None
      PROVE  LeftHolds
  <2>1. CASE Left
    BY <1>4, <2>1 DEF SidesAccepted
  <2>2. CASE ReturnLeft
    <3>1. pc = "done" /\ verdict = "ok" /\ Before(call.spec, req.key, call.key)
      BY <1>4, <2>2 DEF ReturnLeft, ReturnSide, Answer
    <3>2. req = SideCall(call, l)
      BY <2>2, <3>1 DEF CalleeKnown, ReturnLeft, ReturnSide
    <3> QED
      BY <1>4, <3>1, <3>2, ReturnedClaim
  <2>3. CASE SkipLeft
    BY <1>4, <2>3 DEF SkipLeft, SkipSide
  <2> QED
    BY <1>2, <1>4, <2>1, <2>2, <2>3
<1>5. ASSUME Right', r # None
      PROVE  RightHolds
  <2>1. CASE Right
    BY <1>5, <2>1 DEF SidesAccepted
  <2>2. CASE ReturnRight
    <3>1. pc = "done" /\ verdict = "ok" /\ Before(call.spec, call.key, req.key)
      BY <1>5, <2>2 DEF ReturnRight, ReturnSide, Answer
    <3>2. req = SideCall(call, r)
      BY <2>2, <3>1 DEF CalleeKnown, ReturnRight, ReturnSide
    <3> QED
      BY <1>5, <3>1, <3>2, ReturnedClaim
  <2>3. CASE SkipRight
    BY <1>5, <2>3 DEF SkipRight, SkipSide
  <2> QED
    BY <1>3, <1>5, <2>1, <2>2, <2>3
<1> QED
  BY <1>1, <1>4, <1>5 DEF SidesAccepted

LEMMA LowerEndPopped ==
    ASSUME NEW s, NEW path, IsSequence(s), s # <<>>, IsLowerEnd(s, path),
           Len(path) \in Nat
    PROVE  /\ Len(s) \in 1..Len(path)
           /\ Top(s) = path[Len(s)]
           /\ IsLowerEnd(Pop(s), path)
<1>1. /\ Len(s) \in Nat \ {0} /\ Len(Pop(s)) = Len(s) - 1
      /\ \A k \in 1..(Len(s) - 1) : Pop(s)[k] = s[k]
  BY PopType
<1>2. Len(s) <= Len(path) /\ \A k \in 1..Len(s) : s[k] = path[k]
  BY DEF IsLowerEnd
<1>3. Len(s) \in 1..Len(path) /\ Len(s) \in 1..Len(s)
  BY <1>1, <1>2
<1>4. Len(Pop(s)) <= Len(path)
  BY <1>1, <1>3
<1>5. \A k \in 1..Len(Pop(s)) : Pop(s)[k] = path[k]
  BY <1>1, <1>2
<1> QED
  BY <1>2, <1>3, <1>4, <1>5 DEF Top, IsLowerEnd

LEMMA LowerEndsStep ==
    ASSUME AbsenceTypeOK, LowerEnds, [AbsenceNext]_allvars
    PROVE  LowerEnds'
<1> DEFINE l == call.proof.left
           r == call.proof.right
<1>1. ASSUME call # None
      PROVE  /\ l # None => IsSequence(l.path) /\ Len(l.path) \in Nat
             /\ r # None => IsSequence(r.path) /\ Len(r.path) \in Nat
  BY <1>1, CallType DEF AbsenceTypeOK
<1>2. CASE ChooseShape
  <2>1. /\ call # None /\ call' = call /\ step' = step /\ step = 0
        /\ \/ at' = "answered"
           \/ at' = "right_most" /\ l # None /\ r = None /\ left' = l.path
           \/ at' = "left_most" /\ r # None /\ right' = r.path
           \/ /\ at' = "neighbor" /\ l # None /\ r # None
              /\ left' = l.path /\ right' = r.path
    BY <1>2 DEF ChooseShape, Answer, Examine, LowerEnds, AbsenceTypeOK
  <2>2. l # None => IsLowerEnd(l.path, l.path) /\ 0 <= Len(l.path)
    BY <1>1, <2>1 DEF IsLowerEnd
  <2>3. r # None => IsLowerEnd(r.path, r.path) /\ 0 <= Len(r.path)
    BY <1>1, <2>1 DEF IsLowerEnd
  <2> QED
    BY <2>1, <2>2, <2>3 DEF LowerEnds
<1>3. CASE PopTops
  <2>1. /\ call # None /\ call' = call /\ step' = step /\ step = 0
        /\ l # None /\ r # None /\ IsLowerEnd(left, l.path) /\ IsLowerEnd(right, r.path)
        /\ \/ at' = "answered"
           \/ /\ at' \in {"neighbor", "right_most"}
              /\ left # <<>> /\ left' = Pop(left)
              /\ right # <<>> /\ right' = Pop(right)
    BY <1>3 DEF PopTops, Answer, Examine, LowerEnds, AbsenceTypeOK
  <2>2. at' # "answered" => /\ IsLowerEnd(left', l.path) /\ IsLowerEnd(right', r.path)
                            /\ 0 <= Len(left')
    BY <1>1, <2>1, LowerEndPopped, PopType DEF AbsenceTypeOK
  <2> QED
    BY <2>1, <2>2 DEF LowerEnds
<1>4. CASE RightMostStep
  <2>1. Len(left) \in Nat /\ step \in Nat
    BY SequenceType DEF AbsenceTypeOK
  <2> QED
    BY <1>4, <2>1 DEF RightMostStep, PassStep, Answer, LowerEnds
<1>5. CASE RightMostDone
  <2>1. Len(right) \in Nat
    BY SequenceType DEF AbsenceTypeOK
  <2> QED
    BY <1>5, <2>1 DEF RightMostDone, Answer, LowerEnds
<1>6. CASE LeftMostStep
  <2>1. Len(right) \in Nat /\ step \in Nat
    BY SequenceType DEF AbsenceTypeOK
  <2> QED
    BY <1>6, <2>1 DEF LeftMostStep, PassStep, Answer, LowerEnds
<1>7. CASE LeftMostDone
  BY <1>7 DEF LeftMostDone, Answer, LowerEnds
<1>8. CASE ReturnAnswer
  BY <1>8 DEF ReturnAnswer, LowerEnds
<1>9. CASE UNCHANGED allvars
  BY <1>9 DEF allvars, LowerEnds
<1>10. CASE UNCHANGED <<left, right, step>> /\ at \in {"idle", "left", "right"}
  <2>1. at' \in {"idle", "left", "right", "answered"} \/ at' = "shape"
    BY <1>10 DEF AbsenceNext, Running, Ask, CallLeft, CallRight, CallSide, SkipLeft,
         SkipRight, SkipSide, ReturnLeft, ReturnRight, ReturnSide, Continue,
         Callee, ChooseShape, PopTops, Answer, Examine, RightMostStep,
         RightMostDone, LeftMostStep, LeftMostDone, PassStep, ReturnAnswer, allvars
  <2> QED
    BY <1>10, <2>1 DEF LowerEnds
<1> QED
  BY <1>2, <1>3, <1>4, <1>5, <1>6, <1>7, <1>8, <1>9, <1>10
     DEF AbsenceNext, Running, Ask, CallLeft, CallRight, CallSide, SkipLeft,
         SkipRight, SkipSide, ReturnLeft, ReturnRight, ReturnSide, Continue,
         Callee, Answer

-----------------------------------------------------------------------------
(* What each step means for a tree the call is about.                      *)

LEMMA LeadsToRoot ==
    ASSUME NEW r \in Absences, NEW t \in Concerned(r), NEW p,
           Justified(SideCall(r, p))
    PROVE  LeadsTo(t, p, Len(p.path), t.root)
<1>1. t \in Trees /\ r.spec = t.spec /\ r.root = t.hash[t.root]
  BY DEF Concerned, SortedTrees
<1>2. /\ SideCall(r, p).spec = r.spec /\ SideCall(r, p).root = r.root
      /\ SideCall(r, p).proof = p
      /\ SideCall(r, p).key = p.key /\ SideCall(r, p).value = p.value
  BY DEF SideCall
<1> QED
  BY <1>1, <1>2 DEF Justified, LeadsTo

(* Going from the operations of two paths at a common node n to the ones   *)
(* below it.                                                               *)
LEMMA BothLeadBack ==
    ASSUME AbsenceTypeOK, LowerEnds, at = "neighbor", left # <<>>, right # <<>>,
           NEW t \in Concerned(call), AtFork(t)
    PROVE  \E n \in Inners(t), m \in t.nodes, k \in t.nodes :
               /\ IsBlock(t, n)
               /\ LeadsTo(t, call.proof.left, Len(Pop(left)), m)
               /\ LeadsTo(t, call.proof.right, Len(Pop(right)), k)
               /\ IsInnerOp(Top(left)) /\ IsStepOf(t, Top(left), n, m)
               /\ IsInnerOp(Top(right)) /\ IsStepOf(t, Top(right), n, k)
<1> DEFINE l == call.proof.left
           r == call.proof.right
<1>1. /\ call \in Absences /\ l # None /\ r # None
      /\ IsLowerEnd(left, l.path) /\ IsLowerEnd(right, r.path)
      /\ IsSequence(left) /\ IsSequence(right)
  BY DEF AbsenceTypeOK, LowerEnds
<1>2. /\ Len(l.path) \in Nat /\ \A i \in 1..Len(l.path) : IsInnerOp(l.path[i])
      /\ Len(r.path) \in Nat /\ \A i \in 1..Len(r.path) : IsInnerOp(r.path[i])
  BY <1>1, CallType
<1>3. /\ Top(left) = l.path[Len(left)] /\ IsInnerOp(Top(left))
      /\ Len(left) \in Nat /\ Len(left) > 0 /\ Len(Pop(left)) = Len(left) - 1
  <2>1. Len(left) \in 1..Len(l.path) /\ Top(left) = l.path[Len(left)]
    BY <1>1, <1>2, LowerEndPopped
  <2>2. Len(left) \in Nat \ {0} /\ Len(Pop(left)) = Len(left) - 1
    BY <1>1, PopType
  <2> QED
    BY <1>2, <2>1, <2>2
<1>4. /\ Top(right) = r.path[Len(right)] /\ IsInnerOp(Top(right))
      /\ Len(right) \in Nat /\ Len(right) > 0 /\ Len(Pop(right)) = Len(right) - 1
  <2>1. Len(right) \in 1..Len(r.path) /\ Top(right) = r.path[Len(right)]
    BY <1>1, <1>2, LowerEndPopped
  <2>2. Len(right) \in Nat \ {0} /\ Len(Pop(right)) = Len(right) - 1
    BY <1>1, PopType
  <2> QED
    BY <1>2, <2>1, <2>2
<1>5. PICK n \in t.nodes : /\ LeadsTo(t, l, Len(left), n)
                           /\ LeadsTo(t, r, Len(right), n)
                           /\ IsBlock(t, n)
  BY DEF AtFork
<1>6. /\ n \in Inners(t)
      /\ \E m \in t.nodes : /\ LeadsTo(t, l, Len(left) - 1, m)
                            /\ IsStepOf(t, l.path[Len(left)], n, m)
  BY <1>3, <1>5, LeadsBack DEF LeadsTo
<1>7. \E k \in t.nodes : /\ LeadsTo(t, r, Len(right) - 1, k)
                         /\ IsStepOf(t, r.path[Len(right)], n, k)
  BY <1>4, <1>5, LeadsBack DEF LeadsTo
<1> QED
  BY <1>3, <1>4, <1>5, <1>6, <1>7

LEMMA TopsShared ==
    ASSUME AbsenceTypeOK, LowerEnds, at = "neighbor", left # <<>>, right # <<>>,
           NEW t \in Concerned(call), AtFork(t),
           Top(left).prefix = Top(right).prefix
    PROVE  \E n \in t.nodes :
               /\ LeadsTo(t, call.proof.left, Len(Pop(left)), n)
               /\ LeadsTo(t, call.proof.right, Len(Pop(right)), n)
               /\ IsBlock(t, n)
<1>1. t \in Trees /\ t \in SortedTrees
  BY DEF Concerned, SortedTrees
<1>2. PICK n \in Inners(t), m \in t.nodes, k \in t.nodes :
        /\ IsBlock(t, n)
        /\ LeadsTo(t, call.proof.left, Len(Pop(left)), m)
        /\ LeadsTo(t, call.proof.right, Len(Pop(right)), k)
        /\ IsInnerOp(Top(left)) /\ IsStepOf(t, Top(left), n, m)
        /\ IsInnerOp(Top(right)) /\ IsStepOf(t, Top(right), n, k)
  BY BothLeadBack
<1>3. m = k
  BY <1>1, <1>2, SameChild
<1>4. IsBlock(t, m)
  BY <1>1, <1>2, BlockFurtherDown
<1> QED
  BY <1>2, <1>3, <1>4

LEMMA TopsFork ==
    ASSUME AbsenceTypeOK, LowerEnds, at = "neighbor", left # <<>>, right # <<>>,
           NEW t \in Concerned(call), AtFork(t),
           IsLeftStep(InnerSpec, Top(left), Top(right))
    PROVE  \E m \in t.nodes, k \in t.nodes :
               /\ LeadsTo(t, call.proof.left, Len(Pop(left)), m)
               /\ LeadsTo(t, call.proof.right, Len(Pop(right)), k)
               /\ AreAdjacent(t, m, k)
<1>1. /\ t \in Trees /\ t \in SortedTrees
      /\ InnerSpec = t.spec.inner_spec
  BY DEF Concerned, SortedTrees, InnerSpec
<1>2. PICK n \in Inners(t), m \in t.nodes, k \in t.nodes :
        /\ IsBlock(t, n)
        /\ LeadsTo(t, call.proof.left, Len(Pop(left)), m)
        /\ LeadsTo(t, call.proof.right, Len(Pop(right)), k)
        /\ IsInnerOp(Top(left)) /\ IsStepOf(t, Top(left), n, m)
        /\ IsInnerOp(Top(right)) /\ IsStepOf(t, Top(right), n, k)
  BY BothLeadBack
<1>3. AreAdjacent(t, m, k)
  BY <1>1, <1>2, LeftStepIsSideBySide, AdjacentBelowFork
<1> QED
  BY <1>2, <1>3

(* A leaf that is the one of the left proof, or ahead of it, is ahead of   *)
(* the key; likewise on the right.                                         *)
LEMMA AheadOfKey ==
    ASSUME NEW r \in Absences, NEW t \in Concerned(r), NEW p \in Sides(r),
           Before(r.spec, p.key, r.key),
           NEW leaf \in t.leaves, t.image[leaf] = LeafImage(p.leaf, p.key, p.value),
           NEW x \in t.leaves, x = leaf \/ Ahead(t, x, leaf)
    PROVE  Before(t.spec, t.key[x], r.key)
<1>1. t \in Trees /\ r.spec = t.spec /\ t.key[leaf] = p.key
  BY DEF Concerned, SortedTrees, KeysTold
<1>2. {t.key[x], t.key[leaf], r.key} \subseteq ComparedKeys
  BY <1>1 DEF ComparedKeys, TreeKeys
<1>3. Before(t.spec, t.key[x], t.key[leaf]) /\ Before(t.spec, t.key[leaf], r.key) =>
          Before(t.spec, t.key[x], r.key)
  BY <1>1, <1>2, OrderAssumption DEF IsStrictOrder
<1> QED
  BY <1>1, <1>3 DEF Ahead

LEMMA BehindKey ==
    ASSUME NEW r \in Absences, NEW t \in Concerned(r), NEW p \in Sides(r),
           Before(r.spec, r.key, p.key),
           NEW leaf \in t.leaves, t.image[leaf] = LeafImage(p.leaf, p.key, p.value),
           NEW x \in t.leaves, x = leaf \/ Ahead(t, leaf, x)
    PROVE  Before(t.spec, r.key, t.key[x])
<1>1. t \in Trees /\ r.spec = t.spec /\ t.key[leaf] = p.key
  BY DEF Concerned, SortedTrees, KeysTold
<1>2. {t.key[x], t.key[leaf], r.key} \subseteq ComparedKeys
  BY <1>1 DEF ComparedKeys, TreeKeys
<1>3. Before(t.spec, r.key, t.key[leaf]) /\ Before(t.spec, t.key[leaf], t.key[x]) =>
          Before(t.spec, r.key, t.key[x])
  BY <1>1, <1>2, OrderAssumption DEF IsStrictOrder
<1> QED
  BY <1>1, <1>3 DEF Ahead

LEMMA KeysApart ==
    ASSUME NEW r \in Absences, NEW t \in Concerned(r), NEW x \in t.leaves,
           Before(t.spec, t.key[x], r.key) \/ Before(t.spec, r.key, t.key[x])
    PROVE  t.key[x] # r.key
<1>1. t \in Trees /\ r.spec = t.spec
  BY DEF Concerned, SortedTrees
<1>2. r.key \in ComparedKeys
  BY DEF ComparedKeys
<1> QED
  BY <1>1, <1>2, OrderAssumption DEF IsStrictOrder

LEMMA SeparateAtShape ==
    ASSUME AbsenceTypeOK, SidesAccepted, LowerEnds, ChooseShape,
           NEW t \in Concerned(call)
    PROVE  /\ at' = "neighbor" => AtFork(t)'
           /\ at' = "right_most" => OnRightEdge(t)'
           /\ at' = "left_most" => OnLeftEdge(t)'
<1> DEFINE l == call.proof.left
           r == call.proof.right
<1>1. /\ t \in SortedTrees /\ call \in Absences /\ call' = call
      /\ step = 0 /\ step' = 0
  BY DEF ChooseShape, Answer, Examine, LowerEnds, AbsenceTypeOK, Concerned
<1>2. l # None => /\ LeadsTo(t, l, Len(l.path), t.root) /\ Len(l.path) \in Nat
  BY <1>1, CallType, LeadsToRoot DEF SidesAccepted, ChooseShape
<1>3. r # None => /\ LeadsTo(t, r, Len(r.path), t.root) /\ Len(r.path) \in Nat
  BY <1>1, CallType, LeadsToRoot DEF SidesAccepted, ChooseShape
<1>4. ASSUME at' = "neighbor" PROVE AtFork(t)'
  <2>1. left' = l.path /\ right' = r.path /\ l # None /\ r # None
    BY <1>4 DEF ChooseShape, Answer, Examine
  <2> QED
    BY <1>1, <1>2, <1>3, <2>1, RootFacts DEF AtFork
<1>5. ASSUME at' = "right_most" PROVE OnRightEdge(t)'
  <2>1. left' = l.path /\ l # None /\ r = None
    BY <1>5 DEF ChooseShape, Answer, Examine
  <2>2. PICK via \in [0..Len(l.path) -> t.nodes] :
          /\ IsTrail(t, l, Len(l.path), via) /\ via[Len(l.path)] = t.root
          /\ IsLast(t, via[0], via[0])
    BY <1>1, <1>2, <2>1, TrailStarts
  <2>3. t.leaves \subseteq t.below[via[Len(l.path)]]
    BY <1>1, <2>2, RootFacts
  <2> QED
    BY <1>1, <2>1, <2>2, <2>3 DEF OnRightEdge
<1>6. ASSUME at' = "left_most" PROVE OnLeftEdge(t)'
  <2>1. right' = r.path /\ r # None
    BY <1>6 DEF ChooseShape, Answer, Examine
  <2>2. PICK via \in [0..Len(r.path) -> t.nodes] :
          /\ IsTrail(t, r, Len(r.path), via) /\ via[Len(r.path)] = t.root
          /\ IsFirst(t, via[0], via[0])
    BY <1>1, <1>3, <2>1, TrailStarts
  <2>3. t.leaves \subseteq t.below[via[Len(r.path)]]
    BY <1>1, <2>2, RootFacts
  <2> QED
    BY <1>1, <2>1, <2>2, <2>3 DEF OnLeftEdge
<1> QED
  BY <1>4, <1>5, <1>6

LEMMA SeparateAtTops ==
    ASSUME AbsenceTypeOK, LowerEnds, PopTops,
           NEW t \in Concerned(call), AtFork(t)
    PROVE  /\ at' = "neighbor" => AtFork(t)'
           /\ at' = "right_most" => OnRightEdge(t)'
<1> DEFINE l == call.proof.left
           r == call.proof.right
<1>1. /\ t \in SortedTrees /\ call \in Absences /\ call' = call /\ at = "neighbor"
      /\ step = 0 /\ step' = 0 /\ r # None
      /\ IsSequence(left) /\ IsSequence(right)
  BY DEF PopTops, Answer, Examine, LowerEnds, AbsenceTypeOK, Concerned
<1>2. ASSUME at' = "neighbor" PROVE AtFork(t)'
  <2>1. /\ left # <<>> /\ right # <<>> /\ left' = Pop(left) /\ right' = Pop(right)
        /\ Top(left).prefix = Top(right).prefix
    BY <1>2 DEF PopTops, Answer, Examine
  <2> QED
    BY <1>1, <2>1, TopsShared DEF AtFork
<1>3. ASSUME at' = "right_most" PROVE OnRightEdge(t)'
  <2>1. /\ left # <<>> /\ right # <<>> /\ left' = Pop(left) /\ right' = Pop(right)
        /\ IsLeftStep(InnerSpec, Top(left), Top(right))
    BY <1>3 DEF PopTops, Answer, Examine
  <2>2. PICK m \in t.nodes, k \in t.nodes :
          /\ LeadsTo(t, l, Len(Pop(left)), m)
          /\ LeadsTo(t, r, Len(Pop(right)), k)
          /\ AreAdjacent(t, m, k)
    BY <1>1, <2>1, TopsFork
  <2>3. Len(Pop(left)) \in Nat
    BY <1>1, <2>1, PopType
  <2>4. PICK via \in [0..Len(Pop(left)) -> t.nodes] :
          /\ IsTrail(t, l, Len(Pop(left)), via) /\ via[Len(Pop(left))] = m
          /\ IsLast(t, via[0], via[0])
    BY <1>1, <2>2, <2>3, TrailStarts
  <2> QED
    BY <1>1, <2>1, <2>2, <2>4 DEF OnRightEdge
<1> QED
  BY <1>2, <1>3

LEMMA SeparateOnRight ==
    ASSUME AbsenceTypeOK, LowerEnds, RightMostStep, at' = "right_most",
           NEW t \in Concerned(call), OnRightEdge(t)
    PROVE  OnRightEdge(t)'
<1> DEFINE l == call.proof.left
           r == call.proof.right
<1>1. /\ t \in Trees /\ t \in SortedTrees
      /\ InnerSpec = t.spec.inner_spec /\ call \in Absences
      /\ IsSequence(left) /\ step \in Nat /\ step < Len(left)
      /\ l # None /\ IsLowerEnd(left, l.path)
  BY DEF RightMostStep, LowerEnds, AbsenceTypeOK, Concerned, SortedTrees, InnerSpec
<1>2. /\ UNCHANGED <<call, left, right>> /\ step' = step + 1
      /\ IsRightMostStep(t.spec.inner_spec, left[step + 1])
  BY <1>1 DEF RightMostStep, PassStep, Answer
<1>3. PICK via \in [0..Len(left) -> t.nodes] :
        /\ IsTrail(t, l, Len(left), via)
        /\ IsLast(t, via[step], via[0])
        /\ r = None => t.leaves \subseteq t.below[via[Len(left)]]
        /\ r # None => \E n \in t.nodes : /\ LeadsTo(t, r, Len(right), n)
                                          /\ AreAdjacent(t, via[Len(left)], n)
  BY DEF OnRightEdge
<1>4. Len(left) \in Nat /\ step + 1 \in 1..Len(left) /\ step \in 0..Len(left)
  BY <1>1, SequenceType
<1>5. left[step + 1] = l.path[step + 1] /\ IsInnerOp(l.path[step + 1])
  BY <1>1, <1>4, CallType DEF IsLowerEnd
<1>6. /\ via[step + 1] \in Inners(t) /\ via[step] \in t.nodes
      /\ IsStepOf(t, l.path[step + 1], via[step + 1], via[step])
  <2>1. step + 1 - 1 = step
    BY <1>1
  <2> QED
    BY <1>3, <1>4, <2>1 DEF IsTrail
<1>7. IsLast(t, via[step + 1], via[0])
  BY <1>1, <1>2, <1>3, <1>5, <1>6, EdgeStepsAreClear, LastFurtherUp
<1> QED
  BY <1>2, <1>3, <1>7 DEF OnRightEdge

LEMMA SeparateOnLeft ==
    ASSUME AbsenceTypeOK, LowerEnds, LeftMostStep, at' = "left_most",
           NEW t \in Concerned(call), OnLeftEdge(t)
    PROVE  OnLeftEdge(t)'
<1> DEFINE r == call.proof.right
<1>1. /\ t \in Trees /\ t \in SortedTrees
      /\ InnerSpec = t.spec.inner_spec /\ call \in Absences
      /\ IsSequence(right) /\ step \in Nat /\ step < Len(right)
      /\ r # None /\ IsLowerEnd(right, r.path)
  BY DEF LeftMostStep, LowerEnds, AbsenceTypeOK, Concerned, SortedTrees, InnerSpec
<1>2. /\ UNCHANGED <<call, left, right>> /\ step' = step + 1
      /\ IsLeftMostStep(t.spec.inner_spec, right[step + 1])
  BY <1>1 DEF LeftMostStep, PassStep, Answer
<1>3. PICK via \in [0..Len(right) -> t.nodes] :
        /\ IsTrail(t, r, Len(right), via)
        /\ IsFirst(t, via[step], via[0])
        /\ \A x \in t.leaves : \/ Before(t.spec, t.key[x], call.key)
                               \/ x \in t.below[via[Len(right)]]
                               \/ Behind(t, x, via[Len(right)])
  BY DEF OnLeftEdge
<1>4. Len(right) \in Nat /\ step + 1 \in 1..Len(right) /\ step \in 0..Len(right)
  BY <1>1, SequenceType
<1>5. right[step + 1] = r.path[step + 1] /\ IsInnerOp(r.path[step + 1])
  BY <1>1, <1>4, CallType DEF IsLowerEnd
<1>6. /\ via[step + 1] \in Inners(t) /\ via[step] \in t.nodes
      /\ IsStepOf(t, r.path[step + 1], via[step + 1], via[step])
  <2>1. step + 1 - 1 = step
    BY <1>1
  <2> QED
    BY <1>3, <1>4, <2>1 DEF IsTrail
<1>7. IsFirst(t, via[step + 1], via[0])
  BY <1>1, <1>2, <1>3, <1>5, <1>6, EdgeStepsAreClear, FirstFurtherUp
<1> QED
  BY <1>2, <1>3, <1>7 DEF OnLeftEdge

(* When all of the left path is passed, what is not ahead of the key is    *)
(* below the right path or behind it.                                      *)
LEMMA RightEdgePassed ==
    ASSUME AbsenceTypeOK, SidesAccepted, LowerEnds,
           at = "right_most", step = Len(left),
           NEW t \in Concerned(call), OnRightEdge(t)
    PROVE  /\ call.proof.right = None =>
                  \A x \in t.leaves : Before(t.spec, t.key[x], call.key)
           /\ call.proof.right # None =>
                  \E n \in t.nodes :
                      /\ LeadsTo(t, call.proof.right, Len(right), n)
                      /\ \A x \in t.leaves : \/ Before(t.spec, t.key[x], call.key)
                                             \/ x \in t.below[n] \/ Behind(t, x, n)
<1> DEFINE l == call.proof.left
           r == call.proof.right
<1>1. /\ call \in Absences /\ l # None
      /\ Before(call.spec, l.key, call.key)
  BY DEF LowerEnds, SidesAccepted, AbsenceTypeOK
<1>2. l \in Sides(call)
  BY <1>1, CallType
<1>3. PICK via \in [0..Len(left) -> t.nodes] :
        /\ IsTrail(t, l, Len(left), via)
        /\ IsLast(t, via[Len(left)], via[0])
        /\ r = None => t.leaves \subseteq t.below[via[Len(left)]]
        /\ r # None => \E n \in t.nodes : /\ LeadsTo(t, r, Len(right), n)
                                          /\ AreAdjacent(t, via[Len(left)], n)
  BY DEF OnRightEdge
<1> DEFINE m == via[Len(left)]
           leaf == via[0]
<1>4. leaf \in t.leaves /\ t.image[leaf] = LeafImage(l.leaf, l.key, l.value)
  BY <1>3 DEF IsTrail
<1>5. \A x \in t.leaves : (x = leaf \/ Ahead(t, x, leaf)) =>
          Before(t.spec, t.key[x], call.key)
  BY <1>1, <1>2, <1>4, AheadOfKey
<1>6. \A x \in t.leaves : (x \in t.below[m] \/ AheadOf(t, x, m)) =>
          Before(t.spec, t.key[x], call.key)
  BY <1>3, <1>5 DEF IsLast, AheadOf
<1> QED
  BY <1>3, <1>6 DEF AreAdjacent

LEMMA SeparateAtEnd ==
    ASSUME AbsenceTypeOK, SidesAccepted, LowerEnds, RightMostDone, at' = "left_most",
           NEW t \in Concerned(call), OnRightEdge(t)
    PROVE  OnLeftEdge(t)'
<1> DEFINE r == call.proof.right
<1>1. /\ UNCHANGED <<call, left, right>> /\ step' = 0 /\ r # None
      /\ at = "right_most" /\ step = Len(left) /\ t \in SortedTrees
  BY DEF RightMostDone, Answer, Concerned
<1>2. PICK n \in t.nodes :
        /\ LeadsTo(t, r, Len(right), n)
        /\ \A x \in t.leaves : \/ Before(t.spec, t.key[x], call.key)
                               \/ x \in t.below[n] \/ Behind(t, x, n)
  BY <1>1, RightEdgePassed
<1>3. Len(right) \in Nat
  BY SequenceType DEF AbsenceTypeOK
<1>4. PICK via \in [0..Len(right) -> t.nodes] :
        /\ IsTrail(t, r, Len(right), via) /\ via[Len(right)] = n
        /\ IsFirst(t, via[0], via[0])
  BY <1>1, <1>2, <1>3, TrailStarts
<1> QED
  BY <1>1, <1>2, <1>4 DEF OnLeftEdge

LEMMA LeftEdgePassed ==
    ASSUME AbsenceTypeOK, SidesAccepted, LowerEnds,
           at = "left_most", step = Len(right),
           NEW t \in Concerned(call), OnLeftEdge(t), NEW x \in t.leaves
    PROVE  Before(t.spec, t.key[x], call.key) \/ Before(t.spec, call.key, t.key[x])
<1> DEFINE r == call.proof.right
<1>1. /\ call \in Absences /\ r # None
      /\ Before(call.spec, call.key, r.key)
  BY DEF LowerEnds, SidesAccepted, AbsenceTypeOK
<1>2. r \in Sides(call)
  BY <1>1, CallType
<1>3. PICK via \in [0..Len(right) -> t.nodes] :
        /\ IsTrail(t, r, Len(right), via)
        /\ IsFirst(t, via[Len(right)], via[0])
        /\ \/ Before(t.spec, t.key[x], call.key)
           \/ x \in t.below[via[Len(right)]]
           \/ Behind(t, x, via[Len(right)])
  BY DEF OnLeftEdge
<1> DEFINE leaf == via[0]
<1>4. leaf \in t.leaves /\ t.image[leaf] = LeafImage(r.leaf, r.key, r.value)
  BY <1>3 DEF IsTrail
<1>5. (x = leaf \/ Ahead(t, leaf, x)) => Before(t.spec, call.key, t.key[x])
  BY <1>1, <1>2, <1>4, BehindKey
<1> QED
  BY <1>3, <1>5 DEF IsFirst, Behind

-----------------------------------------------------------------------------
(* The invariant.                                                          *)

LEMMA SeparateStep ==
    ASSUME AbsenceTypeOK, SidesAccepted, LowerEnds, PathsSeparate,
           [AbsenceNext]_allvars
    PROVE  PathsSeparate'
<1> SUFFICES ASSUME at' \in {"neighbor", "right_most", "left_most"},
                    NEW t \in Concerned(call)'
             PROVE  /\ at' = "neighbor" => AtFork(t)'
                    /\ at' = "right_most" => OnRightEdge(t)'
                    /\ at' = "left_most" => OnLeftEdge(t)'
  BY DEF PathsSeparate
<1>1. call' = call
  BY DEF AbsenceNext, Running, Ask, CallLeft, CallRight, CallSide, SkipLeft,
         SkipRight, SkipSide, ReturnLeft, ReturnRight, ReturnSide, Continue,
         Callee, ChooseShape, PopTops, Answer, Examine, RightMostStep,
         RightMostDone, LeftMostStep, LeftMostDone, PassStep, ReturnAnswer, allvars
<1>2. t \in Concerned(call)
  BY <1>1 DEF Concerned
<1>3. /\ at = "neighbor" => AtFork(t)
      /\ at = "right_most" => OnRightEdge(t)
      /\ at = "left_most" => OnLeftEdge(t)
  BY <1>2 DEF PathsSeparate
<1>4. CASE ChooseShape
  BY <1>2, <1>4, SeparateAtShape
<1>5. CASE PopTops
  <2>1. at = "neighbor" /\ at' # "left_most"
    BY <1>5 DEF PopTops, Answer, Examine
  <2> QED
    BY <1>2, <1>3, <1>5, <2>1, SeparateAtTops
<1>6. CASE RightMostStep
  <2>1. at = "right_most" /\ at' = "right_most"
    BY <1>6 DEF RightMostStep, PassStep, Answer
  <2> QED
    BY <1>2, <1>3, <1>6, <2>1, SeparateOnRight
<1>7. CASE RightMostDone
  <2>1. at = "right_most" /\ at' = "left_most"
    BY <1>7 DEF RightMostDone, Answer
  <2> QED
    BY <1>2, <1>3, <1>7, <2>1, SeparateAtEnd
<1>8. CASE LeftMostStep
  <2>1. at = "left_most" /\ at' = "left_most"
    BY <1>8 DEF LeftMostStep, PassStep, Answer
  <2> QED
    BY <1>2, <1>3, <1>8, <2>1, SeparateOnLeft
<1>9. CASE UNCHANGED allvars
  BY <1>3, <1>9 DEF allvars, AtFork, OnRightEdge, OnLeftEdge
<1> QED
  BY <1>4, <1>5, <1>6, <1>7, <1>8, <1>9
     DEF AbsenceNext, Running, Ask, CallLeft, CallRight, CallSide, SkipLeft,
         SkipRight, SkipSide, ReturnLeft, ReturnRight, ReturnSide, Continue,
         Callee, Answer, LeftMostDone, ReturnAnswer

(* The only answers "ok" are those at the end of the two loops. *)
LEMMA OkIsJustified ==
    ASSUME AbsenceTypeOK, SidesAccepted, LowerEnds, PathsSeparate,
           RightMostDone \/ LeftMostDone, at' = "answered"
    PROVE  AbsenceJustified(call)
<1> SUFFICES ASSUME NEW t \in Concerned(call), NEW x \in t.leaves
             PROVE  t.key[x] # call.key
  BY DEF AbsenceJustified, HasKey
<1>1. call \in Absences
  BY DEF RightMostDone, LeftMostDone, AbsenceTypeOK
<1>2. CASE RightMostDone
  <2>1. at = "right_most" /\ step = Len(left) /\ call.proof.right = None
    BY <1>2 DEF RightMostDone
  <2>2. OnRightEdge(t)
    BY <2>1 DEF PathsSeparate
  <2>3. Before(t.spec, t.key[x], call.key)
    BY <2>1, <2>2, RightEdgePassed
  <2> QED
    BY <1>1, <2>3, KeysApart
<1>3. CASE LeftMostDone
  <2>1. at = "left_most" /\ step = Len(right)
    BY <1>3 DEF LeftMostDone
  <2>2. OnLeftEdge(t)
    BY <2>1 DEF PathsSeparate
  <2>3. Before(t.spec, t.key[x], call.key) \/ Before(t.spec, call.key, t.key[x])
    BY <2>1, <2>2, LeftEdgePassed
  <2> QED
    BY <1>1, <2>3, KeysApart
<1> QED
  BY <1>2, <1>3

LEMMA NonMembershipStep ==
    ASSUME AbsenceTypeOK, SidesAccepted, LowerEnds, PathsSeparate,
           NonMembershipSound, [AbsenceNext]_allvars
    PROVE  NonMembershipSound'
<1> SUFFICES ASSUME answer' = "ok"
             PROVE  AbsenceJustified(call)'
  BY DEF NonMembershipSound
<1>1. CASE RightMostDone \/ LeftMostDone
  <2>1. at' = "answered" /\ call' = call
    BY <1>1, NoneAssumption
       DEF RightMostDone, LeftMostDone, Answer, AbsenceTypeOK
  <2>2. AbsenceJustified(call)
    BY <1>1, <2>1, OkIsJustified
  <2> QED
    BY <2>1, <2>2 DEF AbsenceJustified, Concerned
<1>2. CASE UNCHANGED allvars
  BY <1>2 DEF allvars, NonMembershipSound, AbsenceJustified, Concerned
<1>3. CASE AbsenceNext /\ ~(RightMostDone \/ LeftMostDone)
  <2>1. answer' \in {"err", "panic", None} \/ (answer' = answer /\ at # "answered")
    BY <1>3 DEF AbsenceNext, Running, Ask, CallLeft, CallRight, CallSide, SkipLeft,
         SkipRight, SkipSide, ReturnLeft, ReturnRight, ReturnSide, Continue,
         Callee, ChooseShape, PopTops, Answer, Examine, RightMostStep,
         LeftMostStep, PassStep, ReturnAnswer
  <2> QED
    BY <2>1, NoneAssumption DEF AbsenceTypeOK
<1> QED
  BY <1>1, <1>2, <1>3

LEMMA AbsenceInvariantInit == AbsenceInit => AbsenceInvariant
<1> SUFFICES ASSUME AbsenceInit PROVE AbsenceInvariant
  OBVIOUS
<1>1. AbsenceTypeOK /\ CalleeKnown /\ PathInvariant
  BY AbsenceTypeInit, PathInvariantInit DEF AbsenceInit
<1>2. SidesAccepted /\ LowerEnds /\ PathsSeparate /\ NonMembershipSound
  BY NoneAssumption
     DEF AbsenceInit, SidesAccepted, LowerEnds, PathsSeparate, NonMembershipSound
<1> QED
  BY <1>1, <1>2 DEF AbsenceInvariant

LEMMA AbsenceInvariantStep ==
    AbsenceInvariant /\ [AbsenceNext]_allvars => AbsenceInvariant'
<1> SUFFICES ASSUME AbsenceInvariant, [AbsenceNext]_allvars
             PROVE  AbsenceInvariant'
  OBVIOUS
<1>1. /\ AbsenceTypeOK /\ PathInvariant /\ CalleeKnown /\ SidesAccepted
      /\ LowerEnds /\ PathsSeparate /\ NonMembershipSound /\ MembershipSound
  BY DEF AbsenceInvariant, PathInvariant
<1>2. AbsenceTypeOK' /\ CalleeKnown'
  BY <1>1, AbsenceTypeStep
<1>3. PathInvariant'
  BY <1>1, CalleeStep, PathInvariantStep
<1>4. SidesAccepted'
  BY <1>1, SidesStep
<1>5. LowerEnds'
  BY <1>1, LowerEndsStep
<1>6. PathsSeparate'
  BY <1>1, SeparateStep
<1>7. NonMembershipSound'
  BY <1>1, NonMembershipStep
<1> QED
  BY <1>2, <1>3, <1>4, <1>5, <1>6, <1>7 DEF AbsenceInvariant

(* At every step of verify_non_existence the tree's leaves are where the   *)
(* part of the paths that has been looked at says.                         *)
THEOREM AbsenceInvariantHolds == AbsenceSpec => []AbsenceInvariant
<1>1. AbsenceInit => AbsenceInvariant
  BY AbsenceInvariantInit
<1>2. AbsenceInvariant /\ [AbsenceNext]_allvars => AbsenceInvariant'
  BY AbsenceInvariantStep
<1> QED
  BY <1>1, <1>2, PTL DEF AbsenceSpec

(* The variables keep their types, those of the called function included.  *)
THEOREM AbsenceTypeCorrect == AbsenceSpec => []AbsenceTypeOK
<1>1. AbsenceInvariant => AbsenceTypeOK
  BY DEF AbsenceInvariant
<1> QED
  BY <1>1, AbsenceInvariantHolds, PTL

(* No key of a tree is ever confirmed to be absent, whatever the tree, its *)
(* placeholders and the two proofs.                                        *)
THEOREM NonMembershipIsSound == AbsenceSpec => []NonMembershipSound
<1>1. AbsenceInvariant => NonMembershipSound
  BY DEF AbsenceInvariant
<1> QED
  BY <1>1, AbsenceInvariantHolds, PTL

(* What verify_non_existence does to the variables of verify_existence are *)
(* calls of it: what holds of every sequence of calls holds of these.      *)
THEOREM CalleeIsExistence == AbsenceSpec => Spec
<1>1. AbsenceInit => Init
  BY DEF AbsenceInit
<1>2. AbsenceInvariant /\ [AbsenceNext]_allvars => [Next]_vars
  BY CalleeStep DEF AbsenceInvariant
<1> QED
  BY <1>1, <1>2, AbsenceInvariantHolds, PTL DEF AbsenceSpec, Spec

-----------------------------------------------------------------------------
(* The machine implements Verifier.                                        *)

LEMMA AbsenceNextImplements ==
    ASSUME AbsenceInvariant, [AbsenceNext]_allvars
    PROVE  [AbsencePromise!Next]_(AbsencePromise!vars)
<1>1. /\ AbsenceTypeOK /\ SidesAccepted /\ LowerEnds /\ PathsSeparate
  BY DEF AbsenceInvariant
<1>2. CASE Ask
  BY <1>1, <1>2, NoneAssumption, PanicAssumption
     DEF Ask, AbsenceTypeOK, AbsencePromise!Next, AbsencePromise!Call
<1>3. CASE ReturnAnswer
  BY <1>3, NoneAssumption, PanicAssumption
     DEF ReturnAnswer, AbsencePromise!Next, AbsencePromise!Return
<1>4. CASE UNCHANGED allvars
  BY <1>4 DEF allvars, AbsencePromise!vars
<1>5. CASE at' = "answered" /\ answer' = "ok" /\ (RightMostDone \/ LeftMostDone)
  <2>1. AbsenceJustified(call)
    BY <1>1, <1>5, OkIsJustified
  <2>2. at \notin {"idle", "answered"} /\ call' = call
    BY <1>5 DEF RightMostDone, LeftMostDone, Answer
  <2> QED
    BY <1>5, <2>1, <2>2 DEF AbsencePromise!Next, AbsencePromise!Accept
<1>6. CASE /\ at \notin {"idle", "answered"} /\ call' = call
           /\ at' = "answered" /\ answer' \in {"err", "panic"}
  BY <1>6 DEF AbsencePromise!Next, AbsencePromise!Refuse
<1>7. CASE /\ at \notin {"idle", "answered"} /\ at' \notin {"idle", "answered"}
           /\ UNCHANGED <<call, answer>>
  BY <1>7 DEF AbsencePromise!vars
<1>8. Running => ReturnAnswer
                 \/ (at' = "answered" /\ answer' = "ok"
                        /\ (RightMostDone \/ LeftMostDone))
                 \/ (/\ at \notin {"idle", "answered"} /\ call' = call
                     /\ at' = "answered" /\ answer' \in {"err", "panic"})
                 \/ (/\ at \notin {"idle", "answered"}
                     /\ at' \notin {"idle", "answered"}
                     /\ UNCHANGED <<call, answer>>)
  BY DEF Running, CallLeft, CallRight, CallSide, SkipLeft,
         SkipRight, SkipSide, ReturnLeft, ReturnRight, ReturnSide, Continue,
         Callee, ChooseShape, PopTops, Answer, Examine, RightMostStep,
         RightMostDone, LeftMostStep, LeftMostDone, PassStep
<1> QED
  BY <1>2, <1>3, <1>4, <1>5, <1>6, <1>7, <1>8 DEF AbsenceNext

(* verify_non_existence answers each call once, and with "ok" only when no *)
(* tree the call is about has the key.                                     *)
THEOREM ImplementsAbsencePromise == AbsenceSpec => KeepsAbsencePromise
<1>1. AbsenceInit => AbsencePromise!Init
  BY NoneAssumption, PanicAssumption DEF AbsenceInit, AbsencePromise!Init
<1>2. AbsenceInvariant /\ [AbsenceNext]_allvars
          => [AbsencePromise!Next]_(AbsencePromise!vars)
  BY AbsenceNextImplements
<1> QED
  BY <1>1, <1>2, AbsenceInvariantHolds, PTL
     DEF AbsenceSpec, KeepsAbsencePromise, AbsencePromise!Spec

-----------------------------------------------------------------------------
(* The answer of the machine is the one of VerifiesAbsence.                *)

(* A call of verify_existence returns its verdict on the side's proof. *)
LEMMA ReturnedVerdict ==
    ASSUME AbsenceTypeOK, ExistenceVerdict, pc = "done",
           NEW p \in {call.proof.left, call.proof.right}, p # None,
           req = SideCall(call, p)
    PROVE  /\ verdict = "ok" <=> SideVerified(p)
           /\ req.key = p.key
<1>1. call \in Absences
  BY AbsencesAssumption DEF AbsenceTypeOK
<1>2. req.spec = call.spec /\ req.spec # None /\ req.key = p.key
  BY <1>1, CallType
<1>3. req.proof = p /\ req.root = call.root /\ req.value = p.value
  BY DEF SideCall
<1> QED
  BY <1>2, <1>3 DEF ExistenceVerdict, SideVerified

LEMMA SidesVerifiedStep ==
    ASSUME AbsenceTypeOK, CalleeKnown, ExistenceVerdict, SidesVerified,
           [AbsenceNext]_allvars
    PROVE  SidesVerified'
<1> DEFINE l == call.proof.left
           r == call.proof.right
           LeftHolds  == SideVerified(l) /\ Before(call.spec, l.key, call.key)
           RightHolds == SideVerified(r) /\ Before(call.spec, call.key, r.key)
           Left  == at \notin {"idle", "left", "answered"}
           Right == at \notin {"idle", "left", "right", "answered"}
           Paths == at \in {"neighbor", "right_most", "left_most"}
<1>1. (Left \/ Right \/ Paths)' => call' = call
  BY DEF AbsenceNext, Running, Ask, CallLeft, CallRight, CallSide, SkipLeft,
         SkipRight, SkipSide, ReturnLeft, ReturnRight, ReturnSide, Continue,
         Callee, ChooseShape, PopTops, Answer, Examine, RightMostStep,
         RightMostDone, LeftMostStep, LeftMostDone, PassStep, ReturnAnswer, allvars
<1>2. Left' => Left \/ ReturnLeft \/ SkipLeft
  BY DEF AbsenceNext, Running, Ask, CallLeft, CallRight, CallSide,
         SkipRight, SkipSide, ReturnRight, ReturnSide, Continue,
         Callee, ChooseShape, PopTops, Answer, Examine, RightMostStep,
         RightMostDone, LeftMostStep, LeftMostDone, PassStep, ReturnAnswer, allvars
<1>3. Right' => Right \/ ReturnRight \/ SkipRight
  BY DEF AbsenceNext, Running, Ask, CallLeft, CallRight, CallSide, SkipLeft,
         SkipSide, ReturnLeft, ReturnSide, Continue,
         Callee, ChooseShape, PopTops, Answer, Examine, RightMostStep,
         RightMostDone, LeftMostStep, LeftMostDone, PassStep, ReturnAnswer, allvars
<1>4. ASSUME Left', l # None
      PROVE  LeftHolds
  <2>1. CASE Left
    BY <1>4, <2>1 DEF SidesVerified
  <2>2. CASE ReturnLeft
    <3>1. pc = "done" /\ verdict = "ok" /\ Before(call.spec, req.key, call.key)
      BY <1>4, <2>2 DEF ReturnLeft, ReturnSide, Answer
    <3>2. req = SideCall(call, l)
      BY <2>2, <3>1 DEF CalleeKnown, ReturnLeft, ReturnSide
    <3> QED
      BY <1>4, <3>1, <3>2, ReturnedVerdict
  <2>3. CASE SkipLeft
    BY <1>4, <2>3 DEF SkipLeft, SkipSide
  <2> QED
    BY <1>2, <1>4, <2>1, <2>2, <2>3
<1>5. ASSUME Right', r # None
      PROVE  RightHolds
  <2>1. CASE Right
    BY <1>5, <2>1 DEF SidesVerified
  <2>2. CASE ReturnRight
    <3>1. pc = "done" /\ verdict = "ok" /\ Before(call.spec, call.key, req.key)
      BY <1>5, <2>2 DEF ReturnRight, ReturnSide, Answer
    <3>2. req = SideCall(call, r)
      BY <2>2, <3>1 DEF CalleeKnown, ReturnRight, ReturnSide
    <3> QED
      BY <1>5, <3>1, <3>2, ReturnedVerdict
  <2>3. CASE SkipRight
    BY <1>5, <2>3 DEF SkipRight, SkipSide
  <2> QED
    BY <1>3, <1>5, <2>1, <2>2, <2>3
<1>6. ASSUME Paths' PROVE InnerSpec # None
  <2>1. Paths \/ ChooseShape
    BY <1>6 DEF AbsenceNext, Running, Ask, CallLeft, CallRight, CallSide, SkipLeft,
         SkipRight, SkipSide, ReturnLeft, ReturnRight, ReturnSide, Continue,
         Callee, Answer, ReturnAnswer, RightMostDone, LeftMostDone, RightMostStep,
         LeftMostStep, PopTops, PassStep, allvars
  <2>2. ChooseShape => InnerSpec # None
    BY <1>6 DEF ChooseShape, Answer
  <2> QED
    BY <2>1, <2>2 DEF SidesVerified
<1> QED
  BY <1>1, <1>4, <1>5, <1>6 DEF SidesVerified, SideVerified, InnerSpec

(* The tops of what is left are the next operations from the root. *)
LEMMA TopsAreNext ==
    ASSUME AbsenceTypeOK, LowerEnds, at = "neighbor", left # <<>>, right # <<>>,
           NEW n \in Nat, SameAbove(Len(left), Len(right), n)
    PROVE  LET p == call.proof.left.path
               q == call.proof.right.path
           IN  /\ n < Len(p) /\ n < Len(q) /\ n + 1 \in 0..Len(p)
               /\ Top(left) = p[Len(p) - n] /\ Top(right) = q[Len(q) - n]
               /\ Len(Pop(left)) + 1 = Len(p) - n
               /\ Len(Pop(right)) + 1 = Len(q) - n
               /\ Len(Pop(left)) = Len(p) - (n + 1)
               /\ Len(Pop(right)) = Len(q) - (n + 1)
               /\ IsLowerEnd(Pop(left), p)
<1> DEFINE l == call.proof.left
           r == call.proof.right
           p == l.path
           q == r.path
<1>1. /\ call \in Absences /\ l # None /\ r # None
      /\ IsLowerEnd(left, p) /\ IsLowerEnd(right, q)
      /\ IsSequence(left) /\ IsSequence(right)
  BY DEF AbsenceTypeOK, LowerEnds
<1>2. Len(p) \in Nat /\ Len(q) \in Nat
  BY <1>1, CallType
<1>3. /\ Len(left) \in 1..Len(p) /\ Top(left) = p[Len(left)]
      /\ IsLowerEnd(Pop(left), p)
  BY <1>1, <1>2, LowerEndPopped
<1>4. Len(right) \in 1..Len(q) /\ Top(right) = q[Len(right)]
  BY <1>1, <1>2, LowerEndPopped
<1>5. Len(Pop(left)) = Len(left) - 1 /\ Len(Pop(right)) = Len(right) - 1
  BY <1>1, PopType
<1>6. Len(left) = Len(p) - n /\ Len(right) = Len(q) - n
  BY DEF SameAbove
<1> DEFINE a == Len(left)
           b == Len(right)
           c == Len(p)
           d == Len(q)
<1>7. /\ n < c /\ n < d /\ n + 1 \in 0..c
      /\ (a - 1) + 1 = c - n /\ (b - 1) + 1 = d - n
      /\ a - 1 = c - (n + 1) /\ b - 1 = d - (n + 1)
  <2>1. c \in Nat /\ d \in Nat /\ a \in 1..c /\ b \in 1..d /\ a = c - n /\ b = d - n
    BY <1>2, <1>3, <1>4, <1>6
  <2> HIDE DEF a, b, c, d
  <2> QED
    BY <2>1
<1>8. Top(left) = p[Len(p) - n] /\ Top(right) = q[Len(q) - n]
  BY <1>3, <1>4, <1>6
<1> QED
  BY <1>3, <1>5, <1>7, <1>8

LEMMA TopsCommonStep ==
    ASSUME AbsenceTypeOK, LowerEnds, TopsCommon, [AbsenceNext]_allvars
    PROVE  TopsCommon'
<1> DEFINE l == call.proof.left
           r == call.proof.right
<1> SUFFICES ASSUME (at = "neighbor")'
             PROVE  \E n \in 0..Len(l'.path) : SameAbove(Len(left), Len(right), n)'
  BY DEF TopsCommon
<1>1. CASE ChooseShape
  <2>1. /\ call \in Absences /\ call' = call
        /\ l # None /\ r # None /\ left' = l.path /\ right' = r.path
    BY <1>1 DEF ChooseShape, Answer, Examine, AbsenceTypeOK
  <2>2. Len(l.path) \in Nat /\ Len(r.path) \in Nat
    BY <2>1, CallType
  <2>3. SameAbove(Len(left), Len(right), 0)'
    BY <2>1, <2>2 DEF SameAbove
  <2> QED
    BY <2>1, <2>2, <2>3
<1>2. CASE PopTops
  <2>1. /\ at = "neighbor" /\ call' = call
        /\ left # <<>> /\ right # <<>> /\ left' = Pop(left) /\ right' = Pop(right)
        /\ Top(left).prefix = Top(right).prefix
        /\ Top(left).suffix = Top(right).suffix
    BY <1>2 DEF PopTops, Answer, Examine
  <2>2. PICK n \in 0..Len(l.path) : SameAbove(Len(left), Len(right), n)
    BY <2>1 DEF TopsCommon
  <2>3. n \in Nat
    BY <2>2
  <2>4. /\ n + 1 \in 0..Len(l.path)
        /\ Top(left) = l.path[Len(l.path) - n] /\ Top(right) = r.path[Len(r.path) - n]
        /\ Len(Pop(left)) = Len(l.path) - (n + 1)
        /\ Len(Pop(right)) = Len(r.path) - (n + 1)
    BY <2>1, <2>2, <2>3, TopsAreNext
  <2>5. \A i \in 0..n : SameFromTop(l.path, r.path, i)
    <3>1. SameFromTop(l.path, r.path, n)
      BY <2>1, <2>4 DEF SameFromTop
    <3>2. \A i \in 0..n : i = n \/ i \in 0..(n - 1)
      BY <2>3
    <3> QED
      BY <2>2, <3>1, <3>2 DEF SameAbove
  <2>6. (n + 1) - 1 = n
    BY <2>3
  <2>7. SameAbove(Len(left), Len(right), n + 1)'
    BY <2>1, <2>4, <2>5, <2>6 DEF SameAbove
  <2> QED
    BY <2>1, <2>4, <2>7
<1>3. CASE UNCHANGED allvars
  BY <1>3 DEF allvars, TopsCommon, SameAbove
<1> QED
  BY <1>1, <1>2, <1>3
     DEF AbsenceNext, Running, Ask, CallLeft, CallRight, CallSide, SkipLeft,
         SkipRight, SkipSide, ReturnLeft, ReturnRight, ReturnSide, Continue,
         Callee, Answer, RightMostStep, RightMostDone, LeftMostStep, LeftMostDone,
         PassStep, ReturnAnswer

LEMMA EdgesAtFork ==
    ASSUME AbsenceTypeOK, LowerEnds, TopsCommon, PopTops, (at = "right_most")'
    PROVE  /\ call.proof.left # None /\ call.proof.right # None
           /\ Parted'
<1> DEFINE l == call.proof.left
           r == call.proof.right
<1>1. /\ at = "neighbor" /\ call' = call
      /\ left # <<>> /\ right # <<>> /\ left' = Pop(left) /\ right' = Pop(right)
      /\ ~(/\ Top(left).prefix = Top(right).prefix
           /\ Top(left).suffix = Top(right).suffix)
      /\ IsLeftStep(InnerSpec, Top(left), Top(right))
  BY DEF PopTops, Answer, Examine
<1>2. PICK n \in 0..Len(l.path) : SameAbove(Len(left), Len(right), n)
  BY <1>1 DEF TopsCommon
<1>3. n \in Nat
  BY <1>2
<1>4. /\ Top(left) = l.path[Len(l.path) - n] /\ Top(right) = r.path[Len(r.path) - n]
      /\ Len(Pop(left)) + 1 = Len(l.path) - n
      /\ Len(Pop(right)) + 1 = Len(r.path) - n
      /\ IsLowerEnd(Pop(left), l.path)
  BY <1>1, <1>2, <1>3, TopsAreNext
<1>5. ~SameFromTop(l.path, r.path, n)
  BY <1>1, <1>4 DEF SameFromTop
<1>6. SameAbove(Len(left) + 1, Len(right) + 1, n)'
  BY <1>1, <1>2, <1>4 DEF SameAbove
<1>7. l # None /\ r # None
  BY <1>1 DEF LowerEnds
<1> QED
  BY <1>1, <1>2, <1>4, <1>5, <1>6, <1>7 DEF Parted, InnerSpec

LEMMA EdgesStep ==
    ASSUME AbsenceTypeOK, LowerEnds, TopsCommon, EdgesPassed, [AbsenceNext]_allvars
    PROVE  EdgesPassed'
<1> DEFINE l == call.proof.left
           r == call.proof.right
<1> SUFFICES ASSUME (at \in {"right_most", "left_most"})'
             PROVE  EdgesPassed'
  BY DEF EdgesPassed
<1>1. CASE ChooseShape
  <2>1. /\ call' = call /\ step' = step /\ step = 0
        /\ \/ at' = "right_most" /\ l # None /\ r = None /\ left' = l.path
           \/ at' = "left_most" /\ l = None /\ r # None /\ right' = r.path
    BY <1>1 DEF ChooseShape, Answer, Examine, LowerEnds, AbsenceTypeOK
  <2>2. RightMost(InnerSpec, left, step)' /\ LeftMost(InnerSpec, right, step)'
    BY <2>1 DEF RightMost, LeftMost
  <2> QED
    BY <2>1, <2>2 DEF EdgesPassed
<1>2. CASE PopTops
  <2>1. /\ call' = call /\ at' = "right_most" /\ step' = 0
    BY <1>2 DEF PopTops, Answer, Examine, LowerEnds
  <2>2. l # None /\ r # None /\ Parted'
    BY <1>2, <2>1, EdgesAtFork
  <2>3. RightMost(InnerSpec, left, step)'
    BY <2>1 DEF RightMost
  <2> QED
    BY <2>1, <2>2, <2>3 DEF EdgesPassed
<1>3. CASE RightMostStep
  <2>1. /\ at = "right_most" /\ at' = at /\ UNCHANGED <<call, left, right>>
        /\ step' = step + 1 /\ IsRightMostStep(InnerSpec, left[step + 1])
        /\ step \in Nat
    BY <1>3 DEF RightMostStep, PassStep, Answer, AbsenceTypeOK
  <2>2. RightMost(InnerSpec, left, step)
    BY <2>1 DEF EdgesPassed
  <2>3. \A k \in 1..(step + 1) : k = step + 1 \/ k \in 1..step
    BY <2>1
  <2>4. RightMost(InnerSpec, left, step)'
    BY <2>1, <2>2, <2>3 DEF RightMost, InnerSpec
  <2> QED
    BY <2>1, <2>4 DEF EdgesPassed, Parted, SameAbove, InnerSpec
<1>4. CASE RightMostDone
  <2>1. /\ at = "right_most" /\ at' = "left_most" /\ UNCHANGED <<call, left, right>>
        /\ step' = 0 /\ step = Len(left) /\ r # None /\ l # None
    BY <1>4 DEF RightMostDone, Answer, LowerEnds
  <2>2. RightMost(InnerSpec, left, Len(left)) /\ Parted
    BY <2>1 DEF EdgesPassed
  <2>3. RightMost(InnerSpec, left, Len(left))' /\ LeftMost(InnerSpec, right, step)'
    BY <2>1, <2>2 DEF RightMost, LeftMost, InnerSpec
  <2>4. Parted'
    BY <2>1, <2>2 DEF Parted, SameAbove, InnerSpec
  <2> QED
    BY <2>1, <2>3, <2>4 DEF EdgesPassed
<1>5. CASE LeftMostStep
  <2>1. /\ at = "left_most" /\ at' = at /\ UNCHANGED <<call, left, right>>
        /\ step' = step + 1 /\ IsLeftMostStep(InnerSpec, right[step + 1])
        /\ step \in Nat
    BY <1>5 DEF LeftMostStep, PassStep, Answer, AbsenceTypeOK
  <2>2. /\ LeftMost(InnerSpec, right, step)
        /\ l # None => RightMost(InnerSpec, left, Len(left))
        /\ r # None
        /\ l = None => right = r.path
        /\ l # None /\ r # None => Parted
    BY <2>1 DEF EdgesPassed
  <2>3. \A k \in 1..(step + 1) : k = step + 1 \/ k \in 1..step
    BY <2>1
  <2>4. LeftMost(InnerSpec, right, step)'
    BY <2>1, <2>2, <2>3 DEF LeftMost, InnerSpec
  <2>5. RightMost(InnerSpec, left, Len(left)) => RightMost(InnerSpec, left, Len(left))'
    BY <2>1 DEF RightMost, InnerSpec
  <2>6. Parted => Parted'
    BY <2>1 DEF Parted, SameAbove, InnerSpec
  <2> QED
    BY <2>1, <2>2, <2>4, <2>5, <2>6 DEF EdgesPassed
<1>6. CASE UNCHANGED allvars
  BY <1>6 DEF allvars, EdgesPassed, Parted, SameAbove, InnerSpec
<1> QED
  BY <1>1, <1>2, <1>3, <1>4, <1>5, <1>6
     DEF AbsenceNext, Running, Ask, CallLeft, CallRight, CallSide, SkipLeft,
         SkipRight, SkipSide, ReturnLeft, ReturnRight, ReturnSide, Continue,
         Callee, Answer, LeftMostDone, ReturnAnswer

(* Where two paths part decides whether they are neighbors. *)
LEMMA NeighborsFromTop ==
    ASSUME NEW p, NEW q, NEW spec, Len(p) \in Nat, Len(q) \in Nat,
           NEW n, IsCommonTop(p, q, n)
    PROVE  AreNeighbors(spec, p, q) <=>
               /\ n < Len(p) /\ n < Len(q)
               /\ IsLeftStep(spec, p[Len(p) - n], q[Len(q) - n])
               /\ RightMost(spec, p, Len(p) - n - 1)
               /\ LeftMost(spec, q, Len(q) - n - 1)
<1>1. CommonTop(p, q) = n
  BY CommonTopUnique
<1> QED
  BY <1>1 DEF AreNeighbors

(* In the two loops only the lower ends of the paths are still to be       *)
(* looked at.                                                              *)
LEMMA EdgesDecide ==
    ASSUME AbsenceTypeOK, LowerEnds, SidesVerified, EdgesPassed,
           at \in {"right_most", "left_most"}
    PROVE  VerifiesAbsence(call.proof, call.spec, call.root, call.key) <=>
               /\ call.proof.left # None => RightMost(InnerSpec, left, Len(left))
               /\ call.proof.right # None => LeftMost(InnerSpec, right, Len(right))
<1> DEFINE l == call.proof.left
           r == call.proof.right
           p == l.path
           q == r.path
           spec == InnerSpec
<1>1. /\ call \in Absences /\ spec # None
      /\ l # None => SideVerified(l) /\ Before(call.spec, l.key, call.key)
      /\ r # None => SideVerified(r) /\ Before(call.spec, call.key, r.key)
  BY DEF AbsenceTypeOK, SidesVerified
<1>2. CASE l # None /\ r # None
  <2>1. PICK n \in 0..Len(p) :
          /\ SameAbove(Len(left) + 1, Len(right) + 1, n)
          /\ ~SameFromTop(p, q, n)
          /\ IsLeftStep(spec, p[Len(p) - n], q[Len(q) - n])
          /\ IsLowerEnd(left, p)
    BY <1>2 DEF EdgesPassed, Parted
  <2>2. IsLowerEnd(right, q)
    BY <1>2 DEF LowerEnds
  <2>3. Len(p) \in Nat /\ Len(q) \in Nat
    BY <1>1, <1>2, CallType
  <2>4. Len(left) \in Nat /\ Len(right) \in Nat
    BY SequenceType DEF AbsenceTypeOK
  <2>5. /\ n < Len(p) /\ n < Len(q) /\ n <= Len(q)
        /\ Len(left) = Len(p) - n - 1 /\ Len(right) = Len(q) - n - 1
    <3> DEFINE a == Len(left)
               b == Len(right)
               c == Len(p)
               d == Len(q)
    <3>1. /\ a + 1 = c - n /\ b + 1 = d - n /\ a \in Nat /\ b \in Nat
          /\ c \in Nat /\ d \in Nat /\ n \in 0..c
      BY <2>1, <2>3, <2>4 DEF SameAbove
    <3> HIDE DEF a, b, c, d
    <3>2. n < c /\ n < d /\ n <= d /\ a = c - n - 1 /\ b = d - n - 1
      BY <3>1
    <3> QED
      BY <3>2 DEF a, b, c, d
  <2>6. IsCommonTop(p, q, n)
    BY <2>1, <2>5 DEF SameAbove, IsCommonTop
  <2>7. /\ RightMost(spec, left, Len(left)) <=> RightMost(spec, p, Len(left))
        /\ LeftMost(spec, right, Len(right)) <=> LeftMost(spec, q, Len(right))
    BY <2>1, <2>2 DEF IsLowerEnd, RightMost, LeftMost
  <2>8. AreNeighbors(spec, p, q) <=>
            RightMost(spec, left, Len(left)) /\ LeftMost(spec, right, Len(right))
    BY <2>1, <2>3, <2>5, <2>6, <2>7, NeighborsFromTop
  <2> QED
    BY <1>1, <1>2, <2>8 DEF VerifiesAbsence, SideVerified, InnerSpec
<1>3. CASE l # None /\ r = None
  <2>1. left = p
    BY <1>3 DEF EdgesPassed
  <2> QED
    BY <1>1, <1>3, <2>1 DEF VerifiesAbsence, SideVerified, InnerSpec
<1>4. CASE l = None
  <2>1. right = q /\ r # None
    BY <1>4 DEF EdgesPassed
  <2> QED
    BY <1>1, <1>4, <2>1 DEF VerifiesAbsence, SideVerified, InnerSpec
<1> QED
  BY <1>2, <1>3, <1>4

(* While the loop over the common part runs, the verdict is about how the  *)
(* paths go on.                                                            *)
LEMMA TopsDecide ==
    ASSUME AbsenceTypeOK, LowerEnds, SidesVerified, TopsCommon, at = "neighbor",
           VerifiesAbsence(call.proof, call.spec, call.root, call.key)
    PROVE  /\ left # <<>> /\ right # <<>>
           /\ \/ /\ Top(left).prefix = Top(right).prefix
                 /\ Top(left).suffix = Top(right).suffix
              \/ IsLeftStep(InnerSpec, Top(left), Top(right))
<1> DEFINE l == call.proof.left
           r == call.proof.right
           p == l.path
           q == r.path
<1>1. /\ call \in Absences /\ l # None /\ r # None
      /\ IsSequence(left) /\ IsSequence(right)
  BY DEF AbsenceTypeOK, LowerEnds
<1>2. Len(p) \in Nat /\ Len(q) \in Nat
  BY <1>1, CallType
<1>3. AreNeighbors(InnerSpec, p, q)
  BY <1>1 DEF VerifiesAbsence, InnerSpec
<1>4. PICK n \in 0..Len(p) : SameAbove(Len(left), Len(right), n)
  BY DEF TopsCommon
<1>5. n \in Nat /\ Len(left) \in Nat /\ Len(right) \in Nat
  BY <1>1, <1>4, SequenceType
<1>6. n <= Len(q)
  <2> DEFINE b == Len(right)
             d == Len(q)
  <2>1. b = d - n /\ b \in Nat /\ d \in Nat /\ n \in Nat
    BY <1>2, <1>4, <1>5 DEF SameAbove
  <2> HIDE DEF b, d
  <2>2. n <= d
    BY <2>1
  <2> QED
    BY <2>2 DEF d
<1>7. CASE left # <<>> /\ right # <<>>
  <2>1. /\ Top(left) = p[Len(p) - n] /\ Top(right) = q[Len(q) - n]
    BY <1>4, <1>5, <1>7, TopsAreNext
  <2>2. CASE SameFromTop(p, q, n)
    BY <1>7, <2>1, <2>2 DEF SameFromTop
  <2>3. CASE ~SameFromTop(p, q, n)
    <3>1. IsCommonTop(p, q, n)
      BY <1>4, <1>6, <2>3 DEF IsCommonTop, SameAbove
    <3>2. IsLeftStep(InnerSpec, p[Len(p) - n], q[Len(q) - n])
      BY <1>2, <1>3, <3>1, NeighborsFromTop
    <3> QED
      BY <1>7, <2>1, <3>2
  <2> QED
    BY <2>2, <2>3
<1>8. CASE left = <<>> \/ right = <<>>
  <2>1. Len(left) = 0 \/ Len(right) = 0
    BY <1>8
  <2>2. ~(n < Len(p) /\ n < Len(q))
    <3> DEFINE a == Len(left)
               b == Len(right)
               c == Len(p)
               d == Len(q)
    <3>1. a = c - n /\ b = d - n /\ c \in Nat /\ d \in Nat /\ n \in Nat /\ (a = 0 \/ b = 0)
      BY <1>2, <1>4, <1>5, <2>1 DEF SameAbove
    <3> HIDE DEF a, b, c, d
    <3>2. ~(n < c /\ n < d)
      BY <3>1
    <3> QED
      BY <3>2 DEF c, d
  <2>3. IsCommonTop(p, q, n)
    BY <1>4, <1>6, <2>2 DEF IsCommonTop, SameAbove
  <2> QED
    BY <1>2, <1>3, <2>2, <2>3, NeighborsFromTop
<1> QED
  BY <1>7, <1>8

LEMMA AbsenceVerdictStep ==
    ASSUME AbsenceTypeOK, CalleeKnown, ExistenceVerdict, LowerEnds, SidesVerified,
           TopsCommon, EdgesPassed, AbsenceVerdict, [AbsenceNext]_allvars
    PROVE  AbsenceVerdict'
<1> DEFINE l == call.proof.left
           r == call.proof.right
           Confirmed == VerifiesAbsence(call.proof, call.spec, call.root, call.key)
<1> SUFFICES ASSUME (at = "answered")'
             PROVE  (answer' = "ok" <=> Confirmed')
  BY DEF AbsenceVerdict
<1>1. CASE ReturnLeft
  <2>1. /\ at = "left" /\ pc = "done" /\ call' = call /\ answer' = "err"
        /\ ~(verdict = "ok" /\ Before(call.spec, req.key, call.key))
    BY <1>1 DEF ReturnLeft, ReturnSide, Answer, Continue
  <2>2. l # None /\ req = SideCall(call, l)
    BY <2>1 DEF CalleeKnown
  <2>3. ~(SideVerified(l) /\ Before(call.spec, l.key, call.key))
    BY <2>1, <2>2, ReturnedVerdict
  <2>4. ~Confirmed
    BY <2>2, <2>3 DEF VerifiesAbsence, SideVerified
  <2> QED
    BY <2>1, <2>4
<1>2. CASE ReturnRight
  <2>1. /\ at = "right" /\ pc = "done" /\ call' = call /\ answer' = "err"
        /\ ~(verdict = "ok" /\ Before(call.spec, call.key, req.key))
    BY <1>2 DEF ReturnRight, ReturnSide, Answer, Continue
  <2>2. r # None /\ req = SideCall(call, r)
    BY <2>1 DEF CalleeKnown
  <2>3. ~(SideVerified(r) /\ Before(call.spec, call.key, r.key))
    BY <2>1, <2>2, ReturnedVerdict
  <2>4. ~Confirmed
    BY <2>2, <2>3 DEF VerifiesAbsence, SideVerified
  <2> QED
    BY <2>1, <2>4
<1>3. CASE ChooseShape
  <2>1. /\ call' = call /\ answer' = "err"
        /\ InnerSpec = None \/ (l = None /\ r = None)
    BY <1>3 DEF ChooseShape, Answer, Examine
  <2>2. ~Confirmed
    BY <2>1 DEF VerifiesAbsence, InnerSpec
  <2> QED
    BY <2>1, <2>2
<1>4. CASE PopTops
  <2>1. /\ at = "neighbor" /\ call' = call /\ answer' \in {"err", "panic"}
        /\ \/ left = <<>> \/ right = <<>>
           \/ /\ ~(/\ Top(left).prefix = Top(right).prefix
                   /\ Top(left).suffix = Top(right).suffix)
              /\ ~IsLeftStep(InnerSpec, Top(left), Top(right))
    BY <1>4 DEF PopTops, Answer, Examine
  <2>2. ~Confirmed
    BY <2>1, TopsDecide
  <2> QED
    BY <2>1, <2>2
<1>5. CASE RightMostStep
  <2>1. /\ at = "right_most" /\ call' = call /\ answer' = "err" /\ l # None
        /\ step < Len(left) /\ ~IsRightMostStep(InnerSpec, left[step + 1])
    BY <1>5 DEF RightMostStep, PassStep, Answer, LowerEnds
  <2>2. step + 1 \in 1..Len(left)
    BY <2>1, SequenceType DEF AbsenceTypeOK
  <2>3. ~Confirmed
    BY <2>1, <2>2, EdgesDecide DEF RightMost
  <2> QED
    BY <2>1, <2>3
<1>6. CASE RightMostDone
  <2>1. /\ at = "right_most" /\ call' = call /\ answer' = "ok" /\ r = None
        /\ step = Len(left)
    BY <1>6 DEF RightMostDone, Answer
  <2>2. RightMost(InnerSpec, left, Len(left))
    BY <2>1 DEF EdgesPassed
  <2>3. Confirmed
    BY <2>1, <2>2, EdgesDecide
  <2> QED
    BY <2>1, <2>3
<1>7. CASE LeftMostStep
  <2>1. /\ at = "left_most" /\ call' = call /\ answer' = "err" /\ r # None
        /\ step < Len(right) /\ ~IsLeftMostStep(InnerSpec, right[step + 1])
    BY <1>7 DEF LeftMostStep, PassStep, Answer, LowerEnds
  <2>2. step + 1 \in 1..Len(right)
    BY <2>1, SequenceType DEF AbsenceTypeOK
  <2>3. ~Confirmed
    BY <2>1, <2>2, EdgesDecide DEF LeftMost
  <2> QED
    BY <2>1, <2>3
<1>8. CASE LeftMostDone
  <2>1. /\ at = "left_most" /\ call' = call /\ answer' = "ok" /\ step = Len(right)
    BY <1>8 DEF LeftMostDone, Answer
  <2>2. /\ l # None => RightMost(InnerSpec, left, Len(left))
        /\ LeftMost(InnerSpec, right, Len(right))
    BY <2>1 DEF EdgesPassed
  <2>3. Confirmed
    BY <2>1, <2>2, EdgesDecide
  <2> QED
    BY <2>1, <2>3
<1>9. CASE UNCHANGED allvars
  BY <1>9 DEF allvars, AbsenceVerdict
<1> QED
  BY <1>1, <1>2, <1>3, <1>4, <1>5, <1>6, <1>7, <1>8, <1>9
     DEF AbsenceNext, Running, Ask, CallLeft, CallRight, CallSide, SkipLeft,
         SkipRight, SkipSide, Continue, Callee, ReturnAnswer

(* At every step the answer that VerifiesAbsence gives is still possible,  *)
(* or already given.                                                       *)
THEOREM AnswerInvariantHolds == AbsenceSpec => []AnswerInvariant
<1>1. AbsenceInit => AnswerInvariant
  <2> SUFFICES ASSUME AbsenceInit PROVE AnswerInvariant
    OBVIOUS
  <2>1. AbsenceTypeOK /\ CalleeKnown /\ VerdictInvariant
    BY AbsenceTypeInit, VerdictInit DEF AbsenceInit
  <2> QED
    BY <2>1 DEF AbsenceInit, AnswerInvariant, LowerEnds, SidesVerified, TopsCommon,
                EdgesPassed, AbsenceVerdict
<1>2. AnswerInvariant /\ [AbsenceNext]_allvars => AnswerInvariant'
  <2> SUFFICES ASSUME AnswerInvariant, [AbsenceNext]_allvars
               PROVE  AnswerInvariant'
    OBVIOUS
  <2>1. /\ AbsenceTypeOK /\ CalleeKnown /\ VerdictInvariant /\ LowerEnds
        /\ SidesVerified /\ TopsCommon /\ EdgesPassed /\ AbsenceVerdict
        /\ ExistenceVerdict
    BY DEF AnswerInvariant, VerdictInvariant
  <2>2. AbsenceTypeOK' /\ CalleeKnown'
    BY <2>1, AbsenceTypeStep
  <2>3. VerdictInvariant'
    BY <2>1, CalleeStep, VerdictStep
  <2>4. LowerEnds'
    BY <2>1, LowerEndsStep
  <2>5. SidesVerified'
    BY <2>1, SidesVerifiedStep
  <2>6. TopsCommon' /\ EdgesPassed'
    BY <2>1, TopsCommonStep, EdgesStep
  <2>7. AbsenceVerdict'
    BY <2>1, AbsenceVerdictStep
  <2> QED
    BY <2>2, <2>3, <2>4, <2>5, <2>6, <2>7 DEF AnswerInvariant
<1> QED
  BY <1>1, <1>2, PTL DEF AbsenceSpec

(* verify_non_existence, step by step and with the frame of the function   *)
(* it calls, answers "ok" to exactly the calls that VerifiesAbsence, which *)
(* has neither, accepts: every early return, the order of the checks and   *)
(* the popping of the two paths included.                                  *)
THEOREM AbsenceIsFunction == AbsenceSpec => []AbsenceVerdict
<1>1. AnswerInvariant => AbsenceVerdict
  BY DEF AnswerInvariant
<1> QED
  BY <1>1, AnswerInvariantHolds, PTL

-----------------------------------------------------------------------------
(* Keys that are known.                                                    *)

LEMMA KnownSideTells ==
    ASSUME NEW r \in Absences, KeysKnown(r), NEW p \in Sides(r),
           NEW root, VerifiesExistence(p, r.spec, root, p.key, p.value),
           NEW t \in Trees, r.spec = t.spec, TellsKeys(t), NEW n \in t.leaves,
           t.image[n] = LeafImage(p.leaf, p.key, p.value)
    PROVE  t.key[n] = p.key
<1>1. p \in {r.proof.left, r.proof.right} /\ p # None
  BY DEF Sides
<1>2. IsExistenceProof(p)
  <2>1. SideCall(r, p) \in Requests /\ SideCall(r, p).proof = p
    BY AbsencesAssumption DEF SideCall
  <2> QED
    BY <2>1, RequestsAssumption DEF IsRequest
<1>3. LeafIsUnambiguous(t.spec, p.leaf, p.key, p.value)
  BY DEF KeysKnown
<1>4. TellsKey(t, p)
  BY <1>2, <1>3, SideTellsKey
<1> QED
  BY <1>4 DEF TellsKey, IsLeafOf

(* In an answer "ok" the keys that the proofs of the two sides give are    *)
(* those of the tree's leaves they are about, when their bytes can be read *)
(* back: soundness then needs no further assumption on the proofs.         *)
THEOREM KnownKeysTold == AbsenceSpec => []KnownKeysAreTold
<1>1. AnswerInvariant => KnownKeysAreTold
  <2> SUFFICES ASSUME AnswerInvariant, answer = "ok", KeysKnown(call),
                      NEW t \in Trees, call.spec = t.spec, TellsKeys(t),
                      NEW p \in Sides(call), NEW n \in t.leaves,
                      t.image[n] = LeafImage(p.leaf, p.key, p.value)
               PROVE  t.key[n] = p.key
    BY DEF KnownKeysAreTold, KeysTold
  <2>1. at = "answered" /\ call \in Absences
    BY NoneAssumption DEF AnswerInvariant, AbsenceTypeOK
  <2>2. VerifiesAbsence(call.proof, call.spec, call.root, call.key)
    BY <2>1 DEF AnswerInvariant, AbsenceVerdict
  <2>3. VerifiesExistence(p, call.spec, call.root, p.key, p.value)
    BY <2>2 DEF VerifiesAbsence, Sides
  <2> QED
    BY <2>1, <2>3, KnownSideTells
<1> QED
  BY <1>1, AnswerInvariantHolds, PTL

-----------------------------------------------------------------------------
(* The calls that panic.                                                   *)

(* Of a verified side, the leaf and the operations are accepted. *)
LEMMA SideOps ==
    ASSUME NEW p \in Sides(call), call \in Absences, SideVerified(p)
    PROVE  /\ IsProofSpec(call.spec) /\ OpsOf(p, call.spec)
           /\ Hashes(p)[Len(p.path)] = call.root
<1>1. IsProofSpec(call.spec) /\ IsExistenceProof(p)
  <2>1. /\ SideCall(call, p) \in Requests /\ SideCall(call, p).proof = p
        /\ SideCall(call, p).spec = call.spec /\ call.spec # None
    BY AbsencesAssumption DEF SideCall
  <2> QED
    BY <2>1, RequestsAssumption DEF IsRequest
<1> QED
  BY <1>1 DEF SideVerified, VerifiesExistence, LeafAccepted, RootFrom, OpsOf,
              OpsAccepted, StepAccepted

(* An empty path means that the two are one, from one leaf; their keys are *)
(* on the two sides of the one asked about.                                *)
LEMMA PathsUsedUp ==
    ASSUME AbsenceTypeOK, LowerEnds, SidesVerified, TopsCommon, at = "neighbor",
           IsSoundSpec(call.spec), left = <<>> \/ right = <<>>
    PROVE  OneLeafReadTwice(call.proof.left, call.proof.right)
<1> DEFINE l == call.proof.left
           r == call.proof.right
           spec == call.spec
           p == l.path
           q == r.path
<1>1. /\ call \in Absences /\ l # None /\ r # None
      /\ IsSequence(left) /\ IsSequence(right)
  BY DEF AbsenceTypeOK, LowerEnds
<1>2. /\ SideVerified(l) /\ Before(spec, l.key, call.key)
      /\ SideVerified(r) /\ Before(spec, call.key, r.key)
  BY <1>1 DEF SidesVerified
<1>3. l \in Sides(call) /\ r \in Sides(call)
  BY <1>1 DEF Sides
<1>4. /\ IsProofSpec(spec) /\ OpsOf(l, spec) /\ OpsOf(r, spec)
      /\ Hashes(l)[Len(p)] = Hashes(r)[Len(q)]
  BY <1>1, <1>2, <1>3, SideOps
<1>5. PICK n \in 0..Len(p) : SameAbove(Len(left), Len(right), n)
  BY DEF TopsCommon
<1>6. /\ n \in Nat /\ n <= Len(p) /\ n <= Len(q)
      /\ n = Len(p) \/ n = Len(q)
  <2> DEFINE a == Len(left)
             b == Len(right)
             c == Len(p)
             d == Len(q)
  <2>1. c \in Nat /\ d \in Nat
    BY <1>1, CallType
  <2>2. a \in Nat /\ b \in Nat /\ (a = 0 \/ b = 0)
    BY <1>1, SequenceType
  <2>3. a = c - n /\ b = d - n /\ n \in 0..c
    BY <1>5 DEF SameAbove
  <2> HIDE DEF a, b, c, d
  <2>4. n \in Nat /\ n <= c /\ n <= d /\ (n = c \/ n = d)
    BY <2>1, <2>2, <2>3
  <2> QED
    BY <2>4 DEF c, d
<1>7. \A i \in 0..(n - 1) : SameFromTop(p, q, i)
  BY <1>5 DEF SameAbove
<1>8. /\ SameSteps(p, q)
      /\ LeafImage(l.leaf, l.key, l.value) = LeafImage(r.leaf, r.key, r.value)
  BY <1>4, <1>6, <1>7, UsedUpTogether
<1>9. l.key # r.key
  <2>1. /\ {l.key, call.key} \subseteq ComparedKeys
        /\ IsStrictOrder(spec, ComparedKeys)
    BY <1>1, <1>3, OrderAssumption DEF ComparedKeys
  <2> QED
    BY <1>2, <2>1 DEF IsStrictOrder
<1> QED
  BY <1>1, <1>8, <1>9 DEF OneLeafReadTwice

(* The loop over one and the same path finds no place where it parts. *)
LEMMA SamePathPopped ==
    ASSUME AbsenceTypeOK, LowerEnds, TopsCommon, at = "neighbor",
           OneLeafReadTwice(call.proof.left, call.proof.right),
           left # <<>>, right # <<>>
    PROVE  Top(left).prefix = Top(right).prefix /\ Top(left).suffix = Top(right).suffix
<1> DEFINE p == call.proof.left.path
           q == call.proof.right.path
<1>1. Len(p) \in Nat /\ SameSteps(p, q)
  BY CallType DEF AbsenceTypeOK, OneLeafReadTwice
<1>2. PICK n \in 0..Len(p) : SameAbove(Len(left), Len(right), n)
  BY DEF TopsCommon
<1>3. /\ n \in Nat /\ n < Len(p)
      /\ Top(left) = p[Len(p) - n] /\ Top(right) = q[Len(q) - n]
  BY <1>2, TopsAreNext
<1>4. n \in 0..(Len(p) - 1)
  <2> DEFINE c == Len(p)
  <2>1. c \in Nat /\ n \in Nat /\ n < c
    BY <1>1, <1>3
  <2> HIDE DEF c
  <2>2. n \in 0..(c - 1)
    BY <2>1
  <2> QED
    BY <2>2 DEF c
<1>5. SameFromTop(p, q, n)
  BY <1>1, <1>4, SameAllTheWay
<1> QED
  BY <1>3, <1>5 DEF SameFromTop

LEMMA SamePathNotParted ==
    ASSUME AbsenceTypeOK, call \in Absences, Parted
    PROVE  ~OneLeafReadTwice(call.proof.left, call.proof.right)
<1> DEFINE p == call.proof.left.path
           q == call.proof.right.path
<1> SUFFICES ASSUME OneLeafReadTwice(call.proof.left, call.proof.right) PROVE FALSE
  OBVIOUS
<1>1. PICK n \in 0..Len(p) :
        SameAbove(Len(left) + 1, Len(right) + 1, n) /\ ~SameFromTop(p, q, n)
  BY DEF Parted
<1>2. Len(p) \in Nat /\ SameSteps(p, q)
  BY CallType DEF OneLeafReadTwice
<1>3. n \in 0..(Len(p) - 1)
  <2> DEFINE a == Len(left)
             c == Len(p)
  <2>1. a \in Nat
    BY SequenceType DEF AbsenceTypeOK
  <2>2. a + 1 = c - n /\ c \in Nat /\ n \in 0..c
    BY <1>1, <1>2 DEF SameAbove
  <2> HIDE DEF a, c
  <2>3. n \in 0..(c - 1)
    BY <2>1, <2>2
  <2> QED
    BY <2>3 DEF c
<1> QED
  BY <1>1, <1>2, <1>3, SameAllTheWay

LEMMA PanicStep ==
    ASSUME AbsenceTypeOK, CalleeKnown, ExistenceVerdict, LowerEnds, SidesVerified,
           TopsCommon, EdgesPassed, PanicsOnLeafReadTwice, [AbsenceNext]_allvars
    PROVE  PanicsOnLeafReadTwice'
<1> DEFINE l == call.proof.left
           r == call.proof.right
           Twice == /\ OneLeafReadTwice(l, r)
                    /\ SideVerified(l) /\ Before(call.spec, l.key, call.key)
                    /\ SideVerified(r) /\ Before(call.spec, call.key, r.key)
<1> SUFFICES ASSUME (at = "answered")', IsSoundSpec(call.spec)'
             PROVE  (answer' = "panic" <=> Twice')
  BY DEF PanicsOnLeafReadTwice
<1>0. call' = call => (Twice' <=> Twice)
  BY DEF SideVerified
<1> HIDE DEF Twice
<1>1. CASE ReturnLeft
  <2>1. /\ at = "left" /\ pc = "done" /\ call' = call /\ answer' = "err"
        /\ ~(verdict = "ok" /\ Before(call.spec, req.key, call.key))
    BY <1>1 DEF ReturnLeft, ReturnSide, Answer, Continue
  <2>2. l # None /\ req = SideCall(call, l)
    BY <2>1 DEF CalleeKnown
  <2>3. ~(SideVerified(l) /\ Before(call.spec, l.key, call.key))
    BY <2>1, <2>2, ReturnedVerdict
  <2> QED
    BY <1>0, <2>1, <2>3 DEF Twice
<1>2. CASE ReturnRight
  <2>1. /\ at = "right" /\ pc = "done" /\ call' = call /\ answer' = "err"
        /\ ~(verdict = "ok" /\ Before(call.spec, call.key, req.key))
    BY <1>2 DEF ReturnRight, ReturnSide, Answer, Continue
  <2>2. r # None /\ req = SideCall(call, r)
    BY <2>1 DEF CalleeKnown
  <2>3. ~(SideVerified(r) /\ Before(call.spec, call.key, r.key))
    BY <2>1, <2>2, ReturnedVerdict
  <2> QED
    BY <1>0, <2>1, <2>3 DEF Twice
<1>3. CASE ChooseShape
  <2>1. /\ call' = call /\ answer' = "err"
        /\ InnerSpec = None \/ (l = None /\ r = None)
    BY <1>3 DEF ChooseShape, Answer, Examine
  <2>2. InnerSpec # None
    BY <2>1 DEF IsSoundSpec, InnerSpec
  <2> QED
    BY <1>0, <2>1, <2>2 DEF Twice, OneLeafReadTwice
<1>4. CASE PopTops
  <2>1. /\ at = "neighbor" /\ call' = call
        /\ \/ answer' = "panic" /\ (left = <<>> \/ right = <<>>)
           \/ /\ answer' = "err" /\ left # <<>> /\ right # <<>>
              /\ ~(/\ Top(left).prefix = Top(right).prefix
                   /\ Top(left).suffix = Top(right).suffix)
    BY <1>4 DEF PopTops, Answer, Examine
  <2>2. CASE answer' = "panic"
    <3>1. OneLeafReadTwice(l, r)
      BY <2>1, <2>2, PathsUsedUp
    <3>2. /\ SideVerified(l) /\ Before(call.spec, l.key, call.key)
          /\ SideVerified(r) /\ Before(call.spec, call.key, r.key)
      BY <2>1 DEF SidesVerified, LowerEnds
    <3> QED
      BY <1>0, <2>1, <2>2, <3>1, <3>2 DEF Twice
  <2>3. CASE answer' = "err"
    BY <1>0, <2>1, <2>3, SamePathPopped DEF Twice
  <2> QED
    BY <2>1, <2>2, <2>3
<1>5. CASE RightMostStep \/ RightMostDone \/ LeftMostStep \/ LeftMostDone
  <2>1. /\ at \in {"right_most", "left_most"} /\ call' = call
        /\ answer' \in {"ok", "err"}
    BY <1>5 DEF RightMostStep, RightMostDone, LeftMostStep, LeftMostDone, PassStep,
                Answer
  <2>2. call \in Absences /\ (l = None \/ r = None \/ Parted)
    BY <2>1 DEF EdgesPassed, AbsenceTypeOK
  <2>3. ~OneLeafReadTwice(l, r)
    BY <2>2, SamePathNotParted DEF OneLeafReadTwice
  <2> QED
    BY <1>0, <2>1, <2>3 DEF Twice
<1>6. CASE UNCHANGED allvars
  <2>1. UNCHANGED <<at, call, answer>>
    BY <1>6 DEF allvars
  <2> QED
    BY <1>0, <2>1 DEF PanicsOnLeafReadTwice, Twice
<1> QED
  BY <1>1, <1>2, <1>3, <1>4, <1>5, <1>6
     DEF AbsenceNext, Running, Ask, CallLeft, CallRight, CallSide, SkipLeft,
         SkipRight, SkipSide, Continue, Callee, ReturnAnswer

(* With a sound spec verify_non_existence panics, in the unwrap of the     *)
(* loop over two paths, exactly if both proofs verify, are of one leaf by  *)
(* one path, and read that leaf's string as two keys on the two sides of   *)
(* the key asked about; no other call, whatever its proofs and specs are,  *)
(* uses up a path.                                                         *)
THEOREM PanicsExactlyOnLeafReadTwice == AbsenceSpec => []PanicsOnLeafReadTwice
<1>1. AbsenceInit => PanicsOnLeafReadTwice
  BY DEF AbsenceInit, PanicsOnLeafReadTwice
<1>2. AnswerInvariant /\ PanicsOnLeafReadTwice /\ [AbsenceNext]_allvars
          => PanicsOnLeafReadTwice'
  BY PanicStep DEF AnswerInvariant, VerdictInvariant
<1> QED
  BY <1>1, <1>2, AnswerInvariantHolds, PTL DEF AbsenceSpec

-----------------------------------------------------------------------------
(* Keys that the store does not have.                                      *)

LEMMA AbsentKeyPlace ==
    ASSUME NEW t \in Trees, NEW r \in Absences, r.spec = t.spec, ~HasKey(t, r.key)
    PROVE  /\ HasPlace(t, r.key)
           /\ \A x, y, z \in t.leaves :
                  /\ ~Ahead(t, x, x)
                  /\ Ahead(t, x, y) /\ Ahead(t, y, z) => Ahead(t, x, z)
<1> DEFINE K == ComparedKeys
<1>1. \A a, b, c \in K :
          /\ ~Before(t.spec, a, a)
          /\ a = b \/ Before(t.spec, a, b) \/ Before(t.spec, b, a)
          /\ Before(t.spec, a, b) /\ Before(t.spec, b, c) => Before(t.spec, a, c)
  BY OrderAssumption DEF IsStrictOrder
<1>2. r.key \in K /\ \A n \in t.leaves : t.key[n] \in K
  BY DEF ComparedKeys, TreeKeys
<1> HIDE DEF K
<1>3. \A n \in t.leaves : t.key[n] # r.key
  BY DEF HasKey
<1>4. HasPlace(t, r.key)
  BY <1>1, <1>2, <1>3 DEF HasPlace, Ahead
<1> QED
  BY <1>1, <1>2, <1>4 DEF Ahead

(* For a store whose nodes have two children, or no placeholders,          *)
(* verify_non_existence says "ok" to the proof that the store gives for a  *)
(* key it does not have: the paths of the leaves next to the key part over *)
(* neighboring children of one node, and every sibling further in is a     *)
(* placeholder or not there.                                               *)
THEOREM AbsentKeysConfirmed == AbsenceSpec => []AbsenceComplete
<1>1. AnswerInvariant => AbsenceComplete
  <2> SUFFICES ASSUME AbsenceTypeOK, AbsenceVerdict, at = "answered",
                      NEW t \in SortedTrees \intersect Stores,
                      NeighborsTold(t), ~HasKey(t, call.key),
                      call = HonestAbsence(t, call.key)
               PROVE  answer = "ok"
    BY DEF AnswerInvariant, AbsenceComplete
  <2>1. call \in Absences /\ t \in Trees
    BY DEF AbsenceTypeOK, Stores
  <2>2. call.spec = t.spec /\ call.root = t.hash[t.root]
        /\ call.proof = HonestAbsence(t, call.key).proof
    BY DEF HonestAbsence
  <2>3. HasPlace(t, call.key) /\ IsOrderedStore(t)
    BY <2>1, <2>2, AbsentKeyPlace DEF IsOrderedStore
  <2>4. VerifiesAbsence(HonestAbsence(t, call.key).proof, t.spec, t.hash[t.root], call.key)
    BY <2>3, HonestAbsenceVerifies
  <2>5. VerifiesAbsence(call.proof, call.spec, call.root, call.key)
    BY <2>2, <2>4
  <2> QED
    BY <2>5 DEF AbsenceVerdict
<1> QED
  BY <1>1, AnswerInvariantHolds, PTL
=============================================================================
