--------------------------- MODULE MCNonExistence ---------------------------
(***************************************************************************)
(* Model checking NonExistence: the pairs of proofs of MCOrderedTrees.     *)
(***************************************************************************)
EXTENDS NonExistence, MCOrderedTrees

SideCalls(absences) ==
    UNION {{SideCall(r, proof) : proof \in Sides(r)} : r \in absences}

AllRequests == SideCalls(AllAbsences)

MCTreeSet  == OrderedTrees
MCAbsences == AllAbsences
MCRequests == AllRequests

(* The proofs of the tree with the children in another order. *)
MerkAbsences == AbsencesOf(MerkTree)
MerkRequests == SideCalls(MerkAbsences)

MCMerkTrees    == {MerkTree}
MCMerkAbsences == MerkAbsences
MCMerkRequests == MerkRequests

(* The proofs of the tree with placeholders in three slots. *)
GapAbsences == AbsencesOf(MCTree.triple_gaps)
GapRequests == SideCalls(GapAbsences)

MCGapTrees    == {MCTree.triple_gaps}
MCGapAbsences == GapAbsences
MCGapRequests == GapRequests
=============================================================================
