---------------------------- MODULE MCExistence ----------------------------
(***************************************************************************)
(* Model checking Existence on the calls of MCProofs.                      *)
(***************************************************************************)
EXTENDS Existence, MCProofs

(* For the configuration: TLC keeps the value of a definition, and         *)
(* evaluates what a constant is replaced by each time.                     *)
MCRequests == AllRequests
MCTreeSet  == AllTrees
MCBounded  == Bounded
=============================================================================
