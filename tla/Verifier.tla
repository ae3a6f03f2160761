------------------------------ MODULE Verifier ------------------------------
(***************************************************************************)
(* What a verification function promises its caller, however it computes   *)
(* its answer: a call is answered once, and answered "ok" only when the    *)
(* claim the caller makes is justified.  It may refuse anything.           *)
(***************************************************************************)
CONSTANTS
    None,           \* no call, no answer
    Requests,       \* the calls
    Justified(_)    \* what the caller may conclude when a call is accepted

VARIABLES phase, call, answer

vars == <<phase, call, answer>>

Init == phase = "idle" /\ call = None /\ answer = None

Call ==
    /\ phase = "idle"
    /\ phase' = "busy"
    /\ call' \in Requests
    /\ UNCHANGED answer

Refuse ==
    /\ phase = "busy"
    /\ phase' = "done"
    /\ answer' = "err"
    /\ UNCHANGED call

Accept ==
    /\ phase = "busy"
    /\ Justified(call)
    /\ phase' = "done"
    /\ answer' = "ok"
    /\ UNCHANGED call

Return ==
    /\ phase = "done"
    /\ phase' = "idle"
    /\ call' = None
    /\ answer' = None

Next == Call \/ Refuse \/ Accept \/ Return

Spec == Init /\ [][Next]_vars
=============================================================================
