---------------------------- MODULE FlagEvaluation ----------------------------
(***************************************************************************)
(* What one evaluation promises to its caller, whatever the loops of the   *)
(* shared core look like: an input is taken and later answered, in one     *)
(* step, by its verdict; nothing of it is left when the next one is taken. *)
(* FeatureFlagCore, translated from shared-core/src/lib.rs, implements it. *)
(***************************************************************************)
EXTENDS FlagVerdict

VARIABLES status, input, answer
abstractVars == <<status, input, answer>>

Init == status = "idle" /\ input = Malformed /\ answer = NoAnswer

Evaluate ==
    /\ status = "idle"
    /\ status' = "busy"
    /\ input' \in Inputs
    /\ UNCHANGED answer

Answer ==
    /\ status = "busy"
    /\ status' = "answered"
    /\ UNCHANGED input
    /\ Answers(input, answer')

Return ==
    /\ status = "answered"
    /\ status' = "idle"
    /\ input' = Malformed
    /\ answer' = NoAnswer

Next == Evaluate \/ Answer \/ Return

Spec == Init /\ [][Next]_abstractVars
=============================================================================
