------------------------------- MODULE FlagCall -------------------------------
(***************************************************************************)
(* What a host may expect of wm_engine_evaluate: the text of a request is  *)
(* asked, and comes back with the verdict of that very text or is refused; *)
(* nothing of it is left for the next one.  No memory, no guest, no        *)
(* copies.  A safety specification.                                        *)
(***************************************************************************)
EXTENDS FlagVerdict

CONSTANTS
    Texts,      \* what hosts send: the bytes of a request
    Parsed,     \* the input each text parses to
    NoText      \* a null argument, or nothing asked

VARIABLES status, text, outcome
callVars == <<status, text, outcome>>

Refused == Error("refused")

Init == status = "idle" /\ text = NoText /\ outcome = NoAnswer

Ask ==
    /\ status = "idle"
    /\ status' = "asked"
    /\ text' \in Texts
    /\ UNCHANGED outcome

Reply ==
    /\ status = "asked"
    /\ status' = "returned"
    /\ UNCHANGED text
    /\ Answers(Parsed[text], outcome')

Refuse ==
    /\ status \in {"idle", "asked"}
    /\ status' = "returned"
    /\ UNCHANGED text
    /\ outcome' = Refused

Return ==
    /\ status = "returned"
    /\ status' = "idle"
    /\ text' = NoText
    /\ outcome' = NoAnswer

Next == Ask \/ Reply \/ Refuse \/ Return

Spec == Init /\ [][Next]_callVars
=============================================================================
