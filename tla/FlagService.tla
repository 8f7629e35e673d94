------------------------------ MODULE FlagService ------------------------------
(***************************************************************************)
(* What an app may expect of its FeatureFlagEngine objects: an object with *)
(* an engine answers from the shared core or says INTERNAL_ERROR, one      *)
(* without answers with the stub, and it changes from the first to the     *)
(* second only by being closed.  A safety specification.                   *)
(***************************************************************************)
CONSTANTS
    Objects,    \* FeatureFlagEngine instances
    Throwing    \* those whose evaluate may also throw: the Android ones

VARIABLES
    mode,       \* "absent", "engine" or "stub"
    answer      \* "none", "asked" or the kind of the envelope returned

vars == <<mode, answer>>

Init == mode = [o \in Objects |-> "absent"] /\ answer = [o \in Objects |-> "none"]

Open(o) ==
    /\ mode[o] = "absent"
    /\ \E m \in {"engine", "stub"} : mode' = [mode EXCEPT ![o] = m]
    /\ UNCHANGED answer

Ask(o) ==
    /\ mode[o] # "absent" /\ answer[o] = "none"
    /\ answer' = [answer EXCEPT ![o] = "asked"]
    /\ UNCHANGED mode

Kinds(o) ==
    IF mode[o] = "stub" THEN {"stub"}
    ELSE {"verdict", "INTERNAL_ERROR"} \cup (IF o \in Throwing THEN {"thrown"} ELSE {})

Answer(o) ==
    /\ answer[o] = "asked"
    /\ \E kind \in Kinds(o) : answer' = [answer EXCEPT ![o] = kind]
    /\ UNCHANGED mode

Take(o) ==
    /\ answer[o] \notin {"none", "asked"}
    /\ answer' = [answer EXCEPT ![o] = "none"]
    /\ UNCHANGED mode

Close(o) ==
    /\ mode[o] = "engine" /\ answer[o] = "none"
    /\ mode' = [mode EXCEPT ![o] = "stub"]
    /\ UNCHANGED answer

(* Only an idle object goes away. *)
Drop(o) ==
    /\ mode[o] # "absent" /\ answer[o] = "none"
    /\ mode' = [mode EXCEPT ![o] = "absent"]
    /\ UNCHANGED answer

Next == \E o \in Objects : Open(o) \/ Ask(o) \/ Answer(o) \/ Take(o) \/ Close(o) \/ Drop(o)

Spec == Init /\ [][Next]_vars
=============================================================================
