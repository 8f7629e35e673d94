-------------------------------- MODULE EndToEnd --------------------------------
(***************************************************************************)
(* A call of wm_engine_evaluate with the bytes it moves: HostBridge        *)
(* composed with FeatureFlagCore over the guest's linear memory.  The host *)
(* copies a text into the guest, the core evaluates what is there, leaves  *)
(* the answer in the guest, and the host copies that out.                  *)
(*                                                                         *)
(* An action of HostBridge is conjoined with what it does to the bytes; a  *)
(* step of the core happens while the bridge waits in m3_Call.  A byte is  *)
(* known by the document it belongs to and its position in it; zeroed,     *)
(* freed and never written bytes are alike.  serde is external: a text      *)
(* parses as Parsed says, and other bytes as anything.                     *)
(***************************************************************************)
EXTENDS HostBridge, FlagVerdict

CONSTANTS
    Texts,            \* what hosts send: the bytes of a request
    Parsed,           \* the input each text parses to
    TextLength,       \* the length of each text
    AnswerLength(_),  \* the length of an answer's JSON
    NoText,           \* nothing sent
    Blank             \* no document: a byte that is zeroed, freed or never written

ASSUME TextsAssumption ==
    /\ Parsed \in [Texts -> Inputs]
    /\ TextLength \in [Texts -> RequestLens]
    /\ \A text \in Texts : TextLength[text] = 0 => Parsed[text] = Malformed
    /\ NoText \notin Texts

VARIABLES
    phase, input, index, answer,   \* the core
    bytes,      \* guest: the linear memory
    sent,       \* request_bytes: the text of the call in progress
    received    \* response_bytes: what was copied out

Core == INSTANCE FeatureFlagCore

coreVars == <<phase, input, index, answer>>
systemVars == <<vars, coreVars, bytes, sent, received>>

Addresses == 0 .. Half - 1

Byte(document, i) == [of |-> document, at |-> i]
NoByte == Byte(Blank, 0)

SystemInit ==
    /\ Init /\ Core!Init
    /\ bytes = [p \in Addresses |-> NoByte]
    /\ sent = NoText
    /\ received = <<>>

-----------------------------------------------------------------------------
(* The linear memory. *)

Encoding(document, length) == [i \in 1 .. length |-> Byte(document, i)]

Within(p, block) == block.ptr <= p /\ p < block.ptr + block.len
Contents(block) == [i \in 1 .. block.len |-> bytes[block.ptr + i - 1]]

Store(block, document) ==
    bytes' = [p \in Addresses |-> IF Within(p, block) THEN Byte(document, p - block.ptr + 1)
                                                      ELSE bytes[p]]

(* The guest zeroes what it allocates, and its allocator keeps its lists in
   what was freed. *)
Scribble ==
    bytes' = [p \in Addresses |->
                IF \E block \in (heap \ heap') \cup (heap' \ heap) : Within(p, block)
                THEN NoByte ELSE bytes[p]]

(* The slice evaluate_feature_flag makes of its arguments, parsed. *)
Reads(in) ==
    IF request.ptr = 0 \/ Signed(request.len) < 0 THEN in = Malformed
    ELSE \A text \in Texts : Contents(request) = Encoding(text, TextLength[text])
                               => in = Parsed[text]

-----------------------------------------------------------------------------
(* The steps. *)

Send ==
    /\ Call
    /\ \E text \in Texts : TextLength[text] = request'.len /\ sent' = text
    /\ UNCHANGED <<coreVars, bytes, received>>

SendNull == CallWithNull /\ UNCHANGED <<coreVars, bytes, sent, received>>

Allocate == CallAlloc /\ Scribble /\ UNCHANGED <<coreVars, sent, received>>

(* A write through a pointer to where the memory was is lost. *)
WriteRequest ==
    /\ CopyRequest
    /\ IF memory = memorySize THEN Store(request, sent) ELSE UNCHANGED bytes
    /\ UNCHANGED <<coreVars, sent, received>>

RunCore ==
    /\ pc = "evaluate"
    /\ \/ \E in \in Inputs : Reads(in) /\ Core!Call(in)
       \/ phase # "answered" /\ Core!Step
    /\ UNCHANGED <<vars, bytes, sent, received>>

Respond ==
    /\ CallEvaluate /\ result' = "ok"
    /\ phase = "answered"
    /\ returned'.len = AnswerLength(answer)
    /\ Store(returned', answer)
    /\ Core!Return
    /\ UNCHANGED <<sent, received>>

TrapLeavingCore ==
    /\ CallEvaluate /\ result' # "ok"
    /\ Scribble
    /\ UNCHANGED <<coreVars, sent, received>>

(* The evaluation ends wherever it is; the engine is called again. *)
Trap ==
    /\ CallEvaluate /\ result' # "ok"
    /\ Scribble
    /\ phase' = "idle" /\ input' = Malformed /\ index' = 1 /\ answer' = NoAnswer
    /\ UNCHANGED <<sent, received>>

(* A read through a pointer to where the memory was gives anything. *)
ReadOut ==
    /\ CopyResponse
    /\ received' = IF memory = memorySize THEN Contents(response)
                   ELSE [i \in 1 .. response.len |-> NoByte]
    /\ UNCHANGED <<coreVars, bytes, sent>>

Deallocate ==
    /\ \E site \in FreeSites : CallFree(site)
    /\ Scribble
    /\ UNCHANGED <<coreVars, sent, received>>

InBridge ==
    /\ \/ ReadRequestPointer \/ CheckRequest \/ ReadResponse \/ CheckResult
       \/ CheckResponse \/ MallocCopy
    /\ UNCHANGED <<coreVars, bytes, sent, received>>

GiveBack ==
    /\ Release
    /\ sent' = NoText
    /\ received' = <<>>
    /\ UNCHANGED <<coreVars, bytes>>

Reopen ==
    /\ Recreate
    /\ bytes' = [p \in Addresses |-> NoByte]
    /\ UNCHANGED <<coreVars, sent, received>>

SystemStep ==
    \/ Allocate \/ WriteRequest \/ RunCore \/ Respond \/ Trap \/ ReadOut
    \/ Deallocate \/ InBridge \/ GiveBack

SystemNext == SystemStep \/ Send \/ SendNull \/ Reopen

(* What the caller's thread goes on to do.  Nothing obliges the guest to trap
   while the core can go on; with the answer found it returns or traps. *)
SystemProgress ==
    \/ Allocate \/ WriteRequest \/ RunCore \/ Respond \/ (phase = "answered" /\ Trap)
    \/ ReadOut \/ Deallocate \/ InBridge \/ GiveBack

(* One thread: the caller's, also inside the guest. *)
SystemSpec == SystemInit /\ [][SystemNext]_systemVars /\ WF_systemVars(SystemProgress)

-----------------------------------------------------------------------------
(* Properties. *)

(* The variables hold what their declarations say; the core runs only while *)
(* the bridge is in the guest, and nothing is kept between calls.           *)
SystemTypeOK ==
    /\ TypeOK
    /\ Core!TypeOK
    /\ DOMAIN bytes = Addresses
    /\ sent \in Texts \cup {NoText}
    /\ phase # "idle" => pc = "evaluate"
    /\ pc = "idle" => sent = NoText /\ received = <<>>

(* The core evaluates the text the host passed in, whatever the memory did  *)
(* between wasm_alloc and the parse, and what earlier calls left there      *)
(* (wasm_host_runtime.c:215-243, lib.rs:275-284).                           *)
RequestReachesCore == phase # "idle" => input = Parsed[sent]

(* The bytes a caller gets are the whole answer to the text it sent, the    *)
(* verdict of its rules: not one of another call, not one cut short or      *)
(* overwritten by freeing the request, or read from memory that moved       *)
(* (wasm_host_runtime.c:248-281).                                           *)
ResponseIsVerdict ==
    pc = "returned" /\ copy =>
        \E reply \in {received[i].of : i \in DOMAIN received} :
            /\ Answers(Parsed[sent], reply)
            /\ received = Encoding(reply, AnswerLength(reply))

Outcome ==
    IF pc # "returned" THEN NoAnswer
    ELSE IF ~copy THEN Error("refused")
    ELSE IF received # <<>> /\ \A i \in DOMAIN received : received[i] = Byte(received[1].of, i)
         THEN received[1].of ELSE Error("garbled")

Service == INSTANCE FlagCall WITH
    status <- IF pc \in {"idle", "returned"} THEN pc ELSE "asked",
    text <- sent,
    outcome <- Outcome

(* Bridge, guest and core together implement FlagCall: every call returns   *)
(* the verdict of its text or is refused, once, and the engine serves the   *)
(* next one as if it were new.                                              *)
ImplementsFlagCall == Service!Spec

BeforeCore == {"alloc", "alloc_result", "check_request", "copy_request", "evaluate"}

HostStepsLeft == [
    idle |-> 0, returned |-> 1, abandon_request |-> 2, abandon_response |-> 2, free_response |-> 2,
    copy_response |-> 3, malloc |-> 4, check_response |-> 5, check_result |-> 6,
    free_request |-> 7, evaluate_result |-> 8, evaluate |-> 9, copy_request |-> 10,
    check_request |-> 11, alloc_result |-> 12, alloc |-> 13]

(* How many steps host and guest may still take at most. *)
CallStepsLeft ==
    HostStepsLeft[pc] + (IF phase # "idle" THEN Core!StepsLeft
                         ELSE IF pc \in BeforeCore THEN 2 * Core!RuleCount(Parsed[sent]) + 6
                         ELSE 0)

(* The thread that calls never goes back, neither in the host nor in the    *)
(* guest, and takes no more steps than the rules it sent allow, whatever is *)
(* refused, traps or fails on its way (wm_engine_evaluate,                  *)
(* evaluate_feature_flag).                                                  *)
CallComesCloser == [][SystemStep => CallStepsLeft' \in 0 .. CallStepsLeft - 1]_systemVars

(* Every call that gets as far as the guest comes back, the loops of the    *)
(* core included.                                                           *)
EveryRequestReturns == pc = "alloc" ~> pc = "returned"
=============================================================================
