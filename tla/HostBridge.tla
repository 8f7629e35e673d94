------------------------------ MODULE HostBridge ------------------------------
(***************************************************************************)
(* wm_engine_evaluate (shared-core/host-bridge/wasm_host_runtime.c): how   *)
(* the host passes a request into the guest's linear memory, runs the      *)
(* guest and copies the response out, on one engine that is called again   *)
(* and again by one thread.                                                *)
(*                                                                         *)
(* Each call into the guest, each check and each copy is a step.  The      *)
(* guest side of the ABI (wasm_alloc, wasm_free, evaluate_feature_flag in  *)
(* shared-core/src/lib.rs) is part of the module; the guest's allocator    *)
(* and wasm3 are external: an allocation returns any free place, possibly  *)
(* after growing the memory, which moves it in the host, and any call into *)
(* the guest may fail (a trap, or a callee that cannot be compiled) with   *)
(* everything it has allocated so far left behind.                         *)
(***************************************************************************)
EXTENDS Integers

CONSTANTS
    Width,          \* bits of a guest address: 32
    MemorySizes,    \* the sizes the guest's memory can take, in bytes
    InitialSize,    \* its size after instantiation
    RequestLens,    \* lengths of the requests hosts send
    ResponseLens,   \* lengths of the JSON the core answers with
    MaxFaults       \* bound: an engine whose guest failed this often is not called again

Word == 2 ^ Width
Half == 2 ^ (Width - 1)

ASSUME WidthAssumption == Width \in Nat \ {0} /\ Word \in Nat /\ Half \in Nat /\ Word = 2 * Half
(* The guest's memory stays below 2 GiB: 17 pages at the start, grown by   *)
(* requests and responses of a few hundred bytes.                          *)
ASSUME MemoryAssumption ==
    /\ MemorySizes \subseteq 1 .. Half - 1
    /\ InitialSize \in MemorySizes
ASSUME LengthAssumption ==
    /\ RequestLens \subseteq 0 .. Word - 1
    /\ ResponseLens \subseteq Nat \ {0}    \* a response is never the empty text
ASSUME FaultAssumption == MaxFaults \in Nat

VARIABLES
    pc,           \* control location of wm_engine_evaluate
    request,      \* request_ptr and request_len
    response,     \* response_ptr and response_len
    memory,       \* size of the memory the local pointer was taken from, 0 before
    result,       \* "ok" or what the error message will say
    message,      \* *error_out
    copy,         \* whether the caller holds a response buffer
    heap,         \* guest: blocks handed across the ABI or left by a failed call
    memorySize,   \* guest: current size of the linear memory
    lastCalled,   \* wasm3: function whose results are on the stack
    returned,     \* wasm3: those results
    faults,       \* history: guest calls that failed
    lost          \* history: what they left allocated

hostVars == <<request, response, memory, result, message, copy>>
guestVars == <<heap, memorySize, lastCalled, returned, faults, lost>>
vars == <<pc, request, response, memory, result, message, copy,
          heap, memorySize, lastCalled, returned, faults, lost>>

NoBlock == [ptr |-> 0, len |-> 0]
Blocks == [ptr : Nat, len : Nat]

Functions == {"wasm_alloc", "wasm_free", "evaluate_feature_flag"}

Failures == {"null argument", "alloc failed", "alloc unread", "request out of bounds",
             "evaluate failed", "evaluate unread", "response out of bounds",
             "no host buffer"}
NoMessage == "none"

FreeSites == {"abandon_request", "free_request", "abandon_response", "free_response"}

Locations == {"idle", "alloc", "alloc_result", "check_request", "copy_request", "evaluate",
              "evaluate_result", "check_result", "check_response", "malloc",
              "copy_response", "returned"} \cup FreeSites

Init ==
    /\ pc = "idle"
    /\ request = NoBlock /\ response = NoBlock
    /\ memory = 0 /\ result = "ok" /\ message = NoMessage /\ copy = FALSE
    /\ heap = {} /\ memorySize = InitialSize
    /\ lastCalled = "none" /\ returned = NoBlock
    /\ faults = 0 /\ lost = {}

-----------------------------------------------------------------------------
(* The guest and the interpreter. *)

(* A 32-bit length as the i32 parameter wasm_alloc and wasm_free take. *)
Signed(n) == IF n < Half THEN n ELSE n - Word

Disjoint(a, b) == a.ptr + a.len <= b.ptr \/ b.ptr + b.len <= a.ptr

(* A successful call leaves its results on the stack until the next call. *)
Succeeds(function, results) ==
    /\ lastCalled' = function
    /\ returned' = results
    /\ UNCHANGED <<faults, lost>>

FailsLosing(blocks) ==
    /\ lastCalled' = "none"
    /\ faults' = faults + 1
    /\ lost' = lost \cup blocks
    /\ UNCHANGED returned

(* vec![0; len] or the response: a block in free space, after growing the
   memory where that is needed. *)
GuestAllocates(block, size) ==
    /\ size >= memorySize
    /\ block.ptr + block.len <= size
    /\ \A other \in heap : Disjoint(block, other)
    /\ heap' = heap \cup {block}
    /\ memorySize' = size

AllocReturns(len) ==
    IF Signed(len) <= 0
    THEN Succeeds("wasm_alloc", NoBlock) /\ UNCHANGED <<heap, memorySize>>
    ELSE \E size \in MemorySizes : \E ptr \in 1 .. size :
           LET block == [ptr |-> ptr, len |-> len] IN
           GuestAllocates(block, size) /\ Succeeds("wasm_alloc", block)

(* Any request, also the empty one, is answered by some response. *)
EvaluateReturns ==
    \E len \in ResponseLens, size \in MemorySizes : \E ptr \in 1 .. size :
        LET block == [ptr |-> ptr, len |-> len] IN
        GuestAllocates(block, size) /\ Succeeds("evaluate_feature_flag", block)

(* What an unfinished call can leave in a memory of that size: any of its
   bytes.  Nobody has a pointer to them, so they are kept byte by byte. *)
Debris(size) == SUBSET {[ptr |-> ptr, len |-> 1] : ptr \in 1 .. size - 1}

(* wasm_alloc or evaluate_feature_flag stops half-way: the panic handler is
   an unreachable and nothing unwinds, so that whatever is allocated by then
   stays allocated, in a memory that may have grown for it. *)
GuestTraps ==
    \E size \in MemorySizes : \E debris \in Debris(size) :
        /\ size >= memorySize
        /\ \A a \in debris, b \in heap : Disjoint(a, b)
        /\ heap' = heap \cup debris
        /\ memorySize' = size
        /\ FailsLosing(debris)

FreeReturns(block) ==
    /\ heap' = IF Signed(block.len) <= 0 THEN heap ELSE heap \ {block}
    /\ Succeeds("wasm_free", NoBlock)
    /\ UNCHANGED memorySize

(* The box is never dropped. *)
FreeTraps(block) ==
    /\ FailsLosing({block})
    /\ UNCHANGED <<heap, memorySize>>

-----------------------------------------------------------------------------
(* wm_engine_evaluate. *)

Goto(location) == pc' = location

(* wm_set_error: the copy of the text may itself not be allocated. *)
ReturnNull(why) ==
    /\ Goto("returned")
    /\ result' = why
    /\ message' \in {why, NoMessage}
    /\ UNCHANGED <<request, response, memory, copy>>

(* request_bytes is null for an empty vector on Android. *)
Call ==
    /\ pc = "idle"
    /\ faults < MaxFaults
    /\ UNCHANGED guestVars
    /\ \E len \in RequestLens :
         /\ Goto("alloc")
         /\ request' = [ptr |-> 0, len |-> len]
         /\ UNCHANGED <<response, memory, result, message, copy>>

CallWithNull ==
    /\ pc = "idle"
    /\ UNCHANGED guestVars
    /\ ReturnNull("null argument")

CallAlloc ==
    /\ pc = "alloc"
    /\ \/ AllocReturns(request.len) /\ Goto("alloc_result") /\ UNCHANGED hostVars
       \/ GuestTraps /\ ReturnNull("alloc failed")

ReadRequestPointer ==
    /\ pc = "alloc_result"
    /\ UNCHANGED guestVars
    /\ IF lastCalled = "wasm_alloc"
       THEN /\ request' = [request EXCEPT !.ptr = returned.ptr]
            /\ Goto("check_request")
            /\ UNCHANGED <<response, memory, result, message, copy>>
       ELSE ReturnNull("alloc unread")

(* The sum is computed in uint32_t. *)
OutOfBounds(block, size) == (block.ptr + block.len) % Word > size

CheckRequestRetries ==
    /\ pc = "check_request"
    /\ memory' = memorySize
    /\ IF OutOfBounds(request, memorySize)
       THEN Goto("alloc") /\ UNCHANGED result
       ELSE Goto("copy_request") /\ UNCHANGED result
    /\ UNCHANGED <<request, response, message, copy, guestVars>>

CheckRequestCachedPointer ==
    /\ pc = "check_request"
    /\ memory' = InitialSize
    /\ IF OutOfBounds(request, memorySize)
       THEN Goto("abandon_request") /\ result' = "request out of bounds"
       ELSE Goto("copy_request") /\ UNCHANGED result
    /\ UNCHANGED <<request, response, message, copy, guestVars>>

CheckRequest ==
    /\ pc = "check_request"
    /\ memory' = memorySize
    /\ IF OutOfBounds(request, memorySize)
       THEN Goto("abandon_request") /\ result' = "request out of bounds"
       ELSE Goto("copy_request") /\ UNCHANGED result
    /\ UNCHANGED <<request, response, message, copy, guestVars>>

CopyRequest ==
    /\ pc = "copy_request"
    /\ Goto("evaluate")
    /\ UNCHANGED <<hostVars, guestVars>>

CallEvaluate ==
    /\ pc = "evaluate"
    /\ \/ EvaluateReturns /\ Goto("evaluate_result") /\ UNCHANGED result
       \/ GuestTraps /\ Goto("abandon_request") /\ result' = "evaluate failed"
    /\ UNCHANGED <<request, response, memory, message, copy>>

ReadResponseAfterFree ==
    /\ pc = "evaluate_result"
    /\ Goto("check_result")
    /\ IF request.ptr # 0 /\ request.len # 0 THEN FreeReturns(request) ELSE UNCHANGED guestVars
    /\ IF lastCalled' = "evaluate_feature_flag"
       THEN response' = returned' /\ UNCHANGED result
       ELSE result' = "evaluate unread" /\ UNCHANGED response
    /\ UNCHANGED <<request, memory, message, copy>>

(* The results are read before wasm_free overwrites them, and looked at
   after it. *)
ReadResponse ==
    /\ pc = "evaluate_result"
    /\ Goto("free_request")
    /\ IF lastCalled = "evaluate_feature_flag"
       THEN response' = returned /\ UNCHANGED result
       ELSE result' = "evaluate unread" /\ UNCHANGED response
    /\ UNCHANGED <<request, memory, message, copy, guestVars>>

CheckResult ==
    /\ pc = "check_result"
    /\ UNCHANGED guestVars
    /\ IF result = "ok"
       THEN Goto("check_response") /\ UNCHANGED hostVars
       ELSE ReturnNull(result)

CheckResponseStalePointer ==
    /\ pc = "check_response"
    /\ IF OutOfBounds(response, memorySize)
       THEN Goto("abandon_response") /\ result' = "response out of bounds"
       ELSE Goto("malloc") /\ UNCHANGED result
    /\ UNCHANGED <<request, response, memory, message, copy, guestVars>>

CheckResponseOldSize ==
    /\ pc = "check_response"
    /\ memory' = memorySize
    /\ IF OutOfBounds(response, memory)
       THEN Goto("abandon_response") /\ result' = "response out of bounds"
       ELSE Goto("malloc") /\ UNCHANGED result
    /\ UNCHANGED <<request, response, message, copy, guestVars>>

(* The memory is fetched again: the evaluation may have moved it. *)
CheckResponse ==
    /\ pc = "check_response"
    /\ memory' = memorySize
    /\ IF OutOfBounds(response, memorySize)
       THEN Goto("abandon_response") /\ result' = "response out of bounds"
       ELSE Goto("malloc") /\ UNCHANGED result
    /\ UNCHANGED <<request, response, message, copy, guestVars>>

MallocCopyLeaking ==
    /\ pc = "malloc"
    /\ UNCHANGED guestVars
    /\ \/ /\ Goto("copy_response") /\ copy' = TRUE
          /\ UNCHANGED <<request, response, memory, result, message>>
       \/ ReturnNull("no host buffer")

MallocCopy ==
    /\ pc = "malloc"
    /\ \/ Goto("copy_response") /\ copy' = TRUE /\ UNCHANGED result
       \/ Goto("abandon_response") /\ result' = "no host buffer" /\ UNCHANGED copy
    /\ UNCHANGED <<request, response, memory, message, guestVars>>

CopyResponse ==
    /\ pc = "copy_response"
    /\ Goto("free_response")
    /\ UNCHANGED <<hostVars, guestVars>>

TargetSwapped(site) == IF site = "abandon_request" THEN request ELSE response

(* What a call of wm_call_free is passed, and where it leads. *)
Target(site) == IF site \in {"abandon_request", "free_request"} THEN request ELSE response

AfterFree(site) ==
    CASE site = "free_request"  -> Goto("check_result") /\ UNCHANGED hostVars
      [] site = "free_response" -> Goto("returned") /\ UNCHANGED hostVars
      [] OTHER                  -> ReturnNull(result)

Freeable(block) == block.ptr # 0 /\ block.len # 0

(* The result of the call into wasm_free is ignored. *)
CallFree(site) ==
    /\ pc = site
    /\ IF Freeable(Target(site))
       THEN FreeReturns(Target(site)) \/ FreeTraps(Target(site))
       ELSE UNCHANGED guestVars
    /\ AfterFree(site)

ReleaseKeepingCopy ==
    /\ pc = "returned"
    /\ Goto("idle")
    /\ request' = NoBlock /\ response' = NoBlock
    /\ memory' = 0 /\ result' = "ok" /\ message' = NoMessage /\ UNCHANGED copy
    /\ UNCHANGED guestVars

(* The wrappers (nativeEvaluate, evaluateWithHandle, the defer block in
   FeatureFlagEngine.evaluate) free the message and the buffer. *)
Release ==
    /\ pc = "returned"
    /\ Goto("idle")
    /\ request' = NoBlock /\ response' = NoBlock
    /\ memory' = 0 /\ result' = "ok" /\ message' = NoMessage /\ copy' = FALSE
    /\ UNCHANGED guestVars

RecreateWithoutMemory ==
    /\ pc = "idle"
    /\ heap' = {} /\ memorySize' = 0
    /\ lastCalled' = "none" /\ returned' = NoBlock
    /\ faults' = 0 /\ lost' = {}
    /\ UNCHANGED <<pc, hostVars>>

(* The engine is destroyed and another one created: the linear memory goes
   with the runtime, and with it whatever the guest had lost. *)
Recreate ==
    /\ pc = "idle"
    /\ heap' = {} /\ memorySize' = InitialSize
    /\ lastCalled' = "none" /\ returned' = NoBlock
    /\ faults' = 0 /\ lost' = {}
    /\ UNCHANGED <<pc, hostVars>>

Step ==
    \/ CallAlloc \/ ReadRequestPointer \/ CheckRequest \/ CopyRequest
    \/ CallEvaluate \/ ReadResponse \/ CheckResult
    \/ CheckResponse \/ MallocCopy \/ CopyResponse
    \/ \E site \in FreeSites : CallFree(site)
    \/ Release

Next == Call \/ CallWithNull \/ Recreate \/ Step

(* Straight-line code on the caller's thread, and the guest's functions
   terminate: the two loops of the core are bounded by the rules. *)
Spec == Init /\ [][Next]_vars /\ WF_vars(Step)

-----------------------------------------------------------------------------
(* Properties. *)

(* The variables hold what their declarations say. *)
TypeOK ==
    /\ pc \in Locations
    /\ request \in Blocks /\ response \in Blocks /\ returned \in Blocks
    /\ memory \in Nat
    /\ result \in Failures \cup {"ok"}
    /\ message \in Failures \cup {NoMessage}
    /\ copy \in BOOLEAN
    /\ heap \subseteq Blocks
    /\ memorySize \in MemorySizes
    /\ lastCalled \in Functions \cup {"none"}
    /\ faults \in Nat /\ lost \subseteq Blocks

(* Both memcpys stay inside one live block of the guest, and go through a   *)
(* pointer to the memory as it is now, not as it was before the guest grew  *)
(* it (wasm_host_runtime.c:229-238, 258-274).                               *)
CopiesInLiveBlock ==
    /\ pc = "copy_request" /\ request.len > 0 =>
         request \in heap /\ memory = memorySize /\ request.ptr + request.len <= memory
    /\ pc = "copy_response" =>
         response \in heap /\ memory = memorySize /\ response.ptr + response.len <= memory

(* Every wm_call_free that reaches the guest frees a block that is live:    *)
(* none is freed twice or freed with another block's length, on any of the  *)
(* paths out of wm_engine_evaluate.                                         *)
FreesLiveBlock ==
    \A site \in FreeSites : pc = site /\ Freeable(Target(site)) => Target(site) \in heap

(* Between calls the guest's heap holds what failed guest calls left in it, *)
(* no more and no less: a call gives back every block it got, also when it  *)
(* is refused half-way and on an engine that has failed before, and frees   *)
(* nothing else (lib.rs:27-31, wasm_host_runtime.c:71-78, 240-277).         *)
OnlyFailuresLeak == pc \in {"idle", "returned"} => heap = lost

(* The caller gets a response or an error message, never both, and a        *)
(* refused call has left no host buffer behind.                             *)
ResponseXorError == pc = "returned" => (copy <=> result = "ok") /\ (copy => message = NoMessage)

(* One thread never sees "function not called": no call into the guest, not  *)
(* even the freeing of the request, comes between a call and the reading of *)
(* its results, so a response is never lost in the guest                    *)
(* (wasm_host_runtime.c:222-227, 248-254).                                  *)
ResultsReadInTime == result \notin {"alloc unread", "evaluate unread"}

(* The bounds checks refuse no honest exchange: a request only when its     *)
(* length is no i32, for which wasm_alloc gave no block, and never a        *)
(* response, however far the guest's memory has grown meanwhile             *)
(* (wasm_host_runtime.c:230, 259).                                          *)
RefusesOnlyOversized ==
    /\ result = "request out of bounds" /\ pc = "abandon_request" => request.len >= Half
    /\ result # "response out of bounds"

(* Whatever fails on the way, a call of wm_engine_evaluate returns. *)
EveryCallReturns == pc = "alloc" ~> pc = "returned"
=============================================================================
