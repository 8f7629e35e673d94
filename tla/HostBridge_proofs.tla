-------------------------- MODULE HostBridge_proofs --------------------------
(***************************************************************************)
(* Memory safety and leak accounting of wm_engine_evaluate, for every      *)
(* address width, memory size, request and response length and any number  *)
(* of failing guest calls, whatever they leave behind.                     *)
(*                                                                         *)
(* The inductive invariant says which blocks of the guest the call in      *)
(* progress answers for (Owned), that they are live and apart, and that    *)
(* the rest of the heap is what failed calls left in it.                   *)
(***************************************************************************)
EXTENDS HostBridge, TLAPS

(* The call holds the request from reading its pointer until freeing it, *)
(* the response likewise; in between a block is known to the interpreter *)
(* alone, as the results of the last call.                               *)
RequestHeld == {"check_request", "copy_request", "evaluate", "evaluate_result",
                "free_request", "abandon_request"}
ResponseHeld == {"free_request", "check_result", "check_response", "malloc",
                 "copy_response", "free_response", "abandon_response"}
Unread == {"alloc_result", "evaluate_result"}

Held(location, block, locations) == IF location \in locations /\ Freeable(block)
                                    THEN {block} ELSE {}

Owned == Held(pc, request, RequestHeld) \cup Held(pc, response, ResponseHeld)
         \cup Held(pc, returned, Unread)

HeapInMemory ==
    \A b \in heap : b.ptr >= 1 /\ b.len >= 1 /\ b.ptr + b.len <= memorySize

HeapDisjoint == \A a, b \in heap : a # b => Disjoint(a, b)

ResultsFresh ==
    /\ pc = "alloc_result" => lastCalled = "wasm_alloc"
    /\ pc = "evaluate_result" => lastCalled = "evaluate_feature_flag"

(* Only a length whose i32 is not positive gets no block. *)
RequestServed ==
    /\ pc = "alloc_result" =>
         IF Signed(request.len) <= 0 THEN returned = NoBlock
                                     ELSE Freeable(returned) /\ returned.len = request.len
    /\ pc \in RequestHeld /\ ~Freeable(request) => request.len = 0 \/ request.len >= Half
    /\ pc \in RequestHeld /\ ~Freeable(request) => request.ptr = 0

ResponsePresent ==
    /\ pc \in ResponseHeld => Freeable(response)
    /\ pc = "evaluate_result" => Freeable(returned) /\ request # returned
    /\ pc = "free_request" => request # response

PointersFresh ==
    /\ pc = "copy_request" => memory = memorySize /\ ~OutOfBounds(request, memory)
    /\ pc \in {"malloc", "copy_response"} => memory = memorySize

(* A failure is on record exactly on the way out of it. *)
Reporting ==
    /\ pc \notin {"abandon_request", "abandon_response", "returned"} => result = "ok"
    /\ pc # "returned" => message = NoMessage
    /\ pc \in {"copy_response", "free_response"} => copy
    /\ pc \notin {"copy_response", "free_response", "returned"} => ~copy

HeapInv == HeapInMemory /\ HeapDisjoint

OwnedInv == Owned \subseteq heap /\ heap \ Owned = lost

CallInv == ResultsFresh /\ RequestServed /\ ResponsePresent /\ PointersFresh

Abandoning == pc \in {"abandon_request", "abandon_response"} => result \in Failures

Typed == TypeOK /\ request.len \in 0 .. Word - 1 /\ Abandoning

BridgeInv == Typed /\ HeapInv /\ OwnedInv /\ CallInv /\ Reporting /\ ResponseXorError

-----------------------------------------------------------------------------
(* Arithmetic of 32-bit words, whatever the width. *)
LEMMA WordFacts ==
    /\ Word \in Nat /\ Half \in Nat /\ Word = 2 * Half /\ Half > 0
    /\ MemorySizes \subseteq Nat
    /\ \A size \in MemorySizes : size < Half /\ size >= 1
<1>1. Word \in Nat /\ Half \in Nat /\ Word = 2 * Half
  BY WidthAssumption
<1>2. InitialSize \in 1 .. Half - 1 /\ MemorySizes \subseteq 1 .. Half - 1
  BY MemoryAssumption
<1> QED
  BY <1>1, <1>2

LEMMA WordMod == \A n \in 0 .. Word - 1 : n % Word = n
  BY WordFacts

-----------------------------------------------------------------------------
(* What a call into the guest does to it. *)

(* b is a new block in free space of the memory, grown for it if need be. *)
Placed(b) ==
    /\ b \in Blocks /\ b.ptr >= 1 /\ b.len >= 1
    /\ b.ptr + b.len <= memorySize'
    /\ \A other \in heap : Disjoint(b, other)
    /\ heap' = heap \cup {b}
    /\ memorySize' \in MemorySizes /\ memorySize' >= memorySize

(* The bytes of an unfinished call, in the room it found or made. *)
Abandoned(debris) ==
    /\ debris \subseteq Blocks
    /\ \A b \in debris : b.ptr >= 1 /\ b.len = 1 /\ b.ptr + b.len <= memorySize'
    /\ \A a \in debris, b \in heap : Disjoint(a, b)
    /\ heap' = heap \cup debris /\ lost' = lost \cup debris
    /\ memorySize' \in MemorySizes /\ memorySize' >= memorySize

Calling(function) == lastCalled' = function /\ UNCHANGED <<faults, lost>>

LEMMA SignedFacts ==
    /\ \A n \in 0 .. Word - 1 : Signed(n) <= 0 <=> n = 0 \/ n >= Half
  BY WordFacts DEF Signed

(* wasm_alloc gives no block for an empty or a negative length, and a new   *)
(* block of the asked length otherwise (lib.rs:246-258).                    *)
LEMMA AllocGives ==
    ASSUME Typed, AllocReturns(request.len)
    PROVE  /\ Calling("wasm_alloc")
           /\ IF Signed(request.len) <= 0
              THEN returned' = NoBlock /\ heap' = heap /\ memorySize' = memorySize
              ELSE Placed(returned') /\ returned'.len = request.len
<1>1. CASE Signed(request.len) <= 0
  BY <1>1 DEF AllocReturns, Succeeds, Calling
<1>2. CASE ~(Signed(request.len) <= 0)
  <2>1. PICK size \in MemorySizes :
          \E ptr \in 1 .. size : LET b == [ptr |-> ptr, len |-> request.len] IN
            GuestAllocates(b, size) /\ Succeeds("wasm_alloc", b)
    BY <1>2 DEF AllocReturns
  <2>2. PICK ptr \in 1 .. size : LET b == [ptr |-> ptr, len |-> request.len] IN
          GuestAllocates(b, size) /\ Succeeds("wasm_alloc", b)
    BY <2>1
  <2> DEFINE block == [ptr |-> ptr, len |-> request.len]
  <2>3. size \in Nat /\ request.len \in Nat /\ request.len >= 1
    BY <1>2, WordFacts, SignedFacts DEF Typed
  <2>4. block \in Blocks /\ block.ptr >= 1 /\ block.len >= 1
    BY <2>3 DEF Blocks
  <2>5. Placed(block) /\ returned' = block /\ Calling("wasm_alloc")
    BY <2>2, <2>4 DEF Placed, Calling, GuestAllocates, Succeeds
  <2> QED
    BY <1>2, <2>5
<1> QED
  BY <1>1, <1>2

(* evaluate_feature_flag leaves one new, non-empty block, the response      *)
(* (lib.rs:273-293).                                                        *)
LEMMA EvaluateGives ==
    ASSUME Typed, EvaluateReturns
    PROVE  Calling("evaluate_feature_flag") /\ Placed(returned')
<1>1. PICK len \in ResponseLens, size \in MemorySizes :
        \E ptr \in 1 .. size : LET b == [ptr |-> ptr, len |-> len] IN
          GuestAllocates(b, size) /\ Succeeds("evaluate_feature_flag", b)
  BY DEF EvaluateReturns
<1>2. PICK ptr \in 1 .. size : LET b == [ptr |-> ptr, len |-> len] IN
        GuestAllocates(b, size) /\ Succeeds("evaluate_feature_flag", b)
  BY <1>1
<1> DEFINE block == [ptr |-> ptr, len |-> len]
<1>3. size \in Nat /\ len \in Nat /\ len >= 1
  BY WordFacts, LengthAssumption
<1>4. block \in Blocks /\ block.ptr >= 1 /\ block.len >= 1
  BY <1>3 DEF Blocks
<1>5. Placed(block) /\ returned' = block
  BY <1>2, <1>4 DEF Placed, GuestAllocates, Succeeds
<1> QED
  BY <1>2, <1>5 DEF Calling, Succeeds

(* A failing call counts as a fault and leaves no results.                  *)
LEMMA FailGives ==
    ASSUME Typed, NEW blocks, FailsLosing(blocks)
    PROVE  lastCalled' = "none" /\ faults' \in Nat /\ returned' \in Blocks
  BY DEF Typed, TypeOK, FailsLosing

(* A trap leaves some bytes allocated, perhaps in a larger memory           *)
(* (lib.rs:27-31).                                                          *)
LEMMA TrapGives ==
    ASSUME Typed, GuestTraps
    PROVE  /\ lastCalled' = "none" /\ faults' \in Nat /\ returned' \in Blocks
           /\ \E debris : Abandoned(debris)
<1>1. PICK size \in MemorySizes : \E debris \in Debris(size) :
        /\ size >= memorySize
        /\ \A a \in debris, b \in heap : Disjoint(a, b)
        /\ heap' = heap \cup debris
        /\ memorySize' = size
        /\ FailsLosing(debris)
  BY DEF GuestTraps
<1>2. PICK debris \in Debris(size) :
        /\ size >= memorySize
        /\ \A a \in debris, b \in heap : Disjoint(a, b)
        /\ heap' = heap \cup debris
        /\ memorySize' = size
        /\ FailsLosing(debris)
  BY <1>1
<1>3. size \in Nat
  BY WordFacts
<1>4. ASSUME NEW b \in debris
      PROVE  b \in Blocks /\ b.ptr >= 1 /\ b.len = 1 /\ b.ptr + b.len <= size
  <2>1. PICK ptr \in 1 .. size - 1 : b = [ptr |-> ptr, len |-> 1]
    BY <1>4 DEF Debris
  <2> QED
    BY <1>3, <2>1 DEF Blocks
<1>5. Abandoned(debris)
  BY <1>2, <1>4 DEF Abandoned, FailsLosing
<1> QED
  BY <1>2, <1>5, FailGives

-----------------------------------------------------------------------------
(* The variables keep their types, and the length of the request in         *)
(* progress is one a host sends (wm_engine_evaluate).                       *)
LEMMA TypedInductive == Typed /\ [Next]_vars => Typed'
<1> SUFFICES ASSUME Typed, [Next]_vars PROVE Typed'
  OBVIOUS
<1> USE DEF Typed, TypeOK, Abandoning, Goto
<1>a. \A function \in Functions : Calling(function) =>
        lastCalled' \in Functions \cup {"none"} /\ faults' \in Nat /\ lost' \subseteq Blocks
  BY DEF Calling
<1>b. ASSUME GuestTraps
      PROVE  /\ lastCalled' \in Functions \cup {"none"} /\ faults' \in Nat
             /\ returned' \in Blocks /\ memorySize' \in MemorySizes
             /\ heap' \subseteq Blocks /\ lost' \subseteq Blocks
  BY <1>b, TrapGives DEF Abandoned
<1>c. ASSUME NEW b, Placed(b) PROVE heap' \subseteq Blocks /\ memorySize' \in MemorySizes
  BY <1>c DEF Placed
<1>d. ASSUME NEW why \in Failures, ReturnNull(why)
      PROVE  /\ pc' \in Locations /\ result' \in Failures /\ message' \in Failures \cup {NoMessage}
             /\ request' = request /\ response' = response
             /\ memory' \in Nat /\ copy' \in BOOLEAN
  BY <1>d DEF ReturnNull, Locations
<1>e. NoBlock \in Blocks /\ NoBlock.len \in 0 .. Word - 1
  BY WordFacts DEF NoBlock, Blocks
<1>1. CASE Call
  BY <1>1, LengthAssumption DEF Call, guestVars, Blocks, Locations
<1>2. CASE CallWithNull
  <2>1. "null argument" \in Failures
    BY DEF Failures
  <2> QED
    BY <1>2, <1>d, <2>1 DEF CallWithNull, guestVars
<1>3. CASE Recreate
  BY <1>3, <1>e, MemoryAssumption DEF Recreate, hostVars
<1>4. CASE CallAlloc
  <2>1. CASE AllocReturns(request.len) /\ Goto("alloc_result") /\ UNCHANGED hostVars
    <3>1. heap' \subseteq Blocks /\ memorySize' \in MemorySizes /\ returned' \in Blocks
      BY <2>1, <1>c, <1>e, AllocGives DEF Placed
    <3>2. lastCalled' \in Functions \cup {"none"} /\ faults' \in Nat /\ lost' \subseteq Blocks
      BY <2>1, <1>a, AllocGives DEF Functions
    <3> QED
      BY <2>1, <3>1, <3>2 DEF hostVars, Locations
  <2>2. CASE GuestTraps /\ ReturnNull("alloc failed")
    <3>1. "alloc failed" \in Failures
      BY DEF Failures
    <3> QED
      BY <2>2, <3>1, <1>b, <1>d
  <2> QED
    BY <1>4, <2>1, <2>2 DEF CallAlloc
<1>5. CASE ReadRequestPointer
  BY <1>5 DEF ReadRequestPointer, ReturnNull, guestVars, Blocks, Locations, Failures
<1>6. CASE CheckRequest
  BY <1>6, WordFacts DEF CheckRequest, guestVars, Locations, FreeSites, Failures
<1>7. CASE CopyRequest
  BY <1>7 DEF CopyRequest, hostVars, guestVars, Locations
<1>8. CASE CallEvaluate
  <2>0. /\ pc' \in Locations /\ result' \in Failures \cup {"ok"} /\ Abandoning'
        /\ UNCHANGED <<request, response, memory, message, copy>>
    BY <1>8 DEF CallEvaluate, Locations, FreeSites, Failures
  <2>1. CASE EvaluateReturns
    <3>1. heap' \subseteq Blocks /\ memorySize' \in MemorySizes /\ returned' \in Blocks
      BY <2>1, <1>c, EvaluateGives DEF Placed
    <3>2. lastCalled' \in Functions \cup {"none"} /\ faults' \in Nat /\ lost' \subseteq Blocks
      BY <2>1, <1>a, EvaluateGives DEF Functions
    <3> QED
      BY <2>0, <3>1, <3>2
  <2>2. CASE GuestTraps
    BY <2>0, <2>2, <1>b
  <2> QED
    BY <1>8, <2>1, <2>2 DEF CallEvaluate
<1>9. CASE ReadResponse
  BY <1>9 DEF ReadResponse, guestVars, Locations, FreeSites, Failures
<1>10. CASE CheckResult
  BY <1>10 DEF CheckResult, ReturnNull, hostVars, guestVars, Locations, Failures
<1>11. CASE CheckResponse
  BY <1>11, WordFacts DEF CheckResponse, guestVars, Locations, FreeSites, Failures
<1>12. CASE MallocCopy
  BY <1>12 DEF MallocCopy, guestVars, Locations, FreeSites, Failures
<1>13. CASE CopyResponse
  BY <1>13 DEF CopyResponse, hostVars, guestVars, Locations, FreeSites
<1>14. ASSUME NEW site \in FreeSites, CallFree(site) PROVE Typed'
  <2>0. Target(site) \in Blocks
    BY DEF Target
  <2>1. heap' \subseteq Blocks /\ memorySize' \in MemorySizes /\ returned' \in Blocks
    BY <1>14, <1>e DEF CallFree, FreeReturns, FreeTraps, FailsLosing, Succeeds, guestVars
  <2>2. lastCalled' \in Functions \cup {"none"} /\ faults' \in Nat /\ lost' \subseteq Blocks
    BY <1>14, <2>0 DEF CallFree, FreeReturns, FreeTraps, FailsLosing, Succeeds, guestVars, Functions
  <2>3. CASE site = "free_request"
    BY <1>14, <2>1, <2>2, <2>3 DEF CallFree, AfterFree, hostVars, Locations
  <2>4. CASE site = "free_response"
    BY <1>14, <2>1, <2>2, <2>4 DEF CallFree, AfterFree, hostVars, Locations
  <2>5. CASE site \in {"abandon_request", "abandon_response"}
    BY <1>14, <2>1, <2>2, <2>5, <1>d DEF CallFree, AfterFree
  <2> QED
    BY <2>3, <2>4, <2>5 DEF FreeSites
<1>15. CASE Release
  BY <1>15, <1>e DEF Release, guestVars, Locations
<1>16. CASE UNCHANGED vars
  BY <1>16 DEF vars
<1> QED
  BY <1>1, <1>2, <1>3, <1>4, <1>5, <1>6, <1>7, <1>8, <1>9, <1>10, <1>11, <1>12, <1>13,
     <1>14, <1>15, <1>16 DEF Next, Step

LEMMA InitTyped == Init => Typed
<1>1. NoBlock \in Blocks /\ NoBlock.len \in 0 .. Word - 1
  BY WordFacts DEF NoBlock, Blocks
<1>2. "idle" \in Locations /\ FALSE \in BOOLEAN /\ 0 \in Nat /\ {} \subseteq Blocks
  BY DEF Locations
<1>3. Init => TypeOK
  BY <1>1, <1>2, MemoryAssumption, Zenon DEF Init, TypeOK
<1> QED
  BY <1>1, <1>3 DEF Init, Typed, Abandoning

(* TypeOK holds for every width and every bound. *)
THEOREM TypeCorrect == Spec => []TypeOK
<1>1. Init => Typed
  BY InitTyped
<1>2. Typed => TypeOK
  BY DEF Typed
<1> QED
  BY <1>1, <1>2, TypedInductive, PTL DEF Spec

-----------------------------------------------------------------------------
(* The heap and the blocks nobody answers for any more. *)

(* A new block overlaps no old one, and was not there before. *)
LEMMA PlacedKeepsHeap ==
    ASSUME Typed, HeapInv, NEW b, Placed(b)
    PROVE  HeapInv' /\ b \notin heap
<1>1. memorySize \in Nat /\ memorySize' \in Nat /\ memorySize' >= memorySize
  BY WordFacts DEF Typed, TypeOK, Placed
<1>2. \A c \in heap : c.ptr \in Nat /\ c.len \in Nat /\ c.ptr + c.len <= memorySize
  BY DEF Typed, TypeOK, Blocks, HeapInv, HeapInMemory
<1>3. b.ptr \in Nat /\ b.len \in Nat
  BY DEF Placed, Blocks
<1>5. HeapInMemory'
  BY <1>1, <1>2, <1>3 DEF HeapInv, HeapInMemory, Placed
<1>6. HeapDisjoint'
  BY <1>2, <1>3 DEF HeapInv, HeapDisjoint, Placed, Disjoint
<1>7. b \notin heap
  BY <1>3 DEF Placed, Disjoint
<1> QED
  BY <1>5, <1>6, <1>7 DEF HeapInv

LEMMA AbandonedKeepsHeap ==
    ASSUME Typed, HeapInv, NEW debris, Abandoned(debris)
    PROVE  HeapInv' /\ debris \cap heap = {}
<1>1. memorySize \in Nat /\ memorySize' \in Nat /\ memorySize' >= memorySize
  BY WordFacts DEF Typed, TypeOK, Abandoned
<1>2. \A c \in heap : c.ptr \in Nat /\ c.len \in Nat /\ c.len >= 1 /\ c.ptr + c.len <= memorySize
  BY DEF Typed, TypeOK, Blocks, HeapInv, HeapInMemory
<1>3. \A b \in debris : b.ptr \in Nat /\ b.len = 1 /\ b = [ptr |-> b.ptr, len |-> 1]
  BY DEF Abandoned, Blocks
<1>4. HeapInMemory'
  BY <1>1, <1>2, <1>3 DEF HeapInv, HeapInMemory, Abandoned
<1>5. \A a, b \in debris : a # b => Disjoint(a, b)
  <2> SUFFICES ASSUME NEW a \in debris, NEW b \in debris, a # b PROVE Disjoint(a, b)
    OBVIOUS
  <2>1. a.ptr # b.ptr /\ a.ptr \in Nat /\ b.ptr \in Nat /\ a.len = 1 /\ b.len = 1
    BY <1>3
  <2> QED
    BY <2>1 DEF Disjoint
<1>6. \A a \in debris, b \in heap : Disjoint(a, b) /\ Disjoint(b, a)
  BY <1>2, <1>3 DEF Abandoned, Disjoint
<1>7. HeapDisjoint'
  BY <1>5, <1>6 DEF HeapInv, HeapDisjoint, Abandoned, Disjoint
<1>8. debris \cap heap = {}
  BY <1>3, <1>6 DEF Disjoint
<1> QED
  BY <1>4, <1>7, <1>8 DEF HeapInv

LEMMA ShrunkKeepsHeap ==
    ASSUME HeapInv, heap' \subseteq heap, UNCHANGED memorySize
    PROVE  HeapInv'
  BY DEF HeapInv, HeapInMemory, HeapDisjoint

(* The account of what failed calls left balances: a call that gets a block *)
(* answers for it, one that frees a block no longer does, and what a trap   *)
(* leaves is nobody's.                                                      *)
LEMMA AccountKept ==
    ASSUME OwnedInv, Owned' \subseteq heap', heap' \ Owned' = heap \ Owned, UNCHANGED lost
    PROVE  OwnedInv'
  BY DEF OwnedInv

LEMMA DebrisCounted ==
    ASSUME Typed, HeapInv, OwnedInv, NEW debris, Abandoned(debris), Owned' = Owned
    PROVE  OwnedInv'
<1>1. debris \cap heap = {}
  BY AbandonedKeepsHeap
<1> QED
  BY <1>1 DEF OwnedInv, Abandoned

-----------------------------------------------------------------------------
(* One lemma per part of wm_engine_evaluate that changes what the call      *)
(* answers for.                                                             *)

LEMMA AllocKeeps == ASSUME BridgeInv, CallAlloc, Typed' PROVE BridgeInv'
<1> USE DEF Goto
<1>0. Typed /\ HeapInv /\ OwnedInv /\ pc = "alloc" /\ Owned = {}
  BY DEF BridgeInv, CallAlloc, Owned, Held, RequestHeld, ResponseHeld, Unread
<1>1. CASE AllocReturns(request.len) /\ pc' = "alloc_result" /\ UNCHANGED hostVars
  <2>1. CASE Signed(request.len) <= 0
    <3>1. /\ returned' = NoBlock /\ UNCHANGED <<heap, memorySize, faults>>
          /\ lastCalled' = "wasm_alloc"
      BY <1>0, <1>1, <2>1, AllocGives DEF Calling
    <3>2. Owned' = {}
      BY <1>1, <3>1 DEF Owned, Held, RequestHeld, ResponseHeld, Unread, Freeable, NoBlock
    <3>3. HeapInv' /\ OwnedInv'
      BY <1>0, <1>1, <2>1, <3>1, <3>2, AllocGives, ShrunkKeepsHeap, AccountKept DEF Calling
    <3>4. CallInv'
      BY <1>1, <2>1, <3>1 DEF hostVars, CallInv, ResultsFresh, RequestServed, ResponsePresent,
         PointersFresh, RequestHeld, ResponseHeld
    <3>5. Reporting' /\ ResponseXorError'
      BY <1>0, <1>1 DEF BridgeInv, Reporting, ResponseXorError, hostVars
    <3> QED
      BY <3>3, <3>4, <3>5 DEF BridgeInv
  <2>2. CASE ~(Signed(request.len) <= 0)
    <3>1. /\ Placed(returned') /\ returned'.len = request.len
          /\ lastCalled' = "wasm_alloc" /\ lost' = lost
      BY <1>0, <1>1, <2>2, AllocGives DEF Calling
    <3>2. Freeable(returned')
      BY <3>1 DEF Placed, Freeable, Blocks
    <3>3. Owned' = {returned'}
      BY <1>1, <3>2 DEF Owned, Held, RequestHeld, ResponseHeld, Unread
    <3>4. HeapInv' /\ returned' \notin heap
      BY <1>0, <3>1, PlacedKeepsHeap
    <3>5. HeapInv' /\ OwnedInv'
      BY <1>0, <3>1, <3>3, <3>4, AccountKept DEF Placed
    <3>6. CallInv'
      BY <1>1, <2>2, <3>1, <3>2 DEF hostVars, CallInv, ResultsFresh, RequestServed,
         ResponsePresent, PointersFresh, RequestHeld, ResponseHeld
    <3>7. Reporting' /\ ResponseXorError'
      BY <1>0, <1>1 DEF BridgeInv, Reporting, ResponseXorError, hostVars
    <3> QED
      BY <3>5, <3>6, <3>7 DEF BridgeInv
  <2> QED
    BY <2>1, <2>2
<1>2. CASE GuestTraps /\ ReturnNull("alloc failed")
  <2>1. pc' = "returned" /\ \E debris : Abandoned(debris)
    BY <1>0, <1>2, TrapGives DEF ReturnNull
  <2>2. Owned' = {}
    BY <2>1 DEF Owned, Held, RequestHeld, ResponseHeld, Unread
  <2>3. HeapInv' /\ OwnedInv'
    BY <1>0, <2>1, <2>2, AbandonedKeepsHeap, DebrisCounted
  <2>4. CallInv'
    BY <2>1 DEF CallInv, ResultsFresh, RequestServed, ResponsePresent, PointersFresh,
       RequestHeld, ResponseHeld
  <2>5. Reporting' /\ ResponseXorError'
    BY <1>0, <1>2 DEF BridgeInv, Reporting, ResponseXorError, ReturnNull, NoMessage
  <2> QED
    BY <2>3, <2>4, <2>5 DEF BridgeInv
<1> QED
  BY <1>1, <1>2 DEF CallAlloc

LEMMA ReadRequestKeeps == ASSUME BridgeInv, ReadRequestPointer, Typed' PROVE BridgeInv'
<1>1. Typed /\ HeapInv /\ OwnedInv /\ pc = "alloc_result" /\ lastCalled = "wasm_alloc"
  BY DEF BridgeInv, CallInv, ResultsFresh, ReadRequestPointer
<1>2. /\ request' = [request EXCEPT !.ptr = returned.ptr] /\ pc' = "check_request"
      /\ UNCHANGED <<response, memory, result, message, copy>> /\ UNCHANGED guestVars
  BY <1>1 DEF ReadRequestPointer, Goto
<1>3. request \in Blocks /\ returned \in Blocks /\ request.len \in 0 .. Word - 1
  BY <1>1 DEF Typed, TypeOK
<1>4. CASE Signed(request.len) <= 0
  <2>1. returned = NoBlock /\ (request.len = 0 \/ request.len >= Half)
    BY <1>1, <1>3, <1>4, SignedFacts DEF BridgeInv, CallInv, RequestServed
  <2>2. request'.ptr = 0 /\ request'.len = request.len /\ ~Freeable(request')
    BY <1>2, <1>3, <2>1 DEF Blocks, NoBlock, Freeable
  <2>3. Owned = {} /\ Owned' = {}
    BY <1>1, <1>2, <2>1, <2>2
    DEF Owned, Held, RequestHeld, ResponseHeld, Unread, Freeable, NoBlock
  <2>4. HeapInv' /\ OwnedInv'
    BY <1>1, <1>2, <2>3, ShrunkKeepsHeap, AccountKept DEF guestVars
  <2>5. CallInv'
    BY <1>2, <2>1, <2>2 DEF CallInv, ResultsFresh, RequestServed, ResponsePresent,
       PointersFresh, RequestHeld, ResponseHeld
  <2>6. Reporting' /\ ResponseXorError'
    BY <1>1, <1>2 DEF BridgeInv, Reporting, ResponseXorError
  <2> QED
    BY <2>4, <2>5, <2>6 DEF BridgeInv
<1>5. CASE ~(Signed(request.len) <= 0)
  <2>1. Freeable(returned) /\ returned.len = request.len
    BY <1>1, <1>5 DEF BridgeInv, CallInv, RequestServed
  <2>2. request' = returned
    BY <1>2, <1>3, <2>1 DEF Blocks
  <2>3. Owned = {returned} /\ Owned' = {returned}
    BY <1>1, <1>2, <2>1, <2>2 DEF Owned, Held, RequestHeld, ResponseHeld, Unread
  <2>4. HeapInv' /\ OwnedInv'
    BY <1>1, <1>2, <2>3, ShrunkKeepsHeap, AccountKept DEF guestVars, OwnedInv
  <2>5. CallInv'
    BY <1>2, <2>1, <2>2 DEF CallInv, ResultsFresh, RequestServed, ResponsePresent,
       PointersFresh, RequestHeld, ResponseHeld
  <2>6. Reporting' /\ ResponseXorError'
    BY <1>1, <1>2 DEF BridgeInv, Reporting, ResponseXorError
  <2> QED
    BY <2>4, <2>5, <2>6 DEF BridgeInv
<1> QED
  BY <1>4, <1>5

LEMMA EvaluateKeeps == ASSUME BridgeInv, CallEvaluate, Typed' PROVE BridgeInv'
<1> USE DEF Goto
<1> DEFINE Mine == Held("evaluate", request, RequestHeld)
<1>0. /\ Typed /\ HeapInv /\ OwnedInv /\ pc = "evaluate" /\ Owned = Mine /\ Mine \subseteq {request}
      /\ UNCHANGED <<request, response, memory, message, copy>>
  BY DEF BridgeInv, CallEvaluate, Owned, Held, RequestHeld, ResponseHeld, Unread
<1>1. CASE EvaluateReturns /\ pc' = "evaluate_result" /\ UNCHANGED result
  <2>1. Placed(returned') /\ lastCalled' = "evaluate_feature_flag" /\ lost' = lost
    BY <1>0, <1>1, EvaluateGives DEF Calling
  <2>2. Freeable(returned')
    BY <2>1 DEF Placed, Freeable, Blocks
  <2>3. Owned' = Mine \cup {returned'}
    BY <1>0, <1>1, <2>2 DEF Owned, Held, RequestHeld, ResponseHeld, Unread
  <2>4. HeapInv' /\ returned' \notin heap
    BY <1>0, <2>1, PlacedKeepsHeap
  <2>5. OwnedInv'
    BY <1>0, <2>1, <2>3, <2>4, AccountKept DEF Placed, OwnedInv
  <2>6. request # returned'
    <3>1. CASE Freeable(request)
      BY <1>0, <2>4, <3>1 DEF Held, RequestHeld, OwnedInv
    <3> QED
      BY <2>2, <3>1
  <2>7. CallInv'
    BY <1>0, <1>1, <2>1, <2>2, <2>6 DEF BridgeInv, CallInv, ResultsFresh, RequestServed,
       ResponsePresent, PointersFresh, RequestHeld, ResponseHeld
  <2>8. Reporting' /\ ResponseXorError'
    BY <1>0, <1>1 DEF BridgeInv, Reporting, ResponseXorError
  <2> QED
    BY <2>4, <2>5, <2>7, <2>8 DEF BridgeInv
<1>2. CASE GuestTraps /\ pc' = "abandon_request" /\ result' = "evaluate failed"
  <2>1. \E debris : Abandoned(debris)
    BY <1>0, <1>2, TrapGives
  <2>2. Owned' = Owned
    BY <1>0, <1>2 DEF Owned, Held, RequestHeld, ResponseHeld, Unread
  <2>3. HeapInv' /\ OwnedInv'
    BY <1>0, <2>1, <2>2, AbandonedKeepsHeap, DebrisCounted
  <2>4. CallInv'
    BY <1>0, <1>2 DEF BridgeInv, CallInv, ResultsFresh, RequestServed,
       ResponsePresent, PointersFresh, RequestHeld, ResponseHeld
  <2>5. Reporting' /\ ResponseXorError'
    BY <1>0, <1>2 DEF BridgeInv, Reporting, ResponseXorError
  <2> QED
    BY <2>3, <2>4, <2>5 DEF BridgeInv
<1> QED
  BY <1>1, <1>2 DEF CallEvaluate

LEMMA ReadResponseKeeps == ASSUME BridgeInv, ReadResponse, Typed' PROVE BridgeInv'
<1>1. /\ Typed /\ HeapInv /\ OwnedInv /\ pc = "evaluate_result"
      /\ lastCalled = "evaluate_feature_flag"
  BY DEF BridgeInv, CallInv, ResultsFresh, ReadResponse
<1>2. /\ pc' = "free_request" /\ response' = returned
      /\ UNCHANGED <<request, memory, result, message, copy>> /\ UNCHANGED guestVars
  BY <1>1 DEF ReadResponse, Goto
<1>3. Freeable(returned) /\ request # returned
  BY <1>1 DEF BridgeInv, CallInv, ResponsePresent
<1>4. Owned' = Owned
  BY <1>1, <1>2, <1>3 DEF Owned, Held, RequestHeld, ResponseHeld, Unread
<1>5. HeapInv' /\ OwnedInv'
  BY <1>1, <1>2, <1>4, ShrunkKeepsHeap, AccountKept DEF guestVars, OwnedInv
<1>6. CallInv'
  BY <1>1, <1>2, <1>3 DEF BridgeInv, CallInv, ResultsFresh, RequestServed,
     ResponsePresent, PointersFresh, RequestHeld, ResponseHeld
<1>7. Reporting' /\ ResponseXorError'
  BY <1>1, <1>2 DEF BridgeInv, Reporting, ResponseXorError
<1> QED
  BY <1>5, <1>6, <1>7 DEF BridgeInv

(* The only block a free site answers for less is its target; the other     *)
(* block of the call stays live.                                            *)
LEMMA FreeKeeps ==
    ASSUME BridgeInv, NEW site \in FreeSites, CallFree(site), Typed'
    PROVE  BridgeInv'
<1> USE DEF Goto
<1> DEFINE block == Target(site)
<1>0. Typed /\ HeapInv /\ OwnedInv /\ pc = site /\ UNCHANGED <<request, response>>
  BY DEF BridgeInv, CallFree, AfterFree, ReturnNull, hostVars
<1>1. /\ Freeable(block) => block \in heap /\ Owned' = Owned \ {block}
      /\ ~Freeable(block) => Owned' = Owned
  <2>1. CASE site = "abandon_request"
    <3>1. pc' = "returned"
      BY <2>1 DEF CallFree, AfterFree, ReturnNull
    <3> QED
      BY <1>0, <2>1, <3>1
      DEF Owned, Held, RequestHeld, ResponseHeld, Unread, Target, OwnedInv
  <2>2. CASE site = "free_request"
    <3>1. pc' = "check_result"
      BY <2>2 DEF CallFree, AfterFree
    <3>2. request # response
      BY <1>0, <2>2 DEF BridgeInv, CallInv, ResponsePresent
    <3> QED
      BY <1>0, <2>2, <3>1, <3>2
      DEF Owned, Held, RequestHeld, ResponseHeld, Unread, Target, OwnedInv
  <2>3. CASE site \in {"free_response", "abandon_response"}
    <3>1. pc' = "returned"
      BY <2>3 DEF CallFree, AfterFree, ReturnNull
    <3> QED
      BY <1>0, <2>3, <3>1
      DEF Owned, Held, RequestHeld, ResponseHeld, Unread, Target, OwnedInv
  <2> QED
    BY <2>1, <2>2, <2>3 DEF FreeSites
<1>2. HeapInv' /\ OwnedInv'
  <2>1. CASE ~Freeable(block)
    <3>1. UNCHANGED guestVars
      BY <2>1 DEF CallFree
    <3> QED
      BY <1>0, <1>1, <2>1, <3>1, ShrunkKeepsHeap, AccountKept DEF guestVars, OwnedInv
  <2>2. CASE Freeable(block) /\ FreeReturns(block)
    <3>1. ~(Signed(block.len) <= 0)
      <4>1. block \in heap /\ block.ptr + block.len <= memorySize /\ block.len >= 1 /\ block.ptr >= 1
        BY <1>1, <2>2 DEF BridgeInv, HeapInv, HeapInMemory
      <4>2. block \in Blocks /\ memorySize \in Nat /\ memorySize < Half
        BY <1>0, <4>1, WordFacts DEF Typed, TypeOK
      <4>3. block.len \in 0 .. Word - 1 /\ block.len < Half
        BY <4>1, <4>2, WordFacts DEF Blocks
      <4> QED
        BY <4>1, <4>2, <4>3, SignedFacts, WordFacts
    <3>2. heap' = heap \ {block} /\ UNCHANGED <<memorySize, lost>>
      BY <2>2, <3>1 DEF FreeReturns, Succeeds
    <3>3. block \in Owned
      BY <1>0, <2>2 DEF Owned, Held, Target, FreeSites, RequestHeld, ResponseHeld
    <3>4. OwnedInv'
      BY <1>0, <1>1, <2>2, <3>2, <3>3, AccountKept DEF OwnedInv
    <3> QED
      BY <1>0, <3>2, <3>4, ShrunkKeepsHeap
  <2>3. CASE Freeable(block) /\ FreeTraps(block)
    <3>1. UNCHANGED <<heap, memorySize>> /\ lost' = lost \cup {block}
      BY <2>3 DEF FreeTraps, FailsLosing
    <3>2. OwnedInv'
      BY <1>0, <1>1, <2>3, <3>1 DEF OwnedInv
    <3> QED
      BY <1>0, <3>1, <3>2, ShrunkKeepsHeap
  <2> QED
    BY <2>1, <2>2, <2>3 DEF CallFree
<1>3. CASE site \in {"abandon_request", "abandon_response"}
  <2>1. pc' = "returned" /\ result' = result /\ UNCHANGED copy
    BY <1>3 DEF CallFree, AfterFree, ReturnNull
  <2>2. result \in Failures /\ ~copy
    BY <1>0, <1>3 DEF Typed, Abandoning, BridgeInv, Reporting
  <2>3. Reporting' /\ ResponseXorError'
    BY <2>1, <2>2 DEF Reporting, ResponseXorError, Failures
  <2>4. CallInv'
    BY <2>1 DEF CallInv, ResultsFresh, RequestServed, ResponsePresent, PointersFresh,
       RequestHeld, ResponseHeld
  <2> QED
    BY <1>2, <2>3, <2>4 DEF BridgeInv
<1>4. CASE site = "free_request"
  <2>1. pc' = "check_result" /\ UNCHANGED hostVars
    BY <1>4 DEF CallFree, AfterFree
  <2>2. Reporting' /\ ResponseXorError'
    BY <1>0, <1>4, <2>1 DEF BridgeInv, Reporting, ResponseXorError, hostVars
  <2>3. CallInv'
    BY <1>0, <1>4, <2>1 DEF BridgeInv, CallInv, ResultsFresh, RequestServed, ResponsePresent,
       PointersFresh, RequestHeld, ResponseHeld, hostVars
  <2> QED
    BY <1>2, <2>2, <2>3 DEF BridgeInv
<1>5. CASE site = "free_response"
  <2>1. pc' = "returned" /\ UNCHANGED hostVars
    BY <1>5 DEF CallFree, AfterFree
  <2>2. Reporting' /\ ResponseXorError'
    BY <1>0, <1>5, <2>1 DEF BridgeInv, Reporting, ResponseXorError, hostVars
  <2>3. CallInv'
    BY <2>1 DEF CallInv, ResultsFresh, RequestServed, ResponsePresent, PointersFresh,
       RequestHeld, ResponseHeld
  <2> QED
    BY <1>2, <2>2, <2>3 DEF BridgeInv
<1> QED
  BY <1>3, <1>4, <1>5 DEF FreeSites

(* The steps that stay in the host neither touch the guest nor change what  *)
(* the call answers for.                                                    *)
LEMMA HostStepKeeps ==
    ASSUME BridgeInv, Typed',
           Call \/ CallWithNull \/ CheckRequest \/ CopyRequest \/ CheckResult
             \/ CheckResponse \/ MallocCopy \/ CopyResponse \/ Release
    PROVE  BridgeInv'
<1> USE DEF Goto
<1>0. Typed /\ HeapInv /\ OwnedInv /\ CallInv /\ Reporting /\ ResponseXorError
  BY DEF BridgeInv
<1>1. UNCHANGED guestVars
  BY DEF Call, CallWithNull, CheckRequest, CopyRequest, CheckResult, CheckResponse,
     MallocCopy, CopyResponse, Release
<1>2. ASSUME Owned' = Owned PROVE HeapInv' /\ OwnedInv'
  BY <1>0, <1>1, <1>2, ShrunkKeepsHeap, AccountKept DEF guestVars, OwnedInv
<1>3. CASE Call
  <2>1. Owned' = Owned
    BY <1>3 DEF Call, Owned, Held, RequestHeld, ResponseHeld, Unread
  <2>2. CallInv'
    BY <1>3 DEF Call, CallInv, ResultsFresh, RequestServed, ResponsePresent, PointersFresh,
       RequestHeld, ResponseHeld
  <2>3. Reporting' /\ ResponseXorError'
    BY <1>0, <1>3 DEF Call, Reporting, ResponseXorError
  <2> QED
    BY <1>2, <2>1, <2>2, <2>3 DEF BridgeInv
<1>4. CASE CallWithNull
  <2>1. Owned' = Owned
    BY <1>4 DEF CallWithNull, ReturnNull, Owned, Held, RequestHeld, ResponseHeld, Unread
  <2>2. CallInv'
    BY <1>4 DEF CallWithNull, ReturnNull, CallInv, ResultsFresh, RequestServed,
       ResponsePresent, PointersFresh, RequestHeld, ResponseHeld
  <2>3. Reporting' /\ ResponseXorError'
    BY <1>0, <1>4 DEF CallWithNull, ReturnNull, Reporting, ResponseXorError
  <2> QED
    BY <1>2, <2>1, <2>2, <2>3 DEF BridgeInv
<1>5. CASE CheckRequest
  <2>1. Owned' = Owned
    BY <1>1, <1>5 DEF CheckRequest, guestVars, Owned, Held, RequestHeld, ResponseHeld, Unread
  <2>2. CallInv'
    BY <1>0, <1>1, <1>5 DEF CheckRequest, guestVars, CallInv, ResultsFresh, RequestServed,
       ResponsePresent, PointersFresh, RequestHeld, ResponseHeld
  <2>3. Reporting' /\ ResponseXorError'
    BY <1>0, <1>5 DEF CheckRequest, Reporting, ResponseXorError
  <2> QED
    BY <1>2, <2>1, <2>2, <2>3 DEF BridgeInv
<1>6. CASE CopyRequest
  <2>1. Owned' = Owned
    BY <1>1, <1>6
    DEF CopyRequest, hostVars, guestVars, Owned, Held, RequestHeld, ResponseHeld, Unread
  <2>2. CallInv'
    BY <1>0, <1>1, <1>6 DEF CopyRequest, hostVars, guestVars, CallInv, ResultsFresh,
       RequestServed, ResponsePresent, PointersFresh, RequestHeld, ResponseHeld
  <2>3. Reporting' /\ ResponseXorError'
    BY <1>0, <1>6 DEF CopyRequest, hostVars, Reporting, ResponseXorError
  <2> QED
    BY <1>2, <2>1, <2>2, <2>3 DEF BridgeInv
<1>7. CASE CheckResult
  <2>0. pc = "check_result" /\ pc' = "check_response" /\ UNCHANGED hostVars
    BY <1>0, <1>7 DEF CheckResult, Reporting
  <2>1. Owned' = Owned
    BY <1>1, <2>0 DEF hostVars, guestVars, Owned, Held, RequestHeld, ResponseHeld, Unread
  <2>2. CallInv'
    BY <1>0, <1>1, <2>0 DEF hostVars, guestVars, CallInv, ResultsFresh, RequestServed,
       ResponsePresent, PointersFresh, RequestHeld, ResponseHeld
  <2>3. Reporting' /\ ResponseXorError'
    BY <1>0, <2>0 DEF hostVars, Reporting, ResponseXorError
  <2> QED
    BY <1>2, <2>1, <2>2, <2>3 DEF BridgeInv
<1>8. CASE CheckResponse
  <2>1. Owned' = Owned
    BY <1>1, <1>8 DEF CheckResponse, guestVars, Owned, Held, RequestHeld, ResponseHeld, Unread
  <2>2. CallInv'
    BY <1>0, <1>1, <1>8 DEF CheckResponse, guestVars, CallInv, ResultsFresh, RequestServed,
       ResponsePresent, PointersFresh, RequestHeld, ResponseHeld
  <2>3. Reporting' /\ ResponseXorError'
    BY <1>0, <1>8 DEF CheckResponse, Reporting, ResponseXorError
  <2> QED
    BY <1>2, <2>1, <2>2, <2>3 DEF BridgeInv
<1>9. CASE MallocCopy
  <2>1. Owned' = Owned
    BY <1>1, <1>9 DEF MallocCopy, guestVars, Owned, Held, RequestHeld, ResponseHeld, Unread
  <2>2. CallInv'
    BY <1>0, <1>1, <1>9 DEF MallocCopy, guestVars, CallInv, ResultsFresh, RequestServed,
       ResponsePresent, PointersFresh, RequestHeld, ResponseHeld
  <2>3. Reporting' /\ ResponseXorError'
    <3>1. CASE pc' = "copy_response" /\ copy' = TRUE /\ UNCHANGED <<result, message>>
      BY <1>0, <1>9, <3>1 DEF MallocCopy, Reporting, ResponseXorError
    <3>2. CASE pc' = "abandon_response" /\ UNCHANGED <<copy, message>>
      BY <1>0, <1>9, <3>2 DEF MallocCopy, Reporting, ResponseXorError
    <3> QED
      BY <1>9, <3>1, <3>2 DEF MallocCopy
  <2> QED
    BY <1>2, <2>1, <2>2, <2>3 DEF BridgeInv
<1>10. CASE CopyResponse
  <2>1. Owned' = Owned
    BY <1>1, <1>10
    DEF CopyResponse, hostVars, guestVars, Owned, Held, RequestHeld, ResponseHeld, Unread
  <2>2. CallInv'
    BY <1>0, <1>1, <1>10 DEF CopyResponse, hostVars, guestVars, CallInv, ResultsFresh,
       RequestServed, ResponsePresent, PointersFresh, RequestHeld, ResponseHeld
  <2>3. Reporting' /\ ResponseXorError'
    BY <1>0, <1>10 DEF CopyResponse, hostVars, Reporting, ResponseXorError
  <2> QED
    BY <1>2, <2>1, <2>2, <2>3 DEF BridgeInv
<1>11. CASE Release
  <2>1. Owned' = Owned
    BY <1>11 DEF Release, Owned, Held, RequestHeld, ResponseHeld, Unread
  <2>2. CallInv'
    BY <1>11 DEF Release, CallInv, ResultsFresh, RequestServed, ResponsePresent,
       PointersFresh, RequestHeld, ResponseHeld
  <2>3. Reporting' /\ ResponseXorError'
    BY <1>11 DEF Release, Reporting, ResponseXorError
  <2> QED
    BY <1>2, <2>1, <2>2, <2>3 DEF BridgeInv
<1> QED
  BY <1>3, <1>4, <1>5, <1>6, <1>7, <1>8, <1>9, <1>10, <1>11

(* A new engine starts with an empty account. *)
LEMMA FreshGuest ==
    ASSUME heap' = {}, lost' = {}, pc' = "idle"
    PROVE  HeapInv' /\ OwnedInv' /\ CallInv'
<1>1. Owned' = {}
  BY DEF Owned, Held, RequestHeld, ResponseHeld, Unread
<1>2. HeapInv' /\ OwnedInv'
  BY <1>1 DEF HeapInv, HeapInMemory, HeapDisjoint, OwnedInv
<1>3. CallInv'
  BY DEF CallInv, ResultsFresh, RequestServed, ResponsePresent, PointersFresh,
     RequestHeld, ResponseHeld
<1> QED
  BY <1>2, <1>3

LEMMA BridgeInductive == BridgeInv /\ [Next]_vars => BridgeInv'
<1> SUFFICES ASSUME BridgeInv, [Next]_vars PROVE BridgeInv'
  OBVIOUS
<1>0. Typed'
  BY TypedInductive DEF BridgeInv
<1>1. CASE Call \/ CallWithNull \/ CheckRequest \/ CopyRequest \/ CheckResult
             \/ CheckResponse \/ MallocCopy \/ CopyResponse \/ Release
  BY <1>0, <1>1, HostStepKeeps
<1>2. CASE CallAlloc
  BY <1>0, <1>2, AllocKeeps
<1>3. CASE ReadRequestPointer
  BY <1>0, <1>3, ReadRequestKeeps
<1>4. CASE CallEvaluate
  BY <1>0, <1>4, EvaluateKeeps
<1>5. CASE ReadResponse
  BY <1>0, <1>5, ReadResponseKeeps
<1>6. ASSUME NEW site \in FreeSites, CallFree(site) PROVE BridgeInv'
  BY <1>0, <1>6, FreeKeeps
<1>7. CASE Recreate
  <2>1. HeapInv' /\ OwnedInv' /\ CallInv'
    BY <1>0, <1>7, FreshGuest DEF Recreate
  <2>2. Reporting' /\ ResponseXorError'
    BY <1>7 DEF Recreate, hostVars, BridgeInv, Reporting, ResponseXorError
  <2> QED
    BY <1>0, <2>1, <2>2 DEF BridgeInv
<1>8. CASE UNCHANGED vars
  <2>1. Owned' = Owned
    BY <1>8 DEF vars, Owned, Held
  <2>2. HeapInv' /\ OwnedInv'
    BY <1>8, <2>1 DEF vars, BridgeInv, HeapInv, HeapInMemory, HeapDisjoint, OwnedInv
  <2>3. CallInv'
    BY <1>8 DEF vars, BridgeInv, CallInv, ResultsFresh, RequestServed, ResponsePresent,
       PointersFresh
  <2>4. Reporting' /\ ResponseXorError'
    BY <1>8 DEF vars, BridgeInv, Reporting, ResponseXorError
  <2> QED
    BY <1>0, <2>2, <2>3, <2>4 DEF BridgeInv
<1> QED
  BY <1>1, <1>2, <1>3, <1>4, <1>5, <1>6, <1>7, <1>8 DEF Next, Step

LEMMA InitBridge == Init => BridgeInv
<1> SUFFICES ASSUME Init PROVE BridgeInv
  OBVIOUS
<1>2. heap = {} /\ pc = "idle" /\ lost = {}
  BY DEF Init
<1>3. Owned = {}
  BY <1>2 DEF Owned, Held, RequestHeld, ResponseHeld, Unread
<1>4. HeapInv
  BY <1>2 DEF HeapInv, HeapInMemory, HeapDisjoint
<1>6. OwnedInv
  BY <1>2, <1>3 DEF OwnedInv
<1>7. CallInv
  BY <1>2 DEF CallInv, ResultsFresh, RequestServed, ResponsePresent, PointersFresh,
     RequestHeld, ResponseHeld
<1>8. Reporting /\ ResponseXorError
  BY DEF Init, Reporting, ResponseXorError
<1> QED
  BY InitTyped, <1>4, <1>6, <1>7, <1>8 DEF BridgeInv

(* The invariant that carries all the others. *)
THEOREM BridgeInvariant == Spec => []BridgeInv
  BY InitBridge, BridgeInductive, PTL DEF Spec

-----------------------------------------------------------------------------
(* What it is for. *)

(* No memcpy of wm_engine_evaluate leaves a live block of the guest or uses *)
(* a pointer from before the memory moved, for every memory below half of   *)
(* the address space.                                                       *)
THEOREM CopiesSafe == Spec => []CopiesInLiveBlock
<1>1. BridgeInv => CopiesInLiveBlock
  <2> SUFFICES ASSUME BridgeInv PROVE CopiesInLiveBlock
    OBVIOUS
  <2>0. Typed /\ HeapInv /\ OwnedInv /\ CallInv
    BY DEF BridgeInv
  <2>1. ASSUME pc = "copy_request", request.len > 0
        PROVE  request \in heap /\ memory = memorySize /\ request.ptr + request.len <= memory
    <3>1. memory = memorySize /\ ~OutOfBounds(request, memory) /\ memory \in Nat /\ memory < Half
      BY <2>0, <2>1, WordFacts DEF CallInv, PointersFresh, Typed, TypeOK
    <3>2. CASE Freeable(request)
      <4>1. request \in heap
        BY <2>0, <2>1, <3>2 DEF OwnedInv, Owned, Held, RequestHeld
      <4> QED
        BY <2>0, <3>1, <4>1 DEF HeapInv, HeapInMemory
    <3>3. CASE ~Freeable(request)
      <4>1. request.ptr = 0 /\ request.len >= Half /\ request.len \in 0 .. Word - 1
        BY <2>0, <2>1, <3>3 DEF CallInv, RequestServed, RequestHeld, Typed
      <4>2. (request.ptr + request.len) % Word = request.len
        BY <4>1, WordMod
      <4> QED
        BY <3>1, <4>1, <4>2, WordFacts DEF OutOfBounds
    <3> QED
      BY <3>2, <3>3
  <2>2. ASSUME pc = "copy_response"
        PROVE  response \in heap /\ memory = memorySize /\ response.ptr + response.len <= memory
    <3>1. memory = memorySize /\ Freeable(response)
      BY <2>0, <2>2 DEF CallInv, PointersFresh, ResponsePresent, ResponseHeld
    <3>2. response \in heap
      BY <2>0, <2>2, <3>1 DEF OwnedInv, Owned, Held, ResponseHeld
    <3> QED
      BY <2>0, <3>1, <3>2 DEF HeapInv, HeapInMemory
  <2> QED
    BY <2>1, <2>2 DEF CopiesInLiveBlock
<1> QED
  BY <1>1, BridgeInvariant, PTL

(* On every path out of wm_engine_evaluate a block is freed at most once    *)
(* and with the length it was allocated with.                               *)
THEOREM FreesSafe == Spec => []FreesLiveBlock
<1>1. BridgeInv => FreesLiveBlock
  BY DEF BridgeInv, OwnedInv, Owned, Held, FreesLiveBlock, Target, FreeSites, RequestHeld,
     ResponseHeld
<1> QED
  BY <1>1, BridgeInvariant, PTL

(* However long the engine serves requests and whatever fails, between      *)
(* calls the guest holds what failed calls left in it and nothing else.     *)
THEOREM OnlyFailuresLeakAlways == Spec => []OnlyFailuresLeak
<1>1. BridgeInv => OnlyFailuresLeak
  BY DEF BridgeInv, OwnedInv, OnlyFailuresLeak, Owned, Held, RequestHeld, ResponseHeld, Unread
<1> QED
  BY <1>1, BridgeInvariant, PTL

(* A caller never gets a response together with an error, nor a failure     *)
(* that kept a host buffer.                                                 *)
THEOREM ResultSound == Spec => []ResponseXorError
<1>1. BridgeInv => ResponseXorError
  BY DEF BridgeInv
<1> QED
  BY <1>1, BridgeInvariant, PTL

(* wasm3 keeps one set of results.  One thread always reads those of the    *)
(* call it has just made, so "function not called" is never seen.           *)
THEOREM ResultsTimely == Spec => []ResultsReadInTime
<1>1. Init => ResultsReadInTime
  BY DEF Init, ResultsReadInTime
<1>2. ASSUME BridgeInv, ResultsReadInTime, [Next]_vars PROVE ResultsReadInTime'
  <2> USE <1>2
  <2>0. ResultsFresh
    BY DEF BridgeInv, CallInv
  <2>1. CASE Call \/ CallWithNull
    BY <2>1 DEF Call, CallWithNull, ReturnNull, ResultsReadInTime
  <2>2. CASE CallAlloc
    BY <2>2 DEF CallAlloc, ReturnNull, ResultsReadInTime, hostVars
  <2>3. CASE ReadRequestPointer
    BY <2>0, <2>3 DEF ReadRequestPointer, ResultsFresh, ResultsReadInTime
  <2>4. CASE CheckRequest \/ CheckResponse
    BY <2>4 DEF CheckRequest, CheckResponse, ResultsReadInTime
  <2>5. CASE CopyRequest \/ CopyResponse
    BY <2>5 DEF CopyRequest, CopyResponse, ResultsReadInTime, hostVars
  <2>6. CASE CallEvaluate
    BY <2>6 DEF CallEvaluate, ResultsReadInTime
  <2>7. CASE ReadResponse
    BY <2>0, <2>7 DEF ReadResponse, ResultsFresh, ResultsReadInTime
  <2>8. CASE CheckResult
    BY <2>8 DEF CheckResult, ReturnNull, ResultsReadInTime, hostVars
  <2>9. CASE MallocCopy
    BY <2>9 DEF MallocCopy, ResultsReadInTime
  <2>10. ASSUME NEW site \in FreeSites, CallFree(site) PROVE ResultsReadInTime'
    <3>1. AfterFree(site)
      BY <2>10 DEF CallFree
    <3>2. result' = result
      BY <3>1 DEF AfterFree, ReturnNull, hostVars
    <3> QED
      BY <3>2 DEF ResultsReadInTime
  <2>11. CASE Release \/ Recreate \/ UNCHANGED vars
    BY <2>11 DEF Release, Recreate, ResultsReadInTime, hostVars, vars
  <2> QED
    BY <2>1, <2>2, <2>3, <2>4, <2>5, <2>6, <2>7, <2>8, <2>9, <2>10, <2>11 DEF Next, Step
<1> QED
  BY <1>1, <1>2, BridgeInvariant, PTL DEF Spec

(* A live block passes the bounds check of the memory it is live in, for    *)
(* every width: the 32-bit sum cannot wrap below 2 GiB.                     *)
LEMMA LiveInBounds ==
    ASSUME Typed, HeapInv, NEW b \in heap
    PROVE  ~OutOfBounds(b, memorySize)
<1>1. b.ptr \in Nat /\ b.len \in Nat /\ b.ptr + b.len <= memorySize
  BY DEF Typed, TypeOK, Blocks, HeapInv, HeapInMemory
<1>2. memorySize \in Nat /\ memorySize < Half
  BY WordFacts DEF Typed, TypeOK
<1>3. (b.ptr + b.len) % Word = b.ptr + b.len
  BY <1>1, <1>2, WordFacts, WordMod
<1> QED
  BY <1>1, <1>2, <1>3 DEF OutOfBounds

(* wm_engine_evaluate refuses no request but one longer than an i32 can     *)
(* say, and no response at all, for want of room in the guest's memory.     *)
THEOREM RefusalsJustified == Spec => []RefusesOnlyOversized
<1>1. Init => RefusesOnlyOversized
  BY DEF Init, RefusesOnlyOversized
<1>2. ASSUME BridgeInv, RefusesOnlyOversized, [Next]_vars PROVE RefusesOnlyOversized'
  <2> USE <1>2 DEF Goto
  <2>0. Typed /\ HeapInv /\ OwnedInv /\ CallInv
    BY DEF BridgeInv
  <2>1. CASE Call \/ CallWithNull
    BY <2>1 DEF Call, CallWithNull, ReturnNull, RefusesOnlyOversized
  <2>2. CASE CallAlloc
    BY <2>2 DEF CallAlloc, ReturnNull, RefusesOnlyOversized, hostVars
  <2>3. CASE ReadRequestPointer
    BY <2>3 DEF ReadRequestPointer, ReturnNull, RefusesOnlyOversized
  <2>4. CASE CheckRequest
    <3>1. CASE Freeable(request)
      <4>1. request \in heap
        BY <2>0, <2>4, <3>1 DEF CheckRequest, OwnedInv, Owned, Held, RequestHeld
      <4>2. ~OutOfBounds(request, memorySize)
        BY <2>0, <4>1, LiveInBounds
      <4> QED
        BY <2>4, <4>2 DEF CheckRequest, RefusesOnlyOversized
    <3>2. CASE ~Freeable(request)
      <4>1. request.ptr = 0 /\ (request.len = 0 \/ request.len >= Half)
        BY <2>0, <2>4, <3>2 DEF CheckRequest, CallInv, RequestServed, RequestHeld
      <4>2. CASE request.len = 0
        <5>1. memorySize \in Nat /\ (request.ptr + request.len) % Word = 0
          BY <4>1, <4>2, WordFacts, WordMod, <2>0 DEF Typed, TypeOK
        <5>2. ~OutOfBounds(request, memorySize)
          BY <5>1 DEF OutOfBounds
        <5> QED
          BY <2>4, <5>2 DEF CheckRequest, RefusesOnlyOversized
      <4>3. CASE request.len >= Half
        BY <2>4, <4>3 DEF CheckRequest, RefusesOnlyOversized
      <4> QED
        BY <4>1, <4>2, <4>3
    <3> QED
      BY <3>1, <3>2
  <2>5. CASE CopyRequest \/ CopyResponse
    BY <2>5 DEF CopyRequest, CopyResponse, RefusesOnlyOversized, hostVars
  <2>6. CASE CallEvaluate
    BY <2>6 DEF CallEvaluate, RefusesOnlyOversized
  <2>7. CASE ReadResponse
    BY <2>7 DEF ReadResponse, RefusesOnlyOversized
  <2>8. CASE CheckResult
    BY <2>8 DEF CheckResult, ReturnNull, RefusesOnlyOversized, hostVars
  <2>9. CASE CheckResponse
    <3>1. response \in heap
      BY <2>0, <2>9 DEF CheckResponse, CallInv, ResponsePresent, OwnedInv, Owned, Held,
         ResponseHeld
    <3>2. ~OutOfBounds(response, memorySize)
      BY <2>0, <3>1, LiveInBounds
    <3> QED
      BY <2>9, <3>2 DEF CheckResponse, RefusesOnlyOversized
  <2>10. CASE MallocCopy
    BY <2>10 DEF MallocCopy, RefusesOnlyOversized
  <2>11. ASSUME NEW site \in FreeSites, CallFree(site) PROVE RefusesOnlyOversized'
    <3>1. AfterFree(site)
      BY <2>11 DEF CallFree
    <3>2. result' = result /\ pc' # "abandon_request"
      BY <3>1 DEF AfterFree, ReturnNull, hostVars
    <3> QED
      BY <3>2 DEF RefusesOnlyOversized
  <2>12. CASE Release \/ Recreate \/ UNCHANGED vars
    BY <2>12 DEF Release, Recreate, RefusesOnlyOversized, hostVars, vars
  <2> QED
    BY <2>1, <2>2, <2>3, <2>4, <2>5, <2>6, <2>7, <2>8, <2>9, <2>10, <2>11, <2>12 DEF Next, Step
<1> QED
  BY <1>1, <1>2, BridgeInvariant, PTL DEF Spec
=============================================================================
