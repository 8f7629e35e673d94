---------------------------- MODULE EndToEnd_proofs ----------------------------
(***************************************************************************)
(* The composition of bridge, guest and core, for every set of texts and   *)
(* requests, every address width and memory.                               *)
(*                                                                         *)
(* A step of the composition is a step of HostBridge, or none of its, and  *)
(* likewise for the core, so BridgeInv and LoopInv hold of it as they do   *)
(* of the parts.  ContentInv says what the blocks of the call in progress  *)
(* contain, and relates it to the text that was sent.                      *)
(***************************************************************************)
EXTENDS EndToEnd, HostBridge_proofs

CoreProof == INSTANCE FeatureFlagCore_proofs

(* The block holds the document, byte by byte. *)
Holds(content, block, document) ==
    \A p \in Addresses : Within(p, block) => content[p] = Byte(document, p - block.ptr + 1)

(* The block is the whole answer to the text sent. *)
HoldsVerdict(block) ==
    \E reply : /\ Answers(Parsed[sent], reply)
               /\ block.len = AnswerLength(reply)
               /\ Holds(bytes, block, reply)

ReceivedVerdict ==
    \E reply : /\ Answers(Parsed[sent], reply)
               /\ received = Encoding(reply, AnswerLength(reply))
               /\ AnswerLength(reply) \in Nat \ {0}

BeforeCopy == {"free_request", "check_result", "check_response", "malloc", "copy_response"}

(* The text sent is the request of the call, until it returns. *)
SentInv ==
    /\ sent \in Texts \cup {NoText}
    /\ pc \notin {"idle", "returned"} => sent \in Texts /\ TextLength[sent] = request.len
    /\ pc = "idle" => sent = NoText /\ received = <<>>

(* What was too long for wasm_alloc has been refused before it is copied. *)
FitsInv == pc \in {"copy_request", "evaluate"} => Freeable(request) \/ request.len = 0

ContentInv ==
    /\ DOMAIN bytes = Addresses
    /\ phase # "idle" => pc = "evaluate"
    /\ pc = "evaluate" /\ Freeable(request) => Holds(bytes, request, sent)
    /\ pc = "evaluate_result" => HoldsVerdict(returned)
    /\ pc \in BeforeCopy => HoldsVerdict(response)
    /\ pc = "free_response" => ReceivedVerdict
    /\ pc = "returned" /\ copy => ReceivedVerdict

SystemInv ==
    /\ BridgeInv
    /\ CoreProof!LoopInv
    /\ SentInv
    /\ FitsInv
    /\ ContentInv
    /\ RequestReachesCore

-----------------------------------------------------------------------------
(* The two instances of the core are one, and its definitions are those of  *)
(* FlagVerdict.                                                             *)
LEMMA SameHelpers ==
    /\ CoreProof!Inputs = Core!Inputs /\ Core!Inputs = Inputs
    /\ CoreProof!NoAnswer = Core!NoAnswer /\ Core!NoAnswer = NoAnswer
    /\ \A code : CoreProof!Error(code) = Core!Error(code)
    /\ \A rule : CoreProof!RuleError(rule) = Core!RuleError(rule)
    /\ \A seen, op, value : CoreProof!ApplyRule(seen, op, value) = Core!ApplyRule(seen, op, value)
  BY DEF CoreProof!Inputs, Core!Inputs, Inputs, CoreProof!NoAnswer, Core!NoAnswer, NoAnswer,
     CoreProof!Error, Core!Error, Error, CoreProof!RuleError, Core!RuleError,
     CoreProof!ApplyRule, Core!ApplyRule, CoreProof!IsBlank, Core!IsBlank,
     CoreProof!Operators, Core!Operators, CoreProof!ValuesEqual, Core!ValuesEqual

LEMMA SameStep == Core!Step <=> CoreProof!Step
<1> USE SameHelpers DEF Core!Finish, CoreProof!Finish, Core!Continue, CoreProof!Continue
<1>1. Core!Parse <=> CoreProof!Parse
  BY DEF Core!Parse, CoreProof!Parse
<1>2. Core!CheckHeader <=> CoreProof!CheckHeader
  BY DEF Core!CheckHeader, CoreProof!CheckHeader, Core!IsBlank, CoreProof!IsBlank
<1>3. Core!ValidateRule <=> CoreProof!ValidateRule
  BY DEF Core!ValidateRule, CoreProof!ValidateRule
<1>4. Core!AllRulesValid <=> CoreProof!AllRulesValid
  BY DEF Core!AllRulesValid, CoreProof!AllRulesValid
<1>5. Core!TryRule <=> CoreProof!TryRule
  BY Zenon DEF Core!TryRule, CoreProof!TryRule, Core!Success, CoreProof!Success
<1>6. Core!DefaultVariant <=> CoreProof!DefaultVariant
  BY DEF Core!DefaultVariant, CoreProof!DefaultVariant, Core!Success, CoreProof!Success,
     Core!NoIndex, CoreProof!NoIndex
<1>7. Core!Return <=> CoreProof!Return
  BY DEF Core!Return, CoreProof!Return
<1> QED
  BY <1>1, <1>2, <1>3, <1>4, <1>5, <1>6, <1>7 DEF Core!Step, CoreProof!Step

LEMMA SameTypeOK == Core!TypeOK <=> CoreProof!TypeOK
  BY SameHelpers DEF Core!TypeOK, CoreProof!TypeOK, Core!Phases, CoreProof!Phases, Core!Codes,
     CoreProof!Codes

LEMMA SameAnswers ==
    ASSUME NEW in, NEW reply
    PROVE  Answers(in, reply) <=> CoreProof!Answers(in, reply)
<1>1. Verdict(in, reply) <=> CoreProof!Verdict(in, reply)
  BY Zenon DEF Verdict, Headless, FirstRule, Faulty, Nameless, Operators, Decisive,
       Satisfied, Incomparable, Present, Error, Success, NoIndex,
       CoreProof!Verdict, CoreProof!Headless, CoreProof!FirstRule, CoreProof!Faulty,
       CoreProof!Nameless, CoreProof!Operators, CoreProof!Decisive, CoreProof!Satisfied,
       CoreProof!Incomparable, CoreProof!Present, CoreProof!Error, CoreProof!Success,
       CoreProof!NoIndex
<1> QED
  BY <1>1 DEF Answers, CoreProof!Answers, Error, CoreProof!Error

(* What the proof of the core shows of one step, here. *)
LEMMA CoreLoops == CoreProof!LoopInv /\ [CoreProof!Next]_coreVars => CoreProof!LoopInv'
<1>1. CoreProof!RequestsAssumption
  BY RequestsAssumption DEF CoreProof!RequestsAssumption, IsFeatureFlagRequest, FeatureRule,
     CoreProof!IsFeatureFlagRequest, CoreProof!FeatureRule
<1>2. CoreProof!ScalarsAssumption
  BY ScalarsAssumption DEF CoreProof!ScalarsAssumption
<1> QED
  BY <1>1, <1>2, CoreProof!LoopInductive DEF CoreProof!vars, coreVars

(* A core that is idle, with nothing of an earlier call, satisfies its      *)
(* invariant: at the start, and after a trap.                               *)
CoreIdle == phase = "idle" /\ input = Malformed /\ index = 1 /\ answer = NoAnswer

LEMMA IdleLoops == CoreIdle => CoreProof!LoopInv
  BY SameHelpers DEF CoreIdle, CoreProof!LoopInv, CoreProof!TypeOK, CoreProof!HeaderChecked,
     CoreProof!ValidatedSoFar, CoreProof!AllValidated, CoreProof!UndecidedSoFar,
     CoreProof!AnswerIsVerdict, CoreProof!Phases, CoreProof!Codes, Inputs, NoAnswer, Error

-----------------------------------------------------------------------------
(* Each step of the composition is one of each part, or none of it. *)
LEMMA StepsOfBridge == [SystemNext]_systemVars => [Next]_vars
<1> SUFFICES ASSUME [SystemNext]_systemVars PROVE [Next]_vars
  OBVIOUS
<1>1. CASE Allocate \/ WriteRequest \/ Respond \/ Trap \/ ReadOut \/ InBridge \/ GiveBack
  BY <1>1 DEF Allocate, WriteRequest, Respond, Trap, ReadOut, InBridge, GiveBack, Next, Step
<1>2. CASE Deallocate
  BY <1>2 DEF Deallocate, Next, Step
<1>3. CASE RunCore \/ UNCHANGED systemVars
  BY <1>3 DEF RunCore, systemVars
<1>4. CASE Send \/ SendNull \/ Reopen
  BY <1>4 DEF Send, SendNull, Reopen, Next
<1> QED
  BY <1>1, <1>2, <1>3, <1>4 DEF SystemNext, SystemStep

LEMMA StepsOfCore ==
    [SystemNext]_systemVars => [CoreProof!Next]_coreVars \/ CoreIdle'
<1> SUFFICES ASSUME [SystemNext]_systemVars PROVE [CoreProof!Next]_coreVars \/ CoreIdle'
  OBVIOUS
<1>1. CASE RunCore
  <2>1. ASSUME NEW in \in Inputs, Core!Call(in) PROVE CoreProof!Next
    BY <2>1, SameHelpers DEF Core!Call, CoreProof!Call, CoreProof!Next
  <2> QED
    BY <1>1, <2>1, SameStep DEF RunCore, CoreProof!Next
<1>2. CASE Respond
  BY <1>2, SameHelpers DEF Respond, Core!Return, CoreIdle
<1>3. CASE Trap
  BY <1>3 DEF Trap, CoreIdle
<1> QED
  BY <1>1, <1>2, <1>3 DEF SystemNext, SystemStep, Send, SendNull, Reopen, Allocate,
     WriteRequest, ReadOut, Deallocate, InBridge, GiveBack, systemVars

-----------------------------------------------------------------------------
(* The text stays the one that was sent, and fits where it was put. *)
LEMMA SentInductive ==
    ASSUME BridgeInv, SentInv, [SystemNext]_systemVars
    PROVE  SentInv'
<1> USE DEF SentInv, Goto
<1>0. request \in Blocks
  BY DEF BridgeInv, Typed, TypeOK
<1>1. CASE Send
  BY <1>1 DEF Send, Call
<1>2. CASE SendNull
  BY <1>2 DEF SendNull, CallWithNull, ReturnNull
<1>3. CASE Allocate
  BY <1>3 DEF Allocate, CallAlloc, ReturnNull, hostVars
<1>4. CASE WriteRequest \/ ReadOut
  BY <1>4 DEF WriteRequest, ReadOut, CopyRequest, CopyResponse, hostVars
<1>5. CASE RunCore \/ UNCHANGED systemVars
  BY <1>5 DEF RunCore, vars, systemVars
<1>6. CASE Respond \/ Trap
  BY <1>6 DEF Respond, Trap, CallEvaluate
<1>7. CASE Deallocate
  BY <1>7 DEF Deallocate, CallFree, AfterFree, ReturnNull, hostVars, FreeSites
<1>8. CASE InBridge
  <2>0. UNCHANGED <<sent, received>>
    BY <1>8 DEF InBridge
  <2>1. CASE ReadRequestPointer
    <3>1. request'.len = request.len
      BY <1>0, <2>1 DEF ReadRequestPointer, ReturnNull, Blocks
    <3> QED
      BY <2>0, <2>1, <3>1 DEF ReadRequestPointer, ReturnNull
  <2>2. CASE CheckRequest \/ CheckResponse \/ ReadResponse \/ MallocCopy
    BY <2>0, <2>2 DEF CheckRequest, CheckResponse, ReadResponse, MallocCopy
  <2>3. CASE CheckResult
    BY <2>0, <2>3 DEF CheckResult, ReturnNull, hostVars
  <2> QED
    BY <1>8, <2>1, <2>2, <2>3 DEF InBridge
<1>9. CASE GiveBack
  BY <1>9 DEF GiveBack, Release
<1>10. CASE Reopen
  BY <1>10 DEF Reopen, Recreate, hostVars
<1> QED
  BY <1>1, <1>2, <1>3, <1>4, <1>5, <1>6, <1>7, <1>8, <1>9, <1>10 DEF SystemNext, SystemStep

LEMMA FitsInductive ==
    ASSUME BridgeInv, FitsInv, [SystemNext]_systemVars
    PROVE  FitsInv'
<1> USE DEF FitsInv, Goto
<1>1. CASE Send \/ SendNull \/ Allocate \/ ReadOut \/ Respond \/ Trap \/ GiveBack \/ Reopen
  BY <1>1 DEF Send, SendNull, Allocate, ReadOut, Respond, Trap, GiveBack, Reopen, Call,
     CallWithNull, CallAlloc, CopyResponse, CallEvaluate, Release, Recreate, ReturnNull
<1>2. CASE WriteRequest
  BY <1>2 DEF WriteRequest, CopyRequest, hostVars, Freeable
<1>3. CASE RunCore \/ UNCHANGED systemVars
  BY <1>3 DEF RunCore, vars, systemVars, Freeable
<1>4. CASE Deallocate
  BY <1>4 DEF Deallocate, CallFree, AfterFree, ReturnNull, FreeSites
<1>5. CASE InBridge
  <2>1. CASE ReadRequestPointer \/ CheckResponse \/ ReadResponse \/ MallocCopy \/ CheckResult
    BY <2>1 DEF ReadRequestPointer, CheckResponse, ReadResponse, MallocCopy, CheckResult, ReturnNull
  <2>2. CASE CheckRequest
    <3> SUFFICES ASSUME pc' = "copy_request", ~Freeable(request) PROVE request.len = 0
      BY <2>2 DEF CheckRequest, Freeable
    <3>1. request.ptr = 0 /\ (request.len = 0 \/ request.len >= Half)
      BY <2>2 DEF CheckRequest, BridgeInv, CallInv, RequestServed, RequestHeld
    <3>2. request.len \in 0 .. Word - 1 /\ memorySize \in Nat /\ memorySize < Half
      BY WordFacts DEF BridgeInv, Typed, TypeOK
    <3>3. ~OutOfBounds(request, memorySize)
      BY <2>2 DEF CheckRequest
    <3>4. (request.ptr + request.len) % Word = request.len
      BY <3>1, <3>2, WordMod
    <3> QED
      BY <3>1, <3>2, <3>3, <3>4, WordFacts DEF OutOfBounds
  <2> QED
    BY <1>5, <2>1, <2>2 DEF InBridge
<1> QED
  BY <1>1, <1>2, <1>3, <1>4, <1>5 DEF SystemNext, SystemStep

-----------------------------------------------------------------------------
(* What the blocks hold. *)

(* Freeing one block leaves what the others hold alone. *)
LEMMA FreeingKeeps ==
    ASSUME Typed, HeapInv, heap' \subseteq heap, Scribble,
           NEW block \in heap, block \in heap', NEW document, Holds(bytes, block, document)
    PROVE  Holds(bytes', block, document)
<1> SUFFICES ASSUME NEW p \in Addresses, Within(p, block)
             PROVE  bytes'[p] = Byte(document, p - block.ptr + 1)
  BY DEF Holds
<1>1. p \in Int
  BY WordFacts DEF Addresses
<1>2. ASSUME NEW other \in (heap \ heap') \cup (heap' \ heap) PROVE ~Within(p, other)
  <2>1. other \in heap /\ other # block
    BY <1>2
  <2>2. Disjoint(other, block)
    BY <2>1 DEF HeapInv, HeapDisjoint
  <2>3. /\ other.ptr \in Nat /\ other.len \in Nat
        /\ block.ptr \in Nat /\ block.len \in Nat
    BY <2>1 DEF Typed, TypeOK, Blocks
  <2> QED
    BY <1>1, <2>2, <2>3 DEF Disjoint, Within
<1>3. bytes'[p] = bytes[p]
  BY <1>2 DEF Scribble
<1> QED
  BY <1>3 DEF Holds

LEMMA StoreHolds ==
    ASSUME NEW block, NEW document, Store(block, document)
    PROVE  Holds(bytes', block, document) /\ DOMAIN bytes' = Addresses
  BY DEF Store, Holds

(* Reading a live block gives what it holds. *)
LEMMA ContentsOf ==
    ASSUME Typed, HeapInv, NEW block \in heap, NEW document, Holds(bytes, block, document)
    PROVE  Contents(block) = Encoding(document, block.len)
<1>1. /\ block.ptr \in Nat /\ block.len \in Nat /\ block.ptr >= 1
      /\ block.ptr + block.len <= memorySize
  BY DEF Typed, TypeOK, Blocks, HeapInv, HeapInMemory
<1>2. memorySize \in Nat /\ memorySize < Half
  BY WordFacts DEF Typed, TypeOK
<1>3. ASSUME NEW i \in 1 .. block.len
      PROVE  bytes[block.ptr + i - 1] = Byte(document, i)
  <2>1. block.ptr + i - 1 \in Addresses /\ Within(block.ptr + i - 1, block)
    BY <1>1, <1>2, WordFacts DEF Addresses, Within
  <2>2. (block.ptr + i - 1) - block.ptr + 1 = i
    BY <1>1
  <2> QED
    BY <2>1, <2>2 DEF Holds
<1> QED
  BY <1>3 DEF Contents, Encoding

(* The core is called with what the copied bytes parse to: those of the     *)
(* text, or none where there was no block to copy them to.                  *)
LEMMA ReadsText ==
    ASSUME BridgeInv, SentInv, FitsInv, ContentInv, pc = "evaluate",
           NEW in, Reads(in)
    PROVE  in = Parsed[sent]
<1>1. sent \in Texts /\ TextLength[sent] = request.len
  BY DEF SentInv
<1>2. CASE Freeable(request)
  <2>1. request \in heap
    BY <1>2 DEF BridgeInv, OwnedInv, Owned, Held, RequestHeld
  <2>2. request.ptr >= 1 /\ request.len < Half /\ request.len \in Nat
    BY <2>1, WordFacts DEF BridgeInv, Typed, TypeOK, Blocks, HeapInv, HeapInMemory
  <2>3. ~(Signed(request.len) < 0) /\ request.ptr # 0
    BY <2>2, WordFacts DEF Signed
  <2>4. Contents(request) = Encoding(sent, TextLength[sent])
    BY <1>1, <1>2, <2>1, ContentsOf DEF BridgeInv, ContentInv
  <2> QED
    BY <1>1, <2>3, <2>4 DEF Reads
<1>3. CASE ~Freeable(request)
  <2>1. request.ptr = 0 /\ request.len = 0
    BY <1>3 DEF BridgeInv, CallInv, RequestServed, RequestHeld, FitsInv
  <2> QED
    BY <1>1, <2>1, TextsAssumption DEF Reads
<1> QED
  BY <1>2, <1>3

LEMMA ReachesInductive ==
    ASSUME SystemInv, [SystemNext]_systemVars
    PROVE  RequestReachesCore'
<1> USE DEF RequestReachesCore
<1>0. /\ RequestReachesCore /\ BridgeInv /\ SentInv /\ FitsInv /\ ContentInv
      /\ phase # "idle" => pc = "evaluate"
  BY DEF SystemInv, ContentInv
<1>1. CASE RunCore
  <2>0. UNCHANGED sent /\ pc = "evaluate"
    BY <1>1 DEF RunCore
  <2>1. ASSUME NEW in \in Inputs, Reads(in), Core!Call(in) PROVE RequestReachesCore'
    BY <1>0, <2>0, <2>1, ReadsText DEF Core!Call
  <2>2. CASE Core!Step
    <3>1. phase # "idle" /\ (UNCHANGED input \/ phase' = "idle")
      BY <2>2 DEF Core!Step, Core!Parse, Core!CheckHeader, Core!ValidateRule, Core!AllRulesValid,
         Core!TryRule, Core!DefaultVariant, Core!Return, Core!Finish, Core!Continue
    <3> QED
      BY <1>0, <2>0, <3>1
  <2> QED
    BY <1>1, <2>1, <2>2 DEF RunCore
<1>2. CASE Respond \/ Trap
  BY <1>2 DEF Respond, Trap, Core!Return
<1>3. CASE WriteRequest \/ ReadOut \/ Deallocate \/ InBridge \/ Reopen \/ Allocate \/ SendNull
           \/ UNCHANGED systemVars
  BY <1>0, <1>3 DEF WriteRequest, ReadOut, Deallocate, InBridge, Reopen, Allocate, SendNull,
     coreVars, systemVars
<1>4. CASE Send \/ GiveBack
  BY <1>0, <1>4 DEF Send, GiveBack, Call, Release, coreVars
<1> QED
  BY <1>1, <1>2, <1>3, <1>4 DEF SystemNext, SystemStep

(* The answer is the verdict of the text, and is stored, found again behind *)
(* the freed request, and copied out whole.                                 *)
LEMMA ContentInductive ==
    ASSUME SystemInv, [SystemNext]_systemVars
    PROVE  ContentInv'
<1> USE DEF Goto, BeforeCopy
<1>0. /\ ContentInv /\ Typed /\ HeapInv /\ OwnedInv /\ CallInv /\ Reporting /\ SentInv
      /\ DOMAIN bytes = Addresses
      /\ phase # "idle" => pc = "evaluate"
  BY DEF SystemInv, ContentInv, BridgeInv
<1>1. CASE Send
  BY <1>0, <1>1 DEF Send, Call, ContentInv, coreVars
<1>2. CASE SendNull
  <2>1. pc = "idle" /\ pc' = "returned" /\ UNCHANGED <<phase, bytes, copy>>
    BY <1>2 DEF SendNull, CallWithNull, ReturnNull, coreVars
  <2> QED
    BY <1>0, <2>1 DEF ContentInv, Reporting
<1>3. CASE Allocate
  <2>1. /\ pc = "alloc" /\ pc' \in {"alloc_result", "returned"}
        /\ UNCHANGED <<phase, copy>> /\ DOMAIN bytes' = Addresses
    BY <1>3 DEF Allocate, Scribble, CallAlloc, ReturnNull, hostVars, coreVars
  <2> QED
    BY <1>0, <2>1 DEF ContentInv, Reporting
<1>4. CASE WriteRequest
  <2>1. /\ pc = "copy_request" /\ pc' = "evaluate" /\ memory = memorySize
        /\ UNCHANGED <<phase, sent, request>>
    BY <1>0, <1>4 DEF WriteRequest, CopyRequest, hostVars, coreVars, CallInv, PointersFresh
  <2>2. Holds(bytes', request, sent) /\ DOMAIN bytes' = Addresses
    BY <1>4, <2>1, StoreHolds DEF WriteRequest
  <2> QED
    BY <1>0, <2>1, <2>2 DEF ContentInv
<1>5. CASE RunCore
  BY <1>0, <1>5 DEF RunCore, vars, ContentInv, Freeable
<1>6. CASE Respond
  <2>1. /\ pc = "evaluate" /\ pc' = "evaluate_result" /\ phase' = "idle" /\ UNCHANGED sent
        /\ phase = "answered"
    BY <1>0, <1>6 DEF Respond, CallEvaluate, Core!Return
  <2>2. CoreProof!Answers(input, answer) /\ input = Parsed[sent]
    BY <2>1 DEF SystemInv, CoreProof!LoopInv, CoreProof!AnswerIsVerdict, RequestReachesCore
  <2>3. Answers(Parsed[sent], answer)
    BY <2>2, SameAnswers
  <2>4. Holds(bytes', returned', answer) /\ DOMAIN bytes' = Addresses
    BY <1>6, StoreHolds DEF Respond
  <2>5. HoldsVerdict(returned)'
    BY <1>6, <2>1, <2>3, <2>4 DEF HoldsVerdict, Respond
  <2> QED
    BY <2>1, <2>4, <2>5 DEF ContentInv
<1>7. CASE Trap
  <2>1. pc' = "abandon_request" /\ phase' = "idle" /\ DOMAIN bytes' = Addresses
    BY <1>0, <1>7 DEF Trap, CallEvaluate, Scribble, Reporting
  <2> QED
    BY <2>1 DEF ContentInv
<1>8. CASE ReadOut
  <2>1. /\ pc = "copy_response" /\ pc' = "free_response" /\ memory = memorySize
        /\ UNCHANGED <<phase, sent, bytes>> /\ received' = Contents(response)
    BY <1>0, <1>8 DEF ReadOut, CopyResponse, coreVars, CallInv, PointersFresh
  <2>2. response \in heap
    BY <1>0, <2>1 DEF CallInv, ResponsePresent, OwnedInv, Owned, Held, ResponseHeld
  <2>3. response.len \in Nat \ {0}
    BY <1>0, <2>2 DEF Typed, TypeOK, Blocks, HeapInv, HeapInMemory
  <2>4. PICK reply : /\ Answers(Parsed[sent], reply) /\ response.len = AnswerLength(reply)
                     /\ Holds(bytes, response, reply)
    BY <1>0, <2>1 DEF ContentInv, HoldsVerdict
  <2>5. received' = Encoding(reply, AnswerLength(reply))
    BY <1>0, <2>1, <2>2, <2>4, ContentsOf
  <2>6. ReceivedVerdict'
    BY <2>1, <2>3, <2>4, <2>5 DEF ReceivedVerdict
  <2> QED
    BY <1>0, <2>1, <2>6 DEF ContentInv
<1>9. CASE Deallocate
  <2>1. PICK site \in FreeSites : CallFree(site)
    BY <1>9 DEF Deallocate
  <2>2. UNCHANGED <<phase, sent, received>> /\ DOMAIN bytes' = Addresses /\ Scribble
    BY <1>9 DEF Deallocate, Scribble, coreVars
  <2>3. pc = site /\ AfterFree(site) /\ phase = "idle"
    BY <1>0, <2>1 DEF CallFree, FreeSites
  <2>4. CASE site \in {"abandon_request", "abandon_response"}
    <3>1. pc' = "returned" /\ copy' = FALSE
      BY <1>0, <2>3, <2>4 DEF AfterFree, ReturnNull, Reporting
    <3> QED
      BY <2>2, <2>3, <3>1 DEF ContentInv
  <2>5. CASE site = "free_response"
    <3>1. pc' = "returned" /\ ReceivedVerdict
      BY <1>0, <2>3, <2>5 DEF AfterFree, ContentInv
    <3>2. ReceivedVerdict'
      BY <2>2, <3>1 DEF ReceivedVerdict
    <3> QED
      BY <2>2, <2>3, <3>1, <3>2 DEF ContentInv
  <2>6. CASE site = "free_request"
    <3>1. /\ pc = "free_request" /\ pc' = "check_result" /\ UNCHANGED response
          /\ request # response
      BY <1>0, <2>3, <2>6 DEF AfterFree, hostVars, CallInv, ResponsePresent
    <3>2. response \in heap
      BY <1>0, <3>1 DEF CallInv, ResponsePresent, OwnedInv, Owned, Held, ResponseHeld
    <3>3. heap' \subseteq heap /\ response \in heap'
      BY <2>1, <2>6, <3>1, <3>2 DEF CallFree, FreeReturns, FreeTraps, Target, guestVars
    <3>4. PICK reply : /\ Answers(Parsed[sent], reply) /\ response.len = AnswerLength(reply)
                       /\ Holds(bytes, response, reply)
      BY <1>0, <3>1 DEF ContentInv, HoldsVerdict
    <3>5. Holds(bytes', response, reply)
      BY <1>0, <2>2, <3>2, <3>3, <3>4, FreeingKeeps
    <3>6. HoldsVerdict(response)'
      BY <2>2, <3>1, <3>4, <3>5 DEF HoldsVerdict
    <3> QED
      BY <2>2, <2>3, <3>1, <3>6 DEF ContentInv
  <2> QED
    BY <2>4, <2>5, <2>6 DEF FreeSites
<1>10. CASE InBridge
  <2>0. UNCHANGED <<phase, bytes, sent, received>>
    BY <1>10 DEF InBridge, coreVars
  <2>1. CASE ReadRequestPointer
    <3>1. pc = "alloc_result" /\ pc' \in {"check_request", "returned"} /\ UNCHANGED copy
      BY <2>1 DEF ReadRequestPointer, ReturnNull
    <3> QED
      BY <1>0, <2>0, <3>1 DEF ContentInv, Reporting
  <2>2. CASE CheckRequest
    <3>1. pc = "check_request" /\ pc' \in {"abandon_request", "copy_request"}
      BY <2>2 DEF CheckRequest
    <3> QED
      BY <1>0, <2>0, <3>1 DEF ContentInv
  <2>3. CASE ReadResponse
    <3>1. pc = "evaluate_result" /\ pc' = "free_request" /\ response' = returned
      BY <1>0, <2>3 DEF ReadResponse, CallInv, ResultsFresh
    <3>2. HoldsVerdict(response)'
      BY <1>0, <2>0, <3>1 DEF ContentInv, HoldsVerdict
    <3> QED
      BY <1>0, <2>0, <3>1, <3>2 DEF ContentInv
  <2>4. CASE CheckResult \/ CheckResponse \/ MallocCopy
    <3>1. /\ pc \in {"check_result", "check_response", "malloc"} /\ UNCHANGED response
          /\ pc' \in {"check_response", "malloc", "copy_response", "abandon_response"}
      BY <1>0, <2>4 DEF CheckResult, CheckResponse, MallocCopy, hostVars, Reporting
    <3>2. HoldsVerdict(response)'
      BY <1>0, <2>0, <3>1 DEF ContentInv, HoldsVerdict
    <3> QED
      BY <1>0, <2>0, <3>1, <3>2 DEF ContentInv
  <2> QED
    BY <1>10, <2>1, <2>2, <2>3, <2>4 DEF InBridge
<1>11. CASE GiveBack
  BY <1>0, <1>11 DEF GiveBack, Release, ContentInv, coreVars
<1>12. CASE Reopen
  BY <1>0, <1>12 DEF Reopen, Recreate, ContentInv, coreVars
<1>13. CASE UNCHANGED systemVars
  BY <1>0, <1>13 DEF systemVars, vars, coreVars, ContentInv, HoldsVerdict, ReceivedVerdict, Freeable
<1> QED
  BY <1>1, <1>2, <1>3, <1>4, <1>5, <1>6, <1>7, <1>8, <1>9, <1>10, <1>11, <1>12, <1>13
     DEF SystemNext, SystemStep

LEMMA SystemInitial == SystemInit => SystemInv
<1> SUFFICES ASSUME SystemInit PROVE SystemInv
  OBVIOUS
<1>1. Init /\ CoreIdle
  BY SameHelpers DEF SystemInit, Core!Init, CoreIdle
<1>2. pc = "idle" /\ phase = "idle" /\ ~copy
  BY <1>1 DEF Init, CoreIdle
<1>3. SentInv /\ FitsInv /\ ContentInv
  BY <1>2 DEF SystemInit, SentInv, FitsInv, ContentInv, BeforeCopy
<1> QED
  BY <1>1, <1>2, <1>3, InitBridge, IdleLoops DEF SystemInv, RequestReachesCore

LEMMA SystemInductive == SystemInv /\ [SystemNext]_systemVars => SystemInv'
<1> SUFFICES ASSUME SystemInv, [SystemNext]_systemVars PROVE SystemInv'
  OBVIOUS
<1>1. BridgeInv'
  BY StepsOfBridge, BridgeInductive DEF SystemInv
<1>2. CoreProof!LoopInv'
  <2>1. CASE [CoreProof!Next]_coreVars
    BY <2>1, CoreLoops DEF SystemInv
  <2>2. CASE CoreIdle'
    <3>1. CoreIdle' => CoreProof!LoopInv'
      BY IdleLoops, PTL
    <3> QED
      BY <2>2, <3>1
  <2> QED
    BY <2>1, <2>2, StepsOfCore
<1> QED
  BY <1>1, <1>2, SentInductive, FitsInductive, ContentInductive, ReachesInductive DEF SystemInv

(* The parts keep their invariants when they are put together, and the      *)
(* blocks hold what the call in progress put there.                         *)
THEOREM SystemInvariant == SystemSpec => []SystemInv
  BY SystemInitial, SystemInductive, PTL DEF SystemSpec

-----------------------------------------------------------------------------
(* What it is for. *)

(* The variables of the composition keep their types, and nothing of a call *)
(* is kept behind it.                                                       *)
THEOREM SystemTypeCorrect == SystemSpec => []SystemTypeOK
<1>1. SystemInv => SystemTypeOK
  BY SameTypeOK DEF SystemInv, SystemTypeOK, BridgeInv, Typed, CoreProof!LoopInv, ContentInv,
     SentInv
<1> QED
  BY <1>1, SystemInvariant, PTL

(* The core evaluates exactly the text the host passed to the bridge, for   *)
(* every text, memory and history of calls and failures.                    *)
THEOREM RequestIntact == SystemSpec => []RequestReachesCore
<1>1. SystemInv => RequestReachesCore
  BY DEF SystemInv
<1> QED
  BY <1>1, SystemInvariant, PTL

(* The bytes wm_engine_evaluate returns are the whole verdict of the text   *)
(* it was given, whatever memory moved, was freed or was lost before.       *)
THEOREM ResponseSound == SystemSpec => []ResponseIsVerdict
<1>1. SystemInv => ResponseIsVerdict
  <2> SUFFICES ASSUME SystemInv, pc = "returned", copy
               PROVE  \E reply \in {received[i].of : i \in DOMAIN received} :
                        /\ Answers(Parsed[sent], reply)
                        /\ received = Encoding(reply, AnswerLength(reply))
    BY DEF ResponseIsVerdict
  <2>1. PICK reply : /\ Answers(Parsed[sent], reply)
                     /\ received = Encoding(reply, AnswerLength(reply))
                     /\ AnswerLength(reply) \in Nat \ {0}
    BY DEF SystemInv, ContentInv, ReceivedVerdict
  <2>2. 1 \in DOMAIN received /\ received[1].of = reply
    BY <2>1 DEF Encoding, Byte
  <2> QED
    BY <2>1, <2>2
<1> QED
  BY <1>1, SystemInvariant, PTL

(* Bridge, guest and core together implement FlagCall: each of their steps  *)
(* maps to one of its steps or a stutter.                                   *)
THEOREM CallImplemented == SystemSpec => ImplementsFlagCall
<1>0. /\ Service!NoAnswer = NoAnswer /\ Service!Refused = Error("refused")
      /\ \A in, reply : Answers(in, reply) => Service!Answers(in, reply)
  <2>1. Service!NoAnswer = NoAnswer /\ Service!Refused = Error("refused")
    BY DEF Service!NoAnswer, NoAnswer, Service!Error, Error, Service!Refused
  <2>2. ASSUME NEW in, NEW reply PROVE Verdict(in, reply) => Service!Verdict(in, reply)
    BY Zenon DEF Verdict, Headless, FirstRule, Faulty, Nameless, Operators, Decisive,
         Satisfied, Incomparable, Present, Error, Success, NoIndex,
         Service!Verdict, Service!Headless, Service!FirstRule, Service!Faulty,
         Service!Nameless, Service!Operators, Service!Decisive, Service!Satisfied,
         Service!Incomparable, Service!Present, Service!Error, Service!Success,
         Service!NoIndex
  <2> QED
    BY <2>1, <2>2 DEF Answers, Service!Answers, Error, Service!Error
<1>1. SystemInit => Service!Init
  BY <1>0 DEF SystemInit, Init, Service!Init, Outcome
<1>2. ASSUME SystemInv, SystemInv', [SystemNext]_systemVars
      PROVE  [Service!Next]_(Service!callVars)
  <2> USE <1>2 DEF Service!callVars, Service!Next, Goto
  <2>0. SentInv /\ SentInv' /\ Reporting /\ Reporting'
    BY DEF SystemInv, BridgeInv
  <2>1. ASSUME pc \notin {"idle", "returned"}, pc' \notin {"idle", "returned"}, UNCHANGED sent
        PROVE  UNCHANGED Service!callVars
    BY <2>1 DEF Outcome
  <2>2. ASSUME pc # "returned", pc' = "returned", ~copy', UNCHANGED sent
        PROVE  Service!Refuse
    BY <1>0, <2>2 DEF Service!Refuse, Outcome
  <2>3. CASE Send
    BY <1>0, <2>0, <2>3 DEF Send, Call, Service!Ask, Outcome, SentInv
  <2>4. CASE SendNull
    BY <2>0, <2>2, <2>4 DEF SendNull, CallWithNull, ReturnNull, Reporting
  <2>5. CASE Allocate
    <3>1. UNCHANGED sent /\ CallAlloc /\ pc = "alloc" /\ copy' = copy
      BY <2>5 DEF Allocate, CallAlloc, ReturnNull, hostVars
    <3>2. pc' \in {"alloc_result", "returned"}
      BY <3>1 DEF CallAlloc, ReturnNull
    <3>3. pc' = "returned" => ~copy'
      BY <2>0, <3>1 DEF Reporting
    <3> QED
      BY <2>1, <2>2, <3>1, <3>2, <3>3
  <2>6. CASE WriteRequest \/ Respond \/ Trap \/ ReadOut
    BY <2>1, <2>6 DEF WriteRequest, Respond, Trap, ReadOut, CopyRequest, CallEvaluate,
       CopyResponse
  <2>7. CASE RunCore
    BY <2>1, <2>7 DEF RunCore, vars
  <2>8. CASE InBridge
    <3>1. UNCHANGED sent
      BY <2>8 DEF InBridge
    <3>2. CASE ReadRequestPointer
      BY <2>0, <2>1, <2>2, <3>1, <3>2 DEF ReadRequestPointer, ReturnNull, Reporting
    <3>3. CASE CheckRequest \/ ReadResponse \/ CheckResponse \/ MallocCopy
      BY <2>1, <3>1, <3>3 DEF CheckRequest, ReadResponse, CheckResponse, MallocCopy
    <3>4. CASE CheckResult
      BY <2>0, <2>1, <2>2, <3>1, <3>4 DEF CheckResult, ReturnNull, hostVars, Reporting
    <3> QED
      BY <2>8, <3>2, <3>3, <3>4 DEF InBridge
  <2>9. CASE Deallocate
    <3>1. PICK site \in FreeSites : CallFree(site)
      BY <2>9 DEF Deallocate
    <3>2. UNCHANGED <<sent, received>> /\ pc = site /\ AfterFree(site)
      BY <2>9, <3>1 DEF Deallocate, CallFree
    <3>3. CASE site = "free_request"
      BY <2>1, <3>2, <3>3 DEF AfterFree
    <3>4. CASE site \in {"abandon_request", "abandon_response"}
      BY <2>0, <2>2, <3>2, <3>4 DEF AfterFree, ReturnNull, Reporting
    <3>5. CASE site = "free_response"
      <4>1. pc' = "returned" /\ copy'
        BY <2>0, <3>2, <3>5 DEF AfterFree, Reporting, hostVars
      <4>2. PICK reply : /\ Answers(Parsed[sent], reply)
                         /\ received = Encoding(reply, AnswerLength(reply))
                         /\ AnswerLength(reply) \in Nat \ {0}
        BY <3>2, <3>5 DEF SystemInv, ContentInv, ReceivedVerdict
      <4>3. DOMAIN received = 1 .. AnswerLength(reply) /\ 1 \in DOMAIN received
        BY <4>2 DEF Encoding
      <4>4. /\ received[1].of = reply /\ received # <<>>
            /\ \A i \in DOMAIN received : received[i] = Byte(received[1].of, i)
        BY <4>2, <4>3 DEF Encoding, Byte
      <4>5. Outcome' = reply
        BY <3>2, <4>1, <4>4 DEF Outcome
      <4> QED
        BY <1>0, <3>2, <3>5, <4>1, <4>2, <4>5 DEF Service!Reply
    <3> QED
      BY <3>3, <3>4, <3>5 DEF FreeSites
  <2>10. CASE GiveBack
    BY <1>0, <2>10 DEF GiveBack, Release, Service!Return, Outcome
  <2>11. CASE Reopen
    BY <2>11 DEF Reopen, Recreate, hostVars, Outcome
  <2>12. CASE UNCHANGED systemVars
    BY <2>12 DEF systemVars, vars, Outcome
  <2> QED
    BY <2>3, <2>4, <2>5, <2>6, <2>7, <2>8, <2>9, <2>10, <2>11, <2>12 DEF SystemNext, SystemStep
<1> QED
  BY <1>1, <1>2, SystemInvariant, PTL DEF SystemSpec, ImplementsFlagCall, Service!Spec

-----------------------------------------------------------------------------
(* How long a call takes. *)

(* What the proof of the core shows of its measure, here. *)
LEMMA CoreMeasured ==
    /\ CoreProof!TypeOK => Core!StepsLeft \in Nat
    /\ CoreProof!TypeOK /\ CoreProof!TypeOK' /\ Core!Step => Core!StepsLeft' \in 0 .. Core!StepsLeft - 1
    /\ \A in : Core!RuleCount(in) = CoreProof!RuleCount(in)
    /\ \A in \in Inputs : Core!RuleCount(in) \in Nat
<1>1. CoreProof!RequestsAssumption
  BY RequestsAssumption DEF CoreProof!RequestsAssumption, IsFeatureFlagRequest, FeatureRule,
     CoreProof!IsFeatureFlagRequest, CoreProof!FeatureRule
<1>2. CoreProof!ScalarsAssumption
  BY ScalarsAssumption DEF CoreProof!ScalarsAssumption
<1>3. \A in : Core!RuleCount(in) = CoreProof!RuleCount(in)
  BY DEF Core!RuleCount, CoreProof!RuleCount
<1>4. Core!StepsLeft = CoreProof!StepsLeft /\ Core!StepsLeft' = CoreProof!StepsLeft'
  BY DEF Core!StepsLeft, CoreProof!StepsLeft, Core!RuleCount, CoreProof!RuleCount
<1>5. CoreProof!TypeOK => Core!StepsLeft \in Nat
  BY <1>1, <1>2, <1>4, CoreProof!TypeMeasured DEF CoreProof!Measured
<1>6. CoreProof!TypeOK /\ CoreProof!TypeOK' /\ Core!Step => Core!StepsLeft' \in 0 .. Core!StepsLeft - 1
  BY <1>1, <1>2, <1>4, SameStep, CoreProof!StepComesCloser
<1>7. \A in \in Inputs : Core!RuleCount(in) \in Nat
  BY RequestsAssumption DEF Core!RuleCount, Inputs, IsFeatureFlagRequest
<1> QED
  BY <1>3, <1>5, <1>6, <1>7

(* The measure of a call, at each of its places. *)
LEMMA HostSteps ==
    /\ HostStepsLeft["idle"] = 0 /\ HostStepsLeft["returned"] = 1
    /\ HostStepsLeft["abandon_request"] = 2 /\ HostStepsLeft["abandon_response"] = 2
    /\ HostStepsLeft["free_response"] = 2 /\ HostStepsLeft["copy_response"] = 3
    /\ HostStepsLeft["malloc"] = 4 /\ HostStepsLeft["check_response"] = 5
    /\ HostStepsLeft["check_result"] = 6 /\ HostStepsLeft["free_request"] = 7
    /\ HostStepsLeft["evaluate_result"] = 8 /\ HostStepsLeft["evaluate"] = 9
    /\ HostStepsLeft["copy_request"] = 10 /\ HostStepsLeft["check_request"] = 11
    /\ HostStepsLeft["alloc_result"] = 12 /\ HostStepsLeft["alloc"] = 13
  BY DEF HostStepsLeft

CallMeasured ==
    LET n == Core!RuleCount(Parsed[sent]) IN
    /\ pc \in Locations
    /\ phase # "idle" => pc = "evaluate" /\ CallStepsLeft = 9 + Core!StepsLeft
    /\ phase # "idle" => Core!StepsLeft \in Nat
    /\ pc \in BeforeCore => n \in Nat
    /\ phase = "idle" /\ pc \in BeforeCore => CallStepsLeft = HostStepsLeft[pc] + (2 * n + 6)
    /\ phase = "idle" /\ pc \notin BeforeCore => CallStepsLeft = HostStepsLeft[pc]
    /\ CallStepsLeft \in Nat

LEMMA SystemMeasured == SystemInv => CallMeasured
<1> SUFFICES ASSUME SystemInv PROVE CallMeasured
  OBVIOUS
<1> DEFINE n == Core!RuleCount(Parsed[sent])
<1>1. pc \in Locations
  BY DEF SystemInv, BridgeInv, Typed, TypeOK
<1>2. phase # "idle" => pc = "evaluate"
  BY DEF SystemInv, ContentInv
<1>3. Core!StepsLeft \in Nat
  BY CoreMeasured DEF SystemInv, CoreProof!LoopInv
<1>4. pc \in BeforeCore => n \in Nat
  <2>1. pc \in BeforeCore => sent \in Texts
    BY DEF SystemInv, SentInv, BeforeCore
  <2> QED
    BY <2>1, CoreMeasured, TextsAssumption
<1>5. HostStepsLeft[pc] \in Nat
  BY <1>1, HostSteps DEF Locations, FreeSites
<1> HIDE DEF n
<1>6. /\ phase # "idle" => CallStepsLeft = 9 + Core!StepsLeft
      /\ phase = "idle" /\ pc \in BeforeCore => CallStepsLeft = HostStepsLeft[pc] + (2 * n + 6)
      /\ phase = "idle" /\ pc \notin BeforeCore => CallStepsLeft = HostStepsLeft[pc]
  BY <1>2, <1>5, HostSteps DEF CallStepsLeft, n
<1>7. CallStepsLeft \in Nat
  BY <1>3, <1>4, <1>5, <1>6
<1> QED
  BY <1>1, <1>2, <1>3, <1>4, <1>6, <1>7 DEF CallMeasured, n

(* No step of a call goes back, in the host or in the guest. *)
LEMMA CallStepComesCloser ==
    ASSUME SystemInv, SystemInv', SystemStep
    PROVE  CallStepsLeft' \in 0 .. CallStepsLeft - 1
<1> USE DEF Goto
<1>0. CallMeasured /\ CallMeasured'
  <2>1. CallMeasured'
    BY SystemMeasured, PTL
  <2> QED
    BY <2>1, SystemMeasured
<1>1. /\ phase # "idle" => pc = "evaluate"
      /\ phase' # "idle" => pc' = "evaluate"
  BY <1>0 DEF CallMeasured
<1>2. ASSUME phase' = "idle", pc' \notin BeforeCore, HostStepsLeft[pc'] < HostStepsLeft[pc],
             HostStepsLeft[pc'] \in Nat, HostStepsLeft[pc] \in Nat
      PROVE  CallStepsLeft' \in 0 .. CallStepsLeft - 1
  <2>1. CallStepsLeft' = HostStepsLeft[pc'] /\ CallStepsLeft' \in Nat /\ CallStepsLeft \in Nat
    BY <1>0, <1>2 DEF CallMeasured
  <2>2. CallStepsLeft >= HostStepsLeft[pc]
    BY <1>0, <1>2, HostSteps DEF CallMeasured
  <2> QED
    BY <1>2, <2>1, <2>2
<1>3. ASSUME phase = "idle", phase' = "idle", sent' = sent, pc \in BeforeCore, pc' \in BeforeCore,
             HostStepsLeft[pc'] < HostStepsLeft[pc],
             HostStepsLeft[pc'] \in Nat, HostStepsLeft[pc] \in Nat
      PROVE  CallStepsLeft' \in 0 .. CallStepsLeft - 1
  <2> DEFINE n == Core!RuleCount(Parsed[sent])
  <2>1. n \in Nat /\ CallStepsLeft = HostStepsLeft[pc] + (2 * n + 6)
    BY <1>0, <1>3 DEF CallMeasured
  <2>2. CallStepsLeft' = HostStepsLeft[pc'] + (2 * n + 6)
    BY <1>0, <1>3 DEF CallMeasured
  <2> HIDE DEF n
  <2> QED
    BY <1>3, <2>1, <2>2
<1>4. CASE Allocate
  <2>1. /\ pc = "alloc" /\ phase = "idle" /\ phase' = "idle" /\ sent' = sent
        /\ pc' \in {"alloc_result", "returned"}
    BY <1>1, <1>4 DEF Allocate, CallAlloc, ReturnNull, coreVars
  <2> QED
    BY <1>2, <1>3, <2>1, HostSteps DEF BeforeCore
<1>5. CASE WriteRequest
  <2>1. /\ pc = "copy_request" /\ phase = "idle" /\ phase' = "idle" /\ sent' = sent
        /\ pc' = "evaluate"
    BY <1>1, <1>5 DEF WriteRequest, CopyRequest, coreVars
  <2> QED
    BY <1>3, <2>1, HostSteps DEF BeforeCore
<1>6. CASE RunCore
  <2>1. pc = "evaluate" /\ pc' = "evaluate" /\ sent' = sent
    BY <1>6 DEF RunCore, vars
  <2>2. ASSUME NEW in \in Inputs, Core!Call(in) PROVE CallStepsLeft' \in 0 .. CallStepsLeft - 1
    <3> DEFINE n == Core!RuleCount(Parsed[sent])
    <3>1. phase = "idle" /\ phase' = "parse"
      BY <2>2 DEF Core!Call
    <3>2. input' = Parsed[sent]
      BY <2>1, <3>1 DEF SystemInv, RequestReachesCore
    <3>3. n \in Nat /\ CallStepsLeft = 9 + (2 * n + 6)
      BY <1>0, <2>1, <3>1, HostSteps DEF CallMeasured, BeforeCore
    <3>4. CallStepsLeft' = 9 + (2 * n + 5)
      <4>1. Core!StepsLeft' = 2 * n + 5
        BY <3>1, <3>2 DEF Core!StepsLeft
      <4>2. CallStepsLeft' = 9 + Core!StepsLeft'
        BY <1>0, <3>1 DEF CallMeasured
      <4> QED
        BY <4>1, <4>2
    <3> HIDE DEF n
    <3> QED
      BY <3>3, <3>4
  <2>3. ASSUME phase # "answered", Core!Step PROVE CallStepsLeft' \in 0 .. CallStepsLeft - 1
    <3>1. phase # "idle" /\ phase' # "idle"
      BY <2>3 DEF Core!Step, Core!Parse, Core!CheckHeader, Core!ValidateRule, Core!AllRulesValid,
         Core!TryRule, Core!DefaultVariant, Core!Return, Core!Finish, Core!Continue
    <3>2. Core!StepsLeft' \in 0 .. Core!StepsLeft - 1
      BY <2>3, CoreMeasured DEF SystemInv, CoreProof!LoopInv
    <3>3. /\ CallStepsLeft = 9 + Core!StepsLeft /\ Core!StepsLeft \in Nat
          /\ CallStepsLeft' = 9 + Core!StepsLeft'
      BY <1>0, <3>1 DEF CallMeasured
    <3>4. \A x \in Nat : \A y \in 0 .. x - 1 : 9 + y \in 0 .. (9 + x) - 1
      OBVIOUS
    <3> QED
      BY <3>2, <3>3, <3>4, Zenon
  <2> QED
    BY <1>6, <2>2, <2>3 DEF RunCore
<1>7. CASE Respond \/ Trap
  <2>1. pc = "evaluate" /\ phase' = "idle" /\ pc' \in {"evaluate_result", "abandon_request"}
    BY <1>7 DEF Respond, Trap, CallEvaluate, Core!Return
  <2> QED
    BY <1>2, <2>1, HostSteps DEF BeforeCore
<1>8. CASE ReadOut
  <2>1. pc = "copy_response" /\ pc' = "free_response" /\ phase' = "idle"
    BY <1>1, <1>8 DEF ReadOut, CopyResponse
  <2> QED
    BY <1>2, <2>1, HostSteps DEF BeforeCore
<1>9. CASE Deallocate
  <2>1. PICK site \in FreeSites : pc = site /\ AfterFree(site)
    BY <1>9 DEF Deallocate, CallFree
  <2>2. /\ pc \in FreeSites
        /\ pc' = IF pc = "free_request" THEN "check_result" ELSE "returned"
    BY <2>1 DEF AfterFree, ReturnNull, FreeSites
  <2> QED
    BY <1>1, <1>2, <2>2, HostSteps DEF BeforeCore, FreeSites
<1>10. CASE InBridge
  <2>1. sent' = sent /\ phase' = phase
    BY <1>10 DEF InBridge, coreVars
  <2>2. CASE ReadRequestPointer
    <3>1. pc = "alloc_result" /\ pc' \in {"check_request", "returned"}
      BY <2>2 DEF ReadRequestPointer, ReturnNull
    <3> QED
      BY <1>1, <1>2, <1>3, <2>1, <3>1, HostSteps DEF BeforeCore
  <2>3. CASE CheckRequest
    <3>1. pc = "check_request" /\ pc' \in {"copy_request", "abandon_request"}
      BY <2>3 DEF CheckRequest
    <3> QED
      BY <1>1, <1>2, <1>3, <2>1, <3>1, HostSteps DEF BeforeCore
  <2>4. CASE ReadResponse \/ CheckResult \/ CheckResponse \/ MallocCopy
    <3>1. \/ pc = "evaluate_result" /\ pc' = "free_request"
          \/ pc = "check_result" /\ pc' \in {"check_response", "returned"}
          \/ pc = "check_response" /\ pc' \in {"malloc", "abandon_response"}
          \/ pc = "malloc" /\ pc' \in {"copy_response", "abandon_response"}
      BY <2>4 DEF ReadResponse, CheckResult, CheckResponse, MallocCopy, ReturnNull
    <3> QED
      BY <1>1, <1>2, <3>1, HostSteps DEF BeforeCore
  <2> QED
    BY <1>10, <2>2, <2>3, <2>4 DEF InBridge
<1>11. CASE GiveBack
  <2>1. pc = "returned" /\ pc' = "idle" /\ phase' = "idle"
    BY <1>1, <1>11 DEF GiveBack, Release
  <2> QED
    BY <1>2, <2>1, HostSteps DEF BeforeCore
<1> QED
  BY <1>4, <1>5, <1>6, <1>7, <1>8, <1>9, <1>10, <1>11 DEF SystemStep

(* No call goes on for ever: every step in the host or in the guest, also   *)
(* one that fails, comes closer to the return of wm_engine_evaluate, for    *)
(* every text, memory and history of calls and failures.                    *)
THEOREM CallsEnd == SystemSpec => CallComesCloser
<1>1. SystemInv /\ SystemInv' /\ [SystemNext]_systemVars =>
        [SystemStep => CallStepsLeft' \in 0 .. CallStepsLeft - 1]_systemVars
  BY CallStepComesCloser
<1> QED
  BY <1>1, SystemInvariant, PTL DEF SystemSpec, CallComesCloser
=============================================================================
