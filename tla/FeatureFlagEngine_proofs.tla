----------------------- MODULE FeatureFlagEngine_proofs -----------------------
(***************************************************************************)
(* The host SDKs for any number of objects, threads and addresses: an      *)
(* inductive invariant on who owns which engine, and the refinement of     *)
(* FlagService.                                                            *)
(***************************************************************************)
EXTENDS FeatureFlagEngine, TLAPS

Clearing == {"clear", "deinit_clear"}
WithEngine ==
    {"encode", "native", "convert", "copy", "decode", "destroy", "deinit"} \cup Clearing

(* An object's handle is its own live engine, but for the moment between    *)
(* destroying it and clearing the handle.                                   *)
HandlesOwn ==
    \A o \in Objects :
      /\ pc[o] \in WithEngine => handle[o] # Null
      /\ pc[o] = "absent" => handle[o] = Null
      /\ handle[o] # Null => (native[handle[o]] = o <=> pc[o] \notin Clearing)

(* An engine nobody lost is in its owner's handle; a lost one is not.       *)
EnginesHeld ==
    /\ \A a \in Addresses : native[a] # Null => a \in lost \/ handle[native[a]] = a
    /\ \A a \in lost : native[a] \in Objects \cap Android /\ handle[native[a]] # a

(* What a call may still have to free at each of its places: outside of the *)
(* package the error string only until it is looked at, the response only   *)
(* until it is copied.                                                      *)
Unfreed(o, location) ==
    IF location \in {"convert"} \/ (o \in Package /\ location \in {"copy", "decode", "answered"})
    THEN {"response", "error"}
    ELSE IF location = "copy" THEN {"response"} ELSE {}

BuffersInUse == \A o \in Objects : buffers[o] \subseteq Unfreed(o, pc[o])

Answering ==
    \A o \in Objects : answer[o] = "none" <=> pc[o] # "answered"

SdkInv == TypeOK /\ HandlesOwn /\ EnginesHeld /\ BuffersInUse /\ Answering

LEMMA Initial == Init => SdkInv
  <1> SUFFICES ASSUME Init PROVE SdkInv
    OBVIOUS
  <1>1. TypeOK
    BY DEF Init, TypeOK, Locations, Answers
  <1>2. HandlesOwn /\ BuffersInUse /\ Answering
    BY DEF Init, HandlesOwn, BuffersInUse, Answering, WithEngine, Clearing, Unfreed
  <1>3. EnginesHeld
    BY DEF Init, EnginesHeld
  <1> QED
    BY <1>1, <1>2, <1>3 DEF SdkInv

(* A step of evaluate, or the first of close: engines and handles stay.     *)
LEMMA MoveKept ==
    ASSUME SdkInv, NEW o \in Objects,
           NEW next \in Locations \ ({"absent"} \cup Clearing), NEW kind \in Answers,
           NEW held \in SUBSET {"response", "error"},
           pc[o] \notin {"absent"} \cup Clearing,
           pc' = [pc EXCEPT ![o] = next],
           answer' = [answer EXCEPT ![o] = kind],
           buffers' = [buffers EXCEPT ![o] = held],
           UNCHANGED <<handle, native, lost>>,
           next \in WithEngine => handle[o] # Null,
           kind = "none" <=> next # "answered",
           held \subseteq Unfreed(o, next)
    PROVE  SdkInv'
  <1>1. TypeOK'
    BY DEF SdkInv, TypeOK
  <1>2. HandlesOwn'
    BY DEF SdkInv, TypeOK, HandlesOwn
  <1>3. EnginesHeld'
    BY DEF SdkInv, EnginesHeld
  <1>4. BuffersInUse' /\ Answering'
    BY DEF SdkInv, TypeOK, BuffersInUse, Answering
  <1> QED
    BY <1>1, <1>2, <1>3, <1>4 DEF SdkInv

LEMMA EvaluateKept ==
    ASSUME SdkInv, NEW o \in Objects,
           \/ Evaluate(o) \/ ReadHandle(o) \/ Encode(o) \/ CallNative(o) \/ Convert(o)
           \/ Copy(o) \/ Decode(o) \/ Return(o) \/ Close(o)
    PROVE  SdkInv'
  <1>0. /\ answer = [answer EXCEPT ![o] = answer[o]]
        /\ buffers = [buffers EXCEPT ![o] = buffers[o]]
        /\ pc = [pc EXCEPT ![o] = pc[o]]
        /\ answer[o] \in Answers /\ buffers[o] \in SUBSET {"response", "error"}
    BY DEF SdkInv, TypeOK
  <1>1. /\ pc[o] # "answered" => answer[o] = "none"
        /\ buffers[o] \subseteq Unfreed(o, pc[o])
        /\ pc[o] \in WithEngine => handle[o] # Null
    BY DEF SdkInv, Answering, BuffersInUse, HandlesOwn
  <1> USE DEF Locations, Answers, Clearing, Goto, Answer, Unfreed
  <1>2. CASE Evaluate(o)
    BY <1>0, <1>1, <1>2, MoveKept DEF Evaluate, WithEngine
  <1>3. CASE ReadHandle(o)
    BY <1>0, <1>1, <1>3, MoveKept DEF ReadHandle, WithEngine
  <1>4. CASE Encode(o)
    BY <1>0, <1>1, <1>4, MoveKept DEF Encode, WithEngine
  <1>5. CASE CallNative(o)
    BY <1>0, <1>1, <1>5, MoveKept DEF CallNative, WithEngine
  <1>6. CASE Convert(o)
    <2> DEFINE held == IF o \in Package THEN buffers[o] ELSE buffers[o] \ {"error"}
    <2>1. /\ pc[o] = "convert" /\ buffers' = [buffers EXCEPT ![o] = held]
          /\ UNCHANGED <<handle, native, lost>>
          /\ \/ /\ pc' = [pc EXCEPT ![o] = "copy"] /\ answer' = answer
             \/ /\ "response" \notin buffers[o]
                /\ pc' = [pc EXCEPT ![o] = "answered"]
                /\ answer' = [answer EXCEPT ![o] = "INTERNAL_ERROR"]
      BY <1>6 DEF Convert
    <2>2. /\ held \in SUBSET {"response", "error"}
          /\ held \subseteq Unfreed(o, "copy")
          /\ "response" \notin buffers[o] => held \subseteq Unfreed(o, "answered")
      BY <1>0
    <2> HIDE DEF held
    <2> QED
      BY <1>0, <1>1, <2>1, <2>2, MoveKept DEF WithEngine
  <1>7. CASE Decode(o)
    BY <1>0, <1>1, <1>7, MoveKept DEF Decode, WithEngine
  <1>8. CASE Return(o)
    BY <1>0, <1>1, <1>8, MoveKept DEF Return, WithEngine
  <1>9. CASE Copy(o)
    BY <1>0, <1>1, <1>9, MoveKept DEF Copy, WithEngine
  <1>10. CASE Close(o)
    <2>1. PICK next \in {"ready", "destroy"} :
            /\ pc' = [pc EXCEPT ![o] = next]
            /\ next = "destroy" => handle[o] # Null
      BY <1>10 DEF Close
    <2>2. /\ pc[o] = "ready" /\ answer[o] = "none" /\ buffers[o] = {}
          /\ UNCHANGED <<handle, native, buffers, answer, lost>>
      BY <1>1, <1>10 DEF Close
    <2> QED
      BY <1>0, <2>1, <2>2, MoveKept DEF WithEngine
  <1> QED
    BY <1>2, <1>3, <1>4, <1>5, <1>6, <1>7, <1>8, <1>9, <1>10

(* The three steps that change who owns what.                               *)
LEMMA OpenKept ==
    ASSUME SdkInv, NEW o \in Objects, Open(o)
    PROVE  SdkInv'
  <1> USE NullAssumption DEF SdkInv
  <1>1. pc[o] = "absent" /\ handle[o] = Null /\ buffers[o] = {}
    BY DEF Open, HandlesOwn, BuffersInUse, Unfreed
  <1>2. BuffersInUse' /\ Answering'
    BY <1>1 DEF Open, Goto, TypeOK, BuffersInUse, Answering
  <1>3. CASE UNCHANGED <<native, handle>>
    BY <1>1, <1>2, <1>3
    DEF Open, Goto, TypeOK, Locations, HandlesOwn, EnginesHeld, WithEngine, Clearing
  <1>4. ASSUME NEW a \in Addresses, native[a] = Null,
               native' = [native EXCEPT ![a] = o], handle' = [handle EXCEPT ![o] = a]
        PROVE  SdkInv'
    <2>1. TypeOK'
      BY <1>4 DEF Open, Goto, TypeOK, Locations
    <2>2. HandlesOwn'
      BY <1>1, <1>4 DEF Open, Goto, TypeOK, HandlesOwn, WithEngine, Clearing
    <2>3. a \notin lost
      BY <1>4 DEF EnginesHeld
    <2>4. EnginesHeld'
      BY <1>1, <1>4, <2>3 DEF Open, TypeOK, EnginesHeld
    <2> QED
      BY <1>2, <2>1, <2>2, <2>4
  <1> QED
    BY <1>3, <1>4 DEF Open

LEMMA DestroyKept ==
    ASSUME SdkInv, NEW o \in Objects, NEW at, NEW next, DestroyEngine(o, at, next),
           <<at, next>> \in {<<"destroy", "clear">>, <<"deinit", "deinit_clear">>}
    PROVE  SdkInv'
  <1> USE NullAssumption DEF SdkInv
  <1>1. /\ pc[o] \in {"destroy", "deinit"} /\ next \in Clearing
        /\ handle[o] # Null /\ handle[o] \in Addresses /\ native[handle[o]] = o
    BY DEF DestroyEngine, HandlesOwn, TypeOK, WithEngine, Clearing
  <1>2. handle[o] \notin lost
    BY <1>1 DEF EnginesHeld
  <1>3. TypeOK'
    BY <1>1 DEF DestroyEngine, Goto, TypeOK, Locations, Clearing
  <1>4. HandlesOwn'
    BY <1>1 DEF DestroyEngine, Goto, TypeOK, HandlesOwn, WithEngine, Clearing
  <1>5. EnginesHeld'
    BY <1>1, <1>2 DEF DestroyEngine, TypeOK, EnginesHeld
  <1>6. BuffersInUse' /\ Answering'
    BY <1>1 DEF DestroyEngine, Goto, TypeOK, BuffersInUse, Unfreed, Answering, Clearing
  <1> QED
    BY <1>3, <1>4, <1>5, <1>6

LEMMA ClearKept ==
    ASSUME SdkInv, NEW o \in Objects, NEW at, NEW next, ClearHandle(o, at, next),
           <<at, next>> \in {<<"clear", "ready">>, <<"deinit_clear", "absent">>}
    PROVE  SdkInv'
  <1> USE NullAssumption DEF SdkInv
  <1>1. /\ pc[o] \in Clearing /\ next \in {"ready", "absent"}
        /\ handle[o] \in Addresses /\ native[handle[o]] # o
    BY DEF ClearHandle, HandlesOwn, TypeOK, WithEngine, Clearing
  <1>2. TypeOK'
    BY <1>1 DEF ClearHandle, Goto, TypeOK, Locations
  <1>3. HandlesOwn'
    BY <1>1 DEF ClearHandle, Goto, TypeOK, HandlesOwn, WithEngine, Clearing
  <1>4. EnginesHeld'
    BY <1>1 DEF ClearHandle, TypeOK, EnginesHeld
  <1>5. BuffersInUse' /\ Answering'
    BY <1>1 DEF ClearHandle, Goto, TypeOK, BuffersInUse, Unfreed, Answering, Clearing
  <1> QED
    BY <1>2, <1>3, <1>4, <1>5

LEMMA DropKept ==
    ASSUME SdkInv, NEW o \in Objects, Drop(o)
    PROVE  SdkInv'
  <1> USE NullAssumption DEF SdkInv
  <1>1. /\ pc[o] = "ready" /\ handle[o] \in Addresses \cup {Null}
        /\ handle[o] # Null => native[handle[o]] = o
    BY DEF Drop, HandlesOwn, TypeOK, Clearing
  <1>2. CASE handle[o] = Null \/ o \in Android
    <2>1. TypeOK'
      BY <1>1, <1>2 DEF Drop, Goto, TypeOK, Locations
    <2>2. HandlesOwn'
      BY <1>1, <1>2 DEF Drop, Goto, TypeOK, HandlesOwn, WithEngine, Clearing
    <2>3. EnginesHeld'
      BY <1>1, <1>2 DEF Drop, TypeOK, EnginesHeld
    <2>4. BuffersInUse' /\ Answering'
      BY <1>1, <1>2 DEF Drop, Goto, TypeOK, BuffersInUse, Unfreed, Answering
    <2> QED
      BY <2>1, <2>2, <2>3, <2>4
  <1>3. CASE handle[o] # Null /\ o \notin Android
    <2>1. TypeOK' /\ EnginesHeld' /\ BuffersInUse' /\ Answering'
      BY <1>1, <1>3
      DEF Drop, Goto, TypeOK, Locations, EnginesHeld, BuffersInUse, Unfreed, Answering
    <2>2. HandlesOwn'
      BY <1>1, <1>3 DEF Drop, Goto, TypeOK, HandlesOwn, WithEngine, Clearing
    <2> QED
      BY <2>1, <2>2
  <1> QED
    BY <1>2, <1>3

LEMMA Inductive == SdkInv /\ [Next]_vars => SdkInv'
  <1>1. ASSUME SdkInv, UNCHANGED vars PROVE SdkInv'
    BY <1>1 DEF vars, SdkInv, TypeOK, HandlesOwn, EnginesHeld, BuffersInUse, Answering
  <1>2. ASSUME SdkInv, NEW o \in Objects,
               Step(o) \/ Open(o) \/ Evaluate(o) \/ Close(o) \/ Drop(o)
        PROVE  SdkInv'
    BY <1>2, EvaluateKept, OpenKept, DestroyKept, ClearKept, DropKept DEF Step
  <1> QED
    BY <1>1, <1>2 DEF Next

-----------------------------------------------------------------------------

(* Which engine belongs to whom, and what evaluate holds, at every point of *)
(* every interleaving.                                                      *)
THEOREM SdkInvariant == Spec => []SdkInv
  BY Initial, Inductive, PTL DEF Spec

(* The variables hold what their declarations say.                          *)
THEOREM TypeCorrect == Spec => []TypeOK
  <1>1. SdkInv => TypeOK
    BY DEF SdkInv
  <1> QED
    BY <1>1, SdkInvariant, PTL

(* However many objects and threads there are and however addresses are     *)
(* reused, only the object's own live engine is evaluated or destroyed.     *)
THEOREM OwnEngineUsed == Spec => []UsesOwnEngine
  <1>1. SdkInv => UsesOwnEngine
    BY DEF SdkInv, HandlesOwn, UsesOwnEngine, WithEngine, Clearing
  <1> QED
    BY <1>1, SdkInvariant, PTL

(* No engine is forgotten but those of Android objects dropped unclosed.    *)
THEOREM EnginesKept == Spec => []EnginesAccounted
  <1>1. SdkInv => EnginesAccounted
    BY NullAssumption DEF SdkInv, TypeOK, HandlesOwn, EnginesHeld, EnginesAccounted
  <1> QED
    BY <1>1, SdkInvariant, PTL

(* The bridge's buffers are freed when evaluate has returned, on every exit *)
(* of JNI and of the Objective-C bridge, where nothing frees them later,    *)
(* and of the package.                                                      *)
THEOREM BuffersFreed == Spec => []BuffersReleased
  <1>1. SdkInv => BuffersReleased
    BY DEF SdkInv, BuffersInUse, BuffersReleased, Unfreed
  <1> QED
    BY <1>1, SdkInvariant, PTL

-----------------------------------------------------------------------------
(* The refinement. *)

Mode(o) == CASE pc[o] = "absent" -> "absent"
             [] pc[o] # "absent" /\ handle[o] = Null -> "stub"
             [] OTHER -> "engine"

Asking == {"entered", "encode", "native", "convert", "copy", "decode"}
Given(o) == IF pc[o] \in Asking THEN "asked" ELSE answer[o]

Modes == [o \in Objects |-> Mode(o)]
Givens == [o \in Objects |-> Given(o)]

(* A step of one object is a step of its service, or none.                  *)
LEMMA OneObject ==
    ASSUME SdkInv, SdkInv', NEW o \in Objects,
           Step(o) \/ Open(o) \/ Evaluate(o) \/ Close(o) \/ Drop(o)
    PROVE  /\ \A p \in Objects \ {o} : Mode(p)' = Mode(p) /\ Given(p)' = Given(p)
           /\ \/ Mode(o)' = Mode(o) /\ Given(o)' = Given(o)
              \/ Mode(o) = "absent" /\ Mode(o)' \in {"engine", "stub"} /\ Given(o)' = Given(o)
              \/ /\ Mode(o) # "absent" /\ Given(o) = "none" /\ Given(o)' = "asked"
                 /\ Mode(o)' = Mode(o)
              \/ /\ Given(o) = "asked" /\ Mode(o)' = Mode(o)
                 /\ Given(o)' \in IF Mode(o) = "stub" THEN {"stub"}
                                  ELSE {"verdict", "INTERNAL_ERROR"}
                                         \cup (IF o \in Android THEN {"thrown"} ELSE {})
              \/ Given(o) \notin {"none", "asked"} /\ Given(o)' = "none" /\ Mode(o)' = Mode(o)
              \/ /\ Mode(o) = "engine" /\ Given(o) = "none" /\ Mode(o)' = "stub"
                 /\ Given(o)' = Given(o)
              \/ /\ Mode(o) # "absent" /\ Given(o) = "none" /\ Mode(o)' = "absent"
                 /\ Given(o)' = Given(o)
  <1> USE NullAssumption DEF SdkInv, Mode, Given, Asking
  <1>1. \A p \in Objects \ {o} : /\ pc'[p] = pc[p] /\ handle'[p] = handle[p]
                                 /\ answer'[p] = answer[p]
    BY DEF TypeOK, Step, Open, Evaluate, Close, Drop, ReadHandle, Encode, CallNative, Convert,
           Copy, Decode, Return, DestroyEngine, ClearHandle, Goto, Answer
  <1>2. \A p \in Objects \ {o} : Mode(p)' = Mode(p) /\ Given(p)' = Given(p)
    BY <1>1
  <1>3. /\ pc[o] \in WithEngine => handle[o] # Null
        /\ pc[o] # "answered" => answer[o] = "none"
        /\ answer[o] \in Answers
        /\ pc \in [Objects -> Locations] /\ answer \in [Objects -> Answers]
        /\ handle \in [Objects -> Addresses \cup {Null}]
        /\ pc[o] = "answered" => answer[o] \notin {"none", "asked"}
    BY DEF HandlesOwn, Answering, TypeOK, Answers
  <1> USE DEF Goto, Answer
  <1>4. CASE Open(o)
    BY <1>2, <1>3, <1>4 DEF Open
  <1>5. CASE Evaluate(o) \/ Close(o)
    BY <1>2, <1>3, <1>5 DEF Evaluate, Close
  <1>6. CASE ReadHandle(o) \/ Encode(o) \/ CallNative(o)
    BY <1>2, <1>3, <1>6 DEF ReadHandle, Encode, CallNative, WithEngine
  <1>7. CASE Convert(o) \/ Copy(o) \/ Decode(o) \/ Return(o)
    BY <1>2, <1>3, <1>7 DEF Convert, Copy, Decode, Return, WithEngine
  <1>8. CASE \/ DestroyEngine(o, "destroy", "clear") \/ ClearHandle(o, "clear", "ready")
             \/ DestroyEngine(o, "deinit", "deinit_clear")
             \/ ClearHandle(o, "deinit_clear", "absent")
    BY <1>2, <1>3, <1>8 DEF DestroyEngine, ClearHandle, WithEngine, Clearing
  <1>9. CASE Drop(o)
    BY <1>2, <1>3, <1>9 DEF Drop
  <1> QED
    BY <1>4, <1>5, <1>6, <1>7, <1>8, <1>9 DEF Step

(* What evaluates of one object says of the functions over all objects.     *)
LEMMA OnlyOne ==
    ASSUME NEW o \in Objects, \A p \in Objects \ {o} : Mode(p)' = Mode(p) /\ Given(p)' = Given(p)
    PROVE  /\ Modes' = [Modes EXCEPT ![o] = Mode(o)']
           /\ Givens' = [Givens EXCEPT ![o] = Given(o)']
           /\ Mode(o)' = Mode(o) => Modes' = Modes
           /\ Given(o)' = Given(o) => Givens' = Givens
  <1> HIDE DEF Mode, Given
  <1> QED
    BY DEF Modes, Givens

LEMMA ServiceActions ==
    ASSUME NEW o \in Objects
    PROVE  /\ Service!Open(o) <=> /\ Modes[o] = "absent"
                                  /\ \E m \in {"engine", "stub"} :
                                       Modes' = [Modes EXCEPT ![o] = m]
                                  /\ Givens' = Givens
           /\ Service!Ask(o) <=> /\ Modes[o] # "absent" /\ Givens[o] = "none"
                                 /\ Givens' = [Givens EXCEPT ![o] = "asked"]
                                 /\ Modes' = Modes
           /\ Service!Answer(o) <=>
                /\ Givens[o] = "asked"
                /\ \E kind \in IF Modes[o] = "stub" THEN {"stub"}
                               ELSE {"verdict", "INTERNAL_ERROR"}
                                      \cup (IF o \in Android THEN {"thrown"} ELSE {}) :
                     Givens' = [Givens EXCEPT ![o] = kind]
                /\ Modes' = Modes
           /\ Service!Take(o) <=> /\ Givens[o] \notin {"none", "asked"}
                                  /\ Givens' = [Givens EXCEPT ![o] = "none"]
                                  /\ Modes' = Modes
           /\ Service!Close(o) <=> /\ Modes[o] = "engine" /\ Givens[o] = "none"
                                   /\ Modes' = [Modes EXCEPT ![o] = "stub"]
                                   /\ Givens' = Givens
           /\ Service!Drop(o) <=> /\ Modes[o] # "absent" /\ Givens[o] = "none"
                                  /\ Modes' = [Modes EXCEPT ![o] = "absent"]
                                  /\ Givens' = Givens
  <1> USE Zenon DEF Modes, Mode, Givens, Given, Asking
  <1>1. Service!Open(o) <=> /\ Modes[o] = "absent"
                            /\ \E m \in {"engine", "stub"} : Modes' = [Modes EXCEPT ![o] = m]
                            /\ Givens' = Givens
    BY DEF Service!Open
  <1>2. Service!Ask(o) <=> /\ Modes[o] # "absent" /\ Givens[o] = "none"
                           /\ Givens' = [Givens EXCEPT ![o] = "asked"]
                           /\ Modes' = Modes
    BY DEF Service!Ask
  <1>3. Service!Answer(o) <=>
          /\ Givens[o] = "asked"
          /\ \E kind \in IF Modes[o] = "stub" THEN {"stub"}
                         ELSE {"verdict", "INTERNAL_ERROR"}
                                \cup (IF o \in Android THEN {"thrown"} ELSE {}) :
               Givens' = [Givens EXCEPT ![o] = kind]
          /\ Modes' = Modes
    BY DEF Service!Answer, Service!Kinds
  <1>4. Service!Take(o) <=> /\ Givens[o] \notin {"none", "asked"}
                            /\ Givens' = [Givens EXCEPT ![o] = "none"]
                            /\ Modes' = Modes
    BY DEF Service!Take
  <1>5. Service!Close(o) <=> /\ Modes[o] = "engine" /\ Givens[o] = "none"
                             /\ Modes' = [Modes EXCEPT ![o] = "stub"]
                             /\ Givens' = Givens
    BY DEF Service!Close
  <1>6. Service!Drop(o) <=> /\ Modes[o] # "absent" /\ Givens[o] = "none"
                            /\ Modes' = [Modes EXCEPT ![o] = "absent"]
                            /\ Givens' = Givens
    BY DEF Service!Drop
  <1> QED
    BY <1>1, <1>2, <1>3, <1>4, <1>5, <1>6

(* For any number of objects and threads the SDK implements FlagService: an *)
(* object with an engine never answers as the stub, nor the other way round.*)
THEOREM ServiceImplemented == Spec => ImplementsFlagService
  <1>1. Init => Service!Init
    BY DEF Init, Service!Init
  <1>2. ASSUME SdkInv, SdkInv', NEW o \in Objects,
               Step(o) \/ Open(o) \/ Evaluate(o) \/ Close(o) \/ Drop(o)
        PROVE  [Service!Next]_(Service!vars)
    <2>1. /\ Modes' = [Modes EXCEPT ![o] = Mode(o)']
          /\ Givens' = [Givens EXCEPT ![o] = Given(o)']
          /\ Mode(o)' = Mode(o) => Modes' = Modes
          /\ Given(o)' = Given(o) => Givens' = Givens
      BY <1>2, OneObject, OnlyOne
    <2>2. Modes[o] = Mode(o) /\ Givens[o] = Given(o)
      BY DEF Modes, Givens
    <2>3. Service!vars' = Service!vars <=> Modes' = Modes /\ Givens' = Givens
      BY Zenon DEF Service!vars, Modes, Mode, Givens, Given, Asking
    <2>4. \/ Service!Open(o) \/ Service!Ask(o) \/ Service!Answer(o) \/ Service!Take(o)
          \/ Service!Close(o) \/ Service!Drop(o)
          \/ Modes' = Modes /\ Givens' = Givens
      <3> HIDE DEF Mode, Given
      <3> QED
        BY <1>2, <2>1, <2>2, OneObject, ServiceActions
    <2> QED
      BY <2>3, <2>4 DEF Service!Next
  <1>3. ASSUME UNCHANGED vars PROVE UNCHANGED Service!vars
    BY <1>3 DEF vars, Service!vars
  <1>4. ASSUME SdkInv, SdkInv', [Next]_vars PROVE [Service!Next]_(Service!vars)
    BY <1>2, <1>3, <1>4 DEF Next
  <1> QED
    BY <1>1, <1>4, SdkInvariant, PTL DEF Spec, ImplementsFlagService, Service!Spec
=============================================================================
