--------------------------- MODULE FeatureFlagEngine ---------------------------
(***************************************************************************)
(* The host SDKs: class FeatureFlagEngine of the Android SDK with its JNI  *)
(* layer, and of the iOS package and app, which differ in who frees the    *)
(* buffers of the bridge when, in what can fail, and in what happens to an *)
(* object nobody closed.                                                   *)
(*                                                                         *)
(* An app has several objects, each used by one thread at a time; objects  *)
(* of different threads interleave, and the C heap hands the address of a  *)
(* destroyed engine out again.  wm_engine_create, wm_engine_evaluate and   *)
(* wm_engine_destroy are single steps here (EngineLifecycle and HostBridge *)
(* look inside them).                                                      *)
(***************************************************************************)
CONSTANTS
    Objects,        \* FeatureFlagEngine instances
    Android,        \* those of the Android SDK
    Package,        \* those of the Swift package; the others are the iOS app's
    Addresses,      \* where native engines can be
    Null

ASSUME PlatformAssumption == Android \cap Package = {}
ASSUME NullAssumption == Null \notin Addresses /\ Null \notin Objects

VARIABLES
    pc,         \* what the thread using the object is doing in it
    handle,     \* engineHandle, handle
    native,     \* the object whose engine lives at an address
    buffers,    \* buffers of the bridge a call of evaluate has not freed yet
    answer,     \* kind of the envelope evaluate returns
    lost        \* history: engines of Android objects dropped unclosed

vars == <<pc, handle, native, buffers, answer, lost>>

Locations == {"absent", "ready", "entered", "encode", "native", "convert", "copy", "decode",
              "answered", "destroy", "clear", "deinit", "deinit_clear"}
Answers == {"none", "stub", "verdict", "INTERNAL_ERROR", "thrown"}

Init ==
    /\ pc = [o \in Objects |-> "absent"]
    /\ handle = [o \in Objects |-> Null]
    /\ native = [a \in Addresses |-> Null]
    /\ buffers = [o \in Objects |-> {}]
    /\ answer = [o \in Objects |-> "none"]
    /\ lost = {}

-----------------------------------------------------------------------------
Goto(o, location) == pc' = [pc EXCEPT ![o] = location]

Answer(o, kind) ==
    /\ Goto(o, "answered")
    /\ answer' = [answer EXCEPT ![o] = kind]

OpenWithoutTakeIf(o) ==
    /\ pc[o] = "absent"
    /\ \/ \E a \in Addresses :
            /\ native[a] = Null
            /\ native' = [native EXCEPT ![a] = o]
            /\ handle' = [handle EXCEPT ![o] = a]
       \/ o \in Android /\ handle' = [handle EXCEPT ![o] = "0L"] /\ UNCHANGED native
       \/ UNCHANGED <<native, handle>>
    /\ Goto(o, "ready")
    /\ UNCHANGED <<buffers, answer, lost>>

(* fromBundledWasm, init: without the asset, or the library, or when
   wm_engine_create refuses, the object has no engine and says so. *)
Open(o) ==
    /\ pc[o] = "absent"
    /\ \/ \E a \in Addresses :
            /\ native[a] = Null
            /\ native' = [native EXCEPT ![a] = o]
            /\ handle' = [handle EXCEPT ![o] = a]
       \/ UNCHANGED <<native, handle>>
    /\ Goto(o, "ready")
    /\ UNCHANGED <<buffers, answer, lost>>

Evaluate(o) ==
    /\ pc[o] = "ready"
    /\ Goto(o, "entered")
    /\ UNCHANGED <<handle, native, buffers, answer, lost>>

ReadHandle(o) ==
    /\ pc[o] = "entered"
    /\ IF handle[o] = Null THEN Answer(o, "stub") ELSE Goto(o, "encode") /\ UNCHANGED answer
    /\ UNCHANGED <<handle, native, buffers, lost>>

(* Swift's encoder refuses a number that is not finite; Kotlin's writes it. *)
Encode(o) ==
    /\ pc[o] = "encode"
    /\ \/ Goto(o, "native") /\ UNCHANGED answer
       \/ o \notin Android /\ Answer(o, "INTERNAL_ERROR")
    /\ UNCHANGED <<handle, native, buffers, lost>>

(* A response, or an error whose text may not have been allocated. *)
CallNative(o) ==
    /\ pc[o] = "native"
    /\ \E given \in {{"response"}, {"error"}, {}} : buffers' = [buffers EXCEPT ![o] = given]
    /\ Goto(o, "convert")
    /\ UNCHANGED <<handle, native, answer, lost>>

ConvertRetrying(o) ==
    /\ pc[o] = "convert"
    /\ buffers' = [buffers EXCEPT ![o] = IF o \in Package THEN @ ELSE @ \ {"error"}]
    /\ Goto(o, IF "response" \in buffers[o] THEN "copy" ELSE "native")
    /\ UNCHANGED <<handle, native, answer, lost>>

(* JNI and the Objective-C bridge free the error string at once, having read
   it or not; the package keeps both buffers until evaluate returns. *)
Convert(o) ==
    /\ pc[o] = "convert"
    /\ buffers' = [buffers EXCEPT ![o] = IF o \in Package THEN @ ELSE @ \ {"error"}]
    /\ IF "response" \in buffers[o] THEN Goto(o, "copy") /\ UNCHANGED answer
                                     ELSE Answer(o, "INTERNAL_ERROR")
    /\ UNCHANGED <<handle, native, lost>>

CopyLeakingOnThrow(o) ==
    /\ pc[o] = "copy"
    /\ \/ /\ Goto(o, "decode") /\ UNCHANGED answer
          /\ buffers' = [buffers EXCEPT ![o] = IF o \in Package THEN @ ELSE @ \ {"response"}]
       \/ o \in Android /\ Answer(o, "thrown") /\ UNCHANGED buffers
    /\ UNCHANGED <<handle, native, lost>>

(* The response is copied into the platform's own bytes, and freed where the
   package does not keep it.  The Java array may not be allocated, which
   throws once nativeEvaluate has returned. *)
Copy(o) ==
    /\ pc[o] = "copy"
    /\ \/ Goto(o, "decode") /\ UNCHANGED answer
       \/ o \in Android /\ Answer(o, "thrown")
    /\ buffers' = [buffers EXCEPT ![o] = IF o \in Package THEN @ ELSE @ \ {"response"}]
    /\ UNCHANGED <<handle, native, lost>>

DecodeFallingBack(o) ==
    /\ pc[o] = "decode"
    /\ Answer(o, "verdict") \/ Answer(o, "stub")
    /\ UNCHANGED <<handle, native, buffers, lost>>

Decode(o) ==
    /\ pc[o] = "decode"
    /\ Answer(o, "verdict") \/ Answer(o, "INTERNAL_ERROR")
    /\ UNCHANGED <<handle, native, buffers, lost>>

(* Only the package has a defer block that frees what is left. *)
Return(o) ==
    /\ pc[o] = "answered"
    /\ Goto(o, "ready")
    /\ answer' = [answer EXCEPT ![o] = "none"]
    /\ buffers' = [buffers EXCEPT ![o] = IF o \in Package THEN {} ELSE @]
    /\ UNCHANGED <<handle, native, lost>>

(* close: a second call, and one without an engine, does nothing. *)
Close(o) ==
    /\ pc[o] = "ready"
    /\ Goto(o, IF handle[o] = Null THEN "ready" ELSE "destroy")
    /\ UNCHANGED <<handle, native, buffers, answer, lost>>

DestroyEngine(o, at, next) ==
    /\ pc[o] = at
    /\ native' = [native EXCEPT ![handle[o]] = Null]
    /\ Goto(o, next)
    /\ UNCHANGED <<handle, buffers, answer, lost>>

ClearNothing(o, at, next) ==
    /\ pc[o] = at
    /\ Goto(o, next)
    /\ UNCHANGED <<handle, native, buffers, answer, lost>>

ClearHandle(o, at, next) ==
    /\ pc[o] = at
    /\ handle' = [handle EXCEPT ![o] = Null]
    /\ Goto(o, next)
    /\ UNCHANGED <<native, buffers, answer, lost>>

DropWithoutDeinit(o) ==
    /\ pc[o] = "ready"
    /\ Goto(o, "absent")
    /\ handle' = [handle EXCEPT ![o] = Null]
    /\ lost' = lost \cup (IF o \in Android THEN {handle[o]} \ {Null} ELSE {})
    /\ UNCHANGED <<native, buffers, answer>>

(* The last reference goes.  deinit closes; Kotlin has no finalizer. *)
Drop(o) ==
    /\ pc[o] = "ready"
    /\ IF handle[o] = Null \/ o \in Android
       THEN /\ Goto(o, "absent")
            /\ handle' = [handle EXCEPT ![o] = Null]
            /\ lost' = lost \cup ({handle[o]} \ {Null})
       ELSE Goto(o, "deinit") /\ UNCHANGED <<handle, lost>>
    /\ UNCHANGED <<native, buffers, answer>>

Step(o) ==
    \/ ReadHandle(o) \/ Encode(o) \/ CallNative(o) \/ Convert(o) \/ Copy(o) \/ Decode(o)
    \/ Return(o)
    \/ DestroyEngine(o, "destroy", "clear") \/ ClearHandle(o, "clear", "ready")
    \/ DestroyEngine(o, "deinit", "deinit_clear") \/ ClearHandle(o, "deinit_clear", "absent")

Next == \E o \in Objects : Step(o) \/ Open(o) \/ Evaluate(o) \/ Close(o) \/ Drop(o)

(* A thread inside the SDK is scheduled until it comes out. *)
Spec == Init /\ [][Next]_vars /\ \A o \in Objects : WF_vars(Step(o))

-----------------------------------------------------------------------------
(* Properties. *)

(* The variables hold what their declarations say. *)
TypeOK ==
    /\ pc \in [Objects -> Locations]
    /\ handle \in [Objects -> Addresses \cup {Null}]
    /\ native \in [Addresses -> Objects \cup {Null}]
    /\ buffers \in [Objects -> SUBSET {"response", "error"}]
    /\ answer \in [Objects -> Answers]
    /\ lost \subseteq Addresses

(* What is passed to wm_engine_evaluate and to wm_engine_destroy is the     *)
(* object's own live engine.  While close runs, another object may get the  *)
(* same address: the handle is stale until it is cleared, and is never used *)
(* in between (FeatureFlagEngine.kt:24-28, FeatureFlagEngine.swift:49-59).  *)
UsesOwnEngine ==
    \A o \in Objects : pc[o] \in {"native", "destroy", "deinit"} =>
        handle[o] # Null /\ native[handle[o]] = o

(* Every native engine belongs to an object that can still close it, but    *)
(* for those of Android objects dropped unclosed; what is lost stays lost.  *)
EnginesAccounted ==
    /\ \A a \in Addresses :
         native[a] # Null => a \in lost \/ (handle[native[a]] = a /\ pc[native[a]] # "absent")
    /\ \A a \in lost : native[a] \in Android

(* On every path evaluate takes, and on every platform, the response buffer *)
(* and the error string of the bridge are freed when it has returned: by    *)
(* JNI and the Objective-C bridge on each of their exits, and by the defer  *)
(* block of the package (feature_flag_jni.cpp:59-74,                        *)
(* WasmHostRuntimeBridge.m:36-50, FeatureFlagEngine.swift:82-85).           *)
BuffersReleased == \A o \in Objects : pc[o] = "ready" => buffers[o] = {}

Service == INSTANCE FlagService WITH
    Throwing <- Android,
    mode <- [o \in Objects |-> CASE pc[o] = "absent" -> "absent"
                                 [] pc[o] # "absent" /\ handle[o] = Null -> "stub"
                                 [] OTHER -> "engine"],
    answer <- [o \in Objects |->
                 IF pc[o] \in {"entered", "encode", "native", "convert", "copy", "decode"}
                 THEN "asked"
                 ELSE answer[o]]

(* An object keeps the kind of service it was opened with until it is       *)
(* closed: no failure turns an engine into the stub or the other way round. *)
ImplementsFlagService == Service!Spec

(* Every call of evaluate comes back with an envelope or an exception. *)
EvaluateReturns == \A o \in Objects : pc[o] = "entered" ~> pc[o] = "answered"
=============================================================================
