---------------------------- MODULE EngineLifecycle ----------------------------
(***************************************************************************)
(* wm_engine_create and wm_engine_destroy                                  *)
(* (shared-core/host-bridge/wasm_host_runtime.c): which resource is        *)
(* acquired when, who owns it, and how every failure on the way and every  *)
(* close give it back.  A host may hold several engines; creating and      *)
(* destroying them happens on one thread.                                  *)
(*                                                                         *)
(* malloc and wasm3 are external, modelled by the ownership the bridge     *)
(* relies on: a parsed module belongs to the caller until m3_LoadModule    *)
(* links it into the runtime, it reads its code from the bytes it was      *)
(* parsed from for as long as it lives (functions are compiled when first  *)
(* called), and code pages go from the runtime to its environment when the *)
(* runtime is freed.                                                       *)
(***************************************************************************)
EXTENDS Naturals

CONSTANTS
    Addresses,   \* where calloc can put a struct wm_engine
    Null

ASSUME NullAssumption == Null \notin Addresses

VARIABLES
    pc,            \* control location
    this,          \* engine being created or destroyed
    engine,        \* the struct at each address and what hangs off it
    handles,       \* engines the host got from wm_engine_create and not destroyed
    bound,         \* exports bound so far
    callerBytes,   \* whether the wasm bytes passed to wm_engine_create are live
    message        \* whether *error_out is an allocated string

vars == <<pc, this, engine, handles, bound, callerBytes, message>>

Resources == {"engine", "wasm_bytes", "env", "runtime", "module"}
Fields == Resources \ {"engine"}
Exports == 3   \* wasm_alloc, wasm_free, evaluate_feature_flag

(* live: what is allocated; refs: the fields that are not NULL; linked: the
   module is in the runtime's list; code: the bytes the module reads; pages:
   who has the code pages. *)
Engine == [live : SUBSET Resources, refs : SUBSET Fields, linked : BOOLEAN,
           code : {"none", "wasm_bytes", "caller"},
           pages : {"none", "runtime", "env"}]
NoEngine == [live |-> {}, refs |-> {}, linked |-> FALSE, code |-> "none", pages |-> "none"]

Locations == {"idle", "calloc", "copy", "new_env", "new_runtime", "parse", "load", "bind",
              "free_module", "free_runtime", "free_env", "free_bytes", "free_engine",
              "returned"}

Init ==
    /\ pc = "idle" /\ this = Null
    /\ engine = [a \in Addresses |-> NoEngine]
    /\ handles = {} /\ bound = 0
    /\ callerBytes = FALSE /\ message = FALSE

-----------------------------------------------------------------------------
(* wm_engine_create. *)

Goto(location) == pc' = location

Set(value) == engine' = [engine EXCEPT ![this] = value]

RefuseWithoutDestroy ==
    /\ Goto("returned")
    /\ message' \in BOOLEAN
    /\ UNCHANGED bound

(* One failure path: the message, whose copy may itself not be allocated,
   then wm_engine_destroy. *)
Refuse ==
    /\ Goto("free_module")
    /\ message' \in BOOLEAN
    /\ UNCHANGED bound

Advance(location) == Goto(location) /\ UNCHANGED <<bound, message>>

Create ==
    /\ pc = "idle"
    /\ callerBytes' = TRUE
    /\ Goto("calloc")
    /\ UNCHANGED <<this, engine, handles, bound, message>>

(* Refused before there is an engine to destroy: no bytes, or no memory.
   calloc returns a place where no engine is. *)
Calloc ==
    /\ pc = "calloc"
    /\ \/ \E a \in Addresses :
            /\ engine[a].live = {}
            /\ this' = a
            /\ engine' = [engine EXCEPT ![a].live = {"engine"}]
            /\ Advance("copy")
       \/ /\ Goto("returned") /\ message' \in BOOLEAN
          /\ UNCHANGED <<this, engine, bound>>
    /\ UNCHANGED <<handles, callerBytes>>

Acquire(field, at, next) ==
    /\ pc = at
    /\ \/ /\ Set([engine[this] EXCEPT !.live = @ \cup {field}, !.refs = @ \cup {field}])
          /\ Advance(next)
       \/ Refuse /\ UNCHANGED engine
    /\ UNCHANGED <<this, handles, callerBytes>>

ParseCallersBytes ==
    /\ pc = "parse"
    /\ \/ /\ Set([engine[this] EXCEPT !.live = @ \cup {"module"}, !.refs = @ \cup {"module"},
                                      !.code = "caller"])
          /\ Advance("load")
       \/ Refuse /\ UNCHANGED engine
    /\ UNCHANGED <<this, handles, callerBytes>>

(* A module that does not parse is freed by m3_ParseModule, which leaves NULL. *)
Parse ==
    /\ pc = "parse"
    /\ \/ /\ Set([engine[this] EXCEPT !.live = @ \cup {"module"}, !.refs = @ \cup {"module"},
                                      !.code = "wasm_bytes"])
          /\ Advance("load")
       \/ Refuse /\ UNCHANGED engine
    /\ UNCHANGED <<this, handles, callerBytes>>

LoadKeepingModule ==
    /\ pc = "load"
    /\ \/ /\ Set([engine[this] EXCEPT !.linked = TRUE])
          /\ Advance("bind")
       \/ Refuse /\ UNCHANGED engine
    /\ UNCHANGED <<this, handles, callerBytes>>

(* The runtime owns the module from here on; one that fails to load stays
   the engine's. *)
Load ==
    /\ pc = "load"
    /\ \/ /\ Set([engine[this] EXCEPT !.refs = @ \ {"module"}, !.linked = TRUE])
          /\ Advance("bind")
       \/ Refuse /\ UNCHANGED engine
    /\ UNCHANGED <<this, handles, callerBytes>>

BindOneTooMany ==
    /\ pc = "bind"
    /\ \E owner \in {engine[this].pages, "runtime"} : Set([engine[this] EXCEPT !.pages = owner])
    /\ \/ /\ bound' = bound + 1
          /\ Goto(IF bound = Exports THEN "returned" ELSE "bind")
          /\ UNCHANGED message
       \/ Refuse
    /\ UNCHANGED <<this, handles, callerBytes>>

(* Binding an export compiles it; also a failed compilation can leave pages. *)
Bind ==
    /\ pc = "bind"
    /\ \E owner \in {engine[this].pages, "runtime"} : Set([engine[this] EXCEPT !.pages = owner])
    /\ \/ /\ bound' = bound + 1
          /\ Goto(IF bound' = Exports THEN "returned" ELSE "bind")
          /\ UNCHANGED message
       \/ Refuse
    /\ UNCHANGED <<this, handles, callerBytes>>

TakeHandleKeepingMessage ==
    /\ pc = "returned"
    /\ Goto("idle")
    /\ handles' = IF this = Null THEN handles ELSE handles \cup {this}
    /\ this' = Null /\ bound' = 0
    /\ callerBytes' = FALSE
    /\ UNCHANGED <<engine, message>>

(* Back in the wrapper: the message is read and freed, and the bytes go
   (the vector in nativeCreateEngine, the Data in init). *)
TakeHandle ==
    /\ pc = "returned"
    /\ Goto("idle")
    /\ handles' = IF this = Null THEN handles ELSE handles \cup {this}
    /\ this' = Null /\ bound' = 0
    /\ callerBytes' = FALSE /\ message' = FALSE
    /\ UNCHANGED engine

(* While an engine serves requests, a callee is compiled at its first call. *)
Compile(a) ==
    /\ pc = "idle" /\ a \in handles
    /\ engine' = [engine EXCEPT ![a].pages = "runtime"]
    /\ UNCHANGED <<pc, this, handles, bound, callerBytes, message>>

-----------------------------------------------------------------------------
(* wm_engine_destroy: called by the host, and by every failure above. *)

Destroy(a) ==
    /\ pc = "idle" /\ a \in handles
    /\ this' = a /\ handles' = handles \ {a}
    /\ Goto("free_module")
    /\ UNCHANGED <<engine, bound, callerBytes, message>>

Drop(e, resource) == [e EXCEPT !.live = @ \ {resource}, !.refs = @ \ {resource}]

(* Each field that is not NULL is released, by what m3_Free... and free do. *)
Release(at, field, released, next) ==
    /\ pc = at
    /\ IF field \in engine[this].refs THEN Set(released) ELSE UNCHANGED engine
    /\ Advance(next)
    /\ UNCHANGED <<this, handles, callerBytes>>

FreeModule == Release("free_module", "module", Drop(engine[this], "module"), "free_runtime")

(* m3_FreeRuntime frees the linked module and returns the code pages. *)
FreeRuntime ==
    LET e == Drop(engine[this], "runtime") IN
    Release("free_runtime", "runtime",
            [e EXCEPT !.live = IF e.linked THEN @ \ {"module"} ELSE @,
                      !.linked = FALSE,
                      !.pages = IF e.pages = "runtime" THEN "env" ELSE @],
            "free_env")

FreeEnv ==
    LET e == Drop(engine[this], "env") IN
    Release("free_env", "env",
            [e EXCEPT !.pages = IF e.pages = "env" THEN "none" ELSE @], "free_bytes")

FreeBytes == Release("free_bytes", "wasm_bytes", Drop(engine[this], "wasm_bytes"), "free_engine")

FreeEngineAndRetry ==
    /\ pc = "free_engine"
    /\ Set([Drop(engine[this], "engine") EXCEPT !.code = "none"])
    /\ this' = Null
    /\ Goto(IF callerBytes THEN "calloc" ELSE "idle")
    /\ UNCHANGED <<handles, bound, callerBytes, message>>

(* Nothing of a module's code is read once the module is gone. *)
FreeEngine ==
    /\ pc = "free_engine"
    /\ Set([Drop(engine[this], "engine") EXCEPT !.code = "none"])
    /\ this' = Null
    /\ Goto(IF callerBytes THEN "returned" ELSE "idle")
    /\ UNCHANGED <<handles, bound, callerBytes, message>>

Step ==
    \/ Calloc
    \/ Acquire("wasm_bytes", "copy", "new_env")
    \/ Acquire("env", "new_env", "new_runtime")
    \/ Acquire("runtime", "new_runtime", "parse")
    \/ Parse \/ Load \/ Bind \/ TakeHandle
    \/ FreeModule \/ FreeRuntime \/ FreeEnv \/ FreeBytes \/ FreeEngine

Next == Step \/ Create \/ \E a \in Addresses : Compile(a) \/ Destroy(a)

(* Straight-line code on the host's thread. *)
Spec == Init /\ [][Next]_vars /\ WF_vars(Step)

-----------------------------------------------------------------------------
(* Properties. *)

(* The variables hold what their declarations say. *)
TypeOK ==
    /\ pc \in Locations
    /\ this \in Addresses \cup {Null}
    /\ engine \in [Addresses -> Engine]
    /\ handles \subseteq Addresses
    /\ bound \in 0 .. Exports
    /\ callerBytes \in BOOLEAN /\ message \in BOOLEAN

(* Whatever wm_engine_destroy releases is live when it does, and so is what *)
(* the release reads: a module is never freed by the engine and again with  *)
(* its runtime, and a runtime never returns its code pages to a freed       *)
(* environment (wasm_host_runtime.c:162-188, called from eight places).     *)
ReleasesLive ==
    this # Null =>
      LET e == engine[this] IN
      /\ pc = "free_module" /\ "module" \in e.refs => "module" \in e.live /\ ~e.linked
      /\ pc = "free_runtime" /\ "runtime" \in e.refs =>
           {"runtime", "env"} \subseteq e.live /\ (e.linked => "module" \in e.live)
      /\ pc = "free_env" /\ "env" \in e.refs => "env" \in e.live /\ e.pages # "runtime"
      /\ pc = "free_bytes" /\ "wasm_bytes" \in e.refs => "wasm_bytes" \in e.live
      /\ pc = "free_engine" => "engine" \in e.live

(* A function can be compiled at its first call, long after the wrapper has *)
(* dropped the bytes it passed in: a module never outlives the bytes it     *)
(* reads its code from.                                                     *)
CodeOutlivesModule ==
    \A a \in Addresses : "module" \in engine[a].live =>
        CASE engine[a].code = "wasm_bytes" -> "wasm_bytes" \in engine[a].live
          [] engine[a].code = "caller"     -> callerBytes
          [] OTHER                         -> FALSE

(* When nothing is in progress, only the engines the host holds own         *)
(* anything: neither a creation that failed half-way nor a close leaves a   *)
(* resource, a code page or an error message behind.                        *)
NothingLeaks ==
    pc = "idle" => ~message /\ \A a \in Addresses \ handles : engine[a] = NoEngine

(* An engine the host holds is whole: loaded, all three exports bound, the  *)
(* module with the runtime and no longer with the engine; and the creation  *)
(* that returned it reported no error.                                      *)
HandleIsWhole ==
    /\ \A a \in handles :
         /\ engine[a].live = Resources /\ engine[a].linked
         /\ engine[a].refs = Fields \ {"module"}
    /\ pc = "returned" /\ this # Null => bound = Exports /\ ~message

(* Every call of wm_engine_create comes to an end. *)
CreateReturns == pc = "calloc" ~> pc = "idle"
=============================================================================
