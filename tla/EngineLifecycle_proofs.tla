------------------------ MODULE EngineLifecycle_proofs ------------------------
(***************************************************************************)
(* The ownership of an engine's resources, for any number of engines: the  *)
(* inductive invariant says what each place of wm_engine_create has        *)
(* acquired, and what each place of wm_engine_destroy may still find.      *)
(***************************************************************************)
EXTENDS EngineLifecycle, TLAPS

Creating == {"copy", "new_env", "new_runtime", "parse", "load", "bind"}
Freeing == {"free_module", "free_runtime", "free_env", "free_bytes", "free_engine"}

(* Which engine is being worked on, and what its caller still has to see. *)
Control ==
    /\ pc \in {"idle", "calloc"} => this = Null
    /\ pc \in Creating \cup Freeing => this # Null
    /\ this \notin handles
    /\ pc = "idle" => ~callerBytes
    /\ pc \in Creating \cup {"calloc", "returned"} => callerBytes
    /\ message => callerBytes /\ pc \in Freeing \cup {"returned"}
    /\ pc \in (Creating \ {"bind"}) \cup {"idle", "calloc"} => bound = 0
    /\ ~callerBytes => bound = 0
    /\ pc = "bind" => bound < Exports
    /\ pc = "returned" /\ this # Null => bound = Exports /\ ~message

(* Nothing of an engine is left but in the one at hand and the open ones. *)
Elsewhere == \A a \in Addresses : a \notin handles /\ a # this => engine[a] = NoEngine

Holding(fields) ==
    [live |-> {"engine"} \cup fields, refs |-> fields, linked |-> FALSE, code |-> "none",
     pages |-> "none"]

Loaded(e) ==
    /\ e.live = Resources /\ e.refs = Fields \ {"module"}
    /\ e.linked /\ e.code = "wasm_bytes"
    /\ e.pages \in {"none", "runtime"}

Opened == \A a \in handles : Loaded(engine[a])

(* What can be said of an engine wherever its destruction begins. *)
Consistent(e) ==
    /\ "engine" \in e.live
    /\ e.refs \subseteq e.live /\ e.live \subseteq e.refs \cup {"engine", "module"}
    /\ e.linked => "module" \in e.live /\ "module" \notin e.refs /\ "runtime" \in e.refs
    /\ "module" \in e.live => /\ e.linked \/ "module" \in e.refs
                              /\ e.code = "wasm_bytes" /\ "wasm_bytes" \in e.refs
    /\ "runtime" \in e.refs => "env" \in e.refs
    /\ e.pages = "runtime" => "runtime" \in e.refs
    /\ e.pages = "env" => "env" \in e.refs

Shape(location, e) ==
    /\ location = "copy" => e = Holding({})
    /\ location = "new_env" => e = Holding({"wasm_bytes"})
    /\ location = "new_runtime" => e = Holding({"wasm_bytes", "env"})
    /\ location = "parse" => e = Holding({"wasm_bytes", "env", "runtime"})
    /\ location = "load" => e = [Holding(Fields) EXCEPT !.code = "wasm_bytes"]
    /\ location \in {"bind", "returned"} => Loaded(e)
    /\ location \in Freeing => Consistent(e)
    /\ location \in Freeing \ {"free_module"} => "module" \notin e.refs
    /\ location \in {"free_env", "free_bytes", "free_engine"} =>
         "module" \notin e.live /\ "runtime" \notin e.refs /\ ~e.linked
    /\ location \in {"free_bytes", "free_engine"} => "env" \notin e.refs
    /\ location = "free_engine" => e.refs = {}

AtHand == this # Null => Shape(pc, engine[this])

LifeInv == TypeOK /\ Control /\ Elsewhere /\ Opened /\ AtHand

(* Every place of a creation leaves something wm_engine_destroy can take.   *)
LEMMA Destroyable ==
    ASSUME NEW e \in Engine, NEW location \in Creating \cup {"returned"}, Shape(location, e)
    PROVE  Consistent(e)
  BY DEF Creating, Shape, Holding, Loaded, Consistent, Fields, Resources, Engine, Freeing

(* The fields of an engine after one of them is given back.                  *)
LEMMA Dropped ==
    ASSUME NEW e \in Engine, NEW resource
    PROVE  LET d == Drop(e, resource) IN
           /\ d \in Engine
           /\ d.live = e.live \ {resource} /\ d.refs = e.refs \ {resource}
           /\ d.linked = e.linked /\ d.code = e.code /\ d.pages = e.pages
  BY DEF Drop, Engine

LEMMA WithoutModule ==
    ASSUME NEW e \in Engine, Shape("free_module", e), "module" \in e.refs
    PROVE  Drop(e, "module") \in Engine /\ Shape("free_runtime", Drop(e, "module"))
  BY Dropped DEF Shape, Freeing, Consistent, Engine, Fields, Resources

(* The runtime takes the linked module along and returns its code pages.    *)
LEMMA WithoutRuntime ==
    ASSUME NEW e \in Engine, Shape("free_runtime", e), "runtime" \in e.refs
    PROVE  LET d == Drop(e, "runtime")
               f == [d EXCEPT !.live = IF d.linked THEN @ \ {"module"} ELSE @,
                              !.linked = FALSE,
                              !.pages = IF d.pages = "runtime" THEN "env" ELSE @]
           IN  f \in Engine /\ Shape("free_env", f)
  <1> DEFINE d == Drop(e, "runtime")
             live == IF d.linked THEN d.live \ {"module"} ELSE d.live
             pages == IF d.pages = "runtime" THEN "env" ELSE d.pages
             f == [d EXCEPT !.live = live, !.linked = FALSE, !.pages = pages]
  <1>1. /\ d \in Engine
        /\ d.live = e.live \ {"runtime"} /\ d.refs = e.refs \ {"runtime"}
        /\ d.linked = e.linked /\ d.code = e.code /\ d.pages = e.pages
    BY Dropped
  <1> HIDE DEF d
  <1>2. /\ f \in Engine
        /\ f.live = live /\ f.refs = d.refs /\ ~f.linked /\ f.code = d.code /\ f.pages = pages
    <2>1. live \in SUBSET Resources /\ pages \in {"none", "runtime", "env"}
      BY <1>1 DEF Engine
    <2> HIDE DEF live, pages
    <2> QED
      BY <1>1, <2>1 DEF Engine
  <1> HIDE DEF f
  <1>3. Shape("free_env", f)
    BY <1>1, <1>2 DEF Shape, Freeing, Consistent, Fields
  <1> QED
    BY <1>2, <1>3 DEF f, d

LEMMA WithoutEnv ==
    ASSUME NEW e \in Engine, Shape("free_env", e), "env" \in e.refs
    PROVE  LET d == Drop(e, "env")
               f == [d EXCEPT !.pages = IF d.pages = "env" THEN "none" ELSE @]
           IN  f \in Engine /\ Shape("free_bytes", f)
  <1> DEFINE d == Drop(e, "env")
             pages == IF d.pages = "env" THEN "none" ELSE d.pages
             f == [d EXCEPT !.pages = pages]
  <1>1. /\ d \in Engine
        /\ d.live = e.live \ {"env"} /\ d.refs = e.refs \ {"env"}
        /\ d.linked = e.linked /\ d.code = e.code /\ d.pages = e.pages
    BY Dropped
  <1> HIDE DEF d
  <1>2. /\ f \in Engine
        /\ f.live = d.live /\ f.refs = d.refs /\ f.linked = d.linked
        /\ f.code = d.code /\ f.pages = pages
    <2>1. pages \in {"none", "runtime", "env"}
      BY <1>1 DEF Engine
    <2> HIDE DEF pages
    <2> QED
      BY <1>1, <2>1 DEF Engine
  <1> HIDE DEF f
  <1>3. Shape("free_bytes", f)
    BY <1>1, <1>2 DEF Shape, Freeing, Consistent, Fields
  <1> QED
    BY <1>2, <1>3 DEF f, d

LEMMA WithoutBytes ==
    ASSUME NEW e \in Engine, Shape("free_bytes", e), "wasm_bytes" \in e.refs
    PROVE  Drop(e, "wasm_bytes") \in Engine /\ Shape("free_engine", Drop(e, "wasm_bytes"))
  BY Dropped DEF Shape, Freeing, Consistent, Engine, Fields, Resources

(* What is left at the end is nothing.                                      *)
LEMMA WithoutEngine ==
    ASSUME NEW e \in Engine, Shape("free_engine", e)
    PROVE  [Drop(e, "engine") EXCEPT !.code = "none"] = NoEngine
  <1> DEFINE d == Drop(e, "engine")
             f == [d EXCEPT !.code = "none"]
  <1>1. /\ d \in Engine
        /\ d.live = e.live \ {"engine"} /\ d.refs = e.refs \ {"engine"}
        /\ d.linked = e.linked /\ d.code = e.code /\ d.pages = e.pages
    BY Dropped
  <1> HIDE DEF d
  <1>2. /\ f \in Engine
        /\ f.live = d.live /\ f.refs = d.refs /\ f.linked = d.linked
        /\ f.code = "none" /\ f.pages = d.pages
    BY <1>1 DEF Engine
  <1> HIDE DEF f
  <1>3. f.live = {} /\ f.refs = {} /\ ~f.linked /\ f.pages = "none"
    BY <1>1, <1>2 DEF Shape, Freeing, Consistent, Engine
  <1>4. f = NoEngine
    BY <1>2, <1>3 DEF Engine, NoEngine
  <1> QED
    BY <1>4 DEF f, d

(* Each acquisition adds its field to what is held.                         *)
LEMMA Acquired ==
    ASSUME NEW fields \in SUBSET Fields, NEW field \in Fields
    PROVE  /\ [Holding(fields) EXCEPT !.live = @ \cup {field}, !.refs = @ \cup {field}]
                = Holding(fields \cup {field})
           /\ Holding(fields \cup {field}) \in Engine
  <1> DEFINE h == Holding(fields)
             f == [h EXCEPT !.live = h.live \cup {field}, !.refs = h.refs \cup {field}]
  <1>1. /\ h \in Engine /\ h.live = {"engine"} \cup fields /\ h.refs = fields
        /\ ~h.linked /\ h.code = "none" /\ h.pages = "none"
        /\ Holding(fields \cup {field}) \in Engine
    BY DEF Holding, Engine, Fields, Resources
  <1> HIDE DEF h
  <1>2. /\ f \in Engine /\ f.live = h.live \cup {field} /\ f.refs = h.refs \cup {field}
        /\ f.linked = h.linked /\ f.code = h.code /\ f.pages = h.pages
    BY <1>1 DEF Engine, Fields, Resources
  <1> HIDE DEF f
  <1>3. f = Holding(fields \cup {field})
    BY <1>1, <1>2 DEF Engine, Holding
  <1> QED
    BY <1>1, <1>3 DEF f, h

(* A module that was parsed, and one that was loaded.                       *)
LEMMA ParsedModule ==
    LET f == [Holding({"wasm_bytes", "env", "runtime"}) EXCEPT
                !.live = @ \cup {"module"}, !.refs = @ \cup {"module"}, !.code = "wasm_bytes"]
    IN  f \in Engine /\ Shape("load", f)
  <1> DEFINE h == Holding({"wasm_bytes", "env", "runtime"})
             f == [h EXCEPT !.live = h.live \cup {"module"}, !.refs = h.refs \cup {"module"},
                            !.code = "wasm_bytes"]
             g == [Holding(Fields) EXCEPT !.code = "wasm_bytes"]
  <1>1. /\ h \in Engine /\ h.live = {"engine", "wasm_bytes", "env", "runtime"}
        /\ h.refs = {"wasm_bytes", "env", "runtime"}
        /\ ~h.linked /\ h.code = "none" /\ h.pages = "none"
    BY DEF Holding, Engine, Fields, Resources
  <1> HIDE DEF h
  <1>2. /\ f \in Engine /\ f.live = Resources /\ f.refs = Fields
        /\ ~f.linked /\ f.code = "wasm_bytes" /\ f.pages = "none"
    BY <1>1 DEF Engine, Fields, Resources
  <1>3. /\ g \in Engine /\ g.live = Resources /\ g.refs = Fields
        /\ ~g.linked /\ g.code = "wasm_bytes" /\ g.pages = "none"
    BY DEF Holding, Engine, Fields, Resources
  <1> HIDE DEF f, g
  <1>4. f = g
    BY <1>2, <1>3 DEF Engine
  <1> QED
    BY <1>2, <1>4 DEF Shape, Freeing, f, g, h

LEMMA LoadedModule ==
    ASSUME NEW e \in Engine, Shape("load", e)
    PROVE  LET f == [e EXCEPT !.refs = @ \ {"module"}, !.linked = TRUE]
           IN  f \in Engine /\ Loaded(f)
  <1> DEFINE f == [e EXCEPT !.refs = e.refs \ {"module"}, !.linked = TRUE]
  <1>1. /\ e.live = Resources /\ e.refs = Fields
        /\ e.code = "wasm_bytes" /\ e.pages = "none"
    BY DEF Shape, Holding, Fields, Resources
  <1>2. /\ f \in Engine /\ f.live = e.live /\ f.refs = e.refs \ {"module"}
        /\ f.linked /\ f.code = e.code /\ f.pages = e.pages
    BY <1>1 DEF Engine, Fields, Resources
  <1> QED
    BY <1>1, <1>2 DEF Loaded

LEMMA PagesStayLoaded ==
    ASSUME NEW e \in Engine, Loaded(e), NEW owner \in {e.pages, "runtime"}
    PROVE  [e EXCEPT !.pages = owner] \in Engine /\ Loaded([e EXCEPT !.pages = owner])
  BY DEF Loaded, Engine

-----------------------------------------------------------------------------

LEMMA Initial == Init => LifeInv
  <1> SUFFICES ASSUME Init PROVE LifeInv
    OBVIOUS
  <1>1. NoEngine \in Engine
    BY DEF NoEngine, Engine
  <1>2. TypeOK
    <2>1. engine \in [Addresses -> Engine]
      BY <1>1 DEF Init
    <2> QED
      <3>1. pc \in Locations /\ this \in Addresses \cup {Null} /\ bound \in 0 .. Exports
        BY DEF Init, Locations, Exports
      <3>2. handles \subseteq Addresses /\ callerBytes \in BOOLEAN /\ message \in BOOLEAN
        BY DEF Init
      <3> QED
        BY <2>1, <3>1, <3>2 DEF TypeOK
  <1>3. Control
    BY DEF Init, Control, Creating, Freeing
  <1> QED
    BY <1>2, <1>3 DEF Init, LifeInv, Elsewhere, Opened, AtHand

(* Work on one engine leaves the others as they are.                        *)
LEMMA OthersKept ==
    ASSUME LifeInv, this # Null, NEW e \in Engine, Set(e), UNCHANGED <<this, handles>>
    PROVE  /\ this \in Addresses /\ engine'[this] = e
           /\ engine' \in [Addresses -> Engine] /\ Elsewhere' /\ Opened'
  BY DEF LifeInv, TypeOK, Control, Elsewhere, Opened, Set

(* A refused creation goes on as a destruction.                             *)
LEMMA RefusalKept ==
    ASSUME LifeInv, pc \in Creating, Refuse, UNCHANGED <<this, handles, callerBytes>>,
           NEW e \in Engine, Shape(pc, e), Set(e)
    PROVE  LifeInv'
  <1>1. this # Null
    BY DEF LifeInv, Control
  <1>2. Consistent(e)
    BY Destroyable DEF Creating
  <1>3. Shape("free_module", e)
    BY <1>2 DEF Shape, Freeing
  <1>4. TypeOK' /\ Elsewhere' /\ Opened' /\ AtHand'
    BY <1>1, <1>3, OthersKept DEF LifeInv, TypeOK, Refuse, Goto, AtHand, Locations
  <1>5. Control'
    BY <1>1 DEF LifeInv, Control, Refuse, Goto, Creating, Freeing
  <1> QED
    BY <1>4, <1>5 DEF LifeInv

LEMMA AcquireKept ==
    ASSUME LifeInv, NEW field, NEW at, NEW next, NEW fields, Acquire(field, at, next),
           <<field, at, next, fields>> \in
             {<<"wasm_bytes", "copy", "new_env", {}>>,
              <<"env", "new_env", "new_runtime", {"wasm_bytes"}>>,
              <<"runtime", "new_runtime", "parse", {"wasm_bytes", "env"}>>}
    PROVE  LifeInv'
  <1>1. /\ this # Null /\ this \in Addresses /\ engine[this] \in Engine
        /\ pc = at /\ at \in Creating \ {"bind"} /\ next \in Creating \ {"bind"}
    BY DEF LifeInv, Control, TypeOK, Acquire, Creating
  <1>2. Shape(pc, engine[this]) /\ engine[this] = Holding(fields)
    BY <1>1 DEF LifeInv, AtHand, Shape
  <1>3. fields \in SUBSET Fields /\ field \in Fields
    BY DEF Fields, Resources
  <1>4. CASE Set([engine[this] EXCEPT !.live = @ \cup {field}, !.refs = @ \cup {field}])
             /\ Advance(next)
    <2>1. Set(Holding(fields \cup {field})) /\ Holding(fields \cup {field}) \in Engine
      BY <1>2, <1>3, <1>4, Acquired
    <2>2. Shape(next, Holding(fields \cup {field}))
      BY DEF Shape, Freeing
    <2>3. TypeOK' /\ Elsewhere' /\ Opened' /\ AtHand'
      BY <1>1, <1>4, <2>1, <2>2, OthersKept
      DEF LifeInv, TypeOK, Acquire, Advance, Goto, AtHand, Locations, Creating
    <2>4. Control'
      BY <1>1, <1>4 DEF LifeInv, Control, Acquire, Advance, Goto, Creating, Freeing
    <2> QED
      BY <2>3, <2>4 DEF LifeInv
  <1>5. CASE Refuse /\ UNCHANGED engine
    <2>1. Set(engine[this])
      BY <1>1, <1>5 DEF Set, LifeInv, TypeOK
    <2> QED
      BY <1>1, <1>2, <1>5, <2>1, RefusalKept DEF Acquire
  <1> QED
    BY <1>4, <1>5 DEF Acquire

LEMMA ParseKept ==
    ASSUME LifeInv, Parse
    PROVE  LifeInv'
  <1> DEFINE f == [engine[this] EXCEPT !.live = @ \cup {"module"}, !.refs = @ \cup {"module"},
                                       !.code = "wasm_bytes"]
  <1>1. /\ this # Null /\ this \in Addresses /\ engine[this] \in Engine
        /\ pc = "parse" /\ pc \in Creating
    BY DEF LifeInv, Control, TypeOK, Parse, Creating
  <1>2. /\ Shape(pc, engine[this])
        /\ engine[this] = Holding({"wasm_bytes", "env", "runtime"})
    BY <1>1 DEF LifeInv, AtHand, Shape
  <1>3. CASE Set(f) /\ Advance("load")
    <2>1. f \in Engine /\ Shape("load", f)
      BY <1>2, ParsedModule
    <2> HIDE DEF f
    <2>2. TypeOK' /\ Elsewhere' /\ Opened' /\ AtHand'
      BY <1>1, <1>3, <2>1, OthersKept
      DEF LifeInv, TypeOK, Parse, Advance, Goto, AtHand, Locations
    <2>3. Control'
      BY <1>1, <1>3 DEF LifeInv, Control, Parse, Advance, Goto, Creating, Freeing
    <2> QED
      BY <2>2, <2>3 DEF LifeInv
  <1>4. CASE Refuse /\ UNCHANGED engine
    <2>1. Set(engine[this])
      BY <1>1, <1>4 DEF Set, LifeInv, TypeOK
    <2> QED
      BY <1>1, <1>2, <1>4, <2>1, RefusalKept DEF Parse
  <1> QED
    BY <1>3, <1>4 DEF Parse

LEMMA LoadKept ==
    ASSUME LifeInv, Load
    PROVE  LifeInv'
  <1> DEFINE f == [engine[this] EXCEPT !.refs = @ \ {"module"}, !.linked = TRUE]
  <1>1. /\ this # Null /\ this \in Addresses /\ engine[this] \in Engine
        /\ pc = "load" /\ pc \in Creating
    BY DEF LifeInv, Control, TypeOK, Load, Creating
  <1>2. Shape(pc, engine[this])
    BY <1>1 DEF LifeInv, AtHand
  <1>3. CASE Set(f) /\ Advance("bind")
    <2>1. f \in Engine /\ Loaded(f)
      BY <1>1, <1>2, LoadedModule
    <2>2. Shape("bind", f)
      BY <2>1 DEF Shape, Freeing
    <2> HIDE DEF f
    <2>3. TypeOK' /\ Elsewhere' /\ Opened' /\ AtHand'
      BY <1>1, <1>3, <2>1, <2>2, OthersKept
      DEF LifeInv, TypeOK, Load, Advance, Goto, AtHand, Locations
    <2>4. Control'
      BY <1>1, <1>3 DEF LifeInv, Control, Load, Advance, Goto, Creating, Freeing, Exports
    <2> QED
      BY <2>3, <2>4 DEF LifeInv
  <1>4. CASE Refuse /\ UNCHANGED engine
    <2>1. Set(engine[this])
      BY <1>1, <1>4 DEF Set, LifeInv, TypeOK
    <2> QED
      BY <1>1, <1>2, <1>4, <2>1, RefusalKept DEF Load
  <1> QED
    BY <1>3, <1>4 DEF Load

LEMMA BindKept ==
    ASSUME LifeInv, Bind
    PROVE  LifeInv'
  <1>1. /\ this # Null /\ this \in Addresses /\ engine[this] \in Engine
        /\ pc = "bind" /\ pc \in Creating /\ bound \in 0 .. 2
    BY DEF LifeInv, Control, TypeOK, Bind, Creating, Exports
  <1>2. PICK owner \in {engine[this].pages, "runtime"} :
          Set([engine[this] EXCEPT !.pages = owner])
    BY DEF Bind
  <1> DEFINE f == [engine[this] EXCEPT !.pages = owner]
  <1>3. f \in Engine /\ Loaded(f)
    BY <1>1, PagesStayLoaded DEF LifeInv, AtHand, Shape
  <1> HIDE DEF f
  <1>4. Shape("bind", f) /\ Shape("returned", f)
    BY <1>3 DEF Shape, Freeing
  <1>5. CASE /\ bound' = bound + 1
             /\ Goto(IF bound' = Exports THEN "returned" ELSE "bind")
             /\ UNCHANGED message
    <2>1. TypeOK' /\ Elsewhere' /\ Opened' /\ AtHand'
      BY <1>1, <1>2, <1>3, <1>4, <1>5, OthersKept
      DEF LifeInv, TypeOK, Bind, Goto, AtHand, Locations, Exports, f
    <2>2. Control'
      BY <1>1, <1>5 DEF LifeInv, Control, Bind, Goto, Creating, Freeing, Exports
    <2> QED
      BY <2>1, <2>2 DEF LifeInv
  <1>6. CASE Refuse
    BY <1>1, <1>2, <1>3, <1>4, <1>6, RefusalKept DEF Bind, f
  <1> QED
    BY <1>5, <1>6 DEF Bind

(* A release that leaves the engine as the next place expects it.           *)
LEMMA ReleaseKept ==
    ASSUME LifeInv, NEW at, NEW field, NEW released, NEW next,
           Release(at, field, released, next),
           <<at, next>> \in {<<"free_module", "free_runtime">>, <<"free_runtime", "free_env">>,
                             <<"free_env", "free_bytes">>, <<"free_bytes", "free_engine">>},
           IF field \in engine[this].refs
           THEN released \in Engine /\ Shape(next, released)
           ELSE Shape(next, engine[this])
    PROVE  LifeInv'
  <1>1. /\ this # Null /\ this \in Addresses /\ engine[this] \in Engine
        /\ pc = at /\ at \in Freeing /\ next \in Freeing
    BY DEF LifeInv, Control, TypeOK, Release, Freeing
  <1>2. PICK e \in Engine : Set(e) /\ Shape(next, e)
    <2>1. CASE field \in engine[this].refs
      BY <2>1 DEF Release
    <2>2. CASE field \notin engine[this].refs
      BY <1>1, <2>2 DEF Release, Set, LifeInv, TypeOK
    <2> QED
      BY <2>1, <2>2
  <1>3. TypeOK' /\ Elsewhere' /\ Opened' /\ AtHand'
    BY <1>1, <1>2, OthersKept
    DEF LifeInv, TypeOK, Release, Advance, Goto, AtHand, Locations, Freeing
  <1>4. Control'
    BY <1>1 DEF LifeInv, Control, Release, Advance, Goto, Creating, Freeing
  <1> QED
    BY <1>3, <1>4 DEF LifeInv

LEMMA FreesKept ==
    ASSUME LifeInv, FreeModule \/ FreeRuntime \/ FreeEnv \/ FreeBytes
    PROVE  LifeInv'
  <1>1. /\ this # Null /\ engine[this] \in Engine /\ Shape(pc, engine[this])
        /\ pc \in {"free_module", "free_runtime", "free_env", "free_bytes"}
    BY DEF LifeInv, Control, TypeOK, AtHand, Freeing, FreeModule, FreeRuntime, FreeEnv, FreeBytes,
           Release
  <1>2. CASE FreeModule
    <2>1. Shape("free_module", engine[this])
      BY <1>1, <1>2 DEF FreeModule, Release
    <2>2. "module" \notin engine[this].refs => Shape("free_runtime", engine[this])
      BY <2>1 DEF Shape, Freeing
    <2> QED
      BY <1>1, <1>2, <2>1, <2>2, WithoutModule, ReleaseKept DEF FreeModule
  <1>3. CASE FreeRuntime
    <2>1. Shape("free_runtime", engine[this])
      BY <1>1, <1>3 DEF FreeRuntime, Release
    <2>2. "runtime" \notin engine[this].refs => Shape("free_env", engine[this])
      BY <2>1 DEF Shape, Freeing, Consistent
    <2> QED
      BY <1>1, <1>3, <2>1, <2>2, WithoutRuntime, ReleaseKept DEF FreeRuntime
  <1>4. CASE FreeEnv
    <2>1. Shape("free_env", engine[this])
      BY <1>1, <1>4 DEF FreeEnv, Release
    <2>2. "env" \notin engine[this].refs => Shape("free_bytes", engine[this])
      BY <2>1 DEF Shape, Freeing
    <2> QED
      BY <1>1, <1>4, <2>1, <2>2, WithoutEnv, ReleaseKept DEF FreeEnv
  <1>5. CASE FreeBytes
    <2>1. Shape("free_bytes", engine[this])
      BY <1>1, <1>5 DEF FreeBytes, Release
    <2>2. "wasm_bytes" \notin engine[this].refs => Shape("free_engine", engine[this])
      <3>1. /\ engine[this].refs \in SUBSET Fields
            /\ {"module", "runtime", "env"} \cap engine[this].refs = {}
        BY <1>1, <2>1 DEF Shape, Freeing, Engine
      <3>2. "wasm_bytes" \notin engine[this].refs => engine[this].refs = {}
        BY <3>1 DEF Fields, Resources
      <3> QED
        BY <2>1, <3>2 DEF Shape, Freeing
    <2> QED
      BY <1>1, <1>5, <2>1, <2>2, WithoutBytes, ReleaseKept DEF FreeBytes
  <1> QED
    BY <1>2, <1>3, <1>4, <1>5

LEMMA FreeEngineKept ==
    ASSUME LifeInv, FreeEngine
    PROVE  LifeInv'
  <1>1. /\ this # Null /\ this \in Addresses /\ engine[this] \in Engine
        /\ pc = "free_engine" /\ Shape("free_engine", engine[this])
    BY DEF LifeInv, Control, TypeOK, AtHand, Freeing, FreeEngine
  <1>2. NoEngine \in Engine
    BY DEF NoEngine, Engine
  <1>3. engine' = [engine EXCEPT ![this] = NoEngine]
    BY <1>1, WithoutEngine DEF FreeEngine, Set
  <1>4. TypeOK'
    <2>1. engine' \in [Addresses -> Engine]
      BY <1>1, <1>2, <1>3 DEF LifeInv, TypeOK
    <2> QED
      BY <2>1 DEF LifeInv, TypeOK, FreeEngine, Goto, Locations
  <1>5. Control'
    BY <1>1, NullAssumption DEF LifeInv, Control, TypeOK, FreeEngine, Goto, Creating, Freeing
  <1>6. Elsewhere' /\ Opened' /\ AtHand'
    BY <1>1, <1>3 DEF LifeInv, TypeOK, Control, Elsewhere, Opened, AtHand, FreeEngine
  <1> QED
    BY <1>4, <1>5, <1>6 DEF LifeInv

LEMMA CallocKept ==
    ASSUME LifeInv, Calloc
    PROVE  LifeInv'
  <1>1. pc = "calloc" /\ this = Null /\ UNCHANGED <<handles, callerBytes>>
    BY DEF LifeInv, Control, Calloc
  <1>2. CASE \E a \in Addresses :
               /\ engine[a].live = {}
               /\ this' = a
               /\ engine' = [engine EXCEPT ![a].live = {"engine"}]
               /\ Advance("copy")
    <2>1. PICK a \in Addresses :
             /\ engine[a].live = {}
             /\ this' = a
             /\ engine' = [engine EXCEPT ![a].live = {"engine"}]
             /\ Advance("copy")
      BY <1>2
    <2>2. a \notin handles
      BY <2>1 DEF LifeInv, Opened, Loaded, Resources
    <2>3. engine[a] = NoEngine
      BY <1>1, <2>2, NullAssumption DEF LifeInv, Elsewhere
    <2>4. [NoEngine EXCEPT !.live = {"engine"}] = Holding({}) /\ Holding({}) \in Engine
      <3> DEFINE f == [NoEngine EXCEPT !.live = {"engine"}]
      <3>1. NoEngine \in Engine
        BY DEF NoEngine, Engine
      <3>2. /\ f \in Engine /\ f.live = {"engine"} /\ f.refs = NoEngine.refs
            /\ f.linked = NoEngine.linked /\ f.code = NoEngine.code /\ f.pages = NoEngine.pages
        BY <3>1 DEF Engine, Resources
      <3> HIDE DEF f
      <3>3. NoEngine.refs = {} /\ ~NoEngine.linked /\ NoEngine.code = "none" /\ NoEngine.pages = "none"
        BY DEF NoEngine
      <3>4. f = Holding({}) /\ Holding({}) \in Engine
        BY <3>2, <3>3 DEF Engine, Holding, Resources
      <3> QED
        BY <3>4 DEF f
    <2>5. engine' = [engine EXCEPT ![a] = Holding({})]
      BY <2>1, <2>3, <2>4 DEF LifeInv, TypeOK
    <2>6. TypeOK'
      <3>1. engine' \in [Addresses -> Engine]
        BY <2>4, <2>5 DEF LifeInv, TypeOK
      <3> QED
        BY <1>1, <2>1, <3>1 DEF LifeInv, TypeOK, Advance, Goto, Locations
    <2>7. Control'
      BY <1>1, <2>1, <2>2, NullAssumption
      DEF LifeInv, Control, Advance, Goto, Creating, Freeing
    <2>8. Elsewhere' /\ Opened' /\ AtHand'
      BY <1>1, <2>1, <2>2, <2>5, NullAssumption
      DEF LifeInv, TypeOK, Elsewhere, Opened, AtHand, Shape, Advance, Goto, Freeing
    <2> QED
      BY <2>6, <2>7, <2>8 DEF LifeInv
  <1>3. CASE /\ Goto("returned") /\ message' \in BOOLEAN
             /\ UNCHANGED <<this, engine, bound>>
    BY <1>1, <1>3
    DEF LifeInv, TypeOK, Control, Elsewhere, Opened, AtHand, Goto, Locations, Creating, Freeing
  <1> QED
    BY <1>2, <1>3 DEF Calloc

LEMMA CallerKept ==
    ASSUME LifeInv,
           Create \/ TakeHandle \/ \E a \in Addresses : Compile(a) \/ Destroy(a)
    PROVE  LifeInv'
  <1> USE NullAssumption DEF LifeInv
  <1>1. CASE Create
    BY <1>1 DEF Create, TypeOK, Control, Elsewhere, Opened, AtHand, Goto, Locations, Creating,
       Freeing
  <1>2. CASE TakeHandle
    <2>1. this # Null => Loaded(engine[this]) /\ this \in Addresses
      BY <1>2 DEF TakeHandle, AtHand, Shape, TypeOK
    <2>2. TypeOK'
      <3>1. handles' \subseteq Addresses
        BY <1>2, <2>1 DEF TakeHandle, TypeOK
      <3>2. bound' \in 0 .. Exports /\ callerBytes' \in BOOLEAN /\ message' \in BOOLEAN
        <4>1. bound' = 0 /\ callerBytes' = FALSE /\ message' = FALSE
          BY <1>2 DEF TakeHandle
        <4>2. bound' \in 0 .. Exports
          BY <4>1 DEF Exports
        <4> QED
          BY <4>1, <4>2, Zenon
      <3> QED
        BY <1>2, <3>1, <3>2 DEF TakeHandle, TypeOK, Goto, Locations
    <2>4. Control'
      BY <1>2, <2>1 DEF TakeHandle, TypeOK, Control, Goto, Creating, Freeing
    <2>3. Elsewhere' /\ Opened' /\ AtHand'
      BY <1>2, <2>1 DEF TakeHandle, Elsewhere, Opened, AtHand
    <2> QED
      BY <2>2, <2>3, <2>4
  <1>3. ASSUME NEW a \in Addresses, Compile(a)
        PROVE  LifeInv'
    <2>1. engine[a] \in Engine /\ Loaded(engine[a]) /\ a \in handles /\ this = Null
      BY <1>3 DEF Compile, TypeOK, Opened, Control
    <2>2. engine' = [engine EXCEPT ![a] = [engine[a] EXCEPT !.pages = "runtime"]]
      BY <1>3 DEF Compile
    <2>3. /\ [engine[a] EXCEPT !.pages = "runtime"] \in Engine
          /\ Loaded([engine[a] EXCEPT !.pages = "runtime"])
      BY <2>1, PagesStayLoaded
    <2>4. engine' \in [Addresses -> Engine] /\ Elsewhere' /\ Opened'
      BY <1>3, <2>1, <2>2, <2>3 DEF Compile, TypeOK, Elsewhere, Opened
    <2> QED
      BY <1>3, <2>1, <2>4 DEF Compile, TypeOK, Control, AtHand
  <1>4. ASSUME NEW a \in Addresses, Destroy(a)
        PROVE  LifeInv'
    <2>1. Loaded(engine[a]) /\ engine[a] \in Engine /\ this = Null
      BY <1>4 DEF Destroy, Opened, TypeOK, Control
    <2>2. Shape("free_module", engine[a])
      BY <2>1, Destroyable DEF Shape, Freeing, Creating
    <2>3. TypeOK' /\ Control'
      BY <1>4, <2>1 DEF Destroy, TypeOK, Control, Goto, Locations, Creating, Freeing
    <2>4. Elsewhere' /\ Opened' /\ AtHand'
      BY <1>4, <2>1, <2>2 DEF Destroy, Elsewhere, Opened, AtHand, Goto
    <2> QED
      BY <2>3, <2>4
  <1> QED
    BY <1>1, <1>2, <1>3, <1>4

LEMMA Inductive == LifeInv /\ [Next]_vars => LifeInv'
  <1> SUFFICES ASSUME LifeInv, [Next]_vars PROVE LifeInv'
    OBVIOUS
  <1>1. CASE \/ Acquire("wasm_bytes", "copy", "new_env")
             \/ Acquire("env", "new_env", "new_runtime")
             \/ Acquire("runtime", "new_runtime", "parse")
    BY <1>1, AcquireKept
  <1>2. CASE Calloc \/ Parse \/ Load \/ Bind
    BY <1>2, CallocKept, ParseKept, LoadKept, BindKept
  <1>3. CASE FreeModule \/ FreeRuntime \/ FreeEnv \/ FreeBytes \/ FreeEngine
    BY <1>3, FreesKept, FreeEngineKept
  <1>4. CASE Create \/ TakeHandle \/ \E a \in Addresses : Compile(a) \/ Destroy(a)
    BY <1>4, CallerKept
  <1>5. CASE UNCHANGED vars
    BY <1>5 DEF vars, LifeInv, TypeOK, Control, Elsewhere, Opened, AtHand
  <1> QED
    BY <1>1, <1>2, <1>3, <1>4, <1>5 DEF Next, Step

-----------------------------------------------------------------------------

(* At every place of a creation or a destruction exactly what the code      *)
(* relies on is allocated, and nothing besides the open engines elsewhere.  *)
THEOREM LifecycleInvariant == Spec => []LifeInv
  BY Initial, Inductive, PTL DEF Spec

(* The variables hold what their declarations say, for any number of        *)
(* engines.                                                                 *)
THEOREM TypeCorrect == Spec => []TypeOK
  <1>1. LifeInv => TypeOK
    BY DEF LifeInv
  <1> QED
    BY <1>1, LifecycleInvariant, PTL

(* No call of wm_engine_destroy, by a caller or on a failure path, releases *)
(* what is not live or reads what was freed.                                *)
THEOREM ReleasesSafe == Spec => []ReleasesLive
  <1>1. LifeInv => ReleasesLive
    BY DEF LifeInv, TypeOK, AtHand, Shape, Consistent, Freeing, ReleasesLive
  <1> QED
    BY <1>1, LifecycleInvariant, PTL

(* A module is never left without the bytes it reads its code from.         *)
THEOREM CodeSafe == Spec => []CodeOutlivesModule
  <1>1. LifeInv => CodeOutlivesModule
    <2> SUFFICES ASSUME LifeInv, NEW a \in Addresses, "module" \in engine[a].live
                 PROVE  engine[a].code = "wasm_bytes" /\ "wasm_bytes" \in engine[a].live
      BY DEF CodeOutlivesModule
    <2>1. CASE a \in handles
      BY <2>1 DEF LifeInv, Opened, Loaded, Resources
    <2>2. CASE a = this
      <3>1. Consistent(engine[a])
        <4>1. this # Null /\ Shape(pc, engine[a]) /\ engine[a] \in Engine
          BY <2>2, NullAssumption DEF LifeInv, AtHand, TypeOK
        <4>2. pc \in Creating \cup {"returned"} \cup Freeing
          BY <4>1 DEF LifeInv, Control, TypeOK, Locations, Creating, Freeing
        <4> QED
          BY <4>1, <4>2, Destroyable DEF Shape
      <3> QED
        BY <3>1 DEF Consistent
    <2>3. CASE a \notin handles /\ a # this
      BY <2>3 DEF LifeInv, Elsewhere, NoEngine
    <2> QED
      BY <2>1, <2>2, <2>3
  <1> QED
    BY <1>1, LifecycleInvariant, PTL

(* Between calls nothing but the open engines is allocated.                 *)
THEOREM NoLeak == Spec => []NothingLeaks
  <1>1. LifeInv => NothingLeaks
    BY NullAssumption DEF LifeInv, Control, Elsewhere, NothingLeaks
  <1> QED
    BY <1>1, LifecycleInvariant, PTL

(* What a host holds is a whole engine, and it came without an error.       *)
THEOREM HandlesWhole == Spec => []HandleIsWhole
  <1>1. LifeInv => HandleIsWhole
    BY DEF LifeInv, Control, Opened, Loaded, HandleIsWhole
  <1> QED
    BY <1>1, LifecycleInvariant, PTL
=============================================================================
