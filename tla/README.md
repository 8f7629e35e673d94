# Formal models of wasm-mobile

TLA+ specifications of wasm-mobile: feature-flag logic written once in Rust,
compiled to WebAssembly, and run by an Android and an iOS SDK through a C bridge
around the wasm3 interpreter. The modules are model-checked with TLC and the
main results about them are proved with TLAPS. `PROJECT.json` names, for every
definition, the lines of the repository it stands for.

## The system

| Component | State | Operations | Talks to | What is hard |
|---|---|---|---|---|
| Shared core, `shared-core/src/lib.rs` | none between calls | `evaluate_json_bytes`: parse, validate, apply the rules | called through the three wasm exports | order of faults and matches, types, indices |
| Guest ABI, same file | guest heap | `wasm_alloc`, `wasm_free`, `evaluate_feature_flag` | returns pointers as `i32` and pointer/length packed in an `i64` | signs and widths, who frees what, traps |
| Host bridge, `shared-core/host-bridge/wasm_host_runtime.c` | `struct wm_engine`, the locals of a call | `wm_engine_create`, `wm_engine_evaluate`, `wm_engine_destroy` | wasm3; the SDKs | ownership on every failure path, memory that moves when it grows |
| Android SDK, `android-host/sdk` (Kotlin, JNI) | `engineHandle` | `fromBundledWasm`, `evaluate`, `close` | the bridge through JNI | stale handles, buffers, objects never closed |
| iOS SDK, `ios-host` (Swift package; app with an Objective-C bridge) | `handle` | `init`, `evaluate`, `close`, `deinit` | the bridge | the same, with other places where buffers are freed |
| Configuration of the native build, the probes under `android-host/sdk/.cxx` | none; what a probe says ends up in CMake's cache | decide compiler, version, target, standard and extensions from predefined macros | compilers; CMake | compilers that pretend to be others, versions packed in many ways |
| Scripts, `scripts/*.sh` | the artifact, its two copies, `artifacts/metrics` | build, sync, test, four benchmarks | each other, through files | scripts that die half-way, stale files |
| wasm3, `third_party/wasm3` | | | | vendored: external, by the contract the bridge relies on |

Control flows straight down: an app calls its SDK object, which calls the
bridge, which makes four kinds of call into the guest, which calls the core;
there are no callbacks, queues or threads of the library's own. What is hard is
memory that several parties own in turn, the failure paths, and what a
long-lived engine is like after them. Data flows up as one JSON envelope.

## Modules

### Shared core

* `FlagVerdict`: requests, answers, and the declarative verdict of a request. It
  speaks of the first faulty rule and of the first rule that decides.
* `FlagEvaluation`: the abstract machine. An input is taken and answered by its
  verdict in one step; nothing is kept for the next one.
* `FeatureFlagCore`: `evaluate_json_bytes` with one step per iteration of the
  two loops. `phase` is the control location and `index` the loop variable.
  Early returns are `Finish`. `Parse` is `serde_json::from_slice`, whose input
  either is `Malformed` or is the request it parses to.
* `MCFeatureFlagCore`, `FeatureFlagCore_proofs`.

Numbers are integers in the model. A JSON number is a finite `f64`, so `==` and
`>=` on them are the order the integers have; `-0.0` and `0.0` are one value. An
answer stands for its bytes: serialising it cannot fail for these types, so the
`INTERNAL_ERROR` fallback of lines 146-155 is unreachable and left out.

### Host bridge

* `HostBridge`: `wm_engine_evaluate`, one action per guest call, check, copy and
  release, with `pc` as the place in the function. `request` and `response` are
  the pointer/length pairs, `memory` is the memory the local `memory` pointer
  was taken from (its size stands for its base: growing moves it), `result` and
  `message` are the outcome and `*error_out`. The guest side is part of it:
  `heap` are the blocks handed across the ABI or left by a failed call,
  `memorySize` grows, `lastCalled` and `returned` are wasm3's one set of
  results. `CallFree(site)` is `wm_call_free` at its four kinds of call site.
  The guest panics into an `unreachable` and unwinds nothing, so `GuestTraps`
  leaves any part of the free memory allocated, from nothing to all of it
  (strings, the rules, the maps of a half-done evaluation), in a memory that may
  have grown for it. The history variable `lost` names what failed calls left.
* `PackedResult`: the conversions of the ABI bit by bit; `HostBridge` passes the
  pair.
* `EngineLifecycle`: `wm_engine_create` and `wm_engine_destroy`. Each engine is
  a record of what is allocated (`live`), which fields are not NULL (`refs`), who
  has the module (`linked`), which bytes it reads (`code`) and who has the
  code pages (`pages`). Every acquisition may fail, which leads into the same
  `Free...` actions a close runs.
* `MCHostBridge`, `MCEngineLifecycle`, `HostBridge_proofs`, `PackedResult_proofs`.

### A call from end to end

* `FlagCall`: what a host may expect of `wm_engine_evaluate`. A text is asked and
  comes back with the verdict of that very text, or is refused.
* `EndToEnd`: `HostBridge` composed with `FeatureFlagCore` over the bytes of the
  guest's linear memory, and shown to implement `FlagCall`. An action of the
  bridge is conjoined with what it does to `bytes`; while the bridge waits in
  `m3_Call` (`pc = "evaluate"`) the core steps. What the core parses is what it
  finds at the pointer it was given, and its answer is stored where the guest
  allocated it. A byte is known by its document (a text, an answer, or `Blank`) and its
  position there, so that a part, a mixture or a left-over of two documents is
  none. Freed bytes are blank, as the allocator writes its lists into them; the
  memory that grows keeps its bytes, but a copy through a pointer into where it was
  before goes astray.
* `MCEndToEnd`, `EndToEnd_proofs`.

### SDKs

* `FlagService`: what an app may expect of its objects.
* `FeatureFlagEngine`: the class of that name on three platforms (Android SDK,
  Swift package, iOS app), which differ in three places: whether encoding or the
  conversion of the response can fail, where the buffers of the bridge are freed,
  and whether a dropped object closes. JNI and the Objective-C bridge free the
  error string first (`Convert`) and the response once it is copied (`Copy`), and
  nothing frees later what they forget; the package holds both until its `defer`
  block runs (`Return`). A native engine is an address and its
  owner; addresses are reused. Objects run on threads of their own and
  interleave; one object is used by one thread at a time.
* `MCFeatureFlagEngine`, `FeatureFlagEngine_proofs`.

### Configuration of the native build

CMake 3.22 generated the two probes, and the tree keeps them beside the
configuration of `feature_flag_jni` they led to. A probe is compiled and never
run: CMake reads the strings left in its object file.

* `Compilers` (external): the macros a compiler predefines, as the conditions and
  comments of the probes describe them: whose they are, how versions are packed
  into them, and which macros of other compilers come along. `WellFormed` says which
  toolchains there are: how many digits a vendor has for each part of its version,
  whom it pretends to be, and what it compiles for.
* `VersionDigits`: `DEC` and `HEX`, which write a number as digits.
* `CompilerProbe`: the cascades of the two probes in their order (compiler,
  simulated compiler, platform, architecture, standard, extensions) and the
  version each branch reads back. A toolchain is chosen at the start; `ProbeC` and
  `ProbeCXX` are the two compilations, either of which may end in its `#error`.
* `MCCompilerProbe`, `CompilerProbe_proofs`.

Left out: the internal version, the marker of the Cray wrapper and the one of
QNX. The patch of Intel's classic compilers from 2021 on reads as 0, because no
macro that would give it is in the model. Before 2021 those compilers are in
`Compilers` without `__INTEL_COMPILER_UPDATE`, so that the branch that reads the patch
from it (lines 37-38 of the C probe) is translated and never taken. `__GNUG__` is only ever defined with
`__GNUC__`.

### Scripts

* `DeviceMetrics`: each script is the list of its steps that change a file. Any
  step may be the last one (`set -e`, an interrupt), and the source may be
  edited at any time. A phone's payload may be the stub's; `validate_json_payload`
  then ends the script, and the file of an earlier run stays (`Device`).
* `DeviceMetrics_proofs`.

## Runs

| Run | Bounds | Distinct states | Shows |
|---|---|---|---|
| `core` | two attributes, lists of at most 2 of 22 rules (each operator, three values, each fault), all contexts | 57,527 | `AnswerIsVerdict`, `NothingAppliedUnvetted`, `ImplementsFlagEvaluation`, `EveryCallReturns` |
| `bridge` | 4-bit addresses, memory of 4 growing to 7 bytes, requests of 0, 1, 2 and 9 bytes, responses of 1 and 2, 2 failed guest calls per engine | 51,687 | `CopiesInLiveBlock`, `FreesLiveBlock`, `OnlyFailuresLeak`, `ResultsReadInTime`, `ResponseXorError`, `RefusesOnlyOversized`, `EveryCallReturns` |
| `endtoend` | the same addresses and memory; five texts: two requests with different verdicts, one that does not parse, the empty one, one with a negative length; 2 failed guest calls | 141,308 | `RequestReachesCore`, `ResponseIsVerdict`, `ImplementsFlagCall`, `CallComesCloser`, `EveryRequestReturns` |
| `packing` | 4-bit words, every pointer and length | 768 | `RoundTrip` |
| `lifecycle` | two addresses | 656 | `ReleasesLive`, `CodeOutlivesModule`, `NothingLeaks`, `HandleIsWhole`, `CreateReturns` |
| `sdk` | one object of each platform, two addresses | 17,700 | `UsesOwnEngine`, `EnginesAccounted`, `BuffersReleased`, `ImplementsFlagService`, `EvaluateReturns` |
| `probe` | 606 toolchains | 1,803 | `IdentifiesCompiler`, `VersionReadBack`, `IdentifiesTarget`, `NdkAsRecorded` |
| `metrics` | three scripts, two versions of the source | 39,402 | `HostsAgree`, `MeasuresOwnBuild`, `SummaryOfOneRun` |
| `metrics_docs` | two scripts, one version | until refuted | `IosFieldsStayNull` does not hold |

Why the bounds are enough. In `core` two rules already give every pair of a
fault or match and what it may hide, at both ends of the list; the theorems
lift it to all lists. In `bridge` a request of 9 bytes has a negative `i32`
length in four bits, 0 is the empty one, 1 and 2 fit or need growth; memory can
fill up with what one failed call leaves; two faults allow one in `wasm_free` on top of any
other. `MaxFaults` stops an engine from being called again, not from failing. In
`endtoend` the memory holds two or three documents, so that places are used again
for later requests and responses and by calls after a trap; the two requests
differ in their verdict, so that an answer to the wrong one shows. `probe` has
every compiler the probes know, at the versions where its packing changes or a
digit carries (0, 9, 10, 99, ...), pretending to be each compiler it can pretend
to be, every target the probes tell apart, C++ drivers called for C, and the NDK's
Clang with and without `-std=c++17`.
`lifecycle` needs two addresses so that one engine is destroyed or refused
while another is open. `sdk` needs more objects than addresses, so that creation
fails and addresses are reused at once. `metrics` needs three scripts: one that
leaves old files, one that dies, one that reads them.

Deadlock is checked except in `packing` (one value, then the end), in `probe` (two
probes, then the end) and in the `metrics` runs, where the bound on the number of scripts ends the behaviour.

Fairness. `core`, `bridge` and `lifecycle` assume weak fairness of the steps
inside a call: straight-line code on the caller's thread, in which a step that
can run does run. Calls themselves, failures and closes are never forced.
That guest functions terminate is assumed in `bridge` and is what `core` checks
of the loops. `endtoend` does not assume it: there the core's own steps are what
the guest's call consists of, and fairness is of `SystemProgress`, the steps of a
call. A trap is among them only once the answer is found, when allocating the
response may be impossible; before that nothing obliges the guest to trap. `sdk` assumes it of each thread that is inside the SDK.

## What disagrees with the documentation

`metrics_docs`: `docs/REPORT.md` says the iOS fields of `device-summary.json`
stay `null` until a script with an iPhone completes, and a comment in
`bench_android_device.sh` that iOS is left unset. Line 144 of that script sets
`ios.baseline_metrics_path` as soon as `bench.sh` has written `ios.json` from
the simulator.

## Proofs

TLC checks the instances above; TLAPS proves the following for all values of
the constants that satisfy the modules' assumptions.

* `FeatureFlagCore_proofs`. Assumed: requests are well-formed, `Malformed` is
  none of them, number values are integers. The inductive invariant `LoopInvariant`
  ties the control location to what the loops have established: in `validate`
  the rules below `index` are valid, in `apply` all are, and those below `index`
  do not decide. With it `TypeCorrect`, `Vetted` and `AnswersCorrect`, then
  `Implementation` (the core implements `FlagEvaluation`) and `VerdictUnique`. `LoopsEnd`: each step
  makes `StepsLeft`, a natural number, smaller, so that a request of n rules is
  answered after at most 2n + 5 steps.
* `HostBridge_proofs`. Assumed: addresses have `Width` bits, the memory stays
  below half the address space (17 pages at the start, 2 GiB being the half),
  responses are not empty. `BridgeInv` says which guest blocks the call in
  progress answers for (`Owned`: the request from reading its pointer until it
  is freed, the response likewise, and the results not yet read), that they are
  live and disjoint, and that the rest of the heap is exactly what failed calls
  left (`lost`). `CopiesInLiveBlock` is not inductive because nothing in it says
  that an owned block is still live after another one was freed; disjointness
  of distinct blocks and `Owned` do. From it: `CopiesSafe`, `FreesSafe`,
  `OnlyFailuresLeakAlways`, `ResultSound`, `ResultsTimely`. The leak is an account and
  no count: whatever number of bytes a trap abandons goes into `heap` and `lost`
  alike, so that between calls, when nothing is owned, the two are one set.
  Then `RefusalsJustified`: owned blocks are within the memory as it is when they
  are checked, so only a request `wasm_alloc` gave no block for is refused.
* `PackedResult_proofs`. `PackingFaithful`: the round trip for every width, by
  division and remainder of `pointer * Word + len`.
* `EndToEnd_proofs`. Assumed besides: each text has a length a request can have
  and the empty text does not parse. `SystemInv` joins
  `BridgeInv` and the core's `LoopInvariant` with `ContentInv`: at each place of the
  call which block holds the whole request or the whole verdict. It rests on the
  bridge's disjointness: storing into one block leaves the contents of another.
  From it `RequestIntact`, `ResponseSound`, and `CallImplemented`, the refinement of
  `FlagCall` step by step. `CallsEnd` adds the steps of host and guest to `StepsLeft`:
  a call makes at most 2n + 19 of them whatever is refused or traps.
* `EngineLifecycle_proofs`. Assumed: `Null` is no address. `LifeInv` gives the exact
  resources an engine holds at each place of a creation (`Shape`), that every such
  place leaves something the release path can take, and that engines other than
  the current one are whole. From it `ReleasesSafe`, `CodeSafe`, `NoLeak`,
  `HandlesWhole`.
* `FeatureFlagEngine_proofs`. Assumed: `Null` is no address and no object, platforms
  are distinct. `SdkInv`: a handle is of a live engine of its own object
  (`HandlesOwn`), every engine is in a handle or lost with an object
  (`EnginesHeld`), and a call holds only the buffers its place and its platform still
  have to free (`BuffersInUse`): none outside of the package once the response is copied,
  so that `Return` has nothing to tidy up there. Address reuse is
  why `HandlesOwn` speaks of the owner. From it `OwnEngineUsed`, `EnginesKept`,
  `BuffersFreed`, and `ServiceImplemented`, the refinement of `FlagService`.
* `DeviceMetrics_proofs`, for any number of scripts and edits. `ScriptInv` follows a script
  along its plan: once built the core is the run's (`Fresh`), once synced both
  hosts have it (`Prepared`), and what the plan no longer holds has been measured by
  this run (`Taken`); no file is of a run to come (`Dated`). From it `HostsSame`,
  `OwnBuildMeasured`, `SummaryCoherent`; that a device file is never the stub's (`EnginesMeasured`) is the
  part of the invariant the last of them needs.
* `CompilerProbe_proofs`, for any set of toolchains. Assumed: each is `WellFormed`,
  that is, its version has no more digits than the comments of the probes give
  their vendor (`VRP`, `VVRR`, ...), and it pretends to be and compiles for what the
  probes test; `NdkWellFormed` shows that the NDK's compiler is one of them. The
  inductive invariant `AsProbed` says that whatever has been reported is the verdict on
  the macros of the toolchain. What remains is about the cascades: which
  of the names they test the macros carry, for each vendor in the order of the branches
  (`IdentifiesCompilerAlways`), for each target (`IdentifiesTargetAlways`), and, for
  each packing, that the digits of each part come back by division and
  remainder (`VersionReadBackAlways`). `DecReadsBack`: the digits `DEC` writes give the
  number back, for all numbers of up to eight digits. `NdkAsRecordedAlways`: the
  whole record of the NDK, with its standard and extensions.

Only model-checked: the liveness properties (`EveryCallReturns`,
`EveryRequestReturns`, `CreateReturns`, `EvaluateReturns`), because liveness under
fairness is out of the prover's reach. `LoopsEnd` and `CallsEnd` give the half of the
first two that needs none: a call cannot go on for ever. That it does not
stop half-way is the deadlock check and the fairness of the runs. The invariants and
refinements of all passing runs are proved. `IosFieldsStayNull` is refuted, by TLC.
Proved and in no run: `ComesCloser` (`LoopsEnd`), whose steps `CallComesCloser` counts in
`endtoend`.

## Not modelled

* wasm3's inside (vendored), JSON coding on all sides, message texts.
* Two threads in one object. The SDKs do not synchronise and do not promise it;
  with them `UsesOwnEngine` fails.
* The guest's shadow stack after a trap; what a trap leaves in the heap is modelled.
* CMake's own scripts, which compile the probes and read them; of the probes, what
  is named above.
* The benchmark numbers, emulators and device selection.

## Plan

Order: what the system is for first, then the parts that protect it.

1. Done: the core, its verdict, its refinement and proofs; the bridge's
   evaluation, its memory safety and proofs; the packing; the lifecycle; the
   SDKs and their refinement; the scripts.
2. Done: `EndToEnd`, the composition with the bytes, its refinement and proofs; the
   compiler probes; the proofs of the lifecycle, the SDKs and the scripts.
3. `GuestStack`: the shadow stack and the memory after repeated traps, with the
   slice of wasm3 that matters (`m3_Call`, the results, growth of the memory), as a
   module of its own that `HostBridge`'s external definitions can be checked
   against.
4. `EngineLifecycle` composed with `FeatureFlagEngine`: creation and destruction
   in steps, interleaved between threads.
5. Done: the probes for all versions; the bounds on the steps of a call.
