----------------------------- MODULE DeviceMetrics -----------------------------
(***************************************************************************)
(* The build, test and benchmark scripts (scripts/*.sh): what each of them *)
(* leaves on disk when it completes and when it dies half-way.             *)
(*                                                                         *)
(* A script is the list of its steps that change a file.  All of them run  *)
(* under set -e, so a step that fails ends the script there, and so does   *)
(* an interrupt; the files stay.  The developer runs one script at a time  *)
(* and may edit the Rust source at any moment.  A measurement stands for   *)
(* the run it was taken in, the version of the core it measured and        *)
(* whether the engine was the stub.                                        *)
(***************************************************************************)
EXTENDS Naturals, Sequences

CONSTANTS
    MaxRuns,       \* bound: scripts started
    MaxVersions    \* bound: versions of the Rust source

ASSUME BoundsAssumption == MaxRuns \in Nat /\ MaxVersions \in Nat \ {0}

VARIABLES
    source,     \* version of the Rust source
    wasm,       \* version in artifacts/shared-core.wasm, 0 when missing
    bundled,    \* versions in the Android assets and the iOS resources
    files,      \* the measurements under artifacts/metrics
    summary,    \* device-summary.json
    todo,       \* steps left of the running script
    script,     \* the script that runs, or ran last
    run,        \* number of scripts started
    builds,     \* history: the version each run built or found built
    iphoneDone  \* history: a script with an iPhone completed

vars == <<source, wasm, bundled, files, summary, todo, script, run, builds, iphoneDone>>

Platforms == {"android", "ios"}
Kinds == {"baseline", "device"}
Names == Kinds \X Platforms     \* <<"device", "ios">> is ios-device.json
Versions == 0 .. MaxVersions
Measurements == [run : 0 .. MaxRuns, wasm : Versions, stub : BOOLEAN]
Absent == [run |-> 0, wasm |-> 0, stub |-> FALSE]

(* A step and what it works on. *)
Plan == [
    bench                |-> <<<<"build", "core">>, <<"sync", "android">>, <<"sync", "ios">>,
                               <<"baseline", "android">>, <<"baseline", "ios">>>>,
    bench_android_device |-> <<<<"build", "core">>, <<"sync", "android">>, <<"sync", "ios">>,
                               <<"device", "android">>, <<"write", "summary">>>>,
    bench_ios_device     |-> <<<<"build", "core">>, <<"sync", "android">>, <<"sync", "ios">>,
                               <<"device", "ios">>, <<"write", "summary">>>>,
    bench_devices        |-> <<<<"build", "core">>, <<"sync", "android">>, <<"sync", "ios">>,
                               <<"device", "android">>, <<"device", "ios">>, <<"write", "summary">>>>,
    test                 |-> <<<<"find_or_build", "core">>, <<"sync", "android">>, <<"sync", "ios">>,
                               <<"test", "host">>>>]

Scripts == DOMAIN Plan

(* The platforms a script reports on in the summary. *)
Reported(s) == CASE s = "bench_android_device" -> {"android"}
                 [] s = "bench_ios_device"     -> {"ios"}
                 [] s = "bench_devices"        -> Platforms
                 [] OTHER                      -> {}

NoReport == [device |-> Absent, baseline |-> Absent, deltas |-> FALSE]
NoSummary == [run |-> 0, of |-> [p \in Platforms |-> NoReport]]

Init ==
    /\ source = 1 /\ wasm = 0 /\ bundled = [p \in Platforms |-> 0]
    /\ files = [n \in Names |-> Absent]
    /\ summary = NoSummary
    /\ todo = <<>> /\ script = "test" /\ run = 0
    /\ builds = [r \in 1 .. MaxRuns |-> 0]
    /\ iphoneDone = FALSE

-----------------------------------------------------------------------------
Edit ==
    /\ source < MaxVersions
    /\ source' = source + 1
    /\ UNCHANGED <<wasm, bundled, files, summary, todo, script, run, builds, iphoneDone>>

Start(s) ==
    /\ todo = <<>> /\ run < MaxRuns
    /\ script' = s /\ todo' = Plan[s] /\ run' = run + 1
    /\ UNCHANGED <<source, wasm, bundled, files, summary, builds, iphoneDone>>

(* No device, no signing team, a build or a test that fails, a missing
   payload, an interrupt. *)
Abort ==
    /\ todo # <<>>
    /\ todo' = <<>>
    /\ UNCHANGED <<source, wasm, bundled, files, summary, script, run, builds, iphoneDone>>

Do(step) ==
    /\ todo # <<>> /\ Head(todo) = step
    /\ todo' = Tail(todo)
    /\ UNCHANGED <<source, script, run>>

BuildWithoutReplacing ==
    /\ Do(<<"build", "core">>)
    /\ wasm' = IF wasm = 0 THEN source ELSE wasm
    /\ builds' = [builds EXCEPT ![run] = source]
    /\ UNCHANGED <<bundled, files, summary, iphoneDone>>

Build ==
    /\ Do(<<"build", "core">>)
    /\ wasm' = source
    /\ builds' = [builds EXCEPT ![run] = source]
    /\ UNCHANGED <<bundled, files, summary, iphoneDone>>

(* The test scripts take the artifact they find. *)
BuildIfMissing ==
    /\ Do(<<"find_or_build", "core">>)
    /\ wasm' = IF wasm = 0 THEN source ELSE wasm
    /\ builds' = [builds EXCEPT ![run] = wasm']
    /\ UNCHANGED <<bundled, files, summary, iphoneDone>>

CopyIfMissing(p) ==
    /\ Do(<<"sync", p>>)
    /\ bundled' = [bundled EXCEPT ![p] = IF @ = 0 THEN wasm ELSE @]
    /\ UNCHANGED <<wasm, files, summary, builds, iphoneDone>>

Copy(p) ==
    /\ Do(<<"sync", p>>)
    /\ bundled' = [bundled EXCEPT ![p] = wasm]
    /\ UNCHANGED <<wasm, files, summary, builds, iphoneDone>>

(* The host is built with the core in its resources.  The engine can be the
   stub: the library or the core may not load on the device. *)
Payload(p, stub) == [run |-> run, wasm |-> bundled[p], stub |-> stub]

BaselineWritingEmpty(p) ==
    /\ Do(<<"baseline", p>>)
    /\ \/ \E stub \in BOOLEAN : files' = [files EXCEPT ![<<"baseline", p>>] = Payload(p, stub)]
       \/ files' = [files EXCEPT ![<<"baseline", p>>] = <<>>]
    /\ UNCHANGED <<wasm, bundled, summary, builds, iphoneDone>>

(* bench.sh keeps the old file when it finds no JSON. *)
Baseline(p) ==
    /\ Do(<<"baseline", p>>)
    /\ \/ \E stub \in BOOLEAN : files' = [files EXCEPT ![<<"baseline", p>>] = Payload(p, stub)]
       \/ UNCHANGED files
    /\ UNCHANGED <<wasm, bundled, summary, builds, iphoneDone>>

DeviceUnvalidated(p) ==
    /\ Do(<<"device", p>>)
    /\ \E stub \in BOOLEAN : files' = [files EXCEPT ![<<"device", p>>] = Payload(p, stub)]
    /\ UNCHANGED <<wasm, bundled, summary, builds, iphoneDone>>

(* validate_json_payload: a payload of the stub ends the script, and leaves
   the file of an earlier run where it is. *)
Device(p) ==
    /\ todo # <<>> /\ Head(todo) = <<"device", p>>
    /\ \E stub \in BOOLEAN :
         \/ stub /\ todo' = <<>> /\ UNCHANGED files
         \/ /\ ~stub /\ todo' = Tail(todo)
            /\ files' = [files EXCEPT ![<<"device", p>>] = Payload(p, stub)]
    /\ UNCHANGED <<source, script, run, wasm, bundled, summary, builds, iphoneDone>>

Test ==
    /\ Do(<<"test", "host">>)
    /\ UNCHANGED <<wasm, bundled, files, summary, builds, iphoneDone>>

ReportOfWhateverExists(p) ==
    LET baseline == files[<<"baseline", p>>]
        device == files[<<"device", p>>]
    IN  [device |-> device, baseline |-> baseline,
         deltas |-> device # Absent /\ baseline # Absent]

Report(p) ==
    LET baseline == files[<<"baseline", p>>]
        device == IF p \in Reported(script) THEN files[<<"device", p>>] ELSE Absent
    IN  [device |-> device, baseline |-> baseline,
         deltas |-> device # Absent /\ baseline # Absent]

Summarise ==
    /\ Do(<<"write", "summary">>)
    /\ summary' = [run |-> run, of |-> [p \in Platforms |-> Report(p)]]
    /\ iphoneDone' = (iphoneDone \/ "ios" \in Reported(script))
    /\ UNCHANGED <<wasm, bundled, files, builds>>

Next ==
    \/ Edit \/ Abort
    \/ \E s \in Scripts : Start(s)
    \/ Build \/ BuildIfMissing \/ Test \/ Summarise
    \/ \E p \in Platforms : Copy(p) \/ Baseline(p) \/ Device(p)

Spec == Init /\ [][Next]_vars

-----------------------------------------------------------------------------
(* Properties. *)

(* The variables hold what their declarations say. *)
TypeOK ==
    /\ source \in 1 .. MaxVersions /\ wasm \in Versions
    /\ bundled \in [Platforms -> Versions]
    /\ files \in [Names -> Measurements]
    /\ summary \in [run : 0 .. MaxRuns,
                    of : [Platforms -> [device : Measurements, baseline : Measurements,
                                        deltas : BOOLEAN]]]
    /\ script \in Scripts /\ run \in 0 .. MaxRuns
    /\ builds \in [1 .. MaxRuns -> Versions]
    /\ iphoneDone \in BOOLEAN

(* Past the sync both hosts bundle the artifact, so that whatever a script  *)
(* measures or tests on either platform is the same core, also after        *)
(* earlier scripts died between the two copies of sync_artifacts.sh.        *)
HostsAgree ==
    todo # <<>> /\ Head(todo)[1] \notin {"build", "find_or_build", "sync"} =>
        \A p \in Platforms : bundled[p] = wasm /\ wasm # 0

(* A measurement is of the core its own run built, even when the source     *)
(* changed meanwhile or the hosts still bundled an older core before.       *)
MeasuresOwnBuild ==
    \A n \in Names : files[n] # Absent => files[n].wasm = builds[files[n].run]

(* The device numbers in the summary were taken by the run that wrote it,   *)
(* and by the engine, whatever older device files lie beside them: runs     *)
(* that died between the two phones, that met the stub on one of them, or   *)
(* that measured the other phone only, are never mixed in                   *)
(* (bench_devices.sh:102-117, 157, 180-209).                                *)
SummaryOfOneRun ==
    \A p \in Platforms :
        LET device == summary.of[p].device IN
        device # Absent => /\ device.run = summary.run /\ device.wasm = builds[summary.run]
                           /\ ~device.stub

(* docs/REPORT.md: "The iOS fields in device-summary.json stay null until   *)
(* either bench_ios_device.sh or bench_devices.sh completes with a signed   *)
(* iPhone run".                                                             *)
IosFieldsStayNull == ~iphoneDone => summary.of["ios"] = NoReport
=============================================================================
