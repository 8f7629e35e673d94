-------------------------- MODULE DeviceMetrics_proofs --------------------------
(***************************************************************************)
(* The invariants of the scripts, for any number of runs and of versions   *)
(* of the source.                                                          *)
(***************************************************************************)
EXTENDS DeviceMetrics, Integers, TLAPS

Built == {<<"build", "core">>, <<"find_or_build", "core">>}
Synced == {<<"sync", "android">>, <<"sync", "ios">>}
Measured == {<<"baseline", "android">>, <<"baseline", "ios">>, <<"device", "android">>, <<"device", "ios">>,
             <<"test", "host">>, <<"write", "summary">>}
Steps == Built \cup Synced \cup Measured

-----------------------------------------------------------------------------
(* The plans. *)

LEMMA ScriptNames ==
    Scripts = {"bench", "bench_android_device", "bench_ios_device", "bench_devices", "test"}
  BY SMT DEF Scripts, Plan

(* A plan builds, syncs both hosts, then measures, and writes a summary last
   if at all, of the platforms it has measured. *)
Shape(s, p) ==
    /\ p \in Seq(Steps) /\ Len(p) \in 4 .. 6
    /\ p[1] \in Built /\ p[2] = <<"sync", "android">> /\ p[3] = <<"sync", "ios">>
    /\ p[4] \in Measured /\ (Len(p) > 4 => p[5] \in Measured) /\ (Len(p) > 5 => p[6] \in Measured)
    /\ \A i \in 1 .. Len(p) : p[i] = <<"write", "summary">> => i = Len(p)
    /\ \A q \in Reported(s) : \E i \in 1 .. Len(p) : p[i] = <<"device", q>>

LEMMA ReportedBy ==
    /\ Reported("bench") = {} /\ Reported("test") = {}
    /\ Reported("bench_android_device") = {"android"} /\ Reported("bench_ios_device") = {"ios"}
    /\ Reported("bench_devices") = {"android", "ios"}
  BY DEF Reported, Platforms

LEMMA PlanShape == \A s \in Scripts : Shape(s, Plan[s])
  <1> SUFFICES ASSUME NEW s \in Scripts PROVE Shape(s, Plan[s])
    OBVIOUS
  <1>1. /\ <<"build", "core">> \in Steps /\ <<"find_or_build", "core">> \in Steps
        /\ <<"sync", "android">> \in Steps /\ <<"sync", "ios">> \in Steps
        /\ <<"baseline", "android">> \in Steps /\ <<"baseline", "ios">> \in Steps
        /\ <<"device", "android">> \in Steps /\ <<"device", "ios">> \in Steps
        /\ <<"test", "host">> \in Steps /\ <<"write", "summary">> \in Steps
    BY DEF Steps, Built, Synced, Measured
  <1>2. CASE s = "bench"
    <2>1. Plan[s] = <<<<"build", "core">>, <<"sync", "android">>, <<"sync", "ios">>,
                      <<"baseline", "android">>, <<"baseline", "ios">>>>
      BY <1>2, SMT DEF Plan
    <2>2. /\ Plan[s] \in Seq(Steps) /\ Len(Plan[s]) = 5
          /\ Plan[s][1] = <<"build", "core">> /\ Plan[s][2] = <<"sync", "android">>
          /\ Plan[s][3] = <<"sync", "ios">> /\ Plan[s][4] = <<"baseline", "android">>
          /\ Plan[s][5] = <<"baseline", "ios">>
      BY <2>1, <1>1, SMT
    <2>3. \A i \in 1 .. Len(Plan[s]) : Plan[s][i] = <<"write", "summary">> => i = Len(Plan[s])
      BY <2>2, SMT
    <2>4. \A q \in Reported(s) : \E i \in 1 .. Len(Plan[s]) : Plan[s][i] = <<"device", q>>
      BY <2>2, <1>2, ReportedBy, SMT
    <2>5. Len(Plan[s]) \in 4 .. 6
      BY <2>2, SMT
    <2>6. (Len(Plan[s]) > 4 => Plan[s][5] \in Measured) /\ (Len(Plan[s]) > 5 => Plan[s][6] \in Measured)
      BY <2>2, SMT DEF Measured
    <2>7. Plan[s][1] \in Built /\ Plan[s][4] \in Measured
      BY <2>2 DEF Built, Measured
    <2> QED
      BY <2>2, <2>3, <2>4, <2>5, <2>6, <2>7 DEF Shape
  <1>3. CASE s = "bench_android_device"
    <2>1. Plan[s] = <<<<"build", "core">>, <<"sync", "android">>, <<"sync", "ios">>,
                      <<"device", "android">>, <<"write", "summary">>>>
      BY <1>3, SMT DEF Plan
    <2>2. /\ Plan[s] \in Seq(Steps) /\ Len(Plan[s]) = 5
          /\ Plan[s][1] = <<"build", "core">> /\ Plan[s][2] = <<"sync", "android">>
          /\ Plan[s][3] = <<"sync", "ios">> /\ Plan[s][4] = <<"device", "android">>
          /\ Plan[s][5] = <<"write", "summary">>
      BY <2>1, <1>1, SMT
    <2>3. \A i \in 1 .. Len(Plan[s]) : Plan[s][i] = <<"write", "summary">> => i = Len(Plan[s])
      BY <2>2, SMT
    <2>4. \A q \in Reported(s) : \E i \in 1 .. Len(Plan[s]) : Plan[s][i] = <<"device", q>>
      BY <2>2, <1>3, ReportedBy, SMT
    <2>5. Len(Plan[s]) \in 4 .. 6
      BY <2>2, SMT
    <2>6. (Len(Plan[s]) > 4 => Plan[s][5] \in Measured) /\ (Len(Plan[s]) > 5 => Plan[s][6] \in Measured)
      BY <2>2, SMT DEF Measured
    <2>7. Plan[s][1] \in Built /\ Plan[s][4] \in Measured
      BY <2>2 DEF Built, Measured
    <2> QED
      BY <2>2, <2>3, <2>4, <2>5, <2>6, <2>7 DEF Shape
  <1>4. CASE s = "bench_ios_device"
    <2>1. Plan[s] = <<<<"build", "core">>, <<"sync", "android">>, <<"sync", "ios">>,
                      <<"device", "ios">>, <<"write", "summary">>>>
      BY <1>4, SMT DEF Plan
    <2>2. /\ Plan[s] \in Seq(Steps) /\ Len(Plan[s]) = 5
          /\ Plan[s][1] = <<"build", "core">> /\ Plan[s][2] = <<"sync", "android">>
          /\ Plan[s][3] = <<"sync", "ios">> /\ Plan[s][4] = <<"device", "ios">>
          /\ Plan[s][5] = <<"write", "summary">>
      BY <2>1, <1>1, SMT
    <2>3. \A i \in 1 .. Len(Plan[s]) : Plan[s][i] = <<"write", "summary">> => i = Len(Plan[s])
      BY <2>2, SMT
    <2>4. \A q \in Reported(s) : \E i \in 1 .. Len(Plan[s]) : Plan[s][i] = <<"device", q>>
      BY <2>2, <1>4, ReportedBy, SMT
    <2>5. Len(Plan[s]) \in 4 .. 6
      BY <2>2, SMT
    <2>6. (Len(Plan[s]) > 4 => Plan[s][5] \in Measured) /\ (Len(Plan[s]) > 5 => Plan[s][6] \in Measured)
      BY <2>2, SMT DEF Measured
    <2>7. Plan[s][1] \in Built /\ Plan[s][4] \in Measured
      BY <2>2 DEF Built, Measured
    <2> QED
      BY <2>2, <2>3, <2>4, <2>5, <2>6, <2>7 DEF Shape
  <1>5. CASE s = "bench_devices"
    <2>1. Plan[s] = <<<<"build", "core">>, <<"sync", "android">>, <<"sync", "ios">>,
                      <<"device", "android">>, <<"device", "ios">>, <<"write", "summary">>>>
      BY <1>5, SMT DEF Plan
    <2>2. /\ Plan[s] \in Seq(Steps) /\ Len(Plan[s]) = 6
          /\ Plan[s][1] = <<"build", "core">> /\ Plan[s][2] = <<"sync", "android">>
          /\ Plan[s][3] = <<"sync", "ios">> /\ Plan[s][4] = <<"device", "android">>
          /\ Plan[s][5] = <<"device", "ios">> /\ Plan[s][6] = <<"write", "summary">>
      BY <2>1, <1>1, SMT
    <2>3. \A i \in 1 .. Len(Plan[s]) : Plan[s][i] = <<"write", "summary">> => i = Len(Plan[s])
      BY <2>2, SMT
    <2>4. \A q \in Reported(s) : \E i \in 1 .. Len(Plan[s]) : Plan[s][i] = <<"device", q>>
      BY <2>2, <1>5, ReportedBy, SMT
    <2>5. Len(Plan[s]) \in 4 .. 6
      BY <2>2, SMT
    <2>6. (Len(Plan[s]) > 4 => Plan[s][5] \in Measured) /\ (Len(Plan[s]) > 5 => Plan[s][6] \in Measured)
      BY <2>2, SMT DEF Measured
    <2>7. Plan[s][1] \in Built /\ Plan[s][4] \in Measured
      BY <2>2 DEF Built, Measured
    <2> QED
      BY <2>2, <2>3, <2>4, <2>5, <2>6, <2>7 DEF Shape
  <1>6. CASE s = "test"
    <2>1. Plan[s] = <<<<"find_or_build", "core">>, <<"sync", "android">>, <<"sync", "ios">>,
                      <<"test", "host">>>>
      BY <1>6, SMT DEF Plan
    <2>2. /\ Plan[s] \in Seq(Steps) /\ Len(Plan[s]) = 4
          /\ Plan[s][1] = <<"find_or_build", "core">> /\ Plan[s][2] = <<"sync", "android">>
          /\ Plan[s][3] = <<"sync", "ios">> /\ Plan[s][4] = <<"test", "host">>
      BY <2>1, <1>1, SMT
    <2>3. \A i \in 1 .. Len(Plan[s]) : Plan[s][i] = <<"write", "summary">> => i = Len(Plan[s])
      BY <2>2, SMT
    <2>4. \A q \in Reported(s) : \E i \in 1 .. Len(Plan[s]) : Plan[s][i] = <<"device", q>>
      BY <2>2, <1>6, ReportedBy, SMT
    <2>5. Len(Plan[s]) \in 4 .. 6
      BY <2>2, SMT
    <2>6. (Len(Plan[s]) > 4 => Plan[s][5] \in Measured) /\ (Len(Plan[s]) > 5 => Plan[s][6] \in Measured)
      BY <2>2, SMT DEF Measured
    <2>7. Plan[s][1] \in Built /\ Plan[s][4] \in Measured
      BY <2>2 DEF Built, Measured
    <2> QED
      BY <2>2, <2>3, <2>4, <2>5, <2>6, <2>7 DEF Shape
  <1> QED
    BY <1>2, <1>3, <1>4, <1>5, <1>6, ScriptNames

-----------------------------------------------------------------------------
(* The inductive invariant. *)

(* Where in its plan the running script is. *)
Place == Len(Plan[script]) - Len(todo) + 1

(* What is left to do is the rest of the plan. *)
Follows ==
    /\ todo \in Seq(Steps) /\ Len(todo) =< Len(Plan[script])
    /\ \A i \in 1 .. Len(todo) : todo[i] = Plan[script][Place + i - 1]

(* What the steps before have made sure of. *)
Prepared ==
    todo # <<>> =>
      /\ run >= 1
      /\ Place > 1 => wasm # 0 /\ wasm = builds[run]
      /\ Place > 2 => bundled["android"] = wasm
      /\ Place > 3 => bundled["ios"] = wasm

(* Before a run has built, nothing is of that run. *)
Fresh ==
    todo # <<>> /\ Place = 1 => summary.run < run /\ \A n \in Names : files[n].run < run

(* The device files a script will report on are its own once it has no
   such step left. *)
Taken ==
    todo # <<>> =>
      \A p \in Reported(script) :
        (\A i \in 1 .. Len(todo) : todo[i] # <<"device", p>>) => files[<<"device", p>>].run = run

(* Files and summary are of earlier runs or the present one. *)
Dated ==
    /\ summary.run =< run /\ (summary.run = 0 => summary = NoSummary)
    /\ \A n \in Names : files[n].run =< run /\ (files[n].run = 0 => files[n] = Absent)

(* No device file holds the numbers of the stub.                            *)
EnginesMeasured == \A p \in Platforms : ~files[<<"device", p>>].stub

ScriptInv ==
    /\ TypeOK /\ Follows /\ Prepared /\ Fresh /\ Taken /\ Dated
    /\ MeasuresOwnBuild /\ SummaryOfOneRun /\ EnginesMeasured

LEMMA InitInv == Init => ScriptInv
  <1> SUFFICES ASSUME Init PROVE ScriptInv
    OBVIOUS
  <1> USE DEF Init
  <1>1. TypeOK
    <2>1. Absent \in Measurements /\ 0 \in Versions /\ 1 \in 1 .. MaxVersions
      BY BoundsAssumption, SMT DEF Absent, Measurements, Versions
    <2>2. NoReport \in [device : Measurements, baseline : Measurements, deltas : BOOLEAN]
      BY <2>1 DEF NoReport
    <2>3. summary \in [run : 0 .. MaxRuns,
                      of : [Platforms -> [device : Measurements, baseline : Measurements,
                                          deltas : BOOLEAN]]]
      BY <2>2, BoundsAssumption, SMT DEF NoSummary
    <2>4. files \in [Names -> Measurements] /\ bundled \in [Platforms -> Versions]
      BY <2>1
    <2>5. builds \in [1 .. MaxRuns -> Versions] /\ run \in 0 .. MaxRuns /\ script \in Scripts
      BY <2>1, BoundsAssumption, ScriptNames, SMT
    <2> QED
      BY <2>1, <2>3, <2>4, <2>5 DEF TypeOK
  <1>2. Follows
    BY PlanShape, ScriptNames, SMT DEF Follows, Shape
  <1>3. Prepared /\ Fresh /\ Taken
    BY DEF Prepared, Fresh, Taken
  <1>4. Dated
    BY SMT DEF Dated, Absent, NoSummary
  <1>5. MeasuresOwnBuild /\ SummaryOfOneRun /\ EnginesMeasured
    <2>1. \A p \in Platforms : summary.of[p].device = Absent
      BY DEF NoSummary, NoReport
    <2>2. \A p \in Platforms : <<"device", p>> \in Names
      BY DEF Names, Kinds
    <2> QED
      BY <2>1, <2>2 DEF MeasuresOwnBuild, SummaryOfOneRun, EnginesMeasured, Absent
  <1> QED
    BY <1>1, <1>2, <1>3, <1>4, <1>5 DEF ScriptInv

(* The plan of a script that runs, as the steps see it. *)
LEMMA AtStep ==
    ASSUME ScriptInv, todo # <<>>
    PROVE  /\ Len(todo) \in 1 .. 6 /\ Place \in 1 .. Len(Plan[script])
           /\ Head(todo) = Plan[script][Place] /\ Head(todo) = todo[1]
           /\ Place = 1 <=> Head(todo) \in Built
           /\ Place = 2 <=> Head(todo) = <<"sync", "android">>
           /\ Place = 3 <=> Head(todo) = <<"sync", "ios">>
           /\ Place >= 4 <=> Head(todo) \in Measured
           /\ Head(todo) = <<"write", "summary">> => Len(todo) = 1
  <1>1. /\ todo \in Seq(Steps) /\ Len(todo) =< Len(Plan[script]) /\ Shape(script, Plan[script])
        /\ \A i \in 1 .. Len(todo) : todo[i] = Plan[script][Place + i - 1]
    BY PlanShape DEF ScriptInv, TypeOK, Follows
  <1>2. Len(todo) \in 1 .. 6 /\ Head(todo) = todo[1] /\ Len(Plan[script]) \in 4 .. 6
    <2>1. Len(todo) \in Nat /\ Len(todo) # 0 /\ Head(todo) = todo[1]
      BY <1>1, SMT
    <2>2. Len(Plan[script]) \in 4 .. 6
      BY <1>1 DEF Shape
    <2>3. Len(todo) =< Len(Plan[script])
      BY <1>1
    <2>4. \A m \in Nat, n \in 4 .. 6 : m # 0 /\ m =< n => m \in 1 .. 6
      BY SMT
    <2>5. Len(todo) \in 1 .. 6
      BY <2>1, <2>2, <2>3, <2>4
    <2> QED
      BY <2>1, <2>2, <2>5
  <1>3. Place \in 1 .. Len(Plan[script]) /\ todo[1] = Plan[script][Place]
    BY <1>1, <1>2, SMT DEF Place
  <1>4. /\ Place = 1 => Head(todo) \in Built
        /\ Place = 2 => Head(todo) = <<"sync", "android">>
        /\ Place = 3 => Head(todo) = <<"sync", "ios">>
        /\ Place >= 4 => Head(todo) \in Measured
    <2>1. Place \in 1 .. 6
      BY <1>2, <1>3, SMT
    <2>2. Place >= 4 => Place = 4 \/ (Place = 5 /\ Len(Plan[script]) > 4) \/ (Place = 6 /\ Len(Plan[script]) > 5)
      BY <1>2, <1>3, <2>1, SMT
    <2> QED
      BY <1>1, <1>2, <1>3, <2>1, <2>2, SMT DEF Shape
  <1>5. /\ Place = 1 \/ Place = 2 \/ Place = 3 \/ Place >= 4
        /\ Built \cap Synced = {} /\ Built \cap Measured = {} /\ Synced \cap Measured = {}
        /\ <<"sync", "android">> # <<"sync", "ios">>
        /\ <<"sync", "android">> \in Synced /\ <<"sync", "ios">> \in Synced
    BY <1>2, <1>3, SMT DEF Built, Synced, Measured
  <1>6. Head(todo) = <<"write", "summary">> => Len(todo) = 1
    <2>1. \A i \in 1 .. Len(Plan[script]) :
            Plan[script][i] = <<"write", "summary">> => i = Len(Plan[script])
      BY <1>1 DEF Shape
    <2>2. Head(todo) = <<"write", "summary">> => Place = Len(Plan[script])
      BY <1>2, <1>3, <2>1
    <2>3. Place = Len(Plan[script]) => Len(todo) = 1
      BY <1>2, SMT DEF Place
    <2> QED
      BY <2>2, <2>3
  <1> QED
    BY <1>2, <1>3, <1>4, <1>5, <1>6, SMT

(* A step leaves the rest of the plan to do. *)
LEMMA Advance ==
    ASSUME ScriptInv, NEW step, Do(step)
    PROVE  /\ Follows' /\ Place' = Place + 1
           /\ \A i \in 1 .. Len(todo') : i + 1 \in 1 .. Len(todo) /\ todo'[i] = todo[i + 1]
           /\ run \in 1 .. MaxRuns
  <1>1. /\ todo # <<>> /\ todo' = Tail(todo) /\ script' = script /\ todo \in Seq(Steps)
        /\ Len(todo) =< Len(Plan[script])
        /\ \A i \in 1 .. Len(todo) : todo[i] = Plan[script][Place + i - 1]
    BY DEF Do, ScriptInv, Follows
  <1>2. Len(todo) \in 1 .. 6 /\ Len(Plan[script]) \in 4 .. 6
    BY <1>1, AtStep, PlanShape DEF ScriptInv, TypeOK, Shape
  <1>3. /\ todo' \in Seq(Steps) /\ Len(todo') = Len(todo) - 1
        /\ \A i \in 1 .. Len(todo') : i + 1 \in 1 .. Len(todo) /\ todo'[i] = todo[i + 1]
    BY <1>1, <1>2, SMT
  <1>4. Place' = Place + 1 /\ Place \in Int
    <2>1. Place' = Len(Plan[script]) - Len(todo') + 1 /\ Place = Len(Plan[script]) - Len(todo) + 1
      BY <1>1 DEF Place
    <2>2. \A m, n \in Int : m - (n - 1) + 1 = (m - n + 1) + 1 /\ m - n + 1 \in Int
      BY SMT
    <2>3. Len(todo) \in Int /\ Len(Plan[script]) \in Int
      BY <1>2, SMT
    <2> QED
      BY <1>3, <2>1, <2>2, <2>3
  <1>5. \A i \in 1 .. Len(todo') : todo'[i] = Plan[script'][Place' + i - 1]
    <2> SUFFICES ASSUME NEW i \in 1 .. Len(todo') PROVE todo'[i] = Plan[script'][Place' + i - 1]
      OBVIOUS
    <2>1. i + 1 \in 1 .. Len(todo) /\ todo'[i] = todo[i + 1]
      BY <1>3
    <2>2. todo[i + 1] = Plan[script][Place + (i + 1) - 1]
      BY <1>1, <2>1
    <2>3. Place + (i + 1) - 1 = Place' + i - 1
      BY <1>2, <1>3, <1>4, SMT
    <2> QED
      BY <1>1, <2>1, <2>2, <2>3
  <1>6. Len(todo') =< Len(Plan[script'])
    BY <1>1, <1>2, <1>3, SMT
  <1>7. run \in 1 .. MaxRuns
    BY <1>1, BoundsAssumption, SMT DEF ScriptInv, Prepared, TypeOK
  <1> QED
    BY <1>3, <1>4, <1>5, <1>6, <1>7 DEF Follows

(* The step that is done was on a device, or the script still has the file
   it will report on. *)
LEMMA StillTaken ==
    ASSUME ScriptInv, NEW step, Do(step),
           \A p \in Platforms : files'[<<"device", p>>].run = run
              \/ (step # <<"device", p>> /\ files'[<<"device", p>>] = files[<<"device", p>>])
    PROVE  Taken'
  <1> SUFFICES ASSUME NEW p \in Reported(script)', \A i \in 1 .. Len(todo') : todo'[i] # <<"device", p>>
               PROVE  (files[<<"device", p>>].run = run)'
    BY DEF Taken
  <1>1. p \in Reported(script) /\ p \in Platforms /\ run' = run /\ todo # <<>> /\ Head(todo) = step
    <2>1. script' = script /\ script \in Scripts
      BY DEF Do, ScriptInv, TypeOK
    <2>2. \A s \in Scripts : Reported(s) \subseteq Platforms
      BY ScriptNames, ReportedBy DEF Platforms
    <2>3. Reported(script)' = Reported(script)
      BY <2>1 DEF Reported
    <2> QED
      BY <2>1, <2>2, <2>3 DEF Do
  <1>2. CASE files'[<<"device", p>>].run = run
    BY <1>1, <1>2
  <1>3. CASE step # <<"device", p>> /\ files'[<<"device", p>>] = files[<<"device", p>>]
    <2>1. \A i \in 1 .. Len(todo) : todo[i] # <<"device", p>>
      <3> SUFFICES ASSUME NEW i \in 1 .. Len(todo) PROVE todo[i] # <<"device", p>>
        OBVIOUS
      <3>1. CASE i = 1
        BY <3>1, <1>1, <1>3, AtStep
      <3>2. CASE i # 1
        <4>1. i - 1 \in 1 .. Len(todo') /\ (i - 1) + 1 = i
          <5>1. Len(todo) \in 1 .. 6 /\ Len(todo') = Len(todo) - 1
            BY <1>1, AtStep, SMT DEF Do, ScriptInv, Follows
          <5> QED
            BY <5>1, <3>2, SMT
        <4>2. todo'[i - 1] = todo[i]
          BY <4>1, Advance
        <4> QED
          BY <4>1, <4>2
      <3> QED
        BY <3>1, <3>2
    <2>2. files[<<"device", p>>].run = run
      BY <1>1, <2>1 DEF ScriptInv, Taken
    <2> QED
      BY <1>1, <1>3, <2>2
  <1> QED
    BY <1>1, <1>2, <1>3

-----------------------------------------------------------------------------
(* The steps. *)

LEMMA EditKeeps == ScriptInv /\ Edit => ScriptInv'
  <1> SUFFICES ASSUME ScriptInv, Edit PROVE ScriptInv'
    OBVIOUS
  <1>1. TypeOK'
    BY BoundsAssumption, SMT DEF ScriptInv, TypeOK, Edit
  <1> QED
    BY <1>1 DEF ScriptInv, Edit, Follows, Place, Prepared, Fresh, Taken, Dated, MeasuresOwnBuild,
       SummaryOfOneRun, EnginesMeasured, Reported

LEMMA AbortKeeps == ScriptInv /\ Abort => ScriptInv'
  <1> SUFFICES ASSUME ScriptInv, Abort PROVE ScriptInv'
    OBVIOUS
  <1>1. TypeOK'
    BY DEF ScriptInv, TypeOK, Abort
  <1>2. Follows'
    <2>1. todo' = <<>> /\ script' = script /\ Len(Plan[script]) \in 4 .. 6
      BY PlanShape DEF ScriptInv, TypeOK, Abort, Shape
    <2> QED
      BY <2>1, SMT DEF Follows
  <1> QED
    BY <1>1, <1>2 DEF ScriptInv, Abort, Prepared, Fresh, Taken, Dated, MeasuresOwnBuild, SummaryOfOneRun,
       EnginesMeasured

LEMMA StartKeeps == ASSUME NEW s \in Scripts PROVE ScriptInv /\ Start(s) => ScriptInv'
  <1> SUFFICES ASSUME ScriptInv, Start(s) PROVE ScriptInv'
    OBVIOUS
  <1>1. /\ script' = s /\ todo' = Plan[s] /\ run' = run + 1 /\ run < MaxRuns /\ Shape(s, Plan[s])
        /\ UNCHANGED <<source, wasm, bundled, files, summary, builds, iphoneDone>>
        /\ run \in 0 .. MaxRuns
    BY PlanShape DEF Start, ScriptInv, TypeOK
  <1>2. TypeOK'
    BY <1>1, BoundsAssumption, SMT DEF ScriptInv, TypeOK
  <1>3. Place' = 1 /\ Len(Plan[s]) \in 4 .. 6 /\ Plan[s] \in Seq(Steps)
    BY <1>1, SMT DEF Place, Shape
  <1>4. Follows'
    BY <1>1, <1>3, SMT DEF Follows
  <1>5. Prepared'
    BY <1>1, <1>3, BoundsAssumption, SMT DEF Prepared
  <1>6. Fresh' /\ Dated'
    <2>1. summary.run \in Int /\ \A n \in Names : files[n].run \in Int
      BY BoundsAssumption, SMT DEF ScriptInv, TypeOK, Measurements
    <2> QED
      BY <1>1, <2>1, BoundsAssumption, SMT DEF ScriptInv, Dated, Fresh
  <1>7. Taken'
    BY <1>1 DEF Taken, Shape, Reported
  <1>8. (MeasuresOwnBuild /\ SummaryOfOneRun /\ EnginesMeasured)'
    BY <1>1 DEF ScriptInv, MeasuresOwnBuild, SummaryOfOneRun, EnginesMeasured
  <1> QED
    BY <1>2, <1>4, <1>5, <1>6, <1>7, <1>8 DEF ScriptInv

LEMMA BuildKeeps == ScriptInv /\ (Build \/ BuildIfMissing) => ScriptInv'
  <1> SUFFICES ASSUME ScriptInv, Build \/ BuildIfMissing PROVE ScriptInv'
    OBVIOUS
  <1> DEFINE step == Head(todo)
  <1>1. /\ Do(step) /\ step \in Built /\ UNCHANGED <<bundled, files, summary, iphoneDone, source, script, run>>
        /\ wasm' \in Versions \ {0} /\ builds' = [builds EXCEPT ![run] = wasm'] /\ todo # <<>>
    BY BoundsAssumption, SMT DEF Build, BuildIfMissing, Do, Built, ScriptInv, TypeOK, Versions
  <1> HIDE DEF step
  <1>2. Place = 1 /\ Place' = 2 /\ Follows' /\ run \in 1 .. MaxRuns
    BY <1>1, AtStep, Advance, SMT DEF step
  <1>3. builds'[run] = wasm' /\ \A r \in 1 .. MaxRuns : r # run => builds'[r] = builds[r]
    BY <1>1, <1>2 DEF ScriptInv, TypeOK
  <1>4. TypeOK'
    BY <1>1, <1>2 DEF ScriptInv, TypeOK
  <1>5. Prepared' /\ Fresh'
    BY <1>1, <1>2, <1>3, SMT DEF Prepared, Fresh
  <1>6. Taken'
    <2>1. \A p \in Platforms : step # <<"device", p>>
      BY <1>1 DEF Built
    <2> QED
      BY <1>1, <2>1, StillTaken
  <1>7. Dated' /\ EnginesMeasured'
    BY <1>1 DEF ScriptInv, Dated, EnginesMeasured
  <1>8. summary.run \in 0 .. MaxRuns /\ summary.run < run
        /\ \A n \in Names : files[n].run \in 0 .. MaxRuns /\ files[n].run < run
    BY <1>1, <1>2 DEF ScriptInv, Fresh, TypeOK, Measurements
  <1>9. MeasuresOwnBuild'
    <2> SUFFICES ASSUME NEW n \in Names, files[n] # Absent PROVE files[n].wasm = builds'[files[n].run]
      BY <1>1 DEF MeasuresOwnBuild
    <2>1. files[n].run # 0
      BY DEF ScriptInv, Dated
    <2>2. files[n].run \in 1 .. MaxRuns /\ files[n].run # run
      BY <1>2, <1>8, <2>1, BoundsAssumption, SMT
    <2> QED
      BY <1>3, <2>2 DEF ScriptInv, MeasuresOwnBuild
  <1>10. SummaryOfOneRun'
    <2> SUFFICES ASSUME NEW p \in Platforms, summary.of[p].device # Absent
                 PROVE  /\ summary.of[p].device.run = summary.run
                        /\ summary.of[p].device.wasm = builds'[summary.run]
                        /\ ~summary.of[p].device.stub
      BY <1>1 DEF SummaryOfOneRun
    <2>1. /\ summary.of[p].device.run = summary.run /\ ~summary.of[p].device.stub
          /\ summary.of[p].device.wasm = builds[summary.run]
      BY DEF ScriptInv, SummaryOfOneRun
    <2>2. summary.run # 0
      BY DEF ScriptInv, Dated, NoSummary, NoReport
    <2>3. summary.run \in 1 .. MaxRuns /\ summary.run # run
      BY <1>2, <1>8, <2>2, BoundsAssumption, SMT
    <2> QED
      BY <1>3, <2>1, <2>3
  <1> QED
    BY <1>2, <1>4, <1>5, <1>6, <1>7, <1>9, <1>10 DEF ScriptInv

LEMMA CopyKeeps == ASSUME NEW p \in Platforms PROVE ScriptInv /\ Copy(p) => ScriptInv'
  <1> SUFFICES ASSUME ScriptInv, Copy(p) PROVE ScriptInv'
    OBVIOUS
  <1> DEFINE step == <<"sync", p>>
  <1>1. /\ Do(step) /\ todo # <<>> /\ Head(todo) = step /\ bundled' = [bundled EXCEPT ![p] = wasm]
        /\ UNCHANGED <<wasm, files, summary, builds, iphoneDone, source, script, run>>
    BY DEF Copy, Do
  <1>2. Follows' /\ Place' = Place + 1 /\ run \in 1 .. MaxRuns
    BY <1>1, Advance
  <1>3. \/ p = "android" /\ Place = 2
        \/ p = "ios" /\ Place = 3
    <2>1. p = "android" \/ p = "ios"
      BY DEF Platforms
    <2> QED
      BY <1>1, <2>1, AtStep
  <1>4. TypeOK'
    BY <1>1, <1>2 DEF ScriptInv, TypeOK
  <1>5. Prepared'
    <2>1. wasm # 0 /\ wasm = builds[run] /\ run >= 1 /\ (Place > 2 => bundled["android"] = wasm)
      BY <1>1, <1>3, SMT DEF ScriptInv, Prepared
    <2>2. bundled'[p] = wasm /\ (p = "ios" => bundled'["android"] = bundled["android"])
      BY <1>1 DEF ScriptInv, TypeOK, Platforms
    <2>3. CASE p = "android" /\ Place = 2
      BY <1>1, <1>2, <2>1, <2>2, <2>3, SMT DEF Prepared
    <2>4. CASE p = "ios" /\ Place = 3
      BY <1>1, <1>2, <2>1, <2>2, <2>4, SMT DEF Prepared
    <2> QED
      BY <1>3, <2>3, <2>4
  <1>6. Fresh'
    BY <1>2, <1>3, SMT DEF Fresh
  <1>7. Taken'
    <2>1. \A q \in Platforms : step # <<"device", q>>
      OBVIOUS
    <2> QED
      BY <1>1, <2>1, StillTaken
  <1>8. (Dated /\ EnginesMeasured /\ MeasuresOwnBuild /\ SummaryOfOneRun)'
    BY <1>1 DEF ScriptInv, Dated, EnginesMeasured, MeasuresOwnBuild, SummaryOfOneRun
  <1> QED
    BY <1>2, <1>4, <1>5, <1>6, <1>7, <1>8 DEF ScriptInv

(* What is common to a step that only measures: past the sync both hosts
   have the core the run built. *)
LEMMA Synchronised ==
    ASSUME ScriptInv, todo # <<>>, Head(todo) \in Measured
    PROVE  /\ Place >= 4 /\ wasm # 0 /\ wasm = builds[run] /\ run >= 1
           /\ bundled["android"] = wasm /\ bundled["ios"] = wasm
  <1>1. Place \in 1 .. Len(Plan[script]) /\ Place >= 4
    BY AtStep
  <1> QED
    BY <1>1, SMT DEF ScriptInv, Prepared

LEMMA MeasuredKeepsPrepared ==
    ASSUME ScriptInv, NEW step \in Measured, Do(step), UNCHANGED <<wasm, bundled, builds>>
    PROVE  Prepared' /\ Fresh' /\ Follows' /\ run \in 1 .. MaxRuns
  <1>1. todo # <<>> /\ Head(todo) = step /\ run' = run
    BY DEF Do
  <1>2. /\ Place >= 4 /\ wasm # 0 /\ wasm = builds[run] /\ run >= 1
        /\ bundled["android"] = wasm /\ bundled["ios"] = wasm /\ Place \in 1 .. Len(Plan[script])
    BY <1>1, Synchronised, AtStep
  <1>3. Follows' /\ Place' = Place + 1 /\ run \in 1 .. MaxRuns
    BY Advance
  <1>4. Place' > 3
    BY <1>2, <1>3, SMT
  <1> QED
    BY <1>1, <1>2, <1>3, <1>4, SMT DEF Prepared, Fresh

LEMMA MeasurementKeeps ==
    ASSUME NEW p \in Platforms, NEW kind \in Kinds, NEW stub \in BOOLEAN, ScriptInv,
           Do(<<kind, p>>), kind = "device" => ~stub,
           files' = [files EXCEPT ![<<kind, p>>] = Payload(p, stub)],
           UNCHANGED <<wasm, bundled, summary, builds, iphoneDone>>
    PROVE  ScriptInv'
  <1> DEFINE step == <<kind, p>>  new == Payload(p, stub)
  <1>1. step \in Measured /\ step \in Names /\ (p = "android" \/ p = "ios") /\ (kind = "baseline" \/ kind = "device")
    BY DEF Measured, Names, Kinds, Platforms
  <1>2. /\ UNCHANGED <<wasm, bundled, summary, builds, iphoneDone, source, script, run>>
        /\ todo # <<>> /\ Head(todo) = step
    BY DEF Do
  <1>3. Prepared' /\ Fresh' /\ Follows' /\ run \in 1 .. MaxRuns
    BY <1>1, <1>2, MeasuredKeepsPrepared
  <1>4. /\ new.run = run /\ new.wasm = builds[run] /\ new.stub = stub /\ new \in Measurements
        /\ new # Absent
    <2>1. bundled[p] = builds[run] /\ bundled[p] \in Versions /\ run \in 0 .. MaxRuns /\ run # 0
      <3>1. bundled["android"] = builds[run] /\ bundled["ios"] = builds[run] /\ run >= 1
        BY <1>1, <1>2, Synchronised
      <3>2. bundled[p] \in Versions /\ run \in 0 .. MaxRuns
        BY DEF ScriptInv, TypeOK
      <3> QED
        BY <1>1, <3>1, <3>2, SMT
    <2> QED
      BY <2>1 DEF Payload, Measurements, Absent
  <1> HIDE DEF new
  <1>5. files'[step] = new /\ \A n \in Names : n # step => files'[n] = files[n]
    BY <1>1 DEF ScriptInv, TypeOK, new
  <1>6. TypeOK'
    <2>1. files' \in [Names -> Measurements]
      BY <1>1, <1>4 DEF ScriptInv, TypeOK, new
    <2>2. todo' \in Seq(Steps)
      BY <1>3 DEF Follows
    <2> QED
      BY <1>2, <2>1 DEF ScriptInv, TypeOK
  <1>7. Taken'
    <2>1. \A q \in Platforms : <<"device", q>> \in Names
      BY DEF Names, Kinds
    <2>2. \A q \in Platforms : files'[<<"device", q>>].run = run
              \/ (step # <<"device", q>> /\ files'[<<"device", q>>] = files[<<"device", q>>])
      <3> SUFFICES ASSUME NEW q \in Platforms
                   PROVE  files'[<<"device", q>>].run = run
                     \/ (step # <<"device", q>> /\ files'[<<"device", q>>] = files[<<"device", q>>])
        OBVIOUS
      <3>1. CASE <<"device", q>> = step
        <4>1. files'[<<"device", q>>] = files'[step]
          BY <3>1
        <4>2. files'[<<"device", q>>] = new
          BY <4>1, <1>5
        <4>3. new.run = run
          BY <1>4
        <4> QED
          BY <4>2, <4>3
      <3>2. CASE <<"device", q>> # step
        BY <3>2, <1>5, <2>1
      <3> QED
        BY <3>1, <3>2
    <2> QED
      BY <2>2, StillTaken
  <1>8. Dated'
    <2>1. run =< run /\ run # 0
      BY <1>3, BoundsAssumption, SMT
    <2>2. \A n \in Names : files'[n].run =< run /\ (files'[n].run = 0 => files'[n] = Absent)
      BY <1>4, <1>5, <2>1 DEF ScriptInv, Dated
    <2> QED
      BY <1>2, <2>2 DEF ScriptInv, Dated
  <1>9. MeasuresOwnBuild'
    BY <1>2, <1>4, <1>5 DEF ScriptInv, MeasuresOwnBuild
  <1>10. SummaryOfOneRun'
    BY <1>2 DEF ScriptInv, SummaryOfOneRun
  <1>11. EnginesMeasured'
    <2> SUFFICES ASSUME NEW q \in Platforms PROVE ~files'[<<"device", q>>].stub
      BY <1>2 DEF ScriptInv, EnginesMeasured
    <2>1. <<"device", q>> \in Names
      BY DEF Names, Kinds
    <2>2. CASE <<"device", q>> = step
      <3>1. kind = "device"
        BY <2>2
      <3> QED
        BY <1>4, <1>5, <2>2, <3>1
    <2>3. CASE <<"device", q>> # step
      BY <1>5, <2>1, <2>3 DEF ScriptInv, EnginesMeasured
    <2> QED
      BY <2>2, <2>3
  <1> QED
    BY <1>3, <1>6, <1>7, <1>8, <1>9, <1>10, <1>11 DEF ScriptInv

LEMMA BaselineKeeps == ASSUME NEW p \in Platforms PROVE ScriptInv /\ Baseline(p) => ScriptInv'
  <1> SUFFICES ASSUME ScriptInv, Baseline(p) PROVE ScriptInv'
    OBVIOUS
  <1>1. Do(<<"baseline", p>>) /\ UNCHANGED <<wasm, bundled, summary, builds, iphoneDone>>
    BY DEF Baseline
  <1>2. CASE \E stub \in BOOLEAN : files' = [files EXCEPT ![<<"baseline", p>>] = Payload(p, stub)]
    <2>1. PICK stub \in BOOLEAN : files' = [files EXCEPT ![<<"baseline", p>>] = Payload(p, stub)]
      BY <1>2
    <2>2. "baseline" \in Kinds /\ "baseline" # "device"
      BY DEF Kinds
    <2> QED
      BY <1>1, <2>1, <2>2, MeasurementKeeps
  <1>3. CASE UNCHANGED files
    <2>1. <<"baseline", p>> \in Measured
      BY DEF Measured, Platforms
    <2>2. Prepared' /\ Fresh' /\ Follows' /\ UNCHANGED <<source, script, run>>
      BY <1>1, <2>1, MeasuredKeepsPrepared DEF Do
    <2>3. \A q \in Platforms : <<"baseline", p>> # <<"device", q>>
      OBVIOUS
    <2>4. Taken'
      BY <1>1, <1>3, <2>3, StillTaken
    <2>5. (TypeOK /\ Dated /\ EnginesMeasured /\ MeasuresOwnBuild /\ SummaryOfOneRun)'
      BY <1>1, <1>3, <2>2 DEF ScriptInv, TypeOK, Dated, EnginesMeasured, MeasuresOwnBuild, SummaryOfOneRun
    <2> QED
      BY <2>2, <2>4, <2>5 DEF ScriptInv
  <1> QED
    BY <1>2, <1>3 DEF Baseline

LEMMA DeviceKeeps == ASSUME NEW p \in Platforms PROVE ScriptInv /\ Device(p) => ScriptInv'
  <1> SUFFICES ASSUME ScriptInv, Device(p) PROVE ScriptInv'
    OBVIOUS
  <1>1. PICK stub \in BOOLEAN :
          \/ stub /\ todo' = <<>> /\ UNCHANGED files
          \/ /\ ~stub /\ todo' = Tail(todo)
             /\ files' = [files EXCEPT ![<<"device", p>>] = Payload(p, stub)]
    BY DEF Device
  <1>2. /\ todo # <<>> /\ Head(todo) = <<"device", p>> /\ "device" \in Kinds
        /\ UNCHANGED <<source, script, run, wasm, bundled, summary, builds, iphoneDone>>
    BY DEF Device, Kinds
  <1>3. CASE stub
    BY <1>1, <1>2, <1>3, AbortKeeps DEF Abort
  <1>4. CASE ~stub
    BY <1>1, <1>2, <1>4, MeasurementKeeps DEF Do
  <1> QED
    BY <1>3, <1>4

LEMMA TestKeeps == ScriptInv /\ Test => ScriptInv'
  <1> SUFFICES ASSUME ScriptInv, Test PROVE ScriptInv'
    OBVIOUS
  <1>1. /\ Do(<<"test", "host">>) /\ <<"test", "host">> \in Measured
        /\ UNCHANGED <<wasm, bundled, files, summary, builds, iphoneDone>>
    BY DEF Test, Measured
  <1>2. Prepared' /\ Fresh' /\ Follows' /\ UNCHANGED <<source, script, run>>
    BY <1>1, MeasuredKeepsPrepared DEF Do
  <1>3. \A q \in Platforms : <<"test", "host">> # <<"device", q>>
    OBVIOUS
  <1>4. Taken'
    BY <1>1, <1>3, StillTaken
  <1>5. (TypeOK /\ Dated /\ EnginesMeasured /\ MeasuresOwnBuild /\ SummaryOfOneRun)'
    BY <1>1, <1>2 DEF ScriptInv, TypeOK, Dated, EnginesMeasured, MeasuresOwnBuild, SummaryOfOneRun
  <1> QED
    BY <1>2, <1>4, <1>5 DEF ScriptInv

LEMMA SummariseKeeps == ScriptInv /\ Summarise => ScriptInv'
  <1> SUFFICES ASSUME ScriptInv, Summarise PROVE ScriptInv'
    OBVIOUS
  <1>1. /\ Do(<<"write", "summary">>) /\ <<"write", "summary">> \in Measured
        /\ summary' = [run |-> run, of |-> [p \in Platforms |-> Report(p)]]
        /\ UNCHANGED <<wasm, bundled, files, builds, source, script, run>>
        /\ iphoneDone' \in BOOLEAN /\ todo # <<>> /\ Head(todo) = <<"write", "summary">>
    BY DEF Summarise, Measured, Do, ScriptInv, TypeOK
  <1>2. Prepared' /\ Fresh' /\ Follows' /\ run \in 1 .. MaxRuns
    BY <1>1, MeasuredKeepsPrepared
  <1>3. \A q \in Platforms : <<"write", "summary">> # <<"device", q>>
    OBVIOUS
  <1>4. Taken'
    BY <1>1, <1>3, StillTaken
  <1>5. \A p \in Platforms : /\ summary'.of[p].device = Absent
                                \/ (p \in Reported(script) /\ summary'.of[p].device = files[<<"device", p>>])
                             /\ summary'.of[p].baseline = files[<<"baseline", p>>]
    <2> SUFFICES ASSUME NEW p \in Platforms
                 PROVE  /\ summary'.of[p].device = Absent
                          \/ (p \in Reported(script) /\ summary'.of[p].device = files[<<"device", p>>])
                        /\ summary'.of[p].baseline = files[<<"baseline", p>>]
      OBVIOUS
    <2>1. summary'.of[p] = Report(p)
      BY <1>1
    <2>2. Report(p).baseline = files[<<"baseline", p>>]
      BY DEF Report
    <2>3. Report(p).device = IF p \in Reported(script) THEN files[<<"device", p>>] ELSE Absent
      BY DEF Report
    <2>4. summary'.of[p].baseline = files[<<"baseline", p>>]
      BY <2>1, <2>2
    <2>5. summary'.of[p].device = IF p \in Reported(script) THEN files[<<"device", p>>] ELSE Absent
      BY <2>1, <2>3
    <2> QED
      BY <2>4, <2>5
  <1>6. \A p \in Platforms : <<"device", p>> \in Names /\ <<"baseline", p>> \in Names
    BY DEF Names, Kinds
  <1>7. Absent \in Measurements /\ Absent.stub = FALSE
    BY BoundsAssumption, SMT DEF Absent, Measurements, Versions
  <1>8. TypeOK'
    <2>1. \A p \in Platforms : Report(p) \in [device : Measurements, baseline : Measurements, deltas : BOOLEAN]
      BY <1>6, <1>7 DEF Report, ScriptInv, TypeOK
    <2>2. summary' \in [run : 0 .. MaxRuns,
                        of : [Platforms -> [device : Measurements, baseline : Measurements,
                                            deltas : BOOLEAN]]]
      BY <1>1, <2>1 DEF ScriptInv, TypeOK
    <2> QED
      BY <1>1, <2>2 DEF ScriptInv, TypeOK
  <1>9. Dated'
    <2>1. summary'.run = run /\ run =< run /\ run # 0
      BY <1>1, <1>2, BoundsAssumption, SMT
    <2> QED
      BY <1>1, <2>1 DEF ScriptInv, Dated
  <1>10. MeasuresOwnBuild'
    BY <1>1 DEF ScriptInv, MeasuresOwnBuild
  <1>11. SummaryOfOneRun'
    <2> SUFFICES ASSUME NEW p \in Platforms, summary'.of[p].device # Absent
                 PROVE  /\ summary'.of[p].device.run = summary'.run
                        /\ summary'.of[p].device.wasm = builds[summary'.run]
                        /\ ~summary'.of[p].device.stub
      BY <1>1 DEF SummaryOfOneRun
    <2>1. p \in Reported(script) /\ summary'.of[p].device = files[<<"device", p>>] /\ summary'.run = run
      BY <1>1, <1>5
    <2>2. Len(todo) = 1 /\ todo[1] = <<"write", "summary">>
      BY <1>1, AtStep
    <2>3. \A i \in 1 .. Len(todo) : todo[i] # <<"device", p>>
      BY <2>2, SMT
    <2>4. files[<<"device", p>>].run = run
      BY <1>1, <2>1, <2>3 DEF ScriptInv, Taken
    <2>5. files[<<"device", p>>].wasm = builds[run]
      BY <1>6, <2>1, <2>4 DEF ScriptInv, MeasuresOwnBuild
    <2>6. ~files[<<"device", p>>].stub
      BY DEF ScriptInv, EnginesMeasured
    <2> QED
      BY <2>1, <2>4, <2>5, <2>6
  <1>12. EnginesMeasured'
    BY <1>1 DEF ScriptInv, EnginesMeasured
  <1> QED
    BY <1>2, <1>4, <1>8, <1>9, <1>10, <1>11, <1>12 DEF ScriptInv

LEMMA StutterKeeps == ScriptInv /\ UNCHANGED vars => ScriptInv'
  BY DEF vars, ScriptInv, TypeOK, Follows, Place, Prepared, Fresh, Taken, Dated, MeasuresOwnBuild,
     SummaryOfOneRun, EnginesMeasured, Reported

-----------------------------------------------------------------------------
(* The theorems. *)

(* ScriptInv holds for any number of scripts, edits and failures. *)
THEOREM ScriptInvariant == Spec => []ScriptInv
  <1>1. ScriptInv /\ [Next]_vars => ScriptInv'
    BY EditKeeps, AbortKeeps, StartKeeps, BuildKeeps, CopyKeeps, BaselineKeeps, DeviceKeeps, TestKeeps,
       SummariseKeeps, StutterKeeps DEF Next
  <1> QED
    BY InitInv, <1>1, PTL DEF Spec

(* The files hold what they should, in form (TypeOK). *)
THEOREM TypeCorrect == Spec => []TypeOK
  BY ScriptInvariant, PTL DEF ScriptInv

(* Whatever is measured or tested, both hosts have the core of this build. *)
THEOREM HostsSame == Spec => []HostsAgree
  <1>1. ScriptInv => HostsAgree
    <2> SUFFICES ASSUME ScriptInv, todo # <<>>, Head(todo)[1] \notin {"build", "find_or_build", "sync"},
                        NEW p \in Platforms
                 PROVE  bundled[p] = wasm /\ wasm # 0
      BY DEF HostsAgree
    <2>1. Head(todo) \in Measured
      BY AtStep DEF Built, Synced, Steps, ScriptInv, Follows
    <2> QED
      BY <2>1, Synchronised DEF Platforms
  <1> QED
    BY ScriptInvariant, <1>1, PTL

(* A measurement is of the core its own run built. *)
THEOREM OwnBuildMeasured == Spec => []MeasuresOwnBuild
  BY ScriptInvariant, PTL DEF ScriptInv

(* A summary's device numbers are of the run that wrote it, and never of the
   stub. *)
THEOREM SummaryCoherent == Spec => []SummaryOfOneRun
  BY ScriptInvariant, PTL DEF ScriptInv
=============================================================================
