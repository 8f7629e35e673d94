---------------------------- MODULE MCCompilerProbe ----------------------------
(***************************************************************************)
(* Every compiler the probes know, with the versions at which its packing  *)
(* changes or its digits carry, pretending what it can pretend, and every  *)
(* target the probes tell apart.                                           *)
(***************************************************************************)
EXTENDS CompilerProbe

-----------------------------------------------------------------------------
(* Versions. *)

Grid(majors, minors, patches) ==
    {<<v, r, p>> : v \in majors, r \in minors, p \in patches}

Digit == {0, 9}
TwoDigits == {0, 9, 10, 99}

VersionsOf(vendor) ==
    CASE vendor = "Intel" ->
           Grid({9, 19}, Digit, Digit) \cup {<<19, 1, 0, 20200925>>, <<9, 1, 2, 20991231>>}
           \cup Grid({2021}, {1}, {0, 1}) \cup Grid({2021, 2024}, {3, 10}, {0})
      [] vendor = "IntelLLVM" ->
           Grid({2021}, {0, 1}, Digit) \cup Grid({2021, 2024}, {2, 99}, TwoDigits)
      [] vendor = "Comeau" -> {<<4, 3>>, <<4, 99>>}
      [] vendor = "Embarcadero" -> Grid({6, 12}, TwoDigits, {0, 9, 10, 255})
      [] vendor = "Borland" -> {<<5, 2>>, <<5, 82>>, <<4, 0>>}
      [] vendor = "Watcom" -> {<<9, 5>>, <<10, 6>>, <<11, 0>>, <<11, 9, 9>>}
      [] vendor = "OpenWatcom" -> {<<1, 0>>, <<1, 9>>, <<2, 0>>, <<1, 7, 1>>}
      [] vendor = "SunPro" -> Grid({4, 5}, {0, 8, 9}, Digit) \cup Grid({5}, {10, 15}, Digit)
      [] vendor = "HP" -> {<<>>} \cup Grid({3, 6}, TwoDigits, TwoDigits)
      [] vendor = "Compaq" -> Grid({6, 7}, TwoDigits, {9, 9999})
      [] vendor = "VisualAge" -> Grid({6, 7}, Digit, Digit)
      [] vendor \in {"XL", "zOS"} -> Grid({8, 13}, Digit, Digit)
      [] vendor = "XLClang" -> {<<16, 1, 0, 0>>, <<16, 1, 1, 12>>}
      [] vendor = "Cray" -> {<<8, 0>>, <<8, 7>>}
      [] vendor = "Fujitsu" -> {<<2, 0>>, <<4, 8, 0>>}
      [] vendor = "GHS" -> Grid({2020}, Digit, Digit)
      [] vendor = "TI" -> Grid({5, 20}, {2, 10, 999}, {0, 999})
      [] vendor \in {"TinyCC", "Bruce", "SCO"} -> {<<>>}
      [] vendor = "ARMCC" -> Grid({3, 4}, {0, 1}, {0, 9999}) \cup Grid({5}, {4, 99}, {0, 9999})
      [] vendor = "ARMClang" -> Grid({6}, {9, 21}, {0, 9999})
      [] vendor = "AppleClang" -> {<<15, 0, 0, 15000100>>}
      [] vendor = "MSVC" ->
           {<<6, 0>>, <<13, 10, 3077>>, <<14, 0, 50727, 42>>, <<19, 42, 34435>>, <<19, 0, 24215, 1>>}
      [] vendor = "ADSP" -> Grid({5}, TwoDigits, TwoDigits)
      [] vendor = "IAR" -> Grid({8}, {0, 50, 999}, {0, 6}) \cup Grid({6}, TwoDigits, {0, 3})
      [] vendor = "SDCC" -> Grid({2}, Digit, Digit) \cup Grid({3, 4}, {10}, {0})
      [] OTHER -> Grid({3, 19}, {0, 12}, {0, 1})

-----------------------------------------------------------------------------
(* Compilers. *)

GnuOrMsvc == {"Intel", "IntelLLVM", "AppleClang", "Clang"}
Gnu == {"XLClang", "FujitsuClang", "ARMClang"}
None == {"GNU", "MSVC", "ADSP", "IAR", "SDCC", "TinyCC", "Bruce"}
GnuOrNone == {"Comeau", "PathScale", "Embarcadero", "Borland", "Watcom", "OpenWatcom", "SunPro", "HP",
              "Compaq", "zOS", "XL", "VisualAge", "NVHPC", "PGI", "Cray", "TI", "Fujitsu", "GHS",
              "SCO", "ARMCC"}

Pretences(vendor) ==
    CASE vendor \in GnuOrMsvc -> {"GNU", "MSVC"} [] vendor \in Gnu -> {"GNU"}
      [] vendor \in None -> {"none"} [] vendor \in GnuOrNone -> {"GNU", "none"}

(* The compilers that were too old to name themselves are guessed by the platform. *)
HomeOf(vendor, version) ==
    CASE vendor = "HP" -> Platform("HP-UX", {"__hpux"})
      [] vendor = "IAR" /\ version[1] > 6 -> Target("none", "ARM", {"__ICCARM__"})
      [] vendor = "IAR" -> Target("none", "AVR", {"__ICCAVR__"})
      [] OTHER -> Plain

Alone ==
    UNION {{Toolchain(vendor, version, pretends, HomeOf(vendor, version)) :
              version \in VersionsOf(vendor),
              pretends \in IF vendor = "HP" THEN {"none"} ELSE Pretences(vendor)} :
           vendor \in GnuOrMsvc \cup Gnu \cup None \cup GnuOrNone}

(* Some compile one language only. *)
Restricted(t) ==
    CASE t.vendor = "Comeau" -> [t EXCEPT !.compiles = [CXX |-> "CXX"]]
      [] t.vendor \in {"TinyCC", "Bruce", "SDCC"} -> [t EXCEPT !.compiles = [C |-> "C"]]
      [] OTHER -> t

-----------------------------------------------------------------------------
(* Targets. *)

Aimed ==
    {Toolchain("Clang", <<19, 0, 1>>, "GNU", target) : target \in Platforms}
    \cup {Toolchain(vendor, <<19, 1, 2>>, "MSVC", target) :
            vendor \in {"Clang", "Intel"}, target \in WindowsTargets}
    \cup {Toolchain("MSVC", <<19, 42, 34435>>, "none", target) : target \in WindowsTargets}
    \cup {Toolchain("OpenWatcom", <<1, 9>>, "none", target) : target \in WatcomTargets}
    \cup {Toolchain("GHS", <<2020, 1, 4>>, "GNU", target) : target \in GHSTargets}
    \cup {Toolchain("TI", <<20, 2, 1>>, "GNU", target) : target \in TITargets}
    \cup {Toolchain("IAR", <<5, 51, 0>>, "none", target) : target \in IARTargets}

(* A driver of the other language. *)
Swapped ==
    {[Toolchain(vendor, <<19, 1, 2>>, "none", Plain) EXCEPT !.compiles = compiles] :
       vendor \in {"GNU"},
       compiles \in {[C |-> "CXX", CXX |-> "CXX"], [C |-> "C", CXX |-> "C"], [C |-> "CXX", CXX |-> "C"],
                     [CXX |-> "C"]}}

MCToolchains == {Restricted(t) : t \in Alone} \cup Aimed \cup Swapped \cup {NdkToolchain}
=============================================================================
