----------------------------- MODULE CompilerProbe -----------------------------
(***************************************************************************)
(* How the native build of the Android SDK finds out what it is compiled   *)
(* with: the two probes CMake 3.22 generated (CMakeCCompilerId.c and       *)
(* CMakeCXXCompilerId.cpp, kept in the tree beside the configuration they  *)
(* led to).  A probe is compiled, never run: it tells from the macros it   *)
(* finds whose compiler this is, its version, the target and the default   *)
(* standard.  Compilers pretend to be others, so the order of the tests    *)
(* matters, and they pack versions into integers in many ways.             *)
(***************************************************************************)
EXTENDS Compilers, SequencesExt, VersionDigits

CONSTANT Toolchains   \* what CMake may be pointed to

ASSUME ToolchainsAssumption == \A t \in Toolchains : WellFormed(t)

VARIABLES
    toolchain,   \* CMAKE_C_COMPILER and CMAKE_CXX_COMPILER
    verdicts     \* what each probe said, by language

vars == <<toolchain, verdicts>>

Languages == {"C", "CXX"}

Defined(m, macro) == macro \in DOMAIN m

-----------------------------------------------------------------------------
(* Which compiler: the first branch of an #if cascade that is taken.        *)

(* Taken if all macros of one of the sets in when are defined, and nothing
   of unless is. *)
Branch(id, when, unless) == [id |-> id, when |-> when, unless |-> unless]
By(id, macro) == Branch(id, {{macro}}, {})
Either(id, a, b) == Branch(id, {{a}, {b}}, {})
Both(id, a, b) == Branch(id, {{a, b}}, {})

Taken(branch, facts) ==
    /\ \E macros \in branch.when : macros \subseteq facts
    /\ branch.unless \cap facts = {}

FirstTaken(branches, facts) ==
    LET taken == {i \in 1 .. Len(branches) : Taken(branches[i], facts)}
    IN IF taken = {} THEN "none" ELSE branches[Min(taken)].id

(* The two tests of a value in the cascade. *)
Facts(m, language) ==
    LET ibm == Spelling("__IBMC__", language) IN
    DOMAIN m
    \cup (IF Defined(m, "__WATCOMC__") /\ m["__WATCOMC__"] < 1200 THEN {"WATCOM_BELOW_1200"} ELSE {})
    \cup (IF Defined(m, ibm) /\ m[ibm] >= 800 THEN {"IBM_FROM_800"} ELSE {})

DesktopBranches ==
    <<Either("Intel", "__INTEL_COMPILER", "__ICC"),
      Branch("IntelLLVM", {{"__clang__", "__INTEL_CLANG_COMPILER"}, {"__INTEL_LLVM_COMPILER"}}, {}),
      By("PathScale", "__PATHCC__"),
      Both("Embarcadero", "__BORLANDC__", "__CODEGEARC_VERSION__"),
      By("Borland", "__BORLANDC__"),
      Both("Watcom", "__WATCOMC__", "WATCOM_BELOW_1200"),
      By("OpenWatcom", "__WATCOMC__")>>

UnixBranches(language) ==
    LET ibm == Spelling("__IBMC__", language) IN
    <<By("SunPro", Spelling("__SUNPRO_C", language)),
      By("HP", Spelling("__HP_cc", language)),
      By("Compaq", Spelling("__DECC", language)),
      Both("zOS", ibm, "__COMPILER_VER__"),
      Both("XLClang", "__ibmxl__", "__clang__"),
      Branch("XL", {{ibm, "IBM_FROM_800"}}, {"__COMPILER_VER__"}),
      Branch("VisualAge", {{ibm}}, {"__COMPILER_VER__", "IBM_FROM_800"}),
      By("NVHPC", "__NVCOMPILER"), By("PGI", "__PGI"), By("Cray", "_CRAYC"),
      By("TI", "__TI_COMPILER_VERSION__"), By("FujitsuClang", "__CLANG_FUJITSU"),
      By("Fujitsu", "__FUJITSU"), By("GHS", "__ghs__")>>

ArmBranch == Branch("ARMCC", {{"__ARMCC_VERSION"}}, {"__clang__"})

ClangBranches ==
    <<Both("AppleClang", "__clang__", "__apple_build_version__"),
      Both("ARMClang", "__clang__", "__ARMCOMPILER_VERSION"),
      By("Clang", "__clang__")>>

EmbeddedBranches ==
    <<By("MSVC", "_MSC_VER"),
      Branch("ADSP", {{"__VISUALDSPVERSION__"}, {"__ADSPBLACKFIN__"}, {"__ADSPTS__"},
                      {"__ADSP21000__"}}, {}),
      Either("IAR", "__IAR_SYSTEMS_ICC__", "__IAR_SYSTEMS_ICC")>>

Guessed == <<Either("HP", "__hpux", "__hpua")>>

CBranchesGnuFirst ==
    DesktopBranches \o UnixBranches("C")
    \o <<By("TinyCC", "__TINYC__"), By("Bruce", "__BCC__"), By("SCO", "__SCO_VERSION__"), ArmBranch,
         By("GNU", "__GNUC__")>>
    \o ClangBranches \o EmbeddedBranches
    \o <<Either("SDCC", "__SDCC_VERSION_MAJOR", "SDCC")>> \o Guessed

CBranches ==
    DesktopBranches \o UnixBranches("C")
    \o <<By("TinyCC", "__TINYC__"), By("Bruce", "__BCC__"), By("SCO", "__SCO_VERSION__"), ArmBranch>>
    \o ClangBranches \o <<By("GNU", "__GNUC__")>> \o EmbeddedBranches
    \o <<Either("SDCC", "__SDCC_VERSION_MAJOR", "SDCC")>> \o Guessed

CXXBranches ==
    <<By("Comeau", "__COMO__")>> \o DesktopBranches \o UnixBranches("CXX")
    \o <<By("SCO", "__SCO_VERSION__"), ArmBranch>>
    \o ClangBranches \o <<Either("GNU", "__GNUC__", "__GNUG__")>> \o EmbeddedBranches
    \o Guessed

CompilerId(m, language) ==
    FirstTaken(IF language = "C" THEN CBranches ELSE CXXBranches, Facts(m, language))

-----------------------------------------------------------------------------
(* Its version: the literals COMPILER_VERSION_MAJOR, MINOR, PATCH, TWEAK.   *)

VRP(n) == <<Dec(n \div 100), Dec((n \div 10) % 10), Dec(n % 10)>>
VVRRPP(n) == <<Dec(n \div 10000), Dec((n \div 100) % 100), Dec(n % 100)>>
VVVRRRPPP(n) == <<Dec(n \div 1000000), Dec((n \div 1000) % 1000), Dec(n % 1000)>>
VRRPPPP(n) == <<Dec(n \div 1000000), Dec((n \div 10000) % 100), Dec(n % 10000)>>
VVRRTPPPP(n) == <<Dec(n \div 10000000), Dec((n \div 100000) % 100), Dec(n % 10000)>>

(* The macros that are defined, up to the first that is not. *)
Given(m, macros) ==
    LET missing == {i \in 1 .. Len(macros) : ~Defined(m, macros[i])}
        given == IF missing = {} THEN Len(macros) ELSE Min(missing) - 1
    IN [i \in 1 .. given |-> Dec(m[macros[i]])]

OneDigitEach(n) == n < 2021 \/ n \in {202110, 202111}

IntelVersion(m) ==
    LET n == m["__INTEL_COMPILER"] IN
    (IF OneDigitEach(n)
     THEN IF Defined(m, "__INTEL_COMPILER_UPDATE")
          THEN <<VRP(n)[1], VRP(n)[2], Dec(m["__INTEL_COMPILER_UPDATE"])>> ELSE VRP(n)
     ELSE <<Dec(n), Dec(m["__INTEL_COMPILER_UPDATE"]), Dec(0)>>)
    \o Given(m, <<"__INTEL_COMPILER_BUILD_DATE">>)

IntelLLVMVersion(m) ==
    LET n == m["__INTEL_LLVM_COMPILER"] IN IF n < 1000000 THEN VRP(n) ELSE VVRRPP(n)

WatcomVersion(n, base) ==
    <<Dec((n - base) \div 100), Dec((n \div 10) % 10)>>
    \o (IF n % 10 > 0 THEN <<Dec(n % 10)>> ELSE <<>>)

SunProVersion(n) ==
    IF n >= 20736   \* 0x5100
    THEN <<Hex(n \div 4096), Hex((n \div 16) % 256), Hex(n % 16)>>
    ELSE <<Hex(n \div 256), Hex((n \div 16) % 16), Hex(n % 16)>>

HexBytes(n) == <<Hex(n \div 16777216), Hex((n \div 65536) % 256)>>
EmbarcaderoVersion(n) == Append(HexBytes(n), Dec(n % 65536))
ADSPVersion(n) == Append(HexBytes(n), Hex((n \div 256) % 256))

ARMCCVersion(n) ==
    IF n >= 1000000 THEN VRRPPPP(n)
    ELSE <<Dec(n \div 100000), Dec((n \div 10000) % 10), Dec(n % 10000)>>

MSVCVersion(m) ==
    LET n == m["_MSC_VER"] IN
    <<Dec(n \div 100), Dec(n % 100)>>
    \o (IF Defined(m, "_MSC_FULL_VER")
        THEN <<Dec(m["_MSC_FULL_VER"] % (IF n >= 1400 THEN 100000 ELSE 10000))>>
             \o Given(m, <<"_MSC_BUILD">>)
        ELSE <<>>)

IARSmall == {"__ICCAVR__", "__ICCRX__", "__ICCRH850__", "__ICCRL78__", "__ICC430__",
             "__ICCRISCV__", "__ICCV850__", "__ICC8051__", "__ICCSTM8__"}

IARVersion(m) ==
    LET n == m["__VER__"] IN
    IF Defined(m, "__ICCARM__") THEN VVVRRRPPP(n)
    ELSE IF DOMAIN m \cap IARSmall # {}
    THEN <<Dec(n \div 100), Dec(n - (n \div 100) * 100), Dec(m["__SUBVERSION__"])>>
    ELSE <<>>

ComponentsMacros == [
    PathScale |-> <<"__PATHCC__", "__PATHCC_MINOR__", "__PATHCC_PATCHLEVEL__">>,
    XLClang |-> <<"__ibmxl_version__", "__ibmxl_release__", "__ibmxl_modification__",
                  "__ibmxl_ptf_fix_level__">>,
    NVHPC |-> <<"__NVCOMPILER_MAJOR__", "__NVCOMPILER_MINOR__", "__NVCOMPILER_PATCHLEVEL__">>,
    PGI |-> <<"__PGIC__", "__PGIC_MINOR__", "__PGIC_PATCHLEVEL__">>,
    Cray |-> <<"_RELEASE_MAJOR", "_RELEASE_MINOR">>,
    FujitsuClang |-> <<"__FCC_major__", "__FCC_minor__", "__FCC_patchlevel__">>,
    Fujitsu |-> <<"__FCC_major__", "__FCC_minor__", "__FCC_patchlevel__">>,
    AppleClang |-> <<"__clang_major__", "__clang_minor__", "__clang_patchlevel__",
                     "__apple_build_version__">>,
    Clang |-> <<"__clang_major__", "__clang_minor__", "__clang_patchlevel__">>,
    GNU |-> <<"__GNUC__", "__GNUC_MINOR__", "__GNUC_PATCHLEVEL__">>]

VersionLiterals(id, m, language) ==
    LET N(name) == m[Spelling(name, language)] IN
    CASE id \in DOMAIN ComponentsMacros -> Given(m, ComponentsMacros[id])
      [] id = "Comeau" -> <<Dec(m["__COMO_VERSION__"] \div 100), Dec(m["__COMO_VERSION__"] % 100)>>
      [] id = "Intel" -> IntelVersion(m)
      [] id = "IntelLLVM" -> IntelLLVMVersion(m)
      [] id = "Embarcadero" -> EmbarcaderoVersion(m["__CODEGEARC_VERSION__"])
      [] id = "Borland" -> <<Hex(m["__BORLANDC__"] \div 256), Hex(m["__BORLANDC__"] % 256)>>
      [] id = "Watcom" -> WatcomVersion(m["__WATCOMC__"], 0)
      [] id = "OpenWatcom" -> WatcomVersion(m["__WATCOMC__"], 1100)
      [] id = "SunPro" -> SunProVersion(N("__SUNPRO_C"))
      [] id = "HP" /\ Defined(m, Spelling("__HP_cc", language)) -> VVRRPP(N("__HP_cc"))
      [] id = "Compaq" -> VVRRTPPPP(N("__DECC_VER"))
      [] id \in {"zOS", "XL", "VisualAge"} -> VRP(N("__IBMC__"))
      [] id = "TI" -> VVVRRRPPP(m["__TI_COMPILER_VERSION__"])
      [] id = "GHS" /\ Defined(m, "__GHS_VERSION_NUMBER") -> VRP(m["__GHS_VERSION_NUMBER"])
      [] id = "ARMCC" -> ARMCCVersion(m["__ARMCC_VERSION"])
      [] id = "ARMClang" -> VRRPPPP(m["__ARMCOMPILER_VERSION"])
      [] id = "MSVC" -> MSVCVersion(m)
      [] id = "ADSP" /\ Defined(m, "__VISUALDSPVERSION__") -> ADSPVersion(m["__VISUALDSPVERSION__"])
      [] id = "IAR" /\ Defined(m, "__VER__") -> IARVersion(m)
      [] id = "SDCC" ->
           IF Defined(m, "__SDCC_VERSION_MAJOR")
           THEN Given(m, <<"__SDCC_VERSION_MAJOR", "__SDCC_VERSION_MINOR", "__SDCC_VERSION_PATCH">>)
           ELSE VRP(m["SDCC"])
      [] OTHER -> <<>>

(* What CMake reads from the digits of an info string. *)
Numbers(literals) == [i \in DOMAIN literals |-> Number(literals[i])]

(* info_version; Fujitsu's COMPILER_VERSION is a string. *)
Version(id, m, language) ==
    IF id = "Fujitsu" /\ Defined(m, "__FCC_version__") THEN m["__FCC_version__"]
    ELSE Numbers(VersionLiterals(id, m, language))

(* SIMULATE_ID and SIMULATE_VERSION. *)
Simulated(id, m) ==
    IF id \in {"Intel", "IntelLLVM"} /\ Defined(m, "__GNUC__")
    THEN [id |-> "GNU",
          version |-> Numbers(Given(m, <<"__GNUC__", "__GNUC_MINOR__", "__GNUC_PATCHLEVEL__">>))]
    ELSE IF id \in {"Intel", "IntelLLVM", "AppleClang", "Clang"} /\ Defined(m, "_MSC_VER")
    THEN [id |-> "MSVC", version |-> Numbers(<<Dec(m["_MSC_VER"] \div 100), Dec(m["_MSC_VER"] % 100)>>)]
    ELSE [id |-> "none", version |-> <<>>]

-----------------------------------------------------------------------------
(* The target. *)

Named(id, macros) == Branch(id, {{macro} : macro \in macros}, {})

PlatformBranches ==
    <<Named("Linux", {"__linux", "__linux__", "linux"}), By("MSYS", "__MSYS__"),
      By("Cygwin", "__CYGWIN__"), By("MinGW", "__MINGW32__"), By("Darwin", "__APPLE__"),
      Named("Windows", {"_WIN32", "__WIN32__", "WIN32"}),
      Named("FreeBSD", {"__FreeBSD__", "__FreeBSD"}), Named("NetBSD", {"__NetBSD__", "__NetBSD"}),
      Named("OpenBSD", {"__OpenBSD__", "__OPENBSD"}), Named("SunOS", {"__sun", "sun"}),
      Named("AIX", {"_AIX", "__AIX", "__AIX__", "__aix", "__aix__"}),
      Named("HP-UX", {"__hpux", "__hpux__"}), By("Haiku", "__HAIKU__"),
      Named("BeOS", {"__BeOS", "__BEOS__", "_BEOS"}), Named("QNX", {"__QNX__", "__QNXNTO__"}),
      Named("Tru64", {"__tru64", "_tru64", "__TRU64__"}), Named("RISCos", {"__riscos", "__riscos__"}),
      Named("SINIX", {"__sinix", "__sinix__", "__SINIX__"}), By("UNIX_SV", "__UNIX_SV__"),
      By("BSDOS", "__bsdos__"), Named("MP-RAS", {"_MPRAS", "MPRAS"}),
      Named("OSF1", {"__osf", "__osf__"}), Named("SCO_SV", {"_SCO_SV", "SCO_SV", "sco_sv"}),
      Named("ULTRIX", {"__ultrix", "__ultrix__", "_ULTRIX"}),
      Named("Xenix", {"__XENIX__", "_XENIX", "XENIX"}),
      Both("Linux", "__WATCOMC__", "__LINUX__"),
      Both("DOS", "__WATCOMC__", "__DOS__"),
      Both("OS2", "__WATCOMC__", "__OS2__"),
      Both("Windows3x", "__WATCOMC__", "__WINDOWS__"),
      Both("VxWorks", "__WATCOMC__", "__VXWORKS__"),
      By("none", "__WATCOMC__"),
      Both("Integrity178", "__INTEGRITY", "INT_178B"), By("Integrity", "__INTEGRITY")>>

PlatformId(m) == FirstTaken(PlatformBranches, DOMAIN m)

MSVCArchitecturesX64First ==
    <<By("IA64", "_M_IA64"), Named("x64", {"_M_X64", "_M_AMD64"}), By("ARM64EC", "_M_ARM64EC"),
      By("X86", "_M_IX86"), By("ARM64", "_M_ARM64"), By("ARMV", "_M_ARM"), By("MIPS", "_M_MIPS"),
      By("SHx", "_M_SH")>>

MSVCArchitectures ==
    <<By("IA64", "_M_IA64"), By("ARM64EC", "_M_ARM64EC"), Named("x64", {"_M_X64", "_M_AMD64"}),
      By("X86", "_M_IX86"), By("ARM64", "_M_ARM64"), By("ARMV", "_M_ARM"), By("MIPS", "_M_MIPS"),
      By("SHx", "_M_SH")>>

MSVCArchitecture(m) ==
    LET id == FirstTaken(MSVCArchitectures, DOMAIN m) IN
    IF id # "ARMV" THEN id
    ELSE CASE m["_M_ARM"] = 4 -> "ARMV4I" [] m["_M_ARM"] = 5 -> "ARMV5I"
           [] OTHER -> "ARMV" \o ToString(m["_M_ARM"])

IARArchitectures ==
    <<By("ARM", "__ICCARM__"), By("RX", "__ICCRX__"), By("RH850", "__ICCRH850__"),
      By("RL78", "__ICCRL78__"), By("RISCV", "__ICCRISCV__"), By("AVR", "__ICCAVR__"),
      By("MSP430", "__ICC430__"), By("V850", "__ICCV850__"), By("8051", "__ICC8051__"),
      By("STM8", "__ICCSTM8__")>>

GHSArchitectures ==
    <<By("PPC64", "__PPC64__"), By("PPC", "__ppc__"), By("ARM", "__ARM__"),
      By("x64", "__x86_64__"), By("X86", "__i386__")>>

TIArchitectures ==
    <<By("ARM", "__TI_ARM__"), By("MSP430", "__MSP430__"), By("TMS320C28x", "__TMS320C28XX__"),
      Named("TMS320C6x", {"__TMS320C6X__", "_TMS320C6X"})>>

(* Only compilers that are built for one architecture each are asked. *)
ArchitectureId(m) ==
    CASE {"_WIN32", "_MSC_VER"} \subseteq DOMAIN m -> MSVCArchitecture(m)
      [] Defined(m, "__WATCOMC__") -> FirstTaken(<<By("I86", "_M_I86"), By("X86", "_M_IX86")>>, DOMAIN m)
      [] Defined(m, "__IAR_SYSTEMS_ICC__") \/ Defined(m, "__IAR_SYSTEMS_ICC") ->
           FirstTaken(IARArchitectures, DOMAIN m)
      [] Defined(m, "__ghs__") -> FirstTaken(GHSArchitectures, DOMAIN m)
      [] Defined(m, "__TI_COMPILER_VERSION__") -> FirstTaken(TIArchitectures, DOMAIN m)
      [] OTHER -> "none"

-----------------------------------------------------------------------------
(* The language. *)

(* The first of the standards in order whose number is reached. *)
StandardOf(number, thresholds) ==
    thresholds[Min({i \in 1 .. Len(thresholds) : number >= thresholds[i].from})].standard

From(number, standard) == [from |-> number, standard |-> standard]

CStandard(m) ==
    IF {"__STDC__", "__clang__"} \cap DOMAIN m = {}
    THEN IF {"_MSC_VER", "__ibmxl__", "__IBMC__"} \cap DOMAIN m # {} THEN "90" ELSE "none"
    ELSE StandardOf(IF Defined(m, "__STDC_VERSION__") THEN m["__STDC_VERSION__"] ELSE 0,
                    <<From(201711, "23"), From(201710, "17"), From(201000, "11"),
                      From(199901, "99"), From(0, "90")>>)

(* Intel's compiler on Windows reports the standard of MSVC's library. *)
CXXStandardNumber(m) ==
    IF Defined(m, "__INTEL_COMPILER") /\ Defined(m, "_MSVC_LANG") /\ m["_MSVC_LANG"] < 201403
    THEN CASE ~Defined(m, "__INTEL_CXX11_MODE__") -> 199711
           [] Defined(m, "__cpp_aggregate_nsdmi") -> 201402
           [] OTHER -> 201103
    ELSE IF Defined(m, "_MSC_VER") /\ Defined(m, "_MSVC_LANG") THEN m["_MSVC_LANG"]
    ELSE m["__cplusplus"]

CXXStandard(m) ==
    StandardOf(CXXStandardNumber(m),
               <<From(202003, "23"), From(201704, "20"), From(201703, "17"), From(201402, "14"),
                 From(201103, "11"), From(0, "98")>>)

ExtensionsWithoutStrict(m) ==
    IF {"__clang__", "__GNUC__", "__TI_COMPILER_VERSION__"} \cap DOMAIN m # {}
       /\ ~Defined(m, "_MSC_VER")
    THEN "ON" ELSE "OFF"

Extensions(m) ==
    IF {"__clang__", "__GNUC__", "__TI_COMPILER_VERSION__"} \cap DOMAIN m # {}
       /\ {"__STRICT_ANSI__", "_MSC_VER"} \cap DOMAIN m = {}
    THEN "ON" ELSE "OFF"

-----------------------------------------------------------------------------
(* The two probes, in the order of project(wasm_mobile LANGUAGES C CXX). *)

Refused == [refused |-> TRUE]

Verdict(m, language) ==
    LET id == CompilerId(m, language) IN
    [id |-> id, version |-> Version(id, m, language), simulated |-> Simulated(id, m),
     platform |-> PlatformId(m), architecture |-> ArchitectureId(m),
     standard |-> IF language = "C" THEN CStandard(m) ELSE CXXStandard(m),
     extensions |-> Extensions(m)]

Init == toolchain \in Toolchains /\ verdicts = <<>>

(* #error: a C++ compiler was selected for C.  A toolchain without a C
   compiler is one for a project that only enables C++. *)
ProbeC ==
    /\ verdicts = <<>> /\ "C" \in DOMAIN toolchain.compiles
    /\ LET m == Macros(toolchain, "C") IN
       verdicts' = Macro("C", IF Defined(m, "__cplusplus") THEN Refused ELSE Verdict(m, "C"))
    /\ UNCHANGED toolchain

(* #error: a C compiler was selected for C++.  CMake gives up after a probe
   that did not compile. *)
ProbeCXX ==
    /\ "CXX" \in DOMAIN toolchain.compiles \ DOMAIN verdicts
    /\ DOMAIN verdicts = DOMAIN toolchain.compiles \ {"CXX"}
    /\ Refused \notin Range(verdicts)
    /\ LET m == Macros(toolchain, "CXX") IN
       verdicts' = verdicts
         ++ Macro("CXX", IF Defined(m, "__cplusplus") THEN Verdict(m, "CXX") ELSE Refused)
    /\ UNCHANGED toolchain

Next == ProbeC \/ ProbeCXX

Spec == Init /\ [][Next]_vars

-----------------------------------------------------------------------------
(* Properties. *)

Rightly(language) == toolchain.compiles[language] = language

(* A probe names the compiler it is compiled with, and whom it pretends to
   be where CMake wants to know: no compiler is taken for the one whose
   macros it also defines, whatever the order of the #elif branches.  And a
   compiler of the other language is refused. *)
IdentifiesCompiler ==
    \A language \in DOMAIN verdicts :
        IF Rightly(language)
        THEN /\ verdicts[language].id = toolchain.vendor
             /\ verdicts[language].simulated.id =
                  IF \/ toolchain.vendor \in {"Intel", "IntelLLVM"} /\ toolchain.pretends # "none"
                     \/ toolchain.vendor \in {"AppleClang", "Clang"} /\ toolchain.pretends = "MSVC"
                  THEN toolchain.pretends ELSE "none"
        ELSE verdicts[language] = Refused

(* However a vendor packs its version into macros, the number read from the
   probe's digits is the version of the compiler; so is the version of the
   compiler that is simulated. *)
VersionReadBack ==
    \A language \in DOMAIN verdicts :
        Rightly(language) =>
          /\ verdicts[language].version = toolchain.version
          /\ verdicts[language].simulated.version =
               CASE verdicts[language].simulated.id = "GNU" -> GnuPretended
                 [] verdicts[language].simulated.id = "MSVC" -> MsvcPretended
                 [] OTHER -> <<>>

(* The platform and the architecture a probe names are those of the target,
   though a target also defines the macros of the ones it is compatible with
   (MSYS those of Cygwin, MinGW those of Windows, ARM64EC those of x64), and
   both probes agree. *)
IdentifiesTarget ==
    \A language \in DOMAIN verdicts :
        Rightly(language) =>
          /\ verdicts[language].platform = toolchain.target.platform
          /\ verdicts[language].architecture = toolchain.target.architecture

(* What is kept in the tree of the NDK's compilers: CMakeCCompiler.cmake:3-18
   and CMakeCXXCompiler.cmake:3-19.  The extensions differ, because cppFlags
   of sdk/build.gradle.kts reaches the C++ probe only. *)
Recorded(extensions) ==
    [id |-> "Clang", version |-> <<19, 0, 1>>, simulated |-> [id |-> "none", version |-> <<>>],
     platform |-> "Linux", architecture |-> "none", standard |-> "17", extensions |-> extensions]

NdkToolchain ==
    LET android == [platform |-> "Linux", architecture |-> "none",
                    macros |-> Flags({"__linux__", "__ANDROID__", "__aarch64__"})]
    IN [Toolchain("Clang", <<19, 0, 1>>, "GNU", android) EXCEPT !.strict = TRUE]

NdkAsRecorded ==
    toolchain = NdkToolchain =>
        \A language \in DOMAIN verdicts :
            verdicts[language] = Recorded(IF language = "C" THEN "ON" ELSE "OFF")
=============================================================================
