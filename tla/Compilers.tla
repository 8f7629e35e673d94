------------------------------- MODULE Compilers -------------------------------
(***************************************************************************)
(* What compilers tell a translation unit about themselves: the macros     *)
(* that are defined before its first line.  External: which compilers      *)
(* there are, which macros are theirs and how a version is packed into     *)
(* them is taken from what CMake's probes test, and from their comments    *)
(* (VRP: one digit each of version, revision, patch; VVRR; ...).           *)
(*                                                                         *)
(* Macros are a function from the names that are defined to their values.  *)
(***************************************************************************)
EXTENDS Integers, Sequences, TLC

(* The macros of f and of g; f prevails. *)
f ++ g == [x \in DOMAIN f \cup DOMAIN g |-> IF x \in DOMAIN f THEN f[x] ELSE g[x]]

Macro(name, n) == [x \in {name} |-> n]
Flags(names) == [name \in names |-> 1]

-----------------------------------------------------------------------------
(* Macros. *)

(* A toolchain: whose it is, its version, whom it pretends to be ("GNU",    *)
(* "MSVC", "none"), what it compiles for, whether -std=c++17 is given for   *)
(* C++, and the languages it really compiles when it is called for C and    *)
(* for C++ (a C++ driver configured as the C compiler compiles C++).        *)
Toolchain(vendor, version, pretends, target) ==
    [vendor |-> vendor, version |-> version, pretends |-> pretends, target |-> target,
     strict |-> FALSE, compiles |-> [C |-> "C", CXX |-> "CXX"]]

Bcd(n) == (n \div 10) * 16 + (n % 10)

ClangBased == {"IntelLLVM", "XLClang", "FujitsuClang", "AppleClang", "ARMClang", "Clang"}

(* In C++ some vendors spell their macro differently. *)
Spelling(name, language) ==
    IF language = "C" THEN name
    ELSE CASE name = "__SUNPRO_C" -> "__SUNPRO_CC" [] name = "__HP_cc" -> "__HP_aCC"
           [] name = "__DECC" -> "__DECCXX" [] name = "__DECC_VER" -> "__DECCXX_VER"
           [] name = "__IBMC__" -> "__IBMCPP__" [] OTHER -> name

(* How many digits version, revision and patch have. *)
Vrr(a, b) == 100 * a + b
Vrp(a, b, c) == 100 * a + 10 * b + c
Vvrrpp(a, b, c) == 10000 * a + 100 * b + c
Vvvrrrppp(a, b, c) == 1000000 * a + 1000 * b + c
Vrpppp(a, b, c) == 100000 * a + 10000 * b + c
Vrrpppp(a, b, c) == 1000000 * a + 10000 * b + c
DecVer(a, b, c) == 10000000 * a + 100000 * b + 90000 + c   \* VVRRTPPPP, T for a release

(* In hexadecimal digits, or binary coded decimals in them. *)
SunPro3(a, b, c) == 256 * a + 16 * b + c
SunPro4(a, b, c) == 4096 * a + 16 * Bcd(b) + c
BcdBytes(a, b) == Bcd(a) * 16777216 + Bcd(b) * 65536

IntelMacros(v) ==
    IF v[1] < 2021 \/ v \in {<<2021, 1, 0>>, <<2021, 1, 1>>}
    THEN [__INTEL_COMPILER |-> Vrp(v[1], v[2], v[3])]
         ++ IF Len(v) > 3 THEN [__INTEL_COMPILER_BUILD_DATE |-> v[4]] ELSE Flags({})
    ELSE [__INTEL_COMPILER |-> v[1], __INTEL_COMPILER_UPDATE |-> v[2]]

(* One digit each until 2021.1. *)
IntelLLVMNumber(a, b, c) == IF a = 2021 /\ b < 2 THEN Vrp(a, b, c) ELSE Vvrrpp(a, b, c)

ARMCCNumber(a, b, c) == IF b < 10 /\ a < 5 THEN Vrpppp(a, b, c) ELSE Vrrpppp(a, b, c)

MSVCMacros(v) ==
    LET number == Vrr(v[1], v[2])
        build == IF v[1] < 14 THEN 10000 ELSE 100000
    IN [_MSC_VER |-> number]
       ++ (IF Len(v) > 2 THEN [_MSC_FULL_VER |-> number * build + v[3]] ELSE Flags({}))
       ++ (IF Len(v) > 3 THEN [_MSC_BUILD |-> v[4]] ELSE Flags({}))

WatcomNumber(v) == Vrp(v[1], v[2], IF Len(v) = 2 THEN 0 ELSE v[3])

SunProNumber(v) ==
    IF v[2] < 10 THEN SunPro3(v[1], v[2], v[3]) ELSE SunPro4(v[1], v[2], v[3])

FujitsuMacros(v) ==
    IF v[1] < 4 THEN [__FUJITSU |-> 1, __FCC_version__ |-> v]   \* a string
    ELSE [__FUJITSU |-> 1, __FCC_major__ |-> v[1], __FCC_minor__ |-> v[2], __FCC_patchlevel__ |-> v[3]]

IARMacros(v) ==
    IF v[1] > 6 THEN [__IAR_SYSTEMS_ICC__ |-> 9, __VER__ |-> Vvvrrrppp(v[1], v[2], v[3])]   \* for ARM
    ELSE [__IAR_SYSTEMS_ICC__ |-> 9, __VER__ |-> Vrr(v[1], v[2]), __SUBVERSION__ |-> v[3]]

ClangMacros(v) ==
    [__clang_major__ |-> v[1], __clang_minor__ |-> v[2], __clang_patchlevel__ |-> v[3]]

GNUMacros(v) == [__GNUC__ |-> v[1], __GNUC_MINOR__ |-> v[2], __GNUC_PATCHLEVEL__ |-> v[3]]

OwnMacros(vendor, v, language) ==
    CASE vendor = "Comeau" -> [__COMO__ |-> 1, __COMO_VERSION__ |-> Vrr(v[1], v[2])]
      [] vendor = "Intel" -> IntelMacros(v)
      [] vendor = "IntelLLVM" ->
           [__INTEL_LLVM_COMPILER |-> IntelLLVMNumber(v[1], v[2], v[3])]
      [] vendor = "PathScale" ->
           [__PATHCC__ |-> v[1], __PATHCC_MINOR__ |-> v[2], __PATHCC_PATCHLEVEL__ |-> v[3]]
      [] vendor = "Embarcadero" ->
           [__BORLANDC__ |-> 1856,
            __CODEGEARC_VERSION__ |-> BcdBytes(v[1], v[2]) + v[3]]
      [] vendor = "Borland" -> [__BORLANDC__ |-> Bcd(v[1]) * 256 + Bcd(v[2])]
      [] vendor = "Watcom" -> [__WATCOMC__ |-> WatcomNumber(v)]
      [] vendor = "OpenWatcom" -> [__WATCOMC__ |-> 1100 + WatcomNumber(v)]
      [] vendor = "SunPro" -> Macro(Spelling("__SUNPRO_C", language), SunProNumber(v))
      [] vendor = "HP" -> IF v = <<>> THEN Flags({"__hpux"})
                          ELSE Macro(Spelling("__HP_cc", language), Vvrrpp(v[1], v[2], v[3]))
      [] vendor = "Compaq" ->
           Macro(Spelling("__DECC", language), 1)
           ++ Macro(Spelling("__DECC_VER", language), DecVer(v[1], v[2], v[3]))
      [] vendor = "zOS" -> Macro(Spelling("__IBMC__", language), Vrp(v[1], v[2], v[3])) ++ Flags({"__COMPILER_VER__"})
      [] vendor = "XLClang" ->
           [__ibmxl__ |-> 1, __ibmxl_version__ |-> v[1], __ibmxl_release__ |-> v[2],
            __ibmxl_modification__ |-> v[3], __ibmxl_ptf_fix_level__ |-> v[4]]
      [] vendor \in {"XL", "VisualAge"} -> Macro(Spelling("__IBMC__", language), Vrp(v[1], v[2], v[3]))
      [] vendor = "NVHPC" ->
           [__NVCOMPILER |-> 1, __PGI |-> 1, __NVCOMPILER_MAJOR__ |-> v[1],
            __NVCOMPILER_MINOR__ |-> v[2], __NVCOMPILER_PATCHLEVEL__ |-> v[3]]
      [] vendor = "PGI" ->
           [__PGI |-> 1, __PGIC__ |-> v[1], __PGIC_MINOR__ |-> v[2], __PGIC_PATCHLEVEL__ |-> v[3]]
      [] vendor = "Cray" -> [_CRAYC |-> 1, _RELEASE_MAJOR |-> v[1], _RELEASE_MINOR |-> v[2]]
      [] vendor = "TI" -> [__TI_COMPILER_VERSION__ |-> Vvvrrrppp(v[1], v[2], v[3])]
      [] vendor = "FujitsuClang" ->
           [__CLANG_FUJITSU |-> 1, __FCC_major__ |-> v[1], __FCC_minor__ |-> v[2],
            __FCC_patchlevel__ |-> v[3]]
      [] vendor = "Fujitsu" -> FujitsuMacros(v)
      [] vendor = "GHS" -> [__ghs__ |-> 1, __GHS_VERSION_NUMBER |-> Vrp(v[1], v[2], v[3])]
      [] vendor = "TinyCC" -> Flags({"__TINYC__"})
      [] vendor = "Bruce" -> Flags({"__BCC__"})
      [] vendor = "SCO" -> Flags({"__SCO_VERSION__"})
      [] vendor = "ARMCC" ->
           [__ARMCC_VERSION |-> ARMCCNumber(v[1], v[2], v[3])]
      [] vendor = "ARMClang" ->
           [__ARMCOMPILER_VERSION |-> Vrrpppp(v[1], v[2], v[3]),
            __ARMCC_VERSION |-> Vrrpppp(v[1], v[2], v[3])]
      [] vendor = "AppleClang" -> ClangMacros(v) ++ [__apple_build_version__ |-> v[4]]
      [] vendor = "Clang" -> ClangMacros(v)
      [] vendor = "GNU" -> GNUMacros(v)
      [] vendor = "MSVC" -> MSVCMacros(v)
      [] vendor = "ADSP" ->
           [__VISUALDSPVERSION__ |-> BcdBytes(v[1], v[2]) + Bcd(v[3]) * 256]
      [] vendor = "IAR" -> IARMacros(v)
      [] vendor = "SDCC" ->
           IF v[1] < 3 THEN [SDCC |-> Vrp(v[1], v[2], v[3])]
           ELSE [__SDCC_VERSION_MAJOR |-> v[1], __SDCC_VERSION_MINOR |-> v[2],
                 __SDCC_VERSION_PATCH |-> v[3]]

GnuPretended == <<4, 2, 1>>
MsvcPretended == <<19, 29>>

PretendedMacros(t) ==
    CASE t.pretends = "GNU" -> GNUMacros(GnuPretended)
      [] t.pretends = "MSVC" -> MSVCMacros(MsvcPretended)
      [] OTHER -> Flags({})

(* Every C++ compiler of the GNU kind also has __GNUG__. *)
LanguageMacros(t, language) ==
    IF language = "CXX"
    THEN [__cplusplus |-> 201703, __STDC__ |-> 1]
         ++ Flags(IF t.strict THEN {"__STRICT_ANSI__"} ELSE {})
         ++ Flags(IF "GNU" \in {t.pretends, t.vendor} THEN {"__GNUG__"} ELSE {})
         ++ (IF "MSVC" \in {t.pretends, t.vendor} THEN [_MSVC_LANG |-> 201402] ELSE Flags({}))
    ELSE [__STDC_VERSION__ |-> 201710, __STDC__ |-> 1]

Macros(t, called) ==
    LET language == t.compiles[called] IN
    OwnMacros(t.vendor, t.version, language)
    ++ Flags(IF t.vendor \in ClangBased THEN {"__clang__"} ELSE {})
    ++ PretendedMacros(t) ++ LanguageMacros(t, language) ++ t.target.macros

-----------------------------------------------------------------------------
(* Targets: the platform and the architecture, where a compiler for more    *)
(* than one tells, and the macros by which it tells.                        *)

Target(platform, architecture, macros) ==
    [platform |-> platform, architecture |-> architecture, macros |-> Flags(macros)]

Plain == Target("none", "none", {})

Platform(id, macros) == Target(id, "none", macros)

Platforms ==
    {Plain,
     Platform("Linux", {"__linux__", "__linux"}),
     Platform("Linux", {"__linux__", "__ANDROID__", "__aarch64__"}),
     Platform("MSYS", {"__MSYS__", "__CYGWIN__"}), Platform("Cygwin", {"__CYGWIN__"}),
     Platform("MinGW", {"__MINGW32__", "_WIN32", "WIN32"}),
     Platform("Darwin", {"__APPLE__"}), Platform("FreeBSD", {"__FreeBSD__"}),
     Platform("NetBSD", {"__NetBSD__"}), Platform("OpenBSD", {"__OpenBSD__"}),
     Platform("SunOS", {"__sun", "sun"}), Platform("AIX", {"_AIX"}),
     Platform("HP-UX", {"__hpux", "__hpux__"}), Platform("HP-UX", {"__hpux"}),
     Platform("Haiku", {"__HAIKU__", "__BEOS__"}),
     Platform("BeOS", {"__BEOS__"}), Platform("QNX", {"__QNX__", "__QNXNTO__"}),
     Platform("Tru64", {"__tru64"}), Platform("RISCos", {"__riscos"}),
     Platform("SINIX", {"__sinix"}), Platform("UNIX_SV", {"__UNIX_SV__"}),
     Platform("BSDOS", {"__bsdos__"}), Platform("MP-RAS", {"_MPRAS"}),
     Platform("OSF1", {"__osf__"}), Platform("SCO_SV", {"_SCO_SV"}),
     Platform("ULTRIX", {"__ultrix"}), Platform("Xenix", {"_XENIX"}),
     Platform("Integrity", {"__INTEGRITY"}), Platform("Integrity178", {"__INTEGRITY", "INT_178B"})}

Windows(architecture, macros) ==
    Target("Windows", architecture, macros \cup {"_WIN32"})

WindowsArm(architecture, level) ==
    [platform |-> "Windows", architecture |-> architecture,
     macros |-> [_WIN32 |-> 1, _M_ARM |-> level]]

WindowsTargets ==
    {Windows("IA64", {"_M_IA64"}), Windows("x64", {"_M_X64", "_M_AMD64"}),
     Windows("ARM64EC", {"_M_ARM64EC", "_M_X64", "_M_AMD64"}), Windows("X86", {"_M_IX86"}),
     Windows("ARM64", {"_M_ARM64"}), Windows("MIPS", {"_M_MIPS"}), Windows("SHx", {"_M_SH"}),
     Windows("none", {}), WindowsArm("ARMV4I", 4), WindowsArm("ARMV5I", 5),
     WindowsArm("ARMV" \o ToString(7), 7)}

WatcomPlatforms ==
    {[id |-> "Linux", macro |-> "__LINUX__"], [id |-> "DOS", macro |-> "__DOS__"],
     [id |-> "OS2", macro |-> "__OS2__"], [id |-> "none", macro |-> "__QNX86__"],
     [id |-> "Windows3x", macro |-> "__WINDOWS__"], [id |-> "VxWorks", macro |-> "__VXWORKS__"]}

WatcomTargets ==
    {Target(platform.id, "I86", {platform.macro, "_M_I86"}) : platform \in WatcomPlatforms}
    \cup {Target(platform.id, "X86", {platform.macro, "_M_IX86"}) : platform \in WatcomPlatforms}
    \cup {Target(platform.id, "none", {platform.macro}) : platform \in WatcomPlatforms}

GHSTargets ==
    {Target("none", "PPC64", {"__PPC64__", "__ppc__"}), Target("none", "PPC", {"__ppc__"}),
     Target("none", "ARM", {"__ARM__"}), Target("none", "x64", {"__x86_64__"}),
     Target("Integrity", "X86", {"__i386__", "__INTEGRITY"})}

TITargets ==
    {Target("none", "ARM", {"__TI_ARM__"}), Target("none", "MSP430", {"__MSP430__"}),
     Target("none", "TMS320C28x", {"__TMS320C28XX__"}), Target("none", "TMS320C6x", {"_TMS320C6X"})}

IARArm == Target("none", "ARM", {"__ICCARM__"})

IARTargets ==
    {Target("none", "AVR", {"__ICCAVR__"}), Target("none", "RX", {"__ICCRX__"}),
     Target("none", "RH850", {"__ICCRH850__"}), Target("none", "RL78", {"__ICCRL78__"}),
     Target("none", "RISCV", {"__ICCRISCV__"}), Target("none", "MSP430", {"__ICC430__"}),
     Target("none", "V850", {"__ICCV850__"}), Target("none", "8051", {"__ICC8051__"}),
     Target("none", "STM8", {"__ICCSTM8__"})}

-----------------------------------------------------------------------------
(* Which toolchains there are. *)

(* DEC has eight digits. *)
Largest == 99999999

(* A version of as many components as tops, each no larger than there. *)
Fits(v, tops) ==
    v \in Seq(Nat) /\ Len(v) = Len(tops) /\ \A i \in 1 .. Len(tops) : v[i] =< tops[i]

IntelFits(v) ==
    \/ Fits(v, <<19, 9, 9>>) \/ Fits(v, <<19, 9, 9, Largest>>)
    \/ v \in {<<2021, 1, 0>>, <<2021, 1, 1>>}
    \/ Fits(v, <<9999, Largest, 0>>) /\ v[1] >= 2021

IntelLLVMFits(v) ==
    Fits(v, <<9999, 99, 99>>) /\ v[1] >= 2021 /\ (v[1] = 2021 /\ v[2] < 2 => v[3] =< 9)

FujitsuFits(v) ==
    \/ v \in Seq(Nat) /\ v # <<>> /\ v[1] < 4
    \/ Fits(v, <<Largest, Largest, Largest>>) /\ v[1] >= 4

MSVCFits(v) ==
    \/ Fits(v, <<99, 99>>) \/ Fits(v, <<13, 99, 9999>>)
    \/ v[1] >= 14 /\ (Fits(v, <<99, 99, 99999>>) \/ Fits(v, <<99, 99, 99999, Largest>>))

(* A version for which there is room in the vendor's macros, and of the time
   in which they were packed as they are. *)
VersionFits(vendor, v) ==
    CASE vendor = "Intel" -> IntelFits(v)
      [] vendor = "IntelLLVM" -> IntelLLVMFits(v)
      [] vendor = "Comeau" -> Fits(v, <<9999, 99>>)
      [] vendor = "Embarcadero" -> Fits(v, <<99, 99, 65535>>)
      [] vendor = "Borland" -> Fits(v, <<99, 99>>)
      [] vendor = "Watcom" -> Fits(v, <<11, 9>>) \/ (Fits(v, <<11, 9, 9>>) /\ v[3] > 0)
      [] vendor = "OpenWatcom" ->
           (Fits(v, <<9999, 9>>) \/ (Fits(v, <<9999, 9, 9>>) /\ v[3] > 0)) /\ v[1] > 0
      [] vendor = "SunPro" -> Fits(v, <<9, 9, 9>>) \/ (Fits(v, <<9, 99, 9>>) /\ v[1] >= 5)
      [] vendor = "HP" -> v = <<>> \/ Fits(v, <<9999, 99, 99>>)
      [] vendor \in {"Compaq", "ARMClang"} -> Fits(v, <<99, 99, 9999>>)
      [] vendor \in {"zOS", "GHS"} -> Fits(v, <<9999, 9, 9>>)
      [] vendor = "XL" -> Fits(v, <<9999, 9, 9>>) /\ v[1] >= 8
      [] vendor = "VisualAge" -> Fits(v, <<7, 9, 9>>)
      [] vendor \in {"XLClang", "AppleClang"} -> Fits(v, <<Largest, Largest, Largest, Largest>>)
      [] vendor = "Cray" -> Fits(v, <<Largest, Largest>>)
      [] vendor = "TI" -> Fits(v, <<99, 999, 999>>)
      [] vendor = "Fujitsu" -> FujitsuFits(v)
      [] vendor \in {"TinyCC", "Bruce", "SCO"} -> v = <<>>
      [] vendor = "ARMCC" -> Fits(v, <<99, 99, 9999>>) /\ v[1] > 0
      [] vendor = "MSVC" -> MSVCFits(v)
      [] vendor = "ADSP" -> Fits(v, <<99, 99, 99>>)
      [] vendor = "IAR" -> Fits(v, <<6, 99, Largest>>) \/ (Fits(v, <<99, 999, 999>>) /\ v[1] > 6)
      [] vendor = "SDCC" -> Fits(v, <<2, 9, 9>>) \/ (Fits(v, <<Largest, Largest, Largest>>) /\ v[1] >= 3)
      [] vendor \in {"PathScale", "NVHPC", "PGI", "FujitsuClang", "Clang", "GNU"} ->
           Fits(v, <<Largest, Largest, Largest>>)

Vendors ==
    {"Comeau", "Intel", "IntelLLVM", "PathScale", "Embarcadero", "Borland", "Watcom", "OpenWatcom",
     "SunPro", "HP", "Compaq", "zOS", "XLClang", "XL", "VisualAge", "NVHPC", "PGI", "Cray", "TI",
     "FujitsuClang", "Fujitsu", "GHS", "TinyCC", "Bruce", "SCO", "ARMCC", "AppleClang", "ARMClang",
     "Clang", "GNU", "MSVC", "ADSP", "IAR", "SDCC"}

(* What is asked for after GNU and MSVC cannot pretend to be one of them. *)
MayPretend(t) ==
    IF t.vendor \in {"GNU", "MSVC", "ADSP", "IAR", "SDCC"} \/ (t.vendor = "HP" /\ t.version = <<>>)
    THEN {"none"} ELSE {"GNU", "MSVC", "none"}

LanguagesOf(vendor) ==
    CASE vendor = "Comeau" -> {"CXX"}
      [] vendor \in {"TinyCC", "Bruce", "SDCC"} -> {"C"}
      [] OTHER -> {"C", "CXX"}

TargetsOf(t) ==
    CASE t.vendor \in {"Watcom", "OpenWatcom"} -> WatcomTargets \cup {Plain}
      [] t.vendor = "HP" /\ t.version = <<>> -> {Platform("HP-UX", {"__hpux"})}
      [] t.vendor = "IAR" -> IF t.version[1] > 6 THEN {IARArm} ELSE IARTargets
      [] t.vendor = "GHS" -> GHSTargets \cup {Plain}
      [] t.vendor = "TI" -> TITargets \cup {Plain}
      [] OTHER -> Platforms \cup (IF "MSVC" \in {t.vendor, t.pretends} THEN WindowsTargets ELSE {})

WellFormed(t) ==
    /\ t.vendor \in Vendors /\ VersionFits(t.vendor, t.version)
    /\ t.pretends \in MayPretend(t) /\ t.target \in TargetsOf(t) /\ t.strict \in BOOLEAN
    /\ DOMAIN t.compiles \subseteq {"C", "CXX"}
    /\ \A called \in DOMAIN t.compiles : t.compiles[called] \in LanguagesOf(t.vendor)
=============================================================================
