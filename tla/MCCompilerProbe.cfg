CONSTANT
    Toolchains <- MCToolchains
SPECIFICATION Spec
INVARIANTS
    IdentifiesCompiler
    VersionReadBack
    IdentifiesTarget
    NdkAsRecorded
\* A toolchain is probed once for each language.
CHECK_DEADLOCK FALSE
