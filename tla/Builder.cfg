SPECIFICATION Spec
CONSTANTS
    Builtins <- BoxedBuiltins
    Inputs <- MCInputs
INVARIANTS
    BootOrderSound
    VerdictExact
