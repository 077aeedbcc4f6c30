SPECIFICATION Spec
CONSTANTS
    Symbols <- MCSymbols
    MaxSymbols = 3
INVARIANTS
    TypeOK
    RoundTrip
    DamageIsLocal
CHECK_DEADLOCK FALSE
