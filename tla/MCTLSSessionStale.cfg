SPECIFICATION TLSSpec
CONSTANTS
    Wavelengths = {1, 2}
    NoValue = NoValue
    MaxCommands = 4
INVARIANTS
    RestIsStill
\* A session at rest may stay there.
CHECK_DEADLOCK FALSE
