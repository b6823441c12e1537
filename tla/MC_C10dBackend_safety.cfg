\* register_backend for a custom name and for "tcp", init/destroy with every
\* name in every letter case
CONSTANTS
    Bases <- MCBases
    RegBases <- MCRegBasesCustom
    Available <- MCAvailableAll
    None = None
SPECIFICATION Spec
INVARIANTS
    TypeOK
    DeprecatedTCPAlways
    RegisteredSelectsFactory
