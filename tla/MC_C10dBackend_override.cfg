\* register_backend("gloo", func): a name colliding with a built-in
CONSTANTS
    Bases <- MCBases
    RegBases <- MCRegBasesBuiltIn
    Available <- MCAvailableAll
    None = None
SPECIFICATION Spec
INVARIANTS
    RegisteredSelectsFactory
