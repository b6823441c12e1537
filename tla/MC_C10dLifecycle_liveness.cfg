CONSTANTS
    WorldSize = 3
    Scripts <- MCScripts
    NoName = NoName
    None = None
    NonMember = NonMember
    AllowTimeout = FALSE
SPECIFICATION Spec
PROPERTIES
    Termination
