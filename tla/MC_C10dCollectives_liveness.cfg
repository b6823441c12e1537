CONSTANTS
    WorldSize = 3
    Scripts <- MCLiveScripts
    NoName = NoName
    None = None
    NonMember = NonMember
    AllowTimeout = FALSE
SPECIFICATION Spec
PROPERTIES
    Termination
