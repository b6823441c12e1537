CONSTANTS
    WorldSize = 3
    Scripts <- StoreReuse
    NoName = NoName
    None = None
    NonMember = NonMember
    AllowTimeout = FALSE
SPECIFICATION Spec
PROPERTIES
    Termination
