CONSTANTS
    WorldSize = 3
    Scripts <- DuplicateRanks
    NoName = NoName
    None = None
    NonMember = NonMember
    AllowTimeout = FALSE
SPECIFICATION Spec
INVARIANTS
    GroupRankConsistent
