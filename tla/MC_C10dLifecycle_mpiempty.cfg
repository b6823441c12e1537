CONSTANTS
    WorldSize = 3
    Scripts <- MPIEmptyRanks
    NoName = NoName
    None = None
    NonMember = NonMember
    AllowTimeout = FALSE
SPECIFICATION Spec
INVARIANTS
    GroupRankConsistent
