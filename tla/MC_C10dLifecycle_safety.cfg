CONSTANTS
    WorldSize = 3
    Scripts <- MCScripts
    NoName = NoName
    None = None
    NonMember = NonMember
    AllowTimeout = TRUE
SPECIFICATION Spec
INVARIANTS
    TypeOK
    NameAgreement
    GroupRankConsistent
PROPERTIES
    BarrierRefinement
