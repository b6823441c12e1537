\* batch_isend_irecv([]) on one rank, and a batch built on the
\* NON_GROUP_MEMBER object a non-member holds
CONSTANTS
    Ranks <- MCRanks
    World = World
    Programs <- MCProgramsRaise
    None = None
SPECIFICATION Spec
INVARIANTS
    NoSpuriousRaise
