\* every program: rings and subgroup exchanges under NCCL and Gloo, mixed
\* backends, a non-P2POp element, and a batch raising mid-loop
CONSTANTS
    Ranks <- MCRanks
    World = World
    Programs <- MCPrograms
    None = None
SPECIFICATION Spec
INVARIANTS
    TypeOK
    DeliveredToPeer
    NothingDeferredAfterExit
    NoSpuriousRaise
PROPERTIES
    Termination
\* a rank blocked in req.wait() forever is reported as a Termination
\* violation (a hang is a stuttering end), not as a deadlock
CHECK_DEADLOCK FALSE
