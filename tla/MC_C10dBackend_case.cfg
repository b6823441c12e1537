\* init_process_group with "hccl", "HCCL" and "Hccl"
CONSTANTS
    Bases <- MCBases
    RegBases <- MCRegBasesCustom
    Available <- MCAvailableNoMPI
    None = None
SPECIFICATION Spec
INVARIANTS
    CaseInsensitiveSelection
