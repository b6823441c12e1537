--------------------------- MODULE MC_C10dBackend ---------------------------
(***************************************************************************)
(* Model values for C10dBackend: the built-in names, one third-party name *)
(* ("custom"), and which names a program registers in each run.           *)
(***************************************************************************)
EXTENDS C10dBackend

MCBases == {"undefined", "gloo", "nccl", "mpi", "tcp", "hccl", "custom"}

\* a third-party backend, and a registration under the deprecated name
MCRegBasesCustom == {"custom", "tcp"}

\* a registration that collides with a built-in
MCRegBasesBuiltIn == {"gloo"}

\* a build with NCCL and HCCL but no MPI, and one with all three
MCAvailableNoMPI == {"nccl", "hccl"}
MCAvailableAll == {"mpi", "nccl", "hccl"}
=============================================================================
