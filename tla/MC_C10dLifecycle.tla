-------------------------- MODULE MC_C10dLifecycle --------------------------
(***************************************************************************)
(* Model-checking instance of C10dLifecycle: three ranks and a handful of *)
(* programs, each run by every rank in the same order.                     *)
(***************************************************************************)
EXTENDS C10dLifecycle

\* one call of a program; fields a call does not use are None
InitCall(st, nm) == [op |-> "init", store |-> st, name |-> nm, ranks |-> None, target |-> None]
NewGroupCall(rk) == [op |-> "new_group", store |-> None, name |-> None, ranks |-> rk, target |-> None]
DestroyCall(t)   == [op |-> "destroy", store |-> None, name |-> None, ranks |-> None, target |-> t]

\* init, overlapping subgroups (members listed unsorted), a subgroup
\* destroyed, a one-rank group, WORLD destroyed and the job re-initialised
\* on a fresh rendezvous store, then a new subgroup in the second world.
Lifecycle ==
    << InitCall("fresh", NoName), NewGroupCall(<<2, 0>>), NewGroupCall(None),
       DestroyCall(2), NewGroupCall(<<1>>), DestroyCall(None),
       InitCall("fresh", NoName), NewGroupCall(<<0, 1>>) >>

\* an explicit WORLD name that an automatic subgroup name later collides with
NameClash ==
    << InitCall("fresh", 1), NewGroupCall(<<0, 1>>), NewGroupCall(<<1, 2>>) >>

\* handles used after destruction: a subgroup of the first world and the first
\* WORLD itself, both destroyed while the program still holds them
StaleHandles ==
    << InitCall("fresh", NoName), NewGroupCall(<<0, 1>>), DestroyCall(1),
       InitCall("fresh", NoName), DestroyCall(2), DestroyCall(1) >>

\* the argument and state errors of init_process_group / new_group / destroy
Misuse ==
    { << NewGroupCall(None) >>,
      << DestroyCall(None) >>,
      << InitCall("fresh", NoName), InitCall("fresh", NoName) >>,
      << InitCall("fresh", NoName), NewGroupCall(<<0, 3>>) >>,
      << InitCall("fresh", NoName), NewGroupCall(<<0, 1, 2, 1>>) >>,
      << InitCall("fresh", NoName), NewGroupCall(<<>>) >> }

\* the same life cycle on MPI: groups made with ProcessGroupMPI.create, a
\* non-member, barrier() in place of the store barrier, and a re-init of
\* the job after WORLD is destroyed
MPILifecycle ==
    << InitCall("mpi", NoName), NewGroupCall(<<2, 0>>), NewGroupCall(None),
       DestroyCall(2), DestroyCall(None), InitCall("mpi", NoName),
       NewGroupCall(<<1>>) >>

MCScripts == {Lifecycle, NameClash, StaleHandles, MPILifecycle} \cup Misuse

\* a rank listed twice in new_group's ranks; the store-based constructor is
\* taken to return at once, as a lazily connecting one (NCCL) does
DuplicateRanks ==
    {<< InitCall("fresh", NoName), NewGroupCall(<<0, 0>>) >>}

\* new_group(ranks=[]) on an MPI job
MPIEmptyRanks ==
    {<< InitCall("mpi", NoName), NewGroupCall(<< >>) >>}

\* the caller's own store passed to init_process_group again after WORLD was
\* destroyed (recovery without a new rendezvous)
StoreReuse ==
    {<< InitCall("reuse", NoName), DestroyCall(None),
        InitCall("reuse", NoName) >>}
=============================================================================
