---------------------------- MODULE C10dLifecycle ----------------------------
(***************************************************************************)
(* The process-group lifecycle of torch.distributed (distributed_c10d.py) *)
(* as run by every rank of a job: init_process_group, new_group and       *)
(* destroy_process_group, each rank holding its own process-wide          *)
(* registries (_pg_map, _pg_names, _pg_group_ranks, _group_count,         *)
(* GroupMember.WORLD) and all ranks sharing one key-value store through   *)
(* which _store_based_barrier synchronises them.                          *)
(*                                                                         *)
(* The caller contract of new_group ("groups should be created in the     *)
(* same order in all processes") is modelled by one script of calls that  *)
(* every rank executes in order, each at its own pace.  A call that       *)
(* raises ends that rank's program.                                       *)
(*                                                                         *)
(* A process-group handle on a rank is the index of the script call that  *)
(* created it: handles of one rank are distinct objects, and the same     *)
(* index on two ranks is "the same group" under the caller contract.      *)
(***************************************************************************)
EXTENDS Integers, Sequences, SequencesExt, FiniteSets, TLC

CONSTANTS
    WorldSize,      \* number of ranks of the job
    Scripts,        \* the programs the ranks may run (one is chosen)
    NoName,         \* group_name == '' (no explicit name)
    None,           \* Python None
    NonMember,      \* GroupMember.NON_GROUP_MEMBER
    AllowTimeout    \* whether the store barrier's wall-clock timeout may fire

Ranks == 0 .. WorldSize - 1

VARIABLES
    script,         \* the program every rank runs
    pc,             \* index of the rank's current call in script
    phase,          \* "call": about to run script[pc]; "barrier": polling the
                    \* store barrier of that call; "done"; "raised"
    world,          \* GroupMember.WORLD: a handle or None
    pgMap,          \* _pg_map: handle -> id of the store it was built on
    pgNames,        \* _pg_names: handle -> name
    pgGroupRanks,   \* _pg_group_ranks: handle (or NonMember) -> (global -> local)
    pgs,            \* the ProcessGroup objects built: handle -> [rank, size]
    groupCount,     \* _group_count
    held,           \* handles the program holds: call index -> handle
    bkey,           \* store key the rank is polling in the barrier, or None
    store,          \* the shared store(s): key -> counter
    entered         \* history: <<rank, call>> pairs that added to a barrier key

vars == <<script, pc, phase, world, pgMap, pgNames, pgGroupRanks, pgs,
          groupCount, held, bkey, store, entered>>

(***************************************************************************)
(* Store ids.  rendezvous() creates a fresh store for each init that uses *)
(* an init_method: its id is the index of that init call.  A store passed *)
(* explicitly by the caller is the same object every time: id 0.  An init *)
(* with backend "mpi" (store field "mpi") has no store: _pg_map holds None.*)
(* The barriers of the MPI communicator are counted under id MPIComm, one *)
(* counter per script call.                                                *)
(***************************************************************************)
MPIComm == -1
StoreIdOf(sc, i) == CASE sc[i].store = "reuse" -> 0
                      [] sc[i].store = "mpi"   -> None
                      [] OTHER                 -> i
MaxCount(sc) == Len(sc) + 1
KeysOf(sc) == ({MPIComm, 0} \cup (1 .. Len(sc))) \X (0 .. MaxCount(sc))

\* sorted(ranks): the same multiset of ranks in non-decreasing order.
Sorted(s) ==
    CHOOSE t \in [1 .. Len(s) -> ToSet(s)] :
        IsSorted(t, LAMBDA a, b : a <= b) /\ ToBag(t) = ToBag(s)

\* ranks.index(x): first position of x, counted from 0
IndexOf(s, x) == SelectInSeq(s, LAMBDA y : y = x) - 1

\* Bug variant (used to show GroupRankConsistent detects it): the mapping
\* built with enumerate(ranks, 1).
RankMappingFromOne(s) == [g \in ToSet(s) |-> SelectLastInSeq(s, LAMBDA y : y = g)]

\* {global_rank: group_rank for group_rank, global_rank in enumerate(ranks)}:
\* for a rank listed twice the last position wins.
RankMapping(s) == [g \in ToSet(s) |-> SelectLastInSeq(s, LAMBDA y : y = g) - 1]

\* {i: i for i in range(GroupMember.WORLD.size())}
Identity == [g \in Ranks |-> g]

\* removal of one key from a registry (del d[k])
Del(f, k) == [x \in DOMAIN f \ {k} |-> f[x]]

Call(r) == script[pc[r]]

\* the default group's backend, _pg_map[default_pg][0], is MPI
IsMPI(r) == script[world[r]].store = "mpi"

\* Bug variant (used to show NameAgreement detects it): the membership test
\* moved ahead of the naming, so only members advance _group_count.
NextGroupCountMembersOnly(r, member) ==
    IF member THEN groupCount[r] + 1 ELSE groupCount[r]

\* _group_count after an unnamed _new_process_group_helper call on rank r:
\* "_group_count += 1" runs before the membership test, so a rank that is
\* not a member of the new group advances it too.
NextGroupCount(r, member) == groupCount[r] + 1

Init ==
    /\ script \in Scripts
    /\ pc = [r \in Ranks |-> 1]
    /\ phase = [r \in Ranks |-> "call"]
    /\ world = [r \in Ranks |-> None]
    /\ pgMap = [r \in Ranks |-> <<>>]
    /\ pgNames = [r \in Ranks |-> <<>>]
    /\ pgGroupRanks = [r \in Ranks |-> <<>>]
    /\ pgs = [r \in Ranks |-> <<>>]
    /\ groupCount = [r \in Ranks |-> 0]
    /\ held = [r \in Ranks |-> <<>>]
    /\ bkey = [r \in Ranks |-> None]
    /\ store = [k \in KeysOf(script) |-> 0]
    /\ entered = {}

(***************************************************************************)
(* Steps shared by the operations.                                         *)
(***************************************************************************)

\* The call raised: the rank's program ends with the exception.
Raise(r) == phase' = [phase EXCEPT ![r] = "raised"]

\* The call returned: go on with the next call of the script.
Return(r) ==
    /\ pc' = [pc EXCEPT ![r] = pc[r] + 1]
    /\ phase' = [phase EXCEPT ![r] = IF pc[r] = Len(script) THEN "done"
                                                           ELSE "call"]

\* Bug variant (used to show NameAgreement detects it): the duplicate-name
\* test left out.
NameTakenNever(r, name) == FALSE

\* _new_process_group_helper's duplicate-name test over _pg_names.values()
NameTaken(r, name) == name \in Range(pgNames[r])

\* _new_process_group_helper for a rank that builds the group: the backend's
\* ProcessGroup made on PrefixStore(group_name, store) with (rank,
\* world_size), then its _pg_map and _pg_names entries.
RegisterGroup(r, h, rank, size, sid, name) ==
    /\ pgs' = [pgs EXCEPT ![r] = @ @@ (h :> [rank |-> rank, size |-> size])]
    /\ pgMap' = [pgMap EXCEPT ![r] = @ @@ (h :> sid)]
    /\ pgNames' = [pgNames EXCEPT ![r] = @ @@ (h :> name)]

\* Bug variant (used to show TypeOK and Termination detect it): a barrier key
\* that leaves out _group_count, so every barrier of a store shares one key.
StoreBarrierEnterOneKey(r, sid, count) ==
    LET key == <<sid, 0>>
        n   == store[key] + 1
    IN  /\ store' = [store EXCEPT ![key] = n]
        /\ entered' = entered \cup {<<r, pc[r]>>}
        /\ IF n = WorldSize
              THEN /\ Return(r)
                   /\ bkey' = [bkey EXCEPT ![r] = None]
              ELSE /\ phase' = [phase EXCEPT ![r] = "barrier"]
                   /\ bkey' = [bkey EXCEPT ![r] = key]
                   /\ UNCHANGED pc

\* _store_based_barrier, up to its first read: store.add(key, 1) and then
\* worker_count = store.add(key, 0).  If the count is already world_size the
\* loop is not entered and the call returns; otherwise the rank polls.
StoreBarrierEnter(r, sid, count) ==
    LET key == <<sid, count>>
        n   == store[key] + 1
    IN  /\ store' = [store EXCEPT ![key] = n]
        /\ entered' = entered \cup {<<r, pc[r]>>}
        /\ IF n = WorldSize
              THEN /\ Return(r)
                   /\ bkey' = [bkey EXCEPT ![r] = None]
              ELSE /\ phase' = [phase EXCEPT ![r] = "barrier"]
                   /\ bkey' = [bkey EXCEPT ![r] = key]
                   /\ UNCHANGED pc

\* barrier() on the default group, as init_process_group and new_group call
\* it for MPI: default_pg.barrier(opts).wait().  The communicator's barrier
\* of this call completes once every rank has entered it; it has no timeout.
MPIBarrier(r) == StoreBarrierEnter(r, MPIComm, pc[r])

(***************************************************************************)
(* init_process_group(backend, init_method | store, ..., group_name)      *)
(* _new_process_group_helper(world_size, rank, [], backend, store,        *)
(* group_name) (for MPI: (-1, -1, [], MPI, None), rank and size coming    *)
(* from ProcessGroupMPI.create), _update_default_pg, the identity rank    *)
(* mapping for WORLD, then _store_based_barrier, or barrier() for MPI.    *)
(***************************************************************************)
InitProcessGroup(r) ==
    /\ phase[r] = "call"
    /\ Call(r).op = "init"
    /\ UNCHANGED script
    /\ IF world[r] # None
          THEN \* "trying to initialize the default process group twice!"
               /\ Raise(r)
               /\ UNCHANGED <<pc, world, pgMap, pgNames, pgGroupRanks, pgs,
                              groupCount, held, bkey, store, entered>>
          ELSE
          LET h     == pc[r]
              sid   == StoreIdOf(script, h)
              given == Call(r).name
              name  == IF given = NoName THEN groupCount[r] ELSE given
              count == IF given = NoName THEN groupCount[r] + 1 ELSE groupCount[r]
          IN  /\ groupCount' = [groupCount EXCEPT ![r] = count]
              /\ IF NameTaken(r, name)
                    THEN \* "The specified group name has already been created"
                         /\ Raise(r)
                         /\ UNCHANGED <<pc, world, pgMap, pgNames, pgGroupRanks,
                                        pgs, held, bkey, store, entered>>
                    ELSE /\ RegisterGroup(r, h, r, WorldSize, sid, name)
                         /\ world' = [world EXCEPT ![r] = h]
                         /\ pgGroupRanks' = [pgGroupRanks EXCEPT ![r] = (h :> Identity) @@ @]
                         /\ held' = [held EXCEPT ![r] = @ @@ (h :> h)]
                         /\ IF Call(r).store = "mpi" THEN MPIBarrier(r)
                                                     ELSE StoreBarrierEnter(r, sid, count)

-----------------------------------------------------------------------------
(***************************************************************************)
(* The store barrier's poll loop: sleep, worker_count = store.add(key, 0), *)
(* then the timeout test.                                                  *)
(***************************************************************************)

\* the read returns world_size: the loop ends and the call returns
StoreBarrierLeave(r) ==
    /\ phase[r] = "barrier"
    /\ store[bkey[r]] = WorldSize
    /\ Return(r)
    /\ bkey' = [bkey EXCEPT ![r] = None]
    /\ UNCHANGED <<script, world, pgMap, pgNames, pgGroupRanks, pgs,
                   groupCount, held, store, entered>>

\* Bug variant (used to show BarrierRefinement detects it): the poll made with
\* store.add(key, 1) instead of store.add(key, 0).
StoreBarrierPollAdds(r) ==
    /\ phase[r] = "barrier"
    /\ store[bkey[r]] # WorldSize
    /\ store' = [store EXCEPT ![bkey[r]] = @ + 1]
    /\ UNCHANGED <<script, pc, phase, world, pgMap, pgNames, pgGroupRanks, pgs,
                   groupCount, held, bkey, entered>>

\* the read returns another count: the loop goes on (a stuttering step)
StoreBarrierPoll(r) ==
    /\ phase[r] = "barrier"
    /\ store[bkey[r]] # WorldSize
    /\ UNCHANGED vars

\* time.time() - start > timeout: "Timed out initializing process group in
\* store based barrier".  The test follows every read, whatever it returned.
StoreBarrierTimeout(r) ==
    /\ AllowTimeout
    /\ phase[r] = "barrier"
    /\ bkey[r][1] # MPIComm
    /\ Raise(r)
    /\ bkey' = [bkey EXCEPT ![r] = None]
    /\ UNCHANGED <<script, pc, world, pgMap, pgNames, pgGroupRanks, pgs,
                   groupCount, held, store, entered>>
-----------------------------------------------------------------------------
(***************************************************************************)
(* new_group(ranks) on rank r: the checks of the ranks argument,          *)
(* _new_process_group_helper(group_world_size, group_rank, ranks,         *)
(* backend, default_store), the rank mapping, then                        *)
(* _store_based_barrier(global_rank, default_store), or barrier() when    *)
(* the default backend is MPI.  Every rank of the job makes the call,     *)
(* members or not.  For MPI the helper builds the group with              *)
(* ProcessGroupMPI.create(ranks), which returns None to non-members and   *)
(* for ranks == [] creates a group of the whole job (MPI_COMM_WORLD).     *)
(***************************************************************************)
NewGroup(r) ==
    /\ phase[r] = "call"
    /\ Call(r).op = "new_group"
    /\ UNCHANGED script
    /\ IF world[r] = None
          THEN \* _get_default_group(): "Default process group has not been
               \* initialized"
               /\ Raise(r)
               /\ UNCHANGED <<pc, world, pgMap, pgNames, pgGroupRanks, pgs,
                              groupCount, held, bkey, store, entered>>
          ELSE
          LET arg    == Call(r).ranks
              ranks  == IF arg = None THEN [i \in 1 .. WorldSize |-> i - 1]
                                      ELSE Sorted(arg)
              size   == Len(ranks)
              grank  == IF arg = None THEN r
                        ELSE IF r \in ToSet(ranks) THEN IndexOf(ranks, r) ELSE None
              badArg == arg # None /\
                        ( size > WorldSize \/
                          \E x \in ToSet(ranks) : x < 0 \/ x >= WorldSize )
              h      == pc[r]
              sid    == pgMap[r][world[r]]   \* default_store
              member == ranks = <<>> \/ r \in ToSet(ranks)
              mpi    == IsMPI(r)
              whole  == mpi /\ ranks = <<>>   \* create([]): the world communicator
              name   == groupCount[r]        \* str(_group_count)
              count  == NextGroupCount(r, member)
              pg     == IF member THEN h ELSE NonMember
          IN
          IF badArg
             THEN \* "the new group's world size should be less or equal ..."
                  \* or "The new group's rank should be within the world_size"
                  /\ Raise(r)
                  /\ UNCHANGED <<pc, world, pgMap, pgNames, pgGroupRanks, pgs,
                                 groupCount, held, bkey, store, entered>>
          ELSE
          /\ groupCount' = [groupCount EXCEPT ![r] = count]
          /\ UNCHANGED world
          /\ IF NameTaken(r, name) \/ (member /\ grank = None /\ ~mpi)
                THEN \* duplicate group name, or the backend constructor given
                     \* rank None (ranks == [] is taken for the default group)
                     /\ Raise(r)
                     /\ UNCHANGED <<pc, pgMap, pgNames, pgGroupRanks, pgs, held,
                                    bkey, store, entered>>
                ELSE /\ IF member
                           THEN IF whole THEN RegisterGroup(r, h, r, WorldSize, sid, name)
                                         ELSE RegisterGroup(r, h, grank, size, sid, name)
                           ELSE UNCHANGED <<pgs, pgMap, pgNames>>
                     /\ pgGroupRanks' = [pgGroupRanks EXCEPT ![r] =
                            (pg :> RankMapping(ranks)) @@ @]
                     /\ held' = [held EXCEPT ![r] = @ @@ (h :> pg)]
                     /\ IF mpi THEN MPIBarrier(r) ELSE StoreBarrierEnter(r, sid, count)

(***************************************************************************)
(* destroy_process_group(group): target None is group=None, an index i   *)
(* i is the handle the program got from call i.                            *)
(***************************************************************************)
DestroyProcessGroup(r) ==
    /\ phase[r] = "call"
    /\ Call(r).op = "destroy"
    /\ UNCHANGED <<script, held, bkey, store, entered>>
    /\ LET group   == IF Call(r).target = None THEN None
                      ELSE held[r][Call(r).target]
           pg      == IF group = None THEN world[r] ELSE group
           invalid == pg = None \/ pg \notin DOMAIN pgMap[r]
           isWorld == group = None \/ group = world[r]
       IN
       \/ \* the non-member sentinel: nothing to do
          /\ group = NonMember
          /\ Return(r)
          /\ UNCHANGED <<world, pgMap, pgNames, pgGroupRanks, pgs, groupCount>>
       \/ \* assert pg is not None / "Invalid process group specified"
          /\ group # NonMember /\ invalid
          /\ Raise(r)
          /\ UNCHANGED <<pc, world, pgMap, pgNames, pgGroupRanks, pgs, groupCount>>
       \/ \* WORLD: every registry cleared and _group_count reset
          /\ group # NonMember /\ ~invalid /\ isWorld
          /\ world' = [world EXCEPT ![r] = None]
          /\ pgMap' = [pgMap EXCEPT ![r] = <<>>]
          /\ pgNames' = [pgNames EXCEPT ![r] = <<>>]
          /\ pgGroupRanks' = [pgGroupRanks EXCEPT ![r] = <<>>]
          /\ groupCount' = [groupCount EXCEPT ![r] = 0]
          /\ Return(r)
          /\ UNCHANGED pgs
       \/ \* a subgroup: its three registry entries removed
          /\ group # NonMember /\ ~invalid /\ ~isWorld
          /\ pgMap' = [pgMap EXCEPT ![r] = Del(@, pg)]
          /\ pgNames' = [pgNames EXCEPT ![r] = Del(@, pg)]
          /\ pgGroupRanks' = [pgGroupRanks EXCEPT ![r] = Del(@, pg)]
          /\ Return(r)
          /\ UNCHANGED <<world, pgs, groupCount>>

-----------------------------------------------------------------------------
CallStep(r) == InitProcessGroup(r) \/ NewGroup(r) \/ DestroyProcessGroup(r)

BarrierStep(r) == StoreBarrierLeave(r) \/ StoreBarrierPoll(r) \/ StoreBarrierTimeout(r)

\* every rank's program has ended (returned from its last call or raised)
Finished ==
    /\ \A r \in Ranks : phase[r] \in {"done", "raised"}
    /\ UNCHANGED vars

Next ==
    \/ \E r \in Ranks : CallStep(r) \/ BarrierStep(r)
    \/ Finished

\* Each rank is its own OS process, scheduled by the OS: it keeps running its
\* program, and a rank polling the barrier re-reads the store every 10ms, so
\* it eventually sees a count that has become stable.
Fairness ==
    \A r \in Ranks : WF_vars(CallStep(r)) /\ WF_vars(StoreBarrierLeave(r))

Spec == Init /\ [][Next]_vars /\ Fairness
-----------------------------------------------------------------------------
(***************************************************************************)
(* Properties                                                              *)
(***************************************************************************)
Handles == 1 .. Len(script)

\* Types, and no barrier counter of a store ever exceeds the world size (the
\* barrier waits for worker_count == world_size, so a larger count never ends).
TypeOK ==
    /\ script \in Scripts
    /\ pc \in [Ranks -> 1 .. Len(script) + 1]
    /\ phase \in [Ranks -> {"call", "barrier", "done", "raised"}]
    /\ world \in [Ranks -> Handles \cup {None}]
    /\ groupCount \in [Ranks -> 0 .. MaxCount(script)]
    /\ \A r \in Ranks :
          /\ DOMAIN pgMap[r] \subseteq Handles
          /\ DOMAIN pgNames[r] \subseteq Handles
          /\ DOMAIN pgGroupRanks[r] \subseteq Handles \cup {NonMember}
          /\ DOMAIN held[r] \subseteq Handles
    /\ bkey \in [Ranks -> KeysOf(script) \cup {None}]
    /\ store \in [KeysOf(script) -> 0 .. WorldSize]
    /\ entered \subseteq Ranks \X Handles

\* Name agreement.  Two ranks that both registered the group made by the same
\* init_process_group / new_group call registered it under the same name
\* (the name is the PrefixStore prefix under which the backend's members
\* rendezvous).  Non-members skip the group's construction in
\* _new_process_group_helper, so this rests on them still advancing
\* _group_count, and on destroy_process_group resetting it only with WORLD.
\* And no two live groups of a rank share a name (so no two share a prefix
\* of the store), although WORLD's name is the caller's and the others come
\* from a counter that destroy(WORLD) resets.
NameAgreement ==
    /\ \A r, s \in Ranks : \A h \in DOMAIN pgNames[r] \cap DOMAIN pgNames[s] :
          pgNames[r][h] = pgNames[s][h]
    /\ \A r \in Ranks : \A h, k \in DOMAIN pgNames[r] :
          h # k => pgNames[r][h] # pgNames[r][k]

\* Rank-map consistency.  For every group registered on a rank, the
\* global->local map that new_group stores in _pg_group_ranks (what get_rank,
\* get_world_size and the rank translation of every collective use) gives the
\* rank the local rank its ProcessGroup object was built with, has as many
\* entries as the object's size, and is the same map on every member.
GroupRankConsistent ==
    \A r \in Ranks : \A h \in DOMAIN pgMap[r] \cap DOMAIN pgGroupRanks[r] :
        LET m == pgGroupRanks[r][h] IN
        /\ r \in DOMAIN m
        /\ m[r] = pgs[r][h].rank
        /\ Cardinality(DOMAIN m) = pgs[r][h].size
        /\ \A s \in Ranks : h \in DOMAIN pgMap[s] \cap DOMAIN pgGroupRanks[s] =>
                               pgGroupRanks[s][h] = m

(***************************************************************************)
(* The store barrier implements GroupBarrier.  An instance is a script    *)
(* call; a rank has arrived when it added to that call's key, has left    *)
(* when it returned from the call after adding, and has given up when it  *)
(* raised (the timeout) while polling that key.                            *)
(***************************************************************************)
MaxScriptLen == CHOOSE n \in {Len(sc) : sc \in Scripts} :
                    \A sc \in Scripts : Len(sc) <= n

LeftBarrier == {e \in entered : pc[e[1]] > e[2]}
AbortedBarrier == {e \in entered : pc[e[1]] = e[2] /\ phase[e[1]] = "raised"}

Barrier == INSTANCE GroupBarrier
              WITH Procs <- Ranks, Instances <- 1 .. MaxScriptLen,
                   arrived <- entered, left <- LeftBarrier, aborted <- AbortedBarrier

\* Barrier refinement.  Every behaviour of the ranks, seen through the
\* mapping above, is one of GroupBarrier: no rank returns from
\* init_process_group or new_group before every rank has added itself to
\* that call's barrier key, no rank adds to a key twice or while it is still
\* in another barrier, and a rank in a barrier that every rank has entered
\* eventually returns (or times out).
BarrierRefinement == Barrier!Spec

\* Termination.  Every rank's program ends: it returns from its last call or
\* raises; no rank is left polling a store barrier forever.
Termination == <>(\A r \in Ranks : phase[r] \in {"done", "raised"})
=============================================================================
