# TLA+ models of the c10d process-group layer

This directory holds TLA+ specifications of
`src/distributed/distributed_c10d.py`, checked with TLC. That file is the
Python layer of `torch.distributed`. The C++ ProcessGroup backends, the
rendezvous and the Store lie outside the repository. The models treat them as
opaque collaborators.

## The system and how its parts interact

Each rank is one process. It keeps process-wide registries:

| registry | contents |
|---|---|
| `GroupMember.WORLD` | the default group |
| `_pg_map` | group → (backend, store) |
| `_pg_names` | group → name |
| `_pg_group_ranks` | group → {global rank: local rank} |
| `_group_count` | the counter that names unnamed groups |

The ranks do not share these registries. They stay in agreement only because
every rank makes the same calls in the same order. That is the caller contract
of `new_group`. They also use a shared key-value store:

- `init_process_group` builds the default group through
  `_new_process_group_helper`, then waits in `_store_based_barrier`.
- `new_group` must be called by every rank. It advances `_group_count` on
  every rank, members or not. Members build a ProcessGroup, and every rank
  records a rank map and waits in the store barrier.
- `destroy_process_group` removes one subgroup. For WORLD, it clears every
  registry and resets `_group_count` to 0.
- `_store_based_barrier` does `add(key, 1)` on the key
  `store_based_barrier_key:<_group_count>`. It then polls `add(key, 0)` until
  the count equals the default group's size, or raises after `timeout`.
- The dispatcher is get_rank, get_world_size, send/recv, the collectives and
  barrier. Each call follows the same steps:
  1. It resolves its group argument. None means the default group, and
     `NON_GROUP_MEMBER` makes the call a no-op.
  2. It translates global ranks to local ones through `_pg_group_ranks`.
  3. It calls the ProcessGroup object.
  4. For `async_op=False`, it waits on the returned work.

## Modules

| module | models | source |
|---|---|---|
| `C10dLifecycle` | init / new_group / destroy, the registries, the store barrier | lines 178-242, 424-667, 1741-1836 |
| `MC_C10dLifecycle` | programs (scripts) of lifecycle calls for 3 ranks | — |
| `C10dCollectives` | the dispatcher composed with `C10dLifecycle` (`L == INSTANCE C10dLifecycle`) | lines 244-294, 368-382, 670-856, 952-1738 |
| `MC_C10dCollectives` | programs of lifecycle, collective and point-to-point calls | — |
| `GroupBarrier` | abstract: what the store barrier promises, with no store | — |
| `C10dBackend` | `Backend`, `register_backend`, the backend choice of init and the helper | lines 91-149, 400-421, 490-529, 572-617, 645-651 |
| `MC_C10dBackend` | the built-in names, one third-party name, three builds | — |
| `C10dBatchP2P` | `batch_isend_irecv`, `_check_p2p_op_list`, `_batch_p2p_manager`, isend/irecv as the batch calls them | lines 244-267, 325-338, 400-421, 716-783, 859-949 |
| `MC_C10dBatchP2P` | batches for 3 ranks on WORLD and the subgroup `[2, 1]` | — |

### C10dLifecycle

Every rank runs the same script, a sequence of call records chosen from
`Scripts`. It runs it at its own pace. This models the caller contract "the
same calls in the same order" and leaves every interleaving of the ranks open.

State:

- A rank's `phase` is one of:
  - `call`: about to run `script[pc]`;
  - `barrier`: polling the store;
  - `done`;
  - `raised`: the call threw, and the program ends.
- Each registry is a variable per rank.
- A ProcessGroup handle is the index of the script call that created it.
- `pgs` records the `(rank, size)` each ProcessGroup object was built with.
- `store` maps `<<store id, _group_count>>` to a counter.
  - Each init through an init_method gets a fresh rendezvous store, whose id
    is its call index.
  - An explicit store is the same object every time, with id 0.
  - An MPI init has no store: its `_pg_map` entry holds `None`.
- An init's `store` field picks one of these three. Under MPI
  (`IsMPI`, read from `_pg_map[default_pg]`), both init and `new_group` end in
  the transport `barrier()` on the default group. This is `MPIBarrier`: a
  barrier key `<<MPIComm, pc>>` that no timeout can fire on.
  `ProcessGroupMPI.create(ranks)` returns None to a non-member, and with
  `ranks = []` it returns a group of the whole job to every rank.

Actions:

| action | models |
|---|---|
| `InitProcessGroup` | the whole of `init_process_group` up to the first read of the barrier: the AlreadyInitialized check, the helper, the identity map for WORLD, and `add(key,1)` |
| `NewGroup` | the same for `new_group`, including the MPI `create` branch, the sort, the range checks, `ranks.index`, the membership test, and the rank map built with the last position winning for a duplicate |
| `DestroyProcessGroup` | its four branches |
| `StoreBarrierPoll` | a poll that reads less than world_size, as a stutter |
| `StoreBarrierLeave` | the loop exit |
| `StoreBarrierTimeout` | the raise; enabled only when `AllowTimeout` |

### GroupBarrier and the refinement

`GroupBarrier` states what `_store_based_barrier` promises without mentioning
the store. There is a sequence of barrier instances, and each process enters
each instance at most once. A process leaves an instance only after every
process has entered it, and it may give up (time out) instead. Weak fairness
on `Leave` says that a process in a fully entered instance eventually leaves
it.

`C10dLifecycle` defines `Barrier == INSTANCE GroupBarrier WITH ...`. The
mapping works as follows:

- `arrived` is `entered`, the `<<rank, call>>` pairs that have done
  `add(key, 1)`;
- `left` is the entered pairs whose rank has moved past that call;
- `aborted` is the pairs whose rank raised at that call.

`BarrierRefinement == Barrier!Spec` is checked as a PROPERTY. It covers both
the safety part (nobody passes early) and the liveness part (everybody passes
eventually).

### C10dCollectives

This module adds per-rank state:

- `posted`: the operations issued on ProcessGroup objects;
- `msgs`: point-to-point messages in flight;
- `waitOn`: the work a blocking call waits on;
- `ret`: the values calls return;
- `copied`: the reduce calls that copied their result;
- `recvd`: the completed receives, as `<<rank, receive call, send call>>`.

The ProcessGroup object is abstracted to what the dispatcher relies on:

- The k-th collective on an object completes once every rank that built that
  object has issued its k-th operation on it.
- A send delivers a message from the sender's local rank to a local rank of
  the same object. A receive takes any message in flight that `Matches` it:
  the same object, addressed to the receiver's local rank, and from the
  expected local source unless it receives from any source. Nothing orders
  two messages in flight on one object.

There is one action per public function. The roles are translated as follows:

- The eight root-less collectives share `GroupWide`. In the code they share
  one shape, and none of them consults the registry.
- gather and scatter share `Rooted`.
- A `send_recv` script step has one role per rank:
  - rank `src` runs send, or isend when async;
  - rank `peer` runs recv, or irecv when async, from `src` or from any
    source. irecv (`IrecvWork`) returns its work uncompleted, and a later
    `wait` step waits on it;
  - every other rank does nothing.

Completions are separate actions, because a wait completes only after other
ranks act: `CollectiveDone`, `SendDone` and `RecvDone`. The argument checks
for a complex reduce op and for device_ids on a non-NCCL backend are collapsed
into one `flag` per call, under which the call raises. Tensors are not
modelled.

### C10dBackend

One process. A string is a record `[b, c]`: what it spells, and its letter
case (lower, upper or mixed). `upper()` and `==` are all the code does with a
name, so nothing else needs to be kept. A factory passed to
`register_backend` is `[f |-> b]`.

State:

- `attrs` is the class attributes of `Backend`, keyed by upper-case name.
- `pgBackend` is `_pg_map[WORLD][0]`.
- `registered` is a history of the names that have been registered.

Operators and actions:

| definition | models |
|---|---|
| `BackendNew` | `Backend.__new__`: its four outcomes, including the return of the name as given (line 127) |
| `Construct` | the helper's second `Backend()` and its if/elif chain, down to `getattr(Backend, backend.upper())(...)` |
| `InitOutcome` | init's `Backend(backend)` followed by the helper |
| `RegisterBackend` | `register_backend`, as an action |
| `InitProcessGroup` | init, as an action |
| `DestroyProcessGroup` | destroy, as an action |

### C10dBatchP2P

Three ranks, each running one `batch_isend_irecv` and then waiting on every
request it returned. A program fixes the following:

- each group's `_pg_group_ranks` map;
- each group's backend;
- each rank's `p2p_op_list`.

Actions:

| action | models |
|---|---|
| `BatchStart` | `_check_p2p_op_list`, including the short-circuit order of its `all()` (`ScanBackends`), then `get_backend(p2p_op_list[0].group)` and `_group_start` for NCCL |
| `IssueOp` | one loop iteration: isend/irecv with the `_get_group_rank` translation for a subgroup, which raises for a peer outside it |
| `BatchExit` | the `finally` of `_batch_p2p_manager`: `_group_end` launches what the NCCL region held; then the function returns or raises |
| `WaitAll` | the caller's `for req in reqs: req.wait()` |

The ProcessGroup is abstracted as follows:

- Launched work is the set `posted`.
- An isend and an irecv match when they have the same `(group, local src,
  local dst, tag)` and the same position on that channel (`Match`).
- Inside an NCCL region, work is held in `deferred` until `_group_end`.

## Runs

The multi-rank runs use three ranks. That is the smallest size with a proper
subgroup, a non-member and an unsorted rank list together. The backend runs
model one process, since backend names are per-process state.

| run | cfg | expect | checks |
|---|---|---|---|
| lifecycle_safety | `MC_C10dLifecycle_safety.cfg` | pass | TypeOK, NameAgreement, GroupRankConsistent, BarrierRefinement |
| lifecycle_liveness | `MC_C10dLifecycle_liveness.cfg` | pass | Termination |
| lifecycle_store_reuse | `MC_C10dLifecycle_reuse.cfg` | violation | Termination |
| lifecycle_duplicate_ranks | `MC_C10dLifecycle_dupranks.cfg` | violation | GroupRankConsistent |
| lifecycle_mpi_empty_ranks | `MC_C10dLifecycle_mpiempty.cfg` | violation | GroupRankConsistent |
| collectives_safety | `MC_C10dCollectives_safety.cfg` | pass | TypeOK, RootIsSource, ReduceResultAtDst, RecvSourceRoundTrip, DeliveredToDst |
| collectives_liveness | `MC_C10dCollectives_liveness.cfg` | pass | Termination |
| backend_safety | `MC_C10dBackend_safety.cfg` | pass | TypeOK, DeprecatedTCPAlways, RegisteredSelectsFactory |
| backend_case | `MC_C10dBackend_case.cfg` | violation | CaseInsensitiveSelection |
| backend_override | `MC_C10dBackend_override.cfg` | violation | RegisteredSelectsFactory |
| batch_safety | `MC_C10dBatchP2P_safety.cfg` | pass | TypeOK, DeliveredToPeer, NothingDeferredAfterExit, NoSpuriousRaise, Termination |
| batch_spurious_raise | `MC_C10dBatchP2P_raise.cfg` | violation | NoSpuriousRaise |

### Properties

- **NameAgreement**: every live group has the same name on every rank that
  holds it, and no two live groups of a rank share a name. This covers
  WORLD's caller-chosen name against the counter names.
- **GroupRankConsistent**: the rank map of every group agrees with:
  - the `(rank, size)` its ProcessGroup was built with, on every member;
  - the rank map of every other member.
- **BarrierRefinement**: the lifecycle's barrier implements `GroupBarrier`.
  No rank returns from init or new_group before every rank has added to that
  barrier. A rank in a barrier that every rank has entered eventually passes
  it, unless it timed out.
- **Termination**: every rank eventually finishes its program or raises.
- **RootIsSource**: the root a broadcast, gather or scatter hands the backend
  is the local rank with which the process named `src`/`dst` built that object.
- **ReduceResultAtDst**: reduce copies the result exactly on the global `dst`,
  on the default group and on subgroups.
- **RecvSourceRoundTrip**: recv from any source returns the global rank of
  the process that sent the message it took.
- **DeliveredToDst**: every message a recv or irecv took was sent to that
  rank, on the same group argument. The sender's dst translation and the
  receiver's local rank must agree: the sender maps the global dst through
  its `_pg_group_ranks` (lines 743, 809), and the receiver's object was built
  with the rank `new_group` gave it. The unsorted subgroup `[2, 1]` makes the
  two numberings differ. The transport's routing by destination is part of
  `Matches`. So a receive from any source taking another rank's message is
  ruled out by that abstraction, not checked.
- **DeprecatedTCPAlways**: `Backend()` rejects every spelling of "tcp", even
  after `register_backend("tcp", f)`.
- **RegisteredSelectsFactory**: once a name has been registered, init with
  that name in any case builds the group with the registered factory.
- **CaseInsensitiveSelection**: init with any letter case of a name fails for
  every case or builds the same kind of group for every case.
- **DeliveredToPeer**: every send the backend pairs with a receive was
  addressed to the receiving rank, and that receive named the sender, on the
  same group and tag.
- **NothingDeferredAfterExit**: once a batch has returned or raised, its NCCL
  region is closed and everything it issued has been launched.
- **NoSpuriousRaise**: a batch raises only for the three documented reasons,
  and only when that reason really holds:
  - an element that is not a P2POp;
  - groups of different backends;
  - a peer outside its group.
- **Termination** (batch): every rank finishes its batch and its waits, or
  raises.

### Scripts

The lifecycle safety run covers:

- a normal life cycle of init, subgroups, a subgroup destroy and a WORLD
  destroy, then a re-init;
- a name clash;
- stale handles;
- an MPI life cycle: an unsorted subgroup, a WORLD destroy, a re-init and a
  one-rank subgroup;
- six misuse programs.

The collectives safety run covers:

- a subgroup `[2, 1]`, which is unsorted so that local numbering differs from
  list order, with an isend met by an any-source irecv;
- every collective on the default group, async calls waited later, and an
  isend/irecv pair waited on only after a recv from any source;
- 18 misuse programs, each hitting one raise or no-op branch.

The backend run registers "custom" and "tcp" in every case. It then inits and
destroys with every built-in name and "custom", in every case, on a build
with MPI, NCCL and HCCL; the case run uses a build without MPI.

The batch run covers:

- a ring on WORLD, under NCCL and under Gloo;
- a subgroup exchange repeated on one channel, next to sends on WORLD in the
  same batch;
- mixed backends;
- a non-P2POp element;
- an NCCL batch that raises at its third op, after two ops are held in the
  region.

Every one of these programs ends, so Termination is checked on all of them.
That run sets `CHECK_DEADLOCK FALSE`, because a rank blocked forever in
`req.wait()` then shows as a Termination violation.

Together the passing runs take every action and every branch.

Every program has at most 16 calls, and the store counters are bounded by
`MaxCount`. This is enough because each hazard below needs at most two groups
and one re-init to show.

## Fairness

The code has no internal threads. A rank's next call and the exit from the
barrier loop happen as soon as they are enabled, so weak fairness on them is
justified:

- WF on each rank's call step;
- WF on `StoreBarrierLeave` (the poll loop sleeps 10 ms and re-reads);
- WF on dispatch;
- WF on completions: the backend completes an operation once all members have
  issued it.
- In `C10dBatchP2P`, WF on each rank's step and on `Match`: the backend
  matches two launched operations of a pair.
- In `GroupBarrier`, WF on each `Leave`. This is what the lifecycle's fair
  `StoreBarrierLeave` gives.

The liveness runs set `AllowTimeout = FALSE`, because a timeout would make
Termination hold trivially.

## Findings

1. **Store reuse after destroy hangs.** `destroy_process_group` resets
   `_group_count` (line 663). A re-init with the same explicit store then reuses
   the key `store_based_barrier_key:1`, whose counter already holds
   world_size. The equality test at line 226 never succeeds, so every rank
   polls until its timeout raises. The reuse run disables timeouts and shows
   that no rank then ever finishes.
2. **Duplicate ranks in `new_group`.** `new_group([0, 0])` is accepted. Rank 0
   builds a ProcessGroup with rank 0 and size 2, but the rank map is `{0: 1}`.
   The model takes the constructor to return at once. That holds for NCCL,
   which connects lazily; a Gloo constructor would block on the second
   member, which never joins.
3. **`new_group([])` under MPI.** The empty list is not `None`, so every rank
   gets `group_rank = None`. The helper reads the empty list as "the default
   group", and `ProcessGroupMPI.create([])` returns a group of the whole job
   to every rank. The rank map `_pg_group_ranks[pg]` is `{}`, though, so
   `get_rank(pg)` raises for a member (line 1804). The run
   lifecycle_mpi_empty_ranks shows it. Under a store backend the same call raises in the constructor (rank None).
4. **Backend names are case-sensitive past `Backend()`.** `Backend("HCCL")`
   returns "HCCL" as given (line 127). The helper's test
   `backend == Backend.HCCL` then fails, and line 613 calls the string
   "hccl", while "hccl" works. The same line makes `get_backend()` return a
   registered backend in the caller's case, against its docstring.
5. **Registering a built-in name breaks it.** `register_backend("gloo", f)`
   replaces `Backend.GLOO` with `f`. `Backend("gloo")` then returns `f`
   itself, and the helper's second `Backend(f)` raises "Backend name must be
   a string". The spec says such a registration overrides the built-in.
6. **Spurious raises in `batch_isend_irecv`.** An empty list raises
   IndexError at `p2p_op_list[0]` (line 336). A P2POp on `NON_GROUP_MEMBER`
   raises from `get_backend` inside the check, so the `ret is not None` skip
   at line 947 is never reached for a non-member. The spec says
   non-membership is a no-op.

## Not modelled, and plan

The non-member sentinel's rank map (line 1822 stores
`_pg_group_ranks[NON_GROUP_MEMBER]`) is not listed as a hazard. Every reader of
that map returns early or raises for the sentinel before it reads the map, so
the stale entry is never used.

- **What a caller does with irecv's work.** `irecv(src=None)` on a subgroup
  returns the work of `recv_anysource` uncompleted, so `work._source_rank()`
  is the group-local rank. Unlike `recv`, the rank is never translated back to
  a global one (line 777). The code does nothing after returning the work, so
  no property of this code can state it.
- **Batches composed with the lifecycle**: `C10dBatchP2P` takes its groups as
  fixed by the program. What the composition would add is a stale or
  destroyed group in a batch. `_check_p2p_op_list` calls `get_backend` on
  every op's group before the loop issues anything. For a group missing from
  `_pg_map`, `get_backend` fails `assert pg_store is not None` (line 420).
  So a batch raises on a stale handle before it dispatches. The group-wide
  collectives make no such lookup (lines 1057-1061). The spec leaves using a
  subgroup after WORLD is destroyed to the caller (section 4.3), so neither
  case is checked as a property. The batch's behaviour follows from the order of the code, which
  `C10dBatchP2P` already models.
- **Hazards with no property.** The code is exposed to these, but no run
  checks them:
  - A rank calling `new_group` in a different order from the others (line
    559). The programs follow the caller contract of one common order.
  - A caller that catches a barrier timeout and retries `new_group` (line 238).
    Retries are not part of the programs.
  - Peers left blocked when one rank raises inside a collective (line 1376) or
    a batch (line 924). The spec leaves that to the transport timeout, so
    Termination is checked on well-formed programs only.
- **Out of scope**:
  - tensors, logging and the deprecated `_reduce_op` shim;
  - availability probes and type checks, except as the raise they cause;
  - the C++ store and backends, which are abstracted as described above.
