--------------------------- MODULE C10dCollectives ---------------------------
(***************************************************************************)
(* The collective dispatcher of distributed_c10d.py composed with the     *)
(* group lifecycle of C10dLifecycle: every rank runs the same script of   *)
(* init / new_group / destroy calls and of collective and point-to-point  *)
(* calls on the groups it got.  A dispatcher call resolves its group      *)
(* argument (None, a held handle, or GroupMember.NON_GROUP_MEMBER),       *)
(* translates global ranks to group-local ones through _pg_group_ranks,   *)
(* hands the operation to the ProcessGroup object, and for async_op=False *)
(* waits on the returned work.                                             *)
(*                                                                         *)
(* The ProcessGroup objects are opaque backends.  What this module keeps  *)
(* of them is what the dispatcher relies on: a collective's work          *)
(* completes once every rank that built the object has issued its k-th    *)
(* operation on it, and a point-to-point message goes from the sender's   *)
(* local rank to a local rank of the same object.                         *)
(***************************************************************************)
EXTENDS Integers, Sequences, SequencesExt, FiniteSets, TLC

CONSTANTS WorldSize, Scripts, NoName, None, NonMember, AllowTimeout

VARIABLES script, pc, phase, world, pgMap, pgNames, pgGroupRanks, pgs,
          groupCount, held, bkey, store, entered,
          posted,   \* per rank: the operations issued on ProcessGroup objects
          msgs,     \* point-to-point messages in flight
          waitOn,   \* per rank: the work a blocking call waits on, or None
          ret,      \* per rank: call index -> value returned by that call
          copied,   \* reduce calls <<rank, call>> that copied the result
          recvd     \* completed receives <<rank, receive call, send call>>

L == INSTANCE C10dLifecycle

lifeVars == <<script, pc, phase, world, pgMap, pgNames, pgGroupRanks, pgs,
              groupCount, held, bkey, store, entered>>
dispVars == <<posted, msgs, waitOn, ret, copied, recvd>>
vars == <<lifeVars, dispVars>>

Ranks == L!Ranks
Call(r) == L!Call(r)

(***************************************************************************)
(* Helpers of the dispatcher, evaluated on rank r's registries.            *)
(***************************************************************************)

\* _rank_not_in_group(group): None is the default group, a member
NotInGroup(g) == g = NonMember

\* the group argument as the program passes it: None or a handle it holds
GroupArg(r) == IF Call(r).group = None THEN None ELSE held[r][Call(r).group]

\* "group is None or group is GroupMember.WORLD"
IsDefault(r, g) == g = None \/ g = world[r]

\* _get_group_rank(group, rank) succeeds: group is not WORLD, is registered in
\* _pg_group_ranks and maps the rank
GroupRankDefined(r, g, x) ==
    /\ g # world[r]
    /\ g \in DOMAIN pgGroupRanks[r]
    /\ x \in DOMAIN pgGroupRanks[r][g]

\* Bug variant (used to show RootIsSource detects it): the global rank passed
\* on untranslated.
GroupRankUntranslated(r, g, x) == x

GroupRank(r, g, x) == pgGroupRanks[r][g][x]

\* _get_global_rank(group, group_rank): the first key of the map whose value
\* is group_rank
GlobalRankDefined(r, g, l) ==
    g # world[r] /\ g \in DOMAIN pgGroupRanks[r] /\ \E x \in DOMAIN pgGroupRanks[r][g] : pgGroupRanks[r][g][x] = l

\* Bug variant (used to show RecvSourceRoundTrip detects it): the source
\* rank of the work returned as it is, local to the group.
GlobalRankIdentity(r, g, l) == l

GlobalRank(r, g, l) ==
    CHOOSE x \in DOMAIN pgGroupRanks[r][g] : pgGroupRanks[r][g][x] = l

\* default_pg.rank(): the rank the default group's object was built with
GlobalRankOf(r) == pgs[r][world[r]].rank

\* the operations rank s issued on ProcessGroup object h
OpsOn(s, h) == SelectSeq(posted[s], LAMBDA e : e.pg = h)

\* the ranks that built object h: its members in the transport
Members(h) == {s \in Ranks : h \in DOMAIN pgs[s]}

\* the k-th collective on h has been issued by every member
Completed(h, k) == \A s \in Members(h) : Len(OpsOn(s, h)) >= k

(***************************************************************************)
(* Issuing an operation on ProcessGroup object h and, for async_op=False, *)
(* waiting on its work.  An async call returns the work, which the        *)
(* program keeps as the value of the call.                                 *)
(***************************************************************************)
Issue(r, h, kind, root, async, copy) ==
    LET work == [pg |-> h, k |-> Len(OpsOn(r, h)) + 1, copy |-> copy, msg |-> None,
                 what |-> "coll", call |-> pc[r]]
    IN  /\ UNCHANGED <<msgs, ret, copied, recvd>>
        /\ posted' = [posted EXCEPT ![r] = Append(@, [pg |-> h, kind |-> kind,
                                                     root |-> root, call |-> pc[r]])]
        /\ IF async
              THEN /\ L!Return(r)
                   /\ held' = [held EXCEPT ![r] = @ @@ (pc[r] :> work)]
                   /\ UNCHANGED waitOn
              ELSE /\ phase' = [phase EXCEPT ![r] = "wait"]
                   /\ waitOn' = [waitOn EXCEPT ![r] = work]
                   /\ UNCHANGED <<pc, held>>

\* the call returns without doing anything, with value v
NoOp(r, v) ==
    /\ L!Return(r)
    /\ ret' = [ret EXCEPT ![r] = @ @@ (pc[r] :> v)]
    /\ UNCHANGED <<held, posted, msgs, waitOn, copied, recvd>>

\* the call raises before issuing anything
Fail(r) ==
    /\ L!Raise(r)
    /\ UNCHANGED <<pc, held, posted, msgs, waitOn, ret, copied, recvd>>

\* registries that dispatcher calls leave alone
regVars == <<script, world, pgMap, pgNames, pgGroupRanks, pgs, groupCount,
             bkey, store, entered>>

(***************************************************************************)
(* get_rank(group): -1 for a non-member, the default group's rank for     *)
(* None / WORLD, otherwise the rank through _get_group_rank.               *)
(***************************************************************************)
GetRankDefined(r, g) ==
    world[r] # None /\ (IsDefault(r, g) \/ GroupRankDefined(r, g, GlobalRankOf(r)))

\* Bug variant (used to show ReduceResultAtDst detects it): the rank in the
\* default group, whatever group is asked about.
GetRankGlobal(r, g) == GlobalRankOf(r)

GetRank(r, g) ==
    IF IsDefault(r, g) THEN GlobalRankOf(r) ELSE GroupRank(r, g, GlobalRankOf(r))

GetRankCall(r) ==
    /\ phase[r] = "call" /\ Call(r).op = "get_rank"
    /\ UNCHANGED regVars
    /\ LET g == GroupArg(r) IN
       \/ NotInGroup(g) /\ NoOp(r, -1)
       \/ ~NotInGroup(g) /\ ~GetRankDefined(r, g) /\ Fail(r)
       \/ ~NotInGroup(g) /\ GetRankDefined(r, g) /\ NoOp(r, GetRank(r, g))

(***************************************************************************)
(* get_world_size(group): -1 for a non-member; _get_group_size: the       *)
(* default group's size for None / WORLD, else len(_pg_group_ranks[g]).   *)
(***************************************************************************)
\* _get_group_size(group) does not raise: the default group exists, or the
\* group is registered in _pg_group_ranks
GroupSizeDefined(r, g) ==
    IF IsDefault(r, g) THEN world[r] # None ELSE g \in DOMAIN pgGroupRanks[r]

GroupSize(r, g) ==
    IF IsDefault(r, g) THEN pgs[r][world[r]].size
                       ELSE Cardinality(DOMAIN pgGroupRanks[r][g])

GetWorldSizeCall(r) ==
    /\ phase[r] = "call" /\ Call(r).op = "get_world_size"
    /\ UNCHANGED regVars
    /\ LET g == GroupArg(r) IN
       \/ NotInGroup(g) /\ NoOp(r, -1)
       \/ ~NotInGroup(g) /\ ~GroupSizeDefined(r, g) /\ Fail(r)
       \/ ~NotInGroup(g) /\ GroupSizeDefined(r, g) /\ NoOp(r, GroupSize(r, g))

(***************************************************************************)
(* broadcast(tensor, src, group, async_op): rootRank is src on the        *)
(* default group and _get_group_rank(group, src) on any other.            *)
(***************************************************************************)
Broadcast(r) ==
    /\ phase[r] = "call" /\ Call(r).op = "broadcast"
    /\ UNCHANGED regVars
    /\ LET g   == GroupArg(r)
           src == Call(r).peer
       IN
       \/ NotInGroup(g) /\ NoOp(r, None)
       \/ ~NotInGroup(g) /\ IsDefault(r, g) /\ world[r] = None /\ Fail(r)
       \/ ~NotInGroup(g) /\ IsDefault(r, g) /\ world[r] # None
          /\ Issue(r, world[r], "broadcast", src, Call(r).async, FALSE)
       \/ ~NotInGroup(g) /\ ~IsDefault(r, g) /\ ~GroupRankDefined(r, g, src) /\ Fail(r)
       \/ ~NotInGroup(g) /\ ~IsDefault(r, g) /\ GroupRankDefined(r, g, src)
          /\ Issue(r, g, "broadcast", GroupRank(r, g, src), Call(r).async, FALSE)

(***************************************************************************)
(* The collectives without a root: all_reduce, all_reduce_coalesced,      *)
(* all_gather, all_gather_coalesced, reduce_scatter, all_to_all,          *)
(* all_to_all_single and barrier share one shape: nothing for a           *)
(* non-member, the argument check (flag: a complex tensor with a          *)
(* reduce op that supports_complex rejects, or device_ids on a non-NCCL   *)
(* backend), then the default group for group=None and the given object   *)
(* for anything else: no registry lookup is made.                         *)
(***************************************************************************)
GroupWide(r, kind) ==
    /\ phase[r] = "call" /\ Call(r).op = kind
    /\ UNCHANGED regVars
    /\ LET g == GroupArg(r) IN
       \/ NotInGroup(g) /\ NoOp(r, None)
       \/ ~NotInGroup(g) /\ Call(r).flag /\ Fail(r)
       \/ ~NotInGroup(g) /\ ~Call(r).flag /\ g = None /\ world[r] = None /\ Fail(r)
       \/ ~NotInGroup(g) /\ ~Call(r).flag /\ g = None /\ world[r] # None
          /\ Issue(r, world[r], kind, None, Call(r).async, FALSE)
       \/ ~NotInGroup(g) /\ ~Call(r).flag /\ g # None
          /\ Issue(r, g, kind, None, Call(r).async, FALSE)

AllReduce(r) == GroupWide(r, "all_reduce")
AllReduceCoalesced(r) == GroupWide(r, "all_reduce_coalesced")
AllGather(r) == GroupWide(r, "all_gather")
AllGatherCoalesced(r) == GroupWide(r, "all_gather_coalesced")
ReduceScatter(r) == GroupWide(r, "reduce_scatter")
AllToAllSingle(r) == GroupWide(r, "all_to_all_single")
AllToAll(r) == GroupWide(r, "all_to_all")
Barrier(r) == GroupWide(r, "barrier")

\* Bug variant (used to show Termination detects it): reduce turned into a
\* "true" reduce in which only the destination issues the all-reduce.
ReduceRootOnly(r) ==
    /\ phase[r] = "call" /\ Call(r).op = "reduce"
    /\ UNCHANGED regVars
    /\ LET g   == GroupArg(r)
           dst == Call(r).peer
       IN
       \/ Call(r).async /\ Fail(r)
       \/ ~Call(r).async /\ NotInGroup(g) /\ NoOp(r, None)
       \/ ~Call(r).async /\ ~NotInGroup(g) /\ IsDefault(r, g) /\ world[r] = None /\ Fail(r)
       \/ ~Call(r).async /\ ~NotInGroup(g) /\ IsDefault(r, g) /\ world[r] # None
          /\ IF GetRank(r, g) = dst
                THEN Issue(r, world[r], "all_reduce", None, FALSE, TRUE)
                ELSE NoOp(r, None)
       \/ ~Call(r).async /\ ~NotInGroup(g) /\ ~IsDefault(r, g)
          /\ ~(GroupRankDefined(r, g, dst) /\ GetRankDefined(r, g))
          /\ Fail(r)
       \/ ~Call(r).async /\ ~NotInGroup(g) /\ ~IsDefault(r, g)
          /\ GroupRankDefined(r, g, dst) /\ GetRankDefined(r, g)
          /\ IF GetRank(r, g) = GroupRank(r, g, dst)
                THEN Issue(r, g, "all_reduce", None, FALSE, TRUE)
                ELSE NoOp(r, None)

(***************************************************************************)
(* reduce(tensor, dst, op, group, async_op): an all-reduce into a clone,  *)
(* waited on, and copied back only where current_rank == group_dst_rank   *)
(* (get_rank() and dst on the default group, get_rank(group) and          *)
(* _get_group_rank(group, dst) on any other).                              *)
(***************************************************************************)
Reduce(r) ==
    /\ phase[r] = "call" /\ Call(r).op = "reduce"
    /\ UNCHANGED regVars
    /\ LET g   == GroupArg(r)
           dst == Call(r).peer
       IN
       \/ Call(r).async /\ Fail(r)  \* "Reduce implemented by all_reduce: not support async"
       \/ ~Call(r).async /\ NotInGroup(g) /\ NoOp(r, None)
       \/ ~Call(r).async /\ ~NotInGroup(g) /\ IsDefault(r, g) /\ world[r] = None /\ Fail(r)
       \/ ~Call(r).async /\ ~NotInGroup(g) /\ IsDefault(r, g) /\ world[r] # None
          /\ Issue(r, world[r], "all_reduce", None, FALSE, GetRank(r, g) = dst)
       \/ ~Call(r).async /\ ~NotInGroup(g) /\ ~IsDefault(r, g)
          /\ ~(GroupRankDefined(r, g, dst) /\ GetRankDefined(r, g))
          /\ Fail(r)
       \/ ~Call(r).async /\ ~NotInGroup(g) /\ ~IsDefault(r, g)
          /\ GroupRankDefined(r, g, dst) /\ GetRankDefined(r, g)
          /\ Issue(r, g, "all_reduce", None, FALSE, GetRank(r, g) = GroupRank(r, g, dst))

(***************************************************************************)
(* gather / scatter(tensor, list, root, group, async_op).  The list       *)
(* argument is checked against my_rank = get_rank() (the default group's  *)
(* rank) and the global root, then rootRank is translated as in           *)
(* broadcast.  flag: the set of ranks on which the program passes a list. *)
(***************************************************************************)
\* _validate_output_list_for_rank / the scatter_list test: the list must be
\* given on the root and only there
ListArgValid(myRank, root, hasList) == (root = myRank) = hasList

Rooted(r, kind) ==
    /\ phase[r] = "call" /\ Call(r).op = kind
    /\ UNCHANGED regVars
    /\ LET g       == GroupArg(r)
           root    == Call(r).peer
           hasList == r \in Call(r).flag
       IN
       \/ NotInGroup(g) /\ NoOp(r, None)
       \/ ~NotInGroup(g) /\ world[r] = None /\ Fail(r)
       \/ ~NotInGroup(g) /\ world[r] # None /\ ~ListArgValid(GlobalRankOf(r), root, hasList)
          /\ Fail(r)
       \/ ~NotInGroup(g) /\ world[r] # None /\ ListArgValid(GlobalRankOf(r), root, hasList)
          /\ \/ IsDefault(r, g) /\ Issue(r, world[r], kind, root, Call(r).async, FALSE)
             \/ ~IsDefault(r, g) /\ ~GroupRankDefined(r, g, root) /\ Fail(r)
             \/ ~IsDefault(r, g) /\ GroupRankDefined(r, g, root)
                /\ Issue(r, g, kind, GroupRank(r, g, root), Call(r).async, FALSE)

Gather(r) == Rooted(r, "gather")
Scatter(r) == Rooted(r, "scatter")

(***************************************************************************)
(* Point-to-point: a program step in which rank src calls send (or isend  *)
(* for async) towards rank peer, rank peer calls recv from src (or from   *)
(* any source when flag), and the other ranks make no call.                *)
(***************************************************************************)
\* send / isend(tensor, dst, group, tag): dst translated by _get_group_rank
\* off the default group; the message carries the sender's local rank
Send(r) ==
    LET g  == GroupArg(r)
        to == Call(r).peer
        Post(h, l) ==
            LET m == [pg |-> h, from |-> pgs[r][h].rank, to |-> l, call |-> pc[r]]
                work == [pg |-> h, k |-> 0, copy |-> FALSE, msg |-> m, what |-> "send",
                         call |-> pc[r]]
            IN  /\ msgs' = msgs \cup {m}
                /\ IF Call(r).async
                      THEN /\ L!Return(r)
                           /\ held' = [held EXCEPT ![r] = @ @@ (pc[r] :> work)]
                           /\ UNCHANGED waitOn
                      ELSE /\ phase' = [phase EXCEPT ![r] = "wait"]
                           /\ waitOn' = [waitOn EXCEPT ![r] = work]
                           /\ UNCHANGED <<pc, held>>
                /\ UNCHANGED <<posted, ret, copied, recvd>>
    IN
    \/ NotInGroup(g) /\ NoOp(r, None)
    \/ ~NotInGroup(g) /\ IsDefault(r, g) /\ world[r] = None /\ Fail(r)
    \/ ~NotInGroup(g) /\ IsDefault(r, g) /\ world[r] # None /\ Post(world[r], to)
    \/ ~NotInGroup(g) /\ ~IsDefault(r, g) /\ ~GroupRankDefined(r, g, to) /\ Fail(r)
    \/ ~NotInGroup(g) /\ ~IsDefault(r, g) /\ GroupRankDefined(r, g, to)
       /\ Post(g, GroupRank(r, g, to))

\* irecv returns the receive's work uncompleted; the program waits on it later
IrecvWork(r, work) ==
    /\ L!Return(r)
    /\ held' = [held EXCEPT ![r] = @ @@ (pc[r] :> work)]
    /\ UNCHANGED <<waitOn, posted, msgs, ret, copied, recvd>>

\* recv(tensor, src, group, tag), or irecv for async: recv_anysource when src
\* is None, else a receive from src translated by _get_group_rank off the
\* default group; a non-member gets -1 from recv and None from irecv
Recv(r) ==
    LET g   == GroupArg(r)
        src == Call(r).src
        Await(h, from) ==
            LET work == [pg |-> h, k |-> from, copy |-> FALSE, msg |-> None,
                         what |-> IF Call(r).async THEN "irecv" ELSE "recv",
                         call |-> pc[r]]
            IN  IF Call(r).async
                   THEN IrecvWork(r, work)
                   ELSE /\ phase' = [phase EXCEPT ![r] = "wait"]
                        /\ waitOn' = [waitOn EXCEPT ![r] = work]
                        /\ UNCHANGED <<pc, held, posted, msgs, ret, copied, recvd>>
    IN
    \/ NotInGroup(g) /\ NoOp(r, IF Call(r).async THEN None ELSE -1)
    \/ ~NotInGroup(g) /\ g = None /\ world[r] = None /\ Fail(r)
    \/ ~NotInGroup(g) /\ (g # None \/ world[r] # None) /\
       LET h == IF g = None THEN world[r] ELSE g IN
       \/ Call(r).flag /\ Await(h, None)
       \/ ~Call(r).flag /\ IsDefault(r, g) /\ Await(h, src)
       \/ ~Call(r).flag /\ ~IsDefault(r, g) /\ ~GroupRankDefined(r, g, src) /\ Fail(r)
       \/ ~Call(r).flag /\ ~IsDefault(r, g) /\ GroupRankDefined(r, g, src)
          /\ Await(h, GroupRank(r, g, src))

SendRecv(r) ==
    /\ phase[r] = "call" /\ Call(r).op = "send_recv"
    /\ UNCHANGED regVars
    /\ \/ r = Call(r).src /\ Send(r)
       \/ r = Call(r).peer /\ Recv(r)
       \/ r \notin {Call(r).src, Call(r).peer}
          /\ L!Return(r) /\ UNCHANGED <<held, dispVars>>

\* work.wait() on the work an async call of the program returned; a call that
\* returned None (a non-member) is skipped by the program
WaitCall(r) ==
    /\ phase[r] = "call" /\ Call(r).op = "wait"
    /\ UNCHANGED regVars
    /\ \/ Call(r).target \notin DOMAIN held[r] /\ NoOp(r, None)
       \/ Call(r).target \in DOMAIN held[r]
          /\ phase' = [phase EXCEPT ![r] = "wait"]
          /\ waitOn' = [waitOn EXCEPT ![r] = held[r][Call(r).target]]
          /\ UNCHANGED <<pc, held, posted, msgs, ret, copied, recvd>>

-----------------------------------------------------------------------------
(***************************************************************************)
(* Completion of the work a rank waits on.                                 *)
(***************************************************************************)
\* Bug variant (used to show TypeOK detects it): the rank returns from the
\* wait but keeps the finished work as the one it waits on.
CollectiveDoneKeepWork(r) ==
    /\ phase[r] = "wait" /\ waitOn[r].what = "coll"
    /\ Completed(waitOn[r].pg, waitOn[r].k)
    /\ copied' = IF waitOn[r].copy THEN copied \cup {<<r, pc[r]>>} ELSE copied
    /\ L!Return(r)
    /\ UNCHANGED <<regVars, held, posted, msgs, waitOn, ret, recvd>>

\* a collective's work.wait() returns; reduce then copies the scratch buffer
\* when current_rank == group_dst_rank
CollectiveDone(r) ==
    /\ phase[r] = "wait" /\ waitOn[r].what = "coll"
    /\ Completed(waitOn[r].pg, waitOn[r].k)
    /\ copied' = IF waitOn[r].copy THEN copied \cup {<<r, pc[r]>>} ELSE copied
    /\ L!Return(r)
    /\ waitOn' = [waitOn EXCEPT ![r] = None]
    /\ UNCHANGED <<regVars, held, posted, msgs, ret, recvd>>

\* a send's work completes once the message has been received
SendDone(r) ==
    /\ phase[r] = "wait" /\ waitOn[r].what = "send"
    /\ waitOn[r].msg \notin msgs
    /\ L!Return(r)
    /\ waitOn' = [waitOn EXCEPT ![r] = None]
    /\ UNCHANGED <<regVars, held, posted, msgs, ret, copied, recvd>>

\* Bug variant (used to show DeliveredToDst detects it): the backend's
\* receive ignores the destination of the message.
MatchesAnyDst(r, m, w) == m.pg = w.pg /\ w.k \in {None, m.from}

\* message m can complete receive work w of rank r: it was sent on the same
\* object to r's local rank in it, from the expected local source, if any
Matches(r, m, w) ==
    /\ m.pg = w.pg
    /\ m.to = pgs[r][m.pg].rank
    /\ w.k \in {None, m.from}

\* the receive takes a matching message.  irecv's work.wait() just returns;
\* recv returns src, or for any-source work._source_rank(), turned back into
\* a global rank by _get_global_rank off the default group
RecvDone(r) ==
    /\ phase[r] = "wait" /\ waitOn[r].what \in {"recv", "irecv"}
    /\ \E m \in msgs :
          /\ Matches(r, m, waitOn[r])
          /\ msgs' = msgs \ {m}
          /\ waitOn' = [waitOn EXCEPT ![r] = None]
          /\ recvd' = recvd \cup {<<r, waitOn[r].call, m.call>>}
          /\ UNCHANGED <<regVars, held, posted, copied>>
          /\ LET g == GroupArg(r) IN
             \/ waitOn[r].what = "irecv"
                /\ L!Return(r)
                /\ UNCHANGED ret
             \/ waitOn[r].what = "recv" /\ Call(r).flag = FALSE
                /\ L!Return(r)
                /\ ret' = [ret EXCEPT ![r] = @ @@ (pc[r] :> Call(r).src)]
             \/ waitOn[r].what = "recv" /\ Call(r).flag /\ IsDefault(r, g)
                /\ L!Return(r)
                /\ ret' = [ret EXCEPT ![r] = @ @@ (pc[r] :> m.from)]
             \/ waitOn[r].what = "recv" /\ Call(r).flag /\ ~IsDefault(r, g)
                /\ ~GlobalRankDefined(r, g, m.from)
                /\ L!Raise(r)
                /\ UNCHANGED <<pc, ret>>
             \/ waitOn[r].what = "recv" /\ Call(r).flag /\ ~IsDefault(r, g) /\ GlobalRankDefined(r, g, m.from)
                /\ L!Return(r)
                /\ ret' = [ret EXCEPT ![r] = @ @@ (pc[r] :> GlobalRank(r, g, m.from))]

-----------------------------------------------------------------------------
Init ==
    /\ L!Init
    /\ posted = [r \in Ranks |-> <<>>]
    /\ msgs = {}
    /\ waitOn = [r \in Ranks |-> None]
    /\ ret = [r \in Ranks |-> <<>>]
    /\ copied = {}
    /\ recvd = {}

DispatchStep(r) ==
    \/ GetRankCall(r) \/ GetWorldSizeCall(r) \/ Broadcast(r) \/ Reduce(r)
    \/ AllReduce(r) \/ AllReduceCoalesced(r) \/ AllGather(r)
    \/ AllGatherCoalesced(r) \/ ReduceScatter(r) \/ AllToAllSingle(r)
    \/ AllToAll(r) \/ Barrier(r) \/ Gather(r) \/ Scatter(r)
    \/ SendRecv(r) \/ WaitCall(r)

Completion(r) == CollectiveDone(r) \/ SendDone(r) \/ RecvDone(r)

Next ==
    \/ \E r \in Ranks :
          \/ (L!CallStep(r) \/ L!BarrierStep(r)) /\ UNCHANGED dispVars
          \/ DispatchStep(r)
          \/ Completion(r)
    \/ /\ \A r \in Ranks : phase[r] \in {"done", "raised"}
       /\ UNCHANGED vars

\* Each rank is its own process; a completed work or an arrived message stays
\* so, and the waiting rank's backend eventually observes it.
Fairness ==
    \A r \in Ranks :
        /\ WF_vars(L!CallStep(r) /\ UNCHANGED dispVars)
        /\ WF_vars(L!StoreBarrierLeave(r) /\ UNCHANGED dispVars)
        /\ WF_vars(DispatchStep(r))
        /\ WF_vars(Completion(r))

Spec == Init /\ [][Next]_vars /\ Fairness
-----------------------------------------------------------------------------
(***************************************************************************)
(* Properties                                                              *)
(***************************************************************************)
Handles == 1 .. Len(script)

\* the group argument call i of the script passed on rank r
GroupArgAt(r, i) == IF script[i].group = None THEN None ELSE held[r][script[i].group]

TypeOK ==
    /\ phase \in [Ranks -> {"call", "barrier", "wait", "done", "raised"}]
    /\ pc \in [Ranks -> 1 .. Len(script) + 1]
    /\ \A r \in Ranks : \A i \in 1 .. Len(posted[r]) :
          /\ posted[r][i].pg \in Handles
          /\ posted[r][i].call \in Handles
    /\ \A m \in msgs : m.pg \in Handles /\ m.from \in Ranks /\ m.to \in Ranks
    /\ \A r \in Ranks : phase[r] = "wait" <=> waitOn[r] # None
    /\ copied \subseteq Ranks \X Handles
    /\ recvd \subseteq Ranks \X Handles \X Handles

\* Root translation.  For every broadcast, gather and scatter a rank issued,
\* the rootRank handed to the ProcessGroup object is the local rank with
\* which the object of the caller's global src/dst was built: the registry's
\* global->local map, filled by new_group on each rank, agrees with the
\* ranks _new_process_group_helper gave the backends on the other ranks.
RootIsSource ==
    \A r \in Ranks : \A i \in 1 .. Len(posted[r]) :
        LET e   == posted[r][i]
            src == script[e.call].peer
        IN  e.kind \in {"broadcast", "gather", "scatter"} =>
                /\ e.pg \in DOMAIN pgs[src]
                /\ pgs[src][e.pg].rank = e.root

\* reduce delivers to dst only.  Once a member rank has returned from
\* reduce(dst=d), it has copied the all-reduced scratch buffer into its
\* tensor exactly when its global rank is d, on the default group and on a
\* subgroup alike (current_rank and group_dst_rank in the same numbering).
ReduceResultAtDst ==
    \A r \in Ranks : \A i \in Handles :
        (script[i].op = "reduce" /\ pc[r] > i /\ GroupArgAt(r, i) # NonMember)
            => (<<r, i>> \in copied <=> r = script[i].peer)

\* Source round trip.  recv(src=None) on any group returns the global rank
\* of the process that sent the message it received: work._source_rank()
\* is local to the group and _get_global_rank must undo _get_group_rank.
RecvSourceRoundTrip ==
    \A <<r, i, j>> \in recvd :
        (script[i].op = "send_recv" /\ ~script[i].async /\ i \in DOMAIN ret[r])
            => ret[r][i] = script[j].src

\* Point-to-point delivery.  Every message a rank's recv or irecv took was
\* sent by a send/isend whose global dst is that rank, on the same group
\* argument: the sender's dst translation through its _pg_group_ranks and
\* the local rank the receiver's object was built with agree, even with
\* other messages of the same object still in flight.
DeliveredToDst ==
    \A <<r, i, j>> \in recvd : script[j].peer = r /\ script[j].group = script[i].group

\* Termination.  With every rank running the same program, every blocking
\* collective and point-to-point call is eventually matched and every rank
\* ends its program.
Termination == <>(\A r \in Ranks : phase[r] \in {"done", "raised"})
=============================================================================
