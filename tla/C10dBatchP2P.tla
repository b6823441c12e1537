---------------------------- MODULE C10dBatchP2P ----------------------------
(***************************************************************************)
(* batch_isend_irecv in distributed_c10d.py, run by every rank of a job:  *)
(* _check_p2p_op_list, get_backend of the first op's group, the            *)
(* _batch_p2p_manager region (ProcessGroupNCCL._group_start/_group_end in *)
(* a try/finally), and the loop that calls isend/irecv for each P2POp and *)
(* keeps the requests.  The caller then waits on every request.           *)
(*                                                                         *)
(* Groups are fixed for the run: a program gives every group's map of      *)
(* global to local rank (_pg_group_ranks) and its backend (_pg_map).  The *)
(* ProcessGroup objects are abstracted to what the batch relies on: an    *)
(* isend and an irecv on the same group between the same local ranks with *)
(* the same tag match in the order each side issued them, and a request   *)
(* completes once it is matched.  Inside an NCCL group region the backend *)
(* holds the operations until _group_end.                                 *)
(***************************************************************************)
EXTENDS Naturals, Sequences, FiniteSets, SequencesExt

CONSTANTS
    Ranks,          \* global ranks of the job
    World,          \* GroupMember.WORLD
    Programs,       \* the programs: [local, backend, batch] records; a batch
                    \* is a sequence of P2POp(op, tensor, peer, group, tag)
                    \* as [op, peer, group, tag], op "other" standing for an
                    \* element of p2p_op_list that is not a P2POp
    None

VARIABLES
    prog,           \* the program every rank runs
    phase,          \* rank -> "check", "issue", "exit", "wait", "done", "raised"
    i,              \* rank -> index of the next P2POp the loop calls
    err,            \* rank -> the exception propagating out of the batch, or None
    region,         \* rank -> inside ProcessGroupNCCL._group_start/_group_end
    deferred,       \* rank -> work issued inside the region, not yet launched
    reqs,           \* rank -> the list reqs (indices of the ops that returned work)
    posted,         \* work launched on the ProcessGroup objects
    matched         \* <<send work id, recv work id>> pairs the backend matched

vars == <<prog, phase, i, err, region, deferred, reqs, posted, matched>>

Batch(r) == prog.batch[r]
Members(g) == DOMAIN prog.local[g]

\* the group object rank r holds for group g: new_group returned
\* NON_GROUP_MEMBER to the ranks outside it
Handle(r, g) == IF r \in Members(g) THEN g ELSE "non_member"

\* get_backend(group) for a held group object: _pg_map[pg][0], or a raise
\* for NON_GROUP_MEMBER ("Invalid process group specified")
GetBackend(h) == IF h = "non_member" THEN [err |-> "invalid_group"]
                                    ELSE [val |-> prog.backend[h]]

\* Bug variant (used to show NoSpuriousRaise detects it): ops compared by
\* their group object instead of the group's backend.
RECURSIVE ScanBackendsByGroup(_, _, _)
ScanBackendsByGroup(r, b0, k) ==
    IF k > Len(Batch(r)) THEN None
    ELSE LET gb == GetBackend(Handle(r, Batch(r)[k].group)) IN
         IF "err" \in DOMAIN gb THEN gb.err
         ELSE IF Batch(r)[k].group # Batch(r)[1].group THEN "mixed"
         ELSE ScanBackendsByGroup(r, b0, k + 1)

\* all(backend == get_backend(op.group) for op in ops[k..]): the error of the
\* first op that raises or differs, scanning in order, or None
RECURSIVE ScanBackends(_, _, _)
ScanBackends(r, b0, k) ==
    IF k > Len(Batch(r)) THEN None
    ELSE LET gb == GetBackend(Handle(r, Batch(r)[k].group)) IN
         IF "err" \in DOMAIN gb THEN gb.err
         ELSE IF gb.val # b0 THEN "mixed" ELSE ScanBackends(r, b0, k + 1)

\* _check_p2p_op_list(p2p_op_list), then get_backend(p2p_op_list[0].group)
CheckP2POpList(r) ==
    CASE \E k \in DOMAIN Batch(r) : Batch(r)[k].op = "other" -> "invalid_op"
      [] Batch(r) = <<>>                                     -> "index_error"
      [] OTHER ->
           LET b0 == GetBackend(Handle(r, Batch(r)[1].group)) IN
           IF "err" \in DOMAIN b0 THEN b0.err ELSE ScanBackends(r, b0.val, 1)

BatchBackend(r) == prog.backend[Batch(r)[1].group]

Init ==
    /\ prog \in Programs
    /\ phase = [r \in Ranks |-> "check"]
    /\ i = [r \in Ranks |-> 1]
    /\ err = [r \in Ranks |-> None]
    /\ region = [r \in Ranks |-> FALSE]
    /\ deferred = [r \in Ranks |-> <<>>]
    /\ reqs = [r \in Ranks |-> <<>>]
    /\ posted = {}
    /\ matched = {}

(***************************************************************************)
(* Operations                                                              *)
(***************************************************************************)

\* batch_isend_irecv up to the loop: the list check, the backend, reqs = [],
\* and entering _batch_p2p_manager (_group_start for NCCL)
BatchStart(r) ==
    /\ phase[r] = "check"
    /\ LET e == CheckP2POpList(r) IN
       IF e # None
       THEN /\ phase' = [phase EXCEPT ![r] = "raised"]
            /\ err' = [err EXCEPT ![r] = e]
            /\ UNCHANGED region
       ELSE /\ phase' = [phase EXCEPT ![r] = "issue"]
            /\ region' = [region EXCEPT ![r] = BatchBackend(r) = "nccl"]
            /\ UNCHANGED err
    /\ UNCHANGED <<prog, i, deferred, reqs, posted, matched>>

\* Bug variant (used to show TypeOK detects it): the work tagged with the
\* index of the next op (an off-by-one between the loop and the list).
WorkNextIndex(r, k, me, peer) ==
    LET op == Batch(r)[k]
        ch == IF op.op = "isend" THEN <<op.group, me, peer, op.tag>>
                                 ELSE <<op.group, peer, me, op.tag>>
        earlier == {w \in posted \cup Range(deferred[r]) :
                        w.who[1] = r /\ w.kind = op.op /\ w.ch = ch}
    IN  [who |-> <<r, k + 1>>, kind |-> op.op, ch |-> ch, seq |-> Cardinality(earlier) + 1]

\* the work rank r's op k hands to the backend, once the peer is local
Work(r, k, me, peer) ==
    LET op == Batch(r)[k]
        ch == IF op.op = "isend" THEN <<op.group, me, peer, op.tag>>
                                 ELSE <<op.group, peer, me, op.tag>>
        earlier == {w \in posted \cup Range(deferred[r]) :
                        w.who[1] = r /\ w.kind = op.op /\ w.ch = ch}
    IN  [who |-> <<r, k>>, kind |-> op.op, ch |-> ch, seq |-> Cardinality(earlier) + 1]

\* hand work w to the backend: held in the NCCL region, or launched
Launch(r, w) ==
    IF region[r]
    THEN /\ deferred' = [deferred EXCEPT ![r] = Append(@, w)]
         /\ UNCHANGED posted
    ELSE /\ posted' = posted \cup {w}
         /\ UNCHANGED deferred

\* Bug variant (used to show DeliveredToPeer detects it): the subgroup's
\* peer handed to the backend untranslated, as for WORLD.
IssueOpNoTranslate(r) ==
    /\ phase[r] = "issue"
    /\ i[r] <= Len(Batch(r))
    /\ LET op == Batch(r)[i[r]]
           g == op.group
       IN  IF g # World /\ op.peer \notin Members(g)
           THEN /\ phase' = [phase EXCEPT ![r] = "exit"]
                /\ err' = [err EXCEPT ![r] = "not_in_group"]
                /\ UNCHANGED <<i, deferred, reqs, posted>>
           ELSE /\ Launch(r, Work(r, i[r], prog.local[g][r], op.peer))
                /\ reqs' = [reqs EXCEPT ![r] = Append(@, i[r])]
                /\ i' = [i EXCEPT ![r] = @ + 1]
                /\ UNCHANGED <<phase, err>>
    /\ UNCHANGED <<prog, region, matched>>

\* one iteration of the loop: ret = op(tensor, peer, curr_group, tag).  For
\* WORLD, isend/irecv pass the peer as is; for a subgroup they translate it
\* with _get_group_rank, which raises for a peer outside the group.  (The
\* NON_GROUP_MEMBER return of None is not reached: get_backend above has
\* already raised for such a group.)
IssueOp(r) ==
    /\ phase[r] = "issue"
    /\ i[r] <= Len(Batch(r))
    /\ LET op == Batch(r)[i[r]]
           g == op.group
       IN  IF g # World /\ op.peer \notin Members(g)
           THEN /\ phase' = [phase EXCEPT ![r] = "exit"]
                /\ err' = [err EXCEPT ![r] = "not_in_group"]
                /\ UNCHANGED <<i, deferred, reqs, posted>>
           ELSE /\ Launch(r, Work(r, i[r], prog.local[g][r], prog.local[g][op.peer]))
                /\ reqs' = [reqs EXCEPT ![r] = Append(@, i[r])]
                /\ i' = [i EXCEPT ![r] = @ + 1]
                /\ UNCHANGED <<phase, err>>
    /\ UNCHANGED <<prog, region, matched>>

\* Bug variant (used to show NothingDeferredAfterExit detects it): the
\* region left by code after the yield instead of in finally, so a raise in
\* the loop skips _group_end.
BatchExitNoFinally(r) ==
    /\ \/ phase[r] = "issue" /\ i[r] > Len(Batch(r))
       \/ phase[r] = "exit"
    /\ IF region[r] /\ err[r] = None
       THEN /\ posted' = posted \cup Range(deferred[r])
            /\ deferred' = [deferred EXCEPT ![r] = <<>>]
            /\ region' = [region EXCEPT ![r] = FALSE]
       ELSE UNCHANGED <<posted, deferred, region>>
    /\ phase' = [phase EXCEPT ![r] = IF err[r] = None THEN "wait" ELSE "raised"]
    /\ UNCHANGED <<prog, i, err, reqs, matched>>

\* Bug variant (used to show Termination detects it): _group_end closes
\* the region without launching what it holds.
BatchExitNoFlush(r) ==
    /\ \/ phase[r] = "issue" /\ i[r] > Len(Batch(r))
       \/ phase[r] = "exit"
    /\ deferred' = [deferred EXCEPT ![r] = <<>>]
    /\ region' = [region EXCEPT ![r] = FALSE]
    /\ phase' = [phase EXCEPT ![r] = IF err[r] = None THEN "wait" ELSE "raised"]
    /\ UNCHANGED <<prog, i, err, reqs, posted, matched>>

\* the loop ends or raises: the finally of _batch_p2p_manager calls
\* _group_end for NCCL, which launches the held work; then return reqs, or
\* the exception propagates
BatchExit(r) ==
    /\ \/ phase[r] = "issue" /\ i[r] > Len(Batch(r))
       \/ phase[r] = "exit"
    /\ posted' = posted \cup Range(deferred[r])
    /\ deferred' = [deferred EXCEPT ![r] = <<>>]
    /\ region' = [region EXCEPT ![r] = FALSE]
    /\ phase' = [phase EXCEPT ![r] = IF err[r] = None THEN "wait" ELSE "raised"]
    /\ UNCHANGED <<prog, i, err, reqs, matched>>

Done(w) == \E m \in matched : w \in {m[1], m[2]}

\* the caller: for req in reqs: req.wait()
WaitAll(r) ==
    /\ phase[r] = "wait"
    /\ \A k \in Range(reqs[r]) : Done(<<r, k>>)
    /\ phase' = [phase EXCEPT ![r] = "done"]
    /\ UNCHANGED <<prog, i, err, region, deferred, reqs, posted, matched>>

\* the backend matches a launched send with the launched receive of the
\* same channel and position
Match ==
    \E s, v \in posted :
        /\ s.kind = "isend" /\ v.kind = "irecv"
        /\ s.ch = v.ch /\ s.seq = v.seq
        /\ ~Done(s.who) /\ ~Done(v.who)
        /\ matched' = matched \cup {<<s.who, v.who>>}
        /\ UNCHANGED <<prog, phase, i, err, region, deferred, reqs, posted>>

RankStep(r) == BatchStart(r) \/ IssueOp(r) \/ BatchExit(r) \/ WaitAll(r)

Next ==
    \/ \E r \in Ranks : RankStep(r)
    \/ Match
    \/ /\ \A r \in Ranks : phase[r] \in {"done", "raised"}
       /\ UNCHANGED vars

\* A rank runs its program without waiting on anything but its requests,
\* and the backend matches two launched operations of a pair.
Spec == Init /\ [][Next]_vars /\ \A r \in Ranks : WF_vars(RankStep(r)) /\ WF_vars(Match)
-----------------------------------------------------------------------------
(***************************************************************************)
(* Properties                                                              *)
(***************************************************************************)
\* <<rank, index into its p2p_op_list>>
WorkIds == UNION {{r} \X DOMAIN Batch(r) : r \in Ranks}

TypeOK ==
    /\ phase \in [Ranks -> {"check", "issue", "exit", "wait", "done", "raised"}]
    /\ \A r \in Ranks : i[r] \in 1 .. Len(Batch(r)) + 1
    /\ \A r \in Ranks : reqs[r] \in Seq(DOMAIN Batch(r))
    /\ region \in [Ranks -> BOOLEAN]
    /\ \A w \in posted \cup UNION {Range(deferred[r]) : r \in Ranks} :
           w.who \in WorkIds /\ w.kind \in {"isend", "irecv"}
    /\ matched \subseteq WorkIds \X WorkIds

OpOf(w) == prog.batch[w[1]][w[2]]

\* Matched with the named peer.  Every send the backend pairs with a receive
\* was addressed (as a global rank) to the rank that receives it, and that
\* receive named the sender, on the same group and tag: isend/irecv
\* translate peers through _pg_group_ranks consistently on both sides.
DeliveredToPeer ==
    \A m \in matched :
        /\ OpOf(m[1]).peer = m[2][1]
        /\ OpOf(m[2]).peer = m[1][1]
        /\ OpOf(m[1]).group = OpOf(m[2]).group
        /\ OpOf(m[1]).tag = OpOf(m[2]).tag

\* The batching region ends with the call.  Once batch_isend_irecv has
\* returned or raised, the NCCL region is closed and every operation it
\* issued has been launched (the spec: the region is exited however the
\* batch loop exits, including early failures).
NothingDeferredAfterExit ==
    \A r \in Ranks :
        phase[r] \in {"wait", "done", "raised"} => ~region[r] /\ deferred[r] = <<>>

\* Only the documented errors.  batch_isend_irecv raises only for an
\* element that is not a P2POp, for groups of different backends, or for a
\* peer outside its group (the spec: InvalidBatchOp, MixedBackendBatch,
\* RankNotInGroup; non-membership is never an error, and the result is the
\* list of the handles the sub-operations produced).
NoSpuriousRaise ==
    \A r \in Ranks : phase[r] = "raised" =>
        LET ops == Batch(r) IN
        CASE err[r] = "invalid_op"   -> \E k \in DOMAIN ops : ops[k].op = "other"
          [] err[r] = "mixed"        -> \E k1, k2 \in DOMAIN ops :
                                          prog.backend[ops[k1].group] # prog.backend[ops[k2].group]
          [] err[r] = "not_in_group" -> \E k \in DOMAIN ops :
                                          ops[k].group # World /\ ops[k].peer \notin Members(ops[k].group)
          [] OTHER                   -> FALSE

\* Every rank's batch and the waits on its requests finish (or raise).
Termination == <>(\A r \in Ranks : phase[r] \in {"done", "raised"})
=============================================================================
