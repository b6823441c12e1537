------------------------- MODULE MC_C10dCollectives -------------------------
(***************************************************************************)
(* Model-checking instance of C10dCollectives: three ranks running        *)
(* programs of group calls and collectives.                                *)
(***************************************************************************)
EXTENDS C10dCollectives

\* one call of a program; fields a call does not use are None
Mk(op) == [op |-> op, store |-> None, name |-> None, ranks |-> None, target |-> None,
           group |-> None, peer |-> None, src |-> None, async |-> FALSE, flag |-> FALSE]
InitC == [Mk("init") EXCEPT !.store = "fresh", !.name = NoName]
NewGroupC(rk) == [Mk("new_group") EXCEPT !.ranks = rk]
DestroyC(t) == [Mk("destroy") EXCEPT !.target = t]
\* a collective on group g (None or the index of the call that made it)
Coll(op, g, peer, async, flag) ==
    [Mk(op) EXCEPT !.group = g, !.peer = peer, !.async = async, !.flag = flag]
WaitC(i) == [Mk("wait") EXCEPT !.target = i]
\* rank src sends to rank dst, which receives from src, or from any source;
\* async: isend and irecv
SendRecvC(g, src, dst, async, any) ==
    [Mk("send_recv") EXCEPT !.group = g, !.src = src, !.peer = dst,
                            !.async = async, !.flag = any]

\* a subgroup {1, 2} (listed unsorted) next to the default group: rooted
\* collectives, reduce on both, an async all_reduce, an any-source recv,
\* rank queries, and an isend met by an any-source irecv, both waited later
Subgroup ==
    << InitC, NewGroupC(<<2, 1>>),
       Coll("broadcast", 2, 2, FALSE, FALSE),
       Coll("reduce", 2, 2, FALSE, FALSE),
       Coll("reduce", None, 0, FALSE, FALSE),
       Coll("all_reduce", 2, None, TRUE, FALSE), WaitC(6),
       SendRecvC(2, 2, 1, FALSE, TRUE),
       Coll("gather", 2, 1, FALSE, {1}),
       Coll("get_rank", 2, None, FALSE, FALSE),
       Coll("get_world_size", 2, None, FALSE, FALSE),
       SendRecvC(2, 1, 2, TRUE, TRUE), WaitC(12) >>

\* every collective of the default group, and an isend and an irecv waited
\* on after a recv from any source, which runs while the isend's message
\* may still be in flight
Default ==
    << InitC,
       Coll("all_reduce_coalesced", None, None, FALSE, FALSE),
       Coll("all_gather", None, None, TRUE, FALSE), WaitC(3),
       Coll("all_gather_coalesced", None, None, FALSE, FALSE),
       Coll("reduce_scatter", None, None, FALSE, FALSE),
       Coll("all_to_all_single", None, None, FALSE, FALSE),
       Coll("all_to_all", None, None, FALSE, FALSE),
       Coll("barrier", None, None, FALSE, FALSE),
       Coll("scatter", None, 0, FALSE, {0}),
       Coll("broadcast", None, 1, FALSE, FALSE),
       SendRecvC(None, 0, 2, TRUE, FALSE),
       SendRecvC(None, 1, 0, FALSE, TRUE), WaitC(12),
       Coll("get_rank", None, None, FALSE, FALSE),
       Coll("get_world_size", None, None, FALSE, FALSE) >>

\* calls that raise or do nothing; each program ends where its ranks raise
Misuse ==
    { << Coll("broadcast", None, 0, FALSE, FALSE) >>,
      << Coll("all_reduce", None, None, FALSE, FALSE) >>,
      << Coll("reduce", None, 0, FALSE, FALSE) >>,
      << Coll("gather", None, 0, FALSE, {0}) >>,
      << Coll("get_world_size", None, None, FALSE, FALSE) >>,
      << Coll("get_rank", None, None, FALSE, FALSE) >>,
      << SendRecvC(None, 0, 1, FALSE, FALSE) >>,
      \* complex tensor with ReduceOp.MAX; async reduce
      << InitC, Coll("all_reduce", None, None, FALSE, TRUE) >>,
      << InitC, Coll("reduce", None, 0, TRUE, FALSE) >>,
      \* a root, peer or source outside the subgroup {1}
      << InitC, NewGroupC(<<1>>), Coll("broadcast", 2, 0, FALSE, FALSE),
         Coll("get_rank", 2, None, FALSE, FALSE) >>,
      << InitC, NewGroupC(<<1>>), Coll("reduce", 2, 0, FALSE, FALSE) >>,
      << InitC, NewGroupC(<<1>>), Coll("gather", 2, 0, FALSE, {}) >>,
      << InitC, NewGroupC(<<1>>), Coll("scatter", 2, 1, FALSE, {}) >>,
      << InitC, NewGroupC(<<1>>), SendRecvC(2, 1, 0, FALSE, FALSE) >>,
      << InitC, NewGroupC(<<1>>), SendRecvC(2, 0, 1, FALSE, FALSE) >>,
      << InitC, NewGroupC(<<1>>), SendRecvC(2, 0, 2, FALSE, FALSE),
         Coll("all_to_all", 2, None, TRUE, FALSE), WaitC(4) >>,
      \* a subgroup queried after WORLD was destroyed and re-created
      << InitC, NewGroupC(<<0, 1>>), DestroyC(None), InitC,
         Coll("get_world_size", 2, None, FALSE, FALSE) >>,
      << InitC, NewGroupC(<<0, 1>>), DestroyC(None), InitC,
         Coll("get_rank", 2, None, FALSE, FALSE) >> }

MCScripts == {Subgroup, Default} \cup Misuse
MCLiveScripts == {Subgroup, Default}
=============================================================================
