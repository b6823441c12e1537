-------------------------- MODULE MC_C10dBatchP2P --------------------------
(***************************************************************************)
(* Programs for C10dBatchP2P: three ranks, the default group and a        *)
(* subgroup new_group([2, 1]) (local ranks 1 -> 0, 2 -> 1).                *)
(***************************************************************************)
EXTENDS C10dBatchP2P

MCRanks == {0, 1, 2}
Sub == "sub"
Local == [g \in {World, Sub} |->
            IF g = World THEN [r \in MCRanks |-> r] ELSE (1 :> 0) @@ (2 :> 1)]

Op(op, peer, g, tag) == [op |-> op, peer |-> peer, group |-> g, tag |-> tag]
Prog(bw, bs, batch) == [local |-> Local, backend |-> (World :> bw) @@ (Sub :> bs), batch |-> batch]

\* the ring of the docstring: send to the next rank, receive from the previous
Ring(b) == Prog(b, b, [r \in MCRanks |->
              << Op("isend", (r + 1) % 3, World, 0), Op("irecv", (r + 2) % 3, World, 0) >>])

\* an exchange on the subgroup, twice with one tag, and a send to rank 0 on
\* the default group in the same batch (same backend); rank 0 only receives
SubExchange(b) == Prog(b, b,
    (0 :> << Op("irecv", 1, World, 0), Op("irecv", 2, World, 0) >>) @@
    [r \in {1, 2} |-> << Op("isend", 3 - r, Sub, 1), Op("irecv", 3 - r, Sub, 1),
                         Op("isend", 3 - r, Sub, 1), Op("irecv", 3 - r, Sub, 1),
                         Op("isend", 0, World, 0) >>])

\* groups of two backends in one batch on ranks 1 and 2; a list element
\* that is not a P2POp on rank 0
Mixed == Prog("nccl", "gloo",
    (0 :> << Op("irecv", 1, World, 0), Op("other", 1, World, 0) >>) @@
    [r \in {1, 2} |-> << Op("isend", 0, World, 0), Op("isend", 3 - r, Sub, 0) >>])

\* an NCCL batch that raises at its third op (rank 0 is not in the
\* subgroup) after two ops issued inside the region
Partial == Prog("nccl", "nccl",
    (0 :> << Op("other", 1, World, 0) >>) @@
    [r \in {1, 2} |-> << Op("isend", 3 - r, Sub, 0), Op("irecv", 3 - r, Sub, 0),
                         Op("isend", 0, Sub, 0) >>])

\* rank 0 has nothing to exchange: batch_isend_irecv([])
Empty == Prog("gloo", "gloo",
    (0 :> << >>) @@
    [r \in {1, 2} |-> << Op("isend", 3 - r, World, 0), Op("irecv", 3 - r, World, 0) >>])

\* the program every rank runs, built on the group object it holds: rank 0
\* builds its P2POp on NON_GROUP_MEMBER
NonMember == Prog("gloo", "gloo",
    (0 :> << Op("isend", 1, Sub, 0) >>) @@
    [r \in {1, 2} |-> << Op("isend", 3 - r, Sub, 0), Op("irecv", 3 - r, Sub, 0) >>])

MCPrograms == {Ring("nccl"), Ring("gloo"), SubExchange("nccl"), SubExchange("gloo"),
               Mixed, Partial}
MCProgramsRaise == {Empty, NonMember}
=============================================================================
