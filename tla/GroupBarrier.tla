---------------------------- MODULE GroupBarrier ----------------------------
(***************************************************************************)
(* What _store_based_barrier promises its callers (init_process_group and *)
(* new_group), stated without a store: a sequence of barrier instances,   *)
(* each of which every process of the job enters at most once.  A process *)
(* leaves an instance only once every process has entered it; a process   *)
(* may give up (time out) instead of leaving; and a process that is in an *)
(* instance that every process has entered eventually leaves it, unless   *)
(* it gave up.                                                             *)
(***************************************************************************)
CONSTANTS
    Procs,          \* the processes of the job
    Instances       \* the barrier instances (one per group-creating call)

VARIABLES
    arrived,        \* <<p, i>>: p has entered instance i
    left,           \* <<p, i>>: p has passed instance i
    aborted         \* <<p, i>>: p gave up waiting in instance i

vars == <<arrived, left, aborted>>

\* every process has entered instance i (in the state given by set a)
AllArrived(a, i) == \A q \in Procs : <<q, i>> \in a

\* p is waiting in some instance, or has given up on one
Busy(p) == \E j \in Instances : <<p, j>> \in (arrived \ left) \/ <<p, j>> \in aborted

Init ==
    /\ arrived = {}
    /\ left = {}
    /\ aborted = {}

\* p enters instance i; the last one to enter may pass at once
Arrive(p, i) ==
    /\ <<p, i>> \notin arrived
    /\ ~Busy(p)
    /\ arrived' = arrived \cup {<<p, i>>}
    /\ \/ left' = left
       \/ AllArrived(arrived', i) /\ left' = left \cup {<<p, i>>}
    /\ UNCHANGED aborted

\* p passes instance i once everyone has entered it
Leave(p, i) ==
    /\ <<p, i>> \in arrived \ (left \cup aborted)
    /\ AllArrived(arrived, i)
    /\ left' = left \cup {<<p, i>>}
    /\ UNCHANGED <<arrived, aborted>>

\* p gives up waiting in instance i
Abort(p, i) ==
    /\ <<p, i>> \in arrived \ (left \cup aborted)
    /\ aborted' = aborted \cup {<<p, i>>}
    /\ UNCHANGED <<arrived, left>>

Next == \E p \in Procs, i \in Instances : Arrive(p, i) \/ Leave(p, i) \/ Abort(p, i)

Spec == Init /\ [][Next]_vars /\ \A p \in Procs, i \in Instances : WF_vars(Leave(p, i))
=============================================================================
