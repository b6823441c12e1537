----------------------------- MODULE C10dBackend -----------------------------
(***************************************************************************)
(* Backend names in distributed_c10d.py: the Backend class, whose         *)
(* attributes (GLOO = "gloo", ...) are the table of known backends,       *)
(* Backend(name) that parses a name through getattr(Backend, name.upper()),*)
(* register_backend that adds an attribute, and the backend selection of  *)
(* init_process_group / _new_process_group_helper, which calls Backend()  *)
(* twice and then picks a ProcessGroup constructor.  One process, calls   *)
(* in any order.                                                           *)
(*                                                                         *)
(* A string is a record [b |-> base, c |-> case]: only its letter case is *)
(* kept apart from what it spells, since upper() and == are all the code  *)
(* does with it.  A factory registered under base b is [f |-> b].         *)
(***************************************************************************)
EXTENDS FiniteSets, TLC

CONSTANTS
    Bases,          \* what names spell: "gloo", "nccl", ..., and custom ones
    RegBases,       \* the names a program may pass to register_backend
    Available,      \* backends built in: is_mpi/nccl/hccl_available()
    None

Cases == {"lower", "upper", "mixed"}
Str(b, c) == [b |-> b, c |-> c]
Upper(s) == Str(s.b, "upper")
Names == {Str(b, c) : b \in Bases, c \in Cases}
Factory(b) == [f |-> b]
IsString(v) == DOMAIN v = {"b", "c"}

\* class attributes UNDEFINED, GLOO, NCCL, MPI, TCP, HCCL: lower-case values
BuiltIns == {"undefined", "gloo", "nccl", "mpi", "tcp", "hccl"}

VARIABLES
    attrs,          \* the attributes of class Backend: attribute name -> value
    pgBackend,      \* _pg_map[WORLD][0] (what get_backend() returns), or None
    registered      \* history: the names passed to register_backend

vars == <<attrs, pgBackend, registered>>

\* Backend.<NAME> for a built-in name (None once it is not an attribute)
Attr(b) == IF Str(b, "upper") \in DOMAIN attrs THEN attrs[Str(b, "upper")] ELSE None

\* getattr(Backend, v.upper(), None)
GetAttr(v) == IF Upper(v) \in DOMAIN attrs THEN attrs[Upper(v)] ELSE None

Init ==
    /\ attrs = [n \in {Str(b, "upper") : b \in BuiltIns} |-> Str(n.b, "lower")]
    /\ pgBackend = None
    /\ registered = {}

\* Bug variant (used to show DeprecatedTCPAlways detects it): the deprecated
\* backend recognised by the literal "tcp" instead of Backend.TCP.
BackendNewLiteralTCP(v) ==
    LET value == IF GetAttr(v) = None THEN Attr("undefined") ELSE GetAttr(v)
    IN  CASE ~IsString(v)                 -> [err |-> "not_a_string"]
          [] value = Str("tcp", "lower")  -> [err |-> "deprecated"]
          [] value = Attr("undefined")    -> [err |-> "invalid"]
          [] value \notin {Attr("gloo"), Attr("nccl"), Attr("mpi")} -> [val |-> v]
          [] OTHER                        -> [val |-> value]

\* Backend.__new__(cls, name): a value, or the exception it raises
BackendNew(v) ==
    LET value == IF GetAttr(v) = None THEN Attr("undefined") ELSE GetAttr(v)
    IN  CASE ~IsString(v)                 -> [err |-> "not_a_string"]
          [] value = Attr("tcp")          -> [err |-> "deprecated"]
          [] value = Attr("undefined")    -> [err |-> "invalid"]
          [] value \notin {Attr("gloo"), Attr("nccl"), Attr("mpi")} -> [val |-> v]
          [] OTHER                        -> [val |-> value]

\* Bug variant (used to show RegisteredSelectsFactory detects it): the
\* factory looked up with getattr(Backend, backend), without upper().
ConstructNoUpper(bk) ==
    LET p == BackendNew(bk) IN
    IF "err" \in DOMAIN p THEN p ELSE
    LET v == p.val
        f == IF v \in DOMAIN attrs THEN attrs[v] ELSE None
    IN
    CASE v \in {Attr("mpi"), Attr("gloo"), Attr("nccl"), Attr("hccl")}
                                      -> [impl |-> v.b, rec |-> v]
      [] f # None /\ ~IsString(f)     -> [impl |-> f, rec |-> v]
      [] OTHER                        -> [err |-> "not_callable"]

\* the constructor _new_process_group_helper picks for an already parsed
\* backend, and the backend it records in _pg_map
Construct(bk) ==
    LET p == BackendNew(bk) IN
    IF "err" \in DOMAIN p THEN p ELSE
    LET v == p.val IN
    CASE v = Attr("mpi") /\ "mpi" \notin Available   -> [err |-> "unavailable"]
      [] v = Attr("mpi")                             -> [impl |-> "mpi", rec |-> Attr("mpi")]
      [] v = Attr("gloo")                            -> [impl |-> "gloo", rec |-> Attr("gloo")]
      [] v = Attr("nccl") /\ "nccl" \notin Available -> [err |-> "unavailable"]
      [] v = Attr("nccl")                            -> [impl |-> "nccl", rec |-> Attr("nccl")]
      [] v = Attr("hccl") /\ "hccl" \notin Available -> [err |-> "unavailable"]
      [] v = Attr("hccl")                            -> [impl |-> "hccl", rec |-> Attr("hccl")]
      [] GetAttr(v) # None /\ ~IsString(GetAttr(v))
                                      -> [impl |-> GetAttr(v), rec |-> v]
      \* getattr(Backend, backend.upper()) is a string: calling it fails
      [] OTHER                        -> [err |-> "not_callable"]

\* init_process_group(backend=n): backend = Backend(backend), then the helper
InitOutcome(n) ==
    LET p == BackendNew(n) IN IF "err" \in DOMAIN p THEN p ELSE Construct(p.val)

(***************************************************************************)
(* Operations                                                              *)
(***************************************************************************)

\* Bug variant (used to show TypeOK detects it): the attribute set under the
\* name as given, not name.upper().
RegisterBackendAsGiven(n) ==
    /\ attrs' = (n :> Factory(n.b)) @@ attrs
    /\ registered' = registered \cup {n}
    /\ UNCHANGED pgBackend

\* Backend.register_backend(name, func): setattr(Backend, name.upper(), func)
RegisterBackend(n) ==
    /\ attrs' = (Upper(n) :> Factory(n.b)) @@ attrs
    /\ registered' = registered \cup {n}
    /\ UNCHANGED pgBackend

\* init_process_group(backend=n), the backend part: raises, or records the
\* default group's backend in _pg_map ("trying to initialize ... twice!")
InitProcessGroup(n) ==
    /\ pgBackend = None
    /\ LET o == InitOutcome(n) IN
       IF "err" \in DOMAIN o THEN UNCHANGED vars
                             ELSE pgBackend' = o.rec /\ UNCHANGED <<attrs, registered>>

\* destroy_process_group(): _pg_map.clear()
DestroyProcessGroup ==
    /\ pgBackend # None
    /\ pgBackend' = None
    /\ UNCHANGED <<attrs, registered>>

Next ==
    \/ \E b \in RegBases, c \in Cases : RegisterBackend(Str(b, c))
    \/ \E n \in Names : InitProcessGroup(n)
    \/ DestroyProcessGroup

Spec == Init /\ [][Next]_vars

-----------------------------------------------------------------------------
Values == {Str(b, c) : b \in Bases, c \in Cases} \cup {Factory(b) : b \in Bases}

\* Types; every attribute register_backend adds is named in upper case.
TypeOK ==
    /\ DOMAIN attrs \subseteq {Str(b, "upper") : b \in Bases}
    /\ \A n \in DOMAIN attrs : attrs[n] \in Values
    /\ pgBackend \in Values \cup {None}
    /\ registered \subseteq Names

\* "TCP backend has been deprecated": Backend(name) rejects every spelling
\* of "tcp" as deprecated, whatever has been registered since (the spec:
\* resolve("tcp") always fails with DeprecatedBackend).
DeprecatedTCPAlways == \A c \in Cases : BackendNew(Str("tcp", c)) = [err |-> "deprecated"]

\* Registration takes effect.  Once register_backend(name, func) has run for
\* a name other than "tcp", init_process_group with that name in any letter
\* case constructs the group with func (the spec: a registered name is
\* selected like a built-in, and one colliding with a built-in overrides it).
RegisteredSelectsFactory ==
    \A n \in registered : \A c \in Cases :
        LET o == InitOutcome(Str(n.b, c)) IN
        n.b # "tcp" => "impl" \in DOMAIN o /\ o.impl = Factory(n.b)

\* Case-insensitive selection.  init_process_group(backend=n) either fails
\* for every letter case of n or builds the same kind of ProcessGroup for
\* every case (the spec: resolve(name.upper()) == resolve(name.lower())).
CaseInsensitiveSelection ==
    \A b \in Bases, c1, c2 \in Cases :
        LET o1 == InitOutcome(Str(b, c1))
            o2 == InitOutcome(Str(b, c2))
        IN  ("impl" \in DOMAIN o1 <=> "impl" \in DOMAIN o2)
            /\ ("impl" \in DOMAIN o1 => o1.impl = o2.impl)

=============================================================================
