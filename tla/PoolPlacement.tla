--------------------------- MODULE PoolPlacement ---------------------------
(***************************************************************************)
(* What the worker pool promises its callers (spec 4.3), with every lookup *)
(* and every retry folded into one atomic step: a call returns a container *)
(* carrying the caller's identity that already exists, or creates one on a *)
(* worker with room, or fails; a lookup by handle returns a container with *)
(* that handle or nothing.  Containers of finished calls may be destroyed  *)
(* (their TTL lapses) at any time.                                         *)
(***************************************************************************)
EXTENDS Naturals

CONSTANTS
    Workers,        \* registered workers
    Reqs,           \* the pool calls made during a behaviour
    Keys,           \* container identities: (build, plan), resource user, handle
    ReqKind,        \* Reqs -> {"build", "check", "get", "handle"}
    ReqKey,         \* Reqs -> Keys
    MaxContainers,  \* a worker's max_containers
    NoReq, NoWorker, NoCont,
    Size(_)         \* the number of elements of a finite set (Cardinality)

VARIABLES conts, result, got

Kinds == {"build", "check", "get", "handle"}
ContKinds == {"build", "check", "get"}
Cont == [by: Reqs \cup {NoReq}, key: Keys, kind: ContKinds, w: Workers]
Failures == {"full", "exhausted", "noworkers", "notfound", "error"}
Results == {"pending", "found", "created"} \cup Failures

Count(w) == Size({c \in conts : c.w = w})

(* A container the caller r may be handed: its identity, and its kind     *)
(* unless r looks a container up by handle.                                *)
Matches(r, c) ==
    /\ c.key = ReqKey[r]
    /\ ReqKind[r] # "handle" => c.kind = ReqKind[r]

Return(r, res, c) ==
    /\ result' = [result EXCEPT ![r] = res]
    /\ got' = [got EXCEPT ![r] = c]

Found(r) ==
    /\ result[r] = "pending"
    /\ \E c \in conts : Matches(r, c) /\ Return(r, "found", c)
    /\ UNCHANGED conts

Create(r) ==
    /\ result[r] = "pending"
    /\ ReqKind[r] # "handle"
    /\ \E w \in Workers :
         LET c == [by |-> r, key |-> ReqKey[r], kind |-> ReqKind[r], w |-> w] IN
         /\ Count(w) < MaxContainers
         /\ conts' = conts \cup {c}
         /\ Return(r, "created", c)

Fail(r) ==
    /\ result[r] = "pending"
    /\ \E f \in Failures : Return(r, f, NoCont)
    /\ UNCHANGED conts

Destroy(c) ==
    /\ c.by \in Reqs => result[c.by] # "pending"
    /\ conts' = conts \ {c}
    /\ UNCHANGED <<result, got>>

Init ==
    /\ conts \in SUBSET [by: {NoReq}, key: Keys, kind: {"build", "check"}, w: Workers]
    /\ \A w \in Workers : Count(w) <= MaxContainers
    /\ \A c1, c2 \in conts : c1.key = c2.key /\ c1.kind = c2.kind => c1 = c2
    /\ result = [r \in Reqs |-> "pending"]
    /\ got = [r \in Reqs |-> NoCont]

Next ==
    \/ \E r \in Reqs : Found(r) \/ Create(r) \/ Fail(r)
    \/ \E c \in conts : Destroy(c)

Spec == Init /\ [][Next]_<<conts, result, got>>

(* No worker ever runs more than max_containers containers.               *)
CapacityRespected == \A w \in Workers : Count(w) <= MaxContainers

(* Every container a call returned carries the caller's identity.          *)
ReturnedOwnIdentity ==
    \A r \in Reqs : result[r] \in {"found", "created"} => Matches(r, got[r])
=============================================================================
