----------------------------- MODULE NodeObject -----------------------------
(****************************************************************************)
(* The methods of kube.Node (kube/node.go): get, modify and update of the   *)
(* daemon's own Node object, tried again after a conflict, and a few times  *)
(* only.  The kubelet updates the same object every few seconds, and        *)
(* kubectl cordons it.                                                      *)
(*                                                                          *)
(* As in KubeLock a resourceVersion is compared for equality with the       *)
(* current one, so the model keeps whether a copy is current.  The daemon   *)
(* makes one call after the other, in any order here; HostUpgrades has the  *)
(* order of kube.go.                                                        *)
(****************************************************************************)
EXTENDS Naturals

CONSTANTS
    Keys,         \* the annotations of the daemon
    Conditions,   \* its conditions
    Reasons,      \* their reasons
    Changes,      \* what SetCondition is given: reasons of some of the conditions
    Steps         \* the attempts of retry.DefaultBackoff

ASSUME ChangesAssumption == Changes \subseteq UNION {[C -> Reasons] : C \in SUBSET Conditions}

ASSUME StepsAssumption == Steps \in Nat \ {0}

VARIABLES
    object,    \* the Node object at the API server
    late,      \* calls whose update may still reach the server, with the
               \*   current resourceVersion
    pc,        \* "idle", "get" or "update": the next request of the daemon
    call,      \* the call that it is in
    steps,     \* the attempts that the call has left, with this one
    copy,      \* the daemon's copy of the object
    fresh,     \* whether the copy has the current resourceVersion
    result     \* what the last call returned

server == <<object, late>>
copied == <<copy, fresh>>
vars == <<server, pc, call, steps, copied, result>>

\* Each call is one of NodeService, whose Effect is what it does to the object.
Service == INSTANCE NodeService

Init ==
    /\ Service!Init
    /\ pc = "idle"
    /\ steps = 0
    /\ copy = object
    /\ fresh = FALSE

-----------------------------------------------------------------------------
(* The API server *)

\* All other copies are outdated, and so are the requests that carry one.
NewVersion(o) ==
    /\ object' = o
    /\ late' = {}
    /\ fresh' = FALSE

LateUpdate ==
    /\ \E c \in late : NewVersion(Service!Effect(c, object))
    /\ UNCHANGED <<pc, call, steps, copy, result>>

OtherUpdate ==
    /\ \E o \in Service!Others(object) : NewVersion(o)
    /\ UNCHANGED <<pc, call, steps, copy, result>>

-----------------------------------------------------------------------------
(* The methods *)

Begin(c) ==
    /\ pc = "idle"
    /\ pc' = "get"
    /\ call' = c
    /\ steps' = Steps
    /\ result' = "none"
    /\ UNCHANGED <<server, copied>>

SetAnnotation(key) == Begin(<<"SetAnnotation", key>>)

ClearAnnotation(key) == Begin(<<"ClearAnnotation", key>>)

SetSchedulableIfAnnotated(key) == Begin(<<"SetSchedulableIfAnnotated", key>>)

SetCondition(change) == Begin(<<"SetCondition", change>>)

Return(value) ==
    /\ pc' = "idle"
    /\ call' = Service!NoCall
    /\ steps' = 0
    /\ result' = value

\* Without the annotation there is nothing to update.
Needless == call[1] = "SetSchedulableIfAnnotated" /\ call[2] \notin object.annotations

Get ==
    /\ pc = "get"
    /\ copy' = object
    /\ \/ ~Needless /\ fresh' = TRUE /\ pc' = "update" /\ UNCHANGED <<call, steps, result>>
       \/ Needless /\ fresh' = FALSE /\ Return("ok")
    /\ UNCHANGED server

\* Mutant of Update: no resourceVersion is compared.
UpdateUnchecked ==
    /\ pc = "update"
    /\ NewVersion(Service!Effect(call, copy))
    /\ Return("ok")
    /\ UNCHANGED copy

\* An update that changes nothing may or may not make a version.
Update ==
    /\ pc = "update"
    /\ fresh
    /\ \/ NewVersion(Service!Effect(call, copy))
       \/ Service!Effect(call, copy) = object /\ fresh' = FALSE /\ UNCHANGED server
    /\ Return("ok")
    /\ UNCHANGED copy

\* Mutants of Conflict: tried again without a count; once too often.
ConflictUncounted ==
    /\ pc = "update"
    /\ ~fresh
    /\ pc' = "get"
    /\ UNCHANGED <<server, call, steps, copied, result>>

ConflictOnceMore ==
    /\ pc = "update"
    /\ ~fresh
    /\ \/ steps > 0 /\ pc' = "get" /\ steps' = steps - 1 /\ UNCHANGED <<call, result>>
       \/ steps = 0 /\ Return("error")
    /\ UNCHANGED <<server, copied>>

\* RetryOnConflict: the next attempt reads the object again.
Conflict ==
    /\ pc = "update"
    /\ ~fresh
    /\ \/ steps > 1 /\ pc' = "get" /\ steps' = steps - 1 /\ UNCHANGED <<call, result>>
       \/ steps = 1 /\ Return("error")
    /\ UNCHANGED <<server, copied>>

\* A request that is not answered is not retried, and an update may come late.
Lose ==
    /\ late' = IF pc = "update" /\ fresh THEN late \cup {call} ELSE late
    /\ fresh' = FALSE
    /\ UNCHANGED <<object, copy>>

RequestFails == pc \in {"get", "update"} /\ Lose /\ Return("error")

\* The pod is killed.
Die == pc \in {"get", "update"} /\ Lose /\ Return("none")

Invoke ==
    \/ \E key \in Keys :
           SetAnnotation(key) \/ ClearAnnotation(key) \/ SetSchedulableIfAnnotated(key)
    \/ \E change \in Changes : SetCondition(change)

Answer == Get \/ Update \/ Conflict

Next == Invoke \/ Answer \/ RequestFails \/ Die \/ LateUpdate \/ OtherUpdate

Spec == Init /\ [][Next]_vars
-----------------------------------------------------------------------------
(* Safety *)

\* A copy that would not be rejected is the object, and there is an attempt to it.
TypeOK ==
    /\ object \in Service!Objects
    /\ late \subseteq Service!Calls
    /\ pc \in {"idle", "get", "update"}
    /\ call \in Service!Calls \cup {Service!NoCall}
    /\ call = Service!NoCall <=> pc = "idle"
    /\ steps \in 0 .. Steps
    /\ steps = 0 <=> pc = "idle"
    /\ copy \in Service!Objects
    /\ fresh \in BOOLEAN
    /\ fresh => pc = "update" /\ copy = object
    /\ result \in {"none", "ok", "error"}

\* Conflicts, retries, lost answers and the updates of the kubelet and of kubectl come
\* to calls that each happen at one point: one that returns nil has had its effect
\* once, and on the object as it was then.  Of what others have made of the object it
\* undoes the cordon alone, and only where the daemon's annotation is.
ImplementsService == Service!Spec

-----------------------------------------------------------------------------
(* Liveness *)

\* Requests are answered; the kubelet may update the object before every update.
FairSpec == Spec /\ WF_vars(Answer)

\* A call comes to an end however often the others get in before it.
CallsEnd == pc # "idle" ~> pc = "idle"
=============================================================================
