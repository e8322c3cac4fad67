---------------------------- MODULE NodeService ----------------------------
(****************************************************************************)
(* What the daemon relies on when it calls the methods of kube.Node: each   *)
(* call changes the Node object at one point, as it then is, and changes    *)
(* nothing that belongs to others.  A call that returns an error has not    *)
(* done so, and may still.                                                  *)
(****************************************************************************)

CONSTANTS
    Keys,         \* the annotations of the daemon: drain and reboot
    Conditions,   \* the conditions of the daemon
    Reasons,      \* their reasons
    Changes       \* what SetCondition is given: reasons of some of the conditions

VARIABLES
    object,    \* the Node object
    call,      \* the call that the daemon is in, or NoCall
    result,    \* what the last call returned; "none" in a call or after a death
    late       \* failed calls which may still have their effect

vars == <<object, call, result, late>>

\* "ready" is the kubelet's condition; "unschedulable" is set by kubectl as well.
Objects ==
    [annotations : SUBSET Keys, reasons : [Conditions -> Reasons],
     unschedulable : BOOLEAN, ready : BOOLEAN]

NoCall == <<"none", "none">>

Calls ==
    ({"SetAnnotation", "ClearAnnotation", "SetSchedulableIfAnnotated"} \X Keys)
        \cup ({"SetCondition"} \X Changes)

WithAnnotation(o, key) == [o EXCEPT !.annotations = @ \cup {key}]

WithoutAnnotation(o, key) == [o EXCEPT !.annotations = @ \ {key}]

\* Test and clear: both fields change, or none.
Schedulable(o, key) ==
    IF key \in o.annotations
    THEN [WithoutAnnotation(o, key) EXCEPT !.unschedulable = FALSE]
    ELSE o

\* All the given conditions in one update, and no other.
WithConditions(o, change) ==
    [o EXCEPT !.reasons =
        [c \in Conditions |-> IF c \in DOMAIN change THEN change[c] ELSE o.reasons[c]]]

Effect(c, o) ==
    CASE c[1] = "SetAnnotation" -> WithAnnotation(o, c[2])
      [] c[1] = "ClearAnnotation" -> WithoutAnnotation(o, c[2])
      [] c[1] = "SetSchedulableIfAnnotated" -> Schedulable(o, c[2])
      [] c[1] = "SetCondition" -> WithConditions(o, c[2])

\* What the kubelet and kubectl may make of an object.
Others(o) ==
    {p \in Objects : p.annotations = o.annotations /\ p.reasons = o.reasons}

Init ==
    /\ object \in Objects
    /\ call = NoCall
    /\ result = "none"
    /\ late = {}

Invoke(c) ==
    /\ call = NoCall
    /\ call' = c
    /\ result' = "none"
    /\ UNCHANGED <<object, late>>

Succeed ==
    /\ call # NoCall
    /\ object' = Effect(call, object)
    /\ call' = NoCall
    /\ result' = "ok"
    /\ late' \subseteq late

\* An error, or the death of the daemon.
Fail ==
    /\ call' = NoCall
    /\ result' \in {"error", "none"}
    /\ late' \subseteq late \cup ({call} \ {NoCall})
    /\ UNCHANGED object

TakeEffect(c) ==
    /\ object' = Effect(c, object)
    /\ late' \subseteq late
    /\ UNCHANGED <<call, result>>

OtherUpdate ==
    /\ object' \in Others(object)
    /\ late' \subseteq late
    /\ UNCHANGED <<call, result>>

Next ==
    \/ \E c \in Calls : Invoke(c)
    \/ \E c \in late : TakeEffect(c)
    \/ Succeed \/ Fail \/ OtherUpdate

Spec == Init /\ [][Next]_vars
=============================================================================
