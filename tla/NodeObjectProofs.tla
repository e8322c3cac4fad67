------------------------- MODULE NodeObjectProofs -------------------------
(****************************************************************************)
(* Proofs about NodeObject, for any annotations and conditions, and any     *)
(* number of attempts.                                                      *)
(****************************************************************************)
EXTENDS NodeObject, TLAPS

\* A call makes a Node object of a Node object.
LEMMA EffectType ==
  ASSUME NEW c \in Service!Calls, NEW o \in Service!Objects
  PROVE  Service!Effect(c, o) \in Service!Objects
<1> USE DEF Service!Objects
<1>1. CASE c \in {"SetAnnotation", "ClearAnnotation", "SetSchedulableIfAnnotated"} \X Keys
  <2>1. PICK kind \in {"SetAnnotation", "ClearAnnotation", "SetSchedulableIfAnnotated"},
             key \in Keys : c = <<kind, key>>
    BY <1>1
  <2>2. /\ Service!WithAnnotation(o, key) \in Service!Objects
        /\ Service!WithoutAnnotation(o, key) \in Service!Objects
        /\ Service!Schedulable(o, key) \in Service!Objects
    BY DEF Service!WithAnnotation, Service!WithoutAnnotation, Service!Schedulable
  <2>3. QED
    BY <2>1, <2>2 DEF Service!Effect
<1>2. CASE c \in {"SetCondition"} \X Changes
  <2>1. PICK change \in Changes : c = <<"SetCondition", change>>
    BY <1>2
  <2>2. PICK C \in SUBSET Conditions : change \in [C -> Reasons]
    BY ChangesAssumption
  <2>3. [k \in Conditions |-> IF k \in DOMAIN change THEN change[k] ELSE o.reasons[k]]
            \in [Conditions -> Reasons]
    BY <2>2
  <2>4. Service!WithConditions(o, change) \in Service!Objects
    BY <2>3 DEF Service!WithConditions
  <2>5. QED
    BY <2>1, <2>4 DEF Service!Effect
<1>3. QED
  BY <1>1, <1>2 DEF Service!Calls

\* What the daemon calls is a call of the abstract Node.
LEMMA InvokeBegins ==
  ASSUME Invoke
  PROVE  \E c \in Service!Calls : c # Service!NoCall /\ Begin(c)
<1>1. ASSUME NEW kind \in {"SetAnnotation", "ClearAnnotation", "SetSchedulableIfAnnotated"},
             NEW key \in Keys, Begin(<<kind, key>>)
      PROVE  \E c \in Service!Calls : c # Service!NoCall /\ Begin(c)
  <2>1. <<kind, key>> \in Service!Calls /\ <<kind, key>> # Service!NoCall
    BY DEF Service!Calls, Service!NoCall
  <2>2. QED
    BY <1>1, <2>1
<1>2. ASSUME NEW change \in Changes, SetCondition(change)
      PROVE  \E c \in Service!Calls : c # Service!NoCall /\ Begin(c)
  <2>1. /\ <<"SetCondition", change>> \in Service!Calls
        /\ <<"SetCondition", change>> # Service!NoCall
    BY DEF Service!Calls, Service!NoCall
  <2>2. QED
    BY <1>2, <2>1 DEF SetCondition
<1>3. QED
  BY <1>1, <1>2 DEF Invoke, SetAnnotation, ClearAnnotation, SetSchedulableIfAnnotated

\* The end of a call keeps the types, whatever it returns.
LEMMA ReturnType ==
  ASSUME NEW value \in {"none", "ok", "error"}, Return(value), fresh' = FALSE,
         object' \in Service!Objects, copy' \in Service!Objects,
         late' \subseteq Service!Calls
  PROVE  TypeOK'
<1>1. pc' = "idle" /\ call' = Service!NoCall /\ steps' = 0 /\ result' = value
  BY DEF Return
<1>2. 0 \in 0 .. Steps
  BY StepsAssumption
<1>3. QED
  BY <1>1, <1>2 DEF TypeOK

\* Every request, conflict and death keeps the types, and a copy that would not be
\* rejected the same as the object.
THEOREM TypeCorrect == Spec => []TypeOK
<1>1. Init => TypeOK
  <2>1. ASSUME Init
        PROVE  call = Service!NoCall /\ pc = "idle" /\ steps = 0 /\ fresh = FALSE
    BY <2>1 DEF Init, Service!Init
  <2>2. ASSUME Init
        PROVE  object \in Service!Objects /\ copy = object /\ late = {} /\ result = "none"
    BY <2>2 DEF Init, Service!Init
  <2>3. QED
    BY <2>1, <2>2, StepsAssumption DEF TypeOK
<1>2. ASSUME TypeOK, [Next]_vars
      PROVE  TypeOK'
  <2> USE <1>2, StepsAssumption DEF TypeOK, server, copied
  <2>1. CASE UNCHANGED vars
    BY <2>1 DEF vars
  <2>2. CASE Invoke
    <3>1. PICK c \in Service!Calls : c # Service!NoCall /\ Begin(c)
      BY <2>2, InvokeBegins
    <3>2. QED
      BY <3>1 DEF Begin
  <2>3. CASE Get
    <3>1. CASE Needless
      BY <2>3, <3>1, ReturnType DEF Get
    <3>2. CASE ~Needless
      BY <2>3, <3>2 DEF Get
    <3>3. QED
      BY <3>1, <3>2
  <2>4. CASE Update
    <3>1. Service!Effect(call, copy) \in Service!Objects
      BY <2>4, EffectType DEF Update
    <3>2. object' \in Service!Objects /\ late' \subseteq Service!Calls /\ fresh' = FALSE
      BY <2>4, <3>1 DEF Update, NewVersion
    <3>3. QED
      BY <2>4, <3>2, ReturnType DEF Update
  <2>5. CASE Conflict
    BY <2>5 DEF Conflict, Return
  <2>6. CASE RequestFails \/ Die
    <3>1. late' \subseteq Service!Calls
      BY <2>6 DEF RequestFails, Die, Lose
    <3>2. fresh' = FALSE /\ UNCHANGED <<object, copy>>
      BY <2>6 DEF RequestFails, Die, Lose
    <3>3. QED
      BY <2>6, <3>1, <3>2, ReturnType DEF RequestFails, Die
  <2>7. CASE LateUpdate
    <3>1. PICK c \in late : NewVersion(Service!Effect(c, object))
      BY <2>7 DEF LateUpdate
    <3>2. QED
      BY <2>7, <3>1, EffectType DEF LateUpdate, NewVersion
  <2>8. CASE OtherUpdate
    <3>1. PICK o \in Service!Others(object) : NewVersion(o)
      BY <2>8 DEF OtherUpdate
    <3>2. QED
      BY <2>8, <3>1 DEF OtherUpdate, NewVersion, Service!Others
  <2>9. QED
    BY <2>1, <2>2, <2>3, <2>4, <2>5, <2>6, <2>7, <2>8 DEF Next, Answer
<1>3. QED
  BY <1>1, <1>2, PTL DEF Spec

\* The get-modify-update with its retries implements calls that happen at one point.
THEOREM NodeImplementsService == Spec => ImplementsService
<1>1. Init => Service!Init
  BY DEF Init
<1>2. ASSUME TypeOK, [Next]_vars
      PROVE  [Service!Next]_(Service!vars)
  <2> USE <1>2 DEF TypeOK, server, copied
  <2>1. CASE UNCHANGED vars
    BY <2>1 DEF vars, Service!vars
  <2>2. CASE Invoke
    <3>1. PICK c \in Service!Calls : Begin(c)
      BY <2>2, InvokeBegins
    <3>2. Service!Invoke(c)
      BY <3>1 DEF Begin, Service!Invoke
    <3>3. QED
      BY <3>2 DEF Service!Next
  <2>3. CASE Get
    <3>1. CASE ~Needless
      BY <2>3, <3>1 DEF Get, Service!vars
    <3>2. CASE Needless
      <4>1. Service!Effect(call, object) = object
        BY <3>2 DEF Needless, Service!Effect, Service!Schedulable
      <4>2. QED
        BY <2>3, <3>2, <4>1 DEF Get, Return, Service!Next, Service!Succeed
    <3>3. QED
      BY <3>1, <3>2
  <2>4. CASE Update
    <3>1. call # Service!NoCall /\ copy = object
      BY <2>4 DEF Update
    <3>2. object' = Service!Effect(call, object) /\ late' \subseteq late
      BY <2>4, <3>1 DEF Update, NewVersion
    <3>3. QED
      BY <2>4, <3>1, <3>2 DEF Update, Return, Service!Next, Service!Succeed
  <2>5. CASE Conflict
    <3>1. UNCHANGED server
      BY <2>5 DEF Conflict
    <3>2. UNCHANGED <<call, result>> \/ Return("error")
      BY <2>5 DEF Conflict
    <3>3. QED
      BY <3>1, <3>2 DEF Return, Service!vars, Service!Next, Service!Fail
  <2>6. CASE RequestFails \/ Die
    <3>1. late' \subseteq late \cup ({call} \ {Service!NoCall}) /\ object' = object
      BY <2>6 DEF RequestFails, Die, Lose
    <3>2. QED
      BY <2>6, <3>1 DEF RequestFails, Die, Return, Service!Next, Service!Fail
  <2>7. CASE LateUpdate
    <3>1. PICK c \in late : NewVersion(Service!Effect(c, object))
      BY <2>7 DEF LateUpdate
    <3>2. Service!TakeEffect(c)
      BY <2>7, <3>1 DEF LateUpdate, NewVersion, Service!TakeEffect
    <3>3. QED
      BY <3>2 DEF Service!Next
  <2>8. CASE OtherUpdate
    BY <2>8 DEF OtherUpdate, NewVersion, Service!Next, Service!OtherUpdate
  <2>9. QED
    BY <2>1, <2>2, <2>3, <2>4, <2>5, <2>6, <2>7, <2>8 DEF Next, Answer
<1>3. QED
  BY <1>1, <1>2, TypeCorrect, PTL DEF Spec, ImplementsService, Service!Spec

-----------------------------------------------------------------------------
(* What a call leaves alone *)

\* A call of a field of its own: the kubelet's condition is kept, and a cordon too, but
\* for the call that takes an annotation away with it.
LEMMA EffectIsOwn ==
  ASSUME NEW c \in Service!Calls, NEW o \in Service!Objects
  PROVE  LET p == Service!Effect(c, o)
         IN  /\ p.ready = o.ready
             /\ \/ p.unschedulable = o.unschedulable
                \/ \E key \in Keys :
                       /\ key \in o.annotations
                       /\ p.annotations = o.annotations \ {key}
                       /\ ~p.unschedulable
<1> USE DEF Service!Objects
<1>1. CASE c \in {"SetAnnotation", "ClearAnnotation", "SetSchedulableIfAnnotated"} \X Keys
  <2>1. PICK kind \in {"SetAnnotation", "ClearAnnotation", "SetSchedulableIfAnnotated"},
             key \in Keys : c = <<kind, key>>
    BY <1>1
  <2>2. CASE kind \in {"SetAnnotation", "ClearAnnotation"}
    BY <2>1, <2>2
       DEF Service!Effect, Service!WithAnnotation, Service!WithoutAnnotation
  <2>3. CASE kind = "SetSchedulableIfAnnotated"
    <3>1. Service!Effect(c, o) = Service!Schedulable(o, key)
      BY <2>1, <2>3 DEF Service!Effect
    <3>2. QED
      BY <3>1 DEF Service!Schedulable, Service!WithoutAnnotation
  <2>4. QED
    BY <2>2, <2>3
<1>2. CASE c \in {"SetCondition"} \X Changes
  <2>1. PICK change \in Changes : c = <<"SetCondition", change>>
    BY <1>2
  <2>2. Service!Effect(c, o) = Service!WithConditions(o, change)
    BY <2>1 DEF Service!Effect
  <2>3. QED
    BY <2>2 DEF Service!WithConditions
<1>3. QED
  BY <1>1, <1>2 DEF Service!Calls

\* No step of the daemon takes back what the kubelet has written, or uncordons the node,
\* but for the one that takes an annotation of the daemon away with the cordon.
OthersAreKept ==
    /\ object'.ready # object.ready => object' \in Service!Others(object)
    /\ object.unschedulable /\ ~object'.unschedulable =>
           \/ object' \in Service!Others(object)
           \/ \E key \in Keys :
                  key \in object.annotations /\ object'.annotations = object.annotations \ {key}

\* Conflicts, retries and late updates lose no update of the kubelet or of kubectl
\* (kube/node.go: the object is updated as a whole).
THEOREM UpdatesOfOthersAreKept == Spec => [][OthersAreKept]_object
<1>1. ASSUME TypeOK, [Service!Next]_(Service!vars)
      PROVE  [OthersAreKept]_object
  <2>1. ASSUME NEW c \in Service!Calls, object' = Service!Effect(c, object)
        PROVE  OthersAreKept
    BY <1>1, <2>1, EffectIsOwn DEF TypeOK, OthersAreKept
  <2>2. CASE \E c \in late : Service!TakeEffect(c)
    <3>1. PICK c \in late : Service!TakeEffect(c)
      BY <2>2
    <3>2. c \in Service!Calls
      BY <1>1 DEF TypeOK
    <3>3. QED
      BY <2>1, <3>1, <3>2 DEF Service!TakeEffect
  <2>3. CASE Service!Succeed
    <3>1. call \in Service!Calls
      BY <1>1, <2>3 DEF TypeOK, Service!Succeed
    <3>2. QED
      BY <2>1, <2>3, <3>1 DEF Service!Succeed
  <2>4. CASE Service!OtherUpdate
    BY <2>4 DEF Service!OtherUpdate, OthersAreKept
  <2>5. CASE Service!Fail \/ \E c \in Service!Calls : Service!Invoke(c)
    BY <2>5 DEF Service!Fail, Service!Invoke
  <2>6. CASE UNCHANGED Service!vars
    BY <2>6 DEF Service!vars
  <2>7. QED
    BY <1>1, <2>2, <2>3, <2>4, <2>5, <2>6 DEF Service!Next
<1>2. QED
  BY <1>1, TypeCorrect, NodeImplementsService, PTL DEF ImplementsService, Service!Spec

\* A call that finds its effect on the object changes nothing: a daemon may repeat the
\* one whose answer its predecessor has lost (clearNodeReboot, clearNodeDrain).
THEOREM CallsMayBeRepeated ==
  ASSUME NEW c \in Service!Calls, NEW o \in Service!Objects
  PROVE  Service!Effect(c, Service!Effect(c, o)) = Service!Effect(c, o)
<1> USE DEF Service!Objects
<1>1. CASE c \in {"SetAnnotation", "ClearAnnotation", "SetSchedulableIfAnnotated"} \X Keys
  <2>1. PICK kind \in {"SetAnnotation", "ClearAnnotation", "SetSchedulableIfAnnotated"},
             key \in Keys : c = <<kind, key>>
    BY <1>1
  <2>2. CASE kind = "SetAnnotation"
    BY <2>1, <2>2 DEF Service!Effect, Service!WithAnnotation
  <2>3. CASE kind = "ClearAnnotation"
    BY <2>1, <2>3 DEF Service!Effect, Service!WithoutAnnotation
  <2>4. CASE kind = "SetSchedulableIfAnnotated"
    <3>1. \A p \in Service!Objects : Service!Effect(c, p) = Service!Schedulable(p, key)
      BY <2>1, <2>4 DEF Service!Effect
    <3>2. key \notin Service!Schedulable(o, key).annotations
      BY DEF Service!Schedulable, Service!WithoutAnnotation
    <3>3. Service!Effect(c, o) \in Service!Objects
      BY EffectType
    <3>4. QED
      BY <3>1, <3>2, <3>3 DEF Service!Schedulable
  <2>5. QED
    BY <2>2, <2>3, <2>4
<1>2. CASE c \in {"SetCondition"} \X Changes
  <2>1. PICK change \in Changes : c = <<"SetCondition", change>>
    BY <1>2
  <2>2. \A p \in Service!Objects : Service!Effect(c, p) = Service!WithConditions(p, change)
    BY <2>1 DEF Service!Effect
  <2>3. Service!Effect(c, o) \in Service!Objects
    BY EffectType
  <2>4. QED
    BY <2>2, <2>3 DEF Service!WithConditions
<1>3. QED
  BY <1>1, <1>2 DEF Service!Calls

-----------------------------------------------------------------------------
(* How long a call can take *)

\* The requests that a call may still make, the next one with them: a get and an
\* update for each of its attempts.
RequestsLeft ==
    IF pc = "idle" THEN 0 ELSE IF pc = "get" THEN 2 * steps ELSE 2 * steps - 1

\* A step while a call goes on answers one of its requests, or is another's update,
\* which changes nothing of the call.
StepsOfACallCount ==
    [][pc # "idle" => RequestsLeft' < RequestsLeft \/ UNCHANGED <<pc, call, steps>>]_vars

\* A call makes at most two requests for each of the attempts of retry.DefaultBackoff,
\* however often the kubelet gets in before its updates: RetryOnConflict never starts
\* anew.  What is left for CallsEnd is that requests are answered.
THEOREM CallsAreBounded ==
  Spec => /\ [](RequestsLeft \in 0 .. 2 * Steps /\ (RequestsLeft = 0 => pc = "idle"))
          /\ StepsOfACallCount
<1>1. ASSUME TypeOK
      PROVE  RequestsLeft \in 0 .. 2 * Steps /\ (RequestsLeft = 0 => pc = "idle")
  <2>1. pc # "idle" => steps \in 1 .. Steps
    BY <1>1, StepsAssumption DEF TypeOK
  <2>2. pc \in {"idle", "get", "update"}
    BY <1>1 DEF TypeOK
  <2>3. QED
    BY <2>1, <2>2, StepsAssumption DEF RequestsLeft
<1>2. ASSUME TypeOK, [Next]_vars, pc # "idle"
      PROVE  RequestsLeft' < RequestsLeft \/ UNCHANGED <<pc, call, steps>>
  <2>1. steps \in Nat /\ steps > 0
    BY <1>2, StepsAssumption DEF TypeOK
  <2>2. CASE Get
    BY <2>1, <2>2 DEF Get, Return, RequestsLeft
  <2>3. CASE Update \/ RequestFails \/ Die
    <3>1. pc \in {"get", "update"} /\ pc' = "idle"
      BY <2>3 DEF Update, RequestFails, Die, Return
    <3>2. QED
      BY <2>1, <3>1 DEF RequestsLeft
  <2>4. CASE Conflict
    BY <2>1, <2>4 DEF Conflict, Return, RequestsLeft
  <2>5. CASE LateUpdate \/ OtherUpdate
    BY <2>5 DEF LateUpdate, OtherUpdate
  <2>6. CASE Invoke
    BY <1>2, <2>6, InvokeBegins DEF Begin
  <2>7. CASE UNCHANGED vars
    BY <2>7 DEF vars
  <2>8. QED
    BY <1>2, <2>2, <2>3, <2>4, <2>5, <2>6, <2>7 DEF Next, Answer
<1>3. QED
  BY <1>1, <1>2, TypeCorrect, PTL DEF Spec, StepsOfACallCount
=============================================================================
