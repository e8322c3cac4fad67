--------------------------- MODULE KubeLockProofs ---------------------------
(****************************************************************************)
(* Proofs about KubeLock, for any set of nodes.                             *)
(****************************************************************************)
EXTENDS KubeLock, TLAPS

\* Every step keeps the types: the daemons' states, copies and timers.
THEOREM TypeCorrect == Spec => []TypeOK
<1> USE DEF TypeOK, Values, PCs, Acquiring
<1>1. Init => TypeOK
  BY DEF Init
<1>2. TypeOK /\ [Next]_vars => TypeOK'
  <2> SUFFICES ASSUME TypeOK, [Next]_vars
               PROVE  TypeOK'
    OBVIOUS
  <2> USE DEF Goto, server, copies, context
  <2>1. ASSUME NEW v \in Values, NewVersion(v)
        PROVE  /\ annotation' \in Values
               /\ late' \subseteq Nodes \X Values
               /\ object' \in [Nodes -> Values]
               /\ fresh' \subseteq Nodes
    BY <2>1 DEF NewVersion, Following
  <2>2. ASSUME NEW n \in Nodes, NEW v \in Values, Store(n, v)
        PROVE  /\ annotation' \in Values
               /\ late' \subseteq Nodes \X Values
               /\ object' \in [Nodes -> Values]
               /\ fresh' \subseteq Nodes
    BY <2>1, <2>2 DEF Store
  <2>3. ASSUME NEW n \in Nodes, NEW v \in Values, Lose(n, v)
        PROVE  late' \subseteq Nodes \X Values
    BY <2>3 DEF Lose
  <2>4. ASSUME NEW n \in Nodes, Acquire(n)
        PROVE  TypeOK'
    <3>1. CASE Start(n) \/ DeadlinePasses(n) \/ AcquireLock(n) \/ Modify(n)
      BY <3>1 DEF Start, DeadlinePasses, AcquireLock, Modify
    <3>2. CASE Get(n)
      BY <3>2 DEF Get, Copy
    <3>3. CASE Watch(n) \/ WatchEvent(n) \/ WatchTimeout(n)
      BY <3>3 DEF Watch, WatchEvent, WatchTimeout
    <3>4. CASE AcquireError(n)
      BY <3>4, <2>3 DEF AcquireError
    <3>5. CASE Update(n)
      BY <3>5, <2>2 DEF Update
    <3>6. CASE UpdateConflict(n)
      BY <3>6 DEF UpdateConflict
    <3>7. QED
      BY <2>4, <3>1, <3>2, <3>3, <3>4, <3>5, <3>6 DEF Acquire
  <2>5. ASSUME NEW n \in Nodes, Release(n)
        PROVE  TypeOK'
    <3>1. CASE ReleaseLock(n) \/ ReleaseGet(n) \/ ClearConflict(n)
      BY <3>1 DEF ReleaseLock, ReleaseGet, ClearConflict, Copy
    <3>2. CASE ClearUpdate(n)
      BY <3>2, <2>2 DEF ClearUpdate
    <3>3. QED
      BY <2>5, <3>1, <3>2 DEF Release
  <2>6. ASSUME NEW n \in Nodes, Lifecycle(n)
        PROVE  TypeOK'
    <3>1. CASE Die(n)
      <4>1. late' \subseteq Nodes \X Values
        BY <3>1, <2>3 DEF Die
      <4>2. QED
        BY <3>1, <4>1 DEF Die
    <3>2. CASE Restart(n) \/ ClearNode(n) \/ ClearLock(n)
      BY <3>2 DEF Restart, ClearNode, ClearLock
    <3>3. QED
      BY <2>6, <3>1, <3>2 DEF Lifecycle
  <2>7. CASE LateUpdate
    BY <2>7, <2>1 DEF LateUpdate
  <2>8. CASE OtherUpdate
    BY <2>8, <2>1 DEF OtherUpdate
  <2>9. CASE UNCHANGED vars
    BY <2>9 DEF vars
  <2>10. QED
    BY <2>4, <2>5, <2>6, <2>7, <2>8, <2>9 DEF Next
<1>3. QED
  BY <1>1, <1>2, PTL DEF Spec

-----------------------------------------------------------------------------
(* LockInv is inductive.  A write of another daemon is what could disturb it: it *)
(* outdates every copy, so what is left to show is that it took the lock from    *)
(* nobody.                                                                       *)

\* A new version outdates all copies but those that a watch has brought up to
\* date, and everything still on its way to the server.
LEMMA NewVersionAgrees ==
  ASSUME TypeOK, LockInv, NEW v \in Values, NewVersion(v)
  PROVE  /\ annotation' = v
         /\ late' = {}
         /\ CopiesAgree'
         /\ \A n \in Nodes :
              pc[n] \notin {"wait", "watch"} \/ Available(object[n], n)
                 => object'[n] = object[n]
BY DEF TypeOK, LockInv, NewVersion, CopiesAgree, Following

\* A daemon writes only a lock it has seen available in a current copy: whoever
\* else runs with the lock would have made the copy another one.
LEMMA WriteTakesFromNobody ==
  ASSUME TypeOK, LockInv, NEW n \in Nodes, n \in fresh, pc[n] \in {"update", "clear"}
  PROVE  \A m \in Nodes : pc[m] = "held" => m = n
BY FreeAssumption
   DEF TypeOK, LockInv, CopiesAgree, HolderOwns, UpdateFromAvailable, Available

LEMMA StartsInLockInv == Init => LockInv
BY DEF Init, LockInv, CopiesAgree, HolderOwns, UpdateFromAvailable, LateFromOwner

LEMMA AcquireKeepsLockInv ==
  ASSUME TypeOK, LockInv, NEW n \in Nodes, Acquire(n)
  PROVE  LockInv'
<1> USE FreeAssumption DEF TypeOK, Values, PCs, Acquiring, server, copies, context, Goto
<1>1. CASE \/ Start(n) \/ DeadlinePasses(n) \/ AcquireLock(n) \/ Modify(n)
           \/ Watch(n) \/ UpdateConflict(n)
  <2>1. annotation' = annotation /\ late' = late /\ object' = object /\ fresh' = fresh
    BY <1>1 DEF Start, DeadlinePasses, AcquireLock, Modify, Watch, UpdateConflict
  <2>2. /\ \A m \in Nodes \ {n} : pc'[m] = pc[m]
        /\ pc'[n] \notin {"held", "update", "clear"} \/ pc'[n] = pc[n]
        /\ pc[n] \notin {"dead", "start", "test", "release", "clear"}
    BY <1>1 DEF Start, DeadlinePasses, AcquireLock, Modify, Watch, UpdateConflict
  <2>3. QED
    BY <2>1, <2>2
       DEF LockInv, CopiesAgree, HolderOwns, UpdateFromAvailable, LateFromOwner, Available
<1>2. CASE Get(n)
  BY <1>2 DEF Get, Copy, LockInv, CopiesAgree, HolderOwns, UpdateFromAvailable,
              LateFromOwner, Available
<1>3. CASE WatchEvent(n) \/ WatchTimeout(n)
  BY <1>3 DEF WatchEvent, WatchTimeout, LockInv, CopiesAgree, HolderOwns,
              UpdateFromAvailable, LateFromOwner, Available
<1>4. CASE AcquireError(n)
  BY <1>4 DEF AcquireError, Lose, LockInv, CopiesAgree, HolderOwns,
              UpdateFromAvailable, LateFromOwner, Available
<1>5. CASE Update(n)
  <2>1. \A m \in Nodes : pc[m] = "held" => m = n
    BY <1>5, WriteTakesFromNobody DEF Update
  <2>2. /\ pc' = [pc EXCEPT ![n] = "held"]
        /\ \/ NewVersion(n)
           \/ annotation = n /\ fresh' = fresh \ {n} /\ UNCHANGED <<server, object>>
    BY <1>5 DEF Update, Store
  <2>3. CASE NewVersion(n)
    <3>1. /\ annotation' = n
          /\ late' = {}
          /\ CopiesAgree'
          /\ \A m \in Nodes : pc[m] \notin {"wait", "watch"} => object'[m] = object[m]
      BY <2>3, NewVersionAgrees
    <3>2. QED
      BY <2>1, <2>2, <3>1
         DEF LockInv, HolderOwns, UpdateFromAvailable, LateFromOwner, Available
  <2>4. CASE annotation = n /\ fresh' = fresh \ {n} /\ UNCHANGED <<server, object>>
    \* A late update of n that clears the lock would find n not yet past clearLock.
    BY <1>5, <2>1, <2>2, <2>4
       DEF Update, LockInv, CopiesAgree, HolderOwns, UpdateFromAvailable,
           LateFromOwner, Available
  <2>5. QED
    BY <2>2, <2>3, <2>4
<1>6. QED
  BY <1>1, <1>2, <1>3, <1>4, <1>5 DEF Acquire

LEMMA ReleaseKeepsLockInv ==
  ASSUME TypeOK, LockInv, NEW n \in Nodes, Release(n)
  PROVE  LockInv'
<1> USE FreeAssumption DEF TypeOK, Values, PCs, Acquiring, server, copies, context, Goto
<1>1. CASE ReleaseLock(n) \/ ClearConflict(n)
  BY <1>1 DEF ReleaseLock, ClearConflict, LockInv, CopiesAgree, HolderOwns,
              UpdateFromAvailable, LateFromOwner, Available
<1>2. CASE ReleaseGet(n)
  BY <1>2 DEF ReleaseGet, Copy, LockInv, CopiesAgree, HolderOwns,
              UpdateFromAvailable, LateFromOwner, Available
<1>3. CASE ClearUpdate(n)
  <2>1. \A m \in Nodes : pc[m] = "held" => m = n
    BY <1>3, WriteTakesFromNobody DEF ClearUpdate
  <2>2. annotation = n
    BY <1>3 DEF ClearUpdate, LockInv, CopiesAgree, UpdateFromAvailable
  <2>3. NewVersion(Free)
    BY <1>3, <2>2 DEF ClearUpdate, Store
  <2>4. /\ annotation' = Free
        /\ late' = {}
        /\ CopiesAgree'
        /\ \A m \in Nodes : pc[m] \notin {"wait", "watch"} => object'[m] = object[m]
    BY <2>3, NewVersionAgrees
  <2>5. pc' = [pc EXCEPT ![n] = "idle"] /\ pc[n] = "clear"
    BY <1>3 DEF ClearUpdate
  <2>6. QED
    BY <2>1, <2>4, <2>5
       DEF LockInv, HolderOwns, UpdateFromAvailable, LateFromOwner, Available
<1>4. QED
  BY <1>1, <1>2, <1>3 DEF Release

LEMMA LifecycleKeepsLockInv ==
  ASSUME TypeOK, LockInv, NEW n \in Nodes, Lifecycle(n)
  PROVE  LockInv'
<1> USE FreeAssumption DEF TypeOK, Values, PCs, Acquiring, server, copies, context, Goto
<1>1. CASE Die(n)
  BY <1>1 DEF Die, Lose, LockInv, CopiesAgree, HolderOwns, UpdateFromAvailable,
              LateFromOwner, Available
<1>2. CASE Restart(n) \/ ClearNode(n) \/ ClearLock(n)
  BY <1>2 DEF Restart, ClearNode, ClearLock, LockInv, CopiesAgree, HolderOwns,
              UpdateFromAvailable, LateFromOwner, Available
<1>3. QED
  BY <1>1, <1>2 DEF Lifecycle

\* Updates that nobody waits for any more, and updates of other parts of the
\* DaemonSet, take the lock from no running daemon.
LEMMA ServerKeepsLockInv ==
  ASSUME TypeOK, LockInv, LateUpdate \/ OtherUpdate
  PROVE  LockInv'
<1> USE FreeAssumption DEF TypeOK, Values, PCs, Acquiring, context
<1>1. PICK v \in Values :
        /\ NewVersion(v)
        /\ \A m \in Nodes : pc[m] = "held" => v = m
  BY DEF LateUpdate, OtherUpdate, LockInv, HolderOwns, LateFromOwner, Available
<1>2. /\ annotation' = v
      /\ late' = {}
      /\ CopiesAgree'
      /\ \A m \in Nodes : pc[m] \notin {"wait", "watch"} => object'[m] = object[m]
  BY <1>1, NewVersionAgrees
<1>3. pc' = pc
  BY DEF LateUpdate, OtherUpdate
<1>4. QED
  BY <1>1, <1>2, <1>3
     DEF LockInv, HolderOwns, UpdateFromAvailable, LateFromOwner, Available

\* The inductive invariant of the lock protocol holds in every reachable state.
THEOREM LockInvariant == Spec => []LockInv
<1>1. TypeOK /\ LockInv /\ [Next]_vars => LockInv'
  <2> SUFFICES ASSUME TypeOK, LockInv, [Next]_vars
               PROVE  LockInv'
    OBVIOUS
  <2>1. CASE UNCHANGED vars
    BY <2>1 DEF vars, server, copies, LockInv, CopiesAgree, HolderOwns,
                UpdateFromAvailable, LateFromOwner, Available
  <2>2. QED
    BY <2>1, AcquireKeepsLockInv, ReleaseKeepsLockInv, LifecycleKeepsLockInv,
       ServerKeepsLockInv DEF Next
<1>2. QED
  BY <1>1, StartsInLockInv, TypeCorrect, PTL DEF Spec

\* No two daemons run with the lock held, whatever the number of nodes.
THEOREM LockExcludes == Spec => []MutualExclusion
<1>1. LockInv => MutualExclusion
  BY DEF LockInv, HolderOwns, MutualExclusion
<1>2. QED
  BY <1>1, LockInvariant, PTL

-----------------------------------------------------------------------------

\* A daemon that waits for a lock which is available has the event to wake it.
THEOREM WaitersAreWoken == Spec => []NoLostWakeup
<1> USE DEF NoLostWakeup, Available
<1>1. Init => NoLostWakeup
  BY DEF Init
<1>2. TypeOK /\ NoLostWakeup /\ [Next]_vars => NoLostWakeup'
  <2> SUFFICES ASSUME TypeOK, NoLostWakeup, [Next]_vars
               PROVE  NoLostWakeup'
    OBVIOUS
  <2> USE FreeAssumption DEF TypeOK, Values, PCs, Acquiring, server, copies, context, Goto
  <2>1. ASSUME NEW v \in Values, NewVersion(v)
        PROVE  \A n \in Nodes :
                 pc[n] \in {"wait", "watch"} /\ Available(annotation', n)
                   => Available(object'[n], n)
    BY <2>1 DEF NewVersion, Following
  <2>2. ASSUME NEW n \in Nodes, NEW v \in Values, Store(n, v)
        PROVE  \A m \in Nodes :
                 pc[m] \in {"wait", "watch"} /\ Available(annotation', m)
                   => Available(object'[m], m)
    BY <2>1, <2>2 DEF Store
  <2>3. ASSUME NEW n \in Nodes, Acquire(n)
        PROVE  NoLostWakeup'
    <3>1. CASE Update(n)
      BY <3>1, <2>2 DEF Update
    <3>2. CASE Get(n)
      BY <3>2 DEF Get, Copy
    <3>3. CASE \/ Start(n) \/ DeadlinePasses(n) \/ AcquireLock(n) \/ Modify(n)
               \/ Watch(n) \/ WatchEvent(n) \/ WatchTimeout(n) \/ AcquireError(n)
               \/ UpdateConflict(n)
      BY <3>3 DEF Start, DeadlinePasses, AcquireLock, Modify, Watch, WatchEvent,
                  WatchTimeout, AcquireError, UpdateConflict
    <3>4. QED
      BY <2>3, <3>1, <3>2, <3>3 DEF Acquire
  <2>4. ASSUME NEW n \in Nodes, Release(n)
        PROVE  NoLostWakeup'
    <3>1. CASE ClearUpdate(n)
      BY <3>1, <2>2 DEF ClearUpdate
    <3>2. CASE ReleaseLock(n) \/ ReleaseGet(n) \/ ClearConflict(n)
      BY <3>2 DEF ReleaseLock, ReleaseGet, ClearConflict, Copy
    <3>3. QED
      BY <2>4, <3>1, <3>2 DEF Release
  <2>5. ASSUME NEW n \in Nodes, Lifecycle(n)
        PROVE  NoLostWakeup'
    BY <2>5 DEF Lifecycle, Die, Restart, ClearNode, ClearLock
  <2>6. CASE LateUpdate \/ OtherUpdate
    BY <2>6, <2>1 DEF LateUpdate, OtherUpdate
  <2>7. CASE UNCHANGED vars
    BY <2>7 DEF vars
  <2>8. QED
    BY <2>3, <2>4, <2>5, <2>6, <2>7 DEF Next
<1>3. QED
  BY <1>1, <1>2, TypeCorrect, PTL DEF Spec

-----------------------------------------------------------------------------
(* Refinement: under the mapping owner <- annotation, inside <- the daemons that *)
(* run with the lock, a step of the protocol is one of LockService or none.      *)

Inside == {n \in Nodes : pc[n] = "held"}

LEMMA ServiceInit == Init => Service!Init
BY DEF Init, Service!Init

LEMMA ServiceStep ==
  ASSUME TypeOK, LockInv, [Next]_vars
  PROVE  [Service!Next]_(Service!vars)
<1> USE FreeAssumption DEF TypeOK, Values, PCs, Acquiring, server, copies, context, Goto,
        Service!vars
<1> DEFINE Abstract == Service!Next \/ UNCHANGED <<annotation, Inside>>
<1>1. ASSUME NEW n \in Nodes, Acquire(n)
      PROVE  Abstract
  <2>1. CASE Update(n)
    <3>1. annotation \in {Free, n} /\ annotation' = n
      BY <2>1 DEF Update, Store, NewVersion, LockInv, CopiesAgree,
                  UpdateFromAvailable, Available
    <3>2. Inside' = Inside \cup {n}
      BY <2>1 DEF Update, Inside
    <3>3. Service!Enter(n)
      BY <3>1, <3>2 DEF Service!Enter, Inside
    <3>4. QED
      BY <3>3 DEF Service!Next
  <2>2. CASE \/ Start(n) \/ DeadlinePasses(n) \/ AcquireLock(n) \/ Modify(n)
             \/ Get(n) \/ Watch(n) \/ WatchEvent(n) \/ WatchTimeout(n)
             \/ AcquireError(n) \/ UpdateConflict(n)
    BY <2>2 DEF Start, DeadlinePasses, AcquireLock, Modify, Get, Watch, WatchEvent,
                WatchTimeout, AcquireError, UpdateConflict, Inside
  <2>3. QED
    BY <1>1, <2>1, <2>2 DEF Acquire
<1>2. ASSUME NEW n \in Nodes, Release(n)
      PROVE  Abstract
  <2>1. CASE ReleaseLock(n)
    <3>1. Service!Leave(n)
      BY <2>1 DEF ReleaseLock, Service!Leave
    <3>2. QED
      BY <3>1 DEF Service!Next
  <2>2. CASE ClearUpdate(n)
    <3>1. annotation = n
      BY <2>2 DEF ClearUpdate, LockInv, CopiesAgree, UpdateFromAvailable
    <3>2. annotation' = Free /\ n \notin Inside /\ Inside' = Inside
      BY <2>2, <3>1 DEF ClearUpdate, Store, NewVersion, Inside
    <3>3. Service!Drop(n)
      BY <3>1, <3>2 DEF Service!Drop, Inside
    <3>4. QED
      BY <3>3 DEF Service!Next
  <2>3. CASE ReleaseGet(n) \/ ClearConflict(n)
    BY <2>3 DEF ReleaseGet, ClearConflict, Inside
  <2>4. QED
    BY <1>2, <2>1, <2>2, <2>3 DEF Release
<1>3. ASSUME NEW n \in Nodes, Lifecycle(n)
      PROVE  Abstract
  <2>1. CASE Die(n)
    <3>1. Service!Leave(n)
      BY <2>1 DEF Die, Service!Leave
    <3>2. QED
      BY <3>1 DEF Service!Next
  <2>2. CASE Restart(n) \/ ClearNode(n) \/ ClearLock(n)
    BY <2>2 DEF Restart, ClearNode, ClearLock, Inside
  <2>3. QED
    BY <1>3, <2>1, <2>2 DEF Lifecycle
<1>4. CASE LateUpdate
  <2>1. PICK request \in late : NewVersion(request[2])
    BY <1>4 DEF LateUpdate
  <2>2. PICK n \in Nodes, v \in Values : request = <<n, v>>
    OBVIOUS
  <2>3. annotation' = v /\ Inside' = Inside
    BY <1>4, <2>1, <2>2 DEF LateUpdate, NewVersion, Inside
  <2>4. CASE v = n /\ Available(annotation, n)
    <3>1. CASE annotation = n
      BY <2>3, <2>4, <3>1 DEF Inside
    <3>2. CASE annotation = Free
      <4>1. Service!Grant(n)
        BY <2>3, <2>4, <3>2 DEF Service!Grant, Inside
      <4>2. QED
        BY <4>1 DEF Service!Next
    <3>3. QED
      BY <2>4, <3>1, <3>2 DEF Available
  <2>5. CASE v = Free /\ annotation = n /\ pc[n] # "held"
    <3>1. Service!Drop(n)
      BY <2>3, <2>5 DEF Service!Drop, Inside
    <3>2. QED
      BY <3>1 DEF Service!Next
  <2>6. QED
    BY <2>2, <2>4, <2>5 DEF LockInv, LateFromOwner
<1>5. CASE OtherUpdate \/ UNCHANGED vars
  BY <1>5 DEF OtherUpdate, NewVersion, vars, Inside
<1>6. QED
  BY <1>1, <1>2, <1>3, <1>4, <1>5 DEF Next, Inside

\* The get-modify-update protocol of kube/lock.go, with its retries, late updates
\* and restarts, implements the lock that the daemons rely on.
THEOREM LockImplementsService == Spec => ImplementsService
<1>1. QED
  BY ServiceInit, ServiceStep, TypeCorrect, LockInvariant, PTL
     DEF Spec, ImplementsService, Service!Spec
=============================================================================
