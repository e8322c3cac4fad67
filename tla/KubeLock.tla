------------------------------ MODULE KubeLock ------------------------------
(****************************************************************************)
(* The cluster lock of kube/lock.go, with its callers in kube.go.  The lock *)
(* is an annotation of the DaemonSet object, taken and released by get,     *)
(* modify and update, where the API server rejects an update whose          *)
(* resourceVersion is not the current one.                                  *)
(*                                                                          *)
(* One step is one answer of the API server, or a test of the context with  *)
(* the code up to the next request.  A resourceVersion is only ever         *)
(* compared for equality with the current one, so the model keeps, of all   *)
(* versions, which copies are current: "fresh" for the copies the daemons   *)
(* hold, "late" for updates on their way to the server.                     *)
(****************************************************************************)

CONSTANTS
    Nodes,   \* the nodes; a node's name is the value its daemon locks with
    Free     \* the value of an annotation that is not set

ASSUME FreeAssumption == Free \notin Nodes

VARIABLES
    annotation,   \* the lock annotation at the API server
    late,         \* <<n, v>>: an update by n to value v which may still reach the
                  \*   server and whose resourceVersion is current
    pc,           \* where each daemon is in the lock's code
    object,       \* the annotation in each daemon's copy of the DaemonSet
    fresh,        \* the daemons whose copy has the current resourceVersion
    expired,      \* whether the deadline of the daemon's context has passed
    timed         \* the daemons whose watch has a timer running

server == <<annotation, late>>
copies == <<object, fresh>>
context == <<expired, timed>>
vars == <<server, pc, copies, context>>

Values == Nodes \cup {Free}

Acquiring == {"acquire", "modify", "get", "wait", "watch", "update"}

PCs == Acquiring \cup {"dead", "start", "test", "idle", "held", "release", "clear"}

\* lock.test: free, or acquired already
Available(v, n) == v \in {Free, n}

\* Mutant of Following: the watch starts at the time of its request.
FollowingFromNow ==
    {m \in Nodes : pc[m] = "watch" /\ ~Available(object[m], m)}

\* The copies that the watch keeps up to date: event by event, until the first
\* event with an available lock, which is the one watch.Until returns.
Following ==
    {m \in Nodes : pc[m] \in {"wait", "watch"} /\ ~Available(object[m], m)}

Init ==
    /\ annotation = Free
    /\ late = {}
    /\ pc = [n \in Nodes |-> "dead"]
    /\ object = [n \in Nodes |-> Free]
    /\ fresh = {}
    /\ expired = [n \in Nodes |-> FALSE]
    /\ timed = {}

-----------------------------------------------------------------------------
(* The API server *)

\* A new version of the DaemonSet, with v for the lock: all other versions, held
\* or on their way, are outdated, and every watch gets a Modified event.
NewVersion(v) ==
    /\ annotation' = v
    /\ late' = {}
    /\ object' = [m \in Nodes |-> IF m \in Following THEN v ELSE object[m]]
    /\ fresh' = Following

\* An update that leaves the object as it is may or may not make a version.
Store(n, v) ==
    \/ NewVersion(v)
    \/ /\ annotation = v
       /\ fresh' = fresh \ {n}
       /\ UNCHANGED <<server, object>>

\* The request of n to store v gets no answer: the server may still apply it,
\* while the version it carries is current.
Lose(n, v) ==
    late' = IF n \in fresh THEN late \cup {<<n, v>>} ELSE late

LateUpdate ==
    /\ \E request \in late : NewVersion(request[2])
    /\ UNCHANGED <<pc, context>>

\* The DaemonSet controller, or a user, updates other parts of the object.
OtherUpdate ==
    /\ NewVersion(annotation)
    /\ UNCHANGED <<pc, context>>

-----------------------------------------------------------------------------
(* AcquireLock, and modify with wait and acquire *)

Goto(n, label) == pc' = [pc EXCEPT ![n] = label]

\* The scheduler runs the upgrade, with a new context.
Start(n) ==
    /\ pc[n] = "idle"
    /\ Goto(n, "acquire")
    /\ expired' = [expired EXCEPT ![n] = FALSE]
    /\ UNCHANGED <<server, copies, timed>>

DeadlinePasses(n) ==
    /\ pc[n] \in Acquiring
    /\ ~expired[n]
    /\ expired' = [expired EXCEPT ![n] = TRUE]
    /\ UNCHANGED <<server, pc, copies, timed>>

\* An error from AcquireLock ends the process, by log.Fatalf.
AcquireLock(n) ==
    /\ pc[n] = "acquire"
    /\ Goto(n, IF expired[n] THEN "dead" ELSE "modify")
    /\ UNCHANGED <<server, copies, context>>

Modify(n) ==
    /\ pc[n] = "modify"
    /\ Goto(n, IF expired[n] THEN "acquire" ELSE "get")
    /\ UNCHANGED <<server, copies, context>>

Copy(n) ==
    /\ object' = [object EXCEPT ![n] = annotation]
    /\ fresh' = fresh \cup {n}

Get(n) ==
    /\ pc[n] = "get"
    /\ Copy(n)
    /\ Goto(n, IF Available(annotation, n) THEN "update" ELSE "wait")
    /\ UNCHANGED <<server, context>>

\* watch.Until has no timeout for a duration of zero or less.
Watch(n) ==
    /\ pc[n] = "wait"
    /\ Goto(n, "watch")
    /\ timed' = IF expired[n] THEN timed ELSE timed \cup {n}
    /\ UNCHANGED <<server, copies, expired>>

WatchEvent(n) ==
    /\ pc[n] = "watch"
    /\ Available(object[n], n)
    /\ Goto(n, "update")
    /\ timed' = timed \ {n}
    /\ UNCHANGED <<server, copies, expired>>

\* Mutant of WatchTimeout: the timer is left running.
WatchTimeoutKeepsTimer(n) ==
    /\ pc[n] = "watch"
    /\ n \in timed
    /\ expired[n]
    /\ Goto(n, "acquire")
    /\ UNCHANGED <<server, copies, context>>

WatchTimeout(n) ==
    /\ pc[n] = "watch"
    /\ n \in timed
    /\ expired[n]
    /\ Goto(n, "acquire")
    /\ timed' = timed \ {n}
    /\ UNCHANGED <<server, copies, expired>>

\* Any other error of a request or a watch: AcquireLock tries again.
AcquireError(n) ==
    /\ pc[n] \in {"get", "wait", "watch", "update"}
    /\ \/ pc[n] = "update" /\ Lose(n, n)
       \/ pc[n] # "update" /\ UNCHANGED late
    /\ Goto(n, "acquire")
    /\ fresh' = fresh \ {n}
    /\ timed' = timed \ {n}
    /\ UNCHANGED <<annotation, object, expired>>

Update(n) ==
    /\ pc[n] = "update"
    /\ n \in fresh
    /\ Store(n, n)
    /\ Goto(n, "held")
    /\ UNCHANGED context

\* Mutants of UpdateConflict: a conflict is taken for success; the update is sent
\* again with the same copy.
ConflictIgnored(n) ==
    /\ pc[n] = "update"
    /\ n \notin fresh
    /\ Goto(n, "held")
    /\ UNCHANGED <<server, copies, context>>

ConflictWithoutGet(n) ==
    /\ pc[n] = "update"
    /\ n \notin fresh
    /\ Goto(n, "update")
    /\ UNCHANGED <<server, copies, context>>

UpdateConflict(n) ==
    /\ pc[n] = "update"
    /\ n \notin fresh
    /\ Goto(n, "modify")
    /\ UNCHANGED <<server, copies, context>>

-----------------------------------------------------------------------------
(* ReleaseLock, and modify with release *)

ReleaseLock(n) ==
    /\ pc[n] = "held"
    /\ Goto(n, "release")
    /\ UNCHANGED <<server, copies, context>>

\* Mutant of ReleaseGet: the lock is cleared whoever holds it.
ReleaseUnchecked(n) ==
    /\ pc[n] = "release"
    /\ Copy(n)
    /\ Goto(n, "clear")
    /\ UNCHANGED <<server, context>>

\* An annotation other than n's own is the error "Broken lock".
ReleaseGet(n) ==
    /\ pc[n] = "release"
    /\ Copy(n)
    /\ Goto(n, IF annotation = n THEN "clear" ELSE "dead")
    /\ UNCHANGED <<server, context>>

ClearUpdate(n) ==
    /\ pc[n] = "clear"
    /\ n \in fresh
    /\ Store(n, Free)
    /\ Goto(n, "idle")
    /\ UNCHANGED context

ClearConflict(n) ==
    /\ pc[n] = "clear"
    /\ n \notin fresh
    /\ Goto(n, "release")
    /\ UNCHANGED <<server, copies, context>>

-----------------------------------------------------------------------------
(* The daemon's death, and clearLock of the one that replaces it *)

\* The pod is killed, or an error of the lock's release or test ends the process, or one
\* of clearNodeReboot and clearNodeDrain before them.
Die(n) ==
    /\ pc[n] # "dead"
    /\ \/ pc[n] = "update" /\ Lose(n, n)
       \/ pc[n] = "clear" /\ Lose(n, Free)
       \/ pc[n] \notin {"update", "clear"} /\ UNCHANGED late
    /\ Goto(n, "dead")
    /\ fresh' = fresh \ {n}
    /\ timed' = timed \ {n}
    /\ UNCHANGED <<annotation, object, expired>>

Restart(n) ==
    /\ pc[n] = "dead"
    /\ Goto(n, "start")
    /\ UNCHANGED <<server, copies, context>>

\* The host has rebooted if its node was marked, and the drain is undone.
ClearNode(n) ==
    /\ pc[n] = "start"
    /\ Goto(n, "test")
    /\ UNCHANGED <<server, copies, context>>

\* Mutant of ClearLock: a lock left by the predecessor is kept.
ClearLockNever(n) ==
    /\ pc[n] = "test"
    /\ Goto(n, "idle")
    /\ UNCHANGED <<server, copies, context>>

\* A lock that the node holds already was left by the daemon's predecessor.
ClearLock(n) ==
    /\ pc[n] = "test"
    /\ Goto(n, IF annotation = n THEN "release" ELSE "idle")
    /\ UNCHANGED <<server, copies, context>>

-----------------------------------------------------------------------------

Acquire(n) ==
    \/ Start(n) \/ DeadlinePasses(n) \/ AcquireLock(n) \/ Modify(n)
    \/ Get(n) \/ Watch(n) \/ WatchEvent(n) \/ WatchTimeout(n)
    \/ AcquireError(n) \/ Update(n) \/ UpdateConflict(n)

Release(n) ==
    ReleaseLock(n) \/ ReleaseGet(n) \/ ClearUpdate(n) \/ ClearConflict(n)

Lifecycle(n) == Die(n) \/ Restart(n) \/ ClearNode(n) \/ ClearLock(n)

Next ==
    \/ \E n \in Nodes : Acquire(n) \/ Release(n) \/ Lifecycle(n)
    \/ LateUpdate
    \/ OtherUpdate

Spec == Init /\ [][Next]_vars
-----------------------------------------------------------------------------
(* Safety *)

TypeOK ==
    /\ annotation \in Values
    /\ late \subseteq Nodes \X Values
    /\ pc \in [Nodes -> PCs]
    /\ object \in [Nodes -> Values]
    /\ fresh \subseteq Nodes
    /\ expired \in [Nodes -> BOOLEAN]
    /\ timed \subseteq {n \in Nodes : pc[n] = "watch"}

\* Two daemons never run with the lock held at once, whatever conflicts, stale
\* watch events, late updates and restarts come between (README.md: "only one
\* host upgrades at a time").
MutualExclusion ==
    \A m, n \in Nodes : pc[m] = "held" /\ pc[n] = "held" => m = n

\* A daemon that waits while the lock is available has the event to wake it: the
\* watch starts at the version that was tested, so no release falls between.
NoLostWakeup ==
    \A n \in Nodes :
        pc[n] \in {"wait", "watch"} /\ Available(annotation, n)
            => Available(object[n], n)

\* The strengthening of MutualExclusion that every step preserves.
CopiesAgree == \A n \in fresh : object[n] = annotation

HolderOwns == \A n \in Nodes : pc[n] = "held" => annotation = n

UpdateFromAvailable ==
    \A n \in Nodes :
        /\ pc[n] = "update" => Available(object[n], n)
        /\ pc[n] = "clear" => object[n] = n

\* A late update has the lock to set free or its own to clear, and one that clears
\* has a daemon which is gone or has not got past clearLock and its release.
LateFromOwner ==
    \A request \in late :
        LET n == request[1] IN
        \/ request[2] = n /\ Available(annotation, n)
        \/ /\ request[2] = Free
           /\ annotation = n
           /\ pc[n] \in {"dead", "start", "test", "release", "clear"}

\* Copies and late updates of the current version are true to it, and a daemon
\* that runs with the lock is its owner: every retry, release and restart of
\* modify (kube/lock.go) keeps this.
LockInv ==
    /\ CopiesAgree
    /\ HolderOwns
    /\ UpdateFromAvailable
    /\ LateFromOwner

\* The get-modify-update protocol implements the lock that its callers rely on:
\* only the owner frees it, and never while its daemon runs with it.
Service ==
    INSTANCE LockService
        WITH owner <- annotation, inside <- {n \in Nodes : pc[n] = "held"}

ImplementsService == Service!Spec

\* The upgrade starts before the deadline of --schedule-window (main.go).
StartsWithinWindow ==
    [][\A n \in Nodes : pc[n] # "held" /\ pc'[n] = "held" => ~expired[n]]_vars

-----------------------------------------------------------------------------
(* Liveness *)

\* The steps that a daemon takes by itself: it is restarted when dead, runs when the
\* scheduler ticks, and its requests are answered.  Its upgrade may hang, and its start
\* may fail before clearLock every time.
Progress(n) ==
    \/ Restart(n) \/ Start(n) \/ AcquireLock(n) \/ Modify(n) \/ Get(n)
    \/ Watch(n) \/ WatchEvent(n) \/ WatchTimeout(n)
    \/ Update(n) \/ UpdateConflict(n) \/ ClearConflict(n)

\* Requests to acquire may fail again and again, and a daemon may die again and
\* again, but the requests that release the lock do not fail every time.
Fairness ==
    \A n \in Nodes :
        /\ WF_vars(Progress(n))
        /\ WF_vars(DeadlinePasses(n))
        /\ SF_vars(ClearLock(n)) /\ SF_vars(ReleaseGet(n)) /\ SF_vars(ClearUpdate(n))

FairSpec == Spec /\ Fairness

\* Neither stuck in a run, nor in restarts that fail before clearLock.
GoesOn(n) == []<>(pc[n] \notin {"dead", "start", "held"})

\* A node whose daemon goes on does not own the lock for ever: what a dead daemon, a lost
\* answer or a late update leaves behind is released by clearLock or by the next run.
LockReleased == \A n \in Nodes : GoesOn(n) => (annotation = n ~> annotation # n)

\* An attempt to acquire ends once the deadline has passed, unless it is in a watch that
\* has got no timeout; and that one ends where no daemon keeps the lock.
Untimed(n) == pc[n] = "watch" /\ n \notin timed

AttemptEnds ==
    /\ \A n \in Nodes :
           pc[n] \in Acquiring /\ expired[n] ~> pc[n] \notin Acquiring \/ Untimed(n)
    /\ (\A m \in Nodes : GoesOn(m)) => \A n \in Nodes : Untimed(n) ~> ~Untimed(n)
=============================================================================
