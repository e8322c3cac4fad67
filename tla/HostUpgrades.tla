---------------------------- MODULE HostUpgrades ----------------------------
(****************************************************************************)
(* The life of the daemons on the nodes of a cluster: makeKube (kube.go)    *)
(* with what it finds of the previous daemon, the scheduled run of main.go  *)
(* with the upgrade unit, the drain and the reboot, and the host under it.  *)
(*                                                                          *)
(* A call of the lock is one step here: KubeLock is its protocol, and       *)
(* LockService is what both agree on.  So is an update of the Node object,  *)
(* with its retries.  A request that fails is applied, or not, or later, as *)
(* long as its object has not got a new version.  The daemon has --schedule *)
(* and is configured for kube.                                              *)
(****************************************************************************)
EXTENDS FiniteSets

CONSTANTS
    Nodes,    \* the nodes of the cluster, one daemon each
    Free,     \* the value of a lock that nobody holds
    Reboot,   \* --reboot
    Drain,    \* --drain
    Faults    \* the kinds of failure that may happen

FaultKinds ==
    {"kill",      \* the pod is stopped
     "reset",     \* the host goes down by itself and boots
     "api",       \* a request to the kube API fails
     "late",      \* a request that has got no answer is applied later
     "exec",      \* a request of Exec to systemd fails, up to the start of its unit
     "bus",       \* the D-Bus connection is lost while the unit is waited for
     "journal",   \* the unit's timestamp, journal or output cannot be read
     "upgrade",   \* the upgrade script exits with an error
     "evict",     \* kubectl drain fails
     "login",     \* login1 cannot be connected to
     "lost"}      \* login1 does not act on the reboot, which reports no error

ASSUME ConstantsAssumption ==
    /\ Free \notin Nodes
    /\ Reboot \in BOOLEAN
    /\ Drain \in BOOLEAN
    /\ Faults \subseteq FaultKinds

VARIABLES
    lock,            \* the lock annotation of the DaemonSet
    pc,              \* where each daemon is: the next step that it takes
    status,          \* what the upgrade of this run returned
    host,            \* "up", or "stopping" after a reboot was accepted
    unit,            \* the unit host-upgrades.service
    required,        \* whether the host mount has the file for a required reboot
    drained,         \* whether the node has the drain annotation
    unschedulable,   \* whether the node is cordoned
    mark,            \* the reboot annotation: "none", "pending", or "done" when
                     \*   the host has booted after its time
    upgrades,        \* the reason of the condition HostUpgrades
    reboots,         \* the reason of the condition HostUpgradesReboot
    lateLock,        \* <<n, v>>: an update of the lock by n to v without an answer,
                     \*   which the API server may still apply
    lateNode         \* <<n, label, status>>: likewise of the Node object of n

locks == <<lock, lateLock>>
daemon == <<pc, status>>
machine == <<host, unit, required>>
cordon == <<drained, unschedulable>>
conditions == <<upgrades, reboots>>
object == <<cordon, mark, conditions, lateNode>>
vars == <<locks, daemon, machine, object>>

Startup ==
    {"checkReboot", "setRebooted", "clearMark", "clearDrain", "testLock", "releaseLeft"}

\* Between AcquireLock's return and the call of ReleaseLock.
Critical ==
    {"start", "journal", "wait", "hung", "report", "drain", "cordon", "evict",
     "mark", "markCondition", "reboot", "rebooting"}

PCs == Startup \cup Critical \cup {"exited", "idle", "acquire", "release", "fail"}

\* The steps that update the Node object.
NodeCalls ==
    {"setRebooted", "clearMark", "clearDrain", "report", "drain", "mark", "markCondition"}

Statuses == [failed : BOOLEAN, required : BOOLEAN]

NoStatus == [failed |-> FALSE, required |-> FALSE]

Init ==
    /\ lock = Free
    /\ pc = [n \in Nodes |-> "exited"]
    /\ status = [n \in Nodes |-> NoStatus]
    /\ host = [n \in Nodes |-> "up"]
    /\ unit = [n \in Nodes |-> "inactive"]
    /\ required = [n \in Nodes |-> FALSE]
    /\ drained = [n \in Nodes |-> FALSE]
    /\ unschedulable = [n \in Nodes |-> FALSE]
    /\ mark = [n \in Nodes |-> "none"]
    /\ upgrades = [n \in Nodes |-> "none"]
    /\ reboots = [n \in Nodes |-> "none"]
    /\ lateLock = {}
    /\ lateNode = {}

Goto(n, label) == pc' = [pc EXCEPT ![n] = label]

\* A step that has no effect but to get to the next one.
Moves(n, label) ==
    /\ Goto(n, label)
    /\ UNCHANGED <<locks, status, machine, object>>

\* The process ends, and what it kept in memory with it.
Exit(n) ==
    /\ Goto(n, "exited")
    /\ status' = [status EXCEPT ![n] = NoStatus]

-----------------------------------------------------------------------------
(* The API server *)

\* A new version of the DaemonSet outdates what is on its way, likewise of the Node.
WriteLock(v) ==
    /\ lock' = v
    /\ lateLock' = IF v = lock THEN lateLock ELSE {}

\* An annotation that is not the node's own is left alone, with an error.
WriteFree(n) == WriteLock(IF lock = n THEN Free ELSE lock)

NewVersion(n) == lateNode' = {request \in lateNode : request[1] # n}

WriteRebooted(n) ==
    /\ reboots' = [reboots EXCEPT ![n] = "Rebooted"]
    /\ NewVersion(n)
    /\ UNCHANGED <<cordon, mark, upgrades>>

WriteUnmarked(n) ==
    /\ mark' = [mark EXCEPT ![n] = "none"]
    /\ IF mark[n] = "none" THEN UNCHANGED lateNode ELSE NewVersion(n)
    /\ UNCHANGED <<cordon, conditions>>

\* Mutant of WriteSchedulable: the annotation is cleared on its own.
WriteUnannotated(n) ==
    /\ drained' = [drained EXCEPT ![n] = FALSE]
    /\ IF drained[n] THEN NewVersion(n) ELSE UNCHANGED lateNode
    /\ UNCHANGED <<unschedulable, mark, conditions>>

\* SetSchedulableIfAnnotated: both fields are set in one update, or none.
WriteSchedulable(n) ==
    /\ drained' = [drained EXCEPT ![n] = FALSE]
    /\ unschedulable' = [unschedulable EXCEPT ![n] = @ /\ ~drained[n]]
    /\ IF drained[n] THEN NewVersion(n) ELSE UNCHANGED lateNode
    /\ UNCHANGED <<mark, conditions>>

UpgradeReason(result) ==
    IF result.failed THEN "UpgradeFailed"
    ELSE IF result.required THEN "RebootRequired" ELSE "UpToDate"

RebootReason(result) ==
    IF result.required THEN "RebootRequired"
    ELSE IF result.failed THEN "UpgradeFailed" ELSE "UpToDate"

WriteConditions(n, result) ==
    /\ upgrades' = [upgrades EXCEPT ![n] = UpgradeReason(result)]
    /\ reboots' = [reboots EXCEPT ![n] = RebootReason(result)]
    /\ NewVersion(n)
    /\ UNCHANGED <<cordon, mark>>

WriteDrained(n) ==
    /\ drained' = [drained EXCEPT ![n] = TRUE]
    /\ IF drained[n] THEN UNCHANGED lateNode ELSE NewVersion(n)
    /\ UNCHANGED <<unschedulable, mark, conditions>>

WriteMark(n) ==
    /\ mark' = [mark EXCEPT ![n] = "pending"]
    /\ NewVersion(n)
    /\ UNCHANGED <<cordon, conditions>>

WriteRebooting(n) ==
    /\ reboots' = [reboots EXCEPT ![n] = "Rebooting"]
    /\ NewVersion(n)
    /\ UNCHANGED <<cordon, mark, upgrades>>

\* The update that the daemon asks for at a step, with the status that it then has.
NodeUpdate(n, label, result) ==
    \/ label = "setRebooted" /\ WriteRebooted(n)
    \/ label = "clearMark" /\ WriteUnmarked(n)
    \/ label = "clearDrain" /\ WriteSchedulable(n)
    \/ label = "report" /\ WriteConditions(n, result)
    \/ label = "drain" /\ WriteDrained(n)
    \/ label = "mark" /\ WriteMark(n)
    \/ label = "markCondition" /\ WriteRebooting(n)

LockRequest(n) ==
    IF pc[n] = "acquire" /\ lock = Free THEN {<<n, n>>}
    ELSE IF pc[n] \in {"releaseLeft", "release", "fail"} /\ lock = n THEN {<<n, Free>>}
    ELSE {}

\* clearNodeDrain sends no update without the annotation.
NodeRequest(n) ==
    IF pc[n] \in NodeCalls /\ (pc[n] = "clearDrain" => drained[n])
    THEN {<<n, pc[n], status[n]>>} ELSE {}

\* The daemon does not wait any longer for an answer.
Abandon(n) ==
    /\ UNCHANGED <<lock, cordon, mark, conditions>>
    /\ \/ UNCHANGED <<lateLock, lateNode>>
       \/ /\ "late" \in Faults
          /\ lateLock' = lateLock \cup LockRequest(n)
          /\ lateNode' = lateNode \cup NodeRequest(n)

\* An error of the request that the daemon is at, whatever the server makes of it.
NoAnswer(n) ==
    \/ Abandon(n)
    \/ NodeUpdate(n, pc[n], status[n]) /\ UNCHANGED locks
    \/ pc[n] \in {"releaseLeft", "release", "fail"} /\ WriteFree(n) /\ UNCHANGED object
    \/ pc[n] = "acquire" /\ lock = Free /\ WriteLock(n) /\ UNCHANGED object

LateLock ==
    /\ \E request \in lateLock : WriteLock(request[2])
    /\ UNCHANGED <<daemon, machine, object>>

LateNode ==
    /\ \E request \in lateNode : NodeUpdate(request[1], request[2], request[3])
    /\ UNCHANGED <<locks, daemon, machine>>

-----------------------------------------------------------------------------
(* The start of a daemon: makeKube *)

Start(n) == pc[n] = "exited" /\ Moves(n, "checkReboot")

\* Mutants of CheckReboot: the drain is undone after a reboot only; the boot time is
\* not compared.
CheckRebootOnly(n) ==
    /\ pc[n] = "checkReboot"
    /\ \/ mark[n] = "none" /\ Moves(n, "testLock")
       \/ mark[n] = "pending" /\ Moves(n, "exited")
       \/ mark[n] = "done" /\ Moves(n, "setRebooted")

CheckMarkOnly(n) ==
    /\ pc[n] = "checkReboot"
    /\ Moves(n, IF mark[n] = "none" THEN "clearDrain" ELSE "setRebooted")

\* A daemon that finds its host not rebooted since the mark exits.
CheckReboot(n) ==
    /\ pc[n] = "checkReboot"
    /\ \/ mark[n] = "none" /\ Moves(n, "clearDrain")
       \/ mark[n] = "pending" /\ Moves(n, "exited")
       \/ mark[n] = "done" /\ Moves(n, "setRebooted")

SetRebooted(n) ==
    /\ pc[n] = "setRebooted"
    /\ Goto(n, "clearMark")
    /\ WriteRebooted(n)
    /\ UNCHANGED <<locks, status, machine>>

\* Mutant of SetRebootedFails: the annotation is cleared all the same.
SetRebootedFailsOn(n) ==
    /\ pc[n] = "setRebooted"
    /\ Goto(n, "clearMark")
    /\ NoAnswer(n)
    /\ UNCHANGED <<status, machine>>

\* The error is logged only, and the annotation stays.
SetRebootedFails(n) ==
    /\ pc[n] = "setRebooted"
    /\ Goto(n, "clearDrain")
    /\ NoAnswer(n)
    /\ UNCHANGED <<status, machine>>

ClearMark(n) ==
    /\ pc[n] = "clearMark"
    /\ Goto(n, "clearDrain")
    /\ WriteUnmarked(n)
    /\ UNCHANGED <<locks, status, machine>>

ClearDrain(n) ==
    /\ pc[n] = "clearDrain"
    /\ Goto(n, "testLock")
    /\ WriteSchedulable(n)
    /\ UNCHANGED <<locks, status, machine>>

\* Mutant of TestLock: a lock that the node has is an error.
TestLockTaken(n) ==
    pc[n] = "testLock" /\ Moves(n, IF lock = n THEN "exited" ELSE "idle")

TestLock(n) ==
    pc[n] = "testLock" /\ Moves(n, IF lock = n THEN "releaseLeft" ELSE "idle")

ReleaseLeft(n) ==
    /\ pc[n] = "releaseLeft"
    /\ Goto(n, IF lock = n THEN "idle" ELSE "exited")
    /\ WriteFree(n)
    /\ UNCHANGED <<status, machine, object>>

\* Any other error of the start ends the process.
StartupFails(n) ==
    /\ pc[n] \in Startup \ {"setRebooted"}
    /\ Exit(n)
    /\ NoAnswer(n)
    /\ UNCHANGED machine

Makes(n) ==
    \/ Start(n) \/ CheckReboot(n) \/ SetRebooted(n) \/ ClearMark(n)
    \/ ClearDrain(n) \/ TestLock(n) \/ ReleaseLeft(n)

MakeFaults(n) ==
    "api" \in Faults /\ (SetRebootedFails(n) \/ StartupFails(n))

-----------------------------------------------------------------------------
(* A scheduled run: the lock and the upgrade *)

Trigger(n) == pc[n] = "idle" /\ Moves(n, "acquire")

\* Mutant of AcquireLock: a lock that is taken is overwritten.
AcquireTaken(n) ==
    /\ pc[n] = "acquire"
    /\ WriteLock(n)
    /\ Goto(n, "start")
    /\ UNCHANGED <<status, machine, object>>

AcquireLock(n) ==
    /\ pc[n] = "acquire"
    /\ lock \in {Free, n}
    /\ WriteLock(n)
    /\ Goto(n, "start")
    /\ UNCHANGED <<status, machine, object>>

\* The error is logged only, and the daemon tries again.
AcquireFails(n) ==
    /\ pc[n] = "acquire"
    /\ NoAnswer(n)
    /\ UNCHANGED <<daemon, machine>>

\* The deadline passes between two attempts.
AcquireExpires(n) ==
    /\ pc[n] = "acquire"
    /\ Exit(n)
    /\ UNCHANGED <<locks, machine, object>>

\* Upgrade returns an error.
UpgradeError(n, rebootRequired) ==
    /\ Goto(n, "report")
    /\ status' = [status EXCEPT ![n] = [failed |-> TRUE, required |-> rebootRequired]]

\* Upgrade returns with what the script left in the mount.
Upgraded(n) ==
    /\ Goto(n, "report")
    /\ status' = [status EXCEPT ![n] = [failed |-> FALSE, required |-> required[n]]]

ExecStart(n) ==
    /\ pc[n] = "start"
    /\ unit[n] # "running"
    /\ host[n] = "up"
    /\ Goto(n, "journal")
    /\ unit' = [unit EXCEPT ![n] = "running"]
    /\ UNCHANGED <<locks, status, host, required, object>>

\* systemd refuses a unit that runs already, and any unit while it shuts down.
ExecRefused(n) ==
    /\ pc[n] = "start"
    /\ unit[n] = "running" \/ host[n] = "stopping"
    /\ UpgradeError(n, FALSE)
    /\ UNCHANGED <<locks, machine, object>>

\* No connection, no reset of a failed unit, or no answer to the start.
ExecFails(n) ==
    /\ pc[n] = "start"
    /\ UpgradeError(n, FALSE)
    /\ \/ UNCHANGED unit
       \/ /\ unit[n] # "running" /\ host[n] = "up"
          /\ unit' = [unit EXCEPT ![n] = "running"]
    /\ UNCHANGED <<locks, host, required, object>>

OpenJournal(n) == pc[n] = "journal" /\ Moves(n, "wait")

\* Exec returns, and its unit goes on.
OpenJournalFails(n) ==
    /\ pc[n] = "journal"
    /\ UpgradeError(n, FALSE)
    /\ UNCHANGED <<locks, machine, object>>

\* Mutant of Wait: the end of the job is not waited for.
WaitNot(n) ==
    /\ pc[n] = "wait"
    /\ Upgraded(n)
    /\ UNCHANGED <<locks, machine, object>>

\* The unit's job ends.
Wait(n) ==
    /\ pc[n] = "wait"
    /\ unit[n] # "running"
    /\ \/ unit[n] = "failed" /\ UpgradeError(n, FALSE)
       \/ unit[n] # "failed" /\ Upgraded(n)
    /\ UNCHANGED <<locks, machine, object>>

\* On CentOS the error may come with the required reboot in the status.
ReadOutputFails(n) ==
    /\ pc[n] = "wait"
    /\ unit[n] # "running"
    /\ \E rebootRequired \in BOOLEAN :
           /\ rebootRequired => unit[n] = "inactive" /\ required[n]
           /\ UpgradeError(n, rebootRequired)
    /\ UNCHANGED <<locks, machine, object>>

\* Without its connection the daemon waits for a signal that never comes.
WaitHangs(n) == pc[n] = "wait" /\ Moves(n, "hung")

\* The script of the upgrade, which may find that a reboot is required.
UnitDone(n) ==
    /\ unit[n] = "running"
    /\ unit' = [unit EXCEPT ![n] = "inactive"]
    /\ \E stamp \in BOOLEAN :
           (required[n] => stamp) /\ required' = [required EXCEPT ![n] = stamp]
    /\ UNCHANGED <<locks, daemon, host, object>>

UnitFails(n) ==
    /\ unit[n] = "running"
    /\ unit' = [unit EXCEPT ![n] = "failed"]
    /\ UNCHANGED <<locks, daemon, host, required, object>>

\* Mutant of AfterUpgrade: --drain is not looked at.
AfterUpgradeUndrained(result) ==
    IF result.failed THEN "fail"
    ELSE IF ~(Reboot /\ result.required) THEN "release" ELSE "reboot"

AfterUpgrade(result) ==
    IF result.failed THEN "fail"
    ELSE IF ~(Reboot /\ result.required) THEN "release"
    ELSE IF Drain THEN "drain" ELSE "reboot"

\* Mutant of UpdateHostStatus: the next run starts with the status of this one.
ReportKeepsStatus(n) ==
    /\ pc[n] = "report"
    /\ WriteConditions(n, status[n])
    /\ Goto(n, AfterUpgrade(status[n]))
    /\ UNCHANGED <<locks, status, machine>>

UpdateHostStatus(n) ==
    /\ pc[n] = "report"
    /\ WriteConditions(n, status[n])
    /\ Goto(n, AfterUpgrade(status[n]))
    /\ status' = [status EXCEPT ![n] = NoStatus]
    /\ UNCHANGED <<locks, machine>>

\* The error is logged only.
ReportFails(n) ==
    /\ pc[n] = "report"
    /\ NoAnswer(n)
    /\ Goto(n, AfterUpgrade(status[n]))
    /\ status' = [status EXCEPT ![n] = NoStatus]
    /\ UNCHANGED machine

Upgrades(n) ==
    \/ Trigger(n) \/ AcquireLock(n) \/ AcquireExpires(n)
    \/ ExecStart(n) \/ ExecRefused(n) \/ OpenJournal(n) \/ Wait(n) \/ UpdateHostStatus(n)

UpgradeFaults(n) ==
    \/ "api" \in Faults /\ (AcquireFails(n) \/ ReportFails(n))
    \/ "exec" \in Faults /\ ExecFails(n)
    \/ "journal" \in Faults /\ (OpenJournalFails(n) \/ ReadOutputFails(n))
    \/ "bus" \in Faults /\ WaitHangs(n)
    \/ "upgrade" \in Faults /\ UnitFails(n)

-----------------------------------------------------------------------------
(* The drain and the reboot *)

AnnotateDrain(n) ==
    /\ pc[n] = "drain"
    /\ Goto(n, "cordon")
    /\ WriteDrained(n)
    /\ UNCHANGED <<locks, status, machine>>

\* kubectl drain, in two steps
Cordon(n) ==
    /\ pc[n] = "cordon"
    /\ Goto(n, "evict")
    /\ unschedulable' = [unschedulable EXCEPT ![n] = TRUE]
    /\ NewVersion(n)
    /\ UNCHANGED <<locks, status, machine, drained, mark, conditions>>

Evict(n) == pc[n] = "evict" /\ Moves(n, "mark")

DrainFails(n) == pc[n] \in {"cordon", "evict"} /\ Moves(n, "fail")

MarkReboot(n) ==
    /\ pc[n] = "mark"
    /\ Goto(n, "markCondition")
    /\ WriteMark(n)
    /\ UNCHANGED <<locks, status, machine>>

MarkCondition(n) ==
    /\ pc[n] = "markCondition"
    /\ Goto(n, "reboot")
    /\ WriteRebooting(n)
    /\ UNCHANGED <<locks, status, machine>>

\* An error of DrainNode or MarkReboot ends the run.
PrepareFails(n) ==
    /\ pc[n] \in {"drain", "mark", "markCondition"}
    /\ Goto(n, "fail")
    /\ NoAnswer(n)
    /\ UNCHANGED <<status, machine>>

RebootHost(n) ==
    /\ pc[n] = "reboot"
    /\ Goto(n, "rebooting")
    /\ host' = [host EXCEPT ![n] = "stopping"]
    /\ UNCHANGED <<locks, status, unit, required, object>>

RebootLost(n) == pc[n] = "reboot" /\ Moves(n, "rebooting")

RebootFails(n) == pc[n] = "reboot" /\ Moves(n, "fail")

\* Mutant of RebootTimeout: the lock is released as after a failure.
RebootTimeoutReleases(n) ==
    /\ pc[n] = "rebooting"
    /\ Exit(n)
    /\ WriteFree(n)
    /\ UNCHANGED <<machine, object>>

\* --reboot-timeout has passed: the process ends, with the lock held.
RebootTimeout(n) ==
    /\ pc[n] = "rebooting"
    /\ Exit(n)
    /\ UNCHANGED <<locks, machine, object>>

Reboots(n) ==
    \/ AnnotateDrain(n) \/ Cordon(n) \/ Evict(n) \/ MarkReboot(n)
    \/ MarkCondition(n) \/ RebootHost(n) \/ RebootTimeout(n)

RebootFaults(n) ==
    \/ "api" \in Faults /\ PrepareFails(n)
    \/ "evict" \in Faults /\ DrainFails(n)
    \/ "lost" \in Faults /\ RebootLost(n)
    \/ "login" \in Faults /\ RebootFails(n)

-----------------------------------------------------------------------------
(* The end of a run, of a daemon and of a host *)

ReleaseLock(n) ==
    /\ pc[n] = "release"
    /\ WriteFree(n)
    /\ Goto(n, IF lock = n THEN "idle" ELSE "exited")
    /\ UNCHANGED <<status, machine, object>>

\* The run fails: log.Fatalf, after the lock has been released.
Fail(n) ==
    /\ pc[n] = "fail"
    /\ WriteFree(n)
    /\ Exit(n)
    /\ UNCHANGED <<machine, object>>

ReleaseFails(n) ==
    /\ pc[n] \in {"release", "fail"}
    /\ NoAnswer(n)
    /\ Exit(n)
    /\ UNCHANGED machine

Kill(n) ==
    /\ pc[n] # "exited"
    /\ Exit(n)
    /\ Abandon(n)
    /\ UNCHANGED machine

\* An update of the Node does not get past a boot: the kubelet of the host that is up
\* again updates its Node before it runs the daemon.
Forget(n) ==
    /\ NewVersion(n)
    /\ lateLock' \in {lateLock} \cup
           (IF "late" \in Faults THEN {lateLock \cup LockRequest(n)} ELSE {})
    /\ UNCHANGED lock

\* Mutants of Boot: the mount keeps its files; the boot time cannot be read.
BootKeepsFiles(n) ==
    /\ Exit(n)
    /\ host' = [host EXCEPT ![n] = "up"]
    /\ unit' = [unit EXCEPT ![n] = "inactive"]
    /\ mark' = [mark EXCEPT ![n] = IF @ = "pending" THEN "done" ELSE @]
    /\ Forget(n)
    /\ UNCHANGED <<required, cordon, conditions>>

BootUnread(n) ==
    /\ Exit(n)
    /\ host' = [host EXCEPT ![n] = "up"]
    /\ unit' = [unit EXCEPT ![n] = "inactive"]
    /\ required' = [required EXCEPT ![n] = FALSE]
    /\ Forget(n)
    /\ UNCHANGED <<cordon, mark, conditions>>

\* The mount is under /run, so the file for a required reboot is gone.
Boot(n) ==
    /\ Exit(n)
    /\ host' = [host EXCEPT ![n] = "up"]
    /\ unit' = [unit EXCEPT ![n] = "inactive"]
    /\ required' = [required EXCEPT ![n] = FALSE]
    /\ mark' = [mark EXCEPT ![n] = IF @ = "pending" THEN "done" ELSE @]
    /\ Forget(n)
    /\ UNCHANGED <<cordon, conditions>>

HostBoots(n) == host[n] = "stopping" /\ Boot(n)

HostResets(n) == host[n] = "up" /\ Boot(n)

Ends(n) == ReleaseLock(n) \/ Fail(n)

EndFaults(n) ==
    \/ "api" \in Faults /\ ReleaseFails(n)
    \/ "reset" \in Faults /\ HostResets(n)

Step(n) == Makes(n) \/ Upgrades(n) \/ Reboots(n) \/ Ends(n)

Fault(n) ==
    \/ MakeFaults(n) \/ UpgradeFaults(n) \/ RebootFaults(n) \/ EndFaults(n)
    \/ "kill" \in Faults /\ host[n] = "up" /\ Kill(n)

Action(n) ==
    \/ Step(n) \/ UnitDone(n) \/ HostBoots(n) \/ Fault(n)
    \/ host[n] = "stopping" /\ Kill(n)

Next == (\E n \in Nodes : Action(n)) \/ LateLock \/ LateNode

Spec == Init /\ [][Next]_vars
-----------------------------------------------------------------------------
(* Safety *)

\* A status is kept from the end of the upgrade to its report.
TypeOK ==
    /\ lock \in Nodes \cup {Free}
    /\ pc \in [Nodes -> PCs]
    /\ status \in [Nodes -> Statuses]
    /\ \A n \in Nodes : pc[n] # "report" => status[n] = NoStatus
    /\ host \in [Nodes -> {"up", "stopping"}]
    /\ unit \in [Nodes -> {"inactive", "running", "failed"}]
    /\ required \in [Nodes -> BOOLEAN]
    /\ drained \in [Nodes -> BOOLEAN]
    /\ unschedulable \in [Nodes -> BOOLEAN]
    /\ mark \in [Nodes -> {"none", "pending", "done"}]
    /\ upgrades \in [Nodes -> {"none", "UpgradeFailed", "RebootRequired", "UpToDate"}]
    /\ reboots \in [Nodes -> {"none", "UpgradeFailed", "RebootRequired", "UpToDate",
                              "Rebooting", "Rebooted"}]
    /\ lateLock \subseteq Nodes \X (Nodes \cup {Free})
    /\ lateNode \subseteq Nodes \X NodeCalls \X Statuses

\* From AcquireLock to the end of ReleaseLock the node owns the lock, whichever
\* step fails, and whenever the daemon and the host go down (main.go, run).
LockGuards ==
    \A n \in Nodes : pc[n] \in Critical \cup {"release", "fail"} => lock = n

\* A daemon waits for its schedule, or for the lock, in a good state only: its node is
\* in service, and the reboot that it announced has happened, with nothing left of the
\* drain.  An update that is applied late may still leave an annotation.
ReadyIsClean ==
    \A n \in Nodes :
        pc[n] \in {"idle", "acquire"} =>
            /\ ~unschedulable[n]
            /\ "late" \notin Faults => mark[n] # "pending" /\ ~drained[n]

\* The lock is held until the host has rebooted (README.md: "This lock is also held
\* during a reboot"), also by a daemon that is restarted in the meantime.
LockHeldDuringReboot ==
    \A n \in Nodes : host[n] = "stopping" => lock = n

\* A node that is said to be rebooting has the annotation by which a later daemon
\* knows it, and takes it back: MarkReboot and clearNodeReboot, cut off anywhere.
RebootingIsMarked ==
    \A n \in Nodes : reboots[n] = "Rebooting" => mark[n] # "none"

\* No node is left cordoned without the annotation by which it is uncordoned.
CordonIsAnnotated ==
    \A n \in Nodes : unschedulable[n] => drained[n]

\* A host is rebooted with the lock held, when an upgrade requires it, never under
\* an upgrade, and with --drain when it is drained and marked.
RebootIsReady ==
    \A n \in Nodes :
        host[n] = "up" /\ host'[n] = "stopping" =>
            /\ lock = n
            /\ Reboot /\ required[n]
            /\ unit[n] # "running"
            /\ Drain => unschedulable[n] /\ mark[n] = "pending"

RebootsWhenReady == [][RebootIsReady]_vars

\* The daemons use the lock as LockService has it, which KubeLock implements.
Service ==
    INSTANCE LockService
        WITH owner <- lock, inside <- {n \in Nodes : pc[n] \in Critical}

UsesLockService == Service!Spec

\* On every node the mark of a reboot is used as RebootMark has it, which the times of
\* RebootClock implement: no daemon gets past the mark of a reboot to come, and none
\* clears it, unless the mark itself came late (clearNodeReboot, MarkReboot).
MarkService(n) ==
    INSTANCE RebootMark
        WITH mark <- mark[n], past <- pc[n] \notin {"exited", "checkReboot"},
             MayBeLate <- "late" \in Faults

UsesRebootMark ==
    /\ \A n \in Nodes : MarkService(n)!Init
    /\ [][\A n \in Nodes : [MarkService(n)!Next]_(MarkService(n)!vars)]_vars

\* On every node the upgrade is the call of UpgradeService, which UpgradeUnit
\* implements: the report is that of a unit which the call has started, and which is
\* done, whatever is left of an earlier daemon.
UpgradePhase(n) ==
    CASE pc[n] = "start" -> "called"
      [] pc[n] \in {"journal", "wait", "hung"} -> "awaits"
      [] pc[n] = "report" -> "returned"
      [] OTHER -> "out"

UpgradeCall(n) ==
    INSTANCE UpgradeService
        WITH phase <- UpgradePhase(n), result <- status[n], unit <- unit[n],
             required <- required[n]

UsesUpgradeService ==
    /\ \A n \in Nodes : UpgradeCall(n)!Init
    /\ [][\A n \in Nodes : [UpgradeCall(n)!Next]_(UpgradeCall(n)!vars)]_vars

\* The Node object changes by one call of NodeService at a time, the one that kube.go
\* makes at that point or one that it made and gave up, and kubectl changes what is not
\* the daemon's: NodeObject may stand for each of these updates.
Annotations(n) ==
    (IF drained[n] THEN {"drain"} ELSE {}) \cup (IF mark[n] = "none" THEN {} ELSE {"reboot"})

ConditionReasons(n) == [HostUpgrades |-> upgrades[n], HostUpgradesReboot |-> reboots[n]]

NodeOf(n) ==
    [annotations |-> Annotations(n), reasons |-> ConditionReasons(n),
     unschedulable |-> unschedulable[n], ready |-> TRUE]

NodeChanges ==
    {[HostUpgradesReboot |-> reason] : reason \in {"Rebooting", "Rebooted"}}
        \cup [HostUpgrades : {"UpgradeFailed", "RebootRequired", "UpToDate"},
              HostUpgradesReboot : {"UpgradeFailed", "RebootRequired", "UpToDate"}]

CallAt(label, result) ==
    CASE label = "setRebooted" -> <<"SetCondition", [HostUpgradesReboot |-> "Rebooted"]>>
      [] label = "clearMark" -> <<"ClearAnnotation", "reboot">>
      [] label = "clearDrain" -> <<"SetSchedulableIfAnnotated", "drain">>
      [] label = "report" ->
             <<"SetCondition", [HostUpgrades |-> UpgradeReason(result),
                                HostUpgradesReboot |-> RebootReason(result)]>>
      [] label = "drain" -> <<"SetAnnotation", "drain">>
      [] label = "mark" -> <<"SetAnnotation", "reboot">>
      [] label = "markCondition" ->
             <<"SetCondition", [HostUpgradesReboot |-> "Rebooting"]>>

\* The call that the daemon is in, and those that it has given up.
CallsOf(n) ==
    {CallAt(request[2], request[3]) :
        request \in {r \in lateNode : r[1] = n}
            \cup (IF pc[n] \in NodeCalls THEN {<<n, pc[n], status[n]>>} ELSE {})}

Node(n) ==
    INSTANCE NodeService
        WITH Keys <- {"drain", "reboot"},
             Conditions <- {"HostUpgrades", "HostUpgradesReboot"},
             Reasons <- {"none", "UpgradeFailed", "RebootRequired", "UpToDate",
                         "Rebooting", "Rebooted"},
             Changes <- NodeChanges, object <- NodeOf(n), call <- <<"none", "none">>,
             result <- "none", late <- {}

NodeStep(n) ==
    \/ UNCHANGED NodeOf(n)
    \/ \E call \in CallsOf(n) :
           /\ call \in Node(n)!Calls
           /\ NodeOf(n)' = Node(n)!Effect(call, NodeOf(n))
    \/ pc[n] = "cordon" /\ NodeOf(n)' \in Node(n)!Others(NodeOf(n))

UsesNodeService == [][\A n \in Nodes : NodeStep(n)]_vars

\* The start of a daemon up to the end of clearNodeDrain, or no daemon at all.
Recovering == {"exited", "checkReboot", "setRebooted", "clearMark", "clearDrain"}

\* With --drain the cluster as its operator sees it, through all failures: no node goes
\* down undrained or without the lock, and the lock is never freed under a host that
\* goes down, nor under a drained node unless a step of its own run has failed.
Availability(n) ==
    IF host[n] = "stopping" THEN "rebooting"
    ELSE IF unschedulable[n] THEN "drained" ELSE "serving"

RunFaults == Faults \cap {"api", "evict", "login"}

Rolling ==
    INSTANCE RollingReboot
        WITH owner <- lock, nodes <- [n \in Nodes |-> Availability(n)],
             MayGiveUp <- RunFaults # {}

ImplementsRollingReboot == Rolling!Spec

\* Two nodes are out of service at the same time only when the run of one has failed
\* after its drain, gave the lock up, and its next daemon is not past clearNodeDrain
\* (main.go: "bad idea to release the lock with the node drained?").
OneNodeUnavailable ==
    LET unavailable == {n \in Nodes : Availability(n) # "serving"}
        GaveUp(n) == lock # n /\ pc[n] \in Recovering
    IN  \A m, n \in unavailable : m = n \/ (RunFaults # {} /\ (GaveUp(m) \/ GaveUp(n)))

\* README.md: "ensuring that only one host upgrades at a time".  Exec lets go of its
\* unit when the daemon is killed, when the journal cannot be opened, and when the
\* answer to the start is lost.
OneHostUpgrades ==
    \A m, n \in Nodes : unit[m] = "running" /\ unit[n] = "running" => m = n

\* Between runs the conditions deny a required reboot, HostUpgradesReboot by False and
\* HostUpgrades by True, only on a host that requires none (README.md).
SaysNotRequired(n) ==
    reboots[n] \in {"UpToDate", "Rebooted"} \/ upgrades[n] = "UpToDate"

ConditionsMatchHost ==
    \A n \in Nodes : pc[n] \in {"idle", "acquire"} /\ SaysNotRequired(n) => ~required[n]

\* A mark whose reboot is still to come has a host that goes down, or a daemon that is
\* about to ask for it: no daemon is left to the fail-loop of main.go, in which it exits
\* for a reboot that nobody asks for any more.
PendingMeansReboot ==
    \A n \in Nodes :
        mark[n] = "pending" => host[n] = "stopping" \/ pc[n] \in {"markCondition", "reboot"}

-----------------------------------------------------------------------------
(* The inductive invariant of these properties *)

\* Past clearNodeDrain, and up to the next drain.
Settled ==
    {"testLock", "releaseLeft", "idle", "acquire", "start", "journal", "wait", "hung",
     "report", "drain", "release"}

SettledIsClean ==
    \A n \in Nodes : pc[n] \in Settled \cup {"cordon"} => ~unschedulable[n]

\* Without late updates nothing comes back of a drain that was undone, and a daemon
\* with an announced reboot that has not happened is about to ask for it, waits for it,
\* has failed, or is one that gets no further than clearNodeReboot.
NothingIsLate ==
    "late" \notin Faults =>
        /\ lateLock = {} /\ lateNode = {}
        /\ \A n \in Nodes :
               /\ pc[n] \in Settled => ~drained[n]
               /\ mark[n] = "pending" =>
                      pc[n] \in {"exited", "checkReboot", "markCondition", "reboot",
                                "rebooting", "fail"}

\* A late update takes a lock that is free for a node that is in service, or frees the
\* lock of a node whose daemon has not got past clearLock.
LateLockIsOwn ==
    \A request \in lateLock :
        LET n == request[1] IN
        \/ request[2] = n /\ lock = Free /\ ~unschedulable[n]
        \/ /\ request[2] = Free /\ lock = n
           /\ pc[n] \in {"exited"} \cup Startup
           /\ unschedulable[n] => RunFaults # {}

\* Cordoning outdates what is left of earlier runs, and no update that is left takes
\* back the drain or the mark of a run that goes on.
LateNodeIsOld ==
    \A request \in lateNode :
        LET n == request[1]
            label == request[2]
        IN  /\ pc[n] \notin {"evict", "mark", "markCondition"}
            /\ Drain => pc[n] \notin {"reboot", "rebooting"}
            /\ label = "clearDrain" => drained[n] /\ pc[n] \in Recovering
            /\ label = "clearMark" => reboots[n] # "Rebooting"
            /\ label = "markCondition" =>
                   mark[n] = "pending" /\ pc[n] \in {"fail", "exited", "checkReboot"}

\* What each step from the report to the reboot has made sure of.
PreparedInOrder ==
    \A n \in Nodes :
        /\ pc[n] = "report" /\ ~status[n].failed /\ status[n].required
               => required[n] /\ unit[n] # "running"
        /\ pc[n] \in {"drain", "cordon", "evict", "mark", "markCondition", "reboot"}
               => Reboot /\ required[n] /\ unit[n] # "running"
        /\ pc[n] \in {"cordon", "evict"} => drained[n]
        /\ pc[n] \in {"evict", "mark", "markCondition"} => unschedulable[n]
        /\ pc[n] = "markCondition" => mark[n] = "pending"
        /\ pc[n] = "reboot" /\ Drain => unschedulable[n] /\ mark[n] = "pending"

\* With --drain no daemon gets past a host that is still to reboot.
StoppingIsPending ==
    Drain =>
        \A n \in Nodes :
            host[n] = "stopping" =>
                /\ lock = n
                /\ unschedulable[n] /\ mark[n] = "pending"
                /\ pc[n] \in {"exited", "checkReboot", "rebooting"}
                /\ <<n, Free>> \notin lateLock
                /\ \A request \in lateNode : request[1] # n

\* A run that fails with its node drained has failed in a step after the upgrade.
FailureIsUndrained ==
    RunFaults = {} => \A n \in Nodes : pc[n] = "fail" => ~unschedulable[n]

\* No upgrade runs into a shutdown that the daemon has asked for.
StoppingHasNoUnit ==
    \A n \in Nodes : host[n] = "stopping" => unit[n] # "running"

\* Only a death or a failure of Exec separates a unit from its daemon.
UnitIsAwaited ==
    Faults \cap {"kill", "journal", "exec"} = {} =>
        \A n \in Nodes : unit[n] = "running" => pc[n] \in {"journal", "wait", "hung"}

\* clearNodeReboot sets the condition before it clears the annotation.
MarkGoesLast ==
    \A n \in Nodes : pc[n] = "clearMark" => reboots[n] # "Rebooting"

\* Every step of every daemon, under every fault, keeps this.
HostInv ==
    /\ LockGuards
    /\ CordonIsAnnotated
    /\ SettledIsClean
    /\ NothingIsLate
    /\ LateLockIsOwn
    /\ LateNodeIsOld
    /\ PreparedInOrder
    /\ StoppingIsPending
    /\ FailureIsUndrained
    /\ StoppingHasNoUnit
    /\ UnitIsAwaited
    /\ RebootingIsMarked
    /\ MarkGoesLast

-----------------------------------------------------------------------------
(* Liveness *)

\* The kubelet restarts the daemon, the upgrade ends, requests are answered, a host
\* that goes down boots.  The wait for the lock ends with it or with its deadline.
Fairness ==
    \A n \in Nodes :
        /\ WF_vars(Step(n))
        /\ WF_vars(UnitDone(n))
        /\ WF_vars(HostBoots(n))

FairSpec == Spec /\ Fairness

\* From some time on there are only steps that also happen without faults.
FaultsCease == <>[][\A n \in Nodes : Fault(n) => Step(n)]_vars

\* Once nothing fails any more every daemon gets back to its schedule, which it does
\* with its node in service only (ReadyIsClean): no failure leaves it in a loop of
\* restarts.
ReturnsToIdle ==
    FaultsCease => \A n \in Nodes : pc[n] # "idle" ~> pc[n] = "idle"

\* kube.go, makeKube: "we do not want to leave the node drained in case of errors".
DrainIsUndone ==
    FaultsCease => \A n \in Nodes : drained[n] ~> ~drained[n]
=============================================================================
