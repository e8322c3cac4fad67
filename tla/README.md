# Specifications of pharos-host-upgrades

`pharos-host-upgrades` is a daemon that runs on every node of a Kubernetes cluster
(a DaemonSet). On a schedule it takes a lock of the cluster, runs the package upgrade
of its host, reports the result on the Node object, and where the upgrade requires it
drains the node and reboots the host. This directory holds TLA+ specifications of that
daemon, the TLC runs that check them on small clusters, and TLAPS proofs for every
cluster. Sources are named relative to `src/`.

## The system

| Component | State it keeps | Operations | Modelled by |
|---|---|---|---|
| Kube lock, `kube/lock.go` | an annotation of the DaemonSet object; a copy of the object per request | `Test`, `Acquire` (get, watch, update), `Release` (get, update), retried on conflict | `KubeLock` |
| Daemon, `main.go`, `kube.go` | its place in the run; the status of the run; the lock; annotations, cordon and conditions of its Node | `makeKube` with `clearNodeReboot`, `clearNodeDrain`, `clearLock`; `AcquireLock`, `Upgrade`, `UpdateHostStatus`, `DrainNode`, `MarkReboot`, `Reboot`, `ReleaseLock` | `HostUpgrades` |
| Node object, `kube/node.go` | annotations, `spec.unschedulable`, conditions | `SetAnnotation`, `ClearAnnotation`, `SetSchedulableIfAnnotated`, `SetCondition`, each with `RetryOnConflict` | `NodeObject`; one step each in `HostUpgrades` |
| Conditions, `kube_conditions.go` | none | a status and an error to two conditions | `UpgradeReason`, `RebootReason` |
| Upgrade unit, `systemd/exec.go` | the transient unit `host-upgrades.service` of the host's systemd | reset, start, wait, read the journal | `UpgradeUnit`; `ExecStart` ... `UnitFails` in `HostUpgrades` |
| Hosts, `hosts/*` | the script, configuration and output files and the stamp for a required reboot, in a mount under `/run` | `Probe`, `Config`, `Upgrade`, `Reboot` | `UpgradeUnit`, `RebootClock`; `Upgraded`, `UnitDone`, `Boot` in `HostUpgrades` |
| Reboot, `systemd/reboot.go` | none | a request to login1 | `RebootHost`, `RebootLost`, `RebootFails` |
| Boot time, `proc/stat.go` | none | reads `btime` | `RebootClock`; the value of `mark` in `HostUpgrades` |
| kubectl, `kubectl/*` | none (external program) | cordon, then evict | `Cordon`, `Evict`, `DrainFails` |
| Scheduler, `scheduler.go` | an unbuffered channel; a context with a deadline | `trigger`, `run` | `Trigger`; `Start` and `DeadlinePasses` of `KubeLock` |
| Host files, `hosts/config.go` | files of the mount | copy to a temporary file, rename | `UpgradeUnit` |
| Options, clients, journal, deployment | none after the start | | not modelled |

How they interact. The scheduler calls the run of `main.go`, with the deadline of
`--schedule-window` in its context. The run calls the lock, then the host, whose
upgrade is a unit of systemd and not a child of the daemon, then the Node object, then
login1. Three things outlive a daemon: the objects at the API server (lock, Node), the
unit, and the host. `makeKube` in the next daemon on the node puts them right, in the
order reboot, drain, lock. Daemons of different nodes meet in the lock only.

What is hard here, and what makes each component correct:

- The lock is a compare-and-swap on an object that others write too. Conflicts, watch
  events that are outdated when they are used, and updates whose answer is lost must
  not give it to two daemons, nor put one to sleep that nobody wakes.
- The lock has no lease. Every path of every failure has to free it, or leave it to a
  daemon that restarts on the same node and to no other.
- A daemon may die at any point: with its unit running, between the drain annotation
  and the cordon, between the reboot annotation and the reboot, while the host goes
  down. The next one knows only what is on the Node object and the boot time.
- Most calls may fail, applied or not. Some errors are returned, some are logged only.
- The host changes on its own: it may reset, and then the stamp and the unit are gone.
- The Node object is written by the kubelet every few seconds, and by kubectl. A call
  gets a few attempts only, and one that failed may still have its effect.
- Whether the host has rebooted is told from two times of one clock, of which one has
  whole seconds, and which may be set between the two.
- The unit of a daemon that has died goes on, with the files of that daemon, while the
  next one writes the same paths and wants a unit of the same name.

`PROJECT.json` lists each of these hazards at its line, with the properties that watch
it or the reason why none does.

## Modules

                                RollingReboot
                                      ^
             +---------------- HostUpgrades -----------+----------------+
             |                     |                   |                |
             v                     v                   v                v
        LockService         UpgradeService        RebootMark       NodeService
             ^                     ^                   ^                ^
         KubeLock             UpgradeUnit         RebootClock       NodeObject

An arrow is a refinement, checked by TLC and proved with TLAPS. The services are
abstract: what a caller relies on. Those of the last line are the components in detail,
and `HostUpgrades` composes the daemons of all nodes, which use lock, upgrade, mark and
Node as the services have them. What the cluster gets of it is `RollingReboot`. Every
component has a module with its name and `Proofs`, and one with `MC` before its name for
TLC; `RollingReboot`, which has its own proofs, is checked as a property of
`HostUpgrades`.

**LockService** is the abstract lock. The owner is a node, not a process. It says that
a daemon enters when the lock is free or its node's own, that a node may become the
owner with no daemon told (a lost answer), and that only the owner frees the lock, and
never under its daemon.

**KubeLock** is `kube/lock.go` with its callers in `kube.go`, request by request. A
step is one answer of the API server, or one test of the context. Versions of the
object are compared for equality only, so instead of numbers the model keeps which
copies are current (`fresh`), and which updates without an answer still carry the
current version (`late`): `NewVersion` makes all others outdated. A watch starts at
the version of the get before it and returns its first event with an available lock;
`Following` and `NewVersion` give it exactly that. `OtherUpdate` stands for all other
writers of the DaemonSet, and makes conflicts. A daemon may die at every step, and
`ClearLock` is what the next one does with a lock it finds its own, if it gets there:
before it are `clearNodeReboot` and `clearNodeDrain` (`ClearNode`), at which it may exit.

**HostUpgrades** composes the daemons of all nodes with their hosts. `pc[n]` is the
next step of the daemon of node `n`:

| `pc` | Code |
|---|---|
| `checkReboot`, `setRebooted`, `clearMark` | `clearNodeReboot`, kube.go |
| `clearDrain` | `clearNodeDrain` |
| `testLock`, `releaseLeft` | `clearLock` |
| `idle` | the scheduler's loop |
| `acquire` | `AcquireLock` |
| `start`, `journal`, `wait`, `hung` | `Upgrade`, `systemd.Exec` |
| `report` | `UpdateHostStatus` |
| `drain`, `cordon`, `evict` | `DrainNode`: the annotation, then kubectl |
| `mark`, `markCondition`, `reboot` | `MarkReboot`, `Reboot` |
| `rebooting` | the sleep for `--reboot-timeout`, with the lock held |
| `release`, `fail` | `ReleaseLock` after success, after an error |
| `exited` | no daemon; the kubelet starts the next one |

The constants `Reboot` and `Drain` are the flags. `Faults` names the failures that may
happen, so that a run says which failures its property survives: `kill` (the pod is
stopped), `reset` (the host goes down by itself), `api` (a request fails, applied or
not), `late` (a request without an answer may be applied later), `exec` (no connection
to systemd, no reset, or an error of the start, with the unit started or not), `bus`,
`journal`, `upgrade`, `evict`, `login`, and `lost` (a reboot that login1 accepts but does
not carry out). A host that is going down may kill its pod at any time, with no fault.

An answer of the API server is one step here, with the gets, watches and conflicts before
it. A call that succeeds has its effect with that step. One that fails, or whose daemon
dies (`NoAnswer`, `Abandon`), has it at once, never, or later: `lateLock` and `lateNode`
are the updates that may still come, each until its object has a new version. So an
`Acquire` that was applied but has failed leaves its daemon trying again with the lock
owned (`AcquireFails`), a grant may come when the daemon has expired and its successor is
at its schedule, and a drain annotation or a mark when the run that wrote it is over.
That every lock call here is one that the lock allows is `UsesLockService`. The other
direction, that whatever the lock does is allowed for here, is what these steps are for,
and is by inspection: `AcquireLock` is `Enter`; a `Grant`, which no daemon is told of, comes
while its daemon tries again (`AcquireFails`) or later (`LateLock`); a `Drop` comes with
the answer to a release, without it (`NoAnswer`), or later.

Updates on their way to the Node do not get past a boot (`Forget`): the kubelet of the
host writes its Node before it starts the daemon. kubectl's own update has taken effect,
or never does, when kubectl ends.

**RollingReboot** is what an operator relies on with `--drain`: every node is serving,
drained or rebooting, and it leaves service, reboots and comes back with the lock owned.
An owner may give the lock up with its node drained, where a step of its run may fail
after the drain (`MayGiveUp`), never with its host going down. In `HostUpgrades` that
is `Availability` of a node, from its host and its cordon.

**NodeService and NodeObject** are the methods of `kube.Node`. The abstract call has
its effect at one point, on the object as it then is; a call that failed may still have
it. `SetCondition` takes the reasons of one condition or of both, which it sets in one
update. `NodeObject` gets and updates, with a copy that is current (`fresh`) or not, as in
`KubeLock`, and `Steps` attempts (four in `retry.DefaultBackoff`). `OtherUpdate` is the
kubelet, which sets its own condition, and kubectl, which cordons and uncordons.
`RequestFails` and `Die` may leave an update on its way (`late`).

**RebootMark and RebootClock** are the reboot annotation. The abstract mark is "none",
"pending" or "done"; no daemon gets past a pending one. `RebootClock` has real time, a
clock that is ahead of it by one of `Offsets` and may be set at any moment, a mark with
the time of that clock, and a boot time that the kernel derives from clock and uptime,
rounded down to a second. The check is right under `ClockAssumption`: a host is up for
longer before it is marked, and takes longer from its mark to its next boot, than the
clock may be moved. Beyond it the check fails both ways. A clock that is set ahead by more
than the uptime passes for a reboot; a mark that was written by a clock too far ahead is
not passed by any daemon until the clock has caught up with it and the host has booted
once more.

**UpgradeService and UpgradeUnit** are the upgrade of one host. The abstract call
returns nil only when the unit that it started is done, with what the script left.
`UpgradeUnit` has all of it: `Config` and the files of the mount, each written by
`WriteTemp` and `Rename`; `Exec` (`Reset`, `StartUnit`, `OpenJournal`, `Wait`,
`ReadLines`); the scripts of the three distributions, command by command, with `set -e`
and the pipe of CentOS; and what `Upgrade` makes of the output. The content of a file is
the version of the daemon that wrote it, as what can go wrong is that a unit reads the
files of another daemon, half a file, or none. The daemon may die or lose its D-Bus
connection at any step, while the unit goes on.

### Abstractions

- `HostUpgrades` models `--schedule` with a kube namespace, DaemonSet and node. A run
  without a schedule, or without kube, takes a part of the same path.
- In `HostUpgrades` an update of the Node by others than daemon and kubectl, which would
  only outdate late updates, is left out; `LateNode` may happen or not all the same.
- Conditions are known by their reason. Times and messages are left out.
- In `HostUpgrades` a boot after the mark makes it "done"; the clock is in `RebootClock`.
- In `HostUpgrades` no administrator cordons a node or edits its annotations. In
  `NodeObject` kubectl cordons. A cordon by hand of a node that has the drain annotation
  is undone like the daemon's own, which nothing on the object tells apart.
- `RetryOnConflict` and the get of each Node update are inside one step of
  `HostUpgrades`; `NodeObject` shows that a call is one step, or one late effect.
- In `UpgradeUnit` the versions of image and ConfigMap are one, and the temporary file
  is not in the state, as nothing reads it. An error of `Config` ends the process, which
  is `Die`.
- A `needs-restarting` that fails, or is not there, leaves a stamp, as the script says.

## Runs

Each run ends within about two minutes with two workers. A run whose result is a
violation shows a disagreement between the code and what it, or its documentation, says.

| Run | Instance | Checks |
|---|---|---|
| `kube_lock` | 2 nodes, fair; 20 thousand states | `MutualExclusion`, `NoLostWakeup`, `LockInv`, `ImplementsService`, `LockReleased`, `AttemptEnds` |
| `host_safety` | 2 nodes, drain, every fault; 1.3 million states | `LockHeldDuringReboot`, `RebootingIsMarked`, `CordonIsAnnotated`, `HostInv`, `OneNodeUnavailable`, `RebootsWhenReady`, `UsesLockService`, `UsesRebootMark`, `ImplementsRollingReboot` |
| `host_live` | 2 nodes, drain, `reset`, `upgrade`, `evict`, fair; 19 thousand states | `ReturnsToIdle`, `OneHostUpgrades`, `ReadyIsClean`, `ConditionsMatchHost`, `PendingMeansReboot`, `UsesNodeService` |
| `host_recover` | 2 nodes, no drain, all faults but `late`, `bus` and `evict`, fair; 216 thousand states | `ReturnsToIdle`, `UsesUpgradeService` |
| `node_object` | 2 annotations, 2 conditions, 2 reasons, 4 attempts, fair | `ImplementsService`, `CallsEnd` |
| `reboot_clock` | half seconds, offsets 0, 1 and 3, fair | `CheckIsRight`, `ClockInv`, `ImplementsMark`, `RebootIsSeen` |
| `upgrade_unit` | 3 distributions, 2 versions, fair | `ReadsWhole`, `AwaitedReadsOwn`, `ResultIsOwn`, `AptFailureIsReported`, `UnitInv`, `ImplementsUpgrade`, `UpgradeReturns` |

- `kube_lock`: two daemons never run with the lock held, and no waiting daemon misses
  a release, under all interleavings of conflicts, outdated events, late updates,
  deaths and restarts. A node whose daemon goes on frees the lock again, whatever death,
  lost answer or late update has left it owned: `GoesOn` says that it is neither stuck in
  a run nor exits before `clearLock` every time. An attempt ends after its deadline, but
  for a watch that has got no timeout, and that one ends where every daemon goes on.
- `host_safety`: the lock is held on all paths from the upgrade to its release and
  while the host goes down; a cordon is never left without its
  annotation, nor the condition `Rebooting` without its mark; and every reboot that is
  asked for is one that an upgrade required, on a drained and marked node. Lock and mark
  are used as their abstract specifications have them, with answers that are lost and
  updates that are late. The cluster goes through a rolling reboot:
  two nodes are out of service at the same time only when the run of one has failed
  after its drain and has given the lock up, and its next daemon has not undone the
  drain yet, which is the doubt that a comment in main.go has.
- `host_live`: without deaths of the daemon under its unit, one host upgrades at a
  time; a daemon waits for its schedule, or for the lock, with its node in service, the
  announced reboot done and nothing left of its drain; between runs the conditions deny a required reboot on a host that requires none
  only; a mark whose reboot is to come has a host that goes down, or a daemon about to
  ask for it; when the faults cease every daemon gets back to its schedule; and the Node
  is changed by one call of `NodeService` at a time, the one that kube.go makes there.
- `host_recover`: every daemon gets back to its schedule without `--drain` too, for all
  other faults that a restart recovers from; and the daemons use the upgrade as
  `UpgradeService` has it: what they report is from a
  unit that the call has started and that is done.
- `node_object`: whatever conflicts, lost answers and late updates there are, a call that
  returns nil has had its effect once, on the object as it was at that moment, and every
  call ends, although others may update the object before each of its attempts.
- `reboot_clock`: the whole seconds of the boot time, and a clock that is set between
  mark, boot and check, make the check neither pass too early nor fail, and the daemon of
  a rebooted host gets past its mark.
- `upgrade_unit`: no unit reads a missing or half written file; the unit that a daemon
  waits for has read this daemon's files; nil from `Upgrade` comes with the log and the
  required reboot of the daemon's own unit, also when the signal of its end comes before
  `wait`; and `Upgrade` returns unless the D-Bus connection is lost, for which `wait` has
  no answer.

Disagreements:

- `kube_lock_window` (`StartsWithinWindow`): the deadline of `--schedule-window` is
  tested before the get only, and a watch that starts after it has no timeout. The
  lock may be acquired, and the upgrade start, long after the deadline.
- `host_killed` (`OneHostUpgrades`): a daemon that is killed leaves its unit running.
  Its successor releases the lock, and another host upgrades at the same time.
- `host_without_drain` (`LockHeldDuringReboot`): without `--drain` no reboot is marked,
  and a daemon that is restarted while the host goes down releases the lock.
- `host_left_drained` (`DrainIsUndone`): when `MarkReboot` has set its annotation and
  fails to set the condition, there is no reboot, and every later daemon exits in
  `clearNodeReboot`, before `clearNodeDrain`. The node stays drained.
- `upgrade_centos` (`FailureIsReported`): the script of CentOS pipes `yum-cron` to `tee`
  without `pipefail`. When `yum-cron` fails the unit ends with success, and the
  conditions say that the host is up to date. Those of Ubuntu and Debian are right
  (`AptFailureIsReported`).

One more has no run: `clearNodeReboot` sets the condition `HostUpgradesReboot` only, so
`HostUpgrades` keeps `False`, `RebootRequired`, on the rebooted host until its next run.

### Bounds, and why they are enough

- Two nodes for the lock: an owner and one that waits with an outdated copy. Other
  writers of the object make the conflicts. Its state is finite without a counter:
  versions are kept as "current or not". All its safety is proved for every number.
- Two nodes for the hosts, which meet in the lock only: an owner and another. All
  `HostUpgrades` safety is proved for every number of nodes and every set of faults, or
  every set that the theorem names.
- `UsesNodeService` and `UsesUpgradeService` are checked under the faults of `host_live`
  and `host_recover`, and proved under all.
- In `host_safety` one update is on its way at a time, of lock or Node (`FewLate`, a
  constraint of TLC's). Each property needs one such update to go wrong, at any later
  step of either node. All of them are proved without this bound.
- The annotations drain and reboot, and the two conditions, are those of the code, set
  both together or the second alone. Two reasons tell a condition that is set from one
  that is left. Four attempts are those of the code.
- `MaxTime` is the one bound on time. With half seconds, offsets up to three and a reboot
  that takes five ticks it allows for two reboots with a mark before each. Offsets that
  differ by half a second and by more than a second meet every rounding.
- Two versions, of which one has a configuration file: the files that an earlier daemon
  left, and that this one lacks. Units and daemons may come one after the other without
  a bound.
- `host_safety` takes states that differ in conditions only, or in the status of a late
  report, for one (`SafetyView`), but for whether a condition says `Rebooting`. No guard reads a condition, and every
  `SetCondition` makes a version, so such states have the same steps; and no property of
  this run looks at more of them.
- Symmetry of the nodes is used in `host_safety` only, which has no liveness.
- `CHECK_DEADLOCK` is on in every run: a daemon always has a next step.

### Fairness, and why the code justifies it

- A daemon's next step happens (`WF` of `Progress`, `Step`): the pod has
  `restartPolicy: Always` (resources/daemonset.yml), requests are answered or time out,
  the schedule ticks. In `KubeLock` the steps of `clearLock` and `Release` have strong
  fairness, as a death or a failure may come before them any number of times, but not
  always. Nothing is assumed of the end of an upgrade, which may hang (`wait`,
  systemd/exec.go), nor of `ClearNode`: after a marked reboot that does not come every
  start exits there. `LockReleased` and the second part of `AttemptEnds` have the premise
  `GoesOn` for these, and they are false without it.
- The unit ends, and a host that goes down boots (`UnitDone`, `HostBoots`).
- The deadline passes: `--schedule-window` is an hour unless the flag is given, and
  30 seconds in resources/daemonset.yml. With a window of zero there is no deadline, and a
  daemon waits for the lock as long as others take it.
- In `NodeObject` requests are answered (`WF` of `Answer`); nothing is assumed of the
  kubelet, which may win every race.
- In `RebootClock` the daemon is restarted, and among the starts after a reboot is one
  that reads the boot time and one that is not killed before it is past the mark (`SF`).
- In `UpgradeUnit` requests are answered and each command of the script ends. Nothing is
  assumed of daemons: one may die in every run.
- No fairness is given to faults in any module. `FaultsCease`, the premise of `ReturnsToIdle` and
  `DrainIsUndone`, says that from some time on there are none.

`ReturnsToIdle` needs its set of faults. With `bus` the daemon may wait for ever for a
signal; with `login` or `lost` and `--drain` the restarted daemons exit in
`clearNodeReboot` again and again, as a comment in main.go admits; and with `api` and
`--drain` there is the case of `host_left_drained`.

## Proofs

All theorems hold for every value of the constants: sets of nodes, flags, sets of
faults, annotations, reasons, numbers of attempts, lengths of a second, versions. They
assume what the modules say of the constants alone: `Free` is not a node, the faults are
among `FaultKinds`, there is an attempt, the clock is within its bounds, the contents
`None` and `Partial` are no versions.

`KubeLockProofs`:

- `MutualExclusion` is not inductive. `LockInv` is what a step keeps: current copies
  agree with the object; a daemon that holds the lock is its owner; an update is made
  from a copy that had the lock available; and a late update is by one to whom the lock
  is available, or by an owner who has not got past its release. The last is what makes
  a late clear harmless: it can free only what its own node would free anyway.
- `TypeCorrect`, `LockInvariant`, and from it `LockExcludes`. `WaitersAreWoken` proves
  `NoLostWakeup`, which is inductive as it stands. `LockImplementsService` proves the refinement, one step of `LockService` or
  a stutter for each action.

`HostUpgradesProofs`:

- `TypeCorrect` includes that a status lives from the upgrade to its report only, which
  the decision to reboot depends on.
- `HostInvariant` proves `HostInv`, under every set of faults. The properties of the runs
  are conjuncts of it or follow from it with what it adds: what every step from the report
  to the reboot has made sure of (`PreparedInOrder`), that with `--drain` no daemon gets
  past a host that is still going down (`StoppingIsPending`), who waits for a unit
  (`UnitIsAwaited`), which failures may leave a node drained (`FailureIsUndrained`), and
  what the updates on their way may still do. `LateLockIsOwn`: one that takes the lock
  finds it free, for a node in service, and one that frees it is by its owner, who has not
  got past `clearLock`. `LateNodeIsOld`: once the node is cordoned nothing older is left
  that could take the drain or the mark of this run back.
- From it: `LockIsGuard`, `ReadyNodesAreClean`, `LockIsHeldDuringReboot` (with
  `--drain`), `RebootingNodesAreMarked`, `CordonsAreAnnotated`, `HostsRebootWhenReady`
  (an action property), `UpgradesExclude` (with none of `kill`, `journal` and `exec`: in
  each case Exec lets go of a unit that runs), and `PendingRebootsCome` (with none of
  `kill`, `api`, `login`, `lost` and `late`: each of them leaves a mark that no reboot
  follows).
- `ReadyNodesAreClean` does not say that the lock is free. A grant that was lost or late
  leaves it owned by a node whose daemon tries again or waits for its schedule; its next
  run takes the lock over. Nor, with `late`, that no annotation is left.
- A step changes the variables of one node and the lock (`StepIsLocal`); a late update is
  a step of its own. By this lemma the
  refinements are proved for a node and its own step: `DaemonsUseLockService`,
  `DaemonsUseRebootMark`, `DaemonsUseUpgradeService` and `DaemonsUseNodeService`. The last
  shows that annotations, cordon and reasons, together the object of `NodeOf`, become the
  `Effect` of the call, also where a failed request has been applied, at once or late.
- `DaemonsRollReboots` proves, with `--drain`, that the cluster implements
  `RollingReboot`, for any faults. `OneNodeIsUnavailable` has two parts. Where no step after
  the drain may fail it is the theorem `OneNodeOutOfService` of `RollingRebootProofs`, carried
  down along that refinement. Where one may, it is `HostInv`: a node that is out of
  service owns the lock, or its daemon has given it up and is not past `clearNodeDrain`.
- `ConditionsAreTrue` proves `ConditionsMatchHost`, with none of `kill`, `api` and `late`
  among the faults: a killed daemon leaves a unit that may require a reboot, and a failed
  update leaves the conditions of an earlier run. Its invariant, `ReportInv`, says what a
  status and the conditions tell of the host at each step from the unit to the report.

`NodeObjectProofs`: `TypeCorrect` has what the refinement needs, that a copy which the
server would accept is the object itself. `NodeImplementsService` maps the accepted
update, or a get that finds nothing to do, to the effect of the call, and a late update
to the effect of one that failed; conflicts and gets stutter. From that refinement `UpdatesOfOthersAreKept`: what the kubelet
and kubectl have written is never taken back, but for the cordon that goes with an
annotation of the daemon. `CallsMayBeRepeated` says that each call is idempotent, which the
recovery in `makeKube` depends on. `CallsAreBounded` is the part
of `CallsEnd` that is safety: a call has at most two requests for each attempt, and each of
its steps uses one up, whoever updates the object in between.

`RollingRebootProofs`: that a node which goes down owns the lock is inductive
(`OwnershipInvariant`), and so `OneNodeReboots`; that every node out of service owns it
holds without `MayGiveUp` only, which gives `OneNodeOutOfService`.

`RebootClockProofs`: `ClockInv` says that the mark is the time at which it was written
seen by some clock, that the boot time is rounded from some clock, and that mark and boot
are apart by an uptime or a downtime. `InvDecides` makes of these and the bounds the
comparison in the code, with `WholeSecondsBounds` for the rounding: `ChecksAreRight`.
`ClockImplementsMark` follows action by action.

`UpgradeUnitProofs`: none of the properties is inductive. `UnitInv` adds which files of
the mount are this daemon's at each step of `Config` (`ConfigInv`), that the files of a
running unit exist and its commands have done their part (`ScriptInv`), and that a result
is kept for one unit with no other since (`JobInv`). From it `UnitsReadWhole`,
`AwaitedUnitsReadOwn`, `ResultsAreOwn`, `AptFailuresAreReported`, and the refinement
`UnitImplementsUpgrade`.

Left to TLC: all liveness (`LockReleased`, `AttemptEnds`, `ReturnsToIdle`, `CallsEnd`,
`RebootIsSeen`, `UpgradeReturns`), which needs fairness and ENABLED.

## Plan

The order is by what matters most: first who may upgrade and reboot and when, then the
objects and files below it.

1. `LockService`, `KubeLock` and its proofs (done).
2. `HostUpgrades` and its proofs (done).
3. `NodeService`, `NodeObject` and their proofs (done).
4. `UpgradeService`, `UpgradeUnit` with the files of the mount, and their proofs (done).
5. `RebootMark`, `RebootClock` and their proofs (done).
6. The use of these services by `HostUpgrades`, and `ConditionsMatchHost` as a theorem
   (done).
7. `RollingReboot`, its proofs, and its refinement by `HostUpgrades` (done).
8. Lost and late updates of lock and Node in `HostUpgrades`, and errors of Exec with the
   unit started (done).
9. The run without `--schedule`, and without kube (open): parts of the same path.

## Not modelled

The scheduler's channel is not a variable of its own: `trigger` sends without blocking to
a loop that receives between runs only, so a tick starts a run when the daemon is idle and
is dropped when it is not. That is the guard of `Trigger`. The times of cron, and the
tick that comes before the loop receives, are left out; no promise of the code is about
them.

`Node.InitCondition`, `SetUnschedulable`, `HasCondition` and `GetCondition` have no caller.

Parsing and formatting (flags, `/proc/stat`, messages, regular expressions of the host
probes) have no state. Clients, journal and hostname are reads whose failures are
faults of `HostUpgrades`. Resources, images and test machines are outside the program;
their part in restarts and mounts is in the models' environment.
