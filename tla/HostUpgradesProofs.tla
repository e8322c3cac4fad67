------------------------- MODULE HostUpgradesProofs -------------------------
(****************************************************************************)
(* Proofs about HostUpgrades, for any number of nodes, any options and any  *)
(* set of faults.  HostInv is inductive on top of TypeOK, and the safety    *)
(* properties follow from it.                                               *)
(****************************************************************************)
EXTENDS HostUpgrades, TLAPS

\* TypeOK by its parts: the lock, the Node objects, the daemons and their hosts.
LocksTyped ==
    /\ lock \in Nodes \cup {Free}
    /\ lateLock \subseteq Nodes \X (Nodes \cup {Free})

ObjectTyped ==
    /\ drained \in [Nodes -> BOOLEAN]
    /\ unschedulable \in [Nodes -> BOOLEAN]
    /\ mark \in [Nodes -> {"none", "pending", "done"}]
    /\ upgrades \in [Nodes -> {"none", "UpgradeFailed", "RebootRequired", "UpToDate"}]
    /\ reboots \in [Nodes -> {"none", "UpgradeFailed", "RebootRequired", "UpToDate",
                              "Rebooting", "Rebooted"}]
    /\ lateNode \subseteq Nodes \X NodeCalls \X Statuses

HostsTyped ==
    /\ pc \in [Nodes -> PCs]
    /\ status \in [Nodes -> Statuses]
    /\ \A n \in Nodes : pc[n] # "report" => status[n] = NoStatus
    /\ host \in [Nodes -> {"up", "stopping"}]
    /\ unit \in [Nodes -> {"inactive", "running", "failed"}]
    /\ required \in [Nodes -> BOOLEAN]

LEMMA TypeOKByParts == TypeOK <=> LocksTyped /\ ObjectTyped /\ HostsTyped
BY DEF TypeOK, LocksTyped, ObjectTyped, HostsTyped

LEMMA UpdateIsTyped ==
  ASSUME ObjectTyped, NEW n \in Nodes, NEW result \in Statuses,
         \/ WriteRebooted(n) \/ WriteUnmarked(n) \/ WriteSchedulable(n)
         \/ WriteConditions(n, result)
         \/ WriteDrained(n) \/ WriteMark(n) \/ WriteRebooting(n)
  PROVE  ObjectTyped'
<1>1. lateNode' \subseteq lateNode
  BY DEF WriteRebooted, WriteUnmarked, WriteSchedulable, WriteConditions, WriteDrained,
         WriteMark, WriteRebooting, NewVersion
<1>2. /\ UpgradeReason(result) \in {"UpgradeFailed", "RebootRequired", "UpToDate"}
      /\ RebootReason(result) \in {"UpgradeFailed", "RebootRequired", "UpToDate"}
  BY DEF UpgradeReason, RebootReason
<1>3. QED
  BY <1>1, <1>2
     DEF ObjectTyped, WriteRebooted, WriteUnmarked, WriteSchedulable, WriteConditions,
         WriteDrained, WriteMark, WriteRebooting, cordon, conditions

LEMMA LockIsTyped ==
  ASSUME LocksTyped, NEW v \in Nodes \cup {Free}, WriteLock(v)
  PROVE  LocksTyped'
BY DEF LocksTyped, WriteLock

LEMMA FreeIsTyped ==
  ASSUME LocksTyped, NEW n \in Nodes, WriteFree(n)
  PROVE  LocksTyped'
BY LockIsTyped DEF WriteFree, LocksTyped

LEMMA AbandonIsTyped ==
  ASSUME TypeOK, NEW n \in Nodes, Abandon(n)
  PROVE  LocksTyped' /\ ObjectTyped'
<1>1. LockRequest(n) \subseteq Nodes \X (Nodes \cup {Free})
  BY DEF LockRequest
<1>2. NodeRequest(n) \subseteq Nodes \X NodeCalls \X Statuses
  BY DEF NodeRequest, TypeOK
<1>3. QED
  BY <1>1, <1>2 DEF Abandon, TypeOK, LocksTyped, ObjectTyped, cordon, conditions

\* A request without an answer is given up, was applied to the Node, or to the lock.
LEMMA NoAnswerCases ==
  ASSUME NEW n \in Nodes, NoAnswer(n)
  PROVE  \/ Abandon(n)
         \/ /\ \/ pc[n] = "setRebooted" /\ WriteRebooted(n)
               \/ pc[n] = "clearMark" /\ WriteUnmarked(n)
               \/ pc[n] = "clearDrain" /\ WriteSchedulable(n)
               \/ pc[n] = "report" /\ WriteConditions(n, status[n])
               \/ pc[n] = "drain" /\ WriteDrained(n)
               \/ pc[n] = "mark" /\ WriteMark(n)
               \/ pc[n] = "markCondition" /\ WriteRebooting(n)
            /\ UNCHANGED locks
         \/ /\ pc[n] \in {"releaseLeft", "release", "fail"}
            /\ WriteFree(n) /\ UNCHANGED object
         \/ pc[n] = "acquire" /\ lock = Free /\ WriteLock(n) /\ UNCHANGED object
BY DEF NoAnswer, NodeUpdate

LEMMA NoAnswerIsTyped ==
  ASSUME TypeOK, NEW n \in Nodes, NoAnswer(n)
  PROVE  LocksTyped' /\ ObjectTyped'
<1>1. LocksTyped /\ ObjectTyped /\ status[n] \in Statuses
  BY DEF TypeOK, LocksTyped, ObjectTyped
<1>2. UNCHANGED locks => LocksTyped'
  BY <1>1 DEF locks, LocksTyped
<1>3. UNCHANGED object => ObjectTyped'
  BY <1>1 DEF object, cordon, conditions, ObjectTyped
<1>4. CASE NodeUpdate(n, pc[n], status[n]) /\ UNCHANGED locks
  BY <1>1, <1>2, <1>4, UpdateIsTyped DEF NodeUpdate
<1>5. QED
  BY <1>1, <1>3, <1>4, AbandonIsTyped, FreeIsTyped, LockIsTyped DEF NoAnswer

\* The variables of the daemons and hosts keep their types, and a status does not
\* outlive its report.
THEOREM TypeCorrect == Spec => []TypeOK
<1>1. Init => TypeOK
  BY ConstantsAssumption DEF Init, TypeOK, PCs, Startup, Critical, Statuses, NoStatus
<1>2. ASSUME TypeOK, NEW n \in Nodes, Action(n)
      PROVE  TypeOK'
  <2>1. LocksTyped /\ ObjectTyped /\ HostsTyped /\ NoStatus \in Statuses
    BY <1>2, TypeOKByParts DEF NoStatus, Statuses
  <2>2. /\ UNCHANGED locks => LocksTyped'
        /\ UNCHANGED object => ObjectTyped'
    BY <2>1 DEF locks, LocksTyped, object, cordon, conditions, ObjectTyped
  <2>3. LocksTyped' /\ ObjectTyped'
    <3>1. CASE Makes(n)
      BY <2>1, <2>2, <3>1, UpdateIsTyped, FreeIsTyped
         DEF Makes, Start, CheckReboot, SetRebooted, ClearMark, ClearDrain, TestLock,
             ReleaseLeft, Moves
    <3>2. CASE MakeFaults(n)
      BY <1>2, <3>2, NoAnswerIsTyped DEF MakeFaults, SetRebootedFails, StartupFails
    <3>3. CASE Upgrades(n)
      <4>1. CASE UpdateHostStatus(n)
        <5>1. status[n] \in Statuses
          BY <2>1 DEF HostsTyped
        <5>2. QED
          BY <2>1, <2>2, <4>1, <5>1, UpdateIsTyped DEF UpdateHostStatus
      <4>2. CASE ~UpdateHostStatus(n)
        BY <2>1, <2>2, <3>3, <4>2, LockIsTyped
           DEF Upgrades, Trigger, AcquireLock, AcquireExpires, ExecStart, ExecRefused,
               OpenJournal, Wait, Moves
      <4>3. QED
        BY <4>1, <4>2
    <3>4. CASE UpgradeFaults(n)
      BY <1>2, <2>2, <3>4, NoAnswerIsTyped
         DEF UpgradeFaults, AcquireFails, ReportFails, ExecFails, OpenJournalFails,
             ReadOutputFails, WaitHangs, UnitFails, Moves
    <3>5. CASE Reboots(n)
      <4>1. CASE Cordon(n)
        BY <2>1, <2>2, <4>1 DEF Cordon, NewVersion, ObjectTyped, conditions
      <4>2. CASE ~Cordon(n)
        BY <2>1, <2>2, <3>5, <4>2, UpdateIsTyped
           DEF Reboots, AnnotateDrain, Evict, MarkReboot, MarkCondition, RebootHost,
               RebootTimeout, Moves
      <4>3. QED
        BY <4>1, <4>2
    <3>6. CASE RebootFaults(n)
      BY <1>2, <2>2, <3>6, NoAnswerIsTyped
         DEF RebootFaults, PrepareFails, DrainFails, RebootLost, RebootFails, Moves
    <3>7. CASE Ends(n) \/ ReleaseFails(n) \/ Kill(n) \/ UnitDone(n)
      BY <1>2, <2>1, <2>2, <3>7, FreeIsTyped, NoAnswerIsTyped, AbandonIsTyped
         DEF Ends, ReleaseLock, Fail, ReleaseFails, Kill, UnitDone
    <3>8. CASE Boot(n)
      <4>1. LockRequest(n) \subseteq Nodes \X (Nodes \cup {Free})
        BY DEF LockRequest
      <4>2. QED
        BY <2>1, <3>8, <4>1
           DEF Boot, Forget, NewVersion, LocksTyped, ObjectTyped, cordon, conditions
    <3>9. QED
      BY <1>2, <3>1, <3>2, <3>3, <3>4, <3>5, <3>6, <3>7, <3>8
         DEF Action, Step, Fault, EndFaults, HostBoots, HostResets
  <2>4. HostsTyped'
    <3> USE <2>1 DEF HostsTyped, PCs, Startup, Critical, Statuses, NoStatus, Goto, Moves,
                     Exit, machine, daemon
    <3>1. CASE Makes(n) \/ MakeFaults(n)
      <4>1. CASE Start(n)
        BY <4>1 DEF Start
      <4>2. CASE CheckReboot(n)
        BY <4>2 DEF CheckReboot
      <4>3. CASE SetRebooted(n)
        BY <4>3 DEF SetRebooted
      <4>4. CASE ClearMark(n)
        BY <4>4 DEF ClearMark
      <4>5. CASE ClearDrain(n)
        BY <4>5 DEF ClearDrain
      <4>6. CASE TestLock(n)
        BY <4>6 DEF TestLock
      <4>7. CASE ReleaseLeft(n)
        BY <4>7 DEF ReleaseLeft
      <4>8. CASE SetRebootedFails(n)
        BY <4>8 DEF SetRebootedFails
      <4>9. CASE StartupFails(n)
        BY <4>9 DEF StartupFails
      <4>10. QED
        BY <3>1, <4>1, <4>2, <4>3, <4>4, <4>5, <4>6, <4>7, <4>8, <4>9
           DEF Makes, MakeFaults
    <3>2. CASE Upgrades(n)
      <4>1. CASE Wait(n)
        <5>1. [failed |-> FALSE, required |-> required[n]] \in Statuses
          OBVIOUS
        <5>2. UNCHANGED machine
          BY <4>1 DEF Wait
        <5>3. CASE UpgradeError(n, FALSE)
          BY <5>2, <5>3 DEF UpgradeError
        <5>4. CASE Upgraded(n)
          BY <5>1, <5>2, <5>4 DEF Upgraded
        <5>5. QED
          BY <4>1, <5>3, <5>4 DEF Wait
      <4>2. CASE UpdateHostStatus(n)
        BY <4>2 DEF UpdateHostStatus, AfterUpgrade
      <4>3. CASE Trigger(n)
        BY <4>3 DEF Trigger
      <4>4. CASE AcquireLock(n)
        BY <4>4 DEF AcquireLock
      <4>5. CASE AcquireExpires(n)
        BY <4>5 DEF AcquireExpires
      <4>6. CASE ExecStart(n)
        BY <4>6 DEF ExecStart
      <4>7. CASE ExecRefused(n)
        BY <4>7 DEF ExecRefused, UpgradeError
      <4>8. CASE OpenJournal(n)
        BY <4>8 DEF OpenJournal
      <4>9. QED
        BY <3>2, <4>1, <4>2, <4>3, <4>4, <4>5, <4>6, <4>7, <4>8 DEF Upgrades
    <3>3. CASE UpgradeFaults(n)
      <4>1. CASE ReadOutputFails(n)
        <5>1. PICK r \in BOOLEAN : UpgradeError(n, r)
          BY <4>1 DEF ReadOutputFails
        <5>2. [failed |-> TRUE, required |-> r] \in Statuses
          OBVIOUS
        <5>3. QED
          BY <4>1, <5>1, <5>2 DEF ReadOutputFails, UpgradeError
      <4>2. CASE ReportFails(n)
        BY <4>2 DEF ReportFails, AfterUpgrade
      <4>3. CASE AcquireFails(n)
        BY <4>3 DEF AcquireFails
      <4>4. CASE ExecFails(n)
        BY <4>4 DEF ExecFails, UpgradeError
      <4>5. CASE OpenJournalFails(n)
        BY <4>5 DEF OpenJournalFails, UpgradeError
      <4>6. CASE WaitHangs(n)
        BY <4>6 DEF WaitHangs
      <4>7. CASE UnitFails(n)
        BY <4>7 DEF UnitFails
      <4>8. QED
        BY <3>3, <4>1, <4>2, <4>3, <4>4, <4>5, <4>6, <4>7
           DEF UpgradeFaults
    <3>4. CASE Reboots(n) \/ RebootFaults(n)
      <4>1. CASE AnnotateDrain(n)
        BY <4>1 DEF AnnotateDrain
      <4>2. CASE Cordon(n)
        BY <4>2 DEF Cordon
      <4>3. CASE Evict(n)
        BY <4>3 DEF Evict
      <4>4. CASE MarkReboot(n)
        BY <4>4 DEF MarkReboot
      <4>5. CASE MarkCondition(n)
        BY <4>5 DEF MarkCondition
      <4>6. CASE RebootHost(n)
        BY <4>6 DEF RebootHost
      <4>7. CASE RebootTimeout(n)
        BY <4>7 DEF RebootTimeout
      <4>8. CASE PrepareFails(n)
        BY <4>8 DEF PrepareFails
      <4>9. CASE DrainFails(n)
        BY <4>9 DEF DrainFails
      <4>10. CASE RebootLost(n)
        BY <4>10 DEF RebootLost
      <4>11. CASE RebootFails(n)
        BY <4>11 DEF RebootFails
      <4>12. QED
        BY <3>4, <4>1, <4>2, <4>3, <4>4, <4>5, <4>6, <4>7,
           <4>8, <4>9, <4>10, <4>11 DEF Reboots, RebootFaults
    <3>5. CASE Ends(n) \/ ReleaseFails(n) \/ Kill(n) \/ UnitDone(n)
      <4>1. CASE ReleaseLock(n)
        BY <4>1 DEF ReleaseLock
      <4>2. CASE Fail(n)
        BY <4>2 DEF Fail
      <4>3. CASE ReleaseFails(n)
        BY <4>3 DEF ReleaseFails
      <4>4. CASE Kill(n)
        BY <4>4 DEF Kill
      <4>5. CASE UnitDone(n)
        BY <4>5 DEF UnitDone
      <4>6. QED
        BY <3>5, <4>1, <4>2, <4>3, <4>4, <4>5 DEF Ends
    <3>6. CASE Boot(n)
      BY <3>6 DEF Boot
    <3>7. QED
      BY <1>2, <3>1, <3>2, <3>3, <3>4, <3>5, <3>6
         DEF Action, Step, Fault, EndFaults, HostBoots, HostResets
  <2>5. QED
    BY <2>3, <2>4 DEF TypeOK, LocksTyped, ObjectTyped, HostsTyped
<1>3. ASSUME TypeOK, LateLock
      PROVE  TypeOK'
  <2>1. PICK request \in lateLock : WriteLock(request[2])
    BY <1>3 DEF LateLock
  <2>2. request[2] \in Nodes \cup {Free}
    BY <1>3 DEF TypeOK
  <2>3. LocksTyped'
    BY <1>3, <2>1, <2>2, LockIsTyped, TypeOKByParts
  <2>4. QED
    BY <1>3, <2>3
       DEF LateLock, TypeOK, LocksTyped, daemon, machine, object, cordon, conditions
<1>4. ASSUME TypeOK, LateNode
      PROVE  TypeOK'
  <2>1. PICK request \in lateNode : NodeUpdate(request[1], request[2], request[3])
    BY <1>4 DEF LateNode
  <2>2. request[1] \in Nodes /\ request[3] \in Statuses
    BY <1>4 DEF TypeOK
  <2>3. ObjectTyped'
    BY <1>4, <2>1, <2>2, UpdateIsTyped, TypeOKByParts DEF NodeUpdate
  <2>4. QED
    BY <1>4, <2>3 DEF LateNode, TypeOK, ObjectTyped, locks, daemon, machine
<1>5. TypeOK /\ UNCHANGED vars => TypeOK'
  BY DEF TypeOK, vars, locks, daemon, machine, object, cordon, conditions
<1>6. TypeOK /\ [Next]_vars => TypeOK'
  BY <1>2, <1>3, <1>4, <1>5 DEF Next
<1>7. QED
  BY <1>1, <1>6, PTL DEF Spec

\* What a daemon leaves behind when it does not wait for the answer.
LEMMA RequestsAreOwn ==
  ASSUME TypeOK, HostInv, NEW n \in Nodes
  PROVE  /\ \A request \in LockRequest(n) :
                /\ request[1] = n
                /\ \/ request[2] = n /\ lock = Free /\ ~unschedulable[n]
                   \/ request[2] = Free /\ lock = n /\ (unschedulable[n] => RunFaults # {})
         /\ \A request \in NodeRequest(n) :
                /\ request[1] = n
                /\ request[2] = "clearDrain" => drained[n]
                /\ request[2] = "clearMark" => reboots[n] # "Rebooting"
                /\ request[2] = "markCondition" => mark[n] = "pending"
         /\ Drain /\ host[n] = "stopping" => LockRequest(n) = {} /\ NodeRequest(n) = {}
<1>1. /\ pc[n] \in Settled => ~unschedulable[n]
      /\ pc[n] = "fail" /\ RunFaults = {} => ~unschedulable[n]
      /\ pc[n] = "clearMark" => reboots[n] # "Rebooting"
      /\ pc[n] = "markCondition" => mark[n] = "pending"
      /\ Drain /\ host[n] = "stopping" => pc[n] \in {"exited", "checkReboot", "rebooting"}
  BY DEF HostInv, SettledIsClean, FailureIsUndrained, MarkGoesLast, PreparedInOrder,
         StoppingIsPending
<1>2. ASSUME NEW request \in LockRequest(n)
      PROVE  /\ request[1] = n
             /\ \/ request[2] = n /\ lock = Free /\ ~unschedulable[n]
                \/ request[2] = Free /\ lock = n /\ (unschedulable[n] => RunFaults # {})
  BY <1>1, <1>2 DEF LockRequest, Settled
<1>3. ASSUME NEW request \in NodeRequest(n)
      PROVE  /\ request[1] = n
             /\ request[2] = "clearDrain" => drained[n]
             /\ request[2] = "clearMark" => reboots[n] # "Rebooting"
             /\ request[2] = "markCondition" => mark[n] = "pending"
  <2>1. request = <<n, pc[n], status[n]>> /\ (pc[n] = "clearDrain" => drained[n])
    BY <1>3 DEF NodeRequest
  <2>2. QED
    BY <1>1, <2>1
<1>4. Drain /\ host[n] = "stopping" => LockRequest(n) = {} /\ NodeRequest(n) = {}
  BY <1>1 DEF LockRequest, NodeRequest, NodeCalls
<1>5. QED
  BY <1>2, <1>3, <1>4

\* The end of a process keeps HostInv, whatever becomes of its requests.
LEMMA DeathKeepsHostInv ==
  ASSUME TypeOK, TypeOK', HostInv, NEW n \in Nodes,
         Exit(n), Abandon(n), UNCHANGED machine, UnitIsAwaited'
  PROVE  HostInv'
<1> USE ConstantsAssumption DEF TypeOK, machine, cordon, conditions
<1>1. /\ pc' = [pc EXCEPT ![n] = "exited"]
      /\ UNCHANGED <<lock, host, unit, required, drained, unschedulable, mark,
                     upgrades, reboots>>
      /\ \A m \in Nodes : status'[m] \in {status[m], NoStatus}
      /\ \/ UNCHANGED <<lateLock, lateNode>>
         \/ /\ "late" \in Faults
            /\ lateLock' = lateLock \cup LockRequest(n)
            /\ lateNode' = lateNode \cup NodeRequest(n)
  BY DEF Exit, Goto, Abandon
<1>2. LockGuards' /\ CordonIsAnnotated' /\ SettledIsClean'
  BY <1>1 DEF HostInv, LockGuards, CordonIsAnnotated, SettledIsClean, Critical, Settled
<1>3. NothingIsLate'
  BY <1>1 DEF HostInv, NothingIsLate, Settled
<1>4. LateLockIsOwn'
  BY <1>1, RequestsAreOwn DEF HostInv, LateLockIsOwn, RunFaults, Startup
<1>5. LateNodeIsOld'
  BY <1>1, RequestsAreOwn DEF HostInv, LateNodeIsOld, Recovering
<1>6. PreparedInOrder' /\ FailureIsUndrained' /\ StoppingHasNoUnit' /\ RebootingIsMarked'
      /\ MarkGoesLast'
  BY <1>1 DEF HostInv, PreparedInOrder, FailureIsUndrained, StoppingHasNoUnit,
              RebootingIsMarked, MarkGoesLast, RunFaults, NoStatus
<1>7. StoppingIsPending'
  <2>1. ASSUME Drain, NEW m \in Nodes, host[m] = "stopping"
        PROVE  /\ lock = m /\ unschedulable[m] /\ mark[m] = "pending"
               /\ pc[m] \in {"exited", "checkReboot", "rebooting"}
               /\ <<m, Free>> \notin lateLock
               /\ \A request \in lateNode : request[1] # m
    BY <2>1 DEF HostInv, StoppingIsPending
  <2>2. ASSUME Drain, NEW m \in Nodes, host[m] = "stopping"
        PROVE  /\ <<m, Free>> \notin LockRequest(n)
               /\ \A request \in NodeRequest(n) : request[1] # m
    BY <2>2, RequestsAreOwn
  <2>3. QED
    BY <1>1, <2>1, <2>2 DEF StoppingIsPending
<1>8. QED
  BY <1>2, <1>3, <1>4, <1>5, <1>6, <1>7 DEF HostInv

\* Every step of a daemon, of its host and of its upgrade keeps HostInv.
LEMMA StepKeepsHostInv ==
  ASSUME TypeOK, TypeOK', HostInv, NEW n \in Nodes, Action(n)
  PROVE  HostInv'
<1> USE ConstantsAssumption
        DEF TypeOK, Critical, Statuses, NoStatus, Settled, Startup, Recovering, HostInv,
            LockGuards, CordonIsAnnotated, SettledIsClean, NothingIsLate, LateLockIsOwn,
            LateNodeIsOld, PreparedInOrder, StoppingIsPending, FailureIsUndrained,
            RunFaults, StoppingHasNoUnit, UnitIsAwaited, RebootingIsMarked, MarkGoesLast,
            Goto, Moves, locks, daemon, machine, cordon, conditions, object
<1>1. ASSUME Makes(n)
      PROVE  HostInv'
  <2>1. CASE Start(n)
    BY <2>1 DEF Start
  <2>2. CASE CheckReboot(n)
    <3>1. /\ pc[n] = "checkReboot"
          /\ UNCHANGED <<locks, status, machine, object>>
      BY <2>2 DEF CheckReboot
    <3>2. CASE mark[n] = "none" /\ Goto(n, "clearDrain")
      BY <3>1, <3>2
    <3>3. CASE mark[n] = "pending" /\ Goto(n, "exited")
      BY <3>1, <3>3
    <3>4. CASE mark[n] = "done" /\ Goto(n, "setRebooted")
      BY <3>1, <3>4
    <3>5. QED
      BY <2>2, <3>2, <3>3, <3>4 DEF CheckReboot
  <2>3. CASE SetRebooted(n)
    BY <2>3 DEF SetRebooted, WriteRebooted, NewVersion
  <2>4. CASE ClearMark(n)
    BY <2>4 DEF ClearMark, WriteUnmarked, NewVersion
  <2>5. CASE ClearDrain(n)
    BY <2>5 DEF ClearDrain, WriteSchedulable, NewVersion
  <2>6. CASE TestLock(n)
    BY <2>6 DEF TestLock
  <2>7. CASE ReleaseLeft(n)
    BY <2>7 DEF ReleaseLeft, WriteFree, WriteLock
  <2>8. QED
    BY <1>1, <2>1, <2>2, <2>3, <2>4, <2>5, <2>6, <2>7 DEF Makes
<1>2. ASSUME MakeFaults(n)
      PROVE  HostInv'
  <2>1. CASE "api" \in Faults /\ SetRebootedFails(n)
    <3>1. CASE Abandon(n)
      BY <2>1, <3>1 DEF SetRebootedFails, Abandon, LockRequest, NodeRequest
    <3>2. CASE pc[n] = "setRebooted" /\ WriteRebooted(n) /\ UNCHANGED locks
      BY <2>1, <3>2 DEF SetRebootedFails, WriteRebooted, NewVersion
    <3>3. QED
      BY <2>1, <3>1, <3>2, NoAnswerCases DEF SetRebootedFails
  <2>2. CASE "api" \in Faults /\ StartupFails(n)
    <3>1. CASE Abandon(n)
      BY <2>2, <3>1, DeathKeepsHostInv DEF StartupFails, Exit
    <3>2. CASE pc[n] = "clearMark" /\ WriteUnmarked(n) /\ UNCHANGED locks
      BY <2>2, <3>2 DEF StartupFails, WriteUnmarked, NewVersion, Exit
    <3>3. CASE pc[n] = "clearDrain" /\ WriteSchedulable(n) /\ UNCHANGED locks
      BY <2>2, <3>3 DEF StartupFails, WriteSchedulable, NewVersion, Exit
    <3>4. CASE pc[n] = "releaseLeft" /\ WriteFree(n) /\ UNCHANGED object
      BY <2>2, <3>4 DEF StartupFails, WriteFree, WriteLock, Exit
    <3>5. QED
      BY <2>2, <3>1, <3>2, <3>3, <3>4, NoAnswerCases DEF StartupFails, Startup
  <2>3. QED
    BY <1>2, <2>1, <2>2 DEF MakeFaults
<1>3. ASSUME Upgrades(n)
      PROVE  HostInv'
  <2>1. CASE Trigger(n)
    BY SMTT(40), <2>1 DEF Trigger
  <2>2. CASE AcquireLock(n)
    BY <2>2 DEF AcquireLock, WriteLock
  <2>3. CASE AcquireExpires(n)
    BY <2>3 DEF AcquireExpires, Exit
  <2>4. CASE ExecStart(n)
    BY <2>4 DEF ExecStart
  <2>5. CASE ExecRefused(n)
    BY SMTT(40), <2>5 DEF ExecRefused, UpgradeError
  <2>6. CASE OpenJournal(n)
    BY <2>6 DEF OpenJournal
  <2>7. CASE Wait(n)
    <3>1. pc[n] = "wait" /\ unit[n] # "running" /\ UNCHANGED <<locks, machine, object>>
      BY <2>7 DEF Wait
    <3>2. CASE UpgradeError(n, FALSE)
      BY <3>1, <3>2 DEF UpgradeError
    <3>3. CASE Upgraded(n)
      BY <3>1, <3>3 DEF Upgraded
    <3>4. QED
      BY <2>7, <3>2, <3>3 DEF Wait
  <2>8. CASE UpdateHostStatus(n)
    BY <2>8
       DEF UpdateHostStatus, WriteConditions, UpgradeReason, RebootReason, AfterUpgrade,
           NewVersion
  <2>9. QED
    BY <1>3, <2>1, <2>2, <2>3, <2>4, <2>5, <2>6, <2>7, <2>8 DEF Upgrades
<1>4. ASSUME UpgradeFaults(n)
      PROVE  HostInv'
  <2>1. CASE "api" \in Faults /\ AcquireFails(n)
    <3>1. CASE Abandon(n)
      BY <2>1, <3>1 DEF AcquireFails, Abandon, LockRequest, NodeRequest
    <3>2. CASE lock = Free /\ WriteLock(n) /\ UNCHANGED object
      BY <2>1, <3>2 DEF AcquireFails, WriteLock
    <3>3. QED
      BY <2>1, <3>1, <3>2, NoAnswerCases DEF AcquireFails
  <2>2. CASE "api" \in Faults /\ ReportFails(n)
    <3>1. CASE Abandon(n)
      BY <2>2, <3>1 DEF ReportFails, Abandon, LockRequest, NodeRequest, AfterUpgrade
    <3>2. CASE pc[n] = "report" /\ WriteConditions(n, status[n]) /\ UNCHANGED locks
      BY <2>2, <3>2
         DEF ReportFails, WriteConditions, NewVersion, UpgradeReason, RebootReason,
             AfterUpgrade
    <3>3. QED
      BY <2>2, <3>1, <3>2, NoAnswerCases DEF ReportFails
  <2>3. CASE "exec" \in Faults /\ ExecFails(n)
    BY <2>3 DEF ExecFails, UpgradeError
  <2>4. CASE "journal" \in Faults /\ OpenJournalFails(n)
    BY <2>4 DEF OpenJournalFails, UpgradeError
  <2>5. CASE "journal" \in Faults /\ ReadOutputFails(n)
    BY SMTT(40), <2>5 DEF ReadOutputFails, UpgradeError
  <2>6. CASE WaitHangs(n)
    BY <2>6 DEF WaitHangs
  <2>7. CASE UnitFails(n)
    BY <2>7 DEF UnitFails
  <2>8. QED
    BY <1>4, <2>1, <2>2, <2>3, <2>4, <2>5, <2>6, <2>7 DEF UpgradeFaults
<1>5. ASSUME Reboots(n)
      PROVE  HostInv'
  <2>1. CASE AnnotateDrain(n)
    BY SMTT(40), <2>1 DEF AnnotateDrain, WriteDrained, NewVersion
  <2>2. CASE Cordon(n)
    BY <2>2 DEF Cordon, NewVersion
  <2>3. CASE Evict(n)
    BY SMTT(40), <2>3 DEF Evict
  <2>4. CASE MarkReboot(n)
    BY <2>4 DEF MarkReboot, WriteMark, NewVersion
  <2>5. CASE MarkCondition(n)
    BY <2>5 DEF MarkCondition, WriteRebooting, NewVersion
  <2>6. CASE RebootHost(n)
    BY <2>6 DEF RebootHost
  <2>7. CASE RebootTimeout(n)
    BY <2>7 DEF RebootTimeout, Exit
  <2>8. QED
    BY <1>5, <2>1, <2>2, <2>3, <2>4, <2>5, <2>6, <2>7 DEF Reboots
<1>6. ASSUME RebootFaults(n)
      PROVE  HostInv'
  <2>1. CASE "api" \in Faults /\ PrepareFails(n)
    <3>1. CASE Abandon(n)
      BY <2>1, <3>1 DEF PrepareFails, Abandon, LockRequest, NodeRequest
    <3>2. CASE pc[n] = "drain" /\ WriteDrained(n) /\ UNCHANGED locks
      BY <2>1, <3>2 DEF PrepareFails, WriteDrained, NewVersion
    <3>3. CASE pc[n] = "mark" /\ WriteMark(n) /\ UNCHANGED locks
      BY <2>1, <3>3 DEF PrepareFails, WriteMark, NewVersion
    <3>4. CASE pc[n] = "markCondition" /\ WriteRebooting(n) /\ UNCHANGED locks
      BY <2>1, <3>4 DEF PrepareFails, WriteRebooting, NewVersion
    <3>5. QED
      BY <2>1, <3>1, <3>2, <3>3, <3>4, NoAnswerCases DEF PrepareFails
  <2>2. CASE "evict" \in Faults /\ DrainFails(n)
    BY <2>2 DEF DrainFails
  <2>3. CASE RebootLost(n)
    BY <2>3 DEF RebootLost
  <2>4. CASE "login" \in Faults /\ RebootFails(n)
    BY <2>4 DEF RebootFails
  <2>5. QED
    BY <1>6, <2>1, <2>2, <2>3, <2>4 DEF RebootFaults
<1>7. ASSUME Ends(n)
      PROVE  HostInv'
  <2>1. CASE ReleaseLock(n)
    BY <2>1 DEF ReleaseLock, WriteFree, WriteLock
  <2>2. CASE Fail(n)
    BY <2>2 DEF Fail, WriteFree, WriteLock, Exit
  <2>3. QED
    BY <1>7, <2>1, <2>2 DEF Ends
<1>8. ASSUME EndFaults(n)
      PROVE  HostInv'
  <2>1. CASE "api" \in Faults /\ ReleaseFails(n)
    <3>1. CASE Abandon(n)
      BY <2>1, <3>1 DEF ReleaseFails, Abandon, LockRequest, NodeRequest, Exit
    <3>2. CASE WriteFree(n) /\ UNCHANGED object
      BY <2>1, <3>2 DEF ReleaseFails, WriteFree, WriteLock, Exit
    <3>3. QED
      BY <2>1, <3>1, <3>2, NoAnswerCases DEF ReleaseFails
  <2>2. CASE HostResets(n)
    BY <2>2 DEF HostResets, Boot, Exit, Forget, NewVersion, LockRequest
  <2>3. QED
    BY <1>8, <2>1, <2>2 DEF EndFaults
<1>9. CASE UnitDone(n)
  BY <1>9 DEF UnitDone
<1>10. CASE HostBoots(n)
  BY <1>10 DEF HostBoots, Boot, Exit, Forget, NewVersion, LockRequest
<1>11. CASE Kill(n) /\ (host[n] = "stopping" \/ "kill" \in Faults)
  <2>1. Exit(n) /\ Abandon(n) /\ UNCHANGED machine
    BY <1>11 DEF Kill
  <2>2. UnitIsAwaited'
    BY <1>11, <2>1 DEF Exit
  <2>3. QED
    BY <2>1, <2>2, DeathKeepsHostInv
<1>12. QED
  BY <1>1, <1>2, <1>3, <1>4, <1>5, <1>6, <1>7, <1>8, <1>9, <1>10, <1>11
     DEF Action, Step, Fault

\* An update of the lock that is applied late keeps HostInv.
LEMMA LateLockKeepsHostInv ==
  ASSUME TypeOK, HostInv, LateLock
  PROVE  HostInv'
<1>1. PICK request \in lateLock : WriteLock(request[2])
  BY DEF LateLock
<1> DEFINE n == request[1]
<1>2. UNCHANGED <<daemon, machine, object>> /\ "late" \in Faults
  BY DEF LateLock, HostInv, NothingIsLate
<1>3. n \in Nodes /\ lateLock' = {}
  BY <1>1, ConstantsAssumption DEF TypeOK, WriteLock, HostInv, LateLockIsOwn
<1>4. \/ lock = Free /\ lock' = n
      \/ /\ lock = n /\ lock' = Free
         /\ pc[n] \in {"exited"} \cup Startup
         /\ <<n, Free>> \in lateLock
  BY <1>1, <1>3 DEF TypeOK, WriteLock, HostInv, LateLockIsOwn
<1>5. LockGuards'
  BY <1>2, <1>4, ConstantsAssumption DEF HostInv, LockGuards, Critical, Startup, daemon
<1>6. StoppingIsPending'
  BY <1>2, <1>3, <1>4, ConstantsAssumption
     DEF HostInv, StoppingIsPending, daemon, machine, object, cordon
<1>7. QED
  BY <1>2, <1>3, <1>5, <1>6
     DEF HostInv, CordonIsAnnotated, SettledIsClean, NothingIsLate, LateLockIsOwn,
         LateNodeIsOld, PreparedInOrder, FailureIsUndrained, StoppingHasNoUnit,
         UnitIsAwaited, RebootingIsMarked, MarkGoesLast, daemon, machine, object, cordon,
         conditions

\* An update of the Node object that is applied late keeps HostInv.
LEMMA LateNodeKeepsHostInv ==
  ASSUME TypeOK, HostInv, LateNode
  PROVE  HostInv'
<1>1. PICK request \in lateNode : NodeUpdate(request[1], request[2], request[3])
  BY DEF LateNode
<1> DEFINE n == request[1]
<1>2. /\ UNCHANGED <<locks, daemon, machine>>
      /\ "late" \in Faults
      /\ n \in Nodes /\ request[3] \in Statuses
  BY DEF LateNode, HostInv, NothingIsLate, TypeOK
<1>3. /\ pc[n] \notin {"evict", "mark", "markCondition"}
      /\ Drain => pc[n] \notin {"reboot", "rebooting"} /\ host[n] # "stopping"
      /\ request[2] = "clearDrain" => drained[n] /\ pc[n] \in Recovering
      /\ request[2] = "clearMark" => reboots[n] # "Rebooting"
      /\ request[2] = "markCondition"
             => mark[n] = "pending" /\ pc[n] \in {"fail", "exited", "checkReboot"}
  BY <1>2 DEF HostInv, LateNodeIsOld, StoppingIsPending
<1> HIDE DEF n
<1> USE <1>2, <1>3
        DEF TypeOK, HostInv, LockGuards, CordonIsAnnotated, SettledIsClean, NothingIsLate,
            LateLockIsOwn, LateNodeIsOld, PreparedInOrder, StoppingIsPending,
            FailureIsUndrained, StoppingHasNoUnit, UnitIsAwaited, RebootingIsMarked,
            MarkGoesLast, Settled, Recovering, NewVersion, locks, daemon, machine, cordon,
            conditions
<1>4. CASE request[2] = "setRebooted" /\ WriteRebooted(n)
  BY <1>4 DEF WriteRebooted
<1>5. CASE request[2] = "clearMark" /\ WriteUnmarked(n)
  BY <1>5 DEF WriteUnmarked
<1>6. CASE request[2] = "clearDrain" /\ WriteSchedulable(n)
  <2>1. /\ drained[n] /\ pc[n] \in Recovering
        /\ drained' = [drained EXCEPT ![n] = FALSE]
        /\ unschedulable' = [unschedulable EXCEPT ![n] = FALSE]
        /\ lateNode' = {r \in lateNode : r[1] # n}
        /\ UNCHANGED <<mark, conditions>>
    BY <1>6 DEF WriteSchedulable
  <2>2. SettledIsClean' /\ PreparedInOrder' /\ StoppingIsPending'
    BY <2>1
  <2>3. QED
    BY <2>1, <2>2
<1>7. CASE request[2] = "report" /\ WriteConditions(n, request[3])
  BY <1>7 DEF WriteConditions, UpgradeReason, RebootReason
<1>8. CASE request[2] = "drain" /\ WriteDrained(n)
  BY <1>8 DEF WriteDrained
<1>9. CASE request[2] = "mark" /\ WriteMark(n)
  BY <1>9 DEF WriteMark
<1>10. CASE request[2] = "markCondition" /\ WriteRebooting(n)
  BY <1>10 DEF WriteRebooting
<1>11. QED
  BY <1>1, <1>4, <1>5, <1>6, <1>7, <1>8, <1>9, <1>10 DEF NodeUpdate, n

\* HostInv holds in every state, under every fault, and through late updates.
THEOREM HostInvariant == Spec => []HostInv
<1>1. Init => HostInv
  BY ConstantsAssumption
     DEF Init, HostInv, LockGuards, CordonIsAnnotated, SettledIsClean, NothingIsLate,
         LateLockIsOwn, LateNodeIsOld, PreparedInOrder, StoppingIsPending,
         FailureIsUndrained, StoppingHasNoUnit, UnitIsAwaited, RebootingIsMarked,
         MarkGoesLast, Critical, Settled
<1>2. HostInv /\ UNCHANGED vars => HostInv'
  BY DEF HostInv, LockGuards, CordonIsAnnotated, SettledIsClean, NothingIsLate,
         LateLockIsOwn, LateNodeIsOld, PreparedInOrder, StoppingIsPending,
         FailureIsUndrained, StoppingHasNoUnit, UnitIsAwaited, RebootingIsMarked,
         MarkGoesLast, vars, locks, daemon, machine, object, cordon, conditions
<1>3. TypeOK /\ TypeOK' /\ HostInv /\ [Next]_vars => HostInv'
  BY <1>2, StepKeepsHostInv, LateLockKeepsHostInv, LateNodeKeepsHostInv DEF Next
<1>4. QED
  BY <1>1, <1>3, TypeCorrect, PTL DEF Spec

\* A daemon between AcquireLock and the end of ReleaseLock owns the lock.
THEOREM LockIsGuard == Spec => []LockGuards
BY HostInvariant, PTL DEF HostInv

\* A node whose daemon waits for its schedule or for the lock is in service, and without
\* late updates it is also rebooted, with nothing left of its drain.
THEOREM ReadyNodesAreClean == Spec => []ReadyIsClean
<1>1. HostInv => ReadyIsClean
  BY DEF HostInv, SettledIsClean, Settled, NothingIsLate, ReadyIsClean
<1>2. QED
  BY <1>1, HostInvariant, PTL

\* With --drain the lock is held for as long as the host takes to go down and boot.
THEOREM LockIsHeldDuringReboot == ASSUME Drain PROVE Spec => []LockHeldDuringReboot
<1>1. HostInv => LockHeldDuringReboot
  BY DEF HostInv, StoppingIsPending, LockHeldDuringReboot
<1>2. QED
  BY <1>1, HostInvariant, PTL

\* A condition that announces a reboot has its annotation.
THEOREM RebootingNodesAreMarked == Spec => []RebootingIsMarked
BY HostInvariant, PTL DEF HostInv

\* A cordoned node has the annotation by which it is uncordoned.
THEOREM CordonsAreAnnotated == Spec => []CordonIsAnnotated
BY HostInvariant, PTL DEF HostInv

\* Daemons that are not killed, whose requests to systemd are answered, and that can
\* open the journal, upgrade one host at a time.
THEOREM UpgradesExclude ==
  ASSUME Faults \cap {"kill", "journal", "exec"} = {}
  PROVE  Spec => []OneHostUpgrades
<1>1. HostInv => OneHostUpgrades
  BY DEF HostInv, UnitIsAwaited, LockGuards, Critical, OneHostUpgrades
<1>2. QED
  BY <1>1, HostInvariant, PTL

\* A request without an answer leaves the Node objects of the other nodes alone.
LEMMA NoAnswerIsLocal ==
  ASSUME TypeOK, NEW n \in Nodes, NoAnswer(n), NEW m \in Nodes, m # n
  PROVE  UNCHANGED <<drained[m], unschedulable[m], mark[m], upgrades[m], reboots[m]>>
<1>1. CASE Abandon(n) \/ UNCHANGED object
  BY <1>1 DEF Abandon, object, cordon, conditions
<1>2. QED
  BY <1>1, NoAnswerCases
     DEF TypeOK, WriteRebooted, WriteUnmarked, WriteSchedulable, WriteConditions,
         WriteDrained, WriteMark, WriteRebooting, cordon, conditions

\* A step of a node leaves the other nodes alone.
LEMMA StepIsLocal ==
  ASSUME TypeOK, NEW n \in Nodes, Action(n), NEW m \in Nodes, m # n
  PROVE  UNCHANGED <<pc[m], status[m], host[m], unit[m], required[m], drained[m],
                     unschedulable[m], mark[m], upgrades[m], reboots[m]>>
<1> USE DEF TypeOK, Goto, Moves, machine, daemon, Exit, object, cordon, conditions
<1>1. CASE Makes(n)
  BY <1>1 DEF Makes, Start, CheckReboot, SetRebooted, ClearMark, ClearDrain, TestLock,
              ReleaseLeft, WriteRebooted, WriteUnmarked, WriteSchedulable
<1>2. CASE MakeFaults(n)
  BY <1>2, NoAnswerIsLocal DEF MakeFaults, SetRebootedFails, StartupFails
<1>3. CASE Upgrades(n)
  <2>1. CASE UpdateHostStatus(n)
    BY <2>1 DEF UpdateHostStatus, WriteConditions
  <2>2. CASE Wait(n)
    BY <2>2 DEF Wait, UpgradeError, Upgraded
  <2>3. QED
    BY <1>3, <2>1, <2>2
       DEF Upgrades, Trigger, AcquireLock, AcquireExpires, ExecStart, ExecRefused,
           OpenJournal, UpgradeError
<1>4. CASE UpgradeFaults(n)
  <2>1. CASE AcquireFails(n) \/ ReportFails(n)
    BY <2>1, NoAnswerIsLocal DEF AcquireFails, ReportFails
  <2>2. QED
    BY <1>4, <2>1
       DEF UpgradeFaults, ExecFails, OpenJournalFails, ReadOutputFails, WaitHangs,
           UnitFails, UpgradeError
<1>5. CASE Reboots(n)
  BY <1>5 DEF Reboots, AnnotateDrain, Cordon, Evict, MarkReboot, MarkCondition,
              RebootHost, RebootTimeout, WriteDrained, WriteMark, WriteRebooting
<1>6. CASE RebootFaults(n)
  BY <1>6, NoAnswerIsLocal
     DEF RebootFaults, PrepareFails, DrainFails, RebootLost, RebootFails
<1>7. CASE Ends(n) \/ EndFaults(n)
  BY <1>7, NoAnswerIsLocal
     DEF Ends, EndFaults, ReleaseLock, Fail, ReleaseFails, HostResets, Boot
<1>8. CASE Kill(n) \/ UnitDone(n) \/ HostBoots(n)
  BY <1>8 DEF Kill, Abandon, UnitDone, HostBoots, Boot
<1>9. QED
  BY <1>1, <1>2, <1>3, <1>4, <1>5, <1>6, <1>7, <1>8 DEF Action, Step, Fault

-----------------------------------------------------------------------------
(* When hosts are rebooted *)

\* A host goes down by RebootHost only (HostResets boots it in the same step).
LEMMA OnlyRebootStops ==
  ASSUME TypeOK, NEW n \in Nodes, Action(n)
  PROVE  RebootHost(n) \/ \A m \in Nodes : host'[m] = host[m] \/ host'[m] = "up"
<1> USE DEF machine, Moves, TypeOK
<1>1. CASE Makes(n) \/ MakeFaults(n)
  BY <1>1 DEF Makes, MakeFaults, Start, CheckReboot, SetRebooted, ClearMark, ClearDrain,
              TestLock, ReleaseLeft, SetRebootedFails, StartupFails
<1>2. CASE Upgrades(n)
  BY <1>2 DEF Upgrades, Trigger, AcquireLock, AcquireExpires, ExecStart, ExecRefused,
              OpenJournal, Wait, UpdateHostStatus
<1>3. CASE UpgradeFaults(n)
  BY <1>3 DEF UpgradeFaults, AcquireFails, ReportFails, ExecFails, OpenJournalFails,
              ReadOutputFails, WaitHangs, UnitFails
<1>4. CASE Reboots(n)
  BY <1>4 DEF Reboots, AnnotateDrain, Cordon, Evict, MarkReboot, MarkCondition,
              RebootTimeout
<1>5. CASE RebootFaults(n)
  BY <1>5 DEF RebootFaults, PrepareFails, DrainFails, RebootLost, RebootFails
<1>6. CASE Ends(n) \/ EndFaults(n)
  BY <1>6 DEF Ends, EndFaults, ReleaseLock, Fail, ReleaseFails, HostResets, Boot
<1>7. CASE Kill(n) \/ UnitDone(n) \/ HostBoots(n)
  BY <1>7 DEF Kill, UnitDone, HostBoots, Boot
<1>8. QED
  BY <1>1, <1>2, <1>3, <1>4, <1>5, <1>6, <1>7 DEF Action, Step, Fault

\* A host is rebooted with the lock, for an upgrade that is over and requires it, and
\* with --drain when its node is drained and marked.
THEOREM HostsRebootWhenReady == Spec => RebootsWhenReady
<1>1. ASSUME TypeOK, HostInv, Next, NEW m \in Nodes,
             host[m] = "up", host'[m] = "stopping"
      PROVE  /\ lock = m
             /\ Reboot /\ required[m]
             /\ unit[m] # "running"
             /\ Drain => unschedulable[m] /\ mark[m] = "pending"
  <2>1. PICK n \in Nodes : Action(n)
    BY <1>1 DEF Next, LateLock, LateNode, machine
  <2>2. RebootHost(n)
    BY <1>1, <2>1, OnlyRebootStops
  <2>3. n = m /\ pc[m] = "reboot"
    BY <1>1, <2>2 DEF RebootHost, TypeOK
  <2>4. QED
    BY <1>1, <2>3 DEF HostInv, LockGuards, PreparedInOrder, Critical
<1>2. TypeOK /\ HostInv /\ Next => RebootIsReady
  BY <1>1 DEF RebootIsReady
<1>3. TypeOK /\ HostInv /\ [Next]_vars => [RebootIsReady]_vars
  BY <1>2
<1>4. QED
  BY <1>3, TypeCorrect, HostInvariant, PTL DEF Spec, RebootsWhenReady

-----------------------------------------------------------------------------
(* The daemons as users of the lock service *)

Inside == {n \in Nodes : pc[n] \in Critical}

\* A step that leaves the lock, and does not get into the critical section.
Keeps(n) ==
    /\ UNCHANGED lock
    /\ \A m \in Nodes : m # n => pc'[m] = pc[m]
    /\ pc'[n] \in Critical => pc[n] \in Critical

\* A step that frees the lock out of the critical section.
Frees(n) ==
    /\ lock = n
    /\ lock' = Free
    /\ \A m \in Nodes : m # n => pc'[m] = pc[m]
    /\ pc[n] \notin Critical /\ pc'[n] \notin Critical

\* A step that takes the lock without an answer.
Grants(n) ==
    /\ lock = Free
    /\ lock' = n
    /\ UNCHANGED pc

LEMMA NoAnswerOfLock ==
  ASSUME NEW n \in Nodes, NoAnswer(n)
  PROVE  \/ UNCHANGED lock
         \/ pc[n] \in {"releaseLeft", "release", "fail"} /\ lock = n /\ lock' = Free
         \/ pc[n] = "acquire" /\ lock = Free /\ lock' = n
BY NoAnswerCases DEF Abandon, WriteFree, WriteLock, locks

\* Only AcquireLock and an attempt without its answer take the lock; only a node
\* outside of its critical section frees it.
LEMMA StepOfService ==
  ASSUME TypeOK, NEW n \in Nodes, Action(n)
  PROVE  AcquireLock(n) \/ Grants(n) \/ Keeps(n) \/ Frees(n)
<1> USE DEF TypeOK, Keeps, Frees, Critical, Goto, Moves, Exit, locks, daemon
<1>1. CASE Makes(n)
  BY <1>1 DEF Makes, Start, CheckReboot, SetRebooted, ClearMark, ClearDrain, TestLock,
              ReleaseLeft, WriteFree, WriteLock
<1>2. CASE MakeFaults(n)
  BY <1>2, NoAnswerOfLock DEF MakeFaults, SetRebootedFails, StartupFails, Startup
<1>3. CASE Upgrades(n)
  BY <1>3 DEF Upgrades, Trigger, AcquireExpires, ExecStart, ExecRefused, OpenJournal,
              Wait, UpdateHostStatus, UpgradeError, Upgraded, AfterUpgrade
<1>4. CASE UpgradeFaults(n)
  <2>1. CASE AcquireFails(n)
    BY <2>1, NoAnswerOfLock DEF AcquireFails, Grants
  <2>2. CASE ReportFails(n)
    BY <2>2, NoAnswerOfLock DEF ReportFails, AfterUpgrade
  <2>3. QED
    BY <1>4, <2>1, <2>2
       DEF UpgradeFaults, ExecFails, OpenJournalFails, ReadOutputFails, WaitHangs,
           UnitFails, UpgradeError
<1>5. CASE Reboots(n)
  BY <1>5 DEF Reboots, AnnotateDrain, Cordon, Evict, MarkReboot, MarkCondition,
              RebootHost, RebootTimeout
<1>6. CASE RebootFaults(n)
  BY <1>6, NoAnswerOfLock
     DEF RebootFaults, PrepareFails, DrainFails, RebootLost, RebootFails
<1>7. CASE Ends(n) \/ EndFaults(n)
  BY <1>7, NoAnswerOfLock
     DEF Ends, EndFaults, ReleaseLock, Fail, ReleaseFails, HostResets, Boot, Forget,
         WriteFree, WriteLock
<1>8. CASE Kill(n) \/ UnitDone(n) \/ HostBoots(n)
  BY <1>8 DEF Kill, Abandon, UnitDone, HostBoots, Boot, Forget
<1>9. QED
  BY <1>1, <1>2, <1>3, <1>4, <1>5, <1>6, <1>7, <1>8 DEF Action, Step, Fault

LEMMA ServiceStep ==
  ASSUME TypeOK, HostInv, [Next]_vars
  PROVE  [Service!Next]_(Service!vars)
<1> DEFINE Abstract == Service!Next \/ UNCHANGED <<lock, Inside>>
<1>1. ASSUME NEW n \in Nodes, AcquireLock(n)
      PROVE  Abstract
  <2>1. Service!Enter(n)
    BY <1>1 DEF AcquireLock, WriteLock, Goto, TypeOK, Critical, Service!Enter
  <2>2. QED
    BY <2>1 DEF Service!Next
<1>2. ASSUME NEW n \in Nodes, Grants(n)
      PROVE  Abstract
  <2>1. Service!Grant(n)
    BY <1>2 DEF Grants, Service!Grant
  <2>2. QED
    BY <2>1 DEF Service!Next
<1>3. ASSUME NEW n \in Nodes, Keeps(n)
      PROVE  Abstract
  <2>1. CASE pc[n] \in Critical /\ pc'[n] \notin Critical
    <3>1. Service!Leave(n)
      BY <1>3, <2>1 DEF Keeps, Service!Leave
    <3>2. QED
      BY <3>1 DEF Service!Next
  <2>2. CASE pc[n] \in Critical <=> pc'[n] \in Critical
    BY <1>3, <2>2 DEF Keeps, Inside
  <2>3. QED
    BY <1>3, <2>1, <2>2 DEF Keeps
<1>4. ASSUME NEW n \in Nodes, Frees(n)
      PROVE  Abstract
  <2>1. Service!Drop(n)
    BY <1>4 DEF Frees, Service!Drop
  <2>2. QED
    BY <2>1 DEF Service!Next
<1>5. ASSUME LateLock
      PROVE  Abstract
  <2>1. PICK request \in lateLock : WriteLock(request[2])
    BY <1>5 DEF LateLock
  <2>2. request[1] \in Nodes /\ UNCHANGED pc
    BY <1>5 DEF TypeOK, LateLock, daemon
  <2>3. Grants(request[1]) \/ Frees(request[1])
    BY <2>1, <2>2
       DEF HostInv, LateLockIsOwn, WriteLock, Grants, Frees, Critical, Startup
  <2>4. QED
    BY <1>2, <1>4, <2>2, <2>3
<1>6. ASSUME LateNode \/ UNCHANGED vars
      PROVE  Abstract
  BY <1>6 DEF LateNode, vars, locks, daemon, Inside
<1>7. Abstract
  BY <1>1, <1>2, <1>3, <1>4, <1>5, <1>6, StepOfService DEF Next
<1>8. QED
  BY <1>7 DEF Inside, Service!vars

\* The daemons take and free the lock as LockService has it, also by attempts whose
\* answer is lost and by updates that are applied late.
THEOREM DaemonsUseLockService == Spec => UsesLockService
<1>1. Init => Service!Init
  BY DEF Init, Service!Init, Critical
<1>2. QED
  BY <1>1, ServiceStep, TypeCorrect, HostInvariant, PTL
     DEF Spec, UsesLockService, Service!Spec

-----------------------------------------------------------------------------
(* The mark of a reboot *)

\* Not past clearNodeReboot.
Before == {"exited", "checkReboot"}

\* What a step of one daemon, or of its host, may do to its mark.
MarkMove(n) ==
  /\ pc' = [pc EXCEPT ![n] = pc'[n]]
  /\ \/ /\ mark' = mark
        /\ pc'[n] \in Before \/ pc[n] \notin Before \/ mark[n] # "pending"
     \/ /\ mark' = [mark EXCEPT ![n] = "none"]
        /\ mark[n] # "pending" \/ "late" \in Faults
        /\ pc[n] \notin Before
     \/ /\ mark' = [mark EXCEPT ![n] = "pending"]
        /\ pc[n] \notin Before /\ pc'[n] \notin Before
     \/ /\ mark' = [mark EXCEPT ![n] = IF @ = "pending" THEN "done" ELSE @]
        /\ pc'[n] \in Before

\* Without late updates no daemon clears the mark of a reboot that is still to come.
LEMMA ClearIsDue ==
  ASSUME HostInv, NEW n \in Nodes, pc[n] = "clearMark"
  PROVE  mark[n] # "pending" \/ "late" \in Faults
BY DEF HostInv, NothingIsLate

LEMMA NoAnswerOfMark ==
  ASSUME TypeOK, HostInv, NEW n \in Nodes, NoAnswer(n)
  PROVE  \/ mark' = mark
         \/ /\ pc[n] = "clearMark" /\ mark' = [mark EXCEPT ![n] = "none"]
            /\ mark[n] # "pending" \/ "late" \in Faults
         \/ pc[n] = "mark" /\ mark' = [mark EXCEPT ![n] = "pending"]
BY NoAnswerCases, ClearIsDue
   DEF Abandon, WriteRebooted, WriteUnmarked, WriteSchedulable, WriteConditions,
       WriteDrained, WriteMark, WriteRebooting, object

LEMMA StepIsMarkMove ==
  ASSUME TypeOK, HostInv, NEW n \in Nodes, Action(n)
  PROVE  MarkMove(n)
<1> USE DEF TypeOK, MarkMove, Before, Goto, Moves, object
<1>1. CASE Makes(n)
  BY <1>1, ClearIsDue
     DEF Makes, Start, CheckReboot, SetRebooted, ClearMark, ClearDrain, TestLock,
         ReleaseLeft, WriteRebooted, WriteUnmarked, WriteSchedulable
<1>2. CASE MakeFaults(n)
  BY <1>2, NoAnswerOfMark DEF MakeFaults, SetRebootedFails, StartupFails, Startup, Exit
<1>3. CASE Upgrades(n)
  <2>1. CASE UpdateHostStatus(n)
    BY <2>1 DEF UpdateHostStatus, WriteConditions, AfterUpgrade
  <2>2. CASE Wait(n)
    BY <2>2 DEF Wait, UpgradeError, Upgraded
  <2>3. QED
    BY <1>3, <2>1, <2>2
       DEF Upgrades, Trigger, AcquireLock, AcquireExpires, ExecStart, ExecRefused,
           OpenJournal, UpgradeError, Exit
<1>4. CASE UpgradeFaults(n)
  <2>1. CASE AcquireFails(n) \/ ReportFails(n)
    BY <2>1, NoAnswerOfMark DEF AcquireFails, ReportFails, AfterUpgrade, daemon
  <2>2. QED
    BY <1>4, <2>1
       DEF UpgradeFaults, ExecFails, OpenJournalFails, ReadOutputFails, WaitHangs,
           UnitFails, UpgradeError, daemon
<1>5. CASE Reboots(n)
  BY <1>5 DEF Reboots, AnnotateDrain, Cordon, Evict, MarkReboot, MarkCondition,
              RebootHost, RebootTimeout, WriteDrained, WriteMark, WriteRebooting, Exit
<1>6. CASE RebootFaults(n)
  BY <1>6, NoAnswerOfMark
     DEF RebootFaults, PrepareFails, DrainFails, RebootLost, RebootFails
<1>7. CASE Ends(n) \/ EndFaults(n)
  BY <1>7, NoAnswerOfMark
     DEF Ends, EndFaults, ReleaseLock, Fail, ReleaseFails, HostResets, Boot, Exit
<1>8. CASE Kill(n) \/ UnitDone(n) \/ HostBoots(n)
  BY <1>8 DEF Kill, Abandon, UnitDone, HostBoots, Boot, Exit, daemon
<1>9. QED
  BY <1>1, <1>2, <1>3, <1>4, <1>5, <1>6, <1>7, <1>8 DEF Action, Step, Fault

LEMMA MarkMoveIsService ==
  ASSUME TypeOK, NEW n \in Nodes, MarkMove(n), NEW m \in Nodes
  PROVE  [MarkService(m)!Next]_(MarkService(m)!vars)
<1> USE DEF TypeOK, MarkMove, Before, MarkService!vars
<1>1. CASE m # n
  BY <1>1
<1>2. CASE m = n
  BY <1>2 DEF MarkService!Next, MarkService!Pass, MarkService!Clear, MarkService!Write,
              MarkService!Stop, MarkService!Boot
<1>3. QED
  BY <1>1, <1>2

\* An update of the Node that is applied late clears a mark, sets one or leaves it.
LEMMA LateNodeIsService ==
  ASSUME TypeOK, HostInv, LateNode, NEW m \in Nodes
  PROVE  [MarkService(m)!Next]_(MarkService(m)!vars)
<1>1. PICK request \in lateNode : NodeUpdate(request[1], request[2], request[3])
  BY DEF LateNode
<1>2. "late" \in Faults /\ UNCHANGED pc /\ request[1] \in Nodes
  BY DEF HostInv, NothingIsLate, LateNode, daemon, TypeOK
<1>3. mark'[m] \in {mark[m], "none", "pending"}
  BY <1>1, <1>2
     DEF TypeOK, NodeUpdate, WriteRebooted, WriteUnmarked, WriteSchedulable,
         WriteConditions, WriteDrained, WriteMark, WriteRebooting
<1>4. (pc[m] \notin Before) \in BOOLEAN
  OBVIOUS
<1>5. QED
  BY <1>2, <1>3, <1>4
     DEF Before, MarkService!Next, MarkService!Clear, MarkService!LateWrite,
         MarkService!vars

\* The daemons and hosts use the mark as RebootMark has it.
THEOREM DaemonsUseRebootMark == Spec => UsesRebootMark
<1>1. Init => \A n \in Nodes : MarkService(n)!Init
  BY DEF Init, MarkService!Init
<1>2. ASSUME TypeOK, HostInv, [Next]_vars
      PROVE  [\A n \in Nodes : [MarkService(n)!Next]_(MarkService(n)!vars)]_vars
  <2>1. CASE UNCHANGED vars
    BY <2>1
  <2>2. ASSUME NEW n \in Nodes, Action(n)
        PROVE  \A m \in Nodes : [MarkService(m)!Next]_(MarkService(m)!vars)
    BY <1>2, <2>2, StepIsMarkMove, MarkMoveIsService
  <2>3. CASE LateLock
    BY <2>3 DEF LateLock, daemon, object, MarkService!vars
  <2>4. CASE LateNode
    BY <1>2, <2>4, LateNodeIsService
  <2>5. QED
    BY <1>2, <2>1, <2>2, <2>3, <2>4 DEF Next
<1>3. QED
  BY <1>1, <1>2, TypeCorrect, HostInvariant, PTL DEF Spec, UsesRebootMark

-----------------------------------------------------------------------------
(* The call of the upgrade *)

\* Where a daemon is not in the call, or gets out of it.
LEMMA StepAround ==
  ASSUME TypeOK, TypeOK', NEW n \in Nodes,
         UNCHANGED <<unit[n], required[n]>>,
         pc'[n] \notin {"start", "journal", "wait", "hung", "report"}
  PROVE  [UpgradeCall(n)!Next]_(UpgradeCall(n)!vars)
<1>1. UpgradePhase(n)' = "out"
  BY DEF UpgradePhase
<1>2. status'[n] = NoStatus
  BY DEF TypeOK
<1>3. QED
  BY <1>1, <1>2 DEF UpgradeCall!Next, UpgradeCall!Leave, NoStatus, UpgradeCall!NoStatus

LEMMA StepIsUpgradeMove ==
  ASSUME TypeOK, TypeOK', NEW n \in Nodes, Action(n)
  PROVE  [UpgradeCall(n)!Next]_(UpgradeCall(n)!vars)
<1> USE DEF TypeOK, Goto, Moves, machine, daemon
<1>1. CASE Makes(n) \/ MakeFaults(n)
  BY <1>1, StepAround
     DEF Makes, Start, CheckReboot, SetRebooted, ClearMark, ClearDrain, TestLock,
         ReleaseLeft, MakeFaults, SetRebootedFails, StartupFails, Exit
<1>2. CASE Upgrades(n)
  <2>1. CASE Trigger(n) \/ AcquireExpires(n)
    BY <2>1, StepAround DEF Trigger, AcquireExpires, Exit
  <2>2. CASE AcquireLock(n)
    <3>1. UpgradePhase(n) = "out" /\ UpgradePhase(n)' = "called"
      BY <2>2 DEF AcquireLock, UpgradePhase
    <3>2. UNCHANGED <<status[n], unit[n], required[n]>>
      BY <2>2 DEF AcquireLock
    <3>3. QED
      BY <3>1, <3>2 DEF UpgradeCall!Next, UpgradeCall!Call
  <2>3. CASE ExecStart(n)
    <3>1. UpgradePhase(n) = "called" /\ UpgradePhase(n)' = "awaits"
      BY <2>3 DEF ExecStart, UpgradePhase
    <3>2. /\ unit[n] # "running" /\ unit'[n] = "running"
          /\ UNCHANGED <<status[n], required[n]>>
      BY <2>3 DEF ExecStart
    <3>3. QED
      BY <3>1, <3>2 DEF UpgradeCall!Next, UpgradeCall!Start
  <2>4. CASE ExecRefused(n)
    <3>1. UpgradePhase(n) = "called" /\ UpgradePhase(n)' = "returned"
      BY <2>4 DEF ExecRefused, UpgradeError, UpgradePhase
    <3>2. /\ status'[n] = [failed |-> TRUE, required |-> FALSE]
          /\ UNCHANGED <<unit[n], required[n]>>
      BY <2>4 DEF ExecRefused, UpgradeError
    <3>3. QED
      BY <3>1, <3>2 DEF UpgradeCall!Next, UpgradeCall!Fail
  <2>5. CASE OpenJournal(n)
    <3>1. UNCHANGED <<UpgradePhase(n), status[n], unit[n], required[n]>>
      BY <2>5 DEF OpenJournal, UpgradePhase
    <3>2. QED
      BY <3>1 DEF UpgradeCall!vars
  <2>6. CASE Wait(n)
    <3>1. UpgradePhase(n) = "awaits" /\ UpgradePhase(n)' = "returned"
      BY <2>6 DEF Wait, UpgradeError, Upgraded, UpgradePhase
    <3>2. UNCHANGED <<unit[n], required[n]>>
      BY <2>6 DEF Wait
    <3>3. CASE unit[n] = "failed" /\ UpgradeError(n, FALSE)
      <4>1. status'[n] = [failed |-> TRUE, required |-> FALSE]
        BY <3>3 DEF UpgradeError
      <4>2. QED
        BY <3>1, <3>2, <4>1 DEF UpgradeCall!Next, UpgradeCall!Fail
    <3>4. CASE unit[n] # "failed" /\ Upgraded(n)
      <4>1. /\ unit[n] = "inactive"
            /\ status'[n] = [failed |-> FALSE, required |-> required[n]]
        BY <2>6, <3>4 DEF Wait, Upgraded
      <4>2. QED
        BY <3>1, <3>2, <4>1 DEF UpgradeCall!Next, UpgradeCall!Succeed
    <3>5. QED
      BY <2>6, <3>3, <3>4 DEF Wait
  <2>7. CASE UpdateHostStatus(n)
    BY <2>7, StepAround DEF UpdateHostStatus, AfterUpgrade
  <2>8. QED
    BY <1>2, <2>1, <2>2, <2>3, <2>4, <2>5, <2>6, <2>7 DEF Upgrades
<1>3. CASE UpgradeFaults(n)
  <2>1. CASE OpenJournalFails(n) \/ ReadOutputFails(n)
    <3>1. UpgradePhase(n) = "awaits" /\ UpgradePhase(n)' = "returned"
      BY <2>1 DEF OpenJournalFails, ReadOutputFails, UpgradeError, UpgradePhase
    <3>2. UNCHANGED <<unit[n], required[n]>>
      BY <2>1 DEF OpenJournalFails, ReadOutputFails
    <3>3. PICK s \in {FALSE, required[n]} :
                 status'[n] = [failed |-> TRUE, required |-> s]
      BY <2>1 DEF OpenJournalFails, ReadOutputFails, UpgradeError
    <3>4. status'[n] \in {[failed |-> TRUE, required |-> r] : r \in {FALSE, required[n]}}
      BY <3>3
    <3>5. UpgradeCall(n)!Fail
      BY <3>1, <3>2, <3>4 DEF UpgradeCall!Fail
    <3>6. QED
      BY <3>5 DEF UpgradeCall!Next
  <2>2. CASE WaitHangs(n)
    <3>1. UNCHANGED <<UpgradePhase(n), status[n], unit[n], required[n]>>
      BY <2>2 DEF WaitHangs, UpgradePhase
    <3>2. QED
      BY <3>1 DEF UpgradeCall!vars
  <2>3. CASE UnitFails(n)
    <3>1. UNCHANGED <<UpgradePhase(n), status[n], required[n]>>
      BY <2>3 DEF UnitFails, UpgradePhase
    <3>2. unit[n] = "running" /\ unit'[n] = "failed"
      BY <2>3 DEF UnitFails
    <3>3. QED
      BY <3>1, <3>2 DEF UpgradeCall!Next, UpgradeCall!Script
  <2>4. CASE AcquireFails(n)
    BY <2>4 DEF AcquireFails, UpgradePhase, UpgradeCall!vars
  <2>5. CASE ReportFails(n)
    BY <2>5, StepAround DEF ReportFails, AfterUpgrade
  <2>6. CASE ExecFails(n)
    <3>1. UpgradePhase(n) = "called" /\ UpgradePhase(n)' = "returned"
      BY <2>6 DEF ExecFails, UpgradeError, UpgradePhase
    <3>2. /\ status'[n] = [failed |-> TRUE, required |-> FALSE]
          /\ unit'[n] = unit[n] \/ (unit[n] # "running" /\ unit'[n] = "running")
          /\ UNCHANGED required[n]
      BY <2>6 DEF ExecFails, UpgradeError
    <3>3. UpgradeCall(n)!Fail
      BY <3>1, <3>2 DEF UpgradeCall!Fail
    <3>4. QED
      BY <3>3 DEF UpgradeCall!Next
  <2>7. QED
    BY <1>3, <2>1, <2>2, <2>3, <2>4, <2>5, <2>6 DEF UpgradeFaults
<1>4. CASE Reboots(n) \/ RebootFaults(n)
  BY <1>4, StepAround
     DEF Reboots, AnnotateDrain, Cordon, Evict, MarkReboot, MarkCondition, RebootHost,
         RebootTimeout, RebootFaults, PrepareFails, DrainFails, RebootLost, RebootFails,
         Exit
<1>5. CASE UnitDone(n)
  <2>1. UNCHANGED <<UpgradePhase(n), status[n]>>
    BY <1>5 DEF UnitDone, UpgradePhase
  <2>2. /\ unit[n] = "running" /\ unit'[n] = "inactive"
        /\ required[n] => required'[n]
    BY <1>5 DEF UnitDone
  <2>3. QED
    BY <2>1, <2>2 DEF UpgradeCall!Next, UpgradeCall!Script
<1>6. CASE Boot(n)
  <2>1. UpgradePhase(n)' = "out"
    BY <1>6 DEF Boot, Exit, UpgradePhase
  <2>2. status'[n] = NoStatus /\ unit'[n] = "inactive" /\ required'[n] = FALSE
    BY <1>6 DEF Boot, Exit
  <2>3. QED
    BY <2>1, <2>2 DEF UpgradeCall!Next, UpgradeCall!Boot, NoStatus, UpgradeCall!NoStatus
<1>7. CASE ReleaseLock(n) \/ Fail(n) \/ ReleaseFails(n) \/ Kill(n)
  BY <1>7, StepAround DEF ReleaseLock, Fail, ReleaseFails, Kill, Exit
<1>8. QED
  BY <1>1, <1>2, <1>3, <1>4, <1>5, <1>6, <1>7
     DEF Action, Step, Fault, Ends, EndFaults, HostBoots, HostResets

\* Every node calls Upgrade as UpgradeService has it.
THEOREM DaemonsUseUpgradeService == Spec => UsesUpgradeService
<1>1. Init => \A n \in Nodes : UpgradeCall(n)!Init
  BY DEF Init, UpgradePhase, UpgradeCall!Init, NoStatus, UpgradeCall!NoStatus
<1>2. ASSUME TypeOK, TypeOK', [Next]_vars
      PROVE  [\A n \in Nodes : [UpgradeCall(n)!Next]_(UpgradeCall(n)!vars)]_vars
  <2>1. CASE UNCHANGED vars
    BY <2>1
  <2>2. ASSUME NEW n \in Nodes, Action(n), NEW m \in Nodes
        PROVE  [UpgradeCall(m)!Next]_(UpgradeCall(m)!vars)
    <3>1. CASE m = n
      BY <1>2, <2>2, <3>1, StepIsUpgradeMove
    <3>2. CASE m # n
      <4>1. UNCHANGED <<pc[m], status[m], unit[m], required[m]>>
        BY <1>2, <2>2, <3>2, StepIsLocal
      <4>2. UNCHANGED UpgradePhase(m)
        BY <4>1 DEF UpgradePhase
      <4>3. QED
        BY <4>1, <4>2 DEF UpgradeCall!vars
    <3>3. QED
      BY <3>1, <3>2
  <2>3. CASE LateLock \/ LateNode
    BY <2>3 DEF LateLock, LateNode, daemon, machine, UpgradePhase, UpgradeCall!vars
  <2>4. QED
    BY <1>2, <2>1, <2>2, <2>3 DEF Next
<1>3. QED
  BY <1>1, <1>2, TypeCorrect, PTL DEF Spec, UsesUpgradeService

-----------------------------------------------------------------------------
(* The daemons as users of the Node object *)

\* A call has its effect on the Node object of n.
Takes(n, call) ==
    /\ call \in Node(n)!Calls
    /\ NodeOf(n)' = Node(n)!Effect(call, NodeOf(n))

LEMMA NodeStays ==
  ASSUME NEW n \in Nodes,
         UNCHANGED <<drained[n], unschedulable[n], upgrades[n], reboots[n]>>,
         (mark[n] = "none") <=> (mark'[n] = "none")
  PROVE  UNCHANGED NodeOf(n)
BY DEF NodeOf, Annotations, ConditionReasons

LEMMA NodeTyped ==
  ASSUME NEW n \in Nodes, TypeOK
  PROVE  /\ NodeOf(n) \in Node(n)!Objects
         /\ NodeOf(n).annotations = Annotations(n)
         /\ NodeOf(n).reasons = ConditionReasons(n)
         /\ NodeOf(n).unschedulable = unschedulable[n]
         /\ NodeOf(n).ready = TRUE
<1>1. Annotations(n) \in SUBSET {"drain", "reboot"}
  BY DEF Annotations
<1>2. ConditionReasons(n) \in
        [{"HostUpgrades", "HostUpgradesReboot"} ->
            {"none", "UpgradeFailed", "RebootRequired", "UpToDate", "Rebooting", "Rebooted"}]
  BY DEF ConditionReasons, TypeOK
<1>3. QED
  BY <1>1, <1>2 DEF NodeOf, TypeOK, Node!Objects

LEMMA NodeTypedNext ==
  ASSUME NEW n \in Nodes, TypeOK'
  PROVE  /\ NodeOf(n)' \in Node(n)!Objects
         /\ NodeOf(n)'.annotations = Annotations(n)'
         /\ NodeOf(n)'.reasons = ConditionReasons(n)'
         /\ NodeOf(n)'.unschedulable = unschedulable'[n]
         /\ NodeOf(n)'.ready = TRUE
<1>1. Annotations(n)' \in SUBSET {"drain", "reboot"}
  BY DEF Annotations
<1>2. ConditionReasons(n)' \in
        [{"HostUpgrades", "HostUpgradesReboot"} ->
            {"none", "UpgradeFailed", "RebootRequired", "UpToDate", "Rebooting", "Rebooted"}]
  BY DEF ConditionReasons, TypeOK
<1>3. QED
  BY <1>1, <1>2 DEF NodeOf, TypeOK, Node!Objects

\* The object after a step is the one with the same fields.
LEMMA NodeBecomes ==
  ASSUME NEW n \in Nodes, TypeOK', NEW o \in Node(n)!Objects,
         o.annotations = Annotations(n)', o.reasons = ConditionReasons(n)',
         o.unschedulable = unschedulable'[n], o.ready = TRUE
  PROVE  NodeOf(n)' = o
<1>1. NodeOf(n)' \in Node(n)!Objects
  BY NodeTypedNext
<1>2. \A p \in Node(n)!Objects :
        p.annotations = o.annotations /\ p.reasons = o.reasons
            /\ p.unschedulable = o.unschedulable /\ p.ready = o.ready => p = o
  BY DEF Node!Objects
<1>3. QED
  BY <1>1, <1>2, NodeTypedNext

\* The effects of the calls, by the variables in which HostUpgrades keeps the object.
LEMMA AnnotationEffect ==
  ASSUME NEW n \in Nodes, TypeOK, TypeOK', NEW call,
         UNCHANGED <<unschedulable[n], upgrades[n], reboots[n]>>,
         \/ /\ call = <<"SetAnnotation", "drain">>
            /\ drained'[n] = TRUE /\ UNCHANGED mark[n]
         \/ /\ call = <<"SetAnnotation", "reboot">>
            /\ UNCHANGED drained[n] /\ mark'[n] # "none"
         \/ /\ call = <<"ClearAnnotation", "reboot">>
            /\ UNCHANGED drained[n] /\ mark'[n] = "none"
  PROVE  Takes(n, call)
<1> DEFINE o == NodeOf(n)
           e == [o EXCEPT !.annotations = Annotations(n)']
<1>1. call \in Node(n)!Calls
  BY DEF Node!Calls
<1>2. /\ o \in Node(n)!Objects
      /\ o.annotations = Annotations(n)
      /\ o.reasons = ConditionReasons(n)'
      /\ o.unschedulable = unschedulable'[n]
      /\ o.ready = TRUE
  BY NodeTyped DEF ConditionReasons
<1> HIDE DEF o
<1>3. NodeOf(n)' = e
  <2>1. Annotations(n)' \in SUBSET {"drain", "reboot"}
    BY DEF Annotations
  <2>2. /\ e \in Node(n)!Objects
        /\ e.annotations = Annotations(n)'
        /\ e.reasons = o.reasons
        /\ e.unschedulable = o.unschedulable
        /\ e.ready = o.ready
    BY <1>2, <2>1 DEF Node!Objects
  <2> HIDE DEF e
  <2>3. QED
    BY <1>2, <2>2, NodeBecomes
<1>4. NodeOf(n)' = Node(n)!Effect(call, o)
  <2>1. CASE call = <<"SetAnnotation", "drain">>
    <3>1. Annotations(n)' = Annotations(n) \cup {"drain"}
      BY <2>1 DEF Annotations
    <3>2. QED
      BY <1>2, <1>3, <2>1, <3>1 DEF Node!Effect, Node!WithAnnotation
  <2>2. CASE call = <<"SetAnnotation", "reboot">>
    <3>1. Annotations(n)' = Annotations(n) \cup {"reboot"}
      BY <2>2 DEF Annotations
    <3>2. QED
      BY <1>2, <1>3, <2>2, <3>1 DEF Node!Effect, Node!WithAnnotation
  <2>3. CASE call = <<"ClearAnnotation", "reboot">>
    <3>1. Annotations(n)' = Annotations(n) \ {"reboot"}
      BY <2>3 DEF Annotations
    <3>2. QED
      BY <1>2, <1>3, <2>3, <3>1 DEF Node!Effect, Node!WithoutAnnotation
  <2>4. QED
    BY <2>1, <2>2, <2>3
<1>5. QED
  BY <1>1, <1>4 DEF Takes, o

LEMMA SchedulableEffect ==
  ASSUME NEW n \in Nodes, TypeOK, TypeOK', WriteSchedulable(n)
  PROVE  UNCHANGED NodeOf(n) \/ Takes(n, <<"SetSchedulableIfAnnotated", "drain">>)
<1> DEFINE o == NodeOf(n)
           w == Node(n)!WithoutAnnotation(o, "drain")
           e == [w EXCEPT !.unschedulable = FALSE]
<1>1. UNCHANGED <<upgrades[n], reboots[n], mark[n]>>
  BY DEF WriteSchedulable, conditions
<1>2. <<"SetSchedulableIfAnnotated", "drain">> \in Node(n)!Calls
  BY DEF Node!Calls
<1>3. drained'[n] = FALSE /\ unschedulable'[n] = (unschedulable[n] /\ ~drained[n])
  BY DEF WriteSchedulable, TypeOK
<1>4. CASE drained[n]
  <2>1. "drain" \in Annotations(n) /\ Annotations(n)' = Annotations(n) \ {"drain"}
    BY <1>1, <1>3, <1>4 DEF Annotations
  <2>2. /\ o \in Node(n)!Objects
        /\ o.annotations = Annotations(n)
        /\ o.reasons = ConditionReasons(n)'
        /\ o.ready = TRUE
    BY <1>1, NodeTyped DEF ConditionReasons
  <2> HIDE DEF o
  <2>3. /\ w \in Node(n)!Objects
        /\ w.annotations = Annotations(n)'
        /\ w.reasons = o.reasons
        /\ w.ready = o.ready
    BY <2>1, <2>2 DEF Node!Objects, Node!WithoutAnnotation
  <2>4. NodeOf(n)' = e
    <3> HIDE DEF w
    <3>1. /\ e \in Node(n)!Objects
          /\ e.annotations = w.annotations
          /\ e.reasons = w.reasons
          /\ e.unschedulable = FALSE
          /\ e.ready = w.ready
      BY <2>3 DEF Node!Objects
    <3>2. unschedulable'[n] = FALSE
      BY <1>3, <1>4
    <3> HIDE DEF e
    <3>3. QED
      BY <2>2, <2>3, <3>1, <3>2, NodeBecomes
  <2>5. NodeOf(n)' = Node(n)!Schedulable(o, "drain")
    BY <2>1, <2>2, <2>4 DEF Node!Schedulable
  <2>6. QED
    BY <1>2, <2>5 DEF Takes, Node!Effect, o
<1>5. CASE ~drained[n]
  BY <1>1, <1>3, <1>5, NodeStays DEF TypeOK
<1>6. QED
  BY <1>4, <1>5 DEF TypeOK

LEMMA ConditionEffect ==
  ASSUME NEW n \in Nodes, TypeOK, TypeOK', NEW change \in NodeChanges,
         UNCHANGED <<drained[n], unschedulable[n], mark[n]>>,
         upgrades'[n] = IF "HostUpgrades" \in DOMAIN change
                        THEN change["HostUpgrades"] ELSE upgrades[n],
         reboots'[n] = IF "HostUpgradesReboot" \in DOMAIN change
                       THEN change["HostUpgradesReboot"] ELSE reboots[n]
  PROVE  Takes(n, <<"SetCondition", change>>)
<1> DEFINE o == NodeOf(n)
           e == [o EXCEPT !.reasons = ConditionReasons(n)']
<1>1. <<"SetCondition", change>> \in Node(n)!Calls
  BY DEF Node!Calls
<1>2. ConditionReasons(n)' =
        [c \in {"HostUpgrades", "HostUpgradesReboot"} |->
            IF c \in DOMAIN change THEN change[c] ELSE ConditionReasons(n)[c]]
  BY DEF ConditionReasons
<1>3. /\ o \in Node(n)!Objects
      /\ o.annotations = Annotations(n)'
      /\ o.reasons = ConditionReasons(n)
      /\ o.unschedulable = unschedulable'[n]
      /\ o.ready = TRUE
  BY NodeTyped DEF Annotations
<1> HIDE DEF o
<1>4. NodeOf(n)' = e
  <2>1. ConditionReasons(n)' \in
          [{"HostUpgrades", "HostUpgradesReboot"} ->
              {"none", "UpgradeFailed", "RebootRequired", "UpToDate", "Rebooting", "Rebooted"}]
    BY DEF ConditionReasons, TypeOK
  <2>2. /\ e \in Node(n)!Objects
        /\ e.annotations = o.annotations
        /\ e.reasons = ConditionReasons(n)'
        /\ e.unschedulable = o.unschedulable
        /\ e.ready = o.ready
    BY <1>3, <2>1 DEF Node!Objects
  <2> HIDE DEF e
  <2>3. QED
    BY <1>3, <2>2, NodeBecomes
<1>5. NodeOf(n)' = Node(n)!WithConditions(o, change)
  BY <1>2, <1>3, <1>4 DEF Node!WithConditions
<1>6. QED
  BY <1>1, <1>5 DEF Takes, Node!Effect, o

LEMMA RebootConditionEffect ==
  ASSUME NEW n \in Nodes, TypeOK, TypeOK', NEW reason \in {"Rebooting", "Rebooted"},
         UNCHANGED <<drained[n], unschedulable[n], mark[n], upgrades[n]>>,
         reboots'[n] = reason
  PROVE  Takes(n, <<"SetCondition", [HostUpgradesReboot |-> reason]>>)
<1>1. [HostUpgradesReboot |-> reason] \in NodeChanges
  BY DEF NodeChanges
<1>2. QED
  BY <1>1, ConditionEffect

\* An update of the Node is the call that the daemon makes at that step.
LEMMA UpdateIsCall ==
  ASSUME TypeOK, TypeOK', NEW n \in Nodes, NEW label, NEW result \in Statuses,
         NodeUpdate(n, label, result)
  PROVE  UNCHANGED NodeOf(n) \/ Takes(n, CallAt(label, result))
<1> USE DEF TypeOK, cordon, conditions
<1>1. CASE label = "setRebooted" /\ WriteRebooted(n)
  <2>1. CallAt(label, result) = <<"SetCondition", [HostUpgradesReboot |-> "Rebooted"]>>
    BY <1>1 DEF CallAt
  <2>2. /\ UNCHANGED <<drained[n], unschedulable[n], mark[n], upgrades[n]>>
        /\ reboots'[n] = "Rebooted"
    BY <1>1 DEF WriteRebooted
  <2>3. QED
    BY <2>1, <2>2, RebootConditionEffect
<1>2. CASE label = "clearMark" /\ WriteUnmarked(n)
  <2>1. CallAt(label, result) = <<"ClearAnnotation", "reboot">>
    BY <1>2 DEF CallAt
  <2>2. /\ UNCHANGED <<drained[n], unschedulable[n], upgrades[n], reboots[n]>>
        /\ mark'[n] = "none"
    BY <1>2 DEF WriteUnmarked
  <2>3. QED
    BY <2>1, <2>2, AnnotationEffect
<1>3. CASE label = "clearDrain" /\ WriteSchedulable(n)
  BY <1>3, SchedulableEffect DEF CallAt
<1>4. CASE label = "report" /\ WriteConditions(n, result)
  <2> DEFINE change == [HostUpgrades |-> UpgradeReason(result),
                        HostUpgradesReboot |-> RebootReason(result)]
  <2>1. change \in NodeChanges
    BY DEF NodeChanges, UpgradeReason, RebootReason
  <2>2. CallAt(label, result) = <<"SetCondition", change>>
    BY <1>4 DEF CallAt
  <2>3. /\ upgrades'[n] = change["HostUpgrades"]
        /\ reboots'[n] = change["HostUpgradesReboot"]
        /\ "HostUpgrades" \in DOMAIN change /\ "HostUpgradesReboot" \in DOMAIN change
    BY <1>4 DEF WriteConditions
  <2>4. UNCHANGED <<drained[n], unschedulable[n], mark[n]>>
    BY <1>4 DEF WriteConditions
  <2> HIDE DEF change
  <2>5. QED
    BY <2>1, <2>2, <2>3, <2>4, ConditionEffect
<1>5. CASE label = "drain" /\ WriteDrained(n)
  <2>1. CallAt(label, result) = <<"SetAnnotation", "drain">>
    BY <1>5 DEF CallAt
  <2>2. /\ UNCHANGED <<mark[n], unschedulable[n], upgrades[n], reboots[n]>>
        /\ drained'[n] = TRUE
    BY <1>5 DEF WriteDrained
  <2>3. QED
    BY <2>1, <2>2, AnnotationEffect
<1>6. CASE label = "mark" /\ WriteMark(n)
  <2>1. CallAt(label, result) = <<"SetAnnotation", "reboot">>
    BY <1>6 DEF CallAt
  <2>2. /\ UNCHANGED <<drained[n], unschedulable[n], upgrades[n], reboots[n]>>
        /\ mark'[n] # "none"
    BY <1>6 DEF WriteMark
  <2>3. QED
    BY <2>1, <2>2, AnnotationEffect
<1>7. CASE label = "markCondition" /\ WriteRebooting(n)
  <2>1. CallAt(label, result) = <<"SetCondition", [HostUpgradesReboot |-> "Rebooting"]>>
    BY <1>7 DEF CallAt
  <2>2. /\ UNCHANGED <<drained[n], unschedulable[n], mark[n], upgrades[n]>>
        /\ reboots'[n] = "Rebooting"
    BY <1>7 DEF WriteRebooting
  <2>3. QED
    BY <2>1, <2>2, RebootConditionEffect
<1>8. QED
  BY <1>1, <1>2, <1>3, <1>4, <1>5, <1>6, <1>7 DEF NodeUpdate

\* The call that a daemon is in.
LEMMA CurrentUpdateIsNodeStep ==
  ASSUME TypeOK, TypeOK', NEW n \in Nodes, NodeUpdate(n, pc[n], status[n])
  PROVE  NodeStep(n)
<1>1. pc[n] \in NodeCalls /\ status[n] \in Statuses
  BY DEF NodeUpdate, NodeCalls, TypeOK
<1>2. CallAt(pc[n], status[n]) \in CallsOf(n)
  <2> DEFINE request == <<n, pc[n], status[n]>>
  <2>1. /\ request \in {r \in lateNode : r[1] = n}
                           \cup (IF pc[n] \in NodeCalls THEN {<<n, pc[n], status[n]>>} ELSE {})
        /\ request[2] = pc[n] /\ request[3] = status[n]
    BY <1>1
  <2> HIDE DEF request
  <2>2. QED
    BY <2>1 DEF CallsOf
<1>3. UNCHANGED NodeOf(n) \/ Takes(n, CallAt(pc[n], status[n]))
  BY <1>1, UpdateIsCall
<1>4. QED
  BY <1>2, <1>3 DEF NodeStep, Takes

LEMMA NoAnswerIsNodeStep ==
  ASSUME TypeOK, TypeOK', NEW n \in Nodes, NoAnswer(n)
  PROVE  NodeStep(n)
<1>1. CASE Abandon(n) \/ UNCHANGED object
  BY <1>1, NodeStays DEF Abandon, NodeStep, object, cordon, conditions
<1>2. QED
  BY <1>1, CurrentUpdateIsNodeStep DEF NoAnswer

LEMMA StepIsNodeStep ==
  ASSUME TypeOK, TypeOK', NEW n \in Nodes, Action(n)
  PROVE  NodeStep(n)
<1> USE DEF object, cordon, conditions
<1>1. UNCHANGED object => NodeStep(n)
  BY NodeStays DEF NodeStep
<1>2. CASE SetRebooted(n) \/ ClearMark(n) \/ ClearDrain(n) \/ UpdateHostStatus(n)
           \/ AnnotateDrain(n) \/ MarkReboot(n) \/ MarkCondition(n)
  <2>1. NodeUpdate(n, pc[n], status[n])
    BY <1>2 DEF SetRebooted, ClearMark, ClearDrain, UpdateHostStatus, AnnotateDrain,
                MarkReboot, MarkCondition, NodeUpdate
  <2>2. QED
    BY <2>1, CurrentUpdateIsNodeStep
<1>3. CASE Cordon(n)
  <2>1. UNCHANGED <<Annotations(n), ConditionReasons(n)>>
    BY <1>3 DEF Cordon, Annotations, ConditionReasons
  <2>2. NodeOf(n)' \in Node(n)!Others(NodeOf(n))
    BY <2>1, NodeTyped, NodeTypedNext DEF Node!Others
  <2>3. QED
    BY <1>3, <2>2 DEF Cordon, NodeStep
<1>4. CASE Boot(n)
  BY <1>4, NodeStays DEF Boot, NodeStep, TypeOK
<1>5. CASE Kill(n)
  BY <1>5, NodeStays DEF Kill, Abandon, NodeStep
<1>6. CASE Start(n) \/ CheckReboot(n) \/ TestLock(n) \/ ReleaseLeft(n)
  BY <1>1, <1>6 DEF Start, CheckReboot, TestLock, ReleaseLeft, Moves
<1>7. CASE Trigger(n) \/ AcquireLock(n) \/ AcquireExpires(n) \/ ExecStart(n)
           \/ ExecRefused(n) \/ OpenJournal(n) \/ Wait(n)
  BY <1>1, <1>7 DEF Trigger, AcquireLock, AcquireExpires, ExecStart, ExecRefused,
                    OpenJournal, Wait, Moves
<1>8. CASE ExecFails(n) \/ OpenJournalFails(n) \/ ReadOutputFails(n) \/ WaitHangs(n)
           \/ UnitFails(n) \/ UnitDone(n)
  BY <1>1, <1>8 DEF ExecFails, OpenJournalFails, ReadOutputFails, WaitHangs, UnitFails,
                    UnitDone, Moves
<1>9. CASE Evict(n) \/ RebootHost(n) \/ RebootTimeout(n) \/ DrainFails(n)
           \/ RebootLost(n) \/ RebootFails(n) \/ ReleaseLock(n) \/ Fail(n)
  BY <1>1, <1>9 DEF Evict, RebootHost, RebootTimeout, DrainFails, RebootLost, RebootFails,
                    ReleaseLock, Fail, Moves
<1>10. CASE SetRebootedFails(n) \/ StartupFails(n) \/ AcquireFails(n) \/ ReportFails(n)
            \/ PrepareFails(n) \/ ReleaseFails(n)
  BY <1>10, NoAnswerIsNodeStep DEF SetRebootedFails, StartupFails, AcquireFails,
                                   ReportFails, PrepareFails, ReleaseFails
<1>11. QED
  BY <1>2, <1>3, <1>4, <1>5, <1>6, <1>7, <1>8, <1>9, <1>10
     DEF Action, Step, Fault, Makes, MakeFaults, Upgrades, UpgradeFaults, Reboots,
         RebootFaults, Ends, EndFaults, HostBoots, HostResets

\* An update that is applied late is a call that its daemon has given up.
LEMMA LateNodeIsNodeStep ==
  ASSUME TypeOK, TypeOK', LateNode, NEW m \in Nodes
  PROVE  NodeStep(m)
<1>1. PICK request \in lateNode : NodeUpdate(request[1], request[2], request[3])
  BY DEF LateNode
<1>2. request[1] \in Nodes /\ request[3] \in Statuses
  BY DEF TypeOK
<1>3. CASE m = request[1]
  <2>1. UNCHANGED NodeOf(m) \/ Takes(m, CallAt(request[2], request[3]))
    BY <1>1, <1>2, <1>3, UpdateIsCall
  <2>2. CallAt(request[2], request[3]) \in CallsOf(m)
    BY <1>3 DEF CallsOf
  <2>3. QED
    BY <2>1, <2>2 DEF NodeStep, Takes
<1>4. CASE m # request[1]
  <2>1. UNCHANGED <<drained[m], unschedulable[m], mark[m], upgrades[m], reboots[m]>>
    BY <1>1, <1>2, <1>4
       DEF TypeOK, NodeUpdate, WriteRebooted, WriteUnmarked, WriteSchedulable,
           WriteConditions, WriteDrained, WriteMark, WriteRebooting, cordon, conditions
  <2>2. QED
    BY <2>1, NodeStays DEF NodeStep
<1>5. QED
  BY <1>3, <1>4

\* Every daemon changes its Node object as NodeService has it, by the call of its step or
\* by one that it has given up, whichever request fails: NodeObject may stand for each of
\* these updates.
THEOREM DaemonsUseNodeService == Spec => UsesNodeService
<1>1. ASSUME TypeOK, TypeOK', [Next]_vars
      PROVE  [\A n \in Nodes : NodeStep(n)]_vars
  <2>1. CASE UNCHANGED vars
    BY <2>1
  <2>2. ASSUME NEW n \in Nodes, Action(n), NEW m \in Nodes
        PROVE  NodeStep(m)
    <3>1. CASE m = n
      BY <1>1, <2>2, <3>1, StepIsNodeStep
    <3>2. CASE m # n
      <4>1. UNCHANGED <<drained[m], unschedulable[m], mark[m], upgrades[m], reboots[m]>>
        BY <1>1, <2>2, <3>2, StepIsLocal
      <4>2. QED
        BY <4>1, NodeStays DEF NodeStep
    <3>3. QED
      BY <3>1, <3>2
  <2>3. ASSUME LateLock, NEW m \in Nodes
        PROVE  NodeStep(m)
    BY <2>3, NodeStays DEF LateLock, NodeStep, object, cordon, conditions
  <2>4. QED
    BY <1>1, <2>1, <2>2, <2>3, LateNodeIsNodeStep DEF Next
<1>2. QED
  BY <1>1, TypeCorrect, PTL DEF Spec, UsesNodeService

-----------------------------------------------------------------------------
(* The rolling reboot of the cluster *)

\* What a step of a node makes of the lock and of its own availability.
RollingMove(n) ==
    \/ UNCHANGED <<lock, Availability(n)>>
    \/ lock = Free /\ lock' = n /\ Availability(n) = "serving" /\ UNCHANGED Availability(n)
    \/ /\ lock = n /\ lock' = Free
       /\ Availability(n) = "serving" \/ (RunFaults # {} /\ Availability(n) = "drained")
       /\ UNCHANGED Availability(n)
    \/ /\ UNCHANGED lock
       /\ \/ lock = n /\ Availability(n) = "serving" /\ Availability(n)' = "drained"
          \/ lock = n /\ Availability(n) = "drained" /\ Availability(n)' = "rebooting"
          \/ Availability(n) = "rebooting" /\ Availability(n)' = "drained"
          \/ Availability(n) = "drained" /\ Availability(n)' = "serving"

\* What a request without an answer makes of the lock and of the node's availability.
LEMMA NoAnswerOfRolling ==
  ASSUME TypeOK, NEW n \in Nodes, NoAnswer(n)
  PROVE  \/ UNCHANGED <<lock, unschedulable[n]>>
         \/ pc[n] = "clearDrain" /\ unschedulable'[n] \in {unschedulable[n], FALSE}
            /\ UNCHANGED lock
         \/ /\ pc[n] \in {"releaseLeft", "release", "fail"}
            /\ lock = n /\ lock' = Free /\ UNCHANGED unschedulable[n]
         \/ /\ pc[n] = "acquire"
            /\ lock = Free /\ lock' = n /\ UNCHANGED unschedulable[n]
<1>1. CASE Abandon(n) \/ UNCHANGED object
  BY <1>1, NoAnswerOfLock DEF Abandon, object, cordon
<1>2. QED
  BY <1>1, NoAnswerCases
     DEF TypeOK, WriteRebooted, WriteUnmarked, WriteSchedulable, WriteConditions,
         WriteDrained, WriteMark, WriteRebooting, locks, cordon

LEMMA StepIsRollingMove ==
  ASSUME Drain, TypeOK, HostInv, NEW n \in Nodes, Action(n)
  PROVE  RollingMove(n)
<1>1. /\ pc[n] \in Settled \cup {"cordon"} => ~unschedulable[n]
      /\ host[n] = "stopping"
             => lock = n /\ unschedulable[n] /\ pc[n] \in {"exited", "checkReboot", "rebooting"}
      /\ RunFaults = {} /\ pc[n] = "fail" => ~unschedulable[n]
  BY DEF HostInv, SettledIsClean, StoppingIsPending, FailureIsUndrained
<1>2. /\ pc[n] \in Critical \cup {"release", "fail"} => lock = n
      /\ pc[n] = "reboot" => unschedulable[n]
  BY DEF HostInv, LockGuards, PreparedInOrder
<1> USE <1>1, <1>2 DEF TypeOK, RollingMove, Availability, Critical, Settled, Goto, Moves, Exit,
            locks, machine, object, cordon
<1>3. CASE Makes(n)
  BY <1>3 DEF Makes, Start, CheckReboot, SetRebooted, ClearMark, ClearDrain, TestLock,
              ReleaseLeft, WriteFree, WriteLock, WriteRebooted, WriteUnmarked,
              WriteSchedulable
<1>4. CASE MakeFaults(n)
  BY <1>4, NoAnswerOfRolling DEF MakeFaults, SetRebootedFails, StartupFails
<1>5. CASE Upgrades(n)
  BY <1>5 DEF Upgrades, Trigger, AcquireLock, AcquireExpires, ExecStart, ExecRefused,
              OpenJournal, Wait, UpdateHostStatus, WriteLock, WriteConditions
<1>6. CASE UpgradeFaults(n)
  BY <1>6, NoAnswerOfRolling
     DEF UpgradeFaults, AcquireFails, ReportFails, ExecFails, OpenJournalFails,
         ReadOutputFails, WaitHangs, UnitFails
<1>7. CASE Reboots(n)
  BY <1>7 DEF Reboots, AnnotateDrain, Cordon, Evict, MarkReboot, MarkCondition,
              RebootHost, RebootTimeout, WriteDrained, WriteMark, WriteRebooting
<1>8. CASE RebootFaults(n)
  BY <1>8, NoAnswerOfRolling
     DEF RebootFaults, PrepareFails, DrainFails, RebootLost, RebootFails
<1>9. CASE Ends(n) \/ EndFaults(n)
  <2>1. CASE Ends(n)
    BY <1>1, <2>1 DEF Ends, ReleaseLock, Fail, WriteFree, WriteLock
  <2>2. CASE ReleaseFails(n)
    BY <1>1, <2>2, NoAnswerOfRolling DEF ReleaseFails
  <2>3. CASE HostResets(n)
    BY <2>3 DEF HostResets, Boot, Forget
  <2>4. QED
    BY <1>9, <2>1, <2>2, <2>3 DEF EndFaults
<1>10. CASE Kill(n) \/ UnitDone(n) \/ HostBoots(n)
  BY <1>10 DEF Kill, Abandon, UnitDone, HostBoots, Boot, Forget
<1>11. QED
  BY <1>3, <1>4, <1>5, <1>6, <1>7, <1>8, <1>9, <1>10 DEF Action, Step, Fault

\* An update of the lock that is applied late takes a lock that is free, for a node in
\* service, or gives up the lock of a node whose host is up.
LEMMA LateLockIsRollingMove ==
  ASSUME Drain, TypeOK, HostInv, LateLock
  PROVE  \E n \in Nodes :
            RollingMove(n) /\ \A m \in Nodes : m # n => UNCHANGED Availability(m)
<1>1. PICK request \in lateLock : WriteLock(request[2])
  BY DEF LateLock
<1> DEFINE n == request[1]
<1>2. n \in Nodes /\ \A m \in Nodes : UNCHANGED Availability(m)
  BY DEF TypeOK, LateLock, machine, object, cordon, Availability
<1>3. \/ lock = Free /\ lock' = n /\ ~unschedulable[n]
      \/ /\ lock = n /\ lock' = Free /\ <<n, Free>> \in lateLock
         /\ unschedulable[n] => RunFaults # {}
  BY <1>1 DEF TypeOK, WriteLock, HostInv, LateLockIsOwn
<1>4. host[n] # "stopping"
  BY <1>2, <1>3 DEF HostInv, StoppingIsPending, TypeOK
<1> HIDE DEF n
<1>5. RollingMove(n)
  BY <1>2, <1>3, <1>4 DEF RollingMove, Availability, TypeOK
<1>6. QED
  BY <1>2, <1>5

\* An update of the Node that is applied late may bring a drained node back.
LEMMA LateNodeIsRollingMove ==
  ASSUME TypeOK, HostInv, LateNode
  PROVE  \E n \in Nodes :
            RollingMove(n) /\ \A m \in Nodes : m # n => UNCHANGED Availability(m)
<1>1. PICK request \in lateNode : NodeUpdate(request[1], request[2], request[3])
  BY DEF LateNode
<1> DEFINE n == request[1]
<1>2. n \in Nodes /\ UNCHANGED <<lock, host>>
  BY DEF TypeOK, LateNode, locks, machine
<1>3. unschedulable' \in {unschedulable, [unschedulable EXCEPT ![n] = @ /\ ~drained[n]]}
  BY <1>1
     DEF NodeUpdate, WriteRebooted, WriteUnmarked, WriteSchedulable, WriteConditions,
         WriteDrained, WriteMark, WriteRebooting, cordon
<1> HIDE DEF n
<1>4. RollingMove(n)
  BY <1>2, <1>3 DEF RollingMove, Availability, TypeOK
<1>5. QED
  BY <1>2, <1>3, <1>4 DEF Availability, TypeOK

LEMMA RollingMoveIsStep ==
  ASSUME NEW n \in Nodes, RollingMove(n),
         \A m \in Nodes : m # n => UNCHANGED Availability(m)
  PROVE  [Rolling!Next]_(Rolling!vars)
<1> DEFINE nodes == [m \in Nodes |-> Availability(m)]
<1>1. nodes' = [nodes EXCEPT ![n] = Availability(n)']
  OBVIOUS
<1>2. nodes[n] = Availability(n)
  OBVIOUS
<1>3. UNCHANGED Availability(n) => UNCHANGED nodes
  OBVIOUS
<1> HIDE DEF nodes
<1>4. CASE UNCHANGED <<lock, Availability(n)>>
  BY <1>3, <1>4 DEF Rolling!vars, nodes
<1>5. CASE lock = Free /\ lock' = n /\ Availability(n) = "serving"
           /\ UNCHANGED Availability(n)
  BY <1>2, <1>3, <1>5 DEF Rolling!Next, Rolling!Acquire, nodes
<1>6. CASE /\ lock = n /\ lock' = Free
           /\ Availability(n) = "serving" \/ (RunFaults # {} /\ Availability(n) = "drained")
           /\ UNCHANGED Availability(n)
  BY <1>2, <1>3, <1>6 DEF Rolling!Next, Rolling!Release, Rolling!GiveUp, nodes
<1>7. ASSUME UNCHANGED lock,
             \/ lock = n /\ Availability(n) = "serving" /\ Availability(n)' = "drained"
             \/ lock = n /\ Availability(n) = "drained" /\ Availability(n)' = "rebooting"
             \/ Availability(n) = "rebooting" /\ Availability(n)' = "drained"
             \/ Availability(n) = "drained" /\ Availability(n)' = "serving"
      PROVE  Rolling!Next
  BY <1>1, <1>2, <1>7
     DEF Rolling!Next, Rolling!Leave, Rolling!GoDown, Rolling!Boot, Rolling!Uncordon,
         Rolling!Becomes, nodes
<1>8. QED
  BY <1>4, <1>5, <1>6, <1>7 DEF RollingMove

\* With --drain the daemons of the cluster reboot it as RollingReboot has it, whatever
\* fails or is applied late.
THEOREM DaemonsRollReboots == ASSUME Drain PROVE Spec => ImplementsRollingReboot
<1>1. Init => Rolling!Init
  BY DEF Init, Availability, Rolling!Init
<1>2. ASSUME TypeOK, HostInv, [Next]_vars
      PROVE  [Rolling!Next]_(Rolling!vars)
  <2>1. CASE UNCHANGED vars
    BY <2>1 DEF vars, locks, machine, object, cordon, Availability, Rolling!vars
  <2>2. ASSUME NEW n \in Nodes, Action(n)
        PROVE  [Rolling!Next]_(Rolling!vars)
    <3>1. \A m \in Nodes : m # n => UNCHANGED <<host[m], unschedulable[m]>>
      BY <1>2, <2>2, StepIsLocal
    <3>2. \A m \in Nodes : m # n => UNCHANGED Availability(m)
      BY <3>1 DEF Availability
    <3>3. QED
      BY <1>2, <2>2, <3>2, StepIsRollingMove, RollingMoveIsStep
  <2>3. CASE LateLock
    BY <1>2, <2>3, LateLockIsRollingMove, RollingMoveIsStep
  <2>4. CASE LateNode
    BY <1>2, <2>4, LateNodeIsRollingMove, RollingMoveIsStep
  <2>5. QED
    BY <1>2, <2>1, <2>2, <2>3, <2>4 DEF Next
<1>3. QED
  BY <1>1, <1>2, TypeCorrect, HostInvariant, PTL
     DEF Spec, ImplementsRollingReboot, Rolling!Spec

RollingProofs ==
    INSTANCE RollingRebootProofs
        WITH owner <- lock, nodes <- [n \in Nodes |-> Availability(n)],
             MayGiveUp <- RunFaults # {}

\* A node that is out of service without the lock has a daemon that is taking it back.
LEMMA OutOfServiceOwnsOrRecovers ==
  ASSUME Drain, TypeOK, HostInv, NEW n \in Nodes, Availability(n) # "serving", lock # n
  PROVE  pc[n] \in Recovering
<1>1. host[n] # "stopping"
  BY DEF HostInv, StoppingIsPending
<1>2. pc[n] \notin Settled
  BY <1>1 DEF Availability, HostInv, SettledIsClean
<1>3. pc[n] \notin Critical \cup {"release", "fail"}
  BY DEF HostInv, LockGuards
<1>4. QED
  BY <1>2, <1>3 DEF TypeOK, PCs, Startup, Critical, Settled, Recovering

\* As long as nothing fails after a drain, RollingReboot promises one node.
LEMMA OneNodeWithoutRunFaults ==
  ASSUME Drain, RunFaults = {}
  PROVE  Spec => []RollingProofs!OneOutOfService
<1>1. Rolling!Init <=> RollingProofs!Init
  BY DEF Rolling!Init, RollingProofs!Init
<1>2. [Rolling!Next]_(Rolling!vars) <=> [RollingProofs!Next]_(RollingProofs!vars)
  BY DEF Rolling!vars, Rolling!Next, Rolling!Acquire, Rolling!Release, Rolling!GiveUp,
         Rolling!Leave, Rolling!GoDown, Rolling!Boot, Rolling!Uncordon, Rolling!Becomes,
         RollingProofs!vars, RollingProofs!Next, RollingProofs!Acquire,
         RollingProofs!Release, RollingProofs!GiveUp, RollingProofs!Leave,
         RollingProofs!GoDown, RollingProofs!Boot, RollingProofs!Uncordon,
         RollingProofs!Becomes
<1>3. RollingProofs!Spec => []RollingProofs!OneOutOfService
  BY RollingProofs!OneNodeOutOfService, ConstantsAssumption
<1>4. QED
  BY <1>1, <1>2, <1>3, DaemonsRollReboots, PTL
     DEF ImplementsRollingReboot, Rolling!Spec, RollingProofs!Spec

\* With --drain two nodes are out of service at the same time only when the run of one
\* has failed after its drain; and through kills, resets, failed upgrades, lost
\* connections and reboots that do not happen there is at most one.
THEOREM OneNodeIsUnavailable == ASSUME Drain PROVE Spec => []OneNodeUnavailable
<1>1. CASE RunFaults = {}
  <2>1. RollingProofs!OneOutOfService => OneNodeUnavailable
    BY DEF RollingProofs!OneOutOfService, OneNodeUnavailable
  <2>2. QED
    BY <1>1, <2>1, OneNodeWithoutRunFaults, PTL
<1>2. CASE RunFaults # {}
  <2>1. TypeOK /\ HostInv => OneNodeUnavailable
    BY <1>2, OutOfServiceOwnsOrRecovers DEF OneNodeUnavailable
  <2>2. QED
    BY <2>1, TypeCorrect, HostInvariant, PTL
<1>3. QED
  BY <1>1, <1>2

-----------------------------------------------------------------------------
(* The fail-loop of a reboot that does not come *)

LEMMA StepKeepsPending ==
  ASSUME TypeOK, PendingMeansReboot, Faults \cap {"kill", "api", "login", "lost"} = {},
         NEW n \in Nodes, Action(n)
  PROVE  PendingMeansReboot'
<1> USE DEF TypeOK, PendingMeansReboot, Goto, Moves, Exit, machine, object, daemon
<1>1. CASE Makes(n)
  BY <1>1 DEF Makes, Start, CheckReboot, SetRebooted, ClearMark, ClearDrain, TestLock,
              ReleaseLeft, WriteRebooted, WriteUnmarked, WriteSchedulable
<1>2. CASE Upgrades(n)
  <2>1. CASE UpdateHostStatus(n)
    BY <2>1 DEF UpdateHostStatus, WriteConditions
  <2>2. CASE Wait(n)
    BY <2>2 DEF Wait, UpgradeError, Upgraded
  <2>3. QED
    BY <1>2, <2>1, <2>2
       DEF Upgrades, Trigger, AcquireLock, AcquireExpires, ExecStart, ExecRefused,
           OpenJournal, UpgradeError
<1>3. CASE UpgradeFaults(n)
  BY <1>3 DEF UpgradeFaults, ExecFails, OpenJournalFails, ReadOutputFails, WaitHangs,
              UnitFails, UpgradeError
<1>4. CASE Reboots(n)
  BY <1>4 DEF Reboots, AnnotateDrain, Cordon, Evict, MarkReboot, MarkCondition,
              RebootHost, RebootTimeout, WriteDrained, WriteMark, WriteRebooting
<1>5. CASE DrainFails(n)
  BY <1>5 DEF DrainFails
<1>6. CASE Ends(n) \/ UnitDone(n) \/ HostBoots(n) \/ HostResets(n)
  BY <1>6 DEF Ends, ReleaseLock, Fail, UnitDone, HostBoots, HostResets, Boot
<1>7. CASE host[n] = "stopping" /\ Kill(n)
  BY <1>7 DEF Kill, Abandon
<1>8. QED
  BY <1>1, <1>2, <1>3, <1>4, <1>5, <1>6, <1>7
     DEF Action, Step, Fault, MakeFaults, RebootFaults, EndFaults

\* Without kills, API failures, late updates and reboots that login1 refuses or loses, no
\* daemon exits again and again for a reboot that does not come.
THEOREM PendingRebootsCome ==
  ASSUME Faults \cap {"kill", "api", "login", "lost", "late"} = {}
  PROVE  Spec => []PendingMeansReboot
<1>1. Init => PendingMeansReboot
  BY DEF Init, PendingMeansReboot
<1>2. PendingMeansReboot /\ UNCHANGED vars => PendingMeansReboot'
  BY DEF PendingMeansReboot, vars, daemon, machine, object
<1>3. HostInv => ~LateLock /\ ~LateNode
  BY DEF HostInv, NothingIsLate, LateLock, LateNode
<1>4. TypeOK /\ HostInv /\ PendingMeansReboot /\ [Next]_vars => PendingMeansReboot'
  BY <1>2, <1>3, StepKeepsPending DEF Next
<1>5. QED
  BY <1>1, <1>4, TypeCorrect, HostInvariant, PTL DEF Spec

-----------------------------------------------------------------------------
(* What the conditions tell of the host *)

\* Without kills and lost updates of conditions, one that denies a required reboot is out
\* of date only while the unit runs, and until its result is reported.
ReportInv ==
  \A n \in Nodes :
    /\ SaysNotRequired(n) /\ pc[n] \notin {"journal", "wait", "hung", "report"}
         => ~required[n] /\ unit[n] # "running"
    /\ pc[n] = "report" /\ ~status[n].failed /\ ~status[n].required
         => ~required[n] /\ unit[n] # "running"
    /\ mark[n] = "done"
         => /\ ~required[n] /\ unit[n] # "running"
            /\ pc[n] \in {"exited", "checkReboot", "setRebooted", "clearMark"}
    /\ pc[n] = "setRebooted" => mark[n] = "done"
    /\ host[n] = "stopping"
         => /\ ~SaysNotRequired(n)
            /\ mark[n] # "done"
            /\ pc[n] \notin {"journal", "wait", "hung"}
            /\ pc[n] = "report" => status[n].failed

LEMMA StepKeepsReportInv ==
  ASSUME TypeOK, TypeOK', HostInv, ReportInv, Faults \cap {"kill", "api"} = {},
         NEW n \in Nodes, Action(n)
  PROVE  ReportInv'
<1>1. PreparedInOrder
  BY DEF HostInv
<1> USE <1>1 DEF TypeOK, Statuses, NoStatus, ReportInv, SaysNotRequired, Goto, Moves, daemon,
                 machine, object, cordon, conditions
<1>2. ASSUME Makes(n)
      PROVE  ReportInv'
  <2>1. CASE Start(n)
    BY <2>1 DEF Start
  <2>2. CASE CheckReboot(n)
    BY <2>2 DEF CheckReboot
  <2>3. CASE SetRebooted(n)
    BY <2>3 DEF SetRebooted, WriteRebooted
  <2>4. CASE ClearMark(n)
    BY <2>4 DEF ClearMark, WriteUnmarked
  <2>5. CASE ClearDrain(n)
    BY <2>5 DEF ClearDrain, WriteSchedulable
  <2>6. CASE TestLock(n)
    BY <2>6 DEF TestLock
  <2>7. CASE ReleaseLeft(n)
    BY <2>7 DEF ReleaseLeft
  <2>8. QED
    BY <1>2, <2>1, <2>2, <2>3, <2>4, <2>5, <2>6, <2>7 DEF Makes
<1>3. ASSUME Upgrades(n)
      PROVE  ReportInv'
  <2>1. CASE Trigger(n)
    BY <2>1 DEF Trigger
  <2>2. CASE AcquireLock(n)
    BY <2>2 DEF AcquireLock
  <2>3. CASE AcquireExpires(n)
    BY <2>3 DEF AcquireExpires, Exit
  <2>4. CASE ExecStart(n)
    BY <2>4 DEF ExecStart
  <2>5. CASE ExecRefused(n)
    BY <2>5 DEF ExecRefused, UpgradeError
  <2>6. CASE OpenJournal(n)
    BY <2>6 DEF OpenJournal
  <2>7. CASE Wait(n)
    <3>1. /\ pc[n] = "wait" /\ unit[n] # "running"
          /\ UNCHANGED <<machine, object>>
      BY <2>7 DEF Wait
    <3>2. CASE UpgradeError(n, FALSE)
      BY <3>1, <3>2 DEF UpgradeError
    <3>3. CASE Upgraded(n)
      BY <3>1, <3>3 DEF Upgraded
    <3>4. QED
      BY <2>7, <3>2, <3>3 DEF Wait
  <2>8. CASE UpdateHostStatus(n)
    BY <2>8 DEF UpdateHostStatus, WriteConditions, UpgradeReason, RebootReason,
                AfterUpgrade
  <2>9. QED
    BY <1>3, <2>1, <2>2, <2>3, <2>4, <2>5, <2>6, <2>7, <2>8 DEF Upgrades
<1>4. ASSUME UpgradeFaults(n)
      PROVE  ReportInv'
  <2>1. CASE OpenJournalFails(n)
    BY <2>1 DEF OpenJournalFails, UpgradeError
  <2>2. CASE ReadOutputFails(n)
    BY <2>2 DEF ReadOutputFails, UpgradeError
  <2>3. CASE WaitHangs(n)
    BY <2>3 DEF WaitHangs
  <2>4. CASE UnitFails(n)
    BY <2>4 DEF UnitFails
  <2>5. CASE ExecFails(n)
    BY <2>5 DEF ExecFails, UpgradeError
  <2>6. QED
    BY <1>4, <2>1, <2>2, <2>3, <2>4, <2>5 DEF UpgradeFaults
<1>5. ASSUME Reboots(n)
      PROVE  ReportInv'
  <2>1. CASE AnnotateDrain(n)
    BY <2>1 DEF AnnotateDrain, WriteDrained
  <2>2. CASE Cordon(n)
    BY <2>2 DEF Cordon
  <2>3. CASE Evict(n)
    BY <2>3 DEF Evict
  <2>4. CASE MarkReboot(n)
    BY <2>4 DEF MarkReboot, WriteMark
  <2>5. CASE MarkCondition(n)
    BY <2>5 DEF MarkCondition, WriteRebooting
  <2>6. CASE RebootHost(n)
    BY <2>6 DEF RebootHost, PreparedInOrder
  <2>7. CASE RebootTimeout(n)
    BY <2>7 DEF RebootTimeout, Exit
  <2>8. QED
    BY <1>5, <2>1, <2>2, <2>3, <2>4, <2>5, <2>6, <2>7 DEF Reboots
<1>6. CASE DrainFails(n) \/ RebootLost(n) \/ RebootFails(n)
  BY <1>6 DEF DrainFails, RebootLost, RebootFails
<1>7. CASE ReleaseLock(n) \/ Fail(n)
  BY <1>7 DEF ReleaseLock, Fail, Exit
<1>8. CASE UnitDone(n)
  BY <1>8 DEF UnitDone
<1>9. CASE Boot(n)
  BY <1>9 DEF Boot, Exit
<1>10. CASE host[n] = "stopping" /\ Kill(n)
  BY <1>10 DEF Kill, Abandon, Exit
<1>11. QED
  BY <1>2, <1>3, <1>4, <1>5, <1>6, <1>7, <1>8, <1>9, <1>10
     DEF Action, Step, Fault, MakeFaults, RebootFaults, Ends, EndFaults, HostBoots, HostResets

\* Between runs a condition that denies a required reboot is true to the host, if daemons
\* are not killed, and the updates of conditions get through and none comes late.
THEOREM ConditionsAreTrue ==
  ASSUME Faults \cap {"kill", "api", "late"} = {}
  PROVE  Spec => []ConditionsMatchHost
<1>1. Init => ReportInv
  BY DEF Init, ReportInv, SaysNotRequired
<1>2. TypeOK /\ TypeOK' /\ HostInv /\ ReportInv /\ [Next]_vars => ReportInv'
  <2>1. ReportInv /\ UNCHANGED vars => ReportInv'
    BY DEF ReportInv, SaysNotRequired, vars, daemon, machine, object, conditions
  <2>2. HostInv => ~LateLock /\ ~LateNode
    BY DEF HostInv, NothingIsLate, LateLock, LateNode
  <2>3. QED
    BY <2>1, <2>2, StepKeepsReportInv DEF Next
<1>3. ReportInv => ConditionsMatchHost
  BY DEF ReportInv, SaysNotRequired, ConditionsMatchHost
<1>4. QED
  BY <1>1, <1>2, <1>3, TypeCorrect, HostInvariant, PTL DEF Spec

=============================================================================
