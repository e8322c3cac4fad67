---------------------------- MODULE RebootClock ----------------------------
(****************************************************************************)
(* How a daemon knows that its host has rebooted since it was marked:       *)
(* clearNodeReboot and MarkReboot (kube.go) with Probe (hosts) and ReadStat *)
(* (proc/stat.go).  The mark is a time of the host's clock, the boot time   *)
(* is that of /proc/stat, in whole seconds: the kernel derives it from the  *)
(* clock and the uptime whenever it is read, so it moves with the clock.    *)
(*                                                                          *)
(* Time is counted in ticks of a fraction of a second.                      *)
(****************************************************************************)
EXTENDS Integers

CONSTANTS
    Second,     \* the ticks of a second
    Offsets,    \* by how much the clock may be ahead of real time
    Uptime,     \* a host is up for that long before it is marked
    Downtime,   \* a host takes that long from its mark to its boot
    MaxTime     \* bound: the last tick

\* The clock is less wrong than a host takes to upgrade, and than it takes to reboot.
ASSUME ClockAssumption ==
    /\ Second \in Nat \ {0}
    /\ Offsets \subseteq Nat
    /\ Uptime \in Nat
    /\ Downtime \in Nat
    /\ MaxTime \in Nat
    /\ \A s, t \in Offsets : s - t <= Uptime /\ s - t + Second <= Downtime

VARIABLES
    now,      \* real time
    offset,   \* the clock is at now + offset
    boot,     \* the real time of the host's last boot
    mark,     \* the reboot annotation, a time of the clock, or NoMark
    marked,   \* the real time at which it was written
    pc,       \* the daemon: "exited", "probed", or "past" its check of the mark
    btime     \* the boot time that it has read, or 0

time == <<now, offset>>
vars == <<time, boot, mark, marked, pc, btime>>

NoMark == -1

WholeSeconds(t) == t - (t % Second)

Init ==
    /\ now = Second
    /\ offset \in Offsets
    /\ boot = Second
    /\ mark = NoMark
    /\ marked = 0
    /\ pc = "exited"
    /\ btime = 0

-----------------------------------------------------------------------------
(* The host *)

Tick ==
    /\ now < MaxTime
    /\ now' = now + 1
    /\ UNCHANGED <<offset, boot, mark, marked, pc, btime>>

\* The clock is set, by hand, by NTP or from the hardware clock.
SetClock ==
    /\ offset' \in Offsets
    /\ UNCHANGED <<now, boot, mark, marked, pc, btime>>

\* The host reboots as asked for, or resets.
Boot ==
    /\ mark # NoMark => now >= marked + Downtime
    /\ boot' = now
    /\ pc' = "exited"
    /\ UNCHANGED <<time, mark, marked, btime>>

-----------------------------------------------------------------------------
(* The daemon *)

\* Mutant of Probe: the time is not found.
ProbeFindsNone ==
    /\ pc = "exited"
    /\ btime' = 0
    /\ pc' = "probed"
    /\ UNCHANGED <<time, boot, mark, marked>>

Probe ==
    /\ pc = "exited"
    /\ btime' = WholeSeconds(boot + offset)
    /\ pc' = "probed"
    /\ UNCHANGED <<time, boot, mark, marked>>

\* The error is logged only, and leaves a time that is before every mark.
ProbeFails ==
    /\ pc = "exited"
    /\ btime' = 0
    /\ pc' = "probed"
    /\ UNCHANGED <<time, boot, mark, marked>>

NotRebooting ==
    /\ pc = "probed"
    /\ mark = NoMark
    /\ pc' = "past"
    /\ UNCHANGED <<time, boot, mark, marked, btime>>

\* Mutant of After: a time is after itself.
NotBefore(t, u) == t >= u

\* time.Time's After
After(t, u) == t > u

StillRebooting ==
    /\ pc = "probed"
    /\ mark # NoMark
    /\ ~After(btime, mark)
    /\ pc' = "exited"
    /\ UNCHANGED <<time, boot, mark, marked, btime>>

\* The mark is left when the condition Rebooted cannot be set.  An error of the
\* annotation's update ends the process.
Rebooted ==
    /\ pc = "probed"
    /\ mark # NoMark
    /\ After(btime, mark)
    /\ \/ pc' = "past" /\ mark' \in {mark, NoMark}
       \/ pc' = "exited" /\ mark' \in {mark, NoMark}
    /\ UNCHANGED <<time, boot, marked, btime>>

\* Mutant of MarkReboot: an annotation that is there is left.
MarkRebootOnce ==
    /\ pc = "past"
    /\ now >= boot + Uptime
    /\ mark' = IF mark = NoMark THEN now + offset ELSE mark
    /\ marked' = now
    /\ UNCHANGED <<time, boot, pc, btime>>

MarkReboot ==
    /\ pc = "past"
    /\ now >= boot + Uptime
    /\ mark' = now + offset
    /\ marked' = now
    /\ UNCHANGED <<time, boot, pc, btime>>

\* The reboot times out, some step fails, or the pod is killed.
Exit ==
    /\ pc # "exited"
    /\ pc' = "exited"
    /\ UNCHANGED <<time, boot, mark, marked, btime>>

Next ==
    \/ Tick \/ SetClock \/ Boot
    \/ Probe \/ ProbeFails \/ NotRebooting \/ StillRebooting \/ Rebooted
    \/ MarkReboot \/ Exit

Spec == Init /\ [][Next]_vars
-----------------------------------------------------------------------------
(* Safety *)

HasRebooted == boot > marked

\* The times are those of the host, within the bounds of the clock.
ClockInv ==
    /\ now \in Nat /\ boot \in Nat /\ marked \in Nat /\ btime \in Nat
    /\ offset \in Offsets
    /\ Second <= boot /\ boot <= now /\ marked <= now
    /\ pc \in {"exited", "probed", "past"}
    /\ mark = NoMark \/ \E s \in Offsets : mark = marked + s
    /\ mark # NoMark => boot + Uptime <= marked \/ marked + Downtime <= boot
    /\ pc = "probed" => btime = 0 \/ \E s \in Offsets : btime = WholeSeconds(boot + s)

\* A daemon that has read its host's boot time takes it for rebooted exactly when it
\* has, wherever the clock was set in between and whatever the second leaves out.
CheckIsRight ==
    pc = "probed" /\ mark # NoMark /\ btime # 0 => (After(btime, mark) <=> HasRebooted)

\* The check is the one that the daemon's life cycle (HostUpgrades) relies on.
MarkState == IF mark = NoMark THEN "none" ELSE IF HasRebooted THEN "done" ELSE "pending"

Service ==
    INSTANCE RebootMark
        WITH mark <- MarkState, past <- pc = "past", MayBeLate <- FALSE

ImplementsMark == Service!Spec

-----------------------------------------------------------------------------
(* Liveness *)

\* The daemon is restarted.  It is not killed in every start, and not every read of
\* /proc/stat fails.
FairSpec ==
    /\ Spec
    /\ SF_vars(Probe) /\ SF_vars(Rebooted /\ pc' = "past") /\ WF_vars(StillRebooting)

\* The daemon of a host that has rebooted gets past the mark in the end.
RebootIsSeen == mark # NoMark /\ HasRebooted ~> pc = "past" \/ mark = NoMark
=============================================================================
