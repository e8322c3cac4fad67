----------------------------- MODULE UpgradeUnit -----------------------------
(****************************************************************************)
(* The upgrade of one host: the files that Config writes into the mount     *)
(* (hosts/config.go), Upgrade of the three systems (hosts/*/host.go), which *)
(* runs a script as a transient unit (systemd/exec.go), and the script.     *)
(*                                                                          *)
(* The unit is not a child of the daemon.  It goes on when the daemon dies, *)
(* while the next one, maybe with another image and another ConfigMap,      *)
(* writes its own files to the same paths.  Content is the version of the   *)
(* daemon that wrote it.                                                    *)
(****************************************************************************)
CONSTANTS
    Systems,      \* the distributions of the hosts that are considered
    Versions,     \* the images and ConfigMaps that a daemon may start with
    Configured,   \* those with a configuration file for the upgrade
    None,         \* the content of a file that does not exist
    Partial       \* the content of a file that is not written to its end

ASSUME ConstantsAssumption ==
    /\ Systems \subseteq {"ubuntu", "debian", "centos"}
    /\ Configured \subseteq Versions
    /\ {None, Partial} \cap Versions = {}

VARIABLES
    system,    \* the distribution of this host
    pc,        \* the next step of the daemon
    version,   \* its image and ConfigMap
    todo,      \* the file that Config writes next, or "none"
    mount,     \* the files of the mount that Config writes
    job,       \* what se.ch has for the daemon: "none" without a unit of its own,
               \*   "open", "done" or "failed", or "lost" with the connection
    status,    \* what Upgrade has returned
    unit,      \* host-upgrades.service: "inactive", "running" or "failed"
    command,   \* the command of the script that the unit runs next, or "end"
    env,       \* the files that its environment leads to
    uses,      \* the contents that it has read
    broken,    \* whether its package upgrade has failed
    log,       \* the output file: "none", or from an "old" or the last "run"
    needed,    \* whether the host needs a reboot
    stamp      \* whether the mount has the file that says so

daemon == <<pc, version, todo>>
exec == <<job, status>>
service == <<unit, command, env, uses, broken>>
output == <<log, needed, stamp>>
vars == <<system, daemon, mount, exec, service, output>>

NoStatus == [failed |-> FALSE, required |-> FALSE]

FileNames == {"config", "apt", "script"}

Init ==
    /\ system \in Systems
    /\ pc = "exited"
    /\ version \in Versions
    /\ todo = "none"
    /\ mount = [f \in FileNames |-> None]
    /\ job = "none"
    /\ status = NoStatus
    /\ unit = "inactive"
    /\ command = "end"
    /\ env = {}
    /\ uses = {}
    /\ broken = FALSE
    /\ log = "none"
    /\ needed = FALSE
    /\ stamp = FALSE

-----------------------------------------------------------------------------
(* Config *)

\* Each file with the one that is written after it.
UbuntuFiles == [config |-> "apt", apt |-> "script", script |-> "none"]

DebianFiles == [config |-> "apt", apt |-> "script", script |-> "none"]

CentosFiles == [config |-> "script", script |-> "none"]

Files ==
    CASE system = "ubuntu" -> UbuntuFiles
      [] system = "debian" -> DebianFiles
      [] system = "centos" -> CentosFiles

\* The files of earlier daemons are still there, those that this one lacks as well.
Config(v) ==
    /\ pc = "exited"
    /\ pc' = "config"
    /\ version' = v
    /\ todo' = IF v \in Configured THEN "config" ELSE "script"
    /\ UNCHANGED <<system, mount, exec, service, output>>

\* Mutant of WriteTemp: the file itself is opened and truncated.
WriteInPlace ==
    /\ pc = "config"
    /\ todo # "none"
    /\ pc' = "rename"
    /\ mount' = [mount EXCEPT ![todo] = Partial]
    /\ UNCHANGED <<system, version, todo, exec, service, output>>

\* WriteHostFile writes another file, which nobody reads.
WriteTemp ==
    /\ pc = "config"
    /\ todo # "none"
    /\ pc' = "rename"
    /\ UNCHANGED <<system, version, todo, mount, exec, service, output>>

Rename ==
    /\ pc = "rename"
    /\ pc' = "config"
    /\ mount' = [mount EXCEPT ![todo] = version]
    /\ todo' = Files[todo]
    /\ UNCHANGED <<system, version, exec, service, output>>

ConfigDone ==
    /\ pc = "config"
    /\ todo = "none"
    /\ pc' = "idle"
    /\ UNCHANGED <<system, version, todo, mount, exec, service, output>>

\* The process ends: an error of Config, the end of a failed run, or a kill.
Exit ==
    /\ pc' = "exited"
    /\ todo' = "none"
    /\ job' = "none"
    /\ status' = NoStatus
    /\ UNCHANGED version

Die == pc # "exited" /\ Exit /\ UNCHANGED <<system, mount, service, output>>

-----------------------------------------------------------------------------
(* Upgrade, and Exec *)

Goto(label) ==
    /\ pc' = label
    /\ UNCHANGED <<system, version, todo, mount, output>>

Upgrade == pc = "idle" /\ Goto("reset") /\ UNCHANGED <<exec, service>>

\* Upgrade returns; Exec closes its connection, and its unit goes on.
Return(failed, required) ==
    /\ Goto("returned")
    /\ job' = "none"
    /\ status' = [failed |-> failed, required |-> required]

Reset ==
    /\ pc = "reset"
    /\ Goto("start")
    /\ unit' = IF unit = "failed" THEN "inactive" ELSE unit
    /\ UNCHANGED <<exec, command, env, uses, broken>>

\* Each command with the one after it.
UbuntuScript == [open |-> "update", update |-> "upgrade", upgrade |-> "copy", copy |-> "end"]

DebianScript == [open |-> "update", update |-> "upgrade", upgrade |-> "copy", copy |-> "end"]

CentosScript == [open |-> "upgrade", upgrade |-> "check", check |-> "end"]

Script ==
    CASE system = "ubuntu" -> UbuntuScript
      [] system = "debian" -> DebianScript
      [] system = "centos" -> CentosScript

\* APT_CONFIG or CONFIG_PATH: the files that this daemon has written.
Environment == IF version \in Configured THEN DOMAIN Files \ {"script"} ELSE {}

Activate ==
    /\ unit' = "running"
    /\ command' = "open"
    /\ env' = Environment
    /\ uses' = {}
    /\ broken' = FALSE
    /\ log' = IF log = "run" THEN "old" ELSE log

Starts(label, outcome, failed) ==
    /\ pc' = label
    /\ job' = outcome
    /\ status' = [failed |-> failed, required |-> FALSE]
    /\ UNCHANGED <<system, version, todo, mount, needed, stamp>>

\* Mutant of StartUnit: a unit that runs is taken for the daemon's own ("replace").
StartOrJoin ==
    /\ pc = "start"
    /\ \/ unit = "inactive" /\ Activate
       \/ unit = "running" /\ UNCHANGED <<service, log>>
    /\ Starts("journal", "open", FALSE)

StartUnit ==
    /\ pc = "start"
    /\ unit = "inactive"
    /\ Activate
    /\ Starts("journal", "open", FALSE)

\* The call is not answered, and may have started the unit.
StartLost ==
    /\ pc = "start"
    /\ unit = "inactive"
    /\ Activate
    /\ Starts("returned", "none", TRUE)

\* "fail": a unit that runs is left alone.  Each request before may fail as well, and
\* each one after it (openJournal, Read) while the unit goes on.
ExecFails ==
    /\ pc \in {"reset", "start", "journal", "lines"}
    /\ Return(TRUE, FALSE)
    /\ UNCHANGED service

OpenJournal == pc = "journal" /\ Goto("wait") /\ UNCHANGED <<exec, service>>

\* The result of the job, which the channel keeps for the daemon.
Wait ==
    /\ pc = "wait"
    /\ job \in {"done", "failed"}
    /\ Goto("lines")
    /\ UNCHANGED <<exec, service>>

\* Mutant of ReadLines: any result of the job is fine.
ReadLinesOnly ==
    /\ pc = "lines"
    /\ Goto("log")
    /\ UNCHANGED <<exec, service>>

ReadLines ==
    /\ pc = "lines"
    /\ \/ job = "done" /\ Goto("log") /\ UNCHANGED exec
       \/ job = "failed" /\ Return(TRUE, FALSE)
    /\ UNCHANGED service

ReadUpgradeLog ==
    /\ pc = "log"
    /\ log # "none"
    /\ Goto("needs")
    /\ UNCHANGED <<exec, service>>

UbuntuNeeds == Return(FALSE, stamp) \/ Return(TRUE, FALSE)

DebianNeeds == Return(FALSE, stamp) \/ Return(TRUE, FALSE)

\* The stamp is set in the status before the output is read.
CentosNeeds == Return(FALSE, stamp) \/ Return(TRUE, FALSE) \/ Return(TRUE, stamp)

ReadRebootRequired ==
    /\ pc = "needs"
    /\ \/ system = "ubuntu" /\ UbuntuNeeds
       \/ system = "debian" /\ DebianNeeds
       \/ system = "centos" /\ CentosNeeds
    /\ UNCHANGED service

ReadLogFails == pc = "log" /\ Return(TRUE, FALSE) /\ UNCHANGED service

\* The connection goes, and the signal of the job with it.
BusLost ==
    /\ job = "open"
    /\ job' = "lost"
    /\ UNCHANGED <<system, daemon, mount, status, service, output>>

\* The run goes on to its end, and the daemon to its schedule; it exits on an error.
RunEnds ==
    /\ pc = "returned"
    /\ ~status.failed
    /\ Goto("idle")
    /\ status' = NoStatus
    /\ UNCHANGED <<job, service>>

-----------------------------------------------------------------------------
(* The unit *)

Runs(c) == unit = "running" /\ command = c

\* Mutant of Signal: a daemon that does not wait yet gets none.
SignalWaiting(outcome) ==
    job' = IF job = "open" /\ pc = "wait" THEN outcome ELSE job

\* JobRemoved, kept until the daemon receives it.
Signal(outcome) == job' = IF job = "open" THEN outcome ELSE job

Continue ==
    /\ command' = Script[command]
    /\ UNCHANGED <<system, daemon, mount, exec, unit, env>>

Reads(fs) == uses' = uses \cup {mount[f] : f \in fs}

\* The shell reads on in the file that it has opened.
OpenScript ==
    /\ Runs("open")
    /\ Reads({"script"})
    /\ Continue
    /\ UNCHANGED <<broken, output>>

AptUpdate ==
    /\ Runs("update")
    /\ Reads(env)
    /\ Continue
    /\ UNCHANGED <<broken, output>>

\* unattended-upgrade, and yum-cron, whose failure the pipe to tee hides.
PackageUpgrade ==
    /\ Runs("upgrade")
    /\ Reads(env)
    /\ log' = "run"
    /\ needed' \in BOOLEAN
    /\ needed => needed'
    /\ broken' \in BOOLEAN
    /\ broken' => system = "centos"
    /\ Continue
    /\ UNCHANGED stamp

CopyRequired ==
    /\ Runs("copy")
    /\ stamp' = (stamp \/ needed)
    /\ Continue
    /\ UNCHANGED <<uses, broken, log, needed>>

\* A needs-restarting that fails, or is not there, leaves a stamp.
NeedsRestarting ==
    /\ Runs("check")
    /\ stamp' \in {stamp \/ needed, TRUE}
    /\ Continue
    /\ UNCHANGED <<uses, broken, log, needed>>

UnitFails(logged) ==
    /\ unit' = "failed"
    /\ command' = "end"
    /\ log' = logged
    /\ Signal("failed")
    /\ UNCHANGED <<system, daemon, mount, status, env, stamp>>

\* Mutant of CommandFails: no set -e, so that the script goes on.
CommandIgnored ==
    /\ unit = "running"
    /\ command # "end"
    /\ broken' = (broken \/ command = "upgrade")
    /\ log' = IF command = "upgrade" THEN "run" ELSE log
    /\ Continue
    /\ UNCHANGED <<uses, needed, stamp>>

\* set -e: the unit fails with the first command that does.
CommandFails ==
    /\ unit = "running"
    /\ command # "end"
    /\ \/ command # "upgrade" /\ UnitFails(log) /\ UNCHANGED <<uses, broken, needed>>
       \/ /\ command = "upgrade"
          /\ UnitFails("run")
          /\ Reads(env)
          /\ broken' = TRUE
          /\ needed' \in BOOLEAN
    /\ needed => needed'

UnitEnds ==
    /\ Runs("end")
    /\ unit' = "inactive"
    /\ Signal("done")
    /\ UNCHANGED <<system, daemon, mount, status, command, env, uses, broken, output>>

\* The host boots: /run is empty, with the mount and /run/reboot-required.
Boot ==
    /\ Exit
    /\ mount' = [f \in FileNames |-> None]
    /\ unit' = "inactive"
    /\ command' = "end"
    /\ env' = {}
    /\ uses' = {}
    /\ broken' = FALSE
    /\ log' = "none"
    /\ needed' = FALSE
    /\ stamp' = FALSE
    /\ UNCHANGED system

Upgrading == {"reset", "start", "journal", "wait", "lines", "log", "needs"}

Exec ==
    \/ Reset \/ StartUnit \/ StartLost \/ ExecFails \/ OpenJournal \/ Wait \/ ReadLines
    \/ ReadUpgradeLog \/ ReadRebootRequired \/ ReadLogFails

Unit ==
    \/ OpenScript \/ AptUpdate \/ PackageUpgrade \/ CopyRequired \/ NeedsRestarting
    \/ CommandFails \/ UnitEnds

Next ==
    \/ \E v \in Versions : Config(v)
    \/ WriteTemp \/ Rename \/ ConfigDone
    \/ Upgrade \/ Exec \/ RunEnds
    \/ Unit
    \/ Die \/ BusLost \/ Boot

Spec == Init /\ [][Next]_vars
-----------------------------------------------------------------------------
(* Safety *)

\* A job that is open is that of the daemon's own unit, which it waits for.
TypeOK ==
    /\ system \in {"ubuntu", "debian", "centos"}
    /\ pc \in Upgrading \cup {"exited", "config", "rename", "idle", "returned"}
    /\ version \in Versions
    /\ todo \in DOMAIN Files \cup {"none"}
    /\ pc = "rename" => todo # "none"
    /\ mount \in [FileNames -> Versions \cup {None}]
    /\ job \in {"none", "open", "done", "failed", "lost"}
    /\ job = "open" => unit = "running" /\ pc \in {"journal", "wait"}
    /\ status \in [failed : BOOLEAN, required : BOOLEAN]
    /\ pc # "returned" => status = NoStatus
    /\ unit \in {"inactive", "running", "failed"}
    /\ command \in DOMAIN Script \cup {"end"}
    /\ env \subseteq FileNames
    /\ uses \subseteq Versions \cup {None}
    /\ broken \in BOOLEAN
    /\ log \in {"none", "old", "run"}
    /\ needed \in BOOLEAN
    /\ stamp \in BOOLEAN

\* The unit reads whole files that exist, although it is not a child of the daemon and
\* the next one writes the same paths while it runs (hosts/config.go, WriteHostFile).
ReadsWhole == uses \cap {None, Partial} = {}

\* The unit that a daemon waits for has read the files of this daemon only: those
\* that an earlier one, with another image and ConfigMap, has left are not used.
AwaitedReadsOwn == job # "none" => uses \subseteq {version}

\* Upgrade returns nil with the log and the required reboot of the unit that it has
\* run, and not of the one that an earlier daemon left (systemd/exec.go, start).
ResultIsOwn ==
    pc = "returned" /\ ~status.failed =>
        /\ unit = "inactive" /\ command = "end" /\ log = "run"
        /\ needed => status.required
        /\ status.required => needed \/ system = "centos"

\* README.md: "In case of the upgrade failing, the condition will be `Unknown`", for
\* which Upgrade has to return an error.
FailureIsReported == pc = "returned" /\ broken => status.failed

\* The scripts of Ubuntu and Debian end with the upgrade when it fails.
AptFailureIsReported == system # "centos" => FailureIsReported

\* The scheduled run may take Upgrade for one call, which returns what the script has
\* left, whatever earlier daemons and their units were at.
Phase ==
    CASE pc \in {"exited", "config", "rename", "idle"} -> "out"
      [] pc \in {"reset", "start"} -> "called"
      [] pc \in {"journal", "wait", "lines", "log", "needs"} -> "awaits"
      [] pc = "returned" -> "returned"

Service ==
    INSTANCE UpgradeService
        WITH phase <- Phase, result <- status, required <- stamp

ImplementsUpgrade == Service!Spec

-----------------------------------------------------------------------------
(* The inductive invariant of these properties *)

\* The files of this daemon that are in the mount.
Written ==
    CASE todo = "config" -> {}
      [] todo = "apt" -> {"config"}
      [] todo = "script" -> Environment
      [] todo = "none" -> Environment \cup {"script"}

ConfigInv ==
    pc # "exited" =>
        /\ \A f \in Written : mount[f] = version
        /\ todo \in {"config", "apt"} => version \in Configured
        /\ pc \notin {"config", "rename"} => todo = "none"

\* A unit that runs finds its files, of one daemon or another, and has done in order
\* what its commands are for.
ScriptInv ==
    /\ stamp => needed \/ system = "centos"
    /\ unit = "running" =>
           /\ \A f \in env \cup {"script"} : mount[f] # None
           /\ command \in {"copy", "check", "end"} => log = "run"
           /\ command = "end" => (needed => stamp)
           /\ broken => system = "centos"
    /\ unit # "running" => command = "end"

\* The daemon has the result of its own unit, and no other unit has run since.
JobInv ==
    /\ job # "none" => env \subseteq Environment
    /\ job # "none" <=> pc \in {"journal", "wait", "lines", "log", "needs"}
    /\ pc = "lines" => job \in {"done", "failed"}
    /\ pc \in {"log", "needs"} => job = "done"
    /\ job = "done" \/ (pc = "returned" /\ ~status.failed) =>
           /\ unit = "inactive"
           /\ log = "run"
           /\ needed => stamp
           /\ broken => system = "centos"
    /\ pc = "returned" /\ ~status.failed => status.required = stamp

UnitInv == ConfigInv /\ ScriptInv /\ JobInv /\ ReadsWhole /\ AwaitedReadsOwn

-----------------------------------------------------------------------------
(* Liveness *)

\* Requests are answered, and every command of the script ends.
FairSpec == Spec /\ WF_vars(Exec) /\ WF_vars(Unit)

\* Upgrade returns, unless the connection to D-Bus is lost: wait has no timeout, and
\* nothing closes se.ch.
UpgradeReturns == pc \in Upgrading ~> pc \notin Upgrading \/ job = "lost"
=============================================================================
