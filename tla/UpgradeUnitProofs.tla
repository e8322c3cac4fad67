------------------------- MODULE UpgradeUnitProofs -------------------------
(****************************************************************************)
(* Proofs about UpgradeUnit, for every system, any number of images and     *)
(* ConfigMaps, and any number of daemons after one another.                 *)
(****************************************************************************)
EXTENDS UpgradeUnit, TLAPS

\* What the cases of the three systems come to.
LEMMA SystemFacts ==
  ASSUME system \in {"ubuntu", "debian", "centos"}
  PROVE  /\ DOMAIN Files \subseteq FileNames
         /\ {"config", "script"} \subseteq DOMAIN Files
         /\ \A f \in DOMAIN Files : Files[f] \in DOMAIN Files \cup {"none"}
         /\ Files["config"] = "apt" \/ (Files["config"] = "script" /\ "apt" \notin DOMAIN Files)
         /\ "apt" \in DOMAIN Files => Files["apt"] = "script"
         /\ Files["script"] = "none"
         /\ "open" \in DOMAIN Script
         /\ "end" \notin DOMAIN Script
         /\ \A c \in DOMAIN Script : Script[c] \in DOMAIN Script \cup {"end"}
BY DEF Files, UbuntuFiles, DebianFiles, CentosFiles, FileNames, Script, UbuntuScript,
       DebianScript, CentosScript

LEMMA ScriptOrder ==
  ASSUME system \in {"ubuntu", "debian", "centos"}
  PROVE  /\ \A c \in DOMAIN Script :
              Script[c] \in {"copy", "check", "end"} <=> c \in {"upgrade", "copy", "check"}
         /\ \A c \in DOMAIN Script : Script[c] = "end" <=> c \in {"copy", "check"}
         /\ "check" \in DOMAIN Script => system = "centos"
BY DEF Script, UbuntuScript, DebianScript, CentosScript

\* A host has one system for ever, and with it the same files and script.
LEMMA SystemStays ==
  ASSUME [Next]_vars
  PROVE  UNCHANGED <<system, Files, Script>>
<1>1. UNCHANGED system
  BY DEF Next, vars, Config, WriteTemp, Rename, ConfigDone, Upgrade, Exec, Unit, Reset,
         StartUnit, StartLost, Starts, ExecFails, OpenJournal, Wait, ReadLines,
         ReadUpgradeLog, ReadRebootRequired, ReadLogFails, UbuntuNeeds, DebianNeeds,
         CentosNeeds, Return, Goto, RunEnds, OpenScript, AptUpdate, PackageUpgrade,
         CopyRequired, NeedsRestarting, Continue, CommandFails, UnitFails, UnitEnds, Die,
         BusLost, Boot
<1>2. QED
  BY <1>1 DEF Files, Script

\* The variables of the daemon, of the unit and of the host keep their types.
LEMMA StepKeepsTypes ==
  ASSUME TypeOK, [Next]_vars
  PROVE  TypeOK'
<1>1. UNCHANGED <<system, Files, Script>>
  BY SystemStays
<1> USE <1>1, SystemFacts
        DEF TypeOK, Upgrading, daemon, exec, service, output, NoStatus, Goto
<1>2. CASE UNCHANGED vars
  BY <1>2 DEF vars
<1>3. ASSUME NEW v \in Versions, Config(v)
      PROVE  TypeOK'
  BY <1>3 DEF Config
<1>4. CASE WriteTemp \/ Rename \/ ConfigDone
  BY <1>4 DEF WriteTemp, Rename, ConfigDone
<1>5. CASE Upgrade \/ RunEnds
  <2>1. CASE Upgrade
    BY <2>1 DEF Upgrade
  <2>2. CASE RunEnds
    <3>1. status' \in [failed : BOOLEAN, required : BOOLEAN] /\ status' = NoStatus
      BY <2>2 DEF RunEnds
    <3>2. job # "open"
      BY <2>2 DEF RunEnds
    <3>3. QED
      BY <2>2, <3>1, <3>2 DEF RunEnds
  <2>3. QED
    BY <1>5, <2>1, <2>2
<1>6. ASSUME Exec
      PROVE  TypeOK'
  <2>1. ASSUME NEW failed \in BOOLEAN, NEW r \in BOOLEAN, Return(failed, r),
               UNCHANGED service
        PROVE  TypeOK'
    BY <2>1 DEF Return
  <2>2. CASE Reset
    BY <2>2 DEF Reset
  <2>3. CASE StartUnit \/ StartLost
    <3>1. /\ unit' = "running" /\ command' = "open" /\ env' \subseteq FileNames
          /\ uses' = {} /\ broken' = FALSE /\ log' \in {"none", "old", "run"}
      BY <2>3 DEF StartUnit, StartLost, Activate, Environment
    <3>2. CASE StartUnit
      BY <3>1, <3>2 DEF StartUnit, Starts
    <3>3. CASE StartLost
      BY <3>1, <3>3 DEF StartLost, Starts
    <3>4. QED
      BY <2>3, <3>2, <3>3
  <2>4. CASE ExecFails
    BY <2>4, <2>1 DEF ExecFails
  <2>5. CASE OpenJournal \/ Wait \/ ReadUpgradeLog
    BY <2>5 DEF OpenJournal, Wait, ReadUpgradeLog
  <2>6. CASE ReadLines
    BY <2>6, <2>1 DEF ReadLines
  <2>7. CASE ReadRebootRequired
    BY <2>7, <2>1 DEF ReadRebootRequired, UbuntuNeeds, DebianNeeds, CentosNeeds
  <2>8. CASE ReadLogFails
    BY <2>8, <2>1 DEF ReadLogFails
  <2>9. QED
    BY <1>6, <2>2, <2>3, <2>4, <2>5, <2>6, <2>7, <2>8 DEF Exec
<1>7. ASSUME Unit
      PROVE  TypeOK'
  <2>1. ASSUME NEW fs \in SUBSET FileNames, Reads(fs)
        PROVE  uses' \subseteq Versions \cup {None}
    BY <2>1 DEF Reads
  <2>2. CASE OpenScript
    <3>1. uses' \subseteq Versions \cup {None}
      BY <2>2, <2>1 DEF OpenScript, FileNames
    <3>2. QED
      BY <2>2, <3>1 DEF OpenScript, Runs, Continue
  <2>3. CASE AptUpdate
    <3>1. uses' \subseteq Versions \cup {None}
      BY <2>3, <2>1 DEF AptUpdate
    <3>2. QED
      BY <2>3, <3>1 DEF AptUpdate, Runs, Continue
  <2>4. CASE PackageUpgrade
    <3>1. uses' \subseteq Versions \cup {None} /\ needed' \in BOOLEAN /\ broken' \in BOOLEAN
      BY <2>4, <2>1 DEF PackageUpgrade
    <3>2. QED
      BY <2>4, <3>1 DEF PackageUpgrade, Runs, Continue
  <2>5. CASE CopyRequired \/ NeedsRestarting
    <3>1. stamp' \in BOOLEAN
      BY <2>5 DEF CopyRequired, NeedsRestarting
    <3>2. CASE CopyRequired
      BY <3>1, <3>2 DEF CopyRequired, Runs, Continue
    <3>3. CASE NeedsRestarting
      BY <3>1, <3>3 DEF NeedsRestarting, Runs, Continue
    <3>4. QED
      BY <2>5, <3>2, <3>3
  <2>6. CASE CommandFails
    <3>1. /\ uses' \subseteq Versions \cup {None}
          /\ needed' \in BOOLEAN /\ broken' \in BOOLEAN
      BY <2>6, <2>1 DEF CommandFails
    <3>2. /\ unit' = "failed" /\ command' = "end" /\ log' \in {"none", "old", "run"}
          /\ job' = IF job = "open" THEN "failed" ELSE job
          /\ UNCHANGED <<system, daemon, mount, status, env, stamp>>
      BY <2>6 DEF CommandFails, UnitFails, Signal
    <3>3. QED
      BY <3>1, <3>2
  <2>7. CASE UnitEnds
    BY <2>7 DEF UnitEnds, Runs, Signal
  <2>8. QED
    BY <1>7, <2>2, <2>3, <2>4, <2>5, <2>6, <2>7 DEF Unit
<1>8. CASE Die
  BY <1>8 DEF Die, Exit
<1>9. CASE BusLost
  BY <1>9 DEF BusLost
<1>10. CASE Boot
  BY <1>10 DEF Boot, Exit
<1>11. QED
  BY <1>2, <1>3, <1>4, <1>5, <1>6, <1>7, <1>8, <1>9, <1>10 DEF Next

\* The types hold in every state.
THEOREM TypeCorrect == Spec => []TypeOK
<1>1. Init => TypeOK
  <2> SUFFICES ASSUME Init
               PROVE  TypeOK
    OBVIOUS
  <2>1. system \in {"ubuntu", "debian", "centos"}
    BY ConstantsAssumption DEF Init
  <2>2. status \in [failed : BOOLEAN, required : BOOLEAN] /\ status = NoStatus
    BY DEF Init, NoStatus
  <2>3. mount \in [FileNames -> Versions \cup {None}]
    BY DEF Init
  <2>4. QED
    BY <2>1, <2>2, <2>3 DEF Init, TypeOK, Upgrading
<1>2. QED
  BY <1>1, StepKeepsTypes, PTL DEF Spec

-----------------------------------------------------------------------------
(* The invariant *)

\* A daemon keeps its version, and with it the files that its unit is to read.
LEMMA EnvironmentStays ==
  ASSUME [Next]_vars, UNCHANGED version
  PROVE  UNCHANGED Environment
BY SystemStays DEF Environment

\* What Config has written in order is what a unit of this daemon reads.
LEMMA StepKeepsConfigInv ==
  ASSUME TypeOK, TypeOK', ConfigInv, [Next]_vars
  PROVE  ConfigInv'
<1>1. UNCHANGED <<system, Files, Script>>
  BY SystemStays
<1>2. UNCHANGED version => UNCHANGED Environment
  BY EnvironmentStays
<1> USE <1>1, <1>2, SystemFacts DEF ConfigInv, TypeOK, daemon, exec
<1>3. ASSUME UNCHANGED <<version, todo, mount>>,
             pc' # "exited" => pc # "exited",
             pc' \notin {"exited", "config", "rename"}
               => pc \notin {"config", "rename"} \/ todo = "none"
      PROVE  ConfigInv'
  BY <1>3 DEF Written
<1>4. ASSUME NEW v \in Versions, Config(v)
      PROVE  ConfigInv'
  BY <1>4 DEF Config, Written, Environment
<1>5. CASE WriteTemp \/ ConfigDone
  BY <1>5, <1>3 DEF WriteTemp, ConfigDone
<1>6. CASE Rename
  <2>1. /\ pc = "rename" /\ pc' = "config" /\ todo' = Files[todo]
        /\ mount' = [mount EXCEPT ![todo] = version]
        /\ UNCHANGED <<system, version>>
    BY <1>6 DEF Rename
  <2>2. todo \in FileNames /\ todo \in DOMAIN Files
    BY <2>1
  <2>3. ASSUME NEW f \in FileNames, f \in Written \/ f = todo
        PROVE  mount'[f] = version'
    BY <2>1, <2>2, <2>3
  <2>4. Written' \subseteq Written \cup {todo}
    BY <2>1, <2>2 DEF Written, Environment, FileNames
  <2>5. Written' \subseteq FileNames
    BY <2>1, <2>2 DEF Written, Environment, FileNames
  <2>6. todo' \in {"config", "apt"} => version' \in Configured
    BY <2>1, <2>2 DEF FileNames
  <2>7. QED
    BY <2>1, <2>3, <2>4, <2>5, <2>6
<1>7. CASE UNCHANGED vars
  BY <1>7, <1>3 DEF vars
<1>8. CASE Upgrade \/ RunEnds
  BY <1>8, <1>3 DEF Upgrade, RunEnds, Goto
<1>9. CASE Exec
  BY <1>9, <1>3
     DEF Exec, Reset, StartUnit, StartLost, Starts, ExecFails, OpenJournal, Wait,
         ReadLines, ReadUpgradeLog, ReadRebootRequired, ReadLogFails, UbuntuNeeds,
         DebianNeeds, CentosNeeds, Return, Goto
<1>10. CASE Unit \/ BusLost
  BY <1>10, <1>3
     DEF Unit, OpenScript, AptUpdate, PackageUpgrade, CopyRequired, NeedsRestarting,
         CommandFails, UnitFails, UnitEnds, Continue, BusLost
<1>11. CASE Die \/ Boot
  BY <1>11 DEF Die, Boot, Exit
<1>12. QED
  BY <1>4, <1>5, <1>6, <1>7, <1>8, <1>9, <1>10, <1>11 DEF Next

\* Past Config the daemon finds all of its files.
LEMMA ConfiguredMount ==
  ASSUME TypeOK, ConfigInv, pc \notin {"exited", "config", "rename"}
  PROVE  \A f \in Environment \cup {"script"} : mount[f] = version
BY DEF TypeOK, ConfigInv, Written

\* Each command leaves what the next one relies on, and finds its files.
LEMMA StepKeepsScriptInv ==
  ASSUME TypeOK, TypeOK', ConfigInv, ScriptInv, JobInv, [Next]_vars
  PROVE  ScriptInv'
<1>1. UNCHANGED <<system, Files, Script>>
  BY SystemStays
<1>2. None \notin Versions
  BY ConstantsAssumption
<1> USE <1>1, <1>2, ScriptOrder DEF ScriptInv, TypeOK, FileNames, daemon, exec, service, output
<1>3. ASSUME UNCHANGED <<service, output>>,
             \A f \in FileNames : mount'[f] = mount[f] \/ mount'[f] \in Versions
      PROVE  ScriptInv'
  BY <1>3
<1>4. ASSUME NEW v \in Versions, Config(v)
      PROVE  ScriptInv'
  BY <1>4, <1>3 DEF Config
<1>5. CASE WriteTemp \/ ConfigDone
  BY <1>5, <1>3 DEF WriteTemp, ConfigDone
<1>6. CASE Rename
  <2>1. mount' = [mount EXCEPT ![todo] = version] /\ UNCHANGED <<service, output>>
    BY <1>6 DEF Rename
  <2>2. QED
    BY <2>1, <1>3
<1>7. CASE UNCHANGED vars
  BY <1>7, <1>3 DEF vars
<1>8. CASE Upgrade \/ RunEnds \/ BusLost \/ Die
  BY <1>8, <1>3 DEF Upgrade, RunEnds, BusLost, Die, Goto
<1>9. CASE Exec
  <2>1. CASE Reset
    BY <2>1 DEF Reset, Goto
  <2>2. CASE StartUnit \/ StartLost
    <3>1. /\ unit' = "running" /\ command' = "open" /\ env' = Environment
          /\ broken' = FALSE
          /\ UNCHANGED <<mount, needed, stamp>>
      BY <2>2 DEF StartUnit, StartLost, Activate, Starts
    <3>2. \A f \in Environment \cup {"script"} : mount[f] # None
      <4>1. pc = "start"
        BY <2>2 DEF StartUnit, StartLost
      <4>2. \A f \in Environment \cup {"script"} : mount[f] = version
        BY <4>1, ConfiguredMount
      <4>3. QED
        BY <4>2
    <3>3. QED
      BY <3>1, <3>2
  <2>3. CASE ExecFails \/ OpenJournal \/ Wait \/ ReadUpgradeLog \/ ReadLogFails
    BY <2>3, <1>3 DEF ExecFails, OpenJournal, Wait, ReadUpgradeLog, ReadLogFails, Return, Goto
  <2>4. CASE ReadLines
    BY <2>4, <1>3 DEF ReadLines, Return, Goto
  <2>5. CASE ReadRebootRequired
    BY <2>5, <1>3
       DEF ReadRebootRequired, UbuntuNeeds, DebianNeeds, CentosNeeds, Return, Goto
  <2>6. QED
    BY <1>9, <2>1, <2>2, <2>3, <2>4, <2>5 DEF Exec
<1>10. CASE Unit
  <2>1. CASE OpenScript
    BY <2>1 DEF OpenScript, Runs, Continue
  <2>2. CASE AptUpdate
    BY <2>2 DEF AptUpdate, Runs, Continue
  <2>3. CASE PackageUpgrade
    <3>1. (broken' => system = "centos") /\ (needed => needed')
      BY <2>3 DEF PackageUpgrade
    <3>2. /\ unit = "running" /\ command = "upgrade" /\ command' = Script["upgrade"]
          /\ log' = "run"
          /\ UNCHANGED <<mount, unit, env, stamp>>
      BY <2>3 DEF PackageUpgrade, Runs, Continue
    <3>3. "upgrade" \in DOMAIN Script /\ Script["upgrade"] # "end"
      BY <3>2
    <3>4. QED
      BY <3>1, <3>2, <3>3
  <2>4. CASE CopyRequired
    BY <2>4 DEF CopyRequired, Runs, Continue
  <2>5. CASE NeedsRestarting
    BY <2>5 DEF NeedsRestarting, Runs, Continue
  <2>6. CASE CommandFails
    <3>1. needed => needed'
      BY <2>6 DEF CommandFails
    <3>2. unit' = "failed" /\ command' = "end" /\ UNCHANGED stamp
      BY <2>6 DEF CommandFails, UnitFails
    <3>3. QED
      BY <3>1, <3>2
  <2>7. CASE UnitEnds
    BY <2>7 DEF UnitEnds, Runs
  <2>8. QED
    BY <1>10, <2>1, <2>2, <2>3, <2>4, <2>5, <2>6, <2>7 DEF Unit
<1>11. CASE Boot
  BY <1>11 DEF Boot
<1>12. QED
  BY <1>4, <1>5, <1>6, <1>7, <1>8, <1>9, <1>10, <1>11 DEF Next

\* The daemon keeps the result of its own unit until it returns.
LEMMA StepKeepsJobInv ==
  ASSUME TypeOK, TypeOK', ScriptInv, JobInv, [Next]_vars
  PROVE  JobInv'
<1>1. UNCHANGED <<system, Files, Script>>
  BY SystemStays
<1>2. UNCHANGED version => UNCHANGED Environment
  BY EnvironmentStays
<1> USE <1>1, <1>2 DEF JobInv, TypeOK, daemon, exec, service, output
<1>3. ASSUME NEW v \in Versions, Config(v)
      PROVE  JobInv'
  BY <1>3 DEF Config
<1>4. CASE WriteTemp \/ ConfigDone \/ Rename
  BY <1>4 DEF WriteTemp, ConfigDone, Rename
<1>5. CASE UNCHANGED vars
  BY <1>5 DEF vars
<1>6. CASE Upgrade \/ RunEnds
  BY <1>6 DEF Upgrade, RunEnds, Goto
<1>7. CASE BusLost
  BY <1>7 DEF BusLost
<1>8. CASE Die \/ Boot
  BY <1>8 DEF Die, Boot, Exit
<1>9. CASE Exec
  <2>1. CASE Reset
    BY <2>1 DEF Reset, Goto
  <2>2. CASE StartUnit
    BY <2>2 DEF StartUnit, Activate, Starts
  <2>3. CASE StartLost
    BY <2>3 DEF StartLost, Activate, Starts
  <2>4. CASE ExecFails
    BY <2>4 DEF ExecFails, Return, Goto
  <2>5. CASE OpenJournal \/ Wait
    BY <2>5 DEF OpenJournal, Wait, Goto
  <2>6. CASE ReadLines
    BY <2>6 DEF ReadLines, Return, Goto
  <2>7. CASE ReadUpgradeLog \/ ReadLogFails
    BY <2>7 DEF ReadUpgradeLog, ReadLogFails, Return, Goto
  <2>8. CASE ReadRebootRequired
    BY <2>8 DEF ReadRebootRequired, UbuntuNeeds, DebianNeeds, CentosNeeds, Return, Goto
  <2>9. QED
    BY <1>9, <2>1, <2>2, <2>3, <2>4, <2>5, <2>6, <2>7, <2>8 DEF Exec
<1>10. CASE Unit
  <2>1. CASE UnitEnds
    BY <2>1 DEF UnitEnds, Runs, Signal, ScriptInv
  <2>2. CASE CommandFails
    BY <2>2 DEF CommandFails, UnitFails, Signal
  <2>3. CASE OpenScript \/ AptUpdate
    BY <2>3 DEF OpenScript, AptUpdate, Runs, Continue
  <2>4. CASE PackageUpgrade
    BY <2>4 DEF PackageUpgrade, Runs, Continue
  <2>5. CASE CopyRequired \/ NeedsRestarting
    BY <2>5 DEF CopyRequired, NeedsRestarting, Runs, Continue
  <2>6. QED
    BY <1>10, <2>1, <2>2, <2>3, <2>4, <2>5 DEF Unit
<1>11. QED
  BY <1>3, <1>4, <1>5, <1>6, <1>7, <1>8, <1>9, <1>10 DEF Next

\* A unit reads whole files, and that of a daemon in its call those of this daemon.
LEMMA StepKeepsReads ==
  ASSUME TypeOK, UnitInv, [Next]_vars
  PROVE  ReadsWhole' /\ AwaitedReadsOwn'
<1> USE DEF UnitInv, TypeOK, ReadsWhole, AwaitedReadsOwn, FileNames, daemon, exec, service
<1>1. ASSUME UNCHANGED <<version, uses>>, job' = job \/ job' = "none" \/ job # "none"
      PROVE  ReadsWhole' /\ AwaitedReadsOwn'
  BY <1>1
<1>2. ASSUME uses' = {}
      PROVE  ReadsWhole' /\ AwaitedReadsOwn'
  BY <1>2
<1>3. ASSUME NEW fs \in SUBSET FileNames, fs \subseteq env \cup {"script"}, unit = "running",
             Reads(fs), UNCHANGED version, job' # "none" => job # "none"
      PROVE  ReadsWhole' /\ AwaitedReadsOwn'
  <2>1. \A f \in fs : mount[f] \in Versions
    BY <1>3 DEF ScriptInv
  <2>2. {mount[f] : f \in fs} \cap {None, Partial} = {}
    BY <2>1, ConstantsAssumption
  <2>3. ReadsWhole'
    BY <1>3, <2>2 DEF Reads
  <2>4. ASSUME job' # "none"
        PROVE  uses' \subseteq {version'}
    <3>1. pc \notin {"exited", "config", "rename"} /\ fs \subseteq Environment \cup {"script"}
      BY <1>3, <2>4 DEF JobInv
    <3>2. \A f \in fs : mount[f] = version
      BY <3>1, ConfiguredMount
    <3>3. QED
      BY <1>3, <2>4, <3>2 DEF Reads
  <2>5. QED
    BY <2>3, <2>4
<1>4. ASSUME NEW v \in Versions, Config(v)
      PROVE  ReadsWhole' /\ AwaitedReadsOwn'
  BY <1>4 DEF Config, JobInv
<1>5. CASE UNCHANGED vars
  BY <1>5, <1>1 DEF vars
<1>6. CASE WriteTemp \/ ConfigDone \/ Rename \/ Upgrade \/ RunEnds \/ Die
  BY <1>6, <1>1 DEF WriteTemp, ConfigDone, Rename, Upgrade, RunEnds, Die, Exit, Goto
<1>7. CASE BusLost
  BY <1>7, <1>1 DEF BusLost
<1>8. CASE Boot
  BY <1>8, <1>2 DEF Boot
<1>9. CASE Exec
  <2>1. CASE Reset
    BY <2>1, <1>1 DEF Reset, Goto
  <2>2. CASE StartUnit \/ StartLost
    BY <2>2, <1>2 DEF StartUnit, StartLost, Activate
  <2>3. CASE ExecFails \/ OpenJournal \/ Wait \/ ReadUpgradeLog \/ ReadLogFails
    BY <2>3, <1>1 DEF ExecFails, OpenJournal, Wait, ReadUpgradeLog, ReadLogFails, Return, Goto
  <2>4. CASE ReadLines
    BY <2>4, <1>1 DEF ReadLines, Return, Goto
  <2>5. CASE ReadRebootRequired
    BY <2>5, <1>1
       DEF ReadRebootRequired, UbuntuNeeds, DebianNeeds, CentosNeeds, Return, Goto
  <2>6. QED
    BY <1>9, <2>1, <2>2, <2>3, <2>4, <2>5 DEF Exec
<1>10. CASE Unit
  <2>1. CASE OpenScript
    <3>1. /\ unit = "running" /\ Reads({"script"}) /\ UNCHANGED <<version, job>>
      BY <2>1 DEF OpenScript, Runs, Continue
    <3>2. QED
      BY <3>1, <1>3
  <2>2. CASE AptUpdate \/ PackageUpgrade
    <3>1. /\ unit = "running" /\ Reads(env) /\ UNCHANGED <<version, job>>
      BY <2>2 DEF AptUpdate, PackageUpgrade, Runs, Continue
    <3>2. QED
      BY <3>1, <1>3
  <2>3. CASE CopyRequired \/ NeedsRestarting
    BY <2>3, <1>1 DEF CopyRequired, NeedsRestarting, Continue
  <2>4. CASE CommandFails
    <3>1. /\ unit = "running" /\ UNCHANGED version
          /\ job' # "none" => job # "none"
          /\ Reads(env) \/ UNCHANGED uses
      BY <2>4 DEF CommandFails, UnitFails, Signal
    <3>2. CASE Reads(env)
      BY <3>1, <3>2, <1>3
    <3>3. CASE UNCHANGED uses
      BY <3>1, <3>3, <1>1
    <3>4. QED
      BY <3>1, <3>2, <3>3
  <2>5. CASE UnitEnds
    BY <2>5, <1>1 DEF UnitEnds, Signal
  <2>6. QED
    BY <1>10, <2>1, <2>2, <2>3, <2>4, <2>5 DEF Unit
<1>11. QED
  BY <1>4, <1>5, <1>6, <1>7, <1>8, <1>9, <1>10 DEF Next

\* Files, unit and job go together, whatever daemons die and whatever they leave.
THEOREM UnitInvariant == Spec => []UnitInv
<1>1. Init => UnitInv
  BY DEF Init, UnitInv, ConfigInv, ScriptInv, JobInv, ReadsWhole, AwaitedReadsOwn
<1>2. TypeOK /\ TypeOK' /\ UnitInv /\ [Next]_vars => UnitInv'
  BY StepKeepsConfigInv, StepKeepsScriptInv, StepKeepsJobInv, StepKeepsReads DEF UnitInv
<1>3. QED
  BY <1>1, <1>2, TypeCorrect, PTL DEF Spec

\* No unit reads a file that is missing or half written.
THEOREM UnitsReadWhole == Spec => []ReadsWhole
BY UnitInvariant, PTL DEF UnitInv

\* The unit that a daemon waits for has read the files of this daemon only.
THEOREM AwaitedUnitsReadOwn == Spec => []AwaitedReadsOwn
BY UnitInvariant, PTL DEF UnitInv

\* Upgrade returns nil with the log and the stamp of the unit that it has run.
THEOREM ResultsAreOwn == Spec => []ResultIsOwn
<1>1. TypeOK /\ UnitInv => ResultIsOwn
  BY DEF TypeOK, UnitInv, ScriptInv, JobInv, ResultIsOwn
<1>2. QED
  BY <1>1, TypeCorrect, UnitInvariant, PTL

\* On Ubuntu and Debian a failed upgrade is reported as one.
THEOREM AptFailuresAreReported == Spec => []AptFailureIsReported
<1>1. TypeOK /\ UnitInv => AptFailureIsReported
  BY DEF TypeOK, UnitInv, JobInv, AptFailureIsReported, FailureIsReported
<1>2. QED
  BY <1>1, TypeCorrect, UnitInvariant, PTL

-----------------------------------------------------------------------------
(* The refinement *)

\* Config, Exec and the script together are one call of Upgrade.
THEOREM UnitImplementsUpgrade == Spec => ImplementsUpgrade
<1>1. Init => Service!Init
  BY DEF Init, Service!Init, Phase, NoStatus, Service!NoStatus
<1>2. ASSUME TypeOK, TypeOK', UnitInv, [Next]_vars
      PROVE  [Service!Next]_(Service!vars)
  <2> USE <1>2 DEF TypeOK, daemon, exec, service, output, Service!vars
  <2>1. NoStatus = Service!NoStatus
    BY DEF NoStatus, Service!NoStatus
  <2>2. ASSUME UNCHANGED <<pc, status, unit, stamp>>
        PROVE  [Service!Next]_(Service!vars)
    BY <2>2 DEF Phase
  <2>3. ASSUME Phase = "out", Phase' = "out", UNCHANGED <<status, unit, stamp>>
        PROVE  [Service!Next]_(Service!vars)
    BY <2>3
  <2>4. ASSUME Phase' = "out", UNCHANGED <<unit, stamp>>
        PROVE  [Service!Next]_(Service!vars)
    <3>1. status' = NoStatus
      BY <2>4 DEF Phase
    <3>2. QED
      BY <2>1, <2>4, <3>1 DEF Service!Next, Service!Leave
  <2>5. CASE UNCHANGED vars
    BY <2>5, <2>2 DEF vars
  <2>6. ASSUME NEW v \in Versions, Config(v)
        PROVE  [Service!Next]_(Service!vars)
    BY <2>6, <2>4 DEF Config, Phase
  <2>7. CASE WriteTemp \/ Rename \/ ConfigDone
    BY <2>7, <2>4 DEF WriteTemp, Rename, ConfigDone, Phase
  <2>8. CASE RunEnds
    BY <2>8, <2>4 DEF RunEnds, Goto, Phase
  <2>9. CASE Die
    BY <2>9, <2>4 DEF Die, Exit, Phase
  <2>10. CASE BusLost
    BY <2>10, <2>2 DEF BusLost
  <2>11. CASE Upgrade
    <3>1. Phase = "out" /\ Phase' = "called" /\ UNCHANGED <<status, unit, stamp>>
      BY <2>11 DEF Upgrade, Goto, Phase
    <3>2. QED
      BY <3>1 DEF Service!Next, Service!Call
  <2>12. CASE Exec
    <3>1. ASSUME Phase \in {"called", "awaits"}, Phase' = "returned",
                 status' = [failed |-> TRUE, required |-> FALSE]
                   \/ status' = [failed |-> TRUE, required |-> stamp],
                 UNCHANGED stamp,
                 \/ UNCHANGED unit
                 \/ Phase = "called" /\ unit # "running" /\ unit' = "running"
          PROVE  [Service!Next]_(Service!vars)
      <4>1. status' \in {[failed |-> TRUE, required |-> r] : r \in {FALSE, stamp}}
        BY <3>1
      <4>2. Service!Fail
        BY <3>1, <4>1 DEF Service!Fail
      <4>3. QED
        BY <4>2 DEF Service!Next
    <3>2. CASE Reset
      <4>1. Phase = "called" /\ Phase' = "called" /\ UNCHANGED <<status, stamp>>
        BY <3>2 DEF Reset, Goto, Phase
      <4>2. UNCHANGED unit \/ (unit = "failed" /\ unit' = "inactive")
        BY <3>2 DEF Reset
      <4>3. QED
        BY <4>1, <4>2 DEF Service!Next, Service!Reset
    <3>3. CASE StartUnit
      <4>1. Phase = "called" /\ Phase' = "awaits"
        BY <3>3 DEF StartUnit, Starts, Phase
      <4>2. unit # "running" /\ unit' = "running" /\ UNCHANGED stamp /\ status = NoStatus
        BY <3>3 DEF StartUnit, Starts, Activate
      <4>3. status' = NoStatus
        BY <3>3 DEF StartUnit, Starts, NoStatus
      <4>4. QED
        BY <4>1, <4>2, <4>3 DEF Service!Next, Service!Start
    <3>4. CASE StartLost
      <4>1. Phase = "called" /\ Phase' = "returned"
        BY <3>4 DEF StartLost, Starts, Phase
      <4>2. /\ status' = [failed |-> TRUE, required |-> FALSE]
            /\ unit # "running" /\ unit' = "running" /\ UNCHANGED stamp
        BY <3>4 DEF StartLost, Starts, Activate
      <4>3. QED
        BY <4>1, <4>2, <3>1
    <3>5. ASSUME pc \in {"reset", "start", "journal", "lines", "log", "needs"},
                 Return(TRUE, FALSE) \/ Return(TRUE, stamp), UNCHANGED service
          PROVE  [Service!Next]_(Service!vars)
      <4>1. Phase \in {"called", "awaits"} /\ Phase' = "returned"
        BY <3>5 DEF Return, Goto, Phase
      <4>2. /\ \/ status' = [failed |-> TRUE, required |-> FALSE]
               \/ status' = [failed |-> TRUE, required |-> stamp]
            /\ UNCHANGED <<unit, stamp>>
        BY <3>5 DEF Return, Goto
      <4>3. QED
        BY <4>1, <4>2, <3>1
    <3>6. CASE ExecFails
      BY <3>6, <3>5 DEF ExecFails
    <3>7. CASE OpenJournal \/ Wait \/ ReadUpgradeLog
      BY <3>7 DEF OpenJournal, Wait, ReadUpgradeLog, Goto, Phase
    <3>8. CASE ReadLines
      <4>1. CASE Return(TRUE, FALSE)
        BY <3>8, <4>1, <3>5 DEF ReadLines
      <4>2. CASE Goto("log") /\ UNCHANGED exec
        BY <3>8, <4>2 DEF ReadLines, Goto, Phase
      <4>3. QED
        BY <3>8, <4>1, <4>2 DEF ReadLines
    <3>9. CASE ReadLogFails
      BY <3>9, <3>5 DEF ReadLogFails
    <3>10. CASE ReadRebootRequired
      <4>1. pc = "needs" /\ UNCHANGED service
        BY <3>10 DEF ReadRebootRequired
      <4>2. CASE Return(FALSE, stamp)
        <5>1. Phase = "awaits" /\ Phase' = "returned"
          BY <4>1, <4>2 DEF Return, Goto, Phase
        <5>2. unit = "inactive"
          BY <4>1 DEF UnitInv, JobInv
        <5>3. /\ status' = [failed |-> FALSE, required |-> stamp]
              /\ UNCHANGED <<unit, stamp>>
          BY <4>1, <4>2 DEF Return, Goto
        <5>4. QED
          BY <5>1, <5>2, <5>3 DEF Service!Next, Service!Succeed
      <4>3. CASE Return(TRUE, FALSE) \/ Return(TRUE, stamp)
        BY <4>1, <4>3, <3>5
      <4>4. QED
        BY <3>10, <4>2, <4>3
           DEF ReadRebootRequired, UbuntuNeeds, DebianNeeds, CentosNeeds
    <3>11. QED
      BY <2>12, <3>2, <3>3, <3>4, <3>6, <3>7, <3>8, <3>9, <3>10 DEF Exec
  <2>13. CASE Unit
    <3>1. ASSUME unit = "running", stamp => stamp', UNCHANGED <<pc, status>>
          PROVE  [Service!Next]_(Service!vars)
      <4>1. UNCHANGED Phase
        BY <3>1 DEF Phase
      <4>2. Service!Script
        BY <3>1, <4>1 DEF Service!Script
      <4>3. QED
        BY <4>2 DEF Service!Next
    <3>2. CASE OpenScript \/ AptUpdate \/ PackageUpgrade
      BY <3>2, <3>1 DEF OpenScript, AptUpdate, PackageUpgrade, Runs, Continue
    <3>3. CASE CopyRequired \/ NeedsRestarting
      <4>1. stamp => stamp'
        BY <3>3 DEF CopyRequired, NeedsRestarting
      <4>2. unit = "running" /\ UNCHANGED <<pc, status>>
        BY <3>3 DEF CopyRequired, NeedsRestarting, Runs, Continue
      <4>3. QED
        BY <4>1, <4>2, <3>1
    <3>4. CASE CommandFails
      BY <3>4, <3>1 DEF CommandFails, UnitFails
    <3>5. CASE UnitEnds
      BY <3>5, <3>1 DEF UnitEnds, Runs
    <3>6. QED
      BY <2>13, <3>2, <3>3, <3>4, <3>5 DEF Unit
  <2>14. CASE Boot
    <3>1. Phase' = "out" /\ status' = NoStatus /\ unit' = "inactive" /\ stamp' = FALSE
      BY <2>14 DEF Boot, Exit, Phase
    <3>2. QED
      BY <2>1, <3>1 DEF Service!Next, Service!Boot
  <2>15. QED
    BY <2>5, <2>6, <2>7, <2>8, <2>9, <2>10, <2>11, <2>12, <2>13, <2>14 DEF Next
<1>3. QED
  BY <1>1, <1>2, TypeCorrect, UnitInvariant, PTL
     DEF Spec, ImplementsUpgrade, Service!Spec
=============================================================================
