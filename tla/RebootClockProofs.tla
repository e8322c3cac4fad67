------------------------- MODULE RebootClockProofs -------------------------
(****************************************************************************)
(* Proofs about RebootClock, for every resolution of the boot time and      *)
(* every clock within ClockAssumption, without the bound of MaxTime.        *)
(****************************************************************************)
EXTENDS RebootClock, TLAPS

\* The boot time leaves out less than a second (proc/stat.go).
LEMMA WholeSecondsBounds ==
  ASSUME NEW t \in Nat
  PROVE  /\ WholeSeconds(t) \in Int
         /\ t - Second < WholeSeconds(t)
         /\ WholeSeconds(t) <= t
<1>1. t % Second \in 0 .. Second - 1
  BY ClockAssumption
<1>2. QED
  BY <1>1, ClockAssumption DEF WholeSeconds

\* The numbers of ClockAssumption.
LEMMA ClockTypes ==
  /\ Second \in Nat \ {0} /\ Uptime \in Nat /\ Downtime \in Nat
  /\ \A s \in Offsets : s \in Nat
BY ClockAssumption

\* Every step of the host, of its clock and of its daemon keeps the times in order.
LEMMA StepKeepsClockInv ==
  ASSUME ClockInv, [Next]_vars
  PROVE  ClockInv'
<1> USE ClockTypes DEF ClockInv, time
<1>1. CASE UNCHANGED vars
  BY <1>1 DEF vars
<1>2. CASE Tick
  BY <1>2 DEF Tick
<1>3. CASE SetClock
  BY <1>3 DEF SetClock
<1>4. CASE Boot
  BY <1>4 DEF Boot
<1>5. CASE Probe
  <2>1. boot + offset \in Nat
    OBVIOUS
  <2>2. btime' \in Nat
    BY <1>5, <2>1, WholeSecondsBounds DEF Probe
  <2>3. \E s \in Offsets : btime' = WholeSeconds(boot' + s)
    BY <1>5 DEF Probe
  <2>4. QED
    BY <1>5, <2>2, <2>3 DEF Probe
<1>6. CASE ProbeFails
  BY <1>6 DEF ProbeFails
<1>7. CASE NotRebooting \/ StillRebooting \/ Exit
  BY <1>7 DEF NotRebooting, StillRebooting, Exit
<1>8. CASE Rebooted
  BY <1>8 DEF Rebooted, NoMark
<1>9. CASE MarkReboot
  BY <1>9 DEF MarkReboot
<1>10. QED
  BY <1>1, <1>2, <1>3, <1>4, <1>5, <1>6, <1>7, <1>8, <1>9 DEF Next

\* The times of the host and of the daemon stay in order, within the clock's bounds.
THEOREM ClockInvariant == Spec => []ClockInv
<1>1. Init => ClockInv
  BY ClockTypes DEF Init, ClockInv
<1>2. QED
  BY <1>1, StepKeepsClockInv, PTL DEF Spec

\* A mark is before the boot by more than the clock and the second may hide, or after.
LEMMA InvDecides ==
  ASSUME ClockInv
  PROVE  CheckIsRight
<1> SUFFICES ASSUME pc = "probed", mark # NoMark, btime # 0
             PROVE  After(btime, mark) <=> HasRebooted
  BY DEF CheckIsRight
<1> USE ClockTypes DEF ClockInv, After, HasRebooted
<1>1. PICK s \in Offsets : mark = marked + s
  OBVIOUS
<1>2. PICK r \in Offsets : btime = WholeSeconds(boot + r)
  OBVIOUS
<1>3. boot + r - Second < btime /\ btime <= boot + r
  <2>1. boot + r \in Nat
    OBVIOUS
  <2>2. QED
    BY <1>2, <2>1, WholeSecondsBounds
<1>4. /\ r - s <= Uptime
      /\ s - r + Second <= Downtime
      /\ Second <= Downtime
  <2>1. s - s + Second <= Downtime
    BY ClockAssumption
  <2>2. QED
    BY <2>1, ClockAssumption
<1>5. CASE boot + Uptime <= marked
  <2>1. btime <= mark /\ boot <= marked
    BY <1>1, <1>3, <1>4, <1>5
  <2>2. QED
    BY <1>1, <2>1
<1>6. CASE marked + Downtime <= boot
  <2>1. mark < btime /\ marked < boot
    BY <1>1, <1>3, <1>4, <1>6
  <2>2. QED
    BY <1>1, <2>1
<1>7. QED
  BY <1>5, <1>6

\* The check of clearNodeReboot is right whenever the boot time could be read.
THEOREM ChecksAreRight == Spec => []CheckIsRight
BY ClockInvariant, InvDecides, PTL

\* The check refines the abstract mark, step by step.
THEOREM ClockImplementsMark == Spec => ImplementsMark
<1>1. Init => Service!Init
  BY DEF Init, Service!Init, MarkState
<1>2. ASSUME ClockInv, [Next]_vars
      PROVE  [Service!Next]_(Service!vars)
  <2> USE <1>2, ClockTypes DEF ClockInv, MarkState, HasRebooted, time
  <2>1. CASE UNCHANGED vars
    BY <2>1 DEF vars, Service!vars
  <2>2. CASE Tick \/ SetClock \/ Probe \/ ProbeFails \/ StillRebooting
    BY <2>2 DEF Tick, SetClock, Probe, ProbeFails, StillRebooting, Service!vars
  <2>3. CASE Boot
    <3>1. mark # NoMark => marked < now
      <4>1. offset - offset + Second <= Downtime
        BY ClockAssumption
      <4>2. QED
        BY <2>3, <4>1 DEF Boot
    <3>2. QED
      BY <2>3, <3>1 DEF Boot, Service!Next, Service!Boot, Service!Stop
  <2>4. CASE NotRebooting
    BY <2>4 DEF NotRebooting, Service!Next, Service!Pass
  <2>5. CASE Rebooted
    <3>1. HasRebooted /\ mark # NoMark /\ pc = "probed"
      <4>1. pc = "probed" /\ mark # NoMark /\ After(btime, mark)
        BY <2>5 DEF Rebooted
      <4>2. btime # 0
        BY <4>1 DEF After
      <4>3. QED
        BY <4>1, <4>2, InvDecides DEF CheckIsRight
    <3>2. UNCHANGED <<boot, marked>>
      BY <2>5 DEF Rebooted
    <3>3. CASE mark' = mark
      <4>1. pc' = "past" \/ pc' = "exited"
        BY <2>5 DEF Rebooted
      <4>2. QED
        BY <3>1, <3>2, <3>3, <4>1 DEF Service!Next, Service!Pass, Service!Stop
    <3>4. CASE mark' = NoMark
      BY <3>1, <3>2, <3>4 DEF Service!Next, Service!Clear
    <3>5. QED
      BY <2>5, <3>3, <3>4 DEF Rebooted
  <2>6. CASE MarkReboot
    <3>1. now + offset # NoMark /\ ~(boot > now)
      BY DEF NoMark
    <3>2. QED
      BY <2>6, <3>1 DEF MarkReboot, Service!Next, Service!Write
  <2>7. CASE Exit
    BY <2>7 DEF Exit, Service!Next, Service!Stop
  <2>8. QED
    BY <2>1, <2>2, <2>3, <2>4, <2>5, <2>6, <2>7 DEF Next
<1>3. QED
  BY <1>1, <1>2, ClockInvariant, PTL DEF Spec, ImplementsMark, Service!Spec
=============================================================================
