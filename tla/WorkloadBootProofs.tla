-------------------------- MODULE WorkloadBootProofs --------------------------
(***************************************************************************)
(* The crash-loop guard, for any Workloads, any limit of starts and any    *)
(* number of power cuts, reboots, resets and deployments.                  *)
(***************************************************************************)
EXTENDS WorkloadBoot, TLAPS

USE WorkloadAssumption

\* A history one longer is within its range and no shorter.
LEMMA OneMoreTyped ==
  ASSUME NEW n \in 0..(MaxUncleanStarts + 1)
  PROVE  /\ OneMore(n) \in 0..(MaxUncleanStarts + 1)
         /\ OneMore(n) = n + 1 \/ OneMore(n) > MaxUncleanStarts
BY DEF OneMore

\* After a reset nothing runs and nothing is scheduled.
LEMMA RestartTyped ==
  ASSUME TypeOK, Restart
  PROVE  /\ phase' = "boot" /\ reboot' = "none" /\ running' = NoWorkload
         /\ suppressed' = FALSE /\ auto' = FALSE /\ proof' = 0
         /\ active' = active /\ active' \in Workloads \cup {NoWorkload}
         /\ ~Counted'
BY DEF TypeOK, Restart, Counted

\* A reset re-establishes the invariant when the record it leaves counts no
\* more than the unclean resets, and no less than the crashes.
LEMMA ResetKeeps ==
  ASSUME TypeOK, Restart,
         attempts' \in 0..MaxUncleanStarts,
         crashes' \in 0..(MaxUncleanStarts + 1),
         unclean' \in 0..(MaxUncleanStarts + 1),
         attempts' <= unclean', crashes' <= attempts',
         cuts' \in 0..MaxCuts, reboots' \in 0..MaxReboots,
         resets' \in 0..MaxResets, deploys' \in 0..MaxDeploys
  PROVE  GuardInv'
<1>0. /\ phase' = "boot" /\ reboot' = "none" /\ running' = NoWorkload
      /\ suppressed' = FALSE /\ auto' = FALSE /\ proof' = 0
      /\ active' \in Workloads \cup {NoWorkload}
      /\ ~Counted'
  BY RestartTyped
<1>1. TypeOK'
  <2>1. auto' \in BOOLEAN /\ suppressed' \in BOOLEAN
    BY <1>0
  <2>2. proof' \in 0..ProvenTicks
    BY <1>0
  <2> QED
    BY <1>0, <2>1, <2>2 DEF TypeOK
<1>2. AttemptsAreResets'
  BY <1>0 DEF AttemptsAreResets
<1>3. CrashesAreAttempts'
  BY <1>0 DEF CrashesAreAttempts
<1>4. CrashLoopIsBounded'
  BY DEF CrashLoopIsBounded
<1> QED
  BY <1>1, <1>2, <1>3, <1>4 DEF GuardInv

-----------------------------------------------------------------------------
(* The inductive invariant.                                                *)

\* The invariant is inductive.
LEMMA GuardNext == GuardInv /\ [Next]_vars => GuardInv'
<1> SUFFICES ASSUME GuardInv, [Next]_vars PROVE GuardInv'
  OBVIOUS
<1>0. /\ TypeOK /\ AttemptsAreResets /\ CrashesAreAttempts
      /\ CrashLoopIsBounded
  BY DEF GuardInv
<1>1. CASE Stay
  BY <1>0, <1>1 DEF Stay, GuardInv, TypeOK, AttemptsAreResets,
     CrashesAreAttempts, CrashLoopIsBounded, Counted, history, bounds
<1>2. CASE Decide
  <2>1. CASE Start
    BY <1>0, <1>2, <2>1 DEF Decide, Start, GuardInv, TypeOK,
       AttemptsAreResets, CrashesAreAttempts, CrashLoopIsBounded, Counted,
       history, bounds
  <2>2. CASE Suppress
    <3>1. /\ phase = "decide" /\ phase' = "serve" /\ suppressed' = TRUE
          /\ UNCHANGED <<attempts, active, running, auto, proof, reboot,
                         crashes, unclean, cuts, reboots, resets, deploys>>
      BY <1>2, <2>2 DEF Decide, Suppress, history, bounds
    <3>2. TypeOK'
      BY <1>0, <3>1 DEF TypeOK
    <3>3. ~Counted /\ ~Counted'
      BY <3>1 DEF Counted
    <3>4. AttemptsAreResets'
      BY <1>0, <3>1, <3>3 DEF AttemptsAreResets
    <3>5. CrashesAreAttempts'
      BY <1>0, <3>1 DEF CrashesAreAttempts, AttemptsAreResets
    <3>6. CrashLoopIsBounded'
      BY <1>0, <3>1 DEF CrashLoopIsBounded
    <3> QED
      BY <3>2, <3>4, <3>5, <3>6 DEF GuardInv
  <2> QED
    BY <1>2, <2>1, <2>2 DEF Decide
<1>3. CASE Reconcile
  BY <1>0, <1>3 DEF Reconcile, GuardInv, TypeOK, AttemptsAreResets,
     CrashesAreAttempts, CrashLoopIsBounded, Counted, history, bounds
<1>4. CASE Observe
  <2>1. CASE Proven
    BY <1>0, <1>4, <2>1 DEF Observe, Proven, GuardInv, TypeOK,
       AttemptsAreResets, CrashesAreAttempts, CrashLoopIsBounded, Counted,
       bounds
  <2>2. CASE ~Proven
    BY <1>0, <1>4, <2>2 DEF Observe, Proven, GuardInv, TypeOK,
       AttemptsAreResets, CrashesAreAttempts, CrashLoopIsBounded, Counted,
       bounds
  <2> QED
    BY <2>1, <2>2
<1>5. CASE ObserveUnhealthy
  BY <1>0, <1>5 DEF ObserveUnhealthy, GuardInv, TypeOK, AttemptsAreResets,
     CrashesAreAttempts, CrashLoopIsBounded, Counted, history, bounds
<1>6. CASE Deploy
  <2>1. /\ phase = "serve" /\ auto' = FALSE /\ proof' \in {0, proof}
        /\ running' \in Workloads /\ active' \in Workloads
        /\ deploys < MaxDeploys /\ deploys' = deploys + 1
        /\ UNCHANGED <<phase, attempts, suppressed, reboot, crashes, unclean,
                       cuts, reboots, resets>>
    BY <1>6 DEF Deploy, history
  <2>2. TypeOK'
    <3>1. auto' \in BOOLEAN
      BY <2>1
    <3>2. proof' \in 0..ProvenTicks /\ deploys' \in 0..MaxDeploys
      BY <1>0, <2>1 DEF TypeOK
    <3> QED
      BY <1>0, <2>1, <3>1, <3>2 DEF TypeOK
  <2>3. AttemptsAreResets'
    BY <1>0, <2>1 DEF AttemptsAreResets, Counted
  <2>4. CrashesAreAttempts'
    BY <1>0, <2>1 DEF CrashesAreAttempts
  <2>5. CrashLoopIsBounded'
    BY <1>0, <2>1 DEF CrashLoopIsBounded
  <2> QED
    BY <2>2, <2>3, <2>4, <2>5 DEF GuardInv
<1>7. CASE ScheduleReboot
  BY <1>0, <1>7 DEF ScheduleReboot, GuardInv, TypeOK, AttemptsAreResets,
     CrashesAreAttempts, CrashLoopIsBounded, Counted, history
<1>8. CASE MarkClean
  BY <1>0, <1>8 DEF MarkClean, GuardInv, TypeOK, AttemptsAreResets,
     CrashesAreAttempts, CrashLoopIsBounded, Counted, history, bounds
<1>9. CASE ArmedReset
  <2>1. /\ Restart /\ Forgive /\ attempts = 0
        /\ UNCHANGED <<attempts, bounds>>
    BY <1>0, <1>9 DEF ArmedReset, AttemptsAreResets
  <2> QED
    BY <1>0, <2>1, ResetKeeps DEF TypeOK, Forgive, bounds
<1>10. CASE Crash
  <2>1. Restart /\ UNCHANGED <<attempts, bounds>>
    BY <1>10 DEF Crash
  <2>2. CASE reboot = "armed"
    <3>1. Forgive /\ attempts = 0
      BY <1>0, <1>10, <2>2 DEF Crash, AttemptsAreResets
    <3> QED
      BY <1>0, <2>1, <3>1, ResetKeeps DEF TypeOK, Forgive, bounds
  <2>3. CASE reboot # "armed"
    <3>1. unclean' = OneMore(unclean)
      BY <1>10, <2>3 DEF Crash
    <3>2. /\ unclean' \in 0..(MaxUncleanStarts + 1)
          /\ attempts' <= unclean'
      BY <1>0, <2>1, <3>1, OneMoreTyped DEF TypeOK, AttemptsAreResets, Counted
    <3>3. /\ crashes' \in 0..(MaxUncleanStarts + 1)
          /\ crashes' <= attempts'
      <4>1. CASE auto /\ proof # ProvenTicks
        <5>1. crashes' = OneMore(crashes)
          BY <1>10, <2>3, <4>1 DEF Crash
        <5>2. crashes < attempts
          BY <1>0, <1>10, <2>3, <4>1 DEF Crash, CrashesAreAttempts
        <5> QED
          BY <1>0, <2>1, <5>1, <5>2 DEF TypeOK, OneMore
      <4>2. CASE ~(auto /\ proof # ProvenTicks)
        <5>1. crashes' = crashes
          BY <1>10, <2>3, <4>2 DEF Crash
        <5> QED
          BY <1>0, <2>1, <2>3, <5>1 DEF TypeOK, CrashesAreAttempts
      <4> QED
        BY <4>1, <4>2
    <3> QED
      BY <1>0, <2>1, <3>2, <3>3, ResetKeeps DEF TypeOK, bounds
  <2> QED
    BY <2>2, <2>3
<1>11. CASE AgentReset
  <2>1. /\ Restart /\ UNCHANGED <<attempts, cuts, reboots, deploys>>
        /\ resets' = resets + 1 /\ resets < MaxResets
    BY <1>11 DEF AgentReset
  <2>2. resets' \in 0..MaxResets
    BY <1>0, <2>1 DEF TypeOK
  <2>3. CASE reboot = "armed"
    <3>1. Forgive /\ attempts = 0
      BY <1>0, <1>11, <2>3 DEF AgentReset, AttemptsAreResets
    <3> QED
      BY <1>0, <2>1, <2>2, <3>1, ResetKeeps DEF TypeOK, Forgive
  <2>4. CASE reboot # "armed"
    <3>1. unclean' = OneMore(unclean) /\ crashes' = crashes
      BY <1>11, <2>4 DEF AgentReset
    <3>2. /\ unclean' \in 0..(MaxUncleanStarts + 1)
          /\ attempts' <= unclean'
      BY <1>0, <2>1, <3>1, OneMoreTyped DEF TypeOK, AttemptsAreResets, Counted
    <3>3. crashes' <= attempts'
      BY <1>0, <2>1, <2>4, <3>1 DEF CrashesAreAttempts
    <3> QED
      BY <1>0, <2>1, <2>2, <3>1, <3>2, <3>3, ResetKeeps DEF TypeOK
  <2> QED
    BY <2>3, <2>4
<1>12. CASE PowerCut
  <2>1. /\ Restart /\ Forgive /\ attempts' = 0
        /\ UNCHANGED <<reboots, resets, deploys>>
        /\ cuts' = cuts + 1 /\ cuts < MaxCuts
    BY <1>12 DEF PowerCut
  <2> QED
    BY <1>0, <2>1, ResetKeeps DEF TypeOK, Forgive
<1>13. CASE UNCHANGED vars
  BY <1>0, <1>13 DEF vars, GuardInv, TypeOK, AttemptsAreResets,
     CrashesAreAttempts, CrashLoopIsBounded, Counted, history, bounds
<1> QED
  BY <1>1, <1>2, <1>3, <1>4, <1>5, <1>6, <1>7, <1>8, <1>9, <1>10, <1>11,
     <1>12, <1>13 DEF Next

\* It holds in every reachable state.
THEOREM GuardInvariance == Spec => []GuardInv
<1>1. Init => GuardInv
  <2> SUFFICES ASSUME Init PROVE GuardInv
    OBVIOUS
  <2>1. TypeOK
    <3>1. auto \in BOOLEAN /\ suppressed \in BOOLEAN
      BY DEF Init
    <3>2. attempts \in 0..MaxUncleanStarts /\ proof \in 0..ProvenTicks
      BY DEF Init
    <3>3. /\ crashes \in 0..(MaxUncleanStarts + 1)
          /\ unclean \in 0..(MaxUncleanStarts + 1)
      BY DEF Init
    <3>4. /\ cuts \in 0..MaxCuts /\ reboots \in 0..MaxReboots
          /\ resets \in 0..MaxResets /\ deploys \in 0..MaxDeploys
      BY DEF Init
    <3> QED
      BY <3>1, <3>2, <3>3, <3>4 DEF Init, TypeOK
  <2>2. AttemptsAreResets /\ CrashesAreAttempts /\ CrashLoopIsBounded
    BY DEF Init, AttemptsAreResets, CrashesAreAttempts, CrashLoopIsBounded,
       Counted
  <2> QED
    BY <2>1, <2>2 DEF GuardInv
<1> QED
  BY <1>1, GuardNext, PTL DEF Spec

-----------------------------------------------------------------------------
(* The properties.                                                         *)

\* The record stays within what the decision looks at.
THEOREM GuardTypeCorrect == Spec => []TypeOK
<1>1. GuardInv => TypeOK
  BY DEF GuardInv
<1> QED
  BY <1>1, GuardInvariance, PTL

\* A Workload that takes the chip down at every boot is started by a boot
\* MAX_UNCLEAN_STARTS times at most.
THEOREM CrashLoopIsAlwaysBounded == Spec => []CrashLoopIsBounded
<1>1. GuardInv => CrashLoopIsBounded
  BY DEF GuardInv
<1> QED
  BY <1>1, GuardInvariance, PTL

\* A start is only withheld after that many unclean resets in a row.
THEOREM OnlyUncleanResetsSuppress == Spec => SuppressedByUncleanResets
<1>1. GuardInv /\ [Next]_vars
        => [suppressed' /\ ~suppressed => unclean >= MaxUncleanStarts]_vars
  <2> SUFFICES ASSUME GuardInv, [Next]_vars, suppressed', ~suppressed
               PROVE  unclean >= MaxUncleanStarts
    OBVIOUS
  <2>1. Decide /\ Suppress
    BY DEF Next, vars, Stay, Decide, Start, Reconcile, Observe,
       ObserveUnhealthy, Deploy, ScheduleReboot, MarkClean, ArmedReset, Crash,
       AgentReset, PowerCut, Restart
  <2> QED
    BY <2>1 DEF Decide, Suppress, GuardInv, TypeOK, AttemptsAreResets, Counted
<1> QED
  BY <1>1, GuardInvariance, PTL DEF Spec, SuppressedByUncleanResets

\* workload.rs:123: boots, decisions, starts and crashes leave fewer of them
\* to come, so that a crash loop ends with an agent that stays up.
THEOREM EveryStartIsAlwaysPaid == Spec => EveryStartIsPaid
<1>1. ASSUME GuardInv, Stay \/ Decide \/ Reconcile \/ Crash
      PROVE  StepsLeft' < StepsLeft
  <2>0. /\ attempts \in 0..MaxUncleanStarts
        /\ CrashesAreAttempts
    BY <1>1 DEF GuardInv, TypeOK
  <2>1. CASE Stay
    BY <2>0, <2>1 DEF Stay, StepsLeft, StepsToDecision
  <2>2. CASE Decide
    <3>1. phase = "decide" /\ running = NoWorkload /\ running' = NoWorkload
      BY <2>0, <2>2 DEF Decide, CrashesAreAttempts
    <3>2. CASE Start
      BY <2>0, <3>1, <3>2 DEF Start, StepsLeft, StepsToDecision
    <3>3. CASE Suppress
      BY <2>0, <3>1, <3>3 DEF Suppress, StepsLeft, StepsToDecision
    <3> QED
      BY <2>2, <3>2, <3>3 DEF Decide
  <2>3. CASE Reconcile
    BY <2>0, <2>3 DEF Reconcile, StepsLeft, StepsToDecision
  <2>4. CASE Crash
    <3>1. phase = "serve" /\ running # NoWorkload /\ phase' = "boot"
      BY <2>0, <2>4 DEF Crash, Restart, CrashesAreAttempts
    <3>2. UNCHANGED attempts
      BY <2>4 DEF Crash
    <3> QED
      BY <2>0, <3>1, <3>2 DEF StepsLeft, StepsToDecision
  <2> QED
    BY <1>1, <2>1, <2>2, <2>3, <2>4
<1>2. GuardInv /\ [Next]_vars =>
        [Stay \/ Decide \/ Reconcile \/ Crash => StepsLeft' < StepsLeft]_vars
  BY <1>1
<1> QED
  BY <1>2, GuardInvariance, PTL DEF Spec, EveryStartIsPaid

===============================================================================
