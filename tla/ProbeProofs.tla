------------------------------ MODULE ProbeProofs ------------------------------
(***************************************************************************)
(* The probe runtime leaves no task behind and names the one that runs,    *)
(* for any probes whose periods are shorter than stop waits.               *)
(***************************************************************************)
EXTENDS ProbeRuntime, TLAPS

USE ProbeAssumption, AgeAssumption

\* The health window of a probe is a number of ticks.
LEMMA WindowTyped ==
  ASSUME NEW a \in Artifacts
  PROVE  WindowOf(a) \in Nat
<1>1. Period[a] \in Nat /\ StopWait \in Nat
  OBVIOUS
<1> QED
  BY <1>1 DEF WindowOf, MaxOf

\* The age of a progress as the clock shows it: a tick adds one, or brings it
\* back to nothing.
LEMMA AgeTyped ==
  ASSUME age \in 0..ClockWrap - 1
  PROVE  /\ (age + 1) % ClockWrap \in 0..ClockWrap - 1
         /\ (age + 1) % ClockWrap <= age + 1
<1>1. ClockWrap \in Nat \ {0}
  OBVIOUS
<1>2. CASE age + 1 = ClockWrap
  <2>1. (age + 1) % ClockWrap = 0
    BY <1>1, <1>2
  <2> QED
    BY <1>1, <2>1
<1>3. CASE age + 1 < ClockWrap
  <2>1. (age + 1) % ClockWrap = age + 1
    BY <1>1, <1>3
  <2> QED
    BY <1>1, <1>3, <2>1
<1> QED
  BY <1>1, <1>2, <1>3

\* The absent task, the absent call and the call that follows a stop.
LEMMA NoTaskTyped ==
  /\ NoTask \in Tasks
  /\ NoTask.at = "none" /\ NoTask.artifact = NoArtifact
BY DEF NoTask, Tasks, FreezeAfter

LEMMA NoCallTyped ==
  /\ NoCall \in Calls
  /\ NoCall.step = "idle"
BY DEF NoCall, Calls

LEMMA AfterStopTyped ==
  ASSUME NEW artifact \in Artifacts \cup {NoArtifact}
  PROVE  /\ AfterStop(artifact) \in Calls
         /\ AfterStop(artifact).step \in {"idle", "loading"}
         /\ AfterStop(artifact).step = "loading" =>
              AfterStop(artifact).artifact \in Artifacts
<1>1. CASE artifact = NoArtifact
  BY <1>1, NoCallTyped DEF AfterStop
<1>2. CASE artifact \in Artifacts
  <2>1. AfterStop(artifact) = [step |-> "loading", artifact |-> artifact,
                               taken |-> NoArtifact, left |-> 0]
    BY <1>2 DEF AfterStop, NoCall
  <2> QED
    BY <1>2, <2>1 DEF Calls
<1> QED
  BY <1>1, <1>2

\* A task that goes to sleep is well typed and wakes within its period.
LEMMA SleepTyped ==
  ASSUME TypeOK, task.artifact \in Artifacts,
         NEW ticks \in 0..FreezeAfter + 1, Sleep(ticks)
  PROVE  /\ task' \in Tasks
         /\ task'.at = "asleep" /\ task'.artifact = task.artifact
         /\ task'.sleep = Period[task.artifact]
BY DEF Sleep, TypeOK, Tasks

\* A reset re-establishes the invariant.
LEMMA ResetInv == StaticsReset => ProbeInv'
<1> SUFFICES ASSUME StaticsReset PROVE ProbeInv'
  OBVIOUS
<1>1. TypeOK'
  <2>1. window' \in Nat /\ age' \in 0..ClockWrap - 1
    BY DEF StaticsReset
  <2>2. alive' \in BOOLEAN /\ stop' \in BOOLEAN
    BY DEF StaticsReset
  <2> QED
    BY <2>1, <2>2, NoTaskTyped, NoCallTyped DEF StaticsReset, TypeOK
<1>2. AliveIsAsleep'
  BY NoTaskTyped DEF StaticsReset, AliveIsAsleep
<1>3. StopIsInTime' /\ AnnouncedIsTask'
  BY NoTaskTyped, NoCallTyped DEF StaticsReset, StopIsInTime, AnnouncedIsTask
<1> QED
  BY <1>1, <1>2, <1>3 DEF ProbeInv

\* The invariant is inductive, action by action.
LEMMA ProbeInvNext ==
  ASSUME PeriodsArePrompt, ProbeInv, [Next]_vars
  PROVE  ProbeInv'
<1> USE NoTaskTyped, NoCallTyped
    DEF ProbeInv, TypeOK, AliveIsAsleep, StopIsInTime, AnnouncedIsTask
<1>1. ASSUME NEW artifact \in Artifacts \cup {NoArtifact}, StopInner(artifact)
      PROVE  ProbeInv'
  <2>1. CASE alive
    <3>1. caller' = [step |-> "stopping", artifact |-> artifact,
                     taken |-> current, left |-> StopWait]
      BY <1>1, <2>1 DEF StopInner
    <3>2. caller' \in Calls /\ caller'.step = "stopping" /\ caller'.left = StopWait
      BY <3>1 DEF Calls
    <3>3. task.sleep < StopWait
      BY <2>1 DEF PeriodsArePrompt, Tasks
    <3> QED
      BY <1>1, <2>1, <3>2, <3>3 DEF StopInner
  <2>2. CASE ~alive
    <3>1. /\ current' = NoArtifact /\ caller' = AfterStop(artifact)
          /\ UNCHANGED <<alive, stop, window, age, task>>
      BY <1>1, <2>2 DEF StopInner
    <3>2. task = NoTask
      BY <1>1, <2>2 DEF StopInner, Tasks, Calls
    <3> QED
      BY <2>2, <3>1, <3>2, AfterStopTyped
  <2> QED
    BY <2>1, <2>2
<1>2. CASE StopWaitEnds
  <2>1. CASE StaticsReset
    BY <2>1, ResetInv
  <2>2. CASE ~StaticsReset
    <3>1. /\ caller.step = "stopping" /\ WaitIsOver
          /\ caller' = AfterStop(caller.artifact)
          /\ UNCHANGED <<current, alive, stop, window, age, task>>
      BY <1>2, <2>2 DEF StopWaitEnds
    <3>2. ~alive /\ task = NoTask
      BY <3>1 DEF WaitIsOver, Calls, Tasks
    <3>3. caller.artifact \in Artifacts \cup {NoArtifact}
      BY DEF Calls
    <3> QED
      BY <3>1, <3>2, <3>3, AfterStopTyped
  <2> QED
    BY <2>1, <2>2
<1>3. CASE LoadFails
  BY <1>3 DEF LoadFails
<1>4. CASE LoadResets
  BY <1>4, ResetInv DEF LoadResets
<1>5. CASE Load
  <2>1. task = NoTask /\ caller.artifact \in Artifacts
    BY <1>5 DEF Load
  <2>2. /\ task' = [NoTask EXCEPT !.artifact = caller.artifact, !.at = "spawned"]
        /\ caller' = [caller EXCEPT !.step = "starting"]
    BY <1>5, <2>1 DEF Load
  <2>3. /\ task' \in Tasks /\ task'.at = "spawned"
        /\ task'.artifact = caller.artifact
    BY <2>1, <2>2 DEF Tasks
  <2>4. /\ caller' \in Calls /\ caller'.step = "starting"
        /\ caller'.artifact = caller.artifact
    BY <2>2 DEF Calls
  <2>5. window' \in Nat
    BY <1>5, <2>1, WindowTyped DEF Load
  <2> QED
    BY <1>5, <2>1, <2>3, <2>4, <2>5 DEF Load
<1>6. CASE StartReturns
  BY <1>6 DEF StartReturns
<1>7. CASE TaskStarts
  <2>1. caller.step = "starting" /\ ~stop /\ task.artifact \in Artifacts
    BY <1>7 DEF TaskStarts, Tasks, Calls
  <2>2. Sleep(0) /\ 0 \in 0..FreezeAfter + 1
    BY <1>7, <2>1 DEF TaskStarts, FreezeAfter
  <2>3. alive' = TRUE /\ age' = 0 /\ UNCHANGED <<current, stop, window, caller>>
    BY <1>7, <2>2 DEF TaskStarts, Sleep
  <2>4. /\ task' \in Tasks /\ task'.at = "asleep"
        /\ task'.artifact = task.artifact
        /\ task'.sleep <= Period[task.artifact]
    BY <2>1, <2>2, SleepTyped
  <2>5. TypeOK'
    BY <2>1, <2>3, <2>4
  <2>6. AliveIsAsleep'
    BY <2>3, <2>4
  <2> QED
    BY <2>1, <2>3, <2>4, <2>5, <2>6
<1>8. CASE TaskWakes
  <2> DEFINE ticks == IF task.ticks > FreezeAfter THEN task.ticks
                      ELSE task.ticks + 1
  <2>1. ticks \in 0..FreezeAfter + 1 /\ task.artifact \in Artifacts
    BY <1>8 DEF TaskWakes, Tasks, FreezeAfter
  <2>2. age' \in 0..ClockWrap - 1
    BY <1>8 DEF TaskWakes
  <2> HIDE DEF ticks
  <2>3. CASE stop
    <3>1. /\ alive' = FALSE /\ task' = NoTask
          /\ UNCHANGED <<current, stop, window, caller>>
      BY <1>8, <2>3 DEF TaskWakes, Exit
    <3>2. caller.step = "stopping" /\ current = NoArtifact
      BY <1>8, <2>3 DEF TaskWakes, Calls
    <3>3. TypeOK'
      BY <2>2, <3>1
    <3>4. AliveIsAsleep'
      BY <3>1
    <3> QED
      BY <3>1, <3>2, <3>3, <3>4
  <2>4. CASE ~stop
    <3>1. Sleep(ticks)
      BY <1>8, <2>4 DEF TaskWakes, ticks
    <3>2. alive' = TRUE /\ UNCHANGED <<current, stop, window, caller>>
      BY <1>8, <3>1 DEF TaskWakes, Sleep
    <3>3. /\ task' \in Tasks /\ task'.at = "asleep"
          /\ task'.artifact = task.artifact
          /\ task'.sleep <= Period[task.artifact]
      BY <2>1, <3>1, SleepTyped
    <3>4. alive /\ caller.step # "stopping" /\ task.at = "asleep"
      BY <1>8, <2>4 DEF TaskWakes
    <3>5. TypeOK'
      BY <2>1, <2>2, <3>2, <3>3
    <3>6. AliveIsAsleep'
      BY <3>2, <3>3
    <3> QED
      BY <2>4, <3>2, <3>3, <3>4, <3>5, <3>6
  <2> QED
    BY <2>3, <2>4
<1>9. CASE Tick
  <2>1. /\ task' \in Tasks /\ task'.at = task.at
        /\ task'.artifact = task.artifact
        /\ task'.sleep = Less(task.sleep)
    BY <1>9 DEF Tick, Tasks, Less
  <2>2. /\ caller' \in Calls /\ caller'.step = caller.step
        /\ caller'.artifact = caller.artifact
        /\ caller'.left = Less(caller.left)
    BY <1>9 DEF Tick, Calls, Less
  <2>3. age' \in 0..ClockWrap - 1
    BY <1>9, AgeTyped DEF Tick
  <2>4. task = NoTask => task' = NoTask
    BY <1>9 DEF Tick, NoTask, Less
  <2>5. task'.sleep <= task.sleep
    BY <2>1 DEF Tasks, Less
  <2>6. (caller.step = "stopping" /\ alive) => task'.sleep < caller'.left
    BY <1>9, <2>1, <2>2 DEF Tick, WaitIsOver, Tasks, Calls, Less
  <2>7. (alive => task'.sleep <= Period[task.artifact])
    BY <2>5, <2>1 DEF Tasks
  <2> QED
    BY <1>9, <2>1, <2>2, <2>3, <2>4, <2>6, <2>7 DEF Tick
<1>10. CASE UNCHANGED vars
  BY <1>10 DEF vars
<1> QED
  BY <1>1, <1>2, <1>3, <1>4, <1>5, <1>6, <1>7, <1>8, <1>9, <1>10
     DEF Next, Step, Stop, Start

\* The probe runtime keeps its inductive invariant, if its probes are prompt.
THEOREM ProbeInvariance ==
  ASSUME PeriodsArePrompt
  PROVE  Spec => []ProbeInv
<1>1. Init => ProbeInv
  <2> SUFFICES ASSUME Init PROVE ProbeInv
    OBVIOUS
  <2>1. TypeOK
    <3>1. window \in Nat /\ age \in 0..ClockWrap - 1
      BY DEF Init
    <3>2. alive \in BOOLEAN /\ stop \in BOOLEAN
      BY DEF Init
    <3> QED
      BY <3>1, <3>2, NoTaskTyped, NoCallTyped DEF Init, TypeOK
  <2>2. AliveIsAsleep
    BY NoTaskTyped DEF Init, AliveIsAsleep
  <2>3. StopIsInTime /\ AnnouncedIsTask
    BY NoTaskTyped, NoCallTyped DEF Init, StopIsInTime, AnnouncedIsTask
  <2> QED
    BY <2>1, <2>2, <2>3 DEF ProbeInv
<1>2. ProbeInv /\ [Next]_vars => ProbeInv'
  BY ProbeInvNext
<1> QED
  BY <1>1, <1>2, PTL DEF Spec

\* stop leaves no task behind (probe_runtime.rs:10-12), for prompt probes.
THEOREM NoZombieIsLeft ==
  ASSUME PeriodsArePrompt
  PROVE  Spec => []NoZombieTask
<1>1. ProbeInv => NoZombieTask
  BY DEF ProbeInv, AnnouncedIsTask, NoZombieTask
<1> QED
  BY <1>1, ProbeInvariance, PTL

\* running names the artifact whose task runs, for prompt probes.
THEOREM RunningIsAlwaysTrue ==
  ASSUME PeriodsArePrompt
  PROVE  Spec => []RunningIsTrue
<1>1. ProbeInv => RunningIsTrue
  BY DEF ProbeInv, TypeOK, AnnouncedIsTask, RunningIsTrue, Running
<1> QED
  BY <1>1, ProbeInvariance, PTL

-----------------------------------------------------------------------------
(* Types and health, for probes of any period.                             *)

\* A reset re-establishes the invariant of the health answers.
LEMMA ResetHealth == StaticsReset => HealthInv'
<1> SUFFICES ASSUME StaticsReset PROVE HealthInv'
  OBVIOUS
<1>1. TypeOK'
  BY ResetInv DEF ProbeInv
<1>2. /\ alive' <=> task'.at = "asleep"
      /\ caller'.step = "loading" => caller'.artifact \in Artifacts
  BY NoTaskTyped, NoCallTyped DEF StaticsReset
<1>3. WindowIsOfCurrent' /\ ProgressIsRecent'
  BY NoTaskTyped DEF StaticsReset, WindowIsOfCurrent, ProgressIsRecent
<1> QED
  BY <1>1, <1>2, <1>3 DEF HealthInv

\* It is inductive, action by action.
LEMMA HealthInvNext ==
  ASSUME HealthInv, [Next]_vars
  PROVE  HealthInv'
<1> USE NoTaskTyped, NoCallTyped
    DEF HealthInv, TypeOK, WindowIsOfCurrent, ProgressIsRecent
<1>1. ASSUME NEW artifact \in Artifacts \cup {NoArtifact}, StopInner(artifact)
      PROVE  HealthInv'
  <2>1. CASE alive
    <3>1. caller' = [step |-> "stopping", artifact |-> artifact,
                     taken |-> current, left |-> StopWait]
      BY <1>1, <2>1 DEF StopInner
    <3>2. caller' \in Calls /\ caller'.step = "stopping"
      BY <3>1 DEF Calls
    <3> QED
      BY <1>1, <2>1, <3>2 DEF StopInner
  <2>2. CASE ~alive
    <3>1. /\ current' = NoArtifact /\ caller' = AfterStop(artifact)
          /\ UNCHANGED <<alive, stop, window, age, task>>
      BY <1>1, <2>2 DEF StopInner
    <3> QED
      BY <3>1, AfterStopTyped
  <2> QED
    BY <2>1, <2>2
<1>2. CASE StopWaitEnds
  <2>1. CASE StaticsReset
    BY <2>1, ResetHealth
  <2>2. CASE ~StaticsReset
    <3>1. /\ caller' = AfterStop(caller.artifact)
          /\ UNCHANGED <<current, alive, stop, window, age, task>>
      BY <1>2, <2>2 DEF StopWaitEnds
    <3>2. caller.artifact \in Artifacts \cup {NoArtifact}
      BY DEF Calls
    <3> QED
      BY <3>1, <3>2, AfterStopTyped
  <2> QED
    BY <2>1, <2>2
<1>3. CASE LoadFails
  BY <1>3 DEF LoadFails
<1>4. CASE LoadResets
  BY <1>4, ResetHealth DEF LoadResets
<1>5. CASE Load
  <2>1. /\ caller.artifact \in Artifacts /\ current' = caller.artifact
        /\ window' = WindowOf(caller.artifact) /\ window' \in Nat
        /\ stop' = FALSE /\ UNCHANGED <<alive, age>>
    BY <1>5, WindowTyped DEF Load
  <2>2. CASE task = NoTask
    <3>1. /\ task' = [NoTask EXCEPT !.artifact = caller.artifact,
                                    !.at = "spawned"]
          /\ caller' = [caller EXCEPT !.step = "starting"]
      BY <1>5, <2>2 DEF Load
    <3>2. /\ task' \in Tasks /\ task'.at = "spawned"
          /\ task'.artifact = caller.artifact
      BY <2>1, <3>1 DEF Tasks
    <3>3. caller' \in Calls /\ caller'.step = "starting"
      BY <3>1 DEF Calls
    <3> QED
      BY <2>1, <2>2, <3>2, <3>3
  <2>3. CASE task # NoTask
    <3>1. task' = task /\ caller' = NoCall
      BY <1>5, <2>3 DEF Load
    <3> QED
      BY <2>1, <3>1
  <2> QED
    BY <2>2, <2>3
<1>6. CASE StartReturns
  BY <1>6 DEF StartReturns
<1>7. CASE TaskStarts
  <2>1. /\ task.artifact \in Artifacts /\ age' = 0
        /\ UNCHANGED <<current, stop, window, caller>>
    BY <1>7 DEF TaskStarts, Tasks
  <2>2. CASE Exit
    <3>1. alive' = FALSE /\ task' = NoTask
      BY <2>2 DEF Exit
    <3>2. age' \in 0..ClockWrap - 1
      BY <2>1
    <3>3. alive' \in BOOLEAN
      BY <3>1
    <3> QED
      BY <2>1, <3>1, <3>2, <3>3
  <2>3. CASE Sleep(0)
    <3>1. /\ task' \in Tasks /\ task'.at = "asleep"
          /\ task'.artifact = task.artifact
          /\ task'.sleep = Period[task.artifact]
      BY <2>1, <2>3, SleepTyped DEF FreezeAfter
    <3>2. alive' = TRUE
      BY <2>3 DEF Sleep
    <3> QED
      BY <2>1, <3>1, <3>2
  <2> QED
    BY <1>7, <2>2, <2>3 DEF TaskStarts
<1>8. CASE TaskWakes
  <2> DEFINE ticks == IF task.ticks > FreezeAfter THEN task.ticks
                      ELSE task.ticks + 1
  <2>1. /\ ticks \in 0..FreezeAfter + 1 /\ task.artifact \in Artifacts
        /\ age' \in 0..ClockWrap - 1
        /\ Fault[task.artifact] # "freeze" => age' = 0
        /\ UNCHANGED <<current, stop, window, caller>>
    BY <1>8 DEF TaskWakes, Frozen, Tasks, FreezeAfter
  <2>2. Exit \/ Sleep(ticks)
    BY <1>8 DEF TaskWakes
  <2> HIDE DEF ticks
  <2>3. CASE Exit
    BY <2>1, <2>3 DEF Exit
  <2>4. CASE Sleep(ticks)
    <3>1. /\ task' \in Tasks /\ task'.at = "asleep"
          /\ task'.artifact = task.artifact
          /\ task'.sleep = Period[task.artifact]
      BY <2>1, <2>4, SleepTyped
    <3>2. alive' = TRUE
      BY <2>4 DEF Sleep
    <3> QED
      BY <2>1, <3>1, <3>2
  <2> QED
    BY <2>2, <2>3, <2>4
<1>9. CASE Tick
  <2>1. /\ task' \in Tasks /\ task'.at = task.at
        /\ task'.artifact = task.artifact
        /\ task'.sleep = Less(task.sleep)
    BY <1>9 DEF Tick, Tasks, Less
  <2>2. /\ caller' \in Calls /\ caller'.step = caller.step
        /\ caller'.artifact = caller.artifact
    BY <1>9 DEF Tick, Calls, Less
  <2>3. age' \in 0..ClockWrap - 1 /\ age' <= age + 1
    BY <1>9, AgeTyped DEF Tick
  <2>4. task.at = "asleep" => task'.sleep = task.sleep - 1
    BY <1>9, <2>1 DEF Tick, Tasks, Less
  <2>5. UNCHANGED <<current, alive, stop, window>>
    BY <1>9 DEF Tick
  <2>6. ProgressIsRecent'
    <3> SUFFICES ASSUME task.at = "asleep", Fault[task.artifact] # "freeze"
                 PROVE  age' + task'.sleep <= Period[task.artifact]
      BY <2>1
    <3>1. /\ task.artifact \in Artifacts /\ Period[task.artifact] \in Nat
          /\ task.sleep \in Nat /\ age \in Nat
      BY DEF Tasks
    <3> QED
      BY <2>3, <2>4, <3>1
  <2>7. TypeOK'
    BY <2>1, <2>2, <2>3, <2>5
  <2> QED
    BY <2>1, <2>2, <2>5, <2>6, <2>7
<1>10. CASE UNCHANGED vars
  BY <1>10 DEF vars
<1> QED
  BY <1>1, <1>2, <1>3, <1>4, <1>5, <1>6, <1>7, <1>8, <1>9, <1>10
     DEF Next, Step, Stop, Start

\* The invariant of the health answers holds, whatever the periods.
THEOREM HealthInvariance == Spec => []HealthInv
<1>1. Init => HealthInv
  <2> SUFFICES ASSUME Init PROVE HealthInv
    OBVIOUS
  <2>1. TypeOK
    <3>1. window \in Nat /\ age \in 0..ClockWrap - 1
      BY DEF Init
    <3>2. alive \in BOOLEAN /\ stop \in BOOLEAN
      BY DEF Init
    <3> QED
      BY <3>1, <3>2, NoTaskTyped, NoCallTyped DEF Init, TypeOK
  <2>2. /\ alive <=> task.at = "asleep"
        /\ caller.step = "loading" => caller.artifact \in Artifacts
    BY NoTaskTyped, NoCallTyped DEF Init
  <2>3. WindowIsOfCurrent /\ ProgressIsRecent
    BY NoTaskTyped DEF Init, WindowIsOfCurrent, ProgressIsRecent
  <2> QED
    BY <2>1, <2>2, <2>3 DEF HealthInv
<1>2. HealthInv /\ [Next]_vars => HealthInv'
  BY HealthInvNext
<1> QED
  BY <1>1, <1>2, PTL DEF Spec

\* Types, whatever the periods.
THEOREM ProbeTypeCorrect == Spec => []TypeOK
<1>1. HealthInv => TypeOK
  BY DEF HealthInv
<1> QED
  BY <1>1, HealthInvariance, PTL

\* health never calls a probe that counts unhealthy, whatever the periods and
\* whatever ran before (probe_runtime.rs:135-140).
THEOREM ProgressIsAlwaysHealthy == Spec => []ProgressIsHealthy
<1>1. HealthInv => ProgressIsHealthy
  <2> SUFFICES ASSUME HealthInv, Running # NoArtifact, task.artifact = current,
                      Fault[current] \notin {"freeze", "health_fail"}
               PROVE  Health = "healthy"
    BY DEF ProgressIsHealthy
  <2>1. alive /\ current # NoArtifact /\ task.at = "asleep"
    BY DEF Running, HealthInv
  <2>2. current \in Artifacts /\ window = WindowOf(current)
    BY <2>1 DEF HealthInv, TypeOK, WindowIsOfCurrent
  <2>3. age + task.sleep <= Period[current] /\ age \in Nat /\ task.sleep \in Nat
    BY <2>1 DEF HealthInv, TypeOK, ProgressIsRecent, Tasks
  <2>4. Period[current] \in Nat
    BY <2>2
  <2>5. age <= window
    BY <2>2, <2>3, <2>4 DEF WindowOf, MaxOf
  <2> QED
    BY <2>1, <2>5 DEF Health
<1> QED
  BY <1>1, HealthInvariance, PTL

-----------------------------------------------------------------------------
(* Freezes, for probes of any period.                                      *)

LEMMA UnannouncedNext ==
  ASSUME HealthInv, UnannouncedIsStopped, [Next]_vars
  PROVE  UnannouncedIsStopped'
<1>0. alive <=> task.at = "asleep"
  BY DEF HealthInv
<1>1. ASSUME NEW artifact, StopInner(artifact) PROVE UnannouncedIsStopped'
  BY <1>0, <1>1 DEF StopInner, UnannouncedIsStopped
<1>2. ASSUME StaticsReset PROVE UnannouncedIsStopped'
  BY <1>2, NoTaskTyped DEF StaticsReset, UnannouncedIsStopped
<1>3. CASE StopWaitEnds
  <2>1. CASE ~StaticsReset
    BY <1>3, <2>1 DEF StopWaitEnds, UnannouncedIsStopped
  <2> QED
    BY <1>2, <2>1
<1>4. CASE LoadFails \/ StartReturns
  BY <1>0, <1>4 DEF LoadFails, StartReturns, UnannouncedIsStopped
<1>5. CASE LoadResets
  BY <1>2, <1>5 DEF LoadResets
<1>6. CASE Load
  <2>1. current' \in Artifacts /\ current' # NoArtifact
    BY <1>6 DEF Load, HealthInv
  <2>2. CASE task = NoTask
    <3>1. caller' = [caller EXCEPT !.step = "starting"] /\ caller \in Calls
      BY <1>6, <2>2 DEF Load, HealthInv, TypeOK
    <3>2. caller'.step = "starting"
      BY <3>1 DEF Calls
    <3> QED
      BY <2>1, <3>2 DEF UnannouncedIsStopped
  <2>3. CASE task # NoTask
    <3>1. task' = task /\ task.at # "spawned"
      BY <1>6, <2>3 DEF Load, UnannouncedIsStopped
    <3> QED
      BY <2>1, <3>1 DEF UnannouncedIsStopped
  <2> QED
    BY <2>2, <2>3
<1>7. ASSUME Exit PROVE UnannouncedIsStopped'
  BY <1>7, NoTaskTyped DEF Exit, UnannouncedIsStopped
<1>8. ASSUME NEW ticks, Sleep(ticks), UNCHANGED <<current, stop>>,
             current = NoArtifact => stop
      PROVE  UnannouncedIsStopped'
  <2>1. task \in Tasks
    BY DEF HealthInv, TypeOK
  <2>2. task'.at = "asleep"
    BY <1>8, <2>1 DEF Sleep, Tasks
  <2> QED
    BY <1>8, <2>2 DEF UnannouncedIsStopped
<1>9. CASE TaskStarts
  BY <1>7, <1>8, <1>9 DEF TaskStarts, UnannouncedIsStopped
<1>10. CASE TaskWakes
  BY <1>7, <1>8, <1>10 DEF TaskWakes, UnannouncedIsStopped
<1>11. CASE Tick
  <2>1. task'.at = task.at /\ caller'.step = caller.step
    BY <1>11 DEF Tick, HealthInv, TypeOK, Tasks, Calls
  <2> QED
    BY <1>11, <2>1 DEF Tick, UnannouncedIsStopped
<1>12. CASE UNCHANGED vars
  BY <1>12 DEF vars, UnannouncedIsStopped
<1> QED
  BY <1>1, <1>3, <1>4, <1>5, <1>6, <1>9, <1>10, <1>11, <1>12
  DEF Next, Step, Stop, Start

\* A frozen probe that was not told to stop is answered by the age of its
\* progress alone, whatever the periods (probe_runtime.rs:127-141).
THEOREM FreezeIsAlwaysToldByAge == Spec => []FreezeIsToldByAge
<1>1. Init => UnannouncedIsStopped
  BY NoTaskTyped DEF Init, UnannouncedIsStopped
<1>2. HealthInv /\ UnannouncedIsStopped /\ [Next]_vars => UnannouncedIsStopped'
  BY UnannouncedNext
<1>3. HealthInv /\ UnannouncedIsStopped => FreezeIsToldByAge
  <2> SUFFICES ASSUME HealthInv, UnannouncedIsStopped, FrozenProbe, ~stop
               PROVE  /\ current # NoArtifact
                      /\ Health = IF /\ age <= WindowOf(current)
                                     /\ Fault[current] # "health_fail"
                                  THEN "healthy" ELSE "unhealthy"
    BY DEF FreezeIsToldByAge
  <2>1. alive /\ current # NoArtifact
    BY DEF HealthInv, UnannouncedIsStopped, FrozenProbe
  <2>2. window = WindowOf(current)
    BY <2>1 DEF HealthInv, WindowIsOfCurrent
  <2> QED
    BY <2>1, <2>2 DEF Health
<1> QED
  BY <1>1, <1>2, <1>3, HealthInvariance, PTL DEF Spec

\* A freeze is for good, and only time changes the age of its progress
\* (probe_runtime.rs:44).
THEOREM FreezeAlwaysAges == Spec => FreezeAges
<1>1. ASSUME HealthInv, [Next]_vars, FrozenProbe, task'.at = "asleep"
      PROVE  /\ FrozenProbe'
             /\ age' = IF Tick THEN (age + 1) % ClockWrap ELSE age
  <2>0. /\ task \in Tasks /\ task.at = "asleep" /\ task.ticks > FreezeAfter
    BY <1>1 DEF HealthInv, TypeOK, FrozenProbe, Frozen
  <2>1. CASE UNCHANGED <<task, age>> /\ ~Tick
    BY <1>1, <2>0, <2>1 DEF FrozenProbe, Frozen
  <2>2. CASE Tick
    <3>1. task'.artifact = task.artifact /\ task'.ticks = task.ticks
      BY <2>0, <2>2 DEF Tick, Tasks
    <3>2. age' = (age + 1) % ClockWrap
      BY <2>2 DEF Tick
    <3>3. FrozenProbe'
      BY <1>1, <2>0, <3>1 DEF FrozenProbe, Frozen
    <3> QED
      BY <2>2, <3>2, <3>3
  <2>3. CASE TaskWakes
    <3>1. age' = age /\ (Exit \/ Sleep(task.ticks))
      BY <1>1, <2>0, <2>3 DEF TaskWakes, FrozenProbe
    <3>2. ~Exit
      BY <1>1, NoTaskTyped DEF Exit
    <3>3. task'.artifact = task.artifact /\ task'.ticks = task.ticks
      BY <2>0, <3>1, <3>2 DEF Sleep, Tasks
    <3>4. ~Tick
      BY <2>0, <2>3 DEF Tick, TaskWakes, Tasks
    <3> QED
      BY <1>1, <2>0, <3>1, <3>3, <3>4 DEF FrozenProbe, Frozen
  <2>4. ~StaticsReset
    BY <1>1, NoTaskTyped DEF StaticsReset
  <2>5. CASE \E artifact : StopInner(artifact)
    BY <2>1, <2>2, <2>5 DEF StopInner
  <2>6. CASE StopWaitEnds \/ LoadFails \/ LoadResets \/ Load \/ StartReturns
    <3>1. UNCHANGED <<task, age>>
      BY <2>0, <2>4, <2>6, NoTaskTyped DEF StopWaitEnds, LoadFails, LoadResets,
         Load, StartReturns
    <3> QED
      BY <2>1, <2>2, <3>1
  <2>7. ~TaskStarts
    BY <2>0 DEF TaskStarts
  <2>8. CASE UNCHANGED vars
    BY <2>1, <2>2, <2>8 DEF vars
  <2> QED
    BY <1>1, <2>2, <2>3, <2>5, <2>6, <2>7, <2>8 DEF Next, Step, Stop, Start
<1>2. HealthInv /\ [Next]_vars =>
        [FrozenProbe /\ task'.at = "asleep" =>
           /\ FrozenProbe'
           /\ age' = IF Tick THEN (age + 1) % ClockWrap ELSE age]_vars
  BY <1>1
<1> QED
  BY <1>2, HealthInvariance, PTL DEF Spec, FreezeAges

================================================================================
