---------------------------- MODULE ProbeRuntime ----------------------------
(***************************************************************************)
(* The validation runtime of Workloads (workload/probe_runtime.rs): one    *)
(* embassy task that counts, and the start, stop, health and running       *)
(* operations that the supervisor calls.  The supervisor is external and   *)
(* has one start or stop in progress at a time.  Time passes in ticks: it  *)
(* advances when neither the task nor the caller has anything to run.      *)
(***************************************************************************)
EXTENDS Naturals

CONSTANTS
  Artifacts, \* the probe artifacts
  Fault,     \* the fault each of them asks for in its header
  Period,    \* its period, in ticks
  StopWait,  \* the wait of stop_inner and the least health window: 2 s
  NoArtifact,
  ClockWrap  \* the ticks after which the clock of 32 bits shows the same again

Faults ==
  {"none", "fail_start", "freeze", "health_fail", "reset_on_start",
   "reset_on_stop"}

ASSUME ProbeAssumption ==
  /\ NoArtifact \notin Artifacts
  /\ Fault \in [Artifacts -> Faults]
  /\ Period \in [Artifacts -> Nat \ {0}]
  /\ StopWait \in Nat \ {0}

MaxOf(m, n) == IF m > n THEN m ELSE n

\* Mutant of WindowOf: the window does not follow the period.
WindowFixed(artifact) == StopWait

WindowOf(artifact) == MaxOf(3 * Period[artifact], StopWait)

\* Periods have 16 bits and the clock 32: it does not come round within a
\* health window.
ASSUME AgeAssumption ==
  /\ ClockWrap \in Nat \ {0}
  /\ \A a \in Artifacts : WindowOf(a) < ClockWrap - 1

\* A freeze starts after the fourth period.
FreezeAfter == 4

VARIABLES
  current, \* CURRENT: the artifact that start announced
  alive,   \* ALIVE
  stop,    \* STOP
  window,  \* the health window that PERIOD_MS implies
  age,     \* the ticks from LAST_PROGRESS_MS to now_ms, as wrapping_sub has it
  task,    \* the one slot of the task pool
  caller   \* the start or stop in progress

vars == <<current, alive, stop, window, age, task, caller>>

Tasks ==
  [artifact : Artifacts \cup {NoArtifact},
   at : {"none", "spawned", "asleep"}, sleep : Nat, ticks : 0..FreezeAfter + 1]

Calls ==
  [step : {"idle", "stopping", "loading", "starting"},
   artifact : Artifacts \cup {NoArtifact},
   taken : Artifacts \cup {NoArtifact}, left : 0..StopWait]

NoTask == [artifact |-> NoArtifact, at |-> "none", sleep |-> 0, ticks |-> 0]
NoCall ==
  [step |-> "idle", artifact |-> NoArtifact, taken |-> NoArtifact, left |-> 0]

TypeOK ==
  /\ current \in Artifacts \cup {NoArtifact}
  /\ alive \in BOOLEAN
  /\ stop \in BOOLEAN
  /\ window \in Nat
  /\ age \in 0..ClockWrap - 1
  /\ task \in Tasks
  /\ task.at = "none" <=> task.artifact = NoArtifact
  /\ caller \in Calls

\* A reset clears every static.
StaticsReset ==
  /\ current' = NoArtifact
  /\ alive' = FALSE
  /\ stop' = FALSE
  /\ window' = StopWait
  /\ age' = 0
  /\ task' = NoTask
  /\ caller' = NoCall

Init ==
  /\ current = NoArtifact
  /\ alive = FALSE
  /\ stop = FALSE
  /\ window = StopWait
  /\ age = 0
  /\ task = NoTask
  /\ caller = NoCall

-----------------------------------------------------------------------------
(* The operations of the supervisor.                                       *)

\* What follows stop_inner: start goes on, stop returns.
AfterStop(artifact) ==
  IF artifact = NoArtifact THEN NoCall
  ELSE [NoCall EXCEPT !.step = "loading", !.artifact = artifact]

\* Mutant of StopInner: the task is awaited but not told.
StopInnerSilent(artifact) ==
  /\ caller.step = "idle"
  /\ current' = NoArtifact
  /\ caller' = IF alive
               THEN [step |-> "stopping", artifact |-> artifact,
                     taken |-> current, left |-> StopWait]
               ELSE AfterStop(artifact)
  /\ UNCHANGED <<alive, stop, window, age, task>>

\* stop_inner, up to its first await: nothing is announced any more, and a
\* live task is told to stop.  artifact is what start is to run, if any.
StopInner(artifact) ==
  /\ caller.step = "idle"
  /\ current' = NoArtifact
  /\ IF alive
     THEN /\ stop' = TRUE
          /\ caller' = [step |-> "stopping", artifact |-> artifact,
                        taken |-> current, left |-> StopWait]
     ELSE /\ stop' = stop
          /\ caller' = AfterStop(artifact)
  /\ UNCHANGED <<alive, window, age, task>>

Stop == StopInner(NoArtifact)
Start == \E artifact \in Artifacts : StopInner(artifact)

\* Mutant of WaitIsOver: the flag is set and that is all.
WaitNever == TRUE

\* Its wait is over when the task is gone, or after two seconds.
WaitIsOver == ~alive \/ caller.left = 0

StopWaitEnds ==
  /\ caller.step = "stopping"
  /\ WaitIsOver
  /\ IF caller.taken # NoArtifact /\ Fault[caller.taken] = "reset_on_stop"
     THEN StaticsReset
     ELSE /\ caller' = AfterStop(caller.artifact)
          /\ UNCHANGED <<current, alive, stop, window, age, task>>

\* The header cannot be read, is not a probe, or asks start to fail.
LoadFails ==
  /\ caller.step = "loading"
  /\ caller' = NoCall
  /\ UNCHANGED <<current, alive, stop, window, age, task>>

LoadResets ==
  /\ caller.step = "loading"
  /\ Fault[caller.artifact] = "reset_on_start"
  /\ StaticsReset

\* The statics are set before the task slot is claimed: if it is busy, start
\* answers an error and leaves them as they are.
Load ==
  /\ caller.step = "loading"
  /\ Fault[caller.artifact] \notin {"fail_start", "reset_on_start"}
  /\ stop' = FALSE
  /\ window' = WindowOf(caller.artifact)
  /\ current' = caller.artifact
  /\ IF task = NoTask
     THEN /\ task' = [NoTask EXCEPT !.artifact = caller.artifact,
                                    !.at = "spawned"]
          /\ caller' = [caller EXCEPT !.step = "starting"]
     ELSE /\ task' = task
          /\ caller' = NoCall
  /\ UNCHANGED <<alive, age>>

\* start returns once the task lives.  Its wait of a second never expires:
\* the executor polls a spawned task before time passes.
StartReturns ==
  /\ caller.step = "starting"
  /\ alive
  /\ caller' = NoCall
  /\ UNCHANGED <<current, alive, stop, window, age, task>>

-----------------------------------------------------------------------------
(* probe_task.                                                             *)

\* Mutant of Exit: the task slot is not released.
ExitKeepsSlot == alive' = FALSE /\ task' = [task EXCEPT !.at = "none"]

Exit == alive' = FALSE /\ task' = NoTask

\* The task sleeps for a period.
Sleep(ticks) ==
  /\ alive' = TRUE
  /\ task' = [task EXCEPT !.at = "asleep", !.ticks = ticks,
                          !.sleep = Period[task.artifact]]

TaskStarts ==
  /\ task.at = "spawned"
  /\ age' = 0
  /\ IF stop THEN Exit ELSE Sleep(0)
  /\ UNCHANGED <<current, stop, window, caller>>

Frozen(ticks) == Fault[task.artifact] = "freeze" /\ ticks > FreezeAfter

\* Mutant of TaskWakes: progress is reported although the counter is frozen.
TaskWakesAnyway ==
  /\ task.at = "asleep"
  /\ task.sleep = 0
  /\ age' = 0
  /\ IF stop THEN Exit
     ELSE Sleep(IF task.ticks > FreezeAfter THEN task.ticks ELSE task.ticks + 1)
  /\ UNCHANGED <<current, stop, window, caller>>

\* A period ends: the task counts it, unless frozen, then looks at STOP.
TaskWakes ==
  /\ task.at = "asleep"
  /\ task.sleep = 0
  /\ LET ticks == IF task.ticks > FreezeAfter THEN task.ticks
                  ELSE task.ticks + 1
     IN  /\ age' = IF Frozen(ticks) THEN age ELSE 0
         /\ IF stop THEN Exit ELSE Sleep(ticks)
  /\ UNCHANGED <<current, stop, window, caller>>

\* Time passes when nothing is ready to run.  A progress that is not renewed
\* grows old, until the clock has come round and shows it as new again.
Less(n) == IF n = 0 THEN 0 ELSE n - 1
Tick ==
  /\ task.at # "spawned"
  /\ task.at = "asleep" => task.sleep > 0
  /\ caller.step # "starting"
  /\ caller.step = "stopping" => ~WaitIsOver
  /\ age' = (age + 1) % ClockWrap
  /\ task' = [task EXCEPT !.sleep = Less(task.sleep)]
  /\ caller' = [caller EXCEPT !.left = Less(caller.left)]
  /\ UNCHANGED <<current, alive, stop, window>>

Step == StopWaitEnds \/ LoadFails \/ LoadResets \/ Load \/ StartReturns
        \/ TaskStarts \/ TaskWakes

Next == Stop \/ Start \/ Step \/ Tick

Spec == Init /\ [][Next]_vars

\* The executor runs what is ready, and time goes on.
FairSpec == Spec /\ WF_vars(Step) /\ WF_vars(Tick)

-----------------------------------------------------------------------------
(* What the supervisor is answered.                                        *)

Running == IF alive THEN current ELSE NoArtifact

Health ==
  CASE current = NoArtifact \/ ~alive -> "unknown"
    [] current # NoArtifact /\ alive /\ Fault[current] = "health_fail" ->
         "unhealthy"
    [] OTHER -> IF age <= window THEN "healthy" ELSE "unhealthy"

\* The artifact that running() names is the one whose task runs.
RunningIsTrue == Running # NoArtifact => task.artifact = Running

\* probe_runtime.rs:10-12: once stop has returned, or start has failed
\* before it spawned anything, no task is left.
NoZombieTask ==
  (caller.step = "idle" /\ current = NoArtifact) => task = NoTask

\* Every probe that may run has a period shorter than stop waits.
PeriodsArePrompt == \A a \in Artifacts : Period[a] < StopWait

\* The strengthening of the two invariants above, for such probes.
\* The flag and the task agree ...
AliveIsAsleep ==
  /\ alive <=> task.at = "asleep"
  /\ task.at = "none" => task = NoTask
  /\ alive => task.sleep <= Period[task.artifact]

\* ... a stop waits for a task that will look at the flag before it gives up ...
StopIsInTime ==
  caller.step = "stopping" =>
    /\ current = NoArtifact
    /\ task.at # "spawned"
    /\ alive => stop /\ task.sleep < caller.left

\* ... and outside of a stop the task is the announced one.
AnnouncedIsTask ==
  /\ current = NoArtifact \/ task.artifact = current
  /\ caller.step \in {"loading", "idle"} =>
       (current = NoArtifact => task = NoTask) /\ task.at # "spawned"
  /\ caller.step = "loading" => current = NoArtifact
  /\ caller.step = "starting" => current # NoArtifact /\ ~stop
  /\ caller.step \in {"loading", "starting"} => caller.artifact \in Artifacts
  /\ caller.step = "idle" => (current # NoArtifact => ~stop)

ProbeInv == TypeOK /\ AliveIsAsleep /\ StopIsInTime /\ AnnouncedIsTask

\* A probe that keeps counting is never reported unhealthy, whatever its
\* period and whatever ran before it.
ProgressIsHealthy ==
  (/\ Running # NoArtifact
   /\ task.artifact = current
   /\ Fault[current] \notin {"freeze", "health_fail"}) => Health = "healthy"

\* Its strengthening, for any probes.  The window follows the announced probe,
\* even when start then fails ...
WindowIsOfCurrent == current # NoArtifact => window = WindowOf(current)

\* ... and progress is no older than the period of a task that counts.
ProgressIsRecent ==
  (task.at = "asleep" /\ Fault[task.artifact] # "freeze") =>
    age + task.sleep <= Period[task.artifact]

HealthInv ==
  /\ TypeOK
  /\ alive <=> task.at = "asleep"
  /\ caller.step = "loading" => caller.artifact \in Artifacts
  /\ WindowIsOfCurrent
  /\ ProgressIsRecent

\* A frozen probe is found out, unless it is stopped first.
FreezeIsFound ==
  (task.at = "asleep" /\ Frozen(task.ticks)) ~>
    (Health = "unhealthy" \/ stop \/ task.at # "asleep")

\* A task whose counter is frozen.
FrozenProbe == task.at = "asleep" /\ Frozen(task.ticks)

\* Of FreezeIsFound, what does not depend on fairness.  A freeze is for good:
\* its progress is never renewed, and only time changes its age ...
FreezeAges ==
  [][FrozenProbe /\ task'.at = "asleep" =>
       /\ FrozenProbe'
       /\ age' = IF Tick THEN (age + 1) % ClockWrap ELSE age]_vars

\* ... and unless it was told to stop, the age alone tells whoever asks of it,
\* or of the probe that a failed start announced in its place: healthy for one
\* window, unhealthy for the rest of each round of the clock.  That is less
\* than probe_runtime.rs:9 says, Unhealthy once it froze: when the clock has
\* come round, after 2^32 ms, a frozen probe is healthy for a window again.
FreezeIsToldByAge ==
  FrozenProbe /\ ~stop =>
    /\ current # NoArtifact
    /\ Health = IF age <= WindowOf(current) /\ Fault[current] # "health_fail"
                THEN "healthy" ELSE "unhealthy"

\* Its strengthening: a task that nobody announces any more has been told to
\* stop, and one that has not run yet is awaited by the start that spawned it.
UnannouncedIsStopped ==
  /\ task.at = "spawned" =>
       caller.step = "starting" /\ current # NoArtifact
  /\ task.at = "asleep" /\ current = NoArtifact => stop

==============================================================================
