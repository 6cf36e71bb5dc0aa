----------------------------- MODULE WorkloadBoot -----------------------------
(***************************************************************************)
(* The crash-loop guard of the native runtime: the record in RTC memory    *)
(* and its three writers, which are the decision of a boot (workload.rs),  *)
(* the proof of health (native_runtime.rs: support_task) and the           *)
(* deliberate reboot (esp_reboot.rs).  A Workload runs on the second core  *)
(* and can take the whole chip down.  The record (boot_guard), the         *)
(* supervisor and the Workloads are external.                              *)
(***************************************************************************)
EXTENDS Naturals

CONSTANTS
  Workloads,
  Broken,     \* those that never run long enough to be proven healthy
  NoWorkload,
  MaxUncleanStarts, \* MAX_UNCLEAN_STARTS
  ProvenTicks,      \* observations that make PROVEN_HEALTHY_MS
  MaxCuts,    \* bound: power cuts
  MaxReboots, \* bound: deliberate reboots
  MaxResets,  \* bound: other resets, of the agent itself
  MaxDeploys  \* bound: activations of another Workload

ASSUME WorkloadAssumption ==
  /\ Broken \subseteq Workloads /\ NoWorkload \notin Workloads
  /\ MaxUncleanStarts \in Nat \ {0} /\ ProvenTicks \in Nat \ {0}
  /\ MaxCuts \in Nat /\ MaxReboots \in Nat /\ MaxResets \in Nat
  /\ MaxDeploys \in Nat

VARIABLES
  phase,    \* of the agent: its boot, the reconcile task, then serving
  attempts, \* GUARD_WORDS: unclean starts, kept over every reset but a power cut
  active,   \* durable: the active Workload
  running,  \* the Workload on the second core
  auto,     \* it was started by the boot, not by an operator
  proof,    \* ProvenHealth: healthy observations in a row
  suppressed, \* the decision of this boot was Suppressed
  reboot,   \* the delayed reboot
  crashes,  \* history: auto-starts in a row that took the chip down unproven
  unclean,  \* history: unclean resets in a row
  cuts, reboots, resets, deploys

history == <<crashes, unclean>>
bounds == <<cuts, reboots, resets, deploys>>
vars == <<phase, attempts, active, running, auto, proof, suppressed, reboot,
          history, bounds>>

\* The record never counts further than the decision looks.
TypeOK ==
  /\ phase \in {"boot", "decide", "reconcile", "serve"}
  /\ attempts \in 0..MaxUncleanStarts
  /\ active \in Workloads \cup {NoWorkload}
  /\ running \in Workloads \cup {NoWorkload}
  /\ auto \in BOOLEAN /\ suppressed \in BOOLEAN
  /\ proof \in 0..ProvenTicks
  /\ reboot \in {"none", "scheduled", "armed"}
  /\ crashes \in 0..(MaxUncleanStarts + 1)
  /\ unclean \in 0..(MaxUncleanStarts + 1)
  /\ cuts \in 0..MaxCuts /\ reboots \in 0..MaxReboots
  /\ resets \in 0..MaxResets /\ deploys \in 0..MaxDeploys

\* Power on: RTC memory is zero.
Init ==
  /\ phase = "boot"
  /\ attempts = 0
  /\ active \in Workloads \cup {NoWorkload}
  /\ running = NoWorkload /\ auto = FALSE /\ proof = 0
  /\ suppressed = FALSE /\ reboot = "none"
  /\ crashes = 0 /\ unclean = 0
  /\ cuts = 0 /\ reboots = 0 /\ resets = 0 /\ deploys = 0

-----------------------------------------------------------------------------
(* A boot.                                                                 *)

\* The agent decides to stay and spawns reconcile_task and support_task.  An
\* image that is rejected resets before, and leaves the record alone.
Stay ==
  /\ phase = "boot"
  /\ phase' = "decide"
  /\ UNCHANGED <<attempts, active, running, auto, proof, suppressed, reboot,
                 history, bounds>>

\* Mutant of Start: the attempt is not counted.
StartUncounted ==
  /\ attempts < MaxUncleanStarts
  /\ phase' = "reconcile"
  /\ UNCHANGED <<attempts, suppressed>>

\* Mutant of Start: the count is not looked at.
StartAlways ==
  /\ phase' = "reconcile"
  /\ attempts' = attempts + 1
  /\ UNCHANGED suppressed

\* boot_decision: Start, which counts this attempt ...
Start ==
  /\ attempts < MaxUncleanStarts
  /\ phase' = "reconcile"
  /\ attempts' = attempts + 1
  /\ UNCHANGED suppressed

\* ... or Suppressed: reconcile_task returns.
Suppress ==
  /\ attempts >= MaxUncleanStarts
  /\ phase' = "serve"
  /\ suppressed' = TRUE
  /\ UNCHANGED attempts

Decide ==
  /\ phase = "decide"
  /\ Start \/ Suppress
  /\ UNCHANGED <<active, running, auto, proof, reboot, history, bounds>>

\* supervisor.reconcile_boot: the active Workload, if any, is started.
Reconcile ==
  /\ phase = "reconcile"
  /\ phase' = "serve"
  /\ running' = active
  /\ auto' = TRUE
  /\ UNCHANGED <<attempts, active, proof, suppressed, reboot, history, bounds>>

-----------------------------------------------------------------------------
(* Health, deployments and deliberate reboots.                             *)

Proven == proof' = ProvenTicks

\* Mutant of Observe: the first healthy observation clears the record.
ObserveHealthy ==
  /\ phase = "serve" /\ running # NoWorkload /\ proof < ProvenTicks
  /\ proof' = proof + 1
  /\ auto /\ running \in Broken => ~Proven
  /\ attempts' = 0
  /\ crashes' = IF Proven THEN 0 ELSE crashes
  /\ unclean' = IF Proven THEN 0 ELSE unclean
  /\ UNCHANGED <<phase, active, running, auto, suppressed, reboot, bounds>>

\* support_task finds the Workload healthy; once that has lasted long enough
\* the record is cleared.  A broken one does not last that long, but one that
\* was deployed may have inherited the time it lacks.
Observe ==
  /\ phase = "serve" /\ running # NoWorkload /\ proof < ProvenTicks
  /\ proof' = proof + 1
  /\ auto /\ running \in Broken => ~Proven
  /\ attempts' = IF Proven THEN 0 ELSE attempts
  /\ crashes' = IF Proven THEN 0 ELSE crashes
  /\ unclean' = IF Proven THEN 0 ELSE unclean
  /\ UNCHANGED <<phase, active, running, auto, suppressed, reboot, bounds>>

\* It finds it unhealthy: the time starts again.
ObserveUnhealthy ==
  /\ phase = "serve" /\ proof \in 1..(ProvenTicks - 1)
  /\ proof' = 0
  /\ UNCHANGED <<phase, attempts, active, running, auto, suppressed, reboot,
                 history, bounds>>

\* An operator activates another Workload.  ProvenHealth is not told: it only
\* samples, so that one started between two samples inherits the time of the
\* one before.
Deploy ==
  /\ phase = "serve" /\ deploys < MaxDeploys
  /\ \E w \in Workloads : active' = w /\ running' = w
  /\ auto' = FALSE
  /\ proof' \in {0, proof}
  /\ deploys' = deploys + 1
  /\ UNCHANGED <<phase, attempts, suppressed, reboot, history, cuts, reboots,
                 resets>>

\* schedule_reboot: /reboot or an activation of the agent, which may come
\* while the Workload is still being loaded.
ScheduleReboot ==
  /\ phase \in {"reconcile", "serve"}
  /\ reboot = "none" /\ reboots < MaxReboots
  /\ reboot' = "scheduled"
  /\ reboots' = reboots + 1
  /\ UNCHANGED <<phase, attempts, active, running, auto, proof, suppressed,
                 history, cuts, resets, deploys>>

\* Mutant of MarkClean: the record is not told of the reboot.
MarkNothing ==
  /\ reboot = "scheduled"
  /\ reboot' = "armed"
  /\ UNCHANGED <<phase, attempts, active, running, auto, proof, suppressed,
                 history, bounds>>

\* 500 ms later: mark_clean_reboot, then the reset is armed.
MarkClean ==
  /\ reboot = "scheduled"
  /\ reboot' = "armed"
  /\ attempts' = 0
  /\ UNCHANGED <<phase, active, running, auto, proof, suppressed, history,
                 bounds>>

-----------------------------------------------------------------------------
(* Resets: everything is lost but the record and the active Workload.      *)

Restart ==
  /\ phase' = "boot"
  /\ running' = NoWorkload /\ auto' = FALSE /\ proof' = 0
  /\ suppressed' = FALSE /\ reboot' = "none"
  /\ UNCHANGED active

\* The histories tell no more than what is one too many.
OneMore(n) == IF n > MaxUncleanStarts THEN n ELSE n + 1

Forgive == crashes' = 0 /\ unclean' = 0

ArmedReset ==
  /\ reboot = "armed"
  /\ Restart
  /\ Forgive
  /\ UNCHANGED <<attempts, bounds>>

\* The Workload takes the chip down; a reset already armed is a clean one.
Crash ==
  /\ running # NoWorkload
  /\ Restart
  /\ IF reboot = "armed" THEN Forgive
     ELSE /\ crashes' = IF auto /\ proof # ProvenTicks THEN OneMore(crashes)
                        ELSE crashes
          /\ unclean' = OneMore(unclean)
  /\ UNCHANGED <<attempts, bounds>>

\* The agent itself goes down, with or without a Workload.
AgentReset ==
  /\ resets < MaxResets
  /\ resets' = resets + 1
  /\ Restart
  /\ IF reboot = "armed" THEN Forgive
     ELSE unclean' = OneMore(unclean) /\ UNCHANGED crashes
  /\ UNCHANGED <<attempts, cuts, reboots, deploys>>

\* A power cut zeroes the record; so does, by its checksum, a reset in the
\* middle of the write of a decision.
PowerCut ==
  /\ cuts < MaxCuts
  /\ cuts' = cuts + 1
  /\ attempts' = 0
  /\ Restart
  /\ Forgive
  /\ UNCHANGED <<reboots, resets, deploys>>

Next ==
  \/ Stay \/ Decide \/ Reconcile
  \/ Observe \/ ObserveUnhealthy \/ Deploy \/ ScheduleReboot \/ MarkClean
  \/ ArmedReset \/ Crash \/ AgentReset \/ PowerCut

Spec == Init /\ [][Next]_vars

\* The tasks of the agent run on, and an armed reset happens.
Fairness ==
  /\ WF_vars(Stay) /\ WF_vars(Decide) /\ WF_vars(Reconcile)
  /\ WF_vars(MarkClean) /\ WF_vars(ArmedReset)

FairSpec == Spec /\ Fairness

-----------------------------------------------------------------------------
(* What must hold.                                                         *)

\* workload.rs:122: a Workload that takes the chip down at every boot is
\* started so many times and no more.
CrashLoopIsBounded == crashes <= MaxUncleanStarts

\* native_runtime.rs:72: only unclean resets in a row, with no deliberate
\* reboot, no power cut and no proof of health among them, withhold a start.
SuppressedByUncleanResets ==
  [][suppressed' /\ ~suppressed => unclean >= MaxUncleanStarts]_vars

\* workload.rs:123, "the Agent stays up": in the end it does, unless again
\* and again a Workload is proven healthy before it takes the chip down.
AgentStaysUp == <>[](phase = "serve") \/ []<>(proof = ProvenTicks)

-----------------------------------------------------------------------------
(* The inductive invariant.                                                *)

\* The boot under way has counted its start.
Counted == phase = "reconcile" \/ (phase = "serve" /\ ~suppressed)

\* Each attempt the record counts is one unclean reset, the one under way
\* apart, until a deliberate reboot is marked.
AttemptsAreResets ==
  /\ IF Counted THEN attempts <= unclean + 1 ELSE attempts <= unclean
  /\ reboot # "none" => phase \in {"reconcile", "serve"}
  /\ reboot = "armed" => attempts = 0

\* Each crash that counts is an attempt; the one to come is one as well.
CrashesAreAttempts ==
  /\ running # NoWorkload => phase = "serve"
  /\ suppressed \/ auto => phase = "serve"
  /\ reboot # "armed" => crashes <= attempts
  /\ phase = "reconcile" \/ (phase = "serve" /\ auto /\ proof # ProvenTicks)
       => reboot = "armed" \/ crashes < attempts

GuardInv ==
  /\ TypeOK
  /\ AttemptsAreResets
  /\ CrashesAreAttempts
  /\ CrashLoopIsBounded

-----------------------------------------------------------------------------
(* Why the agent stays up, as far as it does not depend on fairness.       *)

\* The steps of a crash loop.  From where the agent is they lead at most to
\* the next decision; each start that a decision grants is one fewer to come.
StepsToDecision ==
  CASE phase = "decide"    -> 1
    [] phase = "boot"      -> 2
    [] phase = "reconcile" -> 4
    [] phase = "serve"     -> IF running = NoWorkload THEN 0 ELSE 3

StepsLeft == 4 * (MaxUncleanStarts - attempts) + StepsToDecision

\* workload.rs:123: a crash loop ends.  Each boot, decision, start and crash
\* leaves fewer of them to come: only an operator, a proof of health, a power
\* cut or a reset of the agent itself gives a Workload new starts.
EveryStartIsPaid ==
  [][Stay \/ Decide \/ Reconcile \/ Crash => StepsLeft' < StepsLeft]_vars

===============================================================================
